---------------------------- MODULE ServerConns ----------------------------
(***************************************************************************)
(* sofabolt/server.go, conn/stateconn: the connections of a server.        *)
(*                                                                         *)
(* Serve accepts connections and gives each one to a worker, which runs     *)
(* ServeConn: it wraps the connection in a StateConn from a sync.Pool,      *)
(* registers that in srv.conns, serves commands, closes, releases and       *)
(* deregisters it.  Shutdown closes the listeners and sweeps srv.conns,     *)
(* with the server's mutex held, every tick and once more when its context  *)
(* is done.  Registering and deregistering take the mutex; reading,         *)
(* writing, closing, acquiring and releasing a StateConn do not, so the     *)
(* steps of a sweep interleave with them.                                   *)
(*                                                                         *)
(* Commands are abstracted to the reads and writes they make; the metrics   *)
(* and the events for the user's handler are left out.                      *)
(***************************************************************************)
EXTENDS Integers, FiniteSets

CONSTANTS
  Conns,      \* the connections clients make
  None,       \* Go's nil
  MaxConns    \* bound: the largest options.maxConnections

ASSUME ServerAssumption == None \notin Conns /\ MaxConns \in Nat \ {0}

(* A StateConn is named after the connection it was allocated for.          *)
StateConns == Conns

VARIABLES
  lpc, listening, registered,   \* Serve, its listener, whether in srv.listeners
  pc, raw, sc, hijacked,        \* per connection: ServeConn and its locals
  state, old, conn,             \* per StateConn: State, idle for 5 s, net.Conn
  pool, conns,                  \* statePool; srv.conns
  spc, todo, cur, force, lived, \* Shutdown and the sweep of closeConns
  done,                         \* the context of Shutdown is done
  async, workers                \* options.async, options.maxConnections

serveVars == <<lpc, listening, registered>>
connVars  == <<pc, raw, sc, hijacked>>
scVars    == <<state, old, conn, pool>>
sweepVars == <<spc, todo, cur, force, lived>>
options   == <<async, workers>>
vars == <<serveVars, connVars, scVars, conns, sweepVars, done, options>>

ConnPC  == {"out", "overflow", "acquire", "setconn", "add", "read", "reading", "handle",
            "close", "closeset", "closeraw", "release", "del", "done"}
SweepPC == {"no", "sweep", "next", "rawclose", "check", "set", "close", "poll", "returned"}

TypeOK ==
  /\ lpc \in {"start", "accept", "stop", "stopped"}
  /\ listening \in BOOLEAN /\ registered \in BOOLEAN
  /\ pc \in [Conns -> ConnPC] /\ raw \in [Conns -> {"none", "open", "closed"}]
  /\ sc \in [Conns -> StateConns \cup {None}] /\ hijacked \in [Conns -> BOOLEAN]
  /\ state \in [StateConns -> {"new", "active", "closed"}]
  /\ old \in [StateConns -> BOOLEAN] /\ conn \in [StateConns -> Conns \cup {None}]
  /\ pool \subseteq StateConns /\ conns \subseteq StateConns
  /\ spc \in SweepPC /\ todo \subseteq StateConns /\ cur \in StateConns \cup {None}
  /\ force \in BOOLEAN /\ lived \in BOOLEAN /\ done \in BOOLEAN
  /\ async \in BOOLEAN /\ workers \in 1..MaxConns

Init ==
  /\ lpc = "start" /\ listening = TRUE /\ registered = FALSE
  /\ pc = [k \in Conns |-> "out"] /\ raw = [k \in Conns |-> "none"]
  /\ sc = [k \in Conns |-> None] /\ hijacked = [k \in Conns |-> FALSE]
  /\ state = [x \in StateConns |-> "new"] /\ old = [x \in StateConns |-> FALSE]
  /\ conn = [x \in StateConns |-> None]
  /\ pool = {} /\ conns = {}
  /\ spc = "no" /\ todo = {} /\ cur = None /\ force = FALSE /\ lived = FALSE
  /\ done = FALSE /\ async \in BOOLEAN /\ workers \in 1..MaxConns

(* The mutex is held across steps by a sweep only.                          *)
Locked == spc \in {"next", "rawclose", "check", "set", "close"}

Goto(k, p)     == pc' = [pc EXCEPT ![k] = p]
(* SetState: the state and the time of the change.                          *)
SetState(x, s) == state' = [state EXCEPT ![x] = s] /\ old' = [old EXCEPT ![x] = FALSE]
CloseRaw(k)    == raw' = [raw EXCEPT ![k] = "closed"]

-----------------------------------------------------------------------------
(* Serve.                                                                   *)

AddListener ==
  /\ lpc = "start" /\ ~Locked
  /\ registered' = TRUE /\ lpc' = "accept"
  /\ UNCHANGED <<listening, connVars, scVars, conns, sweepVars, done, options>>

Busy == {k \in Conns : pc[k] \notin {"out", "overflow", "done"}}

(* A connection is accepted; the worker pool takes it, or is full and the   *)
(* connection is left to the user's event handler.                          *)
Accept(k) ==
  /\ lpc = "accept" /\ listening /\ pc[k] = "out"
  /\ raw' = [raw EXCEPT ![k] = "open"]
  /\ Goto(k, IF Cardinality(Busy) < workers THEN "acquire" ELSE "overflow")
  /\ UNCHANGED <<serveVars, sc, hijacked, scVars, conns, sweepVars, done, options>>

(* Accept fails for good; after a temporary error Serve would try again.    *)
AcceptFails ==
  /\ lpc = "accept" /\ lpc' = "stop"
  /\ UNCHANGED <<listening, registered, connVars, scVars, conns, sweepVars, done, options>>

DelListener ==
  /\ lpc = "stop" /\ ~Locked
  /\ registered' = FALSE /\ lpc' = "stopped"
  /\ UNCHANGED <<listening, connVars, scVars, conns, sweepVars, done, options>>

(* The user closes the listener.                                            *)
UserClosesListener ==
  /\ listening /\ listening' = FALSE
  /\ UNCHANGED <<lpc, registered, connVars, scVars, conns, sweepVars, done, options>>

-----------------------------------------------------------------------------
(* ServeConn.                                                               *)

(* Mutant: a pool that is empty gives nothing.                              *)
NotAllocated(k) == None

(* What the pool allocates.                                                 *)
NewStateConn(k) == k

(* AcquireConn: any pooled StateConn or a new one; its state is set before  *)
(* its connection.                                                          *)
Acquire(k) ==
  /\ pc[k] = "acquire"
  /\ \E x \in pool \cup {NewStateConn(k)} :
        /\ sc' = [sc EXCEPT ![k] = x]
        /\ pool' = pool \ {x}
        /\ SetState(x, "new")
  /\ Goto(k, "setconn")
  /\ UNCHANGED <<serveVars, raw, hijacked, conn, conns, sweepVars, done, options>>

SetConn(k) ==
  /\ pc[k] = "setconn"
  /\ conn' = [conn EXCEPT ![sc[k]] = k]
  /\ Goto(k, "add")
  /\ UNCHANGED <<serveVars, raw, sc, hijacked, state, old, pool, conns, sweepVars, done, options>>

AddConn(k) ==
  /\ pc[k] = "add" /\ ~Locked
  /\ conns' = conns \cup {sc[k]}
  /\ Goto(k, "read")
  /\ UNCHANGED <<serveVars, raw, sc, hijacked, scVars, sweepVars, done, options>>

(* StateConn.Read: the state, then the read itself.                         *)
Read(k) ==
  /\ pc[k] = "read"
  /\ SetState(sc[k], "active")
  /\ Goto(k, "reading")
  /\ UNCHANGED <<serveVars, raw, sc, hijacked, conn, pool, conns, sweepVars, done, options>>

(* A command takes one read or several.                                     *)
ReadReturns(k) ==
  /\ pc[k] = "reading" /\ raw[k] = "open"
  /\ \E p \in {"read", "handle"} : Goto(k, p)
  /\ UNCHANGED <<serveVars, raw, sc, hijacked, scVars, conns, sweepVars, done, options>>

(* StateConn.Write: a flush, if there is something to flush.                *)
MayWrite(k) == SetState(sc[k], "active") \/ UNCHANGED <<state, old>>

(* End of file, a deadline, a command that is no request, a closed conn;    *)
(* the buffer is flushed once more.                                         *)
ReadFails(k) ==
  /\ pc[k] = "reading"
  /\ MayWrite(k)
  /\ Goto(k, "close")
  /\ UNCHANGED <<serveVars, raw, sc, hijacked, conn, pool, conns, sweepVars, done, options>>

(* HandleCommand and the flush of what it wrote, which may fail.  The next  *)
(* command may have been read with this one.                                *)
Handle(k) ==
  /\ pc[k] = "handle"
  /\ MayWrite(k)
  /\ \E p \in {"read", "handle", "close"} : Goto(k, p)
  /\ UNCHANGED <<serveVars, raw, sc, hijacked, conn, pool, conns, sweepVars, done, options>>

(* A goroutine of an asynchronous command writes; serveConn waits for it.   *)
AsyncWrite(k) ==
  /\ async /\ pc[k] \in {"read", "reading", "handle"}
  /\ SetState(sc[k], "active")
  /\ UNCHANGED <<serveVars, connVars, conn, pool, conns, sweepVars, done, options>>

(* Mutant: a hijacked connection's StateConn is released like any other.    *)
ReleasesHijacked == "release"

(* What follows the event of a hijacked connection.                         *)
AfterHijack == "del"

(* The handler hijacks the connection; asynchronous commands cannot.        *)
Hijack(k) ==
  /\ pc[k] = "handle" /\ ~async
  /\ hijacked' = [hijacked EXCEPT ![k] = TRUE]
  /\ MayWrite(k)
  /\ Goto(k, AfterHijack)
  /\ UNCHANGED <<serveVars, raw, sc, conn, pool, conns, sweepVars, done, options>>

(* StateConn.Close: "close once", a test and a store that are not atomic.   *)
CloseCheck(k) ==
  /\ pc[k] = "close"
  /\ Goto(k, IF state[sc[k]] = "closed" THEN "release" ELSE "closeset")
  /\ UNCHANGED <<serveVars, raw, sc, hijacked, scVars, conns, sweepVars, done, options>>

CloseSet(k) ==
  /\ pc[k] = "closeset"
  /\ SetState(sc[k], "closed")
  /\ Goto(k, "closeraw")
  /\ UNCHANGED <<serveVars, raw, sc, hijacked, conn, pool, conns, sweepVars, done, options>>

CloseConn(k) ==
  /\ pc[k] = "closeraw"
  /\ CloseRaw(conn[sc[k]])
  /\ Goto(k, "release")
  /\ UNCHANGED <<serveVars, sc, hijacked, scVars, conns, sweepVars, done, options>>

ReleaseConn(k) ==
  /\ pc[k] = "release"
  /\ pool' = pool \cup {sc[k]}
  /\ Goto(k, "del")
  /\ UNCHANGED <<serveVars, raw, sc, hijacked, state, old, conn, conns, sweepVars, done, options>>

(* Mutant: the StateConn stays registered.                                  *)
StillRegistered(k) == conns

(* delete(srv.conns, conn).                                                 *)
Deregistered(k) == conns \ {sc[k]}

DelConn(k) ==
  /\ pc[k] = "del" /\ ~Locked
  /\ conns' = Deregistered(k)
  /\ Goto(k, "done")
  /\ UNCHANGED <<serveVars, raw, sc, hijacked, scVars, sweepVars, done, options>>

-----------------------------------------------------------------------------
(* Shutdown.                                                                *)

(* closeListeners: a listener that cannot be closed ends Shutdown.          *)
CloseListeners ==
  /\ spc = "no" /\ ~Locked
  /\ IF registered /\ ~listening
     THEN spc' = "returned" /\ UNCHANGED <<listening, registered>>
     ELSE /\ spc' = "sweep" /\ registered' = FALSE
          /\ listening' = (listening /\ ~registered)
  /\ UNCHANGED <<lpc, connVars, scVars, conns, todo, cur, force, lived, done, options>>

(* closeConns: the mutex is taken.                                          *)
SweepBegin ==
  /\ spc = "sweep"
  /\ spc' = "next" /\ todo' = conns /\ lived' = FALSE
  /\ UNCHANGED <<serveVars, connVars, scVars, conns, cur, force, done, options>>

(* The state of one connection: one that has not changed for five seconds   *)
(* is left alone unless it is new; any other one is closed.                 *)
Kept(x) == ~force /\ old[x] /\ state[x] # "new"

SweepNext(x) ==
  /\ spc = "next" /\ x \in todo
  /\ IF Kept(x)
     THEN lived' = TRUE /\ todo' = todo \ {x} /\ UNCHANGED <<spc, cur>>
     ELSE /\ spc' = IF force THEN "check" ELSE "rawclose"
          /\ cur' = x
          /\ UNCHANGED <<lived, todo>>
  /\ UNCHANGED <<serveVars, connVars, scVars, conns, force, done, options>>

(* sg.GetConn().Close().                                                    *)
SweepRaw ==
  /\ spc = "rawclose"
  /\ CloseRaw(conn[cur])
  /\ spc' = "check"
  /\ UNCHANGED <<serveVars, pc, sc, hijacked, scVars, conns, todo, cur, force, lived, done, options>>

(* c.Close(), in the steps of StateConn.Close, and the deletion.            *)
Swept ==
  /\ spc' = "next" /\ conns' = conns \ {cur} /\ todo' = todo \ {cur} /\ cur' = None

SweepCheck ==
  /\ spc = "check"
  /\ IF state[cur] = "closed" THEN Swept
     ELSE spc' = "set" /\ UNCHANGED <<conns, todo, cur>>
  /\ UNCHANGED <<serveVars, connVars, scVars, force, lived, done, options>>

SweepSet ==
  /\ spc = "set"
  /\ SetState(cur, "closed")
  /\ spc' = "close"
  /\ UNCHANGED <<serveVars, connVars, conn, pool, conns, todo, cur, force, lived, done, options>>

SweepClose ==
  /\ spc = "close"
  /\ CloseRaw(conn[cur])
  /\ Swept
  /\ UNCHANGED <<serveVars, pc, sc, hijacked, scVars, force, lived, done, options>>

(* The mutex is released; Shutdown returns when connections live, and after *)
(* the forced sweep.                                                        *)
SweepEnd ==
  /\ spc = "next" /\ todo = {}
  /\ spc' = IF force \/ lived THEN "returned" ELSE "poll"
  /\ UNCHANGED <<serveVars, connVars, scVars, conns, todo, cur, force, lived, done, options>>

Tick ==
  /\ spc = "poll" /\ spc' = "sweep"
  /\ UNCHANGED <<serveVars, connVars, scVars, conns, todo, cur, force, lived, done, options>>

(* Mutant: the context is not looked at.                                    *)
DoneIgnored == FALSE

(* ctx.Done() is ready.                                                     *)
DoneReady == done

PollDone ==
  /\ spc = "poll" /\ DoneReady
  /\ spc' = "sweep" /\ force' = TRUE
  /\ UNCHANGED <<serveVars, connVars, scVars, conns, todo, cur, lived, done, options>>

CtxDone ==
  /\ ~done /\ done' = TRUE
  /\ UNCHANGED <<serveVars, connVars, scVars, conns, sweepVars, options>>

(* Five seconds pass without a change of state; closeConns reads the clock  *)
(* once.                                                                    *)
Age(x) ==
  /\ ~old[x] /\ ~Locked /\ x \in conns
  /\ old' = [old EXCEPT ![x] = TRUE]
  /\ UNCHANGED <<serveVars, connVars, state, conn, pool, conns, sweepVars, done, options>>

-----------------------------------------------------------------------------
ServeConnStep(k) ==
  \/ Acquire(k) \/ SetConn(k) \/ AddConn(k) \/ Read(k) \/ ReadReturns(k) \/ ReadFails(k)
  \/ Handle(k) \/ AsyncWrite(k) \/ Hijack(k) \/ CloseCheck(k) \/ CloseSet(k)
  \/ CloseConn(k) \/ ReleaseConn(k) \/ DelConn(k)

SweepStep ==
  \/ SweepBegin \/ (\E x \in StateConns : SweepNext(x)) \/ SweepRaw \/ SweepCheck
  \/ SweepSet \/ SweepClose \/ SweepEnd

Next ==
  \/ AddListener \/ AcceptFails \/ DelListener \/ UserClosesListener
  \/ \E k \in Conns : Accept(k) \/ ServeConnStep(k) \/ Age(k)
  \/ CloseListeners \/ SweepStep \/ Tick \/ PollDone \/ CtxDone

Spec == Init /\ [][Next]_vars

(* The goroutine of Shutdown runs; of a ticker and a context that are both  *)
(* ready select takes each one again and again, since it chooses at random. *)
Fairness == WF_vars(SweepStep) /\ WF_vars(Tick \/ PollDone) /\ SF_vars(PollDone)
FairSpec == Spec /\ Fairness

-----------------------------------------------------------------------------
(* The connection is in the hands of ServeConn or, hijacked, of the user.   *)
Held(k) ==
  \/ pc[k] \in {"setconn", "add", "read", "reading", "handle", "close", "closeset",
                "closeraw", "release"}
  \/ hijacked[k]

(* No two connections share a StateConn, and none in use is in the pool,    *)
(* the one a hijacker took away included (server.go:161-174,                *)
(* stateconn/syncpool.go:27-39).                                            *)
Exclusive ==
  \A k \in Conns : Held(k) => /\ sc[k] \notin pool
                              /\ \A j \in Conns \ {k} : Held(j) => sc[j] # sc[k]

(* srv.conns does not grow for ever: whatever is in it is a StateConn that  *)
(* some connection has registered and not yet deregistered, although the    *)
(* StateConn is released and reused before it is deregistered               *)
(* (server.go:162, 173-176, 416).                                           *)
NoStaleConn ==
  \A x \in conns :
     \E k \in Conns : sc[k] = x /\ pc[k] \notin {"acquire", "setconn", "add", "done"}

(* A connection that was hijacked is the user's once ServeConn has returned: *)
(* no sweep closes it any more, the one under way included                  *)
(* (server.go:165, 176, 394-417).                                           *)
HijackedUntouched ==
  [][\A k \in Conns : hijacked[k] /\ pc[k] = "done" => raw'[k] = raw[k]]_vars

(* Shutdown returns once its context is done, whatever the connections do   *)
(* (server.go:446-458).                                                     *)
ShutdownReturns == (spc # "no" /\ done) ~> (spc = "returned")

=============================================================================
