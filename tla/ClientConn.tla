----------------------------- MODULE ClientConn -----------------------------
(***************************************************************************)
(* sofabolt/clinetconn.go and sofabolt/protocol/bolt/clientx_bolt.go: the   *)
(* second client.  ClientConn owns the connection, its reader goroutine and *)
(* its status, and dials again; ClientConnBOLT, its dispatcher, matches     *)
(* responses with calls.                                                    *)
(*                                                                          *)
(* Against Client: request ids do not wrap but run out, every error of the  *)
(* reader fails the pending calls, a read deadline does not end the reader, *)
(* and the end of the reader does not close the client.                     *)
(*                                                                          *)
(* The cleanup runs under the lock that every access to requests takes, so  *)
(* it is one step; so are steps of a goroutine that nobody else can tell    *)
(* apart.  blockmode has no setter: commands are dispatched on the reader's *)
(* goroutine.  A callback that issues a call of its own is Client's subject. *)
(***************************************************************************)
EXTENDS Integers, FiniteSets

CONSTANTS
  Calls,        \* the calls made on this client during its life
  None,         \* Go's nil
  Garbage,      \* a response that no peer sent, read from a stream out of step
  Callback,     \* the calls made with DoCallback; the others use DoTimeout
  OneWay,       \* the calls whose request may be one-way
  Timed,        \* the calls of DoTimeout with a timeout other than 0
  MaxRid,       \* the largest request id (2^32 - 1 in the code)
  HasDialer,    \* options.dialer # nil
  ReadTimeout,  \* options.readTimeout > 0
  MaxDials      \* bound on the connections dialled after the first one

Rids  == 1 .. MaxRid
Conns == 0 .. MaxDials
Sync  == Calls \ Callback

ASSUME ConnAssumption ==
  /\ IsFiniteSet(Calls) /\ None \notin Calls /\ Garbage \notin Calls /\ None # Garbage
  /\ Callback \subseteq Calls /\ OneWay \subseteq Calls
  /\ Timed \subseteq Calls
  /\ MaxRid \in Nat /\ None \notin Rids /\ MaxDials \in Nat
  /\ HasDialer \in BOOLEAN /\ ReadTimeout \in BOOLEAN

VARIABLES
  ready, requests,      \* ClientConnBOLT: x is set; the calls by id
  closed, id, status,   \* ClientConn
  cur, conns, torn,     \* its connection; their states; which are out of step
  call,                 \* the calls: where they are, and what they got (history)
  pool, errCh, ires,    \* the InvokeContexts, named after the call that made them
  server,               \* requests on the connection that can still be answered
  rd,                   \* doread: its control, the context and response it delivers
  cpc                   \* a caller of Close

connVars == <<cur, conns, torn>>
ctxVars  == <<pool, errCh, ires>>
vars == <<ready, requests, closed, id, status, connVars, call, ctxVars, server, rd, cpc>>

Statuses == {"Idle", "Connecting", "Active", "TransientFailure", "Shutdown"}
Sources  == Calls \cup {None, Garbage}

CallRecord ==
  [pc : {"idle", "add", "send", "wait", "copy", "del", "expired", "done"},
   rid : Rids \cup {None}, ctx : Calls \cup {None}, got : Sources, res : Sources, cbs : Nat]

TypeOK ==
  /\ ready \in BOOLEAN /\ closed \in BOOLEAN /\ id \in Nat /\ status \in Statuses
  /\ requests \in [Rids -> Calls \cup {None}]
  /\ cur \in Conns /\ torn \in [Conns -> BOOLEAN]
  /\ conns \in [Conns -> {"none", "open", "closed", "error"}]
  /\ call \in [Calls -> CallRecord]
  /\ pool \subseteq Calls
  /\ errCh \in [Calls -> [from : Sources, failed : BOOLEAN]]
  /\ ires \in [Calls -> Sources]
  /\ server \subseteq [rid : Rids, call : Calls]
  /\ rd \in [pc : {"decode", "panic", "deliver", "cleanup", "redial", "dial",
                   "build", "setconn", "exit", "done"},
             ctx : Calls \cup {None}, msg : Sources]
  /\ cpc \in {"no", "close", "done"}

Empty == [from |-> None, failed |-> FALSE]

(* NewClientConn with polyfill: the connection is given, or dialled; a dial *)
(* that fails leaves an errorconn.  The reader starts and sets its status.  *)
Init ==
  /\ ready = FALSE /\ requests = [r \in Rids |-> None]
  /\ closed = FALSE /\ id = 0 /\ status = "Active"
  /\ cur = 0 /\ torn = [k \in Conns |-> FALSE]
  /\ \E s \in {"open"} \cup (IF HasDialer THEN {"error"} ELSE {}) :
        conns = [k \in Conns |-> IF k = 0 THEN s ELSE "none"]
  /\ call = [c \in Calls |-> [pc |-> "idle", rid |-> None, ctx |-> None,
                              got |-> None, res |-> None, cbs |-> 0]]
  /\ pool = {} /\ errCh = [x \in Calls |-> Empty] /\ ires = [x \in Calls |-> None]
  /\ server = {} /\ rd = [pc |-> "decode", ctx |-> None, msg |-> None] /\ cpc = "no"

(* "xb.x = x", after the reader's goroutine was started: now callers have   *)
(* the client.                                                              *)
NewClientConnBOLT ==
  /\ ~ready /\ rd.pc # "panic" /\ ready' = TRUE
  /\ UNCHANGED <<requests, closed, id, status, connVars, call, ctxVars, server, rd, cpc>>

-----------------------------------------------------------------------------
(* The steps of a call.                                                     *)

Goto(c, p) == call' = [call EXCEPT ![c].pc = p]

(* Call c, in the state that r says, returns.                               *)
Returns(c, r) == call' = [call EXCEPT ![c] = [r EXCEPT !.pc = "done", !.rid = None]]

(* Mutant: the id is not tested.                                             *)
Unchecked == [ok |-> TRUE, rid |-> id + 1]

(* IncrementID and the test for "request id overflow".                      *)
NextID == [ok |-> id + 1 <= MaxRid, rid |-> id + 1]

(* A context whose errCh is full gets a new channel.                        *)
NewErrCh(x) == [errCh EXCEPT ![x] = Empty]

(* DoTimeout with AcquireInvokeContext, and invoke up to addRequestContext; *)
(* DoCallbackTimeout, with a context that is never pooled.  A call that is  *)
(* refused releases its context at once.                                    *)
Invoke(c) ==
  /\ ready /\ call[c].pc = "idle"
  /\ \E x \in IF c \in Sync THEN pool \cup {c} ELSE {c} :
        /\ errCh' = NewErrCh(x)
        /\ IF ~closed /\ NextID.ok
           THEN /\ call' = [call EXCEPT ![c].pc = "add", ![c].rid = NextID.rid, ![c].ctx = x]
                /\ pool' = pool \ {x}
           ELSE /\ Returns(c, call[c])
                /\ pool' = IF c \in Sync THEN pool \cup {x} ELSE pool
  /\ id' = IF closed THEN id ELSE id + 1
  /\ UNCHANGED <<ready, requests, closed, status, connVars, ires, server, rd, cpc>>

addRequestContext(c) ==
  /\ call[c].pc = "add"
  /\ requests' = [requests EXCEPT ![call[c].rid] = c]
  /\ Goto(c, "send")
  /\ UNCHANGED <<ready, closed, id, status, connVars, ctxVars, server, rd, cpc>>

(* Send of a two-way request: Encode, and Write on the present connection;  *)
(* one that the peer has left may still take it, and is then like one whose *)
(* peer does not answer.  DoCallback is done, the others wait.              *)
Send(c) ==
  /\ call[c].pc = "send" /\ conns[cur] = "open"
  /\ server' = IF torn[cur] THEN server
               ELSE server \cup {[rid |-> call[c].rid, call |-> c]}
  /\ IF c \in Callback THEN Returns(c, call[c]) ELSE Goto(c, "wait")
  /\ UNCHANGED <<ready, requests, closed, id, status, connVars, ctxVars, rd, cpc>>

(* Send of a one-way request, which no peer answers.                        *)
SendOneWay(c) ==
  /\ call[c].pc = "send" /\ conns[cur] = "open" /\ c \in OneWay
  /\ Goto(c, "del")
  /\ UNCHANGED <<ready, requests, closed, id, status, connVars, ctxVars, server, rd, cpc>>

(* The request cannot be encoded or written.                                *)
SendFails(c) ==
  /\ call[c].pc = "send"
  /\ Goto(c, "del")
  /\ UNCHANGED <<ready, requests, closed, id, status, connVars, ctxVars, server, rd, cpc>>

(* Mutant: the context is released after a timeout as well.                 *)
ReleasesAlways(c) == IF c \in Sync THEN pool \cup {call[c].ctx} ELSE pool

(* ReleaseInvokeContext, unless the call timed out: "let gc handle it".     *)
Released(c) ==
  IF c \in Sync /\ call[c].pc # "expired" THEN pool \cup {call[c].ctx} ELSE pool

(* delRequestContext after a failed write, a one-way request or a timeout,  *)
(* and the end of the call.                                                 *)
delRequestContext(c) ==
  /\ call[c].pc \in {"del", "expired"}
  /\ requests' = [requests EXCEPT ![call[c].rid] = None]
  /\ Returns(c, call[c])
  /\ pool' = Released(c)
  /\ UNCHANGED <<ready, closed, id, status, connVars, errCh, ires, server, rd, cpc>>

(* The receive on errCh; an error ends the call.                            *)
Receive(c) ==
  LET x == call[c].ctx IN
  /\ call[c].pc = "wait" /\ errCh[x] # Empty
  /\ errCh' = [errCh EXCEPT ![x] = Empty]
  /\ IF errCh[x].failed THEN Returns(c, [call[c] EXCEPT !.got = errCh[x].from])
     ELSE call' = [call EXCEPT ![c].pc = "copy", ![c].rid = None, ![c].got = errCh[x].from]
  /\ pool' = IF errCh[x].failed THEN Released(c) ELSE pool
  /\ UNCHANGED <<ready, requests, closed, id, status, connVars, ires, server, rd, cpc>>

(* CopyResponse, and the end of the call.                                   *)
CopyResponse(c) ==
  /\ call[c].pc = "copy"
  /\ Returns(c, [call[c] EXCEPT !.res = ires[call[c].ctx]])
  /\ pool' = Released(c)
  /\ UNCHANGED <<ready, requests, closed, id, status, connVars, errCh, ires, server, rd, cpc>>

(* The timer of the call; zeroTimer never fires.                            *)
Expires(c) == c \in Timed

Timeout(c) ==
  /\ call[c].pc = "wait" /\ Expires(c)
  /\ Goto(c, "expired")
  /\ UNCHANGED <<ready, requests, closed, id, status, connVars, ctxVars, server, rd, cpc>>

-----------------------------------------------------------------------------
(* The steps of doread.                                                     *)

Decoding == rd.pc = "decode"
At(p)    == rd' = [rd EXCEPT !.pc = p]

(* Mutant: the context is looked up and stays registered.                   *)
NotTaken(r) == requests

(* getAndDelRequestContext.                                                 *)
Taken(r) == [requests EXCEPT ![r] = None]

(* dispatchResponse, of a response for id r with content m: the context is  *)
(* taken out; its callback runs, or the response is delivered next.         *)
dispatchResponse(r, m) ==
  LET c == requests[r] IN
  /\ requests' = Taken(r)
  /\ rd' = IF c \in Sync THEN [pc |-> "deliver", ctx |-> call[c].ctx, msg |-> m]
           ELSE [rd EXCEPT !.pc = "decode"]
  /\ call' = IF c \in Callback THEN [call EXCEPT ![c].cbs = @ + 1] ELSE call
  /\ UNCHANGED <<ready, closed, id, status, connVars, ctxVars, cpc>>

ReadResponse(m) ==
  /\ Decoding
  /\ server' = server \ {m}
  /\ dispatchResponse(m.rid, m.call)

(* Out of step, the bytes of a message pass for a response to any request.  *)
ReadGarbage(r) ==
  /\ Decoding /\ torn[cur]
  /\ dispatchResponse(r, Garbage) /\ UNCHANGED server

(* InvokeContext.Invoke: AssignResponse, and the send on errCh.             *)
Invoked ==
  /\ rd.pc = "deliver" /\ errCh[rd.ctx] = Empty   \* or the send waits
  /\ ires' = [ires EXCEPT ![rd.ctx] = rd.msg]
  /\ errCh' = [errCh EXCEPT ![rd.ctx] = [from |-> rd.msg, failed |-> FALSE]]
  /\ rd' = [pc |-> "decode", ctx |-> None, msg |-> None]
  /\ UNCHANGED <<ready, requests, closed, id, status, connVars, call, pool, server, cpc>>

(* dispatchRequest: without a handler nothing; otherwise xb.x is used, the  *)
(* handler runs, and the reader goes on.                                    *)
ReadRequest ==
  /\ Decoding /\ conns[cur] # "error"
  /\ At("decode") \/ (~ready /\ At("panic"))
  /\ UNCHANGED <<ready, requests, closed, id, status, connVars, call, ctxVars, server, cpc>>

(* Bound: one message is cut in two.                                        *)
MayCut == \A k \in Conns : ~torn[k]

(* "continue read": the status ReadTimeout lasts until the hook before the  *)
(* next read makes it Active again.  A deadline that passes when a part of  *)
(* a message was read leaves the stream out of step; one between messages   *)
(* changes nothing.                                                         *)
Deadline ==
  /\ ReadTimeout /\ Decoding /\ conns[cur] = "open" /\ MayCut
  /\ server' = {} /\ torn' = [torn EXCEPT ![cur] = TRUE]
  /\ UNCHANGED <<ready, requests, closed, id, status, cur, conns, call, ctxVars, rd, cpc>>

(* Any other error: the connection's, or bytes that are no command.         *)
ReadFails ==
  /\ Decoding /\ At("cleanup")
  /\ UNCHANGED <<ready, requests, closed, id, status, connVars, call, ctxVars, server, cpc>>

Pending == {c \in Calls : \E r \in Rids : requests[r] = c}

(* Mutant: the contexts without a callback are not told.                    *)
NotNotified == errCh

(* "sanity send": into the channels that have room.                         *)
Notified ==
  [x \in Calls |-> IF errCh[x] = Empty /\ \E c \in Pending \cap Sync : call[c].ctx = x
                   THEN [from |-> CHOOSE c \in Pending \cap Sync : call[c].ctx = x, failed |-> TRUE]
                   ELSE errCh[x]]

(* "clear the pending requests".                                            *)
PendingCleared == [r \in Rids |-> None]

cleanupPendingRequests ==
  /\ rd.pc = "cleanup"
  /\ errCh' = Notified /\ requests' = PendingCleared
  /\ call' = [c \in Calls |-> IF c \in Pending \cap Callback
                              THEN [call[c] EXCEPT !.cbs = @ + 1] ELSE call[c]]
  /\ At("redial") /\ status' = "TransientFailure"
  /\ UNCHANGED <<ready, closed, id, connVars, pool, ires, server, cpc>>

(* mayRedial, and the head of the loop of redial.                           *)
mayRedial ==
  /\ rd.pc = "redial"
  /\ IF closed \/ ~HasDialer THEN At("exit") /\ UNCHANGED status
     ELSE At("dial") /\ status' = "Connecting"
  /\ UNCHANGED <<ready, requests, closed, id, connVars, call, ctxVars, server, cpc>>

DialFails ==
  /\ rd.pc = "dial" /\ At("redial")
  /\ UNCHANGED <<ready, requests, closed, id, status, connVars, call, ctxVars, server, cpc>>

DialOk ==
  /\ rd.pc = "dial" /\ cur < MaxDials /\ At("build")
  /\ conns' = [conns EXCEPT ![cur + 1] = "open"]
  /\ UNCHANGED <<ready, requests, closed, id, status, cur, torn, call, ctxVars, server, cpc>>

(* Mutant: the old connection is forgotten.                                 *)
OldLeft == conns

(* conn.Close(), of the connection the reader has used so far.              *)
OldClosed == [conns EXCEPT ![cur] = "closed"]

(* An error of buildAsyncWriteConn leaves the new connection to itself.     *)
buildAsyncWriteConn ==
  /\ rd.pc = "build"
  /\ \/ At("setconn") /\ conns' = OldClosed
     \/ At("exit") /\ UNCHANGED conns
  /\ UNCHANGED <<ready, requests, closed, id, status, cur, torn, call, ctxVars, server, cpc>>

setConn ==
  /\ rd.pc = "setconn" /\ At("decode") /\ cur' = cur + 1 /\ status' = "Active"
  /\ server' = {}
  /\ UNCHANGED <<ready, requests, closed, id, conns, torn, call, ctxVars, cpc>>

(* x.GetConn().Close(), and the deferred change of the status.              *)
Shutdown ==
  /\ rd.pc = "exit" /\ At("done") /\ status' = "Shutdown"
  /\ conns' = [conns EXCEPT ![cur] = "closed"]
  /\ UNCHANGED <<ready, requests, closed, id, cur, torn, call, ctxVars, server, cpc>>

-----------------------------------------------------------------------------
(* Close: the flag, then the connection.                                    *)
Close ==
  /\ ready /\ cpc = "no" /\ ~closed
  /\ closed' = TRUE /\ cpc' = "close"
  /\ UNCHANGED <<ready, requests, id, status, connVars, call, ctxVars, server, rd>>

(* Mutant: the flag is set and the connection left alone.                   *)
ConnLeft == conns

(* x.getConn().Close().                                                     *)
ConnClosed == [conns EXCEPT ![cur] = "closed"]

CloseConn ==
  /\ cpc = "close" /\ cpc' = "done" /\ conns' = ConnClosed
  /\ UNCHANGED <<ready, requests, closed, id, status, cur, torn, call, ctxVars, server, rd>>

CallStep(c) ==
  \/ addRequestContext(c) \/ Send(c) \/ SendOneWay(c) \/ SendFails(c) \/ delRequestContext(c)
  \/ Receive(c) \/ CopyResponse(c)

ReadStep ==
  \/ Invoked \/ cleanupPendingRequests \/ mayRedial
  \/ DialFails \/ DialOk \/ buildAsyncWriteConn \/ setConn \/ Shutdown

Next ==
  \/ NewClientConnBOLT
  \/ \E c \in Calls : Invoke(c) \/ CallStep(c) \/ Timeout(c)
  \/ \E m \in server : ReadResponse(m)
  \/ \E r \in Rids : ReadGarbage(r)
  \/ ReadRequest \/ Deadline \/ ReadFails \/ ReadStep
  \/ Close \/ CloseConn

(* Goroutines that can run do, handlers return, timers fire, and a read of  *)
(* a connection that is gone fails.  Nothing forces a call, an answer, a    *)
(* dial to succeed, or an open connection to fail.                          *)
Fairness ==
  /\ \A c \in Calls : WF_vars(CallStep(c))
  /\ \A c \in Timed : WF_vars(Timeout(c))
  /\ WF_vars(ReadStep) /\ WF_vars(CloseConn)
  /\ WF_vars(conns[cur] # "open" /\ ReadFails)

Spec == Init /\ [][Next]_vars /\ Fairness

-----------------------------------------------------------------------------
(* No deadline has cut a message in two.                                    *)
InStep == \A k \in Conns : ~torn[k]

(* As long as no deadline has cut a message in two, a call gets its own     *)
(* response, whatever the contexts served before, over timeouts, failures   *)
(* and new connections (clientx_bolt.go:138-147, 173-187, 213-241).  After  *)
(* a cut a call that shares its context with an earlier one may get that    *)
(* one's result, also on a new connection (clinetconn.go:234-238).          *)
OwnResponse ==
  InStep => \A c \in Calls : call[c].got \in {None, c} /\ call[c].res \in {None, c}

(* Every callback runs at most once, for the response or for an error of    *)
(* the reader, of which there may be many (clientx_bolt.go:102-106, 252).   *)
CalledBackOnce == \A c \in Calls : call[c].cbs <= 1

(* When the reader has shut down, every connection it ever used is closed:  *)
(* the given one, those it dialled, and the one a Close may have raced with *)
(* (clinetconn.go:253-257, 267, 194).                                       *)
UsedConnsClosed ==
  status = "Shutdown" => \A k \in 0 .. cur : conns[k] = "closed"

(* An error of the reader fails every call that is registered then, also    *)
(* one without a timeout, and whether or not the reader finds a new         *)
(* connection (clinetconn.go:241-246, clientx_bolt.go:246-259).             *)
FailureWakesAll ==
  \A c \in Sync \ Timed :
    (rd.pc = "cleanup" /\ c \in Pending) ~> (call[c].pc = "done" \/ ~InStep)

(* A Close that does not meet the reader between a dial and the new         *)
(* connection's installation shuts the reader down (clinetconn.go:190-195,  *)
(* 303, 318).  A stream out of step may answer a call whose context was     *)
(* released since, and the reader then blocks on a full errCh.              *)
CloseShutsDown ==
  (cpc = "close" /\ rd.pc \notin {"dial", "build", "setconn"})
    ~> (status = "Shutdown" \/ ~InStep)

=============================================================================
