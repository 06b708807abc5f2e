------------------------- MODULE ServerConnsProofs -------------------------
(***************************************************************************)
(* Proofs about ServerConns, for every number of connections and workers.   *)
(* The inductive invariant adds to the properties themselves what the pool  *)
(* has not yet allocated, which connection a StateConn wraps, and what the  *)
(* sweep that holds the mutex may rely on.                                  *)
(***************************************************************************)
EXTENDS ServerConns, TLAPS

Waiting == {"out", "overflow", "acquire"}

(* A StateConn that was not allocated yet is nowhere.                       *)
FreshInv ==
  \A k \in Conns : pc[k] \in Waiting => k \notin pool /\ \A j \in Conns : sc[j] # k

(* A connection beyond AcquireConn has its StateConn.                       *)
AcquiredInv == \A k \in Conns : (pc[k] \in Waiting) <=> (sc[k] = None)

(* A StateConn wraps a connection that acquired it, and the one that holds  *)
(* it once that is past AcquireConn.                                        *)
WrapInv ==
  /\ \A x \in StateConns, k \in Conns :
        conn[x] = k => sc[k] = x /\ pc[k] \notin Waiting \cup {"setconn"}
  /\ \A k \in Conns : Held(k) /\ pc[k] # "setconn" => conn[sc[k]] = k

(* A hijacked connection is leaving, and unregistered once it has left.     *)
HijackInv ==
  \A k \in Conns : hijacked[k] => /\ pc[k] \in {"del", "done"}
                                  /\ pc[k] = "done" => sc[k] \notin conns

(* A sweep only meets what is registered.                                   *)
SweepInv ==
  /\ Locked => todo \subseteq conns
  /\ spc \in {"rawclose", "check", "set", "close"} => cur \in conns

IndInv ==
  TypeOK /\ FreshInv /\ AcquiredInv /\ Exclusive /\ NoStaleConn /\ WrapInv /\ HijackInv /\ SweepInv

-----------------------------------------------------------------------------
(* The server's first state.                                                *)
LEMMA InitInv == Init => IndInv
<1> SUFFICES ASSUME Init PROVE IndInv
  OBVIOUS
<1> USE ServerAssumption DEF Init, StateConns
<1>1. TypeOK
  BY DEF TypeOK, ConnPC, SweepPC
<1>2. FreshInv /\ AcquiredInv
  BY DEF FreshInv, AcquiredInv, Waiting
<1>3. Exclusive /\ NoStaleConn /\ HijackInv
  BY DEF Exclusive, NoStaleConn, HijackInv, Held
<1>4. WrapInv
  BY DEF WrapInv, Held, Waiting
<1>5. SweepInv
  BY DEF SweepInv, Locked
<1> QED
  BY <1>1, <1>2, <1>3, <1>4, <1>5 DEF IndInv

(* The steps of Serve, of Shutdown outside its sweeps, of the clock and of  *)
(* the user: they touch no StateConn but its age.                           *)
Outside ==
  \/ AddListener \/ AcceptFails \/ DelListener \/ UserClosesListener \/ CloseListeners
  \/ Tick \/ PollDone \/ CtxDone \/ \E k \in Conns : Age(k)

LEMMA OutsideInv == IndInv /\ Outside => IndInv'
<1> SUFFICES ASSUME IndInv, Outside PROVE IndInv'
  OBVIOUS
<1> USE ServerAssumption DEF StateConns
<1>1. UNCHANGED <<connVars, conn, pool, conns, state, todo, cur, options>>
      /\ (spc' = spc \/ spc' \in {"sweep", "returned"})
  BY DEF Outside, AddListener, AcceptFails, DelListener, UserClosesListener, CloseListeners,
         Tick, PollDone, CtxDone, Age, serveVars, connVars, scVars, sweepVars, options
<1>2. TypeOK'
  <2> USE DEF IndInv, TypeOK, serveVars, connVars, scVars, sweepVars, options
  <2>1. CASE AddListener \/ AcceptFails \/ DelListener \/ UserClosesListener
    BY <2>1 DEF AddListener, AcceptFails, DelListener, UserClosesListener
  <2>2. CASE Tick \/ PollDone \/ CtxDone
    <3>1. force' \in BOOLEAN /\ done' \in BOOLEAN
      BY <2>2, Zenon DEF Tick, PollDone, CtxDone
    <3> QED
      BY <2>2, <3>1 DEF Tick, PollDone, CtxDone, SweepPC
  <2>3. CASE CloseListeners
    <3>1. listening' \in BOOLEAN /\ registered' \in BOOLEAN
      BY <2>3, Zenon DEF CloseListeners
    <3> QED
      BY <2>3, <3>1 DEF CloseListeners, SweepPC
  <2>4. CASE \E k \in Conns : Age(k)
    BY <2>4 DEF Age
  <2> QED
    BY <2>1, <2>2, <2>3, <2>4 DEF Outside
<1>3. FreshInv' /\ AcquiredInv' /\ Exclusive' /\ NoStaleConn' /\ WrapInv' /\ HijackInv'
  BY <1>1 DEF IndInv, FreshInv, AcquiredInv, Exclusive, NoStaleConn, WrapInv, HijackInv, Held,
         connVars
<1>4. SweepInv'
  BY <1>1 DEF IndInv, SweepInv, Locked
<1> QED
  BY <1>2, <1>3, <1>4 DEF IndInv

(* One step of ServeConn: what it does to its connection is all there is    *)
(* for the other connections to see.                                        *)
LEMMA AcquireInv == ASSUME NEW k \in Conns, IndInv, Acquire(k) PROVE IndInv'
<1> USE ServerAssumption DEF StateConns
<1>1. PICK x \in pool \cup {k} :
        /\ sc' = [sc EXCEPT ![k] = x] /\ pool' = pool \ {x} /\ SetState(x, "new")
  BY DEF Acquire, NewStateConn
<1>2. /\ pc[k] = "acquire" /\ pc' = [pc EXCEPT ![k] = "setconn"]
      /\ UNCHANGED <<serveVars, raw, hijacked, conn, conns, sweepVars, done, options>>
  BY DEF Acquire, Goto
<1>3. x \in Conns /\ \A j \in Conns : Held(j) => sc[j] # x
  BY <1>1, <1>2 DEF IndInv, TypeOK, FreshInv, Exclusive, Waiting
<1>4. TypeOK'
  BY <1>1, <1>2, <1>3
  DEF IndInv, TypeOK, ConnPC, SetState, serveVars, sweepVars, options
<1>5. FreshInv' /\ AcquiredInv'
  BY <1>1, <1>2, <1>3 DEF IndInv, TypeOK, FreshInv, AcquiredInv, Waiting
<1>6. \A j \in Conns \ {k} : Held(j)' = Held(j) /\ sc'[j] = sc[j] /\ pc'[j] = pc[j]
  BY <1>1, <1>2, <1>3 DEF IndInv, TypeOK, Held
<1>7. sc'[k] = x /\ pc'[k] = "setconn" /\ ~hijacked[k]
  BY <1>1, <1>2, <1>3 DEF IndInv, TypeOK, HijackInv
<1>8. Exclusive'
  BY <1>1, <1>3, <1>6, <1>7 DEF IndInv, Exclusive
<1>9. NoStaleConn'
  BY <1>2, <1>6 DEF IndInv, NoStaleConn
<1>10. WrapInv'
  BY <1>2, <1>3, <1>6, <1>7 DEF IndInv, WrapInv, Waiting, Held
<1>11. HijackInv' /\ SweepInv'
  BY <1>2, <1>6, <1>7 DEF IndInv, HijackInv, SweepInv, Locked, sweepVars
<1> QED
  BY <1>4, <1>5, <1>8, <1>9, <1>10, <1>11 DEF IndInv

(* A step of ServeConn beyond AcquireConn that neither releases nor         *)
(* registers: it changes raw, and the state of its own StateConn.           *)
Serving(k) ==
  \/ Read(k) \/ ReadReturns(k) \/ ReadFails(k) \/ Handle(k) \/ AsyncWrite(k)
  \/ CloseCheck(k) \/ CloseSet(k) \/ CloseConn(k)

ServingPC == {"read", "reading", "handle", "close", "closeset", "closeraw", "release"}

LEMMA ServingInv == ASSUME NEW k \in Conns, IndInv, Serving(k) PROVE IndInv'
<1> USE ServerAssumption DEF StateConns
<1>1. /\ pc[k] \in ServingPC
      /\ \E p \in ServingPC : pc' = [pc EXCEPT ![k] = p]
      /\ UNCHANGED <<serveVars, sc, hijacked, conn, pool, conns, sweepVars, done, options>>
  <2> USE DEF ServingPC, Goto, connVars, scVars
  <2>1. CASE Read(k) \/ ReadReturns(k) \/ ReadFails(k) \/ Handle(k)
    BY <2>1 DEF Read, ReadReturns, ReadFails, Handle
  <2>2. CASE AsyncWrite(k)
    BY <2>2 DEF AsyncWrite, IndInv, TypeOK
  <2>3. CASE CloseCheck(k) \/ CloseSet(k) \/ CloseConn(k)
    BY <2>3 DEF CloseCheck, CloseSet, CloseConn
  <2> QED
    BY <2>1, <2>2, <2>3 DEF Serving
<1>2. /\ state' \in [StateConns -> {"new", "active", "closed"}]
      /\ old' \in [StateConns -> BOOLEAN]
      /\ raw' \in [Conns -> {"none", "open", "closed"}]
  <2> USE DEF SetState, MayWrite, CloseRaw, IndInv, TypeOK, connVars, scVars
  <2>1. CASE Read(k) \/ ReadReturns(k) \/ ReadFails(k)
    BY <2>1 DEF Read, ReadReturns, ReadFails
  <2>2. CASE Handle(k) \/ AsyncWrite(k)
    BY <2>2 DEF Handle, AsyncWrite
  <2>3. CASE CloseCheck(k) \/ CloseSet(k) \/ CloseConn(k)
    BY <2>3 DEF CloseCheck, CloseSet, CloseConn
  <2> QED
    BY <2>1, <2>2, <2>3 DEF Serving
<1>3. TypeOK'
  <2>1. pc' \in [Conns -> ConnPC]
    BY <1>1 DEF IndInv, TypeOK, ConnPC, ServingPC
  <2> QED
    BY <1>1, <1>2, <2>1 DEF IndInv, TypeOK, serveVars, sweepVars, options
<1>4. /\ \A j \in Conns : Held(j)' = Held(j)
      /\ \A j \in Conns \ {k} : pc'[j] = pc[j]
      /\ pc[k] \in ServingPC /\ pc'[k] \in ServingPC
  BY <1>1 DEF IndInv, TypeOK, Held, ServingPC
<1>5. FreshInv' /\ AcquiredInv'
  BY <1>1, <1>4 DEF IndInv, FreshInv, AcquiredInv, Waiting, ServingPC
<1>6. Exclusive' /\ NoStaleConn'
  BY <1>1, <1>4 DEF IndInv, Exclusive, NoStaleConn, ServingPC
<1>7. WrapInv'
  BY <1>1, <1>4 DEF IndInv, WrapInv, Waiting, ServingPC
<1>8. HijackInv' /\ SweepInv'
  BY <1>1, <1>4 DEF IndInv, HijackInv, SweepInv, Locked, ServingPC, sweepVars
<1> QED
  BY <1>3, <1>5, <1>6, <1>7, <1>8 DEF IndInv

(* Accept gives a connection a worker, or none.                             *)
LEMMA AcceptInv == ASSUME NEW k \in Conns, IndInv, Accept(k) PROVE IndInv'
<1> USE ServerAssumption DEF StateConns
<1>1. /\ pc[k] = "out" /\ \E p \in Waiting : pc' = [pc EXCEPT ![k] = p]
      /\ raw' = [raw EXCEPT ![k] = "open"]
      /\ UNCHANGED <<serveVars, sc, hijacked, scVars, conns, sweepVars, done, options>>
  BY DEF Accept, Goto, Waiting
<1>2. pc' \in [Conns -> ConnPC] /\ raw' \in [Conns -> {"none", "open", "closed"}]
  BY <1>1 DEF IndInv, TypeOK, ConnPC, Waiting
<1>3. TypeOK'
  BY <1>1, <1>2 DEF IndInv, TypeOK, serveVars, scVars, sweepVars, options
<1>4. /\ \A j \in Conns : Held(j)' = Held(j)
      /\ \A j \in Conns \ {k} : pc'[j] = pc[j]
      /\ pc[k] \in Waiting /\ pc'[k] \in Waiting /\ ~hijacked[k]
  BY <1>1 DEF IndInv, TypeOK, HijackInv, Held, Waiting
<1>5. FreshInv' /\ AcquiredInv'
  BY <1>1, <1>4 DEF IndInv, FreshInv, AcquiredInv, scVars
<1>6. Exclusive'
  BY <1>1, <1>4 DEF IndInv, Exclusive, scVars
<1>7. NoStaleConn'
  BY <1>1, <1>4 DEF IndInv, TypeOK, AcquiredInv, NoStaleConn, Waiting, scVars
<1>8. WrapInv'
  BY <1>1, <1>4 DEF IndInv, WrapInv, Held, Waiting, scVars
<1>9. HijackInv' /\ SweepInv'
  BY <1>1, <1>4 DEF IndInv, HijackInv, SweepInv, Locked, sweepVars
<1> QED
  BY <1>3, <1>5, <1>6, <1>7, <1>8, <1>9 DEF IndInv

(* AcquireConn stores the connection in its StateConn.                      *)
LEMMA SetConnInv == ASSUME NEW k \in Conns, IndInv, SetConn(k) PROVE IndInv'
<1> USE ServerAssumption DEF StateConns
<1>1. /\ pc[k] = "setconn" /\ pc' = [pc EXCEPT ![k] = "add"]
      /\ conn' = [conn EXCEPT ![sc[k]] = k]
      /\ UNCHANGED <<serveVars, raw, sc, hijacked, state, old, pool, conns, sweepVars, done, options>>
  BY DEF SetConn, Goto
<1>2. sc[k] \in Conns
  BY <1>1 DEF IndInv, TypeOK, AcquiredInv, Waiting
<1>3. TypeOK'
  BY <1>1, <1>2 DEF IndInv, TypeOK, ConnPC, serveVars, sweepVars, options
<1>4. /\ \A j \in Conns : Held(j)' = Held(j)
      /\ \A j \in Conns \ {k} : pc'[j] = pc[j]
      /\ Held(k) /\ pc'[k] = "add" /\ ~hijacked[k]
  BY <1>1 DEF IndInv, TypeOK, HijackInv, Held
<1>5. FreshInv' /\ AcquiredInv' /\ Exclusive' /\ NoStaleConn'
  BY <1>1, <1>4 DEF IndInv, FreshInv, AcquiredInv, Exclusive, NoStaleConn, Waiting
<1>6. \A j \in Conns \ {k} : Held(j) => sc[j] # sc[k]
  BY <1>4 DEF IndInv, Exclusive
<1>7. WrapInv'
  BY <1>1, <1>2, <1>4, <1>6 DEF IndInv, TypeOK, WrapInv, Waiting
<1>8. HijackInv' /\ SweepInv'
  BY <1>1, <1>4 DEF IndInv, HijackInv, SweepInv, Locked, sweepVars
<1> QED
  BY <1>3, <1>5, <1>7, <1>8 DEF IndInv

(* addConn registers the StateConn; no sweep is under way.                  *)
LEMMA AddConnInv == ASSUME NEW k \in Conns, IndInv, AddConn(k) PROVE IndInv'
<1> USE ServerAssumption DEF StateConns
<1>1. /\ pc[k] = "add" /\ ~Locked /\ pc' = [pc EXCEPT ![k] = "read"]
      /\ conns' = conns \cup {sc[k]}
      /\ UNCHANGED <<serveVars, raw, sc, hijacked, scVars, sweepVars, done, options>>
  BY DEF AddConn, Goto
<1>2. sc[k] \in Conns
  BY <1>1 DEF IndInv, TypeOK, AcquiredInv, Waiting
<1>3. TypeOK'
  BY <1>1, <1>2 DEF IndInv, TypeOK, ConnPC, serveVars, scVars, sweepVars, options
<1>4. /\ \A j \in Conns : Held(j)' = Held(j)
      /\ \A j \in Conns \ {k} : pc'[j] = pc[j]
      /\ Held(k) /\ pc'[k] = "read" /\ ~hijacked[k]
  BY <1>1 DEF IndInv, TypeOK, HijackInv, Held
<1>5. FreshInv' /\ AcquiredInv' /\ Exclusive' /\ NoStaleConn'
  BY <1>1, <1>4 DEF IndInv, FreshInv, AcquiredInv, Exclusive, NoStaleConn, Waiting, scVars
<1>6. WrapInv'
  BY <1>1, <1>4 DEF IndInv, WrapInv, Waiting, scVars
<1>7. HijackInv'
  BY <1>1, <1>4 DEF IndInv, HijackInv, Exclusive, Held
<1>8. SweepInv'
  BY <1>1 DEF IndInv, SweepInv, Locked, sweepVars
<1> QED
  BY <1>3, <1>5, <1>6, <1>7, <1>8 DEF IndInv

(* The handler takes the connection away.                                   *)
LEMMA HijackStepInv == ASSUME NEW k \in Conns, IndInv, Hijack(k) PROVE IndInv'
<1> USE ServerAssumption DEF StateConns
<1>1. /\ pc[k] = "handle" /\ pc' = [pc EXCEPT ![k] = "del"]
      /\ hijacked' = [hijacked EXCEPT ![k] = TRUE] /\ MayWrite(k)
      /\ UNCHANGED <<serveVars, raw, sc, conn, pool, conns, sweepVars, done, options>>
  BY DEF Hijack, Goto, AfterHijack
<1>2. TypeOK'
  BY <1>1, ZenonT(60) DEF IndInv, TypeOK, ConnPC, MayWrite, SetState, serveVars, sweepVars, options
<1>3. /\ \A j \in Conns : Held(j)' = Held(j)
      /\ \A j \in Conns \ {k} : pc'[j] = pc[j] /\ hijacked'[j] = hijacked[j]
      /\ Held(k) /\ pc'[k] = "del"
  BY <1>1 DEF IndInv, TypeOK, Held
<1>4. FreshInv' /\ AcquiredInv' /\ Exclusive' /\ NoStaleConn'
  BY <1>1, <1>3 DEF IndInv, FreshInv, AcquiredInv, Exclusive, NoStaleConn, Waiting
<1>5. WrapInv'
  BY <1>1, <1>3 DEF IndInv, WrapInv, Waiting
<1>6. HijackInv' /\ SweepInv'
  BY <1>1, <1>3 DEF IndInv, HijackInv, SweepInv, Locked, sweepVars
<1> QED
  BY <1>2, <1>4, <1>5, <1>6 DEF IndInv

(* ReleaseConn gives the StateConn back while it is still registered.       *)
LEMMA ReleaseInv == ASSUME NEW k \in Conns, IndInv, ReleaseConn(k) PROVE IndInv'
<1> USE ServerAssumption DEF StateConns
<1>1. /\ pc[k] = "release" /\ pc' = [pc EXCEPT ![k] = "del"]
      /\ pool' = pool \cup {sc[k]}
      /\ UNCHANGED <<serveVars, raw, sc, hijacked, state, old, conn, conns, sweepVars, done, options>>
  BY DEF ReleaseConn, Goto
<1>2. sc[k] \in Conns
  BY <1>1 DEF IndInv, TypeOK, AcquiredInv, Waiting
<1>3. TypeOK'
  BY <1>1, <1>2 DEF IndInv, TypeOK, ConnPC, serveVars, sweepVars, options
<1>4. /\ \A j \in Conns \ {k} : Held(j)' = Held(j) /\ pc'[j] = pc[j]
      /\ Held(k) /\ ~Held(k)' /\ pc'[k] = "del" /\ ~hijacked[k]
  BY <1>1 DEF IndInv, TypeOK, HijackInv, Held
<1>5. FreshInv' /\ AcquiredInv' /\ Exclusive' /\ NoStaleConn'
  BY <1>1, <1>4 DEF IndInv, FreshInv, AcquiredInv, Exclusive, NoStaleConn, Waiting
<1>6. WrapInv'
  BY <1>1, <1>4 DEF IndInv, WrapInv, Waiting
<1>7. HijackInv' /\ SweepInv'
  BY <1>1, <1>4 DEF IndInv, HijackInv, SweepInv, Locked, sweepVars
<1> QED
  BY <1>3, <1>5, <1>6, <1>7 DEF IndInv

(* delConn removes the StateConn, whoever has registered it meanwhile.      *)
LEMMA DelConnInv == ASSUME NEW k \in Conns, IndInv, DelConn(k) PROVE IndInv'
<1> USE ServerAssumption DEF StateConns
<1>1. /\ pc[k] = "del" /\ ~Locked /\ pc' = [pc EXCEPT ![k] = "done"]
      /\ conns' = conns \ {sc[k]}
      /\ UNCHANGED <<serveVars, raw, sc, hijacked, scVars, sweepVars, done, options>>
  BY DEF DelConn, Goto, Deregistered
<1>2. TypeOK'
  BY <1>1 DEF IndInv, TypeOK, ConnPC, serveVars, scVars, sweepVars, options
<1>3. /\ \A j \in Conns : Held(j)' = Held(j)
      /\ \A j \in Conns \ {k} : pc'[j] = pc[j]
      /\ pc'[k] = "done"
  BY <1>1 DEF IndInv, TypeOK, Held
<1>4. FreshInv' /\ AcquiredInv' /\ Exclusive' /\ NoStaleConn'
  BY <1>1, <1>3 DEF IndInv, FreshInv, AcquiredInv, Exclusive, NoStaleConn, Waiting, scVars
<1>5. WrapInv'
  BY <1>1, <1>3 DEF IndInv, WrapInv, Waiting, scVars
<1>6. HijackInv'
  BY <1>1, <1>3 DEF IndInv, HijackInv
<1>7. SweepInv'
  BY <1>1 DEF IndInv, SweepInv, Locked, sweepVars
<1> QED
  BY <1>2, <1>4, <1>5, <1>6, <1>7 DEF IndInv

(* The sweep deregisters, and closes; it leaves the rest to ServeConn.      *)
LEMMA SweepStepInv == IndInv /\ SweepStep => IndInv'
<1> SUFFICES ASSUME IndInv, SweepStep PROVE IndInv'
  OBVIOUS
<1> USE ServerAssumption DEF StateConns
<1>1. /\ UNCHANGED <<serveVars, pc, sc, hijacked, conn, pool, done, options>>
      /\ conns' \subseteq conns
  BY DEF SweepStep, SweepBegin, SweepNext, SweepRaw, SweepCheck, SweepSet, SweepClose,
         SweepEnd, Swept, connVars, scVars
<1>2. SweepInv'
  <2> USE DEF IndInv, SweepInv, Locked
  <2>1. CASE SweepBegin \/ SweepEnd
    BY <2>1 DEF SweepBegin, SweepEnd
  <2>2. CASE \E x \in StateConns : SweepNext(x)
    BY <2>2 DEF SweepNext
  <2>3. CASE SweepRaw \/ SweepCheck \/ SweepSet \/ SweepClose
    BY <2>3 DEF SweepRaw, SweepCheck, SweepSet, SweepClose, Swept
  <2> QED
    BY <2>1, <2>2, <2>3 DEF SweepStep
<1>3. TypeOK'
  <2> USE DEF IndInv, TypeOK, serveVars, connVars, scVars, sweepVars, options
  <2>1. CASE SweepBegin \/ SweepEnd
    BY <2>1, ZenonT(60) DEF SweepBegin, SweepEnd, SweepPC
  <2>2. CASE \E x \in StateConns : SweepNext(x)
    BY <2>2 DEF SweepNext, SweepPC
  <2>3. CASE SweepRaw \/ SweepSet
    BY <2>3, ZenonT(60) DEF SweepRaw, SweepSet, CloseRaw, SetState, SweepPC
  <2>4. CASE SweepCheck \/ SweepClose
    BY <2>4 DEF SweepCheck, SweepClose, Swept, CloseRaw, SweepPC
  <2> QED
    BY <2>1, <2>2, <2>3, <2>4 DEF SweepStep
<1>4. FreshInv' /\ AcquiredInv' /\ Exclusive' /\ NoStaleConn' /\ WrapInv' /\ HijackInv'
  BY <1>1 DEF IndInv, FreshInv, AcquiredInv, Exclusive, NoStaleConn, WrapInv, HijackInv, Held
<1> QED
  BY <1>2, <1>3, <1>4 DEF IndInv

-----------------------------------------------------------------------------
LEMMA NextInv == IndInv /\ [Next]_vars => IndInv'
<1> SUFFICES ASSUME IndInv, [Next]_vars PROVE IndInv'
  OBVIOUS
<1>1. CASE Outside
  BY <1>1, OutsideInv
<1>2. CASE SweepStep
  BY <1>2, SweepStepInv
<1>3. CASE \E k \in Conns : Accept(k)
  BY <1>3, AcceptInv
<1>4. CASE \E k \in Conns : ServeConnStep(k)
  <2>1. PICK k \in Conns : ServeConnStep(k)
    BY <1>4
  <2>2. CASE Acquire(k) \/ SetConn(k) \/ AddConn(k)
    BY <2>2, AcquireInv, SetConnInv, AddConnInv
  <2>3. CASE Hijack(k) \/ ReleaseConn(k) \/ DelConn(k)
    BY <2>3, HijackStepInv, ReleaseInv, DelConnInv
  <2>4. CASE Serving(k)
    BY <2>4, ServingInv
  <2> QED
    BY <2>1, <2>2, <2>3, <2>4 DEF ServeConnStep, Serving
<1>5. CASE UNCHANGED vars
  BY <1>5 DEF IndInv, TypeOK, FreshInv, AcquiredInv, Exclusive, NoStaleConn, WrapInv, HijackInv,
              SweepInv, Held, Locked, vars, serveVars, connVars, scVars, sweepVars, options
<1> QED
  BY <1>1, <1>2, <1>3, <1>4, <1>5 DEF Next, Outside

(* IndInv is an invariant of the server.                                    *)
THEOREM Invariance == Spec => []IndInv
  BY InitInv, NextInv, PTL DEF Spec

(* Every variable keeps its type, whatever ServeConn and Shutdown do.       *)
THEOREM TypeCorrect == Spec => []TypeOK
<1>1. IndInv => TypeOK
  BY DEF IndInv
<1> QED
  BY <1>1, Invariance, PTL

(* A StateConn serves one connection at a time and is not in the pool       *)
(* meanwhile, for any number of connections and workers (server.go:161-174, *)
(* stateconn/syncpool.go:27-39).                                            *)
THEOREM StateConnsExclusive == Spec => []Exclusive
<1>1. IndInv => Exclusive
  BY DEF IndInv
<1> QED
  BY <1>1, Invariance, PTL

(* srv.conns holds no StateConn that nobody will deregister, although       *)
(* ServeConn releases before it deregisters (server.go:162, 173-176, 416).  *)
THEOREM NothingStale == Spec => []NoStaleConn
<1>1. IndInv => NoStaleConn
  BY DEF IndInv
<1> QED
  BY <1>1, Invariance, PTL

(* Nothing in the server closes a hijacked connection after ServeConn has   *)
(* returned (server.go:165, 176, 394-417).                                  *)
THEOREM HijackedLeftAlone == Spec => HijackedUntouched
<1>1. ASSUME IndInv, Next, NEW h \in Conns, hijacked[h], pc[h] = "done"
      PROVE  raw'[h] = raw[h]
  <2> USE <1>1, ServerAssumption DEF StateConns
  <2>1. \A x \in conns : conn[x] # h
    BY DEF IndInv, TypeOK, WrapInv, HijackInv
  <2>2. CASE SweepRaw \/ SweepClose
    BY <2>1, <2>2 DEF IndInv, TypeOK, SweepInv, SweepRaw, SweepClose, CloseRaw
  <2>3. CASE \E k \in Conns : Accept(k)
    BY <2>3 DEF IndInv, TypeOK, Accept
  <2>4. CASE \E k \in Conns : CloseConn(k)
    <3>1. PICK k \in Conns : CloseConn(k)
      BY <2>4
    <3>2. conn[sc[k]] = k /\ k # h
      BY <3>1 DEF CloseConn, IndInv, WrapInv, Held
    <3> QED
      BY <3>1, <3>2 DEF CloseConn, CloseRaw, IndInv, TypeOK
  <2>5. CASE raw' = raw
    BY <2>5
  <2>6. CASE Outside
    BY <2>5, <2>6 DEF Outside, AddListener, AcceptFails, DelListener, UserClosesListener,
        CloseListeners, Tick, PollDone, CtxDone, Age, connVars
  <2>7. CASE SweepStep
    BY <2>2, <2>5, <2>7 DEF SweepStep, SweepBegin, SweepNext, SweepCheck, SweepSet, SweepEnd, connVars
  <2>8. CASE \E k \in Conns : ServeConnStep(k)
    BY <2>4, <2>5, <2>8 DEF ServeConnStep, Acquire, SetConn, AddConn, Read, ReadReturns, ReadFails,
        Handle, AsyncWrite, Hijack, CloseCheck, CloseSet, ReleaseConn, DelConn, connVars
  <2> QED
    BY <2>3, <2>6, <2>7, <2>8 DEF Next, Outside
<1>2. IndInv /\ [Next]_vars =>
        [\A k \in Conns : hijacked[k] /\ pc[k] = "done" => raw'[k] = raw[k]]_vars
  BY <1>1
<1> QED
  BY <1>2, Invariance, PTL DEF Spec, HijackedUntouched

=============================================================================
