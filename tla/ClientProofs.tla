---------------------------- MODULE ClientProofs ----------------------------
(***************************************************************************)
(* The invariants of Client, proved for any number of calls, connections    *)
(* and request ids.                                                         *)
(***************************************************************************)
EXTENDS Client, FiniteSetTheorems, TLAPS

-----------------------------------------------------------------------------
(* Type correctness.  TypeOK alone is not inductive: a step reads an id, a  *)
(* context or an entry that only the control state says is there.           *)

ReaderHolds == rpc \in {"callback", "assign", "send", "blocked"}

TypeInv ==
  /\ TypeOK
  /\ \A c \in Calls : pc[c] # "idle" => ctx[c] \in Ctxs
  /\ \A c \in Calls : pc[c] \in {"add", "getconn", "write", "del", "wait"} => rid[c] \in Rids
  /\ ReaderHolds => rent # None /\ rmsg # None
  /\ rpc \in {"build", "closeold", "setconn"} => cur < MaxDials
  /\ \A r \in rtodo : requests[r] # None
  /\ ~Locked => rtodo = {}

-----------------------------------------------------------------------------
(* The invariant behind the safety properties, for ids that are unique and  *)
(* a peer that leaves one-way requests unanswered.                          *)

UniqueRids == AutoIncrement /\ Cardinality(Calls) < RidSpace

(* The call has an id, and ids are handed out in order.                     *)
Numbered == {c \in Calls : rid[c] # None}

RidInv ==
  /\ crid = Cardinality(Numbered)
  /\ \A c \in Calls : pc[c] \in {"idle", "check", "alloc"} => rid[c] = None
  /\ \A c \in Numbered : rid[c] <= crid
  /\ \A c, d \in Numbered : rid[c] = rid[d] => c = d

(* The context of c is c's alone: until it is released, or for good.        *)
Owns(c) == pc[c] # "idle" /\ ~(pc[c] = "done" /\ Recycles(c))

OwnerInv ==
  /\ \A c, d \in Calls : Owns(c) /\ Owns(d) /\ ctx[c] = ctx[d] => c = d
  /\ \A c \in Calls : Owns(c) => ctx[c] \notin pool
  /\ \A c \in Calls : pc[c] \in {"wait", "copy"} => c \in Sync
  /\ \A x \in pool : pc[x] # "idle"
  /\ \A c \in Calls : pc[c] # "idle" => pc[ctx[c]] # "idle"

(* An entry the reader has not dealt with.                                  *)
Live(r) == requests[r] # None /\ (Locked => r \in rtodo)

(* Where a call can be while it is registered.                              *)
Registered(c) ==
  /\ pc[c] \in {"getconn", "write", "del", "wait"}
               \cup (IF c \in Callback THEN {"return", "done"} ELSE {})

EntryInv ==
  \A r \in Rids : requests[r] # None =>
     /\ rid[requests[r].call] = r
     /\ ctx[requests[r].call] = requests[r].ctx
     /\ Live(r) => Registered(requests[r].call)

(* The reader's half of a delivery: the call it holds waits, or has given   *)
(* up by its timer.                                                         *)
Waits(c) ==
  IF c \in Callback THEN pc[c] \in {"return", "done"}
  ELSE pc[c] = "wait" \/ (out[c] = "timeout" /\ pc[c] \in {"del", "return", "done"})

ServerInv ==
  \A m \in server :
     /\ rid[m.call] = m.rid /\ m.call \notin OneWay
     /\ IF m.call \in Callback THEN pc[m.call] \in {"return", "done"}
        ELSE pc[m.call] \in {"wait", "copy", "return", "done"} \/ Waits(m.call)

ReaderInv ==
  /\ rent # None => ReaderHolds
  /\ rpc \notin {"blocked", "orphan"}
  /\ rpc = "callback" => rent.call \in Callback
  /\ rpc \in {"assign", "send"} => rent.call \in Sync
  /\ ReaderHolds => /\ rmsg = rent.call
                    /\ rent.ctx = ctx[rent.call]
                    /\ Waits(rent.call)
                    /\ rid[rent.call] # None
                    /\ requests[rid[rent.call]] = None

(* What is in a channel was sent for the owner of the context, and the      *)
(* response is in place before the owner is notified.                       *)
ChannelInv ==
  /\ \A c \in Sync : Owns(c) /\ errCh[ctx[c]] # None =>
        /\ errCh[ctx[c]].from = c
        /\ errCh[ctx[c]].failed \/ ires[ctx[c]] = c
  /\ \A c \in Sync : pc[c] \in {"check", "alloc", "add"} => errCh[ctx[c]] = None
  /\ \A c \in Sync : pc[c] = "copy" => ires[ctx[c]] = c
  /\ \A r \in Rids : Live(r) /\ requests[r].call \in Sync => errCh[requests[r].ctx] = None
  /\ rpc \in {"assign", "send"} => errCh[rent.ctx] = None
  /\ rpc = "send" => ires[rent.ctx] = rmsg

CallbackInv ==
  /\ \A c \in Calls : cbs[c] <= 1
  /\ \A c \in Calls : pc[c] \in {"idle", "check", "alloc", "add"} => cbs[c] = 0
  /\ \A r \in Rids : Live(r) => cbs[requests[r].call] = 0
  /\ rpc = "callback" => cbs[rent.call] = 0

ResultInv ==
  /\ OwnResult
  /\ \A c \in Sync \ OneWay : out[c] = "ok" => resp[c] = c

IndInv ==
  /\ TypeInv /\ RidInv /\ OwnerInv /\ EntryInv /\ ServerInv /\ ReaderInv
  /\ ChannelInv /\ CallbackInv /\ ResultInv


-----------------------------------------------------------------------------
(* Proofs of type correctness.                                              *)

(* NewClient establishes the type invariant.                                *)
LEMMA TypeInvInit == Init => TypeInv
<1> SUFFICES ASSUME Init PROVE TypeInv
  OBVIOUS
<1>1. 0 \in Rids /\ 0 \in Conns
  BY ConstantsAssumption DEF Rids, Conns
<1>2. connState \in [Conns -> ConnState]
  BY DEF Init, ConnState
<1>3. TypeOK
  BY <1>1, <1>2 DEF Init, TypeOK, CallPC, Outcome, ReadPC
<1>4. QED
  BY <1>3 DEF Init, TypeInv, ReaderHolds, Locked

(* The id that AddUint32 yields.                                            *)
LEMMA NextRidType == ASSUME crid \in Rids PROVE NextRid \in Rids
BY ConstantsAssumption DEF NextRid, Rids

(* Every step preserves the type invariant.                                 *)
LEMMA TypeInvNext == TypeInv /\ [Next]_vars => TypeInv'
<1> SUFFICES ASSUME TypeInv, [Next]_vars PROVE TypeInv'
  OBVIOUS
<1> USE ConstantsAssumption DEF TypeInv, TypeOK, ReaderHolds, Locked
<1>1. ASSUME NEW c \in Calls, Begin(c) PROVE TypeInv'
  BY <1>1 DEF Begin, Goto, MayStart, Abandon, NewErrCh, clientVars, connVars, CallPC,
    ReadPC, Ctxs, Sync
<1>2. ASSUME NEW c \in Calls, BeginCallback(c) PROVE TypeInv'
  BY <1>2 DEF BeginCallback, Goto, MayStart, clientVars, connVars, readVars, CallPC,
    Ctxs
<1>3. ASSUME NEW c \in Calls, CheckClosed(c) PROVE TypeInv'
  BY <1>3 DEF CheckClosed, Goto, Decide, clientVars, connVars, ctxVars, readVars,
    CallPC, Outcome
<1>4. ASSUME NEW c \in Calls, Refuse(c) PROVE TypeInv'
  BY <1>4 DEF Refuse, Goto, Decide, clientVars, connVars, ctxVars, readVars, CallPC,
    Outcome
<1>5. ASSUME NEW c \in Calls, AllocRid(c) PROVE TypeInv'
  <2>1. crid' \in Rids /\ rid' \in [Calls -> Rids \cup {None}] /\ rid'[c] \in Rids
    BY <1>5, NextRidType DEF AllocRid
  <2>2. \A d \in Calls \ {c} : rid'[d] = rid[d] /\ pc'[d] = pc[d]
    BY <1>5 DEF AllocRid, Goto
  <2>3. pc' \in [Calls -> CallPC] /\ out' \in [Calls -> Outcome]
    BY <1>5 DEF AllocRid, Goto, Decide, CallPC, Outcome
  <2>4. QED
    BY <1>5, <2>1, <2>2, <2>3 DEF AllocRid, connVars, ctxVars, readVars
<1>6. ASSUME NEW c \in Calls, AddRequestContext(c) PROVE TypeInv'
  BY <1>6 DEF AddRequestContext, Goto, connVars, ctxVars, readVars, CallPC, Entry
<1>7. ASSUME NEW c \in Calls, GetConn(c) PROVE TypeInv'
  BY <1>7 DEF GetConn, Goto, clientVars, connVars, ctxVars, readVars, CallPC
<1>8. ASSUME NEW c \in Calls, WriteOk(c) PROVE TypeInv'
  BY <1>8 DEF WriteOk, Goto, Decide, clientVars, connVars, ctxVars, readVars, CallPC,
    Outcome, Message
<1>9. ASSUME NEW c \in Calls, WriteFails(c) PROVE TypeInv'
  BY <1>9 DEF WriteFails, Goto, Decide, clientVars, connVars, ctxVars, readVars, CallPC,
    Outcome
<1>10. ASSUME NEW c \in Calls, DelRequestContext(c) PROVE TypeInv'
  BY <1>10 DEF DelRequestContext, Goto, DropEntry, connVars, ctxVars, readVars, CallPC
<1>11. ASSUME NEW c \in Calls, Receive(c) PROVE TypeInv'
  <2>1. ctx[c] \in Ctxs /\ errCh[ctx[c]] \in Result /\ errCh[ctx[c]].from \in Calls
    BY <1>11 DEF Receive, Result
  <2>2. rpc = "blocked" => [from |-> rmsg, failed |-> FALSE] \in Result
    BY DEF Result
  <2>3. errCh' \in [Ctxs -> Result \cup {None}]
    BY <1>11, <2>1, <2>2, ZenonT(60) DEF Receive
  <2>4. got' \in [Calls -> Calls \cup {None}]
    BY <1>11, <2>1 DEF Receive
  <2>5. pc' \in [Calls -> CallPC] /\ out' \in [Calls -> Outcome]
    BY <1>11 DEF Receive, Goto, Decide, CallPC, Outcome
  <2>6. /\ \A d \in Calls : pc[d] = "idle" => pc'[d] = "idle"
        /\ \A d \in Calls : pc'[d] \in {"add", "getconn", "write", "del", "wait"}
                             => pc'[d] = pc[d]
        /\ \A d \in Calls : pc'[d] # "idle" => pc[d] # "idle"
    BY <1>11 DEF Receive, Goto
  <2>7. QED
    BY <1>11, <2>3, <2>4, <2>5, <2>6 DEF Receive, clientVars, connVars, ReadPC
<1>12. ASSUME NEW c \in Calls, CopyResponse(c) PROVE TypeInv'
  BY <1>12 DEF CopyResponse, Goto, Decide, clientVars, connVars, ctxVars, readVars,
    CallPC, Outcome, Ctxs
<1>13. ASSUME NEW c \in Calls, Timeout(c) PROVE TypeInv'
  BY <1>13 DEF Timeout, Goto, Decide, Expires, clientVars, connVars, ctxVars, readVars,
    CallPC, Outcome
<1>14. ASSUME NEW c \in Calls, Finish(c) PROVE TypeInv'
  BY <1>14 DEF Finish, Goto, Recycles, clientVars, connVars, readVars, CallPC, Sync
<1>15. ASSUME NEW m \in server, ReadResponse(m) PROVE TypeInv'
  BY <1>15 DEF ReadResponse, Taken, connVars, callVars, ctxVars, ReadPC, Message, Entry
<1>16. CASE RunCallback
  <2>1. rent \in Entry /\ rent.call \in Calls
    BY <1>16 DEF RunCallback, Entry
  <2>2. NestedIn[rent.call] \in Calls \cup {None}
    BY <2>1
  <2>3. cbs' \in [Calls -> Nat]
    BY <1>16, <2>1 DEF RunCallback
  <2>4. /\ ruser' \in Calls \cup {None} /\ rback' \in {"read", "cleanup"}
        /\ rpc' \in {"user", "read"} /\ (rpc' = "user" => rback' = "read")
    BY <1>16, <2>2 DEF RunCallback, RunUser
  <2>5. QED
    BY <1>16, <2>3, <2>4 DEF RunCallback, clientVars, connVars, ctxVars, ReadPC
<1>17. CASE AssignResponse
  BY <1>17 DEF AssignResponse, Assigned, clientVars, connVars, callVars, ReadPC, Entry
<1>18. CASE SendResult
  BY <1>18 DEF SendResult, clientVars, connVars, callVars, ReadPC, Result, Entry
<1>19. CASE SendBlocks
  BY <1>19 DEF SendBlocks, clientVars, connVars, callVars, ctxVars, ReadPC
<1>20. ASSUME NEW h \in Calls, ReadRequest(h) PROVE TypeInv'
  BY <1>20 DEF ReadRequest, RunUser, clientVars, connVars, callVars, ctxVars, ReadPC
<1>21. CASE UserReturns
  BY <1>21 DEF UserReturns, clientVars, connVars, callVars, ctxVars, ReadPC
<1>22. CASE ReadFails
  BY <1>22 DEF ReadFails, clientVars, connVars, callVars, ctxVars, ReadPC
<1>23. ASSUME NEW r \in Rids, CleanupOne(r) PROVE TypeInv'
  <2>1. requests[r] \in Entry /\ requests[r].call \in Calls /\ requests[r].ctx \in Ctxs
    BY <1>23 DEF CleanupOne, Entry
  <2>2. NestedIn[requests[r].call] \in Calls \cup {None}
    BY <2>1
  <2>3. cbs' \in [Calls -> Nat]
    BY <1>23, <2>1 DEF CleanupOne
  <2>4. /\ ruser' \in Calls \cup {None} /\ rback' \in {"read", "cleanup"}
        /\ rpc' \in {"user", "cleanup"} /\ (rpc' = "user" => rback' = "cleanup")
    BY <1>23, <2>2 DEF CleanupOne, RunUser
  <2>5. errCh' \in [Ctxs -> Result \cup {None}]
    <3>1. [from |-> requests[r].call, failed |-> TRUE] \in Result
      BY <2>1 DEF Result
    <3>2. QED
      BY <1>23, <2>1, <3>1 DEF CleanupOne, Notified
  <2>6. QED
    BY <1>23, <2>3, <2>4, <2>5 DEF CleanupOne, clientVars, connVars, ReadPC
<1>24. CASE CleanupEnd
  BY <1>24 DEF CleanupEnd, PendingCleared, connVars, callVars, ctxVars, ReadPC
<1>25. CASE MayRedial
  BY <1>25 DEF MayRedial, clientVars, connVars, callVars, ctxVars, ReadPC
<1>26. CASE DialFails
  BY <1>26 DEF DialFails, clientVars, connVars, callVars, ctxVars, ReadPC
<1>27. CASE DialOk
  BY <1>27 DEF DialOk, clientVars, callVars, ctxVars, ReadPC, Conns, ConnState
<1>28. CASE BuildAsyncWriteConn
  BY <1>28 DEF BuildAsyncWriteConn, clientVars, connVars, callVars, ctxVars, ReadPC
<1>29. CASE CloseOld
  BY <1>29 DEF CloseOld, clientVars, callVars, ctxVars, ReadPC, ConnState
<1>30. CASE SetConn
  BY <1>30 DEF SetConn, clientVars, callVars, ctxVars, ReadPC, Conns
<1>31. CASE ExitClose
  BY <1>31 DEF ExitClose, connVars, callVars, ctxVars, ReadPC
<1>32. CASE ExitCloseConn
  BY <1>32 DEF ExitCloseConn, clientVars, callVars, ctxVars, ReadPC, ConnState
<1>33. CASE StoreError
  BY <1>33 DEF StoreError, connVars, callVars, ctxVars, ReadPC
<1>34. CASE Close
  BY <1>34 DEF Close, connVars, callVars, ctxVars, readVars
<1>35. CASE CloseConn
  BY <1>35 DEF CloseConn, ConnClosed, clientVars, callVars, ctxVars, readVars, ConnState
<1>36. CASE Break
  BY <1>36 DEF Break, clientVars, callVars, ctxVars, readVars, ConnState
<1>37. CASE UNCHANGED vars
  BY <1>37 DEF vars, clientVars, connVars, callVars, ctxVars, readVars
<1> HIDE DEF TypeInv, TypeOK, ReaderHolds, Locked
<1>38. QED
  BY <1>1, <1>2, <1>3, <1>4, <1>5, <1>6, <1>7, <1>8, <1>9, <1>10, <1>11, <1>12, <1>13,
  <1>14, <1>15, <1>16, <1>17, <1>18, <1>19, <1>20, <1>21, <1>22, <1>23, <1>24, <1>25,
  <1>26, <1>27, <1>28, <1>29, <1>30, <1>31, <1>32, <1>33, <1>34, <1>35, <1>36, <1>37 DEF
  Next, CallStep, ReadStep

(* TypeOK: every variable of the client, its connections, calls, contexts   *)
(* and reader has the type the code gives it, for all values of the         *)
(* constants.                                                               *)
THEOREM TypeCorrect == Spec => []TypeOK
<1>1. TypeInv => TypeOK
  BY DEF TypeInv
<1>2. QED
  BY <1>1, TypeInvInit, TypeInvNext, PTL DEF Spec

-----------------------------------------------------------------------------
(* The steps that touch none of what the invariant speaks of, except that   *)
(* the reader moves between places where it holds neither an entry nor      *)
(* unnotified contexts.                                                     *)
Quiet ==
  /\ UNCHANGED <<crid, requests, pc, rid, ctx, out, got, resp, cbs, ctxVars, server, rent,
                 rmsg, rtodo>>
  /\ Locked' <=> Locked
  /\ rpc' = rpc \/ ~(ReaderHolds \/ ReaderHolds' \/ rpc' = "orphan")

(* Redialling, closing, serving a request and returning from user code are  *)
(* quiet.                                                                   *)
LEMMA QuietSteps ==
  ASSUME TypeInv,
         \/ MayRedial \/ DialFails \/ DialOk \/ BuildAsyncWriteConn \/ CloseOld
         \/ SetConn \/ ExitClose \/ ExitCloseConn \/ StoreError \/ Close
         \/ CloseConn \/ Break \/ UserReturns
         \/ (\E h \in Calls : ReadRequest(h)) \/ UNCHANGED vars
  PROVE  Quiet
<1> USE DEF Quiet, ReaderHolds, Locked, TypeInv, TypeOK, clientVars, connVars, callVars, ctxVars, readVars
<1>1. CASE MayRedial
  BY <1>1 DEF MayRedial
<1>2. CASE DialFails
  BY <1>2 DEF DialFails
<1>3. CASE DialOk
  BY <1>3 DEF DialOk
<1>4. CASE BuildAsyncWriteConn
  BY <1>4 DEF BuildAsyncWriteConn
<1>5. CASE CloseOld
  BY <1>5 DEF CloseOld
<1>6. CASE SetConn
  BY <1>6 DEF SetConn
<1>7. CASE ExitClose
  BY <1>7 DEF ExitClose
<1>8. CASE ExitCloseConn
  BY <1>8 DEF ExitCloseConn
<1>9. CASE StoreError
  BY <1>9 DEF StoreError
<1>10. CASE Close
  BY <1>10 DEF Close
<1>11. CASE CloseConn
  BY <1>11 DEF CloseConn, ConnClosed
<1>12. CASE Break
  BY <1>12 DEF Break
<1>13. ASSUME NEW h \in Calls, ReadRequest(h) PROVE Quiet
  BY <1>13 DEF ReadRequest, RunUser
<1>14. CASE UserReturns
  BY <1>14 DEF UserReturns
<1>15. CASE UNCHANGED vars
  BY <1>15 DEF vars
<1>16. QED
  BY <1>1, <1>2, <1>3, <1>4, <1>5, <1>6, <1>7, <1>8, <1>9, <1>10, <1>11, <1>12, <1>13,
  <1>14, <1>15

(* A quiet step preserves the invariant.                                    *)
LEMMA QuietPreserves ==
  ASSUME IndInv, TypeInv', Quiet PROVE IndInv'
<1> USE DEF IndInv, Quiet, ctxVars
<1>1. RidInv'
  BY DEF RidInv, Numbered, TypeInv, TypeOK
<1>2. OwnerInv'
  BY DEF OwnerInv, Owns, Recycles, TypeInv, TypeOK, Ctxs, Sync
<1>3. EntryInv'
  BY DEF EntryInv, Live, Registered, Locked, RidInv, Numbered, TypeInv, TypeOK, Entry
<1>4. ServerInv'
  BY DEF ServerInv, Waits, TypeInv, TypeOK, Message
<1>5. ReaderInv'
  BY DEF ReaderInv, ReaderHolds, Waits, TypeInv, TypeOK, Entry, Sync
<1>6. ChannelInv'
  BY DEF ChannelInv, Live, Locked, Owns, Recycles, OwnerInv, EntryInv, Registered,
  ReaderInv, ReaderHolds, TypeInv, TypeOK, Entry, Sync, Ctxs
<1>7. CallbackInv'
  BY DEF CallbackInv, Live, Locked, EntryInv, Registered, TypeInv, TypeOK, Entry,
  ReaderHolds
<1>8. ResultInv'
  BY DEF ResultInv, OwnResult, TypeInv, TypeOK, Sync
<1>9. QED
  BY <1>1, <1>2, <1>3, <1>4, <1>5, <1>6, <1>7, <1>8

(* Begin(c) preserves the invariant.  DoTimeout takes a context that nobody *)
(* owns, and empties its channel.                                           *)
LEMMA BeginPreserves ==
  ASSUME IndInv, TypeInv', UniqueRids, ~AnswersOneWay, NEW c \in Calls, Begin(c) PROVE IndInv'
<1> USE ConstantsAssumption
<1>0. TypeInv /\ RidInv /\ OwnerInv /\ EntryInv /\ ServerInv /\ ReaderInv /\ ChannelInv /\ CallbackInv /\ ResultInv
  BY DEF IndInv
<1>1. RidInv'
  BY <1>0 DEF Begin, Goto, MayStart, Abandon, NewErrCh, clientVars, connVars, RidInv,
  Numbered, TypeInv, TypeOK
<1>2. OwnerInv'
  BY <1>0 DEF Begin, Goto, MayStart, Abandon, NewErrCh, clientVars, connVars, OwnerInv,
  Owns, Recycles, TypeInv, TypeOK, Ctxs, Sync
<1>3. EntryInv'
  BY <1>0 DEF Begin, Goto, MayStart, Abandon, NewErrCh, clientVars, connVars, EntryInv,
  Live, Registered, Locked, RidInv, Numbered, TypeInv, TypeOK, Entry
<1>4. ServerInv'
  BY <1>0 DEF Begin, Goto, MayStart, Abandon, NewErrCh, clientVars, connVars, ServerInv,
  Waits, TypeInv, TypeOK, Message
<1>5. ReaderInv'
  BY <1>0 DEF Begin, Goto, MayStart, Abandon, NewErrCh, clientVars, connVars, ReaderInv,
  ReaderHolds, Waits, TypeInv, TypeOK, Entry, Sync
<1>6. ChannelInv'
  BY <1>0 DEF Begin, Goto, MayStart, Abandon, NewErrCh, clientVars, connVars, ChannelInv,
  Live, Locked, Owns, Recycles, OwnerInv, EntryInv, Registered, ReaderInv, ReaderHolds,
  TypeInv, TypeOK, Entry, Sync, Ctxs
<1>7. CallbackInv'
  BY <1>0 DEF Begin, Goto, MayStart, Abandon, NewErrCh, clientVars, connVars, CallbackInv,
  Live, Locked, EntryInv, Registered, TypeInv, TypeOK, Entry, ReaderHolds
<1>8. ResultInv'
  BY <1>0 DEF Begin, Goto, MayStart, Abandon, NewErrCh, clientVars, connVars, ResultInv,
  OwnResult, TypeInv, TypeOK, Sync
<1>9. QED
  BY <1>1, <1>2, <1>3, <1>4, <1>5, <1>6, <1>7, <1>8 DEF IndInv

(* BeginCallback(c) preserves the invariant.  DoCallback takes a context of *)
(* its own.                                                                 *)
LEMMA BeginCallbackPreserves ==
  ASSUME IndInv, TypeInv', UniqueRids, ~AnswersOneWay, NEW c \in Calls, BeginCallback(c) PROVE IndInv'
<1> USE ConstantsAssumption
<1>0. TypeInv /\ RidInv /\ OwnerInv /\ EntryInv /\ ServerInv /\ ReaderInv /\ ChannelInv /\ CallbackInv /\ ResultInv
  BY DEF IndInv
<1>1. RidInv'
  BY <1>0 DEF BeginCallback, Goto, MayStart, clientVars, connVars, readVars, RidInv,
  Numbered, TypeInv, TypeOK
<1>2. OwnerInv'
  BY <1>0 DEF BeginCallback, Goto, MayStart, clientVars, connVars, readVars, OwnerInv,
  Owns, Recycles, TypeInv, TypeOK, Ctxs, Sync
<1>3. EntryInv'
  BY <1>0 DEF BeginCallback, Goto, MayStart, clientVars, connVars, readVars, EntryInv,
  Live, Registered, Locked, RidInv, Numbered, TypeInv, TypeOK, Entry
<1>4. ServerInv'
  BY <1>0 DEF BeginCallback, Goto, MayStart, clientVars, connVars, readVars, ServerInv,
  Waits, TypeInv, TypeOK, Message
<1>5. ReaderInv'
  BY <1>0 DEF BeginCallback, Goto, MayStart, clientVars, connVars, readVars, ReaderInv,
  ReaderHolds, Waits, TypeInv, TypeOK, Entry, Sync
<1>6. ChannelInv'
  BY <1>0 DEF BeginCallback, Goto, MayStart, clientVars, connVars, readVars, ChannelInv,
  Live, Locked, Owns, Recycles, OwnerInv, EntryInv, Registered, ReaderInv, ReaderHolds,
  TypeInv, TypeOK, Entry, Sync, Ctxs
<1>7. CallbackInv'
  BY <1>0 DEF BeginCallback, Goto, MayStart, clientVars, connVars, readVars, CallbackInv,
  Live, Locked, EntryInv, Registered, TypeInv, TypeOK, Entry, ReaderHolds
<1>8. ResultInv'
  BY <1>0 DEF BeginCallback, Goto, MayStart, clientVars, connVars, readVars, ResultInv,
  OwnResult, TypeInv, TypeOK, Sync
<1>9. QED
  BY <1>1, <1>2, <1>3, <1>4, <1>5, <1>6, <1>7, <1>8 DEF IndInv

(* CheckClosed(c) preserves the invariant.  Nothing of the call but its     *)
(* place in invoke changes.                                                 *)
LEMMA CheckClosedPreserves ==
  ASSUME IndInv, TypeInv', UniqueRids, ~AnswersOneWay, NEW c \in Calls, CheckClosed(c) PROVE IndInv'
<1> USE ConstantsAssumption
<1>0. TypeInv /\ RidInv /\ OwnerInv /\ EntryInv /\ ServerInv /\ ReaderInv /\ ChannelInv /\ CallbackInv /\ ResultInv
  BY DEF IndInv
<1>1. RidInv'
  BY <1>0 DEF CheckClosed, Goto, Decide, clientVars, connVars, ctxVars, readVars, RidInv,
  Numbered, TypeInv, TypeOK
<1>2. OwnerInv'
  <2>1. \A d \in Calls : (Owns(d)' <=> Owns(d)) /\ (pc'[d] = "idle" <=> pc[d] = "idle")
    BY <1>0 DEF CheckClosed, Goto, Decide, Owns, Recycles, TypeInv, TypeOK
  <2>2. \A d \in Calls : pc'[d] \in {"wait", "copy"} => pc[d] \in {"wait", "copy"} \/ d \in Sync
    BY <1>0 DEF CheckClosed, Goto, Sync, TypeInv, TypeOK
  <2>3. QED
    BY <1>0, <2>1, <2>2 DEF CheckClosed, OwnerInv, TypeInv, TypeOK, Ctxs, ctxVars
<1>3. EntryInv'
  BY <1>0 DEF CheckClosed, Goto, Decide, clientVars, connVars, ctxVars, readVars,
  EntryInv, Live, Registered, Locked, RidInv, Numbered, TypeInv, TypeOK, Entry
<1>4. ServerInv'
  BY <1>0 DEF CheckClosed, Goto, Decide, clientVars, connVars, ctxVars, readVars,
  ServerInv, Waits, TypeInv, TypeOK, Message
<1>5. ReaderInv'
  BY <1>0 DEF CheckClosed, Goto, Decide, clientVars, connVars, ctxVars, readVars,
  ReaderInv, ReaderHolds, Waits, TypeInv, TypeOK, Entry, Sync
<1>6. ChannelInv'
  <2>1. \A d \in Calls : Owns(d)' => Owns(d)
    BY <1>0 DEF CheckClosed, Goto, Decide, Owns, Recycles, TypeInv, TypeOK
  <2>2. /\ \A d \in Calls : pc'[d] = "copy" => pc[d] = "copy"
        /\ \A d \in Calls : pc'[d] \in {"check", "alloc", "add"} => pc[d] \in {"check", "alloc", "add"}
    BY <1>0 DEF CheckClosed, Goto, TypeInv, TypeOK
  <2>3. QED
    BY <1>0, <2>1, <2>2
    DEF CheckClosed, ChannelInv, Live, Locked, Sync, clientVars, ctxVars, readVars
<1>7. CallbackInv'
  BY <1>0 DEF CheckClosed, Goto, Decide, clientVars, connVars, ctxVars, readVars,
  CallbackInv, Live, Locked, EntryInv, Registered, TypeInv, TypeOK, Entry, ReaderHolds
<1>8. ResultInv'
  BY <1>0 DEF CheckClosed, Goto, Decide, clientVars, connVars, ctxVars, readVars,
  ResultInv, OwnResult, TypeInv, TypeOK, Sync
<1>9. QED
  BY <1>1, <1>2, <1>3, <1>4, <1>5, <1>6, <1>7, <1>8 DEF IndInv

(* Refuse(c) preserves the invariant.  A call refused before it has an id   *)
(* was never registered.                                                    *)
LEMMA RefusePreserves ==
  ASSUME IndInv, TypeInv', UniqueRids, ~AnswersOneWay, NEW c \in Calls, Refuse(c) PROVE IndInv'
<1> USE ConstantsAssumption
<1>0. TypeInv /\ RidInv /\ OwnerInv /\ EntryInv /\ ServerInv /\ ReaderInv /\ ChannelInv /\ CallbackInv /\ ResultInv
  BY DEF IndInv
<1>1. RidInv'
  BY <1>0 DEF Refuse, Goto, Decide, clientVars, connVars, ctxVars, readVars, RidInv,
  Numbered, TypeInv, TypeOK
<1>2. OwnerInv'
  BY <1>0 DEF Refuse, Goto, Decide, clientVars, connVars, ctxVars, readVars, OwnerInv,
  Owns, Recycles, TypeInv, TypeOK, Ctxs, Sync
<1>3. EntryInv'
  BY <1>0 DEF Refuse, Goto, Decide, clientVars, connVars, ctxVars, readVars, EntryInv,
  Live, Registered, Locked, RidInv, Numbered, TypeInv, TypeOK, Entry
<1>4. ServerInv'
  BY <1>0 DEF Refuse, Goto, Decide, clientVars, connVars, ctxVars, readVars, ServerInv,
  Waits, TypeInv, TypeOK, Message
<1>5. ReaderInv'
  BY <1>0 DEF Refuse, Goto, Decide, clientVars, connVars, ctxVars, readVars, ReaderInv,
  ReaderHolds, Waits, TypeInv, TypeOK, Entry, Sync
<1>6. ChannelInv'
  BY <1>0 DEF Refuse, Goto, Decide, clientVars, connVars, ctxVars, readVars, ChannelInv,
  Live, Locked, Owns, Recycles, OwnerInv, EntryInv, Registered, ReaderInv, ReaderHolds,
  TypeInv, TypeOK, Entry, Sync, Ctxs
<1>7. CallbackInv'
  BY <1>0 DEF Refuse, Goto, Decide, clientVars, connVars, ctxVars, readVars, CallbackInv,
  Live, Locked, EntryInv, Registered, TypeInv, TypeOK, Entry, ReaderHolds
<1>8. ResultInv'
  BY <1>0 DEF Refuse, Goto, Decide, clientVars, connVars, ctxVars, readVars, ResultInv,
  OwnResult, TypeInv, TypeOK, Sync
<1>9. QED
  BY <1>1, <1>2, <1>3, <1>4, <1>5, <1>6, <1>7, <1>8 DEF IndInv

(* AllocRid(c) preserves the invariant.  The new id is larger than all ids  *)
(* in use: no wrap happens below RidSpace.                                  *)
LEMMA AllocRidPreserves ==
  ASSUME IndInv, TypeInv', UniqueRids, ~AnswersOneWay, NEW c \in Calls, AllocRid(c) PROVE IndInv'
<1> USE ConstantsAssumption
<1>0. TypeInv /\ RidInv /\ OwnerInv /\ EntryInv /\ ServerInv /\ ReaderInv /\ ChannelInv /\ CallbackInv /\ ResultInv
  BY DEF IndInv
<1>1. RidInv'
  <2>1. c \notin Numbered /\ rid[c] = None
    BY <1>0 DEF AllocRid, RidInv, Numbered
  <2>2. IsFiniteSet(Numbered) /\ Cardinality(Numbered) \in Nat /\ Cardinality(Calls) \in Nat
    BY FS_Subset, FS_CardinalityType DEF ConstantsAssumption, Numbered
  <2>3. Cardinality(Numbered \cup {c}) = Cardinality(Numbered) + 1
    BY <2>1, <2>2, FS_AddElement
  <2>4. Cardinality(Numbered \cup {c}) <= Cardinality(Calls)
    BY FS_Subset DEF ConstantsAssumption, Numbered
  <2>5. NextRid = crid + 1 /\ crid \in Nat /\ None # crid + 1
    <3>1. crid = Cardinality(Numbered) /\ crid + 1 < RidSpace
      BY <1>0, <2>2, <2>3, <2>4 DEF RidInv, UniqueRids, ConstantsAssumption
    <3>2. QED
      BY <2>2, <3>1 DEF NextRid, ConstantsAssumption, Rids
  <2>6. rid' = [rid EXCEPT ![c] = crid + 1] /\ crid' = crid + 1
    BY <2>5 DEF AllocRid, UniqueRids
  <2>7. Numbered' = Numbered \cup {c}
    BY <1>0, <2>5, <2>6 DEF Numbered, TypeInv, TypeOK
  <2>8. crid' = Cardinality(Numbered')
    BY <1>0, <2>3, <2>6, <2>7 DEF RidInv
  <2>9. \A d \in Calls : pc'[d] \in {"idle", "check", "alloc"} => rid'[d] = None
    BY <1>0, <2>6 DEF RidInv, AllocRid, Goto, TypeInv, TypeOK
  <2>10. \A d \in Numbered : rid[d] \in Nat /\ rid[d] < crid + 1 /\ rid'[d] = rid[d]
    <3> SUFFICES ASSUME NEW d \in Numbered PROVE rid[d] \in Nat /\ rid[d] < crid + 1 /\ rid'[d] = rid[d]
      OBVIOUS
    <3>1. d \in Calls /\ d # c /\ rid[d] \in Rids
      BY <1>0, <2>1 DEF Numbered, TypeInv, TypeOK
    <3>2. rid[d] \in Nat /\ rid[d] <= crid
      BY <1>0, <3>1 DEF RidInv, Rids, ConstantsAssumption
    <3>3. rid'[d] = rid[d]
      BY <1>0, <2>6, <3>1 DEF TypeInv, TypeOK
    <3>4. QED
      BY <2>5, <3>2, <3>3
  <2>11. rid'[c] = crid + 1
    BY <1>0, <2>6 DEF TypeInv, TypeOK
  <2>12. \A d \in Numbered' : rid'[d] <= crid'
    BY <2>5, <2>6, <2>7, <2>10, <2>11
  <2>13. \A d, e \in Numbered' : rid'[d] = rid'[e] => d = e
    <3> SUFFICES ASSUME NEW d \in Numbered', NEW e \in Numbered', rid'[d] = rid'[e] PROVE d = e
      OBVIOUS
    <3>1. CASE d = c \/ e = c
      BY <2>5, <2>7, <2>10, <2>11, <3>1
    <3>2. CASE d # c /\ e # c
      BY <1>0, <2>7, <2>10, <3>2 DEF RidInv
    <3>3. QED
      BY <3>1, <3>2
  <2>14. QED
    BY <2>8, <2>9, <2>12, <2>13 DEF RidInv
<1>2. OwnerInv'
  <2>1. \A d \in Calls : (Owns(d)' <=> Owns(d)) /\ (pc'[d] = "idle" <=> pc[d] = "idle")
    BY <1>0 DEF AllocRid, Goto, Decide, Owns, Recycles, TypeInv, TypeOK
  <2>2. \A d \in Calls : pc'[d] \in {"wait", "copy"} => pc[d] \in {"wait", "copy"}
    BY <1>0 DEF AllocRid, Goto, TypeInv, TypeOK
  <2>3. QED
    BY <1>0, <2>1, <2>2 DEF AllocRid, OwnerInv, TypeInv, TypeOK, Ctxs, ctxVars
<1>3. EntryInv'
  BY <1>0 DEF AllocRid, Goto, Decide, NextRid, connVars, ctxVars, readVars, EntryInv,
  Live, Registered, Locked, RidInv, Numbered, TypeInv, TypeOK, Entry
<1>4. ServerInv'
  BY <1>0 DEF AllocRid, Goto, Decide, NextRid, connVars, ctxVars, readVars, ServerInv,
  Waits, TypeInv, TypeOK, Message
<1>5. ReaderInv'
  BY <1>0 DEF AllocRid, Goto, Decide, NextRid, connVars, ctxVars, readVars, ReaderInv,
  ReaderHolds, Waits, TypeInv, TypeOK, Entry, Sync
<1>6. ChannelInv'
  BY <1>0, SMTT(60) DEF AllocRid, Goto, Decide, NextRid, connVars, ctxVars, readVars, ChannelInv,
  Live, Locked, Owns, Recycles, OwnerInv, EntryInv, Registered, ReaderInv, ReaderHolds,
  TypeInv, TypeOK, Entry, Sync, Ctxs
<1>7. CallbackInv'
  BY <1>0 DEF AllocRid, Goto, Decide, NextRid, connVars, ctxVars, readVars, CallbackInv,
  Live, Locked, EntryInv, Registered, TypeInv, TypeOK, Entry, ReaderHolds
<1>8. ResultInv'
  BY <1>0 DEF AllocRid, Goto, Decide, NextRid, connVars, ctxVars, readVars, ResultInv,
  OwnResult, TypeInv, TypeOK, Sync
<1>9. QED
  BY <1>1, <1>2, <1>3, <1>4, <1>5, <1>6, <1>7, <1>8 DEF IndInv

(* AddRequestContext(c) preserves the invariant.  The entry is the caller's *)
(* own: its id and context are nobody else's.                               *)
LEMMA AddRequestContextPreserves ==
  ASSUME IndInv, TypeInv', UniqueRids, ~AnswersOneWay, NEW c \in Calls, AddRequestContext(c) PROVE IndInv'
<1> USE ConstantsAssumption
<1>0. TypeInv /\ RidInv /\ OwnerInv /\ EntryInv /\ ServerInv /\ ReaderInv /\ ChannelInv /\ CallbackInv /\ ResultInv
  BY DEF IndInv
<1>1. RidInv'
  BY <1>0 DEF AddRequestContext, Goto, connVars, ctxVars, readVars, RidInv, Numbered,
  TypeInv, TypeOK
<1>2. OwnerInv'
  BY <1>0 DEF AddRequestContext, Goto, connVars, ctxVars, readVars, OwnerInv, Owns,
  Recycles, TypeInv, TypeOK, Ctxs, Sync
<1>3. EntryInv'
  BY <1>0 DEF AddRequestContext, Goto, connVars, ctxVars, readVars, EntryInv, Live,
  Registered, Locked, RidInv, Numbered, TypeInv, TypeOK, Entry
<1>4. ServerInv'
  BY <1>0 DEF AddRequestContext, Goto, connVars, ctxVars, readVars, ServerInv, Waits,
  TypeInv, TypeOK, Message
<1>5. ReaderInv'
  <2>1. ReaderHolds => rent.call # c /\ rid[rent.call] # rid[c]
    BY <1>0 DEF AddRequestContext, ReaderInv, ReaderHolds, Waits, RidInv, Numbered, TypeInv,
       TypeOK, Entry
  <2>2. \A d \in Calls : Waits(d) => Waits(d)'
    BY <1>0 DEF AddRequestContext, Goto, Waits, TypeInv, TypeOK
  <2>3. QED
    BY <1>0, <2>1, <2>2
    DEF AddRequestContext, ReaderInv, ReaderHolds, TypeInv, TypeOK, Entry, Rids, ctxVars, readVars
<1>6. ChannelInv'
  <2>1. \A d \in Calls : Owns(d)' => Owns(d)
    BY <1>0 DEF AddRequestContext, Goto, Owns, Recycles, TypeInv, TypeOK
  <2>2. /\ \A d \in Calls : pc'[d] = "copy" => pc[d] = "copy"
        /\ \A d \in Calls : pc'[d] \in {"check", "alloc", "add"} => pc[d] \in {"check", "alloc", "add"}
    BY <1>0 DEF AddRequestContext, Goto, TypeInv, TypeOK
  <2>3. \A r \in Rids : Live(r)' /\ requests'[r].call \in Sync => errCh[requests'[r].ctx] = None
    BY <1>0 DEF AddRequestContext, ChannelInv, Live, Locked, TypeInv, TypeOK, ctxVars, readVars
  <2>4. QED
    BY <1>0, <2>1, <2>2, <2>3
    DEF AddRequestContext, ChannelInv, Sync, ctxVars, readVars
<1>7. CallbackInv'
  BY <1>0 DEF AddRequestContext, Goto, connVars, ctxVars, readVars, CallbackInv, Live,
  Locked, EntryInv, Registered, TypeInv, TypeOK, Entry, ReaderHolds
<1>8. ResultInv'
  BY <1>0 DEF AddRequestContext, Goto, connVars, ctxVars, readVars, ResultInv, OwnResult,
  TypeInv, TypeOK, Sync
<1>9. QED
  BY <1>1, <1>2, <1>3, <1>4, <1>5, <1>6, <1>7, <1>8 DEF IndInv

(* GetConn(c) preserves the invariant.  Nothing of the call but its place   *)
(* in invoke changes.                                                       *)
LEMMA GetConnPreserves ==
  ASSUME IndInv, TypeInv', UniqueRids, ~AnswersOneWay, NEW c \in Calls, GetConn(c) PROVE IndInv'
<1> USE ConstantsAssumption
<1>0. TypeInv /\ RidInv /\ OwnerInv /\ EntryInv /\ ServerInv /\ ReaderInv /\ ChannelInv /\ CallbackInv /\ ResultInv
  BY DEF IndInv
<1>1. RidInv'
  BY <1>0 DEF GetConn, Goto, clientVars, connVars, ctxVars, readVars, RidInv, Numbered,
  TypeInv, TypeOK
<1>2. OwnerInv'
  BY <1>0 DEF GetConn, Goto, clientVars, connVars, ctxVars, readVars, OwnerInv, Owns,
  Recycles, TypeInv, TypeOK, Ctxs, Sync
<1>3. EntryInv'
  BY <1>0 DEF GetConn, Goto, clientVars, connVars, ctxVars, readVars, EntryInv, Live,
  Registered, Locked, RidInv, Numbered, TypeInv, TypeOK, Entry
<1>4. ServerInv'
  BY <1>0 DEF GetConn, Goto, clientVars, connVars, ctxVars, readVars, ServerInv, Waits,
  TypeInv, TypeOK, Message
<1>5. ReaderInv'
  BY <1>0 DEF GetConn, Goto, clientVars, connVars, ctxVars, readVars, ReaderInv,
  ReaderHolds, Waits, TypeInv, TypeOK, Entry, Sync
<1>6. ChannelInv'
  BY <1>0 DEF GetConn, Goto, clientVars, connVars, ctxVars, readVars, ChannelInv, Live,
  Locked, Owns, Recycles, OwnerInv, EntryInv, Registered, ReaderInv, ReaderHolds, TypeInv,
  TypeOK, Entry, Sync, Ctxs
<1>7. CallbackInv'
  BY <1>0 DEF GetConn, Goto, clientVars, connVars, ctxVars, readVars, CallbackInv, Live,
  Locked, EntryInv, Registered, TypeInv, TypeOK, Entry, ReaderHolds
<1>8. ResultInv'
  BY <1>0 DEF GetConn, Goto, clientVars, connVars, ctxVars, readVars, ResultInv,
  OwnResult, TypeInv, TypeOK, Sync
<1>9. QED
  BY <1>1, <1>2, <1>3, <1>4, <1>5, <1>6, <1>7, <1>8 DEF IndInv

(* WriteOk(c) preserves the invariant.  A request reaches the peer under    *)
(* the id of its call, two-way requests only.                               *)
LEMMA WriteOkPreserves ==
  ASSUME IndInv, TypeInv', UniqueRids, ~AnswersOneWay, NEW c \in Calls, WriteOk(c) PROVE IndInv'
<1> USE ConstantsAssumption
<1>0. TypeInv /\ RidInv /\ OwnerInv /\ EntryInv /\ ServerInv /\ ReaderInv /\ ChannelInv /\ CallbackInv /\ ResultInv
  BY DEF IndInv
<1>1. RidInv'
  BY <1>0 DEF WriteOk, Goto, Decide, clientVars, connVars, ctxVars, readVars, RidInv,
  Numbered, TypeInv, TypeOK
<1>2. OwnerInv'
  <2>1. \A d \in Calls : (Owns(d)' <=> Owns(d)) /\ (pc'[d] = "idle" <=> pc[d] = "idle")
    BY <1>0 DEF WriteOk, Goto, Decide, Owns, Recycles, TypeInv, TypeOK
  <2>2. \A d \in Calls : pc'[d] \in {"wait", "copy"} => pc[d] \in {"wait", "copy"} \/ d \in Sync
    BY <1>0 DEF WriteOk, Goto, Sync, TypeInv, TypeOK
  <2>3. QED
    BY <1>0, <2>1, <2>2 DEF WriteOk, OwnerInv, TypeInv, TypeOK, Ctxs, ctxVars
<1>3. EntryInv'
  BY <1>0 DEF WriteOk, Goto, Decide, clientVars, connVars, ctxVars, readVars, EntryInv,
  Live, Registered, Locked, RidInv, Numbered, TypeInv, TypeOK, Entry
<1>4. ServerInv'
  BY <1>0 DEF WriteOk, Goto, Decide, clientVars, connVars, ctxVars, readVars, ServerInv,
  Waits, TypeInv, TypeOK, Message
<1>5. ReaderInv'
  BY <1>0 DEF WriteOk, Goto, Decide, clientVars, connVars, ctxVars, readVars, ReaderInv,
  ReaderHolds, Waits, TypeInv, TypeOK, Entry, Sync
<1>6. ChannelInv'
  <2>1. \A d \in Calls : Owns(d)' => Owns(d)
    BY <1>0 DEF WriteOk, Goto, Decide, Owns, Recycles, TypeInv, TypeOK
  <2>2. /\ \A d \in Calls : pc'[d] = "copy" => pc[d] = "copy"
        /\ \A d \in Calls : pc'[d] \in {"check", "alloc", "add"} => pc[d] \in {"check", "alloc", "add"}
    BY <1>0 DEF WriteOk, Goto, TypeInv, TypeOK
  <2>3. QED
    BY <1>0, <2>1, <2>2
    DEF WriteOk, ChannelInv, Live, Locked, Sync, clientVars, ctxVars, readVars
<1>7. CallbackInv'
  BY <1>0 DEF WriteOk, Goto, Decide, clientVars, connVars, ctxVars, readVars, CallbackInv,
  Live, Locked, EntryInv, Registered, TypeInv, TypeOK, Entry, ReaderHolds
<1>8. ResultInv'
  BY <1>0 DEF WriteOk, Goto, Decide, clientVars, connVars, ctxVars, readVars, ResultInv,
  OwnResult, TypeInv, TypeOK, Sync
<1>9. QED
  BY <1>1, <1>2, <1>3, <1>4, <1>5, <1>6, <1>7, <1>8 DEF IndInv

(* WriteFails(c) preserves the invariant.  A call whose write failed has no *)
(* request at the peer.                                                     *)
LEMMA WriteFailsPreserves ==
  ASSUME IndInv, TypeInv', UniqueRids, ~AnswersOneWay, NEW c \in Calls, WriteFails(c) PROVE IndInv'
<1> USE ConstantsAssumption
<1>0. TypeInv /\ RidInv /\ OwnerInv /\ EntryInv /\ ServerInv /\ ReaderInv /\ ChannelInv /\ CallbackInv /\ ResultInv
  BY DEF IndInv
<1>1. RidInv'
  BY <1>0 DEF WriteFails, Goto, Decide, clientVars, connVars, ctxVars, readVars, RidInv,
  Numbered, TypeInv, TypeOK
<1>2. OwnerInv'
  BY <1>0 DEF WriteFails, Goto, Decide, clientVars, connVars, ctxVars, readVars, OwnerInv,
  Owns, Recycles, TypeInv, TypeOK, Ctxs, Sync
<1>3. EntryInv'
  BY <1>0 DEF WriteFails, Goto, Decide, clientVars, connVars, ctxVars, readVars, EntryInv,
  Live, Registered, Locked, RidInv, Numbered, TypeInv, TypeOK, Entry
<1>4. ServerInv'
  BY <1>0 DEF WriteFails, Goto, Decide, clientVars, connVars, ctxVars, readVars,
  ServerInv, Waits, TypeInv, TypeOK, Message
<1>5. ReaderInv'
  BY <1>0 DEF WriteFails, Goto, Decide, clientVars, connVars, ctxVars, readVars,
  ReaderInv, ReaderHolds, Waits, TypeInv, TypeOK, Entry, Sync
<1>6. ChannelInv'
  BY <1>0 DEF WriteFails, Goto, Decide, clientVars, connVars, ctxVars, readVars,
  ChannelInv, Live, Locked, Owns, Recycles, OwnerInv, EntryInv, Registered, ReaderInv,
  ReaderHolds, TypeInv, TypeOK, Entry, Sync, Ctxs
<1>7. CallbackInv'
  BY <1>0 DEF WriteFails, Goto, Decide, clientVars, connVars, ctxVars, readVars,
  CallbackInv, Live, Locked, EntryInv, Registered, TypeInv, TypeOK, Entry, ReaderHolds
<1>8. ResultInv'
  BY <1>0 DEF WriteFails, Goto, Decide, clientVars, connVars, ctxVars, readVars,
  ResultInv, OwnResult, TypeInv, TypeOK, Sync
<1>9. QED
  BY <1>1, <1>2, <1>3, <1>4, <1>5, <1>6, <1>7, <1>8 DEF IndInv

(* DelRequestContext(c) preserves the invariant.  Only the entry of the     *)
(* call itself goes away.                                                   *)
LEMMA DelRequestContextPreserves ==
  ASSUME IndInv, TypeInv', UniqueRids, ~AnswersOneWay, NEW c \in Calls, DelRequestContext(c) PROVE IndInv'
<1> USE ConstantsAssumption
<1>0. TypeInv /\ RidInv /\ OwnerInv /\ EntryInv /\ ServerInv /\ ReaderInv /\ ChannelInv /\ CallbackInv /\ ResultInv
  BY DEF IndInv
<1>1. RidInv'
  BY <1>0 DEF DelRequestContext, Goto, DropEntry, connVars, ctxVars, readVars, RidInv,
  Numbered, TypeInv, TypeOK
<1>2. OwnerInv'
  BY <1>0 DEF DelRequestContext, Goto, DropEntry, connVars, ctxVars, readVars, OwnerInv,
  Owns, Recycles, TypeInv, TypeOK, Ctxs, Sync
<1>3. EntryInv'
  BY <1>0 DEF DelRequestContext, Goto, DropEntry, connVars, ctxVars, readVars, EntryInv,
  Live, Registered, Locked, RidInv, Numbered, TypeInv, TypeOK, Entry
<1>4. ServerInv'
  BY <1>0 DEF DelRequestContext, Goto, DropEntry, connVars, ctxVars, readVars, ServerInv,
  Waits, TypeInv, TypeOK, Message
<1>5. ReaderInv'
  BY <1>0 DEF DelRequestContext, Goto, DropEntry, connVars, ctxVars, readVars, ReaderInv,
  ReaderHolds, Waits, TypeInv, TypeOK, Entry, Sync
<1>6. ChannelInv'
  BY <1>0 DEF DelRequestContext, Goto, DropEntry, connVars, ctxVars, readVars, ChannelInv,
  Live, Locked, Owns, Recycles, OwnerInv, EntryInv, Registered, ReaderInv, ReaderHolds,
  TypeInv, TypeOK, Entry, Sync, Ctxs
<1>7. CallbackInv'
  BY <1>0 DEF DelRequestContext, Goto, DropEntry, connVars, ctxVars, readVars,
  CallbackInv, Live, Locked, EntryInv, Registered, TypeInv, TypeOK, Entry, ReaderHolds
<1>8. ResultInv'
  BY <1>0 DEF DelRequestContext, Goto, DropEntry, connVars, ctxVars, readVars, ResultInv,
  OwnResult, TypeInv, TypeOK, Sync
<1>9. QED
  BY <1>1, <1>2, <1>3, <1>4, <1>5, <1>6, <1>7, <1>8 DEF IndInv

(* Receive(c) preserves the invariant.  The value received was sent for the *)
(* owner of the context, which is c.                                        *)
LEMMA ReceivePreserves ==
  ASSUME IndInv, TypeInv', UniqueRids, ~AnswersOneWay, NEW c \in Calls, Receive(c) PROVE IndInv'
<1> USE ConstantsAssumption
<1>0. TypeInv /\ RidInv /\ OwnerInv /\ EntryInv /\ ServerInv /\ ReaderInv /\ ChannelInv /\ CallbackInv /\ ResultInv
  BY DEF IndInv
<1>a. /\ errCh' = [errCh EXCEPT ![ctx[c]] = None] /\ UNCHANGED <<rpc, rent, rmsg>>
      /\ pc[c] = "wait" /\ pc' = [pc EXCEPT ![c] = pc'[c]] /\ pc'[c] \in {"copy", "return"}
      /\ errCh[ctx[c]] # None
  BY <1>0 DEF Receive, Goto, ReaderInv, TypeInv, TypeOK
<1>b. \A d \in Calls : Owns(d)' <=> Owns(d)
  BY <1>0, <1>a DEF Receive, Decide, Owns, Recycles, TypeInv, TypeOK
<1>d. /\ \A r \in Rids : Live(r) /\ requests[r].call \in Sync => requests[r].call # c
      /\ rpc \in {"assign", "send"} => rent.call # c
  BY <1>0, <1>a DEF Live, EntryInv, ChannelInv, ReaderInv, ReaderHolds
<1>e. c \in Sync
  BY <1>0, <1>a DEF OwnerInv
<1>1. RidInv'
  BY <1>0 DEF Receive, Goto, Decide, clientVars, connVars, RidInv, Numbered, TypeInv,
  TypeOK
<1>2. OwnerInv'
  BY <1>0, <1>a, <1>b, SMTT(60) DEF Receive, OwnerInv, TypeInv, TypeOK, Ctxs, Owns
<1>3. EntryInv'
  <2>1. \A r \in Rids : Live(r) => requests[r].call # c
    BY <1>0, <1>d, <1>e DEF Live
  <2>2. QED
    BY <1>0, <1>a, <2>1
    DEF Receive, EntryInv, Live, Locked, Registered, TypeInv, TypeOK, Entry, clientVars
<1>4. ServerInv'
  BY <1>0 DEF Receive, Goto, Decide, clientVars, connVars, ServerInv, Waits, TypeInv,
  TypeOK, Message
<1>5. ReaderInv'
  <2>1. ReaderHolds => rent.call # c
    BY <1>0, <1>d, <1>e DEF ReaderInv, ReaderHolds, Sync
  <2>2. QED
    BY <1>0, <1>a, <2>1
    DEF Receive, Decide, ReaderInv, ReaderHolds, Waits, TypeInv, TypeOK, Entry, clientVars
<1>6. ChannelInv'
  <2>1. errCh[ctx[c]].from = c /\ (errCh[ctx[c]].failed \/ ires[ctx[c]] = c)
    BY <1>0, <1>a, <1>e DEF ChannelInv, Owns
  <2>2. pc'[c] = "copy" => ires[ctx[c]] = c
    BY <1>0, <2>1 DEF Receive, Goto, TypeInv, TypeOK
  <2>3. \A x \in Ctxs : errCh'[x] = None \/ errCh'[x] = errCh[x]
    BY <1>0, <1>a DEF TypeInv, TypeOK
  <2>4. \A d \in Sync : pc'[d] = "copy" => ires'[ctx'[d]] = d
    BY <1>0, <1>a, <2>2 DEF Receive, ChannelInv, TypeInv, TypeOK, Sync
  <2>5. \A d \in Sync : pc'[d] \in {"check", "alloc", "add"} => errCh'[ctx'[d]] = None
    BY <1>0, <1>a, <2>3 DEF Receive, ChannelInv, TypeInv, TypeOK, Sync
  <2>6. \A d \in Sync : Owns(d)' /\ errCh'[ctx'[d]] # None =>
           /\ errCh'[ctx'[d]].from = d
           /\ errCh'[ctx'[d]].failed \/ ires'[ctx'[d]] = d
    BY <1>0, <1>b, <2>3 DEF Receive, ChannelInv, TypeInv, TypeOK, Sync, Owns
  <2>7. QED
    BY <1>0, <1>a, <2>3, <2>4, <2>5, <2>6
    DEF Receive, ChannelInv, Live, Locked, TypeInv, TypeOK, Entry, ReaderHolds, clientVars
<1>7. CallbackInv'
  BY <1>0 DEF Receive, Goto, Decide, clientVars, connVars, CallbackInv, Live, Locked,
  EntryInv, Registered, TypeInv, TypeOK, Entry, ReaderHolds
<1>8. ResultInv'
  <2>1. errCh[ctx[c]].from = c
    BY <1>0, <1>a, <1>e DEF ChannelInv, Owns
  <2>2. got' = [got EXCEPT ![c] = c] /\ resp' = resp
    BY <2>1 DEF Receive
  <2>3. \A d \in Calls : out'[d] = "ok" => out[d] = "ok"
    BY <1>0 DEF Receive, Decide, TypeInv, TypeOK
  <2>4. QED
    BY <1>0, <2>2, <2>3 DEF ResultInv, OwnResult, TypeInv, TypeOK, Sync
<1>9. QED
  BY <1>1, <1>2, <1>3, <1>4, <1>5, <1>6, <1>7, <1>8 DEF IndInv

(* CopyResponse(c) preserves the invariant.  The response in the context is *)
(* c's since c was notified.                                                *)
LEMMA CopyResponsePreserves ==
  ASSUME IndInv, TypeInv', UniqueRids, ~AnswersOneWay, NEW c \in Calls, CopyResponse(c) PROVE IndInv'
<1> USE ConstantsAssumption
<1>0. TypeInv /\ RidInv /\ OwnerInv /\ EntryInv /\ ServerInv /\ ReaderInv /\ ChannelInv /\ CallbackInv /\ ResultInv
  BY DEF IndInv
<1>1. RidInv'
  BY <1>0 DEF CopyResponse, Goto, Decide, clientVars, connVars, ctxVars, readVars, RidInv,
  Numbered, TypeInv, TypeOK
<1>2. OwnerInv'
  BY <1>0 DEF CopyResponse, Goto, Decide, clientVars, connVars, ctxVars, readVars,
  OwnerInv, Owns, Recycles, TypeInv, TypeOK, Ctxs, Sync
<1>3. EntryInv'
  BY <1>0 DEF CopyResponse, Goto, Decide, clientVars, connVars, ctxVars, readVars,
  EntryInv, Live, Registered, Locked, RidInv, Numbered, TypeInv, TypeOK, Entry
<1>4. ServerInv'
  BY <1>0 DEF CopyResponse, Goto, Decide, clientVars, connVars, ctxVars, readVars,
  ServerInv, Waits, TypeInv, TypeOK, Message
<1>5. ReaderInv'
  BY <1>0 DEF CopyResponse, Goto, Decide, clientVars, connVars, ctxVars, readVars,
  ReaderInv, ReaderHolds, Waits, TypeInv, TypeOK, Entry, Sync
<1>6. ChannelInv'
  BY <1>0 DEF CopyResponse, Goto, Decide, clientVars, connVars, ctxVars, readVars,
  ChannelInv, Live, Locked, Owns, Recycles, OwnerInv, EntryInv, Registered, ReaderInv,
  ReaderHolds, TypeInv, TypeOK, Entry, Sync, Ctxs
<1>7. CallbackInv'
  BY <1>0 DEF CopyResponse, Goto, Decide, clientVars, connVars, ctxVars, readVars,
  CallbackInv, Live, Locked, EntryInv, Registered, TypeInv, TypeOK, Entry, ReaderHolds
<1>8. ResultInv'
  <2>1. ires[ctx[c]] = c
    BY <1>0 DEF CopyResponse, ChannelInv, OwnerInv
  <2>2. QED
    BY <1>0, <2>1 DEF CopyResponse, Decide, ResultInv, OwnResult, TypeInv, TypeOK, Sync
<1>9. QED
  BY <1>1, <1>2, <1>3, <1>4, <1>5, <1>6, <1>7, <1>8 DEF IndInv

(* Timeout(c) preserves the invariant.  A call that times out keeps its     *)
(* context for good.                                                        *)
LEMMA TimeoutPreserves ==
  ASSUME IndInv, TypeInv', UniqueRids, ~AnswersOneWay, NEW c \in Calls, Timeout(c) PROVE IndInv'
<1> USE ConstantsAssumption
<1>0. TypeInv /\ RidInv /\ OwnerInv /\ EntryInv /\ ServerInv /\ ReaderInv /\ ChannelInv /\ CallbackInv /\ ResultInv
  BY DEF IndInv
<1>1. RidInv'
  BY <1>0 DEF Timeout, Goto, Decide, Expires, clientVars, connVars, ctxVars, readVars,
  RidInv, Numbered, TypeInv, TypeOK
<1>2. OwnerInv'
  BY <1>0 DEF Timeout, Goto, Decide, Expires, clientVars, connVars, ctxVars, readVars,
  OwnerInv, Owns, Recycles, TypeInv, TypeOK, Ctxs, Sync
<1>3. EntryInv'
  BY <1>0 DEF Timeout, Goto, Decide, Expires, clientVars, connVars, ctxVars, readVars,
  EntryInv, Live, Registered, Locked, RidInv, Numbered, TypeInv, TypeOK, Entry
<1>4. ServerInv'
  BY <1>0 DEF Timeout, Goto, Decide, Expires, clientVars, connVars, ctxVars, readVars,
  ServerInv, Waits, TypeInv, TypeOK, Message
<1>5. ReaderInv'
  BY <1>0 DEF Timeout, Goto, Decide, Expires, clientVars, connVars, ctxVars, readVars,
  ReaderInv, ReaderHolds, Waits, TypeInv, TypeOK, Entry, Sync
<1>6. ChannelInv'
  BY <1>0 DEF Timeout, Goto, Decide, Expires, clientVars, connVars, ctxVars, readVars,
  ChannelInv, Live, Locked, Owns, Recycles, OwnerInv, EntryInv, Registered, ReaderInv,
  ReaderHolds, TypeInv, TypeOK, Entry, Sync, Ctxs
<1>7. CallbackInv'
  BY <1>0 DEF Timeout, Goto, Decide, Expires, clientVars, connVars, ctxVars, readVars,
  CallbackInv, Live, Locked, EntryInv, Registered, TypeInv, TypeOK, Entry, ReaderHolds
<1>8. ResultInv'
  BY <1>0 DEF Timeout, Goto, Decide, Expires, clientVars, connVars, ctxVars, readVars,
  ResultInv, OwnResult, TypeInv, TypeOK, Sync
<1>9. QED
  BY <1>1, <1>2, <1>3, <1>4, <1>5, <1>6, <1>7, <1>8 DEF IndInv

(* Finish(c) preserves the invariant.  The context that is released belongs *)
(* to no entry and is not in the reader's hands.                            *)
LEMMA FinishPreserves ==
  ASSUME IndInv, TypeInv', UniqueRids, ~AnswersOneWay, NEW c \in Calls, Finish(c) PROVE IndInv'
<1> USE ConstantsAssumption
<1>0. TypeInv /\ RidInv /\ OwnerInv /\ EntryInv /\ ServerInv /\ ReaderInv /\ ChannelInv /\ CallbackInv /\ ResultInv
  BY DEF IndInv
<1>1. RidInv'
  BY <1>0 DEF Finish, Goto, Recycles, clientVars, connVars, readVars, RidInv, Numbered,
  TypeInv, TypeOK
<1>2. OwnerInv'
  BY <1>0 DEF Finish, Goto, Recycles, clientVars, connVars, readVars, OwnerInv, Owns,
  TypeInv, TypeOK, Ctxs, Sync
<1>3. EntryInv'
  BY <1>0 DEF Finish, Goto, Recycles, clientVars, connVars, readVars, EntryInv, Live,
  Registered, Locked, RidInv, Numbered, TypeInv, TypeOK, Entry
<1>4. ServerInv'
  BY <1>0 DEF Finish, Goto, Recycles, clientVars, connVars, readVars, ServerInv, Waits,
  TypeInv, TypeOK, Message
<1>5. ReaderInv'
  BY <1>0 DEF Finish, Goto, Recycles, clientVars, connVars, readVars, ReaderInv,
  ReaderHolds, Waits, TypeInv, TypeOK, Entry, Sync
<1>6. ChannelInv'
  BY <1>0 DEF Finish, Goto, Recycles, clientVars, connVars, readVars, ChannelInv, Live,
  Locked, Owns, OwnerInv, EntryInv, Registered, ReaderInv, ReaderHolds, TypeInv, TypeOK,
  Entry, Sync, Ctxs
<1>7. CallbackInv'
  BY <1>0 DEF Finish, Goto, Recycles, clientVars, connVars, readVars, CallbackInv, Live,
  Locked, EntryInv, Registered, TypeInv, TypeOK, Entry, ReaderHolds
<1>8. ResultInv'
  BY <1>0 DEF Finish, Goto, Recycles, clientVars, connVars, readVars, ResultInv,
  OwnResult, TypeInv, TypeOK, Sync
<1>9. QED
  BY <1>1, <1>2, <1>3, <1>4, <1>5, <1>6, <1>7, <1>8 DEF IndInv

(* ReadResponse(m) preserves the invariant.  Unique ids: the entry found is *)
(* the one of the call that is answered.                                    *)
LEMMA ReadResponsePreserves ==
  ASSUME IndInv, TypeInv', UniqueRids, ~AnswersOneWay, NEW m \in server, ReadResponse(m) PROVE IndInv'
<1> USE ConstantsAssumption
<1>0. TypeInv /\ RidInv /\ OwnerInv /\ EntryInv /\ ServerInv /\ ReaderInv /\ ChannelInv /\ CallbackInv /\ ResultInv
  BY DEF IndInv
<1>a. rpc = "read" /\ m.call \in Calls /\ m.rid \in Rids /\ rtodo = {} /\ ~Locked
  BY <1>0 DEF ReadResponse, TypeInv, TypeOK, Message, Locked
<1>b. ASSUME requests[m.rid] # None
      PROVE  /\ requests[m.rid] \in Entry /\ requests[m.rid].call = m.call
             /\ requests[m.rid].ctx = ctx[m.call] /\ Registered(m.call) /\ Live(m.rid)
             /\ Waits(m.call) /\ rid[m.call] = m.rid
  <2>1. requests[m.rid] \in Entry /\ Live(m.rid)
    BY <1>0, <1>a, <1>b DEF Live, TypeInv, TypeOK
  <2>2. requests[m.rid].call = m.call
    BY <1>0, <1>a, <1>b, <2>1 DEF EntryInv, ServerInv, RidInv, Numbered, Entry, ConstantsAssumption
  <2>3. QED
    BY <1>0, <1>a, <1>b, <2>1, <2>2 DEF EntryInv, ServerInv, Registered, Waits
<1>d. \A r \in Rids : Live(r)' => Live(r) /\ requests'[r] = requests[r] /\ (requests[m.rid] # None => r # m.rid)
  BY <1>0, <1>a DEF ReadResponse, Taken, Live, Locked, TypeInv, TypeOK
<1>1. RidInv'
  BY <1>0 DEF ReadResponse, Taken, connVars, callVars, ctxVars, RidInv, Numbered, TypeInv,
  TypeOK
<1>2. OwnerInv'
  BY <1>0 DEF ReadResponse, Taken, connVars, callVars, ctxVars, OwnerInv, Owns, Recycles,
  TypeInv, TypeOK, Ctxs, Sync
<1>3. EntryInv'
  BY <1>0 DEF ReadResponse, Taken, connVars, callVars, ctxVars, EntryInv, Live,
  Registered, Locked, RidInv, Numbered, TypeInv, TypeOK, Entry
<1>4. ServerInv'
  BY <1>0 DEF ReadResponse, Taken, connVars, callVars, ctxVars, ServerInv, Waits, TypeInv,
  TypeOK, Message
<1>5. ReaderInv'
  <2>1. CASE requests[m.rid] = None
    BY <1>0, <1>a, <2>1 DEF ReadResponse, ReaderInv, ReaderHolds
  <2>2. CASE requests[m.rid] # None
    <3>1. requests'[rid[m.call]] = None
      BY <1>0, <1>a, <1>b, <2>2 DEF ReadResponse, Taken, TypeInv, TypeOK
    <3>2. rent' = requests[m.rid] /\ rmsg' = m.call
          /\ rpc' = (IF m.call \in Callback THEN "callback" ELSE "assign")
      BY <1>b, <2>2 DEF ReadResponse
    <3>3. Waits(m.call)' /\ rid'[m.call] # None /\ ctx' = ctx /\ rid' = rid
      BY <1>a, <1>b, <2>2 DEF ReadResponse, Waits, callVars, ConstantsAssumption
    <3>4. QED
      BY <1>a, <1>b, <2>2, <3>1, <3>2, <3>3 DEF ReaderInv, ReaderHolds, Sync, ConstantsAssumption
  <2>3. QED
    BY <2>1, <2>2
<1>6. ChannelInv'
  <2>1. rpc' \in {"assign", "send"} => errCh[rent'.ctx] = None /\ rpc' = "assign"
    BY <1>0, <1>a, <1>b DEF ReadResponse, ChannelInv, Sync, Entry
  <2>2. \A d \in Calls : Owns(d)' <=> Owns(d)
    BY DEF ReadResponse, Owns, Recycles, callVars
  <2>3. QED
    BY <1>0, <1>d, <2>1, <2>2 DEF ReadResponse, ChannelInv, callVars, ctxVars, Sync
<1>7. CallbackInv'
  BY <1>0, <1>a, <1>b, <1>d DEF ReadResponse, CallbackInv, callVars
<1>8. ResultInv'
  BY <1>0 DEF ReadResponse, Taken, connVars, callVars, ctxVars, ResultInv, OwnResult,
  TypeInv, TypeOK, Sync
<1>9. QED
  BY <1>1, <1>2, <1>3, <1>4, <1>5, <1>6, <1>7, <1>8 DEF IndInv

(* RunCallback preserves the invariant.  The entry was taken out of the map *)
(* before its callback runs.                                                *)
LEMMA RunCallbackPreserves ==
  ASSUME IndInv, TypeInv', UniqueRids, ~AnswersOneWay, RunCallback PROVE IndInv'
<1> USE ConstantsAssumption
<1>0. TypeInv /\ RidInv /\ OwnerInv /\ EntryInv /\ ServerInv /\ ReaderInv /\ ChannelInv /\ CallbackInv /\ ResultInv
  BY DEF IndInv
<1>1. RidInv'
  BY <1>0 DEF RunCallback, RunUser, clientVars, connVars, ctxVars, RidInv, Numbered,
  TypeInv, TypeOK
<1>2. OwnerInv'
  BY <1>0 DEF RunCallback, RunUser, clientVars, connVars, ctxVars, OwnerInv, Owns,
  Recycles, TypeInv, TypeOK, Ctxs, Sync
<1>3. EntryInv'
  BY <1>0 DEF RunCallback, RunUser, clientVars, connVars, ctxVars, EntryInv, Live,
  Registered, Locked, RidInv, Numbered, TypeInv, TypeOK, Entry
<1>4. ServerInv'
  BY <1>0 DEF RunCallback, RunUser, clientVars, connVars, ctxVars, ServerInv, Waits,
  TypeInv, TypeOK, Message
<1>5. ReaderInv'
  BY <1>0 DEF RunCallback, RunUser, clientVars, connVars, ctxVars, ReaderInv, ReaderHolds,
  Waits, TypeInv, TypeOK, Entry, Sync
<1>6. ChannelInv'
  BY <1>0 DEF RunCallback, RunUser, clientVars, connVars, ctxVars, ChannelInv, Live,
  Locked, Owns, Recycles, OwnerInv, EntryInv, Registered, ReaderInv, ReaderHolds, TypeInv,
  TypeOK, Entry, Sync, Ctxs
<1>7. CallbackInv'
  <2>1. rent.call \in Calls /\ cbs[rent.call] = 0 /\ pc[rent.call] \in {"return", "done"}
    BY <1>0 DEF RunCallback, CallbackInv, ReaderInv, ReaderHolds, Waits, TypeInv, TypeOK, Entry
  <2>2. \A r \in Rids : Live(r)' => Live(r) /\ requests[r].call # rent.call
    BY <1>0 DEF RunCallback, RunUser, Live, Locked, EntryInv, ReaderInv, ReaderHolds, clientVars
  <2>3. cbs' = [cbs EXCEPT ![rent.call] = 1] /\ rpc' # "callback"
    BY <2>1 DEF RunCallback, RunUser
  <2>4. QED
    BY <1>0, <2>1, <2>2, <2>3
    DEF RunCallback, CallbackInv, Live, TypeInv, TypeOK, Entry, clientVars
<1>8. ResultInv'
  BY <1>0 DEF RunCallback, RunUser, clientVars, connVars, ctxVars, ResultInv, OwnResult,
  TypeInv, TypeOK, Sync
<1>9. QED
  BY <1>1, <1>2, <1>3, <1>4, <1>5, <1>6, <1>7, <1>8 DEF IndInv

(* AssignResponse preserves the invariant.  The context still belongs to    *)
(* the call that is answered.                                               *)
LEMMA AssignResponsePreserves ==
  ASSUME IndInv, TypeInv', UniqueRids, ~AnswersOneWay, AssignResponse PROVE IndInv'
<1> USE ConstantsAssumption
<1>0. TypeInv /\ RidInv /\ OwnerInv /\ EntryInv /\ ServerInv /\ ReaderInv /\ ChannelInv /\ CallbackInv /\ ResultInv
  BY DEF IndInv
<1>a. /\ rent \in Entry /\ rent.call \in Sync /\ rent.ctx \in Ctxs /\ rent.ctx = ctx[rent.call]
      /\ rmsg = rent.call /\ Owns(rent.call) /\ pc[rent.call] \notin {"check", "alloc", "add", "copy"}
  BY <1>0 DEF AssignResponse, ReaderInv, ReaderHolds, Waits, Owns, Recycles, TypeInv, TypeOK, Entry, Sync
<1>b. \A d \in Calls : Owns(d) /\ ctx[d] = rent.ctx => d = rent.call
  BY <1>0, <1>a DEF OwnerInv, Sync
<1>d. /\ \A r \in Rids : Live(r)' => Live(r)
      /\ \A r \in Rids : Live(r) => requests[r].ctx # rent.ctx
  <2>1. \A r \in Rids : Live(r)' => Live(r)
    BY <1>0 DEF AssignResponse, Live, Locked, clientVars
  <2>2. ASSUME NEW r \in Rids, Live(r), requests[r].ctx = rent.ctx PROVE FALSE
    <3>1. requests[r].call \in Calls /\ Owns(requests[r].call) /\ ctx[requests[r].call] = rent.ctx
      BY <1>0, <2>2 DEF EntryInv, Registered, Live, Owns, Recycles, TypeInv, TypeOK, Entry, Sync
    <3>2. requests[r].call = rent.call /\ rid[rent.call] = r
      BY <1>0, <1>b, <2>2, <3>1 DEF EntryInv, Live
    <3>3. QED
      BY <1>0, <2>2, <3>2 DEF AssignResponse, ReaderInv, ReaderHolds, Live
  <2>3. QED
    BY <2>1, <2>2
<1>e. \A d \in Calls : Owns(d)' <=> Owns(d)
  BY DEF AssignResponse, Owns, Recycles, callVars
<1>1. RidInv'
  BY <1>0 DEF AssignResponse, Assigned, clientVars, connVars, callVars, RidInv, Numbered,
  TypeInv, TypeOK
<1>2. OwnerInv'
  BY <1>0 DEF AssignResponse, Assigned, clientVars, connVars, callVars, OwnerInv, Owns,
  Recycles, TypeInv, TypeOK, Ctxs, Sync
<1>3. EntryInv'
  BY <1>0 DEF AssignResponse, Assigned, clientVars, connVars, callVars, EntryInv, Live,
  Registered, Locked, RidInv, Numbered, TypeInv, TypeOK, Entry
<1>4. ServerInv'
  BY <1>0 DEF AssignResponse, Assigned, clientVars, connVars, callVars, ServerInv, Waits,
  TypeInv, TypeOK, Message
<1>5. ReaderInv'
  BY <1>0 DEF AssignResponse, Assigned, clientVars, connVars, callVars, ReaderInv,
  ReaderHolds, Waits, TypeInv, TypeOK, Entry, Sync
<1>6. ChannelInv'
  <2>1. \A x \in Ctxs \ {rent.ctx} : ires'[x] = ires[x]
    BY <1>0, <1>a DEF AssignResponse, Assigned, TypeInv, TypeOK
  <2>2. ires'[rent.ctx] = rmsg /\ errCh[rent.ctx] = None
    BY <1>0, <1>a DEF AssignResponse, Assigned, ChannelInv, TypeInv, TypeOK
  <2>3. \A d \in Sync : pc[d] = "copy" => ctx[d] \in Ctxs \ {rent.ctx}
    BY <1>0, <1>a, <1>b DEF Owns, TypeInv, Sync
  <2>4. \A d \in Sync : Owns(d) => ctx[d] \in Ctxs
    BY <1>0 DEF Owns, TypeInv, Sync
  <2>5. \A d \in Sync : Owns(d)' /\ errCh'[ctx'[d]] # None =>
           /\ errCh'[ctx'[d]].from = d
           /\ errCh'[ctx'[d]].failed \/ ires'[ctx'[d]] = d
    BY <1>0, <1>e, <2>1, <2>2, <2>4 DEF AssignResponse, ChannelInv, callVars, Sync
  <2>6. \A q \in Rids : Live(q)' /\ requests'[q].call \in Sync => errCh'[requests'[q].ctx] = None
    BY <1>0, <1>d DEF AssignResponse, ChannelInv, clientVars
  <2>7. QED
    BY <1>0, <2>1, <2>2, <2>3, <2>5, <2>6 DEF AssignResponse, ChannelInv, callVars
<1>7. CallbackInv'
  BY <1>0 DEF AssignResponse, Assigned, clientVars, connVars, callVars, CallbackInv, Live,
  Locked, EntryInv, Registered, TypeInv, TypeOK, Entry, ReaderHolds
<1>8. ResultInv'
  BY <1>0 DEF AssignResponse, Assigned, clientVars, connVars, callVars, ResultInv,
  OwnResult, TypeInv, TypeOK, Sync
<1>9. QED
  BY <1>1, <1>2, <1>3, <1>4, <1>5, <1>6, <1>7, <1>8 DEF IndInv

(* SendResult preserves the invariant.  The owner of the context is the     *)
(* call that is answered, and its channel is empty.                         *)
LEMMA SendResultPreserves ==
  ASSUME IndInv, TypeInv', UniqueRids, ~AnswersOneWay, SendResult PROVE IndInv'
<1> USE ConstantsAssumption
<1>0. TypeInv /\ RidInv /\ OwnerInv /\ EntryInv /\ ServerInv /\ ReaderInv /\ ChannelInv /\ CallbackInv /\ ResultInv
  BY DEF IndInv
<1>a. /\ rent \in Entry /\ rent.call \in Sync /\ rent.ctx \in Ctxs /\ rent.ctx = ctx[rent.call]
      /\ rmsg = rent.call /\ Owns(rent.call) /\ pc[rent.call] \notin {"check", "alloc", "add", "copy"}
  BY <1>0 DEF SendResult, ReaderInv, ReaderHolds, Waits, Owns, Recycles, TypeInv, TypeOK, Entry, Sync
<1>b. \A d \in Calls : Owns(d) /\ ctx[d] = rent.ctx => d = rent.call
  BY <1>0, <1>a DEF OwnerInv, Sync
<1>d. /\ \A r \in Rids : Live(r)' => Live(r)
      /\ \A r \in Rids : Live(r) => requests[r].ctx # rent.ctx
  <2>1. \A r \in Rids : Live(r)' => Live(r)
    BY <1>0 DEF SendResult, Live, Locked, clientVars
  <2>2. ASSUME NEW r \in Rids, Live(r), requests[r].ctx = rent.ctx PROVE FALSE
    <3>1. requests[r].call \in Calls /\ Owns(requests[r].call) /\ ctx[requests[r].call] = rent.ctx
      BY <1>0, <2>2 DEF EntryInv, Registered, Live, Owns, Recycles, TypeInv, TypeOK, Entry, Sync
    <3>2. requests[r].call = rent.call /\ rid[rent.call] = r
      BY <1>0, <1>b, <2>2, <3>1 DEF EntryInv, Live
    <3>3. QED
      BY <1>0, <2>2, <3>2 DEF SendResult, ReaderInv, ReaderHolds, Live
  <2>3. QED
    BY <2>1, <2>2
<1>e. \A d \in Calls : Owns(d)' <=> Owns(d)
  BY DEF SendResult, Owns, Recycles, callVars
<1>1. RidInv'
  BY <1>0 DEF SendResult, clientVars, connVars, callVars, RidInv, Numbered, TypeInv,
  TypeOK
<1>2. OwnerInv'
  BY <1>0 DEF SendResult, clientVars, connVars, callVars, OwnerInv, Owns, Recycles,
  TypeInv, TypeOK, Ctxs, Sync
<1>3. EntryInv'
  BY <1>0 DEF SendResult, clientVars, connVars, callVars, EntryInv, Live, Registered,
  Locked, RidInv, Numbered, TypeInv, TypeOK, Entry
<1>4. ServerInv'
  BY <1>0 DEF SendResult, clientVars, connVars, callVars, ServerInv, Waits, TypeInv,
  TypeOK, Message
<1>5. ReaderInv'
  BY <1>0 DEF SendResult, clientVars, connVars, callVars, ReaderInv, ReaderHolds, Waits,
  TypeInv, TypeOK, Entry, Sync
<1>6. ChannelInv'
  <2>1. \A x \in Ctxs \ {rent.ctx} : errCh'[x] = errCh[x]
    BY <1>0, <1>a DEF SendResult, TypeInv, TypeOK
  <2>2. /\ errCh'[rent.ctx] = [from |-> rent.call, failed |-> FALSE]
        /\ ires[rent.ctx] = rent.call
    BY <1>0, <1>a DEF SendResult, ChannelInv, TypeInv, TypeOK
  <2>3. \A d \in Sync : Owns(d) => ctx[d] \in Ctxs
    BY <1>0 DEF Owns, TypeInv, Sync
  <2>4. \A d \in Sync : pc[d] \in {"check", "alloc", "add"} => ctx[d] \in Ctxs \ {rent.ctx}
    BY <1>0, <1>a, <1>b DEF Owns, TypeInv, Sync
  <2>5. \A d \in Sync : Owns(d)' /\ errCh'[ctx'[d]] # None =>
           /\ errCh'[ctx'[d]].from = d
           /\ errCh'[ctx'[d]].failed \/ ires'[ctx'[d]] = d
    <3> SUFFICES ASSUME NEW d \in Sync, Owns(d), errCh'[ctx[d]] # None
                 PROVE  /\ errCh'[ctx[d]].from = d
                        /\ errCh'[ctx[d]].failed \/ ires[ctx[d]] = d
      BY <1>e DEF SendResult, callVars, Sync
    <3>1. CASE ctx[d] = rent.ctx
      BY <1>b, <2>2, <3>1 DEF Sync
    <3>2. CASE ctx[d] # rent.ctx
      BY <1>0, <2>1, <2>3, <3>2 DEF ChannelInv
    <3>3. QED
      BY <3>1, <3>2
  <2>6. \A r \in Rids : Live(r)' /\ requests'[r].call \in Sync => errCh'[requests'[r].ctx] = None
    BY <1>0, <1>d, <2>1 DEF SendResult, ChannelInv, Live, TypeInv, TypeOK, Entry, clientVars
  <2>7. QED
    BY <1>0, <2>1, <2>4, <2>5, <2>6 DEF SendResult, ChannelInv, callVars
<1>7. CallbackInv'
  BY <1>0 DEF SendResult, clientVars, connVars, callVars, CallbackInv, Live, Locked,
  EntryInv, Registered, TypeInv, TypeOK, Entry, ReaderHolds
<1>8. ResultInv'
  BY <1>0 DEF SendResult, clientVars, connVars, callVars, ResultInv, OwnResult, TypeInv,
  TypeOK, Sync
<1>9. QED
  BY <1>1, <1>2, <1>3, <1>4, <1>5, <1>6, <1>7, <1>8 DEF IndInv

(* SendBlocks preserves the invariant.  The step does not happen: the       *)
(* channel is empty.                                                        *)
LEMMA SendBlocksPreserves ==
  ASSUME IndInv, TypeInv', UniqueRids, ~AnswersOneWay, SendBlocks PROVE IndInv'
<1> USE ConstantsAssumption
<1>0. TypeInv /\ RidInv /\ OwnerInv /\ EntryInv /\ ServerInv /\ ReaderInv /\ ChannelInv /\ CallbackInv /\ ResultInv
  BY DEF IndInv
<1>1. RidInv'
  BY <1>0 DEF SendBlocks, clientVars, connVars, callVars, ctxVars, RidInv, Numbered,
  TypeInv, TypeOK
<1>2. OwnerInv'
  BY <1>0 DEF SendBlocks, clientVars, connVars, callVars, ctxVars, OwnerInv, Owns,
  Recycles, TypeInv, TypeOK, Ctxs, Sync
<1>3. EntryInv'
  BY <1>0 DEF SendBlocks, clientVars, connVars, callVars, ctxVars, EntryInv, Live,
  Registered, Locked, RidInv, Numbered, TypeInv, TypeOK, Entry
<1>4. ServerInv'
  BY <1>0 DEF SendBlocks, clientVars, connVars, callVars, ctxVars, ServerInv, Waits,
  TypeInv, TypeOK, Message
<1>5. ReaderInv'
  BY <1>0 DEF SendBlocks, ChannelInv
<1>6. ChannelInv'
  BY <1>0 DEF SendBlocks, clientVars, connVars, callVars, ctxVars, ChannelInv, Live,
  Locked, Owns, Recycles, OwnerInv, EntryInv, Registered, ReaderInv, ReaderHolds, TypeInv,
  TypeOK, Entry, Sync, Ctxs
<1>7. CallbackInv'
  BY <1>0 DEF SendBlocks, clientVars, connVars, callVars, ctxVars, CallbackInv, Live,
  Locked, EntryInv, Registered, TypeInv, TypeOK, Entry, ReaderHolds
<1>8. ResultInv'
  BY <1>0 DEF SendBlocks, clientVars, connVars, callVars, ctxVars, ResultInv, OwnResult,
  TypeInv, TypeOK, Sync
<1>9. QED
  BY <1>1, <1>2, <1>3, <1>4, <1>5, <1>6, <1>7, <1>8 DEF IndInv

(* ReadFails preserves the invariant.  The cleanup starts with every entry  *)
(* still to be notified.                                                    *)
LEMMA ReadFailsPreserves ==
  ASSUME IndInv, TypeInv', UniqueRids, ~AnswersOneWay, ReadFails PROVE IndInv'
<1> USE ConstantsAssumption
<1>0. TypeInv /\ RidInv /\ OwnerInv /\ EntryInv /\ ServerInv /\ ReaderInv /\ ChannelInv /\ CallbackInv /\ ResultInv
  BY DEF IndInv
<1>1. RidInv'
  BY <1>0 DEF ReadFails, clientVars, connVars, callVars, ctxVars, RidInv, Numbered,
  TypeInv, TypeOK
<1>2. OwnerInv'
  BY <1>0 DEF ReadFails, clientVars, connVars, callVars, ctxVars, OwnerInv, Owns,
  Recycles, TypeInv, TypeOK, Ctxs, Sync
<1>3. EntryInv'
  BY <1>0 DEF ReadFails, clientVars, connVars, callVars, ctxVars, EntryInv, Live,
  Registered, Locked, RidInv, Numbered, TypeInv, TypeOK, Entry
<1>4. ServerInv'
  BY <1>0 DEF ReadFails, clientVars, connVars, callVars, ctxVars, ServerInv, Waits,
  TypeInv, TypeOK, Message
<1>5. ReaderInv'
  BY <1>0 DEF ReadFails, clientVars, connVars, callVars, ctxVars, ReaderInv, ReaderHolds,
  Waits, TypeInv, TypeOK, Entry, Sync
<1>6. ChannelInv'
  BY <1>0 DEF ReadFails, clientVars, connVars, callVars, ctxVars, ChannelInv, Live,
  Locked, Owns, Recycles, OwnerInv, EntryInv, Registered, ReaderInv, ReaderHolds, TypeInv,
  TypeOK, Entry, Sync, Ctxs
<1>7. CallbackInv'
  BY <1>0 DEF ReadFails, clientVars, connVars, callVars, ctxVars, CallbackInv, Live,
  Locked, EntryInv, Registered, TypeInv, TypeOK, Entry, ReaderHolds
<1>8. ResultInv'
  BY <1>0 DEF ReadFails, clientVars, connVars, callVars, ctxVars, ResultInv, OwnResult,
  TypeInv, TypeOK, Sync
<1>9. QED
  BY <1>1, <1>2, <1>3, <1>4, <1>5, <1>6, <1>7, <1>8 DEF IndInv

(* CleanupOne(r) preserves the invariant.  The context still belongs to the *)
(* call that registered it.                                                 *)
LEMMA CleanupOnePreserves ==
  ASSUME IndInv, TypeInv', UniqueRids, ~AnswersOneWay, NEW r \in Rids, CleanupOne(r) PROVE IndInv'
<1> USE ConstantsAssumption
<1>0. TypeInv /\ RidInv /\ OwnerInv /\ EntryInv /\ ServerInv /\ ReaderInv /\ ChannelInv /\ CallbackInv /\ ResultInv
  BY DEF IndInv
<1>a. /\ rpc = "cleanup" /\ Live(r) /\ requests[r] \in Entry
      /\ requests[r].ctx \in Ctxs /\ requests[r].call \in Calls
      /\ requests[r].ctx = ctx[requests[r].call] /\ Owns(requests[r].call)
      /\ pc[requests[r].call] \notin {"check", "alloc", "add"}
      /\ cbs[requests[r].call] = 0
  BY <1>0 DEF CleanupOne, Live, EntryInv, Registered, CallbackInv, Owns, Recycles, TypeInv, TypeOK,
     Entry, Sync
<1>b. \A d \in Calls : Owns(d) /\ ctx[d] = requests[r].ctx => d = requests[r].call
  BY <1>0, <1>a DEF OwnerInv
<1>d. \A q \in Rids : Live(q)' => Live(q) /\ requests'[q] = requests[q] /\ q # r
  BY <1>0, <1>a DEF CleanupOne, RunUser, Live, Locked, clientVars
<1>e. \A q \in Rids : Live(q) /\ q # r => /\ requests[q].call # requests[r].call
                                        /\ requests[q].ctx # requests[r].ctx
  <2>1. ASSUME NEW q \in Rids, Live(q), q # r PROVE requests[q].call # requests[r].call
    BY <1>0, <1>a, <2>1 DEF EntryInv, Live
  <2>2. ASSUME NEW q \in Rids, Live(q), q # r PROVE requests[q].ctx # requests[r].ctx
    <3>1. requests[q].call \in Calls /\ Owns(requests[q].call) /\ ctx[requests[q].call] = requests[q].ctx
      BY <1>0, <2>2 DEF EntryInv, Registered, Live, Owns, Recycles, TypeInv, TypeOK, Entry, Sync
    <3>2. QED
      BY <1>b, <2>1, <2>2, <3>1
  <2>3. QED
    BY <2>1, <2>2
<1>f. rpc' \notin {"callback", "assign", "send", "blocked", "orphan"}
  BY <1>a DEF CleanupOne, RunUser
<1>1. RidInv'
  BY <1>0 DEF CleanupOne, RunUser, Notified, clientVars, connVars, RidInv, Numbered,
  TypeInv, TypeOK
<1>2. OwnerInv'
  BY <1>0 DEF CleanupOne, RunUser, Notified, clientVars, connVars, OwnerInv, Owns,
  Recycles, TypeInv, TypeOK, Ctxs, Sync
<1>3. EntryInv'
  BY <1>0 DEF CleanupOne, RunUser, Notified, clientVars, connVars, EntryInv, Live,
  Registered, Locked, RidInv, Numbered, TypeInv, TypeOK, Entry
<1>4. ServerInv'
  BY <1>0 DEF CleanupOne, RunUser, Notified, clientVars, connVars, ServerInv, Waits,
  TypeInv, TypeOK, Message
<1>5. ReaderInv'
  BY <1>0 DEF CleanupOne, RunUser, Notified, clientVars, connVars, ReaderInv, ReaderHolds,
  Waits, TypeInv, TypeOK, Entry, Sync
<1>6. ChannelInv'
  <2>1. /\ \A x \in Ctxs \ {requests[r].ctx} : errCh'[x] = errCh[x]
        /\ \/ errCh' = errCh
           \/ /\ requests[r].call \in Sync
              /\ errCh'[requests[r].ctx] = [from |-> requests[r].call, failed |-> TRUE]
    BY <1>0, <1>a DEF CleanupOne, Notified, TypeInv, TypeOK, Sync
  <2>2. \A d \in Sync : Owns(d) => ctx[d] \in Ctxs
    BY <1>0 DEF Owns, TypeInv, Sync
  <2>3. \A d \in Calls : Owns(d)' <=> Owns(d)
    BY DEF CleanupOne, Owns, Recycles
  <2>4. \A d \in Sync : pc[d] \in {"check", "alloc", "add"} => ctx[d] \in Ctxs \ {requests[r].ctx}
    BY <1>0, <1>a, <1>b DEF Owns, TypeInv, Sync
  <2>5. \A d \in Sync : Owns(d)' /\ errCh'[ctx'[d]] # None =>
           /\ errCh'[ctx'[d]].from = d
           /\ errCh'[ctx'[d]].failed \/ ires'[ctx'[d]] = d
    <3> SUFFICES ASSUME NEW d \in Sync, Owns(d), errCh'[ctx[d]] # None
                 PROVE  /\ errCh'[ctx[d]].from = d
                        /\ errCh'[ctx[d]].failed \/ ires[ctx[d]] = d
      BY <2>3 DEF CleanupOne, Sync
    <3>1. CASE ctx[d] = requests[r].ctx /\ errCh' # errCh
      BY <1>b, <2>1, <3>1 DEF Sync
    <3>2. CASE ctx[d] # requests[r].ctx \/ errCh' = errCh
      BY <1>0, <2>1, <2>2, <3>2 DEF ChannelInv
    <3>3. QED
      BY <3>1, <3>2
  <2>6. \A q \in Rids : Live(q)' /\ requests'[q].call \in Sync => errCh'[requests'[q].ctx] = None
    BY <1>0, <1>d, <1>e, <2>1 DEF ChannelInv, Live, TypeInv, TypeOK, Entry
  <2>7. QED
    BY <1>0, <1>f, <2>1, <2>4, <2>5, <2>6 DEF CleanupOne, ChannelInv
<1>7. CallbackInv'
  BY <1>0 DEF CleanupOne, RunUser, Notified, clientVars, connVars, CallbackInv, Live,
  Locked, EntryInv, Registered, TypeInv, TypeOK, Entry, ReaderHolds
<1>8. ResultInv'
  BY <1>0 DEF CleanupOne, RunUser, Notified, clientVars, connVars, ResultInv, OwnResult,
  TypeInv, TypeOK, Sync
<1>9. QED
  BY <1>1, <1>2, <1>3, <1>4, <1>5, <1>6, <1>7, <1>8 DEF IndInv

(* CleanupEnd preserves the invariant.  The map is empty.                   *)
LEMMA CleanupEndPreserves ==
  ASSUME IndInv, TypeInv', UniqueRids, ~AnswersOneWay, CleanupEnd PROVE IndInv'
<1> USE ConstantsAssumption
<1>0. TypeInv /\ RidInv /\ OwnerInv /\ EntryInv /\ ServerInv /\ ReaderInv /\ ChannelInv /\ CallbackInv /\ ResultInv
  BY DEF IndInv
<1>1. RidInv'
  BY <1>0 DEF CleanupEnd, PendingCleared, connVars, callVars, ctxVars, RidInv, Numbered,
  TypeInv, TypeOK
<1>2. OwnerInv'
  BY <1>0 DEF CleanupEnd, PendingCleared, connVars, callVars, ctxVars, OwnerInv, Owns,
  Recycles, TypeInv, TypeOK, Ctxs, Sync
<1>3. EntryInv'
  BY <1>0 DEF CleanupEnd, PendingCleared, connVars, callVars, ctxVars, EntryInv, Live,
  Registered, Locked, RidInv, Numbered, TypeInv, TypeOK, Entry
<1>4. ServerInv'
  BY <1>0 DEF CleanupEnd, PendingCleared, connVars, callVars, ctxVars, ServerInv, Waits,
  TypeInv, TypeOK, Message
<1>5. ReaderInv'
  BY <1>0 DEF CleanupEnd, PendingCleared, connVars, callVars, ctxVars, ReaderInv,
  ReaderHolds, Waits, TypeInv, TypeOK, Entry, Sync
<1>6. ChannelInv'
  BY <1>0 DEF CleanupEnd, PendingCleared, connVars, callVars, ctxVars, ChannelInv, Live,
  Locked, Owns, Recycles, OwnerInv, EntryInv, Registered, ReaderInv, ReaderHolds, TypeInv,
  TypeOK, Entry, Sync, Ctxs
<1>7. CallbackInv'
  BY <1>0 DEF CleanupEnd, PendingCleared, connVars, callVars, ctxVars, CallbackInv, Live,
  Locked, EntryInv, Registered, TypeInv, TypeOK, Entry, ReaderHolds
<1>8. ResultInv'
  BY <1>0 DEF CleanupEnd, PendingCleared, connVars, callVars, ctxVars, ResultInv,
  OwnResult, TypeInv, TypeOK, Sync
<1>9. QED
  BY <1>1, <1>2, <1>3, <1>4, <1>5, <1>6, <1>7, <1>8 DEF IndInv

-----------------------------------------------------------------------------
(* The initial state: no id is in use, nothing is registered or pooled.      *)
LEMMA IndInvInit == ASSUME UniqueRids PROVE Init => IndInv
<1> SUFFICES ASSUME Init PROVE IndInv
  OBVIOUS
<1>1. TypeInv
  BY TypeInvInit
<1>2. RidInv
  <2>1. Numbered = {}
    BY DEF Init, Numbered
  <2>2. QED
    BY <2>1, FS_EmptySet DEF Init, RidInv
<1>3. OwnerInv /\ EntryInv /\ ServerInv /\ ReaderInv
  BY ConstantsAssumption DEF Init, OwnerInv, Owns, EntryInv, ServerInv, ReaderInv, ReaderHolds
<1>4. ChannelInv /\ CallbackInv /\ ResultInv
  BY ConstantsAssumption DEF Init, ChannelInv, Owns, Live, CallbackInv, ResultInv, OwnResult, Sync
<1>5. QED
  BY <1>1, <1>2, <1>3, <1>4 DEF IndInv

(* Every step preserves the invariant.                                      *)
LEMMA IndInvNext ==
  ASSUME UniqueRids, ~AnswersOneWay PROVE IndInv /\ [Next]_vars => IndInv'
<1> SUFFICES ASSUME IndInv, [Next]_vars PROVE IndInv'
  OBVIOUS
<1>1. TypeInv /\ TypeInv'
  BY TypeInvNext DEF IndInv
<1>2. CASE UNCHANGED vars
  BY <1>1, <1>2, QuietSteps, QuietPreserves
<1>3. ASSUME NEW c \in Calls, Begin(c) \/ BeginCallback(c) \/ CallStep(c) \/ Timeout(c)
      PROVE IndInv'
  BY <1>1, <1>3, BeginPreserves, BeginCallbackPreserves, CheckClosedPreserves, RefusePreserves,
     AllocRidPreserves, AddRequestContextPreserves, GetConnPreserves, WriteOkPreserves,
     WriteFailsPreserves, DelRequestContextPreserves, ReceivePreserves, CopyResponsePreserves,
     TimeoutPreserves, FinishPreserves
  DEF CallStep
<1>4. ASSUME NEW m \in server, ReadResponse(m) PROVE IndInv'
  BY <1>1, <1>4, ReadResponsePreserves
<1>5. CASE \E h \in Calls : ReadRequest(h)
  BY <1>1, <1>5, QuietSteps, QuietPreserves
<1>6. CASE ReadFails
  BY <1>1, <1>6, ReadFailsPreserves
<1>7. CASE ReadStep
  <2>1. ASSUME NEW r \in Rids, CleanupOne(r) PROVE IndInv'
    BY <1>1, <2>1, CleanupOnePreserves
  <2>2. CASE RunCallback \/ AssignResponse \/ SendResult \/ SendBlocks \/ CleanupEnd
    BY <1>1, <2>2, RunCallbackPreserves, AssignResponsePreserves, SendResultPreserves,
       SendBlocksPreserves, CleanupEndPreserves
  <2>3. CASE \/ UserReturns \/ MayRedial \/ DialFails \/ DialOk \/ BuildAsyncWriteConn
             \/ CloseOld \/ SetConn \/ ExitClose \/ ExitCloseConn \/ StoreError
    BY <1>1, <2>3, QuietSteps, QuietPreserves
  <2>4. QED
    BY <1>7, <2>1, <2>2, <2>3 DEF ReadStep
<1>8. CASE Close \/ CloseConn \/ Break
  BY <1>1, <1>8, QuietSteps, QuietPreserves
<1>9. QED
  BY <1>2, <1>3, <1>4, <1>5, <1>6, <1>7, <1>8 DEF Next

(* The inductive invariant holds in every behaviour with unique ids and a   *)
(* peer that does not answer one-way requests.                              *)
THEOREM IndInvHolds ==
  ASSUME UniqueRids, ~AnswersOneWay PROVE Spec => []IndInv
<1>1. Init => IndInv
  BY IndInvInit
<1>2. IndInv /\ [Next]_vars => IndInv'
  BY IndInvNext
<1>3. QED
  BY <1>1, <1>2, PTL DEF Spec

(* OwnResult: a call receives and copies out what belongs to it, however    *)
(* contexts are recycled (client.go:198-202, 471-489).                      *)
THEOREM OwnResultHolds ==
  ASSUME UniqueRids, ~AnswersOneWay PROVE Spec => []OwnResult
<1>1. IndInv => OwnResult
  BY DEF IndInv, ResultInv
<1>2. QED
  BY <1>1, IndInvHolds, PTL

(* OkHasResponse: a two-way call that ends without an error has its own     *)
(* response (client.go:455-493).                                            *)
THEOREM OkHasResponseHolds ==
  ASSUME UniqueRids, ~AnswersOneWay PROVE Spec => []OkHasResponse
<1>1. IndInv => OkHasResponse
  BY DEF IndInv, ResultInv, OkHasResponse
<1>2. QED
  BY <1>1, IndInvHolds, PTL

(* CallbackOnce: a callback runs at most once (client.go:302,               *)
(* invoke_context.go:77).                                                   *)
THEOREM CallbackOnceHolds ==
  ASSUME UniqueRids, ~AnswersOneWay PROVE Spec => []CallbackOnce
<1>1. IndInv => CallbackOnce
  BY DEF IndInv, CallbackInv, CallbackOnce
<1>2. QED
  BY <1>1, IndInvHolds, PTL

(* PoolSafe: nobody can deliver to a context that is back in the pool       *)
(* (client.go:200).                                                         *)
THEOREM PoolSafeHolds ==
  ASSUME UniqueRids, ~AnswersOneWay PROVE Spec => []PoolSafe
<1>1. ASSUME IndInv PROVE PoolSafe
  <2> SUFFICES ASSUME NEW x \in pool, Deliverable(x) PROVE FALSE
    BY DEF PoolSafe
  <2> USE <1>1 DEF IndInv
  <2>1. ASSUME NEW r \in Rids, requests[r] # None, requests[r].ctx = x, Locked => r \in rtodo
        PROVE FALSE
    <3>1. requests[r].call \in Calls /\ Owns(requests[r].call) /\ ctx[requests[r].call] = x
      BY <2>1 DEF EntryInv, Live, Registered, Owns, Recycles, Sync, TypeInv, TypeOK, Entry
    <3>2. QED
      BY <3>1 DEF OwnerInv
  <2>2. ASSUME rent # None, rent.ctx = x PROVE FALSE
    <3>1. rent.call \in Calls /\ Owns(rent.call) /\ ctx[rent.call] = x
      BY <2>2 DEF ReaderInv, Waits, Owns, Recycles, Sync, TypeInv, TypeOK, Entry
    <3>2. QED
      BY <3>1 DEF OwnerInv
  <2>3. QED
    BY <2>1, <2>2 DEF Deliverable
<1>2. QED
  BY <1>1, IndInvHolds, PTL

(* NoStaleEntry: the entry of a synchronous call is gone when the call      *)
(* returns (client.go:451, 456, 486).                                       *)
THEOREM NoStaleEntryHolds ==
  ASSUME UniqueRids, ~AnswersOneWay PROVE Spec => []NoStaleEntry
<1>1. IndInv => NoStaleEntry
  BY DEF IndInv, EntryInv, Live, Registered, NoStaleEntry, Sync
<1>2. QED
  BY <1>1, IndInvHolds, PTL

(* SendNeverBlocks: the reader always finds room in errCh                   *)
(* (invoke_context.go:82).                                                  *)
THEOREM SendNeverBlocksHolds ==
  ASSUME UniqueRids, ~AnswersOneWay PROVE Spec => []SendNeverBlocks
<1>1. IndInv => SendNeverBlocks
  BY DEF IndInv, ChannelInv, SendNeverBlocks
<1>2. QED
  BY <1>1, IndInvHolds, PTL

=============================================================================
