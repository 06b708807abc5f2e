-------------------------- MODULE ClientConnProofs --------------------------
(***************************************************************************)
(* Proofs about ClientConn, for every set of calls, every number of request *)
(* ids and of connections.  The inductive invariant says which ids and      *)
(* contexts are taken and by whom, what a registered call has gone through, *)
(* what a message of the peer may still find, and, as long as the stream is *)
(* in step, for whom a context's channel and the reader work.               *)
(***************************************************************************)
EXTENDS ClientConn, TLAPS

(* The call holds its context.                                              *)
Active(c) == call[c].pc \in {"add", "send", "wait", "copy", "del", "expired"}

(* What a call has, by how far it has come.                                 *)
PcInv ==
  \A c \in Calls :
    /\ call[c].pc = "idle" => call[c].rid = None /\ call[c].ctx = None
    /\ call[c].pc \in {"add", "send", "wait", "del", "expired"} => call[c].rid \in Rids
    /\ Active(c) => call[c].ctx \in Calls
    /\ call[c].pc \in {"wait", "copy", "expired"} => c \in Sync

(* Ids are given once, in order.                                            *)
RidInv ==
  /\ \A c \in Calls : call[c].rid # None => call[c].rid <= id
  /\ \A c, d \in Calls : call[c].rid = call[d].rid /\ call[c].rid # None => c = d
  /\ \A r \in Rids : requests[r] # None => r <= id
  /\ \A m \in server : m.rid <= id

(* A call is registered under its own id, and once.                         *)
RegInv ==
  \A r \in Rids, c \in Calls : requests[r] = c =>
    /\ call[c].pc \notin {"idle", "add"} /\ call[c].rid \in {r, None}
    /\ \A d \in Calls : call[d].rid = r => d = c
    /\ \A s \in Rids : requests[s] = c => s = r

(* The answer to a request finds its call, or none.                         *)
MsgInv ==
  \A m \in server :
    /\ requests[m.rid] \in {None, m.call}
    /\ \A d \in Calls : call[d].rid = m.rid => d = m.call
    /\ call[m.call].pc \in {"wait", "copy", "expired", "done"}

(* A callback that can still be invoked was not.                            *)
CbInv ==
  \A c \in Calls :
    /\ call[c].cbs \in {0, 1}
    /\ call[c].pc \in {"idle", "add"} \/ c \in Pending => call[c].cbs = 0

(* A context is in the pool, or held by one call, or was never made.        *)
CtxInv ==
  /\ \A c \in Calls : Active(c) => call[c].ctx \notin pool
  /\ \A c, d \in Calls : Active(c) /\ Active(d) /\ call[c].ctx = call[d].ctx => c = d
  /\ \A c \in Calls : call[c].pc = "idle" => c \notin pool /\ \A d \in Calls : call[d].ctx # c

(* In step: a registered call still waits for its first result; a result is *)
(* for the call that holds the context.                                     *)
ResultInv ==
  /\ \A c \in Sync : c \in Pending => call[c].pc \in {"send", "wait", "del", "expired"}
  /\ \A c \in Sync : call[c].pc = "add" \/ c \in Pending => errCh[call[c].ctx] = Empty
  /\ \A c \in Sync : Active(c) /\ errCh[call[c].ctx] # Empty =>
        /\ errCh[call[c].ctx].from = c
        /\ ~errCh[call[c].ctx].failed => ires[call[c].ctx] = c
  /\ \A c \in Sync : call[c].pc = "copy" => ires[call[c].ctx] = c
  /\ \A c \in Calls : call[c].got \in {None, c} /\ call[c].res \in {None, c}

(* In step: the reader delivers to the call that sent the request, which    *)
(* still waits, or has timed out and keeps the context from the pool.       *)
DeliverInv ==
  rd.pc = "deliver" =>
    /\ rd.msg \in Sync /\ call[rd.msg].ctx = rd.ctx /\ rd.ctx \in Calls \ pool
    /\ call[rd.msg].pc \in {"wait", "expired", "done"} /\ rd.msg \notin Pending
    /\ \A c \in Calls : Active(c) /\ call[c].ctx = rd.ctx => c = rd.msg
    /\ errCh[rd.ctx] = Empty

(* The connections before the present one are closed.                       *)
ConnInv ==
  /\ \A k \in Conns : k < cur => conns[k] = "closed"
  /\ rd.pc \in {"setconn", "done"} => conns[cur] = "closed"
  /\ rd.pc \in {"build", "setconn"} => cur < MaxDials
  /\ status = "Shutdown" => rd.pc = "done"

CallInv == TypeOK /\ PcInv /\ RidInv /\ RegInv /\ MsgInv /\ CbInv /\ CtxInv

IndInv == CallInv /\ ConnInv /\ (InStep => ResultInv /\ DeliverInv)

-----------------------------------------------------------------------------
(* The first state.                                                         *)
LEMMA InitInv == ASSUME Init PROVE IndInv
<1> USE ConnAssumption DEF Init
<1>1. /\ call \in [Calls -> CallRecord]
      /\ \A c \in Calls : /\ call[c].pc = "idle" /\ call[c].rid = None /\ call[c].ctx = None
                          /\ call[c].got = None /\ call[c].res = None /\ call[c].cbs = 0
  BY DEF CallRecord, Sources
<1>2. TypeOK
  <2>1. PICK s \in {"open", "error"} : conns = [k \in Conns |-> IF k = 0 THEN s ELSE "none"]
    OBVIOUS
  <2>2. conns \in [Conns -> {"none", "open", "closed", "error"}] /\ cur \in Conns
    BY <2>1 DEF Conns
  <2>3. torn \in [Conns -> BOOLEAN] /\ ready \in BOOLEAN /\ closed \in BOOLEAN
    OBVIOUS
  <2>4. errCh \in [Calls -> [from : Sources, failed : BOOLEAN]]
    BY DEF Empty, Sources
  <2>5. requests \in [Rids -> Calls \cup {None}] /\ ires \in [Calls -> Sources]
    BY DEF Sources
  <2>6. rd \in [pc : {"decode", "panic", "deliver", "cleanup", "redial", "dial",
                   "build", "setconn", "exit", "done"},
             ctx : Calls \cup {None}, msg : Sources]
    BY DEF Sources
  <2> QED
    BY <1>1, <2>2, <2>3, <2>4, <2>5, <2>6 DEF TypeOK, Statuses
<1>3. \A r \in Rids : requests[r] = None
  OBVIOUS
<1>4. Pending = {}
  BY <1>3 DEF Pending
<1>5. PcInv /\ RidInv /\ RegInv /\ MsgInv
  BY <1>1, <1>3 DEF PcInv, RidInv, RegInv, MsgInv, Active
<1>6. CbInv /\ CtxInv
  BY <1>1, <1>4 DEF CbInv, CtxInv, Active
<1>7. ResultInv /\ DeliverInv
  BY <1>1, <1>4 DEF ResultInv, DeliverInv, Active, Sync
<1>8. ConnInv
  BY DEF ConnInv, Conns
<1> QED
  BY <1>2, <1>5, <1>6, <1>7, <1>8 DEF IndInv, CallInv

-----------------------------------------------------------------------------
(* Steps that leave the calls, their ids and their contexts alone.          *)

LEMMA QuietInv ==
  ASSUME IndInv, UNCHANGED <<requests, id, call, pool, errCh, ires>>, server' \subseteq server,
         rd'.pc = "deliver" => rd' = rd, InStep' => InStep
  PROVE  /\ PcInv' /\ RidInv' /\ RegInv' /\ MsgInv' /\ CbInv' /\ CtxInv'
         /\ InStep' => ResultInv' /\ DeliverInv'
<1>0. Pending' = Pending
  BY DEF Pending
<1>1. PcInv' /\ RidInv' /\ RegInv' /\ MsgInv'
  BY DEF IndInv, CallInv, PcInv, RidInv, RegInv, MsgInv, Active
<1>2. CbInv' /\ CtxInv'
  BY <1>0 DEF IndInv, CallInv, CbInv, CtxInv, Active
<1>3. InStep' => ResultInv'
  BY <1>0 DEF IndInv, ResultInv, Active
<1>4. InStep' => DeliverInv'
  BY <1>0 DEF IndInv, DeliverInv, Active
<1> QED
  BY <1>1, <1>2, <1>3, <1>4

(* The client is handed out and closed; the reader reads what is no         *)
(* response.                                                                *)
LEMMA OutsideInv ==
  ASSUME IndInv, NewClientConnBOLT \/ ReadRequest \/ Deadline \/ ReadFails \/ Close
  PROVE  IndInv'
<1> USE ConnAssumption
<1>1. /\ UNCHANGED <<requests, id, status, cur, conns, call, pool, errCh, ires>>
      /\ rd' \in {rd, [rd EXCEPT !.pc = "decode"], [rd EXCEPT !.pc = "panic"], [rd EXCEPT !.pc = "cleanup"]}
      /\ (rd' # rd => rd.pc = "decode")
  BY DEF NewClientConnBOLT, ReadRequest, Deadline, ReadFails, Close, connVars, ctxVars, At, Decoding
<1>2. /\ server' \subseteq server /\ ready' \in BOOLEAN /\ closed' \in BOOLEAN
      /\ cpc' \in {"no", "close", "done"} /\ torn' \in [Conns -> BOOLEAN]
      /\ \A k \in Conns : torn[k] => torn'[k]
  BY DEF NewClientConnBOLT, ReadRequest, Deadline, ReadFails, Close, connVars, MayCut,
         IndInv, CallInv, TypeOK
<1>3. InStep' => InStep
  BY <1>2 DEF InStep
<1>4. /\ rd' \in [pc : {"decode", "panic", "deliver", "cleanup", "redial", "dial",
                        "build", "setconn", "exit", "done"}, ctx : Calls \cup {None}, msg : Sources]
      /\ rd' = rd \/ (rd.pc = "decode" /\ rd'.pc \in {"decode", "panic", "cleanup"})
  BY <1>1 DEF IndInv, CallInv, TypeOK
<1>5. TypeOK'
  BY <1>1, <1>2, <1>4 DEF IndInv, CallInv, TypeOK
<1>6. ConnInv'
  BY <1>1, <1>4 DEF IndInv, ConnInv
<1> QED
  BY <1>1, <1>2, <1>3, <1>4, <1>5, <1>6, QuietInv DEF IndInv, CallInv

(* The reader and a caller of Close change the connection.                  *)
LEMMA ConnStepsInv ==
  ASSUME IndInv, mayRedial \/ DialFails \/ DialOk \/ buildAsyncWriteConn \/ setConn \/ Shutdown
                   \/ CloseConn
  PROVE  IndInv'
<1> USE ConnAssumption
<1>1. /\ UNCHANGED <<ready, requests, closed, id, torn, call, pool, errCh, ires>>
      /\ cur' \in {cur, cur + 1} /\ server' \subseteq server /\ cpc' \in {"no", "close", "done"}
      /\ status' \in Statuses
  BY DEF mayRedial, DialFails, DialOk, buildAsyncWriteConn, setConn, Shutdown, CloseConn,
         connVars, ctxVars, Statuses, IndInv, CallInv, TypeOK
<1>2. InStep' => InStep
  BY <1>1 DEF InStep
<1>3. ASSUME NEW p \in {"redial", "dial", "build", "setconn", "decode", "exit", "done"},
             rd' = [rd EXCEPT !.pc = p]
      PROVE  /\ rd' \in [pc : {"decode", "panic", "deliver", "cleanup", "redial", "dial",
                               "build", "setconn", "exit", "done"},
                         ctx : Calls \cup {None}, msg : Sources]
             /\ rd'.pc = p
  BY <1>3 DEF IndInv, CallInv, TypeOK
<1>4. TypeOK' /\ ConnInv' /\ (rd'.pc = "deliver" => rd' = rd)
  <2> USE DEF IndInv, CallInv, TypeOK, ConnInv, Conns
  <2>1. CASE mayRedial \/ DialFails
    <3>1. /\ UNCHANGED <<cur, conns, server, cpc>> /\ rd.pc \in {"redial", "dial"}
          /\ status' # "Shutdown" \/ status' = status
          /\ \E p \in {"redial", "dial", "exit"} : rd' = [rd EXCEPT !.pc = p]
      BY <2>1 DEF mayRedial, DialFails, At, connVars
    <3>2. rd'.pc \in {"redial", "dial", "exit"}
      BY <1>3, <3>1
    <3> QED
      BY <1>1, <1>3, <3>1, <3>2
  <2>2. CASE DialOk
    <3>1. /\ UNCHANGED <<cur, status, server, cpc>> /\ rd.pc = "dial" /\ cur < MaxDials
          /\ rd' = [rd EXCEPT !.pc = "build"] /\ conns' = [conns EXCEPT ![cur + 1] = "open"]
      BY <2>2 DEF DialOk, At
    <3> QED
      BY <1>1, <1>3, <3>1
  <2>3. CASE buildAsyncWriteConn
    <3>1. /\ UNCHANGED <<cur, status, server, cpc>> /\ rd.pc = "build"
          /\ \/ rd' = [rd EXCEPT !.pc = "setconn"] /\ conns' = [conns EXCEPT ![cur] = "closed"]
             \/ rd' = [rd EXCEPT !.pc = "exit"] /\ conns' = conns
      BY <2>3 DEF buildAsyncWriteConn, At, OldClosed
    <3> QED
      BY <1>1, <1>3, <3>1
  <2>4. CASE setConn
    <3>1. /\ UNCHANGED <<conns, cpc>> /\ rd.pc = "setconn" /\ status' = "Active" /\ cur' = cur + 1
          /\ rd' = [rd EXCEPT !.pc = "decode"] /\ server' = {}
      BY <2>4 DEF setConn, At
    <3>2. \A k \in Conns : k < cur' => k < cur \/ k = cur
      BY <3>1
    <3> QED
      BY <1>1, <1>3, <3>1, <3>2
  <2>5. CASE Shutdown
    <3>1. /\ UNCHANGED <<cur, server, cpc>> /\ rd.pc = "exit" /\ status' = "Shutdown"
          /\ rd' = [rd EXCEPT !.pc = "done"] /\ conns' = [conns EXCEPT ![cur] = "closed"]
      BY <2>5 DEF Shutdown, At
    <3> QED
      BY <1>1, <1>3, <3>1
  <2>6. CASE CloseConn
    <3>1. /\ UNCHANGED <<cur, status, server, rd>> /\ conns' = [conns EXCEPT ![cur] = "closed"]
      BY <2>6 DEF CloseConn, ConnClosed
    <3> QED
      BY <1>1, <3>1
  <2> QED
    BY <2>1, <2>2, <2>3, <2>4, <2>5, <2>6
<1> QED
  BY <1>1, <1>2, <1>4, QuietInv DEF IndInv, CallInv

-----------------------------------------------------------------------------
(* The steps of a call.                                                     *)

(* Call c moves to p, and nothing else changes: a write that failed, a      *)
(* one-way request, a timer.                                                *)
LEMMA GotoInv ==
  ASSUME IndInv, NEW c \in Calls, SendOneWay(c) \/ SendFails(c) \/ Timeout(c)
  PROVE  IndInv'
<1> USE ConnAssumption
<1>1. /\ UNCHANGED <<ready, requests, closed, id, status, cur, conns, torn, pool, errCh, ires,
                     server, rd, cpc>>
      /\ \/ call[c].pc = "send" /\ call' = [call EXCEPT ![c].pc = "del"]
         \/ call[c].pc = "wait" /\ call' = [call EXCEPT ![c].pc = "expired"]
  BY DEF SendOneWay, SendFails, Timeout, Goto, connVars, ctxVars
<1>2. /\ call' \in [Calls -> CallRecord] /\ \A d \in Calls \ {c} : call'[d] = call[d]
      /\ call'[c].rid = call[c].rid /\ call'[c].ctx = call[c].ctx
      /\ call'[c].got = call[c].got /\ call'[c].res = call[c].res /\ call'[c].cbs = call[c].cbs
      /\ \/ call[c].pc = "send" /\ call'[c].pc = "del"
         \/ call[c].pc = "wait" /\ call'[c].pc = "expired"
  <2>1. call \in [Calls -> CallRecord]
    BY DEF IndInv, CallInv, TypeOK
  <2>2. CASE call[c].pc = "send" /\ call' = [call EXCEPT ![c].pc = "del"]
    BY <2>1, <2>2 DEF CallRecord
  <2>3. CASE call[c].pc = "wait" /\ call' = [call EXCEPT ![c].pc = "expired"]
    BY <2>1, <2>3 DEF CallRecord
  <2> QED
    BY <1>1, <2>2, <2>3
<1>3. TypeOK' /\ ConnInv' /\ InStep' = InStep /\ Pending' = Pending
  BY <1>1, <1>2 DEF IndInv, CallInv, TypeOK, ConnInv, InStep, Pending
<1>4. PcInv' /\ RidInv'
  BY <1>1, <1>2 DEF IndInv, CallInv, PcInv, RidInv, Active
<1>5. RegInv' /\ MsgInv'
  BY <1>1, <1>2, SMTT(60) DEF IndInv, CallInv, TypeOK, RegInv, MsgInv
<1>6. CbInv' /\ CtxInv'
  BY <1>1, <1>2, <1>3 DEF IndInv, CallInv, CbInv, CtxInv, Active
<1>7. InStep => ResultInv'
  BY <1>1, <1>2, <1>3 DEF IndInv, CallInv, ResultInv, Active, Sync
<1>8. InStep => DeliverInv'
  BY <1>1, <1>2, <1>3 DEF IndInv, CallInv, DeliverInv, Active, Sync
<1> QED
  BY <1>3, <1>4, <1>5, <1>6, <1>7, <1>8 DEF IndInv, CallInv

LEMMA AddRequestContextInv ==
  ASSUME IndInv, NEW c \in Calls, addRequestContext(c) PROVE IndInv'
<1> USE ConnAssumption
<1> DEFINE r == call[c].rid
<1>1. /\ UNCHANGED <<ready, closed, id, status, cur, conns, torn, pool, errCh, ires, server, rd, cpc>>
      /\ call[c].pc = "add" /\ requests' = [requests EXCEPT ![r] = c]
      /\ call' = [call EXCEPT ![c].pc = "send"]
  BY DEF addRequestContext, Goto, connVars, ctxVars
<1>2. r \in Rids /\ r <= id /\ requests[r] = None /\ c \notin Pending
  <2>1. r \in Rids /\ r <= id
    BY <1>1 DEF IndInv, CallInv, PcInv, RidInv
  <2>2. \A s \in Rids : requests[s] # c
    BY <1>1 DEF IndInv, CallInv, RegInv
  <2>3. requests[r] \in Calls \cup {None}
    BY <2>1 DEF IndInv, CallInv, TypeOK
  <2>4. requests[r] = None
    BY <2>1, <2>2, <2>3 DEF IndInv, CallInv, RegInv
  <2> QED
    BY <2>1, <2>2, <2>4 DEF Pending
<1>3. /\ call' \in [Calls -> CallRecord] /\ \A d \in Calls \ {c} : call'[d] = call[d]
      /\ call'[c].rid = r /\ call'[c].ctx = call[c].ctx /\ call'[c].pc = "send"
      /\ call'[c].got = call[c].got /\ call'[c].res = call[c].res /\ call'[c].cbs = call[c].cbs
  <2>1. call \in [Calls -> CallRecord]
    BY DEF IndInv, CallInv, TypeOK
  <2> QED
    BY <1>1, <2>1 DEF CallRecord
<1>4. /\ requests' \in [Rids -> Calls \cup {None}] /\ requests'[r] = c
      /\ \A s \in Rids \ {r} : requests'[s] = requests[s]
  BY <1>1, <1>2 DEF IndInv, CallInv, TypeOK
<1> HIDE DEF r
<1>5. Pending' = Pending \cup {c}
  BY <1>2, <1>4 DEF Pending
<1>6. TypeOK' /\ ConnInv' /\ InStep' = InStep
  BY <1>1, <1>3, <1>4 DEF IndInv, CallInv, TypeOK, ConnInv, InStep
<1>7. PcInv' /\ RidInv'
  BY <1>1, <1>2, <1>3, <1>4 DEF IndInv, CallInv, PcInv, RidInv, Active, r
<1>8. RegInv'
  <2> SUFFICES ASSUME NEW s \in Rids, NEW d \in Calls, requests'[s] = d
               PROVE  /\ call'[d].pc \notin {"idle", "add"} /\ call'[d].rid \in {s, None}
                      /\ \A e \in Calls : call'[e].rid = s => e = d
                      /\ \A t \in Rids : requests'[t] = d => t = s
    BY DEF RegInv
  <2>1. CASE s = r
    <3>1. d = c
      BY <1>4, <2>1
    <3>2. \A e \in Calls : call'[e].rid = s => e = d
      BY <1>2, <1>3, <2>1, <3>1 DEF IndInv, CallInv, RidInv, r
    <3>3. \A t \in Rids : requests'[t] = d => t = s
      BY <1>2, <1>4, <2>1, <3>1 DEF Pending
    <3> QED
      BY <1>3, <2>1, <3>1, <3>2, <3>3
  <2>2. CASE s # r
    <3>1. requests[s] = d /\ d # c
      BY <1>2, <1>4, <2>2 DEF Pending
    <3>2. \A e \in Calls : call'[e].rid = s => e = d
      BY <1>3, <2>2, <3>1 DEF IndInv, CallInv, RegInv
    <3>3. \A t \in Rids : requests'[t] = d => t = s
      BY <1>4, <2>2, <3>1 DEF IndInv, CallInv, RegInv
    <3> QED
      BY <1>3, <3>1, <3>2, <3>3 DEF IndInv, CallInv, RegInv
  <2> QED
    BY <2>1, <2>2
<1>9. MsgInv'
  <2> SUFFICES ASSUME NEW m \in server
               PROVE  /\ requests'[m.rid] \in {None, m.call}
                      /\ \A d \in Calls : call'[d].rid = m.rid => d = m.call
                      /\ call'[m.call].pc \in {"wait", "copy", "expired", "done"}
    BY <1>1 DEF MsgInv
  <2>1. m.rid \in Rids /\ m.call \in Calls
    BY DEF IndInv, CallInv, TypeOK
  <2>2. m.call # c /\ m.rid # r
    BY <1>1, <2>1 DEF IndInv, CallInv, MsgInv, r
  <2> QED
    BY <1>3, <1>4, <2>1, <2>2 DEF IndInv, CallInv, MsgInv, r
<1>10. CbInv' /\ CtxInv'
  BY <1>1, <1>3, <1>5 DEF IndInv, CallInv, CbInv, CtxInv, Active
<1>11. InStep => ResultInv'
  BY <1>1, <1>3, <1>5 DEF IndInv, CallInv, ResultInv, Active, Sync
<1>12. InStep => DeliverInv'
  BY <1>1, <1>3, <1>5 DEF IndInv, CallInv, DeliverInv, Active, Sync
<1> QED
  BY <1>6, <1>7, <1>8, <1>9, <1>10, <1>11, <1>12 DEF IndInv, CallInv

(* What a return changes.                                                   *)
LEMMA ReturnsFacts ==
  ASSUME call \in [Calls -> CallRecord], NEW c \in Calls, NEW r \in CallRecord, Returns(c, r)
  PROVE  /\ call' \in [Calls -> CallRecord] /\ \A d \in Calls \ {c} : call'[d] = call[d]
         /\ call'[c].pc = "done" /\ call'[c].rid = None /\ call'[c].ctx = r.ctx
         /\ call'[c].got = r.got /\ call'[c].res = r.res /\ call'[c].cbs = r.cbs
<1>1. [r EXCEPT !.pc = "done", !.rid = None] \in CallRecord
  BY DEF CallRecord
<1> QED
  BY <1>1 DEF CallRecord, Returns

LEMMA SendInv == ASSUME IndInv, NEW c \in Calls, Send(c) PROVE IndInv'
<1> USE ConnAssumption
<1> DEFINE m == [rid |-> call[c].rid, call |-> c]
<1>1. /\ UNCHANGED <<ready, requests, closed, id, status, cur, conns, torn, pool, errCh, ires, rd, cpc>>
      /\ call[c].pc = "send" /\ server' \subseteq server \cup {m}
      /\ \/ c \in Callback /\ call' = [call EXCEPT ![c] = [call[c] EXCEPT !.pc = "done", !.rid = None]]
         \/ c \in Sync /\ call' = [call EXCEPT ![c].pc = "wait"]
  BY DEF Send, Goto, Returns, connVars, ctxVars, Sync
<1>2. call \in [Calls -> CallRecord] /\ call[c].rid \in Rids
  BY <1>1 DEF IndInv, CallInv, TypeOK, PcInv
<1>3. /\ call' \in [Calls -> CallRecord] /\ \A d \in Calls \ {c} : call'[d] = call[d]
      /\ call'[c].ctx = call[c].ctx
      /\ call'[c].got = call[c].got /\ call'[c].res = call[c].res /\ call'[c].cbs = call[c].cbs
      /\ \/ c \in Callback /\ call'[c].pc = "done" /\ call'[c].rid = None
         \/ c \in Sync /\ call'[c].pc = "wait" /\ call'[c].rid = call[c].rid
  <2>1. CASE c \in Callback /\ call' = [call EXCEPT ![c] = [call[c] EXCEPT !.pc = "done", !.rid = None]]
    <3>1. call[c] \in CallRecord /\ Returns(c, call[c])
      BY <1>2, <2>1 DEF Returns
    <3> QED
      BY <1>2, <2>1, <3>1, ReturnsFacts
  <2>2. CASE c \in Sync /\ call' = [call EXCEPT ![c].pc = "wait"]
    BY <1>2, <2>2 DEF CallRecord
  <2> QED
    BY <1>1, <2>1, <2>2
<1>4. server' \subseteq [rid : Rids, call : Calls] /\ m.rid = call[c].rid /\ m.call = c
  BY <1>1, <1>2 DEF IndInv, CallInv, TypeOK
<1> HIDE DEF m
<1>5. TypeOK' /\ ConnInv' /\ InStep' = InStep /\ Pending' = Pending
  BY <1>1, <1>3, <1>4 DEF IndInv, CallInv, TypeOK, ConnInv, InStep, Pending
<1>6. PcInv' /\ RidInv'
  BY <1>1, <1>2, <1>3, <1>4 DEF IndInv, CallInv, PcInv, RidInv, Active
<1>7. RegInv'
  BY <1>1, <1>2, <1>3 DEF IndInv, CallInv, RegInv
<1>8. MsgInv'
  <2> SUFFICES ASSUME NEW n \in server'
               PROVE  /\ requests[n.rid] \in {None, n.call}
                      /\ \A d \in Calls : call'[d].rid = n.rid => d = n.call
                      /\ call'[n.call].pc \in {"wait", "copy", "expired", "done"}
    BY <1>1 DEF MsgInv
  <2>0. n.rid \in Rids /\ n.call \in Calls
    BY <1>4
  <2>1. CASE n = m
    <3>1. requests[call[c].rid] \in {None, c}
      BY <1>2 DEF IndInv, CallInv, RegInv, TypeOK
    <3>2. \A d \in Calls : call'[d].rid = call[c].rid => d = c
      BY <1>2, <1>3 DEF IndInv, CallInv, RidInv
    <3> QED
      BY <1>3, <1>4, <2>1, <3>1, <3>2
  <2>2. CASE n \in server
    BY <1>1, <1>3, <2>0, <2>2 DEF IndInv, CallInv, MsgInv
  <2> QED
    BY <1>1, <2>1, <2>2
<1>9. CbInv' /\ CtxInv'
  BY <1>1, <1>3, <1>5 DEF IndInv, CallInv, CbInv, CtxInv, Active
<1>10. InStep => ResultInv'
  BY <1>1, <1>3, <1>5 DEF IndInv, CallInv, ResultInv, Active, Sync
<1>11. InStep => DeliverInv'
  BY <1>1, <1>3, <1>5 DEF IndInv, CallInv, DeliverInv, Active, Sync
<1> QED
  BY <1>5, <1>6, <1>7, <1>8, <1>9, <1>10, <1>11 DEF IndInv, CallInv

LEMMA DelRequestContextInv ==
  ASSUME IndInv, NEW c \in Calls, delRequestContext(c) PROVE IndInv'
<1> USE ConnAssumption
<1> DEFINE r == call[c].rid
<1>1. /\ UNCHANGED <<ready, closed, id, status, cur, conns, torn, errCh, ires, server, rd, cpc>>
      /\ call[c].pc \in {"del", "expired"} /\ requests' = [requests EXCEPT ![r] = None]
      /\ Returns(c, call[c]) /\ pool' = Released(c)
  BY DEF delRequestContext, connVars
<1>2. call \in [Calls -> CallRecord] /\ r \in Rids /\ call[c].ctx \in Calls
  BY <1>1 DEF IndInv, CallInv, TypeOK, PcInv, Active
<1>3. /\ call' \in [Calls -> CallRecord] /\ \A d \in Calls \ {c} : call'[d] = call[d]
      /\ call'[c].pc = "done" /\ call'[c].rid = None /\ call'[c].ctx = call[c].ctx
      /\ call'[c].got = call[c].got /\ call'[c].res = call[c].res /\ call'[c].cbs = call[c].cbs
  BY <1>1, <1>2, ReturnsFacts
<1>4. /\ requests' \in [Rids -> Calls \cup {None}] /\ requests'[r] = None
      /\ \A s \in Rids \ {r} : requests'[s] = requests[s]
  BY <1>1, <1>2 DEF IndInv, CallInv, TypeOK
<1>5. pool' = pool \/ (call[c].pc = "del" /\ pool' = pool \cup {call[c].ctx})
  BY <1>1 DEF Released
<1> HIDE DEF r
<1>6. Pending' = Pending \ {c}
  <2>1. requests[r] \in {None, c}
    BY <1>2 DEF IndInv, CallInv, TypeOK, RegInv, r
  <2>2. \A s \in Rids : requests[s] = c => s = r
    BY <1>2 DEF IndInv, CallInv, RegInv, r
  <2> QED
    BY <1>2, <1>4, <2>1, <2>2 DEF Pending
<1>7. TypeOK' /\ ConnInv' /\ InStep' = InStep
  BY <1>1, <1>2, <1>3, <1>4, <1>5 DEF IndInv, CallInv, TypeOK, ConnInv, InStep
<1>8. PcInv' /\ RidInv'
  BY <1>1, <1>3, <1>4 DEF IndInv, CallInv, PcInv, RidInv, Active
<1>9. RegInv'
  BY <1>1, <1>3, <1>4 DEF IndInv, CallInv, RegInv
<1>10. MsgInv'
  BY <1>1, <1>3, <1>4 DEF IndInv, CallInv, TypeOK, MsgInv
<1>11. CbInv'
  BY <1>1, <1>3, <1>6 DEF IndInv, CallInv, CbInv
<1>12. CtxInv'
  BY <1>1, <1>3, <1>5 DEF IndInv, CallInv, CtxInv, Active
<1>13. InStep => ResultInv'
  BY <1>1, <1>3, <1>6 DEF IndInv, CallInv, ResultInv, Active, Sync
<1>14. InStep => DeliverInv'
  BY <1>1, <1>3, <1>5, <1>6 DEF IndInv, CallInv, DeliverInv, Active, Sync
<1> QED
  BY <1>7, <1>8, <1>9, <1>10, <1>11, <1>12, <1>13, <1>14 DEF IndInv, CallInv

(* A call takes what is in its channel.                                     *)
LEMMA ReceiveInv == ASSUME IndInv, NEW c \in Calls, Receive(c) PROVE IndInv'
<1> USE ConnAssumption
<1> DEFINE x == call[c].ctx
<1>1. /\ UNCHANGED <<ready, requests, closed, id, status, cur, conns, torn, ires, server, rd, cpc>>
      /\ call[c].pc = "wait" /\ errCh[x] # Empty /\ errCh' = [errCh EXCEPT ![x] = Empty]
      /\ \/ /\ errCh[x].failed /\ pool' = Released(c)
            /\ Returns(c, [call[c] EXCEPT !.got = errCh[x].from])
         \/ /\ ~errCh[x].failed /\ pool' = pool
            /\ call' = [call EXCEPT ![c].pc = "copy", ![c].rid = None, ![c].got = errCh[x].from]
  BY DEF Receive, connVars
<1>2. call \in [Calls -> CallRecord] /\ x \in Calls /\ c \in Sync /\ errCh[x].from \in Sources
  BY <1>1 DEF IndInv, CallInv, TypeOK, PcInv, Active
<1>3. /\ call' \in [Calls -> CallRecord] /\ \A d \in Calls \ {c} : call'[d] = call[d]
      /\ call'[c].rid = None /\ call'[c].ctx = call[c].ctx
      /\ call'[c].got = errCh[x].from /\ call'[c].res = call[c].res /\ call'[c].cbs = call[c].cbs
      /\ \/ call'[c].pc = "copy" /\ ~errCh[x].failed /\ pool' = pool
         \/ call'[c].pc = "done" /\ pool' \in {pool, pool \cup {x}}
  <2>1. CASE errCh[x].failed
    <3> DEFINE s == [call[c] EXCEPT !.got = errCh[x].from]
    <3>1. /\ s \in CallRecord /\ s.ctx = call[c].ctx /\ s.got = errCh[x].from
          /\ s.res = call[c].res /\ s.cbs = call[c].cbs
      BY <1>2 DEF CallRecord
    <3>2. Returns(c, s) /\ pool' \in {pool, pool \cup {x}}
      BY <1>1, <2>1 DEF Released
    <3> HIDE DEF s
    <3> QED
      BY <1>2, <3>1, <3>2, ReturnsFacts
  <2>2. CASE ~errCh[x].failed
    <3>1. call' = [call EXCEPT ![c].pc = "copy", ![c].rid = None, ![c].got = errCh[x].from]
      BY <1>1, <2>2
    <3>2. /\ call' \in [Calls -> CallRecord] /\ \A d \in Calls \ {c} : call'[d] = call[d]
          /\ call'[c].rid = None /\ call'[c].ctx = call[c].ctx /\ call'[c].pc = "copy"
          /\ call'[c].got = errCh[x].from /\ call'[c].res = call[c].res /\ call'[c].cbs = call[c].cbs
      <4> DEFINE g == [call[c] EXCEPT !.got = errCh[x].from]
                 s == [g EXCEPT !.pc = "copy", !.rid = None]
      <4>1. /\ s \in CallRecord /\ s.rid = None /\ s.ctx = call[c].ctx /\ s.pc = "copy"
            /\ s.got = errCh[x].from /\ s.res = call[c].res /\ s.cbs = call[c].cbs
        <5>1. /\ g \in CallRecord /\ g.ctx = call[c].ctx /\ g.got = errCh[x].from
              /\ g.res = call[c].res /\ g.cbs = call[c].cbs
          BY <1>2 DEF CallRecord
        <5> HIDE DEF g
        <5> QED
          BY <5>1 DEF CallRecord
      <4>2. call' = [call EXCEPT ![c] = s]
        BY <3>1
      <4> HIDE DEF s
      <4>3. call' \in [Calls -> CallRecord] /\ call'[c] = s /\ \A d \in Calls \ {c} : call'[d] = call[d]
        BY <1>2, <4>1, <4>2
      <4> QED
        BY <4>1, <4>3
    <3> QED
      BY <1>1, <2>2, <3>2
  <2> QED
    BY <2>1, <2>2
<1>4. /\ errCh' \in [Calls -> [from : Sources, failed : BOOLEAN]] /\ errCh'[x] = Empty
      /\ \A y \in Calls \ {x} : errCh'[y] = errCh[y]
  BY <1>1, <1>2 DEF IndInv, CallInv, TypeOK, Empty, Sources
<1>5. TypeOK' /\ ConnInv' /\ InStep' = InStep /\ Pending' = Pending
  BY <1>1, <1>2, <1>3, <1>4 DEF IndInv, CallInv, TypeOK, ConnInv, InStep, Pending
<1>6. PcInv' /\ RidInv'
  BY <1>1, <1>2, <1>3 DEF IndInv, CallInv, PcInv, RidInv, Active
<1>7. RegInv'
  BY <1>1, <1>3 DEF IndInv, CallInv, RegInv
<1>8. MsgInv'
  <2>1. \A m \in server : m.rid \in Rids /\ m.call \in Calls
    BY DEF IndInv, CallInv, TypeOK
  <2>2. call'[c].pc \in {"copy", "done"}
    BY <1>3
  <2> QED
    BY <1>1, <1>2, <1>3, <2>1, <2>2 DEF IndInv, CallInv, MsgInv
<1>9. CbInv'
  BY <1>1, <1>3, <1>5 DEF IndInv, CallInv, CbInv
<1>10. CtxInv'
  BY <1>1, <1>3 DEF IndInv, CallInv, CtxInv, Active
<1>11. ASSUME InStep PROVE ResultInv' /\ DeliverInv'
  <2>1. /\ c \notin Pending /\ errCh[x].from = c /\ (~errCh[x].failed => ires[x] = c)
        /\ ResultInv /\ DeliverInv
    BY <1>1, <1>2, <1>11 DEF IndInv, ResultInv, Active
  <2>2. ResultInv'
    BY <1>1, <1>2, <1>3, <1>4, <1>5, <2>1 DEF IndInv, CallInv, PcInv, ResultInv, Active, Sync
  <2>3. rd.pc = "deliver" => rd.ctx # x
    BY <1>1, <2>1 DEF DeliverInv
  <2>4. DeliverInv'
    BY <1>1, <1>2, <1>3, <1>4, <1>5, <2>1, <2>3 DEF DeliverInv, Active, Sync
  <2> QED
    BY <2>2, <2>4
<1> QED
  BY <1>5, <1>6, <1>7, <1>8, <1>9, <1>10, <1>11 DEF IndInv, CallInv

LEMMA CopyResponseInv == ASSUME IndInv, NEW c \in Calls, CopyResponse(c) PROVE IndInv'
<1> USE ConnAssumption
<1> DEFINE x == call[c].ctx
           s == [call[c] EXCEPT !.res = ires[x]]
<1>1. /\ UNCHANGED <<ready, requests, closed, id, status, cur, conns, torn, errCh, ires, server, rd, cpc>>
      /\ call[c].pc = "copy" /\ Returns(c, s) /\ pool' \in {pool, pool \cup {x}}
  BY DEF CopyResponse, connVars, Released
<1>2. call \in [Calls -> CallRecord] /\ x \in Calls /\ c \in Sync /\ ires[x] \in Sources
  BY <1>1 DEF IndInv, CallInv, TypeOK, PcInv, Active
<1>3. /\ s \in CallRecord /\ s.ctx = call[c].ctx /\ s.got = call[c].got
      /\ s.res = ires[x] /\ s.cbs = call[c].cbs
  BY <1>2 DEF CallRecord
<1> HIDE DEF s
<1>4. /\ call' \in [Calls -> CallRecord] /\ \A d \in Calls \ {c} : call'[d] = call[d]
      /\ call'[c].pc = "done" /\ call'[c].rid = None /\ call'[c].ctx = x
      /\ call'[c].got = call[c].got /\ call'[c].res = ires[x] /\ call'[c].cbs = call[c].cbs
  BY <1>1, <1>2, <1>3, ReturnsFacts
<1>5. TypeOK' /\ ConnInv' /\ InStep' = InStep /\ Pending' = Pending
  BY <1>1, <1>2, <1>4 DEF IndInv, CallInv, TypeOK, ConnInv, InStep, Pending
<1>6. PcInv' /\ RidInv'
  BY <1>1, <1>4 DEF IndInv, CallInv, PcInv, RidInv, Active
<1>7. RegInv'
  BY <1>1, <1>4 DEF IndInv, CallInv, RegInv
<1>8. MsgInv'
  BY <1>1, <1>4 DEF IndInv, CallInv, TypeOK, MsgInv
<1>9. CbInv'
  BY <1>1, <1>4, <1>5 DEF IndInv, CallInv, CbInv
<1>10. CtxInv'
  BY <1>1, <1>4 DEF IndInv, CallInv, CtxInv, Active
<1>11. InStep => ResultInv'
  BY <1>1, <1>2, <1>4, <1>5 DEF IndInv, CallInv, ResultInv, Active, Sync
<1>12. InStep => DeliverInv'
  BY <1>1, <1>2, <1>4, <1>5 DEF IndInv, CallInv, DeliverInv, Active, Sync
<1> QED
  BY <1>5, <1>6, <1>7, <1>8, <1>9, <1>10, <1>11, <1>12 DEF IndInv, CallInv

(* A call takes a context that nobody uses, and the next id, or is refused. *)
LEMMA InvokeInv == ASSUME IndInv, NEW c \in Calls, Invoke(c) PROVE IndInv'
<1> USE ConnAssumption
<1>1. /\ UNCHANGED <<ready, requests, closed, status, cur, conns, torn, ires, server, rd, cpc>>
      /\ call[c].pc = "idle" /\ id' \in {id, id + 1}
  BY DEF Invoke, connVars
<1>2. PICK x \in pool \cup {c} :
        /\ errCh' = [errCh EXCEPT ![x] = Empty]
        /\ \/ /\ id + 1 <= MaxRid /\ id' = id + 1 /\ pool' = pool \ {x}
              /\ call' = [call EXCEPT ![c].pc = "add", ![c].rid = id + 1, ![c].ctx = x]
           \/ Returns(c, call[c]) /\ pool' \in {pool, pool \cup {x}}
  BY DEF Invoke, NextID, NewErrCh
<1>3. /\ call \in [Calls -> CallRecord] /\ x \in Calls /\ id \in Nat /\ id' \in Nat /\ id <= id'
      /\ call[c].rid = None /\ call[c].ctx = None /\ c \notin Pending
      /\ \A d \in Calls : Active(d) => call[d].ctx # x
      /\ \A d \in Calls \ {c} : call[d].pc = "idle" => d # x
  <2>1. call \in [Calls -> CallRecord] /\ x \in Calls /\ id \in Nat
    BY DEF IndInv, CallInv, TypeOK
  <2>2. call[c].rid = None /\ call[c].ctx = None
    BY <1>1 DEF IndInv, CallInv, PcInv
  <2>3. c \notin Pending
    BY <1>1 DEF IndInv, CallInv, RegInv, Pending
  <2>4. \A d \in Calls : Active(d) => call[d].ctx # x
    BY <1>1 DEF IndInv, CallInv, CtxInv
  <2>5. \A d \in Calls \ {c} : call[d].pc = "idle" => d # x
    BY <1>1 DEF IndInv, CallInv, CtxInv
  <2> QED
    BY <1>1, <2>1, <2>2, <2>3, <2>4, <2>5
<1>4. /\ errCh' \in [Calls -> [from : Sources, failed : BOOLEAN]] /\ errCh'[x] = Empty
      /\ \A y \in Calls \ {x} : errCh'[y] = errCh[y]
  BY <1>2, <1>3 DEF IndInv, CallInv, TypeOK, Empty, Sources
<1>5. /\ call' \in [Calls -> CallRecord] /\ \A d \in Calls \ {c} : call'[d] = call[d]
      /\ call'[c].got = call[c].got /\ call'[c].res = call[c].res /\ call'[c].cbs = call[c].cbs
      /\ \/ /\ call'[c].pc = "add" /\ call'[c].rid = id + 1 /\ call'[c].ctx = x
            /\ id + 1 \in Rids /\ id' = id + 1 /\ pool' = pool \ {x}
         \/ /\ call'[c].pc = "done" /\ call'[c].rid = None /\ call'[c].ctx = None
            /\ pool' \in {pool, pool \cup {x}}
  <2>1. CASE /\ id + 1 <= MaxRid /\ id' = id + 1 /\ pool' = pool \ {x}
             /\ call' = [call EXCEPT ![c].pc = "add", ![c].rid = id + 1, ![c].ctx = x]
    <3>1. id + 1 \in Rids
      BY <1>3, <2>1 DEF Rids
    <3>2. /\ call' \in [Calls -> CallRecord] /\ \A d \in Calls \ {c} : call'[d] = call[d]
          /\ call'[c].got = call[c].got /\ call'[c].res = call[c].res /\ call'[c].cbs = call[c].cbs
          /\ call'[c].pc = "add" /\ call'[c].rid = id + 1 /\ call'[c].ctx = x
      BY <1>3, <2>1, <3>1 DEF CallRecord
    <3> QED
      BY <2>1, <3>1, <3>2
  <2>2. CASE Returns(c, call[c]) /\ pool' \in {pool, pool \cup {x}}
    BY <1>3, <2>2, ReturnsFacts
  <2> QED
    BY <1>2, <2>1, <2>2
<1>6. TypeOK' /\ ConnInv' /\ InStep' = InStep /\ Pending' = Pending
  BY <1>1, <1>3, <1>4, <1>5 DEF IndInv, CallInv, TypeOK, ConnInv, InStep, Pending
<1>7. PcInv'
  BY <1>1, <1>3, <1>5 DEF IndInv, CallInv, PcInv, Active
<1>8. RidInv'
  <2>1. \A d \in Calls \ {c} : call[d].rid # None => call[d].rid <= id /\ call[d].rid \in Nat
    BY <1>3 DEF IndInv, CallInv, RidInv, CallRecord, Rids
  <2>2. \A d \in Calls : call'[d].rid # None => call'[d].rid <= id'
    BY <1>3, <1>5, <2>1
  <2>3. \A d, e \in Calls : call'[d].rid = call'[e].rid /\ call'[d].rid # None => d = e
    BY <1>3, <1>5, <2>1 DEF IndInv, CallInv, RidInv
  <2>4. \A s \in Rids : requests'[s] # None => s <= id'
    BY <1>1, <1>3 DEF IndInv, CallInv, RidInv, Rids
  <2>5. \A m \in server : m.rid <= id'
    BY <1>1, <1>3 DEF IndInv, CallInv, TypeOK, RidInv, Rids
  <2> QED
    BY <1>1, <2>2, <2>3, <2>4, <2>5 DEF RidInv
<1>9. RegInv'
  <2> SUFFICES ASSUME NEW s \in Rids, NEW d \in Calls, requests[s] = d
               PROVE  /\ call'[d].pc \notin {"idle", "add"} /\ call'[d].rid \in {s, None}
                      /\ \A e \in Calls : call'[e].rid = s => e = d
                      /\ \A u \in Rids : requests[u] = d => u = s
    BY <1>1 DEF RegInv
  <2>1. d # c /\ s <= id /\ s # id + 1 /\ s # None
    BY <1>3 DEF Pending, IndInv, CallInv, RidInv, Rids
  <2> QED
    BY <1>3, <1>5, <2>1 DEF IndInv, CallInv, RegInv
<1>10. MsgInv'
  <2> SUFFICES ASSUME NEW m \in server
               PROVE  /\ requests[m.rid] \in {None, m.call}
                      /\ \A d \in Calls : call'[d].rid = m.rid => d = m.call
                      /\ call'[m.call].pc \in {"wait", "copy", "expired", "done"}
    BY <1>1 DEF MsgInv
  <2>1. m.rid \in Rids /\ m.call \in Calls
    BY DEF IndInv, CallInv, TypeOK
  <2>2. m.call # c /\ m.rid # id + 1 /\ m.rid # None
    BY <1>1, <1>3, <2>1 DEF IndInv, CallInv, MsgInv, RidInv, Rids
  <2> QED
    BY <1>3, <1>5, <2>1, <2>2 DEF IndInv, CallInv, MsgInv
<1>11. CbInv'
  BY <1>1, <1>5, <1>6 DEF IndInv, CallInv, CbInv
<1>12. CtxInv'
  BY <1>1, <1>3, <1>5 DEF IndInv, CallInv, CtxInv, Active
<1>13. ASSUME InStep PROVE ResultInv' /\ DeliverInv'
  <2>1. ResultInv /\ DeliverInv
    BY <1>13 DEF IndInv
  <2>2. ResultInv'
    <3>0. \A d \in Calls \ {c} : Active(d) => call[d].ctx \in Calls \ {x}
      BY <1>3 DEF IndInv, CallInv, PcInv
    <3>1. \A d \in Sync : d \in Pending => d # c /\ call'[d].pc \in {"send", "wait", "del", "expired"}
      BY <1>3, <1>5, <2>1 DEF ResultInv, Sync
    <3>2. \A d \in Sync : call'[d].pc = "add" \/ d \in Pending => errCh'[call'[d].ctx] = Empty
      BY <1>3, <1>4, <1>5, <2>1, <3>0, <3>1 DEF ResultInv, Active, Sync
    <3>3. \A d \in Sync :
            call'[d].pc \in {"add", "send", "wait", "copy", "del", "expired"}
              /\ errCh'[call'[d].ctx] # Empty =>
            /\ errCh'[call'[d].ctx].from = d
            /\ ~errCh'[call'[d].ctx].failed => ires[call'[d].ctx] = d
      <4> SUFFICES ASSUME NEW d \in Sync, errCh'[call'[d].ctx] # Empty,
                          call'[d].pc \in {"add", "send", "wait", "copy", "del", "expired"}
                   PROVE  /\ errCh'[call'[d].ctx].from = d
                          /\ ~errCh'[call'[d].ctx].failed => ires[call'[d].ctx] = d
        OBVIOUS
      <4>1. d # c
        BY <1>4, <1>5
      <4>2. call'[d] = call[d] /\ Active(d) /\ errCh'[call[d].ctx] = errCh[call[d].ctx]
        BY <1>4, <1>5, <3>0, <4>1 DEF Active, Sync
      <4> QED
        BY <2>1, <4>2 DEF ResultInv
    <3>4. \A d \in Sync : call'[d].pc = "copy" => ires[call'[d].ctx] = d
      BY <1>5, <2>1 DEF ResultInv, Sync
    <3>5. \A d \in Calls : call'[d].got \in {None, d} /\ call'[d].res \in {None, d}
      BY <1>5, <2>1 DEF ResultInv
    <3> QED
      BY <1>1, <1>6, <3>1, <3>2, <3>3, <3>4, <3>5 DEF ResultInv, Active
  <2>3. rd.pc = "deliver" => rd.ctx # x /\ rd.msg # c
    BY <1>1, <1>3, <2>1 DEF IndInv, CallInv, CtxInv, DeliverInv, Sync
  <2>4. DeliverInv'
    BY <1>1, <1>3, <1>4, <1>5, <1>6, <2>1, <2>3 DEF DeliverInv, Active, Sync
  <2> QED
    BY <2>2, <2>4
<1> QED
  BY <1>6, <1>7, <1>8, <1>9, <1>10, <1>11, <1>12, <1>13 DEF IndInv, CallInv

-----------------------------------------------------------------------------
(* The steps of the reader that concern calls.                              *)

(* A response that finds its own call, or none, or comes out of step.       *)
LEMMA DispatchInv ==
  ASSUME IndInv, NEW r \in Rids, NEW m \in Sources, Decoding, dispatchResponse(r, m),
         server' \subseteq server,
         InStep => /\ requests[r] \in {None, m}
                   /\ requests[r] = m => call[m].pc \in {"wait", "copy", "expired", "done"}
  PROVE  IndInv'
<1> USE ConnAssumption
<1> DEFINE c == requests[r]
<1>1. /\ UNCHANGED <<ready, closed, id, status, cur, conns, torn, pool, errCh, ires, cpc>>
      /\ requests' = [requests EXCEPT ![r] = None]
      /\ rd' = IF c \in Sync THEN [pc |-> "deliver", ctx |-> call[c].ctx, msg |-> m]
               ELSE [rd EXCEPT !.pc = "decode"]
      /\ call' = IF c \in Callback THEN [call EXCEPT ![c].cbs = @ + 1] ELSE call
      /\ rd.pc = "decode"
  BY DEF dispatchResponse, Taken, Decoding, connVars, ctxVars
<1>2. call \in [Calls -> CallRecord] /\ c \in Calls \cup {None}
  BY DEF IndInv, CallInv, TypeOK
<1>3. c \in Calls => /\ c \in Pending /\ call[c].cbs = 0 /\ call[c].pc \notin {"idle", "add"}
                     /\ \A s \in Rids : requests[s] = c => s = r
  BY DEF Pending, IndInv, CallInv, CbInv, RegInv
<1>4. /\ requests' \in [Rids -> Calls \cup {None}] /\ requests'[r] = None
      /\ \A s \in Rids \ {r} : requests'[s] = requests[s]
  BY <1>1 DEF IndInv, CallInv, TypeOK
<1>5. /\ call' \in [Calls -> CallRecord] /\ \A d \in Calls \ {c} : call'[d] = call[d]
      /\ \A d \in Calls : /\ call'[d].pc = call[d].pc /\ call'[d].rid = call[d].rid
                          /\ call'[d].ctx = call[d].ctx
                          /\ call'[d].got = call[d].got /\ call'[d].res = call[d].res
      /\ c \in Calls => call'[c].cbs \in {0, 1}
  <2>1. CASE c \in Callback
    <3>1. call' = [call EXCEPT ![c].cbs = @ + 1] /\ c \in Calls
      BY <1>1, <2>1
    <3>2. call[c].cbs = 0
      BY <1>3, <3>1
    <3> QED
      BY <1>2, <3>1, <3>2 DEF CallRecord
  <2>2. CASE c \notin Callback
    BY <1>1, <1>2, <1>3, <2>2
  <2> QED
    BY <2>1, <2>2
<1>6. /\ rd' \in [pc : {"decode", "panic", "deliver", "cleanup", "redial", "dial",
                        "build", "setconn", "exit", "done"}, ctx : Calls \cup {None}, msg : Sources]
      /\ rd'.pc \in {"decode", "deliver"}
      /\ rd'.pc = "deliver" => c \in Sync /\ rd'.ctx = call[c].ctx /\ rd'.msg = m
  <2>1. CASE c \in Sync
    <3>1. rd' = [pc |-> "deliver", ctx |-> call[c].ctx, msg |-> m]
      BY <1>1, <2>1
    <3>2. call[c].ctx \in Calls \cup {None}
      BY <1>2, <2>1 DEF Sync, CallRecord
    <3> QED
      BY <2>1, <3>1, <3>2
  <2>2. CASE c \notin Sync
    <3>1. rd' = [rd EXCEPT !.pc = "decode"]
      BY <1>1, <2>2
    <3> QED
      BY <3>1 DEF IndInv, CallInv, TypeOK
  <2> QED
    BY <2>1, <2>2
<1>7. Pending' = Pending \ {c}
  BY <1>2, <1>3, <1>4 DEF Pending
<1>8. TypeOK' /\ ConnInv' /\ InStep' = InStep
  BY <1>1, <1>4, <1>5, <1>6 DEF IndInv, CallInv, TypeOK, ConnInv, InStep
<1> HIDE DEF c
<1>9. PcInv' /\ RidInv'
  BY <1>1, <1>4, <1>5 DEF IndInv, CallInv, PcInv, RidInv, Active
<1>10. RegInv'
  BY <1>1, <1>4, <1>5 DEF IndInv, CallInv, RegInv
<1>11. MsgInv'
  BY <1>1, <1>4, <1>5 DEF IndInv, CallInv, TypeOK, MsgInv
<1>12. CbInv'
  BY <1>2, <1>3, <1>5, <1>7 DEF IndInv, CallInv, CbInv
<1>13. CtxInv'
  BY <1>1, <1>5 DEF IndInv, CallInv, CtxInv, Active
<1>14. ASSUME InStep PROVE ResultInv' /\ DeliverInv'
  <2>1. ResultInv
    BY <1>14 DEF IndInv
  <2>2. ResultInv'
    BY <1>1, <1>5, <1>7, <2>1 DEF ResultInv, Active, Sync
  <2>3. ASSUME rd'.pc = "deliver"
        PROVE  /\ m = c /\ c \in Sync /\ call[c].pc \in {"wait", "expired"} /\ call[c].ctx \in Calls \ pool
               /\ \A d \in Calls : Active(d) /\ call[d].ctx = call[c].ctx => d = c
               /\ errCh[call[c].ctx] = Empty
    <3>1. c \in Sync /\ c \in Calls /\ m = c /\ c \in Pending
      BY <1>3, <1>6, <1>14, <2>3 DEF Sync, c
    <3>2. call[c].pc \in {"wait", "expired"} /\ errCh[call[c].ctx] = Empty
      BY <1>14, <2>1, <3>1 DEF ResultInv, c
    <3> QED
      BY <3>1, <3>2 DEF IndInv, CallInv, PcInv, CtxInv, Active
  <2>4. DeliverInv'
    BY <1>1, <1>5, <1>6, <1>7, <2>3 DEF DeliverInv, Active, Sync
  <2> QED
    BY <2>2, <2>4
<1> QED
  BY <1>8, <1>9, <1>10, <1>11, <1>12, <1>13, <1>14 DEF IndInv, CallInv

(* A response of the peer is dispatched.                                    *)
LEMMA ReadResponseInv == ASSUME IndInv, NEW m \in server, ReadResponse(m) PROVE IndInv'
<1>1. m.rid \in Rids /\ m.call \in Sources
  BY DEF IndInv, CallInv, TypeOK, Sources
<1>2. Decoding /\ dispatchResponse(m.rid, m.call) /\ server' \subseteq server
  BY DEF ReadResponse
<1>3. requests[m.rid] \in {None, m.call} /\ call[m.call].pc \in {"wait", "copy", "expired", "done"}
  BY DEF IndInv, CallInv, MsgInv
<1> QED
  BY <1>1, <1>2, <1>3, DispatchInv

(* Bytes that pass for a response are dispatched: the stream is out of step. *)
LEMMA ReadGarbageInv == ASSUME IndInv, NEW r \in Rids, ReadGarbage(r) PROVE IndInv'
<1>1. ~InStep /\ Garbage \in Sources
  BY DEF ReadGarbage, InStep, IndInv, CallInv, TypeOK, Sources
<1>2. Decoding /\ dispatchResponse(r, Garbage) /\ server' \subseteq server
  BY DEF ReadGarbage
<1> QED
  BY <1>1, <1>2, DispatchInv

LEMMA InvokedInv == ASSUME IndInv, Invoked PROVE IndInv'
<1> USE ConnAssumption
<1> DEFINE x == rd.ctx
           c == rd.msg
<1>1. /\ UNCHANGED <<ready, requests, closed, id, status, cur, conns, torn, call, pool, server, cpc>>
      /\ rd.pc = "deliver" /\ ires' = [ires EXCEPT ![x] = c]
      /\ errCh' = [errCh EXCEPT ![x] = [from |-> c, failed |-> FALSE]]
      /\ rd' = [pc |-> "decode", ctx |-> None, msg |-> None]
  BY DEF Invoked, connVars
<1>2. x \in Calls \cup {None} /\ c \in Sources
  BY DEF IndInv, CallInv, TypeOK
<1> HIDE DEF x, c
<1>3. /\ ires' \in [Calls -> Sources] /\ (x \in Calls => ires'[x] = c)
      /\ \A y \in Calls \ {x} : ires'[y] = ires[y]
  BY <1>1, <1>2 DEF IndInv, CallInv, TypeOK
<1>4. /\ errCh' \in [Calls -> [from : Sources, failed : BOOLEAN]]
      /\ x \in Calls => errCh'[x].from = c
      /\ \A y \in Calls \ {x} : errCh'[y] = errCh[y]
  BY <1>1, <1>2 DEF IndInv, CallInv, TypeOK
<1>5. /\ rd' \in [pc : {"decode", "panic", "deliver", "cleanup", "redial", "dial",
                        "build", "setconn", "exit", "done"}, ctx : Calls \cup {None}, msg : Sources]
      /\ rd'.pc = "decode"
  BY <1>1 DEF Sources
<1>6. TypeOK' /\ ConnInv' /\ InStep' = InStep /\ Pending' = Pending
  BY <1>1, <1>3, <1>4, <1>5 DEF IndInv, CallInv, TypeOK, ConnInv, InStep, Pending
<1>7. PcInv' /\ RidInv' /\ RegInv' /\ MsgInv'
  BY <1>1 DEF IndInv, CallInv, PcInv, RidInv, RegInv, MsgInv, Active
<1>8. CbInv' /\ CtxInv'
  BY <1>1, <1>6 DEF IndInv, CallInv, CbInv, CtxInv, Active
<1>9. ASSUME InStep PROVE ResultInv'
  <2>1. /\ ResultInv /\ x \in Calls /\ c \in Sync /\ call[c].pc \in {"wait", "expired", "done"}
        /\ c \notin Pending /\ \A d \in Calls : Active(d) /\ call[d].ctx = x => d = c
    BY <1>1, <1>9 DEF IndInv, DeliverInv, x, c
  <2>2. \A d \in Sync : /\ d \in Calls /\ (Active(d) => call[d].ctx \in Calls)
                        /\ d \in Pending => Active(d)
    BY <2>1 DEF IndInv, CallInv, PcInv, ResultInv, Active, Sync
  <2>3. \A d \in Sync : Active(d) /\ (d # c \/ d \in Pending \/ call[d].pc \in {"add", "copy"}) =>
            /\ errCh'[call[d].ctx] = errCh[call[d].ctx] /\ ires'[call[d].ctx] = ires[call[d].ctx]
    <3> SUFFICES ASSUME NEW d \in Sync, Active(d),
                        d # c \/ d \in Pending \/ call[d].pc \in {"add", "copy"}
                 PROVE  /\ errCh'[call[d].ctx] = errCh[call[d].ctx]
                        /\ ires'[call[d].ctx] = ires[call[d].ctx]
      OBVIOUS
    <3>1. call[d].ctx \in Calls \ {x}
      BY <2>1, <2>2
    <3> QED
      BY <1>3, <1>4, <3>1
  <2>4. \A d \in Sync : call[d].pc = "add" \/ d \in Pending => errCh'[call[d].ctx] = Empty
    BY <2>1, <2>2, <2>3 DEF ResultInv, Active
  <2>5. \A d \in Sync : Active(d) /\ errCh'[call[d].ctx] # Empty =>
            /\ errCh'[call[d].ctx].from = d
            /\ ~errCh'[call[d].ctx].failed => ires'[call[d].ctx] = d
    <3> SUFFICES ASSUME NEW d \in Sync, Active(d), errCh'[call[d].ctx] # Empty
                 PROVE  /\ errCh'[call[d].ctx].from = d
                        /\ ~errCh'[call[d].ctx].failed => ires'[call[d].ctx] = d
      OBVIOUS
    <3>1. CASE call[d].ctx = x
      <4>1. d = c /\ errCh'[x].from = c /\ ires'[x] = c
        BY <1>3, <1>4, <2>1, <2>2, <3>1
      <4> QED
        BY <3>1, <4>1
    <3>2. CASE call[d].ctx # x
      <4>1. errCh'[call[d].ctx] = errCh[call[d].ctx] /\ ires'[call[d].ctx] = ires[call[d].ctx]
        BY <1>3, <1>4, <2>2, <3>2
      <4> QED
        BY <2>1, <4>1 DEF ResultInv
    <3> QED
      BY <3>1, <3>2
  <2>6. \A d \in Sync : call[d].pc = "copy" => ires'[call[d].ctx] = d
    BY <2>1, <2>3 DEF ResultInv, Active
  <2> QED
    BY <1>1, <1>6, <2>1, <2>4, <2>5, <2>6 DEF ResultInv, Active
<1>10. DeliverInv'
  BY <1>5 DEF DeliverInv
<1> QED
  BY <1>6, <1>7, <1>8, <1>9, <1>10 DEF IndInv, CallInv

(* An error of the reader empties the table, and tells the calls in it.     *)
LEMMA CleanupInv == ASSUME IndInv, cleanupPendingRequests PROVE IndInv'
<1> USE ConnAssumption
<1>1. /\ UNCHANGED <<ready, closed, id, cur, conns, torn, pool, ires, server, cpc>>
      /\ requests' = [r \in Rids |-> None] /\ errCh' = Notified /\ status' = "TransientFailure"
      /\ call' = [c \in Calls |-> IF c \in Pending \cap Callback
                                 THEN [call[c] EXCEPT !.cbs = @ + 1] ELSE call[c]]
      /\ rd.pc = "cleanup" /\ rd' = [rd EXCEPT !.pc = "redial"]
  BY DEF cleanupPendingRequests, PendingCleared, At, connVars
<1>2. call \in [Calls -> CallRecord]
  BY DEF IndInv, CallInv, TypeOK
<1>3. /\ requests' \in [Rids -> Calls \cup {None}] /\ \A r \in Rids : requests'[r] = None
      /\ Pending' = {}
  BY <1>1 DEF Pending
<1>4. ASSUME NEW d \in Calls
      PROVE  /\ call'[d] \in CallRecord /\ call'[d].pc = call[d].pc /\ call'[d].rid = call[d].rid
             /\ call'[d].ctx = call[d].ctx /\ call'[d].got = call[d].got /\ call'[d].res = call[d].res
             /\ call'[d].cbs \in {0, 1} /\ (d \notin Pending => call'[d].cbs = call[d].cbs)
  <2>1. call[d].cbs \in {0, 1} /\ (d \in Pending => call[d].cbs = 0)
    BY DEF IndInv, CallInv, CbInv
  <2>2. CASE d \in Pending \cap Callback
    <3>1. call'[d] = [call[d] EXCEPT !.cbs = call[d].cbs + 1] /\ call[d].cbs = 0
      BY <1>1, <2>1, <2>2
    <3> QED
      BY <1>2, <2>2, <3>1 DEF CallRecord
  <2>3. CASE d \notin Pending \cap Callback
    <3>1. call'[d] = call[d]
      BY <1>1, <2>3
    <3> QED
      BY <1>2, <2>1, <3>1
  <2> QED
    BY <2>2, <2>3
<1>5. call' \in [Calls -> CallRecord]
  <2>1. DOMAIN call' = Calls /\ call' = [c \in Calls |-> call'[c]]
    BY <1>1
  <2> QED
    BY <1>4, <2>1
<1>6. /\ rd' \in [pc : {"decode", "panic", "deliver", "cleanup", "redial", "dial",
                        "build", "setconn", "exit", "done"}, ctx : Calls \cup {None}, msg : Sources]
      /\ rd'.pc = "redial"
  BY <1>1 DEF IndInv, CallInv, TypeOK
<1>7. ASSUME NEW x \in Calls
      PROVE  \/ /\ errCh'[x] = errCh[x]
                /\ \/ errCh[x] # Empty
                   \/ \A c \in Pending \cap Sync : call[c].ctx # x
             \/ \E c \in Pending \cap Sync :
                   call[c].ctx = x /\ errCh'[x] = [from |-> c, failed |-> TRUE]
  BY <1>1 DEF Notified
<1>8. errCh' \in [Calls -> [from : Sources, failed : BOOLEAN]]
  <2>1. DOMAIN errCh' = Calls /\ errCh' = [x \in Calls |-> errCh'[x]]
    BY <1>1 DEF Notified
  <2>2. ASSUME NEW x \in Calls PROVE errCh'[x] \in [from : Sources, failed : BOOLEAN]
    <3>1. CASE errCh'[x] = errCh[x]
      BY <3>1 DEF IndInv, CallInv, TypeOK
    <3>2. CASE \E c \in Pending \cap Sync : errCh'[x] = [from |-> c, failed |-> TRUE]
      BY <3>2 DEF Sync, Sources
    <3> QED
      BY <1>7, <3>1, <3>2
  <2> QED
    BY <2>1, <2>2
<1>9. TypeOK' /\ ConnInv' /\ InStep' = InStep
  BY <1>1, <1>3, <1>5, <1>6, <1>8 DEF IndInv, CallInv, TypeOK, Statuses, ConnInv, InStep
<1>10. PcInv' /\ RidInv'
  BY <1>1, <1>3, <1>4 DEF IndInv, CallInv, PcInv, RidInv, Active
<1>11. RegInv'
  BY <1>3 DEF RegInv
<1>12. MsgInv'
  BY <1>1, <1>3, <1>4 DEF IndInv, CallInv, TypeOK, MsgInv
<1>13. CbInv'
  <2>1. \A d \in Calls : call[d].pc \in {"idle", "add"} => d \notin Pending /\ call[d].cbs = 0
    BY DEF IndInv, CallInv, CbInv, RegInv, Pending
  <2> QED
    BY <1>3, <1>4, <2>1 DEF CbInv
<1>14. CtxInv'
  BY <1>1, <1>4 DEF IndInv, CallInv, CtxInv, Active
<1>15. ASSUME InStep PROVE ResultInv'
  <2>1. ResultInv
    BY <1>15 DEF IndInv
  <2>2. \A d \in Sync : /\ d \in Calls /\ (Active(d) => call[d].ctx \in Calls)
                        /\ (d \in Pending => Active(d) /\ call[d].pc # "add")
    BY <2>1 DEF IndInv, CallInv, PcInv, ResultInv, Active, Sync
  <2>3. \A c, d \in Sync : c \in Pending /\ Active(d) /\ call[c].ctx = call[d].ctx => c = d
    BY <2>2 DEF IndInv, CallInv, CtxInv
  <2>4. \A d \in Sync : call[d].pc = "add" => errCh'[call[d].ctx] = Empty
    <3> SUFFICES ASSUME NEW d \in Sync, call[d].pc = "add" PROVE errCh'[call[d].ctx] = Empty
      OBVIOUS
    <3>1. Active(d) /\ call[d].ctx \in Calls /\ errCh[call[d].ctx] = Empty
      BY <2>1, <2>2 DEF Active, ResultInv
    <3>2. \A c \in Pending \cap Sync : call[c].ctx # call[d].ctx
      BY <2>2, <2>3, <3>1
    <3> QED
      BY <1>7, <3>1, <3>2
  <2>5. \A d \in Sync : Active(d) /\ errCh'[call[d].ctx] # Empty =>
            /\ errCh'[call[d].ctx].from = d
            /\ ~errCh'[call[d].ctx].failed => ires[call[d].ctx] = d
    <3> SUFFICES ASSUME NEW d \in Sync, Active(d), errCh'[call[d].ctx] # Empty
                 PROVE  /\ errCh'[call[d].ctx].from = d
                        /\ ~errCh'[call[d].ctx].failed => ires[call[d].ctx] = d
      OBVIOUS
    <3>1. call[d].ctx \in Calls
      BY <2>2
    <3>2. CASE errCh'[call[d].ctx] = errCh[call[d].ctx]
      BY <2>1, <3>2 DEF ResultInv
    <3>3. ASSUME NEW c \in Pending \cap Sync, call[c].ctx = call[d].ctx,
                 errCh'[call[d].ctx] = [from |-> c, failed |-> TRUE]
          PROVE  errCh'[call[d].ctx].from = d /\ errCh'[call[d].ctx].failed
      BY <2>3, <3>3
    <3> QED
      BY <1>7, <3>1, <3>2, <3>3
  <2> QED
    BY <1>1, <1>3, <1>4, <2>1, <2>2, <2>4, <2>5 DEF ResultInv, Active
<1>16. DeliverInv'
  BY <1>6 DEF DeliverInv
<1> QED
  BY <1>9, <1>10, <1>11, <1>12, <1>13, <1>14, <1>15, <1>16 DEF IndInv, CallInv

-----------------------------------------------------------------------------
LEMMA NextInv == ASSUME IndInv, [Next]_vars PROVE IndInv'
<1>1. CASE NewClientConnBOLT \/ ReadRequest \/ Deadline \/ ReadFails \/ Close
  BY <1>1, OutsideInv
<1>2. CASE \E c \in Calls : Invoke(c) \/ CallStep(c) \/ Timeout(c)
  BY <1>2, InvokeInv, AddRequestContextInv, SendInv, GotoInv, DelRequestContextInv, ReceiveInv,
     CopyResponseInv DEF CallStep
<1>3. CASE \E m \in server : ReadResponse(m)
  BY <1>3, ReadResponseInv
<1>4. CASE \E r \in Rids : ReadGarbage(r)
  BY <1>4, ReadGarbageInv
<1>5. CASE ReadStep \/ CloseConn
  BY <1>5, InvokedInv, CleanupInv, ConnStepsInv DEF ReadStep
<1>6. CASE UNCHANGED vars
  <2>1. /\ UNCHANGED <<requests, id, call, pool, errCh, ires, server, rd, torn>>
        /\ UNCHANGED <<ready, closed, status, cur, conns, cpc>>
    BY <1>6 DEF vars, connVars, ctxVars
  <2>2. TypeOK' /\ ConnInv' /\ InStep' = InStep
    BY <2>1 DEF IndInv, CallInv, TypeOK, ConnInv, InStep
  <2> QED
    BY <2>1, <2>2, QuietInv DEF IndInv, CallInv
<1> QED
  BY <1>1, <1>2, <1>3, <1>4, <1>5, <1>6 DEF Next

(* Ids, registrations, contexts, channels and connections belong together   *)
(* as IndInv says, in every state of the client (clinetconn.go,             *)
(* clientx_bolt.go).                                                        *)
THEOREM IndInvHolds == Spec => []IndInv
<1>1. Init => IndInv
  BY InitInv
<1>2. IndInv /\ [Next]_vars => IndInv'
  BY NextInv
<1> QED
  BY <1>1, <1>2, PTL DEF Spec

(* Every variable of the client keeps its type.                             *)
THEOREM TypeCorrect == Spec => []TypeOK
<1>1. IndInv => TypeOK
  BY DEF IndInv, CallInv
<1> QED
  BY <1>1, IndInvHolds, PTL

(* As long as no deadline has cut a message in two, a call gets its own     *)
(* response and never another's, although contexts and channels are used    *)
(* again, calls time out and connections are replaced                       *)
(* (clientx_bolt.go:138-147, 173-187, 213-241).                             *)
THEOREM OwnResponseHolds == Spec => []OwnResponse
<1>1. IndInv => OwnResponse
  BY DEF IndInv, OwnResponse, ResultInv
<1> QED
  BY <1>1, IndInvHolds, PTL

(* Response, garbage and any number of the reader's errors together invoke  *)
(* a callback at most once (clientx_bolt.go:102-106, 252).                  *)
THEOREM CalledBackOnceHolds == Spec => []CalledBackOnce
<1>1. IndInv => CalledBackOnce
  <2> SUFFICES ASSUME IndInv, NEW c \in Calls PROVE call[c].cbs <= 1
    BY DEF CalledBackOnce
  <2>1. call[c].cbs \in {0, 1}
    BY DEF IndInv, CallInv, CbInv
  <2> QED
    BY <2>1
<1> QED
  BY <1>1, IndInvHolds, PTL

(* A reader that has shut down leaves no connection that it ever used open, *)
(* however often it dialled again and whenever Close came                   *)
(* (clinetconn.go:253-257, 267, 194).                                       *)
THEOREM UsedConnsClosedHolds == Spec => []UsedConnsClosed
<1>1. IndInv => UsedConnsClosed
  <2> SUFFICES ASSUME IndInv, status = "Shutdown", NEW k \in 0 .. cur PROVE conns[k] = "closed"
    BY DEF UsedConnsClosed
  <2>1. k \in Conns /\ (k < cur \/ k = cur)
    BY ConnAssumption DEF IndInv, CallInv, TypeOK, Conns
  <2> QED
    BY <2>1 DEF IndInv, ConnInv
<1> QED
  BY <1>1, IndInvHolds, PTL

=============================================================================
