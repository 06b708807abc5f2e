------------------------------- MODULE Client -------------------------------
(***************************************************************************)
(* sofabolt/client.go: concurrent calls multiplexed over one connection.   *)
(*                                                                         *)
(* Every call is a goroutine of its own inside Do, DoTimeout or DoCallback; *)
(* one goroutine runs doread.  Their atomic steps are the critical sections *)
(* of the client's mutex, the atomic loads and stores, the channel          *)
(* operations and the reads and writes of the connection.  User code        *)
(* (callbacks and the client's own handler) runs on the reader's goroutine  *)
(* and may issue calls itself.                                              *)
(*                                                                         *)
(* Payloads are abstracted to the call a message belongs to; the metrics    *)
(* are left out.  The reader's local conn always equals the client's, and   *)
(* its crw and bufio reader carry no state that matters here.               *)
(***************************************************************************)
EXTENDS Integers, FiniteSets

CONSTANTS
  Calls,          \* the calls made on this client during its life
  None,           \* Go's nil
  Callback,       \* the calls made with DoCallback; the others use Do
  OneWay,         \* the calls whose request is one-way
  Timed,          \* the calls of DoTimeout with a timeout other than 0
  NotRequest,     \* the calls whose command is not a request
  Malformed,      \* the calls whose command cannot be encoded
  RidSpace,       \* number of request ids (2^32 in the code)
  AutoIncrement,  \* ~options.disableAutoIncrementRequestID
  UserRid,        \* the ids the callers chose when AutoIncrement is off
  HasDialer,      \* options.dialer # nil
  UserCloses,     \* whether a user calls Close
  MaxDials,       \* bound on the connections dialled after the first one
  AnswersOneWay,  \* the peer's handlers answer one-way requests as well
  NestedIn,       \* the call that the callback of a call issues, or None
  HandlerCalls    \* the calls the client's handler issues

Rids  == 0 .. RidSpace - 1
Conns == 0 .. MaxDials

ASSUME ConstantsAssumption ==
  /\ IsFiniteSet(Calls)
  /\ None \notin Calls /\ None \notin Rids
  /\ Callback \subseteq Calls /\ OneWay \subseteq Calls /\ Timed \subseteq Calls
  /\ NotRequest \subseteq Calls /\ Malformed \subseteq Calls
  /\ RidSpace \in Nat \ {0} /\ MaxDials \in Nat
  /\ {AutoIncrement, HasDialer, UserCloses, AnswersOneWay} \subseteq BOOLEAN
  /\ UserRid \in [Calls -> Rids]
  /\ NestedIn \in [Calls -> Calls \cup {None}]
  /\ HandlerCalls \subseteq Calls

(* An InvokeContext is named after the call that allocated it.              *)
Ctxs   == Calls
Sync   == Calls \ Callback
Nested == HandlerCalls \cup {NestedIn[c] : c \in Calls}

(* What a channel errCh of capacity 1 holds: nothing, or an error value and *)
(* the call it was sent for.                                                *)
Result  == [from : Calls, failed : BOOLEAN]
(* A registered InvokeContext and the call that registered it.              *)
Entry   == [ctx : Ctxs, call : Calls]
(* A request that has reached the peer and is not answered yet.             *)
Message == [conn : Conns, rid : Rids, call : Calls]

VARIABLES
  closed, rerr, crid, requests,                \* the Client
  cur, connState,                              \* its connections
  pc, rid, ctx, wconn, out, got, resp, cbs,    \* the calls
  pool, errCh, ires,                           \* the InvokeContexts
  server,                                      \* the peer
  rpc, rent, rmsg, ruser, rback, rtodo,        \* doread
  cpc                                          \* a caller of Close

clientVars == <<closed, rerr, crid, requests>>
connVars   == <<cur, connState>>
callVars   == <<pc, rid, ctx, wconn, out, got, resp, cbs>>
ctxVars    == <<pool, errCh, ires>>
readVars   == <<rpc, rent, rmsg, ruser, rback, rtodo>>
vars == <<clientVars, connVars, callVars, ctxVars, server, readVars, cpc>>

CallPC   == {"idle", "check", "alloc", "add", "getconn", "write", "del", "wait",
             "copy", "return", "done"}
Outcome  == {"none", "ok", "closed", "readerr", "notrequest", "malformed",
             "writeerr", "failed", "timeout"}
ReadPC   == {"read", "callback", "assign", "send", "blocked", "orphan", "user",
             "cleanup", "redial", "dial", "build", "closeold", "setconn",
             "exit", "exitclose", "store", "done"}
ConnState == {"none", "open", "broken", "closed", "error"}

TypeOK ==
  /\ closed \in BOOLEAN /\ rerr \in BOOLEAN /\ crid \in Rids
  /\ requests \in [Rids -> Entry \cup {None}]
  /\ cur \in Conns /\ connState \in [Conns -> ConnState]
  /\ pc \in [Calls -> CallPC] /\ out \in [Calls -> Outcome]
  /\ rid \in [Calls -> Rids \cup {None}] /\ ctx \in [Calls -> Ctxs \cup {None}]
  /\ wconn \in [Calls -> Conns]
  /\ got \in [Calls -> Calls \cup {None}] /\ resp \in [Calls -> Calls \cup {None}]
  /\ cbs \in [Calls -> Nat]
  /\ pool \subseteq Ctxs
  /\ errCh \in [Ctxs -> Result \cup {None}] /\ ires \in [Ctxs -> Calls \cup {None}]
  /\ server \subseteq Message
  /\ rpc \in ReadPC
  /\ rent \in Entry \cup {None} /\ rmsg \in Calls \cup {None}
  /\ ruser \in Calls \cup {None} /\ rback \in {"read", "cleanup"}
  /\ rtodo \subseteq Rids
  /\ cpc \in {"no", "close", "done"}

(* NewClient and polyfill: the first connection is given, or dialled; a     *)
(* dial that fails leaves an errorconn, on which every operation fails.     *)
Init ==
  /\ closed = FALSE /\ rerr = FALSE /\ crid = 0
  /\ requests = [r \in Rids |-> None]
  /\ cur = 0
  /\ \E s \in {"open"} \cup (IF HasDialer THEN {"error"} ELSE {}) :
        connState = [k \in Conns |-> IF k = 0 THEN s ELSE "none"]
  /\ pc = [c \in Calls |-> "idle"] /\ out = [c \in Calls |-> "none"]
  /\ rid = [c \in Calls |-> None] /\ ctx = [c \in Calls |-> None]
  /\ wconn = [c \in Calls |-> 0]
  /\ got = [c \in Calls |-> None] /\ resp = [c \in Calls |-> None]
  /\ cbs = [c \in Calls |-> 0]
  /\ pool = {}
  /\ errCh = [x \in Ctxs |-> None] /\ ires = [x \in Ctxs |-> None]
  /\ server = {}
  /\ rpc = "read" /\ rent = None /\ rmsg = None
  /\ ruser = None /\ rback = "read" /\ rtodo = {}
  /\ cpc = "no"

(* The client's mutex is held across steps by the cleanup of doread only,   *)
(* and stays held while a callback that the cleanup invokes runs.           *)
Locked == rpc = "cleanup" \/ (rpc = "user" /\ rback = "cleanup")

(* Call c goes on at p; it returns r from invoke.                           *)
Goto(c, p)    == pc' = [pc EXCEPT ![c] = p]
Decide(c, r)  == out' = [out EXCEPT ![c] = r]

-----------------------------------------------------------------------------
(* The steps of a call.                                                     *)

(* Who may start call c: any caller at any time, or, for a nested call, the *)
(* user code that runs on the reader's goroutine.                           *)
MayStart(c) == pc[c] = "idle" /\ (c \in Nested => rpc = "user" /\ ruser = c)

(* The reader blocked on a full errCh stays blocked on it when the context  *)
(* is given a new one.                                                      *)
Abandon(x) == IF rpc = "blocked" /\ rent.ctx = x THEN "orphan" ELSE rpc

(* DoCallbackTimeout: the context is never pooled.                          *)
BeginCallback(c) ==
  /\ MayStart(c) /\ c \in Callback
  /\ ctx' = [ctx EXCEPT ![c] = c]
  /\ Goto(c, "check")
  /\ UNCHANGED <<clientVars, connVars, rid, wconn, out, got, resp, cbs, pool, errCh,
                 ires, server, readVars, cpc>>

(* Mutant: a pooled context keeps the channel it has, full or not.          *)
SameErrCh(x) == errCh

(* AcquireInvokeContext: a context whose errCh is full gets a new channel.  *)
NewErrCh(x) == [errCh EXCEPT ![x] = None]

(* DoTimeout up to invoke, with AcquireInvokeContext: sync.Pool hands out   *)
(* any pooled context or a new one.                                         *)
Begin(c) ==
  /\ MayStart(c) /\ c \in Sync
  /\ \E x \in pool \cup {c} :
        /\ ctx' = [ctx EXCEPT ![c] = x]
        /\ pool' = pool \ {x}
        /\ errCh' = NewErrCh(x)
        /\ rpc' = Abandon(x)
  /\ Goto(c, "check")
  /\ UNCHANGED <<clientVars, connVars, rid, wconn, out, got, resp, cbs, ires, server,
                 rent, rmsg, ruser, rback, rtodo, cpc>>

(* invoke: the checks that precede the request id.                          *)
CheckClosed(c) ==
  /\ pc[c] = "check"
  /\ IF closed THEN Goto(c, "return") /\ Decide(c, "closed")
               ELSE Goto(c, "alloc") /\ UNCHANGED out
  /\ UNCHANGED <<clientVars, connVars, rid, ctx, wconn, got, resp, cbs, ctxVars, server,
                 readVars, cpc>>

Refuse(c) ==
  /\ pc[c] = "alloc" /\ (rerr \/ c \in NotRequest)
  /\ Goto(c, "return")
  /\ Decide(c, IF rerr THEN "readerr" ELSE "notrequest")
  /\ UNCHANGED <<clientVars, connVars, rid, ctx, wconn, got, resp, cbs, ctxVars, server,
                 readVars, cpc>>

(* Mutant: the counter does not wrap.                                       *)
UnboundedRid == crid + 1

(* atomic.AddUint32(&c.rid, 1).                                             *)
NextRid == (crid + 1) % RidSpace

(* The request id, a uint32 that wraps, and the encoding of the request.    *)
AllocRid(c) ==
  /\ pc[c] = "alloc" /\ ~rerr /\ c \notin NotRequest
  /\ IF AutoIncrement
     THEN /\ crid' = NextRid
          /\ rid' = [rid EXCEPT ![c] = NextRid]
     ELSE /\ crid' = crid
          /\ rid' = [rid EXCEPT ![c] = UserRid[c]]
  /\ IF c \in Malformed THEN Goto(c, "return") /\ Decide(c, "malformed")
                        ELSE Goto(c, "add") /\ UNCHANGED out
  /\ UNCHANGED <<closed, rerr, requests, connVars, ctx, wconn, got, resp, cbs, ctxVars,
                 server, readVars, cpc>>

(* addRequestContext: replaces an entry with the same id.                   *)
AddRequestContext(c) ==
  /\ pc[c] = "add" /\ ~Locked
  /\ requests' = [requests EXCEPT ![rid[c]] = [ctx |-> ctx[c], call |-> c]]
  /\ Goto(c, "getconn")
  /\ UNCHANGED <<closed, rerr, crid, connVars, rid, ctx, wconn, out, got, resp, cbs,
                 ctxVars, server, readVars, cpc>>

GetConn(c) ==
  /\ pc[c] = "getconn"
  /\ wconn' = [wconn EXCEPT ![c] = cur]
  /\ Goto(c, "write")
  /\ UNCHANGED <<clientVars, connVars, rid, ctx, out, got, resp, cbs, ctxVars, server,
                 readVars, cpc>>

(* A write to a connection the peer has left may still succeed locally.     *)
WriteOk(c) ==
  /\ pc[c] = "write" /\ connState[wconn[c]] \in {"open", "broken"}
  /\ server' = IF connState[wconn[c]] = "open" /\ (c \in OneWay => AnswersOneWay)
               THEN server \cup {[conn |-> wconn[c], rid |-> rid[c], call |-> c]}
               ELSE server
  /\ IF c \in OneWay THEN Goto(c, "del") /\ Decide(c, "ok")
     ELSE IF c \in Callback THEN Goto(c, "return") /\ Decide(c, "ok")
     ELSE Goto(c, "wait") /\ UNCHANGED out
  /\ UNCHANGED <<clientVars, connVars, rid, ctx, wconn, got, resp, cbs, ctxVars,
                 readVars, cpc>>

WriteFails(c) ==
  /\ pc[c] = "write"
  /\ Goto(c, "del") /\ Decide(c, "writeerr")
  /\ UNCHANGED <<clientVars, connVars, rid, ctx, wconn, got, resp, cbs, ctxVars, server,
                 readVars, cpc>>

(* Mutant: the entry stays registered.                                      *)
KeepEntry(c) == requests

(* delRequestContext.                                                       *)
DropEntry(c) == [requests EXCEPT ![rid[c]] = None]

(* delRequestContext after a failed write, a one-way request, a timeout.    *)
DelRequestContext(c) ==
  /\ pc[c] = "del" /\ ~Locked
  /\ requests' = DropEntry(c)
  /\ Goto(c, "return")
  /\ UNCHANGED <<closed, rerr, crid, connVars, rid, ctx, wconn, out, got, resp, cbs,
                 ctxVars, server, readVars, cpc>>

(* The receive on errCh: a sender blocked on the channel takes the place    *)
(* that becomes free.                                                       *)
Receive(c) ==
  /\ pc[c] = "wait" /\ errCh[ctx[c]] # None
  /\ got' = [got EXCEPT ![c] = errCh[ctx[c]].from]
  /\ IF errCh[ctx[c]].failed THEN Goto(c, "return") /\ Decide(c, "failed")
                             ELSE Goto(c, "copy") /\ UNCHANGED out
  /\ IF rpc = "blocked" /\ rent.ctx = ctx[c]
     THEN /\ errCh' = [errCh EXCEPT ![ctx[c]] = [from |-> rmsg, failed |-> FALSE]]
          /\ rpc' = "read" /\ rent' = None /\ rmsg' = None
     ELSE /\ errCh' = [errCh EXCEPT ![ctx[c]] = None]
          /\ UNCHANGED <<rpc, rent, rmsg>>
  /\ UNCHANGED <<clientVars, connVars, rid, ctx, wconn, resp, cbs, pool, ires,
                 server, ruser, rback, rtodo, cpc>>

(* ctx.ires.CopyTo(ctx.res), under ireslock.                                *)
CopyResponse(c) ==
  /\ pc[c] = "copy"
  /\ resp' = [resp EXCEPT ![c] = ires[ctx[c]]]
  /\ Goto(c, "return") /\ Decide(c, "ok")
  /\ UNCHANGED <<clientVars, connVars, rid, ctx, wconn, got, cbs, ctxVars, server,
                 readVars, cpc>>

(* Mutant: invoke gets the timeout 0 that DoCallbackTimeout gives it.       *)
NeverExpires(c) == FALSE

(* The call has a timer of its own.                                         *)
Expires(c) == c \in Timed

(* The timer wins the select, whether or not errCh is ready too.            *)
Timeout(c) ==
  /\ pc[c] = "wait" /\ Expires(c)
  /\ Goto(c, "del") /\ Decide(c, "timeout")
  /\ UNCHANGED <<clientVars, connVars, rid, ctx, wconn, got, resp, cbs, ctxVars, server,
                 readVars, cpc>>

(* Mutant: the context is released after a timeout as well.                 *)
RecyclesAlways(c) == c \in Sync

(* Whether the call hands its context to ReleaseInvokeContext.              *)
Recycles(c) == c \in Sync /\ out[c] # "timeout"

(* The end of DoTimeout (ReleaseInvokeContext unless the call timed out)    *)
(* and of DoCallbackTimeout.                                                *)
Finish(c) ==
  /\ pc[c] = "return"
  /\ Goto(c, "done")
  /\ pool' = IF Recycles(c) THEN pool \cup {ctx[c]} ELSE pool
  /\ UNCHANGED <<clientVars, connVars, rid, ctx, wconn, out, got, resp, cbs,
                 errCh, ires, server, readVars, cpc>>

-----------------------------------------------------------------------------
(* The steps of doread.                                                     *)

(* User code returns, or issues call n and returns when n has.              *)
RunUser(n, back) ==
  \/ /\ n # None /\ pc[n] = "idle"
     /\ rpc' = "user" /\ ruser' = n /\ rback' = back
  \/ rpc' = back /\ UNCHANGED <<ruser, rback>>

(* Mutant: the context is looked up and stays registered.                   *)
NotTaken(m) == requests

(* getAndDelRequestContext.                                                 *)
Taken(m) == [requests EXCEPT ![m.rid] = None]

(* A response is read and matched with getAndDelRequestContext.  What bufio *)
(* holds is still read after the connection is closed.                      *)
ReadResponse(m) ==
  /\ rpc = "read" /\ m.conn = cur
  /\ server' = server \ {m}
  /\ IF requests[m.rid] = None
     THEN UNCHANGED <<requests, rpc, rent, rmsg>>
     ELSE /\ requests' = Taken(m)
          /\ rent' = requests[m.rid] /\ rmsg' = m.call
          /\ rpc' = IF requests[m.rid].call \in Callback THEN "callback" ELSE "assign"
  /\ UNCHANGED <<closed, rerr, crid, connVars, callVars, ctxVars, ruser, rback, rtodo,
                 cpc>>

(* InvokeContext.Invoke, with a callback.                                   *)
RunCallback ==
  /\ rpc = "callback"
  /\ cbs' = [cbs EXCEPT ![rent.call] = @ + 1]
  /\ RunUser(NestedIn[rent.call], "read")
  /\ rent' = None /\ rmsg' = None
  /\ UNCHANGED <<clientVars, connVars, pc, rid, ctx, wconn, out, got, resp, ctxVars,
                 server, rtodo, cpc>>

(* Mutant: the sender is notified and nothing assigned.                     *)
NotAssigned == ires

(* AssignResponse, under ireslock.                                          *)
Assigned == [ires EXCEPT ![rent.ctx] = rmsg]

(* InvokeContext.Invoke, without: AssignResponse, then the send on errCh.   *)
AssignResponse ==
  /\ rpc = "assign"
  /\ ires' = Assigned
  /\ rpc' = "send"
  /\ UNCHANGED <<clientVars, connVars, callVars, pool, errCh, server, rent, rmsg,
                 ruser, rback, rtodo, cpc>>

SendResult ==
  /\ rpc = "send" /\ errCh[rent.ctx] = None
  /\ errCh' = [errCh EXCEPT ![rent.ctx] = [from |-> rmsg, failed |-> FALSE]]
  /\ rpc' = "read" /\ rent' = None /\ rmsg' = None
  /\ UNCHANGED <<clientVars, connVars, callVars, pool, ires, server, ruser, rback,
                 rtodo, cpc>>

SendBlocks ==
  /\ rpc = "send" /\ errCh[rent.ctx] # None
  /\ rpc' = "blocked"
  /\ UNCHANGED <<clientVars, connVars, callVars, ctxVars, server, rent, rmsg, ruser,
                 rback, rtodo, cpc>>

(* handleRequest: the peer's request, and a handler that issues call h.     *)
ReadRequest(h) ==
  /\ rpc = "read" /\ h \in HandlerCalls /\ pc[h] = "idle"
  /\ RunUser(h, "read")
  /\ UNCHANGED <<clientVars, connVars, callVars, ctxVars, server, rent, rmsg, rtodo, cpc>>

UserReturns ==
  /\ rpc = "user" /\ pc[ruser] = "done"
  /\ rpc' = rback /\ ruser' = None
  /\ UNCHANGED <<clientVars, connVars, callVars, ctxVars, server, rent, rmsg, rback,
                 rtodo, cpc>>

(* The read fails: the connection is gone, a deadline passed or the input   *)
(* is not a command.  The cleanup takes the client's mutex.                 *)
ReadFails ==
  /\ rpc = "read"
  /\ rpc' = "cleanup"
  /\ rtodo' = {r \in Rids : requests[r] # None}
  /\ UNCHANGED <<clientVars, connVars, callVars, ctxVars, server, rent, rmsg, ruser,
                 rback, cpc>>

(* Mutant: the cleanup skips contexts without a callback.                   *)
NotNotified(e) == errCh

(* sanity send: only into a channel that has room.                          *)
Notified(e) == IF errCh[e.ctx] = None
               THEN [errCh EXCEPT ![e.ctx] = [from |-> e.call, failed |-> TRUE]]
               ELSE errCh

(* Cleanup of one context: its callback, or a send that never blocks.       *)
CleanupOne(r) ==
  LET e == requests[r] IN
  /\ rpc = "cleanup" /\ r \in rtodo
  /\ rtodo' = rtodo \ {r}
  /\ IF e.call \in Callback
     THEN /\ cbs' = [cbs EXCEPT ![e.call] = @ + 1]
          /\ RunUser(NestedIn[e.call], "cleanup")
          /\ UNCHANGED errCh
     ELSE /\ errCh' = Notified(e)
          /\ UNCHANGED <<cbs, rpc, ruser, rback>>
  /\ UNCHANGED <<clientVars, connVars, pc, rid, ctx, wconn, out, got, resp, pool,
                 ires, server, rent, rmsg, cpc>>

(* clear the pending requests.                                              *)
PendingCleared == [r \in Rids |-> None]

(* The loop that deletes every id, and the release of the mutex.            *)
CleanupEnd ==
  /\ rpc = "cleanup" /\ rtodo = {}
  /\ requests' = PendingCleared
  /\ rpc' = "redial"
  /\ UNCHANGED <<closed, rerr, crid, connVars, callVars, ctxVars, server, rent, rmsg,
                 ruser, rback, rtodo, cpc>>

(* mayRedial and the head of the loop of redial.                            *)
MayRedial ==
  /\ rpc = "redial"
  /\ rpc' = IF closed \/ ~HasDialer THEN "exit" ELSE "dial"
  /\ UNCHANGED <<clientVars, connVars, callVars, ctxVars, server, rent, rmsg, ruser,
                 rback, rtodo, cpc>>

DialFails ==
  /\ rpc = "dial"
  /\ rpc' = "redial"
  /\ UNCHANGED <<clientVars, connVars, callVars, ctxVars, server, rent, rmsg, ruser,
                 rback, rtodo, cpc>>

(* The connection dialled next is cur + 1.                                  *)
DialOk ==
  /\ rpc = "dial" /\ cur < MaxDials
  /\ connState' = [connState EXCEPT ![cur + 1] = "open"]
  /\ rpc' = "build"
  /\ UNCHANGED <<clientVars, cur, callVars, ctxVars, server, rent, rmsg, ruser, rback,
                 rtodo, cpc>>

(* buildAsyncWriteConn; its error leaves the new connection open.           *)
BuildAsyncWriteConn ==
  /\ rpc = "build"
  /\ rpc' \in {"closeold", "exit"}
  /\ UNCHANGED <<clientVars, connVars, callVars, ctxVars, server, rent, rmsg, ruser,
                 rback, rtodo, cpc>>

CloseOld ==
  /\ rpc = "closeold"
  /\ connState' = [connState EXCEPT ![cur] = "closed"]
  /\ rpc' = "setconn"
  /\ UNCHANGED <<clientVars, cur, callVars, ctxVars, server, rent, rmsg, ruser, rback,
                 rtodo, cpc>>

SetConn ==
  /\ rpc = "setconn"
  /\ cur' = cur + 1
  /\ rpc' = "read"
  /\ UNCHANGED <<clientVars, connState, callVars, ctxVars, server, rent, rmsg, ruser,
                 rback, rtodo, cpc>>

(* The Close at the end of doread: the swap of closed, then the connection. *)
ExitClose ==
  /\ rpc = "exit"
  /\ closed' = TRUE
  /\ rpc' = IF closed THEN "store" ELSE "exitclose"
  /\ UNCHANGED <<rerr, crid, requests, connVars, callVars, ctxVars, server, rent, rmsg,
                 ruser, rback, rtodo, cpc>>

ExitCloseConn ==
  /\ rpc = "exitclose"
  /\ connState' = [connState EXCEPT ![cur] = "closed"]
  /\ rpc' = "store"
  /\ UNCHANGED <<clientVars, cur, callVars, ctxVars, server, rent, rmsg, ruser, rback,
                 rtodo, cpc>>

(* The read error is stored; rerrCh has room for it.                        *)
StoreError ==
  /\ rpc = "store"
  /\ rerr' = TRUE
  /\ rpc' = "done"
  /\ UNCHANGED <<closed, crid, requests, connVars, callVars, ctxVars, server, rent, rmsg,
                 ruser, rback, rtodo, cpc>>

-----------------------------------------------------------------------------
(* Close, called by the user: once more has no effect.                      *)
Close ==
  /\ UserCloses /\ cpc = "no" /\ ~closed
  /\ closed' = TRUE /\ cpc' = "close"
  /\ UNCHANGED <<rerr, crid, requests, connVars, callVars, ctxVars, server, readVars>>

(* Mutant: the flag is set and the connection left alone.                   *)
ConnLeftOpen == connState

(* c.getConn().Close().                                                     *)
ConnClosed == [connState EXCEPT ![cur] = "closed"]

CloseConn ==
  /\ cpc = "close"
  /\ connState' = ConnClosed
  /\ cpc' = "done"
  /\ UNCHANGED <<clientVars, cur, callVars, ctxVars, server, readVars>>

(* The peer or the network ends the connection.                             *)
Break ==
  /\ connState[cur] = "open"
  /\ connState' = [connState EXCEPT ![cur] = "broken"]
  /\ UNCHANGED <<clientVars, cur, callVars, ctxVars, server, readVars, cpc>>

-----------------------------------------------------------------------------
(* What the goroutine of call c does without waiting for anyone's decision. *)
CallStep(c) ==
  \/ CheckClosed(c) \/ Refuse(c) \/ AllocRid(c) \/ AddRequestContext(c)
  \/ GetConn(c) \/ WriteOk(c) \/ WriteFails(c) \/ DelRequestContext(c)
  \/ Receive(c) \/ CopyResponse(c) \/ Finish(c)

(* What the reader's goroutine does by itself.                              *)
ReadStep ==
  \/ RunCallback \/ AssignResponse \/ SendResult \/ SendBlocks \/ UserReturns
  \/ \E r \in Rids : CleanupOne(r)
  \/ CleanupEnd \/ MayRedial \/ DialFails \/ DialOk \/ BuildAsyncWriteConn
  \/ CloseOld \/ SetConn \/ ExitClose \/ ExitCloseConn \/ StoreError

Next ==
  \/ \E c \in Calls : Begin(c) \/ BeginCallback(c) \/ CallStep(c) \/ Timeout(c)
  \/ \E m \in server : ReadResponse(m)
  \/ \E h \in Calls : ReadRequest(h)
  \/ ReadFails \/ ReadStep \/ Close \/ CloseConn \/ Break

Spec == Init /\ [][Next]_vars

(* Goroutines that can run do run, timers fire, a read on a connection that *)
(* is no longer open fails in the end, and user code issues the call it is  *)
(* about to issue.  Nothing forces callers to start calls, the peer to      *)
(* answer or to leave, an open connection to fail or a dial to succeed.     *)
Fairness ==
  /\ \A c \in Calls : WF_vars(CallStep(c)) /\ WF_vars(Timeout(c))
  /\ \A c \in Nested \cap Calls : WF_vars(Begin(c) \/ BeginCallback(c))
  /\ WF_vars(ReadStep)
  /\ WF_vars(connState[cur] # "open" /\ ReadFails)
  /\ WF_vars(CloseConn)

FairSpec == Spec /\ Fairness

-----------------------------------------------------------------------------
(* A call receives on errCh only what was sent for it, and copies out only  *)
(* the response to its own request: contexts and their channels are reused  *)
(* by later calls while the reader may still hold them (client.go:198-202,  *)
(* 473-480; syncpool.go:65).                                                *)
OwnResult == \A c \in Calls : got[c] \in {None, c} /\ resp[c] \in {None, c}

(* A two-way call that ends without an error has the response to its own    *)
(* request: neither nothing nor what an earlier user of the context left in *)
(* ires (client.go:455-493, invoke_context.go:63-68).                       *)
OkHasResponse ==
  \A c \in Sync \ OneWay : pc[c] = "done" /\ out[c] = "ok" => resp[c] = c

(* The callback of a call runs at most once, be it for the response or in   *)
(* the cleanup (client.go:302, 359; invoke_context.go:77).                  *)
CallbackOnce == \A c \in Calls : cbs[c] <= 1

(* A registered context that the reader may still deliver to.  During the   *)
(* cleanup the contexts that were notified stay in the map.                 *)
Deliverable(x) ==
  \/ \E r \in Rids : /\ requests[r] # None /\ requests[r].ctx = x
                     /\ Locked => r \in rtodo
  \/ rent # None /\ rent.ctx = x

(* A context in ictxPool is in nobody's hands: the reader cannot deliver a  *)
(* result to it any more, so the next call that acquires it starts clean    *)
(* (client.go:200 "let gc handle it").                                      *)
PoolSafe == \A x \in pool : ~Deliverable(x)

(* The entry of a synchronous call does not outlive the call: whichever     *)
(* way it ends, the map does not grow and the id is free again              *)
(* (client.go:451, 456, 486, 499, 312).                                     *)
NoStaleEntry ==
  \A r \in Rids : requests[r] # None /\ requests[r].call \in Sync /\ ~Locked
                     => pc[requests[r].call] \notin {"idle", "return", "done"}

(* The reader never finds errCh full, so that one call that is not being    *)
(* served cannot stop the delivery to all others (invoke_context.go:82).    *)
SendNeverBlocks == rpc = "send" => errCh[rent.ctx] = None

(* A callback that the cleanup invokes has issued a call, which waits for   *)
(* the mutex that the cleanup holds: nothing releases it any more.          *)
MutexStuck == rpc = "user" /\ rback = "cleanup" /\ pc[ruser] = "add"

(* DoTimeout returns (client.go:471-489), whatever the peer answers, the    *)
(* connection comes to and other calls do, be it that the reader is blocked *)
(* for ever on an errCh.  There is one exception: a callback that issues a  *)
(* call from the cleanup (client.go:302) leaves the mutex taken for ever,   *)
(* and every timed call that still needs it hangs at client.go:506 or 512,  *)
(* its timer notwithstanding.  Checked for a client without a dialer that   *)
(* its user does not close; of redial and Close nothing is claimed.         *)
TimedReturn ==
  \A c \in Sync \cap Timed : (pc[c] = "check") ~> (pc[c] = "done" \/ MutexStuck)

(* A registered call without a timeout returns once the read loop failed:   *)
(* the cleanup reaches it, whether it is still writing or already waiting   *)
(* (client.go:298-309).                                                     *)
CleanupWakes ==
  \A c \in Sync :
     (rpc = "cleanup" /\ \E r \in rtodo : requests[r].call = c) ~> (pc[c] = "done")

(* A Close that finds the reader anywhere but between a dial and the       *)
(* connection's installation ends the reader's goroutine, dialer or not:    *)
(* the read fails, and neither mayRedial nor redial starts over             *)
(* (client.go:154-159, 372, 403).                                           *)
Dialling == rpc \in {"dial", "build", "closeold", "setconn"}
CloseStopsReader == (cpc = "close" /\ ~Dialling) ~> (rpc = "done")

=============================================================================
