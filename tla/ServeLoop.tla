----------------------------- MODULE ServeLoop -----------------------------
(***************************************************************************)
(* sofabolt/server.go, serveConn: how a server answers the requests of one  *)
(* connection.                                                              *)
(*                                                                          *)
(* A loop reads requests into one Request.  A synchronous server runs the   *)
(* handler in the loop, with one response writer, whose target is a         *)
(* buffered writer; an asynchronous one copies the request and runs the     *)
(* handler in a goroutine, with a response writer of its own, whose target  *)
(* is the connection.  The buffered reader may hold several requests, and   *)
(* calls beforeread each time it reads from the connection.                 *)
(*                                                                          *)
(* A request is its number; a response is the id it answers.  Buffers count *)
(* whole frames.  Time is abstracted: an interval that starts at a moment   *)
(* in the past may have passed or not, and deadlines may pass at any time.  *)
(***************************************************************************)
EXTENDS Integers, Sequences

CONSTANTS
  MaxFrames,   \* bound on the frames the peer sends
  MaxAsync,    \* the same bound when the server is asynchronous
  BufCap,      \* how many responses the buffered writer holds
  AsyncModes,  \* the values of options.async considered
  FlushModes   \* the values of options.flushInterval > 0 considered

Ids == 1 .. MaxFrames

ASSUME LoopAssumption ==
  /\ MaxFrames \in Nat /\ MaxAsync \in 0 .. MaxFrames /\ BufCap \in Nat \ {0}
  /\ AsyncModes \subseteq BOOLEAN /\ FlushModes \subseteq BOOLEAN

VARIABLES
  async, delayed,             \* the options
  conn, inflight, kind,       \* the connection; the frames to come; what each one is
  rbuf, req,                  \* the buffered reader; the loop's Request
  bw, bwerr, wire,            \* the buffered writer; what the connection took
  pc, hijacked, flushed,      \* the loop's control, its hijacked and lastFlushTime # 0
  handler, task, rw,          \* per request: its handler, its copy; the response writers
  by                          \* per request: what its handler wrote (history)

opts  == <<async, delayed>>
peer  == <<inflight, kind>>
out   == <<bw, bwerr, wire>>
loop  == <<pc, hijacked, flushed>>
work  == <<handler, task, rw, by>>
vars  == <<opts, conn, peer, rbuf, req, out, loop, work>>

(* The frames the server meets, by type; a frame that cannot be read ends   *)
(* the loop as a response does, and is not told apart.                      *)
TypeBOLTResponse      == 0
TypeBOLTRequest       == 1
TypeBOLTRequestOneWay == 2
TypeTBRemotingOneWay  == 1
Kinds == {TypeBOLTResponse, TypeBOLTRequest, TypeBOLTRequestOneWay}

(* The writer of the loop is 0; that of the goroutine of request r is r.    *)
Writers == {0} \cup Ids
(* SofaResponseWriter.Reset and Derive: a writer for request r, 0 for none. *)
Derived(r) == [numwrite |-> 0, rid |-> r, hijacked |-> FALSE]
Idle       == Derived(0)
WriterOf(r) == IF async THEN r ELSE 0

TypeOK ==
  /\ async \in BOOLEAN /\ delayed \in BOOLEAN
  /\ conn \in {"open", "eof", "broken", "closed"}
  /\ inflight \in Seq(Ids) /\ kind \in [Ids -> Kinds]
  /\ rbuf \in Seq(Ids) /\ req \in {0} \cup Ids
  /\ bw \in Seq(Ids) /\ Len(bw) <= BufCap /\ bwerr \in BOOLEAN /\ wire \in Seq(Ids)
  /\ pc \in {"read", "block", "handle", "flush", "final", "wait", "done"}
  /\ hijacked \in BOOLEAN /\ flushed \in BOOLEAN
  /\ handler \in [Ids -> {"none", "started", "serving", "returned", "done"}]
  /\ task \in [Ids -> {0} \cup Ids] /\ by \in [Ids -> {0} \cup Ids]
  /\ rw \in [Writers -> [numwrite : {0, 1}, rid : {0} \cup Ids, hijacked : BOOLEAN]]

(* The peer sends the frames 1, 2, ..., as many as it likes.                *)
Frames == {[i \in 1 .. n |-> i] : n \in 0 .. IF async THEN MaxAsync ELSE MaxFrames}

Init ==
  /\ async \in AsyncModes /\ delayed \in FlushModes
  /\ conn = "open" /\ inflight \in Frames /\ kind \in [Ids -> Kinds]
  /\ \A r \in Ids : r > Len(inflight) => kind[r] = TypeBOLTResponse
  /\ rbuf = <<>> /\ req = 0
  /\ bw = <<>> /\ bwerr = FALSE /\ wire = <<>>
  /\ pc = "read" /\ hijacked = FALSE /\ flushed = FALSE
  /\ handler = [r \in Ids |-> "none"] /\ task = [r \in Ids |-> 0]
  /\ rw = [w \in Writers |-> Idle] /\ by = [r \in Ids |-> 0]

-----------------------------------------------------------------------------
(* The peer goes away: it has sent all, or the connection is lost.          *)
PeerEnds ==
  /\ conn = "open" /\ conn' = "eof"
  /\ UNCHANGED <<opts, peer, rbuf, req, out, loop, work>>

ConnBreaks ==
  /\ conn \in {"open", "eof"} /\ conn' = "broken"
  /\ UNCHANGED <<opts, peer, rbuf, req, out, loop, work>>

-----------------------------------------------------------------------------
(* Mutant: the buffer is reset, not flushed.                                *)
Discarded == wire

(* What the connection has taken after a flush.                             *)
Flushed == wire \o bw

(* The buffered writer (bufiorw).  An error stays: nothing is taken after   *)
(* it.  A flush that fails may have written some of the responses, or none  *)
(* where the deadline of the write could not be set.                        *)
FlushOk ==
  /\ ~bwerr /\ (bw # <<>> => conn \in {"open", "eof"})
  /\ wire' = Flushed /\ bw' = <<>> /\ bwerr' = FALSE
WriteFails ==
  /\ bwerr \/ bw # <<>>
  /\ \E n \in 0 .. (IF bwerr \/ conn \notin {"open", "eof"} THEN 0 ELSE Len(bw) - 1) :
        /\ wire' = wire \o SubSeq(bw, 1, n)
        /\ bw' = SubSeq(bw, n + 1, Len(bw))
  /\ bwerr' = TRUE
FlushFails == WriteFails \/ (conn = "broken" /\ UNCHANGED out)

(* Mutant: nothing is flushed when no interval is set.                      *)
DueLater == delayed /\ ~flushed

(* flushWrite: whether it flushes now; "may" when an interval has to have   *)
(* passed since the last call, which it remembers as the last flush.        *)
MustFlush == ~delayed \/ ~flushed
MayFlush  == delayed \/ MustFlush

(* flushWrite and flush: what they do to the buffer, and whether they fail. *)
flushWrite(ok) ==
  /\ flushed' = TRUE
  /\ \/ MayFlush /\ ok /\ FlushOk
     \/ MayFlush /\ ~ok /\ FlushFails
     \/ ~MustFlush /\ ok /\ UNCHANGED out

-----------------------------------------------------------------------------
(* The read loop.                                                           *)

(* beforeread, when the reader's buffer is empty: the deadline of the read, *)
(* which cannot be set on a connection that is gone, and a flush if         *)
(* anything is buffered.                                                    *)
BeforeRead ==
  /\ pc = "read" /\ rbuf = <<>>
  /\ \/ conn = "broken" /\ pc' = "final" /\ UNCHANGED <<out, flushed>>
     \/ bw = <<>> /\ pc' = "block" /\ UNCHANGED <<out, flushed>>
     \/ bw # <<>> /\ \E ok \in BOOLEAN :
          flushWrite(ok) /\ pc' = IF ok THEN "block" ELSE "final"
  /\ UNCHANGED <<opts, conn, peer, rbuf, req, hijacked, work>>

(* The connection's Read returns the next bytes, when they have arrived:    *)
(* one frame or more.                                                       *)
Fill ==
  /\ pc = "block" /\ inflight # <<>> /\ conn \in {"open", "eof"}
  /\ \E n \in 1 .. Len(inflight) :
        /\ rbuf' = SubSeq(inflight, 1, n)
        /\ inflight' = SubSeq(inflight, n + 1, Len(inflight))
  /\ pc' = "read"
  /\ UNCHANGED <<opts, conn, kind, req, out, hijacked, flushed, work>>

(* The peer has ended the stream, the connection is lost or closed by a     *)
(* Shutdown, or a deadline has passed.                                      *)
ReadFails ==
  /\ pc = "block" /\ pc' = "final"
  /\ UNCHANGED <<opts, conn, peer, rbuf, req, out, hijacked, flushed, work>>

(* A frame that cannot be read, or that is not a request, ends the loop.    *)
Refuse ==
  /\ pc = "read" /\ rbuf # <<>> /\ kind[Head(rbuf)] = TypeBOLTResponse
  /\ rbuf' = Tail(rbuf) /\ req' = Head(rbuf) /\ pc' = "final"
  /\ UNCHANGED <<opts, conn, peer, out, hijacked, flushed, work>>

(* A request, handled in the loop.                                          *)
HandleSync ==
  LET r == Head(rbuf) IN
  /\ ~async /\ pc = "read" /\ rbuf # <<>>
  /\ kind[r] \in {TypeBOLTRequest, TypeBOLTRequestOneWay}
  /\ rbuf' = Tail(rbuf) /\ req' = r /\ pc' = "handle"
  /\ rw' = [rw EXCEPT ![0] = Derived(r)]
  /\ handler' = [handler EXCEPT ![r] = "serving"]
  /\ UNCHANGED <<opts, conn, peer, out, hijacked, flushed, task, by>>

(* A request, copied for the goroutine that will handle it.                 *)
HandleAsync ==
  LET r == Head(rbuf) IN
  /\ async /\ pc = "read" /\ rbuf # <<>>
  /\ kind[r] \in {TypeBOLTRequest, TypeBOLTRequestOneWay}
  /\ rbuf' = Tail(rbuf) /\ req' = r /\ pc' = "flush"
  /\ task' = [task EXCEPT ![r] = r]
  /\ handler' = [handler EXCEPT ![r] = "started"]
  /\ UNCHANGED <<opts, conn, peer, out, hijacked, flushed, rw, by>>

(* flushWrite after a command; an error or a hijack ends the loop.          *)
AfterCommand ==
  /\ pc = "flush"
  /\ \E ok \in BOOLEAN :
        flushWrite(ok) /\ pc' = IF ok /\ ~hijacked THEN "read" ELSE "final"
  /\ UNCHANGED <<opts, conn, peer, rbuf, req, hijacked, work>>

(* "flush the remaining buffer"; its error is discarded, and the time it    *)
(* returns is not read again.                                               *)
FinalFlush ==
  /\ pc = "final" /\ pc' = "wait"
  /\ \/ bw = <<>> /\ UNCHANGED <<out, flushed>>
     \/ bw # <<>> /\ \E ok \in BOOLEAN : flushWrite(ok)
  /\ UNCHANGED <<opts, conn, peer, rbuf, req, hijacked, work>>

(* Mutant: a frame that is refused has been added to the group.             *)
WaitsForRefused == \A r \in Ids : r <= req => handler[r] = "done"

(* wg.Wait.                                                                 *)
AllDone == \A r \in Ids : handler[r] \in {"none", "done"}

(* The buffers and the loop's writer go back to their pools, and ServeConn  *)
(* closes a connection that was not hijacked.                               *)
Return ==
  /\ pc = "wait" /\ AllDone
  /\ pc' = "done" /\ rbuf' = <<>> /\ bw' = <<>> /\ bwerr' = FALSE
  /\ rw' = [rw EXCEPT ![0] = Idle]
  /\ conn' = IF hijacked THEN conn ELSE "closed"
  /\ UNCHANGED <<opts, peer, req, wire, hijacked, flushed, handler, task, by>>

-----------------------------------------------------------------------------
(* The handler of request r.                                                *)

(* Mutant: the goroutine works on the Request of the loop.                  *)
SharedRequest(r) == req

(* The request that the goroutine of r works on: its copy.                  *)
OwnRequest(r) == task[r]

(* doHandleCommandAsync up to the handler: a pooled writer, and Derive.     *)
StartAsync(r) ==
  /\ async /\ handler[r] = "started"
  /\ rw' = [rw EXCEPT ![r] = Derived(OwnRequest(r))]
  /\ handler' = [handler EXCEPT ![r] = "serving"]
  /\ UNCHANGED <<opts, conn, peer, rbuf, req, out, loop, task, by>>

(* Mutant: one response too many is taken into the buffer.                  *)
RoomForMore == Len(bw) <= BufCap

(* The response fits into the buffer.                                       *)
Room == Len(bw) < BufCap

(* Mutant: a response that does not fit goes past the buffered ones.        *)
Bypass(id) == [wire |-> Append(wire, id), bw |-> bw]

(* A full buffer is flushed before it takes the response.                   *)
Spill(id) == [wire |-> wire \o bw, bw |-> <<id>>]

(* writer.Write: into the buffer, which is flushed when it is full, or to   *)
(* the connection.                                                          *)
Accepts(r) ==
  \/ /\ ~async /\ ~bwerr /\ Room
     /\ bw' = Append(bw, rw[0].rid) /\ UNCHANGED <<bwerr, wire>>
  \/ /\ ~async /\ ~bwerr /\ ~Room /\ conn \in {"open", "eof"}
     /\ wire' = Spill(rw[0].rid).wire /\ bw' = Spill(rw[0].rid).bw /\ UNCHANGED bwerr
  \/ /\ async /\ conn \in {"open", "eof"}
     /\ wire' = Append(wire, rw[r].rid) /\ UNCHANGED <<bw, bwerr>>
Rejects ==
  \/ ~async /\ (bwerr \/ ~Room) /\ WriteFails
  \/ async /\ UNCHANGED out

(* "duplicated write".                                                      *)
FirstWrite(w) == rw[w].numwrite = 0

(* SofaResponseWriter.Write.  A write that fails may count, if it wrote a   *)
(* part; a duplicated one, or a response that cannot be encoded, changes    *)
(* nothing.                                                                 *)
Write(r) ==
  /\ FirstWrite(WriterOf(r))
  /\ \/ /\ Accepts(r)
        /\ rw' = [rw EXCEPT ![WriterOf(r)].numwrite = 1]
        /\ by' = [by EXCEPT ![r] = rw[WriterOf(r)].rid]
     \/ /\ Rejects
        /\ \E n \in {0, 1} : rw' = [rw EXCEPT ![WriterOf(r)].numwrite = n]
        /\ UNCHANGED by

HandlerWrites(r) ==
  /\ handler[r] = "serving" /\ Write(r)
  /\ UNCHANGED <<opts, conn, peer, rbuf, req, loop, handler, task>>

(* SofaResponseWriter.Hijack.                                               *)
HandlerHijacks(r) ==
  /\ handler[r] = "serving" /\ ~rw[WriterOf(r)].hijacked
  /\ rw' = [rw EXCEPT ![WriterOf(r)].hijacked = TRUE]
  /\ UNCHANGED <<opts, conn, peer, rbuf, req, out, loop, handler, task, by>>

(* "write once to avoid nil response", of a request of type t.              *)
AvoidsNilResponse(t) == t # TypeBOLTRequestOneWay /\ t # TypeTBRemotingOneWay

(* The handler returns, and what handleCommandSync or doHandleCommandAsync  *)
(* does next; HandleCommand ignores a hijack of an asynchronous handler.    *)
HandlerReturns(r) ==
  /\ handler[r] = "serving"
  /\ handler' = [handler EXCEPT ![r] = IF async THEN "returned" ELSE "done"]
  /\ IF rw[WriterOf(r)].numwrite = 0 /\ AvoidsNilResponse(kind[r])
     THEN Write(r) ELSE UNCHANGED <<out, rw, by>>
  /\ IF async THEN UNCHANGED loop
     ELSE pc' = "flush" /\ hijacked' = rw[0].hijacked /\ UNCHANGED flushed
  /\ UNCHANGED <<opts, conn, peer, rbuf, req, task>>

(* The goroutine releases its writer and its request; wg.Done.              *)
EndAsync(r) ==
  /\ handler[r] = "returned"
  /\ handler' = [handler EXCEPT ![r] = "done"]
  /\ rw' = [rw EXCEPT ![r] = Idle] /\ task' = [task EXCEPT ![r] = 0]
  /\ UNCHANGED <<opts, conn, peer, rbuf, req, out, loop, by>>

Loop == BeforeRead \/ Fill \/ Refuse \/ HandleSync \/ HandleAsync \/ AfterCommand
          \/ FinalFlush \/ Return

Next ==
  \/ PeerEnds \/ ConnBreaks \/ ReadFails \/ Loop
  \/ \E r \in Ids : StartAsync(r) \/ HandlerWrites(r) \/ HandlerHijacks(r)
                      \/ HandlerReturns(r) \/ EndAsync(r)

(* The loop and the goroutines run; handlers return; a read of a connection *)
(* that gives nothing more ends.                                            *)
Fairness ==
  /\ WF_vars(Loop)
  /\ WF_vars(conn # "open" /\ inflight = <<>> /\ ReadFails)
  /\ WF_vars(conn = "broken" /\ ReadFails)
  /\ \A r \in Ids : WF_vars(StartAsync(r) \/ HandlerReturns(r) \/ EndAsync(r))

Spec == Init /\ [][Next]_vars /\ Fairness

-----------------------------------------------------------------------------
Answers == wire \o bw

(* A handler answers its own request, however far the loop has gone in      *)
(* reading others into the same Request (server.go:310-327, 343).           *)
OwnAnswer == \A r \in Ids : by[r] \in {0, r}

(* No request is answered twice, whatever its handler does, and a           *)
(* synchronous server answers in the order of the requests, through         *)
(* buffering, overflow of the buffer and flushes (server.go:235-261,        *)
(* response_writer.go:183-185).                                             *)
OnceInOrder ==
  \A i, j \in DOMAIN Answers :
    /\ Answers[i] = Answers[j] => i = j
    /\ ~async /\ i < j => Answers[i] < Answers[j]

(* Without a flush interval no response is held back while the server waits *)
(* for more requests (server.go:226-230, 254, 278-289).                     *)
NotHeldBack == ~delayed /\ pc = "block" => bw = <<>>

(* Without a flush interval a response that its handler has written is      *)
(* sent, or the connection is lost or its writer failed: also when the loop *)
(* has met the end of the stream, a frame it refuses or a hijack meanwhile  *)
(* (server.go:254, 258-267, 278-298).                                       *)
AnswerArrives ==
  \A r \in Ids : by[r] # 0 /\ ~delayed /\ pc # "done" ~>
    (\E i \in DOMAIN wire : wire[i] = r) \/ bwerr \/ conn = "broken"

(* serveConn returns after its connection has ended (server.go:235-276).    *)
Ends == conn # "open" ~> pc = "done"

=============================================================================
