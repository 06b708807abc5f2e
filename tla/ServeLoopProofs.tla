-------------------------- MODULE ServeLoopProofs --------------------------
(***************************************************************************)
(* Proofs about ServeLoop, for every number of frames, every size of the    *)
(* buffer and every mode.  The inductive invariant adds to the properties   *)
(* the order in which frames reach the loop, whom each response writer      *)
(* works for, and what is known of a request whose response was written.    *)
(***************************************************************************)
EXTENDS ServeLoop, SequenceTheorems, TLAPS

Increasing(s) == \A i, j \in 1 .. Len(s) : i < j => s[i] < s[j]

(* Frames arrive in order, behind all that the loop has read.               *)
ReadInv ==
  /\ Increasing(rbuf) /\ Increasing(inflight)
  /\ \A i \in 1 .. Len(rbuf) : rbuf[i] > req
  /\ \A j \in 1 .. Len(inflight) : inflight[j] > req
  /\ \A i \in 1 .. Len(rbuf), j \in 1 .. Len(inflight) : rbuf[i] < inflight[j]

(* Only what was read is handled; goroutines belong to asynchronous servers *)
(* and have their copy; a synchronous handler is the loop itself.           *)
HandlerInv ==
  \A r \in Ids :
    /\ handler[r] # "none" => r <= req
    /\ handler[r] \in {"started", "returned"} => async
    /\ handler[r] = "started" => task[r] = r
    /\ handler[r] = "serving" => rw[WriterOf(r)].rid = r
    /\ handler[r] = "serving" /\ ~async => pc = "handle" /\ req = r

(* Asynchronous handlers bypass the buffered writer.                        *)
BypassInv == async => bw = <<>>

(* What was answered has been handed to a handler, and a handler that is    *)
(* not done has used up its one write.                                      *)
AnsweredInv ==
  \A i \in DOMAIN Answers :
    /\ handler[Answers[i]] \in {"serving", "returned", "done"}
    /\ handler[Answers[i]] = "serving" => rw[WriterOf(Answers[i])].numwrite = 1

IndInv ==
  /\ TypeOK /\ ReadInv /\ HandlerInv /\ BypassInv /\ AnsweredInv
  /\ OwnAnswer /\ OnceInOrder /\ NotHeldBack

-----------------------------------------------------------------------------
OutType == bw \in Seq(Ids) /\ Len(bw) <= BufCap /\ bwerr \in BOOLEAN /\ wire \in Seq(Ids)

(* The frames that the peer sends, in order.                                *)
LEMMA FramesInOrder ==
  ASSUME NEW f \in Frames PROVE f \in Seq(Ids) /\ Increasing(f) /\ \A i \in 1 .. Len(f) : f[i] > 0
<1>1. PICK n \in 0 .. IF async THEN MaxAsync ELSE MaxFrames : f = [i \in 1 .. n |-> i]
  BY DEF Frames
<1>2. n \in Nat /\ n <= MaxFrames
  BY <1>1, LoopAssumption
<1>3. f \in [1 .. n -> Ids]
  BY <1>1, <1>2, LoopAssumption DEF Ids
<1>4. f \in Seq(Ids)
  BY <1>2, <1>3, SeqDef
<1> QED
  BY <1>1, <1>2, <1>4 DEF Increasing

(* The first state.                                                         *)
LEMMA InitInv == ASSUME Init PROVE IndInv
<1> USE LoopAssumption DEF Init
<1>1. inflight \in Seq(Ids) /\ Increasing(inflight) /\ \A i \in 1 .. Len(inflight) : inflight[i] > 0
  BY FramesInOrder
<1>2. TypeOK
  <2>1. async \in BOOLEAN /\ delayed \in BOOLEAN
    OBVIOUS
  <2>2. rw \in [Writers -> [numwrite : {0, 1}, rid : {0} \cup Ids, hijacked : BOOLEAN]]
    BY DEF Idle, Derived
  <2>3. \A S : <<>> \in Seq(S) /\ Len(<<>>) = 0
    BY EmptySeq
  <2>4. /\ rbuf \in Seq(Ids) /\ bw \in Seq(Ids) /\ wire \in Seq(Ids)
        /\ bwerr \in BOOLEAN /\ hijacked \in BOOLEAN /\ flushed \in BOOLEAN
    BY <2>3, Zenon
  <2>5. Len(bw) <= BufCap
    BY <2>3
  <2>6. /\ handler \in [Ids -> {"none", "started", "serving", "returned", "done"}]
        /\ task \in [Ids -> {0} \cup Ids] /\ by \in [Ids -> {0} \cup Ids]
    OBVIOUS
  <2> QED
    BY <1>1, <2>1, <2>2, <2>4, <2>5, <2>6, Zenon DEF TypeOK
<1>3. ReadInv
  BY <1>1 DEF ReadInv, Increasing
<1>4. HandlerInv /\ BypassInv /\ OwnAnswer /\ NotHeldBack
  BY DEF HandlerInv, BypassInv, OwnAnswer, NotHeldBack
<1>5. Answers = <<>>
  BY ConcatEmptySeq, EmptySeq DEF Answers
<1>6. AnsweredInv /\ OnceInOrder
  BY <1>5 DEF AnsweredInv, OnceInOrder
<1> QED
  BY <1>2, <1>3, <1>4, <1>6 DEF IndInv

-----------------------------------------------------------------------------
(* What the buffered writer does to the responses given so far.             *)

(* A flush moves the buffered responses, all of them or some.               *)
LEMMA MoveKeeps ==
  ASSUME OutType, NEW n \in 0 .. Len(bw),
         wire' = wire \o SubSeq(bw, 1, n), bw' = SubSeq(bw, n + 1, Len(bw))
  PROVE  wire' \in Seq(Ids) /\ bw' \in Seq(Ids) /\ Len(bw') <= BufCap /\ Answers' = Answers
<1> USE DEF OutType
<1>1. Len(bw) \in Nat /\ \A i \in 1 .. Len(bw) : bw[i] \in Ids
  BY LenProperties, ElementOfSeq
<1>2. SubSeq(bw, 1, n) \in Seq(Ids)
  BY <1>1, SubSeqProperties
<1>3. bw' \in Seq(Ids) /\ Len(bw') <= Len(bw)
  BY <1>1, SubSeqProperties
<1>4. wire' \in Seq(Ids)
  BY <1>2, ConcatProperties
<1>5. wire' \o bw' = wire \o (SubSeq(bw, 1, n) \o bw')
  <2>1. ASSUME NEW t \in Seq(Ids), NEW u \in Seq(Ids) PROVE (wire \o t) \o u = wire \o (t \o u)
    BY ConcatAssociative, SMTT(60)
  <2> QED
    BY <1>2, <1>3, <2>1
<1>6. SubSeq(bw, 1, n) \o bw' = SubSeq(bw, 1, Len(bw))
  <2>1. 1 \in 1 .. Len(bw) + 1 /\ n \in 1 - 1 .. Len(bw) /\ Len(bw) \in n .. Len(bw)
    BY <1>1
  <2>2. SubSeq(bw, 1, n) \o SubSeq(bw, n + 1, Len(bw)) = SubSeq(bw, 1, Len(bw))
    BY <2>1, ConcatAdjacentSubSeq, Zenon
  <2> QED
    BY <2>2, Zenon
<1>7. SubSeq(bw, 1, Len(bw)) = bw
  BY SubSeqFull
<1>8. Len(bw') <= BufCap
  BY <1>1, <1>3, LoopAssumption, LenProperties
<1> QED
  BY <1>3, <1>4, <1>5, <1>6, <1>7, <1>8 DEF Answers

LEMMA FlushOkKeeps ==
  ASSUME OutType, FlushOk PROVE OutType' /\ Answers' = Answers /\ bw' = <<>>
<1>1. wire' = wire \o bw /\ bw' = <<>> /\ bwerr' = FALSE
  BY DEF FlushOk, Flushed
<1>2. wire' \in Seq(Ids)
  BY <1>1, ConcatProperties DEF OutType
<1>3. wire' \o bw' = wire \o bw
  BY <1>1, <1>2, ConcatEmptySeq
<1>4. bw' \in Seq(Ids) /\ Len(bw') <= BufCap
  BY <1>1, EmptySeq, LoopAssumption
<1> QED
  BY <1>1, <1>2, <1>3, <1>4 DEF OutType, Answers

LEMMA WriteFailsKeeps ==
  ASSUME OutType, WriteFails PROVE OutType' /\ Answers' = Answers /\ (bw = <<>> => bw' = <<>>)
<1>1. Len(bw) \in Nat /\ (bw # <<>> => Len(bw) > 0)
  BY EmptySeq, LenProperties DEF OutType
<1>2. PICK n \in 0 .. (IF bwerr \/ conn \notin {"open", "eof"} THEN 0 ELSE Len(bw) - 1) :
        wire' = wire \o SubSeq(bw, 1, n) /\ bw' = SubSeq(bw, n + 1, Len(bw))
  BY DEF WriteFails
<1>3. n \in 0 .. Len(bw) /\ n \in Int
  BY <1>1, <1>2
<1>4. wire' \in Seq(Ids) /\ bw' \in Seq(Ids) /\ Len(bw') <= BufCap /\ Answers' = Answers
  BY <1>2, <1>3, MoveKeeps
<1>5. bw = <<>> => bw' = <<>>
  BY <1>1, <1>2, <1>3, <1>4, SubSeqEmpty, EmptySeq
<1>6. bwerr' \in BOOLEAN
  BY DEF WriteFails
<1> QED
  BY <1>4, <1>5, <1>6 DEF OutType

(* flushWrite: nothing is lost or added, and without an interval nothing    *)
(* stays behind when it succeeds.                                           *)
LEMMA FlushWriteKeeps ==
  ASSUME OutType, NEW ok \in BOOLEAN, flushWrite(ok)
  PROVE  /\ OutType' /\ Answers' = Answers /\ (bw = <<>> => bw' = <<>>)
         /\ ok /\ ~delayed => bw' = <<>>
<1>1. CASE FlushOk
  BY <1>1, FlushOkKeeps
<1>2. CASE ~ok /\ FlushFails
  <2>1. CASE WriteFails
    BY <1>2, <2>1, WriteFailsKeeps
  <2>2. CASE UNCHANGED out
    BY <1>2, <2>2 DEF OutType, Answers, out
  <2> QED
    BY <1>2, <2>1, <2>2 DEF FlushFails
<1>3. CASE ~MustFlush /\ UNCHANGED out
  BY <1>3 DEF OutType, Answers, out, MustFlush
<1> QED
  BY <1>1, <1>2, <1>3 DEF flushWrite

(* A response that is accepted is the last one given.                       *)
LEMMA AcceptsAppends ==
  ASSUME OutType, BypassInv, NEW r \in Ids, Accepts(r), rw[WriterOf(r)].rid = r
  PROVE  OutType' /\ Answers' = Append(Answers, r) /\ (async => bw' = <<>>)
<1> USE LoopAssumption DEF OutType
<1>0. Answers \in Seq(Ids) /\ <<r>> \in Seq(Ids) /\ Len(<<r>>) = 1
  BY ConcatProperties DEF Answers
<1>1. CASE ~async /\ Room /\ bw' = Append(bw, r) /\ UNCHANGED <<bwerr, wire>>
  <2>1. bw' \in Seq(Ids) /\ Len(bw') = Len(bw) + 1 /\ bw' = bw \o <<r>>
    BY <1>1, AppendProperties, AppendIsConcat
  <2>2. Len(bw') <= BufCap
    BY <1>1, <2>1, LenProperties DEF Room
  <2>3. wire \o (bw \o <<r>>) = (wire \o bw) \o <<r>>
    BY <1>0, ConcatAssociative
  <2>4. Append(Answers, r) = Answers \o <<r>>
    BY <1>0, AppendIsConcat
  <2> QED
    BY <1>1, <2>1, <2>2, <2>3, <2>4 DEF Answers
<1>2. CASE ~async /\ wire' = wire \o bw /\ bw' = <<r>> /\ UNCHANGED bwerr
  <2>1. Append(Answers, r) = Answers \o <<r>>
    BY <1>0, AppendIsConcat
  <2> QED
    BY <1>0, <1>2, <2>1 DEF Answers
<1>3. CASE async /\ wire' = Append(wire, r) /\ UNCHANGED <<bw, bwerr>>
  <2>1. bw = <<>> /\ bw' = <<>>
    BY <1>3 DEF BypassInv
  <2>2. wire' \in Seq(Ids)
    BY <1>3, AppendProperties
  <2>3. wire' \o <<>> = wire' /\ wire \o <<>> = wire
    BY <2>2, ConcatEmptySeq
  <2> QED
    BY <1>3, <2>1, <2>2, <2>3 DEF Answers
<1> QED
  BY <1>1, <1>2, <1>3 DEF Accepts, Spill, WriterOf

LEMMA RejectsKeeps ==
  ASSUME OutType, BypassInv, Rejects
  PROVE  OutType' /\ Answers' = Answers /\ (async => bw' = <<>>)
<1>1. CASE ~async /\ WriteFails
  BY <1>1, WriteFailsKeeps
<1>2. CASE async /\ UNCHANGED out
  BY <1>2 DEF out, OutType, Answers, BypassInv
<1> QED
  BY <1>1, <1>2 DEF Rejects

-----------------------------------------------------------------------------
(* Steps that leave the handlers and the responses given so far alone.      *)

LEMMA QuietInv ==
  ASSUME IndInv, UNCHANGED <<async, delayed, work>>, Answers' = Answers, async => bw' = <<>>,
         req' \in {0} \cup Ids, req <= req', pc = "handle" => pc' = "handle" /\ req' = req
  PROVE  HandlerInv' /\ BypassInv' /\ AnsweredInv' /\ OwnAnswer' /\ OnceInOrder'
<1> USE DEF IndInv, work
<1>1. HandlerInv'
  <2> SUFFICES ASSUME NEW r \in Ids
               PROVE  /\ handler[r] # "none" => r <= req'
                      /\ handler[r] \in {"started", "returned"} => async
                      /\ handler[r] = "started" => task[r] = r
                      /\ handler[r] = "serving" => rw[WriterOf(r)].rid = r
                      /\ handler[r] = "serving" /\ ~async => pc' = "handle" /\ req' = r
    BY DEF HandlerInv, WriterOf
  <2>1. handler[r] # "none" => r <= req'
    BY LoopAssumption DEF HandlerInv, TypeOK, Ids
  <2> QED
    BY <2>1 DEF HandlerInv
<1>2. BypassInv' /\ AnsweredInv' /\ OwnAnswer'
  BY DEF BypassInv, AnsweredInv, OwnAnswer, WriterOf
<1>3. OnceInOrder'
  BY DEF OnceInOrder
<1> QED
  BY <1>1, <1>2, <1>3

(* The connection fails, or a read of it.                                   *)
LEMMA ConnStepsInv == ASSUME IndInv, PeerEnds \/ ConnBreaks \/ ReadFails PROVE IndInv'
<1>1. /\ UNCHANGED <<opts, peer, rbuf, req, out, hijacked, flushed, work>>
      /\ conn' \in {conn, "eof", "broken"} /\ (pc' = pc \/ (pc = "block" /\ pc' = "final"))
  BY DEF PeerEnds, ConnBreaks, ReadFails, loop, opts, peer, out, work
<1> USE <1>1 DEF IndInv, opts, peer, out
<1>2. TypeOK'
  <2>1. conn' \in {"open", "eof", "broken", "closed"}
    BY DEF TypeOK
  <2>2. pc' \in {"read", "block", "handle", "flush", "final", "wait", "done"}
    BY DEF TypeOK
  <2> QED
    BY <2>1, <2>2 DEF TypeOK, work
<1>3. ReadInv' /\ NotHeldBack'
  BY DEF ReadInv, NotHeldBack
<1>4. /\ UNCHANGED <<async, delayed, work>> /\ Answers' = Answers /\ (async => bw' = <<>>)
      /\ req' \in {0} \cup Ids /\ req <= req' /\ (pc = "handle" => pc' = "handle" /\ req' = req)
  BY LoopAssumption DEF Answers, BypassInv, TypeOK, Ids
<1> QED
  BY <1>2, <1>3, <1>4, QuietInv

(* The loop flushes: before a read, after a command, at its end.            *)
LEMMA FlushStepsInv ==
  ASSUME IndInv, BeforeRead \/ AfterCommand \/ FinalFlush PROVE IndInv'
<1>1. /\ UNCHANGED <<opts, conn, peer, rbuf, req, hijacked, work>>
      /\ pc # "handle" /\ pc' \in {"block", "read", "final", "wait"}
  BY DEF BeforeRead, AfterCommand, FinalFlush
<1>2. OutType /\ flushed \in BOOLEAN
  BY DEF IndInv, TypeOK, OutType
<1>3. /\ OutType' /\ Answers' = Answers /\ (bw = <<>> => bw' = <<>>) /\ flushed' \in BOOLEAN
      /\ pc' = "block" /\ ~delayed => bw' = <<>>
  <2>1. CASE UNCHANGED <<out, flushed>> /\ (pc' = "block" => bw = <<>>)
    BY <1>2, <2>1 DEF out, OutType, Answers
  <2>2. ASSUME NEW ok \in BOOLEAN, flushWrite(ok), pc' = "block" => ok
        PROVE  <1>3!:
    <3>1. flushed' \in BOOLEAN
      BY <2>2 DEF flushWrite
    <3> QED
      BY <1>2, <2>2, <3>1, FlushWriteKeeps
  <2> QED
    BY <2>1, <2>2 DEF BeforeRead, AfterCommand, FinalFlush
<1> USE <1>1, <1>3 DEF IndInv, opts, peer
<1>4. TypeOK'
  BY DEF TypeOK, work, OutType
<1>5. ReadInv' /\ NotHeldBack'
  BY DEF ReadInv, NotHeldBack
<1>6. /\ UNCHANGED <<async, delayed, work>> /\ (async => bw' = <<>>)
      /\ req' \in {0} \cup Ids /\ req <= req' /\ (pc = "handle" => pc' = "handle" /\ req' = req)
  BY LoopAssumption DEF BypassInv, TypeOK, Ids
<1> QED
  BY <1>4, <1>5, <1>6, QuietInv

-----------------------------------------------------------------------------
(* The loop reads.                                                          *)

LEMMA FillInv == ASSUME IndInv, Fill PROVE IndInv'
<1> USE LoopAssumption DEF Ids
<1>1. PICK n \in 1 .. Len(inflight) :
        rbuf' = SubSeq(inflight, 1, n) /\ inflight' = SubSeq(inflight, n + 1, Len(inflight))
  BY DEF Fill
<1>2. /\ UNCHANGED <<async, delayed, conn, kind, req, bw, bwerr, wire, hijacked, flushed,
                     handler, task, rw, by>>
      /\ pc = "block" /\ pc' = "read"
  BY DEF Fill, opts, out, work
<1>3. /\ req \in Nat /\ Len(inflight) \in Nat
      /\ \A i \in 1 .. Len(inflight) : inflight[i] \in Ids
  BY LenProperties, ElementOfSeq DEF IndInv, TypeOK
<1>4. /\ rbuf' \in Seq(Ids) /\ Len(rbuf') = n
      /\ \A i \in 1 .. n : rbuf'[i] = inflight[i]
  BY <1>1, <1>3, SubSeqProperties
<1>5. /\ inflight' \in Seq(Ids) /\ Len(inflight') = Len(inflight) - n
      /\ \A i \in 1 .. Len(inflight) - n : inflight'[i] = inflight[n + i]
  <2>1. n + 1 \in Int /\ Len(inflight) \in Int /\ \A i \in n + 1 .. Len(inflight) : inflight[i] \in Ids
    BY <1>1, <1>3
  <2>2. /\ inflight' \in Seq(Ids)
        /\ Len(inflight') = IF n + 1 <= Len(inflight) THEN Len(inflight) - (n + 1) + 1 ELSE 0
        /\ \A i \in 1 .. Len(inflight) - (n + 1) + 1 : inflight'[i] = inflight[(n + 1) + i - 1]
    BY <1>1, <2>1, SubSeqProperties
  <2> QED
    BY <1>1, <1>3, <2>2
<1>6. n \in Nat /\ n <= Len(inflight)
  BY <1>1, <1>3
<1>7. TypeOK'
  BY <1>2, <1>4, <1>5 DEF IndInv, TypeOK
<1>8. ReadInv'
  <2>0. /\ \A i, j \in 1 .. Len(inflight) : i < j => inflight[i] < inflight[j]
        /\ \A i \in 1 .. Len(inflight) : inflight[i] > req
    BY DEF IndInv, ReadInv, Increasing
  <2>1. Increasing(rbuf)' /\ \A i \in 1 .. Len(rbuf') : rbuf'[i] > req'
    <3>1. \A i \in 1 .. n : i \in 1 .. Len(inflight) /\ rbuf'[i] = inflight[i]
      BY <1>3, <1>4, <1>6
    <3>2. \A i, j \in 1 .. n : i < j => rbuf'[i] < rbuf'[j]
      BY <2>0, <3>1
    <3>3. \A i \in 1 .. n : rbuf'[i] > req
      BY <2>0, <3>1
    <3> QED
      BY <1>2, <1>4, <3>2, <3>3 DEF Increasing
  <2>2. Increasing(inflight)' /\ \A i \in 1 .. Len(inflight') : inflight'[i] > req'
    <3>1. \A i \in 1 .. Len(inflight') : n + i \in 1 .. Len(inflight) /\ inflight'[i] = inflight[n + i]
      BY <1>3, <1>5, <1>6
    <3>2. \A i, j \in 1 .. Len(inflight') : i < j => n + i < n + j
      BY <1>3, <1>5, <1>6
    <3>3. \A i, j \in 1 .. Len(inflight') : i < j => inflight'[i] < inflight'[j]
      BY <2>0, <3>1, <3>2
    <3>4. \A i \in 1 .. Len(inflight') : inflight'[i] > req
      BY <2>0, <3>1
    <3> QED
      BY <1>2, <3>3, <3>4 DEF Increasing
  <2>3. \A i \in 1 .. Len(rbuf'), j \in 1 .. Len(inflight') : rbuf'[i] < inflight'[j]
    <3> SUFFICES ASSUME NEW i \in 1 .. n, NEW j \in 1 .. Len(inflight) - n
                 PROVE  rbuf'[i] < inflight'[j]
      BY <1>4, <1>5
    <3>1. i \in 1 .. Len(inflight) /\ n + j \in 1 .. Len(inflight) /\ i < n + j
      BY <1>3, <1>6
    <3> QED
      BY <1>4, <1>5, <2>0, <3>1
  <2> QED
    BY <2>1, <2>2, <2>3 DEF ReadInv
<1>9. /\ UNCHANGED <<async, delayed, work>> /\ Answers' = Answers /\ (async => bw' = <<>>)
      /\ req' \in {0} \cup Ids /\ req <= req' /\ (pc = "handle" => pc' = "handle" /\ req' = req)
  BY <1>2, LoopAssumption DEF IndInv, Answers, BypassInv, TypeOK, Ids, work
<1>10. NotHeldBack'
  BY <1>2 DEF NotHeldBack
<1> QED
  BY <1>7, <1>8, <1>9, <1>10, QuietInv DEF IndInv

(* What the next frame of the buffer leaves behind.                         *)
LEMMA TakeHead ==
  ASSUME TypeOK, ReadInv, rbuf # <<>>,
         rbuf' = Tail(rbuf), req' = Head(rbuf), inflight' = inflight
  PROVE  ReadInv' /\ rbuf' \in Seq(Ids) /\ req' \in Ids /\ req < req'
<1> USE LoopAssumption DEF Ids
<1>1. /\ req \in Nat /\ Len(rbuf) \in Nat \ {0}
      /\ \A i \in 1 .. Len(rbuf) : rbuf[i] \in Ids
  BY LenProperties, ElementOfSeq, EmptySeq DEF TypeOK
<1>2. /\ rbuf' \in Seq(Ids) /\ Len(rbuf') = Len(rbuf) - 1
      /\ \A i \in 1 .. Len(rbuf') : rbuf'[i] = rbuf[i + 1]
  BY HeadTailProperties DEF TypeOK
<1>4. req' = rbuf[1]
  BY <1>1 DEF TypeOK
<1>5. req' \in Ids /\ req < req'
  BY <1>1, <1>4 DEF ReadInv, TypeOK
<1>6. Increasing(rbuf)' /\ \A i \in 1 .. Len(rbuf') : rbuf'[i] > req'
  BY <1>1, <1>2, <1>4 DEF ReadInv, Increasing
<1>7. Increasing(inflight)' /\ \A i \in 1 .. Len(inflight') : inflight'[i] > req'
  <2>1. \A j \in 1 .. Len(inflight) : inflight[j] > rbuf[1]
    <3>1. \A j \in 1 .. Len(inflight) : inflight[j] \in Ids
      BY LenProperties, ElementOfSeq DEF TypeOK
    <3> QED
      BY <1>1, <3>1 DEF ReadInv
  <2> QED
    BY <1>4, <2>1 DEF ReadInv, Increasing
<1>8. \A i \in 1 .. Len(rbuf'), j \in 1 .. Len(inflight') : rbuf'[i] < inflight'[j]
  BY <1>1, <1>2 DEF ReadInv
<1> QED
  BY <1>2, <1>5, <1>6, <1>7, <1>8 DEF ReadInv

LEMMA RefuseInv == ASSUME IndInv, Refuse PROVE IndInv'
<1>1. /\ UNCHANGED <<async, delayed, conn, inflight, kind, bw, bwerr, wire, hijacked, flushed,
                     handler, task, rw, by>>
      /\ pc = "read" /\ pc' = "final"
      /\ rbuf # <<>> /\ rbuf' = Tail(rbuf) /\ req' = Head(rbuf)
  BY DEF Refuse, opts, peer, out, work
<1>2. ReadInv' /\ rbuf' \in Seq(Ids) /\ req' \in Ids /\ req < req'
  BY <1>1, TakeHead DEF IndInv
<1>3. TypeOK'
  BY <1>1, <1>2 DEF IndInv, TypeOK
<1>4. /\ UNCHANGED <<async, delayed, work>> /\ Answers' = Answers /\ (async => bw' = <<>>)
      /\ req' \in {0} \cup Ids /\ req <= req' /\ (pc = "handle" => pc' = "handle" /\ req' = req)
  BY <1>1, <1>2, LoopAssumption DEF IndInv, Answers, BypassInv, TypeOK, Ids, work
<1>5. NotHeldBack'
  BY <1>1 DEF NotHeldBack
<1> QED
  BY <1>2, <1>3, <1>4, <1>5, QuietInv DEF IndInv

-----------------------------------------------------------------------------
(* A request is handed to its handler.                                      *)

(* The answered requests come before the one that is read next.             *)
LEMMA AnsweredBefore ==
  ASSUME IndInv, NEW i \in DOMAIN Answers
  PROVE  Answers[i] \in Ids /\ Answers[i] <= req
<1>1. Answers \in Seq(Ids)
  BY ConcatProperties DEF IndInv, TypeOK, Answers
<1>2. Answers[i] \in Ids
  BY <1>1, LenProperties, ElementOfSeq
<1> QED
  BY <1>2 DEF IndInv, AnsweredInv, HandlerInv

LEMMA HandleSyncInv == ASSUME IndInv, HandleSync PROVE IndInv'
<1> DEFINE r == Head(rbuf)
<1>1. /\ UNCHANGED <<async, delayed, conn, inflight, kind, bw, bwerr, wire, hijacked, flushed,
                     task, by>>
      /\ ~async /\ pc = "read" /\ pc' = "handle"
      /\ rbuf # <<>> /\ rbuf' = Tail(rbuf) /\ req' = Head(rbuf)
      /\ rw' = [rw EXCEPT ![0] = [numwrite |-> 0, rid |-> r, hijacked |-> FALSE]]
      /\ handler' = [handler EXCEPT ![r] = "serving"]
  BY DEF HandleSync, opts, peer, out, Derived
<1>2. ReadInv' /\ rbuf' \in Seq(Ids) /\ r \in Ids /\ req < r
  BY <1>1, TakeHead DEF IndInv
<1> HIDE DEF r
<1>3. TypeOK'
  <2>1. rw' \in [Writers -> [numwrite : {0, 1}, rid : {0} \cup Ids, hijacked : BOOLEAN]]
    BY <1>1, <1>2 DEF IndInv, TypeOK
  <2> QED
    BY <1>1, <1>2, <2>1 DEF IndInv, TypeOK, r
<1>4. HandlerInv'
  <2>1. rw'[0].rid = r
    BY <1>1 DEF IndInv, TypeOK, Writers
  <2>2. ASSUME NEW s \in Ids, s # r
        PROVE  /\ handler'[s] = handler[s] /\ handler[s] \notin {"serving", "started", "returned"}
               /\ handler[s] # "none" => s <= r
    BY <1>1, <1>2, <2>2, LoopAssumption DEF IndInv, HandlerInv, TypeOK, Ids
  <2>3. handler'[r] = "serving" /\ r <= r
    BY <1>1, <1>2, LoopAssumption DEF IndInv, TypeOK, Ids
  <2> QED
    BY <1>1, <1>2, <2>1, <2>2, <2>3 DEF HandlerInv, WriterOf, r
<1>5. Answers' = Answers
  BY <1>1 DEF Answers
<1>6. AnsweredInv'
  <2> SUFFICES ASSUME NEW i \in DOMAIN Answers
               PROVE  handler'[Answers[i]] \in {"returned", "done"}
    BY <1>5 DEF AnsweredInv
  <2>1. Answers[i] \in Ids /\ Answers[i] # r
    BY <1>2, AnsweredBefore, LoopAssumption DEF IndInv, TypeOK, Ids
  <2>2. handler'[Answers[i]] = handler[Answers[i]]
    BY <1>1, <1>2, <2>1 DEF IndInv, TypeOK
  <2> QED
    BY <1>1, <2>1, <2>2 DEF IndInv, AnsweredInv, HandlerInv
<1>7. BypassInv' /\ OwnAnswer' /\ NotHeldBack'
  BY <1>1 DEF IndInv, BypassInv, OwnAnswer, NotHeldBack
<1>8. OnceInOrder'
  BY <1>1, <1>5 DEF IndInv, OnceInOrder
<1> QED
  BY <1>2, <1>3, <1>4, <1>6, <1>7, <1>8 DEF IndInv

LEMMA HandleAsyncInv == ASSUME IndInv, HandleAsync PROVE IndInv'
<1> DEFINE r == Head(rbuf)
<1>1. /\ UNCHANGED <<async, delayed, conn, inflight, kind, bw, bwerr, wire, hijacked, flushed,
                     rw, by>>
      /\ async /\ pc = "read" /\ pc' = "flush"
      /\ rbuf # <<>> /\ rbuf' = Tail(rbuf) /\ req' = Head(rbuf)
      /\ task' = [task EXCEPT ![r] = r]
      /\ handler' = [handler EXCEPT ![r] = "started"]
  BY DEF HandleAsync, opts, peer, out
<1>2. ReadInv' /\ rbuf' \in Seq(Ids) /\ r \in Ids /\ req < r
  BY <1>1, TakeHead DEF IndInv
<1> HIDE DEF r
<1>3. TypeOK'
  BY <1>1, <1>2 DEF IndInv, TypeOK, r
<1>4. HandlerInv'
  <2>1. ASSUME NEW s \in Ids, s # r
        PROVE  /\ handler'[s] = handler[s] /\ task'[s] = task[s]
               /\ handler[s] # "none" => s <= r
    BY <1>1, <1>2, <2>1, LoopAssumption DEF IndInv, HandlerInv, TypeOK, Ids
  <2>2. handler'[r] = "started" /\ task'[r] = r /\ r <= r
    BY <1>1, <1>2, LoopAssumption DEF IndInv, TypeOK, Ids
  <2> QED
    BY <1>1, <1>2, <2>1, <2>2 DEF IndInv, HandlerInv, WriterOf, r
<1>5. Answers' = Answers
  BY <1>1 DEF Answers
<1>6. AnsweredInv'
  <2> SUFFICES ASSUME NEW i \in DOMAIN Answers
               PROVE  handler'[Answers[i]] = handler[Answers[i]]
    BY <1>1, <1>5 DEF IndInv, AnsweredInv, WriterOf
  <2>1. Answers[i] \in Ids /\ Answers[i] # r
    BY <1>2, AnsweredBefore, LoopAssumption DEF IndInv, TypeOK, Ids
  <2> QED
    BY <1>1, <1>2, <2>1 DEF IndInv, TypeOK
<1>7. BypassInv' /\ OwnAnswer' /\ NotHeldBack'
  BY <1>1 DEF IndInv, BypassInv, OwnAnswer, NotHeldBack
<1>8. OnceInOrder'
  BY <1>1, <1>5 DEF IndInv, OnceInOrder
<1> QED
  BY <1>2, <1>3, <1>4, <1>6, <1>7, <1>8 DEF IndInv

-----------------------------------------------------------------------------
(* The goroutine of a request starts and ends; the loop's end.              *)

RwType == [Writers -> [numwrite : {0, 1}, rid : {0} \cup Ids, hijacked : BOOLEAN]]

LEMMA StartAsyncInv == ASSUME IndInv, NEW r \in Ids, StartAsync(r) PROVE IndInv'
<1>1. /\ UNCHANGED <<async, delayed, conn, inflight, kind, rbuf, req, bw, bwerr, wire, pc,
                     hijacked, flushed, task, by>>
      /\ async /\ handler[r] = "started" /\ handler' = [handler EXCEPT ![r] = "serving"]
      /\ rw' = [rw EXCEPT ![r] = [numwrite |-> 0, rid |-> task[r], hijacked |-> FALSE]]
  BY DEF StartAsync, opts, peer, out, loop, Derived, OwnRequest
<1>2. task[r] = r
  BY <1>1 DEF IndInv, HandlerInv
<1>3. TypeOK'
  <2>1. rw' \in RwType
    BY <1>1, <1>2 DEF IndInv, TypeOK, RwType
  <2> QED
    BY <1>1, <2>1 DEF IndInv, TypeOK, RwType
<1>4. ASSUME NEW s \in Ids
      PROVE  IF s = r THEN handler'[s] = "serving" /\ rw'[s].rid = s
             ELSE handler'[s] = handler[s] /\ rw'[s] = rw[s]
  BY <1>1, <1>2 DEF IndInv, TypeOK, Writers
<1>5. HandlerInv'
  BY <1>1, <1>4 DEF IndInv, HandlerInv, WriterOf
<1>6. Answers' = Answers
  BY <1>1 DEF Answers
<1>7. AnsweredInv'
  <2> SUFFICES ASSUME NEW i \in DOMAIN Answers
               PROVE  Answers[i] \in Ids /\ Answers[i] # r
    BY <1>1, <1>4, <1>6 DEF IndInv, AnsweredInv, WriterOf
  <2> QED
    BY <1>1, AnsweredBefore DEF IndInv, AnsweredInv
<1>8. ReadInv' /\ BypassInv' /\ OwnAnswer' /\ NotHeldBack'
  BY <1>1 DEF IndInv, ReadInv, Increasing, BypassInv, OwnAnswer, NotHeldBack
<1>9. OnceInOrder'
  BY <1>1, <1>6 DEF IndInv, OnceInOrder
<1> QED
  BY <1>3, <1>5, <1>7, <1>8, <1>9 DEF IndInv

LEMMA EndAsyncInv == ASSUME IndInv, NEW r \in Ids, EndAsync(r) PROVE IndInv'
<1>1. /\ UNCHANGED <<async, delayed, conn, inflight, kind, rbuf, req, bw, bwerr, wire, pc,
                     hijacked, flushed, by>>
      /\ handler[r] = "returned" /\ handler' = [handler EXCEPT ![r] = "done"]
      /\ rw' = [rw EXCEPT ![r] = [numwrite |-> 0, rid |-> 0, hijacked |-> FALSE]]
      /\ task' = [task EXCEPT ![r] = 0]
  BY DEF EndAsync, opts, peer, out, loop, Derived, Idle
<1>2. async
  BY <1>1 DEF IndInv, HandlerInv
<1>3. TypeOK'
  <2>1. rw' \in RwType
    BY <1>1 DEF IndInv, TypeOK, RwType
  <2> QED
    BY <1>1, <2>1 DEF IndInv, TypeOK, RwType
<1>4. ASSUME NEW s \in Ids
      PROVE  IF s = r THEN handler'[s] = "done"
             ELSE handler'[s] = handler[s] /\ rw'[s] = rw[s] /\ task'[s] = task[s]
  BY <1>1 DEF IndInv, TypeOK, Writers
<1>5. HandlerInv'
  BY <1>1, <1>2, <1>4 DEF IndInv, HandlerInv, WriterOf
<1>6. Answers' = Answers
  BY <1>1 DEF Answers
<1>7. AnsweredInv'
  <2>1. \A i \in DOMAIN Answers : Answers[i] \in Ids
    BY AnsweredBefore
  <2> QED
    BY <1>1, <1>2, <1>4, <1>6, <2>1 DEF IndInv, AnsweredInv, WriterOf
<1>8. ReadInv' /\ BypassInv' /\ OwnAnswer' /\ NotHeldBack'
  BY <1>1 DEF IndInv, ReadInv, Increasing, BypassInv, OwnAnswer, NotHeldBack
<1>9. OnceInOrder'
  BY <1>1, <1>6 DEF IndInv, OnceInOrder
<1> QED
  BY <1>3, <1>5, <1>7, <1>8, <1>9 DEF IndInv

(* What the buffer still holds at the end is dropped: a prefix stays.       *)
LEMMA ReturnInv == ASSUME IndInv, Return PROVE IndInv'
<1>1. /\ UNCHANGED <<async, delayed, inflight, kind, req, wire, hijacked, flushed, handler,
                     task, by>>
      /\ pc' = "done" /\ rbuf' = <<>> /\ bw' = <<>> /\ bwerr' = FALSE /\ conn' \in {conn, "closed"}
      /\ rw' = [rw EXCEPT ![0] = [numwrite |-> 0, rid |-> 0, hijacked |-> FALSE]]
      /\ \A r \in Ids : handler[r] \in {"none", "done"}
  BY DEF Return, AllDone, opts, peer, Derived, Idle
<1>2. rbuf' \in Seq(Ids) /\ bw' \in Seq(Ids) /\ Len(bw') = 0 /\ Len(rbuf') = 0
  BY <1>1, EmptySeq
<1>3. TypeOK'
  <2>1. rw' \in RwType
    BY <1>1 DEF IndInv, TypeOK, RwType
  <2>2. bwerr' \in BOOLEAN /\ conn' \in {"open", "eof", "broken", "closed"}
    BY <1>1, Zenon DEF IndInv, TypeOK
  <2> QED
    BY <1>1, <1>2, <2>1, <2>2, LoopAssumption DEF IndInv, TypeOK, RwType
<1>4. ReadInv'
  BY <1>1, <1>2 DEF IndInv, ReadInv, Increasing
<1>5. HandlerInv' /\ BypassInv' /\ OwnAnswer' /\ NotHeldBack'
  BY <1>1 DEF IndInv, HandlerInv, BypassInv, OwnAnswer, NotHeldBack
<1>6. Answers' = wire
  BY <1>1, ConcatEmptySeq DEF IndInv, TypeOK, Answers
<1>7. \A i \in DOMAIN wire : i \in DOMAIN Answers /\ Answers[i] = wire[i]
  <2>1. /\ Len(wire) \in Nat /\ Len(bw) \in Nat /\ Len(Answers) = Len(wire) + Len(bw)
        /\ Answers \in Seq(Ids)
        /\ \A i \in 1 .. Len(wire) + Len(bw) :
             Answers[i] = IF i <= Len(wire) THEN wire[i] ELSE bw[i - Len(wire)]
    BY ConcatProperties, LenProperties DEF IndInv, TypeOK, Answers
  <2>2. DOMAIN wire = 1 .. Len(wire) /\ DOMAIN Answers = 1 .. Len(wire) + Len(bw)
    BY <2>1, LenProperties DEF IndInv, TypeOK
  <2> QED
    BY <2>1, <2>2
<1>8. AnsweredInv'
  <2>1. \A i \in DOMAIN wire : wire[i] \in Ids /\ handler[wire[i]] \in {"serving", "returned", "done"}
    BY <1>7, AnsweredBefore DEF IndInv, AnsweredInv
  <2> QED
    BY <1>1, <1>6, <2>1 DEF AnsweredInv
<1>9. OnceInOrder'
  BY <1>1, <1>6, <1>7 DEF IndInv, OnceInOrder
<1> QED
  BY <1>3, <1>4, <1>5, <1>8, <1>9 DEF IndInv

-----------------------------------------------------------------------------
(* The handler works.                                                       *)

(* SofaResponseWriter.Write: what it does to the responses given, to the    *)
(* writer and to the history.                                               *)
LEMMA WriteKeeps ==
  ASSUME IndInv, NEW r \in Ids, handler[r] = "serving", Write(r)
  PROVE  /\ OutType' /\ (async => bw' = <<>>) /\ rw' \in RwType
         /\ by' \in [Ids -> {0} \cup Ids] /\ \A s \in Ids : by'[s] \in {0, s}
         /\ \A w \in Writers \ {WriterOf(r)} : rw'[w] = rw[w]
         /\ rw'[WriterOf(r)].rid = r
         /\ \/ Answers' = Answers
            \/ Answers' = Append(Answers, r) /\ rw'[WriterOf(r)].numwrite = 1
<1> DEFINE w == WriterOf(r)
<1>0. w \in Writers
  BY DEF WriterOf, Writers
<1>1. OutType /\ BypassInv /\ rw \in RwType /\ rw[w].rid = r
  BY DEF IndInv, TypeOK, OutType, RwType, HandlerInv
<1> HIDE DEF w
<1>2. ASSUME NEW n \in {0, 1}, rw' = [rw EXCEPT ![w].numwrite = n]
      PROVE  /\ rw' \in RwType /\ rw'[w].rid = r /\ rw'[w].numwrite = n
             /\ \A v \in Writers \ {w} : rw'[v] = rw[v]
  BY <1>0, <1>1, <1>2 DEF RwType
<1>3. CASE Accepts(r) /\ rw' = [rw EXCEPT ![w].numwrite = 1] /\ by' = [by EXCEPT ![r] = rw[w].rid]
  <2>1. OutType' /\ Answers' = Append(Answers, r) /\ (async => bw' = <<>>)
    BY <1>1, <1>3, AcceptsAppends DEF w
  <2>2. by' = [by EXCEPT ![r] = r]
    BY <1>1, <1>3
  <2>3. by' \in [Ids -> {0} \cup Ids] /\ \A s \in Ids : by'[s] \in {0, s}
    BY <2>2 DEF IndInv, TypeOK, OwnAnswer
  <2> QED
    BY <1>2, <1>3, <2>1, <2>3 DEF w
<1>4. CASE Rejects /\ UNCHANGED by /\ \E n \in {0, 1} : rw' = [rw EXCEPT ![w].numwrite = n]
  <2>1. OutType' /\ Answers' = Answers /\ (async => bw' = <<>>)
    BY <1>1, <1>4, RejectsKeeps
  <2>2. by' \in [Ids -> {0} \cup Ids] /\ \A s \in Ids : by'[s] \in {0, s}
    BY <1>4 DEF IndInv, TypeOK, OwnAnswer
  <2> QED
    BY <1>2, <1>4, <2>1, <2>2 DEF w
<1> QED
  BY <1>3, <1>4 DEF Write, w

(* A response that is given last keeps the responses apart and in order.    *)
LEMMA AppendInOrder ==
  ASSUME IndInv, NEW r \in Ids, handler[r] = "serving", rw[WriterOf(r)].numwrite = 0,
         UNCHANGED async, Answers' = Answers \/ Answers' = Append(Answers, r)
  PROVE  /\ OnceInOrder'
         /\ \A i \in DOMAIN Answers' :
              \/ Answers'[i] = r
              \/ \E j \in DOMAIN Answers : Answers'[i] = Answers[j]
<1>1. CASE Answers' = Answers
  BY <1>1 DEF IndInv, OnceInOrder
<1>2. CASE Answers' = Append(Answers, r)
  <2>1. Answers \in Seq(Ids) /\ Len(Answers) \in Nat
    BY ConcatProperties, LenProperties DEF IndInv, TypeOK, Answers
  <2>2. /\ DOMAIN Answers = 1 .. Len(Answers) /\ DOMAIN Answers' = 1 .. Len(Answers) + 1
        /\ \A i \in 1 .. Len(Answers) : Answers'[i] = Answers[i]
        /\ Answers'[Len(Answers) + 1] = r
    BY <1>2, <2>1, AppendProperties, LenProperties
  <2>3. \A i \in DOMAIN Answers : Answers[i] # r /\ (~async => Answers[i] < r)
    <3> SUFFICES ASSUME NEW i \in DOMAIN Answers
                 PROVE  Answers[i] # r /\ (~async => Answers[i] < r)
      OBVIOUS
    <3>1. Answers[i] \in Ids /\ Answers[i] <= req /\ Answers[i] # r
      BY AnsweredBefore DEF IndInv, AnsweredInv
    <3>2. ~async => r = req
      BY DEF IndInv, HandlerInv
    <3> QED
      BY <3>1, <3>2, LoopAssumption DEF Ids
  <2>4. ASSUME NEW i \in DOMAIN Answers', NEW j \in DOMAIN Answers'
        PROVE  /\ Answers'[i] = Answers'[j] => i = j
               /\ ~async /\ i < j => Answers'[i] < Answers'[j]
    <3>1. CASE i \in DOMAIN Answers /\ j \in DOMAIN Answers
      BY <2>2, <3>1 DEF IndInv, OnceInOrder
    <3>2. CASE i \in DOMAIN Answers /\ j = Len(Answers) + 1
      BY <2>1, <2>2, <2>3, <3>2
    <3>3. CASE i = Len(Answers) + 1
      BY <2>1, <2>2, <2>3, <2>4, <3>3
    <3> QED
      BY <2>1, <2>2, <2>4, <3>1, <3>2, <3>3
  <2>5. OnceInOrder'
    BY <2>4 DEF OnceInOrder
  <2> QED
    BY <2>1, <2>2, <2>5
<1> QED
  BY <1>1, <1>2

LEMMA HandlerWritesInv == ASSUME IndInv, NEW r \in Ids, HandlerWrites(r) PROVE IndInv'
<1>1. /\ UNCHANGED <<async, delayed, conn, inflight, kind, rbuf, req, pc, hijacked, flushed,
                     handler, task>>
      /\ handler[r] = "serving" /\ Write(r)
  BY DEF HandlerWrites, opts, peer, loop
<1>2. rw[WriterOf(r)].numwrite = 0
  BY <1>1 DEF Write, FirstWrite
<1>3. /\ OutType' /\ (async => bw' = <<>>) /\ rw' \in RwType
      /\ by' \in [Ids -> {0} \cup Ids] /\ \A s \in Ids : by'[s] \in {0, s}
      /\ \A w \in Writers \ {WriterOf(r)} : rw'[w] = rw[w]
      /\ rw'[WriterOf(r)].rid = r
      /\ \/ Answers' = Answers
         \/ Answers' = Append(Answers, r) /\ rw'[WriterOf(r)].numwrite = 1
  BY <1>1, WriteKeeps
<1>4. /\ OnceInOrder'
      /\ \A i \in DOMAIN Answers' :
           \/ Answers'[i] = r
           \/ \E j \in DOMAIN Answers : Answers'[i] = Answers[j]
  BY <1>1, <1>2, <1>3, AppendInOrder
<1>5. TypeOK'
  BY <1>1, <1>3 DEF IndInv, TypeOK, OutType, RwType
<1>6. \A s \in Ids : handler[s] = "serving" /\ s # r => async /\ rw'[WriterOf(s)] = rw[WriterOf(s)]
  BY <1>1, <1>3 DEF IndInv, HandlerInv, WriterOf, Writers
<1>7. HandlerInv'
  BY <1>1, <1>3, <1>6 DEF IndInv, HandlerInv, WriterOf
<1>8. AnsweredInv'
  <2> SUFFICES ASSUME NEW i \in DOMAIN Answers'
               PROVE  /\ handler[Answers'[i]] \in {"serving", "returned", "done"}
                      /\ handler[Answers'[i]] = "serving" => rw'[WriterOf(Answers'[i])].numwrite = 1
    BY <1>1 DEF AnsweredInv, WriterOf
  <2>1. \A j \in DOMAIN Answers : Answers[j] \in Ids /\ Answers[j] # r
    BY <1>1, <1>2, AnsweredBefore DEF IndInv, AnsweredInv
  <2>2. CASE Answers'[i] = r
    BY <1>1, <1>3, <2>1, <2>2
  <2>3. CASE \E j \in DOMAIN Answers : Answers'[i] = Answers[j]
    BY <1>6, <2>1, <2>3 DEF IndInv, AnsweredInv
  <2> QED
    BY <1>4, <2>2, <2>3
<1>9. ReadInv' /\ BypassInv' /\ OwnAnswer'
  BY <1>1, <1>3 DEF IndInv, ReadInv, Increasing, BypassInv, OwnAnswer
<1>10. NotHeldBack'
  BY <1>1, <1>3 DEF IndInv, HandlerInv, NotHeldBack
<1> QED
  BY <1>4, <1>5, <1>7, <1>8, <1>9, <1>10 DEF IndInv

LEMMA HandlerHijacksInv == ASSUME IndInv, NEW r \in Ids, HandlerHijacks(r) PROVE IndInv'
<1>1. /\ UNCHANGED <<async, delayed, conn, inflight, kind, rbuf, req, bw, bwerr, wire, pc,
                     hijacked, flushed, handler, task, by>>
      /\ rw' = [rw EXCEPT ![WriterOf(r)].hijacked = TRUE]
  BY DEF HandlerHijacks, opts, peer, out, loop
<1>2. WriterOf(r) \in Writers
  BY DEF WriterOf, Writers
<1>3. rw' \in RwType /\ \A w \in Writers : rw'[w].rid = rw[w].rid /\ rw'[w].numwrite = rw[w].numwrite
  BY <1>1, <1>2 DEF IndInv, TypeOK, RwType
<1>4. TypeOK'
  BY <1>1, <1>3 DEF IndInv, TypeOK, RwType
<1>5. \A s \in Ids : WriterOf(s)' = WriterOf(s) /\ WriterOf(s) \in Writers
  BY <1>1 DEF WriterOf, Writers
<1>6. HandlerInv'
  BY <1>1, <1>3, <1>5 DEF IndInv, HandlerInv
<1>7. Answers' = Answers
  BY <1>1 DEF Answers
<1>8. AnsweredInv'
  <2>1. \A i \in DOMAIN Answers : Answers[i] \in Ids
    BY AnsweredBefore
  <2> QED
    BY <1>1, <1>3, <1>5, <1>7, <2>1 DEF IndInv, AnsweredInv
<1>9. ReadInv' /\ BypassInv' /\ OwnAnswer' /\ NotHeldBack'
  BY <1>1 DEF IndInv, ReadInv, Increasing, BypassInv, OwnAnswer, NotHeldBack
<1>10. OnceInOrder'
  BY <1>1, <1>7 DEF IndInv, OnceInOrder
<1> QED
  BY <1>4, <1>6, <1>8, <1>9, <1>10 DEF IndInv

LEMMA HandlerReturnsInv == ASSUME IndInv, NEW r \in Ids, HandlerReturns(r) PROVE IndInv'
<1>1. /\ UNCHANGED <<async, delayed, conn, inflight, kind, rbuf, req, flushed, task>>
      /\ handler[r] = "serving"
      /\ handler' = [handler EXCEPT ![r] = IF async THEN "returned" ELSE "done"]
      /\ \/ rw[WriterOf(r)].numwrite = 0 /\ Write(r)
         \/ UNCHANGED <<out, rw, by>>
      /\ \/ async /\ UNCHANGED <<pc, hijacked>>
         \/ ~async /\ pc' = "flush" /\ hijacked' = rw[0].hijacked
  BY DEF HandlerReturns, opts, peer, loop
<1>2. /\ OutType' /\ (async => bw' = <<>>) /\ rw' \in RwType
      /\ by' \in [Ids -> {0} \cup Ids] /\ \A s \in Ids : by'[s] \in {0, s}
      /\ \A w \in Writers \ {WriterOf(r)} : rw'[w] = rw[w]
  <2>1. CASE Write(r)
    BY <1>1, <2>1, WriteKeeps
  <2>2. CASE UNCHANGED <<out, rw, by>>
    BY <2>2 DEF out, OutType, RwType, IndInv, TypeOK, BypassInv, OwnAnswer
  <2> QED
    BY <1>1, <2>1, <2>2
<1>3. /\ OnceInOrder'
      /\ \A i \in DOMAIN Answers' :
           \/ Answers'[i] = r
           \/ \E j \in DOMAIN Answers : Answers'[i] = Answers[j]
  <2>1. CASE rw[WriterOf(r)].numwrite = 0 /\ Write(r)
    <3>1. Answers' = Answers \/ Answers' = Append(Answers, r)
      BY <1>1, <2>1, WriteKeeps
    <3> QED
      BY <1>1, <2>1, <3>1, AppendInOrder
  <2>2. CASE UNCHANGED <<out, rw, by>>
    <3>1. Answers' = Answers
      BY <2>2 DEF Answers, out
    <3> QED
      BY <1>1, <3>1 DEF IndInv, OnceInOrder
  <2> QED
    BY <1>1, <2>1, <2>2
<1>4. hijacked' \in BOOLEAN
  BY <1>1 DEF IndInv, TypeOK, Writers
<1>5. TypeOK'
  BY <1>1, <1>2, <1>4 DEF IndInv, TypeOK, OutType, RwType
<1>6. \A s \in Ids \ {r} : /\ handler'[s] = handler[s]
                           /\ handler[s] = "serving" => async /\ rw'[WriterOf(s)] = rw[WriterOf(s)]
  BY <1>1, <1>2 DEF IndInv, TypeOK, HandlerInv, WriterOf, Writers
<1>7. handler'[r] \in {"returned", "done"} /\ (handler'[r] = "returned" => async) /\ r <= req
  BY <1>1 DEF IndInv, TypeOK, HandlerInv
<1>8. HandlerInv'
  BY <1>1, <1>6, <1>7 DEF IndInv, HandlerInv, WriterOf
<1>9. AnsweredInv'
  <2> SUFFICES ASSUME NEW i \in DOMAIN Answers'
               PROVE  /\ handler'[Answers'[i]] \in {"serving", "returned", "done"}
                      /\ handler'[Answers'[i]] = "serving" => rw'[WriterOf(Answers'[i])].numwrite = 1
    BY <1>1 DEF AnsweredInv, WriterOf
  <2>1. CASE Answers'[i] = r
    BY <1>7, <2>1
  <2>2. CASE Answers'[i] # r
    <3>1. PICK j \in DOMAIN Answers : Answers'[i] = Answers[j]
      BY <1>3, <2>2
    <3>2. Answers[j] \in Ids \ {r}
      BY <2>2, <3>1, AnsweredBefore
    <3> QED
      BY <1>6, <3>1, <3>2 DEF IndInv, AnsweredInv
  <2> QED
    BY <2>1, <2>2
<1>10. ReadInv' /\ BypassInv' /\ OwnAnswer'
  BY <1>1, <1>2 DEF IndInv, ReadInv, Increasing, BypassInv, OwnAnswer
<1>11. NotHeldBack'
  BY <1>1, <1>2 DEF IndInv, HandlerInv, NotHeldBack
<1> QED
  BY <1>3, <1>5, <1>8, <1>9, <1>10, <1>11 DEF IndInv

-----------------------------------------------------------------------------
LEMMA NextInv == ASSUME IndInv, [Next]_vars PROVE IndInv'
<1>1. CASE PeerEnds \/ ConnBreaks \/ ReadFails
  BY <1>1, ConnStepsInv
<1>2. CASE BeforeRead \/ AfterCommand \/ FinalFlush
  BY <1>2, FlushStepsInv
<1>3. CASE Fill \/ Refuse
  BY <1>3, FillInv, RefuseInv
<1>4. CASE HandleSync \/ HandleAsync \/ Return
  BY <1>4, HandleSyncInv, HandleAsyncInv, ReturnInv
<1>5. ASSUME NEW r \in Ids,
             StartAsync(r) \/ HandlerWrites(r) \/ HandlerHijacks(r) \/ HandlerReturns(r) \/ EndAsync(r)
      PROVE  IndInv'
  BY <1>5, StartAsyncInv, HandlerWritesInv, HandlerHijacksInv, HandlerReturnsInv, EndAsyncInv
<1>6. CASE UNCHANGED vars
  <2> USE <1>6 DEF IndInv, vars, opts, peer, out, loop, work
  <2>1. TypeOK'
    BY DEF TypeOK
  <2>2. ReadInv' /\ HandlerInv' /\ BypassInv' /\ OwnAnswer' /\ NotHeldBack'
    BY DEF ReadInv, Increasing, HandlerInv, WriterOf, BypassInv, OwnAnswer, NotHeldBack
  <2>3. Answers' = Answers
    BY DEF Answers
  <2>4. AnsweredInv' /\ OnceInOrder'
    BY <2>3 DEF AnsweredInv, WriterOf, OnceInOrder
  <2> QED
    BY <2>1, <2>2, <2>4
<1> QED
  BY <1>1, <1>2, <1>3, <1>4, <1>5, <1>6 DEF Next, Loop

(* The inductive invariant holds always.                                    *)
THEOREM IndInvHolds == Spec => []IndInv
<1>1. Init => IndInv
  BY InitInv
<1>2. IndInv /\ [Next]_vars => IndInv'
  BY NextInv
<1> QED
  BY <1>1, <1>2, PTL DEF Spec

(* Every variable of the read loop keeps its type: the buffered writer      *)
(* never holds more than it has room for (server.go:235-276).               *)
THEOREM TypeCorrect == Spec => []TypeOK
<1>1. IndInv => TypeOK
  BY DEF IndInv
<1> QED
  BY <1>1, IndInvHolds, PTL

(* Whatever the interleaving of the read loop and its goroutines, a handler *)
(* answers the request it was given (server.go:310-327, 343).               *)
THEOREM OwnAnswerHolds == Spec => []OwnAnswer
<1>1. IndInv => OwnAnswer
  BY DEF IndInv
<1> QED
  BY <1>1, IndInvHolds, PTL

(* No request is answered twice, and a synchronous server answers in order, *)
(* for any number of requests and any size of the buffer                    *)
(* (server.go:235-261, response_writer.go:183-185).                         *)
THEOREM OnceInOrderHolds == Spec => []OnceInOrder
<1>1. IndInv => OnceInOrder
  BY DEF IndInv
<1> QED
  BY <1>1, IndInvHolds, PTL

(* Without a flush interval nothing stays in the buffer while the loop      *)
(* waits for requests (server.go:226-230, 254, 278-289).                    *)
THEOREM NotHeldBackHolds == Spec => []NotHeldBack
<1>1. IndInv => NotHeldBack
  BY DEF IndInv
<1> QED
  BY <1>1, IndInvHolds, PTL

=============================================================================
