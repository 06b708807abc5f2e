------------------------------- MODULE Codec -------------------------------
(***************************************************************************)
(* sofabolt/command.go: commands are written to a connection one after the  *)
(* other and read at its other end, in three protocols: BOLT version 1 and  *)
(* 2, whose requests and responses are laid out differently, and            *)
(* TBRemoting.  The reader keeps one command, which it resets and reads     *)
(* into again and again; what it has read is copied for whoever handles it. *)
(*                                                                          *)
(* The stream may end anywhere.  Numbers of bytes that only feed metrics    *)
(* are left out, and so is the content of TBRemoting's connection object    *)
(* (Hessian), which is a string of bytes here.                              *)
(***************************************************************************)
EXTENDS HeaderCodec

CONSTANTS
  Commands,   \* the commands that may be written
  MaxFrames   \* bound on the commands written

ASSUME FramesAssumption == MaxFrames \in Nat

(* The fields of a command have the types of the Go struct.                 *)
IsTyped(c) ==
  /\ DOMAIN c = {"proto", "ver1", "typ", "cmdcode", "ver2", "rid", "codec", "switc", "timeout",
                 "status", "reserved", "connection", "class", "header", "content", "crc32",
                 "headers"}
  /\ {c.proto, c.ver1, c.typ, c.ver2, c.codec, c.switc, c.reserved} \subseteq Byte
  /\ {c.cmdcode, c.status} \subseteq 0 .. Uint16Max
  /\ {c.rid, c.timeout, c.crc32} \subseteq 0 .. Uint32Max
  /\ \A s \in {c.connection, c.class, c.header, c.content} : s \in Seq(Byte)
  /\ c.headers \in HeaderMaps

ASSUME CommandsAssumption == \A c \in Commands : IsTyped(c)

VARIABLES
  wire,    \* the bytes written and not read yet
  cut,     \* the stream has ended: nothing follows what is on the wire
  sent,    \* the commands written (history)
  cmd,     \* the reader's command
  nread,   \* how many commands were read (history)
  rerr,    \* the error that ended the reader, or "none"
  copy,    \* the pooled command that a handler works on
  held     \* what copy was made from: which command, and how

vars == <<wire, cut, sent, cmd, nread, rerr, copy, held>>

ProtoBOLTV1 == 1
ProtoBOLTV2 == 2
ProtoTBRemoting == 13
TypeBOLTResponse == 0
TypeBOLTRequest == 1
TypeBOLTRequestOneWay == 2
CMDCodeBOLTRequest == 1
CodecHessian2 == 1

Requests == {TypeBOLTRequest, TypeBOLTRequestOneWay}

(* The zero value of a Command.                                             *)
Zero ==
  [proto |-> 0, ver1 |-> 0, typ |-> 0, cmdcode |-> 0, ver2 |-> 0, rid |-> 0, codec |-> 0,
   switc |-> 0, timeout |-> 0, status |-> 0, reserved |-> 0, connection |-> <<>>,
   class |-> <<>>, header |-> <<>>, content |-> <<>>, crc32 |-> 0, headers |-> NoHeaders]

(* Mutant: the headers stay.                                                *)
ResetButHeaders(c) == [Zero EXCEPT !.headers = c.headers]

(* Command.Reset.                                                           *)
ResetCommand(c) == Zero

(* Request.Reset keeps three fields, which every read sets.                 *)
ResetRequest(c) ==
  [ResetCommand(c) EXCEPT !.proto = c.proto, !.typ = c.typ, !.cmdcode = c.cmdcode]

(* Command c with the fields that f has.                                    *)
With(c, f) == [k \in DOMAIN c |-> IF k \in DOMAIN f THEN f[k] ELSE c[k]]

-----------------------------------------------------------------------------
(* Writing.  A layout is a sequence of fields and their widths in bytes.    *)

BOLTV1 == << <<"proto", 1>>, <<"typ", 1>>, <<"cmdcode", 2>>, <<"ver2", 1>>, <<"rid", 4>>,
             <<"codec", 1>> >>
BOLTV2 == << <<"proto", 1>>, <<"ver1", 1>>, <<"typ", 1>>, <<"cmdcode", 2>>, <<"ver2", 1>>,
             <<"rid", 4>>, <<"codec", 1>>, <<"switc", 1>> >>
Timeout == << <<"timeout", 4>> >>
Status  == << <<"status", 2>> >>
Lengths == << <<"classLen", 2>>, <<"headerLen", 2>>, <<"contentLen", 4>> >>
TBRemoting == << <<"proto", 1>>, <<"cmdcode", 1>>, <<"codec", 1>>, <<"typ", 1>>, <<"zero", 1>>,
                 <<"connLen", 4>>, <<"classLen", 1>>, <<"contentLen", 4>> >>

(* What a frame says about the parts of a command, and about the command.   *)
Measured(c) ==
  [zero |-> 0, connLen |-> Len(c.connection), classLen |-> Len(c.class),
   headerLen |-> GetEncodeSize(c.headers), contentLen |-> Len(c.content)]

Value(c, f) == IF f \in DOMAIN c THEN c[f] ELSE Measured(c)[f]

Fixed(c, layout) ==
  FlattenSeq([i \in 1 .. Len(layout) |-> PutUint(Value(c, layout[i][1]), layout[i][2])])

Body(c) == c.class \o Encode(c.headers) \o c.content

(* crc32.Checksum: some function of the bytes.                              *)
Checksum(b) == Sum(b) % (Uint32Max + 1)

WithCRC(c, b) == IF c.switc > 0 THEN b \o PutUint(Checksum(b), 4) ELSE b

writeRequestCommandBOLTV1(c)  == Fixed(c, BOLTV1 \o Timeout \o Lengths) \o Body(c)
writeResponseCommandBOLTV1(c) == Fixed(c, BOLTV1 \o Status \o Lengths) \o Body(c)
writeRequestCommandBOLTV2(c)  ==
  WithCRC(c, Fixed(c, BOLTV2 \o Timeout \o Lengths) \o Body(c))
writeResponseCommandBOLTV2(c) ==
  WithCRC(c, Fixed(c, BOLTV2 \o Status \o Lengths) \o Body(c))
writeCommandTBRemoting(c) ==
  Fixed(c, TBRemoting) \o c.connection \o c.class \o c.content

Written(b) == [err |-> "none", bytes |-> b]
Refused(e) == [err |-> e, bytes |-> <<>>]

writeCommandBOLTV1(c) ==
  CASE c.typ \in Requests -> Written(writeRequestCommandBOLTV1(c))
    [] c.typ = TypeBOLTResponse -> Written(writeResponseCommandBOLTV1(c))
    [] OTHER -> Refused("type")

writeCommandBOLTV2(c) ==
  CASE c.typ \in Requests -> Written(writeRequestCommandBOLTV2(c))
    [] c.typ = TypeBOLTResponse -> Written(writeResponseCommandBOLTV2(c))
    [] OTHER -> Refused("type")

WriteCommand(c) ==
  CASE c.proto \in {0, ProtoBOLTV1} -> writeCommandBOLTV1(c)
    [] c.proto = ProtoBOLTV2 -> writeCommandBOLTV2(c)
    [] c.proto = ProtoTBRemoting -> Written(writeCommandTBRemoting(c))
    [] OTHER -> Refused("proto")

-----------------------------------------------------------------------------
(* Reading from position p of the bytes s.  A table gives for every field   *)
(* the part of b32, the bytes just read, that it is taken from.             *)

Fields(s, p, table) ==
  [f \in DOMAIN table |-> Uint(SubSeq(s, p + table[f][1] + 1, p + table[f][2]))]

Failed(e) == [err |-> e, cmd |-> Zero, used |-> 0]

(* The class, the headers, the content and the checksum behind n bytes of   *)
(* b32.  What a read that fails leaves in the command is nobody's business: *)
(* every caller gives it up.  The checksum is read and not compared.        *)
ReadBOLT(s, p, c, n, table) ==
  LET f       == Fields(s, p, table)
      class   == p + n
      header  == class + f.classLen
      content == header + f.headerLen
      crc     == content + f.contentLen
      end     == IF "switc" \in DOMAIN f /\ f.switc > 0 THEN crc + 4 ELSE crc
      decoded == Decode(c.headers, Ref(s, header, f.headerLen))
  IN  IF Len(s) < p + n \/ Len(s) < content THEN Failed("short")
      ELSE IF ~decoded.ok THEN Failed("header")
      ELSE IF Len(s) < end THEN Failed("short")
      ELSE [err  |-> "none", used |-> end,
            cmd  |-> With(With(c, f),
                          [class   |-> Ref(s, class, f.classLen),
                           header  |-> Ref(s, header, f.headerLen),
                           headers |-> decoded.map,
                           content |-> Ref(s, content, f.contentLen),
                           crc32   |-> IF end = crc THEN c.crc32 ELSE Uint(Ref(s, crc, 4))])]

ResponseV1Table ==
  [cmdcode |-> <<0, 2>>, ver2 |-> <<3, 4>>, rid |-> <<3, 7>>, codec |-> <<7, 8>>,
   status |-> <<8, 10>>, classLen |-> <<10, 12>>, headerLen |-> <<12, 14>>,
   contentLen |-> <<14, 18>>]
RequestV1Table ==
  [cmdcode |-> <<0, 2>>, ver2 |-> <<3, 4>>, rid |-> <<3, 7>>, codec |-> <<7, 8>>,
   timeout |-> <<8, 12>>, classLen |-> <<12, 14>>, headerLen |-> <<14, 16>>,
   contentLen |-> <<16, 20>>]
RequestV2Table ==
  [cmdcode |-> <<0, 2>>, ver2 |-> <<2, 3>>, rid |-> <<3, 7>>, codec |-> <<7, 8>>,
   switc |-> <<8, 9>>, timeout |-> <<9, 13>>, classLen |-> <<13, 15>>,
   headerLen |-> <<15, 17>>, contentLen |-> <<17, 21>>]
ResponseV2Table ==
  [cmdcode |-> <<0, 2>>, ver2 |-> <<2, 3>>, rid |-> <<3, 7>>, codec |-> <<7, 8>>,
   switc |-> <<8, 9>>, status |-> <<9, 11>>, classLen |-> <<11, 13>>,
   headerLen |-> <<13, 15>>, contentLen |-> <<15, 19>>]
TBTable ==
  [cmdcode |-> <<0, 1>>, codec |-> <<1, 2>>, typ |-> <<2, 3>>, reserved |-> <<3, 4>>,
   connLen |-> <<4, 8>>, classLen |-> <<8, 9>>, contentLen |-> <<9, 13>>]

readResponseCommandBOLTV1(s, p, c) == ReadBOLT(s, p, c, 18, ResponseV1Table)
readRequestCommandBOLTV1(s, p, c)  == ReadBOLT(s, p, c, 20, RequestV1Table)
readRequestCommandBOLTV2(s, p, c)  == ReadBOLT(s, p, c, 21, RequestV2Table)
readResponseCommandBOLTV2(s, p, c) == ReadBOLT(s, p, c, 19, ResponseV2Table)

readCommandTBRemoting(s, p, c) ==
  LET f       == Fields(s, p, TBTable)
      class   == p + 13 + f.connLen
      content == class + f.classLen
  IN  IF Len(s) < p + 13 \/ Len(s) < content + f.contentLen THEN Failed("short")
      ELSE [err |-> "none", used |-> content + f.contentLen,
            cmd |-> With(With(c, f),
                         [proto      |-> ProtoTBRemoting,
                          connection |-> Ref(s, p + 13, f.connLen),
                          class      |-> Ref(s, class, f.classLen),
                          content    |-> Ref(s, content, f.contentLen)])]

readCommandBOLTV1(s, p, c) ==
  LET d == [c EXCEPT !.typ = s[p + 1]] IN
  CASE Len(s) < p + 1 -> Failed("short")
    [] Len(s) >= p + 1 /\ s[p + 1] = TypeBOLTResponse -> readResponseCommandBOLTV1(s, p + 1, d)
    [] Len(s) >= p + 1 /\ s[p + 1] \in Requests -> readRequestCommandBOLTV1(s, p + 1, d)
    [] OTHER -> Failed("type")

readCommandBOLTV2(s, p, c) ==
  LET d == [c EXCEPT !.ver1 = s[p + 1], !.typ = s[p + 2]] IN
  CASE Len(s) < p + 2 -> Failed("short")
    [] Len(s) >= p + 2 /\ s[p + 2] = TypeBOLTResponse -> readResponseCommandBOLTV2(s, p + 2, d)
    [] Len(s) >= p + 2 /\ s[p + 2] \in Requests -> readRequestCommandBOLTV2(s, p + 2, d)
    [] OTHER -> Failed("type")

ReadCommand(s, c) ==
  LET d == [c EXCEPT !.proto = s[1], !.reserved = 0] IN
  CASE s = <<>> -> Failed("short")
    [] s # <<>> /\ s[1] \in {0, ProtoBOLTV1} -> readCommandBOLTV1(s, 1, d)
    [] s # <<>> /\ s[1] = ProtoBOLTV2 -> readCommandBOLTV2(s, 1, d)
    [] s # <<>> /\ s[1] = ProtoTBRemoting -> readCommandTBRemoting(s, 1, d)
    [] OTHER -> Failed("proto")

-----------------------------------------------------------------------------
(* Mutant: the headers are left behind, as ShallowCopyTo does.              *)
CopyToButHeaders(c, d) ==
  [c EXCEPT !.connection = d.connection, !.reserved = d.reserved, !.headers = d.headers]

(* CopyTo and ShallowCopyTo leave the destination its connection object,    *)
(* and the latter the headers too ("d.headers = d.headers").                *)
CopyTo(c, d) == [c EXCEPT !.connection = d.connection, !.reserved = d.reserved]
ShallowCopyTo(c, d) ==
  [c EXCEPT !.connection = d.connection, !.reserved = d.reserved, !.headers = d.headers]

(* AcquireRequest, of a pooled request that ReleaseRequest has reset.       *)
AcquireRequest(d) ==
  [d EXCEPT !.proto = ProtoBOLTV1, !.cmdcode = CMDCodeBOLTRequest,
            !.typ = TypeBOLTRequest, !.codec = CodecHessian2]

Nothing == [frame |-> 0, deep |-> FALSE]

Init ==
  /\ wire = <<>> /\ cut = FALSE /\ sent = <<>>
  /\ cmd = Zero /\ nread = 0 /\ rerr = "none"
  /\ copy = Zero /\ held = Nothing

(* A command is written unless it is refused.                               *)
Write(c) ==
  /\ ~cut /\ Len(sent) < MaxFrames
  /\ WriteCommand(c).err = "none"
  /\ wire' = wire \o WriteCommand(c).bytes
  /\ sent' = Append(sent, c)
  /\ UNCHANGED <<cut, cmd, nread, rerr, copy, held>>

(* The stream ends behind the first n bytes that are on their way.          *)
Cut(n) ==
  /\ ~cut /\ rerr = "none"
  /\ wire' = SubSeq(wire, 1, n)
  /\ cut' = TRUE
  /\ UNCHANGED <<sent, cmd, nread, rerr, copy, held>>

(* One round of a read loop: Reset and Read.  A read waits for what is      *)
(* missing unless the stream has ended; an error ends the loop.             *)
Read ==
  LET r == ReadCommand(wire, ResetRequest(cmd)) IN
  /\ rerr = "none" /\ (r.err = "short" => cut)
  /\ IF r.err = "none"
     THEN /\ cmd' = r.cmd /\ nread' = nread + 1
          /\ wire' = SubSeq(wire, r.used + 1, Len(wire))
          /\ UNCHANGED rerr
     ELSE rerr' = r.err /\ UNCHANGED <<cmd, nread, wire>>
  /\ UNCHANGED <<cut, sent, copy, held>>

(* handleCommandAsync copies the request into a pooled one.                 *)
HandOver ==
  /\ nread > 0 /\ rerr = "none" /\ held = Nothing
  /\ copy' = CopyTo(cmd, AcquireRequest(copy))
  /\ held' = [frame |-> nread, deep |-> TRUE]
  /\ UNCHANGED <<wire, cut, sent, cmd, nread, rerr>>

(* ClientConnBOLT.Dispatch makes a shallow copy, in a new Request or        *)
(* Response, of a command whose memory is its own.                          *)
Dispatch ==
  /\ nread > 0 /\ rerr = "none" /\ held = Nothing
  /\ copy' = ShallowCopyTo(cmd, Zero)
  /\ held' = [frame |-> nread, deep |-> FALSE]
  /\ UNCHANGED <<wire, cut, sent, cmd, nread, rerr>>

(* ReleaseRequest.                                                          *)
Release ==
  /\ held # Nothing
  /\ copy' = ResetRequest(copy) /\ held' = Nothing
  /\ UNCHANGED <<wire, cut, sent, cmd, nread, rerr>>

Next ==
  \/ \E c \in Commands : Write(c)
  \/ \E n \in 0 .. Len(wire) : Cut(n)
  \/ Read \/ HandOver \/ Dispatch \/ Release

Spec == Init /\ [][Next]_vars

-----------------------------------------------------------------------------
IsTB(c) == c.proto = ProtoTBRemoting
IsV2(c) == c.proto = ProtoBOLTV2

(* What the frame of a command has room for.                                *)
Fits(c) ==
  /\ Len(c.class) <= (IF IsTB(c) THEN Base - 1 ELSE Uint16Max)
  /\ IsTB(c) => c.cmdcode < Base
  /\ GetEncodeSize(c.headers) <= Uint16Max
  /\ Len(c.connection) <= Uint32Max /\ Len(c.content) <= Uint32Max

(* The frames up to n can be told apart.                                    *)
FitUpTo(n) == \A i \in 1 .. n : Fits(sent[i])

(* The fields that the frame of command c carries.                          *)
Carried(c) ==
  CASE IsTB(c) -> {"proto", "cmdcode", "codec", "typ", "connection", "class", "content"}
    [] ~IsTB(c) -> {"proto", "typ", "cmdcode", "rid", "codec", "class", "content"}
                     \cup (IF IsV2(c) THEN {"ver1", "ver2", "switc"} ELSE {})
                     \cup (IF c.typ \in Requests THEN {"timeout"} ELSE {"status"})

(* Header maps that answer every Get alike.                                 *)
SameHeaders(m, n) == m.field = n.field /\ ToSet(m.kvs) = ToSet(n.kvs)

(* Command d is what a peer makes of the frame of command c: the carried    *)
(* fields are c's, the others zero (version 1's ver2 apart).                *)
Same(c, d) ==
  /\ \A f \in Carried(c) : d[f] = c[f]
  /\ \A f \in {"ver1", "switc", "timeout", "status", "connection"} \ Carried(c) : d[f] = Zero[f]
  /\ ~IsTB(c) => SameHeaders(c.headers, d.headers)
  /\ IsTB(c) => d.headers = NoHeaders /\ d.rid = 0
  /\ d.crc32 = IF IsV2(c) /\ c.switc > 0
               THEN Checksum(SubSeq(WriteCommand(c).bytes, 1, Len(WriteCommand(c).bytes) - 4))
               ELSE 0

TypeOK ==
  /\ wire \in Seq(Byte) /\ cut \in BOOLEAN
  /\ sent \in Seq(Commands) /\ nread \in Nat
  /\ \A c \in {cmd, copy} :
        /\ {c.proto, c.ver1, c.typ, c.ver2, c.codec, c.switc, c.reserved} \subseteq Byte
        /\ {c.cmdcode, c.status} \subseteq 0 .. Uint16Max
        /\ {c.rid, c.timeout, c.crc32} \subseteq 0 .. Uint32Max
  /\ rerr \in {"none", "short", "proto", "type", "header"}
  /\ held \in [frame : 0 .. nread, deep : BOOLEAN]

(* Every command that is read is the one that was written at its place in   *)
(* the stream, whatever the protocols and the headers of the commands read  *)
(* into the same memory before it: nothing of them remains, and no length   *)
(* or offset is off by anything (command.go:204-224, 432-664, 667-1094).    *)
InStep ==
  nread > 0 /\ FitUpTo(Min({nread, Len(sent)})) =>
    nread <= Len(sent) /\ Same(sent[nread], cmd)

(* The only error a reader sees is the end of the stream, and only when     *)
(* less than the next frame is left: a frame cut anywhere is never taken    *)
(* for a command or for a malformed one (command.go:667-1094,               *)
(* fast_simplemap.go:203-248).                                              *)
OnlyCutsFail ==
  rerr # "none" /\ FitUpTo(Len(sent)) =>
    /\ rerr = "short" /\ cut
    /\ nread < Len(sent) => Len(wire) < Len(WriteCommand(sent[nread + 1]).bytes)

(* The request a handler works on is the one that was read, whatever the    *)
(* reader reads meanwhile and whatever its pooled memory held; TBRemoting's *)
(* connection object is not copied, and a shallow copy has no headers       *)
(* (command.go:263-301, server.go:310-312, clientx_bolt.go:108-119).        *)
CopyIsWhole ==
  held # Nothing /\ FitUpTo(Min({held.frame, Len(sent)})) =>
    LET c == sent[held.frame] IN
    /\ \A f \in Carried(c) \ {"connection"} : copy[f] = c[f]
    /\ SameHeaders(IF held.deep /\ ~IsTB(c) THEN c.headers ELSE NoHeaders, copy.headers)

(* What is written is read again, ver2 included: the diagrams put it        *)
(* between cmdcode and requestId (command.go:592, 794, 859).                *)
Ver2RoundTrip ==
  nread > 0 /\ FitUpTo(Min({nread, Len(sent)})) /\ ~IsTB(sent[nread]) =>
    cmd.ver2 = sent[nread].ver2

=============================================================================
