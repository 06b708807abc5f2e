------------------------------ MODULE MCCodec ------------------------------
(***************************************************************************)
(* Commands of every format for TLC.  Header names of one byte up to 4 are *)
(* the special ones.                                                        *)
(***************************************************************************)
EXTENDS Codec

(* A special header, and another one, with an empty value or not.           *)
Headers(host, v) ==
  [field |-> [i \in 1 .. 4 |-> IF i = 2 THEN host ELSE <<>>], kvs |-> <<<<<<7>>, v>>>>]

Plain == [Zero EXCEPT !.proto = 1, !.typ = 1, !.cmdcode = 1, !.rid = 3, !.codec = 1]

(* The fields with their largest values or close to them; the rid has a     *)
(* first byte other than 0.                                                 *)
Full == [Zero EXCEPT !.ver1 = 2, !.cmdcode = 2, !.ver2 = 5, !.rid = Uint32Max - 1, !.codec = 12,
                     !.class = <<9, 9>>, !.headers = Headers(<<5>>, <<6>>), !.content = <<8>>]

V1Request  == [Full EXCEPT !.proto = 1, !.typ = 1, !.timeout = Uint32Max]
V1OneWay   == [Plain EXCEPT !.proto = 0, !.typ = 2, !.headers = Headers(<<>>, <<>>)]
V1Response == [Full EXCEPT !.proto = 1, !.typ = 0, !.status = 18, !.headers = Headers(<<2>>, <<>>)]
V2Request  == [Full EXCEPT !.proto = 2, !.typ = 1, !.switc = 1, !.timeout = 1]
V2OneWay   == [Plain EXCEPT !.proto = 2, !.typ = 2, !.ver1 = 1]
V2Response == [Full EXCEPT !.proto = 2, !.typ = 0, !.switc = 1, !.status = 1]
TBTwoWay   == [Zero EXCEPT !.proto = 13, !.cmdcode = 13, !.codec = 4, !.typ = 2,
                           !.connection = <<1, 2>>, !.class = <<3>>, !.content = <<4, 5>>]

(* A class name longer than its length field can say.                       *)
TBLong == [TBTwoWay EXCEPT !.class = [i \in 1 .. 17 |-> 1]]

NoProto == [Plain EXCEPT !.proto = 3]
NoType  == [Plain EXCEPT !.typ = 3]

AllCommands == {V1Request, V1OneWay, V1Response, V2Request, V2OneWay, V2Response, TBTwoWay,
                TBLong, NoProto, NoType}
V1Commands  == {V1Request, V1Response}

=============================================================================
