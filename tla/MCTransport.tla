---------------------------- MODULE MCTransport ----------------------------
(* Instances of Transport for TLC.  The numbers of a HELLO line are one      *)
(* version the server knows, one it does not, and one that the cast to int   *)
(* turns into another; the long line has more numbers than there are places. *)
EXTENDS Transport

Number(v) == [kind |-> "number", value |-> v]
Comma == [kind |-> "comma", value |-> 0]
Other == [kind |-> "other", value |-> 0]

MCLines ==
    UNION {[1 .. n -> {Number(2), Number(3), Number(Modulus + 1), Comma, Other}]
             : n \in 0 .. 3}
    \cup {<<Number(1), Comma, Number(2), Comma, Number(3)>>}
MCOne == {<<Number(1)>>}
MCTwo == {<<Number(2)>>}
MCEither == MCOne \cup MCTwo
=============================================================================
