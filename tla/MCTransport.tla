---------------------------- MODULE MCTransport ----------------------------
(* Small instances of Transport for TLC. *)
EXTENDS Transport

\* With two byte values a length prefix holds at most 3: the last message is
\* one byte too long for Encrypt. <<1, 0>> has, like a length prefix, two bytes.
SmallMessages == {<<>>, <<1, 0>>, <<0, 0, 0, 0>>}

BothWays == [p \in Peers |-> IF p = "initiator" THEN 3 ELSE 1]

OneWay == [p \in Peers |-> IF p = "initiator" THEN 3 ELSE 0]
=============================================================================
