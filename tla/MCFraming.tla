------------------------------ MODULE MCFraming ------------------------------
(***************************************************************************)
(* Bytes are 0..7 and STARTCHAR is 6, so that a length, a data byte and a   *)
(* checksum can be STARTCHAR: frames of 5 to 8 bytes, lengths of one byte   *)
(* (5, 6, 7) and of two (8).  The checksum tells any two frames that differ *)
(* in one byte apart.                                                       *)
(***************************************************************************)
EXTENDS Framing

MCCrc(s) ==
    LET sum[i \in 0..Len(s)] == IF i = 0 THEN 0 ELSE sum[i - 1] + (2 * i + 1) * s[i]
    IN sum[Len(s)] % (Base * Base)

MCPayloads == {<<>>, <<6>>, <<0, 6>>, <<1, 6, 0>>}
MCPreambles == {<<1>>, <<6, 0, 1>>, <<6, 5, 0>>}
=============================================================================
