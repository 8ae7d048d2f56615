--------------------------- MODULE MCSimUartLink ---------------------------
(* SimUartLink with two-bit bytes and a two-byte buffer. *)
EXTENDS SimUartLink

B(hi, lo) == [b \in 0 .. 1 |-> IF b = 0 THEN lo ELSE hi]

\* No data, one byte, two different bytes, and one byte too many.
MCTxData == {<<>>, <<B(1, 0)>>, <<B(0, 1), B(0, 0)>>, <<B(1, 1), B(1, 1), B(1, 1)>>}
=============================================================================
