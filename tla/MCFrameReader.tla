--------------------------- MODULE MCFrameReader ---------------------------
(* A head of two bytes and a block of four, doubled twice at most: bodies  *)
(* of every length from none to one that outgrows what one aread allows,   *)
(* two commands long.                                                      *)
EXTENDS FrameReader, FiniteSets

CONSTANT Lengths \* of bodies

StreamOf(first, second) ==
  [n \in 0 .. 2 |->
     CASE n = 0 -> 0
       [] n = 1 -> CMD_PREFIX_BYTE + first
       [] n = 2 -> 2 * CMD_PREFIX_BYTE + first + second]

MCStreams == {StreamOf(first, second) : first, second \in Lengths}
=============================================================================
