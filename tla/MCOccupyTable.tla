--------------------------- MODULE MCOccupyTable ---------------------------
(***************************************************************************)
(* Words of three bits, at most four of them: the table fills, grows       *)
(* twice, is emptied and refilled, and loses bits until no position is     *)
(* left.  Bits are set at a position inside a word and at the last         *)
(* position of one.                                                        *)
(***************************************************************************)
EXTENDS OccupyTable

MCBitPosition == {2, SLOT_SIZE}
=============================================================================
