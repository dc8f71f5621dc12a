----------------------------- MODULE MCSegment -----------------------------
(***************************************************************************)
(* Segment on small instances.  The words of a payload are taken for       *)
(* offsets and sizes when a scan falls into the middle of a record:        *)
(* MCSigned has one that leads the scan back to where it is, and one that  *)
(* leads it before the start of the file.                                  *)
(***************************************************************************)
EXTENDS Segment

MCPayload == {<<>>, <<1>>, <<0, 2>>}
MCSigned == {<<>>, <<1>>, <<0, -2>>, <<0, -9>>}
=============================================================================
