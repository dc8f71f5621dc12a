---------------------------- MODULE MCPartition ----------------------------
(***************************************************************************)
(* Partition on small instances.  An empty payload and one of two bytes    *)
(* give records of one and three bytes, so that with MaxSegmentSize = 2 a  *)
(* segment overflows exactly, by a record or after several.                *)
(***************************************************************************)
EXTENDS Partition

CONSTANTS small, large

MCPayload == {small, large}
MCPayloadSize == [p \in Payload |-> IF p = small THEN 0 ELSE 2]
=============================================================================
