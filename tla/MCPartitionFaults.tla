------------------------- MODULE MCPartitionFaults -------------------------
(* PartitionFaults on small instances.                                     *)
EXTENDS PartitionFaults

CONSTANTS small, large

MCPayload == {small, large}
MCPayloadSize == [p \in Payload |-> IF p = small THEN 0 ELSE 2]
=============================================================================
