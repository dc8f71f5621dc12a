----------------------------- MODULE CommitLog -----------------------------
(***************************************************************************)
(* What one partition of mykafka promises to its producers and consumers:  *)
(* an append-only log whose messages are numbered without a hole, that     *)
(* forgets messages from its old end only, until it is deleted as a whole. *)
(* A message keeps its offset for as long as it is kept, and the offset of *)
(* a message forgotten is not given to another.                            *)
(*                                                                         *)
(* Partition.tla and Segment.tla are shown to implement this module.       *)
(***************************************************************************)
EXTENDS Naturals

CONSTANT Payload    \* the messages producers send

VARIABLES messages, \* the messages kept: offset -> payload
          next      \* the offset the next message will have

vars == <<messages, next>>

NoMessages == [o \in {} |-> o]

Init == messages = NoMessages /\ next \in Nat

\* A producer's message is given the next offset.
AppendMessage(p) ==
  /\ messages' = [o \in DOMAIN messages \cup {next} |->
                    IF o = next THEN p ELSE messages[o]]
  /\ next' = next + 1

\* Retention forgets the messages below offset f.
Trim(f) ==
  /\ messages' = [o \in {q \in DOMAIN messages : q >= f} |-> messages[o]]
  /\ next' = next

\* The log is deleted; one created later starts again at offset 0.
Destroy == messages' = NoMessages /\ next' = 0

Next == \/ \E p \in Payload : AppendMessage(p)
        \/ \E f \in 1 .. next : Trim(f)
        \/ Destroy

Spec == Init /\ [][Next]_vars

\* The messages kept have consecutive offsets ending just below next.
Contiguous == \E f \in 0 .. next : DOMAIN messages = f .. next - 1

TypeOK == messages \in [DOMAIN messages -> Payload] /\ next \in Nat
=============================================================================
