---------------------------- MODULE BlockSnapshot ----------------------------
(***************************************************************************)
(* What the shared block promises its readers: a publisher replaces the    *)
(* whole block in one step and a read returns the block of one instant, or *)
(* nothing at all.  Seqlock implements it word by word and without a lock. *)
(***************************************************************************)
CONSTANT Values

VARIABLES snapshot,  \* the block, named by the publish that wrote it
          seen       \* the publishes a read's result stems from

Init    == snapshot \in Values /\ seen = {}
Publish == snapshot' \in Values /\ UNCHANGED seen
Load    == seen' = {snapshot} /\ UNCHANGED snapshot
GiveUp  == seen' = {} /\ UNCHANGED snapshot
Next    == Publish \/ Load \/ GiveUp

Spec == Init /\ [][Next]_<<snapshot, seen>>
=============================================================================
