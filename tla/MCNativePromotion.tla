-------------------------- MODULE MCNativePromotion --------------------------
(* Small instances of NativePromotion for TLC. *)
EXTENDS NativePromotion

CONSTANTS c0, c1, c2, alice, bob

\* c0 -> c1 -> c2: the second promotion builds on the first.
Chain == {x \in Commits \X Commits : x[1] = x[2] \/ x[1] = c0 \/ x[2] = c2}

\* c0 -> c1, c0 -> c2: two proposals compete for one head.
Fork == {x \in Commits \X Commits : x[1] = x[2] \/ x[1] = c0}

\* A path rule adds bob to every change of the tree.
PathRules == [x \in Commits \X Commits |->
                IF x[1] # x[2] THEN {alice, bob} ELSE {alice}]

OnlyAlice == [x \in Commits \X Commits |-> {alice}]
=============================================================================
