------------------------------ MODULE MCCompOff ------------------------------
(* Small instances of CompOff. *)
EXTENDS CompOff, TLC

\* A day claimed twice is not followed further, and of the other windows one at a
\* time; a credit may lapse besides.
MCFewRaces ==
    /\ "claim" \notin races
    /\ Cardinality(races \ {"lapse"}) <= 1

MCSymmetry == Permutations(Credits) \cup Permutations(Leaves)
                \cup Permutations(Requests)
=============================================================================
