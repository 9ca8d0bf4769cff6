------------------------------ MODULE MCExitCase ------------------------------
(* Small instances of ExitCase. *)
EXTENDS ExitCase, TLC

\* A behaviour is not followed past its first window.
MCNoRaceYet == races = {}

\* Nor with two in flight of the handlers that draft a settlement and link it.
MCFewInFlight == Cardinality(InFlight({"sweep", "draft", "prepare", "attach"})) <= 1

\* Nobody looks at the clearance of a closed exit: one value of it is followed.
MCOneClearance ==
    \A c \in Cases : exit[c].status \in {"COMPLETED", "CANCELLED"} =>
        (exit[c].cleared <=> exit[c].status = "COMPLETED")

MCSymmetry == Permutations(Resignations) \cup Permutations(Cases)
                \cup Permutations(Requests)
=============================================================================
