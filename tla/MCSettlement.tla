----------------------------- MODULE MCSettlement -----------------------------
(* Small instances of Settlement. *)
EXTENDS Settlement, TLC

\* A behaviour is not followed past its first window.
MCNoRaceYet == races = {}

MCSymmetry == Permutations(Requests) \cup Permutations(Runs) \cup Permutations(Claims)
=============================================================================
