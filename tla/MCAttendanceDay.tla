--------------------------- MODULE MCAttendanceDay ---------------------------
(* Small instances of AttendanceDay. *)
EXTENDS AttendanceDay, TLC

\* A behaviour is not followed past its first window.
MCNoRaceYet == races = {}

\* Nor past four inputs: punches, leaves, requests, a day at home.
MCFewInputs ==
    punches + Cardinality({l \in Leaves : leave[l] # "OPEN"})
      + Cardinality({q \in Filings : ledger[q] # "none"})
      + (IF day.place = "WFH" THEN 1 ELSE 0) <= 4

MCSymmetry == Permutations(Requests) \cup Permutations(Half) \cup Permutations(Filings)
=============================================================================
