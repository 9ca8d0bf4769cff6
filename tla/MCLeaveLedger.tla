---------------------------- MODULE MCLeaveLedger ----------------------------
(* Small instances of LeaveLedger: two leave years that meet between the    *)
(* third and the fourth day, so that a range may straddle the boundary and  *)
(* the quota of the first year may run out.                                 *)
EXTENDS LeaveLedger, TLC

MCDates  == 1..4
MCYears  == 1..2
MCYearOf == [d \in MCDates |-> IF d <= 3 THEN 1 ELSE 2]

\* One payroll month covers the first leave year's days, another the rest.
MCMonths  == {"dec", "jan"}
MCMonthOf == [d \in MCDates |-> IF d <= 3 THEN "dec" ELSE "jan"]

\* One day, two days that overlap it, and a range that straddles the years: the
\* last two together need three days of the first year.
MCRanges == {{1}, {1, 2}, {3, 4}}

MCOneRange == {{1}, {3, 4}}

\* Past the first window nothing more is claimed of the ledger as a whole.
MCFewRaces == Cardinality(races) <= 1

MCSymmetry == Permutations(Leaves) \cup Permutations(Requests)
                \cup Permutations(Encashments)

MCQuotas     == {1}
MCAdjustDays == {-1}
=============================================================================
