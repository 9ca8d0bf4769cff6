--------------------------- MODULE MCPayrollRun ---------------------------
(* Instances of PayrollRun for TLC: two runs of one month (the second for a  *)
(* month that is deleted and run again), or one run in each of two months.   *)
EXTENDS PayrollRun, TLC

CONSTANTS r1, r2, p1, p2

MCSameMonth == r1 :> p1
MCTwoMonths == (r1 :> p1) @@ (r2 :> p2)

MCSymmetry == Permutations(Requests)

\* Months have no order in PayrollRun, so the two may be swapped with their runs.
MCSame == (r1 :> r1) @@ (r2 :> r2) @@ (p1 :> p1) @@ (p2 :> p2)
MCSwap == (r1 :> r2) @@ (r2 :> r1) @@ (p1 :> p2) @@ (p2 :> p1)
MCMonthSymmetry == {f @@ g : f \in MCSymmetry, g \in {MCSame, MCSwap}}

\* Nothing more is asked of a behaviour that fell into two kinds of window.
MCFewRaces == races \subseteq {"failed", "stopped"} /\ Cardinality(races) <= 1

\* Holds are placed on signed-off runs.
MCLateHolds == \A r \in Runs : row[r].held => row[r].status \in SignedOff

\* Two handlers are in flight at once only when both settle something.
MCSettling ==
    \A g, h \in Requests :
        op[g] # Idle /\ op[h] # Idle /\ g # h =>
            g \in Settling \/ op[g].kind = "repay"

\* HR enters one repayment, of either month.
MCOneRepayment == Cardinality({i \in DOMAIN repaid : repaid[i].run = NoRun}) <= 1
===========================================================================
