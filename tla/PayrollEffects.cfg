\* What locks settle: two months, one encashment, one loan.
SPECIFICATION Spec
CONSTANTS
    r1 = r1
    r2 = r2
    p1 = p1
    p2 = p2
    Runs = {r1, r2}
    Periods = {p1, p2}
    PeriodOf <- MCTwoMonths
    NoRun = NoRun
    Actors = {admin}
    Admins = {admin}
    NoOne = NoOne
    Requests = {h1, h2}
    Encashments = {e1}
    Principal = 2
    Emi = 1
    EditedEmis = {2}
    Repayments = {1}
    Changes = 0
    Kinds = {"unlock", "reapply", "repay", "process", "fail", "stop"}
CONSTRAINTS MCFewRaces MCSettling MCOneRepayment
SYMMETRY MCMonthSymmetry
INVARIANTS
    SettledAsPrinted
    SettledIsPrinted
    ChargedOnce
    LoanAddsUp
CHECK_DEADLOCK FALSE
