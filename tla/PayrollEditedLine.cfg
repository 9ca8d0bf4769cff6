\* An edited earnings list loses the ids of its encashments.
SPECIFICATION Spec
CONSTANTS
    r1 = r1
    r2 = r2
    p1 = p1
    p2 = p2
    Runs = {r1, r2}
    Periods = {p1, p2}
    PeriodOf <- MCTwoMonths
    NoRun = NoRun
    Actors = {admin}
    Admins = {admin}
    NoOne = NoOne
    Requests = {h1}
    Encashments = {e1}
    Principal = 0
    Emi = 1
    EditedEmis = {2}
    Repayments = {1}
    Changes = 0
    Kinds = {"adjust"}
INVARIANT NeverPaidTwice
CHECK_DEADLOCK FALSE
