\* Two handlers, two final runs, one claim, a loan of one, a day of leave.
SPECIFICATION Spec
CONSTANTS
    Requests = {h1, h2}
    Runs = {r1, r2}
    NoRun = NoRun
    Claims = {c1}
    Principal = 1
    Entitled = 1
SYMMETRY MCSymmetry
CONSTRAINT MCNoRaceYet
INVARIANTS
    TypeOK
    BookedAsFigured
    LoanAddsUp
    PaidOnce
CHECK_DEADLOCK FALSE
