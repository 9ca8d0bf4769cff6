\* Two handlers, a full and two half leaves, two requests.
SPECIFICATION Spec
CONSTANTS
    Requests = {h1, h2}
    Full = {f1}
    Half = {g1, g2}
    Filings = {q1, q2}
    NoFiling = NoFiling
    Kinds = {"regularize", "import", "wfh"}
SYMMETRY MCSymmetry
CONSTRAINTS MCNoRaceYet MCFewInputs
INVARIANTS
    TypeOK
    DayPaidAsDone
    RequestsFollowDay
    WfhDecidedOnce
CHECK_DEADLOCK FALSE
