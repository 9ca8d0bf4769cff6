\* A forgotten punch-out, corrected and approved, then the jobs of the night.
SPECIFICATION Spec
CONSTANTS
    Requests = {h1}
    Full = {}
    Half = {}
    Filings = {q1}
    NoFiling = NoFiling
    Kinds = {"regularize"}
INVARIANT ApprovedTimesStand
CHECK_DEADLOCK FALSE
