\* A half-day leave on a day without a punch, then the jobs of the night.
SPECIFICATION Spec
CONSTANTS
    Requests = {h1}
    Full = {}
    Half = {g1}
    Filings = {}
    NoFiling = NoFiling
    Kinds = {}
INVARIANT HalfLeavePaysHalf
CHECK_DEADLOCK FALSE
