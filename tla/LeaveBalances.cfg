\* Encashments, corrections and quota edits against applications and reviews.
SPECIFICATION Spec
CONSTANTS
    Leaves = {l1, l2}
    Encashments = {e1}
    Requests = {h1, h2}
    Sweep = sweep
    Dates <- MCDates
    Ranges <- MCOneRange
    Years <- MCYears
    YearOf <- MCYearOf
    Months <- MCMonths
    MonthOf <- MCMonthOf
    Quota = 2
    Quotas <- MCQuotas
    AdjustDays <- MCAdjustDays
    AdjustLimit = 1
    EncashDays = {1}
    TwoLevel = FALSE
    HasManager = TRUE
    Kinds = {"decide", "adjust", "encash", "reconcile"}
CONSTRAINT MCFewRaces
SYMMETRY MCSymmetry
INVARIANTS
    NeverOverdrawn
CHECK_DEADLOCK FALSE
