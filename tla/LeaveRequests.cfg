\* Applications, edits, reviews, the sweep, cancellations and recorded leave.
SPECIFICATION Spec
CONSTANTS
    Leaves = {l1, l2}
    Encashments = {}
    Requests = {h1, h2}
    Sweep = sweep
    Dates <- MCDates
    Ranges <- MCRanges
    Years <- MCYears
    YearOf <- MCYearOf
    Months <- MCMonths
    MonthOf <- MCMonthOf
    Quota = 2
    Quotas <- MCQuotas
    AdjustDays <- MCAdjustDays
    AdjustLimit = 1
    EncashDays = {1}
    TwoLevel = TRUE
    HasManager = TRUE
    Kinds = {"decide", "replace", "cancel", "record", "sweep"}
SYMMETRY MCSymmetry
INVARIANTS
    TypeOK
    NoDoubleBooking
    PendingIsHeld
    AvailedIsTaken
    AttendanceFollowsLeave
    LevelOneRespected
PROPERTY LifeSpec
CHECK_DEADLOCK FALSE
