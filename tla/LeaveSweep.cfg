\* Liveness of the auto-approve sweep; no symmetry.
SPECIFICATION FairSpec
CONSTANTS
    Leaves = {l1, l2}
    Encashments = {}
    Requests = {h1}
    Sweep = sweep
    Dates <- MCDates
    Ranges <- MCOneRange
    Years <- MCYears
    YearOf <- MCYearOf
    Months <- MCMonths
    MonthOf <- MCMonthOf
    Quota = 2
    Quotas <- MCQuotas
    AdjustDays <- MCAdjustDays
    AdjustLimit = 1
    EncashDays = {1}
    TwoLevel = FALSE
    HasManager = TRUE
    Kinds = {"cancel", "sweep", "lock", "replace", "decide"}
PROPERTY SweepDecides
CHECK_DEADLOCK FALSE
