\* Two credits, two leaves and two handlers over three days.
SPECIFICATION Spec
CONSTANTS
    Credits = {c1, c2}
    Leaves = {l1, l2}
    Requests = {h1, h2}
    LastDay = 2
    OffDays = {0, 1}
    ExpiryDays = {0, 1}
    LoggedDays = {0}
    Earnings = {2}
    LeaveDays = {1, 2}
    StartDays = {2}
SYMMETRY MCSymmetry
CONSTRAINT MCFewRaces
INVARIANTS
    TypeOK
    TakenIsCovered
    CreditsAddUp
    OneDayOneBenefit
    PendingIsAffordable
PROPERTY ExpiredIsNotTaken
CHECK_DEADLOCK FALSE
