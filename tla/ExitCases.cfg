\* One resignation, two exits and two handlers over two days.
SPECIFICATION Spec
CONSTANTS
    Resignations = {r1}
    Cases = {c1, c2}
    Requests = {h1, h2}
    NoResignation = NoResignation
    NoCase = NoCase
    NoDate = NoDate
    LastDay = 1
    LastDays = {0, 1}
    ExitTypes = {"RELEASED"}
    Kinds = {"direct", "move", "reinstate"}
SYMMETRY MCSymmetry
CONSTRAINTS MCNoRaceYet MCFewInFlight MCOneClearance
INVARIANTS
    TypeOK
    NoticeFollowsExit
    ResignationFollowsExit
    SettledExitStands
    NobodyLeavesUnpaid
CHECK_DEADLOCK FALSE
