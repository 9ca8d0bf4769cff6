\* Calculation, edits, sign-off and changes of the month's records.
SPECIFICATION Spec
CONSTANTS
    r1 = r1
    r2 = r2
    p1 = p1
    p2 = p2
    Runs = {r1}
    Periods = {p1}
    PeriodOf <- MCSameMonth
    NoRun = NoRun
    Actors = {hr, admin}
    Admins = {admin}
    NoOne = NoOne
    Requests = {h1, h2}
    Encashments = {}
    Principal = 0
    Emi = 1
    EditedEmis = {1}
    Repayments = {1}
    Changes = 1
    Kinds = {"draft", "adjust", "input", "hold", "remove", "unlock"}
CONSTRAINTS MCFewRaces MCLateHolds
SYMMETRY MCSymmetry
INVARIANTS
    TypeOK
    SignedFigures
    LockedIsCurrent
    FourEyes
PROPERTY FiguresFrozen
CHECK_DEADLOCK FALSE
