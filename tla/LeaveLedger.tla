----------------------------- MODULE LeaveLedger -----------------------------
(****************************************************************************)
(* Leave requests, leave encashments and the balance rows they are charged  *)
(* to, for one employee and one quota leave type                            *)
(* (src/src/leaves, src/src/leave-balances, src/src/leave-encashments).     *)
(*                                                                          *)
(* Every HTTP handler reads the leave row first, checks it, and only then   *)
(* opens a transaction.  PostgreSQL runs these at READ COMMITTED, so other  *)
(* handlers commit between the two.  A handler is therefore two steps here: *)
(* a read that leaves its local snapshot in op[h], and a commit.  The       *)
(* statements of one transaction are one step when every row it relies on   *)
(* is locked by an earlier statement of it (a guarded updateMany, FOR       *)
(* UPDATE) or is only incremented.                                          *)
(*                                                                          *)
(* `races' is a history variable: the windows between a read and a commit   *)
(* that a behaviour has actually fallen into.                               *)
(****************************************************************************)
EXTENDS Integers, FiniteSets

CONSTANTS
    Leaves,       \* rows of the leaves table, created or not yet
    Encashments,  \* rows of the leave_encashments table, created or not yet
    Requests,     \* HTTP handlers in flight at once
    Sweep,        \* the auto-approve cron, a handler of its own
    Dates,        \* chargeable days
    Ranges,       \* the date ranges an employee may ask for (sets of Dates)
    Years,        \* leave years, consecutive integers
    YearOf,       \* Dates -> Years
    Months,       \* payroll months
    MonthOf,      \* Dates -> Months
    Quota,        \* days a balance row is created with
    Quotas,       \* quotas a leave-type edit may set
    AdjustDays,   \* corrections HR may enter (integers, not 0)
    AdjustLimit,  \* bound of the model: net correction a handler may start from
    EncashDays,   \* days an employee may ask to encash
    TwoLevel,     \* leaveType.approvalLevels = 2
    HasManager,   \* levelOneApproverExists
    Kinds         \* the handlers a model exercises

Handlers == Requests \cup {Sweep}

AllKinds == {"decide", "replace", "cancel", "record", "adjust", "encash",
             "reconcile", "sweep", "lock"}

Statuses  == {"NONE", "PENDING", "APPROVED", "REJECTED", "RETURNED", "CANCELLED"}
Decisions == {"APPROVED", "REJECTED", "RETURNED"}
Windows   == {"cancel", "record", "encashYear", "adjust", "encash", "reconcile"}

ASSUME LedgerAssumption ==
    /\ IsFiniteSet(Dates) /\ IsFiniteSet(Leaves) /\ IsFiniteSet(Encashments)
    /\ Ranges \subseteq SUBSET Dates
    /\ Years \subseteq Int
    /\ YearOf \in [Dates -> Years]
    /\ MonthOf \in [Dates -> Months]
    /\ Quota \in Nat /\ Quotas \subseteq Nat
    /\ AdjustDays \subseteq Int \ {0} /\ AdjustLimit \in Nat
    /\ EncashDays \subseteq Nat \ {0}
    /\ TwoLevel \in BOOLEAN /\ HasManager \in BOOLEAN
    /\ Sweep \notin Requests
    /\ Kinds \subseteq AllKinds

VARIABLES
    status,     \* Leave.status ("NONE": no such row yet)
    dates,      \* the days Leave.totalDays / yearSplit charge
    level1,     \* Leave.level1ApprovedById is set
    asked,      \* Leave.cancelRequestedAt is set
    waived,     \* an audited LEAVE_LEVEL1_OVERRIDDEN, or a leave HR recorded
    bal,        \* LeaveBalance, one row per leave year
    encStatus,  \* LeaveEncashment.status
    encDays,    \* LeaveEncashment.days
    encYear,    \* the leave year of LeaveEncashment.createdAt
    onLeave,    \* attendance days stamped On Leave
    locked,     \* months whose payroll run is LOCKED or PAID
    year,       \* the leave year in progress
    op,         \* the handlers in flight, with what each has read
    races       \* windows this behaviour fell into (history)

leaveVars == <<status, dates, level1, asked, waived>>
encVars   == <<encStatus, encDays, encYear>>
vars == <<leaveVars, bal, encVars, onLeave, locked, year, op, races>>

-----------------------------------------------------------------------------
(* Balance rows *)

Rows == [credited: Int, pending: Int, availed: Int, encashed: Int,
         adjusted: Int, closing: Int]

\* recalcClosing; `pending' is deliberately not part of it.
ClosingOf(row) == row.credited - row.availed - row.encashed + row.adjusted

\* checkAffordability's `available', with nothing carried in.
Available(row) ==
    row.credited - row.availed - row.encashed + row.adjusted - row.pending

Recalculated(row) == [row EXCEPT !.closing = ClosingOf(row)]

\* Slip: the row is inserted without its closing.
RowWithoutClosing == [credited |-> Quota, pending |-> 0, availed |-> 0,
                      encashed |-> 0, adjusted |-> 0]
NewRow == [credited |-> Quota, pending |-> 0, availed |-> 0, encashed |-> 0,
           adjusted |-> 0, closing |-> Quota]

\* yearPartsOf: the days of a range that fall in leave year y.
Part(ds, y) == {d \in ds : YearOf[d] = y}
Days(ds, y) == Cardinality(Part(ds, y))

\* apply: the hold (no recalculate: closing ignores pending).
Hold(b, ds) ==
    [y \in Years |-> [b[y] EXCEPT !.pending = @ + Days(ds, y)]]

Charged(row, p, a) ==
    Recalculated([row EXCEPT !.pending = @ + p, !.availed = @ + a])

\* A decision or a release: `p' and `a' times the leave's days go to pending and
\* availed.  Only the rows of the leave's own years are written, and recalculated.
Charge(b, ds, p, a) ==
    [y \in Years |->
        IF Part(ds, y) = {} THEN b[y]
        ELSE Charged(b[y], p * Days(ds, y), a * Days(ds, y))]

ReleasePending(b, ds)   == Charge(b, ds, -1, 0)

\* Slip: a cancelled approval does not give its days back.
TakenForGood(b, ds) == Charge(b, ds, 0, 0)
ReleaseAvailed(b, ds) == Charge(b, ds, 0, -1)

\* Slip: the approval forgets to give the hold back.
ApprovalKeepsHold(b, ds) == Charge(b, ds, 0, 1)

PendingToAvailed(b, ds) == Charge(b, ds, -1, 1)

\* An approved encashment turns its hold into a deduction.
PaidOut(row, n) ==
    Recalculated([row EXCEPT !.encashed = @ + n, !.pending = @ - n])

\* A correction by HR.
Corrected(row, n) == Recalculated([row EXCEPT !.adjusted = @ + n])

Affordable(b, ds) ==
    \A y \in Years : Part(ds, y) # {} => Available(b[y]) >= 0

-----------------------------------------------------------------------------
(* Leave rows *)

Live    == {l \in Leaves : status[l] \in {"PENDING", "APPROVED"}}
With(s) == {l \in Leaves : status[l] = s}

\* Slip: the overlap query looks at pending requests only.
BookedPending(but) == UNION {dates[l] : l \in With("PENDING") \ but}

\* Dates that a pending or approved leave other than those of `but' occupies.
Booked(but) == UNION {dates[l] : l \in Live \ but}

MonthsOf(ds) == {MonthOf[d] : d \in ds}

\* assertPayrollMonthsUnlocked
Unlocked(ds) == MonthsOf(ds) \cap locked = {}

Idle == [kind |-> "idle"]
LeaveOps == [kind: {"level1", "replace", "decline", "record"}, leave: Leaves]
DecideOps == [kind: {"decide"}, leave: Leaves, decision: Decisions, waive: BOOLEAN]
CancelOps == [kind: {"cancel"}, leave: Leaves, seen: Statuses]
RowOps(kind, amounts) == [kind: {kind}, year: Years, days: amounts, row: Rows]
Ops == {Idle} \cup LeaveOps \cup DecideOps \cup CancelOps
         \cup RowOps("adjust", AdjustDays) \cup RowOps("encash", EncashDays)
         \cup RowOps("reconcile", Quotas)

\* The handlers that hold the employee's users row FOR UPDATE between steps.
UserLocked == \E h \in Handlers : op[h].kind = "encash"

Start(h, o) == op[h] = Idle /\ op' = [op EXCEPT ![h] = o]
Finish(h)   == op' = [op EXCEPT ![h] = Idle]

Init ==
    /\ status = [l \in Leaves |-> "NONE"]
    /\ dates = [l \in Leaves |-> {}]
    /\ level1 = [l \in Leaves |-> FALSE]
    /\ asked = [l \in Leaves |-> FALSE]
    /\ waived = [l \in Leaves |-> FALSE]
    /\ bal = [y \in Years |-> NewRow]
    /\ encStatus = [e \in Encashments |-> "NONE"]
    /\ encDays = [e \in Encashments |-> 0]
    /\ encYear \in [Encashments -> {y \in Years : \A z \in Years : y <= z}]
    /\ onLeave = {}
    /\ locked = {}
    /\ year \in {y \in Years : \A z \in Years : y <= z}
    /\ op = [h \in Handlers |-> Idle]
    /\ races = {}

-----------------------------------------------------------------------------
(* createLeaveInternal: under FOR UPDATE of the users row the overlap is    *)
(* checked again, the hold is placed and the balance is checked after it.   *)

Create(l, ds, free, b) ==
    /\ status[l] = "NONE"
    /\ ds # {}
    /\ ~UserLocked
    /\ ds \cap free = {}
    /\ Affordable(Hold(b, ds), ds)
    /\ bal' = Hold(b, ds)
    /\ dates' = [dates EXCEPT ![l] = ds]

\* The payroll check of apply() is outside the transaction, but a lock that
\* slips in between only yields what applying first and locking after yields.
Apply(l, ds) ==
    /\ Unlocked(ds)
    /\ Create(l, ds, Booked({}), bal)
    /\ status' = [status EXCEPT ![l] = "PENDING"]
    /\ UNCHANGED <<level1, asked, waived, encVars, onLeave, locked, year, op, races>>

ReplaceRead(h, l) ==
    /\ "replace" \in Kinds
    /\ status[l] = "PENDING"
    /\ Start(h, [kind |-> "replace", leave |-> l])
    /\ UNCHANGED <<leaveVars, bal, encVars, onLeave, locked, year, races>>

\* An edit: the original is cancelled, guarded, in the transaction that
\* creates the new row.
ReplaceCommit(h, n, ds) ==
    LET old == op[h].leave IN
    /\ op[h].kind = "replace"
    /\ status[old] = "PENDING"
    /\ n # old
    /\ Create(n, ds, Booked({old}), ReleasePending(bal, dates[old]))
    /\ status' = [status EXCEPT ![old] = "CANCELLED", ![n] = "PENDING"]
    /\ Finish(h)
    /\ UNCHANGED <<level1, asked, waived, encVars, onLeave, locked, year, races>>

-----------------------------------------------------------------------------
(* review: role, two-level rules and the payroll check on the snapshot *)

\* Slip: the decision's transaction updates the row by id.
Unguarded(l) == status[l] # "NONE"

\* The compare-and-swap of a decision.
Undecided(l) == status[l] = "PENDING"

ReviewRead(h, l, role, decision, override) ==
    /\ "decide" \in Kinds
    /\ status[l] = "PENDING"
    /\ \/ /\ TwoLevel /\ role = "MANAGER" /\ ~level1[l] /\ decision = "APPROVED"
          /\ Start(h, [kind |-> "level1", leave |-> l])
       \/ /\ decision = "APPROVED" =>
                /\ ~(TwoLevel /\ role = "MANAGER")
                /\ TwoLevel /\ ~level1[l] /\ HasManager => override
                /\ Unlocked(dates[l])
          /\ Start(h, [kind |-> "decide", leave |-> l, decision |-> decision,
                       waive |-> override /\ TwoLevel /\ ~level1[l] /\ HasManager])
    /\ UNCHANGED <<leaveVars, bal, encVars, onLeave, locked, year, races>>

\* The level-1 sign-off names the row by id only.
LevelOneCommit(h) ==
    /\ op[h].kind = "level1"
    /\ level1' = [level1 EXCEPT ![op[h].leave] = TRUE]
    /\ Finish(h)
    /\ UNCHANGED <<status, dates, asked, waived, bal, encVars, onLeave, locked, year, races>>

\* Slip: the sweep approves around the manager.
SweepSkipsLevelOne(l) == TRUE

\* Slip: the sweep waits for a sign-off that one-level types never get.
SweepAwaitsSignOff(l) == level1[l]

\* The sweep stands in for the final approver, and cannot skip level 1.
SweepMay(l) == TwoLevel /\ HasManager => level1[l]

SweepRead(l) ==
    /\ "sweep" \in Kinds
    /\ status[l] = "PENDING"
    /\ SweepMay(l)
    /\ Unlocked(dates[l])
    /\ Start(Sweep, [kind |-> "decide", leave |-> l, decision |-> "APPROVED",
                     waive |-> FALSE])
    /\ UNCHANGED <<leaveVars, bal, encVars, onLeave, locked, year, races>>

\* applyDecision's transaction: the compare-and-swap on PENDING comes first.
DecideCommit(h) ==
    LET l == op[h].leave IN
    /\ op[h].kind = "decide"
    /\ Undecided(l)
    /\ status' = [status EXCEPT ![l] = op[h].decision]
    /\ waived' = [waived EXCEPT ![l] = op[h].waive]
    /\ \/ /\ op[h].decision = "APPROVED"
          /\ bal' = PendingToAvailed(bal, dates[l])
          /\ onLeave' = onLeave \cup dates[l]
       \/ /\ op[h].decision # "APPROVED"
          /\ bal' = ReleasePending(bal, dates[l])
          /\ UNCHANGED onLeave
    /\ Finish(h)
    /\ UNCHANGED <<dates, level1, asked, encVars, locked, year, races>>

-----------------------------------------------------------------------------
(* cancel, and the cancellation request an approver decides *)

Cancellable == {"PENDING", "RETURNED", "APPROVED"}

CancelRead(h, l) ==
    /\ "cancel" \in Kinds
    /\ status[l] \in Cancellable
    /\ status[l] = "APPROVED" => Unlocked(dates[l])
    /\ Start(h, [kind |-> "cancel", leave |-> l, seen |-> status[l]])
    /\ UNCHANGED <<leaveVars, bal, encVars, onLeave, locked, year, races>>

\* Slip: the stamped days stay.
NotReverted(l) == onLeave
\* revertAttendanceForLeave: days another approved leave covers keep its stamp.
Reverted(l) ==
    onLeave \ (dates[l] \ UNION {dates[k] : k \in With("APPROVED") \ {l}})

\* releaseHold reverses what the SNAPSHOT's status implies.
ReleaseHold(l, seen) ==
    \/ /\ seen = "APPROVED"
       /\ bal' = ReleaseAvailed(bal, dates[l])
       /\ onLeave' = Reverted(l)
    \/ /\ seen = "PENDING"
       /\ bal' = ReleasePending(bal, dates[l])
       /\ UNCHANGED onLeave
    \/ /\ seen \notin {"APPROVED", "PENDING"}
       /\ UNCHANGED <<bal, onLeave>>

\* performCancel's transaction: the guard accepts any cancellable status.
CancelCommit(h) ==
    LET l == op[h].leave IN
    /\ op[h].kind = "cancel"
    /\ status[l] \in Cancellable
    /\ status' = [status EXCEPT ![l] = "CANCELLED"]
    /\ asked' = [asked EXCEPT ![l] = FALSE]
    /\ ReleaseHold(l, op[h].seen)
    /\ races' = races \cup (IF status[l] = op[h].seen THEN {} ELSE {"cancel"})
    /\ Finish(h)
    /\ UNCHANGED <<dates, level1, waived, encVars, locked, year>>

\* requestCancel: every condition it read is in the update's own guard.
RequestCancel(l) ==
    /\ "cancel" \in Kinds
    /\ status[l] = "APPROVED"
    /\ ~asked[l]
    /\ asked' = [asked EXCEPT ![l] = TRUE]
    /\ UNCHANGED <<status, dates, level1, waived, bal, encVars, onLeave, locked, year, op, races>>

\* decideCancelRequest: approving goes on to performCancel, declining to a
\* guarded update.
DecideCancelRead(h, l, approve) ==
    /\ "cancel" \in Kinds
    /\ status[l] = "APPROVED"
    /\ asked[l]
    /\ \/ /\ approve
          /\ Unlocked(dates[l])
          /\ Start(h, [kind |-> "cancel", leave |-> l, seen |-> "APPROVED"])
       \/ /\ ~approve
          /\ Start(h, [kind |-> "decline", leave |-> l])
    /\ UNCHANGED <<leaveVars, bal, encVars, onLeave, locked, year, races>>

DeclineCommit(h) ==
    LET l == op[h].leave IN
    /\ op[h].kind = "decline"
    /\ asked' = [asked EXCEPT ![l] = @ /\ status[l] # "APPROVED"]
    /\ Finish(h)
    /\ UNCHANGED <<status, dates, level1, waived, bal, encVars, onLeave, locked, year, races>>

\* A guarded update that matched no row, or an edit that was refused.
GiveUp(h) ==
    /\ \/ op[h].kind = "decide" /\ status[op[h].leave] # "PENDING"
       \/ op[h].kind = "replace"
       \/ op[h].kind = "cancel" /\ status[op[h].leave] \notin Cancellable
    /\ Finish(h)
    /\ UNCHANGED <<leaveVars, bal, encVars, onLeave, locked, year, races>>

-----------------------------------------------------------------------------
(* importLeaves / manualLeave: HR records a leave - created, then approved  *)
(* in a second transaction, then undone in a third if that failed.          *)

RecordCreate(h, l, ds) ==
    /\ "record" \in Kinds
    /\ Unlocked(ds)
    /\ Create(l, ds, Booked({}), bal)
    /\ status' = [status EXCEPT ![l] = "PENDING"]
    /\ Start(h, [kind |-> "record", leave |-> l])
    /\ UNCHANGED <<level1, asked, waived, encVars, onLeave, locked, year, races>>

\* Approved; the read-back that follows the commit may itself fail, which the
\* handler cannot tell from a failed approval.
RecordApprove(h) ==
    LET l == op[h].leave IN
    /\ op[h].kind = "record"
    /\ status[l] = "PENDING"
    /\ Unlocked(dates[l])
    /\ status' = [status EXCEPT ![l] = "APPROVED"]
    /\ waived' = [waived EXCEPT ![l] = TRUE]
    /\ bal' = PendingToAvailed(bal, dates[l])
    /\ onLeave' = onLeave \cup dates[l]
    /\ Finish(h) \/ UNCHANGED op
    /\ UNCHANGED <<dates, level1, asked, encVars, locked, year, races>>

\* The catch block: CANCELLED with no guard, the hold released as if PENDING.
RecordRollback(h) ==
    LET l == op[h].leave IN
    /\ op[h].kind = "record"
    /\ status' = [status EXCEPT ![l] = "CANCELLED"]
    /\ bal' = ReleasePending(bal, dates[l])
    /\ races' = races \cup (IF status[l] = "PENDING" THEN {} ELSE {"record"})
    /\ Finish(h)
    /\ UNCHANGED <<dates, level1, asked, waived, encVars, onLeave, locked, year>>

-----------------------------------------------------------------------------
(* Leave encashment *)

\* Under FOR UPDATE of the users row, but the balance row is not locked.
EncashRead(h, n) ==
    /\ "encash" \in Kinds
    /\ ~UserLocked
    /\ \E e \in Encashments : encStatus[e] = "NONE"
    /\ n <= bal[year].closing - bal[year].pending
    /\ Start(h, [kind |-> "encash", year |-> year, days |-> n, row |-> bal[year]])
    /\ UNCHANGED <<leaveVars, bal, encVars, onLeave, locked, year, races>>

EncashCommit(h, e) ==
    LET y == op[h].year IN
    /\ op[h].kind = "encash"
    /\ encStatus[e] = "NONE"
    /\ encStatus' = [encStatus EXCEPT ![e] = "PENDING"]
    /\ encDays' = [encDays EXCEPT ![e] = op[h].days]
    /\ encYear' = [encYear EXCEPT ![e] = y]
    /\ bal' = [bal EXCEPT ![y].pending = @ + op[h].days]
    /\ races' = races \cup
         (IF bal[y].credited = op[h].row.credited /\ bal[y].adjusted = op[h].row.adjusted
          THEN {} ELSE {"encash"})
    /\ Finish(h)
    /\ UNCHANGED <<leaveVars, onLeave, locked, year>>

\* review, PENDING -> APPROVED: charged to the year of the DECISION.
EncashApprove(e) ==
    /\ encStatus[e] = "PENDING"
    /\ encStatus' = [encStatus EXCEPT ![e] = "APPROVED"]
    /\ bal' = [bal EXCEPT ![year] = PaidOut(bal[year], encDays[e])]
    /\ races' = races \cup (IF encYear[e] = year THEN {} ELSE {"encashYear"})
    /\ UNCHANGED <<leaveVars, encDays, encYear, onLeave, locked, year, op>>

\* APPROVED -> PROCESSED: paid by a payroll run, or marked so by a reviewer.
EncashProcess(e) ==
    /\ encStatus[e] = "APPROVED"
    /\ encStatus' = [encStatus EXCEPT ![e] = "PROCESSED"]
    /\ UNCHANGED <<leaveVars, bal, encDays, encYear, onLeave, locked, year, op, races>>

-----------------------------------------------------------------------------
(* The other writers of a balance row *)

\* adjust: the row is read, checked against its own snapshot, and then
\* incremented; the users row is not locked.
AdjustRead(h, y, n) ==
    /\ "adjust" \in Kinds
    /\ bal[y].adjusted + n \in -AdjustLimit..AdjustLimit
    /\ bal[y].closing + n - bal[y].pending >= 0
    /\ Start(h, [kind |-> "adjust", year |-> y, days |-> n, row |-> bal[y]])
    /\ UNCHANGED <<leaveVars, bal, encVars, onLeave, locked, year, races>>

AdjustCommit(h) ==
    LET y == op[h].year IN
    /\ op[h].kind = "adjust"
    /\ bal' = [bal EXCEPT ![y] = Corrected(bal[y], op[h].days)]
    /\ races' = races \cup (IF bal[y] = op[h].row THEN {} ELSE {"adjust"})
    /\ Finish(h)
    /\ UNCHANGED <<leaveVars, encVars, onLeave, locked, year>>

\* reconcileUpfrontCredit after a leave-type edit: reads the rows, and writes
\* credited AND closing computed from what it read.
ReconcileRead(h, q) ==
    /\ "reconcile" \in Kinds
    /\ Start(h, [kind |-> "reconcile", year |-> year, days |-> q, row |-> bal[year]])
    /\ UNCHANGED <<leaveVars, bal, encVars, onLeave, locked, year, races>>

Largest(a, b) == IF a >= b THEN a ELSE b

\* Slip: the new quota is written as it is.
NewQuota(row, q) == q
\* Never below what is taken, encashed or held.
UpfrontCredit(row, q) ==
    Largest(q, Largest(0, row.availed + row.encashed + row.pending - row.adjusted))

\* The row gets the credit, and the closing that goes with it in the row SEEN.
Recredited(row, seen, credit) ==
    [row EXCEPT !.credited = credit,
                !.closing = ClosingOf([seen EXCEPT !.credited = credit])]

ReconcileCommit(h) ==
    LET y == op[h].year
        seen == op[h].row
        credit == UpfrontCredit(seen, op[h].days) IN
    /\ op[h].kind = "reconcile"
    /\ bal' = IF credit = seen.credited THEN bal
              ELSE [bal EXCEPT ![y] = Recredited(bal[y], seen, credit)]
    /\ races' = races \cup (IF bal[y] = seen THEN {} ELSE {"reconcile"})
    /\ Finish(h)
    /\ UNCHANGED <<leaveVars, encVars, onLeave, locked, year>>

-----------------------------------------------------------------------------
(* The environment: payroll locks and unlocks months, the year turns *)

LockMonth(m) ==
    /\ "lock" \in Kinds
    /\ m \notin locked
    /\ locked' = locked \cup {m}
    /\ UNCHANGED <<leaveVars, bal, encVars, onLeave, year, op, races>>

UnlockMonth(m) ==
    /\ "lock" \in Kinds
    /\ m \in locked
    /\ locked' = locked \ {m}
    /\ UNCHANGED <<leaveVars, bal, encVars, onLeave, year, op, races>>

NextYear ==
    /\ year + 1 \in Years
    /\ year' = year + 1
    /\ UNCHANGED <<leaveVars, bal, encVars, onLeave, locked, op, races>>

-----------------------------------------------------------------------------
Submit == \E l \in Leaves, ds \in Ranges : Apply(l, ds)

Read(h) ==
    \/ \E l \in Leaves :
         \/ ReplaceRead(h, l)
         \/ \E role \in {"MANAGER", "HR"}, decision \in Decisions, override \in BOOLEAN :
              ReviewRead(h, l, role, decision, override)
         \/ CancelRead(h, l)
         \/ \E approve \in BOOLEAN : DecideCancelRead(h, l, approve)
         \/ \E ds \in Ranges : RecordCreate(h, l, ds)
    \/ \E n \in EncashDays : EncashRead(h, n)
    \/ \E y \in Years, n \in AdjustDays : AdjustRead(h, y, n)
    \/ \E q \in Quotas : ReconcileRead(h, q)

Commit(h) ==
    \/ \E n \in Leaves, ds \in Ranges : ReplaceCommit(h, n, ds)
    \/ LevelOneCommit(h)
    \/ DecideCommit(h)
    \/ CancelCommit(h)
    \/ DeclineCommit(h)
    \/ GiveUp(h)
    \/ RecordApprove(h)
    \/ RecordRollback(h)
    \/ \E e \in Encashments : EncashCommit(h, e)
    \/ AdjustCommit(h)
    \/ ReconcileCommit(h)

Next ==
    \/ Submit
    \/ \E h \in Requests : Read(h)
    \/ \E l \in Leaves : SweepRead(l)
    \/ \E h \in Handlers : Commit(h)
    \/ \E l \in Leaves : RequestCancel(l)
    \/ \E e \in Encashments : EncashApprove(e) \/ EncashProcess(e)
    \/ \E m \in Months : LockMonth(m) \/ UnlockMonth(m)
    \/ NextYear

Spec == Init /\ [][Next]_vars

\* Every run of the cron walks all candidates, and a server that is up
\* finishes the transactions it started; users owe nothing.
Fairness ==
    /\ \A l \in Leaves : SF_vars(SweepRead(l))
    /\ \A h \in Handlers : WF_vars(Commit(h))

FairSpec == Spec /\ Fairness
-----------------------------------------------------------------------------
(* What must hold *)

\* Every variable has its type: the shape of the rows and of the handlers'
\* snapshots that the actions below rely on.
TypeOK ==
    /\ status \in [Leaves -> Statuses]
    /\ dates \in [Leaves -> SUBSET Dates]
    /\ level1 \in [Leaves -> BOOLEAN]
    /\ asked \in [Leaves -> BOOLEAN]
    /\ waived \in [Leaves -> BOOLEAN]
    /\ bal \in [Years -> Rows]
    /\ encStatus \in [Encashments -> {"NONE", "PENDING", "APPROVED", "PROCESSED"}]
    /\ encDays \in [Encashments -> Nat]
    /\ encYear \in [Encashments -> Years]
    /\ onLeave \subseteq Dates
    /\ locked \subseteq Months
    /\ year \in Years
    /\ op \in [Handlers -> Ops]
    /\ races \subseteq Windows

\* The overlap re-check under the users row lock (createLeaveInternal): no two
\* pending or approved leaves of the employee share a day, whatever handlers
\* interleave with the application or the edit.
NoDoubleBooking ==
    \A k, l \in Live : k # l => dates[k] \cap dates[l] = {}

\* Days of leave year y claimed by the leaves with status s, and days of the
\* encashments in S.
DaysClaimed(s, y) == Part(UNION {dates[l] : l \in With(s)}, y)
EncashUnits(S)    == UNION {{e} \X (1..encDays[e]) : e \in S}
EncHeld(y) == {e \in Encashments : encStatus[e] = "PENDING" /\ encYear[e] = y}
EncPaid(y) == {e \in Encashments :
                 encStatus[e] \in {"APPROVED", "PROCESSED"} /\ encYear[e] = y}

\* The windows in which a hold is released twice or charged elsewhere.
LedgerWindows == {"cancel", "record", "encashYear"}

\* LeaveBalance.pending is what the open requests hold: every apply, edit,
\* review, sweep, cancel and encashment moves it by exactly its own days, once
\* (applyDecision, releaseHold).  It fails only after a cancel or a rollback
\* acted on a stale status, or an encashment was decided in another leave year.
PendingIsHeld ==
    races \cap LedgerWindows = {} =>
        \A y \in Years :
            bal[y].pending = Cardinality(DaysClaimed("PENDING", y))
                             + Cardinality(EncashUnits(EncHeld(y)))

\* LeaveBalance.availed is the days of the approved leaves, and encashed those
\* of the approved encashments.
AvailedIsTaken ==
    races \cap LedgerWindows = {} =>
        \A y \in Years :
            /\ bal[y].availed = Cardinality(DaysClaimed("APPROVED", y))
            /\ bal[y].encashed = Cardinality(EncashUnits(EncPaid(y)))

\* A day is stamped On Leave exactly when an approved leave covers it
\* (writeAttendanceForApprovedLeave / revertAttendanceForLeave).
AttendanceFollowsLeave ==
    races \cap {"cancel", "record"} = {} =>
        onLeave = UNION {dates[l] : l \in With("APPROVED")}

\* closing is always the formula of the other columns: every writer that moves
\* one of them recalculates (LeaveBalanceService.recalculate).
ClosingIsFormula ==
    "reconcile" \notin races => \A y \in Years : bal[y].closing = ClosingOf(bal[y])

\* Leave never goes negative: what is taken, held or encashed is covered by
\* what was credited and adjusted, although no balance row is locked while an
\* application, an encashment, a correction and a quota edit check it.
NeverOverdrawn ==
    races = {} => \A y \in Years : Available(bal[y]) >= 0

\* A two-level leave is approved only with the manager's sign-off, an audited
\* override, or when HR recorded it - also when the sweep approves it and when
\* the request was edited after a sign-off.
LevelOneRespected ==
    TwoLevel /\ HasManager =>
        \A l \in With("APPROVED") : level1[l] \/ waived[l]

\* A deadline the reviewers let pass is met by the sweep: a pending request of
\* a one-level type does not stay pending for ever, unless its payroll month
\* keeps being locked (autoApprovePendingLeaves).
SweepDecides ==
    \A l \in Leaves :
        status[l] = "PENDING" ~> (status[l] # "PENDING" \/ ~Unlocked(dates[l]))

\* The leaves that importLeaves or manualLeave is recording.
Recording == {op[h].leave : h \in {g \in Handlers : op[g].kind = "record"}}

\* The life of a request as an outsider may rely on it (LeaveLife): decided
\* once, edited in one step, never reopened.
Life == INSTANCE LeaveLife WITH recording <- Recording
LifeSpec == Life!Spec
=============================================================================
