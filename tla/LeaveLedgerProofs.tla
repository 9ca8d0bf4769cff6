-------------------------- MODULE LeaveLedgerProofs --------------------------
(****************************************************************************)
(* Proofs about LeaveLedger, for every set of leaves, handlers, dates and   *)
(* leave years.                                                             *)
(****************************************************************************)
EXTENDS LeaveLedger, FiniteSetTheorems, TLAPS

-----------------------------------------------------------------------------
(* Helpers on days and rows *)

\* Whatever part of whatever set of dates a leave is charged for is a finite
\* number of days, and none when no day of it is in the year.
LEMMA DaysType ==
    ASSUME NEW ds \in SUBSET Dates, NEW y
    PROVE  /\ IsFiniteSet(Part(ds, y))
           /\ Days(ds, y) \in Nat
           /\ Part(ds, y) = {} => Days(ds, y) = 0
  <1>1. IsFiniteSet(ds)
    BY FS_Subset, LedgerAssumption
  <1>2. Part(ds, y) \in SUBSET ds
    BY DEF Part
  <1>3. IsFiniteSet(Part(ds, y))
    BY <1>1, <1>2, FS_Subset
  <1>4. Part(ds, y) = {} => Days(ds, y) = 0
    BY FS_EmptySet DEF Days
  <1>5. QED
    BY <1>3, <1>4, FS_CardinalityType DEF Days

\* Recalculating the closing of a row (LeaveBalanceService.recalculate) writes
\* the formula and nothing else.
LEMMA RecalculatedRow ==
    ASSUME NEW row \in Rows
    PROVE  /\ Recalculated(row) \in Rows
           /\ Recalculated(row).closing = ClosingOf(Recalculated(row))
           /\ Recalculated(row).pending = row.pending
           /\ Recalculated(row).availed = row.availed
           /\ Recalculated(row).encashed = row.encashed
           /\ Recalculated(row).credited = row.credited
           /\ Recalculated(row).adjusted = row.adjusted
           /\ Available(Recalculated(row)) = Available(row)
  BY DEF Rows, Recalculated, ClosingOf, Available

\* Moving days into or out of pending and availed, as a decision or a release
\* does, leaves a recalculated row.
LEMMA ChargedOne ==
    ASSUME NEW row \in Rows, NEW p \in Int, NEW a \in Int
    PROVE  /\ Charged(row, p, a) \in Rows
           /\ Charged(row, p, a).pending = row.pending + p
           /\ Charged(row, p, a).availed = row.availed + a
           /\ Charged(row, p, a).encashed = row.encashed
           /\ Charged(row, p, a).credited = row.credited
           /\ Charged(row, p, a).adjusted = row.adjusted
           /\ Charged(row, p, a).closing = ClosingOf(Charged(row, p, a))
           /\ Available(Charged(row, p, a)) = Available(row) - p - a
  <1> DEFINE held  == [row EXCEPT !.pending = @ + p]
             moved == [row EXCEPT !.pending = @ + p, !.availed = @ + a]
  <1>1. /\ held \in Rows /\ held.pending = row.pending + p
        /\ held.availed = row.availed /\ held.encashed = row.encashed
        /\ held.credited = row.credited /\ held.adjusted = row.adjusted
    BY DEF Rows
  <1>2. moved = [held EXCEPT !.availed = @ + a]
    BY DEF Rows
  <1> HIDE DEF held
  <1>3. /\ moved \in Rows /\ moved.pending = row.pending + p
        /\ moved.availed = row.availed + a /\ moved.encashed = row.encashed
        /\ moved.credited = row.credited /\ moved.adjusted = row.adjusted
    BY <1>1, <1>2 DEF Rows
  <1>4. Available(moved) = Available(row) - p - a
    BY <1>3 DEF Rows, Available
  <1>5. Charged(row, p, a) = Recalculated(moved)
    BY DEF Charged
  <1> HIDE DEF moved
  <1>6. QED
    BY <1>3, <1>4, <1>5, RecalculatedRow

\* Approving an encashment turns its hold into a deduction (review): pending
\* and encashed move against each other.
LEMMA PaidOutRow ==
    ASSUME NEW row \in Rows, NEW n \in Int
    PROVE  LET paid == PaidOut(row, n) IN
           /\ paid \in Rows
           /\ paid.pending = row.pending - n
           /\ paid.availed = row.availed
           /\ paid.encashed = row.encashed + n
           /\ paid.credited = row.credited
           /\ paid.adjusted = row.adjusted
           /\ paid.closing = ClosingOf(paid)
           /\ Available(paid) = Available(row)
  <1> DEFINE half == [row EXCEPT !.encashed = @ + n]
             paid == [row EXCEPT !.encashed = @ + n, !.pending = @ - n]
  <1>1. /\ half \in Rows /\ half.pending = row.pending
        /\ half.availed = row.availed /\ half.encashed = row.encashed + n
        /\ half.credited = row.credited /\ half.adjusted = row.adjusted
    BY DEF Rows
  <1>2. paid = [half EXCEPT !.pending = @ - n]
    BY DEF Rows
  <1> HIDE DEF half
  <1>3. /\ paid \in Rows /\ paid.pending = row.pending - n
        /\ paid.availed = row.availed /\ paid.encashed = row.encashed + n
        /\ paid.credited = row.credited /\ paid.adjusted = row.adjusted
    BY <1>1, <1>2 DEF Rows
  <1>4. Available(paid) = Available(row)
    BY <1>3 DEF Rows, Available
  <1>5. PaidOut(row, n) = Recalculated(paid)
    BY DEF PaidOut
  <1> HIDE DEF paid
  <1>6. QED
    BY <1>3, <1>4, <1>5, RecalculatedRow

\* A correction moves `adjusted' and recalculates (adjust).
LEMMA CorrectedRow ==
    ASSUME NEW row \in Rows, NEW n \in Int
    PROVE  LET corrected == Corrected(row, n) IN
           /\ corrected \in Rows
           /\ corrected.pending = row.pending
           /\ corrected.availed = row.availed
           /\ corrected.encashed = row.encashed
           /\ corrected.closing = ClosingOf(corrected)
           /\ Available(corrected) = Available(row) + n
  <1> DEFINE moved == [row EXCEPT !.adjusted = @ + n]
  <1>1. /\ moved \in Rows /\ moved.pending = row.pending
        /\ moved.availed = row.availed /\ moved.encashed = row.encashed
        /\ Available(moved) = Available(row) + n
    BY DEF Rows, Available
  <1>2. Corrected(row, n) = Recalculated(moved)
    BY DEF Corrected
  <1> HIDE DEF moved
  <1>3. QED
    BY <1>1, <1>2, RecalculatedRow

\* A quota edit moves credited and closing (reconcileUpfrontCredit); on the row
\* it read, closing is the formula.
LEMMA RecreditedRow ==
    ASSUME NEW row \in Rows, NEW seen \in Rows, NEW credit \in Int
    PROVE  /\ Recredited(row, seen, credit) \in Rows
           /\ Recredited(row, seen, credit).pending = row.pending
           /\ Recredited(row, seen, credit).availed = row.availed
           /\ Recredited(row, seen, credit).encashed = row.encashed
           /\ Recredited(row, seen, credit).adjusted = row.adjusted
           /\ Recredited(row, seen, credit).credited = credit
           /\ row = seen => Recredited(row, seen, credit).closing
                              = ClosingOf(Recredited(row, seen, credit))
  <1> DEFINE closing == ClosingOf([seen EXCEPT !.credited = credit])
             half == [row EXCEPT !.credited = credit]
             full == [row EXCEPT !.credited = credit, !.closing = closing]
  <1>1. closing = credit - seen.availed - seen.encashed + seen.adjusted /\ closing \in Int
    BY DEF Rows, ClosingOf
  <1>2. Recredited(row, seen, credit) = full
    BY DEF Recredited
  <1>3. /\ half \in Rows /\ half.pending = row.pending /\ half.availed = row.availed
        /\ half.encashed = row.encashed /\ half.adjusted = row.adjusted
        /\ half.credited = credit
    BY DEF Rows
  <1> HIDE DEF closing
  <1>4. full = [half EXCEPT !.closing = closing]
    BY DEF Rows
  <1> HIDE DEF half
  <1>5. /\ full \in Rows /\ full.pending = row.pending /\ full.availed = row.availed
        /\ full.encashed = row.encashed /\ full.adjusted = row.adjusted
        /\ full.credited = credit /\ full.closing = closing
    BY <1>1, <1>3, <1>4 DEF Rows
  <1> HIDE DEF full
  <1>6. QED
    BY <1>1, <1>2, <1>5 DEF ClosingOf

\* What a charge of p and a times the leave's days does to each row
\* (applyDecision, releaseHold): closing is the formula wherever it wrote, and
\* where it wrote nothing there was nothing to write.
LEMMA ChargedRow ==
    ASSUME NEW b \in [Years -> Rows], NEW ds \in SUBSET Dates,
           NEW p \in {-1, 0, 1}, NEW a \in {-1, 0, 1}, NEW y \in Years
    PROVE  LET c == Charge(b, ds, p, a) IN
           /\ c \in [Years -> Rows]
           /\ c[y].pending = b[y].pending + p * Days(ds, y)
           /\ c[y].availed = b[y].availed + a * Days(ds, y)
           /\ c[y].encashed = b[y].encashed
           /\ c[y].credited = b[y].credited
           /\ c[y].adjusted = b[y].adjusted
           /\ Available(c[y]) = Available(b[y]) - p * Days(ds, y) - a * Days(ds, y)
           /\ b[y].closing = ClosingOf(b[y]) => c[y].closing = ClosingOf(c[y])
  <1> DEFINE pz(z) == p * Days(ds, z)
             az(z) == a * Days(ds, z)
             c     == Charge(b, ds, p, a)
  <1>1. ASSUME NEW z \in Years
        PROVE  /\ pz(z) \in Int /\ az(z) \in Int
               /\ Part(ds, z) = {} => pz(z) = 0 /\ az(z) = 0
    BY DaysType
  <1>2. c = [z \in Years |-> IF Part(ds, z) = {} THEN b[z]
                             ELSE Charged(b[z], pz(z), az(z))]
    BY DEF Charge
  <1> HIDE DEF pz, az, c
  <1>3. \A z \in Years : Charged(b[z], pz(z), az(z)) \in Rows
    BY <1>1, ChargedOne
  <1>4. c \in [Years -> Rows]
    BY <1>2, <1>3
  <1>5. /\ c[y].pending = b[y].pending + pz(y)
        /\ c[y].availed = b[y].availed + az(y)
        /\ c[y].encashed = b[y].encashed
        /\ c[y].credited = b[y].credited
        /\ c[y].adjusted = b[y].adjusted
        /\ Available(c[y]) = Available(b[y]) - pz(y) - az(y)
        /\ b[y].closing = ClosingOf(b[y]) => c[y].closing = ClosingOf(c[y])
    <2>1. CASE Part(ds, y) = {}
      <3>1. c[y] = b[y] /\ pz(y) = 0 /\ az(y) = 0
        BY <1>1, <1>2, <2>1
      <3>2. b[y].pending \in Int /\ b[y].availed \in Int /\ Available(b[y]) \in Int
        BY DEF Rows, Available
      <3>3. QED
        BY <3>1, <3>2
    <2>2. CASE Part(ds, y) # {}
      <3>1. c[y] = Charged(b[y], pz(y), az(y)) /\ b[y] \in Rows
        BY <1>2, <2>2
      <3>2. QED
        BY <1>1, <3>1, ChargedOne
    <2>3. QED
      BY <2>1, <2>2
  <1>6. QED
    BY <1>4, <1>5 DEF pz, az, c

\* What the hold of an application does to each row (apply).
LEMMA HeldRow ==
    ASSUME NEW b \in [Years -> Rows], NEW ds \in SUBSET Dates, NEW y \in Years
    PROVE  LET c == Hold(b, ds) IN
           /\ c \in [Years -> Rows]
           /\ c[y].pending = b[y].pending + Days(ds, y)
           /\ c[y].availed = b[y].availed
           /\ c[y].encashed = b[y].encashed
           /\ c[y].credited = b[y].credited
           /\ c[y].adjusted = b[y].adjusted
           /\ Available(c[y]) = Available(b[y]) - Days(ds, y)
           /\ b[y].closing = ClosingOf(b[y]) => c[y].closing = ClosingOf(c[y])
  <1>1. ASSUME NEW z \in Years
        PROVE  /\ b[z] \in Rows /\ Days(ds, z) \in Int
               /\ Hold(b, ds)[z] = [b[z] EXCEPT !.pending = @ + Days(ds, z)]
    BY DaysType DEF Hold
  <1>2. ASSUME NEW row \in Rows, NEW n \in Int
        PROVE  LET held == [row EXCEPT !.pending = @ + n] IN
               /\ held \in Rows
               /\ held.pending = row.pending + n
               /\ held.availed = row.availed
               /\ held.encashed = row.encashed
               /\ held.credited = row.credited
               /\ held.adjusted = row.adjusted
               /\ Available(held) = Available(row) - n
               /\ ClosingOf(held) = ClosingOf(row)
               /\ held.closing = row.closing
    BY DEF Rows, Available, ClosingOf
  <1>3. Hold(b, ds) = [z \in Years |-> [b[z] EXCEPT !.pending = @ + Days(ds, z)]]
    BY DEF Hold
  <1>4. Hold(b, ds) \in [Years -> Rows]
    BY <1>1, <1>2, <1>3
  <1>5. b[y] \in Rows /\ Days(ds, y) \in Int
    BY <1>1
  <1> DEFINE held == [b[y] EXCEPT !.pending = @ + Days(ds, y)]
  <1>6. Hold(b, ds)[y] = held
    BY <1>1
  <1>7. /\ held.pending = b[y].pending + Days(ds, y)
        /\ held.availed = b[y].availed
        /\ held.encashed = b[y].encashed
        /\ held.credited = b[y].credited
        /\ held.adjusted = b[y].adjusted
        /\ Available(held) = Available(b[y]) - Days(ds, y)
        /\ ClosingOf(held) = ClosingOf(b[y])
        /\ held.closing = b[y].closing
    BY <1>2, <1>5
  <1> HIDE DEF held
  <1>8. QED
    BY <1>4, <1>6, <1>7

\* Every row a handler writes after an application, a decision or a release is
\* well formed.
LEMMA LedgerType ==
    ASSUME NEW b \in [Years -> Rows], NEW ds \in SUBSET Dates
    PROVE  /\ Hold(b, ds) \in [Years -> Rows]
           /\ ReleasePending(b, ds) \in [Years -> Rows]
           /\ ReleaseAvailed(b, ds) \in [Years -> Rows]
           /\ PendingToAvailed(b, ds) \in [Years -> Rows]
  <1>1. CASE Years = {}
    BY <1>1 DEF Hold, Charge, ReleasePending, ReleaseAvailed, PendingToAvailed
  <1>2. CASE Years # {}
    <2>1. PICK y \in Years : TRUE
      BY <1>2
    <2>2. QED
      BY <2>1, HeldRow, ChargedRow DEF ReleasePending, ReleaseAvailed, PendingToAvailed
  <1>3. QED
    BY <1>1, <1>2

-----------------------------------------------------------------------------
(* Steps *)

\* What a step that decides nothing leaves alone: reads, the level-1 sign-off,
\* the cancellation request, payroll locks and the turn of the year.
Quiet == UNCHANGED <<status, dates, waived, bal, encVars, onLeave, races>>

\* A step is quiet or one of the twelve that write the ledger.
LEMMA QuietOrLoud ==
    ASSUME [Next]_vars
    PROVE  \/ Quiet
           \/ \E l \in Leaves, ds \in Ranges : Apply(l, ds)
           \/ \E h \in Requests, l \in Leaves, ds \in Ranges : RecordCreate(h, l, ds)
           \/ \E h \in Handlers, n \in Leaves, ds \in Ranges : ReplaceCommit(h, n, ds)
           \/ \E h \in Handlers : \/ DecideCommit(h) \/ CancelCommit(h)
                                  \/ RecordApprove(h) \/ RecordRollback(h)
                                  \/ AdjustCommit(h) \/ ReconcileCommit(h)
           \/ \E h \in Handlers, e \in Encashments : EncashCommit(h, e)
           \/ \E e \in Encashments : EncashApprove(e) \/ EncashProcess(e)
  <1>1. CASE UNCHANGED vars
    BY <1>1 DEF vars, leaveVars, Quiet
  <1>2. CASE Submit
    BY <1>2 DEF Submit
  <1>3. ASSUME NEW h \in Requests, Read(h)
        PROVE  Quiet \/ \E l \in Leaves, ds \in Ranges : RecordCreate(h, l, ds)
    <2>1. ASSUME NEW l \in Leaves,
                 \/ ReplaceRead(h, l) \/ CancelRead(h, l)
                 \/ \E approve \in BOOLEAN : DecideCancelRead(h, l, approve)
          PROVE  Quiet
      BY <2>1 DEF ReplaceRead, CancelRead, DecideCancelRead, Quiet, leaveVars
    <2>2. ASSUME NEW l \in Leaves, NEW role \in {"MANAGER", "HR"}, NEW decision \in Decisions,
                 NEW override \in BOOLEAN, ReviewRead(h, l, role, decision, override)
          PROVE  Quiet
      BY <2>2 DEF ReviewRead, Quiet, leaveVars
    <2>3. ASSUME \/ \E n \in EncashDays : EncashRead(h, n)
                 \/ \E y \in Years, n \in AdjustDays : AdjustRead(h, y, n)
                 \/ \E q \in Quotas : ReconcileRead(h, q)
          PROVE  Quiet
      BY <2>3 DEF EncashRead, AdjustRead, ReconcileRead, Quiet, leaveVars
    <2> HIDE DEF Quiet
    <2>4. QED
      BY <1>3, <2>1, <2>2, <2>3 DEF Read
  <1>4. ASSUME NEW l \in Leaves, SweepRead(l)
        PROVE  Quiet
    BY <1>4 DEF SweepRead, Quiet, leaveVars
  <1>5. ASSUME NEW h \in Handlers, LevelOneCommit(h) \/ DeclineCommit(h) \/ GiveUp(h)
        PROVE  Quiet
    BY <1>5 DEF LevelOneCommit, DeclineCommit, GiveUp, Quiet, leaveVars
  <1>6. ASSUME NEW l \in Leaves, RequestCancel(l)
        PROVE  Quiet
    BY <1>6 DEF RequestCancel, Quiet
  <1>7. ASSUME NEW m \in Months, LockMonth(m) \/ UnlockMonth(m)
        PROVE  Quiet
    BY <1>7 DEF LockMonth, UnlockMonth, Quiet, leaveVars
  <1>8. CASE NextYear
    BY <1>8 DEF NextYear, Quiet, leaveVars
  <1>9. QED
    BY <1>1, <1>2, <1>3, <1>4, <1>5, <1>6, <1>7, <1>8 DEF Next, Commit

\* What each kind of handler holds in its snapshot.
LEMMA OpType ==
    ASSUME TypeOK, NEW h \in Handlers
    PROVE  /\ op[h].kind \in {"level1", "replace", "decline", "record", "decide", "cancel"}
                => op[h].leave \in Leaves
           /\ op[h].kind = "decide" => /\ op[h].decision \in Decisions
                                       /\ op[h].waive \in BOOLEAN
           /\ op[h].kind = "cancel" => op[h].seen \in Statuses
           /\ op[h].kind \in {"adjust", "encash", "reconcile"}
                => op[h].year \in Years /\ op[h].row \in Rows /\ op[h].days \in Int
           /\ op[h].kind = "encash" => op[h].days \in EncashDays
           /\ op[h].kind = "reconcile" => op[h].days \in Quotas
  <1>1. op[h] \in Ops
    BY DEF TypeOK
  <1>2. CASE op[h] = Idle
    BY <1>2 DEF Idle
  <1>3. CASE op[h] \in LeaveOps
    BY <1>3 DEF LeaveOps
  <1>4. CASE op[h] \in DecideOps
    BY <1>4 DEF DecideOps
  <1>5. CASE op[h] \in CancelOps
    BY <1>5 DEF CancelOps
  <1>6. CASE op[h] \in RowOps("adjust", AdjustDays)
    BY <1>6, LedgerAssumption DEF RowOps
  <1> EncashDays \subseteq Int /\ Quotas \subseteq Int
    BY LedgerAssumption
  <1>7. CASE op[h] \in RowOps("encash", EncashDays)
    BY <1>7 DEF RowOps
  <1>8. CASE op[h] \in RowOps("reconcile", Quotas)
    BY <1>8 DEF RowOps
  <1>9. QED
    BY <1>1, <1>2, <1>3, <1>4, <1>5, <1>6, <1>7, <1>8 DEF Ops

-----------------------------------------------------------------------------
(* Type correctness *)

\* Starting a handler with a well-formed snapshot, and finishing one.
LEMMA HandlerType ==
    ASSUME TypeOK, NEW h \in Handlers
    PROVE  /\ \A o \in Ops : Start(h, o) => op' \in [Handlers -> Ops]
           /\ Finish(h) => op' \in [Handlers -> Ops]
  BY DEF TypeOK, Start, Finish, Ops

\* The snapshots the reading steps take are well formed.
LEMMA SnapshotType ==
    /\ \A l \in Leaves, k \in {"level1", "replace", "decline", "record"} :
         [kind |-> k, leave |-> l] \in Ops
    /\ \A l \in Leaves, d \in Decisions, w \in BOOLEAN :
         [kind |-> "decide", leave |-> l, decision |-> d, waive |-> w] \in Ops
    /\ \A l \in Leaves, s \in Statuses :
         [kind |-> "cancel", leave |-> l, seen |-> s] \in Ops
    /\ \A y \in Years, row \in Rows :
         /\ \A n \in AdjustDays :
              [kind |-> "adjust", year |-> y, days |-> n, row |-> row] \in Ops
         /\ \A n \in EncashDays :
              [kind |-> "encash", year |-> y, days |-> n, row |-> row] \in Ops
         /\ \A n \in Quotas :
              [kind |-> "reconcile", year |-> y, days |-> n, row |-> row] \in Ops
  BY DEF Ops, LeaveOps, DecideOps, CancelOps, RowOps

\* Reading steps leave the state well typed.
LEMMA ReadType ==
    ASSUME TypeOK, NEW h \in Handlers, Read(h) \/ \E l \in Leaves : SweepRead(l)
    PROVE  TypeOK'
  <1> Sweep \in Handlers /\ Requests \subseteq Handlers
    BY DEF Handlers
  <1>1. ASSUME NEW l \in Leaves, ReplaceRead(h, l)
        PROVE  TypeOK'
    <2>1. op' \in [Handlers -> Ops]
      BY <1>1, HandlerType, SnapshotType DEF ReplaceRead
    <2>2. QED
      BY <1>1, <2>1 DEF ReplaceRead, TypeOK, leaveVars, encVars
  <1>2. ASSUME NEW l \in Leaves, NEW role, NEW decision \in Decisions,
               NEW override \in BOOLEAN, ReviewRead(h, l, role, decision, override)
        PROVE  TypeOK'
    <2> DEFINE w == override /\ TwoLevel /\ ~level1[l] /\ HasManager
    <2>1. w \in BOOLEAN
      BY LedgerAssumption DEF TypeOK
    <2>2. \/ Start(h, [kind |-> "level1", leave |-> l])
          \/ Start(h, [kind |-> "decide", leave |-> l, decision |-> decision, waive |-> w])
      BY <1>2 DEF ReviewRead
    <2> HIDE DEF w
    <2>3. op' \in [Handlers -> Ops]
      BY <2>1, <2>2, HandlerType, SnapshotType
    <2>4. QED
      BY <1>2, <2>3 DEF ReviewRead, TypeOK, leaveVars, encVars
  <1>3. ASSUME NEW l \in Leaves, SweepRead(l)
        PROVE  TypeOK'
    <2>1. [kind |-> "decide", leave |-> l, decision |-> "APPROVED", waive |-> FALSE] \in Ops
      BY SnapshotType DEF Decisions
    <2>2. op' \in [Handlers -> Ops]
      BY <1>3, <2>1, HandlerType DEF SweepRead
    <2>3. QED
      BY <1>3, <2>2 DEF SweepRead, TypeOK, leaveVars, encVars
  <1>4. ASSUME NEW l \in Leaves, CancelRead(h, l)
        PROVE  TypeOK'
    <2>1. status[l] \in Statuses
      BY DEF TypeOK
    <2>2. op' \in [Handlers -> Ops]
      BY <1>4, <2>1, HandlerType, SnapshotType DEF CancelRead
    <2>3. QED
      BY <1>4, <2>2 DEF CancelRead, TypeOK, leaveVars, encVars
  <1>5. ASSUME NEW l \in Leaves, NEW approve \in BOOLEAN, DecideCancelRead(h, l, approve)
        PROVE  TypeOK'
    <2>1. "APPROVED" \in Statuses
      BY DEF Statuses
    <2>2. \/ Start(h, [kind |-> "cancel", leave |-> l, seen |-> "APPROVED"])
          \/ Start(h, [kind |-> "decline", leave |-> l])
      BY <1>5 DEF DecideCancelRead
    <2>3. op' \in [Handlers -> Ops]
      BY <2>1, <2>2, HandlerType, SnapshotType
    <2>4. QED
      BY <1>5, <2>3 DEF DecideCancelRead, TypeOK, leaveVars, encVars
  <1>6. ASSUME NEW l \in Leaves, NEW ds \in Ranges, RecordCreate(h, l, ds)
        PROVE  TypeOK'
    <2>1. op' \in [Handlers -> Ops]
      BY <1>6, HandlerType, SnapshotType DEF RecordCreate
    <2>2. bal' \in [Years -> Rows] /\ dates' \in [Leaves -> SUBSET Dates]
      BY <1>6, LedgerType, LedgerAssumption DEF RecordCreate, Create, TypeOK
    <2>3. status' \in [Leaves -> Statuses]
      BY <1>6 DEF RecordCreate, TypeOK, Statuses
    <2>4. QED
      BY <1>6, <2>1, <2>2, <2>3 DEF RecordCreate, TypeOK, encVars
  <1>7. ASSUME NEW n \in EncashDays, EncashRead(h, n)
        PROVE  TypeOK'
    <2>1. bal[year] \in Rows /\ year \in Years
      BY DEF TypeOK
    <2>2. op' \in [Handlers -> Ops]
      BY <1>7, <2>1, HandlerType, SnapshotType DEF EncashRead
    <2>3. QED
      BY <1>7, <2>2 DEF EncashRead, TypeOK, leaveVars, encVars
  <1>8. ASSUME NEW y \in Years, NEW n \in AdjustDays, AdjustRead(h, y, n)
        PROVE  TypeOK'
    <2>1. bal[y] \in Rows
      BY DEF TypeOK
    <2>2. op' \in [Handlers -> Ops]
      BY <1>8, <2>1, HandlerType, SnapshotType DEF AdjustRead
    <2>3. QED
      BY <1>8, <2>2 DEF AdjustRead, TypeOK, leaveVars, encVars
  <1>9. ASSUME NEW q \in Quotas, ReconcileRead(h, q)
        PROVE  TypeOK'
    <2>1. bal[year] \in Rows /\ year \in Years
      BY DEF TypeOK
    <2>2. op' \in [Handlers -> Ops]
      BY <1>9, <2>1, HandlerType, SnapshotType DEF ReconcileRead
    <2>3. QED
      BY <1>9, <2>2 DEF ReconcileRead, TypeOK, leaveVars, encVars
  <1>10. QED
    BY <1>1, <1>2, <1>3, <1>4, <1>5, <1>6, <1>7, <1>8, <1>9 DEF Read

\* Committing steps leave the state well typed.
LEMMA CommitType ==
    ASSUME TypeOK, NEW h \in Handlers, Commit(h)
    PROVE  TypeOK'
  <1> USE DEF encVars
  <1>1. ASSUME NEW n \in Leaves, NEW ds \in Ranges, ReplaceCommit(h, n, ds)
        PROVE  TypeOK'
    <2>1. op[h].leave \in Leaves
      BY <1>1, OpType DEF ReplaceCommit
    <2>2. dates[op[h].leave] \in SUBSET Dates /\ ds \in SUBSET Dates
      BY <2>1, LedgerAssumption DEF TypeOK
    <2>3. ReleasePending(bal, dates[op[h].leave]) \in [Years -> Rows]
      BY <2>2, LedgerType DEF TypeOK
    <2>4. bal' \in [Years -> Rows]
      BY <1>1, <2>2, <2>3, LedgerType DEF ReplaceCommit, Create
    <2>5. dates' \in [Leaves -> SUBSET Dates]
      BY <1>1, <2>2 DEF ReplaceCommit, Create, TypeOK
    <2>6. status' \in [Leaves -> Statuses]
      BY <1>1, <2>1 DEF ReplaceCommit, TypeOK, Statuses
    <2>7. op' \in [Handlers -> Ops]
      BY <1>1, HandlerType DEF ReplaceCommit
    <2>8. QED
      BY <1>1, <2>4, <2>5, <2>6, <2>7 DEF ReplaceCommit, TypeOK
  <1>2. CASE LevelOneCommit(h)
    <2>1. op' \in [Handlers -> Ops]
      BY <1>2, HandlerType DEF LevelOneCommit
    <2>2. QED
      BY <1>2, <2>1 DEF LevelOneCommit, TypeOK
  <1>3. CASE DecideCommit(h)
    <2>1. /\ op[h].leave \in Leaves
          /\ op[h].decision \in Statuses
          /\ op[h].waive \in BOOLEAN
      BY <1>3, OpType DEF DecideCommit, Decisions, Statuses
    <2>2. dates[op[h].leave] \in SUBSET Dates
      BY <2>1 DEF TypeOK
    <2>3. bal' \in [Years -> Rows] /\ onLeave' \subseteq Dates
      BY <1>3, <2>2, LedgerType DEF DecideCommit, TypeOK
    <2>4. op' \in [Handlers -> Ops]
      BY <1>3, HandlerType DEF DecideCommit
    <2>5. QED
      BY <1>3, <2>1, <2>3, <2>4 DEF DecideCommit, TypeOK
  <1>4. CASE CancelCommit(h)
    <2>1. op[h].leave \in Leaves
      BY <1>4, OpType DEF CancelCommit
    <2>2. dates[op[h].leave] \in SUBSET Dates
      BY <2>1 DEF TypeOK
    <2>3. bal' \in [Years -> Rows] /\ onLeave' \subseteq Dates
      BY <1>4, <2>2, LedgerType DEF CancelCommit, ReleaseHold, Reverted, TypeOK
    <2>4. op' \in [Handlers -> Ops]
      BY <1>4, HandlerType DEF CancelCommit
    <2>5. status' \in [Leaves -> Statuses] /\ races' \subseteq Windows
      BY <1>4 DEF CancelCommit, TypeOK, Statuses, Windows
    <2>6. QED
      BY <1>4, <2>3, <2>4, <2>5 DEF CancelCommit, TypeOK
  <1>5. CASE DeclineCommit(h)
    <2>1. op' \in [Handlers -> Ops]
      BY <1>5, HandlerType DEF DeclineCommit
    <2>2. asked' \in [Leaves -> BOOLEAN]
      BY <1>5 DEF DeclineCommit, TypeOK
    <2>3. QED
      BY <1>5, <2>1, <2>2 DEF DeclineCommit, TypeOK
  <1>6. CASE GiveUp(h)
    <2>1. op' \in [Handlers -> Ops]
      BY <1>6, HandlerType DEF GiveUp
    <2>2. QED
      BY <1>6, <2>1 DEF GiveUp, TypeOK, leaveVars
  <1>7. CASE RecordApprove(h)
    <2>1. op[h].leave \in Leaves
      BY <1>7, OpType DEF RecordApprove
    <2>2. dates[op[h].leave] \in SUBSET Dates
      BY <2>1 DEF TypeOK
    <2>3. bal' \in [Years -> Rows] /\ onLeave' \subseteq Dates
      BY <1>7, <2>2, LedgerType DEF RecordApprove, TypeOK
    <2>4. op' \in [Handlers -> Ops]
      BY <1>7, HandlerType DEF RecordApprove, TypeOK
    <2>5. QED
      BY <1>7, <2>3, <2>4 DEF RecordApprove, TypeOK, Statuses
  <1>8. CASE RecordRollback(h)
    <2>1. op[h].leave \in Leaves
      BY <1>8, OpType DEF RecordRollback
    <2>2. dates[op[h].leave] \in SUBSET Dates
      BY <2>1 DEF TypeOK
    <2>3. bal' \in [Years -> Rows]
      BY <1>8, <2>2, LedgerType DEF RecordRollback, TypeOK
    <2>4. op' \in [Handlers -> Ops]
      BY <1>8, HandlerType DEF RecordRollback
    <2>5. QED
      BY <1>8, <2>3, <2>4 DEF RecordRollback, TypeOK, Statuses, Windows
  <1>9. ASSUME NEW e \in Encashments, EncashCommit(h, e)
        PROVE  TypeOK'
    <2>1. op[h].year \in Years /\ op[h].days \in Nat /\ op[h].days \in Int
      BY <1>9, OpType, LedgerAssumption DEF EncashCommit
    <2>2. [bal[op[h].year] EXCEPT !.pending = @ + op[h].days] \in Rows
      BY <2>1 DEF TypeOK, Rows
    <2>3. bal' \in [Years -> Rows]
      BY <1>9, <2>1, <2>2 DEF EncashCommit, TypeOK
    <2>4. op' \in [Handlers -> Ops]
      BY <1>9, HandlerType DEF EncashCommit
    <2>5. races' \subseteq Windows
      BY <1>9 DEF EncashCommit, TypeOK, Windows
    <2>6. QED
      BY <1>9, <2>1, <2>3, <2>4, <2>5 DEF EncashCommit, TypeOK, leaveVars
  <1>10. CASE AdjustCommit(h)
    <2>1. op[h].year \in Years /\ op[h].days \in Int
      BY <1>10, OpType DEF AdjustCommit
    <2>2. Corrected(bal[op[h].year], op[h].days) \in Rows
      BY <2>1, CorrectedRow DEF TypeOK
    <2>3. bal' \in [Years -> Rows]
      BY <1>10, <2>2 DEF AdjustCommit, TypeOK
    <2>4. op' \in [Handlers -> Ops]
      BY <1>10, HandlerType DEF AdjustCommit
    <2>5. races' \subseteq Windows
      BY <1>10 DEF AdjustCommit, TypeOK, Windows
    <2>6. QED
      BY <1>10, <2>3, <2>4, <2>5 DEF AdjustCommit, TypeOK, leaveVars
  <1>11. CASE ReconcileCommit(h)
    <2>1. op[h].year \in Years /\ op[h].row \in Rows /\ op[h].days \in Int
      BY <1>11, OpType DEF ReconcileCommit
    <2> DEFINE credit == UpfrontCredit(op[h].row, op[h].days)
    <2>2. credit \in Int
      BY <2>1 DEF UpfrontCredit, Largest, Rows
    <2>3. bal' = bal \/ bal' = [bal EXCEPT ![op[h].year] =
                                  Recredited(bal[op[h].year], op[h].row, credit)]
      BY <1>11 DEF ReconcileCommit
    <2> HIDE DEF credit
    <2>8. bal[op[h].year] \in Rows
      BY <2>1 DEF TypeOK
    <2>9. Recredited(bal[op[h].year], op[h].row, credit) \in Rows
      BY <2>1, <2>2, <2>8, RecreditedRow
    <2>4. bal' \in [Years -> Rows]
      BY <2>1, <2>3, <2>9 DEF TypeOK
    <2>5. op' \in [Handlers -> Ops]
      BY <1>11, HandlerType DEF ReconcileCommit
    <2>6. races' \subseteq Windows
      BY <1>11 DEF ReconcileCommit, TypeOK, Windows
    <2>7. QED
      BY <1>11, <2>4, <2>5, <2>6 DEF ReconcileCommit, TypeOK, leaveVars
  <1>12. QED
    BY <1>1, <1>2, <1>3, <1>4, <1>5, <1>6, <1>7, <1>8, <1>9, <1>10, <1>11 DEF Commit

\* TypeOK holds of every initial state.
LEMMA InitType == Init => TypeOK
  BY LedgerAssumption DEF Init, TypeOK, NewRow, Rows, Statuses, Ops

\* Every step of any handler, of payroll and of the calendar keeps TypeOK.
LEMMA TypeStep == TypeOK /\ [Next]_vars => TypeOK'
  <1> SUFFICES ASSUME TypeOK, [Next]_vars
               PROVE  TypeOK'
    OBVIOUS
  <1> USE DEF encVars
  <1>1. CASE UNCHANGED vars
    BY <1>1 DEF vars, leaveVars, TypeOK
  <1>2. ASSUME NEW l \in Leaves, NEW ds \in Ranges, Apply(l, ds)
        PROVE  TypeOK'
    <2>1. bal' \in [Years -> Rows] /\ dates' \in [Leaves -> SUBSET Dates]
      BY <1>2, LedgerType, LedgerAssumption DEF Apply, Create, TypeOK
    <2>2. QED
      BY <1>2, <2>1 DEF Apply, TypeOK, Statuses
  <1>3. ASSUME NEW l \in Leaves, RequestCancel(l)
        PROVE  TypeOK'
    BY <1>3 DEF RequestCancel, TypeOK
  <1>4. ASSUME NEW e \in Encashments, EncashApprove(e)
        PROVE  TypeOK'
    <2>1. bal[year] \in Rows /\ encDays[e] \in Int
      BY DEF TypeOK
    <2>2. PaidOut(bal[year], encDays[e]) \in Rows
      BY <2>1, PaidOutRow
    <2>3. bal' \in [Years -> Rows]
      BY <1>4, <2>2 DEF EncashApprove, TypeOK
    <2>4. races' \subseteq Windows
      BY <1>4 DEF EncashApprove, TypeOK, Windows
    <2>5. QED
      BY <1>4, <2>3, <2>4 DEF EncashApprove, TypeOK, leaveVars
  <1>5. ASSUME NEW e \in Encashments, EncashProcess(e)
        PROVE  TypeOK'
    BY <1>5 DEF EncashProcess, TypeOK, leaveVars
  <1>6. ASSUME NEW m \in Months, LockMonth(m) \/ UnlockMonth(m)
        PROVE  TypeOK'
    BY <1>6 DEF LockMonth, UnlockMonth, TypeOK, leaveVars
  <1>7. CASE NextYear
    BY <1>7 DEF NextYear, TypeOK, leaveVars
  <1>8. QED
    BY <1>1, <1>2, <1>3, <1>4, <1>5, <1>6, <1>7, ReadType, CommitType
       DEF Next, Submit, Handlers

\* TypeOK is an invariant, for every number of leaves, handlers and days.
THEOREM TypeCorrect == Spec => []TypeOK
  BY InitType, TypeStep, PTL DEF Spec

-----------------------------------------------------------------------------
(* No double booking *)

\* Every step keeps NoDoubleBooking: it books days nobody holds, or only shrinks
\* the set of open and approved leaves.
LEMMA BookingStep == TypeOK /\ NoDoubleBooking /\ [Next]_vars => NoDoubleBooking'
  <1> SUFFICES ASSUME TypeOK, NoDoubleBooking, [Next]_vars
               PROVE  NoDoubleBooking'
    OBVIOUS
  <1>1. ASSUME NEW l \in Leaves, NEW ds \in Ranges, Create(l, ds, Booked({}), bal),
               status' = [status EXCEPT ![l] = "PENDING"]
        PROVE  NoDoubleBooking'
    <2>1. /\ l \notin Live /\ dates' = [dates EXCEPT ![l] = ds]
          /\ \A k \in Live : ds \cap dates[k] = {}
      BY <1>1 DEF Create, Booked, Live
    <2>2. Live' \subseteq Live \cup {l}
      BY <1>1 DEF Live, TypeOK
    <2>3. \A k \in Live : dates'[k] = dates[k]
      BY <2>1 DEF TypeOK, Live
    <2>4. dates'[l] = ds
      BY <2>1 DEF TypeOK
    <2>5. QED
      BY <2>1, <2>2, <2>3, <2>4 DEF NoDoubleBooking
  <1>2. ASSUME NEW h \in Handlers, NEW n \in Leaves, NEW ds \in Ranges, ReplaceCommit(h, n, ds)
        PROVE  NoDoubleBooking'
    <2> DEFINE old == op[h].leave
    <2>1. old \in Leaves /\ n # old
      BY <1>2, OpType DEF ReplaceCommit
    <2>2. /\ n \notin Live /\ dates' = [dates EXCEPT ![n] = ds]
          /\ \A k \in Live \ {old} : ds \cap dates[k] = {}
      BY <1>2 DEF ReplaceCommit, Create, Booked, Live
    <2>3. Live' \subseteq (Live \ {old}) \cup {n}
      BY <1>2, <2>1 DEF ReplaceCommit, Live, TypeOK
    <2>4. \A k \in Live : dates'[k] = dates[k]
      BY <2>2 DEF TypeOK, Live
    <2>5. dates'[n] = ds
      BY <2>2 DEF TypeOK
    <2> HIDE DEF old
    <2>6. QED
      BY <2>2, <2>3, <2>4, <2>5 DEF NoDoubleBooking
  <1>3. ASSUME Live' \subseteq Live, UNCHANGED dates
        PROVE  NoDoubleBooking'
    BY <1>3 DEF NoDoubleBooking
  <1>4. ASSUME NEW h \in Handlers,
               DecideCommit(h) \/ CancelCommit(h) \/ RecordApprove(h) \/ RecordRollback(h)
        PROVE  Live' \subseteq Live /\ UNCHANGED dates
    <2>1. CASE DecideCommit(h)
      BY <2>1, OpType DEF DecideCommit, Undecided, Live, TypeOK
    <2>2. CASE CancelCommit(h)
      BY <2>2, OpType DEF CancelCommit, Live, TypeOK
    <2>3. CASE RecordApprove(h)
      BY <2>3, OpType DEF RecordApprove, Live, TypeOK
    <2>4. CASE RecordRollback(h)
      BY <2>4, OpType DEF RecordRollback, Live, TypeOK
    <2>5. QED
      BY <1>4, <2>1, <2>2, <2>3, <2>4
  <1>5. ASSUME UNCHANGED <<status, dates>>
        PROVE  Live' \subseteq Live /\ UNCHANGED dates
    BY <1>5 DEF Live
  <1>6. QED
    BY <1>1, <1>2, <1>3, <1>4, <1>5, QuietOrLoud
       DEF Quiet, Apply, RecordCreate, AdjustCommit, ReconcileCommit, EncashCommit,
           EncashApprove, EncashProcess, leaveVars

\* No two pending or approved leaves of an employee share a day.
THEOREM NoDoubleBookingCorrect == Spec => []NoDoubleBooking
  <1>1. Init => NoDoubleBooking
    BY DEF Init, NoDoubleBooking, Live
  <1>2. QED
    BY <1>1, TypeCorrect, BookingStep, PTL DEF Spec

-----------------------------------------------------------------------------
(* Closing *)

\* Every writer of a balance row recalculates its closing, or writes a column
\* that the formula does not read.
LEMMA ClosingStep == TypeOK /\ ClosingIsFormula /\ [Next]_vars => ClosingIsFormula'
  <1> SUFFICES ASSUME TypeOK, ClosingIsFormula, [Next]_vars,
                      "reconcile" \notin races', NEW y \in Years
               PROVE  bal'[y].closing = ClosingOf(bal'[y])
    BY DEF ClosingIsFormula, ClosingOf
  <1>1. races \subseteq races'
    BY QuietOrLoud
       DEF Quiet, Apply, RecordCreate, ReplaceCommit, DecideCommit, CancelCommit,
           RecordApprove, RecordRollback, AdjustCommit, ReconcileCommit,
           EncashCommit, EncashApprove, EncashProcess
  <1>2. bal[y].closing = ClosingOf(bal[y]) /\ bal[y] \in Rows /\ bal \in [Years -> Rows]
    BY <1>1 DEF ClosingIsFormula, TypeOK
  <1>3. ASSUME NEW ds \in SUBSET Dates, bal' = Hold(bal, ds)
        PROVE  bal'[y].closing = ClosingOf(bal'[y])
    BY <1>2, <1>3, HeldRow
  <1>4. ASSUME NEW ds \in SUBSET Dates, NEW p \in {-1, 0, 1}, NEW a \in {-1, 0, 1},
               bal' = Charge(bal, ds, p, a)
        PROVE  bal'[y].closing = ClosingOf(bal'[y])
    <2>1. Charge(bal, ds, p, a)[y].closing = ClosingOf(Charge(bal, ds, p, a)[y])
      BY <1>2, ChargedRow
    <2>2. QED
      BY <1>4, <2>1
  <1>5. ASSUME NEW l \in Leaves, NEW ds \in Ranges, Create(l, ds, Booked({}), bal)
        PROVE  bal'[y].closing = ClosingOf(bal'[y])
    BY <1>3, <1>5, LedgerAssumption DEF Create
  <1>6. ASSUME NEW h \in Handlers, NEW n \in Leaves, NEW ds \in Ranges, ReplaceCommit(h, n, ds)
        PROVE  bal'[y].closing = ClosingOf(bal'[y])
    <2> DEFINE freed == ReleasePending(bal, dates[op[h].leave])
    <2>1. dates[op[h].leave] \in SUBSET Dates /\ ds \in SUBSET Dates
      BY <1>6, OpType, LedgerAssumption DEF ReplaceCommit, TypeOK
    <2>2. freed \in [Years -> Rows] /\ freed[y].closing = ClosingOf(freed[y])
      BY <1>2, <2>1, ChargedRow DEF ReleasePending
    <2>3. bal' = Hold(freed, ds)
      BY <1>6 DEF ReplaceCommit, Create
    <2> HIDE DEF freed
    <2>4. QED
      BY <2>1, <2>2, <2>3, HeldRow
  <1>7. ASSUME NEW h \in Handlers,
               DecideCommit(h) \/ CancelCommit(h) \/ RecordApprove(h) \/ RecordRollback(h)
        PROVE  bal'[y].closing = ClosingOf(bal'[y])
    <2>1. dates[op[h].leave] \in SUBSET Dates
      BY <1>7, OpType DEF DecideCommit, CancelCommit, RecordApprove, RecordRollback, TypeOK
    <2>2. \/ bal' = bal
          \/ bal' = PendingToAvailed(bal, dates[op[h].leave])
          \/ bal' = ReleasePending(bal, dates[op[h].leave])
          \/ bal' = ReleaseAvailed(bal, dates[op[h].leave])
      BY <1>7 DEF DecideCommit, CancelCommit, ReleaseHold, RecordApprove, RecordRollback
    <2>3. QED
      BY <1>2, <1>4, <2>1, <2>2 DEF PendingToAvailed, ReleasePending, ReleaseAvailed
  <1>8. ASSUME NEW h \in Handlers, NEW e \in Encashments, EncashCommit(h, e)
        PROVE  bal'[y].closing = ClosingOf(bal'[y])
    <2>1. op[h].year \in Years /\ op[h].days \in Int
      BY <1>8, OpType DEF EncashCommit
    <2>2. bal' = [bal EXCEPT ![op[h].year].pending = @ + op[h].days]
      BY <1>8 DEF EncashCommit
    <2>3. QED
      BY <1>2, <2>1, <2>2 DEF Rows, ClosingOf
  <1>9. ASSUME NEW e \in Encashments, EncashApprove(e)
        PROVE  bal'[y].closing = ClosingOf(bal'[y])
    <2>1. year \in Years /\ bal[year] \in Rows /\ encDays[e] \in Int
      BY DEF TypeOK
    <2>2. bal' = [bal EXCEPT ![year] = PaidOut(bal[year], encDays[e])]
      BY <1>9 DEF EncashApprove
    <2>3. QED
      BY <1>2, <2>1, <2>2, PaidOutRow
  <1>10. ASSUME NEW h \in Handlers, AdjustCommit(h)
         PROVE  bal'[y].closing = ClosingOf(bal'[y])
    <2>1. op[h].year \in Years /\ bal[op[h].year] \in Rows /\ op[h].days \in Int
      BY <1>10, OpType DEF AdjustCommit, TypeOK
    <2>2. bal' = [bal EXCEPT ![op[h].year] = Corrected(bal[op[h].year], op[h].days)]
      BY <1>10 DEF AdjustCommit
    <2>3. QED
      BY <1>2, <2>1, <2>2, CorrectedRow
  <1>11. ASSUME NEW h \in Handlers, ReconcileCommit(h)
         PROVE  bal'[y].closing = ClosingOf(bal'[y])
    <2> DEFINE credit == UpfrontCredit(op[h].row, op[h].days)
    <2>1. /\ op[h].year \in Years /\ op[h].row \in Rows /\ bal[op[h].year] = op[h].row
          /\ credit \in Int
      BY <1>11, OpType DEF ReconcileCommit, UpfrontCredit, Largest, Rows
    <2>2. bal' = bal \/ bal' = [bal EXCEPT ![op[h].year] =
                                  Recredited(bal[op[h].year], op[h].row, credit)]
      BY <1>11 DEF ReconcileCommit
    <2> DEFINE new == Recredited(op[h].row, op[h].row, credit)
    <2> HIDE DEF credit
    <2>3. new.closing = ClosingOf(new)
      BY <2>1, RecreditedRow
    <2>4. bal' = bal \/ bal' = [bal EXCEPT ![op[h].year] = new]
      BY <2>1, <2>2
    <2> HIDE DEF new
    <2>5. QED
      BY <1>2, <2>1, <2>3, <2>4
  <1>12. QED
    BY <1>2, <1>5, <1>6, <1>7, <1>8, <1>9, <1>10, <1>11, QuietOrLoud
       DEF Quiet, Apply, RecordCreate, EncashProcess, Handlers

\* A row's closing is the formula of its other columns until a quota edit wrote
\* one from a stale read.
THEOREM ClosingCorrect == Spec => []ClosingIsFormula
  <1>1. Init => ClosingIsFormula
    BY LedgerAssumption DEF Init, ClosingIsFormula, ClosingOf, NewRow
  <1>2. QED
    BY <1>1, TypeCorrect, ClosingStep, PTL DEF Spec

-----------------------------------------------------------------------------
(* Attendance *)

\* The history of windows only grows.
LEMMA RacesGrow == [Next]_vars => races \subseteq races'
  BY QuietOrLoud
     DEF Quiet, Apply, RecordCreate, ReplaceCommit, DecideCommit, CancelCommit,
         RecordApprove, RecordRollback, AdjustCommit, ReconcileCommit,
         EncashCommit, EncashApprove, EncashProcess

\* The days stamped On Leave follow the approved leaves through every step.
LEMMA AttendanceStep ==
    TypeOK /\ AttendanceFollowsLeave /\ [Next]_vars => AttendanceFollowsLeave'
  <1> DEFINE Taken == UNION {dates[l] : l \in With("APPROVED")}
  <1> SUFFICES ASSUME TypeOK, [Next]_vars, onLeave = Taken,
                      races' \cap {"cancel", "record"} = {}
               PROVE  (onLeave = Taken)'
    BY RacesGrow DEF AttendanceFollowsLeave
  <1>1. ASSUME UNCHANGED onLeave, With("APPROVED")' = With("APPROVED"),
               \A l \in With("APPROVED") : dates'[l] = dates[l]
        PROVE  (onLeave = Taken)'
    BY <1>1
  <1>2. ASSUME NEW l \in Leaves, NEW ds \in Ranges, Create(l, ds, Booked({}), bal),
               status' = [status EXCEPT ![l] = "PENDING"], UNCHANGED onLeave
        PROVE  (onLeave = Taken)'
    BY <1>1, <1>2 DEF Create, With, TypeOK
  <1>3. ASSUME NEW h \in Handlers, NEW n \in Leaves, NEW ds \in Ranges, ReplaceCommit(h, n, ds)
        PROVE  (onLeave = Taken)'
    <2>1. op[h].leave \in Leaves /\ status[op[h].leave] = "PENDING" /\ status[n] = "NONE"
      BY <1>3, OpType DEF ReplaceCommit, Create
    <2>2. With("APPROVED")' = With("APPROVED")
      BY <1>3, <2>1 DEF ReplaceCommit, With, TypeOK
    <2>3. \A l \in With("APPROVED") : dates'[l] = dates[l]
      BY <1>3, <2>1 DEF ReplaceCommit, Create, With, TypeOK
    <2>4. QED
      BY <1>1, <1>3, <2>2, <2>3 DEF ReplaceCommit
  <1>4. ASSUME NEW l \in Leaves, UNCHANGED dates,
               status' = [status EXCEPT ![l] = "APPROVED"],
               onLeave' = onLeave \cup dates[l]
        PROVE  (onLeave = Taken)'
    <2>1. With("APPROVED")' = With("APPROVED") \cup {l}
      BY <1>4 DEF With, TypeOK
    <2>2. QED
      BY <1>4, <2>1
  <1>5. ASSUME NEW l \in Leaves, NEW s \in Statuses \ {"APPROVED"}, UNCHANGED <<dates, onLeave>>,
               status[l] # "APPROVED", status' = [status EXCEPT ![l] = s]
        PROVE  (onLeave = Taken)'
    <2>1. With("APPROVED")' = With("APPROVED")
      BY <1>5 DEF With, TypeOK
    <2>2. QED
      BY <1>1, <1>5, <2>1
  <1>6. ASSUME NEW h \in Handlers, DecideCommit(h)
        PROVE  (onLeave = Taken)'
    <2>1. op[h].leave \in Leaves /\ op[h].decision \in Statuses /\ status[op[h].leave] = "PENDING"
      BY <1>6, OpType DEF DecideCommit, Undecided, Decisions, Statuses
    <2>2. QED
      BY <1>4, <1>5, <1>6, <2>1 DEF DecideCommit
  <1>7. ASSUME NEW h \in Handlers, CancelCommit(h)
        PROVE  (onLeave = Taken)'
    <2> DEFINE l == op[h].leave
    <2>1. l \in Leaves /\ status[l] = op[h].seen /\ "CANCELLED" \in Statuses \ {"APPROVED"}
      BY <1>7, OpType DEF CancelCommit, Statuses
    <2>2. CASE op[h].seen = "APPROVED"
      <3>1. onLeave' = Reverted(l)
        BY <1>7, <2>2 DEF CancelCommit, ReleaseHold
      <3>2. With("APPROVED")' = With("APPROVED") \ {l}
        BY <1>7, <2>1 DEF CancelCommit, With, TypeOK
      <3>3. UNCHANGED dates
        BY <1>7 DEF CancelCommit
      <3> HIDE DEF l
      <3>4. QED
        BY <2>1, <3>1, <3>2, <3>3 DEF Reverted, With
    <2>3. CASE op[h].seen # "APPROVED"
      <3>1. UNCHANGED onLeave
        BY <1>7, <2>3 DEF CancelCommit, ReleaseHold
      <3>2. QED
        BY <1>5, <1>7, <2>1, <2>3, <3>1 DEF CancelCommit
    <2>4. QED
      BY <2>2, <2>3
  <1>8. ASSUME NEW h \in Handlers, RecordApprove(h)
        PROVE  (onLeave = Taken)'
    BY <1>4, <1>8, OpType DEF RecordApprove
  <1>9. ASSUME NEW h \in Handlers, RecordRollback(h)
        PROVE  (onLeave = Taken)'
    <2> DEFINE l == op[h].leave
    <2>1. /\ l \in Leaves /\ status[l] # "APPROVED"
          /\ "CANCELLED" \in Statuses \ {"APPROVED"}
      BY <1>9, OpType DEF RecordRollback, Statuses
    <2>2. UNCHANGED <<dates, onLeave>> /\ status' = [status EXCEPT ![l] = "CANCELLED"]
      BY <1>9 DEF RecordRollback
    <2> HIDE DEF l
    <2>3. QED
      BY <1>5, <2>1, <2>2
  <1>10. ASSUME UNCHANGED <<status, dates, onLeave>>
         PROVE  (onLeave = Taken)'
    BY <1>1, <1>10 DEF With
  <1>11. QED
    BY <1>2, <1>3, <1>6, <1>7, <1>8, <1>9, <1>10, QuietOrLoud
       DEF Quiet, Apply, RecordCreate, AdjustCommit, ReconcileCommit, EncashCommit,
           EncashApprove, EncashProcess, leaveVars

\* A day is stamped On Leave exactly when an approved leave covers it.
THEOREM AttendanceCorrect == Spec => []AttendanceFollowsLeave
  <1>1. Init => AttendanceFollowsLeave
    BY DEF Init, AttendanceFollowsLeave, With
  <1>2. QED
    BY <1>1, TypeCorrect, AttendanceStep, PTL DEF Spec

-----------------------------------------------------------------------------
(* Two-level approval *)

\* An approval in flight has what it needs: the manager's sign-off, which is
\* never taken back, or the override it will record.
ApprovalsCleared ==
    TwoLevel /\ HasManager =>
        \A h \in Handlers :
            op[h].kind = "decide" /\ op[h].decision = "APPROVED"
                => level1[op[h].leave] \/ op[h].waive

\* A handler that is deciding was deciding the same before the step, or has
\* just read the leave.
LEMMA DeciderStep ==
    ASSUME TypeOK, [Next]_vars, NEW h \in Handlers, op'[h].kind = "decide"
    PROVE  \/ op'[h] = op[h]
           \/ \E l \in Leaves, role \in {"MANAGER", "HR"}, decision \in Decisions,
                 override \in BOOLEAN : ReviewRead(h, l, role, decision, override)
           \/ h = Sweep /\ \E l \in Leaves : SweepRead(l)
  <1>1. ASSUME NEW g \in Handlers, NEW o, o.kind # "decide", Start(g, o)
        PROVE  op'[h] = op[h]
    BY <1>1 DEF Start, TypeOK
  <1>2. ASSUME NEW g \in Handlers, Finish(g)
        PROVE  op'[h] = op[h]
    BY <1>2 DEF Finish, TypeOK, Idle
  <1>3. ASSUME NEW g \in Requests, Read(g)
        PROVE  \/ op'[h] = op[h]
               \/ \E l \in Leaves, role \in {"MANAGER", "HR"}, decision \in Decisions,
                     override \in BOOLEAN : ReviewRead(h, l, role, decision, override)
    <2> g \in Handlers
      BY DEF Handlers
    <2>1. CASE g = h /\ \E l \in Leaves, role \in {"MANAGER", "HR"}, decision \in Decisions,
                     override \in BOOLEAN : ReviewRead(g, l, role, decision, override)
      BY <2>1
    <2>2. CASE g # h
      <3>1. \A o : Start(g, o) => op'[h] = op[h]
        BY <2>2 DEF Start, TypeOK
      <3>2. \E o : Start(g, o)
        BY <1>3 DEF Read, ReplaceRead, ReviewRead, CancelRead, DecideCancelRead,
                    RecordCreate, EncashRead, AdjustRead, ReconcileRead
      <3>3. QED
        BY <3>1, <3>2
    <2>3. ASSUME NEW l \in Leaves, ReplaceRead(g, l) \/ CancelRead(g, l)
          PROVE  op'[h] = op[h]
      BY <1>1, <2>3 DEF ReplaceRead, CancelRead
    <2>4. ASSUME NEW l \in Leaves, NEW approve \in BOOLEAN, DecideCancelRead(g, l, approve)
          PROVE  op'[h] = op[h]
      BY <1>1, <2>4 DEF DecideCancelRead
    <2>5. ASSUME NEW l \in Leaves, NEW ds \in Ranges, RecordCreate(g, l, ds)
          PROVE  op'[h] = op[h]
      BY <1>1, <2>5 DEF RecordCreate
    <2>6. ASSUME NEW n \in EncashDays, EncashRead(g, n)
          PROVE  op'[h] = op[h]
      BY <1>1, <2>6 DEF EncashRead
    <2>7. ASSUME NEW y \in Years, NEW n \in AdjustDays, AdjustRead(g, y, n)
          PROVE  op'[h] = op[h]
      BY <1>1, <2>7 DEF AdjustRead
    <2>8. ASSUME NEW q \in Quotas, ReconcileRead(g, q)
          PROVE  op'[h] = op[h]
      BY <1>1, <2>8 DEF ReconcileRead
    <2>9. QED
      BY <1>3, <2>1, <2>2, <2>3, <2>4, <2>5, <2>6, <2>7, <2>8 DEF Read
  <1>4. ASSUME NEW l \in Leaves, SweepRead(l)
        PROVE  op'[h] = op[h] \/ h = Sweep
    BY <1>4 DEF SweepRead, Start, TypeOK, Handlers
  <1>5. ASSUME NEW g \in Handlers, Commit(g)
        PROVE  op'[h] = op[h]
    BY <1>2, <1>5
       DEF Commit, ReplaceCommit, LevelOneCommit, DecideCommit, CancelCommit, DeclineCommit,
           GiveUp, RecordApprove, RecordRollback, EncashCommit, AdjustCommit, ReconcileCommit
  <1>6. QED
    BY <1>3, <1>4, <1>5
       DEF Next, vars, Submit, Apply, RequestCancel, EncashApprove, EncashProcess,
           LockMonth, UnlockMonth, NextYear

\* The manager's sign-off is never taken back.
LEMMA SignOffStays ==
    ASSUME TypeOK, [Next]_vars, NEW l \in Leaves, level1[l]
    PROVE  level1'[l]
  <1>1. ASSUME NEW h \in Handlers, LevelOneCommit(h)
        PROVE  level1'[l]
    BY <1>1 DEF LevelOneCommit, TypeOK
  <1>2. ASSUME NEW h \in Handlers, Commit(h), ~LevelOneCommit(h)
        PROVE  UNCHANGED level1
    BY <1>2
       DEF Commit, ReplaceCommit, DecideCommit, CancelCommit, DeclineCommit, GiveUp,
           RecordApprove, RecordRollback, EncashCommit, AdjustCommit, ReconcileCommit, leaveVars
  <1>3. ASSUME NEW h, Read(h)
        PROVE  UNCHANGED level1
    BY <1>3 DEF Read, ReplaceRead, ReviewRead, CancelRead, DecideCancelRead, RecordCreate,
                EncashRead, AdjustRead, ReconcileRead, leaveVars
  <1>4. QED
    BY <1>1, <1>2, <1>3
       DEF Next, vars, Submit, Apply, SweepRead, RequestCancel, EncashApprove, EncashProcess,
           LockMonth, UnlockMonth, NextYear, leaveVars

\* Every step keeps ApprovalsCleared.
LEMMA ClearedStep == TypeOK /\ ApprovalsCleared /\ [Next]_vars => ApprovalsCleared'
  <1> SUFFICES ASSUME TypeOK, ApprovalsCleared, [Next]_vars, TwoLevel, HasManager,
                      NEW h \in Handlers, op'[h].kind = "decide",
                      op'[h].decision = "APPROVED"
               PROVE  level1'[op'[h].leave] \/ op'[h].waive
    BY DEF ApprovalsCleared
  <1>1. CASE op'[h] = op[h]
    <2>1. op[h].leave \in Leaves
      BY <1>1, OpType
    <2>2. level1[op[h].leave] \/ op[h].waive
      BY <1>1 DEF ApprovalsCleared
    <2>3. QED
      BY <1>1, <2>1, <2>2, SignOffStays
  <1>2. ASSUME NEW l \in Leaves, NEW role \in {"MANAGER", "HR"}, NEW decision \in Decisions,
               NEW override \in BOOLEAN, ReviewRead(h, l, role, decision, override)
        PROVE  level1'[op'[h].leave] \/ op'[h].waive
    <2> DEFINE w == override /\ TwoLevel /\ ~level1[l] /\ HasManager
               o == [kind |-> "decide", leave |-> l, decision |-> decision, waive |-> w]
    <2>1. \/ op'[h] = [kind |-> "level1", leave |-> l]
          \/ op'[h] = o /\ (decision = "APPROVED" => (~level1[l] => override))
      BY <1>2 DEF ReviewRead, Start, TypeOK
    <2>2. op'[h] = o /\ (decision = "APPROVED" => (~level1[l] => override))
      BY <2>1
    <2>3. o.leave = l /\ o.waive = w /\ o.decision = decision
      OBVIOUS
    <2>4. level1[l] \/ w
      BY <2>2, <2>3
    <2> HIDE DEF o, w
    <2>5. QED
      BY <2>2, <2>3, <2>4, SignOffStays
  <1>3. ASSUME NEW l \in Leaves, SweepRead(l), h = Sweep
        PROVE  level1'[op'[h].leave] \/ op'[h].waive
    <2>1. level1[l] /\ op'[h].leave = l
      BY <1>3 DEF SweepRead, SweepMay, Start, TypeOK
    <2>2. QED
      BY <2>1, SignOffStays
  <1>4. QED
    BY <1>1, <1>2, <1>3, DeciderStep

\* An approved leave was cleared when it became approved, and stays so.
LEMMA LevelOneStep ==
    TypeOK /\ ApprovalsCleared /\ LevelOneRespected /\ [Next]_vars => LevelOneRespected'
  <1> SUFFICES ASSUME TypeOK, ApprovalsCleared, LevelOneRespected, [Next]_vars,
                      TwoLevel, HasManager, NEW l \in Leaves, status'[l] = "APPROVED"
               PROVE  level1'[l] \/ waived'[l]
    BY DEF LevelOneRespected, With
  <1>1. ASSUME status[l] = "APPROVED", waived'[l] = waived[l]
        PROVE  level1'[l] \/ waived'[l]
    BY <1>1, SignOffStays DEF LevelOneRespected, With
  <1>2. ASSUME NEW h \in Handlers, DecideCommit(h)
        PROVE  level1'[l] \/ waived'[l]
    <2>1. CASE op[h].leave = l
      <3>1. op[h].decision = "APPROVED" /\ waived'[l] = op[h].waive
        BY <1>2, <2>1 DEF DecideCommit, TypeOK
      <3>2. level1[l] \/ op[h].waive
        BY <1>2, <2>1, <3>1 DEF DecideCommit, ApprovalsCleared
      <3>3. QED
        BY <3>1, <3>2, SignOffStays
    <2>2. CASE op[h].leave # l
      <3>1. status[l] = "APPROVED" /\ waived'[l] = waived[l]
        BY <1>2, <2>2 DEF DecideCommit, TypeOK
      <3>2. QED
        BY <1>1, <3>1
    <2>3. QED
      BY <2>1, <2>2
  <1>3. ASSUME NEW h \in Handlers, RecordApprove(h)
        PROVE  level1'[l] \/ waived'[l]
    <2>1. CASE op[h].leave = l
      BY <1>3, <2>1 DEF RecordApprove, TypeOK
    <2>2. CASE op[h].leave # l
      <3>1. status[l] = "APPROVED" /\ waived'[l] = waived[l]
        BY <1>3, <2>2 DEF RecordApprove, TypeOK
      <3>2. QED
        BY <1>1, <3>1
    <2>3. QED
      BY <2>1, <2>2
  <1>4. ASSUME NEW h \in Handlers, CancelCommit(h) \/ RecordRollback(h)
        PROVE  level1'[l] \/ waived'[l]
    <2>1. status[l] = "APPROVED" /\ waived'[l] = waived[l]
      BY <1>4 DEF CancelCommit, RecordRollback, TypeOK
    <2>2. QED
      BY <1>1, <2>1
  <1>5. ASSUME NEW h \in Handlers, NEW n \in Leaves, NEW ds \in Ranges, ReplaceCommit(h, n, ds)
        PROVE  level1'[l] \/ waived'[l]
    <2>1. status[l] = "APPROVED" /\ waived'[l] = waived[l]
      BY <1>5 DEF ReplaceCommit, TypeOK
    <2>2. QED
      BY <1>1, <2>1
  <1>6. ASSUME NEW k \in Leaves, status' = [status EXCEPT ![k] = "PENDING"], UNCHANGED waived
        PROVE  level1'[l] \/ waived'[l]
    BY <1>1, <1>6 DEF TypeOK
  <1>7. ASSUME UNCHANGED <<status, waived>>
        PROVE  level1'[l] \/ waived'[l]
    BY <1>1, <1>7
  <1>8. QED
    BY <1>2, <1>3, <1>4, <1>5, <1>6, <1>7, QuietOrLoud
       DEF Quiet, Apply, RecordCreate, AdjustCommit, ReconcileCommit, EncashCommit,
           EncashApprove, EncashProcess, leaveVars

\* A two-level leave is approved only with the manager's sign-off or an audited
\* override, whatever reviewers, edits and sweeps interleave.
THEOREM LevelOneCorrect == Spec => []LevelOneRespected
  <1>1. Init => ApprovalsCleared /\ LevelOneRespected
    BY DEF Init, ApprovalsCleared, LevelOneRespected, With, Idle
  <1>2. QED
    BY <1>1, TypeCorrect, ClearedStep, LevelOneStep, PTL DEF Spec

-----------------------------------------------------------------------------
(* LeaveLedger implements LeaveLife: to an outsider a request is decided   *)
(* once, edited in one step and never reopened.                            *)

\* A leave being recorded exists, and one call records it.
RecordedOnce ==
    /\ \A h \in Handlers : op[h].kind = "record" => status[op[h].leave] # "NONE"
    /\ \A g, h \in Handlers :
         /\ op[g].kind = "record" /\ op[h].kind = "record"
         /\ op[g].leave = op[h].leave
         => g = h

\* A step that records nothing leaves the recording handlers alone.
Unrecorded ==
    \A h \in Handlers :
        /\ op'[h].kind = "record" <=> op[h].kind = "record"
        /\ op[h].kind = "record" => op'[h] = op[h]

\* Starting any other handler, and finishing one that was not recording.
LEMMA OtherHandler ==
    ASSUME TypeOK, NEW h \in Handlers,
           \/ op' = op
           \/ \E o : o.kind # "record" /\ Start(h, o)
           \/ op[h].kind # "record" /\ Finish(h)
    PROVE  Unrecorded
  <1> SUFFICES ASSUME NEW g \in Handlers
               PROVE  /\ op'[g].kind = "record" <=> op[g].kind = "record"
                      /\ op[g].kind = "record" => op'[g] = op[g]
    BY DEF Unrecorded
  <1>1. ASSUME NEW o, o.kind # "record", Start(h, o)
        PROVE  /\ op'[g].kind = "record" <=> op[g].kind = "record"
               /\ op[g].kind = "record" => op'[g] = op[g]
    <2>1. op[h].kind # "record"
      BY <1>1 DEF Start, Idle
    <2>2. op'[h] = o /\ \A f \in Handlers \ {h} : op'[f] = op[f]
      BY <1>1 DEF Start, TypeOK
    <2>3. QED
      BY <1>1, <2>1, <2>2
  <1>2. ASSUME op[h].kind # "record", Finish(h)
        PROVE  /\ op'[g].kind = "record" <=> op[g].kind = "record"
               /\ op[g].kind = "record" => op'[g] = op[g]
    <2>1. op'[h].kind # "record" /\ \A f \in Handlers \ {h} : op'[f] = op[f]
      BY <1>2 DEF Finish, TypeOK, Idle
    <2>2. QED
      BY <1>2, <2>1
  <1>3. QED
    BY <1>1, <1>2

\* Every step either records nothing, or starts or ends one recording.
LEMMA RecordingStep ==
    ASSUME TypeOK, [Next]_vars
    PROVE  \/ Unrecorded
           \/ \E h \in Requests, l \in Leaves, ds \in Ranges : RecordCreate(h, l, ds)
           \/ \E h \in Handlers : RecordApprove(h) \/ RecordRollback(h)
  <1>1. ASSUME op' = op
        PROVE  Unrecorded
    BY <1>1 DEF Unrecorded
  <1>2. ASSUME NEW h \in Requests, Read(h)
        PROVE  Unrecorded \/ \E l \in Leaves, ds \in Ranges : RecordCreate(h, l, ds)
    <2> h \in Handlers
      BY DEF Handlers
    <2>1. ASSUME NEW l \in Leaves, ReplaceRead(h, l) \/ CancelRead(h, l)
          PROVE  Unrecorded
      BY <2>1, OtherHandler DEF ReplaceRead, CancelRead
    <2>2. ASSUME NEW l \in Leaves, NEW approve \in BOOLEAN, DecideCancelRead(h, l, approve)
          PROVE  Unrecorded
      BY <2>2, OtherHandler DEF DecideCancelRead
    <2>3. ASSUME NEW l \in Leaves, NEW role, NEW decision, NEW override,
                 ReviewRead(h, l, role, decision, override)
          PROVE  Unrecorded
      <3>1. \/ Start(h, [kind |-> "level1", leave |-> l])
            \/ \E w : Start(h, [kind |-> "decide", leave |-> l, decision |-> decision,
                                waive |-> w])
        BY <2>3 DEF ReviewRead
      <3>2. QED
        BY <3>1, OtherHandler
    <2>4. ASSUME NEW n \in EncashDays, EncashRead(h, n)
          PROVE  Unrecorded
      BY <2>4, OtherHandler DEF EncashRead
    <2>5. ASSUME NEW y \in Years, NEW n \in AdjustDays, AdjustRead(h, y, n)
          PROVE  Unrecorded
      BY <2>5, OtherHandler DEF AdjustRead
    <2>6. ASSUME NEW q \in Quotas, ReconcileRead(h, q)
          PROVE  Unrecorded
      BY <2>6, OtherHandler DEF ReconcileRead
    <2>7. QED
      BY <1>2, <2>1, <2>2, <2>3, <2>4, <2>5, <2>6 DEF Read
  <1>3. ASSUME NEW l \in Leaves, SweepRead(l)
        PROVE  Unrecorded
    <2>1. Sweep \in Handlers
      BY DEF Handlers
    <2>2. QED
      BY <1>3, <2>1, OtherHandler DEF SweepRead
  <1>4. ASSUME NEW h \in Handlers, Commit(h)
        PROVE  Unrecorded \/ RecordApprove(h) \/ RecordRollback(h)
    <2>1. RecordApprove(h) \/ RecordRollback(h) \/ (op[h].kind # "record" /\ Finish(h))
      BY <1>4
         DEF Commit, ReplaceCommit, LevelOneCommit, DecideCommit, CancelCommit, DeclineCommit,
             GiveUp, EncashCommit, AdjustCommit, ReconcileCommit
    <2>2. QED
      BY <2>1, OtherHandler
  <1>5. QED
    BY <1>1, <1>2, <1>3, <1>4
       DEF Next, vars, Submit, Apply, RequestCancel, EncashApprove, EncashProcess,
           LockMonth, UnlockMonth, NextYear

\* A leave that exists never stops existing.
LEMMA NeverUncreated ==
    ASSUME TypeOK, [Next]_vars, NEW l \in Leaves, status[l] # "NONE"
    PROVE  status'[l] # "NONE"
  <1>1. ASSUME NEW h \in Handlers, DecideCommit(h)
        PROVE  status'[l] # "NONE"
    <2>1. op[h].decision \in Decisions
      BY <1>1, OpType DEF DecideCommit
    <2>2. QED
      BY <1>1, <2>1 DEF DecideCommit, TypeOK, Decisions
  <1>2. ASSUME NEW h \in Handlers, CancelCommit(h) \/ RecordApprove(h) \/ RecordRollback(h)
        PROVE  status'[l] # "NONE"
    BY <1>2 DEF CancelCommit, RecordApprove, RecordRollback, TypeOK
  <1>3. ASSUME NEW h \in Handlers, NEW n \in Leaves, NEW ds \in Ranges, ReplaceCommit(h, n, ds)
        PROVE  status'[l] # "NONE"
    BY <1>3 DEF ReplaceCommit, TypeOK
  <1>4. ASSUME NEW k \in Leaves, status' = [status EXCEPT ![k] = "PENDING"]
        PROVE  status'[l] # "NONE"
    BY <1>4 DEF TypeOK
  <1>5. QED
    BY <1>1, <1>2, <1>3, <1>4, QuietOrLoud
       DEF Quiet, Apply, RecordCreate, AdjustCommit, ReconcileCommit, EncashCommit,
           EncashApprove, EncashProcess, leaveVars

\* Every step keeps RecordedOnce.
LEMMA RecordedOnceStep == TypeOK /\ RecordedOnce /\ [Next]_vars => RecordedOnce'
  <1> SUFFICES ASSUME TypeOK, RecordedOnce, [Next]_vars
               PROVE  RecordedOnce'
    OBVIOUS
  <1>1. ASSUME NEW h \in Handlers, op'[h] = op[h], op[h].kind = "record"
        PROVE  status'[op'[h].leave] # "NONE"
    BY <1>1, OpType, NeverUncreated DEF RecordedOnce
  <1>2. CASE Unrecorded
    BY <1>1, <1>2 DEF Unrecorded, RecordedOnce
  <1>3. ASSUME NEW h \in Requests, NEW l \in Leaves, NEW ds \in Ranges, RecordCreate(h, l, ds)
        PROVE  RecordedOnce'
    <2>1. /\ h \in Handlers /\ op'[h] = [kind |-> "record", leave |-> l]
          /\ \A f \in Handlers \ {h} : op'[f] = op[f]
      BY <1>3 DEF RecordCreate, Start, Handlers, TypeOK
    <2>2. status[l] = "NONE" /\ status'[l] = "PENDING"
      BY <1>3 DEF RecordCreate, Create, TypeOK
    <2>3. op'[h].leave = l
      BY <2>1
    <2>4. \A f \in Handlers \ {h} : op[f].kind = "record" => op[f].leave # l
      BY <2>2 DEF RecordedOnce
    <2>5. QED
      BY <1>1, <2>1, <2>2, <2>3, <2>4 DEF RecordedOnce
  <1>4. ASSUME NEW h \in Handlers, RecordApprove(h) \/ RecordRollback(h)
        PROVE  RecordedOnce'
    <2>1. \A f \in Handlers : op'[f] = op[f] \/ op'[f] = Idle
      BY <1>4 DEF RecordApprove, RecordRollback, Finish, TypeOK
    <2>2. \A f \in Handlers : op'[f].kind = "record" => op'[f] = op[f]
      BY <2>1 DEF Idle
    <2>3. QED
      BY <1>1, <2>2 DEF RecordedOnce
  <1>5. QED
    BY <1>2, <1>3, <1>4, RecordingStep

\* The set of leaves being recorded, after each kind of step.
LEMMA RecordingSet ==
    ASSUME TypeOK, RecordedOnce, NEW h \in Handlers
    PROVE  /\ Unrecorded => Recording' = Recording
           /\ \A l : Start(h, [kind |-> "record", leave |-> l])
                => Recording' = Recording \cup {l}
           /\ op[h].kind = "record"
                => /\ op[h].leave \in Recording
                   /\ Finish(h) => Recording' = Recording \ {op[h].leave}
                   /\ op' = op => Recording' = Recording
  <1>1. ASSUME Unrecorded
        PROVE  Recording' = Recording
    BY <1>1 DEF Unrecorded, Recording
  <1>2. ASSUME NEW l, Start(h, [kind |-> "record", leave |-> l])
        PROVE  Recording' = Recording \cup {l}
    <2>1. /\ op'[h].kind = "record" /\ op'[h].leave = l /\ op[h].kind # "record"
          /\ \A f \in Handlers \ {h} : op'[f] = op[f]
      BY <1>2 DEF Start, TypeOK, Idle
    <2>2. QED
      BY <2>1 DEF Recording
  <1>3. ASSUME op[h].kind = "record", Finish(h)
        PROVE  Recording' = Recording \ {op[h].leave}
    <2>1. op'[h].kind # "record" /\ \A f \in Handlers \ {h} : op'[f] = op[f]
      BY <1>3 DEF Finish, TypeOK, Idle
    <2>2. \A f \in Handlers \ {h} : op[f].kind = "record" => op[f].leave # op[h].leave
      BY <1>3 DEF RecordedOnce
    <2>3. QED
      BY <1>3, <2>1, <2>2 DEF Recording
  <1>4. QED
    BY <1>1, <1>2, <1>3 DEF Recording

\* Every step of the ledger is a step of LeaveLife, or changes nothing it sees.
LEMMA LifeStep ==
    TypeOK /\ RecordedOnce /\ [Next]_vars => [Life!Next]_<<status, Recording>>
  <1> SUFFICES ASSUME TypeOK, RecordedOnce, [Next]_vars
               PROVE  Life!Next \/ UNCHANGED <<status, Recording>>
    OBVIOUS
  <1> Sweep \in Handlers
    BY DEF Handlers
  <1> USE DEF Life!Next
  <1>1. ASSUME NEW h \in Requests, NEW l \in Leaves, NEW ds \in Ranges, RecordCreate(h, l, ds)
        PROVE  Life!Next
    <2>1. h \in Handlers
      BY DEF Handlers
    <2>2. Recording' = Recording \cup {l}
      BY <1>1, <2>1, RecordingSet DEF RecordCreate
    <2>3. QED
      BY <1>1, <2>2 DEF RecordCreate, Create, Life!Record
  <1>2. ASSUME NEW h \in Handlers, RecordApprove(h)
        PROVE  Life!Next
    <2> DEFINE l == op[h].leave
    <2>1. l \in Leaves /\ l \in Recording
      BY <1>2, OpType, RecordingSet DEF RecordApprove
    <2>2. Recording' \in {Recording, Recording \ {l}}
      BY <1>2, RecordingSet DEF RecordApprove
    <2>3. status[l] = "PENDING" /\ status' = [status EXCEPT ![l] = "APPROVED"]
      BY <1>2 DEF RecordApprove
    <2> HIDE DEF l
    <2>4. QED
      BY <2>1, <2>2, <2>3 DEF Life!Approve
  <1>3. ASSUME NEW h \in Handlers, RecordRollback(h)
        PROVE  Life!Next
    <2> DEFINE l == op[h].leave
    <2>1. l \in Leaves /\ l \in Recording /\ Recording' = Recording \ {l}
      BY <1>3, OpType, RecordingSet DEF RecordRollback
    <2>2. status' = [status EXCEPT ![l] = "CANCELLED"]
      BY <1>3 DEF RecordRollback
    <2> HIDE DEF l
    <2>3. QED
      BY <2>1, <2>2 DEF Life!Retract
  <1>4. CASE Unrecorded
    <2>1. Recording' = Recording
      BY <1>4, RecordingSet
    <2>2. ASSUME NEW l \in Leaves, NEW ds \in Ranges, Apply(l, ds)
          PROVE  Life!Next
      BY <2>1, <2>2 DEF Apply, Create, Life!Submit
    <2>3. ASSUME NEW h \in Handlers, NEW n \in Leaves, NEW ds \in Ranges, ReplaceCommit(h, n, ds)
          PROVE  Life!Next
      <3>1. op[h].leave \in Leaves
        BY <2>3, OpType DEF ReplaceCommit
      <3>2. Life!Edit(op[h].leave, n)
        BY <2>1, <2>3 DEF ReplaceCommit, Create, Life!Edit
      <3>3. QED
        BY <3>1, <3>2
    <2>4. ASSUME NEW h \in Handlers, DecideCommit(h)
          PROVE  Life!Next
      <3>1. op[h].leave \in Leaves /\ op[h].decision \in Decisions
        BY <2>4, OpType DEF DecideCommit
      <3>2. Life!Decide(op[h].leave)
        BY <2>1, <2>4, <3>1 DEF DecideCommit, Undecided, Decisions, Life!Decide
      <3>3. QED
        BY <3>1, <3>2
    <2>5. ASSUME NEW h \in Handlers, CancelCommit(h)
          PROVE  Life!Next
      <3>1. op[h].leave \in Leaves
        BY <2>5, OpType DEF CancelCommit
      <3>2. Life!Withdraw(op[h].leave)
        BY <2>1, <2>5 DEF CancelCommit, Cancellable, Life!Withdraw
      <3>3. QED
        BY <3>1, <3>2
    <2>6. QED
      BY <1>1, <1>2, <1>3, <2>1, <2>2, <2>3, <2>4, <2>5, QuietOrLoud
         DEF Quiet, AdjustCommit, ReconcileCommit, EncashCommit, EncashApprove,
             EncashProcess, leaveVars
  <1>5. QED
    BY <1>1, <1>2, <1>3, <1>4, RecordingStep

\* The handlers, interleaved in any way, implement the life of a request that
\* LeaveLife promises.
THEOREM LifeImplemented == Spec => LifeSpec
  <1>1. Init => Life!Init /\ RecordedOnce
    BY DEF Init, Life!Init, Recording, RecordedOnce, Idle
  <1>2. QED
    BY <1>1, TypeCorrect, RecordedOnceStep, LifeStep, PTL DEF Spec, LifeSpec, Life!Spec
=============================================================================
