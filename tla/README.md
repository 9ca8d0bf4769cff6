# HRMS backend: a verification project

TLA+ models, TLC runs and TLAPS proofs for the transactional core of the HRMS
backend (NestJS, Prisma, PostgreSQL) in `src/src`: leave, payroll, comp-offs, the
way an employee leaves, the final settlement, and the attendance day that all of
them read. The question asked of every
part is the same: **each HTTP handler reads, decides, and writes later; what
still holds when other handlers, a cron or a crash come in between?** The
database runs at READ COMMITTED, most checks are made before a transaction is
opened, and most guards on a write repeat only part of what was checked. Unit
tests run one handler at a time, so this is what they do not reach.

Contents

1. [The system](#1-the-system): components, state, operations, interactions
2. [Modules](#2-modules): which module models what, and how it maps to the code
3. [Conventions](#3-conventions): handlers, windows, slips
4. [Runs](#4-runs): what TLC checks, the bounds, the fairness
5. [Proofs](#5-proofs): what TLAPS proves, from what and how, and what is only model-checked
6. [Findings](#6-findings): where code and comments disagree
7. [Limits](#7-limits): what is not modelled
8. [Plan](#8-plan)

## 1. The system

A multi-tenant HR backend: one Node process (or several), one PostgreSQL
database, cron jobs inside the process, e-mail and file storage outside. There
is no message queue and no in-memory state that matters; components interact
by calling each other's services and by sharing tables. So the state of the
system is its rows, its steps are the statements and transactions of handlers,
and its concurrency is the interleaving of those.

| component | state it keeps | operations that change it | what makes it hard | what must hold |
|---|---|---|---|---|
| leaves | `leaves` (status, days, level-1 sign-off, cancel request) | apply, edit (cancel + new row), review at two levels, auto-approve sweep, cancel, request / decide a cancellation, record (import, manual) | checks outside the transaction; a snapshot's status decides which hold is reversed; the sweep competes with people | no day booked twice; decided once; the manager's level is never skipped; a request past its deadline is decided |
| leave-balances | `leave_balances` per (employee, type, leave year): credited, pending, availed, encashed, adjusted, closing | hold, charge, release, adjust, reconcile, accrue, carry forward | five writers, no common lock; `closing` is derived but stored | the columns are what requests and encashments claim; `closing` is the formula; never overdrawn |
| leave-encashments | `leave_encashments` | request, review, process; settled by a payroll lock | charged to a leave year twice (hold and decision); paid by payroll or outside it | held once, deducted once, paid once |
| attendance | one `attendances` row per employee and day (status, source, times, what a leave replaced, regularization, Work From Home), its `punches`, `attendance_regularization_requests` | punch, recalculate (after a punch, at 01:00 and 08:00), stamp and revert by leaves, file / review / withdraw a regularization, import, ask for and decide Work From Home, sweeps | six writers of one row, most of them read and update by id; what a row means depends on who wrote it last; history in a second row | the day is paid for the work and the leave on it, once; the history follows the day; a request is decided once |
| payroll | `payroll_runs` (status, figures, people, effects recorded, hold, inputs changed) | draft, calculate, adjust, verify, approve, lock, pay, unlock, remove, hold, release, re-apply effects | guards repeat the status only; a lock settles loans and encashments in separate statements after its own | figures signed off do not move and are current; separation of duties; what is paid is settled, once |
| loans | `loans.outstandingBalance`, `loan_repayments` | instalment by a lock, repayment by hand, reversal by unlock | check-then-write on (loan, run); balance and history in different rows | charged once per run; history adds up to the balance |
| auth | `refresh_tokens` (families), password hashes | login, refresh (rotation), reuse detection, logout, reset, change | two refreshes of one token; a reset beside a refresh | a family that was reused or revoked stays dead |
| comp-offs | `comp_offs` (status, days earned and availed, expiry) | claim, review, withdraw, consume and release by a leave, lazy expiry | absolute days written by compare-and-swap; expiry swept by reads only; the check of a day is not repeated by the insert | what leaves took is covered by credits; a credit adds up; expired credits are left alone |
| overtime | `overtime_records`, one per employee and day | log, automatic suggestion, review: pay or a comp-off | shares "one day, one benefit" with comp-offs without a common key | a day's work is rewarded once |
| resignations | `resignations` (status, last working day, withdrawal request, the exit it led to) | submit, record, withdraw, reject, approve (flip, start the exit, announce it, link, prepare the settlement), ask to withdraw, decide that | an approval is a chain of transactions, taken back by id when any part of the start fails; a withdrawal is decided against an exit that may not be linked yet | an approved resignation stands for a live exit, a withdrawn one for none |
| offboarding | `offboarding_cases` (status, last working day, checklist, settlement), and `users` (exit date, status, active) | start, clear, move the day, link, complete, cancel; the hourly job settles and completes | checks before, writes by id after; two rows of two components must end alike | nobody is closed out unpaid; exit date and notice stage follow the exit |
| settlements | `settlements` with one final `payroll_runs` row; writes loans, claims, leave balances | calculate, discard, process, reverse, mark paid | figures read in one request are booked by another; loans, claims, leave and the month's payroll move in between | booked as figured, undone as booked; nothing paid by two ways |
| reimbursements | `reimbursements` | claim, review, pay; paid by a settlement | reviewed while a settlement sums them up | paid once, by the run that names it |
| everything else | configuration, documents, read models, mail | CRUD | little: one row, one statement | - |

Interactions that the models keep:

- **leaves -> leave-balances -> attendance**: one transaction of a decision
  moves the request, its balance rows (one per leave year it touches) and the
  On Leave stamps.
- **payroll -> leaves**: `assertPayrollMonthsUnlocked` refuses a decision,
  cancellation or edit that touches a month whose run is LOCKED or PAID.
- **leaves, attendance, overtime -> payroll**: `markPayrollInputsChanged` takes
  an open run back to CALCULATED and marks it out of date, in the transaction
  that changes the records.
- **payroll -> leave-encashments, loans**: a lock marks the encashments on the
  payslip PROCESSED and charges the instalment; an unlock gives both back.
- **leave-encashments -> leave-balances**: a request holds days, an approval
  deducts them.
- **leaves -> attendance -> payroll**: the day's row is stamped by a leave and
  put back by its cancellation; `resolveDayPay` pays a day from the row's status
  *and* source and from the leave.
- **resignations -> offboarding -> settlements**: an approval starts the exit and
  prepares its settlement; the exit completes only once that settlement is paid,
  and is not called off once it is processed.
- **settlements -> payroll, loans, reimbursements, leave-balances**: processing
  creates a final run, closes loans, marks claims paid and encashes leave, a
  reversal gives all four back; a regular run of the month skips who is settled.
- **leaves -> comp-offs**: the approval of a comp-off leave consumes credits, its
  cancellation releases them, inside the transaction of the leave.
- **overtime <-> comp-offs**: approved overtime of an off day may grant a comp-off;
  either refuses a day the other has claimed.

`PROJECT.json` lists every component with its sources, also those not
modelled, and the hazards with the line where each bites.

## 2. Modules

| module | what it is |
|---|---|
| `LeaveLedger` | leave requests, encashments and balance rows of one employee and one quota leave type; every handler that writes them, the sweep, the turn of the leave year |
| `LeaveLife` | abstract specification: what a request promises to whoever only sees its status |
| `MCLeaveLedger` | the instances TLC checks (four days over two leave years) |
| `LeaveLedgerProofs`, `LeaveLedgerBalanceProofs` | proofs: types, overlap, closing, stamps, level 1, refinement of `LeaveLife`; the ledger's sums, never overdrawn |
| `PayrollRun` | regular payroll runs of one employee, with the loan and encashments they settle |
| `MCPayrollRun` | the instances TLC checks (one run, or one run in each of two months) |
| `PayrollRunProofs`, `PayrollEffectsProofs` | proofs: types, what the sign-off of a payslip guarantees; what a lock settles and an unlock takes back |
| `CompOff` | comp-off credits of one employee, the overtime records of off days, and the leaves that consume credits |
| `MCCompOff` | the instance TLC checks |
| `CompOffProofs` | proofs: types, credits add up, expired credits are left, one day one benefit, the days of leaves are covered, pending requests can be granted |
| `ExitCase` | how one employee leaves: resignation, exit, settlement status, account |
| `ExitCaseProofs` | proofs: types, and all four safety properties of `ExitCase` |
| `Settlement` | the figures of one final settlement and the payroll run, loan, claims and leave they stand on |
| `SettlementProofs` | proofs: types, and all three safety properties of `Settlement` |
| `AttendanceDay` | one past working day of one employee: all writers of its row, and its pay |
| `AttendanceDayProofs` | proofs: types, and all three safety properties of `AttendanceDay` |
| `MCExitCase`, `MCSettlement`, `MCAttendanceDay` | the instances TLC checks |

### LeaveLedger and the code

One employee and one leave type is the unit in which the code works: overlap is
per employee, a balance row is per (employee, type, leave year), and nothing
compares two employees.

| state | code |
|---|---|
| `status`, `dates`, `level1`, `asked` | `Leave.status`, the days charged (`totalDays`, `yearSplit`), `level1ApprovedById`, `cancelRequestedAt` |
| `waived` | the audited level-1 override, or a leave HR recorded itself |
| `bal[y]` | the `LeaveBalance` row of leave year `y` |
| `encStatus`, `encDays`, `encYear` | `LeaveEncashment` |
| `onLeave` | attendance days stamped On Leave |
| `locked` | months with a LOCKED or PAID run |
| `op[h]` | what handler `h` has read and not yet acted on |

| action | code |
|---|---|
| `Apply` | `apply` -> `createLeaveInternal`, whose overlap check, balance check and insert are under `FOR UPDATE` of the employee's row: one step |
| `ReplaceRead` / `ReplaceCommit` | `update`: the edit cancels the original and inserts the new row in one transaction |
| `ReviewRead`, `LevelOneCommit`, `DecideCommit` | `review` and `applyDecision`; level 1 writes by id, without a status guard |
| `SweepRead` + `DecideCommit` | `autoApprovePendingLeaves` |
| `CancelRead` / `CancelCommit` | `cancel`, `decideCancelRequest` (approve) -> `performCancel` -> `releaseHold` |
| `RequestCancel`, `DecideCancelRead`, `DeclineCommit` | cancellation requests |
| `RecordCreate`, `RecordApprove`, `RecordRollback` | `importLeaves`, `manualLeave`: two transactions and a catch block |
| `EncashRead` / `EncashCommit`, `EncashApprove`, `EncashProcess` | `LeaveEncashmentsService.request`, `review` |
| `AdjustRead` / `AdjustCommit` | HR's correction |
| `ReconcileRead` / `ReconcileCommit` | `reconcileUpfrontCredit` after a change of quota |
| `GiveUp` | a guard that no longer holds: the handler's exception |
| `LockMonth`, `UnlockMonth`, `NextYear` | the environment (payroll, the calendar) |

### PayrollRun and the code

| state | code |
|---|---|
| `row[r]` | `PayrollRun`: status, `inputsChangedAt` (`stale`), `lockEffectsAppliedAt` (`effects`), hold, figures (`slip`), `calculatedBy` ... `paidBy` |
| `row[r].slip` | of a payslip, what the handlers tell apart: the version of the month's records it was computed from, the encashments it pays, the instalment it prints, whether it was edited, and which lines have lost their `sourceIds` |
| `inputs[p]` | a version number for the attendance, leave and overtime of month `p` |
| `encStatus`, `encRun` | `LeaveEncashment.status`, `.payrollRunId` |
| `balance`, `repaid` | `Loan.outstandingBalance`, its `LoanRepayment` rows in order |
| `op[h]` | a handler with what it has read |
| `signed[r]` | history: the figures the last verification was given for |

| action | code |
|---|---|
| `Draft`, `CalculateRead` / `CalculateCommit` | `draft`, `calculate` (update with a status guard, or create against the unique key) |
| `AdjustRead` / `AdjustCommit` | `adjust`, with or without recalculation; edited lines lose their `sourceIds` |
| `TransitionRead` / `TransitionCommit`, `Refuse` | `transitionMany` for verify, approve, lock, pay; a lock whose lines are stale drops the sign-off |
| `EffectsEncash`, `EffectsCheck`, `EffectsCharge`, `EffectsMark`, `EffectsFail` | `afterLock`, statement by statement, and `afterLockOrRevert`'s catch block |
| `Reapply` | `reapplyLockEffects` |
| `UnlockRead` / `UnlockCommit`, `UndoEncash`, `UndoLoan`, `UndoRestore` | `unlock` and `undoAfterLock` |
| `RemoveRun`, `HoldRead` / `HoldCommit`, `Release` | `removeRun`, `holdSalary`, `releaseHold` |
| `InputRead` / `InputCommit` | any change of a month's records through `payroll-period-guard` |
| `RepayRead` / `RepayCommit` | `recordRepayment` by HR |
| `EncashmentApproved`, `EncashmentProcessed` | the encashment's reviewer |
| `Stop` | a lost guard, an exception, or the end of the process between two statements |

### CompOff and the code

Days are counted in halves. The order in which `consumeCompOff` and
`releaseCompOff` go through the rows matters, the loop does not: `Spread` is the
set of outcomes in which rows are filled in the order of a key, rows of equal
expiry in either order (the query has no `orderBy`). The `reduce` over rows or
requests that adds their days up is `Total`, the number of the half days a table
is made of.

| state | code |
|---|---|
| `credit[c]` | a `CompOff` row: status, `earnedForDate` (`day`), `daysEarned`, `daysAvailed`, `expiryDate`; `Never` for null |
| `leave[l]` | a `Leave` of the comp-off type: status, `totalDays`, `startDate` |
| `overtime[d]` | the day's `OvertimeRecord`; APPROVED is split by its compensation into PAID and CREDITED |
| `today` | the server's date, which expiry is compared with |
| `op[h]` | a handler with what it has read: the day it checked, the balance or the holds it added up, or the `daysAvailed` of each row with the value it will write |

| action | code |
|---|---|
| `EarnRead` / `EarnCommit` | `CompOffService.earn`: duplicate and overtime checks, then the insert |
| `Review`, `Withdraw` | `review`, `cancel`: the guarded update repeats all that was read, one step |
| `Sweep` | `sweepExpired`, called by every read path |
| `LogRead` / `LogCommit`, `OvertimeRead` / `OvertimeCommit`, `OvertimeReject` | `OvertimeService.log` and `review`, with the comp-off an approval grants |
| `ApplyRead` / `ApplyCommit` | `createLeaveInternal` under the lock of the `users` row; balance and pending holds are read side by side on two connections, so either may be the older |
| `ApproveRead` / `ApproveCommit` | `applyDecision` -> `consumeForLeave`: rows read, then each updated `WHERE daysAvailed` is what was read |
| `CancelRead` / `CancelCommit` | `performCancel` -> `releaseHold` -> `releaseForLeave` |
| `Decline`, `GiveUp`, `NextDay` | a refusal; a handler refused, rolled back or lost; the calendar |

A leave's status is guarded by an update that comes *before* the credits are read
and keeps its row locked, so nothing is lost by testing it at the commit. It is
the credits that may change in between.

### ExitCase and the code

The settlement is only its status and date here: its figures are `Settlement`'s
subject. `settlement.of` is history, the exit that was open when it was processed.

| state | code |
|---|---|
| `resignation[r]` | `Resignation`: status, `approvedLwd` (`lwd`), `withdrawalStatus`, `offboardingCaseId` (`case`) |
| `exit[c]` | `OffboardingCase`: status, `lastWorkingDay`, `exitStatus` (`ends`), `previousEmploymentStatus` (`previous`), checklist done (`cleared`), `settlementId` (`linked`) |
| `employee` | `User.isActive`, `employmentStatus`, `exitDate` |
| `exit[c].of` | history: the resignation whose approval began the exit |
| `op[h]` | a handler: a submission, one link of an approval's chain, a start, a settlement to be drafted or attached, clearance, move, completion, cancellation or decision |

| action | code |
|---|---|
| `SubmitRead` / `SubmitCommit`, `Close` | `submit`, `recordOnBehalf`; `withdraw`, `reject` (guarded, one step) |
| `ApproveFlip`, `ApproveInitiate`, `InitiateCommit`, `Announce`, `LinkCase` | `approve`: the chain; `Announce` is what `initiate` still writes, notifies and mails after its transaction has committed the exit |
| `ApproveRevert` | its catch block, which sets the resignation back to PENDING by id, whatever `initiate` failed of, before or after that commit |
| `RequestWithdrawal`, `DecideRead`, `DecideWithout`, `DecideCancel`, `Answer` | `requestWithdrawal`, `decideWithdrawal`, which cancels the exit through `offboarding.cancel`; the answer, either way, repeats only that the request still waits |
| `InitiateRead` / `InitiateCommit` | `initiate` by HR |
| `ChecklistRead` / `ChecklistCommit`, `MoveRead` / `MoveCommit` | `updateChecklist`, `updateLastWorkingDay`, which unlinks the settlement it read and not one linked since |
| `CompleteRead` / `CompleteCommit`, `CancelRead` / `CancelCommit` | `complete` (also by the job), `cancel` |
| `PrepareRead`; `SweepRead`, `SweepLook`; `DraftCommit` | `prepareProvisional`; the hourly job's `settleOrPrepare`; the calculation both make for the day they have read |
| `LinkRead`, `AttachCommit` | `linkSettlement`: the dates are compared, the link is written by id (as at the end of the two above) |
| `Calculate`, `Process`, `Reverse`, `MarkPaid`, `DiscardDraft` | the settlement's service, as far as status, date and link go |
| `Reinstate` | `employees.update` with a working status |

### Settlement and the code

| state | code |
|---|---|
| `settlement` | the `Settlement` row: status, figures (`fig`), `payrollRunId`, the balance of the loan it closed (`closed`) |
| `final[r]` | a `PayrollRun` with `isFinalSettlement` and the figures on its payslip |
| `regular` | the regular run of the last month: open, locked, the instalment it charged and whether that is the loan's latest repayment |
| `loan`, `claim[c]`, `leave` | `Loan` with the sum of its repayments, `Reimbursement` rows, days of a `LeaveBalance` |

| action | code |
|---|---|
| `CalculateRead` / `CalculateCommit` | `calculate`: look for a draft, then update it by id or create one |
| `ProcessRead`, `ProcessBook`, `ProcessCommit` | `process`: checks, then the transaction up to its comparisons, then its writes (other tables are not locked) |
| `ReverseRead` / `ReverseCommit`, `PayRead` / `PayCommit`, `DiscardDraft` | `reverse`, `markPaid`, `discardDraft` |
| `RunRead` / `RunCommit`, `RemoveRun`, `LockRun`, `UnlockRun` | the regular run as far as the settlement meets it (see `PayrollRun`) |
| `Repay`, `ReviewClaim`, `AskLeave`, `DecideLeave` | `recordRepayment`; `review` of a claim; leave applied for, recorded, decided |

### AttendanceDay and the code

| state | code |
|---|---|
| `day` | the `Attendance` row: status, source, `leaveOverriddenStatus` and `-Source` (`kept`), in and out time (`times`), the JSON request in force (`reg`, `asks`), `workArrangement` (`place`, `wfh`) |
| `punches` | `Punch` rows of the shift's window |
| `leave[l]` | the leaves that cover the day |
| `ledger[q]` | `AttendanceRegularizationRequest` rows |
| `mark` | history: what last said how the day was worked |
| `told` | the decisions on the Work From Home request in force that the employee's timeline shows (`logEvent`, which the notice and the mail follow) |
| `op[h]` | a handler with what it has read: the row's id, or its status, source and memory (`View`) for a leave |

| action | code |
|---|---|
| `Punch`, `RecalculateRead` / `RecalculateWrite` | `ingestFaceApiPunch` (the other ways to enter a punch end alike); `recalculateAttendanceForDay`, after a punch or by `markYesterdayAbsences` and `sendMorningAbsenceNotices` |
| `StampRead` / `StampWrite`, `UnstampRead` / `UnstampWrite` | `writeAttendanceForApprovedLeave`, `revertAttendanceForLeave`: the row is read without a lock, then updated, created or deleted by id; the leave changes with the write, since both are in one transaction |
| `FileRead`, `FileWrite`, `FileRecord` | `requestRegularization`: check, the JSON on the day, the history row |
| `ReviewRead` / `ReviewWrite`, `WithdrawRead` / `WithdrawWrite`, `CloseRequests` | `reviewRegularization` (and the sweep's approval), `cancelRegularization`, `closeRegularizationRequest` |
| `ImportRead` / `ImportWrite` | `applyImportBatchRows` with `importSkipReason` |
| `WfhRead`, `RangeLook`, `WfhWrite`, `OfficeRead` / `OfficeWrite` | `setWorkArrangement`; `requestWfhRange`, which reads the row of each day again for its id; another arrangement is written by id whatever was read |
| `DecideWfhRead` / `DecideWfhWrite`, `SweepWfh` | `reviewWorkArrangement`, `reviewWfhRequestGroup`; `autoApprovePendingWfhForOrg` |
| `TellWfh` | the timeline event of any of the three, a later statement outside any transaction |
| `GiveUp` | the process stops, or a statement fails: what is left of the handler is lost |

Leave that overlaps is refused when it is applied for, so an approval meets a
day without leave, or a half day of leave and another half: a day takes at most
two halves (`FitsWith`). The transaction of a leave updates the leave's own row
first, guarded, and holds it until the commit: two leaves are stamped or removed
beside each other, one leave is not (`Held`). `UnstampRead` takes the two queries
`revertAttendanceForLeave` sends together as one read; the window of the write
compares with what a fresh read would lead to, so it covers a difference between
the two as well.

`DayPay` is `resolveDayPay` in halves of a day, `Due` what the day should come to.

## 3. Conventions

**Handlers.** `op[h]` is what handler `h` holds in local variables after its
reads. A read action checks the guards the code checks at that point; the commit
re-checks only what the code's guarded `updateMany` (or `FOR UPDATE`) repeats.
Several statements of one transaction are one step only if every row it relies
on was locked by an earlier statement of the same transaction, or is only
incremented.

**Windows.** Some properties hold unless a behaviour falls into a particular gap
between a read and a write. `races` is a history variable that records the gaps
a behaviour has *actually* fallen into: a commit adds its window exactly when
what it read has changed in a way the code does not notice. A property with
`races \cap {...} = {} =>` therefore says two things: it survives every other
interleaving, and these gaps are its only exceptions. Gaps that a
comment in the code says are closed, and that a run can exhibit in a few steps,
are runs of their own (section 6). The windows:

| module | window | the gap |
|---|---|---|
| LeaveLedger | `cancel` | a cancellation reverses a status that a review has replaced |
| | `record` | the catch block of a recorded leave undoes what is no longer PENDING |
| | `encashYear` | an encashment requested in one leave year, decided in the next |
| | `adjust`, `encash` | a correction, or an encashment request, checked before the balance moved |
| | `reconcile` | a quota edit overwrites `closing` from a stale row |
| PayrollRun | `calculate` | the records changed between the computation and the write |
| | `adjust`, `transition`, `hold` | the row is not the one that was read, but its status passes the guard |
| | `input` | a run locked between the month check and the change of its records |
| | `claims` | encashments or the loan moved by someone else while a lock or unlock had checked them |
| | `effects` | two handlers apply or take back the effects of one run |
| | `undo` | the loan moved between the read and the write of its reversal |
| | `failed`, `stopped` | effects that were interrupted half-way |
| CompOff | `claim` | a comp-off or a reward inserted for a day that was claimed after the check |
| | `revive` | a credit withdrawn or expired between the read and the write of a leave's decision |
| | `split` | an approval between the two reads of an application |
| | `lapse` | no race: a credit withdrawn or expired, maybe under a pending request |
| ExitCase | `submit`, `initiate` | a resignation, or an exit, beside one that began after the check |
| | `unlinked` | an exit cancelled, moved, or its resignation withdrawn, before the approval linked the two; or the chain of an approval cut |
| | `reverted` | a start that fails after its exit is committed takes the resignation back all the same |
| | `resurrect`, `recancel`, `outrun` | a clearance read before the end puts a closed exit back; a cancelled one is cancelled again beside a new one; a cancellation overtaken by completion |
| | `move`, `complete` | the day changed, or the exit completed, after what was checked had changed |
| | `cancel`, `stale` | the settlement processed inside a cancellation, or for an exit it is not linked to |
| | `left` | no race: an exit started for one who has left |
| Settlement | `recalculated` | a draft rewritten by id while it is processed, or after |
| | `claim`, `repaid`, `month`, `taken` | a claim, the loan, the month's run or the leave moved between comparison and booking |
| | `reopened`, `again` | a reversal restores an old balance, or uses the run of an earlier processing |
| AttendanceDay | `stale`, `unjudged` | a recalculation writes what it read before a change, or never writes |
| | `overtaken` | a leave stamps, restores or deletes a row that was written since it was read, otherwise than it would have |
| | `imported`, `swapped`, `twice`, `wfh` | an import, a review, a filing or a decision lands on a day that has changed |
| | `freed` | an office day written over a request turned down meanwhile frees the day for a second one |
| | `untold`, `late` | a Work From Home decision lost before the timeline has it; or told of a request withdrawn, or asked or decided again, since |
| | `unrecorded`, `closed` | the history row added after the request was decided, or closed with another request |
| | `erased`, `restamped`, `remembered` | no race: recalculation of approved times or of a half-day stamp (findings 2 and 3); a second leave over a day worked since the first |

**Slips.** Definitions whose comment starts with *Slip* are plausible mistakes
(a dropped guard, a missing reset). No specification uses them; `PROJECT.json`
names, for every checked property, the definition such a slip would replace, and
TLC finds the property violated with it. They show that the property depends on
that line of the code.

## 4. Runs

| run | instance | shows |
|---|---|---|
| `leave_requests` | two requests, two handlers and the sweep, a two-level type; apply, edit, review, cancel, record | no double booking; `pending` and `availed` are what requests claim; stamps follow approved leaves; level 1 respected; the handlers implement `LeaveLife` |
| `leave_balances` | two requests, one encashment, two handlers; corrections, quota edits, the turn of the year | never overdrawn, with all five writers of a balance row |
| `leave_sweep` | fair server, one-level type; cancel, edit, review, month locks | a pending request is decided in the end |
| `payroll_signoff` | one run of one month, an HR user and an administrator, two handlers; calculate, adjust, sign-off, input changes, hold, remove, unlock | frozen, verified and current figures; four eyes |
| `payroll_effects` | a run in each of two months, one encashment, a loan of two instalments, two handlers; failures, crashes, re-application, repayments by hand, payment outside payroll | what a locked payslip prints is what was settled and the reverse; charged once; the loan adds up |
| `payroll_edited_line` | two months, no race needed | finding 1 |
| `comp_off_credits` | two credits, two leaves, two handlers, three days, with and without expiry; one day that may be logged as overtime | days of approved leaves are covered; credits add up; a day is rewarded once; pending requests are affordable; expired credits are left |
| `exit_cases` | one resignation, two exits, two handlers, two days; exits started by HR, moved days, reinstatement | nobody is closed out unpaid; a processed settlement keeps its exit; exit date and notice stage follow the exit; the resignation ends as its exit does |
| `settlements` | two handlers, two final runs (a reversal and a second processing), a claim, a loan of one instalment, a day of leave | booked as figured and undone as booked; the loan adds up; salary and leave paid by one way |
| `attendance_days` | two handlers, a full and two half-day leaves, two regularization requests, an import, Work From Home; at most four inputs | the day is paid for the work and the leave on it; the history follows the day; a Work From Home request is decided once and its decision told |
| `attendance_forgotten_punch`, `attendance_half_leave` | one handler, one request or one half-day leave | findings 2 and 3 |

**Bounds, and why they are enough.** The hazards are races of two writers on one
row, so two handlers (plus the sweep) and two requests suffice for each; the
invariants proved in section 5 do not depend on these numbers. Four days over
two leave years allow a range inside a year, an overlap, a range across the
boundary, and a quota (2) that runs out. One encashment and one correction per
handler are enough to race each pair of writers; `AdjustLimit` bounds the net
correction a handler may start from. Two months are what it takes for two open
payslips to print the same encashment or instalment, and a loan of two
instalments is the smallest with a part that remains owed. `Changes` bounds the
changes of a month's records. Two credits of one day and leaves of a half or a
whole day give a leave that needs one credit, a part of one, or parts of two;
`LastDay` = 2 lets a credit without expiry, one that is still valid and one that
has lapsed stand side by side. Only day 0 may be logged as overtime and leaves
start on the last day: the other choices repeat the same races on other dates.
A second exit is what it takes for a stale handler of the first to do harm; two
days separate a last working day that has passed from one that has not. A loan
recovered in part needs a balance of one and a recovery of none. Two punches make
a day, a third only moves its end (`MaxPunches`); two half-day leaves are the only
way two leaves meet on a day, and a second regularization request is what a stale
review can mistake for the first.

State constraints (`CONSTRAINT`) cut behaviours, not states that matter:
`MCFewRaces` stops a behaviour after a second kind of window (payroll: after the
first that is not an interruption), because every property is either silent or
already judged there (comp-offs: likewise, and not past a day that was claimed
twice, while a lapse is free); `MCLateHolds` places holds on signed-off runs only (an
earlier hold changes no guard until payment); `MCSettling` lets two handlers
overlap only when one of them settles something (the others are
`payroll_signoff`'s subject); `MCOneRepayment` allows one repayment by hand.
`MCNoRaceYet` (exits, settlements, attendance) stops a behaviour at its first
window: beyond it their properties are silent, most of them altogether.
`MCFewInputs` bounds the inputs of one day to four: punches, leaves stamped,
requests filed, a day asked for at home. Any two of its writers, each with what
it overwrites, fit in. `MCFewInFlight` (exits) lets one handler at a time draft a
settlement and link it; the other handler may be any that reads before it writes.
`MCOneClearance` follows one value of a clearance that nobody looks at any more.
Without these bounds the runs take longer than a run should; the theorems of
section 5 know none of them.
Symmetry permutes handlers, requests, encashments and credits, and swaps the two months
with their runs (months are unordered in `PayrollRun`); the liveness run uses
none. Deadlock is not checked: users may stop asking.

**Fairness** is assumed only in `leave_sweep`. Weak fairness of each handler's
commits: a server that is up finishes the transactions it started. Strong
fairness of the sweep's look at each request: the cron walks all candidates
every time it runs, but a candidate may be out of its reach for a while (its
month locked, the sweep still busy with another), so the action is enabled
again and again rather than continuously. Users, reviewers and payroll owe
nothing.

## 5. Proofs

TLAPS checks every theorem to its last leaf, for every value of the constants
that satisfies `LedgerAssumption`, `PayrollAssumption`, `CompOffAssumption`,
`ExitAssumption`, `SettlementAssumption` and `DayAssumption` (finite sets,
functions of the right type, positive instalments and days; nothing about
sizes). They hold of the whole specification: the state constraints of the runs
(section 4) are no part of them, so the behaviours a run cuts off are covered
as well.

**LeaveLedger.**

- `TypeCorrect`, `NoDoubleBookingCorrect`, `ClosingCorrect`,
  `AttendanceCorrect`, `LevelOneCorrect` (`LeaveLedgerProofs`). Level 1 needs a
  strengthening about handlers in flight (`ApprovalsCleared`: a decision to
  approve carries a cleared level).
- `PendingCorrect`, `AvailedCorrect` (`LeaveLedgerBalanceProofs`): invariant
  `LedgerAddsUp`. The counters are stated as cardinalities of unions of days;
  the lemmas show what adding, moving or dropping one request does to such a
  union, which is where `NoDoubleBooking` is used: without it a shared day would
  be counted once and charged twice.
- `NeverOverdrawnCorrect` (`LeaveLedgerBalanceProofs`): `Available >= 0` is not
  inductive, because encashment and correction handlers check a row that may be
  stale when they write. The invariant `Covered` adds `ClosingIsFormula` (the
  checks read `closing`), that a correction in flight passed its check on the row
  it read (`AdjustChecked`), that one encashment request at a time holds the
  employee's row (`OneEncashment`) and that its days are still covered
  (`EncashCovered`).
- `LifeImplemented` (`LeaveLedgerProofs`): `Spec => Life!Spec`, each handler
  step mapped to a step of `LeaveLife` or a stutter, with `recording` mapped to
  the leaves a record handler has in hand; it needs `RecordedOnce` (a leave being
  recorded exists and has one recorder).

**PayrollRun.**

- `TypeCorrect` (`PayrollRunProofs`), including that the balance never goes
  negative whatever is charged, reversed or edited.
- `FiguresNeverMove` is the action property
  `FiguresFrozen`; it needs types only, since the guard of each figure-writing
  statement excludes signed-off runs.
- `PaidRunsAreFinal`, `DutiesStaySeparated`, `FiguresAreTheVerified` and
  `LockedRunsAreCurrent` all rest on `AllChecked`: whatever a handler in flight
  carries, it has checked *on the row it read*. Each is then a predicate of one
  run, kept by every step unless the step falls into a named window
  (`WritesOnRead`: outside its window a write finds the row that was read).
  `LockedIsCurrent` is not inductive; `AllCurrent` strengthens it to runs that
  may still lock: locked, or open and not marked out of date. `RunStep` says once
  for all which actions can touch a run, and `RunWrites` / `HandlerWrites` what
  they leave in it.

**What a payroll settles** (`PayrollEffectsProofs`). `SettledStep` says which
actions write the loan and the encashments, `SettlerComes` with which snapshot a
handler comes to apply or take back effects, `RunMoves` what a step may do to a
run's lock and mark. All four theorems hold outside the windows their property
names.

- `LoanIsChargedOnce`: a second charge would come from a second applier of the
  run, or from one that read before the first. `OneApplier` (outside `effects`
  one handler at a time applies a run) and `ChargeFresh` (one that is to charge
  found the run uncharged, and it still is) exclude both; `Once` is the property.
- `LoanBooksAddUp`: the reversal finds its repayment by value, as the code finds
  it by id. `Books` adds to the property that what is owed never grows along the
  history, so two repayments that took something differ (`LastOfItsKind`), and
  that what a run charged took something (`Charges`, from `Charging`: who is to
  charge has something to charge). A repayment that is given back must then be
  the last, or the step falls into `undo`.
- `SettledIsOnPayslip`: `RowsHeld` ties runs to the handlers at work on them: who
  applies a run finds it locked and carries its payslip, who takes back finds it
  unlocked, a mark is on a locked run only, and a locked run without the mark is
  being worked on. `EncsPrinted` is the property, with the handler that returns
  the encashment.
- `LockSettlesAsPrinted`: the lock checks the encashments and the loan at its
  first read and writes them three statements later. `EncsHeld` and `LoanHeld`
  follow what it found from statement to statement: free or its own until the
  claim, processed by this run from then on; charged, or within the balance,
  until the check, uncharged and of the amount printed until the charge. `Alone`
  is why: outside `claims`, while a handler that has checked is at work, nobody
  else writes either. That a run which is not locked has no charge left needs
  the other direction, the unlock (`ChargedLocked`), which stops when it finds a
  later repayment and never does, since it had checked that there was none
  (`UndoneReversible`).

**CompOff** (`CompOffProofs`).

- `TypeCorrect` and `CreditsAlwaysAddUp` come from one invariant: every row is
  `Sound` and every handler in flight `Carries` updates within what its rows were
  worth. `Kept` (a row that exists keeps its earned days and its expiry) is why
  what was true when the handler read is true when it writes; the
  compare-and-swap supplies the rest, that the carried `from` is the row's
  `daysAvailed` at the write, so the status computed from it tells the truth.
- `ExpiredCreditsAreLeft`: only an approval takes days (`OnlyApprovalsTake`), it
  carries `expiry >= since`, and expiry does not move.
- `DaysAreRewardedOnce`: outside `claim` an insert finds its day unclaimed
  (`FreshClaim`), and every other step, outside `revive`, leaves the claims of a
  day or removes one (`NoNewClaim`, `RewrittenClaims`).
- `DaysTakenAreCovered`: a sum over rows is the cardinality of a set of half days
  (`HalfDays`), so no induction is needed: `TotalAdds` maps the half days of one
  table behind those of another and finds that totals of entrywise sums add up,
  and `TotalGrows`, `TotalMoves` follow. `BooksHeld` says what is in flight:
  an approval carries exactly the days of its leave, a cancellation that gives
  something back is of an approved leave and gives back no more than it took
  (`Weighs`), and the compare-and-swap turns what is carried into what is moved
  (`ApproveAvails`, `CancelAvails`). Both sides of the inequality then move by the
  days of one leave.
- `PendingCanBeGranted`: while nothing lapses, only an approval takes of what is
  free (`FreeStep`), and no more than its leave holds (`FreeTaken`), so the two
  sides fall together. `AppliesHeld` is about the application in flight: the row
  lock admits one (`OneApplies`); the holds it has read only shrink before it
  inserts, and the balance it has read only grows, unless the read was split by an
  approval. So its check on stale values implies the check on the present ones
  (`ApplyAffords`).

**ExitCase** (`ExitCaseProofs`). Every theorem but the first holds outside the
windows its property names; `RacesGrow` says that a behaviour never climbs out of
one, so each step may assume that it falls into none. `NewOp` says which step
leaves which snapshot, `Untouched`, `AccountKept` and `RecordsKept` which steps
write the exit and the settlement, the account, the resignations.

- `NobodyLeavesUnpaidCorrect`: inductive as it stands: no step changes a paid
  settlement, and outside `move` none unlinks a completed exit or gives it another
  day.
- `SettledExitStandsCorrect`: `ExitHeld` adds that the settled exit is linked and
  that no cancellation in flight is about it; a new one is refused because it is.
- `NoticeFollowsExitCorrect`: `NoticeHeld` adds what the account must not lose
  while handlers are in flight: at most one exit is open (`OneExit`), no exit
  would restore the notice stage itself (`Restorable`), and a cancellation that
  read an exit as over still finds it over (`OverStaysOver`).
- `ResignationFollowsExitCorrect`: `RecordsHeld` has four parts. Whoever has
  approved a resignation has it alone, on the day it carries, until it names its
  exit (`Approvers`): that is what flipping first buys, and a start that fails
  before its commit gives it back without an exit. The rows agree (`Followed`).
  Every exit a resignation began is named by it or about to be, unless it was
  called off (`Owned`): a resignation that waits or was withdrawn has none
  standing, linked or not. What a withdrawal in flight has read is still so
  (`Withdrawing`): the exit a resignation names is named for good, a withdrawal
  is final (`RecordsStand`), and an exit that is called off stays so
  (`ExitsGoOn`). A start that fails after its commit breaks `Owned`: the window
  `reverted`.

**Settlement** (`SettlementProofs`).

- `TypeCorrect` needs that an unlock finds repaid what it takes back
  (`InstalmentBooked`): the counts are natural numbers.
- The three others rest on `Held`: a settled row has its run and no other row
  has one (`RunHeld`); one handler books, and of the draft it compared
  (`BookingHeld`); a settlement that recovered of the loan knows what the loan
  was at (`ClosedHeld`); a reversal in flight has what the run it read was booked
  with (`ReversalHeld`). The last is where the runs being used once matters: a
  reversal that finds its run again finds the same booking.
- `LoanCorrect`: `LoanAddsUp` is inductive with `Held`.
- `PaidOnceCorrect`: the days of leave need that a settlement has booked all of
  its days or none (`DaysBooked`) and that what a draft or a booking promises is
  still left beside what was taken or is held (`DaysLeft`); the salary needs only
  the run (`SalaryOnce`).
- `BookedCorrect`: `BookedOnce` adds that the claims and days of a settled row
  are booked with its run, and that none is booked with any other.

**AttendanceDay** (`AttendanceDayProofs`). A row has an id that was never given
to another (`RowKept`, `SnapshotsKept`), so a write by id finds its own row or
none.

- `WfhCorrect`: `ToldHeld` says of every state what the property says of those in
  which no telling is in flight: the timeline never shows another decision than
  the one in force, and one it does not show has a handler that will tell it. The
  step to see is that such a handler either tells, or stops and is missed
  (`TellKept`), so a new decision never finds an old one still to be told.
- `RequestsCorrect`: the history row of a request is written after the day, by
  the same handler. `FilesHeld` says one handler files a request; `AskedHeld`
  says, for each request, when the history may lag: not recorded yet, or decided
  and still to be copied, in both cases by exactly one handler that is in flight.
- `PayCorrect`: `ClaimsHeld` (the leaves approved, with those a transaction in
  flight is approving, are one whole day or at most two halves; no two
  transactions have the same leave),
  `StampsTell` (a stamp stands for leave there is, and hides what was there
  without hiding another stamp) and `WorkHeld` (either a recalculation is owed,
  or what the row says, under a stamp what the stamp hides, is what was worked).
  A stamp written from an earlier read either does what one written from a fresh
  read would do, and `StampsTell` is argued about that one, or falls into
  `overtaken`.

`ClosingCorrect` and `PaidRunsAreFinal` prove invariants that no run lists any
more: they are lemmas of others that the runs do check (`NeverOverdrawn` rests on
the first).

Only model-checked: `SweepDecides`, since liveness under fairness is out of the
prover's reach. Every other property a passing run checks is a theorem.

## 6. Findings

Each is a run that violates one property, stated as the comment in the code
states it.

1. **An edited payslip pays an encashment twice** (`payroll_edited_line`,
   `NeverPaidTwice`; `payroll.service.ts:3756`). An edited earnings line loses
   the ids by which a second payslip would be refused.
2. **An approved regularization is erased overnight**
   (`attendance_forgotten_punch`, `ApprovedTimesStand`;
   `attendance.service.ts:622`). A recalculation spares a regularized day only when
   the day has no punch; a forgotten punch-out leaves one. The job of 01:00
   or 08:00 takes the day back to Incomplete, the request stays approved and cannot
   be made again.
3. **A half-day leave pays a whole day** (`attendance_half_leave`,
   `HalfLeavePaysHalf`; `attendance.service.ts:726`). A recalculation writes
   the half-day status with source FACE_API, over the stamp by whose source
   `resolveDayPay` knows not to pay the other half.

Gaps that need two handlers or a failure are windows (section 3) and hazards
(`PROJECT.json`). Those a reviewer should look at first:

- `cancel`: `performCancel` accepts three statuses and reverses the hold of the one
  it read (`leaves.service.ts:1572`);
- `adjust`: a correction checked on an unlocked row
  (`leave-balance-adjustment.service.ts:94`);
- `failed`: a lock taken back leaves encashments settled by a run that can then be
  deleted (`payroll.service.ts:4112`);
- `revive`: a withdrawn comp-off is taken, since the guard repeats `daysAvailed`
  only (`comp-off.service.ts:814`);
- `stale` of `ExitCase`: a settlement drafted before its exit began is processed
  unlinked, so the exit can be called off although loans were closed
  (`offboarding.service.ts:1193`);
- `month` of `Settlement`, and its converse that no property states: a settlement
  processed on a locked run leaves the month unpaid when that run is unlocked and
  Run Payroll deletes it (`payroll.service.ts:2345`);
- `reverted`: a notice or mail that fails after an exit was begun sets the
  resignation back to PENDING, and it can be withdrawn while its exit goes on
  (`resignations.service.ts:882`);
- `overtaken`: a leave decided while the day is recalculated stamps a worked day
  as it was before, or its cancellation deletes it
  (`attendance.service.ts:3667`, `:3762`);
- `wfh`: a comment (`attendance.service.ts:5993`) gives
  `reviewWorkArrangement` a compare-and-swap it does not have;
- `untold`, `late`: a Work From Home decision and the timeline event that tells
  it are statements apart (`attendance.service.ts:2931`, `:3041`, `:6012`).

## 7. Limits

Leave: balance rows exist from the start (the code creates them on first use);
nothing is carried in and nothing is forfeited, and the switch that allows
negative balances is off; half days, comp-off-backed and unpaid types, documents
and notifications are left out. Rules about which dates may be asked for (notice,
gaps, weekends) decide which ranges reach the model (`Ranges`). The `exact`
option of `reconcileUpfrontCredit` and the stamp repair job are not modelled. A
leave year is taken as a function of the date: the setting does not change.

Payroll: regular runs only, no supplementary or final-settlement run; amounts,
tax, interest and rounding are inputs (a payslip is a version of its inputs and
two lines); the refusals for negative or zero pay are left out; one employee, so
a bulk call is the interleaving of its rows; an edit changes the earnings list or
the deductions list, not both; a loan is not closed by hand.

Comp-offs: half days and whole days only; whether a day was an off day and was
worked is a constant (`OffDays`); hours, caps, rates and rule sets of overtime and
the automatic suggestion of attendance are left out. One date is used throughout,
where the code compares some dates with the server's and some with the
organisation's time zone. Overlap of comp-off leaves, their edits and HR's
recording of them, stamps and locked months are `LeaveLedger`'s subject and are
not repeated.

Exits: notice periods, letters, assets and the items of the checklist decide when
an action is possible, not what it does (`cleared` is one flag). A reinstated
employee keeps the approved resignation and the paid settlement of the first
exit, so a second exit can begin but not complete; the model shows it as a state
that goes nowhere, and no property demands more.

Settlements: amounts are counts (a loan, claims, days of leave, salary yes or no);
tax, gratuity, notice recovery, the receivable of a negative settlement and the
separation of maker and checker are left out. A draft is written with the figures
of the moment of the write; one written from older reads is a draft the
records have moved on from.

Attendance: one day whose shift has ended, a working day of someone who is not
always-present; a pair of times is a full shift. Weekly offs, holidays and
rejudging, late marks and short days, self punch and geo-fence, an administrator's
own request (approved at once), HR's bulk marking and Work From Home import, caps
on requests, the claim of an import batch and locked months are left out. All leave is
of a paid kind.

All: the process may stop between two statements, but a database transaction is
atomic and durable; mail, files, audit entries and read models change nothing
the properties read.

Not modelled, with the reason for each, are the components listed as
`not_modelled` in `PROJECT.json`: mostly CRUD over one row, read-only views,
rendering and external I/O.

## 8. Plan

Most important first; each step is a module, its instance, its properties with
their slips, then its theorems.

1. *Done:* `LeaveLedger` with `LeaveLife`.
2. *Done:* `PayrollRun`.
3. *Done:* `CompOff`, with its proofs.
4. *Done:* `ExitCase`, `Settlement`, `AttendanceDay`, each with its proofs.
5. *Done:* the proofs of what a payroll settles.
6. *Done:* the sums of `CompOff`, as cardinalities of sets of half days, and their
   proofs.
7. Accrual and year end of `leave-balances`: monthly credit, carry forward,
   forfeiture; idempotence of a cron that runs twice or stops half-way. A module
   of its own, since `LeaveLedger` treats the opening of a year as given.
8. Sessions of `auth`: rotation of a token family, and that a family ended by
   logout or reset stays ended while a refresh is in flight.
