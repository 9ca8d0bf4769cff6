----------------------------- MODULE PayrollRun -----------------------------
(****************************************************************************)
(* The regular payroll runs of one employee, from draft to paid and back,   *)
(* with the loan and the leave encashments that a locked run settles        *)
(* (src/src/payroll, src/src/loans, src/src/leave-encashments).             *)
(*                                                                          *)
(* No handler of the payroll service works inside one transaction: each     *)
(* reads the run, decides, and writes with an update guarded by the run's   *)
(* STATUS only; locking and unlocking go on, after their guarded update,    *)
(* with several writes of their own.  A handler is a read, a commit and, for *)
(* these two, a step per further write; it may stop (an exception, a crash)  *)
(* between any two.                                                         *)
(*                                                                          *)
(* `races' and `signed' are history variables: the windows a behaviour fell  *)
(* into, and the figures each verification was given for.                   *)
(****************************************************************************)
EXTENDS Integers, FiniteSets, Sequences, FiniteSetsExt

CONSTANTS
    Runs,         \* rows of payroll_runs, created or not yet
    Periods,      \* months (with their year)
    PeriodOf,     \* Runs -> Periods
    NoRun,        \* a null run id
    Actors,       \* HR users and administrators
    Admins,       \* the administrators among them
    NoOne,        \* a null user id
    Requests,     \* HTTP handlers in flight at once
    Encashments,  \* rows of leave_encashments
    Principal,    \* the employee's loan
    Emi,          \* its monthly instalment
    EditedEmis,   \* amounts an edit may give the instalment's line
    Repayments,   \* amounts HR may enter by hand
    Changes,      \* bound of the model: changes of a month's inputs
    Kinds         \* the handlers a model exercises

AllKinds == {"draft", "adjust", "input", "hold", "remove", "unlock", "reapply",
             "repay", "process", "fail", "stop"}

Statuses  == {"NONE", "DRAFT", "CALCULATED", "VERIFIED", "APPROVED", "LOCKED",
              "PAID", "DELETED"}
Editable  == {"DRAFT", "CALCULATED", "VERIFIED"}
Open      == {"CALCULATED", "VERIFIED", "APPROVED"}
Final     == {"LOCKED", "PAID"}
Deletable == {"DRAFT", "CALCULATED", "VERIFIED", "APPROVED"}

Windows == {"calculate", "adjust", "transition", "hold", "input", "claims",
            "effects", "undo", "failed", "stopped"}

ASSUME PayrollAssumption ==
    /\ IsFiniteSet(Runs) /\ IsFiniteSet(Encashments)
    /\ PeriodOf \in [Runs -> Periods]
    /\ NoRun \notin Runs /\ NoOne \notin Actors
    /\ Admins \subseteq Actors
    /\ Principal \in Nat /\ Emi \in Nat \ {0}
    /\ EditedEmis \subseteq Nat \ {0} /\ Repayments \subseteq Nat \ {0}
    /\ Changes \in Nat
    /\ Kinds \subseteq AllKinds

VARIABLES
    row,        \* PayrollRun
    inputs,     \* version of a month's attendance, leave and overtime
    encStatus,  \* LeaveEncashment.status
    encRun,     \* LeaveEncashment.payrollRunId
    balance,    \* Loan.outstandingBalance; the loan is ACTIVE while it is not 0
    repaid,     \* LoanRepayment, by createdAt
    op,         \* the handlers in flight, with what each has read
    signed,     \* the figures the verification saw, until recalculated (history)
    races       \* windows this behaviour fell into (history)

settled == <<encStatus, encRun, balance, repaid>>
vars == <<row, inputs, settled, op, signed, races>>

-----------------------------------------------------------------------------
(* Payslips *)

\* What the models tell apart of a payslip: the version of the inputs, the
\* encashments its LEAVE_ENCASHMENT line pays, the amount of its LOAN_EMI
\* line, whether it was edited by hand, and the lines without sourceIds.
Slips == [rev: Nat, enc: SUBSET Encashments, emi: Nat, edited: BOOLEAN,
          bare: SUBSET {"enc", "emi"}]
Blank == [rev |-> 0, enc |-> {}, emi |-> 0, edited |-> FALSE, bare |-> {}]

Rows == [status: Statuses, stale: BOOLEAN, effects: BOOLEAN, held: BOOLEAN,
         slip: Slips, calculatedBy: Actors \cup {NoOne},
         verifiedBy: Actors \cup {NoOne}, approvedBy: Actors \cup {NoOne},
         paidBy: Actors \cup {NoOne}]
\* LoanRepayment
Repaid == [run: Runs \cup {NoRun}, period: Periods, amount: Nat, principal: Nat, after: Nat]

\* Slip: a new row has no flag for its effects.
RunWithoutEffects == [status |-> "NONE", stale |-> FALSE, held |-> FALSE,
           slip |-> Blank, calculatedBy |-> NoOne, verifiedBy |-> NoOne,
           approvedBy |-> NoOne, paidBy |-> NoOne]
NewRun == [status |-> "NONE", stale |-> FALSE, effects |-> FALSE, held |-> FALSE,
           slip |-> Blank, calculatedBy |-> NoOne, verifiedBy |-> NoOne,
           approvedBy |-> NoOne, paidBy |-> NoOne]

With(S) == {r \in Runs : row[r].status \in S}

\* The unique key (employee, month): at most one of these per period.
RunsOf(p) == {r \in Runs : PeriodOf[r] = p /\ row[r].status \notin {"NONE", "DELETED"}}

\* The instalments other open months have printed, by sourceIds.
Printed(p) == {r \in With(Open) : PeriodOf[r] # p /\ "emi" \notin row[r].slip.bare}

PrintedEmis(p) == MapThenSumSet(LAMBDA r : row[r].slip.emi, Printed(p))

Least(a, b) == IF a <= b THEN a ELSE b

\* getDueLoanEmis: never more than is owed once the other open months charge.
DueEmi(p) ==
    IF PrintedEmis(p) \in 0..balance THEN Least(Emi, balance - PrintedEmis(p)) ELSE 0

\* calculatePayroll
Figures(p) == [rev |-> inputs[p], enc |-> {e \in Encashments : encStatus[e] = "APPROVED"},
               emi |-> DueEmi(p), edited |-> FALSE, bare |-> {}]

\* The lines of an edited payslip that lose their sourceIds: AdjustPayrollDto
\* has no such field.
Bared(slip, lines) ==
    [slip EXCEPT !.edited = TRUE,
                 !.bare = (@ \cup lines) \ ((IF slip.enc = {} THEN {"enc"} ELSE {})
                                             \cup (IF slip.emi = 0 THEN {"emi"} ELSE {}))]

\* What adjust may make of a payslip: the earnings list as sent keeps or drops
\* the encashment line, the deductions list keeps, changes or drops the EMI.
Edits(slip) ==
    {Bared(slip, {})}
    \cup {Bared([slip EXCEPT !.enc = S], {"enc"}) : S \in {slip.enc, {}}}
    \cup {Bared([slip EXCEPT !.emi = n], {"emi"}) :
            n \in {slip.emi, 0} \cup (IF slip.emi = 0 THEN {} ELSE EditedEmis)}

-----------------------------------------------------------------------------
(* Handlers *)

Idle == [kind |-> "idle"]
Actions == {"verify", "approve", "lock", "pay"}
Ops ==
    {Idle}
    \cup [kind: {"calculate"}, run: Runs \cup {NoRun}, period: Periods, slip: Slips, by: Actors]
    \cup [kind: {"adjust"}, run: Runs, row: Rows, slip: Slips, recalculated: BOOLEAN]
    \cup [kind: {"transition"}, action: Actions, run: Runs, row: Rows, by: Actors]
    \cup [kind: {"hold", "unlock"}, run: Runs, row: Rows]
    \cup [kind: {"refuse", "undoEncash", "undoLoan"}, run: Runs]
    \cup [kind: {"encash", "check", "mark"}, run: Runs, slip: Slips, locking: BOOLEAN]
    \cup [kind: {"charge"}, run: Runs, slip: Slips, locking: BOOLEAN, amount: Nat]
    \cup [kind: {"restore"}, run: Runs, balance: Nat, repayment: Repaid]
    \cup [kind: {"input"}, period: Periods]
    \cup [kind: {"repay"}, period: Periods, amount: Nat]

EffectKinds == {"encash", "check", "charge", "mark"}
UndoKinds   == {"undoEncash", "undoLoan", "restore"}

\* Handlers that apply or take back the effects of run r.
Applying(r) == {h \in Requests : op[h].kind \in EffectKinds \cup UndoKinds /\ op[h].run = r}

\* Handlers that have checked, or are changing, what a run settles.
Settling ==
    {h \in Requests : \/ op[h].kind \in EffectKinds \cup UndoKinds \cup {"unlock"}
                      \/ op[h].kind = "transition" /\ op[h].action = "lock"}

Start(h, o) == op[h] = Idle /\ op' = [op EXCEPT ![h] = o]
Continue(h, o) == op' = [op EXCEPT ![h] = o]
Finish(h)   == op' = [op EXCEPT ![h] = Idle]

\* The window w, fallen into when b.
Fell(w, b) == IF b THEN {w} ELSE {}

Init ==
    /\ row = [r \in Runs |-> NewRun]
    /\ inputs = [p \in Periods |-> 0]
    /\ encStatus = [e \in Encashments |-> "PENDING"]
    /\ encRun = [e \in Encashments |-> NoRun]
    /\ balance = Principal
    /\ repaid = <<>>
    /\ op = [h \in Requests |-> Idle]
    /\ signed = [r \in Runs |-> Blank]
    /\ races = {}

-----------------------------------------------------------------------------
(* draft and calculate *)

Draft(r) ==
    /\ "draft" \in Kinds
    /\ row[r].status = "NONE"
    /\ RunsOf(PeriodOf[r]) = {}
    /\ row' = [row EXCEPT ![r].status = "DRAFT"]
    /\ UNCHANGED <<inputs, settled, op, signed, races>>

\* The runs are looked up before the figures are worked out.
CalculateRead(h, p, a) ==
    /\ \A r \in RunsOf(p) : row[r].status \in Editable
    /\ \E r \in Runs \cup {NoRun} :
         /\ r \in RunsOf(p) \/ (RunsOf(p) = {} /\ r = NoRun)
         /\ Start(h, [kind |-> "calculate", run |-> r, period |-> p,
                      slip |-> Figures(p), by |-> a])
    /\ UNCHANGED <<row, inputs, settled, signed, races>>

\* Slip: the status is not part of the write.
Anywhere(r) == row[r].status \notin {"NONE", "DELETED"}
\* The guard of every write that rewrites figures.
StillEditable(r) == row[r].status \in Editable

\* The run that was looked up; without one, a new row, or the winner of the
\* unique key.
CalculateCommit(h, r) ==
    LET o == op[h] IN
    /\ o.kind = "calculate"
    /\ \/ r = o.run /\ StillEditable(r)
       \/ o.run = NoRun /\ r \in RunsOf(o.period) /\ StillEditable(r)
       \/ /\ o.run = NoRun /\ RunsOf(o.period) = {}
          /\ PeriodOf[r] = o.period /\ row[r].status = "NONE"
    /\ row' = [row EXCEPT ![r].status = "CALCULATED", ![r].stale = FALSE,
                          ![r].slip = o.slip, ![r].calculatedBy = o.by]
    /\ signed' = [signed EXCEPT ![r] = Blank]
    /\ races' = races \cup Fell("calculate", inputs[o.period] # o.slip.rev)
    /\ Finish(h)
    /\ UNCHANGED <<inputs, settled>>

-----------------------------------------------------------------------------
(* adjust *)

AdjustRead(h, r, recalculated) ==
    /\ "adjust" \in Kinds
    /\ row[r].status \in Editable
    /\ \E slip \in Edits(IF recalculated THEN Figures(PeriodOf[r]) ELSE row[r].slip) :
         Start(h, [kind |-> "adjust", run |-> r, row |-> row[r], slip |-> slip,
                   recalculated |-> recalculated])
    /\ UNCHANGED <<row, inputs, settled, signed, races>>

\* Slip: an edit keeps the sign-off.
SignOffKept(o, now) == now
\* An edit of a run that was VERIFIED when it was read drops its sign-off.
SignOffDropped(o, now) == IF o.row.status = "VERIFIED" THEN "CALCULATED" ELSE now

AdjustCommit(h) ==
    LET o == op[h] IN
    /\ o.kind = "adjust"
    /\ StillEditable(o.run)
    /\ row' = [row EXCEPT ![o.run].slip = o.slip,
                          ![o.run].status = SignOffDropped(o, row[o.run].status),
                          ![o.run].stale = row[o.run].stale /\ ~o.recalculated]
    /\ races' = races
         \cup Fell("adjust", row[o.run] # o.row)
         \cup Fell("calculate", o.recalculated /\ inputs[PeriodOf[o.run]] # o.slip.rev)
    /\ Finish(h)
    /\ UNCHANGED <<inputs, settled, signed>>

-----------------------------------------------------------------------------
(* transitionMany: verify, approve, lock, pay *)

From == [verify |-> "CALCULATED", approve |-> "VERIFIED",
         lock |-> "APPROVED", pay |-> "LOCKED"]
To   == [verify |-> "VERIFIED", approve |-> "APPROVED",
         lock |-> "LOCKED", pay |-> "PAID"]

\* Slip: only the verifier is barred from approving.
NotTheVerifier(r, action, a) ==
    action = "approve" => a # row[r].verifiedBy
\* Whoever is not an Admin neither approves what they calculated or verified
\* nor pays what they approved.
DutiesSeparated(r, action, a) ==
    a \notin Admins =>
        /\ action = "approve" => a \notin {row[r].calculatedBy, row[r].verifiedBy}
        /\ action = "pay" => a # row[r].approvedBy

\* Paid only when the effects of the lock are recorded and nothing holds it.
Payable(r) == ~row[r].held /\ row[r].effects

\* The figures are those of the month's records.
UpToDate(r) == ~row[r].stale

\* A repayment of this run is on record.
Charged(r) == \E i \in DOMAIN repaid : repaid[i].run = r

\* staleLoanEmiReason: the instalment by sourceIds is more than is still owed.
EmiStale(r) ==
    LET slip == row[r].slip IN
    /\ slip.emi > 0 /\ "emi" \notin slip.bare
    /\ ~Charged(r)
    /\ slip.emi > balance

\* Slip: the encashments on the payslip are not looked up.
NeverClaimed(r) == FALSE
\* staleEncashmentReason: one of the line's sourceIds is paid elsewhere.
EncashmentStale(r) ==
    /\ "enc" \notin row[r].slip.bare
    /\ \E e \in row[r].slip.enc : encStatus[e] # "APPROVED" /\ encRun[e] # r

TransitionRead(h, r, action, a) ==
    /\ row[r].status = From[action]
    /\ DutiesSeparated(r, action, a)
    /\ action = "pay" => Payable(r)
    /\ UpToDate(r)
    /\ \/ /\ action = "lock" => ~EmiStale(r) /\ ~EncashmentStale(r)
          /\ Start(h, [kind |-> "transition", action |-> action, run |-> r,
                       row |-> row[r], by |-> a])
       \/ /\ action = "lock" /\ (EmiStale(r) \/ EncashmentStale(r))
          /\ Start(h, [kind |-> "refuse", run |-> r])
    /\ UNCHANGED <<row, inputs, settled, signed, races>>

\* A refused lock drops the sign-off.
Refuse(h) ==
    LET r == op[h].run IN
    /\ op[h].kind = "refuse"
    /\ row[r].status = "APPROVED"
    /\ row' = [row EXCEPT ![r].status = "CALCULATED"]
    /\ Finish(h)
    /\ UNCHANGED <<inputs, settled, signed, races>>

Effects(r, slip, locking) ==
    [kind |-> "encash", run |-> r, slip |-> slip, locking |-> locking]

TransitionCommit(h) ==
    LET o == op[h]
        r == o.run IN
    /\ o.kind = "transition"
    /\ row[r].status = From[o.action]
    /\ row' = [row EXCEPT
                 ![r].status = To[o.action],
                 ![r].verifiedBy = IF o.action = "verify" THEN o.by ELSE row[r].verifiedBy,
                 ![r].approvedBy = IF o.action = "approve" THEN o.by ELSE row[r].approvedBy,
                 ![r].paidBy = IF o.action = "pay" THEN o.by ELSE row[r].paidBy]
    /\ signed' = [signed EXCEPT ![r] = IF o.action = "verify" THEN o.row.slip ELSE signed[r]]
    /\ races' = races
         \cup Fell("transition", row[r] # o.row)
         \cup Fell("effects", o.action = "lock" /\ Applying(r) # {})
    /\ \/ o.action = "lock" /\ Continue(h, Effects(r, row[r].slip, TRUE))
       \/ o.action # "lock" /\ Finish(h)
    /\ UNCHANGED <<inputs, settled>>

-----------------------------------------------------------------------------
(* afterLock: the effects of a lock, a statement at a time *)

\* reapplyLockEffects
Reapply(h, r) ==
    /\ "reapply" \in Kinds
    /\ row[r].status \in Final
    /\ Start(h, Effects(r, row[r].slip, FALSE))
    /\ races' = races \cup Fell("effects", Applying(r) # {})
    /\ UNCHANGED <<row, inputs, settled, signed>>

Rivals(h) == Settling \ {h} # {}

\* The rows an encashment line settles: those it names, or every approved one.
Claimed(slip) ==
    {e \in Encashments : /\ slip.enc # {}
                         /\ encStatus[e] = "APPROVED"
                         /\ "enc" \in slip.bare \/ e \in slip.enc}

EffectsEncash(h) ==
    LET o == op[h] IN
    /\ o.kind = "encash"
    /\ encStatus' = [e \in Encashments |-> IF e \in Claimed(o.slip) THEN "PROCESSED" ELSE encStatus[e]]
    /\ encRun' = [e \in Encashments |-> IF e \in Claimed(o.slip) THEN o.run ELSE encRun[e]]
    /\ races' = races \cup Fell("claims", Rivals(h))
    /\ Continue(h, [o EXCEPT !.kind = "check"])
    /\ UNCHANGED <<row, inputs, balance, repaid, signed>>

\* What the EMI line charges: its amount, or, with no sourceIds, what is due now.
Charge(o) ==
    IF o.slip.emi > 0 /\ "emi" \in o.slip.bare THEN DueEmi(PeriodOf[o.run]) ELSE o.slip.emi

\* Slip: a relock charges again.
NothingYet(o) == Charge(o) > 0 /\ balance > 0
\* Not charged for this run yet, and the loan is active.
MayCharge(o) == Charge(o) > 0 /\ balance > 0 /\ ~Charged(o.run)

EffectsCheck(h) ==
    LET o == op[h] IN
    /\ o.kind = "check"
    /\ \/ /\ MayCharge(o)
          /\ Continue(h, [kind |-> "charge", run |-> o.run, slip |-> o.slip,
                       locking |-> o.locking, amount |-> Charge(o)])
       \/ ~MayCharge(o) /\ Continue(h, [o EXCEPT !.kind = "mark"])
    /\ UNCHANGED <<row, inputs, settled, signed, races>>

\* What a repayment takes off the balance.
PrincipalPart(n) == Least(n, balance)

\* recordRepayment's transaction.
Repay(r, p, n) ==
    LET principal == PrincipalPart(n) IN
    /\ balance' = balance - principal
    /\ repaid' = Append(repaid, [run |-> r, period |-> p, amount |-> n,
                                 principal |-> principal, after |-> balance - principal])

EffectsCharge(h) ==
    LET o == op[h] IN
    /\ o.kind = "charge"
    /\ balance > 0
    /\ Repay(o.run, PeriodOf[o.run], o.amount)
    /\ races' = races \cup Fell("claims", Rivals(h))
    /\ Continue(h, [kind |-> "mark", run |-> o.run, slip |-> o.slip, locking |-> o.locking])
    /\ UNCHANGED <<row, inputs, encStatus, encRun, signed>>

\* The mark names the run by id only.
EffectsMark(h) ==
    LET r == op[h].run IN
    /\ op[h].kind = "mark"
    /\ row' = [row EXCEPT ![r].effects = row[r].status # "DELETED"]
    /\ Finish(h)
    /\ UNCHANGED <<inputs, settled, signed, races>>

\* afterLockOrRevert's catch block (reapplyLockEffects has none).
EffectsFail(h) ==
    LET o == op[h] IN
    /\ o.kind \in EffectKinds
    /\ "fail" \in Kinds \/ (o.kind = "charge" /\ balance = 0)
    /\ row' = IF o.locking /\ row[o.run].status = "LOCKED"
              THEN [row EXCEPT ![o.run].status = "APPROVED", ![o.run].effects = FALSE]
              ELSE row
    /\ races' = races \cup {"failed"}
    /\ Finish(h)
    /\ UNCHANGED <<inputs, settled, signed>>

-----------------------------------------------------------------------------
(* unlock, and undoAfterLock *)

\* assertLoanRepaymentsReversible: nothing was recorded after this run's own.
Reversible(r) ==
    \A i \in DOMAIN repaid : repaid[i].run = r => i = Len(repaid)

UnlockRead(h, r, a) ==
    /\ "unlock" \in Kinds
    /\ row[r].status \in Final
    /\ row[r].status = "PAID" => a \in Admins
    /\ Reversible(r)
    /\ Start(h, [kind |-> "unlock", run |-> r, row |-> row[r]])
    /\ UNCHANGED <<row, inputs, settled, signed, races>>

UnlockCommit(h) ==
    LET r == op[h].run IN
    /\ op[h].kind = "unlock"
    /\ row[r].status = op[h].row.status
    /\ row' = [row EXCEPT ![r].status = "CALCULATED", ![r].effects = FALSE,
                          ![r].verifiedBy = NoOne, ![r].approvedBy = NoOne,
                          ![r].paidBy = NoOne]
    /\ races' = races \cup Fell("effects", Applying(r) # {})
    /\ Continue(h, [kind |-> "undoEncash", run |-> r])
    /\ UNCHANGED <<inputs, settled, signed>>

\* Slip: the encashments stay with the run that was unlocked.
NoneOf(r) == {}
\* The encashments this run settled.
SettledBy(r) == {e \in Encashments : encStatus[e] = "PROCESSED" /\ encRun[e] = r}

UndoEncash(h) ==
    LET r == op[h].run IN
    /\ op[h].kind = "undoEncash"
    /\ encStatus' = [e \in Encashments |-> IF e \in SettledBy(r) THEN "APPROVED" ELSE encStatus[e]]
    /\ encRun' = [e \in Encashments |-> IF e \in SettledBy(r) THEN NoRun ELSE encRun[e]]
    /\ races' = races \cup Fell("claims", Rivals(h))
    /\ Continue(h, [kind |-> "undoLoan", run |-> r])
    /\ UNCHANGED <<row, inputs, balance, repaid, signed>>

Latest == repaid[Len(repaid)]
LatestIs(r) == repaid # <<>> /\ Latest.run = r

\* In one transaction, but the loan is read without a lock; only the loan's
\* latest repayment is taken back.
UndoLoan(h) ==
    LET r == op[h].run IN
    /\ op[h].kind = "undoLoan"
    /\ \/ /\ LatestIs(r)
          /\ Continue(h, [kind |-> "restore", run |-> r, balance |-> balance,
                          repayment |-> Latest])
       \/ ~LatestIs(r) /\ Finish(h)
    /\ UNCHANGED <<row, inputs, settled, signed, races>>

\* The repayments without the one at position i.
Without(i) == [k \in 1..(Len(repaid) - 1) |-> IF k < i THEN repaid[k] ELSE repaid[k + 1]]
Positions(x) == {i \in DOMAIN repaid : repaid[i] = x}

\* Slip: the repayment is deleted, the balance is left as it is.
NotGivenBack(o) == o.balance
\* The balance read, plus the principal part of the repayment.
Restored(o) == o.balance + o.repayment.principal

UndoRestore(h) ==
    LET o == op[h] IN
    /\ o.kind = "restore"
    /\ balance' = Restored(o)
    /\ \/ \E i \in Positions(o.repayment) : repaid' = Without(i)
       \/ Positions(o.repayment) = {} /\ UNCHANGED repaid
    /\ races' = races
         \cup Fell("undo", balance # o.balance \/ repaid = <<>> \/ Latest # o.repayment)
         \cup Fell("claims", Rivals(h))
    /\ Continue(h, [kind |-> "undoLoan", run |-> o.run])
    /\ UNCHANGED <<row, inputs, encStatus, encRun, signed>>

-----------------------------------------------------------------------------
(* removeRun, hold and release *)

RemoveRun(r) ==
    /\ "remove" \in Kinds
    /\ row[r].status \in Deletable
    /\ row' = [row EXCEPT ![r] = [NewRun EXCEPT !.status = "DELETED"]]
    /\ UNCHANGED <<inputs, settled, op, signed, races>>

HoldRead(h, r) ==
    /\ "hold" \in Kinds
    /\ row[r].status \notin {"NONE", "DELETED", "PAID"}
    /\ ~row[r].held
    /\ Start(h, [kind |-> "hold", run |-> r, row |-> row[r]])
    /\ UNCHANGED <<row, inputs, settled, signed, races>>

HoldCommit(h) ==
    LET r == op[h].run IN
    /\ op[h].kind = "hold"
    /\ row[r].status # "DELETED" /\ ~row[r].held
    /\ row' = [row EXCEPT ![r].held = TRUE]
    /\ races' = races \cup Fell("hold", row[r] # op[h].row)
    /\ Finish(h)
    /\ UNCHANGED <<inputs, settled, signed>>

Release(r) ==
    /\ row[r].held
    /\ row' = [row EXCEPT ![r].held = FALSE]
    /\ UNCHANGED <<inputs, settled, op, signed, races>>

-----------------------------------------------------------------------------
(* The other writers: attendance, leave and overtime; loans; encashments *)

\* assertPayrollMonthsUnlocked
InputRead(h, p) ==
    /\ "input" \in Kinds
    /\ inputs[p] < Changes
    /\ \A r \in RunsOf(p) : row[r].status \notin Final
    /\ Start(h, [kind |-> "input", period |-> p])
    /\ UNCHANGED <<row, inputs, settled, signed, races>>

\* Slip: a signed-off run is not marked.
MarkedEarly(s) == s = "CALCULATED"
\* markPayrollInputsChanged, in the transaction that changes the records.
Marked(s) == s \in Open

InputCommit(h) ==
    LET p == op[h].period IN
    /\ op[h].kind = "input"
    /\ inputs' = [inputs EXCEPT ![p] = inputs[p] + 1]
    /\ row' = [r \in Runs |->
                 IF PeriodOf[r] = p /\ Marked(row[r].status)
                 THEN [row[r] EXCEPT !.status = "CALCULATED", !.stale = TRUE]
                 ELSE row[r]]
    /\ races' = races \cup Fell("input", \E r \in RunsOf(p) : row[r].status \in Final)
    /\ Finish(h)
    /\ UNCHANGED <<settled, signed>>

\* recordRepayment by hand: not above the balance, and one a month.
RepayRead(h, p, n) ==
    /\ "repay" \in Kinds
    /\ balance > 0 /\ n <= balance
    /\ \A i \in DOMAIN repaid : repaid[i].period # p
    /\ Start(h, [kind |-> "repay", period |-> p, amount |-> n])
    /\ UNCHANGED <<row, inputs, settled, signed, races>>

RepayCommit(h) ==
    /\ op[h].kind = "repay"
    /\ Repay(NoRun, op[h].period, op[h].amount)
    /\ races' = races \cup Fell("claims", Rivals(h))
    /\ Finish(h)
    /\ UNCHANGED <<row, inputs, encStatus, encRun, signed>>

EncashmentApproved(e) ==
    /\ encStatus[e] = "PENDING"
    /\ encStatus' = [encStatus EXCEPT ![e] = "APPROVED"]
    /\ UNCHANGED <<row, inputs, encRun, balance, repaid, op, signed, races>>

\* A reviewer marks it PROCESSED: paid outside payroll.
EncashmentProcessed(e) ==
    /\ "process" \in Kinds
    /\ encStatus[e] = "APPROVED"
    /\ encStatus' = [encStatus EXCEPT ![e] = "PROCESSED"]
    /\ races' = races \cup Fell("claims", Settling # {})
    /\ UNCHANGED <<row, inputs, encRun, balance, repaid, op, signed>>

\* A guard that no longer holds, an exception, or the end of the process.
Stop(h) ==
    /\ op[h] # Idle
    /\ \/ op[h].kind \notin EffectKinds \cup UndoKinds
       \/ "stop" \in Kinds
    /\ races' = races \cup Fell("stopped", op[h].kind \in EffectKinds \cup UndoKinds)
    /\ Finish(h)
    /\ UNCHANGED <<row, inputs, settled, signed>>

-----------------------------------------------------------------------------
Read(h) ==
    \/ \E p \in Periods, a \in Actors : CalculateRead(h, p, a)
    \/ \E r \in Runs :
         \/ \E recalculated \in BOOLEAN : AdjustRead(h, r, recalculated)
         \/ \E action \in Actions, a \in Actors : TransitionRead(h, r, action, a)
         \/ Reapply(h, r)
         \/ \E a \in Actors : UnlockRead(h, r, a)
         \/ HoldRead(h, r)
    \/ \E p \in Periods : InputRead(h, p)
    \/ \E p \in Periods, n \in Repayments : RepayRead(h, p, n)

Write(h) ==
    \/ \E r \in Runs : CalculateCommit(h, r)
    \/ AdjustCommit(h)
    \/ TransitionCommit(h)
    \/ Refuse(h)
    \/ EffectsEncash(h)
    \/ EffectsCheck(h)
    \/ EffectsCharge(h)
    \/ EffectsMark(h)
    \/ EffectsFail(h)
    \/ UnlockCommit(h)
    \/ UndoEncash(h)
    \/ UndoLoan(h)
    \/ UndoRestore(h)
    \/ HoldCommit(h)
    \/ InputCommit(h)
    \/ RepayCommit(h)
    \/ Stop(h)

Next ==
    \/ \E r \in Runs : Draft(r) \/ RemoveRun(r) \/ Release(r)
    \/ \E h \in Requests : Read(h)
    \/ \E h \in Requests : Write(h)
    \/ \E e \in Encashments : EncashmentApproved(e) \/ EncashmentProcessed(e)

Spec == Init /\ [][Next]_vars
-----------------------------------------------------------------------------
(* What must hold *)

\* Every variable has its type.
TypeOK ==
    /\ row \in [Runs -> Rows]
    /\ inputs \in [Periods -> Nat]
    /\ encStatus \in [Encashments -> {"PENDING", "APPROVED", "PROCESSED"}]
    /\ encRun \in [Encashments -> Runs \cup {NoRun}]
    /\ balance \in Nat
    /\ repaid \in Seq(Repaid)
    /\ op \in [Requests -> Ops]
    /\ signed \in [Runs -> Slips]
    /\ races \subseteq Windows

\* The figures of an approved, locked or paid payslip never change while it
\* stays one: calculate and adjust lose to an approval that lands in between,
\* and an unlock goes back through CALCULATED (EDITABLE_RUN_STATUSES).
SignedOff == {"APPROVED", "LOCKED", "PAID"}
FiguresFrozen ==
    [][\A r \in With(SignedOff) :
          row'[r].status \in SignedOff => row'[r].slip = row[r].slip]_vars

\* A payslip is paid on the figures its verifier saw: recalculating or editing
\* it drops the verification (adjust, calculate), however the handlers
\* interleave, except that the compare-and-swaps look at the status only.
SignedFigures ==
    races \cap {"adjust", "transition"} = {} =>
        \A r \in With(SignedOff \cup {"VERIFIED"}) : row[r].slip = signed[r]

\* A locked payslip is the one the month's records give: a change of the inputs
\* either is refused or reaches the run as inputsChangedAt before it locks
\* (payroll-period-guard).
LockedIsCurrent ==
    races \cap {"calculate", "adjust", "transition", "input"} = {} =>
        \A r \in With(Final) : row[r].slip.rev = inputs[PeriodOf[r]]

\* Separation of duties survives recalculation, refused locks and unlocks: no
\* one but an Admin has approved what they calculated or verified, or paid what
\* they approved (transitionMany).
FourEyes ==
    "transition" \notin races =>
        \A r \in With(SignedOff) :
            /\ row[r].approvedBy \in Admins
               \/ row[r].approvedBy \notin {row[r].calculatedBy, row[r].verifiedBy}
            /\ row[r].status = "PAID" =>
                 row[r].paidBy \in Admins \/ row[r].paidBy # row[r].approvedBy

\* A paid run has had its effects applied and was not on hold, although the
\* lock may have been interrupted, failed or undone before (transitionMany's
\* lock_effects_pending and on_hold checks).
PaidIsFinal ==
    races \cap {"transition", "hold"} = {} =>
        \A r \in With({"PAID"}) : row[r].effects /\ ~row[r].held

\* The windows in which what a lock checked is settled by someone else.
SettlementWindows == {"transition", "claims", "effects", "undo", "failed", "stopped"}

\* Lines that still name their rows.
Sourced(line) == {r \in With(Final) : line \notin row[r].slip.bare}

\* A locked payslip says what was settled: every encashment it pays is
\* PROCESSED by this run - so by no other payslip - and the loan was charged the
\* instalment it prints (afterLock, staleEncashmentReason).
SettledAsPrinted ==
    races \cap SettlementWindows = {} =>
        /\ \A r \in Sourced("enc") : row[r].effects =>
             \A e \in row[r].slip.enc : encStatus[e] = "PROCESSED" /\ encRun[e] = r
        /\ \A r \in Sourced("emi") : row[r].effects =>
             {repaid[i].amount : i \in {i \in DOMAIN repaid : repaid[i].run = r}}
               = {row[r].slip.emi} \ {0}

\* And nothing else was: an encashment settled by payroll is on a locked payslip,
\* or the lock or unlock that moves it is still at work (afterLock, undoAfterLock).
SettledIsPrinted ==
    races \cap SettlementWindows = {} =>
        \A e \in Encashments :
            encRun[e] # NoRun =>
                \/ Applying(encRun[e]) # {}
                \/ /\ row[encRun[e]].status \in Final
                   /\ e \in row[encRun[e]].slip.enc \/ "enc" \in row[encRun[e]].slip.bare

\* A run charges the loan once, whatever is locked, unlocked, interrupted,
\* failed, retried and re-applied ("idempotent per loan and run").
ChargedOnce ==
    "effects" \notin races =>
        \A i, j \in DOMAIN repaid :
            repaid[i].run = repaid[j].run /\ repaid[i].run # NoRun => i = j

\* The loan's books: every repayment carries the balance it left, and the balance
\* is what the last one left (recordRepayment, undoAfterLock).
Before(i) == IF i = 1 THEN Principal ELSE repaid[i - 1].after
LoanAddsUp ==
    "undo" \notin races =>
        /\ balance = Before(Len(repaid) + 1)
        /\ \A i \in DOMAIN repaid : Before(i) = repaid[i].after + repaid[i].principal

\* What staleEncashmentReason says, with no proviso (see the findings).
NeverPaidTwice ==
    \A r, s \in With(Final) : r # s => row[r].slip.enc \cap row[s].slip.enc = {}
=============================================================================
