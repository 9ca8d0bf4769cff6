------------------------------ MODULE Settlement ------------------------------
(****************************************************************************)
(* The figures of one leaver's final settlement (src/src/settlements) and   *)
(* what they stand on: the regular payroll run of the last month            *)
(* (src/src/payroll), a loan (src/src/loans), expense claims                *)
(* (src/src/reimbursements) and days of leave (src/src/leaves).             *)
(*                                                                          *)
(* calculate reads, and writes its figures by id.  process checks, then in  *)
(* one transaction takes the row (a guarded update that others wait for),   *)
(* compares loans and claims with the figures, and books them.  reverse and *)
(* markPaid carry what they read into their transaction.                    *)
(****************************************************************************)
EXTENDS Integers, FiniteSets

CONSTANTS
    Requests,    \* HTTP handlers in flight at once
    Runs,        \* rows of payroll_runs a settlement may create
    NoRun,
    Claims,      \* rows of reimbursements
    Principal,   \* what the loan was paid out at
    Entitled     \* days of leave of the year

None == -1       \* closedLoans is null

ASSUME SettlementAssumption ==
    /\ NoRun \notin Runs
    /\ IsFiniteSet(Claims)
    /\ Principal \in Nat /\ Entitled \in Nat

Windows == {"recalculated", "claim", "repaid", "reopened", "month", "taken", "again"}

VARIABLES
    settlement,  \* the employee's Settlement row
    final,       \* PayrollRun rows with isFinalSettlement
    regular,     \* the regular run of the month of the last working day
    loan,        \* the Loan row and what was repaid of it
    claim,       \* Reimbursement rows
    leave,       \* days of the LeaveBalance row
    op,          \* the handlers in flight, with what each has read
    races        \* windows this behaviour fell into (history)

vars == <<settlement, final, regular, loan, claim, leave, op, races>>

-----------------------------------------------------------------------------
(* Rows *)

\* Whether the settlement pays the last month's salary; what of the loan it
\* recovers and leaves; how many claims and days of leave it pays.
Figures == [salary: BOOLEAN, loan: Nat, left: Nat, claims: 0..Cardinality(Claims),
            days: Nat]
NoFigures == [salary |-> FALSE, loan |-> 0, left |-> 0, claims |-> 0, days |-> 0]

SettlementRows == [status: {"NONE", "DRAFT", "PROCESSED", "PAID"}, fig: Figures,
                   run: Runs \cup {NoRun}, closed: {None} \cup Nat]
FinalRows   == [status: {"NONE", "APPROVED", "PAID", "DELETED"}, fig: Figures]
RegularRows == [status: {"NONE", "CALCULATED", "LOCKED"}, emi: 0..1, latest: BOOLEAN]
LoanRows    == [status: {"ACTIVE", "CLOSED"}, balance: Nat, repaid: Nat]
ClaimRows   == [status: {"PENDING", "APPROVED", "REJECTED", "PAID"}, run: Runs \cup {NoRun}]
LeaveRows   == [taken: Nat, pending: Nat, encashed: Int]

NoSettlement == [status |-> "NONE", fig |-> NoFigures, run |-> NoRun, closed |-> None]

Settled  == settlement.status \in {"PROCESSED", "PAID"}
Live     == {r \in Runs : final[r].status \in {"APPROVED", "PAID"}}
Approved == {c \in Claims : claim[c].status = "APPROVED"}
Closing  == Entitled - leave.taken - leave.encashed

Idle == [kind |-> "idle"]
Ops == {Idle}
    \cup [kind: {"calculate"}, found: BOOLEAN]
    \cup [kind: {"process"}, fig: Figures]
    \cup [kind: {"book"}, fig: Figures, active: BOOLEAN, balance: Nat]
    \cup [kind: {"reverse"}, run: Runs \cup {NoRun}, closed: {None} \cup Nat,
          days: Nat]
    \cup [kind: {"pay"}, run: Runs \cup {NoRun}]
    \cup [kind: {"run"}]

Start(h, o)    == op[h] = Idle /\ op' = [op EXCEPT ![h] = o]
Continue(h, o) == op' = [op EXCEPT ![h] = o]
Finish(h)      == op' = [op EXCEPT ![h] = Idle]
InFlight(kinds) == {h \in Requests : op[h].kind \in kinds}
Fell(window, into) == races' = IF into THEN races \cup {window} ELSE races

\* Nobody holds the row lock that process takes with its guarded update.
Unlocked == InFlight({"book"}) = {}

Init ==
    /\ settlement = NoSettlement
    /\ final = [r \in Runs |-> [status |-> "NONE", fig |-> NoFigures]]
    /\ regular = [status |-> "NONE", emi |-> 0, latest |-> FALSE]
    /\ loan = [status |-> "ACTIVE", balance |-> Principal, repaid |-> 0]
    /\ claim = [c \in Claims |-> [status |-> "PENDING", run |-> NoRun]]
    /\ leave = [taken |-> 0, pending |-> 0, encashed |-> 0]
    /\ op = [h \in Requests |-> Idle]
    /\ races = {}

-----------------------------------------------------------------------------
(* calculate *)

Owed == IF loan.status = "ACTIVE" THEN loan.balance ELSE 0

\* Slip: the days an application holds are paid out as well.
AllDays == Closing
\* Days held by an application are not payable here as well.
PayableDays == IF Closing > leave.pending THEN Closing - leave.pending ELSE 0

\* What the figures come to when HR lets `part' of the loan be recovered.
Figured(part) ==
    [salary |-> regular.status # "LOCKED", loan |-> part, left |-> Owed - part,
     claims |-> Cardinality(Approved), days |-> PayableDays]

\* Refused once settled, and while the month's regular run is open.
CalculateRead(h) ==
    /\ ~Settled
    /\ regular.status # "CALCULATED"
    /\ Start(h, [kind |-> "calculate", found |-> settlement.status = "DRAFT"])
    /\ UNCHANGED <<settlement, final, regular, loan, claim, leave, races>>

\* The draft that was found is updated by its id; else one is created, and when
\* another calculation created it first that one is updated.  (Beside a settled
\* row this leaves a second draft, which process refuses for good.)  The figures
\* are those of the moment of the write: a draft written from older ones is one
\* that the records have moved on from since.
CalculateCommit(h) ==
    LET o == op[h]
        writes == IF o.found THEN settlement.status # "NONE" ELSE ~Settled IN
    /\ o.kind = "calculate"
    /\ Unlocked
    /\ \E part \in 0..Owed :
          settlement' = IF ~writes THEN settlement
                        ELSE [settlement EXCEPT !.fig = Figured(part),
                                  !.status = IF @ = "NONE" THEN "DRAFT" ELSE @]
    /\ Fell("recalculated", writes /\ Settled)
    /\ Finish(h)
    /\ UNCHANGED <<final, regular, loan, claim, leave>>

DiscardDraft ==
    /\ settlement.status = "DRAFT"
    /\ Unlocked
    /\ settlement' = NoSettlement
    /\ UNCHANGED <<final, regular, loan, claim, leave, op, races>>

-----------------------------------------------------------------------------
(* process *)

\* Neither open, nor locked since a draft that pays the salary was figured.
MonthClear(fig) ==
    /\ regular.status # "CALCULATED"
    /\ ~(regular.status = "LOCKED" /\ fig.salary)

ProcessRead(h) ==
    /\ settlement.status = "DRAFT"
    /\ leave.pending = 0
    /\ Live = {}
    /\ MonthClear(settlement.fig)
    /\ Start(h, [kind |-> "process", fig |-> settlement.fig])
    /\ UNCHANGED <<settlement, final, regular, loan, claim, leave, races>>

\* Slip: a loan that was repaid in part since is recovered at the old figure.
OwedAtMost(fig) == Owed <= fig.loan + fig.left
\* "Outstanding loan balance changed since this settlement was calculated".
OwedAsFigured(fig) == Owed = fig.loan + fig.left

\* The transaction takes the row and compares; the loans are read twice in the
\* code, once here.
ProcessBook(h) ==
    LET o == op[h] IN
    /\ o.kind = "process"
    /\ Unlocked
    /\ settlement.status = "DRAFT"
    /\ OwedAsFigured(o.fig)
    /\ Cardinality(Approved) = o.fig.claims
    /\ Fell("recalculated", settlement.fig # o.fig)
    /\ Continue(h, [kind |-> "book", fig |-> o.fig, active |-> loan.status = "ACTIVE",
                    balance |-> loan.balance])
    /\ UNCHANGED <<settlement, final, regular, loan, claim, leave>>

\* A loan not fully recovered stays active at what remains.
Recovered(o) ==
    IF ~o.active THEN loan
    ELSE LET remaining == IF o.balance > o.fig.loan THEN o.balance - o.fig.loan ELSE 0 IN
         [loan EXCEPT !.balance = remaining,
                      !.status = IF remaining > 0 THEN @ ELSE "CLOSED"]

\* ... and books the figures it read before it began.
ProcessCommit(h) ==
    LET o == op[h] IN
    /\ o.kind = "book"
    /\ Live = {}
    /\ \E r \in Runs :
          /\ final[r].status = "NONE"
          /\ final' = [final EXCEPT ![r] = [status |-> "APPROVED", fig |-> o.fig]]
          /\ settlement' = [settlement EXCEPT !.status = "PROCESSED", !.run = r,
                                !.closed = IF o.active THEN o.balance ELSE None]
          /\ claim' = [c \in Claims |->
                 IF c \in Approved THEN [status |-> "PAID", run |-> r] ELSE claim[c]]
    /\ loan' = Recovered(o)
    /\ leave' = [leave EXCEPT !.encashed = @ + o.fig.days]
    /\ races' = races
         \cup (IF Cardinality(Approved) # o.fig.claims THEN {"claim"} ELSE {})
         \cup (IF loan.balance # o.balance THEN {"repaid"} ELSE {})
         \cup (IF ~MonthClear(o.fig) THEN {"month"} ELSE {})
    /\ Finish(h)
    /\ UNCHANGED regular

-----------------------------------------------------------------------------
(* reverse, markPaid *)

ReverseRead(h) ==
    /\ settlement.status = "PROCESSED"
    /\ Start(h, [kind |-> "reverse", run |-> settlement.run, closed |-> settlement.closed,
                 days |-> settlement.fig.days])
    /\ UNCHANGED <<settlement, final, regular, loan, claim, leave, races>>

\* Slip: the claims stay paid by a run that is gone.
StillPaid(r) == claim
\* The claims the run paid are approved again.
Reapproved(r) == [c \in Claims |->
    IF r # NoRun /\ claim[c].run = r THEN [status |-> "APPROVED", run |-> NoRun] ELSE claim[c]]

ReverseCommit(h) ==
    LET o == op[h] IN
    /\ o.kind = "reverse"
    /\ Unlocked
    /\ settlement.status = "PROCESSED"
    /\ settlement' = [settlement EXCEPT !.status = "DRAFT", !.run = NoRun, !.closed = None]
    /\ claim' = Reapproved(o.run)
    /\ final' = [r \in Runs |->
          IF r = o.run THEN [final[r] EXCEPT !.status = "DELETED"] ELSE final[r]]
    /\ loan' = IF o.closed = None THEN loan
               ELSE [loan EXCEPT !.status = "ACTIVE", !.balance = o.closed]
    /\ leave' = [leave EXCEPT !.encashed = @ - o.days]
    /\ races' = races
         \cup (IF settlement.run # o.run THEN {"again"} ELSE {})
         \cup (IF o.closed # None /\ loan.balance + settlement.fig.loan # o.closed
               THEN {"reopened"} ELSE {})
    /\ Finish(h)
    /\ UNCHANGED regular

PayRead(h) ==
    /\ settlement.status = "PROCESSED"
    /\ Start(h, [kind |-> "pay", run |-> settlement.run])
    /\ UNCHANGED <<settlement, final, regular, loan, claim, leave, races>>

PayCommit(h) ==
    LET o == op[h] IN
    /\ o.kind = "pay"
    /\ Unlocked
    /\ settlement.status = "PROCESSED"
    /\ settlement' = [settlement EXCEPT !.status = "PAID"]
    /\ final' = [r \in Runs |-> IF r = o.run /\ r \in Live
                                THEN [final[r] EXCEPT !.status = "PAID"] ELSE final[r]]
    /\ Fell("again", settlement.run # o.run)
    /\ Finish(h)
    /\ UNCHANGED <<regular, loan, claim, leave>>

-----------------------------------------------------------------------------
(* The month's regular payroll run *)

\* Whoever is settled is skipped, and a run not yet verified is deleted.
RunRead(h) ==
    /\ regular.status # "LOCKED"
    /\ ~Settled
    /\ Start(h, [kind |-> "run"])
    /\ UNCHANGED <<settlement, final, regular, loan, claim, leave, races>>

RunCommit(h) ==
    /\ op[h].kind = "run"
    /\ regular.status # "LOCKED"
    /\ regular' = [regular EXCEPT !.status = "CALCULATED"]
    /\ Fell("month", Settled)
    /\ Finish(h)
    /\ UNCHANGED <<settlement, final, loan, claim, leave>>

\* removeRun; also what Run Payroll does to the run of one who is settled.
RemoveRun ==
    /\ regular.status = "CALCULATED"
    /\ regular' = [regular EXCEPT !.status = "NONE"]
    /\ UNCHANGED <<settlement, final, loan, claim, leave, op, races>>

\* Slip: the instalment is not capped at what is still owed.
FullInstalment == 1
Instalment == IF Owed > 0 THEN 1 ELSE 0

\* A lock charges the month's instalment, an unlock takes it back where it is the
\* loan's latest repayment.
LockRun ==
    LET emi == Instalment IN
    /\ regular.status = "CALCULATED"
    /\ regular' = [status |-> "LOCKED", emi |-> emi, latest |-> TRUE]
    /\ loan' = [loan EXCEPT !.balance = @ - emi, !.repaid = @ + emi,
                    !.status = IF @ = "ACTIVE" /\ loan.balance = emi THEN "CLOSED" ELSE @]
    /\ UNCHANGED <<settlement, final, claim, leave, op, races>>

UnlockRun ==
    /\ regular.status = "LOCKED"
    /\ regular.emi = 0 \/ regular.latest
    /\ regular' = [status |-> "CALCULATED", emi |-> 0, latest |-> FALSE]
    /\ loan' = IF regular.emi = 0 THEN loan
               ELSE [status |-> "ACTIVE", balance |-> loan.balance + regular.emi,
                     repaid |-> loan.repaid - regular.emi]
    /\ UNCHANGED <<settlement, final, claim, leave, op, races>>

-----------------------------------------------------------------------------
(* Loans, claims, leave *)

\* recordRepayment: guarded by the balance it read in its own transaction.
Repay(n) ==
    /\ loan.status = "ACTIVE" /\ n <= loan.balance
    /\ loan' = [loan EXCEPT !.balance = @ - n, !.repaid = @ + n,
                    !.status = IF n = loan.balance THEN "CLOSED" ELSE @]
    /\ regular' = [regular EXCEPT !.latest = FALSE]
    /\ UNCHANGED <<settlement, final, claim, leave, op, races>>

\* review
ReviewClaim(c, status) ==
    /\ \/ claim[c].status = "PENDING" /\ status \in {"APPROVED", "REJECTED"}
       \/ claim[c].status = "APPROVED" /\ status = "PAID"
    /\ claim' = [claim EXCEPT ![c].status = status]
    /\ UNCHANGED <<settlement, final, regular, loan, leave, op, races>>

\* The days a draft, or a handler, is about to pay out.
Promised ==
    {op[h].fig.days : h \in InFlight({"process", "book"})}
        \cup (IF settlement.status = "DRAFT" THEN {settlement.fig.days} ELSE {})

\* An application holds its day, a leave that HR records takes it at once.
AskLeave(recorded) ==
    /\ Closing > leave.pending
    /\ leave' = IF recorded THEN [leave EXCEPT !.taken = @ + 1]
                ELSE [leave EXCEPT !.pending = @ + 1]
    /\ Fell("taken", \E days \in Promised : Closing - leave.pending - 1 < days)
    /\ UNCHANGED <<settlement, final, regular, loan, claim, op>>

DecideLeave(approved) ==
    /\ leave.pending > 0
    /\ leave' = [leave EXCEPT !.pending = @ - 1, !.taken = IF approved THEN @ + 1 ELSE @]
    /\ UNCHANGED <<settlement, final, regular, loan, claim, op, races>>

\* A handler that is refused, rolled back or lost with its process.
GiveUp(h) ==
    /\ op[h] # Idle
    /\ Finish(h)
    /\ UNCHANGED <<settlement, final, regular, loan, claim, leave, races>>

Next ==
    \/ \E h \in Requests :
          \/ CalculateRead(h)
          \/ CalculateCommit(h)
          \/ ProcessRead(h)
          \/ ProcessBook(h)
          \/ ProcessCommit(h)
          \/ ReverseRead(h)
          \/ ReverseCommit(h)
          \/ PayRead(h)
          \/ PayCommit(h)
          \/ RunRead(h)
          \/ RunCommit(h)
          \/ GiveUp(h)
    \/ DiscardDraft
    \/ RemoveRun
    \/ LockRun
    \/ UnlockRun
    \/ \E n \in 1..Principal : Repay(n)
    \/ \E c \in Claims, status \in {"APPROVED", "REJECTED", "PAID"} : ReviewClaim(c, status)
    \/ \E recorded \in BOOLEAN : AskLeave(recorded)
    \/ \E approved \in BOOLEAN : DecideLeave(approved)

Spec == Init /\ [][Next]_vars

-----------------------------------------------------------------------------
(* What must hold *)

\* The rows and the snapshots have the values the schema allows.
TypeOK ==
    /\ settlement \in SettlementRows
    /\ final \in [Runs -> FinalRows]
    /\ regular \in RegularRows
    /\ loan \in LoanRows
    /\ claim \in [Claims -> ClaimRows]
    /\ leave \in LeaveRows
    /\ op \in [Requests -> Ops]
    /\ races \subseteq Windows

\* A settlement that is processed has one payslip with the figures HR approved,
\* paid when the settlement is, and has paid exactly the claims and the days of
\* leave in them; one that is not has paid nothing (process, reverse, markPaid).
BookedAsFigured ==
    races \cap {"recalculated", "claim", "again"} = {} =>
        LET paid == {c \in Claims : claim[c].run # NoRun} IN
        IF Settled
        THEN /\ Live = {settlement.run}
             /\ final[settlement.run].fig = settlement.fig
             /\ (final[settlement.run].status = "PAID") <=> (settlement.status = "PAID")
             /\ \A c \in paid : claim[c].run = settlement.run /\ claim[c].status = "PAID"
             /\ Cardinality(paid) = settlement.fig.claims
             /\ leave.encashed = settlement.fig.days
        ELSE Live = {} /\ paid = {} /\ leave.encashed = 0

\* Of the loan nothing is forgotten and nothing taken twice: what is owed, what was
\* repaid and what the settlement recovered make up what was paid out.
LoanAddsUp ==
    races \cap {"recalculated", "repaid", "reopened", "again"} = {} =>
        Principal = loan.balance + loan.repaid + (IF Settled THEN settlement.fig.loan ELSE 0)

\* The last month's salary is not paid by both runs, nor a day of leave both taken
\* and paid out.
PaidOnce ==
    /\ races \cap {"month", "recalculated", "again"} = {} =>
          ~(Settled /\ settlement.fig.salary /\ regular.status # "NONE")
    /\ races \cap {"taken", "recalculated", "again"} = {} =>
          leave.taken + leave.pending + leave.encashed <= Entitled
=============================================================================
