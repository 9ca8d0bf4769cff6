------------------------------- MODULE ExitCase -------------------------------
(****************************************************************************)
(* How one employee leaves: the resignation (src/src/resignations), the     *)
(* offboarding case and the hourly job that drives it (src/src/offboarding),*)
(* the status of the final settlement (src/src/settlements) and the account *)
(* (src/src/employees).                                                     *)
(*                                                                          *)
(* A handler is one step when its guarded update repeats all it had read.   *)
(* Otherwise it is a read that leaves its snapshot in op[h] and a commit;   *)
(* an approval is a chain of such steps, each in its own transaction.  The  *)
(* figures of the settlement are the business of module Settlement; here a  *)
(* calculation is one step.                                                 *)
(****************************************************************************)
EXTENDS Integers, FiniteSets

CONSTANTS
    Resignations,  \* rows of resignations, created or not yet
    Cases,         \* rows of offboarding_cases, created or not yet
    Requests,      \* HTTP handlers and jobs in flight at once
    NoResignation, NoCase, NoDate,
    LastDay,       \* bound of the model: the calendar is 0..LastDay
    LastDays,      \* the last working days that may be agreed
    ExitTypes,     \* OffboardingCase.exitStatus values that HR may choose
    Kinds          \* optional operations this instance may perform

Days == 0..LastDay

ASSUME ExitAssumption ==
    /\ NoResignation \notin Resignations /\ NoCase \notin Cases /\ NoDate \notin Days
    /\ LastDay \in Nat /\ LastDays \subseteq Days
    /\ ExitTypes \subseteq {"RELEASED", "TERMINATED", "ABSCONDED"}
    /\ "RELEASED" \in ExitTypes

ResignationStatuses == {"NONE", "PENDING", "APPROVED", "REJECTED", "WITHDRAWN"}
WithdrawalStatuses  == {"NONE", "REQUESTED", "APPROVED", "DECLINED"}
CaseStatuses        == {"NONE", "INITIATED", "IN_PROGRESS", "COMPLETED", "CANCELLED"}
SettlementStatuses  == {"NONE", "DRAFT", "PROCESSED", "PAID"}
EmploymentStatuses  == {"CONFIRMED", "RESIGNED", "RELEASED", "TERMINATED", "ABSCONDED"}

Windows == {"submit", "initiate", "unlinked", "reverted", "resurrect", "recancel",
            "outrun", "move", "cancel", "stale", "complete", "left"}

VARIABLES
    resignation,  \* Resignation rows
    exit,         \* OffboardingCase rows; `of' is whose approval began it (history)
    settlement,   \* the employee's settlement; `of' is the exit it settled (history)
    employee,     \* the User row
    today,        \* the organization's date
    op,           \* the handlers in flight, with what each has read
    races         \* windows this behaviour fell into (history)

vars == <<resignation, exit, settlement, employee, today, op, races>>

-----------------------------------------------------------------------------
(* Rows *)

ResignationRows == [status: ResignationStatuses, lwd: Days, withdrawal: WithdrawalStatuses,
                    case: Cases \cup {NoCase}]
CaseRows == [status: CaseStatuses, lwd: Days, ends: ExitTypes, previous: EmploymentStatuses,
             cleared: BOOLEAN, linked: BOOLEAN, of: Resignations \cup {NoResignation}]
SettlementRows == [status: SettlementStatuses, lwd: Days, of: Cases \cup {NoCase}]
EmployeeRow == [active: BOOLEAN, status: EmploymentStatuses, exitDate: Days \cup {NoDate}]

NoSettlement == [status |-> "NONE", lwd |-> 0, of |-> NoCase]

\* OPEN_STATUSES
OpenCases == {c \in Cases : exit[c].status \in {"INITIATED", "IN_PROGRESS"}}
Settled   == settlement.status \in {"PROCESSED", "PAID"}
Standing  == {r \in Resignations : resignation[r].status \in {"PENDING", "APPROVED"}}

Idle == [kind |-> "idle"]

Ops == {Idle}
    \cup [kind: {"submit"}, resignation: Resignations]
    \cup [kind: {"answer"}, resignation: Resignations, answer: {"APPROVED", "DECLINED"}]
    \cup [kind: {"approve"}, resignation: Resignations, lwd: LastDays]
    \cup [kind: {"initiate"}, resignation: Resignations \cup {NoResignation}, lwd: LastDays,
          ends: ExitTypes, previous: EmploymentStatuses]
    \cup [kind: {"announce", "link"}, resignation: Resignations, case: Cases]
    \cup [kind: {"prepare", "attach", "complete"}, case: Cases]
    \cup [kind: {"sweep", "draft"}, case: Cases, lwd: Days]
    \cup [kind: {"checklist"}, case: Cases, status: CaseStatuses]
    \cup [kind: {"move"}, case: Cases, lwd: LastDays, linked: BOOLEAN]
    \cup [kind: {"cancel"}, case: Cases, open: BOOLEAN, answers: Resignations \cup {NoResignation}]
    \cup [kind: {"decide"}, resignation: Resignations, case: Cases \cup {NoCase}]

Start(h, o)    == op[h] = Idle /\ op' = [op EXCEPT ![h] = o]
Continue(h, o) == op' = [op EXCEPT ![h] = o]
Finish(h)      == op' = [op EXCEPT ![h] = Idle]
InFlight(kinds) == {h \in Requests : op[h].kind \in kinds}
Fell(window, into) == races' = IF into THEN races \cup {window} ELSE races

\* Handlers that have approved r and not yet written which exit it led to.
Approving(r) ==
    {h \in InFlight({"approve", "initiate", "announce", "link"}) : op[h].resignation = r}
\* ... and among them those that have started exit c.
Linking(c) == {h \in InFlight({"announce", "link"}) : op[h].case = c}

Init ==
    /\ resignation = [r \in Resignations |->
            [status |-> "NONE", lwd |-> 0, withdrawal |-> "NONE", case |-> NoCase]]
    /\ exit = [c \in Cases |->
            [status |-> "NONE", lwd |-> 0, ends |-> "RELEASED", previous |-> "CONFIRMED",
             cleared |-> FALSE, linked |-> FALSE, of |-> NoResignation]]
    /\ settlement = NoSettlement
    /\ employee = [active |-> TRUE, status |-> "CONFIRMED", exitDate |-> NoDate]
    /\ today = 0
    /\ op = [h \in Requests |-> Idle]
    /\ races = {}

-----------------------------------------------------------------------------
(* Resigning *)

\* One resignation at a time, and none beside an exit that is under way.
MayResign == Standing = {} /\ OpenCases = {}

\* submit, and recordOnBehalf of HR.  The day they propose is HR's to change, so
\* the row has its last working day from the approval.
SubmitRead(h, r) ==
    /\ employee.active
    /\ MayResign
    /\ resignation[r].status = "NONE"
    /\ Start(h, [kind |-> "submit", resignation |-> r])
    /\ UNCHANGED <<resignation, exit, settlement, employee, today, races>>

SubmitCommit(h) ==
    LET r == op[h].resignation IN
    /\ op[h].kind = "submit"
    /\ resignation[r].status = "NONE"
    /\ resignation' = [resignation EXCEPT ![r].status = "PENDING"]
    /\ Fell("submit", ~MayResign)
    /\ Finish(h)
    /\ UNCHANGED <<exit, settlement, employee, today>>

\* withdraw and reject
Close(r, status) ==
    /\ resignation[r].status = "PENDING"
    /\ resignation' = [resignation EXCEPT ![r].status = status]
    /\ UNCHANGED <<exit, settlement, employee, today, op, races>>

\* approve flips first, so that two approvals cannot both start an exit.
ApproveFlip(h, r, d) ==
    /\ resignation[r].status = "PENDING"
    /\ resignation' = [resignation EXCEPT ![r].status = "APPROVED", ![r].lwd = d]
    /\ Start(h, [kind |-> "approve", resignation |-> r, lwd |-> d])
    /\ UNCHANGED <<exit, settlement, employee, today, races>>

\* ... and takes it back, by id alone, whatever initiate fails of: the checks, its
\* transaction, or the checklist, notices and mails that follow its commit.
\* Window: the exit is under way by then.
ApproveRevert(h) ==
    /\ op[h].kind \in {"approve", "initiate", "announce"}
    /\ op[h].resignation # NoResignation
    /\ resignation' = [resignation EXCEPT ![op[h].resignation].status = "PENDING",
                                          ![op[h].resignation].lwd = 0]
    /\ Fell("reverted", op[h].kind = "announce")
    /\ Finish(h)
    /\ UNCHANGED <<exit, settlement, employee, today>>

LinkCase(h) ==
    LET o == op[h] IN
    /\ o.kind = "link"
    /\ resignation' = [resignation EXCEPT ![o.resignation].case = o.case]
    /\ Continue(h, [kind |-> "prepare", case |-> o.case])
    /\ UNCHANGED <<exit, settlement, employee, today, races>>

RequestWithdrawal(r) ==
    /\ resignation[r].status = "APPROVED"
    /\ resignation[r].withdrawal # "REQUESTED"
    /\ resignation' = [resignation EXCEPT ![r].withdrawal = "REQUESTED"]
    /\ UNCHANGED <<exit, settlement, employee, today, op, races>>

\* decideWithdrawal.  A declined request has only its answer left to write.
DecideRead(h, r, approve) ==
    /\ resignation[r].status = "APPROVED"
    /\ resignation[r].withdrawal = "REQUESTED"
    /\ Start(h, IF approve
                THEN [kind |-> "decide", resignation |-> r, case |-> resignation[r].case]
                ELSE [kind |-> "answer", resignation |-> r, answer |-> "DECLINED"])
    /\ UNCHANGED <<resignation, exit, settlement, employee, today, races>>

\* An approved request whose resignation names no exit withdraws it on the spot.
DecideWithout(h) ==
    LET r == op[h].resignation IN
    /\ op[h].kind = "decide" /\ op[h].case = NoCase
    /\ resignation' = IF resignation[r].status = "APPROVED"
                      THEN [resignation EXCEPT ![r].status = "WITHDRAWN"] ELSE resignation
    /\ Fell("unlinked", Approving(r) # {} \/ resignation[r].case # NoCase
                          \/ resignation[r].status # "APPROVED")
    /\ Continue(h, [kind |-> "answer", resignation |-> r, answer |-> "APPROVED"])
    /\ UNCHANGED <<exit, settlement, employee, today>>

\* The answer is recorded last, on a request that still waits, whatever became of
\* the resignation; when another handler answered meanwhile this one is told so,
\* but the exit is cancelled already.
Answer(h) ==
    LET r == op[h].resignation IN
    /\ op[h].kind = "answer"
    /\ resignation' = IF resignation[r].withdrawal = "REQUESTED"
                      THEN [resignation EXCEPT ![r].withdrawal = op[h].answer] ELSE resignation
    /\ Finish(h)
    /\ UNCHANGED <<exit, settlement, employee, today, races>>

-----------------------------------------------------------------------------
(* Starting an exit *)

InitiateRead(h, d, type) ==
    /\ OpenCases = {}
    /\ Start(h, [kind |-> "initiate", resignation |-> NoResignation, lwd |-> d,
                 ends |-> type, previous |-> employee.status])
    /\ UNCHANGED <<resignation, exit, settlement, employee, today, races>>

\* approve calls initiate for a release on the day it approved.
ApproveInitiate(h) ==
    /\ op[h].kind = "approve"
    /\ OpenCases = {}
    /\ Continue(h, [kind |-> "initiate", resignation |-> op[h].resignation,
                    lwd |-> op[h].lwd, ends |-> "RELEASED", previous |-> employee.status])
    /\ UNCHANGED <<resignation, exit, settlement, employee, today, races>>

\* Slip: the resignation's word for it, in the employee's column.
Resigning(o) == "APPROVED"
\* The employee enters the notice stage, unless dismissed or in it already.
StatusInNotice(o) ==
    IF o.ends = "RELEASED" /\ o.previous # "RESIGNED" THEN "RESIGNED" ELSE employee.status

InitiateCommit(h, c) ==
    LET o == op[h] IN
    /\ o.kind = "initiate"
    /\ exit[c].status = "NONE"
    /\ exit' = [exit EXCEPT ![c] =
            [status |-> "INITIATED", lwd |-> o.lwd, ends |-> o.ends, previous |-> o.previous,
             cleared |-> FALSE, linked |-> FALSE, of |-> o.resignation]]
    /\ employee' = [employee EXCEPT !.exitDate = o.lwd, !.status = StatusInNotice(o)]
    /\ races' = races \cup (IF OpenCases # {} THEN {"initiate"} ELSE {})
                      \cup (IF employee.active THEN {} ELSE {"left"})
    /\ IF o.resignation = NoResignation THEN Finish(h)
       ELSE Continue(h, [kind |-> "announce", resignation |-> o.resignation, case |-> c])
    /\ UNCHANGED <<resignation, settlement, today>>

\* The rest of initiate went well, and approve has its exit.
Announce(h) ==
    /\ op[h].kind = "announce"
    /\ Continue(h, [op[h] EXCEPT !.kind = "link"])
    /\ UNCHANGED <<resignation, exit, settlement, employee, today, races>>

-----------------------------------------------------------------------------
(* The settlement of the exit *)

\* A calculation is refused once the employee is settled, or for a date that is
\* not the open exit's.
Calculable(d) == ~Settled /\ \A c \in OpenCases : exit[c].lwd = d

\* linkToOpenCase
LinkedTo(d) == [c \in Cases |->
    IF c \in OpenCases /\ exit[c].lwd = d THEN [exit[c] EXCEPT !.linked = TRUE] ELSE exit[c]]

Drafted(d) == [settlement EXCEPT !.status = "DRAFT", !.lwd = d]

Calculate(d) ==
    /\ d <= today
    /\ Calculable(d)
    /\ settlement' = Drafted(d)
    /\ exit' = LinkedTo(d)
    /\ UNCHANGED <<resignation, employee, today, op, races>>

\* prepareProvisional, the last step of an approval, figures an estimate unless
\* the case has a settlement.  It is quiet on failure.
PrepareRead(h) ==
    LET c == op[h].case IN
    /\ op[h].kind = "prepare"
    /\ IF exit[c].linked THEN Finish(h)
       ELSE Continue(h, [kind |-> "draft", case |-> c, lwd |-> exit[c].lwd])
    /\ UNCHANGED <<resignation, exit, settlement, employee, today, races>>

\* runForOrg, every hour: a case past its last working day, without a settlement
\* or with an estimate ...
SweepRead(h, c) ==
    /\ c \in OpenCases /\ exit[c].lwd < today
    /\ exit[c].linked => settlement.status = "DRAFT"
    /\ Start(h, [kind |-> "sweep", case |-> c, lwd |-> exit[c].lwd])
    /\ UNCHANGED <<resignation, exit, settlement, employee, today, races>>

\* ... gets the settlement made for that day, or a draft (settleOrPrepare).  Which
\* drafts are estimates to be figured again is not modelled: any may be.
SweepLook(h) ==
    LET made == settlement.status # "NONE" /\ settlement.lwd = op[h].lwd IN
    /\ op[h].kind = "sweep"
    /\ \/ made /\ Continue(h, [kind |-> "attach", case |-> op[h].case])
       \/ /\ made => settlement.status = "DRAFT"
          /\ Continue(h, [op[h] EXCEPT !.kind = "draft"])
    /\ UNCHANGED <<resignation, exit, settlement, employee, today, races>>

\* Both calculate for the day they read and link what they got.
DraftCommit(h) ==
    LET o == op[h] IN
    /\ o.kind = "draft"
    /\ Calculable(o.lwd)
    /\ settlement' = Drafted(o.lwd)
    /\ exit' = LinkedTo(o.lwd)
    /\ Continue(h, [kind |-> "attach", case |-> o.case])
    /\ UNCHANGED <<resignation, employee, today, races>>

\* linkSettlement asks that the two dates agree ...
LinkRead(h, c) ==
    /\ exit[c].status # "NONE"
    /\ settlement.status # "NONE" /\ settlement.lwd = exit[c].lwd
    /\ Start(h, [kind |-> "attach", case |-> c])
    /\ UNCHANGED <<resignation, exit, settlement, employee, today, races>>

\* ... and all three write the link by id, whatever either has become.
AttachCommit(h) ==
    /\ op[h].kind = "attach"
    /\ exit' = [exit EXCEPT ![op[h].case].linked = TRUE]
    /\ Finish(h)
    /\ UNCHANGED <<resignation, settlement, employee, today, races>>

\* process looks at the settlement's own date and not at the exit's.
Process ==
    /\ settlement.status = "DRAFT"
    /\ settlement.lwd <= today
    /\ \E c \in OpenCases \cup {NoCase} :
          /\ c = NoCase => OpenCases = {}
          /\ settlement' = [settlement EXCEPT !.status = "PROCESSED", !.of = c]
          /\ races' = races
               \cup (IF c # NoCase /\ ~exit[c].linked THEN {"stale"} ELSE {})
               \cup (IF InFlight({"cancel"}) # {} THEN {"cancel"} ELSE {})
    /\ UNCHANGED <<resignation, exit, employee, today, op>>

Reverse ==
    /\ settlement.status = "PROCESSED"
    /\ \A c \in Cases : exit[c].status # "COMPLETED"
    /\ settlement' = [settlement EXCEPT !.status = "DRAFT", !.of = NoCase]
    /\ UNCHANGED <<resignation, exit, employee, today, op, races>>

MarkPaid ==
    /\ settlement.status = "PROCESSED"
    /\ settlement' = [settlement EXCEPT !.status = "PAID"]
    /\ UNCHANGED <<resignation, exit, employee, today, op, races>>

\* The row is deleted: a link to it that is yet to be written will be refused by
\* the foreign key.
DiscardDraft ==
    /\ settlement.status = "DRAFT"
    /\ settlement' = NoSettlement
    /\ exit' = [c \in Cases |-> [exit[c] EXCEPT !.linked = FALSE]]
    /\ op' = [h \in Requests |-> IF op[h].kind = "attach" THEN Idle ELSE op[h]]
    /\ UNCHANGED <<resignation, employee, today, races>>

-----------------------------------------------------------------------------
(* Clearance, a change of date, the end *)

\* updateChecklist and saveExitInterview: the write repeats nothing, and moves an
\* exit that was read as INITIATED to IN_PROGRESS.
ChecklistRead(h, c) ==
    /\ c \in OpenCases
    /\ Start(h, [kind |-> "checklist", case |-> c, status |-> exit[c].status])
    /\ UNCHANGED <<resignation, exit, settlement, employee, today, races>>

ChecklistCommit(h, done) ==
    LET o == op[h]
        fresh == o.status = "INITIATED" IN
    /\ o.kind = "checklist"
    /\ exit' = [exit EXCEPT ![o.case].cleared = done,
                            ![o.case].status = IF fresh THEN "IN_PROGRESS" ELSE @]
    /\ Fell("resurrect", fresh /\ o.case \notin OpenCases)
    /\ Finish(h)
    /\ UNCHANGED <<resignation, settlement, employee, today>>

\* updateLastWorkingDay: the draft it read, figured for the old date, is unlinked;
\* one linked since is not.
MoveRead(h, c, d) ==
    /\ c \in OpenCases /\ d # exit[c].lwd
    /\ ~(exit[c].linked /\ Settled)
    /\ Start(h, [kind |-> "move", case |-> c, lwd |-> d, linked |-> exit[c].linked])
    /\ UNCHANGED <<resignation, exit, settlement, employee, today, races>>

MoveCommit(h) ==
    LET c == op[h].case IN
    /\ op[h].kind = "move"
    /\ exit' = [exit EXCEPT ![c].lwd = op[h].lwd, ![c].linked = @ /\ ~op[h].linked]
    /\ employee' = [employee EXCEPT !.exitDate = op[h].lwd]
    /\ resignation' = [r \in Resignations |->
            IF resignation[r].case = c /\ resignation[r].status = "APPROVED"
            THEN [resignation[r] EXCEPT !.lwd = op[h].lwd] ELSE resignation[r]]
    /\ races' = races
         \cup (IF c \notin OpenCases \/ (exit[c].linked /\ Settled) THEN {"move"} ELSE {})
         \cup (IF Linking(c) # {} THEN {"unlinked"} ELSE {})
    /\ Finish(h)
    /\ UNCHANGED <<settlement, today>>

\* Slip: a settlement that is processed will do.
Processed(c) ==
    /\ c \in OpenCases /\ exit[c].cleared /\ exit[c].linked
    /\ Settled /\ settlement.lwd = exit[c].lwd
\* What complete asks for.
Ready(c) ==
    /\ c \in OpenCases /\ exit[c].cleared /\ exit[c].linked
    /\ settlement.status = "PAID" /\ settlement.lwd = exit[c].lwd

\* By HR, or by the hourly job where the company asked for that.
CompleteRead(h, c) ==
    /\ Ready(c)
    /\ Start(h, [kind |-> "complete", case |-> c])
    /\ UNCHANGED <<resignation, exit, settlement, employee, today, races>>

CompleteCommit(h) ==
    LET c == op[h].case IN
    /\ op[h].kind = "complete"
    /\ exit' = [exit EXCEPT ![c].status = "COMPLETED"]
    /\ employee' = [employee EXCEPT !.active = FALSE, !.status = exit[c].ends]
    /\ Fell("complete", ~Ready(c))
    /\ Finish(h)
    /\ UNCHANGED <<resignation, settlement, today>>

\* Slip: the settlement is not looked at.
NotCompleted(c) == exit[c].status \in {"INITIATED", "IN_PROGRESS", "CANCELLED"}
Cancellable(c) ==
    exit[c].status \in {"INITIATED", "IN_PROGRESS", "CANCELLED"} /\ ~(exit[c].linked /\ Settled)

CancelFrom(h, c, r) ==
    /\ Cancellable(c)
    /\ Continue(h, [kind |-> "cancel", case |-> c, open |-> c \in OpenCases, answers |-> r])
    /\ UNCHANGED <<resignation, exit, settlement, employee, today, races>>

CancelRead(h, c)  == op[h] = Idle /\ CancelFrom(h, c, NoResignation)
DecideCancel(h) ==
    /\ op[h].kind = "decide" /\ op[h].case # NoCase
    /\ CancelFrom(h, op[h].case, op[h].resignation)

\* Slip: the notice stage outlives the exit.
StatusKept(o) == employee.status
StatusRestored(o) ==
    IF o.open /\ employee.status = "RESIGNED" THEN exit[o.case].previous ELSE employee.status

\* Slip: the resignation is left as it was approved.
LeftApproved(o) == resignation
ClosedWith(o) == [r \in Resignations |->
    IF o.open /\ resignation[r].case = o.case /\ resignation[r].status = "APPROVED"
    THEN [resignation[r] EXCEPT !.status = "WITHDRAWN"] ELSE resignation[r]]

\* The guarded update also takes an exit that is CANCELLED already, and says
\* nothing when it finds one COMPLETED.
CancelCommit(h) ==
    LET o == op[h] IN
    /\ o.kind = "cancel"
    /\ IF NotCompleted(o.case)
       THEN /\ exit' = [exit EXCEPT ![o.case].status = "CANCELLED"]
            /\ employee' = [employee EXCEPT !.exitDate = NoDate, !.status = StatusRestored(o)]
            /\ resignation' = ClosedWith(o)
       ELSE UNCHANGED <<exit, employee, resignation>>
    /\ races' = races
         \cup (IF o.case \notin OpenCases /\ OpenCases # {} THEN {"recancel"} ELSE {})
         \cup (IF exit[o.case].status = "COMPLETED" THEN {"outrun"} ELSE {})
         \cup (IF Linking(o.case) # {} THEN {"unlinked"} ELSE {})
    /\ IF o.answers = NoResignation THEN Finish(h)
       ELSE Continue(h, [kind |-> "answer", resignation |-> o.answers,
                         answer |-> "APPROVED"])
    /\ UNCHANGED <<settlement, today>>

\* employees.update: a working status reopens the account of one who has left.
Reinstate ==
    /\ ~employee.active
    /\ employee.status \in {"RELEASED", "TERMINATED", "ABSCONDED"}
    /\ employee' = [active |-> TRUE, status |-> "CONFIRMED", exitDate |-> NoDate]
    /\ UNCHANGED <<resignation, exit, settlement, today, op, races>>

NextDay ==
    /\ today < LastDay
    /\ today' = today + 1
    /\ UNCHANGED <<resignation, exit, settlement, employee, op, races>>

\* A handler that is refused, rolled back or lost with its process.
GiveUp(h) ==
    /\ op[h] # Idle
    /\ Fell("unlinked", \E r \in Resignations : h \in Approving(r))
    /\ Finish(h)
    /\ UNCHANGED <<resignation, exit, settlement, employee, today>>

Allowed(kind) == kind \in Kinds

Next ==
    \/ \E h \in Requests :
          \/ \E r \in Resignations : SubmitRead(h, r)
          \/ \E r \in Resignations, approve \in BOOLEAN : DecideRead(h, r, approve)
          \/ \E r \in Resignations, d \in LastDays : ApproveFlip(h, r, d)
          \/ SubmitCommit(h)
          \/ ApproveRevert(h)
          \/ ApproveInitiate(h)
          \/ Allowed("direct") /\ \E d \in LastDays, type \in ExitTypes : InitiateRead(h, d, type)
          \/ \E c \in Cases : InitiateCommit(h, c)
          \/ Announce(h)
          \/ LinkCase(h)
          \/ PrepareRead(h)
          \/ \E c \in Cases : SweepRead(h, c) \/ LinkRead(h, c)
          \/ SweepLook(h)
          \/ DraftCommit(h)
          \/ AttachCommit(h)
          \/ DecideWithout(h)
          \/ DecideCancel(h)
          \/ Answer(h)
          \/ \E c \in Cases : ChecklistRead(h, c) \/ CompleteRead(h, c) \/ CancelRead(h, c)
          \/ \E done \in BOOLEAN : ChecklistCommit(h, done)
          \/ Allowed("move") /\ \E c \in Cases, d \in LastDays : MoveRead(h, c, d)
          \/ MoveCommit(h)
          \/ CompleteCommit(h)
          \/ CancelCommit(h)
          \/ GiveUp(h)
    \/ \E r \in Resignations :
          \/ \E status \in {"WITHDRAWN", "REJECTED"} : Close(r, status)
          \/ RequestWithdrawal(r)
    \/ \E d \in LastDays : Calculate(d)
    \/ Process
    \/ Reverse
    \/ MarkPaid
    \/ DiscardDraft
    \/ Allowed("reinstate") /\ Reinstate
    \/ NextDay

Spec == Init /\ [][Next]_vars
-----------------------------------------------------------------------------
(* What must hold *)

\* The rows and the snapshots have the values the schema allows.
TypeOK ==
    /\ resignation \in [Resignations -> ResignationRows]
    /\ exit \in [Cases -> CaseRows]
    /\ settlement \in SettlementRows
    /\ employee \in EmployeeRow
    /\ today \in Days
    /\ op \in [Requests -> Ops]
    /\ races \subseteq Windows

\* An account that is open carries the last working day, and the notice stage, of
\* the exit that is under way, and nothing of the exits that were called off:
\* exitDate decides what trackers, payroll and sign-in make of the employee.
NoticeFollowsExit ==
    /\ races \cap {"initiate", "resurrect", "recancel", "move", "complete", "left"} = {}
    /\ employee.active
    =>  /\ (employee.exitDate = NoDate) <=> (OpenCases = {})
        /\ \A c \in OpenCases : exit[c].lwd = employee.exitDate
        /\ employee.status = "RESIGNED" => OpenCases # {}

\* An approved resignation stands for an exit that is under way or over, of its
\* own last working day; one that waits, was turned down or withdrawn for none,
\* linked or not: whichever of approval, its failure, withdrawal and cancellation
\* comes first, the two records end alike (approve, decideWithdrawal, cancel).
ResignationFollowsExit ==
    races \cap {"unlinked", "reverted", "resurrect", "outrun", "complete"} = {} =>
        \A r \in Resignations :
            LET row == resignation[r] IN
            /\ row.status = "APPROVED" /\ Approving(r) = {} =>
                  /\ row.case # NoCase
                  /\ exit[row.case].status \in {"INITIATED", "IN_PROGRESS", "COMPLETED"}
                  /\ exit[row.case].lwd = row.lwd
            /\ row.status # "APPROVED" =>
                  \A c \in Cases : exit[c].of = r => exit[c].status = "CANCELLED"
            /\ row.withdrawal = "APPROVED" => row.status = "WITHDRAWN"

\* A settlement that has closed the leaver's loans and paid their claims is not
\* left without its exit: cancel has it reversed first.
SettledExitStands ==
    races \cap {"cancel", "stale", "move"} = {} /\ Settled /\ settlement.of # NoCase =>
        exit[settlement.of].status # "CANCELLED"

\* An account is closed by an exit whose settlement, of that very last working
\* day, was paid, and stays paid (complete).
NobodyLeavesUnpaid ==
    races \cap {"complete", "move"} = {} =>
        \A c \in Cases : exit[c].status = "COMPLETED" =>
            /\ settlement.status = "PAID" /\ exit[c].linked
            /\ settlement.lwd = exit[c].lwd
=============================================================================
