---------------------------- MODULE ExitCaseProofs ----------------------------
(****************************************************************************)
(* What ExitCase promises of an employee's account, settlement and records, *)
(* for any number of resignations, exits, handlers and days.                *)
(*                                                                          *)
(* The argument: outside its windows a commit finds the exit as its read    *)
(* left it.  Each invariant says so of the handlers in flight, beside what  *)
(* it says of the rows: at most one exit is open, and who has just approved *)
(* a resignation holds it until exit and resignation are linked.            *)
(****************************************************************************)
EXTENDS ExitCase, TLAPS

-----------------------------------------------------------------------------
(* Types *)

\* What the snapshot of a handler consists of.
LEMMA Snapshots ==
    ASSUME NEW o \in Ops
    PROVE  /\ o.kind \in {"submit", "answer", "approve", "announce", "link", "decide"} =>
                  o.resignation \in Resignations
           /\ o.kind = "initiate" =>
                  /\ o.resignation \in Resignations \cup {NoResignation}
                  /\ o.ends \in ExitTypes /\ o.previous \in EmploymentStatuses
           /\ o.kind \in {"approve", "initiate", "move"} => o.lwd \in LastDays
           /\ o.kind \in {"sweep", "draft"} => o.lwd \in Days
           /\ o.kind = "move" => o.linked \in BOOLEAN
           /\ o.kind = "answer" => o.answer \in {"APPROVED", "DECLINED"}
           /\ o.kind \in {"announce", "link", "prepare", "sweep", "draft", "attach", "complete",
                          "checklist", "move", "cancel"} => o.case \in Cases
           /\ o.kind = "cancel" =>
                  o.open \in BOOLEAN /\ o.answers \in Resignations \cup {NoResignation}
           /\ o.kind = "decide" => o.case \in Cases \cup {NoCase}
  BY DEF Ops, Idle

\* A handler takes a snapshot, or drops it.
LEMMA OpTyped ==
    ASSUME op \in [Requests -> Ops], NEW h \in Requests, NEW o \in Ops,
           op' = [op EXCEPT ![h] = o]
    PROVE  op' \in [Requests -> Ops]
  OBVIOUS

LEMMA IdleTyped == Idle \in Ops
  BY DEF Ops

LEMMA DaysTyped == LastDays \subseteq Days /\ NoDate \notin Days /\ 0 \in Days
  BY ExitAssumption DEF Days

LEMMA LinkTyped ==
    ASSUME NEW row \in CaseRows, NEW linked \in BOOLEAN
    PROVE  [row EXCEPT !.linked = linked] \in CaseRows
  BY DEF CaseRows

\* The links and drafts a calculation writes.
LEMMA LinkedTyped ==
    ASSUME TypeOK, NEW d \in Days
    PROVE  LinkedTo(d) \in [Cases -> CaseRows] /\ Drafted(d) \in SettlementRows
  <1>1. LinkedTo(d) \in [Cases -> CaseRows]
    BY LinkTyped DEF TypeOK, LinkedTo
  <1>2. Drafted(d) \in SettlementRows
    BY DEF TypeOK, Drafted, SettlementRows, SettlementStatuses
  <1>3. QED
    BY <1>1, <1>2

LEMMA TypeInit == Init => TypeOK
  BY DaysTyped, IdleTyped, ExitAssumption
  DEF Init, TypeOK, ResignationRows, ResignationStatuses, WithdrawalStatuses, CaseRows,
      CaseStatuses, EmploymentStatuses, NoSettlement, SettlementRows, SettlementStatuses,
      EmployeeRow

LEMMA TypeStep == TypeOK /\ [Next]_vars => TypeOK'
  <1> SUFFICES ASSUME TypeOK, [Next]_vars PROVE TypeOK'
    OBVIOUS
  <1> USE DaysTyped, IdleTyped, OpTyped, ExitAssumption
  <1>1. ASSUME NEW h \in Requests, NEW r \in Resignations, NEW approve \in BOOLEAN,
               SubmitRead(h, r) \/ DecideRead(h, r, approve)
        PROVE  TypeOK'
    <2>1. /\ [kind |-> "submit", resignation |-> r] \in Ops
          /\ [kind |-> "answer", resignation |-> r, answer |-> "DECLINED"] \in Ops
      BY DEF Ops
    <2>2. [kind |-> "decide", resignation |-> r, case |-> resignation[r].case] \in Ops
      BY DEF TypeOK, Ops, ResignationRows
    <2>3. CASE SubmitRead(h, r)
      BY <2>1, <2>3 DEF TypeOK, SubmitRead, Start
    <2>4. CASE DecideRead(h, r, approve)
      BY <2>1, <2>2, <2>4 DEF TypeOK, DecideRead, Start
    <2>5. QED
      BY <1>1, <2>3, <2>4
  <1>2. ASSUME NEW h \in Requests, NEW r \in Resignations, NEW d \in LastDays,
               ApproveFlip(h, r, d)
        PROVE  TypeOK'
    <2>1. [kind |-> "approve", resignation |-> r, lwd |-> d] \in Ops
      BY DEF Ops
    <2>2. op' \in [Requests -> Ops]
      BY <1>2, <2>1 DEF TypeOK, ApproveFlip, Start
    <2>3. resignation' \in [Resignations -> ResignationRows]
      <3>1. ASSUME NEW x \in ResignationRows
            PROVE  [x EXCEPT !.status = "APPROVED", !.lwd = d] \in ResignationRows
        BY DEF ResignationRows, ResignationStatuses
      <3>2. resignation' = [resignation EXCEPT ![r] =
                               [resignation[r] EXCEPT !.status = "APPROVED", !.lwd = d]]
        BY <1>2 DEF TypeOK, ApproveFlip
      <3>3. QED
        BY <3>1, <3>2 DEF TypeOK
    <2>4. QED
      BY <1>2, <2>2, <2>3 DEF TypeOK, ApproveFlip
  <1>3. ASSUME NEW h \in Requests, SubmitCommit(h)
        PROVE  TypeOK'
    <2>1. op[h].resignation \in Resignations
      BY <1>3, Snapshots DEF TypeOK, SubmitCommit
    <2>2. QED
      BY <1>3, <2>1
      DEF TypeOK, SubmitCommit, Finish, Fell, Windows, ResignationRows, ResignationStatuses
  <1>4. ASSUME NEW h \in Requests, ApproveRevert(h)
        PROVE  TypeOK'
    <2>1. op[h].resignation \in Resignations
      BY <1>4, Snapshots DEF TypeOK, ApproveRevert
    <2>2. QED
      BY <1>4, <2>1
      DEF TypeOK, ApproveRevert, Finish, Fell, Windows, ResignationRows, ResignationStatuses
  <1>5. ASSUME NEW h \in Requests, ApproveInitiate(h)
        PROVE  TypeOK'
    <2>1. op[h].resignation \in Resignations /\ op[h].lwd \in LastDays
      BY <1>5, Snapshots DEF TypeOK, ApproveInitiate
    <2>2. [kind |-> "initiate", resignation |-> op[h].resignation, lwd |-> op[h].lwd,
           ends |-> "RELEASED", previous |-> employee.status] \in Ops
      BY <2>1 DEF TypeOK, Ops, EmployeeRow
    <2>3. QED
      BY <1>5, <2>2 DEF TypeOK, ApproveInitiate, Continue
  <1>6. ASSUME NEW h \in Requests, NEW d \in LastDays, NEW type \in ExitTypes,
               InitiateRead(h, d, type)
        PROVE  TypeOK'
    <2>1. [kind |-> "initiate", resignation |-> NoResignation, lwd |-> d, ends |-> type,
           previous |-> employee.status] \in Ops
      BY DEF TypeOK, Ops, EmployeeRow
    <2>2. QED
      BY <1>6, <2>1 DEF TypeOK, InitiateRead, Start
  <1>7. ASSUME NEW h \in Requests, NEW c \in Cases, InitiateCommit(h, c)
        PROVE  TypeOK'
    <2>1. /\ op[h].resignation \in Resignations \cup {NoResignation}
          /\ op[h].lwd \in LastDays /\ op[h].ends \in ExitTypes
          /\ op[h].previous \in EmploymentStatuses
      BY <1>7, Snapshots DEF TypeOK, InitiateCommit
    <2>2. exit' \in [Cases -> CaseRows]
      BY <1>7, <2>1 DEF TypeOK, InitiateCommit, CaseRows, CaseStatuses
    <2>3. employee' \in EmployeeRow
      BY <1>7, <2>1 DEF TypeOK, InitiateCommit, StatusInNotice, EmployeeRow, EmploymentStatuses
    <2>4. op' \in [Requests -> Ops]
      <3>1. CASE op[h].resignation = NoResignation
        BY <1>7, <3>1 DEF TypeOK, InitiateCommit, Finish
      <3>2. CASE op[h].resignation # NoResignation
        <4>1. [kind |-> "announce", resignation |-> op[h].resignation, case |-> c] \in Ops
          BY <2>1, <3>2 DEF Ops
        <4>2. QED
          BY <1>7, <3>2, <4>1 DEF TypeOK, InitiateCommit, Continue
      <3>3. QED
        BY <3>1, <3>2
    <2>5. QED
      BY <1>7, <2>2, <2>3, <2>4 DEF TypeOK, InitiateCommit, Windows
  <1>8. ASSUME NEW h \in Requests, LinkCase(h)
        PROVE  TypeOK'
    <2>1. op[h].resignation \in Resignations /\ op[h].case \in Cases
      BY <1>8, Snapshots DEF TypeOK, LinkCase
    <2>2. [kind |-> "prepare", case |-> op[h].case] \in Ops
      BY <2>1 DEF Ops
    <2>3. QED
      BY <1>8, <2>1, <2>2 DEF TypeOK, LinkCase, Continue, ResignationRows
  <1>9. ASSUME NEW h \in Requests, PrepareRead(h) \/ SweepLook(h) \/ Announce(h)
        PROVE  TypeOK'
    <2>1. op[h].case \in Cases
      BY <1>9, Snapshots DEF TypeOK, PrepareRead, SweepLook, Announce
    <2>2. CASE PrepareRead(h)
      <3>1. [kind |-> "draft", case |-> op[h].case, lwd |-> exit[op[h].case].lwd] \in Ops
        BY <2>1 DEF TypeOK, CaseRows, Ops
      <3>2. QED
        BY <2>2, <3>1 DEF TypeOK, PrepareRead, Continue, Finish
    <2>3. CASE SweepLook(h)
      <3>1. [kind |-> "attach", case |-> op[h].case] \in Ops
        BY <2>1 DEF Ops
      <3>2. [op[h] EXCEPT !.kind = "draft"] \in Ops
        <4>1. op[h] \in [kind : {"sweep", "draft"}, case : Cases, lwd : Days]
          BY <2>3 DEF TypeOK, Ops, Idle, SweepLook
        <4>2. [op[h] EXCEPT !.kind = "draft"] \in [kind : {"sweep", "draft"}, case : Cases, lwd : Days]
          BY <4>1
        <4>3. QED
          BY <4>2 DEF Ops
      <3>3. QED
        BY <2>3, <3>1, <3>2 DEF TypeOK, SweepLook, Continue
    <2>4. CASE Announce(h)
      <3>1. [op[h] EXCEPT !.kind = "link"] \in Ops
        <4>1. op[h] \in [kind : {"announce", "link"}, resignation : Resignations, case : Cases]
          BY <2>4 DEF TypeOK, Ops, Idle, Announce
        <4>2. [op[h] EXCEPT !.kind = "link"]
                  \in [kind : {"announce", "link"}, resignation : Resignations, case : Cases]
          BY <4>1
        <4>3. QED
          BY <4>2 DEF Ops
      <3>2. QED
        BY <2>4, <3>1 DEF TypeOK, Announce, Continue
    <2>5. QED
      BY <1>9, <2>2, <2>3, <2>4
  <1>10. ASSUME NEW h \in Requests, DecideWithout(h)
         PROVE  TypeOK'
    <2>1. op[h].resignation \in Resignations
      BY <1>10, Snapshots DEF TypeOK, DecideWithout
    <2>2. [kind |-> "answer", resignation |-> op[h].resignation, answer |-> "APPROVED"] \in Ops
      BY <2>1 DEF Ops
    <2>3. QED
      BY <1>10, <2>1, <2>2
      DEF TypeOK, DecideWithout, Continue, Fell, Windows, ResignationRows, ResignationStatuses
  <1>11. ASSUME NEW h \in Requests, NEW c \in Cases,
                NEW r \in Resignations \cup {NoResignation}, CancelFrom(h, c, r)
         PROVE  TypeOK'
    <2>1. [kind |-> "cancel", case |-> c, open |-> c \in OpenCases, answers |-> r] \in Ops
      BY DEF Ops
    <2>2. QED
      BY <1>11, <2>1 DEF TypeOK, CancelFrom, Continue
  <1>12. ASSUME NEW h \in Requests, DecideCancel(h)
         PROVE  TypeOK'
    <2>1. op[h].resignation \in Resignations /\ op[h].case \in Cases
      BY <1>12, Snapshots DEF TypeOK, DecideCancel
    <2>2. QED
      BY <1>11, <1>12, <2>1 DEF DecideCancel
  <1>13. ASSUME NEW h \in Requests, Answer(h)
         PROVE  TypeOK'
    <2>1. op[h].resignation \in Resignations /\ op[h].answer \in {"APPROVED", "DECLINED"}
      BY <1>13, Snapshots DEF TypeOK, Answer
    <2>2. QED
      BY <1>13, <2>1 DEF TypeOK, Answer, Finish, ResignationRows, WithdrawalStatuses
  <1>14. ASSUME NEW h \in Requests, NEW c \in Cases,
                ChecklistRead(h, c) \/ CompleteRead(h, c) \/ CancelRead(h, c)
         PROVE  TypeOK'
    <2>1. [kind |-> "checklist", case |-> c, status |-> exit[c].status] \in Ops
          /\ [kind |-> "complete", case |-> c] \in Ops
      BY DEF TypeOK, Ops, CaseRows
    <2>2. CASE CancelRead(h, c)
      BY <1>11, <2>2 DEF CancelRead
    <2>3. CASE ChecklistRead(h, c) \/ CompleteRead(h, c)
      BY <2>1, <2>3 DEF TypeOK, ChecklistRead, CompleteRead, Start
    <2>4. QED
      BY <1>14, <2>2, <2>3
  <1>15. ASSUME NEW h \in Requests, NEW done \in BOOLEAN, ChecklistCommit(h, done)
         PROVE  TypeOK'
    <2>1. op[h].case \in Cases
      BY <1>15, Snapshots DEF TypeOK, ChecklistCommit
    <2>2. exit' \in [Cases -> CaseRows]
      BY <1>15, <2>1 DEF TypeOK, ChecklistCommit, CaseRows, CaseStatuses
    <2>3. QED
      BY <1>15, <2>2 DEF TypeOK, ChecklistCommit, Finish, Fell, Windows
  <1>16. ASSUME NEW h \in Requests, NEW c \in Cases, NEW d \in LastDays, MoveRead(h, c, d)
         PROVE  TypeOK'
    <2>1. [kind |-> "move", case |-> c, lwd |-> d, linked |-> exit[c].linked] \in Ops
      BY DEF TypeOK, CaseRows, Ops
    <2>2. QED
      BY <1>16, <2>1 DEF TypeOK, MoveRead, Start
  <1>17. ASSUME NEW h \in Requests, MoveCommit(h)
         PROVE  TypeOK'
    <2>1. op[h].case \in Cases /\ op[h].lwd \in Days
      BY <1>17, Snapshots DEF TypeOK, MoveCommit
    <2>2. exit' \in [Cases -> CaseRows]
      BY <1>17, <2>1 DEF TypeOK, MoveCommit, CaseRows
    <2>5. employee' \in EmployeeRow
      BY <1>17, <2>1 DEF TypeOK, MoveCommit, EmployeeRow
    <2>3. resignation' \in [Resignations -> ResignationRows]
      BY <1>17, <2>1 DEF TypeOK, MoveCommit, ResignationRows
    <2>4. QED
      BY <1>17, <2>2, <2>3, <2>5 DEF TypeOK, MoveCommit, Finish, Windows
  <1>18. ASSUME NEW h \in Requests, CompleteCommit(h)
         PROVE  TypeOK'
    <2>1. op[h].case \in Cases
      BY <1>18, Snapshots DEF TypeOK, CompleteCommit
    <2>2. exit[op[h].case].ends \in EmploymentStatuses
      BY <2>1 DEF TypeOK, CaseRows, EmploymentStatuses
    <2>3. exit' \in [Cases -> CaseRows]
      BY <1>18, <2>1 DEF TypeOK, CompleteCommit, CaseRows, CaseStatuses
    <2>4. employee' \in EmployeeRow
      BY <1>18, <2>2 DEF TypeOK, CompleteCommit, EmployeeRow
    <2>5. QED
      BY <1>18, <2>3, <2>4 DEF TypeOK, CompleteCommit, Finish, Fell, Windows
  <1>19. ASSUME NEW h \in Requests, CancelCommit(h)
         PROVE  TypeOK'
    <2>1. op[h].case \in Cases /\ op[h].answers \in Resignations \cup {NoResignation}
      BY <1>19, Snapshots DEF TypeOK, CancelCommit
    <2>2. exit' \in [Cases -> CaseRows]
      BY <1>19, <2>1 DEF TypeOK, CancelCommit, CaseRows, CaseStatuses
    <2>3. StatusRestored(op[h]) \in EmploymentStatuses
      BY <2>1 DEF TypeOK, StatusRestored, CaseRows, EmployeeRow
    <2>4. employee' \in EmployeeRow
      BY <1>19, <2>3 DEF TypeOK, CancelCommit, EmployeeRow
    <2>5. ClosedWith(op[h]) \in [Resignations -> ResignationRows]
      BY DEF TypeOK, ClosedWith, ResignationRows, ResignationStatuses
    <2>6. resignation' \in [Resignations -> ResignationRows]
      BY <1>19, <2>5 DEF TypeOK, CancelCommit
    <2>7. op' \in [Requests -> Ops]
      <3>1. CASE op[h].answers = NoResignation
        BY <1>19, <3>1 DEF TypeOK, CancelCommit, Finish
      <3>2. CASE op[h].answers # NoResignation
        <4>1. [kind |-> "answer", resignation |-> op[h].answers, answer |-> "APPROVED"] \in Ops
          BY <2>1, <3>2 DEF Ops
        <4>2. QED
          BY <1>19, <3>2, <4>1 DEF TypeOK, CancelCommit, Continue
      <3>3. QED
        BY <3>1, <3>2
    <2>8. QED
      BY <1>19, <2>2, <2>4, <2>6, <2>7 DEF TypeOK, CancelCommit, Windows
  <1>20. ASSUME NEW h \in Requests, GiveUp(h)
         PROVE  TypeOK'
    BY <1>20 DEF TypeOK, GiveUp, Finish, Fell, Windows
  <1>21. ASSUME NEW r \in Resignations,
                \/ \E status \in {"WITHDRAWN", "REJECTED"} : Close(r, status)
                \/ RequestWithdrawal(r)
         PROVE  TypeOK'
    BY <1>21 DEF TypeOK, Close, RequestWithdrawal, ResignationRows,
                 ResignationStatuses, WithdrawalStatuses
  <1>22. ASSUME NEW d \in LastDays, Calculate(d)
         PROVE  TypeOK'
    BY <1>22, LinkedTyped DEF TypeOK, Calculate
  <1>23. ASSUME NEW h \in Requests, NEW c \in Cases, SweepRead(h, c) \/ LinkRead(h, c)
         PROVE  TypeOK'
    <2>1. /\ [kind |-> "sweep", case |-> c, lwd |-> exit[c].lwd] \in Ops
          /\ [kind |-> "attach", case |-> c] \in Ops
      BY DEF TypeOK, CaseRows, Ops
    <2>2. QED
      BY <1>23, <2>1 DEF TypeOK, SweepRead, LinkRead, Start
  <1>28. ASSUME NEW h \in Requests, DraftCommit(h)
         PROVE  TypeOK'
    <2>1. op[h].case \in Cases /\ op[h].lwd \in Days
      BY <1>28, Snapshots DEF TypeOK, DraftCommit
    <2>2. LinkedTo(op[h].lwd) \in [Cases -> CaseRows] /\ Drafted(op[h].lwd) \in SettlementRows
      BY <2>1, LinkedTyped
    <2>3. [kind |-> "attach", case |-> op[h].case] \in Ops
      BY <2>1 DEF Ops
    <2>4. QED
      BY <1>28, <2>2, <2>3 DEF TypeOK, DraftCommit, Continue
  <1>29. ASSUME NEW h \in Requests, AttachCommit(h)
         PROVE  TypeOK'
    <2>1. op[h].case \in Cases
      BY <1>29, Snapshots DEF TypeOK, AttachCommit
    <2>2. exit' \in [Cases -> CaseRows]
      <3>1. exit' = [exit EXCEPT ![op[h].case] = [exit[op[h].case] EXCEPT !.linked = TRUE]]
        BY <1>29 DEF AttachCommit
      <3>2. [exit[op[h].case] EXCEPT !.linked = TRUE] \in CaseRows
        BY <2>1, LinkTyped DEF TypeOK
      <3>3. QED
        BY <3>1, <3>2 DEF TypeOK
    <2>3. QED
      BY <1>29, <2>2 DEF TypeOK, AttachCommit, Finish
  <1>24. ASSUME Process \/ Reverse \/ MarkPaid \/ DiscardDraft
         PROVE  TypeOK'
    <2>1. CASE Process
      BY <2>1 DEF TypeOK, Process, OpenCases, SettlementRows, SettlementStatuses, Windows
    <2>2. CASE Reverse \/ MarkPaid
      BY <2>2 DEF TypeOK, Reverse, MarkPaid, SettlementRows, SettlementStatuses
    <2>3. CASE DiscardDraft
      <3>1. exit' \in [Cases -> CaseRows]
        BY <2>3, LinkTyped DEF TypeOK, DiscardDraft
      <3>2. settlement' \in SettlementRows
        BY <2>3 DEF DiscardDraft, NoSettlement, SettlementRows, SettlementStatuses
      <3>3. op' \in [Requests -> Ops]
        BY <2>3 DEF TypeOK, DiscardDraft
      <3>4. QED
        BY <2>3, <3>1, <3>2, <3>3 DEF TypeOK, DiscardDraft
    <2>4. QED
      BY <1>24, <2>1, <2>2, <2>3
  <1>25. ASSUME Reinstate \/ NextDay
         PROVE  TypeOK'
    <2>1. CASE Reinstate
      <3>1. employee' \in EmployeeRow
        BY <2>1 DEF Reinstate, EmployeeRow, EmploymentStatuses
      <3>2. QED
        BY <2>1, <3>1 DEF TypeOK, Reinstate
    <2>2. CASE NextDay
      <3>1. today' \in Days
        BY <2>2 DEF TypeOK, NextDay, Days
      <3>2. QED
        BY <2>2, <3>1 DEF TypeOK, NextDay
    <2>3. QED
      BY <1>25, <2>1, <2>2
  <1>26. CASE UNCHANGED vars
    BY <1>26 DEF TypeOK, vars
  <1>27. QED
    BY <1>1, <1>2, <1>3, <1>4, <1>5, <1>6, <1>7, <1>8, <1>9, <1>10, <1>12, <1>13, <1>14,
       <1>15, <1>16, <1>17, <1>18, <1>19, <1>20, <1>21, <1>22, <1>23, <1>24, <1>25, <1>26,
       <1>28, <1>29
    DEF Next

\* Rows and snapshots keep the values the schema allows.
THEOREM TypeCorrect == Spec => []TypeOK
  BY TypeInit, TypeStep, PTL DEF Spec

-----------------------------------------------------------------------------
(* Steps *)

\* The steps of a handler that only read.
Look(h) ==
    \/ \E r \in Resignations : SubmitRead(h, r)
    \/ \E r \in Resignations, approve \in BOOLEAN : DecideRead(h, r, approve)
    \/ \E d \in LastDays, type \in ExitTypes : InitiateRead(h, d, type)
    \/ \E c \in Cases, d \in LastDays : MoveRead(h, c, d)
    \/ \E c \in Cases : \/ SweepRead(h, c) \/ LinkRead(h, c) \/ ChecklistRead(h, c)
                        \/ CompleteRead(h, c) \/ CancelRead(h, c)
    \/ ApproveInitiate(h) \/ Announce(h) \/ PrepareRead(h) \/ SweepLook(h) \/ DecideCancel(h)

LEMMA LooksOnly ==
    ASSUME NEW h \in Requests, Look(h)
    PROVE  UNCHANGED <<resignation, exit, settlement, employee, today, races>>
  <1>1. CASE \/ \E r \in Resignations : SubmitRead(h, r)
             \/ \E r \in Resignations, approve \in BOOLEAN : DecideRead(h, r, approve)
             \/ \E d \in LastDays, type \in ExitTypes : InitiateRead(h, d, type)
             \/ \E c \in Cases, d \in LastDays : MoveRead(h, c, d)
    BY <1>1 DEF SubmitRead, DecideRead, InitiateRead, MoveRead
  <1>2. CASE \E c \in Cases : \/ SweepRead(h, c) \/ LinkRead(h, c) \/ ChecklistRead(h, c)
                              \/ CompleteRead(h, c) \/ CancelRead(h, c)
    BY <1>2 DEF SweepRead, LinkRead, ChecklistRead, CompleteRead, CancelRead, CancelFrom
  <1>3. CASE \/ ApproveInitiate(h) \/ Announce(h) \/ PrepareRead(h) \/ SweepLook(h)
             \/ DecideCancel(h)
    BY <1>3 DEF ApproveInitiate, Announce, PrepareRead, SweepLook, DecideCancel, CancelFrom
  <1>4. QED
    BY <1>1, <1>2, <1>3 DEF Look

\* What a handler does next: look, or write.
HandlerStep(h) ==
    \/ Look(h)
    \/ \E r \in Resignations, d \in LastDays : ApproveFlip(h, r, d)
    \/ SubmitCommit(h) \/ ApproveRevert(h)
    \/ \E c \in Cases : InitiateCommit(h, c)
    \/ LinkCase(h) \/ DraftCommit(h) \/ AttachCommit(h)
    \/ DecideWithout(h) \/ Answer(h)
    \/ \E done \in BOOLEAN : ChecklistCommit(h, done)
    \/ MoveCommit(h) \/ CompleteCommit(h) \/ CancelCommit(h) \/ GiveUp(h)

\* The steps without a handler of their own.
FreeStep ==
    \/ \E r \in Resignations :
          (\E status \in {"WITHDRAWN", "REJECTED"} : Close(r, status)) \/ RequestWithdrawal(r)
    \/ \E d \in LastDays : Calculate(d)
    \/ Process \/ Reverse \/ MarkPaid \/ DiscardDraft \/ Reinstate \/ NextDay

LEMMA Steps == [Next]_vars => FreeStep \/ UNCHANGED vars \/ \E h \in Requests : HandlerStep(h)
  <1>1. Next => FreeStep \/ \E h \in Requests : HandlerStep(h)
    BY DEF Next, FreeStep, HandlerStep, Look
  <1>2. QED
    BY <1>1

\* A window, once fallen into, is never climbed out of.
LEMMA RacesGrow == TypeOK /\ [Next]_vars => races \subseteq races'
  <1> SUFFICES ASSUME TypeOK, [Next]_vars PROVE races \subseteq races'
    OBVIOUS
  <1>1. ASSUME NEW h \in Requests, HandlerStep(h) PROVE races \subseteq races'
    <2>1. CASE Look(h)
      BY <2>1, LooksOnly
    <2>2. CASE \/ \E r \in Resignations, d \in LastDays : ApproveFlip(h, r, d)
               \/ SubmitCommit(h) \/ ApproveRevert(h) \/ (\E c \in Cases : InitiateCommit(h, c))
               \/ LinkCase(h) \/ DraftCommit(h) \/ AttachCommit(h)
      BY <2>2 DEF ApproveFlip, SubmitCommit, ApproveRevert, InitiateCommit, LinkCase,
                  DraftCommit, AttachCommit, Fell
    <2>3. CASE \/ DecideWithout(h) \/ Answer(h)
               \/ \E done \in BOOLEAN : ChecklistCommit(h, done)
               \/ MoveCommit(h) \/ CompleteCommit(h) \/ CancelCommit(h) \/ GiveUp(h)
      BY <2>3 DEF DecideWithout, Answer, ChecklistCommit, MoveCommit, CompleteCommit,
                  CancelCommit, GiveUp, Fell
    <2>4. QED
      BY <1>1, <2>1, <2>2, <2>3 DEF HandlerStep
  <1>2. ASSUME FreeStep PROVE races \subseteq races'
    BY <1>2 DEF FreeStep, Close, RequestWithdrawal, Calculate, Process, Reverse, MarkPaid,
                DiscardDraft, Reinstate, NextDay
  <1>3. QED
    BY <1>1, <1>2, Steps DEF vars

\* The snapshot a handler's step leaves, by the kind of step.
LEMMA HandlerSnapshot ==
    ASSUME TypeOK, NEW h \in Requests, HandlerStep(h)
    PROVE  /\ \A g \in Requests \ {h} : op'[g] = op[g]
           /\ op'[h].kind = "initiate" =>
                  ApproveInitiate(h) \/ \E d \in LastDays, type \in ExitTypes : InitiateRead(h, d, type)
           /\ op'[h].kind = "approve" =>
                  \E r \in Resignations, d \in LastDays : ApproveFlip(h, r, d)
           /\ op'[h].kind = "announce" => \E c \in Cases : InitiateCommit(h, c)
           /\ op'[h].kind = "link" => Announce(h)
           /\ op'[h].kind = "answer" =>
                  \/ DecideWithout(h) \/ CancelCommit(h)
                  \/ op'[h].answer = "DECLINED"
           /\ op'[h].kind = "decide" => \E r \in Resignations : DecideRead(h, r, TRUE)
           /\ op'[h].kind = "cancel" => DecideCancel(h) \/ \E c \in Cases : CancelRead(h, c)
  <1>1. CASE \E r \in Resignations : SubmitRead(h, r)
    BY <1>1 DEF TypeOK, SubmitRead, Start
  <1>2. CASE \E r \in Resignations, d \in LastDays : ApproveFlip(h, r, d)
    <2>1. op'[h].kind = "approve" /\ \A g \in Requests \ {h} : op'[g] = op[g]
      BY <1>2 DEF TypeOK, ApproveFlip, Start
    <2>2. QED
      BY <1>2, <2>1
  <1>3. CASE ApproveInitiate(h)
    BY <1>3 DEF TypeOK, ApproveInitiate, Continue
  <1>4. CASE \E d \in LastDays, type \in ExitTypes : InitiateRead(h, d, type)
    <2>1. op'[h].kind = "initiate" /\ \A g \in Requests \ {h} : op'[g] = op[g]
      BY <1>4 DEF TypeOK, InitiateRead, Start
    <2>2. QED
      BY <1>4, <2>1
  <1>5. CASE \E c \in Cases : InitiateCommit(h, c)
    <2>1. op'[h].kind \in {"announce", "idle"} /\ \A g \in Requests \ {h} : op'[g] = op[g]
      BY <1>5 DEF TypeOK, InitiateCommit, Continue, Finish, Idle
    <2>2. QED
      BY <1>5, <2>1
  <1>6. CASE LinkCase(h) \/ DecideWithout(h)
    <2>1. /\ \A g \in Requests \ {h} : op'[g] = op[g]
          /\ op'[h].kind = "prepare" \/ (op'[h].kind = "answer" /\ DecideWithout(h))
      BY <1>6 DEF TypeOK, LinkCase, DecideWithout, Continue
    <2>2. QED
      BY <2>1
  <1>7. CASE DecideCancel(h)
    <2>1. op'[h].kind = "cancel" /\ \A g \in Requests \ {h} : op'[g] = op[g]
      BY <1>7 DEF TypeOK, DecideCancel, CancelFrom, Continue
    <2>2. QED
      BY <1>7, <2>1
  <1>8. CASE \E c \in Cases : ChecklistRead(h, c) \/ CompleteRead(h, c)
    <2>1. op'[h].kind \in {"checklist", "complete"} /\ \A g \in Requests \ {h} : op'[g] = op[g]
      BY <1>8 DEF TypeOK, ChecklistRead, CompleteRead, Start
    <2>2. QED
      BY <2>1
  <1>9. CASE \E c \in Cases : CancelRead(h, c)
    <2>1. op'[h].kind = "cancel" /\ \A g \in Requests \ {h} : op'[g] = op[g]
      BY <1>9 DEF TypeOK, CancelRead, CancelFrom, Continue
    <2>2. QED
      BY <1>9, <2>1
  <1>10. CASE \E c \in Cases, d \in LastDays : MoveRead(h, c, d)
    BY <1>10 DEF TypeOK, MoveRead, Start
  <1>11. CASE CancelCommit(h)
    <2>1. op'[h].kind \in {"answer", "idle"} /\ \A g \in Requests \ {h} : op'[g] = op[g]
      BY <1>11 DEF TypeOK, CancelCommit, Continue, Finish, Idle
    <2>2. QED
      BY <1>11, <2>1
  <1>12. CASE \/ SubmitCommit(h) \/ ApproveRevert(h) \/ Answer(h) \/ AttachCommit(h)
              \/ \E done \in BOOLEAN : ChecklistCommit(h, done)
              \/ MoveCommit(h) \/ CompleteCommit(h) \/ GiveUp(h)
    <2>1. Finish(h)
      BY <1>12 DEF SubmitCommit, ApproveRevert, Answer, AttachCommit,
                   ChecklistCommit, MoveCommit, CompleteCommit, GiveUp
    <2>2. QED
      BY <2>1 DEF TypeOK, Finish, Idle
  <1>13. CASE \E r \in Resignations, approve \in BOOLEAN : DecideRead(h, r, approve)
    <2>1. PICK r \in Resignations, approve \in BOOLEAN : DecideRead(h, r, approve)
      BY <1>13
    <2>2. CASE approve
      <3>1. op'[h].kind = "decide" /\ \A g \in Requests \ {h} : op'[g] = op[g]
        BY <2>1, <2>2 DEF TypeOK, DecideRead, Start
      <3>2. DecideRead(h, r, TRUE)
        BY <2>1, <2>2
      <3>3. QED
        BY <3>1, <3>2
    <2>3. CASE ~approve
      BY <2>1, <2>3 DEF TypeOK, DecideRead, Start
    <2>4. QED
      BY <2>2, <2>3
  <1>14. CASE Announce(h)
    <2>1. op'[h] = [op[h] EXCEPT !.kind = "link"] /\ \A g \in Requests \ {h} : op'[g] = op[g]
      BY <1>14 DEF TypeOK, Announce, Continue
    <2>2. op[h] \in [kind : {"announce", "link"}, resignation : Resignations, case : Cases]
      BY <1>14 DEF TypeOK, Ops, Idle, Announce
    <2>3. op'[h].kind = "link"
      BY <2>1, <2>2
    <2>4. QED
      BY <1>14, <2>1, <2>3
  <1>15. CASE PrepareRead(h)
    <2>1. op'[h].kind \in {"draft", "idle"} /\ \A g \in Requests \ {h} : op'[g] = op[g]
      BY <1>15 DEF TypeOK, PrepareRead, Continue, Finish, Idle
    <2>2. QED
      BY <2>1
  <1>16. CASE \E c \in Cases : SweepRead(h, c) \/ LinkRead(h, c)
    <2>1. op'[h].kind \in {"sweep", "attach"} /\ \A g \in Requests \ {h} : op'[g] = op[g]
      BY <1>16 DEF TypeOK, SweepRead, LinkRead, Start
    <2>2. QED
      BY <2>1
  <1>17. CASE SweepLook(h)
    <2>1. op[h] \in [kind : {"sweep", "draft"}, case : Cases, lwd : Days]
      BY <1>17 DEF TypeOK, Ops, Idle, SweepLook
    <2>2. op'[h].kind \in {"attach", "draft"} /\ \A g \in Requests \ {h} : op'[g] = op[g]
      BY <1>17, <2>1 DEF TypeOK, SweepLook, Continue
    <2>3. QED
      BY <2>2
  <1>18. CASE DraftCommit(h)
    BY <1>18 DEF TypeOK, DraftCommit, Continue
  <1>19. QED
    BY <1>1, <1>2, <1>3, <1>4, <1>5, <1>6, <1>7, <1>8, <1>9, <1>10, <1>11, <1>12, <1>13,
       <1>14, <1>15, <1>16, <1>17, <1>18
    DEF HandlerStep, Look

\* A new snapshot is the handler's own doing, but for the links refused when the
\* settlement is discarded.
LEMMA NewOp ==
    ASSUME TypeOK, [Next]_vars, NEW h \in Requests, op'[h] # op[h]
    PROVE  \/ HandlerStep(h)
           \/ DiscardDraft /\ op[h].kind = "attach" /\ op'[h] = Idle
  <1>1. CASE FreeStep
    <2>1. DiscardDraft
      BY <1>1 DEF FreeStep, Close, RequestWithdrawal, Calculate, Process, Reverse, MarkPaid,
                  Reinstate, NextDay
    <2>2. QED
      BY <2>1 DEF TypeOK, DiscardDraft
  <1>2. CASE UNCHANGED vars
    BY <1>2 DEF vars
  <1>3. CASE \E g \in Requests : HandlerStep(g)
    BY <1>3, HandlerSnapshot
  <1>4. QED
    BY <1>1, <1>2, <1>3, Steps

\* A snapshot that is more than idle is the handler's own.
LEMMA OwnOp ==
    ASSUME TypeOK, [Next]_vars, NEW h \in Requests, op'[h] # op[h], op'[h].kind # "idle"
    PROVE  HandlerStep(h)
  BY NewOp DEF Idle

\* The calculations of a settlement: drafts are written and linked.
Calculation ==
    \/ \E h \in Requests : DraftCommit(h) \/ AttachCommit(h)
    \/ \E d \in LastDays : Calculate(d)

\* The other steps that write an exit or the settlement.
Touch ==
    \/ Calculation
    \/ \E h \in Requests :
          \/ \E c \in Cases : InitiateCommit(h, c)
          \/ \E done \in BOOLEAN : ChecklistCommit(h, done)
          \/ MoveCommit(h) \/ CompleteCommit(h) \/ CancelCommit(h)
    \/ Process \/ Reverse \/ MarkPaid \/ DiscardDraft

LEMMA Untouched == [Next]_vars => Touch \/ UNCHANGED <<exit, settlement>>
  <1> SUFFICES ASSUME [Next]_vars, ~Touch PROVE UNCHANGED <<exit, settlement>>
    OBVIOUS
  <1>1. ASSUME NEW h \in Requests, HandlerStep(h) PROVE UNCHANGED <<exit, settlement>>
    <2>1. CASE Look(h)
      BY <2>1, LooksOnly
    <2>2. CASE \/ \E r \in Resignations, d \in LastDays : ApproveFlip(h, r, d)
               \/ SubmitCommit(h) \/ ApproveRevert(h) \/ LinkCase(h) \/ DecideWithout(h)
               \/ Answer(h) \/ GiveUp(h)
      BY <2>2 DEF ApproveFlip, SubmitCommit, ApproveRevert, LinkCase, DecideWithout, Answer,
                  GiveUp
    <2>3. QED
      BY <1>1, <2>1, <2>2 DEF HandlerStep, Touch, Calculation
  <1>2. ASSUME FreeStep PROVE UNCHANGED <<exit, settlement>>
    BY <1>2 DEF FreeStep, Touch, Calculation, Close, RequestWithdrawal, Reinstate, NextDay
  <1>3. QED
    BY <1>1, <1>2, Steps DEF vars

\* Links are added, and a settlement that is processed is left alone.
LEMMA Calculated ==
    ASSUME TypeOK, Calculation
    PROVE  /\ \A c \in Cases : \/ exit'[c] = exit[c]
                               \/ exit'[c] = [exit[c] EXCEPT !.linked = TRUE]
           /\ \/ settlement' = settlement
              \/ ~Settled /\ settlement'.status = "DRAFT"
           /\ UNCHANGED <<resignation, employee, today, races>>
  <1>1. ASSUME NEW d \in Days
        PROVE  \A c \in Cases : \/ LinkedTo(d)[c] = exit[c]
                                \/ LinkedTo(d)[c] = [exit[c] EXCEPT !.linked = TRUE]
    BY DEF LinkedTo
  <1>2. ASSUME NEW d \in Days PROVE Drafted(d).status = "DRAFT"
    BY DEF TypeOK, SettlementRows, Drafted
  <1>3. ASSUME NEW h \in Requests, DraftCommit(h)
        PROVE  /\ \A c \in Cases : \/ exit'[c] = exit[c]
                                   \/ exit'[c] = [exit[c] EXCEPT !.linked = TRUE]
               /\ ~Settled /\ settlement'.status = "DRAFT"
    <2>1. op[h].lwd \in Days
      BY <1>3, Snapshots DEF TypeOK, DraftCommit
    <2>2. exit' = LinkedTo(op[h].lwd) /\ settlement' = Drafted(op[h].lwd) /\ ~Settled
      BY <1>3 DEF DraftCommit, Calculable
    <2>3. QED
      BY <1>1, <1>2, <2>1, <2>2
  <1>4. ASSUME NEW d \in LastDays, Calculate(d)
        PROVE  /\ \A c \in Cases : \/ exit'[c] = exit[c]
                                   \/ exit'[c] = [exit[c] EXCEPT !.linked = TRUE]
               /\ ~Settled /\ settlement'.status = "DRAFT"
    BY <1>1, <1>2, <1>4, DaysTyped DEF Calculate, Calculable
  <1>5. ASSUME NEW h \in Requests, AttachCommit(h)
        PROVE  /\ \A c \in Cases : \/ exit'[c] = exit[c]
                                   \/ exit'[c] = [exit[c] EXCEPT !.linked = TRUE]
               /\ settlement' = settlement
    BY <1>5 DEF TypeOK, AttachCommit
  <1>6. UNCHANGED <<resignation, employee, today, races>>
    BY DEF Calculation, DraftCommit, AttachCommit, Calculate
  <1>7. QED
    BY <1>3, <1>4, <1>5, <1>6 DEF Calculation

-----------------------------------------------------------------------------
(* Nobody leaves unpaid *)

LEMMA UnpaidStep ==
    ASSUME TypeOK, TypeOK', NobodyLeavesUnpaid, [Next]_vars
    PROVE  NobodyLeavesUnpaid'
  <1> SUFFICES ASSUME races' \cap {"complete", "move"} = {},
                      NEW c \in Cases, exit'[c].status = "COMPLETED"
               PROVE  /\ settlement'.status = "PAID" /\ exit'[c].linked
                      /\ settlement'.lwd = exit'[c].lwd
    BY DEF NobodyLeavesUnpaid
  <1>1. races \cap {"complete", "move"} = {}
    BY RacesGrow
  <1>2. exit[c].status = "COMPLETED" =>
            /\ settlement.status = "PAID" /\ exit[c].linked
            /\ settlement.lwd = exit[c].lwd
    BY <1>1 DEF NobodyLeavesUnpaid
  <1>3. exit \in [Cases -> CaseRows] /\ exit[c] \in CaseRows
    BY DEF TypeOK
  <1>4. CASE UNCHANGED <<exit, settlement>>
    BY <1>2, <1>4
  <1>5. CASE Calculation
    <2>1. exit'[c] = exit[c] \/ exit'[c] = [exit[c] EXCEPT !.linked = TRUE]
      BY <1>5, Calculated
    <2>2. exit[c].status = "COMPLETED" /\ exit'[c].lwd = exit[c].lwd
          /\ (exit[c].linked => exit'[c].linked)
      BY <1>3, <2>1 DEF CaseRows
    <2>3. settlement' = settlement
      BY <1>2, <1>5, <2>2, Calculated DEF Settled
    <2>4. QED
      BY <1>2, <2>2, <2>3
  <1>6. ASSUME NEW h \in Requests, NEW k \in Cases, InitiateCommit(h, k)
        PROVE  exit'[c] = exit[c] /\ settlement' = settlement
    BY <1>3, <1>6 DEF InitiateCommit
  <1>7. ASSUME NEW h \in Requests, NEW done \in BOOLEAN, ChecklistCommit(h, done)
        PROVE  /\ exit[c].status = "COMPLETED" /\ settlement' = settlement
               /\ exit'[c].linked = exit[c].linked /\ exit'[c].lwd = exit[c].lwd
    <2>1. op[h].case \in Cases
      BY <1>7, Snapshots DEF TypeOK, ChecklistCommit
    <2>2. QED
      BY <1>3, <1>7, <2>1 DEF ChecklistCommit, CaseRows
  <1>8. ASSUME NEW h \in Requests, MoveCommit(h)
        PROVE  exit'[c] = exit[c] /\ settlement' = settlement
    <2>1. op[h].case \in OpenCases
      BY <1>8 DEF MoveCommit
    <2>2. exit[op[h].case].status # "COMPLETED" /\ op[h].case \in Cases
      BY <2>1 DEF OpenCases
    <2>3. QED
      BY <1>3, <1>8, <2>2 DEF MoveCommit, CaseRows
  <1>9. ASSUME NEW h \in Requests, CompleteCommit(h)
        PROVE  /\ settlement' = settlement
               /\ exit'[c] = exit[c] \/ (Ready(c) /\ exit'[c] = [exit[c] EXCEPT !.status = "COMPLETED"])
    BY <1>3, <1>9 DEF CompleteCommit, Fell
  <1>10. ASSUME NEW h \in Requests, CancelCommit(h)
         PROVE  exit'[c] = exit[c] /\ settlement' = settlement
    <2>1. op[h].case \in Cases
      BY <1>10, Snapshots DEF TypeOK, CancelCommit
    <2>2. QED
      BY <1>3, <1>10, <2>1 DEF CancelCommit, CaseRows
  <1>11. ASSUME Process \/ Reverse \/ MarkPaid \/ DiscardDraft
         PROVE  exit[c].status # "COMPLETED" /\ exit'[c].status = exit[c].status
    <2>1. exit'[c].status = exit[c].status
      <3>1. CASE DiscardDraft
        BY <1>3, <3>1 DEF DiscardDraft, CaseRows
      <3>2. CASE Process \/ Reverse \/ MarkPaid
        BY <3>2 DEF Process, Reverse, MarkPaid
      <3>3. QED
        BY <1>11, <3>1, <3>2
    <2>2. settlement.status # "PAID"
      BY <1>11 DEF Process, Reverse, MarkPaid, DiscardDraft
    <2>3. QED
      BY <1>2, <2>1, <2>2
  <1>12. CASE Touch
    <2>1. CASE \E h \in Requests : CompleteCommit(h)
      BY <1>2, <1>3, <1>9, <2>1 DEF Ready, CaseRows
    <2>2. CASE \E h \in Requests : \E done \in BOOLEAN : ChecklistCommit(h, done)
      BY <1>2, <1>7, <2>2
    <2>3. QED
      BY <1>2, <1>5, <1>6, <1>8, <1>10, <1>11, <1>12, <2>1, <2>2 DEF Touch
  <1>13. QED
    BY <1>4, <1>12, Untouched

\* An account is closed only by an exit whose settlement, of the same last working
\* day, was paid, and that settlement stays paid (complete, reverse).
THEOREM NobodyLeavesUnpaidCorrect == Spec => []NobodyLeavesUnpaid
  <1>1. Init => NobodyLeavesUnpaid
    BY DEF Init, NobodyLeavesUnpaid
  <1>2. TypeOK /\ TypeOK' /\ NobodyLeavesUnpaid /\ [Next]_vars => NobodyLeavesUnpaid'
    BY UnpaidStep
  <1>3. QED
    BY <1>1, <1>2, TypeCorrect, PTL DEF Spec

-----------------------------------------------------------------------------
(* A settled exit stands *)

\* The exit that was settled is linked to its settlement, and nobody in flight is
\* about to call it off.
ExitHeld ==
    races \cap {"cancel", "stale", "move"} = {} /\ Settled /\ settlement.of # NoCase =>
        /\ exit[settlement.of].linked
        /\ exit[settlement.of].status \notin {"NONE", "CANCELLED"}
        /\ \A h \in InFlight({"cancel"}) : op[h].case # settlement.of

\* A cancellation comes into flight where cancel let it through, and at no other
\* moment.
LEMMA NewCancel ==
    ASSUME TypeOK, [Next]_vars, NEW h \in Requests, op'[h].kind = "cancel"
    PROVE  \/ op'[h] = op[h]
           \/ /\ op'[h].case \in Cases /\ Cancellable(op'[h].case)
              /\ op'[h].open = (op'[h].case \in OpenCases)
              /\ \/ op'[h].answers = NoResignation
                 \/ /\ op[h].kind = "decide" /\ op'[h].case = op[h].case
                    /\ op'[h].answers = op[h].resignation
              /\ UNCHANGED <<resignation, exit, settlement, employee, races>>
  <1>1. ASSUME NEW c \in Cases, NEW r \in Resignations \cup {NoResignation}, CancelFrom(h, c, r)
        PROVE  /\ op'[h].case = c /\ op'[h].answers = r
               /\ Cancellable(c) /\ op'[h].open = (c \in OpenCases)
               /\ UNCHANGED <<resignation, exit, settlement, employee, races>>
    BY <1>1 DEF TypeOK, CancelFrom, Continue
  <1>2. CASE \E c \in Cases : CancelRead(h, c)
    BY <1>1, <1>2 DEF CancelRead
  <1>3. CASE DecideCancel(h)
    <2>1. op[h].kind = "decide" /\ op[h].case \in Cases /\ op[h].resignation \in Resignations
      BY <1>3, Snapshots DEF TypeOK, DecideCancel
    <2>2. QED
      BY <1>1, <1>3, <2>1 DEF DecideCancel
  <1>4. QED
    <2>1. CASE op'[h] = op[h]
      BY <2>1
    <2>2. CASE op'[h] # op[h]
      <3>1. HandlerStep(h)
        BY <2>2, OwnOp
      <3>2. DecideCancel(h) \/ \E c \in Cases : CancelRead(h, c)
        BY <3>1, HandlerSnapshot
      <3>3. QED
        BY <1>2, <1>3, <3>2
    <2>3. QED
      BY <2>1, <2>2

\* A cancellation that finds the exit held was in flight before.
LEMMA HeldStep ==
    ASSUME TypeOK, TypeOK', ExitHeld, [Next]_vars
    PROVE  ExitHeld'
  <1> DEFINE c == settlement.of
  <1> DEFINE Quiet == races \cap {"cancel", "stale", "move"} = {}
  <1> DEFINE Held == exit[c].linked /\ exit[c].status \notin {"NONE", "CANCELLED"}
  <1> SUFFICES ASSUME Quiet', Settled', c' # NoCase
               PROVE  /\ exit'[c'].linked /\ exit'[c'].status \notin {"NONE", "CANCELLED"}
                      /\ \A h \in Requests : op'[h].kind = "cancel" => op'[h].case # c'
    BY DEF ExitHeld, InFlight
  <1>1. Quiet
    BY RacesGrow
  <1>2. c' \in Cases /\ exit \in [Cases -> CaseRows] /\ c \in Cases \cup {NoCase}
    BY DEF TypeOK, SettlementRows
  \* A step that keeps the settlement's status and exit need only keep the row.
  <1>3. ASSUME Settled, c' = c, exit'[c].linked, exit'[c].status \notin {"NONE", "CANCELLED"}
        PROVE  \A h \in Requests : op'[h].kind = "cancel" => op'[h].case # c'
    <2>1. Held /\ \A h \in Requests : op[h].kind = "cancel" => op[h].case # c
      BY <1>1, <1>3 DEF ExitHeld, InFlight
    <2>2. ASSUME NEW h \in Requests, op'[h].kind = "cancel", op'[h].case = c
          PROVE  FALSE
      <3>1. op'[h] # op[h]
        BY <2>1, <2>2
      <3>2. Cancellable(c)
        BY <2>2, <3>1, NewCancel
      <3>3. QED
        BY <1>3, <2>1, <3>2 DEF Cancellable
    <2>3. QED
      BY <1>3, <2>2
  <1>4. Settled /\ c # NoCase => Held
    BY <1>1 DEF ExitHeld
  <1>5. CASE UNCHANGED <<exit, settlement>>
    BY <1>3, <1>4, <1>5 DEF Settled
  <1>6. CASE Calculation
    <2>1. settlement' = settlement
      BY <1>6, Calculated DEF Settled
    <2>2. c' = c /\ Settled
      BY <2>1 DEF Settled
    <2>3. exit'[c] = exit[c] \/ exit'[c] = [exit[c] EXCEPT !.linked = TRUE]
      BY <1>2, <1>6, <2>2, Calculated
    <2>4. exit'[c].linked /\ exit'[c].status \notin {"NONE", "CANCELLED"}
      BY <1>2, <1>4, <2>2, <2>3 DEF CaseRows
    <2>5. QED
      BY <1>3, <2>2, <2>4
  <1>7. ASSUME NEW h \in Requests,
               \/ \E k \in Cases : InitiateCommit(h, k)
               \/ \E done \in BOOLEAN : ChecklistCommit(h, done)
               \/ MoveCommit(h) \/ CompleteCommit(h) \/ CancelCommit(h)
        PROVE  /\ c' = c /\ Settled
               /\ exit'[c].linked /\ exit'[c].status \notin {"NONE", "CANCELLED"}
    <2>1. settlement' = settlement
      BY <1>7 DEF InitiateCommit, ChecklistCommit, MoveCommit, CompleteCommit, CancelCommit
    <2>2. c' = c /\ Settled /\ Held /\ c \in Cases
      BY <1>2, <1>4, <2>1 DEF Settled
    <2>3. CASE \E k \in Cases : InitiateCommit(h, k)
      BY <1>2, <2>2, <2>3 DEF InitiateCommit
    <2>4. CASE \E done \in BOOLEAN : ChecklistCommit(h, done)
      BY <1>2, <2>2, <2>4 DEF ChecklistCommit, CaseRows
    <2>5. CASE MoveCommit(h)
      <3>1. op[h].case # c
        BY <2>2, <2>5 DEF MoveCommit
      <3>2. exit'[c] = exit[c]
        BY <1>2, <2>2, <2>5, <3>1 DEF MoveCommit
      <3>3. QED
        BY <2>2, <3>2
    <2>6. CASE CompleteCommit(h)
      BY <1>2, <2>2, <2>6 DEF CompleteCommit, CaseRows
    <2>7. CASE CancelCommit(h)
      <3>1. op[h].case # c
        BY <1>1, <2>2, <2>7 DEF ExitHeld, InFlight, CancelCommit
      <3>2. exit'[c] = exit[c]
        BY <1>2, <2>2, <2>7, <3>1 DEF CancelCommit
      <3>3. QED
        BY <2>2, <3>2
    <2>8. QED
      BY <1>7, <2>2, <2>3, <2>4, <2>5, <2>6, <2>7
  <1>8. CASE Process
    <2>1. PICK k \in OpenCases \cup {NoCase} :
             /\ settlement' = [settlement EXCEPT !.status = "PROCESSED", !.of = k]
             /\ races' = races
                   \cup (IF k # NoCase /\ ~exit[k].linked THEN {"stale"} ELSE {})
                   \cup (IF InFlight({"cancel"}) # {} THEN {"cancel"} ELSE {})
      BY <1>8 DEF Process
    <2>2. c' = k /\ k \in OpenCases
      BY <2>1 DEF TypeOK, SettlementRows
    <2>3. exit[k].linked /\ InFlight({"cancel"}) = {}
      <3>1. k # NoCase
        BY <2>2
      <3>2. QED
        BY <2>1, <3>1
    <2>4. exit' = exit /\ op' = op
      BY <1>8 DEF Process
    <2>5. QED
      BY <2>2, <2>3, <2>4 DEF OpenCases, InFlight
  <1>9. CASE MarkPaid
    <2>1. Settled /\ c' = c /\ exit' = exit
      BY <1>9 DEF MarkPaid, Settled, TypeOK, SettlementRows
    <2>2. QED
      BY <1>3, <1>4, <2>1
  <1>10. ~(Reverse \/ DiscardDraft)
    <2>1. ~Reverse
      BY DEF Reverse, Settled, TypeOK, SettlementRows
    <2>2. ~DiscardDraft
      BY DEF DiscardDraft, NoSettlement, Settled
    <2>3. QED
      BY <2>1, <2>2
  <1>11. CASE Touch
    BY <1>3, <1>6, <1>7, <1>8, <1>9, <1>10, <1>11 DEF Touch
  <1>12. QED
    BY <1>5, <1>11, Untouched

\* A settlement that has closed the leaver's loans keeps its exit: cancel has it
\* reversed first (offboarding.service.ts, cancel).
THEOREM SettledExitStandsCorrect == Spec => []SettledExitStands
  <1>1. Init => ExitHeld
    BY DEF Init, NoSettlement, ExitHeld, Settled
  <1>2. TypeOK /\ TypeOK' /\ ExitHeld /\ [Next]_vars => ExitHeld'
    BY HeldStep
  <1>3. ExitHeld => SettledExitStands
    BY DEF ExitHeld, SettledExitStands
  <1>4. QED
    BY <1>1, <1>2, <1>3, TypeCorrect, PTL DEF Spec

-----------------------------------------------------------------------------
(* The notice follows the exit *)

\* Two exits are not open at once, and a closed account has none.
OneExit ==
    /\ \A c, d \in OpenCases : c = d
    /\ ~employee.active => OpenCases = {}

\* The account shows the exit that is open, if one is.
Shown ==
    /\ employee.status = "RESIGNED" => OpenCases # {}
    /\ employee.active /\ employee.exitDate # NoDate => OpenCases # {}
    /\ \A c \in OpenCases : exit[c].lwd = employee.exitDate

\* The status an exit would restore is not the notice stage itself.
Restorable ==
    /\ \A c \in Cases : exit[c].previous # "RESIGNED"
    /\ \A h \in InFlight({"initiate"}) : op[h].previous # "RESIGNED"

\* Who read an exit that was over still finds it over.
OverStaysOver ==
    \A h \in InFlight({"cancel"}) :
        ~op[h].open => op[h].case \notin OpenCases /\ exit[op[h].case].status # "NONE"

NoticeHeld ==
    races \cap {"initiate", "resurrect", "recancel", "move", "complete", "left"} = {} =>
        OneExit /\ Shown /\ Restorable /\ OverStaysOver

LEMMA NoticeEnough == TypeOK /\ NoticeHeld => NoticeFollowsExit
  <1> SUFFICES ASSUME TypeOK, NoticeHeld,
                      races \cap {"initiate", "resurrect", "recancel", "move", "complete", "left"} = {},
                      employee.active
               PROVE  /\ (employee.exitDate = NoDate) <=> (OpenCases = {})
                      /\ \A c \in OpenCases : exit[c].lwd = employee.exitDate
                      /\ employee.status = "RESIGNED" => OpenCases # {}
    BY DEF NoticeFollowsExit
  <1>1. Shown
    BY DEF NoticeHeld
  <1>2. \A c \in OpenCases : exit[c].lwd # NoDate
    BY DaysTyped DEF TypeOK, CaseRows, OpenCases
  <1>3. QED
    BY <1>1, <1>2 DEF Shown

\* The rows of the exits under a step that opens none and closes none.
SameExits ==
    \A c \in Cases : /\ exit'[c].status = "NONE" <=> exit[c].status = "NONE"
                     /\ c \in OpenCases' <=> c \in OpenCases
                     /\ exit'[c].lwd = exit[c].lwd /\ exit'[c].previous = exit[c].previous

LEMMA SameStep ==
    ASSUME TypeOK, OneExit, Shown, Restorable, OverStaysOver, [Next]_vars,
           SameExits, UNCHANGED employee
    PROVE  OneExit' /\ Shown' /\ Restorable' /\ OverStaysOver'
  <1>1. OpenCases' = OpenCases
    BY DEF SameExits, OpenCases
  <1>2. OneExit' /\ Shown'
    BY <1>1 DEF OneExit, Shown, SameExits, OpenCases
  <1>3. ASSUME NEW h \in Requests, op'[h].kind = "initiate", op'[h] # op[h]
        PROVE  op'[h].previous # "RESIGNED"
    <2>1. ApproveInitiate(h) \/ \E d \in LastDays, type \in ExitTypes : InitiateRead(h, d, type)
      BY <1>3, OwnOp, HandlerSnapshot
    <2>3. OpenCases = {} /\ op'[h].previous = employee.status
      BY <2>1 DEF TypeOK, ApproveInitiate, InitiateRead, Start, Continue
    <2>2. QED
      BY <2>3 DEF Shown
  <1>4. Restorable'
    BY <1>3 DEF Restorable, SameExits, InFlight
  <1>5. ASSUME NEW h \in Requests, op'[h].kind = "cancel", op'[h] # op[h], ~op'[h].open
        PROVE  op'[h].case \notin OpenCases' /\ exit'[op'[h].case].status # "NONE"
    BY <1>1, <1>5, NewCancel DEF Cancellable, SameExits
  <1>6. ASSUME NEW h \in Requests, op'[h].kind = "cancel", op'[h] = op[h], ~op'[h].open
        PROVE  op'[h].case \notin OpenCases' /\ exit'[op'[h].case].status # "NONE"
    <2>1. op[h].case \in Cases
      BY <1>6, Snapshots DEF TypeOK
    <2>2. QED
      BY <1>1, <1>6, <2>1 DEF OverStaysOver, InFlight, SameExits
  <1>7. OverStaysOver'
    BY <1>5, <1>6 DEF OverStaysOver, InFlight
  <1>8. QED
    BY <1>2, <1>4, <1>7

\* A handler's commit adds neither a start nor a cancellation.
LEMMA CommitAddsNone ==
    ASSUME TypeOK, [Next]_vars, Restorable, OverStaysOver,
           ~ UNCHANGED <<exit, employee>>,
           \A c \in Cases : exit'[c].previous # "RESIGNED",
           \A c \in Cases : exit[c].status # "NONE" /\ c \notin OpenCases =>
               exit'[c].status # "NONE" /\ c \notin OpenCases'
    PROVE  Restorable' /\ OverStaysOver'
  <1>1. ASSUME NEW h \in Requests, op'[h].kind \in {"initiate", "cancel"}
        PROVE  op'[h] = op[h]
    <2>1. SUFFICES ASSUME op'[h] # op[h] PROVE FALSE
      OBVIOUS
    <2>2. Look(h)
      BY <1>1, <2>1, OwnOp, HandlerSnapshot DEF Look
    <2>3. QED
      BY <2>2, LooksOnly
  <1>2. ASSUME NEW h \in Requests, op[h].kind = "cancel"
        PROVE  op[h].case \in Cases
    BY <1>2, Snapshots DEF TypeOK
  <1>3. QED
    BY <1>1, <1>2 DEF Restorable, OverStaysOver, InFlight

\* The steps that write the account.
AccountStep ==
    \/ Reinstate
    \/ \E h \in Requests :
          (\E c \in Cases : InitiateCommit(h, c)) \/ MoveCommit(h) \/ CompleteCommit(h) \/ CancelCommit(h)

LEMMA AccountKept == TypeOK /\ [Next]_vars => AccountStep \/ UNCHANGED employee
  <1> SUFFICES ASSUME TypeOK, [Next]_vars, ~AccountStep PROVE UNCHANGED employee
    OBVIOUS
  <1>1. ASSUME NEW h \in Requests, HandlerStep(h) PROVE UNCHANGED employee
    <2>1. CASE Look(h)
      BY <2>1, LooksOnly
    <2>2. CASE \/ \E r \in Resignations, d \in LastDays : ApproveFlip(h, r, d)
               \/ SubmitCommit(h) \/ ApproveRevert(h) \/ LinkCase(h) \/ DraftCommit(h)
               \/ AttachCommit(h) \/ DecideWithout(h) \/ Answer(h) \/ GiveUp(h)
               \/ \E done \in BOOLEAN : ChecklistCommit(h, done)
      BY <2>2 DEF ApproveFlip, SubmitCommit, ApproveRevert, LinkCase, DraftCommit, AttachCommit,
                  DecideWithout, Answer, GiveUp, ChecklistCommit
    <2>3. QED
      BY <1>1, <2>1, <2>2 DEF HandlerStep, AccountStep
  <1>2. ASSUME FreeStep PROVE UNCHANGED employee
    BY <1>2 DEF FreeStep, AccountStep, Close, RequestWithdrawal, Calculate, Process, Reverse,
                MarkPaid, DiscardDraft, NextDay
  <1>3. QED
    BY <1>1, <1>2, Steps DEF vars

\* An exit begins, on an account that is open and has no other.
LEMMA NoticeInitiate ==
    ASSUME TypeOK, [Next]_vars, OneExit, Shown, Restorable, OverStaysOver,
           NEW h \in Requests, NEW c \in Cases, InitiateCommit(h, c),
           races' \cap {"initiate", "left"} = {}
    PROVE  OneExit' /\ Shown' /\ Restorable' /\ OverStaysOver'
  <1> DEFINE o == op[h]
  <1>1. OpenCases = {} /\ employee.active
    BY DEF InitiateCommit
  <1>2. o.lwd \in Days /\ o.lwd # NoDate /\ o.previous # "RESIGNED"
    BY Snapshots, DaysTyped DEF TypeOK, InitiateCommit, Restorable, InFlight
  <1>3. /\ exit'[c].status = "INITIATED" /\ exit'[c].lwd = o.lwd /\ exit'[c].previous = o.previous
        /\ \A d \in Cases \ {c} : exit'[d] = exit[d]
        /\ exit[c].status = "NONE"
    BY DEF TypeOK, InitiateCommit
  <1>4. OpenCases' = {c}
    BY <1>1, <1>3 DEF OpenCases
  <1>5. employee'.active /\ employee'.exitDate = o.lwd
    BY <1>1 DEF TypeOK, InitiateCommit, EmployeeRow
  <1>6. OneExit' /\ Shown'
    BY <1>3, <1>4, <1>5 DEF OneExit, Shown
  <1>7. Restorable' /\ OverStaysOver'
    <2>1. ~ UNCHANGED <<exit, employee>>
      BY <1>3
    <2>2. \A d \in Cases : exit'[d].previous # "RESIGNED"
      BY <1>2, <1>3 DEF Restorable
    <2>3. \A d \in Cases : exit[d].status # "NONE" /\ d \notin OpenCases =>
              exit'[d].status # "NONE" /\ d \notin OpenCases'
      BY <1>3, <1>4
    <2>4. QED
      BY <2>1, <2>2, <2>3, CommitAddsNone
  <1>8. QED
    BY <1>6, <1>7

\* The last working day moves, in the exit and in the account.
LEMMA NoticeMove ==
    ASSUME TypeOK, [Next]_vars, OneExit, Shown, Restorable, OverStaysOver,
           NEW h \in Requests, MoveCommit(h), races' \cap {"move"} = {}
    PROVE  OneExit' /\ Shown' /\ Restorable' /\ OverStaysOver'
  <1> DEFINE c == op[h].case
  <1>1. c \in OpenCases /\ c \in Cases
    BY DEF MoveCommit, OpenCases
  <1>2. /\ \A d \in Cases : /\ exit'[d].status = exit[d].status
                            /\ exit'[d].previous = exit[d].previous
        /\ exit'[c].lwd = op[h].lwd
    BY <1>1 DEF TypeOK, MoveCommit, CaseRows
  <1>3. OpenCases' = OpenCases
    BY <1>2 DEF OpenCases
  <1>4. /\ employee'.active = employee.active /\ employee'.status = employee.status
        /\ employee'.exitDate = op[h].lwd
    BY DEF TypeOK, MoveCommit, EmployeeRow
  <1>5. OneExit' /\ Shown'
    BY <1>1, <1>2, <1>3, <1>4 DEF OneExit, Shown
  <1>6. CASE ~ UNCHANGED <<exit, employee>>
    <2>1. Restorable' /\ OverStaysOver'
      BY <1>2, <1>3, <1>6, CommitAddsNone DEF Restorable
    <2>2. QED
      BY <1>5, <2>1
  <1>7. CASE UNCHANGED <<exit, employee>>
    BY <1>3, <1>7, SameStep DEF SameExits
  <1>8. QED
    BY <1>6, <1>7

\* An exit is completed and the account closed.
LEMMA NoticeComplete ==
    ASSUME TypeOK, [Next]_vars, OneExit, Shown, Restorable, OverStaysOver,
           NEW h \in Requests, CompleteCommit(h), races' \cap {"complete"} = {}
    PROVE  OneExit' /\ Shown' /\ Restorable' /\ OverStaysOver'
  <1> DEFINE c == op[h].case
  <1>1. c \in OpenCases /\ c \in Cases
    BY DEF CompleteCommit, Fell, Ready, OpenCases
  <1>2. /\ \A d \in Cases \ {c} : exit'[d] = exit[d]
        /\ exit'[c].status = "COMPLETED" /\ exit'[c].previous = exit[c].previous
    BY <1>1 DEF TypeOK, CompleteCommit, CaseRows
  <1>3. OpenCases' = {}
    BY <1>1, <1>2 DEF OneExit, OpenCases
  <1>4. ~employee'.active /\ employee'.status # "RESIGNED"
    <2>1. exit[c].ends # "RESIGNED"
      BY <1>1, ExitAssumption DEF TypeOK, CaseRows
    <2>2. QED
      BY <2>1 DEF TypeOK, CompleteCommit, EmployeeRow
  <1>5. OneExit' /\ Shown'
    BY <1>3, <1>4 DEF OneExit, Shown
  <1>6. ~ UNCHANGED <<exit, employee>>
    BY <1>1, <1>2 DEF OpenCases
  <1>7. Restorable' /\ OverStaysOver'
    <2>1. \A d \in Cases : exit'[d].previous # "RESIGNED"
      BY <1>2 DEF Restorable
    <2>2. \A d \in Cases : exit[d].status # "NONE" /\ d \notin OpenCases =>
              exit'[d].status # "NONE" /\ d \notin OpenCases'
      BY <1>2, <1>3
    <2>3. QED
      BY <1>6, <2>1, <2>2, CommitAddsNone
  <1>8. QED
    BY <1>5, <1>7

\* An exit is called off: the notice stage goes with it, and nothing stays open.
LEMMA NoticeCancel ==
    ASSUME TypeOK, [Next]_vars, OneExit, Shown, Restorable, OverStaysOver,
           NEW h \in Requests, CancelCommit(h), races' \cap {"recancel"} = {}
    PROVE  OneExit' /\ Shown' /\ Restorable' /\ OverStaysOver'
  <1> DEFINE c == op[h].case
  <1>1. c \in Cases /\ op[h].open \in BOOLEAN
    BY Snapshots DEF TypeOK, CancelCommit
  <1>2. c \in OpenCases \/ OpenCases = {}
    BY DEF CancelCommit
  <1>3. CASE UNCHANGED <<exit, employee>>
    BY <1>3, SameStep DEF SameExits, OpenCases
  <1>4. CASE ~ UNCHANGED <<exit, employee>>
    <2>1. /\ exit' = [exit EXCEPT ![c].status = "CANCELLED"]
          /\ employee' = [employee EXCEPT !.exitDate = NoDate, !.status = StatusRestored(op[h])]
      BY <1>4 DEF CancelCommit
    <2>2. /\ \A d \in Cases \ {c} : exit'[d] = exit[d]
          /\ exit'[c].status = "CANCELLED" /\ exit'[c].previous = exit[c].previous
      BY <1>1, <2>1 DEF TypeOK, CaseRows
    <2>3. OpenCases' = {}
      BY <1>1, <1>2, <2>2 DEF OneExit, OpenCases
    <2>4. /\ employee'.active = employee.active /\ employee'.exitDate = NoDate
          /\ employee'.status = StatusRestored(op[h])
      BY <2>1 DEF TypeOK, EmployeeRow
    <2>5. StatusRestored(op[h]) # "RESIGNED"
      <3>1. CASE c \in OpenCases
        <4>1. op[h].open
          BY <1>1, <3>1 DEF OverStaysOver, InFlight, CancelCommit
        <4>2. QED
          BY <1>1, <4>1 DEF StatusRestored, Restorable
      <3>2. CASE OpenCases = {}
        BY <3>2 DEF StatusRestored, Shown
      <3>3. QED
        BY <1>2, <3>1, <3>2
    <2>6. OneExit' /\ Shown'
      BY <2>3, <2>4, <2>5 DEF OneExit, Shown
    <2>7. Restorable' /\ OverStaysOver'
      <3>1. \A d \in Cases : exit'[d].previous # "RESIGNED"
        BY <2>2 DEF Restorable
      <3>2. \A d \in Cases : exit[d].status # "NONE" /\ d \notin OpenCases =>
                exit'[d].status # "NONE" /\ d \notin OpenCases'
        BY <2>2, <2>3
      <3>3. QED
        BY <1>4, <3>1, <3>2, CommitAddsNone
    <2>8. QED
      BY <2>6, <2>7
  <1>5. QED
    BY <1>3, <1>4

LEMMA NoticeStep == TypeOK /\ TypeOK' /\ NoticeHeld /\ [Next]_vars => NoticeHeld'
  <1> DEFINE Gaps == {"initiate", "resurrect", "recancel", "move", "complete", "left"}
  <1> SUFFICES ASSUME TypeOK, NoticeHeld, [Next]_vars, races' \cap Gaps = {}
               PROVE  OneExit' /\ Shown' /\ Restorable' /\ OverStaysOver'
    BY DEF NoticeHeld
  <1>1. races \cap Gaps = {}
    BY RacesGrow
  <1>2. OneExit /\ Shown /\ Restorable /\ OverStaysOver
    BY <1>1 DEF NoticeHeld
  <1>3. CASE UNCHANGED <<exit, settlement>> /\ UNCHANGED employee
    BY <1>2, <1>3, SameStep DEF SameExits, OpenCases
  <1>4. CASE Reinstate
    <2>1. OpenCases = {} /\ OpenCases' = OpenCases /\ exit' = exit /\ op' = op
      BY <1>2, <1>4 DEF Reinstate, OneExit, OpenCases
    <2>2. employee'.active /\ employee'.status = "CONFIRMED" /\ employee'.exitDate = NoDate
      BY <1>4 DEF Reinstate
    <2>3. QED
      BY <1>2, <2>1, <2>2 DEF OneExit, Shown, Restorable, OverStaysOver, InFlight
  <1>5. CASE Calculation
    <2>1. UNCHANGED employee
      BY <1>5, Calculated
    <2>2. ASSUME NEW c \in Cases
          PROVE  /\ exit'[c].status = exit[c].status
                 /\ exit'[c].lwd = exit[c].lwd /\ exit'[c].previous = exit[c].previous
      <3>1. exit'[c] = exit[c] \/ exit'[c] = [exit[c] EXCEPT !.linked = TRUE]
        BY <1>5, Calculated
      <3>2. exit[c] \in CaseRows
        BY DEF TypeOK
      <3>3. QED
        BY <3>1, <3>2 DEF CaseRows
    <2>3. SameExits
      BY <2>2 DEF SameExits, OpenCases
    <2>4. QED
      BY <1>2, <2>1, <2>3, SameStep
  <1>6. CASE \E h \in Requests : \E done \in BOOLEAN : ChecklistCommit(h, done)
    <2>1. PICK h \in Requests, done \in BOOLEAN : ChecklistCommit(h, done)
      BY <1>6
    <2>2. op[h].case \in Cases
      BY <2>1, Snapshots DEF TypeOK, ChecklistCommit
    <2>3. op[h].status = "INITIATED" => op[h].case \in OpenCases
      BY <2>1 DEF ChecklistCommit, Fell
    <2>4. SameExits /\ UNCHANGED employee
      BY <2>1, <2>2, <2>3 DEF ChecklistCommit, SameExits, OpenCases, TypeOK, CaseRows
    <2>5. QED
      BY <1>2, <2>4, SameStep
  <1>7. CASE Process \/ Reverse \/ MarkPaid \/ DiscardDraft
    <2>1. SameExits
      <3>1. CASE DiscardDraft
        BY <3>1 DEF DiscardDraft, SameExits, OpenCases, TypeOK, CaseRows
      <3>2. CASE Process \/ Reverse \/ MarkPaid
        BY <3>2 DEF Process, Reverse, MarkPaid, SameExits, OpenCases
      <3>3. QED
        BY <1>7, <3>1, <3>2
    <2>2. UNCHANGED employee
      BY <1>7 DEF Process, Reverse, MarkPaid, DiscardDraft
    <2>3. QED
      BY <1>2, <2>1, <2>2, SameStep
  <1>8. CASE AccountStep
    BY <1>2, <1>4, <1>8, NoticeInitiate, NoticeMove, NoticeComplete, NoticeCancel DEF AccountStep
  <1>9. CASE Touch
    BY <1>5, <1>6, <1>7, <1>8, <1>9 DEF Touch, AccountStep
  <1>10. QED
    BY <1>3, <1>8, <1>9, Untouched, AccountKept

\* An account carries the last working day and the notice stage of the exit under
\* way, and nothing of those called off (initiate, cancel, updateLastWorkingDay).
THEOREM NoticeFollowsExitCorrect == Spec => []NoticeFollowsExit
  <1>1. Init => NoticeHeld
    BY DEF Init, NoticeHeld, OneExit, Shown, Restorable, OverStaysOver, OpenCases, InFlight, Idle
  <1>2. TypeOK /\ TypeOK' /\ NoticeHeld /\ [Next]_vars => NoticeHeld'
    BY NoticeStep
  <1>3. TypeOK /\ NoticeHeld => NoticeFollowsExit
    BY NoticeEnough
  <1>4. QED
    BY <1>1, <1>2, <1>3, TypeCorrect, PTL DEF Spec
-----------------------------------------------------------------------------
(* The resignation follows the exit *)

\* The exit an approved resignation led to: under way or over, on its day.
LeadsTo(r, c) ==
    /\ exit[c].status \in {"INITIATED", "IN_PROGRESS", "COMPLETED"}
    /\ exit[c].lwd = resignation[r].lwd

\* Who has approved a resignation has it alone until it names its exit.
ApprovedAlone(r) ==
    \A h \in Approving(r) :
        /\ Approving(r) = {h}
        /\ resignation[r].status = "APPROVED" /\ resignation[r].case = NoCase
        /\ op[h].kind \in {"approve", "initiate"} => op[h].lwd = resignation[r].lwd
        /\ op[h].kind \in {"announce", "link"} => LeadsTo(r, op[h].case)

Approvers == \A r \in Resignations : ApprovedAlone(r)

\* The row agrees with its exit, and with itself.
RowFollows(r) ==
    LET row == resignation[r] IN
    /\ row.status = "APPROVED" /\ Approving(r) = {} => row.case # NoCase /\ LeadsTo(r, row.case)
    /\ row.status = "WITHDRAWN" /\ row.case # NoCase => exit[row.case].status = "CANCELLED"
    /\ row.withdrawal = "APPROVED" => row.status = "WITHDRAWN"
    /\ row.case # NoCase => row.status \in {"APPROVED", "WITHDRAWN"}

Followed == \A r \in Resignations : RowFollows(r)

\* An exit is known to the resignation whose approval began it, or about to be, ...
Known(r, c) ==
    \/ resignation[r].case = c
    \/ \E h \in Linking(c) : op[h].resignation = r
\* ... which is approved, unless the exit was called off.
OwnedBy(r, c) ==
    exit[c].of = r /\ exit[c].status # "CANCELLED" =>
        resignation[r].status = "APPROVED" /\ Known(r, c)

Owned == \A r \in Resignations, c \in Cases : OwnedBy(r, c)

\* What a withdrawal in flight has read is still so.
Withdrawing ==
    \A h \in Requests :
        /\ op[h].kind = "decide" /\ op[h].case # NoCase =>
              resignation[op[h].resignation].case = op[h].case
        /\ op[h].kind = "cancel" =>
              /\ ~op[h].open => exit[op[h].case].status = "CANCELLED"
              /\ op[h].answers # NoResignation => resignation[op[h].answers].case = op[h].case
        /\ op[h].kind = "answer" /\ op[h].answer = "APPROVED" =>
              resignation[op[h].resignation].status = "WITHDRAWN"

\* The behaviour has fallen into none of the windows between the two records.
InStep == races \cap {"unlinked", "reverted", "resurrect", "outrun", "complete"} = {}

RecordsHeld ==
    InStep =>
        Approvers /\ Followed /\ Owned /\ Withdrawing

LEMMA RecordsEnough == RecordsHeld => ResignationFollowsExit
  BY DEF RecordsHeld, InStep, Followed, RowFollows, LeadsTo, Owned, OwnedBy,
         ResignationFollowsExit

\* The kinds of a handler between its approval and the link.
ApprovingKinds == {"approve", "initiate", "announce", "link"}

\* A step of a handler that approves nothing leaves who does.
LEMMA ApproversKept ==
    ASSUME NEW h \in Requests, \A g \in Requests \ {h} : op'[g] = op[g],
           \/ op'[h] = op[h]
           \/ /\ op[h].kind \in ApprovingKinds => op[h].resignation \notin Resignations
              /\ op'[h].kind \in ApprovingKinds => op'[h].resignation \notin Resignations
    PROVE  \A r \in Resignations :
              Approving(r)' = Approving(r) /\ \A g \in Approving(r) : op'[g] = op[g]
  BY DEF Approving, InFlight, ApprovingKinds

\* The steps that write a resignation, or who approves it.
ApprovalStep ==
    \E h \in Requests :
        \/ \E r \in Resignations, d \in LastDays : ApproveFlip(h, r, d)
        \/ ApproveRevert(h) \/ ApproveInitiate(h) \/ Announce(h) \/ LinkCase(h)
        \/ \E c \in Cases : InitiateCommit(h, c)

LEMMA SameApprovers ==
    ASSUME TypeOK, [Next]_vars, ~ApprovalStep, InStep'
    PROVE  \A r \in Resignations :
              Approving(r)' = Approving(r) /\ \A g \in Approving(r) : op'[g] = op[g]
  <1>1. CASE op' = op
    BY <1>1 DEF Approving, InFlight
  <1>2. CASE DiscardDraft
    <2>1. \A h \in Requests : op'[h] = IF op[h].kind = "attach" THEN Idle ELSE op[h]
      BY <1>2 DEF TypeOK, DiscardDraft
    <2>2. QED
      BY <2>1 DEF Approving, InFlight, Idle
  <1>4. CASE op' # op /\ ~DiscardDraft
    <2>1. PICK h \in Requests : op'[h] # op[h]
      BY <1>4, TypeStep DEF TypeOK
    <2>2. HandlerStep(h)
      BY <1>4, <2>1, NewOp
    <2>3. \A g \in Requests \ {h} : op'[g] = op[g]
      BY <2>2, HandlerSnapshot
    <2>4. op'[h].kind \in ApprovingKinds => op'[h].resignation \notin Resignations
      <3>1. ASSUME NEW d \in LastDays, NEW type \in ExitTypes, InitiateRead(h, d, type)
            PROVE  op'[h].resignation = NoResignation
        BY <3>1 DEF TypeOK, InitiateRead, Start
      <3>2. op'[h].kind \in ApprovingKinds =>
                \E d \in LastDays, type \in ExitTypes : InitiateRead(h, d, type)
        BY <2>2, HandlerSnapshot DEF ApprovalStep, ApprovingKinds
      <3>3. QED
        BY <3>1, <3>2, ExitAssumption
    <2>5. op[h].kind \in ApprovingKinds => op[h].resignation \notin Resignations
      <3>1. CASE GiveUp(h)
        BY <3>1 DEF GiveUp, Fell, InStep, Approving, InFlight, ApprovingKinds
      <3>2. CASE \/ \E r \in Resignations : SubmitRead(h, r)
                 \/ \E r \in Resignations, approve \in BOOLEAN : DecideRead(h, r, approve)
                 \/ \E d \in LastDays, type \in ExitTypes : InitiateRead(h, d, type)
                 \/ \E c \in Cases, d \in LastDays : MoveRead(h, c, d)
        BY <3>2 DEF SubmitRead, DecideRead, InitiateRead, MoveRead, Start, Idle, ApprovingKinds
      <3>3. CASE \E c \in Cases : \/ SweepRead(h, c) \/ LinkRead(h, c) \/ ChecklistRead(h, c)
                                  \/ CompleteRead(h, c) \/ CancelRead(h, c)
        BY <3>3 DEF SweepRead, LinkRead, ChecklistRead, CompleteRead, CancelRead, Start, Idle,
                    ApprovingKinds
      <3>4. CASE \/ PrepareRead(h) \/ SweepLook(h) \/ DecideCancel(h) \/ SubmitCommit(h)
                 \/ DraftCommit(h) \/ AttachCommit(h) \/ DecideWithout(h) \/ Answer(h)
        BY <3>4 DEF PrepareRead, SweepLook, DecideCancel, SubmitCommit, DraftCommit, AttachCommit,
                    DecideWithout, Answer, ApprovingKinds
      <3>5. CASE \/ MoveCommit(h) \/ CompleteCommit(h) \/ CancelCommit(h)
                 \/ \E done \in BOOLEAN : ChecklistCommit(h, done)
        BY <3>5 DEF MoveCommit, CompleteCommit, CancelCommit, ChecklistCommit, ApprovingKinds
      <3>6. QED
        BY <2>2, <3>1, <3>2, <3>3, <3>4, <3>5 DEF HandlerStep, Look, ApprovalStep
    <2>6. QED
      BY <2>3, <2>4, <2>5, ApproversKept
  <1>3. QED
    BY <1>1, <1>2, <1>4

\* Exits by and large go one way: over stays over, and only a cancellation ends one
\* otherwise than by its completion, only a move gives it another day.
LEMMA ExitsGoOn ==
    ASSUME TypeOK, [Next]_vars, InStep', NEW c \in Cases
    PROVE  /\ exit[c].status = "CANCELLED" => exit'[c].status = "CANCELLED"
           /\ exit[c].status \in {"INITIATED", "IN_PROGRESS", "COMPLETED"} =>
                 \/ exit'[c].status \in {"INITIATED", "IN_PROGRESS", "COMPLETED"}
                 \/ \E h \in Requests : CancelCommit(h) /\ op[h].case = c
           /\ exit[c].status # "NONE" =>
                 \/ exit'[c].lwd = exit[c].lwd
                 \/ \E h \in Requests : MoveCommit(h) /\ op[h].case = c
  <1>1. CASE UNCHANGED <<exit, settlement>>
    BY <1>1
  <1>2. CASE Calculation
    <2>1. exit[c] \in CaseRows
      BY DEF TypeOK
    <2>2. exit'[c] = exit[c] \/ exit'[c] = [exit[c] EXCEPT !.linked = TRUE]
      BY <1>2, Calculated
    <2>3. exit'[c].status = exit[c].status /\ exit'[c].lwd = exit[c].lwd
      BY <2>1, <2>2 DEF CaseRows
    <2>4. QED
      BY <2>3
  <1>3. ASSUME NEW h \in Requests, NEW d \in Cases, InitiateCommit(h, d)
        PROVE  exit[c].status = "NONE" \/ exit'[c] = exit[c]
    BY <1>3 DEF TypeOK, InitiateCommit
  <1>4. ASSUME NEW h \in Requests, NEW done \in BOOLEAN, ChecklistCommit(h, done)
        PROVE  /\ exit'[c].lwd = exit[c].lwd
               /\ \/ exit'[c].status = exit[c].status
                  \/ c \in OpenCases /\ exit'[c].status = "IN_PROGRESS"
    <2>1. op[h].case \in Cases
      BY <1>4, Snapshots DEF TypeOK, ChecklistCommit
    <2>2. op[h].status = "INITIATED" => op[h].case \in OpenCases
      BY <1>4 DEF ChecklistCommit, Fell, InStep
    <2>3. QED
      BY <1>4, <2>1, <2>2 DEF ChecklistCommit, TypeOK, CaseRows
  <1>5. ASSUME NEW h \in Requests, MoveCommit(h)
        PROVE  /\ exit'[c].status = exit[c].status
               /\ exit'[c].lwd = exit[c].lwd \/ op[h].case = c
    <2>1. op[h].case \in Cases
      BY <1>5, Snapshots DEF TypeOK, MoveCommit
    <2>2. QED
      BY <1>5, <2>1 DEF MoveCommit, TypeOK, CaseRows
  <1>6. ASSUME NEW h \in Requests, CompleteCommit(h)
        PROVE  /\ exit'[c].lwd = exit[c].lwd
               /\ \/ exit'[c].status = exit[c].status
                  \/ c \in OpenCases /\ exit'[c].status = "COMPLETED"
    <2>1. op[h].case \in OpenCases
      BY <1>6 DEF CompleteCommit, Fell, InStep, Ready
    <2>2. QED
      BY <1>6, <2>1 DEF CompleteCommit, TypeOK, CaseRows, OpenCases
  <1>7. ASSUME NEW h \in Requests, CancelCommit(h)
        PROVE  /\ exit'[c].lwd = exit[c].lwd
               /\ \/ exit'[c].status = exit[c].status
                  \/ op[h].case = c /\ exit'[c].status = "CANCELLED"
    <2>1. op[h].case \in Cases
      BY <1>7, Snapshots DEF TypeOK, CancelCommit
    <2>2. QED
      BY <1>7, <2>1 DEF CancelCommit, TypeOK, CaseRows
  <1>8. CASE Process \/ Reverse \/ MarkPaid \/ DiscardDraft
    <2>1. exit'[c].status = exit[c].status /\ exit'[c].lwd = exit[c].lwd
      <3>1. CASE DiscardDraft
        BY <3>1 DEF DiscardDraft, TypeOK, CaseRows
      <3>2. CASE Process \/ Reverse \/ MarkPaid
        BY <3>2 DEF Process, Reverse, MarkPaid
      <3>3. QED
        BY <1>8, <3>1, <3>2
    <2>2. QED
      BY <2>1
  <1>9. CASE Touch
    BY <1>2, <1>3, <1>4, <1>5, <1>6, <1>7, <1>8, <1>9 DEF Touch, OpenCases
  <1>10. QED
    BY <1>1, <1>9, Untouched

\* The steps that write a resignation.
RecordStep ==
    \/ \E h \in Requests :
          \/ \E r \in Resignations, d \in LastDays : ApproveFlip(h, r, d)
          \/ SubmitCommit(h) \/ ApproveRevert(h) \/ LinkCase(h) \/ DecideWithout(h)
          \/ Answer(h) \/ MoveCommit(h) \/ CancelCommit(h)
    \/ \E r \in Resignations :
          \/ \E status \in {"WITHDRAWN", "REJECTED"} : Close(r, status)
          \/ RequestWithdrawal(r)

LEMMA RecordsKept == TypeOK /\ [Next]_vars => RecordStep \/ UNCHANGED resignation
  <1> SUFFICES ASSUME TypeOK, [Next]_vars, ~RecordStep PROVE UNCHANGED resignation
    OBVIOUS
  <1>1. ASSUME NEW h \in Requests, HandlerStep(h) PROVE UNCHANGED resignation
    <2>1. CASE Look(h)
      BY <2>1, LooksOnly
    <2>2. CASE \/ \E c \in Cases : InitiateCommit(h, c)
               \/ \E done \in BOOLEAN : ChecklistCommit(h, done)
               \/ DraftCommit(h) \/ AttachCommit(h) \/ CompleteCommit(h) \/ GiveUp(h)
      BY <2>2 DEF InitiateCommit, ChecklistCommit, DraftCommit, AttachCommit, CompleteCommit,
                  GiveUp
    <2>3. QED
      BY <1>1, <2>1, <2>2 DEF HandlerStep, RecordStep
  <1>2. ASSUME FreeStep PROVE UNCHANGED resignation
    BY <1>2 DEF FreeStep, RecordStep, Calculate, Process, Reverse, MarkPaid, DiscardDraft,
                Reinstate, NextDay
  <1>3. QED
    BY <1>1, <1>2, Steps DEF vars

\* The exit a resignation names is named for good, and a withdrawal is final.
LEMMA RecordsStand ==
    ASSUME TypeOK, [Next]_vars, Approvers, Followed, InStep', NEW r \in Resignations
    PROVE  /\ resignation[r].case # NoCase => resignation'[r].case = resignation[r].case
           /\ resignation[r].status = "WITHDRAWN" => resignation'[r].status = "WITHDRAWN"
  <1>1. ASSUME NEW h \in Requests, ApproveRevert(h) \/ LinkCase(h)
        PROVE  /\ op[h].resignation \in Resignations
               /\ resignation[op[h].resignation].status = "APPROVED"
               /\ resignation[op[h].resignation].case = NoCase
    <2>1. op[h].resignation \in Resignations
      BY <1>1, Snapshots DEF TypeOK, ApproveRevert, LinkCase
    <2>2. h \in Approving(op[h].resignation)
      BY <1>1 DEF Approving, InFlight, ApproveRevert, LinkCase
    <2>3. QED
      BY <2>1, <2>2 DEF Approvers, ApprovedAlone
  <1>2. ASSUME NEW h \in Requests, ApproveRevert(h) \/ LinkCase(h)
        PROVE  /\ resignation[r].case # NoCase => resignation'[r].case = resignation[r].case
               /\ resignation[r].status = "WITHDRAWN" => resignation'[r].status = "WITHDRAWN"
    <2>1. CASE r = op[h].resignation
      BY <1>1, <1>2, <2>1
    <2>2. CASE r # op[h].resignation
      <3>1. resignation'[r] = resignation[r]
        BY <1>1, <1>2, <2>2 DEF TypeOK, ApproveRevert, LinkCase
      <3>2. QED
        BY <3>1
    <2>3. QED
      BY <2>1, <2>2
  <1>3. ASSUME NEW h \in Requests, SubmitCommit(h) \/ DecideWithout(h) \/ Answer(h)
        PROVE  /\ resignation'[r].case = resignation[r].case
               /\ resignation[r].status = "WITHDRAWN" => resignation'[r].status = "WITHDRAWN"
    <2>1. op[h].resignation \in Resignations
      BY <1>3, Snapshots DEF TypeOK, SubmitCommit, DecideWithout, Answer
    <2>2. QED
      BY <1>3, <2>1 DEF TypeOK, ResignationRows, SubmitCommit, DecideWithout, Answer
  <1>4. ASSUME NEW h \in Requests, NEW q \in Resignations, NEW d \in LastDays, ApproveFlip(h, q, d)
        PROVE  /\ resignation'[r].case = resignation[r].case
               /\ resignation[r].status = "WITHDRAWN" => resignation'[r].status = "WITHDRAWN"
    BY <1>4 DEF TypeOK, ResignationRows, ApproveFlip
  <1>5. ASSUME NEW h \in Requests, MoveCommit(h) \/ CancelCommit(h)
        PROVE  /\ resignation'[r].case = resignation[r].case
               /\ resignation[r].status = "WITHDRAWN" => resignation'[r].status = "WITHDRAWN"
    BY <1>5 DEF TypeOK, ResignationRows, MoveCommit, CancelCommit, ClosedWith
  <1>6. ASSUME NEW q \in Resignations,
               \/ \E status \in {"WITHDRAWN", "REJECTED"} : Close(q, status)
               \/ RequestWithdrawal(q)
        PROVE  /\ resignation'[r].case = resignation[r].case
               /\ resignation[r].status = "WITHDRAWN" => resignation'[r].status = "WITHDRAWN"
    BY <1>6 DEF TypeOK, ResignationRows, Close, RequestWithdrawal
  <1>7. CASE RecordStep
    BY <1>2, <1>3, <1>4, <1>5, <1>6, <1>7 DEF RecordStep
  <1>8. CASE UNCHANGED resignation
    BY <1>8
  <1>9. QED
    BY <1>7, <1>8, RecordsKept

\* A withdrawal approved on the spot, or by way of the exit, has its resignation
\* withdrawn before it is answered.
LEMMA WithdrawnFirst ==
    ASSUME TypeOK, [Next]_vars, Approvers, Followed, Withdrawing, InStep', NEW h \in Requests,
           \/ DecideWithout(h)
           \/ CancelCommit(h) /\ op[h].answers # NoResignation
    PROVE  /\ op'[h].kind = "answer"
           /\ op'[h].resignation \in Resignations
           /\ resignation'[op'[h].resignation].status = "WITHDRAWN"
  <1>1. CASE DecideWithout(h)
    <2> DEFINE r == op[h].resignation
    <2>1. r \in Resignations
      BY <1>1, Snapshots DEF TypeOK, DecideWithout
    <2>2. resignation[r].status = "APPROVED"
      BY <1>1 DEF DecideWithout, Fell, InStep
    <2>3. op'[h].kind = "answer" /\ op'[h].resignation = r
      BY <1>1 DEF TypeOK, DecideWithout, Continue
    <2>4. resignation'[r].status = "WITHDRAWN"
      BY <1>1, <2>1, <2>2 DEF TypeOK, ResignationRows, DecideWithout
    <2>5. QED
      BY <2>1, <2>3, <2>4
  <1>2. CASE CancelCommit(h) /\ op[h].answers # NoResignation
    <2> DEFINE r == op[h].answers
               c == op[h].case
    <2>1. r \in Resignations /\ c \in Cases
      BY <1>2, Snapshots DEF TypeOK, CancelCommit
    <2>2. op'[h].kind = "answer" /\ op'[h].resignation = r
      BY <1>2 DEF TypeOK, CancelCommit, Continue
    <2>3. resignation[r].case = c /\ (~op[h].open => exit[c].status = "CANCELLED")
      BY <1>2 DEF Withdrawing, CancelCommit
    <2>4. c # NoCase
      BY <2>1, ExitAssumption
    <2>5. resignation[r].status \in {"APPROVED", "WITHDRAWN"}
      BY <2>1, <2>3, <2>4 DEF Followed, RowFollows
    <2>6. CASE resignation[r].status = "WITHDRAWN"
      <3>1. resignation'[r].status = "WITHDRAWN"
        BY <1>2, <2>1, <2>6 DEF TypeOK, ResignationRows, CancelCommit, ClosedWith
      <3>2. QED
        BY <2>1, <2>2, <3>1
    <2>7. CASE resignation[r].status = "APPROVED" /\ NotCompleted(c) /\ op[h].open
      <3>1. resignation' = ClosedWith(op[h])
        BY <1>2, <2>7 DEF CancelCommit
      <3>2. resignation'[r].status = "WITHDRAWN"
        BY <2>1, <2>3, <2>7, <3>1 DEF TypeOK, ResignationRows, ClosedWith
      <3>3. QED
        BY <2>1, <2>2, <3>2
    <2>8. ASSUME resignation[r].status = "APPROVED"
          PROVE  NotCompleted(c) /\ op[h].open
      <3>1. exit[c].status # "COMPLETED"
        BY <1>2 DEF CancelCommit, InStep
      <3>2. Approving(r) = {}
        BY <2>1, <2>3, <2>4 DEF Approvers, ApprovedAlone
      <3>3. exit[c].status \in {"INITIATED", "IN_PROGRESS"}
        BY <2>1, <2>3, <2>8, <3>1, <3>2 DEF Followed, RowFollows, LeadsTo
      <3>4. QED
        BY <2>1, <2>3, <3>3, Snapshots DEF NotCompleted, TypeOK, CancelCommit
    <2>9. QED
      BY <2>5, <2>6, <2>7, <2>8
  <1>3. QED
    BY <1>1, <1>2

LEMMA WithdrawingStep ==
    ASSUME TypeOK, [Next]_vars, Approvers, Followed, Withdrawing, InStep'
    PROVE  Withdrawing'
  <1>1. ASSUME NEW h \in Requests, op'[h] = op[h]
        PROVE  /\ op[h].kind = "decide" /\ op[h].case # NoCase =>
                      resignation'[op[h].resignation].case = op[h].case
               /\ op[h].kind = "cancel" =>
                      /\ ~op[h].open => exit'[op[h].case].status = "CANCELLED"
                      /\ op[h].answers # NoResignation =>
                             resignation'[op[h].answers].case = op[h].case
               /\ op[h].kind = "answer" /\ op[h].answer = "APPROVED" =>
                      resignation'[op[h].resignation].status = "WITHDRAWN"
    <2>1. CASE op[h].kind \in {"decide", "answer"}
      <3>1. op[h].resignation \in Resignations
        BY <2>1, Snapshots DEF TypeOK
      <3>2. QED
        BY <2>1, <3>1, RecordsStand DEF Withdrawing
    <2>2. CASE op[h].kind = "cancel"
      <3>1. op[h].case \in Cases /\ op[h].answers \in Resignations \cup {NoResignation}
        BY <2>2, Snapshots DEF TypeOK
      <3>2. op[h].case # NoCase
        BY <3>1, ExitAssumption
      <3>3. ~op[h].open => exit'[op[h].case].status = "CANCELLED"
        BY <2>2, <3>1, ExitsGoOn DEF Withdrawing
      <3>4. op[h].answers # NoResignation => resignation'[op[h].answers].case = op[h].case
        BY <2>2, <3>1, <3>2, RecordsStand DEF Withdrawing
      <3>5. QED
        BY <2>2, <3>3, <3>4
    <2>3. QED
      BY <2>1, <2>2
  <1>2. ASSUME NEW h \in Requests, op'[h] # op[h], op'[h].kind = "decide"
        PROVE  resignation'[op'[h].resignation].case = op'[h].case
    <2>1. PICK r \in Resignations : DecideRead(h, r, TRUE)
      BY <1>2, OwnOp, HandlerSnapshot
    <2>2. QED
      BY <2>1 DEF TypeOK, DecideRead, Start
  <1>3. ASSUME NEW h \in Requests, op'[h] # op[h], op'[h].kind = "cancel"
        PROVE  /\ ~op'[h].open => exit'[op'[h].case].status = "CANCELLED"
               /\ op'[h].answers # NoResignation => resignation'[op'[h].answers].case = op'[h].case
    <2>1. /\ op'[h].case \in Cases /\ Cancellable(op'[h].case)
          /\ op'[h].open = (op'[h].case \in OpenCases)
          /\ \/ op'[h].answers = NoResignation
             \/ /\ op[h].kind = "decide" /\ op'[h].case = op[h].case
                /\ op'[h].answers = op[h].resignation
          /\ UNCHANGED <<resignation, exit>>
      BY <1>3, NewCancel
    <2>2. ~op'[h].open => exit'[op'[h].case].status = "CANCELLED"
      BY <2>1 DEF Cancellable, OpenCases
    <2>3. ASSUME op'[h].answers # NoResignation
          PROVE  resignation'[op'[h].answers].case = op'[h].case
      <3>1. /\ op[h].kind = "decide" /\ op[h].case = op'[h].case /\ op[h].case \in Cases
            /\ op'[h].answers = op[h].resignation
        BY <2>1, <2>3
      <3>2. resignation[op[h].resignation].case = op[h].case
        BY <3>1, ExitAssumption DEF Withdrawing
      <3>3. QED
        BY <2>1, <3>1, <3>2
    <2>4. QED
      BY <2>2, <2>3
  <1>4. ASSUME NEW h \in Requests, op'[h] # op[h], op'[h].kind = "answer",
               op'[h].answer = "APPROVED"
        PROVE  resignation'[op'[h].resignation].status = "WITHDRAWN"
    <2>1. DecideWithout(h) \/ CancelCommit(h)
      BY <1>4, OwnOp, HandlerSnapshot
    <2>2. CancelCommit(h) => op[h].answers # NoResignation
      BY <1>4 DEF TypeOK, CancelCommit, Finish, Idle
    <2>3. QED
      BY <2>1, <2>2, WithdrawnFirst
  <1>5. QED
    BY <1>1, <1>2, <1>3, <1>4 DEF Withdrawing

\* A step that approves nothing and neither cancels nor moves an exit.
LEMMA RowStep ==
    ASSUME TypeOK, [Next]_vars, Approvers, Followed, Withdrawing, InStep', ~ApprovalStep,
           ~ \E h \in Requests : MoveCommit(h) \/ CancelCommit(h),
           \A r \in Resignations :
               \/ resignation'[r] = resignation[r]
               \/ /\ resignation'[r].status = resignation[r].status
                  /\ resignation'[r].case = resignation[r].case
                  /\ resignation'[r].lwd = resignation[r].lwd
                  /\ resignation'[r].withdrawal = "APPROVED" => resignation[r].status = "WITHDRAWN"
               \/ /\ resignation'[r].case = NoCase /\ Approving(r) = {}
                  /\ resignation'[r].status # "APPROVED"
                  /\ resignation'[r].withdrawal = "APPROVED" =>
                         resignation'[r].status = "WITHDRAWN"
    PROVE  Approvers' /\ Followed'
  <1>1. ASSUME NEW r \in Resignations
        PROVE  Approving(r)' = Approving(r) /\ \A g \in Approving(r) : op'[g] = op[g]
    BY <1>1, SameApprovers
  <1>2. ASSUME NEW r \in Resignations, NEW c \in Cases, LeadsTo(r, c),
               resignation'[r].lwd = resignation[r].lwd
        PROVE  /\ exit'[c].status \in {"INITIATED", "IN_PROGRESS", "COMPLETED"}
               /\ exit'[c].lwd = resignation'[r].lwd
    BY <1>2, ExitsGoOn DEF LeadsTo
  <1>3. Approvers'
    <2> SUFFICES ASSUME NEW r \in Resignations, NEW h \in Approving(r)'
                 PROVE  /\ Approving(r)' = {h}
                        /\ resignation'[r].status = "APPROVED" /\ resignation'[r].case = NoCase
                        /\ op'[h].kind \in {"approve", "initiate"} => op'[h].lwd = resignation'[r].lwd
                        /\ op'[h].kind \in {"announce", "link"} =>
                               /\ exit'[op'[h].case].status \in {"INITIATED", "IN_PROGRESS", "COMPLETED"}
                               /\ exit'[op'[h].case].lwd = resignation'[r].lwd
      BY DEF Approvers, ApprovedAlone, LeadsTo
    <2>1. h \in Approving(r) /\ op'[h] = op[h] /\ Approving(r)' = Approving(r) /\ h \in Requests
      BY <1>1 DEF Approving, InFlight
    <2>2. /\ Approving(r) = {h}
          /\ resignation[r].status = "APPROVED" /\ resignation[r].case = NoCase
          /\ op[h].kind \in {"approve", "initiate"} => op[h].lwd = resignation[r].lwd
          /\ op[h].kind \in {"announce", "link"} => LeadsTo(r, op[h].case)
      BY <2>1 DEF Approvers, ApprovedAlone
    <2>3. /\ resignation'[r].status = resignation[r].status
          /\ resignation'[r].case = resignation[r].case
          /\ resignation'[r].lwd = resignation[r].lwd
      BY <2>2
    <2>4. op[h].kind \in {"announce", "link"} => op[h].case \in Cases
      BY <2>1, Snapshots DEF TypeOK
    <2>5. QED
      BY <1>2, <2>1, <2>2, <2>3, <2>4
  <1>4. Followed'
    <2> SUFFICES ASSUME NEW r \in Resignations
                 PROVE  /\ resignation'[r].status = "APPROVED" /\ Approving(r)' = {} =>
                               /\ resignation'[r].case # NoCase
                               /\ exit'[resignation'[r].case].status
                                      \in {"INITIATED", "IN_PROGRESS", "COMPLETED"}
                               /\ exit'[resignation'[r].case].lwd = resignation'[r].lwd
                        /\ resignation'[r].status = "WITHDRAWN" /\ resignation'[r].case # NoCase =>
                               exit'[resignation'[r].case].status = "CANCELLED"
                        /\ resignation'[r].withdrawal = "APPROVED" =>
                               resignation'[r].status = "WITHDRAWN"
                        /\ resignation'[r].case # NoCase =>
                               resignation'[r].status \in {"APPROVED", "WITHDRAWN"}
      BY DEF Followed, RowFollows, LeadsTo
    <2>1. resignation[r].case \in Cases \cup {NoCase}
      BY DEF TypeOK, ResignationRows
    <2>2. CASE /\ resignation'[r].status = resignation[r].status
               /\ resignation'[r].case = resignation[r].case
               /\ resignation'[r].lwd = resignation[r].lwd
               /\ resignation'[r].withdrawal = "APPROVED" => resignation[r].status = "WITHDRAWN"
      <3>1. resignation'[r].status = "APPROVED" /\ Approving(r)' = {} =>
                /\ resignation'[r].case # NoCase
                /\ exit'[resignation'[r].case].status \in {"INITIATED", "IN_PROGRESS", "COMPLETED"}
                /\ exit'[resignation'[r].case].lwd = resignation'[r].lwd
        BY <1>1, <1>2, <2>1, <2>2 DEF Followed, RowFollows
      <3>2. resignation'[r].status = "WITHDRAWN" /\ resignation'[r].case # NoCase =>
                exit'[resignation'[r].case].status = "CANCELLED"
        BY <2>1, <2>2, ExitsGoOn DEF Followed, RowFollows
      <3>3. resignation'[r].case # NoCase => resignation'[r].status \in {"APPROVED", "WITHDRAWN"}
        BY <2>2 DEF Followed, RowFollows
      <3>4. QED
        BY <2>2, <3>1, <3>2, <3>3
    <2>3. CASE /\ resignation'[r].case = NoCase /\ resignation'[r].status # "APPROVED"
               /\ resignation'[r].withdrawal = "APPROVED" => resignation'[r].status = "WITHDRAWN"
      BY <2>3
    <2>4. resignation'[r] = resignation[r] =>
              (resignation'[r].withdrawal = "APPROVED" => resignation[r].status = "WITHDRAWN")
      BY DEF Followed, RowFollows
    <2>5. QED
      BY <2>2, <2>3, <2>4
  <1>5. QED
    BY <1>3, <1>4

\* Only the handler whose snapshot changes has committed.
LEMMA OneCommit ==
    ASSUME TypeOK, NEW h \in Requests, \A g \in Requests \ {h} : op'[g] = op[g],
           op[h].kind \notin {"move", "cancel"}
    PROVE  ~ \E g \in Requests : MoveCommit(g) \/ CancelCommit(g)
  <1>1. ASSUME NEW g \in Requests, MoveCommit(g) \/ CancelCommit(g)
        PROVE  op[g].kind \in {"move", "cancel"} /\ op'[g].kind \notin {"move", "cancel"}
    BY <1>1 DEF TypeOK, MoveCommit, CancelCommit, Finish, Continue, Idle
  <1>2. QED
    BY <1>1

\* What a handler does about its own resignation leaves the others as they were.
LEMMA OtherRow ==
    ASSUME TypeOK, [Next]_vars, Approvers, Followed, InStep',
           NEW h \in Requests, \A g \in Requests \ {h} : op'[g] = op[g],
           op[h].kind \notin {"move", "cancel"},
           NEW q \in Resignations, resignation'[q] = resignation[q],
           op[h].kind \in ApprovingKinds => op[h].resignation # q,
           op'[h].kind \in ApprovingKinds => op'[h].resignation # q
    PROVE  ApprovedAlone(q)' /\ RowFollows(q)'
  <1>1. Approving(q)' = Approving(q) /\ \A g \in Approving(q) : op'[g] = op[g] /\ g \in Requests
    BY DEF Approving, InFlight, ApprovingKinds
  <1>2. ASSUME NEW c \in Cases, LeadsTo(q, c)
        PROVE  /\ exit'[c].status \in {"INITIATED", "IN_PROGRESS", "COMPLETED"}
               /\ exit'[c].lwd = resignation'[q].lwd
    BY <1>2, ExitsGoOn, OneCommit DEF LeadsTo
  <1>3. ApprovedAlone(q)'
    <2>1. ASSUME NEW g \in Approving(q), op[g].kind \in {"announce", "link"}
          PROVE  op[g].case \in Cases
      BY <1>1, <2>1, Snapshots DEF TypeOK
    <2>2. ApprovedAlone(q)
      BY DEF Approvers
    <2>3. QED
      BY <1>1, <1>2, <2>1, <2>2 DEF ApprovedAlone, LeadsTo
  <1>4. RowFollows(q)'
    <2>1. resignation[q].case \in Cases \cup {NoCase}
      BY DEF TypeOK, ResignationRows
    <2>2. RowFollows(q)
      BY DEF Followed
    <2>3. exit[resignation[q].case].status = "CANCELLED" /\ resignation[q].case # NoCase =>
              exit'[resignation[q].case].status = "CANCELLED"
      BY <2>1, ExitsGoOn
    <2>4. QED
      BY <1>1, <1>2, <2>1, <2>2, <2>3 DEF RowFollows, LeadsTo
  <1>5. QED
    BY <1>3, <1>4

\* approve: whoever flips the resignation has it alone.
LEMMA RecordsFlip ==
    ASSUME TypeOK, [Next]_vars, Approvers, Followed, InStep', NEW h \in Requests,
           NEW r \in Resignations, NEW d \in LastDays, ApproveFlip(h, r, d)
    PROVE  Approvers' /\ Followed'
  <1>1. /\ op[h] = Idle /\ \A g \in Requests \ {h} : op'[g] = op[g]
        /\ op'[h] = [kind |-> "approve", resignation |-> r, lwd |-> d]
    BY DEF TypeOK, ApproveFlip, Start
  <1>2. /\ resignation[r].status = "PENDING"
        /\ resignation'[r].status = "APPROVED" /\ resignation'[r].lwd = d
        /\ resignation'[r].case = resignation[r].case
        /\ resignation'[r].withdrawal = resignation[r].withdrawal
        /\ \A q \in Resignations \ {r} : resignation'[q] = resignation[q]
    BY DEF TypeOK, ResignationRows, ApproveFlip
  <1>3. Approving(r) = {} /\ resignation[r].case = NoCase /\ resignation[r].withdrawal # "APPROVED"
    BY <1>2 DEF Approvers, ApprovedAlone, Followed, RowFollows
  <1>4. Approving(r)' = {h}
    BY <1>1, <1>3 DEF Approving, InFlight
  <1>5. ApprovedAlone(r)' /\ RowFollows(r)'
    BY <1>1, <1>2, <1>3, <1>4 DEF ApprovedAlone, RowFollows
  <1>6. ASSUME NEW q \in Resignations \ {r} PROVE ApprovedAlone(q)' /\ RowFollows(q)'
    BY <1>1, <1>2, <1>6, OtherRow DEF Idle, ApprovingKinds
  <1>7. QED
    BY <1>5, <1>6 DEF Approvers, Followed

\* ... and takes it back alone, when no exit could be started.
LEMMA RecordsRevert ==
    ASSUME TypeOK, [Next]_vars, Approvers, Followed, InStep', NEW h \in Requests,
           ApproveRevert(h)
    PROVE  Approvers' /\ Followed'
  <1>0. PICK r \in Resignations : r = op[h].resignation
    BY Snapshots DEF TypeOK, ApproveRevert
  <1>1. /\ op[h].resignation = r /\ op[h].kind \in {"approve", "initiate"}
        /\ op'[h] = Idle /\ \A g \in Requests \ {h} : op'[g] = op[g]
    BY <1>0 DEF TypeOK, ApproveRevert, Finish, Fell, InStep
  <1>2. /\ resignation'[r].status = "PENDING"
        /\ resignation'[r].case = resignation[r].case
        /\ resignation'[r].withdrawal = resignation[r].withdrawal
        /\ \A q \in Resignations \ {r} : resignation'[q] = resignation[q]
    BY <1>1 DEF TypeOK, ResignationRows, ApproveRevert
  <1>3. h \in Approving(r)
    BY <1>1 DEF Approving, InFlight
  <1>4. /\ Approving(r) = {h} /\ resignation[r].case = NoCase
        /\ resignation[r].withdrawal # "APPROVED"
    BY <1>1, <1>3 DEF Approvers, ApprovedAlone, Followed, RowFollows
  <1>5. Approving(r)' = {}
    BY <1>1, <1>4 DEF Approving, InFlight, Idle
  <1>6. ApprovedAlone(r)' /\ RowFollows(r)'
    BY <1>2, <1>4, <1>5 DEF ApprovedAlone, RowFollows
  <1>7. ASSUME NEW q \in Resignations \ {r} PROVE ApprovedAlone(q)' /\ RowFollows(q)'
    BY <1>1, <1>2, <1>7, OtherRow DEF Idle, ApprovingKinds
  <1>8. QED
    BY <1>6, <1>7 DEF Approvers, Followed

\* approve goes on to initiate with the day it approved.
LEMMA RecordsApproveInitiate ==
    ASSUME TypeOK, [Next]_vars, Approvers, Followed, InStep', NEW h \in Requests,
           ApproveInitiate(h)
    PROVE  Approvers' /\ Followed'
  <1>0. PICK r \in Resignations : r = op[h].resignation
    BY Snapshots DEF TypeOK, ApproveInitiate
  <1>1. /\ op[h].resignation = r /\ op[h].kind = "approve"
        /\ \A g \in Requests \ {h} : op'[g] = op[g]
        /\ op'[h].kind = "initiate" /\ op'[h].resignation = r /\ op'[h].lwd = op[h].lwd
        /\ resignation' = resignation
    BY <1>0 DEF TypeOK, ApproveInitiate, Continue
  <1>2. h \in Approving(r)
    BY <1>1 DEF Approving, InFlight
  <1>3. ApprovedAlone(r) /\ RowFollows(r) /\ Approving(r) = {h}
    BY <1>1, <1>2 DEF Approvers, ApprovedAlone, Followed
  <1>4. Approving(r)' = {h}
    BY <1>1, <1>3 DEF Approving, InFlight
  <1>5. ApprovedAlone(r)' /\ RowFollows(r)'
    BY <1>1, <1>3, <1>4 DEF ApprovedAlone, RowFollows
  <1>6. ASSUME NEW q \in Resignations \ {r} PROVE ApprovedAlone(q)' /\ RowFollows(q)'
    BY <1>1, <1>6, OtherRow DEF ApprovingKinds
  <1>7. QED
    BY <1>5, <1>6 DEF Approvers, Followed

\* The exit begins on the day that was approved.
LEMMA RecordsInitiate ==
    ASSUME TypeOK, [Next]_vars, Approvers, Followed, InStep', NEW h \in Requests,
           NEW c \in Cases, InitiateCommit(h, c)
    PROVE  Approvers' /\ Followed'
  <1>0. PICK r \in Resignations \cup {NoResignation} : r = op[h].resignation
    BY Snapshots DEF TypeOK, InitiateCommit
  <1>1. /\ op[h].resignation = r /\ op[h].kind = "initiate"
        /\ \A g \in Requests \ {h} : op'[g] = op[g]
        /\ op'[h] = IF r = NoResignation THEN Idle
                    ELSE [kind |-> "announce", resignation |-> r, case |-> c]
        /\ resignation' = resignation
    BY <1>0 DEF TypeOK, InitiateCommit, Continue, Finish
  <1>2. exit'[c].status = "INITIATED" /\ exit'[c].lwd = op[h].lwd
    BY DEF TypeOK, InitiateCommit
  <1>3. ASSUME NEW q \in Resignations \ {r} PROVE ApprovedAlone(q)' /\ RowFollows(q)'
    <2>1. op'[h].kind \in ApprovingKinds => op'[h].resignation # q
      BY <1>1, <1>3 DEF Idle, ApprovingKinds
    <2>2. QED
      BY <1>1, <1>3, <2>1, OtherRow
  <1>4. ASSUME r \in Resignations PROVE ApprovedAlone(r)' /\ RowFollows(r)'
    <2>1. /\ op'[h].kind = "announce" /\ op'[h].resignation = r /\ op'[h].case = c
      BY <1>1, <1>4, ExitAssumption
    <2>2. h \in Approving(r)
      BY <1>1 DEF Approving, InFlight
    <2>3. ApprovedAlone(r) /\ RowFollows(r) /\ Approving(r) = {h}
      BY <1>4, <2>2 DEF Approvers, ApprovedAlone, Followed
    <2>4. Approving(r)' = {h}
      BY <1>1, <2>1, <2>3 DEF Approving, InFlight
    <2>5. op[h].lwd = resignation[r].lwd /\ resignation[r].status = "APPROVED"
          /\ resignation[r].case = NoCase
      BY <1>1, <2>2, <2>3 DEF ApprovedAlone
    <2>6. ApprovedAlone(r)'
      BY <1>1, <1>2, <2>1, <2>4, <2>5 DEF ApprovedAlone, LeadsTo
    <2>7. RowFollows(r)'
      BY <1>1, <2>3, <2>4, <2>5 DEF RowFollows
    <2>8. QED
      BY <2>6, <2>7
  <1>5. QED
    BY <1>3, <1>4 DEF Approvers, Followed

\* The exit is announced: who approved still holds the resignation.
LEMMA RecordsAnnounce ==
    ASSUME TypeOK, [Next]_vars, Approvers, Followed, InStep', NEW h \in Requests, Announce(h)
    PROVE  Approvers' /\ Followed'
  <1>0. PICK r \in Resignations : r = op[h].resignation
    BY Snapshots DEF TypeOK, Announce
  <1>1. /\ op[h].resignation = r /\ op[h].kind = "announce" /\ op[h].case \in Cases
        /\ \A g \in Requests \ {h} : op'[g] = op[g]
        /\ resignation' = resignation /\ exit' = exit
    BY <1>0, Snapshots DEF TypeOK, Announce, Continue
  <1>2. op'[h].kind = "link" /\ op'[h].resignation = r /\ op'[h].case = op[h].case
    <2>1. op[h] \in [kind : {"announce", "link"}, resignation : Resignations, case : Cases]
      BY <1>1 DEF TypeOK, Ops, Idle
    <2>2. op'[h] = [op[h] EXCEPT !.kind = "link"]
      BY DEF TypeOK, Announce, Continue
    <2>3. QED
      BY <1>1, <2>1, <2>2
  <1>3. h \in Approving(r)
    BY <1>1 DEF Approving, InFlight
  <1>4. ApprovedAlone(r) /\ RowFollows(r) /\ Approving(r) = {h}
    BY <1>3 DEF Approvers, ApprovedAlone, Followed
  <1>5. Approving(r)' = {h}
    BY <1>1, <1>2, <1>4 DEF Approving, InFlight
  <1>6. ApprovedAlone(r)'
    <2>1. /\ resignation[r].status = "APPROVED" /\ resignation[r].case = NoCase
          /\ exit[op[h].case].status \in {"INITIATED", "IN_PROGRESS", "COMPLETED"}
          /\ exit[op[h].case].lwd = resignation[r].lwd
      BY <1>1, <1>3, <1>4 DEF ApprovedAlone, LeadsTo
    <2>2. QED
      BY <1>1, <1>2, <1>5, <2>1 DEF ApprovedAlone, LeadsTo
  <1>7. RowFollows(r)'
    BY <1>1, <1>4, <1>5 DEF RowFollows, LeadsTo
  <1>8. ASSUME NEW q \in Resignations \ {r} PROVE ApprovedAlone(q)' /\ RowFollows(q)'
    BY <1>1, <1>2, <1>8, OtherRow DEF ApprovingKinds
  <1>9. QED
    BY <1>6, <1>7, <1>8 DEF Approvers, Followed

\* The resignation names the exit it led to.
LEMMA RecordsLink ==
    ASSUME TypeOK, [Next]_vars, Approvers, Followed, InStep', NEW h \in Requests, LinkCase(h)
    PROVE  Approvers' /\ Followed'
  <1>0. PICK r \in Resignations : r = op[h].resignation
    BY Snapshots DEF TypeOK, LinkCase
  <1>1. /\ op[h].resignation = r /\ op[h].kind = "link" /\ op[h].case \in Cases
        /\ \A g \in Requests \ {h} : op'[g] = op[g]
        /\ op'[h].kind = "prepare" /\ exit' = exit
    BY <1>0, Snapshots DEF TypeOK, LinkCase, Continue
  <1>2. /\ resignation'[r].status = resignation[r].status
        /\ resignation'[r].lwd = resignation[r].lwd
        /\ resignation'[r].case = op[h].case
        /\ resignation'[r].withdrawal = resignation[r].withdrawal
        /\ \A q \in Resignations \ {r} : resignation'[q] = resignation[q]
    BY <1>1 DEF TypeOK, ResignationRows, LinkCase
  <1>3. h \in Approving(r)
    BY <1>1 DEF Approving, InFlight
  <1>4. /\ Approving(r) = {h} /\ resignation[r].status = "APPROVED"
        /\ LeadsTo(r, op[h].case) /\ RowFollows(r)
    BY <1>1, <1>3 DEF Approvers, ApprovedAlone, Followed
  <1>5. Approving(r)' = {}
    BY <1>1, <1>4 DEF Approving, InFlight
  <1>6. op[h].case # NoCase
    BY <1>1, ExitAssumption
  <1>7. ApprovedAlone(r)' /\ RowFollows(r)'
    BY <1>1, <1>2, <1>4, <1>5, <1>6 DEF ApprovedAlone, RowFollows, LeadsTo
  <1>8. ASSUME NEW q \in Resignations \ {r} PROVE ApprovedAlone(q)' /\ RowFollows(q)'
    BY <1>1, <1>2, <1>8, OtherRow DEF ApprovingKinds
  <1>9. QED
    BY <1>7, <1>8 DEF Approvers, Followed

\* A move takes the day of the resignation along.
LEMMA RecordsMove ==
    ASSUME TypeOK, [Next]_vars, Approvers, Followed, InStep', NEW h \in Requests, MoveCommit(h)
    PROVE  Approvers' /\ Followed'
  <1>0. PICK c \in Cases : c = op[h].case
    BY Snapshots DEF TypeOK, MoveCommit
  <1>1. /\ op[h].kind = "move" /\ op'[h] = Idle /\ \A g \in Requests \ {h} : op'[g] = op[g]
        /\ \A g \in InFlight({"announce", "link"}) : op[g].case # c
    BY <1>0 DEF TypeOK, MoveCommit, Finish, InStep, Linking
  <1>2. /\ exit'[c].status = exit[c].status /\ exit'[c].lwd = op[h].lwd
        /\ \A d \in Cases \ {c} : exit'[d] = exit[d]
    BY <1>0 DEF TypeOK, CaseRows, MoveCommit
  <1>3. ASSUME NEW r \in Resignations
        PROVE  /\ resignation'[r].status = resignation[r].status
               /\ resignation'[r].case = resignation[r].case
               /\ resignation'[r].withdrawal = resignation[r].withdrawal
               /\ resignation'[r].lwd = IF resignation[r].case = c /\ resignation[r].status = "APPROVED"
                                        THEN op[h].lwd ELSE resignation[r].lwd
    BY <1>0 DEF TypeOK, ResignationRows, MoveCommit
  <1>4. \A r \in Resignations :
            Approving(r)' = Approving(r) /\ \A g \in Approving(r) : op'[g] = op[g] /\ g \in Requests
    BY <1>1, ApproversKept DEF Idle, Approving, InFlight, ApprovingKinds
  <1>5. ASSUME NEW r \in Resignations PROVE ApprovedAlone(r)'
    <2>1. ApprovedAlone(r)
      BY DEF Approvers
    <2>2. ASSUME NEW g \in Approving(r), op[g].kind \in {"announce", "link"}
          PROVE  op[g].case \in Cases \ {c}
      BY <1>1, <1>4, <2>2, Snapshots DEF TypeOK, InFlight
    <2>3. ASSUME NEW g \in Approving(r)
          PROVE  resignation'[r].lwd = resignation[r].lwd
      BY <1>3, <2>1, ExitAssumption DEF ApprovedAlone
    <2>4. QED
      BY <1>2, <1>3, <1>4, <2>1, <2>2, <2>3 DEF ApprovedAlone, LeadsTo
  <1>6. ASSUME NEW r \in Resignations PROVE RowFollows(r)'
    <2>1. RowFollows(r) /\ resignation[r].case \in Cases \cup {NoCase}
      BY DEF Followed, TypeOK, ResignationRows
    <2>2. QED
      BY <1>2, <1>3, <1>4, <2>1 DEF RowFollows, LeadsTo
  <1>7. QED
    BY <1>5, <1>6 DEF Approvers, Followed

\* A cancellation withdraws the resignation that led to the exit.
LEMMA RecordsCancel ==
    ASSUME TypeOK, [Next]_vars, Approvers, Followed, Withdrawing, InStep', NEW h \in Requests,
           CancelCommit(h)
    PROVE  Approvers' /\ Followed'
  <1>0. PICK c \in Cases : c = op[h].case
    BY Snapshots DEF TypeOK, CancelCommit
  <1>1. /\ op[h].kind = "cancel" /\ op'[h].kind \in {"idle", "answer"}
        /\ \A g \in Requests \ {h} : op'[g] = op[g]
    BY <1>0 DEF TypeOK, CancelCommit, Finish, Continue, Idle
  <1>2. /\ \A g \in InFlight({"announce", "link"}) : op[g].case # c
        /\ exit[c].status # "COMPLETED"
        /\ op[h].open \in BOOLEAN
        /\ ~op[h].open => exit[c].status = "CANCELLED"
    BY <1>0, <1>1, Snapshots DEF TypeOK, CancelCommit, InStep, Withdrawing, Linking
  <1>3. /\ exit'[c].lwd = exit[c].lwd
        /\ exit[c].status = "NONE" => exit'[c] = exit[c]
        /\ exit[c].status # "NONE" => exit'[c].status = "CANCELLED"
        /\ \A d \in Cases \ {c} : exit'[d] = exit[d]
    BY <1>0, <1>2 DEF TypeOK, CaseRows, CaseStatuses, CancelCommit, NotCompleted
  <1>4. ASSUME NEW r \in Resignations
        PROVE  /\ resignation'[r].case = resignation[r].case
               /\ resignation'[r].withdrawal = resignation[r].withdrawal
               /\ resignation'[r].lwd = resignation[r].lwd
               /\ resignation'[r].status =
                      IF NotCompleted(c) /\ op[h].open
                            /\ resignation[r].case = c /\ resignation[r].status = "APPROVED"
                      THEN "WITHDRAWN" ELSE resignation[r].status
    BY <1>0 DEF TypeOK, ResignationRows, CancelCommit, ClosedWith
  <1>5. \A r \in Resignations :
            Approving(r)' = Approving(r) /\ \A g \in Approving(r) : op'[g] = op[g] /\ g \in Requests
    BY <1>1, ApproversKept DEF Approving, InFlight, ApprovingKinds
  <1>6. ASSUME NEW r \in Resignations PROVE ApprovedAlone(r)'
    <2>1. ApprovedAlone(r)
      BY DEF Approvers
    <2>2. ASSUME NEW g \in Approving(r), op[g].kind \in {"announce", "link"}
          PROVE  op[g].case \in Cases \ {c}
      BY <1>2, <1>5, <2>2, Snapshots DEF TypeOK, InFlight
    <2>3. ASSUME NEW g \in Approving(r)
          PROVE  resignation'[r].status = resignation[r].status
      BY <1>4, <2>1, ExitAssumption DEF ApprovedAlone
    <2>4. QED
      BY <1>3, <1>4, <1>5, <2>1, <2>2, <2>3 DEF ApprovedAlone, LeadsTo
  <1>7. ASSUME NEW r \in Resignations PROVE RowFollows(r)'
    <2>1. RowFollows(r) /\ resignation[r].case \in Cases \cup {NoCase}
      BY DEF Followed, TypeOK, ResignationRows
    <2>2. CASE resignation[r].case # c
      <3>1. resignation'[r].status = resignation[r].status
        BY <1>4, <2>2
      <3>2. QED
        BY <1>3, <1>4, <1>5, <2>1, <2>2, <3>1 DEF RowFollows, LeadsTo
    <2>3. CASE resignation[r].case = c
      <3>1. c # NoCase /\ resignation[r].status \in {"APPROVED", "WITHDRAWN"} /\ Approving(r) = {}
        BY <2>1, <2>3, ExitAssumption DEF RowFollows, Approvers, ApprovedAlone
      <3>2. exit[c].status # "NONE" /\ exit'[c].status = "CANCELLED"
        BY <1>3, <2>1, <2>3, <3>1 DEF RowFollows, LeadsTo
      <3>3. resignation[r].status = "APPROVED" => NotCompleted(c) /\ op[h].open
        BY <1>2, <2>1, <2>3, <3>1 DEF RowFollows, LeadsTo, NotCompleted
      <3>4. resignation'[r].status = "WITHDRAWN"
        BY <1>4, <2>3, <3>1, <3>3
      <3>5. QED
        BY <1>4, <2>3, <3>2, <3>4 DEF RowFollows
    <2>4. QED
      BY <2>2, <2>3
  <1>8. QED
    BY <1>6, <1>7 DEF Approvers, Followed

\* The other steps that write a resignation are its requests, refusals and answers.
LEMMA RowSteps ==
    ASSUME TypeOK, [Next]_vars, Approvers, Followed, Withdrawing, InStep', ~ApprovalStep,
           ~ \E h \in Requests : MoveCommit(h) \/ CancelCommit(h),
           NEW r \in Resignations
    PROVE  \/ resignation'[r] = resignation[r]
           \/ /\ resignation'[r].status = resignation[r].status
              /\ resignation'[r].case = resignation[r].case
              /\ resignation'[r].lwd = resignation[r].lwd
              /\ resignation'[r].withdrawal = "APPROVED" => resignation[r].status = "WITHDRAWN"
           \/ /\ resignation'[r].case = NoCase /\ Approving(r) = {}
              /\ resignation'[r].status # "APPROVED"
              /\ resignation'[r].withdrawal = "APPROVED" => resignation'[r].status = "WITHDRAWN"
  <1>1. /\ resignation[r].status # "APPROVED" => Approving(r) = {}
        /\ resignation[r].case # NoCase => resignation[r].status \in {"APPROVED", "WITHDRAWN"}
        /\ resignation[r].withdrawal = "APPROVED" => resignation[r].status = "WITHDRAWN"
    BY DEF Approvers, ApprovedAlone, Followed, RowFollows
  <1>2. ASSUME NEW h \in Requests, SubmitCommit(h), op[h].resignation = r
        PROVE  /\ resignation'[r].case = NoCase /\ Approving(r) = {}
               /\ resignation'[r].status # "APPROVED" /\ resignation'[r].withdrawal # "APPROVED"
    BY <1>1, <1>2 DEF TypeOK, ResignationRows, SubmitCommit
  <1>3. ASSUME NEW h \in Requests, DecideWithout(h), op[h].resignation = r
        PROVE  /\ resignation'[r].case = NoCase /\ Approving(r) = {}
               /\ resignation'[r].status = "WITHDRAWN"
    BY <1>3 DEF TypeOK, ResignationRows, DecideWithout, Fell, InStep
  <1>4. ASSUME NEW h \in Requests, Answer(h), op[h].resignation = r
        PROVE  /\ resignation'[r].status = resignation[r].status
               /\ resignation'[r].case = resignation[r].case
               /\ resignation'[r].lwd = resignation[r].lwd
               /\ resignation'[r].withdrawal = "APPROVED" => resignation[r].status = "WITHDRAWN"
    <2>1. op[h].answer = "APPROVED" => resignation[r].status = "WITHDRAWN"
      BY <1>4 DEF Answer, Withdrawing
    <2>2. QED
      BY <1>1, <1>4, <2>1 DEF TypeOK, ResignationRows, Answer
  <1>5. ASSUME NEW h \in Requests, SubmitCommit(h) \/ DecideWithout(h) \/ Answer(h),
               op[h].resignation # r
        PROVE  resignation'[r] = resignation[r]
    BY <1>5 DEF TypeOK, SubmitCommit, DecideWithout, Answer
  <1>6. ASSUME NEW q \in Resignations, NEW status \in {"WITHDRAWN", "REJECTED"}, Close(q, status)
        PROVE  \/ resignation'[r] = resignation[r]
               \/ /\ resignation'[r].case = NoCase /\ Approving(r) = {}
                  /\ resignation'[r].status # "APPROVED" /\ resignation'[r].withdrawal # "APPROVED"
    BY <1>1, <1>6 DEF TypeOK, ResignationRows, Close
  <1>7. ASSUME NEW q \in Resignations, RequestWithdrawal(q)
        PROVE  \/ resignation'[r] = resignation[r]
               \/ /\ resignation'[r].status = resignation[r].status
                  /\ resignation'[r].case = resignation[r].case
                  /\ resignation'[r].lwd = resignation[r].lwd
                  /\ resignation'[r].withdrawal # "APPROVED"
    BY <1>7 DEF TypeOK, ResignationRows, RequestWithdrawal
  <1>8. CASE RecordStep
    BY <1>2, <1>3, <1>4, <1>5, <1>6, <1>7, <1>8 DEF RecordStep, ApprovalStep
  <1>9. CASE UNCHANGED resignation
    BY <1>9
  <1>10. QED
    BY <1>8, <1>9, RecordsKept

\* Whose exit it is, is settled when it begins.
LEMMA OfKept ==
    ASSUME TypeOK, [Next]_vars, NEW c \in Cases
    PROVE  \/ exit'[c].of = exit[c].of
           \/ \E h \in Requests : InitiateCommit(h, c)
  <1>1. exit \in [Cases -> CaseRows] /\ exit[c] \in CaseRows
    BY DEF TypeOK
  <1>2. CASE Calculation
    BY <1>1, <1>2, Calculated DEF CaseRows
  <1>3. ASSUME NEW h \in Requests, NEW d \in Cases, InitiateCommit(h, d), d # c
        PROVE  exit'[c].of = exit[c].of
    BY <1>1, <1>3 DEF InitiateCommit
  <1>4. ASSUME NEW h \in Requests, NEW done \in BOOLEAN, ChecklistCommit(h, done)
        PROVE  exit'[c].of = exit[c].of
    BY <1>1, <1>4 DEF ChecklistCommit, CaseRows
  <1>5. ASSUME NEW h \in Requests, MoveCommit(h) \/ CompleteCommit(h) \/ CancelCommit(h)
        PROVE  exit'[c].of = exit[c].of
    BY <1>1, <1>5 DEF MoveCommit, CompleteCommit, CancelCommit, CaseRows
  <1>6. CASE Process \/ Reverse \/ MarkPaid \/ DiscardDraft
    <2>1. CASE DiscardDraft
      BY <1>1, <2>1 DEF DiscardDraft, CaseRows
    <2>2. CASE Process \/ Reverse \/ MarkPaid
      BY <2>2 DEF Process, Reverse, MarkPaid
    <2>3. QED
      BY <1>6, <2>1, <2>2
  <1>7. CASE Touch
    BY <1>2, <1>3, <1>4, <1>5, <1>6, <1>7 DEF Touch
  <1>8. QED
    BY <1>7, Untouched

\* A resignation that has its exit, or whose approver has, stays approved until the
\* exit is called off.
LEMMA StaysApproved ==
    ASSUME TypeOK, [Next]_vars, Approvers, InStep', NEW r \in Resignations, NEW c \in Cases,
           resignation[r].status = "APPROVED", Known(r, c)
    PROVE  \/ resignation'[r].status = "APPROVED"
           \/ /\ resignation[r].case = c
              /\ \E h \in Requests : CancelCommit(h) /\ op[h].case = c /\ NotCompleted(c)
  <1> DEFINE Kept == resignation'[r].status = "APPROVED"
  <1>1. resignation \in [Resignations -> ResignationRows] /\ resignation[r] \in ResignationRows
        /\ c # NoCase
    BY ExitAssumption DEF TypeOK
  <1>2. /\ Linking(c) \subseteq InFlight({"announce", "link"})
        /\ resignation[r].case # c => \E h \in Approving(r) : op[h].kind \in {"announce", "link"}
    BY DEF Known, Linking, Approving, InFlight
  <1>3. resignation[r].case # c => resignation[r].case = NoCase
    BY <1>2 DEF Approvers, ApprovedAlone
  <1>4. ASSUME NEW h \in Requests, ApproveRevert(h) PROVE Kept
    <2>1. CASE op[h].resignation # r
      BY <1>1, <1>4, <2>1 DEF ApproveRevert
    <2>2. CASE op[h].resignation = r
      <3>1. op[h].kind \in {"approve", "initiate"}
        BY <1>4 DEF ApproveRevert, Fell, InStep
      <3>2. h \in Approving(r)
        BY <2>2, <3>1 DEF Approving, InFlight
      <3>3. Approving(r) = {h} /\ resignation[r].case = NoCase
        BY <3>2 DEF Approvers, ApprovedAlone
      <3>4. QED
        BY <1>1, <1>2, <3>1, <3>3
    <2>3. QED
      BY <2>1, <2>2
  <1>5. ASSUME NEW h \in Requests, DecideWithout(h) PROVE Kept
    <2>1. CASE op[h].resignation # r
      BY <1>1, <1>5, <2>1 DEF DecideWithout
    <2>2. CASE op[h].resignation = r
      BY <1>1, <1>2, <1>5, <2>2 DEF DecideWithout, Fell, InStep
    <2>3. QED
      BY <2>1, <2>2
  <1>6. ASSUME NEW h \in Requests, CancelCommit(h)
        PROVE  Kept \/ (resignation[r].case = c /\ op[h].case = c /\ NotCompleted(c))
    <2>1. op[h].case \in Cases
      BY <1>6, Snapshots DEF TypeOK, CancelCommit
    <2>2. CASE resignation[r].case = op[h].case /\ NotCompleted(op[h].case)
      BY <1>1, <1>3, <2>1, <2>2, ExitAssumption
    <2>3. CASE resignation[r].case # op[h].case
      BY <1>1, <1>6, <2>3 DEF CancelCommit, ClosedWith
    <2>4. CASE ~NotCompleted(op[h].case)
      BY <1>1, <1>6, <2>4 DEF CancelCommit
    <2>5. QED
      BY <2>2, <2>3, <2>4
  <1>7. ASSUME NEW h \in Requests,
               \/ SubmitCommit(h) \/ LinkCase(h) \/ Answer(h) \/ MoveCommit(h)
               \/ \E q \in Resignations, d \in LastDays : ApproveFlip(h, q, d)
        PROVE  Kept
    <2>1. CASE SubmitCommit(h) \/ \E q \in Resignations, d \in LastDays : ApproveFlip(h, q, d)
      BY <1>1, <2>1 DEF SubmitCommit, ApproveFlip, ResignationRows
    <2>2. CASE LinkCase(h)
      BY <1>1, <2>2 DEF LinkCase, ResignationRows
    <2>3. CASE Answer(h)
      BY <1>1, <2>3 DEF Answer, ResignationRows
    <2>4. CASE MoveCommit(h)
      BY <1>1, <2>4 DEF MoveCommit, ResignationRows
    <2>5. QED
      BY <1>7, <2>1, <2>2, <2>3, <2>4
  <1>8. ASSUME NEW q \in Resignations,
               \/ \E status \in {"WITHDRAWN", "REJECTED"} : Close(q, status)
               \/ RequestWithdrawal(q)
        PROVE  Kept
    BY <1>1, <1>8 DEF Close, RequestWithdrawal, ResignationRows
  <1>9. CASE RecordStep
    BY <1>4, <1>5, <1>6, <1>7, <1>8, <1>9 DEF RecordStep
  <1>10. QED
    BY <1>9, RecordsKept

\* What may follow the commit of initiate.
LEMMA AfterCommit ==
    ASSUME NEW h \in Requests, HandlerStep(h), op[h].kind \in {"announce", "link"}
    PROVE  Announce(h) \/ LinkCase(h) \/ ApproveRevert(h) \/ GiveUp(h)
  <1>0. op[h] # Idle
    BY DEF Idle
  <1>1. ~ \/ \E r \in Resignations : SubmitRead(h, r)
          \/ \E r \in Resignations, approve \in BOOLEAN : DecideRead(h, r, approve)
          \/ \E d \in LastDays, type \in ExitTypes : InitiateRead(h, d, type)
          \/ \E c \in Cases, d \in LastDays : MoveRead(h, c, d)
          \/ \E r \in Resignations, d \in LastDays : ApproveFlip(h, r, d)
    BY <1>0 DEF SubmitRead, DecideRead, InitiateRead, MoveRead, ApproveFlip, Start
  <1>2. ~ \E c \in Cases : \/ SweepRead(h, c) \/ LinkRead(h, c) \/ ChecklistRead(h, c)
                           \/ CompleteRead(h, c) \/ CancelRead(h, c)
    BY <1>0 DEF SweepRead, LinkRead, ChecklistRead, CompleteRead, CancelRead, Start
  <1>3. ~ (ApproveInitiate(h) \/ PrepareRead(h) \/ SweepLook(h) \/ DecideCancel(h))
    BY DEF ApproveInitiate, PrepareRead, SweepLook, DecideCancel
  <1>4. ~ \/ SubmitCommit(h) \/ (\E c \in Cases : InitiateCommit(h, c)) \/ DraftCommit(h)
          \/ AttachCommit(h) \/ DecideWithout(h) \/ Answer(h)
    BY DEF SubmitCommit, InitiateCommit, DraftCommit, AttachCommit, DecideWithout, Answer
  <1>5. ~ \/ \E done \in BOOLEAN : ChecklistCommit(h, done)
          \/ MoveCommit(h) \/ CompleteCommit(h) \/ CancelCommit(h)
    BY DEF ChecklistCommit, MoveCommit, CompleteCommit, CancelCommit
  <1>6. QED
    BY <1>1, <1>2, <1>3, <1>4, <1>5 DEF HandlerStep, Look

\* ... and knows it.
LEMMA StaysKnown ==
    ASSUME TypeOK, [Next]_vars, Approvers, Followed, InStep', NEW r \in Resignations,
           NEW c \in Cases, Known(r, c)
    PROVE  Known(r, c)'
  <1>1. CASE resignation[r].case = c
    BY <1>1, RecordsStand, ExitAssumption DEF Known
  <1>2. ASSUME NEW h \in Linking(c), op[h].resignation = r
        PROVE  Known(r, c)'
    <2>1. h \in Requests /\ op[h].kind \in {"announce", "link"} /\ op[h].case = c
      BY <1>2 DEF Linking, InFlight
    <2>2. h \in Approving(r)
      BY <1>2, <2>1 DEF Approving, InFlight
    <2>3. CASE op'[h] = op[h]
      BY <1>2, <2>1, <2>3 DEF Known, Linking, InFlight
    <2>4. CASE op'[h] # op[h]
      <3>1. HandlerStep(h)
        BY <2>1, <2>4, NewOp
      <3>2. Announce(h) \/ LinkCase(h)
        <4>1. ~ApproveRevert(h)
          <5>1. SUFFICES ASSUME ApproveRevert(h) PROVE FALSE
            OBVIOUS
          <5>2. op[h].kind \in {"approve", "initiate"}
            BY <5>1 DEF ApproveRevert, Fell, InStep
          <5>3. QED
            BY <2>1, <5>2
        <4>2. ~GiveUp(h)
          BY <2>2 DEF GiveUp, Fell, InStep
        <4>3. QED
          BY <2>1, <3>1, <4>1, <4>2, AfterCommit
      <3>3. CASE Announce(h)
        <4>1. op[h] \in [kind : {"announce", "link"}, resignation : Resignations, case : Cases]
          BY <2>1 DEF TypeOK, Ops, Idle
        <4>2. op'[h] = [op[h] EXCEPT !.kind = "link"]
          BY <2>1, <3>3 DEF TypeOK, Announce, Continue
        <4>3. op'[h].kind = "link" /\ op'[h].resignation = r /\ op'[h].case = c
          BY <1>2, <2>1, <4>1, <4>2
        <4>4. QED
          BY <2>1, <4>3 DEF Known, Linking, InFlight
      <3>4. CASE LinkCase(h)
        <4>1. resignation'[r].case = c
          BY <1>2, <2>1, <3>4 DEF TypeOK, ResignationRows, LinkCase
        <4>2. QED
          BY <4>1 DEF Known
      <3>5. QED
        BY <3>2, <3>3, <3>4
    <2>5. QED
      BY <2>3, <2>4
  <1>3. QED
    BY <1>1, <1>2 DEF Known

\* An exit under way or over has its resignation, approved.
LEMMA OwnedStep ==
    ASSUME TypeOK, [Next]_vars, Approvers, Followed, Owned, InStep',
           NEW r \in Resignations, NEW c \in Cases
    PROVE  OwnedBy(r, c)'
  <1> SUFFICES ASSUME exit'[c].of = r, exit'[c].status # "CANCELLED"
               PROVE  resignation'[r].status = "APPROVED" /\ Known(r, c)'
    BY DEF OwnedBy
  <1>1. CASE \E h \in Requests : InitiateCommit(h, c)
    <2>1. PICK h \in Requests : InitiateCommit(h, c)
      BY <1>1
    <2>2. op[h].resignation = r /\ op[h].kind = "initiate"
      BY <2>1 DEF TypeOK, InitiateCommit
    <2>3. h \in Approving(r)
      BY <2>2 DEF Approving, InFlight
    <2>4. resignation[r].status = "APPROVED"
      BY <2>3 DEF Approvers, ApprovedAlone
    <2>5. op'[h] = [kind |-> "announce", resignation |-> r, case |-> c]
      BY <2>1, <2>2, ExitAssumption DEF TypeOK, InitiateCommit, Continue
    <2>6. resignation' = resignation
      BY <2>1 DEF InitiateCommit
    <2>7. QED
      BY <2>4, <2>5, <2>6 DEF Known, Linking, InFlight
  <1>2. CASE ~ \E h \in Requests : InitiateCommit(h, c)
    <2>1. exit[c].of = r
      BY <1>2, OfKept
    <2>2. exit[c].status # "CANCELLED"
      BY ExitsGoOn
    <2>3. resignation[r].status = "APPROVED" /\ Known(r, c)
      BY <2>1, <2>2 DEF Owned, OwnedBy
    <2>4. ~ \E h \in Requests : CancelCommit(h) /\ op[h].case = c /\ NotCompleted(c)
      <3>1. SUFFICES ASSUME NEW h \in Requests, CancelCommit(h), op[h].case = c, NotCompleted(c)
                     PROVE  FALSE
        OBVIOUS
      <3>2. exit'[c].status = "CANCELLED"
        BY <3>1 DEF TypeOK, CancelCommit, CaseRows
      <3>3. QED
        BY <3>2
    <2>5. QED
      BY <2>3, <2>4, StaysApproved, StaysKnown
  <1>3. QED
    BY <1>1, <1>2

LEMMA RecordsStep == TypeOK /\ RecordsHeld /\ [Next]_vars => RecordsHeld'
  <1> SUFFICES ASSUME TypeOK, RecordsHeld, [Next]_vars, InStep'
               PROVE  Approvers' /\ Followed' /\ Owned' /\ Withdrawing'
    BY DEF RecordsHeld
  <1>1. Approvers /\ Followed /\ Owned /\ Withdrawing
    BY RacesGrow DEF RecordsHeld, InStep
  <1>2. Withdrawing' /\ Owned'
    BY <1>1, WithdrawingStep, OwnedStep DEF Owned
  <1>3. CASE ApprovalStep
    BY <1>1, <1>2, <1>3, RecordsFlip, RecordsRevert, RecordsApproveInitiate, RecordsInitiate,
       RecordsAnnounce, RecordsLink DEF ApprovalStep
  <1>4. CASE \E h \in Requests : MoveCommit(h) \/ CancelCommit(h)
    BY <1>1, <1>2, <1>4, RecordsMove, RecordsCancel
  <1>5. CASE ~ApprovalStep /\ ~ \E h \in Requests : MoveCommit(h) \/ CancelCommit(h)
    <2>1. Approvers' /\ Followed'
      BY <1>1, <1>5, RowSteps, RowStep
    <2>2. QED
      BY <1>2, <2>1
  <1>6. QED
    BY <1>3, <1>4, <1>5

\* An approved resignation stands for an exit under way or over, any other one for
\* none, in whatever order approval, its failure, move, withdrawal and cancellation
\* come (approve, decideWithdrawal, updateLastWorkingDay, cancel).
THEOREM ResignationFollowsExitCorrect == Spec => []ResignationFollowsExit
  <1>1. Init => RecordsHeld
    BY ExitAssumption
    DEF Init, RecordsHeld, Approvers, ApprovedAlone, Followed, RowFollows, Owned, OwnedBy,
        Withdrawing, Approving, InFlight, Idle
  <1>2. TypeOK /\ RecordsHeld /\ [Next]_vars => RecordsHeld'
    BY RecordsStep
  <1>3. RecordsHeld => ResignationFollowsExit
    BY RecordsEnough
  <1>4. QED
    BY <1>1, <1>2, <1>3, TypeCorrect, PTL DEF Spec
=============================================================================
