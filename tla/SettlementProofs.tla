--------------------------- MODULE SettlementProofs ---------------------------
(****************************************************************************)
(* What Settlement promises of a leaver's figures, for any number of        *)
(* handlers, runs and claims, any loan and any days of leave.               *)
(*                                                                          *)
(* The argument: one handler at a time books, and while it does the row is  *)
(* the draft it compared.  Every run is used once, so a reversal that finds *)
(* the run it read finds what was booked with it.                           *)
(****************************************************************************)
EXTENDS Settlement, FiniteSetTheorems, TLAPS

-----------------------------------------------------------------------------
(* Types *)

\* What the snapshot of a handler consists of.
LEMMA Snapshots ==
    ASSUME NEW o \in Ops
    PROVE  /\ o.kind = "calculate" => o.found \in BOOLEAN
           /\ o.kind \in {"process", "book"} => o.fig \in Figures
           /\ o.kind = "book" => o.active \in BOOLEAN /\ o.balance \in Nat
           /\ o.kind \in {"reverse", "pay"} => o.run \in Runs \cup {NoRun}
           /\ o.kind = "reverse" => o.closed \in {None} \cup Nat /\ o.days \in Nat
  BY DEF Ops, Idle

\* A handler takes a snapshot, or drops it.
LEMMA OpTyped ==
    ASSUME op \in [Requests -> Ops], NEW h \in Requests, NEW o \in Ops,
           op' = [op EXCEPT ![h] = o]
    PROVE  op' \in [Requests -> Ops]
  OBVIOUS

LEMMA IdleTyped == Idle \in Ops
  BY DEF Ops

\* As many claims are approved as there are claims, at most.
LEMMA ApprovedBounded == Cardinality(Approved) \in 0..Cardinality(Claims)
  <1>1. Approved \subseteq Claims /\ IsFiniteSet(Claims)
    BY SettlementAssumption DEF Approved
  <1>2. Cardinality(Approved) <= Cardinality(Claims)
    BY <1>1, FS_Subset
  <1>3. Cardinality(Approved) \in Nat /\ Cardinality(Claims) \in Nat
    BY <1>1, FS_Subset, FS_CardinalityType
  <1>4. QED
    BY <1>2, <1>3

LEMMA FiguredTyped ==
    ASSUME TypeOK, NEW part \in 0..Owed
    PROVE  /\ Owed \in Nat /\ Figured(part) \in Figures
           /\ Figured(part).loan = part /\ Figured(part).left = Owed - part
           /\ Figured(part).days = PayableDays
           /\ Figured(part).salary = (regular.status # "LOCKED")
  <1>1. Owed \in Nat /\ part \in Nat /\ Owed - part \in Nat
    BY DEF TypeOK, Owed, LoanRows
  <1>2. PayableDays \in Nat
    BY SettlementAssumption DEF TypeOK, PayableDays, Closing, LeaveRows
  <1>3. (regular.status # "LOCKED") \in BOOLEAN
    OBVIOUS
  <1>4. QED
    BY <1>1, <1>2, <1>3, ApprovedBounded DEF Figured, Figures

\* An unlock has something to take back: what a lock charged was repaid.
InstalmentBooked ==
    /\ regular.status # "LOCKED" => regular.emi = 0
    /\ regular.emi <= loan.repaid

TypeInv == TypeOK /\ InstalmentBooked

\* What a booking leaves of the loan.
LEMMA RecoveredTyped ==
    ASSUME loan \in LoanRows, NEW o \in Ops, o.kind = "book"
    PROVE  /\ Recovered(o) \in LoanRows /\ Recovered(o).repaid = loan.repaid
           /\ Recovered(o).balance =
                  IF ~o.active THEN loan.balance
                  ELSE IF o.balance > o.fig.loan THEN o.balance - o.fig.loan ELSE 0
  <1>1. /\ o.active \in BOOLEAN /\ o.balance \in Nat /\ o.fig.loan \in Nat
        /\ loan.status \in {"ACTIVE", "CLOSED"}
    BY Snapshots DEF Figures, LoanRows
  <1>2. CASE ~o.active
    BY <1>2 DEF Recovered
  <1>3. CASE o.active
    <2> DEFINE remaining == IF o.balance > o.fig.loan THEN o.balance - o.fig.loan ELSE 0
               status == IF remaining > 0 THEN loan.status ELSE "CLOSED"
    <2>1. remaining \in Nat /\ status \in {"ACTIVE", "CLOSED"}
      BY <1>1
    <2>2. Recovered(o) = [loan EXCEPT !.balance = remaining, !.status = status]
      BY <1>3, Zenon DEF Recovered
    <2> HIDE DEF remaining, status
    <2>3. Recovered(o) \in LoanRows /\ Recovered(o).repaid = loan.repaid
              /\ Recovered(o).balance = remaining
      BY <1>1, <2>1, <2>2 DEF LoanRows
    <2>4. QED
      BY <1>3, <2>3 DEF remaining
  <1>4. QED
    BY <1>1, <1>2, <1>3

\* A lock moves the instalment from the balance to what was repaid.
LEMMA LockedTyped ==
    ASSUME TypeOK, LockRun
    PROVE  /\ Instalment \in 0..1 /\ loan' \in LoanRows
           /\ loan'.balance = loan.balance - Instalment
           /\ loan'.repaid = loan.repaid + Instalment
  <1>1. /\ loan \in LoanRows /\ loan.balance \in Nat /\ loan.repaid \in Nat
        /\ loan.status \in {"ACTIVE", "CLOSED"}
    BY DEF TypeOK, LoanRows
  <1>2. Instalment \in 0..1 /\ Instalment <= loan.balance
    BY <1>1 DEF Instalment, Owed
  <1>3. PICK s \in {"ACTIVE", "CLOSED"} :
           loan' = [loan EXCEPT !.balance = loan.balance - Instalment,
                        !.repaid = loan.repaid + Instalment, !.status = s]
    <2> DEFINE s == IF loan.status = "ACTIVE" /\ loan.balance = Instalment
                    THEN "CLOSED" ELSE loan.status
    <2>1. loan' = [loan EXCEPT !.balance = loan.balance - Instalment,
                       !.repaid = loan.repaid + Instalment, !.status = s]
      BY Zenon DEF LockRun
    <2>2. s \in {"ACTIVE", "CLOSED"}
      BY <1>1
    <2>3. QED
      BY <2>1, <2>2
  <1>4. loan.balance - Instalment \in Nat /\ loan.repaid + Instalment \in Nat
    BY <1>1, <1>2
  <1>5. QED
    BY <1>1, <1>2, <1>3, <1>4 DEF LoanRows

\* So does a repayment.
LEMMA RepaidTyped ==
    ASSUME TypeOK, NEW n \in 1..Principal, Repay(n)
    PROVE  /\ loan' \in LoanRows
           /\ loan'.balance = loan.balance - n /\ loan'.repaid = loan.repaid + n
  <1>1. /\ loan \in LoanRows /\ loan.balance \in Nat /\ loan.repaid \in Nat
        /\ loan.status \in {"ACTIVE", "CLOSED"} /\ n \in Nat
    BY SettlementAssumption DEF TypeOK, LoanRows
  <1>2. PICK s \in {"ACTIVE", "CLOSED"} :
           loan' = [loan EXCEPT !.balance = loan.balance - n, !.repaid = loan.repaid + n,
                        !.status = s]
    <2> DEFINE s == IF n = loan.balance THEN "CLOSED" ELSE loan.status
    <2>1. loan' = [loan EXCEPT !.balance = loan.balance - n, !.repaid = loan.repaid + n,
                       !.status = s]
      BY Zenon DEF Repay
    <2>2. s \in {"ACTIVE", "CLOSED"}
      BY <1>1
    <2>3. QED
      BY <2>1, <2>2
  <1>3. loan.balance - n \in Nat /\ loan.repaid + n \in Nat
    BY <1>1 DEF Repay
  <1>4. QED
    BY <1>1, <1>2, <1>3 DEF LoanRows

\* An unlock takes what was charged back.
LEMMA UnlockedTyped ==
    ASSUME TypeInv, UnlockRun
    PROVE  /\ loan' \in LoanRows
           /\ loan'.balance + loan'.repaid = loan.balance + loan.repaid
  BY DEF TypeInv, TypeOK, InstalmentBooked, UnlockRun, LoanRows, RegularRows

LEMMA TypeInit == Init => TypeInv
  <1> SUFFICES ASSUME Init PROVE TypeInv
    OBVIOUS
  <1>1. 0 \in 0..Cardinality(Claims)
    BY SettlementAssumption, FS_CardinalityType
  <1>2. NoFigures \in Figures
    BY <1>1 DEF NoFigures, Figures
  <1>3. NoSettlement \in SettlementRows
    BY <1>2 DEF NoSettlement, SettlementRows
  <1>4. final \in [Runs -> FinalRows]
    BY <1>2 DEF Init, FinalRows
  <1>5. QED
    BY <1>3, <1>4, IdleTyped, SettlementAssumption
    DEF Init, TypeInv, TypeOK, InstalmentBooked, RegularRows, LoanRows, ClaimRows, LeaveRows

LEMMA TypeStep == TypeInv /\ [Next]_vars => TypeInv'
  <1> SUFFICES ASSUME TypeInv, [Next]_vars PROVE TypeInv'
    OBVIOUS
  <1> USE IdleTyped, OpTyped, SettlementAssumption
  <1>0. TypeOK /\ InstalmentBooked
    BY DEF TypeInv
  <1>1. ASSUME NEW h \in Requests,
               \/ CalculateRead(h) \/ ProcessRead(h) \/ ProcessBook(h)
               \/ ReverseRead(h) \/ PayRead(h) \/ RunRead(h) \/ GiveUp(h)
        PROVE  TypeInv'
    <2>1. CASE CalculateRead(h)
      <3>1. [kind |-> "calculate", found |-> settlement.status = "DRAFT"] \in Ops
        BY DEF Ops
      <3>2. QED
        BY <1>0, <2>1, <3>1 DEF TypeInv, TypeOK, InstalmentBooked, CalculateRead, Start
    <2>2. CASE ProcessRead(h)
      <3>1. [kind |-> "process", fig |-> settlement.fig] \in Ops
        BY <1>0 DEF TypeOK, SettlementRows, Ops
      <3>2. QED
        BY <1>0, <2>2, <3>1 DEF TypeInv, TypeOK, InstalmentBooked, ProcessRead, Start
    <2>3. CASE ProcessBook(h)
      <3>1. op[h].fig \in Figures /\ loan.balance \in Nat
        BY <1>0, <2>3, Snapshots DEF TypeOK, ProcessBook, LoanRows
      <3>2. [kind |-> "book", fig |-> op[h].fig, active |-> loan.status = "ACTIVE",
             balance |-> loan.balance] \in Ops
        BY <3>1 DEF Ops
      <3>3. op' \in [Requests -> Ops]
        BY <1>0, <2>3, <3>2 DEF TypeOK, ProcessBook, Continue
      <3>4. races' \subseteq Windows
        BY <1>0, <2>3 DEF TypeOK, ProcessBook, Fell, Windows
      <3>5. QED
        BY <1>0, <2>3, <3>3, <3>4 DEF TypeInv, TypeOK, InstalmentBooked, ProcessBook
    <2>4. CASE ReverseRead(h)
      <3>1. settlement.fig \in Figures /\ settlement.fig.days \in Nat
        BY <1>0 DEF TypeOK, SettlementRows, Figures
      <3>2. [kind |-> "reverse", run |-> settlement.run, closed |-> settlement.closed,
             days |-> settlement.fig.days] \in Ops
        BY <1>0, <3>1 DEF TypeOK, SettlementRows, Ops
      <3>3. QED
        BY <1>0, <2>4, <3>2 DEF TypeInv, TypeOK, InstalmentBooked, ReverseRead, Start
    <2>5. CASE PayRead(h)
      <3>1. [kind |-> "pay", run |-> settlement.run] \in Ops
        BY <1>0 DEF TypeOK, SettlementRows, Ops
      <3>2. QED
        BY <1>0, <2>5, <3>1 DEF TypeInv, TypeOK, InstalmentBooked, PayRead, Start
    <2>6. CASE RunRead(h)
      <3>1. [kind |-> "run"] \in Ops
        BY DEF Ops
      <3>2. QED
        BY <1>0, <2>6, <3>1 DEF TypeInv, TypeOK, InstalmentBooked, RunRead, Start
    <2>7. CASE GiveUp(h)
      BY <1>0, <2>7 DEF TypeInv, TypeOK, InstalmentBooked, GiveUp, Finish
    <2>8. QED
      BY <1>1, <2>1, <2>2, <2>3, <2>4, <2>5, <2>6, <2>7
  <1>2. ASSUME NEW h \in Requests, CalculateCommit(h)
        PROVE  TypeInv'
    <2>1. settlement' \in SettlementRows
      <3>1. settlement' = settlement
            \/ \E f \in Figures, s \in {settlement.status, "DRAFT"} :
                  settlement' = [settlement EXCEPT !.fig = f, !.status = s]
        BY <1>0, <1>2, FiguredTyped DEF CalculateCommit
      <3>2. settlement \in SettlementRows
        BY <1>0 DEF TypeOK
      <3>3. QED
        BY <3>1, <3>2 DEF SettlementRows
    <2>2. races' \subseteq Windows
      BY <1>0, <1>2 DEF TypeOK, CalculateCommit, Fell, Windows
    <2>3. QED
      BY <1>0, <1>2, <2>1, <2>2
      DEF TypeInv, TypeOK, InstalmentBooked, CalculateCommit, Finish
  <1>3. CASE DiscardDraft
    <2>1. 0 \in 0..Cardinality(Claims)
      BY FS_CardinalityType
    <2>2. NoSettlement \in SettlementRows
      BY <2>1 DEF NoSettlement, NoFigures, SettlementRows, Figures
    <2>3. QED
      BY <1>0, <1>3, <2>2 DEF TypeInv, TypeOK, InstalmentBooked, DiscardDraft
  <1>4. ASSUME NEW h \in Requests, ProcessCommit(h)
        PROVE  TypeInv'
    <2>1. /\ op[h].fig \in Figures /\ op[h].active \in BOOLEAN /\ op[h].balance \in Nat
          /\ op[h].fig.loan \in Nat /\ op[h].fig.days \in Nat
      BY <1>0, <1>4, Snapshots DEF TypeOK, ProcessCommit, Figures
    <2>2. PICK r \in Runs :
            /\ final' = [final EXCEPT ![r] = [status |-> "APPROVED", fig |-> op[h].fig]]
            /\ settlement' = [settlement EXCEPT !.status = "PROCESSED", !.run = r,
                                  !.closed = IF op[h].active THEN op[h].balance ELSE None]
            /\ claim' = [c \in Claims |->
                   IF c \in Approved THEN [status |-> "PAID", run |-> r] ELSE claim[c]]
      BY <1>4 DEF ProcessCommit
    <2>3. final' \in [Runs -> FinalRows]
      BY <1>0, <2>1, <2>2 DEF TypeOK, FinalRows
    <2>4. settlement' \in SettlementRows
      BY <1>0, <2>1, <2>2 DEF TypeOK, SettlementRows
    <2>5. claim' \in [Claims -> ClaimRows]
      BY <1>0, <2>2 DEF TypeOK, ClaimRows
    <2>6. loan' \in LoanRows /\ loan'.repaid = loan.repaid
      <3>1. loan \in LoanRows /\ op[h] \in Ops /\ op[h].kind = "book"
                /\ loan' = Recovered(op[h])
        BY <1>0, <1>4 DEF TypeOK, ProcessCommit
      <3>2. QED
        BY <3>1, RecoveredTyped
    <2>7. leave' \in LeaveRows
      BY <1>0, <1>4, <2>1 DEF TypeOK, ProcessCommit, LeaveRows
    <2>8. races' \subseteq Windows
      BY <1>0, <1>4 DEF TypeOK, ProcessCommit, Windows
    <2>9. op' \in [Requests -> Ops] /\ regular' = regular
      BY <1>0, <1>4 DEF TypeOK, ProcessCommit, Finish
    <2>10. QED
      BY <1>0, <2>3, <2>4, <2>5, <2>6, <2>7, <2>8, <2>9
      DEF TypeInv, TypeOK, InstalmentBooked
  <1>5. ASSUME NEW h \in Requests, ReverseCommit(h)
        PROVE  TypeInv'
    <2>1. /\ op[h].run \in Runs \cup {NoRun} /\ op[h].closed \in {None} \cup Nat
          /\ op[h].days \in Nat
      BY <1>0, <1>5, Snapshots DEF TypeOK, ReverseCommit
    <2>2. settlement' \in SettlementRows
      BY <1>0, <1>5 DEF TypeOK, ReverseCommit, SettlementRows
    <2>3. claim' \in [Claims -> ClaimRows]
      BY <1>0, <1>5 DEF TypeOK, ReverseCommit, Reapproved, ClaimRows
    <2>4. final' \in [Runs -> FinalRows]
      BY <1>0, <1>5 DEF TypeOK, ReverseCommit, FinalRows
    <2>5. loan' \in LoanRows /\ loan'.repaid = loan.repaid
      BY <1>0, <1>5, <2>1 DEF TypeOK, ReverseCommit, LoanRows
    <2>6. leave' \in LeaveRows
      BY <1>0, <1>5, <2>1 DEF TypeOK, ReverseCommit, LeaveRows
    <2>7. op' \in [Requests -> Ops] /\ races' \subseteq Windows /\ regular' = regular
      BY <1>0, <1>5 DEF TypeOK, ReverseCommit, Finish, Windows
    <2>8. QED
      BY <1>0, <2>2, <2>3, <2>4, <2>5, <2>6, <2>7 DEF TypeInv, TypeOK, InstalmentBooked
  <1>6. ASSUME NEW h \in Requests, PayCommit(h)
        PROVE  TypeInv'
    <2>1. settlement' \in SettlementRows
      BY <1>0, <1>6 DEF TypeOK, PayCommit, SettlementRows
    <2>2. final' \in [Runs -> FinalRows]
      BY <1>0, <1>6 DEF TypeOK, PayCommit, FinalRows
    <2>3. races' \subseteq Windows
      BY <1>0, <1>6 DEF TypeOK, PayCommit, Fell, Windows
    <2>4. QED
      BY <1>0, <1>6, <2>1, <2>2, <2>3
      DEF TypeInv, TypeOK, InstalmentBooked, PayCommit, Finish
  <1>7. ASSUME NEW h \in Requests, RunCommit(h)
        PROVE  TypeInv'
    <2>1. regular' \in RegularRows /\ regular'.emi = 0
      BY <1>0, <1>7 DEF TypeOK, InstalmentBooked, RunCommit, RegularRows
    <2>2. races' \subseteq Windows
      BY <1>0, <1>7 DEF TypeOK, RunCommit, Fell, Windows
    <2>3. QED
      BY <1>0, <1>7, <2>1, <2>2
      DEF TypeInv, TypeOK, InstalmentBooked, RunCommit, Finish, LoanRows
  <1>8. CASE RemoveRun
    BY <1>0, <1>8 DEF TypeInv, TypeOK, InstalmentBooked, RemoveRun, RegularRows
  <1>9. CASE LockRun
    <2>1. Instalment \in 0..1
      BY <1>0, <1>9, LockedTyped
    <2>2. loan' \in LoanRows /\ loan'.repaid = loan.repaid + Instalment
      BY <1>0, <1>9, LockedTyped
    <2>3. regular' \in RegularRows /\ regular'.emi = Instalment /\ regular'.status = "LOCKED"
      BY <1>9, <2>1 DEF LockRun, RegularRows
    <2>4. loan.repaid \in Nat
      BY <1>0 DEF TypeOK, LoanRows
    <2>5. QED
      BY <1>0, <1>9, <2>1, <2>2, <2>3, <2>4 DEF TypeInv, TypeOK, InstalmentBooked, LockRun
  <1>10. CASE UnlockRun
    <2>1. loan' \in LoanRows
      BY <1>10, UnlockedTyped
    <2>2. regular' \in RegularRows /\ regular'.emi = 0
      BY <1>10 DEF UnlockRun, RegularRows
    <2>3. loan'.repaid \in Nat
      BY <2>1 DEF LoanRows
    <2>4. QED
      BY <1>0, <1>10, <2>1, <2>2, <2>3 DEF TypeInv, TypeOK, InstalmentBooked, UnlockRun
  <1>11. ASSUME NEW n \in 1..Principal, Repay(n)
         PROVE  TypeInv'
    <2>1. loan' \in LoanRows /\ loan'.repaid = loan.repaid + n
      BY <1>0, <1>11, RepaidTyped
    <2>2. regular' \in RegularRows /\ regular'.emi = regular.emi
                /\ regular'.status = regular.status
      BY <1>0, <1>11 DEF TypeOK, Repay, RegularRows
    <2>3. loan.repaid \in Nat /\ regular.emi \in 0..1
      BY <1>0 DEF TypeOK, LoanRows, RegularRows
    <2>4. QED
      BY <1>0, <1>11, <2>1, <2>2, <2>3 DEF TypeInv, TypeOK, InstalmentBooked, Repay
  <1>12. ASSUME NEW c \in Claims, NEW status \in {"APPROVED", "REJECTED", "PAID"},
                ReviewClaim(c, status)
         PROVE  TypeInv'
    BY <1>0, <1>12 DEF TypeInv, TypeOK, InstalmentBooked, ReviewClaim, ClaimRows
  <1>13. ASSUME NEW recorded \in BOOLEAN, AskLeave(recorded)
         PROVE  TypeInv'
    <2>1. leave' \in LeaveRows
      BY <1>0, <1>13 DEF TypeOK, AskLeave, LeaveRows
    <2>2. races' \subseteq Windows
      BY <1>0, <1>13 DEF TypeOK, AskLeave, Fell, Windows
    <2>3. QED
      BY <1>0, <1>13, <2>1, <2>2 DEF TypeInv, TypeOK, InstalmentBooked, AskLeave
  <1>14. ASSUME NEW approved \in BOOLEAN, DecideLeave(approved)
         PROVE  TypeInv'
    <2>1. /\ leave.taken \in Nat /\ leave.pending \in Nat /\ leave.encashed \in Int
          /\ leave.pending > 0
      BY <1>0, <1>14 DEF TypeOK, DecideLeave, LeaveRows
    <2>2. leave' = [taken |-> IF approved THEN leave.taken + 1 ELSE leave.taken,
                    pending |-> leave.pending - 1, encashed |-> leave.encashed]
      BY <1>0, <1>14 DEF TypeOK, DecideLeave, LeaveRows
    <2>3. leave' \in LeaveRows
      BY <2>1, <2>2 DEF LeaveRows
    <2>4. QED
      BY <1>0, <1>14, <2>3 DEF TypeInv, TypeOK, InstalmentBooked, DecideLeave
  <1>15. CASE UNCHANGED vars
    BY <1>0, <1>15 DEF TypeInv, TypeOK, InstalmentBooked, vars
  <1>16. QED
    BY <1>1, <1>2, <1>3, <1>4, <1>5, <1>6, <1>7, <1>8, <1>9, <1>10, <1>11, <1>12, <1>13,
       <1>14, <1>15 DEF Next

\* Rows, figures and snapshots keep the values the schema allows; an unlock always
\* finds repaid what it takes back.
THEOREM TypeCorrect == Spec => []TypeOK
  <1>1. TypeInv => TypeOK
    BY DEF TypeInv
  <1>2. QED
    BY <1>1, TypeInit, TypeStep, PTL DEF Spec

-----------------------------------------------------------------------------
(* Steps *)

\* Who takes a new snapshot.
LEMMA NewSnapshot ==
    ASSUME TypeInv, [Next]_vars, NEW k \in Requests
    PROVE  \/ op'[k] = op[k] \/ op'[k] = Idle
           \/ CalculateRead(k) \/ ProcessRead(k) \/ ProcessBook(k)
           \/ ReverseRead(k) \/ PayRead(k) \/ RunRead(k)
  <1>1. op \in [Requests -> Ops]
    BY DEF TypeInv, TypeOK
  <1>2. ASSUME NEW h \in Requests, NEW o, op' = [op EXCEPT ![h] = o], k # h
        PROVE  op'[k] = op[k]
    BY <1>1, <1>2
  <1>3. ASSUME NEW h \in Requests, Finish(h)
        PROVE  op'[k] = op[k] \/ op'[k] = Idle
    BY <1>1, <1>3 DEF Finish
  <1>4. ASSUME NEW h \in Requests,
               \/ CalculateRead(h) \/ ProcessRead(h) \/ ProcessBook(h)
               \/ ReverseRead(h) \/ PayRead(h) \/ RunRead(h), k # h
        PROVE  op'[k] = op[k]
    BY <1>2, <1>4 DEF CalculateRead, ProcessRead, ProcessBook, ReverseRead, PayRead, RunRead,
                      Start, Continue
  <1>5. ASSUME NEW h \in Requests,
               \/ CalculateCommit(h) \/ ProcessCommit(h) \/ ReverseCommit(h)
               \/ PayCommit(h) \/ RunCommit(h) \/ GiveUp(h)
        PROVE  Finish(h)
    BY <1>5 DEF CalculateCommit, ProcessCommit, ReverseCommit, PayCommit, RunCommit, GiveUp
  <1>6. CASE \/ DiscardDraft \/ RemoveRun \/ LockRun \/ UnlockRun
             \/ (\E n \in 1..Principal : Repay(n))
             \/ (\E c \in Claims, status \in {"APPROVED", "REJECTED", "PAID"} :
                    ReviewClaim(c, status))
             \/ (\E recorded \in BOOLEAN : AskLeave(recorded))
             \/ (\E approved \in BOOLEAN : DecideLeave(approved))
             \/ UNCHANGED vars
    BY <1>6 DEF DiscardDraft, RemoveRun, LockRun, UnlockRun, Repay, ReviewClaim, AskLeave,
                DecideLeave, vars
  <1>7. QED
    BY <1>3, <1>4, <1>5, <1>6 DEF Next

\* Who writes the settlement and the final runs.
LEMMA Writers ==
    ASSUME [Next]_vars
    PROVE  \/ settlement' = settlement /\ final' = final
           \/ (\E h \in Requests : CalculateCommit(h) \/ ProcessCommit(h)
                                       \/ ReverseCommit(h) \/ PayCommit(h))
           \/ DiscardDraft
  BY DEF Next, vars, CalculateRead, ProcessRead, ProcessBook, ReverseRead, PayRead, RunRead,
         RunCommit, GiveUp, RemoveRun, LockRun, UnlockRun, Repay, ReviewClaim, AskLeave,
         DecideLeave

\* A window, once fallen into, is never climbed out of.
LEMMA RacesGrow == ASSUME [Next]_vars PROVE races \subseteq races'
  <1>1. CASE \/ \E h \in Requests : \/ CalculateRead(h) \/ ProcessRead(h) \/ ReverseRead(h)
                                    \/ PayRead(h) \/ RunRead(h) \/ GiveUp(h)
             \/ DiscardDraft \/ RemoveRun \/ LockRun \/ UnlockRun \/ UNCHANGED vars
    BY <1>1 DEF CalculateRead, ProcessRead, ReverseRead, PayRead, RunRead, GiveUp,
                DiscardDraft, RemoveRun, LockRun, UnlockRun, vars
  <1>2. CASE \/ \E h \in Requests : \/ CalculateCommit(h) \/ ProcessBook(h)
                                    \/ PayCommit(h) \/ RunCommit(h)
             \/ \E recorded \in BOOLEAN : AskLeave(recorded)
    BY <1>2 DEF CalculateCommit, ProcessBook, PayCommit, RunCommit, AskLeave, Fell
  <1>3. CASE \E h \in Requests : ProcessCommit(h) \/ ReverseCommit(h)
    BY <1>3 DEF ProcessCommit, ReverseCommit
  <1>4. CASE \/ \E n \in 1..Principal : Repay(n)
             \/ \E c \in Claims, status \in {"APPROVED", "REJECTED", "PAID"} :
                    ReviewClaim(c, status)
             \/ \E approved \in BOOLEAN : DecideLeave(approved)
    BY <1>4 DEF Repay, ReviewClaim, DecideLeave
  <1>5. QED
    BY <1>1, <1>2, <1>3, <1>4 DEF Next

\* Every run is used once.
LEMMA RunsStayUsed ==
    ASSUME TypeInv, [Next]_vars, NEW r \in Runs, final[r].status # "NONE"
    PROVE  final'[r].status # "NONE"
  <1>1. final \in [Runs -> FinalRows]
    BY DEF TypeInv, TypeOK
  <1>2. CASE settlement' = settlement /\ final' = final
    BY <1>2
  <1>3. ASSUME NEW h \in Requests, CalculateCommit(h)
        PROVE  final' = final
    BY <1>3 DEF CalculateCommit
  <1>4. ASSUME NEW h \in Requests, ProcessCommit(h)
        PROVE  final'[r].status # "NONE"
    <2>1. PICK new \in Runs :
            /\ final[new].status = "NONE"
            /\ final' = [final EXCEPT ![new] = [status |-> "APPROVED", fig |-> op[h].fig]]
      BY <1>4 DEF ProcessCommit
    <2>2. QED
      BY <1>1, <2>1
  <1>5. ASSUME NEW h \in Requests, ReverseCommit(h)
        PROVE  final'[r].status # "NONE"
    <2>1. final'[r].status \in {final[r].status, "DELETED"}
      BY <1>1, <1>5 DEF ReverseCommit, FinalRows
    <2>2. QED
      BY <2>1
  <1>6. ASSUME NEW h \in Requests, PayCommit(h)
        PROVE  final'[r].status # "NONE"
    <2>1. final'[r].status \in {final[r].status, "PAID"}
      BY <1>1, <1>6 DEF PayCommit, FinalRows
    <2>2. QED
      BY <2>1
  <1>7. CASE DiscardDraft
    BY <1>7 DEF DiscardDraft
  <1>8. QED
    BY <1>2, <1>3, <1>4, <1>5, <1>6, <1>7, Writers

\* What a calculation may do to the row: a settled one it leaves, or falls into the
\* window, and the run and the loan of the row it never writes.
LEMMA CalculationStep ==
    ASSUME TypeInv, NEW h \in Requests, CalculateCommit(h)
    PROVE  /\ settlement'.run = settlement.run /\ settlement'.closed = settlement.closed
           /\ Settled' <=> Settled
           /\ Settled => settlement'.status = settlement.status
           /\ Settled => settlement' = settlement \/ "recalculated" \in races'
           /\ Unlocked
           /\ "recalculated" \in races => "recalculated" \in races'
  <1>1. settlement \in SettlementRows
    BY DEF TypeInv, TypeOK
  <1> DEFINE writes == IF op[h].found THEN settlement.status # "NONE" ELSE ~Settled
  <1>2. PICK part \in 0..Owed :
          settlement' = IF ~writes THEN settlement
                        ELSE [settlement EXCEPT !.fig = Figured(part),
                                  !.status = IF @ = "NONE" THEN "DRAFT" ELSE @]
    BY DEF CalculateCommit
  <1>3. /\ races' = IF writes /\ Settled THEN races \cup {"recalculated"} ELSE races
        /\ Unlocked
    BY DEF CalculateCommit, Fell
  <1> HIDE DEF writes
  <1>4. QED
    BY <1>1, <1>2, <1>3 DEF SettlementRows, Settled

\* What a booking writes.
LEMMA BookingStep ==
    ASSUME TypeInv, NEW h \in Requests, ProcessCommit(h)
    PROVE  \E r \in Runs :
             /\ Live = {} /\ final[r].status = "NONE"
             /\ final' = [final EXCEPT ![r] = [status |-> "APPROVED", fig |-> op[h].fig]]
             /\ settlement'.status = "PROCESSED" /\ settlement'.run = r
             /\ settlement'.fig = settlement.fig
             /\ settlement'.closed = IF op[h].active THEN op[h].balance ELSE None
             /\ claim' = [c \in Claims |->
                    IF c \in Approved THEN [status |-> "PAID", run |-> r] ELSE claim[c]]
  <1>1. settlement \in SettlementRows
    BY DEF TypeInv, TypeOK
  <1>2. PICK r \in Runs :
          /\ final[r].status = "NONE"
          /\ final' = [final EXCEPT ![r] = [status |-> "APPROVED", fig |-> op[h].fig]]
          /\ settlement' = [settlement EXCEPT !.status = "PROCESSED", !.run = r,
                                !.closed = IF op[h].active THEN op[h].balance ELSE None]
          /\ claim' = [c \in Claims |->
                 IF c \in Approved THEN [status |-> "PAID", run |-> r] ELSE claim[c]]
    BY DEF ProcessCommit
  <1>3. Live = {}
    BY DEF ProcessCommit
  <1>4. /\ settlement'.status = "PROCESSED" /\ settlement'.run = r
        /\ settlement'.fig = settlement.fig
        /\ settlement'.closed = IF op[h].active THEN op[h].balance ELSE None
    BY <1>1, <1>2 DEF SettlementRows
  <1>5. QED
    BY <1>2, <1>3, <1>4

-----------------------------------------------------------------------------
(* What the handlers in flight rely on *)

\* A settled row has its run, another has none.
RunHeld ==
    IF Settled THEN settlement.run \in Runs /\ final[settlement.run].status # "NONE"
    ELSE settlement.run = NoRun /\ settlement.closed = None

\* One handler books, of a row that is the draft it compared.
BookingHeld ==
    \A h \in Requests : op[h].kind = "book" =>
        /\ settlement.status = "DRAFT"
        /\ \A k \in Requests : op[k].kind = "book" => k = h
        /\ "recalculated" \notin races => settlement.fig = op[h].fig
        /\ op[h].active => op[h].balance = op[h].fig.loan + op[h].fig.left
        /\ ~op[h].active => op[h].fig.loan = 0

\* A settlement that recovered of the loan has what the loan was at.
ClosedHeld ==
    "recalculated" \notin races /\ Settled /\ settlement.closed = None =>
        settlement.fig.loan = 0

\* A reversal in flight has what the run it read was booked with.
ReversalHeld ==
    \A h \in Requests : op[h].kind = "reverse" =>
        /\ op[h].run \in Runs /\ final[op[h].run].status # "NONE"
        /\ Settled /\ settlement.run = op[h].run =>
               /\ op[h].closed = settlement.closed
               /\ "recalculated" \notin races => op[h].days = settlement.fig.days

Held == TypeInv /\ RunHeld /\ BookingHeld /\ ClosedHeld /\ ReversalHeld

LEMMA HeldInit == Init => Held
  BY TypeInit DEF Held, Init, Idle, RunHeld, BookingHeld, ClosedHeld, ReversalHeld, Settled,
                  NoSettlement

LEMMA RunHeldStep == Held /\ [Next]_vars => RunHeld'
  <1> SUFFICES ASSUME Held, [Next]_vars PROVE RunHeld'
    OBVIOUS
  <1>0. TypeInv /\ RunHeld /\ final \in [Runs -> FinalRows] /\ settlement \in SettlementRows
    BY DEF Held, TypeInv, TypeOK
  <1>1. CASE settlement' = settlement /\ final' = final
    BY <1>0, <1>1 DEF RunHeld, Settled
  <1>2. ASSUME NEW h \in Requests, CalculateCommit(h)
        PROVE  RunHeld'
    <2>1. final' = final
      BY <1>2 DEF CalculateCommit
    <2>2. QED
      BY <1>0, <1>2, <2>1, CalculationStep DEF RunHeld
  <1>3. ASSUME NEW h \in Requests, ProcessCommit(h)
        PROVE  RunHeld'
    <2>1. PICK r \in Runs :
            /\ final' = [final EXCEPT ![r] = [status |-> "APPROVED", fig |-> op[h].fig]]
            /\ settlement'.status = "PROCESSED" /\ settlement'.run = r
      BY <1>0, <1>3, BookingStep
    <2>2. final'[r].status = "APPROVED"
      BY <1>0, <2>1
    <2>3. QED
      BY <2>1, <2>2 DEF RunHeld, Settled
  <1>4. ASSUME NEW h \in Requests, ReverseCommit(h)
        PROVE  RunHeld'
    BY <1>0, <1>4 DEF ReverseCommit, RunHeld, Settled, SettlementRows
  <1>5. ASSUME NEW h \in Requests, PayCommit(h)
        PROVE  RunHeld'
    <2>1. settlement.status = "PROCESSED" /\ settlement' = [settlement EXCEPT !.status = "PAID"]
      BY <1>5 DEF PayCommit
    <2>2. settlement'.run = settlement.run /\ settlement'.status = "PAID"
      BY <1>0, <2>1 DEF SettlementRows
    <2>3. settlement.run \in Runs /\ final[settlement.run].status # "NONE"
      BY <1>0, <2>1 DEF RunHeld, Settled
    <2>4. final'[settlement.run].status # "NONE"
      BY <1>0, <2>3, RunsStayUsed
    <2>5. QED
      BY <2>2, <2>3, <2>4 DEF RunHeld, Settled
  <1>6. CASE DiscardDraft
    BY <1>6 DEF DiscardDraft, NoSettlement, RunHeld, Settled
  <1>7. QED
    BY <1>1, <1>2, <1>3, <1>4, <1>5, <1>6, Writers

LEMMA BookingHeldStep == Held /\ [Next]_vars => BookingHeld'
  <1> SUFFICES ASSUME Held, [Next]_vars, NEW k \in Requests, op'[k].kind = "book"
               PROVE  /\ settlement'.status = "DRAFT"
                      /\ \A j \in Requests : op'[j].kind = "book" => j = k
                      /\ "recalculated" \notin races' => settlement'.fig = op'[k].fig
                      /\ op'[k].active => op'[k].balance = op'[k].fig.loan + op'[k].fig.left
                      /\ ~op'[k].active => op'[k].fig.loan = 0
    BY DEF BookingHeld
  <1>0. TypeInv /\ BookingHeld /\ op \in [Requests -> Ops] /\ settlement \in SettlementRows
    BY DEF Held, TypeInv, TypeOK
  <1>1. ASSUME NEW j \in Requests, op'[j].kind = "book"
        PROVE  op'[j] = op[j] \/ ProcessBook(j)
    <2>1. Idle.kind # "book"
      BY DEF Idle
    <2>2. ASSUME CalculateRead(j) \/ ProcessRead(j) \/ ReverseRead(j) \/ PayRead(j) \/ RunRead(j)
          PROVE  FALSE
      BY <1>0, <1>1, <2>2 DEF CalculateRead, ProcessRead, ReverseRead, PayRead, RunRead, Start
    <2>3. QED
      BY <1>0, <1>1, <2>1, <2>2, NewSnapshot
  <1>2. CASE op'[k] = op[k]
    <2>1. op[k].kind = "book" /\ ~Unlocked
      BY <1>2 DEF Unlocked, InFlight
    <2>2. ASSUME NEW j \in Requests, op'[j].kind = "book"
          PROVE  j = k
      BY <1>0, <1>1, <2>1, <2>2 DEF BookingHeld, ProcessBook
    <2>3. ASSUME NEW h \in Requests, ProcessCommit(h)
          PROVE  FALSE
      <3>1. h = k
        BY <1>0, <2>1, <2>3 DEF BookingHeld, ProcessCommit
      <3>2. op'[h] = Idle
        BY <1>0, <2>3 DEF ProcessCommit, Finish
      <3>3. QED
        BY <3>1, <3>2 DEF Idle
    <2>4. settlement' = settlement
      BY <2>1, <2>3, Writers DEF CalculateCommit, ReverseCommit, PayCommit, DiscardDraft
    <2>5. QED
      BY <1>0, <1>2, <2>1, <2>2, <2>4, RacesGrow DEF BookingHeld
  <1>3. CASE ProcessBook(k)
    <2>1. /\ Unlocked /\ settlement.status = "DRAFT" /\ OwedAsFigured(op[k].fig)
          /\ settlement' = settlement /\ op[k].kind = "process"
          /\ op' = [op EXCEPT ![k] = [kind |-> "book", fig |-> op[k].fig,
                        active |-> loan.status = "ACTIVE", balance |-> loan.balance]]
          /\ races' = IF settlement.fig # op[k].fig THEN races \cup {"recalculated"} ELSE races
      BY <1>3 DEF ProcessBook, Continue, Fell
    <2>2. op'[k] = [kind |-> "book", fig |-> op[k].fig, active |-> loan.status = "ACTIVE",
                    balance |-> loan.balance]
      BY <1>0, <2>1
    <2>3. ASSUME NEW j \in Requests, op'[j].kind = "book", j # k
          PROVE  FALSE
      <3>1. op[j].kind = "book"
        BY <1>0, <2>1, <2>3
      <3>2. QED
        BY <2>1, <3>1 DEF Unlocked, InFlight
    <2>4. op[k].fig.loan \in Nat /\ op[k].fig.left \in Nat /\ loan.balance \in Nat
      BY <1>0, <2>1, Snapshots DEF Figures, TypeInv, TypeOK, LoanRows
    <2>5. /\ loan.status = "ACTIVE" => loan.balance = op[k].fig.loan + op[k].fig.left
          /\ loan.status # "ACTIVE" => op[k].fig.loan = 0
      BY <2>1, <2>4 DEF OwedAsFigured, Owed
    <2>6. /\ op'[k].fig = op[k].fig /\ op'[k].balance = loan.balance
          /\ op'[k].active = (loan.status = "ACTIVE")
      BY <2>2
    <2>7. settlement'.status = "DRAFT"
      BY <2>1
    <2>8. "recalculated" \notin races' => settlement'.fig = op'[k].fig
      BY <2>1, <2>6
    <2>9. /\ op'[k].active => op'[k].balance = op'[k].fig.loan + op'[k].fig.left
          /\ ~op'[k].active => op'[k].fig.loan = 0
      BY <2>5, <2>6
    <2>10. QED
      BY <2>3, <2>7, <2>8, <2>9
  <1>4. QED
    BY <1>1, <1>2, <1>3

LEMMA ClosedHeldStep == Held /\ [Next]_vars => ClosedHeld'
  <1> SUFFICES ASSUME Held, [Next]_vars, "recalculated" \notin races', Settled',
                      settlement'.closed = None
               PROVE  settlement'.fig.loan = 0
    BY DEF ClosedHeld
  <1>0. /\ TypeInv /\ ClosedHeld /\ BookingHeld /\ op \in [Requests -> Ops]
        /\ settlement \in SettlementRows /\ "recalculated" \notin races
    BY RacesGrow DEF Held, TypeInv, TypeOK
  <1>1. CASE settlement' = settlement
    BY <1>0, <1>1 DEF ClosedHeld, Settled
  <1>2. ASSUME NEW h \in Requests, CalculateCommit(h)
        PROVE  settlement' = settlement
    BY <1>0, <1>2, CalculationStep
  <1>3. ASSUME NEW h \in Requests, ProcessCommit(h)
        PROVE  settlement'.fig.loan = 0
    <2>1. /\ settlement'.closed = IF op[h].active THEN op[h].balance ELSE None
          /\ settlement'.fig = settlement.fig
      BY <1>0, <1>3, BookingStep
    <2>2. op[h].kind = "book" /\ op[h].balance \in Nat
      BY <1>0, <1>3, Snapshots DEF ProcessCommit
    <2>3. ~op[h].active
      BY <2>1, <2>2 DEF None
    <2>4. QED
      BY <1>0, <2>1, <2>2, <2>3 DEF BookingHeld
  <1>4. ASSUME NEW h \in Requests, ReverseCommit(h)
        PROVE  FALSE
    BY <1>0, <1>4 DEF ReverseCommit, Settled, SettlementRows
  <1>5. ASSUME NEW h \in Requests, PayCommit(h)
        PROVE  settlement'.fig.loan = 0
    BY <1>0, <1>5 DEF PayCommit, ClosedHeld, Settled, SettlementRows
  <1>6. CASE DiscardDraft
    BY <1>6 DEF DiscardDraft, NoSettlement, Settled
  <1>7. QED
    BY <1>1, <1>2, <1>3, <1>4, <1>5, <1>6, Writers

LEMMA ReversalHeldStep == Held /\ [Next]_vars => ReversalHeld'
  <1> SUFFICES ASSUME Held, [Next]_vars, NEW k \in Requests, op'[k].kind = "reverse"
               PROVE  /\ op'[k].run \in Runs /\ final'[op'[k].run].status # "NONE"
                      /\ Settled' /\ settlement'.run = op'[k].run =>
                             /\ op'[k].closed = settlement'.closed
                             /\ "recalculated" \notin races' =>
                                    op'[k].days = settlement'.fig.days
    BY DEF ReversalHeld
  <1>0. /\ TypeInv /\ RunHeld /\ ReversalHeld /\ op \in [Requests -> Ops]
        /\ settlement \in SettlementRows /\ races \subseteq races'
    BY RacesGrow DEF Held, TypeInv, TypeOK
  <1>1. CASE op'[k] = op[k]
    <2>1. /\ op[k].run \in Runs /\ final[op[k].run].status # "NONE"
          /\ Settled /\ settlement.run = op[k].run =>
                 /\ op[k].closed = settlement.closed
                 /\ "recalculated" \notin races => op[k].days = settlement.fig.days
      BY <1>0, <1>1 DEF ReversalHeld
    <2>2. final'[op[k].run].status # "NONE"
      BY <1>0, <2>1, RunsStayUsed
    <2>3. ASSUME Settled', settlement'.run = op[k].run
          PROVE  /\ Settled /\ settlement.run = op[k].run
                 /\ settlement'.closed = settlement.closed
                 /\ "recalculated" \notin races' => settlement'.fig = settlement.fig
      <3>1. CASE settlement' = settlement
        BY <2>3, <3>1 DEF Settled
      <3>2. ASSUME NEW h \in Requests, CalculateCommit(h)
            PROVE  /\ Settled /\ settlement'.run = settlement.run
                   /\ settlement'.closed = settlement.closed
                   /\ "recalculated" \notin races' => settlement'.fig = settlement.fig
        BY <1>0, <2>3, <3>2, CalculationStep
      <3>3. ASSUME NEW h \in Requests, ProcessCommit(h)
            PROVE  FALSE
        BY <1>0, <2>1, <2>3, <3>3, BookingStep
      <3>4. ASSUME NEW h \in Requests, ReverseCommit(h)
            PROVE  FALSE
        BY <1>0, <2>3, <3>4 DEF ReverseCommit, Settled, SettlementRows
      <3>5. ASSUME NEW h \in Requests, PayCommit(h)
            PROVE  /\ Settled /\ settlement'.run = settlement.run
                   /\ settlement'.closed = settlement.closed
                   /\ settlement'.fig = settlement.fig
        BY <1>0, <3>5 DEF PayCommit, Settled, SettlementRows
      <3>6. CASE DiscardDraft
        BY <2>3, <3>6 DEF DiscardDraft, NoSettlement, Settled
      <3>7. QED
        BY <2>3, <3>1, <3>2, <3>3, <3>4, <3>5, <3>6, Writers
    <2>4. QED
      BY <1>0, <1>1, <2>1, <2>2, <2>3
  <1>2. CASE ReverseRead(k)
    <2>1. /\ settlement.status = "PROCESSED" /\ settlement' = settlement
          /\ final' = final /\ races' = races
          /\ op'[k] = [kind |-> "reverse", run |-> settlement.run,
                       closed |-> settlement.closed, days |-> settlement.fig.days]
      BY <1>0, <1>2 DEF ReverseRead, Start
    <2>2. settlement.run \in Runs /\ final[settlement.run].status # "NONE"
      BY <1>0, <2>1 DEF RunHeld, Settled
    <2>3. QED
      BY <2>1, <2>2
  <1>3. ASSUME CalculateRead(k) \/ ProcessRead(k) \/ ProcessBook(k) \/ PayRead(k) \/ RunRead(k)
        PROVE  FALSE
    BY <1>0, <1>3 DEF CalculateRead, ProcessRead, ProcessBook, PayRead, RunRead, Start, Continue
  <1>4. QED
    BY <1>0, <1>1, <1>2, <1>3, NewSnapshot DEF Idle

LEMMA HeldStep == Held /\ [Next]_vars => Held'
  <1>1. Held /\ [Next]_vars => TypeInv'
    BY TypeStep DEF Held
  <1>2. QED
    BY <1>1, RunHeldStep, BookingHeldStep, ClosedHeldStep, ReversalHeldStep DEF Held

-----------------------------------------------------------------------------
(* The loan *)

\* What the settlement recovered of the loan.
LoanRecovered == IF Settled THEN settlement.fig.loan ELSE 0

LEMMA LoanStep == Held /\ LoanAddsUp /\ [Next]_vars => LoanAddsUp'
  <1> SUFFICES ASSUME Held, LoanAddsUp, [Next]_vars,
                      races' \cap {"recalculated", "repaid", "reopened", "again"} = {}
               PROVE  Principal = loan'.balance + loan'.repaid + LoanRecovered'
    BY DEF LoanAddsUp, LoanRecovered
  <1>0. /\ Held /\ TypeInv /\ TypeOK /\ settlement \in SettlementRows /\ loan \in LoanRows
        /\ op \in [Requests -> Ops]
        /\ races \cap {"recalculated", "repaid", "reopened", "again"} = {}
    BY RacesGrow DEF Held, TypeInv, TypeOK
  <1>1. /\ loan.balance \in Nat /\ loan.repaid \in Nat /\ settlement.fig.loan \in Nat
        /\ LoanRecovered \in Nat
    BY <1>0 DEF LoanRows, SettlementRows, Figures, LoanRecovered
  <1>2. Principal = loan.balance + loan.repaid + LoanRecovered
    BY <1>0 DEF LoanAddsUp, LoanRecovered
  <1>3. CASE settlement' = settlement /\ loan' = loan
    BY <1>2, <1>3 DEF LoanRecovered, Settled
  <1>4. ASSUME NEW h \in Requests, CalculateCommit(h)
        PROVE  LoanRecovered' = LoanRecovered /\ loan' = loan
    <2>1. (Settled' <=> Settled) /\ (Settled => settlement' = settlement)
      BY <1>0, <1>4, CalculationStep
    <2>2. LoanRecovered' = LoanRecovered
      BY <2>1 DEF LoanRecovered
    <2>3. QED
      BY <1>4, <2>2 DEF CalculateCommit
  <1>5. CASE DiscardDraft
    BY <1>2, <1>5 DEF DiscardDraft, NoSettlement, LoanRecovered, Settled
  <1>6. ASSUME NEW h \in Requests, ProcessCommit(h)
        PROVE  Principal = loan'.balance + loan'.repaid + LoanRecovered'
    <2>1. /\ op[h] \in Ops /\ op[h].kind = "book" /\ loan' = Recovered(op[h])
          /\ op[h].active \in BOOLEAN /\ op[h].balance \in Nat
          /\ op[h].fig.loan \in Nat /\ op[h].fig.left \in Nat
      BY <1>0, <1>6, Snapshots DEF ProcessCommit, Figures
    <2>2. loan.balance = op[h].balance
      BY <1>0, <1>6 DEF ProcessCommit
    <2>3. /\ settlement.status = "DRAFT" /\ settlement.fig = op[h].fig
          /\ op[h].active => op[h].balance = op[h].fig.loan + op[h].fig.left
          /\ ~op[h].active => op[h].fig.loan = 0
      BY <1>0, <2>1 DEF Held, BookingHeld
    <2>4. settlement'.status = "PROCESSED" /\ settlement'.fig = settlement.fig
      BY <1>0, <1>6, BookingStep
    <2>5. LoanRecovered = 0 /\ LoanRecovered' = op[h].fig.loan
      BY <2>3, <2>4 DEF LoanRecovered, Settled
    <2>6. /\ loan'.repaid = loan.repaid
          /\ loan'.balance = IF ~op[h].active THEN loan.balance
                             ELSE IF op[h].balance > op[h].fig.loan
                                  THEN op[h].balance - op[h].fig.loan ELSE 0
      BY <1>0, <2>1, RecoveredTyped
    <2>7. loan'.balance = loan.balance - op[h].fig.loan
      BY <2>1, <2>2, <2>3, <2>6
    <2>8. QED
      BY <1>1, <1>2, <2>1, <2>5, <2>6, <2>7
  <1>7. ASSUME NEW h \in Requests, ReverseCommit(h)
        PROVE  Principal = loan'.balance + loan'.repaid + LoanRecovered'
    <2>1. /\ op[h].kind = "reverse" /\ settlement.status = "PROCESSED"
          /\ settlement' = [settlement EXCEPT !.status = "DRAFT", !.run = NoRun, !.closed = None]
          /\ loan' = IF op[h].closed = None THEN loan
                     ELSE [loan EXCEPT !.status = "ACTIVE", !.balance = op[h].closed]
      BY <1>7 DEF ReverseCommit
    <2>2. /\ settlement.run = op[h].run
          /\ op[h].closed # None => loan.balance + settlement.fig.loan = op[h].closed
      BY <1>0, <1>7 DEF ReverseCommit
    <2>3. op[h].closed = settlement.closed
      BY <1>0, <2>1, <2>2 DEF Held, ReversalHeld, Settled
    <2>4. op[h].closed = None => settlement.fig.loan = 0
      BY <1>0, <2>1, <2>3 DEF Held, ClosedHeld, Settled
    <2>5. LoanRecovered = settlement.fig.loan /\ LoanRecovered' = 0
      BY <1>0, <2>1 DEF LoanRecovered, Settled, SettlementRows
    <2>6. CASE op[h].closed = None
      BY <1>1, <1>2, <2>1, <2>4, <2>5, <2>6
    <2>7. CASE op[h].closed # None
      <3>1. loan'.balance = op[h].closed /\ loan'.repaid = loan.repaid
        BY <1>0, <2>1, <2>7 DEF LoanRows
      <3>2. QED
        BY <1>1, <1>2, <2>2, <2>5, <2>7, <3>1
    <2>8. QED
      BY <2>6, <2>7
  <1>8. ASSUME NEW h \in Requests, PayCommit(h)
        PROVE  LoanRecovered' = LoanRecovered /\ loan' = loan
    BY <1>0, <1>8 DEF PayCommit, LoanRecovered, Settled, SettlementRows
  <1>9. CASE LockRun
    <2>1. LoanRecovered' = LoanRecovered
      BY <1>9 DEF LockRun, LoanRecovered, Settled
    <2>2. QED
      BY <1>0, <1>1, <1>2, <1>9, <2>1, LockedTyped
  <1>10. CASE UnlockRun
    <2>1. LoanRecovered' = LoanRecovered
      BY <1>10 DEF UnlockRun, LoanRecovered, Settled
    <2>2. loan'.balance \in Nat /\ loan'.repaid \in Nat
               /\ loan'.balance + loan'.repaid = loan.balance + loan.repaid
      BY <1>0, <1>10, UnlockedTyped DEF LoanRows
    <2>3. QED
      BY <1>1, <1>2, <2>1, <2>2
  <1>11. ASSUME NEW n \in 1..Principal, Repay(n)
         PROVE  Principal = loan'.balance + loan'.repaid + LoanRecovered'
    <2>1. LoanRecovered' = LoanRecovered
      BY <1>11 DEF Repay, LoanRecovered, Settled
    <2>2. loan'.balance = loan.balance - n /\ loan'.repaid = loan.repaid + n
      BY <1>0, <1>11, RepaidTyped
    <2>3. n \in Nat
      BY SettlementAssumption
    <2>4. QED
      BY <1>1, <1>2, <2>1, <2>2, <2>3
  <1>12. CASE \/ \E h \in Requests : \/ CalculateRead(h) \/ ProcessRead(h) \/ ProcessBook(h)
                                     \/ ReverseRead(h) \/ PayRead(h) \/ RunRead(h)
                                     \/ RunCommit(h) \/ GiveUp(h)
              \/ RemoveRun
              \/ \E c \in Claims, status \in {"APPROVED", "REJECTED", "PAID"} :
                     ReviewClaim(c, status)
              \/ \E recorded \in BOOLEAN : AskLeave(recorded)
              \/ \E approved \in BOOLEAN : DecideLeave(approved)
              \/ UNCHANGED vars
    <2>1. settlement' = settlement /\ loan' = loan
      BY <1>12 DEF CalculateRead, ProcessRead, ProcessBook, ReverseRead, PayRead, RunRead,
                   RunCommit, GiveUp, RemoveRun, ReviewClaim, AskLeave, DecideLeave, vars
    <2>2. QED
      BY <1>3, <2>1
  <1>13. QED
    BY <1>2, <1>4, <1>5, <1>6, <1>7, <1>8, <1>9, <1>10, <1>11, <1>12 DEF Next

\* Of the loan nothing is forgotten and nothing taken twice, whatever order repayments,
\* instalments, bookings and reversals come in (process, reverse, recordRepayment, lock).
THEOREM LoanCorrect == Spec => []LoanAddsUp
  <1>1. Init => LoanAddsUp
    BY SettlementAssumption DEF Init, LoanAddsUp, Settled, NoSettlement
  <1>2. QED
    BY <1>1, HeldInit, HeldStep, LoanStep, PTL DEF Spec

-----------------------------------------------------------------------------
(* The days of leave *)

\* The settlement has paid the days of its figures, or none.
DaysBooked ==
    races \cap {"recalculated", "again"} = {} =>
        leave.encashed = IF Settled THEN settlement.fig.days ELSE 0

\* The days a draft or a handler is about to pay are left, beside those taken or held.
DaysLeft ==
    races \cap {"taken", "recalculated", "again"} = {} =>
        /\ leave.taken + leave.pending + leave.encashed <= Entitled
        /\ \A h \in Requests : op[h].kind \in {"process", "book"} =>
               leave.taken + leave.pending + op[h].fig.days <= Entitled
        /\ settlement.status = "DRAFT" =>
               leave.taken + leave.pending + settlement.fig.days <= Entitled

LEMMA DaysBookedStep == Held /\ DaysBooked /\ [Next]_vars => DaysBooked'
  <1> SUFFICES ASSUME Held, DaysBooked, [Next]_vars,
                      races' \cap {"recalculated", "again"} = {}
               PROVE  leave'.encashed = IF Settled' THEN settlement'.fig.days ELSE 0
    BY DEF DaysBooked
  <1>0. /\ Held /\ TypeInv /\ TypeOK /\ settlement \in SettlementRows /\ leave \in LeaveRows
        /\ op \in [Requests -> Ops]
        /\ races \cap {"recalculated", "again"} = {}
    BY RacesGrow DEF Held, TypeInv, TypeOK
  <1>1. leave.encashed = IF Settled THEN settlement.fig.days ELSE 0
    BY <1>0 DEF DaysBooked
  <1>2. CASE settlement' = settlement /\ leave'.encashed = leave.encashed
    BY <1>1, <1>2 DEF Settled
  <1>3. ASSUME NEW h \in Requests, CalculateCommit(h)
        PROVE  leave'.encashed = IF Settled' THEN settlement'.fig.days ELSE 0
    <2>1. leave' = leave
      BY <1>3 DEF CalculateCommit
    <2>2. QED
      BY <1>0, <1>1, <1>3, <2>1, CalculationStep
  <1>4. ASSUME NEW h \in Requests, ProcessCommit(h)
        PROVE  leave'.encashed = IF Settled' THEN settlement'.fig.days ELSE 0
    <2>1. op[h].kind = "book" /\ leave' = [leave EXCEPT !.encashed = @ + op[h].fig.days]
      BY <1>4 DEF ProcessCommit
    <2>2. settlement.status = "DRAFT" /\ settlement.fig = op[h].fig
      BY <1>0, <2>1 DEF Held, BookingHeld
    <2>3. settlement'.status = "PROCESSED" /\ settlement'.fig = settlement.fig
      BY <1>0, <1>4, BookingStep
    <2>4. leave.encashed = 0 /\ op[h].fig.days \in Nat
      BY <1>0, <1>1, <2>1, <2>2, Snapshots DEF Settled, Figures
    <2>5. leave'.encashed = op[h].fig.days
      BY <1>0, <2>1, <2>4 DEF LeaveRows
    <2>6. QED
      BY <2>2, <2>3, <2>5 DEF Settled
  <1>5. ASSUME NEW h \in Requests, ReverseCommit(h)
        PROVE  leave'.encashed = IF Settled' THEN settlement'.fig.days ELSE 0
    <2>1. /\ op[h].kind = "reverse" /\ settlement.status = "PROCESSED"
          /\ settlement.run = op[h].run
          /\ settlement' = [settlement EXCEPT !.status = "DRAFT", !.run = NoRun, !.closed = None]
          /\ leave' = [leave EXCEPT !.encashed = @ - op[h].days]
      BY <1>0, <1>5 DEF ReverseCommit
    <2>2. op[h].days = settlement.fig.days /\ op[h].days \in Nat
      BY <1>0, <2>1, Snapshots DEF Held, ReversalHeld, Settled
    <2>3. leave'.encashed = 0
      BY <1>0, <1>1, <2>1, <2>2 DEF LeaveRows, Settled
    <2>4. settlement'.status = "DRAFT"
      BY <1>0, <2>1 DEF SettlementRows
    <2>5. QED
      BY <2>3, <2>4 DEF Settled
  <1>6. ASSUME NEW h \in Requests, PayCommit(h)
        PROVE  leave'.encashed = IF Settled' THEN settlement'.fig.days ELSE 0
    BY <1>0, <1>1, <1>6 DEF PayCommit, Settled, SettlementRows
  <1>7. CASE DiscardDraft
    BY <1>1, <1>7 DEF DiscardDraft, NoSettlement, Settled
  <1>8. CASE (\E recorded \in BOOLEAN : AskLeave(recorded))
             \/ (\E approved \in BOOLEAN : DecideLeave(approved))
    <2>1. settlement' = settlement /\ leave'.encashed = leave.encashed
      BY <1>0, <1>8 DEF AskLeave, DecideLeave, LeaveRows
    <2>2. QED
      BY <1>2, <2>1
  <1>9. CASE \/ \E h \in Requests : \/ CalculateRead(h) \/ ProcessRead(h) \/ ProcessBook(h)
                                    \/ ReverseRead(h) \/ PayRead(h) \/ RunRead(h)
                                    \/ RunCommit(h) \/ GiveUp(h)
             \/ RemoveRun \/ LockRun \/ UnlockRun
             \/ \E n \in 1..Principal : Repay(n)
             \/ \E c \in Claims, status \in {"APPROVED", "REJECTED", "PAID"} :
                    ReviewClaim(c, status)
             \/ UNCHANGED vars
    <2>1. settlement' = settlement /\ leave' = leave
      BY <1>9 DEF CalculateRead, ProcessRead, ProcessBook, ReverseRead, PayRead, RunRead,
                  RunCommit, GiveUp, RemoveRun, LockRun, UnlockRun, Repay, ReviewClaim, vars
    <2>2. QED
      BY <1>2, <2>1
  <1>10. QED
    BY <1>3, <1>4, <1>5, <1>6, <1>7, <1>8, <1>9 DEF Next

\* A promise of days is one that was made before, or the one of the draft.
LEMMA PromiseStep ==
    ASSUME TypeInv, [Next]_vars, NEW k \in Requests, op'[k].kind \in {"process", "book"}
    PROVE  \/ op[k].kind \in {"process", "book"} /\ op'[k].fig = op[k].fig
           \/ settlement.status = "DRAFT" /\ op'[k].fig = settlement.fig
  <1>1. op \in [Requests -> Ops]
    BY DEF TypeInv, TypeOK
  <1>2. CASE op'[k] = op[k]
    BY <1>2
  <1>3. CASE ProcessRead(k)
    BY <1>1, <1>3 DEF ProcessRead, Start
  <1>4. CASE ProcessBook(k)
    BY <1>1, <1>4 DEF ProcessBook, Continue
  <1>5. ASSUME CalculateRead(k) \/ ReverseRead(k) \/ PayRead(k) \/ RunRead(k)
        PROVE  FALSE
    BY <1>1, <1>5 DEF CalculateRead, ReverseRead, PayRead, RunRead, Start
  <1>6. QED
    BY <1>2, <1>3, <1>4, <1>5, NewSnapshot DEF Idle

LEMMA DaysLeftStep == Held /\ DaysBooked /\ DaysLeft /\ [Next]_vars => DaysLeft'
  <1> SUFFICES ASSUME Held, DaysBooked, DaysLeft, [Next]_vars,
                      races' \cap {"taken", "recalculated", "again"} = {}
               PROVE  /\ leave'.taken + leave'.pending + leave'.encashed <= Entitled
                      /\ \A k \in Requests : op'[k].kind \in {"process", "book"} =>
                             leave'.taken + leave'.pending + op'[k].fig.days <= Entitled
                      /\ settlement'.status = "DRAFT" =>
                             leave'.taken + leave'.pending + settlement'.fig.days <= Entitled
    BY DEF DaysLeft
  <1>0. /\ Held /\ TypeInv /\ TypeOK /\ settlement \in SettlementRows /\ leave \in LeaveRows
        /\ op \in [Requests -> Ops]
        /\ races \cap {"taken", "recalculated", "again"} = {}
    BY RacesGrow DEF Held, TypeInv, TypeOK
  <1>1. /\ leave.taken \in Nat /\ leave.pending \in Nat /\ leave.encashed \in Int
        /\ settlement.fig.days \in Nat /\ Entitled \in Nat
    BY <1>0, SettlementAssumption DEF LeaveRows, SettlementRows, Figures
  <1>2. /\ leave.taken + leave.pending + leave.encashed <= Entitled
        /\ \A h \in Requests : op[h].kind \in {"process", "book"} =>
               leave.taken + leave.pending + op[h].fig.days <= Entitled
        /\ settlement.status = "DRAFT" =>
               leave.taken + leave.pending + settlement.fig.days <= Entitled
        /\ leave.encashed = IF Settled THEN settlement.fig.days ELSE 0
    BY <1>0 DEF DaysLeft, DaysBooked
  \* Promises in flight are covered as they were, where no more is taken or held.
  <1>3. ASSUME leave'.taken = leave.taken, leave'.pending = leave.pending,
               NEW k \in Requests, op'[k].kind \in {"process", "book"}
        PROVE  leave'.taken + leave'.pending + op'[k].fig.days <= Entitled
    BY <1>0, <1>2, <1>3, PromiseStep
  <1>4. CASE settlement' = settlement /\ leave' = leave
    BY <1>2, <1>3, <1>4
  <1>5. ASSUME NEW h \in Requests, CalculateCommit(h)
        PROVE  leave' = leave /\ (settlement'.status = "DRAFT" =>
                   leave'.taken + leave'.pending + settlement'.fig.days <= Entitled)
    <2>1. leave' = leave /\ races' = IF (IF op[h].found THEN settlement.status # "NONE"
                                         ELSE ~Settled) /\ Settled
                                     THEN races \cup {"recalculated"} ELSE races
      BY <1>5 DEF CalculateCommit, Fell
    <2>2. PICK part \in 0..Owed :
            settlement' = IF ~(IF op[h].found THEN settlement.status # "NONE" ELSE ~Settled)
                          THEN settlement
                          ELSE [settlement EXCEPT !.fig = Figured(part),
                                    !.status = IF @ = "NONE" THEN "DRAFT" ELSE @]
      BY <1>5 DEF CalculateCommit
    <2>3. CASE settlement' = settlement
      BY <1>2, <2>1, <2>3
    <2>4. CASE settlement'.fig = Figured(part)
      <3>1. settlement'.fig.days = PayableDays
        BY <1>0, <2>4, FiguredTyped
      <3>2. CASE Settled
        BY <1>0, <1>5, <2>1, <3>2, <1>2, CalculationStep DEF Settled
      <3>3. CASE ~Settled
        BY <1>1, <1>2, <2>1, <3>1, <3>3 DEF PayableDays, Closing
      <3>4. QED
        BY <3>2, <3>3
    <2>5. QED
      BY <1>0, <2>2, <2>3, <2>4 DEF SettlementRows
  <1>6. ASSUME NEW h \in Requests, ProcessCommit(h)
        PROVE  /\ leave'.taken = leave.taken /\ leave'.pending = leave.pending
               /\ leave'.taken + leave'.pending + leave'.encashed <= Entitled
               /\ settlement'.status # "DRAFT"
    <2>1. op[h].kind = "book" /\ leave' = [leave EXCEPT !.encashed = @ + op[h].fig.days]
      BY <1>6 DEF ProcessCommit
    <2>2. settlement.status = "DRAFT" /\ op[h].fig.days \in Nat
      BY <1>0, <2>1, Snapshots DEF Held, BookingHeld, Figures
    <2>3. leave.encashed = 0
      BY <1>2, <2>2 DEF Settled
    <2>4. /\ leave'.taken = leave.taken /\ leave'.pending = leave.pending
          /\ leave'.encashed = op[h].fig.days
      BY <1>0, <2>1, <2>2, <2>3 DEF LeaveRows
    <2>5. leave.taken + leave.pending + op[h].fig.days <= Entitled
      BY <1>2, <2>1
    <2>6. settlement'.status = "PROCESSED"
      BY <1>0, <1>6, BookingStep
    <2>7. QED
      BY <2>4, <2>5, <2>6
  <1>7. ASSUME NEW h \in Requests, ReverseCommit(h)
        PROVE  /\ leave'.taken = leave.taken /\ leave'.pending = leave.pending
               /\ leave'.taken + leave'.pending + leave'.encashed <= Entitled
               /\ leave'.taken + leave'.pending + settlement'.fig.days <= Entitled
    <2>1. /\ op[h].kind = "reverse" /\ settlement.status = "PROCESSED"
          /\ settlement' = [settlement EXCEPT !.status = "DRAFT", !.run = NoRun, !.closed = None]
          /\ leave' = [leave EXCEPT !.encashed = @ - op[h].days]
      BY <1>7 DEF ReverseCommit
    <2>2. op[h].days \in Nat
      BY <1>0, <2>1, Snapshots
    <2>3. /\ leave'.taken = leave.taken /\ leave'.pending = leave.pending
          /\ leave'.encashed = leave.encashed - op[h].days
          /\ settlement'.fig = settlement.fig
      BY <1>0, <2>1 DEF LeaveRows, SettlementRows
    <2>4. leave.encashed = settlement.fig.days
      BY <1>2, <2>1 DEF Settled
    <2>5. QED
      BY <1>1, <1>2, <2>2, <2>3, <2>4
  <1>8. ASSUME NEW h \in Requests, PayCommit(h)
        PROVE  leave' = leave /\ settlement'.status # "DRAFT"
    BY <1>0, <1>8 DEF PayCommit, SettlementRows
  <1>9. CASE DiscardDraft
    <2>1. leave' = leave /\ settlement'.status # "DRAFT"
      BY <1>9 DEF DiscardDraft, NoSettlement
    <2>2. QED
      BY <1>2, <1>3, <2>1
  <1>10. ASSUME NEW recorded \in BOOLEAN, AskLeave(recorded)
         PROVE  /\ leave'.taken + leave'.pending + leave'.encashed <= Entitled
                /\ \A k \in Requests : op'[k].kind \in {"process", "book"} =>
                       leave'.taken + leave'.pending + op'[k].fig.days <= Entitled
                /\ settlement'.status = "DRAFT" =>
                       leave'.taken + leave'.pending + settlement'.fig.days <= Entitled
    <2>1. /\ Closing > leave.pending /\ settlement' = settlement /\ op' = op
          /\ leave' = IF recorded THEN [leave EXCEPT !.taken = @ + 1]
                      ELSE [leave EXCEPT !.pending = @ + 1]
      BY <1>10 DEF AskLeave
    <2>2. \A days \in Promised : ~(Closing - leave.pending - 1 < days)
      BY <1>0, <1>10 DEF AskLeave, Fell
    <2>3. /\ leave'.taken + leave'.pending = leave.taken + leave.pending + 1
          /\ leave'.encashed = leave.encashed
          /\ leave'.taken \in Nat /\ leave'.pending \in Nat
      BY <1>0, <1>1, <2>1 DEF LeaveRows
    <2>4. leave.encashed \in Nat
      BY <1>1, <1>2
    <2>5. leave'.taken + leave'.pending + leave'.encashed <= Entitled
      BY <1>1, <2>1, <2>3 DEF Closing
    <2>6. ASSUME NEW k \in Requests, op[k].kind \in {"process", "book"}
          PROVE  leave'.taken + leave'.pending + op[k].fig.days <= Entitled
      <3>1. op[k].fig.days \in Promised
        BY <2>6 DEF Promised, InFlight
      <3>2. op[k].fig.days \in Nat
        BY <1>0, <2>6, Snapshots DEF Figures
      <3>3. ~(Closing - leave.pending - 1 < op[k].fig.days)
        BY <2>2, <3>1
      <3>4. QED
        BY <1>1, <2>3, <2>4, <3>2, <3>3 DEF Closing
    <2>7. ASSUME settlement.status = "DRAFT"
          PROVE  leave'.taken + leave'.pending + settlement.fig.days <= Entitled
      <3>1. settlement.fig.days \in Promised
        BY <2>7 DEF Promised
      <3>2. ~(Closing - leave.pending - 1 < settlement.fig.days)
        BY <2>2, <3>1
      <3>3. QED
        BY <1>1, <2>3, <2>4, <3>2 DEF Closing
    <2>8. QED
      BY <2>1, <2>5, <2>6, <2>7
  <1>11. ASSUME NEW approved \in BOOLEAN, DecideLeave(approved)
         PROVE  /\ leave'.taken + leave'.pending + leave'.encashed <= Entitled
                /\ \A k \in Requests : op'[k].kind \in {"process", "book"} =>
                       leave'.taken + leave'.pending + op'[k].fig.days <= Entitled
                /\ settlement'.status = "DRAFT" =>
                       leave'.taken + leave'.pending + settlement'.fig.days <= Entitled
    <2>1. /\ settlement' = settlement /\ op' = op
          /\ leave' = [leave EXCEPT !.pending = @ - 1,
                                    !.taken = IF approved THEN @ + 1 ELSE @]
      BY <1>11 DEF DecideLeave
    <2>2. /\ leave'.taken = IF approved THEN leave.taken + 1 ELSE leave.taken
          /\ leave'.pending = leave.pending - 1 /\ leave'.encashed = leave.encashed
      BY <1>0, <2>1 DEF LeaveRows
    <2>3. \A k \in Requests : op[k].kind \in {"process", "book"} => op[k].fig.days \in Nat
      BY <1>0, Snapshots DEF Figures
    <2>4. leave'.taken + leave'.pending <= leave.taken + leave.pending
             /\ leave'.taken + leave'.pending \in Int
      BY <1>1, <2>2
    <2>5. \A n \in Int : leave.taken + leave.pending + n <= Entitled =>
                             leave'.taken + leave'.pending + n <= Entitled
      BY <1>1, <2>4
    <2>6. QED
      BY <1>1, <1>2, <2>1, <2>2, <2>3, <2>5
  <1>12. CASE \/ \E h \in Requests : \/ CalculateRead(h) \/ ProcessRead(h) \/ ProcessBook(h)
                                     \/ ReverseRead(h) \/ PayRead(h) \/ RunRead(h)
                                     \/ RunCommit(h) \/ GiveUp(h)
              \/ RemoveRun \/ LockRun \/ UnlockRun
              \/ \E n \in 1..Principal : Repay(n)
              \/ \E c \in Claims, status \in {"APPROVED", "REJECTED", "PAID"} :
                     ReviewClaim(c, status)
              \/ UNCHANGED vars
    <2>1. settlement' = settlement /\ leave' = leave
      BY <1>12 DEF CalculateRead, ProcessRead, ProcessBook, ReverseRead, PayRead, RunRead,
                   RunCommit, GiveUp, RemoveRun, LockRun, UnlockRun, Repay, ReviewClaim, vars
    <2>2. QED
      BY <1>4, <2>1
  <1>13. ASSUME leave' = leave
         PROVE  leave'.taken + leave'.pending + leave'.encashed <= Entitled
    BY <1>2, <1>13
  <1>14. QED
    <2>1. CASE \E h \in Requests : CalculateCommit(h)
      BY <1>3, <1>5, <1>13, <2>1
    <2>2. CASE \E h \in Requests : ProcessCommit(h)
      BY <1>3, <1>6, <2>2
    <2>3. CASE \E h \in Requests : ReverseCommit(h)
      BY <1>3, <1>7, <2>3
    <2>4. CASE \E h \in Requests : PayCommit(h)
      BY <1>3, <1>8, <1>13, <2>4
    <2>5. QED
      BY <1>9, <1>10, <1>11, <1>12, <2>1, <2>2, <2>3, <2>4 DEF Next

-----------------------------------------------------------------------------
(* The month's salary *)

\* Outside its windows the settlement does not pay a month that a regular run pays.
SalaryOnce ==
    races \cap {"month", "recalculated", "again"} = {} =>
        ~(Settled /\ settlement.fig.salary /\ regular.status # "NONE")

LEMMA SalaryStep == Held /\ SalaryOnce /\ [Next]_vars => SalaryOnce'
  <1> SUFFICES ASSUME Held, SalaryOnce, [Next]_vars,
                      races' \cap {"month", "recalculated", "again"} = {},
                      Settled', settlement'.fig.salary
               PROVE  regular'.status = "NONE"
    BY DEF SalaryOnce
  <1>0. /\ Held /\ TypeInv /\ TypeOK /\ settlement \in SettlementRows
        /\ regular \in RegularRows /\ op \in [Requests -> Ops]
        /\ races \cap {"month", "recalculated", "again"} = {}
    BY RacesGrow DEF Held, TypeInv, TypeOK
  <1>1. ASSUME Settled, settlement' = settlement
        PROVE  regular.status = "NONE"
    BY <1>0, <1>1 DEF SalaryOnce
  <1>2. CASE settlement' = settlement /\ regular' = regular
    BY <1>1, <1>2 DEF Settled
  <1>3. ASSUME NEW h \in Requests, CalculateCommit(h)
        PROVE  settlement' = settlement /\ regular' = regular
    BY <1>0, <1>3, CalculationStep DEF CalculateCommit
  <1>4. ASSUME NEW h \in Requests, ProcessCommit(h)
        PROVE  regular'.status = "NONE"
    <2>1. op[h].kind = "book" /\ regular' = regular /\ MonthClear(op[h].fig)
      BY <1>0, <1>4 DEF ProcessCommit
    <2>2. settlement.fig = op[h].fig
      BY <1>0, <2>1 DEF Held, BookingHeld
    <2>3. settlement'.fig = settlement.fig
      BY <1>0, <1>4, BookingStep
    <2>4. QED
      BY <1>0, <2>1, <2>2, <2>3 DEF MonthClear, RegularRows
  <1>5. ASSUME NEW h \in Requests, ReverseCommit(h)
        PROVE  FALSE
    BY <1>0, <1>5 DEF ReverseCommit, Settled, SettlementRows
  <1>6. ASSUME NEW h \in Requests, PayCommit(h)
        PROVE  regular'.status = "NONE"
    BY <1>0, <1>6 DEF PayCommit, SalaryOnce, Settled, SettlementRows
  <1>7. CASE DiscardDraft
    BY <1>7 DEF DiscardDraft, NoSettlement, Settled
  <1>8. ASSUME NEW h \in Requests, RunCommit(h)
        PROVE  FALSE
    BY <1>0, <1>8 DEF RunCommit, Fell, Settled
  <1>9. CASE RemoveRun \/ LockRun \/ UnlockRun
    BY <1>0, <1>1, <1>9 DEF RemoveRun, LockRun, UnlockRun, Settled
  <1>10. ASSUME NEW n \in 1..Principal, Repay(n)
         PROVE  regular'.status = "NONE"
    BY <1>0, <1>1, <1>10 DEF Repay, RegularRows, Settled
  <1>11. CASE \/ \E h \in Requests : \/ CalculateRead(h) \/ ProcessRead(h) \/ ProcessBook(h)
                                     \/ ReverseRead(h) \/ PayRead(h) \/ RunRead(h)
                                     \/ GiveUp(h)
              \/ \E c \in Claims, status \in {"APPROVED", "REJECTED", "PAID"} :
                     ReviewClaim(c, status)
              \/ \E recorded \in BOOLEAN : AskLeave(recorded)
              \/ \E approved \in BOOLEAN : DecideLeave(approved)
              \/ UNCHANGED vars
    <2>1. settlement' = settlement /\ regular' = regular
      BY <1>11 DEF CalculateRead, ProcessRead, ProcessBook, ReverseRead, PayRead, RunRead,
                   GiveUp, ReviewClaim, AskLeave, DecideLeave, vars
    <2>2. QED
      BY <1>2, <2>1
  <1>12. QED
    BY <1>2, <1>3, <1>4, <1>5, <1>6, <1>7, <1>8, <1>9, <1>10, <1>11 DEF Next

LEMMA FirstDays == Init => DaysBooked /\ DaysLeft /\ SalaryOnce
  BY SettlementAssumption
  DEF Init, DaysBooked, DaysLeft, SalaryOnce, Settled, NoSettlement, NoFigures, Idle

\* The last month's salary is not paid by both runs, nor a day of leave both taken and
\* paid out, however calculations, bookings, reversals, payroll runs and leave
\* interleave (calculate, process, reverse; calculatePayroll; leaves.service).
THEOREM PaidOnceCorrect == Spec => []PaidOnce
  <1>1. DaysLeft /\ SalaryOnce => PaidOnce
    BY DEF DaysLeft, SalaryOnce, PaidOnce
  <1>2. QED
    BY <1>1, FirstDays, HeldInit, HeldStep, DaysBookedStep, DaysLeftStep, SalaryStep, PTL
    DEF Spec

-----------------------------------------------------------------------------
(* The payslip and the claims *)

Paid == {c \in Claims : claim[c].run # NoRun}

\* Outside the windows: what a settled row has booked, and that no other has any.
Booked ==
    /\ Settled =>
         /\ Live = {settlement.run}
         /\ final[settlement.run].fig = settlement.fig
         /\ (final[settlement.run].status = "PAID") <=> (settlement.status = "PAID")
         /\ \A c \in Paid : claim[c].run = settlement.run /\ claim[c].status = "PAID"
         /\ Cardinality(Paid) = settlement.fig.claims
    /\ ~Settled => Live = {} /\ Paid = {}

BookedOnce == races \cap {"recalculated", "claim", "again"} = {} => Booked

LEMMA BookedFirst == Init => BookedOnce
  BY DEF Init, BookedOnce, Booked, Settled, NoSettlement, Live, Paid

\* Nothing booked changes while settlement, final runs and the paid claims do not.
LEMMA BookedKept ==
    ASSUME Booked, settlement' = settlement, final' = final, Paid' = Paid,
           \A c \in Paid : claim'[c] = claim[c]
    PROVE  Booked'
  BY DEF Booked, Settled, Live

LEMMA BookedStep == Held /\ BookedOnce /\ [Next]_vars => BookedOnce'
  <1> SUFFICES ASSUME Held, BookedOnce, [Next]_vars,
                      races' \cap {"recalculated", "claim", "again"} = {}
               PROVE  Booked'
    BY DEF BookedOnce
  <1>0. /\ Held /\ TypeInv /\ TypeOK /\ settlement \in SettlementRows
        /\ final \in [Runs -> FinalRows] /\ claim \in [Claims -> ClaimRows]
        /\ op \in [Requests -> Ops] /\ NoRun \notin Runs
        /\ races \cap {"recalculated", "claim", "again"} = {}
    BY RacesGrow, SettlementAssumption DEF Held, TypeInv, TypeOK
  <1>1. Booked
    BY <1>0 DEF BookedOnce
  <1>2. CASE settlement' = settlement /\ final' = final /\ claim' = claim
    BY <1>1, <1>2, BookedKept DEF Paid
  <1>3. ASSUME NEW h \in Requests, CalculateCommit(h)
        PROVE  Booked'
    <2>1. final' = final /\ claim' = claim
      BY <1>3 DEF CalculateCommit
    <2>2. (Settled' <=> Settled) /\ (Settled => settlement' = settlement)
      BY <1>0, <1>3, CalculationStep
    <2>3. Live' = Live /\ Paid' = Paid
      BY <2>1 DEF Live, Paid
    <2>4. QED
      BY <1>1, <2>1, <2>2, <2>3 DEF Booked
  <1>4. ASSUME NEW h \in Requests, ProcessCommit(h)
        PROVE  Booked'
    <2>1. PICK r \in Runs :
            /\ Live = {} /\ final[r].status = "NONE"
            /\ final' = [final EXCEPT ![r] = [status |-> "APPROVED", fig |-> op[h].fig]]
            /\ settlement'.status = "PROCESSED" /\ settlement'.run = r
            /\ settlement'.fig = settlement.fig
            /\ claim' = [c \in Claims |->
                   IF c \in Approved THEN [status |-> "PAID", run |-> r] ELSE claim[c]]
      BY <1>0, <1>4, BookingStep
    <2>2. op[h].kind = "book" /\ Cardinality(Approved) = op[h].fig.claims
      BY <1>0, <1>4 DEF ProcessCommit
    <2>3. settlement.status = "DRAFT" /\ settlement.fig = op[h].fig
      BY <1>0, <2>2 DEF Held, BookingHeld
    <2>4. Paid = {}
      BY <1>1, <2>3 DEF Booked, Settled
    <2>5. Settled' /\ settlement'.status # "PAID"
      BY <2>1 DEF Settled
    <2>6. \A s \in Runs : final'[s] = IF s = r THEN [status |-> "APPROVED", fig |-> op[h].fig]
                                      ELSE final[s]
      BY <1>0, <2>1
    <2>7. Live' = {r}
      BY <2>1, <2>6 DEF Live
    <2>8. final'[r].fig = settlement'.fig /\ final'[r].status # "PAID"
      BY <2>1, <2>3, <2>6
    <2>9. \A c \in Claims : claim'[c] = IF c \in Approved THEN [status |-> "PAID", run |-> r]
                                        ELSE claim[c]
      BY <2>1
    <2>10. Paid' = Approved
      BY <1>0, <2>1, <2>4, <2>9 DEF Paid, Approved
    <2>11. \A c \in Paid' : claim'[c].run = r /\ claim'[c].status = "PAID"
      BY <2>9, <2>10 DEF Approved
    <2>12. Cardinality(Paid') = settlement'.fig.claims
      BY <2>1, <2>2, <2>3, <2>10
    <2>13. QED
      BY <2>1, <2>5, <2>7, <2>8, <2>11, <2>12 DEF Booked
  <1>5. ASSUME NEW h \in Requests, ReverseCommit(h)
        PROVE  Booked'
    <2>1. /\ op[h].kind = "reverse" /\ settlement.status = "PROCESSED"
          /\ settlement.run = op[h].run
          /\ settlement' = [settlement EXCEPT !.status = "DRAFT", !.run = NoRun, !.closed = None]
          /\ claim' = [c \in Claims |->
                 IF op[h].run # NoRun /\ claim[c].run = op[h].run
                 THEN [status |-> "APPROVED", run |-> NoRun] ELSE claim[c]]
          /\ final' = [s \in Runs |->
                 IF s = op[h].run THEN [final[s] EXCEPT !.status = "DELETED"] ELSE final[s]]
      BY <1>0, <1>5 DEF ReverseCommit, Reapproved
    <2>2. /\ Settled /\ Live = {settlement.run} /\ settlement.run \in Runs
          /\ \A c \in Paid : claim[c].run = settlement.run
      BY <1>0, <1>1, <2>1 DEF Booked, Settled, Held, RunHeld
    <2>3. ~Settled'
      BY <1>0, <2>1 DEF Settled, SettlementRows
    <2>4. ASSUME NEW s \in Runs, final'[s].status \in {"APPROVED", "PAID"}
          PROVE  FALSE
      <3>1. CASE s = op[h].run
        BY <1>0, <2>1, <2>4, <3>1 DEF FinalRows
      <3>2. CASE s # op[h].run
        BY <2>1, <2>2, <2>4, <3>2 DEF Live
      <3>3. QED
        BY <3>1, <3>2
    <2>5. ASSUME NEW c \in Claims
          PROVE  claim'[c].run = NoRun
      <3>1. CASE c \in Paid
        BY <1>0, <2>1, <2>2, <3>1
      <3>2. CASE c \notin Paid
        BY <1>0, <2>1, <3>2 DEF Paid
      <3>3. QED
        BY <3>1, <3>2
    <2>6. Live' = {} /\ Paid' = {}
      BY <2>4, <2>5 DEF Live, Paid
    <2>7. QED
      BY <2>3, <2>6 DEF Booked
  <1>6. ASSUME NEW h \in Requests, PayCommit(h)
        PROVE  Booked'
    <2>1. /\ settlement.status = "PROCESSED" /\ settlement.run = op[h].run
          /\ settlement' = [settlement EXCEPT !.status = "PAID"]
          /\ final' = [s \in Runs |-> IF s = op[h].run /\ s \in Live
                                      THEN [final[s] EXCEPT !.status = "PAID"] ELSE final[s]]
          /\ claim' = claim
      BY <1>0, <1>6 DEF PayCommit, Fell
    <2>2. /\ Settled /\ Live = {settlement.run} /\ settlement.run \in Runs
          /\ final[settlement.run].fig = settlement.fig
          /\ \A c \in Paid : claim[c].run = settlement.run /\ claim[c].status = "PAID"
          /\ Cardinality(Paid) = settlement.fig.claims
      BY <1>0, <1>1, <2>1 DEF Booked, Settled, Held, RunHeld
    <2>3. /\ settlement'.status = "PAID" /\ settlement'.run = settlement.run
          /\ settlement'.fig = settlement.fig
      BY <1>0, <2>1 DEF SettlementRows
    <2>4. \A s \in Runs : s # settlement.run => final'[s] = final[s]
      BY <2>1
    <2>5. final'[settlement.run] = [final[settlement.run] EXCEPT !.status = "PAID"]
      BY <2>1, <2>2
    <2>6. final'[settlement.run].status = "PAID" /\ final'[settlement.run].fig = settlement.fig
      BY <1>0, <2>2, <2>5 DEF FinalRows
    <2>7. Live' = {settlement.run}
      BY <2>2, <2>4, <2>6 DEF Live
    <2>8. Paid' = Paid /\ Settled'
      BY <2>1, <2>3 DEF Paid, Settled
    <2>9. QED
      BY <2>1, <2>2, <2>3, <2>6, <2>7, <2>8 DEF Booked
  <1>7. CASE DiscardDraft
    BY <1>1, <1>7 DEF DiscardDraft, NoSettlement, Booked, Settled, Live, Paid
  <1>8. ASSUME NEW c \in Claims, NEW status \in {"APPROVED", "REJECTED", "PAID"},
               ReviewClaim(c, status)
        PROVE  Booked'
    <2>1. /\ claim[c].status \in {"PENDING", "APPROVED"}
          /\ claim' = [claim EXCEPT ![c].status = status]
          /\ settlement' = settlement /\ final' = final
      BY <1>8 DEF ReviewClaim
    <2>2. \A d \in Claims : claim'[d].run = claim[d].run
      BY <1>0, <2>1 DEF ClaimRows
    <2>3. Paid' = Paid
      BY <2>2 DEF Paid
    <2>4. c \notin Paid
      BY <1>1, <2>1 DEF Booked
    <2>5. \A d \in Paid : claim'[d] = claim[d]
      BY <1>0, <2>1, <2>4 DEF Paid
    <2>6. QED
      BY <1>1, <2>1, <2>3, <2>5, BookedKept
  <1>9. CASE \/ \E h \in Requests : \/ CalculateRead(h) \/ ProcessRead(h) \/ ProcessBook(h)
                                    \/ ReverseRead(h) \/ PayRead(h) \/ RunRead(h)
                                    \/ RunCommit(h) \/ GiveUp(h)
             \/ RemoveRun \/ LockRun \/ UnlockRun
             \/ \E n \in 1..Principal : Repay(n)
             \/ \E recorded \in BOOLEAN : AskLeave(recorded)
             \/ \E approved \in BOOLEAN : DecideLeave(approved)
             \/ UNCHANGED vars
    <2>1. settlement' = settlement /\ final' = final /\ claim' = claim
      BY <1>9 DEF CalculateRead, ProcessRead, ProcessBook, ReverseRead, PayRead, RunRead,
                  RunCommit, GiveUp, RemoveRun, LockRun, UnlockRun, Repay, AskLeave,
                  DecideLeave, vars
    <2>2. QED
      BY <1>2, <2>1
  <1>10. QED
    BY <1>3, <1>4, <1>5, <1>6, <1>7, <1>8, <1>9 DEF Next

\* A processed settlement has one live payslip, with the figures approved, and has paid
\* exactly the claims and the days of leave in them; one that is not has paid nothing
\* (process, reverse, markPaid).
THEOREM BookedCorrect == Spec => []BookedAsFigured
  <1>1. BookedOnce /\ DaysBooked => BookedAsFigured
    BY DEF BookedOnce, Booked, Paid, DaysBooked, BookedAsFigured
  <1>2. QED
    BY <1>1, BookedFirst, FirstDays, HeldInit, HeldStep, DaysBookedStep, BookedStep, PTL
    DEF Spec
=============================================================================
