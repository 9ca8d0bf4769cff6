------------------------- MODULE PayrollEffectsProofs -------------------------
(****************************************************************************)
(* What a lock settles and an unlock takes back, for any number of runs,    *)
(* months, handlers and encashments and any loan.                           *)
(*                                                                          *)
(* The argument: outside the windows one handler at a time applies or takes *)
(* back what a run settles, and while a handler that has checked is at work *)
(* nobody else writes the loan or an encashment.                            *)
(****************************************************************************)
EXTENDS PayrollRunProofs

-----------------------------------------------------------------------------
(* Who writes what *)

\* The handlers that apply or take back the effects of a lock.
Settlers == EffectKinds \cup UndoKinds

\* The loan and its repayments have three writers, an encashment four.
LEMMA SettledStep ==
    ASSUME [Next]_vars
    PROVE  /\ \/ UNCHANGED <<balance, repaid>>
              \/ \E h \in Requests : EffectsCharge(h) \/ RepayCommit(h) \/ UndoRestore(h)
           /\ \/ UNCHANGED <<encStatus, encRun>>
              \/ \E h \in Requests : EffectsEncash(h) \/ UndoEncash(h)
              \/ \E e \in Encashments : EncashmentApproved(e) \/ EncashmentProcessed(e)
  <1> DEFINE Loan == \/ UNCHANGED <<balance, repaid>>
                     \/ \E h \in Requests : EffectsCharge(h) \/ RepayCommit(h) \/ UndoRestore(h)
             Encs == \/ UNCHANGED <<encStatus, encRun>>
                     \/ \E h \in Requests : EffectsEncash(h) \/ UndoEncash(h)
                     \/ \E e \in Encashments : EncashmentApproved(e) \/ EncashmentProcessed(e)
  <1>1. UNCHANGED settled => Loan /\ Encs
    BY DEF settled
  <1>2. UNCHANGED <<balance, repaid>> => Loan
    OBVIOUS
  <1>3. UNCHANGED <<encStatus, encRun>> => Encs
    OBVIOUS
  <1>4. ASSUME NEW h \in Requests, Read(h)
        PROVE  UNCHANGED settled
    BY <1>4
       DEF Read, CalculateRead, AdjustRead, TransitionRead, Reapply, UnlockRead, HoldRead,
           InputRead, RepayRead
  <1>5. ASSUME NEW h \in Requests, Write(h)
        PROVE  Loan /\ Encs
    <2>1. ASSUME \/ \E r \in Runs : CalculateCommit(h, r)
                 \/ AdjustCommit(h) \/ TransitionCommit(h) \/ Refuse(h)
                 \/ EffectsCheck(h) \/ EffectsMark(h) \/ EffectsFail(h)
          PROVE  UNCHANGED settled
      BY <2>1 DEF CalculateCommit, AdjustCommit, TransitionCommit, Refuse, EffectsCheck,
                  EffectsMark, EffectsFail
    <2>2. ASSUME UnlockCommit(h) \/ UndoLoan(h) \/ HoldCommit(h) \/ InputCommit(h) \/ Stop(h)
          PROVE  UNCHANGED settled
      BY <2>2 DEF UnlockCommit, UndoLoan, HoldCommit, InputCommit, Stop
    <2>3. ASSUME EffectsEncash(h) \/ UndoEncash(h)
          PROVE  Loan /\ Encs
      <3>1. UNCHANGED <<balance, repaid>>
        BY <2>3 DEF EffectsEncash, UndoEncash
      <3>2. QED
        BY <2>3, <3>1
    <2>4. ASSUME EffectsCharge(h) \/ RepayCommit(h) \/ UndoRestore(h)
          PROVE  Loan /\ Encs
      <3>1. UNCHANGED <<encStatus, encRun>>
        BY <2>4 DEF EffectsCharge, RepayCommit, UndoRestore
      <3>2. QED
        BY <2>4, <3>1
    <2> HIDE DEF Loan, Encs
    <2>5. QED
      BY <1>1, <1>5, <2>1, <2>2, <2>3, <2>4 DEF Write
  <1>6. ASSUME NEW e \in Encashments, EncashmentApproved(e) \/ EncashmentProcessed(e)
        PROVE  Loan /\ Encs
    <2>1. UNCHANGED <<balance, repaid>>
      BY <1>6 DEF EncashmentApproved, EncashmentProcessed
    <2>2. QED
      BY <1>6, <2>1
  <1>7. ASSUME NEW r \in Runs, Draft(r) \/ RemoveRun(r) \/ Release(r)
        PROVE  UNCHANGED settled
    BY <1>7 DEF Draft, RemoveRun, Release
  <1>8. UNCHANGED vars => UNCHANGED settled
    BY DEF vars, settled
  <1> HIDE DEF Loan, Encs
  <1>9. Loan /\ Encs
    BY <1>1, <1>4, <1>5, <1>6, <1>7, <1>8 DEF Next
  <1>10. QED
    BY <1>9 DEF Loan, Encs

\* How a handler comes to hold a snapshot of a lock, an unlock or their effects.
LEMMA SettlerStep ==
    ASSUME TypeOK, [Next]_vars, NEW h \in Requests,
           op'[h].kind \in Settlers \cup {"transition", "unlock"}
    PROVE  \/ op'[h] = op[h]
           \/ \E r \in Runs, action \in Actions, a \in Actors : TransitionRead(h, r, action, a)
           \/ \E r \in Runs, a \in Actors : UnlockRead(h, r, a)
           \/ \E r \in Runs : Reapply(h, r)
           \/ TransitionCommit(h) /\ op[h].action = "lock"
           \/ EffectsEncash(h) \/ EffectsCheck(h) \/ EffectsCharge(h)
           \/ UnlockCommit(h) \/ UndoEncash(h) \/ UndoLoan(h) \/ UndoRestore(h)
  <1> DEFINE Come == \/ op'[h] = op[h]
                     \/ \E r \in Runs, action \in Actions, a \in Actors :
                          TransitionRead(h, r, action, a)
                     \/ \E r \in Runs, a \in Actors : UnlockRead(h, r, a)
                     \/ \E r \in Runs : Reapply(h, r)
                     \/ TransitionCommit(h) /\ op[h].action = "lock"
                     \/ EffectsEncash(h) \/ EffectsCheck(h) \/ EffectsCharge(h)
                     \/ UnlockCommit(h) \/ UndoEncash(h) \/ UndoLoan(h) \/ UndoRestore(h)
  <1>1. op'[h] = op[h] => Come
    OBVIOUS
  <1>2. ASSUME NEW g \in Requests,
               Finish(g) \/ \E o : Start(g, o) \/ Continue(g, o), g # h
        PROVE  op'[h] = op[h]
    BY <1>2 DEF Finish, Start, Continue, TypeOK
  <1>3. ASSUME Finish(h)
        PROVE  FALSE
    <2>1. op'[h] = Idle
      BY <1>3 DEF Finish, TypeOK
    <2>2. QED
      BY <2>1 DEF Idle, Settlers, EffectKinds, UndoKinds
  <1>4. ASSUME NEW o, Start(h, o)
        PROVE  op'[h] = o
    BY <1>4 DEF Start, TypeOK
  <1>5. ASSUME NEW g \in Requests, Read(g)
        PROVE  Come
    <2>1. CASE \E p \in Periods, a \in Actors : CalculateRead(g, p, a)
      <3>1. PICK o : Start(g, o) /\ o.kind = "calculate"
        BY <2>1 DEF CalculateRead
      <3>2. QED
        BY <1>1, <1>2, <1>4, <3>1 DEF Settlers, EffectKinds, UndoKinds
    <2>2. CASE \E r \in Runs, recalculated \in BOOLEAN : AdjustRead(g, r, recalculated)
      <3>1. PICK o : Start(g, o) /\ o.kind = "adjust"
        BY <2>2 DEF AdjustRead
      <3>2. QED
        BY <1>1, <1>2, <1>4, <3>1 DEF Settlers, EffectKinds, UndoKinds
    <2>3. CASE \E r \in Runs, action \in Actions, a \in Actors : TransitionRead(g, r, action, a)
      <3>1. PICK o : Start(g, o)
        BY <2>3 DEF TransitionRead
      <3>2. QED
        BY <1>1, <1>2, <2>3, <3>1
    <2>4. CASE \E r \in Runs : Reapply(g, r)
      <3>1. PICK o : Start(g, o)
        BY <2>4 DEF Reapply
      <3>2. QED
        BY <1>1, <1>2, <2>4, <3>1
    <2>5. CASE \E r \in Runs, a \in Actors : UnlockRead(g, r, a)
      <3>1. PICK o : Start(g, o)
        BY <2>5 DEF UnlockRead
      <3>2. QED
        BY <1>1, <1>2, <2>5, <3>1
    <2>6. CASE \E r \in Runs : HoldRead(g, r)
      <3>1. PICK o : Start(g, o) /\ o.kind = "hold"
        BY <2>6 DEF HoldRead
      <3>2. QED
        BY <1>1, <1>2, <1>4, <3>1 DEF Settlers, EffectKinds, UndoKinds
    <2>7. CASE \E p \in Periods : InputRead(g, p)
      <3>1. PICK o : Start(g, o) /\ o.kind = "input"
        BY <2>7 DEF InputRead
      <3>2. QED
        BY <1>1, <1>2, <1>4, <3>1 DEF Settlers, EffectKinds, UndoKinds
    <2>8. CASE \E p \in Periods, n \in Repayments : RepayRead(g, p, n)
      <3>1. PICK o : Start(g, o) /\ o.kind = "repay"
        BY <2>8 DEF RepayRead
      <3>2. QED
        BY <1>1, <1>2, <1>4, <3>1 DEF Settlers, EffectKinds, UndoKinds
    <2> HIDE DEF Come
    <2>9. QED
      BY <1>5, <2>1, <2>2, <2>3, <2>4, <2>5, <2>6, <2>7, <2>8 DEF Read
  <1>6. ASSUME NEW g \in Requests, Write(g)
        PROVE  Come
    <2>1. ASSUME \/ \E r \in Runs : CalculateCommit(g, r)
                 \/ AdjustCommit(g) \/ Refuse(g) \/ EffectsMark(g) \/ EffectsFail(g)
                 \/ HoldCommit(g) \/ InputCommit(g) \/ RepayCommit(g) \/ Stop(g)
          PROVE  Come
      <3>1. Finish(g)
        BY <2>1 DEF CalculateCommit, AdjustCommit, Refuse, EffectsMark, EffectsFail,
                    HoldCommit, InputCommit, RepayCommit, Stop
      <3>2. QED
        BY <1>1, <1>2, <1>3, <3>1
    <2>2. ASSUME TransitionCommit(g)
          PROVE  Come
      <3>1. \/ op[g].action = "lock" /\ \E o : Continue(g, o)
            \/ Finish(g)
        BY <2>2 DEF TransitionCommit
      <3>2. QED
        BY <1>1, <1>2, <1>3, <2>2, <3>1
    <2>3. ASSUME EffectsEncash(g) \/ EffectsCheck(g) \/ EffectsCharge(g)
          PROVE  Come
      <3>1. \E o : Continue(g, o)
        BY <2>3 DEF EffectsEncash, EffectsCheck, EffectsCharge
      <3>2. QED
        BY <1>1, <1>2, <2>3, <3>1
    <2>4. ASSUME UnlockCommit(g) \/ UndoEncash(g) \/ UndoLoan(g) \/ UndoRestore(g)
          PROVE  Come
      <3>1. Finish(g) \/ \E o : Continue(g, o)
        BY <2>4 DEF UnlockCommit, UndoEncash, UndoLoan, UndoRestore
      <3>2. QED
        BY <1>1, <1>2, <1>3, <2>4, <3>1
    <2> HIDE DEF Come
    <2>5. QED
      BY <1>6, <2>1, <2>2, <2>3, <2>4 DEF Write
  <1>7. ASSUME UNCHANGED op
        PROVE  Come
    BY <1>7
  <1> HIDE DEF Come
  <1>8. Come
    BY <1>5, <1>6, <1>7
       DEF Next, vars, Draft, RemoveRun, Release, EncashmentApproved, EncashmentProcessed
  <1>9. QED
    BY <1>8 DEF Come

-----------------------------------------------------------------------------
(* One handler at a time *)

\* Two handlers never apply, or take back, the effects of one run.
OneApplier ==
    \A g, h \in Requests :
        /\ op[g].kind \in Settlers /\ op[h].kind \in Settlers
        /\ op[g].run = op[h].run
        => g = h

\* A step of one handler leaves the snapshots of the others.
LEMMA OneHandler ==
    ASSUME TypeOK, NEW k \in Requests, Read(k) \/ Write(k)
    PROVE  \A j \in Requests \ {k} : op'[j] = op[j]
  <1>1. Finish(k) \/ (\E o : Start(k, o)) \/ (\E o : Continue(k, o))
    <2>1. Read(k) => \E o : Start(k, o)
      BY DEF Read, CalculateRead, AdjustRead, TransitionRead, Reapply, UnlockRead, HoldRead,
             InputRead, RepayRead
    <2>2. (\E r \in Runs : CalculateCommit(k, r)) => Finish(k)
      BY DEF CalculateCommit
    <2>3. AdjustCommit(k) \/ Refuse(k) \/ EffectsMark(k) \/ EffectsFail(k) => Finish(k)
      BY DEF AdjustCommit, Refuse, EffectsMark, EffectsFail
    <2>a. InputCommit(k) => Finish(k)
      BY Zenon DEF InputCommit
    <2>4. HoldCommit(k) \/ InputCommit(k) \/ RepayCommit(k) \/ Stop(k) => Finish(k)
      BY <2>a DEF HoldCommit, RepayCommit, Stop
    <2>5. TransitionCommit(k) => Finish(k) \/ \E o : Continue(k, o)
      BY DEF TransitionCommit
    <2>6. EffectsEncash(k) \/ EffectsCheck(k) \/ EffectsCharge(k) => \E o : Continue(k, o)
      BY DEF EffectsEncash, EffectsCheck, EffectsCharge
    <2>7. UnlockCommit(k) \/ UndoEncash(k) \/ UndoLoan(k) \/ UndoRestore(k)
            => Finish(k) \/ \E o : Continue(k, o)
      BY DEF UnlockCommit, UndoEncash, UndoLoan, UndoRestore
    <2>8. QED
      BY <2>1, <2>2, <2>3, <2>4, <2>5, <2>6, <2>7 DEF Write
  <1>2. QED
    BY <1>1 DEF Finish, Start, Continue, TypeOK

\* Outside `effects' a handler that starts on the effects of a run is alone, and
\* one that goes on stays with its run.
LEMMA ApplierStep ==
    ASSUME TypeOK, [Next]_vars, "effects" \notin races', NEW h \in Requests,
           op'[h].kind \in Settlers
    PROVE  \/ op[h].kind \in Settlers /\ op'[h].run = op[h].run
           \/ \A g \in Requests : op[g].kind \in Settlers => op[g].run # op'[h].run
  <1>1. CASE op'[h] = op[h]
    BY <1>1
  <1>2. ASSUME NEW r \in Runs, NEW action \in Actions, NEW a \in Actors,
               TransitionRead(h, r, action, a)
        PROVE  FALSE
    <2>1. PICK o : Start(h, o) /\ o.kind \in {"transition", "refuse"}
      BY <1>2 DEF TransitionRead
    <2>2. op'[h] = o
      BY <2>1 DEF Start, TypeOK
    <2>3. QED
      BY <2>1, <2>2 DEF Settlers, EffectKinds, UndoKinds
  <1>3. ASSUME NEW r \in Runs, NEW a \in Actors, UnlockRead(h, r, a)
        PROVE  FALSE
    <2>1. op'[h].kind = "unlock"
      BY <1>3 DEF UnlockRead, Start, TypeOK
    <2>2. QED
      BY <2>1 DEF Settlers, EffectKinds, UndoKinds
  <1>4. ASSUME NEW r \in Runs, Reapply(h, r)
        PROVE  \A g \in Requests : op[g].kind \in Settlers => op[g].run # op'[h].run
    <2>1. op'[h].run = r
      BY <1>4 DEF Reapply, Start, Effects, TypeOK
    <2>2. Applying(r) = {}
      BY <1>4 DEF Reapply, Fell
    <2>3. QED
      BY <2>1, <2>2 DEF Applying, Settlers
  <1>5. ASSUME TransitionCommit(h), op[h].action = "lock"
        PROVE  \A g \in Requests : op[g].kind \in Settlers => op[g].run # op'[h].run
    <2>1. op'[h].run = op[h].run
      BY <1>5 DEF TransitionCommit, Continue, Effects, TypeOK
    <2>2. Applying(op[h].run) = {}
      BY <1>5 DEF TransitionCommit, Fell
    <2>3. QED
      BY <2>1, <2>2 DEF Applying, Settlers
  <1>6. ASSUME UnlockCommit(h)
        PROVE  \A g \in Requests : op[g].kind \in Settlers => op[g].run # op'[h].run
    <2>1. op'[h].run = op[h].run
      BY <1>6 DEF UnlockCommit, Continue, TypeOK
    <2>2. Applying(op[h].run) = {}
      BY <1>6 DEF UnlockCommit, Fell
    <2>3. QED
      BY <2>1, <2>2 DEF Applying, Settlers
  <1>7. ASSUME EffectsEncash(h) \/ EffectsCheck(h)
        PROVE  op[h].kind \in Settlers /\ op'[h].run = op[h].run
    <2>1. op[h].kind \in {"encash", "check"}
      BY <1>7 DEF EffectsEncash, EffectsCheck
    <2>2. op[h] \in [kind: {"encash", "check", "mark"}, run: Runs, slip: Slips, locking: BOOLEAN]
      BY <2>1, OpType DEF TypeOK
    <2>3. /\ [op[h] EXCEPT !.kind = "check"].run = op[h].run
          /\ [op[h] EXCEPT !.kind = "mark"].run = op[h].run
      BY <2>2
    <2>a. \A o : Continue(h, o) => op'[h] = o
      BY DEF Continue, TypeOK
    <2>b. EffectsEncash(h) => op'[h] = [op[h] EXCEPT !.kind = "check"]
      BY <2>a DEF EffectsEncash
    <2>c. EffectsCheck(h) => \/ op'[h] = [op[h] EXCEPT !.kind = "mark"]
                             \/ op'[h].run = op[h].run
      BY <2>a DEF EffectsCheck
    <2>4. op'[h].run = op[h].run
      BY <1>7, <2>3, <2>b, <2>c
    <2>5. QED
      BY <2>1, <2>4 DEF Settlers, EffectKinds
  <1>8. ASSUME EffectsCharge(h)
        PROVE  op[h].kind \in Settlers /\ op'[h].run = op[h].run
    BY <1>8 DEF EffectsCharge, Continue, TypeOK, Settlers, EffectKinds
  <1>9. ASSUME UndoEncash(h) \/ UndoRestore(h)
        PROVE  op[h].kind \in Settlers /\ op'[h].run = op[h].run
    BY <1>9 DEF UndoEncash, UndoRestore, Continue, TypeOK, Settlers, UndoKinds
  <1>10. ASSUME UndoLoan(h)
         PROVE  op[h].kind \in Settlers /\ op'[h].run = op[h].run
    <2>1. ~Finish(h)
      BY DEF Finish, TypeOK, Idle, Settlers, EffectKinds, UndoKinds
    <2>2. QED
      BY <1>10, <2>1 DEF UndoLoan, Continue, TypeOK, Settlers, UndoKinds
  <1>11. QED
    BY <1>1, <1>2, <1>3, <1>4, <1>5, <1>6, <1>7, <1>8, <1>9, <1>10, SettlerStep

LEMMA OneApplierStep ==
    ASSUME TypeOK, OneApplier, [Next]_vars, "effects" \notin races'
    PROVE  OneApplier'
  <1> SUFFICES ASSUME NEW g \in Requests, NEW h \in Requests, g # h,
                      op'[g].kind \in Settlers, op'[h].kind \in Settlers,
                      op'[g].run = op'[h].run
               PROVE  FALSE
    BY DEF OneApplier
  <1>1. op'[g] = op[g] \/ op'[h] = op[h]
    <2>1. ASSUME NEW k \in Requests, Read(k) \/ Write(k)
          PROVE  \A j \in Requests \ {k} : op'[j] = op[j]
      BY <2>1, OneHandler
    <2>2. QED
      BY <2>1
         DEF Next, vars, Draft, RemoveRun, Release, EncashmentApproved, EncashmentProcessed
  <1>2. /\ \/ op[g].kind \in Settlers /\ op'[g].run = op[g].run
           \/ \A k \in Requests : op[k].kind \in Settlers => op[k].run # op'[g].run
        /\ \/ op[h].kind \in Settlers /\ op'[h].run = op[h].run
           \/ \A k \in Requests : op[k].kind \in Settlers => op[k].run # op'[h].run
    BY ApplierStep
  <1>3. QED
    BY <1>1, <1>2 DEF OneApplier

-----------------------------------------------------------------------------
(* Repayments *)

\* recordRepayment, for a locked run or by hand: one more repayment, which takes
\* no more than is owed.
LEMMA Added ==
    ASSUME TypeOK, NEW h \in Requests, EffectsCharge(h) \/ RepayCommit(h)
    PROVE  LET last == Len(repaid) + 1
               new  == repaid'[last]
           IN
           /\ DOMAIN repaid = 1..Len(repaid) /\ Len(repaid) \in Nat
           /\ DOMAIN repaid' = 1..last /\ Len(repaid') = last
           /\ \A i \in DOMAIN repaid : repaid'[i] = repaid[i]
           /\ new.run = IF op[h].kind = "charge" THEN op[h].run ELSE NoRun
           /\ new.amount = op[h].amount
           /\ op[h].kind \in {"charge", "repay"} /\ op[h].amount \in Nat
           /\ op[h].kind = "charge" => balance > 0 /\ op[h].run \in Runs
           /\ new.principal = Least(op[h].amount, balance)
           /\ new.principal \in 0..balance
           /\ new.after = balance - new.principal /\ balance' = new.after
  <1> DEFINE n == op[h].amount
             run == IF op[h].kind = "charge" THEN op[h].run ELSE NoRun
             part == PrincipalPart(n)
  <1>1. /\ op[h].kind \in {"charge", "repay"} /\ n \in Nat
        /\ op[h].kind = "charge" => balance > 0 /\ op[h].run \in Runs
    BY OpType DEF EffectsCharge, RepayCommit, TypeOK
  <1>2. PICK p : Repay(run, p, n)
    BY DEF EffectsCharge, RepayCommit
  <1>3. part = Least(n, balance) /\ part \in 0..balance
    BY <1>1 DEF PrincipalPart, Least, TypeOK
  <1> DEFINE new == [run |-> run, period |-> p, amount |-> n, principal |-> part,
                     after |-> balance - part]
  <1>4. balance' = balance - part /\ repaid' = Append(repaid, new)
    BY <1>2 DEF Repay
  <1>5. /\ new.run = run /\ new.amount = n /\ new.principal = part
        /\ new.after = balance - part
    OBVIOUS
  <1> HIDE DEF new, part
  <1>6. /\ DOMAIN repaid = 1..Len(repaid) /\ Len(repaid) \in Nat
        /\ DOMAIN repaid' = 1..(Len(repaid) + 1) /\ Len(repaid') = Len(repaid) + 1
        /\ \A i \in DOMAIN repaid : repaid'[i] = repaid[i]
        /\ repaid'[Len(repaid) + 1] = new
    BY <1>4 DEF TypeOK
  <1>7. QED
    BY <1>1, <1>3, <1>4, <1>5, <1>6

\* What the repayments are without the one at position i.
IsWithout(new, old, i) ==
    /\ DOMAIN new = 1..(Len(old) - 1) /\ Len(new) = Len(old) - 1
    /\ \A k \in DOMAIN new : new[k] = IF k < i THEN old[k] ELSE old[k + 1]

\* undoAfterLock's transaction: at most one repayment less, the one that was read.
LEMMA Removed ==
    ASSUME TypeOK, NEW h \in Requests, UndoRestore(h)
    PROVE  /\ op[h].kind = "restore" /\ op[h].run \in Runs
           /\ op[h].balance \in Nat /\ op[h].repayment \in Repaid
           /\ DOMAIN repaid = 1..Len(repaid) /\ Len(repaid) \in Nat
           /\ balance' = op[h].balance + op[h].repayment.principal
           /\ \/ repaid' = repaid /\ \A i \in DOMAIN repaid : repaid[i] # op[h].repayment
              \/ \E i \in DOMAIN repaid :
                   repaid[i] = op[h].repayment /\ IsWithout(repaid', repaid, i)
  <1>1. /\ op[h].kind = "restore" /\ op[h].run \in Runs
        /\ op[h].balance \in Nat /\ op[h].repayment \in Repaid
    BY OpType DEF UndoRestore, TypeOK
  <1>2. ASSUME NEW i \in Positions(op[h].repayment), repaid' = Without(i)
        PROVE  \E j \in DOMAIN repaid :
                 repaid[j] = op[h].repayment /\ IsWithout(repaid', repaid, j)
    <2>1. i \in DOMAIN repaid /\ repaid[i] = op[h].repayment
      BY DEF Positions
    <2>2. /\ Len(Without(i)) = Len(repaid) - 1
          /\ DOMAIN Without(i) = 1..(Len(repaid) - 1)
          /\ \A k \in 1..(Len(repaid) - 1) :
                Without(i)[k] = IF k < i THEN repaid[k] ELSE repaid[k + 1]
      BY <2>1, WithoutType DEF TypeOK
    <2>3. IsWithout(repaid', repaid, i)
      BY <1>2, <2>2 DEF IsWithout
    <2>4. QED
      BY <2>1, <2>3
  <1>3. \/ \E i \in Positions(op[h].repayment) : repaid' = Without(i)
        \/ repaid' = repaid /\ \A i \in DOMAIN repaid : repaid[i] # op[h].repayment
    BY DEF UndoRestore, Positions
  <1>4. DOMAIN repaid = 1..Len(repaid) /\ Len(repaid) \in Nat
    BY DEF TypeOK
  <1>5. balance' = op[h].balance + op[h].repayment.principal
    BY DEF UndoRestore, Restored
  <1>6. QED
    BY <1>1, <1>2, <1>3, <1>4, <1>5

\* Only a charge makes a run a charged one.
LEMMA ChargedStep ==
    ASSUME TypeOK, [Next]_vars, NEW r \in Runs, Charged(r)', ~Charged(r)
    PROVE  \E h \in Requests : EffectsCharge(h) /\ op[h].kind = "charge" /\ op[h].run = r
  <1>1. PICK i \in DOMAIN repaid' : repaid'[i].run = r
    BY DEF Charged
  <1>2. ASSUME NEW h \in Requests, EffectsCharge(h) \/ RepayCommit(h)
        PROVE  \E g \in Requests : EffectsCharge(g) /\ op[g].kind = "charge" /\ op[g].run = r
    <2>1. i \notin DOMAIN repaid
      BY <1>1, <1>2, Added DEF Charged
    <2>2. i = Len(repaid) + 1
      BY <1>2, <2>1, Added
    <2>3. r = IF op[h].kind = "charge" THEN op[h].run ELSE NoRun
      BY <1>1, <1>2, <2>2, Added
    <2>4. op[h].kind = "charge" /\ op[h].run = r
      BY <2>3, PayrollAssumption
    <2>5. ~RepayCommit(h)
      BY <2>4 DEF RepayCommit
    <2>6. QED
      BY <1>2, <2>4, <2>5
  <1>3. ASSUME NEW h \in Requests, UndoRestore(h)
        PROVE  FALSE
    <2>1. ASSUME NEW j \in DOMAIN repaid, IsWithout(repaid', repaid, j)
          PROVE  FALSE
      <3>1. Len(repaid) \in Nat /\ DOMAIN repaid = 1..Len(repaid)
        BY <1>3, Removed
      <3>2. i \in DOMAIN repaid /\ i + 1 \in DOMAIN repaid
        BY <1>1, <2>1, <3>1 DEF IsWithout
      <3>3. repaid'[i] = repaid[i] \/ repaid'[i] = repaid[i + 1]
        BY <1>1, <2>1 DEF IsWithout
      <3>4. QED
        BY <1>1, <3>2, <3>3 DEF Charged
    <2>2. QED
      BY <1>1, <1>3, <2>1, Removed DEF Charged
  <1>4. QED
    BY <1>1, <1>2, <1>3, SettledStep DEF Charged

-----------------------------------------------------------------------------
(* A run charges the loan once *)

\* A charge in flight is the first of its run.
ChargeFresh ==
    \A h \in Requests, r \in Runs : op[h].kind = "charge" /\ op[h].run = r => ~Charged(r)

Once ==
    \A i, j \in DOMAIN repaid :
        repaid[i].run = repaid[j].run /\ repaid[i].run # NoRun => i = j

LEMMA FreshStep ==
    ASSUME TypeOK, OneApplier, ChargeFresh, [Next]_vars, "effects" \notin races'
    PROVE  ChargeFresh'
  <1> SUFFICES ASSUME NEW h \in Requests, NEW r \in Runs,
                      op'[h].kind = "charge", op'[h].run = r, Charged(r)'
               PROVE  FALSE
    BY DEF ChargeFresh
  <1>1. CASE op'[h] = op[h]
    <2>1. ~Charged(r)
      BY <1>1 DEF ChargeFresh
    <2>2. PICK g \in Requests : EffectsCharge(g) /\ op[g].kind = "charge" /\ op[g].run = r
      BY <2>1, ChargedStep
    <2>3. g = h
      BY <1>1, <2>2 DEF OneApplier, Settlers, EffectKinds
    <2>4. op'[h].kind = "mark"
      BY <2>2, <2>3 DEF EffectsCharge, Continue, TypeOK
    <2>5. QED
      BY <2>4
  <1>2. CASE EffectsCheck(h)
    <2>1. repaid' = repaid /\ op[h].kind = "check"
      BY <1>2 DEF EffectsCheck, settled
    <2>2. op[h] \in [kind: {"encash", "check", "mark"}, run: Runs, slip: Slips, locking: BOOLEAN]
      BY <2>1, OpType DEF TypeOK
    <2>3. [op[h] EXCEPT !.kind = "mark"].kind = "mark"
      BY <2>2
    <2>4. op'[h] # [op[h] EXCEPT !.kind = "mark"]
      BY <2>3
    <2>a. ASSUME NEW o, Continue(h, o)
          PROVE  op'[h] = o
      BY <2>a DEF Continue, TypeOK
    <2>b. PICK n : MayCharge(op[h]) /\ Continue(h, [kind |-> "charge", run |-> op[h].run,
                     slip |-> op[h].slip, locking |-> op[h].locking, amount |-> n])
      BY <1>2, <2>4, <2>a DEF EffectsCheck
    <2>5. MayCharge(op[h]) /\ op'[h].run = op[h].run
      BY <2>a, <2>b
    <2>6. QED
      BY <2>1, <2>5 DEF MayCharge, Charged
  <1>3. CASE op'[h] # op[h] /\ ~EffectsCheck(h)
    <2>1. ASSUME NEW s \in Runs, NEW action \in Actions, NEW a \in Actors,
                 TransitionRead(h, s, action, a)
          PROVE  FALSE
      <3>1. PICK o : Start(h, o) /\ o.kind \in {"transition", "refuse"}
        BY <2>1 DEF TransitionRead
      <3>2. op'[h] = o
        BY <3>1 DEF Start, TypeOK
      <3>3. QED
        BY <3>1, <3>2
    <2>2. ASSUME NEW s \in Runs, NEW a \in Actors, UnlockRead(h, s, a)
          PROVE  FALSE
      BY <2>2 DEF UnlockRead, Start, TypeOK
    <2>3. ASSUME NEW s \in Runs, Reapply(h, s)
          PROVE  FALSE
      BY <2>3 DEF Reapply, Start, Effects, TypeOK
    <2>4. ASSUME TransitionCommit(h), op[h].action = "lock"
          PROVE  FALSE
      BY <2>4 DEF TransitionCommit, Continue, Effects, TypeOK
    <2>5. ASSUME EffectsEncash(h)
          PROVE  FALSE
      <3>1. op[h].kind = "encash"
        BY <2>5 DEF EffectsEncash
      <3>2. op[h] \in [kind: {"encash", "check", "mark"}, run: Runs, slip: Slips,
                       locking: BOOLEAN]
        BY <3>1, OpType DEF TypeOK
      <3>3. [op[h] EXCEPT !.kind = "check"].kind = "check"
        BY <3>2
      <3>4. QED
        BY <2>5, <3>3 DEF EffectsEncash, Continue, TypeOK
    <2>6. ASSUME EffectsCharge(h)
          PROVE  FALSE
      BY <2>6 DEF EffectsCharge, Continue, TypeOK
    <2>7. ASSUME UnlockCommit(h) \/ UndoEncash(h) \/ UndoLoan(h) \/ UndoRestore(h)
          PROVE  FALSE
      BY <2>7 DEF UnlockCommit, UndoEncash, UndoLoan, UndoRestore, Continue, Finish, Idle, TypeOK
    <2>8. QED
      BY <1>3, <2>1, <2>2, <2>3, <2>4, <2>5, <2>6, <2>7, SettlerStep
         DEF Settlers, EffectKinds
  <1>4. QED
    BY <1>1, <1>2, <1>3

LEMMA OnceStep ==
    ASSUME TypeOK, ChargeFresh, Once, [Next]_vars
    PROVE  Once'
  <1>1. ASSUME NEW h \in Requests, EffectsCharge(h) \/ RepayCommit(h)
        PROVE  Once'
    <2> SUFFICES ASSUME NEW i \in DOMAIN repaid', NEW j \in DOMAIN repaid',
                        repaid'[i].run = repaid'[j].run, repaid'[i].run # NoRun, i < j
                 PROVE  FALSE
      BY <1>1, Added DEF Once
    <2>1. i \in DOMAIN repaid
      BY <1>1, Added
    <2>2. j \notin DOMAIN repaid
      BY <1>1, <2>1, Added DEF Once
    <2>3. j = Len(repaid) + 1
      BY <1>1, <2>2, Added
    <2>4. op[h].kind = "charge" /\ op[h].run \in Runs /\ repaid'[j].run = op[h].run
      BY <1>1, <2>3, Added
    <2>5. Charged(op[h].run)
      BY <1>1, <2>1, <2>4, Added DEF Charged
    <2>6. QED
      BY <2>4, <2>5 DEF ChargeFresh
  <1>2. ASSUME NEW h \in Requests, UndoRestore(h)
        PROVE  Once'
    <2>1. ASSUME NEW k \in DOMAIN repaid, IsWithout(repaid', repaid, k)
          PROVE  Once'
      <3>1. Len(repaid) \in Nat /\ DOMAIN repaid = 1..Len(repaid)
        BY <1>2, Removed
      <3> DEFINE was(i) == IF i < k THEN i ELSE i + 1
      <3>2. \A i \in DOMAIN repaid' : was(i) \in DOMAIN repaid /\ repaid'[i] = repaid[was(i)]
        BY <2>1, <3>1 DEF IsWithout
      <3>3. \A i, j \in DOMAIN repaid' : was(i) = was(j) => i = j
        BY <2>1, <3>1 DEF IsWithout
      <3> HIDE DEF was
      <3>4. QED
        BY <3>2, <3>3 DEF Once
    <2>2. QED
      BY <1>2, <2>1, Removed DEF Once
  <1>3. QED
    BY <1>1, <1>2, SettledStep DEF Once

\* A run charges the loan once, whatever is locked, unlocked, interrupted, failed,
\* retried and re-applied, unless two handlers work on the effects of one run
\* (the check for an earlier repayment in applyLoanRepayments).
THEOREM LoanIsChargedOnce == Spec => []ChargedOnce
  <1> DEFINE Inv == "effects" \notin races => OneApplier /\ ChargeFresh /\ Once
  <1>1. Init => Inv
    BY DEF Init, OneApplier, ChargeFresh, Once, Idle, Settlers, EffectKinds, UndoKinds
  <1>2. TypeOK /\ Inv /\ [Next]_vars => Inv'
    BY RacesGrow, OneApplierStep, FreshStep, OnceStep
  <1>3. Inv => ChargedOnce
    BY DEF Once, ChargedOnce
  <1>4. QED
    BY <1>1, <1>2, <1>3, TypeCorrect, PTL DEF Spec

-----------------------------------------------------------------------------
(* The loan's books *)

\* A handler that is to charge has something to charge, one that is to give back
\* gives back what its run charged.
Charging == \A h \in Requests : op[h].kind = "charge" => op[h].amount > 0
Restoring ==
    \A h \in Requests : op[h].kind = "restore" => op[h].repayment.run = op[h].run

\* What a run charged is never nothing.
Charges == \A i \in DOMAIN repaid : repaid[i].run # NoRun => repaid[i].principal > 0

LEMMA ChargingStep ==
    ASSUME TypeOK, Charging, Restoring, [Next]_vars
    PROVE  Charging' /\ Restoring'
  <1> SUFFICES ASSUME NEW h \in Requests, op'[h].kind \in {"charge", "restore"}, op'[h] # op[h]
               PROVE  /\ op'[h].kind = "charge" => op'[h].amount > 0
                      /\ op'[h].kind = "restore" => op'[h].repayment.run = op'[h].run
    BY DEF Charging, Restoring
  <1>1. ASSUME NEW o, Start(h, o)
        PROVE  op'[h] = o
    BY <1>1 DEF Start, TypeOK
  <1>2. ASSUME NEW o, Continue(h, o)
        PROVE  op'[h] = o
    BY <1>2 DEF Continue, TypeOK
  <1>3. ASSUME NEW s \in Runs, NEW action \in Actions, NEW a \in Actors,
               TransitionRead(h, s, action, a)
        PROVE  FALSE
    <2>1. PICK o : Start(h, o) /\ o.kind \in {"transition", "refuse"}
      BY <1>3 DEF TransitionRead
    <2>2. QED
      BY <1>1, <2>1
  <1>4. ASSUME NEW s \in Runs
        PROVE  ~Reapply(h, s) /\ \A a \in Actors : ~UnlockRead(h, s, a)
    BY <1>1 DEF UnlockRead, Reapply, Effects
  <1>5. ~(TransitionCommit(h) /\ op[h].action = "lock")
    <2>1. ASSUME TransitionCommit(h), op[h].action = "lock"
          PROVE  \E o : Continue(h, o) /\ o.kind = "encash"
      BY <2>1 DEF TransitionCommit, Effects
    <2>2. QED
      BY <1>2, <2>1
  <1>6. ~EffectsEncash(h)
    <2>1. ASSUME EffectsEncash(h)
          PROVE  FALSE
      <3>1. op[h].kind = "encash"
        BY <2>1 DEF EffectsEncash
      <3>2. op[h] \in [kind: {"encash", "check", "mark"}, run: Runs, slip: Slips,
                       locking: BOOLEAN]
        BY <3>1, OpType DEF TypeOK
      <3>3. [op[h] EXCEPT !.kind = "check"].kind = "check"
        BY <3>2
      <3>4. QED
        BY <1>2, <2>1, <3>3 DEF EffectsEncash
    <2>2. QED
      BY <2>1
  <1>7. ~EffectsCharge(h) /\ ~UnlockCommit(h) /\ ~UndoEncash(h) /\ ~UndoRestore(h)
    <2>1. ~EffectsCharge(h)
      BY <1>2 DEF EffectsCharge
    <2>2. ~UnlockCommit(h) /\ ~UndoEncash(h)
      BY <1>2 DEF UnlockCommit, UndoEncash
    <2>3. ~UndoRestore(h)
      BY <1>2 DEF UndoRestore
    <2>4. QED
      BY <2>1, <2>2, <2>3
  <1>8. ASSUME EffectsCheck(h)
        PROVE  op'[h].kind = "charge" /\ op'[h].amount > 0
    <2>1. op[h].kind = "check"
      BY <1>8 DEF EffectsCheck
    <2>2. op[h] \in [kind: {"encash", "check", "mark"}, run: Runs, slip: Slips,
                     locking: BOOLEAN]
      BY <2>1, OpType DEF TypeOK
    <2>3. [op[h] EXCEPT !.kind = "mark"].kind = "mark"
      BY <2>2
    <2>4. MayCharge(op[h]) /\ op'[h].kind = "charge" /\ op'[h].amount = Charge(op[h])
      <3>1. ~Continue(h, [op[h] EXCEPT !.kind = "mark"])
        BY <1>2, <2>3
      <3>2. MayCharge(op[h]) /\ Continue(h, [kind |-> "charge", run |-> op[h].run,
              slip |-> op[h].slip, locking |-> op[h].locking, amount |-> Charge(op[h])])
        BY <1>8, <3>1 DEF EffectsCheck
      <3>3. QED
        BY <1>2, <3>2
    <2>5. QED
      BY <2>4 DEF MayCharge
  <1>9. ASSUME UndoLoan(h)
        PROVE  op'[h].kind = "restore" /\ op'[h].repayment.run = op'[h].run
    <2>1. ~Finish(h)
      BY DEF Finish, TypeOK, Idle
    <2>2. LatestIs(op[h].run) /\ Continue(h, [kind |-> "restore", run |-> op[h].run,
                                     balance |-> balance, repayment |-> Latest])
      BY <1>9, <2>1 DEF UndoLoan
    <2>3. QED
      BY <1>2, <2>2 DEF LatestIs
  <1>10. QED
    BY <1>3, <1>4, <1>5, <1>6, <1>7, <1>8, <1>9, SettlerStep
       DEF Settlers, EffectKinds, UndoKinds

LEMMA ChargesStep ==
    ASSUME TypeOK, Charging, Charges, [Next]_vars
    PROVE  Charges'
  <1>1. ASSUME NEW h \in Requests, EffectsCharge(h) \/ RepayCommit(h)
        PROVE  Charges'
    <2> SUFFICES ASSUME NEW i \in DOMAIN repaid', repaid'[i].run # NoRun
                 PROVE  repaid'[i].principal > 0
      BY DEF Charges
    <2>1. CASE i \in DOMAIN repaid
      BY <1>1, <2>1, Added DEF Charges
    <2>2. CASE i \notin DOMAIN repaid
      <3>1. i = Len(repaid) + 1
        BY <1>1, <2>2, Added
      <3>2. op[h].kind = "charge" /\ balance > 0 /\ op[h].amount > 0
        BY <1>1, <3>1, Added DEF Charging
      <3>3. repaid'[i].principal = Least(op[h].amount, balance)
        BY <1>1, <3>1, Added
      <3>4. QED
        BY <3>2, <3>3 DEF Least
    <2>3. QED
      BY <2>1, <2>2
  <1>2. ASSUME NEW h \in Requests, UndoRestore(h)
        PROVE  Charges'
    <2>1. ASSUME NEW k \in DOMAIN repaid, IsWithout(repaid', repaid, k)
          PROVE  Charges'
      <3>1. Len(repaid) \in Nat /\ DOMAIN repaid = 1..Len(repaid)
        BY <1>2, Removed
      <3>2. \A i \in DOMAIN repaid' : i \in DOMAIN repaid /\ i + 1 \in DOMAIN repaid
        BY <2>1, <3>1 DEF IsWithout
      <3>3. \A i \in DOMAIN repaid' : repaid'[i] = repaid[i] \/ repaid'[i] = repaid[i + 1]
        BY <2>1 DEF IsWithout
      <3>4. QED
        BY <3>2, <3>3 DEF Charges
    <2>2. QED
      BY <1>2, <2>1, Removed DEF Charges
  <1>3. QED
    BY <1>1, <1>2, SettledStep DEF Charges

\* The balance is what the last repayment left, every repayment leaves what was
\* owed before it less its principal part, and so what is owed never grows from
\* one to a later one.
Books ==
    /\ balance = Before(Len(repaid) + 1)
    /\ \A i \in DOMAIN repaid : Before(i) = repaid[i].after + repaid[i].principal
    /\ \A i, j \in DOMAIN repaid : i < j => Before(j) <= repaid[i].after

\* Books tell two repayments that took something apart.
LEMMA LastOfItsKind ==
    ASSUME TypeOK, Books, NEW i \in DOMAIN repaid, NEW j \in DOMAIN repaid,
           repaid[i] = repaid[j], repaid[i].principal > 0, i < j
    PROVE  FALSE
  <1>1. repaid[i] \in Repaid /\ repaid[j] \in Repaid
    BY DEF TypeOK
  <1>2. Before(j) <= repaid[i].after /\ Before(j) = repaid[j].after + repaid[j].principal
    BY DEF Books
  <1>3. QED
    BY <1>1, <1>2 DEF Repaid

LEMMA BooksStep ==
    ASSUME TypeOK, Charges, Restoring, Books, [Next]_vars, "undo" \notin races'
    PROVE  Books'
  <1>0. PICK len \in Nat : len = Len(repaid) /\ DOMAIN repaid = 1..len
    BY DEF TypeOK
  <1>1. ASSUME NEW h \in Requests, EffectsCharge(h) \/ RepayCommit(h)
        PROVE  Books'
    <2> DEFINE last == len + 1
    <2>1. /\ DOMAIN repaid' = 1..last /\ Len(repaid') = last
          /\ \A i \in DOMAIN repaid : repaid'[i] = repaid[i]
      BY <1>0, <1>1, Added
    <2>2. /\ repaid'[last].principal \in 0..balance
          /\ repaid'[last].after = balance - repaid'[last].principal
          /\ balance' = repaid'[last].after
      BY <1>0, <1>1, Added
    <2>3. \A i \in 1..last : Before(i)' = Before(i)
      BY <1>0, <2>1 DEF Before
    <2>4. Before(last) = balance /\ balance \in Nat
      BY <1>0 DEF Books, TypeOK
    <2>5. balance' = Before(last + 1)'
      BY <1>0, <2>1, <2>2 DEF Before
    <2>6. ASSUME NEW i \in DOMAIN repaid'
          PROVE  Before(i)' = repaid'[i].after + repaid'[i].principal
      <3>1. CASE i = last
        BY <2>2, <2>3, <2>4, <3>1, <1>0
      <3>2. CASE i # last
        BY <1>0, <2>1, <2>3, <3>2 DEF Books
      <3>3. QED
        BY <3>1, <3>2
    <2>7. ASSUME NEW i \in DOMAIN repaid', NEW j \in DOMAIN repaid', i < j
          PROVE  Before(j)' <= repaid'[i].after
      <3>1. i \in DOMAIN repaid /\ repaid'[i] = repaid[i] /\ Before(j)' = Before(j)
        BY <1>0, <2>1, <2>3, <2>7
      <3>2. CASE j \in DOMAIN repaid
        BY <2>7, <3>1, <3>2 DEF Books
      <3>3. CASE j = last
        <4>1. CASE i = len
          <5>1. Before(last) = repaid[i].after
            BY <1>0, <3>1, <4>1 DEF Before
          <5>2. QED
            BY <2>4, <3>1, <3>3, <5>1
        <4>2. CASE i < len
          <5>1. len \in DOMAIN repaid
            BY <1>0, <3>1
          <5>2. repaid[len] \in Repaid /\ repaid[i] \in Repaid
            BY <3>1, <5>1 DEF TypeOK
          <5>3. Before(len) <= repaid[i].after
            BY <3>1, <4>2, <5>1 DEF Books
          <5>4. Before(len) = repaid[len].after + repaid[len].principal
            BY <5>1 DEF Books
          <5>5. Before(last) = repaid[len].after
            BY <1>0, <5>1 DEF Before
          <5>6. QED
            BY <3>1, <3>3, <5>2, <5>3, <5>4, <5>5 DEF Repaid
        <4>3. QED
          BY <1>0, <3>1, <4>1, <4>2
      <3>4. QED
        BY <1>0, <2>1, <3>2, <3>3
    <2>8. QED
      BY <1>0, <2>1, <2>5, <2>6, <2>7 DEF Books
  <1>2. ASSUME NEW h \in Requests, UndoRestore(h)
        PROVE  Books'
    <2> DEFINE last == len
    <2>1. balance = op[h].balance /\ repaid # <<>> /\ repaid[last] = op[h].repayment
      BY <1>0, <1>2 DEF UndoRestore, Fell, Latest
    <2>2. last \in DOMAIN repaid /\ repaid[last] \in Repaid
      BY <1>0, <2>1 DEF TypeOK
    <2>3. repaid[last].run # NoRun /\ repaid[last].principal > 0
      <3>1. op[h].kind = "restore" /\ op[h].run \in Runs
        BY <1>2, Removed
      <3>2. repaid[last].run = op[h].run
        BY <2>1, <3>1 DEF Restoring
      <3>3. QED
        BY <2>2, <3>1, <3>2, PayrollAssumption DEF Charges
    <2>4. PICK i \in DOMAIN repaid : repaid[i] = op[h].repayment /\ IsWithout(repaid', repaid, i)
      BY <1>2, <2>1, <2>2, Removed
    <2>5. i = last
      <3>1. ~(i < last)
        BY <2>1, <2>2, <2>3, <2>4, LastOfItsKind
      <3>2. QED
        BY <1>0, <3>1
    <2>6. /\ DOMAIN repaid' = 1..(last - 1) /\ Len(repaid') = last - 1
          /\ \A k \in DOMAIN repaid' : repaid'[k] = repaid[k]
      BY <1>0, <2>4, <2>5 DEF IsWithout
    <2>7. \A k \in 1..last : Before(k)' = Before(k)
      BY <1>0, <2>6 DEF Before
    <2>8. balance' = balance + repaid[last].principal
      BY <1>2, <2>1, Removed
    <2>9. balance = repaid[last].after /\ Before(last) = repaid[last].after + repaid[last].principal
      BY <1>0, <2>2 DEF Books, Before
    <2>10. balance' = Before(len)'
      BY <1>0, <2>2, <2>6, <2>7, <2>8, <2>9
    <2>11. QED
      BY <1>0, <2>6, <2>7, <2>10 DEF Books
  <1>3. ASSUME UNCHANGED <<balance, repaid>>
        PROVE  Books'
    BY <1>3 DEF Books, Before
  <1>4. QED
    BY <1>1, <1>2, <1>3, SettledStep

\* The loan's books are right whatever is charged, entered by hand and taken back,
\* unless an unlock restores a balance it read before somebody else's repayment
\* (recordRepayment, undoAfterLock).
THEOREM LoanBooksAddUp == Spec => []LoanAddsUp
  <1> DEFINE Inv == /\ Charging /\ Restoring /\ Charges
                    /\ "undo" \notin races => Books
  <1>1. Init => Inv
    <2> SUFFICES ASSUME Init PROVE Inv
      OBVIOUS
    <2>1. repaid = <<>> /\ Len(repaid) = 0 /\ DOMAIN repaid = {} /\ balance = Principal
      BY DEF Init
    <2>2. Books /\ Charges
      BY <2>1 DEF Books, Before, Charges
    <2>3. Charging /\ Restoring
      BY DEF Init, Idle, Charging, Restoring
    <2>4. QED
      BY <2>2, <2>3
  <1>2. TypeOK /\ Inv /\ [Next]_vars => Inv'
    BY RacesGrow, ChargingStep, ChargesStep, BooksStep
  <1>3. Inv => LoanAddsUp
    BY DEF Books, LoanAddsUp
  <1>4. QED
    BY <1>1, <1>2, <1>3, TypeCorrect, PTL DEF Spec

-----------------------------------------------------------------------------
(* What a step does to a run, to its handlers and to what they settle *)

\* Nothing was failed or stopped half-way, no two handlers met, and nobody else
\* settled what a lock had checked.
Clear == races \cap SettlementWindows = {}

\* How a handler goes on with the effects of a run when nothing fails.
LEMMA SettlerGoes ==
    ASSUME TypeOK, [Next]_vars, races' \cap {"failed", "stopped"} = {}, NEW h \in Requests,
           op[h].kind \in Settlers, op'[h] # op[h]
    PROVE  \/ EffectsEncash(h) \/ EffectsCheck(h) \/ EffectsCharge(h) \/ EffectsMark(h)
           \/ UndoEncash(h) \/ UndoLoan(h) \/ UndoRestore(h)
  <1>1. PICK g \in Requests : Read(g) \/ Write(g)
    BY DEF Next, vars, Draft, RemoveRun, Release, EncashmentApproved, EncashmentProcessed
  <1>2. g = h
    BY <1>1, OneHandler
  <1>3. op[h].kind \in {"encash", "check", "charge", "mark", "undoEncash", "undoLoan", "restore"}
    BY DEF Settlers, EffectKinds, UndoKinds
  <1>4. ~Read(h)
    <2>1. Read(h) => op[h] = Idle
      BY DEF Read, CalculateRead, AdjustRead, TransitionRead, Reapply, UnlockRead, HoldRead,
             InputRead, RepayRead, Start
    <2>2. Idle.kind = "idle"
      BY DEF Idle
    <2>3. QED
      BY <1>3, <2>1, <2>2
  <1>5. /\ ~(\E r \in Runs : CalculateCommit(h, r)) /\ ~AdjustCommit(h) /\ ~Refuse(h)
        /\ ~TransitionCommit(h) /\ ~UnlockCommit(h) /\ ~HoldCommit(h) /\ ~InputCommit(h)
        /\ ~RepayCommit(h)
    <2>1. /\ (\E r \in Runs : CalculateCommit(h, r)) => op[h].kind = "calculate"
          /\ AdjustCommit(h) => op[h].kind = "adjust"
          /\ Refuse(h) => op[h].kind = "refuse"
          /\ TransitionCommit(h) => op[h].kind = "transition"
          /\ UnlockCommit(h) => op[h].kind = "unlock"
          /\ HoldCommit(h) => op[h].kind = "hold"
          /\ InputCommit(h) => op[h].kind = "input"
          /\ RepayCommit(h) => op[h].kind = "repay"
      BY Zenon DEF CalculateCommit, AdjustCommit, Refuse, TransitionCommit, UnlockCommit,
                   HoldCommit, InputCommit, RepayCommit
    <2>2. QED
      BY <1>3, <2>1
  <1>6. ~EffectsFail(h) /\ ~Stop(h)
    BY DEF EffectsFail, Stop, Fell, Settlers
  <1>7. QED
    BY <1>1, <1>2, <1>4, <1>5, <1>6 DEF Write

\* With which snapshot o a handler comes to apply, or take back, effects.
ComesTo(h, o) ==
    /\ o.kind = "transition" /\ o.action = "lock" =>
         /\ o.run \in Runs /\ o.row = row[o.run] /\ ~EmiStale(o.run)
         /\ ~EncashmentStale(o.run) /\ UNCHANGED <<row, settled>>
    /\ o.kind = "unlock" => o.run \in Runs /\ Reversible(o.run) /\ UNCHANGED <<row, settled>>
    /\ o.kind = "encash" =>
         /\ o.run \in Runs /\ o.slip = row[o.run].slip
         /\ Reapply(h, o.run) \/ (/\ TransitionCommit(h) /\ op[h].action = "lock"
                                  /\ op[h].run = o.run)
    /\ o.kind = "check" =>
         /\ EffectsEncash(h) /\ op[h].kind = "encash"
         /\ o.run = op[h].run /\ o.slip = op[h].slip
    /\ o.kind = "charge" =>
         /\ EffectsCheck(h) /\ op[h].kind = "check" /\ MayCharge(op[h])
         /\ o.run = op[h].run /\ o.slip = op[h].slip /\ o.amount = Charge(op[h])
    /\ o.kind = "mark" =>
         /\ \/ EffectsCheck(h) /\ op[h].kind = "check" /\ ~MayCharge(op[h])
            \/ EffectsCharge(h) /\ op[h].kind = "charge"
         /\ o.run = op[h].run /\ o.slip = op[h].slip
    /\ o.kind = "undoEncash" => UnlockCommit(h) /\ o.run = op[h].run
    /\ o.kind = "undoLoan" =>
         /\ \/ UndoEncash(h) /\ op[h].kind = "undoEncash"
            \/ UndoRestore(h) /\ op[h].kind = "restore"
         /\ o.run = op[h].run
    /\ o.kind = "restore" =>
         /\ UndoLoan(h) /\ op[h].kind = "undoLoan" /\ o.run = op[h].run

LEMMA SettlerComes ==
    ASSUME TypeOK, [Next]_vars, NEW h \in Requests, NEW o, op'[h] = o, o # op[h]
    PROVE  ComesTo(h, o)
  <1>1. \A x : Start(h, x) \/ Continue(h, x) => o = x
    BY DEF Start, Continue, TypeOK
  <1>2. Finish(h) => o.kind = "idle"
    BY DEF Finish, Idle, TypeOK
  <1>3. ASSUME NEW r \in Runs, NEW action \in Actions, NEW a \in Actors,
               TransitionRead(h, r, action, a)
        PROVE  ComesTo(h, o)
    <2>1. \/ /\ action = "lock" => ~EmiStale(r) /\ ~EncashmentStale(r)
             /\ o = [kind |-> "transition", action |-> action, run |-> r, row |-> row[r], by |-> a]
          \/ o = [kind |-> "refuse", run |-> r]
      BY <1>1, <1>3 DEF TransitionRead
    <2>2. UNCHANGED <<row, settled>>
      BY <1>3 DEF TransitionRead
    <2>3. QED
      BY <2>1, <2>2 DEF ComesTo
  <1>4. ASSUME NEW r \in Runs, NEW a \in Actors, UnlockRead(h, r, a)
        PROVE  ComesTo(h, o)
    <2>1. o = [kind |-> "unlock", run |-> r, row |-> row[r]] /\ Reversible(r)
      BY <1>1, <1>4 DEF UnlockRead
    <2>2. UNCHANGED <<row, settled>>
      BY <1>4 DEF UnlockRead
    <2>3. QED
      BY <2>1, <2>2 DEF ComesTo
  <1>5. ASSUME NEW r \in Runs, Reapply(h, r)
        PROVE  ComesTo(h, o)
    <2>1. o = [kind |-> "encash", run |-> r, slip |-> row[r].slip, locking |-> FALSE]
      BY <1>1, <1>5 DEF Reapply, Effects
    <2>2. QED
      BY <1>5, <2>1 DEF ComesTo
  <1>6. ASSUME TransitionCommit(h), op[h].action = "lock"
        PROVE  ComesTo(h, o)
    <2>1. op[h].run \in Runs
      BY <1>6, OpType DEF TransitionCommit, TypeOK
    <2>2. o = [kind |-> "encash", run |-> op[h].run, slip |-> row[op[h].run].slip,
               locking |-> TRUE]
      BY <1>1, <1>6 DEF TransitionCommit, Effects
    <2>3. QED
      BY <1>6, <2>1, <2>2 DEF ComesTo
  <1>7. ASSUME EffectsEncash(h) \/ EffectsCheck(h)
        PROVE  ComesTo(h, o)
    <2>1. op[h].kind \in {"encash", "check"}
      BY <1>7 DEF EffectsEncash, EffectsCheck
    <2>2. op[h] \in [kind: {"encash", "check", "mark"}, run: Runs, slip: Slips, locking: BOOLEAN]
      BY <2>1, OpType DEF TypeOK
    <2> DEFINE x == [op[h] EXCEPT !.kind = "check"]
               y == [op[h] EXCEPT !.kind = "mark"]
    <2>3. /\ x.kind = "check" /\ x.run = op[h].run /\ x.slip = op[h].slip
          /\ y.kind = "mark" /\ y.run = op[h].run /\ y.slip = op[h].slip
      BY <2>2
    <2>4. EffectsEncash(h) => o = x /\ op[h].kind = "encash"
      BY <1>1 DEF EffectsEncash
    <2>5. EffectsCheck(h) =>
            /\ op[h].kind = "check"
            /\ \/ ~MayCharge(op[h]) /\ o = y
               \/ /\ MayCharge(op[h])
                  /\ o = [kind |-> "charge", run |-> op[h].run, slip |-> op[h].slip,
                          locking |-> op[h].locking, amount |-> Charge(op[h])]
      BY <1>1 DEF EffectsCheck
    <2> HIDE DEF x, y
    <2>6. QED
      BY <1>7, <2>3, <2>4, <2>5 DEF ComesTo
  <1>8. ASSUME EffectsCharge(h)
        PROVE  ComesTo(h, o)
    <2>1. /\ o = [kind |-> "mark", run |-> op[h].run, slip |-> op[h].slip,
                  locking |-> op[h].locking]
          /\ op[h].kind = "charge"
      BY <1>1, <1>8 DEF EffectsCharge
    <2>2. QED
      BY <1>8, <2>1 DEF ComesTo
  <1>9. ASSUME UnlockCommit(h)
        PROVE  ComesTo(h, o)
    <2>1. o = [kind |-> "undoEncash", run |-> op[h].run]
      BY <1>1, <1>9 DEF UnlockCommit
    <2>2. QED
      BY <1>9, <2>1 DEF ComesTo
  <1>10. ASSUME UndoEncash(h) \/ UndoRestore(h)
         PROVE  ComesTo(h, o)
    <2>1. /\ o = [kind |-> "undoLoan", run |-> op[h].run]
          /\ UndoEncash(h) => op[h].kind = "undoEncash"
          /\ UndoRestore(h) => op[h].kind = "restore"
      BY <1>1, <1>10 DEF UndoEncash, UndoRestore
    <2>2. QED
      BY <1>10, <2>1 DEF ComesTo
  <1>11. ASSUME UndoLoan(h)
         PROVE  ComesTo(h, o)
    <2>1. /\ op[h].kind = "undoLoan"
          /\ \/ o = [kind |-> "restore", run |-> op[h].run, balance |-> balance,
                     repayment |-> Latest]
             \/ o.kind = "idle"
      BY <1>1, <1>2, <1>11 DEF UndoLoan
    <2>2. QED
      BY <1>11, <2>1 DEF ComesTo
  <1>12. CASE o.kind \notin Settlers \cup {"transition", "unlock"}
    <2>1. /\ o.kind # "transition" /\ o.kind # "unlock" /\ o.kind # "encash"
          /\ o.kind # "check" /\ o.kind # "charge" /\ o.kind # "mark"
          /\ o.kind # "undoEncash" /\ o.kind # "undoLoan" /\ o.kind # "restore"
      BY <1>12 DEF Settlers, EffectKinds, UndoKinds
    <2>2. QED
      BY <2>1, Zenon DEF ComesTo
  <1>13. QED
    BY <1>3, <1>4, <1>5, <1>6, <1>7, <1>8, <1>9, <1>10, <1>11, <1>12, SettlerStep

\* A change of the inputs leaves the record of the effects alone.
LEMMA InputFlag ==
    ASSUME TypeOK, NEW h \in Requests, InputCommit(h), NEW r \in Runs
    PROVE  row'[r].effects = row[r].effects
  <1> DEFINE new == [row[r] EXCEPT !.status = "CALCULATED", !.stale = TRUE]
  <1>1. row[r] \in Rows
    BY DEF TypeOK
  <1>2. new.effects = row[r].effects
    BY <1>1 DEF Rows
  <1>3. row'[r] = IF PeriodOf[r] = op[h].period /\ row[r].status \in Open THEN new ELSE row[r]
    BY Zenon DEF InputCommit, Marked
  <1> HIDE DEF new
  <1>4. QED
    BY <1>2, <1>3

\* Who writes whether the effects of a lock are recorded (lockEffectsAppliedAt).
LEMMA FlagWrites ==
    ASSUME TypeOK, NEW r \in Runs
    PROVE  /\ Draft(r) => row'[r].effects = row[r].effects
           /\ RemoveRun(r) => /\ ~row'[r].effects
                              /\ row[r].status \notin Final /\ row'[r].status \notin Final
           /\ \A h \in Requests :
                /\ CalculateCommit(h, r) => row'[r].effects = row[r].effects
                /\ InputCommit(h) => row'[r].effects = row[r].effects
                /\ op[h].run = r =>
                     /\ AdjustCommit(h) \/ Refuse(h) => row'[r].effects = row[r].effects
                     /\ UnlockCommit(h) => ~row'[r].effects
  <1>0. row[r] \in Rows
    BY DEF TypeOK
  <1>1. Draft(r) => row'[r].effects = row[r].effects
    BY <1>0 DEF Draft, TypeOK, Rows
  <1>2. RemoveRun(r) => /\ ~row'[r].effects
                        /\ row[r].status \notin Final /\ row'[r].status \notin Final
    BY DEF RemoveRun, TypeOK, NewRun, Deletable, Final
  <1>3. ASSUME NEW h \in Requests, CalculateCommit(h, r)
        PROVE  row'[r].effects = row[r].effects
    BY <1>0, <1>3 DEF CalculateCommit, TypeOK, Rows
  <1>4. ASSUME NEW h \in Requests, InputCommit(h)
        PROVE  row'[r].effects = row[r].effects
    BY <1>4, InputFlag
  <1>5. ASSUME NEW h \in Requests, op[h].run = r, AdjustCommit(h)
        PROVE  row'[r].effects = row[r].effects
    BY <1>0, <1>5 DEF AdjustCommit, TypeOK, Rows
  <1>6. ASSUME NEW h \in Requests, op[h].run = r, Refuse(h)
        PROVE  row'[r].effects = row[r].effects
    BY <1>0, <1>6 DEF Refuse, TypeOK, Rows
  <1>7. ASSUME NEW h \in Requests, op[h].run = r, UnlockCommit(h)
        PROVE  ~row'[r].effects
    BY <1>0, <1>7 DEF UnlockCommit, TypeOK, Rows
  <1>8. QED
    BY <1>1, <1>2, <1>3, <1>4, <1>5, <1>6, <1>7

\* A run is locked, marked, unlocked, or stays as locked as it was; only a locked
\* one may keep a mark, and it keeps its payslip.
LEMMA RunMoves ==
    ASSUME TypeOK, [Next]_vars, "failed" \notin races', NEW r \in Runs
    PROVE  LET now == row[r]
               new == row'[r]
           IN
           \/ /\ new.status \in Final <=> now.status \in Final
              /\ new.effects => now.effects
              /\ now.status \in Final => new.effects = now.effects /\ new.slip = now.slip
           \/ \E h \in Requests :
                /\ TransitionCommit(h) /\ op[h].run = r /\ op[h].action = "lock"
                /\ now.status \notin Final /\ new.status \in Final
                /\ new.slip = now.slip /\ new.effects = now.effects
           \/ \E h \in Requests :
                /\ EffectsMark(h) /\ op[h].run = r
                /\ new.status = now.status /\ new.slip = now.slip
                /\ new.effects <=> now.status # "DELETED"
           \/ \E h \in Requests :
                /\ UnlockCommit(h) /\ op[h].run = r
                /\ new.status = "CALCULATED" /\ ~new.effects
  <1> DEFINE now == row[r]
             new == row'[r]
             Still == /\ new.status \in Final <=> now.status \in Final
                      /\ new.effects => now.effects
                      /\ now.status \in Final => new.effects = now.effects /\ new.slip = now.slip
  <1>1. new = now => Still
    OBVIOUS
  <1>2. Draft(r) \/ RemoveRun(r) \/ Release(r) => Still
    <2>1. Draft(r) => Still
      BY RunWrites, FlagWrites DEF Final
    <2>2. RemoveRun(r) => Still
      BY FlagWrites
    <2>3. Release(r) => Still
      BY RunWrites DEF Keeps
    <2>4. QED
      BY <2>1, <2>2, <2>3
  <1>3. ASSUME NEW h \in Requests, CalculateCommit(h, r)
        PROVE  Still
    BY <1>3, RunWrites, FlagWrites DEF Final, Editable
  <1>4. ASSUME NEW h \in Requests, InputCommit(h)
        PROVE  Still
    BY <1>4, RunWrites, FlagWrites DEF Final, Open
  <1>5. ASSUME NEW h \in Requests, op[h].run = r, AdjustCommit(h)
        PROVE  Still
    <2>1. now.status \in Editable /\ new.status = SignOffDropped(op[h], now.status)
      BY <1>5, HandlerWrites
    <2>2. now.status \notin Final /\ new.status \notin Final
      BY <2>1 DEF SignOffDropped, Editable, Final
    <2>3. QED
      BY <1>5, <2>2, FlagWrites
  <1>6. ASSUME NEW h \in Requests, op[h].run = r, Refuse(h)
        PROVE  Still
    BY <1>6, HandlerWrites, FlagWrites DEF Final
  <1>7. ASSUME NEW h \in Requests, op[h].run = r, HoldCommit(h)
        PROVE  Still
    BY <1>7, HandlerWrites DEF Keeps
  <1>8. ~\E h \in Requests : EffectsFail(h)
    BY DEF EffectsFail
  <1>9. ASSUME NEW h \in Requests, op[h].run = r, TransitionCommit(h)
        PROVE  \/ Still
               \/ /\ op[h].action = "lock" /\ now.status \notin Final /\ new.status \in Final
                  /\ new.slip = now.slip /\ new.effects = now.effects
    <2>1. op[h].action \in Actions
      BY <1>9, OpType DEF TransitionCommit, TypeOK
    <2>2. /\ now.status = From[op[h].action] /\ new.status = To[op[h].action]
          /\ new.slip = now.slip /\ new.effects = now.effects
      BY <1>9, HandlerWrites
    <2>3. QED
      BY <2>1, <2>2 DEF Actions, From, To, Final
  <1>10. ASSUME NEW h \in Requests, op[h].run = r, EffectsMark(h)
         PROVE  /\ new.status = now.status /\ new.slip = now.slip
                /\ new.effects <=> now.status # "DELETED"
    BY <1>10, HandlerWrites DEF Keeps
  <1>11. ASSUME NEW h \in Requests, op[h].run = r, UnlockCommit(h)
         PROVE  new.status = "CALCULATED" /\ ~new.effects
    BY <1>11, HandlerWrites, FlagWrites
  <1> HIDE DEF Still
  <1>12. \/ Still
         \/ \E h \in Requests : op[h].run = r /\ TransitionCommit(h)
         \/ \E h \in Requests : op[h].run = r /\ EffectsMark(h)
         \/ \E h \in Requests : op[h].run = r /\ UnlockCommit(h)
    BY <1>1, <1>2, <1>3, <1>4, <1>5, <1>6, <1>7, <1>8, RunStep
  <1>13. QED
    BY <1>9, <1>10, <1>11, <1>12 DEF Still

\* While a handler is at work on what a run settles, nobody else writes the loan or
\* an encashment, but for the approval of a request.
LEMMA Alone ==
    ASSUME TypeOK, [Next]_vars, "claims" \notin races', NEW k \in Settling
    PROVE  /\ \/ balance' = balance /\ repaid' = repaid
              \/ EffectsCharge(k) \/ UndoRestore(k)
           /\ \/ /\ encRun' = encRun
                 /\ \A e \in Encashments :
                      \/ encStatus'[e] = encStatus[e]
                      \/ encStatus[e] = "PENDING" /\ encStatus'[e] = "APPROVED"
              \/ EffectsEncash(k) \/ UndoEncash(k)
  <1>1. ASSUME NEW h \in Requests, EffectsCharge(h) \/ RepayCommit(h) \/ UndoRestore(h)
        PROVE  EffectsCharge(k) \/ UndoRestore(k)
    <2>1. ~Rivals(h)
      BY <1>1 DEF EffectsCharge, RepayCommit, UndoRestore, Fell
    <2>2. h = k
      BY <2>1 DEF Rivals
    <2>3. ~RepayCommit(k)
      BY DEF RepayCommit, Settling, EffectKinds, UndoKinds
    <2>4. QED
      BY <1>1, <2>2, <2>3
  <1>2. ASSUME NEW h \in Requests, EffectsEncash(h) \/ UndoEncash(h)
        PROVE  EffectsEncash(k) \/ UndoEncash(k)
    <2>1. ~Rivals(h)
      BY <1>2 DEF EffectsEncash, UndoEncash, Fell
    <2>2. h = k
      BY <2>1 DEF Rivals
    <2>3. QED
      BY <1>2, <2>2
  <1>3. ASSUME NEW e \in Encashments, EncashmentProcessed(e)
        PROVE  FALSE
    BY <1>3 DEF EncashmentProcessed, Fell
  <1>4. ASSUME NEW e \in Encashments, EncashmentApproved(e)
        PROVE  /\ encRun' = encRun
               /\ \A d \in Encashments :
                    \/ encStatus'[d] = encStatus[d]
                    \/ encStatus[d] = "PENDING" /\ encStatus'[d] = "APPROVED"
    BY <1>4 DEF EncashmentApproved, TypeOK
  <1>5. QED
    BY <1>1, <1>2, <1>3, <1>4, SettledStep

-----------------------------------------------------------------------------
(* Runs and the handlers at work on them *)

\* Handler h applies, or takes back, the effects of run r.
Applies(h, r)   == op[h].kind \in EffectKinds /\ op[h].run = r
TakesBack(h, r) == op[h].kind \in UndoKinds /\ op[h].run = r

LEMMA ApplierComes ==
    ASSUME TypeOK, [Next]_vars, NEW h \in Requests, NEW r \in Runs,
           op'[h].kind \in EffectKinds, op'[h].run = r
    PROVE  \/ Applies(h, r) /\ op'[h].slip = op[h].slip
           \/ /\ op'[h].slip = row[r].slip /\ op'[h].kind = "encash"
              /\ Reapply(h, r) \/ (/\ TransitionCommit(h) /\ op[h].action = "lock"
                                   /\ op[h].run = r)
  <1>1. CASE op'[h] = op[h]
    BY <1>1 DEF Applies
  <1>2. CASE op'[h] # op[h]
    <2>1. PICK o : op'[h] = o
      OBVIOUS
    <2>2. ComesTo(h, o)
      BY <1>2, <2>1, SettlerComes
    <2>3. CASE o.kind = "encash"
      BY <2>1, <2>2, <2>3 DEF ComesTo
    <2>4. CASE o.kind \in {"check", "charge", "mark"}
      <3>1. op[h].kind \in {"encash", "check", "charge"} /\ o.run = op[h].run /\ o.slip = op[h].slip
        BY <2>2, <2>4 DEF ComesTo
      <3>2. QED
        BY <2>1, <3>1 DEF Applies, EffectKinds
    <2>5. QED
      BY <2>1, <2>3, <2>4 DEF EffectKinds
  <1>3. QED
    BY <1>1, <1>2

LEMMA UndoerComes ==
    ASSUME TypeOK, [Next]_vars, NEW h \in Requests, NEW r \in Runs,
           op'[h].kind \in UndoKinds, op'[h].run = r
    PROVE  \/ TakesBack(h, r)
           \/ UnlockCommit(h) /\ op[h].run = r /\ op'[h].kind = "undoEncash"
  <1>1. CASE op'[h] = op[h]
    BY <1>1 DEF TakesBack
  <1>2. CASE op'[h] # op[h]
    <2>1. PICK o : op'[h] = o
      OBVIOUS
    <2>2. ComesTo(h, o)
      BY <1>2, <2>1, SettlerComes
    <2>3. CASE o.kind = "undoEncash"
      BY <2>1, <2>2, <2>3 DEF ComesTo
    <2>4. CASE o.kind \in {"undoLoan", "restore"}
      <3>1. op[h].kind \in {"undoEncash", "undoLoan", "restore"} /\ o.run = op[h].run
        BY <2>2, <2>4 DEF ComesTo
      <3>2. QED
        BY <2>1, <3>1 DEF TakesBack, UndoKinds
    <2>5. QED
      BY <2>1, <2>3, <2>4 DEF UndoKinds
  <1>3. QED
    BY <1>1, <1>2

\* Unless it fails or stops, a handler goes on until it has marked the run, or found
\* no repayment of the run left.
LEMMA ApplierGoes ==
    ASSUME TypeOK, [Next]_vars, races' \cap {"failed", "stopped"} = {},
           NEW h \in Requests, NEW r \in Runs, Applies(h, r)
    PROVE  \/ op'[h].kind \in EffectKinds /\ op'[h].run = r
           \/ EffectsMark(h)
  <1>1. CASE op'[h] = op[h]
    BY <1>1 DEF Applies
  <1>2. CASE op'[h] # op[h]
    <2>0. op[h].kind \in Settlers /\ op[h].kind \notin UndoKinds
      BY DEF Applies, Settlers, EffectKinds, UndoKinds
    <2>a. ~UndoEncash(h) /\ ~UndoLoan(h) /\ ~UndoRestore(h)
      BY <2>0 DEF UndoEncash, UndoLoan, UndoRestore, UndoKinds
    <2>b. EffectsEncash(h) \/ EffectsCheck(h) \/ EffectsCharge(h) \/ EffectsMark(h)
      BY <1>2, <2>0, <2>a, SettlerGoes
    <2>1. ASSUME EffectsEncash(h) \/ EffectsCheck(h) \/ EffectsCharge(h)
          PROVE  op'[h].kind \in {"check", "charge", "mark"}
      <3>1. PICK o : Continue(h, o) /\ op'[h] = o
        BY <2>1 DEF EffectsEncash, EffectsCheck, EffectsCharge, Continue, TypeOK
      <3>2. CASE EffectsCharge(h)
        BY <3>2 DEF EffectsCharge, Continue, TypeOK
      <3>3. CASE EffectsEncash(h) \/ EffectsCheck(h)
        <4>1. op[h].kind \in {"encash", "check"}
          BY <3>3 DEF EffectsEncash, EffectsCheck
        <4>2. op[h] \in [kind: {"encash", "check", "mark"}, run: Runs, slip: Slips,
                         locking: BOOLEAN]
          BY <4>1, OpType DEF TypeOK
        <4>3. /\ [op[h] EXCEPT !.kind = "check"].kind = "check"
              /\ [op[h] EXCEPT !.kind = "mark"].kind = "mark"
          BY <4>2
        <4>4. EffectsEncash(h) => op'[h] = [op[h] EXCEPT !.kind = "check"]
          BY DEF EffectsEncash, Continue, TypeOK
        <4>5. EffectsCheck(h) => \/ op'[h] = [op[h] EXCEPT !.kind = "mark"]
                                 \/ op'[h].kind = "charge"
          BY DEF EffectsCheck, Continue, TypeOK
        <4>6. QED
          BY <3>3, <4>3, <4>4, <4>5
      <3>4. QED
        BY <2>1, <3>2, <3>3
    <2>2. ASSUME EffectsEncash(h) \/ EffectsCheck(h) \/ EffectsCharge(h)
          PROVE  op'[h].run = r
      <3>1. PICK o : op'[h] = o
        OBVIOUS
      <3>2. o.kind \in {"check", "charge", "mark"} /\ ComesTo(h, o)
        BY <1>2, <2>1, <2>2, <3>1, SettlerComes
      <3>3. o.run = op[h].run
        BY <3>2 DEF ComesTo
      <3>4. QED
        BY <3>1, <3>3 DEF Applies
    <2>3. QED
      BY <2>b, <2>1, <2>2 DEF EffectKinds
  <1>3. QED
    BY <1>1, <1>2

LEMMA UndoerGoes ==
    ASSUME TypeOK, [Next]_vars, races' \cap {"failed", "stopped"} = {},
           NEW h \in Requests, NEW r \in Runs, TakesBack(h, r)
    PROVE  \/ op'[h].kind \in UndoKinds /\ op'[h].run = r
           \/ UndoLoan(h) /\ op[h].kind = "undoLoan" /\ ~LatestIs(r)
  <1>1. CASE op'[h] = op[h]
    BY <1>1 DEF TakesBack
  <1>2. CASE op'[h] # op[h]
    <2>1. op[h].kind \in Settlers /\ op[h].kind \notin EffectKinds /\ op[h].run = r
      BY DEF TakesBack, Settlers, EffectKinds, UndoKinds
    <2>2. ~EffectsEncash(h) /\ ~EffectsCheck(h) /\ ~EffectsCharge(h) /\ ~EffectsMark(h)
      BY <2>1 DEF EffectsEncash, EffectsCheck, EffectsCharge, EffectsMark, EffectKinds
    <2>3. UndoEncash(h) \/ UndoLoan(h) \/ UndoRestore(h)
      BY <1>2, <2>1, <2>2, SettlerGoes
    <2>4. CASE UndoEncash(h) \/ UndoRestore(h)
      BY <2>1, <2>4 DEF UndoEncash, UndoRestore, Continue, UndoKinds, TypeOK
    <2>5. CASE UndoLoan(h)
      BY <2>1, <2>5 DEF UndoLoan, Continue, UndoKinds, TypeOK
    <2>6. QED
      BY <2>3, <2>4, <2>5
  <1>3. QED
    BY <1>1, <1>2

\* The effects of a run are applied while it is locked, with its payslip, and taken
\* back once it is not.
AppliedLocked ==
    \A h \in Requests, r \in Runs :
        Applies(h, r) => row[r].status \in Final /\ op[h].slip = row[r].slip
UndoneUnlocked ==
    \A h \in Requests, r \in Runs : TakesBack(h, r) => row[r].status \notin Final

\* A run with the mark is locked, a locked one without it is being worked on.
MarkedLocked == \A r \in Runs : row[r].effects => row[r].status \in Final
UnmarkedApplied ==
    \A r \in Runs : row[r].status \in Final /\ ~row[r].effects =>
        \E h \in Requests : Applies(h, r)

RowsHeld == AppliedLocked /\ UndoneUnlocked /\ MarkedLocked /\ UnmarkedApplied

\* Outside `effects' nobody is at work on a run that is locked, unlocked or
\* re-applied.
LEMMA NobodyElse ==
    ASSUME "effects" \notin races', NEW r \in Runs, NEW h \in Requests,
           \/ TransitionCommit(h) /\ op[h].action = "lock" /\ op[h].run = r
           \/ UnlockCommit(h) /\ op[h].run = r
           \/ Reapply(h, r)
    PROVE  \A g \in Requests : ~Applies(g, r) /\ ~TakesBack(g, r)
  <1>1. Applying(r) = {}
    <2>1. TransitionCommit(h) /\ op[h].action = "lock" => Applying(op[h].run) = {}
      BY DEF TransitionCommit, Fell
    <2>2. UnlockCommit(h) => Applying(op[h].run) = {}
      BY DEF UnlockCommit, Fell
    <2>3. Reapply(h, r) => Applying(r) = {}
      BY DEF Reapply, Fell
    <2>4. QED
      BY <2>1, <2>2, <2>3
  <1>2. QED
    BY <1>1 DEF Applying, Applies, TakesBack

LEMMA RowsStep ==
    ASSUME TypeOK, RowsHeld, [Next]_vars, Clear'
    PROVE  RowsHeld'
  <1>0. /\ "failed" \notin races' /\ "effects" \notin races'
        /\ races' \cap {"failed", "stopped"} = {}
    BY DEF Clear, SettlementWindows
  <1>1. ASSUME NEW h \in Requests, NEW r \in Runs, Applies(h, r)'
        PROVE  row'[r].status \in Final /\ op'[h].slip = row'[r].slip
    <2>0. op'[h].kind \in EffectKinds /\ op'[h].run = r
      BY <1>1 DEF Applies
    <2>1. CASE Applies(h, r) /\ op'[h].slip = op[h].slip
      <3>1. row[r].status \in Final /\ op[h].slip = row[r].slip
        BY <2>1 DEF RowsHeld, AppliedLocked
      <3>2. \A g \in Requests :
              /\ ~(TransitionCommit(g) /\ op[g].action = "lock" /\ op[g].run = r)
              /\ ~(UnlockCommit(g) /\ op[g].run = r)
        BY <1>0, <2>1, NobodyElse
      <3>3. QED
        BY <1>0, <2>1, <3>1, <3>2, RunMoves
    <2>2. CASE op'[h].slip = row[r].slip /\ Reapply(h, r)
      BY <2>2 DEF Reapply
    <2>3. CASE /\ op'[h].slip = row[r].slip /\ TransitionCommit(h)
               /\ op[h].action = "lock" /\ op[h].run = r
      <3>1. row'[r].status = To["lock"] /\ row'[r].slip = row[r].slip
        BY <2>3, HandlerWrites
      <3>2. QED
        BY <2>3, <3>1 DEF To, Final
    <2>4. QED
      BY <2>0, <2>1, <2>2, <2>3, ApplierComes
  <1>2. ASSUME NEW h \in Requests, NEW r \in Runs, TakesBack(h, r)'
        PROVE  row'[r].status \notin Final
    <2>0. op'[h].kind \in UndoKinds /\ op'[h].run = r
      BY <1>2 DEF TakesBack
    <2>1. CASE TakesBack(h, r)
      <3>1. row[r].status \notin Final
        BY <2>1 DEF RowsHeld, UndoneUnlocked
      <3>2. \A g \in Requests : ~(TransitionCommit(g) /\ op[g].action = "lock" /\ op[g].run = r)
        BY <1>0, <2>1, NobodyElse
      <3>3. QED
        BY <1>0, <3>1, <3>2, RunMoves DEF Final
    <2>2. CASE UnlockCommit(h) /\ op[h].run = r
      <3>1. row'[r].status = "CALCULATED"
        BY <2>2, HandlerWrites
      <3>2. QED
        BY <3>1 DEF Final
    <2>3. QED
      BY <2>0, <2>1, <2>2, UndoerComes
  <1>3. ASSUME NEW r \in Runs, row'[r].effects
        PROVE  row'[r].status \in Final
    <2>1. row[r].effects => row[r].status \in Final
      BY DEF RowsHeld, MarkedLocked
    <2>2. ASSUME NEW h \in Requests, EffectsMark(h), op[h].run = r
          PROVE  row[r].status \in Final
      BY <2>2 DEF EffectsMark, Applies, EffectKinds, RowsHeld, AppliedLocked
    <2>3. QED
      BY <1>0, <1>3, <2>1, <2>2, RunMoves
  <1>4. ASSUME NEW r \in Runs, row'[r].status \in Final, ~row'[r].effects
        PROVE  \E h \in Requests : op'[h].kind \in EffectKinds /\ op'[h].run = r
    <2>1. ASSUME row[r].status \in Final, ~row[r].effects,
                 \A h \in Requests : ~(EffectsMark(h) /\ op[h].run = r)
          PROVE  \E h \in Requests : op'[h].kind \in EffectKinds /\ op'[h].run = r
      <3>1. PICK h \in Requests : Applies(h, r)
        BY <2>1 DEF RowsHeld, UnmarkedApplied
      <3>2. ~EffectsMark(h)
        BY <2>1, <3>1 DEF Applies
      <3>3. QED
        BY <1>0, <3>1, <3>2, ApplierGoes
    <2>2. ASSUME NEW h \in Requests, EffectsMark(h), op[h].run = r
          PROVE  row'[r].effects
      <3>1. (row'[r].effects <=> row[r].status # "DELETED") /\ row'[r].status = row[r].status
        BY <2>2, HandlerWrites
      <3>2. QED
        BY <1>4, <3>1 DEF Final
    <2>3. ASSUME NEW h \in Requests, TransitionCommit(h), op[h].run = r, op[h].action = "lock"
          PROVE  op'[h].kind \in EffectKinds /\ op'[h].run = r
      BY <2>3 DEF TransitionCommit, Continue, Effects, EffectKinds, TypeOK
    <2>4. ~(row'[r].status = "CALCULATED")
      BY <1>4 DEF Final
    <2>5. QED
      BY <1>0, <1>4, <2>1, <2>2, <2>3, <2>4, RunMoves
  <1>5. AppliedLocked'
    BY <1>1 DEF AppliedLocked
  <1>6. UndoneUnlocked'
    BY <1>2 DEF UndoneUnlocked
  <1>7. MarkedLocked' /\ UnmarkedApplied'
    BY <1>3, <1>4 DEF MarkedLocked, UnmarkedApplied, Applies
  <1>8. QED
    BY <1>5, <1>6, <1>7 DEF RowsHeld

-----------------------------------------------------------------------------
(* Encashments *)

\* What payroll has settled is PROCESSED.
RunsProcess == \A e \in Encashments : encRun[e] # NoRun => encStatus[e] = "PROCESSED"

\* A line that still names its encashments finds each of them to settle, or settled
\* by the run; or finds them all settled by it.
EncsFree(slip, r) ==
    "enc" \notin slip.bare =>
        \A e \in slip.enc : encStatus[e] = "APPROVED" \/ encRun[e] = r
EncsPaid(slip, r) ==
    "enc" \notin slip.bare =>
        \A e \in slip.enc : encStatus[e] = "PROCESSED" /\ encRun[e] = r

\* What the three kinds of writers do to an encashment.
LEMMA EncWrites ==
    ASSUME TypeOK, NEW h \in Requests, NEW e \in Encashments
    PROVE  /\ EffectsEncash(h) =>
                /\ op[h].kind = "encash" /\ op[h].run \in Runs /\ op[h].slip \in Slips
                /\ row' = row
                /\ IF e \in Claimed(op[h].slip)
                   THEN encStatus'[e] = "PROCESSED" /\ encRun'[e] = op[h].run
                   ELSE encStatus'[e] = encStatus[e] /\ encRun'[e] = encRun[e]
           /\ UndoEncash(h) =>
                /\ op[h].kind = "undoEncash" /\ op[h].run \in Runs /\ row' = row
                /\ IF encStatus[e] = "PROCESSED" /\ encRun[e] = op[h].run
                   THEN encStatus'[e] = "APPROVED" /\ encRun'[e] = NoRun
                   ELSE encStatus'[e] = encStatus[e] /\ encRun'[e] = encRun[e]
  <1>1. ASSUME EffectsEncash(h)
        PROVE  /\ op[h].kind = "encash" /\ op[h].run \in Runs /\ op[h].slip \in Slips
               /\ row' = row
               /\ IF e \in Claimed(op[h].slip)
                  THEN encStatus'[e] = "PROCESSED" /\ encRun'[e] = op[h].run
                  ELSE encStatus'[e] = encStatus[e] /\ encRun'[e] = encRun[e]
    <2>1. op[h].kind = "encash"
      BY <1>1 DEF EffectsEncash
    <2>2. op[h].run \in Runs /\ op[h].slip \in Slips
      BY <2>1, OpType DEF TypeOK
    <2>3. QED
      BY <1>1, <2>1, <2>2 DEF EffectsEncash
  <1>2. ASSUME UndoEncash(h)
        PROVE  /\ op[h].kind = "undoEncash" /\ op[h].run \in Runs /\ row' = row
               /\ IF encStatus[e] = "PROCESSED" /\ encRun[e] = op[h].run
                  THEN encStatus'[e] = "APPROVED" /\ encRun'[e] = NoRun
                  ELSE encStatus'[e] = encStatus[e] /\ encRun'[e] = encRun[e]
    <2>1. op[h].kind = "undoEncash"
      BY <1>2 DEF UndoEncash
    <2>2. op[h].run \in Runs
      BY <2>1, OpType DEF TypeOK
    <2>3. QED
      BY <1>2, <2>1, <2>2 DEF UndoEncash, SettledBy
  <1>3. QED
    BY <1>1, <1>2

LEMMA ReviewWrites ==
    ASSUME TypeOK, NEW d \in Encashments, NEW e \in Encashments,
           EncashmentApproved(d) \/ EncashmentProcessed(d)
    PROVE  /\ encRun' = encRun
           /\ \/ encStatus'[e] = encStatus[e]
              \/ encStatus[e] = "PENDING" /\ encStatus'[e] = "APPROVED"
              \/ encStatus[e] = "APPROVED" /\ encStatus'[e] = "PROCESSED"
  BY DEF EncashmentApproved, EncashmentProcessed, TypeOK

LEMMA ProcessStep ==
    ASSUME TypeOK, RunsProcess, [Next]_vars
    PROVE  RunsProcess'
  <1> SUFFICES ASSUME NEW e \in Encashments, encRun'[e] # NoRun
               PROVE  encStatus'[e] = "PROCESSED"
    BY DEF RunsProcess
  <1>1. encRun[e] # NoRun => encStatus[e] = "PROCESSED"
    BY DEF RunsProcess
  <1>2. ASSUME NEW h \in Requests, EffectsEncash(h) \/ UndoEncash(h)
        PROVE  encStatus'[e] = "PROCESSED"
    BY <1>1, <1>2, EncWrites
  <1>3. ASSUME NEW d \in Encashments, EncashmentApproved(d) \/ EncashmentProcessed(d)
        PROVE  encStatus'[e] = "PROCESSED"
    BY <1>1, <1>3, ReviewWrites
  <1>4. QED
    BY <1>1, <1>2, <1>3, SettledStep

\* An encashment settled by payroll is on a locked payslip, or an unlock is about to
\* release it.
OnPayslip(e, r) == e \in row[r].slip.enc \/ "enc" \in row[r].slip.bare
EncsPrinted ==
    \A e \in Encashments, r \in Runs : encRun[e] = r =>
        \/ \E h \in Requests : op[h].kind = "undoEncash" /\ op[h].run = r
        \/ row[r].status \in Final /\ OnPayslip(e, r)

LEMMA PrintedStep ==
    ASSUME TypeOK, RunsProcess, RowsHeld, EncsPrinted, [Next]_vars, Clear'
    PROVE  EncsPrinted'
  <1> SUFFICES ASSUME NEW e \in Encashments, NEW r \in Runs, encRun'[e] = r
               PROVE  \/ \E h \in Requests : op'[h].kind = "undoEncash" /\ op'[h].run = r
                      \/ row'[r].status \in Final /\ OnPayslip(e, r)'
    BY DEF EncsPrinted
  <1>0. "failed" \notin races' /\ races' \cap {"failed", "stopped"} = {}
    BY DEF Clear, SettlementWindows
  <1>1. CASE encRun[e] = r
    <2>1. ASSUME NEW h \in Requests, op[h].kind = "undoEncash", op[h].run = r
          PROVE  op'[h].kind = "undoEncash" /\ op'[h].run = r
      <3>1. CASE op'[h] = op[h]
        BY <2>1, <3>1
      <3>2. CASE op'[h] # op[h]
        <4>1. \/ EffectsEncash(h) \/ EffectsCheck(h) \/ EffectsCharge(h) \/ EffectsMark(h)
              \/ UndoEncash(h) \/ UndoLoan(h) \/ UndoRestore(h)
          BY <1>0, <2>1, <3>2, SettlerGoes DEF Settlers, UndoKinds
        <4>2. UndoEncash(h)
          BY <2>1, <4>1
             DEF EffectsEncash, EffectsCheck, EffectsCharge, EffectsMark, UndoLoan, UndoRestore
        <4>3. encStatus[e] = "PROCESSED"
          BY <1>1, PayrollAssumption DEF RunsProcess
        <4>4. encRun'[e] = NoRun
          BY <1>1, <2>1, <4>2, <4>3, EncWrites
        <4>5. QED
          BY <4>4, PayrollAssumption
      <3>3. QED
        BY <3>1, <3>2
    <2>2. CASE row[r].status \in Final /\ OnPayslip(e, r)
      <3>1. ASSUME NEW h \in Requests, UnlockCommit(h), op[h].run = r
            PROVE  op'[h].kind = "undoEncash" /\ op'[h].run = r
        BY <3>1 DEF UnlockCommit, Continue, TypeOK
      <3>2. QED
        BY <1>0, <2>2, <3>1, RunMoves DEF OnPayslip
    <2>3. QED
      BY <1>1, <2>1, <2>2 DEF EncsPrinted
  <1>2. CASE encRun[e] # r
    <2>1. PICK h \in Requests : EffectsEncash(h) \/ UndoEncash(h)
      BY <1>2, ReviewWrites, SettledStep
    <2>2. EffectsEncash(h) /\ e \in Claimed(op[h].slip) /\ op[h].run = r
      BY <1>2, <2>1, EncWrites, PayrollAssumption
    <2>3. op[h].kind = "encash" /\ row' = row
      BY <2>2, EncWrites
    <2>4. row[r].status \in Final /\ op[h].slip = row[r].slip
      BY <2>2, <2>3 DEF RowsHeld, AppliedLocked, Applies, EffectKinds
    <2>5. OnPayslip(e, r)
      BY <2>2, <2>4 DEF Claimed, OnPayslip
    <2>6. QED
      BY <2>3, <2>4, <2>5 DEF OnPayslip
  <1>3. QED
    BY <1>1, <1>2

\* An encashment that payroll settled is on a locked payslip, or the lock or unlock
\* that moves it is still at work; nothing else was settled (applyEncashmentProcessed,
\* undoAfterLock).
THEOREM SettledIsOnPayslip == Spec => []SettledIsPrinted
  <1> DEFINE Inv == RunsProcess /\ (Clear => RowsHeld /\ EncsPrinted)
  <1>1. Init => Inv
    <2> SUFFICES ASSUME Init PROVE Inv
      OBVIOUS
    <2>1. RunsProcess /\ EncsPrinted
      BY PayrollAssumption DEF Init, RunsProcess, EncsPrinted
    <2>2. \A h \in Requests, r \in Runs : ~Applies(h, r) /\ ~TakesBack(h, r)
      BY DEF Init, Idle, Applies, TakesBack, EffectKinds, UndoKinds
    <2>3. \A r \in Runs : row[r].status \notin Final /\ ~row[r].effects
      BY DEF Init, NewRun, Final
    <2>4. RowsHeld
      BY <2>2, <2>3
         DEF RowsHeld, AppliedLocked, UndoneUnlocked, MarkedLocked, UnmarkedApplied
    <2>5. QED
      BY <2>1, <2>4
  <1>2. TypeOK /\ Inv /\ [Next]_vars => Inv'
    <2>1. [Next]_vars /\ Clear' => Clear
      BY RacesGrow DEF Clear
    <2>2. QED
      BY <2>1, ProcessStep, RowsStep, PrintedStep
  <1>3. TypeOK /\ Inv => SettledIsPrinted
    <2> SUFFICES ASSUME TypeOK, Inv, Clear, NEW e \in Encashments, encRun[e] # NoRun
                 PROVE  \/ Applying(encRun[e]) # {}
                        \/ /\ row[encRun[e]].status \in Final
                           /\ e \in row[encRun[e]].slip.enc \/ "enc" \in row[encRun[e]].slip.bare
      BY DEF Clear, SettledIsPrinted
    <2>1. PICK r \in Runs : encRun[e] = r
      BY DEF TypeOK
    <2>2. CASE \E h \in Requests : op[h].kind = "undoEncash" /\ op[h].run = r
      BY <2>1, <2>2 DEF Applying, UndoKinds
    <2>3. QED
      BY <2>1, <2>2 DEF EncsPrinted, OnPayslip
  <1>4. QED
    BY <1>1, <1>2, <1>3, TypeCorrect, PTL DEF Spec

-----------------------------------------------------------------------------
(* What a lock has found to settle, and what it has settled *)

\* Handler h is to lock run r, whose payslip it read; or applies it.
Locks(h, r, slip) ==
    op[h].kind = "transition" /\ op[h].action = "lock" /\ op[h].run = r /\ op[h].row.slip = slip
At(h, kinds, r, slip) == op[h].kind \in kinds /\ op[h].run = r /\ op[h].slip = slip
Recorded(r, slip) == row[r].effects /\ row[r].slip = slip

\* What a handler read at most two statements ago it still finds.
EncsHeld ==
    \A r \in Runs, slip \in Slips :
        /\ \A h \in Requests :
             /\ Locks(h, r, slip) \/ At(h, {"encash"}, r, slip) => EncsFree(slip, r)
             /\ At(h, {"check", "charge", "mark"}, r, slip) => EncsPaid(slip, r)
        /\ Recorded(r, slip) => EncsPaid(slip, r)

LEMMA FreeStays ==
    ASSUME TypeOK, NEW slip \in Slips, NEW r \in Runs, EncsFree(slip, r), encRun' = encRun,
           \A e \in Encashments :
              \/ encStatus'[e] = encStatus[e]
              \/ encStatus[e] = "PENDING" /\ encStatus'[e] = "APPROVED"
    PROVE  EncsFree(slip, r)'
  <1>1. \A e \in slip.enc : e \in Encashments
    BY DEF Slips
  <1>2. QED
    BY <1>1 DEF EncsFree

LEMMA PaidStays ==
    ASSUME TypeOK, [Next]_vars, NEW slip \in Slips, NEW r \in Runs, EncsPaid(slip, r),
           \A h \in Requests : ~(UndoEncash(h) /\ op[h].run = r)
    PROVE  EncsPaid(slip, r)'
  <1> SUFFICES ASSUME "enc" \notin slip.bare, NEW e \in slip.enc
               PROVE  encStatus'[e] = "PROCESSED" /\ encRun'[e] = r
    BY DEF EncsPaid
  <1>1. e \in Encashments /\ encStatus[e] = "PROCESSED" /\ encRun[e] = r
    BY DEF EncsPaid, Slips
  <1>2. ASSUME NEW h \in Requests, EffectsEncash(h)
        PROVE  encStatus'[e] = "PROCESSED" /\ encRun'[e] = r
    <2>1. e \notin Claimed(op[h].slip)
      BY <1>1 DEF Claimed
    <2>2. QED
      BY <1>1, <1>2, <2>1, EncWrites
  <1>3. ASSUME NEW h \in Requests, UndoEncash(h)
        PROVE  encStatus'[e] = "PROCESSED" /\ encRun'[e] = r
    BY <1>1, <1>3, EncWrites
  <1>4. ASSUME NEW d \in Encashments, EncashmentApproved(d) \/ EncashmentProcessed(d)
        PROVE  encStatus'[e] = "PROCESSED" /\ encRun'[e] = r
    BY <1>1, <1>4, ReviewWrites
  <1>5. QED
    BY <1>1, <1>2, <1>3, <1>4, SettledStep

\* A locked run is not being unlocked.
LEMMA LockedStays ==
    ASSUME RowsHeld, NEW r \in Runs, row[r].status \in Final
    PROVE  \A h \in Requests : ~(UndoEncash(h) /\ op[h].run = r) /\ ~(UndoRestore(h) /\ op[h].run = r)
  <1>1. \A h \in Requests : ~TakesBack(h, r)
    BY DEF RowsHeld, UndoneUnlocked
  <1>2. QED
    BY <1>1 DEF TakesBack, UndoEncash, UndoRestore, UndoKinds

\* Outside the windows a run that is re-applied has had its effects.
LEMMA ReapplyMarked ==
    ASSUME RowsHeld, "effects" \notin races', NEW h \in Requests, NEW r \in Runs, Reapply(h, r)
    PROVE  row[r].effects
  <1>1. row[r].status \in Final
    BY DEF Reapply
  <1>2. \A g \in Requests : ~Applies(g, r)
    BY NobodyElse
  <1>3. QED
    BY <1>1, <1>2 DEF RowsHeld, UnmarkedApplied

LEMMA EncsStep ==
    ASSUME TypeOK, RunsProcess, RowsHeld, EncsHeld, [Next]_vars, Clear'
    PROVE  EncsHeld'
  <1> SUFFICES ASSUME NEW r \in Runs, NEW slip \in Slips
               PROVE  /\ \A h \in Requests :
                           /\ Locks(h, r, slip)' \/ At(h, {"encash"}, r, slip)' => EncsFree(slip, r)'
                           /\ At(h, {"check", "charge", "mark"}, r, slip)' => EncsPaid(slip, r)'
                      /\ Recorded(r, slip)' => EncsPaid(slip, r)'
    BY DEF EncsHeld
  <1>0. /\ "failed" \notin races' /\ "effects" \notin races' /\ "claims" \notin races'
        /\ "transition" \notin races'
    BY DEF Clear, SettlementWindows
  <1>f. EncsPaid(slip, r) => EncsFree(slip, r)
    BY DEF EncsPaid, EncsFree
  <1>l. UNCHANGED settled /\ EncsFree(slip, r) => EncsFree(slip, r)'
    BY DEF settled, EncsFree
  <1>1. ASSUME NEW h \in Requests, op'[h] = op[h],
               Locks(h, r, slip)' \/ At(h, {"encash"}, r, slip)'
        PROVE  EncsFree(slip, r)'
    <2>1. Locks(h, r, slip) \/ At(h, {"encash"}, r, slip)
      BY <1>1 DEF Locks, At
    <2>2. EncsFree(slip, r)
      BY <2>1 DEF EncsHeld
    <2>3. h \in Settling
      BY <2>1 DEF Locks, At, Settling, EffectKinds
    <2>4. ~EffectsEncash(h) /\ ~UndoEncash(h)
      <3>1. ASSUME EffectsEncash(h) \/ UndoEncash(h)
            PROVE  FALSE
        <4>1. op[h].kind \in {"encash", "undoEncash"}
          BY <3>1 DEF EffectsEncash, UndoEncash
        <4>2. op[h].kind = "encash" /\ EffectsEncash(h)
          BY <2>1, <3>1, <4>1 DEF Locks, At, UndoEncash
        <4>3. op[h] \in [kind: {"encash", "check", "mark"}, run: Runs, slip: Slips,
                         locking: BOOLEAN]
          BY <4>2, OpType DEF TypeOK
        <4>4. [op[h] EXCEPT !.kind = "check"].kind = "check"
          BY <4>3
        <4>5. QED
          BY <1>1, <4>2, <4>4 DEF EffectsEncash, Continue, TypeOK
      <3>2. QED
        BY <3>1
    <2>5. QED
      BY <1>0, <2>2, <2>3, <2>4, Alone, FreeStays
  <1>2. ASSUME NEW h \in Requests, op'[h] # op[h], Locks(h, r, slip)'
        PROVE  EncsFree(slip, r)'
    <2>1. PICK o : op'[h] = o
      OBVIOUS
    <2>2. /\ o.kind = "transition" /\ o.action = "lock" /\ o.run = r /\ o.row.slip = slip
          /\ ComesTo(h, o)
      BY <1>2, <2>1, SettlerComes DEF Locks
    <2>3. row[r].slip = slip /\ ~EncashmentStale(r) /\ UNCHANGED settled
      BY <2>2 DEF ComesTo
    <2>4. EncsFree(slip, r)
      BY <2>3 DEF EncashmentStale, EncsFree
    <2>5. QED
      BY <1>l, <2>3, <2>4
  <1>3. ASSUME NEW h \in Requests, op'[h] # op[h], At(h, {"encash"}, r, slip)'
        PROVE  EncsFree(slip, r)'
    <2>1. PICK o : op'[h] = o
      OBVIOUS
    <2>2. o.kind = "encash" /\ o.run = r /\ o.slip = slip /\ ComesTo(h, o)
      BY <1>3, <2>1, SettlerComes DEF At
    <2>3. /\ row[r].slip = slip
          /\ Reapply(h, r) \/ (TransitionCommit(h) /\ op[h].action = "lock" /\ op[h].run = r)
      BY <2>2 DEF ComesTo
    <2>4. UNCHANGED settled
      BY <2>3 DEF Reapply, TransitionCommit
    <2>5. CASE Reapply(h, r)
      <3>1. Recorded(r, slip)
        BY <1>0, <2>3, <2>5, ReapplyMarked DEF Recorded
      <3>2. QED
        BY <1>f, <1>l, <2>4, <3>1 DEF EncsHeld
    <2>6. CASE TransitionCommit(h) /\ op[h].action = "lock" /\ op[h].run = r
      <3>1. op[h].kind = "transition" /\ row[r] = op[h].row
        BY <1>0, <2>6, WritesOnRead
      <3>2. Locks(h, r, slip)
        BY <2>3, <2>6, <3>1 DEF Locks
      <3>3. QED
        BY <1>l, <2>4, <3>2 DEF EncsHeld
    <2>7. QED
      BY <2>3, <2>5, <2>6
  <1>4. ASSUME NEW h \in Requests, At(h, {"check", "charge", "mark"}, r, slip)'
        PROVE  EncsPaid(slip, r)'
    <2>0. op'[h].kind \in {"check", "charge", "mark"} /\ op'[h].run = r /\ op'[h].slip = slip
      BY <1>4 DEF At
    <2>1. Applies(h, r) /\ op[h].slip = slip
      BY <2>0, ApplierComes DEF EffectKinds
    <2>2. row[r].status \in Final
      BY <2>1 DEF RowsHeld, AppliedLocked
    <2>3. CASE op[h].kind = "encash"
      <3>1. EncsFree(slip, r)
        BY <2>1, <2>3 DEF Applies, At, EncsHeld
      <3>2. op'[h] # op[h]
        BY <2>0, <2>3
      <3>3. PICK o : op'[h] = o
        OBVIOUS
      <3>4. ComesTo(h, o) /\ o.kind \in {"check", "charge", "mark"}
        BY <2>0, <3>2, <3>3, SettlerComes
      <3>5. EffectsEncash(h)
        BY <2>3, <3>4 DEF ComesTo
      <3> SUFFICES ASSUME "enc" \notin slip.bare, NEW e \in slip.enc
                   PROVE  encStatus'[e] = "PROCESSED" /\ encRun'[e] = r
        BY DEF EncsPaid
      <3>6. e \in Encashments
        BY DEF Slips
      <3>7. CASE encStatus[e] = "APPROVED"
        <4>1. e \in Claimed(op[h].slip)
          BY <2>1, <3>6, <3>7 DEF Claimed
        <4>2. QED
          BY <2>1, <3>5, <3>6, <4>1, EncWrites DEF Applies
      <3>8. CASE encRun[e] = r
        <4>1. encStatus[e] = "PROCESSED"
          BY <3>6, <3>8, PayrollAssumption DEF RunsProcess
        <4>2. QED
          BY <2>1, <3>5, <3>6, <3>8, <4>1, EncWrites DEF Applies
      <3>9. QED
        BY <3>1, <3>7, <3>8 DEF EncsFree
    <2>4. CASE op[h].kind # "encash"
      <3>1. At(h, {"check", "charge", "mark"}, r, slip)
        BY <2>1, <2>4 DEF Applies, At, EffectKinds
      <3>2. EncsPaid(slip, r)
        BY <3>1 DEF EncsHeld
      <3>3. QED
        BY <2>2, <3>2, LockedStays, PaidStays
    <2>5. QED
      BY <2>3, <2>4
  <1>5. ASSUME Recorded(r, slip)'
        PROVE  EncsPaid(slip, r)'
    <2>1. row'[r].effects /\ row'[r].slip = slip
      BY <1>5 DEF Recorded
    <2>2. CASE row[r].effects
      <3>1. row[r].status \in Final
        BY <2>2 DEF RowsHeld, MarkedLocked
      <3>2. row[r].slip = slip
        BY <1>0, <2>1, <3>1, RunMoves
      <3>3. EncsPaid(slip, r)
        BY <2>2, <3>2 DEF Recorded, EncsHeld
      <3>4. QED
        BY <3>1, <3>3, LockedStays, PaidStays
    <2>3. CASE ~row[r].effects
      <3>1. PICK h \in Requests : EffectsMark(h) /\ op[h].run = r /\ row'[r].slip = row[r].slip
        BY <1>0, <2>1, <2>3, RunMoves DEF Final
      <3>2. op[h].kind = "mark" /\ UNCHANGED settled
        BY <3>1 DEF EffectsMark
      <3>3. op[h].slip = slip
        BY <2>1, <3>1, <3>2 DEF RowsHeld, AppliedLocked, Applies, EffectKinds
      <3>4. At(h, {"check", "charge", "mark"}, r, slip)
        BY <3>1, <3>2, <3>3 DEF At
      <3>5. EncsPaid(slip, r)
        BY <3>4 DEF EncsHeld
      <3>6. QED
        BY <3>2, <3>5 DEF settled, EncsPaid
    <2>4. QED
      BY <2>2, <2>3
  <1>6. QED
    BY <1>1, <1>2, <1>3, <1>4, <1>5

-----------------------------------------------------------------------------
(* The instalment of a locked run *)

\* What a run has charged.
Amounts(r) == {repaid[i].amount : i \in {i \in DOMAIN repaid : repaid[i].run = r}}

\* A line that still names its loan was charged as printed; or the loan can bear it.
EmiPaid(slip, r) == "emi" \notin slip.bare => Amounts(r) = {slip.emi} \ {0}
Affordable(slip) == "emi" \notin slip.bare => slip.emi <= balance

LEMMA NoAmounts ==
    ASSUME NEW r
    PROVE  Charged(r) <=> Amounts(r) # {}
  BY DEF Charged, Amounts

LEMMA AddedDomain ==
    ASSUME TypeOK, NEW h \in Requests, EffectsCharge(h) \/ RepayCommit(h)
    PROVE  DOMAIN repaid' = DOMAIN repaid \cup {Len(repaid) + 1}
  <1>1. /\ DOMAIN repaid = 1..Len(repaid) /\ Len(repaid) \in Nat
        /\ DOMAIN repaid' = 1..(Len(repaid) + 1)
    BY Added
  <1>2. \A n \in Nat : 1..(n + 1) = (1..n) \cup {n + 1}
    OBVIOUS
  <1>3. QED
    BY <1>1, <1>2

\* Another run's charge, a repayment by hand, and the return of another run's charge
\* leave what a run has charged.
LEMMA AmountsStay ==
    ASSUME TypeOK, Restoring, [Next]_vars, NEW r \in Runs,
           \A h \in Requests : /\ ~(EffectsCharge(h) /\ op[h].run = r)
                               /\ ~(UndoRestore(h) /\ op[h].run = r)
    PROVE  Amounts(r)' = Amounts(r) /\ (Charged(r)' <=> Charged(r))
  <1>1. ASSUME NEW h \in Requests, EffectsCharge(h) \/ RepayCommit(h)
        PROVE  Amounts(r)' = Amounts(r)
    <2>1. /\ DOMAIN repaid' = DOMAIN repaid \cup {Len(repaid) + 1}
          /\ \A i \in DOMAIN repaid : repaid'[i] = repaid[i]
      BY <1>1, Added, AddedDomain
    <2>2. repaid'[Len(repaid) + 1].run # r
      <3>1. repaid'[Len(repaid) + 1].run = IF op[h].kind = "charge" THEN op[h].run ELSE NoRun
        BY <1>1, Added
      <3>2. op[h].kind = "charge" => op[h].run # r
        BY <1>1 DEF RepayCommit
      <3>3. QED
        BY <3>1, <3>2, PayrollAssumption
    <2>3. QED
      BY <2>1, <2>2 DEF Amounts
  <1>2. ASSUME NEW h \in Requests, UndoRestore(h)
        PROVE  Amounts(r)' = Amounts(r)
    <2>1. /\ op[h].kind = "restore" /\ op[h].run # r
          /\ DOMAIN repaid = 1..Len(repaid) /\ Len(repaid) \in Nat
      BY <1>2, Removed
    <2>2. ASSUME NEW k \in DOMAIN repaid, repaid[k] = op[h].repayment,
                 IsWithout(repaid', repaid, k)
          PROVE  Amounts(r)' = Amounts(r)
      <3>1. repaid[k].run # r
        BY <2>1, <2>2 DEF Restoring
      <3>2. ASSUME NEW i \in DOMAIN repaid'
            PROVE  \E j \in DOMAIN repaid : repaid'[i] = repaid[j]
        BY <2>1, <2>2 DEF IsWithout
      <3>3. ASSUME NEW j \in DOMAIN repaid, j # k
            PROVE  \E i \in DOMAIN repaid' : repaid'[i] = repaid[j]
        <4>1. CASE j < k
          BY <2>1, <2>2, <4>1 DEF IsWithout
        <4>2. CASE j > k
          <5>1. j - 1 \in DOMAIN repaid' /\ ~(j - 1 < k) /\ (j - 1) + 1 = j
            BY <2>1, <2>2, <4>2 DEF IsWithout
          <5>2. repaid'[j - 1] = repaid[j]
            BY <2>2, <5>1 DEF IsWithout
          <5>3. QED
            BY <5>1, <5>2
        <4>3. QED
          BY <2>1, <3>3, <4>1, <4>2
      <3>4. QED
        BY <3>1, <3>2, <3>3 DEF Amounts
    <2>3. QED
      BY <1>2, <2>2, Removed DEF Amounts
  <1>3. Amounts(r)' = Amounts(r)
    BY <1>1, <1>2, SettledStep DEF Amounts
  <1>4. Charged(r)' <=> Amounts(r)' # {}
    BY DEF Charged, Amounts
  <1>5. QED
    BY <1>3, <1>4, NoAmounts

\* The first charge of a run is all it has charged.
LEMMA AmountsCharge ==
    ASSUME TypeOK, NEW h \in Requests, EffectsCharge(h), NEW r \in Runs, op[h].run = r,
           ~Charged(r)
    PROVE  Amounts(r)' = {op[h].amount}
  <1>1. op[h].kind = "charge"
    BY DEF EffectsCharge
  <1>2. /\ DOMAIN repaid' = DOMAIN repaid \cup {Len(repaid) + 1}
        /\ \A i \in DOMAIN repaid : repaid'[i] = repaid[i]
        /\ repaid'[Len(repaid) + 1].run = r
        /\ repaid'[Len(repaid) + 1].amount = op[h].amount
    BY <1>1, Added, AddedDomain
  <1>3. QED
    BY <1>2 DEF Amounts, Charged

\* While a handler is at work: a lock found the instalment charged or within the
\* balance, a charge is the first of its run and of the amount printed, and what is
\* to be marked was charged.
LoanHeld ==
    \A r \in Runs, slip \in Slips :
        /\ \A h \in Requests :
             /\ Locks(h, r, slip) => Charged(r) \/ Affordable(slip)
             /\ At(h, {"encash", "check"}, r, slip) =>
                  EmiPaid(slip, r) \/ (~Charged(r) /\ Affordable(slip))
             /\ At(h, {"charge"}, r, slip) =>
                  ~Charged(r) /\ ("emi" \notin slip.bare => op[h].amount = slip.emi)
             /\ At(h, {"mark"}, r, slip) => EmiPaid(slip, r)
        /\ Recorded(r, slip) => EmiPaid(slip, r)

\* What a run that is not locked has charged is being given back, and can be: nothing
\* was recorded after it.
ChargedLocked ==
    \A r \in Runs : Charged(r) =>
        row[r].status \in Final \/ \E h \in Requests : TakesBack(h, r)
UndoneReversible ==
    \A h \in Requests, r \in Runs :
        op[h].kind \in UndoKinds \cup {"unlock"} /\ op[h].run = r => Reversible(r)

LEMMA ReversibleStep ==
    ASSUME TypeOK, Restoring, UndoneReversible, [Next]_vars, Clear'
    PROVE  UndoneReversible'
  <1> SUFFICES ASSUME NEW h \in Requests, NEW r \in Runs,
                      op'[h].kind \in UndoKinds \cup {"unlock"}, op'[h].run = r
               PROVE  Reversible(r)'
    BY DEF UndoneReversible
  <1>0. "claims" \notin races' /\ "undo" \notin races'
    BY DEF Clear, SettlementWindows
  <1>1. repaid' = repaid /\ Reversible(r) => Reversible(r)'
    BY DEF Reversible
  <1>2. CASE op'[h] = op[h]
    <2>1. Reversible(r) /\ h \in Settling
      BY <1>2 DEF UndoneReversible, Settling
    <2>2. ~EffectsCharge(h)
      BY <1>2 DEF EffectsCharge, UndoKinds
    <2>3. ~UndoRestore(h)
      <3>1. UndoRestore(h) => op[h].kind = "restore" /\ op'[h].kind = "undoLoan"
        BY DEF UndoRestore, Continue, TypeOK
      <3>2. QED
        BY <1>2, <3>1
    <2>4. QED
      BY <1>0, <1>1, <2>1, <2>2, <2>3, Alone
  <1>3. CASE op'[h] # op[h]
    <2>1. PICK o : op'[h] = o
      OBVIOUS
    <2>2. ComesTo(h, o) /\ o.kind \in {"unlock", "undoEncash", "undoLoan", "restore"} /\ o.run = r
      BY <1>3, <2>1, SettlerComes DEF UndoKinds
    <2>3. CASE o.kind = "unlock"
      <3>1. Reversible(r) /\ UNCHANGED settled
        BY <2>2, <2>3 DEF ComesTo
      <3>2. QED
        BY <1>1, <3>1 DEF settled
    <2>4. CASE o.kind = "undoEncash"
      <3>1. UnlockCommit(h) /\ op[h].run = r
        BY <2>2, <2>4 DEF ComesTo
      <3>2. op[h].kind = "unlock" /\ UNCHANGED settled
        BY <3>1 DEF UnlockCommit
      <3>3. QED
        BY <1>1, <3>1, <3>2 DEF settled, UndoneReversible
    <2>5. CASE o.kind = "restore"
      <3>1. UndoLoan(h) /\ op[h].kind = "undoLoan" /\ op[h].run = r
        BY <2>2, <2>5 DEF ComesTo
      <3>2. UNCHANGED settled
        BY <3>1 DEF UndoLoan
      <3>3. QED
        BY <1>1, <3>1, <3>2 DEF settled, UndoneReversible, UndoKinds
    <2>6. CASE o.kind = "undoLoan"
      <3>1. /\ op[h].run = r
            /\ \/ UndoEncash(h) /\ op[h].kind = "undoEncash"
               \/ UndoRestore(h) /\ op[h].kind = "restore"
        BY <2>2, <2>6 DEF ComesTo
      <3>2. Reversible(r)
        BY <3>1 DEF UndoneReversible, UndoKinds
      <3>3. CASE UndoEncash(h)
        BY <1>1, <3>2, <3>3 DEF UndoEncash
      <3>4. CASE UndoRestore(h) /\ op[h].kind = "restore"
        <4>1. DOMAIN repaid = 1..Len(repaid) /\ Len(repaid) \in Nat
          BY <3>4, Removed
        <4>2. ASSUME NEW k \in DOMAIN repaid, repaid[k] = op[h].repayment,
                     IsWithout(repaid', repaid, k)
              PROVE  Reversible(r)'
          <5>1. repaid[k].run = r
            BY <3>1, <3>4, <4>2 DEF Restoring
          <5>2. k = Len(repaid)
            BY <3>2, <5>1 DEF Reversible
          <5>3. \A i \in DOMAIN repaid' : i \in DOMAIN repaid /\ i # Len(repaid)
                                          /\ repaid'[i] = repaid[i]
            BY <4>1, <4>2, <5>2 DEF IsWithout
          <5>4. QED
            BY <3>2, <5>3 DEF Reversible
        <4>3. QED
          BY <1>1, <3>2, <3>4, <4>2, Removed
      <3>5. QED
        BY <3>1, <3>3, <3>4
    <2>7. QED
      BY <2>2, <2>3, <2>4, <2>5, <2>6
  <1>4. QED
    BY <1>2, <1>3

LEMMA ChargedLockedStep ==
    ASSUME TypeOK, RowsHeld, UndoneReversible, ChargedLocked, [Next]_vars, Clear'
    PROVE  ChargedLocked'
  <1> SUFFICES ASSUME NEW r \in Runs, Charged(r)', row'[r].status \notin Final
               PROVE  \E h \in Requests : op'[h].kind \in UndoKinds /\ op'[h].run = r
    BY DEF ChargedLocked, TakesBack
  <1>0. "failed" \notin races' /\ races' \cap {"failed", "stopped"} = {}
    BY DEF Clear, SettlementWindows
  <1>1. CASE ~Charged(r)
    <2>1. PICK h \in Requests : EffectsCharge(h) /\ op[h].kind = "charge" /\ op[h].run = r
      BY <1>1, ChargedStep
    <2>2. row[r].status \in Final
      BY <2>1 DEF RowsHeld, AppliedLocked, Applies, EffectKinds
    <2>3. row' = row
      BY <2>1 DEF EffectsCharge
    <2>4. QED
      BY <2>2, <2>3
  <1>2. CASE Charged(r) /\ row[r].status \in Final
    <2>1. PICK h \in Requests : UnlockCommit(h) /\ op[h].run = r
      BY <1>0, <1>2, RunMoves
    <2>2. QED
      BY <2>1 DEF UnlockCommit, Continue, UndoKinds, TypeOK
  <1>3. CASE Charged(r) /\ row[r].status \notin Final
    <2>1. PICK h \in Requests : TakesBack(h, r)
      BY <1>3 DEF ChargedLocked
    <2>2. Reversible(r)
      BY <2>1 DEF UndoneReversible, TakesBack
    <2>3. LatestIs(r)
      <3>1. PICK i \in DOMAIN repaid : repaid[i].run = r
        BY <1>3 DEF Charged
      <3>2. i = Len(repaid) /\ repaid # <<>>
        BY <2>2, <3>1 DEF Reversible
      <3>3. QED
        BY <3>1, <3>2 DEF LatestIs, Latest
    <2>4. QED
      BY <1>0, <2>1, <2>3, UndoerGoes
  <1>4. QED
    BY <1>1, <1>2, <1>3

\* Nothing was charged or given back: what held of the loan still does.
LEMMA LoanStays ==
    ASSUME NEW slip, NEW r, balance' = balance, repaid' = repaid
    PROVE  /\ Charged(r)' <=> Charged(r)
           /\ EmiPaid(slip, r)' <=> EmiPaid(slip, r)
           /\ Affordable(slip)' <=> Affordable(slip)
  BY DEF Charged, EmiPaid, Affordable, Amounts

\* A lock that is to come finds the instalment charged, or within the balance.
LEMMA FreshIsAffordable ==
    ASSUME TypeOK, NEW r \in Runs, NEW slip \in Slips, row[r].slip = slip, ~EmiStale(r)
    PROVE  Charged(r) \/ Affordable(slip)
  <1>1. slip.emi \in Nat /\ balance \in Nat
    BY DEF Slips, TypeOK
  <1>2. slip.emi = 0 => slip.emi <= balance
    BY <1>1
  <1>3. QED
    BY <1>1, <1>2 DEF EmiStale, Affordable

\* With nothing charged, a run that has nothing to charge printed no instalment.
LEMMA NothingToCharge ==
    ASSUME TypeOK, NEW h \in Requests, NEW r \in Runs, NEW slip \in Slips,
           At(h, {"check"}, r, slip), ~MayCharge(op[h]), ~Charged(r), Affordable(slip)
    PROVE  EmiPaid(slip, r)
  <1>1. slip.emi \in Nat /\ balance \in Nat
    BY DEF Slips, TypeOK
  <1> SUFFICES ASSUME "emi" \notin slip.bare
               PROVE  Amounts(r) = {slip.emi} \ {0}
    BY DEF EmiPaid
  <1>2. Charge(op[h]) = slip.emi
    BY DEF At, Charge
  <1>3. ~(slip.emi > 0 /\ balance > 0)
    BY <1>2 DEF MayCharge, At
  <1>4. slip.emi = 0
    BY <1>1, <1>3 DEF Affordable
  <1>5. Amounts(r) = {}
    BY NoAmounts
  <1>6. QED
    BY <1>4, <1>5

LEMMA LoanStep ==
    ASSUME TypeOK, Charging, Restoring, RowsHeld, ChargedLocked, LoanHeld, [Next]_vars, Clear'
    PROVE  LoanHeld'
  <1> SUFFICES ASSUME NEW r \in Runs, NEW slip \in Slips
               PROVE  /\ \A h \in Requests :
                           /\ Locks(h, r, slip)' => Charged(r)' \/ Affordable(slip)'
                           /\ At(h, {"encash", "check"}, r, slip)' =>
                                EmiPaid(slip, r)' \/ (~Charged(r)' /\ Affordable(slip)')
                           /\ At(h, {"charge"}, r, slip)' =>
                                ~Charged(r)' /\ ("emi" \notin slip.bare => op'[h].amount = slip.emi)
                           /\ At(h, {"mark"}, r, slip)' => EmiPaid(slip, r)'
                      /\ Recorded(r, slip)' => EmiPaid(slip, r)'
    BY DEF LoanHeld
  <1>0. /\ "failed" \notin races' /\ "effects" \notin races' /\ "claims" \notin races'
        /\ "transition" \notin races'
    BY DEF Clear, SettlementWindows
  <1>s. UNCHANGED settled => balance' = balance /\ repaid' = repaid
    BY DEF settled
  <1>1. ASSUME NEW h \in Requests, op'[h] = op[h], h \in Settling
        PROVE  balance' = balance /\ repaid' = repaid
    <2>1. ~EffectsCharge(h)
      <3>1. EffectsCharge(h) => op[h].kind = "charge" /\ op'[h].kind = "mark"
        BY DEF EffectsCharge, Continue, TypeOK
      <3>2. QED
        BY <1>1, <3>1
    <2>2. ~UndoRestore(h)
      <3>1. UndoRestore(h) => op[h].kind = "restore" /\ op'[h].kind = "undoLoan"
        BY DEF UndoRestore, Continue, TypeOK
      <3>2. QED
        BY <1>1, <3>1
    <2>3. QED
      BY <1>0, <1>1, <2>1, <2>2, Alone
  <1>2. ASSUME NEW h \in Requests, Locks(h, r, slip)'
        PROVE  Charged(r)' \/ Affordable(slip)'
    <2>1. CASE op'[h] = op[h]
      <3>1. Locks(h, r, slip) /\ h \in Settling
        BY <1>2, <2>1 DEF Locks, Settling
      <3>2. Charged(r) \/ Affordable(slip)
        BY <3>1 DEF LoanHeld
      <3>3. QED
        BY <1>1, <2>1, <3>1, <3>2, LoanStays
    <2>2. CASE op'[h] # op[h]
      <3>1. PICK o : op'[h] = o
        OBVIOUS
      <3>2. /\ o.kind = "transition" /\ o.action = "lock" /\ o.run = r /\ o.row.slip = slip
            /\ ComesTo(h, o)
        BY <1>2, <2>2, <3>1, SettlerComes DEF Locks
      <3>3. row[r].slip = slip /\ ~EmiStale(r) /\ UNCHANGED settled
        BY <3>2 DEF ComesTo
      <3>4. QED
        BY <1>s, <3>3, FreshIsAffordable, LoanStays
    <2>3. QED
      BY <2>1, <2>2
  <1>3. ASSUME NEW h \in Requests, At(h, {"encash", "check"}, r, slip)'
        PROVE  EmiPaid(slip, r)' \/ (~Charged(r)' /\ Affordable(slip)')
    <2> DEFINE Ready == EmiPaid(slip, r) \/ (~Charged(r) /\ Affordable(slip))
    <2>0. op'[h].kind \in {"encash", "check"} /\ op'[h].run = r /\ op'[h].slip = slip
      BY <1>3 DEF At
    <2>1. At(h, {"encash", "check"}, r, slip) => Ready
      BY DEF LoanHeld
    <2>2. Ready /\ balance' = balance /\ repaid' = repaid =>
            EmiPaid(slip, r)' \/ (~Charged(r)' /\ Affordable(slip)')
      BY LoanStays
    <2> HIDE DEF Ready
    <2>3. CASE op'[h] = op[h]
      <3>1. At(h, {"encash", "check"}, r, slip) /\ h \in Settling
        BY <2>0, <2>3 DEF At, Settling, EffectKinds
      <3>2. QED
        BY <1>1, <2>1, <2>2, <2>3, <3>1
    <2>4. CASE op'[h] # op[h]
      <3>1. PICK o : op'[h] = o
        OBVIOUS
      <3>2. o.kind \in {"encash", "check"} /\ o.run = r /\ o.slip = slip /\ ComesTo(h, o)
        BY <2>0, <2>4, <3>1, SettlerComes
      <3>3. CASE o.kind = "check"
        <4>1. /\ EffectsEncash(h) /\ op[h].kind = "encash" /\ op[h].run = r /\ op[h].slip = slip
          BY <3>2, <3>3 DEF ComesTo
        <4>2. balance' = balance /\ repaid' = repaid
          BY <4>1 DEF EffectsEncash
        <4>3. QED
          BY <2>1, <2>2, <4>1, <4>2 DEF At
      <3>4. CASE o.kind = "encash"
        <4>1. /\ row[r].slip = slip
              /\ Reapply(h, r) \/ (TransitionCommit(h) /\ op[h].action = "lock" /\ op[h].run = r)
          BY <3>2, <3>4 DEF ComesTo
        <4>2. UNCHANGED settled
          BY <4>1 DEF Reapply, TransitionCommit
        <4>3. CASE Reapply(h, r)
          <5>1. Recorded(r, slip)
            BY <1>0, <4>1, <4>3, ReapplyMarked DEF Recorded
          <5>2. EmiPaid(slip, r)
            BY <5>1 DEF LoanHeld
          <5>3. QED
            BY <1>s, <4>2, <5>2, LoanStays
        <4>4. CASE TransitionCommit(h) /\ op[h].action = "lock" /\ op[h].run = r
          <5>1. op[h].kind = "transition" /\ row[r] = op[h].row
            BY <1>0, <4>4, WritesOnRead
          <5>2. Charged(r) \/ Affordable(slip)
            <6>1. Locks(h, r, slip)
              BY <4>1, <4>4, <5>1 DEF Locks
            <6>2. QED
              BY <6>1 DEF LoanHeld
          <5>3. row[r].status = "APPROVED"
            BY <1>0, <4>4, HandlerWrites DEF From
          <5>4. ~Charged(r)
            <6>1. row[r].status \notin Final
              BY <5>3 DEF Final
            <6>2. \A g \in Requests : ~TakesBack(g, r)
              BY <1>0, <4>4, NobodyElse
            <6>3. QED
              BY <6>1, <6>2 DEF ChargedLocked
          <5>5. QED
            BY <1>s, <4>2, <5>2, <5>4, LoanStays
        <4>5. QED
          BY <4>1, <4>3, <4>4
      <3>5. QED
        BY <3>2, <3>3, <3>4
    <2>5. QED
      BY <2>3, <2>4
  <1>4. ASSUME NEW h \in Requests, At(h, {"charge"}, r, slip)'
        PROVE  ~Charged(r)' /\ ("emi" \notin slip.bare => op'[h].amount = slip.emi)
    <2>0. op'[h].kind = "charge" /\ op'[h].run = r /\ op'[h].slip = slip
      BY <1>4 DEF At
    <2>1. CASE op'[h] = op[h]
      <3>1. At(h, {"charge"}, r, slip) /\ h \in Settling
        BY <2>0, <2>1 DEF At, Settling, EffectKinds
      <3>2. ~Charged(r) /\ ("emi" \notin slip.bare => op[h].amount = slip.emi)
        BY <3>1 DEF LoanHeld
      <3>3. QED
        BY <1>1, <2>1, <3>1, <3>2, LoanStays
    <2>2. CASE op'[h] # op[h]
      <3>1. PICK o : op'[h] = o
        OBVIOUS
      <3>2. /\ EffectsCheck(h) /\ op[h].kind = "check" /\ MayCharge(op[h])
            /\ op[h].run = r /\ op[h].slip = slip /\ o.amount = Charge(op[h])
        BY <2>0, <2>2, <3>1, SettlerComes DEF ComesTo
      <3>3. ~Charged(r) /\ UNCHANGED settled
        BY <3>2 DEF MayCharge, EffectsCheck
      <3>4. "emi" \notin slip.bare => o.amount = slip.emi
        BY <3>2 DEF Charge
      <3>5. QED
        BY <1>s, <3>1, <3>3, <3>4, LoanStays
    <2>3. QED
      BY <2>1, <2>2
  <1>5. ASSUME NEW h \in Requests, At(h, {"mark"}, r, slip)'
        PROVE  EmiPaid(slip, r)'
    <2>0. op'[h].kind = "mark" /\ op'[h].run = r /\ op'[h].slip = slip
      BY <1>5 DEF At
    <2>1. CASE op'[h] = op[h]
      <3>1. At(h, {"mark"}, r, slip) /\ h \in Settling
        BY <2>0, <2>1 DEF At, Settling, EffectKinds
      <3>2. EmiPaid(slip, r)
        BY <3>1 DEF LoanHeld
      <3>3. QED
        BY <1>1, <2>1, <3>1, <3>2, LoanStays
    <2>2. CASE op'[h] # op[h]
      <3>1. PICK o : op'[h] = o
        OBVIOUS
      <3>2. /\ op[h].run = r /\ op[h].slip = slip
            /\ \/ EffectsCheck(h) /\ op[h].kind = "check" /\ ~MayCharge(op[h])
               \/ EffectsCharge(h) /\ op[h].kind = "charge"
        BY <2>0, <2>2, <3>1, SettlerComes DEF ComesTo
      <3>3. CASE EffectsCheck(h) /\ op[h].kind = "check" /\ ~MayCharge(op[h])
        <4>1. UNCHANGED settled
          BY <3>3 DEF EffectsCheck
        <4>2. At(h, {"check"}, r, slip) /\ At(h, {"encash", "check"}, r, slip)
          BY <3>2, <3>3 DEF At
        <4>3. EmiPaid(slip, r) \/ (~Charged(r) /\ Affordable(slip))
          BY <4>2 DEF LoanHeld
        <4>4. EmiPaid(slip, r)
          BY <3>3, <4>2, <4>3, NothingToCharge
        <4>5. QED
          BY <1>s, <4>1, <4>4, LoanStays
      <3>4. CASE EffectsCharge(h) /\ op[h].kind = "charge"
        <4>1. At(h, {"charge"}, r, slip)
          BY <3>2, <3>4 DEF At
        <4>2. ~Charged(r) /\ ("emi" \notin slip.bare => op[h].amount = slip.emi)
          BY <4>1 DEF LoanHeld
        <4>3. Amounts(r)' = {op[h].amount}
          BY <3>2, <3>4, <4>2, AmountsCharge
        <4>4. op[h].amount > 0
          BY <3>4 DEF Charging
        <4>5. QED
          BY <4>2, <4>3, <4>4 DEF EmiPaid
      <3>5. QED
        BY <3>2, <3>3, <3>4
    <2>3. QED
      BY <2>1, <2>2
  <1>6. ASSUME Recorded(r, slip)'
        PROVE  EmiPaid(slip, r)'
    <2>1. row'[r].effects /\ row'[r].slip = slip
      BY <1>6 DEF Recorded
    <2>2. CASE row[r].effects
      <3>1. row[r].status \in Final
        BY <2>2 DEF RowsHeld, MarkedLocked
      <3>2. row[r].slip = slip
        BY <1>0, <2>1, <3>1, RunMoves
      <3>3. EmiPaid(slip, r)
        BY <2>2, <3>2 DEF Recorded, LoanHeld
      <3> SUFFICES ASSUME "emi" \notin slip.bare
                   PROVE  Amounts(r)' = {slip.emi} \ {0}
        BY DEF EmiPaid
      <3>4. ASSUME NEW h \in Requests, EffectsCharge(h), op[h].run = r
            PROVE  FALSE
        <4>1. At(h, {"charge"}, r, slip)
          BY <3>2, <3>4 DEF EffectsCharge, At, RowsHeld, AppliedLocked, Applies, EffectKinds
        <4>2. ~Charged(r) /\ op[h].amount = slip.emi
          BY <4>1 DEF LoanHeld
        <4>3. Amounts(r) = {}
          BY <4>2, NoAmounts
        <4>4. op[h].amount > 0
          BY <3>4 DEF EffectsCharge, Charging
        <4>5. slip.emi \in Amounts(r)
          BY <3>3, <4>2, <4>4 DEF EmiPaid
        <4>6. QED
          BY <4>3, <4>5
      <3>5. \A h \in Requests : ~(UndoRestore(h) /\ op[h].run = r)
        BY <3>1, LockedStays
      <3>6. Amounts(r)' = Amounts(r)
        BY <3>4, <3>5, AmountsStay
      <3>7. QED
        BY <3>3, <3>6 DEF EmiPaid
    <2>3. CASE ~row[r].effects
      <3>1. PICK h \in Requests : EffectsMark(h) /\ op[h].run = r /\ row'[r].slip = row[r].slip
        BY <1>0, <2>1, <2>3, RunMoves DEF Final
      <3>2. op[h].kind = "mark" /\ UNCHANGED settled
        BY <3>1 DEF EffectsMark
      <3>3. op[h].slip = slip
        BY <2>1, <3>1, <3>2 DEF RowsHeld, AppliedLocked, Applies, EffectKinds
      <3>4. At(h, {"mark"}, r, slip)
        BY <3>1, <3>2, <3>3 DEF At
      <3>5. EmiPaid(slip, r)
        BY <3>4 DEF LoanHeld
      <3>6. QED
        BY <1>s, <3>2, <3>5, LoanStays
    <2>4. QED
      BY <2>2, <2>3
  <1>7. QED
    BY <1>2, <1>3, <1>4, <1>5, <1>6

\* Whoever locks, pays, unlocks or re-applies payrolls in whatever order: unless
\* the effects were failed, stopped or done by two at once, a run marked as settled
\* paid every encashment its payslip names, and charged the loan the instalment it
\* prints (afterLock, staleEncashmentReason, staleLoanEmiReason).
THEOREM LockSettlesAsPrinted == Spec => []SettledAsPrinted
  <1> DEFINE Inv == /\ RunsProcess /\ Charging /\ Restoring
                    /\ Clear => RowsHeld /\ EncsHeld /\ LoanHeld /\ ChargedLocked /\ UndoneReversible
  <1>1. Init => Inv
    <2> SUFFICES ASSUME Init PROVE Inv
      OBVIOUS
    <2>1. \A h \in Requests : op[h].kind = "idle"
      BY DEF Init, Idle
    <2>2. RunsProcess /\ Charging /\ Restoring
      BY <2>1, PayrollAssumption DEF Init, RunsProcess, Charging, Restoring
    <2>3. \A r \in Runs : row[r].status \notin Final /\ ~row[r].effects
      BY DEF Init, NewRun, Final
    <2>4. RowsHeld
      BY <2>1, <2>3
         DEF RowsHeld, AppliedLocked, UndoneUnlocked, MarkedLocked, UnmarkedApplied, Applies,
             TakesBack, EffectKinds, UndoKinds
    <2>5. EncsHeld /\ LoanHeld
      BY <2>1, <2>3 DEF EncsHeld, LoanHeld, Locks, At, Recorded
    <2>6. ChargedLocked
      BY DEF Init, ChargedLocked, Charged
    <2>7. UndoneReversible
      BY <2>1 DEF UndoneReversible, UndoKinds
    <2>8. QED
      BY <2>2, <2>4, <2>5, <2>6, <2>7
  <1>2. TypeOK /\ Inv /\ [Next]_vars => Inv'
    <2>1. [Next]_vars /\ Clear' => Clear
      BY RacesGrow DEF Clear
    <2>2. QED
      BY <2>1, ProcessStep, ChargingStep, RowsStep, EncsStep, LoanStep, ReversibleStep,
         ChargedLockedStep
  <1>3. TypeOK /\ Inv => SettledAsPrinted
    <2> SUFFICES ASSUME TypeOK, Inv, Clear, NEW r \in Runs, row[r].effects
                 PROVE  /\ "enc" \notin row[r].slip.bare =>
                             \A e \in row[r].slip.enc : encStatus[e] = "PROCESSED" /\ encRun[e] = r
                        /\ "emi" \notin row[r].slip.bare =>
                             {repaid[i].amount : i \in {i \in DOMAIN repaid : repaid[i].run = r}}
                               = {row[r].slip.emi} \ {0}
      BY DEF Clear, SettledAsPrinted, Sourced, With
    <2>1. PICK slip \in Slips : row[r].slip = slip
      BY DEF TypeOK, Rows
    <2>2. Recorded(r, slip)
      BY <2>1 DEF Recorded
    <2>3. EncsPaid(slip, r) /\ EmiPaid(slip, r)
      BY <2>2 DEF EncsHeld, LoanHeld
    <2>4. QED
      BY <2>1, <2>3 DEF EncsPaid, EmiPaid, Amounts
  <1>4. QED
    BY <1>1, <1>2, <1>3, TypeCorrect, PTL DEF Spec
=============================================================================
