-------------------------- MODULE PayrollRunProofs --------------------------
(****************************************************************************)
(* Proofs about PayrollRun, for any number of runs, months, handlers and    *)
(* users: types, and what the sign-off of a payslip guarantees - figures    *)
(* that stay frozen, that were verified and that are current, four eyes,    *)
(* and payment of settled runs only.                                        *)
(****************************************************************************)
EXTENDS PayrollRun, TLAPS

-----------------------------------------------------------------------------
(* Payslips *)

\* An instalment is a natural number, whatever the other months have printed.
LEMMA DueEmiType ==
    ASSUME NEW p \in Periods, balance \in Nat
    PROVE  DueEmi(p) \in Nat
  <1>1. CASE PrintedEmis(p) \in 0..balance
    <2>1. balance - PrintedEmis(p) \in Nat
      BY <1>1
    <2>2. QED
      BY <1>1, <2>1, PayrollAssumption DEF DueEmi, Least
  <1>2. CASE PrintedEmis(p) \notin 0..balance
    BY <1>2 DEF DueEmi
  <1>3. QED
    BY <1>1, <1>2

\* calculatePayroll produces a payslip for the month's current inputs.
LEMMA FiguresType ==
    ASSUME NEW p \in Periods, balance \in Nat, inputs \in [Periods -> Nat]
    PROVE  Figures(p) \in Slips /\ Figures(p).rev = inputs[p]
  BY DueEmiType DEF Figures, Slips

\* Dropping the sourceIds of some lines changes nothing else of a payslip.
LEMMA BaredType ==
    ASSUME NEW slip \in Slips, NEW lines \in SUBSET {"enc", "emi"}
    PROVE  Bared(slip, lines) \in Slips /\ Bared(slip, lines).rev = slip.rev
  BY DEF Bared, Slips

\* An edit keeps the version of the inputs.
LEMMA EditsType ==
    ASSUME NEW slip \in Slips, NEW edit \in Edits(slip)
    PROVE  edit \in Slips /\ edit.rev = slip.rev
  <1>1. ASSUME NEW S \in {slip.enc, {}}
        PROVE  [slip EXCEPT !.enc = S] \in Slips /\ [slip EXCEPT !.enc = S].rev = slip.rev
    BY DEF Slips
  <1>2. ASSUME NEW n \in {slip.emi, 0} \cup (IF slip.emi = 0 THEN {} ELSE EditedEmis)
        PROVE  [slip EXCEPT !.emi = n] \in Slips /\ [slip EXCEPT !.emi = n].rev = slip.rev
    BY PayrollAssumption DEF Slips
  <1>3. CASE edit = Bared(slip, {})
    BY <1>3, BaredType
  <1>4. ASSUME NEW S \in {slip.enc, {}}, edit = Bared([slip EXCEPT !.enc = S], {"enc"})
        PROVE  edit \in Slips /\ edit.rev = slip.rev
    BY <1>1, <1>4, BaredType
  <1>5. ASSUME NEW n \in {slip.emi, 0} \cup (IF slip.emi = 0 THEN {} ELSE EditedEmis),
               edit = Bared([slip EXCEPT !.emi = n], {"emi"})
        PROVE  edit \in Slips /\ edit.rev = slip.rev
    BY <1>2, <1>5, BaredType
  <1>6. QED
    BY <1>3, <1>4, <1>5 DEF Edits

-----------------------------------------------------------------------------
(* Handlers *)

\* A run whose status alone is written.
LEMMA StatusType ==
    ASSUME NEW x \in Rows, NEW s \in Statuses
    PROVE  [x EXCEPT !.status = s] \in Rows
  BY DEF Rows

\* What each handler carries.
LEMMA OpType ==
    ASSUME op \in [Requests -> Ops], NEW h \in Requests
    PROVE  LET o == op[h] IN
           /\ o \in Ops
           /\ o.kind = "calculate" =>
                /\ o.run \in Runs \cup {NoRun} /\ o.period \in Periods
                /\ o.slip \in Slips /\ o.by \in Actors
           /\ o.kind = "adjust" =>
                /\ o.run \in Runs /\ o.row \in Rows
                /\ o.slip \in Slips /\ o.recalculated \in BOOLEAN
           /\ o.kind = "transition" =>
                /\ o.action \in Actions /\ o.run \in Runs
                /\ o.row \in Rows /\ o.by \in Actors
           /\ o.kind \in {"hold", "unlock"} => o.run \in Runs /\ o.row \in Rows
           /\ o.kind \in {"refuse", "undoEncash", "undoLoan"} => o.run \in Runs
           /\ o.kind \in {"encash", "check", "mark"} =>
                o \in [kind: {"encash", "check", "mark"}, run: Runs, slip: Slips,
                       locking: BOOLEAN]
           /\ o.kind = "charge" =>
                /\ o.run \in Runs /\ o.slip \in Slips
                /\ o.locking \in BOOLEAN /\ o.amount \in Nat
           /\ o.kind = "restore" =>
                o.run \in Runs /\ o.balance \in Nat /\ o.repayment \in Repaid
           /\ o.kind = "input" => o.period \in Periods
           /\ o.kind = "repay" => o.period \in Periods /\ o.amount \in Nat
  <1> DEFINE o == op[h]
  <1>1. o \in Ops
    OBVIOUS
  <1> HIDE DEF o
  <1>2. o.kind = "calculate" =>
          /\ o.run \in Runs \cup {NoRun} /\ o.period \in Periods
          /\ o.slip \in Slips /\ o.by \in Actors
    BY <1>1 DEF Ops, Idle
  <1>3. o.kind = "adjust" =>
          /\ o.run \in Runs /\ o.row \in Rows
          /\ o.slip \in Slips /\ o.recalculated \in BOOLEAN
    BY <1>1 DEF Ops, Idle
  <1>4. o.kind = "transition" =>
          /\ o.action \in Actions /\ o.run \in Runs
          /\ o.row \in Rows /\ o.by \in Actors
    BY <1>1 DEF Ops, Idle
  <1>5. o.kind \in {"hold", "unlock"} => o.run \in Runs /\ o.row \in Rows
    BY <1>1 DEF Ops, Idle
  <1>6. o.kind \in {"refuse", "undoEncash", "undoLoan"} => o.run \in Runs
    BY <1>1 DEF Ops, Idle
  <1>7. o.kind \in {"encash", "check", "mark"} =>
          o \in [kind: {"encash", "check", "mark"}, run: Runs, slip: Slips,
                 locking: BOOLEAN]
    BY <1>1 DEF Ops, Idle
  <1>8. o.kind = "charge" =>
          /\ o.run \in Runs /\ o.slip \in Slips
          /\ o.locking \in BOOLEAN /\ o.amount \in Nat
    BY <1>1 DEF Ops, Idle
  <1>9. o.kind = "restore" =>
          o.run \in Runs /\ o.balance \in Nat /\ o.repayment \in Repaid
    BY <1>1 DEF Ops, Idle
  <1>10. /\ o.kind = "input" => o.period \in Periods
         /\ o.kind = "repay" => o.period \in Periods /\ o.amount \in Nat
    BY <1>1 DEF Ops, Idle
  <1>11. QED
    BY <1>1, <1>2, <1>3, <1>4, <1>5, <1>6, <1>7, <1>8, <1>9, <1>10 DEF o

\* Moving a handler on keeps the types.
LEMMA OpMoves ==
    ASSUME op \in [Requests -> Ops], NEW h \in Requests,
           Finish(h) \/ \E o \in Ops : Start(h, o) \/ Continue(h, o)
    PROVE  op' \in [Requests -> Ops]
  BY DEF Finish, Start, Continue, Ops

-----------------------------------------------------------------------------
(* Types *)

\* What a repayment writes (recordRepayment).
LEMMA RepayType ==
    ASSUME TypeOK, NEW r \in Runs \cup {NoRun}, NEW p \in Periods, NEW n \in Nat, Repay(r, p, n)
    PROVE  balance' \in Nat /\ repaid' \in Seq(Repaid)
  <1> DEFINE part == PrincipalPart(n)
             new == [run |-> r, period |-> p, amount |-> n, principal |-> part,
                     after |-> balance - part]
  <1>1. part \in Nat /\ balance - part \in Nat
    BY DEF TypeOK, PrincipalPart, Least
  <1>2. balance' = balance - part /\ repaid' = Append(repaid, new)
    BY DEF Repay
  <1>3. new \in Repaid
    BY <1>1 DEF Repaid
  <1> HIDE DEF new, part
  <1>4. QED
    BY <1>1, <1>2, <1>3 DEF TypeOK

\* The repayments that are left when one is deleted (undoAfterLock).
LEMMA WithoutType ==
    ASSUME repaid \in Seq(Repaid), NEW i \in DOMAIN repaid
    PROVE  /\ Without(i) \in Seq(Repaid)
           /\ Len(Without(i)) = Len(repaid) - 1
           /\ DOMAIN Without(i) = 1..(Len(repaid) - 1)
           /\ \A k \in 1..(Len(repaid) - 1) :
                Without(i)[k] = IF k < i THEN repaid[k] ELSE repaid[k + 1]
  <1>1. Len(repaid) \in Nat /\ i \in 1..Len(repaid)
    OBVIOUS
  <1>2. Len(repaid) - 1 \in Nat
    BY <1>1
  <1>3. \A k \in 1..(Len(repaid) - 1) :
          (IF k < i THEN repaid[k] ELSE repaid[k + 1]) \in Repaid
    BY <1>1
  <1>4. QED
    BY <1>1, <1>2, <1>3 DEF Without

\* The calculation of a payslip keeps the types.
LEMMA CalculateTypes ==
    ASSUME TypeOK, NEW h \in Requests
    PROVE  /\ \A p \in Periods, a \in Actors : CalculateRead(h, p, a) => TypeOK'
           /\ \A r \in Runs : CalculateCommit(h, r) => TypeOK'
  <1>1. ASSUME NEW p \in Periods, NEW a \in Actors, CalculateRead(h, p, a)
        PROVE  TypeOK'
    <2>1. PICK r \in Runs \cup {NoRun} :
            Start(h, [kind |-> "calculate", run |-> r, period |-> p,
                      slip |-> Figures(p), by |-> a])
      BY <1>1 DEF CalculateRead
    <2>2. [kind |-> "calculate", run |-> r, period |-> p, slip |-> Figures(p), by |-> a] \in Ops
      BY FiguresType DEF Ops, TypeOK
    <2>3. op' \in [Requests -> Ops]
      BY <2>1, <2>2, OpMoves DEF TypeOK
    <2>4. QED
      BY <1>1, <2>3 DEF CalculateRead, TypeOK, settled
  <1>2. ASSUME NEW r \in Runs, CalculateCommit(h, r)
        PROVE  TypeOK'
    <2>1. op[h].slip \in Slips /\ op[h].by \in Actors
      BY <1>2, OpType DEF CalculateCommit, TypeOK
    <2> DEFINE new == [row[r] EXCEPT !.status = "CALCULATED", !.stale = FALSE,
                                     !.slip = op[h].slip, !.calculatedBy = op[h].by]
    <2>a. new \in Rows
      <3>1. row[r] \in Rows /\ "CALCULATED" \in Statuses /\ op[h].by \in Actors \cup {NoOne}
        BY <2>1 DEF TypeOK, Statuses
      <3>2. QED
        BY <2>1, <3>1 DEF Rows
    <2>b. row' = [row EXCEPT ![r] = new]
      BY <1>2 DEF CalculateCommit, TypeOK
    <2> HIDE DEF new
    <2>2. row' \in [Runs -> Rows]
      BY <2>a, <2>b DEF TypeOK
    <2>3. signed' \in [Runs -> Slips]
      BY <1>2 DEF CalculateCommit, TypeOK, Slips, Blank
    <2>4. races' \subseteq Windows
      BY <1>2 DEF CalculateCommit, TypeOK, Fell, Windows
    <2>5. op' \in [Requests -> Ops]
      BY <1>2, OpMoves DEF CalculateCommit, TypeOK
    <2>6. QED
      BY <1>2, <2>2, <2>3, <2>4, <2>5 DEF CalculateCommit, TypeOK, settled
  <1>3. QED
    BY <1>1, <1>2

\* So does an edit.
LEMMA AdjustTypes ==
    ASSUME TypeOK, NEW h \in Requests
    PROVE  /\ \A r \in Runs, recalculated \in BOOLEAN : AdjustRead(h, r, recalculated) => TypeOK'
           /\ AdjustCommit(h) => TypeOK'
  <1>1. ASSUME NEW r \in Runs, NEW recalculated \in BOOLEAN, AdjustRead(h, r, recalculated)
        PROVE  TypeOK'
    <2> DEFINE base == IF recalculated THEN Figures(PeriodOf[r]) ELSE row[r].slip
    <2>1. PICK slip \in Edits(base) :
            Start(h, [kind |-> "adjust", run |-> r, row |-> row[r], slip |-> slip,
                      recalculated |-> recalculated])
      BY <1>1 DEF AdjustRead
    <2>2. base \in Slips
      BY FiguresType, PayrollAssumption DEF TypeOK, Rows
    <2>3. slip \in Slips /\ row[r] \in Rows
      BY <2>2, EditsType DEF TypeOK
    <2> HIDE DEF base
    <2>4. [kind |-> "adjust", run |-> r, row |-> row[r], slip |-> slip,
           recalculated |-> recalculated] \in Ops
      BY <2>3 DEF Ops
    <2>5. op' \in [Requests -> Ops]
      BY <2>1, <2>4, OpMoves DEF TypeOK
    <2>6. QED
      BY <1>1, <2>5 DEF AdjustRead, TypeOK, settled
  <1>2. ASSUME AdjustCommit(h)
        PROVE  TypeOK'
    <2>1. op[h].slip \in Slips /\ op[h].run \in Runs /\ op[h].recalculated \in BOOLEAN
      BY <1>2, OpType DEF AdjustCommit, TypeOK
    <2>2. row[op[h].run] \in Rows /\ SignOffDropped(op[h], row[op[h].run].status) \in Statuses
      BY <2>1 DEF SignOffDropped, TypeOK, Rows, Statuses
    <2>3. row' \in [Runs -> Rows]
      BY <1>2, <2>1, <2>2 DEF AdjustCommit, TypeOK, Rows
    <2>4. races' \subseteq Windows
      BY <1>2 DEF AdjustCommit, TypeOK, Fell, Windows
    <2>5. op' \in [Requests -> Ops]
      BY <1>2, OpMoves DEF AdjustCommit, TypeOK
    <2>6. QED
      BY <1>2, <2>3, <2>4, <2>5 DEF AdjustCommit, TypeOK, settled
  <1>3. QED
    BY <1>1, <1>2

\* A signature keeps a row a row.
LEMMA SignedRow ==
    ASSUME NEW x \in Rows, NEW s \in Statuses, NEW v \in Actors \cup {NoOne},
           NEW a \in Actors \cup {NoOne}, NEW p \in Actors \cup {NoOne}
    PROVE  [x EXCEPT !.status = s, !.verifiedBy = v, !.approvedBy = a, !.paidBy = p] \in Rows
  <1>1. /\ [x EXCEPT !.status = s] \in Rows
        /\ \A y \in Rows : /\ [y EXCEPT !.verifiedBy = v] \in Rows
                           /\ [y EXCEPT !.approvedBy = a] \in Rows
                           /\ [y EXCEPT !.paidBy = p] \in Rows
    BY DEF Rows
  <1>2. PICK y \in Rows : y = [[x EXCEPT !.status = s] EXCEPT !.verifiedBy = v]
    BY <1>1
  <1>3. PICK z \in Rows : z = [[y EXCEPT !.approvedBy = a] EXCEPT !.paidBy = p]
    BY <1>1
  <1>4. z = [x EXCEPT !.status = s, !.verifiedBy = v, !.approvedBy = a, !.paidBy = p]
    BY <1>2, <1>3
  <1>5. QED
    BY <1>4

\* So do the sign-offs.
LEMMA TransitionTypes ==
    ASSUME TypeOK, NEW h \in Requests
    PROVE  /\ \A r \in Runs, action \in Actions, a \in Actors :
                TransitionRead(h, r, action, a) => TypeOK'
           /\ TransitionCommit(h) => TypeOK'
           /\ Refuse(h) => TypeOK'
  <1>1. ASSUME NEW r \in Runs, NEW action \in Actions, NEW a \in Actors,
               TransitionRead(h, r, action, a)
        PROVE  TypeOK'
    <2>1. \/ Start(h, [kind |-> "transition", action |-> action, run |-> r,
                       row |-> row[r], by |-> a])
          \/ Start(h, [kind |-> "refuse", run |-> r])
      BY <1>1 DEF TransitionRead
    <2>2. /\ [kind |-> "transition", action |-> action, run |-> r,
              row |-> row[r], by |-> a] \in Ops
          /\ [kind |-> "refuse", run |-> r] \in Ops
      BY DEF Ops, TypeOK
    <2>3. op' \in [Requests -> Ops]
      BY <2>1, <2>2, OpMoves DEF TypeOK
    <2>4. QED
      BY <1>1, <2>3 DEF TransitionRead, TypeOK, settled
  <1>2. ASSUME TransitionCommit(h)
        PROVE  TypeOK'
    <2> DEFINE o == op[h]
    <2>1. o.run \in Runs /\ o.row \in Rows /\ o.by \in Actors /\ o.action \in Actions
      BY <1>2, OpType DEF TransitionCommit, TypeOK
    <2>2. row[o.run] \in Rows /\ To[o.action] \in Statuses
      BY <2>1 DEF TypeOK, To, Actions, Statuses
    <2> DEFINE old == row[o.run]
               new == [old EXCEPT
                         !.status = To[o.action],
                         !.verifiedBy = IF o.action = "verify" THEN o.by ELSE old.verifiedBy,
                         !.approvedBy = IF o.action = "approve" THEN o.by ELSE old.approvedBy,
                         !.paidBy = IF o.action = "pay" THEN o.by ELSE old.paidBy]
    <2>a. new \in Rows
      <3>1. /\ old.verifiedBy \in Actors \cup {NoOne} /\ old.approvedBy \in Actors \cup {NoOne}
            /\ old.paidBy \in Actors \cup {NoOne} /\ o.by \in Actors \cup {NoOne}
        BY <2>1, <2>2 DEF Rows
      <3>2. /\ (IF o.action = "verify" THEN o.by ELSE old.verifiedBy) \in Actors \cup {NoOne}
            /\ (IF o.action = "approve" THEN o.by ELSE old.approvedBy) \in Actors \cup {NoOne}
            /\ (IF o.action = "pay" THEN o.by ELSE old.paidBy) \in Actors \cup {NoOne}
        BY <3>1
      <3>3. PICK x \in Rows, s \in Statuses, v \in Actors \cup {NoOne},
                 a \in Actors \cup {NoOne}, p \in Actors \cup {NoOne} :
               /\ x = old /\ s = To[o.action]
               /\ v = IF o.action = "verify" THEN o.by ELSE old.verifiedBy
               /\ a = IF o.action = "approve" THEN o.by ELSE old.approvedBy
               /\ p = IF o.action = "pay" THEN o.by ELSE old.paidBy
        BY <2>2, <3>2, Zenon
      <3>4. new = [x EXCEPT !.status = s, !.verifiedBy = v, !.approvedBy = a, !.paidBy = p]
        BY <3>3, Zenon
      <3>5. [x EXCEPT !.status = s, !.verifiedBy = v, !.approvedBy = a, !.paidBy = p] \in Rows
        BY SignedRow
      <3> HIDE DEF new
      <3>6. QED
        BY <3>4, <3>5
    <2>b. row' = [row EXCEPT ![o.run] = new]
      BY <1>2 DEF TransitionCommit, TypeOK
    <2> HIDE DEF new
    <2>3. row' \in [Runs -> Rows]
      BY <2>a, <2>b DEF TypeOK
    <2>4. signed' \in [Runs -> Slips]
      BY <1>2, <2>1 DEF TransitionCommit, TypeOK, Rows
    <2>5. races' \subseteq Windows
      BY <1>2 DEF TransitionCommit, TypeOK, Fell, Windows
    <2>6. Effects(o.run, row[o.run].slip, TRUE) \in Ops
      BY <2>1, <2>2 DEF Effects, Ops, Rows
    <2>7. op' \in [Requests -> Ops]
      BY <1>2, <2>6, OpMoves DEF TransitionCommit, TypeOK
    <2>8. QED
      BY <1>2, <2>3, <2>4, <2>5, <2>7 DEF TransitionCommit, TypeOK, settled
  <1>3. ASSUME Refuse(h)
        PROVE  TypeOK'
    <2> DEFINE r == op[h].run
               new == [row[r] EXCEPT !.status = "CALCULATED"]
    <2>a. r \in Runs
      BY <1>3, OpType DEF Refuse, TypeOK
    <2>b. new \in Rows
      BY <2>a, StatusType DEF TypeOK, Statuses
    <2>c. row' = [row EXCEPT ![r] = new]
      BY <1>3 DEF Refuse, TypeOK
    <2> HIDE DEF new
    <2>1. row' \in [Runs -> Rows]
      BY <2>b, <2>c DEF TypeOK
    <2>2. op' \in [Requests -> Ops]
      BY <1>3, OpMoves DEF Refuse, TypeOK
    <2>3. QED
      BY <1>3, <2>1, <2>2 DEF Refuse, TypeOK, settled
  <1>4. QED
    BY <1>1, <1>2, <1>3

\* So do the effects of a lock, each of them.
LEMMA EffectsTypes ==
    ASSUME TypeOK, NEW h \in Requests
    PROVE  /\ \A r \in Runs : Reapply(h, r) => TypeOK'
           /\ EffectsEncash(h) => TypeOK'
           /\ EffectsCheck(h) => TypeOK'
           /\ EffectsCharge(h) => TypeOK'
           /\ EffectsMark(h) => TypeOK'
           /\ EffectsFail(h) => TypeOK'
  <1> DEFINE o == op[h]
  <1>1. ASSUME NEW r \in Runs, Reapply(h, r)
        PROVE  TypeOK'
    <2>1. Effects(r, row[r].slip, FALSE) \in Ops
      BY DEF Effects, Ops, Rows, TypeOK
    <2>2. op' \in [Requests -> Ops]
      BY <1>1, <2>1, OpMoves DEF Reapply, TypeOK
    <2>3. QED
      BY <1>1, <2>2 DEF Reapply, TypeOK, settled, Fell, Windows
  <1>2. ASSUME EffectsEncash(h)
        PROVE  TypeOK'
    <2>1. o \in [kind: {"encash", "check", "mark"}, run: Runs, slip: Slips, locking: BOOLEAN]
      BY <1>2, OpType DEF EffectsEncash, TypeOK
    <2>2. [o EXCEPT !.kind = "check"] \in Ops
      BY <2>1 DEF Ops
    <2>3. op' \in [Requests -> Ops]
      BY <1>2, <2>2, OpMoves DEF EffectsEncash, TypeOK
    <2>4. o.run \in Runs
      BY <2>1
    <2>5. QED
      BY <1>2, <2>3, <2>4 DEF EffectsEncash, TypeOK, Fell, Windows
  <1>3. ASSUME EffectsCheck(h)
        PROVE  TypeOK'
    <2>1. o \in [kind: {"encash", "check", "mark"}, run: Runs, slip: Slips, locking: BOOLEAN]
      BY <1>3, OpType DEF EffectsCheck, TypeOK
    <2>2. Charge(o) \in Nat
      <3>1. o.slip.emi \in Nat /\ PeriodOf[o.run] \in Periods
        BY <2>1, PayrollAssumption DEF Slips
      <3>2. DueEmi(PeriodOf[o.run]) \in Nat
        BY <3>1, DueEmiType DEF TypeOK
      <3>3. QED
        BY <3>1, <3>2 DEF Charge
    <2>3. [o EXCEPT !.kind = "mark"] \in Ops
      BY <2>1 DEF Ops
    <2>4. [kind |-> "charge", run |-> o.run, slip |-> o.slip,
           locking |-> o.locking, amount |-> Charge(o)] \in Ops
      BY <2>1, <2>2 DEF Ops
    <2>5. op' \in [Requests -> Ops]
      BY <1>3, <2>3, <2>4, OpMoves DEF EffectsCheck, TypeOK
    <2>6. QED
      BY <1>3, <2>5 DEF EffectsCheck, TypeOK, settled
  <1>4. ASSUME EffectsCharge(h)
        PROVE  TypeOK'
    <2>1. o.run \in Runs /\ o.slip \in Slips /\ o.locking \in BOOLEAN /\ o.amount \in Nat
      BY <1>4, OpType DEF EffectsCharge, TypeOK
    <2>2. balance' \in Nat /\ repaid' \in Seq(Repaid)
      BY <1>4, <2>1, RepayType, PayrollAssumption DEF EffectsCharge
    <2>3. [kind |-> "mark", run |-> o.run, slip |-> o.slip, locking |-> o.locking] \in Ops
      BY <2>1 DEF Ops
    <2>4. op' \in [Requests -> Ops]
      BY <1>4, <2>3, OpMoves DEF EffectsCharge, TypeOK
    <2>5. QED
      BY <1>4, <2>2, <2>4 DEF EffectsCharge, TypeOK, Fell, Windows
  <1>5. ASSUME EffectsMark(h)
        PROVE  TypeOK'
    <2> DEFINE r == op[h].run
               new == [row[r] EXCEPT !.effects = row[r].status # "DELETED"]
    <2>1. o \in [kind: {"encash", "check", "mark"}, run: Runs, slip: Slips, locking: BOOLEAN]
      BY <1>5, OpType DEF EffectsMark, TypeOK
    <2>2. row[r] \in Rows
      BY <2>1 DEF TypeOK
    <2>3. new \in Rows
      BY <2>2 DEF Rows
    <2>4. row' = [row EXCEPT ![r] = new]
      BY <1>5 DEF EffectsMark, TypeOK
    <2> HIDE DEF new
    <2>5. row' \in [Runs -> Rows]
      BY <2>3, <2>4 DEF TypeOK
    <2>6. op' \in [Requests -> Ops]
      BY <1>5, OpMoves DEF EffectsMark, TypeOK
    <2>7. QED
      BY <1>5, <2>5, <2>6 DEF EffectsMark, TypeOK, settled
  <1>6. ASSUME EffectsFail(h)
        PROVE  TypeOK'
    <2> DEFINE r == op[h].run
               new == [row[r] EXCEPT !.status = "APPROVED", !.effects = FALSE]
    <2>1. r \in Runs
      <3>1. CASE o.kind = "charge"
        BY <3>1, OpType DEF TypeOK
      <3>2. CASE o.kind \in {"encash", "check", "mark"}
        <4>1. o \in [kind: {"encash", "check", "mark"}, run: Runs, slip: Slips,
                     locking: BOOLEAN]
          BY <3>2, OpType DEF TypeOK
        <4>2. QED
          BY <4>1
      <3>3. QED
        BY <1>6, <3>1, <3>2 DEF EffectsFail, EffectKinds
    <2>2. row[r] \in Rows
      BY <2>1 DEF TypeOK
    <2>3. new \in Rows
      BY <2>2 DEF Rows, Statuses
    <2>4. row' = [row EXCEPT ![r] = new] \/ row' = row
      BY <1>6 DEF EffectsFail, TypeOK
    <2> HIDE DEF new
    <2>5. row' \in [Runs -> Rows]
      BY <2>3, <2>4 DEF TypeOK
    <2>6. op' \in [Requests -> Ops]
      BY <1>6, OpMoves DEF EffectsFail, TypeOK
    <2>7. QED
      BY <1>6, <2>5, <2>6 DEF EffectsFail, TypeOK, settled, Windows
  <1>7. QED
    BY <1>1, <1>2, <1>3, <1>4, <1>5, <1>6

\* So do unlocking a run and taking its effects back.
LEMMA UnlockTypes ==
    ASSUME TypeOK, NEW h \in Requests
    PROVE  /\ \A r \in Runs, a \in Actors : UnlockRead(h, r, a) => TypeOK'
           /\ UnlockCommit(h) => TypeOK'
           /\ UndoEncash(h) => TypeOK'
           /\ UndoLoan(h) => TypeOK'
           /\ UndoRestore(h) => TypeOK'
  <1> DEFINE o == op[h]
  <1>1. ASSUME NEW r \in Runs, NEW a \in Actors, UnlockRead(h, r, a)
        PROVE  TypeOK'
    <2>1. [kind |-> "unlock", run |-> r, row |-> row[r]] \in Ops
      BY DEF Ops, TypeOK
    <2>2. op' \in [Requests -> Ops]
      BY <1>1, <2>1, OpMoves DEF UnlockRead, TypeOK
    <2>3. QED
      BY <1>1, <2>2 DEF UnlockRead, TypeOK, settled
  <1>2. ASSUME UnlockCommit(h)
        PROVE  TypeOK'
    <2> DEFINE r == op[h].run
               new == [row[r] EXCEPT !.status = "CALCULATED", !.effects = FALSE,
                                     !.verifiedBy = NoOne, !.approvedBy = NoOne,
                                     !.paidBy = NoOne]
    <2>1. r \in Runs
      BY <1>2, OpType DEF UnlockCommit, TypeOK
    <2>2. row[r] \in Rows
      BY <2>1 DEF TypeOK
    <2>3. new \in Rows
      BY <2>2 DEF Rows, Statuses
    <2>4. row' = [row EXCEPT ![r] = new]
      BY <1>2 DEF UnlockCommit, TypeOK
    <2> HIDE DEF new
    <2>5. row' \in [Runs -> Rows]
      BY <2>3, <2>4 DEF TypeOK
    <2>6. [kind |-> "undoEncash", run |-> r] \in Ops
      BY <2>1 DEF Ops
    <2>7. op' \in [Requests -> Ops]
      BY <1>2, <2>6, OpMoves DEF UnlockCommit, TypeOK
    <2>8. QED
      BY <1>2, <2>5, <2>7 DEF UnlockCommit, TypeOK, settled, Fell, Windows
  <1>3. ASSUME UndoEncash(h)
        PROVE  TypeOK'
    <2>1. o.run \in Runs
      BY <1>3, OpType DEF UndoEncash, TypeOK
    <2>2. [kind |-> "undoLoan", run |-> o.run] \in Ops
      BY <2>1 DEF Ops
    <2>3. op' \in [Requests -> Ops]
      BY <1>3, <2>2, OpMoves DEF UndoEncash, TypeOK
    <2>4. QED
      BY <1>3, <2>3 DEF UndoEncash, TypeOK, Fell, Windows
  <1>4. ASSUME UndoLoan(h)
        PROVE  TypeOK'
    <2>1. o.run \in Runs
      BY <1>4, OpType DEF UndoLoan, TypeOK
    <2>2. LatestIs(o.run) => Latest \in Repaid
      BY DEF LatestIs, Latest, TypeOK
    <2>3. LatestIs(o.run) => [kind |-> "restore", run |-> o.run, balance |-> balance,
                              repayment |-> Latest] \in Ops
      BY <2>1, <2>2 DEF Ops, TypeOK
    <2>4. op' \in [Requests -> Ops]
      BY <1>4, <2>3, OpMoves DEF UndoLoan, TypeOK
    <2>5. QED
      BY <1>4, <2>4 DEF UndoLoan, TypeOK, settled
  <1>5. ASSUME UndoRestore(h)
        PROVE  TypeOK'
    <2>1. o.run \in Runs /\ o.balance \in Nat /\ o.repayment \in Repaid
      BY <1>5, OpType DEF UndoRestore, TypeOK
    <2>2. balance' \in Nat
      BY <1>5, <2>1 DEF UndoRestore, Restored, Repaid
    <2>3. repaid' \in Seq(Repaid)
      BY <1>5, WithoutType DEF UndoRestore, Positions, TypeOK
    <2>4. [kind |-> "undoLoan", run |-> o.run] \in Ops
      BY <2>1 DEF Ops
    <2>5. op' \in [Requests -> Ops]
      BY <1>5, <2>4, OpMoves DEF UndoRestore, TypeOK
    <2>6. QED
      BY <1>5, <2>2, <2>3, <2>5 DEF UndoRestore, TypeOK, Fell, Windows
  <1>6. QED
    BY <1>1, <1>2, <1>3, <1>4, <1>5

\* So do drafts, deletions and holds.
LEMMA RowTypes ==
    ASSUME TypeOK
    PROVE  /\ \A r \in Runs : Draft(r) \/ RemoveRun(r) \/ Release(r) => TypeOK'
           /\ \A h \in Requests, r \in Runs : HoldRead(h, r) => TypeOK'
           /\ \A h \in Requests : HoldCommit(h) => TypeOK'
  <1>1. ASSUME NEW r \in Runs, Draft(r)
        PROVE  TypeOK'
    <2>1. [row[r] EXCEPT !.status = "DRAFT"] \in Rows
      BY StatusType DEF TypeOK, Statuses
    <2>2. row' \in [Runs -> Rows]
      BY <1>1, <2>1 DEF Draft, TypeOK
    <2>3. QED
      BY <1>1, <2>2 DEF Draft, TypeOK, settled
  <1>2. ASSUME NEW r \in Runs, RemoveRun(r)
        PROVE  TypeOK'
    <2>1. NewRun \in Rows
      BY DEF NewRun, Rows, Statuses, Slips, Blank
    <2>2. [NewRun EXCEPT !.status = "DELETED"] \in Rows
      BY <2>1, StatusType DEF Statuses
    <2>3. row' \in [Runs -> Rows]
      BY <1>2, <2>2 DEF RemoveRun, TypeOK
    <2>4. QED
      BY <1>2, <2>3 DEF RemoveRun, TypeOK, settled
  <1>3. ASSUME NEW r \in Runs, Release(r)
        PROVE  TypeOK'
    <2>1. [row[r] EXCEPT !.held = FALSE] \in Rows
      <3>1. ASSUME NEW x \in Rows
            PROVE  [x EXCEPT !.held = FALSE] \in Rows
        BY DEF Rows
      <3>2. QED
        BY <3>1 DEF TypeOK
    <2>2. row' \in [Runs -> Rows]
      BY <1>3, <2>1 DEF Release, TypeOK
    <2>3. QED
      BY <1>3, <2>2 DEF Release, TypeOK, settled
  <1>4. ASSUME NEW h \in Requests, NEW r \in Runs, HoldRead(h, r)
        PROVE  TypeOK'
    <2>1. [kind |-> "hold", run |-> r, row |-> row[r]] \in Ops
      BY DEF Ops, TypeOK
    <2>2. op' \in [Requests -> Ops]
      BY <1>4, <2>1, OpMoves DEF HoldRead, TypeOK
    <2>3. QED
      BY <1>4, <2>2 DEF HoldRead, TypeOK, settled
  <1>5. ASSUME NEW h \in Requests, HoldCommit(h)
        PROVE  TypeOK'
    <2>1. op[h].run \in Runs
      BY <1>5, OpType DEF HoldCommit, TypeOK
    <2>a. ASSUME NEW x \in Rows
          PROVE  [x EXCEPT !.held = TRUE] \in Rows
      BY DEF Rows
    <2>2. [row[op[h].run] EXCEPT !.held = TRUE] \in Rows
      BY <2>1, <2>a DEF TypeOK
    <2>3. row' \in [Runs -> Rows]
      BY <1>5, <2>2 DEF HoldCommit, TypeOK
    <2>4. op' \in [Requests -> Ops]
      BY <1>5, OpMoves DEF HoldCommit, TypeOK
    <2>5. QED
      BY <1>5, <2>3, <2>4 DEF HoldCommit, TypeOK, settled, Fell, Windows
  <1>6. QED
    BY <1>1, <1>2, <1>3, <1>4, <1>5

\* A change of a month's inputs marks its open runs and touches no figure.
LEMMA InputRow ==
    ASSUME TypeOK, NEW h \in Requests, InputCommit(h), NEW r \in Runs
    PROVE  /\ op[h].period \in Periods
           /\ row'[r] \in Rows
           /\ row'[r].slip = row[r].slip
           /\ row'[r] = row[r]
              \/ /\ PeriodOf[r] = op[h].period /\ row[r].status \in Open
                 /\ row'[r].status = "CALCULATED" /\ row'[r].stale
           /\ PeriodOf[r] = op[h].period /\ row[r].status \in Open => row'[r].stale
  <1> DEFINE new == [row[r] EXCEPT !.status = "CALCULATED", !.stale = TRUE]
  <1>1. row[r] \in Rows
    BY DEF TypeOK
  <1>2. new \in Rows /\ new.slip = row[r].slip /\ new.status = "CALCULATED" /\ new.stale
    BY <1>1 DEF Rows, Statuses
  <1>3. op[h].period \in Periods
    BY OpType DEF InputCommit, TypeOK
  <1>4. row'[r] = IF PeriodOf[r] = op[h].period /\ row[r].status \in Open THEN new ELSE row[r]
    BY DEF InputCommit, Marked
  <1> HIDE DEF new
  <1>5. QED
    BY <1>1, <1>2, <1>3, <1>4

\* So do the other writers.
LEMMA OtherTypes ==
    ASSUME TypeOK
    PROVE  /\ \A h \in Requests, p \in Periods : InputRead(h, p) => TypeOK'
           /\ \A h \in Requests : InputCommit(h) => TypeOK'
           /\ \A h \in Requests, p \in Periods, n \in Repayments : RepayRead(h, p, n) => TypeOK'
           /\ \A h \in Requests : RepayCommit(h) => TypeOK'
           /\ \A e \in Encashments : EncashmentApproved(e) \/ EncashmentProcessed(e) => TypeOK'
           /\ \A h \in Requests : Stop(h) => TypeOK'
  <1>1. ASSUME NEW h \in Requests, NEW p \in Periods, InputRead(h, p)
        PROVE  TypeOK'
    <2>1. [kind |-> "input", period |-> p] \in Ops
      BY DEF Ops
    <2>2. op' \in [Requests -> Ops]
      BY <1>1, <2>1, OpMoves DEF InputRead, TypeOK
    <2>3. QED
      BY <1>1, <2>2 DEF InputRead, TypeOK, settled
  <1>2. ASSUME NEW h \in Requests, InputCommit(h)
        PROVE  TypeOK'
    <2>1. \A r \in Runs : row'[r] \in Rows
      BY <1>2, InputRow
    <2>2. row' \in [Runs -> Rows]
      BY <1>2, <2>1 DEF InputCommit
    <2>a. op[h].period \in Periods
      BY <1>2, OpType DEF InputCommit, TypeOK
    <2>c. inputs' = [inputs EXCEPT ![op[h].period] = inputs[op[h].period] + 1]
      BY <1>2 DEF InputCommit
    <2>3. inputs' \in [Periods -> Nat]
      BY <2>a, <2>c DEF TypeOK
    <2>4. op' \in [Requests -> Ops]
      BY <1>2, OpMoves DEF InputCommit, TypeOK
    <2>b. PICK b : races' = races \cup Fell("input", b)
      BY <1>2 DEF InputCommit
    <2>5. races' \subseteq Windows
      BY <2>b DEF TypeOK, Fell, Windows
    <2>6. QED
      BY <1>2, <2>2, <2>3, <2>4, <2>5 DEF InputCommit, TypeOK, settled
  <1>3. ASSUME NEW h \in Requests, NEW p \in Periods, NEW n \in Repayments, RepayRead(h, p, n)
        PROVE  TypeOK'
    <2>1. [kind |-> "repay", period |-> p, amount |-> n] \in Ops
      BY PayrollAssumption DEF Ops
    <2>2. op' \in [Requests -> Ops]
      BY <1>3, <2>1, OpMoves DEF RepayRead, TypeOK
    <2>3. QED
      BY <1>3, <2>2 DEF RepayRead, TypeOK, settled
  <1>4. ASSUME NEW h \in Requests, RepayCommit(h)
        PROVE  TypeOK'
    <2>1. op[h].period \in Periods /\ op[h].amount \in Nat
      BY <1>4, OpType DEF RepayCommit, TypeOK
    <2>2. balance' \in Nat /\ repaid' \in Seq(Repaid)
      BY <1>4, <2>1, RepayType DEF RepayCommit
    <2>3. op' \in [Requests -> Ops]
      BY <1>4, OpMoves DEF RepayCommit, TypeOK
    <2>4. QED
      BY <1>4, <2>2, <2>3 DEF RepayCommit, TypeOK, Fell, Windows
  <1>5. ASSUME NEW e \in Encashments, EncashmentApproved(e) \/ EncashmentProcessed(e)
        PROVE  TypeOK'
    BY <1>5 DEF EncashmentApproved, EncashmentProcessed, TypeOK, Fell, Windows
  <1>6. ASSUME NEW h \in Requests, Stop(h)
        PROVE  TypeOK'
    <2>1. op' \in [Requests -> Ops]
      BY <1>6, OpMoves DEF Stop, TypeOK
    <2>2. QED
      BY <1>6, <2>1 DEF Stop, TypeOK, settled, Fell, Windows
  <1>7. QED
    BY <1>1, <1>2, <1>3, <1>4, <1>5, <1>6

\* Every step keeps the types.
LEMMA TypeStep == TypeOK /\ [Next]_vars => TypeOK'
  <1> SUFFICES ASSUME TypeOK, [Next]_vars
               PROVE  TypeOK'
    OBVIOUS
  <1>1. ASSUME NEW h \in Requests, Read(h)
        PROVE  TypeOK'
    BY <1>1, CalculateTypes, AdjustTypes, TransitionTypes, EffectsTypes, UnlockTypes,
       RowTypes, OtherTypes
       DEF Read
  <1>2. ASSUME NEW h \in Requests, Write(h)
        PROVE  TypeOK'
    BY <1>2, CalculateTypes, AdjustTypes, TransitionTypes, EffectsTypes, UnlockTypes,
       RowTypes, OtherTypes
       DEF Write
  <1>3. CASE UNCHANGED vars
    BY <1>3 DEF vars, settled, TypeOK
  <1>4. QED
    BY <1>1, <1>2, <1>3, RowTypes, OtherTypes DEF Next

\* Every variable has its type in every reachable state: whatever the handlers
\* read and write back, no write leaves a run, the loan or an encashment
\* outside the values the schema allows, the balance of the loan never
\* negative.
THEOREM TypeCorrect == Spec => []TypeOK
  <1>1. Init => TypeOK
    BY PayrollAssumption
       DEF Init, TypeOK, NewRun, Rows, Statuses, Slips, Blank, Ops, Idle, Windows
  <1>2. QED
    BY <1>1, TypeStep, PTL DEF Spec
-----------------------------------------------------------------------------
(* Steps *)

\* What a step can do to run r and to what is known of it.
LEMMA RunStep ==
    ASSUME TypeOK, [Next]_vars, NEW r \in Runs
    PROVE  \/ /\ row'[r] = row[r] /\ signed'[r] = signed[r]
              /\ inputs'[PeriodOf[r]] = inputs[PeriodOf[r]]
           \/ Draft(r) \/ RemoveRun(r) \/ Release(r)
           \/ \E h \in Requests :
                \/ CalculateCommit(h, r)
                \/ /\ op[h].run = r
                   /\ \/ AdjustCommit(h)
                      \/ TransitionCommit(h)
                      \/ Refuse(h)
                      \/ EffectsMark(h)
                      \/ EffectsFail(h)
                      \/ UnlockCommit(h)
                      \/ HoldCommit(h)
                \/ InputCommit(h)
  <1> DEFINE Kept == /\ row'[r] = row[r] /\ signed'[r] = signed[r]
                     /\ inputs'[PeriodOf[r]] = inputs[PeriodOf[r]]
  <1>1. UNCHANGED <<row, inputs, signed>> => Kept
    OBVIOUS
  <1>2. ASSUME NEW h \in Requests, Read(h)
        PROVE  Kept
    BY <1>2, <1>1
       DEF Read, CalculateRead, AdjustRead, TransitionRead, Reapply, UnlockRead, HoldRead,
           InputRead, RepayRead
  <1>3. ASSUME NEW h \in Requests, NEW s \in Runs, CalculateCommit(h, s), s # r
        PROVE  Kept
    BY <1>3 DEF CalculateCommit, TypeOK
  <1>4. ASSUME NEW h \in Requests, AdjustCommit(h) \/ Refuse(h) \/ EffectsMark(h) \/ HoldCommit(h),
               op[h].run # r
        PROVE  Kept
    BY <1>4 DEF AdjustCommit, Refuse, EffectsMark, HoldCommit, TypeOK
  <1>5. ASSUME NEW h \in Requests, TransitionCommit(h) \/ EffectsFail(h) \/ UnlockCommit(h),
               op[h].run # r
        PROVE  Kept
    BY <1>5 DEF TransitionCommit, EffectsFail, UnlockCommit, TypeOK
  <1>6. ASSUME NEW h \in Requests,
               \/ EffectsEncash(h) \/ EffectsCheck(h) \/ EffectsCharge(h)
               \/ UndoEncash(h) \/ UndoLoan(h) \/ UndoRestore(h) \/ RepayCommit(h) \/ Stop(h)
        PROVE  Kept
    BY <1>6, <1>1
       DEF EffectsEncash, EffectsCheck, EffectsCharge, UndoEncash, UndoLoan, UndoRestore,
           RepayCommit, Stop
  <1>7. ASSUME NEW e \in Encashments, EncashmentApproved(e) \/ EncashmentProcessed(e)
        PROVE  Kept
    BY <1>7, <1>1 DEF EncashmentApproved, EncashmentProcessed
  <1>8. ASSUME NEW s \in Runs, Draft(s) \/ RemoveRun(s) \/ Release(s), s # r
        PROVE  Kept
    BY <1>8 DEF Draft, RemoveRun, Release, TypeOK
  <1>9. UNCHANGED vars => Kept
    BY DEF vars
  <1> HIDE DEF Kept
  <1>10. ASSUME NEW h \in Requests, Write(h)
         PROVE  \/ Kept
                \/ CalculateCommit(h, r)
                \/ /\ op[h].run = r
                   /\ \/ AdjustCommit(h)
                      \/ TransitionCommit(h)
                      \/ Refuse(h)
                      \/ EffectsMark(h)
                      \/ EffectsFail(h)
                      \/ UnlockCommit(h)
                      \/ HoldCommit(h)
                \/ InputCommit(h)
    BY <1>10, <1>3, <1>4, <1>5, <1>6 DEF Write
  <1>11. QED
    BY <1>2, <1>7, <1>8, <1>9, <1>10 DEF Next, Kept

\* A window, once fallen into, stays in the history.
LEMMA RacesGrow ==
    ASSUME [Next]_vars
    PROVE  races \subseteq races'
  <1>1. ASSUME NEW h \in Requests, Read(h)
        PROVE  races \subseteq races'
    BY <1>1
       DEF Read, CalculateRead, AdjustRead, TransitionRead, Reapply, UnlockRead, HoldRead,
           InputRead, RepayRead
  <1>2. ASSUME NEW h \in Requests, Write(h)
        PROVE  races \subseteq races'
    <2>1. (\E r \in Runs : CalculateCommit(h, r)) => races \subseteq races'
      BY DEF CalculateCommit
    <2>2. AdjustCommit(h) \/ TransitionCommit(h) \/ Refuse(h) => races \subseteq races'
      BY DEF AdjustCommit, TransitionCommit, Refuse
    <2>3. EffectsEncash(h) \/ EffectsCheck(h) \/ EffectsCharge(h) \/ EffectsMark(h)
            \/ EffectsFail(h) => races \subseteq races'
      BY DEF EffectsEncash, EffectsCheck, EffectsCharge, EffectsMark, EffectsFail
    <2>4. UnlockCommit(h) \/ UndoEncash(h) \/ UndoLoan(h) \/ UndoRestore(h) => races \subseteq races'
      BY DEF UnlockCommit, UndoEncash, UndoLoan, UndoRestore
    <2>5. HoldCommit(h) \/ InputCommit(h) \/ RepayCommit(h) \/ Stop(h) => races \subseteq races'
      BY DEF HoldCommit, InputCommit, RepayCommit, Stop
    <2>6. QED
      BY <1>2, <2>1, <2>2, <2>3, <2>4, <2>5 DEF Write
  <1>3. QED
    BY <1>1, <1>2
       DEF Next, vars, Draft, RemoveRun, Release, EncashmentApproved, EncashmentProcessed

-----------------------------------------------------------------------------
(* The figures of a signed-off payslip *)

\* The figures of a run and who signed what, as they were.
Keeps(new, now) ==
    /\ new.slip = now.slip /\ new.stale = now.stale
    /\ new.calculatedBy = now.calculatedBy /\ new.verifiedBy = now.verifiedBy
    /\ new.approvedBy = now.approvedBy /\ new.paidBy = now.paidBy

\* What the writes of one run leave in it.
LEMMA RunWrites ==
    ASSUME TypeOK, NEW r \in Runs
    PROVE  LET now == row[r]
               new == row'[r]
           IN
           /\ Draft(r) => now.status = "NONE" /\ new.status = "DRAFT"
           /\ RemoveRun(r) => new.status = "DELETED"
           /\ Release(r) =>
                /\ Keeps(new, now) /\ new.status = now.status
                /\ ~new.held /\ new.effects = now.effects
           /\ Draft(r) \/ RemoveRun(r) \/ Release(r) => inputs' = inputs /\ signed' = signed
           /\ \A h \in Requests :
                /\ CalculateCommit(h, r) =>
                     /\ new.status = "CALCULATED" /\ new.slip = op[h].slip /\ ~new.stale
                     /\ now.status \in Editable \cup {"NONE"}
                /\ InputCommit(h) =>
                     /\ new.slip = now.slip
                     /\ new = now \/ (now.status \in Open /\ new.status = "CALCULATED" /\ new.stale)
  <1>1. Draft(r) => row[r].status = "NONE" /\ row'[r].status = "DRAFT"
    BY DEF Draft, TypeOK, Rows
  <1>2. RemoveRun(r) => row'[r].status = "DELETED"
    BY DEF RemoveRun, TypeOK, NewRun
  <1>3. Release(r) =>
          /\ Keeps(row'[r], row[r]) /\ row'[r].status = row[r].status
          /\ ~row'[r].held /\ row'[r].effects = row[r].effects
    BY DEF Release, TypeOK, Rows, Keeps
  <1>4. ASSUME NEW h \in Requests, CalculateCommit(h, r)
        PROVE  /\ row'[r].status = "CALCULATED" /\ row'[r].slip = op[h].slip /\ ~row'[r].stale
               /\ row[r].status \in Editable \cup {"NONE"}
    BY <1>4 DEF CalculateCommit, StillEditable, TypeOK, Rows
  <1>5. ASSUME NEW h \in Requests, InputCommit(h)
        PROVE  /\ row'[r].slip = row[r].slip
               /\ row'[r] = row[r] \/ ( row[r].status \in Open /\ row'[r].status = "CALCULATED"
                                        /\ row'[r].stale)
    BY <1>5, InputRow
  <1>6. Draft(r) \/ RemoveRun(r) \/ Release(r) => inputs' = inputs /\ signed' = signed
    BY DEF Draft, RemoveRun, Release
  <1>7. QED
    BY <1>1, <1>2, <1>3, <1>4, <1>5, <1>6

\* What the writes of a handler leave in the run it works on.
LEMMA HandlerWrites ==
    ASSUME TypeOK, NEW h \in Requests, NEW r \in Runs, op[h].run = r
    PROVE  LET now == row[r]
               new == row'[r]
               o   == op[h]
           IN
           /\ AdjustCommit(h) =>
                /\ now.status \in Editable /\ new.status = SignOffDropped(o, now.status)
                /\ new.slip = o.slip
                /\ new.stale <=> (now.stale /\ ~o.recalculated)
           /\ TransitionCommit(h) =>
                /\ now.status = From[o.action] /\ new.status = To[o.action]
                /\ new.slip = now.slip /\ new.stale = now.stale
                /\ new.effects = now.effects /\ new.held = now.held
                /\ new.calculatedBy = now.calculatedBy
                /\ new.verifiedBy = IF o.action = "verify" THEN o.by ELSE now.verifiedBy
                /\ new.approvedBy = IF o.action = "approve" THEN o.by ELSE now.approvedBy
                /\ new.paidBy = IF o.action = "pay" THEN o.by ELSE now.paidBy
           /\ Refuse(h) =>
                /\ Keeps(new, now) /\ now.status = "APPROVED" /\ new.status = "CALCULATED"
           /\ EffectsMark(h) =>
                /\ Keeps(new, now) /\ new.status = now.status /\ new.held = now.held
                /\ new.effects <=> now.status # "DELETED"
           /\ EffectsFail(h) =>
                \/ new = now
                \/ Keeps(new, now) /\ now.status = "LOCKED" /\ new.status = "APPROVED"
           /\ UnlockCommit(h) =>
                /\ now.status = o.row.status
                /\ new.status = "CALCULATED" /\ new.slip = now.slip /\ new.stale = now.stale
           /\ HoldCommit(h) =>
                Keeps(new, now) /\ new.status = now.status /\ new.effects = now.effects
  <1>1. ASSUME AdjustCommit(h)
        PROVE  /\ row[r].status \in Editable
               /\ row'[r].status = SignOffDropped(op[h], row[r].status)
               /\ row'[r].slip = op[h].slip
               /\ row'[r].stale <=> (row[r].stale /\ ~op[h].recalculated)
    BY <1>1 DEF AdjustCommit, StillEditable, TypeOK, Rows
  <1>2. ASSUME TransitionCommit(h)
        PROVE  LET now == row[r]
                   new == row'[r]
                   o   == op[h]
               IN
                /\ now.status = From[o.action] /\ new.status = To[o.action]
                /\ new.slip = now.slip /\ new.stale = now.stale
                /\ new.effects = now.effects /\ new.held = now.held
                /\ new.calculatedBy = now.calculatedBy
                /\ new.verifiedBy = IF o.action = "verify" THEN o.by ELSE now.verifiedBy
                /\ new.approvedBy = IF o.action = "approve" THEN o.by ELSE now.approvedBy
                /\ new.paidBy = IF o.action = "pay" THEN o.by ELSE now.paidBy
    BY <1>2 DEF TransitionCommit, TypeOK, Rows
  <1>3. Refuse(h) =>
          /\ Keeps(row'[r], row[r])
          /\ row[r].status = "APPROVED" /\ row'[r].status = "CALCULATED"
    BY DEF Refuse, TypeOK, Rows, Keeps
  <1>4. EffectsMark(h) =>
          /\ Keeps(row'[r], row[r])
          /\ row'[r].status = row[r].status /\ row'[r].held = row[r].held
          /\ row'[r].effects <=> row[r].status # "DELETED"
    <2> DEFINE b == row[r].status # "DELETED"
               new == [row[r] EXCEPT !.effects = b]
    <2>1. EffectsMark(h) => row'[r] = new
      BY DEF EffectsMark, TypeOK
    <2>2. b \in BOOLEAN /\ row[r] \in Rows
      BY DEF TypeOK
    <2>3. b <=> row[r].status # "DELETED"
      OBVIOUS
    <2> HIDE DEF b
    <2>4. /\ Keeps(new, row[r]) /\ new.status = row[r].status
          /\ new.held = row[r].held /\ (new.effects <=> b)
      BY <2>2 DEF Rows, Keeps
    <2> HIDE DEF new
    <2>5. QED
      BY <2>1, <2>3, <2>4
  <1>5. EffectsFail(h) =>
          \/ row'[r] = row[r]
          \/ /\ Keeps(row'[r], row[r])
             /\ row[r].status = "LOCKED" /\ row'[r].status = "APPROVED"
    BY DEF EffectsFail, TypeOK, Rows, Keeps
  <1>6. UnlockCommit(h) =>
          /\ row[r].status = op[h].row.status
          /\ row'[r].status = "CALCULATED" /\ row'[r].slip = row[r].slip
          /\ row'[r].stale = row[r].stale
    BY DEF UnlockCommit, TypeOK, Rows
  <1>7. HoldCommit(h) =>
          /\ Keeps(row'[r], row[r])
          /\ row'[r].status = row[r].status /\ row'[r].effects = row[r].effects
    BY DEF HoldCommit, TypeOK, Rows, Keeps
  <1>8. QED
    BY <1>1, <1>2, <1>3, <1>4, <1>5, <1>6, <1>7

\* No step changes the figures of a payslip that is signed off and stays so.
LEMMA FrozenStep ==
    ASSUME TypeOK, [Next]_vars, NEW r \in Runs,
           row[r].status \in SignedOff, row'[r].status \in SignedOff
    PROVE  row'[r].slip = row[r].slip
  <1>1. CASE Draft(r) \/ RemoveRun(r) \/ Release(r)
    BY <1>1, RunWrites DEF SignedOff, Keeps
  <1>2. ASSUME NEW h \in Requests, CalculateCommit(h, r) \/ InputCommit(h)
        PROVE  row'[r].slip = row[r].slip
    BY <1>2, RunWrites DEF SignedOff, Editable
  <1>3. ASSUME NEW h \in Requests, op[h].run = r,
               AdjustCommit(h) \/ TransitionCommit(h) \/ UnlockCommit(h)
        PROVE  row'[r].slip = row[r].slip
    BY <1>3, HandlerWrites DEF SignedOff, Editable
  <1>4. ASSUME NEW h \in Requests, op[h].run = r,
               Refuse(h) \/ EffectsMark(h) \/ EffectsFail(h) \/ HoldCommit(h)
        PROVE  row'[r].slip = row[r].slip
    BY <1>4, HandlerWrites DEF Keeps
  <1>5. QED
    BY <1>1, <1>2, <1>3, <1>4, RunStep

\* The figures of an approved, locked or paid payslip never change while it
\* stays one, whatever calculation or edit was under way when it was approved
\* (EDITABLE_RUN_STATUSES in the write of calculate and adjust).
THEOREM FiguresNeverMove == Spec => FiguresFrozen
  <1>1. ASSUME TypeOK, [Next]_vars
        PROVE  \A r \in With(SignedOff) :
                 row'[r].status \in SignedOff => row'[r].slip = row[r].slip
    <2>1. SUFFICES ASSUME NEW r \in With(SignedOff), row'[r].status \in SignedOff
                   PROVE  row'[r].slip = row[r].slip
      OBVIOUS
    <2>2. r \in Runs /\ row[r].status \in SignedOff
      BY DEF With
    <2>3. QED
      BY <1>1, <2>1, <2>2, FrozenStep
  <1>2. QED
    BY <1>1, TypeCorrect, PTL DEF Spec, FiguresFrozen

-----------------------------------------------------------------------------
(* What the handlers in flight have checked *)

\* A sign-off was allowed on the row that was read; a hold was asked for a run
\* that was not paid, an unlock for one that was locked; a calculation found the
\* month's run; an edit that recalculates nothing keeps the version.
Checked(o) ==
    /\ o.kind = "transition" =>
         /\ o.row.status = From[o.action] /\ ~o.row.stale
         /\ o.action = "approve" =>
              o.by \in Admins \/ o.by \notin {o.row.calculatedBy, o.row.verifiedBy}
         /\ o.action = "pay" =>
              /\ ~o.row.held /\ o.row.effects
              /\ o.by \in Admins \/ o.by # o.row.approvedBy
    /\ o.kind = "hold" => o.row.status # "PAID"
    /\ o.kind = "unlock" => o.row.status \in Final
    /\ o.kind = "calculate" => o.run = NoRun \/ PeriodOf[o.run] = o.period
    /\ o.kind = "adjust" => o.recalculated \/ o.slip.rev = o.row.slip.rev

AllChecked == \A h \in Requests : Checked(op[h])

LEMMA CheckedMoves ==
    ASSUME TypeOK, AllChecked, NEW h \in Requests,
           Finish(h) \/ op' = op \/ \E o : Checked(o) /\ (Start(h, o) \/ Continue(h, o))
    PROVE  AllChecked'
  <1>1. Checked(Idle)
    BY DEF Checked, Idle
  <1>2. ASSUME NEW g \in Requests
        PROVE  Checked(op'[g])
    <2>1. op'[g] = op[g] \/ Checked(op'[g])
      BY <1>1 DEF TypeOK, Finish, Start, Continue
    <2>2. QED
      BY <2>1 DEF AllChecked
  <1>3. QED
    BY <1>2 DEF AllChecked, Checked

LEMMA CheckedStep == TypeOK /\ AllChecked /\ [Next]_vars => AllChecked'
  <1> SUFFICES ASSUME TypeOK, AllChecked, [Next]_vars
               PROVE  AllChecked'
    OBVIOUS
  <1>0. ASSUME op' = op
        PROVE  AllChecked'
    BY <1>0 DEF AllChecked, Checked
  <1>1. ASSUME NEW h \in Requests, NEW p \in Periods, NEW a \in Actors, CalculateRead(h, p, a)
        PROVE  AllChecked'
    <2>1. PICK r \in RunsOf(p) \cup {NoRun} :
            Start(h, [kind |-> "calculate", run |-> r, period |-> p,
                      slip |-> Figures(p), by |-> a])
      BY <1>1 DEF CalculateRead
    <2>2. Checked([kind |-> "calculate", run |-> r, period |-> p, slip |-> Figures(p), by |-> a])
      BY DEF Checked, RunsOf
    <2>3. QED
      BY <2>1, <2>2, CheckedMoves
  <1>2. ASSUME NEW h \in Requests, NEW r \in Runs, NEW recalculated \in BOOLEAN,
               AdjustRead(h, r, recalculated)
        PROVE  AllChecked'
    <2> DEFINE base == IF recalculated THEN Figures(PeriodOf[r]) ELSE row[r].slip
    <2>1. PICK slip \in Edits(base) :
            Start(h, [kind |-> "adjust", run |-> r, row |-> row[r], slip |-> slip,
                      recalculated |-> recalculated])
      BY <1>2 DEF AdjustRead
    <2>2. ~recalculated => slip.rev = row[r].slip.rev
      BY <2>1, EditsType DEF TypeOK, Rows
    <2>3. Checked([kind |-> "adjust", run |-> r, row |-> row[r], slip |-> slip,
                   recalculated |-> recalculated])
      BY <2>2 DEF Checked
    <2>4. QED
      BY <2>1, <2>3, CheckedMoves
  <1>3. ASSUME NEW h \in Requests, NEW r \in Runs, NEW action \in Actions, NEW a \in Actors,
               TransitionRead(h, r, action, a)
        PROVE  AllChecked'
    <2> DEFINE o == [kind |-> "transition", action |-> action, run |-> r,
                     row |-> row[r], by |-> a]
    <2>1. Start(h, o) \/ Start(h, [kind |-> "refuse", run |-> r])
      BY <1>3 DEF TransitionRead
    <2>2. Checked(o)
      BY <1>3 DEF TransitionRead, Checked, DutiesSeparated, Payable, UpToDate
    <2>3. Checked([kind |-> "refuse", run |-> r])
      BY DEF Checked
    <2> HIDE DEF o
    <2>4. QED
      BY <2>1, <2>2, <2>3, CheckedMoves
  <1>4. ASSUME NEW h \in Requests, NEW r \in Runs, HoldRead(h, r)
        PROVE  AllChecked'
    <2>1. Checked([kind |-> "hold", run |-> r, row |-> row[r]])
      BY <1>4 DEF Checked, HoldRead
    <2>2. QED
      BY <1>4, <2>1, CheckedMoves DEF HoldRead
  <1>5. ASSUME NEW h \in Requests, NEW r \in Runs, NEW a \in Actors, UnlockRead(h, r, a)
        PROVE  AllChecked'
    <2>1. Checked([kind |-> "unlock", run |-> r, row |-> row[r]])
      BY <1>5 DEF Checked, UnlockRead
    <2>2. QED
      BY <1>5, <2>1, CheckedMoves DEF UnlockRead
  <1>6. ASSUME NEW h \in Requests, NEW p \in Periods, InputRead(h, p)
        PROVE  AllChecked'
    <2>1. Checked([kind |-> "input", period |-> p])
      BY DEF Checked
    <2>2. QED
      BY <1>6, <2>1, CheckedMoves DEF InputRead
  <1>7. ASSUME NEW h \in Requests, NEW p \in Periods, NEW n \in Repayments, RepayRead(h, p, n)
        PROVE  AllChecked'
    <2>1. Checked([kind |-> "repay", period |-> p, amount |-> n])
      BY DEF Checked
    <2>2. QED
      BY <1>7, <2>1, CheckedMoves DEF RepayRead
  <1>8. ASSUME NEW h \in Requests, NEW r \in Runs, Reapply(h, r)
        PROVE  AllChecked'
    <2>1. Checked(Effects(r, row[r].slip, FALSE))
      BY DEF Checked, Effects
    <2>2. QED
      BY <1>8, <2>1, CheckedMoves DEF Reapply
  <1>9. ASSUME NEW h \in Requests, TransitionCommit(h)
        PROVE  AllChecked'
    <2>1. Checked(Effects(op[h].run, row[op[h].run].slip, TRUE))
      BY DEF Checked, Effects
    <2>2. QED
      BY <1>9, <2>1, CheckedMoves DEF TransitionCommit
  <1>10. ASSUME NEW h \in Requests, EffectsEncash(h) \/ EffectsCheck(h) \/ EffectsCharge(h)
         PROVE  AllChecked'
    <2> DEFINE o == op[h]
    <2>1. o.kind = "encash" \/ o.kind = "check" =>
            Checked([o EXCEPT !.kind = "check"]) /\ Checked([o EXCEPT !.kind = "mark"])
      <3>1. o.kind = "encash" \/ o.kind = "check" =>
              o \in [kind: {"encash", "check", "mark"}, run: Runs, slip: Slips, locking: BOOLEAN]
        BY OpType DEF TypeOK
      <3>2. QED
        BY <3>1 DEF Checked
    <2>2. /\ Checked([kind |-> "charge", run |-> o.run, slip |-> o.slip,
                      locking |-> o.locking, amount |-> Charge(o)])
          /\ Checked([kind |-> "mark", run |-> o.run, slip |-> o.slip, locking |-> o.locking])
      BY DEF Checked
    <2>3. QED
      BY <1>10, <2>1, <2>2, CheckedMoves DEF EffectsEncash, EffectsCheck, EffectsCharge
  <1>11. ASSUME NEW h \in Requests, UnlockCommit(h) \/ UndoEncash(h) \/ UndoRestore(h)
         PROVE  AllChecked'
    <2>1. /\ Checked([kind |-> "undoEncash", run |-> op[h].run])
          /\ Checked([kind |-> "undoLoan", run |-> op[h].run])
      BY DEF Checked
    <2>2. QED
      BY <1>11, <2>1, CheckedMoves DEF UnlockCommit, UndoEncash, UndoRestore
  <1>12. ASSUME NEW h \in Requests, UndoLoan(h)
         PROVE  AllChecked'
    <2>1. Checked([kind |-> "restore", run |-> op[h].run, balance |-> balance,
                   repayment |-> Latest])
      BY DEF Checked
    <2>2. QED
      BY <1>12, <2>1, CheckedMoves DEF UndoLoan
  <1>13. ASSUME NEW h \in Requests,
                \/ \E r \in Runs : CalculateCommit(h, r)
                \/ AdjustCommit(h) \/ Refuse(h) \/ EffectsMark(h) \/ EffectsFail(h)
                \/ HoldCommit(h) \/ InputCommit(h) \/ RepayCommit(h) \/ Stop(h)
         PROVE  AllChecked'
    BY <1>13, CheckedMoves
       DEF CalculateCommit, AdjustCommit, Refuse, EffectsMark, EffectsFail, HoldCommit,
           InputCommit, RepayCommit, Stop
  <1>14. ASSUME NEW h \in Requests, Read(h)
         PROVE  AllChecked'
    BY <1>14, <1>1, <1>2, <1>3, <1>4, <1>5, <1>6, <1>7, <1>8 DEF Read
  <1>15. ASSUME NEW h \in Requests, Write(h)
         PROVE  AllChecked'
    BY <1>15, <1>9, <1>10, <1>11, <1>12, <1>13 DEF Write
  <1>16. ASSUME NEW r \in Runs, Draft(r) \/ RemoveRun(r) \/ Release(r)
         PROVE  AllChecked'
    BY <1>16, <1>0 DEF Draft, RemoveRun, Release
  <1>17. ASSUME NEW e \in Encashments, EncashmentApproved(e) \/ EncashmentProcessed(e)
         PROVE  AllChecked'
    BY <1>17, <1>0 DEF EncashmentApproved, EncashmentProcessed
  <1>18. CASE UNCHANGED vars
    BY <1>18, <1>0 DEF vars
  <1>19. QED
    BY <1>14, <1>15, <1>16, <1>17, <1>18 DEF Next

\* Whatever a handler in flight carries, it has checked.
LEMMA AlwaysChecked == Spec => []AllChecked
  <1>1. Init => AllChecked
    BY DEF Init, AllChecked, Checked, Idle
  <1>2. QED
    BY <1>1, TypeCorrect, CheckedStep, PTL DEF Spec

\* Outside the windows the models name, a write finds the row that was read; and
\* only a change of the inputs changes them.
LEMMA WritesOnRead ==
    ASSUME TypeOK, NEW h \in Requests, NEW r \in Runs
    PROVE  LET o == op[h] IN
           /\ CalculateCommit(h, r) =>
                /\ o.kind = "calculate" /\ inputs' = inputs
                /\ o.run \in {r, NoRun} /\ (o.run = NoRun => PeriodOf[r] = o.period)
                /\ "calculate" \notin races' => inputs[o.period] = o.slip.rev
           /\ o.run = r /\ AdjustCommit(h) =>
                /\ o.kind = "adjust" /\ inputs' = inputs /\ signed' = signed
                /\ "adjust" \notin races' => row[r] = o.row
                /\ "calculate" \notin races' /\ o.recalculated => inputs[PeriodOf[r]] = o.slip.rev
           /\ o.run = r /\ TransitionCommit(h) =>
                /\ o.kind = "transition" /\ inputs' = inputs
                /\ signed'[r] = IF o.action = "verify" THEN o.row.slip ELSE signed[r]
                /\ "transition" \notin races' => row[r] = o.row
           /\ o.run = r /\ HoldCommit(h) =>
                /\ o.kind = "hold" /\ inputs' = inputs /\ signed' = signed
                /\ "hold" \notin races' => row[r] = o.row
           /\ UnlockCommit(h) => o.kind = "unlock" /\ inputs' = inputs /\ signed' = signed
           /\ Refuse(h) \/ EffectsMark(h) \/ EffectsFail(h) => inputs' = inputs /\ signed' = signed
  <1> DEFINE o == op[h]
  <1>1. ASSUME CalculateCommit(h, r)
        PROVE  /\ o.kind = "calculate" /\ inputs' = inputs
               /\ o.run \in {r, NoRun} /\ (o.run = NoRun => PeriodOf[r] = o.period)
               /\ "calculate" \notin races' => inputs[o.period] = o.slip.rev
    BY <1>1, PayrollAssumption DEF CalculateCommit, Fell, RunsOf
  <1>2. ASSUME o.run = r, AdjustCommit(h)
        PROVE  /\ o.kind = "adjust" /\ inputs' = inputs /\ signed' = signed
               /\ "adjust" \notin races' => row[r] = o.row
               /\ "calculate" \notin races' /\ o.recalculated => inputs[PeriodOf[r]] = o.slip.rev
    BY <1>2 DEF AdjustCommit, Fell
  <1>3. ASSUME o.run = r, TransitionCommit(h)
        PROVE  /\ o.kind = "transition" /\ inputs' = inputs
               /\ signed'[r] = IF o.action = "verify" THEN o.row.slip ELSE signed[r]
               /\ "transition" \notin races' => row[r] = o.row
    BY <1>3 DEF TransitionCommit, Fell, TypeOK
  <1>4. ASSUME o.run = r, HoldCommit(h)
        PROVE  /\ o.kind = "hold" /\ inputs' = inputs /\ signed' = signed
               /\ "hold" \notin races' => row[r] = o.row
    BY <1>4 DEF HoldCommit, Fell
  <1>5. /\ UnlockCommit(h) => o.kind = "unlock" /\ inputs' = inputs /\ signed' = signed
        /\ Refuse(h) \/ EffectsMark(h) \/ EffectsFail(h) => inputs' = inputs /\ signed' = signed
    BY DEF UnlockCommit, Refuse, EffectsMark, EffectsFail
  <1>6. QED
    BY <1>1, <1>2, <1>3, <1>4, <1>5

-----------------------------------------------------------------------------
(* Paid runs *)

\* A paid run has had its effects and is not on hold.
PaidFinal(r) == row[r].status = "PAID" => row[r].effects /\ ~row[r].held

LEMMA PaidStep ==
    ASSUME TypeOK, AllChecked, [Next]_vars, NEW r \in Runs, PaidFinal(r),
           races' \cap {"transition", "hold"} = {}
    PROVE  PaidFinal(r)'
  <1>1. CASE row'[r] = row[r]
    BY <1>1 DEF PaidFinal
  <1>2. CASE Draft(r) \/ RemoveRun(r) \/ Release(r)
    BY <1>2, RunWrites DEF PaidFinal
  <1>3. ASSUME NEW h \in Requests, CalculateCommit(h, r) \/ InputCommit(h)
        PROVE  PaidFinal(r)'
    BY <1>3, RunWrites DEF PaidFinal
  <1>4. ASSUME NEW h \in Requests, op[h].run = r, TransitionCommit(h)
        PROVE  PaidFinal(r)'
    <2>1. row[r] = op[h].row /\ op[h].kind = "transition"
      BY <1>4, WritesOnRead
    <2>2. Checked(op[h]) /\ op[h].action \in Actions
      BY <2>1, OpType DEF AllChecked, TypeOK
    <2>3. To[op[h].action] = "PAID" => op[h].action = "pay"
      BY <2>2 DEF To, Actions
    <2>4. QED
      BY <1>4, <2>1, <2>2, <2>3, HandlerWrites DEF Checked, PaidFinal
  <1>5. ASSUME NEW h \in Requests, op[h].run = r, HoldCommit(h)
        PROVE  PaidFinal(r)'
    <2>1. row[r] = op[h].row /\ op[h].kind = "hold"
      BY <1>5, WritesOnRead
    <2>2. row'[r].status # "PAID"
      BY <1>5, <2>1, HandlerWrites DEF AllChecked, Checked
    <2>3. QED
      BY <2>2 DEF PaidFinal
  <1>6. ASSUME NEW h \in Requests, op[h].run = r,
               AdjustCommit(h) \/ Refuse(h) \/ UnlockCommit(h)
        PROVE  PaidFinal(r)'
    BY <1>6, HandlerWrites DEF PaidFinal, SignOffDropped, Editable
  <1>7. ASSUME NEW h \in Requests, op[h].run = r, EffectsMark(h) \/ EffectsFail(h)
        PROVE  PaidFinal(r)'
    BY <1>7, HandlerWrites DEF PaidFinal
  <1>8. QED
    BY <1>1, <1>2, <1>3, <1>4, <1>5, <1>6, <1>7, RunStep

\* A run that is paid has had its effects applied and is not on hold, whatever
\* locks were interrupted, failed or undone before (transitionMany's on_hold and
\* lock_effects_pending).
THEOREM PaidRunsAreFinal == Spec => []PaidIsFinal
  <1>1. Init => PaidIsFinal
    BY DEF Init, PaidIsFinal, With, NewRun
  <1>2. TypeOK /\ AllChecked /\ PaidIsFinal /\ [Next]_vars => PaidIsFinal'
    <2> SUFFICES ASSUME TypeOK, AllChecked, PaidIsFinal, [Next]_vars,
                        races' \cap {"transition", "hold"} = {},
                        NEW r \in Runs
                 PROVE  PaidFinal(r)'
      BY DEF PaidIsFinal, PaidFinal, With
    <2>1. PaidFinal(r)
      BY RacesGrow DEF PaidIsFinal, PaidFinal, With
    <2>2. QED
      BY <2>1, PaidStep
  <1>3. QED
    BY <1>1, <1>2, TypeCorrect, AlwaysChecked, PTL DEF Spec

-----------------------------------------------------------------------------
(* Four eyes *)

\* Who signed what in a run.
Separated(x) ==
    x.status \in SignedOff =>
        /\ x.approvedBy \in Admins \/ x.approvedBy \notin {x.calculatedBy, x.verifiedBy}
        /\ x.status = "PAID" => x.paidBy \in Admins \/ x.paidBy # x.approvedBy

LEMMA SeparatedStep ==
    ASSUME TypeOK, AllChecked, [Next]_vars, NEW r \in Runs, Separated(row[r]),
           "transition" \notin races'
    PROVE  Separated(row'[r])
  <1>1. CASE row'[r] = row[r]
    BY <1>1
  <1>2. CASE Draft(r) \/ RemoveRun(r) \/ Release(r)
    BY <1>2, RunWrites DEF Separated, Keeps, SignedOff
  <1>3. ASSUME NEW h \in Requests, CalculateCommit(h, r) \/ InputCommit(h)
        PROVE  Separated(row'[r])
    BY <1>3, RunWrites DEF Separated, SignedOff
  <1>4. ASSUME NEW h \in Requests, op[h].run = r, TransitionCommit(h)
        PROVE  Separated(row'[r])
    <2> DEFINE o == op[h]
    <2>1. row[r] = o.row /\ o.kind = "transition"
      BY <1>4, WritesOnRead
    <2>2. Checked(o) /\ o.action \in Actions
      BY <2>1, OpType DEF AllChecked, TypeOK
    <2>3. CASE o.action = "verify"
      BY <1>4, <2>3, HandlerWrites DEF To, Separated, SignedOff
    <2>4. CASE o.action = "approve"
      BY <1>4, <2>1, <2>2, <2>4, HandlerWrites DEF To, Separated, Checked
    <2>5. CASE o.action = "lock"
      BY <1>4, <2>5, HandlerWrites DEF From, To, Separated, SignedOff
    <2>6. CASE o.action = "pay"
      BY <1>4, <2>1, <2>2, <2>6, HandlerWrites DEF From, To, Separated, Checked, SignedOff
    <2>7. QED
      BY <2>2, <2>3, <2>4, <2>5, <2>6 DEF Actions
  <1>5. ASSUME NEW h \in Requests, op[h].run = r,
               AdjustCommit(h) \/ Refuse(h) \/ UnlockCommit(h)
        PROVE  Separated(row'[r])
    BY <1>5, HandlerWrites DEF Separated, SignedOff, SignOffDropped, Editable
  <1>6. ASSUME NEW h \in Requests, op[h].run = r,
               EffectsMark(h) \/ EffectsFail(h) \/ HoldCommit(h)
        PROVE  Separated(row'[r])
    BY <1>6, HandlerWrites DEF Separated, SignedOff, Keeps
  <1>7. QED
    BY <1>1, <1>2, <1>3, <1>4, <1>5, <1>6, RunStep

\* Separation of duties survives recalculation, refused locks and unlocks
\* (transitionMany's isAdmin checks).
THEOREM DutiesStaySeparated == Spec => []FourEyes
  <1>1. Init => FourEyes
    BY DEF Init, FourEyes, With, NewRun, SignedOff
  <1>2. TypeOK /\ AllChecked /\ FourEyes /\ [Next]_vars => FourEyes'
    <2> SUFFICES ASSUME TypeOK, AllChecked, FourEyes, [Next]_vars,
                        "transition" \notin races', NEW r \in Runs
                 PROVE  Separated(row'[r])
      BY DEF FourEyes, Separated, With
    <2>1. Separated(row[r])
      BY RacesGrow DEF FourEyes, Separated, With
    <2>2. QED
      BY <2>1, SeparatedStep
  <1>3. QED
    BY <1>1, <1>2, TypeCorrect, AlwaysChecked, PTL DEF Spec

-----------------------------------------------------------------------------
(* The figures that were verified *)

\* The payslip is the one its verifier saw.
Attested(r) == row[r].status \in SignedOff \cup {"VERIFIED"} => row[r].slip = signed[r]

LEMMA AttestedStep ==
    ASSUME TypeOK, AllChecked, [Next]_vars, NEW r \in Runs, Attested(r),
           races' \cap {"adjust", "transition"} = {}
    PROVE  Attested(r)'
  <1>1. CASE row'[r] = row[r] /\ signed'[r] = signed[r]
    BY <1>1 DEF Attested
  <1>2. CASE Draft(r) \/ RemoveRun(r) \/ Release(r)
    BY <1>2, RunWrites DEF Attested, Keeps, SignedOff
  <1>3. ASSUME NEW h \in Requests, CalculateCommit(h, r)
        PROVE  Attested(r)'
    BY <1>3, RunWrites DEF Attested, SignedOff
  <1>4. ASSUME NEW h \in Requests, InputCommit(h)
        PROVE  Attested(r)'
    <2>1. signed' = signed
      BY <1>4 DEF InputCommit
    <2>2. QED
      BY <1>4, <2>1, RunWrites DEF Attested, SignedOff
  <1>5. ASSUME NEW h \in Requests, op[h].run = r, TransitionCommit(h)
        PROVE  Attested(r)'
    <2>1. row[r] = op[h].row /\ op[h].kind = "transition"
      BY <1>5, WritesOnRead
    <2>2. op[h].action \in Actions
      BY <2>1, OpType DEF TypeOK
    <2>3. CASE op[h].action = "verify"
      BY <1>5, <2>1, <2>3, HandlerWrites, WritesOnRead DEF Attested
    <2>4. CASE op[h].action # "verify"
      <3>1. row[r].status \in SignedOff \cup {"VERIFIED"}
        BY <1>5, <2>2, <2>4, HandlerWrites DEF From, Actions, SignedOff
      <3>2. QED
        BY <1>5, <2>4, <3>1, HandlerWrites, WritesOnRead DEF Attested
    <2>5. QED
      BY <2>3, <2>4
  <1>6. ASSUME NEW h \in Requests, op[h].run = r, AdjustCommit(h)
        PROVE  Attested(r)'
    <2>1. row[r] = op[h].row
      BY <1>6, WritesOnRead
    <2>2. QED
      BY <1>6, <2>1, HandlerWrites DEF Attested, SignedOff, SignOffDropped, Editable
  <1>7. ASSUME NEW h \in Requests, op[h].run = r, Refuse(h) \/ UnlockCommit(h)
        PROVE  Attested(r)'
    BY <1>7, HandlerWrites DEF Attested, SignedOff
  <1>8. ASSUME NEW h \in Requests, op[h].run = r,
               EffectsMark(h) \/ EffectsFail(h) \/ HoldCommit(h)
        PROVE  Attested(r)'
    BY <1>8, HandlerWrites, WritesOnRead DEF Attested, SignedOff, Keeps
  <1>9. QED
    BY <1>1, <1>2, <1>3, <1>4, <1>5, <1>6, <1>7, <1>8, RunStep

\* A verified payslip carries the figures its verifier saw until it is paid:
\* recalculating or editing it drops the verification (calculate, adjust).
THEOREM FiguresAreTheVerified == Spec => []SignedFigures
  <1>1. Init => SignedFigures
    BY DEF Init, SignedFigures, With, NewRun, SignedOff
  <1>2. TypeOK /\ AllChecked /\ SignedFigures /\ [Next]_vars => SignedFigures'
    <2> SUFFICES ASSUME TypeOK, AllChecked, SignedFigures, [Next]_vars,
                        races' \cap {"adjust", "transition"} = {}, NEW r \in Runs
                 PROVE  Attested(r)'
      BY DEF SignedFigures, Attested, With
    <2>1. Attested(r)
      BY RacesGrow DEF SignedFigures, Attested, With
    <2>2. QED
      BY <2>1, AttestedStep
  <1>3. QED
    BY <1>1, <1>2, TypeCorrect, AlwaysChecked, PTL DEF Spec

-----------------------------------------------------------------------------
(* The figures of the month's records *)

\* The windows in which figures and records part.
FigureWindows == {"calculate", "adjust", "transition", "input"}

\* Inductive: a run that may still be locked is either marked or up to date.
Current(r) ==
    row[r].status \in Final \/ (row[r].status \in Open /\ ~row[r].stale) =>
        row[r].slip.rev = inputs[PeriodOf[r]]

AllCurrent == races \cap FigureWindows = {} => \A r \in Runs : Current(r)

LEMMA CurrentStep ==
    ASSUME TypeOK, AllChecked, [Next]_vars, NEW r \in Runs, Current(r),
           races' \cap FigureWindows = {}
    PROVE  Current(r)'
  <1>1. CASE row'[r] = row[r] /\ inputs'[PeriodOf[r]] = inputs[PeriodOf[r]]
    BY <1>1 DEF Current
  <1>2. CASE Draft(r) \/ RemoveRun(r) \/ Release(r)
    BY <1>2, RunWrites DEF Current, Keeps, Final, Open
  <1>3. ASSUME NEW h \in Requests, CalculateCommit(h, r)
        PROVE  Current(r)'
    <2> DEFINE o == op[h]
    <2>1. /\ inputs' = inputs /\ inputs[o.period] = o.slip.rev
          /\ o.kind = "calculate" /\ o.run \in {r, NoRun}
          /\ o.run = NoRun => PeriodOf[r] = o.period
      BY <1>3, WritesOnRead DEF FigureWindows
    <2>2. PeriodOf[r] = o.period
      BY <2>1, PayrollAssumption DEF AllChecked, Checked
    <2>3. QED
      BY <1>3, <2>1, <2>2, RunWrites DEF Current
  <1>4. ASSUME NEW h \in Requests, InputCommit(h)
        PROVE  Current(r)'
    <2>1. CASE PeriodOf[r] # op[h].period
      <3>1. inputs'[PeriodOf[r]] = inputs[PeriodOf[r]]
        BY <1>4, <2>1, PayrollAssumption DEF InputCommit, TypeOK
      <3>2. QED
        BY <1>4, <2>1, <3>1, InputRow DEF Current
    <2>2. CASE PeriodOf[r] = op[h].period /\ row[r].status \in Final
      <3>1. r \in RunsOf(op[h].period)
        BY <2>2 DEF RunsOf, Final
      <3>2. "input" \in races'
        BY <1>4, <2>2, <3>1 DEF InputCommit, Fell
      <3>3. QED
        BY <3>2 DEF FigureWindows
    <2>3. CASE PeriodOf[r] = op[h].period /\ row[r].status \notin Final
      BY <1>4, <2>3, InputRow DEF Current, Final
    <2>4. QED
      BY <2>1, <2>2, <2>3
  <1>5. ASSUME NEW h \in Requests, op[h].run = r, TransitionCommit(h)
        PROVE  Current(r)'
    <2>1. row[r] = op[h].row /\ op[h].kind = "transition" /\ inputs' = inputs
      BY <1>5, WritesOnRead DEF FigureWindows
    <2>2. op[h].action \in Actions /\ ~row[r].stale
      BY <2>1, OpType DEF TypeOK, AllChecked, Checked
    <2>3. row[r].status \in Open \cup Final
      BY <1>5, <2>2, HandlerWrites DEF From, Actions, Open, Final
    <2>4. QED
      BY <1>5, <2>1, <2>2, <2>3, HandlerWrites DEF Current
  <1>6. ASSUME NEW h \in Requests, op[h].run = r, AdjustCommit(h)
        PROVE  Current(r)'
    <2> DEFINE o == op[h]
    <2>1. /\ row[r] = o.row /\ o.kind = "adjust" /\ inputs' = inputs
          /\ o.recalculated => inputs[PeriodOf[r]] = o.slip.rev
      BY <1>6, WritesOnRead DEF FigureWindows
    <2>2. o.recalculated \/ o.slip.rev = row[r].slip.rev
      BY <2>1 DEF AllChecked, Checked
    <2>3. /\ row[r].status \in Editable /\ row'[r].slip = o.slip
          /\ row'[r].status = SignOffDropped(o, row[r].status)
          /\ row'[r].stale <=> (row[r].stale /\ ~o.recalculated)
      BY <1>6, HandlerWrites
    <2>4. row'[r].status \in Open => row[r].status \in Open
      BY <2>1, <2>3 DEF SignOffDropped, Editable, Open
    <2>5. row'[r].status \notin Final
      BY <2>3 DEF SignOffDropped, Editable, Final
    <2>6. QED
      BY <2>1, <2>2, <2>3, <2>4, <2>5 DEF Current
  <1>7. ASSUME NEW h \in Requests, op[h].run = r, UnlockCommit(h)
        PROVE  Current(r)'
    <2>1. row[r].status \in Final /\ inputs' = inputs
      BY <1>7, WritesOnRead, HandlerWrites DEF AllChecked, Checked
    <2>2. QED
      BY <1>7, <2>1, HandlerWrites DEF Current
  <1>8. ASSUME NEW h \in Requests, op[h].run = r,
               Refuse(h) \/ EffectsMark(h) \/ EffectsFail(h) \/ HoldCommit(h)
        PROVE  Current(r)'
    BY <1>8, HandlerWrites, WritesOnRead DEF Current, Keeps, Final, Open
  <1>9. QED
    BY <1>1, <1>2, <1>3, <1>4, <1>5, <1>6, <1>7, <1>8, RunStep

\* A locked payslip is the one the month's records give: a change of attendance,
\* leave or overtime either is refused or reaches the run before it locks
\* (assertPayrollMonthsUnlocked, markPayrollInputsChanged, inputs_changed).
THEOREM LockedRunsAreCurrent == Spec => []LockedIsCurrent
  <1>1. Init => AllCurrent
    BY DEF Init, AllCurrent, Current, NewRun, Final, Open
  <1>2. TypeOK /\ AllChecked /\ AllCurrent /\ [Next]_vars => AllCurrent'
    <2> SUFFICES ASSUME TypeOK, AllChecked, AllCurrent, [Next]_vars,
                        races' \cap FigureWindows = {}, NEW r \in Runs
                 PROVE  Current(r)'
      BY DEF AllCurrent, FigureWindows
    <2>1. Current(r)
      BY RacesGrow DEF AllCurrent
    <2>2. QED
      BY <2>1, CurrentStep
  <1>3. AllCurrent => LockedIsCurrent
    BY DEF AllCurrent, Current, LockedIsCurrent, FigureWindows, With
  <1>4. QED
    BY <1>1, <1>2, <1>3, TypeCorrect, AlwaysChecked, PTL DEF Spec
=============================================================================
