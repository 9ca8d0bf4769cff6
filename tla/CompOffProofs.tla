---------------------------- MODULE CompOffProofs ----------------------------
(****************************************************************************)
(* What CompOff promises of every single credit, of every worked day and of *)
(* the days that leaves take and hold, for any number of credits, leaves,   *)
(* handlers and days.                                                       *)
(*                                                                          *)
(* A handler in flight carries updates that stay within what was earned, a  *)
(* row that exists keeps its earned days and its expiry, and the compare-   *)
(* and-swap makes the carried `from' the row's daysAvailed at the moment    *)
(* the status computed from it is written.                                  *)
(*                                                                          *)
(* A total is the cardinality of a set of half days, so that two tables     *)
(* that add up entry by entry have totals that add up.  What an approval    *)
(* carries weighs as much as its leave, what a cancellation carries no more *)
(* than that; and what an application has read errs to nobody's favour.     *)
(****************************************************************************)
EXTENDS CompOff, FiniteSetTheorems, TLAPS

\* A row of the table: it adds up, and it is worth something once it exists.
Sound(r) == r \in CreditRows /\ AddsUp(r) /\ (r.status # "NONE" => r.earned > 0)

\* What a write never changes of a row that exists.
Kept(r, q) ==
    r.status # "NONE" =>
        q.status # "NONE" /\ q.earned = r.earned /\ q.expiry = r.expiry

\* What a handler carries is within what the rows it touches were worth.
Carries(o) ==
    /\ o.kind = "approve" =>
          /\ o.since <= today
          /\ \A c \in Touched(o.updates) :
                /\ credit[c].status # "NONE"
                /\ o.updates[c].from < o.updates[c].to
                /\ o.updates[c].to <= credit[c].earned
                /\ credit[c].expiry >= o.since
    /\ o.kind = "cancel" =>
          \A c \in Touched(o.updates) :
                /\ credit[c].status # "NONE"
                /\ o.updates[c].to < o.updates[c].from
                /\ o.updates[c].from <= credit[c].earned

IInv ==
    /\ TypeOK
    /\ \A c \in Credits : Sound(credit[c])
    /\ \A h \in Requests : Carries(op[h])

-----------------------------------------------------------------------------
(* Rows *)

\* EarnCommit and OvertimeCommit insert a sound row.
LEMMA NewCreditSound ==
    ASSUME NEW s \in {"PENDING", "APPROVED"}, NEW d \in Days, NEW n \in Earnings,
           NEW e \in ExpiryDays
    PROVE  Sound(NewCredit(s, d, n, e)) /\ NewCredit(s, d, n, e).day = d
  <1>1. n \in Nat /\ n > 0 /\ LastDay \in Nat /\ e \in 0..LastDay /\ d \in 0..LastDay
    BY CompOffAssumption DEF Days
  <1>2. (IF e = 0 THEN Never ELSE d + e) \in 0..Never
    BY <1>1 DEF Never
  <1>3. QED
    BY <1>1, <1>2 DEF NewCredit, Sound, CreditRows, CreditStatuses, AddsUp

\* Inserting one row into the table.
LEMMA Inserted ==
    ASSUME IInv, NEW c \in Credits, credit[c].status = "NONE",
           NEW r, Sound(r), credit' = [credit EXCEPT ![c] = r]
    PROVE  /\ credit' \in [Credits -> CreditRows]
           /\ \A x \in Credits : Sound(credit'[x]) /\ Kept(credit[x], credit'[x])
  BY DEF IInv, TypeOK, Sound, Kept

\* Rewriting the status of one row.
LEMMA Decided ==
    ASSUME IInv, NEW c \in Credits, credit[c].status \in {"PENDING", "APPROVED"},
           NEW s \in {"APPROVED", "REJECTED"},
           credit' = [credit EXCEPT ![c].status = s]
    PROVE  /\ credit' \in [Credits -> CreditRows]
           /\ \A x \in Credits : Sound(credit'[x]) /\ Kept(credit[x], credit'[x])
  <1>1. credit[c] \in CreditRows /\ Sound(credit[c])
    BY DEF IInv, TypeOK
  <1>2. Sound([credit[c] EXCEPT !.status = s]) /\ Kept(credit[c], [credit[c] EXCEPT !.status = s])
    BY <1>1 DEF Sound, AddsUp, Kept, CreditRows, CreditStatuses
  <1>3. credit' = [credit EXCEPT ![c] = [credit[c] EXCEPT !.status = s]]
    OBVIOUS
  <1>4. QED
    BY <1>2, <1>3 DEF IInv, TypeOK, Sound, Kept

\* A sweep expires only rows that have something left.
LEMMA SweptSound ==
    ASSUME IInv
    PROVE  /\ Swept \in [Credits -> CreditRows]
           /\ \A c \in Credits :
                 /\ Sound(Swept[c]) /\ Kept(credit[c], Swept[c])
                 /\ Swept[c].availed = credit[c].availed
                 /\ Swept[c].day = credit[c].day
                 /\ Swept[c].status \in {"NONE", "REJECTED"} <=>
                        credit[c].status \in {"NONE", "REJECTED"}
  <1>1. SUFFICES ASSUME NEW c \in Credits
                 PROVE  /\ Sound(Swept[c]) /\ Kept(credit[c], Swept[c])
                        /\ Swept[c].availed = credit[c].availed
                        /\ Swept[c].day = credit[c].day
                        /\ Swept[c].status \in {"NONE", "REJECTED"} <=>
                               credit[c].status \in {"NONE", "REJECTED"}
    BY DEF Swept, Sound
  <1>2. credit[c] \in CreditRows /\ Sound(credit[c])
    BY DEF IInv, TypeOK
  <1>3. CASE c \in Consumable /\ credit[c].expiry < today
    <2>1. Swept[c] = [credit[c] EXCEPT !.status = "EXPIRED"]
      BY <1>3 DEF Swept
    <2>2. credit[c].status \in {"APPROVED", "PARTIALLY_AVAILED"}
      BY <1>3 DEF Consumable, CreditsWith
    <2>3. QED
      BY <1>2, <2>1, <2>2 DEF Sound, AddsUp, Kept, CreditRows, CreditStatuses
  <1>4. CASE ~(c \in Consumable /\ credit[c].expiry < today)
    BY <1>2, <1>4 DEF Swept, Kept
  <1>5. QED
    BY <1>3, <1>4

\* What an approval may be about to consume.
LEMMA ConsumptionsSound ==
    ASSUME IInv, NEW n \in Nat, NEW u \in Consumptions(n)
    PROVE  /\ u \in UpdateSets
           /\ \A c \in Touched(u) :
                 /\ credit[c].status # "NONE" /\ u[c].from < u[c].to
                 /\ u[c].to <= credit[c].earned /\ credit[c].expiry >= today
  <1> DEFINE room == [c \in ValidOn(today) |-> Unconsumed(c)]
  <1>1. PICK t \in Spread(room, Expiry, n) : u = Updates(t, 1)
    BY DEF Consumptions
  <1>2. t \in [ValidOn(today) -> 0..n] /\ \A c \in ValidOn(today) : t[c] <= room[c]
    BY DEF Spread, Fits
  <1>3. ASSUME NEW c \in Credits
        PROVE  /\ u[c] \in [from: Nat, to: Nat]
               /\ c \in Touched(u) =>
                    /\ credit[c].status # "NONE" /\ u[c].from < u[c].to
                    /\ u[c].to <= credit[c].earned /\ credit[c].expiry >= today
    <2>1. credit[c].availed \in Nat /\ credit[c].earned \in Nat
      BY DEF IInv, TypeOK, CreditRows
    <2>2. CASE c \in ValidOn(today) /\ t[c] > 0
      <3>1. t[c] \in Nat /\ t[c] <= credit[c].earned - credit[c].availed
        BY <1>2, <2>2 DEF Unconsumed
      <3>2. u[c] = [from |-> credit[c].availed, to |-> credit[c].availed + t[c]]
        <4>1. 1 * t[c] = t[c]
          BY <3>1
        <4>2. QED
          BY <1>1, <1>2, <2>2, <4>1 DEF Updates
      <3>3. credit[c].status # "NONE" /\ credit[c].expiry >= today
        BY <2>2 DEF ValidOn, Consumable, CreditsWith
      <3>4. QED
        BY <2>1, <2>2, <3>1, <3>2, <3>3
    <2>3. CASE ~(c \in ValidOn(today) /\ t[c] > 0)
      <3>1. u[c] = Untouched
        BY <1>1, <1>2, <2>3 DEF Updates
      <3>2. QED
        BY <3>1 DEF Untouched, Touched
    <2>4. QED
      BY <2>2, <2>3
  <1>4. u = [c \in Credits |-> u[c]]
    BY <1>1 DEF Updates
  <1>5. QED
    BY <1>3, <1>4 DEF UpdateSets, Touched

\* What a cancellation may be about to give back.
LEMMA ReleasesSound ==
    ASSUME IInv, NEW n \in Nat, NEW u \in Releases(n)
    PROVE  /\ u \in UpdateSets
           /\ \A c \in Touched(u) :
                 /\ credit[c].status # "NONE" /\ u[c].to < u[c].from
                 /\ u[c].from <= credit[c].earned
  <1> DEFINE S == Consumable \cup CreditsWith({"AVAILED"})
             room == [c \in S |-> credit[c].availed]
  <1>1. PICK t \in Spread(room, Latest, n) : u = Updates(t, -1)
    BY DEF Releases
  <1>2. t \in [S -> 0..n] /\ \A c \in S : t[c] <= room[c]
    BY DEF Spread, Fits
  <1>3. ASSUME NEW c \in Credits
        PROVE  /\ u[c] \in [from: Nat, to: Nat]
               /\ c \in Touched(u) =>
                    /\ credit[c].status # "NONE" /\ u[c].to < u[c].from
                    /\ u[c].from <= credit[c].earned
    <2>1. credit[c].availed \in Nat /\ credit[c].earned \in Nat
          /\ credit[c].availed <= credit[c].earned
      BY DEF IInv, TypeOK, CreditRows, Sound, AddsUp
    <2>2. CASE c \in S /\ t[c] > 0
      <3>1. t[c] \in Nat /\ t[c] <= credit[c].availed
        <4>1. room[c] = credit[c].availed
          BY <2>2
        <4>2. t[c] \in 0..n /\ t[c] <= room[c]
          BY <1>2, <2>2
        <4>3. QED
          BY <4>1, <4>2
      <3>2. u[c] = [from |-> credit[c].availed, to |-> credit[c].availed - t[c]]
        <4>1. credit[c].availed + (-1) * t[c] = credit[c].availed - t[c]
          BY <2>1, <3>1
        <4>2. QED
          BY <1>1, <1>2, <2>2, <4>1 DEF Updates
      <3>3. credit[c].status # "NONE"
        BY <2>2 DEF Consumable, CreditsWith
      <3>4. QED
        BY <2>1, <2>2, <3>1, <3>2, <3>3
    <2>3. CASE ~(c \in S /\ t[c] > 0)
      <3>1. u[c] = Untouched
        BY <1>1, <1>2, <2>3 DEF Updates
      <3>2. QED
        BY <3>1 DEF Untouched, Touched
    <2>4. QED
      BY <2>2, <2>3
  <1>4. u = [c \in Credits |-> u[c]]
    BY <1>1 DEF Updates
  <1>5. QED
    BY <1>3, <1>4 DEF UpdateSets, Touched

\* The write of an approval: the compare-and-swap held for every row it touches.
LEMMA ConsumeSound ==
    ASSUME IInv, NEW u \in UpdateSets, StillAsRead(u),
           \A c \in Touched(u) : /\ credit[c].status # "NONE" /\ u[c].from < u[c].to
                                 /\ u[c].to <= credit[c].earned
    PROVE  /\ Consume(u) \in [Credits -> CreditRows]
           /\ \A c \in Credits :
                 /\ Sound(Consume(u)[c]) /\ Kept(credit[c], Consume(u)[c])
                 /\ Consume(u)[c].day = credit[c].day
                 /\ c \notin Touched(u) => Consume(u)[c] = credit[c]
  <1>1. SUFFICES ASSUME NEW c \in Credits
                 PROVE  /\ Sound(Consume(u)[c]) /\ Kept(credit[c], Consume(u)[c])
                        /\ Consume(u)[c].day = credit[c].day
                        /\ c \notin Touched(u) => Consume(u)[c] = credit[c]
    BY DEF Consume, Sound
  <1>2. credit[c] \in CreditRows /\ Sound(credit[c])
    BY DEF IInv, TypeOK
  <1>3. CASE c \in Touched(u)
    <2>1. Consume(u)[c] = [credit[c] EXCEPT !.availed = u[c].to,
                                            !.status = StatusConsumed(c, u[c].to)]
      BY <1>3 DEF Consume
    <2>2. u[c].to \in Nat /\ u[c].to > 0 /\ u[c].to <= credit[c].earned
      BY <1>3 DEF UpdateSets
    <2>3. /\ Consume(u)[c].availed = u[c].to
          /\ Consume(u)[c].status = StatusConsumed(c, u[c].to)
          /\ Consume(u)[c].earned = credit[c].earned
          /\ Consume(u)[c].expiry = credit[c].expiry
          /\ Consume(u)[c].day = credit[c].day
          /\ Consume(u)[c] \in CreditRows
      BY <1>2, <2>1, <2>2 DEF CreditRows, CreditStatuses, StatusConsumed
    <2>4. credit[c].earned \in Nat /\ credit[c].status # "NONE"
      BY <1>2, <1>3 DEF CreditRows
    <2>5. QED
      BY <1>3, <2>2, <2>3, <2>4 DEF Sound, AddsUp, Kept, StatusConsumed
  <1>4. CASE c \notin Touched(u)
    BY <1>2, <1>4 DEF Consume, Kept
  <1>5. QED
    BY <1>3, <1>4

\* The write of a cancellation.
LEMMA ReleaseSound ==
    ASSUME IInv, NEW u \in UpdateSets, StillAsRead(u),
           \A c \in Touched(u) : /\ credit[c].status # "NONE" /\ u[c].to < u[c].from
                                 /\ u[c].from <= credit[c].earned
    PROVE  /\ Release(u) \in [Credits -> CreditRows]
           /\ \A c \in Credits :
                 /\ Sound(Release(u)[c]) /\ Kept(credit[c], Release(u)[c])
                 /\ Release(u)[c].day = credit[c].day
                 /\ Release(u)[c].availed <= credit[c].availed
                 /\ c \notin Touched(u) => Release(u)[c] = credit[c]
  <1>1. SUFFICES ASSUME NEW c \in Credits
                 PROVE  /\ Sound(Release(u)[c]) /\ Kept(credit[c], Release(u)[c])
                        /\ Release(u)[c].day = credit[c].day
                        /\ Release(u)[c].availed <= credit[c].availed
                        /\ c \notin Touched(u) => Release(u)[c] = credit[c]
    BY DEF Release, Sound
  <1>2. credit[c] \in CreditRows /\ Sound(credit[c])
    BY DEF IInv, TypeOK
  <1>3. CASE c \in Touched(u)
    <2>1. Release(u)[c] = [credit[c] EXCEPT !.availed = u[c].to,
                                            !.status = StatusReleased(u[c].to)]
      BY <1>3 DEF Release
    <2>2. /\ u[c].to \in Nat /\ u[c].to < credit[c].earned
          /\ u[c].from = credit[c].availed /\ u[c].to < u[c].from
          /\ credit[c].earned \in Nat /\ u[c].from \in Nat
      BY <1>2, <1>3 DEF UpdateSets, StillAsRead, CreditRows
    <2>3. /\ Release(u)[c].availed = u[c].to
          /\ Release(u)[c].status = StatusReleased(u[c].to)
          /\ Release(u)[c].earned = credit[c].earned
          /\ Release(u)[c].expiry = credit[c].expiry
          /\ Release(u)[c].day = credit[c].day
          /\ Release(u)[c] \in CreditRows
      BY <1>2, <2>1, <2>2 DEF CreditRows, CreditStatuses, StatusReleased
    <2>4. credit[c].status # "NONE"
      BY <1>3
    <2>5. QED
      BY <1>3, <2>2, <2>3, <2>4 DEF Sound, AddsUp, Kept, StatusReleased
  <1>4. CASE c \notin Touched(u)
    BY <1>2, <1>4 DEF Release, Kept, CreditRows
  <1>5. QED
    BY <1>3, <1>4

-----------------------------------------------------------------------------
(* Handlers *)

\* What each handler carries.
LEMMA OpType ==
    ASSUME IInv, NEW h \in Requests
    PROVE  /\ op[h].kind \in {"earn", "log", "overtime"} => op[h].day \in Days
           /\ op[h].kind \in {"balanceFirst", "holdsFirst"} =>
                 /\ op[h].leave \in Leaves /\ op[h].days \in LeaveDays
                 /\ op[h].start \in Days
           /\ op[h].kind \in {"approve", "cancel"} =>
                 op[h].leave \in Leaves /\ op[h].updates \in UpdateSets
           /\ op[h].kind = "approve" => op[h].since \in Days
  <1>1. op[h] \in Ops
    BY DEF IInv, TypeOK
  <1>2. QED
    BY <1>1 DEF Ops, Idle, DayOps, ApplyOps, LeaveOps

\* A handler that starts, or ends, leaves the others alone.
LEMMA OpWritten ==
    ASSUME IInv, NEW h \in Requests, NEW o \in Ops, op' = [op EXCEPT ![h] = o]
    PROVE  /\ op' \in [Requests -> Ops]
           /\ \A g \in Requests : op'[g] = op[g] \/ (g = h /\ op'[g] = o)
  BY DEF IInv, TypeOK

\* Nothing that another handler writes spoils what this one carries.
LEMMA StillCarries ==
    ASSUME IInv, today' \in Days, today <= today',
           \A c \in Credits : Kept(credit[c], credit'[c]),
           NEW h \in Requests, op'[h] = op[h]
    PROVE  Carries(op[h])'
  <1>1. Carries(op[h]) /\ today \in Int /\ today' \in Int
    BY CompOffAssumption DEF IInv, TypeOK, Days
  <1>2. op[h].kind = "approve" => op[h].since \in Int
    BY OpType, CompOffAssumption DEF Days
  <1>3. \A u : Touched(u) \subseteq Credits
    BY DEF Touched
  <1>4. QED
    BY <1>1, <1>2, <1>3 DEF Carries, Kept, Touched

\* A handler that does not decide about a leave carries nothing.
LEMMA CarriesNothing ==
    ASSUME NEW o, o.kind \notin {"approve", "cancel"}
    PROVE  Carries(o)
  BY DEF Carries

\* What an action has to establish for the invariant to survive it.
LEMMA Survives ==
    ASSUME IInv,
           credit' \in [Credits -> CreditRows],
           \A c \in Credits : Sound(credit'[c]) /\ Kept(credit[c], credit'[c]),
           leave' \in [Leaves -> LeaveRows],
           overtime' \in [Days -> OvertimeStatuses],
           today' \in Days, today <= today',
           races' \subseteq Windows,
           op' \in [Requests -> Ops],
           \A h \in Requests : op'[h] = op[h] \/ Carries(op[h])'
    PROVE  IInv'
  <1>1. TypeOK'
    BY DEF TypeOK
  <1>2. (\A c \in Credits : Sound(credit[c]))'
    BY DEF Sound, AddsUp
  <1>3. (\A h \in Requests : Carries(op[h]))'
    <2>1. ASSUME NEW h \in Requests PROVE Carries(op[h])'
      BY <2>1, StillCarries
    <2>2. QED
      BY <2>1
  <1>4. QED
    BY <1>1, <1>2, <1>3 DEF IInv

\* The table as it is satisfies what Survives asks of it.
LEMMA Unwritten ==
    ASSUME IInv, credit' = credit
    PROVE  /\ credit' \in [Credits -> CreditRows]
           /\ \A c \in Credits : Sound(credit'[c]) /\ Kept(credit[c], credit'[c])
  BY DEF IInv, TypeOK, Kept

\* Bounds of the dates, for the arithmetic of NextDay and the handlers' since.
LEMMA Today ==
    ASSUME IInv
    PROVE  today \in Nat /\ today <= today /\ today <= LastDay /\ LastDay \in Nat
  BY CompOffAssumption DEF IInv, TypeOK, Days

-----------------------------------------------------------------------------
(* The invariant *)

\* Nothing exists at first.
LEMMA InitSound == Init => IInv
  <1> SUFFICES ASSUME Init PROVE IInv
    OBVIOUS
  <1>1. LastDay \in Nat /\ 0 \in Days /\ 0 \in 0..Never
    BY CompOffAssumption DEF Days, Never
  <1>2. TypeOK
    BY <1>1 DEF Init, TypeOK, CreditRows, CreditStatuses, LeaveRows, LeaveStatuses,
                OvertimeStatuses, Ops, Windows
  <1>3. \A c \in Credits : Sound(credit[c])
    BY <1>1 DEF Init, Sound, AddsUp, CreditRows, CreditStatuses
  <1>4. \A h \in Requests : Carries(op[h])
    BY CarriesNothing DEF Init, Idle
  <1>5. QED
    BY <1>2, <1>3, <1>4 DEF IInv

\* A step that writes no credit, lets no day pass and has no handler carry
\* anything new.
LEMMA QuietStep ==
    ASSUME IInv, UNCHANGED <<credit, today>>,
           leave' \in [Leaves -> LeaveRows],
           overtime' \in [Days -> OvertimeStatuses],
           races' \subseteq Windows,
           op' \in [Requests -> Ops],
           \A h \in Requests : op'[h] = op[h] \/ Carries(op[h])'
    PROVE  IInv'
  <1>1. today' \in Days /\ today <= today'
    BY Today DEF IInv, TypeOK
  <1>2. QED
    BY <1>1, Unwritten, Survives

\* A handler that reads for a claim of a day.
LEMMA ClaimReadStep ==
    ASSUME IInv, NEW h \in Requests, NEW d \in Days,
           EarnRead(h, d) \/ LogRead(h, d) \/ OvertimeRead(h, d)
    PROVE  IInv'
  <1>1. PICK k \in {"earn", "log", "overtime"} :
           op' = [op EXCEPT ![h] = [kind |-> k, day |-> d]]
    BY DEF EarnRead, LogRead, OvertimeRead, Start
  <1>2. [kind |-> k, day |-> d] \in Ops
    BY DEF Ops, DayOps
  <1>3. op' \in [Requests -> Ops]
        /\ \A g \in Requests : op'[g] = op[g] \/ Carries(op[g])'
    BY <1>1, <1>2, OpWritten, CarriesNothing DEF Carries
  <1>4. UNCHANGED <<credit, leave, overtime, today, races>>
    BY DEF EarnRead, LogRead, OvertimeRead
  <1>5. QED
    BY <1>3, <1>4, QuietStep DEF IInv, TypeOK

\* A handler that ends.
LEMMA Finished ==
    ASSUME IInv, NEW h \in Requests, Finish(h)
    PROVE  /\ op' \in [Requests -> Ops]
           /\ \A g \in Requests : op'[g] = op[g] \/ Carries(op[g])'
  <1>1. Idle \in Ops
    BY DEF Ops
  <1>2. op' = [op EXCEPT ![h] = Idle]
    BY DEF Finish
  <1>3. QED
    BY <1>1, <1>2, OpWritten DEF Carries, Idle

\* A step may add a window to the history.
LEMMA FellType ==
    ASSUME IInv, NEW w \in Windows, NEW into, Fell(w, into)
    PROVE  races' \subseteq Windows
  BY DEF Fell, IInv, TypeOK

\* Inserting a credit: EarnCommit and OvertimeCommit.
LEMMA EarnCommitStep ==
    ASSUME IInv, NEW h \in Requests, NEW c \in Credits, NEW n \in Earnings,
           NEW e \in ExpiryDays, EarnCommit(h, c, n, e)
    PROVE  IInv'
  <1>1. op[h].day \in Days
    BY OpType DEF EarnCommit
  <1>2. Sound(NewCredit("PENDING", op[h].day, n, e))
    BY <1>1, NewCreditSound
  <1>3. credit' = [credit EXCEPT ![c] = NewCredit("PENDING", op[h].day, n, e)]
        /\ credit[c].status = "NONE"
    BY DEF EarnCommit
  <1>4. races' \subseteq Windows
    BY FellType DEF EarnCommit, Windows
  <1>5. today' \in Days /\ today <= today' /\ UNCHANGED <<leave, overtime>>
    BY Today DEF EarnCommit, IInv, TypeOK
  <1>6. op' \in [Requests -> Ops]
        /\ \A g \in Requests : op'[g] = op[g] \/ Carries(op[g])'
    BY Finished DEF EarnCommit
  <1>7. /\ credit' \in [Credits -> CreditRows]
        /\ \A x \in Credits : Sound(credit'[x]) /\ Kept(credit[x], credit'[x])
    BY <1>2, <1>3, Inserted
  <1>8. QED
    BY <1>4, <1>5, <1>6, <1>7, Survives DEF IInv, TypeOK

LEMMA OvertimeCommitStep ==
    ASSUME IInv, NEW h \in Requests, OvertimeCommit(h)
    PROVE  IInv'
  <1> DEFINE d == op[h].day
  <1>1. d \in Days
    BY OpType DEF OvertimeCommit
  <1>2. races' \subseteq Windows
    BY FellType DEF OvertimeCommit, Windows
  <1>3. today' \in Days /\ today <= today' /\ UNCHANGED leave
    BY Today DEF OvertimeCommit, IInv, TypeOK
  <1>4. op' \in [Requests -> Ops]
        /\ \A g \in Requests : op'[g] = op[g] \/ Carries(op[g])'
    BY Finished DEF OvertimeCommit
  <1>5. overtime' \in [Days -> OvertimeStatuses]
    BY DEF OvertimeCommit, IInv, TypeOK, OvertimeStatuses
  <1>6. /\ credit' \in [Credits -> CreditRows]
        /\ \A x \in Credits : Sound(credit'[x]) /\ Kept(credit[x], credit'[x])
    <2>1. CASE UNCHANGED credit
      BY <2>1, Unwritten
    <2>2. ASSUME NEW c \in Credits, NEW n \in Earnings, NEW e \in ExpiryDays,
                 credit[c].status = "NONE",
                 credit' = [credit EXCEPT ![c] = NewCredit("APPROVED", d, n, e)]
          PROVE  /\ credit' \in [Credits -> CreditRows]
                 /\ \A x \in Credits : Sound(credit'[x]) /\ Kept(credit[x], credit'[x])
      <3>1. Sound(NewCredit("APPROVED", d, n, e))
        BY <1>1, NewCreditSound
      <3>2. QED
        BY <2>2, <3>1, Inserted
    <2>3. QED
      BY <2>1, <2>2 DEF OvertimeCommit
  <1>7. QED
    BY <1>2, <1>3, <1>4, <1>5, <1>6, Survives DEF IInv, TypeOK

\* Steps that write only credits: review, cancel, sweep; and the date.
LEMMA CreditStep ==
    ASSUME IInv,
           \/ \E c \in Credits : Withdraw(c)
           \/ \E c \in Credits, s \in {"APPROVED", "REJECTED"} : Review(c, s)
           \/ Sweep
           \/ NextDay
    PROVE  IInv'
  <1>1. /\ leave' \in [Leaves -> LeaveRows] /\ overtime' \in [Days -> OvertimeStatuses]
        /\ op' \in [Requests -> Ops] /\ \A h \in Requests : op'[h] = op[h]
    BY DEF Withdraw, Review, Sweep, NextDay, IInv, TypeOK
  <1>2. races' \subseteq Windows
    <2>1. races' = races \/ (\E into : Fell("lapse", into))
      BY DEF Withdraw, Review, Sweep, NextDay
    <2>2. QED
      BY <2>1, FellType DEF Windows, IInv, TypeOK
  <1>3. today' \in Days /\ today <= today'
    <2>1. today' = today \/ (today < LastDay /\ today' = today + 1)
      BY DEF Withdraw, Review, Sweep, NextDay
    <2>2. QED
      BY <2>1, Today DEF Days
  <1>4. /\ credit' \in [Credits -> CreditRows]
        /\ \A x \in Credits : Sound(credit'[x]) /\ Kept(credit[x], credit'[x])
    <2>1. ASSUME NEW c \in Credits, Withdraw(c)
          PROVE  /\ credit' \in [Credits -> CreditRows]
                 /\ \A x \in Credits : Sound(credit'[x]) /\ Kept(credit[x], credit'[x])
      BY <2>1, Decided DEF Withdraw
    <2>2. ASSUME NEW c \in Credits, NEW s \in {"APPROVED", "REJECTED"}, Review(c, s)
          PROVE  /\ credit' \in [Credits -> CreditRows]
                 /\ \A x \in Credits : Sound(credit'[x]) /\ Kept(credit[x], credit'[x])
      BY <2>2, Decided DEF Review
    <2>3. CASE Sweep
      BY <2>3, SweptSound DEF Sweep
    <2>4. CASE NextDay
      BY <2>4, Unwritten DEF NextDay
    <2>5. QED
      BY <2>1, <2>2, <2>3, <2>4
  <1>5. QED
    BY <1>1, <1>2, <1>3, <1>4, Survives

\* Steps that write neither credits nor the date, and start nothing.
LEMMA PlainStep ==
    ASSUME IInv,
           \/ \E h \in Requests : LogCommit(h) \/ GiveUp(h)
           \/ \E d \in Days : OvertimeReject(d)
           \/ \E l \in Leaves, s \in {"REJECTED", "RETURNED"} : Decline(l, s)
    PROVE  IInv'
  <1>1. op' \in [Requests -> Ops] /\ \A g \in Requests : op'[g] = op[g] \/ Carries(op[g])'
    <2>1. ASSUME NEW h \in Requests, LogCommit(h) \/ GiveUp(h)
          PROVE  /\ op' \in [Requests -> Ops]
                 /\ \A g \in Requests : op'[g] = op[g] \/ Carries(op[g])'
      BY <2>1, Finished DEF LogCommit, GiveUp
    <2>2. CASE UNCHANGED op
      BY <2>2 DEF IInv, TypeOK
    <2>3. QED
      BY <2>1, <2>2 DEF OvertimeReject, Decline
  <1>2. UNCHANGED <<credit, today, races>>
    BY DEF LogCommit, GiveUp, OvertimeReject, Decline
  <1>3. overtime' \in [Days -> OvertimeStatuses]
    BY DEF LogCommit, GiveUp, OvertimeReject, Decline, IInv, TypeOK, OvertimeStatuses
  <1>4. leave' \in [Leaves -> LeaveRows]
    BY DEF LogCommit, GiveUp, OvertimeReject, Decline, IInv, TypeOK, LeaveRows, LeaveStatuses
  <1>5. QED
    BY <1>1, <1>2, <1>3, <1>4, QuietStep DEF IInv, TypeOK

\* Both orders of the two reads of an application.
LEMMA ApplyReadStep ==
    ASSUME IInv, NEW h \in Requests, NEW l \in Leaves, NEW n \in LeaveDays,
           NEW s \in StartDays, ApplyRead(h, l, n, s)
    PROVE  IInv'
  <1>1. s \in Days
    BY CompOffAssumption
  <1>2. FreeOn(s) \in [Credits -> Int]
    BY DEF FreeOn, Unconsumed, IInv, TypeOK, CreditRows
  <1>3. DaysOf("PENDING") \in [Leaves -> Nat]
    BY DEF DaysOf, IInv, TypeOK, LeaveRows
  <1>4. PICK o \in ApplyOps : Start(h, o) /\ o.kind \in {"balanceFirst", "holdsFirst"}
    BY <1>1, <1>2, <1>3 DEF ApplyRead, ApplyOps
  <1>5. op' \in [Requests -> Ops] /\ \A g \in Requests : op'[g] = op[g] \/ Carries(op[g])'
    BY <1>4, OpWritten DEF Start, Ops, Carries
  <1>6. /\ credit' \in [Credits -> CreditRows]
        /\ \A x \in Credits : Sound(credit'[x]) /\ Kept(credit[x], credit'[x])
    BY SweptSound, Unwritten DEF ApplyRead
  <1>7. today' \in Days /\ today <= today' /\ UNCHANGED <<leave, overtime, races>>
    BY Today DEF ApplyRead, IInv, TypeOK
  <1>8. QED
    BY <1>5, <1>6, <1>7, Survives DEF IInv, TypeOK

LEMMA ApplyCommitStep ==
    ASSUME IInv, NEW h \in Requests, ApplyCommit(h)
    PROVE  IInv'
  <1>1. op[h].kind \in {"balanceFirst", "holdsFirst"}
    BY DEF ApplyCommit
  <1>2. op[h].leave \in Leaves /\ op[h].days \in Nat /\ op[h].start \in Days
    BY <1>1, OpType, CompOffAssumption
  <1>3. leave' \in [Leaves -> LeaveRows]
    BY <1>2 DEF ApplyCommit, IInv, TypeOK, LeaveRows, LeaveStatuses
  <1>4. op' \in [Requests -> Ops] /\ \A g \in Requests : op'[g] = op[g] \/ Carries(op[g])'
    BY Finished DEF ApplyCommit
  <1>5. /\ credit' \in [Credits -> CreditRows]
        /\ \A x \in Credits : Sound(credit'[x]) /\ Kept(credit[x], credit'[x])
    BY SweptSound, Unwritten DEF ApplyCommit
  <1>6. today' \in Days /\ today <= today' /\ UNCHANGED <<overtime, races>>
    BY Today DEF ApplyCommit, IInv, TypeOK
  <1>7. QED
    BY <1>3, <1>4, <1>5, <1>6, Survives DEF IInv, TypeOK

\* An approval that has read the credits carries a consumption of valid ones.
LEMMA ApproveReadStep ==
    ASSUME IInv, NEW h \in Requests, NEW l \in Leaves, ApproveRead(h, l)
    PROVE  IInv'
  <1>1. leave[l].days \in Nat
    BY DEF IInv, TypeOK, LeaveRows
  <1> DEFINE O(u) == [kind |-> "approve", leave |-> l, updates |-> u, since |-> today]
  <1>2. PICK u \in Consumptions(leave[l].days) : op' = [op EXCEPT ![h] = O(u)]
    BY DEF ApproveRead, Start
  <1>3. /\ u \in UpdateSets
        /\ \A c \in Touched(u) :
              /\ credit[c].status # "NONE" /\ u[c].from < u[c].to
              /\ u[c].to <= credit[c].earned /\ credit[c].expiry >= today
    BY <1>1, ConsumptionsSound
  <1>4. UNCHANGED <<credit, leave, overtime, today, races>>
    BY DEF ApproveRead
  <1>5. O(u) \in Ops
    BY <1>3 DEF Ops, LeaveOps, IInv, TypeOK
  <1>6. op' \in [Requests -> Ops] /\ \A g \in Requests : op'[g] = op[g] \/ (g = h /\ op'[g] = O(u))
    BY <1>2, <1>5, OpWritten
  <1>7. ASSUME op'[h] = O(u) PROVE Carries(op[h])'
    BY <1>3, <1>4, <1>7, Today DEF Carries, Touched
  <1>8. QED
    BY <1>4, <1>6, <1>7, QuietStep DEF IInv, TypeOK

LEMMA ApproveCommitStep ==
    ASSUME IInv, NEW h \in Requests, ApproveCommit(h)
    PROVE  IInv'
  <1>1. op[h].leave \in Leaves /\ op[h].updates \in UpdateSets
    BY OpType DEF ApproveCommit
  <1>2. \A c \in Touched(op[h].updates) :
           /\ credit[c].status # "NONE" /\ op[h].updates[c].from < op[h].updates[c].to
           /\ op[h].updates[c].to <= credit[c].earned
    BY DEF IInv, Carries, ApproveCommit
  <1>3. leave' \in [Leaves -> LeaveRows]
    BY <1>1 DEF ApproveCommit, IInv, TypeOK, LeaveRows, LeaveStatuses
  <1>4. op' \in [Requests -> Ops] /\ \A g \in Requests : op'[g] = op[g] \/ Carries(op[g])'
    BY Finished DEF ApproveCommit
  <1>5. /\ credit' \in [Credits -> CreditRows]
        /\ \A x \in Credits : Sound(credit'[x]) /\ Kept(credit[x], credit'[x])
    BY <1>1, <1>2, ConsumeSound DEF ApproveCommit
  <1>6. today' \in Days /\ today <= today' /\ UNCHANGED overtime
    BY Today DEF ApproveCommit, IInv, TypeOK
  <1>7. races' \subseteq Windows
    BY DEF ApproveCommit, Windows, IInv, TypeOK
  <1>8. QED
    BY <1>3, <1>4, <1>5, <1>6, <1>7, Survives DEF IInv, TypeOK

LEMMA CancelReadStep ==
    ASSUME IInv, NEW h \in Requests, NEW l \in Leaves, CancelRead(h, l)
    PROVE  IInv'
  <1>1. leave[l].days \in Nat
    BY DEF IInv, TypeOK, LeaveRows
  <1> DEFINE O(u) == [kind |-> "cancel", leave |-> l, updates |-> u]
  <1>2. PICK u : /\ u \in Releases(leave[l].days) \/ u = NoUpdates
                 /\ op' = [op EXCEPT ![h] = O(u)]
    BY DEF CancelRead, Start
  <1>3. /\ u \in UpdateSets
        /\ \A c \in Touched(u) :
              /\ credit[c].status # "NONE" /\ u[c].to < u[c].from
              /\ u[c].from <= credit[c].earned
    <2>1. CASE u \in Releases(leave[l].days)
      BY <1>1, <2>1, ReleasesSound
    <2>2. CASE u = NoUpdates
      BY <2>2 DEF NoUpdates, Untouched, UpdateSets, Touched
    <2>3. QED
      BY <1>2, <2>1, <2>2
  <1>4. UNCHANGED <<credit, leave, overtime, today, races>>
    BY DEF CancelRead
  <1>5. O(u) \in Ops
    BY <1>3 DEF Ops, LeaveOps
  <1>6. op' \in [Requests -> Ops] /\ \A g \in Requests : op'[g] = op[g] \/ (g = h /\ op'[g] = O(u))
    BY <1>2, <1>5, OpWritten
  <1>7. ASSUME op'[h] = O(u) PROVE Carries(op[h])'
    BY <1>3, <1>4, <1>7 DEF Carries, Touched
  <1>8. QED
    BY <1>4, <1>6, <1>7, QuietStep DEF IInv, TypeOK

LEMMA CancelCommitStep ==
    ASSUME IInv, NEW h \in Requests, CancelCommit(h)
    PROVE  IInv'
  <1>1. op[h].leave \in Leaves /\ op[h].updates \in UpdateSets
    BY OpType DEF CancelCommit
  <1>2. \A c \in Touched(op[h].updates) :
           /\ credit[c].status # "NONE" /\ op[h].updates[c].to < op[h].updates[c].from
           /\ op[h].updates[c].from <= credit[c].earned
    BY DEF IInv, Carries, CancelCommit
  <1>3. leave' \in [Leaves -> LeaveRows]
    BY <1>1 DEF CancelCommit, IInv, TypeOK, LeaveRows, LeaveStatuses
  <1>4. op' \in [Requests -> Ops] /\ \A g \in Requests : op'[g] = op[g] \/ Carries(op[g])'
    BY Finished DEF CancelCommit
  <1>5. /\ credit' \in [Credits -> CreditRows]
        /\ \A x \in Credits : Sound(credit'[x]) /\ Kept(credit[x], credit'[x])
    BY <1>1, <1>2, ReleaseSound DEF CancelCommit
  <1>6. today' \in Days /\ today <= today' /\ UNCHANGED overtime
    BY Today DEF CancelCommit, IInv, TypeOK
  <1>7. races' \subseteq Windows
    BY FellType DEF CancelCommit, Windows
  <1>8. QED
    BY <1>3, <1>4, <1>5, <1>6, <1>7, Survives DEF IInv, TypeOK

\* Every step keeps the invariant.
LEMMA NextSound == IInv /\ [Next]_vars => IInv'
  <1> SUFFICES ASSUME IInv, [Next]_vars PROVE IInv'
    OBVIOUS
  <1>1. ASSUME NEW h \in Requests, NEW d \in Days,
               EarnRead(h, d) \/ LogRead(h, d) \/ OvertimeRead(h, d)
        PROVE  IInv'
    BY <1>1, ClaimReadStep
  <1>2. ASSUME NEW h \in Requests, NEW c \in Credits, NEW n \in Earnings,
               NEW e \in ExpiryDays, EarnCommit(h, c, n, e)
        PROVE  IInv'
    BY <1>2, EarnCommitStep
  <1>3. ASSUME NEW h \in Requests, OvertimeCommit(h) PROVE IInv'
    BY <1>3, OvertimeCommitStep
  <1>4. ASSUME NEW h \in Requests, LogCommit(h) \/ GiveUp(h) PROVE IInv'
    BY <1>4, PlainStep
  <1>5. ASSUME NEW h \in Requests, NEW l \in Leaves, NEW n \in LeaveDays,
               NEW s \in StartDays, ApplyRead(h, l, n, s)
        PROVE  IInv'
    BY <1>5, ApplyReadStep
  <1>6. ASSUME NEW h \in Requests, ApplyCommit(h) PROVE IInv'
    BY <1>6, ApplyCommitStep
  <1>7. ASSUME NEW h \in Requests, NEW l \in Leaves, ApproveRead(h, l) PROVE IInv'
    BY <1>7, ApproveReadStep
  <1>8. ASSUME NEW h \in Requests, ApproveCommit(h) PROVE IInv'
    BY <1>8, ApproveCommitStep
  <1>9. ASSUME NEW h \in Requests, NEW l \in Leaves, CancelRead(h, l) PROVE IInv'
    BY <1>9, CancelReadStep
  <1>10. ASSUME NEW h \in Requests, CancelCommit(h) PROVE IInv'
    BY <1>10, CancelCommitStep
  <1>11. ASSUME NEW c \in Credits,
                Withdraw(c) \/ \E s \in {"APPROVED", "REJECTED"} : Review(c, s)
         PROVE  IInv'
    BY <1>11, CreditStep
  <1>12. CASE Sweep \/ NextDay
    BY <1>12, CreditStep
  <1>13. ASSUME NEW d \in Days, OvertimeReject(d) PROVE IInv'
    BY <1>13, PlainStep
  <1>14. ASSUME NEW l \in Leaves, NEW s \in {"REJECTED", "RETURNED"}, Decline(l, s)
         PROVE  IInv'
    BY <1>14, PlainStep
  <1>15. CASE UNCHANGED vars
    BY <1>15, QuietStep DEF vars, IInv, TypeOK
  <1>16. QED
    BY <1>1, <1>2, <1>3, <1>4, <1>5, <1>6, <1>7, <1>8, <1>9, <1>10, <1>11,
       <1>12, <1>13, <1>14, <1>15 DEF Next

\* The invariant holds for ever.
LEMMA AlwaysSound == Spec => []IInv
  BY InitSound, NextSound, PTL DEF Spec

\* Every row and every snapshot has its type; no release drives daysAvailed below
\* zero, whatever approvals, cancellations and sweeps it races with.
THEOREM TypeCorrect == Spec => []TypeOK
  <1>1. IInv => TypeOK
    BY DEF IInv
  <1>2. QED
    BY <1>1, AlwaysSound, PTL

\* No credit ever yields more than was earned, and its status tells how much of it
\* is taken (consumeForLeave, releaseForLeave, cancel, sweepExpired).
THEOREM CreditsAlwaysAddUp == Spec => []CreditsAddUp
  <1>1. IInv => CreditsAddUp
    BY DEF IInv, Sound, CreditsAddUp
  <1>2. QED
    BY <1>1, AlwaysSound, PTL

-----------------------------------------------------------------------------
(* Expired credits *)

\* Only an approval that carries the row raises its daysAvailed.
LEMMA OnlyApprovalsTake ==
    ASSUME IInv, Next, NEW c \in Credits, credit'[c].availed > credit[c].availed
    PROVE  \E h \in Requests : op[h].kind = "approve" /\ c \in Touched(op[h].updates)
  <1>1. credit[c] \in CreditRows /\ credit[c].availed \in Nat /\ credit \in [Credits -> CreditRows]
    BY DEF IInv, TypeOK, CreditRows
  <1>2. credit' # credit /\ credit' # Swept
    <2>1. \A n \in Nat : ~(n > n)
      OBVIOUS
    <2>2. Swept[c].availed = credit[c].availed
      BY SweptSound
    <2>3. QED
      BY <1>1, <2>1, <2>2
  <1>3. \A s, d, n, e : NewCredit(s, d, n, e).availed = 0
    BY DEF NewCredit
  <1>4. \A x \in Credits : \A r : credit' = [credit EXCEPT ![x] = r] => x = c /\ r.availed > credit[c].availed
    BY <1>1
  <1>5. ASSUME NEW x \in Credits, NEW s, NEW d, NEW n, NEW e,
               credit' = [credit EXCEPT ![x] = NewCredit(s, d, n, e)]
        PROVE  FALSE
    BY <1>1, <1>3, <1>4, <1>5
  <1>6. ASSUME NEW x \in Credits, NEW s, credit' = [credit EXCEPT ![x].status = s]
        PROVE  FALSE
    <2>1. credit' = [credit EXCEPT ![x] = [credit[x] EXCEPT !.status = s]]
      BY <1>6
    <2>2. [credit[c] EXCEPT !.status = s].availed = credit[c].availed
      BY <1>1 DEF CreditRows
    <2>3. QED
      BY <1>1, <1>4, <2>1, <2>2
  <1>7. ASSUME NEW h \in Requests, ApproveCommit(h)
        PROVE  op[h].kind = "approve" /\ c \in Touched(op[h].updates)
    <2>1. op[h].kind = "approve" /\ credit' = Consume(op[h].updates)
      BY <1>7 DEF ApproveCommit
    <2>2. c \notin Touched(op[h].updates) => credit'[c] = credit[c]
      BY <2>1 DEF Consume
    <2>3. ~(credit[c].availed > credit[c].availed)
      BY <1>1
    <2>4. QED
      BY <2>1, <2>2, <2>3
  <1>8. ASSUME NEW h \in Requests, CancelCommit(h) PROVE FALSE
    <2>1. op[h].kind = "cancel" /\ op[h].updates \in UpdateSets /\ StillAsRead(op[h].updates)
      BY <1>8, OpType DEF CancelCommit
    <2>2. \A x \in Touched(op[h].updates) :
             /\ credit[x].status # "NONE" /\ op[h].updates[x].to < op[h].updates[x].from
             /\ op[h].updates[x].from <= credit[x].earned
      BY <2>1 DEF IInv, Carries
    <2>3. credit'[c].availed <= credit[c].availed /\ credit'[c] \in CreditRows
      BY <1>8, <2>1, <2>2, ReleaseSound DEF CancelCommit
    <2>4. QED
      BY <1>1, <2>3 DEF CreditRows
  <1>9. ASSUME NEW h \in Requests
        PROVE  /\ ~LogCommit(h) /\ ~GiveUp(h) /\ ~OvertimeCommit(h)
               /\ ~ApplyCommit(h) /\ ~CancelCommit(h)
               /\ \A d \in Days : ~EarnRead(h, d) /\ ~LogRead(h, d) /\ ~OvertimeRead(h, d)
               /\ \A x \in Credits, n \in Earnings, e \in ExpiryDays :
                     ~EarnCommit(h, x, n, e)
               /\ \A l \in Leaves : ~ApproveRead(h, l) /\ ~CancelRead(h, l)
               /\ \A l \in Leaves, n \in LeaveDays, s \in StartDays : ~ApplyRead(h, l, n, s)
    <2>1. ~LogCommit(h) /\ ~GiveUp(h) /\ ~ApplyCommit(h) /\ ~CancelCommit(h)
      BY <1>2, <1>8 DEF LogCommit, GiveUp, ApplyCommit
    <2>2. ~OvertimeCommit(h)
      BY <1>2, <1>5 DEF OvertimeCommit
    <2>3. \A d \in Days : ~EarnRead(h, d) /\ ~LogRead(h, d) /\ ~OvertimeRead(h, d)
      BY <1>2 DEF EarnRead, LogRead, OvertimeRead
    <2>4. \A x \in Credits, n \in Earnings, e \in ExpiryDays : ~EarnCommit(h, x, n, e)
      BY <1>5 DEF EarnCommit
    <2>5. \A l \in Leaves : ~ApproveRead(h, l) /\ ~CancelRead(h, l)
      BY <1>2 DEF ApproveRead, CancelRead
    <2>6. \A l \in Leaves, n \in LeaveDays, s \in StartDays : ~ApplyRead(h, l, n, s)
      BY <1>2 DEF ApplyRead
    <2>7. QED
      BY <2>1, <2>2, <2>3, <2>4, <2>5, <2>6
  <1>10. /\ \A x \in Credits : ~Withdraw(x) /\ \A s : ~Review(x, s)
         /\ \A d \in Days : ~OvertimeReject(d)
         /\ \A l \in Leaves : \A s : ~Decline(l, s)
         /\ ~Sweep /\ ~NextDay
    BY <1>2, <1>6 DEF Withdraw, Review, OvertimeReject, Decline, Sweep, NextDay
  <1>11. \E h \in Requests : ApproveCommit(h)
    BY <1>9, <1>10 DEF Next
  <1>12. QED
    BY <1>7, <1>11

\* An approval takes nothing of a credit that is past its expiry, swept or not,
\* unless the date changed between its read and its write (consumeForLeave).
THEOREM ExpiredCreditsAreLeft == Spec => ExpiredIsNotTaken
  <1> DEFINE Left == \A c \in Credits :
          credit'[c].availed > credit[c].availed /\ credit[c].expiry < today =>
              \E h \in InFlight("approve") : op[h].since < today
  <1>1. IInv /\ [Next]_vars => [Left]_vars
    <2> SUFFICES ASSUME IInv, Next, NEW c \in Credits,
                        credit'[c].availed > credit[c].availed, credit[c].expiry < today
                 PROVE  \E h \in InFlight("approve") : op[h].since < today
      OBVIOUS
    <2>1. PICK h \in Requests : op[h].kind = "approve" /\ c \in Touched(op[h].updates)
      BY OnlyApprovalsTake
    <2>2. credit[c].expiry >= op[h].since
      BY <2>1 DEF IInv, Carries
    <2>3. op[h].since \in Int /\ today \in Int /\ credit[c].expiry \in Int
      BY <2>1, OpType, Today, CompOffAssumption DEF Days, IInv, TypeOK, CreditRows, Never
    <2>4. QED
      BY <2>1, <2>2, <2>3 DEF InFlight
  <1>2. QED
    BY <1>1, AlwaysSound, PTL DEF Spec, ExpiredIsNotTaken

-----------------------------------------------------------------------------
(* One day, one benefit *)

Clean(windows) == windows \cap {"claim", "revive"} = {}

\* A credit that claims its day after the step claimed it before.
ClaimKept(c) ==
    credit'[c].status \notin {"NONE", "REJECTED"} =>
        credit[c].status \notin {"NONE", "REJECTED"} /\ credit'[c].day = credit[c].day

\* The claims of a day, spelled out.
LEMMA ClaimsAre ==
    ASSUME IInv, NEW d, NEW c \in Credits
    PROVE  c \in Claims(d) <=>
              credit[c].status \notin {"NONE", "REJECTED"} /\ credit[c].day = d
  BY DEF Claims, CreditsWith, IInv, TypeOK, CreditRows

\* A step that adds no claim and pays nothing.
LEMMA NoNewClaim ==
    ASSUME IInv, IInv', OneDayOneBenefit, races \subseteq races',
           \A c \in Credits : ClaimKept(c),
           \A d \in Days : overtime'[d] = "PAID" => overtime[d] = "PAID"
    PROVE  OneDayOneBenefit'
  <1> SUFFICES ASSUME Clean(races'), NEW d \in Days
               PROVE  /\ \A a, b \in Claims(d)' : a = b
                      /\ overtime'[d] = "PAID" => Claims(d)' = {}
    BY DEF OneDayOneBenefit, Clean
  <1>1. Clean(races)
    BY DEF Clean
  <1>2. Claims(d)' \subseteq Claims(d)
    <2> SUFFICES ASSUME NEW c \in Claims(d)' PROVE c \in Claims(d)
      OBVIOUS
    <2>1. c \in Credits /\ credit'[c].status \notin {"NONE", "REJECTED"} /\ credit'[c].day = d
      BY DEF Claims, CreditsWith
    <2>2. QED
      BY <2>1, ClaimsAre DEF ClaimKept
  <1>3. QED
    BY <1>1, <1>2 DEF OneDayOneBenefit, Clean

\* An insert whose check still holds: the row is the only claim of its day.
LEMMA FreshClaim ==
    ASSUME IInv, IInv', OneDayOneBenefit, races \subseteq races',
           NEW x \in Credits, NEW d \in Days, NEW r, r.day = d,
           credit' = [credit EXCEPT ![x] = r],
           Claims(d) = {}, overtime'[d] # "PAID",
           \A y \in Days : overtime'[y] = "PAID" => overtime[y] = "PAID"
    PROVE  OneDayOneBenefit'
  <1> SUFFICES ASSUME Clean(races'), NEW y \in Days
               PROVE  /\ \A a, b \in Claims(y)' : a = b
                      /\ overtime'[y] = "PAID" => Claims(y)' = {}
    BY DEF OneDayOneBenefit, Clean
  <1>1. Clean(races)
    BY DEF Clean
  <1>2. \A c \in Credits : credit'[c] = IF c = x THEN r ELSE credit[c]
    BY DEF IInv, TypeOK
  <1>3. \A c \in Claims(y)' : (c = x /\ y = d) \/ c \in Claims(y)
    <2> SUFFICES ASSUME NEW c \in Claims(y)', c # x \/ y # d PROVE c \in Claims(y)
      OBVIOUS
    <2>1. c \in Credits /\ credit'[c].status \notin {"NONE", "REJECTED"} /\ credit'[c].day = y
      BY DEF Claims, CreditsWith
    <2>2. c # x
      BY <1>2, <2>1
    <2>3. QED
      BY <1>2, <2>1, <2>2, ClaimsAre
  <1>4. QED
    BY <1>1, <1>3 DEF OneDayOneBenefit, Clean

\* Rows whose status is rewritten, or swept, claim nothing new.
LEMMA RewrittenClaims ==
    ASSUME IInv,
           \/ \E c \in Credits : Withdraw(c)
           \/ \E c \in Credits, s \in {"APPROVED", "REJECTED"} : Review(c, s)
           \/ credit' = Swept
           \/ UNCHANGED credit
    PROVE  \A c \in Credits : ClaimKept(c)
  <1>1. ASSUME NEW x \in Credits, credit[x].status \in {"PENDING", "APPROVED"}, NEW s,
               credit' = [credit EXCEPT ![x].status = s]
        PROVE  \A c \in Credits : ClaimKept(c)
    <2>1. ASSUME NEW c \in Credits PROVE credit'[c].day = credit[c].day
      BY <1>1 DEF IInv, TypeOK, CreditRows
    <2>2. ASSUME NEW c \in Credits PROVE c = x \/ credit'[c] = credit[c]
      BY <1>1 DEF IInv, TypeOK
    <2>3. QED
      BY <1>1, <2>1, <2>2 DEF ClaimKept
  <1>2. CASE credit' = Swept
    BY <1>2, SweptSound DEF ClaimKept
  <1>3. CASE UNCHANGED credit
    BY <1>3 DEF ClaimKept
  <1>4. QED
    BY <1>1, <1>2, <1>3 DEF Withdraw, Review

\* An approval or a cancellation that revives nothing adds no claim.
LEMMA UpdatedClaims ==
    ASSUME IInv, NEW h \in Requests, ApproveCommit(h) \/ CancelCommit(h), Clean(races')
    PROVE  \A c \in Credits : ClaimKept(c)
  <1> DEFINE u == op[h].updates
  <1>1. u \in UpdateSets /\ StillAsRead(u) /\ op[h].kind \in {"approve", "cancel"}
    BY OpType DEF ApproveCommit, CancelCommit
  <1>2. Dead(u) = {}
    BY DEF ApproveCommit, CancelCommit, Clean, Fell
  <1>3. \A c \in Touched(u) : credit[c].status \notin {"NONE", "REJECTED"}
    BY <1>1, <1>2 DEF IInv, Carries, Dead, CreditsWith, Touched
  <1>4. \A c \in Credits : credit'[c].day = credit[c].day /\ (c \in Touched(u) \/ credit'[c] = credit[c])
    <2>1. CASE ApproveCommit(h)
      <3>1. op[h].kind = "approve" /\ credit' = Consume(u)
        BY <2>1 DEF ApproveCommit
      <3>2. QED
        BY <1>1, <3>1, ConsumeSound DEF IInv, Carries
    <2>2. CASE CancelCommit(h)
      <3>1. op[h].kind = "cancel" /\ credit' = Release(u)
        BY <2>2 DEF CancelCommit
      <3>2. QED
        BY <1>1, <3>1, ReleaseSound DEF IInv, Carries
    <2>3. QED
      BY <2>1, <2>2
  <1>5. QED
    BY <1>3, <1>4 DEF ClaimKept

\* The history only grows.
LEMMA HistoryGrows == Next => races \subseteq races'
  <1> DEFINE Grows == races \subseteq races'
  <1>1. ASSUME NEW h \in Requests,
               \E d \in Days : EarnRead(h, d) \/ LogRead(h, d) \/ OvertimeRead(h, d)
        PROVE  Grows
    BY <1>1 DEF EarnRead, LogRead, OvertimeRead
  <1>2. ASSUME NEW h \in Requests,
               \/ \E c \in Credits, n \in Earnings, e \in ExpiryDays : EarnCommit(h, c, n, e)
               \/ OvertimeCommit(h)
        PROVE  Grows
    BY <1>2 DEF EarnCommit, OvertimeCommit, Fell
  <1>3. ASSUME NEW h \in Requests, NEW l \in Leaves,
               \/ \E n \in LeaveDays, s \in StartDays : ApplyRead(h, l, n, s)
               \/ ApproveRead(h, l) \/ CancelRead(h, l)
        PROVE  Grows
    BY <1>3 DEF ApplyRead, ApproveRead, CancelRead
  <1>4. ASSUME NEW h \in Requests, LogCommit(h) \/ ApplyCommit(h) \/ GiveUp(h)
        PROVE  Grows
    BY <1>4 DEF LogCommit, ApplyCommit, GiveUp
  <1>5. ASSUME NEW h \in Requests, ApproveCommit(h) \/ CancelCommit(h)
        PROVE  Grows
    BY <1>5 DEF ApproveCommit, CancelCommit, Fell
  <1>6. ASSUME NEW c \in Credits,
               Withdraw(c) \/ \E decision \in {"APPROVED", "REJECTED"} : Review(c, decision)
        PROVE  Grows
    BY <1>6 DEF Withdraw, Review, Fell
  <1>7. ASSUME \/ \E d \in Days : OvertimeReject(d)
               \/ \E l \in Leaves, decision \in {"REJECTED", "RETURNED"} : Decline(l, decision)
               \/ Sweep \/ NextDay
        PROVE  Grows
    BY <1>7 DEF OvertimeReject, Decline, Sweep, NextDay, Fell
  <1> HIDE DEF Grows
  <1>8. Next => Grows
    BY <1>1, <1>2, <1>3, <1>4, <1>5, <1>6, <1>7 DEF Next
  <1>9. QED
    BY <1>8 DEF Grows

\* Outside the two windows the property holds whatever happened.
LEMMA Dirty ==
    ASSUME ~Clean(races') PROVE OneDayOneBenefit'
  BY DEF Clean, OneDayOneBenefit

LEMMA EarnKeepsOneBenefit ==
    ASSUME IInv, IInv', OneDayOneBenefit, races \subseteq races', Clean(races'),
           NEW h \in Requests, NEW c \in Credits, NEW n \in Earnings, NEW e \in ExpiryDays,
           EarnCommit(h, c, n, e)
    PROVE  OneDayOneBenefit'
  <1> DEFINE d == op[h].day
             r == NewCredit("PENDING", d, n, e)
  <1>1. d \in Days /\ r.day = d
    BY OpType DEF EarnCommit, NewCredit
  <1>2. FreeToEarn(d) /\ credit' = [credit EXCEPT ![c] = r] /\ UNCHANGED overtime
    BY DEF EarnCommit, Clean, Fell
  <1>3. QED
    BY <1>1, <1>2, FreshClaim DEF FreeToEarn

LEMMA OvertimeKeepsOneBenefit ==
    ASSUME IInv, IInv', OneDayOneBenefit, races \subseteq races', Clean(races'),
           NEW h \in Requests, OvertimeCommit(h)
    PROVE  OneDayOneBenefit'
  <1> DEFINE d == op[h].day
  <1>1. d \in Days /\ Claims(d) = {} /\ overtime \in [Days -> OvertimeStatuses]
    BY OpType DEF OvertimeCommit, Clean, Fell, FreeToReward, IInv, TypeOK
  <1>2. CASE overtime' = [overtime EXCEPT ![d] = "PAID"] /\ UNCHANGED credit
    <2> SUFFICES ASSUME NEW y \in Days
                 PROVE  /\ \A a, b \in Claims(y)' : a = b
                        /\ overtime'[y] = "PAID" => Claims(y)' = {}
      BY DEF OneDayOneBenefit
    <2>1. Claims(y)' = Claims(y)
      BY <1>2 DEF Claims, CreditsWith
    <2>2. Clean(races)
      BY DEF Clean
    <2>3. overtime'[y] = "PAID" => y = d \/ overtime[y] = "PAID"
      BY <1>1, <1>2
    <2>4. QED
      BY <1>1, <2>1, <2>2, <2>3 DEF OneDayOneBenefit, Clean
  <1>3. ASSUME NEW c \in Credits, NEW n \in Earnings, NEW e \in ExpiryDays,
               credit' = [credit EXCEPT ![c] = NewCredit("APPROVED", d, n, e)],
               overtime' = [overtime EXCEPT ![d] = "CREDITED"]
        PROVE  OneDayOneBenefit'
    <2>1. NewCredit("APPROVED", d, n, e).day = d
      BY DEF NewCredit
    <2>2. overtime'[d] # "PAID" /\ \A y \in Days : overtime'[y] = "PAID" => overtime[y] = "PAID"
      BY <1>1, <1>3
    <2>3. QED
      BY <1>1, <1>3, <2>1, <2>2, FreshClaim
  <1>4. QED
    BY <1>2, <1>3 DEF OvertimeCommit

\* Every other step only drops claims.
LEMMA NextKeepsOneBenefit ==
    IInv /\ IInv' /\ OneDayOneBenefit /\ [Next]_vars => OneDayOneBenefit'
  <1> SUFFICES ASSUME IInv, IInv', OneDayOneBenefit, [Next]_vars, Clean(races')
               PROVE  OneDayOneBenefit'
    BY Dirty
  <1>1. CASE UNCHANGED vars
    <2>1. races \subseteq races' /\ UNCHANGED <<credit, overtime>>
      BY <1>1 DEF vars
    <2>2. QED
      BY <2>1, RewrittenClaims, NoNewClaim
  <1> SUFFICES ASSUME Next PROVE OneDayOneBenefit'
    BY <1>1
  <1>2. races \subseteq races'
    BY HistoryGrows
  <1>3. ASSUME \A c \in Credits : ClaimKept(c),
               \A d \in Days : overtime'[d] = "PAID" => overtime[d] = "PAID"
        PROVE  OneDayOneBenefit'
    BY <1>2, <1>3, NoNewClaim
  <1>4. ASSUME UNCHANGED overtime,
               \/ \E c \in Credits : Withdraw(c)
               \/ \E c \in Credits, s \in {"APPROVED", "REJECTED"} : Review(c, s)
               \/ credit' = Swept
               \/ UNCHANGED credit
        PROVE  OneDayOneBenefit'
    BY <1>3, <1>4, RewrittenClaims
  <1>5. ASSUME NEW h \in Requests, NEW d \in Days,
               EarnRead(h, d) \/ LogRead(h, d) \/ OvertimeRead(h, d)
        PROVE  OneDayOneBenefit'
    BY <1>4, <1>5 DEF EarnRead, LogRead, OvertimeRead
  <1>6. ASSUME NEW h \in Requests, NEW c \in Credits, NEW n \in Earnings,
               NEW e \in ExpiryDays, EarnCommit(h, c, n, e)
        PROVE  OneDayOneBenefit'
    BY <1>2, <1>6, EarnKeepsOneBenefit
  <1>7. ASSUME NEW h \in Requests, OvertimeCommit(h) PROVE OneDayOneBenefit'
    BY <1>2, <1>7, OvertimeKeepsOneBenefit
  <1>8. ASSUME NEW x \in {"PENDING", "REJECTED"}, NEW d \in Days, UNCHANGED credit,
               overtime' = [overtime EXCEPT ![d] = x]
        PROVE  OneDayOneBenefit'
    <2>1. \A y \in Days : overtime'[y] = "PAID" => overtime[y] = "PAID"
      BY <1>8 DEF IInv, TypeOK
    <2>2. QED
      BY <1>3, <1>8, <2>1, RewrittenClaims
  <1>9. ASSUME NEW h \in Requests, LogCommit(h) PROVE OneDayOneBenefit'
    BY <1>8, <1>9, OpType DEF LogCommit
  <1>10. ASSUME NEW h \in Requests, GiveUp(h) \/ ApplyCommit(h) PROVE OneDayOneBenefit'
    BY <1>4, <1>10 DEF GiveUp, ApplyCommit
  <1>11. ASSUME NEW h \in Requests, NEW l \in Leaves, NEW n \in LeaveDays,
                NEW s \in StartDays, ApplyRead(h, l, n, s)
         PROVE  OneDayOneBenefit'
    BY <1>4, <1>11 DEF ApplyRead
  <1>12. ASSUME NEW h \in Requests, NEW l \in Leaves, ApproveRead(h, l) \/ CancelRead(h, l)
         PROVE  OneDayOneBenefit'
    BY <1>4, <1>12 DEF ApproveRead, CancelRead
  <1>13. ASSUME NEW h \in Requests, ApproveCommit(h) \/ CancelCommit(h)
         PROVE  OneDayOneBenefit'
    BY <1>3, <1>13, UpdatedClaims DEF ApproveCommit, CancelCommit
  <1>14. ASSUME NEW c \in Credits,
                Withdraw(c) \/ \E s \in {"APPROVED", "REJECTED"} : Review(c, s)
         PROVE  OneDayOneBenefit'
    <2>1. UNCHANGED overtime
      BY <1>14 DEF Withdraw, Review
    <2>2. QED
      BY <1>4, <1>14, <2>1
  <1>15. CASE Sweep \/ NextDay
    BY <1>4, <1>15 DEF Sweep, NextDay
  <1>16. ASSUME NEW d \in Days, OvertimeReject(d) PROVE OneDayOneBenefit'
    BY <1>8, <1>16 DEF OvertimeReject
  <1>17. ASSUME NEW l \in Leaves, NEW s \in {"REJECTED", "RETURNED"}, Decline(l, s)
         PROVE  OneDayOneBenefit'
    BY <1>4, <1>17 DEF Decline
  <1>18. QED
    BY <1>5, <1>6, <1>7, <1>9, <1>10, <1>11, <1>12, <1>13, <1>14, <1>15, <1>16, <1>17 DEF Next

\* Work on an off day is rewarded once, by a comp-off or by pay, unless an insert's
\* check had gone stale or a dead credit was revived (earn, OvertimeService.review).
THEOREM DaysAreRewardedOnce == Spec => []OneDayOneBenefit
  <1>1. Init => OneDayOneBenefit
    BY DEF Init, OneDayOneBenefit, Claims, CreditsWith
  <1>2. QED
    BY <1>1, NextKeepsOneBenefit, AlwaysSound, PTL DEF Spec

-----------------------------------------------------------------------------
(* Totals *)

\* The half days of a table.
LEMMA InHalfDays ==
    ASSUME NEW S, NEW f \in [S -> Nat], NEW p
    PROVE  p \in HalfDays(f) <=> \E x \in S : \E i \in 1..f[x] : p = <<x, i>>
  BY DEF HalfDays

\* A finite table has a total.
LEMMA TotalType ==
    ASSUME NEW S, IsFiniteSet(S), NEW f \in [S -> Nat]
    PROVE  IsFiniteSet(HalfDays(f)) /\ Total(f) \in Nat
  <1> DEFINE part == [x \in S |-> {x} \X (1..f[x])]
             parts == {{x} \X (1..f[x]) : x \in S}
  <1>1. part \in Surjection(S, parts)
    BY DEF Surjection
  <1>2. IsFiniteSet(parts)
    <2> HIDE DEF part, parts
    <2>1. QED
      BY <1>1, FS_Surjection
  <1>3. ASSUME NEW x \in S
        PROVE  IsFiniteSet({x} \X (1..f[x]))
    <2>1. IsFiniteSet({x})
      BY FS_Singleton
    <2>2. IsFiniteSet(1..f[x])
      <3>1. 1 \in Int /\ f[x] \in Int
        OBVIOUS
      <3>2. QED
        BY <3>1, FS_Interval
    <2>3. QED
      BY <2>1, <2>2, FS_Product
  <1>4. \A T \in parts : IsFiniteSet(T)
    BY <1>3
  <1>5. HalfDays(f) = UNION parts
    BY DEF HalfDays
  <1>6. IsFiniteSet(HalfDays(f))
    <2> HIDE DEF part, parts
    <2>1. QED
      BY <1>2, <1>4, <1>5, FS_UNION
  <1>7. QED
    BY <1>6, FS_CardinalityType DEF Total

\* A larger table has no smaller total.
LEMMA TotalGrows ==
    ASSUME NEW S, IsFiniteSet(S), NEW f \in [S -> Nat], NEW g \in [S -> Nat],
           \A x \in S : f[x] <= g[x]
    PROVE  Total(f) <= Total(g)
  <1>1. HalfDays(f) \subseteq HalfDays(g)
    <2> SUFFICES ASSUME NEW p \in HalfDays(f) PROVE p \in HalfDays(g)
      OBVIOUS
    <2>1. PICK x \in S : \E i \in 1..f[x] : p = <<x, i>>
      BY InHalfDays
    <2>2. PICK i \in 1..f[x] : p = <<x, i>>
      BY <2>1
    <2>3. i \in 1..g[x]
      <3>1. f[x] \in Nat /\ g[x] \in Nat /\ f[x] <= g[x]
        OBVIOUS
      <3>2. QED
        BY <3>1
    <2>4. QED
      BY <2>2, <2>3, InHalfDays
  <1>2. IsFiniteSet(HalfDays(g))
    BY TotalType
  <1>3. QED
    BY <1>1, <1>2, FS_Subset DEF Total

\* One entry is its own total.
LEMMA TotalOne ==
    ASSUME NEW S, NEW f \in [S -> Nat], NEW x \in S, \A y \in S : y # x => f[y] = 0
    PROVE  Total(f) = f[x]
  <1>1. HalfDays(f) = {x} \X (1..f[x])
    <2>1. ASSUME NEW p
          PROVE  p \in HalfDays(f) <=> p \in {x} \X (1..f[x])
      <3>1. p \in HalfDays(f) => p \in {x} \X (1..f[x])
        <4> SUFFICES ASSUME p \in HalfDays(f) PROVE p \in {x} \X (1..f[x])
          OBVIOUS
        <4>1. PICK y \in S : \E i \in 1..f[y] : p = <<y, i>>
          BY InHalfDays
        <4>2. PICK i \in 1..f[y] : p = <<y, i>>
          BY <4>1
        <4>3. y = x
          BY <4>2
        <4>4. QED
          BY <4>2, <4>3
      <3>2. p \in {x} \X (1..f[x]) => p \in HalfDays(f)
        BY InHalfDays
      <3>3. QED
        BY <3>1, <3>2
    <2>2. QED
      BY <2>1
  <1>2. /\ IsFiniteSet({x}) /\ Cardinality({x}) = 1
        /\ IsFiniteSet(1..f[x]) /\ Cardinality(1..f[x]) = f[x]
    <2>1. IsFiniteSet({x}) /\ Cardinality({x}) = 1
      BY FS_Singleton
    <2>2. 1 \in Int /\ f[x] \in Int /\ f[x] \in Nat
      OBVIOUS
    <2>3. /\ IsFiniteSet(1..f[x])
          /\ Cardinality(1..f[x]) = IF 1 > f[x] THEN 0 ELSE f[x] - 1 + 1
      BY <2>2, FS_Interval
    <2>4. QED
      BY <2>1, <2>2, <2>3
  <1>3. Cardinality({x} \X (1..f[x])) = Cardinality({x}) * Cardinality(1..f[x])
    BY <1>2, FS_Product
  <1>4. f[x] \in Nat => 1 * f[x] = f[x]
    OBVIOUS
  <1>5. QED
    BY <1>1, <1>2, <1>3, <1>4 DEF Total

\* Entries that count nothing do not matter.
LEMMA TotalExtends ==
    ASSUME NEW S, NEW T \in SUBSET S, NEW f \in [S -> Nat], NEW g \in [T -> Nat],
           \A x \in S : f[x] = IF x \in T THEN g[x] ELSE 0
    PROVE  Total(f) = Total(g)
  <1>1. HalfDays(f) = HalfDays(g)
    <2>1. ASSUME NEW p
          PROVE  p \in HalfDays(f) <=> p \in HalfDays(g)
      <3>1. ASSUME NEW x \in S, NEW i \in 1..f[x]
            PROVE  x \in T /\ i \in 1..g[x]
        <4>1. x \in T
          BY <3>1
        <4>2. QED
          BY <4>1
      <3>2. QED
        BY <3>1, InHalfDays
    <2>2. QED
      BY <2>1
  <1>2. QED
    BY <1>1 DEF Total

LEMMA DisjointUnion ==
    ASSUME NEW S, NEW T, IsFiniteSet(S), IsFiniteSet(T), S \cap T = {}
    PROVE  Cardinality(S \cup T) = Cardinality(S) + Cardinality(T)
  <1>1. Cardinality(S) \in Nat /\ Cardinality(T) \in Nat
    BY FS_CardinalityType
  <1>2. Cardinality(S \cup T) = Cardinality(S) + Cardinality(T) - Cardinality(S \cap T)
    BY FS_Union
  <1>3. Cardinality(S \cap T) = 0
    BY FS_EmptySet
  <1>4. QED
    BY <1>1, <1>2, <1>3

\* The total of an entry by entry sum is the sum of the totals.
LEMMA TotalAdds ==
    ASSUME NEW S, IsFiniteSet(S), NEW f \in [S -> Nat], NEW g \in [S -> Nat],
           NEW sum \in [S -> Nat], \A x \in S : sum[x] = f[x] + g[x]
    PROVE  Total(sum) = Total(f) + Total(g)
  <1> DEFINE Moved == HalfDays(sum) \ HalfDays(f)
             move == [p \in HalfDays(g) |-> <<p[1], f[p[1]] + p[2]>>]
  <1>1. HalfDays(f) \subseteq HalfDays(sum)
    <2> SUFFICES ASSUME NEW x \in S, NEW i \in 1..f[x]
                 PROVE  <<x, i>> \in HalfDays(sum)
      BY InHalfDays
    <2>1. f[x] \in Nat /\ g[x] \in Nat /\ sum[x] = f[x] + g[x]
      OBVIOUS
    <2>2. i \in 1..sum[x]
      BY <2>1
    <2>3. QED
      BY <2>2, InHalfDays
  <1>2. ASSUME NEW x \in S, NEW i \in 1..g[x]
        PROVE  <<x, f[x] + i>> \in Moved
    <2>1. f[x] \in Nat /\ g[x] \in Nat /\ sum[x] = f[x] + g[x]
      OBVIOUS
    <2>2. f[x] + i \in 1..sum[x] /\ f[x] + i \notin 1..f[x]
      BY <2>1
    <2>3. <<x, f[x] + i>> \in HalfDays(sum)
      BY <2>2, InHalfDays
    <2>4. <<x, f[x] + i>> \notin HalfDays(f)
      BY <2>2, InHalfDays
    <2>5. QED
      BY <2>3, <2>4
  <1>3. ASSUME NEW q \in Moved
        PROVE  \E x \in S : \E i \in 1..g[x] : q = <<x, f[x] + i>>
    <2>1. PICK x \in S : \E j \in 1..sum[x] : q = <<x, j>>
      BY InHalfDays
    <2>2. PICK j \in 1..sum[x] : q = <<x, j>>
      BY <2>1
    <2>3. f[x] \in Nat /\ g[x] \in Nat /\ sum[x] = f[x] + g[x]
      OBVIOUS
    <2>4. j \notin 1..f[x]
      BY <2>2, InHalfDays
    <2>5. j - f[x] \in 1..g[x] /\ j = f[x] + (j - f[x])
      BY <2>3, <2>4
    <2>6. QED
      BY <2>2, <2>5
  <1>4. move \in Bijection(HalfDays(g), Moved)
    <2>1. ASSUME NEW p \in HalfDays(g)
          PROVE  \E x \in S : \E i \in 1..g[x] : p = <<x, i>> /\ move[p] = <<x, f[x] + i>>
      BY InHalfDays
    <2>2. move \in [HalfDays(g) -> Moved]
      <3>1. \A p \in HalfDays(g) : move[p] \in Moved
        BY <1>2, <2>1
      <3>2. QED
        BY <3>1
    <2>3. ASSUME NEW p \in HalfDays(g), NEW q \in HalfDays(g), move[p] = move[q]
          PROVE  p = q
      <3>a. PICK x \in S : \E i \in 1..g[x] : p = <<x, i>> /\ move[p] = <<x, f[x] + i>>
        BY <2>1
      <3>1. PICK i \in 1..g[x] : p = <<x, i>> /\ move[p] = <<x, f[x] + i>>
        BY <3>a
      <3>b. PICK y \in S : \E j \in 1..g[y] : q = <<y, j>> /\ move[q] = <<y, f[y] + j>>
        BY <2>1
      <3>2. PICK j \in 1..g[y] : q = <<y, j>> /\ move[q] = <<y, f[y] + j>>
        BY <3>b
      <3>3. x = y /\ f[x] + i = f[y] + j
        BY <2>3, <3>1, <3>2
      <3>4. f[x] \in Nat
        OBVIOUS
      <3>5. i = j
        BY <3>3, <3>4
      <3>6. QED
        BY <3>1, <3>2, <3>3, <3>5
    <2>4. ASSUME NEW q \in Moved
          PROVE  \E p \in HalfDays(g) : move[p] = q
      <3>a. PICK x \in S : \E i \in 1..g[x] : q = <<x, f[x] + i>>
        BY <1>3
      <3>1. PICK i \in 1..g[x] : q = <<x, f[x] + i>>
        BY <3>a
      <3>2. <<x, i>> \in HalfDays(g)
        BY InHalfDays
      <3>3. move[<<x, i>>] = <<x, f[x] + i>>
        BY <3>2
      <3>4. QED
        BY <3>1, <3>2, <3>3
    <2> HIDE DEF move, Moved
    <2>5. QED
      BY <2>2, <2>3, <2>4 DEF Bijection, Injection, Surjection, IsInjective
  <1>5. IsFiniteSet(HalfDays(f)) /\ IsFiniteSet(HalfDays(g))
    BY TotalType
  <1>6. IsFiniteSet(Moved) /\ Cardinality(Moved) = Cardinality(HalfDays(g))
    <2> HIDE DEF move, Moved
    <2>1. QED
      BY <1>4, <1>5, FS_Bijection DEF ExistsBijection
  <1>7. HalfDays(sum) = HalfDays(f) \cup Moved /\ HalfDays(f) \cap Moved = {}
    BY <1>1
  <1>8. QED
    <2> HIDE DEF move, Moved
    <2>1. QED
      BY <1>5, <1>6, <1>7, DisjointUnion DEF Total

LEMMA TotalMoves ==
    ASSUME NEW S, IsFiniteSet(S), NEW f \in [S -> Nat], NEW g \in [S -> Nat],
           NEW x \in S, NEW n \in Nat, g[x] = f[x] + n, \A y \in S : y # x => g[y] = f[y]
    PROVE  Total(g) = Total(f) + n
  <1> DEFINE only == [y \in S |-> IF y = x THEN n ELSE 0]
  <1>1. only \in [S -> Nat] /\ only[x] = n /\ \A y \in S : y # x => only[y] = 0
    OBVIOUS
  <1>2. \A y \in S : g[y] = f[y] + only[y]
    <2> SUFFICES ASSUME NEW y \in S PROVE g[y] = f[y] + only[y]
      OBVIOUS
    <2>1. f[y] \in Nat
      OBVIOUS
    <2>2. CASE y = x
      BY <1>1, <2>2
    <2>3. CASE y # x
      BY <1>1, <2>1, <2>3
    <2>4. QED
      BY <2>2, <2>3
  <1> HIDE DEF only
  <1>3. Total(only) = n
    BY <1>1, TotalOne
  <1>4. QED
    BY <1>1, <1>2, <1>3, TotalAdds

-----------------------------------------------------------------------------
(* What a step does to credits, leaves and handlers *)

LEMMA CreditMoves ==
    ASSUME IInv, [Next]_vars
    PROVE  \/ credit' = credit \/ credit' = Swept
           \/ \E c \in Credits, d \in Days, n \in Earnings, e \in ExpiryDays,
                 s \in {"PENDING", "APPROVED"} :
                /\ credit[c].status = "NONE"
                /\ credit' = [credit EXCEPT ![c] = NewCredit(s, d, n, e)]
           \/ \E c \in Credits, s \in {"APPROVED", "REJECTED"} : Review(c, s)
           \/ \E c \in Credits : Withdraw(c)
           \/ \E h \in Requests : ApproveCommit(h) \/ CancelCommit(h)
  <1> DEFINE Inserts == \E c \in Credits, d \in Days, n \in Earnings, e \in ExpiryDays,
                           s \in {"PENDING", "APPROVED"} :
                          /\ credit[c].status = "NONE"
                          /\ credit' = [credit EXCEPT ![c] = NewCredit(s, d, n, e)]
  <1>1. ASSUME NEW h \in Requests, NEW c \in Credits, NEW n \in Earnings, NEW e \in ExpiryDays,
               EarnCommit(h, c, n, e)
        PROVE  Inserts
    <2>1. op[h].day \in Days
      BY <1>1, OpType DEF EarnCommit
    <2>2. /\ credit[c].status = "NONE"
          /\ credit' = [credit EXCEPT ![c] = NewCredit("PENDING", op[h].day, n, e)]
      BY <1>1 DEF EarnCommit
    <2>3. QED
      BY <2>1, <2>2
  <1>2. ASSUME NEW h \in Requests, OvertimeCommit(h)
        PROVE  Inserts \/ credit' = credit
    <2>1. op[h].day \in Days
      BY <1>2, OpType DEF OvertimeCommit
    <2>2. \/ credit' = credit
          \/ \E c \in Credits, n \in Earnings, e \in ExpiryDays :
               /\ credit[c].status = "NONE"
               /\ credit' = [credit EXCEPT ![c] = NewCredit("APPROVED", op[h].day, n, e)]
      BY <1>2 DEF OvertimeCommit
    <2>3. QED
      BY <2>1, <2>2
  <1>3. ASSUME NEW h \in Requests, NEW l \in Leaves, NEW n \in LeaveDays, NEW s \in StartDays,
               ApplyRead(h, l, n, s)
        PROVE  credit' = credit \/ credit' = Swept
    BY <1>3 DEF ApplyRead
  <1>4. ASSUME NEW h \in Requests, ApplyCommit(h)
        PROVE  credit' = credit \/ credit' = Swept
    BY <1>4 DEF ApplyCommit
  <1>5. ASSUME NEW h \in Requests,
               \/ \E d \in Days : EarnRead(h, d) \/ LogRead(h, d) \/ OvertimeRead(h, d)
               \/ \E l \in Leaves : ApproveRead(h, l) \/ CancelRead(h, l)
               \/ LogCommit(h) \/ GiveUp(h)
        PROVE  credit' = credit
    BY <1>5 DEF EarnRead, LogRead, OvertimeRead, ApproveRead, CancelRead, LogCommit, GiveUp
  <1>6. Sweep => credit' = Swept
    BY DEF Sweep
  <1>7. NextDay \/ (\E d \in Days : OvertimeReject(d))
        \/ (\E l \in Leaves, s \in {"REJECTED", "RETURNED"} : Decline(l, s)) => credit' = credit
    BY DEF NextDay, OvertimeReject, Decline
  <1>8. UNCHANGED vars => credit' = credit
    BY DEF vars
  <1> HIDE DEF Inserts
  <1>9. \/ credit' = credit \/ credit' = Swept \/ Inserts
        \/ \E c \in Credits, s \in {"APPROVED", "REJECTED"} : Review(c, s)
        \/ \E c \in Credits : Withdraw(c)
        \/ \E h \in Requests : ApproveCommit(h) \/ CancelCommit(h)
    BY <1>1, <1>2, <1>3, <1>4, <1>5, <1>6, <1>7, <1>8 DEF Next
  <1>10. QED
    BY <1>9 DEF Inserts

LEMMA LeaveMoves ==
    ASSUME [Next]_vars
    PROVE  \/ leave' = leave
           \/ \E h \in Requests : ApplyCommit(h) \/ ApproveCommit(h) \/ CancelCommit(h)
           \/ \E l \in Leaves, s \in {"REJECTED", "RETURNED"} : Decline(l, s)
  BY DEF Next, vars, EarnRead, EarnCommit, LogRead, LogCommit, OvertimeRead, OvertimeCommit,
         OvertimeReject, ApplyRead, ApproveRead, CancelRead, GiveUp, Review, Withdraw, Sweep, NextDay

\* A handler takes a snapshot, or drops it.
LEMMA NewOp ==
    ASSUME IInv, [Next]_vars, NEW h \in Requests, op'[h] # op[h]
    PROVE  \/ op'[h].kind \in {"idle", "earn", "log", "overtime"}
           \/ \E l \in Leaves, n \in LeaveDays, s \in StartDays : ApplyRead(h, l, n, s)
           \/ \E l \in Leaves : ApproveRead(h, l) \/ CancelRead(h, l)
  <1> DEFINE Small == op'[h].kind \in {"idle", "earn", "log", "overtime"}
  <1>1. \A g, o : g # h => ~Start(g, o) /\ ~Finish(g)
    BY DEF Start, Finish, IInv, TypeOK
  <1>2. \A o : Start(h, o) => op'[h] = o
    BY DEF Start, IInv, TypeOK
  <1>3. Finish(h) => Small
    BY DEF Finish, Idle, IInv, TypeOK
  <1>4. ASSUME NEW g \in Requests, NEW d \in Days, EarnRead(g, d) \/ LogRead(g, d) \/ OvertimeRead(g, d)
        PROVE  Small
    BY <1>1, <1>2, <1>4 DEF EarnRead, LogRead, OvertimeRead
  <1>5. ASSUME NEW g \in Requests, NEW c \in Credits, NEW n \in Earnings, NEW e \in ExpiryDays,
               EarnCommit(g, c, n, e)
        PROVE  Small
    BY <1>1, <1>3, <1>5 DEF EarnCommit
  <1>6. ASSUME NEW g \in Requests,
               \/ LogCommit(g) \/ OvertimeCommit(g) \/ ApplyCommit(g) \/ ApproveCommit(g)
               \/ CancelCommit(g) \/ GiveUp(g)
        PROVE  Small
    <2>1. Finish(g)
      BY <1>6 DEF LogCommit, OvertimeCommit, ApplyCommit, ApproveCommit, CancelCommit, GiveUp
    <2>2. QED
      BY <1>1, <1>3, <2>1
  <1>7. ASSUME NEW g \in Requests, NEW l \in Leaves, NEW n \in LeaveDays, NEW s \in StartDays,
               ApplyRead(g, l, n, s)
        PROVE  g = h
    BY <1>1, <1>7 DEF ApplyRead
  <1>8. ASSUME NEW g \in Requests, NEW l \in Leaves, ApproveRead(g, l) \/ CancelRead(g, l)
        PROVE  g = h
    BY <1>1, <1>8 DEF ApproveRead, CancelRead
  <1>9. /\ \A c \in Credits : ~Withdraw(c) /\ \A s : ~Review(c, s)
        /\ \A d \in Days : ~OvertimeReject(d)
        /\ \A l \in Leaves : \A s : ~Decline(l, s)
        /\ ~Sweep /\ ~NextDay /\ ~UNCHANGED vars
    BY DEF Withdraw, Review, OvertimeReject, Decline, Sweep, NextDay, vars
  <1> HIDE DEF Small
  <1>10. \/ Small
         \/ \E l \in Leaves, n \in LeaveDays, s \in StartDays : ApplyRead(h, l, n, s)
         \/ \E l \in Leaves : ApproveRead(h, l) \/ CancelRead(h, l)
    BY <1>4, <1>5, <1>6, <1>7, <1>8, <1>9 DEF Next
  <1>11. QED
    BY <1>10 DEF Small

\* A leave that was applied for keeps its days, and an approved one is never pending again.
LEMMA LeaveStands ==
    ASSUME IInv, [Next]_vars, NEW l \in Leaves, leave[l].status # "NONE"
    PROVE  /\ leave'[l].status # "NONE" /\ leave'[l].days = leave[l].days
           /\ leave[l].status \in {"APPROVED", "CANCELLED"} =>
                leave'[l].status \in {"APPROVED", "CANCELLED"}
  <1>0. leave \in [Leaves -> LeaveRows] /\ leave[l] \in LeaveRows
    BY DEF IInv, TypeOK
  <1>1. ASSUME NEW h \in Requests, ApplyCommit(h)
        PROVE  leave'[l] = leave[l]
    BY <1>0, <1>1 DEF ApplyCommit
  <1>2. ASSUME NEW k \in Leaves, NEW s \in {"APPROVED", "CANCELLED", "REJECTED", "RETURNED"},
               leave' = [leave EXCEPT ![k].status = s],
               leave[k].status \in {"APPROVED", "CANCELLED"} => s \in {"APPROVED", "CANCELLED"}
        PROVE  /\ leave'[l].status # "NONE" /\ leave'[l].days = leave[l].days
               /\ leave[l].status \in {"APPROVED", "CANCELLED"} =>
                    leave'[l].status \in {"APPROVED", "CANCELLED"}
    BY <1>0, <1>2 DEF LeaveRows
  <1>3. ASSUME NEW h \in Requests, ApproveCommit(h)
        PROVE  op[h].leave \in Leaves /\ leave' = [leave EXCEPT ![op[h].leave].status = "APPROVED"]
    BY <1>3, OpType DEF ApproveCommit
  <1>4. ASSUME NEW h \in Requests, CancelCommit(h)
        PROVE  op[h].leave \in Leaves /\ leave' = [leave EXCEPT ![op[h].leave].status = "CANCELLED"]
    BY <1>4, OpType DEF CancelCommit
  <1>5. ASSUME NEW k \in Leaves, NEW s \in {"REJECTED", "RETURNED"}, Decline(k, s)
        PROVE  leave[k].status = "PENDING" /\ leave' = [leave EXCEPT ![k].status = s]
    BY <1>5 DEF Decline
  <1>6. QED
    BY <1>1, <1>2, <1>3, <1>4, <1>5, LeaveMoves

-----------------------------------------------------------------------------
(* What decisions about leaves take and give back *)

\* What a set of updates takes of each credit, or gives back to it.
Taken(u)    == [c \in Credits |-> IF u[c].from < u[c].to THEN u[c].to - u[c].from ELSE 0]
Returned(u) == [c \in Credits |-> IF u[c].to < u[c].from THEN u[c].from - u[c].to ELSE 0]

LEMMA UpdateTables ==
    ASSUME NEW u \in UpdateSets
    PROVE  Taken(u) \in [Credits -> Nat] /\ Returned(u) \in [Credits -> Nat]
  <1>1. ASSUME NEW c \in Credits
        PROVE  /\ (IF u[c].from < u[c].to THEN u[c].to - u[c].from ELSE 0) \in Nat
               /\ (IF u[c].to < u[c].from THEN u[c].from - u[c].to ELSE 0) \in Nat
    <2>1. u[c].from \in Nat /\ u[c].to \in Nat
      BY DEF UpdateSets
    <2>2. QED
      BY <2>1
  <1>2. QED
    BY <1>1 DEF Taken, Returned

\* What the tables of days count.
Availed == [c \in Credits |-> credit[c].availed]

LEMMA Tables ==
    ASSUME IInv
    PROVE  /\ Availed \in [Credits -> Nat] /\ FreeOn(today) \in [Credits -> Nat]
           /\ \A s : DaysOf(s) \in [Leaves -> Nat]
           /\ IsFiniteSet(Credits) /\ IsFiniteSet(Leaves)
  <1>1. \A c \in Credits : credit[c].availed \in Nat /\ Unconsumed(c) \in Nat
    BY DEF IInv, TypeOK, CreditRows, Sound, AddsUp, Unconsumed
  <1>2. \A l \in Leaves : leave[l].days \in Nat
    BY DEF IInv, TypeOK, LeaveRows
  <1>3. QED
    BY <1>1, <1>2, CompOffAssumption DEF Availed, FreeOn, DaysOf

\* An approval is to take as many half days as the leave lasts.
LEMMA ConsumptionWeighs ==
    ASSUME IInv, NEW n \in Nat, NEW u \in Consumptions(n)
    PROVE  Total(Taken(u)) = n
  <1> DEFINE room == [c \in ValidOn(today) |-> Unconsumed(c)]
  <1>1. PICK t \in Spread(room, Expiry, n) : u = Updates(t, 1) /\ Total(t) = n
    BY DEF Consumptions
  <1>2. t \in [ValidOn(today) -> 0..n] /\ ValidOn(today) \in SUBSET Credits
    BY DEF Spread, ValidOn, Consumable, CreditsWith
  <1>3. t \in [ValidOn(today) -> Nat]
    BY <1>2
  <1>4. \A c \in Credits : Taken(u)[c] = IF c \in ValidOn(today) THEN t[c] ELSE 0
    <2> SUFFICES ASSUME NEW c \in Credits
                 PROVE  Taken(u)[c] = IF c \in ValidOn(today) THEN t[c] ELSE 0
      OBVIOUS
    <2>1. credit[c].availed \in Nat
      BY DEF IInv, TypeOK, CreditRows
    <2>2. CASE c \in ValidOn(today) /\ t[c] > 0
      <3>1. t[c] \in Nat /\ 1 * t[c] = t[c]
        BY <1>2, <2>2
      <3>2. u[c] = [from |-> credit[c].availed, to |-> credit[c].availed + t[c]]
        BY <1>1, <1>2, <2>2, <3>1 DEF Updates
      <3>3. QED
        BY <2>1, <2>2, <3>1, <3>2 DEF Taken
    <2>3. CASE ~(c \in ValidOn(today) /\ t[c] > 0)
      <3>1. u[c] = [from |-> 0, to |-> 0]
        BY <1>1, <1>2, <2>3 DEF Updates, Untouched
      <3>2. c \in ValidOn(today) => t[c] = 0
        BY <1>2, <2>3
      <3>3. QED
        BY <3>1, <3>2 DEF Taken
    <2>4. QED
      BY <2>2, <2>3
  <1>5. u \in UpdateSets
    BY ConsumptionsSound
  <1>6. Taken(u) \in [Credits -> Nat]
    BY <1>5, UpdateTables
  <1> HIDE DEF room
  <1>7. Total(Taken(u)) = Total(t)
    BY <1>2, <1>3, <1>4, <1>6, TotalExtends
  <1>8. QED
    BY <1>1, <1>7

\* A cancellation is to give back no more than the leave lasted.
LEMMA ReleaseWeighs ==
    ASSUME IInv, NEW n \in Nat, NEW u \in Releases(n)
    PROVE  Total(Returned(u)) <= n
  <1> DEFINE S == Consumable \cup CreditsWith({"AVAILED"})
             room == [c \in S |-> credit[c].availed]
  <1>1. PICK t \in Spread(room, Latest, n) : u = Updates(t, -1)
    BY DEF Releases
  <1>2. /\ t \in [S -> 0..n] /\ S \in SUBSET Credits
        /\ Total(t) = Least(n, Total(room)) /\ \A c \in S : t[c] <= room[c]
    BY <1>1 DEF Spread, Fits, Consumable, CreditsWith
  <1>3. t \in [S -> Nat] /\ room \in [S -> Nat] /\ IsFiniteSet(S)
    <2>1. IsFiniteSet(S)
      BY <1>2, FS_Subset, CompOffAssumption
    <2>2. \A c \in S : credit[c].availed \in Nat
      BY <1>2 DEF IInv, TypeOK, CreditRows
    <2>3. QED
      BY <1>2, <2>1, <2>2
  <1>4. Total(t) <= n
    BY <1>2, <1>3, TotalType DEF Least
  <1>5. \A c \in Credits : Returned(u)[c] = IF c \in S THEN t[c] ELSE 0
    <2> SUFFICES ASSUME NEW c \in Credits
                 PROVE  Returned(u)[c] = IF c \in S THEN t[c] ELSE 0
      OBVIOUS
    <2>1. credit[c].availed \in Nat
      BY DEF IInv, TypeOK, CreditRows
    <2>2. CASE c \in S /\ t[c] > 0
      <3>1. t[c] \in Nat /\ (-1) * t[c] = -t[c]
        BY <1>3, <2>2
      <3>2. u[c] = [from |-> credit[c].availed, to |-> credit[c].availed + (-1) * t[c]]
        BY <1>1, <1>2, <2>2 DEF Updates
      <3>3. QED
        BY <2>1, <2>2, <3>1, <3>2 DEF Returned
    <2>3. CASE ~(c \in S /\ t[c] > 0)
      <3>1. u[c] = [from |-> 0, to |-> 0]
        BY <1>1, <1>2, <2>3 DEF Updates, Untouched
      <3>2. c \in S => t[c] = 0
        BY <1>3, <2>3
      <3>3. QED
        BY <3>1, <3>2 DEF Returned
    <2>4. QED
      BY <2>2, <2>3
  <1>6. Returned(u) \in [Credits -> Nat]
    BY ReleasesSound, UpdateTables
  <1> HIDE DEF S, room
  <1>7. Total(Returned(u)) = Total(t)
    BY <1>2, <1>3, <1>5, <1>6, TotalExtends
  <1>8. QED
    BY <1>4, <1>7

\* A decision in flight is about a leave there is; an approval takes what the leave
\* lasts; a cancellation that gives something back is of an approved leave, and gives
\* back no more than it took.
Weighs(o) ==
    /\ o.kind = "approve" =>
          leave[o.leave].status # "NONE" /\ Total(Taken(o.updates)) = leave[o.leave].days
    /\ o.kind = "cancel" /\ Touched(o.updates) # {} =>
          /\ leave[o.leave].status \in {"APPROVED", "CANCELLED"}
          /\ Total(Returned(o.updates)) <= leave[o.leave].days

\* Nothing is taken of a credit that is not there.
BooksHeld ==
    /\ \A c \in Credits : credit[c].status = "NONE" => credit[c].availed = 0
    /\ \A h \in Requests : Weighs(op[h])

LEMMA WeighsStep ==
    ASSUME IInv, BooksHeld, [Next]_vars, NEW h \in Requests
    PROVE  Weighs(op[h])'
  <1>1. CASE op'[h] = op[h]
    <2>1. Weighs(op[h])
      BY DEF BooksHeld
    <2>2. op[h].kind \in {"approve", "cancel"} => op[h].leave \in Leaves
      BY OpType
    <2>3. op[h].kind \in {"approve", "cancel"} /\ leave[op[h].leave].status # "NONE" =>
             /\ leave'[op[h].leave].status # "NONE"
             /\ leave'[op[h].leave].days = leave[op[h].leave].days
             /\ leave[op[h].leave].status \in {"APPROVED", "CANCELLED"} =>
                  leave'[op[h].leave].status \in {"APPROVED", "CANCELLED"}
      BY <2>2, LeaveStands
    <2>4. PICK o : op[h] = o /\ op'[h] = o
      BY <1>1
    <2>5. QED
      BY <2>1, <2>3, <2>4 DEF Weighs, Taken, Returned, Touched
  <1>2. ASSUME NEW l \in Leaves, ApproveRead(h, l)
        PROVE  Weighs(op[h])'
    <2>1. PICK u \in Consumptions(leave[l].days) :
             op'[h] = [kind |-> "approve", leave |-> l, updates |-> u, since |-> today]
      BY <1>2 DEF ApproveRead, Start, IInv, TypeOK
    <2>2. leave[l].status = "PENDING" /\ leave' = leave /\ leave[l].days \in Nat
      BY <1>2 DEF ApproveRead, IInv, TypeOK, LeaveRows
    <2>3. Total(Taken(u)) = leave[l].days
      BY <2>2, ConsumptionWeighs
    <2>4. QED
      BY <2>1, <2>2, <2>3 DEF Weighs, Taken
  <1>3. ASSUME NEW l \in Leaves, CancelRead(h, l)
        PROVE  Weighs(op[h])'
    <2>1. PICK u \in IF leave[l].status = "APPROVED" THEN Releases(leave[l].days)
                     ELSE {NoUpdates} :
             op'[h] = [kind |-> "cancel", leave |-> l, updates |-> u]
      BY <1>3 DEF CancelRead, Start, IInv, TypeOK
    <2>2. leave' = leave /\ leave[l].days \in Nat
      BY <1>3 DEF CancelRead, IInv, TypeOK, LeaveRows
    <2>3. CASE leave[l].status = "APPROVED"
      <3>1. Total(Returned(u)) <= leave[l].days
        BY <2>1, <2>2, <2>3, ReleaseWeighs
      <3>2. QED
        BY <2>1, <2>2, <2>3, <3>1 DEF Weighs, Returned
    <2>4. CASE leave[l].status # "APPROVED"
      <3>1. Touched(u) = {}
        BY <2>1, <2>4 DEF NoUpdates, Touched
      <3>2. QED
        BY <2>1, <3>1 DEF Weighs, Touched
    <2>5. QED
      BY <2>3, <2>4
  <1>4. ASSUME op'[h].kind \notin {"approve", "cancel"}
        PROVE  Weighs(op[h])'
    BY <1>4 DEF Weighs
  <1>5. ASSUME NEW l \in Leaves, NEW n \in LeaveDays, NEW s \in StartDays, ApplyRead(h, l, n, s)
        PROVE  op'[h].kind \notin {"approve", "cancel"}
    BY <1>5 DEF ApplyRead, Start, IInv, TypeOK
  <1>6. QED
    BY <1>1, <1>2, <1>3, <1>4, <1>5, NewOp

\* Which days an application, an approval, a cancellation and a refusal move.
LEMMA ApplyDays ==
    ASSUME IInv, IInv', NEW h \in Requests, ApplyCommit(h)
    PROVE  /\ Total(DaysOf("PENDING"))' = Total(DaysOf("PENDING")) + op[h].days
           /\ DaysOf("APPROVED")' = DaysOf("APPROVED")
  <1> DEFINE l == op[h].leave
  <1>1. l \in Leaves /\ op[h].days \in Nat
    BY OpType, CompOffAssumption DEF ApplyCommit
  <1>2. /\ leave[l].status = "NONE"
        /\ leave' = [leave EXCEPT ![l] =
                        [status |-> "PENDING", days |-> op[h].days, start |-> op[h].start]]
        /\ leave \in [Leaves -> LeaveRows]
    BY DEF ApplyCommit, IInv, TypeOK
  <1>3. /\ DaysOf("PENDING")'[l] = DaysOf("PENDING")[l] + op[h].days
        /\ \A k \in Leaves : k # l => DaysOf("PENDING")'[k] = DaysOf("PENDING")[k]
    BY <1>1, <1>2 DEF DaysOf
  <1>4. DaysOf("APPROVED")' = DaysOf("APPROVED")
    BY <1>1, <1>2 DEF DaysOf
  <1>5. DaysOf("PENDING") \in [Leaves -> Nat] /\ IsFiniteSet(Leaves)
    BY Tables
  <1>6. DaysOf("PENDING")' \in [Leaves -> Nat]
    BY DEF DaysOf, IInv, TypeOK, LeaveRows
  <1> HIDE DEF l
  <1>7. Total(DaysOf("PENDING"))' = Total(DaysOf("PENDING")')
    BY DEF Total, HalfDays
  <1>8. Total(DaysOf("PENDING")') = Total(DaysOf("PENDING")) + op[h].days
    BY <1>1, <1>3, <1>5, <1>6, TotalMoves
  <1>9. QED
    BY <1>4, <1>7, <1>8

\* A leave whose status is rewritten moves its days from one status to the other.
LEMMA StatusDays ==
    ASSUME IInv, IInv', NEW l \in Leaves, NEW to, leave[l].status # to,
           leave' = [leave EXCEPT ![l].status = to]
    PROVE  \A s : /\ s = to =>
                       Total(DaysOf(s))' = Total(DaysOf(s)) + leave[l].days
                  /\ s = leave[l].status =>
                       Total(DaysOf(s)) = Total(DaysOf(s))' + leave[l].days
                  /\ s # to /\ s # leave[l].status => DaysOf(s)' = DaysOf(s)
  <1> SUFFICES ASSUME NEW s
               PROVE  /\ s = to =>
                           Total(DaysOf(s))' = Total(DaysOf(s)) + leave[l].days
                      /\ s = leave[l].status =>
                           Total(DaysOf(s)) = Total(DaysOf(s))' + leave[l].days
                      /\ s # to /\ s # leave[l].status => DaysOf(s)' = DaysOf(s)
    OBVIOUS
  <1>1. leave \in [Leaves -> LeaveRows] /\ leave[l] \in LeaveRows /\ leave[l].days \in Nat
    BY DEF IInv, TypeOK, LeaveRows
  <1>2. /\ \A k \in Leaves : k # l => leave'[k] = leave[k]
        /\ leave'[l].status = to /\ leave'[l].days = leave[l].days
    BY <1>1 DEF LeaveRows
  <1>3. /\ DaysOf(s) \in [Leaves -> Nat] /\ DaysOf(s)' \in [Leaves -> Nat]
        /\ IsFiniteSet(Leaves)
    <2>1. DaysOf(s)' \in [Leaves -> Nat]
      BY DEF DaysOf, IInv, TypeOK, LeaveRows
    <2>2. QED
      BY <2>1, Tables
  <1>4. \A k \in Leaves : k # l => DaysOf(s)'[k] = DaysOf(s)[k]
    BY <1>2 DEF DaysOf
  <1>5. /\ DaysOf(s)[l]  = IF leave[l].status = s THEN leave[l].days ELSE 0
        /\ DaysOf(s)'[l] = IF to = s THEN leave[l].days ELSE 0
    BY <1>2 DEF DaysOf
  <1>6. Total(DaysOf(s))' = Total(DaysOf(s)')
    BY DEF Total, HalfDays
  <1>7. CASE s = to
    <2>1. DaysOf(s)'[l] = DaysOf(s)[l] + leave[l].days
      BY <1>1, <1>5, <1>7
    <2>2. Total(DaysOf(s)') = Total(DaysOf(s)) + leave[l].days
      BY <1>1, <1>3, <1>4, <2>1, TotalMoves
    <2>3. QED
      BY <1>6, <1>7, <2>2
  <1>8. CASE s = leave[l].status
    <2>1. DaysOf(s)[l] = DaysOf(s)'[l] + leave[l].days
      BY <1>1, <1>5, <1>8
    <2>2. Total(DaysOf(s)) = Total(DaysOf(s)') + leave[l].days
      BY <1>1, <1>3, <1>4, <2>1, TotalMoves
    <2>3. QED
      BY <1>6, <1>8, <2>2
  <1>9. CASE s # to /\ s # leave[l].status
    <2>1. \A k \in Leaves : DaysOf(s)'[k] = DaysOf(s)[k]
      BY <1>4, <1>5, <1>9
    <2>2. QED
      BY <1>3, <1>9, <2>1
  <1>10. QED
    BY <1>7, <1>8, <1>9

-----------------------------------------------------------------------------
(* What is taken covers the leaves *)

\* Only a decision about a leave moves what is taken of a credit.
LEMMA AvailedStays ==
    ASSUME IInv, BooksHeld, [Next]_vars,
           \A h \in Requests : ~ApproveCommit(h) /\ ~CancelCommit(h)
    PROVE  /\ Availed' = Availed
           /\ \A c \in Credits : credit'[c].status = "NONE" => credit'[c].availed = 0
  <1>0. credit \in [Credits -> CreditRows]
    BY DEF IInv, TypeOK
  <1> SUFFICES ASSUME NEW c \in Credits
               PROVE  /\ credit'[c].availed = credit[c].availed
                      /\ credit'[c].status = "NONE" => credit'[c].availed = 0
    BY DEF Availed
  <1>1. CASE credit' = credit
    BY <1>1 DEF BooksHeld
  <1>2. CASE credit' = Swept
    <2>1. Swept[c].availed = credit[c].availed
      BY SweptSound
    <2>2. Swept[c].status = "NONE" => credit[c].status = "NONE"
      BY <1>0 DEF Swept, CreditRows
    <2>3. QED
      BY <1>2, <2>1, <2>2 DEF BooksHeld
  <1>3. ASSUME NEW x \in Credits, NEW d \in Days, NEW n \in Earnings, NEW e \in ExpiryDays,
               NEW s \in {"PENDING", "APPROVED"}, credit[x].status = "NONE",
               credit' = [credit EXCEPT ![x] = NewCredit(s, d, n, e)]
        PROVE  /\ credit'[c].availed = credit[c].availed
               /\ credit'[c].status = "NONE" => credit'[c].availed = 0
    <2>1. NewCredit(s, d, n, e).availed = 0
      BY DEF NewCredit
    <2>2. credit[x].availed = 0
      BY <1>3 DEF BooksHeld
    <2>3. credit'[c] = IF c = x THEN NewCredit(s, d, n, e) ELSE credit[c]
      BY <1>0, <1>3
    <2>4. QED
      BY <2>1, <2>2, <2>3 DEF BooksHeld
  <1>4. ASSUME NEW x \in Credits, NEW s \in {"APPROVED", "REJECTED"},
               credit' = [credit EXCEPT ![x].status = s]
        PROVE  /\ credit'[c].availed = credit[c].availed
               /\ credit'[c].status = "NONE" => credit'[c].availed = 0
    BY <1>0, <1>4 DEF CreditRows, BooksHeld
  <1>5. ASSUME NEW x \in Credits, Withdraw(x) \/ \E s \in {"APPROVED", "REJECTED"} : Review(x, s)
        PROVE  /\ credit'[c].availed = credit[c].availed
               /\ credit'[c].status = "NONE" => credit'[c].availed = 0
    <2>1. PICK s \in {"APPROVED", "REJECTED"} : credit' = [credit EXCEPT ![x].status = s]
      BY <1>5 DEF Review, Withdraw
    <2>2. QED
      BY <1>4, <2>1
  <1>6. QED
    BY <1>1, <1>2, <1>3, <1>5, CreditMoves

\* The write of an approval takes what it carries, the write of a cancellation gives
\* back what it carries: the compare-and-swap found every row as it was read.
LEMMA ApproveAvails ==
    ASSUME IInv, NEW h \in Requests, ApproveCommit(h)
    PROVE  /\ \A c \in Credits : credit'[c].availed = credit[c].availed + Taken(op[h].updates)[c]
           /\ Taken(op[h].updates) \in [Credits -> Nat]
           /\ \A c \in Touched(op[h].updates) : credit'[c].status # "NONE"
           /\ \A c \in Credits \ Touched(op[h].updates) : credit'[c] = credit[c]
  <1>1. PICK u \in UpdateSets : u = op[h].updates
    BY OpType DEF ApproveCommit
  <1>2. /\ op[h].kind = "approve" /\ StillAsRead(u) /\ credit' = Consume(u)
        /\ \A c \in Touched(u) : u[c].from < u[c].to
    BY <1>1 DEF ApproveCommit, IInv, Carries
  <1>3. ASSUME NEW c \in Credits
        PROVE  /\ credit'[c].availed = credit[c].availed + Taken(u)[c]
               /\ c \in Touched(u) => credit'[c].status # "NONE"
               /\ c \notin Touched(u) => credit'[c] = credit[c]
    <2>1. credit[c] \in CreditRows /\ credit[c].availed \in Nat /\ u[c].from \in Nat /\ u[c].to \in Nat
      BY DEF IInv, TypeOK, CreditRows, UpdateSets
    <2>2. CASE c \in Touched(u)
      <3>0. Consume(u)[c] = [credit[c] EXCEPT !.availed = u[c].to, !.status = StatusConsumed(c, u[c].to)]
        BY <2>2 DEF Consume
      <3>1. credit'[c] = [credit[c] EXCEPT !.availed = u[c].to, !.status = StatusConsumed(c, u[c].to)]
        BY <1>2, <3>0
      <3>2. credit'[c].availed = u[c].to /\ credit'[c].status = StatusConsumed(c, u[c].to)
        BY <2>1, <3>1 DEF CreditRows
      <3>3. credit[c].availed = u[c].from /\ u[c].from < u[c].to
        BY <1>2, <2>2 DEF StillAsRead
      <3>4. Taken(u)[c] = u[c].to - u[c].from
        BY <3>3 DEF Taken
      <3>5. QED
        BY <2>1, <2>2, <3>2, <3>3, <3>4 DEF StatusConsumed
    <2>3. CASE c \notin Touched(u)
      <3>0. Consume(u)[c] = credit[c]
        BY <2>3 DEF Consume
      <3>1. credit'[c] = credit[c]
        BY <1>2, <3>0
      <3>2. u[c] = [from |-> 0, to |-> 0]
        BY <2>3 DEF Touched, Untouched
      <3>3. Taken(u)[c] = 0
        BY <3>2 DEF Taken
      <3>4. QED
        BY <2>1, <2>3, <3>1, <3>3
    <2>4. QED
      BY <2>2, <2>3
  <1>4. QED
    BY <1>1, <1>3, UpdateTables DEF Touched

LEMMA CancelAvails ==
    ASSUME IInv, NEW h \in Requests, CancelCommit(h)
    PROVE  /\ \A c \in Credits : credit[c].availed = credit'[c].availed + Returned(op[h].updates)[c]
           /\ Returned(op[h].updates) \in [Credits -> Nat]
           /\ \A c \in Touched(op[h].updates) :
                credit'[c].status \in {"APPROVED", "PARTIALLY_AVAILED"}
           /\ \A c \in Credits \ Touched(op[h].updates) : credit'[c] = credit[c]
  <1>1. PICK u \in UpdateSets : u = op[h].updates
    BY OpType DEF CancelCommit
  <1>2. /\ op[h].kind = "cancel" /\ StillAsRead(u) /\ credit' = Release(u)
        /\ \A c \in Touched(u) : u[c].to < u[c].from
    BY <1>1 DEF CancelCommit, IInv, Carries
  <1>3. ASSUME NEW c \in Credits
        PROVE  /\ credit[c].availed = credit'[c].availed + Returned(u)[c]
               /\ c \in Touched(u) => credit'[c].status \in {"APPROVED", "PARTIALLY_AVAILED"}
               /\ c \notin Touched(u) => credit'[c] = credit[c]
    <2>1. credit[c] \in CreditRows /\ credit[c].availed \in Nat /\ u[c].from \in Nat /\ u[c].to \in Nat
      BY DEF IInv, TypeOK, CreditRows, UpdateSets
    <2>2. CASE c \in Touched(u)
      <3>0. Release(u)[c] = [credit[c] EXCEPT !.availed = u[c].to, !.status = StatusReleased(u[c].to)]
        BY <2>2 DEF Release
      <3>1. credit'[c] = [credit[c] EXCEPT !.availed = u[c].to, !.status = StatusReleased(u[c].to)]
        BY <1>2, <3>0
      <3>2. credit'[c].availed = u[c].to /\ credit'[c].status = StatusReleased(u[c].to)
        BY <2>1, <3>1 DEF CreditRows
      <3>3. credit[c].availed = u[c].from /\ u[c].to < u[c].from
        BY <1>2, <2>2 DEF StillAsRead
      <3>4. Returned(u)[c] = u[c].from - u[c].to
        BY <3>3 DEF Returned
      <3>5. QED
        BY <2>1, <2>2, <3>2, <3>3, <3>4 DEF StatusReleased
    <2>3. CASE c \notin Touched(u)
      <3>0. Release(u)[c] = credit[c]
        BY <2>3 DEF Release
      <3>1. credit'[c] = credit[c]
        BY <1>2, <3>0
      <3>2. u[c] = [from |-> 0, to |-> 0]
        BY <2>3 DEF Touched, Untouched
      <3>3. Returned(u)[c] = 0
        BY <3>2 DEF Returned
      <3>4. QED
        BY <2>1, <2>3, <3>1, <3>3
    <2>4. QED
      BY <2>2, <2>3
  <1>4. QED
    BY <1>1, <1>3, UpdateTables DEF Touched

LEMMA BooksStep ==
    ASSUME IInv, BooksHeld, [Next]_vars
    PROVE  BooksHeld'
  <1>1. \A h \in Requests : Weighs(op[h])'
    BY WeighsStep
  <1>2. ASSUME NEW c \in Credits, credit'[c].status = "NONE"
        PROVE  credit'[c].availed = 0
    <2>1. ASSUME NEW h \in Requests, ApproveCommit(h) \/ CancelCommit(h)
          PROVE  credit'[c] = credit[c]
      BY <1>2, <2>1, ApproveAvails, CancelAvails
    <2>2. QED
      BY <1>2, <2>1, AvailedStays DEF BooksHeld
  <1>3. QED
    BY <1>1, <1>2 DEF BooksHeld

\* How the days of approved leaves and the days taken move together.
LEMMA CoveredStep ==
    ASSUME IInv, IInv', BooksHeld, TakenIsCovered, [Next]_vars
    PROVE  TakenIsCovered'
  <1> DEFINE Approved == Total(DaysOf("APPROVED"))
  <1>0. /\ Availed \in [Credits -> Nat] /\ Availed' \in [Credits -> Nat]
        /\ IsFiniteSet(Credits) /\ Total(Availed) \in Nat /\ Total(Availed') \in Nat
        /\ Approved \in Nat /\ Approved' \in Nat
    <2>1. Availed' \in [Credits -> Nat]
      BY DEF Availed, IInv, TypeOK, CreditRows
    <2>2. DaysOf("APPROVED")' \in [Leaves -> Nat]
      BY DEF DaysOf, IInv, TypeOK, LeaveRows
    <2>3. Total(DaysOf("APPROVED"))' = Total(DaysOf("APPROVED")')
      BY DEF Total, HalfDays
    <2>4. QED
      BY <2>1, <2>2, <2>3, Tables, TotalType
  <1>1. /\ TakenIsCovered <=> Approved <= Total(Availed)
        /\ TakenIsCovered' <=> Approved' <= Total(Availed')
    BY DEF TakenIsCovered, Availed, Total, HalfDays
  <1>2. ASSUME NEW h \in Requests, ApproveCommit(h)
        PROVE  TakenIsCovered'
    <2>1. PICK u \in UpdateSets, l \in Leaves : u = op[h].updates /\ l = op[h].leave
      BY <1>2, OpType DEF ApproveCommit
    <2>2. /\ leave[l].status = "PENDING" /\ leave' = [leave EXCEPT ![l].status = "APPROVED"]
          /\ Total(Taken(u)) = leave[l].days
      BY <1>2, <2>1 DEF ApproveCommit, BooksHeld, Weighs
    <2>3. /\ \A c \in Credits : Availed'[c] = Availed[c] + Taken(u)[c]
          /\ Taken(u) \in [Credits -> Nat]
      BY <1>2, <2>1, ApproveAvails DEF Availed
    <2>4. Total(Availed') = Total(Availed) + leave[l].days
      BY <1>0, <2>2, <2>3, TotalAdds
    <2>5. Approved' = Approved + leave[l].days
      BY <2>2, StatusDays
    <2>6. leave[l].days \in Nat
      BY DEF IInv, TypeOK, LeaveRows
    <2> HIDE DEF Approved
    <2>7. QED
      BY <1>0, <1>1, <2>4, <2>5, <2>6
  <1>3. ASSUME NEW h \in Requests, CancelCommit(h)
        PROVE  TakenIsCovered'
    <2>1. PICK u \in UpdateSets, l \in Leaves : u = op[h].updates /\ l = op[h].leave
      BY <1>3, OpType DEF CancelCommit
    <2>2. /\ leave[l].status \in {"PENDING", "RETURNED", "APPROVED"}
          /\ leave' = [leave EXCEPT ![l].status = "CANCELLED"]
          /\ Touched(u) # {} => leave[l].status = "APPROVED" /\ Total(Returned(u)) <= leave[l].days
      BY <1>3, <2>1 DEF CancelCommit, BooksHeld, Weighs
    <2>3. /\ \A c \in Credits : Availed[c] = Availed'[c] + Returned(u)[c]
          /\ Returned(u) \in [Credits -> Nat]
          /\ \A c \in Credits \ Touched(u) : credit'[c] = credit[c]
      BY <1>3, <2>1, CancelAvails DEF Availed
    <2>4. Total(Availed) = Total(Availed') + Total(Returned(u)) /\ Total(Returned(u)) \in Nat
      BY <1>0, <2>3, TotalAdds, TotalType
    <2>5. leave[l].days \in Nat
      BY DEF IInv, TypeOK, LeaveRows
    <2>6. CASE leave[l].status = "APPROVED"
      <3>1. Approved = Approved' + leave[l].days
        BY <2>2, <2>6, StatusDays
      <3>2. Total(Returned(u)) <= leave[l].days
        <4>1. CASE Touched(u) = {}
          <5>1. \A c \in Credits : Availed'[c] = Availed[c]
            BY <2>3, <4>1 DEF Availed
          <5>2. Availed' = Availed
            BY <1>0, <5>1
          <5>3. QED
            BY <1>0, <2>4, <2>5, <5>2
        <4>2. QED
          BY <2>2, <4>1
      <3> HIDE DEF Approved
      <3>3. QED
        BY <1>0, <1>1, <2>4, <2>5, <3>1, <3>2
    <2>7. CASE leave[l].status # "APPROVED"
      <3>1. Approved' = Approved
        <4>1. /\ leave[l].status # "CANCELLED" /\ "APPROVED" # "CANCELLED"
              /\ leave' = [leave EXCEPT ![l].status = "CANCELLED"]
          BY <2>2
        <4>2. \A s : s # "CANCELLED" /\ s # leave[l].status => DaysOf(s)' = DaysOf(s)
          BY <4>1, StatusDays
        <4>3. DaysOf("APPROVED")' = DaysOf("APPROVED")
          BY <2>7, <4>1, <4>2
        <4>4. QED
          BY <4>3 DEF Total, HalfDays
      <3>2. \A c \in Credits : Availed'[c] = Availed[c]
        BY <2>2, <2>3, <2>7 DEF Availed
      <3>3. Availed' = Availed
        BY <1>0, <3>2
      <3>4. QED
        BY <1>1, <3>1, <3>3
    <2>8. QED
      BY <2>6, <2>7
  <1>4. ASSUME \A h \in Requests : ~ApproveCommit(h) /\ ~CancelCommit(h)
        PROVE  TakenIsCovered'
    <2>1. Availed' = Availed
      BY <1>4, AvailedStays
    <2>2. DaysOf("APPROVED")' = DaysOf("APPROVED")
      <3>1. CASE leave' = leave
        BY <3>1 DEF DaysOf
      <3>2. ASSUME NEW h \in Requests, ApplyCommit(h)
            PROVE  DaysOf("APPROVED")' = DaysOf("APPROVED")
        BY <3>2, ApplyDays
      <3>3. ASSUME NEW l \in Leaves, NEW s \in {"REJECTED", "RETURNED"}, Decline(l, s)
            PROVE  DaysOf("APPROVED")' = DaysOf("APPROVED")
        <4>1. leave[l].status = "PENDING" /\ leave' = [leave EXCEPT ![l].status = s]
          BY <3>3 DEF Decline
        <4>2. QED
          BY <3>3, <4>1, StatusDays
      <3>4. QED
        BY <1>4, <3>1, <3>2, <3>3, LeaveMoves
    <2>3. Approved' = Approved
      BY <2>2 DEF Total, HalfDays
    <2>4. QED
      BY <1>1, <2>1, <2>3
  <1>5. QED
    BY <1>2, <1>3, <1>4

\* Of an empty table there is nothing.
LEMMA TotalNone ==
    ASSUME NEW S, NEW f \in [S -> Nat], \A x \in S : f[x] = 0
    PROVE  Total(f) = 0
  <1>1. HalfDays(f) = {}
    <2>1. ASSUME NEW p \in HalfDays(f) PROVE FALSE
      <3>1. PICK x \in S : \E i \in 1..f[x] : p = <<x, i>>
        BY InHalfDays
      <3>2. 1..f[x] = {}
        BY <3>1
      <3>3. QED
        BY <3>1, <3>2
    <2>2. QED
      BY <2>1
  <1>2. QED
    BY <1>1, FS_EmptySet DEF Total

LEMMA FirstBooks == Init => BooksHeld /\ TakenIsCovered
  <1> SUFFICES ASSUME Init PROVE BooksHeld /\ TakenIsCovered
    OBVIOUS
  <1>1. BooksHeld
    BY DEF Init, BooksHeld, Weighs, Idle
  <1>2. IInv
    BY InitSound
  <1>3. Total(DaysOf("APPROVED")) = 0
    <2>1. \A l \in Leaves : DaysOf("APPROVED")[l] = 0
      BY DEF Init, DaysOf
    <2>2. DaysOf("APPROVED") \in [Leaves -> Nat]
      BY <1>2, Tables
    <2>3. QED
      BY <2>1, <2>2, TotalNone
  <1>4. Total(Availed) \in Nat
    BY <1>2, Tables, TotalType
  <1>5. QED
    BY <1>1, <1>3, <1>4 DEF TakenIsCovered, Availed

LEMMA AlwaysBooked == Spec => [](BooksHeld /\ TakenIsCovered)
  <1>1. IInv /\ IInv' /\ BooksHeld /\ TakenIsCovered /\ [Next]_vars => BooksHeld' /\ TakenIsCovered'
    BY BooksStep, CoveredStep
  <1>2. QED
    BY <1>1, FirstBooks, AlwaysSound, PTL DEF Spec

\* The days of approved leaves are taken from credits, whatever approvals,
\* cancellations, withdrawals and sweeps interleave: what an approval carries is written
\* whole or not at all, and a cancellation gives back no more than its leave took
\* (consumeForLeave, releaseForLeave).
THEOREM DaysTakenAreCovered == Spec => []TakenIsCovered
  BY AlwaysBooked, PTL

-----------------------------------------------------------------------------
(* What pending requests hold can be granted *)

\* What a row could still give on day t, and what the credits could give today.
FreeOf(r, t) ==
    IF r.status \in {"APPROVED", "PARTIALLY_AVAILED"} /\ r.expiry >= t
    THEN r.earned - r.availed ELSE 0
Free == [c \in Credits |-> FreeOf(credit[c], today)]

LEMMA FreeOfSound ==
    ASSUME NEW r, Sound(r), NEW t \in Days
    PROVE  FreeOf(r, t) \in Nat
  <1>1. r.earned \in Nat /\ r.availed \in Nat /\ r.availed <= r.earned
    BY DEF Sound, AddsUp, CreditRows
  <1>2. QED
    BY <1>1 DEF FreeOf

LEMMA FreeTable ==
    ASSUME IInv
    PROVE  Free \in [Credits -> Nat] /\ IsFiniteSet(Credits)
  <1>1. \A c \in Credits : FreeOf(credit[c], today) \in Nat
    BY FreeOfSound DEF IInv, TypeOK
  <1>2. QED
    BY <1>1, CompOffAssumption DEF Free

\* A balance read for a later start is within what is free today.
LEMMA FreeRead ==
    ASSUME IInv, NEW s \in Days
    PROVE  /\ FreeOn(s) \in [Credits -> Nat]
           /\ \A c \in Credits : FreeOn(s)[c] <= Free[c]
           /\ FreeOn(today) = Free
  <1>1. ASSUME NEW c \in Credits, NEW t \in Days
        PROVE  /\ FreeOn(t)[c] \in Nat /\ FreeOn(t)[c] <= Free[c]
               /\ FreeOn(today)[c] = Free[c]
    <2>1. /\ c \in ValidOn(t) <=> c \in Consumable /\ credit[c].expiry >= t
          /\ c \in ValidOn(today) <=> c \in Consumable /\ credit[c].expiry >= today
          /\ c \in Consumable <=> credit[c].status \in {"APPROVED", "PARTIALLY_AVAILED"}
      BY DEF ValidOn, Consumable, CreditsWith
    <2>2. Free[c] \in Nat
      BY FreeTable
    <2>3. Free[c] = IF c \in ValidOn(today) THEN Unconsumed(c) ELSE 0
      BY <2>1 DEF Free, FreeOf, Unconsumed
    <2>4. /\ FreeOn(t)[c] = IF c \in ValidOn(today) \cap ValidOn(t) THEN Unconsumed(c) ELSE 0
          /\ FreeOn(today)[c] = IF c \in ValidOn(today) THEN Unconsumed(c) ELSE 0
      BY DEF FreeOn
    <2>5. QED
      BY <2>2, <2>3, <2>4
  <1>2. FreeOn(today) = Free
    <2>1. \A c \in Credits : FreeOn(today)[c] = Free[c]
      BY <1>1
    <2>2. QED
      BY <2>1 DEF FreeOn, Free
  <1>3. FreeOn(s) \in [Credits -> Nat]
    <2>1. FreeOn(s) = [c \in Credits |-> FreeOn(s)[c]]
      BY DEF FreeOn
    <2>2. QED
      BY <1>1, <2>1
  <1>4. QED
    BY <1>1, <1>2, <1>3

\* Days pass, and nothing else changes the date.
LEMMA DateMoves ==
    ASSUME [Next]_vars
    PROVE  today' = today \/ NextDay
  BY Zenon DEF Next, vars, EarnRead, EarnCommit, LogRead, LogCommit, OvertimeRead, OvertimeCommit,
         OvertimeReject, ApplyRead, ApplyCommit, Decline, ApproveRead, ApproveCommit,
         CancelRead, CancelCommit, GiveUp, Review, Withdraw, Sweep

\* Only an approval takes of what is free, if nothing lapses.
LEMMA FreeStep ==
    ASSUME IInv, IInv', [Next]_vars, "lapse" \notin races',
           \A h \in Requests : ~ApproveCommit(h)
    PROVE  \A c \in Credits : Free[c] <= Free'[c]
  <1> SUFFICES ASSUME NEW c \in Credits
               PROVE  FreeOf(credit[c], today) <= FreeOf(credit'[c], today')
    BY DEF Free
  <1>1. /\ FreeOf(credit[c], today) \in Nat /\ FreeOf(credit'[c], today') \in Nat
        /\ credit[c] \in CreditRows /\ credit \in [Credits -> CreditRows]
        /\ today \in Int /\ today' \in Int /\ credit[c].expiry \in Int
    <2>1. /\ today \in Days /\ today' \in Days /\ Sound(credit[c]) /\ Sound(credit'[c])
          /\ credit \in [Credits -> CreditRows]
      BY DEF IInv, TypeOK
    <2>2. FreeOf(credit[c], today) \in Nat /\ FreeOf(credit'[c], today') \in Nat
      BY <2>1, FreeOfSound
    <2>3. credit[c] \in CreditRows /\ credit[c].expiry \in Int
      BY <2>1, CompOffAssumption DEF CreditRows, Never
    <2>4. today \in Int /\ today' \in Int
      BY <2>1, CompOffAssumption DEF Days
    <2>5. QED
      BY <2>1, <2>2, <2>3, <2>4
  <1>2. CASE NextDay
    <2>1. /\ credit' = credit /\ today' = today + 1
          /\ c \in Consumable => credit[c].expiry # today
      BY <1>2 DEF NextDay, Fell, Consumable, CreditsWith
    <2>2. credit[c].status \in {"APPROVED", "PARTIALLY_AVAILED"} /\ credit[c].expiry >= today
            => credit[c].expiry >= today'
      BY <1>1, <2>1 DEF Consumable, CreditsWith
    <2>3. QED
      BY <1>1, <2>1, <2>2 DEF FreeOf
  <1>3. CASE today' = today
    <2>1. CASE credit' = credit
      BY <1>1, <1>3, <2>1
    <2>2. CASE credit' = Swept
      <3>1. Swept[c] = credit[c] \/ credit[c].expiry < today
        BY DEF Swept
      <3>2. CASE Swept[c] = credit[c]
        BY <1>1, <1>3, <2>2, <3>2
      <3>3. CASE credit[c].expiry < today
        <4>1. FreeOf(credit[c], today) = 0
          BY <1>1, <3>3 DEF FreeOf
        <4>2. QED
          BY <1>1, <4>1
      <3>4. QED
        BY <3>1, <3>2, <3>3
    <2>3. ASSUME NEW x \in Credits, credit[x].status \in {"NONE", "PENDING"},
                 c # x => credit'[c] = credit[c]
          PROVE  FreeOf(credit[c], today) <= FreeOf(credit'[c], today')
      <3>1. CASE c = x
        <4>1. FreeOf(credit[c], today) = 0
          BY <2>3, <3>1 DEF FreeOf
        <4>2. QED
          BY <1>1, <4>1
      <3>2. CASE c # x
        <4>1. credit'[c] = credit[c]
          BY <2>3, <3>2
        <4>2. QED
          BY <1>1, <1>3, <4>1
      <3>3. QED
        BY <3>1, <3>2
    <2>4. ASSUME NEW x \in Credits, NEW s \in {"APPROVED", "REJECTED"}, Review(x, s)
          PROVE  FreeOf(credit[c], today) <= FreeOf(credit'[c], today')
      <3>1. credit[x].status = "PENDING"
        BY <2>4 DEF Review
      <3>2. c # x => credit'[c] = credit[c]
        BY <1>1, <2>4 DEF Review
      <3>3. QED
        BY <2>3, <3>1, <3>2
    <2>5. ASSUME NEW x \in Credits, NEW r, credit[x].status = "NONE",
                 credit' = [credit EXCEPT ![x] = r]
          PROVE  FreeOf(credit[c], today) <= FreeOf(credit'[c], today')
      <3>1. c # x => credit'[c] = credit[c]
        BY <1>1, <2>5
      <3>2. QED
        BY <2>3, <2>5, <3>1
    <2>6. \A x \in Credits : ~Withdraw(x)
      BY DEF Withdraw, Fell
    <2>7. ASSUME NEW h \in Requests, CancelCommit(h)
          PROVE  FreeOf(credit[c], today) <= FreeOf(credit'[c], today')
      <3>1. PICK u \in UpdateSets : u = op[h].updates
        BY <2>7, OpType DEF CancelCommit
      <3>2. CASE c \notin Touched(u)
        <4>1. credit'[c] = credit[c]
          BY <2>7, <3>1, <3>2, CancelAvails
        <4>2. QED
          BY <1>1, <1>3, <4>1
      <3>3. CASE c \in Touched(u)
        <4>1. credit'[c].status \in {"APPROVED", "PARTIALLY_AVAILED"}
          BY <2>7, <3>1, <3>3, CancelAvails
        <4>2. /\ credit' = Release(u) /\ StillAsRead(u)
              /\ \A x \in Touched(u) : /\ credit[x].status # "NONE" /\ u[x].to < u[x].from
                                       /\ u[x].from <= credit[x].earned
          BY <2>7, <3>1 DEF CancelCommit, IInv, Carries
        <4>3. Kept(credit[c], credit'[c]) /\ credit'[c].availed <= credit[c].availed
          BY <4>2, ReleaseSound
        <4>4. credit'[c].earned = credit[c].earned /\ credit'[c].expiry = credit[c].expiry
          BY <3>3, <4>2, <4>3 DEF Kept
        <4>5. /\ credit[c].earned \in Int /\ credit[c].availed \in Int
              /\ credit'[c].availed \in Int
          BY DEF IInv, TypeOK, CreditRows
        <4>6. QED
          BY <1>1, <1>3, <4>1, <4>3, <4>4, <4>5 DEF FreeOf
      <3>4. QED
        BY <3>2, <3>3
    <2>8. QED
      BY <2>1, <2>2, <2>4, <2>5, <2>6, <2>7, CreditMoves
  <1>4. QED
    BY <1>2, <1>3, DateMoves

\* An approval takes of what is free no more than it carries.
LEMMA FreeTaken ==
    ASSUME IInv, IInv', NEW h \in Requests, ApproveCommit(h)
    PROVE  \A c \in Credits : Free[c] <= Free'[c] + Taken(op[h].updates)[c]
  <1>1. PICK u \in UpdateSets : u = op[h].updates
    BY OpType DEF ApproveCommit
  <1>2. /\ credit' = Consume(u) /\ StillAsRead(u) /\ today' = today
        /\ \A x \in Touched(u) : /\ credit[x].status # "NONE" /\ u[x].from < u[x].to
                                 /\ u[x].to <= credit[x].earned
    BY <1>1 DEF ApproveCommit, IInv, Carries
  <1>3. /\ \A c \in Credits : credit'[c].availed = credit[c].availed + Taken(u)[c]
        /\ Taken(u) \in [Credits -> Nat]
        /\ \A c \in Credits \ Touched(u) : credit'[c] = credit[c]
    BY <1>1, ApproveAvails
  <1> SUFFICES ASSUME NEW c \in Credits
               PROVE  FreeOf(credit[c], today) <= FreeOf(credit'[c], today') + Taken(u)[c]
    BY <1>1 DEF Free
  <1>4. /\ FreeOf(credit[c], today) \in Nat /\ FreeOf(credit'[c], today') \in Nat
        /\ Taken(u)[c] \in Nat /\ Sound(credit'[c])
    BY <1>3, FreeOfSound DEF IInv, TypeOK
  <1>5. CASE c \notin Touched(u)
    <2>1. credit'[c] = credit[c]
      BY <1>3, <1>5
    <2>2. QED
      BY <1>2, <1>4, <2>1
  <1>6. CASE c \in Touched(u)
    <2>1. Kept(credit[c], credit'[c])
      BY <1>2, ConsumeSound
    <2>2. credit'[c].earned = credit[c].earned /\ credit'[c].expiry = credit[c].expiry
      BY <1>2, <1>6, <2>1 DEF Kept
    <2>3. Consume(u)[c] = [credit[c] EXCEPT !.availed = u[c].to, !.status = StatusConsumed(c, u[c].to)]
      BY <1>6 DEF Consume
    <2>4. credit'[c].status = StatusConsumed(c, u[c].to)
      BY <1>2, <2>3 DEF IInv, TypeOK, CreditRows
    <2>5. /\ credit[c].earned \in Int /\ credit[c].availed \in Int
          /\ credit'[c].availed \in Int
      BY DEF IInv, TypeOK, CreditRows
    <2>6. credit'[c].availed = credit[c].availed + Taken(u)[c]
      BY <1>3
    <2>7. CASE credit'[c].status = "AVAILED"
      <3>1. credit'[c].availed = credit'[c].earned
        BY <1>4, <2>7 DEF Sound, AddsUp
      <3>2. FreeOf(credit[c], today) = 0 \/ FreeOf(credit[c], today) = Taken(u)[c]
        BY <1>4, <2>2, <2>5, <2>6, <3>1 DEF FreeOf
      <3>3. QED
        BY <1>4, <3>2
    <2>8. CASE credit'[c].status = "PARTIALLY_AVAILED"
      BY <1>2, <1>4, <2>2, <2>5, <2>6, <2>8 DEF FreeOf
    <2>9. QED
      BY <2>4, <2>7, <2>8 DEF StatusConsumed
  <1>7. QED
    BY <1>5, <1>6

\* The applications in flight.
Applying == InFlight("balanceFirst") \cup InFlight("holdsFirst")

\* The users row lock admits one application at a time; the holds it has read only
\* shrink until it inserts, and so does its balance, unless a credit lapses or an
\* approval falls between its two reads.
AppliesHeld ==
    /\ \A g, h \in Applying : g = h
    /\ \A h \in InFlight("holdsFirst"), l \in Leaves : DaysOf("PENDING")[l] <= op[h].held[l]
    /\ \A h \in InFlight("balanceFirst"), c \in Credits :
          /\ op[h].free[c] \in Nat
          /\ races \cap {"lapse", "split"} = {} => op[h].free[c] <= Free[c]

LEMMA InApplying ==
    ASSUME NEW h \in Requests
    PROVE  h \in Applying <=> op[h].kind \in {"balanceFirst", "holdsFirst"}
  BY DEF Applying, InFlight

\* What an application finds when it starts: no other one in flight.
LEMMA ApplyStarts ==
    ASSUME IInv, NEW h \in Requests, NEW l \in Leaves, NEW n \in LeaveDays,
           NEW s \in StartDays, ApplyRead(h, l, n, s)
    PROVE  /\ Applying = {} /\ leave' = leave
           /\ \A g \in Requests : g # h => op'[g] = op[g]
           /\ \/ op'[h].kind = "balanceFirst" /\ op'[h].free = FreeOn(s)
              \/ op'[h].kind = "holdsFirst" /\ op'[h].held = DaysOf("PENDING")
  <1>1. op \in [Requests -> Ops]
    BY DEF IInv, TypeOK
  <1>2. Applying = {} /\ leave' = leave
    BY DEF ApplyRead, UserLocked, Applying
  <1>3. CASE Start(h, [kind |-> "balanceFirst", leave |-> l, days |-> n, start |-> s,
                       free |-> FreeOn(s)])
    BY <1>1, <1>2, <1>3 DEF Start
  <1>4. CASE Start(h, [kind |-> "holdsFirst", leave |-> l, days |-> n, start |-> s,
                       held |-> DaysOf("PENDING")])
    BY <1>1, <1>2, <1>4 DEF Start
  <1>5. QED
    BY <1>3, <1>4 DEF ApplyRead

\* Which applications are in flight after a step: those before it, or one that starts.
LEMMA ApplyingNow ==
    ASSUME IInv, [Next]_vars, NEW h \in Requests,
           op'[h].kind \in {"balanceFirst", "holdsFirst"}
    PROVE  \/ op'[h] = op[h]
           \/ \E l \in Leaves, n \in LeaveDays, s \in StartDays : ApplyRead(h, l, n, s)
  <1>1. ASSUME NEW l \in Leaves, ApproveRead(h, l) \/ CancelRead(h, l)
        PROVE  op'[h].kind \in {"approve", "cancel"}
    BY <1>1 DEF ApproveRead, CancelRead, Start, IInv, TypeOK
  <1>2. QED
    BY <1>1, NewOp

LEMMA OneApplies ==
    ASSUME IInv, [Next]_vars, \A g, h \in Applying : g = h,
           NEW g \in Requests, op'[g].kind \in {"balanceFirst", "holdsFirst"},
           NEW h \in Requests, op'[h].kind \in {"balanceFirst", "holdsFirst"}
    PROVE  g = h
  <1>1. ASSUME NEW a \in Requests, NEW b \in Requests, a # b,
               op'[b].kind \in {"balanceFirst", "holdsFirst"},
               NEW l \in Leaves, NEW n \in LeaveDays, NEW s \in StartDays, ApplyRead(a, l, n, s)
        PROVE  FALSE
    <2>1. Applying = {} /\ op'[b] = op[b]
      BY <1>1, ApplyStarts
    <2>2. b \in Applying
      BY <1>1, <2>1, InApplying
    <2>3. QED
      BY <2>1, <2>2
  <1>2. CASE op'[g] = op[g] /\ op'[h] = op[h]
    BY <1>2, InApplying
  <1>3. QED
    BY <1>1, <1>2, ApplyingNow

\* Only an application adds to what pending requests hold.
LEMMA HoldsShrink ==
    ASSUME IInv, IInv', [Next]_vars, \A h \in Requests : ~ApplyCommit(h)
    PROVE  \A l \in Leaves : DaysOf("PENDING")'[l] <= DaysOf("PENDING")[l]
  <1> SUFFICES ASSUME NEW l \in Leaves
               PROVE  DaysOf("PENDING")'[l] <= DaysOf("PENDING")[l]
    OBVIOUS
  <1>1. /\ leave \in [Leaves -> LeaveRows] /\ leave[l].days \in Nat
        /\ DaysOf("PENDING")[l]  = IF leave[l].status = "PENDING" THEN leave[l].days ELSE 0
        /\ DaysOf("PENDING")'[l] = IF leave'[l].status = "PENDING" THEN leave'[l].days ELSE 0
    BY DEF IInv, TypeOK, LeaveRows, DaysOf
  <1>2. CASE leave' = leave
    BY <1>1, <1>2
  <1>3. ASSUME NEW k \in Leaves, NEW s \in {"APPROVED", "CANCELLED", "REJECTED", "RETURNED"},
               leave' = [leave EXCEPT ![k].status = s]
        PROVE  DaysOf("PENDING")'[l] <= DaysOf("PENDING")[l]
    BY <1>1, <1>3 DEF LeaveRows
  <1>4. ASSUME NEW h \in Requests, ApproveCommit(h)
        PROVE  op[h].leave \in Leaves /\ leave' = [leave EXCEPT ![op[h].leave].status = "APPROVED"]
    BY <1>4, OpType DEF ApproveCommit
  <1>5. ASSUME NEW h \in Requests, CancelCommit(h)
        PROVE  op[h].leave \in Leaves /\ leave' = [leave EXCEPT ![op[h].leave].status = "CANCELLED"]
    BY <1>5, OpType DEF CancelCommit
  <1>6. ASSUME NEW k \in Leaves, NEW s \in {"REJECTED", "RETURNED"}, Decline(k, s)
        PROVE  leave' = [leave EXCEPT ![k].status = s]
    BY <1>6 DEF Decline
  <1>7. QED
    BY <1>2, <1>3, <1>4, <1>5, <1>6, LeaveMoves

LEMMA AppliesStep ==
    ASSUME IInv, IInv', AppliesHeld, [Next]_vars
    PROVE  AppliesHeld'
  <1>1. races \subseteq races'
    <2>1. UNCHANGED vars => races \subseteq races'
      BY DEF vars
    <2>2. QED
      BY <2>1, HistoryGrows
  <1>2. ASSUME NEW g \in Requests, op'[g].kind \in {"balanceFirst", "holdsFirst"},
               NEW h \in Requests, op'[h].kind \in {"balanceFirst", "holdsFirst"}
        PROVE  g = h
    BY <1>2, OneApplies DEF AppliesHeld
  <1>3. ASSUME NEW h \in Requests, op'[h].kind = "holdsFirst", NEW l \in Leaves
        PROVE  DaysOf("PENDING")'[l] <= op'[h].held[l]
    <2>1. CASE op'[h] = op[h]
      <3>1. DaysOf("PENDING")[l] <= op[h].held[l]
        BY <1>3, <2>1 DEF AppliesHeld, InFlight
      <3>2. ASSUME NEW g \in Requests PROVE ~ApplyCommit(g)
        <4>1. ApplyCommit(g) => g \in Applying /\ op'[g] = Idle
          BY InApplying DEF ApplyCommit, Finish, IInv, TypeOK
        <4>2. h \in Applying
          BY <1>3, <2>1, InApplying
        <4>3. op'[h] # Idle
          BY <1>3 DEF Idle
        <4>4. QED
          BY <4>1, <4>2, <4>3 DEF AppliesHeld
      <3>3. DaysOf("PENDING")'[l] <= DaysOf("PENDING")[l]
        BY <3>2, HoldsShrink
      <3>4. DaysOf("PENDING")[l] \in Nat /\ DaysOf("PENDING")'[l] \in Nat
        BY DEF DaysOf, IInv, TypeOK, LeaveRows
      <3>5. op[h].held[l] \in Nat
        <4>1. op[h] \in Ops
          BY DEF IInv, TypeOK
        <4>2. QED
          BY <1>3, <2>1, <4>1 DEF Ops, Idle, DayOps, ApplyOps, LeaveOps
      <3>6. QED
        BY <2>1, <3>1, <3>3, <3>4, <3>5
    <2>2. ASSUME NEW k \in Leaves, NEW n \in LeaveDays, NEW s \in StartDays,
                 ApplyRead(h, k, n, s)
          PROVE  DaysOf("PENDING")'[l] <= op'[h].held[l]
      <3>1. op'[h].held = DaysOf("PENDING") /\ leave' = leave
        BY <1>3, <2>2, ApplyStarts
      <3>2. DaysOf("PENDING")'[l] = DaysOf("PENDING")[l]
        BY <3>1 DEF DaysOf
      <3>3. DaysOf("PENDING")[l] \in Nat
        BY Tables
      <3>4. QED
        BY <3>1, <3>2, <3>3
    <2>3. QED
      BY <1>3, <2>1, <2>2, ApplyingNow
  <1>4. ASSUME NEW h \in Requests, op'[h].kind = "balanceFirst", NEW c \in Credits
        PROVE  /\ op'[h].free[c] \in Nat
               /\ races' \cap {"lapse", "split"} = {} => op'[h].free[c] <= Free'[c]
    <2>0. /\ Free[c] \in Nat /\ Free'[c] \in Nat
      <3>1. Free'[c] \in Nat
        BY FreeOfSound DEF Free, IInv, TypeOK
      <3>2. QED
        BY <3>1, FreeTable
    <2>1. CASE op'[h] = op[h]
      <3>1. h \in InFlight("balanceFirst")
        BY <1>4, <2>1 DEF InFlight
      <3>2. /\ op[h].free[c] \in Nat
            /\ races \cap {"lapse", "split"} = {} => op[h].free[c] <= Free[c]
        BY <3>1 DEF AppliesHeld
      <3>3. ASSUME races' \cap {"lapse", "split"} = {}
            PROVE  op'[h].free[c] <= Free'[c]
        <4>1. \A g \in Requests : ~ApproveCommit(g)
          BY <3>1, <3>3 DEF ApproveCommit
        <4>2. Free[c] <= Free'[c]
          BY <3>3, <4>1, FreeStep
        <4>3. op[h].free[c] <= Free[c]
          BY <1>1, <3>2, <3>3
        <4>4. QED
          BY <2>0, <2>1, <3>2, <4>2, <4>3
      <3>4. QED
        BY <2>1, <3>2, <3>3
    <2>2. ASSUME NEW k \in Leaves, NEW n \in LeaveDays, NEW s \in StartDays,
                 ApplyRead(h, k, n, s)
          PROVE  /\ op'[h].free[c] \in Nat
                 /\ races' \cap {"lapse", "split"} = {} => op'[h].free[c] <= Free'[c]
      <3>1. op'[h].free = FreeOn(s)
        BY <1>4, <2>2, ApplyStarts
      <3>2. s \in Days
        BY CompOffAssumption
      <3>3. FreeOn(s)[c] \in Nat /\ FreeOn(s)[c] <= Free[c]
        BY <3>2, FreeRead
      <3>4. ASSUME "lapse" \notin races'
            PROVE  Free[c] <= Free'[c]
        <4>1. \A g \in Requests : ~ApproveCommit(g)
          <5>1. op[h].kind # "approve" /\ op'[h] # op[h]
            BY <1>4, <2>2 DEF ApplyRead, Start, Idle
          <5>2. ASSUME NEW g \in Requests, ApproveCommit(g)
                PROVE  op'[g] = Idle /\ \A x \in Requests : x # g => op'[x] = op[x]
            BY <5>2 DEF ApproveCommit, Finish, IInv, TypeOK
          <5>3. ApproveCommit(h) => FALSE
            BY <5>1 DEF ApproveCommit
          <5>4. QED
            BY <5>1, <5>2, <5>3
        <4>2. QED
          BY <3>4, <4>1, FreeStep
      <3>5. QED
        BY <2>0, <3>1, <3>3, <3>4
    <2>3. QED
      BY <1>4, <2>1, <2>2, ApplyingNow
  <1>5. \A g, h \in Applying' : g = h
    BY <1>2 DEF Applying, InFlight
  <1>6. QED
    BY <1>3, <1>4, <1>5 DEF AppliesHeld, InFlight

\* What is affordable, in terms of the tables above.
LEMMA Affords ==
    ASSUME IInv, IInv'
    PROVE  /\ Total(Free) \in Nat /\ Total(Free') \in Nat
           /\ Total(DaysOf("PENDING")) \in Nat /\ Total(DaysOf("PENDING")') \in Nat
           /\ PendingIsAffordable <=>
                (races \cap {"lapse", "split"} = {} => Total(DaysOf("PENDING")) <= Total(Free))
           /\ PendingIsAffordable' <=>
                (races' \cap {"lapse", "split"} = {} => Total(DaysOf("PENDING")') <= Total(Free'))
  <1>1. /\ Free \in [Credits -> Nat] /\ IsFiniteSet(Credits) /\ IsFiniteSet(Leaves)
        /\ DaysOf("PENDING") \in [Leaves -> Nat]
    BY FreeTable, Tables
  <1>2. Free' \in [Credits -> Nat] /\ DaysOf("PENDING")' \in [Leaves -> Nat]
    <2>1. \A c \in Credits : FreeOf(credit'[c], today') \in Nat
      BY FreeOfSound DEF IInv, TypeOK
    <2>2. Free' \in [Credits -> Nat]
      BY <2>1 DEF Free
    <2>3. DaysOf("PENDING")' \in [Leaves -> Nat]
      BY DEF DaysOf, IInv, TypeOK, LeaveRows
    <2>4. QED
      BY <2>2, <2>3
  <1>3. /\ Total(Free) \in Nat /\ Total(Free') \in Nat
        /\ Total(DaysOf("PENDING")) \in Nat /\ Total(DaysOf("PENDING")') \in Nat
    BY <1>1, <1>2, TotalType
  <1>4. FreeOn(today) = Free
    BY FreeRead DEF IInv, TypeOK
  <1>5. PendingIsAffordable' <=>
          (races' \cap {"lapse", "split"} = {} =>
             Total(FreeOn(today)') - Total(DaysOf("PENDING")') >= 0)
    BY DEF PendingIsAffordable, Suffices, Total, HalfDays
  <1>6. FreeOn(today)' = Free'
    BY DEF FreeOn, ValidOn, Consumable, CreditsWith, Unconsumed, Free, FreeOf
  <1>7. PendingIsAffordable <=>
          (races \cap {"lapse", "split"} = {} =>
             Total(FreeOn(today)) - Total(DaysOf("PENDING")) >= 0)
    BY DEF PendingIsAffordable, Suffices
  <1>8. QED
    BY <1>3, <1>4, <1>5, <1>6, <1>7

\* An application is refused unless what it found free covers its own days and the
\* days it found held, and neither reading errs to its favour.
LEMMA ApplyAffords ==
    ASSUME IInv, IInv', AppliesHeld, NEW h \in Requests, ApplyCommit(h),
           races \cap {"lapse", "split"} = {}
    PROVE  Total(DaysOf("PENDING")) + op[h].days <= Total(Free)
  <1>1. /\ Total(Free) \in Nat /\ Total(DaysOf("PENDING")) \in Nat
        /\ op[h].days \in Nat /\ op[h].start \in Days
        /\ Free \in [Credits -> Nat] /\ IsFiniteSet(Credits) /\ IsFiniteSet(Leaves)
        /\ DaysOf("PENDING") \in [Leaves -> Nat]
    BY Affords, FreeTable, Tables, OpType, CompOffAssumption DEF ApplyCommit
  <1>2. op[h] \in ApplyOps
    BY DEF ApplyCommit, IInv, TypeOK, Ops, Idle, DayOps, ApplyOps, LeaveOps
  <1>3. CASE /\ op[h].kind = "balanceFirst"
             /\ Suffices(op[h].free, DaysOf("PENDING"), op[h].days)
    <2>1. \A c \in Credits : op[h].free[c] \in Nat /\ op[h].free[c] <= Free[c]
      BY <1>3 DEF AppliesHeld, InFlight
    <2>2. PICK f \in [Credits -> Int] : f = op[h].free
      BY <1>2, <1>3 DEF ApplyOps
    <2>3. f \in [Credits -> Nat]
      BY <2>1, <2>2
    <2>4. Total(f) <= Total(Free) /\ Total(f) \in Nat
      BY <1>1, <2>1, <2>2, <2>3, TotalGrows, TotalType
    <2>5. Total(f) - Total(DaysOf("PENDING")) >= op[h].days
      BY <1>3, <2>2 DEF Suffices
    <2>6. QED
      BY <1>1, <2>4, <2>5
  <1>4. CASE /\ op[h].kind = "holdsFirst"
             /\ Suffices(FreeOn(op[h].start), op[h].held, op[h].days)
    <2>1. \A l \in Leaves : DaysOf("PENDING")[l] <= op[h].held[l]
      BY <1>4 DEF AppliesHeld, InFlight
    <2>2. PICK g \in [Leaves -> Nat], s \in Days : g = op[h].held /\ s = op[h].start
      BY <1>1, <1>2, <1>4 DEF ApplyOps
    <2>3. Total(DaysOf("PENDING")) <= Total(g) /\ Total(g) \in Nat
      BY <1>1, <2>1, <2>2, TotalGrows, TotalType
    <2>4. FreeOn(s) \in [Credits -> Nat] /\ \A c \in Credits : FreeOn(s)[c] <= Free[c]
      BY FreeRead
    <2>5. Total(FreeOn(s)) <= Total(Free) /\ Total(FreeOn(s)) \in Nat
      BY <1>1, <2>4, TotalGrows, TotalType
    <2>6. Total(FreeOn(s)) - Total(g) >= op[h].days
      BY <1>4, <2>2 DEF Suffices
    <2>7. QED
      BY <1>1, <2>3, <2>5, <2>6
  <1>5. QED
    BY <1>3, <1>4 DEF ApplyCommit

\* Holds and free days fall together, or the holds fall and the free days do not.
LEMMA AffordStep ==
    ASSUME IInv, IInv', BooksHeld, AppliesHeld, PendingIsAffordable, [Next]_vars
    PROVE  PendingIsAffordable'
  <1> DEFINE Held == Total(DaysOf("PENDING"))
             Room == Total(Free)
  <1>1. /\ Room \in Nat /\ Total(Free') \in Nat /\ Held \in Nat
        /\ Total(DaysOf("PENDING")') \in Nat
    BY Affords
  <1>2. SUFFICES ASSUME races' \cap {"lapse", "split"} = {}
                 PROVE  Total(DaysOf("PENDING")') <= Total(Free')
    BY Affords
  <1>3. races \cap {"lapse", "split"} = {}
    <2>1. UNCHANGED vars => races \subseteq races'
      BY DEF vars
    <2>2. QED
      BY <1>2, <2>1, HistoryGrows
  <1>4. Held <= Room
    BY <1>3, Affords
  <1>5. /\ Free \in [Credits -> Nat] /\ Free' \in [Credits -> Nat]
        /\ DaysOf("PENDING") \in [Leaves -> Nat] /\ DaysOf("PENDING")' \in [Leaves -> Nat]
        /\ IsFiniteSet(Credits) /\ IsFiniteSet(Leaves)
    <2>1. \A c \in Credits : FreeOf(credit'[c], today') \in Nat
      BY FreeOfSound DEF IInv, TypeOK
    <2>2. Free' \in [Credits -> Nat]
      BY <2>1 DEF Free
    <2>3. DaysOf("PENDING")' \in [Leaves -> Nat]
      BY DEF DaysOf, IInv, TypeOK, LeaveRows
    <2>4. QED
      BY <2>2, <2>3, FreeTable, Tables
  <1>6. ASSUME NEW h \in Requests, ApproveCommit(h)
        PROVE  Total(DaysOf("PENDING")') <= Total(Free')
    <2>1. PICK u \in UpdateSets, l \in Leaves : u = op[h].updates /\ l = op[h].leave
      BY <1>6, OpType DEF ApproveCommit
    <2>2. /\ leave[l].status = "PENDING" /\ leave' = [leave EXCEPT ![l].status = "APPROVED"]
          /\ Total(Taken(u)) = leave[l].days
      BY <1>6, <2>1 DEF ApproveCommit, BooksHeld, Weighs
    <2>3. Held = Total(DaysOf("PENDING")') + leave[l].days
      <3>1. Held = Total(DaysOf("PENDING"))' + leave[l].days
        BY <2>2, StatusDays
      <3>2. QED
        BY <3>1 DEF Total, HalfDays
    <2>4. /\ Taken(u) \in [Credits -> Nat]
          /\ \A c \in Credits : Free[c] <= Free'[c] + Taken(u)[c]
      BY <1>6, <2>1, UpdateTables, FreeTaken
    <2>5. PICK left \in [Credits -> Nat] : left = Free'
      BY <1>5
    <2>6. PICK sum \in [Credits -> Nat] : \A c \in Credits : sum[c] = left[c] + Taken(u)[c]
      <3>1. \A c \in Credits : left[c] + Taken(u)[c] \in Nat
        BY <2>4
      <3>2. [c \in Credits |-> left[c] + Taken(u)[c]] \in [Credits -> Nat]
        BY <3>1
      <3>3. QED
        BY <3>2
    <2>7. Total(sum) = Total(left) + Total(Taken(u))
      BY <1>5, <2>4, <2>6, TotalAdds
    <2>8. Room <= Total(sum)
      <3>1. \A c \in Credits : Free[c] <= sum[c]
        BY <2>4, <2>5, <2>6
      <3>2. QED
        BY <1>5, <3>1, TotalGrows
    <2>9. Total(left) = Total(Free') /\ leave[l].days \in Nat
      BY <2>5 DEF IInv, TypeOK, LeaveRows
    <2> HIDE DEF Held, Room
    <2>10. QED
      BY <1>1, <1>4, <2>2, <2>3, <2>7, <2>8, <2>9
  <1>7. ASSUME \A h \in Requests : ~ApproveCommit(h)
        PROVE  Total(DaysOf("PENDING")') <= Total(Free')
    <2>1. Room <= Total(Free')
      <3>1. \A c \in Credits : Free[c] <= Free'[c]
        BY <1>2, <1>7, FreeStep
      <3>2. PICK left \in [Credits -> Nat] : left = Free'
        BY <1>5
      <3>3. Room <= Total(left)
        BY <1>5, <3>1, <3>2, TotalGrows
      <3>4. QED
        BY <3>2, <3>3
    <2>2. ASSUME NEW h \in Requests, ApplyCommit(h)
          PROVE  Total(DaysOf("PENDING")') <= Total(Free')
      <3>1. Total(DaysOf("PENDING"))' = Held + op[h].days
        BY <2>2, ApplyDays
      <3>2. Total(DaysOf("PENDING")') = Held + op[h].days
        BY <3>1 DEF Total, HalfDays
      <3>3. Held + op[h].days <= Room
        BY <1>3, <2>2, ApplyAffords
      <3> HIDE DEF Held, Room
      <3>4. QED
        BY <1>1, <2>1, <3>2, <3>3
    <2>3. ASSUME \A h \in Requests : ~ApplyCommit(h)
          PROVE  Total(DaysOf("PENDING")') <= Total(Free')
      <3>1. \A l \in Leaves : DaysOf("PENDING")'[l] <= DaysOf("PENDING")[l]
        BY <2>3, HoldsShrink
      <3>2. PICK held \in [Leaves -> Nat] : held = DaysOf("PENDING")'
        BY <1>5
      <3>3. Total(held) <= Held
        BY <1>5, <3>1, <3>2, TotalGrows
      <3> HIDE DEF Held, Room
      <3>4. QED
        BY <1>1, <1>4, <2>1, <3>2, <3>3
    <2>4. QED
      BY <2>2, <2>3
  <1>8. QED
    BY <1>6, <1>7

LEMMA FirstAfford == Init => AppliesHeld /\ PendingIsAffordable
  <1> SUFFICES ASSUME Init PROVE AppliesHeld /\ PendingIsAffordable
    OBVIOUS
  <1>1. IInv
    BY InitSound
  <1>2. AppliesHeld
    BY DEF Init, AppliesHeld, Applying, InFlight, Idle
  <1>3. Total(DaysOf("PENDING")) = 0
    <2>1. \A l \in Leaves : DaysOf("PENDING")[l] = 0
      BY DEF Init, DaysOf
    <2>2. DaysOf("PENDING") \in [Leaves -> Nat]
      BY <1>1, Tables
    <2>3. QED
      BY <2>1, <2>2, TotalNone
  <1>4. FreeOn(today) \in [Credits -> Nat] /\ IsFiniteSet(Credits)
    BY <1>1, Tables
  <1>5. Total(FreeOn(today)) \in Nat
    BY <1>4, TotalType
  <1>6. QED
    BY <1>2, <1>3, <1>5 DEF PendingIsAffordable, Suffices

\* What pending requests hold can still be granted: an application counts every hold
\* that another one made, the lock admits one at a time, and an approval takes from the
\* holds what it takes from the credits (createLeaveInternal, consumeForLeave).
THEOREM PendingCanBeGranted == Spec => []PendingIsAffordable
  <1>1. /\ IInv /\ IInv' /\ BooksHeld /\ AppliesHeld /\ PendingIsAffordable
        /\ [Next]_vars
        => AppliesHeld' /\ PendingIsAffordable'
    BY AppliesStep, AffordStep
  <1>2. QED
    BY <1>1, FirstAfford, AlwaysBooked, AlwaysSound, PTL DEF Spec
=============================================================================
