------------------------------- MODULE CompOff -------------------------------
(****************************************************************************)
(* Compensatory days off of one employee: credits earned for work on a      *)
(* weekly off or a holiday (src/src/comp-offs) or granted by approved       *)
(* overtime (src/src/overtime), and the leaves that consume and release     *)
(* them (src/src/leaves).                                                   *)
(*                                                                          *)
(* A handler is two steps, a read that leaves its snapshot in op[h] and a   *)
(* commit, unless its guarded update repeats all that it read.  A decision  *)
(* about a leave locks the leave row before it reads the credits, so the    *)
(* status of the leave may as well be looked at when it commits; the        *)
(* credits are not locked by that read.                                     *)
(*                                                                          *)
(* Days are counted in halves: a credit or a leave of one day is 2.         *)
(****************************************************************************)
EXTENDS Integers, FiniteSets

CONSTANTS
    Credits,     \* rows of comp_offs, created or not yet
    Leaves,      \* leaves of the comp-off type, created or not yet
    Requests,    \* HTTP handlers in flight at once
    LastDay,     \* bound of the model: the calendar is 0..LastDay
    OffDays,     \* weekly offs and holidays that were worked
    ExpiryDays,  \* settings of PayrollSettings.compOffExpiryDays, 0 for no expiry
    LoggedDays,  \* off days the employee may log as overtime
    Earnings,    \* half days a credit may be worth
    LeaveDays,   \* half days a leave may last
    StartDays    \* days a leave may start on

Days  == 0..LastDay

\* expiryDate = null, which is later than any date
Never == 2 * LastDay + 1

ASSUME CompOffAssumption ==
    /\ IsFiniteSet(Credits) /\ IsFiniteSet(Leaves)
    /\ LastDay \in Nat
    /\ OffDays \subseteq Days /\ LoggedDays \subseteq OffDays
    /\ StartDays \subseteq Days
    /\ ExpiryDays \subseteq Days
    /\ Earnings \subseteq Nat \ {0}
    /\ LeaveDays \subseteq Nat \ {0}

CreditStatuses == {"NONE", "PENDING", "APPROVED", "REJECTED",
                   "AVAILED", "PARTIALLY_AVAILED", "EXPIRED"}
LeaveStatuses  == {"NONE", "PENDING", "APPROVED", "REJECTED", "RETURNED", "CANCELLED"}

\* PAID and CREDITED are both OvertimeStatus.APPROVED, compensated with pay or
\* with a comp-off (compOffId).
OvertimeStatuses == {"NONE", "PENDING", "PAID", "CREDITED", "REJECTED"}

Windows == {"claim", "revive", "split", "lapse"}

VARIABLES
    credit,    \* CompOff rows
    leave,     \* Leave rows
    overtime,  \* the day's OvertimeRecord, at most one by its unique constraint
    today,     \* the server's date
    op,        \* the handlers in flight, with what each has read
    races      \* windows this behaviour fell into (history)

vars == <<credit, leave, overtime, today, op, races>>

-----------------------------------------------------------------------------
(* Credits *)

CreditRows == [status: CreditStatuses, day: Days, earned: Nat, availed: Nat,
               expiry: 0..Never]

NewCredit(s, d, n, e) ==
    [status |-> s, day |-> d, earned |-> n, availed |-> 0,
     expiry |-> IF e = 0 THEN Never ELSE d + e]

CreditsWith(S) == {c \in Credits : credit[c].status \in S}

\* CONSUMABLE_STATUSES
Consumable == CreditsWith({"APPROVED", "PARTIALLY_AVAILED"})
Unconsumed(c) == credit[c].earned - credit[c].availed

\* Slip: the status alone is taken as proof that a credit is valid.
ConsumableByStatus(asOf) == Consumable
ValidOn(asOf) == {c \in Consumable : credit[c].expiry >= asOf}

\* What a leave that starts on `asOf' could use: sumAvailableOn adds it up.
FreeOn(asOf) ==
    [c \in Credits |-> IF c \in ValidOn(today) \cap ValidOn(asOf) THEN Unconsumed(c) ELSE 0]

\* sweepExpired
Swept == [c \in Credits |->
            IF c \in Consumable /\ credit[c].expiry < today
            THEN [credit[c] EXCEPT !.status = "EXPIRED"] ELSE credit[c]]

\* Claims of a day that are not rejected.
Claims(d) == {c \in CreditsWith(CreditStatuses \ {"NONE", "REJECTED"}) :
                credit[c].day = d}

\* Slip: overtime logged for the day is not looked at.
Unclaimed(d) == Claims(d) = {}
FreeToEarn(d) == Claims(d) = {} /\ overtime[d] \in {"NONE", "REJECTED"}

\* Slip: an approval of overtime does not look at comp-offs.
AnyDay(d) == TRUE
FreeToReward(d) == Claims(d) = {}

\* A total, as the number of the half days it is made of.
HalfDays(f) == UNION {{x} \X (1..f[x]) : x \in DOMAIN f}
Total(f)    == Cardinality(HalfDays(f))

Least(a, b) == IF a <= b THEN a ELSE b

\* Slip: the portion taken from a row is not capped.
Uncapped(t, room) == TRUE
Fits(t, room) == \A c \in DOMAIN room : t[c] <= room[c]

\* consumeCompOff and releaseCompOff: n half days spread over rows with `room'
\* for them, in the order of key.  Rows with the same key come in any order.
Spread(room, key, n) ==
    {t \in [DOMAIN room -> 0..n] :
        /\ Fits(t, room)
        /\ Total(t) = Least(n, Total(room))
        /\ \A a, b \in DOMAIN room :
              /\ key[a] < key[b] /\ t[b] > 0 => t[a] = room[a]
              /\ a # b /\ key[a] = key[b] =>
                    t[a] \in {0, room[a]} \/ t[b] \in {0, room[b]}}

\* The updates a spread amounts to, sign 1 for a consumption, -1 for a release.
Untouched == [from |-> 0, to |-> 0]
NoUpdates == [c \in Credits |-> Untouched]
Updates(t, sign) ==
    [c \in Credits |->
        IF c \in DOMAIN t /\ t[c] > 0
        THEN [from |-> credit[c].availed, to |-> credit[c].availed + sign * t[c]]
        ELSE Untouched]
Touched(u) == {c \in Credits : u[c] # Untouched}

Expiry == [c \in Credits |-> credit[c].expiry]
Latest == [c \in Credits |-> -credit[c].expiry]

Consumptions(n) ==
    LET room == [c \in ValidOn(today) |-> Unconsumed(c)]
    IN  {Updates(t, 1) : t \in {s \in Spread(room, Expiry, n) : Total(s) = n}}

Releases(n) ==
    LET room == [c \in Consumable \cup CreditsWith({"AVAILED"}) |-> credit[c].availed]
    IN  {Updates(t, -1) : t \in Spread(room, Latest, n)}

\* Slip: the rows are written without the daysAvailed they were read with.
WrittenBlindly(u) == TRUE
StillAsRead(u) == \A c \in Touched(u) : credit[c].availed = u[c].from

StatusConsumed(c, n) == IF n >= credit[c].earned THEN "AVAILED" ELSE "PARTIALLY_AVAILED"

\* Slip: a release always makes the credit APPROVED.
AlwaysApproved(n) == "APPROVED"
StatusReleased(n) == IF n > 0 THEN "PARTIALLY_AVAILED" ELSE "APPROVED"

Consume(u) == [c \in Credits |->
    IF c \in Touched(u)
    THEN [credit[c] EXCEPT !.availed = u[c].to, !.status = StatusConsumed(c, u[c].to)]
    ELSE credit[c]]

Release(u) == [c \in Credits |->
    IF c \in Touched(u)
    THEN [credit[c] EXCEPT !.availed = u[c].to, !.status = StatusReleased(u[c].to)]
    ELSE credit[c]]

\* Rows that were withdrawn or swept since they were read.
Dead(u) == Touched(u) \cap CreditsWith({"REJECTED", "EXPIRED"})

-----------------------------------------------------------------------------
(* Leaves and handlers *)

LeaveRows == [status: LeaveStatuses, days: Nat, start: Days]
DaysOf(s) == [l \in Leaves |-> IF leave[l].status = s THEN leave[l].days ELSE 0]

Idle == [kind |-> "idle"]

\* What the handlers may read and are about to write.
UpdateSets == [Credits -> [from: Nat, to: Nat]]
DayOps   == [kind: {"earn", "log", "overtime"}, day: Days]
ApplyOps ==
    [kind: {"balanceFirst"}, leave: Leaves, days: LeaveDays, start: Days,
     free: [Credits -> Int]]
      \cup [kind: {"holdsFirst"}, leave: Leaves, days: LeaveDays, start: Days,
            held: [Leaves -> Nat]]
LeaveOps == [kind: {"approve"}, leave: Leaves, updates: UpdateSets, since: Days]
              \cup [kind: {"cancel"}, leave: Leaves, updates: UpdateSets]
Ops == {Idle} \cup DayOps \cup ApplyOps \cup LeaveOps

InFlight(kind) == {h \in Requests : op[h].kind = kind}

\* Slip: no lock is taken on the users row.
NeverLocked == FALSE
\* SELECT ... FOR UPDATE of the users row in createLeaveInternal
UserLocked == InFlight("balanceFirst") \cup InFlight("holdsFirst") # {}

Start(h, o) == op[h] = Idle /\ op' = [op EXCEPT ![h] = o]
Finish(h)   == op' = [op EXCEPT ![h] = Idle]
Fell(window, into) == races' = IF into THEN races \cup {window} ELSE races

Init ==
    /\ credit = [c \in Credits |-> [status |-> "NONE", day |-> 0, earned |-> 0,
                                    availed |-> 0, expiry |-> 0]]
    /\ leave = [l \in Leaves |-> [status |-> "NONE", days |-> 0, start |-> 0]]
    /\ overtime = [d \in Days |-> "NONE"]
    /\ today = 0
    /\ op = [h \in Requests |-> Idle]
    /\ races = {}

-----------------------------------------------------------------------------
(* Earning *)

EarnRead(h, d) ==
    /\ d \in OffDays /\ d <= today
    /\ FreeToEarn(d)
    /\ Start(h, [kind |-> "earn", day |-> d])
    /\ UNCHANGED <<credit, leave, overtime, today, races>>

\* The insert repeats nothing of the check.
EarnCommit(h, c, n, e) ==
    LET d == op[h].day IN
    /\ op[h].kind = "earn"
    /\ credit[c].status = "NONE"
    /\ credit' = [credit EXCEPT ![c] = NewCredit("PENDING", d, n, e)]
    /\ Fell("claim", ~FreeToEarn(d))
    /\ Finish(h)
    /\ UNCHANGED <<leave, overtime, today>>

\* review: its guarded update repeats the status it read.
Review(c, decision) ==
    /\ credit[c].status = "PENDING"
    /\ credit' = [credit EXCEPT ![c].status = decision]
    /\ UNCHANGED <<leave, overtime, today, op, races>>

\* cancel: HR withdraws an approved credit of which nothing was taken.
Withdraw(c) ==
    /\ credit[c].status = "APPROVED"
    /\ credit[c].availed = 0
    /\ credit' = [credit EXCEPT ![c].status = "REJECTED"]
    /\ Fell("lapse", TRUE)
    /\ UNCHANGED <<leave, overtime, today, op>>

\* Every read path sweeps first.
Sweep ==
    /\ Swept # credit
    /\ credit' = Swept
    /\ UNCHANGED <<leave, overtime, today, op, races>>

NextDay ==
    /\ today < LastDay
    /\ today' = today + 1
    /\ Fell("lapse", \E c \in Consumable : credit[c].expiry = today)
    /\ UNCHANGED <<credit, leave, overtime, op>>

-----------------------------------------------------------------------------
(* Overtime on an off day *)

LogRead(h, d) ==
    /\ d \in LoggedDays /\ d <= today
    /\ Claims(d) = {}
    /\ overtime[d] = "NONE"
    /\ Start(h, [kind |-> "log", day |-> d])
    /\ UNCHANGED <<credit, leave, overtime, today, races>>

LogCommit(h) ==
    /\ op[h].kind = "log"
    /\ overtime[op[h].day] = "NONE"
    /\ overtime' = [overtime EXCEPT ![op[h].day] = "PENDING"]
    /\ Finish(h)
    /\ UNCHANGED <<credit, leave, today, races>>

OvertimeReject(d) ==
    /\ overtime[d] = "PENDING"
    /\ overtime' = [overtime EXCEPT ![d] = "REJECTED"]
    /\ UNCHANGED <<credit, leave, today, op, races>>

OvertimeRead(h, d) ==
    /\ overtime[d] = "PENDING"
    /\ FreeToReward(d)
    /\ Start(h, [kind |-> "overtime", day |-> d])
    /\ UNCHANGED <<credit, leave, overtime, today, races>>

\* The guarded update repeats the status; the claims were read outside the
\* transaction that grants the comp-off.
OvertimeCommit(h) ==
    LET d == op[h].day IN
    /\ op[h].kind = "overtime"
    /\ overtime[d] = "PENDING"
    /\ \/ /\ overtime' = [overtime EXCEPT ![d] = "PAID"]
          /\ UNCHANGED credit
       \/ \E c \in Credits, n \in Earnings, e \in ExpiryDays :
             /\ credit[c].status = "NONE"
             /\ credit' = [credit EXCEPT ![c] = NewCredit("APPROVED", d, n, e)]
             /\ overtime' = [overtime EXCEPT ![d] = "CREDITED"]
    /\ Fell("claim", ~FreeToReward(d))
    /\ Finish(h)
    /\ UNCHANGED <<leave, today>>

-----------------------------------------------------------------------------
(* Leaves *)

\* createLeaveInternal reads the balance (which sweeps) and the days that
\* pending requests hold side by side, one of them first.
ApplyRead(h, l, n, s) ==
    /\ leave[l].status = "NONE"
    /\ ~UserLocked
    /\ \/ /\ credit' = Swept
          /\ Start(h, [kind |-> "balanceFirst", leave |-> l, days |-> n, start |-> s,
                       free |-> FreeOn(s)])
       \/ /\ Start(h, [kind |-> "holdsFirst", leave |-> l, days |-> n, start |-> s,
                       held |-> DaysOf("PENDING")])
          /\ UNCHANGED credit
    /\ UNCHANGED <<leave, overtime, today, races>>

Suffices(free, held, n) == Total(free) - Total(held) >= n

ApplyCommit(h) ==
    LET o == op[h] IN
    /\ \/ /\ o.kind = "balanceFirst"
          /\ Suffices(o.free, DaysOf("PENDING"), o.days)
          /\ UNCHANGED credit
       \/ /\ o.kind = "holdsFirst"
          /\ Suffices(FreeOn(o.start), o.held, o.days)
          /\ credit' = Swept
    /\ leave[o.leave].status = "NONE"
    /\ leave' = [leave EXCEPT ![o.leave] =
                    [status |-> "PENDING", days |-> o.days, start |-> o.start]]
    /\ Finish(h)
    /\ UNCHANGED <<overtime, today, races>>

\* applyDecision, a refusal: nothing was consumed for a pending comp-off leave.
Decline(l, decision) ==
    /\ leave[l].status = "PENDING"
    /\ leave' = [leave EXCEPT ![l].status = decision]
    /\ UNCHANGED <<credit, overtime, today, op, races>>

ApproveRead(h, l) ==
    /\ leave[l].status = "PENDING"
    /\ \E u \in Consumptions(leave[l].days) :
          Start(h, [kind |-> "approve", leave |-> l, updates |-> u, since |-> today])
    /\ UNCHANGED <<credit, leave, overtime, today, races>>

\* An application that read the balance first goes on to miss the hold this turns
\* into a consumption.
ApproveCommit(h) ==
    LET o == op[h] IN
    /\ o.kind = "approve"
    /\ leave[o.leave].status = "PENDING"
    /\ StillAsRead(o.updates)
    /\ leave' = [leave EXCEPT ![o.leave].status = "APPROVED"]
    /\ credit' = Consume(o.updates)
    /\ races' = races \cup (IF Dead(o.updates) # {} THEN {"revive"} ELSE {})
                      \cup (IF InFlight("balanceFirst") # {} THEN {"split"} ELSE {})
    /\ Finish(h)
    /\ UNCHANGED <<overtime, today>>

\* performCancel; releaseHold goes by the status the handler read.
CancelRead(h, l) ==
    /\ leave[l].status \in {"PENDING", "RETURNED", "APPROVED"}
    /\ \E u \in IF leave[l].status = "APPROVED" THEN Releases(leave[l].days)
                ELSE {NoUpdates} :
          Start(h, [kind |-> "cancel", leave |-> l, updates |-> u])
    /\ UNCHANGED <<credit, leave, overtime, today, races>>

CancelCommit(h) ==
    LET o == op[h] IN
    /\ o.kind = "cancel"
    /\ leave[o.leave].status \in {"PENDING", "RETURNED", "APPROVED"}
    /\ StillAsRead(o.updates)
    /\ leave' = [leave EXCEPT ![o.leave].status = "CANCELLED"]
    /\ credit' = Release(o.updates)
    /\ Fell("revive", Dead(o.updates) # {})
    /\ Finish(h)
    /\ UNCHANGED <<overtime, today>>

\* A handler that is refused, rolled back or lost.
GiveUp(h) ==
    /\ op[h] # Idle
    /\ Finish(h)
    /\ UNCHANGED <<credit, leave, overtime, today, races>>

Next ==
    \/ \E h \in Requests :
          \/ \E d \in Days : EarnRead(h, d) \/ LogRead(h, d) \/ OvertimeRead(h, d)
          \/ \E c \in Credits, n \in Earnings, e \in ExpiryDays : EarnCommit(h, c, n, e)
          \/ LogCommit(h)
          \/ OvertimeCommit(h)
          \/ \E l \in Leaves :
                \/ \E n \in LeaveDays, s \in StartDays : ApplyRead(h, l, n, s)
                \/ ApproveRead(h, l)
                \/ CancelRead(h, l)
          \/ ApplyCommit(h)
          \/ ApproveCommit(h)
          \/ CancelCommit(h)
          \/ GiveUp(h)
    \/ \E c \in Credits :
          Withdraw(c) \/ \E decision \in {"APPROVED", "REJECTED"} : Review(c, decision)
    \/ \E d \in Days : OvertimeReject(d)
    \/ \E l \in Leaves, decision \in {"REJECTED", "RETURNED"} : Decline(l, decision)
    \/ Sweep
    \/ NextDay

Spec == Init /\ [][Next]_vars
-----------------------------------------------------------------------------
(* What must hold *)

\* The rows and the snapshots have the values the schema allows; daysAvailed is
\* never driven below zero by a release.
TypeOK ==
    /\ credit \in [Credits -> CreditRows]
    /\ leave \in [Leaves -> LeaveRows]
    /\ overtime \in [Days -> OvertimeStatuses]
    /\ today \in Days
    /\ op \in [Requests -> Ops]
    /\ races \subseteq Windows

\* The days of the approved comp-off leaves are all taken from some credit, however
\* approvals, cancellations and sweeps interleave: the compare-and-swap on
\* daysAvailed loses no consumption and gives nothing back twice
\* (consumeForLeave, releaseForLeave).
TakenIsCovered ==
    Total(DaysOf("APPROVED")) <= Total([c \in Credits |-> credit[c].availed])

AddsUp(r) ==
    /\ r.availed <= r.earned
    /\ r.status = "AVAILED" => r.availed = r.earned
    /\ r.status = "PARTIALLY_AVAILED" => 0 < r.availed /\ r.availed < r.earned
    /\ r.status \in {"PENDING", "APPROVED", "REJECTED"} => r.availed = 0
    /\ r.status = "EXPIRED" => r.availed < r.earned

\* A credit never yields more than was earned, and its status says how much of it
\* is taken: all, some or none (consumeCompOff, releaseCompOff, cancel, sweep).
CreditsAddUp == \A c \in Credits : AddsUp(credit[c])

\* One day, one benefit: work on an off day is rewarded by one comp-off or by pay,
\* through every order of claims, resubmissions, rejections, withdrawals and
\* overtime reviews.  Only an insert whose check had gone stale, or a withdrawn
\* credit that an approval revived, can break it (earn, OvertimeService.review).
OneDayOneBenefit ==
    races \cap {"claim", "revive"} = {} =>
        \A d \in Days :
            /\ \A a, b \in Claims(d) : a = b
            /\ overtime[d] = "PAID" => Claims(d) = {}

\* What pending requests hold can still be granted: the users row lock makes two
\* applications count each other, and an approval moves its own days from the
\* holds to the consumed.  A credit may lapse under a pending request, and an
\* approval between the two unlocked reads of an application is counted by
\* neither (createLeaveInternal).
PendingIsAffordable ==
    races \cap {"lapse", "split"} = {} =>
        Suffices(FreeOn(today), DaysOf("PENDING"), 0)

\* A leave applied for while its credit was valid and approved later takes nothing
\* of a credit that has expired since, swept or not, unless the date changed
\* between the read and the write of the approval (consumeForLeave).
ExpiredIsNotTaken ==
    [][\A c \in Credits :
        credit'[c].availed > credit[c].availed /\ credit[c].expiry < today =>
            \E h \in InFlight("approve") : op[h].since < today]_vars
=============================================================================
