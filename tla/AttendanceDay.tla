---------------------------- MODULE AttendanceDay ----------------------------
(****************************************************************************)
(* One working day of one employee, after its shift has ended: the          *)
(* Attendance row that punches, approved leave, regularization requests,    *)
(* imports and Work From Home requests all write (src/src/attendance), and  *)
(* what payroll makes of it (src/src/payroll/attendance-summary.ts).        *)
(*                                                                          *)
(* Every writer but the sweep of Work From Home reads the row, works        *)
(* something out and updates it by id later: a read and a write step here,  *)
(* with the snapshot in op[h]; what follows the write in a statement of its *)
(* own is a step too.  Leave is OPEN until the commit of its approval.  A   *)
(* pair of punches, of asked or of imported times is a full shift.          *)
(****************************************************************************)
EXTENDS Naturals, FiniteSets

CONSTANTS
    Requests,    \* HTTP handlers and jobs in flight at once
    Full, Half,  \* the employee's full-day and half-day leaves of this day
    Filings,     \* regularization requests, with the times each asks for
    NoFiling,
    Kinds        \* which writers this instance has

ASSUME DayAssumption ==
    /\ Full \cap Half = {}
    /\ NoFiling \notin Filings
    /\ Kinds \subseteq {"regularize", "import", "wfh"}

Leaves == Full \cup Half
MaxPunches == 2   \* bound of the model; a third punch only moves the Out time

Windows == {"stale", "unjudged", "restamped", "erased", "remembered", "overtaken",
            "imported", "twice", "swapped", "unrecorded", "closed",
            "wfh", "freed", "untold", "late"}

VARIABLES
    day,      \* the Attendance row; id 0 while there is none
    made,     \* how many rows this date has had
    punches,  \* Punch rows in the window of the shift
    mark,     \* what last said how the day was worked (history)
    leave,    \* status of the leaves
    ledger,   \* AttendanceRegularizationRequest rows
    told,     \* decisions the timeline shows on the current WFH request
    op,       \* the handlers in flight, with what each has read
    races     \* windows this behaviour fell into (history)

vars == <<day, made, punches, mark, leave, ledger, told, op, races>>

-----------------------------------------------------------------------------
(* Rows *)

Statuses == {"ABSENT", "PRESENT", "INCOMPLETE", "ON_LEAVE", "HALF_DAY"}
Sources  == {"FACE_API", "SYSTEM", "REGULARIZED", "EXCEL_IMPORT"}

\* leaveOverriddenStatus and -Source, null together.
NotKept == [status |-> "null", source |-> "null"]
Kept    == [status: Statuses, source: Sources] \cup {NotKept}

DayRows == [id: Nat, status: Statuses, source: Sources, kept: Kept,
            times: {"none", "in", "pair"},
            reg: {"none", "pending", "approved", "rejected"}, asks: Filings \cup {NoFiling},
            place: {"OFFICE", "WFH"}, wfh: {"NONE", "PENDING", "APPROVED", "REJECTED"}]

\* The column defaults of prisma/schema.prisma.
NoDay == [id |-> 0, status |-> "ABSENT", source |-> "FACE_API", kept |-> NotKept,
          times |-> "none", reg |-> "none", asks |-> NoFiling,
          place |-> "OFFICE", wfh |-> "NONE"]

HasRow == day.id # 0
\* create: a new row, of which the caller sets some columns.
Create(columns) == day' = [columns EXCEPT !.id = made + 1] /\ made' = made + 1
\* updateMany by id: nothing when the row has gone or is another.
Update(id, columns) == day' = (IF day.id = id THEN columns ELSE day) /\ made' = made
\* What a handler that read `id' does: it creates, or updates by id.
Upsert(id, columns) ==
    IF id = 0 THEN ~HasRow /\ Create(columns) ELSE Update(id, columns)
\* The create of a handler that saw no row fails on the unique constraint.
Collides(id) == id = 0 /\ HasRow

ApprovedOf(kind) == {l \in kind : leave[l] = "APPROVED"}

\* What the transaction of a leave decision reads of the row.
Views == [id: Nat, status: Statuses, source: Sources, kept: Kept]
View  == [id |-> day.id, status |-> day.status, source |-> day.source, kept |-> day.kept]

Idle == [kind |-> "idle"]
Ops == {Idle, [kind |-> "punched"]}
    \cup [kind: {"judge", "sweep"}, id: Nat, punches: 0..MaxPunches,
          leave: {"none", "half", "full"}]
    \cup [kind: {"file"}, id: Nat, filing: Filings]
    \cup [kind: {"filed"}, filing: Filings]
    \cup [kind: {"review"}, id: Nat, filing: Filings, to: {"approved", "rejected"}]
    \cup [kind: {"withdraw"}, id: Nat]
    \cup [kind: {"close"}, id: Nat, filing: Filings,
          to: {"APPROVED", "REJECTED", "CANCELLED"}]
    \cup [kind: {"import"}, id: Nat, half: BOOLEAN]
    \cup {[kind |-> "days"]}
    \cup [kind: {"wfh"}, id: Nat, range: BOOLEAN]
    \cup [kind: {"office"}, id: Nat]
    \cup [kind: {"decide"}, id: Nat, to: {"APPROVED", "REJECTED"}]
    \cup [kind: {"tell"}, to: {"APPROVED", "REJECTED"}]
    \cup [kind: {"stamp"}, leave: Leaves, seen: Views]
    \cup [kind: {"unstamp"}, leave: Leaves, seen: Views, rest: {"none", "half", "full"}]

Start(h, o)    == op[h] = Idle /\ op' = [op EXCEPT ![h] = o]
Continue(h, o) == op' = [op EXCEPT ![h] = o]
Finish(h)      == op' = [op EXCEPT ![h] = Idle]
InFlight(kinds) == {h \in Requests : op[h].kind \in kinds}
Fell(windows) == races' = races \cup windows
When(window, into) == IF into THEN {window} ELSE {}

Init ==
    /\ day = NoDay
    /\ made = 0
    /\ punches = 0
    /\ mark = "none"
    /\ leave = [l \in Leaves |-> "OPEN"]
    /\ ledger = [q \in Filings |-> "none"]
    /\ told = {}
    /\ op = [h \in Requests |-> Idle]
    /\ races = {}

-----------------------------------------------------------------------------
(* Punches, and recalculateAttendanceForDay *)

\* A punch from a device or entered by HR: its row first, the day afterwards.
Punch(h) ==
    /\ punches < MaxPunches
    /\ punches' = punches + 1
    /\ mark' = "punch"
    /\ Start(h, [kind |-> "punched"])
    /\ UNCHANGED <<day, made, leave, ledger, told, races>>

LeaveOfDay ==
    IF ApprovedOf(Full) # {} THEN "full" ELSE IF ApprovedOf(Half) # {} THEN "half" ELSE "none"

\* deriveDayOutcome: leave counts only on a day without a punch.
Outcome(n, away) ==
    CASE n = 2 -> "PRESENT"
      [] n = 1 -> "INCOMPLETE"
      [] n = 0 -> CASE away = "full" -> "ON_LEAVE"
                    [] away = "half" -> "HALF_DAY"
                    [] away = "none" -> "ABSENT"

TimesOf(n) == CASE n = 2 -> "pair" [] n = 1 -> "in" [] n = 0 -> "none"

\* A row set by a regularization or an import is left as it is.
Spared == HasRow /\ punches = 0 /\ day.source \in {"REGULARIZED", "EXCEL_IMPORT"}

Seen(kind) == [kind |-> kind, id |-> day.id, punches |-> punches, leave |-> LeaveOfDay]

\* The read of a recalculation: after a punch, or by the jobs of 01:00 and
\* 08:00, which take every employee.
RecalculateRead(h) ==
    /\ \/ /\ op[h].kind = "punched"
          /\ IF Spared THEN Finish(h) ELSE Continue(h, Seen("judge"))
       \/ ~Spared /\ Start(h, Seen("sweep"))
    /\ UNCHANGED <<day, made, punches, mark, leave, ledger, told, races>>

\* The row as a recalculation that saw n punches and that leave writes it.
Judged(n, away) ==
    [day EXCEPT !.status = Outcome(n, away), !.source = "FACE_API", !.times = TimesOf(n)]

\* Windows: what was read has changed; the times of an approval or an import,
\* under a leave or beside one punch, go; a stamp of half a day becomes a row
\* that looks worked.
RecalculateWrite(h) ==
    LET o == op[h]
        lands == o.id = day.id
        new   == Judged(o.punches, o.leave)
    IN  /\ o.kind \in {"judge", "sweep"}
        /\ IF lands THEN Upsert(o.id, new) ELSE UNCHANGED <<day, made>>
        /\ Finish(h)
        /\ Fell(When("unjudged", ~lands /\ o.kind = "judge")
           \cup When("stale", lands /\ (o.punches # punches \/ o.leave # LeaveOfDay \/ Spared))
           \cup When("erased", lands /\ mark \in {"approved", "sheet"} /\ o.punches # 2)
           \cup When("restamped", lands /\ new.status = "HALF_DAY"))
        /\ UNCHANGED <<punches, mark, leave, ledger, told>>

-----------------------------------------------------------------------------
(* Approved leave *)

IsStamp(row) == row.source = "SYSTEM" /\ row.status \in {"ON_LEAVE", "HALF_DAY"}
IsHalfStamp(row) == IsStamp(row) /\ row.status = "HALF_DAY"

\* What the day was before any leave stamped it.
Remembered(seen) ==
    IF seen.kept = NotKept THEN [status |-> seen.status, source |-> seen.source] ELSE seen.kept

StampOf(l) == IF l \in Half THEN "HALF_DAY" ELSE "ON_LEAVE"

\* The row as an approval that saw it so stamps it.  The other half of a day
\* already half on leave makes it a whole day off.
Stamped(l, seen, row) ==
    IF l \in Half /\ IsHalfStamp(seen)
    THEN [row EXCEPT !.status = "ON_LEAVE", !.source = "SYSTEM"]
    ELSE [row EXCEPT !.status = StampOf(l), !.source = "SYSTEM", !.kept = Remembered(seen)]

\* The update of the leave row comes first and is held until the commit: no
\* two transactions decide or cancel the same leave.
Stamping == {op[h].leave : h \in InFlight({"stamp"})}
Held     == {op[h].leave : h \in InFlight({"stamp", "unstamp"})}

\* Two leaves meet on a day only as two halves of it.
FitsWith(l, taken) ==
    /\ taken \cap Full = {}
    /\ IF l \in Half THEN Cardinality(taken) < 2 ELSE taken = {}

\* writeAttendanceForApprovedLeave, in the transaction of the decision: the
\* unlocked read of the row.
StampRead(h, l) ==
    /\ leave[l] = "OPEN" /\ l \notin Held
    /\ FitsWith(l, ApprovedOf(Full) \cup ApprovedOf(Half) \cup Stamping)
    /\ Start(h, [kind |-> "stamp", leave |-> l, seen |-> View])
    /\ UNCHANGED <<day, made, punches, mark, leave, ledger, told, races>>

\* A leave stamps the row it read otherwise than it would stamp the row it meets.
StampOvertaken(l, seen) ==
    \/ seen.id # day.id
    \/ Stamped(l, seen, day) # Stamped(l, View, day)

\* The update by id, or the create, and the commit.  A create that collides
\* takes the decision back with it.
\* Windows: the row was written since it was read; the day was worked since
\* the leave that first stamped it.
StampWrite(h) ==
    LET l    == op[h].leave
        seen == op[h].seen
    IN  /\ op[h].kind = "stamp"
        /\ IF Collides(seen.id) THEN UNCHANGED <<day, made, leave, races>>
           ELSE /\ leave' = [leave EXCEPT ![l] = "APPROVED"]
                /\ Upsert(seen.id,
                          IF seen.id = 0 THEN [NoDay EXCEPT !.status = StampOf(l), !.source = "SYSTEM"]
                          ELSE Stamped(l, seen, day))
                /\ Fell(When("overtaken", StampOvertaken(l, seen))
                   \cup When("remembered", HasRow /\ day.kept # NotKept /\ ~IsStamp(day)))
        /\ Finish(h)
        /\ UNCHANGED <<punches, mark, ledger, told>>

PutBack(seen, row) ==
    [row EXCEPT !.status = seen.kept.status, !.source = seen.kept.source, !.kept = NotKept]
\* Slip: a row the leave itself created is put back too.
AlwaysPutBack(seen, row) == PutBack(seen, row)
\* The day as it was, or no row when the leave created it.
AsBefore(seen, row) == IF seen.kept = NotKept THEN NoDay ELSE PutBack(seen, row)

\* The other approved leaves of the day.
Others(l) == (ApprovedOf(Full) \cup ApprovedOf(Half)) \ {l}
Rest(l) == IF Others(l) = {} THEN "none" ELSE IF Others(l) \subseteq Half THEN "half" ELSE "full"

\* The row as a cancellation that saw it, and the other leaves, so leaves it:
\* a day another leave covers keeps a stamp.
Reverted(seen, rest, row) ==
    IF ~IsStamp(seen) \/ seen.id # row.id THEN row
    ELSE CASE rest = "half" -> [row EXCEPT !.status = "HALF_DAY"]
           [] rest = "full" -> [row EXCEPT !.status = "ON_LEAVE"]
           [] rest = "none" -> AsBefore(seen, row)

\* revertAttendanceForLeave, in the transaction of the cancellation: it reads
\* the row and the other leaves in one go.
UnstampRead(h, l) ==
    /\ leave[l] = "APPROVED" /\ l \notin Held
    /\ Start(h, [kind |-> "unstamp", leave |-> l, seen |-> View, rest |-> Rest(l)])
    /\ UNCHANGED <<day, made, punches, mark, leave, ledger, told, races>>

\* The requests filed on a row go with it (onDelete: Cascade).
Cascaded == IF HasRow /\ day'.id = 0
            THEN [q \in Filings |-> IF ledger[q] = "none" THEN "none" ELSE "deleted"]
            ELSE ledger

\* The update or delete by id, and the commit.
\* Window: the row, or the leave on it, was written since it was read.
UnstampWrite(h) ==
    LET o == op[h]
    IN  /\ o.kind = "unstamp"
        /\ leave' = [leave EXCEPT ![o.leave] = "CANCELLED"]
        /\ day' = Reverted(o.seen, o.rest, day)
        /\ ledger' = Cascaded
        /\ told' = IF day'.id = 0 THEN {} ELSE told
        /\ Finish(h)
        /\ Fell(When("overtaken", day' # Reverted(View, Rest(o.leave), day)))
        /\ UNCHANGED <<made, punches, mark>>

-----------------------------------------------------------------------------
(* Regularization *)

\* requestRegularization by an employee: not while one waits or was approved.
FileRead(h, q) ==
    /\ "regularize" \in Kinds
    /\ ledger[q] = "none"
    /\ \A g \in InFlight({"file", "filed"}) : op[g].filing # q
    /\ day.reg \notin {"pending", "approved"}
    /\ Start(h, [kind |-> "file", id |-> day.id, filing |-> q])
    /\ UNCHANGED <<day, made, punches, mark, leave, ledger, told, races>>

Filed(row, q) == [row EXCEPT !.reg = "pending", !.asks = q]

\* By id, whatever the request on the row has become.
FileWrite(h) ==
    LET o == op[h]
    IN  /\ o.kind = "file"
        /\ IF Collides(o.id) THEN Finish(h) /\ UNCHANGED <<day, made>>
           ELSE /\ Upsert(o.id, Filed(IF o.id = 0 THEN [NoDay EXCEPT !.source = "SYSTEM"]
                                      ELSE day, o.filing))
                /\ IF day'.id = 0 THEN Finish(h)
                   ELSE Continue(h, [kind |-> "filed", filing |-> o.filing])
        /\ Fell(When("twice", o.id = day.id /\ day.reg \in {"pending", "approved"}))
        /\ UNCHANGED <<punches, mark, leave, ledger, told>>

\* Only now the history row of the request.
\* Window: the request was decided or replaced, or its day removed, meanwhile.
FileRecord(h) ==
    LET q == op[h].filing
    IN  /\ op[h].kind = "filed"
        /\ ledger' = IF HasRow THEN [ledger EXCEPT ![q] = "PENDING"] ELSE ledger
        /\ Finish(h)
        /\ Fell(When("unrecorded", day.reg # "pending" \/ day.asks # q))
        /\ UNCHANGED <<day, made, punches, mark, leave, told>>

\* reviewRegularization, and the sweep's approval when nobody acts.
ReviewRead(h, to) ==
    /\ day.reg = "pending"
    /\ Start(h, [kind |-> "review", id |-> day.id, filing |-> day.asks, to |-> to])
    /\ UNCHANGED <<day, made, punches, mark, leave, ledger, told, races>>

\* Slip: the decision no longer asks whether the request still waits.
StillThere(id) == day.id = id
\* The guard of the update: any request that waits on this row will do.
StillWaits(id) == day.id = id /\ day.reg = "pending"

Decided(filing, to) ==
    IF to = "approved"
    THEN [day EXCEPT !.reg = to, !.asks = filing, !.status = "PRESENT",
                     !.source = "REGULARIZED", !.times = "pair"]
    ELSE [day EXCEPT !.reg = to, !.asks = filing]

LedgerStatus(to) == IF to = "approved" THEN "APPROVED" ELSE "REJECTED"

\* Window: the request that was read was withdrawn and another one filed.
ReviewWrite(h) ==
    LET o == op[h]
    IN  /\ o.kind = "review"
        /\ IF StillWaits(o.id)
           THEN /\ Update(o.id, Decided(o.filing, o.to))
                /\ mark' = IF o.to = "approved" THEN "approved" ELSE mark
                /\ Continue(h, [kind |-> "close", id |-> o.id, filing |-> o.filing,
                                to |-> LedgerStatus(o.to)])
           ELSE Finish(h) /\ UNCHANGED <<day, made, mark>>
        /\ Fell(When("swapped", StillWaits(o.id) /\ day.asks # o.filing))
        /\ UNCHANGED <<punches, leave, ledger, told>>

WithdrawRead(h) ==
    /\ day.reg = "pending"
    /\ Start(h, [kind |-> "withdraw", id |-> day.id])
    /\ UNCHANGED <<day, made, punches, mark, leave, ledger, told, races>>

WithdrawWrite(h) ==
    LET o == op[h]
    IN  /\ o.kind = "withdraw"
        /\ IF StillWaits(o.id)
           THEN /\ Update(o.id, [day EXCEPT !.reg = "none", !.asks = NoFiling])
                /\ Continue(h, [kind |-> "close", id |-> o.id, filing |-> day.asks,
                                to |-> "CANCELLED"])
           ELSE Finish(h) /\ UNCHANGED <<day, made>>
        /\ UNCHANGED <<punches, mark, leave, ledger, told, races>>

\* closeRegularizationRequest: every waiting history row of the day.
\* Window: one of them is of a request filed since.
CloseRequests(h) ==
    LET o == op[h]
    IN  /\ o.kind = "close"
        /\ ledger' = IF day.id = o.id
                     THEN [q \in Filings |-> IF ledger[q] = "PENDING" THEN o.to ELSE ledger[q]]
                     ELSE ledger
        /\ Finish(h)
        /\ Fell(When("closed", day.id = o.id
                                /\ \E q \in Filings \ {o.filing} : ledger[q] = "PENDING"))
        /\ UNCHANGED <<day, made, punches, mark, leave, told>>

-----------------------------------------------------------------------------
(* The import of a sheet that has times for the day *)

\* importSkipReason: what is already marked stays.
ImportSkips ==
    \/ ApprovedOf(Full) # {}
    \/ /\ HasRow
       /\ \/ day.status = "ON_LEAVE"
          \/ day.source = "REGULARIZED" \/ day.reg \in {"approved", "pending"}
          \/ day.source = "FACE_API" /\ day.times # "none"
          \/ IsHalfStamp(day) /\ day.kept.source = "FACE_API" /\ day.times # "none"

ImportRead(h) ==
    /\ "import" \in Kinds
    /\ ~ImportSkips
    /\ Start(h, [kind |-> "import", id |-> day.id, half |-> IsHalfStamp(day)])
    /\ UNCHANGED <<day, made, punches, mark, leave, ledger, told, races>>

\* A half day of leave stays one; what its other half came to is kept under it.
Imported(row, half) ==
    IF half THEN [row EXCEPT !.times = "pair",
                             !.kept = [status |-> "PRESENT", source |-> "EXCEL_IMPORT"]]
    ELSE [row EXCEPT !.status = "PRESENT", !.source = "EXCEL_IMPORT", !.times = "pair"]

\* Window: the day was marked since the sheet's days were read in one go.
ImportWrite(h) ==
    LET o == op[h]
        lands == o.id = day.id
    IN  /\ o.kind = "import"
        /\ IF lands THEN Upsert(o.id, Imported(day, o.half)) ELSE UNCHANGED <<day, made>>
        /\ mark' = IF lands THEN "sheet" ELSE mark
        /\ Finish(h)
        /\ Fell(When("imported", lands /\ (ImportSkips \/ o.half # IsHalfStamp(day))))
        /\ UNCHANGED <<punches, leave, ledger, told>>

-----------------------------------------------------------------------------
(* Work From Home *)

\* A day asked for once, whatever came of it, is not asked for again.
Taken == day.place = "WFH" /\ day.wfh \in {"PENDING", "APPROVED", "REJECTED"}

AtHome(row) == [row EXCEPT !.place = "WFH", !.wfh = "PENDING"]
\* Slip: the status of the request stays behind.
OnlyInOffice(row) == [row EXCEPT !.place = "OFFICE"]
InOffice(row) == [row EXCEPT !.place = "OFFICE", !.wfh = "NONE"]

\* setWorkArrangement for a day; or requestWfhRange, whose range has this day
\* when nothing was asked for it and no whole day of leave covers it.
WfhRead(h, range) ==
    /\ "wfh" \in Kinds
    /\ ~Taken
    /\ range => ApprovedOf(Full) = {}
    /\ Start(h, IF range THEN [kind |-> "days"]
                ELSE [kind |-> "wfh", id |-> day.id, range |-> FALSE])
    /\ UNCHANGED <<day, made, punches, mark, leave, ledger, told, races>>

\* The range reads the row of each day again, for its id alone.
RangeLook(h) ==
    /\ op[h].kind = "days"
    /\ Continue(h, [kind |-> "wfh", id |-> day.id, range |-> TRUE])
    /\ UNCHANGED <<day, made, punches, mark, leave, ledger, told, races>>

\* The update of a single day repeats the check; that of a range does not.
RefusesTaken(range) == ~range /\ Taken

\* Window: a range request over a request that came in between.
WfhWrite(h) ==
    LET o == op[h]
        lands == o.id = day.id /\ ~RefusesTaken(o.range)
    IN  /\ o.kind = "wfh"
        /\ IF lands THEN Upsert(o.id, AtHome(day)) ELSE UNCHANGED <<day, made>>
        /\ told' = IF lands THEN {} ELSE told
        /\ Finish(h)
        /\ Fell(When("wfh", lands /\ o.range /\ Taken))
        /\ UNCHANGED <<punches, mark, leave, ledger>>

\* Another arrangement: not on a day whose request was turned down, which it
\* would free for a second request.
OfficeRead(h) ==
    /\ "wfh" \in Kinds
    /\ Taken => day.wfh # "REJECTED"
    /\ Start(h, [kind |-> "office", id |-> day.id])
    /\ UNCHANGED <<day, made, punches, mark, leave, ledger, told, races>>

\* By id, whatever was asked or decided meanwhile: a request is withdrawn.
\* Window: it was turned down since.
OfficeWrite(h) ==
    LET o == op[h]
        lands == o.id = day.id
    IN  /\ o.kind = "office"
        /\ IF lands THEN Upsert(o.id, InOffice(day)) ELSE UNCHANGED <<day, made>>
        /\ told' = IF lands /\ day.wfh # "REJECTED" THEN {} ELSE told
        /\ Finish(h)
        /\ Fell(When("freed", lands /\ day.wfh = "REJECTED"))
        /\ UNCHANGED <<punches, mark, leave, ledger>>

Waits == day.place = "WFH" /\ day.wfh = "PENDING"

\* reviewWorkArrangement and reviewWfhRequestGroup.
DecideWfhRead(h, to) ==
    /\ Waits
    /\ Start(h, [kind |-> "decide", id |-> day.id, to |-> to])
    /\ UNCHANGED <<day, made, punches, mark, leave, ledger, told, races>>

\* By id, whatever the row has become.
\* Window: it no longer waits.
DecideWfhWrite(h) ==
    LET o == op[h]
    IN  /\ o.kind = "decide"
        /\ Update(o.id, [day EXCEPT !.wfh = o.to])
        /\ Continue(h, [kind |-> "tell", to |-> o.to])
        /\ Fell(When("wfh", o.id # day.id \/ ~Waits))
        /\ UNCHANGED <<punches, mark, leave, ledger, told>>

\* Nobody acted for the configured hours: one guarded update.
SweepWfh(h) ==
    /\ day.wfh = "PENDING"
    /\ day' = [day EXCEPT !.wfh = "APPROVED"]
    /\ Start(h, [kind |-> "tell", to |-> "APPROVED"])
    /\ UNCHANGED <<made, punches, mark, leave, ledger, told, races>>

\* Only now the decision goes to the timeline, then by notice and mail.
\* Window: the request was withdrawn, or asked for or decided again, meanwhile.
TellWfh(h) ==
    LET to == op[h].to
    IN  /\ op[h].kind = "tell"
        /\ told' = told \cup {to}
        /\ Finish(h)
        /\ Fell(When("late", day.wfh # to))
        /\ UNCHANGED <<day, made, punches, mark, leave, ledger>>

-----------------------------------------------------------------------------
\* The process stops, or a statement fails: the rest of the handler is lost,
\* and what its open transaction did.
GiveUp(h) ==
    /\ op[h] # Idle
    /\ Finish(h)
    /\ Fell(When("unjudged", op[h].kind \in {"punched", "judge"})
       \cup When("unrecorded", op[h].kind \in {"filed", "close"})
       \cup When("untold", op[h].kind = "tell"))
    /\ UNCHANGED <<day, made, punches, mark, leave, ledger, told>>

Next ==
    \/ \E h \in Requests :
         \/ Punch(h) \/ RecalculateRead(h) \/ RecalculateWrite(h)
         \/ \E q \in Filings : FileRead(h, q)
         \/ FileWrite(h) \/ FileRecord(h)
         \/ \E to \in {"approved", "rejected"} : ReviewRead(h, to)
         \/ ReviewWrite(h) \/ WithdrawRead(h) \/ WithdrawWrite(h) \/ CloseRequests(h)
         \/ ImportRead(h) \/ ImportWrite(h)
         \/ \E range \in BOOLEAN : WfhRead(h, range)
         \/ RangeLook(h) \/ WfhWrite(h) \/ OfficeRead(h) \/ OfficeWrite(h)
         \/ \E to \in {"APPROVED", "REJECTED"} : DecideWfhRead(h, to)
         \/ DecideWfhWrite(h) \/ SweepWfh(h) \/ TellWfh(h)
         \/ \E l \in Leaves : StampRead(h, l) \/ UnstampRead(h, l)
         \/ StampWrite(h) \/ UnstampWrite(h) \/ GiveUp(h)

Spec == Init /\ [][Next]_vars

-----------------------------------------------------------------------------
(* What payroll pays for the day, in halves (attendance-summary.ts) *)

RowPay(status) == IF status \in {"PRESENT", "HALF_DAY"} THEN 2 ELSE 0

\* Slip: the stamp of a half-day leave is paid as half a day of work.
PlainRowShare == IF HasRow THEN RowPay(day.status) ELSE 0
\* The stamp of a half-day leave is paid for what was done in the other half.
RowShare ==
    IF ~HasRow THEN 0
    ELSE IF IsHalfStamp(day) /\ ApprovedOf(Half) # {} THEN RowPay(day.kept.status)
    ELSE RowPay(day.status)

LeaveShare == IF ApprovedOf(Full) # {} THEN 2 ELSE Cardinality(ApprovedOf(Half))

\* resolveDayPay, all leave of a paid kind.
DayPay == LET sum == RowShare + LeaveShare IN IF sum > 2 THEN 2 ELSE sum

\* What the day should come to: worked, or off on leave.
Worked == mark \in {"approved", "sheet"} \/ (mark = "punch" /\ punches = 2)
Due == IF Worked THEN 2 ELSE LeaveShare

-----------------------------------------------------------------------------
(* Properties *)

TypeOK ==
    /\ day \in DayRows
    /\ made \in Nat
    /\ punches \in 0..MaxPunches
    /\ mark \in {"none", "punch", "approved", "sheet"}
    /\ leave \in [Leaves -> {"OPEN", "APPROVED", "CANCELLED"}]
    /\ ledger \in [Filings -> {"none", "PENDING", "APPROVED", "REJECTED", "CANCELLED", "deleted"}]
    /\ told \subseteq {"APPROVED", "REJECTED"}
    /\ op \in [Requests -> Ops]
    /\ races \subseteq Windows

\* Every punch has had its recalculation.
AllJudged == InFlight({"punched", "judge"}) = {}

\* However punches, leave, its cancellation, regularization and imports were
\* mixed, payroll pays the day for the work and the leave on it, once.
DayPaidAsDone == AllJudged /\ races = {} => DayPay = Due

\* The history row of a request waits exactly while the day waits for that
\* request, and shows the decision the day shows (closeRegularizationRequest).
RequestsFollowDay ==
    InFlight({"filed", "close"}) = {} /\ races = {} =>
        /\ \A q \in Filings : (ledger[q] = "PENDING") <=> (day.reg = "pending" /\ day.asks = q)
        /\ day.reg = "approved" => ledger[day.asks] = "APPROVED"
        /\ day.reg = "rejected" => ledger[day.asks] = "REJECTED"

\* A Work From Home request is decided once, a day turned down stays so, and the
\* timeline shows the decision in force once every handler has reached it
\* (reviewWorkArrangement, autoApprovePendingWfhForOrg, setWorkArrangement).
WfhDecidedOnce ==
    InFlight({"tell"}) = {} /\ races = {} =>
        told = IF day.wfh \in {"APPROVED", "REJECTED"} THEN {day.wfh} ELSE {}

\* attendance.service.ts:618: a regularized or imported day is left exactly as
\* it is until someone records a real punch for it.
ApprovedTimesStand ==
    races \subseteq {"erased"} /\ mark \in {"approved", "sheet"} => day.times = "pair"

\* attendance-summary.ts:256: a half-day leave with no punch at all pays half.
HalfLeavePaysHalf ==
    races \subseteq {"restamped"} /\ mark = "none" /\ Cardinality(ApprovedOf(Half)) = 1
        => DayPay = 1
=============================================================================
