------------------------- MODULE AttendanceDayProofs -------------------------
(****************************************************************************)
(* What AttendanceDay promises of a day, its requests and its pay, for any  *)
(* number of handlers, leaves and regularization requests.                  *)
(*                                                                          *)
(* The argument: outside the windows a write finds the row as its read left *)
(* it, and so stamps or restores it as if it read it now.  A stamp of leave *)
(* always hides what the day was; the history row of a request, and the     *)
(* word to the employee, lag behind the day only while the handler that     *)
(* owes them is in flight; every row has an id of its own, and the leave on *)
(* the day, with what is being stamped, is one whole day or two halves.     *)
(****************************************************************************)
EXTENDS AttendanceDay, FiniteSetTheorems, TLAPS

-----------------------------------------------------------------------------
(* Types *)

WithId    == {"judge", "sweep", "file", "review", "withdraw", "close", "import", "wfh",
              "office", "decide"}
OfARow    == {"review", "withdraw", "close", "decide"}
OfAFiling == {"file", "filed", "review", "close"}
OfALeave  == {"stamp", "unstamp"}

\* What the snapshot of a handler consists of.
LEMMA Snapshots ==
    ASSUME NEW o \in Ops
    PROVE  /\ o.kind \in WithId => o.id \in Nat
           /\ o.kind \in {"judge", "sweep"} =>
                  o.punches \in 0..MaxPunches /\ o.leave \in {"none", "half", "full"}
           /\ o.kind \in OfAFiling => o.filing \in Filings
           /\ o.kind = "review" => o.to \in {"approved", "rejected"}
           /\ o.kind = "close" => o.to \in {"APPROVED", "REJECTED", "CANCELLED"}
           /\ o.kind = "import" => o.half \in BOOLEAN
           /\ o.kind = "wfh" => o.range \in BOOLEAN
           /\ o.kind \in {"decide", "tell"} => o.to \in {"APPROVED", "REJECTED"}
           /\ o.kind \in OfALeave => o.leave \in Leaves /\ o.seen \in Views
           /\ o.kind = "unstamp" => o.rest \in {"none", "half", "full"}
  BY DEF Ops, Idle, WithId, OfARow, OfAFiling, OfALeave

LEMMA IdleTyped == Idle \in Ops
  BY DEF Ops

LEMMA NoDayTyped == NoDay \in DayRows
  BY DEF NoDay, DayRows, Statuses, Sources, Kept, NotKept

\* A row has an id that was given out, there is none before the first write, and a
\* request that was made on it says which.
RowKept ==
    /\ day \in DayRows /\ made \in Nat
    /\ day.id <= made
    /\ day.id = 0 => day = NoDay
    /\ day.reg # "none" => day.asks \in Filings

\* So has a snapshot; who decides, withdraws or closes saw a row, and who stamps
\* or restores a day without one saw no stamp.
ViewKept(seen, n) == seen.id <= n /\ (seen.id = 0 => seen.source = "FACE_API")

SnapshotsKept ==
    /\ op \in [Requests -> Ops]
    /\ \A h \in Requests :
         /\ op[h].kind \in WithId => op[h].id <= made
         /\ op[h].kind \in OfARow => op[h].id # 0
         /\ op[h].kind \in OfALeave => ViewKept(op[h].seen, made)

TypeInv == TypeOK /\ RowKept /\ SnapshotsKept

LEMMA TypeInit == Init => TypeInv
  BY NoDayTyped, IdleTyped
  DEF Init, TypeInv, TypeOK, RowKept, SnapshotsKept, NoDay, Idle, WithId, OfARow, OfALeave, MaxPunches

\* A handler takes a snapshot, or drops it.
LEMMA SnapshotTaken ==
    ASSUME SnapshotsKept, made \in Nat, made' \in Nat, made <= made',
           NEW h \in Requests, NEW o \in Ops, op' = [op EXCEPT ![h] = o],
           o.kind \in WithId => o.id <= made', o.kind \in OfARow => o.id # 0,
           o.kind \in OfALeave => ViewKept(o.seen, made')
    PROVE  SnapshotsKept'
  <1>1. op' \in [Requests -> Ops]
    BY DEF SnapshotsKept
  <1>2. ASSUME NEW k \in Requests
        PROVE  /\ op'[k].kind \in WithId => op'[k].id <= made'
               /\ op'[k].kind \in OfARow => op'[k].id # 0
               /\ op'[k].kind \in OfALeave => ViewKept(op'[k].seen, made')
    <2>1. CASE k = h
      <3>1. op'[k] = o
        BY <2>1 DEF SnapshotsKept
      <3>2. QED
        BY <3>1
    <2>2. CASE k # h
      <3>1. op'[k] = op[k] /\ op[k] \in Ops
        BY <2>2 DEF SnapshotsKept
      <3>2. op[k].kind \in WithId => op[k].id \in Nat /\ op[k].id <= made
        BY <3>1, Snapshots DEF SnapshotsKept
      <3>3. op[k].kind \in OfALeave => op[k].seen.id \in Nat /\ ViewKept(op[k].seen, made)
        BY <3>1, Snapshots DEF SnapshotsKept, Views
      <3>4. op[k].kind \in OfALeave => ViewKept(op[k].seen, made')
        BY <3>3 DEF ViewKept
      <3>5. QED
        BY <3>1, <3>2, <3>4 DEF SnapshotsKept
    <2>3. QED
      BY <2>1, <2>2
  <1>3. QED
    BY <1>1, <1>2 DEF SnapshotsKept

LEMMA SnapshotDropped ==
    ASSUME SnapshotsKept, made \in Nat, made' \in Nat, made <= made', NEW h \in Requests,
           Finish(h)
    PROVE  SnapshotsKept'
  BY SnapshotTaken, IdleTyped DEF Finish, Idle, WithId, OfARow, OfALeave

\* A handler that creates or updates leaves a row of its columns, or the row that was.
LEMMA UpsertKept ==
    ASSUME RowKept, NEW id \in Nat, NEW columns \in DayRows, Upsert(id, columns),
           id # 0 => columns.id = day.id,
           columns.reg # "none" => columns.asks \in Filings
    PROVE  /\ RowKept' /\ made <= made'
           /\ \/ id = 0 /\ ~HasRow /\ made' = made + 1 /\ day' = [columns EXCEPT !.id = made + 1]
              \/ id # 0 /\ day.id = id /\ made' = made /\ day' = columns
              \/ id # 0 /\ day.id # id /\ made' = made /\ day' = day
  <1>1. CASE id = 0
    <2>1. ~HasRow /\ day' = [columns EXCEPT !.id = made + 1] /\ made' = made + 1
      BY <1>1 DEF Upsert, Create
    <2>2. /\ day' \in DayRows /\ day'.id = made + 1
          /\ day'.reg = columns.reg /\ day'.asks = columns.asks
      BY <2>1 DEF DayRows, RowKept
    <2>3. QED
      BY <1>1, <2>1, <2>2 DEF RowKept
  <1>2. CASE id # 0
    <2>1. made' = made /\ day' = (IF day.id = id THEN columns ELSE day)
      BY <1>2 DEF Upsert, Update
    <2>2. QED
      BY <1>2, <2>1 DEF RowKept
  <1>3. QED
    BY <1>1, <1>2

\* What each writer makes of a row: which columns it sets, and that others stay.
LEMMA JudgedRow ==
    ASSUME day \in DayRows, NEW n \in 0..MaxPunches, NEW away \in {"none", "half", "full"}
    PROVE  /\ Judged(n, away) \in DayRows
           /\ Judged(n, away).status = Outcome(n, away) /\ Judged(n, away).source = "FACE_API"
           /\ \A row \in {Judged(n, away)} :
                  /\ row.id = day.id /\ row.kept = day.kept /\ row.reg = day.reg
                  /\ row.asks = day.asks /\ row.place = day.place /\ row.wfh = day.wfh
  <1>1. n \in {0, 1, 2}
    BY DEF MaxPunches
  <1>2. Outcome(n, away) \in Statuses /\ TimesOf(n) \in {"none", "in", "pair"}
    BY <1>1 DEF Outcome, TimesOf, Statuses
  <1>3. QED
    BY <1>2 DEF Judged, DayRows, Sources

LEMMA StampedRow ==
    ASSUME day \in DayRows, NEW l \in Leaves, NEW seen \in Views
    PROVE  /\ Stamped(l, seen, day) \in DayRows
           /\ \A row \in {Stamped(l, seen, day)} :
                  /\ row.id = day.id /\ row.reg = day.reg
                  /\ row.asks = day.asks /\ row.place = day.place /\ row.wfh = day.wfh
           /\ Stamped(l, seen, day).source = "SYSTEM"
           /\ IF l \in Half /\ IsHalfStamp(seen)
              THEN Stamped(l, seen, day).status = "ON_LEAVE" /\ Stamped(l, seen, day).kept = day.kept
              ELSE /\ Stamped(l, seen, day).status = StampOf(l)
                   /\ Stamped(l, seen, day).kept = Remembered(seen)
  <1>1. Remembered(seen) \in Kept /\ StampOf(l) \in Statuses
    BY DEF Remembered, Kept, StampOf, Statuses, Views
  <1>2. CASE l \in Half /\ IsHalfStamp(seen)
    BY <1>2 DEF Stamped, DayRows, Statuses, Sources
  <1>3. CASE ~(l \in Half /\ IsHalfStamp(seen))
    BY <1>1, <1>3 DEF Stamped, DayRows, Sources
  <1>4. QED
    BY <1>2, <1>3

LEMMA PutBackRow ==
    ASSUME day \in DayRows, NEW seen \in Views, seen.kept # NotKept
    PROVE  /\ PutBack(seen, day) \in DayRows
           /\ \A row \in {PutBack(seen, day)} :
                  /\ row.id = day.id /\ row.reg = day.reg /\ row.asks = day.asks
                  /\ row.place = day.place /\ row.wfh = day.wfh
                  /\ row.status = seen.kept.status /\ row.source = seen.kept.source
                  /\ row.kept = NotKept
  <1>1. seen.kept.status \in Statuses /\ seen.kept.source \in Sources /\ NotKept \in Kept
    BY DEF Views, Kept
  <1>2. QED
    BY <1>1 DEF PutBack, DayRows

LEMMA ViewTyped ==
    ASSUME day \in DayRows
    PROVE  /\ View \in Views /\ View.id = day.id /\ View.status = day.status
           /\ View.source = day.source /\ View.kept = day.kept
           /\ IsStamp(View) <=> IsStamp(day)
           /\ IsHalfStamp(View) <=> IsHalfStamp(day)
           /\ Remembered(View) = Remembered(day)
  BY DEF View, Views, DayRows, IsStamp, IsHalfStamp, Remembered

LEMMA FiledRow ==
    ASSUME NEW row \in DayRows, NEW q \in Filings
    PROVE  /\ Filed(row, q) \in DayRows
           /\ Filed(row, q).reg = "pending" /\ Filed(row, q).asks = q
           /\ \A new \in {Filed(row, q)} :
                  /\ new.id = row.id /\ new.status = row.status /\ new.source = row.source
                  /\ new.kept = row.kept /\ new.times = row.times
                  /\ new.place = row.place /\ new.wfh = row.wfh
  BY DEF Filed, DayRows

LEMMA DecidedRow ==
    ASSUME day \in DayRows, NEW q \in Filings, NEW to \in {"approved", "rejected"}
    PROVE  /\ Decided(q, to) \in DayRows
           /\ Decided(q, to).reg = to /\ Decided(q, to).asks = q
           /\ \A new \in {Decided(q, to)} :
                  /\ new.id = day.id /\ new.kept = day.kept
                  /\ new.place = day.place /\ new.wfh = day.wfh
           /\ to = "approved" => /\ Decided(q, to).status = "PRESENT"
                                 /\ Decided(q, to).source = "REGULARIZED"
           /\ to = "rejected" => /\ Decided(q, to).status = day.status
                                 /\ Decided(q, to).source = day.source
  <1>1. CASE to = "approved"
    <2>1. "PRESENT" \in Statuses /\ "REGULARIZED" \in Sources
      BY DEF Statuses, Sources
    <2>2. QED
      BY <1>1, <2>1 DEF Decided, DayRows
  <1>2. CASE to = "rejected"
    BY <1>2 DEF Decided, DayRows
  <1>3. QED
    BY <1>1, <1>2

LEMMA ImportedRow ==
    ASSUME day \in DayRows, NEW half \in BOOLEAN
    PROVE  /\ Imported(day, half) \in DayRows
           /\ \A new \in {Imported(day, half)} :
                  /\ new.id = day.id /\ new.reg = day.reg /\ new.asks = day.asks
                  /\ new.place = day.place /\ new.wfh = day.wfh
           /\ half => /\ Imported(day, half).status = day.status
                      /\ Imported(day, half).source = day.source
                      /\ Imported(day, half).kept =
                             [status |-> "PRESENT", source |-> "EXCEL_IMPORT"]
           /\ ~half => /\ Imported(day, half).status = "PRESENT"
                       /\ Imported(day, half).source = "EXCEL_IMPORT"
                       /\ Imported(day, half).kept = day.kept
  <1>1. [status |-> "PRESENT", source |-> "EXCEL_IMPORT"] \in Kept
    BY DEF Kept, Statuses, Sources
  <1>2. CASE half
    BY <1>1, <1>2 DEF Imported, DayRows
  <1>3. CASE ~half
    BY <1>3 DEF Imported, DayRows, Statuses, Sources
  <1>4. QED
    BY <1>2, <1>3

LEMMA HomeRow ==
    ASSUME day \in DayRows
    PROVE  \A new \in {AtHome(day), InOffice(day)}
                       \cup {[day EXCEPT !.wfh = w] : w \in {"APPROVED", "REJECTED"}} :
                  /\ new \in DayRows /\ new.id = day.id
                  /\ new.reg = day.reg /\ new.asks = day.asks
                  /\ new.status = day.status /\ new.source = day.source
                  /\ new.kept = day.kept
  <1>1. ASSUME NEW new \in {AtHome(day), InOffice(day)}
        PROVE  /\ new \in DayRows /\ new.id = day.id
               /\ new.reg = day.reg /\ new.asks = day.asks
               /\ new.status = day.status /\ new.source = day.source
               /\ new.kept = day.kept
    <2>1. CASE new = AtHome(day)
      BY <2>1 DEF AtHome, DayRows
    <2>2. CASE new = InOffice(day)
      BY <2>2 DEF InOffice, DayRows
    <2>3. QED
      BY <2>1, <2>2
  <1>2. ASSUME NEW w \in {"APPROVED", "REJECTED"}, NEW new, new = [day EXCEPT !.wfh = w]
        PROVE  /\ new \in DayRows /\ new.id = day.id
               /\ new.reg = day.reg /\ new.asks = day.asks
               /\ new.status = day.status /\ new.source = day.source
               /\ new.kept = day.kept
    BY <1>2 DEF DayRows
  <1>3. QED
    BY <1>1, <1>2

LEMMA UpdateKept ==
    ASSUME RowKept, NEW id \in Nat, id # 0, NEW columns \in DayRows, Update(id, columns),
           columns.id = day.id, columns.reg # "none" => columns.asks \in Filings
    PROVE  /\ RowKept' /\ made' = made
           /\ day' = IF day.id = id THEN columns ELSE day
  BY DEF Update, RowKept

-----------------------------------------------------------------------------
(* Steps *)

\* Steps that leave the row alone.
Elsewhere(h) ==
    \/ Punch(h) \/ RecalculateRead(h) \/ (\E q \in Filings : FileRead(h, q)) \/ FileRecord(h)
    \/ (\E to \in {"approved", "rejected"} : ReviewRead(h, to))
    \/ WithdrawRead(h) \/ CloseRequests(h) \/ ImportRead(h)
    \/ (\E range \in BOOLEAN : WfhRead(h, range)) \/ RangeLook(h) \/ OfficeRead(h)
    \/ (\E to \in {"APPROVED", "REJECTED"} : DecideWfhRead(h, to)) \/ TellWfh(h)
    \/ (\E l \in Leaves : StampRead(h, l) \/ UnstampRead(h, l)) \/ GiveUp(h)

LEMMA ElsewhereStep ==
    ASSUME NEW h \in Requests, Elsewhere(h)
    PROVE  day' = day /\ made' = made
  BY DEF Elsewhere, Punch, RecalculateRead, FileRead, FileRecord, ReviewRead, WithdrawRead,
         CloseRequests, ImportRead, WfhRead, RangeLook, OfficeRead, DecideWfhRead, TellWfh,
         StampRead, UnstampRead, GiveUp

\* What each step may do, one case for each writer of the row.
LEMMA Steps ==
    ASSUME [Next]_vars
    PROVE  \/ \E h \in Requests :
                 \/ Elsewhere(h) \/ RecalculateWrite(h) \/ FileWrite(h) \/ ReviewWrite(h)
                 \/ WithdrawWrite(h) \/ ImportWrite(h) \/ WfhWrite(h) \/ OfficeWrite(h)
                 \/ DecideWfhWrite(h) \/ SweepWfh(h) \/ StampWrite(h) \/ UnstampWrite(h)
           \/ UNCHANGED vars
  BY DEF Next, Elsewhere

\* A recalculation leaves the row, or writes the outcome of what it saw.
LEMMA RecalculateWriteStep ==
    ASSUME TypeInv, NEW h \in Requests, RecalculateWrite(h)
    PROVE  /\ RowKept' /\ made <= made'
           /\ \/ day' = day /\ made' = made /\ op[h].id # day.id
              \/ /\ op[h].id = day.id /\ day'.id # 0
                 /\ day'.status = Outcome(op[h].punches, op[h].leave)
                 /\ day'.source = "FACE_API"
                 /\ day'.kept = day.kept /\ day'.reg = day.reg /\ day'.asks = day.asks
                 /\ day'.place = day.place /\ day'.wfh = day.wfh
                 /\ day'.id = IF HasRow THEN day.id ELSE made + 1
  <1> DEFINE o == op[h]
             new == Judged(o.punches, o.leave)
  <1>1. /\ o \in Ops /\ o.id \in Nat /\ o.punches \in 0..MaxPunches
        /\ o.leave \in {"none", "half", "full"} /\ RowKept /\ day \in DayRows
    BY Snapshots DEF TypeInv, SnapshotsKept, RowKept, RecalculateWrite, WithId
  <1>2. IF o.id = day.id THEN Upsert(o.id, new) ELSE UNCHANGED <<day, made>>
    BY DEF RecalculateWrite
  <1>3. /\ new \in DayRows
        /\ new.status = Outcome(o.punches, o.leave) /\ new.source = "FACE_API"
        /\ new.id = day.id /\ new.kept = day.kept /\ new.reg = day.reg
        /\ new.asks = day.asks /\ new.place = day.place /\ new.wfh = day.wfh
    BY <1>1, JudgedRow
  <1> HIDE DEF new
  <1>4. CASE o.id # day.id
    BY <1>1, <1>2, <1>4 DEF RowKept
  <1>5. CASE o.id = day.id
    <2>1. Upsert(o.id, new)
      BY <1>2, <1>5
    <2>2. new.reg # "none" => new.asks \in Filings
      BY <1>1, <1>3 DEF RowKept
    <2>3. /\ RowKept' /\ made <= made'
          /\ \/ o.id = 0 /\ ~HasRow /\ made' = made + 1 /\ day' = [new EXCEPT !.id = made + 1]
             \/ o.id # 0 /\ day.id = o.id /\ made' = made /\ day' = new
             \/ o.id # 0 /\ day.id # o.id /\ made' = made /\ day' = day
      BY <1>1, <1>3, <2>1, <2>2, UpsertKept
    <2>4. CASE o.id = 0
      <3>1. ~HasRow /\ day' = [new EXCEPT !.id = made + 1] /\ made \in Nat
        BY <1>1, <2>3, <2>4 DEF RowKept
      <3>2. /\ day'.id = made + 1 /\ day'.status = new.status /\ day'.source = new.source
            /\ day'.kept = new.kept /\ day'.reg = new.reg /\ day'.asks = new.asks
            /\ day'.place = new.place /\ day'.wfh = new.wfh
        BY <1>3, <3>1 DEF DayRows
      <3>3. QED
        BY <1>3, <1>5, <2>3, <3>1, <3>2
    <2>5. CASE o.id # 0
      BY <1>3, <1>5, <2>3, <2>5 DEF HasRow
    <2>6. QED
      BY <2>4, <2>5
  <1>6. QED
    BY <1>4, <1>5

\* A filing finds another row there, or writes its request, or finds its row gone.
LEMMA FileWriteStep ==
    ASSUME TypeInv, NEW h \in Requests, FileWrite(h)
    PROVE  /\ op[h].filing \in Filings
           /\ RowKept' /\ made <= made'
           /\ \/ day' = day /\ made' = made /\ op[h].id # day.id
              \/ /\ op[h].id = day.id /\ day'.id # 0
                 /\ day'.reg = "pending" /\ day'.asks = op[h].filing
                 /\ day'.kept = day.kept
                 /\ day'.place = day.place /\ day'.wfh = day.wfh
                 /\ IF HasRow THEN /\ day'.id = day.id /\ day'.status = day.status
                                   /\ day'.source = day.source
                    ELSE /\ day'.id = made + 1 /\ day'.status = "ABSENT"
                         /\ day'.source = "SYSTEM"
  <1> DEFINE o == op[h]
             row == IF o.id = 0 THEN [NoDay EXCEPT !.source = "SYSTEM"] ELSE day
             new == Filed(row, o.filing)
  <1>1. /\ o \in Ops /\ o.id \in Nat /\ o.filing \in Filings /\ RowKept /\ day \in DayRows
        /\ made \in Nat
    BY Snapshots DEF TypeInv, SnapshotsKept, RowKept, FileWrite, WithId, OfAFiling
  <1>2. IF Collides(o.id) THEN UNCHANGED <<day, made>> ELSE Upsert(o.id, new)
    BY DEF FileWrite
  <1>3. row \in DayRows
    BY <1>1, NoDayTyped DEF DayRows, Sources
  <1>4. /\ new \in DayRows /\ new.reg = "pending" /\ new.asks = o.filing
        /\ new.id = row.id /\ new.status = row.status /\ new.source = row.source
        /\ new.kept = row.kept /\ new.place = row.place /\ new.wfh = row.wfh
    BY <1>1, <1>3, FiledRow
  <1>5. o.id = 0 => /\ row.status = "ABSENT" /\ row.source = "SYSTEM" /\ row.kept = NoDay.kept
                    /\ row.place = NoDay.place /\ row.wfh = NoDay.wfh
    BY DEF NoDay
  <1>6. o.id # 0 => row = day
    OBVIOUS
  <1> HIDE DEF new, row
  <1>7. CASE Collides(o.id)
    BY <1>1, <1>2, <1>7 DEF Collides, HasRow, RowKept
  <1>8. CASE ~Collides(o.id)
    <2>1. /\ RowKept' /\ made <= made'
          /\ \/ o.id = 0 /\ ~HasRow /\ made' = made + 1 /\ day' = [new EXCEPT !.id = made + 1]
             \/ o.id # 0 /\ day.id = o.id /\ made' = made /\ day' = new
             \/ o.id # 0 /\ day.id # o.id /\ made' = made /\ day' = day
      BY <1>1, <1>2, <1>4, <1>6, <1>8, UpsertKept
    <2>2. CASE o.id = 0
      <3>1. ~HasRow /\ day' = [new EXCEPT !.id = made + 1] /\ day = NoDay /\ day.id = 0
        BY <1>1, <2>1, <2>2 DEF RowKept, HasRow
      <3>2. /\ day'.id = made + 1 /\ day'.status = new.status /\ day'.source = new.source
            /\ day'.kept = new.kept /\ day'.reg = new.reg /\ day'.asks = new.asks
            /\ day'.place = new.place /\ day'.wfh = new.wfh
        BY <1>4, <3>1 DEF DayRows
      <3>3. QED
        BY <1>1, <1>4, <1>5, <2>1, <2>2, <3>1, <3>2
    <2>3. CASE o.id # 0
      BY <1>1, <1>4, <1>6, <2>1, <2>3 DEF HasRow
    <2>4. QED
      BY <2>2, <2>3
  <1>9. QED
    BY <1>7, <1>8

LEMMA ReviewWriteStep ==
    ASSUME TypeInv, NEW h \in Requests, ReviewWrite(h)
    PROVE  /\ op[h].filing \in Filings /\ op[h].to \in {"approved", "rejected"}
           /\ op[h].id \in Nat /\ op[h].id # 0 /\ op[h].id <= made
           /\ RowKept' /\ made' = made
           /\ ~StillWaits(op[h].id) => day' = day
           /\ StillWaits(op[h].id) =>
                 /\ day'.id = day.id /\ day'.kept = day.kept
                 /\ day'.place = day.place /\ day'.wfh = day.wfh
                 /\ day'.reg = op[h].to /\ day'.asks = op[h].filing
                 /\ op[h].to = "approved" =>
                        day'.status = "PRESENT" /\ day'.source = "REGULARIZED"
                 /\ op[h].to = "rejected" =>
                        day'.status = day.status /\ day'.source = day.source
  <1> DEFINE o == op[h]
             new == Decided(o.filing, o.to)
  <1>1. /\ o \in Ops /\ o.id \in Nat /\ o.id # 0 /\ o.id <= made
        /\ o.filing \in Filings /\ o.to \in {"approved", "rejected"}
        /\ RowKept /\ day \in DayRows
    BY Snapshots
    DEF TypeInv, SnapshotsKept, RowKept, ReviewWrite, WithId, OfAFiling, OfARow
  <1>2. IF StillWaits(o.id) THEN Update(o.id, new) ELSE UNCHANGED <<day, made>>
    BY DEF ReviewWrite
  <1>3. /\ new \in DayRows /\ new.reg = o.to /\ new.asks = o.filing
        /\ new.id = day.id /\ new.kept = day.kept
        /\ new.place = day.place /\ new.wfh = day.wfh
        /\ o.to = "approved" => new.status = "PRESENT" /\ new.source = "REGULARIZED"
        /\ o.to = "rejected" => new.status = day.status /\ new.source = day.source
    BY <1>1, DecidedRow
  <1> HIDE DEF new
  <1>4. CASE StillWaits(o.id)
    <2>1. RowKept' /\ made' = made /\ day' = new
      BY <1>1, <1>2, <1>3, <1>4, UpdateKept DEF StillWaits
    <2>2. QED
      BY <1>1, <1>3, <1>4, <2>1
  <1>5. CASE ~StillWaits(o.id)
    BY <1>1, <1>2, <1>5 DEF RowKept
  <1>6. QED
    BY <1>4, <1>5

LEMMA WithdrawWriteStep ==
    ASSUME TypeInv, NEW h \in Requests, WithdrawWrite(h)
    PROVE  /\ op[h].id \in Nat /\ op[h].id # 0 /\ op[h].id <= made
           /\ RowKept' /\ made' = made
           /\ ~StillWaits(op[h].id) => day' = day
           /\ StillWaits(op[h].id) =>
                 /\ day.asks \in Filings
                 /\ day'.reg = "none" /\ day'.asks = NoFiling
                 /\ day'.id = day.id /\ day'.kept = day.kept
                 /\ day'.status = day.status /\ day'.source = day.source
                 /\ day'.place = day.place /\ day'.wfh = day.wfh
  <1> DEFINE o == op[h]
             new == [day EXCEPT !.reg = "none", !.asks = NoFiling]
  <1>1. /\ o \in Ops /\ o.id \in Nat /\ o.id # 0 /\ o.id <= made /\ RowKept /\ day \in DayRows
    BY Snapshots DEF TypeInv, SnapshotsKept, RowKept, WithdrawWrite, WithId, OfARow
  <1>2. IF StillWaits(o.id) THEN Update(o.id, new) ELSE UNCHANGED <<day, made>>
    BY DEF WithdrawWrite
  <1>3. /\ new \in DayRows /\ new.reg = "none" /\ new.asks = NoFiling
        /\ new.id = day.id /\ new.kept = day.kept
        /\ new.status = day.status /\ new.source = day.source
        /\ new.place = day.place /\ new.wfh = day.wfh
    BY <1>1 DEF DayRows
  <1> HIDE DEF new
  <1>4. CASE StillWaits(o.id)
    <2>1. RowKept' /\ made' = made /\ day' = new
      BY <1>1, <1>2, <1>3, <1>4, UpdateKept DEF StillWaits
    <2>2. day.asks \in Filings
      BY <1>1, <1>4 DEF StillWaits, RowKept
    <2>3. QED
      BY <1>1, <1>3, <1>4, <2>1, <2>2
  <1>5. CASE ~StillWaits(o.id)
    BY <1>1, <1>2, <1>5 DEF RowKept
  <1>6. QED
    BY <1>4, <1>5

LEMMA ImportWriteStep ==
    ASSUME TypeInv, NEW h \in Requests, ImportWrite(h)
    PROVE  /\ op[h].half \in BOOLEAN
           /\ RowKept' /\ made <= made'
           /\ \/ day' = day /\ made' = made /\ op[h].id # day.id
              \/ /\ op[h].id = day.id /\ day'.id # 0
                 /\ day'.reg = day.reg /\ day'.asks = day.asks
                 /\ day'.place = day.place /\ day'.wfh = day.wfh
                 /\ day'.id = IF HasRow THEN day.id ELSE made + 1
                 /\ op[h].half =>
                        /\ day'.status = day.status /\ day'.source = day.source
                        /\ day'.kept = [status |-> "PRESENT", source |-> "EXCEL_IMPORT"]
                 /\ ~op[h].half =>
                        /\ day'.status = "PRESENT" /\ day'.source = "EXCEL_IMPORT"
                        /\ day'.kept = day.kept
  <1> DEFINE o == op[h]
             new == Imported(day, o.half)
  <1>1. /\ o \in Ops /\ o.id \in Nat /\ o.half \in BOOLEAN /\ RowKept /\ day \in DayRows
        /\ made \in Nat
    BY Snapshots DEF TypeInv, SnapshotsKept, RowKept, ImportWrite, WithId
  <1>2. IF o.id = day.id THEN Upsert(o.id, new) ELSE UNCHANGED <<day, made>>
    BY DEF ImportWrite
  <1>3. /\ new \in DayRows
        /\ new.id = day.id /\ new.reg = day.reg /\ new.asks = day.asks
        /\ new.place = day.place /\ new.wfh = day.wfh
        /\ o.half => /\ new.status = day.status /\ new.source = day.source
                     /\ new.kept = [status |-> "PRESENT", source |-> "EXCEL_IMPORT"]
        /\ ~o.half => /\ new.status = "PRESENT" /\ new.source = "EXCEL_IMPORT"
                      /\ new.kept = day.kept
    BY <1>1, ImportedRow
  <1> HIDE DEF new
  <1>4. CASE o.id # day.id
    BY <1>1, <1>2, <1>4 DEF RowKept
  <1>5. CASE o.id = day.id
    <2>1. new.reg # "none" => new.asks \in Filings
      BY <1>1, <1>3 DEF RowKept
    <2>2. /\ RowKept' /\ made <= made'
          /\ \/ o.id = 0 /\ ~HasRow /\ made' = made + 1 /\ day' = [new EXCEPT !.id = made + 1]
             \/ o.id # 0 /\ day.id = o.id /\ made' = made /\ day' = new
             \/ o.id # 0 /\ day.id # o.id /\ made' = made /\ day' = day
      BY <1>1, <1>2, <1>3, <1>5, <2>1, UpsertKept
    <2>3. CASE o.id = 0
      <3>1. ~HasRow /\ day' = [new EXCEPT !.id = made + 1]
        BY <2>2, <2>3
      <3>2. /\ day'.id = made + 1 /\ day'.status = new.status /\ day'.source = new.source
            /\ day'.kept = new.kept /\ day'.reg = new.reg /\ day'.asks = new.asks
            /\ day'.place = new.place /\ day'.wfh = new.wfh
        BY <1>3, <3>1 DEF DayRows
      <3>3. QED
        BY <1>1, <1>3, <1>5, <2>2, <3>1, <3>2
    <2>4. CASE o.id # 0
      BY <1>1, <1>3, <1>5, <2>2, <2>4 DEF HasRow
    <2>5. QED
      BY <2>3, <2>4
  <1>6. QED
    BY <1>4, <1>5

LEMMA WfhWriteStep ==
    ASSUME TypeInv, NEW h \in Requests, WfhWrite(h)
    PROVE  /\ op[h].range \in BOOLEAN
           /\ RowKept' /\ made <= made'
           /\ ~(op[h].id = day.id /\ ~RefusesTaken(op[h].range)) => day' = day /\ made' = made
           /\ op[h].id = day.id /\ ~RefusesTaken(op[h].range) =>
                 /\ day'.id = IF HasRow THEN day.id ELSE made + 1
                 /\ day'.id # 0
                 /\ day'.reg = day.reg /\ day'.asks = day.asks
                 /\ day'.status = day.status /\ day'.source = day.source
                 /\ day'.kept = day.kept
                 /\ day'.place = "WFH" /\ day'.wfh = "PENDING"
  <1> DEFINE o == op[h]
             lands == o.id = day.id /\ ~RefusesTaken(o.range)
             new == AtHome(day)
  <1>1. /\ o \in Ops /\ o.id \in Nat /\ o.range \in BOOLEAN /\ RowKept /\ day \in DayRows
        /\ made \in Nat
    BY Snapshots DEF TypeInv, SnapshotsKept, RowKept, WfhWrite, WithId
  <1>2. IF lands THEN Upsert(o.id, new) ELSE UNCHANGED <<day, made>>
    BY DEF WfhWrite
  <1>3. /\ new \in DayRows /\ new.id = day.id /\ new.reg = day.reg /\ new.asks = day.asks
        /\ new.status = day.status /\ new.source = day.source /\ new.kept = day.kept
        /\ new.place = "WFH" /\ new.wfh = "PENDING"
    BY <1>1, HomeRow DEF AtHome, DayRows
  <1> HIDE DEF new
  <1>4. CASE ~lands
    BY <1>1, <1>2, <1>4 DEF RowKept
  <1>5. CASE lands
    <2>1. new.reg # "none" => new.asks \in Filings
      BY <1>1, <1>3 DEF RowKept
    <2>2. /\ RowKept' /\ made <= made'
          /\ \/ o.id = 0 /\ ~HasRow /\ made' = made + 1 /\ day' = [new EXCEPT !.id = made + 1]
             \/ o.id # 0 /\ day.id = o.id /\ made' = made /\ day' = new
             \/ o.id # 0 /\ day.id # o.id /\ made' = made /\ day' = day
      BY <1>1, <1>2, <1>3, <1>5, <2>1, UpsertKept
    <2>3. CASE o.id = 0
      <3>1. ~HasRow /\ day' = [new EXCEPT !.id = made + 1]
        BY <2>2, <2>3
      <3>2. /\ day'.id = made + 1 /\ day'.status = new.status /\ day'.source = new.source
            /\ day'.kept = new.kept /\ day'.reg = new.reg /\ day'.asks = new.asks
            /\ day'.place = new.place /\ day'.wfh = new.wfh
        BY <1>3, <3>1 DEF DayRows
      <3>3. QED
        BY <1>1, <1>3, <1>5, <2>2, <3>1, <3>2
    <2>4. CASE o.id # 0
      BY <1>1, <1>3, <1>5, <2>2, <2>4 DEF HasRow
    <2>5. QED
      BY <2>3, <2>4
  <1>6. QED
    BY <1>4, <1>5

\* A withdrawal, a decision and the sweep of a Work From Home request touch that only.
LEMMA OfficeWriteStep ==
    ASSUME TypeInv, NEW h \in Requests, OfficeWrite(h)
    PROVE  /\ RowKept' /\ made <= made'
           /\ op[h].id # day.id => day' = day /\ made' = made
           /\ op[h].id = day.id =>
                 /\ day'.id = IF HasRow THEN day.id ELSE made + 1
                 /\ day'.id # 0
                 /\ day'.reg = day.reg /\ day'.asks = day.asks
                 /\ day'.status = day.status /\ day'.source = day.source
                 /\ day'.kept = day.kept
                 /\ day'.place = "OFFICE" /\ day'.wfh = "NONE"
  <1> DEFINE o == op[h]
             new == InOffice(day)
  <1>1. o \in Ops /\ o.id \in Nat /\ RowKept /\ day \in DayRows /\ made \in Nat
    BY Snapshots DEF TypeInv, SnapshotsKept, RowKept, OfficeWrite, WithId
  <1>2. IF o.id = day.id THEN Upsert(o.id, new) ELSE UNCHANGED <<day, made>>
    BY DEF OfficeWrite
  <1>3. /\ new \in DayRows /\ new.id = day.id /\ new.reg = day.reg /\ new.asks = day.asks
        /\ new.status = day.status /\ new.source = day.source /\ new.kept = day.kept
        /\ new.place = "OFFICE" /\ new.wfh = "NONE"
    BY <1>1, HomeRow DEF InOffice, DayRows
  <1> HIDE DEF new
  <1>4. CASE o.id # day.id
    BY <1>1, <1>2, <1>4 DEF RowKept
  <1>5. CASE o.id = day.id
    <2>1. new.reg # "none" => new.asks \in Filings
      BY <1>1, <1>3 DEF RowKept
    <2>2. /\ RowKept' /\ made <= made'
          /\ \/ o.id = 0 /\ ~HasRow /\ made' = made + 1 /\ day' = [new EXCEPT !.id = made + 1]
             \/ o.id # 0 /\ day.id = o.id /\ made' = made /\ day' = new
             \/ o.id # 0 /\ day.id # o.id /\ made' = made /\ day' = day
      BY <1>1, <1>2, <1>3, <1>5, <2>1, UpsertKept
    <2>3. CASE o.id = 0
      <3>1. ~HasRow /\ day' = [new EXCEPT !.id = made + 1]
        BY <2>2, <2>3
      <3>2. /\ day'.id = made + 1 /\ day'.status = new.status /\ day'.source = new.source
            /\ day'.kept = new.kept /\ day'.reg = new.reg /\ day'.asks = new.asks
            /\ day'.place = new.place /\ day'.wfh = new.wfh
        BY <1>3, <3>1 DEF DayRows
      <3>3. QED
        BY <1>1, <1>3, <1>5, <2>2, <3>1, <3>2
    <2>4. CASE o.id # 0
      BY <1>1, <1>3, <1>5, <2>2, <2>4 DEF HasRow
    <2>5. QED
      BY <2>3, <2>4
  <1>6. QED
    BY <1>4, <1>5

LEMMA DecideWfhWriteStep ==
    ASSUME TypeInv, NEW h \in Requests, DecideWfhWrite(h)
    PROVE  /\ op[h].to \in {"APPROVED", "REJECTED"}
           /\ RowKept' /\ made' = made /\ day'.id = day.id
           /\ day'.reg = day.reg /\ day'.asks = day.asks
           /\ day'.status = day.status /\ day'.source = day.source /\ day'.kept = day.kept
           /\ op[h].id = day.id => day'.wfh = op[h].to
  <1> DEFINE new == [day EXCEPT !.wfh = op[h].to]
  <1>1. /\ op[h].id \in Nat /\ op[h].id # 0 /\ op[h].to \in {"APPROVED", "REJECTED"}
        /\ RowKept /\ day \in DayRows
    BY Snapshots DEF TypeInv, SnapshotsKept, RowKept, DecideWfhWrite, WithId, OfARow
  <1>2. /\ new \in DayRows /\ new.id = day.id /\ new.reg = day.reg /\ new.asks = day.asks
        /\ new.status = day.status /\ new.source = day.source /\ new.kept = day.kept
        /\ new.wfh = op[h].to
    BY <1>1 DEF DayRows
  <1>3. Update(op[h].id, new)
    BY DEF DecideWfhWrite
  <1> HIDE DEF new
  <1>4. new.reg # "none" => new.asks \in Filings
    BY <1>1, <1>2 DEF RowKept
  <1>5. RowKept' /\ made' = made /\ day' = IF day.id = op[h].id THEN new ELSE day
    BY <1>1, <1>2, <1>3, <1>4, UpdateKept
  <1>6. QED
    BY <1>1, <1>2, <1>5

LEMMA SweepWfhStep ==
    ASSUME TypeInv, NEW h \in Requests, SweepWfh(h)
    PROVE  /\ RowKept' /\ made' = made /\ day'.id = day.id
           /\ day'.reg = day.reg /\ day'.asks = day.asks
           /\ day'.status = day.status /\ day'.source = day.source /\ day'.kept = day.kept
           /\ day'.wfh = "APPROVED"
  <1>1. RowKept /\ day \in DayRows /\ day' = [day EXCEPT !.wfh = "APPROVED"] /\ made' = made
    BY DEF TypeInv, RowKept, SweepWfh
  <1>2. /\ day' \in DayRows /\ day'.id = day.id /\ day'.reg = day.reg /\ day'.asks = day.asks
        /\ day'.status = day.status /\ day'.source = day.source /\ day'.kept = day.kept
        /\ day'.wfh = "APPROVED"
    BY <1>1 DEF DayRows
  <1>3. day.id # 0
    BY <1>1 DEF SweepWfh, RowKept, NoDay
  <1>4. QED
    BY <1>1, <1>2, <1>3 DEF RowKept

\* A leave stamps the day as it saw it, or finds it gone, or is refused.
LEMMA StampWriteStep ==
    ASSUME TypeInv, NEW h \in Requests, StampWrite(h)
    PROVE  LET l    == op[h].leave
               seen == op[h].seen
           IN  /\ l \in Leaves /\ seen \in Views
               /\ RowKept' /\ made <= made'
               /\ day'.reg = day.reg /\ day'.asks = day.asks
               /\ day'.place = day.place /\ day'.wfh = day.wfh
               /\ \/ day' = day /\ made' = made
                  \/ /\ seen.id = day.id /\ day'.id # 0
                     /\ day'.id = IF HasRow THEN day.id ELSE made + 1
               /\ seen.id = day.id /\ HasRow => day' = Stamped(l, seen, day)
               /\ seen.id = day.id /\ ~HasRow =>
                      /\ day'.id # 0 /\ day'.source = "SYSTEM"
                      /\ day'.status = StampOf(l) /\ day'.kept = NotKept
  <1> DEFINE l == op[h].leave
             seen == op[h].seen
             new == IF seen.id = 0 THEN [NoDay EXCEPT !.status = StampOf(l), !.source = "SYSTEM"]
                    ELSE Stamped(l, seen, day)
  <1>1. /\ l \in Leaves /\ seen \in Views /\ seen.id \in Nat
        /\ RowKept /\ day \in DayRows /\ made \in Nat
    BY Snapshots DEF TypeInv, SnapshotsKept, RowKept, StampWrite, OfALeave, Views
  <1>2. IF Collides(seen.id) THEN UNCHANGED <<day, made>> ELSE Upsert(seen.id, new)
    BY DEF StampWrite
  <1>3. StampOf(l) \in Statuses /\ "SYSTEM" \in Sources
    BY DEF StampOf, Statuses, Sources
  <1>4. seen.id = 0 =>
           /\ new \in DayRows /\ new.status = StampOf(l) /\ new.source = "SYSTEM"
           /\ new.kept = NoDay.kept /\ new.reg = NoDay.reg /\ new.asks = NoDay.asks
           /\ new.place = NoDay.place /\ new.wfh = NoDay.wfh
    BY <1>3, NoDayTyped DEF DayRows
  <1>5. seen.id # 0 => new = Stamped(l, seen, day)
    OBVIOUS
  <1>6. /\ Stamped(l, seen, day) \in DayRows /\ Stamped(l, seen, day).id = day.id
        /\ Stamped(l, seen, day).reg = day.reg /\ Stamped(l, seen, day).asks = day.asks
        /\ Stamped(l, seen, day).place = day.place /\ Stamped(l, seen, day).wfh = day.wfh
    BY <1>1, StampedRow
  <1>7. NoDay.kept = NotKept /\ NoDay.reg = "none"
    BY DEF NoDay
  <1> HIDE DEF new, l, seen
  <1>8. CASE Collides(seen.id)
    <2>1. day' = day /\ made' = made /\ seen.id # day.id
      BY <1>2, <1>8 DEF Collides, HasRow
    <2>2. QED
      BY <1>1, <2>1 DEF RowKept, l, seen
  <1>9. CASE ~Collides(seen.id)
    <2>1. new \in DayRows /\ (seen.id # 0 => new.id = day.id)
      BY <1>4, <1>5, <1>6
    <2>2. new.reg # "none" => new.asks \in Filings
      BY <1>1, <1>4, <1>5, <1>6, <1>7 DEF RowKept
    <2>3. Upsert(seen.id, new)
      BY <1>2, <1>9
    <2>4. /\ RowKept' /\ made <= made'
          /\ \/ seen.id = 0 /\ ~HasRow /\ made' = made + 1 /\ day' = [new EXCEPT !.id = made + 1]
             \/ seen.id # 0 /\ day.id = seen.id /\ made' = made /\ day' = new
             \/ seen.id # 0 /\ day.id # seen.id /\ made' = made /\ day' = day
      BY <1>1, <2>1, <2>2, <2>3, UpsertKept
    <2>5. CASE seen.id = 0
      <3>1. ~HasRow /\ day' = [new EXCEPT !.id = made + 1] /\ day = NoDay /\ day.id = 0
        BY <1>1, <2>4, <2>5 DEF RowKept, HasRow
      <3>2. /\ day'.id = made + 1 /\ day'.status = new.status /\ day'.source = new.source
            /\ day'.kept = new.kept /\ day'.reg = new.reg /\ day'.asks = new.asks
            /\ day'.place = new.place /\ day'.wfh = new.wfh
        BY <2>1, <3>1 DEF DayRows
      <3>3. QED
        BY <1>1, <1>4, <1>7, <2>4, <2>5, <3>1, <3>2 DEF l, seen
    <2>6. CASE seen.id # 0 /\ day.id = seen.id
      BY <1>1, <1>5, <1>6, <2>4, <2>6 DEF HasRow, l, seen
    <2>7. CASE seen.id # 0 /\ day.id # seen.id
      BY <1>1, <2>4, <2>7 DEF l, seen
    <2>8. QED
      BY <2>5, <2>6, <2>7
  <1>10. QED
    BY <1>8, <1>9

\* Not overtaken, it stamps the row as it is.
LEMMA StampStep ==
    ASSUME TypeInv, NEW h \in Requests, StampWrite(h), ~Collides(op[h].seen.id), races' = {}
    PROVE  LET l == op[h].leave IN
           /\ day'.id # 0 /\ day'.source = "SYSTEM"
           /\ HasRow /\ l \in Half /\ IsHalfStamp(day) =>
                  day'.status = "ON_LEAVE" /\ day'.kept = day.kept
           /\ HasRow /\ ~(l \in Half /\ IsHalfStamp(day)) =>
                  day'.status = StampOf(l) /\ day'.kept = Remembered(day)
           /\ ~HasRow => day'.status = StampOf(l) /\ day'.kept = NotKept
           /\ ~(HasRow /\ day.kept # NotKept /\ ~IsStamp(day))
  <1> DEFINE l == op[h].leave
             seen == op[h].seen
  <1>1. /\ Fell(When("overtaken", StampOvertaken(l, seen))
           \cup When("remembered", HasRow /\ day.kept # NotKept /\ ~IsStamp(day)))
    BY DEF StampWrite
  <1>2. ~StampOvertaken(l, seen) /\ ~(HasRow /\ day.kept # NotKept /\ ~IsStamp(day))
    BY <1>1, Zenon DEF Fell, When
  <1>3. seen.id = day.id /\ Stamped(l, seen, day) = Stamped(l, View, day)
    BY <1>2 DEF StampOvertaken
  <1>4. day \in DayRows /\ l \in Leaves
    BY StampWriteStep DEF TypeInv, RowKept
  <1>5. CASE ~HasRow
    BY <1>2, <1>3, <1>5, StampWriteStep
  <1>6. CASE HasRow
    <2>1. day' = Stamped(l, View, day) /\ day'.id # 0
      BY <1>3, <1>6, StampWriteStep DEF HasRow
    <2>2. /\ View \in Views
          /\ IsHalfStamp(View) <=> IsHalfStamp(day)
          /\ Remembered(View) = Remembered(day)
      BY <1>4, ViewTyped
    <2>3. /\ day'.source = "SYSTEM"
          /\ IF l \in Half /\ IsHalfStamp(View)
             THEN day'.status = "ON_LEAVE" /\ day'.kept = day.kept
             ELSE day'.status = StampOf(l) /\ day'.kept = Remembered(View)
      BY <1>4, <2>1, <2>2, StampedRow
    <2>4. QED
      BY <1>2, <1>6, <2>1, <2>2, <2>3
  <1>7. QED
    BY <1>5, <1>6

\* What a cancellation makes of the row.
LEMMA RevertedRow ==
    ASSUME TypeInv, NEW seen \in Views, ViewKept(seen, made), NEW rest \in {"none", "half", "full"}
    PROVE  LET new == Reverted(seen, rest, day) IN
           /\ ~(IsStamp(seen) /\ seen.id = day.id) => new = day
           /\ IsStamp(seen) /\ seen.id = day.id =>
                 /\ HasRow
                 /\ rest # "none" =>
                        /\ new \in DayRows
                        /\ new.id = day.id /\ new.source = day.source /\ new.kept = day.kept
                        /\ new.status = IF rest = "half" THEN "HALF_DAY" ELSE "ON_LEAVE"
                        /\ new.reg = day.reg /\ new.asks = day.asks
                        /\ new.place = day.place /\ new.wfh = day.wfh
                 /\ rest = "none" /\ seen.kept = NotKept => new = NoDay
                 /\ rest = "none" /\ seen.kept # NotKept => new = PutBack(seen, day)
  <1>1. day \in DayRows
    BY DEF TypeInv, RowKept
  <1>2. IsStamp(seen) => seen.id # 0
    BY DEF ViewKept, IsStamp
  <1>3. CASE ~(IsStamp(seen) /\ seen.id = day.id)
    BY <1>3 DEF Reverted
  <1>4. CASE IsStamp(seen) /\ seen.id = day.id /\ rest = "none"
    BY <1>2, <1>4 DEF Reverted, AsBefore, HasRow
  <1>5. ASSUME IsStamp(seen), seen.id = day.id, rest # "none",
               NEW s \in {"HALF_DAY", "ON_LEAVE"},
               s = IF rest = "half" THEN "HALF_DAY" ELSE "ON_LEAVE"
        PROVE  LET new == Reverted(seen, rest, day) IN
               /\ HasRow /\ new \in DayRows
               /\ new.id = day.id /\ new.source = day.source /\ new.kept = day.kept
               /\ new.status = s
               /\ new.reg = day.reg /\ new.asks = day.asks
               /\ new.place = day.place /\ new.wfh = day.wfh
    <2>1. Reverted(seen, rest, day) = [day EXCEPT !.status = s]
      BY <1>5 DEF Reverted
    <2>2. s \in Statuses
      BY DEF Statuses
    <2>3. QED
      BY <1>1, <1>2, <1>5, <2>1, <2>2 DEF DayRows, HasRow
  <1>6. QED
    BY <1>3, <1>4, <1>5

\* A cancellation leaves another's stamp, or what its read said it was, or nothing.
LEMMA UnstampWriteStep ==
    ASSUME TypeInv, NEW h \in Requests, UnstampWrite(h)
    PROVE  /\ op[h].leave \in Leaves
           /\ RowKept' /\ made' = made
           /\ \/ HasRow /\ day' = NoDay
              \/ /\ day'.id = day.id /\ day'.reg = day.reg /\ day'.asks = day.asks
                 /\ day'.place = day.place /\ day'.wfh = day.wfh
  <1> DEFINE o == op[h]
  <1>1. /\ o.leave \in Leaves /\ o.seen \in Views /\ o.rest \in {"none", "half", "full"}
        /\ ViewKept(o.seen, made) /\ RowKept /\ day \in DayRows /\ made \in Nat
    BY Snapshots DEF TypeInv, SnapshotsKept, RowKept, UnstampWrite, OfALeave
  <1>2. made' = made /\ day' = Reverted(o.seen, o.rest, day)
    BY DEF UnstampWrite
  <1>3. CASE day' = day
    BY <1>1, <1>2, <1>3 DEF RowKept
  <1>4. CASE IsStamp(o.seen) /\ o.seen.id = day.id /\ o.rest # "none"
    <2>1. /\ HasRow /\ day' \in DayRows /\ day'.id = day.id
          /\ day'.reg = day.reg /\ day'.asks = day.asks
          /\ day'.place = day.place /\ day'.wfh = day.wfh
      BY <1>1, <1>2, <1>4, RevertedRow
    <2>2. QED
      BY <1>1, <1>2, <2>1 DEF RowKept, HasRow
  <1>5. CASE IsStamp(o.seen) /\ o.seen.id = day.id /\ o.rest = "none" /\ o.seen.kept = NotKept
    <2>1. HasRow /\ day' = NoDay
      BY <1>1, <1>2, <1>5, RevertedRow
    <2>2. NoDay.id = 0 /\ NoDay.reg = "none"
      BY DEF NoDay
    <2>3. QED
      BY <1>1, <1>2, <2>1, <2>2, NoDayTyped DEF RowKept
  <1>6. CASE IsStamp(o.seen) /\ o.seen.id = day.id /\ o.rest = "none" /\ o.seen.kept # NotKept
    <2>1. HasRow /\ day' = PutBack(o.seen, day)
      BY <1>1, <1>2, <1>6, RevertedRow
    <2>2. /\ day' \in DayRows /\ day'.id = day.id
          /\ day'.reg = day.reg /\ day'.asks = day.asks
          /\ day'.place = day.place /\ day'.wfh = day.wfh
      BY <1>1, <1>6, <2>1, PutBackRow
    <2>3. QED
      BY <1>1, <1>2, <2>1, <2>2 DEF RowKept, HasRow
  <1>7. QED
    BY <1>1, <1>2, <1>3, <1>4, <1>5, <1>6, RevertedRow

\* Not overtaken, it restores the row as it is.
LEMMA UnstampStep ==
    ASSUME TypeInv, NEW h \in Requests, UnstampWrite(h), races' = {}
    PROVE  LET others == Others(op[h].leave) IN
           /\ ~(HasRow /\ IsStamp(day)) => day' = day
           /\ HasRow /\ IsStamp(day) =>
                 IF others # {}
                 THEN /\ day'.id = day.id /\ day'.source = day.source /\ day'.kept = day.kept
                      /\ day'.status = IF others \subseteq Half THEN "HALF_DAY" ELSE "ON_LEAVE"
                 ELSE IF day.kept = NotKept THEN day' = NoDay
                 ELSE /\ day'.id = day.id /\ day'.status = day.kept.status
                      /\ day'.source = day.kept.source /\ day'.kept = NotKept
  <1> DEFINE others == Others(op[h].leave)
             rest == Rest(op[h].leave)
  <1>1. day' = Reverted(View, rest, day)
    BY DEF UnstampWrite, Fell, When
  <1>2. /\ day \in DayRows /\ made \in Nat /\ day.id <= made
        /\ day.id = 0 => day.source = "FACE_API"
    BY DEF TypeInv, RowKept, NoDay
  <1>3. /\ View \in Views /\ View.id = day.id /\ View.kept = day.kept
        /\ View.source = day.source /\ (IsStamp(View) <=> IsStamp(day))
    BY <1>2, ViewTyped
  <1>4. ViewKept(View, made)
    BY <1>2, <1>3 DEF ViewKept
  <1>5. /\ rest \in {"none", "half", "full"} /\ (rest = "none" <=> others = {})
        /\ others # {} => (rest = "half" <=> others \subseteq Half)
    BY DEF Rest
  <1> HIDE DEF rest, others
  <1>6. IsStamp(day) => HasRow
    BY <1>2 DEF IsStamp, HasRow
  <1>7. CASE ~IsStamp(day)
    BY <1>1, <1>3, <1>4, <1>5, <1>7, RevertedRow
  <1>8. CASE IsStamp(day) /\ rest # "none"
    <2>1. /\ day'.id = day.id /\ day'.source = day.source /\ day'.kept = day.kept
          /\ day'.status = IF rest = "half" THEN "HALF_DAY" ELSE "ON_LEAVE"
      BY <1>1, <1>3, <1>4, <1>5, <1>8, RevertedRow
    <2>2. QED
      BY <1>5, <1>6, <1>8, <2>1 DEF others
  <1>9. CASE IsStamp(day) /\ rest = "none" /\ day.kept = NotKept
    <2>1. day' = NoDay
      BY <1>1, <1>3, <1>4, <1>5, <1>9, RevertedRow
    <2>2. QED
      BY <1>5, <1>6, <1>9, <2>1 DEF others
  <1>10. CASE IsStamp(day) /\ rest = "none" /\ day.kept # NotKept
    <2>1. day' = PutBack(View, day)
      BY <1>1, <1>3, <1>4, <1>5, <1>10, RevertedRow
    <2>2. /\ day'.id = day.id /\ day'.status = day.kept.status
          /\ day'.source = day.kept.source /\ day'.kept = NotKept
      BY <1>2, <1>3, <1>10, <2>1, PutBackRow
    <2>3. QED
      BY <1>5, <1>6, <1>10, <2>2 DEF others
  <1>11. QED
    BY <1>7, <1>8, <1>9, <1>10 DEF others

LEMMA RowStep == TypeInv /\ [Next]_vars => RowKept' /\ made <= made'
  <1> SUFFICES ASSUME TypeInv, [Next]_vars PROVE RowKept' /\ made <= made'
    OBVIOUS
  <1>1. ASSUME day' = day, made' = made
        PROVE  RowKept' /\ made <= made'
    BY <1>1 DEF TypeInv, RowKept
  <1>2. CASE UNCHANGED vars
    BY <1>1, <1>2 DEF vars
  <1>3. made \in Nat
    BY DEF TypeInv, RowKept
  <1>4. QED
    BY <1>1, <1>2, <1>3, Steps, ElsewhereStep, RecalculateWriteStep, FileWriteStep,
       ReviewWriteStep, WithdrawWriteStep, ImportWriteStep, WfhWriteStep, OfficeWriteStep,
       DecideWfhWriteStep, SweepWfhStep, StampWriteStep, UnstampWriteStep

\* Who takes a snapshot that names a row names one there is.
LEMMA SnapshotStep == TypeInv /\ [Next]_vars => SnapshotsKept'
  <1> SUFFICES ASSUME TypeInv, [Next]_vars PROVE SnapshotsKept'
    OBVIOUS
  <1>0. /\ SnapshotsKept /\ made \in Nat /\ made' \in Nat /\ made <= made'
        /\ day.id \in Nat /\ day.id <= made /\ RowKept /\ op \in [Requests -> Ops]
        /\ RowKept'
    BY RowStep DEF TypeInv, SnapshotsKept, RowKept, DayRows
  <1> DEFINE Takes(h, o) == /\ op' = [op EXCEPT ![h] = o] /\ o \in Ops
                            /\ o.kind \in WithId => o.id <= made'
                            /\ o.kind \in OfARow => o.id # 0
                            /\ o.kind \in OfALeave => ViewKept(o.seen, made')
  <1>1. ASSUME NEW h \in Requests, NEW o, Takes(h, o)
        PROVE  SnapshotsKept'
    BY <1>0, <1>1, SnapshotTaken
  <1>2. ASSUME NEW h \in Requests, Finish(h)
        PROVE  SnapshotsKept'
    BY <1>0, <1>2, SnapshotDropped
  <1>3. ASSUME op' = op, made' = made
        PROVE  SnapshotsKept'
    BY <1>0, <1>3 DEF SnapshotsKept
  <1>4. ASSUME NEW h \in Requests, Punch(h)
        PROVE  SnapshotsKept'
    <2>1. Takes(h, [kind |-> "punched"])
      BY <1>4 DEF Punch, Start, Ops, WithId, OfARow, OfALeave
    <2>2. QED
      BY <1>1, <2>1
  <1>5. ASSUME NEW h \in Requests, RecalculateRead(h)
        PROVE  SnapshotsKept'
    <2>1. punches \in 0..MaxPunches /\ LeaveOfDay \in {"none", "half", "full"}
      BY DEF TypeInv, TypeOK, LeaveOfDay
    <2>2. \A kind \in {"judge", "sweep"} :
             Seen(kind) \in Ops /\ Seen(kind).kind = kind /\ Seen(kind).id = day.id
      BY <1>0, <2>1 DEF Seen, Ops
    <2>3. CASE Finish(h)
      BY <1>2, <2>3
    <2>4. ASSUME NEW kind \in {"judge", "sweep"}, op' = [op EXCEPT ![h] = Seen(kind)]
          PROVE  SnapshotsKept'
      <3>1. Takes(h, Seen(kind))
        BY <1>0, <2>2, <2>4 DEF OfARow, OfALeave
      <3>2. QED
        BY <1>1, <3>1
    <2>5. QED
      BY <1>5, <2>3, <2>4 DEF RecalculateRead, Continue, Start
  <1>6. ASSUME NEW h \in Requests, NEW q \in Filings, FileRead(h, q)
        PROVE  SnapshotsKept'
    <2>1. Takes(h, [kind |-> "file", id |-> day.id, filing |-> q])
      BY <1>0, <1>6 DEF FileRead, Start, Ops, WithId, OfARow, OfALeave
    <2>2. QED
      BY <1>1, <2>1
  <1>7. ASSUME NEW h \in Requests, FileWrite(h)
        PROVE  SnapshotsKept'
    <2>1. Finish(h) \/ Continue(h, [kind |-> "filed", filing |-> op[h].filing])
      BY <1>7 DEF FileWrite
    <2>2. CASE Continue(h, [kind |-> "filed", filing |-> op[h].filing])
      <3>1. op[h].filing \in Filings
        BY <1>0, <1>7, FileWriteStep
      <3>2. Takes(h, [kind |-> "filed", filing |-> op[h].filing])
        BY <2>2, <3>1 DEF Continue, Ops, WithId, OfARow, OfALeave
      <3>3. QED
        BY <1>1, <3>2
    <2>3. QED
      BY <1>2, <2>1, <2>2
  <1>8. ASSUME NEW h \in Requests, NEW to \in {"approved", "rejected"}, ReviewRead(h, to)
        PROVE  SnapshotsKept'
    <2>1. day.asks \in Filings /\ day.id # 0
      BY <1>0, <1>8 DEF ReviewRead, RowKept, NoDay
    <2>2. Takes(h, [kind |-> "review", id |-> day.id, filing |-> day.asks, to |-> to])
      BY <1>0, <1>8, <2>1 DEF ReviewRead, Start, Ops, WithId, OfARow, OfALeave
    <2>3. QED
      BY <1>1, <2>2
  <1>9. ASSUME NEW h \in Requests, ReviewWrite(h)
        PROVE  SnapshotsKept'
    <2>1. \/ Finish(h)
          \/ Continue(h, [kind |-> "close", id |-> op[h].id, filing |-> op[h].filing,
                          to |-> LedgerStatus(op[h].to)])
      BY <1>9 DEF ReviewWrite
    <2>2. CASE Continue(h, [kind |-> "close", id |-> op[h].id, filing |-> op[h].filing,
                            to |-> LedgerStatus(op[h].to)])
      <3>1. /\ op[h].filing \in Filings /\ op[h].id \in Nat /\ op[h].id # 0
            /\ op[h].id <= made'
        BY <1>0, <1>9, ReviewWriteStep
      <3>2. LedgerStatus(op[h].to) \in {"APPROVED", "REJECTED"}
        BY DEF LedgerStatus
      <3>3. Takes(h, [kind |-> "close", id |-> op[h].id, filing |-> op[h].filing,
                      to |-> LedgerStatus(op[h].to)])
        BY <2>2, <3>1, <3>2 DEF Continue, Ops, WithId, OfARow, OfALeave
      <3>4. QED
        BY <1>1, <3>3
    <2>3. QED
      BY <1>2, <2>1, <2>2
  <1>10. ASSUME NEW h \in Requests, WithdrawRead(h)
         PROVE  SnapshotsKept'
    <2>1. day.id # 0
      BY <1>0, <1>10 DEF WithdrawRead, RowKept, NoDay
    <2>2. Takes(h, [kind |-> "withdraw", id |-> day.id])
      BY <1>0, <1>10, <2>1 DEF WithdrawRead, Start, Ops, WithId, OfARow, OfALeave
    <2>3. QED
      BY <1>1, <2>2
  <1>11. ASSUME NEW h \in Requests, WithdrawWrite(h)
         PROVE  SnapshotsKept'
    <2>1. IF StillWaits(op[h].id)
          THEN Continue(h, [kind |-> "close", id |-> op[h].id, filing |-> day.asks,
                            to |-> "CANCELLED"])
          ELSE Finish(h)
      BY <1>11 DEF WithdrawWrite
    <2>2. CASE StillWaits(op[h].id)
      <3>1. /\ day.asks \in Filings /\ op[h].id \in Nat /\ op[h].id # 0
            /\ op[h].id <= made'
        BY <1>0, <1>11, <2>2, WithdrawWriteStep
      <3>2. Takes(h, [kind |-> "close", id |-> op[h].id, filing |-> day.asks,
                      to |-> "CANCELLED"])
        BY <2>1, <2>2, <3>1 DEF Continue, Ops, WithId, OfARow, OfALeave
      <3>3. QED
        BY <1>1, <3>2
    <2>3. QED
      BY <1>2, <2>1, <2>2
  <1>12. ASSUME NEW h \in Requests, ImportRead(h)
         PROVE  SnapshotsKept'
    <2>1. Takes(h, [kind |-> "import", id |-> day.id, half |-> IsHalfStamp(day)])
      <3>1. IsHalfStamp(day) \in BOOLEAN
        BY DEF IsHalfStamp, IsStamp
      <3>2. QED
        BY <1>0, <1>12, <3>1 DEF ImportRead, Start, Ops, WithId, OfARow, OfALeave
    <2>2. QED
      BY <1>1, <2>1
  <1>13. ASSUME NEW h \in Requests, NEW range \in BOOLEAN, WfhRead(h, range)
         PROVE  SnapshotsKept'
    <2>1. CASE range
      <3>1. Takes(h, [kind |-> "days"])
        BY <1>13, <2>1 DEF WfhRead, Start, Ops, WithId, OfARow, OfALeave
      <3>2. QED
        BY <1>1, <3>1
    <2>2. CASE ~range
      <3>1. Takes(h, [kind |-> "wfh", id |-> day.id, range |-> FALSE])
        BY <1>0, <1>13, <2>2 DEF WfhRead, Start, Ops, WithId, OfARow, OfALeave
      <3>2. QED
        BY <1>1, <3>1
    <2>3. QED
      BY <2>1, <2>2
  <1>14. ASSUME NEW h \in Requests, OfficeRead(h)
         PROVE  SnapshotsKept'
    <2>1. Takes(h, [kind |-> "office", id |-> day.id])
      BY <1>0, <1>14 DEF OfficeRead, Start, Ops, WithId, OfARow, OfALeave
    <2>2. QED
      BY <1>1, <2>1
  <1>20. ASSUME NEW h \in Requests, RangeLook(h)
         PROVE  SnapshotsKept'
    <2>1. Takes(h, [kind |-> "wfh", id |-> day.id, range |-> TRUE])
      BY <1>0, <1>20 DEF RangeLook, Continue, Ops, WithId, OfARow, OfALeave
    <2>2. QED
      BY <1>1, <2>1
  <1>21. ASSUME NEW h \in Requests, DecideWfhWrite(h) \/ SweepWfh(h)
         PROVE  SnapshotsKept'
    <2>1. \E to \in {"APPROVED", "REJECTED"} : op' = [op EXCEPT ![h] = [kind |-> "tell", to |-> to]]
      <3>1. CASE DecideWfhWrite(h)
        BY <3>1, <1>0, DecideWfhWriteStep DEF DecideWfhWrite, Continue
      <3>2. CASE SweepWfh(h)
        BY <3>2 DEF SweepWfh, Start
      <3>3. QED
        BY <1>21, <3>1, <3>2
    <2>2. PICK to \in {"APPROVED", "REJECTED"} : op' = [op EXCEPT ![h] = [kind |-> "tell", to |-> to]]
      BY <2>1
    <2>3. Takes(h, [kind |-> "tell", to |-> to])
      BY <2>2 DEF Ops, WithId, OfARow, OfALeave
    <2>4. QED
      BY <1>1, <2>3
  <1>22. View \in Views /\ ViewKept(View, made')
    BY <1>0, ViewTyped DEF ViewKept, RowKept, NoDay
  <1>23. ASSUME NEW h \in Requests, NEW l \in Leaves, StampRead(h, l)
         PROVE  SnapshotsKept'
    <2>1. Takes(h, [kind |-> "stamp", leave |-> l, seen |-> View])
      BY <1>22, <1>23 DEF StampRead, Start, Ops, WithId, OfARow, OfALeave
    <2>2. QED
      BY <1>1, <2>1
  <1>24. ASSUME NEW h \in Requests, NEW l \in Leaves, UnstampRead(h, l)
         PROVE  SnapshotsKept'
    <2>1. Rest(l) \in {"none", "half", "full"}
      BY DEF Rest
    <2>2. Takes(h, [kind |-> "unstamp", leave |-> l, seen |-> View, rest |-> Rest(l)])
      BY <1>22, <1>24, <2>1 DEF UnstampRead, Start, Ops, WithId, OfARow, OfALeave
    <2>3. QED
      BY <1>1, <2>2
  <1>15. ASSUME NEW h \in Requests, NEW to \in {"APPROVED", "REJECTED"}, DecideWfhRead(h, to)
         PROVE  SnapshotsKept'
    <2>1. day.id # 0
      BY <1>0, <1>15 DEF DecideWfhRead, Waits, RowKept, NoDay
    <2>2. Takes(h, [kind |-> "decide", id |-> day.id, to |-> to])
      BY <1>0, <1>15, <2>1 DEF DecideWfhRead, Start, Ops, WithId, OfARow, OfALeave
    <2>3. QED
      BY <1>1, <2>2
  <1>16. ASSUME NEW h \in Requests,
                \/ RecalculateWrite(h) \/ FileRecord(h) \/ CloseRequests(h) \/ ImportWrite(h)
                \/ WfhWrite(h) \/ OfficeWrite(h) \/ TellWfh(h) \/ StampWrite(h)
                \/ UnstampWrite(h) \/ GiveUp(h)
         PROVE  SnapshotsKept'
    <2>1. Finish(h)
      BY <1>16 DEF RecalculateWrite, FileRecord, CloseRequests, ImportWrite, WfhWrite,
                   OfficeWrite, TellWfh, StampWrite, UnstampWrite, GiveUp
    <2>2. QED
      BY <1>2, <2>1
  <1>17. CASE UNCHANGED vars
    BY <1>3, <1>17 DEF vars
  <1>18. QED
    BY <1>4, <1>5, <1>6, <1>7, <1>8, <1>9, <1>10, <1>11, <1>12, <1>13, <1>14, <1>15,
       <1>16, <1>17, <1>20, <1>21, <1>23, <1>24 DEF Next

\* The columns that are no row and no snapshot.
Histories ==
    /\ punches \in 0..MaxPunches
    /\ mark \in {"none", "punch", "approved", "sheet"}
    /\ leave \in [Leaves -> {"OPEN", "APPROVED", "CANCELLED"}]
    /\ ledger \in [Filings ->
           {"none", "PENDING", "APPROVED", "REJECTED", "CANCELLED", "deleted"}]
    /\ told \subseteq {"APPROVED", "REJECTED"}
    /\ races \subseteq Windows

LEMMA HistoryStep == TypeInv /\ [Next]_vars => Histories'
  <1> SUFFICES ASSUME TypeInv, [Next]_vars PROVE Histories'
    OBVIOUS
  <1>0. Histories /\ op \in [Requests -> Ops]
    BY DEF TypeInv, TypeOK, Histories
  <1>1. ASSUME NEW h \in Requests, Punch(h)
        PROVE  Histories'
    BY <1>0, <1>1 DEF Histories, Punch, MaxPunches
  <1>2. ASSUME NEW h \in Requests,
               \/ RecalculateRead(h) \/ (\E q \in Filings : FileRead(h, q))
               \/ (\E to \in {"approved", "rejected"} : ReviewRead(h, to))
               \/ WithdrawRead(h) \/ WithdrawWrite(h) \/ ImportRead(h)
               \/ (\E range \in BOOLEAN : WfhRead(h, range)) \/ RangeLook(h) \/ OfficeRead(h)
               \/ (\E to \in {"APPROVED", "REJECTED"} : DecideWfhRead(h, to)) \/ SweepWfh(h)
               \/ (\E l \in Leaves : StampRead(h, l) \/ UnstampRead(h, l))
        PROVE  Histories'
    BY <1>0, <1>2 DEF Histories, RecalculateRead, FileRead, ReviewRead, WithdrawRead,
                      WithdrawWrite, ImportRead, WfhRead, RangeLook, OfficeRead,
                      DecideWfhRead, SweepWfh, StampRead, UnstampRead
  <1>3. ASSUME NEW h \in Requests, RecalculateWrite(h) \/ FileWrite(h) \/ GiveUp(h)
        PROVE  Histories'
    <2>1. races' \subseteq Windows
      BY <1>0, <1>3 DEF Histories, RecalculateWrite, FileWrite, GiveUp, Fell, When, Windows
    <2>2. QED
      BY <1>0, <1>3, <2>1 DEF Histories, RecalculateWrite, FileWrite, GiveUp
  <1>4. ASSUME NEW h \in Requests, FileRecord(h)
        PROVE  Histories'
    <2>1. races' \subseteq Windows
      BY <1>0, <1>4 DEF Histories, FileRecord, Fell, When, Windows
    <2>2. QED
      BY <1>0, <1>4, <2>1 DEF Histories, FileRecord
  <1>5. ASSUME NEW h \in Requests, ReviewWrite(h)
        PROVE  Histories'
    <2>1. races' \subseteq Windows
      BY <1>0, <1>5 DEF Histories, ReviewWrite, Fell, When, Windows
    <2>2. mark' \in {"none", "punch", "approved", "sheet"}
      BY <1>0, <1>5 DEF Histories, ReviewWrite
    <2>3. QED
      BY <1>0, <1>5, <2>1, <2>2 DEF Histories, ReviewWrite
  <1>6. ASSUME NEW h \in Requests, CloseRequests(h)
        PROVE  Histories'
    <2>1. races' \subseteq Windows
      BY <1>0, <1>6 DEF Histories, CloseRequests, Fell, When, Windows
    <2>2. op[h].to \in {"APPROVED", "REJECTED", "CANCELLED"}
      BY <1>0, <1>6, Snapshots DEF CloseRequests
    <2>3. QED
      BY <1>0, <1>6, <2>1, <2>2 DEF Histories, CloseRequests
  <1>7. ASSUME NEW h \in Requests, ImportWrite(h)
        PROVE  Histories'
    <2>1. races' \subseteq Windows
      BY <1>0, <1>7 DEF Histories, ImportWrite, Fell, When, Windows
    <2>2. mark' \in {"none", "punch", "approved", "sheet"}
      BY <1>0, <1>7 DEF Histories, ImportWrite
    <2>3. QED
      BY <1>0, <1>7, <2>1, <2>2 DEF Histories, ImportWrite
  <1>8. ASSUME NEW h \in Requests, WfhWrite(h) \/ OfficeWrite(h)
        PROVE  Histories'
    <2>1. races' \subseteq Windows
      BY <1>0, <1>8 DEF Histories, WfhWrite, OfficeWrite, Fell, When, Windows
    <2>2. told' \subseteq {"APPROVED", "REJECTED"}
      BY <1>0, <1>8 DEF Histories, WfhWrite, OfficeWrite
    <2>3. QED
      BY <1>0, <1>8, <2>1, <2>2 DEF Histories, WfhWrite, OfficeWrite
  <1>9. ASSUME NEW h \in Requests, DecideWfhWrite(h) \/ TellWfh(h)
        PROVE  Histories'
    <2>1. races' \subseteq Windows
      BY <1>0, <1>9 DEF Histories, DecideWfhWrite, TellWfh, Fell, When, Windows
    <2>2. TellWfh(h) => op[h].to \in {"APPROVED", "REJECTED"}
      BY <1>0, Snapshots DEF TellWfh
    <2>3. told' \subseteq {"APPROVED", "REJECTED"}
      BY <1>0, <1>9, <2>2 DEF Histories, DecideWfhWrite, TellWfh
    <2>4. QED
      BY <1>0, <1>9, <2>1, <2>3 DEF Histories, DecideWfhWrite, TellWfh
  <1>10. ASSUME NEW h \in Requests, StampWrite(h)
         PROVE  Histories'
    <2>1. races' \subseteq Windows
      BY <1>0, <1>10 DEF Histories, StampWrite, Fell, When, Windows
    <2>2. leave' \in [Leaves -> {"OPEN", "APPROVED", "CANCELLED"}]
      BY <1>0, <1>10 DEF Histories, StampWrite
    <2>3. QED
      BY <1>0, <1>10, <2>1, <2>2 DEF Histories, StampWrite
  <1>11. ASSUME NEW h \in Requests, UnstampWrite(h)
         PROVE  Histories'
    <2>1. ledger' \in [Filings ->
             {"none", "PENDING", "APPROVED", "REJECTED", "CANCELLED", "deleted"}]
      BY <1>0, <1>11 DEF Histories, UnstampWrite, Cascaded
    <2>2. told' \subseteq {"APPROVED", "REJECTED"}
      BY <1>0, <1>11 DEF Histories, UnstampWrite
    <2>3. races' \subseteq Windows
      BY <1>0, <1>11 DEF Histories, UnstampWrite, Fell, When, Windows
    <2>4. leave' \in [Leaves -> {"OPEN", "APPROVED", "CANCELLED"}]
      BY <1>0, <1>11 DEF Histories, UnstampWrite
    <2>5. QED
      BY <1>0, <1>11, <2>1, <2>2, <2>3, <2>4 DEF Histories, UnstampWrite
  <1>12. CASE UNCHANGED vars
    BY <1>0, <1>12 DEF Histories, vars
  <1>13. QED
    BY <1>1, <1>2, <1>3, <1>4, <1>5, <1>6, <1>7, <1>8, <1>9, <1>10, <1>11, <1>12 DEF Next

LEMMA TypeStep == TypeInv /\ [Next]_vars => TypeInv'
  <1>1. TypeInv /\ [Next]_vars => RowKept' /\ SnapshotsKept' /\ Histories'
    BY RowStep, SnapshotStep, HistoryStep
  <1>2. RowKept' /\ SnapshotsKept' /\ Histories' => TypeInv'
    BY DEF TypeInv, TypeOK, RowKept, SnapshotsKept, Histories
  <1>3. QED
    BY <1>1, <1>2

\* The row, the requests and the snapshots keep the values the schema allows: whoever
\* decides on a request or takes it back names one, and a row that has an id.
THEOREM TypeCorrect == Spec => []TypeOK
  <1>1. TypeInv => TypeOK
    BY DEF TypeInv
  <1>2. QED
    BY <1>1, TypeInit, TypeStep, PTL DEF Spec

\* A window, once fallen into, is never climbed out of.
LEMMA RacesGrow == ASSUME [Next]_vars PROVE races \subseteq races'
  <1>1. ASSUME NEW h \in Requests,
               \/ RecalculateWrite(h) \/ FileWrite(h) \/ FileRecord(h) \/ ReviewWrite(h)
               \/ CloseRequests(h) \/ ImportWrite(h) \/ WfhWrite(h) \/ OfficeWrite(h)
               \/ DecideWfhWrite(h) \/ TellWfh(h) \/ StampWrite(h) \/ UnstampWrite(h)
               \/ GiveUp(h)
        PROVE  races \subseteq races'
    BY <1>1 DEF RecalculateWrite, FileWrite, FileRecord, ReviewWrite, CloseRequests,
                ImportWrite, WfhWrite, OfficeWrite, DecideWfhWrite, TellWfh, StampWrite,
                UnstampWrite, GiveUp, Fell
  <1>2. ASSUME NEW h \in Requests,
               \/ Punch(h) \/ RecalculateRead(h) \/ (\E q \in Filings : FileRead(h, q))
               \/ (\E to \in {"approved", "rejected"} : ReviewRead(h, to))
               \/ WithdrawRead(h) \/ WithdrawWrite(h) \/ ImportRead(h)
               \/ (\E range \in BOOLEAN : WfhRead(h, range)) \/ RangeLook(h) \/ OfficeRead(h)
               \/ (\E to \in {"APPROVED", "REJECTED"} : DecideWfhRead(h, to)) \/ SweepWfh(h)
               \/ (\E l \in Leaves : StampRead(h, l) \/ UnstampRead(h, l))
        PROVE  races \subseteq races'
    BY <1>2 DEF Punch, RecalculateRead, FileRead, ReviewRead, WithdrawRead, WithdrawWrite,
                ImportRead, WfhRead, RangeLook, OfficeRead, DecideWfhRead, SweepWfh,
                StampRead, UnstampRead
  <1>3. CASE UNCHANGED vars
    BY <1>3 DEF vars
  <1>4. QED
    BY <1>1, <1>2, <1>3 DEF Next

-----------------------------------------------------------------------------
(* Work From Home *)

\* A decision not yet told has a handler that will tell it; no other word stands.
ToldHeld ==
    races = {} =>
        /\ day.wfh \notin {"APPROVED", "REJECTED"} => told = {}
        /\ told \subseteq {day.wfh}
        /\ day.wfh \in {"APPROVED", "REJECTED"} /\ told = {} => InFlight({"tell"}) # {}

\* Such a handler tells, or stops and is missed, and does nothing else.
LEMMA TellKept ==
    ASSUME TypeInv, [Next]_vars, NEW k \in InFlight({"tell"})
    PROVE  k \in InFlight({"tell"})' \/ TellWfh(k) \/ GiveUp(k)
  <1>1. op \in [Requests -> Ops] /\ Idle.kind = "idle" /\ k \in Requests /\ op[k].kind = "tell"
    BY DEF TypeInv, SnapshotsKept, Idle, InFlight
  <1>2. ASSUME NEW h \in Requests, NEW o, op' = [op EXCEPT ![h] = o], op[h].kind # "tell"
        PROVE  k \in InFlight({"tell"})'
    BY <1>1, <1>2 DEF InFlight
  <1>3. ASSUME NEW h \in Requests, NEW o, Start(h, o)
        PROVE  k \in InFlight({"tell"})'
    BY <1>1, <1>2, <1>3 DEF Start
  <1>4. ASSUME NEW h \in Requests, op[h].kind # "tell", Finish(h)
        PROVE  k \in InFlight({"tell"})'
    BY <1>2, <1>4 DEF Finish
  <1>5. ASSUME NEW h \in Requests, op[h].kind # "tell", NEW o, Continue(h, o)
        PROVE  k \in InFlight({"tell"})'
    BY <1>2, <1>5 DEF Continue
  <1>6. ASSUME NEW h \in Requests,
               \/ Punch(h) \/ (\E q \in Filings : FileRead(h, q))
               \/ (\E to \in {"approved", "rejected"} : ReviewRead(h, to))
               \/ WithdrawRead(h) \/ ImportRead(h)
               \/ (\E range \in BOOLEAN : WfhRead(h, range)) \/ OfficeRead(h)
               \/ (\E to \in {"APPROVED", "REJECTED"} : DecideWfhRead(h, to)) \/ SweepWfh(h)
               \/ (\E l \in Leaves : StampRead(h, l) \/ UnstampRead(h, l))
        PROVE  \E o : Start(h, o)
    BY <1>6 DEF Punch, FileRead, ReviewRead, WithdrawRead, ImportRead, WfhRead, OfficeRead,
                DecideWfhRead, SweepWfh, StampRead, UnstampRead
  <1>7. ASSUME NEW h \in Requests, RecalculateRead(h)
        PROVE  k \in InFlight({"tell"})'
    <2>1. \/ \E o : Start(h, o)
          \/ op[h].kind = "punched" /\ (Finish(h) \/ \E o : Continue(h, o))
      BY <1>7 DEF RecalculateRead
    <2>2. QED
      BY <1>3, <1>4, <1>5, <2>1
  <1>8. ASSUME NEW h \in Requests,
               \/ RecalculateWrite(h) \/ FileRecord(h) \/ CloseRequests(h) \/ ImportWrite(h)
               \/ WfhWrite(h) \/ OfficeWrite(h) \/ StampWrite(h) \/ UnstampWrite(h)
        PROVE  op[h].kind # "tell" /\ Finish(h)
    BY <1>8 DEF RecalculateWrite, FileRecord, CloseRequests, ImportWrite, WfhWrite,
                OfficeWrite, StampWrite, UnstampWrite
  <1>9. ASSUME NEW h \in Requests,
               FileWrite(h) \/ ReviewWrite(h) \/ WithdrawWrite(h) \/ RangeLook(h)
                   \/ DecideWfhWrite(h)
        PROVE  op[h].kind # "tell" /\ (Finish(h) \/ \E o : Continue(h, o))
    BY <1>9 DEF FileWrite, ReviewWrite, WithdrawWrite, RangeLook, DecideWfhWrite
  <1>10. ASSUME NEW h \in Requests, TellWfh(h) \/ GiveUp(h), h # k
         PROVE  k \in InFlight({"tell"})'
    <2>1. op' = [op EXCEPT ![h] = Idle]
      BY <1>10 DEF TellWfh, GiveUp, Finish
    <2>2. QED
      BY <1>1, <1>10, <2>1 DEF InFlight
  <1>11. CASE UNCHANGED vars
    BY <1>1, <1>11 DEF vars, InFlight
  <1>12. QED
    BY <1>3, <1>4, <1>5, <1>6, <1>7, <1>8, <1>9, <1>10, <1>11 DEF Next

\* Outside the windows, who is still to tell a decision is not lost.
LEMMA TellStays ==
    ASSUME TypeInv, [Next]_vars, races' = {}, InFlight({"tell"}) # {}, told' = {}
    PROVE  InFlight({"tell"})' # {}
  <1>1. PICK k \in InFlight({"tell"}) : TRUE
    OBVIOUS
  <1>2. ~TellWfh(k)
    BY DEF TellWfh
  <1>3. ~GiveUp(k)
    <2>1. GiveUp(k) => "untold" \in races'
      BY <1>1 DEF GiveUp, Fell, When, InFlight
    <2>2. QED
      BY <2>1
  <1>4. QED
    BY <1>1, <1>2, <1>3, TellKept

LEMMA ToldStep == TypeInv /\ ToldHeld /\ [Next]_vars => ToldHeld'
  <1> DEFINE Final == {"APPROVED", "REJECTED"}
             Right == /\ day'.wfh \notin Final => told' = {}
                      /\ told' \subseteq {day'.wfh}
                      /\ day'.wfh \in Final /\ told' = {} => InFlight({"tell"})' # {}
  <1> SUFFICES ASSUME TypeInv, ToldHeld, [Next]_vars, races' = {}
               PROVE  Right
    BY DEF ToldHeld
  <1>0. /\ RowKept /\ races = {} /\ op \in [Requests -> Ops]
        /\ day.wfh \notin Final => told = {}
        /\ told \subseteq {day.wfh}
        /\ day.wfh \in Final /\ told = {} => InFlight({"tell"}) # {}
    BY RacesGrow DEF TypeInv, SnapshotsKept, ToldHeld
  <1>1. ASSUME told' = told, day'.wfh = day.wfh
        PROVE  Right
    BY <1>0, <1>1, TellStays
  <1>2. ASSUME NEW h \in Requests, Elsewhere(h), ~TellWfh(h)
        PROVE  told' = told /\ day'.wfh = day.wfh
    BY <1>2, ElsewhereStep
    DEF Elsewhere, Punch, RecalculateRead, FileRead, FileRecord, ReviewRead, WithdrawRead,
        CloseRequests, ImportRead, WfhRead, RangeLook, OfficeRead, DecideWfhRead, StampRead,
        UnstampRead, GiveUp
  <1>3. ASSUME NEW h \in Requests,
               \/ RecalculateWrite(h) \/ FileWrite(h) \/ ReviewWrite(h) \/ WithdrawWrite(h)
               \/ ImportWrite(h) \/ StampWrite(h)
        PROVE  told' = told /\ day'.wfh = day.wfh
    <2>1. told' = told
      BY <1>3 DEF RecalculateWrite, FileWrite, ReviewWrite, WithdrawWrite, ImportWrite,
                  StampWrite
    <2>2. day'.wfh = day.wfh
      BY <1>3, RecalculateWriteStep, FileWriteStep, ReviewWriteStep, WithdrawWriteStep,
         ImportWriteStep, StampWriteStep
    <2>3. QED
      BY <2>1, <2>2
  <1>4. ASSUME NEW h \in Requests, WfhWrite(h)
        PROVE  Right
    <2>1. CASE op[h].id = day.id /\ ~RefusesTaken(op[h].range)
      <3>1. told' = {} /\ day'.wfh = "PENDING"
        BY <1>4, <2>1, WfhWriteStep DEF WfhWrite
      <3>2. QED
        BY <3>1
    <2>2. CASE ~(op[h].id = day.id /\ ~RefusesTaken(op[h].range))
      <3>1. told' = told /\ day' = day
        BY <1>4, <2>2, WfhWriteStep DEF WfhWrite
      <3>2. QED
        BY <1>1, <3>1
    <2>3. QED
      BY <2>1, <2>2
  <1>5. ASSUME NEW h \in Requests, OfficeWrite(h)
        PROVE  Right
    <2>1. CASE op[h].id = day.id
      <3>1. day.wfh # "REJECTED"
        BY <1>5, <2>1 DEF OfficeWrite, Fell, When
      <3>2. told' = {} /\ day'.wfh = "NONE"
        BY <1>5, <2>1, <3>1, OfficeWriteStep DEF OfficeWrite
      <3>3. QED
        BY <3>2
    <2>2. CASE op[h].id # day.id
      <3>1. told' = told /\ day' = day
        BY <1>5, <2>2, OfficeWriteStep DEF OfficeWrite
      <3>2. QED
        BY <1>1, <3>1
    <2>3. QED
      BY <2>1, <2>2
  <1>6. ASSUME NEW h \in Requests, NEW to \in Final,
               op' = [op EXCEPT ![h] = [kind |-> "tell", to |-> to]],
               told' = told, day.wfh = "PENDING", day'.wfh = to
        PROVE  Right
    <2>1. told' = {}
      BY <1>0, <1>6
    <2>2. op'[h].kind = "tell"
      BY <1>0, <1>6
    <2>3. QED
      BY <1>6, <2>1, <2>2 DEF InFlight
  <1>7. ASSUME NEW h \in Requests, DecideWfhWrite(h)
        PROVE  Right
    <2>1. op[h].id = day.id /\ Waits /\ told' = told
      BY <1>7 DEF DecideWfhWrite, Fell, When
    <2>2. op[h].to \in Final /\ day'.wfh = op[h].to
      BY <1>7, <2>1, DecideWfhWriteStep
    <2>3. op' = [op EXCEPT ![h] = [kind |-> "tell", to |-> op[h].to]]
      BY <1>7 DEF DecideWfhWrite, Continue
    <2>4. QED
      BY <1>6, <2>1, <2>2, <2>3 DEF Waits
  <1>8. ASSUME NEW h \in Requests, SweepWfh(h)
        PROVE  Right
    <2>1. /\ op' = [op EXCEPT ![h] = [kind |-> "tell", to |-> "APPROVED"]]
          /\ told' = told /\ day.wfh = "PENDING"
      BY <1>8 DEF SweepWfh, Start
    <2>2. day'.wfh = "APPROVED"
      BY <1>8, SweepWfhStep
    <2>3. QED
      BY <1>6, <2>1, <2>2
  <1>9. ASSUME NEW h \in Requests, TellWfh(h)
        PROVE  Right
    <2>1. day' = day /\ told' = told \cup {op[h].to} /\ day.wfh = op[h].to
      BY <1>9 DEF TellWfh, Fell, When
    <2>2. op[h].to \in Final
      BY <1>0, <1>9, Snapshots DEF TellWfh
    <2>3. QED
      BY <1>0, <2>1, <2>2
  <1>10. ASSUME NEW h \in Requests, UnstampWrite(h)
         PROVE  Right
    <2>1. told' = IF day'.id = 0 THEN {} ELSE told
      BY <1>10 DEF UnstampWrite
    <2>2. NoDay.id = 0 /\ NoDay.wfh = "NONE"
      BY DEF NoDay
    <2>3. CASE day' = NoDay
      BY <2>1, <2>2, <2>3
    <2>4. CASE day'.wfh = day.wfh /\ day'.id = day.id
      <3>1. day.id = 0 => told = {}
        BY <1>0, <2>2 DEF RowKept
      <3>2. QED
        BY <1>1, <2>1, <2>4, <3>1
    <2>5. QED
      BY <1>10, <2>3, <2>4, UnstampWriteStep
  <1>11. CASE UNCHANGED vars
    BY <1>1, <1>11 DEF vars
  <1>12. QED
    BY <1>1, <1>2, <1>3, <1>4, <1>5, <1>7, <1>8, <1>9, <1>10, <1>11, Steps

\* A Work From Home request is decided once, and once every handler has told, the timeline
\* shows the decision in force and no other (reviewWorkArrangement, reviewWfhRequestGroup,
\* the sweep, a withdrawal).
THEOREM WfhCorrect == Spec => []WfhDecidedOnce
  <1>1. Init => ToldHeld
    BY DEF Init, NoDay, ToldHeld
  <1>2. TypeInv /\ ToldHeld => WfhDecidedOnce
    BY DEF ToldHeld, WfhDecidedOnce
  <1>3. QED
    BY <1>1, <1>2, TypeInit, TypeStep, ToldStep, PTL DEF Spec

-----------------------------------------------------------------------------
(* Regularization: who owes the history what *)

\* Who takes a new snapshot.
LEMMA NewSnapshot ==
    ASSUME TypeInv, [Next]_vars, NEW k \in Requests
    PROVE  \/ op'[k] = op[k] \/ op'[k] = Idle
           \/ FileWrite(k) \/ ReviewWrite(k) \/ WithdrawWrite(k)
           \/ (\E q \in Filings : FileRead(k, q))
           \/ op[k].kind \in {"idle", "punched", "days", "decide"}
                  /\ op'[k].kind \in {"punched", "judge", "sweep", "review", "withdraw", "import",
                                      "days", "wfh", "office", "decide", "tell", "stamp",
                                      "unstamp"}
  <1> DEFINE Begun(from, to) == op[k].kind \in from /\ op'[k].kind \in to
  <1>1. op \in [Requests -> Ops] /\ Idle.kind = "idle"
    BY DEF TypeInv, SnapshotsKept, Idle
  <1>2. ASSUME NEW h \in Requests, NEW o, op' = [op EXCEPT ![h] = o], k # h
        PROVE  op'[k] = op[k]
    BY <1>1, <1>2
  <1>3. ASSUME NEW h \in Requests, Finish(h)
        PROVE  op'[k] = op[k] \/ op'[k] = Idle
    BY <1>1, <1>3 DEF Finish
  <1>4. ASSUME NEW h \in Requests,
               \/ RecalculateWrite(h) \/ FileRecord(h) \/ CloseRequests(h) \/ ImportWrite(h)
               \/ WfhWrite(h) \/ OfficeWrite(h) \/ TellWfh(h) \/ StampWrite(h)
               \/ UnstampWrite(h) \/ GiveUp(h)
        PROVE  Finish(h)
    BY <1>4 DEF RecalculateWrite, FileRecord, CloseRequests, ImportWrite, WfhWrite,
                OfficeWrite, TellWfh, StampWrite, UnstampWrite, GiveUp
  <1>5. ASSUME NEW h \in Requests,
               \/ FileWrite(h) \/ ReviewWrite(h) \/ WithdrawWrite(h)
               \/ (\E q \in Filings : FileRead(h, q)), k # h
        PROVE  op'[k] = op[k]
    BY <1>2, <1>5 DEF FileWrite, ReviewWrite, WithdrawWrite, FileRead, Start, Continue, Finish
  <1>6. ASSUME NEW h \in Requests, Punch(h) \/ RecalculateRead(h)
        PROVE  \/ op'[k] = op[k] \/ op'[k] = Idle
               \/ Begun({"idle", "punched"}, {"punched", "judge", "sweep"})
    BY <1>1, <1>6 DEF Punch, RecalculateRead, Start, Continue, Finish, Seen
  <1>7. ASSUME NEW h \in Requests,
               \/ (\E to \in {"approved", "rejected"} : ReviewRead(h, to))
               \/ WithdrawRead(h) \/ ImportRead(h) \/ OfficeRead(h)
        PROVE  op'[k] = op[k] \/ Begun({"idle"}, {"review", "withdraw", "import", "office"})
    BY <1>1, <1>7 DEF ReviewRead, WithdrawRead, ImportRead, OfficeRead, Start
  <1>8. ASSUME NEW h \in Requests,
               \/ (\E range \in BOOLEAN : WfhRead(h, range)) \/ RangeLook(h)
               \/ (\E to \in {"APPROVED", "REJECTED"} : DecideWfhRead(h, to))
               \/ DecideWfhWrite(h) \/ SweepWfh(h)
        PROVE  op'[k] = op[k] \/ Begun({"idle", "days", "decide"}, {"days", "wfh", "decide", "tell"})
    <2>1. CASE \E range \in BOOLEAN : WfhRead(h, range)
      <3>1. PICK range \in BOOLEAN : WfhRead(h, range)
        BY <2>1
      <3>2. op[h] = Idle /\ \/ op' = [op EXCEPT ![h] = [kind |-> "days"]]
                            \/ op' = [op EXCEPT ![h] = [kind |-> "wfh", id |-> day.id,
                                                        range |-> FALSE]]
        BY <3>1 DEF WfhRead, Start
      <3>3. QED
        BY <1>1, <3>2
    <2>2. CASE RangeLook(h) \/ DecideWfhWrite(h) \/ SweepWfh(h)
      BY <1>1, <2>2 DEF RangeLook, DecideWfhWrite, SweepWfh, Start, Continue
    <2>3. CASE \E to \in {"APPROVED", "REJECTED"} : DecideWfhRead(h, to)
      BY <1>1, <2>3 DEF DecideWfhRead, Start
    <2>4. QED
      BY <1>8, <2>1, <2>2, <2>3
  <1>9. ASSUME NEW h \in Requests, \E l \in Leaves : StampRead(h, l) \/ UnstampRead(h, l)
        PROVE  op'[k] = op[k] \/ Begun({"idle"}, {"stamp", "unstamp"})
    BY <1>1, <1>9 DEF StampRead, UnstampRead, Start
  <1>10. CASE UNCHANGED vars
    BY <1>10 DEF vars
  <1>11. QED
    BY <1>3, <1>4, <1>5, <1>6, <1>7, <1>8, <1>9, <1>10 DEF Next

\* A request is being filed by one handler, and has no history row until that is done.
FilesHeld ==
    \A h \in Requests : op[h].kind \in {"file", "filed"} =>
        /\ ledger[op[h].filing] = "none"
        /\ \A k \in Requests :
               op[k].kind \in {"file", "filed"} /\ op[k].filing = op[h].filing => k = h

\* A handler that files goes on with its request, or begins one that no other has.
LEMMA FilingFrom ==
    ASSUME TypeInv, [Next]_vars, NEW k \in Requests, op'[k].kind \in {"file", "filed"}
    PROVE  \/ op[k].kind \in {"file", "filed"} /\ op'[k].filing = op[k].filing
           \/ /\ FileRead(k, op'[k].filing)
              /\ \A j \in Requests \ {k} : op'[j] = op[j]
  <1>1. op \in [Requests -> Ops] /\ Idle.kind = "idle"
    BY DEF TypeInv, SnapshotsKept, Idle
  <1>2. CASE op'[k] = op[k]
    BY <1>2
  <1>3. CASE FileWrite(k)
    BY <1>1, <1>3 DEF FileWrite, Continue, Finish
  <1>4. ASSUME ReviewWrite(k) \/ WithdrawWrite(k)
        PROVE  FALSE
    BY <1>1, <1>4 DEF ReviewWrite, WithdrawWrite, Continue, Finish
  <1>5. ASSUME NEW q \in Filings, FileRead(k, q)
        PROVE  FileRead(k, op'[k].filing) /\ \A j \in Requests \ {k} : op'[j] = op[j]
    <2>1. op' = [op EXCEPT ![k] = [kind |-> "file", id |-> day.id, filing |-> q]]
      BY <1>5 DEF FileRead, Start
    <2>2. op'[k].filing = q /\ \A j \in Requests \ {k} : op'[j] = op[j]
      BY <1>1, <2>1
    <2>3. QED
      BY <1>5, <2>2
  <1>6. QED
    BY <1>1, <1>2, <1>3, <1>4, <1>5, NewSnapshot

\* A request without a history row stays without, until its own handler records it.
LEMMA LedgerStaysNone ==
    ASSUME TypeInv, [Next]_vars, NEW q \in Filings, ledger[q] = "none"
    PROVE  ledger'[q] = "none" \/ \E h \in Requests : FileRecord(h) /\ op[h].filing = q
  <1>1. ledger \in [Filings ->
             {"none", "PENDING", "APPROVED", "REJECTED", "CANCELLED", "deleted"}]
    BY DEF TypeInv, TypeOK
  <1>2. ASSUME NEW h \in Requests, FileRecord(h), op[h].filing # q
        PROVE  ledger'[q] = "none"
    BY <1>1, <1>2 DEF FileRecord
  <1>3. ASSUME NEW h \in Requests, CloseRequests(h)
        PROVE  ledger'[q] = "none"
    BY <1>1, <1>3 DEF CloseRequests
  <1>4. ASSUME NEW h \in Requests, UnstampWrite(h)
        PROVE  ledger'[q] = "none"
    BY <1>1, <1>4 DEF UnstampWrite, Cascaded
  <1>5. ASSUME NEW h \in Requests,
               \/ Punch(h) \/ RecalculateRead(h) \/ RecalculateWrite(h)
               \/ (\E p \in Filings : FileRead(h, p)) \/ FileWrite(h)
               \/ (\E to \in {"approved", "rejected"} : ReviewRead(h, to))
               \/ ReviewWrite(h) \/ WithdrawRead(h) \/ WithdrawWrite(h)
               \/ ImportRead(h) \/ ImportWrite(h)
        PROVE  ledger' = ledger
    BY <1>5 DEF Punch, RecalculateRead, RecalculateWrite, FileRead, FileWrite, ReviewRead,
                ReviewWrite, WithdrawRead, WithdrawWrite, ImportRead, ImportWrite
  <1>6. ASSUME NEW h \in Requests,
               \/ (\E range \in BOOLEAN : WfhRead(h, range)) \/ RangeLook(h) \/ WfhWrite(h)
               \/ OfficeRead(h) \/ OfficeWrite(h)
               \/ (\E to \in {"APPROVED", "REJECTED"} : DecideWfhRead(h, to))
               \/ DecideWfhWrite(h) \/ SweepWfh(h) \/ TellWfh(h)
               \/ (\E l \in Leaves : StampRead(h, l) \/ UnstampRead(h, l)) \/ StampWrite(h)
               \/ GiveUp(h)
        PROVE  ledger' = ledger
    BY <1>6 DEF WfhRead, RangeLook, WfhWrite, OfficeRead, OfficeWrite, DecideWfhRead,
                DecideWfhWrite, SweepWfh, TellWfh, StampRead, UnstampRead, StampWrite, GiveUp
  <1>7. CASE UNCHANGED vars
    BY <1>7 DEF vars
  <1>8. QED
    BY <1>2, <1>3, <1>4, <1>5, <1>6, <1>7 DEF Next

LEMMA FilesStep == TypeInv /\ FilesHeld /\ [Next]_vars => FilesHeld'
  <1> SUFFICES ASSUME TypeInv, FilesHeld, [Next]_vars,
                      NEW k \in Requests, op'[k].kind \in {"file", "filed"}
               PROVE  /\ ledger'[op'[k].filing] = "none"
                      /\ \A j \in Requests :
                             op'[j].kind \in {"file", "filed"} /\ op'[j].filing = op'[k].filing
                                 => j = k
    BY DEF FilesHeld
  <1>0. op \in [Requests -> Ops] /\ op' \in [Requests -> Ops]
    BY SnapshotStep DEF TypeInv, SnapshotsKept
  <1> DEFINE q == op'[k].filing
  <1>1. q \in Filings
    BY <1>0, Snapshots DEF OfAFiling
  <1>2. CASE op[k].kind \in {"file", "filed"} /\ q = op[k].filing
    <2>1. ledger[q] = "none"
      BY <1>2 DEF FilesHeld
    <2>2. ASSUME NEW h \in Requests, FileRecord(h), op[h].filing = q
          PROVE  FALSE
      <3>1. op[h].kind = "filed" /\ op' = [op EXCEPT ![h] = Idle]
        BY <2>2 DEF FileRecord, Finish
      <3>2. h = k
        BY <1>2, <2>2, <3>1 DEF FilesHeld
      <3>3. QED
        BY <1>0, <3>1, <3>2 DEF Idle
    <2>3. ledger'[q] = "none"
      BY <1>1, <2>1, <2>2, LedgerStaysNone
    <2>4. ASSUME NEW j \in Requests, op'[j].kind \in {"file", "filed"}, op'[j].filing = q
          PROVE  j = k
      <3>1. CASE op[j].kind \in {"file", "filed"} /\ op'[j].filing = op[j].filing
        BY <1>2, <2>4, <3>1 DEF FilesHeld
      <3>2. CASE FileRead(j, op'[j].filing)
        BY <1>2, <2>4, <3>2 DEF FileRead, InFlight
      <3>3. QED
        BY <2>4, <3>1, <3>2, FilingFrom
    <2>5. QED
      BY <2>3, <2>4
  <1>3. CASE FileRead(k, q) /\ \A j \in Requests \ {k} : op'[j] = op[j]
    <2>1. /\ ledger[q] = "none" /\ ledger' = ledger
          /\ \A g \in InFlight({"file", "filed"}) : op[g].filing # q
      BY <1>3 DEF FileRead
    <2>2. ASSUME NEW j \in Requests, op'[j].kind \in {"file", "filed"}, op'[j].filing = q,
                 j # k
          PROVE  FALSE
      BY <1>3, <2>1, <2>2 DEF InFlight
    <2>3. QED
      BY <2>1, <2>2
  <1>4. QED
    BY <1>2, <1>3, FilingFrom

\* The requests a handler is about to record; a handler about to close q on this row.
Recording == {op[h].filing : h \in InFlight({"filed"})}
Closes(h, q) == op[h].kind = "close" /\ op[h].filing = q /\ op[h].id = day.id
WaitsFor(q) == day.reg = "pending" /\ day.asks = q

\* Where the history of request q may lag behind the day: it was not recorded yet, or its
\* decision is still to be copied, by a handler in flight; one handler copies it.
AskedAbout(q) ==
    /\ ledger[q] = "none" /\ day.asks = q => q \in Recording
    /\ ledger[q] = "PENDING" => WaitsFor(q) \/ \E h \in Requests : Closes(h, q)
    /\ WaitsFor(q) => ledger[q] \in {"none", "PENDING"}
    /\ \A h \in Requests : op[h].kind = "close" /\ op[h].filing = q =>
           ledger[q] # "none" \/ q \in Recording
    /\ \A h \in Requests : Closes(h, q) =>
           /\ ~WaitsFor(q) /\ ledger[q] \in {"none", "PENDING"}
           /\ day.asks = q =>
                  op[h].to = IF day.reg = "approved" THEN "APPROVED" ELSE "REJECTED"
           /\ \A k \in Requests : Closes(k, q) => k = h
    /\ day.asks = q /\ day.reg \in {"approved", "rejected"} =>
           \/ ledger[q] = LedgerStatus(day.reg) \/ q \in Recording
           \/ ledger[q] = "PENDING" /\ \E h \in Requests : Closes(h, q)

Asked == {q \in Filings : AskedAbout(q)}
AskedHeld == races = {} => Filings \subseteq Asked

\* Steps that do not touch request q, its history row, or the handlers that owe it.
LEMMA AskedQuiet ==
    ASSUME TypeInv, [Next]_vars, NEW q \in Filings, q \in Asked,
           ledger'[q] = ledger[q],
           \/ day'.reg = day.reg /\ day'.asks = day.asks
           \/ ~WaitsFor(q) /\ day'.asks # q,
           day'.id = day.id \/ (day.id = 0 /\ day'.id > made),
           q \in Recording => q \in Recording',
           \A k \in Requests : /\ op'[k].kind = "close" /\ op'[k].filing = q => op'[k] = op[k]
                               /\ Closes(k, q) => op'[k] = op[k]
    PROVE  q \in Asked'
  <1>1. \A k \in Requests : op[k].kind = "close" =>
            op[k].id \in Nat /\ op[k].id # 0 /\ op[k].id <= made
    BY Snapshots DEF TypeInv, SnapshotsKept, WithId, OfARow
  <1>2. \A k \in Requests : Closes(k, q)' <=> Closes(k, q)
    <2>1. made \in Nat /\ day'.id \in Nat
      BY RowStep DEF TypeInv, RowKept, DayRows
    <2>2. ASSUME NEW k \in Requests, Closes(k, q)' PROVE Closes(k, q)
      <3>1. op'[k] = op[k] /\ op[k].kind = "close" /\ op[k].filing = q /\ op[k].id = day'.id
        BY <2>2 DEF Closes
      <3>2. QED
        BY <1>1, <2>1, <3>1 DEF Closes
    <2>3. ASSUME NEW k \in Requests, Closes(k, q) PROVE Closes(k, q)'
      <3>1. op'[k] = op[k] /\ op[k].kind = "close" /\ op[k].filing = q /\ op[k].id = day.id
        BY <2>3 DEF Closes
      <3>2. QED
        BY <1>1, <3>1 DEF Closes
    <2>4. QED
      BY <2>2, <2>3
  <1>3. WaitsFor(q)' <=> WaitsFor(q)
    BY DEF WaitsFor
  <1>4. ASSUME NEW k \in Requests, op'[k].kind = "close" /\ op'[k].filing = q
        PROVE  ledger'[q] # "none" \/ q \in Recording'
    BY <1>4 DEF Asked, AskedAbout
  <1>5. ASSUME NEW k \in Requests, Closes(k, q)'
        PROVE  /\ ~WaitsFor(q)' /\ ledger'[q] \in {"none", "PENDING"}
               /\ day'.asks = q =>
                      op'[k].to = IF day'.reg = "approved" THEN "APPROVED" ELSE "REJECTED"
               /\ \A j \in Requests : Closes(j, q)' => j = k
    <2>1. Closes(k, q) /\ op'[k] = op[k]
      BY <1>2, <1>5
    <2>2. QED
      BY <1>2, <1>3, <2>1 DEF Asked, AskedAbout
  <1>6. day'.asks = q /\ day'.reg \in {"approved", "rejected"} =>
           \/ ledger'[q] = LedgerStatus(day'.reg) \/ q \in Recording'
           \/ ledger'[q] = "PENDING" /\ \E h \in Requests : Closes(h, q)'
    BY <1>2 DEF Asked, AskedAbout
  <1>7. /\ ledger'[q] = "none" /\ day'.asks = q => q \in Recording'
        /\ ledger'[q] = "PENDING" => WaitsFor(q)' \/ \E h \in Requests : Closes(h, q)'
        /\ WaitsFor(q)' => ledger'[q] \in {"none", "PENDING"}
    BY <1>2, <1>3 DEF Asked, AskedAbout
  <1>8. QED
    BY <1>4, <1>5, <1>6, <1>7 DEF Asked, AskedAbout

\* What is said of a new or ended snapshot, of every other handler.
LEMMA OthersKept ==
    ASSUME op \in [Requests -> Ops], NEW h \in Requests, NEW o, op' = [op EXCEPT ![h] = o]
    PROVE  op'[h] = o /\ \A k \in Requests \ {h} : op'[k] = op[k]
  OBVIOUS

\* A handler ends that owes request q nothing.
LEMMA AskedFinish ==
    ASSUME TypeInv, [Next]_vars, NEW q \in Filings, q \in Asked, NEW h \in Requests,
           Finish(h), ledger' = ledger,
           ~(op[h].kind = "filed" /\ op[h].filing = q), ~Closes(h, q),
           \/ day'.reg = day.reg /\ day'.asks = day.asks
           \/ ~WaitsFor(q) /\ day'.asks # q,
           day'.id = day.id \/ (day.id = 0 /\ day'.id = made + 1)
    PROVE  q \in Asked'
  <1>1. op \in [Requests -> Ops] /\ Idle.kind = "idle" /\ made \in Nat
    BY DEF TypeInv, SnapshotsKept, RowKept, Idle
  <1>2. op'[h] = Idle /\ \A k \in Requests \ {h} : op'[k] = op[k]
    BY <1>1, OthersKept DEF Finish
  <1>3. q \in Recording => q \in Recording'
    BY <1>2 DEF Recording, InFlight
  <1>4. \A k \in Requests : /\ op'[k].kind = "close" /\ op'[k].filing = q => op'[k] = op[k]
                            /\ Closes(k, q) => op'[k] = op[k]
    BY <1>1, <1>2
  <1>5. day'.id = day.id \/ (day.id = 0 /\ day'.id > made)
    BY <1>1
  <1>6. QED
    BY <1>3, <1>4, <1>5, AskedQuiet

\* A handler filed request p.
LEMMA AskedFileWrite ==
    ASSUME TypeInv, FilesHeld, AskedHeld, [Next]_vars, races' = {},
           NEW h \in Requests, FileWrite(h), NEW q \in Filings
    PROVE  q \in Asked'
  <1> DEFINE p == op[h].filing
  <1>0. /\ op \in [Requests -> Ops] /\ op[h].kind = "file" /\ ledger' = ledger /\ races = {}
        /\ q \in Asked /\ p \in Filings /\ ledger[p] = "none" /\ made \in Nat
    BY RacesGrow, FileWriteStep
    DEF TypeInv, SnapshotsKept, RowKept, FileWrite, AskedHeld, Asked, FilesHeld
  <1>1. CASE Finish(h) /\ day' = day
    BY <1>0, <1>1, AskedFinish DEF Closes
  <1>2. CASE Continue(h, [kind |-> "filed", filing |-> p])
    <2>1. op'[h] = [kind |-> "filed", filing |-> p] /\ \A k \in Requests \ {h} : op'[k] = op[k]
      BY <1>0, <1>2, OthersKept DEF Continue
    <2>2. CASE q = p
      <3>1. q \notin Recording
        BY <1>0, <2>2 DEF FilesHeld, Recording, InFlight
      <3>2. \A k \in Requests : ~(op[k].kind = "close" /\ op[k].filing = q)
        BY <1>0, <2>2, <3>1 DEF Asked, AskedAbout
      <3>3. \A k \in Requests : ~(op'[k].kind = "close" /\ op'[k].filing = q)
        BY <1>0, <2>1, <3>2
      <3>4. q \in Recording' /\ ledger'[q] = "none"
        BY <1>0, <2>1, <2>2 DEF Recording, InFlight
      <3>5. \A k \in Requests : ~Closes(k, q)'
        BY <2>2, <3>3 DEF Closes
      <3>6. QED
        BY <2>2, <3>3, <3>4, <3>5 DEF Asked, AskedAbout
    <2>3. CASE q # p
      <3>1. q \in Recording => q \in Recording'
        BY <1>0, <2>1 DEF Recording, InFlight
      <3>2. \A k \in Requests : /\ op'[k].kind = "close" /\ op'[k].filing = q => op'[k] = op[k]
                                /\ Closes(k, q) => op'[k] = op[k]
        BY <1>0, <2>1 DEF Closes
      <3>3. \/ day'.reg = day.reg /\ day'.asks = day.asks
            \/ ~WaitsFor(q) /\ day'.asks # q
        <4>1. CASE day' = day
          BY <4>1
        <4>2. CASE op[h].id = day.id /\ day'.asks = p
          <5>1. day.reg # "pending"
            BY <4>2 DEF FileWrite, Fell, When
          <5>2. QED
            BY <2>3, <4>2, <5>1 DEF WaitsFor
        <4>3. QED
          BY <4>1, <4>2, FileWriteStep
      <3>4. day'.id = day.id \/ (day.id = 0 /\ day'.id = made + 1)
        BY FileWriteStep DEF HasRow
      <3>5. day'.id = day.id \/ (day.id = 0 /\ day'.id > made)
        BY <1>0, <3>4
      <3>6. QED
        BY <1>0, <3>1, <3>2, <3>3, <3>5, AskedQuiet
    <2>4. QED
      BY <2>2, <2>3
  <1>3. (Finish(h) /\ day' = day) \/ Continue(h, [kind |-> "filed", filing |-> p])
    <2>1. IF Collides(op[h].id) THEN Finish(h) /\ day' = day
          ELSE IF day'.id = 0 THEN Finish(h)
          ELSE Continue(h, [kind |-> "filed", filing |-> op[h].filing])
      BY DEF FileWrite
    <2>2. day'.id = 0 => day' = day
      BY FileWriteStep
    <2>3. QED
      BY <2>1, <2>2
  <1>4. QED
    BY <1>1, <1>2, <1>3

\* It recorded it.
LEMMA AskedFileRecord ==
    ASSUME TypeInv, FilesHeld, AskedHeld, [Next]_vars, races' = {},
           NEW h \in Requests, FileRecord(h), NEW q \in Filings
    PROVE  q \in Asked'
  <1> DEFINE p == op[h].filing
  <1>0. /\ op \in [Requests -> Ops] /\ op[h].kind = "filed" /\ day' = day /\ races = {}
        /\ q \in Asked /\ p \in Filings /\ Finish(h) /\ Idle.kind = "idle"
        /\ ledger \in [Filings -> {"none", "PENDING", "APPROVED", "REJECTED", "CANCELLED",
                                   "deleted"}]
    BY RacesGrow, Snapshots
    DEF TypeInv, TypeOK, SnapshotsKept, FileRecord, AskedHeld, Asked, OfAFiling, Idle
  <1>1. WaitsFor(p) /\ HasRow
    <2>1. WaitsFor(p)
      BY DEF FileRecord, Fell, When, WaitsFor
    <2>2. QED
      BY <2>1 DEF WaitsFor, HasRow, TypeInv, RowKept, NoDay
  <1>2. ledger' = [ledger EXCEPT ![p] = "PENDING"]
    BY <1>1 DEF FileRecord
  <1>3. op'[h] = Idle /\ \A k \in Requests \ {h} : op'[k] = op[k]
    BY <1>0, OthersKept DEF Finish
  <1>4. CASE q = p
    <2>1. ledger'[q] = "PENDING" /\ WaitsFor(q)'
      BY <1>0, <1>1, <1>2, <1>4 DEF WaitsFor
    <2>2. \A k \in Requests : ~Closes(k, q)
      BY <1>0, <1>1, <1>4 DEF Asked, AskedAbout
    <2>3. \A k \in Requests : ~Closes(k, q)'
      BY <1>0, <1>3, <2>2 DEF Closes
    <2>4. day'.reg = "pending"
      BY <2>1 DEF WaitsFor
    <2>5. QED
      BY <2>1, <2>3, <2>4 DEF Asked, AskedAbout
  <1>5. CASE q # p
    <2>1. ledger'[q] = ledger[q]
      BY <1>0, <1>2, <1>5
    <2>2. q \in Recording => q \in Recording'
      BY <1>3, <1>5 DEF Recording, InFlight
    <2>3. \A k \in Requests : /\ op'[k].kind = "close" /\ op'[k].filing = q => op'[k] = op[k]
                              /\ Closes(k, q) => op'[k] = op[k]
      BY <1>0, <1>3 DEF Closes
    <2>4. QED
      BY <1>0, <2>1, <2>2, <2>3, AskedQuiet
  <1>6. QED
    BY <1>4, <1>5

\* The request that waits was decided or taken back, and is still to be closed.
LEMMA AskedToClose ==
    ASSUME TypeInv, FilesHeld, AskedHeld, [Next]_vars, races = {},
           NEW h \in Requests, NEW p \in Filings, NEW to, NEW q \in Filings,
           op[h].kind \in {"review", "withdraw"}, op[h].id = day.id, WaitsFor(p),
           op' = [op EXCEPT ![h] = [kind |-> "close", id |-> day.id, filing |-> p, to |-> to]],
           ledger' = ledger, day'.id = day.id, day'.reg # "pending",
           \/ day'.asks = p /\ day'.reg \in {"approved", "rejected"}
                  /\ to = LedgerStatus(day'.reg)
           \/ day'.asks = NoFiling
    PROVE  q \in Asked'
  <1>0. op \in [Requests -> Ops] /\ q \in Asked
    BY DEF TypeInv, SnapshotsKept, AskedHeld, Asked
  <1>1. /\ op'[h] = [kind |-> "close", id |-> day.id, filing |-> p, to |-> to]
        /\ \A k \in Requests \ {h} : op'[k] = op[k]
    BY <1>0, OthersKept
  <1>2. q \in Recording => q \in Recording'
    BY <1>1 DEF Recording, InFlight
  <1>3. NoFiling # q
    BY DayAssumption
  <1>4. CASE q = p
    <2>1. Closes(h, q)' /\ op'[h].to = to
      BY <1>1, <1>4 DEF Closes
    <2>2. \A k \in Requests : ~Closes(k, q)
      BY <1>0, <1>4 DEF Asked, AskedAbout
    <2>3. \A k \in Requests : Closes(k, q)' => k = h
      BY <1>1, <2>2 DEF Closes
    <2>4. ~WaitsFor(q)' /\ ledger'[q] \in {"none", "PENDING"}
          /\ (ledger'[q] = "none" /\ day'.asks = q => q \in Recording')
      BY <1>0, <1>2, <1>4 DEF Asked, AskedAbout, WaitsFor
    <2>5. ledger[q] # "none" \/ q \in Recording
      BY <1>0, <1>4 DEF Asked, AskedAbout, WaitsFor
    <2>6. ledger'[q] # "none" \/ q \in Recording'
      BY <1>2, <2>5
    <2>7. day'.asks = q => to = IF day'.reg = "approved" THEN "APPROVED" ELSE "REJECTED"
      BY <1>3 DEF LedgerStatus
    <2>8. day'.asks = q /\ day'.reg \in {"approved", "rejected"} =>
             \/ ledger'[q] = LedgerStatus(day'.reg) \/ q \in Recording'
             \/ ledger'[q] = "PENDING" /\ \E k \in Requests : Closes(k, q)'
      BY <2>1, <2>4, <2>6
    <2>9. ASSUME NEW k \in Requests, Closes(k, q)'
          PROVE  /\ ~WaitsFor(q)' /\ ledger'[q] \in {"none", "PENDING"}
                 /\ day'.asks = q =>
                        op'[k].to = IF day'.reg = "approved" THEN "APPROVED" ELSE "REJECTED"
                 /\ \A j \in Requests : Closes(j, q)' => j = k
      BY <2>1, <2>3, <2>4, <2>7, <2>9
    <2>10. QED
      BY <2>1, <2>4, <2>6, <2>8, <2>9 DEF Asked, AskedAbout
  <1>5. CASE q # p
    <2>1. ~WaitsFor(q) /\ day'.asks # q
      BY <1>3, <1>5 DEF WaitsFor
    <2>2. \A k \in Requests : /\ op'[k].kind = "close" /\ op'[k].filing = q => op'[k] = op[k]
                              /\ Closes(k, q) => op'[k] = op[k]
      BY <1>1, <1>5 DEF Closes
    <2>3. QED
      BY <1>0, <1>2, <2>1, <2>2, AskedQuiet
  <1>6. QED
    BY <1>4, <1>5

LEMMA AskedReviewWrite ==
    ASSUME TypeInv, FilesHeld, AskedHeld, [Next]_vars, races' = {},
           NEW h \in Requests, ReviewWrite(h), NEW q \in Filings
    PROVE  q \in Asked'
  <1> DEFINE o == op[h]
  <1>0. /\ op \in [Requests -> Ops] /\ o.kind = "review" /\ ledger' = ledger /\ races = {}
        /\ q \in Asked
    BY RacesGrow DEF TypeInv, SnapshotsKept, ReviewWrite, AskedHeld
  <1>1. CASE StillWaits(o.id)
    <2>1. day.asks = o.filing /\ day.reg = "pending" /\ day.id = o.id
      BY <1>1 DEF ReviewWrite, Fell, When, StillWaits
    <2>2. op' = [op EXCEPT ![h] = [kind |-> "close", id |-> day.id, filing |-> o.filing,
                                   to |-> LedgerStatus(o.to)]]
      BY <1>1, <2>1 DEF ReviewWrite, Continue
    <2>3. /\ o.filing \in Filings /\ o.to \in {"approved", "rejected"} /\ day'.id = day.id
          /\ day'.reg = o.to /\ day'.asks = o.filing
      BY <1>1, ReviewWriteStep
    <2>4. WaitsFor(o.filing)
      BY <2>1 DEF WaitsFor
    <2> DEFINE to == LedgerStatus(o.to)
    <2>5. to = LedgerStatus(day'.reg)
      BY <2>3
    <2>6. op' = [op EXCEPT ![h] = [kind |-> "close", id |-> day.id, filing |-> o.filing,
                                   to |-> to]]
      BY <2>2
    <2> HIDE DEF to
    <2>7. QED
      BY <1>0, <2>1, <2>3, <2>4, <2>5, <2>6, AskedToClose
  <1>2. CASE ~StillWaits(o.id)
    <2>1. Finish(h) /\ day' = day
      BY <1>2 DEF ReviewWrite
    <2>2. QED
      BY <1>0, <2>1, AskedFinish DEF Closes
  <1>3. QED
    BY <1>1, <1>2

LEMMA AskedWithdrawWrite ==
    ASSUME TypeInv, FilesHeld, AskedHeld, [Next]_vars, races' = {},
           NEW h \in Requests, WithdrawWrite(h), NEW q \in Filings
    PROVE  q \in Asked'
  <1> DEFINE o == op[h]
  <1>0. /\ op \in [Requests -> Ops] /\ o.kind = "withdraw" /\ ledger' = ledger /\ races = {}
        /\ q \in Asked
    BY RacesGrow DEF TypeInv, SnapshotsKept, WithdrawWrite, AskedHeld
  <1>1. CASE StillWaits(o.id)
    <2>1. day.reg = "pending" /\ day.id = o.id
      BY <1>1 DEF StillWaits
    <2>2. op' = [op EXCEPT ![h] = [kind |-> "close", id |-> day.id, filing |-> day.asks,
                                   to |-> "CANCELLED"]]
      BY <1>1, <2>1 DEF WithdrawWrite, Continue
    <2>3. /\ day.asks \in Filings /\ day'.id = day.id
          /\ day'.reg = "none" /\ day'.asks = NoFiling
      BY <1>1, WithdrawWriteStep
    <2>4. WaitsFor(day.asks)
      BY <2>1 DEF WaitsFor
    <2>5. QED
      BY <1>0, <2>1, <2>2, <2>3, <2>4, AskedToClose
  <1>2. CASE ~StillWaits(o.id)
    <2>1. Finish(h) /\ day' = day
      BY <1>2 DEF WithdrawWrite
    <2>2. QED
      BY <1>0, <2>1, AskedFinish DEF Closes
  <1>3. QED
    BY <1>1, <1>2

\* The decision reaches the history row of the request it was taken on, and no other.
LEMMA AskedCloseRequests ==
    ASSUME TypeInv, FilesHeld, AskedHeld, [Next]_vars, races' = {},
           NEW h \in Requests, CloseRequests(h), NEW q \in Filings
    PROVE  q \in Asked'
  <1> DEFINE p == op[h].filing
  <1>0. /\ op \in [Requests -> Ops] /\ op[h].kind = "close" /\ day' = day /\ races = {}
        /\ q \in Asked /\ Finish(h) /\ Idle.kind = "idle"
        /\ op[h].to \in {"APPROVED", "REJECTED", "CANCELLED"}
    BY RacesGrow, Snapshots DEF TypeInv, SnapshotsKept, CloseRequests, AskedHeld, Idle
  <1>1. op'[h] = Idle /\ \A k \in Requests \ {h} : op'[k] = op[k]
    BY <1>0, OthersKept DEF Finish
  <1>2. q \in Recording => q \in Recording'
    BY <1>0, <1>1 DEF Recording, InFlight
  <1>3. CASE day.id # op[h].id
    <2>1. ledger' = ledger
      BY <1>3 DEF CloseRequests
    <2>2. QED
      BY <1>0, <1>3, <2>1, AskedFinish DEF Closes
  <1>4. CASE day.id = op[h].id
    <2>1. ledger' = [r \in Filings |-> IF ledger[r] = "PENDING" THEN op[h].to ELSE ledger[r]]
      BY <1>4 DEF CloseRequests
    <2>2. CASE q # p
      <3>1. ledger[q] # "PENDING"
        BY <1>4, <2>2 DEF CloseRequests, Fell, When
      <3>2. ledger'[q] = ledger[q]
        BY <2>1, <3>1
      <3>3. \A k \in Requests : /\ op'[k].kind = "close" /\ op'[k].filing = q => op'[k] = op[k]
                                /\ Closes(k, q) => op'[k] = op[k]
        BY <1>0, <1>1, <2>2 DEF Closes
      <3>4. QED
        BY <1>0, <1>2, <3>2, <3>3, AskedQuiet
    <2>3. CASE q = p
      <3>1. Closes(h, q)
        BY <1>0, <1>4, <2>3 DEF Closes
      <3>2. /\ ~WaitsFor(q) /\ ledger[q] \in {"none", "PENDING"}
            /\ day.asks = q =>
                   op[h].to = IF day.reg = "approved" THEN "APPROVED" ELSE "REJECTED"
            /\ \A k \in Requests : Closes(k, q) => k = h
            /\ ledger[q] # "none" \/ q \in Recording
        BY <1>0, <2>3, <3>1 DEF Asked, AskedAbout
      <3>3. \A k \in Requests : ~Closes(k, q)'
        BY <1>0, <1>1, <3>2 DEF Closes
      <3>4. ~WaitsFor(q)'
        BY <1>0, <3>2 DEF WaitsFor
      <3>5. CASE ledger[q] = "none"
        <4>1. ledger'[q] = "none" /\ q \in Recording'
          BY <1>2, <2>1, <3>2, <3>5
        <4>2. QED
          BY <3>3, <3>4, <4>1 DEF Asked, AskedAbout
      <3>6. CASE ledger[q] = "PENDING"
        <4>1. ledger'[q] = op[h].to
          BY <2>1, <3>6
        <4>2. ledger'[q] \notin {"none", "PENDING"}
          BY <1>0, <4>1
        <4>3. day'.asks = q /\ day'.reg \in {"approved", "rejected"} =>
                  ledger'[q] = LedgerStatus(day'.reg)
          BY <1>0, <3>2, <4>1 DEF LedgerStatus
        <4>4. QED
          BY <3>3, <3>4, <4>2, <4>3 DEF Asked, AskedAbout
      <3>7. QED
        BY <3>2, <3>5, <3>6
    <2>4. QED
      BY <2>2, <2>3
  <1>5. QED
    BY <1>3, <1>4

\* With the row its history goes; the row stays while any leave is on it.
LEMMA AskedUnstampWrite ==
    ASSUME TypeInv, FilesHeld, AskedHeld, [Next]_vars, races' = {},
           NEW h \in Requests, UnstampWrite(h), NEW q \in Filings
    PROVE  q \in Asked'
  <1>0. /\ races = {} /\ q \in Asked /\ RowKept /\ op \in [Requests -> Ops]
        /\ \A k \in Requests : op[k].kind = "close" => op[k].id # 0
        /\ op[h].kind = "unstamp" /\ Finish(h) /\ Idle.kind = "idle" /\ ledger' = Cascaded
    BY RacesGrow DEF TypeInv, SnapshotsKept, UnstampWrite, AskedHeld, OfARow, Idle
  <1>1. op'[h] = Idle /\ \A k \in Requests \ {h} : op'[k] = op[k]
    BY <1>0, OthersKept DEF Finish
  <1>2. \A k \in Requests : op'[k].kind = "close" => op'[k] = op[k]
    BY <1>0, <1>1
  <1>3. q \in Recording => q \in Recording'
    BY <1>0, <1>1 DEF Recording, InFlight
  <1>4. CASE HasRow /\ day' = NoDay
    <2>1. NoDay.id = 0 /\ NoDay.asks = NoFiling /\ NoDay.reg = "none"
      BY DEF NoDay
    <2>2. ledger'[q] = IF ledger[q] = "none" THEN "none" ELSE "deleted"
      BY <1>0, <1>4, <2>1 DEF Cascaded
    <2>3. day'.asks # q /\ ~WaitsFor(q)'
      BY <1>4, <2>1, DayAssumption DEF WaitsFor
    <2>4. \A k \in Requests : ~Closes(k, q)'
      BY <1>0, <1>2, <1>4, <2>1 DEF Closes
    <2>5. \A k \in Requests : op'[k].kind = "close" /\ op'[k].filing = q =>
              ledger'[q] # "none" \/ q \in Recording'
      BY <1>0, <1>2, <1>3, <2>2 DEF Asked, AskedAbout
    <2>6. ledger'[q] # "PENDING"
      BY <2>2
    <2>7. QED
      BY <2>3, <2>4, <2>5, <2>6 DEF Asked, AskedAbout
  <1>5. CASE day'.id = day.id /\ day'.reg = day.reg /\ day'.asks = day.asks
    <2>1. ledger' = ledger
      BY <1>0, <1>5 DEF Cascaded, HasRow
    <2>2. QED
      BY <1>0, <1>5, <2>1, AskedFinish DEF Closes
  <1>6. QED
    BY <1>4, <1>5, UnstampWriteStep

\* Steps of handlers that owe no request anything, and of nobody.
LEMMA AskedOther ==
    ASSUME TypeInv, [Next]_vars, NEW q \in Filings, q \in Asked, ledger' = ledger,
           \/ op' = op
           \/ \E h \in Requests, o \in {op'[k] : k \in Requests} :
                  /\ op' = [op EXCEPT ![h] = o]
                  /\ op[h].kind \notin {"filed", "close"}
                  /\ o.kind \notin {"filed", "close"},
           day'.reg = day.reg /\ day'.asks = day.asks,
           day'.id = day.id \/ (day.id = 0 /\ day'.id = made + 1)
    PROVE  q \in Asked'
  <1>1. op \in [Requests -> Ops] /\ made \in Nat
    BY DEF TypeInv, SnapshotsKept, RowKept
  <1>2. \A k \in Requests : \/ op'[k] = op[k]
                            \/ /\ op[k].kind \notin {"filed", "close"}
                               /\ op'[k].kind \notin {"filed", "close"}
    BY <1>1
  <1>3. q \in Recording => q \in Recording'
    BY <1>2 DEF Recording, InFlight
  <1>4. \A k \in Requests : /\ op'[k].kind = "close" /\ op'[k].filing = q => op'[k] = op[k]
                            /\ Closes(k, q) => op'[k] = op[k]
    BY <1>2 DEF Closes
  <1>5. day'.id = day.id \/ (day.id = 0 /\ day'.id > made)
    BY <1>1
  <1>6. QED
    BY <1>3, <1>4, <1>5, AskedQuiet

LEMMA AskedStep == TypeInv /\ FilesHeld /\ AskedHeld /\ [Next]_vars => AskedHeld'
  <1> SUFFICES ASSUME TypeInv, FilesHeld, AskedHeld, [Next]_vars, races' = {},
                      NEW q \in Filings
               PROVE  q \in Asked'
    BY DEF AskedHeld
  <1>0. /\ op \in [Requests -> Ops] /\ races = {} /\ q \in Asked
        /\ Idle.kind = "idle"
    BY RacesGrow DEF TypeInv, SnapshotsKept, AskedHeld, Idle
  <1> DEFINE Quiet == /\ day'.reg = day.reg /\ day'.asks = day.asks
                      /\ day'.id = day.id \/ (day.id = 0 /\ day'.id = made + 1)
  <1>1. ASSUME NEW h \in Requests, NEW o, op' = [op EXCEPT ![h] = o], ledger' = ledger,
               op[h].kind \notin {"filed", "close"}, o.kind \notin {"filed", "close"}, Quiet
        PROVE  q \in Asked'
    <2>1. o = op'[h]
      BY <1>0, <1>1
    <2>2. QED
      BY <1>0, <1>1, <2>1, AskedOther
  <1>2. ASSUME NEW h \in Requests,
               \/ Punch(h) \/ RecalculateRead(h) \/ (\E p \in Filings : FileRead(h, p))
               \/ (\E to \in {"approved", "rejected"} : ReviewRead(h, to))
               \/ WithdrawRead(h) \/ ImportRead(h)
               \/ (\E range \in BOOLEAN : WfhRead(h, range)) \/ OfficeRead(h)
               \/ (\E to \in {"APPROVED", "REJECTED"} : DecideWfhRead(h, to))
               \/ (\E l \in Leaves : StampRead(h, l) \/ UnstampRead(h, l)) \/ GiveUp(h)
        PROVE  q \in Asked'
    <2>1. day' = day /\ ledger' = ledger
      BY <1>2 DEF Punch, RecalculateRead, FileRead, ReviewRead, WithdrawRead, ImportRead,
                  WfhRead, OfficeRead, DecideWfhRead, StampRead, UnstampRead, GiveUp
    <2>2. CASE Punch(h) \/ RecalculateRead(h)
      <3>1. /\ op[h].kind \in {"idle", "punched"}
            /\ \/ op' = [op EXCEPT ![h] = [kind |-> "punched"]]
               \/ op' = [op EXCEPT ![h] = Idle]
               \/ \E kind \in {"judge", "sweep"} : op' = [op EXCEPT ![h] = Seen(kind)]
        BY <1>0, <2>2 DEF Punch, RecalculateRead, Start, Finish, Continue
      <3>2. \A kind \in {"judge", "sweep"} : Seen(kind).kind = kind
        BY DEF Seen
      <3>3. QED
        BY <1>0, <1>1, <2>1, <3>1, <3>2
    <2>3. CASE \E p \in Filings : FileRead(h, p)
      <3>1. PICK p \in Filings : FileRead(h, p)
        BY <2>3
      <3>2. op[h] = Idle /\ op' = [op EXCEPT ![h] = [kind |-> "file", id |-> day.id,
                                                     filing |-> p]]
        BY <3>1 DEF FileRead, Start
      <3>3. QED
        BY <1>0, <1>1, <2>1, <3>2
    <2>4. CASE \E to \in {"approved", "rejected"} : ReviewRead(h, to)
      <3>1. PICK to \in {"approved", "rejected"} : ReviewRead(h, to)
        BY <2>4
      <3>2. op[h] = Idle /\ op' = [op EXCEPT ![h] = [kind |-> "review", id |-> day.id,
                                                     filing |-> day.asks, to |-> to]]
        BY <3>1 DEF ReviewRead, Start
      <3>3. QED
        BY <1>0, <1>1, <2>1, <3>2
    <2>5. CASE WithdrawRead(h) \/ OfficeRead(h)
      <3>1. op[h] = Idle /\ \E kind \in {"withdraw", "office"} :
                                op' = [op EXCEPT ![h] = [kind |-> kind, id |-> day.id]]
        BY <2>5 DEF WithdrawRead, OfficeRead, Start
      <3>2. QED
        BY <1>0, <1>1, <2>1, <3>1
    <2>6. CASE ImportRead(h)
      <3>1. op[h] = Idle /\ op' = [op EXCEPT ![h] = [kind |-> "import", id |-> day.id,
                                                     half |-> IsHalfStamp(day)]]
        BY <2>6 DEF ImportRead, Start
      <3>2. QED
        BY <1>0, <1>1, <2>1, <3>1
    <2>7. CASE \E range \in BOOLEAN : WfhRead(h, range)
      <3>1. PICK range \in BOOLEAN : WfhRead(h, range)
        BY <2>7
      <3>2. op[h] = Idle /\ \/ op' = [op EXCEPT ![h] = [kind |-> "days"]]
                            \/ op' = [op EXCEPT ![h] = [kind |-> "wfh", id |-> day.id,
                                                        range |-> FALSE]]
        BY <3>1 DEF WfhRead, Start
      <3>3. QED
        BY <1>0, <1>1, <2>1, <3>2
    <2>8. CASE \E to \in {"APPROVED", "REJECTED"} : DecideWfhRead(h, to)
      <3>1. PICK to \in {"APPROVED", "REJECTED"} : DecideWfhRead(h, to)
        BY <2>8
      <3>2. op[h] = Idle /\ op' = [op EXCEPT ![h] = [kind |-> "decide", id |-> day.id,
                                                     to |-> to]]
        BY <3>1 DEF DecideWfhRead, Start
      <3>3. QED
        BY <1>0, <1>1, <2>1, <3>2
    <2>9. CASE GiveUp(h)
      <3>1. op[h].kind \notin {"filed", "close"} /\ op' = [op EXCEPT ![h] = Idle]
        BY <2>9 DEF GiveUp, Finish, Fell, When
      <3>2. QED
        BY <1>0, <1>1, <2>1, <3>1
    <2>10. CASE \E l \in Leaves : StampRead(h, l) \/ UnstampRead(h, l)
      <3>1. PICK l \in Leaves : StampRead(h, l) \/ UnstampRead(h, l)
        BY <2>10
      <3>2. op[h] = Idle /\ \/ op' = [op EXCEPT ![h] = [kind |-> "stamp", leave |-> l,
                                                        seen |-> View]]
                            \/ op' = [op EXCEPT ![h] = [kind |-> "unstamp", leave |-> l,
                                                        seen |-> View, rest |-> Rest(l)]]
        BY <3>1 DEF StampRead, UnstampRead, Start
      <3>3. QED
        BY <1>0, <1>1, <2>1, <3>2
    <2>11. QED
      BY <1>2, <2>2, <2>3, <2>4, <2>5, <2>6, <2>7, <2>8, <2>9, <2>10
  <1>3. ASSUME NEW h \in Requests,
               \/ RecalculateWrite(h) \/ ImportWrite(h) \/ WfhWrite(h) \/ OfficeWrite(h)
               \/ StampWrite(h) \/ TellWfh(h)
        PROVE  q \in Asked'
    <2>1. /\ ledger' = ledger /\ op' = [op EXCEPT ![h] = Idle]
          /\ op[h].kind \notin {"filed", "close"}
      BY <1>3 DEF RecalculateWrite, ImportWrite, WfhWrite, OfficeWrite, StampWrite, TellWfh,
                  Finish
    <2>2. TellWfh(h) => Quiet
      BY DEF TellWfh
    <2>3. Quiet
      BY <1>3, <2>2, RecalculateWriteStep, ImportWriteStep, WfhWriteStep, OfficeWriteStep,
         StampWriteStep DEF HasRow
    <2>4. QED
      BY <1>0, <1>1, <2>1, <2>3
  <1>4. ASSUME NEW h \in Requests, RangeLook(h) \/ DecideWfhWrite(h) \/ SweepWfh(h)
        PROVE  q \in Asked'
    <2>1. PICK o : /\ op' = [op EXCEPT ![h] = o] /\ o.kind \in {"wfh", "tell"}
                   /\ op[h].kind \notin {"filed", "close"} /\ ledger' = ledger
      <3>1. CASE RangeLook(h)
        <4> WITNESS [kind |-> "wfh", id |-> day.id, range |-> TRUE]
        <4> QED
          BY <3>1 DEF RangeLook, Continue
      <3>2. CASE DecideWfhWrite(h)
        <4> WITNESS [kind |-> "tell", to |-> op[h].to]
        <4> QED
          BY <3>2 DEF DecideWfhWrite, Continue
      <3>3. CASE SweepWfh(h)
        <4> WITNESS [kind |-> "tell", to |-> "APPROVED"]
        <4> QED
          BY <1>0, <3>3 DEF SweepWfh, Start
      <3>4. QED
        BY <1>4, <3>1, <3>2, <3>3
    <2>2. RangeLook(h) => Quiet
      BY DEF RangeLook
    <2>3. Quiet
      BY <1>4, <2>2, DecideWfhWriteStep, SweepWfhStep
    <2>4. QED
      BY <1>0, <1>1, <2>1, <2>3
  <1>5. CASE UNCHANGED vars
    BY <1>0, <1>5, AskedOther DEF vars
  <1>6. QED
    BY <1>2, <1>3, <1>4, <1>5, AskedFileWrite, AskedFileRecord, AskedReviewWrite,
       AskedWithdrawWrite, AskedCloseRequests, AskedUnstampWrite DEF Next

LEMMA AskedFollows == TypeInv /\ AskedHeld => RequestsFollowDay
  <1> SUFFICES ASSUME TypeInv, AskedHeld, InFlight({"filed", "close"}) = {}, races = {}
               PROVE  /\ \A q \in Filings : (ledger[q] = "PENDING") <=>
                                                (day.reg = "pending" /\ day.asks = q)
                      /\ day.reg = "approved" => ledger[day.asks] = "APPROVED"
                      /\ day.reg = "rejected" => ledger[day.asks] = "REJECTED"
    BY DEF RequestsFollowDay
  <1>1. ASSUME NEW q \in Filings
        PROVE  /\ q \in Asked /\ q \notin Recording
               /\ \A h \in Requests : ~Closes(h, q)
    BY DEF AskedHeld, Recording, InFlight, Closes
  <1>2. \A q \in Filings : (ledger[q] = "PENDING") <=> (day.reg = "pending" /\ day.asks = q)
    BY <1>1 DEF Asked, AskedAbout, WaitsFor
  <1>3. day.reg # "none" => day.asks \in Filings
    BY DEF TypeInv, RowKept
  <1>4. day.reg \in {"approved", "rejected"} => ledger[day.asks] = LedgerStatus(day.reg)
    BY <1>1, <1>3 DEF Asked, AskedAbout
  <1>5. QED
    BY <1>2, <1>4 DEF LedgerStatus

\* The history row of a request waits exactly while the day waits for that request, and
\* shows the decision the day shows, whoever files, decides, withdraws or cancels around
\* it (requestRegularization, reviewRegularization, closeRegularizationRequest).
THEOREM RequestsCorrect == Spec => []RequestsFollowDay
  <1>1. Init => FilesHeld /\ AskedHeld
    <2>1. Init => FilesHeld
      BY DEF Init, Idle, FilesHeld
    <2>2. Init => AskedHeld
      BY DayAssumption
      DEF Init, Idle, NoDay, AskedHeld, Asked, AskedAbout, WaitsFor, Closes
    <2>3. QED
      BY <2>1, <2>2
  <1>2. QED
    BY <1>1, TypeInit, TypeStep, FilesStep, AskedStep, AskedFollows, PTL DEF Spec

-----------------------------------------------------------------------------
(* Pay: leave and its stamps *)

\* One full-day leave, or at most two halves.
Room(full, half) ==
    /\ IsFiniteSet(full) /\ IsFiniteSet(half)
    /\ Cardinality(half) \in 0..2
    /\ full = {} \/ half = {}
    /\ \A l, m \in full : l = m

LEMMA LessRoom ==
    ASSUME NEW full, NEW half, Room(full, half),
           NEW f, NEW g, f \subseteq full, g \subseteq half
    PROVE  Room(f, g)
  <1>1. /\ IsFiniteSet(f) /\ IsFiniteSet(g) /\ Cardinality(g) <= Cardinality(half)
    BY FS_Subset DEF Room
  <1>2. Cardinality(g) \in Nat
    BY <1>1, FS_CardinalityType
  <1>3. Cardinality(g) \in 0..2
    BY <1>1, <1>2 DEF Room
  <1>4. QED
    BY <1>1, <1>3 DEF Room

\* Leave on the day, or about to be.
Claimed(kind) == {l \in kind : leave[l] = "APPROVED" \/ l \in Stamping}

LeavesHeld == Room(ApprovedOf(Full), ApprovedOf(Half))

ClaimsHeld ==
    /\ \A h \in InFlight({"stamp"}) : leave[op[h].leave] = "OPEN"
    /\ \A h, k \in InFlight(OfALeave) : op[h].leave = op[k].leave => h = k
    /\ Room(Claimed(Full), Claimed(Half))

LEMMA ClaimsLeaves == ClaimsHeld => LeavesHeld
  <1>1. ApprovedOf(Full) \subseteq Claimed(Full) /\ ApprovedOf(Half) \subseteq Claimed(Half)
    BY DEF ApprovedOf, Claimed
  <1>2. QED
    BY <1>1, LessRoom DEF ClaimsHeld, LeavesHeld

LEMMA LeaveApproved ==
    ASSUME TypeInv, ClaimsHeld, NEW h \in Requests, StampWrite(h), ~Collides(op[h].seen.id)
    PROVE  LET l == op[h].leave IN
           /\ l \in Leaves
           /\ ApprovedOf(Full) = {}
           /\ l \in Half => /\ ApprovedOf(Half)' = ApprovedOf(Half) \cup {l}
                            /\ l \notin ApprovedOf(Half) /\ ApprovedOf(Full)' = {}
                            /\ Cardinality(ApprovedOf(Half)) < 2
           /\ l \notin Half => /\ ApprovedOf(Full)' = {l} /\ ApprovedOf(Half)' = {}
                               /\ ApprovedOf(Half) = {}
  <1> DEFINE l == op[h].leave
             H == ApprovedOf(Half)
  <1>1. /\ leave \in [Leaves -> {"OPEN", "APPROVED", "CANCELLED"}]
        /\ leave' = [leave EXCEPT ![l] = "APPROVED"] /\ op[h].kind = "stamp"
    BY DEF TypeInv, TypeOK, StampWrite
  <1>2. l \in Leaves
    BY <1>1, Snapshots DEF TypeInv, SnapshotsKept, OfALeave
  <1>3. leave[l] = "OPEN" /\ l \in Stamping
    BY <1>1 DEF ClaimsHeld, InFlight, Stamping
  <1>4. Room(Claimed(Full), Claimed(Half))
    BY DEF ClaimsHeld
  <1>5. ApprovedOf(Full) \subseteq Claimed(Full) /\ H \subseteq Claimed(Half)
    BY DEF ApprovedOf, Claimed
  <1>6. CASE l \in Half
    <2>1. l \in Claimed(Half) /\ l \notin H
      BY <1>3, <1>6 DEF Claimed, ApprovedOf
    <2>2. ApprovedOf(Full) = {}
      BY <1>4, <1>5, <2>1 DEF Room
    <2>3. l \notin Full
      BY <1>6, DayAssumption
    <2>4. H' = H \cup {l}
      BY <1>1, <1>6 DEF ApprovedOf, Leaves
    <2>5. ApprovedOf(Full)' = {}
      BY <1>1, <2>2, <2>3 DEF ApprovedOf, Leaves
    <2>6. Cardinality(H) < 2
      <3>1. LeavesHeld
        BY ClaimsLeaves
      <3>2. IsFiniteSet(H) /\ Cardinality(H) \in 0..2
        BY <3>1 DEF LeavesHeld, Room
      <3> HIDE DEF H
      <3>3. Cardinality(H \cup {l}) = Cardinality(H) + 1
        BY <2>1, <3>2, FS_AddElement
      <3>4. Cardinality(H \cup {l}) <= Cardinality(Claimed(Half))
        BY <1>4, <1>5, <2>1, FS_Subset DEF Room
      <3>5. Cardinality(Claimed(Half)) \in 0..2
        BY <1>4 DEF Room
      <3>6. QED
        BY <3>2, <3>3, <3>4, <3>5
    <2>7. QED
      BY <1>2, <1>6, <2>1, <2>2, <2>4, <2>5, <2>6
  <1>7. CASE l \notin Half
    <2>1. l \in Full /\ l \in Claimed(Full)
      BY <1>2, <1>3, <1>7 DEF Leaves, Claimed
    <2>2. H = {}
      BY <1>4, <1>5, <2>1 DEF Room
    <2>3. ApprovedOf(Full) = {}
      <3>1. \A m \in ApprovedOf(Full) : m = l
        BY <1>4, <1>5, <2>1 DEF Room
      <3>2. QED
        BY <1>3, <3>1 DEF ApprovedOf
    <2>4. H' = {}
      BY <1>1, <1>7, <2>2 DEF ApprovedOf, Leaves
    <2>5. ApprovedOf(Full)' = {l}
      BY <1>1, <2>1, <2>3 DEF ApprovedOf, Leaves
    <2>6. QED
      BY <1>2, <1>7, <2>2, <2>3, <2>4, <2>5
  <1>8. QED
    BY <1>6, <1>7

LEMMA LeaveCancelled ==
    ASSUME TypeInv, NEW h \in Requests, UnstampWrite(h)
    PROVE  LET l == op[h].leave IN
           /\ ApprovedOf(Full)' = ApprovedOf(Full) \ {l}
           /\ ApprovedOf(Half)' = ApprovedOf(Half) \ {l}
  <1>1. /\ leave \in [Leaves -> {"OPEN", "APPROVED", "CANCELLED"}]
        /\ leave' = [leave EXCEPT ![op[h].leave] = "CANCELLED"]
    BY DEF TypeInv, TypeOK, UnstampWrite
  <1>2. QED
    BY <1>1 DEF ApprovedOf, Leaves

LEMMA LeaveElse ==
    ASSUME [Next]_vars
    PROVE  leave' = leave \/ \E h \in Requests : \/ StampWrite(h) /\ ~Collides(op[h].seen.id)
                                                 \/ UnstampWrite(h)
  <1>1. ASSUME NEW h \in Requests,
               \/ Punch(h) \/ RecalculateRead(h) \/ RecalculateWrite(h)
               \/ (\E q \in Filings : FileRead(h, q)) \/ FileWrite(h) \/ FileRecord(h)
               \/ (\E to \in {"approved", "rejected"} : ReviewRead(h, to))
               \/ ReviewWrite(h) \/ WithdrawRead(h) \/ WithdrawWrite(h) \/ CloseRequests(h)
        PROVE  leave' = leave
    BY <1>1 DEF Punch, RecalculateRead, RecalculateWrite, FileRead, FileWrite, FileRecord,
                ReviewRead, ReviewWrite, WithdrawRead, WithdrawWrite, CloseRequests
  <1>2. ASSUME NEW h \in Requests,
               \/ ImportRead(h) \/ ImportWrite(h)
               \/ (\E range \in BOOLEAN : WfhRead(h, range)) \/ RangeLook(h) \/ WfhWrite(h)
               \/ OfficeRead(h) \/ OfficeWrite(h)
               \/ (\E to \in {"APPROVED", "REJECTED"} : DecideWfhRead(h, to))
               \/ DecideWfhWrite(h) \/ SweepWfh(h) \/ TellWfh(h)
               \/ (\E l \in Leaves : StampRead(h, l) \/ UnstampRead(h, l)) \/ GiveUp(h)
        PROVE  leave' = leave
    BY <1>2 DEF ImportRead, ImportWrite, WfhRead, RangeLook, WfhWrite, OfficeRead, OfficeWrite,
                DecideWfhRead, DecideWfhWrite, SweepWfh, TellWfh, StampRead, UnstampRead,
                GiveUp
  <1>3. ASSUME NEW h \in Requests, StampWrite(h), Collides(op[h].seen.id)
        PROVE  leave' = leave
    BY <1>3 DEF StampWrite
  <1>4. CASE UNCHANGED vars
    BY <1>4 DEF vars
  <1>5. QED
    BY <1>1, <1>2, <1>3, <1>4 DEF Next

\* A leave in a handler's hands was there, or is taken now.
LEMMA StampFrom ==
    ASSUME TypeInv, [Next]_vars, NEW k \in Requests, op'[k].kind \in OfALeave
    PROVE  \/ op'[k] = op[k]
           \/ \E l \in Leaves : StampRead(k, l) \/ UnstampRead(k, l)
  <1>1. op \in [Requests -> Ops] /\ Idle.kind = "idle"
    BY DEF TypeInv, SnapshotsKept, Idle
  <1>2. ASSUME NEW h \in Requests, NEW o, op' = [op EXCEPT ![h] = o], o.kind \notin OfALeave
        PROVE  op'[k] = op[k]
    BY <1>1, <1>2
  <1>3. ASSUME NEW h \in Requests, Finish(h)
        PROVE  op'[k] = op[k]
    BY <1>1, <1>2, <1>3 DEF Finish, OfALeave
  <1>4. ASSUME NEW h \in Requests,
               \/ RecalculateWrite(h) \/ FileRecord(h) \/ CloseRequests(h) \/ ImportWrite(h)
               \/ WfhWrite(h) \/ OfficeWrite(h) \/ TellWfh(h) \/ StampWrite(h)
               \/ UnstampWrite(h) \/ GiveUp(h)
        PROVE  Finish(h)
    BY <1>4 DEF RecalculateWrite, FileRecord, CloseRequests, ImportWrite, WfhWrite,
                OfficeWrite, TellWfh, StampWrite, UnstampWrite, GiveUp
  <1>5. ASSUME NEW h \in Requests,
               \/ Punch(h) \/ (\E q \in Filings : FileRead(h, q)) \/ FileWrite(h)
               \/ (\E to \in {"approved", "rejected"} : ReviewRead(h, to)) \/ ReviewWrite(h)
               \/ WithdrawRead(h) \/ WithdrawWrite(h)
        PROVE  op'[k] = op[k]
    <2>1. Finish(h) \/ \E o \in {op'[h]} : op' = [op EXCEPT ![h] = o] /\ o.kind \notin OfALeave
      BY <1>1, <1>5 DEF Punch, FileRead, FileWrite, ReviewRead, ReviewWrite, WithdrawRead,
                        WithdrawWrite, Start, Continue, OfALeave
    <2>2. QED
      BY <1>2, <1>3, <2>1
  <1>6. ASSUME NEW h \in Requests, RecalculateRead(h)
        PROVE  op'[k] = op[k]
    <2>1. Finish(h) \/ \E o \in {op'[h]} : op' = [op EXCEPT ![h] = o] /\ o.kind \notin OfALeave
      BY <1>1, <1>6 DEF RecalculateRead, Seen, Start, Continue, OfALeave
    <2>2. QED
      BY <1>2, <1>3, <2>1
  <1>7. ASSUME NEW h \in Requests,
               \/ ImportRead(h) \/ (\E range \in BOOLEAN : WfhRead(h, range)) \/ RangeLook(h)
               \/ OfficeRead(h) \/ (\E to \in {"APPROVED", "REJECTED"} : DecideWfhRead(h, to))
               \/ DecideWfhWrite(h) \/ SweepWfh(h)
        PROVE  op'[k] = op[k]
    <2>1. \E o \in {op'[h]} : op' = [op EXCEPT ![h] = o] /\ o.kind \notin OfALeave
      BY <1>1, <1>7 DEF ImportRead, WfhRead, RangeLook, OfficeRead, DecideWfhRead,
                        DecideWfhWrite, SweepWfh, Start, Continue, OfALeave
    <2>2. QED
      BY <1>2, <2>1
  <1>8. ASSUME NEW h \in Requests, NEW l \in Leaves, StampRead(h, l) \/ UnstampRead(h, l), h # k
        PROVE  op'[k] = op[k]
    BY <1>1, <1>8 DEF StampRead, UnstampRead, Start
  <1>9. CASE UNCHANGED vars
    BY <1>9 DEF vars
  <1>10. QED
    BY <1>3, <1>4, <1>5, <1>6, <1>7, <1>8, <1>9 DEF Next

\* Only the read of an approval claims more of the day.
LEMMA ClaimsShrink ==
    ASSUME TypeInv, ClaimsHeld, [Next]_vars, NEW l \in Leaves,
           ~\E h \in Requests : StampRead(h, l),
           leave'[l] = "APPROVED" \/ l \in Stamping'
    PROVE  leave[l] = "APPROVED" \/ l \in Stamping
  <1>1. /\ leave \in [Leaves -> {"OPEN", "APPROVED", "CANCELLED"}]
    BY DEF TypeInv, TypeOK
  <1>2. CASE l \in Stamping'
    <2>1. PICK k \in Requests : op'[k].kind = "stamp" /\ op'[k].leave = l
      BY <1>2 DEF Stamping, InFlight
    <2>2. CASE op'[k] = op[k]
      BY <2>1, <2>2 DEF Stamping, InFlight
    <2>3. ASSUME NEW m \in Leaves, StampRead(k, m) \/ UnstampRead(k, m)
          PROVE  FALSE
      <3>1. op \in [Requests -> Ops]
        BY DEF TypeInv, SnapshotsKept
      <3>2. op'[k].kind = "unstamp" \/ (op'[k].leave = m /\ StampRead(k, m))
        BY <2>3, <3>1 DEF StampRead, UnstampRead, Start
      <3>3. QED
        BY <2>1, <3>2
    <2>4. QED
      BY <2>1, <2>2, <2>3, StampFrom DEF OfALeave
  <1>3. CASE leave'[l] = "APPROVED" /\ leave[l] # "APPROVED"
    <2>1. PICK h \in Requests : StampWrite(h) \/ UnstampWrite(h)
      BY <1>3, LeaveElse
    <2>2. CASE StampWrite(h)
      <3>1. leave' = leave \/ leave' = [leave EXCEPT ![op[h].leave] = "APPROVED"]
        BY <2>2 DEF StampWrite
      <3>2. op[h].leave = l /\ op[h].kind = "stamp"
        BY <1>1, <1>3, <2>2, <3>1 DEF StampWrite
      <3>3. QED
        BY <3>2 DEF Stamping, InFlight
    <2>3. CASE UnstampWrite(h)
      BY <1>1, <1>3, <2>3 DEF UnstampWrite
    <2>4. QED
      BY <2>1, <2>2, <2>3
  <1>4. QED
    BY <1>2, <1>3

\* It claims what still fits.
LEMMA ClaimsGrow ==
    ASSUME TypeInv, ClaimsHeld, NEW h \in Requests, NEW l \in Leaves, StampRead(h, l)
    PROVE  Room(Claimed(Full) \cup ({l} \cap Full), Claimed(Half) \cup ({l} \cap Half))
  <1> DEFINE F == Claimed(Full)
             H == Claimed(Half)
             taken == ApprovedOf(Full) \cup ApprovedOf(Half) \cup Stamping
  <1>1. Room(F, H)
    BY DEF ClaimsHeld
  <1>2. taken \cap Full = {} /\ (IF l \in Half THEN Cardinality(taken) < 2 ELSE taken = {})
    BY DEF StampRead, FitsWith
  <1>3. Stamping \subseteq Leaves
    BY Snapshots DEF TypeInv, SnapshotsKept, Stamping, InFlight, OfALeave
  <1>4. F = {} /\ H = taken
    BY <1>2, <1>3, DayAssumption DEF Claimed, ApprovedOf, Leaves
  <1> HIDE DEF F, H, taken
  <1>5. CASE l \in Half
    <2>1. l \notin Full
      BY <1>5, DayAssumption
    <2>2. IsFiniteSet(H) /\ Cardinality(H) \in 0..2 /\ Cardinality(H) < 2
      BY <1>1, <1>2, <1>4, <1>5 DEF Room
    <2>3. /\ IsFiniteSet(H \cup {l})
          /\ Cardinality(H \cup {l}) = Cardinality(H) \/ Cardinality(H \cup {l}) = Cardinality(H) + 1
      <3>1. CASE l \in H
        <4>1. H \cup {l} = H
          BY <3>1
        <4>2. QED
          BY <2>2, <4>1
      <3>2. CASE l \notin H
        BY <2>2, <3>2, FS_AddElement
      <3>3. QED
        BY <3>1, <3>2
    <2>4. Cardinality(H \cup {l}) \in 0..2
      BY <2>2, <2>3
    <2>5. Room({}, H \cup {l})
      BY <2>3, <2>4, FS_EmptySet DEF Room
    <2>6. F \cup ({l} \cap Full) = {} /\ H \cup ({l} \cap Half) = H \cup {l}
      BY <1>4, <1>5, <2>1
    <2>7. QED
      BY <2>5, <2>6 DEF F, H
  <1>6. CASE l \notin Half
    <2>1. F \cup ({l} \cap Full) = {l} /\ H \cup ({l} \cap Half) = {}
      BY <1>2, <1>4, <1>6 DEF Leaves
    <2>2. IsFiniteSet({l}) /\ IsFiniteSet({}) /\ Cardinality({}) = 0
      BY FS_EmptySet, FS_Singleton
    <2>3. \A m, n \in {l} : m = n
      OBVIOUS
    <2>4. Room({l}, {})
      BY <2>2, <2>3 DEF Room
    <2>5. QED
      BY <2>1, <2>4 DEF F, H
  <1>7. QED
    BY <1>5, <1>6

LEMMA ClaimsStep == TypeInv /\ ClaimsHeld /\ [Next]_vars => ClaimsHeld'
  <1> SUFFICES ASSUME TypeInv, ClaimsHeld, [Next]_vars PROVE ClaimsHeld'
    OBVIOUS
  <1>0. /\ op \in [Requests -> Ops] /\ op' \in [Requests -> Ops] /\ Idle.kind = "idle"
        /\ leave \in [Leaves -> {"OPEN", "APPROVED", "CANCELLED"}]
    BY SnapshotStep DEF TypeInv, TypeOK, SnapshotsKept, Idle
  <1>1. ASSUME NEW h \in InFlight(OfALeave)', NEW k \in InFlight(OfALeave)',
               op'[h].leave = op'[k].leave
        PROVE  h = k
    <2> DEFINE Begins(j) == \E l \in Leaves : StampRead(j, l) \/ UnstampRead(j, l)
    <2>1. /\ h \in Requests /\ op'[h].kind \in OfALeave
          /\ k \in Requests /\ op'[k].kind \in OfALeave
      BY DEF InFlight
    <2>2. ASSUME NEW i \in Requests, NEW j \in Requests, Begins(i), i # j,
                 op'[i].leave = op'[j].leave, op'[j].kind \in OfALeave
          PROVE  FALSE
      <3>1. PICK l \in Leaves : StampRead(i, l) \/ UnstampRead(i, l)
        BY <2>2
      <3>2. op'[i].leave = l /\ op'[j] = op[j] /\ l \notin Held
        BY <1>0, <2>2, <3>1 DEF StampRead, UnstampRead, Start
      <3>3. QED
        BY <2>2, <3>2 DEF Held, InFlight, OfALeave
    <2>3. CASE Begins(h) \/ Begins(k)
      BY <1>1, <2>1, <2>2, <2>3
    <2>4. CASE op'[h] = op[h] /\ op'[k] = op[k]
      BY <1>1, <2>1, <2>4 DEF ClaimsHeld, InFlight
    <2>5. QED
      BY <2>1, <2>3, <2>4, StampFrom
  <1>2. ASSUME NEW k \in InFlight({"stamp"})'
        PROVE  leave'[op'[k].leave] = "OPEN"
    <2>1. k \in Requests /\ op'[k].kind = "stamp"
      BY <1>2 DEF InFlight
    <2>2. CASE op'[k] = op[k]
      <3>1. op[k].kind = "stamp" /\ leave[op[k].leave] = "OPEN"
        BY <2>1, <2>2 DEF ClaimsHeld, InFlight
      <3>2. CASE leave' = leave
        BY <2>2, <3>1, <3>2
      <3>3. ASSUME NEW h \in Requests, StampWrite(h) \/ UnstampWrite(h)
            PROVE  leave'[op'[k].leave] = "OPEN"
        <4>1. op[h].kind \in OfALeave /\ op' = [op EXCEPT ![h] = Idle]
          BY <3>3 DEF StampWrite, UnstampWrite, OfALeave, Finish
        <4>2. h # k
          BY <1>0, <2>1, <4>1
        <4>3. op[h].leave # op[k].leave
          BY <3>1, <4>1, <4>2 DEF ClaimsHeld, InFlight, OfALeave
        <4>4. \/ leave' = leave
              \/ \E s \in {"APPROVED", "CANCELLED"} : leave' = [leave EXCEPT ![op[h].leave] = s]
          BY <3>3 DEF StampWrite, UnstampWrite
        <4>5. op[k].leave \in Leaves
          BY <1>0, <2>1, <3>1, Snapshots DEF OfALeave
        <4>6. leave'[op[k].leave] = leave[op[k].leave]
          BY <1>0, <4>3, <4>4, <4>5
        <4>7. QED
          BY <2>2, <3>1, <4>6
      <3>4. QED
        BY <3>2, <3>3, LeaveElse
    <2>3. ASSUME NEW l \in Leaves, StampRead(k, l)
          PROVE  leave'[op'[k].leave] = "OPEN"
      BY <1>0, <2>3 DEF StampRead, Start
    <2>4. ASSUME NEW l \in Leaves, UnstampRead(k, l)
          PROVE  FALSE
      BY <1>0, <2>1, <2>4 DEF UnstampRead, Start
    <2>5. QED
      BY <2>1, <2>2, <2>3, <2>4, StampFrom DEF OfALeave
  <1>3. Room(Claimed(Full), Claimed(Half))'
    <2>0. Claimed(Full)' \subseteq Leaves /\ Claimed(Half)' \subseteq Leaves
      BY DEF Claimed, Leaves
    <2>1. CASE \E h \in Requests, l \in Leaves : StampRead(h, l)
      <3>1. PICK h \in Requests, l \in Leaves : StampRead(h, l)
        BY <2>1
      <3>2. op' = [op EXCEPT ![h] = [kind |-> "stamp", leave |-> l, seen |-> View]]
        BY <3>1 DEF StampRead, Start
      <3>3. ASSUME NEW j \in Requests, NEW m \in Leaves, StampRead(j, m)
            PROVE  m = l
        <4>1. op[j] = Idle /\ op' = [op EXCEPT ![j] = [kind |-> "stamp", leave |-> m,
                                                       seen |-> View]]
          BY <3>3 DEF StampRead, Start
        <4>2. op'[j] = [kind |-> "stamp", leave |-> m, seen |-> View]
          BY <1>0, <4>1
        <4>3. j = h
          BY <1>0, <3>2, <4>1, <4>2
        <4>4. QED
          BY <1>0, <3>2, <4>2, <4>3
      <3>4. /\ Claimed(Full)' \subseteq Claimed(Full) \cup ({l} \cap Full)
            /\ Claimed(Half)' \subseteq Claimed(Half) \cup ({l} \cap Half)
        <4>1. ASSUME NEW m \in Leaves, m # l, leave'[m] = "APPROVED" \/ m \in Stamping'
              PROVE  leave[m] = "APPROVED" \/ m \in Stamping
          BY <3>3, <4>1, ClaimsShrink
        <4>2. ASSUME NEW kind \in SUBSET Leaves
              PROVE  Claimed(kind)' \subseteq Claimed(kind) \cup ({l} \cap kind)
          <5>1. ASSUME NEW m \in Claimed(kind)', m # l
                PROVE  m \in Claimed(kind)
            BY <4>1, <5>1 DEF Claimed
          <5>2. Claimed(kind)' \subseteq kind
            BY DEF Claimed
          <5>3. QED
            BY <5>1, <5>2
        <4>3. Full \in SUBSET Leaves /\ Half \in SUBSET Leaves
          BY DEF Leaves
        <4>4. QED
          BY <4>2, <4>3
      <3>5. Room(Claimed(Full) \cup ({l} \cap Full), Claimed(Half) \cup ({l} \cap Half))
        BY <3>1, ClaimsGrow
      <3>6. Room(Claimed(Full)', Claimed(Half)')
        <4> DEFINE full == Claimed(Full) \cup ({l} \cap Full)
                   half == Claimed(Half) \cup ({l} \cap Half)
                   f == Claimed(Full)'
                   g == Claimed(Half)'
        <4>1. Room(full, half) /\ f \subseteq full /\ g \subseteq half
          BY <3>4, <3>5
        <4> HIDE DEF full, half, f, g
        <4>2. Room(f, g)
          BY <4>1, LessRoom
        <4>3. QED
          BY <4>2 DEF f, g
      <3>7. QED
        BY <3>6 DEF Room
    <2>2. CASE ~\E h \in Requests, l \in Leaves : StampRead(h, l)
      <3>1. Claimed(Full)' \subseteq Claimed(Full) /\ Claimed(Half)' \subseteq Claimed(Half)
        BY <2>0, <2>2, ClaimsShrink DEF Claimed
      <3>2. QED
        BY <3>1, LessRoom DEF ClaimsHeld
    <2>3. QED
      BY <2>1, <2>2
  <1>4. QED
    BY <1>1, <1>2, <1>3 DEF ClaimsHeld

\* A stamp stands for leave there is, half a day for half a day; no stamp hides another.
StampsTell ==
    races = {} =>
        /\ ~HasRow => ApprovedOf(Full) = {} /\ ApprovedOf(Half) = {}
        /\ IsHalfStamp(day) => ApprovedOf(Half) # {}
        /\ IsStamp(day) /\ ~IsHalfStamp(day) => LeaveShare = 2
        /\ day.status = "HALF_DAY" => IsStamp(day)
        /\ day.kept.status # "HALF_DAY"
        /\ ~(day.kept.source = "SYSTEM" /\ day.kept.status = "ON_LEAVE")

\* Steps that leave the leave alone, and put no stamp.
LEMMA StampsSame ==
    ASSUME StampsTell, races' = {}, races = {}, leave' = leave,
           day'.id = 0 => day.id = 0,
           \/ day'.status = day.status /\ day'.source = day.source
           \/ day'.status # "HALF_DAY" /\ day'.source # "SYSTEM"
           \/ day'.status = "ABSENT",
           day'.kept = day.kept \/ day'.kept = [status |-> "PRESENT", source |-> "EXCEL_IMPORT"]
    PROVE  StampsTell'
  <1>1. ApprovedOf(Full)' = ApprovedOf(Full) /\ ApprovedOf(Half)' = ApprovedOf(Half)
    BY DEF ApprovedOf
  <1>2. LeaveShare' = LeaveShare
    BY <1>1 DEF LeaveShare
  <1>3. HasRow => HasRow'
    BY DEF HasRow
  <1>4. IsStamp(day)' => /\ IsStamp(day) /\ day'.status = day.status
    BY DEF IsStamp
  <1>5. day'.status = "HALF_DAY" => day.status = "HALF_DAY" /\ (IsStamp(day) => IsStamp(day)')
    BY DEF IsStamp
  <1>6. day'.kept.status # "HALF_DAY" /\ ~(day'.kept.source = "SYSTEM" /\ day'.kept.status = "ON_LEAVE")
    BY DEF StampsTell
  <1>7. QED
    BY <1>1, <1>2, <1>3, <1>4, <1>5, <1>6 DEF StampsTell, IsHalfStamp

\* A leave that comes second is the other half of a day.
LEMMA StampsOverlap ==
    ASSUME StampsTell, races = {}, IsStamp(day), NEW l, ApprovedOf(Full) = {},
           l \in Half => Cardinality(ApprovedOf(Half)) < 2,
           l \notin Half => ApprovedOf(Half) = {}
    PROVE  l \in Half /\ IsHalfStamp(day)
  <1>1. CASE IsHalfStamp(day)
    BY <1>1 DEF StampsTell
  <1>2. CASE ~IsHalfStamp(day)
    <2>1. LeaveShare = 2
      BY <1>2 DEF StampsTell
    <2>2. Cardinality(ApprovedOf(Half)) = 2
      BY <2>1 DEF LeaveShare
    <2>3. QED
      BY <2>2, FS_EmptySet
  <1>3. QED
    BY <1>1, <1>2

LEMMA StampsApprove ==
    ASSUME TypeInv, ClaimsHeld, StampsTell, races' = {}, races = {},
           NEW h \in Requests, StampWrite(h), ~Collides(op[h].seen.id)
    PROVE  StampsTell'
  <1> DEFINE l == op[h].leave
             other == l \in Half /\ IsHalfStamp(day)
  <1>0. LeavesHeld
    BY ClaimsLeaves
  <1>1. /\ day'.id # 0 /\ day'.source = "SYSTEM"
        /\ HasRow /\ other => day'.status = "ON_LEAVE" /\ day'.kept = day.kept
        /\ HasRow /\ ~other => day'.status = StampOf(l) /\ day'.kept = Remembered(day)
        /\ ~HasRow => day'.status = StampOf(l) /\ day'.kept = NotKept
    BY StampStep
  <1> HIDE DEF l
  <1>2. IsStamp(day)'
    BY <1>1 DEF IsStamp, StampOf
  <1>3. day'.status = "HALF_DAY" => l \in Half
    BY <1>1 DEF StampOf
  <1>4. l \in Half => ApprovedOf(Half)' # {}
    BY LeaveApproved DEF l
  <1>5. l \notin Half => LeaveShare' = 2
    BY LeaveApproved DEF LeaveShare, l
  <1>6. HasRow /\ other => LeaveShare' = 2
    <2> SUFFICES ASSUME HasRow, other PROVE LeaveShare' = 2
      OBVIOUS
    <2>1. ApprovedOf(Half) # {}
      BY DEF StampsTell
    <2>2. /\ Cardinality(ApprovedOf(Half)) < 2 /\ IsFiniteSet(ApprovedOf(Half))
          /\ Cardinality(ApprovedOf(Half)) \in 0..2
      BY <1>0, LeaveApproved DEF LeavesHeld, Room, l
    <2>3. Cardinality(ApprovedOf(Half)) = 1
      BY <2>1, <2>2, FS_EmptySet
    <2>4. /\ ApprovedOf(Half)' = ApprovedOf(Half) \cup {l} /\ ApprovedOf(Full)' = {}
          /\ l \notin ApprovedOf(Half)
      BY LeaveApproved DEF l
    <2> DEFINE H == ApprovedOf(Half)
    <2>5. Cardinality(H \cup {l}) = 2
      <3>1. IsFiniteSet(H) /\ Cardinality(H) = 1 /\ l \notin H
        BY <2>2, <2>3, <2>4
      <3> HIDE DEF H
      <3>2. Cardinality(H \cup {l}) = Cardinality(H) + 1
        BY <3>1, FS_AddElement
      <3>3. QED
        BY <3>1, <3>2
    <2>6. QED
      BY <2>4, <2>5 DEF LeaveShare
  <1>7. day'.status # "HALF_DAY" => LeaveShare' = 2
    BY <1>1, <1>5, <1>6 DEF StampOf
  <1>8. ~other => ~IsStamp(day)
    <2>1. /\ ApprovedOf(Full) = {}
          /\ l \in Half => Cardinality(ApprovedOf(Half)) < 2
          /\ l \notin Half => ApprovedOf(Half) = {}
      BY LeaveApproved DEF l
    <2>2. ASSUME IsStamp(day) PROVE l \in Half /\ IsHalfStamp(day)
      BY <2>1, <2>2, StampsOverlap
    <2>3. QED
      BY <2>2
  <1>9. day'.kept.status # "HALF_DAY" /\ ~(day'.kept.source = "SYSTEM" /\ day'.kept.status = "ON_LEAVE")
    <2>1. CASE ~HasRow
      BY <1>1, <2>1 DEF NotKept
    <2>2. CASE HasRow /\ other
      BY <1>1, <2>2 DEF StampsTell
    <2>3. CASE HasRow /\ ~other
      <3>1. ~IsStamp(day) /\ day'.kept = Remembered(day)
        BY <1>1, <1>8, <2>3
      <3>2. day.status # "HALF_DAY" /\ ~(day.source = "SYSTEM" /\ day.status = "ON_LEAVE")
        BY <3>1 DEF StampsTell, IsStamp
      <3>3. QED
        BY <3>1, <3>2 DEF StampsTell, Remembered
    <2>4. QED
      BY <2>1, <2>2, <2>3
  <1>10. HasRow'
    BY <1>1 DEF HasRow
  <1>11. QED
    BY <1>2, <1>3, <1>4, <1>7, <1>9, <1>10 DEF StampsTell, IsHalfStamp

LEMMA StampsCancel ==
    ASSUME TypeInv, StampsTell, races' = {}, races = {},
           NEW h \in Requests, UnstampWrite(h)
    PROVE  StampsTell'
  <1> DEFINE l == op[h].leave
             others == (ApprovedOf(Full) \cup ApprovedOf(Half)) \ {l}
  <1>0. others = Others(l)
    BY DEF Others
  <1>1. /\ ApprovedOf(Full)' = ApprovedOf(Full) \ {l}
        /\ ApprovedOf(Half)' = ApprovedOf(Half) \ {l}
    BY LeaveCancelled
  <1>2. CASE ~(HasRow /\ IsStamp(day))
    <2>1. day' = day
      BY <1>0, <1>2, UnstampStep
    <2>2. ~IsStamp(day)
      BY <1>2 DEF HasRow, IsStamp, TypeInv, RowKept, NoDay
    <2>3. QED
      BY <1>1, <2>1, <2>2 DEF StampsTell, HasRow, IsStamp, IsHalfStamp
  <1>3. CASE HasRow /\ IsStamp(day) /\ others # {}
    <2>1. /\ day'.id = day.id /\ day'.source = day.source /\ day'.kept = day.kept
          /\ day'.status = IF others \subseteq Half THEN "HALF_DAY" ELSE "ON_LEAVE"
      BY <1>0, <1>3, UnstampStep
    <2>2. HasRow' /\ IsStamp(day)'
      BY <1>3, <2>1 DEF HasRow, IsStamp
    <2>3. CASE others \subseteq Half
      <3>1. ApprovedOf(Half)' # {} /\ day'.status = "HALF_DAY"
        BY <1>1, <1>3, <2>1, <2>3, DayAssumption DEF ApprovedOf
      <3>2. QED
        BY <2>1, <2>2, <3>1 DEF StampsTell, IsHalfStamp
    <2>4. CASE ~(others \subseteq Half)
      <3>1. ApprovedOf(Full)' # {} /\ day'.status = "ON_LEAVE"
        BY <1>1, <2>1, <2>4 DEF ApprovedOf
      <3>2. LeaveShare' = 2
        BY <3>1 DEF LeaveShare
      <3>3. QED
        BY <2>1, <2>2, <3>1, <3>2 DEF StampsTell, IsHalfStamp
    <2>5. QED
      BY <2>3, <2>4
  <1>4. CASE HasRow /\ IsStamp(day) /\ others = {} /\ day.kept = NotKept
    <2>1. day' = NoDay
      BY <1>0, <1>4, UnstampStep
    <2>2. /\ NoDay.id = 0 /\ NoDay.status = "ABSENT" /\ NoDay.kept.status = "null"
          /\ NoDay.kept.source = "null"
      BY DEF NoDay, NotKept
    <2>3. ~IsStamp(day)'
      BY <2>1, <2>2 DEF IsStamp
    <2>4. QED
      BY <1>1, <1>4, <2>1, <2>2, <2>3 DEF StampsTell, IsHalfStamp
  <1>5. CASE HasRow /\ IsStamp(day) /\ others = {} /\ day.kept # NotKept
    <2>1. /\ day'.id = day.id /\ day'.status = day.kept.status
          /\ day'.source = day.kept.source /\ day'.kept = NotKept
      BY <1>0, <1>5, UnstampStep
    <2>2. HasRow' /\ ~IsStamp(day)' /\ day'.status # "HALF_DAY"
      BY <1>5, <2>1 DEF StampsTell, HasRow, IsStamp
    <2>3. QED
      BY <2>1, <2>2 DEF StampsTell, IsHalfStamp, NotKept
  <1>6. QED
    BY <1>2, <1>3, <1>4, <1>5

\* Under the windows: a sweep or a recalculation never writes half a day.
LEMMA StampsStep == TypeInv /\ ClaimsHeld /\ StampsTell /\ [Next]_vars => StampsTell'
  <1> SUFFICES ASSUME TypeInv, ClaimsHeld, StampsTell, [Next]_vars, races' = {}
               PROVE  StampsTell'
    BY DEF StampsTell
  <1>0. races = {} /\ RowKept /\ made \in Nat
    BY RacesGrow DEF TypeInv, RowKept
  <1>1. ASSUME NEW h \in Requests, StampWrite(h), ~Collides(op[h].seen.id) PROVE StampsTell'
    BY <1>0, <1>1, StampsApprove
  <1>2. ASSUME NEW h \in Requests, UnstampWrite(h) PROVE StampsTell'
    BY <1>0, <1>2, StampsCancel
  <1>3. ASSUME leave' = leave, day' = day PROVE StampsTell'
    BY <1>0, <1>3, StampsSame
  <1>4. ASSUME leave' = leave, NEW h \in Requests, RecalculateWrite(h)
        PROVE  StampsTell'
    <2>1. CASE day' = day
      BY <1>3, <1>4, <2>1
    <2>2. CASE day' # day
      <3>1. op[h].id = day.id /\ day'.id # 0 /\ day'.source = "FACE_API"
            /\ day'.status = Outcome(op[h].punches, op[h].leave) /\ day'.kept = day.kept
        BY <1>4, <2>2, RecalculateWriteStep
      <3>2. op[h] \in Ops /\ day \in DayRows
        BY DEF TypeInv, SnapshotsKept, RowKept
      <3>3. day'.status # "HALF_DAY"
        <4>1. /\ op[h].punches \in 0..MaxPunches /\ op[h].leave \in {"none", "half", "full"}
          BY <1>4, <3>2, Snapshots DEF RecalculateWrite
        <4>2. Judged(op[h].punches, op[h].leave).status = Outcome(op[h].punches, op[h].leave)
          BY <3>2, <4>1, JudgedRow
        <4>3. QED
          BY <1>4, <3>1, <4>2 DEF RecalculateWrite, Fell, When
      <3>4. QED
        BY <1>0, <1>4, <3>1, <3>3, StampsSame
    <2>3. QED
      BY <2>1, <2>2
  <1>5. ASSUME leave' = leave, NEW h \in Requests, FileWrite(h) \/ ReviewWrite(h)
                   \/ WithdrawWrite(h) \/ WfhWrite(h) \/ OfficeWrite(h) \/ DecideWfhWrite(h)
        PROVE  StampsTell'
    <2>1. /\ day'.id = 0 => day.id = 0
          /\ \/ day'.status = day.status /\ day'.source = day.source
             \/ day'.status # "HALF_DAY" /\ day'.source # "SYSTEM"
             \/ day'.status = "ABSENT"
          /\ day'.kept = day.kept
      BY <1>0, <1>5, FileWriteStep, ReviewWriteStep, WithdrawWriteStep, WfhWriteStep,
         OfficeWriteStep, DecideWfhWriteStep
    <2>2. QED
      BY <1>0, <1>5, <2>1, StampsSame
  <1>6. ASSUME leave' = leave, NEW h \in Requests, ImportWrite(h)
        PROVE  StampsTell'
    <2>1. /\ day'.id = 0 => day.id = 0
          /\ \/ day'.status = day.status /\ day'.source = day.source
             \/ day'.status # "HALF_DAY" /\ day'.source # "SYSTEM"
          /\ \/ day'.kept = day.kept
             \/ day'.kept = [status |-> "PRESENT", source |-> "EXCEL_IMPORT"]
      BY <1>6, ImportWriteStep
    <2>2. QED
      BY <1>0, <1>6, <2>1, StampsSame
  <1>7. ASSUME leave' = leave, NEW h \in Requests, SweepWfh(h)
        PROVE  StampsTell'
    <2>1. /\ day'.id = day.id /\ day'.status = day.status /\ day'.source = day.source
          /\ day'.kept = day.kept
      BY <1>7, SweepWfhStep
    <2>2. QED
      BY <1>0, <1>7, <2>1, StampsSame
  <1>8. ASSUME NEW h \in Requests, StampWrite(h), Collides(op[h].seen.id)
        PROVE  StampsTell'
    BY <1>3, <1>8 DEF StampWrite
  <1>9. CASE leave' = leave
    BY <1>1, <1>2, <1>3, <1>4, <1>5, <1>6, <1>7, <1>8, <1>9, Steps, ElsewhereStep DEF vars
  <1>10. QED
    BY <1>1, <1>2, <1>9, LeaveElse

-----------------------------------------------------------------------------
(* Pay: work *)

\* What the row says of the work, under a stamp what the stamp hides.
Base == IF ~HasRow THEN "ABSENT" ELSE IF IsStamp(day) THEN day.kept.status ELSE day.status

\* A punch leaves a mark and a recalculation to come; then the row says what was worked.
WorkHeld ==
    /\ punches > 0 => mark # "none"
    /\ \A h \in Requests : op[h].kind \in {"punched", "judge"} => punches > 0
    /\ AllJudged /\ races = {} => (Base = "PRESENT" <=> Worked)

\* Who has a recalculation to do had one before, or took a punch.
LEMMA JudgeFrom ==
    ASSUME TypeInv, [Next]_vars, NEW k \in Requests, op'[k].kind \in {"punched", "judge"}
    PROVE  op[k].kind \in {"punched", "judge"} \/ Punch(k)
  <1>1. op \in [Requests -> Ops] /\ Idle.kind = "idle"
    BY DEF TypeInv, SnapshotsKept, Idle
  <1>2. CASE op'[k] = op[k]
    BY <1>2
  <1>3. ASSUME NEW h \in Requests, NEW o, op' = [op EXCEPT ![h] = o],
               o.kind \notin {"punched", "judge"}
        PROVE  op'[k] = op[k]
    BY <1>1, <1>3
  <1>4. ASSUME NEW h \in Requests, Finish(h)
        PROVE  op'[k] = op[k]
    BY <1>1, <1>3, <1>4 DEF Finish
  <1>5. ASSUME NEW h \in Requests, RecalculateRead(h)
        PROVE  op'[k] = op[k] \/ op[k].kind = "punched"
    <2>1. CASE op[h].kind = "punched"
      <3>1. Finish(h) \/ op' = [op EXCEPT ![h] = Seen("judge")]
        BY <1>1, <1>5, <2>1 DEF RecalculateRead, Continue, Start
      <3>2. CASE op' = [op EXCEPT ![h] = Seen("judge")]
        BY <1>1, <2>1, <3>2
      <3>3. QED
        BY <1>4, <3>1, <3>2
    <2>2. CASE op[h].kind # "punched"
      <3>1. op' = [op EXCEPT ![h] = Seen("sweep")] /\ Seen("sweep").kind = "sweep"
        BY <1>5, <2>2 DEF RecalculateRead, Start, Seen
      <3>2. QED
        BY <1>3, <3>1
    <2>3. QED
      BY <2>1, <2>2
  <1>6. ASSUME NEW h \in Requests, Punch(h)
        PROVE  Punch(k) \/ op'[k] = op[k]
    BY <1>1, <1>6 DEF Punch, Start
  <1>7. ASSUME NEW h \in Requests,
               \/ RecalculateWrite(h) \/ FileRecord(h) \/ CloseRequests(h) \/ ImportWrite(h)
               \/ WfhWrite(h) \/ OfficeWrite(h) \/ TellWfh(h) \/ StampWrite(h)
               \/ UnstampWrite(h) \/ GiveUp(h)
        PROVE  op'[k] = op[k]
    <2>1. Finish(h)
      BY <1>7 DEF RecalculateWrite, FileRecord, CloseRequests, ImportWrite, WfhWrite,
                  OfficeWrite, TellWfh, StampWrite, UnstampWrite, GiveUp
    <2>2. QED
      BY <1>4, <2>1
  <1>8. ASSUME NEW h \in Requests,
               \/ (\E q \in Filings : FileRead(h, q)) \/ FileWrite(h) \/ ReviewWrite(h)
               \/ WithdrawWrite(h)
        PROVE  op'[k] = op[k]
    <2>1. Finish(h) \/ \E o \in {op'[h]} : /\ op' = [op EXCEPT ![h] = o]
                                           /\ o.kind \in {"file", "filed", "close"}
      BY <1>1, <1>8 DEF FileRead, FileWrite, ReviewWrite, WithdrawWrite, Start, Continue
    <2>2. QED
      BY <1>3, <1>4, <2>1
  <1>9. ASSUME NEW h \in Requests,
               \/ (\E to \in {"approved", "rejected"} : ReviewRead(h, to))
               \/ WithdrawRead(h) \/ ImportRead(h) \/ OfficeRead(h)
               \/ (\E l \in Leaves : StampRead(h, l) \/ UnstampRead(h, l))
        PROVE  op'[k] = op[k]
    <2>1. \E o \in {op'[h]} : /\ op' = [op EXCEPT ![h] = o]
                              /\ o.kind \in {"review", "withdraw", "import", "office", "stamp",
                                             "unstamp"}
      BY <1>1, <1>9 DEF ReviewRead, WithdrawRead, ImportRead, OfficeRead, StampRead,
                        UnstampRead, Start
    <2>2. QED
      BY <1>3, <2>1
  <1>10. ASSUME NEW h \in Requests,
                \/ (\E range \in BOOLEAN : WfhRead(h, range)) \/ RangeLook(h)
                \/ (\E to \in {"APPROVED", "REJECTED"} : DecideWfhRead(h, to))
                \/ DecideWfhWrite(h) \/ SweepWfh(h)
         PROVE  op'[k] = op[k]
    <2>1. \E o \in {op'[h]} : /\ op' = [op EXCEPT ![h] = o]
                              /\ o.kind \in {"days", "wfh", "decide", "tell"}
      BY <1>1, <1>10 DEF WfhRead, RangeLook, DecideWfhRead, DecideWfhWrite, SweepWfh, Start,
                         Continue
    <2>2. QED
      BY <1>3, <2>1
  <1>11. CASE UNCHANGED vars
    BY <1>11 DEF vars
  <1>12. QED
    BY <1>2, <1>5, <1>6, <1>7, <1>8, <1>9, <1>10, <1>11 DEF Next

\* A recalculation that is owed stays owed, outside the windows, until it is written.
LEMMA JudgeKept ==
    ASSUME TypeInv, WorkHeld, [Next]_vars, races' = {},
           NEW k \in Requests, op[k].kind \in {"punched", "judge"}
    PROVE  op'[k].kind \in {"punched", "judge"} \/ RecalculateWrite(k)
  <1>1. op \in [Requests -> Ops] /\ op[k] # Idle /\ punches > 0
    BY DEF TypeInv, SnapshotsKept, Idle, WorkHeld
  <1>2. ASSUME NEW h \in Requests, NEW o, op' = [op EXCEPT ![h] = o], k # h
        PROVE  op'[k] = op[k]
    BY <1>1, <1>2
  <1>3. ASSUME NEW h \in Requests,
               \/ Punch(h) \/ (\E q \in Filings : FileRead(h, q))
               \/ (\E to \in {"approved", "rejected"} : ReviewRead(h, to))
               \/ WithdrawRead(h) \/ ImportRead(h)
               \/ (\E range \in BOOLEAN : WfhRead(h, range)) \/ OfficeRead(h)
               \/ (\E to \in {"APPROVED", "REJECTED"} : DecideWfhRead(h, to)) \/ SweepWfh(h)
               \/ (\E l \in Leaves : StampRead(h, l) \/ UnstampRead(h, l))
        PROVE  op'[k] = op[k]
    <2>1. op[h] = Idle /\ \E o \in {op'[h]} : op' = [op EXCEPT ![h] = o]
      BY <1>1, <1>3 DEF Punch, FileRead, ReviewRead, WithdrawRead, ImportRead, WfhRead,
                        OfficeRead, DecideWfhRead, SweepWfh, StampRead, UnstampRead, Start
    <2>2. QED
      BY <1>1, <1>2, <2>1
  <1>4. ASSUME NEW h \in Requests,
               \/ FileWrite(h) \/ FileRecord(h) \/ ReviewWrite(h) \/ WithdrawWrite(h)
               \/ CloseRequests(h) \/ ImportWrite(h) \/ RangeLook(h) \/ WfhWrite(h)
               \/ OfficeWrite(h) \/ DecideWfhWrite(h) \/ TellWfh(h) \/ StampWrite(h)
               \/ UnstampWrite(h)
        PROVE  op'[k] = op[k]
    <2>1. /\ op[h].kind \notin {"punched", "judge"}
          /\ \E o \in {op'[h]} : op' = [op EXCEPT ![h] = o]
      BY <1>1, <1>4 DEF FileWrite, FileRecord, ReviewWrite, WithdrawWrite, CloseRequests,
                        ImportWrite, RangeLook, WfhWrite, OfficeWrite, DecideWfhWrite,
                        TellWfh, StampWrite, UnstampWrite, Finish, Continue
    <2>2. QED
      BY <1>1, <1>2, <2>1
  <1>5. ASSUME NEW h \in Requests, GiveUp(h)
        PROVE  op'[k] = op[k]
    BY <1>1, <1>2, <1>5 DEF GiveUp, Finish, Fell, When
  <1>6. ASSUME NEW h \in Requests, RecalculateWrite(h)
        PROVE  RecalculateWrite(k) \/ op'[k] = op[k]
    BY <1>1, <1>2, <1>6 DEF RecalculateWrite, Finish
  <1>7. ASSUME NEW h \in Requests, RecalculateRead(h)
        PROVE  op'[k].kind \in {"punched", "judge"}
    <2>1. CASE k # h
      BY <1>1, <1>2, <1>7, <2>1 DEF RecalculateRead, Start, Continue, Finish
    <2>2. CASE k = h
      <3>1. ~Spared
        BY <1>1 DEF Spared, TypeInv, TypeOK
      <3>2. op' = [op EXCEPT ![k] = Seen("judge")] /\ Seen("judge").kind = "judge"
        BY <1>1, <1>7, <2>2, <3>1 DEF RecalculateRead, Start, Continue, Seen
      <3>3. QED
        BY <1>1, <3>2
    <2>3. QED
      BY <2>1, <2>2
  <1>8. CASE UNCHANGED vars
    BY <1>8 DEF vars
  <1>9. QED
    BY <1>3, <1>4, <1>5, <1>6, <1>7, <1>8 DEF Next

\* Who says how the day was worked.
LEMMA WorkElse ==
    ASSUME [Next]_vars
    PROVE  \/ punches' = punches /\ mark' = mark
           \/ \E h \in Requests : Punch(h) \/ ReviewWrite(h) \/ ImportWrite(h)
  <1>1. ASSUME NEW h \in Requests,
               \/ RecalculateRead(h) \/ RecalculateWrite(h)
               \/ (\E q \in Filings : FileRead(h, q)) \/ FileWrite(h) \/ FileRecord(h)
               \/ (\E to \in {"approved", "rejected"} : ReviewRead(h, to))
               \/ WithdrawRead(h) \/ WithdrawWrite(h) \/ CloseRequests(h)
        PROVE  punches' = punches /\ mark' = mark
    BY <1>1 DEF RecalculateRead, RecalculateWrite, FileRead, FileWrite, FileRecord,
                ReviewRead, WithdrawRead, WithdrawWrite, CloseRequests
  <1>2. ASSUME NEW h \in Requests,
               \/ ImportRead(h)
               \/ (\E range \in BOOLEAN : WfhRead(h, range)) \/ RangeLook(h) \/ WfhWrite(h)
               \/ OfficeRead(h) \/ OfficeWrite(h)
               \/ (\E to \in {"APPROVED", "REJECTED"} : DecideWfhRead(h, to))
               \/ DecideWfhWrite(h) \/ SweepWfh(h) \/ TellWfh(h)
        PROVE  punches' = punches /\ mark' = mark
    BY <1>2 DEF ImportRead, WfhRead, RangeLook, WfhWrite, OfficeRead, OfficeWrite,
                DecideWfhRead, DecideWfhWrite, SweepWfh, TellWfh
  <1>3. ASSUME NEW h \in Requests,
               \/ (\E l \in Leaves : StampRead(h, l) \/ UnstampRead(h, l))
               \/ StampWrite(h) \/ UnstampWrite(h) \/ GiveUp(h)
        PROVE  punches' = punches /\ mark' = mark
    BY <1>3 DEF StampRead, UnstampRead, StampWrite, UnstampWrite, GiveUp
  <1>4. CASE UNCHANGED vars
    BY <1>4 DEF vars
  <1>5. QED
    BY <1>1, <1>2, <1>3, <1>4 DEF Next

\* The row is the same but for its request and its place, or is new and empty.
LEMMA BaseSame ==
    ASSUME \/ /\ day'.id = 0 <=> day.id = 0
              /\ day'.status = day.status /\ day'.source = day.source /\ day'.kept = day.kept
           \/ day.id = 0 /\ day'.status = "ABSENT"
    PROVE  Base' = Base
  BY DEF Base, HasRow, IsStamp

LEMMA BaseApprove ==
    ASSUME TypeInv, ClaimsHeld, StampsTell, races' = {}, races = {},
           NEW h \in Requests, StampWrite(h), ~Collides(op[h].seen.id)
    PROVE  Base' = "PRESENT" <=> Base = "PRESENT"
  <1> DEFINE l == op[h].leave
             other == l \in Half /\ IsHalfStamp(day)
  <1>1. /\ day'.id # 0 /\ day'.source = "SYSTEM"
        /\ HasRow /\ other => day'.status = "ON_LEAVE" /\ day'.kept = day.kept
        /\ HasRow /\ ~other => day'.status = StampOf(l) /\ day'.kept = Remembered(day)
        /\ ~HasRow => day'.status = StampOf(l) /\ day'.kept = NotKept
        /\ ~(HasRow /\ day.kept # NotKept /\ ~IsStamp(day))
    BY StampStep
  <1>2. HasRow' /\ IsStamp(day)'
    BY <1>1 DEF HasRow, IsStamp, StampOf
  <1>3. Base' = day'.kept.status
    BY <1>2 DEF Base
  <1>4. CASE ~HasRow
    BY <1>1, <1>3, <1>4 DEF Base, NotKept
  <1>5. CASE HasRow /\ other
    BY <1>1, <1>3, <1>5 DEF Base, IsHalfStamp
  <1>6. CASE HasRow /\ ~other
    <2>1. /\ ApprovedOf(Full) = {}
          /\ l \in Half => Cardinality(ApprovedOf(Half)) < 2
          /\ l \notin Half => ApprovedOf(Half) = {}
      BY LeaveApproved
    <2>2. ~IsStamp(day)
      <3>1. ASSUME IsStamp(day) PROVE l \in Half /\ IsHalfStamp(day)
        BY <2>1, <3>1, StampsOverlap
      <3>2. QED
        BY <1>6, <3>1
    <2>3. day.kept = NotKept
      BY <1>1, <1>6, <2>2
    <2>4. day'.kept.status = day.status
      BY <1>1, <1>6, <2>3 DEF Remembered
    <2>5. QED
      BY <1>3, <1>6, <2>2, <2>4 DEF Base
  <1>7. QED
    BY <1>4, <1>5, <1>6

LEMMA BaseCancel ==
    ASSUME TypeInv, StampsTell, races' = {}, races = {},
           NEW h \in Requests, UnstampWrite(h)
    PROVE  Base' = "PRESENT" <=> Base = "PRESENT"
  <1> DEFINE others == Others(op[h].leave)
  <1>1. CASE ~(HasRow /\ IsStamp(day))
    <2>1. day' = day
      BY <1>1, UnstampStep
    <2>2. QED
      BY <2>1, BaseSame
  <1>2. CASE HasRow /\ IsStamp(day) /\ others # {}
    <2>1. /\ day'.id = day.id /\ day'.source = day.source /\ day'.kept = day.kept
          /\ day'.status \in {"HALF_DAY", "ON_LEAVE"}
      BY <1>2, UnstampStep
    <2>2. HasRow' /\ IsStamp(day)'
      BY <1>2, <2>1 DEF HasRow, IsStamp
    <2>3. QED
      BY <1>2, <2>1, <2>2 DEF Base
  <1>3. CASE HasRow /\ IsStamp(day) /\ others = {} /\ day.kept = NotKept
    <2>1. day' = NoDay
      BY <1>3, UnstampStep
    <2>2. Base' = "ABSENT" /\ Base = "null"
      BY <1>3, <2>1 DEF Base, HasRow, NoDay, NotKept
    <2>3. QED
      BY <2>2
  <1>4. CASE HasRow /\ IsStamp(day) /\ others = {} /\ day.kept # NotKept
    <2>1. /\ day'.id = day.id /\ day'.status = day.kept.status
          /\ day'.source = day.kept.source
      BY <1>4, UnstampStep
    <2>2. HasRow' /\ ~IsStamp(day)'
      BY <1>4, <2>1 DEF StampsTell, HasRow, IsStamp
    <2>3. QED
      BY <1>4, <2>1, <2>2 DEF Base
  <1>5. QED
    BY <1>1, <1>2, <1>3, <1>4

\* A recalculation that found the row as it had read it writes what was worked.
LEMMA WorkJudged ==
    ASSUME TypeInv, WorkHeld, races' = {}, NEW h \in Requests, RecalculateWrite(h),
           op[h].id = day.id
    PROVE  Base' = "PRESENT" <=> Worked'
  <1>1. /\ op[h] \in Ops /\ punches \in 0..MaxPunches
        /\ mark \in {"none", "punch", "approved", "sheet"}
    BY DEF TypeInv, TypeOK, SnapshotsKept
  <1>2. op[h].punches = punches /\ op[h].leave \in {"none", "half", "full"}
    BY <1>1, Snapshots DEF RecalculateWrite, Fell, When
  <1>3. mark \in {"approved", "sheet"} => punches = 2
    BY <1>2 DEF RecalculateWrite, Fell, When
  <1>4. /\ day'.id # 0 /\ day'.source = "FACE_API"
        /\ day'.status = Outcome(op[h].punches, op[h].leave)
    BY RecalculateWriteStep
  <1>5. Base' = Outcome(punches, op[h].leave)
    BY <1>2, <1>4 DEF Base, HasRow, IsStamp
  <1>6. punches' = punches /\ mark' = mark
    BY DEF RecalculateWrite
  <1>7. Outcome(punches, op[h].leave) = "PRESENT" <=> punches = 2
    BY <1>1, <1>2 DEF Outcome, MaxPunches
  <1>8. Worked <=> punches = 2
    <2>1. punches > 0 => mark # "none"
      BY DEF WorkHeld
    <2>2. QED
      BY <1>1, <1>3, <2>1 DEF Worked
  <1>9. QED
    BY <1>5, <1>6, <1>7, <1>8 DEF Worked

LEMMA WorkStep ==
    TypeInv /\ ClaimsHeld /\ StampsTell /\ WorkHeld /\ [Next]_vars => WorkHeld'
  <1> SUFFICES ASSUME TypeInv, ClaimsHeld, StampsTell, WorkHeld, [Next]_vars
               PROVE  WorkHeld'
    OBVIOUS
  <1>0. /\ punches \in Nat
        /\ op \in [Requests -> Ops] /\ RowKept /\ made \in Nat
    BY DEF TypeInv, TypeOK, SnapshotsKept, RowKept, WorkHeld, MaxPunches
  <1>1. punches' \in Nat /\ punches' >= punches /\ (punches' > 0 => mark' # "none")
    <2>1. ASSUME NEW h \in Requests, Punch(h) PROVE punches' = punches + 1 /\ mark' = "punch"
      BY <2>1 DEF Punch
    <2>2. ASSUME NEW h \in Requests, ReviewWrite(h)
          PROVE  punches' = punches /\ mark' \in {mark, "approved"}
      BY <2>2 DEF ReviewWrite
    <2>3. ASSUME NEW h \in Requests, ImportWrite(h)
          PROVE  punches' = punches /\ mark' \in {mark, "sheet"}
      BY <2>3 DEF ImportWrite
    <2>4. punches > 0 => mark # "none"
      BY DEF WorkHeld
    <2>5. QED
      BY <1>0, <2>1, <2>2, <2>3, <2>4, WorkElse
  <1>2. ASSUME NEW k \in Requests, op'[k].kind \in {"punched", "judge"}
        PROVE  punches' > 0
    <2>1. CASE Punch(k)
      BY <1>0, <2>1 DEF Punch
    <2>2. CASE op[k].kind \in {"punched", "judge"}
      <3>1. punches > 0
        BY <2>2 DEF WorkHeld
      <3>2. QED
        BY <1>0, <1>1, <3>1
    <2>3. QED
      BY <1>2, <2>1, <2>2, JudgeFrom
  <1>3. ASSUME AllJudged', races' = {}
        PROVE  Base' = "PRESENT" <=> Worked'
    <2>0. races = {}
      BY <1>3, RacesGrow
    <2>1. CASE \E h \in Requests : RecalculateWrite(h) /\ op[h].id = day.id
      BY <1>3, <2>1, WorkJudged
    <2>2. CASE ~\E h \in Requests : RecalculateWrite(h) /\ op[h].id = day.id
      <3>1. ASSUME NEW k \in Requests, op[k].kind \in {"punched", "judge"} PROVE FALSE
        <4>1. op'[k].kind \notin {"punched", "judge"}
          BY <1>3 DEF AllJudged, InFlight
        <4>2. RecalculateWrite(k)
          BY <1>3, <3>1, <4>1, JudgeKept
        <4>3. op[k].id # day.id /\ op[k].kind = "judge"
          BY <2>2, <3>1, <4>2 DEF RecalculateWrite
        <4>4. QED
          BY <1>3, <4>2, <4>3 DEF RecalculateWrite, Fell, When
      <3>2. Base = "PRESENT" <=> Worked
        BY <2>0, <3>1 DEF WorkHeld, AllJudged, InFlight
      <3>3. ASSUME Base' = "PRESENT" <=> Base = "PRESENT", punches' = punches, mark' = mark
            PROVE  Base' = "PRESENT" <=> Worked'
        BY <3>2, <3>3 DEF Worked
      <3>4. ASSUME day' = day, punches' = punches, mark' = mark
            PROVE  Base' = "PRESENT" <=> Worked'
        BY <3>3, <3>4, BaseSame
      <3>5. ASSUME NEW h \in Requests, Punch(h) PROVE FALSE
        BY <1>0, <1>3, <3>5 DEF Punch, Start, AllJudged, InFlight
      <3>6. ASSUME NEW h \in Requests, ReviewWrite(h)
            PROVE  Base' = "PRESENT" <=> Worked'
        <4>1. CASE StillWaits(op[h].id) /\ op[h].to = "approved"
          <5>1. mark' = "approved"
            BY <3>6, <4>1 DEF ReviewWrite
          <5>2. day'.id = day.id /\ day'.status = "PRESENT" /\ day'.source = "REGULARIZED"
            BY <3>6, <4>1, ReviewWriteStep
          <5>3. day.id # 0
            BY <3>6, <4>1, ReviewWriteStep DEF StillWaits
          <5>4. QED
            BY <5>1, <5>2, <5>3 DEF Base, HasRow, IsStamp, Worked
        <4>2. CASE StillWaits(op[h].id) /\ op[h].to = "rejected"
          <5>1. punches' = punches /\ mark' = mark
            BY <3>6, <4>2 DEF ReviewWrite
          <5>2. /\ day'.id = day.id /\ day'.status = day.status /\ day'.source = day.source
                /\ day'.kept = day.kept
            BY <3>6, <4>2, ReviewWriteStep
          <5>3. QED
            BY <3>3, <5>1, <5>2, BaseSame
        <4>3. CASE ~StillWaits(op[h].id)
          BY <3>4, <3>6, <4>3 DEF ReviewWrite
        <4>4. QED
          BY <3>6, <4>1, <4>2, <4>3, ReviewWriteStep
      <3>7. ASSUME NEW h \in Requests, ImportWrite(h)
            PROVE  Base' = "PRESENT" <=> Worked'
        <4>1. CASE op[h].id = day.id
          <5>0. ~(op[h].id = day.id /\ (ImportSkips \/ op[h].half # IsHalfStamp(day)))
            BY <1>3, <3>7 DEF ImportWrite, Fell, When
          <5>5. op[h].half = IsHalfStamp(day)
            BY <4>1, <5>0
          <5>6. mark' = "sheet"
            BY <3>7, <4>1 DEF ImportWrite
          <5>1. mark' = "sheet" /\ op[h].half = IsHalfStamp(day)
            BY <5>5, <5>6
          <5>2. CASE op[h].half
            <6>5. IsHalfStamp(day)
              BY <5>5, <5>2
            <6>1. IsStamp(day) /\ day.id # 0
              BY <1>0, <6>5 DEF IsHalfStamp, IsStamp, RowKept, NoDay
            <6>2. /\ day'.id # 0 /\ day'.status = day.status /\ day'.source = day.source
                  /\ day'.kept = [status |-> "PRESENT", source |-> "EXCEL_IMPORT"]
              BY <3>7, <4>1, <5>2, ImportWriteStep
            <6>3. day'.kept.status = "PRESENT"
              BY <6>2
            <6>4. QED
              BY <5>1, <6>1, <6>2, <6>3 DEF Base, HasRow, IsStamp, Worked
          <5>3. CASE ~op[h].half
            <6>1. day'.id # 0 /\ day'.status = "PRESENT" /\ day'.source = "EXCEL_IMPORT"
              BY <3>7, <4>1, <5>3, ImportWriteStep
            <6>2. QED
              BY <5>1, <6>1 DEF Base, HasRow, IsStamp, Worked
          <5>4. QED
            BY <5>2, <5>3
        <4>2. CASE op[h].id # day.id
          BY <3>4, <3>7, <4>2 DEF ImportWrite
        <4>3. QED
          BY <4>1, <4>2
      <3>8. CASE ~\E h \in Requests : Punch(h) \/ ReviewWrite(h) \/ ImportWrite(h)
        <4>1. punches' = punches /\ mark' = mark
          BY <3>8, WorkElse
        <4>2. ASSUME NEW h \in Requests, RecalculateWrite(h) PROVE day' = day
          BY <2>2, <4>2, RecalculateWriteStep
        <4>3. ASSUME NEW h \in Requests, FileWrite(h)
                         \/ WithdrawWrite(h) \/ WfhWrite(h) \/ OfficeWrite(h)
                         \/ DecideWfhWrite(h)
              PROVE  Base' = Base
          <5>1. day.id = 0 => day.status = "ABSENT"
            BY <1>0 DEF RowKept, NoDay
          <5>2. \/ /\ day'.id = 0 <=> day.id = 0
                   /\ day'.status = day.status /\ day'.source = day.source
                   /\ day'.kept = day.kept
                \/ day.id = 0 /\ day'.status = "ABSENT"
            BY <1>0, <4>3, <5>1, FileWriteStep, WithdrawWriteStep, WfhWriteStep,
               OfficeWriteStep, DecideWfhWriteStep DEF HasRow
          <5>3. QED
            BY <5>2, BaseSame
        <4>4. ASSUME NEW h \in Requests, SweepWfh(h)
              PROVE  Base' = Base
          <5>1. /\ day'.id = day.id /\ day'.status = day.status /\ day'.source = day.source
                /\ day'.kept = day.kept
            BY <4>4, SweepWfhStep
          <5>2. QED
            BY <5>1, BaseSame
        <4>5. ASSUME NEW h \in Requests, StampWrite(h) \/ UnstampWrite(h), day' # day
              PROVE  Base' = "PRESENT" <=> Base = "PRESENT"
          <5>1. StampWrite(h) => ~Collides(op[h].seen.id)
            BY <4>5 DEF StampWrite
          <5>2. QED
            BY <1>3, <2>0, <4>5, <5>1, BaseApprove, BaseCancel
        <4>6. CASE day' = day
          BY <3>4, <4>1, <4>6
        <4>7. CASE Base' = "PRESENT" <=> Base = "PRESENT"
          BY <3>3, <4>1, <4>7
        <4>8. (day' = day) \/ (Base' = "PRESENT" <=> Base = "PRESENT")
          BY <3>8, <4>2, <4>3, <4>4, <4>5, Steps, ElsewhereStep DEF vars
        <4>9. QED
          BY <4>6, <4>7, <4>8
      <3>9. QED
        BY <3>5, <3>6, <3>7, <3>8
    <2>3. QED
      BY <2>1, <2>2
  <1>4. QED
    BY <1>1, <1>2, <1>3 DEF WorkHeld

LEMMA WorkPaid == TypeInv /\ LeavesHeld /\ StampsTell /\ WorkHeld => DayPaidAsDone
  <1> SUFFICES ASSUME TypeInv, LeavesHeld, StampsTell, WorkHeld, AllJudged, races = {}
               PROVE  DayPay = Due
    BY DEF DayPaidAsDone
  <1>1. Base = "PRESENT" <=> Worked
    BY DEF WorkHeld
  <1>2. LeaveShare \in {0, 1, 2}
    BY DEF LeaveShare, LeavesHeld, Room
  <1>3. CASE ~HasRow
    <2>1. ApprovedOf(Full) = {} /\ ApprovedOf(Half) = {}
      BY <1>3 DEF StampsTell
    <2>2. LeaveShare = 0 /\ ~Worked
      BY <1>1, <1>3, <2>1, FS_EmptySet DEF LeaveShare, Base
    <2>3. QED
      BY <1>3, <2>2 DEF DayPay, Due, RowShare
  <1>4. CASE HasRow /\ IsHalfStamp(day)
    <2>1. ApprovedOf(Half) # {} /\ day.kept.status # "HALF_DAY" /\ IsStamp(day)
      BY <1>4 DEF StampsTell, IsHalfStamp
    <2>2. RowShare = (IF Worked THEN 2 ELSE 0)
      BY <1>1, <1>4, <2>1 DEF RowShare, RowPay, Base
    <2>3. QED
      BY <1>2, <2>2 DEF DayPay, Due
  <1>5. CASE HasRow /\ IsStamp(day) /\ ~IsHalfStamp(day)
    <2>1. LeaveShare = 2 /\ day.status = "ON_LEAVE"
      BY <1>5 DEF StampsTell, IsHalfStamp, IsStamp
    <2>2. RowShare = 0
      BY <1>5, <2>1 DEF RowShare, RowPay
    <2>3. QED
      BY <2>1, <2>2 DEF DayPay, Due
  <1>6. CASE HasRow /\ ~IsStamp(day)
    <2>1. day.status # "HALF_DAY" /\ ~IsHalfStamp(day)
      BY <1>6 DEF StampsTell, IsHalfStamp
    <2>2. RowShare = (IF Worked THEN 2 ELSE 0)
      BY <1>1, <1>6, <2>1 DEF RowShare, RowPay, Base
    <2>3. QED
      BY <1>2, <2>2 DEF DayPay, Due
  <1>7. QED
    BY <1>3, <1>4, <1>5, <1>6

\* However punches, leave, its cancellation, regularization and imports were mixed,
\* payroll pays the day for the work and the leave on it, once (resolveDayPay).
THEOREM PayCorrect == Spec => []DayPaidAsDone
  <1>1. Init => ClaimsHeld /\ StampsTell /\ WorkHeld
    <2> SUFFICES ASSUME Init PROVE ClaimsHeld /\ StampsTell /\ WorkHeld
      OBVIOUS
    <2>1. ApprovedOf(Full) = {} /\ ApprovedOf(Half) = {}
      BY DEF Init, ApprovedOf, Leaves
    <2>2. ClaimsHeld
      <3>1. InFlight(OfALeave) = {} /\ InFlight({"stamp"}) = {}
        BY DEF Init, Idle, InFlight, OfALeave
      <3>2. Claimed(Full) = {} /\ Claimed(Half) = {}
        BY <3>1 DEF Init, Claimed, Stamping, Leaves
      <3>3. QED
        BY <3>1, <3>2, FS_EmptySet DEF ClaimsHeld, Room
    <2>3. StampsTell
      BY <2>1 DEF Init, NoDay, NotKept, StampsTell, IsStamp, IsHalfStamp
    <2>4. WorkHeld
      BY DEF Init, NoDay, Idle, WorkHeld, Base, HasRow, Worked
    <2>5. QED
      BY <2>2, <2>3, <2>4
  <1>2. QED
    BY <1>1, TypeInit, TypeStep, ClaimsStep, ClaimsLeaves, StampsStep, WorkStep, WorkPaid, PTL
    DEF Spec
=============================================================================
