----------------------- MODULE LeaveLedgerBalanceProofs -----------------------
(****************************************************************************)
(* The balance rows against the requests they are charged for: pending is   *)
(* what open requests hold, availed what approved leaves took, encashed what*)
(* encashments were paid, and nothing is overdrawn.                         *)
(****************************************************************************)
EXTENDS LeaveLedgerProofs

-----------------------------------------------------------------------------
(* Counting days *)

\* Disjoint finite sets add up.
LEMMA DisjointUnion ==
    ASSUME NEW S, NEW T, IsFiniteSet(S), IsFiniteSet(T), S \cap T = {}
    PROVE  /\ IsFiniteSet(S \cup T)
           /\ Cardinality(S \cup T) = Cardinality(S) + Cardinality(T)
  <1>1. Cardinality(S) \in Nat /\ Cardinality(T) \in Nat
    BY FS_CardinalityType
  <1>2. /\ IsFiniteSet(S \cup T)
        /\ Cardinality(S \cup T) = Cardinality(S) + Cardinality(T) - Cardinality(S \cap T)
    BY FS_Union
  <1>3. Cardinality(S \cap T) = 0
    BY FS_EmptySet
  <1>4. QED
    BY <1>1, <1>2, <1>3

\* Days are counted additively over disjoint sets of dates.
LEMMA DaysAdd ==
    ASSUME NEW S \in SUBSET Dates, NEW T \in SUBSET Dates, S \cap T = {}, NEW y
    PROVE  Cardinality(Part(S \cup T, y)) = Cardinality(Part(S, y)) + Days(T, y)
  <1>1. Part(S \cup T, y) = Part(S, y) \cup Part(T, y) /\ Part(S, y) \cap Part(T, y) = {}
    BY DEF Part
  <1>2. IsFiniteSet(Part(S, y)) /\ IsFiniteSet(Part(T, y))
    BY DaysType
  <1>3. Cardinality(Part(S, y)) \in Nat /\ Cardinality(Part(T, y)) \in Nat
    BY <1>2, FS_CardinalityType
  <1>4. QED
    BY <1>1, <1>2, <1>3, DisjointUnion DEF Days

\* The days that the leaves with status s take.
Taken(s) == UNION {dates[l] : l \in With(s)}

\* They are days, and a claim on a leave year counts those of that year.
LEMMA TakenType ==
    ASSUME TypeOK, NEW s
    PROVE  /\ Taken(s) \in SUBSET Dates
           /\ \A y : DaysClaimed(s, y) = Part(Taken(s), y)
           /\ \A y : Cardinality(DaysClaimed(s, y)) \in Nat
  <1>1. Taken(s) \in SUBSET Dates
    BY DEF Taken, With, TypeOK
  <1>2. \A y : DaysClaimed(s, y) = Part(Taken(s), y)
    BY DEF DaysClaimed, Taken
  <1>3. QED
    BY <1>1, <1>2, DaysType, FS_CardinalityType

\* The units of the encashments in S, for any assignment of days to them.
Units(S, f) == UNION {{e} \X (1..f[e]) : e \in S}

\* They are finitely many.
LEMMA UnitsFinite ==
    ASSUME NEW S \in SUBSET Encashments, NEW f \in [Encashments -> Nat]
    PROVE  IsFiniteSet(Units(S, f)) /\ Cardinality(Units(S, f)) \in Nat
  <1> DEFINE U(d) == {d} \X (1..f[d])
             Parts == {U(d) : d \in S}
             g == [d \in S |-> U(d)]
  <1>1. ASSUME NEW d \in S
        PROVE  IsFiniteSet(U(d))
    <2>1. f[d] \in Nat /\ IsFiniteSet(1..f[d])
      BY FS_Interval
    <2>2. IsFiniteSet({d})
      BY FS_Singleton
    <2>3. QED
      BY <2>1, <2>2, FS_Product
  <1>2. Units(S, f) = UNION Parts
    BY DEF Units
  <1>3. IsFiniteSet(Parts)
    <2> HIDE DEF U
    <2>1. g \in [S -> Parts] /\ \A t \in Parts : \E d \in S : g[d] = t
      OBVIOUS
    <2>2. g \in Surjection(S, Parts)
      BY <2>1 DEF Surjection
    <2>3. IsFiniteSet(S)
      BY FS_Subset, LedgerAssumption
    <2>4. QED
      BY <2>2, <2>3, FS_Surjection
  <1>4. \A T \in Parts : IsFiniteSet(T)
    BY <1>1
  <1>5. IsFiniteSet(Units(S, f))
    BY <1>2, <1>3, <1>4, FS_UNION
  <1>6. QED
    BY <1>5, FS_CardinalityType

\* An encashment adds as many as it has days.
LEMMA UnitsAdd ==
    ASSUME NEW S \in SUBSET Encashments, NEW e \in Encashments, e \notin S,
           NEW f \in [Encashments -> Nat]
    PROVE  Cardinality(Units(S \cup {e}, f)) = Cardinality(Units(S, f)) + f[e]
  <1> DEFINE U == {e} \X (1..f[e])
  <1>1. IsFiniteSet(1..f[e]) /\ Cardinality(1..f[e]) = f[e]
    BY FS_Interval
  <1>2. IsFiniteSet({e}) /\ Cardinality({e}) = 1
    BY FS_Singleton
  <1>3. IsFiniteSet(U) /\ Cardinality(U) = 1 * f[e]
    BY <1>1, <1>2, FS_Product
  <1>4. Units(S \cup {e}, f) = Units(S, f) \cup U /\ Units(S, f) \cap U = {}
    BY DEF Units
  <1> HIDE DEF U
  <1>5. Cardinality(Units(S, f) \cup U) = Cardinality(Units(S, f)) + Cardinality(U)
    BY <1>3, <1>4, UnitsFinite, DisjointUnion
  <1>6. QED
    BY <1>3, <1>4, <1>5

\* Claims after a step: kept, grown by, or shrunk by the days of one leave.
LEMMA ClaimsMove ==
    ASSUME TypeOK, NEW s, NEW ds \in SUBSET Dates, NEW y
    PROVE  /\ Taken(s)' = Taken(s)
                => Cardinality(DaysClaimed(s, y)') = Cardinality(DaysClaimed(s, y))
           /\ Taken(s)' = Taken(s) \cup ds /\ Taken(s) \cap ds = {}
                => Cardinality(DaysClaimed(s, y)')
                     = Cardinality(DaysClaimed(s, y)) + Days(ds, y)
           /\ Taken(s) = Taken(s)' \cup ds /\ Taken(s)' \cap ds = {}
                => Cardinality(DaysClaimed(s, y)')
                     = Cardinality(DaysClaimed(s, y)) - Days(ds, y)
  <1>1. /\ Taken(s) \in SUBSET Dates
        /\ DaysClaimed(s, y) = Part(Taken(s), y)
        /\ Cardinality(DaysClaimed(s, y)) \in Nat
    BY TakenType
  <1>2. DaysClaimed(s, y)' = Part(Taken(s)', y)
    BY DEF DaysClaimed, Taken, Part
  <1>3. Days(ds, y) \in Nat
    BY DaysType
  <1>4. ASSUME Taken(s)' = Taken(s) \cup ds, Taken(s) \cap ds = {}
        PROVE  Cardinality(DaysClaimed(s, y)') = Cardinality(DaysClaimed(s, y)) + Days(ds, y)
    BY <1>1, <1>2, <1>4, DaysAdd
  <1>5. ASSUME Taken(s) = Taken(s)' \cup ds, Taken(s)' \cap ds = {}
        PROVE  Cardinality(DaysClaimed(s, y)') = Cardinality(DaysClaimed(s, y)) - Days(ds, y)
    <2>1. Taken(s)' \in SUBSET Dates
      BY <1>1, <1>5
    <2>2. Cardinality(Part(Taken(s)', y)) \in Nat
      BY <2>1, DaysType, FS_CardinalityType
    <2>3. Cardinality(Part(Taken(s), y)) = Cardinality(Part(Taken(s)', y)) + Days(ds, y)
      BY <1>5, <2>1, DaysAdd
    <2>4. QED
      BY <1>1, <1>2, <1>3, <2>2, <2>3
  <1>6. QED
    BY <1>1, <1>2, <1>4, <1>5

\* A new request adds its own days to the pending ones.
LEMMA TakenAdded ==
    ASSUME TypeOK, NEW l \in Leaves, NEW ds, status[l] = "NONE",
           status' = [status EXCEPT ![l] = "PENDING"], dates' = [dates EXCEPT ![l] = ds]
    PROVE  /\ Taken("PENDING")' = Taken("PENDING") \cup ds
           /\ Taken("APPROVED")' = Taken("APPROVED")
  <1>1. With("PENDING")' = With("PENDING") \cup {l} /\ With("APPROVED")' = With("APPROVED")
    BY DEF With, TypeOK
  <1>2. \A k \in Leaves \ {l} : dates'[k] = dates[k]
    BY DEF TypeOK
  <1>3. dates'[l] = ds /\ l \notin With("PENDING") /\ l \notin With("APPROVED")
    BY DEF With, TypeOK
  <1>4. With("PENDING") \subseteq Leaves /\ With("APPROVED") \subseteq Leaves
    BY DEF With
  <1>5. QED
    BY <1>1, <1>2, <1>3, <1>4 DEF Taken

\* A leave that is no longer pending or approved takes its days with it.
LEMMA TakenLeft ==
    ASSUME TypeOK, NoDoubleBooking, NEW l \in Leaves, NEW s \in {"PENDING", "APPROVED"},
           NEW t \in Statuses, status[l] = s, t \notin {"PENDING", "APPROVED"},
           status' = [status EXCEPT ![l] = t], UNCHANGED dates
    PROVE  /\ Taken(s) = Taken(s)' \cup dates[l]
           /\ Taken(s)' \cap dates[l] = {}
           /\ \A r \in {"PENDING", "APPROVED"} \ {s} : Taken(r)' = Taken(r)
  <1>1. /\ With(s)' = With(s) \ {l} /\ l \in With(s)
        /\ \A r \in {"PENDING", "APPROVED"} \ {s} : With(r)' = With(r)
    BY DEF With, TypeOK
  <1>2. \A k \in With(s) \ {l} : dates[k] \cap dates[l] = {}
    BY DEF NoDoubleBooking, Live, With
  <1>3. QED
    BY <1>1, <1>2 DEF Taken

\* An approval moves the leave's days from the pending to the approved ones.
LEMMA TakenApproved ==
    ASSUME TypeOK, NoDoubleBooking, NEW l \in Leaves, status[l] = "PENDING",
           status' = [status EXCEPT ![l] = "APPROVED"], UNCHANGED dates
    PROVE  /\ Taken("PENDING") = Taken("PENDING")' \cup dates[l]
           /\ Taken("PENDING")' \cap dates[l] = {}
           /\ Taken("APPROVED")' = Taken("APPROVED") \cup dates[l]
           /\ Taken("APPROVED") \cap dates[l] = {}
  <1>1. /\ With("PENDING")' = With("PENDING") \ {l} /\ l \in With("PENDING")
        /\ With("APPROVED")' = With("APPROVED") \cup {l}
    BY DEF With, TypeOK
  <1>2. /\ \A k \in With("PENDING") \ {l} : dates[k] \cap dates[l] = {}
        /\ \A k \in With("APPROVED") : dates[k] \cap dates[l] = {}
    BY DEF NoDoubleBooking, Live, With
  <1>3. QED
    BY <1>1, <1>2 DEF Taken

\* An edit moves the days of the old request to those of the new one.
LEMMA TakenReplaced ==
    ASSUME TypeOK, NoDoubleBooking, NEW old \in Leaves, NEW n \in Leaves, NEW ds,
           n # old, status[old] = "PENDING", status[n] = "NONE",
           ds \cap Booked({old}) = {},
           status' = [status EXCEPT ![old] = "CANCELLED", ![n] = "PENDING"],
           dates' = [dates EXCEPT ![n] = ds]
    PROVE  /\ Taken("APPROVED")' = Taken("APPROVED")
           /\ \E rest \in SUBSET Dates :
                /\ Taken("PENDING") = rest \cup dates[old] /\ rest \cap dates[old] = {}
                /\ Taken("PENDING")' = rest \cup ds /\ rest \cap ds = {}
  <1> DEFINE rest == UNION {dates[k] : k \in With("PENDING") \ {old}}
  <1>1. /\ With("PENDING")' = (With("PENDING") \ {old}) \cup {n} /\ old \in With("PENDING")
        /\ With("APPROVED")' = With("APPROVED")
        /\ n \notin With("PENDING") /\ n \notin With("APPROVED")
    BY DEF With, TypeOK
  <1>2. dates'[n] = ds /\ \A k \in Leaves \ {n} : dates'[k] = dates[k]
    BY DEF TypeOK
  <1>3. With("PENDING") \subseteq Leaves /\ With("APPROVED") \subseteq Leaves
    BY DEF With
  <1>4. Taken("APPROVED")' = Taken("APPROVED")
    BY <1>1, <1>2, <1>3 DEF Taken
  <1>5. Taken("PENDING") = rest \cup dates[old] /\ Taken("PENDING")' = rest \cup ds
    BY <1>1, <1>2, <1>3 DEF Taken
  <1>6. rest \cap dates[old] = {}
    BY DEF NoDoubleBooking, Live, With
  <1>7. rest \cap ds = {}
    BY DEF Booked, Live, With
  <1>8. rest \in SUBSET Dates
    BY <1>3 DEF TypeOK
  <1>9. QED
    BY <1>4, <1>5, <1>6, <1>7, <1>8

-----------------------------------------------------------------------------
(* The ledger adds up *)

LeaveSums(y) ==
    /\ bal[y].pending = Cardinality(DaysClaimed("PENDING", y))
                        + Cardinality(EncashUnits(EncHeld(y)))
    /\ bal[y].availed = Cardinality(DaysClaimed("APPROVED", y))
    /\ bal[y].encashed = Cardinality(EncashUnits(EncPaid(y)))

\* Encashments that did not change hold and take the same units.
LEMMA EncashKept ==
    ASSUME UNCHANGED encVars, NEW y
    PROVE  /\ EncashUnits(EncHeld(y))' = EncashUnits(EncHeld(y))
           /\ EncashUnits(EncPaid(y))' = EncashUnits(EncPaid(y))
  BY DEF encVars, EncashUnits, EncHeld, EncPaid

\* The units of open and of paid encashments are numbers.
LEMMA EncashType ==
    ASSUME TypeOK, NEW y
    PROVE  /\ EncashUnits(EncHeld(y)) = Units(EncHeld(y), encDays)
           /\ EncashUnits(EncPaid(y)) = Units(EncPaid(y), encDays)
           /\ Cardinality(EncashUnits(EncHeld(y))) \in Nat
           /\ Cardinality(EncashUnits(EncPaid(y))) \in Nat
  <1>1. /\ EncashUnits(EncHeld(y)) = Units(EncHeld(y), encDays)
        /\ EncashUnits(EncPaid(y)) = Units(EncPaid(y), encDays)
    BY DEF EncashUnits, Units
  <1>2. EncHeld(y) \in SUBSET Encashments /\ EncPaid(y) \in SUBSET Encashments
    BY DEF EncHeld, EncPaid
  <1>3. encDays \in [Encashments -> Nat]
    BY DEF TypeOK
  <1>4. QED
    BY <1>1, <1>2, <1>3, UnitsFinite

\* The handlers that write the leaves table keep the sums of every year.
LEMMA LeaveSumsStep ==
    ASSUME TypeOK, NoDoubleBooking, NEW y \in Years, LeaveSums(y), UNCHANGED encVars
    PROVE  /\ \A l \in Leaves, ds \in SUBSET Dates :
                /\ Create(l, ds, Booked({}), bal)
                /\ status' = [status EXCEPT ![l] = "PENDING"]
                => LeaveSums(y)'
           /\ \A l \in Leaves :
                /\ status[l] = "PENDING" /\ UNCHANGED dates
                /\ status' = [status EXCEPT ![l] = "APPROVED"]
                /\ bal' = PendingToAvailed(bal, dates[l])
                => LeaveSums(y)'
           /\ \A l \in Leaves, t \in Statuses \ {"PENDING", "APPROVED"} :
                /\ status' = [status EXCEPT ![l] = t] /\ UNCHANGED dates
                /\ \/ status[l] = "PENDING" /\ bal' = ReleasePending(bal, dates[l])
                   \/ status[l] = "APPROVED" /\ bal' = ReleaseAvailed(bal, dates[l])
                => LeaveSums(y)'
           /\ \A l, n \in Leaves, ds \in SUBSET Dates :
                /\ l # n /\ status[l] = "PENDING"
                /\ Create(n, ds, Booked({l}), ReleasePending(bal, dates[l]))
                /\ status' = [status EXCEPT ![l] = "CANCELLED", ![n] = "PENDING"]
                => LeaveSums(y)'
  <1> DEFINE P == Cardinality(DaysClaimed("PENDING", y))
             A == Cardinality(DaysClaimed("APPROVED", y))
             H == Cardinality(EncashUnits(EncHeld(y)))
             E == Cardinality(EncashUnits(EncPaid(y)))
  <1>1. /\ P \in Nat /\ A \in Nat /\ H \in Nat /\ E \in Nat
        /\ bal[y].pending = P + H /\ bal[y].availed = A /\ bal[y].encashed = E
        /\ bal \in [Years -> Rows]
    BY TakenType, EncashType DEF LeaveSums, TypeOK
  <1>2. H' = H /\ E' = E
    BY EncashKept
  <1>3. ASSUME bal'[y].pending = P' + H, bal'[y].availed = A', bal'[y].encashed = E
        PROVE  LeaveSums(y)'
    BY <1>2, <1>3 DEF LeaveSums
  <1> HIDE DEF P, A, H, E
  <1>4. ASSUME NEW l \in Leaves, NEW ds \in SUBSET Dates, Create(l, ds, Booked({}), bal),
               status' = [status EXCEPT ![l] = "PENDING"]
        PROVE  LeaveSums(y)'
    <2>1. Taken("PENDING") \cap ds = {}
      BY <1>4 DEF Create, Booked, Taken, With, Live
    <2>2. Taken("PENDING")' = Taken("PENDING") \cup ds /\ Taken("APPROVED")' = Taken("APPROVED")
      BY <1>4, TakenAdded DEF Create
    <2>3. P' = P + Days(ds, y) /\ A' = A
      BY <2>1, <2>2, ClaimsMove DEF P, A
    <2>4. bal' = Hold(bal, ds) /\ Days(ds, y) \in Nat
      BY <1>4, DaysType DEF Create
    <2>5. /\ bal'[y].pending = bal[y].pending + Days(ds, y)
          /\ bal'[y].availed = bal[y].availed /\ bal'[y].encashed = bal[y].encashed
      BY <1>1, <2>4, HeldRow
    <2>6. QED
      BY <1>1, <1>3, <2>3, <2>4, <2>5
  <1>5. ASSUME NEW l \in Leaves, status[l] = "PENDING", UNCHANGED dates,
               status' = [status EXCEPT ![l] = "APPROVED"],
               bal' = PendingToAvailed(bal, dates[l])
        PROVE  LeaveSums(y)'
    <2>1. dates[l] \in SUBSET Dates /\ Days(dates[l], y) \in Nat
      BY DaysType DEF TypeOK
    <2>2. P' = P - Days(dates[l], y) /\ A' = A + Days(dates[l], y)
      <3>1. /\ Taken("PENDING") = Taken("PENDING")' \cup dates[l]
            /\ Taken("PENDING")' \cap dates[l] = {}
            /\ Taken("APPROVED")' = Taken("APPROVED") \cup dates[l]
            /\ Taken("APPROVED") \cap dates[l] = {}
        BY <1>5, TakenApproved
      <3>2. QED
        BY <2>1, <3>1, ClaimsMove DEF P, A
    <2>3. /\ bal'[y].pending = bal[y].pending + (-1) * Days(dates[l], y)
          /\ bal'[y].availed = bal[y].availed + 1 * Days(dates[l], y)
          /\ bal'[y].encashed = bal[y].encashed
      BY <1>1, <1>5, <2>1, ChargedRow DEF PendingToAvailed
    <2>4. QED
      BY <1>1, <1>3, <2>1, <2>2, <2>3
  <1>6. ASSUME NEW l \in Leaves, NEW t \in Statuses \ {"PENDING", "APPROVED"}, UNCHANGED dates,
               status' = [status EXCEPT ![l] = t], status[l] = "PENDING",
               bal' = ReleasePending(bal, dates[l])
        PROVE  LeaveSums(y)'
    <2>1. dates[l] \in SUBSET Dates /\ Days(dates[l], y) \in Nat
      BY DaysType DEF TypeOK
    <2>2. /\ Taken("PENDING") = Taken("PENDING")' \cup dates[l]
          /\ Taken("PENDING")' \cap dates[l] = {}
          /\ Taken("APPROVED")' = Taken("APPROVED")
      BY <1>6, TakenLeft
    <2>3. P' = P - Days(dates[l], y) /\ A' = A
      BY <2>1, <2>2, ClaimsMove DEF P, A
    <2>4. /\ bal'[y].pending = bal[y].pending + (-1) * Days(dates[l], y)
          /\ bal'[y].availed = bal[y].availed + 0 * Days(dates[l], y)
          /\ bal'[y].encashed = bal[y].encashed
      BY <1>1, <1>6, <2>1, ChargedRow DEF ReleasePending
    <2>5. QED
      BY <1>1, <1>3, <2>1, <2>3, <2>4
  <1>7. ASSUME NEW l \in Leaves, NEW t \in Statuses \ {"PENDING", "APPROVED"}, UNCHANGED dates,
               status' = [status EXCEPT ![l] = t], status[l] = "APPROVED",
               bal' = ReleaseAvailed(bal, dates[l])
        PROVE  LeaveSums(y)'
    <2>1. dates[l] \in SUBSET Dates /\ Days(dates[l], y) \in Nat
      BY DaysType DEF TypeOK
    <2>2. /\ Taken("APPROVED") = Taken("APPROVED")' \cup dates[l]
          /\ Taken("APPROVED")' \cap dates[l] = {}
          /\ Taken("PENDING")' = Taken("PENDING")
      BY <1>7, TakenLeft
    <2>3. A' = A - Days(dates[l], y) /\ P' = P
      BY <2>1, <2>2, ClaimsMove DEF P, A
    <2>4. /\ bal'[y].pending = bal[y].pending + 0 * Days(dates[l], y)
          /\ bal'[y].availed = bal[y].availed + (-1) * Days(dates[l], y)
          /\ bal'[y].encashed = bal[y].encashed
      BY <1>1, <1>7, <2>1, ChargedRow DEF ReleaseAvailed
    <2>5. QED
      BY <1>1, <1>3, <2>1, <2>3, <2>4
  <1>8. ASSUME NEW l \in Leaves, NEW n \in Leaves, NEW ds \in SUBSET Dates, l # n,
               status[l] = "PENDING",
               Create(n, ds, Booked({l}), ReleasePending(bal, dates[l])),
               status' = [status EXCEPT ![l] = "CANCELLED", ![n] = "PENDING"]
        PROVE  LeaveSums(y)'
    <2> DEFINE freed == ReleasePending(bal, dates[l])
    <2>1. /\ dates[l] \in SUBSET Dates /\ Days(dates[l], y) \in Nat /\ Days(ds, y) \in Nat
      BY DaysType DEF TypeOK
    <2>2. /\ Taken("APPROVED")' = Taken("APPROVED")
          /\ \E rest \in SUBSET Dates :
               /\ Taken("PENDING") = rest \cup dates[l] /\ rest \cap dates[l] = {}
               /\ Taken("PENDING")' = rest \cup ds /\ rest \cap ds = {}
      BY <1>8, TakenReplaced DEF Create
    <2>3. PICK rest \in SUBSET Dates :
               /\ Taken("PENDING") = rest \cup dates[l] /\ rest \cap dates[l] = {}
               /\ Taken("PENDING")' = rest \cup ds /\ rest \cap ds = {}
      BY <2>2
    <2>4. P = Cardinality(Part(rest, y)) + Days(dates[l], y)
      <3>1. P = Cardinality(Part(Taken("PENDING"), y))
        BY TakenType DEF P
      <3>2. QED
        BY <2>1, <2>3, <3>1, DaysAdd
    <2>5. P' = Cardinality(Part(rest, y)) + Days(ds, y)
      <3>1. P' = Cardinality(Part(Taken("PENDING")', y))
        BY DEF P, DaysClaimed, Taken, Part
      <3>2. QED
        BY <2>1, <2>3, <3>1, DaysAdd
    <2>6. A' = A
      BY <2>1, <2>2, ClaimsMove DEF A
    <2>7. /\ freed \in [Years -> Rows]
          /\ freed[y].pending = bal[y].pending + (-1) * Days(dates[l], y)
          /\ freed[y].availed = bal[y].availed + 0 * Days(dates[l], y)
          /\ freed[y].encashed = bal[y].encashed
      BY <1>1, <2>1, ChargedRow DEF ReleasePending
    <2>8. bal' = Hold(freed, ds)
      BY <1>8 DEF Create
    <2> HIDE DEF freed
    <2>9. /\ bal'[y].pending = freed[y].pending + Days(ds, y)
          /\ bal'[y].availed = freed[y].availed /\ bal'[y].encashed = freed[y].encashed
      BY <2>7, <2>8, HeldRow
    <2>10. Cardinality(Part(rest, y)) \in Nat
      BY DaysType DEF Days
    <2>11. QED
      BY <1>1, <1>3, <2>1, <2>4, <2>5, <2>6, <2>7, <2>9, <2>10
  <1>9. QED
    BY <1>4, <1>5, <1>6, <1>7, <1>8

\* An encashment that is requested, approved in the leave year it was requested
\* in, or paid keeps the sums of every year.
LEMMA EncashSumsStep ==
    ASSUME TypeOK, NEW y \in Years, LeaveSums(y), UNCHANGED <<status, dates>>,
           NEW e \in Encashments,
           \/ \E h \in Handlers : EncashCommit(h, e)
           \/ EncashApprove(e) /\ encYear[e] = year
           \/ EncashProcess(e)
    PROVE  LeaveSums(y)'
  <1> DEFINE P == Cardinality(DaysClaimed("PENDING", y))
             A == Cardinality(DaysClaimed("APPROVED", y))
             H == Cardinality(Units(EncHeld(y), encDays))
             E == Cardinality(Units(EncPaid(y), encDays))
  <1>1. /\ P \in Nat /\ A \in Nat /\ H \in Nat /\ E \in Nat
        /\ bal[y].pending = P + H /\ bal[y].availed = A /\ bal[y].encashed = E
        /\ bal \in [Years -> Rows] /\ bal[y] \in Rows
    BY TakenType, EncashType DEF LeaveSums, TypeOK
  <1>2. P' = P /\ A' = A
    BY DEF DaysClaimed, With, Part
  <1>3. ASSUME bal'[y].pending = P + H', bal'[y].availed = A, bal'[y].encashed = E'
        PROVE  LeaveSums(y)'
    BY <1>2, <1>3 DEF LeaveSums, EncashUnits, Units
  <1>4. EncHeld(y) \in SUBSET Encashments /\ EncPaid(y) \in SUBSET Encashments
    BY DEF EncHeld, EncPaid
  <1> HIDE DEF P, A
  <1>5. ASSUME NEW h \in Handlers, EncashCommit(h, e)
        PROVE  LeaveSums(y)'
    <2> DEFINE n == op[h].days
               z == op[h].year
    <2>1. z \in Years /\ n \in Nat
      BY <1>5, OpType, LedgerAssumption DEF EncashCommit
    <2>2. encDays' \in [Encashments -> Nat] /\ encDays'[e] = n
      BY <1>5, <2>1 DEF EncashCommit, TypeOK
    <2>3. e \notin EncHeld(y) /\ e \notin EncPaid(y)
      BY <1>5 DEF EncashCommit, EncHeld, EncPaid
    <2>4. EncPaid(y)' = EncPaid(y)
      BY <1>5 DEF EncashCommit, EncPaid, TypeOK
    <2>5. /\ z = y => EncHeld(y)' = EncHeld(y) \cup {e}
          /\ z # y => EncHeld(y)' = EncHeld(y)
      BY <1>5 DEF EncashCommit, EncHeld, TypeOK
    <2>6. \A d \in Encashments \ {e} : encDays'[d] = encDays[d]
      BY <1>5 DEF EncashCommit, TypeOK
    <2>7. /\ Units(EncHeld(y), encDays') = Units(EncHeld(y), encDays)
          /\ Units(EncPaid(y), encDays') = Units(EncPaid(y), encDays)
      BY <1>4, <2>3, <2>6 DEF Units
    <2>8. H' = Cardinality(Units(EncHeld(y)', encDays'))
          /\ E' = Cardinality(Units(EncPaid(y)', encDays'))
      BY DEF Units
    <2>9. bal' = [bal EXCEPT ![z].pending = @ + n]
      BY <1>5 DEF EncashCommit
    <2> HIDE DEF z, n
    <2>10. E' = E
      BY <2>4, <2>7, <2>8
    <2>11. bal'[y].availed = bal[y].availed /\ bal'[y].encashed = bal[y].encashed
      BY <1>1, <2>1, <2>9 DEF Rows
    <2>12. CASE z = y
      <3>1. H' = H + n
        BY <1>4, <2>2, <2>3, <2>5, <2>7, <2>8, <2>12, UnitsAdd
      <3>2. bal'[y].pending = bal[y].pending + n
        BY <1>1, <2>9, <2>12 DEF Rows
      <3>3. QED
        BY <1>1, <1>3, <2>1, <2>10, <2>11, <3>1, <3>2
    <2>13. CASE z # y
      <3>1. H' = H
        BY <2>5, <2>7, <2>8, <2>13
      <3>2. bal'[y] = bal[y]
        BY <1>1, <2>1, <2>9, <2>13
      <3>3. QED
        BY <1>1, <1>3, <2>10, <2>11, <3>1, <3>2
    <2>14. QED
      BY <2>12, <2>13
  <1>6. ASSUME EncashApprove(e), encYear[e] = year
        PROVE  LeaveSums(y)'
    <2> DEFINE n == encDays[e]
    <2>1. n \in Nat /\ year \in Years /\ bal[year] \in Rows
      BY DEF TypeOK
    <2>2. UNCHANGED encDays /\ bal' = [bal EXCEPT ![year] = PaidOut(bal[year], n)]
      BY <1>6 DEF EncashApprove
    <2>3. H' = Cardinality(Units(EncHeld(y)', encDays))
          /\ E' = Cardinality(Units(EncPaid(y)', encDays))
      BY <2>2 DEF Units
    <2>4. CASE year = y
      <3>1. /\ EncHeld(y) = EncHeld(y)' \cup {e} /\ e \notin EncHeld(y)'
            /\ EncPaid(y)' = EncPaid(y) \cup {e} /\ e \notin EncPaid(y)
        BY <1>6, <2>4 DEF EncashApprove, EncHeld, EncPaid, TypeOK
      <3>2. EncHeld(y)' \in SUBSET Encashments /\ encDays \in [Encashments -> Nat]
        BY <1>4, <3>1 DEF TypeOK
      <3>3. Cardinality(Units(EncHeld(y)' \cup {e}, encDays))
              = Cardinality(Units(EncHeld(y)', encDays)) + encDays[e]
        BY <3>1, <3>2, UnitsAdd
      <3>4. Cardinality(Units(EncHeld(y)', encDays)) \in Nat
        BY <3>2, UnitsFinite
      <3>5. H' = H - n
        BY <2>1, <2>3, <3>1, <3>3, <3>4
      <3>6. E' = E + n
        BY <1>4, <2>3, <3>1, <3>2, UnitsAdd
      <3>7. bal'[y] = PaidOut(bal[y], n)
        BY <1>1, <2>1, <2>2, <2>4
      <3>10. n \in Int /\ bal[y] \in Rows
        BY <1>1, <2>1
      <3> HIDE DEF n, H, E
      <3>11. /\ PaidOut(bal[y], n).pending = bal[y].pending - n
             /\ PaidOut(bal[y], n).availed = bal[y].availed
             /\ PaidOut(bal[y], n).encashed = bal[y].encashed + n
        BY <3>10, PaidOutRow
      <3>8. /\ bal'[y].pending = bal[y].pending - n
            /\ bal'[y].availed = bal[y].availed
            /\ bal'[y].encashed = bal[y].encashed + n
        BY <3>7, <3>11
      <3>9. QED
        BY <1>1, <1>3, <2>1, <3>5, <3>6, <3>8
    <2>5. CASE year # y
      <3>1. EncHeld(y)' = EncHeld(y) /\ EncPaid(y)' = EncPaid(y)
        BY <1>6, <2>5 DEF EncashApprove, EncHeld, EncPaid, TypeOK
      <3>2. bal'[y] = bal[y]
        BY <1>1, <2>1, <2>2, <2>5
      <3>3. QED
        BY <1>1, <1>3, <2>3, <3>1, <3>2
    <2>6. QED
      BY <2>4, <2>5
  <1>7. ASSUME EncashProcess(e)
        PROVE  LeaveSums(y)'
    <2>1. EncHeld(y)' = EncHeld(y) /\ EncPaid(y)' = EncPaid(y) /\ UNCHANGED <<encDays, bal>>
      BY <1>7 DEF EncashProcess, EncHeld, EncPaid, TypeOK
    <2>2. H' = H /\ E' = E
      BY <2>1 DEF Units
    <2>3. QED
      BY <1>1, <1>3, <2>1, <2>2
  <1>8. QED
    BY <1>5, <1>6, <1>7

LedgerAddsUp == PendingIsHeld /\ AvailedIsTaken

\* Every step keeps the sums, unless it falls into one of the ledger's windows.
LEMMA LedgerStep ==
    TypeOK /\ NoDoubleBooking /\ LedgerAddsUp /\ [Next]_vars => LedgerAddsUp'
  <1> SUFFICES ASSUME TypeOK, NoDoubleBooking, LedgerAddsUp, [Next]_vars,
                      races' \cap LedgerWindows = {}, NEW y \in Years
               PROVE  LeaveSums(y)'
    BY DEF LedgerAddsUp, PendingIsHeld, AvailedIsTaken, LeaveSums
  <1>1. LeaveSums(y)
    BY RacesGrow DEF LedgerAddsUp, PendingIsHeld, AvailedIsTaken, LeaveSums
  <1>2. Ranges \subseteq SUBSET Dates
    BY LedgerAssumption
  <1>3. ASSUME NEW l \in Leaves, NEW ds \in Ranges, Apply(l, ds)
        PROVE  LeaveSums(y)'
    BY <1>1, <1>2, <1>3, LeaveSumsStep DEF Apply
  <1>4. ASSUME NEW h \in Requests, NEW l \in Leaves, NEW ds \in Ranges, RecordCreate(h, l, ds)
        PROVE  LeaveSums(y)'
    BY <1>1, <1>2, <1>4, LeaveSumsStep DEF RecordCreate
  <1>5. ASSUME NEW h \in Handlers, NEW n \in Leaves, NEW ds \in Ranges, ReplaceCommit(h, n, ds)
        PROVE  LeaveSums(y)'
    <2> DEFINE l == op[h].leave
    <2>1. /\ l \in Leaves /\ l # n /\ status[l] = "PENDING" /\ UNCHANGED encVars
          /\ Create(n, ds, Booked({l}), ReleasePending(bal, dates[l]))
          /\ status' = [status EXCEPT ![l] = "CANCELLED", ![n] = "PENDING"]
      BY <1>5, OpType DEF ReplaceCommit
    <2> HIDE DEF l
    <2>2. QED
      BY <1>1, <1>2, <2>1, LeaveSumsStep
  <1>6. ASSUME NEW l \in Leaves, NEW t \in Statuses \ {"PENDING", "APPROVED"}, UNCHANGED <<dates, encVars>>,
               status' = [status EXCEPT ![l] = t],
               \/ status[l] = "PENDING" /\ bal' = ReleasePending(bal, dates[l])
               \/ status[l] = "APPROVED" /\ bal' = ReleaseAvailed(bal, dates[l])
        PROVE  LeaveSums(y)'
    BY <1>1, <1>6, LeaveSumsStep
  <1>7. ASSUME NEW l \in Leaves, status[l] = "PENDING", UNCHANGED <<dates, encVars>>,
               status' = [status EXCEPT ![l] = "APPROVED"],
               bal' = PendingToAvailed(bal, dates[l])
        PROVE  LeaveSums(y)'
    BY <1>1, <1>7, LeaveSumsStep
  <1>8. ASSUME UNCHANGED <<dates, encVars>>,
               \A s \in {"PENDING", "APPROVED"} : With(s)' = With(s),
               /\ bal'[y].pending = bal[y].pending
               /\ bal'[y].availed = bal[y].availed
               /\ bal'[y].encashed = bal[y].encashed
        PROVE  LeaveSums(y)'
    <2>1. DaysClaimed("PENDING", y)' = DaysClaimed("PENDING", y)
          /\ DaysClaimed("APPROVED", y)' = DaysClaimed("APPROVED", y)
      BY <1>8 DEF DaysClaimed, Part
    <2>2. QED
      BY <1>1, <1>8, <2>1, EncashKept DEF LeaveSums
  <1>9. ASSUME NEW h \in Handlers, DecideCommit(h)
        PROVE  LeaveSums(y)'
    <2> DEFINE l == op[h].leave
    <2>1. /\ l \in Leaves /\ op[h].decision \in Decisions /\ status[l] = "PENDING"
          /\ UNCHANGED <<dates, encVars>>
          /\ status' = [status EXCEPT ![l] = op[h].decision]
      BY <1>9, OpType DEF DecideCommit, Undecided
    <2>2. CASE op[h].decision = "APPROVED"
      <3>1. bal' = PendingToAvailed(bal, dates[l])
        BY <1>9, <2>2 DEF DecideCommit
      <3> HIDE DEF l
      <3>2. QED
        BY <1>7, <2>1, <2>2, <3>1
    <2>3. CASE op[h].decision # "APPROVED"
      <3>1. bal' = ReleasePending(bal, dates[l])
        BY <1>9, <2>3 DEF DecideCommit
      <3>2. op[h].decision \in Statuses \ {"PENDING", "APPROVED"}
        BY <2>1, <2>3 DEF Decisions, Statuses
      <3> HIDE DEF l
      <3>3. QED
        BY <1>6, <2>1, <3>1, <3>2
    <2>4. QED
      BY <2>2, <2>3
  <1>10. ASSUME NEW h \in Handlers, CancelCommit(h)
         PROVE  LeaveSums(y)'
    <2> DEFINE l == op[h].leave
    <2>1. /\ l \in Leaves /\ status[l] = op[h].seen /\ status[l] \in Cancellable
          /\ UNCHANGED <<dates, encVars>>
          /\ status' = [status EXCEPT ![l] = "CANCELLED"]
          /\ "CANCELLED" \in Statuses \ {"PENDING", "APPROVED"}
      BY <1>10, OpType DEF CancelCommit, LedgerWindows, Statuses
    <2>2. CASE status[l] = "PENDING" \/ status[l] = "APPROVED"
      <3>1. \/ status[l] = "PENDING" /\ bal' = ReleasePending(bal, dates[l])
            \/ status[l] = "APPROVED" /\ bal' = ReleaseAvailed(bal, dates[l])
        BY <1>10, <2>1, <2>2 DEF CancelCommit, ReleaseHold
      <3> HIDE DEF l
      <3>2. QED
        BY <1>6, <2>1, <3>1
    <2>3. CASE status[l] \notin {"PENDING", "APPROVED"}
      <3>1. bal' = bal
        BY <1>10, <2>1, <2>3 DEF CancelCommit, ReleaseHold
      <3>2. \A s \in {"PENDING", "APPROVED"} : With(s)' = With(s)
        BY <2>1, <2>3 DEF With, TypeOK
      <3>3. QED
        BY <1>8, <2>1, <3>1, <3>2
    <2>4. QED
      BY <2>2, <2>3
  <1>11. ASSUME NEW h \in Handlers, RecordApprove(h)
         PROVE  LeaveSums(y)'
    BY <1>7, <1>11, OpType DEF RecordApprove
  <1>12. ASSUME NEW h \in Handlers, RecordRollback(h)
         PROVE  LeaveSums(y)'
    <2> DEFINE l == op[h].leave
    <2>1. /\ l \in Leaves /\ status[l] = "PENDING" /\ UNCHANGED <<dates, encVars>>
          /\ status' = [status EXCEPT ![l] = "CANCELLED"]
          /\ bal' = ReleasePending(bal, dates[l])
          /\ "CANCELLED" \in Statuses \ {"PENDING", "APPROVED"}
      BY <1>12, OpType DEF RecordRollback, LedgerWindows, Statuses
    <2> HIDE DEF l
    <2>2. QED
      BY <1>6, <2>1
  <1>13. ASSUME NEW h \in Handlers, NEW e \in Encashments, EncashCommit(h, e)
         PROVE  LeaveSums(y)'
    BY <1>1, <1>13, EncashSumsStep DEF EncashCommit, leaveVars
  <1>14. ASSUME NEW e \in Encashments, EncashApprove(e)
         PROVE  LeaveSums(y)'
    <2>1. encYear[e] = year /\ UNCHANGED <<status, dates>>
      BY <1>14 DEF EncashApprove, LedgerWindows, leaveVars
    <2>2. QED
      BY <1>1, <1>14, <2>1, EncashSumsStep
  <1>15. ASSUME NEW e \in Encashments, EncashProcess(e)
         PROVE  LeaveSums(y)'
    BY <1>1, <1>15, EncashSumsStep DEF EncashProcess, leaveVars
  <1>16. ASSUME NEW h \in Handlers, AdjustCommit(h)
         PROVE  LeaveSums(y)'
    <2>1. op[h].year \in Years /\ bal[op[h].year] \in Rows /\ op[h].days \in Int
      BY <1>16, OpType DEF AdjustCommit, TypeOK
    <2>2. /\ bal' = [bal EXCEPT ![op[h].year] = Corrected(bal[op[h].year], op[h].days)]
          /\ UNCHANGED <<status, dates, encVars>>
      BY <1>16 DEF AdjustCommit, leaveVars
    <2>3. /\ bal'[y].pending = bal[y].pending
          /\ bal'[y].availed = bal[y].availed
          /\ bal'[y].encashed = bal[y].encashed
      BY <2>1, <2>2, CorrectedRow DEF TypeOK
    <2>4. QED
      BY <1>8, <2>2, <2>3 DEF With
  <1>17. ASSUME NEW h \in Handlers, ReconcileCommit(h)
         PROVE  LeaveSums(y)'
    <2>1. UNCHANGED <<status, dates, encVars>>
      BY <1>17 DEF ReconcileCommit, leaveVars
    <2> DEFINE credit == UpfrontCredit(op[h].row, op[h].days)
    <2>2. bal' = bal \/ bal' = [bal EXCEPT ![op[h].year] =
                                  Recredited(bal[op[h].year], op[h].row, credit)]
      BY <1>17 DEF ReconcileCommit
    <2>3. op[h].year \in Years /\ op[h].row \in Rows /\ credit \in Int
      BY <1>17, OpType DEF ReconcileCommit, UpfrontCredit, Largest, Rows
    <2> DEFINE z   == op[h].year
               new == Recredited(bal[z], op[h].row, credit)
    <2> HIDE DEF credit
    <2>6. bal \in [Years -> Rows] /\ bal[z] \in Rows /\ z \in Years
      BY <2>3 DEF TypeOK
    <2>7. /\ new.pending = bal[z].pending
          /\ new.availed = bal[z].availed
          /\ new.encashed = bal[z].encashed
      <3> DEFINE row == bal[z]
                 seen == op[h].row
      <3>1. row \in Rows /\ seen \in Rows /\ credit \in Int
        BY <2>3, <2>6
      <3>2. new = Recredited(row, seen, credit)
        OBVIOUS
      <3> HIDE DEF row, seen, new
      <3>3. /\ new.pending = row.pending
            /\ new.availed = row.availed
            /\ new.encashed = row.encashed
        BY <3>1, <3>2, RecreditedRow
      <3>4. QED
        BY <3>3 DEF row
    <2>8. bal' = bal \/ bal' = [bal EXCEPT ![z] = new]
      BY <2>2
    <2> HIDE DEF new, z
    <2>4. /\ bal'[y].pending = bal[y].pending
          /\ bal'[y].availed = bal[y].availed
          /\ bal'[y].encashed = bal[y].encashed
      BY <2>6, <2>7, <2>8
    <2>5. QED
      BY <1>8, <2>1, <2>4 DEF With
  <1>18. ASSUME Quiet
         PROVE  LeaveSums(y)'
    BY <1>8, <1>18 DEF Quiet, With
  <1>19. QED
    BY <1>3, <1>4, <1>5, <1>9, <1>10, <1>11, <1>12, <1>13, <1>14, <1>15, <1>16, <1>17,
       <1>18, QuietOrLoud

\* The sums hold of an employee who has asked for nothing yet.
LEMMA LedgerInit == Init => LedgerAddsUp
  <1> SUFFICES ASSUME Init, NEW y \in Years
               PROVE  LeaveSums(y)
    BY DEF LedgerAddsUp, PendingIsHeld, AvailedIsTaken, LeaveSums
  <1>1. /\ DaysClaimed("PENDING", y) = {} /\ DaysClaimed("APPROVED", y) = {}
        /\ EncashUnits(EncHeld(y)) = {} /\ EncashUnits(EncPaid(y)) = {}
    BY DEF Init, DaysClaimed, With, Part, EncHeld, EncPaid, EncashUnits
  <1>2. bal[y].pending = 0 /\ bal[y].availed = 0 /\ bal[y].encashed = 0
    BY DEF Init, NewRow
  <1>3. QED
    BY <1>1, <1>2, FS_EmptySet DEF LeaveSums

\* pending is what open requests and encashments hold, each of them once.
THEOREM PendingCorrect == Spec => []PendingIsHeld
  <1>1. LedgerAddsUp => PendingIsHeld
    BY DEF LedgerAddsUp
  <1>2. QED
    BY <1>1, LedgerInit, LedgerStep, TypeCorrect, NoDoubleBookingCorrect, PTL DEF Spec

\* availed is what approved leaves took and encashed what encashments were paid.
THEOREM AvailedCorrect == Spec => []AvailedIsTaken
  <1>1. LedgerAddsUp => AvailedIsTaken
    BY DEF LedgerAddsUp
  <1>2. QED
    BY <1>1, LedgerInit, LedgerStep, TypeCorrect, NoDoubleBookingCorrect, PTL DEF Spec

-----------------------------------------------------------------------------
(* No balance row is overdrawn: although no handler locks the row it checks,*)
(* the users row lock, the hold-then-check of an application and the check   *)
(* of an encashment under the same lock keep every year covered.             *)

\* What of a balance row is spoken for.
Used(row) == row.availed + row.encashed + row.pending

\* A handler that encashes holds the users row; what it found available stays
\* available to it, against the credit that it saw.
EncashCovered ==
    races = {} =>
        \A h \in Handlers :
            op[h].kind = "encash" =>
                op[h].days <= op[h].row.credited + op[h].row.adjusted - Used(bal[op[h].year])

\* A correction in flight passed its check on the row it read.
AdjustChecked ==
    \A h \in Handlers :
        op[h].kind = "adjust" => op[h].row.closing + op[h].days - op[h].row.pending >= 0

\* One handler at a time holds the users row.
OneEncashment ==
    \A g, h \in Handlers : op[g].kind = "encash" /\ op[h].kind = "encash" => g = h

-----------------------------------------------------------------------------
\* What is available is the credit, corrected, less what is spoken for.
LEMMA AvailableIsSpare ==
    ASSUME NEW row \in Rows
    PROVE  /\ Available(row) = row.credited + row.adjusted - Used(row)
           /\ Available(row) \in Int /\ Used(row) \in Int
           /\ row.credited \in Int /\ row.adjusted \in Int
           /\ row.closing = ClosingOf(row) => row.closing - row.pending = Available(row)
  BY DEF Rows, Available, Used, ClosingOf

\* A handler that encashes or corrects did so before the step, or has just read.
LEMMA RowReaderStep ==
    ASSUME TypeOK, [Next]_vars, NEW h \in Handlers, op'[h].kind \in {"encash", "adjust"}
    PROVE  \/ op'[h] = op[h]
           \/ \E n \in EncashDays : EncashRead(h, n)
           \/ \E y \in Years, n \in AdjustDays : AdjustRead(h, y, n)
  <1> DEFINE Same == op'[h] = op[h]
  <1>1. ASSUME NEW g \in Handlers, NEW o, o.kind \notin {"encash", "adjust"}, Start(g, o)
        PROVE  Same
    BY <1>1 DEF Start, TypeOK
  <1>2. ASSUME NEW g \in Handlers, Finish(g)
        PROVE  Same
    BY <1>2 DEF Finish, TypeOK, Idle
  <1>3. ASSUME NEW g \in Requests, Read(g)
        PROVE  \/ Same
               \/ \E n \in EncashDays : EncashRead(h, n)
               \/ \E y \in Years, n \in AdjustDays : AdjustRead(h, y, n)
    <2> g \in Handlers
      BY DEF Handlers
    <2>1. CASE g = h /\ \/ \E n \in EncashDays : EncashRead(g, n)
                        \/ \E y \in Years, n \in AdjustDays : AdjustRead(g, y, n)
      BY <2>1
    <2>2. CASE g # h
      <3>1. \A o : Start(g, o) => Same
        BY <2>2 DEF Start, TypeOK
      <3>2. \E o : Start(g, o)
        BY <1>3 DEF Read, ReplaceRead, ReviewRead, CancelRead, DecideCancelRead,
                    RecordCreate, EncashRead, AdjustRead, ReconcileRead
      <3>3. QED
        BY <3>1, <3>2
    <2>3. ASSUME NEW l \in Leaves, ReplaceRead(g, l) \/ CancelRead(g, l)
          PROVE  Same
      BY <1>1, <2>3 DEF ReplaceRead, CancelRead
    <2>4. ASSUME NEW l \in Leaves, NEW approve \in BOOLEAN, DecideCancelRead(g, l, approve)
          PROVE  Same
      BY <1>1, <2>4 DEF DecideCancelRead
    <2>5. ASSUME NEW l \in Leaves, NEW ds \in Ranges, RecordCreate(g, l, ds)
          PROVE  Same
      BY <1>1, <2>5 DEF RecordCreate
    <2>6. ASSUME NEW l \in Leaves, NEW role, NEW decision, NEW override,
                 ReviewRead(g, l, role, decision, override)
          PROVE  Same
      <3>1. \/ Start(g, [kind |-> "level1", leave |-> l])
            \/ \E w : Start(g, [kind |-> "decide", leave |-> l, decision |-> decision,
                                waive |-> w])
        BY <2>6 DEF ReviewRead
      <3>2. QED
        BY <1>1, <3>1
    <2>7. ASSUME NEW q \in Quotas, ReconcileRead(g, q)
          PROVE  Same
      BY <1>1, <2>7 DEF ReconcileRead
    <2>8. QED
      BY <1>3, <2>1, <2>2, <2>3, <2>4, <2>5, <2>6, <2>7 DEF Read
  <1>4. ASSUME NEW l \in Leaves, SweepRead(l)
        PROVE  Same
    <2>1. Sweep \in Handlers
      BY DEF Handlers
    <2>2. QED
      BY <1>1, <1>4, <2>1 DEF SweepRead
  <1>5. ASSUME NEW g \in Handlers, Commit(g)
        PROVE  Same
    BY <1>2, <1>5
       DEF Commit, ReplaceCommit, LevelOneCommit, DecideCommit, CancelCommit, DeclineCommit,
           GiveUp, RecordApprove, RecordRollback, EncashCommit, AdjustCommit, ReconcileCommit
  <1>6. QED
    BY <1>3, <1>4, <1>5
       DEF Next, vars, Submit, Apply, RequestCancel, EncashApprove, EncashProcess,
           LockMonth, UnlockMonth, NextYear

\* Every step keeps AdjustChecked.
LEMMA AdjustCheckedStep == TypeOK /\ AdjustChecked /\ [Next]_vars => AdjustChecked'
  <1> SUFFICES ASSUME TypeOK, AdjustChecked, [Next]_vars, NEW h \in Handlers,
                      op'[h].kind = "adjust"
               PROVE  op'[h].row.closing + op'[h].days - op'[h].row.pending >= 0
    BY DEF AdjustChecked
  <1>1. CASE op'[h] = op[h]
    BY <1>1 DEF AdjustChecked
  <1>2. ASSUME NEW n \in EncashDays, EncashRead(h, n)
        PROVE  FALSE
    BY <1>2 DEF EncashRead, Start, TypeOK
  <1>3. ASSUME NEW y \in Years, NEW n \in AdjustDays, AdjustRead(h, y, n)
        PROVE  op'[h].row.closing + op'[h].days - op'[h].row.pending >= 0
    <2>1. op'[h] = [kind |-> "adjust", year |-> y, days |-> n, row |-> bal[y]]
      BY <1>3 DEF AdjustRead, Start, TypeOK
    <2>2. bal[y].closing + n - bal[y].pending >= 0
      BY <1>3 DEF AdjustRead
    <2>3. op'[h].row = bal[y] /\ op'[h].days = n
      BY <2>1
    <2>4. QED
      BY <2>2, <2>3
  <1>4. QED
    BY <1>1, <1>2, <1>3, RowReaderStep

\* Every step keeps OneEncashment: an encashment starts only when no other
\* holds the users row.
LEMMA OneEncashmentStep == TypeOK /\ OneEncashment /\ [Next]_vars => OneEncashment'
  <1> SUFFICES ASSUME TypeOK, OneEncashment, [Next]_vars, NEW g \in Handlers,
                      NEW h \in Handlers, op'[g].kind = "encash", op'[h].kind = "encash"
               PROVE  g = h
    BY DEF OneEncashment
  <1>1. ASSUME NEW f \in Handlers, op'[f].kind = "encash", op'[f] # op[f]
        PROVE  ~UserLocked /\ \A k \in Handlers \ {f} : op'[k] = op[k]
    <2>1. ASSUME NEW y \in Years, NEW n \in AdjustDays, AdjustRead(f, y, n)
          PROVE  FALSE
      BY <1>1, <2>1 DEF AdjustRead, Start, TypeOK
    <2>2. PICK n \in EncashDays : EncashRead(f, n)
      BY <1>1, <2>1, RowReaderStep
    <2>3. QED
      BY <2>2 DEF EncashRead, Start, TypeOK
  <1>2. QED
    BY <1>1 DEF OneEncashment, UserLocked

-----------------------------------------------------------------------------
\* The four things a step may do to a balance row: relieve it, change its credit
\* within what is spoken for, charge a new request to it while no handler
\* encashes, or commit the encashment that had checked it.
Relieved(y) ==
    /\ bal'[y].credited = bal[y].credited /\ bal'[y].adjusted = bal[y].adjusted
    /\ Used(bal'[y]) <= Used(bal[y])
Credited(y) == Used(bal'[y]) = Used(bal[y]) /\ Available(bal'[y]) >= 0
Requested(y) == ~UserLocked /\ Available(bal'[y]) >= 0
Encashed(y) ==
    \E h \in Handlers, e \in Encashments :
        /\ EncashCommit(h, e) /\ op[h].year = y
        /\ bal'[y].credited = bal[y].credited /\ bal'[y].adjusted = bal[y].adjusted
        /\ Used(bal'[y]) = Used(bal[y]) + op[h].days

\* Charging a leave's days to a row.
LEMMA ChargeEffect ==
    ASSUME TypeOK, NEW ds \in SUBSET Dates, NEW y \in Years,
           \/ bal' = PendingToAvailed(bal, ds)
           \/ bal' = ReleasePending(bal, ds)
           \/ bal' = ReleaseAvailed(bal, ds)
           \/ bal' = bal
    PROVE  Relieved(y)
  <1>1. bal \in [Years -> Rows] /\ bal[y] \in Rows /\ Days(ds, y) \in Nat
    BY DaysType DEF TypeOK
  <1>2. CASE bal' = PendingToAvailed(bal, ds)
    <2>1. /\ bal'[y].pending = bal[y].pending + (-1) * Days(ds, y)
          /\ bal'[y].availed = bal[y].availed + 1 * Days(ds, y)
          /\ bal'[y].encashed = bal[y].encashed
          /\ bal'[y].credited = bal[y].credited /\ bal'[y].adjusted = bal[y].adjusted
      BY <1>1, <1>2, ChargedRow DEF PendingToAvailed
    <2>2. QED
      BY <1>1, <2>1 DEF Relieved, Used, Rows
  <1>3. CASE bal' = ReleasePending(bal, ds)
    <2>1. /\ bal'[y].pending = bal[y].pending + (-1) * Days(ds, y)
          /\ bal'[y].availed = bal[y].availed + 0 * Days(ds, y)
          /\ bal'[y].encashed = bal[y].encashed
          /\ bal'[y].credited = bal[y].credited /\ bal'[y].adjusted = bal[y].adjusted
      BY <1>1, <1>3, ChargedRow DEF ReleasePending
    <2>2. QED
      BY <1>1, <2>1 DEF Relieved, Used, Rows
  <1>4. CASE bal' = ReleaseAvailed(bal, ds)
    <2>1. /\ bal'[y].pending = bal[y].pending + 0 * Days(ds, y)
          /\ bal'[y].availed = bal[y].availed + (-1) * Days(ds, y)
          /\ bal'[y].encashed = bal[y].encashed
          /\ bal'[y].credited = bal[y].credited /\ bal'[y].adjusted = bal[y].adjusted
      BY <1>1, <1>4, ChargedRow DEF ReleaseAvailed
    <2>2. QED
      BY <1>1, <2>1 DEF Relieved, Used, Rows
  <1>5. CASE bal' = bal
    BY <1>1, <1>5, AvailableIsSpare DEF Relieved
  <1>6. QED
    BY <1>2, <1>3, <1>4, <1>5

\* A new request is checked after its hold: the rows it charges are covered, and
\* the others are as they were.
LEMMA CreateEffect ==
    ASSUME TypeOK, NEW l, NEW ds \in SUBSET Dates, NEW free, NEW b \in [Years -> Rows],
           NEW y \in Years, Create(l, ds, free, b), Available(b[y]) >= 0
    PROVE  Requested(y)
  <1>1. /\ bal' = Hold(b, ds) /\ ~UserLocked
        /\ \A z \in Years : Part(ds, z) # {} => Available(Hold(b, ds)[z]) >= 0
    BY DEF Create, Affordable
  <1>2. CASE Part(ds, y) # {}
    BY <1>1, <1>2 DEF Requested
  <1>3. CASE Part(ds, y) = {}
    <2>1. Days(ds, y) = 0
      BY <1>3, DaysType
    <2>2. b[y] \in Rows
      OBVIOUS
    <2>3. Available(b[y]) \in Int
      BY <2>2, AvailableIsSpare
    <2>4. Available(Hold(b, ds)[y]) = Available(b[y]) - Days(ds, y)
      BY HeldRow
    <2>5. QED
      BY <1>1, <2>1, <2>3, <2>4 DEF Requested
  <1>4. QED
    BY <1>2, <1>3

\* Every step that falls into no window does one of the four to every row.
LEMMA RowEffect ==
    ASSUME TypeOK, AdjustChecked, ClosingIsFormula, [Next]_vars, races' = {},
           NEW y \in Years, Available(bal[y]) >= 0
    PROVE  Relieved(y) \/ Credited(y) \/ Requested(y) \/ Encashed(y)
  <1>1. /\ races = {} /\ bal \in [Years -> Rows] /\ bal[y] \in Rows
        /\ bal[y].closing = ClosingOf(bal[y])
    BY RacesGrow DEF ClosingIsFormula, TypeOK
  <1>2. Ranges \subseteq SUBSET Dates
    BY LedgerAssumption
  <1>3. ASSUME NEW l, NEW ds \in Ranges, Create(l, ds, Booked({}), bal)
        PROVE  Requested(y)
    BY <1>1, <1>2, <1>3, CreateEffect
  <1>4. ASSUME NEW h \in Handlers, NEW n \in Leaves, NEW ds \in Ranges, ReplaceCommit(h, n, ds)
        PROVE  Requested(y)
    <2> DEFINE old   == op[h].leave
               freed == ReleasePending(bal, dates[old])
    <2>1. dates[old] \in SUBSET Dates /\ Days(dates[old], y) \in Nat
      BY <1>4, OpType, DaysType DEF ReplaceCommit, TypeOK
    <2>2. freed \in [Years -> Rows]
          /\ Available(freed[y]) = Available(bal[y]) - (-1) * Days(dates[old], y) - 0 * Days(dates[old], y)
      BY <1>1, <2>1, ChargedRow DEF ReleasePending
    <2>3. Available(freed[y]) >= 0
      BY <1>1, <2>1, <2>2, AvailableIsSpare
    <2>4. Create(n, ds, Booked({old}), freed)
      BY <1>4 DEF ReplaceCommit
    <2> HIDE DEF freed
    <2>5. QED
      BY <1>2, <2>2, <2>3, <2>4, CreateEffect
  <1>5. ASSUME NEW h \in Handlers,
               DecideCommit(h) \/ CancelCommit(h) \/ RecordApprove(h) \/ RecordRollback(h)
        PROVE  Relieved(y)
    <2>1. dates[op[h].leave] \in SUBSET Dates
      BY <1>5, OpType DEF DecideCommit, CancelCommit, RecordApprove, RecordRollback, TypeOK
    <2>2. \/ bal' = bal
          \/ bal' = PendingToAvailed(bal, dates[op[h].leave])
          \/ bal' = ReleasePending(bal, dates[op[h].leave])
          \/ bal' = ReleaseAvailed(bal, dates[op[h].leave])
      BY <1>5 DEF DecideCommit, CancelCommit, ReleaseHold, RecordApprove, RecordRollback
    <2>3. QED
      BY <2>1, <2>2, ChargeEffect
  <1>6. ASSUME UNCHANGED bal
        PROVE  Relieved(y)
    BY <1>1, <1>6, AvailableIsSpare DEF Relieved
  <1>7. ASSUME NEW h \in Handlers, NEW e \in Encashments, EncashCommit(h, e)
        PROVE  Relieved(y) \/ Encashed(y)
    <2>1. op[h].year \in Years /\ op[h].days \in Int
      BY <1>7, OpType DEF EncashCommit
    <2>2. bal' = [bal EXCEPT ![op[h].year].pending = @ + op[h].days]
      BY <1>7 DEF EncashCommit
    <2>3. CASE op[h].year = y
      <3>1. /\ bal'[y].credited = bal[y].credited /\ bal'[y].adjusted = bal[y].adjusted
            /\ bal'[y].availed = bal[y].availed /\ bal'[y].encashed = bal[y].encashed
            /\ bal'[y].pending = bal[y].pending + op[h].days
        BY <1>1, <2>2, <2>3 DEF Rows
      <3>2. Used(bal'[y]) = Used(bal[y]) + op[h].days
        BY <1>1, <2>1, <3>1 DEF Rows, Used
      <3>3. QED
        BY <1>7, <2>3, <3>1, <3>2 DEF Encashed
    <2>4. CASE op[h].year # y
      <3>1. bal'[y] = bal[y]
        BY <1>1, <2>1, <2>2, <2>4
      <3>2. QED
        BY <1>1, <3>1, AvailableIsSpare DEF Relieved
    <2>5. QED
      BY <2>3, <2>4
  <1>8. ASSUME NEW e \in Encashments, EncashApprove(e)
        PROVE  Relieved(y)
    <2>1. encDays[e] \in Int /\ year \in Years
      BY DEF TypeOK
    <2>2. bal' = [bal EXCEPT ![year] = PaidOut(bal[year], encDays[e])]
      BY <1>8 DEF EncashApprove
    <2>3. CASE year = y
      <3> DEFINE new == PaidOut(bal[y], encDays[e])
      <3>1. bal'[y] = new
        BY <1>1, <2>1, <2>2, <2>3
      <3>2. /\ new.pending = bal[y].pending - encDays[e]
            /\ new.availed = bal[y].availed
            /\ new.encashed = bal[y].encashed + encDays[e]
            /\ new.credited = bal[y].credited /\ new.adjusted = bal[y].adjusted
        BY <1>1, <2>1, PaidOutRow
      <3> HIDE DEF new
      <3>3. QED
        BY <1>1, <2>1, <3>1, <3>2 DEF Relieved, Used, Rows
    <2>4. CASE year # y
      <3>1. bal'[y] = bal[y]
        BY <1>1, <2>1, <2>2, <2>4
      <3>2. QED
        BY <1>1, <3>1, AvailableIsSpare DEF Relieved
    <2>5. QED
      BY <2>3, <2>4
  <1>9. ASSUME NEW h \in Handlers, AdjustCommit(h)
        PROVE  Relieved(y) \/ Credited(y)
    <2>1. op[h].year \in Years /\ op[h].days \in Int
      BY <1>9, OpType DEF AdjustCommit
    <2>2. /\ bal' = [bal EXCEPT ![op[h].year] = Corrected(bal[op[h].year], op[h].days)]
          /\ bal[op[h].year] = op[h].row /\ op[h].kind = "adjust"
      BY <1>9 DEF AdjustCommit
    <2>3. CASE op[h].year = y
      <3> DEFINE n   == op[h].days
                 new == Corrected(bal[y], n)
      <3>1. bal'[y] = new /\ bal[y].closing + n - bal[y].pending >= 0
        BY <1>1, <2>1, <2>2, <2>3 DEF AdjustChecked
      <3>2. bal[y].closing - bal[y].pending = Available(bal[y]) /\ n \in Int
            /\ bal[y].closing \in Int /\ bal[y].pending \in Int
        BY <1>1, <2>1, AvailableIsSpare DEF Rows
      <3>3. /\ Available(new) = Available(bal[y]) + n
            /\ new.pending = bal[y].pending /\ new.availed = bal[y].availed
            /\ new.encashed = bal[y].encashed
        BY <1>1, <3>2, CorrectedRow
      <3> HIDE DEF new, n
      <3>4. Available(bal'[y]) >= 0
        BY <3>1, <3>2, <3>3
      <3>5. Used(bal'[y]) = Used(bal[y])
        BY <3>1, <3>3 DEF Used
      <3>6. QED
        BY <3>4, <3>5 DEF Credited
    <2>4. CASE op[h].year # y
      <3>1. bal'[y] = bal[y]
        BY <1>1, <2>1, <2>2, <2>4
      <3>2. QED
        BY <1>1, <3>1, AvailableIsSpare DEF Relieved
    <2>5. QED
      BY <2>3, <2>4
  <1>10. ASSUME NEW h \in Handlers, ReconcileCommit(h)
         PROVE  Relieved(y) \/ Credited(y)
    <2> DEFINE z      == op[h].year
               seen   == op[h].row
               credit == UpfrontCredit(seen, op[h].days)
    <2>1. z \in Years /\ seen \in Rows /\ op[h].days \in Int /\ bal[z] = seen
      BY <1>10, OpType DEF ReconcileCommit
    <2>2. bal' = bal \/ bal' = [bal EXCEPT ![z] = Recredited(bal[z], seen, credit)]
      BY <1>10 DEF ReconcileCommit
    <2>3. credit \in Int /\ credit >= Used(seen) - seen.adjusted
      BY <2>1 DEF UpfrontCredit, Largest, Used, Rows
    <2> HIDE DEF credit
    <2>4. CASE z = y /\ bal' # bal
      <3> DEFINE new == Recredited(bal[y], bal[y], credit)
      <3>1. bal'[y] = new /\ seen = bal[y]
        BY <1>1, <2>1, <2>2, <2>4
      <3>2. /\ new \in Rows /\ new.credited = credit /\ new.adjusted = bal[y].adjusted
            /\ new.pending = bal[y].pending /\ new.availed = bal[y].availed
            /\ new.encashed = bal[y].encashed
        <4>1. bal[y] \in Rows /\ credit \in Int
          BY <1>1, <2>3
        <4>2. QED
          BY <4>1, RecreditedRow
      <3> HIDE DEF new
      <3>3. Used(new) = Used(bal[y])
        BY <3>2 DEF Used
      <3>4. /\ Available(new) = new.credited + new.adjusted - Used(new)
            /\ Used(bal[y]) \in Int /\ bal[y].adjusted \in Int
        BY <1>1, <3>2, AvailableIsSpare
      <3>5. Available(new) >= 0
        BY <2>3, <3>1, <3>2, <3>3, <3>4
      <3>6. QED
        BY <3>1, <3>3, <3>5 DEF Credited
    <2>5. CASE z # y \/ bal' = bal
      <3>1. bal'[y] = bal[y]
        BY <1>1, <2>1, <2>2, <2>5
      <3>2. QED
        BY <1>1, <3>1, AvailableIsSpare DEF Relieved
    <2>6. QED
      BY <2>4, <2>5
  <1>11. QED
    BY <1>3, <1>4, <1>5, <1>6, <1>7, <1>8, <1>9, <1>10, QuietOrLoud
       DEF Quiet, Apply, RecordCreate, EncashProcess

-----------------------------------------------------------------------------
(* The invariant *)

Covered ==
    /\ ClosingIsFormula
    /\ AdjustChecked
    /\ OneEncashment
    /\ EncashCovered
    /\ NeverOverdrawn

\* What an encashment in flight found available stays available to it.
LEMMA EncashCoveredStep ==
    TypeOK /\ TypeOK' /\ Covered /\ [Next]_vars => EncashCovered'
  <1> SUFFICES ASSUME TypeOK, TypeOK', Covered, [Next]_vars, races' = {},
                      NEW h \in Handlers, op'[h].kind = "encash"
               PROVE  op'[h].days <= op'[h].row.credited + op'[h].row.adjusted
                                       - Used(bal'[op'[h].year])
    BY DEF EncashCovered, Used
  <1>1. /\ races = {} /\ \A y \in Years : Available(bal[y]) >= 0
        /\ \A y \in Years : bal[y] \in Rows /\ bal'[y] \in Rows
    BY RacesGrow DEF Covered, NeverOverdrawn, TypeOK
  <1>2. CASE op'[h] = op[h]
    <2> DEFINE z == op[h].year
    <2>1. /\ op[h].kind = "encash" /\ z \in Years /\ op[h].row \in Rows /\ op[h].days \in Int
          /\ op[h].days <= op[h].row.credited + op[h].row.adjusted - Used(bal[z])
      BY <1>1, <1>2, OpType DEF Covered, EncashCovered
    <2>2. UserLocked
      BY <2>1 DEF UserLocked
    <2>3. ~Encashed(z)
      <3> SUFFICES ASSUME NEW g \in Handlers, NEW e \in Encashments, EncashCommit(g, e)
                   PROVE  FALSE
        BY DEF Encashed
      <3>1. g = h
        BY <2>1 DEF EncashCommit, Covered, OneEncashment
      <3>2. op'[h] = Idle
        BY <3>1 DEF EncashCommit, Finish, TypeOK
      <3>3. QED
        BY <1>2, <2>1, <3>2 DEF Idle
    <2>4. Relieved(z) \/ Credited(z)
      BY <1>1, <2>1, <2>2, <2>3, RowEffect DEF Covered, Requested
    <2>5. Used(bal'[z]) <= Used(bal[z]) /\ Used(bal[z]) \in Int /\ Used(bal'[z]) \in Int
      BY <1>1, <2>1, <2>4, AvailableIsSpare DEF Relieved, Credited
    <2>6. op[h].row.credited \in Int /\ op[h].row.adjusted \in Int
      BY <2>1, AvailableIsSpare
    <2> HIDE DEF z
    <2>7. op[h].days <= op[h].row.credited + op[h].row.adjusted - Used(bal'[z])
      BY <2>1, <2>5, <2>6
    <2>8. QED
      BY <1>2, <2>7 DEF z
  <1>3. ASSUME NEW n \in EncashDays, EncashRead(h, n)
        PROVE  op'[h].days <= op'[h].row.credited + op'[h].row.adjusted
                                - Used(bal'[op'[h].year])
    <2>1. /\ op'[h] = [kind |-> "encash", year |-> year, days |-> n, row |-> bal[year]]
          /\ UNCHANGED bal /\ n <= bal[year].closing - bal[year].pending
      BY <1>3 DEF EncashRead, Start, TypeOK
    <2>2. op'[h].year = year /\ op'[h].days = n /\ op'[h].row = bal[year]
      BY <2>1
    <2>3. year \in Years /\ bal[year].closing = ClosingOf(bal[year])
      BY <1>1 DEF Covered, ClosingIsFormula, TypeOK
    <2>4. n <= bal[year].credited + bal[year].adjusted - Used(bal[year])
      BY <1>1, <2>1, <2>3, AvailableIsSpare
    <2>5. QED
      BY <2>1, <2>2, <2>4
  <1>4. ASSUME NEW y \in Years, NEW n \in AdjustDays, AdjustRead(h, y, n)
        PROVE  FALSE
    BY <1>4 DEF AdjustRead, Start, TypeOK
  <1>5. QED
    BY <1>2, <1>3, <1>4, RowReaderStep

\* No step that falls into no window overdraws a row.
LEMMA NeverOverdrawnStep ==
    TypeOK /\ TypeOK' /\ Covered /\ [Next]_vars => NeverOverdrawn'
  <1> SUFFICES ASSUME TypeOK, TypeOK', Covered, [Next]_vars, races' = {}, NEW y \in Years
               PROVE  Available(bal'[y]) >= 0
    BY DEF NeverOverdrawn, Available
  <1>1. /\ races = {} /\ Available(bal[y]) >= 0 /\ bal[y] \in Rows /\ bal'[y] \in Rows
    BY RacesGrow DEF Covered, NeverOverdrawn, TypeOK
  <1>2. /\ Available(bal[y]) = bal[y].credited + bal[y].adjusted - Used(bal[y])
        /\ Available(bal'[y]) = bal'[y].credited + bal'[y].adjusted - Used(bal'[y])
        /\ Used(bal[y]) \in Int /\ Used(bal'[y]) \in Int
        /\ bal[y].credited \in Int /\ bal[y].adjusted \in Int
    BY <1>1, AvailableIsSpare
  <1>3. CASE Relieved(y)
    BY <1>1, <1>2, <1>3 DEF Relieved
  <1>4. ASSUME NEW h \in Handlers, NEW e \in Encashments, EncashCommit(h, e), op[h].year = y,
               bal'[y].credited = bal[y].credited, bal'[y].adjusted = bal[y].adjusted,
               Used(bal'[y]) = Used(bal[y]) + op[h].days
        PROVE  Available(bal'[y]) >= 0
    <2>1. op[h].kind = "encash" /\ op[h].days \in Int
          /\ bal[y].credited = op[h].row.credited /\ bal[y].adjusted = op[h].row.adjusted
      BY <1>4, OpType DEF EncashCommit
    <2>2. op[h].days <= op[h].row.credited + op[h].row.adjusted - Used(bal[y])
      BY <1>1, <1>4, <2>1 DEF Covered, EncashCovered
    <2>3. QED
      BY <1>2, <1>4, <2>1, <2>2
  <1>5. QED
    BY <1>1, <1>3, <1>4, RowEffect DEF Covered, Credited, Requested, Encashed

\* Leave never goes negative: an application, an encashment, a correction and a
\* quota edit never overdraw a balance row together, as long as none of them
\* commits on a row that changed since it was read.
THEOREM NeverOverdrawnCorrect == Spec => []NeverOverdrawn
  <1>1. Init => Covered
    BY LedgerAssumption
       DEF Init, Covered, ClosingIsFormula, ClosingOf, NewRow, AdjustChecked, OneEncashment,
           EncashCovered, NeverOverdrawn, Available, Idle
  <1>2. TypeOK /\ TypeOK' /\ Covered /\ [Next]_vars => Covered'
    BY ClosingStep, AdjustCheckedStep, OneEncashmentStep, EncashCoveredStep,
       NeverOverdrawnStep DEF Covered
  <1>3. Covered => NeverOverdrawn
    BY DEF Covered
  <1>4. QED
    BY <1>1, <1>2, <1>3, TypeCorrect, PTL DEF Spec
=============================================================================
