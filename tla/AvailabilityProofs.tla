------------------------- MODULE AvailabilityProofs -------------------------
(***************************************************************************)
(* Theorems of Availability for every schedule, zone, query and calendar:  *)
(* the gaps that subtractIntervals finds are exactly the operating windows *)
(* without what is blocked or booked, and a reservation that stands all    *)
(* along is never offered.                                                 *)
(***************************************************************************)
EXTENDS Availability, WallClocksProofs, FiniteSetTheorems, SequenceTheorems, TLAPS

(* The wall clock of an instant, and the instant of a wall clock, are       *)
(* whole numbers of units.                                                 *)
LEMMA ClocksType ==
  ASSUME NEW z \in Zone, NEW t \in Int
  PROVE /\ LocalDay(z, t) \in Int
        /\ ToInstant(z, t) \in Int
        /\ StartOfDay(z, t) \in Int
<1>1. DayLength \in Nat \ {0}
  BY WallClockAssumption
<1>2. LocalDay(z, t) \in Int
  BY <1>1, SMT DEF LocalDay, Wall, Offset, Zone
<1>3. \A x \in Int : ToInstant(z, x) \in Int
  BY SMT DEF ToInstant, Zone
<1>4. LocalDay(z, t) * DayLength \in Int
  BY <1>1, <1>2, SMT
<1> QED
  BY <1>2, <1>3, <1>4 DEF StartOfDay

(* A list that may come back for a finite set of rows holds just these.     *)
LEMMA ArrangementsType ==
  ASSUME NEW S, IsFiniteSet(S), NEW s \in Arrangements(S)
  PROVE s \in Seq(S) /\ Range(s) = S
<1>1. Cardinality(S) \in Nat
  BY FS_CardinalityType
<1>2. s \in [1 .. Cardinality(S) -> S]
  BY DEF Arrangements
<1>3. s \in Seq(S) /\ DOMAIN s = 1 .. Cardinality(S)
  BY <1>1, <1>2
<1>4. \A e \in S : \E i \in DOMAIN s : s[i] = e
  BY DEF Arrangements
<1> QED
  BY <1>2, <1>3, <1>4 DEF Range

(* The rows for a day are clipped to periods of instants.                   *)
LEMMA ClippedType ==
  ASSUME TypeOK, NEW row \in schedule, NEW local \in Int
  PROVE Clipped(row, local) \in Interval
<1>1. row.start \in Int /\ row.end \in Int
  <2>1. row \in OpeningWindow
    BY AvailabilityAssumption DEF TypeOK
  <2> QED
    BY <2>1, WallClockAssumption, SMT DEF OpeningWindow
<1>2. tz \in Zone /\ query \in Query
  BY AvailabilityAssumption DEF TypeOK
<1>3. DayLength \in Nat
  BY WallClockAssumption
<1>4. local * DayLength + row.start \in Int /\ local * DayLength + row.end \in Int
  BY <1>1, <1>3, SMT
<1>5. WallClockToInstant(tz, local, row.start) \in Int
  BY <1>2, <1>4, ClocksType DEF WallClockToInstant
<1>6. WallClockToInstant(tz, local, row.end) \in Int
  BY <1>2, <1>4, ClocksType DEF WallClockToInstant
<1> QED
  BY <1>2, <1>5, <1>6, SMT DEF Clipped, Larger, Smaller, Query, Interval

-----------------------------------------------------------------------------
(* Type correctness. *)

LEMMA TypeInit == Init => TypeOK
<1> SUFFICES ASSUME Init PROVE TypeOK
  OBVIOUS
<1>1. booked \subseteq Bookings /\ IsFiniteSet(booked) /\ standing \subseteq booked
  BY DEF Init, Calendars
<1>2. reply \in [code : {"NONE", "INVALID_PERIOD", "RESOURCE_UNAVAILABLE", "OK"},
                 slots : SUBSET Interval]
  BY DEF Init
<1> QED
  BY <1>1, <1>2 DEF Init, TypeOK, Labels

(* What a slot or a gap may be. *)
LEMMA GapType ==
  ASSUME TypeOK, NEW end \in Int
  PROVE Gap(end) \in Seq(Interval)
<1>1. [start |-> cursor, end |-> end] \in Interval
  BY DEF TypeOK, Interval
<1> QED
  BY <1>1 DEF Gap

LEMMA NextWindowType ==
  ASSUME TypeOK, NEW gaps \in Seq(Interval), NextWindow(gaps),
         windows \in Seq(Interval), w \in Nat \ {0}
  PROVE /\ free' \in Seq(Interval) /\ w' \in Nat \ {0} /\ k' \in Nat \ {0}
        /\ cursor' \in Int /\ pc' \in Labels
<1>1. free' \in Seq(Interval)
  BY DEF NextWindow, TypeOK
<1>2. w' \in Nat \ {0} /\ k' \in Nat \ {0}
  BY DEF NextWindow
<1>3. CASE w < Len(windows)
  <2>1. windows[w + 1] \in Interval
    <3>1. w + 1 \in 1 .. Len(windows)
      BY <1>3
    <3> QED
      BY <3>1
  <2> QED
    BY <1>1, <1>2, <1>3, <2>1 DEF NextWindow, TypeOK, Interval
<1>4. CASE ~(w < Len(windows))
  BY <1>1, <1>2, <1>4 DEF NextWindow, TypeOK, Labels
<1> QED
  BY <1>3, <1>4

LEMMA TypeNext == TypeOK /\ WindowAtHand /\ [Next]_vars => TypeOK'
<1> SUFFICES ASSUME TypeOK, WindowAtHand, [Next]_vars PROVE TypeOK'
  OBVIOUS
<1> USE DEF Labels
<1>1. CASE Receive
  <2> USE DEF Receive, Answer
  <2>1. reply' \in [code : {"NONE", "INVALID_PERIOD", "RESOURCE_UNAVAILABLE", "OK"},
                   slots : SUBSET Interval] /\ pc' \in Labels
    BY <1>1 DEF TypeOK
  <2> QED
    BY <1>1, <2>1 DEF TypeOK, database, reads, loop
<1>2. CASE ReadResource
  <2> USE DEF ReadResource, Answer
  <2>1. reply' \in [code : {"NONE", "INVALID_PERIOD", "RESOURCE_UNAVAILABLE", "OK"},
                   slots : SUBSET Interval] /\ pc' \in Labels /\ tz' \in Zones
    BY <1>2 DEF TypeOK
  <2> QED
    BY <1>2, <2>1 DEF TypeOK, database, loop
<1>3. CASE ReadSchedule
  <2>1. query \in Query /\ tz \in Zone
    BY AvailabilityAssumption DEF TypeOK
  <2>2. StartOfDay(tz, query.from) \in Int
    BY <2>1, ClocksType DEF Query
  <2>3. <<[start |-> query.from, end |-> query.to]>> \in Seq(Interval)
    BY <2>1 DEF Query, Interval
  <2>4. windows' \in Seq(Interval) /\ day' \in Int /\ pc' \in Labels
    BY <1>3, <2>2, <2>3 DEF ReadSchedule, TypeOK
  <2> QED
    BY <1>3, <2>4 DEF ReadSchedule, TypeOK, database, loop
<1>4. CASE WalkDay
  <2> DEFINE local == LocalDay(tz, day)
  <2>1. local \in Int
    BY AvailabilityAssumption, ClocksType DEF TypeOK
  <2>2. PICK rows \in Arrangements(DayRows(local)) :
          windows' = windows \o [i \in DOMAIN rows |-> Clipped(rows[i], local)]
    BY <1>4 DEF WalkDay
  <2>3. rows \in Seq(DayRows(local)) /\ DayRows(local) \subseteq schedule
    <3>1. DayRows(local) \subseteq schedule
      BY DEF DayRows
    <3>2. IsFiniteSet(DayRows(local))
      BY <3>1, FS_Subset, AvailabilityAssumption DEF TypeOK
    <3> QED
      BY <3>1, <3>2, ArrangementsType
  <2> HIDE DEF local
  <2>4. \A i \in DOMAIN rows : Clipped(rows[i], local) \in Interval
    BY <2>1, <2>3, ClippedType
  <2>5. [i \in DOMAIN rows |-> Clipped(rows[i], local)] \in Seq(Interval)
    BY <2>3, <2>4
  <2>6. windows' \in Seq(Interval)
    BY <2>2, <2>5 DEF TypeOK
  <2>7. day' \in Int
    BY <1>4, WallClockAssumption DEF WalkDay, TypeOK
  <2> QED
    BY <1>4, <2>6, <2>7 DEF WalkDay, TypeOK, database, loop
<1>5. CASE WalkEnds
  BY <1>5 DEF WalkEnds, TypeOK, database, reads, loop
<1>6. CASE ReadBlocks
  <2>1. blocks' \subseteq closure /\ IsFiniteSet(blocks')
    BY <1>6, FS_Subset, AvailabilityAssumption DEF ReadBlocks, TypeOK
  <2> QED
    BY <1>6, <2>1 DEF ReadBlocks, TypeOK, database, loop
<1>7. CASE ReadReservations
  <2>1. taken' \subseteq Bookings /\ IsFiniteSet(taken')
    <3>1. taken' \subseteq booked
      BY <1>7 DEF ReadReservations
    <3> QED
      BY <3>1, FS_Subset DEF TypeOK
  <2> QED
    BY <1>7, <2>1 DEF ReadReservations, TypeOK, database, loop
<1>8. CASE Sort
  <2>1. /\ blocks \subseteq closure /\ IsFiniteSet(blocks)
        /\ taken \subseteq Bookings /\ IsFiniteSet(taken)
    BY <1>8 DEF Sort, TypeOK
  <2>2. IsFiniteSet(blocks \cup taken) /\ blocks \cup taken \subseteq Interval
    BY <2>1, FS_Union, AvailabilityAssumption DEF TypeOK
  <2>3. busy' \in Arrangements(blocks \cup taken)
    BY <1>8 DEF Sort, Sorted
  <2>4. busy' \in Seq(Interval)
    BY <2>2, <2>3, ArrangementsType
  <2>5. cursor' \in Int /\ pc' \in Labels
    <3>1. CASE windows = <<>>
      BY <1>8, <3>1 DEF Sort, TypeOK
    <3>2. CASE windows # <<>>
      <4>1. windows[1] \in Interval
        BY <3>2 DEF TypeOK
      <4> QED
        BY <1>8, <3>2, <4>1 DEF Sort, Interval
    <3> QED
      BY <3>1, <3>2
  <2> QED
    BY <1>8, <2>4, <2>5 DEF Sort, TypeOK, database
<1>9. CASE SkipTaken
  BY <1>9 DEF SkipTaken, TypeOK, database, reads
<1>10. CASE PassTaken
  <2>1. Taken \in Interval
    BY <1>10 DEF PassTaken, Unread, Taken, TypeOK
  <2>2. Gap(Taken.start) \in Seq(Interval)
    BY <2>1, GapType DEF Interval
  <2>3. /\ free' \in Seq(Interval) /\ w' \in Nat \ {0} /\ k' \in Nat \ {0}
        /\ cursor' \in Int /\ pc' \in Labels
    <3>1. CASE Taken.end >= Window.end
      <4>1. NextWindow(Gap(Taken.start))
        BY <1>10, <3>1 DEF PassTaken
      <4> QED
        BY <2>2, <4>1, NextWindowType DEF TypeOK
    <3>2. CASE ~(Taken.end >= Window.end)
      <4>1. free' = free \o Gap(Taken.start) /\ cursor' = Taken.end /\ k' = k + 1
            /\ UNCHANGED <<pc, w>>
        BY <1>10, <3>2 DEF PassTaken
      <4> QED
        BY <2>1, <2>2, <4>1 DEF TypeOK, Interval
    <3> QED
      BY <3>1, <3>2
  <2> QED
    BY <1>10, <2>3 DEF PassTaken, TypeOK, database, reads
<1>11. CASE CloseWindow
  <2>1. Gap(Window.end) \in Seq(Interval)
    <3>1. Window \in Interval
      BY <1>11 DEF CloseWindow, WindowAtHand, Window, TypeOK
    <3> QED
      BY <3>1, GapType DEF Interval
  <2>2. NextWindow(Gap(Window.end))
    BY <1>11 DEF CloseWindow
  <2>3. /\ free' \in Seq(Interval) /\ w' \in Nat \ {0} /\ k' \in Nat \ {0}
        /\ cursor' \in Int /\ pc' \in Labels
    BY <2>1, <2>2, NextWindowType DEF TypeOK
  <2> QED
    BY <1>11, <2>3 DEF CloseWindow, TypeOK, database, reads
<1>12. CASE Filter
  <2>1. {slot \in Range(free) : LongEnough(slot)} \in SUBSET Interval
    BY DEF Range, TypeOK
  <2>2. reply' \in [code : {"NONE", "INVALID_PERIOD", "RESOURCE_UNAVAILABLE", "OK"},
                   slots : SUBSET Interval] /\ pc' \in Labels
    BY <1>12, <2>1 DEF Filter, Answer
  <2> QED
    BY <1>12, <2>2 DEF Filter, TypeOK, database, reads, loop
<1>13. CASE Book
  <2>1. PICK p \in Bookings : booked' = booked \cup {p}
    BY <1>13 DEF Book
  <2>2. IsFiniteSet(booked')
    BY <2>1, FS_AddElement DEF TypeOK
  <2> QED
    BY <1>13, <2>1, <2>2 DEF Book, TypeOK, handler, reads, loop
<1>14. CASE Cancel
  <2>1. PICK p \in booked : booked' = booked \ {p} /\ standing' = standing \ {p}
    BY <1>14 DEF Cancel
  <2>2. IsFiniteSet(booked')
    BY <2>1, FS_RemoveElement DEF TypeOK
  <2> QED
    BY <1>14, <2>1, <2>2 DEF Cancel, TypeOK, handler, reads, loop
<1>15. CASE ChangeZone \/ SwitchActive
  BY <1>15 DEF ChangeZone, SwitchActive, TypeOK, handler, reads, loop
<1>16. CASE UNCHANGED vars
  BY <1>16 DEF vars, TypeOK, database, reads, loop
<1> QED
  BY <1>1, <1>2, <1>3, <1>4, <1>5, <1>6, <1>7, <1>8, <1>9, <1>10, <1>11, <1>12,
     <1>13, <1>14, <1>15, <1>16 DEF Next, FindSlots, Subtract, Surroundings, Answered

-----------------------------------------------------------------------------
(* The inductive invariant. *)

LEMMA InductiveInit == Init => LoopInvariant
<1> SUFFICES ASSUME Init PROVE LoopInvariant
  OBVIOUS
<1>1. Range(<<>>) = {}
  BY DEF Range
<1> QED
  BY <1>1 DEF Init, LoopInvariant, WindowsInRange, NothingFoundYet, BusySorted, WindowAtHand,
     CursorInWindow, GapsAreFree, AllDealtWith, StandingWasRead, SlotsAreGaps, Answered200

(* What happens to the database while the handler waits is no concern of   *)
(* the loops, and can only take from what stands all along.                *)
LEMMA InductiveSurroundings ==
  ASSUME LoopInvariant, UNCHANGED handler, standing' \subseteq standing
  PROVE LoopInvariant'
<1>1. UNCHANGED <<pc, query, windows, blocks, taken, busy, w, k, cursor, free, reply>>
  BY DEF handler, reads, loop
<1>7. Asked' = Asked
  BY <1>1 DEF Asked
<1>2. WindowsInRange' /\ NothingFoundYet'
  BY <1>1, <1>7 DEF LoopInvariant, WindowsInRange, NothingFoundYet, IsWithin, Range
<1>6. BusySorted' /\ WindowAtHand'
  BY <1>1 DEF LoopInvariant, BusySorted, WindowAtHand, Answered200, Occupied, Range
<1>3. CursorInWindow' /\ GapsAreFree'
  BY <1>1 DEF LoopInvariant, CursorInWindow, GapsAreFree, Window, Occupied
<1>4. AllDealtWith'
  BY <1>1 DEF LoopInvariant, AllDealtWith, Answered200, DealtWith, Instants, Window, Covers,
     Occupied
<1>5. StandingWasRead' /\ SlotsAreGaps'
  BY <1>1, <1>7 DEF LoopInvariant, StandingWasRead, SlotsAreGaps, Overlaps, Range
<1> QED
  BY <1>2, <1>3, <1>4, <1>5, <1>6 DEF LoopInvariant

(* Up to the two reads: no gap is looked for, and every window found lies   *)
(* in the range asked for.                                                 *)
LEMMA InductivePrologue ==
  ASSUME TypeOK, LoopInvariant, UNCHANGED <<query, standing, w, k, cursor, free>>,
         pc \in {"new", "resource", "schedule", "walk", "busy"},
         \/ pc' \in {"resource", "schedule", "walk", "busy"} /\ UNCHANGED reply
         \/ pc' = "done" /\ reply'.code # "OK" /\ reply'.slots = {},
         WindowsInRange', StandingWasRead'
  PROVE LoopInvariant'
<1>1. free' = <<>> /\ w' = 1 /\ k' = 1
  BY DEF LoopInvariant, NothingFoundYet
<1>2. NothingFoundYet' /\ BusySorted' /\ WindowAtHand' /\ CursorInWindow' /\ AllDealtWith'
  BY <1>1 DEF NothingFoundYet, BusySorted, WindowAtHand, CursorInWindow, AllDealtWith,
     Answered200
<1>3. Range(free') = {}
  BY <1>1 DEF Range
<1>4. GapsAreFree'
  BY <1>3 DEF GapsAreFree
<1>5. SlotsAreGaps'
  BY <1>1 DEF LoopInvariant, SlotsAreGaps
<1> QED
  BY <1>2, <1>4, <1>5 DEF LoopInvariant

LEMMA InductiveReceive == TypeOK /\ LoopInvariant /\ Receive => LoopInvariant'
<1> SUFFICES ASSUME TypeOK, LoopInvariant, Receive PROVE LoopInvariant'
  OBVIOUS
<1>1. UNCHANGED <<query, standing, w, k, cursor, free, windows, taken>>
  BY DEF Receive, database, reads, loop
<1>2. Asked' = Asked
  BY <1>1 DEF Asked
<1>3. query.from \in Int /\ query.to \in Int
  BY AvailabilityAssumption DEF TypeOK, Query
<1>4. WindowsInRange' /\ StandingWasRead'
  BY <1>1, <1>2, <1>3 DEF Receive, Answer, LoopInvariant, WindowsInRange, StandingWasRead
<1> QED
  BY <1>1, <1>4, InductivePrologue DEF Receive, Answer

LEMMA InductiveReads ==
  TypeOK /\ LoopInvariant /\ (ReadResource \/ WalkEnds \/ ReadBlocks) => LoopInvariant'
<1> SUFFICES ASSUME TypeOK, LoopInvariant, ReadResource \/ WalkEnds \/ ReadBlocks
             PROVE LoopInvariant'
  OBVIOUS
<1>1. UNCHANGED <<query, standing, w, k, cursor, free, windows, taken>>
  BY DEF ReadResource, WalkEnds, ReadBlocks, database, reads, loop
<1>2. Asked' = Asked
  BY <1>1 DEF Asked
<1>3. pc \in {"resource", "walk", "busy"}
  BY DEF ReadResource, WalkEnds, ReadBlocks
<1>4. WindowsInRange' /\ StandingWasRead'
  BY <1>1, <1>2, <1>3 DEF LoopInvariant, WindowsInRange, StandingWasRead
<1>5. \/ pc' \in {"resource", "schedule", "walk", "busy"} /\ UNCHANGED reply
      \/ pc' = "done" /\ reply'.code # "OK" /\ reply'.slots = {}
  BY DEF ReadResource, Answer, WalkEnds, ReadBlocks
<1> QED
  BY <1>1, <1>3, <1>4, <1>5, InductivePrologue

LEMMA InductiveReadSchedule == TypeOK /\ LoopInvariant /\ ReadSchedule => LoopInvariant'
<1> SUFFICES ASSUME TypeOK, LoopInvariant, ReadSchedule PROVE LoopInvariant'
  OBVIOUS
<1>1. UNCHANGED <<query, standing, w, k, cursor, free, taken>>
  BY DEF ReadSchedule, database, loop
<1>2. Asked' = Asked
  BY <1>1 DEF Asked
<1>3. query.from \in Int /\ query.to \in Int /\ query.from < query.to
  BY AvailabilityAssumption DEF ReadSchedule, TypeOK, Query, LoopInvariant, WindowsInRange
<1>4. windows' = windows \/ windows' = <<Asked>>
  BY DEF ReadSchedule, Asked
<1>5. Range(<<Asked>>) = {Asked}
  BY DEF Range
<1>6. WindowsInRange'
  <2>1. CASE windows' = windows
    BY <1>1, <1>2, <1>3, <2>1 DEF LoopInvariant, WindowsInRange
  <2>2. CASE windows' = <<Asked>>
    <3>1. Asked.start = query.from /\ Asked.end = query.to
      BY DEF Asked
    <3> QED
      BY <1>1, <1>2, <1>3, <1>5, <2>2, <3>1 DEF WindowsInRange, IsWithin
  <2> QED
    BY <1>4, <2>1, <2>2
<1>7. StandingWasRead'
  BY <1>1, <1>2 DEF LoopInvariant, StandingWasRead
<1>8. pc = "schedule" /\ pc' \in {"walk", "busy"} /\ UNCHANGED reply
  BY DEF ReadSchedule
<1> QED
  BY <1>1, <1>6, <1>7, <1>8, InductivePrologue

LEMMA InductiveWalkDay == TypeOK /\ LoopInvariant /\ WalkDay => LoopInvariant'
<1> SUFFICES ASSUME TypeOK, LoopInvariant, WalkDay PROVE LoopInvariant'
  OBVIOUS
<1> DEFINE local == LocalDay(tz, day)
<1>1. UNCHANGED <<query, standing, w, k, cursor, free, taken, reply>> /\ pc' = pc
      /\ pc = "walk"
  BY DEF WalkDay, database, loop
<1>2. Asked' = Asked /\ Asked.start = query.from /\ Asked.end = query.to
  BY <1>1 DEF Asked
<1>3. PICK rows \in Arrangements(DayRows(local)) :
        windows' = windows \o [i \in DOMAIN rows |-> Clipped(rows[i], local)]
  BY DEF WalkDay
<1>4. rows \in Seq(DayRows(local)) /\ DayRows(local) \subseteq schedule
  <2>1. DayRows(local) \subseteq schedule
    BY DEF DayRows
  <2>2. IsFiniteSet(DayRows(local))
    BY <2>1, FS_Subset, AvailabilityAssumption DEF TypeOK
  <2> QED
    BY <2>1, <2>2, ArrangementsType
<1> DEFINE found == [i \in DOMAIN rows |-> Clipped(rows[i], local)]
<1>5. local \in Int
  BY AvailabilityAssumption, ClocksType DEF TypeOK
<1>6. \A row \in DayRows(local) :
        Clipped(row, local) \in Interval /\ Clipped(row, local).start < Clipped(row, local).end
  BY <1>4, <1>5, ClippedType DEF DayRows
<1>7. \A row \in DayRows(local) : IsWithin(Clipped(row, local), Asked)
  <2> SUFFICES ASSUME NEW row \in DayRows(local)
               PROVE IsWithin(Clipped(row, local), Asked)
    OBVIOUS
  <2> HIDE DEF local
  <2>1. Clipped(row, local) \in Interval
    BY <1>6
  <2>2. query.from <= Clipped(row, local).start /\ Clipped(row, local).end <= query.to
    <3>1. query.from \in Int /\ query.to \in Int
      BY AvailabilityAssumption DEF TypeOK, Query
    <3> DEFINE a == WallClockToInstant(tz, local, row.start)
               b == WallClockToInstant(tz, local, row.end)
    <3>2. Clipped(row, local).start = Larger(a, query.from)
          /\ Clipped(row, local).end = Smaller(b, query.to)
      BY DEF Clipped
    <3> HIDE DEF a, b
    <3> QED
      BY <2>1, <3>1, <3>2, SMT DEF Larger, Smaller, Interval
  <2> QED
    BY <1>2, <2>2 DEF IsWithin
<1> HIDE DEF local
<1>8. found \in Seq(Interval)
  BY <1>4, <1>6
<1>9. \A p \in Range(found) : p.start < p.end /\ IsWithin(p, Asked)
  <2>1. \A i \in DOMAIN rows : rows[i] \in DayRows(local)
    BY <1>4
  <2> QED
    BY <1>6, <1>7, <2>1 DEF Range
<1> HIDE DEF found
<1>10. Range(windows') = Range(windows) \cup Range(found)
  <2>1. windows' = windows \o found
    BY <1>3 DEF found
  <2>2. windows \in Seq(Interval)
    BY DEF TypeOK
  <2> QED
    BY <1>8, <2>1, <2>2, RangeConcatenation
<1>11. WindowsInRange'
  BY <1>1, <1>2, <1>9, <1>10 DEF LoopInvariant, WindowsInRange
<1>12. StandingWasRead'
  BY <1>1, <1>2 DEF LoopInvariant, StandingWasRead
<1> QED
  BY <1>1, <1>11, <1>12, InductivePrologue

LEMMA InductiveReadReservations == TypeOK /\ LoopInvariant /\ ReadReservations => LoopInvariant'
<1> SUFFICES ASSUME TypeOK, LoopInvariant, ReadReservations PROVE LoopInvariant'
  OBVIOUS
<1>1. UNCHANGED <<query, standing, w, k, cursor, free, windows, reply>> /\ pc' = pc
      /\ pc = "busy"
  BY DEF ReadReservations, database, loop
<1>2. Asked' = Asked
  BY <1>1 DEF Asked
<1>3. WindowsInRange'
  BY <1>1, <1>2 DEF LoopInvariant, WindowsInRange
<1>4. StandingWasRead'
  BY <1>1, <1>2 DEF ReadReservations, TypeOK, StandingWasRead
<1> QED
  BY <1>1, <1>3, <1>4, InductivePrologue

LEMMA InductiveSort == TypeOK /\ LoopInvariant /\ Sort => LoopInvariant'
<1> SUFFICES ASSUME TypeOK, LoopInvariant, Sort PROVE LoopInvariant'
  OBVIOUS
<1>1. UNCHANGED <<query, standing, windows, blocks, taken, w, k, free, reply>>
      /\ pc = "busy"
  BY DEF Sort, database
<1>2. Asked' = Asked /\ Occupied' = Occupied
  BY <1>1 DEF Asked, Occupied
<1>3. w = 1 /\ k = 1 /\ free = <<>>
  BY <1>1 DEF LoopInvariant, NothingFoundYet
<1>4. windows \in Seq(Interval)
  BY DEF TypeOK
<1>5. WindowsInRange' /\ StandingWasRead' /\ SlotsAreGaps'
  BY <1>1, <1>2, <1>3 DEF Sort, LoopInvariant, WindowsInRange, StandingWasRead, SlotsAreGaps
<1>6. BusySorted'
  <2>1. IsFiniteSet(Occupied)
    <3>1. IsFiniteSet(blocks) /\ IsFiniteSet(taken)
      BY DEF Sort, TypeOK
    <3> QED
      BY <3>1, FS_Union DEF Occupied
  <2>2. busy' \in Arrangements(Occupied)
        /\ \A i, j \in DOMAIN busy' : i < j => busy'[i].start <= busy'[j].start
    BY DEF Sort, Sorted, Occupied
  <2>3. Range(busy') = Occupied
    BY <2>1, <2>2, ArrangementsType
  <2>4. blocks' # None /\ taken' # None
    BY <1>1 DEF Sort
  <2> QED
    BY <1>2, <2>2, <2>3, <2>4 DEF BusySorted
<1>7. Range(free') = {}
  BY <1>1, <1>3 DEF Range
<1>8. GapsAreFree' /\ NothingFoundYet'
  BY <1>1, <1>7 DEF Sort, GapsAreFree, NothingFoundYet
<1>9. CASE windows = <<>>
  <2>1. pc' = "filter" /\ Len(windows) = 0
    BY <1>9 DEF Sort
  <2>2. WindowAtHand' /\ CursorInWindow'
    BY <1>1, <1>3, <2>1 DEF WindowAtHand, CursorInWindow
  <2>3. AllDealtWith'
    BY <1>1, <1>3, <2>1 DEF AllDealtWith, DealtWith
  <2> QED
    BY <1>5, <1>6, <1>8, <2>2, <2>3 DEF LoopInvariant
<1>10. CASE windows # <<>>
  <2>1. pc' = "subtract" /\ cursor' = windows[1].start
    BY <1>10 DEF Sort
  <2>2. 1 \in DOMAIN windows /\ windows[1] \in Range(windows) /\ windows[1] \in Interval
    BY <1>4, <1>10 DEF Range
  <2>3. windows[1].start < windows[1].end
    BY <2>2 DEF LoopInvariant, WindowsInRange
  <2>4. Window' = windows[1]
    BY <1>1, <1>3 DEF Window
  <2>5. WindowAtHand'
    BY <1>1, <1>3, <2>1, <2>2 DEF WindowAtHand, Answered200
  <2>6. busy' \in Seq(Interval)
    BY TypeNext DEF LoopInvariant, Next, FindSlots, TypeOK
  <2>7. CursorInWindow'
    <3>1. Window'.start <= cursor' /\ cursor' < Window'.end
      BY <2>1, <2>2, <2>3, <2>4 DEF Interval
    <3>2. k' = 1 /\ Len(busy') \in Nat
      BY <1>1, <1>3, <2>6
    <3> QED
      BY <3>1, <3>2 DEF CursorInWindow
  <2>8. AllDealtWith'
    <3>1. ASSUME NEW t \in Instants' PROVE ~DealtWith(t)'
      <4>1. t \in Int
        BY <1>1, AvailabilityAssumption DEF Instants, TypeOK, Query
      <4> QED
        BY <1>1, <1>3, <2>1, <2>2, <2>4, <4>1 DEF DealtWith, Interval
    <3> QED
      BY <3>1 DEF AllDealtWith
  <2> QED
    BY <1>5, <1>6, <1>8, <2>5, <2>7, <2>8 DEF LoopInvariant
<1> QED
  BY <1>9, <1>10

LEMMA InductiveFilter == TypeOK /\ LoopInvariant /\ Filter => LoopInvariant'
<1> SUFFICES ASSUME TypeOK, LoopInvariant, Filter PROVE LoopInvariant'
  OBVIOUS
<1>1. UNCHANGED <<query, standing, windows, blocks, taken, busy, w, k, cursor, free>>
      /\ pc = "filter" /\ pc' = "done"
  BY DEF Filter, Answer, database, reads, loop
<1>2. Asked' = Asked /\ Occupied' = Occupied
  BY <1>1 DEF Asked, Occupied
<1>3. WindowsInRange' /\ NothingFoundYet'
  BY <1>1, <1>2 DEF LoopInvariant, WindowsInRange, NothingFoundYet
<1>4. BusySorted' /\ WindowAtHand' /\ CursorInWindow'
  BY <1>1, <1>2 DEF LoopInvariant, BusySorted, WindowAtHand, CursorInWindow
<1>5. AllDealtWith'
  BY <1>1, <1>2 DEF LoopInvariant, AllDealtWith, DealtWith, Instants, Covers
<1>6. GapsAreFree' /\ StandingWasRead'
  BY <1>1, <1>2 DEF LoopInvariant, GapsAreFree, StandingWasRead
<1>7. SlotsAreGaps'
  BY <1>1 DEF Filter, Answer, SlotsAreGaps
<1> QED
  BY <1>3, <1>4, <1>5, <1>6, <1>7 DEF LoopInvariant

(* What the loop of subtractFromOne may rely on at every busy interval.     *)
LEMMA AtHand ==
  ASSUME TypeOK, LoopInvariant, pc = "subtract"
  PROVE /\ w \in 1 .. Len(windows)
        /\ Window \in Range(windows) /\ Window \in Interval
        /\ cursor \in Int /\ Window.start <= cursor /\ cursor < Window.end
        /\ k \in 1 .. Len(busy) + 1
        /\ \A j \in 1 .. Len(busy) : busy[j] \in Interval
        /\ \A j \in 1 .. k - 1 : busy[j].end <= cursor
        /\ \A i, j \in 1 .. Len(busy) : i < j => busy[i].start <= busy[j].start
        /\ \A b \in Occupied : \E j \in 1 .. Len(busy) : b = busy[j]
        /\ \A j \in 1 .. Len(busy) : busy[j] \in Occupied
<1>1. windows \in Seq(Interval) /\ busy \in Seq(Interval)
  BY DEF TypeOK
<1>2. w \in 1 .. Len(windows)
  BY <1>1 DEF LoopInvariant, WindowAtHand
<1>3. Window \in Range(windows) /\ Window \in Interval
  BY <1>1, <1>2 DEF Window, Range
<1>4. cursor \in Int /\ Window.start <= cursor /\ cursor < Window.end
      /\ k \in 1 .. Len(busy) + 1
  BY <1>1 DEF LoopInvariant, CursorInWindow, TypeOK
<1>5. \A j \in 1 .. k - 1 : busy[j].end <= cursor
  BY DEF LoopInvariant, CursorInWindow
<1>6. \A i, j \in 1 .. Len(busy) : i < j => busy[i].start <= busy[j].start
  BY <1>1 DEF LoopInvariant, BusySorted
<1>7. Range(busy) = Occupied
  BY DEF LoopInvariant, BusySorted
<1> QED
  BY <1>1, <1>2, <1>3, <1>4, <1>5, <1>6, <1>7 DEF Range

(* The gap up to the next busy interval, or up to the end of the window,    *)
(* meets no busy interval and lies in the window.                          *)
LEMMA GapIsFree ==
  ASSUME TypeOK, LoopInvariant, pc = "subtract", NEW end \in Int, end <= Window.end,
         \A j \in k .. Len(busy) : end <= busy[j].start
  PROVE /\ Gap(end) \in Seq(Interval)
        /\ \A gap \in Range(Gap(end)) :
             /\ \E p \in Range(windows) : IsWithin(gap, p)
             /\ \A b \in Occupied : ~Overlaps(gap, b)
        /\ \A t \in Int : cursor <= t /\ t < end => Covers(Gap(end), t)
<1>1. Gap(end) \in Seq(Interval)
  BY GapType
<1>2. CASE ~(cursor < end)
  <2>1. Range(Gap(end)) = {}
    BY <1>2 DEF Gap, Range
  <2>2. cursor \in Int
    BY DEF TypeOK
  <2> QED
    BY <1>1, <1>2, <2>1, <2>2
<1>3. CASE cursor < end
  <2> DEFINE gap == [start |-> cursor, end |-> end]
  <2>1. Range(Gap(end)) = {gap}
    BY <1>3 DEF Gap, Range
  <2>2. gap.start = cursor /\ gap.end = end
    OBVIOUS
  <2> HIDE DEF gap
  <2>3. IsWithin(gap, Window) /\ Window \in Range(windows)
    BY <2>2, AtHand DEF IsWithin
  <2>4. ASSUME NEW b \in Occupied PROVE ~Overlaps(gap, b)
    <3>1. PICK j \in 1 .. Len(busy) : b = busy[j]
      BY AtHand
    <3>2. busy[j] \in Interval
      BY AtHand
    <3>3. CASE j < k
      <4>1. busy[j].end <= cursor
        BY <3>3, AtHand
      <4> QED
        BY <2>2, <3>1, <3>2, <4>1, AtHand DEF Overlaps, Interval
    <3>4. CASE ~(j < k)
      <4>1. end <= busy[j].start
        BY <3>4, AtHand
      <4> QED
        BY <2>2, <3>1, <3>2, <4>1 DEF Overlaps, Interval
    <3> QED
      BY <3>3, <3>4
  <2>5. \A t \in Int : cursor <= t /\ t < end => Covers(Gap(end), t)
    BY <2>1, <2>2 DEF Covers, Contains
  <2> QED
    BY <1>1, <2>1, <2>3, <2>4, <2>5
<1> QED
  BY <1>2, <1>3

(* Adding such a gap keeps what is known of the gaps.                       *)
LEMMA AddGap ==
  ASSUME TypeOK, LoopInvariant, pc = "subtract", NEW end \in Int, end <= Window.end,
         \A j \in k .. Len(busy) : end <= busy[j].start,
         free' = free \o Gap(end), UNCHANGED <<windows, blocks, taken, reply>>
  PROVE /\ GapsAreFree' /\ SlotsAreGaps'
        /\ Range(free') = Range(free) \cup Range(Gap(end))
<1>1. Range(free') = Range(free) \cup Range(Gap(end))
  BY GapIsFree, RangeConcatenation DEF TypeOK
<1>2. Occupied' = Occupied
  BY DEF Occupied
<1>3. GapsAreFree'
  BY <1>1, <1>2, GapIsFree DEF LoopInvariant, GapsAreFree
<1>4. SlotsAreGaps'
  BY <1>1 DEF LoopInvariant, SlotsAreGaps
<1> QED
  BY <1>1, <1>3, <1>4

LEMMA InductiveSkipTaken == TypeOK /\ LoopInvariant /\ SkipTaken => LoopInvariant'
<1> SUFFICES ASSUME TypeOK, LoopInvariant, SkipTaken PROVE LoopInvariant'
  OBVIOUS
<1>1. UNCHANGED <<pc, query, standing, windows, blocks, taken, busy, w, cursor, free, reply>>
      /\ k' = k + 1 /\ pc = "subtract"
  BY DEF SkipTaken, database, reads
<1>2. Asked' = Asked /\ Occupied' = Occupied /\ Window' = Window
  BY <1>1 DEF Asked, Occupied, Window
<1>3. WindowsInRange' /\ NothingFoundYet' /\ BusySorted' /\ WindowAtHand'
  BY <1>1, <1>2 DEF LoopInvariant, WindowsInRange, NothingFoundYet, BusySorted, WindowAtHand,
     Answered200
<1>4. CursorInWindow'
  <2>1. k <= Len(busy) /\ busy[k].end <= cursor
    BY DEF SkipTaken, Unread, Taken
  <2>2. k \in Int /\ Len(busy) \in Int
    BY DEF TypeOK
  <2>3. \A j \in 1 .. k' - 1 : busy[j].end <= cursor
    BY <1>1, <2>1, <2>2, AtHand
  <2> QED
    BY <1>1, <1>2, <2>1, <2>2, <2>3 DEF LoopInvariant, CursorInWindow
<1>5. GapsAreFree' /\ StandingWasRead' /\ SlotsAreGaps'
  BY <1>1, <1>2 DEF LoopInvariant, GapsAreFree, StandingWasRead, SlotsAreGaps
<1>6. AllDealtWith'
  BY <1>1, <1>2 DEF LoopInvariant, AllDealtWith, DealtWith, Instants, Covers, Answered200
<1> QED
  BY <1>3, <1>4, <1>5, <1>6 DEF LoopInvariant

(* The function returns for a window once nothing of it is left to look at. *)
LEMMA InductiveNextWindow ==
  ASSUME TypeOK, TypeOK', LoopInvariant, pc = "subtract", NEW end \in Int, end <= Window.end,
         \A j \in k .. Len(busy) : end <= busy[j].start,
         \A t \in Int : end <= t /\ t < Window.end => \E b \in Occupied : Contains(b, t),
         NextWindow(Gap(end)),
         UNCHANGED <<query, standing, windows, blocks, taken, busy, reply>>
  PROVE LoopInvariant'
<1>1. Asked' = Asked /\ Occupied' = Occupied
  BY DEF Asked, Occupied
<1>2. GapsAreFree' /\ SlotsAreGaps' /\ Range(free') = Range(free) \cup Range(Gap(end))
  BY AddGap DEF NextWindow
<1>3. w' = w + 1 /\ k' = 1 /\ Len(windows) \in Nat /\ w \in 1 .. Len(windows)
  BY AtHand DEF NextWindow, TypeOK
<1>4. \/ w < Len(windows) /\ pc' = "subtract" /\ cursor' = windows[w + 1].start
      \/ w = Len(windows) /\ pc' = "filter"
  BY <1>3 DEF NextWindow
<1>5. WindowsInRange' /\ NothingFoundYet' /\ StandingWasRead'
  BY <1>1, <1>4 DEF LoopInvariant, WindowsInRange, NothingFoundYet, StandingWasRead
<1>6. BusySorted'
  BY <1>1 DEF LoopInvariant, BusySorted
<1>7. WindowAtHand'
  BY <1>3, <1>4 DEF WindowAtHand, Answered200
<1>8. CursorInWindow'
  <2> SUFFICES ASSUME pc' = "subtract" PROVE CursorInWindow'
    BY DEF CursorInWindow
  <2>1. w + 1 \in 1 .. Len(windows) /\ cursor' = windows[w + 1].start
    BY <1>3, <1>4
  <2>2. windows[w + 1] \in Range(windows) /\ windows[w + 1] \in Interval
    BY <2>1 DEF Range, TypeOK
  <2>3. Window' = windows[w + 1]
    BY <1>3 DEF Window
  <2>4. Window'.start <= cursor' /\ cursor' < Window'.end
    BY <2>1, <2>2, <2>3 DEF LoopInvariant, WindowsInRange, Interval
  <2>5. Len(busy') \in Nat
    BY DEF TypeOK
  <2> QED
    BY <1>3, <2>4, <2>5 DEF CursorInWindow
<1>9. AllDealtWith'
  <2> SUFFICES ASSUME NEW t \in Instants, DealtWith(t)'
               PROVE Covers(free', t) \/ \E b \in Occupied : Contains(b, t)
    BY <1>1 DEF AllDealtWith, Instants, Covers
  <2>1. t \in Int
    BY AvailabilityAssumption DEF Instants, TypeOK, Query
  <2>2. PICK j \in 1 .. w : Contains(windows[j], t)
    <3>1. ASSUME pc' = "subtract" PROVE ~(Window'.start <= t /\ t < cursor')
      <4>1. windows[w + 1] \in Interval
        BY <1>3, <1>4, <3>1 DEF TypeOK
      <4>2. Window' = windows[w + 1] /\ cursor' = windows[w + 1].start
        BY <1>3, <1>4, <3>1 DEF Window
      <4> QED
        BY <2>1, <4>1, <4>2 DEF Interval
    <3> QED
      BY <1>3, <3>1 DEF DealtWith
  <2>3. CASE DealtWith(t)
    <3>1. Covers(free, t) \/ \E b \in Occupied : Contains(b, t)
      BY <2>3 DEF LoopInvariant, AllDealtWith
    <3> QED
      BY <1>2, <3>1 DEF Covers
  <2>4. CASE ~DealtWith(t)
    <3>1. j = w
      <4>1. ~(j \in 1 .. w - 1)
        BY <2>2, <2>4 DEF DealtWith
      <4> QED
        BY <1>3, <4>1
    <3>2. Window.start <= t /\ t < Window.end
      BY <2>2, <3>1 DEF Contains, Window
    <3>3. cursor <= t
      BY <2>1, <2>4, <3>2, AtHand DEF DealtWith
    <3>4. CASE t < end
      <4>1. Covers(Gap(end), t)
        BY <2>1, <3>3, <3>4, GapIsFree
      <4> QED
        BY <1>2, <4>1 DEF Covers
    <3>5. CASE ~(t < end)
      BY <2>1, <3>2, <3>5
    <3> QED
      BY <3>4, <3>5
  <2> QED
    BY <2>3, <2>4
<1> QED
  BY <1>2, <1>5, <1>6, <1>7, <1>8, <1>9 DEF LoopInvariant

LEMMA InductivePassTaken == TypeOK /\ TypeOK' /\ LoopInvariant /\ PassTaken => LoopInvariant'
<1> SUFFICES ASSUME TypeOK, TypeOK', LoopInvariant, PassTaken PROVE LoopInvariant'
  OBVIOUS
<1>1. UNCHANGED <<query, standing, windows, blocks, taken, busy, reply>>
      /\ pc = "subtract" /\ k <= Len(busy)
      /\ Taken.end > cursor /\ Taken.start < Window.end
  BY DEF PassTaken, Unread, database, reads
<1>2. k \in 1 .. Len(busy) /\ Taken = busy[k] /\ Taken \in Interval /\ Taken \in Occupied
  BY <1>1, AtHand DEF Taken, TypeOK
<1>3. Taken.start \in Int /\ Taken.end \in Int /\ Window.end \in Int /\ Window.start \in Int
  BY <1>1, <1>2, AtHand DEF Interval
<1>4. \A j \in k .. Len(busy) : Taken.start <= busy[j].start
  BY <1>1, <1>2, <1>3, AtHand
<1>5. Taken.start <= Window.end
  BY <1>1, <1>3
<1>6. CASE Taken.end >= Window.end
  <2>1. \A t \in Int : Taken.start <= t /\ t < Window.end =>
          \E b \in Occupied : Contains(b, t)
    BY <1>2, <1>3, <1>6 DEF Contains
  <2>2. NextWindow(Gap(Taken.start))
    BY <1>6 DEF PassTaken
  <2> QED
    BY <1>1, <1>3, <1>4, <1>5, <2>1, <2>2, InductiveNextWindow
<1>7. CASE ~(Taken.end >= Window.end)
  <2>1. free' = free \o Gap(Taken.start) /\ cursor' = Taken.end /\ k' = k + 1
        /\ UNCHANGED <<pc, w>>
    BY <1>7 DEF PassTaken
  <2>2. GapsAreFree' /\ SlotsAreGaps'
        /\ Range(free') = Range(free) \cup Range(Gap(Taken.start))
    BY <1>1, <1>3, <1>4, <1>5, <2>1, AddGap
  <2>3. Asked' = Asked /\ Occupied' = Occupied /\ Window' = Window
    BY <1>1, <2>1 DEF Asked, Occupied, Window
  <2>4. WindowsInRange' /\ NothingFoundYet' /\ BusySorted' /\ WindowAtHand' /\ StandingWasRead'
    BY <1>1, <2>1, <2>3 DEF LoopInvariant, WindowsInRange, NothingFoundYet, BusySorted,
       WindowAtHand, StandingWasRead, Answered200
  <2>5. CursorInWindow'
    <3>1. Window.start <= cursor' /\ cursor' < Window.end
      BY <1>1, <1>3, <1>7, <2>1, AtHand
    <3>2. k' <= Len(busy) + 1
      BY <1>2, <2>1
    <3>3. \A j \in 1 .. k' - 1 : busy[j].end <= cursor'
      <4> SUFFICES ASSUME NEW j \in 1 .. k PROVE busy[j].end <= Taken.end
        BY <1>2, <2>1
      <4>1. CASE j = k
        BY <1>2, <1>3, <4>1
      <4>2. CASE j # k
        <5>1. busy[j].end <= cursor /\ busy[j] \in Interval /\ cursor \in Int
          BY <1>1, <1>2, <4>2, AtHand
        <5> QED
          BY <1>1, <1>3, <5>1 DEF Interval
      <4> QED
        BY <4>1, <4>2
    <3> QED
      BY <1>1, <2>3, <3>1, <3>2, <3>3 DEF CursorInWindow
  <2>6. AllDealtWith'
    <3> SUFFICES ASSUME NEW t \in Instants, DealtWith(t)'
                 PROVE Covers(free', t) \/ \E b \in Occupied : Contains(b, t)
      BY <1>1, <2>3 DEF AllDealtWith, Instants, Covers
    <3>1. t \in Int
      BY AvailabilityAssumption DEF Instants, TypeOK, Query
    <3>2. CASE DealtWith(t)
      <4>1. Covers(free, t) \/ \E b \in Occupied : Contains(b, t)
        BY <1>1, <3>2 DEF LoopInvariant, AllDealtWith
      <4> QED
        BY <2>2, <4>1 DEF Covers
    <3>3. CASE ~DealtWith(t)
      <4>1. cursor <= t /\ t < Taken.end
        BY <1>1, <2>1, <2>3, <3>1, <3>3, AtHand DEF DealtWith
      <4>2. CASE t < Taken.start
        <5>1. Covers(Gap(Taken.start), t)
          BY <1>1, <1>3, <1>4, <1>5, <3>1, <4>1, <4>2, GapIsFree
        <5> QED
          BY <2>2, <5>1 DEF Covers
      <4>3. CASE ~(t < Taken.start)
        BY <1>2, <1>3, <3>1, <4>1, <4>3 DEF Contains
      <4> QED
        BY <4>2, <4>3
    <3> QED
      BY <3>2, <3>3
  <2> QED
    BY <2>2, <2>4, <2>5, <2>6 DEF LoopInvariant
<1> QED
  BY <1>6, <1>7

(* When a window is closed, nothing busy is left in it.                     *)
LEMMA ClosingFacts ==
  ASSUME TypeOK, LoopInvariant, CloseWindow
  PROVE  \A j \in k .. Len(busy) : Window.end <= busy[j].start
<1> SUFFICES ASSUME NEW j \in k .. Len(busy) PROVE Window.end <= busy[j].start
  OBVIOUS
<1>1. pc = "subtract"
  BY DEF CloseWindow
<1>2. k \in 1 .. Len(busy) /\ j \in 1 .. Len(busy) /\ Window.end \in Int
  BY <1>1, AtHand DEF Interval
<1>3. busy[k] \in Interval /\ busy[j] \in Interval /\ (k < j => busy[k].start <= busy[j].start)
  BY <1>1, <1>2, AtHand
<1>4. Window.end <= busy[k].start
  BY <1>2, <1>3 DEF CloseWindow, Unread, Taken, Interval
<1>5. k = j \/ k < j
  BY <1>2
<1> QED
  BY <1>2, <1>3, <1>4, <1>5 DEF Interval

LEMMA InductiveCloseWindow == TypeOK /\ TypeOK' /\ LoopInvariant /\ CloseWindow => LoopInvariant'
<1> SUFFICES ASSUME TypeOK, TypeOK', LoopInvariant, CloseWindow PROVE LoopInvariant'
  OBVIOUS
<1>1. UNCHANGED <<query, standing, windows, blocks, taken, busy, reply>>
      /\ pc = "subtract" /\ NextWindow(Gap(Window.end))
  BY DEF CloseWindow, database, reads
<1>2. Window.end \in Int /\ Window.end <= Window.end
  BY <1>1, AtHand DEF Interval
<1>3. \A j \in k .. Len(busy) : Window.end <= busy[j].start
  BY ClosingFacts
<1>4. \A t \in Int : Window.end <= t /\ t < Window.end => \E b \in Occupied : Contains(b, t)
  BY <1>2
<1> QED
  BY <1>1, <1>2, <1>3, <1>4, InductiveNextWindow

LEMMA InductiveNext == TypeOK /\ TypeOK' /\ LoopInvariant /\ [Next]_vars => LoopInvariant'
<1> SUFFICES ASSUME TypeOK, TypeOK', LoopInvariant, [Next]_vars PROVE LoopInvariant'
  OBVIOUS
<1>1. CASE FindSlots
  BY <1>1, InductiveReceive, InductiveReads, InductiveReadSchedule, InductiveWalkDay,
     InductiveReadReservations, InductiveSort, InductiveSkipTaken, InductivePassTaken,
     InductiveCloseWindow, InductiveFilter DEF FindSlots, Subtract
<1>2. CASE Surroundings
  <2>1. UNCHANGED handler /\ standing' \subseteq standing
    BY <1>2 DEF Surroundings, Book, Cancel, ChangeZone, SwitchActive
  <2> QED
    BY <2>1, InductiveSurroundings
<1>3. CASE UNCHANGED vars
  <2>1. UNCHANGED handler /\ standing' \subseteq standing
    BY <1>3 DEF vars, handler, database
  <2> QED
    BY <2>1, InductiveSurroundings
<1> QED
  BY <1>1, <1>2, <1>3 DEF Next, Answered

-----------------------------------------------------------------------------
(* The walk over the days. *)

(* What holds until a row is clipped, and after. *)
BeforeWalk ==
  /\ pc \in {"new", "resource", "schedule"} => windows = <<>>
  /\ pc = "walk" => schedule # {}

SinceWalk == pc \in {"walk", "busy", "subtract", "filter"} \/ Answered200

StaysTraced == SinceWalk => Traced

(* A list in which a set of rows comes back names no row twice.             *)
LEMMA ArrangementsDistinct ==
  ASSUME NEW S, IsFiniteSet(S), NEW s \in Arrangements(S),
         NEW i \in DOMAIN s, NEW j \in DOMAIN s, s[i] = s[j]
  PROVE  i = j
<1> DEFINE n == Cardinality(S)
<1>1. n \in Nat
  BY FS_CardinalityType
<1>2. IsFiniteSet(1 .. n) /\ Cardinality(1 .. n) = n
  BY <1>1, FS_Interval
<1>3. s \in [1 .. n -> S] /\ \A e \in S : \E m \in 1 .. n : s[m] = e
  BY DEF Arrangements
<1>4. s \in Surjection(1 .. n, S)
  BY <1>3 DEF Surjection
<1>5. s \in Injection(1 .. n, S)
  BY <1>2, <1>4, FS_SurjSameCardinalityImpliesInj
<1> QED
  BY <1>3, <1>5 DEF Injection, IsInjective

(* The walk stops once a day, counted from its first midnight.              *)
LEMMA StopsApart ==
  ASSUME NEW a \in Int, NEW b \in Int, a % DayLength = 0, b % DayLength = 0,
         a <= b, b < a + DayLength
  PROVE  a = b
<1> DEFINE d == a \div DayLength
           e == b \div DayLength
<1>1. d \in Int /\ e \in Int /\ a = d * DayLength /\ b = e * DayLength
  BY DayAndTime, WallClockAssumption
<1> HIDE DEF d, e
<1>2. ~(d < e)
  BY <1>1, DaysInOrder, WallClockAssumption
<1>3. ~(e < d)
  BY <1>1, DaysInOrder, WallClockAssumption
<1> QED
  BY <1>1, <1>2, <1>3

LEMMA NextStop ==
  ASSUME NEW a \in Int, a % DayLength = 0
  PROVE  (a + DayLength) % DayLength = 0
<1> DEFINE d == a \div DayLength
<1>1. d \in Int /\ a = d * DayLength
  BY DayAndTime, WallClockAssumption
<1> HIDE DEF d
<1>2. a + DayLength = (d + 1) * DayLength /\ a + DayLength \in Int
      /\ (d + 1) * DayLength < (d + 1 + 1) * DayLength
  BY <1>1, WallClockAssumption
<1>3. (a + DayLength) % DayLength = (a + DayLength) - (d + 1) * DayLength
  BY <1>1, <1>2, DayIsUnique
<1> QED
  BY <1>1, <1>2, <1>3, WallClockAssumption

(* The origins of windows, and where the walk began, depend on what the     *)
(* handler was asked and has read.                                         *)
LEMMA OriginsKept ==
  ASSUME UNCHANGED <<schedule, query, tz, day>>
  PROVE  /\ Origins' = Origins /\ Asked' = Asked
         /\ StartOfDay(tz, query.from)' = StartOfDay(tz, query.from)
         /\ \A o : WindowOf(o)' = WindowOf(o)
<1>1. \A o : WindowOf(o)' = WindowOf(o)
  BY DEF WindowOf, Clipped
<1> QED
  BY <1>1 DEF Origins, Stops, Asked

LEMMA TracedKept ==
  ASSUME Traced, UNCHANGED <<schedule, query, tz, day, windows>>,
         pc' # "walk" => pc # "walk" \/ day >= query.to
  PROVE  Traced'
BY OriginsKept DEF Traced, Range

LEMMA OriginsOfDay ==
  ASSUME TypeOK, Traced, pc = "walk", schedule # {}, day < query.to,
         day' = day + DayLength, UNCHANGED <<schedule, query, tz>>
  PROVE  /\ Origins' = Origins \cup ({day} \X DayRows(LocalDay(tz, day)))
         /\ \A o \in Origins : o[1] # day
         /\ day' >= StartOfDay(tz, query.from)
         /\ (day' - StartOfDay(tz, query.from)) % DayLength = 0
<1> DEFINE first == StartOfDay(tz, query.from)
<1>1. first \in Int /\ day \in Int /\ query.to \in Int /\ DayLength \in Nat \ {0}
  BY ClocksType, AvailabilityAssumption, WallClockAssumption DEF TypeOK, Query
<1>2. day >= first /\ (day - first) % DayLength = 0
  BY DEF Traced
<1>3. Stops' = Stops /\ \A o : WindowOf(o)' = WindowOf(o)
  BY DEF Stops, WindowOf, Clipped
<1>4. Stops = {d \in first .. query.to - 1 : (d - first) % DayLength = 0}
  BY DEF Stops
<1> HIDE DEF first
<1>5. \A d \in Stops : d < day + DayLength <=> d < day \/ d = day
  <2> SUFFICES ASSUME NEW d \in Stops, d < day + DayLength, ~(d < day) PROVE d = day
    BY <1>1, <1>4
  <2>1. d \in Int /\ (d - first) % DayLength = 0 /\ d - first \in Int /\ day - first \in Int
    BY <1>1, <1>4
  <2>2. day - first <= d - first /\ d - first < day - first + DayLength
    BY <1>1, <2>1
  <2>3. day - first = d - first
    BY <1>2, <2>1, <2>2, StopsApart
  <2> QED
    BY <1>1, <2>1, <2>3
<1>6. day \in Stops
  BY <1>1, <1>2, <1>4
<1>7. {d \in Stops : d < day'} = {d \in Stops : d < day} \cup {day}
  BY <1>1, <1>5, <1>6
<1>8. \A o : o \in {day} \X DayRows(LocalDay(tz, day)) <=>
             /\ o \in {day} \X schedule
             /\ o[2].day = DayOfWeek(LocalDay(tz, o[1]))
             /\ WindowOf(o).start < WindowOf(o).end
  BY DEF DayRows, WindowOf
<1>9. Origins' = {o \in {d \in Stops : d < day'} \X schedule :
                    /\ o[2].day = DayOfWeek(LocalDay(tz, o[1]))
                    /\ WindowOf(o).start < WindowOf(o).end}
  BY <1>3 DEF Origins
<1>10. Origins' = Origins \cup ({day} \X DayRows(LocalDay(tz, day)))
  BY <1>7, <1>8, <1>9 DEF Origins
<1>11. \A o \in Origins : o[1] # day
  BY <1>1, <1>4 DEF Origins
<1>12. day' - first = (day - first) + DayLength /\ day - first \in Int /\ day' >= first
  BY <1>1, <1>2
<1>13. (day' - first) % DayLength = 0
  BY <1>2, <1>12, NextStop
<1> QED
  BY <1>10, <1>11, <1>12, <1>13 DEF first

LEMMA TracedWalkDay ==
  ASSUME TypeOK, Traced, schedule # {}, WalkDay
  PROVE  Traced'
<1> DEFINE local == LocalDay(tz, day)
<1>1. UNCHANGED <<schedule, query, tz>> /\ pc = "walk" /\ pc' = "walk"
      /\ day < query.to /\ day' = day + DayLength
  BY DEF WalkDay, database
<1>2. PICK rows \in Arrangements(DayRows(local)) :
        windows' = windows \o [i \in DOMAIN rows |-> Clipped(rows[i], local)]
  BY DEF WalkDay
<1>3. DayRows(local) \subseteq schedule /\ IsFiniteSet(DayRows(local))
  <2>1. DayRows(local) \subseteq schedule
    BY DEF DayRows
  <2> QED
    BY <2>1, FS_Subset, AvailabilityAssumption DEF TypeOK
<1>4. rows \in Seq(DayRows(local)) /\ Range(rows) = DayRows(local)
  BY <1>3, ArrangementsType
<1>5. \A i, j \in DOMAIN rows : i # j => rows[i] # rows[j]
  BY <1>3, ArrangementsDistinct
<1>6. /\ Origins' = Origins \cup ({day} \X DayRows(local))
      /\ \A o \in Origins : o[1] # day
      /\ day' >= StartOfDay(tz, query.from)
      /\ (day' - StartOfDay(tz, query.from)) % DayLength = 0
  BY <1>1, OriginsOfDay
<1>7. \A o : WindowOf(o)' = WindowOf(o)
  BY <1>1 DEF WindowOf, Clipped
<1>8. \A row : WindowOf(<<day, row>>) = Clipped(row, local)
  BY DEF WindowOf
<1> HIDE DEF local
<1> DEFINE found == [i \in DOMAIN rows |-> Clipped(rows[i], local)]
<1>9. found \in Seq(Interval) /\ DOMAIN found = DOMAIN rows
  <2>1. local \in Int
    BY AvailabilityAssumption, ClocksType DEF TypeOK, local
  <2>2. \A row \in DayRows(local) : Clipped(row, local) \in Interval
    BY <1>3, <2>1, ClippedType
  <2> QED
    BY <1>4, <2>2
<1>10. windows \in Seq(Interval) /\ windows' = windows \o found
  BY <1>2 DEF TypeOK
<1>11. \A i \in DOMAIN found : /\ <<day, rows[i]>> \in Origins'
                               /\ found[i] = WindowOf(<<day, rows[i]>>)
  BY <1>4, <1>6, <1>8 DEF Range
<1>12. \A o \in {day} \X DayRows(local) : \E i \in DOMAIN found : found[i] = WindowOf(o)
  BY <1>4, <1>8, <1>9 DEF Range
<1> HIDE DEF found
<1>13. Range(windows') = Range(windows) \cup Range(found)
  BY <1>9, <1>10, RangeConcatenation
<1>14. {WindowOf(o) : o \in Origins} = Range(windows)
       /\ \A i, j \in DOMAIN windows : i < j =>
            \E o \in Origins : /\ windows[i] = WindowOf(o)
                              /\ \E q \in Origins \ {o} : windows[j] = WindowOf(q)
  BY DEF Traced
<1>18. \A p \in Range(windows) : \E o \in Origins : p = WindowOf(o)
  BY <1>14
<1>15. {WindowOf(o)' : o \in Origins'} = Range(windows')
  <2>1. \A o \in Origins' : WindowOf(o) \in Range(windows')
    BY <1>6, <1>12, <1>13, <1>14 DEF Range
  <2>2. \A p \in Range(windows') : \E o \in Origins' : p = WindowOf(o)
    <3> SUFFICES ASSUME NEW p \in Range(found) PROVE \E o \in Origins' : p = WindowOf(o)
      BY <1>6, <1>13, <1>18
    <3> QED
      BY <1>11 DEF Range
  <2> QED
    BY <1>7, <2>1, <2>2
<1>16. ASSUME NEW i \in DOMAIN windows', NEW j \in DOMAIN windows', i < j
       PROVE  \E o \in Origins' : /\ windows'[i] = WindowOf(o)
                                 /\ \E q \in Origins' \ {o} : windows'[j] = WindowOf(q)
  <2> DEFINE n == Len(windows)
  <2>1. /\ n \in Nat /\ DOMAIN windows = 1 .. n /\ i \in Nat \ {0} /\ j \in Nat \ {0}
        /\ i <= n => windows'[i] = windows[i]
        /\ j <= n => windows'[j] = windows[j]
        /\ i > n => i - n \in DOMAIN found /\ windows'[i] = found[i - n]
        /\ j > n => j - n \in DOMAIN found /\ windows'[j] = found[j - n]
    BY <1>9, <1>10
  <2> HIDE DEF n
  <2>2. CASE j <= n
    BY <1>6, <1>14, <1>16, <2>1, <2>2
  <2>3. CASE i <= n /\ j > n
    <3>1. PICK o \in Origins : windows[i] = WindowOf(o)
      <4>1. windows[i] \in Range(windows)
        BY <2>1, <2>3 DEF Range
      <4> QED
        BY <1>18, <4>1
    <3>2. <<day, rows[j - n]>> \in Origins' /\ found[j - n] = WindowOf(<<day, rows[j - n]>>)
      BY <1>11, <2>1, <2>3
    <3>3. o # <<day, rows[j - n]>>
      BY <1>6
    <3> QED
      BY <1>6, <2>1, <2>3, <3>1, <3>2, <3>3
  <2>4. CASE i > n /\ j > n
    <3>1. rows[i - n] # rows[j - n]
      <4>1. i - n # j - n /\ i - n \in DOMAIN rows /\ j - n \in DOMAIN rows
        BY <1>9, <1>16, <2>1, <2>4
      <4> QED
        BY <1>5, <4>1
    <3>2. <<day, rows[i - n]>> # <<day, rows[j - n]>>
      BY <3>1
    <3> QED
      BY <1>11, <2>1, <2>4, <3>2
  <2> QED
    BY <1>16, <2>1, <2>2, <2>3, <2>4
<1>17. StartOfDay(tz, query.from)' = StartOfDay(tz, query.from)
  BY <1>1
<1> QED
  BY <1>1, <1>6, <1>7, <1>15, <1>16, <1>17 DEF Traced

LEMMA TracedReadSchedule ==
  ASSUME TypeOK, BeforeWalk, ReadSchedule
  PROVE  Traced' /\ BeforeWalk'
<1>1. UNCHANGED <<schedule, query, tz>>
  BY DEF ReadSchedule, database
<1>2. CASE schedule = {}
  BY <1>1, <1>2 DEF ReadSchedule, Traced, Asked, BeforeWalk
<1>3. CASE schedule # {}
  <2>1. windows' = <<>> /\ pc' = "walk" /\ day' = StartOfDay(tz, query.from)
    BY <1>3 DEF ReadSchedule, BeforeWalk
  <2>2. day' \in Int /\ query.to \in Int
    BY <2>1, ClocksType, AvailabilityAssumption DEF TypeOK, Query
  <2>3. \A d \in Stops' : d \in Int /\ ~(d < day')
    BY <1>1, <2>1, <2>2 DEF Stops
  <2>4. Origins' = {}
    BY <2>3 DEF Origins
  <2>5. (day' - day') % DayLength = 0
    <3>1. 0 \in Int /\ 0 * DayLength <= 0 /\ 0 < (0 + 1) * DayLength
      BY WallClockAssumption
    <3>2. 0 % DayLength = 0
      BY <3>1, DayIsUnique, WallClockAssumption
    <3> QED
      BY <2>2, <3>2
  <2>6. Range(windows') = {} /\ DOMAIN windows' = {}
    BY <2>1 DEF Range
  <2> QED
    BY <1>1, <1>3, <2>1, <2>2, <2>4, <2>5, <2>6 DEF Traced, BeforeWalk
<1> QED
  BY <1>2, <1>3

LEMMA TracedNext ==
  ASSUME TypeOK, BeforeWalk, StaysTraced, [Next]_vars
  PROVE  BeforeWalk' /\ StaysTraced'
<1> USE DEF SinceWalk, Answered200
<1>1. CASE Receive \/ ReadResource
  BY <1>1 DEF Receive, ReadResource, Answer, BeforeWalk, StaysTraced, reads
<1>2. CASE ReadSchedule
  BY <1>2, TracedReadSchedule DEF StaysTraced
<1>3. CASE WalkDay
  BY <1>3, TracedWalkDay DEF WalkDay, BeforeWalk, StaysTraced, database
<1>4. CASE WalkEnds \/ ReadBlocks \/ ReadReservations \/ Sort \/ Subtract \/ Filter
  <2>1. UNCHANGED <<schedule, query, tz, day, windows>> /\ pc' # "walk" /\ SinceWalk
        /\ (pc = "walk" => day >= query.to) /\ pc' \notin {"new", "resource", "schedule"}
    BY <1>4 DEF WalkEnds, ReadBlocks, ReadReservations, Sort, Subtract, SkipTaken, PassTaken,
       CloseWindow, NextWindow, Filter, Answer, database, reads, loop
  <2> QED
    BY <2>1, TracedKept DEF BeforeWalk, StaysTraced
<1>5. CASE Surroundings \/ UNCHANGED vars
  <2>1. UNCHANGED <<schedule, query, tz, day, windows, pc, reply>>
    BY <1>5 DEF Surroundings, Book, Cancel, ChangeZone, SwitchActive, handler, reads, vars,
       database
  <2> QED
    BY <2>1, TracedKept DEF BeforeWalk, StaysTraced
<1> QED
  BY <1>1, <1>2, <1>3, <1>4, <1>5 DEF Next, FindSlots, Answered

-----------------------------------------------------------------------------
(* Periods that stay free. *)

(* The gap that ends where the next busy interval starts contains whatever  *)
(* free period starts behind the cursor and ends by then.                  *)
LEMMA GapTakesIn ==
  ASSUME TypeOK, LoopInvariant, pc = "subtract", NEW end \in Int,
         NEW p \in Interval, p.start < p.end, cursor <= p.start, p.end <= end
  PROVE  \E gap \in Range(Gap(end)) : IsWithin(p, gap)
<1>1. cursor \in Int /\ cursor < end
  BY DEF TypeOK, Interval
<1>2. Range(Gap(end)) = {[start |-> cursor, end |-> end]}
  BY <1>1 DEF Gap, Range
<1> QED
  BY <1>2 DEF IsWithin

LEMMA BookableType ==
  ASSUME TypeOK
  PROVE  \A p \in Bookable : /\ p \in Interval /\ p.start < p.end
                             /\ query.from <= p.start /\ p.end <= query.to
BY AvailabilityAssumption DEF TypeOK, Query, Bookable, Instants, ValidPeriod, Interval

(* A step that adds the gap up to an instant, when no free period starts    *)
(* before the place reached then but after it.                             *)
LEMMA FreePeriodsStep ==
  ASSUME TypeOK, TypeOK', LoopInvariant, FreePeriodsFound, pc = "subtract",
         NEW end \in Int, end <= Window.end,
         \A j \in k .. Len(busy) : end <= busy[j].start,
         free' = free \o Gap(end),
         UNCHANGED <<query, windows, blocks, taken, reply>>,
         \A p \in Bookable :
           StartsBehind(p)' /\ ~StartsBehind(p) /\ (\A b \in Occupied : ~Overlaps(p, b)) =>
             cursor <= p.start /\ p.end <= end
  PROVE  FreePeriodsFound'
<1>1. Occupied' = Occupied /\ Bookable' = Bookable
  BY DEF Occupied, Bookable, Instants
<1>2. Range(free') = Range(free) \cup Range(Gap(end))
  BY AddGap
<1> SUFFICES ASSUME NEW p \in Bookable, StartsBehind(p)',
                    \A b \in Occupied : ~Overlaps(p, b)
             PROVE  \E gap \in Range(free') : IsWithin(p, gap)
  BY <1>1 DEF FreePeriodsFound
<1>3. CASE StartsBehind(p)
  BY <1>2, <1>3 DEF FreePeriodsFound
<1>4. CASE ~StartsBehind(p)
  <2>1. cursor <= p.start /\ p.end <= end /\ p \in Interval /\ p.start < p.end
    BY <1>4, BookableType
  <2> QED
    BY <1>2, <2>1, GapTakesIn
<1> QED
  BY <1>3, <1>4

(* The window is left: nothing in it starts behind its last gap.            *)
LEMMA FreePeriodsNextWindow ==
  ASSUME TypeOK, TypeOK', LoopInvariant, FreePeriodsFound, pc = "subtract",
         NEW end \in Int, end <= Window.end,
         \A j \in k .. Len(busy) : end <= busy[j].start,
         \A p \in Bookable :
           IsWithin(p, Window) /\ (\A b \in Occupied : ~Overlaps(p, b)) /\ cursor <= p.start
             => p.end <= end,
         NextWindow(Gap(end)),
         UNCHANGED <<query, windows, blocks, taken, busy, reply>>
  PROVE  FreePeriodsFound'
<1>1. w' = w + 1 /\ free' = free \o Gap(end) /\ w \in 1 .. Len(windows)
      /\ Len(windows) \in Nat
  BY AtHand DEF NextWindow, TypeOK
<1>2. ASSUME NEW p \in Bookable, StartsBehind(p)', ~StartsBehind(p)
      PROVE  IsWithin(p, Window) /\ cursor <= p.start
  <2>1. p \in Interval /\ cursor \in Int
    BY BookableType DEF TypeOK
  <2>2. ASSUME pc' = "subtract", IsWithin(p, Window'), p.start < cursor' PROVE FALSE
    <3>1. w < Len(windows) /\ cursor' = windows[w + 1].start
      BY <1>1, <2>2 DEF NextWindow
    <3>2. Window' = windows[w + 1] /\ windows[w + 1] \in Interval
      BY <1>1, <3>1 DEF Window, TypeOK
    <3> QED
      BY <2>1, <2>2, <3>1, <3>2 DEF IsWithin, Interval
  <2>3. PICK j \in 1 .. w : IsWithin(p, windows[j])
    BY <1>1, <1>2, <2>2 DEF StartsBehind
  <2>4. j = w
    BY <1>1, <1>2, <2>3 DEF StartsBehind
  <2>5. IsWithin(p, Window)
    BY <2>3, <2>4 DEF Window
  <2> QED
    BY <1>2, <2>1, <2>5 DEF StartsBehind, Interval
<1> QED
  BY <1>1, <1>2, FreePeriodsStep

LEMMA FreePeriodsPassTaken ==
  TypeOK /\ TypeOK' /\ LoopInvariant /\ FreePeriodsFound /\ PassTaken => FreePeriodsFound'
<1> SUFFICES ASSUME TypeOK, TypeOK', LoopInvariant, FreePeriodsFound, PassTaken
             PROVE  FreePeriodsFound'
  OBVIOUS
<1>1. UNCHANGED <<query, windows, blocks, taken, busy, reply>>
      /\ pc = "subtract" /\ k <= Len(busy)
      /\ Taken.end > cursor /\ Taken.start < Window.end
  BY DEF PassTaken, Unread, database, reads
<1>2. k \in 1 .. Len(busy) /\ Taken = busy[k] /\ Taken \in Interval /\ Taken \in Occupied
  BY <1>1, AtHand DEF Taken, TypeOK
<1>3. Taken.start \in Int /\ Taken.end \in Int /\ Window.end \in Int /\ cursor \in Int
      /\ Taken.start <= Window.end
  BY <1>1, <1>2, AtHand DEF Interval
<1>4. \A j \in k .. Len(busy) : Taken.start <= busy[j].start
  BY <1>1, <1>2, <1>3, AtHand
<1>5. ASSUME NEW p \in Bookable, p.start < Taken.end, \A b \in Occupied : ~Overlaps(p, b)
      PROVE  p.end <= Taken.start
  BY <1>2, <1>3, <1>5, BookableType DEF Overlaps, Interval
<1>6. CASE Taken.end >= Window.end
  <2>1. NextWindow(Gap(Taken.start))
    BY <1>6 DEF PassTaken
  <2>2. ASSUME NEW p \in Bookable, IsWithin(p, Window), \A b \in Occupied : ~Overlaps(p, b)
        PROVE  p.end <= Taken.start
    <3>1. p.start < Taken.end
      BY <1>3, <1>6, <2>2, BookableType DEF IsWithin, Interval
    <3> QED
      BY <1>5, <2>2, <3>1
  <2> QED
    BY <1>1, <1>3, <1>4, <2>1, <2>2, FreePeriodsNextWindow
<1>7. CASE ~(Taken.end >= Window.end)
  <2>1. free' = free \o Gap(Taken.start) /\ cursor' = Taken.end /\ UNCHANGED <<pc, w>>
    BY <1>7 DEF PassTaken
  <2>2. ASSUME NEW p \in Bookable, StartsBehind(p)', ~StartsBehind(p),
               \A b \in Occupied : ~Overlaps(p, b)
        PROVE  cursor <= p.start /\ p.end <= Taken.start
    <3>1. cursor <= p.start /\ p.start < Taken.end
      BY <1>1, <1>3, <2>1, <2>2, BookableType DEF StartsBehind, Window, Interval
    <3> QED
      BY <1>5, <2>2, <3>1
  <2> QED
    BY <1>1, <1>3, <1>4, <2>1, <2>2, FreePeriodsStep
<1> QED
  BY <1>6, <1>7

LEMMA FreePeriodsCloseWindow ==
  TypeOK /\ TypeOK' /\ LoopInvariant /\ FreePeriodsFound /\ CloseWindow => FreePeriodsFound'
<1> SUFFICES ASSUME TypeOK, TypeOK', LoopInvariant, FreePeriodsFound, CloseWindow
             PROVE  FreePeriodsFound'
  OBVIOUS
<1>1. UNCHANGED <<query, windows, blocks, taken, busy, reply>>
      /\ pc = "subtract" /\ NextWindow(Gap(Window.end))
      /\ \A j \in k .. Len(busy) : Window.end <= busy[j].start
  BY ClosingFacts DEF CloseWindow, database, reads
<1>2. Window.end \in Int /\ Window.end <= Window.end
  BY <1>1, AtHand DEF Interval
<1>3. \A p \in Bookable : IsWithin(p, Window) => p.end <= Window.end
  BY DEF IsWithin
<1> QED
  BY <1>1, <1>2, <1>3, FreePeriodsNextWindow

LEMMA FreePeriodsNext ==
  TypeOK /\ TypeOK' /\ LoopInvariant /\ FreePeriodsFound /\ [Next]_vars => FreePeriodsFound'
<1> SUFFICES ASSUME TypeOK, TypeOK', LoopInvariant, FreePeriodsFound, [Next]_vars
             PROVE  FreePeriodsFound'
  OBVIOUS
<1> USE DEF Answered200
<1>1. CASE Receive \/ ReadResource \/ ReadSchedule \/ WalkDay \/ WalkEnds \/ ReadBlocks
           \/ ReadReservations
  BY <1>1 DEF Receive, ReadResource, ReadSchedule, WalkDay, WalkEnds, ReadBlocks,
     ReadReservations, Answer, FreePeriodsFound
<1>2. CASE Sort
  <2>1. w' = 1 /\ UNCHANGED query /\ (pc' = "subtract" => Window'.start = cursor')
        /\ pc' \in {"subtract", "filter"}
    BY <1>2 DEF Sort, LoopInvariant, NothingFoundYet, Window, database
  <2>2. ASSUME NEW p \in Bookable PROVE ~StartsBehind(p)'
    <3>1. ~(\E j \in 1 .. w' - 1 : IsWithin(p, windows'[j]))
      BY <2>1
    <3>2. pc' = "subtract" => ~(IsWithin(p, Window') /\ p.start < cursor')
      <4>1. p.start \in Int /\ cursor' \in Int
        BY BookableType DEF TypeOK, Interval
      <4> QED
        BY <2>1, <4>1 DEF IsWithin
    <3> QED
      BY <3>1, <3>2 DEF StartsBehind
  <2>3. Bookable' = Bookable
    BY <2>1 DEF Bookable, Instants
  <2> QED
    BY <2>2, <2>3 DEF FreePeriodsFound
<1>3. CASE SkipTaken \/ Filter
  <2>1. UNCHANGED <<query, windows, blocks, taken, w, cursor, free>>
        /\ pc \in {"subtract", "filter"} /\ (pc' = pc \/ pc' = "done")
    BY <1>3 DEF SkipTaken, Filter, Answer, database, reads, loop
  <2> QED
    BY <2>1 DEF FreePeriodsFound, StartsBehind, Bookable, Instants, Occupied, Window
<1>4. CASE PassTaken \/ CloseWindow
  BY <1>4, FreePeriodsPassTaken, FreePeriodsCloseWindow
<1>5. CASE Surroundings \/ UNCHANGED vars
  <2>1. UNCHANGED <<pc, query, windows, blocks, taken, w, cursor, free, reply>>
    BY <1>5 DEF Surroundings, Book, Cancel, ChangeZone, SwitchActive, handler, reads, loop,
       vars, database
  <2> QED
    BY <2>1 DEF FreePeriodsFound, StartsBehind, Bookable, Instants, Occupied, Window
<1> QED
  BY <1>1, <1>2, <1>3, <1>4, <1>5 DEF Next, FindSlots, Subtract, Answered

-----------------------------------------------------------------------------
(* The theorems. *)

(* What every theorem rests on: Inductive, and that the windows remain what *)
(* the walk has found.                                                     *)
SlotsAreAll ==
  Answered200 => \A gap \in Range(free) : LongEnough(gap) => gap \in reply.slots

Strengthened ==
  TypeOK /\ LoopInvariant /\ BeforeWalk /\ StaysTraced /\ FreePeriodsFound /\ SlotsAreAll

LEMMA SlotsNext ==
  ASSUME SlotsAreAll, [Next]_vars
  PROVE  SlotsAreAll'
<1> USE DEF SlotsAreAll, Answered200
<1>1. CASE Filter
  BY <1>1 DEF Filter, Answer, LongEnough, loop
<1>2. CASE Receive \/ ReadResource \/ ReadSchedule
  BY <1>2 DEF Receive, ReadResource, ReadSchedule, Answer
<1>3. CASE WalkDay \/ WalkEnds \/ ReadBlocks \/ ReadReservations \/ Sort
  BY <1>3 DEF WalkDay, WalkEnds, ReadBlocks, ReadReservations, Sort
<1>4. CASE Subtract
  BY <1>4 DEF Subtract, SkipTaken, PassTaken, CloseWindow, NextWindow
<1>5. CASE Surroundings \/ UNCHANGED vars
  <2>1. UNCHANGED <<pc, query, free, reply>>
    BY <1>5 DEF Surroundings, Book, Cancel, ChangeZone, SwitchActive, handler, loop, vars
  <2> QED
    BY <2>1 DEF LongEnough
<1> QED
  BY <1>1, <1>2, <1>3, <1>4, <1>5 DEF Next, FindSlots, Answered

LEMMA AlwaysStrengthened == Spec => []Strengthened
<1>1. Init => Strengthened
  BY TypeInit, InductiveInit
  DEF Init, Strengthened, BeforeWalk, StaysTraced, SinceWalk, FreePeriodsFound, SlotsAreAll, Answered200
<1>2. Strengthened /\ [Next]_vars => Strengthened'
  <2> SUFFICES ASSUME Strengthened, [Next]_vars PROVE Strengthened'
    OBVIOUS
  <2> USE DEF Strengthened
  <2>1. TypeOK'
    BY TypeNext DEF LoopInvariant
  <2>2. LoopInvariant'
    BY <2>1, InductiveNext
  <2>3. BeforeWalk' /\ StaysTraced'
    BY TracedNext
  <2>4. FreePeriodsFound'
    BY <2>1, FreePeriodsNext
  <2>5. SlotsAreAll'
    BY SlotsNext
  <2> QED
    BY <2>1, <2>2, <2>3, <2>4, <2>5
<1> QED
  BY <1>1, <1>2, PTL DEF Spec

(* Whatever the rows, the zone, the calendar and their changes meanwhile,   *)
(* the request keeps its state well-formed and its invariant: the loops of *)
(* findSlots and subtractFromOne never lose an instant nor count one twice.*)
THEOREM InductiveInvariant == Spec => []Inductive
<1>1. Strengthened => Inductive
  BY DEF Strengthened, StaysTraced, SinceWalk, Inductive, WalkTraced
<1> QED
  BY <1>1, AlwaysStrengthened, PTL

(* The state keeps its type. *)
THEOREM TypeCorrect == Spec => []TypeOK
<1>1. Inductive => TypeOK
  BY DEF Inductive
<1> QED
  BY <1>1, InductiveInvariant, PTL

(* subtractIntervals: an instant is in a gap just when it is in an operating *)
(* window and neither blocked nor booked.                                  *)
THEOREM GapsAreExact == Spec => []GapsExact
<1>1. Inductive => GapsExact
  <2> SUFFICES ASSUME TypeOK, LoopInvariant, pc = "filter" \/ Answered200, NEW t \in Instants
               PROVE Covers(free, t) <=> /\ Covers(windows, t)
                                        /\ \A p \in Occupied : ~Contains(p, t)
    BY DEF Inductive, GapsExact, Occupied
  <2>1. t \in Int /\ windows \in Seq(Interval) /\ free \in Seq(Interval)
    BY AvailabilityAssumption DEF Instants, TypeOK, Query
  <2>2. ASSUME Covers(free, t)
        PROVE Covers(windows, t) /\ \A p \in Occupied : ~Contains(p, t)
    <3>1. PICK gap \in Range(free) : Contains(gap, t)
      BY <2>2 DEF Covers
    <3>2. PICK win \in Range(windows) : IsWithin(gap, win)
      BY DEF LoopInvariant, GapsAreFree
    <3>3. gap \in Interval /\ win \in Interval
      BY <2>1 DEF Range
    <3>4. Contains(win, t)
      BY <2>1, <3>1, <3>2, <3>3 DEF IsWithin, Contains, Interval
    <3>5. ASSUME NEW p \in Occupied PROVE ~Contains(p, t)
      <4>1. ~Overlaps(gap, p)
        BY DEF LoopInvariant, GapsAreFree
      <4>2. p \in Interval
        <5>1. Range(busy) = Occupied /\ busy \in Seq(Interval)
          BY DEF LoopInvariant, BusySorted, TypeOK
        <5> QED
          BY <5>1 DEF Range
      <4> QED
        BY <2>1, <3>1, <3>3, <4>1, <4>2 DEF Overlaps, Contains, Interval
    <3> QED
      BY <3>4, <3>5 DEF Covers
  <2>3. ASSUME Covers(windows, t), \A p \in Occupied : ~Contains(p, t) PROVE Covers(free, t)
    <3>1. PICK j \in DOMAIN windows : Contains(windows[j], t)
      BY <2>3 DEF Covers, Range
    <3>2. w = Len(windows) + 1
      BY DEF LoopInvariant, WindowAtHand
    <3>3. j \in 1 .. w - 1
      BY <2>1, <3>2
    <3> QED
      BY <2>3, <3>1, <3>3 DEF LoopInvariant, AllDealtWith, DealtWith
  <2> QED
    BY <2>2, <2>3
<1> QED
  BY <1>1, InductiveInvariant, PTL

(* The four reads see four states of the database, and yet a reservation    *)
(* that is confirmed before the request and not cancelled until the answer *)
(* overlaps none of the slots offered.                                     *)
THEOREM NothingTakenOffered == Spec => []StandingNotOffered
<1>1. Inductive => StandingNotOffered
  <2> SUFFICES ASSUME TypeOK, LoopInvariant, Answered200, NEW slot \in reply.slots,
                      NEW p \in standing, Overlaps(slot, p)
               PROVE FALSE
    BY DEF Inductive, StandingNotOffered
  <2>1. slot \in Range(free)
    BY DEF LoopInvariant, SlotsAreGaps
  <2>2. PICK win \in Range(windows) : IsWithin(slot, win)
    BY <2>1 DEF LoopInvariant, GapsAreFree
  <2>3. IsWithin(win, Asked)
    BY DEF LoopInvariant, WindowsInRange
  <2>4. p \in Interval /\ slot \in Interval /\ win \in Interval
    BY <2>1, AvailabilityAssumption DEF TypeOK, Range
  <2>5. Asked.start = query.from /\ Asked.end = query.to
        /\ query.from \in Int /\ query.to \in Int
    BY AvailabilityAssumption DEF Asked, TypeOK, Query
  <2>6. Overlaps(p, Asked)
    BY <2>2, <2>3, <2>4, <2>5 DEF Overlaps, IsWithin, Interval
  <2>7. p \in Occupied
    BY <2>6 DEF LoopInvariant, StandingWasRead, BusySorted, Occupied
  <2> QED
    BY <2>1, <2>7 DEF LoopInvariant, GapsAreFree
<1> QED
  BY <1>1, InductiveInvariant, PTL

-----------------------------------------------------------------------------
(* Opening hours. *)

(* A row of the schedule on a local day whose hours are whole: the window   *)
(* it makes holds the instants asked for with a wall clock in these hours. *)
LEMMA WindowHours ==
  ASSUME TypeOK, NEW d \in Stops, NEW row \in schedule,
         Whole(tz, LocalDay(tz, d) * DayLength + row.start, LocalDay(tz, d) * DayLength + row.end),
         NEW t \in Int
  PROVE  Contains(WindowOf(<<d, row>>), t) <=>
           /\ query.from <= t /\ t < query.to
           /\ LocalDay(tz, t) = LocalDay(tz, d)
           /\ row.start <= MinutesOfDay(tz, t) /\ MinutesOfDay(tz, t) < row.end
<1> DEFINE local == LocalDay(tz, d)
           a == local * DayLength + row.start
           b == local * DayLength + row.end
           c == Wall(tz, t)
<1>1. tz \in Zone /\ query.from \in Int /\ query.to \in Int /\ DayLength \in Nat \ {0}
  BY AvailabilityAssumption, WallClockAssumption DEF TypeOK, Query
<1>2. d \in Int
  BY <1>1, ClocksType DEF Stops
<1>3. local \in Int /\ c \in Int
  BY <1>1, <1>2, WallType
<1>4. row.start \in Int /\ row.end \in Int /\ 0 <= row.start /\ row.start < row.end
      /\ row.end <= DayLength
  <2>1. row \in OpeningWindow
    BY AvailabilityAssumption DEF TypeOK
  <2> QED
    BY <1>1, <2>1 DEF OpeningWindow
<1>5. local * DayLength \in Int /\ (local + 1) * DayLength = local * DayLength + DayLength
  BY <1>1, <1>3
<1>6. a \in Int /\ b \in Int /\ a <= b
  BY <1>4, <1>5
<1>7. Whole(tz, a, b)
  OBVIOUS
<1>8. c \div DayLength \in Int /\ c % DayLength \in Int
      /\ 0 <= c % DayLength /\ c % DayLength < DayLength
      /\ c = (c \div DayLength) * DayLength + (c % DayLength)
  BY <1>3, DayAndTime
<1>9. a <= c /\ c < b <=> /\ c \div DayLength = local
                          /\ row.start <= c % DayLength /\ c % DayLength < row.end
  <2>1. ASSUME a <= c, c < b
        PROVE  c \div DayLength = local /\ c % DayLength = c - local * DayLength
    <3> HIDE DEF local, c
    <3>1. local * DayLength <= c /\ c < (local + 1) * DayLength
      BY <1>1, <1>3, <1>4, <1>5, <1>6, <2>1 DEF a, b
    <3> QED
      BY <1>3, <3>1, DayIsUnique
  <2>2. ASSUME a <= c, c < b
        PROVE  row.start <= c % DayLength /\ c % DayLength < row.end
    <3> HIDE DEF local, c
    <3> QED
      BY <1>3, <1>4, <1>5, <2>1, <2>2 DEF a, b
  <2>3. ASSUME c \div DayLength = local, row.start <= c % DayLength, c % DayLength < row.end
        PROVE  a <= c /\ c < b
    <3>1. c = local * DayLength + (c % DayLength)
      BY <1>8, <2>3
    <3> HIDE DEF local, c
    <3> QED
      BY <1>3, <1>4, <1>5, <1>8, <2>3, <3>1 DEF a, b
  <2> HIDE DEF a, b, c, local
  <2> QED
    BY <2>1, <2>2, <2>3
<1>10. ToInstant(tz, a) <= t /\ t < ToInstant(tz, b) <=> a <= c /\ c < b
  BY <1>1, <1>6, <1>7, OpenBetween
<1>11. ToInstant(tz, a) \in Int /\ ToInstant(tz, b) \in Int
  BY <1>1, <1>6, WallType
<1>12. /\ WindowOf(<<d, row>>).start = Larger(ToInstant(tz, a), query.from)
       /\ WindowOf(<<d, row>>).end = Smaller(ToInstant(tz, b), query.to)
  BY DEF WindowOf, Clipped, WallClockToInstant
<1>13. LocalDay(tz, t) = c \div DayLength /\ MinutesOfDay(tz, t) = c % DayLength
  BY DEF LocalDay, MinutesOfDay
<1> HIDE DEF a, b, c, local
<1>14. Contains(WindowOf(<<d, row>>), t) <=>
         query.from <= t /\ t < query.to /\ ToInstant(tz, a) <= t /\ t < ToInstant(tz, b)
  BY <1>1, <1>11, <1>12 DEF Contains, Larger, Smaller
<1> QED
  BY <1>9, <1>10, <1>13, <1>14 DEF local

(* The windows, from the walk on.                                          *)
LEMMA WindowOrigins ==
  ASSUME TypeOK, StaysTraced, SinceWalk, schedule # {}
  PROVE  /\ \A win \in Range(windows) :
              \E d \in Stops : \E row \in schedule :
                row.day = DayOfWeek(LocalDay(tz, d)) /\ win = WindowOf(<<d, row>>)
         /\ pc # "walk" =>
              \A d \in Stops : \A row \in schedule :
                /\ row.day = DayOfWeek(LocalDay(tz, d))
                /\ WindowOf(<<d, row>>).start < WindowOf(<<d, row>>).end
                => WindowOf(<<d, row>>) \in Range(windows)
         /\ \A i, j \in DOMAIN windows : i < j =>
              \E d, e \in Stops : \E a, b \in schedule :
                /\ a.day = DayOfWeek(LocalDay(tz, d)) /\ b.day = DayOfWeek(LocalDay(tz, e))
                /\ windows[i] = WindowOf(<<d, a>>) /\ windows[j] = WindowOf(<<e, b>>)
                /\ d # e \/ a # b
<1>1. Traced
  BY DEF StaysTraced
<1>2. \A o \in Origins : /\ o[1] \in Stops /\ o[2] \in schedule /\ o = <<o[1], o[2]>>
                         /\ o[2].day = DayOfWeek(LocalDay(tz, o[1]))
  BY DEF Origins
<1>3. {WindowOf(o) : o \in Origins} = Range(windows)
  BY <1>1 DEF Traced
<1>4. \A win \in Range(windows) : \E o \in Origins : win = WindowOf(o)
  BY <1>3
<1>5. ASSUME NEW d \in Stops, NEW row \in schedule, pc # "walk",
             row.day = DayOfWeek(LocalDay(tz, d)),
             WindowOf(<<d, row>>).start < WindowOf(<<d, row>>).end
      PROVE  WindowOf(<<d, row>>) \in Range(windows)
  <2>1. d < day
    <3>1. day >= query.to /\ day \in Int /\ query.to \in Int
      BY <1>1, <1>5, AvailabilityAssumption DEF Traced, TypeOK, Query
    <3>2. d \in Int /\ d <= query.to - 1
      BY <3>1, ClocksType, AvailabilityAssumption DEF Stops, TypeOK, Query
    <3> QED
      BY <3>1, <3>2
  <2>2. <<d, row>> \in Origins
    BY <1>5, <2>1 DEF Origins
  <2> QED
    BY <1>3, <2>2
<1>6. ASSUME NEW i \in DOMAIN windows, NEW j \in DOMAIN windows, i < j
      PROVE  \E d, e \in Stops : \E a, b \in schedule :
               /\ a.day = DayOfWeek(LocalDay(tz, d)) /\ b.day = DayOfWeek(LocalDay(tz, e))
               /\ windows[i] = WindowOf(<<d, a>>) /\ windows[j] = WindowOf(<<e, b>>)
               /\ d # e \/ a # b
  <2>1. PICK o \in Origins : /\ windows[i] = WindowOf(o)
                             /\ \E q \in Origins \ {o} : windows[j] = WindowOf(q)
    BY <1>1, <1>6 DEF Traced
  <2>2. PICK q \in Origins : q # o /\ windows[j] = WindowOf(q)
    BY <2>1
  <2>3. o[1] # q[1] \/ o[2] # q[2]
    BY <1>2, <2>2
  <2>4. /\ o[1] \in Stops /\ o[2] \in schedule /\ windows[i] = WindowOf(<<o[1], o[2]>>)
        /\ o[2].day = DayOfWeek(LocalDay(tz, o[1]))
    BY <1>2, <2>1
  <2>5. /\ q[1] \in Stops /\ q[2] \in schedule /\ windows[j] = WindowOf(<<q[1], q[2]>>)
        /\ q[2].day = DayOfWeek(LocalDay(tz, q[1]))
    BY <1>2, <2>2
  <2> DEFINE d == o[1]
             a == o[2]
             e == q[1]
             b == q[2]
  <2>6. d \in Stops /\ a \in schedule /\ windows[i] = WindowOf(<<d, a>>)
        /\ a.day = DayOfWeek(LocalDay(tz, d))
    BY <2>4
  <2>7. e \in Stops /\ b \in schedule /\ windows[j] = WindowOf(<<e, b>>)
        /\ b.day = DayOfWeek(LocalDay(tz, e))
    BY <2>5
  <2>8. d # e \/ a # b
    BY <2>3
  <2> HIDE DEF d, e, a, b
  <2> QED
    BY <2>6, <2>7, <2>8
<1>7. ASSUME NEW win \in Range(windows)
      PROVE  \E d \in Stops : \E row \in schedule :
               row.day = DayOfWeek(LocalDay(tz, d)) /\ win = WindowOf(<<d, row>>)
  <2>1. PICK o \in Origins : win = WindowOf(o)
    BY <1>4
  <2>2. o[1] \in Stops /\ o[2] \in schedule /\ win = WindowOf(<<o[1], o[2]>>)
        /\ o[2].day = DayOfWeek(LocalDay(tz, o[1]))
    BY <1>2, <2>1
  <2> QED
    BY <2>2
<1> QED
  BY <1>5, <1>6, <1>7

LEMMA WindowOfType ==
  ASSUME TypeOK, NEW d \in Stops, NEW row \in schedule
  PROVE  WindowOf(<<d, row>>) \in Interval
<1>1. tz \in Zone /\ query.from \in Int /\ query.to \in Int
  BY AvailabilityAssumption DEF TypeOK, Query
<1>2. d \in Int
  BY <1>1, ClocksType DEF Stops
<1>3. LocalDay(tz, d) \in Int
  BY <1>1, <1>2, WallType
<1> QED
  BY <1>3, ClippedType DEF WindowOf

(* A row of a day that holds an instant of the range is among them.         *)
LEMMA OriginFound ==
  ASSUME TypeOK, StaysTraced, SinceWalk, schedule # {}, pc # "walk",
         NEW d \in Stops, NEW row \in schedule, row.day = DayOfWeek(LocalDay(tz, d)),
         NEW t \in Int, Contains(WindowOf(<<d, row>>), t)
  PROVE  WindowOf(<<d, row>>) \in Range(windows)
<1>1. WindowOf(<<d, row>>).start < WindowOf(<<d, row>>).end
  BY WindowOfType DEF Contains, Interval
<1> QED
  BY <1>1, WindowOrigins

(* Nobody finds the resource closed: whoever books a period in a slot meets *)
(* the rule on operating hours, unless the change of offset falls into     *)
(* them or makes a time of opening or closing ambiguous.                   *)
THEOREM SlotsMeetTheRule == Spec => []SlotsKeepHours
<1>1. Strengthened => SlotsKeepHours
  <2> SUFFICES ASSUME Strengthened, Answered200, UnbrokenWindows,
                      NEW slot \in reply.slots, NEW p \in Bookable, IsWithin(p, slot)
               PROVE  FitsOpeningHours(schedule, tz, p)
    BY DEF SlotsKeepHours
  <2> USE DEF Strengthened
  <2>1. CASE schedule = {}
    BY <2>1 DEF FitsOpeningHours
  <2>2. CASE schedule # {}
    <3>1. slot \in Range(free)
      BY DEF LoopInvariant, SlotsAreGaps
    <3>2. PICK win \in Range(windows) : IsWithin(slot, win)
      BY <3>1 DEF LoopInvariant, GapsAreFree
    <3>3. PICK d \in Stops, row \in schedule :
            row.day = DayOfWeek(LocalDay(tz, d)) /\ win = WindowOf(<<d, row>>)
      BY <2>2, WindowOrigins DEF SinceWalk
    <3>4. slot \in Interval /\ win \in Interval /\ p \in Interval /\ p.start < p.end
      BY <3>1, BookableType DEF TypeOK, Range
    <3>5. p.start \in Int /\ p.end - 1 \in Int
          /\ Contains(win, p.start) /\ Contains(win, p.end - 1)
      BY <3>2, <3>4 DEF IsWithin, Contains, Interval
    <3>6. Whole(tz, LocalDay(tz, d) * DayLength + row.start,
                    LocalDay(tz, d) * DayLength + row.end)
      BY <3>3 DEF UnbrokenWindows
    <3>7. /\ LocalDay(tz, p.start) = LocalDay(tz, d) /\ row.start <= MinutesOfDay(tz, p.start)
          /\ LocalDay(tz, p.end - 1) = LocalDay(tz, d)
          /\ MinutesOfDay(tz, p.end - 1) < row.end
      BY <3>3, <3>5, <3>6, WindowHours
    <3> QED
      BY <3>3, <3>7 DEF FitsOpeningHours
  <2> QED
    BY <2>1, <2>2
<1> QED
  BY <1>1, AlwaysStrengthened, PTL

(* Where the offset is steady, the walk comes to each day of the range, at  *)
(* its midnight, and to no other day.                                      *)
LEMMA SteadyStops ==
  ASSUME TypeOK, query.from < query.to, Steady
  PROVE  /\ \A t \in Instants : Offset(tz, t) = Offset(tz, query.from)
         /\ \A d \in Stops : d = LocalDay(tz, d) * DayLength - Offset(tz, query.from)
         /\ \A t \in Instants : \E d \in Stops : LocalDay(tz, d) = LocalDay(tz, t)
         /\ \A d \in Stops : \A row \in schedule :
              Whole(tz, LocalDay(tz, d) * DayLength + row.start,
                        LocalDay(tz, d) * DayLength + row.end)
<1> DEFINE first == LocalDay(tz, query.from)
           last == LocalDay(tz, query.to - 1)
           o == Offset(tz, query.from)
           a == first * DayLength
           b == (last + 1) * DayLength
<1>1. tz \in Zone /\ query.from \in Int /\ query.to \in Int /\ query.to - 1 \in Int
      /\ DayLength \in Nat \ {0}
  BY AvailabilityAssumption, WallClockAssumption DEF TypeOK, Query
<1>2. first \in Int /\ last \in Int /\ o \in Int
      /\ Wall(tz, query.from) \in Int /\ Wall(tz, query.to - 1) \in Int
  BY <1>1, WallType
<1>3. a \in Int /\ b \in Int
  BY <1>1, <1>2
<1>4. a <= Wall(tz, query.from) /\ Wall(tz, query.to - 1) < b
  <2>1. \A c \in Int : (c \div DayLength) * DayLength <= c
                       /\ c < (c \div DayLength + 1) * DayLength
    <3> SUFFICES ASSUME NEW c \in Int
                 PROVE  (c \div DayLength) * DayLength <= c
                        /\ c < (c \div DayLength + 1) * DayLength
      OBVIOUS
    <3> DEFINE m == c \div DayLength
               r == c % DayLength
    <3>1. m \in Int /\ r \in Int /\ 0 <= r /\ r < DayLength /\ c = m * DayLength + r
      BY DayAndTime
    <3> HIDE DEF m, r
    <3>2. m * DayLength <= c /\ c < (m + 1) * DayLength
      BY <1>1, <3>1
    <3> QED
      BY <3>2 DEF m
  <2> QED
    BY <1>2, <2>1 DEF LocalDay
<1>5. Whole(tz, a, b)
  BY DEF Steady
<1>6. /\ \A t \in Int : query.from <= t /\ t <= query.to - 1 => Offset(tz, t) = o
      /\ \A c \in Int : a <= c /\ c <= b => ToInstant(tz, c) = c - o
      /\ \A t \in Int : a - o <= t /\ t < b - o => Offset(tz, t) = o
  BY <1>1, <1>3, <1>4, <1>5, SteadyBetween
<1>7. query.to - 1 + o < b /\ a <= query.from + o
  BY <1>1, <1>2, <1>4, <1>6 DEF Wall
<1>8. StartOfDay(tz, query.from) = a - o
  <2>1. StartOfDay(tz, query.from) = ToInstant(tz, a)
    BY DEF StartOfDay
  <2>2. a <= b
    BY <1>1, <1>2, <1>3, <1>7
  <2> QED
    BY <1>3, <1>6, <2>1, <2>2
<1>9. \A t \in Instants : t \in Int /\ Offset(tz, t) = o
  BY <1>1, <1>6 DEF Instants
<1> HIDE DEF first, last, o, a, b
<1>10. Stops = {d \in a - o .. query.to - 1 : (d - (a - o)) % DayLength = 0}
  BY <1>8 DEF Stops
<1>11. ASSUME NEW d \in Stops
       PROVE  /\ d = LocalDay(tz, d) * DayLength - o
              /\ a <= LocalDay(tz, d) * DayLength
              /\ (LocalDay(tz, d) + 1) * DayLength <= b
  <2>1. d \in Int /\ a - o <= d /\ d <= query.to - 1 /\ d < b - o
        /\ d - (a - o) \in Int /\ (d - (a - o)) % DayLength = 0
    BY <1>1, <1>2, <1>3, <1>7, <1>10
  <2>2. Wall(tz, d) = d + o
    BY <1>6, <2>1 DEF Wall
  <2> DEFINE q == (d - (a - o)) \div DayLength
  <2>3. q \in Int /\ d - (a - o) = q * DayLength
    BY <2>1, DayAndTime, <1>1
  <2> HIDE DEF q
  <2>4. first + q \in Int /\ d + o = (first + q) * DayLength
    BY <1>1, <1>2, <1>3, <2>1, <2>3 DEF a
  <2>5. LocalDay(tz, d) = first + q
    <3>1. (first + q) * DayLength <= d + o /\ d + o < (first + q + 1) * DayLength
      BY <1>1, <2>4
    <3> QED
      BY <1>2, <2>1, <2>2, <2>4, <3>1, DayIsUnique DEF LocalDay
  <2>6. d = LocalDay(tz, d) * DayLength - o
    BY <1>1, <1>2, <2>1, <2>4, <2>5
  <2>7. a <= LocalDay(tz, d) * DayLength
    BY <1>1, <1>2, <1>3, <2>1, <2>4, <2>5
  <2>8. ~(last + 1 <= first + q)
    <3>1. ASSUME last + 1 <= first + q PROVE b <= (first + q) * DayLength
      BY <1>1, <1>2, <2>3, <3>1, DaysInOrder DEF b
    <3> QED
      BY <1>1, <1>2, <1>3, <2>1, <2>4, <3>1
  <2>9. (first + q + 1) * DayLength <= b
    BY <1>1, <1>2, <2>3, <2>8, DaysInOrder DEF b
  <2> QED
    BY <2>5, <2>6, <2>7, <2>9
<1>12. ASSUME NEW t \in Instants
       PROVE  \E d \in Stops : LocalDay(tz, d) = LocalDay(tz, t)
  <2> DEFINE local == LocalDay(tz, t)
             d == local * DayLength - o
             c == t + o
  <2>1. t \in Int /\ query.from <= t /\ t <= query.to - 1
    BY <1>1 DEF Instants
  <2>2. Wall(tz, t) = c /\ c \in Int /\ a <= c /\ c < b
    BY <1>1, <1>2, <1>3, <1>7, <1>9, <2>1 DEF Wall
  <2>3. local \in Int /\ local = c \div DayLength
    BY <1>1, <2>1, <2>2, WallType DEF LocalDay
  <2> HIDE DEF c
  <2>4. local * DayLength <= c /\ first <= local
    <3>1. first = a \div DayLength
      <4>1. first * DayLength <= a /\ a < (first + 1) * DayLength
        BY <1>1, <1>2 DEF a
      <4> QED
        BY <1>2, <1>3, <4>1, DayIsUnique
    <3>2. first <= local
      BY <1>3, <2>2, <2>3, <3>1, DaysMonotone
    <3>3. c = (c \div DayLength) * DayLength + (c % DayLength)
          /\ 0 <= c % DayLength /\ c % DayLength \in Int
      BY <2>2, DayAndTime
    <3> HIDE DEF local
    <3> QED
      BY <1>1, <2>2, <2>3, <3>2, <3>3
  <2> HIDE DEF local
  <2>5. d \in Int /\ d - (a - o) = (local - first) * DayLength /\ local - first \in Nat
    BY <1>1, <1>2, <1>3, <2>3, <2>4 DEF a
  <2>6. a - o <= d /\ d <= t
    BY <1>1, <1>2, <1>3, <2>1, <2>2, <2>3, <2>4, <2>5 DEF c
  <2>7. (d - (a - o)) % DayLength = 0
    <3> DEFINE n == local - first
    <3>1. n \in Int /\ n * DayLength \in Int
          /\ n * DayLength <= n * DayLength /\ n * DayLength < (n + 1) * DayLength
      BY <1>1, <2>5
    <3>2. (n * DayLength) % DayLength = n * DayLength - n * DayLength
      BY <3>1, DayIsUnique
    <3> QED
      BY <2>5, <3>1, <3>2
  <2>8. d \in Stops
    BY <1>1, <1>2, <1>3, <1>10, <2>1, <2>5, <2>6, <2>7
  <2>9. LocalDay(tz, d) * DayLength = local * DayLength /\ LocalDay(tz, d) \in Int
    <3>1. d = local * DayLength - o /\ local * DayLength \in Int
      BY <1>1, <2>3
    <3> HIDE DEF d
    <3>2. LocalDay(tz, d) \in Int
      BY <1>1, <2>5, WallType
    <3>3. LocalDay(tz, d) * DayLength \in Int
      BY <1>1, <3>2
    <3>4. d = LocalDay(tz, d) * DayLength - o
      BY <1>11, <2>8
    <3> QED
      BY <1>2, <3>1, <3>2, <3>3, <3>4
  <2>10. LocalDay(tz, d) = local
    BY <1>1, <2>3, <2>9, DaysInOrder
  <2> QED
    BY <2>8, <2>10 DEF local
<1>13. ASSUME NEW d \in Stops, NEW row \in schedule
       PROVE  Whole(tz, LocalDay(tz, d) * DayLength + row.start,
                        LocalDay(tz, d) * DayLength + row.end)
  <2> DEFINE local == LocalDay(tz, d)
  <2>1. row \in OpeningWindow
    BY AvailabilityAssumption DEF TypeOK
  <2>2. row.start \in Int /\ row.end \in Int /\ 0 <= row.start /\ row.end <= DayLength
    BY <1>1, <2>1 DEF OpeningWindow
  <2>3. d \in Int /\ local \in Int
    BY <1>1, <1>2, <1>3, <1>10, WallType
  <2>4. a <= local * DayLength /\ (local + 1) * DayLength <= b
    BY <1>11
  <2> HIDE DEF local
  <2>5. /\ local * DayLength + row.start \in Int /\ local * DayLength + row.end \in Int
        /\ a <= local * DayLength + row.start /\ local * DayLength + row.end <= b
    BY <1>1, <1>3, <2>2, <2>3, <2>4
  <2> QED
    BY <1>1, <1>3, <1>5, <2>5, WholePart DEF local
<1> QED
  BY <1>9, <1>11, <1>12, <1>13 DEF o

(* Every hour the resource is open is in the windows, and no other, each    *)
(* day once, where the offset is steady.                                   *)
THEOREM EveryHourFound == Spec => []WindowsComplete
<1>1. ASSUME Strengthened, pc \in {"busy", "subtract", "filter"}, Steady,
             schedule # {}, NEW t \in Instants
      PROVE  Covers(windows, t) <=> OpenAt(schedule, tz, t)
  <2> USE <1>1 DEF Strengthened
  <2>1. t \in Int /\ query.from <= t /\ t < query.to
    BY AvailabilityAssumption DEF TypeOK, Query, Instants
  <2>2. query.from < query.to
    BY DEF LoopInvariant, WindowsInRange
  <2>3. ASSUME Covers(windows, t) PROVE OpenAt(schedule, tz, t)
    <3>1. PICK win \in Range(windows) : Contains(win, t)
      BY <2>3 DEF Covers
    <3>2. PICK d \in Stops, row \in schedule :
            row.day = DayOfWeek(LocalDay(tz, d)) /\ win = WindowOf(<<d, row>>)
      BY WindowOrigins DEF SinceWalk
    <3>3. Whole(tz, LocalDay(tz, d) * DayLength + row.start,
                    LocalDay(tz, d) * DayLength + row.end)
      BY <2>2, SteadyStops
    <3>4. /\ LocalDay(tz, t) = LocalDay(tz, d)
          /\ row.start <= MinutesOfDay(tz, t) /\ MinutesOfDay(tz, t) < row.end
      BY <2>1, <3>1, <3>2, <3>3, WindowHours
    <3> QED
      BY <3>2, <3>4 DEF OpenAt
  <2>4. ASSUME OpenAt(schedule, tz, t) PROVE Covers(windows, t)
    <3>1. PICK row \in schedule :
            /\ row.day = DayOfWeek(LocalDay(tz, t))
            /\ row.start <= MinutesOfDay(tz, t) /\ MinutesOfDay(tz, t) < row.end
      BY <2>4 DEF OpenAt
    <3>2. PICK d \in Stops : LocalDay(tz, d) = LocalDay(tz, t)
      BY <2>2, SteadyStops
    <3>3. Whole(tz, LocalDay(tz, d) * DayLength + row.start,
                    LocalDay(tz, d) * DayLength + row.end)
      BY <2>2, SteadyStops
    <3>4. Contains(WindowOf(<<d, row>>), t)
      BY <2>1, <3>1, <3>2, <3>3, WindowHours
    <3>5. WindowOf(<<d, row>>) \in Range(windows)
      BY <2>1, <3>1, <3>2, <3>4, OriginFound DEF SinceWalk
    <3> QED
      BY <3>4, <3>5 DEF Covers
  <2> QED
    BY <2>3, <2>4
<1>2. ASSUME Strengthened, pc \in {"busy", "subtract", "filter"}, Steady, schedule # {},
             NEW i \in DOMAIN windows, NEW j \in DOMAIN windows, i < j,
             Overlaps(windows[i], windows[j])
      PROVE  \E a, b \in schedule : a # b /\ a.day = b.day /\ Overlaps(a, b)
  <2> USE <1>2 DEF Strengthened
  <2>1. query.from < query.to
    BY DEF LoopInvariant, WindowsInRange
  <2>2. PICK d, e \in Stops : \E a, b \in schedule :
          /\ a.day = DayOfWeek(LocalDay(tz, d)) /\ b.day = DayOfWeek(LocalDay(tz, e))
          /\ windows[i] = WindowOf(<<d, a>>) /\ windows[j] = WindowOf(<<e, b>>)
          /\ d # e \/ a # b
    BY WindowOrigins DEF SinceWalk
  <2>3. PICK a, b \in schedule :
          /\ a.day = DayOfWeek(LocalDay(tz, d)) /\ b.day = DayOfWeek(LocalDay(tz, e))
          /\ windows[i] = WindowOf(<<d, a>>) /\ windows[j] = WindowOf(<<e, b>>)
          /\ d # e \/ a # b
    BY <2>2
  <2>4. /\ windows[i] \in Interval /\ windows[i].start < windows[i].end
        /\ windows[j] \in Interval /\ windows[j].start < windows[j].end
    BY DEF LoopInvariant, WindowsInRange, TypeOK, Range
  <2>5. PICK t \in Int : Contains(windows[i], t) /\ Contains(windows[j], t)
    BY <2>4, OverlapIsShared DEF Contains
  <2>6. /\ Whole(tz, LocalDay(tz, d) * DayLength + a.start,
                     LocalDay(tz, d) * DayLength + a.end)
        /\ Whole(tz, LocalDay(tz, e) * DayLength + b.start,
                     LocalDay(tz, e) * DayLength + b.end)
    BY <2>1, SteadyStops
  <2>7. /\ LocalDay(tz, t) = LocalDay(tz, d)
        /\ a.start <= MinutesOfDay(tz, t) /\ MinutesOfDay(tz, t) < a.end
    BY <2>3, <2>5, <2>6, WindowHours
  <2>8. /\ LocalDay(tz, t) = LocalDay(tz, e)
        /\ b.start <= MinutesOfDay(tz, t) /\ MinutesOfDay(tz, t) < b.end
    BY <2>3, <2>5, <2>6, WindowHours
  <2>9. d = e
    BY <2>1, <2>7, <2>8, SteadyStops
  <2>10. Overlaps(a, b)
    <3>1. MinutesOfDay(tz, t) \in Int
      BY AvailabilityAssumption, WallType, DayAndTime DEF TypeOK, MinutesOfDay
    <3>2. a \in OpeningWindow /\ b \in OpeningWindow
      BY AvailabilityAssumption DEF TypeOK
    <3>3. a.start \in Int /\ a.end \in Int /\ b.start \in Int /\ b.end \in Int
      BY <3>2, WallClockAssumption DEF OpeningWindow
    <3> QED
      BY <2>7, <2>8, <3>1, <3>3 DEF Overlaps
  <2> QED
    BY <2>3, <2>7, <2>8, <2>9, <2>10
<1>3. ASSUME Strengthened, pc \in {"busy", "subtract", "filter"}, schedule = {}
      PROVE  windows = <<Asked>> /\ \A t \in Instants : Contains(Asked, t)
  BY <1>3, AvailabilityAssumption
  DEF Strengthened, StaysTraced, SinceWalk, Traced, Instants, Contains, Asked, TypeOK, Query
<1>4. Strengthened => WindowsComplete
  <2> SUFFICES ASSUME Strengthened, pc \in {"busy", "subtract", "filter"}, Steady
               PROVE  /\ \A t \in Instants : Covers(windows, t) <=> OpenAt(schedule, tz, t)
                      /\ \A i, j \in DOMAIN windows :
                           i # j /\ Overlaps(windows[i], windows[j]) =>
                             \E a, b \in schedule : a # b /\ a.day = b.day /\ Overlaps(a, b)
    BY DEF WindowsComplete, Strengthened, TypeOK, Labels
  <2>1. CASE schedule = {}
    <3>1. \A t \in Instants : Covers(windows, t)
      BY <1>3, <2>1 DEF Covers, Range
    <3>2. \A i, j \in DOMAIN windows : i = j
      BY <1>3, <2>1
    <3> QED
      BY <2>1, <3>1, <3>2 DEF OpenAt
  <2>2. CASE schedule # {}
    <3>1. \A t \in Instants : Covers(windows, t) <=> OpenAt(schedule, tz, t)
      BY <1>1, <2>2
    <3>2. ASSUME NEW i \in DOMAIN windows, NEW j \in DOMAIN windows, i # j,
                 Overlaps(windows[i], windows[j])
          PROVE  \E a, b \in schedule : a # b /\ a.day = b.day /\ Overlaps(a, b)
      <4>1. i \in Int /\ j \in Int
        BY DEF Strengthened, TypeOK
      <4>2. CASE i < j
        BY <1>2, <2>2, <3>2, <4>2
      <4>3. CASE j < i
        <5>1. Overlaps(windows[j], windows[i])
          BY <3>2 DEF Overlaps
        <5> QED
          BY <1>2, <2>2, <4>3, <5>1
      <4> QED
        BY <3>2, <4>1, <4>2, <4>3
    <3> QED
      BY <3>1, <3>2
  <2> QED
    BY <2>1, <2>2
<1> QED
  BY <1>4, AlwaysStrengthened, PTL

(* The other way round, where the offset is steady: a period that meets     *)
(* the rule is in one of the windows.                                      *)
LEMMA FittingIsOffered ==
  ASSUME Strengthened, Answered200, Steady, NEW p \in Bookable,
         FitsOpeningHours(schedule, tz, p)
  PROVE  \E win \in Range(windows) : IsWithin(p, win)
<1> USE DEF Strengthened
<1>1. tz \in Zone /\ query.from \in Int /\ query.to \in Int /\ DayLength \in Nat \ {0}
  BY AvailabilityAssumption, WallClockAssumption DEF TypeOK, Query
<1>2. p \in Interval /\ p.start < p.end /\ query.from <= p.start /\ p.end <= query.to
      /\ p.start \in Int /\ p.end \in Int
  BY BookableType DEF Interval
<1>3. CASE schedule = {}
  <2>1. windows = <<Asked>>
    BY <1>3 DEF StaysTraced, SinceWalk, Traced
  <2> QED
    BY <1>2, <2>1 DEF Range, IsWithin, Asked
<1>4. CASE schedule # {}
  <2> DEFINE first == Wall(tz, p.start)
             last == Wall(tz, p.end - 1)
  <2>1. p.start \in Instants /\ p.end - 1 \in Instants /\ query.from < query.to
    BY <1>1, <1>2 DEF Instants
  <2>2. /\ Offset(tz, p.start) = Offset(tz, query.from)
        /\ Offset(tz, p.end - 1) = Offset(tz, query.from)
    BY <2>1, SteadyStops
  <2>3. first \in Int /\ last \in Int /\ last = first + (p.end - p.start) - 1
    BY <1>1, <1>2, <2>2, WallType DEF Wall
  <2>4. p.end - p.start <= (WeekLength - 1) * DayLength
    <3>1. p.end - p.start <= MaxLength
      BY DEF Bookable, ValidPeriod
    <3> QED
      BY <1>1, <1>2, <3>1, LengthAssumption, PeriodAssumption, WallClockAssumption
  <2>5. LocalDay(tz, p.start) = first \div DayLength
        /\ LocalDay(tz, p.end - 1) = last \div DayLength
        /\ MinutesOfDay(tz, p.start) = first % DayLength
        /\ MinutesOfDay(tz, p.end - 1) = last % DayLength
    BY DEF LocalDay, MinutesOfDay
  <2> HIDE DEF first, last
  <2>6. /\ first \div DayLength \in Int /\ last \div DayLength \in Int
        /\ first % DayLength \in Int /\ last % DayLength \in Int
        /\ 0 <= first % DayLength /\ first % DayLength < DayLength
        /\ 0 <= last % DayLength /\ last % DayLength < DayLength
        /\ first = (first \div DayLength) * DayLength + (first % DayLength)
        /\ last = (last \div DayLength) * DayLength + (last % DayLength)
    BY <2>3, DayAndTime
  <2>7. first <= last
    BY <1>2, <2>3
  <2>8. first \div DayLength <= last \div DayLength
    BY <2>3, <2>7, DaysMonotone
  <2>9. last \div DayLength < first \div DayLength + WeekLength
    <3> DEFINE m == first \div DayLength
               n == last \div DayLength
               r == first % DayLength
               s == last % DayLength
    <3>1. m \in Int /\ n \in Int /\ r \in Int /\ s \in Int /\ r < DayLength /\ 0 <= s
          /\ first = m * DayLength + r /\ last = n * DayLength + s
      BY <2>6
    <3> HIDE DEF m, n, r, s
    <3>2. n * DayLength < (m + WeekLength) * DayLength
      BY <1>1, <1>2, <2>3, <2>4, <3>1, WallClockAssumption
    <3>3. n < m + WeekLength
      <4>1. m + WeekLength \in Int
        BY <3>1, WallClockAssumption
      <4> DEFINE l == m + WeekLength
      <4>2. l \in Int /\ n * DayLength < l * DayLength
        BY <3>2, <4>1
      <4> HIDE DEF l
      <4>3. n < l
        BY <1>1, <3>1, <4>2, DaysInOrder
      <4> QED
        BY <4>3 DEF l
    <3> QED
      BY <3>3 DEF m, n
  <2>10. DayOfWeek(first \div DayLength) = DayOfWeek(last \div DayLength)
    BY <1>4, <2>5 DEF FitsOpeningHours
  <2>11. first \div DayLength = last \div DayLength
    BY <2>6, <2>8, <2>9, <2>10, WeekdaysApart
  <2>12. first % DayLength <= last % DayLength
    <3> DEFINE m == first \div DayLength
               r == first % DayLength
               s == last % DayLength
    <3>1. m * DayLength \in Int /\ r \in Int /\ s \in Int
          /\ first = m * DayLength + r /\ last = m * DayLength + s
      BY <1>1, <2>6, <2>11
    <3> HIDE DEF m, r, s
    <3>2. r <= s
      BY <2>7, <3>1
    <3> QED
      BY <3>2 DEF r, s
  <2>13. PICK row \in schedule : /\ row.day = DayOfWeek(LocalDay(tz, p.start))
                                 /\ row.start <= MinutesOfDay(tz, p.start)
                                 /\ MinutesOfDay(tz, p.end - 1) < row.end
    BY <1>4 DEF FitsOpeningHours
  <2>14. row.start \in Int /\ row.end \in Int
    <3>1. row \in OpeningWindow
      BY AvailabilityAssumption DEF TypeOK
    <3> QED
      BY <3>1, WallClockAssumption DEF OpeningWindow
  <2>15. row.start <= MinutesOfDay(tz, p.end - 1) /\ MinutesOfDay(tz, p.start) < row.end
    BY <2>5, <2>6, <2>12, <2>13, <2>14
  <2>16. PICK d \in Stops : LocalDay(tz, d) = LocalDay(tz, p.start)
    BY <2>1, SteadyStops
  <2>17. Whole(tz, LocalDay(tz, d) * DayLength + row.start,
                   LocalDay(tz, d) * DayLength + row.end)
    BY <2>1, SteadyStops
  <2>18. Contains(WindowOf(<<d, row>>), p.start) /\ Contains(WindowOf(<<d, row>>), p.end - 1)
    BY <1>1, <1>2, <2>5, <2>11, <2>13, <2>15, <2>16, <2>17, WindowHours
  <2>19. WindowOf(<<d, row>>) \in Range(windows)
    BY <1>2, <1>4, <2>13, <2>16, <2>18, OriginFound DEF SinceWalk, Answered200
  <2>20. WindowOf(<<d, row>>) \in Interval
    BY <1>1, <2>16, WindowOfType
  <2>21. IsWithin(p, WindowOf(<<d, row>>))
    BY <1>2, <2>18, <2>20 DEF IsWithin, Contains, Interval
  <2> QED
    BY <2>19, <2>21
<1> QED
  BY <1>3, <1>4

(* Nothing is withheld: what the rule on opening hours admits, and nothing  *)
(* read as taken meets, lies in a slot of the answer if it is long enough. *)
THEOREM FreeTimeOffered == Spec => []NothingWithheld
<1>1. Strengthened => NothingWithheld
  <2> SUFFICES ASSUME Strengthened, Answered200, Steady, NEW p \in Bookable,
                      p.end - p.start >= query.min, FitsOpeningHours(schedule, tz, p),
                      \A b \in blocks \cup taken : ~Overlaps(p, b)
               PROVE  \E slot \in reply.slots : IsWithin(p, slot)
    BY DEF NothingWithheld
  <2> USE DEF Strengthened
  <2>1. PICK win \in Range(windows) : IsWithin(p, win)
    BY FittingIsOffered
  <2>2. PICK j \in DOMAIN windows : win = windows[j]
    BY DEF Range
  <2>3. j \in 1 .. w - 1
    BY DEF LoopInvariant, WindowAtHand, TypeOK
  <2>4. StartsBehind(p)
    BY <2>1, <2>2, <2>3 DEF StartsBehind
  <2>5. PICK gap \in Range(free) : IsWithin(p, gap)
    BY <2>4 DEF FreePeriodsFound, Occupied
  <2>6. gap \in Interval /\ p \in Interval /\ query.min \in Int
    BY BookableType, AvailabilityAssumption DEF TypeOK, Range, Query
  <2>7. LongEnough(gap)
    BY <2>5, <2>6 DEF LongEnough, IsWithin, Interval
  <2> QED
    BY <2>5, <2>7 DEF SlotsAreAll
<1> QED
  BY <1>1, AlwaysStrengthened, PTL

=============================================================================
