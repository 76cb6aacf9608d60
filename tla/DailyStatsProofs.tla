-------------------------- MODULE DailyStatsProofs --------------------------
(***************************************************************************)
(* The daily numbers, for any number of orders, days, rebuilds and tries:  *)
(* a day's columns, its country map and its average keep to each other     *)
(* and to the orders, and a rebuild left alone restates its days.          *)
(***************************************************************************)
EXTENDS DailyStats, FiniteSetTheorems, TLAPS

USE DEF orderVars, incrementVars, rebuildVars, Disturb

-----------------------------------------------------------------------------
(* The inductive invariant                                                  *)

\* An increment follows its event, and one that merges holds its day's row as
\* it read it.
MergeHoldsRow ==
  \A o \in Orders :
    /\ increment[o]["created"] # "none" => created[o] \in Day
    /\ increment[o]["cancelled"] # "none" => cancelled[o] \in Day
    /\ created[o] = 0 => increment[o]["created"] = "none"
    /\ increment[o]["created"] = "merging" =>
         /\ lock[created[o]] = o /\ stat[created[o]] # Null
         /\ readMap[o] = stat[created[o]].countries

\* A rebuild that runs is inside its range and has a try left.
RebuildInRange ==
  \A r \in Rebuilds :
    /\ step[r] # "none" =>
         from[r] \in Day /\ to[r] \in Day /\ from[r] <= cursor[r] /\ cursor[r] <= to[r] + 1
    /\ step[r] = "none" => tries[r] = 0 /\ readOrders[r] = Null
    /\ step[r] = "done" => cursor[r] = to[r] + 1
    /\ Running(r) => cursor[r] <= to[r] /\ tries[r] < MaxTries
    /\ step[r] = "replace" =>
         readOrders[r] \in [Orders -> OrderRead \cup {Null}] /\ readViews[r] \in [Day -> Nat]

BookInv == TypeOK /\ MergeHoldsRow /\ RebuildInRange

-----------------------------------------------------------------------------
(* Rows                                                                     *)

LEMMA RowIsTyped ==
  ASSUME TypeOK, NEW d \in Day
  PROVE  RowOf(d) \in Row
  BY DEF TypeOK, RowOf, EmptyRow, Row

\* The updates of one column keep a row a row, and its other columns.
LEMMA ColumnUpdates ==
  ASSUME NEW row \in Row
  PROVE  /\ [row EXCEPT !.cancelledOrders = @ + 1] \in Row
         /\ [row EXCEPT !.formViews = @ + 1] \in Row
         /\ Averaged(row) \in Row
  BY DEF Row, Averaged

LEMMA ColumnsKept ==
  ASSUME NEW row \in Row, NEW new,
         \/ new = [row EXCEPT !.cancelledOrders = @ + 1]
         \/ new = [row EXCEPT !.formViews = @ + 1]
         \/ new = Averaged(row)
  PROVE  /\ new.codOrders = row.codOrders /\ new.revenue = row.revenue
         /\ new.countries = row.countries
         /\ new.average \in {row.average, <<row.revenue, row.codOrders>>}
         /\ new # Averaged(row) => new.average = row.average
         /\ new # [row EXCEPT !.cancelledOrders = @ + 1] =>
              new.cancelledOrders = row.cancelledOrders
         /\ new.cancelledOrders <= row.cancelledOrders + 1
  BY DEF Row, Averaged

\* A merge counts one order, and takes the map as it was read.
LEMMA MergedRow ==
  ASSUME NEW row \in Row, NEW map \in Nat
  PROVE  /\ Merged(row, map) \in Row
         /\ Merged(row, map).codOrders = row.codOrders + 1
         /\ Merged(row, map).revenue = row.revenue + 1
         /\ Merged(row, map).countries = map + 1
         /\ Merged(row, map).cancelledOrders = row.cancelledOrders
<1> DEFINE a == [row EXCEPT !.codOrders = @ + 1]
           b == [a EXCEPT !.revenue = @ + 1]
           c == [b EXCEPT !.countries = map + 1]
<1>1. Merged(row, map) = c
  BY Zenon DEF Merged
<1>2. /\ a \in Row /\ a.codOrders = row.codOrders + 1 /\ a.revenue = row.revenue
      /\ a.cancelledOrders = row.cancelledOrders
  BY DEF Row
<1> HIDE DEF a
<1>3. /\ b \in Row /\ b.codOrders = a.codOrders /\ b.revenue = a.revenue + 1
      /\ b.cancelledOrders = a.cancelledOrders
  BY <1>2 DEF Row
<1> HIDE DEF b
<1>4. /\ c \in Row /\ c.codOrders = b.codOrders /\ c.revenue = b.revenue
      /\ c.countries = map + 1 /\ c.cancelledOrders = b.cancelledOrders
  BY <1>3 DEF Row
<1> QED
  BY <1>1, <1>2, <1>3, <1>4

LEMMA OrdersAreFinite ==
  ASSUME StatsAssumption, NEW S \in SUBSET Orders
  PROVE  IsFiniteSet(S) /\ Cardinality(S) \in Nat
  BY FS_Subset, FS_CardinalityType DEF StatsAssumption

LEMMA RebuiltRowIsTyped ==
  ASSUME StatsAssumption, BookInv, NEW r \in Rebuilds, step[r] = "replace", NEW d \in Day
  PROVE  RebuiltRow(r, d) \in Row \cup {Null}
<1> DEFINE read == {o \in Orders : readOrders[r][o] # Null}
           placed == {o \in read : readOrders[r][o].created = d}
           sold == {o \in placed : ~readOrders[r][o].blocked}
           dropped == {o \in read : readOrders[r][o].cancelled = d}
<1>1. /\ Cardinality(placed) \in Nat /\ Cardinality(sold) \in Nat /\ Cardinality(dropped) \in Nat
  BY OrdersAreFinite
<1>2. readViews[r][d] \in Nat
  BY DEF BookInv, RebuildInRange
<1> QED
  BY <1>1, <1>2 DEF RebuiltRow, Row

LEMMA ReplacedIsTyped ==
  ASSUME StatsAssumption, BookInv, NEW r \in Rebuilds, step[r] = "replace", NEW d \in Day
  PROVE  Replaced(r, d) \in Row \cup {Null}
  BY RebuiltRowIsTyped DEF Replaced, BookInv, TypeOK

\* The next chunk starts in the range, or after its last day.
LEMMA NextChunkInRange ==
  ASSUME StatsAssumption, BookInv, NEW r \in Rebuilds, Running(r)
  PROVE  /\ NextChunk(r) \in 1..(LastDay + 1)
         /\ cursor[r] < NextChunk(r) /\ NextChunk(r) <= to[r] + 1
         /\ Window(r) = cursor[r]..(NextChunk(r) - 1)
         /\ Window(r) \subseteq from[r]..to[r] /\ from[r]..to[r] \subseteq Day
<1>1. /\ from[r] \in 1..LastDay /\ to[r] \in 1..LastDay /\ cursor[r] \in 1..(LastDay + 1)
      /\ from[r] <= cursor[r] /\ cursor[r] <= to[r]
      /\ ChunkDays \in Nat \ {0} /\ LastDay \in Nat
  BY DEF StatsAssumption, BookInv, RebuildInRange, Running, TypeOK, Day
<1>2. /\ NextChunk(r) \in 1..(LastDay + 1)
      /\ cursor[r] < NextChunk(r) /\ NextChunk(r) <= to[r] + 1
      /\ Window(r) = cursor[r]..(NextChunk(r) - 1)
  BY <1>1 DEF NextChunk, Lesser, Window
<1>3. from[r]..to[r] \subseteq Day /\ cursor[r]..(NextChunk(r) - 1) \subseteq from[r]..to[r]
  BY <1>1, <1>2 DEF Day
<1> QED
  BY <1>2, <1>3

-----------------------------------------------------------------------------
(* What each step does to the books                                         *)

LEMMA BookInvInit == StatsAssumption /\ Init => BookInv
  BY DEF StatsAssumption, Init, BookInv, TypeOK, MergeHoldsRow, RebuildInRange, Running, Day, Event

\* What leaves the rebuilds alone leaves them in their range.
LEMMA RangeKept ==
  ASSUME RebuildInRange, UNCHANGED rebuildVars
  PROVE  RebuildInRange'
  BY DEF RebuildInRange, Running

\* Nothing is quiet that was not.
LEMMA QuietIsTyped ==
  ASSUME TypeOK, NEW R, Disturb(R)
  PROVE  quiet' \in [Rebuilds -> BOOLEAN]
  BY DEF TypeOK

Increment == {"none", "ready", "upserted", "merging", "average", "over"}

\* An increment that moves moves alone.
LEMMA IncrementMoves ==
  ASSUME TypeOK, NEW o \in Orders, NEW e \in Event, NEW s \in Increment, SetIncrement(o, e, s)
  PROVE  /\ increment' \in [Orders -> [Event -> Increment]]
         /\ increment'[o][e] = s
         /\ \A q \in Orders, f \in Event : q # o \/ f # e => increment'[q][f] = increment[q][f]
  BY DEF TypeOK, SetIncrement, Increment

\* Orders and the clock.
LEMMA OrdersKeepBookInv ==
  ASSUME StatsAssumption, BookInv, NEW o \in Orders,
         Submit(o) \/ Cancel(o) \/ Block(o)
  PROVE  BookInv'
<1>1. UNCHANGED <<today, stat, lock, readMap, lost, rebuildVars>> /\ Disturb({})
  BY DEF Submit, Cancel, Block
<1>2. RebuildInRange' /\ quiet' \in [Rebuilds -> BOOLEAN]
  BY <1>1, RangeKept, QuietIsTyped DEF BookInv
<1> USE DEF BookInv, TypeOK, MergeHoldsRow, Increment, Event
<1>3. CASE Submit(o)
  <2>1. /\ increment' \in [Orders -> [Event -> Increment]]
        /\ increment'[o]["created"] = "ready"
        /\ \A q \in Orders, f \in Event : q # o \/ f # "created" =>
             increment'[q][f] = increment[q][f]
    BY <1>3, IncrementMoves DEF Submit
  <2>2. /\ today \in Day /\ created[o] = 0 /\ created' = [created EXCEPT ![o] = today]
        /\ UNCHANGED <<cancelled, blocked>>
    BY <1>3 DEF Submit
  <2>3. today \in 0..LastDay /\ today # 0
    BY <2>2 DEF Day, StatsAssumption
  <2> QED
    BY <1>1, <1>2, <2>1, <2>2, <2>3
<1>4. CASE Cancel(o)
  <2>1. /\ increment' \in [Orders -> [Event -> Increment]]
        /\ increment'[o]["cancelled"] = "ready"
        /\ \A q \in Orders, f \in Event : q # o \/ f # "cancelled" =>
             increment'[q][f] = increment[q][f]
    BY <1>4, IncrementMoves DEF Cancel
  <2>2. /\ today \in Day /\ cancelled' = [cancelled EXCEPT ![o] = today]
        /\ UNCHANGED <<created, blocked>>
    BY <1>4 DEF Cancel
  <2>3. today \in 0..LastDay
    BY <2>2 DEF Day, StatsAssumption
  <2> QED
    BY <1>1, <1>2, <2>1, <2>2, <2>3
<1>5. CASE Block(o)
  BY <1>1, <1>2, <1>5 DEF Block
<1> QED
  BY <1>3, <1>4, <1>5

\* A write to a row nobody locked.
LEMMA UnlockedWrite ==
  ASSUME StatsAssumption, BookInv, NEW d \in Day, lock[d] = Null, NEW row \in Row \cup {Null},
         stat' = [stat EXCEPT ![d] = row]
  PROVE  /\ stat' \in [Day -> Row \cup {Null}]
         /\ \A o \in Orders : increment[o]["created"] = "merging" =>
              stat'[created[o]] = stat[created[o]]
  BY DEF StatsAssumption, BookInv, TypeOK, MergeHoldsRow

\* The statements of an increment.
LEMMA IncrementKeepsBookInv ==
  ASSUME StatsAssumption, BookInv, NEW o \in Orders, NEW e \in Event,
         RecordCancelled(o) \/ Merge(o) \/ RecalculateAverage(o, e) \/ LoseIncrement(o, e)
  PROVE  BookInv'
<1>1. UNCHANGED <<orderVars, rebuildVars>> /\ Disturb({})
  BY DEF RecordCancelled, Merge, Upsert, LockRow, WriteMerged, RecalculateAverage, LoseIncrement
<1>2. RebuildInRange' /\ quiet' \in [Rebuilds -> BOOLEAN]
  BY <1>1, RangeKept, QuietIsTyped DEF BookInv
<1> USE DEF BookInv, TypeOK, MergeHoldsRow, Increment, Event
<1>3. CASE RecordCancelled(o)
  <2> DEFINE d == cancelled[o]
  <2>1. d \in Day /\ lock[d] = Null /\ UNCHANGED <<lock, readMap, lost>>
    BY <1>3 DEF RecordCancelled
  <2>2. [RowOf(d) EXCEPT !.cancelledOrders = @ + 1] \in Row
    BY <2>1, RowIsTyped, ColumnUpdates
  <2>3. stat' \in [Day -> Row \cup {Null}] /\ \A q \in Orders : increment[q]["created"] = "merging" =>
           stat'[created[q]] = stat[created[q]]
    BY <1>3, <2>1, <2>2, UnlockedWrite DEF RecordCancelled
  <2>4. /\ increment' \in [Orders -> [Event -> Increment]]
        /\ \A q \in Orders, f \in Event : q # o \/ f # "cancelled" =>
             increment'[q][f] = increment[q][f]
    BY <1>3, IncrementMoves DEF RecordCancelled
  <2> QED
    BY <1>1, <1>2, <2>1, <2>3, <2>4
<1>4. CASE Upsert(o)
  <2> DEFINE d == created[o]
  <2>1. d \in Day /\ lock[d] = Null /\ RowOf(d) \in Row /\ UNCHANGED <<lock, readMap, lost>>
    BY <1>4, RowIsTyped DEF Upsert
  <2>2. stat' \in [Day -> Row \cup {Null}] /\ \A q \in Orders : increment[q]["created"] = "merging" =>
           stat'[created[q]] = stat[created[q]]
    BY <1>4, <2>1, UnlockedWrite DEF Upsert
  <2>3. /\ increment' \in [Orders -> [Event -> Increment]]
        /\ increment'[o]["created"] = "upserted"
        /\ \A q \in Orders, f \in Event : q # o \/ f # "created" =>
             increment'[q][f] = increment[q][f]
    BY <1>4, IncrementMoves DEF Upsert
  <2> QED
    BY <1>1, <1>2, <1>4, <2>1, <2>2, <2>3 DEF Upsert
<1>5. CASE LockRow(o)
  <2> DEFINE d == created[o]
  <2>1. d \in Day /\ lock[d] = Null /\ created[o] # 0 /\ UNCHANGED <<stat, lost>>
    BY <1>5 DEF LockRow
  <2>2. \A q \in Orders \ {o} : increment[q]["created"] = "merging" => created[q] # d
    BY <2>1 DEF StatsAssumption
  <2>3. CASE SetIncrement(o, "created", "average") /\ UNCHANGED <<lock, readMap>>
    <3>1. /\ increment' \in [Orders -> [Event -> Increment]]
          /\ increment'[o]["created"] = "average"
          /\ \A q \in Orders, f \in Event : q # o \/ f # "created" =>
               increment'[q][f] = increment[q][f]
      BY <2>3, IncrementMoves
    <3> QED
      BY <1>1, <1>2, <2>1, <2>3, <3>1
  <2>4. CASE /\ SetIncrement(o, "created", "merging") /\ stat[d] # Null
             /\ readMap' = [readMap EXCEPT ![o] = stat[d].countries]
             /\ lock' = [lock EXCEPT ![d] = o]
    <3>1. /\ increment' \in [Orders -> [Event -> Increment]]
          /\ increment'[o]["created"] = "merging"
          /\ \A q \in Orders, f \in Event : q # o \/ f # "created" =>
               increment'[q][f] = increment[q][f]
      BY <2>4, IncrementMoves
    <3>2. stat[d].countries \in Nat
      BY <2>1, <2>4 DEF Row
    <3>3. lock' \in [Day -> Orders \cup {Null}] /\ readMap' \in [Orders -> Nat]
      BY <2>4, <3>2
    <3> QED
      BY <1>1, <1>2, <2>1, <2>2, <2>4, <3>1, <3>3
  <2> QED
    BY <1>5, <2>3, <2>4 DEF LockRow
<1>6. CASE WriteMerged(o)
  <2> DEFINE d == created[o]
             row == Merged(stat[d], readMap[o])
  <2>1. d \in Day /\ lock[d] = o /\ stat[d] \in Row /\ created[o] # 0 /\ UNCHANGED lost
    BY <1>6 DEF WriteMerged
  <2>2. row \in Row
    BY <2>1, MergedRow
  <2>3. stat' = [stat EXCEPT ![d] = row]
    BY <1>6 DEF WriteMerged
  <2> HIDE DEF row
  <2>4. stat' \in [Day -> Row \cup {Null}]
    BY <2>1, <2>2, <2>3
  <2>5. \A q \in Orders \ {o} : increment[q]["created"] = "merging" => created[q] # d
    BY <2>1
  <2>6. /\ increment' \in [Orders -> [Event -> Increment]]
        /\ increment'[o]["created"] = "average"
        /\ \A q \in Orders, f \in Event : q # o \/ f # "created" =>
             increment'[q][f] = increment[q][f]
    BY <1>6, IncrementMoves DEF WriteMerged
  <2>7. /\ lock' = [lock EXCEPT ![d] = Null] /\ lock' \in [Day -> Orders \cup {Null}]
        /\ readMap' = [readMap EXCEPT ![o] = 0] /\ readMap' \in [Orders -> Nat]
    BY <1>6 DEF WriteMerged
  <2> QED
    BY <1>1, <1>2, <2>1, <2>3, <2>4, <2>5, <2>6, <2>7
<1>7. CASE RecalculateAverage(o, e)
  <2> DEFINE d == DayOf(o, e)
             row == IF stat[d] = Null THEN Null ELSE Averaged(stat[d])
  <2>1. d \in Day /\ lock[d] = Null /\ UNCHANGED <<lock, readMap, lost>>
    BY <1>7 DEF RecalculateAverage, DayOf
  <2>2. row \in Row \cup {Null}
    <3>1. stat[d] \in Row \cup {Null}
      BY <2>1
    <3>2. stat[d] \in Row => Averaged(stat[d]) \in Row
      BY ColumnUpdates
    <3> QED
      BY <3>1, <3>2
  <2>3. stat' = [stat EXCEPT ![d] = row]
    BY <1>7 DEF RecalculateAverage
  <2> HIDE DEF row, d
  <2>4. stat' \in [Day -> Row \cup {Null}] /\ \A q \in Orders : increment[q]["created"] = "merging" =>
           stat'[created[q]] = stat[created[q]]
    BY <2>1, <2>2, <2>3, UnlockedWrite
  <2>5. /\ increment' \in [Orders -> [Event -> Increment]]
        /\ increment'[o][e] = "over" /\ increment[o][e] = "average"
        /\ \A q \in Orders, f \in Event : q # o \/ f # e => increment'[q][f] = increment[q][f]
    BY <1>7, IncrementMoves DEF RecalculateAverage
  <2>6. MergeHoldsRow'
    <3> SUFFICES ASSUME NEW q \in Orders PROVE MergeHoldsRow!(q)'
      BY DEF MergeHoldsRow
    <3>1. /\ increment'[q]["created"] # "none" => increment[q]["created"] # "none"
          /\ increment'[q]["cancelled"] # "none" => increment[q]["cancelled"] # "none"
          /\ increment[q]["created"] = "none" => increment'[q]["created"] = "none"
          /\ increment'[q]["created"] = "merging" => increment[q]["created"] = "merging"
      BY <2>5
    <3> QED
      BY <1>1, <2>1, <2>4, <3>1
  <2> HIDE DEF MergeHoldsRow
  <2> QED
    BY <1>1, <1>2, <2>1, <2>4, <2>5, <2>6
<1>8. CASE LoseIncrement(o, e)
  <2> DEFINE d == DayOf(o, e)
  <2>1. d \in Day /\ UNCHANGED stat /\ lost' = lost \cup {d}
        /\ (e = "created" => d = created[o])
    BY <1>8 DEF LoseIncrement, DayOf
  <2>2. /\ increment' \in [Orders -> [Event -> Increment]]
        /\ increment'[o][e] = "over" /\ increment[o][e] # "none"
        /\ \A q \in Orders, f \in Event : q # o \/ f # e => increment'[q][f] = increment[q][f]
    BY <1>8, IncrementMoves DEF LoseIncrement
  <2> HIDE DEF d
  <2>3. /\ lock' = [lock EXCEPT ![d] = IF @ = o /\ e = "created" THEN Null ELSE @]
        /\ readMap' = [readMap EXCEPT ![o] = IF e = "created" THEN 0 ELSE @]
    BY <1>8 DEF LoseIncrement, d
  <2>4. lock' \in [Day -> Orders \cup {Null}] /\ readMap' \in [Orders -> Nat]
    BY <2>1, <2>3
  <2>5. \A q \in Orders : q # o \/ e # "created" =>
          /\ readMap'[q] = readMap[q]
          /\ increment[q]["created"] = "merging" => lock'[created[q]] = lock[created[q]]
    BY <2>1, <2>3
  <2>6. MergeHoldsRow'
    <3> SUFFICES ASSUME NEW q \in Orders PROVE MergeHoldsRow!(q)'
      BY DEF MergeHoldsRow
    <3>1. /\ increment'[q]["created"] # "none" => increment[q]["created"] # "none"
          /\ increment'[q]["cancelled"] # "none" => increment[q]["cancelled"] # "none"
          /\ increment[q]["created"] = "none" => increment'[q]["created"] = "none"
          /\ increment'[q]["created"] = "merging" =>
               increment[q]["created"] = "merging" /\ (q # o \/ e # "created")
      BY <2>2
    <3> QED
      BY <1>1, <2>1, <2>5, <3>1
  <2>7. lost' \in SUBSET Day
    BY <2>1
  <2> HIDE DEF MergeHoldsRow
  <2> QED
    BY <1>1, <1>2, <2>1, <2>2, <2>4, <2>6, <2>7
<1> QED
  BY <1>3, <1>4, <1>5, <1>6, <1>7, <1>8 DEF Merge

LEMMA ViewKeepsBookInv ==
  ASSUME StatsAssumption, BookInv, RecordFormView
  PROVE  BookInv'
<1> DEFINE row == [RowOf(today) EXCEPT !.formViews = @ + 1]
<1>1. /\ today \in Day /\ lock[today] = Null /\ stat' = [stat EXCEPT ![today] = row]
      /\ UNCHANGED <<orderVars, lock, incrementVars, rebuildVars>> /\ Disturb({})
  BY DEF RecordFormView, BookInv, TypeOK
<1>2. row \in Row
  BY <1>1, RowIsTyped, ColumnUpdates DEF BookInv
<1> HIDE DEF row
<1>3. stat' \in [Day -> Row \cup {Null}] /\ \A q \in Orders : increment[q]["created"] = "merging" =>
         stat'[created[q]] = stat[created[q]]
  BY <1>1, <1>2, UnlockedWrite
<1>4. RebuildInRange' /\ quiet' \in [Rebuilds -> BOOLEAN]
  BY <1>1, RangeKept, QuietIsTyped DEF BookInv
<1> QED
  BY <1>1, <1>3, <1>4 DEF BookInv, TypeOK, MergeHoldsRow

\* A rebuild.
LEMMA RebuildKeepsBookInv ==
  ASSUME StatsAssumption, BookInv, NEW r \in Rebuilds,
         RequestRebuild(r) \/ Rebuild(r) \/ FailRebuild(r)
  PROVE  BookInv'
<1>1. UNCHANGED <<orderVars, lock, incrementVars>> /\ quiet' \in [Rebuilds -> BOOLEAN]
  BY DEF RequestRebuild, Rebuild, ReadOrders, ReadRows, Replace, FailRebuild, BookInv, TypeOK
<1>2. UNCHANGED stat => MergeHoldsRow'
  BY <1>1 DEF BookInv, MergeHoldsRow
<1> USE DEF BookInv, TypeOK, RebuildInRange, Running
<1>3. CASE RequestRebuild(r)
  <2> PICK f \in Day, t \in Day :
        /\ f <= t /\ from' = [from EXCEPT ![r] = f] /\ to' = [to EXCEPT ![r] = t]
        /\ cursor' = [cursor EXCEPT ![r] = f]
    BY <1>3 DEF RequestRebuild
  <2>1. /\ step[r] = "none" /\ step' = [step EXCEPT ![r] = "read"]
        /\ UNCHANGED <<stat, tries, readOrders, readViews>>
    BY <1>3 DEF RequestRebuild
  <2>2. f \in 0..LastDay /\ t \in 0..LastDay /\ f \in 0..(LastDay + 1) /\ f <= t + 1
        /\ MaxTries > 0
    BY DEF Day, StatsAssumption
  <2> QED
    BY <1>1, <1>2, <2>1, <2>2
<1>4. CASE ReadOrders(r)
  <2> DEFINE read == [o \in Orders |->
          IF created[o] \in Window(r)
          THEN [created |-> created[o], cancelled |-> cancelled[o], blocked |-> blocked[o]]
          ELSE Null]
  <2>1. read \in [Orders -> OrderRead \cup {Null}]
    <3>1. Window(r) \subseteq Day
      BY <1>4, NextChunkInRange DEF ReadOrders
    <3> QED
      BY <3>1 DEF OrderRead
  <2>2. /\ step[r] = "read" /\ readOrders' = [readOrders EXCEPT ![r] = read]
        /\ step' = [step EXCEPT ![r] = IF readViews[r] = Null THEN @ ELSE "replace"]
        /\ UNCHANGED <<stat, from, to, cursor, tries, readViews>>
    BY <1>4 DEF ReadOrders
  <2> HIDE DEF read
  <2> QED
    BY <1>1, <1>2, <2>1, <2>2
<1>5. CASE ReadRows(r)
  <2>1. [d \in Day |-> RowOf(d).formViews] \in [Day -> Nat]
    BY RowIsTyped DEF Row
  <2> QED
    BY <1>1, <1>2, <1>5, <2>1 DEF ReadRows
<1>6. CASE Replace(r)
  <2>1. step[r] = "replace" /\ Running(r) /\ \A d \in Window(r) : lock[d] = Null
    BY <1>6 DEF Replace
  <2>2. stat' = [d \in Day |-> Replaced(r, d)] /\ stat' \in [Day -> Row \cup {Null}]
    BY <1>6, <2>1, ReplacedIsTyped DEF Replace
  <2>3. MergeHoldsRow'
    <3>1. \A o \in Orders : increment[o]["created"] = "merging" =>
            stat'[created[o]] = stat[created[o]]
      BY <2>1, <2>2 DEF Replaced, StatsAssumption, MergeHoldsRow
    <3> QED
      BY <1>1, <3>1 DEF MergeHoldsRow
  <2> DEFINE next == NextChunk(r)
  <2>4. /\ next \in 0..(LastDay + 1) /\ from[r] <= next
        /\ next <= to[r] + 1 /\ (next > to[r] => next = to[r] + 1)
        /\ (~(next > to[r]) => next <= to[r])
    <3>1. /\ from[r] \in Nat /\ to[r] \in Nat /\ cursor[r] \in Nat /\ LastDay \in Nat
          /\ from[r] <= cursor[r]
      BY <2>1 DEF Day, StatsAssumption
    <3>2. next \in 1..(LastDay + 1) /\ cursor[r] < next /\ next <= to[r] + 1
      BY <2>1, NextChunkInRange
    <3>3. next \in Nat
      BY <3>1, <3>2
    <3> HIDE DEF next, BookInv, TypeOK, RebuildInRange, Running
    <3> QED
      BY <3>1, <3>2, <3>3
  <2>5. /\ cursor' = [cursor EXCEPT ![r] = next]
        /\ step' = [step EXCEPT ![r] = IF next > to[r] THEN "done" ELSE "read"]
        /\ readOrders' = [readOrders EXCEPT ![r] = Null]
        /\ readViews' = [readViews EXCEPT ![r] = Null]
        /\ UNCHANGED <<from, to, tries>>
    BY <1>6 DEF Replace
  <2> HIDE DEF next
  <2> QED
    BY <1>1, <2>1, <2>2, <2>3, <2>4, <2>5
<1>7. CASE FailRebuild(r)
  <2>1. step[r] \in {"read", "replace"} /\ tries[r] + 1 \in 0..MaxTries
    BY <1>7 DEF FailRebuild, StatsAssumption
  <2>2. from[r] \in 0..(LastDay + 1) /\ from[r] <= to[r] /\ from[r] <= to[r] + 1
    <3>1. /\ from[r] \in Nat /\ to[r] \in Nat /\ cursor[r] \in Nat /\ LastDay \in Nat
          /\ from[r] <= cursor[r] /\ cursor[r] <= to[r] /\ from[r] <= LastDay
      BY <2>1 DEF Day, StatsAssumption
    <3> QED
      BY <3>1
  <2> QED
    BY <1>1, <1>2, <1>7, <2>1, <2>2 DEF FailRebuild, StatsAssumption
<1> QED
  BY <1>3, <1>4, <1>5, <1>6, <1>7 DEF Rebuild

LEMMA BookInvNext ==
  ASSUME StatsAssumption, BookInv, [Next]_vars
  PROVE  BookInv'
<1>1. CASE UNCHANGED vars
  BY <1>1 DEF vars, BookInv, TypeOK, MergeHoldsRow, RebuildInRange, Running
<1>2. CASE NextDay
  <2>1. today' \in Day
    BY <1>2 DEF NextDay, BookInv, TypeOK, Day, StatsAssumption
  <2>2. RebuildInRange' /\ quiet' \in [Rebuilds -> BOOLEAN]
    BY <1>2, RangeKept, QuietIsTyped DEF NextDay, BookInv
  <2> QED
    BY <1>2, <2>1, <2>2 DEF NextDay, BookInv, TypeOK, MergeHoldsRow
<1> QED
  BY <1>1, <1>2, OrdersKeepBookInv, IncrementKeepsBookInv, ViewKeepsBookInv, RebuildKeepsBookInv
     DEF Next, Event

-----------------------------------------------------------------------------
(* What each step does to the columns                                       *)

\* A statement writes one day's row.
LEMMA WrittenDay ==
  ASSUME StatsAssumption, TypeOK, NEW d \in Day, NEW row \in Row, stat' = [stat EXCEPT ![d] = row]
  PROVE  /\ RowOf(d)' = row
         /\ \A e \in Day \ {d} : RowOf(e)' = RowOf(e)
  BY DEF StatsAssumption, TypeOK, RowOf

SameColumns(d) ==
  /\ RowOf(d)'.codOrders = RowOf(d).codOrders /\ RowOf(d)'.revenue = RowOf(d).revenue
  /\ RowOf(d)'.countries = RowOf(d).countries

\* The upserts count nothing.
LEMMA UpsertsCountNothing ==
  ASSUME StatsAssumption, BookInv,
         RecordFormView \/ \E o \in Orders : RecordCancelled(o) \/ Upsert(o)
  PROVE  \A d \in Day : SameColumns(d) /\ RowOf(d)'.average = RowOf(d).average
<1> USE DEF BookInv
<1>1. ASSUME NEW d \in Day, NEW row \in Row, stat' = [stat EXCEPT ![d] = row],
             \/ row = [RowOf(d) EXCEPT !.cancelledOrders = @ + 1]
             \/ row = [RowOf(d) EXCEPT !.formViews = @ + 1] \/ row = RowOf(d)
      PROVE  \A e \in Day : SameColumns(e) /\ RowOf(e)'.average = RowOf(e).average
  <2>1. RowOf(d)' = row /\ \A e \in Day \ {d} : RowOf(e)' = RowOf(e)
    BY <1>1, WrittenDay
  <2>2. row.codOrders = RowOf(d).codOrders /\ row.revenue = RowOf(d).revenue
        /\ row.countries = RowOf(d).countries /\ row.average = RowOf(d).average
    BY <1>1, RowIsTyped DEF Row
  <2> QED
    BY <2>1, <2>2 DEF SameColumns
<1>2. CASE RecordFormView
  <2> PICK d \in Day : d = today
    BY DEF TypeOK
  <2> DEFINE row == [RowOf(d) EXCEPT !.formViews = @ + 1]
  <2>1. row \in Row /\ stat' = [stat EXCEPT ![d] = row]
    BY <1>2, RowIsTyped, ColumnUpdates DEF RecordFormView
  <2> QED
    BY <1>1, <2>1
<1>3. ASSUME NEW o \in Orders, RecordCancelled(o)
      PROVE  \A e \in Day : SameColumns(e) /\ RowOf(e)'.average = RowOf(e).average
  <2> PICK d \in Day : d = cancelled[o]
    BY <1>3 DEF RecordCancelled, MergeHoldsRow
  <2> DEFINE row == [RowOf(d) EXCEPT !.cancelledOrders = @ + 1]
  <2>1. row \in Row /\ stat' = [stat EXCEPT ![d] = row]
    BY <1>3, RowIsTyped, ColumnUpdates DEF RecordCancelled
  <2> QED
    BY <1>1, <2>1
<1>4. ASSUME NEW o \in Orders, Upsert(o)
      PROVE  \A e \in Day : SameColumns(e) /\ RowOf(e)'.average = RowOf(e).average
  <2> PICK d \in Day : d = created[o]
    BY <1>4 DEF Upsert, MergeHoldsRow
  <2>1. RowOf(d) \in Row /\ stat' = [stat EXCEPT ![d] = RowOf(d)]
    BY <1>4, RowIsTyped DEF Upsert
  <2> QED
    BY <1>1, <2>1
<1> QED
  BY <1>2, <1>3, <1>4

\* Recalculating changes the average only, and makes it that of the columns.
LEMMA RecalculatesAverage ==
  ASSUME StatsAssumption, BookInv, NEW o \in Orders, NEW e \in Event, RecalculateAverage(o, e)
  PROVE  /\ \A d \in Day : SameColumns(d) /\ \/ RowOf(d)'.average = RowOf(d).average
                                             \/ RowOf(d)'.average = Averaged(RowOf(d)).average
         /\ RowOf(DayOf(o, e))'.average = Averaged(RowOf(DayOf(o, e))).average
<1> USE DEF BookInv
<1> PICK d \in Day : d = DayOf(o, e)
  BY DEF RecalculateAverage, DayOf, MergeHoldsRow, Event
<1>1. DayOf(o, e)' = d
  BY DEF RecalculateAverage, DayOf
<1>2. stat' = [stat EXCEPT ![d] = IF @ = Null THEN Null ELSE Averaged(@)]
  BY DEF RecalculateAverage
<1>3. RowOf(d) \in Row
  BY RowIsTyped
<1>4. CASE stat[d] = Null
  <2>1. stat' = stat
    BY <1>2, <1>4 DEF TypeOK
  <2>2. RowOf(d).average = Averaged(RowOf(d)).average
    BY <1>4 DEF RowOf, EmptyRow, Averaged
  <2> QED
    BY <1>1, <2>1, <2>2 DEF SameColumns, RowOf
<1>5. CASE stat[d] # Null
  <2>1. RowOf(d) = stat[d] /\ stat' = [stat EXCEPT ![d] = Averaged(RowOf(d))]
    BY <1>2, <1>5 DEF RowOf
  <2>2. RowOf(d)' = Averaged(RowOf(d)) /\ \A f \in Day \ {d} : RowOf(f)' = RowOf(f)
    BY <1>3, <2>1, ColumnUpdates, WrittenDay
  <2>3. /\ Averaged(RowOf(d)).codOrders = RowOf(d).codOrders
        /\ Averaged(RowOf(d)).revenue = RowOf(d).revenue
        /\ Averaged(RowOf(d)).countries = RowOf(d).countries
    BY <1>3, ColumnsKept
  <2> QED
    BY <1>1, <2>2, <2>3 DEF SameColumns
<1> QED
  BY <1>4, <1>5

\* A merge counts its order, and adds to the map as it is: the lock held it.
LEMMA MergeCounts ==
  ASSUME StatsAssumption, BookInv, NEW o \in Orders, NEW day \in Day, day = created[o],
         WriteMerged(o)
  PROVE  /\ RowOf(day)'.codOrders = RowOf(day).codOrders + 1
         /\ RowOf(day)'.revenue = RowOf(day).revenue + 1
         /\ RowOf(day)'.countries = RowOf(day).countries + 1
         /\ \A d \in Day \ {day} : RowOf(d)' = RowOf(d)
<1> USE DEF BookInv
<1>1. stat[day] \in Row /\ readMap[o] = stat[day].countries /\ readMap[o] \in Nat
      /\ RowOf(day) = stat[day]
  BY DEF WriteMerged, MergeHoldsRow, TypeOK, RowOf, StatsAssumption
<1>2. stat' = [stat EXCEPT ![day] = Merged(stat[day], readMap[o])]
  BY DEF WriteMerged
<1>3. RowOf(day)' = Merged(stat[day], readMap[o]) /\ \A d \in Day \ {day} : RowOf(d)' = RowOf(d)
  BY <1>1, <1>2, MergedRow, WrittenDay
<1> QED
  BY <1>1, <1>3, MergedRow

\* What a rebuild read of a day's orders.
ReadPlaced(r, d) == {o \in Orders : readOrders[r][o] # Null /\ readOrders[r][o].created = d}
ReadSold(r, d) == {o \in ReadPlaced(r, d) : ~readOrders[r][o].blocked}
ReadDropped(r, d) == {o \in Orders : readOrders[r][o] # Null /\ readOrders[r][o].cancelled = d}

\* A rebuild restates the days of its chunk from what it read, and no other.
LEMMA ReplaceRestates ==
  ASSUME StatsAssumption, BookInv, NEW r \in Rebuilds, Replace(r), NEW d \in Day
  PROVE  /\ d \notin Window(r) => RowOf(d)' = RowOf(d)
         /\ d \in Window(r) =>
              /\ RowOf(d)'.codOrders = Cardinality(ReadPlaced(r, d))
              /\ RowOf(d)'.revenue = Cardinality(ReadSold(r, d))
              /\ RowOf(d)'.countries = Cardinality(ReadSold(r, d))
              /\ RowOf(d)'.cancelledOrders = Cardinality(ReadDropped(r, d))
              /\ RowOf(d)'.average = <<RowOf(d)'.revenue, RowOf(d)'.codOrders>>
<1>1. stat'[d] = Replaced(r, d)
  BY DEF Replace
<1>2. CASE d \notin Window(r)
  BY <1>1, <1>2 DEF Replaced, RowOf
<1>3. CASE d \in Window(r)
  <2> DEFINE placed == ReadPlaced(r, d)
             sold == ReadSold(r, d)
             dropped == ReadDropped(r, d)
             row == [codOrders |-> Cardinality(placed), revenue |-> Cardinality(sold),
                     countries |-> Cardinality(sold), cancelledOrders |-> Cardinality(dropped),
                     formViews |-> readViews[r][d],
                     average |-> <<Cardinality(sold), Cardinality(placed)>>]
  <2>1. RebuiltRow(r, d) = IF placed \cup dropped = {} THEN Null ELSE row
    <3> DEFINE read == {o \in Orders : readOrders[r][o] # Null}
    <3>1. /\ placed = {o \in read : readOrders[r][o].created = d}
          /\ dropped = {o \in read : readOrders[r][o].cancelled = d}
          /\ sold = {o \in placed : ~readOrders[r][o].blocked}
      BY DEF ReadPlaced, ReadSold, ReadDropped
    <3> HIDE DEF placed, sold, dropped
    <3> QED
      BY <3>1 DEF RebuiltRow
  <2>2. stat'[d] = IF placed \cup dropped = {} THEN Null ELSE row
    BY <1>1, <1>3, <2>1 DEF Replaced
  <2>3. CASE placed \cup dropped = {}
    <3>1. placed = {} /\ dropped = {} /\ sold = {}
      BY <2>3 DEF ReadSold
    <3>2. Cardinality(placed) = 0 /\ Cardinality(dropped) = 0 /\ Cardinality(sold) = 0
      BY <3>1, FS_EmptySet
    <3>3. RowOf(d)' = EmptyRow
      BY <2>2, <2>3 DEF RowOf
    <3> HIDE DEF placed, sold, dropped
    <3> QED
      BY <1>3, <3>2, <3>3 DEF EmptyRow, placed, sold, dropped
  <2>4. CASE placed \cup dropped # {}
    <3>1. row # Null
      <4>1. step[r] = "replace" /\ RebuiltRow(r, d) = row
        BY <2>1, <2>4 DEF Replace
      <4>2. Cardinality(placed) \in Nat /\ Cardinality(sold) \in Nat /\ Cardinality(dropped) \in Nat
        BY OrdersAreFinite DEF ReadPlaced, ReadSold, ReadDropped
      <4>3. readViews[r][d] \in Nat
        BY <4>1 DEF BookInv, RebuildInRange
      <4> HIDE DEF placed, sold, dropped
      <4>4. row \in Row
        BY <4>2, <4>3 DEF Row
      <4> QED
        BY <4>4 DEF StatsAssumption
    <3>2. RowOf(d)' = row
      BY <2>2, <2>4, <3>1 DEF RowOf
    <3> HIDE DEF placed, sold, dropped
    <3> QED
      BY <1>3, <3>2 DEF placed, sold, dropped
  <2> QED
    BY <2>3, <2>4
<1> QED
  BY <1>2, <1>3

\* The other steps write no row.
LEMMA OthersWriteNoRow ==
  ASSUME [Next]_vars,
         ~RecordFormView,
         ~\E o \in Orders : \/ RecordCancelled(o) \/ Upsert(o) \/ WriteMerged(o)
                            \/ \E e \in Event : RecalculateAverage(o, e),
         ~\E r \in Rebuilds : Replace(r)
  PROVE  UNCHANGED stat
  BY DEF Next, vars, NextDay, Submit, Cancel, Block, Merge, LockRow, LoseIncrement,
         RequestRebuild, Rebuild, ReadOrders, ReadRows, FailRebuild

-----------------------------------------------------------------------------
(* The map and the average                                                  *)

LEMMA MapNext ==
  ASSUME StatsAssumption, BookInv, MapAgreesWithRevenue, [Next]_vars
  PROVE  MapAgreesWithRevenue'
<1> SUFFICES ASSUME NEW d \in Day PROVE RowOf(d)'.countries = RowOf(d)'.revenue
  BY DEF MapAgreesWithRevenue
<1>1. RowOf(d).countries = RowOf(d).revenue /\ RowOf(d).revenue \in Nat
  BY RowIsTyped DEF MapAgreesWithRevenue, BookInv, Row
<1>2. CASE SameColumns(d)
  BY <1>1, <1>2 DEF SameColumns
<1>3. ASSUME NEW o \in Orders, WriteMerged(o)
      PROVE  RowOf(d)'.countries = RowOf(d)'.revenue
  <2> PICK day \in Day : day = created[o]
    BY <1>3 DEF WriteMerged, BookInv, MergeHoldsRow
  <2> QED
    BY <1>1, <1>3, MergeCounts
<1>4. ASSUME NEW r \in Rebuilds, Replace(r)
      PROVE  RowOf(d)'.countries = RowOf(d)'.revenue
  BY <1>1, <1>4, ReplaceRestates
<1>5. CASE UNCHANGED stat
  BY <1>1, <1>5 DEF RowOf
<1> QED
  BY <1>2, <1>3, <1>4, <1>5, UpsertsCountNothing, RecalculatesAverage, OthersWriteNoRow

\* A day's average stays to be computed until it is, or its computing failed.
LEMMA PendingStays ==
  ASSUME BookInv, [Next]_vars, NEW o \in Orders, increment[o]["created"] = "average",
         increment'[o]["created"] # "average" \/ created'[o] # created[o]
  PROVE  RecalculateAverage(o, "created") \/ created[o] \in lost'
<1> USE DEF BookInv, TypeOK, MergeHoldsRow, Event, SetIncrement
<1>1. ~UNCHANGED <<created, increment>>
  OBVIOUS
<1>2. ASSUME NEW q \in Orders, Submit(q)
      PROVE  FALSE
  BY <1>2 DEF Submit
<1>3. ASSUME NEW q \in Orders, Cancel(q) \/ RecordCancelled(q)
      PROVE  FALSE
  BY <1>3 DEF Cancel, RecordCancelled
<1>4. ASSUME NEW q \in Orders, Merge(q)
      PROVE  FALSE
  BY <1>4 DEF Merge, Upsert, LockRow, WriteMerged
<1>5. ASSUME NEW q \in Orders, NEW e \in Event, RecalculateAverage(q, e)
      PROVE  q = o /\ e = "created"
  BY <1>5 DEF RecalculateAverage
<1>6. ASSUME NEW q \in Orders, NEW e \in Event, LoseIncrement(q, e)
      PROVE  created[o] \in lost'
  BY <1>6 DEF LoseIncrement, DayOf
<1> QED
  BY <1>1, <1>2, <1>3, <1>4, <1>5, <1>6
     DEF Next, vars, NextDay, RecordFormView, Block, RequestRebuild, Rebuild, ReadOrders,
         ReadRows, Replace, FailRebuild

LEMMA AverageNext ==
  ASSUME StatsAssumption, BookInv, AverageSettles, [Next]_vars
  PROVE  AverageSettles'
<1> DEFINE Settled(row) == row.average = <<row.revenue, row.codOrders>>
<1>1. \A row : Averaged(row).average = <<row.revenue, row.codOrders>> \/ row \notin Row
  BY DEF Averaged, Row
<1> SUFFICES ASSUME NEW d \in Day, d \notin lost',
                    \A o \in Orders : increment'[o]["created"] # "average" \/ created'[o] # d
             PROVE  Settled(RowOf(d)')
  <2>1. ASSUME NEW d \in Day PROVE RowOf(d)' \in Row
    BY BookInvNext DEF BookInv, TypeOK, RowOf, EmptyRow, Row
  <2>2. AverageSettles' <=> \A d \in Day \ lost' :
          (\A o \in Orders : increment'[o]["created"] # "average" \/ created'[o] # d)
            => RowOf(d)'.average = Averaged(RowOf(d)').average
    BY DEF AverageSettles
  <2> QED
    BY <1>1, <2>1, <2>2
<1>2. RowOf(d) \in Row
  BY RowIsTyped DEF BookInv
<1>3. ASSUME NEW o \in Orders, increment[o]["created"] = "average", created[o] = d
      PROVE  Settled(RowOf(d)')
  <2>1. RecalculateAverage(o, "created") /\ DayOf(o, "created") = d /\ DayOf(o, "created")' = d
    BY <1>3, PendingStays DEF DayOf, RecalculateAverage
  <2> QED
    BY <1>1, <1>2, <2>1, RecalculatesAverage DEF Event, SameColumns
<1>4. CASE \A o \in Orders : increment[o]["created"] # "average" \/ created[o] # d
  <2>1. d \notin lost
    BY DEF Next, vars, NextDay, RecordFormView, Submit, Cancel, Block, RecordCancelled, Merge,
           Upsert, LockRow, WriteMerged, RecalculateAverage, LoseIncrement, RequestRebuild,
           Rebuild, ReadOrders, ReadRows, Replace, FailRebuild
  <2>2. Settled(RowOf(d))
    BY <1>1, <1>2, <1>4, <2>1 DEF AverageSettles
  <2>3. CASE SameColumns(d) /\ RowOf(d)'.average = RowOf(d).average
    BY <2>2, <2>3 DEF SameColumns
  <2>4. ASSUME NEW o \in Orders, NEW e \in Event, RecalculateAverage(o, e)
        PROVE  Settled(RowOf(d)')
    BY <1>1, <1>2, <2>2, <2>4, RecalculatesAverage DEF SameColumns
  <2>5. ASSUME NEW o \in Orders, WriteMerged(o)
        PROVE  Settled(RowOf(d)')
    <3> PICK day \in Day : day = created[o]
      BY <2>5 DEF WriteMerged, BookInv, MergeHoldsRow
    <3>1. increment'[o]["created"] = "average" /\ created'[o] = day
      BY <2>5 DEF WriteMerged, SetIncrement, BookInv, TypeOK, Event
    <3> QED
      BY <2>2, <2>5, <3>1, MergeCounts
  <2>6. ASSUME NEW r \in Rebuilds, Replace(r)
        PROVE  Settled(RowOf(d)')
    BY <2>2, <2>6, ReplaceRestates
  <2>7. CASE UNCHANGED stat
    BY <2>2, <2>7 DEF RowOf
  <2> HIDE DEF Settled
  <2> QED
    BY <2>3, <2>4, <2>5, <2>6, <2>7, UpsertsCountNothing, OthersWriteNoRow
<1> QED
  BY <1>3, <1>4

-----------------------------------------------------------------------------
(* Days count their orders                                                  *)

\* The orders of a day that are stored and not counted yet.
Waiting(d) == InFlight(d, {"ready", "upserted", "merging"})

\* Until a rebuild runs, no row is lost under a merge.
UpsertedHasRow ==
  NeverRebuilt => \A o \in Orders :
    increment[o]["created"] = "upserted" => stat[created[o]] # Null

CountInv == UpsertedHasRow /\ EveryOrderCounted

LEMMA NoRowVanishes ==
  ASSUME StatsAssumption, BookInv, BookInv', CountInv, [Next]_vars, NeverRebuilt'
  PROVE  UpsertedHasRow' /\ NeverRebuilt /\ ~\E r \in Rebuilds : Replace(r)
<1> USE DEF BookInv, TypeOK
<1>1. ASSUME NEW r \in Rebuilds, RequestRebuild(r) \/ Rebuild(r) \/ FailRebuild(r)
      PROVE  step'[r] # "none"
  BY <1>1 DEF RequestRebuild, Rebuild, ReadOrders, ReadRows, Replace, FailRebuild, Running
<1>2. ~\E r \in Rebuilds : RequestRebuild(r) \/ Rebuild(r) \/ FailRebuild(r)
  BY <1>1 DEF NeverRebuilt
<1>3. UNCHANGED step
  BY <1>2 DEF Next, vars, NextDay, RecordFormView, Submit, Cancel, Block, RecordCancelled, Merge,
              Upsert, LockRow, WriteMerged, RecalculateAverage, LoseIncrement
<1>4. NeverRebuilt
  BY <1>3 DEF NeverRebuilt
<1> SUFFICES ASSUME NEW o \in Orders, increment'[o]["created"] = "upserted"
             PROVE  stat'[created'[o]] # Null
  BY <1>2, <1>4 DEF UpsertedHasRow, Rebuild
<1>5. \A d \in Day : stat[d] # Null => stat'[d] # Null
  <2>1. \A d \in Day : RowOf(d) \in Row /\ RowOf(d) # Null
    BY RowIsTyped DEF StatsAssumption
  <2>2. ASSUME NEW row \in Row
        PROVE  /\ [row EXCEPT !.cancelledOrders = @ + 1] # Null
               /\ [row EXCEPT !.formViews = @ + 1] # Null /\ Averaged(row) # Null
    BY ColumnUpdates DEF StatsAssumption
  <2>3. ASSUME NEW q \in Orders, WriteMerged(q)
        PROVE  \A d \in Day : stat[d] # Null => stat'[d] # Null
    <3>1. created[q] \in Day /\ stat[created[q]] \in Row /\ readMap[q] \in Nat
      BY <2>3 DEF WriteMerged, MergeHoldsRow
    <3>2. Merged(stat[created[q]], readMap[q]) # Null
      BY <3>1, MergedRow DEF StatsAssumption
    <3> QED
      BY <2>3, <3>1, <3>2 DEF WriteMerged
  <2>4. CASE RecordFormView
    BY <2>1, <2>2, <2>4 DEF RecordFormView
  <2>5. ASSUME NEW q \in Orders, RecordCancelled(q) \/ Upsert(q)
        PROVE  \A d \in Day : stat[d] # Null => stat'[d] # Null
    BY <2>1, <2>2, <2>5 DEF RecordCancelled, Upsert
  <2>6. ASSUME NEW q \in Orders, NEW e \in Event, RecalculateAverage(q, e)
        PROVE  \A d \in Day : stat[d] # Null => stat'[d] # Null
    <3>1. stat' = [stat EXCEPT ![DayOf(q, e)] = IF @ = Null THEN Null ELSE Averaged(@)]
      BY <2>6 DEF RecalculateAverage
    <3> SUFFICES ASSUME NEW d \in Day, stat[d] # Null PROVE stat'[d] # Null
      OBVIOUS
    <3>2. stat[d] \in Row /\ Averaged(stat[d]) # Null
      BY <2>2
    <3> QED
      BY <3>1, <3>2
  <2>7. CASE UNCHANGED stat
    BY <2>7
  <2> QED
    BY <1>2, <2>3, <2>4, <2>5, <2>6, <2>7, OthersWriteNoRow DEF Rebuild
<1>6. CASE increment[o]["created"] = "upserted"
  <2>1. created[o] \in Day /\ created'[o] = created[o]
    <3>1. created[o] # 0 /\ created[o] \in Day
      BY <1>6 DEF MergeHoldsRow
    <3>2. ASSUME NEW q \in Orders, Submit(q)
          PROVE  created'[o] = created[o]
      BY <3>1, <3>2 DEF Submit
    <3> QED
      BY <3>1, <3>2, <1>2
         DEF Next, vars, NextDay, RecordFormView, Cancel, Block, RecordCancelled, Merge,
             Upsert, LockRow, WriteMerged, RecalculateAverage, LoseIncrement
  <2> QED
    BY <1>4, <1>5, <1>6, <2>1 DEF CountInv, UpsertedHasRow
<1>7. CASE increment[o]["created"] # "upserted"
  <2>1. Upsert(o)
    <3> USE DEF SetIncrement, Event
    <3>1. CASE UNCHANGED increment
      BY <1>7, <3>1
    <3>2. ASSUME NEW q \in Orders, Submit(q) \/ Cancel(q) \/ RecordCancelled(q)
          PROVE  FALSE
      BY <1>7, <3>2 DEF Submit, Cancel, RecordCancelled
    <3>3. ASSUME NEW q \in Orders, LockRow(q) \/ WriteMerged(q)
          PROVE  FALSE
      BY <1>7, <3>3 DEF LockRow, WriteMerged
    <3>4. ASSUME NEW q \in Orders, NEW e \in Event, RecalculateAverage(q, e) \/ LoseIncrement(q, e)
          PROVE  FALSE
      BY <1>7, <3>4 DEF RecalculateAverage, LoseIncrement
    <3>5. ASSUME NEW q \in Orders, Upsert(q)
          PROVE  q = o
      BY <1>7, <3>5 DEF Upsert
    <3> QED
      BY <1>2, <3>1, <3>2, <3>3, <3>4, <3>5
         DEF Next, vars, NextDay, RecordFormView, Block, Merge
  <2>2. created[o] \in Day /\ RowOf(created[o]) \in Row
    BY <2>1, RowIsTyped DEF Upsert, MergeHoldsRow
  <2> QED
    BY <2>1, <2>2 DEF Upsert, StatsAssumption
<1> QED
  BY <1>6, <1>7

\* A day's order is placed and waits; then it is counted and waits no more.
LEMMA OneMoreWaits ==
  ASSUME NEW P, NEW W, IsFiniteSet(P), IsFiniteSet(W), NEW o, o \notin P, o \notin W,
         NEW n \in Nat, n + Cardinality(W) = Cardinality(P)
  PROVE  n + Cardinality(W \cup {o}) = Cardinality(P \cup {o})
<1>1. Cardinality(W \cup {o}) = Cardinality(W) + 1
  BY FS_AddElement
<1>2. Cardinality(P \cup {o}) = Cardinality(P) + 1
  BY FS_AddElement
<1>3. Cardinality(W) \in Nat
  BY FS_CardinalityType
<1> QED
  BY <1>1, <1>2, <1>3

LEMMA OneIsCounted ==
  ASSUME NEW W, IsFiniteSet(W), NEW o \in W, NEW n \in Nat
  PROVE  n + 1 + Cardinality(W \ {o}) = n + Cardinality(W)
<1>1. Cardinality(W \ {o}) = Cardinality(W) - 1
  BY FS_RemoveElement
<1>2. Cardinality(W) \in Nat
  BY FS_CardinalityType
<1> QED
  BY <1>1, <1>2

LEMMA WaitingIsFinite ==
  ASSUME StatsAssumption, NEW d \in Day
  PROVE  IsFiniteSet(Placed(d)) /\ IsFiniteSet(Waiting(d))
  BY OrdersAreFinite DEF Placed, Waiting, InFlight

LEMMA EveryOrderCountedNext ==
  ASSUME StatsAssumption, BookInv, BookInv', CountInv, [Next]_vars
  PROVE  CountInv'
<1> SUFFICES ASSUME NeverRebuilt', NEW d \in Day, d \notin lost'
             PROVE  RowOf(d)'.codOrders + Cardinality(Waiting(d)') = Cardinality(Placed(d)')
  BY NoRowVanishes DEF CountInv, UpsertedHasRow, EveryOrderCounted, Waiting
<1>1. UpsertedHasRow /\ NeverRebuilt /\ ~\E r \in Rebuilds : Replace(r)
  BY NoRowVanishes DEF CountInv
<1>2. d \notin lost
  BY DEF Next, vars, NextDay, RecordFormView, Submit, Cancel, Block, RecordCancelled, Merge,
         Upsert, LockRow, WriteMerged, RecalculateAverage, LoseIncrement, RequestRebuild,
         Rebuild, ReadOrders, ReadRows, Replace, FailRebuild
<1>3. RowOf(d).codOrders + Cardinality(Waiting(d)) = Cardinality(Placed(d))
  BY <1>1, <1>2 DEF CountInv, EveryOrderCounted, Waiting
<1>4. RowOf(d).codOrders \in Nat
  BY RowIsTyped DEF BookInv, Row
<1> USE DEF BookInv, TypeOK, SetIncrement, Event
<1>5. ASSUME NEW o \in Orders, Submit(o)
      PROVE  RowOf(d)'.codOrders + Cardinality(Waiting(d)') = Cardinality(Placed(d)')
  <2>1. RowOf(d)' = RowOf(d)
    BY <1>5 DEF Submit, RowOf
  <2>2. CASE d = today
    <3>1. /\ Placed(d)' = Placed(d) \cup {o} /\ o \notin Placed(d)
          /\ Waiting(d)' = Waiting(d) \cup {o} /\ o \notin Waiting(d)
      <4>1. created[o] = 0 /\ 0 \notin Day /\ created' = [created EXCEPT ![o] = d]
            /\ increment'[o]["created"] = "ready"
            /\ \A q \in Orders \ {o} : increment'[q]["created"] = increment[q]["created"]
        BY <1>5, <2>2 DEF Submit, Day
      <4> QED
        BY <4>1 DEF Placed, Waiting, InFlight
    <3>2. RowOf(d).codOrders + Cardinality(Waiting(d) \cup {o}) = Cardinality(Placed(d) \cup {o})
      <4> DEFINE n == RowOf(d).codOrders
                 P == Placed(d)
                 W == Waiting(d)
      <4>1. n \in Nat /\ IsFiniteSet(P) /\ IsFiniteSet(W) /\ o \notin P /\ o \notin W
            /\ n + Cardinality(W) = Cardinality(P)
        BY <1>3, <1>4, <3>1, WaitingIsFinite
      <4> HIDE DEF n, P, W, BookInv, TypeOK
      <4>2. n + Cardinality(W \cup {o}) = Cardinality(P \cup {o})
        BY <4>1, OneMoreWaits
      <4> QED
        BY <4>2 DEF n, P, W
    <3> HIDE DEF BookInv, TypeOK
    <3> QED
      BY <2>1, <3>1, <3>2
  <2>3. CASE d # today
    <3>1. Placed(d)' = Placed(d) /\ Waiting(d)' = Waiting(d)
      <4>1. created[o] = 0 /\ 0 \notin Day /\ created' = [created EXCEPT ![o] = today]
            /\ \A q \in Orders \ {o} : increment'[q]["created"] = increment[q]["created"]
        BY <1>5 DEF Submit, Day
      <4> QED
        BY <2>3, <4>1 DEF Placed, Waiting, InFlight
    <3> QED
      BY <1>3, <2>1, <3>1
  <2> QED
    BY <2>2, <2>3
<1>6. ASSUME NEW o \in Orders, WriteMerged(o)
      PROVE  RowOf(d)'.codOrders + Cardinality(Waiting(d)') = Cardinality(Placed(d)')
  <2> PICK day \in Day : day = created[o]
    BY <1>6 DEF WriteMerged, MergeHoldsRow
  <2>1. /\ UNCHANGED created /\ increment[o]["created"] = "merging"
        /\ increment'[o]["created"] = "average"
        /\ \A q \in Orders \ {o} : increment'[q]["created"] = increment[q]["created"]
    BY <1>6 DEF WriteMerged
  <2>2. Placed(d)' = Placed(d)
    BY <2>1 DEF Placed
  <2>3. CASE d = day
    <3>1. Waiting(d)' = Waiting(d) \ {o} /\ o \in Waiting(d)
      BY <2>1, <2>3 DEF Placed, Waiting, InFlight
    <3>2. RowOf(d).codOrders + 1 + Cardinality(Waiting(d) \ {o}) = Cardinality(Placed(d))
      BY <1>3, <1>4, <3>1, WaitingIsFinite, OneIsCounted
    <3>3. RowOf(d)'.codOrders = RowOf(d).codOrders + 1
      BY <1>6, <2>3, MergeCounts
    <3> HIDE DEF BookInv, TypeOK
    <3> QED
      BY <2>2, <3>1, <3>2, <3>3
  <2>4. CASE d # day
    <3>1. Waiting(d)' = Waiting(d)
      BY <2>1, <2>4 DEF Placed, Waiting, InFlight
    <3>2. RowOf(d)' = RowOf(d)
      BY <1>6, <2>4, MergeCounts
    <3> QED
      BY <1>3, <2>2, <3>1, <3>2
  <2> QED
    BY <2>3, <2>4
<1>7. CASE (~\E o \in Orders : Submit(o)) /\ (~\E o \in Orders : WriteMerged(o))
  <2>1. UNCHANGED created
    BY <1>7 DEF Next, vars, NextDay, RecordFormView, Cancel, Block, RecordCancelled, Merge,
           Upsert, LockRow, RecalculateAverage, LoseIncrement, RequestRebuild,
           Rebuild, ReadOrders, ReadRows, Replace, FailRebuild
  <2>2. Placed(d)' = Placed(d)
    BY <2>1 DEF Placed
  <2> DEFINE Wait == {"ready", "upserted", "merging"}
  <2>3. ASSUME NEW q \in Orders, created[q] = d
        PROVE  increment'[q]["created"] \in Wait <=> increment[q]["created"] \in Wait
    <3>1. ASSUME NEW o \in Orders, Cancel(o) \/ RecordCancelled(o) \/ Upsert(o)
          PROVE  increment'[q]["created"] \in Wait <=> increment[q]["created"] \in Wait
      BY <3>1 DEF Cancel, RecordCancelled, Upsert
    <3>2. ASSUME NEW o \in Orders, LockRow(o)
          PROVE  increment'[q]["created"] \in Wait <=> increment[q]["created"] \in Wait
      <4>1. stat[created[o]] # Null
        BY <1>1, <3>2 DEF UpsertedHasRow, LockRow
      <4> QED
        BY <3>2, <4>1 DEF LockRow
    <3>3. ASSUME NEW o \in Orders, NEW e \in Event, RecalculateAverage(o, e)
          PROVE  increment'[q]["created"] \in Wait <=> increment[q]["created"] \in Wait
      BY <3>3 DEF RecalculateAverage
    <3>4. ASSUME NEW o \in Orders, NEW e \in Event, LoseIncrement(o, e)
          PROVE  increment'[q]["created"] \in Wait <=> increment[q]["created"] \in Wait
      <4>1. o # q \/ e # "created"
        BY <2>3, <3>4 DEF LoseIncrement, DayOf
      <4> QED
        BY <3>4, <4>1 DEF LoseIncrement
    <3>5. CASE UNCHANGED increment
      BY <3>5
    <3> QED
      BY <1>7, <3>1, <3>2, <3>3, <3>4, <3>5
         DEF Next, vars, NextDay, RecordFormView, Block, Merge, RequestRebuild, Rebuild,
             ReadOrders, ReadRows, Replace, FailRebuild
  <2>4. Waiting(d)' = Waiting(d)
    BY <2>1, <2>3 DEF Placed, Waiting, InFlight
  <2>5. RowOf(d)'.codOrders = RowOf(d).codOrders
    <3>1. CASE UNCHANGED stat
      BY <3>1 DEF RowOf
    <3> QED
      BY <1>1, <1>7, <3>1, UpsertsCountNothing, RecalculatesAverage, OthersWriteNoRow
         DEF SameColumns
  <2> QED
    BY <1>3, <2>2, <2>4, <2>5
<1> QED
  BY <1>5, <1>6, <1>7

-----------------------------------------------------------------------------
(* A rebuild left alone is exact                                            *)

\* Day d's row says what the orders say.
Restated(d) ==
  /\ RowOf(d).codOrders = Cardinality(Placed(d))
  /\ RowOf(d).revenue = Cardinality({o \in Placed(d) : ~blocked[o]})
  /\ RowOf(d).cancelledOrders <= Cardinality({o \in Orders : cancelled[o] = d})

\* What ordersForRebuild returns of order o.
ReadOf(r, o) ==
  IF created[o] \in Window(r)
  THEN [created |-> created[o], cancelled |-> cancelled[o], blocked |-> blocked[o]]
  ELSE Null

\* A rebuild that nothing disturbed has restated the days before its cursor, and
\* what it read of the chunk at its cursor is what is stored.
ExactInv ==
  \A r \in Rebuilds : quiet[r] =>
    /\ step[r] # "none"
    /\ \A d \in Day : from[r] <= d /\ d < cursor[r] => Restated(d)
    /\ readOrders[r] # Null => Running(r)
    /\ step[r] = "replace" \/ readOrders[r] # Null =>
         readOrders[r] = [o \in Orders |-> ReadOf(r, o)]

LEMMA ReplaceIsExact ==
  ASSUME StatsAssumption, BookInv, ExactInv, NEW r \in Rebuilds, quiet[r], Replace(r),
         NEW d \in Day, d \in Window(r)
  PROVE  Restated(d)'
<1>1. readOrders[r] = [o \in Orders |-> ReadOf(r, o)] /\ UNCHANGED orderVars
  BY DEF Replace, ExactInv
<1>2. ASSUME NEW o \in Orders, readOrders[r][o] # Null
      PROVE  /\ readOrders[r][o].created = created[o]
             /\ readOrders[r][o].cancelled = cancelled[o]
             /\ readOrders[r][o].blocked = blocked[o]
  BY <1>1, <1>2 DEF ReadOf
<1>3. \A o \in Orders : created[o] \in Window(r) => readOrders[r][o] # Null
  <2>1. Window(r) \subseteq Day
    BY NextChunkInRange DEF Replace, Running, BookInv
  <2>2. ASSUME NEW o \in Orders, created[o] \in Window(r)
        PROVE  [created |-> created[o], cancelled |-> cancelled[o], blocked |-> blocked[o]]
                 \in OrderRead
    BY <2>1, <2>2 DEF OrderRead, BookInv, TypeOK
  <2> QED
    BY <1>1, <2>2 DEF ReadOf, StatsAssumption
<1>4. ReadPlaced(r, d) = Placed(d)
  BY <1>2, <1>3 DEF ReadPlaced, Placed
<1>5. ReadSold(r, d) = {o \in Placed(d) : ~blocked[o]}
  BY <1>2, <1>4 DEF ReadSold, ReadPlaced, Placed
<1>6. Cardinality(ReadDropped(r, d)) <= Cardinality({o \in Orders : cancelled[o] = d})
  <2>1. ReadDropped(r, d) \subseteq {o \in Orders : cancelled[o] = d}
    BY <1>2 DEF ReadDropped
  <2>2. IsFiniteSet({o \in Orders : cancelled[o] = d})
    BY OrdersAreFinite
  <2> QED
    BY <2>1, <2>2, FS_Subset
<1>7. /\ Placed(d)' = Placed(d) /\ {o \in Placed(d) : ~blocked[o]}' = {o \in Placed(d) : ~blocked[o]}
      /\ {o \in Orders : cancelled[o] = d}' = {o \in Orders : cancelled[o] = d}
  BY <1>1 DEF Placed
<1>8. /\ RowOf(d)'.codOrders = Cardinality(ReadPlaced(r, d))
      /\ RowOf(d)'.revenue = Cardinality(ReadSold(r, d))
      /\ RowOf(d)'.cancelledOrders = Cardinality(ReadDropped(r, d))
  BY ReplaceRestates
<1> QED
  BY <1>4, <1>5, <1>6, <1>7, <1>8 DEF Restated

\* A day keeps what it says while neither its row nor the orders change.
LEMMA RestatedKept ==
  ASSUME NEW d \in Day, Restated(d), UNCHANGED orderVars, RowOf(d)' = RowOf(d)
  PROVE  Restated(d)'
<1>1. /\ Placed(d)' = Placed(d) /\ {o \in Placed(d) : ~blocked[o]}' = {o \in Placed(d) : ~blocked[o]}
      /\ {o \in Orders : cancelled[o] = d}' = {o \in Orders : cancelled[o] = d}
  BY DEF Placed
<1> QED
  BY <1>1 DEF Restated

\* A step of anything but a rebuild disturbs all; one of a rebuild, the others.
LEMMA QuietStep ==
  ASSUME [Next]_vars, NEW r \in Rebuilds, quiet'[r]
  PROVE  \/ UNCHANGED vars
         \/ RequestRebuild(r) \/ Rebuild(r) \/ FailRebuild(r)
<1>1. ASSUME NEW q \in Rebuilds, RequestRebuild(q) \/ Rebuild(q) \/ FailRebuild(q)
      PROVE  q = r
  BY <1>1 DEF RequestRebuild, Rebuild, ReadOrders, ReadRows, Replace, FailRebuild
<1>2. ~NextDay /\ ~RecordFormView
  BY DEF NextDay, RecordFormView
<1>3. ASSUME NEW o \in Orders
      PROVE  ~(Submit(o) \/ Cancel(o) \/ Block(o) \/ RecordCancelled(o) \/ Merge(o))
  BY DEF Submit, Cancel, Block, RecordCancelled, Merge, Upsert, LockRow, WriteMerged
<1>4. ASSUME NEW o \in Orders, NEW e \in Event
      PROVE  ~(RecalculateAverage(o, e) \/ LoseIncrement(o, e))
  BY DEF RecalculateAverage, LoseIncrement
<1> QED
  BY <1>1, <1>2, <1>3, <1>4 DEF Next

LEMMA ExactNext ==
  ASSUME StatsAssumption, BookInv, ExactInv, [Next]_vars
  PROVE  ExactInv'
<1> DEFINE Exact(r) ==
      /\ step[r] # "none"
      /\ \A d \in Day : from[r] <= d /\ d < cursor[r] => Restated(d)
      /\ readOrders[r] # Null => Running(r)
      /\ step[r] = "replace" \/ readOrders[r] # Null =>
           readOrders[r] = [o \in Orders |-> ReadOf(r, o)]
<1> SUFFICES ASSUME NEW r \in Rebuilds, quiet'[r] PROVE Exact(r)'
  BY DEF ExactInv
<1>1. CASE UNCHANGED vars
  <2>1. quiet[r]
    BY <1>1 DEF vars
  <2>2. \A d \in Day : Restated(d) => Restated(d)'
    BY <1>1, RestatedKept DEF vars, RowOf
  <2> QED
    BY <1>1, <2>1, <2>2 DEF ExactInv, vars, Running, ReadOf, Window
<1>2. CASE RequestRebuild(r)
  <2>1. readOrders[r] = Null
    BY <1>2 DEF RequestRebuild, BookInv, RebuildInRange
  <2>2. PICK f \in Day : from'[r] = f /\ cursor'[r] = f
    BY <1>2 DEF RequestRebuild, BookInv, TypeOK
  <2> QED
    BY <1>2, <2>1, <2>2 DEF RequestRebuild, BookInv, TypeOK, Day
<1>3. CASE Rebuild(r) \/ FailRebuild(r)
  <2>1. quiet[r] /\ Running(r) /\ UNCHANGED <<orderVars, from, to>>
    BY <1>3 DEF Rebuild, ReadOrders, ReadRows, Replace, FailRebuild, Running
  <2>2. Exact(r)
    BY <2>1 DEF ExactInv
  <2>3. CASE ReadOrders(r)
    <3>1. \A d \in Day : Restated(d) => Restated(d)'
      BY <2>1, <2>3, RestatedKept DEF ReadOrders, RowOf
    <3>2. readOrders'[r] = [o \in Orders |-> ReadOf(r, o)]
      BY <2>3 DEF ReadOrders, ReadOf, BookInv, TypeOK
    <3>3. [o \in Orders |-> ReadOf(r, o)]' = [o \in Orders |-> ReadOf(r, o)]
      BY <2>1, <2>3 DEF ReadOrders, ReadOf, Window
    <3> QED
      BY <2>2, <2>3, <3>1, <3>2, <3>3 DEF ReadOrders, Running, BookInv, TypeOK
  <2>4. CASE ReadRows(r)
    <3>1. \A d \in Day : Restated(d) => Restated(d)'
      BY <2>1, <2>4, RestatedKept DEF ReadRows, RowOf
    <3>2. [o \in Orders |-> ReadOf(r, o)]' = [o \in Orders |-> ReadOf(r, o)]
      BY <2>1, <2>4 DEF ReadRows, ReadOf, Window
    <3> QED
      BY <2>2, <2>4, <3>1, <3>2 DEF ReadRows, Running, BookInv, TypeOK
  <2>5. CASE Replace(r)
    <3>1. ASSUME NEW d \in Day, from'[r] <= d, d < cursor'[r]
          PROVE  Restated(d)'
      <4>1. CASE d \in Window(r)
        BY <2>1, <2>5, <4>1, ReplaceIsExact
      <4>2. CASE d \notin Window(r)
        <5>1. d < cursor[r]
          BY <2>1, <2>5, <3>1, <4>2 DEF Replace, NextChunk, Window, Lesser, BookInv, TypeOK, Day,
                                        StatsAssumption
        <5>2. Restated(d) /\ RowOf(d)' = RowOf(d)
          BY <2>1, <2>2, <2>5, <3>1, <4>2, <5>1, ReplaceRestates
        <5> QED
          BY <2>1, <5>2, RestatedKept
      <4> QED
        BY <4>1, <4>2
    <3>2. readOrders'[r] = Null /\ step'[r] \in {"done", "read"}
      BY <2>5 DEF Replace, BookInv, TypeOK
    <3> QED
      BY <3>1, <3>2
  <2>6. CASE FailRebuild(r)
    <3>1. cursor'[r] = from[r] /\ readOrders'[r] = Null /\ step'[r] \in {"failed", "read"}
      BY <2>6 DEF FailRebuild, BookInv, TypeOK
    <3>2. \A d \in Day : ~(from[r] <= d /\ d < from[r])
      BY DEF BookInv, TypeOK, Day
    <3> QED
      BY <2>1, <3>1, <3>2
  <2> QED
    BY <1>3, <2>3, <2>4, <2>5, <2>6 DEF Rebuild
<1> QED
  BY <1>1, <1>2, <1>3, QuietStep

-----------------------------------------------------------------------------
(* The theorems                                                             *)

StatsInv == BookInv /\ MapAgreesWithRevenue /\ AverageSettles /\ CountInv /\ ExactInv

LEMMA StatsInvInit ==
  ASSUME StatsAssumption, Init
  PROVE  StatsInv
<1> USE DEF Init, StatsAssumption
<1>1. \A d \in Day : RowOf(d) = EmptyRow
  BY DEF RowOf
<1>2. BookInv
  <2>1. 1 \in Day /\ 0 \in 0..LastDay /\ 0 \in 0..(LastDay + 1) /\ 0 \in 0..MaxTries
    BY DEF Day
  <2> QED
    BY <2>1 DEF BookInv, TypeOK, MergeHoldsRow, RebuildInRange, Running, Event
<1>3. MapAgreesWithRevenue /\ AverageSettles
  BY <1>1 DEF MapAgreesWithRevenue, AverageSettles, EmptyRow, Averaged
<1>4. CountInv
  <2>1. UpsertedHasRow
    BY DEF UpsertedHasRow, Event
  <2>2. \A d \in Day : Placed(d) = {} /\ Waiting(d) = {}
    BY DEF Placed, Waiting, InFlight, Day
  <2>3. Cardinality({}) = 0
    BY FS_EmptySet
  <2>4. \A d \in Day : RowOf(d).codOrders = 0
    BY <1>1 DEF EmptyRow
  <2> HIDE DEF Init, StatsAssumption
  <2> QED
    BY <2>1, <2>2, <2>3, <2>4 DEF CountInv, EveryOrderCounted, Waiting
<1>5. ExactInv
  BY DEF ExactInv
<1> QED
  BY <1>2, <1>3, <1>4, <1>5 DEF StatsInv

LEMMA StatsInvNext ==
  ASSUME StatsAssumption, StatsInv, [Next]_vars
  PROVE  StatsInv'
  BY BookInvNext, MapNext, AverageNext, EveryOrderCountedNext, ExactNext DEF StatsInv

\* A rebuild that is done has its cursor after its last day.
LEMMA StatsInvGives ==
  ASSUME StatsAssumption, StatsInv
  PROVE  /\ TypeOK /\ MapAgreesWithRevenue /\ AverageSettles /\ EveryOrderCounted
         /\ RebuildIsExact
<1>1. RebuildIsExact
  <2> SUFFICES ASSUME NEW r \in Rebuilds, step[r] = "done", quiet[r],
                      NEW d \in from[r]..to[r]
               PROVE  Restated(d)
    BY DEF RebuildIsExact, Restated
  <2>1. /\ from[r] \in Day /\ to[r] \in Day /\ cursor[r] = to[r] + 1
        /\ \A q \in Day : from[r] <= q /\ q < cursor[r] => Restated(q)
    BY DEF StatsInv, BookInv, RebuildInRange, ExactInv
  <2>2. d \in Day /\ from[r] <= d /\ d < cursor[r]
    BY <2>1 DEF Day, StatsAssumption
  <2> QED
    BY <2>1, <2>2
<1> QED
  BY <1>1 DEF StatsInv, BookInv, CountInv

\* recordOrderCreated, applyDelta and processStatsRebuild, whatever the number
\* of orders, days, chunks and attempts: the rows are rows, the country map adds
\* up to the revenue, the average is that of the columns once nothing is under
\* way, no order of a day is missed while nothing failed, and a rebuild nothing
\* disturbed restates its days from cod_orders.
THEOREM StatsAreSound ==
  ASSUME StatsAssumption
  PROVE  Spec => [](TypeOK /\ MapAgreesWithRevenue /\ AverageSettles /\ EveryOrderCounted
                    /\ RebuildIsExact)
<1>1. Init => StatsInv
  BY StatsInvInit
<1>2. StatsInv /\ [Next]_vars => StatsInv'
  BY StatsInvNext
<1>3. StatsInv => /\ TypeOK /\ MapAgreesWithRevenue /\ AverageSettles /\ EveryOrderCounted
                  /\ RebuildIsExact
  BY StatsInvGives
<1> QED
  BY <1>1, <1>2, <1>3, PTL DEF Spec
=============================================================================
