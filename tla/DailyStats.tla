----------------------------- MODULE DailyStats -----------------------------
(***************************************************************************)
(* The dashboard's aggregate, one row of daily_stats per shop day: the     *)
(* increments that follow an order, and the rebuild that recomputes days   *)
(* from cod_orders and replaces their rows, window after window.           *)
(* Of the lifecycle columns only cancelledOrders is kept: pushedOrders,    *)
(* fulfilledOrders and returnedOrders are written and rebuilt like it.     *)
(***************************************************************************)
EXTENDS Naturals, FiniteSets

CONSTANTS
  Orders,     (* COD orders                                                 *)
  Rebuilds,   (* requests to rebuild a range                                *)
  Null,       (* nothing                                                    *)
  LastDay,    (* bound: the days are 1 to LastDay                           *)
  ChunkDays,  (* CHUNK_DAYS and INLINE_REBUILD_DAYS                         *)
  MaxTries,   (* attempts of a queued rebuild                               *)
  MaxViews,   (* bound on the form views of a day                           *)
  Outages     (* may a statement fail?                                      *)

Day == 1..LastDay

\* The columns kept; average is the (revenue, codOrders) it was computed from.
Row == [codOrders : Nat, revenue : Nat, countries : Nat, cancelledOrders : Nat,
        formViews : Nat, average : Nat \X Nat]

EmptyRow == [codOrders |-> 0, revenue |-> 0, countries |-> 0,
             cancelledOrders |-> 0, formViews |-> 0, average |-> <<0, 0>>]

OrderRead == [created : Day, cancelled : 0..LastDay, blocked : BOOLEAN]

StatsAssumption ==
  /\ IsFiniteSet(Orders)
  /\ LastDay \in Nat \ {0} /\ ChunkDays \in Nat \ {0}
  /\ MaxTries \in Nat \ {0} /\ MaxViews \in Nat
  /\ Outages \in BOOLEAN
  /\ Null \notin Orders /\ Null \notin Row /\ Null \notin OrderRead

VARIABLES
  today,
  (* cod_orders: the day of createdAt and of cancelledAt, 0 for none; and   *)
  (* whether a rescan set riskAction to BLOCK.                              *)
  created, cancelled, blocked,
  (* daily_stats, Null where there is no row, and its row locks.            *)
  stat, lock,
  (* The increment after each event of an order: its step; the country map  *)
  (* a merge read; the days on which an increment failed.                   *)
  increment, readMap, lost,
  (* A rebuild: step, range, first day of its chunk, tries, what it read.   *)
  step, from, to, cursor, tries, readOrders, readViews,
  (* Has nothing else happened since it was asked for?                      *)
  quiet

orderVars == <<today, created, cancelled, blocked>>
incrementVars == <<increment, readMap, lost>>
rebuildVars == <<step, from, to, cursor, tries, readOrders, readViews>>
vars == <<orderVars, stat, lock, incrementVars, rebuildVars, quiet>>

Event == {"created", "cancelled"}

TypeOK ==
  /\ today \in Day
  /\ created \in [Orders -> 0..LastDay] /\ cancelled \in [Orders -> 0..LastDay]
  /\ blocked \in [Orders -> BOOLEAN]
  /\ stat \in [Day -> Row \cup {Null}]
  /\ lock \in [Day -> Orders \cup {Null}]
  /\ increment \in [Orders -> [Event -> {"none", "ready", "upserted", "merging",
                                         "average", "over"}]]
  /\ readMap \in [Orders -> Nat]
  /\ lost \in SUBSET Day
  /\ step \in [Rebuilds -> {"none", "read", "replace", "done", "failed"}]
  /\ from \in [Rebuilds -> 0..LastDay] /\ to \in [Rebuilds -> 0..LastDay]
  /\ cursor \in [Rebuilds -> 0..(LastDay + 1)]
  /\ tries \in [Rebuilds -> 0..MaxTries]
  /\ readOrders \in [Rebuilds -> {Null} \cup [Orders -> OrderRead \cup {Null}]]
  /\ readViews \in [Rebuilds -> {Null} \cup [Day -> Nat]]
  /\ quiet \in [Rebuilds -> BOOLEAN]

Init ==
  /\ today = 1
  /\ created = [o \in Orders |-> 0] /\ cancelled = [o \in Orders |-> 0]
  /\ blocked = [o \in Orders |-> FALSE]
  /\ stat = [d \in Day |-> Null] /\ lock = [d \in Day |-> Null]
  /\ increment = [o \in Orders |-> [e \in Event |-> "none"]]
  /\ readMap = [o \in Orders |-> 0]
  /\ lost = {}
  /\ step = [r \in Rebuilds |-> "none"]
  /\ from = [r \in Rebuilds |-> 0] /\ to = [r \in Rebuilds |-> 0]
  /\ cursor = [r \in Rebuilds |-> 0] /\ tries = [r \in Rebuilds |-> 0]
  /\ readOrders = [r \in Rebuilds |-> Null] /\ readViews = [r \in Rebuilds |-> Null]
  /\ quiet = [r \in Rebuilds |-> FALSE]

\* Nothing is quiet once something other than the rebuilds in R acts.
Disturb(R) == quiet' = [r \in Rebuilds |-> quiet[r] /\ r \in R]

-----------------------------------------------------------------------------
(* Orders and the clock                                                     *)

NextDay ==
  /\ today < LastDay
  /\ today' = today + 1
  /\ Disturb({})
  /\ UNCHANGED <<created, cancelled, blocked, stat, lock, incrementVars, rebuildVars>>

SetIncrement(o, e, s) == increment' = [increment EXCEPT ![o][e] = s]

\* createWithTimeline commits the row; recordOrderCreated is called after it.
Submit(o) ==
  /\ created[o] = 0
  /\ created' = [created EXCEPT ![o] = today]
  /\ SetIncrement(o, "created", "ready")
  /\ Disturb({})
  /\ UNCHANGED <<today, cancelled, blocked, stat, lock, readMap, lost, rebuildVars>>

\* A cancellation webhook writes cancelledAt; recordOrderCancelled follows.
Cancel(o) ==
  /\ created[o] # 0 /\ cancelled[o] = 0
  /\ cancelled' = [cancelled EXCEPT ![o] = today]
  /\ SetIncrement(o, "cancelled", "ready")
  /\ Disturb({})
  /\ UNCHANGED <<today, created, blocked, stat, lock, readMap, lost, rebuildVars>>

\* A rescan blocks an order that was stored and counted as a sale.
Block(o) ==
  /\ created[o] # 0 /\ ~blocked[o]
  /\ blocked' = [blocked EXCEPT ![o] = TRUE]
  /\ Disturb({})
  /\ UNCHANGED <<today, created, cancelled, stat, lock, incrementVars, rebuildVars>>

-----------------------------------------------------------------------------
(* applyDelta                                                               *)

RowOf(d) == IF stat[d] = Null THEN EmptyRow ELSE stat[d]

DayOf(o, e) == IF e = "created" THEN created[o] ELSE cancelled[o]

Averaged(row) == [row EXCEPT !.average = <<row.revenue, row.codOrders>>]

\* Telemetry: one upsert. The average computed after it cannot have changed.
RecordFormView ==
  /\ lock[today] = Null /\ RowOf(today).formViews < MaxViews
  /\ stat' = [stat EXCEPT ![today] = [RowOf(today) EXCEPT !.formViews = @ + 1]]
  /\ Disturb({})
  /\ UNCHANGED <<orderVars, lock, incrementVars, rebuildVars>>

\* A delta without dimensions is one atomic upsert.
RecordCancelled(o) ==
  LET d == cancelled[o] IN
  /\ increment[o]["cancelled"] = "ready" /\ lock[d] = Null
  /\ stat' = [stat EXCEPT ![d] = [RowOf(d) EXCEPT !.cancelledOrders = @ + 1]]
  /\ SetIncrement(o, "cancelled", "average")
  /\ Disturb({})
  /\ UNCHANGED <<orderVars, lock, readMap, lost, rebuildVars>>

\* A delta with dimensions: first the row must exist ...
Upsert(o) ==
  LET d == created[o] IN
  /\ increment[o]["created"] = "ready" /\ lock[d] = Null
  /\ stat' = [stat EXCEPT ![d] = RowOf(d)]
  /\ SetIncrement(o, "created", "upserted")
  /\ Disturb({})
  /\ UNCHANGED <<orderVars, lock, readMap, lost, rebuildVars>>

\* Mutant: without FOR UPDATE.
ReadUnlocked(o) ==
  LET d == created[o] IN
  /\ increment[o]["created"] = "upserted"
  /\ IF stat[d] = Null
     THEN SetIncrement(o, "created", "average") /\ UNCHANGED <<lock, readMap>>
     ELSE /\ SetIncrement(o, "created", "merging")
          /\ readMap' = [readMap EXCEPT ![o] = stat[d].countries]
          /\ UNCHANGED lock
  /\ Disturb({})
  /\ UNCHANGED <<orderVars, stat, lost, rebuildVars>>

\* ... then SELECT FOR UPDATE and the read of the maps; a row that a rebuild
\* has deleted in between ends the transaction without a write.
LockRow(o) ==
  LET d == created[o] IN
  /\ increment[o]["created"] = "upserted" /\ lock[d] = Null
  /\ IF stat[d] = Null
     THEN SetIncrement(o, "created", "average") /\ UNCHANGED <<lock, readMap>>
     ELSE /\ SetIncrement(o, "created", "merging")
          /\ readMap' = [readMap EXCEPT ![o] = stat[d].countries]
          /\ lock' = [lock EXCEPT ![d] = o]
  /\ Disturb({})
  /\ UNCHANGED <<orderVars, stat, lost, rebuildVars>>

\* A delta: one order, its total, and its key of the country map as read.
Merged(row, map) ==
  [row EXCEPT !.codOrders = @ + 1, !.revenue = @ + 1, !.countries = map + 1]

\* The counters are incremented, the maps written as merged; COMMIT unlocks.
WriteMerged(o) ==
  LET d == created[o] IN
  /\ increment[o]["created"] = "merging"
  /\ stat' = [stat EXCEPT ![d] = Merged(@, readMap[o])]
  /\ lock' = [lock EXCEPT ![d] = Null]
  /\ readMap' = [readMap EXCEPT ![o] = 0]
  /\ SetIncrement(o, "created", "average")
  /\ Disturb({})
  /\ UNCHANGED <<orderVars, lost, rebuildVars>>

\* Mutant: the path that merges returns without it.
SkipAverage(o, e) ==
  /\ increment[o][e] = "average"
  /\ SetIncrement(o, e, "over")
  /\ Disturb({})
  /\ UNCHANGED <<orderVars, stat, lock, readMap, lost, rebuildVars>>

\* recalculateAverage: an UPDATE of the row, if there is one.
RecalculateAverage(o, e) ==
  LET d == DayOf(o, e) IN
  /\ increment[o][e] = "average" /\ lock[d] = Null
  /\ stat' = [stat EXCEPT ![d] = IF @ = Null THEN Null ELSE Averaged(@)]
  /\ SetIncrement(o, e, "over")
  /\ Disturb({})
  /\ UNCHANGED <<orderVars, lock, readMap, lost, rebuildVars>>

\* record catches: a failed statement is logged and the increment given up. (An
\* empty row the aborted transaction had inserted reads like no row.)
LoseIncrement(o, e) ==
  LET d == DayOf(o, e) IN
  /\ Outages
  /\ increment[o][e] \in {"ready", "upserted", "merging", "average"}
  /\ lock' = [lock EXCEPT ![d] = IF @ = o /\ e = "created" THEN Null ELSE @]
  /\ readMap' = [readMap EXCEPT ![o] = IF e = "created" THEN 0 ELSE @]
  /\ lost' = lost \cup {d}
  /\ SetIncrement(o, e, "over")
  /\ Disturb({})
  /\ UNCHANGED <<orderVars, stat, rebuildVars>>

-----------------------------------------------------------------------------
(* rebuildRange and the loop of processStatsRebuild around it               *)

Lesser(a, b) == IF a < b THEN a ELSE b

\* A range of at most ChunkDays is rebuilt in the request, a longer one by the
\* worker, which runs one job at a time.
Inline(r) == to[r] - from[r] < ChunkDays
Running(r) == step[r] \in {"read", "replace"}

RequestRebuild(r) ==
  /\ step[r] = "none"
  /\ \E f, t \in Day :
       /\ f <= t
       /\ t - f >= ChunkDays => \A q \in Rebuilds : Running(q) => Inline(q)
       /\ from' = [from EXCEPT ![r] = f]
       /\ to' = [to EXCEPT ![r] = t]
       /\ cursor' = [cursor EXCEPT ![r] = f]
  /\ step' = [step EXCEPT ![r] = "read"]
  /\ quiet' = [q \in Rebuilds |-> q = r]
  /\ UNCHANGED <<orderVars, stat, lock, incrementVars, tries, readOrders, readViews>>

Window(r) == cursor[r]..Lesser(cursor[r] + ChunkDays - 1, to[r])

\* ordersForRebuild: the orders created in the window, and only those.
ReadOrders(r) ==
  /\ step[r] = "read" /\ readOrders[r] = Null
  /\ readOrders' = [readOrders EXCEPT ![r] =
       [o \in Orders |->
          IF created[o] \in Window(r)
          THEN [created |-> created[o], cancelled |-> cancelled[o], blocked |-> blocked[o]]
          ELSE Null]]
  /\ step' = [step EXCEPT ![r] = IF readViews[r] = Null THEN @ ELSE "replace"]
  /\ Disturb({r})
  /\ UNCHANGED <<orderVars, stat, lock, incrementVars, from, to, cursor, tries, readViews>>

\* findRange, run beside it: the telemetry of the stored rows.
ReadRows(r) ==
  /\ step[r] = "read" /\ readViews[r] = Null
  /\ readViews' = [readViews EXCEPT ![r] = [d \in Day |-> RowOf(d).formViews]]
  /\ step' = [step EXCEPT ![r] = IF readOrders[r] = Null THEN @ ELSE "replace"]
  /\ Disturb({r})
  /\ UNCHANGED <<orderVars, stat, lock, incrementVars, from, to, cursor, tries, readOrders>>

\* The row of day d, recomputed from the orders read.
RebuiltRow(r, d) ==
  LET read == {o \in Orders : readOrders[r][o] # Null}
      placed == {o \in read : readOrders[r][o].created = d}
      sold == {o \in placed : ~readOrders[r][o].blocked}
      dropped == {o \in read : readOrders[r][o].cancelled = d}
  IN IF placed \cup dropped = {} THEN Null
     ELSE [codOrders |-> Cardinality(placed), revenue |-> Cardinality(sold),
           countries |-> Cardinality(sold), cancelledOrders |-> Cardinality(dropped),
           formViews |-> readViews[r][d],
           average |-> <<Cardinality(sold), Cardinality(placed)>>]

\* deleteMany and createMany: rows in the window are replaced, a day nobody
\* placed or cancelled an order on loses its row, other days are dropped.
Replaced(r, d) == IF d \in Window(r) THEN RebuiltRow(r, d) ELSE stat[d]

\* Mutant: the next chunk skips a day.
SkipDay(r) == cursor[r] + ChunkDays + 1

NextChunk(r) == Lesser(cursor[r] + ChunkDays - 1, to[r]) + 1

\* One transaction, which waits for merges that hold a row of the window, and
\* the step of the loop after it.
Replace(r) ==
  /\ step[r] = "replace"
  /\ \A d \in Window(r) : lock[d] = Null
  /\ stat' = [d \in Day |-> Replaced(r, d)]
  /\ cursor' = [cursor EXCEPT ![r] = NextChunk(r)]
  /\ step' = [step EXCEPT ![r] = IF NextChunk(r) > to[r] THEN "done" ELSE "read"]
  /\ readOrders' = [readOrders EXCEPT ![r] = Null]
  /\ readViews' = [readViews EXCEPT ![r] = Null]
  /\ Disturb({r})
  /\ UNCHANGED <<orderVars, lock, incrementVars, from, to, tries>>

\* A statement fails, or a row was inserted under the transaction. The request
\* answers an error; the job is tried again from its first chunk.
FailRebuild(r) ==
  /\ Outages /\ Running(r)
  /\ tries' = [tries EXCEPT ![r] = @ + 1]
  /\ step' = [step EXCEPT ![r] =
                IF Inline(r) \/ tries[r] + 1 = MaxTries THEN "failed" ELSE "read"]
  /\ cursor' = [cursor EXCEPT ![r] = from[r]]
  /\ readOrders' = [readOrders EXCEPT ![r] = Null]
  /\ readViews' = [readViews EXCEPT ![r] = Null]
  /\ Disturb({r})
  /\ UNCHANGED <<orderVars, stat, lock, incrementVars, from, to>>

-----------------------------------------------------------------------------
Merge(o) == Upsert(o) \/ LockRow(o) \/ WriteMerged(o)
Rebuild(r) == ReadOrders(r) \/ ReadRows(r) \/ Replace(r)

Next ==
  \/ NextDay
  \/ RecordFormView
  \/ \E o \in Orders :
       \/ Submit(o) \/ Cancel(o) \/ Block(o)
       \/ RecordCancelled(o) \/ Merge(o)
       \/ \E e \in Event : RecalculateAverage(o, e) \/ LoseIncrement(o, e)
  \/ \E r \in Rebuilds : RequestRebuild(r) \/ Rebuild(r) \/ FailRebuild(r)

Spec == Init /\ [][Next]_vars

\* The database runs the transactions it was given, and a rebuild that was
\* accepted is executed by the request or by the worker.
Fairness ==
  /\ \A o \in Orders : WF_vars(Merge(o))
  /\ \A r \in Rebuilds : WF_vars(Rebuild(r))

FairSpec == Spec /\ Fairness

-----------------------------------------------------------------------------
Placed(d) == {o \in Orders : created[o] = d}
InFlight(d, steps) == {o \in Placed(d) : increment[o]["created"] \in steps}
NeverRebuilt == \A r \in Rebuilds : step[r] = "none"

\* applyDelta: "Two orders landing in the same second must both be counted".
\* Until something fails or rebuilds, the day's orders are those counted and
\* those whose increment has yet to be written.
EveryOrderCounted ==
  NeverRebuilt => \A d \in Day \ lost :
    RowOf(d).codOrders + Cardinality(InFlight(d, {"ready", "upserted", "merging"}))
      = Cardinality(Placed(d))

\* FOR UPDATE: merging the country map never loses a key's count that the
\* columns of the same transaction kept, rebuilds and lost increments included.
MapAgreesWithRevenue == \A d \in Day : RowOf(d).countries = RowOf(d).revenue

\* recalculateAverage: once nothing is under way on a day and nothing failed,
\* the stored average is that of the stored columns.
AverageSettles ==
  \A d \in Day \ lost :
    (\A o \in Orders : increment[o]["created"] # "average" \/ created[o] # d)
      => RowOf(d).average = Averaged(RowOf(d)).average

\* processStatsRebuild: when nothing else moved meanwhile, the chunks together
\* restate every day of the range from cod_orders, and invent no cancellation.
RebuildIsExact ==
  \A r \in Rebuilds : step[r] = "done" /\ quiet[r] =>
    \A d \in from[r]..to[r] :
      /\ RowOf(d).codOrders = Cardinality(Placed(d))
      /\ RowOf(d).revenue = Cardinality({o \in Placed(d) : ~blocked[o]})
      /\ RowOf(d).cancelledOrders <= Cardinality({o \in Orders : cancelled[o] = d})
=============================================================================
