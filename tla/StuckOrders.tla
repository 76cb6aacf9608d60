----------------------------- MODULE StuckOrders -----------------------------
(***************************************************************************)
(* The merchant's list of the orders that have not reached Shopify: three  *)
(* groups the database parts them into (orders/repository), a page at a    *)
(* time (orders/adminController listStuck), polled by the screen           *)
(* (admin useStuckOrders, OrdersPage) while orders arrive and leave.       *)
(*                                                                         *)
(* An order's number is its place in the order of creation.                *)
(***************************************************************************)
EXTENDS Integers, Sequences, FiniteSets, FiniteSetsExt

CONSTANTS
    Verdicts,   \* what the fraud engine makes of a new order
    MaxOrders,  \* bound on orders
    PageSize,   \* the limit of a request
    COUNT_CAP,  \* where counting stops
    MaxMoves,   \* bound on what becomes of orders
    MaxLooks    \* bound on pages and tabs opened

ASSUME StuckAssumption == {MaxOrders, PageSize, COUNT_CAP} \subseteq Nat \ {0} /\ {MaxMoves, MaxLooks} \subseteq Nat

Groups == {"failing", "held", "waiting"}

VARIABLES
    placed,  \* the orders there are, in the order of their creation
    viewed,  \* the group the merchant looks at
    held,    \* group -> the pages the browser holds of it
    fetch,   \* [kind, pages, wanted, items]: the pages being fetched
    steady,  \* the orders of the tab that have been in it since its pages were asked for
    gone,    \* has an order left the tab since then?
    moves,
    looks

lvars == <<placed, viewed, held, fetch, steady, gone, moves, looks>>

-----------------------------------------------------------------------------
(* The groups. *)

GateHolds(o) ==
    \/ o.riskAction = "REVIEW"
    \/ o.otpRequired /\ ~o.otpVerified
    \/ o.riskAction = "CHALLENGE_OTP" /\ ~o.otpVerified

stuckBase(o) == ~o.pushed /\ o.status \in {"CONFIRMED", "FAILED", "PENDING_OTP"} /\ o.riskAction # "BLOCK"

heldWhere(o) == o.riskAction \in {"REVIEW", "CHALLENGE_OTP"} \/ (o.otpRequired /\ ~o.otpVerified)

\* Mutant: an order is failing when its status says so.
FailedOnly(o) == ~heldWhere(o) /\ o.status = "FAILED"

failingWhere(o) == ~heldWhere(o) /\ (o.status = "FAILED" \/ o.tried)
waitingWhere(o) == ~heldWhere(o) /\ o.status # "FAILED" /\ ~o.tried

groupWhere(group, o) ==
    CASE group = "failing" -> failingWhere(o) [] group = "held" -> heldWhere(o) [] group = "waiting" -> waitingWhere(o)

In(table, group) == {i \in DOMAIN table : stuckBase(table[i]) /\ groupWhere(group, table[i])}

\* The dashboard's tile (analytics liveCounters).
pendingPush == {i \in DOMAIN placed : placed[i].status \in {"CONFIRMED", "FAILED", "PENDING_OTP"}
                                    /\ ~placed[i].pushed /\ placed[i].riskAction # "BLOCK"}

-----------------------------------------------------------------------------
(* One page, the newest first. The cursor's own row is looked for in the table and not in *)
(* the group: what is skipped is the first row at or after its place.                     *)

NoCursor == 0
findStuckPage(group, cursor) ==
    LET from == {i \in In(placed, group) : cursor = NoCursor \/ i =< cursor}
        rest == IF cursor = NoCursor THEN from ELSE {i \in from : \E newer \in from : newer > i}
        items == {i \in rest : Cardinality({newer \in rest : newer > i}) < PageSize}
    IN [items |-> items, nextCursor |-> IF items = rest THEN NoCursor ELSE Min(items)]

countStuckCapped(group) == LET n == Cardinality(In(placed, group)) IN IF n > COUNT_CAP THEN COUNT_CAP ELSE n

-----------------------------------------------------------------------------
(* The screen. *)

NoFetch == [kind |-> "none", pages |-> <<>>, wanted |-> 0, items |-> <<>>]
Cursor(pages) == IF pages = <<>> THEN NoCursor ELSE pages[Len(pages)].nextCursor
Looks == looks < MaxLooks /\ looks' = looks + 1
Begin(kind, pages, wanted) == fetch' = [kind |-> kind, pages |-> pages, wanted |-> wanted, items |-> <<>>]

\* The tabs are drawn once a page is there, and while it counts an order. A tab seen before
\* shows the pages held of it, which are fetched anew at once or at the next poll.
selectTab ==
    /\ held[viewed] # <<>> /\ \E g \in Groups : held[viewed][1].counts[g] > 0
    /\ Looks
    /\ \E g \in Groups \ {viewed} :
          /\ viewed' = g
          /\ \/ Begin("all", <<>>, Max({1, Len(held[g])})) /\ steady' = In(placed, g)
             \/ held[g] # <<>> /\ fetch' = NoFetch /\ steady' = {}
    /\ gone' = FALSE
    /\ UNCHANGED <<placed, held, moves>>

\* Mutant: only the last of the pages is fetched anew.
PollLast ==
    /\ fetch.kind = "none" /\ held[viewed] # <<>>
    /\ Begin("all", SubSeq(held[viewed], 1, Len(held[viewed]) - 1), Len(held[viewed]))
    /\ steady' = In(placed, viewed) /\ gone' = FALSE
    /\ UNCHANGED <<placed, viewed, held, moves, looks>>

\* Every quarter of a minute the pages on screen are fetched anew, one after the other.
Poll ==
    /\ fetch.kind = "none" /\ held[viewed] # <<>>
    /\ Begin("all", <<>>, Len(held[viewed]))
    /\ steady' = In(placed, viewed) /\ gone' = FALSE
    /\ UNCHANGED <<placed, viewed, held, moves, looks>>

\* "Load more" goes on from the cursor on screen, in place of a poll under way.
fetchNextPage ==
    /\ Cursor(held[viewed]) # NoCursor /\ fetch.kind # "next"
    /\ Looks
    /\ Begin("next", held[viewed], Len(held[viewed]) + 1)
    /\ gone' = (gone \/ fetch.kind = "all")
    /\ UNCHANGED <<placed, viewed, held, steady, moves>>

\* The rows and the counts of a page are read side by side.
ReadItems ==
    /\ fetch.kind # "none" /\ fetch.items = <<>>
    /\ fetch' = [fetch EXCEPT !.items = <<findStuckPage(viewed, Cursor(fetch.pages))>>]
    /\ UNCHANGED <<placed, viewed, held, steady, gone, moves, looks>>

listStuck ==
    /\ fetch.items # <<>>
    /\ LET page == [items |-> fetch.items[1].items, nextCursor |-> fetch.items[1].nextCursor,
                    counts |-> [g \in Groups |-> countStuckCapped(g)]]
           pages == Append(fetch.pages, page)
       IN IF Len(pages) = fetch.wanted \/ page.nextCursor = NoCursor
          THEN fetch' = NoFetch /\ held' = [held EXCEPT ![viewed] = pages]
          ELSE fetch' = [fetch EXCEPT !.pages = pages, !.items = <<>>] /\ UNCHANGED held
    /\ UNCHANGED <<placed, viewed, steady, gone, moves, looks>>

-----------------------------------------------------------------------------
(* What becomes of orders meanwhile. *)

Moves == moves < MaxMoves /\ moves' = moves + 1
Becomes(i, o) ==
    /\ Moves
    /\ placed' = [placed EXCEPT ![i] = o]
    /\ LET now == In(placed', viewed)
       IN steady' = steady \cap now /\ gone' = (gone \/ ~(In(placed, viewed) \subseteq now))
    /\ UNCHANGED <<viewed, held, fetch, looks>>

createWithTimeline ==
    /\ Len(placed) < MaxOrders
    /\ \E action \in Verdicts, requireOtp \in BOOLEAN :
          LET otp == requireOtp \/ action = "CHALLENGE_OTP"
          IN placed' = Append(placed, [status |-> IF otp THEN "PENDING_OTP" ELSE "CONFIRMED", tried |-> FALSE,
                                 pushed |-> FALSE, riskAction |-> action, otpRequired |-> otp,
                                 otpVerified |-> FALSE])
    /\ UNCHANGED <<viewed, held, fetch, steady, gone, moves, looks>>

\* An attempt is counted before it is made; it arrives, or fails and is given up at last.
Attempt(i) ==
    /\ ~placed[i].pushed /\ placed[i].riskAction # "BLOCK" /\ ~GateHolds(placed[i])
    /\ \/ ~placed[i].tried /\ Becomes(i, [placed[i] EXCEPT !.tried = TRUE])
       \/ placed[i].tried /\ Becomes(i, [placed[i] EXCEPT !.pushed = TRUE, !.status = "PUSHED"])
       \/ placed[i].tried /\ placed[i].status # "FAILED" /\ Becomes(i, [placed[i] EXCEPT !.status = "FAILED"])

verifyOrder(i) ==
    /\ ~placed[i].pushed /\ (placed[i].otpRequired \/ placed[i].riskAction = "CHALLENGE_OTP") /\ ~placed[i].otpVerified
    /\ Becomes(i, [placed[i] EXCEPT !.otpVerified = TRUE,
                                 !.status = IF @ = "PENDING_OTP" THEN "CONFIRMED" ELSE @])

\* The merchant, or a scan of the order anew.
Decide(i) ==
    \E action \in {"ALLOW", "REVIEW", "BLOCK"} \ {placed[i].riskAction} :
        ~placed[i].pushed /\ Becomes(i, [placed[i] EXCEPT !.riskAction = action])

StuckInit ==
    /\ placed = <<>>
    /\ viewed = "failing" /\ held = [g \in Groups |-> <<>>]
    /\ fetch = [NoFetch EXCEPT !.kind = "all", !.wanted = 1]
    /\ steady = {} /\ gone = FALSE /\ moves = 0 /\ looks = 0

StuckNext ==
    \/ selectTab \/ Poll \/ fetchNextPage \/ ReadItems \/ listStuck \/ createWithTimeline
    \/ \E i \in DOMAIN placed : Attempt(i) \/ verifyOrder(i) \/ Decide(i)

\* The screen polls while it is open, and its requests are answered.
Polling == Poll \/ ReadItems \/ listStuck

StuckSpec == StuckInit /\ [][StuckNext]_lvars /\ WF_lvars(Polling)

-----------------------------------------------------------------------------
(* Properties. *)

\* An order that has not reached Shopify is in one group and in no other, the tile and the
\* list count the same, and what a gate holds is listed as held.
GroupsPart ==
    /\ \A i \in pendingPush : Cardinality({g \in Groups : i \in In(placed, g)}) = 1
    /\ UNION {In(placed, g) : g \in Groups} = pendingPush
    /\ \A i \in pendingPush : GateHolds(placed[i]) => i \in In(placed, "held")

Shown == UNION {held[viewed][p].items : p \in DOMAIN held[viewed]}
\* From page to page the orders are older, so that none is on two of them.
NewestFirst(pages) ==
    \A p, q \in DOMAIN pages : p < q => \A i \in pages[p].items, j \in pages[q].items : i > j
AllPages == fetch.kind = "none" /\ held[viewed] # <<>> /\ Cursor(held[viewed]) = NoCursor

\* The screen shows the newest first and none twice; and when its pages have been fetched to the last, each
\* that was in the tab throughout is on it, unless one left the tab between two pages.
PagesShowAll ==
    /\ NewestFirst(held[viewed])
    /\ AllPages /\ ~gone => steady \subseteq Shown

\* The list of orders that never reached Shopify hides none (orders/repository stuckBase,
\* heldWhere, failingWhere, waitingWhere, findStuckPage).
StuckListIsWhole == GroupsPart /\ PagesShowAll

\* "Watching the row leave the list": the list comes to show what is stuck, in its order.
ListSettles ==
    LET truth == In(placed, viewed)
    IN <>[](/\ held[viewed] # <<>> /\ Shown \subseteq truth
            /\ \A i \in truth : (\E j \in Shown : i > j) => i \in Shown
            /\ Cursor(held[viewed]) = NoCursor => Shown = truth)
=============================================================================
