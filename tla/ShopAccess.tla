----------------------------- MODULE ShopAccess -----------------------------
(***************************************************************************)
(* How a shop's offline token is obtained, kept usable, and given up: the  *)
(* admin's authentication (modules/auth, middlewares/authenticateAdmin),   *)
(* the stored session and its renewal (shopify/sessionStorage,             *)
(* shopify/tokenRefresh), an Admin API call (shopify/graphql), the row of  *)
(* the shop (shop/repository) and the lifecycle webhooks.                  *)
(*                                                                         *)
(* One shop. An operation is a request, a job or a webhook running in one  *)
(* of the two processes; every await is a step. Shopify's side of the      *)
(* grant is modelled from how the code uses it: an access token is taken   *)
(* while it is the newest and has not expired, a refresh token buys the    *)
(* next one, and answers the same again for a while after.                 *)
(*                                                                         *)
(* A copy of a token, stored or in memory, is described by what Shopify    *)
(* thinks of it now: the newest, the one before, or dead.                  *)
(***************************************************************************)
EXTENDS Naturals, FiniteSets

CONSTANTS
    Ops,        \* operations that may run at once
    MaxTurns    \* bound on what the merchant, time and a failing network do

ASSUME AccessAssumption == MaxTurns \in Nat

Processes == {"api", "worker"}
Scopes == {"full", "short"}     \* the declared scopes are covered, or they are not
Ages == {"permanent", "fresh", "near", "expired"}   \* near: within REFRESH_MARGIN_MS
Sessions == [token : {"newest", "previous", "dead"}, scope : Scopes, age : Ages]
NoSession == [token |-> "none", scope |-> "short", age |-> "fresh"]

VARIABLES
    grant,      \* Shopify's: [installed, scope, age], the age of the newest token or "none"
    stored,     \* the offline session in the database
    row,        \* the shop row: "none", "active", "uninstalled"
    op,         \* per operation: [job, at, process, held, arg, attempt, retried]
    sent,       \* webhooks Shopify has sent and the app has not handled
    plain,      \* has the token only ever been refreshed, no answer lost, no copy put
                \* back, no call refused when it had no attempt left to refresh with?
    ticked,     \* since the oldest operation began, has a token been issued or aged?
    turns

avars == <<grant, stored, row, op, sent, plain, ticked, turns>>

Jobs == {"request", "job", "scopes", "uninstalled", "redact"}
Steps == {"load", "joined", "reload", "renew", "keep", "exchange", "keepNew", "provision",
          "create", "revive", "call", "refresh", "keepRetry", "purge", "rescope",
          "forget", "mark"}
DEFAULT_MAX_ATTEMPTS == 3   \* of an Admin API call, the one after a refresh included
Idle0 == [job |-> "none", at |-> "done", process |-> "api", held |-> NoSession,
          arg |-> "full", attempt |-> 1, retried |-> FALSE]

AccessTypeOK ==
    /\ grant \in [installed : BOOLEAN, scope : Scopes, age : Ages \cup {"none"}]
    /\ stored \in Sessions \cup {NoSession}
    /\ row \in {"none", "active", "uninstalled"}
    /\ op \in [Ops -> [job : Jobs \cup {"none"}, at : Steps \cup {"done"}, process : Processes,
                       held : Sessions \cup {NoSession}, arg : Scopes,
                       attempt : 1..DEFAULT_MAX_ATTEMPTS, retried : BOOLEAN]]
    /\ sent \subseteq [topic : {"scopes", "uninstalled", "redact"}, scope : Scopes]
    /\ {plain, ticked} \subseteq BOOLEAN
    /\ turns \in 0..MaxTurns

-----------------------------------------------------------------------------
(* Helpers. *)

HasToken(s) == s # NoSession
isPermanent(s) == s.age = "permanent"
Usable(s) == s.age = "fresh"

\* A copy, once a newer token has been issued, and once none is good any more.
Outdated(s) == CASE s.token = "newest" -> [s EXCEPT !.token = IF isPermanent(s) THEN "dead"
                                                              ELSE "previous"]
                 [] s.token = "previous" -> [s EXCEPT !.token = "dead"]
                 [] OTHER -> s
Killed(s) == IF HasToken(s) THEN [s EXCEPT !.token = "dead"] ELSE s

\* What an operation does with the session it has loaded.
After(o, s) ==
    CASE op[o].job = "request" ->
             IF HasToken(s) /\ s.scope = "full" THEN "provision" ELSE "exchange"
      [] op[o].job = "job" -> IF HasToken(s) THEN "call" ELSE "done"
      [] OTHER -> IF HasToken(s) THEN "rescope" ELSE "done"

Goes(o, at, s) == IF at = "done" THEN Idle0 ELSE [op[o] EXCEPT !.at = at, !.held = s]
Go(o, at, s) == op' = [op EXCEPT ![o] = Goes(o, at, s)]

\* What the others hold after a token was issued.
Outdate == [p \in Ops |-> [op[p] EXCEPT !.held = Outdated(@)]]

\* The promise in inFlight: those who joined it take what it resolves to.
Renewing(o) == op[o].at \in {"reload", "renew", "keep"}
Resumed(ops, o, s) ==
    [p \in Ops |-> IF p = o \/ (op[p].at = "joined" /\ op[p].process = op[o].process)
                   THEN Goes(p, After(p, s), s) ELSE ops[p]]
Loaded(o, s) == op' = Resumed(op, o, s)

Turn == turns < MaxTurns /\ turns' = turns + 1
Quiet == UNCHANGED <<grant, row, sent, plain, ticked>> /\ turns' = turns
Failed == UNCHANGED <<grant, stored, row, sent, plain, ticked>> /\ Turn

-----------------------------------------------------------------------------
(* loadOfflineSession. *)

Running == \E o \in Ops : op[o].job # "none"

Begin(o, job, scope) ==
    /\ op[o].job = "none"
    /\ \E p \in Processes :
          /\ job # "job" => p = "api"
          /\ op' = [op EXCEPT ![o] = [Idle0 EXCEPT !.job = job, !.process = p, !.arg = scope,
                        !.at = IF job \in {"uninstalled", "redact"} THEN "forget" ELSE "load"]]
    /\ ticked' = (ticked /\ Running)
    /\ UNCHANGED <<grant, stored, row, plain, turns>>

OpenApp(o) == grant.installed /\ Begin(o, "request", "full") /\ UNCHANGED sent
StartJob(o) == Begin(o, "job", "full") /\ UNCHANGED sent

\* A usable token is taken as it is; a renewal already running in this process is
\* awaited; otherwise one starts.
ensureUsableToken(o) ==
    /\ op[o].at = "load"
    /\ IF ~HasToken(stored) \/ Usable(stored) THEN Go(o, After(o, stored), stored)
       ELSE IF \E p \in Ops : Renewing(p) /\ op[p].process = op[o].process
       THEN Go(o, "joined", stored)
       ELSE Go(o, "reload", stored)
    /\ UNCHANGED stored /\ Quiet

\* renew() reads again first: another process may have renewed meanwhile.
Reread(o) ==
    /\ op[o].at = "reload"
    /\ LET current == IF HasToken(stored) THEN stored ELSE op[o].held
       IN IF Usable(current) THEN Loaded(o, current) ELSE Go(o, "renew", current)
    /\ UNCHANGED stored /\ Quiet

\* Shopify's answer to a refresh token: the next token; the one it already gave for
\* it; or a refusal. A permanent token is revoked when it is migrated.
Rotates(s) == s.token = "newest"
Repeats(s) == s.token = "previous"
Issued == [grant EXCEPT !.age = "fresh"]
Newest(s, age) == [s EXCEPT !.token = "newest", !.age = age]

\* renew() and forceRefresh() when Shopify answers: the scope is kept, because the
\* answer carries none; a refusal leads to Refused.
Spend(o, bought, Refused) ==
    LET s == op[o].held IN
    \/ /\ Rotates(s)
       /\ grant' = Issued
       /\ stored' = Outdated(stored)
       /\ op' = [Outdate EXCEPT ![o] = Goes(o, bought, Newest(s, "fresh"))]
       /\ ticked' = TRUE
       /\ UNCHANGED <<row, sent, plain, turns>>
    \/ /\ Repeats(s)
       /\ Go(o, bought, Newest(s, grant.age))
       /\ UNCHANGED stored /\ Quiet
    \/ /\ s.token = "dead"
       /\ op' = Refused
       /\ UNCHANGED stored /\ Quiet

\* The request is lost, or its answer is; either way the caller is refused.
SpendLost(o, unasked, unanswered) ==
    /\ Turn
    /\ plain' = FALSE
    /\ \/ op' = unasked /\ UNCHANGED <<grant, stored, ticked>>
       \/ /\ Rotates(op[o].held)
          /\ grant' = Issued
          /\ ticked' = TRUE
          /\ stored' = Outdated(stored)
          /\ op' = unanswered
    /\ UNCHANGED <<row, sent>>

\* A failure of any kind hands the callers the session they had.
Renew(o) == op[o].at = "renew" /\ Spend(o, "keep", Resumed(op, o, op[o].held))
RenewFails(o) ==
    /\ op[o].at = "renew"
    /\ SpendLost(o, Resumed(op, o, op[o].held), Resumed(Outdate, o, Outdated(op[o].held)))

Keep(o) ==
    /\ op[o].at = "keep"
    /\ stored' = op[o].held
    /\ Loaded(o, op[o].held)
    /\ Quiet

-----------------------------------------------------------------------------
(* resolveSession, ensureProvisioned and the check of the scopes. *)

\* exchangeForOfflineToken: refused, or lost, it ends the request.
Exchange(o) ==
    /\ op[o].at = "exchange" /\ grant.installed
    /\ grant' = Issued
    /\ plain' = (plain /\ grant.age = "none")
    /\ stored' = Killed(stored)
    /\ op' = [p \in Ops |->
                 IF p = o
                 THEN Goes(o, "keepNew", [token |-> "newest", scope |-> grant.scope, age |-> "fresh"])
                 ELSE [op[p] EXCEPT !.held = Killed(@)]]
    /\ ticked' = TRUE
    /\ UNCHANGED <<row, sent, turns>>

ExchangeFails(o) ==
    /\ op[o].at = "exchange"
    /\ Go(o, "done", NoSession)
    /\ Failed

KeepNew(o) ==
    /\ op[o].at = "keepNew"
    /\ stored' = op[o].held
    /\ Go(o, "provision", op[o].held)
    /\ Quiet

\* The scopes are judged last, on the session the exchange brought.
Admitted(s) == IF s.scope = "full" THEN "call" ELSE "done"

\* An active row is left as it is.
ensureProvisioned(o) ==
    /\ op[o].at = "provision"
    /\ Go(o, CASE row = "active" -> Admitted(op[o].held)
               [] row = "none" -> "create"
               [] OTHER -> "revive", op[o].held)
    /\ UNCHANGED stored /\ Quiet

\* Whoever loses the race for the row takes the winner's.
createWithDefaults(o) ==
    /\ op[o].at = "create"
    /\ row' = IF row = "none" THEN "active" ELSE row
    /\ Go(o, Admitted(op[o].held), op[o].held)
    /\ UNCHANGED <<grant, stored, sent, plain, ticked, turns>>

\* The row is updated by its id: if it was erased meanwhile the request fails.
Revive(o) ==
    /\ op[o].at = "revive"
    /\ row' = IF row = "none" THEN row ELSE "active"
    /\ IF row = "none" THEN Go(o, "done", NoSession) ELSE Go(o, Admitted(op[o].held), op[o].held)
    /\ UNCHANGED <<grant, stored, sent, plain, ticked, turns>>

-----------------------------------------------------------------------------
(* adminGraphql. *)

\* The newest token is taken until it expires; the one before it may be.
Accepted(s) == s.token \in {"newest", "previous"} /\ s.age \in {"fresh", "near"}
Refusable(s) == ~Accepted(s) \/ s.token = "previous"

CallAnswers(o) ==
    /\ op[o].at = "call" /\ Accepted(op[o].held)
    /\ Go(o, "done", NoSession)
    /\ UNCHANGED stored /\ Quiet

\* Throttled, a 5xx or no answer: tried again after a while.
CallRetried(o) ==
    /\ op[o].at = "call" /\ op[o].attempt < DEFAULT_MAX_ATTEMPTS
    /\ op' = [op EXCEPT ![o].attempt = @ + 1]
    /\ UNCHANGED stored /\ Quiet

\* What is not tried again, or the last attempt fails.
CallFails(o) ==
    /\ op[o].at = "call"
    /\ Go(o, "done", NoSession)
    /\ Failed

\* Mutant: a refused token is taken for a revoked grant at once.
PurgesAtOnce(o) ==
    /\ op[o].at = "call" /\ Refusable(op[o].held)
    /\ Go(o, "purge", op[o].held)
    /\ UNCHANGED stored /\ Quiet

\* A refused token leads to a refresh once per call, while an attempt is left to use
\* what it buys (counted at once: nothing reads the count before); otherwise the
\* session is purged, whatever its refresh token is still worth.
CallRefused(o) ==
    /\ op[o].at = "call" /\ Refusable(op[o].held)
    /\ UNCHANGED <<grant, stored, row, sent, ticked, turns>>
    /\ IF ~op[o].retried /\ op[o].attempt < DEFAULT_MAX_ATTEMPTS /\ ~isPermanent(op[o].held)
       THEN /\ op' = [op EXCEPT ![o].at = "refresh", ![o].attempt = @ + 1]
            /\ plain' = plain
       ELSE /\ Go(o, "purge", op[o].held)
            /\ plain' = (plain /\ op[o].retried)

\* forceRefresh spends what the caller holds; any failure is read as a revoked grant.
forceRefresh(o) ==
    op[o].at = "refresh" /\ Spend(o, "keepRetry", [op EXCEPT ![o].at = "purge"])
forceRefreshFails(o) ==
    /\ op[o].at = "refresh"
    /\ LET Gone(ops, s) == [ops EXCEPT ![o] = Goes(o, "purge", s)]
       IN SpendLost(o, Gone(op, op[o].held), Gone(Outdate, Outdated(op[o].held)))

refreshRejectedSession(o) ==
    /\ op[o].at = "keepRetry"
    /\ stored' = op[o].held
    /\ op' = [op EXCEPT ![o].at = "call", ![o].retried = TRUE]
    /\ Quiet

\* Mutant: the refused session is kept.
LeavesSession(o) ==
    /\ op[o].at = "purge"
    /\ Go(o, "done", NoSession)
    /\ UNCHANGED stored /\ Quiet

deleteShopSessions(o) ==
    /\ op[o].at = "purge"
    /\ stored' = NoSession
    /\ Go(o, "done", NoSession)
    /\ Quiet

-----------------------------------------------------------------------------
(* The lifecycle webhooks, handled whenever they arrive. *)

Deliver(o) == \E w \in sent :
    /\ Begin(o, w.topic, w.scope)
    /\ sent' = sent \ {w}

\* appUninstalled and shopRedact delete the sessions first, then mark or erase the row.
Forget(o) ==
    /\ op[o].at = "forget"
    /\ stored' = NoSession
    /\ Go(o, "mark", NoSession)
    /\ Quiet

Mark(o) ==
    /\ op[o].at = "mark"
    /\ row' = CASE row = "none" -> row
                [] op[o].job = "redact" -> "none"
                [] OTHER -> "uninstalled"
    /\ Go(o, "done", NoSession)
    /\ UNCHANGED <<grant, stored, sent, plain, ticked, turns>>

\* appScopesUpdate stores the session it loaded, with the new scopes, over a token
\* that may have been renewed meanwhile.
Rescope(o) ==
    /\ op[o].at = "rescope"
    /\ stored' = [op[o].held EXCEPT !.scope = op[o].arg]
    /\ plain' = (plain /\ stored.token = op[o].held.token)
    /\ Go(o, "done", NoSession)
    /\ UNCHANGED <<grant, row, sent, ticked, turns>>

-----------------------------------------------------------------------------
(* Shopify, the merchant and time. *)

Send(topic, scope) == sent' = sent \cup {[topic |-> topic, scope |-> scope]}

Uninstall ==
    /\ Turn /\ grant.installed
    /\ grant' = [grant EXCEPT !.installed = FALSE, !.age = "none"]
    /\ stored' = Killed(stored)
    /\ op' = [o \in Ops |-> [op[o] EXCEPT !.held = Killed(@)]]
    /\ Send("uninstalled", "full")
    /\ UNCHANGED <<row, plain, ticked>>

\* 48 hours later: nothing that ran at the time still does.
SendRedact ==
    /\ Turn /\ ~grant.installed
    /\ sent = {} /\ \A o \in Ops : op[o].job = "none"
    /\ row = "uninstalled"
    /\ Send("redact", "full")
    /\ UNCHANGED <<grant, stored, row, op, plain, ticked>>

Install ==
    /\ Turn /\ ~grant.installed
    /\ grant' = [grant EXCEPT !.installed = TRUE]
    /\ plain' = FALSE
    /\ UNCHANGED <<stored, row, op, sent, ticked>>

\* The merchant grants the scopes a release added, or takes one back.
ChangeScopes ==
    /\ Turn /\ grant.installed
    /\ \E s \in Scopes \ {grant.scope} : grant' = [grant EXCEPT !.scope = s] /\ Send("scopes", s)
    /\ UNCHANGED <<stored, row, op, plain, ticked>>

\* A token nears its end, and reaches it. A refresh token that was spent answers for
\* an hour; an operation takes minutes, sees at most one of the two, and none of the
\* end of a token issued since it began.
Older(s) ==
    LET a == [s EXCEPT !.age = CASE @ = "fresh" -> "near" [] @ = "near" -> "expired" [] OTHER -> @]
    IN IF s = NoSession THEN s
       ELSE IF s.token = "previous" /\ grant.age = "fresh" THEN [a EXCEPT !.token = "dead"] ELSE a
Tick ==
    /\ Turn /\ grant.age \in {"fresh", "near"}
    /\ ~ticked \/ ~Running
    /\ ticked' = Running
    /\ grant' = [grant EXCEPT !.age = IF @ = "fresh" THEN "near" ELSE "expired"]
    /\ stored' = Older(stored)
    /\ op' = [o \in Ops |-> [op[o] EXCEPT !.held = Older(@)]]
    /\ UNCHANGED <<row, sent, plain>>

-----------------------------------------------------------------------------
\* A shop that is being installed, or one that was under a build that asked for
\* permanent tokens.
AccessInit ==
    /\ \/ /\ plain = TRUE /\ stored = NoSession /\ row = "none"
          /\ grant = [installed |-> TRUE, scope |-> "full", age |-> "none"]
       \/ /\ plain = FALSE /\ row = "active"
          /\ stored = [token |-> "newest", scope |-> "full", age |-> "permanent"]
          /\ grant = [installed |-> TRUE, scope |-> "full", age |-> "permanent"]
    /\ op = [o \in Ops |-> Idle0]
    /\ sent = {} /\ ticked = FALSE /\ turns = 0

Loads(o) == ensureUsableToken(o) \/ Reread(o) \/ Keep(o)
Opens(o) == KeepNew(o) \/ ensureProvisioned(o) \/ createWithDefaults(o) \/ Revive(o)
Saves(o) == refreshRejectedSession(o) \/ deleteShopSessions(o)
Handles(o) == Forget(o) \/ Mark(o) \/ Rescope(o)
Fails(o) == RenewFails(o) \/ ExchangeFails(o) \/ CallFails(o) \/ forceRefreshFails(o)
Answers(o) == Renew(o) \/ Exchange(o) \/ CallAnswers(o) \/ CallRetried(o) \/ CallRefused(o)
              \/ forceRefresh(o)
Works(o) == Loads(o) \/ Opens(o) \/ Saves(o) \/ Handles(o) \/ Answers(o) \/ Fails(o)

AccessNext ==
    \/ \E o \in Ops : OpenApp(o) \/ StartJob(o) \/ Deliver(o) \/ Works(o)
    \/ Uninstall \/ SendRedact \/ Install \/ ChangeScopes \/ Tick

\* The merchant comes back to the app, and what an operation does goes on.
Opening == \E o \in Ops : OpenApp(o)
Working == \E o \in Ops : Works(o)
AccessFairness == SF_avars(Opening) /\ WF_avars(Working)
AccessSpec == AccessInit /\ [][AccessNext]_avars /\ AccessFairness

-----------------------------------------------------------------------------
(* Properties. *)

Exchanging == \E o \in Ops : op[o].at = "keepNew"

\* A shop whose token has only ever been refreshed keeps a stored session, whatever
\* the processes renew at once: the session is deleted for a refused token only
\* (adminGraphql), and re-reading before a refresh, and Shopify answering a spent
\* refresh token again, keep every refresh from being refused. A call whose earlier
\* attempts were throttled or failed, and whose last is its first refusal, has none
\* left to refresh with and purges the session all the same: it ends "plain".
KeepsGrant ==
    plain /\ grant.installed /\ grant.age # "none" /\ ~Exchanging => HasToken(stored)

\* Whatever was lost or overwritten while operations ran side by side, once they no
\* longer do a merchant who keeps opening the app has a shop row and the newest
\* token, with the scopes granted (resolveSession, the purge in adminGraphql).
Alone == \A o, p \in Ops : o # p => "none" \in {op[o].job, op[p].job}
SignedIn ==
    grant.installed => /\ row = "active"
                       /\ grant.scope = "full" => stored.token = "newest" /\ stored.scope = "full"
AccessSettles == <>[]Alone => []<>SignedIn
=============================================================================
