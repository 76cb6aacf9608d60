---------------------------- MODULE TenantProofs ----------------------------
(***************************************************************************)
(* A shop keeps its grant, its storefront is served what was saved, and    *)
(* its forms stay usable, for any number of operations, requests and tabs: *)
(* the three invariants the "shop" run checks with two of each.            *)
(*                                                                         *)
(* Each part has its inductive invariant, and a step of one part leaves    *)
(* the others' variables alone.                                            *)
(***************************************************************************)
EXTENDS ShopTenant, FiniteSetTheorems, TLAPS

-----------------------------------------------------------------------------
(* The offline token                                                        *)

Copies == Sessions \cup {NoSession}
OpRecord == [job : Jobs \cup {"none"}, at : Steps \cup {"done"}, process : Processes,
             held : Copies, arg : Scopes, attempt : 1..DEFAULT_MAX_ATTEMPTS, retried : BOOLEAN]

\* A copy Shopify still takes is of a grant that has a token.
CopyOK(s, g) == s \in Copies /\ (s.token \in {"newest", "previous"} => g.age # "none")
OpOK(q, g) == q \in OpRecord /\ CopyOK(q.held, g) /\ (q.at = "rescope" => HasToken(q.held))
OpsOK(ops, g) == ops \in [Ops -> OpRecord] /\ \A p \in Ops : OpOK(ops[p], g)

AccessTypes ==
    /\ grant \in [installed : BOOLEAN, scope : Scopes, age : Ages \cup {"none"}]
    /\ CopyOK(stored, grant) /\ OpsOK(op, grant)
    /\ row \in {"none", "active", "uninstalled"}
    /\ sent \subseteq [topic : {"scopes", "uninstalled", "redact"}, scope : Scopes]
    /\ plain \in BOOLEAN /\ ticked \in BOOLEAN
    /\ turns \in 0..MaxTurns

Keeping == {"keep", "keepRetry"}
Holding == Keeping \cup {"joined", "reload", "renew", "keepNew", "provision", "create", "revive",
                         "call", "refresh", "rescope"}

\* While the token has only been refreshed, a copy is the newest and as old as it, or
\* the one before, and then the newest was issued since the oldest operation began.
CopyIsGood(s, g, k) ==
    s # NoSession =>
        /\ g.age # "none" /\ s.age # "permanent"
        /\ \/ s.token = "newest" /\ s.age = g.age
           \/ s.token = "previous" /\ g.age = "fresh" /\ k
NewlyIssued(s, k) == s.token = "newest" /\ s.age = "fresh" /\ k

\* No operation is about to delete the session; one that has a token to keep holds the
\* newest, and one that is about to spend a token holds none that is still fresh.
OpIsGood(q, g, k) ==
    /\ CopyIsGood(q.held, g, k)
    /\ q.job = "none" => q = Idle0
    /\ q.job \notin {"uninstalled", "redact"} /\ q.at \notin {"purge", "forget", "mark"}
    /\ q.at \in Holding => HasToken(q.held)
    /\ q.at \in Keeping \cup {"keepNew"} => NewlyIssued(q.held, k)
    /\ q.at \in {"renew", "refresh"} => q.held.token # "newest" \/ q.held.age # "fresh"
    /\ q.retried => q.at = "call" /\ NewlyIssued(q.held, k)

GrantIsKept ==
    /\ grant.age # "permanent"
    /\ \A w \in sent : w.topic = "scopes"
    /\ CopyIsGood(stored, grant, ticked)
    /\ \A o \in Ops : OpIsGood(op[o], grant, ticked)
    /\ stored.token = "previous" => \E o \in Ops : op[o].at \in Keeping
    /\ grant.age # "none" /\ ~Exchanging => HasToken(stored)

AccessInv == AccessTypes /\ (plain /\ grant.installed => GrantIsKept)

LEMMA CopyShapes ==
    /\ NoSession \in Copies /\ NoSession \notin Sessions /\ NoSession.token = "none"
    /\ Outdated(NoSession) = NoSession /\ Killed(NoSession) = NoSession /\ Older(NoSession) = NoSession
    /\ \A s \in Sessions :
          /\ s # NoSession /\ s.token # "none"
          /\ Outdated(s) \in Sessions /\ Killed(s) \in Sessions /\ Older(s) \in Sessions
          /\ Outdated(s).token \in {"newest", "previous"} => s.token = "newest"
          /\ Killed(s).token = "dead"
          /\ Older(s).token \in {"newest", "previous"} => s.token = Older(s).token
          /\ \A term \in Ages : Newest(s, term) \in Sessions /\ Newest(s, term).token = "newest"
                               /\ Newest(s, term).age = term
<1>1. NoSession \in Copies /\ NoSession.token = "none"
  BY DEF Copies, NoSession
<1>2. ASSUME NEW s \in Sessions
      PROVE  /\ s \in [token : {"newest", "previous", "dead"}, scope : Scopes, age : Ages]
             /\ s.token \in {"newest", "previous", "dead"} /\ s # NoSession
  BY <1>1 DEF Sessions
<1>3. /\ Outdated(NoSession) = NoSession /\ Killed(NoSession) = NoSession
      /\ Older(NoSession) = NoSession
  BY <1>1 DEF Outdated, Killed, HasToken, Older
<1>4. ASSUME NEW s \in Sessions
      PROVE  /\ Outdated(s) \in Sessions
             /\ Outdated(s).token \in {"newest", "previous"} => s.token = "newest"
  BY <1>2 DEF Outdated, Sessions, isPermanent
<1>5. ASSUME NEW s \in Sessions
      PROVE  Killed(s) \in Sessions /\ Killed(s).token = "dead"
  BY <1>2 DEF Killed, Sessions, HasToken
<1>6. ASSUME NEW s \in Sessions
      PROVE  /\ Older(s) \in Sessions
             /\ Older(s).token \in {"newest", "previous"} => s.token = Older(s).token
  <2> DEFINE term == CASE s.age = "fresh" -> "near" [] s.age = "near" -> "expired" [] OTHER -> s.age
             a == [s EXCEPT !.age = term]
  <2>1. term \in Ages
    BY <1>2 DEF Ages
  <2>2. a \in Sessions /\ a.token = s.token
    BY <1>2, <2>1 DEF Sessions
  <2>3. [a EXCEPT !.token = "dead"] \in Sessions /\ [a EXCEPT !.token = "dead"].token = "dead"
    BY <2>2 DEF Sessions
  <2>4. Older(s) = a \/ Older(s) = [a EXCEPT !.token = "dead"]
    BY <1>2 DEF Older
  <2> QED
    BY <2>2, <2>3, <2>4
<1>7. ASSUME NEW s \in Sessions, NEW term \in Ages
      PROVE  /\ Newest(s, term) \in Sessions /\ Newest(s, term).token = "newest"
             /\ Newest(s, term).age = term
  BY <1>2 DEF Newest, Sessions
<1> QED
  BY <1>1, <1>2, <1>3, <1>4, <1>5, <1>6, <1>7

LEMMA IdleIsOK == \A g : Idle0 \in OpRecord /\ OpOK(Idle0, g)
  BY CopyShapes DEF Idle0, OpRecord, OpOK, CopyOK, Copies, Processes, Scopes, DEFAULT_MAX_ATTEMPTS

LEMMA GoesIsOK ==
    ASSUME NEW g, NEW o \in Ops, op[o] \in OpRecord, NEW at \in Steps \cup {"done"}, NEW s,
           CopyOK(s, g), at = "rescope" => HasToken(s)
    PROVE  OpOK(Goes(o, at, s), g)
<1>1. CASE at = "done"
  BY <1>1, IdleIsOK DEF Goes
<1>2. CASE at # "done"
  <2>1. Goes(o, at, s) \in OpRecord /\ Goes(o, at, s).held = s /\ Goes(o, at, s).at = at
    BY <1>2 DEF Goes, OpRecord, CopyOK
  <2> QED
    BY <2>1 DEF OpOK
<1> QED
  BY <1>1, <1>2

LEMMA AfterIsOK ==
    ASSUME NEW o \in Ops, NEW s
    PROVE  /\ After(o, s) \in Steps \cup {"done"}
           /\ After(o, s) \in {"provision", "exchange", "call", "rescope", "done"}
           /\ After(o, s) \in {"provision", "call", "rescope"} => HasToken(s)
           /\ HasToken(s) => After(o, s) # "done"
    BY DEF After, Steps

LEMMA ResumedIsOK ==
    ASSUME NEW g, NEW ops, OpsOK(ops, g), op \in [Ops -> OpRecord], NEW o \in Ops, NEW s, CopyOK(s, g)
    PROVE  OpsOK(Resumed(ops, o, s), g)
<1>1. ASSUME NEW p \in Ops PROVE OpOK(Goes(p, After(p, s), s), g)
  BY AfterIsOK, GoesIsOK
<1>2. \A p \in Ops : OpOK(Resumed(ops, o, s)[p], g)
  BY <1>1 DEF Resumed, OpsOK
<1> QED
  BY <1>2 DEF OpsOK, OpOK, Resumed

LEMMA GoIsOK ==
    ASSUME NEW g, NEW ops, OpsOK(ops, g), NEW o \in Ops, NEW new, OpOK(new, g)
    PROVE  OpsOK([ops EXCEPT ![o] = new], g)
    BY DEF OpsOK, OpOK

\* A call that is tried again, or that asks for a refresh first.
Retried(q, at) == [q EXCEPT !.at = at, !.attempt = @ + 1]

LEMMA RetriedIsOK ==
    ASSUME NEW q, NEW g, OpOK(q, g), q.attempt < DEFAULT_MAX_ATTEMPTS, NEW at \in Steps, at # "rescope"
    PROVE  /\ OpOK(Retried(q, at), g) /\ Retried(q, at).at = at
           /\ Retried(q, at).held = q.held /\ Retried(q, at).job = q.job
           /\ Retried(q, at).retried = q.retried
<1>1. /\ q \in OpRecord /\ CopyOK(q.held, g) /\ q.attempt \in 1..3 /\ q.attempt < 3
  BY DEF OpOK, OpRecord, DEFAULT_MAX_ATTEMPTS
<1>2. /\ Retried(q, at).at = at /\ Retried(q, at).held = q.held /\ Retried(q, at).job = q.job
      /\ Retried(q, at).retried = q.retried
  BY <1>1 DEF Retried, OpRecord
<1>3. q.attempt + 1 \in 1..DEFAULT_MAX_ATTEMPTS
  BY <1>1 DEF DEFAULT_MAX_ATTEMPTS
<1>4. Retried(q, at) \in OpRecord
  BY <1>1, <1>3 DEF Retried, OpRecord
<1> QED
  BY <1>1, <1>2, <1>4 DEF OpOK

\* What the others hold is outdated, killed or aged.
LEMMA HeldMoves ==
    ASSUME NEW q \in OpRecord, NEW g, NEW s, CopyOK(s, g), HasToken(q.held) => HasToken(s),
           q.at = "rescope" => HasToken(q.held)
    PROVE  OpOK([q EXCEPT !.held = s], g)
    BY DEF OpOK, OpRecord, CopyOK

LEMMA CopiesMove ==
    ASSUME NEW s, NEW g, CopyOK(s, g)
    PROVE  /\ CopyOK(Outdated(s), g)
           /\ \A h : CopyOK(Killed(s), h)
           /\ CopyOK(Older(s), g)
           /\ HasToken(s) => HasToken(Outdated(s)) /\ HasToken(Killed(s)) /\ HasToken(Older(s))
    BY CopyShapes DEF CopyOK, Copies, HasToken

LEMMA OutdateIsOK ==
    ASSUME AccessTypes
    PROVE  OpsOK(Outdate, Issued) /\ Issued.age = "fresh"
           /\ Issued \in [installed : BOOLEAN, scope : Scopes, age : Ages \cup {"none"}]
           /\ \A s : CopyOK(s, grant) => CopyOK(s, Issued) /\ CopyOK(Outdated(s), Issued)
<1>1. /\ Issued \in [installed : BOOLEAN, scope : Scopes, age : Ages \cup {"none"}]
      /\ Issued.age = "fresh"
  BY DEF AccessTypes, Issued, Ages
<1>2. \A s : CopyOK(s, grant) => CopyOK(s, Issued) /\ CopyOK(Outdated(s), Issued)
  BY <1>1, CopyShapes DEF CopyOK, Copies
<1>3. ASSUME NEW p \in Ops PROVE OpOK(Outdate[p], Issued)
  <2>1. OpOK(op[p], grant)
    BY DEF AccessTypes, OpsOK
  <2>2. op[p] \in OpRecord /\ CopyOK(op[p].held, grant) /\ CopyOK(Outdated(op[p].held), Issued)
        /\ (op[p].at = "rescope" => HasToken(op[p].held))
    BY <1>2, <2>1 DEF OpOK
  <2>3. OpOK([op[p] EXCEPT !.held = Outdated(op[p].held)], Issued)
    BY <2>2, CopiesMove, HeldMoves
  <2> QED
    BY <2>3 DEF Outdate
<1>4. OpsOK(Outdate, Issued)
  BY <1>3 DEF OpsOK, OpOK, Outdate
<1> QED
  BY <1>1, <1>2, <1>4

\* The parts of the types that few steps change.
RestIsOK ==
    /\ grant' \in [installed : BOOLEAN, scope : Scopes, age : Ages \cup {"none"}]
    /\ row' \in {"none", "active", "uninstalled"}
    /\ sent' \subseteq [topic : {"scopes", "uninstalled", "redact"}, scope : Scopes]
    /\ plain' \in BOOLEAN /\ ticked' \in BOOLEAN
    /\ turns' \in 0..MaxTurns

LEMMA TurnIsOK == AccessTypes /\ Turn => turns' \in 0..MaxTurns
  BY AccessAssumption DEF AccessTypes, Turn

LEMMA SpendKeepsTypes ==
    ASSUME AccessTypes, NEW o \in Ops, NEW bought \in Keeping, NEW Refused, OpsOK(Refused, grant),
           Spend(o, bought, Refused)
    PROVE  AccessTypes'
<1> DEFINE s == op[o].held
<1>1. CopyOK(s, grant) /\ op[o] \in OpRecord /\ OpsOK(op, grant) /\ CopyOK(stored, grant)
  BY DEF AccessTypes, OpsOK, OpOK
<1>2. bought \in Steps \cup {"done"} /\ bought # "rescope"
  BY DEF Keeping, Steps
<1>3. CASE Rotates(s)
  <2>1. /\ grant' = Issued /\ stored' = Outdated(stored)
        /\ op' = [Outdate EXCEPT ![o] = Goes(o, bought, Newest(s, "fresh"))]
        /\ ticked' = TRUE /\ UNCHANGED <<row, sent, plain, turns>>
    BY <1>3 DEF Spend, Rotates, Repeats
  <2>2. s \in Sessions
    BY <1>1, <1>3, CopyShapes DEF CopyOK, Copies, Rotates
  <2>3. CopyOK(Newest(s, "fresh"), Issued)
    BY <2>2, CopyShapes, OutdateIsOK DEF CopyOK, Copies, Ages
  <2>4. OpOK(Goes(o, bought, Newest(s, "fresh")), Issued)
    BY <1>1, <1>2, <2>3, GoesIsOK
  <2>5. OpsOK(op', grant')
    BY <2>1, <2>4, OutdateIsOK, GoIsOK
  <2>6. CopyOK(stored', grant')
    BY <1>1, <2>1, OutdateIsOK
  <2> QED
    BY <2>1, <2>5, <2>6, OutdateIsOK DEF AccessTypes
<1>4. CASE Repeats(s) /\ ~Rotates(s)
  <2>1. op' = [op EXCEPT ![o] = Goes(o, bought, Newest(s, grant.age))] /\ UNCHANGED stored /\ Quiet
    BY <1>4 DEF Spend, Rotates, Repeats, Go
  <2>2. s \in Sessions /\ grant.age \in Ages /\ grant.age # "none"
    BY <1>1, <1>4, CopyShapes DEF CopyOK, Copies, Repeats, AccessTypes
  <2>3. CopyOK(Newest(s, grant.age), grant)
    BY <2>2, CopyShapes DEF CopyOK, Copies
  <2>4. OpOK(Goes(o, bought, Newest(s, grant.age)), grant)
    BY <1>1, <1>2, <2>3, GoesIsOK
  <2>5. OpsOK(op', grant)
    BY <1>1, <2>1, <2>4, GoIsOK
  <2> QED
    BY <2>1, <2>5 DEF AccessTypes, Quiet
<1>5. CASE op' = Refused /\ UNCHANGED stored /\ Quiet
  BY <1>5 DEF AccessTypes, Quiet
<1> QED
  BY <1>3, <1>4, <1>5 DEF Spend

LEMMA LostKeepsTypes ==
    ASSUME AccessTypes, NEW o \in Ops, NEW unasked, OpsOK(unasked, grant),
           NEW unanswered, OpsOK(unanswered, Issued), SpendLost(o, unasked, unanswered)
    PROVE  AccessTypes'
<1>1. /\ plain' = FALSE /\ UNCHANGED <<row, sent>> /\ turns' \in 0..MaxTurns
      /\ CopyOK(stored, grant)
  BY TurnIsOK DEF SpendLost, AccessTypes
<1>2. CASE op' = unasked /\ UNCHANGED <<grant, stored, ticked>>
  BY <1>1, <1>2 DEF AccessTypes
<1>3. CASE grant' = Issued /\ ticked' = TRUE /\ stored' = Outdated(stored) /\ op' = unanswered
  <2>1. CopyOK(stored', grant')
    BY <1>1, <1>3, OutdateIsOK
  <2> QED
    BY <1>1, <1>3, <2>1, OutdateIsOK DEF AccessTypes
<1> QED
  BY <1>2, <1>3 DEF SpendLost

\* An operation goes on to another step with a copy, and what is stored is a copy.
LEMMA GoKeepsTypes ==
    ASSUME AccessTypes, NEW o \in Ops, NEW at \in Steps \cup {"done"}, NEW s, CopyOK(s, grant),
           at = "rescope" => HasToken(s), Go(o, at, s), CopyOK(stored', grant),
           RestIsOK, UNCHANGED grant
    PROVE  AccessTypes'
<1>1. OpOK(Goes(o, at, s), grant) /\ OpsOK(op, grant)
  BY GoesIsOK DEF AccessTypes, OpsOK
<1>2. OpsOK(op', grant)
  BY <1>1, GoIsOK DEF Go
<1> QED
  BY <1>2 DEF AccessTypes, RestIsOK

LEMMA RestStays ==
    ASSUME AccessTypes
    PROVE  /\ Quiet => RestIsOK /\ UNCHANGED grant
           /\ Failed => RestIsOK /\ UNCHANGED <<grant, stored>>
           /\ row' \in {"none", "active", "uninstalled"} /\ UNCHANGED <<grant, sent, plain, ticked, turns>>
                => RestIsOK /\ UNCHANGED grant
    BY TurnIsOK DEF AccessTypes, Quiet, Failed, RestIsOK

LEMMA HeldIsOK ==
    ASSUME AccessTypes, NEW o \in Ops
    PROVE  /\ op[o] \in OpRecord /\ CopyOK(op[o].held, grant) /\ CopyOK(stored, grant)
           /\ OpsOK(op, grant) /\ CopyOK(NoSession, grant)
           /\ op[o].at = "rescope" => HasToken(op[o].held)
    BY CopyShapes DEF AccessTypes, OpsOK, OpOK, CopyOK

LEMMA LoadsKeepTypes ==
    ASSUME AccessTypes, NEW o \in Ops, Loads(o)
    PROVE  AccessTypes'
<1>1. CASE ensureUsableToken(o)
  <2>1. PICK at \in Steps \cup {"done"} : Go(o, at, stored) /\ (at = "rescope" => HasToken(stored))
    BY <1>1, AfterIsOK DEF ensureUsableToken, Steps
  <2> QED
    BY <1>1, <2>1, HeldIsOK, RestStays, GoKeepsTypes DEF ensureUsableToken
<1>2. CASE Reread(o)
  <2> DEFINE current == IF HasToken(stored) THEN stored ELSE op[o].held
  <2>1. CopyOK(current, grant) /\ UNCHANGED stored /\ Quiet
    BY <1>2, HeldIsOK DEF Reread
  <2>2. Loaded(o, current) \/ Go(o, "renew", current)
    BY <1>2 DEF Reread
  <2> HIDE DEF current
  <2>3. CASE Loaded(o, current)
    <3>1. OpsOK(op', grant)
      BY <2>1, <2>3, HeldIsOK, ResumedIsOK DEF Loaded, OpsOK
    <3> QED
      BY <2>1, <3>1 DEF AccessTypes, Quiet
  <2>4. CASE Go(o, "renew", current)
    BY <2>1, <2>4, HeldIsOK, RestStays, GoKeepsTypes DEF Steps
  <2> QED
    BY <2>2, <2>3, <2>4
<1>3. CASE Keep(o)
  <2>1. OpsOK(op', grant)
    BY <1>3, HeldIsOK, ResumedIsOK DEF Keep, Loaded, OpsOK
  <2> QED
    BY <1>3, <2>1, HeldIsOK DEF Keep, AccessTypes, Quiet
<1> QED
  BY <1>1, <1>2, <1>3 DEF Loads

LEMMA OpensKeepTypes ==
    ASSUME AccessTypes, NEW o \in Ops, Opens(o)
    PROVE  AccessTypes'
<1>1. PICK at \in Steps \cup {"done"}, s \in {op[o].held, NoSession} : Go(o, at, s) /\ at # "rescope"
  BY DEF Opens, KeepNew, ensureProvisioned, createWithDefaults, Revive, Admitted, Steps
<1>2. stored' \in {stored, op[o].held} /\ UNCHANGED grant /\ RestIsOK
  BY RestStays DEF Opens, KeepNew, ensureProvisioned, createWithDefaults, Revive, AccessTypes
<1> QED
  BY <1>1, <1>2, HeldIsOK, GoKeepsTypes

LEMMA SavesKeepTypes ==
    ASSUME AccessTypes, NEW o \in Ops, Saves(o)
    PROVE  AccessTypes'
<1>1. CASE refreshRejectedSession(o)
  <2> DEFINE new == [op[o] EXCEPT !.at = "call", !.retried = TRUE]
  <2>1. OpOK(new, grant)
    BY HeldIsOK DEF OpOK, OpRecord, Steps
  <2>2. op' = [op EXCEPT ![o] = new]
    BY <1>1, HeldIsOK DEF refreshRejectedSession, OpsOK
  <2> HIDE DEF new
  <2>3. OpsOK(op', grant)
    BY <2>1, <2>2, HeldIsOK, GoIsOK
  <2> QED
    BY <1>1, <2>3, HeldIsOK DEF refreshRejectedSession, AccessTypes, Quiet
<1>2. CASE deleteShopSessions(o)
  BY <1>2, HeldIsOK, RestStays, GoKeepsTypes DEF deleteShopSessions
<1> QED
  BY <1>1, <1>2 DEF Saves

LEMMA HandlesKeepTypes ==
    ASSUME AccessTypes, NEW o \in Ops, Handles(o)
    PROVE  AccessTypes'
<1>1. CASE Forget(o)
  BY <1>1, HeldIsOK, RestStays, GoKeepsTypes DEF Forget, Steps
<1>2. CASE Mark(o)
  <2>1. row' \in {"none", "active", "uninstalled"} /\ UNCHANGED <<grant, stored, sent, plain, ticked, turns>>
    BY <1>2 DEF Mark, AccessTypes
  <2> QED
    BY <1>2, <2>1, HeldIsOK, RestStays, GoKeepsTypes DEF Mark
<1>3. CASE Rescope(o)
  <2>1. op[o].held \in Sessions /\ op[o].arg \in Scopes
    BY <1>3, HeldIsOK DEF Rescope, CopyOK, Copies, HasToken, OpRecord
  <2>2. CopyOK([op[o].held EXCEPT !.scope = op[o].arg], grant)
    BY <2>1, HeldIsOK DEF CopyOK, Copies, Sessions
  <2>3. RestIsOK /\ UNCHANGED grant
    BY <1>3 DEF Rescope, RestIsOK, AccessTypes
  <2> QED
    BY <1>3, <2>2, <2>3, HeldIsOK, GoKeepsTypes DEF Rescope
<1> QED
  BY <1>1, <1>2, <1>3 DEF Handles

LEMMA AnswersKeepTypes ==
    ASSUME AccessTypes, NEW o \in Ops, Answers(o)
    PROVE  AccessTypes'
<1>1. CASE Renew(o)
  <2>1. OpsOK(Resumed(op, o, op[o].held), grant)
    BY HeldIsOK, ResumedIsOK DEF OpsOK
  <2> QED
    BY <1>1, <2>1, SpendKeepsTypes DEF Renew, Keeping
<1>2. CASE Exchange(o)
  <2> DEFINE new == [token |-> "newest", scope |-> grant.scope, age |-> "fresh"]
  <2>1. /\ grant' = Issued /\ stored' = Killed(stored) /\ UNCHANGED <<row, sent, turns>>
        /\ plain' \in BOOLEAN /\ ticked' = TRUE
        /\ op' = [p \in Ops |-> IF p = o THEN Goes(o, "keepNew", new)
                                ELSE [op[p] EXCEPT !.held = Killed(op[p].held)]]
    BY <1>2 DEF Exchange, AccessTypes
  <2>2. CopyOK(new, Issued)
    BY OutdateIsOK DEF CopyOK, Copies, Sessions, AccessTypes, Ages
  <2> HIDE DEF new
  <2>3. OpOK(Goes(o, "keepNew", new), Issued)
    BY <2>2, HeldIsOK, GoesIsOK DEF Steps
  <2>4. ASSUME NEW p \in Ops PROVE OpOK([op[p] EXCEPT !.held = Killed(op[p].held)], Issued)
    BY HeldIsOK, CopiesMove, HeldMoves
  <2>5. OpsOK(op', Issued)
    BY <2>1, <2>3, <2>4 DEF OpsOK, OpOK
  <2>6. CopyOK(stored', Issued)
    BY <2>1, HeldIsOK, CopiesMove
  <2> QED
    BY <2>1, <2>5, <2>6, OutdateIsOK DEF AccessTypes
<1>3. CASE CallAnswers(o)
  BY <1>3, HeldIsOK, RestStays, GoKeepsTypes DEF CallAnswers
<1>4. CASE CallRefused(o)
  <2>1. UNCHANGED <<grant, stored, row, sent, ticked, turns>> /\ plain' \in BOOLEAN
    BY <1>4 DEF CallRefused, AccessTypes, OpRecord
  <2>2. CASE Go(o, "purge", op[o].held)
    <3>1. RestIsOK
      BY <2>1 DEF AccessTypes, RestIsOK
    <3> QED
      BY <2>1, <2>2, <3>1, HeldIsOK, GoKeepsTypes DEF Steps
  <2>3. CASE /\ op' = [op EXCEPT ![o] = Retried(op[o], "refresh")]
             /\ op[o].attempt < DEFAULT_MAX_ATTEMPTS
    <3>1. OpOK(op[o], grant) /\ OpsOK(op, grant)
      BY DEF AccessTypes, OpsOK
    <3>2. OpOK(Retried(op[o], "refresh"), grant)
      BY <2>3, <3>1, RetriedIsOK DEF Steps
    <3>3. OpsOK(op', grant)
      BY <2>3, <3>1, <3>2, GoIsOK
    <3> QED
      BY <2>1, <3>3 DEF AccessTypes
  <2> QED
    BY <1>4, <2>2, <2>3, HeldIsOK DEF CallRefused, Retried, OpsOK
<1>5. CASE forceRefresh(o)
  <2> DEFINE new == [op[o] EXCEPT !.at = "purge"]
  <2>1. OpOK(new, grant)
    BY HeldIsOK DEF OpOK, OpRecord, Steps
  <2>2. [op EXCEPT ![o].at = "purge"] = [op EXCEPT ![o] = new]
    OBVIOUS
  <2> HIDE DEF new
  <2>3. OpsOK([op EXCEPT ![o].at = "purge"], grant)
    BY <2>1, <2>2, HeldIsOK, GoIsOK
  <2> QED
    BY <1>5, <2>3, SpendKeepsTypes DEF forceRefresh, Keeping
<1>6. CASE CallRetried(o)
  <2>1. /\ op' = [op EXCEPT ![o] = Retried(op[o], "call")] /\ op[o].attempt < DEFAULT_MAX_ATTEMPTS
        /\ UNCHANGED stored /\ Quiet
    BY <1>6, HeldIsOK DEF CallRetried, Retried, OpsOK, OpRecord
  <2>2. OpOK(op[o], grant) /\ OpsOK(op, grant)
    BY DEF AccessTypes, OpsOK
  <2>3. OpOK(Retried(op[o], "call"), grant)
    BY <2>1, <2>2, RetriedIsOK DEF Steps
  <2>4. OpsOK(op', grant)
    BY <2>1, <2>2, <2>3, GoIsOK
  <2> QED
    BY <2>1, <2>4 DEF AccessTypes, Quiet
<1> QED
  BY <1>1, <1>2, <1>3, <1>4, <1>5, <1>6 DEF Answers

LEMMA FailsKeepTypes ==
    ASSUME AccessTypes, NEW o \in Ops, Fails(o)
    PROVE  AccessTypes'
<1> DEFINE s == op[o].held
<1>1. CopyOK(s, grant) /\ CopyOK(Outdated(s), Issued) /\ OpsOK(Outdate, Issued)
  BY HeldIsOK, OutdateIsOK
<1>2. CASE RenewFails(o)
  <2>1. /\ OpsOK(Resumed(op, o, s), grant)
        /\ OpsOK(Resumed(Outdate, o, Outdated(s)), Issued)
    BY <1>1, HeldIsOK, ResumedIsOK DEF OpsOK
  <2> QED
    BY <1>2, <2>1, LostKeepsTypes DEF RenewFails
<1>3. CASE ExchangeFails(o)
  BY <1>3, HeldIsOK, RestStays, GoKeepsTypes DEF ExchangeFails, Failed
<1>4. CASE CallFails(o)
  BY <1>4, HeldIsOK, RestStays, GoKeepsTypes DEF CallFails, Failed
<1>5. CASE forceRefreshFails(o)
  <2>1. SpendLost(o, [op EXCEPT ![o] = Goes(o, "purge", s)],
                     [Outdate EXCEPT ![o] = Goes(o, "purge", Outdated(s))])
    BY <1>5 DEF forceRefreshFails
  <2>2. OpOK(Goes(o, "purge", s), grant) /\ OpOK(Goes(o, "purge", Outdated(s)), Issued)
    BY <1>1, HeldIsOK, GoesIsOK DEF Steps
  <2>3. /\ OpsOK([op EXCEPT ![o] = Goes(o, "purge", s)], grant)
        /\ OpsOK([Outdate EXCEPT ![o] = Goes(o, "purge", Outdated(s))], Issued)
    BY <1>1, <2>2, HeldIsOK, GoIsOK
  <2> QED
    BY <2>1, <2>3, LostKeepsTypes
<1> QED
  BY <1>2, <1>3, <1>4, <1>5 DEF Fails

\* What an operation begins with.
LEMMA BeginIs ==
    ASSUME NEW o \in Ops, NEW job \in Jobs, NEW scope \in Scopes, Begin(o, job, scope)
    PROVE  \E new \in OpRecord :
              /\ op' = [op EXCEPT ![o] = new]
              /\ new.job = job /\ new.held = NoSession /\ ~new.retried
              /\ new.at = IF job \in {"uninstalled", "redact"} THEN "forget" ELSE "load"
<1>1. PICK p \in Processes :
        op' = [op EXCEPT ![o] = [Idle0 EXCEPT !.job = job, !.process = p, !.arg = scope,
                 !.at = IF job \in {"uninstalled", "redact"} THEN "forget" ELSE "load"]]
  BY DEF Begin
<1> DEFINE at == IF job \in {"uninstalled", "redact"} THEN "forget" ELSE "load"
           new == [Idle0 EXCEPT !.job = job, !.process = p, !.arg = scope, !.at = at]
<1>2. at \in Steps
  BY DEF Steps
<1>3. Idle0 \in OpRecord /\ Idle0.held = NoSession /\ ~Idle0.retried
  BY IdleIsOK DEF Idle0
<1> HIDE DEF at
<1>4. new \in OpRecord /\ new.job = job /\ new.held = NoSession /\ ~new.retried /\ new.at = at
  BY <1>2, <1>3 DEF OpRecord
<1>5. op' = [op EXCEPT ![o] = new]
  BY <1>1 DEF at
<1> HIDE DEF new
<1> QED
  BY <1>4, <1>5 DEF at

LEMMA BeginKeepsTypes ==
    ASSUME AccessTypes, NEW o \in Ops, NEW job \in Jobs, NEW scope \in Scopes, Begin(o, job, scope),
           sent' \subseteq sent
    PROVE  AccessTypes'
<1>1. PICK new \in OpRecord :
        /\ op' = [op EXCEPT ![o] = new]
        /\ new.held = NoSession
        /\ new.at = IF job \in {"uninstalled", "redact"} THEN "forget" ELSE "load"
  BY BeginIs
<1>2. OpOK(new, grant)
  BY <1>1, CopyShapes DEF OpOK, CopyOK
<1>3. OpsOK(op', grant)
  BY <1>1, <1>2, HeldIsOK, GoIsOK
<1>4. UNCHANGED <<grant, stored, row, plain, turns>> /\ ticked' \in BOOLEAN
  BY DEF Begin, AccessTypes
<1> QED
  BY <1>3, <1>4 DEF AccessTypes

LEMMA WorldKeepsTypes ==
    ASSUME AccessTypes, Uninstall \/ SendRedact \/ Install \/ ChangeScopes \/ Tick
    PROVE  AccessTypes'
<1>1. /\ turns' \in 0..MaxTurns /\ plain' \in BOOLEAN /\ ticked' \in BOOLEAN /\ UNCHANGED row
  BY TurnIsOK DEF Uninstall, SendRedact, Install, ChangeScopes, Tick, AccessTypes, Running
<1>2. /\ grant' \in [installed : BOOLEAN, scope : Scopes, age : Ages \cup {"none"}]
      /\ sent' \subseteq [topic : {"scopes", "uninstalled", "redact"}, scope : Scopes]
  <2>1. grant \in [installed : BOOLEAN, scope : Scopes, age : Ages \cup {"none"}]
        /\ sent \subseteq [topic : {"scopes", "uninstalled", "redact"}, scope : Scopes]
    BY DEF AccessTypes
  <2>2. CASE Uninstall
    <3>1. grant' = [[grant EXCEPT !.installed = FALSE] EXCEPT !.age = "none"]
      BY <2>1, <2>2 DEF Uninstall
    <3>2. sent' = sent \cup {[topic |-> "uninstalled", scope |-> "full"]}
      BY <2>2 DEF Uninstall, Send
    <3>3. grant' \in [installed : BOOLEAN, scope : Scopes, age : Ages \cup {"none"}]
      BY <2>1, <3>1
    <3> QED
      BY <2>1, <3>2, <3>3 DEF Scopes
  <2>3. CASE SendRedact
    BY <2>1, <2>3 DEF SendRedact, Send, Scopes
  <2>4. CASE Install
    BY <2>1, <2>4 DEF Install
  <2>5. CASE ChangeScopes
    <3>1. PICK s \in Scopes : grant' = [grant EXCEPT !.scope = s] /\ Send("scopes", s)
      BY <2>5 DEF ChangeScopes
    <3> QED
      BY <2>1, <3>1 DEF Send
  <2>6. CASE Tick
    <3>1. PICK term \in {"near", "expired"} : grant' = [grant EXCEPT !.age = term]
      BY <2>6 DEF Tick
    <3> QED
      BY <2>1, <2>6, <3>1 DEF Tick, Ages
  <2> QED
    BY <2>2, <2>3, <2>4, <2>5, <2>6
<1>3. CASE Uninstall
  <2>1. /\ stored' = Killed(stored)
        /\ op' = [p \in Ops |-> [op[p] EXCEPT !.held = Killed(op[p].held)]]
    BY <1>3 DEF Uninstall
  <2>2. ASSUME NEW p \in Ops PROVE OpOK([op[p] EXCEPT !.held = Killed(op[p].held)], grant')
    BY HeldIsOK, CopiesMove, HeldMoves
  <2>3. OpsOK(op', grant')
    BY <2>1, <2>2 DEF OpsOK, OpOK
  <2> QED
    BY <1>1, <1>2, <2>1, <2>3, CopiesMove DEF AccessTypes
<1>4. CASE Tick
  <2>1. /\ stored' = Older(stored)
        /\ op' = [p \in Ops |-> [op[p] EXCEPT !.held = Older(op[p].held)]]
        /\ grant'.age # "none"
    BY <1>4 DEF Tick, AccessTypes
  <2>2. \A s : CopyOK(s, grant) => CopyOK(Older(s), grant')
    BY <2>1, CopiesMove DEF CopyOK
  <2>3. ASSUME NEW p \in Ops PROVE OpOK([op[p] EXCEPT !.held = Older(op[p].held)], grant')
    BY <2>2, HeldIsOK, CopiesMove, HeldMoves
  <2>4. OpsOK(op', grant')
    BY <2>1, <2>3 DEF OpsOK, OpOK
  <2> QED
    BY <1>1, <1>2, <2>1, <2>2, <2>4 DEF AccessTypes
<1>5. CASE SendRedact \/ Install \/ ChangeScopes
  <2>1. UNCHANGED <<stored, op>> /\ grant'.age = grant.age
    BY <1>5 DEF SendRedact, Install, ChangeScopes, AccessTypes
  <2>2. CopyOK(stored', grant') /\ OpsOK(op', grant')
    <3>1. \A s : CopyOK(s, grant) => CopyOK(s, grant')
      BY <2>1 DEF CopyOK
    <3>2. \A p \in Ops : OpOK(op[p], grant')
      BY <3>1 DEF AccessTypes, OpsOK, OpOK
    <3> QED
      BY <2>1, <3>1, <3>2 DEF AccessTypes, OpsOK
  <2> QED
    BY <1>1, <1>2, <2>2 DEF AccessTypes
<1> QED
  BY <1>3, <1>4, <1>5

LEMMA Beginnings ==
    ASSUME AccessTypes, NEW o \in Ops, OpenApp(o) \/ StartJob(o) \/ Deliver(o)
    PROVE  \E job \in Jobs, scope \in Scopes :
              /\ Begin(o, job, scope) /\ sent' \subseteq sent
              /\ \/ job \in {"request", "job"}
                 \/ \E w \in sent : job = w.topic
<1>1. CASE Deliver(o)
  BY <1>1 DEF Deliver, AccessTypes, Jobs
<1>2. CASE OpenApp(o) \/ StartJob(o)
  BY <1>2 DEF OpenApp, StartJob, Jobs, Scopes
<1> QED
  BY <1>1, <1>2

LEMMA AccessTypesNext ==
    ASSUME AccessTypes, [AccessNext]_avars
    PROVE  AccessTypes'
<1>1. CASE UNCHANGED avars
  BY <1>1 DEF avars, AccessTypes, OpsOK, OpOK, CopyOK
<1>2. ASSUME NEW o \in Ops, OpenApp(o) \/ StartJob(o) \/ Deliver(o)
      PROVE  AccessTypes'
  BY <1>2, Beginnings, BeginKeepsTypes
<1>3. ASSUME NEW o \in Ops, Works(o)
      PROVE  AccessTypes'
  BY <1>3, LoadsKeepTypes, OpensKeepTypes, SavesKeepTypes, HandlesKeepTypes, AnswersKeepTypes,
     FailsKeepTypes DEF Works
<1> QED
  BY <1>1, <1>2, <1>3, WorldKeepsTypes DEF AccessNext

LEMMA AccessTypesGive == AccessTypes => AccessTypeOK
  BY DEF AccessTypes, AccessTypeOK, CopyOK, OpsOK, OpRecord, Copies

-----------------------------------------------------------------------------

LEMMA GoodCopies ==
    ASSUME NEW s \in Copies, NEW g, NEW k, CopyIsGood(s, g, k)
    PROVE  /\ HasToken(s) => /\ s.token \in {"newest", "previous"} /\ s.age # "permanent"
                             /\ g.age # "none"
           /\ s.token = "newest" => s.age = g.age
           /\ s.token = "previous" => g.age = "fresh" /\ k
           /\ ~HasToken(s) => s = NoSession /\ s.token = "none"
           /\ s.token # "dead"
    BY CopyShapes DEF CopyIsGood, HasToken

\* An operation under way while the token has only been refreshed.
LEMMA WorkingOp ==
    ASSUME AccessTypes, GrantIsKept, NEW o \in Ops
    PROVE  /\ op[o] \in OpRecord /\ op[o].held \in Copies /\ stored \in Copies
           /\ CopyIsGood(op[o].held, grant, ticked) /\ CopyIsGood(stored, grant, ticked)
           /\ op[o].at \in Holding => HasToken(op[o].held)
           /\ op[o].at \in Keeping \cup {"keepNew"} => NewlyIssued(op[o].held, ticked)
           /\ op[o].at \notin {"purge", "forget", "mark"}
           /\ op[o].at # "done" => op[o].job \notin {"none", "uninstalled", "redact"}
           /\ op[o].at # "call" => ~op[o].retried
<1>1. /\ OpIsGood(op[o], grant, ticked) /\ op[o] \in OpRecord /\ stored \in Copies
      /\ CopyIsGood(stored, grant, ticked)
  BY DEF GrantIsKept, AccessTypes, OpsOK, OpOK, CopyOK
<1> QED
  BY <1>1 DEF OpIsGood, OpRecord, Idle0

LEMMA GoesIsGood ==
    ASSUME NEW g, NEW k, NEW o \in Ops, op[o] \in OpRecord,
           op[o].job \notin {"none", "uninstalled", "redact"}, ~op[o].retried,
           NEW at \in Steps \cup {"done"}, NEW s \in Copies, CopyIsGood(s, g, k),
           at \notin {"purge", "forget", "mark"},
           at \in Holding => HasToken(s),
           at \in Keeping \cup {"keepNew"} => NewlyIssued(s, k),
           at \in {"renew", "refresh"} => s.token # "newest" \/ s.age # "fresh"
    PROVE  OpIsGood(Goes(o, at, s), g, k)
<1>1. CASE at = "done"
  BY <1>1, CopyShapes DEF Goes, OpIsGood, Idle0, CopyIsGood, Holding, Keeping
<1>2. CASE at # "done"
  <2>1. /\ Goes(o, at, s) \in OpRecord /\ Goes(o, at, s).held = s /\ Goes(o, at, s).at = at
        /\ Goes(o, at, s).job = op[o].job /\ Goes(o, at, s).retried = op[o].retried
    BY <1>2 DEF Goes, OpRecord
  <2> QED
    BY <2>1 DEF OpIsGood
<1> QED
  BY <1>1, <1>2

LEMMA DoneIsGood == \A g, k : OpIsGood(Idle0, g, k)
  BY CopyShapes DEF OpIsGood, Idle0, CopyIsGood, Holding, Keeping

LEMMA KeptGo ==
    ASSUME AccessTypes, GrantIsKept, NEW o \in Ops, NEW new, op' = [op EXCEPT ![o] = new],
           OpIsGood(new, grant, ticked), UNCHANGED <<grant, ticked>>, sent' \subseteq sent,
           CopyIsGood(stored', grant, ticked),
           HasToken(stored) => HasToken(stored'),
           op[o].at = "keepNew" => HasToken(stored'),
           stored'.token = "previous" =>
               stored.token = "previous" /\ (op[o].at \in Keeping => new.at \in Keeping)
    PROVE  GrantIsKept'
<1>1. /\ op \in [Ops -> OpRecord] /\ op'[o] = new
      /\ \A p \in Ops \ {o} : op'[p] = op[p]
  BY DEF AccessTypes, OpsOK
<1>2. \A p \in Ops : OpIsGood(op'[p], grant', ticked')
  BY <1>1 DEF GrantIsKept
<1>3. stored'.token = "previous" => \E p \in Ops : op'[p].at \in Keeping
  BY <1>1 DEF GrantIsKept
<1>4. grant'.age # "none" /\ ~Exchanging' => HasToken(stored')
  <2> SUFFICES ASSUME grant'.age # "none", ~Exchanging', ~HasToken(stored') PROVE FALSE
    OBVIOUS
  <2>1. PICK p \in Ops : op[p].at = "keepNew"
    BY DEF GrantIsKept, Exchanging
  <2>2. p # o
    BY <2>1
  <2> QED
    BY <1>1, <2>1, <2>2 DEF Exchanging
<1> QED
  BY <1>2, <1>3, <1>4 DEF GrantIsKept

\* The same, for an operation that goes on with a copy, and nothing stored.
LEMMA KeptGoes ==
    ASSUME AccessTypes, GrantIsKept, NEW o \in Ops, op[o].at # "done", ~op[o].retried,
           op[o].at \notin Keeping \cup {"keepNew"},
           NEW at \in Steps \cup {"done"}, NEW s \in Copies, CopyIsGood(s, grant, ticked),
           Go(o, at, s), UNCHANGED <<grant, ticked, stored>>, sent' \subseteq sent,
           at \notin {"purge", "forget", "mark"},
           at \in Holding => HasToken(s),
           at \in Keeping \cup {"keepNew"} => NewlyIssued(s, ticked),
           at \in {"renew", "refresh"} => s.token # "newest" \/ s.age # "fresh"
    PROVE  GrantIsKept'
<1>1. OpIsGood(Goes(o, at, s), grant, ticked)
  BY WorkingOp, GoesIsGood
<1>2. CopyIsGood(stored, grant, ticked)
  BY WorkingOp
<1> QED
  BY <1>1, <1>2, KeptGo DEF Go

LEMMA KeptEnds ==
    ASSUME AccessTypes, GrantIsKept, NEW o \in Ops, op[o].at \notin Keeping \cup {"keepNew"},
           NEW s, Go(o, "done", s), UNCHANGED <<grant, ticked, stored>>, sent' \subseteq sent
    PROVE  GrantIsKept'
<1>1. CopyIsGood(stored, grant, ticked)
  BY WorkingOp
<1> QED
  BY <1>1, DoneIsGood, KeptGo DEF Go, Goes

LEMMA AfterIsGood ==
    ASSUME AccessTypes, GrantIsKept, NEW o \in Ops, op[o].at # "done", op[o].at # "call",
           NEW s \in Copies, CopyIsGood(s, grant, ticked)
    PROVE  OpIsGood(Goes(o, After(o, s), s), grant, ticked)
<1>1. /\ After(o, s) \in Steps \cup {"done"}
      /\ After(o, s) \notin Keeping \cup {"keepNew", "renew", "refresh", "purge", "forget", "mark"}
      /\ After(o, s) \in Holding => HasToken(s)
  BY AfterIsOK DEF Keeping, Holding
<1> QED
  BY <1>1, WorkingOp, GoesIsGood

\* Those who waited for a renewal go on with what it brought.
LEMMA ResumedIsGood ==
    ASSUME AccessTypes, GrantIsKept, NEW o \in Ops, Renewing(o),
           NEW s \in Copies, CopyIsGood(s, grant, ticked)
    PROVE  /\ \A p \in Ops : OpIsGood(Resumed(op, o, s)[p], grant, ticked)
           /\ \A p \in Ops : op[p].at \in (Keeping \cup {"keepNew"}) /\ p # o => Resumed(op, o, s)[p] = op[p]
<1>1. op[o].at # "done" /\ op[o].at # "call"
  BY DEF Renewing
<1>2. ASSUME NEW p \in Ops PROVE OpIsGood(Resumed(op, o, s)[p], grant, ticked)
  <2>1. CASE p = o \/ (op[p].at = "joined" /\ op[p].process = op[o].process)
    <3>1. Resumed(op, o, s)[p] = Goes(p, After(p, s), s)
      BY <2>1 DEF Resumed
    <3>2. op[p].at # "done" /\ op[p].at # "call"
      BY <1>1, <2>1
    <3> QED
      BY <3>1, <3>2, AfterIsGood
  <2>2. CASE ~(p = o \/ (op[p].at = "joined" /\ op[p].process = op[o].process))
    <3>1. Resumed(op, o, s)[p] = op[p]
      BY <2>2 DEF Resumed
    <3> QED
      BY <3>1 DEF GrantIsKept
  <2> QED
    BY <2>1, <2>2
<1>3. \A p \in Ops : op[p].at \in (Keeping \cup {"keepNew"}) /\ p # o => Resumed(op, o, s)[p] = op[p]
  BY DEF Resumed, Keeping
<1> QED
  BY <1>2, <1>3

LEMMA LoadsKeepGrant ==
    ASSUME AccessTypes, GrantIsKept, NEW o \in Ops, Loads(o)
    PROVE  GrantIsKept'
<1>1. /\ op[o].held \in Copies /\ stored \in Copies
      /\ CopyIsGood(op[o].held, grant, ticked) /\ CopyIsGood(stored, grant, ticked)
      /\ UNCHANGED <<grant, ticked, sent>>
  BY WorkingOp DEF Loads, ensureUsableToken, Reread, Keep, Quiet
<1>2. CASE ensureUsableToken(o)
  <2>1. PICK at : /\ Go(o, at, stored)
                  /\ at = After(o, stored) \/ (at \in {"joined", "reload"} /\ HasToken(stored))
    BY <1>2 DEF ensureUsableToken
  <2>2. /\ at \in Steps \cup {"done"}
        /\ at \notin Keeping \cup {"keepNew", "renew", "refresh", "purge", "forget", "mark"}
        /\ at \in Holding => HasToken(stored)
    BY <2>1, AfterIsOK DEF Keeping, Holding, Steps
  <2>3. /\ op[o].at # "done" /\ op[o].at \notin Keeping \cup {"keepNew"} /\ ~op[o].retried
        /\ UNCHANGED stored
    BY <1>2, WorkingOp DEF ensureUsableToken, Keeping
  <2> QED
    BY <1>1, <2>1, <2>2, <2>3, KeptGoes
<1>3. CASE Reread(o)
  <2> DEFINE current == IF HasToken(stored) THEN stored ELSE op[o].held
  <2>1. /\ current \in Copies /\ CopyIsGood(current, grant, ticked) /\ HasToken(current)
        /\ op[o].at = "reload" /\ UNCHANGED stored
    BY <1>1, <1>3, WorkingOp DEF Reread, Holding
  <2>2. Loaded(o, current) \/ (Go(o, "renew", current) /\ current.age # "fresh")
    BY <1>3 DEF Reread, Usable
  <2> HIDE DEF current
  <2>3. CASE Loaded(o, current)
    <3>1. \A p \in Ops : OpIsGood(op'[p], grant, ticked)
      BY <2>1, <2>3, ResumedIsGood DEF Loaded, Renewing
    <3>2. \A p \in Ops : op[p].at \in Keeping \cup {"keepNew"} => op'[p] = op[p]
      BY <2>1, <2>3, ResumedIsGood DEF Loaded, Renewing, Keeping
    <3> QED
      BY <1>1, <2>1, <3>1, <3>2 DEF GrantIsKept, Exchanging
  <2>4. CASE Go(o, "renew", current) /\ current.age # "fresh"
    <3>1. op[o].at # "done" /\ op[o].at \notin Keeping \cup {"keepNew"} /\ ~op[o].retried
      BY <2>1, WorkingOp DEF Keeping
    <3> QED
      BY <1>1, <2>1, <2>4, <3>1, KeptGoes DEF Steps, Holding, Keeping
  <2> QED
    BY <2>2, <2>3, <2>4
<1>4. CASE Keep(o)
  <2>1. /\ NewlyIssued(op[o].held, ticked) /\ op[o].at = "keep" /\ stored' = op[o].held
        /\ Loaded(o, op[o].held)
    BY <1>4, WorkingOp DEF Keep, Keeping
  <2>2. \A p \in Ops : OpIsGood(op'[p], grant, ticked)
    BY <1>1, <2>1, ResumedIsGood DEF Loaded, Renewing
  <2>3. HasToken(stored') /\ stored'.token # "previous"
    BY <2>1, CopyShapes DEF NewlyIssued, HasToken
  <2> QED
    BY <1>1, <2>1, <2>2, <2>3 DEF GrantIsKept
<1> QED
  BY <1>2, <1>3, <1>4 DEF Loads

\* A token that is spent is the newest there is, and no copy of the one before it is
\* left; or it is the one before, and Shopify answers with the newest again.
LEMMA SpendKeepsGrant ==
    ASSUME AccessTypes, GrantIsKept, NEW o \in Ops, op[o].at \in {"renew", "refresh"},
           NEW bought \in Keeping, NEW Refused, Spend(o, bought, Refused)
    PROVE  GrantIsKept'
<1> DEFINE s == op[o].held
<1>1. /\ s \in Copies /\ HasToken(s) /\ CopyIsGood(s, grant, ticked) /\ s.token # "dead"
      /\ s.token = "newest" => s.age # "fresh" /\ grant.age # "fresh"
      /\ s.token = "previous" => grant.age = "fresh" /\ ticked
      /\ grant.age # "none" /\ s \in Sessions
      /\ op[o].at # "done" /\ op[o].at \notin Keeping \cup {"keepNew"} /\ ~op[o].retried
      /\ bought \in Steps /\ bought \in Holding
  <2>1. s \in Copies /\ HasToken(s) /\ CopyIsGood(s, grant, ticked) /\ ~op[o].retried
    BY WorkingOp DEF Holding
  <2>2. s.token = "newest" => s.age # "fresh"
    BY DEF GrantIsKept, OpIsGood
  <2> QED
    BY <2>1, <2>2, GoodCopies DEF Copies, HasToken, Keeping, Steps, Holding
<1>2. CASE Rotates(s)
  <2>1. /\ grant' = Issued /\ stored' = Outdated(stored)
        /\ op' = [Outdate EXCEPT ![o] = Goes(o, bought, Newest(s, "fresh"))]
        /\ ticked' = TRUE /\ UNCHANGED <<row, sent, plain, turns>>
    BY <1>2 DEF Spend, Rotates, Repeats
  <2>2. grant'.age = "fresh" /\ grant.age # "fresh"
    BY <1>1, <1>2, <2>1, OutdateIsOK DEF Rotates
  <2>3. ASSUME NEW c \in Copies, CopyIsGood(c, grant, ticked)
        PROVE  /\ CopyIsGood(Outdated(c), grant', TRUE)
               /\ HasToken(c) => HasToken(Outdated(c)) /\ Outdated(c).token = "previous"
               /\ ~HasToken(c) => c = NoSession /\ Outdated(c) = NoSession
    <3>1. CASE c = NoSession
      BY <3>1, CopyShapes DEF CopyIsGood, HasToken
    <3>2. CASE c # NoSession
      <4>1. c \in Sessions /\ c.token = "newest" /\ c.age # "permanent"
        BY <2>2, <2>3, <3>2 DEF CopyIsGood, Copies
      <4>2. Outdated(c) = [c EXCEPT !.token = "previous"]
        BY <4>1 DEF Outdated, isPermanent
      <4>3. Outdated(c).token = "previous" /\ Outdated(c).age = c.age
        BY <4>1, <4>2 DEF Sessions
      <4> QED
        BY <2>2, <3>2, <4>1, <4>3, CopyShapes DEF CopyIsGood, HasToken
    <3> QED
      BY <3>1, <3>2
  <2>4. ASSUME NEW p \in Ops
        PROVE  OpIsGood(Outdate[p], grant', TRUE) \/ p = o
    <3> DEFINE c == op[p].held
               q == [op[p] EXCEPT !.held = Outdated(c)]
    <3>1. /\ op[p] \in OpRecord /\ c \in Copies /\ CopyIsGood(c, grant, ticked)
          /\ OpIsGood(op[p], grant, ticked)
      BY WorkingOp DEF GrantIsKept
    <3>2. ~NewlyIssued(c, ticked)
      BY <2>2, <3>1, GoodCopies DEF NewlyIssued
    <3>3. /\ q.held = Outdated(c) /\ q.job = op[p].job /\ q.at = op[p].at
          /\ q.retried = op[p].retried
      BY <3>1 DEF OpRecord
    <3>4. op[p].job = "none" => q = Idle0
      <4> SUFFICES ASSUME op[p].job = "none" PROVE q = Idle0
        OBVIOUS
      <4>1. op[p] = Idle0 /\ c = NoSession
        BY <3>1 DEF OpIsGood, Idle0
      <4>2. Outdated(c) = NoSession
        BY <4>1, CopyShapes
      <4>3. [op[p] EXCEPT !.held = NoSession] = op[p]
        BY <3>1, <4>1 DEF OpRecord
      <4> QED
        BY <4>1, <4>2, <4>3
    <3>5. CopyIsGood(Outdated(c), grant', TRUE) /\ (HasToken(c) => HasToken(Outdated(c)))
          /\ Outdated(c).token # "newest"
      BY <2>3, <3>1, CopyShapes
    <3>6. Outdate[p] = q
      BY DEF Outdate
    <3> HIDE DEF q, c
    <3>7. /\ op[p].at \notin Keeping \cup {"keepNew"} /\ ~op[p].retried
          /\ op[p].at \in Holding => HasToken(c)
      BY <3>1, <3>2 DEF OpIsGood, c
    <3>8. OpIsGood(q, grant', TRUE)
      BY <3>1, <3>3, <3>4, <3>5, <3>7 DEF OpIsGood
    <3> QED
      BY <3>6, <3>8
  <2>5. Newest(s, "fresh") \in Copies /\ NewlyIssued(Newest(s, "fresh"), TRUE)
        /\ CopyIsGood(Newest(s, "fresh"), grant', TRUE) /\ HasToken(Newest(s, "fresh"))
    <3>1. /\ Newest(s, "fresh") \in Sessions /\ Newest(s, "fresh").token = "newest"
          /\ Newest(s, "fresh").age = "fresh"
      BY <1>1, CopyShapes DEF Ages
    <3> QED
      BY <2>2, <3>1, CopyShapes DEF Copies, NewlyIssued, CopyIsGood, HasToken
  <2>6. OpIsGood(Goes(o, bought, Newest(s, "fresh")), grant', TRUE)
    BY <1>1, <2>5, WorkingOp, GoesIsGood DEF Keeping
  <2>7. \A p \in Ops : OpIsGood(op'[p], grant', TRUE)
    BY <2>1, <2>4, <2>6 DEF Outdate
  <2>8. op'[o].at \in Keeping
    BY <1>1, <2>1, WorkingOp DEF Outdate, Goes, OpRecord, Keeping
  <2>9. CopyIsGood(stored', grant', TRUE) /\ HasToken(stored')
    <3>1. \A p \in Ops : op[p].at # "keepNew"
      BY <2>2, WorkingOp, GoodCopies DEF NewlyIssued
    <3>2. HasToken(stored)
      BY <1>1, <3>1 DEF GrantIsKept, Exchanging
    <3> QED
      BY <2>1, <2>3, <3>2, WorkingOp
  <2> QED
    BY <2>1, <2>2, <2>7, <2>8, <2>9 DEF GrantIsKept
<1>3. CASE Repeats(s)
  <2>1. Go(o, bought, Newest(s, grant.age)) /\ UNCHANGED stored /\ Quiet
    BY <1>1, <1>3 DEF Spend, Rotates, Repeats
  <2>2. grant.age = "fresh" /\ ticked
    BY <1>1, <1>3 DEF Repeats
  <2>3. /\ Newest(s, "fresh") \in Sessions /\ Newest(s, "fresh").token = "newest"
        /\ Newest(s, "fresh").age = "fresh"
    BY <1>1, CopyShapes DEF Ages
  <2>4. /\ Newest(s, "fresh") \in Copies /\ CopyIsGood(Newest(s, "fresh"), grant, ticked)
        /\ NewlyIssued(Newest(s, "fresh"), ticked) /\ HasToken(Newest(s, "fresh"))
    BY <2>2, <2>3, CopyShapes DEF Copies, CopyIsGood, NewlyIssued, HasToken
  <2>5. /\ UNCHANGED <<grant, ticked, stored, sent>>
        /\ bought \notin {"purge", "forget", "mark", "renew", "refresh"}
    BY <2>1 DEF Quiet, Keeping
  <2> QED
    BY <1>1, <2>1, <2>2, <2>4, <2>5, KeptGoes
<1> QED
  BY <1>1, <1>2, <1>3 DEF Spend, Rotates, Repeats

\* A call is tried again, or asks for a refresh first, and nothing else changes.
LEMMA KeptRetry ==
    ASSUME AccessTypes, GrantIsKept, NEW o \in Ops, op[o].at = "call",
           NEW at \in {"call", "refresh"}, op[o].attempt < DEFAULT_MAX_ATTEMPTS,
           at = "refresh" => ~op[o].retried /\ (op[o].held.token # "newest" \/ op[o].held.age # "fresh"),
           op' = [op EXCEPT ![o] = Retried(op[o], at)],
           UNCHANGED <<grant, ticked, stored>>, sent' \subseteq sent
    PROVE  GrantIsKept'
<1> DEFINE new == Retried(op[o], at)
<1>1. /\ new.at = at /\ new.held = op[o].held /\ new.job = op[o].job
      /\ new.retried = op[o].retried
  BY HeldIsOK, RetriedIsOK DEF OpsOK, Steps
<1>2. OpIsGood(op[o], grant, ticked) /\ op[o].job # "none" /\ HasToken(op[o].held)
      /\ CopyIsGood(stored, grant, ticked)
  BY WorkingOp DEF GrantIsKept, Holding
<1> HIDE DEF new
<1>3. OpIsGood(new, grant, ticked)
  BY <1>1, <1>2 DEF OpIsGood, Holding, Keeping
<1> QED
  BY <1>2, <1>3, KeptGo DEF Keeping, new

LEMMA AnswersKeepGrant ==
    ASSUME AccessTypes, GrantIsKept, NEW o \in Ops, Answers(o), plain'
    PROVE  GrantIsKept'
<1>1. /\ op[o].held \in Copies /\ stored \in Copies /\ op[o] \in OpRecord
      /\ CopyIsGood(op[o].held, grant, ticked) /\ CopyIsGood(stored, grant, ticked)
  BY WorkingOp
<1>2. CASE Renew(o)
  BY <1>2, SpendKeepsGrant DEF Renew, Keeping
<1>3. CASE forceRefresh(o)
  BY <1>3, SpendKeepsGrant DEF forceRefresh, Keeping
<1>4. CASE CallAnswers(o)
  BY <1>4, KeptEnds DEF CallAnswers, Quiet, Keeping
<1>5. CASE CallRefused(o)
  <2> DEFINE s == op[o].held
  <2>1. /\ op[o].at = "call" /\ HasToken(s) /\ s.age # "permanent" /\ s.token \in {"newest", "previous"}
        /\ Refusable(s) /\ s.age \in Ages
    BY <1>1, <1>5, WorkingOp, GoodCopies
       DEF CallRefused, Holding, Copies, HasToken, Sessions
  <2>2. s.token = "newest" => s.age = "expired"
    BY <2>1 DEF Refusable, Accepted, Ages
  <2>3. ~op[o].retried
    BY <2>2 DEF GrantIsKept, OpIsGood, NewlyIssued
  <2>4. /\ op' = [op EXCEPT ![o] = Retried(op[o], "refresh")]
        /\ op[o].attempt < DEFAULT_MAX_ATTEMPTS /\ UNCHANGED <<stored, grant, ticked, sent>>
    BY <1>5, <2>1, <2>3, HeldIsOK DEF CallRefused, Retried, isPermanent, OpsOK
  <2> QED
    BY <1>1, <2>1, <2>2, <2>3, <2>4, KeptRetry DEF Steps
<1>6. CASE Exchange(o)
  <2> DEFINE new == [token |-> "newest", scope |-> grant.scope, age |-> "fresh"]
  <2>1. /\ grant' = Issued /\ stored' = Killed(stored) /\ UNCHANGED sent
        /\ grant.age = "none" /\ ticked' = TRUE /\ op[o].at = "exchange"
        /\ op' = [p \in Ops |-> IF p = o THEN Goes(o, "keepNew", new)
                                ELSE [op[p] EXCEPT !.held = Killed(op[p].held)]]
    BY <1>6 DEF Exchange
  <2>2. grant'.age = "fresh"
    BY <2>1, OutdateIsOK
  <2>3. new \in Copies /\ NewlyIssued(new, TRUE) /\ CopyIsGood(new, grant', TRUE) /\ HasToken(new)
    <3>1. new \in Sessions /\ new.token = "newest" /\ new.age = "fresh"
      BY DEF AccessTypes, Sessions, Ages
    <3> HIDE DEF new
    <3> QED
      BY <2>2, <3>1, CopyShapes DEF Copies, NewlyIssued, CopyIsGood, HasToken
  <2> HIDE DEF new
  <2>4. OpIsGood(Goes(o, "keepNew", new), grant', TRUE)
    BY <1>1, <2>1, <2>3, WorkingOp, GoesIsGood DEF Steps, Keeping
  <2>5. ASSUME NEW p \in Ops, p # o
        PROVE  OpIsGood(op'[p], grant', TRUE)
    <3>1. op[p] \in OpRecord /\ op[p].held = NoSession /\ OpIsGood(op[p], grant, ticked)
      BY <2>1, WorkingOp DEF CopyIsGood, GrantIsKept
    <3>2. [op[p] EXCEPT !.held = NoSession] = op[p]
      BY <3>1 DEF OpRecord
    <3>3. op'[p] = op[p]
      BY <2>1, <2>5, <3>1, <3>2, CopyShapes
    <3>4. op[p].at \notin Holding /\ ~op[p].retried
      BY <3>1, CopyShapes DEF OpIsGood, HasToken, NewlyIssued
    <3> QED
      BY <3>1, <3>3, <3>4 DEF OpIsGood, CopyIsGood, Holding, Keeping
  <2>6. op'[o].at = "keepNew"
    BY <1>1, <2>1 DEF Goes, OpRecord
  <2>7. stored' = NoSession
    BY <2>1, WorkingOp, CopyShapes DEF CopyIsGood
  <2>8. \A p \in Ops : OpIsGood(op'[p], grant', TRUE)
    BY <2>1, <2>4, <2>5
  <2>9. Exchanging'
    BY <2>6 DEF Exchanging
  <2> QED
    BY <2>1, <2>2, <2>7, <2>8, <2>9, CopyShapes DEF GrantIsKept, CopyIsGood
<1>7. CASE CallRetried(o)
  <2>1. /\ op[o].at = "call" /\ op' = [op EXCEPT ![o] = Retried(op[o], "call")]
        /\ op[o].attempt < DEFAULT_MAX_ATTEMPTS /\ UNCHANGED <<stored, grant, ticked, sent>>
    BY <1>1, <1>7, HeldIsOK DEF CallRetried, Retried, Quiet, OpsOK, OpRecord
  <2> QED
    BY <2>1, KeptRetry
<1> QED
  BY <1>2, <1>3, <1>4, <1>5, <1>6, <1>7 DEF Answers

LEMMA OpensKeepGrant ==
    ASSUME AccessTypes, GrantIsKept, NEW o \in Ops, Opens(o)
    PROVE  GrantIsKept'
<1>1. /\ op[o].held \in Copies /\ CopyIsGood(op[o].held, grant, ticked)
      /\ UNCHANGED <<grant, ticked, sent>>
  BY WorkingOp DEF Opens, KeepNew, ensureProvisioned, createWithDefaults, Revive, Quiet
<1>2. CASE KeepNew(o)
  <2>1. /\ op[o].at = "keepNew" /\ stored' = op[o].held /\ Go(o, "provision", op[o].held)
        /\ NewlyIssued(op[o].held, ticked) /\ ~op[o].retried
    BY <1>2, WorkingOp DEF KeepNew
  <2>2. HasToken(op[o].held) /\ op[o].held.token # "previous"
    BY <2>1, CopyShapes DEF NewlyIssued, HasToken
  <2>3. OpIsGood(Goes(o, "provision", op[o].held), grant, ticked)
    BY <1>1, <2>1, <2>2, WorkingOp, GoesIsGood DEF Steps, Keeping
  <2> QED
    BY <1>1, <2>1, <2>2, <2>3, KeptGo DEF Go
<1>3. CASE ensureProvisioned(o) \/ createWithDefaults(o) \/ Revive(o)
  <2>1. /\ op[o].at \in {"provision", "create", "revive"} /\ UNCHANGED stored
        /\ HasToken(op[o].held) /\ ~op[o].retried
    BY <1>3, WorkingOp DEF ensureProvisioned, createWithDefaults, Revive, Quiet, Holding
  <2>2. \/ Go(o, "done", NoSession)
        \/ \E at \in {"call", "create", "revive", "done"} : Go(o, at, op[o].held)
    BY <1>3 DEF ensureProvisioned, createWithDefaults, Revive, Admitted
  <2>3. CASE Go(o, "done", NoSession)
    BY <1>1, <2>1, <2>3, KeptEnds DEF Keeping
  <2>4. CASE \E at \in {"call", "create", "revive", "done"} : Go(o, at, op[o].held)
    BY <1>1, <2>1, <2>4, KeptGoes DEF Steps, Keeping
  <2> QED
    BY <2>2, <2>3, <2>4
<1> QED
  BY <1>2, <1>3 DEF Opens

LEMMA SavesKeepGrant ==
    ASSUME AccessTypes, GrantIsKept, NEW o \in Ops, Saves(o)
    PROVE  GrantIsKept'
<1>1. op[o].at # "purge"
  BY WorkingOp
<1>2. /\ op[o].at = "keepRetry" /\ stored' = op[o].held /\ Quiet
      /\ op' = [op EXCEPT ![o].at = "call", ![o].retried = TRUE]
  BY <1>1 DEF Saves, refreshRejectedSession, deleteShopSessions
<1>3. /\ op[o] \in OpRecord /\ CopyIsGood(op[o].held, grant, ticked)
      /\ NewlyIssued(op[o].held, ticked) /\ op[o].job \notin {"none", "uninstalled", "redact"}
      /\ op \in [Ops -> OpRecord]
  BY <1>2, WorkingOp DEF Keeping, AccessTypes, OpsOK
<1> DEFINE new == [op[o] EXCEPT !.at = "call", !.retried = TRUE]
<1>4. op' = [op EXCEPT ![o] = new]
  BY <1>2, <1>3
<1>5. /\ new.held = op[o].held /\ new.at = "call" /\ new.job = op[o].job
  BY <1>3 DEF OpRecord
<1> HIDE DEF new
<1>6. HasToken(op[o].held) /\ op[o].held.token # "previous"
  BY <1>3, CopyShapes DEF NewlyIssued, HasToken
<1>7. OpIsGood(new, grant, ticked)
  BY <1>3, <1>5, <1>6 DEF OpIsGood, Keeping
<1> QED
  BY <1>2, <1>3, <1>4, <1>6, <1>7, KeptGo DEF Quiet

LEMMA HandlesKeepGrant ==
    ASSUME AccessTypes, GrantIsKept, NEW o \in Ops, Handles(o), plain'
    PROVE  GrantIsKept'
<1> DEFINE s == op[o].held
           new == [s EXCEPT !.scope = op[o].arg]
<1>1. /\ op[o].at = "rescope" /\ stored' = new /\ stored.token = s.token
      /\ Go(o, "done", NoSession) /\ UNCHANGED <<grant, sent, ticked>>
  BY WorkingOp DEF Handles, Forget, Mark, Rescope
<1>2. /\ s \in Copies /\ CopyIsGood(s, grant, ticked) /\ HasToken(s) /\ s \in Sessions
  BY <1>1, WorkingOp DEF Holding, Copies, HasToken
<1>3. new.token = s.token /\ new.age = s.age
  BY <1>2 DEF Sessions
<1>4. CopyIsGood(new, grant, ticked) /\ HasToken(new)
  BY <1>2, <1>3, CopyShapes DEF CopyIsGood, HasToken
<1> HIDE DEF new, s
<1> QED
  BY <1>1, <1>3, <1>4, DoneIsGood, KeptGo DEF Go, Goes, Keeping

LEMMA FailsKeepGrant ==
    ASSUME AccessTypes, GrantIsKept, NEW o \in Ops, Fails(o), plain'
    PROVE  GrantIsKept'
<1>1. /\ op[o].at \in {"exchange", "call"} /\ Go(o, "done", NoSession)
      /\ UNCHANGED <<grant, stored, sent, ticked>>
  BY DEF Fails, RenewFails, ExchangeFails, CallFails, forceRefreshFails, SpendLost, Failed
<1> QED
  BY <1>1, KeptEnds DEF Keeping

\* Before the oldest operation has seen a token issued, or when none runs, no copy is
\* of the token before, and none was issued to an operation that is yet to keep it.
LEMMA NothingPending ==
    ASSUME AccessTypes, GrantIsKept, ~ticked \/ ~Running
    PROVE  /\ stored.token # "previous"
           /\ \A p \in Ops : /\ op[p].held.token # "previous"
                             /\ op[p].at \notin Keeping \cup {"keepNew"} /\ ~op[p].retried
<1>1. ASSUME NEW p \in Ops
      PROVE  /\ op[p].held.token # "previous"
             /\ op[p].at \notin Keeping \cup {"keepNew"} /\ ~op[p].retried
  <2>1. CASE ~ticked
    <3>1. op[p].held.token # "previous"
      BY <2>1, WorkingOp, GoodCopies
    <3> QED
      BY <2>1, <3>1, WorkingOp DEF NewlyIssued, GrantIsKept, OpIsGood
  <2>2. CASE ~Running
    BY <2>2, CopyShapes DEF Running, GrantIsKept, OpIsGood, Idle0, Keeping
  <2> QED
    BY <2>1, <2>2
<1> QED
  BY <1>1 DEF GrantIsKept

LEMMA BeginKeepsGrant ==
    ASSUME AccessTypes, GrantIsKept, NEW o \in Ops, OpenApp(o) \/ StartJob(o) \/ Deliver(o)
    PROVE  GrantIsKept'
<1>1. PICK job \in Jobs, scope \in Scopes :
        /\ Begin(o, job, scope) /\ sent' \subseteq sent
        /\ \/ job \in {"request", "job"}
           \/ \E w \in sent : job = w.topic
  BY Beginnings
<1>2. job \notin {"uninstalled", "redact", "none"}
  BY <1>1 DEF GrantIsKept, Jobs
<1>3. PICK new \in OpRecord :
        /\ op' = [op EXCEPT ![o] = new]
        /\ new.job = job /\ new.held = NoSession /\ ~new.retried
        /\ new.at = IF job \in {"uninstalled", "redact"} THEN "forget" ELSE "load"
  BY <1>1, BeginIs
<1>4. \A g, k : OpIsGood(new, g, k)
  BY <1>2, <1>3 DEF OpIsGood, CopyIsGood, Holding, Keeping
<1>5. UNCHANGED <<grant, stored>> /\ op[o].job = "none" /\ ticked' = (ticked /\ Running)
  BY <1>1 DEF Begin
<1>6. op[o].at = "done"
  BY <1>5 DEF GrantIsKept, OpIsGood, Idle0
<1>7. CASE Running
  <2>1. ticked' = ticked
    BY <1>5, <1>7 DEF AccessTypes
  <2>2. CopyIsGood(stored, grant, ticked)
    BY DEF GrantIsKept
  <2> QED
    BY <1>1, <1>3, <1>4, <1>5, <1>6, <2>1, <2>2, KeptGo DEF Keeping
<1>8. CASE ~Running
  <2>1. ticked' = FALSE
    BY <1>5, <1>8
  <2>2. ASSUME NEW p \in Ops PROVE OpIsGood(op'[p], grant, FALSE) /\ op'[p].at \notin {"keepNew"}
    <3>1. CASE p = o
      BY <1>2, <1>3, <1>4, <3>1 DEF AccessTypes, OpsOK
    <3>2. CASE p # o
      <4>1. op'[p] = Idle0
        BY <1>3, <1>8, <3>2 DEF AccessTypes, OpsOK, Running, GrantIsKept, OpIsGood
      <4>2. Idle0.at = "done"
        BY DEF Idle0
      <4> QED
        BY <4>1, <4>2, DoneIsGood
    <3> QED
      BY <3>1, <3>2
  <2>3. stored.token # "previous" /\ CopyIsGood(stored, grant, FALSE)
    BY <1>8, NothingPending DEF GrantIsKept, CopyIsGood
  <2>4. ~Exchanging
    BY <1>8, NothingPending DEF Exchanging
  <2> QED
    BY <1>1, <1>5, <2>1, <2>2, <2>3, <2>4 DEF GrantIsKept
<1> QED
  BY <1>7, <1>8

LEMMA TickKeepsGrant ==
    ASSUME AccessTypes, GrantIsKept, Tick
    PROVE  GrantIsKept'
<1>1. /\ grant.age \in {"fresh", "near"} /\ (~ticked \/ ~Running) /\ UNCHANGED sent
      /\ stored' = Older(stored)
      /\ op' = [p \in Ops |-> [op[p] EXCEPT !.held = Older(op[p].held)]]
      /\ grant' = [grant EXCEPT !.age = IF grant.age = "fresh" THEN "near" ELSE "expired"]
  BY DEF Tick
<1>2. grant'.age = IF grant.age = "fresh" THEN "near" ELSE "expired"
  BY <1>1 DEF AccessTypes
<1>3. ASSUME NEW c \in Copies, CopyIsGood(c, grant, ticked), c.token # "previous", NEW k
      PROVE  /\ CopyIsGood(Older(c), grant', k) /\ Older(c).token = c.token
             /\ Older(c).age # "fresh" \/ c = NoSession
             /\ c = NoSession => Older(c) = NoSession
             /\ HasToken(c) => HasToken(Older(c))
  <2>1. CASE c = NoSession
    BY <2>1, CopyShapes DEF CopyIsGood, HasToken
  <2>2. CASE c # NoSession
    <3>1. c \in Sessions /\ c.token = "newest" /\ c.age = grant.age
      BY <1>3, <2>2 DEF CopyIsGood, Copies
    <3>2. Older(c) = [c EXCEPT !.age = CASE c.age = "fresh" -> "near" [] c.age = "near" -> "expired"
                                         [] OTHER -> c.age]
      BY <2>2, <3>1 DEF Older
    <3>3. Older(c).token = "newest" /\ Older(c).age = grant'.age
      BY <1>1, <1>2, <3>1, <3>2 DEF Sessions
    <3> QED
      BY <1>1, <1>2, <2>2, <3>1, <3>3, CopyShapes DEF CopyIsGood, HasToken
  <2> QED
    BY <2>1, <2>2
<1>4. ASSUME NEW p \in Ops
      PROVE  OpIsGood(op'[p], grant', ticked') /\ op'[p].at \notin {"keepNew"}
  <2> DEFINE c == op[p].held
             q == [op[p] EXCEPT !.held = Older(c)]
  <2>1. /\ op[p] \in OpRecord /\ c \in Copies /\ CopyIsGood(c, grant, ticked)
        /\ OpIsGood(op[p], grant, ticked)
    BY WorkingOp DEF GrantIsKept
  <2>2. c.token # "previous" /\ op[p].at \notin Keeping \cup {"keepNew"} /\ ~op[p].retried
    BY <1>1, NothingPending
  <2>3. /\ q.held = Older(c) /\ q.job = op[p].job /\ q.at = op[p].at
        /\ q.retried = op[p].retried
    BY <2>1 DEF OpRecord
  <2>4. op[p].job = "none" => q = Idle0
    <3> SUFFICES ASSUME op[p].job = "none" PROVE q = Idle0
      OBVIOUS
    <3>1. op[p] = Idle0 /\ c = NoSession
      BY <2>1 DEF OpIsGood, Idle0
    <3>2. Older(c) = NoSession
      BY <3>1, CopyShapes
    <3>3. [op[p] EXCEPT !.held = NoSession] = op[p]
      BY <2>1, <3>1 DEF OpRecord
    <3> QED
      BY <3>1, <3>2, <3>3
  <2>5. /\ CopyIsGood(Older(c), grant', ticked') /\ (HasToken(c) => HasToken(Older(c)))
        /\ Older(c).token # "newest" \/ Older(c).age # "fresh"
    BY <1>3, <2>1, <2>2, CopyShapes
  <2>6. op'[p] = q
    BY <1>1
  <2>7. op[p].at \in Holding => HasToken(c)
    BY <2>1 DEF OpIsGood
  <2> HIDE DEF q, c
  <2>8. OpIsGood(q, grant', ticked')
    BY <2>1, <2>2, <2>3, <2>4, <2>5, <2>7 DEF OpIsGood
  <2> QED
    BY <2>2, <2>3, <2>6, <2>8
<1>5. /\ CopyIsGood(stored', grant', ticked') /\ stored'.token # "previous"
      /\ HasToken(stored) => HasToken(stored')
  <2>1. stored \in Copies /\ CopyIsGood(stored, grant, ticked)
    BY DEF AccessTypes, CopyOK, GrantIsKept
  <2> QED
    BY <1>1, <1>3, <2>1, NothingPending
<1>6. ~Exchanging
  BY <1>1, NothingPending DEF Exchanging
<1> QED
  BY <1>1, <1>2, <1>4, <1>5, <1>6 DEF GrantIsKept

LEMMA ScopesKeepGrant ==
    ASSUME AccessTypes, GrantIsKept, ChangeScopes
    PROVE  GrantIsKept'
<1>1. PICK s \in Scopes : grant' = [grant EXCEPT !.scope = s] /\ Send("scopes", s)
  BY DEF ChangeScopes
<1>2. grant'.age = grant.age /\ UNCHANGED <<stored, op, ticked>>
  BY <1>1 DEF ChangeScopes, AccessTypes
<1>3. \A w \in sent' : w.topic = "scopes"
  BY <1>1 DEF GrantIsKept, Send
<1>4. \A c : CopyIsGood(c, grant, ticked) => CopyIsGood(c, grant', ticked')
  BY <1>2 DEF CopyIsGood
<1>5. \A q : OpIsGood(q, grant, ticked) => OpIsGood(q, grant', ticked')
  BY <1>2, <1>4 DEF OpIsGood
<1> QED
  BY <1>2, <1>3, <1>4, <1>5 DEF GrantIsKept, Exchanging

LEMMA AccessInvInit == AccessInit => AccessInv
<1> SUFFICES ASSUME AccessInit PROVE AccessInv
  OBVIOUS
<1>1. /\ op = [o \in Ops |-> Idle0] /\ sent = {} /\ ticked = FALSE /\ turns = 0
      /\ \A o \in Ops : op[o] = Idle0
  BY DEF AccessInit
<1>2. OpsOK(op, grant)
  BY <1>1, IdleIsOK DEF OpsOK
<1>3. sent \subseteq [topic : {"scopes", "uninstalled", "redact"}, scope : Scopes]
      /\ turns \in 0..MaxTurns
  BY <1>1, AccessAssumption
<1>4. CASE /\ plain = TRUE /\ stored = NoSession /\ row = "none"
           /\ grant = [installed |-> TRUE, scope |-> "full", age |-> "none"]
  <2>1. AccessTypes
    <3>1. CopyOK(stored, grant)
      BY <1>4, CopyShapes DEF CopyOK
    <3>2. grant \in [installed : BOOLEAN, scope : Scopes, age : Ages \cup {"none"}]
      BY <1>4 DEF Scopes
    <3> QED
      BY <1>1, <1>2, <1>3, <1>4, <3>1, <3>2 DEF AccessTypes
  <2>2. GrantIsKept
    BY <1>1, <1>4, DoneIsGood, CopyShapes DEF GrantIsKept, CopyIsGood
  <2> QED
    BY <2>1, <2>2 DEF AccessInv
<1>5. CASE /\ plain = FALSE /\ row = "active"
           /\ stored = [token |-> "newest", scope |-> "full", age |-> "permanent"]
           /\ grant = [installed |-> TRUE, scope |-> "full", age |-> "permanent"]
  <2>1. CopyOK(stored, grant)
    BY <1>5 DEF CopyOK, Copies, Sessions, Scopes, Ages
  <2>2. AccessTypes
    <3>1. grant \in [installed : BOOLEAN, scope : Scopes, age : Ages \cup {"none"}]
      BY <1>5 DEF Scopes, Ages
    <3> QED
      BY <1>1, <1>2, <1>3, <1>5, <2>1, <3>1 DEF AccessTypes
  <2> QED
    BY <1>5, <2>2 DEF AccessInv
<1> QED
  BY <1>4, <1>5 DEF AccessInit

\* A step that leaves the token only refreshed, and the app installed, found it so.
LEMMA PlainBefore ==
    ASSUME AccessTypes, [AccessNext]_avars, plain', grant'.installed
    PROVE  plain /\ grant.installed /\ ~Install /\ ~Uninstall /\ ~SendRedact
<1>1. grant \in [installed : BOOLEAN, scope : Scopes, age : Ages \cup {"none"}]
  BY DEF AccessTypes
<1>2. Issued.installed = grant.installed
  BY <1>1 DEF Issued
<1>3. ~Install /\ ~Uninstall /\ ~SendRedact
  BY <1>1 DEF Install, Uninstall, SendRedact
<1>4. CASE UNCHANGED avars
  BY <1>3, <1>4 DEF avars
<1>5. CASE Tick \/ ChangeScopes
  BY <1>1, <1>3, <1>5 DEF Tick, ChangeScopes
<1>6. ASSUME NEW o \in Ops, OpenApp(o) \/ StartJob(o) \/ Deliver(o)
      PROVE  plain /\ grant.installed
  BY <1>6, Beginnings DEF Begin
<1>7. ASSUME NEW o \in Ops, Works(o)
      PROVE  plain /\ grant.installed
  <2>1. CASE Loads(o) \/ Opens(o) \/ Saves(o) \/ Handles(o)
    BY <2>1 DEF Loads, ensureUsableToken, Reread, Keep, Opens, KeepNew, ensureProvisioned,
                createWithDefaults, Revive, Saves, refreshRejectedSession, deleteShopSessions,
                Handles, Forget, Mark, Rescope, Quiet
  <2>2. CASE Answers(o)
    BY <1>2, <2>2 DEF Answers, Renew, forceRefresh, Spend, Exchange, CallAnswers, CallRetried, CallRefused, Quiet
  <2>3. CASE Fails(o)
    BY <1>2, <2>3 DEF Fails, RenewFails, ExchangeFails, CallFails, forceRefreshFails, SpendLost, Failed
  <2> QED
    BY <1>7, <2>1, <2>2, <2>3 DEF Works
<1> QED
  BY <1>3, <1>4, <1>5, <1>6, <1>7 DEF AccessNext

LEMMA AccessInvNext ==
    ASSUME AccessInv, [AccessNext]_avars
    PROVE  AccessInv'
<1>1. AccessTypes /\ AccessTypes'
  BY AccessTypesNext DEF AccessInv
<1>2. ASSUME plain', grant'.installed
      PROVE  GrantIsKept'
  <2>1. GrantIsKept /\ ~Install /\ ~Uninstall /\ ~SendRedact
    BY <1>1, <1>2, PlainBefore DEF AccessInv
  <2>2. CASE UNCHANGED avars
    BY <2>1, <2>2 DEF avars, GrantIsKept, Exchanging
  <2>3. ASSUME NEW o \in Ops, OpenApp(o) \/ StartJob(o) \/ Deliver(o)
        PROVE  GrantIsKept'
    BY <1>1, <2>1, <2>3, BeginKeepsGrant
  <2>4. ASSUME NEW o \in Ops, Works(o)
        PROVE  GrantIsKept'
    BY <1>1, <1>2, <2>1, <2>4, LoadsKeepGrant, OpensKeepGrant, SavesKeepGrant, HandlesKeepGrant,
       AnswersKeepGrant, FailsKeepGrant DEF Works
  <2> QED
    BY <1>1, <2>1, <2>2, <2>3, <2>4, TickKeepsGrant, ScopesKeepGrant DEF AccessNext
<1> QED
  BY <1>1, <1>2 DEF AccessInv

LEMMA AccessInvGives == AccessInv => AccessTypeOK /\ KeepsGrant
  BY AccessTypesGive DEF AccessInv, GrantIsKept, KeepsGrant

-----------------------------------------------------------------------------
(* The configuration a storefront is served                                 *)

Saving(steps) == {w \in Writers : writer[w].at \in steps}

ToWrite == Cardinality(Saving({"write"}))
ToDrop == Cardinality(Saving({"write", "drop"}))

\* A save raises each counter once at most, and the tag once.
WithinSaves == /\ shop.settings + ToWrite <= saves
               /\ parts + ToWrite <= saves
               /\ tag + ToDrop <= saves

Covers(config, owing) == config.settings >= owing.settings /\ config.parts >= owing.parts
SameDebt(a, b) == a.settings = b.settings /\ a.parts = b.parts

\* What is owed has been saved, and what is cached under the tag covers it.
DebtIsSaved ==
    /\ owed.settings <= shop.settings /\ owed.parts <= parts
    /\ \A v \in Versions : v > tag => entry[v] = NoEntry
    /\ entry[tag] # NoEntry /\ entry[tag].active => Covers(entry[tag], owed)

\* A request is owed no more than what is owed now, the same as any that read
\* the same version of the tag; and what it found or built so far covers that.
RequestIsCovered(r) ==
    LET q == reader[r] IN
    /\ q.key <= tag
    /\ q.owed.settings <= owed.settings /\ q.owed.parts <= owed.parts
    /\ q.key = tag => SameDebt(q.owed, owed)
    /\ q.at = "lookup" /\ entry[q.key] # NoEntry /\ entry[q.key].active
         => Covers(entry[q.key], q.owed)
    /\ q.at \in {"parts", "keep", "served"} /\ q.config.active
         => q.config.settings >= q.owed.settings
    /\ q.at \in {"keep", "served"} /\ q.config.active => q.config.parts >= q.owed.parts

Under(r) == reader[r].at # "idle"

RecentInv ==
    /\ DebtIsSaved
    /\ \A r \in Readers : Under(r) => RequestIsCovered(r)
    /\ \A r, q \in Readers :
          Under(r) /\ Under(q) /\ reader[r].key = reader[q].key
            => SameDebt(reader[r].owed, reader[q].owed)

CacheInv == CacheTypeOK /\ WithinSaves /\ (~lost => RecentInv)

LEMMA SavingIsFinite ==
    ASSUME NEW S
    PROVE  IsFiniteSet(Saving(S)) /\ Cardinality(Saving(S)) \in Nat
    BY CacheAssumption, FS_Subset, FS_CardinalityType DEF Saving

LEMMA CacheInvInit == CacheInit => CacheInv
<1> SUFFICES ASSUME CacheInit PROVE CacheInv
  OBVIOUS
<1> USE CacheAssumption DEF CacheInit
<1>1. Saving({"write"}) = {} /\ Saving({"write", "drop"}) = {} /\ Cardinality({}) = 0
  BY FS_EmptySet DEF Saving
<1>2. CacheTypeOK
  <2>1. 0 \in Versions /\ 0 \in 0..MaxSaves
    BY DEF Versions
  <2>2. Blank \in Configs /\ owed \in Owes /\ Blank \in Owes
    BY <2>1 DEF Configs, Blank, Owes
  <2>3. entry \in [Versions -> Configs \cup {NoEntry}]
    OBVIOUS
  <2>4. shop \in [active : BOOLEAN, settings : Versions]
    BY <2>1
  <2> QED
    BY <2>1, <2>2, <2>3, <2>4 DEF CacheTypeOK, IdleReader
<1>3. WithinSaves
  BY <1>1 DEF WithinSaves, ToWrite, ToDrop
<1>4. RecentInv
  BY DEF RecentInv, DebtIsSaved, Under, IdleReader, Versions
<1> QED
  BY <1>2, <1>3, <1>4 DEF CacheInv

\* A request changes its own record and what is cached, and nothing that is saved.
LEMMA ReadKeepsWithin ==
    ASSUME WithinSaves, UNCHANGED <<shop, parts, tag, writer, saves>>
    PROVE  WithinSaves'
    BY DEF WithinSaves, ToWrite, ToDrop, Saving

ReaderType == [at : {"idle", "lookup", "shop", "parts", "keep", "served"},
               key : Versions, config : Configs, owed : Owes]

LEMMA ReadKeepsTypes ==
    ASSUME CacheTypeOK, NEW r \in Readers, Reads(r)
    PROVE  CacheTypeOK'
<1>1. /\ UNCHANGED <<shop, parts, tag, writer, owed, saves>>
      /\ lost' \in BOOLEAN
      /\ entry' \in [Versions -> Configs \cup {NoEntry}]
  BY DEF Reads, currentTagVersion, Hit, Miss, findShopForStorefront, buildConfig, Remember,
         Answered, Saved, Reading, CacheTypeOK
<1>2. reader' \in [Readers -> ReaderType]
  <2> DEFINE q == reader[r]
  <2>1. /\ reader \in [Readers -> ReaderType] /\ q \in ReaderType
        /\ q.key \in Versions /\ q.config \in Configs /\ q.owed \in Owes
        /\ tag \in Versions /\ owed \in Owes /\ parts \in Versions
        /\ shop.settings \in Versions /\ shop.active \in BOOLEAN
        /\ entry[q.key] \in Configs \cup {NoEntry}
    BY DEF CacheTypeOK, ReaderType
  <2>2. Blank \in Configs /\ Blank \in Owes /\ 0 \in Versions
    BY CacheAssumption DEF Blank, Configs, Owes, Versions
  <2>3. IdleReader \in ReaderType
    BY <2>2 DEF IdleReader, ReaderType
  <2>4. ASSUME NEW c \in Configs, NEW at \in {"lookup", "shop", "parts", "keep", "served"}
        PROVE  [q EXCEPT !.at = at, !.config = c] \in ReaderType /\ [q EXCEPT !.at = at] \in ReaderType
    BY <2>1 DEF ReaderType
  <2>5. CASE currentTagVersion(r)
    <3>1. \A key \in Versions : [IdleReader EXCEPT !.at = "lookup", !.key = key, !.owed = owed] \in ReaderType
      BY <2>1, <2>3 DEF ReaderType
    <3>2. [IdleReader EXCEPT !.at = "lookup", !.owed = owed] \in ReaderType
      BY <2>1, <2>3 DEF ReaderType
    <3> HIDE DEF q
    <3> QED
      BY <2>1, <2>5, <3>1, <3>2 DEF currentTagVersion
  <2>6. CASE Hit(r)
    <3>1. reader' = [reader EXCEPT ![r] = [q EXCEPT !.at = "served", !.config = entry[q.key]]]
      BY <2>1, <2>6 DEF Hit
    <3>2. entry[q.key] \in Configs
      BY <2>1, <2>6 DEF Hit
    <3> HIDE DEF q
    <3> QED
      BY <2>1, <2>4, <3>1, <3>2
  <2>7. CASE Miss(r) \/ Remember(r)
    <3>1. reader' = [reader EXCEPT ![r] = [q EXCEPT !.at = "shop"]]
          \/ reader' = [reader EXCEPT ![r] = [q EXCEPT !.at = "served"]]
      BY <2>1, <2>7 DEF Miss, Remember, Reading
    <3> HIDE DEF q
    <3> QED
      BY <2>1, <2>2, <2>4, <3>1
  <2>8. CASE findShopForStorefront(r)
    <3> DEFINE c == IF shop.active THEN [Blank EXCEPT !.active = TRUE, !.settings = shop.settings]
                    ELSE Blank
    <3>1. c \in Configs
      BY <2>1, <2>2 DEF Configs
    <3>2. \E at \in {"parts", "keep"} : reader' = [reader EXCEPT ![r] = [q EXCEPT !.at = at, !.config = c]]
      BY <2>1, <2>8 DEF findShopForStorefront
    <3>3. ASSUME NEW at \in {"parts", "keep"}
          PROVE  [q EXCEPT !.at = at, !.config = c] \in ReaderType
      <4> HIDE DEF q, c
      <4> QED
        BY <2>4, <3>1
    <3> HIDE DEF q, c
    <3> QED
      BY <2>1, <3>2, <3>3
  <2>9. CASE buildConfig(r)
    <3> DEFINE c == [q.config EXCEPT !.parts = parts]
    <3>1. c \in Configs
      BY <2>1 DEF Configs
    <3>2. reader' = [reader EXCEPT ![r] = [q EXCEPT !.at = "keep", !.config = c]]
      BY <2>1, <2>9 DEF buildConfig
    <3>3. [q EXCEPT !.at = "keep", !.config = c] \in ReaderType
      <4> HIDE DEF q, c
      <4> QED
        BY <2>4, <3>1
    <3> HIDE DEF q, c
    <3> QED
      BY <2>1, <3>2, <3>3
  <2>10. CASE Answered(r)
    BY <2>1, <2>3, <2>10 DEF Answered
  <2> QED
    BY <2>5, <2>6, <2>7, <2>8, <2>9, <2>10 DEF Reads
<1> QED
  BY <1>1, <1>2 DEF CacheTypeOK, ReaderType

\* A request's step leaves what is saved, and the other requests, alone.
LEMMA ReadChangesOne ==
    ASSUME CacheTypeOK, NEW r \in Readers, Reads(r)
    PROVE  /\ UNCHANGED <<shop, parts, tag, owed>>
           /\ \A p \in Readers \ {r} : reader'[p] = reader[p]
    BY DEF CacheTypeOK, Reads, currentTagVersion, Hit, Miss, findShopForStorefront, buildConfig, Remember,
           Answered, Saved, Reading

\* The types, as numbers.
LEMMA CacheNumbers ==
    ASSUME CacheTypeOK
    PROVE  /\ tag \in Nat /\ shop.settings \in Nat /\ parts \in Nat
           /\ owed.settings \in Nat /\ owed.parts \in Nat
           /\ \A v \in Versions : v \in Nat
           /\ \A r \in Readers : /\ reader[r].key \in Versions /\ reader[r].key \in Nat
                                 /\ reader[r].owed.settings \in Nat /\ reader[r].owed.parts \in Nat
                                 /\ reader[r].config.settings \in Nat
                                 /\ reader[r].config.parts \in Nat
    BY CacheAssumption DEF CacheTypeOK, Versions, Owes, Configs

\* What a request holds, found or built is covered, and so is what it caches.
LEMMA ReadIsCovered ==
    ASSUME CacheTypeOK, RecentInv, NEW r \in Readers, Reads(r), ~currentTagVersion(r), ~lost'
    PROVE  /\ Under(r) /\ (Under(r)' => RequestIsCovered(r)')
           /\ Under(r)' => reader'[r].key = reader[r].key /\ reader'[r].owed = reader[r].owed
<1> DEFINE q == reader[r]
<1>1. /\ UNCHANGED <<shop, parts, tag, owed>> /\ Under(r)
      /\ Under(r)' => reader'[r].key = q.key /\ reader'[r].owed = q.owed
  BY DEF CacheTypeOK, Under, Reads, Hit, Miss, findShopForStorefront, buildConfig, Remember,
         Answered, Saved, Reading, IdleReader
<1>2. RequestIsCovered(r) /\ DebtIsSaved
  BY <1>1 DEF RecentInv
<1> USE CacheNumbers DEF Covers, SameDebt, CacheTypeOK, Saved, Reading
<1>3. CASE Hit(r)
  BY <1>1, <1>2, <1>3 DEF Hit, RequestIsCovered
<1>4. CASE Miss(r)
  BY <1>1, <1>2, <1>4 DEF Miss, RequestIsCovered
<1>5. CASE findShopForStorefront(r)
  <2>1. shop.settings >= q.owed.settings
    BY <1>2 DEF RequestIsCovered, DebtIsSaved
  <2> QED
    BY <1>1, <1>2, <1>5, <2>1 DEF findShopForStorefront, RequestIsCovered, Blank
<1>6. CASE buildConfig(r)
  <2>1. parts >= q.owed.parts
    BY <1>2 DEF RequestIsCovered, DebtIsSaved
  <2> QED
    BY <1>1, <1>2, <1>6, <2>1 DEF buildConfig, RequestIsCovered
<1>7. CASE Remember(r)
  BY <1>1, <1>2, <1>7 DEF Remember, RequestIsCovered
<1>8. CASE Answered(r)
  BY <1>8 DEF Answered, IdleReader, Under
<1> QED
  BY <1>1, <1>3, <1>4, <1>5, <1>6, <1>7, <1>8 DEF Reads

LEMMA BeginsCovered ==
    ASSUME CacheTypeOK, RecentInv, NEW r \in Readers, currentTagVersion(r), ~lost'
    PROVE  /\ UNCHANGED entry /\ RequestIsCovered(r)'
           /\ reader'[r].key = tag /\ reader'[r].owed = owed
<1>1. /\ reader'[r].at = "lookup" /\ reader'[r].key = tag /\ reader'[r].owed = owed
      /\ UNCHANGED <<entry, tag, owed>>
  BY DEF currentTagVersion, IdleReader, Saved, CacheTypeOK
<1> QED
  BY <1>1, CacheNumbers DEF RequestIsCovered, RecentInv, DebtIsSaved, SameDebt

\* What is cached changes where a covered request keeps it.
LEMMA KeptIsCovered ==
    ASSUME CacheTypeOK, RecentInv, NEW r \in Readers, Remember(r), ~lost'
    PROVE  /\ DebtIsSaved'
           /\ \A p \in Readers \ {r} : Under(p) => RequestIsCovered(p)'
<1> DEFINE q == reader[r]
<1> USE CacheNumbers DEF CacheTypeOK, RecentInv
<1>1. /\ UNCHANGED <<shop, parts, tag, owed>> /\ Under(r) /\ q.at = "keep"
      /\ entry' = [entry EXCEPT ![q.key] = q.config]
      /\ \A p \in Readers \ {r} : reader'[p] = reader[p]
  BY DEF Remember, Under, Saved, Reading
<1>2. q.config.active => Covers(q.config, q.owed)
  BY <1>1 DEF RequestIsCovered, Covers
<1>3. DebtIsSaved'
  <2>1. q.key <= tag /\ (q.key = tag => SameDebt(q.owed, owed))
    BY <1>1 DEF RequestIsCovered
  <2>2. \A v \in Versions : v > tag => entry'[v] = NoEntry
    BY <1>1, <2>1 DEF DebtIsSaved
  <2>3. entry'[tag] # NoEntry /\ entry'[tag].active => Covers(entry'[tag], owed)
    BY <1>1, <1>2, <2>1 DEF DebtIsSaved, Covers, SameDebt
  <2> QED
    BY <1>1, <2>2, <2>3 DEF DebtIsSaved, Covers
<1>4. ASSUME NEW p \in Readers \ {r}, Under(p)
      PROVE  RequestIsCovered(p)'
  <2>1. RequestIsCovered(p) /\ (reader[p].key = q.key => SameDebt(reader[p].owed, q.owed))
    BY <1>1, <1>4
  <2>2. /\ UNCHANGED <<tag, owed>> /\ reader'[p] = reader[p]
    BY <1>1
  <2>3. reader[p].at = "lookup" /\ entry'[reader[p].key] # NoEntry /\ entry'[reader[p].key].active
          => Covers(entry'[reader[p].key], reader[p].owed)
    BY <1>1, <1>2, <2>1 DEF RequestIsCovered, Covers, SameDebt
  <2> QED
    BY <2>1, <2>2, <2>3 DEF RequestIsCovered, Covers
<1> QED
  BY <1>3, <1>4

LEMMA ReadKeepsRecent ==
    ASSUME CacheTypeOK, RecentInv, NEW r \in Readers, Reads(r), ~lost'
    PROVE  RecentInv'
<1>1. /\ UNCHANGED <<shop, parts, tag, owed>>
      /\ \A p \in Readers \ {r} : reader'[p] = reader[p]
  BY ReadChangesOne
<1>2. Under(r)' => RequestIsCovered(r)'
  BY ReadIsCovered, BeginsCovered
<1>3. DebtIsSaved' /\ \A p \in Readers \ {r} : Under(p)' => RequestIsCovered(p)'
  <2>1. CASE Remember(r)
    BY <1>1, <2>1, KeptIsCovered DEF Under
  <2>2. CASE UNCHANGED entry
    BY <1>1, <2>2 DEF RecentInv, DebtIsSaved, RequestIsCovered, Under
  <2> QED
    BY <2>1, <2>2 DEF Reads, currentTagVersion, Hit, Miss, findShopForStorefront, buildConfig,
                      Answered
<1>4. ASSUME NEW p \in Readers, Under(r)', Under(p)', reader'[r].key = reader'[p].key
      PROVE  SameDebt(reader'[r].owed, reader'[p].owed)
  <2>1. CASE p = r
    BY <2>1 DEF SameDebt
  <2>2. CASE p # r
    <3>1. reader'[p] = reader[p] /\ Under(p)
      BY <1>1, <1>4, <2>2 DEF Under
    <3>2. CASE currentTagVersion(r)
      <4>1. reader[p].key = tag
        BY <1>4, <3>1, <3>2, BeginsCovered
      <4> QED
        BY <3>1, <3>2, <4>1, BeginsCovered DEF RecentInv, RequestIsCovered, SameDebt
    <3>3. CASE ~currentTagVersion(r)
      BY <1>4, <3>1, <3>3, ReadIsCovered DEF RecentInv
    <3> QED
      BY <3>2, <3>3
  <2> QED
    BY <2>1, <2>2
<1>5. ASSUME NEW p \in Readers, NEW t \in Readers, Under(t)', Under(p)', reader'[t].key = reader'[p].key
      PROVE  SameDebt(reader'[t].owed, reader'[p].owed)
  <2>1. CASE t # r /\ p # r
    BY <1>1, <1>5, <2>1 DEF RecentInv, Under
  <2> QED
    BY <1>4, <1>5, <2>1 DEF SameDebt
<1> QED
  BY <1>2, <1>3, <1>5 DEF RecentInv

WriterType == [at : {"idle", "write", "drop", "erase"},
               what : {"none", "settings", "parts", "uninstall"}]

\* The saves under way when writer w comes to a step, or leaves it.
LEMMA SavingMoves ==
    ASSUME writer \in [Writers -> WriterType], NEW w \in Writers, NEW S, NEW new,
           writer' = [writer EXCEPT ![w] = new]
    PROVE  /\ writer[w].at \in S /\ new.at \in S => Saving(S)' = Saving(S)
           /\ writer[w].at \notin S /\ new.at \notin S => Saving(S)' = Saving(S)
           /\ writer[w].at \notin S /\ new.at \in S =>
                Cardinality(Saving(S)') = Cardinality(Saving(S)) + 1
           /\ writer[w].at \in S /\ new.at \notin S =>
                /\ Cardinality(Saving(S)) > 0
                /\ Cardinality(Saving(S)') = Cardinality(Saving(S)) - 1
<1>1. writer[w].at \notin S /\ new.at \in S => Saving(S)' = Saving(S) \cup {w} /\ w \notin Saving(S)
  BY DEF Saving
<1>2. writer[w].at \in S /\ new.at \notin S => Saving(S)' = Saving(S) \ {w} /\ w \in Saving(S)
  BY DEF Saving
<1>3. w \notin Saving(S) => Cardinality(Saving(S) \cup {w}) = Cardinality(Saving(S)) + 1
  BY SavingIsFinite, FS_AddElement
<1>4. w \in Saving(S) => /\ Cardinality(Saving(S) \ {w}) = Cardinality(Saving(S)) - 1
                         /\ Cardinality(Saving(S)) > 0
  <2>1. Cardinality(Saving(S)) \in Nat
    BY SavingIsFinite
  <2>2. w \in Saving(S) => Cardinality(Saving(S)) # 0
    BY SavingIsFinite, FS_EmptySet
  <2>3. w \in Saving(S) => Cardinality(Saving(S) \ {w}) = Cardinality(Saving(S)) - 1
    BY SavingIsFinite, FS_RemoveElement
  <2> QED
    BY <2>1, <2>2, <2>3
<1>5. \/ writer[w].at \in S /\ new.at \in S
      \/ writer[w].at \notin S /\ new.at \notin S
      => Saving(S)' = Saving(S)
  BY DEF Saving
<1> QED
  BY <1>1, <1>2, <1>3, <1>4, <1>5

\* Which of the counts of saves under way a step of a save changes.
LEMMA CountsMove ==
    ASSUME CacheTypeOK, NEW w \in Writers, NEW new \in WriterType,
           writer' = [writer EXCEPT ![w] = new]
    PROVE  /\ writer' \in [Writers -> WriterType]
           /\ ToWrite \in Nat /\ ToDrop \in Nat
           /\ writer[w].at = "idle" /\ new.at = "write" => ToWrite' = ToWrite + 1 /\ ToDrop' = ToDrop + 1
           /\ writer[w].at = "idle" /\ new.at = "drop" => ToWrite' = ToWrite /\ ToDrop' = ToDrop + 1
           /\ writer[w].at = "write" /\ new.at = "drop"
                => ToWrite > 0 /\ ToWrite' = ToWrite - 1 /\ ToDrop' = ToDrop
           /\ writer[w].at = "drop" /\ new.at \in {"idle", "erase"}
                => ToDrop > 0 /\ ToWrite' = ToWrite /\ ToDrop' = ToDrop - 1
           /\ writer[w].at = "erase" /\ new.at = "idle" => ToWrite' = ToWrite /\ ToDrop' = ToDrop
<1>1. writer \in [Writers -> WriterType]
  BY DEF CacheTypeOK, WriterType
<1>2. writer' \in [Writers -> WriterType]
  BY <1>1
<1>3. ToWrite \in Nat /\ ToDrop \in Nat
  BY SavingIsFinite DEF ToWrite, ToDrop
<1>4. /\ writer[w].at = "write" /\ new.at # "write" => ToWrite > 0 /\ ToWrite' = ToWrite - 1
      /\ writer[w].at # "write" /\ new.at = "write" => ToWrite' = ToWrite + 1
      /\ writer[w].at # "write" /\ new.at # "write" => ToWrite' = ToWrite
  <2> DEFINE S == {"write"}
  <2>1. ToWrite = Cardinality(Saving(S)) /\ ToWrite' = Cardinality(Saving(S)')
    BY DEF ToWrite
  <2> HIDE DEF S
  <2>2. /\ writer[w].at \in S /\ new.at \notin S => ToWrite > 0 /\ ToWrite' = ToWrite - 1
        /\ writer[w].at \notin S /\ new.at \in S => ToWrite' = ToWrite + 1
        /\ writer[w].at \notin S /\ new.at \notin S => ToWrite' = ToWrite
    BY <1>1, <2>1, SavingMoves
  <2> QED
    BY <2>2 DEF S
<1>5. /\ writer[w].at \in {"write", "drop"} /\ new.at \notin {"write", "drop"}
            => ToDrop > 0 /\ ToDrop' = ToDrop - 1
      /\ writer[w].at \notin {"write", "drop"} /\ new.at \in {"write", "drop"} => ToDrop' = ToDrop + 1
      /\ writer[w].at \in {"write", "drop"} /\ new.at \in {"write", "drop"} => ToDrop' = ToDrop
      /\ writer[w].at \notin {"write", "drop"} /\ new.at \notin {"write", "drop"} => ToDrop' = ToDrop
  <2> DEFINE S == {"write", "drop"}
  <2>2. ToDrop = Cardinality(Saving(S)) /\ ToDrop' = Cardinality(Saving(S)')
    BY DEF ToDrop
  <2> HIDE DEF S
  <2>3. /\ writer[w].at \in S /\ new.at \notin S => ToDrop > 0 /\ ToDrop' = ToDrop - 1
        /\ writer[w].at \notin S /\ new.at \in S => ToDrop' = ToDrop + 1
        /\ writer[w].at \in S /\ new.at \in S => ToDrop' = ToDrop
        /\ writer[w].at \notin S /\ new.at \notin S => ToDrop' = ToDrop
    BY <1>1, <2>2, SavingMoves
  <2> QED
    BY <2>3 DEF S
<1>6. writer[w].at = "write" /\ new.at = "drop" => ToDrop' = ToDrop
  BY <1>5
<1>7. writer[w].at = "idle" /\ new.at \in {"write", "drop"} => ToDrop' = ToDrop + 1
  BY <1>5
<1>8. writer[w].at = "drop" /\ new.at \in {"idle", "erase"} => ToDrop > 0 /\ ToDrop' = ToDrop - 1
  BY <1>5
<1>9. writer[w].at = "erase" /\ new.at = "idle" => ToDrop' = ToDrop
  BY <1>5
<1> HIDE DEF WriterType
<1> QED
  BY <1>2, <1>3, <1>4, <1>6, <1>7, <1>8, <1>9

LEMMA WriteKeepsTypes ==
    ASSUME CacheTypeOK, WithinSaves, NEW w \in Writers, Writes(w)
    PROVE  CacheTypeOK' /\ WithinSaves'
<1>1. /\ writer \in [Writers -> WriterType] /\ writer[w] \in WriterType
      /\ shop \in [active : BOOLEAN, settings : Versions]
      /\ shop.settings \in Nat /\ parts \in Nat /\ tag \in Nat /\ saves \in Nat
      /\ saves <= MaxSaves /\ MaxSaves \in Nat
  BY CacheNumbers, CacheAssumption DEF CacheTypeOK, WriterType
<1>2. /\ shop.settings + ToWrite <= saves /\ parts + ToWrite <= saves /\ tag + ToDrop <= saves
  BY DEF WithinSaves
<1>3. CASE BeginSave(w)
  <2>1. PICK new \in WriterType :
           /\ writer' = [writer EXCEPT ![w] = new]
           /\ new.at = "write" \/ new.at = "drop"
    BY <1>3 DEF BeginSave, WriterType
  <2>2. /\ saves' = saves + 1 /\ saves < MaxSaves /\ writer[w].at = "idle"
        /\ UNCHANGED <<shop, parts, tag, owed, lost, entry, reader>>
    BY <1>3 DEF BeginSave, Served
  <2>3. /\ writer' \in [Writers -> WriterType] /\ ToWrite \in Nat /\ ToDrop \in Nat
        /\ ToWrite' = ToWrite \/ ToWrite' = ToWrite + 1
        /\ ToDrop' = ToDrop + 1
    BY <2>1, <2>2, CountsMove
  <2>4. saves' \in 0..MaxSaves
    BY <1>1, <2>2
  <2>5. /\ shop'.settings + ToWrite' <= saves' /\ parts' + ToWrite' <= saves'
        /\ tag' + ToDrop' <= saves'
    BY <1>1, <1>2, <2>2, <2>3
  <2> QED
    BY <2>2, <2>3, <2>4, <2>5 DEF CacheTypeOK, WriterType, WithinSaves
<1>4. CASE Save(w)
  <2> DEFINE new == [writer[w] EXCEPT !.at = "drop"]
  <2>1. new \in WriterType /\ new.at = "drop" /\ writer[w].at = "write"
        /\ writer' = [writer EXCEPT ![w] = new]
    BY <1>1, <1>4 DEF Save, WriterType
  <2> HIDE DEF new
  <2>2. /\ writer' \in [Writers -> WriterType] /\ ToWrite \in Nat /\ ToDrop \in Nat
        /\ ToWrite > 0 /\ ToWrite' = ToWrite - 1 /\ ToDrop' = ToDrop
    BY <2>1, CountsMove
  <2>3. /\ \/ shop' = [shop EXCEPT !.settings = shop.settings + 1] /\ parts' = parts
           \/ shop' = shop /\ parts' = parts + 1
        /\ UNCHANGED <<tag, owed, lost, saves, entry, reader>>
    BY <1>4 DEF Save, Served
  <2>4. shop'.settings \in {shop.settings, shop.settings + 1} /\ parts' \in {parts, parts + 1}
    BY <1>1, <2>3
  <2>5. /\ shop'.settings + ToWrite' <= saves' /\ parts' + ToWrite' <= saves'
        /\ tag' + ToDrop' <= saves'
    BY <1>1, <1>2, <2>2, <2>3, <2>4
  <2>6. shop.settings + 1 \in Versions /\ parts' \in Versions
    BY <1>1, <1>2, <2>2, <2>4 DEF Versions
  <2>7. shop' \in [active : BOOLEAN, settings : Versions]
    BY <1>1, <2>3, <2>6
  <2> QED
    BY <2>2, <2>3, <2>5, <2>6, <2>7 DEF CacheTypeOK, WriterType, WithinSaves
<1>5. CASE invalidateTag(w)
  <2> DEFINE new == IF writer[w].what = "uninstall" THEN [writer[w] EXCEPT !.at = "erase"]
                    ELSE [at |-> "idle", what |-> "none"]
  <2>1. new \in WriterType /\ new.at \in {"idle", "erase"} /\ writer[w].at = "drop"
        /\ writer' = [writer EXCEPT ![w] = new]
    BY <1>1, <1>5 DEF invalidateTag, WriterType
  <2> HIDE DEF new
  <2>2. /\ writer' \in [Writers -> WriterType] /\ ToWrite \in Nat /\ ToDrop \in Nat
        /\ ToDrop > 0 /\ ToWrite' = ToWrite /\ ToDrop' = ToDrop - 1
    BY <2>1, CountsMove
  <2>3. tag' \in {tag, tag + 1} /\ lost' \in BOOLEAN
        /\ UNCHANGED <<shop, parts, saves, entry, reader>>
    BY <1>5 DEF invalidateTag, Served, CacheTypeOK
  <2>4. /\ shop'.settings + ToWrite' <= saves' /\ parts' + ToWrite' <= saves'
        /\ tag' + ToDrop' <= saves'
    <3>1. shop'.settings = shop.settings /\ parts' = parts /\ saves' = saves
      BY <2>3
    <3>2. tag' + ToDrop' <= saves'
      <4>1. tag \in Nat /\ saves \in Nat /\ ToDrop \in Nat /\ tag + ToDrop <= saves /\ saves' = saves
        BY <1>1, <1>2, <2>2, <3>1
      <4>2. ToDrop' = ToDrop - 1 /\ (tag' = tag \/ tag' = tag + 1)
        BY <2>2, <2>3
      <4> QED
        BY <4>1, <4>2
    <3> QED
      BY <1>2, <2>2, <3>1, <3>2
  <2>5. tag' \in Versions
    BY <1>1, <1>2, <2>2, <2>3 DEF Versions
  <2>6. owed' \in Owes
    BY <1>5 DEF invalidateTag, CacheTypeOK, Owes
  <2> QED
    BY <2>2, <2>3, <2>4, <2>5, <2>6 DEF CacheTypeOK, WriterType, WithinSaves
<1>6. CASE markUninstalled(w)
  <2> DEFINE new == [at |-> "idle", what |-> "none"]
  <2>1. new \in WriterType /\ new.at = "idle" /\ writer[w].at = "erase"
        /\ writer' = [writer EXCEPT ![w] = new]
    BY <1>6 DEF markUninstalled, WriterType
  <2> HIDE DEF new
  <2>2. writer' \in [Writers -> WriterType] /\ ToWrite' = ToWrite /\ ToDrop' = ToDrop
    BY <2>1, CountsMove
  <2>3. /\ shop' \in [active : BOOLEAN, settings : Versions] /\ shop'.settings = shop.settings
        /\ owed' \in Owes
        /\ UNCHANGED <<parts, tag, lost, saves, entry, reader>>
    BY <1>1, <1>6 DEF markUninstalled, Served, CacheTypeOK, Owes
  <2> QED
    BY <1>2, <2>2, <2>3 DEF CacheTypeOK, WriterType, WithinSaves
<1> QED
  BY <1>3, <1>4, <1>5, <1>6 DEF Writes

\* A save that is answered has moved the tag, and nothing is cached under the new one.
LEMMA WriteKeepsRecent ==
    ASSUME CacheTypeOK, CacheTypeOK', RecentInv, NEW w \in Writers, Writes(w), ~lost'
    PROVE  RecentInv'
<1>1. /\ UNCHANGED <<entry, reader>>
      /\ owed.settings <= owed'.settings /\ owed.parts <= owed'.parts
      /\ owed'.settings <= shop'.settings /\ owed'.parts <= parts'
      /\ \/ tag' = tag /\ owed'.settings = owed.settings /\ owed'.parts = owed.parts
         \/ tag' = tag + 1
  BY CacheNumbers DEF Writes, BeginSave, Save, invalidateTag, markUninstalled, Served, CacheTypeOK,
                      RecentInv, DebtIsSaved, Owes
<1>2. /\ \A r \in Readers : Under(r)' <=> Under(r)
      /\ tag \in Nat /\ tag' \in Nat /\ tag' \in Versions
  BY <1>1, CacheNumbers DEF Under, CacheTypeOK, Versions
<1>3. DebtIsSaved'
  BY <1>1, <1>2, CacheNumbers DEF RecentInv, DebtIsSaved, Covers
<1>4. ASSUME NEW r \in Readers, Under(r)
      PROVE  RequestIsCovered(r)'
  <2>1. RequestIsCovered(r)
    BY <1>4 DEF RecentInv
  <2>2. owed'.settings \in Nat /\ owed'.parts \in Nat
    BY CacheAssumption DEF CacheTypeOK, Owes, Versions
  <2> QED
    BY <1>1, <1>2, <2>1, <2>2, CacheNumbers DEF RequestIsCovered, Covers, SameDebt
<1> QED
  BY <1>1, <1>2, <1>3, <1>4 DEF RecentInv

LEMMA CacheInvNext ==
    ASSUME CacheInv, [CacheNext]_kvars
    PROVE  CacheInv'
<1> USE DEF CacheInv
<1>1. lost => lost'
  BY DEF CacheNext, kvars, Reads, currentTagVersion, Hit, Miss, findShopForStorefront,
         buildConfig, Remember, Answered, Writes, BeginSave, Save, invalidateTag,
         markUninstalled, ExpireEntry, Saved, Served
<1>2. ASSUME NEW r \in Readers, Reads(r)
      PROVE  CacheInv'
  <2>1. WithinSaves'
    BY <1>2, ReadKeepsWithin
       DEF Reads, currentTagVersion, Hit, Miss, findShopForStorefront, buildConfig, Remember,
           Answered, Saved
  <2> QED
    BY <1>1, <1>2, <2>1, ReadKeepsTypes, ReadKeepsRecent
<1>3. ASSUME NEW w \in Writers, Writes(w)
      PROVE  CacheInv'
  BY <1>1, <1>3, WriteKeepsTypes, WriteKeepsRecent
<1>4. CASE ExpireEntry
  <2>1. PICK v \in Versions : entry' = [entry EXCEPT ![v] = NoEntry]
    BY <1>4 DEF ExpireEntry
  <2>2. UNCHANGED <<shop, parts, tag, reader, writer, owed, lost, saves>>
    BY <1>4 DEF ExpireEntry, Saved
  <2>3. CacheTypeOK' /\ WithinSaves'
    BY <2>1, <2>2, ReadKeepsWithin DEF CacheTypeOK
  <2>4. \A u \in Versions : entry'[u] # NoEntry => entry'[u] = entry[u] /\ entry[u] # NoEntry
    BY <2>1 DEF CacheTypeOK
  <2>5. ASSUME ~lost PROVE RecentInv'
    <3>1. DebtIsSaved'
      <4>1. tag \in Versions
        BY DEF CacheTypeOK
      <4> QED
        BY <2>2, <2>4, <2>5, <4>1 DEF RecentInv, DebtIsSaved
    <3>2. \A r \in Readers : Under(r)' => RequestIsCovered(r)'
      BY <2>2, <2>4, <2>5, CacheNumbers DEF RecentInv, RequestIsCovered, Under
    <3> QED
      BY <2>2, <2>5, <3>1, <3>2 DEF RecentInv, Under
  <2> QED
    BY <2>2, <2>3, <2>5
<1>5. CASE UNCHANGED kvars
  <2>1. CacheTypeOK' /\ WithinSaves'
    BY <1>5 DEF kvars, CacheTypeOK, WithinSaves, ToWrite, ToDrop, Saving
  <2>2. RecentInv => RecentInv'
    BY <1>5 DEF kvars, RecentInv, DebtIsSaved, RequestIsCovered, Under
  <2> QED
    BY <1>5, <2>1, <2>2 DEF kvars
<1> QED
  BY <1>2, <1>3, <1>4, <1>5 DEF CacheNext

\* A request that is served was covered when it was.
LEMMA CacheInvGives == CacheInv => ServedIsRecent
  BY DEF CacheInv, RecentInv, RequestIsCovered, Under, ServedIsRecent

-----------------------------------------------------------------------------
(* The forms a merchant builds                                              *)

TabArgs == FormNames \cup {"activate", "deactivate", "none"} \cup Arrangements \cup AForm
TabRecord == [job : {"none", "create", "duplicate", "update", "fields", "delete"},
              at : {"idle", "read", "write", "activate"},
              form : Forms \cup {"none"},
              arg : TabArgs]

\* What a request carries from one of its steps to the next. The form that was
\* installed is never the one a deletion found unprotected.
TabIsSound(q) ==
    /\ q.job # "none" => q.form \in Forms
    /\ q.job = "create" /\ q.at = "read" => q.arg \in FormNames
    /\ q.job \in {"create", "duplicate"} /\ q.at = "write"
         => /\ q.arg \in AForm /\ ~q.arg.active /\ q.arg.fields["phone"] # "absent"
    /\ q.job = "update" => q.arg \in FormNames \cup {"activate", "deactivate"}
    /\ q.job = "fields" => q.arg \in Arrangements /\ (q.at = "write" => Complete(q.arg))
    /\ q.job = "delete" /\ q.at = "write" => q.form # FirstForm

FormsAreSound ==
    /\ form \in [Forms -> AForm \cup {NoForm}]
    /\ tab \in [Tabs -> TabRecord]
    /\ \A t \in Tabs : TabIsSound(tab[t])
    /\ reinstalls \in Nat /\ collided \in BOOLEAN /\ edits \in 0..MaxEdits

\* Requests that counted the forms and have not created theirs.
Creating == {t \in Tabs : tab[t].job \in {"create", "duplicate"} /\ tab[t].at = "write"}

RoomIsKept ==
    Cardinality(Made) + Cardinality(Creating) <= FormLimit + Cardinality(Tabs) - 1 + reinstalls

FirstStays == FirstForm \in Made /\ form[FirstForm].default
OneStays == reinstalls = 0 /\ ~collided => \E a \in Made : Active = {a}

FormInv == FormsAreSound /\ HasPhone /\ FirstStays /\ OneStays /\ RoomIsKept

LEMMA FormSetsAreFinite ==
    /\ IsFiniteSet(Made) /\ Cardinality(Made) \in Nat
    /\ IsFiniteSet(Creating) /\ Cardinality(Creating) \in Nat
    /\ Cardinality(Creating) <= Cardinality(Tabs) /\ Cardinality(Tabs) \in Nat
    /\ FirstForm \in Forms
    BY FormAssumption, FS_Subset, FS_CardinalityType DEF Made, Creating, FirstForm

LEMMA FormShapes ==
    /\ DefaultFields \in [Keys -> Kinds] /\ DefaultFields["phone"] = "system"
    /\ NoForm \notin AForm /\ DefaultForm \in AForm
    /\ \A name \in FormNames, fields \in [Keys -> Kinds] : FreshForm(name, fields) \in AForm
<1>1. DefaultFields \in [Keys -> Kinds] /\ DefaultFields["phone"] = "system"
  BY DEF DefaultFields, Keys, Kinds
<1>2. NoForm.name = "" /\ \A f \in AForm : f.name # ""
  BY DEF NoForm, AForm, FormNames
<1>3. DefaultForm \in AForm
  BY <1>1 DEF DefaultForm, AForm, FormNames, DefaultName
<1> QED
  BY <1>1, <1>2, <1>3 DEF FreshForm, AForm

LEMMA TabIsDone ==
    NoTab \in TabRecord /\ TabIsSound(NoTab) /\ NoTab.job = "none"
    BY DEF NoTab, TabRecord, TabArgs, TabIsSound

LEMMA FormInvInit == FormInit => FormInv
<1> SUFFICES ASSUME FormInit PROVE FormInv
  OBVIOUS
<1>1. FirstForm \in Forms
  BY FormSetsAreFinite
<1>2. /\ form \in [Forms -> AForm \cup {NoForm}]
      /\ Made = {FirstForm} /\ form[FirstForm] = DefaultForm
  BY <1>1, FormShapes DEF FormInit, Made
<1>3. tab \in [Tabs -> TabRecord] /\ \A t \in Tabs : tab[t] = NoTab
  BY DEF FormInit, NoTab, TabRecord, TabArgs
<1>4. FormsAreSound
  <2>1. edits \in 0..MaxEdits /\ reinstalls = 0 /\ collided = FALSE
    BY FormAssumption DEF FormInit
  <2>2. \A t \in Tabs : TabIsSound(tab[t])
    BY <1>3, TabIsDone
  <2> QED
    BY <1>2, <1>3, <2>1, <2>2 DEF FormsAreSound
<1>5. HasPhone /\ FirstStays /\ Active = {FirstForm}
  BY <1>2, FormShapes DEF HasPhone, FirstStays, Active, DefaultForm
<1>6. RoomIsKept
  <2>1. Creating = {} /\ Cardinality({}) = 0
    BY <1>3, FS_EmptySet DEF Creating, NoTab
  <2>2. Cardinality(Made) = 1
    BY <1>2, FS_Singleton
  <2>3. Cardinality(Tabs) \in Nat /\ Cardinality(Tabs) # 0
    BY FormAssumption, FS_EmptySet, FS_CardinalityType
  <2> QED
    BY <2>1, <2>2, <2>3, FormAssumption DEF RoomIsKept, FormInit
<1> QED
  BY <1>2, <1>4, <1>5, <1>6 DEF FormInv, OneStays

\* The counts of the forms and of the requests creating one, as a step moves them.
LEMMA RoomMoves ==
    ASSUME RoomIsKept, reinstalls \in Nat, reinstalls' \in Nat, reinstalls' >= reinstalls,
           \/ Made' \subseteq Made /\ Creating' \subseteq Creating
           \/ \E f : Made' = Made \cup {f} /\ reinstalls' = reinstalls + 1 /\ Creating' = Creating
           \/ \E f : Made' = Made \cup {f} /\ \E t \in Creating : Creating' = Creating \ {t}
           \/ Made' = Made /\ Cardinality(Made) < FormLimit
    PROVE  RoomIsKept'
<1> DEFINE N == FormLimit + Cardinality(Tabs) - 1
<1>1. /\ Cardinality(Made) \in Nat /\ Cardinality(Creating) \in Nat /\ FormLimit \in Nat
      /\ Cardinality(Tabs) \in Nat
      /\ Cardinality(Made) + Cardinality(Creating) <= N + reinstalls
  BY FormSetsAreFinite, FormAssumption DEF RoomIsKept
<1>2. Cardinality(Made') \in Nat /\ Cardinality(Creating') \in Nat /\ Cardinality(Creating') <= Cardinality(Tabs)
      /\ IsFiniteSet(Creating')
  BY FormAssumption, FS_Subset, FS_CardinalityType DEF Made, Creating
<1>3. \A f : Cardinality(Made \cup {f}) <= Cardinality(Made) + 1
  <2> TAKE f
  <2>1. CASE f \in Made
    <3>1. Cardinality(Made \cup {f}) = Cardinality(Made)
      <4>1. Made \cup {f} = Made
        BY <2>1
      <4> QED
        BY <4>1
    <3> QED
      BY <1>1, <3>1
  <2>2. CASE f \notin Made
    <3>1. Cardinality(Made \cup {f}) = Cardinality(Made) + 1
      BY <2>2, FormSetsAreFinite, FS_AddElement
    <3> QED
      BY <1>1, <3>1
  <2> QED
    BY <2>1, <2>2
<1>4. \A t \in Creating : Cardinality(Creating \ {t}) = Cardinality(Creating) - 1
  BY FormSetsAreFinite, FS_RemoveElement
<1>5. CASE Made' \subseteq Made /\ Creating' \subseteq Creating
  <2>1. Cardinality(Made') <= Cardinality(Made) /\ Cardinality(Creating') <= Cardinality(Creating)
    BY <1>5, FormSetsAreFinite, FS_Subset
  <2> QED
    BY <1>1, <1>2, <2>1 DEF RoomIsKept
<1>6. CASE \E f : Made' = Made \cup {f} /\ reinstalls' = reinstalls + 1 /\ Creating' = Creating
  <2>1. Cardinality(Made') <= Cardinality(Made) + 1
    BY <1>3, <1>6
  <2> QED
    BY <1>1, <1>2, <1>6, <2>1 DEF RoomIsKept
<1>7. CASE \E f : Made' = Made \cup {f} /\ \E t \in Creating : Creating' = Creating \ {t}
  <2>1. Cardinality(Made') <= Cardinality(Made) + 1 /\ Cardinality(Creating') = Cardinality(Creating) - 1
    BY <1>3, <1>4, <1>7
  <2> QED
    BY <1>1, <1>2, <2>1 DEF RoomIsKept
<1>8. CASE Made' = Made /\ Cardinality(Made) < FormLimit
  BY <1>1, <1>2, <1>8 DEF RoomIsKept
<1> QED
  BY <1>5, <1>6, <1>7, <1>8

\* What every step of the forms but a new one does to the set of them.
LEMMA TabMoves ==
    ASSUME FormsAreSound, NEW t \in Tabs, NEW q \in TabRecord, TabIsSound(q),
           tab' = [tab EXCEPT ![t] = q]
    PROVE  /\ tab' \in [Tabs -> TabRecord] /\ \A u \in Tabs : TabIsSound(tab'[u])
           /\ ~(q.job \in {"create", "duplicate"} /\ q.at = "write") => Creating' = Creating \ {t}
           /\ ~(q.job \in {"create", "duplicate"} /\ q.at = "write") => Creating' \subseteq Creating
    BY DEF FormsAreSound, Creating


\* A step that leaves the forms alone.
LEMMA FormsAlone ==
    ASSUME FormInv, NEW t \in Tabs, NEW q \in TabRecord, TabIsSound(q),
           tab' = [tab EXCEPT ![t] = q], UNCHANGED <<form, reinstalls, collided>>,
           edits' \in 0..MaxEdits,
           q.job \in {"create", "duplicate"} /\ q.at = "write" => Cardinality(Made) < FormLimit
    PROVE  FormInv'
<1>1. FormsAreSound /\ reinstalls \in Nat
  BY DEF FormInv, FormsAreSound
<1>2. Made' = Made /\ Active' = Active
  BY DEF Made, Active
<1>3. FormsAreSound'
  <2>1. tab' \in [Tabs -> TabRecord] /\ \A u \in Tabs : TabIsSound(tab'[u])
    BY <1>1, TabMoves
  <2> QED
    BY <1>1, <2>1 DEF FormsAreSound
<1>4. RoomIsKept'
  <2>1. Cardinality(Made) < FormLimit \/ Creating' \subseteq Creating
    BY <1>1, TabMoves
  <2>2. RoomIsKept /\ reinstalls' \in Nat /\ reinstalls' >= reinstalls /\ Made' \subseteq Made
    BY <1>1, <1>2 DEF FormInv
  <2> QED
    BY <1>1, <1>2, <2>1, <2>2, RoomMoves
<1> QED
  BY <1>2, <1>3, <1>4 DEF FormInv, HasPhone, FirstStays, OneStays

\* No request begins to create a form.
TabsGoOn == /\ tab' \in [Tabs -> TabRecord]
            /\ \A u \in Tabs : TabIsSound(tab'[u])
            /\ Creating' \subseteq Creating

LEMMA TabsFinish ==
    ASSUME FormsAreSound
    PROVE  (tab' = tab => TabsGoOn) /\ \A t \in Tabs : Done(t) => TabsGoOn
<1>1. tab' = tab => TabsGoOn
  BY DEF FormsAreSound, TabsGoOn, Creating
<1>2. ASSUME NEW t \in Tabs, Done(t) PROVE TabsGoOn
  BY <1>2, TabIsDone, TabMoves DEF Done, TabsGoOn
<1> QED
  BY <1>1, <1>2

\* A step that changes the name or the fields of one form.
LEMMA FormIsEdited ==
    ASSUME FormInv, NEW f \in Made, NEW new \in AForm, form' = [form EXCEPT ![f] = new],
           new.active = form[f].active, new.default = form[f].default,
           new.fields["phone"] # "absent",
           TabsGoOn, UNCHANGED <<reinstalls, collided>>, edits' \in 0..MaxEdits
    PROVE  FormInv'
<1>1. FormsAreSound /\ reinstalls \in Nat /\ form \in [Forms -> AForm \cup {NoForm}] /\ f \in Forms
  BY DEF FormInv, FormsAreSound, Made
<1>2. /\ form' \in [Forms -> AForm \cup {NoForm}]
      /\ form'[f] = new /\ new # NoForm
      /\ \A g \in Forms \ {f} : form'[g] = form[g]
  BY <1>1, FormShapes
<1>3. Made' = Made
  BY <1>2 DEF Made
<1>4. Active' = Active
  BY <1>2, <1>3 DEF Active, Made
<1>5. FormsAreSound'
  BY <1>1, <1>2 DEF FormsAreSound, TabsGoOn
<1>6. HasPhone'
  BY <1>2, <1>3 DEF FormInv, HasPhone, Made
<1>7. FirstStays'
  BY <1>2, <1>3 DEF FormInv, FirstStays, Made
<1>8. RoomIsKept'
  BY <1>1, <1>3, RoomMoves DEF FormInv, TabsGoOn
<1> QED
  BY <1>4, <1>3, <1>5, <1>6, <1>7, <1>8 DEF FormInv, OneStays

LEMMA NextIdIsFree == Made # Forms => NextId \in Forms \ Made
  BY DEF Made, NextId

\* A form that is created takes an id none has.
LEMMA FormIsAdded ==
    ASSUME FormInv, Made # Forms, NEW new \in AForm, form' = [form EXCEPT ![NextId] = new],
           new.fields["phone"] # "absent"
    PROVE  /\ form' \in [Forms -> AForm \cup {NoForm}]
           /\ Made' = Made \cup {NextId} /\ HasPhone' /\ FirstStays'
           /\ ~new.active => Active' = Active
<1>1. /\ form \in [Forms -> AForm \cup {NoForm}] /\ NextId \in Forms \ Made
      /\ HasPhone /\ FirstStays
  BY NextIdIsFree DEF FormInv, FormsAreSound
<1>2. /\ form' \in [Forms -> AForm \cup {NoForm}] /\ form'[NextId] = new /\ new # NoForm
      /\ \A g \in Forms \ {NextId} : form'[g] = form[g]
  BY <1>1, FormShapes
<1>3. Made' = Made \cup {NextId}
  BY <1>1, <1>2 DEF Made
<1>4. HasPhone' /\ FirstStays'
  BY <1>1, <1>2, <1>3 DEF HasPhone, FirstStays, Made
<1>5. ~new.active => Active' = Active
  BY <1>1, <1>2, <1>3 DEF Active, Made
<1> QED
  BY <1>2, <1>3, <1>4, <1>5

LEMMA StartKeeps ==
    ASSUME FormInv, NEW t \in Tabs, Start(t)
    PROVE  FormInv'
<1>1. PICK job \in {"create", "duplicate", "update", "fields", "delete"}, f \in Made :
        \E arg \in CASE job = "create" -> FormNames
                     [] job = "update" -> FormNames \cup {"activate", "deactivate"}
                     [] job = "fields" -> Arrangements
                     [] OTHER -> {"none"} :
           tab' = [tab EXCEPT ![t] = [job |-> job, at |-> "read", form |-> f, arg |-> arg]]
  BY DEF Start
<1>2. PICK arg \in TabArgs :
        /\ job = "create" => arg \in FormNames
        /\ job = "update" => arg \in FormNames \cup {"activate", "deactivate"}
        /\ job = "fields" => arg \in Arrangements
        /\ tab' = [tab EXCEPT ![t] = [job |-> job, at |-> "read", form |-> f, arg |-> arg]]
  BY <1>1 DEF TabArgs
<1> DEFINE q == [job |-> job, at |-> "read", form |-> f, arg |-> arg]
<1>3. q \in TabRecord /\ TabIsSound(q) /\ q.at = "read"
  BY <1>2 DEF TabRecord, TabIsSound, Made
<1>4. UNCHANGED <<form, reinstalls, collided>> /\ edits' \in 0..MaxEdits
  BY FormAssumption DEF Start, FormInv, FormsAreSound
<1>5. tab' = [tab EXCEPT ![t] = q]
  BY <1>2
<1> HIDE DEF q
<1> QED
  BY <1>3, <1>4, <1>5, FormsAlone

\* A request goes on to another step with what it carries.
LEMMA TabSteps ==
    ASSUME FormInv, NEW t \in Tabs, NEW at \in {"write", "activate"}, Step(t, at),
           tab[t].job \notin {"create", "duplicate"},
           tab[t].job = "fields" => Complete(tab[t].arg),
           tab[t].job = "delete" => tab[t].form # FirstForm,
           UNCHANGED form, Kept
    PROVE  FormInv'
<1> DEFINE q == [tab[t] EXCEPT !.at = at]
<1>1. tab[t] \in TabRecord /\ TabIsSound(tab[t]) /\ edits' \in 0..MaxEdits
  BY DEF FormInv, FormsAreSound, Kept
<1>2. q \in TabRecord /\ TabIsSound(q) /\ q.job = tab[t].job
  BY <1>1 DEF TabRecord, TabIsSound
<1>3. tab' = [tab EXCEPT ![t] = q]
  BY DEF Step
<1> HIDE DEF q
<1> QED
  BY <1>1, <1>2, <1>3, FormsAlone DEF Kept

LEMMA TabEnds ==
    ASSUME FormInv, NEW t \in Tabs, Done(t), UNCHANGED form, Kept
    PROVE  FormInv'
<1>1. edits' \in 0..MaxEdits
  BY DEF FormInv, FormsAreSound, Kept
<1> QED
  BY <1>1, TabIsDone, FormsAlone DEF Done, Kept

LEMMA CountKeeps ==
    ASSUME FormInv, NEW t \in Tabs, CountForms(t)
    PROVE  FormInv'
<1> DEFINE source == form[tab[t].form]
           new == IF tab[t].job = "create" THEN FreshForm(tab[t].arg, DefaultFields)
                  ELSE FreshForm("COD form (copy)", source.fields)
           q == [tab[t] EXCEPT !.at = "write", !.arg = new]
<1>1. /\ tab[t] \in TabRecord /\ TabIsSound(tab[t]) /\ tab \in [Tabs -> TabRecord]
      /\ UNCHANGED form /\ Kept /\ edits' \in 0..MaxEdits
      /\ tab[t].job \in {"create", "duplicate"} /\ tab[t].at = "read"
      /\ form \in [Forms -> AForm \cup {NoForm}] /\ HasPhone
  BY DEF CountForms, At, FormInv, FormsAreSound, Kept
<1>2. CASE Done(t)
  BY <1>1, <1>2, TabEnds
<1>3. CASE ~Done(t)
  <2>1. /\ ~(Cardinality(Made) >= FormLimit) /\ (tab[t].job = "duplicate" => source # NoForm)
        /\ tab' = [tab EXCEPT ![t] = q]
    BY <1>1, <1>3 DEF CountForms
  <2>2. Cardinality(Made) < FormLimit
    BY <2>1, FormSetsAreFinite, FormAssumption
  <2>3. tab[t].form \in Forms
    BY <1>1 DEF TabIsSound
  <2>4. new \in AForm /\ ~new.active /\ new.fields["phone"] # "absent"
    <3>1. CASE tab[t].job = "create"
      BY <1>1, <3>1, FormShapes DEF TabIsSound, FreshForm
    <3>2. CASE tab[t].job = "duplicate"
      <4>1. source \in AForm /\ source.fields["phone"] # "absent"
        BY <1>1, <2>1, <2>3, <3>2 DEF HasPhone, Made
      <4>2. source.fields \in [Keys -> Kinds]
        BY <4>1 DEF AForm
      <4> QED
        BY <3>2, <4>1, <4>2, FormShapes DEF FreshForm, FormNames
    <3> QED
      BY <1>1, <3>1, <3>2
  <2> HIDE DEF new
  <2>5. q \in TabRecord /\ TabIsSound(q)
    BY <1>1, <2>3, <2>4 DEF TabRecord, TabArgs, TabIsSound
  <2> HIDE DEF q
  <2> QED
    BY <1>1, <2>1, <2>2, <2>5, FormsAlone DEF Kept
<1> QED
  BY <1>2, <1>3

LEMMA CreateKeeps ==
    ASSUME FormInv, NEW t \in Tabs, CreateForm(t)
    PROVE  FormInv'
<1>1. /\ FormsAreSound /\ reinstalls \in Nat /\ Done(t) /\ Kept /\ TabIsSound(tab[t])
      /\ tab[t].job \in {"create", "duplicate"} /\ tab[t].at = "write"
  BY DEF CreateForm, FormInv, FormsAreSound
<1>2. CASE Taken(tab[t].arg.name)
  BY <1>1, <1>2, TabEnds DEF CreateForm
<1>3. CASE ~Taken(tab[t].arg.name)
  <2>1. Made # Forms /\ form' = [form EXCEPT ![NextId] = tab[t].arg]
    BY <1>3 DEF CreateForm
  <2>2. tab[t].arg \in AForm /\ ~tab[t].arg.active /\ tab[t].arg.fields["phone"] # "absent"
    BY <1>1 DEF TabIsSound
  <2>3. /\ form' \in [Forms -> AForm \cup {NoForm}]
        /\ Made' = Made \cup {NextId} /\ HasPhone' /\ FirstStays' /\ Active' = Active
    BY <2>1, <2>2, FormIsAdded
  <2>4. TabsGoOn /\ t \in Creating /\ Creating' = Creating \ {t}
    BY <1>1, TabIsDone, TabMoves, TabsFinish DEF Done, Creating
  <2>5. RoomIsKept'
    BY <1>1, <2>3, <2>4, RoomMoves DEF FormInv, Kept
  <2>6. FormsAreSound'
    BY <1>1, <2>3, <2>4 DEF FormsAreSound, TabsGoOn, Kept
  <2>7. OneStays'
    BY <1>1, <2>3 DEF FormInv, OneStays, Made, Kept
  <2> QED
    BY <2>3, <2>5, <2>6, <2>7 DEF FormInv
<1> QED
  BY <1>2, <1>3

LEMMA UpdateKeeps ==
    ASSUME FormInv, NEW t \in Tabs, findById(t) \/ updateForm(t)
    PROVE  FormInv'
<1>1. /\ FormsAreSound /\ TabIsSound(tab[t]) /\ Kept /\ tab[t].job = "update"
      /\ form \in [Forms -> AForm \cup {NoForm}] /\ HasPhone
  BY DEF findById, updateForm, At, FormInv, FormsAreSound
<1>2. CASE Done(t) /\ UNCHANGED form
  BY <1>1, <1>2, TabEnds
<1>3. CASE UNCHANGED form /\ \E at \in {"write", "activate"} : Step(t, at)
  BY <1>1, <1>3, TabSteps
<1>4. CASE \/ findById(t)
           \/ updateForm(t) /\ (form[tab[t].form] = NoForm \/ tab[t].arg \in {"activate", "deactivate"})
  BY <1>2, <1>3, <1>4 DEF findById, updateForm
<1>5. CASE updateForm(t) /\ form[tab[t].form] # NoForm /\ tab[t].arg \notin {"activate", "deactivate"}
  <2> DEFINE f == tab[t].form
             new == [form[f] EXCEPT !.name = tab[t].arg]
  <2>1. Done(t) /\ f \in Made /\ tab[t].arg \in FormNames
    BY <1>1, <1>5 DEF updateForm, TabIsSound, Made
  <2>2. form' = form \/ form' = [form EXCEPT ![f] = new]
    BY <1>1, <1>5 DEF updateForm
  <2>3. form[f] \in AForm /\ form[f].fields["phone"] # "absent"
    BY <1>1, <2>1 DEF Made, HasPhone
  <2>4. /\ new \in AForm /\ new.active = form[f].active /\ new.default = form[f].default
        /\ new.fields["phone"] # "absent"
    BY <2>1, <2>3 DEF AForm
  <2>5. TabsGoOn /\ edits' \in 0..MaxEdits
    BY <1>1, <2>1, TabsFinish DEF Kept, FormsAreSound
  <2> HIDE DEF f, new
  <2> QED
    BY <1>1, <1>2, <2>1, <2>2, <2>4, <2>5, FormIsEdited DEF Kept
<1> QED
  BY <1>4, <1>5

LEMMA ActivateKeeps ==
    ASSUME FormInv, NEW t \in Tabs, setActive(t)
    PROVE  FormInv'
<1> DEFINE f == tab[t].form
<1>1. /\ FormsAreSound /\ Done(t) /\ Kept /\ f \in Forms
      /\ form \in [Forms -> AForm \cup {NoForm}] /\ HasPhone /\ FirstStays
      /\ reinstalls \in Nat
  BY DEF setActive, At, FormInv, FormsAreSound, TabIsSound
<1>2. CASE form[f] = NoForm
  BY <1>1, <1>2, TabEnds DEF setActive
<1>3. CASE form[f] # NoForm
  <2>1. form' = [g \in Forms |-> IF g \in Made THEN [form[g] EXCEPT !.active = (g = f)] ELSE NoForm]
    BY <1>3 DEF setActive
  <2>2. ASSUME NEW g \in Made
        PROVE  /\ form'[g] \in AForm /\ form'[g] # NoForm /\ form'[g].active = (g = f)
               /\ form'[g].default = form[g].default /\ form'[g].fields = form[g].fields
    <3>1. g \in Forms /\ form[g] \in AForm
      BY <1>1 DEF Made
    <3> QED
      BY <2>1, <3>1, FormShapes DEF AForm
  <2>3. \A g \in Forms \ Made : form'[g] = NoForm
    BY <2>1
  <2>4. Made' = Made /\ form' \in [Forms -> AForm \cup {NoForm}]
    BY <2>1, <2>2, <2>3 DEF Made
  <2>5. Active' = {f}
    BY <1>1, <1>3, <2>2, <2>4 DEF Active, Made
  <2>6. HasPhone' /\ FirstStays'
    BY <1>1, <2>2, <2>4 DEF HasPhone, FirstStays
  <2>7. TabsGoOn
    BY <1>1, TabsFinish
  <2>8. RoomIsKept'
    BY <1>1, <2>4, <2>7, RoomMoves DEF FormInv, TabsGoOn, Kept
  <2>9. FormsAreSound'
    BY <1>1, <2>4, <2>7 DEF FormsAreSound, TabsGoOn, Kept
  <2>10. f \in Made'
    BY <1>1, <1>3, <2>4 DEF Made
  <2>11. OneStays'
    BY <2>5, <2>10 DEF OneStays
  <2> QED
    BY <2>6, <2>8, <2>9, <2>11 DEF FormInv
<1> QED
  BY <1>2, <1>3

LEMMA FieldsKeep ==
    ASSUME FormInv, NEW t \in Tabs, CheckFields(t) \/ replaceFields(t)
    PROVE  FormInv'
<1> DEFINE f == tab[t].form
<1>1. /\ FormsAreSound /\ TabIsSound(tab[t]) /\ Kept /\ tab[t].job = "fields"
      /\ form \in [Forms -> AForm \cup {NoForm}]
  BY DEF CheckFields, replaceFields, At, FormInv, FormsAreSound
<1>2. CASE CheckFields(t)
  BY <1>1, <1>2, TabEnds, TabSteps DEF CheckFields
<1>3. CASE replaceFields(t) /\ form[f] = NoForm
  BY <1>1, <1>3, TabEnds DEF replaceFields
<1>4. CASE replaceFields(t) /\ form[f] # NoForm
  <2> DEFINE fields == Rearranged(form[f].fields, tab[t].arg)
             new == [form[f] EXCEPT !.fields = fields]
  <2>1. f \in Made /\ form[f] \in AForm /\ tab[t].arg \in Arrangements /\ Complete(tab[t].arg)
    BY <1>1, <1>4 DEF replaceFields, At, TabIsSound, Made
  <2>2. fields \in [Keys -> Kinds] /\ fields["phone"] # "absent"
    <3>1. form[f].fields \in [Keys -> Kinds] /\ "phone" \in Keys
      BY <2>1 DEF AForm, Keys
    <3> QED
      BY <2>1, <3>1 DEF Rearranged, Complete, Arrangements, Kinds
  <2>3. form' = [form EXCEPT ![f] = new]
    BY <1>1, <1>4, <2>1 DEF replaceFields, Made
  <2> HIDE DEF fields
  <2>4. /\ new \in AForm /\ new.active = form[f].active /\ new.default = form[f].default
        /\ new.fields["phone"] # "absent"
    BY <2>1, <2>2 DEF AForm
  <2>5. TabsGoOn /\ edits' \in 0..MaxEdits
    BY <1>1, <1>4, TabsFinish DEF replaceFields, Kept, FormsAreSound
  <2> HIDE DEF f, new
  <2> QED
    BY <1>1, <2>1, <2>3, <2>4, <2>5, FormIsEdited DEF Kept
<1> QED
  BY <1>2, <1>3, <1>4

LEMMA DeleteKeeps ==
    ASSUME FormInv, NEW t \in Tabs, CheckDelete(t) \/ deleteForm(t)
    PROVE  FormInv'
<1> DEFINE f == tab[t].form
<1>1. /\ FormsAreSound /\ TabIsSound(tab[t]) /\ tab[t].job = "delete" /\ f \in Forms
      /\ form \in [Forms -> AForm \cup {NoForm}] /\ HasPhone /\ FirstStays
      /\ reinstalls \in Nat
  BY DEF CheckDelete, deleteForm, At, FormInv, FormsAreSound, TabIsSound
<1>2. CASE CheckDelete(t)
  <2>1. form[FirstForm].default
    BY <1>1 DEF FirstStays
  <2> QED
    BY <1>1, <1>2, <2>1, TabEnds, TabSteps DEF CheckDelete
<1>3. CASE deleteForm(t)
  <2>1. /\ form' = [form EXCEPT ![f] = NoForm] /\ f # FirstForm
        /\ collided' = (collided \/ form[f].active)
        /\ Done(t) /\ UNCHANGED <<reinstalls, edits>>
    BY <1>1, <1>3 DEF deleteForm, At, TabIsSound
  <2>2. TabsGoOn
    BY <1>1, <2>1, TabsFinish
  <2>3. Made' = Made \ {f} /\ form' \in [Forms -> AForm \cup {NoForm}]
    BY <1>1, <2>1 DEF Made
  <2>4. HasPhone' /\ FirstStays'
    BY <1>1, <2>1, <2>3 DEF HasPhone, FirstStays, Made
  <2>5. RoomIsKept'
    <3>1. Made' \subseteq Made /\ Creating' \subseteq Creating /\ RoomIsKept
      BY <2>2, <2>3 DEF FormInv, TabsGoOn
    <3> QED
      BY <1>1, <2>1, <3>1, RoomMoves
  <2>6. collided' \in BOOLEAN
    BY <1>1, <1>3 DEF deleteForm, FormsAreSound
  <2>7. FormsAreSound'
    BY <1>1, <2>1, <2>2, <2>3, <2>6 DEF FormsAreSound, TabsGoOn
  <2>8. OneStays'
    <3> SUFFICES ASSUME reinstalls' = 0, ~collided' PROVE \E a \in Made' : Active' = {a}
      BY DEF OneStays
    <3>1. ~form[f].active /\ ~collided /\ reinstalls = 0
      BY <2>1
    <3>2. PICK a \in Made : Active = {a}
      BY <3>1 DEF FormInv, OneStays
    <3>3. a # f
      BY <3>1, <3>2 DEF Active
    <3>4. Active' = Active
      BY <1>1, <2>1, <2>3, <3>1 DEF Active, Made
    <3> QED
      BY <2>3, <3>2, <3>3, <3>4
  <2> QED
    BY <2>4, <2>5, <2>7, <2>8 DEF FormInv
<1> QED
  BY <1>2, <1>3

LEMMA ReinstallKeeps ==
    ASSUME FormInv, Reinstall
    PROVE  FormInv'
<1>1. /\ FormsAreSound /\ TabsGoOn /\ UNCHANGED <<tab, collided>>
      /\ form \in [Forms -> AForm \cup {NoForm}] /\ HasPhone /\ reinstalls \in Nat
      /\ edits' \in 0..MaxEdits
  BY TabsFinish, FormAssumption DEF Reinstall, FormInv, FormsAreSound
<1>2. ASSUME NEW f \in Made, UNCHANGED reinstalls,
             form' = [form EXCEPT ![f].fields =
                [k \in Keys |-> IF form[f].fields[k] = "absent" THEN DefaultFields[k]
                                ELSE form[f].fields[k]]]
      PROVE  FormInv'
  <2> DEFINE fields == [k \in Keys |-> IF form[f].fields[k] = "absent" THEN DefaultFields[k]
                                       ELSE form[f].fields[k]]
             new == [form[f] EXCEPT !.fields = fields]
  <2>1. form[f] \in AForm /\ form[f].fields \in [Keys -> Kinds] /\ "phone" \in Keys
        /\ form[f].fields["phone"] # "absent" /\ f \in Forms
    BY <1>1 DEF Made, AForm, Keys, HasPhone
  <2>2. fields \in [Keys -> Kinds] /\ fields["phone"] # "absent"
    BY <2>1, FormShapes
  <2>3. form' = [form EXCEPT ![f] = new]
    BY <1>1, <1>2, <2>1
  <2> HIDE DEF fields
  <2>4. /\ new \in AForm /\ new.active = form[f].active /\ new.default = form[f].default
        /\ new.fields["phone"] # "absent"
    BY <2>1, <2>2 DEF AForm
  <2> HIDE DEF new
  <2> QED
    BY <1>1, <1>2, <2>3, <2>4, FormIsEdited
<1>3. CASE /\ Made # Forms /\ form' = [form EXCEPT ![NextId] = DefaultForm]
           /\ reinstalls' = reinstalls + 1
  <2>1. DefaultForm \in AForm /\ DefaultForm.fields["phone"] # "absent"
    BY FormShapes DEF DefaultForm
  <2>2. /\ form' \in [Forms -> AForm \cup {NoForm}]
        /\ Made' = Made \cup {NextId} /\ HasPhone' /\ FirstStays'
    BY <1>3, <2>1, FormIsAdded
  <2>3. Creating' = Creating
    BY <1>1 DEF Creating
  <2>4. RoomIsKept'
    BY <1>1, <1>3, <2>2, <2>3, RoomMoves DEF FormInv
  <2>5. FormsAreSound'
    BY <1>1, <1>3, <2>2 DEF FormsAreSound, TabsGoOn
  <2>6. reinstalls' # 0
    BY <1>1, <1>3
  <2> QED
    BY <2>2, <2>4, <2>5, <2>6 DEF FormInv, OneStays
<1> QED
  BY <1>2, <1>3 DEF Reinstall

LEMMA FormInvNext ==
    ASSUME FormInv, [FormNext]_fvars
    PROVE  FormInv'
<1>1. CASE UNCHANGED fvars
  BY <1>1 DEF fvars, FormInv, FormsAreSound, HasPhone, FirstStays, OneStays, RoomIsKept,
              Made, Active, Creating
<1>2. CASE FormNext
  BY <1>2, StartKeeps, CountKeeps, CreateKeeps, UpdateKeeps, ActivateKeeps, FieldsKeep,
     DeleteKeeps, ReinstallKeeps DEF FormNext
<1> QED
  BY <1>1, <1>2

LEMMA FormInvGives == FormInv => FormsHold
<1> SUFFICES ASSUME FormInv PROVE FormsHold
  OBVIOUS
<1>1. DefaultStays
  BY DEF FormInv, FirstStays, DefaultStays
<1>2. WithinFormLimit
  <2>1. /\ Cardinality(Made) \in Nat /\ Cardinality(Creating) \in Nat /\ Cardinality(Tabs) \in Nat
        /\ FormLimit \in Nat /\ reinstalls \in Nat
        /\ Cardinality(Made) + Cardinality(Creating) <= FormLimit + Cardinality(Tabs) - 1 + reinstalls
    BY FormSetsAreFinite, FormAssumption DEF FormInv, FormsAreSound, RoomIsKept
  <2> QED
    BY <2>1 DEF WithinFormLimit
<1>3. OneIsActive
  BY FS_Singleton DEF FormInv, OneStays, OneIsActive
<1> QED
  BY <1>1, <1>2, <1>3 DEF FormInv, FormsHold

-----------------------------------------------------------------------------
(* The shop                                                                 *)

TenantInv == AccessInv /\ CacheInv /\ FormInv

LEMMA TenantInvInit == TenantInit => TenantInv
  BY AccessInvInit, CacheInvInit, FormInvInit DEF TenantInit, TenantInv

LEMMA TenantInvNext == TenantInv /\ [TenantNext]_tvars => TenantInv'
<1> SUFFICES ASSUME TenantInv, [TenantNext]_tvars PROVE TenantInv'
  OBVIOUS
<1>1. [AccessNext]_avars /\ [CacheNext]_kvars /\ [FormNext]_fvars
  BY DEF TenantNext, AccessStep, RetentionStep, BillingStep, CacheStep, FormsStep, tvars
<1> QED
  BY <1>1, AccessInvNext, CacheInvNext, FormInvNext DEF TenantInv

LEMMA TenantIsSound == TenantSpec => []TenantInv
  BY TenantInvInit, TenantInvNext, PTL DEF TenantSpec

\* A token that has only ever been refreshed is kept: the session is deleted for a
\* refused token only (graphql.ts, refreshRejectedSession), and no operation, however
\* many renew at once in the two processes, is refused (tokenRefresh.ts).
THEOREM GrantSurvives == TenantSpec => [](AccessTypeOK /\ KeepsGrant)
<1>1. TenantInv => AccessTypeOK /\ KeepsGrant
  BY AccessInvGives DEF TenantInv
<1> QED
  BY <1>1, TenantIsSound, PTL

\* While Redis answers, a storefront request that begins after a save was answered is
\* served what was saved (cache.ts remember and invalidateTag), whatever number of
\* requests build a configuration meanwhile.
THEOREM StorefrontIsRecent == TenantSpec => [](CacheTypeOK /\ ServedIsRecent)
<1>1. TenantInv => CacheTypeOK /\ ServedIsRecent
  BY CacheInvGives DEF TenantInv, CacheInv
<1> QED
  BY <1>1, TenantIsSound, PTL

\* Every form keeps its phone, a default form stays, the plan's limit is overshot by no
\* more than the requests racing its check, and one form is active unless a second
\* default form was created or a deletion raced an activation (forms/service.ts,
\* forms/repository.ts).
THEOREM FormsStayUsable == TenantSpec => []FormsHold
<1>1. TenantInv => FormsHold
  BY FormInvGives DEF TenantInv
<1> QED
  BY <1>1, TenantIsSound, PTL
=============================================================================
