----------------------------- MODULE ConfigCache -----------------------------
(***************************************************************************)
(* The configuration a storefront is served (storefront/service), cached   *)
(* under a tag whose version is part of the key (lib/cache), and what the  *)
(* merchant's saves and an uninstall do to it (shop/service, webhooks).    *)
(*                                                                         *)
(* What is saved is a counter per table: a configuration is the counters   *)
(* it was built from, read in two steps.                                   *)
(***************************************************************************)
EXTENDS Naturals, FiniteSets

CONSTANTS
    Readers,    \* storefront requests at once
    Writers,    \* admin requests and webhooks at once
    MaxSaves    \* bound on saves and uninstalls

ASSUME CacheAssumption == MaxSaves \in Nat /\ IsFiniteSet(Writers)

VARIABLES
    shop,       \* the row and its settings: [active, settings]
    parts,      \* buttons, forms, pixels and bumps
    tag,        \* the tag's version in Redis
    entry,      \* what is cached under each version, or NoEntry
    reader,     \* per request: [at, key, config, owed]
    writer,     \* per save: [at, what]
    owed,       \* what answered saves have left: the least a later request may see
    lost,       \* has Redis ever failed to answer?
    saves

kvars == <<shop, parts, tag, entry, reader, writer, owed, lost, saves>>

Versions == 0..MaxSaves
Configs == [active : BOOLEAN, settings : Versions, parts : Versions]
NoEntry == [active |-> FALSE, settings |-> MaxSaves + 1, parts |-> 0]
Blank == [active |-> FALSE, settings |-> 0, parts |-> 0]
Owes == [active : BOOLEAN, settings : Versions, parts : Versions]
Current == [active |-> shop.active, settings |-> shop.settings, parts |-> parts]

CacheTypeOK ==
    /\ shop \in [active : BOOLEAN, settings : Versions]
    /\ parts \in Versions /\ tag \in Versions
    /\ entry \in [Versions -> Configs \cup {NoEntry}]
    /\ reader \in [Readers -> [at : {"idle", "lookup", "shop", "parts", "keep", "served"},
                               key : Versions, config : Configs, owed : Owes]]
    /\ writer \in [Writers -> [at : {"idle", "write", "drop", "erase"},
                               what : {"none", "settings", "parts", "uninstall"}]]
    /\ owed \in Owes /\ lost \in BOOLEAN /\ saves \in 0..MaxSaves

IdleReader == [at |-> "idle", key |-> 0, config |-> Blank, owed |-> Blank]
Saved == UNCHANGED <<shop, parts, tag, writer, owed, saves>>
Reading(r, at) == reader' = [reader EXCEPT ![r].at = at]

-----------------------------------------------------------------------------
(* remember, around buildConfig. *)

\* The version is read first; a Redis that does not answer reads as version 0.
currentTagVersion(r) ==
    /\ reader[r].at = "idle"
    /\ \/ reader' = [reader EXCEPT ![r] = [IdleReader EXCEPT !.at = "lookup", !.key = tag, !.owed = owed]]
          /\ UNCHANGED lost
       \/ reader' = [reader EXCEPT ![r] = [IdleReader EXCEPT !.at = "lookup", !.owed = owed]]
          /\ lost' = TRUE
    /\ UNCHANGED entry /\ Saved

Hit(r) ==
    /\ reader[r].at = "lookup" /\ entry[reader[r].key] # NoEntry
    /\ reader' = [reader EXCEPT ![r].at = "served", ![r].config = entry[reader[r].key]]
    /\ UNCHANGED <<entry, lost>> /\ Saved

\* A read that fails is a miss.
Miss(r) ==
    /\ reader[r].at = "lookup"
    /\ Reading(r, "shop")
    /\ lost' = (lost \/ entry[reader[r].key] # NoEntry)
    /\ UNCHANGED entry /\ Saved

\* A shop that is gone or inactive is served the disabled configuration.
findShopForStorefront(r) ==
    /\ reader[r].at = "shop"
    /\ reader' = [reader EXCEPT
           ![r].at = IF shop.active THEN "parts" ELSE "keep",
           ![r].config = IF shop.active THEN [Blank EXCEPT !.active = TRUE, !.settings = shop.settings]
                        ELSE Blank]
    /\ UNCHANGED <<entry, lost>> /\ Saved

buildConfig(r) ==
    /\ reader[r].at = "parts"
    /\ reader' = [reader EXCEPT ![r].at = "keep", ![r].config.parts = parts]
    /\ UNCHANGED <<entry, lost>> /\ Saved

\* Mutant: kept under the version that is current when it is kept.
RememberNow(r) ==
    /\ reader[r].at = "keep"
    /\ \/ entry' = [entry EXCEPT ![tag] = reader[r].config] /\ UNCHANGED lost
       \/ lost' = TRUE /\ UNCHANGED entry
    /\ Reading(r, "served")
    /\ Saved

\* Kept under the version read before anything else was.
Remember(r) ==
    /\ reader[r].at = "keep"
    /\ \/ entry' = [entry EXCEPT ![reader[r].key] = reader[r].config] /\ UNCHANGED lost
       \/ lost' = TRUE /\ UNCHANGED entry
    /\ Reading(r, "served")
    /\ Saved

Answered(r) ==
    /\ reader[r].at = "served"
    /\ reader' = [reader EXCEPT ![r] = IdleReader]
    /\ UNCHANGED <<entry, lost>> /\ Saved

\* CONFIG_TTL_SECONDS.
ExpireEntry ==
    /\ \E v \in Versions : entry[v] # NoEntry /\ entry' = [entry EXCEPT ![v] = NoEntry]
    /\ UNCHANGED <<reader, lost>> /\ Saved

-----------------------------------------------------------------------------
(* The saves: write, then drop what is cached, then answer. *)

Served == UNCHANGED <<entry, reader>>

BeginSave(w) ==
    /\ writer[w].at = "idle" /\ saves < MaxSaves
    /\ \E what \in {"settings", "parts", "uninstall"} :
          /\ what = "uninstall" => shop.active
          /\ writer' = [writer EXCEPT ![w] = [at |-> IF what = "uninstall" THEN "drop" ELSE "write",
                                              what |-> what]]
    /\ saves' = saves + 1
    /\ UNCHANGED <<shop, parts, tag, owed, lost>> /\ Served

\* updateBranding, updateFees, updateVisibility; the forms, buttons, pixels and bumps.
Save(w) ==
    /\ writer[w].at = "write"
    /\ \/ writer[w].what = "settings" /\ shop' = [shop EXCEPT !.settings = @ + 1] /\ UNCHANGED parts
       \/ writer[w].what = "parts" /\ parts' = parts + 1 /\ UNCHANGED shop
    /\ writer' = [writer EXCEPT ![w].at = "drop"]
    /\ UNCHANGED <<tag, owed, lost, saves>> /\ Served

\* What a save answered is owed to every request that begins after it.
invalidateTag(w) ==
    /\ writer[w].at = "drop"
    /\ \/ tag' = tag + 1 /\ UNCHANGED lost
       \/ lost' = TRUE /\ UNCHANGED tag
    /\ writer' = [writer EXCEPT ![w] = IF @.what = "uninstall" THEN [@ EXCEPT !.at = "erase"]
                                       ELSE [at |-> "idle", what |-> "none"]]
    /\ owed' = CASE writer[w].what = "settings" -> [owed EXCEPT !.settings = shop.settings]
                 [] writer[w].what = "parts" -> [owed EXCEPT !.parts = parts]
                 [] OTHER -> owed
    /\ UNCHANGED <<shop, parts, saves>> /\ Served

\* appUninstalled and shopRedact drop first, and mark or erase the row afterwards.
markUninstalled(w) ==
    /\ writer[w].at = "erase"
    /\ shop' = [shop EXCEPT !.active = FALSE]
    /\ owed' = [owed EXCEPT !.active = FALSE]
    /\ writer' = [writer EXCEPT ![w] = [at |-> "idle", what |-> "none"]]
    /\ UNCHANGED <<parts, tag, lost, saves>> /\ Served

CacheInit ==
    /\ shop = [active |-> TRUE, settings |-> 0] /\ parts = 0
    /\ tag = 0 /\ entry = [v \in Versions |-> NoEntry]
    /\ reader = [r \in Readers |-> IdleReader]
    /\ writer = [w \in Writers |-> [at |-> "idle", what |-> "none"]]
    /\ owed = [active |-> TRUE, settings |-> 0, parts |-> 0]
    /\ lost = FALSE /\ saves = 0

Reads(r) == \/ currentTagVersion(r) \/ Hit(r) \/ Miss(r) \/ findShopForStorefront(r)
            \/ buildConfig(r) \/ Remember(r) \/ Answered(r)
Writes(w) == BeginSave(w) \/ Save(w) \/ invalidateTag(w) \/ markUninstalled(w)
CacheNext == \/ \E r \in Readers : Reads(r)
             \/ \E w \in Writers : Writes(w)
             \/ ExpireEntry
CacheSpec == CacheInit /\ [][CacheNext]_kvars

-----------------------------------------------------------------------------
(* Properties. *)

\* While Redis answers, a storefront request that begins after a save was answered is
\* served what was saved, or newer, however the requests that were building when it
\* was saved are ordered (cache.ts:93-117: the version is read before the compute).
ServedIsRecent ==
    lost \/ \A r \in Readers :
        (reader[r].at = "served" /\ reader[r].config.active) =>
            /\ reader[r].config.settings >= reader[r].owed.settings
            /\ reader[r].config.parts >= reader[r].owed.parts
=============================================================================
