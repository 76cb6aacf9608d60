-------------------------- MODULE SettingsTransfer ---------------------------
(***************************************************************************)
(* Settings backup, transfer and restore (modules/transfer): a merchant    *)
(* downloads the shop's configuration as a file and applies such a file,   *)
(* section after section, while other tabs save screens of their own.      *)
(*                                                                         *)
(* A configuration has, per section, rows by key, and a row has columns.   *)
(***************************************************************************)
EXTENDS Integers, FiniteSets, TLC

CONSTANTS
    Requests,     \* admin requests at once
    Shop,         \* the configuration to start with
    Backups,      \* what was downloaded before, if anything
    Foreign,      \* files merchants have from elsewhere, or edited by hand
    Screens,      \* what the other screens of the admin save: [section, key, data]
    MaxRequests,  \* bound on requests
    MaxFailures   \* bound on writes that fail

Sections == {"settings", "buttons", "forms", "fraud", "fraudRules"}
\* A shop has every section, a file some of them.
ASSUME TransferAssumption ==
    /\ MaxRequests \in Nat /\ MaxFailures \in Nat
    /\ Shop = [s \in Sections |-> Shop[s]] /\ \A file \in Foreign \cup Backups : DOMAIN file \subseteq Sections

NoRows == [k \in {} |-> "nothing"]
\* What the database gives a row for the columns an insert leaves out.
Defaults == [s \in Sections |->
    CASE s = "buttons" -> [isEnabled |-> TRUE, label |-> "Order Now", shown |-> TRUE]
      [] s = "forms" -> [isActive |-> TRUE, fields |-> {}]
      [] s = "fraud" -> [mediumThreshold |-> 30, highThreshold |-> 60]
      [] OTHER -> NoRows]

VARIABLES
    store,     \* the shop's rows
    transfer,  \* per request: [at, file (or what a screen saves), got, before, left, start, alone]
    backup,    \* the last file downloaded
    trail,     \* the before-snapshot of the last import the audit log has
    stale,     \* is the storefront's cached configuration older than the rows?
    failures,
    requests

cvars == <<store, transfer, backup, trail, stale, failures, requests>>

NoFile == NoRows
Idle == [at |-> "idle", file |-> NoFile, got |-> NoFile, before |-> NoFile, left |-> {}, start |-> NoFile,
         alone |-> TRUE]
Set(t, r) == transfer' = [transfer EXCEPT ![t] = r]

-----------------------------------------------------------------------------
(* One write. *)

\* Columns a file omits are left alone.
defined(data, row) ==
    [c \in DOMAIN data \cup DOMAIN row |-> IF c \in DOMAIN data THEN data[c] ELSE row[c]]

\* A row that is not there is made of the file's columns and the defaults.
upsert(table, section, key, data) ==
    LET row == defined(data, IF key \in DOMAIN table THEN table[key] ELSE Defaults[section])
    IN defined([k \in {key} |-> row], table)

\* Mutant: a form's questions are always replaced, by none where the file has none.
AlwaysReplaced(table, name, data) ==
    upsert(table, "forms", name, [c \in DOMAIN data \cup {"fields"} |-> IF c \in DOMAIN data THEN data[c] ELSE {}])

\* One transaction; a file without questions for a form leaves it those it has. The other
\* forms stay as they are, active ones too.
replaceFormFields(table, name, data) ==
    upsert(table, "forms", name,
           IF "fields" \in DOMAIN data /\ data["fields"] = {}
           THEN [c \in DOMAIN data \ {"fields"} |-> data[c]] ELSE data)

Written(section, key, data) ==
    [store EXCEPT ![section] = IF section = "forms" THEN replaceFormFields(@, key, data)
                               ELSE upsert(@, section, key, data)]

\* Every write shows in the storefront only once the cache is told.
Write(t, tables, r) ==
    /\ store' = tables
    /\ stale' = TRUE
    /\ transfer' = [u \in Requests |-> IF u = t THEN r
                                      ELSE [transfer[u] EXCEPT !.alone = @ /\ tables = store]]

-----------------------------------------------------------------------------
(* The requests. *)

Begins(t, at, file) ==
    /\ transfer[t].at = "idle" /\ requests < MaxRequests /\ requests' = requests + 1
    /\ Set(t, [Idle EXCEPT !.at = at, !.file = file, !.start = store])
    /\ UNCHANGED <<store, backup, trail, stale, failures>>

StartExport(t) == Begins(t, "export", NoFile)

\* The file was checked: every column it has is one the screens have too.
StartImport(t) ==
    \E file \in Foreign \cup ({backup, trail} \ {NoFile}) : Begins(t, "before", file)

\* exportSettings reads its five sections side by side.
exportSettings(t) ==
    /\ transfer[t].at \in {"export", "before"}
    /\ \E s \in Sections \ DOMAIN transfer[t].got :
          Set(t, [transfer[t] EXCEPT !.got = defined([x \in {s} |-> store[s]], @)])
    /\ UNCHANGED <<store, backup, trail, stale, failures, requests>>

Complete(t) == DOMAIN transfer[t].got = Sections

Downloaded(t) ==
    /\ transfer[t].at = "export" /\ Complete(t)
    /\ backup' = transfer[t].got
    /\ Set(t, Idle)
    /\ UNCHANGED <<store, trail, stale, failures, requests>>

\* The sections in their order, of those the file has.
After(at) == CASE at = "before" -> "settings" [] at = "settings" -> "buttons" [] at = "buttons" -> "forms"
               [] at = "forms" -> "fraud" [] at = "fraud" -> "fraudRules" [] at = "fraudRules" -> "invalidate"
Rows(file, section) == IF section \in DOMAIN file THEN DOMAIN file[section] ELSE {}
Onward(r) == LET at == After(r.at) IN [r EXCEPT !.at = at, !.left = Rows(r.file, at)]

SnapshotTaken(t) ==
    /\ transfer[t].at = "before" /\ Complete(t)
    /\ Set(t, [Onward(transfer[t]) EXCEPT !.before = transfer[t].got, !.got = NoFile])
    /\ UNCHANGED <<store, backup, trail, stale, failures, requests>>

ImportRow(t) ==
    LET r == transfer[t]
    IN /\ r.at \in {"settings", "buttons", "forms", "fraud"}
       /\ \E key \in r.left :
             Write(t, Written(r.at, key, r.file[r.at][key]), [r EXCEPT !.left = @ \ {key}])
       /\ UNCHANGED <<backup, trail, failures, requests>>

NextSection(t) ==
    /\ \/ transfer[t].at \in {"settings", "buttons", "forms", "fraud"} /\ transfer[t].left = {}
       \/ transfer[t].at = "fraudRules" /\ "fraudRules" \notin DOMAIN transfer[t].file
    /\ Set(t, Onward(transfer[t]))
    /\ UNCHANGED <<store, backup, trail, stale, failures, requests>>

\* The rules of the file, and no other: one transaction.
replaceFraudRules(t) ==
    LET r == transfer[t]
    IN /\ r.at = "fraudRules" /\ "fraudRules" \in DOMAIN r.file
       /\ Write(t, [store EXCEPT !["fraudRules"] = r.file["fraudRules"]], Onward(r))
       /\ UNCHANGED <<backup, trail, failures, requests>>

invalidateTag(t) ==
    /\ transfer[t].at = "invalidate"
    /\ stale' = FALSE
    /\ Set(t, [transfer[t] EXCEPT !.at = "after"])
    /\ UNCHANGED <<store, backup, trail, failures, requests>>

\* What may be secret is blotted out of a snapshot by its name, and what is deep by its
\* depth: "currencyFormat" has "enc" in it, a question's choices are seven levels down.
Redacted == "[redacted]"
sanitize(snapshot) ==
    LET blot(question) == IF question.choices = "none" THEN question ELSE [question EXCEPT !.choices = Redacted]
    IN [s \in DOMAIN snapshot |-> [k \in DOMAIN snapshot[s] |-> [c \in DOMAIN snapshot[s][k] |->
            CASE c = "currencyFormat" -> Redacted
              [] c = "fields" -> {blot(question) : question \in snapshot[s][k][c]}
              [] OTHER -> snapshot[s][k][c]]]]

\* The audit log gets an import that ended, with what was before it, or fails in silence.
\* (What it gets of the state afterwards, nothing reads.)
recordForRequest(t) ==
    /\ transfer[t].at = "after"
    /\ \/ trail' = sanitize(transfer[t].before) /\ UNCHANGED failures
       \/ failures < MaxFailures /\ failures' = failures + 1 /\ UNCHANGED trail
    /\ Set(t, [transfer[t] EXCEPT !.at = "done"])
    /\ UNCHANGED <<store, backup, stale, requests>>

\* A write fails: what was written stays, the cache is not told and nothing is logged.
Fails(t) ==
    /\ transfer[t].at \in {"settings", "buttons", "forms", "fraud", "fraudRules"}
    /\ failures < MaxFailures /\ failures' = failures + 1
    /\ Set(t, [transfer[t] EXCEPT !.at = "failed"])
    /\ UNCHANGED <<store, backup, trail, stale, requests>>

Answers(t) ==
    /\ transfer[t].at \in {"done", "failed"}
    /\ Set(t, Idle)
    /\ UNCHANGED <<store, backup, trail, stale, failures, requests>>

\* Another screen is opened to be saved: a button's is checked and merged with its row as
\* it is read, and an unset placement is one that is off.
defaultsFor == [Defaults["buttons"] EXCEPT !.isEnabled = FALSE]
assertVisible(row) == row.isEnabled => row.shown

updateButton(t) ==
    /\ transfer[t].at = "idle" /\ requests < MaxRequests /\ requests' = requests + 1
    /\ \E s \in Screens :
          LET table == store["buttons"]
              merged == defined(s.data, IF s.key \in DOMAIN table THEN table[s.key] ELSE defaultsFor)
          IN /\ s.section = "buttons" => assertVisible(merged)
             /\ Set(t, [Idle EXCEPT !.at = "saving",
                            !.file = s.section :> (s.key :> IF s.section = "buttons" THEN merged ELSE s.data)])
    /\ UNCHANGED <<store, backup, trail, stale, failures>>

\* It writes every column of the button, whatever was written since.
Saves(t) ==
    LET file == transfer[t].file
    IN /\ transfer[t].at = "saving"
       /\ \E section \in DOMAIN file : \E key \in DOMAIN file[section] :
             Write(t, Written(section, key, file[section][key]), [Idle EXCEPT !.at = "told"])
       /\ UNCHANGED <<backup, trail, failures, requests>>

Told(t) ==
    /\ transfer[t].at = "told"
    /\ stale' = FALSE
    /\ Set(t, Idle)
    /\ UNCHANGED <<store, backup, trail, failures, requests>>

TransferInit ==
    /\ store = Shop
    /\ transfer = [t \in Requests |-> Idle]
    /\ backup \in Backups /\ trail = NoFile
    /\ stale = FALSE /\ failures = 0 /\ requests = 0

TransferNext ==
    \E t \in Requests :
        \/ StartExport(t) \/ StartImport(t) \/ exportSettings(t) \/ Downloaded(t)
        \/ SnapshotTaken(t) \/ ImportRow(t) \/ NextSection(t) \/ replaceFraudRules(t)
        \/ invalidateTag(t) \/ recordForRequest(t) \/ Fails(t) \/ Answers(t)
        \/ updateButton(t) \/ Saves(t) \/ Told(t)

TransferSpec == TransferInit /\ [][TransferNext]_cvars

-----------------------------------------------------------------------------
(* Properties. *)

Imported(t) == transfer[t].at \in {"after", "done"} /\ transfer[t].alone

\* A form's questions, where the file has none of them.
LeftOut(s, data, c) == s = "forms" /\ c = "fields" /\ data[c] = {}
\* A row reads as the file has it, and keeps the columns the file does not have.
ReadsAs(s, data, now) == \A c \in DOMAIN data : LeftOut(s, data, c) \/ now[c] = data[c]
Keeps(s, row, data, now) ==
    \A c \in DOMAIN row : (c \in DOMAIN data => LeftOut(s, data, c)) => now[c] = row[c]

\* An import that ended undisturbed left what its file says, and what it leaves out as it
\* was; the rules are the file's and no other.
ImportRestores ==
    \A t \in Requests : Imported(t) =>
        LET file == transfer[t].file
            start == transfer[t].start
        IN /\ \A s \in DOMAIN file : \A k \in DOMAIN file[s] :
                 k \in DOMAIN store[s] /\ ReadsAs(s, file[s][k], store[s][k])
           /\ "fraudRules" \in DOMAIN file => DOMAIN store["fraudRules"] = DOMAIN file["fraudRules"]
           /\ \A s \in Sections : \A k \in DOMAIN start[s] :
                 IF k \notin Rows(file, s)
                 THEN (s = "fraudRules" /\ s \in DOMAIN file) \/ store[s][k] = start[s][k]
                 ELSE s # "fraudRules" => Keeps(s, start[s][k], file[s][k], store[s][k])

\* The storefront shows old settings only while they are being written, or when an
\* import failed and no write came after it.
StaleWhileWriting ==
    stale => failures > 0 \/ \E t \in Requests : transfer[t].at \notin {"idle", "export", "before", "after", "saving", "done"}

\* A settings file restores what it has and nothing else, and the storefront is told
\* (transfer/service.ts importSettings).
TransferIsFaithful == ImportRestores /\ StaleWhileWriting

\* transfer/controller.ts: "the before-snapshot is what makes it recoverable".
SnapshotRecovers ==
    \A t \in Requests : transfer[t].at = "done" /\ transfer[t].alone /\ failures = 0 => trail = transfer[t].before
=============================================================================
