------------------------------ MODULE SheetSync ------------------------------
(***************************************************************************)
(* The worker that writes pushed orders into the merchant's spreadsheet:   *)
(* syncOrder one await at a time, over the job queue, while the merchant   *)
(* connects, disconnects, moves and backfills, and Google fails.           *)
(* One row is written per order; the header row, which is checked before   *)
(* every write and is the same whoever writes it, is left out.             *)
(***************************************************************************)
EXTENDS JobQueue, FiniteSets, Sequences

CONSTANTS
  Sheets,      (* spreadsheets of the merchant                              *)
  InsertAtTop, (* SheetConfig.insertAtTop, with a known worksheet id        *)
  Outages,     (* may the database fail, an answer be lost, a worker die?   *)
  Removals,    (* do finished jobs lose their ids?                          *)
  MaxActs      (* bound on what the merchant and Google do                  *)

\* A row that was opened and has no values yet.
Blank == "blank"

ASSUME SheetAssumption ==
  /\ Null \notin Sheets /\ Sheets \cap Jobs = {} /\ Sheets # {}
  /\ IsFiniteSet(Workers) /\ Blank \notin Jobs
  /\ InsertAtTop \in BOOLEAN /\ Outages \in BOOLEAN /\ Removals \in BOOLEAN
  /\ MaxActs \in Nat

VARIABLES
  status,      (* CodOrder.sheetSyncStatus                                  *)
  pushed,      (* orders whose push has come to the sheet                   *)
  target,      (* SheetConfig: the spreadsheet, Null for no row             *)
  configId,    (* SheetConfig.id, as the number of rows deleted before it   *)
  active,      (* SheetConfig.isActive                                      *)
  autoSync,    (* SheetConfig.autoSync                                      *)
  account,     (* GoogleAccount: none, connected, or marked revoked         *)
  granted,     (* does Google still honour the refresh token?               *)
  reachable,   (* spreadsheets that exist and are shared                    *)
  rows,        (* the data rows of each spreadsheet, top first              *)
  pc,          (* syncOrder in each worker: its step,                       *)
  using,       (* and the spreadsheet and the id of the config it read      *)
  usingId,
  backlog,     (* orders a backfill has read and not yet queued             *)
  acts         (* what the merchant and Google did so far                   *)

orderVars == <<status, pushed>>
configVars == <<target, configId, active, autoSync, account>>
googleVars == <<granted, reachable, rows>>
runVars == <<pc, using, usingId>>
vars == <<jobVars, orderVars, configVars, googleVars, runVars, backlog, acts>>

Status == {"PENDING", "IN_PROGRESS", "SUCCESS", "FAILED", "SKIPPED"}
Step == {"idle", "config", "skip", "mark", "token", "open", "fill", "write",
         "success", "record", "failed", "failure", "unavailable", "throw", "done"}

SyncTypeOK ==
  /\ status \in [Jobs -> Status] /\ pushed \in SUBSET Jobs
  /\ target \in Sheets \cup {Null} /\ active \in BOOLEAN /\ autoSync \in BOOLEAN
  /\ configId \in 0..MaxActs
  /\ account \in {"none", "connected", "revoked"} /\ granted \in BOOLEAN
  /\ reachable \in SUBSET Sheets
  /\ rows \in [Sheets -> Seq(Jobs \cup {Blank})]
  /\ pc \in [Workers -> Step] /\ using \in [Workers -> Sheets \cup {Null}]
  /\ usingId \in [Workers -> 0..MaxActs]
  /\ \A w \in Workers : pc[w] = "idle" <=> running[w] = Null
  /\ backlog \in SUBSET Jobs /\ acts \in 0..MaxActs /\ configId <= acts

TypeOK == QueueTypeOK /\ SyncTypeOK

Init ==
  /\ QueueInit
  /\ status = [o \in Jobs |-> "PENDING"] /\ pushed = {}
  /\ target \in Sheets \cup {Null} /\ active = (target # Null) /\ autoSync = TRUE
  /\ configId = 0
  /\ account = IF target = Null THEN "none" ELSE "connected"
  /\ granted = (target # Null) /\ reachable = Sheets
  /\ rows = [s \in Sheets |-> <<>>]
  /\ pc = [w \in Workers |-> "idle"] /\ using = [w \in Workers |-> Null]
  /\ usingId = [w \in Workers |-> 0]
  /\ backlog = {} /\ acts = 0

-----------------------------------------------------------------------------
(* Enqueueing                                                               *)

\* The push enqueues the sync; enqueueSheetSync swallows its own failure.
EnqueueSheetSync(o) ==
  /\ o \notin pushed
  /\ pushed' = pushed \cup {o}
  /\ Add(o) \/ (Outages /\ UNCHANGED jobVars)
  /\ UNCHANGED <<status, configVars, googleVars, runVars, backlog, acts>>

Unsynced == {o \in Jobs : status[o] \in {"PENDING", "FAILED"}}

\* backfill reads the orders that are not in the sheet, pushed or not ...
CollectBacklog ==
  /\ acts < MaxActs /\ target # Null /\ backlog = {} /\ Unsynced # {}
  /\ backlog' = Unsynced
  /\ acts' = acts + 1
  /\ UNCHANGED <<jobVars, orderVars, configVars, googleVars, runVars>>

\* ... and adds their jobs (here one after the other), each under the id the
\* push uses; enqueueSheetSyncBulk swallows its own failure.
EnqueueBacklog(o) ==
  /\ o \in backlog
  /\ Add(o) \/ (Outages /\ UNCHANGED jobVars)
  /\ backlog' = backlog \ {o}
  /\ UNCHANGED <<orderVars, configVars, googleVars, runVars, acts>>

-----------------------------------------------------------------------------
(* The merchant and Google                                                  *)

Act == acts < MaxActs /\ acts' = acts + 1
Apart == UNCHANGED <<jobVars, orderVars, runVars, backlog>>

\* The merchant deletes or un-shares a spreadsheet, or revokes the grant.
Unshare(s) ==
  /\ Act /\ Apart /\ s \in reachable
  /\ reachable' = reachable \ {s}
  /\ UNCHANGED <<configVars, granted, rows>>

RevokeGrant ==
  /\ Act /\ Apart /\ granted
  /\ granted' = FALSE
  /\ UNCHANGED <<configVars, reachable, rows>>

\* completeConnect: a new grant, and revokedAt cleared.
Connect ==
  /\ Act /\ Apart /\ account # "connected"
  /\ account' = "connected" /\ granted' = TRUE
  /\ UNCHANGED <<target, configId, active, autoSync, reachable, rows>>

\* disconnect: the account row goes, and the SheetConfig cascades with it (the
\* next one starts with autoSync on).
Disconnect ==
  /\ Act /\ Apart /\ account # "none"
  /\ account' = "none" /\ granted' = FALSE
  /\ target' = Null /\ active' = FALSE
  /\ configId' = IF target = Null THEN configId ELSE configId + 1
  /\ autoSync' = TRUE
  /\ UNCHANGED <<reachable, rows>>

\* upsertConfig: selecting a spreadsheet moves the one row, and activates it.
SelectSheet(s) ==
  /\ Act /\ Apart /\ account = "connected" /\ granted /\ s \in reachable
  /\ target' = s /\ active' = TRUE
  /\ UNCHANGED <<configId, autoSync, account, googleVars>>

\* updateSettings: the merchant turns sync, or the config, off or on. (Where rows go is
\* InsertAtTop for the whole of a run.)
UpdateSettings ==
  /\ Act /\ Apart /\ target # Null
  /\ \/ autoSync' = ~autoSync /\ UNCHANGED active
     \/ active' = ~active /\ UNCHANGED autoSync
  /\ UNCHANGED <<target, configId, account, googleVars>>

-----------------------------------------------------------------------------
(* syncOrder                                                                *)

Goto(w, step) == pc' = [pc EXCEPT ![w] = step] /\ UNCHANGED <<using, usingId>>
Leave(w) ==
  /\ pc' = [pc EXCEPT ![w] = "idle"]
  /\ using' = [using EXCEPT ![w] = Null] /\ usingId' = [usingId EXCEPT ![w] = 0]
At(w, step) == pc[w] = step
Order(w) == running[w]
Mark(w, s) == status' = [status EXCEPT ![Order(w)] = s] /\ UNCHANGED pushed
OutsideRun == UNCHANGED <<configVars, googleVars, backlog, acts>>

Start(w, o) ==
  /\ Take(w, o)
  /\ Goto(w, "config")
  /\ UNCHANGED <<orderVars, configVars, googleVars, backlog, acts>>

\* findActiveConfig: the row as it is now; the run keeps what it read.
ReadConfig(w) ==
  /\ At(w, "config")
  /\ IF active /\ autoSync
     THEN /\ pc' = [pc EXCEPT ![w] = "mark"]
          /\ using' = [using EXCEPT ![w] = target]
          /\ usingId' = [usingId EXCEPT ![w] = configId]
     ELSE Goto(w, "skip")
  /\ UNCHANGED <<jobVars, orderVars>> /\ OutsideRun

MarkSkipped(w) ==
  /\ At(w, "skip")
  /\ Mark(w, "SKIPPED") /\ Goto(w, "done")
  /\ UNCHANGED jobVars /\ OutsideRun

FirstWrite == IF InsertAtTop THEN "open" ELSE "write"

\* Mutant: the status is written before the row.
SuccessFirst(w) ==
  /\ At(w, "mark")
  /\ Mark(w, "SUCCESS") /\ Goto(w, "token")
  /\ UNCHANGED jobVars /\ OutsideRun

MarkInProgress(w) ==
  /\ At(w, "mark")
  /\ Mark(w, "IN_PROGRESS") /\ Goto(w, "token")
  /\ UNCHANGED jobVars /\ OutsideRun

\* accessTokenFor: a stored token may still be fresh; otherwise it is renewed,
\* and a dead grant is marked on the account. A ConflictError deactivates.
AccessToken(w) ==
  /\ At(w, "token")
  /\ \/ account = "connected" /\ Goto(w, FirstWrite) /\ UNCHANGED account
     \/ account = "connected" /\ ~granted /\ account' = "revoked" /\ Goto(w, "unavailable")
     \/ account = "revoked" /\ Goto(w, "unavailable") /\ UNCHANGED account
     \/ account = "none" /\ Goto(w, "failed") /\ UNCHANGED account
     \/ Outages /\ Goto(w, "failed") /\ UNCHANGED account
  /\ UNCHANGED <<jobVars, orderVars, target, configId, active, autoSync, googleVars, backlog, acts>>

\* A request to Google: it is refused, it fails before or after it took
\* effect, or it succeeds. 403 and 404 are SheetUnavailableError.
Request(w, effect, next) ==
  \/ /\ granted /\ using[w] \in reachable
     /\ rows' = [rows EXCEPT ![using[w]] = effect]
     /\ Goto(w, next) \/ (Outages /\ Goto(w, "failed"))
  \/ /\ granted /\ using[w] \notin reachable
     /\ Goto(w, "unavailable") /\ UNCHANGED rows
  \/ /\ ~granted \/ Outages
     /\ Goto(w, "failed") /\ UNCHANGED rows

\* appendRows: one call, below the last row.
AppendRow(w) ==
  /\ At(w, "write")
  /\ Request(w, Append(rows[using[w]], Order(w)), "success")
  /\ UNCHANGED <<jobVars, orderVars, configVars, granted, reachable, backlog, acts>>

\* prependRows: insertDimension opens a blank row under the header ...
OpenRow(w) ==
  /\ At(w, "open")
  /\ Request(w, <<Blank>> \o rows[using[w]], "fill")
  /\ UNCHANGED <<jobVars, orderVars, configVars, granted, reachable, backlog, acts>>

\* ... and the values are put into the first row under the header.
FillRow(w) ==
  /\ At(w, "fill")
  /\ Request(w, [rows[using[w]] EXCEPT ![1] = Order(w)], "success")
  /\ UNCHANGED <<jobVars, orderVars, configVars, granted, reachable, backlog, acts>>

MarkSuccess(w) ==
  /\ At(w, "success")
  /\ \/ Mark(w, "SUCCESS") /\ Goto(w, "record")
     \/ Outages /\ Goto(w, "failed") /\ UNCHANGED orderVars
  /\ UNCHANGED jobVars /\ OutsideRun

ConfigGone(w) == target = Null \/ configId # usingId[w]

\* recordSuccess and logSync are inside the try: a failure there, or a config
\* deleted meanwhile, is handled as a failed sync.
RecordSuccess(w) ==
  /\ At(w, "record")
  /\ \/ ~ConfigGone(w) /\ Goto(w, "done")
     \/ (ConfigGone(w) \/ Outages) /\ Goto(w, "failed")
  /\ UNCHANGED <<jobVars, orderVars>> /\ OutsideRun

\* Mutant: the catch block leaves the status to the next attempt.
FailSilently(w) ==
  /\ pc[w] \in {"failed", "unavailable"}
  /\ Goto(w, IF At(w, "unavailable") THEN "failure" ELSE "throw")
  /\ UNCHANGED <<jobVars, orderVars>> /\ OutsideRun

\* The catch block: the status, then the failure on the config, which throws
\* where the config is gone; then the error decides.
MarkFailed(w) ==
  /\ pc[w] \in {"failed", "unavailable"}
  /\ \/ Mark(w, "FAILED")
        /\ Goto(w, IF At(w, "unavailable") THEN "failure" ELSE "throw")
     \/ Outages /\ Goto(w, "throw") /\ UNCHANGED orderVars
  /\ UNCHANGED jobVars /\ OutsideRun

\* Terminal: the shop's config is deactivated, and the job completes.
Deactivate(w) ==
  /\ At(w, "failure")
  /\ \/ ~ConfigGone(w) /\ active' = FALSE /\ Goto(w, "done")
     \/ (ConfigGone(w) \/ Outages) /\ Goto(w, "throw") /\ UNCHANGED active
  /\ UNCHANGED <<jobVars, orderVars, target, configId, autoSync, account, googleVars, backlog, acts>>

Finish(w) ==
  /\ \/ At(w, "done") /\ Return(w)
     \/ At(w, "throw") /\ Throw(w)
  /\ Leave(w)
  /\ UNCHANGED orderVars /\ OutsideRun

Crash(w) ==
  /\ Outages
  /\ Die(w) /\ Leave(w)
  /\ UNCHANGED orderVars /\ OutsideRun

StallCheck(o) ==
  /\ Stall(o)
  /\ UNCHANGED <<orderVars, configVars, googleVars, runVars, backlog, acts>>

RemoveJob(o) ==
  /\ Removals
  /\ Expire(o)
  /\ UNCHANGED <<orderVars, configVars, googleVars, runVars, backlog, acts>>

-----------------------------------------------------------------------------
Run(w) ==
  \/ ReadConfig(w) \/ MarkSkipped(w) \/ MarkInProgress(w) \/ AccessToken(w)
  \/ AppendRow(w) \/ OpenRow(w) \/ FillRow(w)
  \/ MarkSuccess(w) \/ RecordSuccess(w) \/ MarkFailed(w) \/ Deactivate(w)
  \/ Finish(w)

Merchant ==
  \/ CollectBacklog \/ RevokeGrant \/ Connect \/ Disconnect \/ UpdateSettings
  \/ \E s \in Sheets : Unshare(s) \/ SelectSheet(s)

Next ==
  \/ Merchant
  \/ \E o \in Jobs :
       EnqueueSheetSync(o) \/ EnqueueBacklog(o) \/ StallCheck(o) \/ RemoveJob(o)
  \/ \E w \in Workers :
       (\E o \in Jobs : Start(w, o)) \/ Run(w) \/ Crash(w)

Spec == Init /\ [][Next]_vars

\* Workers take jobs and run them, and the stall check runs.
Fairness ==
  /\ \A w \in Workers, o \in Jobs : SF_vars(Start(w, o))
  /\ \A w \in Workers : WF_vars(Run(w))
  /\ \A o \in Jobs : WF_vars(StallCheck(o))

FairSpec == Spec /\ Fairness

-----------------------------------------------------------------------------
InSheet(o) == \E s \in Sheets : \E i \in DOMAIN rows[s] : rows[s][i] = o

RowsOf(o) == Cardinality(UNION {{<<s, i>> : i \in {k \in DOMAIN rows[s] : rows[s][k] = o}}
                                  : s \in Sheets})

\* setOrderSyncStatus: an order the list shows as synced has a row: always when
\* rows are appended, and at the top while one worker writes.
SyncedIsInSheet ==
  ~InsertAtTop \/ Cardinality(Workers) = 1 =>
    \A o \in Jobs : status[o] = "SUCCESS" => InSheet(o)

\* enqueueSheetSync: pushes and backfills collapse to one job, so an order has
\* one row, as long as nothing fails after the row and the config is not deleted.
OneRowPerOrder ==
  ~Outages /\ ~Removals /\ configId = 0 => \A o \in Jobs : RowsOf(o) <= 1

\* Without a crash, no order is left marked as being written.
InProgressEnds ==
  \A o \in Jobs : status[o] = "IN_PROGRESS" ~> status[o] # "IN_PROGRESS"
=============================================================================
