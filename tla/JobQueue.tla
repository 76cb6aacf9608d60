------------------------------ MODULE JobQueue ------------------------------
(***************************************************************************)
(* What this application relies on in BullMQ, as it configures it: jobs    *)
(* under deduplicating ids, attempts, the lock of the worker that runs a   *)
(* job, the stall check, and the removal of finished jobs.                 *)
(***************************************************************************)
EXTENDS Naturals

CONSTANTS
  Jobs,            (* the job ids that jobKey builds                        *)
  Workers,         (* processors that may run at once                       *)
  Null,            (* nothing                                               *)
  MaxAttempts,     (* QUEUE_MAX_ATTEMPTS                                    *)
  MaxStalledCount, (* maxStalledCount                                       *)
  Steals           (* may a live run lose its lock to the stall check?      *)

ASSUME QueueAssumption ==
  /\ Null \notin Workers /\ Null \notin Jobs
  /\ MaxAttempts \in Nat \ {0} /\ MaxStalledCount \in Nat
  /\ Steals \in BOOLEAN

VARIABLES
  jobState,       (* where the job of an id is; "none": the id is free      *)
  attemptsMade,   (* attempts that threw                                    *)
  stalls,         (* times the stall check took the job back                *)
  owner,          (* the worker whose lock is on the job                    *)
  running         (* the job whose processor a worker is running            *)

jobVars == <<jobState, attemptsMade, stalls, owner, running>>

JobStates == {"none", "waiting", "active", "completed", "failed"}

QueueTypeOK ==
  /\ jobState \in [Jobs -> JobStates]
  /\ attemptsMade \in [Jobs -> 0..MaxAttempts]
  /\ stalls \in [Jobs -> 0..MaxStalledCount]
  /\ owner \in [Jobs -> Workers \cup {Null}]
  /\ running \in [Workers -> Jobs \cup {Null}]

QueueInit ==
  /\ jobState = [j \in Jobs |-> "none"]
  /\ attemptsMade = [j \in Jobs |-> 0]
  /\ stalls = [j \in Jobs |-> 0]
  /\ owner = [j \in Jobs |-> Null]
  /\ running = [w \in Workers |-> Null]

\* Mutant: an id that is kept for a finished job is used again.
AddAnyway(j) ==
  /\ jobState' = [jobState EXCEPT ![j] = "waiting"]
  /\ attemptsMade' = [attemptsMade EXCEPT ![j] = 0]
  /\ stalls' = [stalls EXCEPT ![j] = 0]
  /\ UNCHANGED <<owner, running>>

\* add with a job id: nothing happens while any job has the id.
Add(j) ==
  /\ IF jobState[j] = "none"
     THEN /\ jobState' = [jobState EXCEPT ![j] = "waiting"]
          /\ attemptsMade' = [attemptsMade EXCEPT ![j] = 0]
          /\ stalls' = [stalls EXCEPT ![j] = 0]
     ELSE UNCHANGED <<jobState, attemptsMade, stalls>>
  /\ UNCHANGED <<owner, running>>

Take(w, j) ==
  /\ running[w] = Null /\ jobState[j] = "waiting"
  /\ jobState' = [jobState EXCEPT ![j] = "active"]
  /\ owner' = [owner EXCEPT ![j] = w]
  /\ running' = [running EXCEPT ![w] = j]
  /\ UNCHANGED <<attemptsMade, stalls>>

Holds(w) == running[w] # Null /\ owner[running[w]] = w /\ jobState[running[w]] = "active"

\* A run ends. Only the worker that holds the lock can move the job.
EndRun(w, state) ==
  /\ running' = [running EXCEPT ![w] = Null]
  /\ IF Holds(w)
     THEN /\ jobState' = [jobState EXCEPT ![running[w]] = state]
          /\ owner' = [owner EXCEPT ![running[w]] = Null]
     ELSE UNCHANGED <<jobState, owner>>

Return(w) ==
  /\ running[w] # Null
  /\ EndRun(w, "completed")
  /\ UNCHANGED <<attemptsMade, stalls>>

LastAttempt(j) == attemptsMade[j] + 1 >= MaxAttempts

Throw(w) ==
  /\ running[w] # Null
  /\ EndRun(w, IF LastAttempt(running[w]) THEN "failed" ELSE "waiting")
  /\ attemptsMade' = [attemptsMade EXCEPT ![running[w]] = IF Holds(w) THEN @ + 1 ELSE @]
  /\ UNCHANGED stalls

\* The process dies, and starts again: the job stays active under its lock.
Die(w) ==
  /\ running[w] # Null
  /\ running' = [running EXCEPT ![w] = Null]
  /\ UNCHANGED <<jobState, attemptsMade, stalls, owner>>

Abandoned(j) == owner[j] # Null => running[owner[j]] # j

\* Mutant: the check takes a job from a worker that renews its lock, and never
\* counts.
StallAny(j) ==
  /\ jobState[j] = "active"
  /\ jobState' = [jobState EXCEPT ![j] = "waiting"]
  /\ owner' = [owner EXCEPT ![j] = Null]
  /\ UNCHANGED <<attemptsMade, stalls, running>>

\* The stall check takes back a job whose lock lapsed, and fails it once it
\* stalled more than maxStalledCount times; no processor learns of that.
Stall(j) ==
  /\ jobState[j] = "active" /\ (Abandoned(j) \/ Steals)
  /\ owner' = [owner EXCEPT ![j] = Null]
  /\ IF stalls[j] < MaxStalledCount
     THEN /\ jobState' = [jobState EXCEPT ![j] = "waiting"]
          /\ stalls' = [stalls EXCEPT ![j] = @ + 1]
     ELSE jobState' = [jobState EXCEPT ![j] = "failed"] /\ UNCHANGED stalls
  /\ UNCHANGED <<attemptsMade, running>>

\* removeOnComplete and removeOnFail free the id long after the job ended.
Expire(j) ==
  /\ jobState[j] \in {"completed", "failed"}
  /\ \A w \in Workers : running[w] # j
  /\ jobState' = [jobState EXCEPT ![j] = "none"]
  /\ UNCHANGED <<attemptsMade, stalls, owner, running>>

QueueNext ==
  \/ \E j \in Jobs : Add(j) \/ Stall(j) \/ Expire(j)
  \/ \E w \in Workers :
       \/ \E j \in Jobs : Take(w, j)
       \/ Return(w) \/ Throw(w) \/ Die(w)

QueueSpec == QueueInit /\ [][QueueNext]_jobVars

\* Workers take waiting jobs, processors end, and the stall check runs.
QueueFairness ==
  /\ \A w \in Workers, j \in Jobs : SF_jobVars(Take(w, j))
  /\ \A w \in Workers : WF_jobVars(Return(w) \/ Throw(w) \/ Die(w))
  /\ \A j \in Jobs : WF_jobVars(Stall(j))

FairQueueSpec == QueueSpec /\ QueueFairness

-----------------------------------------------------------------------------
\* "Too low and a slow-but-healthy job is stolen by another worker and runs
\* twice": unless that happens, one processor runs a job at a time.
OneRunPerJob ==
  ~Steals => \A v, w \in Workers : running[v] = running[w] /\ running[v] # Null => v = w

\* A waiting job is nobody's, and a lock is only on an active job.
LocksAreOnActiveJobs == \A j \in Jobs : owner[j] # Null => jobState[j] = "active"

\* attempts and maxStalledCount: a job that was added ends.
JobsEnd == \A j \in Jobs : jobState[j] = "waiting" ~> jobState[j] \in {"completed", "failed"}
=============================================================================
