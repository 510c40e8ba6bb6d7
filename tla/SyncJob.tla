------------------------------- MODULE SyncJob -------------------------------
(***************************************************************************)
(* Who synchronises a bank connection: clicks and the beat queue jobs, and   *)
(* workers run them behind a lock with a time to live that a heartbeat       *)
(* renews.  Translated from tasks/sync_tasks.py and api/connections.py; what *)
(* the job does to the ledger is BankFeed.                                   *)
(***************************************************************************)
EXTENDS Naturals, FiniteSets

CONSTANTS Workers, Tabs, MaxJobs, Nobody

ASSUME SyncJobAssumption == MaxJobs \in Nat /\ Nobody \notin Workers

VARIABLES
  status,   \* bank_connections.last_sync_status, and "deleted"
  age,      \* how long ago last_sync_started_at is
  stale,    \* last_sync_at, set by the first import, is hours ago
  lock,     \* the worker whose token holds the Redis key
  beating,  \* workers whose heartbeat renews the key
  jobs,     \* jobs in the broker that ask for fresh data, and that do not
  worker,   \* where a worker is
  fresh,    \* what the provider's refresh said to a worker
  tab       \* where a click is

syncVars == <<status, age, stale, lock, beating, jobs, worker, fresh, tab>>

Terminal  == {"success", "error", "rate_limited", "cached", "action_required"}
Unfinished == {"queued", "running"}

SyncTypeOK ==
  /\ status \in {"idle", "deleted"} \cup Unfinished \cup Terminal
  /\ age \in {"never", "recent", "cooled", "orphaned"}
  /\ stale \in BOOLEAN
  /\ lock \in Workers \cup {Nobody}
  /\ beating \subseteq Workers
  /\ jobs \in [BOOLEAN -> 0..MaxJobs]
  /\ worker \in [Workers -> {"idle", "locked", "refresh", "sync", "synced", "failed", "release"}]
  /\ fresh \in [Workers -> {"not_requested", "wanted", "refreshed", "failed"}]
  /\ tab \in [Tabs -> {"idle", "checked", "queued"}]

SyncInit ==
  /\ status = "idle" /\ age = "never" /\ stale = FALSE
  /\ lock = Nobody /\ beating = {}
  /\ jobs = [f \in BOOLEAN |-> 0]
  /\ worker = [w \in Workers |-> "idle"]
  /\ fresh = [w \in Workers |-> "not_requested"]
  /\ tab = [t \in Tabs |-> "idle"]

Exists      == status # "deleted"
SetStatus(s) == status' = IF Exists THEN s ELSE status
Sends(f)    == jobs' = [jobs EXCEPT ![f] = @ + 1]
At(w, pc)   == worker' = [worker EXCEPT ![w] = pc]
-----------------------------------------------------------------------------
(* The endpoint reads the row, compares, and writes it without a row lock.  *)
ClickChecks(t) ==
  /\ tab[t] = "idle" /\ Exists
  /\ status \notin Unfinished /\ age # "recent"
  /\ tab' = [tab EXCEPT ![t] = "checked"]
  /\ UNCHANGED <<status, age, stale, lock, beating, jobs, worker, fresh>>

ClickQueues(t) ==
  /\ tab[t] = "checked"
  /\ SetStatus("queued")
  /\ age' = IF Exists THEN "recent" ELSE age
  /\ tab' = [tab EXCEPT ![t] = IF Exists THEN "queued" ELSE "idle"]
  /\ UNCHANGED <<stale, lock, beating, jobs, worker, fresh>>

ClickSends(t, ok) ==
  /\ tab[t] = "queued"
  /\ IF ok THEN jobs[TRUE] < MaxJobs /\ Sends(TRUE) /\ UNCHANGED status
           ELSE SetStatus("error") /\ UNCHANGED jobs
  /\ tab' = [tab EXCEPT ![t] = "idle"]
  /\ UNCHANGED <<age, stale, lock, beating, worker, fresh>>

(* The process that serves a request dies between two of its steps.         *)
ClickDies(t) ==
  /\ tab[t] # "idle" /\ tab' = [tab EXCEPT ![t] = "idle"]
  /\ UNCHANGED <<status, age, stale, lock, beating, jobs, worker, fresh>>

(* sync_all_connections: rows that are due, and jobs that got lost; a       *)
(* connection whose consent ended is passed over.                           *)
NormalStale == status \notin Unfinished /\ stale
OrphanedJob == status \in Unfinished /\ age \in {"never", "orphaned"}

BeatQueues ==
  /\ Exists /\ (NormalStale \/ OrphanedJob)
  /\ jobs[FALSE] < MaxJobs /\ Sends(FALSE)
  /\ UNCHANGED <<status, age, stale, lock, beating, worker, fresh, tab>>

(* SET NX EX; a worker that does not get the key drops the job.             *)
WorkerTakes(w, wanted) ==
  /\ worker[w] = "idle" /\ jobs[wanted] > 0
  /\ jobs' = [jobs EXCEPT ![wanted] = @ - 1]
  /\ IF lock = Nobody
       THEN /\ lock' = w /\ beating' = beating \cup {w} /\ At(w, "locked")
            /\ fresh' = [fresh EXCEPT ![w] = IF wanted THEN "wanted" ELSE "not_requested"]
       ELSE UNCHANGED <<lock, beating, worker, fresh>>
  /\ UNCHANGED <<status, age, stale, tab>>

WorkerStarts(w) ==
  /\ worker[w] = "locked"
  /\ IF Exists
       THEN /\ SetStatus("running") /\ age' = "recent"
            /\ At(w, IF fresh[w] = "wanted" THEN "refresh" ELSE "sync")
       ELSE At(w, "release") /\ UNCHANGED <<status, age>>
  /\ UNCHANGED <<stale, lock, beating, jobs, fresh, tab>>

(* trigger_refresh: fresh data, a cached copy, or the user has to act.      *)
WorkerRefreshes(w, outcome) ==
  /\ worker[w] = "refresh"
  /\ IF outcome = "needs_user_action"
       THEN SetStatus("action_required") /\ At(w, "release") /\ UNCHANGED fresh
       ELSE /\ fresh' = [fresh EXCEPT ![w] = outcome]
            /\ At(w, "sync") /\ UNCHANGED status
  /\ UNCHANGED <<age, stale, lock, beating, jobs, tab>>

(* sync_connection commits the ledger and last_sync_at, or is throttled.    *)
WorkerSyncs(w) ==
  /\ worker[w] = "sync"
  /\ IF Exists THEN stale' = FALSE /\ At(w, "synced")
               ELSE At(w, "failed") /\ UNCHANGED stale
  /\ UNCHANGED <<status, age, lock, beating, jobs, fresh, tab>>

WorkerThrottled(w) ==
  /\ worker[w] = "sync"
  /\ SetStatus("rate_limited") /\ At(w, "release")
  /\ UNCHANGED <<age, stale, lock, beating, jobs, fresh, tab>>

WorkerFails(w) ==
  /\ worker[w] \in {"locked", "refresh", "sync", "synced"} /\ At(w, "failed")
  /\ UNCHANGED <<status, age, stale, lock, beating, jobs, fresh, tab>>

Outcome(w) == IF fresh[w] = "failed" THEN "cached" ELSE "success"

WorkerReports(w) ==
  /\ worker[w] = "synced"
  /\ SetStatus(Outcome(w)) /\ At(w, "release")
  /\ UNCHANGED <<age, stale, lock, beating, jobs, fresh, tab>>

WorkerReportsFailure(w, s) ==
  /\ worker[w] = "failed" /\ s \in {"error", "action_required"}
  /\ SetStatus(s) /\ At(w, "release")
  /\ UNCHANGED <<age, stale, lock, beating, jobs, fresh, tab>>

(* Fault: the key is deleted whoever owns it by now.                        *)
DeletesAnyKey(w) == Nobody

(* _release_lock deletes the key only if it still holds this token; if      *)
(* Redis fails the key is left to expire.                                   *)
Released(w) == IF lock = w THEN Nobody ELSE lock

WorkerReleases(w, ok) ==
  /\ worker[w] = "release"
  /\ lock' = IF ok THEN Released(w) ELSE lock
  /\ beating' = beating \ {w}
  /\ At(w, "idle")
  /\ fresh' = [fresh EXCEPT ![w] = "not_requested"]
  /\ UNCHANGED <<status, age, stale, jobs, tab>>

(* The heartbeat gives up when Redis fails; the job goes on without it.     *)
HeartbeatStops(w) ==
  /\ w \in beating /\ beating' = beating \ {w}
  /\ UNCHANGED <<status, age, stale, lock, jobs, worker, fresh, tab>>

WorkerDies(w) ==
  /\ worker[w] # "idle" /\ At(w, "idle")
  /\ beating' = beating \ {w}
  /\ fresh' = [fresh EXCEPT ![w] = "not_requested"]
  /\ UNCHANGED <<status, age, stale, lock, jobs, tab>>

(* Time: the key expires, the row gets old, the data get old.               *)
LockExpires ==
  /\ lock # Nobody /\ lock \notin beating /\ lock' = Nobody
  /\ UNCHANGED <<status, age, stale, beating, jobs, worker, fresh, tab>>

Ages ==
  /\ \/ age = "recent" /\ age' = "cooled" /\ UNCHANGED stale
     \/ age = "cooled" /\ age' = "orphaned" /\ UNCHANGED stale
     \/ ~stale /\ stale' = TRUE /\ UNCHANGED age
  /\ UNCHANGED <<status, lock, beating, jobs, worker, fresh, tab>>

DeletesConnection ==
  /\ Exists /\ status' = "deleted"
  /\ UNCHANGED <<age, stale, lock, beating, jobs, worker, fresh, tab>>

SyncNext ==
  \/ \E t \in Tabs : \/ ClickChecks(t) \/ ClickQueues(t) \/ ClickDies(t)
                     \/ \E ok \in BOOLEAN : ClickSends(t, ok)
  \/ BeatQueues
  \/ \E w \in Workers :
       \/ \E wanted \in BOOLEAN : WorkerTakes(w, wanted)
       \/ WorkerStarts(w) \/ WorkerSyncs(w) \/ WorkerThrottled(w) \/ WorkerFails(w)
       \/ WorkerReports(w) \/ HeartbeatStops(w) \/ WorkerDies(w)
       \/ \E o \in {"refreshed", "failed", "needs_user_action"} : WorkerRefreshes(w, o)
       \/ \E s \in {"error", "action_required"} : WorkerReportsFailure(w, s)
       \/ \E ok \in BOOLEAN : WorkerReleases(w, ok)
  \/ LockExpires \/ Ages \/ DeletesConnection

SyncSpec == SyncInit /\ [][SyncNext]_syncVars
-----------------------------------------------------------------------------
Busy(w) == worker[w] \notin {"idle", "release"}

(* Two workers import the same connection at once only when one of them     *)
(* lost its heartbeat: a late release or an expiry never frees the key of a *)
(* worker that still renews it (sync_tasks.py:76).                          *)
SyncsApart ==
  \A v, w \in Workers : v # w /\ Busy(v) /\ Busy(w) => v \notin beating \/ w \notin beating
=============================================================================
