-------------------------- MODULE AccountDeletion ---------------------------
(***************************************************************************)
(* The deletion of one personal account: request, operator review, external *)
(* receipts, leased execution, cleanup of stored objects, and proof that    *)
(* backups expired.  Translated from services/account_deletion_service.py   *)
(* and api/account_deletion.py.                                             *)
(*                                                                          *)
(* The account's rows are an inventory version, which any writer moves on.  *)
(* A purge locks every table, so it is one step.  An executor is one        *)
(* POST .../execute: it commits its lease, then works in transactions of    *)
(* its own, each of which locks the request again, and may die between any  *)
(* two.  Deadlines are flags: a lease or a review may run out at any time.  *)
(***************************************************************************)
EXTENDS Integers

CONSTANTS
  Subject,       \* the user whose account it is
  Jobs,          \* deletion requests; bounds how often the user asks
  Executors,
  Objects,       \* stored attachments and knowledge files of the account
  Requirements,  \* external checks an operator must attest to
  PostPrimary,   \* those attested to only after the purge
  MaxVersion,    \* bound on how often the inventory changes
  None

ASSUME DeletionAssumption ==
  /\ PostPrimary \subseteq Requirements
  /\ MaxVersion \in Nat \ {0}
  /\ None \notin Executors \cup Jobs

VARIABLES
  jobs,      \* account_deletions
  enabled,   \* users.is_active
  purged,    \* the primary rows are gone and the user is a tombstone
  version,   \* the inventory, as its fingerprint tells versions apart
  hold,      \* an unreleased account_deletion_holds row
  files,     \* objects still in storage
  executor   \* the request each executor works on

vars == <<jobs, enabled, purged, version, hold, files, executor>>

Unreviewed == 0
NoReceipts == [k \in Requirements |-> Unreviewed]
NoJob == [state |-> "none", review |-> Unreviewed, stale |-> FALSE, receipts |-> NoReceipts,
          lease |-> None, lapsed |-> FALSE, todo |-> {}, awaiting |-> FALSE]
Off == [pc |-> "off", job |-> None]

Withdrawable == {"ready", "blocked"}
Cleaned      == {"backup_expiry_pending", "complete"}
Destructive  == {"executing", "external_retry"} \cup Cleaned

JobType ==
  [state : {"none", "cancelled"} \cup Withdrawable \cup Destructive,
   review : 0..MaxVersion, stale : BOOLEAN, receipts : [Requirements -> 0..MaxVersion],
   lease : Executors \cup {None}, lapsed : BOOLEAN,
   todo : SUBSET Objects, awaiting : BOOLEAN]

ExecutorType ==
  [pc : {"off", "leased", "refused", "clean", "failed"}, job : Jobs \cup {None}]

TypeOK ==
  /\ jobs \in [Jobs -> JobType]
  /\ enabled \in BOOLEAN /\ purged \in BOOLEAN /\ hold \in BOOLEAN
  /\ version \in 1..MaxVersion
  /\ files \subseteq Objects
  /\ executor \in [Executors -> ExecutorType]

Init ==
  /\ jobs = [j \in Jobs |-> NoJob]
  /\ enabled = TRUE /\ purged = FALSE /\ hold = FALSE
  /\ version = 1
  /\ files = Objects
  /\ executor = [x \in Executors |-> Off]
-----------------------------------------------------------------------------
(* The user.  That the user is active is looked at before the row is locked *)
(* and may be false by then, so neither step depends on it.                 *)
Live(j) == jobs[j].state \notin {"none", "cancelled"}

(* active_user_id is unique: no request beside one that was not withdrawn.  *)
RequestDeletion(j) ==
  /\ jobs[j].state = "none" /\ ~\E i \in Jobs : Live(i)
  /\ jobs' = [jobs EXCEPT ![j].state = IF hold THEN "blocked" ELSE "ready",
                          ![j].todo = files]
  /\ UNCHANGED <<enabled, purged, version, hold, files, executor>>

Withdrawn(j) == jobs' = [jobs EXCEPT ![j] = [NoJob EXCEPT !.state = "cancelled"]]

(* Fault: a request nobody is working on can be withdrawn.                  *)
CancelUnleased(j) ==
  /\ Live(j) /\ jobs[j].lease = None
  /\ Withdrawn(j)
  /\ UNCHANGED <<enabled, purged, version, hold, files, executor>>

(* POST /{id}/cancel.                                                       *)
Cancel(j) ==
  /\ jobs[j].state \in Withdrawable /\ jobs[j].lease = None
  /\ Withdrawn(j)
  /\ UNCHANGED <<enabled, purged, version, hold, files, executor>>

(* Any write to a row of the inventory.                                     *)
Write ==
  /\ ~purged /\ version < MaxVersion
  /\ version' = version + 1
  /\ UNCHANGED <<jobs, enabled, purged, hold, files, executor>>
-----------------------------------------------------------------------------
(* Operators.                                                               *)

(* Fault: an administrator's change is not checked against the tombstone.   *)
SetEnabledAnyway(b) ==
  /\ enabled # b
  /\ enabled' = b
  /\ UNCHANGED <<jobs, purged, version, hold, files, executor>>

(* update_user, with the trigger that protects tombstones behind it.        *)
SetEnabled(b) ==
  /\ ~purged /\ enabled # b
  /\ enabled' = b
  /\ UNCHANGED <<jobs, purged, version, hold, files, executor>>

(* Fault: a hold can be added until the request is finished.                *)
AddHoldLate ==
  /\ ~hold /\ version < MaxVersion
  /\ \A j \in Jobs : jobs[j].state \notin Cleaned
  /\ hold' = TRUE /\ version' = version + 1
  /\ UNCHANGED <<jobs, enabled, purged, files, executor>>

(* POST /operator/holds: refused once destruction has started.  Holds are   *)
(* part of the inventory's fingerprint.                                     *)
AddHold ==
  /\ ~hold /\ version < MaxVersion
  /\ \A j \in Jobs : jobs[j].state \notin Destructive
  /\ hold' = TRUE /\ version' = version + 1
  /\ UNCHANGED <<jobs, enabled, purged, files, executor>>

ReleaseHold ==
  /\ hold /\ version < MaxVersion
  /\ hold' = FALSE /\ version' = version + 1
  /\ UNCHANGED <<jobs, enabled, purged, files, executor>>

(* review_deletion: fingerprint the inventory, drop earlier receipts.       *)
Review(j) ==
  /\ jobs[j].state \in Withdrawable /\ jobs[j].lease = None
  /\ jobs' = [jobs EXCEPT ![j].review = version, ![j].stale = FALSE,
                          ![j].receipts = NoReceipts, ![j].todo = files,
                          ![j].state = IF hold THEN @ ELSE "ready"]
  /\ UNCHANGED <<enabled, purged, version, hold, files, executor>>

(* Fault: every requirement may be attested to before the purge.            *)
MayAttestEarly(j, k) ==
  \/ jobs[j].state = "ready"
  \/ /\ jobs[j].state = "external_retry" /\ jobs[j].awaiting
     /\ k \in PostPrimary

MayAttest(j, k) ==
  \/ jobs[j].state = "ready" /\ k \notin PostPrimary
  \/ /\ jobs[j].state = "external_retry" /\ jobs[j].awaiting
     /\ k \in PostPrimary

(* record_receipt: attest to a requirement of the reviewed inventory.       *)
RecordReceipt(j, k) ==
  /\ jobs[j].lease = None /\ jobs[j].review # Unreviewed
  /\ MayAttest(j, k)
  /\ jobs' = [jobs EXCEPT ![j].receipts[k] = jobs[j].review]
  /\ UNCHANGED <<enabled, purged, version, hold, files, executor>>

(* complete_backups: the last proof, that no backup still holds the data.   *)
CompleteBackups(j) ==
  /\ jobs[j].state = "backup_expiry_pending"
  /\ jobs' = [jobs EXCEPT ![j].state = "complete"]
  /\ UNCHANGED <<enabled, purged, version, hold, files, executor>>
-----------------------------------------------------------------------------
(* POST /operator/{id}/execute.                                             *)
Job(x) == jobs[executor[x].job]
At(x, pc) == executor[x].pc = pc
Leased(x) == Job(x).lease = x
Proceed(x, pc) == executor' = [executor EXCEPT ![x].pc = pc]
Stop(x) == executor' = [executor EXCEPT ![x] = Off]
Release(j) == [jobs EXCEPT ![j].lease = None, ![j].lapsed = FALSE]
Attested(j, K) == \A k \in K : jobs[j].receipts[k] = jobs[j].review

(* Fault: an unfinished execution can never be taken over.                  *)
Unleased(j) == jobs[j].lease = None

LeaseFree(j) == jobs[j].lease = None \/ jobs[j].lapsed

(* execute_deletion, first transaction: take the lease.                     *)
TakeLease(x, j) ==
  /\ At(x, "off")
  /\ jobs[j].state \in {"ready", "executing", "external_retry"} /\ LeaseFree(j)
  /\ jobs' = [jobs EXCEPT ![j].lease = x, ![j].lapsed = FALSE]
  /\ executor' = [executor EXCEPT ![x] = [pc |-> "leased", job |-> j]]
  /\ UNCHANGED <<enabled, purged, version, hold, files>>

(* Fault: what was reviewed is purged, though the inventory has moved on.   *)
ReviewedOnce(j) ==
  /\ jobs[j].state = "ready" /\ ~hold
  /\ jobs[j].review # Unreviewed /\ ~jobs[j].stale
  /\ Attested(j, Requirements \ PostPrimary)

(* purge_primary's conditions, under the lock of every table.               *)
Purgeable(j) ==
  /\ jobs[j].state = "ready" /\ ~hold
  /\ jobs[j].review = version /\ ~jobs[j].stale
  /\ Attested(j, Requirements \ PostPrimary)

(* purge_primary: the rows go, the user becomes a tombstone, the manifest   *)
(* keeps the objects still to be deleted.  The request is locked again, but *)
(* its lease is not looked at.                                              *)
PurgePrimary(x) ==
  /\ At(x, "leased") /\ Purgeable(executor[x].job)
  /\ jobs' = [jobs EXCEPT ![executor[x].job].state = "executing",
                          ![executor[x].job].todo = files]
  /\ purged' = TRUE /\ enabled' = FALSE
  /\ Proceed(x, "clean")
  /\ UNCHANGED <<version, hold, files>>

(* A purge is refused, or its transaction fails.                            *)
PurgeFails(x) ==
  /\ At(x, "leased") /\ Job(x).state = "ready"
  /\ Proceed(x, "refused")
  /\ UNCHANGED <<jobs, enabled, purged, version, hold, files>>

(* ... and a failed purge gives its own lease back.                         *)
GiveBack(x) ==
  /\ At(x, "refused")
  /\ jobs' = IF Leased(x) THEN Release(executor[x].job) ELSE jobs
  /\ Stop(x)
  /\ UNCHANGED <<enabled, purged, version, hold, files>>

(* An execution that failed after its purge is resumed.                     *)
Resume(x) ==
  /\ At(x, "leased") /\ Job(x).state = "external_retry"
  /\ jobs' = [jobs EXCEPT ![executor[x].job].state = "executing"]
  /\ Proceed(x, "clean")
  /\ UNCHANGED <<enabled, purged, version, hold, files>>

(* The request was withdrawn or finished since: 409.                        *)
NothingToResume(x) ==
  /\ At(x, "leased") /\ Job(x).state \notin {"ready", "executing", "external_retry"}
  /\ Stop(x)
  /\ UNCHANGED <<jobs, enabled, purged, version, hold, files>>
-----------------------------------------------------------------------------
(* cleanup_objects, one transaction per object, and what follows it.        *)
Cleaning(x) == At(x, "clean") \/ (At(x, "leased") /\ Job(x).state = "executing")

(* Delete the object, checkpoint it and renew the lease.                    *)
CleanObject(x, o) ==
  /\ Cleaning(x) /\ Leased(x) /\ o \in Job(x).todo
  /\ files' = files \ {o}
  /\ jobs' = [jobs EXCEPT ![executor[x].job].todo = @ \ {o},
                          ![executor[x].job].lapsed = FALSE]
  /\ Proceed(x, "clean")
  /\ UNCHANGED <<enabled, purged, version, hold>>

(* The storage fails, or the checkpoint of what it did.                     *)
CleanFails(x, o) ==
  /\ Cleaning(x) /\ Leased(x) /\ o \in Job(x).todo
  /\ files' \in {files, files \ {o}}
  /\ Proceed(x, "failed")
  /\ UNCHANGED <<jobs, enabled, purged, version, hold>>

(* Execution lease changed: 409.                                            *)
LoseLease(x) ==
  /\ Cleaning(x) \/ At(x, "failed")
  /\ ~Leased(x)
  /\ Stop(x)
  /\ UNCHANGED <<jobs, enabled, purged, version, hold, files>>

(* The request is left to a later execution.                                *)
RecordFailure(x) ==
  LET j == executor[x].job IN
  /\ At(x, "failed") /\ Leased(x)
  /\ jobs' = [Release(j) EXCEPT ![j].state = "external_retry", ![j].awaiting = FALSE]
  /\ Stop(x)
  /\ UNCHANGED <<enabled, purged, version, hold, files>>

(* Fault: an object whose deletion failed is not waited for.                *)
AllButOneClean(x) == \A o, p \in Job(x).todo : o = p

AllClean(x) == Job(x).todo = {}

(* Fault: the second of two transitions is forgotten.                       *)
PrimaryDeleted == "primary_data_deleted"

(* executing, primary_data_deleted and this state, in one transaction.      *)
AfterCleanup == "backup_expiry_pending"

(* Every object is gone.  Checks of what the purge left with others may     *)
(* still be open; then the request waits for their receipts.                *)
Finish(x) ==
  LET j == executor[x].job IN
  /\ Cleaning(x) /\ Leased(x) /\ AllClean(x)
  /\ jobs' = IF Attested(j, PostPrimary)
             THEN [Release(j) EXCEPT ![j].state = AfterCleanup,
                                     ![j].awaiting = FALSE, ![j].review = Unreviewed,
                                     ![j].todo = {}]
             ELSE [Release(j) EXCEPT ![j].state = "external_retry", ![j].awaiting = TRUE]
  /\ Stop(x)
  /\ UNCHANGED <<enabled, purged, version, hold, files>>

CrashExecutor(x) ==
  /\ ~At(x, "off")
  /\ Stop(x)
  /\ UNCHANGED <<jobs, enabled, purged, version, hold, files>>

LeaseLapses(j) ==
  /\ jobs[j].lease # None /\ ~jobs[j].lapsed
  /\ jobs' = [jobs EXCEPT ![j].lapsed = TRUE]
  /\ UNCHANGED <<enabled, purged, version, hold, files, executor>>

ReviewLapses(j) ==
  /\ jobs[j].review # Unreviewed /\ ~jobs[j].stale
  /\ jobs' = [jobs EXCEPT ![j].stale = TRUE]
  /\ UNCHANGED <<enabled, purged, version, hold, files, executor>>
-----------------------------------------------------------------------------
Next ==
  \/ Write \/ AddHold \/ ReleaseHold
  \/ \E b \in BOOLEAN : SetEnabled(b)
  \/ \E j \in Jobs : \/ RequestDeletion(j) \/ Cancel(j) \/ Review(j) \/ CompleteBackups(j)
                     \/ LeaseLapses(j) \/ ReviewLapses(j)
                     \/ \E k \in Requirements : RecordReceipt(j, k)
                     \/ \E x \in Executors : TakeLease(x, j)
  \/ \E x \in Executors : \/ PurgePrimary(x) \/ PurgeFails(x) \/ GiveBack(x)
                          \/ Resume(x) \/ NothingToResume(x)
                          \/ LoseLease(x) \/ RecordFailure(x) \/ Finish(x) \/ CrashExecutor(x)
                          \/ \E o \in Objects : CleanObject(x, o) \/ CleanFails(x, o)

Spec == Init /\ [][Next]_vars

(* Once the rows are gone operators keep at it: they execute again, attest  *)
(* whenever the request waits for them, and neither storage nor the process *)
(* fails for ever.                                                          *)
FairSpec ==
  /\ Spec
  /\ \A j \in Jobs : /\ WF_vars(LeaseLapses(j))
                     /\ \A k \in Requirements : SF_vars(purged /\ RecordReceipt(j, k))
  /\ \A x \in Executors :
       /\ \A j \in Jobs : WF_vars(purged /\ TakeLease(x, j))
       /\ WF_vars(GiveBack(x)) /\ WF_vars(LoseLease(x)) /\ WF_vars(RecordFailure(x))
       /\ WF_vars(NothingToResume(x))
       /\ SF_vars(Resume(x)) /\ SF_vars(Finish(x))
       /\ \A o \in Objects : SF_vars(CleanObject(x, o))
-----------------------------------------------------------------------------
(* Properties.                                                              *)

(* Nothing is destroyed before the purge commits: until then no request is  *)
(* in a destructive state and every stored object is still there, whatever  *)
(* executor took, lost or gave back the lease; and a request the user       *)
(* withdrew never was the one that purged.                                  *)
PurgeComesFirst ==
  /\ ~purged => files = Objects /\ \A j \in Jobs : jobs[j].state \notin Destructive
  /\ purged => \E j \in Jobs : jobs[j].state \in Destructive

(* While an execution is unfinished, what was purged is exactly what was    *)
(* reviewed: no hold stands, the inventory has not moved on since, and      *)
(* every check due before the purge was attested to for that inventory.     *)
PurgedAsReviewed ==
  \A j \in Jobs : jobs[j].state \in {"executing", "external_retry"} =>
    /\ ~hold
    /\ jobs[j].review = version
    /\ Attested(j, Requirements \ PostPrimary)

(* A verified hold and a purge exclude each other for good.                 *)
HoldRespected == ~(hold /\ purged)

(* A request reports primary cleanup done only when every object is gone,   *)
(* across failures whose outcome was lost, takeovers and retries, and every *)
(* requirement was attested to for the inventory that was purged.           *)
NothingLeftBehind ==
  \A j \in Jobs : jobs[j].state \in Cleaned =>
    purged /\ files = {} /\ \A k \in Requirements : jobs[j].receipts[k] = version

(* A check of what outlives the purge is attested to only after the purge.  *)
AttestedInOrder ==
  \A j \in Jobs : \A k \in PostPrimary : jobs[j].receipts[k] # Unreviewed => purged

(* What the rest of the system sees of the workflow.                        *)
deletion == IF purged THEN "purged"
            ELSE IF \E j \in Jobs : Live(j) THEN "pending" ELSE "none"
account == [u \in {Subject} |-> [enabled |-> enabled, deletion |-> deletion]]
Fence == INSTANCE AccountFence WITH Users <- {Subject}

(* The workflow is what the rest of the system takes an account to be.      *)
FencesAccount == Fence!FenceSpec

(* An execution that purged the account gets its objects cleaned up in the  *)
(* end, whatever executors crash on the way.                                *)
CleanupFinishes == purged ~> \E j \in Jobs : jobs[j].state \in Cleaned

(* "A renewable ten-minute execution lease prevents competing/resumed       *)
(* executors from acting on the same request"                               *)
(* (docs/trust/FINCO_PERSONAL_ACCOUNT_DELETION_IMPLEMENTATION_V1.md:31).    *)
LeasedPurge == [][\A x \in Executors : PurgePrimary(x) => Leased(x)]_vars
=============================================================================
