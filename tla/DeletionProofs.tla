--------------------------- MODULE DeletionProofs ---------------------------
(***************************************************************************)
(* Safety of account deletion for any number of requests, executors,        *)
(* objects and requirements, and for inventories that change as often as    *)
(* they like; and that the workflow implements AccountFence.                *)
(***************************************************************************)
EXTENDS AccountDeletion, TLAPS

Executing == {"executing", "external_retry"}

(* The account has one request that was not withdrawn.                      *)
OneLive == \A i, j \in Jobs : Live(i) /\ Live(j) => i = j

(* Until an execution finishes, its manifest keeps every object that is     *)
(* still stored.                                                            *)
ManifestCovers ==
  \A j \in Jobs : jobs[j].state \in Executing => files \subseteq jobs[j].todo

(* What holds of the requests and of the account's data.                    *)
Data == /\ PurgeComesFirst /\ PurgedAsReviewed /\ HoldRespected
        /\ NothingLeftBehind /\ AttestedInOrder
        /\ OneLive /\ ManifestCovers

(* An executor works on a request; and from the purge on its lease stands   *)
(* for an execution nobody else has finished or given up.                   *)
LeaseHeld ==
  \A x \in Executors :
    /\ ~At(x, "off") => executor[x].job \in Jobs
    /\ (At(x, "clean") \/ At(x, "failed")) /\ Leased(x) => Job(x).state = "executing"

IInv == TypeOK /\ Data /\ LeaseHeld

(* Initially nothing was asked for and nothing is purged.                   *)
LEMMA InitInvariant == Init => IInv
<1> SUFFICES ASSUME Init PROVE IInv
  OBVIOUS
<1>1. NoJob \in JobType /\ Off \in ExecutorType
  BY DeletionAssumption DEF NoJob, NoReceipts, JobType, Off, ExecutorType, Unreviewed
<1>2. TypeOK
  <2>1. version \in 1..MaxVersion
    BY DeletionAssumption DEF Init
  <2>2. jobs \in [Jobs -> JobType] /\ executor \in [Executors -> ExecutorType]
    BY <1>1 DEF Init
  <2>3. enabled \in BOOLEAN /\ purged \in BOOLEAN /\ hold \in BOOLEAN /\ files \subseteq Objects
    BY DEF Init
  <2> QED BY <2>1, <2>2, <2>3 DEF TypeOK
<1>3. \A j \in Jobs : jobs[j].state = "none" /\ jobs[j].receipts = NoReceipts
  BY DEF Init, NoJob
<1>4. Data
  BY <1>3, DeletionAssumption DEF Init, Data, PurgeComesFirst, PurgedAsReviewed, HoldRespected, NothingLeftBehind,
     AttestedInOrder, OneLive, ManifestCovers, Live, Destructive, Cleaned, Executing, NoReceipts
<1>5. LeaseHeld
  BY DEF Init, LeaseHeld, Off, At
<1> QED BY <1>2, <1>4, <1>5 DEF IInv

(* The changes to a request that cannot disturb the data: its execution     *)
(* stays unfinished with its review, receipts and manifest, or it has none  *)
(* and gets none; no late check appears attested; and no second request.    *)
Harmless(j, new) ==
  /\ jobs' = [jobs EXCEPT ![j] = new]
  /\ UNCHANGED <<purged, version, hold, files>>
  /\ \/ /\ new.state = jobs[j].state \/ {new.state, jobs[j].state} \subseteq Executing
        /\ new.receipts = jobs[j].receipts
        /\ new.review = jobs[j].review /\ new.todo = jobs[j].todo
     \/ /\ jobs[j].state \notin Destructive /\ new.state \notin Destructive
        /\ \A k \in PostPrimary : new.receipts[k] = Unreviewed \/ new.receipts[k] = jobs[j].receipts[k]
        /\ new.state \in Withdrawable => \A i \in Jobs : Live(i) => i = j

LEMMA HarmlessKeepsData ==
  ASSUME TypeOK, Data, NEW j \in Jobs, NEW new \in JobType, Harmless(j, new)
  PROVE  Data'
<1>1. /\ jobs'[j] = new
      /\ \A i \in Jobs : i # j => jobs'[i] = jobs[i]
      /\ UNCHANGED <<purged, version, hold, files>>
  BY DEF TypeOK, Harmless
<1>2. new.state \in {"none", "cancelled"} \cup Withdrawable \cup Destructive
  BY DEF JobType
<1>3. CASE /\ new.state = jobs[j].state \/ {new.state, jobs[j].state} \subseteq Executing
           /\ new.receipts = jobs[j].receipts
           /\ new.review = jobs[j].review /\ new.todo = jobs[j].todo
  <2>1. (PurgeComesFirst /\ HoldRespected /\ PurgedAsReviewed /\ NothingLeftBehind)'
    BY <1>1, <1>3 DEF Data, PurgeComesFirst, PurgedAsReviewed, HoldRespected, NothingLeftBehind,
       Attested, Destructive, Cleaned, Executing
  <2>2. (AttestedInOrder /\ OneLive /\ ManifestCovers)'
    BY <1>1, <1>3 DEF Data, AttestedInOrder, OneLive, ManifestCovers, Live, Executing
  <2> QED BY <2>1, <2>2 DEF Data
<1>4. CASE /\ jobs[j].state \notin Destructive /\ new.state \notin Destructive
           /\ \A k \in PostPrimary :
                new.receipts[k] = Unreviewed \/ new.receipts[k] = jobs[j].receipts[k]
           /\ new.state \in Withdrawable => \A i \in Jobs : Live(i) => i = j
  <2>1. (PurgeComesFirst /\ HoldRespected /\ PurgedAsReviewed /\ NothingLeftBehind)'
    BY <1>1, <1>4 DEF Data, PurgeComesFirst, PurgedAsReviewed, HoldRespected, NothingLeftBehind,
       Attested, Destructive, Cleaned
  <2>2. (AttestedInOrder /\ ManifestCovers)'
    BY <1>1, <1>4 DEF Data, AttestedInOrder, ManifestCovers, Executing, Destructive
  <2>3. OneLive'
    BY <1>1, <1>2, <1>4 DEF Data, OneLive, Live
  <2> QED BY <2>1, <2>2, <2>3 DEF Data
<1> QED BY <1>3, <1>4 DEF Harmless

(* A request that changes, but not its lease, nor its state while it is     *)
(* being executed, changes nothing for the executors.                       *)
LEMMA ExecutorsUndisturbed ==
  ASSUME TypeOK, LeaseHeld, UNCHANGED executor,
         NEW j \in Jobs, NEW new, jobs' = [jobs EXCEPT ![j] = new],
         new.lease = jobs[j].lease,
         new.state = jobs[j].state \/ jobs[j].state # "executing"
  PROVE  LeaseHeld'
  BY DEF TypeOK, LeaseHeld, At, Leased, Job

(* A step that touches one request only in such a way keeps the invariant.  *)
LEMMA HarmlessStep ==
  ASSUME IInv, NEW j \in Jobs, NEW new \in JobType, Harmless(j, new),
         enabled' \in BOOLEAN, UNCHANGED executor,
         new.lease = jobs[j].lease,
         new.state = jobs[j].state \/ jobs[j].state # "executing"
  PROVE  IInv'
<1>1. TypeOK'
  BY DEF IInv, TypeOK, Harmless
<1>2. Data'
  BY HarmlessKeepsData DEF IInv
<1>3. LeaseHeld'
  BY ExecutorsUndisturbed DEF IInv, Harmless
<1> QED BY <1>1, <1>2, <1>3 DEF IInv

(* What one request becomes, step by step; the rest is HarmlessStep.        *)
LEMMA RequestStep ==
  ASSUME IInv, NEW j \in Jobs, RequestDeletion(j)
  PROVE  IInv'
<1> DEFINE new == [jobs[j] EXCEPT !.state = IF hold THEN "blocked" ELSE "ready", !.todo = files]
<1>0. jobs[j] \in JobType /\ files \subseteq Objects
  BY DEF IInv, TypeOK
<1>1. new \in JobType
  BY <1>0 DEF JobType, Withdrawable
<1>2. /\ new.state \in Withdrawable /\ new.receipts = jobs[j].receipts
      /\ new.lease = jobs[j].lease
  BY <1>0 DEF JobType, Withdrawable
<1>3. jobs' = [jobs EXCEPT ![j] = new]
  BY DEF RequestDeletion
<1>4. jobs[j].state = "none" /\ \A i \in Jobs : ~Live(i)
  BY DEF RequestDeletion
<1>5. enabled' \in BOOLEAN /\ UNCHANGED <<purged, version, hold, files, executor>>
  BY DEF RequestDeletion, IInv, TypeOK
<1> HIDE DEF new
<1> QED BY <1>1, <1>2, <1>3, <1>4, <1>5, HarmlessStep
        DEF Harmless, Withdrawable, Destructive, Cleaned, Live

LEMMA CancelStep ==
  ASSUME IInv, NEW j \in Jobs, Cancel(j)
  PROVE  IInv'
<1> DEFINE new == [NoJob EXCEPT !.state = "cancelled"]
<1>1. new \in JobType
  <2>1. NoReceipts \in [Requirements -> 0..MaxVersion] /\ Unreviewed \in 0..MaxVersion
    BY DeletionAssumption DEF NoReceipts, Unreviewed
  <2> QED BY <2>1 DEF NoJob, JobType
<1>2. /\ new.state = "cancelled" /\ new.lease = None
      /\ \A k \in PostPrimary : new.receipts[k] = Unreviewed
  BY DeletionAssumption DEF NoJob, NoReceipts
<1>3. jobs' = [jobs EXCEPT ![j] = new]
  BY DEF Cancel, Withdrawn
<1>4. jobs[j].state \in Withdrawable /\ jobs[j].lease = None
  BY DEF Cancel
<1>5. enabled' \in BOOLEAN /\ UNCHANGED <<purged, version, hold, files, executor>>
  BY DEF Cancel, IInv, TypeOK
<1> HIDE DEF new
<1> QED BY <1>1, <1>2, <1>3, <1>4, <1>5, HarmlessStep
        DEF Harmless, Withdrawable, Destructive, Cleaned

LEMMA ReviewStep ==
  ASSUME IInv, NEW j \in Jobs, Review(j)
  PROVE  IInv'
<1> DEFINE new == [jobs[j] EXCEPT !.review = version, !.stale = FALSE,
                                  !.receipts = NoReceipts, !.todo = files,
                                  !.state = IF hold THEN @ ELSE "ready"]
<1>0. jobs[j] \in JobType /\ files \subseteq Objects /\ version \in 1..MaxVersion
  BY DEF IInv, TypeOK
<1>1. new \in JobType
  <2>1. version \in 0..MaxVersion /\ NoReceipts \in [Requirements -> 0..MaxVersion]
    BY <1>0, DeletionAssumption DEF NoReceipts, Unreviewed
  <2> QED BY <1>0, <2>1 DEF JobType, Withdrawable
<1>4. jobs[j].state \in Withdrawable /\ jobs[j].lease = None
  BY DEF Review
<1>2. /\ new.state \in Withdrawable /\ new.lease = jobs[j].lease
      /\ \A k \in PostPrimary : new.receipts[k] = Unreviewed
  BY <1>0, <1>4, DeletionAssumption DEF NoReceipts, JobType, Withdrawable
<1>3. jobs' = [jobs EXCEPT ![j] = new]
  BY DEF Review
<1>5. enabled' \in BOOLEAN /\ UNCHANGED <<purged, version, hold, files, executor>>
  BY DEF Review, IInv, TypeOK
<1>6. \A i \in Jobs : Live(i) => i = j
  BY <1>4 DEF IInv, Data, OneLive, Live, Withdrawable
<1> HIDE DEF new
<1> QED BY <1>1, <1>2, <1>3, <1>4, <1>5, <1>6, HarmlessStep
        DEF Harmless, Withdrawable, Destructive, Cleaned

(* Deadlines change nothing else.                                           *)
LEMMA LapseStep ==
  ASSUME IInv, NEW j \in Jobs, LeaseLapses(j) \/ ReviewLapses(j)
  PROVE  IInv'
<1>a. SUFFICES ASSUME NEW new,
                    new = [jobs[j] EXCEPT !.lapsed = TRUE] \/ new = [jobs[j] EXCEPT !.stale = TRUE],
                    jobs' = [jobs EXCEPT ![j] = new]
             PROVE  IInv'
  BY DEF LeaseLapses, ReviewLapses
<1>0. jobs[j] \in JobType
  BY DEF IInv, TypeOK
<1>1. new \in JobType
  <2>1. CASE new = [jobs[j] EXCEPT !.lapsed = TRUE]
    BY <1>0, <2>1 DEF JobType
  <2>2. CASE new = [jobs[j] EXCEPT !.stale = TRUE]
    BY <1>0, <2>2 DEF JobType
  <2> QED BY <1>a, <2>1, <2>2
<1>2. /\ new.state = jobs[j].state /\ new.receipts = jobs[j].receipts
      /\ new.review = jobs[j].review /\ new.todo = jobs[j].todo
      /\ new.lease = jobs[j].lease
  BY <1>a, <1>0 DEF JobType
<1>3. enabled' \in BOOLEAN /\ UNCHANGED <<purged, version, hold, files, executor>>
  BY DEF LeaseLapses, ReviewLapses, IInv, TypeOK
<1> QED BY <1>a, <1>1, <1>2, <1>3, HarmlessStep DEF Harmless

(* A backup proof completes a request whose cleanup was finished.           *)
LEMMA CompleteStep ==
  ASSUME IInv, NEW j \in Jobs, CompleteBackups(j)
  PROVE  IInv'
<1> DEFINE new == [jobs[j] EXCEPT !.state = "complete"]
<1>0. jobs[j] \in JobType
  BY DEF IInv, TypeOK
<1>1. new \in JobType
  BY <1>0 DEF JobType, Destructive, Cleaned
<1>2. /\ new.state = "complete" /\ new.receipts = jobs[j].receipts
      /\ new.lease = jobs[j].lease
  BY <1>0 DEF JobType
<1>3. jobs' = [jobs EXCEPT ![j] = new] /\ jobs[j].state = "backup_expiry_pending"
  BY DEF CompleteBackups
<1>4. UNCHANGED <<enabled, purged, version, hold, files, executor>>
  BY DEF CompleteBackups
<1> HIDE DEF new
<1>5. jobs'[j] = new /\ \A i \in Jobs : i # j => jobs'[i] = jobs[i]
  BY <1>3 DEF IInv, TypeOK
<1>6. TypeOK'
  BY <1>1, <1>3, <1>4 DEF IInv, TypeOK
<1>7. Data'
  <2>1. (PurgeComesFirst /\ HoldRespected /\ NothingLeftBehind /\ AttestedInOrder)'
    BY <1>2, <1>3, <1>4, <1>5 DEF IInv, Data, PurgeComesFirst, HoldRespected, NothingLeftBehind,
       AttestedInOrder, Destructive, Cleaned
  <2>2. (PurgedAsReviewed /\ OneLive /\ ManifestCovers)'
    BY <1>2, <1>3, <1>4, <1>5 DEF IInv, Data, PurgedAsReviewed, OneLive, ManifestCovers, Live,
       Executing, Attested
  <2> QED BY <2>1, <2>2 DEF Data
<1>8. LeaseHeld'
  BY <1>2, <1>3, <1>4, <1>5, ExecutorsUndisturbed DEF IInv
<1> QED BY <1>6, <1>7, <1>8 DEF IInv

(* An early check is attested to before the purge, a late one after it.     *)
LEMMA ReceiptStep ==
  ASSUME IInv, NEW j \in Jobs, NEW k \in Requirements, RecordReceipt(j, k)
  PROVE  IInv'
<1> DEFINE new == [jobs[j] EXCEPT !.receipts[k] = jobs[j].review]
<1>0. jobs[j] \in JobType
  BY DEF IInv, TypeOK
<1>1. new \in JobType
  BY <1>0 DEF JobType
<1>2. /\ new.state = jobs[j].state /\ new.lease = jobs[j].lease /\ new.review = jobs[j].review
      /\ new.todo = jobs[j].todo /\ new.receipts = [jobs[j].receipts EXCEPT ![k] = jobs[j].review]
  BY <1>0 DEF JobType
<1>3. jobs' = [jobs EXCEPT ![j] = new]
  BY DEF RecordReceipt
<1>4. UNCHANGED <<enabled, purged, version, hold, files, executor>>
  BY DEF RecordReceipt
<1>r. jobs[j].receipts \in [Requirements -> 0..MaxVersion]
  BY <1>0 DEF JobType
<1> HIDE DEF new
<1>5. CASE jobs[j].state = "ready" /\ k \notin PostPrimary
  <2>1. \A i \in Jobs : Live(i) => i = j
    BY <1>5 DEF IInv, Data, OneLive, Live
  <2>2. \A q \in PostPrimary : new.receipts[q] = jobs[j].receipts[q]
    BY <1>2, <1>5, <1>r, DeletionAssumption
  <2>3. Harmless(j, new)
    BY <1>2, <1>3, <1>4, <1>5, <2>1, <2>2 DEF Harmless, Destructive, Cleaned
  <2> QED BY <1>1, <1>2, <1>4, <2>3, HarmlessStep DEF IInv, TypeOK
<1>6. CASE jobs[j].state = "external_retry" /\ k \in PostPrimary
  <2>1. jobs'[j] = new /\ \A i \in Jobs : i # j => jobs'[i] = jobs[i]
    BY <1>3 DEF IInv, TypeOK
  <2>2. purged
    BY <1>6 DEF IInv, Data, PurgeComesFirst, Destructive
  <2>3. TypeOK'
    BY <1>1, <1>3, <1>4 DEF IInv, TypeOK
  <2>4. (PurgeComesFirst /\ HoldRespected /\ NothingLeftBehind /\ AttestedInOrder)'
    BY <1>2, <1>4, <1>6, <2>1, <2>2 DEF IInv, Data, PurgeComesFirst, HoldRespected,
       NothingLeftBehind, AttestedInOrder, Destructive, Cleaned
  <2>5. (OneLive /\ ManifestCovers)'
    BY <1>2, <1>4, <1>6, <2>1 DEF IInv, Data, OneLive, ManifestCovers, Live
  <2>6. PurgedAsReviewed'
    <3>1. \A q \in Requirements \ PostPrimary : new.receipts[q] = jobs[j].receipts[q]
      BY <1>2, <1>6, <1>r
    <3>2. jobs[j].state = "external_retry" /\ PurgedAsReviewed
      BY <1>6 DEF IInv, Data
    <3>3. /\ ~hold /\ jobs[j].review = version
          /\ \A q \in Requirements \ PostPrimary : jobs[j].receipts[q] = jobs[j].review
      BY <3>2 DEF PurgedAsReviewed, Attested
    <3>4. /\ new.review = version
          /\ \A q \in Requirements \ PostPrimary : new.receipts[q] = new.review
      BY <1>2, <3>1, <3>3
    <3>5. ~hold' /\ version' = version
      BY <1>4, <3>3
    <3> QED BY <2>1, <3>2, <3>4, <3>5 DEF PurgedAsReviewed, Attested
  <2>7. LeaseHeld'
    BY <1>2, <1>3, <1>4, ExecutorsUndisturbed DEF IInv
  <2> QED BY <2>3, <2>4, <2>5, <2>6, <2>7 DEF IInv, Data
<1> QED BY <1>5, <1>6 DEF RecordReceipt, MayAttest
-----------------------------------------------------------------------------
(* What steps of executors do to each other.                                *)

(* The executor of a request that is being executed moves on.               *)
LEMMA MovesOn ==
  ASSUME TypeOK, LeaseHeld, NEW x \in Executors, NEW new,
         NEW pc \in {"refused", "clean", "failed"}, Proceed(x, pc), ~At(x, "off"),
         jobs' = [jobs EXCEPT ![executor[x].job] = new],
         new.lease = Job(x).lease, new.state = "executing" \/ (new.state = Job(x).state /\ pc = "refused")
  PROVE  LeaseHeld' /\ executor' \in [Executors -> ExecutorType]
<1> DEFINE j == executor[x].job
<1>1. j \in Jobs
  BY DEF LeaseHeld
<1>2. jobs'[j] = new /\ \A i \in Jobs : i # j => jobs'[i] = jobs[i]
  BY <1>1 DEF TypeOK
<1>3. /\ executor'[x].pc = pc /\ executor'[x].job = j
      /\ \A y \in Executors : y # x => executor'[y] = executor[y]
      /\ executor' \in [Executors -> ExecutorType]
  BY DEF TypeOK, Proceed, ExecutorType
<1>4. LeaseHeld'
  BY <1>1, <1>2, <1>3 DEF LeaseHeld, At, Leased, Job
<1> QED BY <1>3, <1>4

(* An executor stops; the request it leaves behind is unchanged or free.    *)
LEMMA StepsDown ==
  ASSUME TypeOK, LeaseHeld, NEW x \in Executors, Stop(x), NEW j \in Jobs, NEW new,
         \/ jobs' = jobs
         \/ jobs' = [jobs EXCEPT ![j] = new] /\ new.lease = None
  PROVE  LeaseHeld' /\ executor' \in [Executors -> ExecutorType]
<1>1. /\ executor'[x] = Off
      /\ \A y \in Executors : y # x => executor'[y] = executor[y]
      /\ executor' \in [Executors -> ExecutorType]
  BY DEF TypeOK, Stop, ExecutorType, Off
<1>2. LeaseHeld'
  BY <1>1, DeletionAssumption DEF TypeOK, LeaseHeld, At, Leased, Job, Off
<1> QED BY <1>1, <1>2

(* A lease is taken from nobody, or from an executor that let it lapse.     *)
LEMMA TakeLeaseStep ==
  ASSUME IInv, NEW x \in Executors, NEW j \in Jobs, TakeLease(x, j)
  PROVE  IInv'
<1> DEFINE new == [jobs[j] EXCEPT !.lease = x, !.lapsed = FALSE]
<1>0. jobs[j] \in JobType
  BY DEF IInv, TypeOK
<1>1. new \in JobType
  BY <1>0 DEF JobType
<1>2. /\ new.state = jobs[j].state /\ new.receipts = jobs[j].receipts /\ new.lease = x
      /\ new.review = jobs[j].review /\ new.todo = jobs[j].todo
  BY <1>0 DEF JobType
<1>3. jobs' = [jobs EXCEPT ![j] = new]
  BY DEF TakeLease
<1>4. UNCHANGED <<enabled, purged, version, hold, files>>
  BY DEF TakeLease
<1> HIDE DEF new
<1>5. executor' \in [Executors -> ExecutorType]
  BY DEF TakeLease, IInv, TypeOK, ExecutorType
<1>6. Data'
  BY <1>1, <1>2, <1>3, <1>4, HarmlessKeepsData DEF IInv, Harmless
<1>7. TypeOK'
  BY <1>1, <1>3, <1>4, <1>5 DEF IInv, TypeOK
<1>8. LeaseHeld'
  <2>1. jobs'[j] = new /\ \A i \in Jobs : i # j => jobs'[i] = jobs[i]
    BY <1>3 DEF IInv, TypeOK
  <2>2. /\ executor'[x] = [pc |-> "leased", job |-> j]
        /\ \A y \in Executors : y # x => executor'[y] = executor[y]
    BY DEF TakeLease, IInv, TypeOK
  <2> QED BY <1>2, <2>1, <2>2 DEF IInv, LeaseHeld, At, Leased, Job
<1> QED BY <1>6, <1>7, <1>8 DEF IInv

(* A purge that failed gives back a lease that is still its own.            *)
LEMMA GiveBackStep ==
  ASSUME IInv, NEW x \in Executors, GiveBack(x)
  PROVE  IInv'
<1> DEFINE j == executor[x].job
           new == [jobs[j] EXCEPT !.lease = None, !.lapsed = FALSE]
<1>0. j \in Jobs /\ jobs[j] \in JobType
  BY DEF IInv, TypeOK, LeaseHeld, GiveBack, At
<1>1. new \in JobType
  BY <1>0 DEF JobType
<1>2. /\ new.state = jobs[j].state /\ new.receipts = jobs[j].receipts /\ new.lease = None
      /\ new.review = jobs[j].review /\ new.todo = jobs[j].todo
  BY <1>0 DEF JobType
<1>3. jobs' = [jobs EXCEPT ![j] = new] \/ jobs' = jobs
  BY DEF GiveBack, Release
<1>4. UNCHANGED <<enabled, purged, version, hold, files>> /\ Stop(x)
  BY DEF GiveBack
<1> HIDE DEF new, j
<1>5. LeaseHeld' /\ executor' \in [Executors -> ExecutorType]
  BY <1>0, <1>2, <1>3, <1>4, StepsDown DEF IInv
<1>6. TypeOK'
  BY <1>0, <1>1, <1>3, <1>4, <1>5 DEF IInv, TypeOK
<1>7. CASE jobs' = [jobs EXCEPT ![j] = new]
  BY <1>0, <1>1, <1>2, <1>4, <1>5, <1>6, <1>7, HarmlessKeepsData DEF IInv, Harmless
<1>8. CASE jobs' = jobs
  BY <1>4, <1>5, <1>6, <1>8
  DEF IInv, Data, PurgeComesFirst, PurgedAsReviewed, HoldRespected, NothingLeftBehind,
      AttestedInOrder, OneLive, ManifestCovers, Live, Attested
<1> QED BY <1>3, <1>7, <1>8

(* The purge: what the conditions say is what the invariant asks of an      *)
(* unfinished execution, whoever holds the lease.                           *)
LEMMA PurgeStep ==
  ASSUME IInv, NEW x \in Executors, PurgePrimary(x)
  PROVE  IInv'
<1> DEFINE j == executor[x].job
           new == [jobs[j] EXCEPT !.state = "executing", !.todo = files]
<1>0. j \in Jobs /\ jobs[j] \in JobType /\ files \subseteq Objects
  BY DEF IInv, TypeOK, LeaseHeld, PurgePrimary, At
<1>1. new \in JobType
  BY <1>0 DEF JobType, Destructive
<1>2. /\ new.state = "executing" /\ new.receipts = jobs[j].receipts
      /\ new.review = jobs[j].review /\ new.todo = files /\ new.lease = jobs[j].lease
  BY <1>0 DEF JobType
<1>3. jobs' = [jobs EXCEPT ![j] = new]
  BY DEF PurgePrimary
<1>4. /\ UNCHANGED <<version, hold, files>> /\ purged' = TRUE /\ enabled' = FALSE
      /\ Proceed(x, "clean") /\ ~At(x, "off") /\ Purgeable(j)
  BY DEF PurgePrimary, At
<1> HIDE DEF new, j
<1>5. LeaseHeld' /\ executor' \in [Executors -> ExecutorType]
  BY <1>2, <1>3, <1>4, MovesOn DEF IInv, Job, j
<1>6. TypeOK'
  BY <1>0, <1>1, <1>3, <1>4, <1>5 DEF IInv, TypeOK
<1>7. jobs'[j] = new /\ \A i \in Jobs : i # j => jobs'[i] = jobs[i]
  BY <1>0, <1>3 DEF IInv, TypeOK
<1>8. Live(j) /\ \A i \in Jobs : Live(i) => i = j
  BY <1>0, <1>4 DEF IInv, Data, OneLive, Live, Purgeable
<1>9. (PurgeComesFirst /\ HoldRespected /\ PurgedAsReviewed)'
  BY <1>0, <1>2, <1>4, <1>7, <1>8 DEF IInv, Data, PurgeComesFirst, HoldRespected, PurgedAsReviewed,
     Attested, Purgeable, Destructive, Live
<1>10. (NothingLeftBehind /\ AttestedInOrder)'
  BY <1>0, <1>2, <1>4, <1>7, <1>8 DEF IInv, Data, NothingLeftBehind, AttestedInOrder, Cleaned, Live
<1>11. (OneLive /\ ManifestCovers)'
  BY <1>0, <1>2, <1>4, <1>7, <1>8 DEF IInv, Data, OneLive, ManifestCovers, Executing, Live
<1> QED BY <1>5, <1>6, <1>9, <1>10, <1>11 DEF IInv, Data

(* An execution is resumed by whoever took the lease.                       *)
LEMMA ResumeStep ==
  ASSUME IInv, NEW x \in Executors, Resume(x)
  PROVE  IInv'
<1> DEFINE j == executor[x].job
           new == [jobs[j] EXCEPT !.state = "executing"]
<1>0. j \in Jobs /\ jobs[j] \in JobType
  BY DEF IInv, TypeOK, LeaseHeld, Resume, At
<1>1. new \in JobType
  BY <1>0 DEF JobType, Destructive
<1>2. /\ new.state = "executing" /\ new.receipts = jobs[j].receipts
      /\ new.review = jobs[j].review /\ new.todo = jobs[j].todo /\ new.lease = jobs[j].lease
  BY <1>0 DEF JobType
<1>3. jobs' = [jobs EXCEPT ![j] = new] /\ jobs[j].state = "external_retry"
  BY DEF Resume, Job
<1>4. /\ UNCHANGED <<enabled, purged, version, hold, files>>
      /\ Proceed(x, "clean") /\ ~At(x, "off")
  BY DEF Resume, At
<1> HIDE DEF new, j
<1>5. LeaseHeld' /\ executor' \in [Executors -> ExecutorType]
  BY <1>2, <1>3, <1>4, MovesOn DEF IInv, Job, j
<1>6. TypeOK'
  BY <1>0, <1>1, <1>3, <1>4, <1>5 DEF IInv, TypeOK
<1>7. Data'
  BY <1>0, <1>1, <1>2, <1>3, <1>4, HarmlessKeepsData DEF IInv, Harmless, Executing
<1> QED BY <1>5, <1>6, <1>7 DEF IInv

(* An object is deleted and checkpointed in one step.                       *)
LEMMA CleanObjectStep ==
  ASSUME IInv, NEW x \in Executors, NEW o \in Objects, CleanObject(x, o)
  PROVE  IInv'
<1> DEFINE j == executor[x].job
           new == [jobs[j] EXCEPT !.todo = @ \ {o}, !.lapsed = FALSE]
<1>0. j \in Jobs /\ jobs[j] \in JobType /\ files \subseteq Objects
  BY DEF IInv, TypeOK, LeaseHeld, CleanObject, Cleaning, At
<1>1. new \in JobType
  BY <1>0 DEF JobType
<1>s. jobs[j].state = "executing"
  BY DEF CleanObject, Cleaning, IInv, LeaseHeld, Job
<1>2. /\ new.state = "executing" /\ new.receipts = jobs[j].receipts
      /\ new.review = jobs[j].review /\ new.todo = jobs[j].todo \ {o}
      /\ new.lease = jobs[j].lease
  BY <1>0, <1>s DEF JobType
<1>3. jobs' = [jobs EXCEPT ![j] = new]
  BY DEF CleanObject
<1>4. /\ UNCHANGED <<enabled, purged, version, hold>> /\ files' = files \ {o}
      /\ Proceed(x, "clean") /\ ~At(x, "off")
  BY DEF CleanObject, Cleaning, At
<1> HIDE DEF new, j
<1>5. LeaseHeld' /\ executor' \in [Executors -> ExecutorType]
  BY <1>2, <1>3, <1>4, MovesOn DEF IInv, Job, j
<1>6. TypeOK'
  BY <1>0, <1>1, <1>3, <1>4, <1>5 DEF IInv, TypeOK
<1>7. jobs'[j] = new /\ \A i \in Jobs : i # j => jobs'[i] = jobs[i]
  BY <1>0, <1>3 DEF IInv, TypeOK
<1>8. purged
  BY <1>0, <1>s DEF IInv, Data, PurgeComesFirst, Destructive
<1>9. (PurgeComesFirst /\ HoldRespected /\ PurgedAsReviewed)'
  BY <1>0, <1>s, <1>2, <1>4, <1>7, <1>8 DEF IInv, Data, PurgeComesFirst, HoldRespected,
     PurgedAsReviewed, Attested, Destructive
<1>10. (NothingLeftBehind /\ AttestedInOrder)'
  BY <1>0, <1>2, <1>4, <1>7, <1>8 DEF IInv, Data, NothingLeftBehind, AttestedInOrder, Cleaned
<1>11. (OneLive /\ ManifestCovers)'
  BY <1>0, <1>s, <1>2, <1>4, <1>7 DEF IInv, Data, OneLive, ManifestCovers, Executing, Live
<1> QED BY <1>5, <1>6, <1>9, <1>10, <1>11 DEF IInv, Data

(* A deletion whose checkpoint is lost leaves the object in the manifest.   *)
LEMMA CleanFailsStep ==
  ASSUME IInv, NEW x \in Executors, NEW o \in Objects, CleanFails(x, o)
  PROVE  IInv'
<1> DEFINE j == executor[x].job
<1>0. j \in Jobs
  BY DEF IInv, LeaseHeld, CleanFails, Cleaning, At
<1>s. jobs[j].state = "executing"
  BY DEF CleanFails, Cleaning, IInv, LeaseHeld, Job
<1>1. /\ UNCHANGED <<jobs, enabled, purged, version, hold>> /\ files' \subseteq files
      /\ Proceed(x, "failed") /\ ~At(x, "off")
  BY DEF CleanFails, Cleaning, At
<1>2. jobs' = [jobs EXCEPT ![j] = jobs[j]]
  BY <1>0, <1>1 DEF IInv, TypeOK
<1> HIDE DEF j
<1>3. LeaseHeld' /\ executor' \in [Executors -> ExecutorType]
  BY <1>s, <1>1, <1>2, MovesOn DEF IInv, Job, j
<1>4. TypeOK'
  BY <1>1, <1>3 DEF IInv, TypeOK
<1>5. purged
  BY <1>0, <1>s DEF IInv, Data, PurgeComesFirst, Destructive
<1>6. Data'
  BY <1>1, <1>5 DEF IInv, Data, PurgeComesFirst, PurgedAsReviewed, HoldRespected, NothingLeftBehind,
     AttestedInOrder, OneLive, ManifestCovers, Live, Attested
<1> QED BY <1>3, <1>4, <1>6 DEF IInv

(* A failed execution leaves its request as it is, and to others.           *)
LEMMA RecordFailureStep ==
  ASSUME IInv, NEW x \in Executors, RecordFailure(x)
  PROVE  IInv'
<1> DEFINE j == executor[x].job
           new == [jobs[j] EXCEPT !.lease = None, !.lapsed = FALSE, !.state = "external_retry",
                                  !.awaiting = FALSE]
<1>0. j \in Jobs /\ jobs[j] \in JobType
  BY DEF IInv, TypeOK, LeaseHeld, RecordFailure, At
<1>1. new \in JobType
  BY <1>0 DEF JobType, Destructive
<1>2. /\ new.state = "external_retry" /\ new.receipts = jobs[j].receipts /\ new.lease = None
      /\ new.review = jobs[j].review /\ new.todo = jobs[j].todo
  BY <1>0 DEF JobType
<1>3. jobs' = [jobs EXCEPT ![j] = new]
  BY <1>0 DEF RecordFailure, Release, IInv, TypeOK
<1>4. UNCHANGED <<enabled, purged, version, hold, files>> /\ Stop(x)
  BY DEF RecordFailure
<1>s. jobs[j].state = "executing"
  BY DEF RecordFailure, IInv, LeaseHeld, Job
<1> HIDE DEF new, j
<1>5. LeaseHeld' /\ executor' \in [Executors -> ExecutorType]
  BY <1>0, <1>2, <1>3, <1>4, StepsDown DEF IInv
<1>6. TypeOK'
  BY <1>0, <1>1, <1>3, <1>4, <1>5 DEF IInv, TypeOK
<1> QED BY <1>0, <1>1, <1>2, <1>3, <1>4, <1>5, <1>6, <1>s, HarmlessKeepsData
        DEF IInv, Harmless, Executing

(* An execution without objects left to delete ends: with every check       *)
(* attested to it is over, otherwise it waits for the late ones.            *)
LEMMA FinishStep ==
  ASSUME IInv, NEW x \in Executors, Finish(x)
  PROVE  IInv'
<1> DEFINE j == executor[x].job
           over == [jobs[j] EXCEPT !.lease = None, !.lapsed = FALSE, !.state = AfterCleanup,
                                   !.awaiting = FALSE, !.review = Unreviewed, !.todo = {}]
           open == [jobs[j] EXCEPT !.lease = None, !.lapsed = FALSE, !.state = "external_retry",
                                   !.awaiting = TRUE]
<1>0. j \in Jobs /\ jobs[j] \in JobType
  BY DEF IInv, TypeOK, LeaseHeld, Finish, Cleaning, At
<1>s. jobs[j].state = "executing" /\ jobs[j].todo = {}
  BY DEF Finish, Cleaning, AllClean, IInv, LeaseHeld, Job
<1>p. purged /\ files = {}
  BY <1>0, <1>s DEF IInv, Data, PurgeComesFirst, ManifestCovers, Destructive, Executing
<1>4. UNCHANGED <<enabled, purged, version, hold, files>> /\ Stop(x)
  BY DEF Finish
<1>5. CASE ~Attested(j, PostPrimary)
  <2>1. open \in JobType
    BY <1>0 DEF JobType, Destructive
  <2>2. /\ open.state = "external_retry" /\ open.receipts = jobs[j].receipts
        /\ open.lease = None /\ open.review = jobs[j].review /\ open.todo = jobs[j].todo
    BY <1>0 DEF JobType
  <2>3. jobs' = [jobs EXCEPT ![j] = open]
    BY <1>0, <1>5 DEF Finish, Release, IInv, TypeOK
  <2> HIDE DEF open, j
  <2>4. LeaseHeld' /\ executor' \in [Executors -> ExecutorType]
    BY <1>0, <2>2, <2>3, <1>4, StepsDown DEF IInv
  <2>5. TypeOK'
    BY <1>0, <2>1, <2>3, <1>4, <2>4 DEF IInv, TypeOK
  <2> QED BY <1>0, <1>s, <1>4, <2>1, <2>2, <2>3, <2>4, <2>5, HarmlessKeepsData
          DEF IInv, Harmless, Executing
<1>6. CASE Attested(j, PostPrimary)
  <2>1. over \in JobType
    <3>1. Unreviewed \in 0..MaxVersion
      BY DeletionAssumption DEF Unreviewed
    <3> QED BY <1>0, <3>1 DEF JobType, Destructive, Cleaned, AfterCleanup
  <2>2. /\ over.state = "backup_expiry_pending" /\ over.receipts = jobs[j].receipts
        /\ over.lease = None
    BY <1>0 DEF JobType, AfterCleanup
  <2>3. jobs' = [jobs EXCEPT ![j] = over]
    BY <1>0, <1>6 DEF Finish, Release, IInv, TypeOK
  <2>r. \A k \in Requirements : jobs[j].receipts[k] = version
    BY <1>0, <1>s, <1>6 DEF IInv, Data, PurgedAsReviewed, Attested
  <2> HIDE DEF over, j
  <2>4. LeaseHeld' /\ executor' \in [Executors -> ExecutorType]
    BY <1>0, <2>2, <2>3, <1>4, StepsDown DEF IInv
  <2>5. TypeOK'
    BY <1>0, <2>1, <2>3, <1>4, <2>4 DEF IInv, TypeOK
  <2>6. jobs'[j] = over /\ \A i \in Jobs : i # j => jobs'[i] = jobs[i]
    BY <1>0, <2>3 DEF IInv, TypeOK
  <2>7. (PurgeComesFirst /\ HoldRespected /\ PurgedAsReviewed)'
    BY <1>0, <1>4, <1>p, <2>2, <2>6 DEF IInv, Data, PurgeComesFirst, HoldRespected,
       PurgedAsReviewed, Attested, Destructive, Cleaned
  <2>8. (NothingLeftBehind /\ AttestedInOrder)'
    BY <1>4, <1>p, <2>2, <2>6, <2>r DEF IInv, Data, NothingLeftBehind, AttestedInOrder
  <2>9. (OneLive /\ ManifestCovers)'
    BY <1>0, <1>s, <1>4, <2>2, <2>6 DEF IInv, Data, OneLive, ManifestCovers, Executing, Live
  <2> QED BY <2>4, <2>5, <2>7, <2>8, <2>9 DEF IInv, Data
<1> QED BY <1>5, <1>6

(* Executors that only move or stop, with the request as it is.             *)
LEMMA QuietStep ==
  ASSUME IInv, NEW x \in Executors,
         \/ PurgeFails(x) \/ NothingToResume(x) \/ LoseLease(x) \/ CrashExecutor(x)
  PROVE  IInv'
<1>1. /\ UNCHANGED <<jobs, enabled, purged, version, hold, files>>
      /\ \/ Stop(x)
         \/ Proceed(x, "refused") /\ At(x, "leased")
  BY DEF PurgeFails, NothingToResume, LoseLease, CrashExecutor
<1>2. LeaseHeld' /\ executor' \in [Executors -> ExecutorType]
  <2>1. CASE Stop(x)
    <3>1. /\ executor' \in [Executors -> ExecutorType]
          /\ executor'[x] = Off
          /\ \A y \in Executors : y # x => executor'[y] = executor[y]
      BY <2>1 DEF IInv, TypeOK, Stop, Off, ExecutorType
    <3> QED BY <1>1, <3>1 DEF IInv, LeaseHeld, At, Leased, Job, Off
  <2>2. CASE Proceed(x, "refused") /\ At(x, "leased")
    <3>1. /\ executor' \in [Executors -> ExecutorType]
          /\ executor'[x].pc = "refused" /\ executor'[x].job = executor[x].job
          /\ \A y \in Executors : y # x => executor'[y] = executor[y]
      BY <2>2 DEF IInv, TypeOK, Proceed, ExecutorType
    <3> QED BY <1>1, <2>2, <3>1 DEF IInv, LeaseHeld, At, Leased, Job
  <2> QED BY <1>1, <2>1, <2>2
<1>3. TypeOK'
  BY <1>1, <1>2 DEF IInv, TypeOK
<1>4. Data'
  BY <1>1 DEF IInv, Data, PurgeComesFirst, PurgedAsReviewed, HoldRespected, NothingLeftBehind,
     AttestedInOrder, OneLive, ManifestCovers, Live, Attested
<1> QED BY <1>2, <1>3, <1>4 DEF IInv

(* Until the purge anybody may change the account; from then on nobody.     *)
LEMMA AccountStep ==
  ASSUME IInv, Write \/ AddHold \/ ReleaseHold \/ \E b \in BOOLEAN : SetEnabled(b)
  PROVE  IInv'
<1>1. UNCHANGED <<jobs, purged, files, executor>> /\ ~purged
  BY DEF Write, AddHold, ReleaseHold, SetEnabled, IInv, Data, PurgeComesFirst, HoldRespected
<1>2. version' \in 1..MaxVersion
  BY DeletionAssumption DEF Write, AddHold, ReleaseHold, SetEnabled, IInv, TypeOK
<1>3. enabled' \in BOOLEAN /\ hold' \in BOOLEAN
  BY DEF Write, AddHold, ReleaseHold, SetEnabled, IInv, TypeOK
<1>4. TypeOK'
  BY <1>1, <1>2, <1>3 DEF IInv, TypeOK
<1>5. Data'
  BY <1>1 DEF IInv, Data, PurgeComesFirst, PurgedAsReviewed, HoldRespected, NothingLeftBehind,
     AttestedInOrder, OneLive, ManifestCovers, Live, Destructive, Cleaned, Executing
<1>6. LeaseHeld'
  BY <1>1 DEF IInv, LeaseHeld, At, Leased, Job
<1> QED BY <1>4, <1>5, <1>6 DEF IInv

(* Every step keeps the invariant.                                          *)
LEMMA StepInvariant == IInv /\ [Next]_vars => IInv'
<1> SUFFICES ASSUME IInv, [Next]_vars PROVE IInv'
  OBVIOUS
<1>1. CASE UNCHANGED vars
  BY <1>1 DEF vars, IInv, TypeOK, Data, PurgeComesFirst, PurgedAsReviewed, HoldRespected,
     NothingLeftBehind, AttestedInOrder, OneLive, ManifestCovers, Live, Attested,
     LeaseHeld, At, Leased, Job
<1>2. CASE Write \/ AddHold \/ ReleaseHold \/ \E b \in BOOLEAN : SetEnabled(b)
  BY <1>2, AccountStep
<1>3. ASSUME NEW j \in Jobs,
             \/ RequestDeletion(j) \/ Cancel(j) \/ Review(j) \/ CompleteBackups(j)
             \/ LeaseLapses(j) \/ ReviewLapses(j)
             \/ \E k \in Requirements : RecordReceipt(j, k)
             \/ \E x \in Executors : TakeLease(x, j)
      PROVE  IInv'
  BY <1>3, RequestStep, CancelStep, ReviewStep, CompleteStep, LapseStep, ReceiptStep, TakeLeaseStep
<1>4. ASSUME NEW x \in Executors,
             \/ PurgePrimary(x) \/ PurgeFails(x) \/ GiveBack(x)
             \/ Resume(x) \/ NothingToResume(x)
             \/ LoseLease(x) \/ RecordFailure(x) \/ Finish(x) \/ CrashExecutor(x)
             \/ \E o \in Objects : CleanObject(x, o) \/ CleanFails(x, o)
      PROVE  IInv'
  BY <1>4, PurgeStep, GiveBackStep, ResumeStep, QuietStep, RecordFailureStep, FinishStep,
     CleanObjectStep, CleanFailsStep
<1> QED BY <1>1, <1>2, <1>3, <1>4 DEF Next

(* The inductive invariant holds throughout.                                *)
THEOREM Invariant == Spec => []IInv
<1>1. Init => IInv
  BY InitInvariant
<1>2. IInv /\ [Next]_vars => IInv'
  BY StepInvariant
<1> QED BY <1>1, <1>2, PTL DEF Spec

(* Types are kept (every handler).                                          *)
THEOREM TypeCorrect == Spec => []TypeOK
<1>1. IInv => TypeOK
  BY DEF IInv
<1> QED BY <1>1, Invariant, PTL

(* Nothing is destroyed before a purge commits (cleanup_objects, cancel).   *)
THEOREM DestroysOnlyAfterPurge == Spec => []PurgeComesFirst
<1>1. IInv => PurgeComesFirst
  BY DEF IInv, Data
<1> QED BY <1>1, Invariant, PTL

(* What is purged is what was reviewed (purge_primary, add_hold).           *)
THEOREM PurgesOnlyReviewed == Spec => []PurgedAsReviewed
<1>1. IInv => PurgedAsReviewed
  BY DEF IInv, Data
<1> QED BY <1>1, Invariant, PTL

(* A hold and a purge exclude each other (add_hold, purge_primary).         *)
THEOREM HoldsAreRespected == Spec => []HoldRespected
<1>1. IInv => HoldRespected
  BY DEF IInv, Data
<1> QED BY <1>1, Invariant, PTL

(* A finished cleanup left nothing behind (cleanup_objects).                *)
THEOREM CleanupIsComplete == Spec => []NothingLeftBehind
<1>1. IInv => NothingLeftBehind
  BY DEF IInv, Data
<1> QED BY <1>1, Invariant, PTL

(* Late checks are attested to after the purge (record_receipt).            *)
THEOREM AttestsInOrder == Spec => []AttestedInOrder
<1>1. IInv => AttestedInOrder
  BY DEF IInv, Data
<1> QED BY <1>1, Invariant, PTL
-----------------------------------------------------------------------------
(* The workflow implements the account that Activation relies on.           *)

(* What one step may do to the account, as others see it.                   *)
LEMMA AccountChanges ==
  ASSUME IInv, [Next]_vars
  PROVE  \/ UNCHANGED <<enabled, deletion>>
         \/ deletion = "none" /\ deletion' = "pending" /\ UNCHANGED enabled
         \/ deletion = "pending" /\ deletion' = "none" /\ UNCHANGED enabled
         \/ deletion = "pending" /\ deletion' = "purged" /\ enabled' = FALSE
         \/ deletion # "purged" /\ UNCHANGED deletion /\ enabled' \in BOOLEAN /\ enabled' # enabled
<1>1. CASE UNCHANGED vars
  BY <1>1 DEF vars, deletion, Live
<1>2. CASE Write \/ AddHold \/ ReleaseHold
  BY <1>2 DEF Write, AddHold, ReleaseHold, deletion, Live
<1>3. CASE \E b \in BOOLEAN : SetEnabled(b)
  BY <1>3 DEF SetEnabled, deletion, Live
<1>4. ASSUME NEW j \in Jobs, RequestDeletion(j)
      PROVE  deletion = "none" /\ deletion' = "pending" /\ UNCHANGED enabled
  <2>1. ~purged
    BY <1>4 DEF RequestDeletion, IInv, Data, PurgeComesFirst, Live, Destructive, Cleaned
  <2>2. Live(j)'
    BY <1>4 DEF RequestDeletion, IInv, TypeOK, JobType, Live
  <2> QED BY <1>4, <2>1, <2>2 DEF RequestDeletion, deletion
<1>5. ASSUME NEW j \in Jobs, Cancel(j)
      PROVE  deletion = "pending" /\ deletion' = "none" /\ UNCHANGED enabled
  <2>1. Live(j) /\ ~purged
    BY <1>5 DEF Cancel, IInv, Data, PurgeComesFirst, OneLive, Live, Destructive, Cleaned, Withdrawable
  <2>2. \A i \in Jobs : ~Live(i)'
    BY <1>5, <2>1 DEF Cancel, Withdrawn, NoJob, IInv, TypeOK, Data, OneLive, Live
  <2> QED BY <1>5, <2>1, <2>2 DEF Cancel, deletion
<1>6. ASSUME NEW x \in Executors, PurgePrimary(x)
      PROVE  deletion = "pending" /\ deletion' = "purged" /\ enabled' = FALSE
  <2>1. Live(executor[x].job) /\ executor[x].job \in Jobs
    BY <1>6 DEF PurgePrimary, Purgeable, Live, IInv, LeaseHeld, At
  <2>2. ~purged
    BY <1>6, <2>1 DEF PurgePrimary, Purgeable, IInv, Data, PurgeComesFirst, OneLive, Live,
       Destructive, Cleaned
  <2> QED BY <1>6, <2>1, <2>2 DEF PurgePrimary, deletion
<1>7. ASSUME NEW j \in Jobs,
             \/ Review(j) \/ CompleteBackups(j) \/ LeaseLapses(j) \/ ReviewLapses(j)
             \/ \E k \in Requirements : RecordReceipt(j, k)
             \/ \E x \in Executors : TakeLease(x, j)
      PROVE  UNCHANGED <<enabled, deletion>>
  <2>1. UNCHANGED <<enabled, purged>>
    BY <1>7 DEF Review, CompleteBackups, LeaseLapses, ReviewLapses, RecordReceipt, TakeLease
  <2>2. \A i \in Jobs : jobs'[i].state = jobs[i].state \/ (Live(i) /\ Live(i)')
    <3>1. jobs[j] \in JobType /\ \A i \in Jobs : i # j => jobs'[i] = jobs[i]
      BY <1>7 DEF Review, CompleteBackups, LeaseLapses, ReviewLapses, RecordReceipt, TakeLease,
         IInv, TypeOK
    <3>2. CASE Review(j) \/ CompleteBackups(j)
      BY <3>1, <3>2 DEF Review, CompleteBackups, IInv, TypeOK, JobType, Live, Withdrawable
    <3>3. CASE LeaseLapses(j) \/ ReviewLapses(j)
      BY <3>1, <3>3 DEF LeaseLapses, ReviewLapses, IInv, TypeOK, JobType
    <3>4. ASSUME NEW k \in Requirements, RecordReceipt(j, k)
          PROVE  jobs'[j].state = jobs[j].state
      BY <3>1, <3>4 DEF RecordReceipt, IInv, TypeOK, JobType
    <3>5. ASSUME NEW x \in Executors, TakeLease(x, j)
          PROVE  jobs'[j].state = jobs[j].state
      BY <3>1, <3>5 DEF TakeLease, IInv, TypeOK, JobType
    <3> QED BY <1>7, <3>1, <3>2, <3>3, <3>4, <3>5
  <2> QED BY <2>1, <2>2 DEF deletion, Live
<1>8. ASSUME NEW x \in Executors,
             \/ PurgeFails(x) \/ GiveBack(x) \/ Resume(x) \/ NothingToResume(x)
             \/ LoseLease(x) \/ RecordFailure(x) \/ Finish(x) \/ CrashExecutor(x)
             \/ \E o \in Objects : CleanObject(x, o) \/ CleanFails(x, o)
      PROVE  UNCHANGED <<enabled, deletion>>
  <2>1. UNCHANGED <<enabled, purged>>
    BY <1>8 DEF PurgeFails, GiveBack, Resume, NothingToResume, LoseLease, RecordFailure, Finish,
       CrashExecutor, CleanObject, CleanFails
  <2>2. CASE purged
    BY <2>1, <2>2 DEF deletion
  <2>3. CASE ~purged
    <3>1. \A j \in Jobs : jobs[j].state \notin {"executing", "external_retry"}
      BY <2>3 DEF IInv, Data, PurgeComesFirst, Destructive
    <3>2. PurgeFails(x) \/ GiveBack(x) \/ NothingToResume(x) \/ LoseLease(x) \/ CrashExecutor(x)
      BY <1>8, <3>1 DEF Resume, RecordFailure, Finish, CleanObject, CleanFails, Cleaning,
         IInv, LeaseHeld, At, Job
    <3>3. \A i \in Jobs : jobs'[i].state = jobs[i].state
      BY <3>2 DEF PurgeFails, GiveBack, Release, NothingToResume, LoseLease, CrashExecutor,
         IInv, TypeOK, JobType
    <3> QED BY <2>1, <3>3 DEF deletion, Live
  <2> QED BY <2>2, <2>3 DEF IInv, TypeOK
<1> QED BY <1>1, <1>2, <1>3, <1>4, <1>5, <1>6, <1>7, <1>8 DEF Next

(* Every step is a step of AccountFence, or none.                           *)
LEMMA FenceStep ==
  ASSUME IInv, [Next]_vars
  PROVE  [Fence!FenceNext]_account
<1>1. CASE UNCHANGED <<enabled, deletion>>
  BY <1>1 DEF account
<1>2. CASE deletion = "none" /\ deletion' = "pending" /\ UNCHANGED enabled
  <2>1. Fence!Request(Subject)
    BY <1>2 DEF Fence!Request, account
  <2> QED BY <2>1 DEF Fence!FenceNext
<1>3. CASE deletion = "pending" /\ deletion' = "none" /\ UNCHANGED enabled
  <2>1. Fence!Withdraw(Subject)
    BY <1>3 DEF Fence!Withdraw, account
  <2> QED BY <2>1 DEF Fence!FenceNext
<1>4. CASE deletion = "pending" /\ deletion' = "purged" /\ enabled' = FALSE
  <2>1. Fence!Purge(Subject)
    BY <1>4 DEF Fence!Purge, account
  <2> QED BY <2>1 DEF Fence!FenceNext
<1>5. CASE deletion # "purged" /\ UNCHANGED deletion /\ enabled' \in BOOLEAN /\ enabled' # enabled
  <2>1. Fence!Switch(Subject, enabled')
    BY <1>5 DEF Fence!Switch, account
  <2> QED BY <1>5, <2>1 DEF Fence!FenceNext
<1> QED BY <1>1, <1>2, <1>3, <1>4, <1>5, AccountChanges

(* The deletion workflow implements AccountFence, the account that the      *)
(* activation of payments races with (request, cancel, purge, update_user). *)
THEOREM DeletionFences == Spec => FencesAccount
<1>1. Init => Fence!FenceInit
  <2>1. Init => deletion = "none" /\ enabled = TRUE
    BY DEF Init, deletion, Live, NoJob
  <2> QED BY <2>1 DEF Fence!FenceInit, account
<1>2. IInv /\ [Next]_vars => [Fence!FenceNext]_account
  BY FenceStep
<1> QED BY <1>1, <1>2, Invariant, PTL DEF Spec, FencesAccount, Fence!FenceSpec
=============================================================================
