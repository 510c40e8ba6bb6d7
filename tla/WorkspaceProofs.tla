-------------------------- MODULE WorkspaceProofs --------------------------
(***************************************************************************)
(* Safety of what people and machines do to the books of a workspace, for   *)
(* any number of actions, presses, workers, invoices, payments and requests. *)
(***************************************************************************)
EXTENDS Workspace, FeedProofs

-----------------------------------------------------------------------------
(* Approvals.  A request is about one action, of which it says how far it   *)
(* is; nobody else is about that action meanwhile.                          *)
About(r, a) == \E s \in Stages : press[r] = Stage(s, a)

PressAlone ==
  \A q, r \in Presses, a \in Actions : About(q, a) /\ About(r, a) => q = r

PressStage ==
  \A r \in Presses, a \in Actions :
    /\ press[r] \in {Stage("approving", a), Stage("rejecting", a)} => approval[a] = "pending"
    /\ press[r] \in {Stage("calling", a), Stage("returned", a), Stage("raised", a)} =>
         approval[a] = "executing"

(* The books are untouched before the call that a claim allows.             *)
Untouched ==
  \A a \in Actions :
    /\ approval[a] \in {"none", "pending", "rejected"} => effects[a] = 0
    /\ \A r \in Presses : press[r] = Stage("calling", a) => effects[a] = 0
    /\ effects[a] <= 1

ApprovalIInv == ApprovalTypeOK /\ PressAlone /\ PressStage /\ Untouched

(* Initially nothing was asked for.                                         *)
LEMMA ApprovalInitially == ApprovalInit => ApprovalIInv
  BY DEF ApprovalInit, ApprovalIInv, ApprovalTypeOK, PressAlone, PressStage, Untouched,
         About, Stages, Stage, Unpressed

(* Asking, time and the owner of the token.                                 *)
LEMMA AskStep ==
  ASSUME ApprovalIInv,
         \/ \E a \in Actions : Queues(a) \/ Lapses(a)
         \/ HourPasses \/ RevokesToken
  PROVE  ApprovalIInv'
<1>1. UNCHANGED press /\ UNCHANGED effects
  BY DEF Queues, Lapses, HourPasses, RevokesToken
<1>2. \A a \in Actions : approval'[a] = approval[a] \/ (approval[a] = "none" /\ approval'[a] = "pending")
  BY DEF Queues, Lapses, HourPasses, RevokesToken, Turns, ApprovalIInv, ApprovalTypeOK
<1>3. ApprovalTypeOK'
  BY DEF ApprovalIInv, ApprovalTypeOK, Queues, Lapses, HourPasses, RevokesToken, Turns
<1>4. PressAlone'
  BY <1>1 DEF ApprovalIInv, PressAlone, About
<1>5. PressStage'
  BY <1>1, <1>2 DEF ApprovalIInv, PressStage
<1>6. Untouched'
  BY <1>1, <1>2 DEF ApprovalIInv, Untouched
<1> QED BY <1>3, <1>4, <1>5, <1>6 DEF ApprovalIInv

(* A request moves to the stage s of an action a of which nobody else is.   *)
LEMMA PressMoves ==
  ASSUME ApprovalIInv, NEW r \in Presses, NEW a \in Actions, NEW s \in Stages,
         Moves(r, Stage(s, a)), \A q \in Presses \ {r} : ~About(q, a)
  PROVE  PressAlone'
<1>1. \A q \in Presses : press'[q] = IF q = r THEN Stage(s, a) ELSE press[q]
  BY DEF ApprovalIInv, ApprovalTypeOK, Moves
<1>2. \A b \in Actions : \A t \in Stages : Stage(t, b) = Stage(s, a) => b = a
  BY DEF Stage
<1> QED BY <1>1, <1>2 DEF ApprovalIInv, PressAlone, About

(* A request that is done, or dies, is about nothing.                       *)
LEMMA PressEnds ==
  ASSUME ApprovalIInv, NEW r \in Presses, Moves(r, Unpressed)
  PROVE  /\ PressAlone'
         /\ \A q \in Presses : press'[q] = IF q = r THEN Unpressed ELSE press[q]
         /\ \A b, s : Unpressed # Stage(s, b)
<1>1. \A q \in Presses : press'[q] = IF q = r THEN Unpressed ELSE press[q]
  BY DEF ApprovalIInv, ApprovalTypeOK, Moves
<1>2. \A b, s : Unpressed # Stage(s, b)
  BY DEF Stage, Unpressed
<1> QED BY <1>1, <1>2 DEF ApprovalIInv, PressAlone, About

(* Approving and rejecting: the row is locked until the claim is committed, *)
(* and the claim keeps others away for good.                                *)
LEMMA PressStep ==
  ASSUME ApprovalIInv, NEW r \in Presses, NEW a \in Actions,
         \/ ReadsToApprove(r, a) \/ Claims(r, a) \/ Confirms(r, a) \/ AsksForReview(r, a)
         \/ ReadsToReject(r, a) \/ Rejects(r, a)
         \/ \E changes, raises \in BOOLEAN : CallsTool(r, a, changes, raises)
         \/ PressDies(r)
  PROVE  ApprovalIInv'
<1> USE DEF Stage, Stages
<1>1. ASSUME NEW s \in {"approving", "rejecting"}, press[r] = Unpressed, Lockable(a),
             approval[a] = "pending", Moves(r, Stage(s, a)),
             UNCHANGED <<approval, lapsed, recent, usable, effects>>
      PROVE  ApprovalIInv'
  <2>1. \A q \in Presses : ~About(q, a)
    BY <1>1 DEF ApprovalIInv, PressStage, About, Lockable
  <2>2. PressAlone'
    BY <1>1, <2>1, PressMoves
  <2>3. ApprovalTypeOK'
    BY <1>1 DEF ApprovalIInv, ApprovalTypeOK, Moves
  <2>4. PressStage' /\ Untouched'
    BY <1>1 DEF ApprovalIInv, ApprovalTypeOK, PressStage, Untouched, Moves
  <2> QED BY <2>2, <2>3, <2>4 DEF ApprovalIInv
<1>2. CASE Claims(r, a)
  <2>1. About(r, a) /\ approval[a] = "pending" /\ effects[a] = 0
    BY <1>2 DEF Claims, ApprovalIInv, About, PressStage, Untouched
  <2>2. \A q \in Presses \ {r} : ~About(q, a)
    BY <2>1 DEF ApprovalIInv, PressAlone
  <2>3. PressAlone'
    BY <1>2, <2>2, PressMoves DEF Claims
  <2>4. ApprovalTypeOK'
    BY <1>2 DEF Claims, ApprovalIInv, ApprovalTypeOK, Moves, Turns
  <2>5. PressStage' /\ Untouched'
    BY <1>2, <2>1, <2>2 DEF Claims, ApprovalIInv, ApprovalTypeOK, PressStage, Untouched, Moves, Turns, About
  <2> QED BY <2>3, <2>4, <2>5 DEF ApprovalIInv
<1>3. ASSUME NEW changes \in BOOLEAN, NEW raises \in BOOLEAN, CallsTool(r, a, changes, raises)
      PROVE  ApprovalIInv'
  <2> DEFINE s == IF raises THEN "raised" ELSE "returned"
  <2>1. About(r, a) /\ approval[a] = "executing" /\ effects[a] = 0
    BY <1>3 DEF CallsTool, ApprovalIInv, About, PressStage, Untouched
  <2>2. \A q \in Presses \ {r} : ~About(q, a)
    BY <2>1 DEF ApprovalIInv, PressAlone
  <2>3. PressAlone'
    BY <1>3, <2>2, PressMoves DEF CallsTool
  <2>4. ApprovalTypeOK'
    BY <1>3 DEF CallsTool, ApprovalIInv, ApprovalTypeOK, Moves
  <2>5. PressStage' /\ Untouched'
    BY <1>3, <2>1, <2>2 DEF CallsTool, ApprovalIInv, ApprovalTypeOK, PressStage, Untouched, Moves, About
  <2> QED BY <2>3, <2>4, <2>5 DEF ApprovalIInv
<1>4. ASSUME NEW s \in {"returned", "raised", "rejecting"}, press[r] = Stage(s, a),
             Turns(a, IF s = "returned" THEN "executed"
                      ELSE IF s = "raised" THEN "review_required" ELSE "rejected"),
             Moves(r, Unpressed), UNCHANGED <<lapsed, recent, usable, effects>>
      PROVE  ApprovalIInv'
  <2>1. About(r, a) /\ (s = "rejecting" => effects[a] = 0)
    BY <1>4 DEF ApprovalIInv, About, PressStage, Untouched
  <2>2. \A q \in Presses \ {r} : ~About(q, a)
    BY <2>1 DEF ApprovalIInv, PressAlone
  <2>3. PressAlone' /\ \A q \in Presses : press'[q] = IF q = r THEN Unpressed ELSE press[q]
    BY <1>4, PressEnds
  <2>4. ApprovalTypeOK'
    BY <1>4 DEF ApprovalIInv, ApprovalTypeOK, Moves, Turns
  <2>5. PressStage' /\ Untouched'
    BY <1>4, <2>1, <2>2, <2>3, PressEnds
       DEF ApprovalIInv, ApprovalTypeOK, PressStage, Untouched, Turns, About
  <2> QED BY <2>3, <2>4, <2>5 DEF ApprovalIInv
<1>5. CASE PressDies(r)
  <2>1. PressAlone' /\ \A q \in Presses : press'[q] = IF q = r THEN Unpressed ELSE press[q]
    BY <1>5, PressEnds DEF PressDies
  <2>2. ApprovalTypeOK'
    BY <1>5 DEF PressDies, ApprovalIInv, ApprovalTypeOK, Moves
  <2>3. PressStage' /\ Untouched'
    BY <1>5, <2>1, PressEnds DEF PressDies, ApprovalIInv, PressStage, Untouched
  <2> QED BY <2>1, <2>2, <2>3 DEF ApprovalIInv
<1>6. ASSUME ReadsToApprove(r, a) \/ ReadsToReject(r, a) PROVE ApprovalIInv'
  BY <1>1, <1>6 DEF ReadsToApprove, ReadsToReject
<1>7. ASSUME Confirms(r, a) \/ AsksForReview(r, a) \/ Rejects(r, a) PROVE ApprovalIInv'
  BY <1>4, <1>7 DEF Confirms, AsksForReview, Rejects
<1> QED BY <1>2, <1>3, <1>5, <1>6, <1>7

LEMMA ApprovalInvariant == ApprovalSpec => []ApprovalIInv
<1>1. ApprovalIInv /\ [ApprovalNext]_approvalVars => ApprovalIInv'
  <2> SUFFICES ASSUME ApprovalIInv, [ApprovalNext]_approvalVars PROVE ApprovalIInv'
    OBVIOUS
  <2>1. CASE UNCHANGED approvalVars
    BY <2>1 DEF approvalVars, ApprovalIInv, ApprovalTypeOK, PressAlone, PressStage, Untouched, About
  <2>2. ASSUME NEW r \in Presses, PressDies(r) PROVE ApprovalIInv'
    <3>1. PICK a \in Actions : About(r, a)
      BY <2>2 DEF PressDies, ApprovalIInv, ApprovalTypeOK, About, Stage
    <3> QED BY <2>2, <3>1, PressStep
  <2> QED BY <2>1, <2>2, AskStep, PressStep DEF ApprovalNext
<1> QED BY <1>1, ApprovalInitially, PTL DEF ApprovalSpec

(* Every row of mcp_approvals and every request stays well-formed.          *)
THEOREM ApprovalTypes == ApprovalSpec => []ApprovalTypeOK
  BY ApprovalInvariant, PTL DEF ApprovalIInv

(* An approved action changes the books at most once, and nothing changes   *)
(* them without an approval, however many requests press, die or fail.      *)
THEOREM ExecutedOnce == ApprovalSpec => []ApprovedOnce
<1>1. ApprovalIInv => ApprovedOnce
  BY DEF ApprovalIInv, ApprovalTypeOK, Untouched, ApprovedOnce
<1> QED BY <1>1, ApprovalInvariant, PTL
-----------------------------------------------------------------------------
(* Synchronisation.  A heartbeat renews the key its own worker holds, and   *)
(* an idle worker has none: that is what keeps two of them apart.           *)
BeatingHolds ==
  \A w \in beating : lock = w /\ worker[w] # "idle"

SyncIInv == SyncTypeOK /\ BeatingHolds

(* A queue of any kind starts empty.                                        *)
LEMMA EmptyBounded ==
  ASSUME NEW D, NEW n \in Nat PROVE [x \in D |-> 0] \in [D -> 0..n]
  OBVIOUS

(* Initially nobody holds the key.                                          *)
LEMMA SyncInitially == SyncInit => SyncIInv
<1> SUFFICES ASSUME SyncInit PROVE SyncIInv
  OBVIOUS
<1>1. jobs \in [BOOLEAN -> 0..MaxJobs]
  BY SyncJobAssumption, EmptyBounded, Zenon DEF SyncInit
<1>2. /\ status = "idle" /\ age = "never" /\ stale = FALSE /\ lock = Nobody /\ beating = {}
      /\ worker = [w \in Workers |-> "idle"]
      /\ fresh = [w \in Workers |-> "not_requested"]
      /\ tab = [t \in Tabs |-> "idle"]
  BY Zenon DEF SyncInit
<1> QED BY <1>1, <1>2 DEF SyncIInv, SyncTypeOK, BeatingHolds, Unfinished, Terminal

(* A counter that is incremented below its bound stays within it.           *)
LEMMA CounterBounded ==
  ASSUME NEW D, NEW n \in Nat, NEW f \in [D -> 0..n], NEW x \in D, f[x] < n
  PROVE  [f EXCEPT ![x] = @ + 1] \in [D -> 0..n]
  OBVIOUS

(* A job more, where there is room, keeps the queue within its bound.       *)
LEMMA QueueBounded ==
  ASSUME SyncTypeOK, NEW f \in BOOLEAN, jobs[f] < MaxJobs, Sends(f)
  PROVE  jobs' \in [BOOLEAN -> 0..MaxJobs]
  BY SyncJobAssumption, CounterBounded, Zenon DEF SyncTypeOK, Sends

(* Clicks, the beat, time and the deletion of a connection leave the key,   *)
(* unless nobody renews it.                                                 *)
LEMMA AroundStep ==
  ASSUME SyncIInv,
         \/ \E t \in Tabs : \/ ClickChecks(t) \/ ClickQueues(t) \/ ClickDies(t)
                            \/ \E ok \in BOOLEAN : ClickSends(t, ok)
         \/ BeatQueues \/ LockExpires \/ Ages \/ DeletesConnection
  PROVE  SyncIInv'
<1>1. beating' = beating /\ worker' = worker /\ (lock' = lock \/ lock \notin beating)
  BY Zenon DEF ClickChecks, ClickQueues, ClickDies, ClickSends, BeatQueues,
               LockExpires, Ages, DeletesConnection
<1> USE SyncJobAssumption DEF SyncIInv, SyncTypeOK, Unfinished, Terminal, SetStatus
<1>2. ASSUME NEW t \in Tabs, ClickChecks(t) \/ ClickQueues(t) \/ ClickDies(t)
      PROVE  SyncTypeOK'
  BY <1>2 DEF ClickChecks, ClickQueues, ClickDies
<1>3. ASSUME NEW t \in Tabs, NEW ok \in BOOLEAN, ClickSends(t, ok)
      PROVE  SyncTypeOK'
  <2>1. jobs' \in [BOOLEAN -> 0..MaxJobs]
    BY <1>3, QueueBounded, Zenon DEF ClickSends
  <2>2. /\ tab' = [tab EXCEPT ![t] = "idle"]
        /\ (status' = status \/ SetStatus("error"))
        /\ UNCHANGED <<age, stale, lock, beating, worker, fresh>>
    BY <1>3, Zenon DEF ClickSends
  <2> QED BY <2>1, <2>2
<1>4. ASSUME BeatQueues PROVE SyncTypeOK'
  <2>1. jobs' \in [BOOLEAN -> 0..MaxJobs]
    BY <1>4, QueueBounded, Zenon DEF BeatQueues
  <2>2. UNCHANGED <<status, age, stale, lock, beating, worker, fresh, tab>>
    BY <1>4, Zenon DEF BeatQueues
  <2> QED BY <2>1, <2>2
<1>5. ASSUME LockExpires \/ Ages \/ DeletesConnection PROVE SyncTypeOK'
  BY <1>5 DEF LockExpires, Ages, DeletesConnection
<1>6. SyncTypeOK'
  BY <1>2, <1>3, <1>4, <1>5
<1>7. BeatingHolds'
  BY <1>1 DEF BeatingHolds
<1> QED BY <1>6, <1>7

(* The key is taken only when it is free, so that no other heartbeat is     *)
(* alive, and given back only together with the worker's own.               *)
LEMMA KeyStep ==
  ASSUME SyncIInv, NEW w \in Workers,
         \/ \E wanted \in BOOLEAN : WorkerTakes(w, wanted)
         \/ \E ok \in BOOLEAN : WorkerReleases(w, ok)
         \/ HeartbeatStops(w) \/ WorkerDies(w)
  PROVE  SyncIInv'
<1> USE SyncJobAssumption DEF SyncIInv, SyncTypeOK, BeatingHolds, At
<1>1. ASSUME NEW wanted \in BOOLEAN, WorkerTakes(w, wanted) PROVE SyncIInv'
  <2>1. SyncTypeOK'
    BY <1>1 DEF WorkerTakes
  <2>2. lock = Nobody => beating = {}
    OBVIOUS
  <2> QED BY <1>1, <2>1, <2>2 DEF WorkerTakes
<1>2. ASSUME NEW ok \in BOOLEAN, WorkerReleases(w, ok) PROVE SyncIInv'
  BY <1>2 DEF WorkerReleases, Released
<1>3. CASE HeartbeatStops(w)
  BY <1>3 DEF HeartbeatStops
<1>4. CASE WorkerDies(w)
  BY <1>4 DEF WorkerDies
<1> QED BY <1>1, <1>2, <1>3, <1>4

(* The job itself runs under whatever became of the key.                    *)
LEMMA JobStep ==
  ASSUME SyncIInv, NEW w \in Workers,
         \/ WorkerStarts(w) \/ WorkerSyncs(w) \/ WorkerThrottled(w) \/ WorkerFails(w)
         \/ WorkerReports(w)
         \/ \E o \in {"refreshed", "failed", "needs_user_action"} : WorkerRefreshes(w, o)
         \/ \E s \in {"error", "action_required"} : WorkerReportsFailure(w, s)
  PROVE  SyncIInv'
<1> USE SyncJobAssumption DEF SyncIInv, SyncTypeOK, BeatingHolds, At, SetStatus, Unfinished, Terminal
<1>1. CASE WorkerStarts(w)
  BY <1>1 DEF WorkerStarts
<1>2. CASE WorkerSyncs(w) \/ WorkerThrottled(w) \/ WorkerFails(w)
  BY <1>2 DEF WorkerSyncs, WorkerThrottled, WorkerFails
<1>3. CASE WorkerReports(w)
  BY <1>3 DEF WorkerReports, Outcome
<1>4. ASSUME NEW o \in {"refreshed", "failed", "needs_user_action"}, WorkerRefreshes(w, o)
      PROVE  SyncIInv'
  BY <1>4 DEF WorkerRefreshes
<1>5. ASSUME NEW s \in {"error", "action_required"}, WorkerReportsFailure(w, s)
      PROVE  SyncIInv'
  BY <1>5 DEF WorkerReportsFailure
<1> QED BY <1>1, <1>2, <1>3, <1>4, <1>5

LEMMA SyncInvariant == SyncSpec => []SyncIInv
<1>1. SyncIInv /\ UNCHANGED syncVars => SyncIInv'
  BY DEF syncVars, SyncIInv, SyncTypeOK, BeatingHolds
<1>2. SyncIInv /\ [SyncNext]_syncVars => SyncIInv'
  BY <1>1, AroundStep, KeyStep, JobStep DEF SyncNext
<1> QED BY <1>2, SyncInitially, PTL DEF SyncSpec

(* The row, the key, the queue and every worker stay well-formed.           *)
THEOREM SyncTypes == SyncSpec => []SyncTypeOK
  BY SyncInvariant, PTL DEF SyncIInv

(* Of two workers that import one connection at the same time, one has lost *)
(* its heartbeat, whoever died, released late or let the key expire.        *)
THEOREM OneImportPerKey == SyncSpec => []SyncsApart
<1>1. SyncIInv => SyncsApart
  BY DEF SyncIInv, BeatingHolds, SyncsApart
<1> QED BY <1>1, SyncInvariant, PTL
-----------------------------------------------------------------------------
(* Sums over finite sets.  What is true of a set whenever it is true of     *)
(* what is left without any one of its elements, is true of every finite set. *)
LEMMA SetsReach ==
  ASSUME NEW S, IsFiniteSet(S), NEW P,
         \A T \in SUBSET S : (\A x \in T : T \ {x} \in P) => T \in P
  PROVE  SUBSET S \subseteq P
<1> DEFINE Bad == (SUBSET S) \ P
<1> SUFFICES ASSUME Bad # {} PROVE FALSE
  OBVIOUS
<1>1. Bad \subseteq FiniteSubsetsOf(S)
  BY FS_FiniteSubsetsOfFinite
<1>2. PICK T \in Bad : \A U \in Bad : ~(<<U, T>> \in StrictSubsetOrdering(S))
  <2> HIDE DEF Bad
  <2> QED
    BY <1>1, FS_StrictSubsetOrderingWellFounded, WFMin
<1>3. \A x \in T : T \ {x} \in P
  <2> SUFFICES ASSUME NEW x \in T, T \ {x} \notin P PROVE FALSE
    OBVIOUS
  <2>1. T \ {x} \in Bad /\ T \ {x} \subseteq T /\ T \ {x} # T /\ T \subseteq S
    OBVIOUS
  <2> QED
    BY <1>2, <2>1 DEF StrictSubsetOrdering
<1> QED
  BY <1>3

(* The table that SumFunction reads its result from exists.                 *)
Chosen(s) == CHOOSE x \in s : TRUE
Adds(f, g, s) == IF s = {} THEN 0 ELSE f[Chosen(s)] + g[s \ {Chosen(s)}]

LEMMA SumTable ==
  ASSUME NEW S, IsFiniteSet(S), NEW f \in [S -> Int]
  PROVE  \E g : /\ \A s \in SUBSET S : g[s] = Adds(f, g, s)
                /\ SumFunction(f) = g[S]
<1> DEFINE n == Cardinality(S)
           Upto(m, g) == \A s \in SUBSET S : Cardinality(s) <= m => g[s] = Adds(f, g, s)
           K == {m \in 0..n : \E g \in [SUBSET S -> Int] : Upto(m, g)}
           Table(g) == [s \in SUBSET S |->
                          IF s = {} THEN 0
                          ELSE f[CHOOSE x \in s : TRUE] + g[s \ {CHOOSE x \in s : TRUE}]]
           iter == CHOOSE g : g = Table(g)
<1>1. ASSUME NEW s \in SUBSET S
      PROVE  /\ Cardinality(s) \in Nat /\ Cardinality(s) <= n /\ (Cardinality(s) = 0 <=> s = {})
             /\ s # {} => /\ Chosen(s) \in s /\ f[Chosen(s)] \in Int
                          /\ s \ {Chosen(s)} \in SUBSET S
                          /\ Cardinality(s \ {Chosen(s)}) = Cardinality(s) - 1
  <2>1. IsFiniteSet(s) /\ Cardinality(s) <= n
    BY FS_Subset
  <2>2. Cardinality(s) \in Nat /\ (Cardinality(s) = 0 <=> s = {})
    BY <2>1, FS_CardinalityType, FS_EmptySet
  <2>3. ASSUME s # {} PROVE Chosen(s) \in s
    BY <2>3 DEF Chosen
  <2>4. \A x \in s : Cardinality(s \ {x}) = Cardinality(s) - 1
    BY <2>1, FS_RemoveElement
  <2> QED
    BY <2>1, <2>2, <2>3, <2>4
<1>2. n \in Nat
  BY FS_CardinalityType
<1> HIDE DEF n
<1>3. 0 \in K
  <2> DEFINE g == [s \in SUBSET S |-> 0]
  <2>1. g \in [SUBSET S -> Int]
    OBVIOUS
  <2>2. ASSUME NEW s \in SUBSET S, Cardinality(s) <= 0 PROVE g[s] = Adds(f, g, s)
    <3>1. s = {}
      <4>1. Cardinality(s) \in Nat /\ (Cardinality(s) = 0 => s = {})
        BY <1>1, Zenon
      <4> QED BY <2>2, <4>1
    <3>2. g[s] = 0
      OBVIOUS
    <3> QED BY <3>1, <3>2 DEF Adds
  <2>3. 0 \in 0..n
    BY <1>2
  <2> HIDE DEF g
  <2> QED BY <2>1, <2>2, <2>3
<1>4. ASSUME NEW m \in 1..n, m - 1 \in K PROVE m \in K
  <2>1. PICK g \in [SUBSET S -> Int] : Upto(m - 1, g)
    BY <1>4
  <2> DEFINE h == [s \in SUBSET S |-> Adds(f, g, s)]
  <2>2. \A s \in SUBSET S : Adds(f, g, s) \in Int
    BY <1>1 DEF Adds
  <2>3. h \in [SUBSET S -> Int]
    BY <2>2
  <2>4. ASSUME NEW s \in SUBSET S, Cardinality(s) <= m PROVE h[s] = Adds(f, h, s)
    <3>1. CASE s = {}
      BY <3>1 DEF Adds
    <3>2. CASE s # {}
      <4> DEFINE r == s \ {Chosen(s)}
      <4>1. r \in SUBSET S /\ Cardinality(r) <= m - 1
        BY <1>1, <1>2, <2>4, <3>2
      <4>2. h[r] = g[r]
        BY <2>1, <4>1
      <4>3. h[s] = f[Chosen(s)] + g[r]
        BY <3>2 DEF Adds
      <4> HIDE DEF h
      <4> QED
        BY <3>2, <4>2, <4>3 DEF Adds
    <3> QED
      BY <3>1, <3>2
  <2> HIDE DEF h
  <2> QED
    BY <2>3, <2>4
<1> HIDE DEF K
<1>5. n \in K
  <2>1. 0..n \subseteq K
    BY <1>2, <1>3, <1>4, ReachesFromZero
  <2> QED
    BY <1>2, <2>1
<1>6. PICK g \in [SUBSET S -> Int] : Upto(n, g)
  BY <1>5 DEF K
<1>7. g = Table(g)
  <2>1. \A s \in SUBSET S : g[s] = Adds(f, g, s)
    BY <1>1, <1>6
  <2>2. g = [s \in SUBSET S |-> g[s]]
    OBVIOUS
  <2> QED
    BY <2>1, <2>2 DEF Adds, Chosen
<1>8. iter = Table(iter)
  BY <1>7, Zenon
<1>9. DOMAIN f = S
  OBVIOUS
<1>10. SumFunction(f) = iter[S]
  BY <1>9, Zenon DEF SumFunction, SumFunctionOnSet, FoldFunctionOnSet, MapThenFoldSet
<1> HIDE DEF iter
<1>11. \A s \in SUBSET S : iter[s] = Adds(f, iter, s)
  BY <1>8 DEF Adds, Chosen
<1> QED
  BY <1>10, <1>11

(* Part(f, T): the sum of f over T.  It does not depend on the order in      *)
(* which the elements are taken.                                            *)
Part(f, T) == SumFunction([y \in T |-> f[y]])

LEMMA SumParts ==
  ASSUME NEW S, IsFiniteSet(S), NEW f \in [S -> Int]
  PROVE  /\ Part(f, {}) = 0 /\ SumFunction(f) = Part(f, S)
         /\ \A T \in SUBSET S : /\ Part(f, T) \in Int
                               /\ \A x \in T : Part(f, T) = f[x] + Part(f, T \ {x})
<1>1. PICK g : (\A s \in SUBSET S : g[s] = Adds(f, g, s)) /\ SumFunction(f) = g[S]
  <2>1. f \in [S -> Int]
    OBVIOUS
  <2> QED BY <2>1, SumTable, Zenon
<1>2. g[{}] = 0
  BY <1>1 DEF Adds
<1>3. ASSUME NEW s \in SUBSET S, s # {}
      PROVE  Chosen(s) \in s /\ g[s] = f[Chosen(s)] + g[s \ {Chosen(s)}]
  BY <1>1, <1>3 DEF Adds, Chosen
<1>4. ASSUME NEW T \in SUBSET S PROVE g[T] \in Int
  <2> DEFINE P == {s \in SUBSET S : g[s] \in Int}
  <2>1. ASSUME NEW s \in SUBSET S, \A x \in s : s \ {x} \in P PROVE s \in P
    <3>1. CASE s = {}
      BY <1>2, <3>1
    <3>2. CASE s # {}
      <4>1. Chosen(s) \in s /\ g[s] = f[Chosen(s)] + g[s \ {Chosen(s)}]
        BY <1>3, <3>2
      <4>2. g[s \ {Chosen(s)}] \in Int /\ f[Chosen(s)] \in Int
        BY <2>1, <4>1
      <4> QED BY <4>1, <4>2
    <3> QED BY <3>1, <3>2
  <2>2. SUBSET S \subseteq P
    <3> HIDE DEF P
    <3> QED BY <2>1, SetsReach, Zenon
  <2> QED BY <2>2
<1>5. ASSUME NEW T \in SUBSET S, NEW x \in T PROVE g[T] = f[x] + g[T \ {x}]
  <2> DEFINE P == {s \in SUBSET S : \A y \in s : g[s] = f[y] + g[s \ {y}]}
  <2>1. ASSUME NEW s \in SUBSET S, \A y \in s : s \ {y} \in P PROVE s \in P
    <3>1. SUFFICES ASSUME NEW y \in s PROVE g[s] = f[y] + g[s \ {y}]
      OBVIOUS
    <3> DEFINE c == Chosen(s)
    <3>2. c \in s /\ g[s] = f[c] + g[s \ {c}]
      BY <1>3
    <3> HIDE DEF c
    <3>3. ASSUME y # c PROVE g[s] = f[y] + g[s \ {y}]
      <4>1. s \ {c} \in P /\ y \in s \ {c}
        BY <2>1, <3>2, <3>3
      <4>2. s \ {y} \in P /\ c \in s \ {y}
        BY <2>1, <3>2, <3>3
      <4> DEFINE rest == (s \ {c}) \ {y}
      <4>3. rest = (s \ {y}) \ {c} /\ rest \in SUBSET S
        OBVIOUS
      <4>4. g[s \ {c}] = f[y] + g[rest] /\ g[s \ {y}] = f[c] + g[rest]
        BY <4>1, <4>2, <4>3
      <4>5. g[rest] \in Int /\ f[y] \in Int /\ f[c] \in Int
        BY <1>4, <3>2, <4>3
      <4> HIDE DEF P, rest
      <4> QED BY <3>2, <4>4, <4>5
    <3> QED BY <3>2, <3>3
  <2>2. SUBSET S \subseteq P
    <3> HIDE DEF P
    <3> QED BY <2>1, SetsReach, Zenon
  <2> QED BY <2>2
<1>6. ASSUME NEW T \in SUBSET S PROVE Part(f, T) = g[T]
  <2> DEFINE r == [y \in T |-> f[y]]
  <2>1. IsFiniteSet(T) /\ r \in [T -> Int]
    BY FS_Subset
  <2>2. \A y \in T : r[y] = f[y]
    OBVIOUS
  <2> HIDE DEF r
  <2>3. PICK k : (\A s \in SUBSET T : k[s] = Adds(r, k, s)) /\ SumFunction(r) = k[T]
    BY <2>1, SumTable, Zenon
  <2> DEFINE P == {s \in SUBSET T : k[s] = g[s]}
  <2>4. ASSUME NEW s \in SUBSET T, \A x \in s : s \ {x} \in P PROVE s \in P
    <3>1. CASE s = {}
      BY <1>2, <2>3, <3>1 DEF Adds
    <3>2. CASE s # {}
      <4>1. k[s] = r[Chosen(s)] + k[s \ {Chosen(s)}]
        BY <2>3, <3>2 DEF Adds
      <4>2. Chosen(s) \in s /\ g[s] = f[Chosen(s)] + g[s \ {Chosen(s)}]
        BY <1>3, <3>2
      <4> QED BY <2>2, <2>4, <4>1, <4>2
    <3> QED BY <3>1, <3>2
  <2>5. SUBSET T \subseteq P
    <3> HIDE DEF P
    <3> QED BY <2>1, <2>4, SetsReach, Zenon
  <2>6. k[T] = g[T]
    BY <2>5
  <2> QED BY <2>3, <2>6 DEF Part, r
<1>7. f = [y \in S |-> f[y]]
  OBVIOUS
<1>8. SumFunction(f) = Part(f, S)
  BY <1>7, Zenon DEF Part
<1> QED BY <1>2, <1>4, <1>5, <1>6, <1>8

(* What holds of each summand, up to a factor, holds of the sums.           *)
LEMMA Distributes ==
  ASSUME NEW c \in Int, NEW m \in Int, NEW a \in Int, NEW b \in Int, NEW k \in Int, NEW l \in Int,
         c * a <= m * k, c * b <= m * l
  PROVE  c * (a + b) <= m * (k + l)
<1>1. c * (a + b) = c * a + c * b /\ m * (k + l) = m * k + m * l
  OBVIOUS
<1>2. c * a \in Int /\ c * b \in Int /\ m * k \in Int /\ m * l \in Int
  OBVIOUS
<1> QED BY <1>1, <1>2

LEMMA SumCompare ==
  ASSUME NEW S, IsFiniteSet(S), NEW f \in [S -> Int], NEW h \in [S -> Int],
         NEW c \in Int, NEW m \in Int, \A x \in S : c * f[x] <= m * h[x]
  PROVE  \A T \in SUBSET S : c * Part(f, T) <= m * Part(h, T)
<1> DEFINE P == {T \in SUBSET S : c * Part(f, T) <= m * Part(h, T)}
<1>1. ASSUME NEW T \in SUBSET S, \A x \in T : T \ {x} \in P PROVE T \in P
  <2>1. CASE T = {}
    <3>1. Part(f, T) = 0 /\ Part(h, T) = 0
      BY <2>1, SumParts
    <3> QED BY <3>1
  <2>2. ASSUME NEW x \in T PROVE T \in P
    <3>1. /\ Part(f, T) = f[x] + Part(f, T \ {x}) /\ Part(f, T \ {x}) \in Int
          /\ Part(h, T) = h[x] + Part(h, T \ {x}) /\ Part(h, T \ {x}) \in Int
      BY SumParts
    <3>2. c * Part(f, T \ {x}) <= m * Part(h, T \ {x})
      BY <1>1, <2>2
    <3>3. f[x] \in Int /\ h[x] \in Int /\ c * f[x] <= m * h[x]
      OBVIOUS
    <3>4. c * (f[x] + Part(f, T \ {x})) <= m * (h[x] + Part(h, T \ {x}))
      BY <3>1, <3>2, <3>3, Distributes
    <3> QED BY <3>1, <3>4
  <2> QED BY <2>1, <2>2
<1>2. SUBSET S \subseteq P
  <2> HIDE DEF P
  <2> QED BY <1>1, SetsReach, Zenon
<1> QED BY <1>2

LEMMA SumNat ==
  ASSUME NEW S, IsFiniteSet(S), NEW f \in [S -> Nat]
  PROVE  \A T \in SUBSET S : Part(f, T) \in Nat
<1> DEFINE P == {T \in SUBSET S : Part(f, T) \in Nat}
<1>1. f \in [S -> Int]
  OBVIOUS
<1>2. ASSUME NEW T \in SUBSET S, \A x \in T : T \ {x} \in P PROVE T \in P
  <2>1. CASE T = {}
    BY <1>1, <2>1, SumParts
  <2>2. ASSUME NEW x \in T PROVE T \in P
    <3>1. Part(f, T) = f[x] + Part(f, T \ {x})
      BY <1>1, SumParts
    <3>2. f[x] \in Nat /\ Part(f, T \ {x}) \in Nat
      BY <1>2, <2>2
    <3> QED BY <3>1, <3>2
  <2> QED BY <2>1, <2>2
<1>3. SUBSET S \subseteq P
  <2> HIDE DEF P
  <2> QED BY <1>2, SetsReach, Zenon
<1> QED BY <1>3

(* A payment that is shared out: no share is negative, the last one         *)
(* included, because the others were rounded down.                          *)
LEMMA Rounds ==
  ASSUME NEW a \in Nat, NEW b \in Nat \ {0} PROVE a \div b \in Nat /\ b * (a \div b) <= a
  OBVIOUS

LEMMA ShareTyped ==
  ASSUME NEW moved \in Nat, NEW s, IsFiniteSet(ToSet(s)),
         \A i \in ToSet(s) : Balance(i) \in Nat \ {0}
  PROVE  ShareOut(moved, s) \in [ToSet(s) -> Nat]
<1> DEFINE S     == ToSet(s)
           B     == [i \in S |-> Balance(i)]
           total == SumFunction(B)
           F     == [i \in S |-> (moved * Balance(i)) \div total]
           spent == SumFunction([i \in S \ {Last(s)} |-> (moved * Balance(i)) \div total])
<1>1. B \in [S -> Nat] /\ \A i \in S : B[i] = Balance(i) /\ B[i] \in Nat /\ B[i] > 0
  OBVIOUS
<1>2. ShareOut(moved, s) = [i \in S |-> IF total <= moved THEN Balance(i)
                                       ELSE IF i = Last(s) THEN moved - spent
                                       ELSE (moved * Balance(i)) \div total]
  BY Zenon DEF ShareOut
<1>3. spent = SumFunction([i \in S \ {Last(s)} |-> F[i]])
  <2>1. [i \in S \ {Last(s)} |-> (moved * Balance(i)) \div total] = [i \in S \ {Last(s)} |-> F[i]]
    <3> HIDE DEF total
    <3> QED OBVIOUS
  <2> HIDE DEF F, total
  <2> QED BY <2>1, Zenon
<1>4. F = [i \in S |-> (moved * B[i]) \div total]
  <2> HIDE DEF total
  <2> QED OBVIOUS
<1> HIDE DEF B, F, total, spent
<1>5. ASSUME NEW i \in S
      PROVE  /\ total \in Nat \ {0} /\ total = B[i] + Part(B, S \ {i})
             /\ Part(B, S \ {i}) \in Nat
  <2>1. total = Part(B, S)
    BY <1>1, SumParts DEF total
  <2>2. Part(B, S) = B[i] + Part(B, S \ {i}) /\ Part(B, S \ {i}) \in Nat
    BY <1>1, SumParts, SumNat
  <2>3. B[i] \in Nat /\ B[i] > 0
    BY <1>1
  <2> QED BY <2>1, <2>2, <2>3
<1>6. ASSUME NEW i \in S PROVE F[i] \in Nat /\ total * F[i] <= moved * B[i]
  <2>1. moved * B[i] \in Nat /\ total \in Nat \ {0}
    <3>1. B[i] \in Nat /\ total \in Nat \ {0}
      BY <1>1, <1>5
    <3>2. \A b \in Nat : moved * b \in Nat
      OBVIOUS
    <3> QED BY <3>1, <3>2
  <2>2. F[i] = (moved * B[i]) \div total
    BY <1>4
  <2> QED BY <2>1, <2>2, Rounds
<1>7. F \in [S -> Nat]
  BY <1>4, <1>6
<1>8. ASSUME NEW i \in S, i = Last(s) PROVE moved - spent \in Nat
  <2>1. spent = Part(F, S \ {i})
    BY <1>3, <1>8, Zenon DEF Part
  <2>2. spent \in Nat
    BY <1>7, <2>1, SumNat
  <2>3. total * Part(F, S \ {i}) <= moved * Part(B, S \ {i})
    <3>1. F \in [S -> Int] /\ B \in [S -> Int]
      BY <1>1, <1>7
    <3>2. \A j \in S : total * F[j] <= moved * B[j]
      BY <1>6
    <3>3. S \ {i} \in SUBSET S
      OBVIOUS
    <3>4. total \in Int /\ moved \in Int
      <4>1. total \in Nat \ {0}
        BY <1>5, Zenon
      <4> QED BY <4>1
    <3> QED BY <3>1, <3>2, <3>3, <3>4, SumCompare, Zenon
  <2> DEFINE rest == Part(B, S \ {i})
  <2>4. total * spent <= moved * rest /\ rest \in Nat /\ rest <= total /\ total \in Nat \ {0}
    BY <1>1, <1>5, <2>1, <2>3
  <2> HIDE DEF rest
  <2>5. moved * rest <= moved * total
    BY <2>4
  <2>6. ASSUME spent > moved PROVE FALSE
    <3>1. total * spent >= total * (moved + 1) /\ total * (moved + 1) = total * moved + total
      BY <2>2, <2>4, <2>6
    <3> QED BY <2>2, <2>4, <2>5, <3>1
  <2> QED BY <2>2, <2>6
<1>9. ASSUME NEW i \in S
      PROVE  (IF total <= moved THEN Balance(i)
              ELSE IF i = Last(s) THEN moved - spent ELSE (moved * Balance(i)) \div total) \in Nat
  <2>1. Balance(i) \in Nat /\ (moved * Balance(i)) \div total \in Nat
    BY <1>1, <1>4, <1>6
  <2> QED BY <1>8, <2>1
<1> QED BY <1>2, <1>9, Zenon

-----------------------------------------------------------------------------
(* Invoices.  Questions that were put together share one set of documents;  *)
(* f is the queue, or what an open request adds to it.                      *)
Coherent(f, D) ==
  \A p \in D :
    /\ p \in Pairs /\ DOMAIN f[p] = {"status", "set", "cents"}
    /\ f[p].status \in {"pending"} \cup Answered
    /\ p[2] \in f[p].set /\ f[p].set \subseteq Invs
    /\ \A i \in f[p].set : <<p[1], i>> \in D /\ f[<<p[1], i>>].set = f[p].set

Posed == {p \in Pairs : asked[p] # Unasked}

(* What an open request may still rely on when it writes: the question it   *)
(* holds is pending, and nobody accepts or declines without holding one.    *)
SafeRequest(e) ==
  /\ Coherent(e.asks, DOMAIN e.asks)
  /\ \A q \in DOMAIN e.answers :
       /\ q \in Pairs /\ e.answers[q] \in Answered
       /\ e.answers[q] # "expired" => e.holds # {}
  /\ \A p \in e.holds :
       /\ p \in Pairs /\ asked[p].status = "pending"
       /\ DOMAIN e.answers = Members(p)
  /\ \A a \in e.links : a.by = "answer" =>
       <<a.pay, a.inv>> \in DOMAIN e.answers /\ e.answers[<<a.pay, a.inv>>] = "accepted"

(* A link that an answer made has its question on record, and a question    *)
(* about one document can then only have been accepted, or expired.         *)
LinksAnswer ==
  \A a \in allocs : a.by = "answer" =>
    LET p == <<a.pay, a.inv>> IN
    /\ p \in Posed
    /\ asked[p].set = {a.inv} => asked[p].status \in {"accepted", "expired"}

InvIInv ==
  /\ DOMAIN req = Requests /\ DOMAIN asked = Pairs /\ DOMAIN money = Payments
  /\ Coherent(asked, Posed)
  /\ \A h \in Requests : SafeRequest(req[h])
  /\ LinksAnswer

Quiet(e) ==
  e.asks = Nothing /\ e.answers = Nothing /\ e.holds = {} /\ \A a \in e.links : a.by # "answer"

(* A request that asks and answers nothing can always be written.           *)
LEMMA QuietSound ==
  ASSUME NEW e, Quiet(e) PROVE SafeRequest(e)
  BY DEF Quiet, SafeRequest, Nothing, Coherent

LEMMA InvInitially == InvInit => InvIInv
  BY DEF InvInit, InvIInv, Idle, Nothing, SafeRequest, Coherent, Posed, LinksAnswer

(* A request only reads until it writes.                                    *)
LEMMA RequestStep ==
  ASSUME InvIInv, NEW h \in Requests, NEW e, SafeRequest(e),
         req' = [req EXCEPT ![h] = e], UNCHANGED <<money, allocs, asked>>
  PROVE  InvIInv'
<1>1. DOMAIN req' = Requests /\ \A k \in Requests : req'[k] = IF k = h THEN e ELSE req[k]
  BY DEF InvIInv
<1>2. \A k \in Requests : SafeRequest(req'[k])
  BY <1>1 DEF InvIInv
<1> QED BY <1>1, <1>2 DEF InvIInv, SafeRequest, Members, Posed, LinksAnswer

(* Documents and links made by hand ask and answer nothing.                 *)
LEMMA DocumentStep ==
  ASSUME InvIInv, NEW h \in Requests,
         \/ \E i \in Invs : \/ Creates(h, i) \/ Issues(h, i) \/ DeletesDraft(h, i)
                            \/ WritesOff(h, i) \/ Reopens(h, i) \/ Voids(h, i)
                            \/ \E t \in Payments : Allocates(h, i, t)
         \/ \E a \in allocs : Unallocates(h, a)
  PROVE  InvIInv'
<1>1. ASSUME NEW i \in Invs,
             \/ Creates(h, i) \/ Issues(h, i) \/ DeletesDraft(h, i)
             \/ WritesOff(h, i) \/ Reopens(h, i) \/ Voids(h, i)
      PROVE  \E e : Quiet(e) /\ Submits(h, e)
  <2>1. \A s : Quiet(Sets(i, s))
    BY DEF Sets, Idle, Quiet
  <2>2. Quiet(Opened(i))
    BY DEF Sets, Opened, Idle, Quiet
  <2>3. Quiet(Numbered(i))
    BY DEF Sets, Opened, Numbered, Idle, Quiet
  <2> QED BY <1>1, <2>1, <2>2, <2>3, Zenon
        DEF Creates, Issues, DeletesDraft, WritesOff, Reopens, Voids
<1>2. ASSUME NEW i \in Invs, NEW t \in Payments, Allocates(h, i, t)
      PROVE  \E e : Quiet(e) /\ Submits(h, e)
  <2>1. \A n : Quiet([Idle EXCEPT !.op = "link", !.links = {Alloc(t, i, n, "hand")}])
    BY DEF Quiet, Idle, Alloc
  <2> QED BY <1>2, <2>1, Zenon DEF Allocates
<1>3. ASSUME NEW a, Unallocates(h, a) PROVE \E e : Quiet(e) /\ Submits(h, e)
  <2>1. Quiet([Idle EXCEPT !.op = "unlink", !.unlinks = {a}])
    BY DEF Quiet, Idle
  <2> QED BY <1>3, <2>1, Zenon DEF Unallocates
<1>4. PICK e : Quiet(e) /\ Submits(h, e)
  BY <1>1, <1>2, <1>3
<1> QED BY <1>4, QuietSound, RequestStep DEF Submits

(* The matcher asks about the documents of one decision together.           *)
LEMMA AsksCoherent ==
  ASSUME NEW t \in Payments, NEW d, DOMAIN d \subseteq Invs
  PROVE  Coherent(Asks(t, d), DOMAIN Asks(t, d))
  BY DEF Coherent, Asks, Question, Pairs

LEMMA DecisionsKnown ==
  ASSUME NEW t \in Payments, NEW C \in SUBSET Invs, NEW d \in Decisions(t, C)
  PROVE  DOMAIN d \subseteq Invs
<1>1. ASSUME NEW c \in C, d = [i \in {c} |-> Least(Cents[t], Balance(c))]
      PROVE  DOMAIN d \subseteq Invs
  BY <1>1
<1>2. ASSUME NEW S \in SUBSET C, NEW s \in SetToSeqs(S), d = ShareOut(Cents[t], s)
      PROVE  DOMAIN d \subseteq Invs
  <2>1. ToSet(s) \subseteq S
    BY DEF SetToSeqs, ToSet
  <2>2. DOMAIN d = ToSet(s)
    BY <1>2, Zenon DEF ShareOut
  <2> QED BY <2>1, <2>2
<1> QED BY <1>1, <1>2, Zenon DEF Decisions

Asking(e) == Coherent(e.asks, DOMAIN e.asks)
             /\ e.answers = Nothing /\ e.holds = {} /\ \A a \in e.links : a.by # "answer"

LEMMA AskingSound ==
  ASSUME NEW e, Asking(e) PROVE SafeRequest(e)
  BY DEF Asking, SafeRequest, Nothing

(* The matcher links by its own rule, or asks, and answers nothing.         *)
LEMMA MatcherStep ==
  ASSUME InvIInv, NEW h \in Requests,
         (\E t \in Payments : Arrives(h, t)) \/ (\E i \in Invs : LooksBack(h, i))
  PROVE  InvIInv'
<1> DEFINE booked(t) == [Idle EXCEPT !.op = "match", !.lands = {t}]
<1>1. ASSUME NEW t \in Payments, Arrives(h, t) PROVE \E e : SafeRequest(e) /\ Submits(h, e)
  <2>1. Quiet(booked(t))
    BY DEF Quiet, Idle
  <2>2. \A d : Quiet([booked(t) EXCEPT !.links = Links(t, d, "rule")])
    BY DEF Quiet, Idle, Links, Alloc
  <2>3. ASSUME NEW d, DOMAIN d \subseteq Invs
        PROVE  Asking([booked(t) EXCEPT !.asks = Asks(t, d)])
    <3>1. /\ [booked(t) EXCEPT !.asks = Asks(t, d)].asks = Asks(t, d)
          /\ [booked(t) EXCEPT !.asks = Asks(t, d)].answers = Nothing
          /\ [booked(t) EXCEPT !.asks = Asks(t, d)].holds = {}
          /\ [booked(t) EXCEPT !.asks = Asks(t, d)].links = {}
      BY DEF Idle
    <3> QED BY <2>3, <3>1, AsksCoherent, Zenon DEF Asking
  <2>4. \A d \in Decisions(t, Waiting) : DOMAIN d \subseteq Invs
    BY DecisionsKnown DEF Waiting
  <2> QED BY <1>1, <2>1, <2>2, <2>3, <2>4, QuietSound, AskingSound, Zenon DEF Arrives
<1>2. ASSUME NEW i \in Invs, LooksBack(h, i)
      PROVE  \E e : SafeRequest(e) /\ req' = [req EXCEPT ![h] = e] /\ UNCHANGED <<money, allocs, asked>>
  <2> DEFINE d(t) == [x \in {i} |-> Least(Cents[t], Balance(i))]
             asks(T) == [p \in T \X {i} |-> Question({i}, d(p[1])[i])]
             links(L) == UNION {Links(t, d(t), "rule") : t \in L}
             e(T, L) == [Idle EXCEPT !.op = "match", !.asks = asks(T), !.links = links(L)]
  <2>1. PICK T \in SUBSET Payments, L \in SUBSET Payments : req' = [req EXCEPT ![h] = e(T, L)]
    BY <1>2, Zenon DEF LooksBack, Landed
  <2>2. Coherent(asks(T), DOMAIN asks(T))
    BY DEF Coherent, Question, Pairs
  <2>3. \A a \in links(L) : a.by = "rule"
    BY DEF Links, Alloc
  <2>4. /\ e(T, L).asks = asks(T) /\ e(T, L).links = links(L)
        /\ e(T, L).answers = Nothing /\ e(T, L).holds = {}
    <3> HIDE DEF asks, links
    <3> QED BY DEF Idle
  <2>5. Asking(e(T, L))
    <3> HIDE DEF e, asks, links
    <3> QED BY <2>2, <2>3, <2>4 DEF Asking
  <2> QED BY <1>2, <2>1, <2>5, AskingSound, Zenon DEF LooksBack
<1> QED BY <1>1, <1>2, RequestStep, Zenon DEF Submits

(* Answers are about the whole set a question belongs to.                   *)
LEMMA AnswerStep ==
  ASSUME InvIInv, NEW h \in Requests, NEW p \in Pairs,
         Accepts(h, p) \/ Declines(h, p) \/ Expires(h, p)
  PROVE  InvIInv'
<1>1. asked[p].status = "pending"
  BY DEF Accepts, Declines, Expires
<1>2. p \in Members(p) /\ Members(p) \subseteq Pairs
  BY <1>1 DEF InvIInv, Coherent, Posed, Unasked, Members, Pairs
<1> DEFINE links == {Alloc(q[1], q[2], asked[q].cents, "answer") : q \in Members(p)}
           ans(s) == [q \in Members(p) |-> s]
<1>3. ASSUME NEW e, e.asks = Nothing, e.holds = {p}, 
             \/ e.links = {} /\ e.answers = ans("declined")
             \/ e.links = links /\ e.answers = ans("accepted")
      PROVE  SafeRequest(e)
  <2>1. \A a \in links : <<a.pay, a.inv>> \in Members(p)
    BY <1>2 DEF Alloc, Pairs
  <2> HIDE DEF links
  <2> QED BY <1>1, <1>2, <1>3, <2>1 DEF SafeRequest, Coherent, Nothing, Answered
<1>4. ASSUME NEW e, e.asks = Nothing, e.holds = {}, e.links = {}, e.answers = ans("expired")
      PROVE  SafeRequest(e)
  BY <1>1, <1>2, <1>4 DEF SafeRequest, Coherent, Nothing, Answered
<1>5. ASSUME NEW s
      PROVE  /\ Answers(p, s).asks = Nothing /\ Answers(p, s).holds = {} 
             /\ Answers(p, s).links = {} /\ Answers(p, s).answers = ans(s)
             /\ Takes(p, s).asks = Nothing /\ Takes(p, s).holds = {p} 
             /\ Takes(p, s).links = {} /\ Takes(p, s).answers = ans(s)
             /\ [Takes(p, s) EXCEPT !.links = links].asks = Nothing
             /\ [Takes(p, s) EXCEPT !.links = links].holds = {p}
             /\ [Takes(p, s) EXCEPT !.links = links].links = links
             /\ [Takes(p, s) EXCEPT !.links = links].answers = ans(s)
  <2> HIDE DEF links
  <2> QED BY DEF Answers, Takes, Idle
<1>6. \E e : SafeRequest(e) /\ Submits(h, e)
  <2> HIDE DEF ans
  <2>1. CASE Accepts(h, p)
    BY <1>3, <1>5, <2>1, Zenon DEF Accepts
  <2>2. CASE Declines(h, p)
    BY <1>3, <1>5, <2>2, Zenon DEF Declines
  <2>3. CASE Expires(h, p)
    BY <1>4, <1>5, <2>3, Zenon DEF Expires
  <2> QED BY <2>1, <2>2, <2>3
<1> QED BY <1>6, RequestStep, Zenon DEF Submits

(* An answer changes the status of its row and nothing else.                *)
LEMMA AnswerKeeps ==
  ASSUME NEW r, NEW s, DOMAIN r = {"status", "set", "cents"}
  PROVE  /\ DOMAIN [r EXCEPT !.status = s] = {"status", "set", "cents"}
         /\ [r EXCEPT !.status = s].status = s /\ [r EXCEPT !.status = s].set = r.set
  OBVIOUS

(* What a commit does to the queue, row by row: a new question where none   *)
(* was, an answer where one was asked, and nothing to a question that       *)
(* another request holds.                                                   *)
LEMMA WritesRows ==
  ASSUME InvIInv, NEW h \in Requests, Writes(h)
  PROVE  /\ DOMAIN asked' = Pairs
         /\ \A p \in DOMAIN req[h].asks :
              p \in Pairs \ Posed /\ asked'[p] = req[h].asks[p] /\ p \notin DOMAIN req[h].answers
         /\ \A p \in DOMAIN req[h].answers :
              p \in Posed /\ asked'[p] = [asked[p] EXCEPT !.status = req[h].answers[p]]
         /\ \A p \in Pairs \ (DOMAIN req[h].asks \cup DOMAIN req[h].answers) : asked'[p] = asked[p]
         /\ \A k \in Requests \ {h} : req[k].holds \cap DOMAIN req[h].answers = {}
<1> DEFINE e == req[h]
           ans == [q \in DOMAIN e.answers |-> Resolved(q, e.answers[q])]
<1>1. /\ asked' = After(After(asked, e.asks), ans)
      /\ ~Waits(h)
      /\ \A p \in DOMAIN e.asks : asked[p] = Unasked
      /\ \A p \in DOMAIN e.answers : asked[p] # Unasked
  BY Zenon DEF Writes, Fails
<1>2. DOMAIN asked = Pairs /\ DOMAIN ans = DOMAIN e.answers
      /\ DOMAIN e.asks \subseteq Pairs /\ DOMAIN e.answers \subseteq Pairs
  BY DEF InvIInv, SafeRequest, Coherent
<1>3. asked' = [p \in Pairs |-> IF p \in DOMAIN e.answers THEN Resolved(p, e.answers[p])
                                ELSE IF p \in DOMAIN e.asks THEN e.asks[p] ELSE asked[p]]
  BY <1>1, <1>2 DEF After
<1> HIDE DEF e
<1> QED BY <1>1, <1>2, <1>3 DEF Posed, Resolved, Waits, e

(* The rest of what a commit does.                                          *)
LEMMA WritesRest ==
  ASSUME InvIInv, NEW h \in Requests, Writes(h)
  PROVE  /\ DOMAIN req' = Requests /\ DOMAIN money' = Payments /\ Quiet(req'[h])
         /\ \A k \in Requests \ {h} : req'[k] = req[k]
         /\ allocs' \subseteq allocs \cup req[h].links
<1> DEFINE look == [Idle EXCEPT !.op = "look", !.status = req[h].status]
<1>1. /\ req' = [req EXCEPT ![h] = IF req[h].op = "issue" THEN look ELSE Idle]
      /\ allocs' = (allocs \cup IF Clashes(req[h]) THEN {} ELSE req[h].links) \ req[h].unlinks
      /\ money' = [t \in Payments |-> IF t \in req[h].lands THEN "landed" ELSE money[t]]
  BY Zenon DEF Writes
<1>2. Quiet(look) /\ Quiet(Idle)
  BY DEF Quiet, Idle
<1> HIDE DEF look
<1> QED BY <1>1, <1>2 DEF InvIInv

LEMMA WritesStep ==
  ASSUME InvIInv, NEW h \in Requests, Writes(h) PROVE InvIInv'
<1> DEFINE e == req[h]
<1>1. Coherent(asked, Posed) /\ SafeRequest(e) /\ LinksAnswer
  BY DEF InvIInv
<1>2. /\ \A p \in Posed : p \in Pairs /\ DOMAIN asked[p] = {"status", "set", "cents"}
      /\ \A p \in DOMAIN e.asks : p \in Pairs /\ e.asks[p].status # "none"
      /\ \A p \in DOMAIN e.answers : e.answers[p] \in Answered
  BY <1>1 DEF Coherent, SafeRequest, Posed, Answered
<1>3. \A p \in DOMAIN e.answers :
        /\ DOMAIN asked'[p] = {"status", "set", "cents"}
        /\ asked'[p].status = e.answers[p] /\ asked'[p].set = asked[p].set
  <2> SUFFICES ASSUME NEW p \in DOMAIN e.answers
               PROVE  /\ DOMAIN asked'[p] = {"status", "set", "cents"}
                      /\ asked'[p].status = e.answers[p] /\ asked'[p].set = asked[p].set
    OBVIOUS
  <2>1. asked'[p] = [asked[p] EXCEPT !.status = e.answers[p]]
        /\ DOMAIN asked[p] = {"status", "set", "cents"}
    BY <1>2, WritesRows
  <2> QED BY <2>1, AnswerKeeps
<1>4. Posed' = Posed \cup DOMAIN e.asks
  <2>1. ASSUME NEW p \in Pairs PROVE asked'[p] # Unasked <=> p \in Posed \cup DOMAIN e.asks
    <3>1. CASE p \in DOMAIN e.asks
      BY <1>2, <3>1, WritesRows DEF Unasked
    <3>2. CASE p \in DOMAIN e.answers
      <4>1. p \in Posed /\ asked'[p].status \in Answered
        BY <1>2, <1>3, <3>2, WritesRows
      <4>2. asked'[p] # Unasked
        BY <4>1 DEF Unasked, Answered
      <4> QED BY <4>1, <4>2
    <3>3. CASE p \notin DOMAIN e.asks \cup DOMAIN e.answers
      BY <3>3, WritesRows DEF Posed
    <3> QED BY <3>1, <3>2, <3>3
  <2> QED BY <2>1, <1>2 DEF Posed
<1>5. \A p \in Posed : /\ DOMAIN asked'[p] = {"status", "set", "cents"}
                       /\ asked'[p].set = asked[p].set
                       /\ asked'[p].status \in {"pending"} \cup Answered
  BY <1>1, <1>2, <1>3, WritesRows DEF Coherent
<1>6. Coherent(asked, Posed)'
  <2>1. ASSUME NEW p \in Posed
        PROVE  /\ p[2] \in asked'[p].set /\ asked'[p].set \subseteq Invs
               /\ \A i \in asked'[p].set : <<p[1], i>> \in Posed
                                           /\ asked'[<<p[1], i>>].set = asked'[p].set
    BY <1>1, <1>5 DEF Coherent
  <2>2. ASSUME NEW p \in DOMAIN e.asks
        PROVE  /\ DOMAIN asked'[p] = {"status", "set", "cents"}
               /\ asked'[p].status \in {"pending"} \cup Answered
               /\ p[2] \in asked'[p].set /\ asked'[p].set \subseteq Invs
               /\ \A i \in asked'[p].set : <<p[1], i>> \in DOMAIN e.asks
                                           /\ asked'[<<p[1], i>>].set = asked'[p].set
    BY <1>1, WritesRows DEF Coherent, SafeRequest
  <2> QED BY <1>2, <1>4, <1>5, <2>1, <2>2 DEF Coherent
<1>7. ASSUME NEW k \in Requests PROVE SafeRequest(req[k])'
  <2>1. CASE k = h
    BY <2>1, WritesRest DEF Quiet, SafeRequest, Nothing, Coherent
  <2>2. CASE k # h
    <3>1. req'[k] = req[k] /\ SafeRequest(req[k])
      BY <2>2, WritesRest DEF InvIInv
    <3>2. \A p \in req[k].holds : asked'[p] = asked[p]
      <4> SUFFICES ASSUME NEW p \in req[k].holds PROVE asked'[p] = asked[p]
        OBVIOUS
      <4>1. p \in Posed /\ p \in Pairs /\ p \notin DOMAIN e.answers
        BY <2>2, <3>1, WritesRows DEF SafeRequest, Posed, Unasked
      <4> QED BY <4>1, WritesRows
    <3> QED BY <3>1, <3>2 DEF SafeRequest, Members
  <2> QED BY <2>1, <2>2
<1>8. LinksAnswer'
  <2> SUFFICES ASSUME NEW a \in allocs', a.by = "answer"
               PROVE  /\ <<a.pay, a.inv>> \in Posed'
                      /\ asked'[<<a.pay, a.inv>>].set = {a.inv} =>
                           asked'[<<a.pay, a.inv>>].status \in {"accepted", "expired"}
    BY DEF LinksAnswer
  <2> DEFINE p == <<a.pay, a.inv>>
  <2>1. CASE a \in e.links
    <3>1. p \in DOMAIN e.answers /\ e.answers[p] = "accepted"
      BY <1>1, <2>1 DEF SafeRequest
    <3>2. /\ p \in Posed /\ p \in Pairs /\ DOMAIN asked[p] = {"status", "set", "cents"}
          /\ asked'[p] = [asked[p] EXCEPT !.status = "accepted"]
      BY <1>2, <3>1, WritesRows
    <3>3. asked'[p].status = "accepted"
      BY <3>2
    <3> QED BY <1>3, <1>4, <3>1, <3>2, <3>3
  <2>2. CASE a \in allocs
    <3>1. p \in Posed /\ (asked[p].set = {a.inv} => asked[p].status \in {"accepted", "expired"})
      BY <1>1, <2>2 DEF LinksAnswer
    <3>2. CASE p \notin DOMAIN e.answers
      BY <1>4, <3>1, <3>2, WritesRows DEF Posed
    <3>3. CASE p \in DOMAIN e.answers /\ e.answers[p] # "expired"
      <4>1. PICK q \in e.holds : q \in Pairs /\ asked[q].status = "pending"
                                 /\ DOMAIN e.answers = Members(q)
        BY <1>1, <3>3 DEF SafeRequest
      <4>2. q \in Posed /\ p[1] = q[1] /\ p[2] \in asked[q].set /\ q = <<q[1], q[2]>>
        BY <3>3, <4>1 DEF Members, Posed, Unasked, Pairs
      <4>3. asked[p].set = asked[q].set /\ q[2] \in asked[q].set
        BY <1>1, <4>2 DEF Coherent
      <4>4. asked[p].set = {a.inv} => q = p
        BY <4>2, <4>3
      <4> QED BY <1>3, <1>4, <3>1, <3>3, <4>1, <4>4
    <3>4. CASE p \in DOMAIN e.answers /\ e.answers[p] = "expired"
      BY <1>3, <1>4, <3>1, <3>4
    <3> QED BY <3>2, <3>3, <3>4
  <2> QED BY <2>1, <2>2, WritesRest
<1> QED BY <1>6, <1>7, <1>8, WritesRows, WritesRest DEF InvIInv

(* Deleting a payment takes its questions and links with it, and none of    *)
(* them is held.                                                            *)
LEMMA PaymentGoesStep ==
  ASSUME InvIInv, NEW t \in Payments, DeletesPayment(t) PROVE InvIInv'
<1>1. /\ asked' = [p \in Pairs |-> IF p[1] = t THEN Unasked ELSE asked[p]]
      /\ allocs' = allocs \ {a \in allocs : a.pay = t} /\ req' = req
      /\ money' = [money EXCEPT ![t] = "deleted"]
      /\ \A h \in Requests : req[h].holds \cap ({t} \X Invs) = {}
  BY DEF DeletesPayment, LinksWithout, Spent, Unlocked
<1>2. Posed' = {p \in Posed : p[1] # t} /\ \A p \in Posed' : asked'[p] = asked[p]
  BY <1>1 DEF Posed, Unasked
<1>3. Coherent(asked, Posed)'
  <2>1. \A p \in Posed : p \in Pairs /\ \A i \in asked[p].set : <<p[1], i>>[1] = p[1]
    BY DEF Posed
  <2> QED BY <1>2, <2>1 DEF InvIInv, Coherent
<1>4. ASSUME NEW h \in Requests PROVE SafeRequest(req[h])'
  <2>1. SafeRequest(req[h])
    BY DEF InvIInv
  <2>2. \A p \in req[h].holds : asked'[p] = asked[p]
    BY <1>1, <2>1 DEF SafeRequest, Pairs
  <2> QED BY <1>1, <2>1, <2>2 DEF SafeRequest, Members
<1>5. LinksAnswer'
  BY <1>1, <1>2 DEF InvIInv, LinksAnswer
<1> QED BY <1>1, <1>3, <1>4, <1>5 DEF InvIInv

LEMMA InvInvariant == InvSpec => []InvIInv
<1>1. ASSUME InvIInv, NEW h \in Requests, Drops(h) PROVE InvIInv'
  BY <1>1, RequestStep, QuietSound DEF Drops, Quiet, Idle
<1>2. InvIInv /\ UNCHANGED invVars => InvIInv'
  BY DEF invVars, InvIInv, SafeRequest, Members, Posed, LinksAnswer
<1>3. InvIInv /\ [InvNext]_invVars => InvIInv'
  BY <1>1, <1>2, DocumentStep, MatcherStep, AnswerStep, WritesStep, PaymentGoesStep DEF InvNext
<1> QED BY <1>3, InvInitially, PTL DEF InvSpec

(* A question about one invoice that reads as declined has settled nothing, *)
(* however many people and jobs answer, delete and import at once.          *)
THEOREM DeclinedStaysOpen == InvSpec => []QueueAgrees
<1>1. InvIInv => QueueAgrees
  BY DEF InvIInv, QueueAgrees, LinksAnswer, Pairs
<1> QED BY <1>1, InvInvariant, PTL

(* A pair is asked about once: the row of the question stays as long as the *)
(* payment does.                                                            *)
THEOREM AskedOnce == InvSpec => NeverReasked
<1>1. ASSUME InvIInv, InvNext, NEW p \in Pairs, asked[p] # Unasked, money'[p[1]] = "landed"
      PROVE  asked'[p] = asked[p] \/ asked'[p].status \in Answered
  <2>1. ASSUME NEW h \in Requests, Writes(h)
        PROVE  asked'[p] = asked[p] \/ asked'[p].status \in Answered
    <3>1. p \in Posed /\ DOMAIN asked[p] = {"status", "set", "cents"}
      BY <1>1 DEF InvIInv, Coherent, Posed
    <3>2. CASE p \in DOMAIN req[h].answers
      <4>1. /\ req[h].answers[p] \in Answered
            /\ asked'[p] = [asked[p] EXCEPT !.status = req[h].answers[p]]
        BY <1>1, <2>1, <3>2, WritesRows DEF InvIInv, SafeRequest
      <4> QED BY <3>1, <4>1, AnswerKeeps
    <3>3. CASE p \notin DOMAIN req[h].answers
      BY <1>1, <2>1, <3>1, <3>3, WritesRows
    <3> QED BY <3>2, <3>3
  <2>2. ASSUME NEW t \in Payments, DeletesPayment(t)
        PROVE  asked'[p] = asked[p] \/ asked'[p].status \in Answered
    BY <1>1, <2>2 DEF DeletesPayment, InvIInv, Pairs
  <2>3. asked' = asked \/ (\E h \in Requests : Writes(h)) \/ \E t \in Payments : DeletesPayment(t)
    <3>1. ASSUME NEW h \in Requests, NEW i \in Invs,
                 \/ Creates(h, i) \/ Issues(h, i) \/ DeletesDraft(h, i)
                 \/ WritesOff(h, i) \/ Reopens(h, i) \/ Voids(h, i) \/ LooksBack(h, i)
                 \/ \E t \in Payments : Allocates(h, i, t)
          PROVE  asked' = asked
      BY <3>1, Zenon DEF Submits, Creates, Issues, DeletesDraft, WritesOff, Reopens, Voids, LooksBack, Allocates
    <3>2. ASSUME NEW h \in Requests,
                 \/ \E a \in allocs : Unallocates(h, a)
                 \/ \E t \in Payments : Arrives(h, t)
                 \/ \E q \in Pairs : Accepts(h, q) \/ Declines(h, q) \/ Expires(h, q)
                 \/ Drops(h)
          PROVE  asked' = asked
      BY <3>2, Zenon DEF Submits, Unallocates, Arrives, Accepts, Declines, Expires, Drops
    <3> QED BY <1>1, <3>1, <3>2, Zenon DEF InvNext
  <2> QED BY <2>1, <2>2, <2>3
<1>2. InvIInv /\ [InvNext]_invVars =>
        [\A p \in Pairs : asked[p] # Unasked /\ money'[p[1]] = "landed" =>
           \/ asked'[p] = asked[p]
           \/ asked'[p].status \in Answered]_invVars
  BY <1>1
<1> QED BY <1>2, InvInvariant, PTL DEF InvSpec, NeverReasked
-----------------------------------------------------------------------------
(* Types of the invoices.  An amount that is linked is positive and one that *)
(* is asked about is not negative, whatever the policy decides.             *)
QuestionType == [status : {"pending"} \cup Answered, set : SUBSET Invs, cents : Nat]

TypedRequest(e) ==
  /\ DOMAIN e = DOMAIN Idle
  /\ \A i \in DOMAIN e.status : e.status[i] \in {"deleted", "draft", "open", "void", "uncollectible"}
  /\ e.number # Nothing => \E i \in Invs, n \in Nat \ {0} : e.number = [x \in {i} |-> n]
  /\ e.links \subseteq AllocType /\ IsFiniteSet(e.links)
  /\ \A p \in DOMAIN e.asks : e.asks[p] \in QuestionType
  /\ \A p \in DOMAIN e.answers : e.answers[p] \in Answered

InvTypeIInv ==
  /\ InvTypeOK /\ IsFiniteSet(allocs)
  /\ \A h \in Requests : TypedRequest(req[h])

LEMMA IdleTyped == TypedRequest(Idle)
<1>1. IsFiniteSet({})
  BY FS_EmptySet
<1> QED BY <1>1 DEF TypedRequest, Idle, Nothing

LEMMA InvTypesInitially == InvInit => InvTypeIInv
<1>1. IsFiniteSet({})
  BY FS_EmptySet
<1> QED BY <1>1, IdleTyped DEF InvInit, InvTypeIInv, InvTypeOK, Landed, Unasked

LEMMA BalanceInt ==
  ASSUME InvTypeIInv, NEW i \in Invs PROVE Balance(i) \in Int
<1> DEFINE f == [a \in Of(i) |-> a.cents]
<1>1. IsFiniteSet(Of(i))
  <2>1. Of(i) \subseteq allocs
    BY DEF Of
  <2> QED BY <2>1, FS_Subset DEF InvTypeIInv
<1>2. f \in [Of(i) -> Int]
  BY DEF Of, InvTypeIInv, InvTypeOK, AllocType
<1>3. SumFunction(f) \in Int
  <2> HIDE DEF f
  <2>1. Of(i) \in SUBSET Of(i)
    OBVIOUS
  <2>2. SumFunction(f) = Part(f, Of(i)) /\ Part(f, Of(i)) \in Int
    BY <1>1, <1>2, <2>1, SumParts, Zenon
  <2> QED BY <2>2
<1>4. Cents[i] \in Int
  BY InvoicesAssumption
<1> HIDE DEF f
<1> QED BY <1>3, <1>4 DEF Balance, f

LEMMA WaitingOwed ==
  ASSUME InvTypeIInv, NEW i \in Waiting PROVE i \in Invs /\ Balance(i) \in Nat \ {0}
<1>1. i \in Invs /\ Balance(i) > 0
  BY DEF Waiting
<1> QED BY <1>1, BalanceInt

LEMMA LeastPositive ==
  ASSUME NEW a \in Nat \ {0}, NEW b \in Nat \ {0} PROVE Least(a, b) \in Nat \ {0}
  BY DEF Least

LEMMA PairsFinite == IsFiniteSet(Pairs)
  BY InvoicesAssumption, FS_Product DEF Pairs

(* What the strategies decide about a payment.                              *)
LEMMA DecisionsTyped ==
  ASSUME InvTypeIInv, NEW t \in Payments, NEW d \in Decisions(t, Waiting)
  PROVE  DOMAIN d \subseteq Invs /\ IsFiniteSet(DOMAIN d) /\ \A i \in DOMAIN d : d[i] \in Nat
<1>1. Waiting \subseteq Invs
  BY DEF Waiting
<1>2. DOMAIN d \subseteq Invs
  BY <1>1, DecisionsKnown
<1>3. IsFiniteSet(DOMAIN d)
  BY <1>2, InvoicesAssumption, FS_Subset
<1>4. Cents[t] \in Nat \ {0}
  BY InvoicesAssumption
<1>5. ASSUME NEW c \in Waiting, d = [i \in {c} |-> Least(Cents[t], Balance(c))]
      PROVE  \A i \in DOMAIN d : d[i] \in Nat
  <2>1. Least(Cents[t], Balance(c)) \in Nat
    BY <1>4, WaitingOwed, LeastPositive
  <2> QED BY <1>5, <2>1
<1>6. ASSUME NEW S \in SUBSET Waiting, NEW s \in SetToSeqs(S), d = ShareOut(Cents[t], s)
      PROVE  \A i \in DOMAIN d : d[i] \in Nat
  <2>1. ToSet(s) \subseteq S
    BY DEF SetToSeqs, ToSet
  <2>2. IsFiniteSet(ToSet(s))
    BY <1>1, <2>1, InvoicesAssumption, FS_Subset
  <2>3. \A i \in ToSet(s) : Balance(i) \in Nat \ {0}
    BY <2>1, WaitingOwed
  <2>4. d \in [ToSet(s) -> Nat]
    BY <1>4, <1>6, <2>2, <2>3, ShareTyped
  <2> QED BY <2>4
<1>7. \A i \in DOMAIN d : d[i] \in Nat
  BY <1>5, <1>6, Zenon DEF Decisions
<1> QED BY <1>2, <1>3, <1>7

(* A request only reads until it writes.                                    *)
LEMMA TypedStep ==
  ASSUME InvIInv, InvTypeIInv, NEW h \in Requests, NEW e, TypedRequest(e),
         req' = [req EXCEPT ![h] = e], UNCHANGED <<inv, nextNumber, money, allocs, asked>>
  PROVE  InvTypeIInv'
<1>1. \A k \in Requests : req'[k] = IF k = h THEN e ELSE req[k]
  BY DEF InvIInv
<1>2. \A k \in Requests : TypedRequest(req'[k])
  BY <1>1 DEF InvTypeIInv
<1>3. \A k \in Requests : DOMAIN req'[k] = DOMAIN Idle
  BY <1>2 DEF TypedRequest
<1> QED BY <1>2, <1>3 DEF InvTypeIInv, InvTypeOK, Landed

(* Requests that write documents.                                           *)
LEMMA DocumentTyped ==
  ASSUME NEW i \in Invs
  PROVE  /\ \A s \in {"deleted", "draft", "open", "void", "uncollectible"} : TypedRequest(Sets(i, s))
         /\ TypedRequest(Opened(i))
         /\ nextNumber \in Nat \ {0} => TypedRequest(Numbered(i))
<1>1. IsFiniteSet({})
  BY FS_EmptySet
<1>2. \A s \in {"deleted", "draft", "open", "void", "uncollectible"} : TypedRequest(Sets(i, s))
  BY <1>1 DEF TypedRequest, Sets, Idle, Nothing
<1>3. TypedRequest(Opened(i))
  BY <1>1 DEF TypedRequest, Opened, Sets, Idle, Nothing
<1>4. ASSUME nextNumber \in Nat \ {0} PROVE TypedRequest(Numbered(i))
  BY <1>1, <1>4 DEF TypedRequest, Numbered, Opened, Sets, Idle, Nothing
<1> QED BY <1>2, <1>3, <1>4

(* A finite set has finitely many images.                                   *)
LEMMA ImageFinite ==
  ASSUME NEW f, IsFiniteSet(DOMAIN f) PROVE IsFiniteSet({f[x] : x \in DOMAIN f})
<1> DEFINE T == {f[x] : x \in DOMAIN f}
           g == [x \in DOMAIN f |-> f[x]]
<1>1. g \in Surjection(DOMAIN f, T)
  BY DEF Surjection
<1> QED BY <1>1, FS_Surjection

(* A request that writes nothing but new links, or nothing but questions.   *)
LEMMA LinkingTyped ==
  ASSUME NEW e, TypedRequest(e), NEW L \in SUBSET AllocType, IsFiniteSet(L)
  PROVE  TypedRequest([e EXCEPT !.links = L])
  BY DEF TypedRequest, Idle

LEMMA AskingTyped ==
  ASSUME NEW e, TypedRequest(e), NEW f, \A p \in DOMAIN f : f[p] \in QuestionType
  PROVE  TypedRequest([e EXCEPT !.asks = f])
  BY DEF TypedRequest, Idle

LEMMA MatchTyped ==
  ASSUME NEW S PROVE TypedRequest([Idle EXCEPT !.op = "match", !.lands = S])
                     /\ TypedRequest([Idle EXCEPT !.op = "match"])
                     /\ TypedRequest([Idle EXCEPT !.op = "link"])
<1>1. IsFiniteSet({})
  BY FS_EmptySet
<1> QED BY <1>1 DEF TypedRequest, Idle, Nothing

(* The links that a decision makes, once each share fits what is owed.      *)
LEMMA LinksTyped ==
  ASSUME NEW t \in Payments, NEW d, NEW by \in {"hand", "rule", "answer"},
         DOMAIN d \subseteq Invs, IsFiniteSet(DOMAIN d), \A i \in DOMAIN d : d[i] \in Nat \ {0}
  PROVE  Links(t, d, by) \in SUBSET AllocType /\ IsFiniteSet(Links(t, d, by))
<1> DEFINE f == [i \in DOMAIN d |-> Alloc(t, i, d[i], by)]
<1>1. Links(t, d, by) = {f[i] : i \in DOMAIN f}
  BY DEF Links
<1>2. IsFiniteSet({f[i] : i \in DOMAIN f})
  <2>1. IsFiniteSet(DOMAIN f)
    OBVIOUS
  <2> HIDE DEF f
  <2> QED BY <2>1, ImageFinite
<1>3. Links(t, d, by) \in SUBSET AllocType
  BY DEF Links, Alloc, AllocType
<1> QED BY <1>1, <1>2, <1>3

LEMMA HandTyped ==
  ASSUME InvIInv, InvTypeIInv, NEW h \in Requests, NEW i \in Invs, NEW t \in Payments, Allocates(h, i, t)
  PROVE  \E e : TypedRequest(e) /\ Submits(h, e)
<1>1. PICK n \in {Least(Balance(i), Cents[t]), Balance(i)} :
        Allocatable(i, n) /\ Submits(h, [Idle EXCEPT !.op = "link", !.links = {Alloc(t, i, n, "hand")}])
  BY Zenon DEF Allocates
<1>2. n \in Nat \ {0}
  <2>1. Balance(i) \in Int /\ Cents[t] \in Int
    BY BalanceInt, InvoicesAssumption
  <2>2. n > 0
    BY <1>1 DEF Allocatable
  <2> QED BY <1>1, <2>1, <2>2 DEF Least
<1> DEFINE L == {Alloc(t, i, n, "hand")}
           e == [Idle EXCEPT !.op = "link"]
<1>3. L \in SUBSET AllocType /\ IsFiniteSet(L)
  <2>1. L \in SUBSET AllocType
    BY <1>2 DEF Alloc, AllocType
  <2> HIDE DEF L
  <2>2. \A x : IsFiniteSet({x})
    BY FS_Singleton, Zenon
  <2>3. IsFiniteSet(L)
    BY <2>2, Zenon DEF L
  <2> QED BY <2>1, <2>3
<1>4. TypedRequest([e EXCEPT !.links = L])
  <2>1. TypedRequest(e)
    BY MatchTyped
  <2> HIDE DEF L, e
  <2> QED BY <1>3, <2>1, LinkingTyped
<1>5. [e EXCEPT !.links = L] = [Idle EXCEPT !.op = "link", !.links = L]
  BY Zenon
<1> QED BY <1>1, <1>4, <1>5

(* The matcher, in the transaction that books the payment.                  *)
LEMMA ArrivalTyped ==
  ASSUME InvIInv, InvTypeIInv, NEW h \in Requests, NEW t \in Payments, Arrives(h, t)
  PROVE  \E e : TypedRequest(e) /\ Submits(h, e)
<1> DEFINE booked == [Idle EXCEPT !.op = "match", !.lands = {t}]
<1>1. TypedRequest(booked)
  BY MatchTyped
<1>2. ASSUME NEW d \in Decisions(t, Waiting), Fits(d)
      PROVE  TypedRequest([booked EXCEPT !.links = Links(t, d, "rule")])
  <2>1. \A i \in DOMAIN d : d[i] \in Nat \ {0}
    BY <1>2, DecisionsTyped DEF Fits, Allocatable
  <2> HIDE DEF booked
  <2> QED BY <1>1, <2>1, DecisionsTyped, LinksTyped, LinkingTyped
<1>3. ASSUME NEW d \in Decisions(t, Waiting)
      PROVE  TypedRequest([booked EXCEPT !.asks = Asks(t, d)])
  <2>1. \A p \in DOMAIN Asks(t, d) : Asks(t, d)[p] \in QuestionType
    BY DecisionsTyped DEF Asks, Question, QuestionType
  <2> HIDE DEF booked
  <2> QED BY <1>1, <2>1, AskingTyped
<1> QED BY <1>1, <1>2, <1>3, Zenon DEF Arrives

(* The matcher, once a document was issued.                                 *)
LEMMA LookingTyped ==
  ASSUME InvIInv, InvTypeIInv, NEW h \in Requests, NEW i \in Invs, LooksBack(h, i)
  PROVE  \E e : TypedRequest(e) /\ req' = [req EXCEPT ![h] = e]
<1> DEFINE d(t) == [x \in {i} |-> Least(Cents[t], Balance(i))]
           asks(T) == [p \in T \X {i} |-> Question({i}, d(p[1])[i])]
           links(L) == UNION {Links(t, d(t), "rule") : t \in L}
           base == [Idle EXCEPT !.op = "match"]
<1>1. PICK T \in SUBSET Payments, L \in SUBSET Payments :
        /\ L \cup T # {} => i \in Waiting
        /\ req' = [req EXCEPT ![h] = [Idle EXCEPT !.op = "match", !.asks = asks(T), !.links = links(L)]]
  BY Zenon DEF LooksBack, Landed
<1>2. ASSUME NEW t \in Payments, i \in Waiting PROVE Least(Cents[t], Balance(i)) \in Nat \ {0}
  BY <1>2, WaitingOwed, LeastPositive, InvoicesAssumption
<1>3. \A p \in DOMAIN asks(T) : asks(T)[p] \in QuestionType
  <2> SUFFICES ASSUME NEW p \in T \X {i} PROVE Question({i}, d(p[1])[i]) \in QuestionType
    OBVIOUS
  <2>1. p[1] \in Payments /\ i \in Waiting
    BY <1>1
  <2>2. d(p[1])[i] \in Nat
    BY <1>2, <2>1
  <2> HIDE DEF d
  <2> QED BY <2>2 DEF Question, QuestionType
<1>4. links(L) \in SUBSET AllocType /\ IsFiniteSet(links(L))
  <2> DEFINE f == [t \in L |-> Alloc(t, i, Least(Cents[t], Balance(i)), "rule")]
  <2>1. links(L) = {f[t] : t \in DOMAIN f}
    BY DEF Links
  <2>2. \A t \in L : f[t] \in AllocType
    BY <1>1, <1>2 DEF Alloc, AllocType
  <2>3. IsFiniteSet(DOMAIN f) /\ DOMAIN f = L
    BY InvoicesAssumption, FS_Subset
  <2> HIDE DEF f, links
  <2>4. IsFiniteSet({f[t] : t \in DOMAIN f})
    BY <2>3, ImageFinite
  <2> QED BY <2>1, <2>2, <2>3, <2>4
<1>5. TypedRequest([[base EXCEPT !.asks = asks(T)] EXCEPT !.links = links(L)])
  <2>1. TypedRequest(base)
    BY MatchTyped
  <2> HIDE DEF base, asks, links
  <2>2. TypedRequest([base EXCEPT !.asks = asks(T)])
    BY <1>3, <2>1, AskingTyped
  <2> QED BY <1>4, <2>2, LinkingTyped
<1>6. [Idle EXCEPT !.op = "match", !.asks = asks(T), !.links = links(L)]
        = [[base EXCEPT !.asks = asks(T)] EXCEPT !.links = links(L)]
  <2> HIDE DEF asks, links
  <2> QED BY DEF Idle
<1> HIDE DEF asks, links, base
<1> QED BY <1>1, <1>5, <1>6

(* Answers.  What is linked is what was asked about, as long as it fits.    *)
LEMMA AnswersTyped ==
  ASSUME InvIInv, InvTypeIInv, NEW p \in Pairs, asked[p].status = "pending",
         NEW s \in Answered
  PROVE  TypedRequest(Answers(p, s)) /\ TypedRequest(Takes(p, s))
<1>1. IsFiniteSet({})
  BY FS_EmptySet
<1>2. TypedRequest(Answers(p, s))
  BY <1>1 DEF TypedRequest, Answers, Idle, Nothing
<1>3. TypedRequest(Takes(p, s))
  BY <1>1 DEF TypedRequest, Takes, Answers, Idle, Nothing
<1> QED BY <1>2, <1>3

LEMMA AcceptedTyped ==
  ASSUME InvIInv, InvTypeIInv, NEW h \in Requests, NEW p \in Pairs, Accepts(h, p)
  PROVE  \E e : TypedRequest(e) /\ Submits(h, e)
<1> DEFINE f == [q \in Members(p) |-> Alloc(q[1], q[2], asked[q].cents, "answer")]
           L == {Alloc(q[1], q[2], asked[q].cents, "answer") : q \in Members(p)}
<1>1. /\ asked[p].status = "pending" /\ \A q \in Members(p) : Allocatable(q[2], asked[q].cents)
      /\ Submits(h, [Takes(p, "accepted") EXCEPT !.links = L])
  BY Zenon DEF Accepts
<1>2. p \in Posed /\ \A q \in Members(p) : q \in Posed
  BY <1>1 DEF InvIInv, Coherent, Posed, Unasked, Members
<1>3. \A q \in Members(p) : q \in Pairs /\ asked[q].cents \in Nat /\ asked[q].cents > 0
  <2> SUFFICES ASSUME NEW q \in Members(p)
               PROVE  q \in Pairs /\ asked[q].cents \in Nat /\ asked[q].cents > 0
    OBVIOUS
  <2>1. q \in Pairs /\ asked[q] # Unasked
    BY <1>2 DEF Posed
  <2>2. asked[q].cents \in Nat
    BY <2>1 DEF InvTypeIInv, InvTypeOK
  <2>3. 0 < asked[q].cents
    BY <1>1 DEF Allocatable
  <2> QED BY <2>1, <2>2, <2>3
<1>4. L \in SUBSET AllocType
  BY <1>3 DEF Alloc, AllocType, Pairs
<1>5. IsFiniteSet(L)
  <2>1. Members(p) \subseteq Pairs
    BY <1>3
  <2>2. IsFiniteSet(Members(p))
    BY <2>1, PairsFinite, FS_Subset
  <2>3. L = {f[q] : q \in DOMAIN f} /\ DOMAIN f = Members(p)
    OBVIOUS
  <2> HIDE DEF L, f
  <2> QED BY <2>2, <2>3, ImageFinite
<1>6. TypedRequest(Takes(p, "accepted"))
  <2>1. "accepted" \in Answered
    BY DEF Answered
  <2> QED BY <1>1, <2>1, AnswersTyped
<1> HIDE DEF L
<1>7. TypedRequest([Takes(p, "accepted") EXCEPT !.links = L])
  BY <1>4, <1>5, <1>6, LinkingTyped
<1> QED BY <1>1, <1>7

LEMMA SubmitsTyped ==
  ASSUME InvIInv, InvTypeIInv, NEW h \in Requests,
         \/ \E i \in Invs :
              \/ Creates(h, i) \/ Issues(h, i) \/ DeletesDraft(h, i)
              \/ WritesOff(h, i) \/ Reopens(h, i) \/ Voids(h, i)
         \/ \E a \in allocs : Unallocates(h, a)
         \/ \E p \in Pairs : Declines(h, p) \/ Expires(h, p)
  PROVE  \E e : TypedRequest(e) /\ Submits(h, e)
<1>1. ASSUME NEW i \in Invs,
             \/ Creates(h, i) \/ Issues(h, i) \/ DeletesDraft(h, i)
             \/ WritesOff(h, i) \/ Reopens(h, i) \/ Voids(h, i)
      PROVE  \E e : TypedRequest(e) /\ Submits(h, e)
  <2>1. nextNumber \in Nat \ {0}
    BY DEF InvTypeIInv, InvTypeOK
  <2>2. /\ TypedRequest(Sets(i, "draft")) /\ TypedRequest(Sets(i, "deleted"))
        /\ TypedRequest(Sets(i, "uncollectible")) /\ TypedRequest(Sets(i, "open"))
        /\ TypedRequest(Sets(i, "void")) /\ TypedRequest(Opened(i)) /\ TypedRequest(Numbered(i))
    BY <2>1, DocumentTyped
  <2> QED BY <1>1, <2>2, Zenon DEF Creates, Issues, DeletesDraft, WritesOff, Reopens, Voids
<1>2. ASSUME NEW a \in allocs, Unallocates(h, a) PROVE \E e : TypedRequest(e) /\ Submits(h, e)
  <2>1. TypedRequest([Idle EXCEPT !.op = "unlink", !.unlinks = {a}])
    BY IdleTyped DEF TypedRequest, Idle
  <2> QED BY <1>2, <2>1, Zenon DEF Unallocates
<1>3. ASSUME NEW p \in Pairs, Declines(h, p) \/ Expires(h, p)
      PROVE  \E e : TypedRequest(e) /\ Submits(h, e)
  <2>1. asked[p].status = "pending" /\ "declined" \in Answered /\ "expired" \in Answered
    BY <1>3 DEF Declines, Expires, Answered
  <2>2. TypedRequest(Takes(p, "declined")) /\ TypedRequest(Answers(p, "expired"))
    BY <2>1, AnswersTyped
  <2> QED BY <1>3, <2>2, Zenon DEF Declines, Expires
<1> QED BY <1>1, <1>2, <1>3, Zenon

(* What a commit leaves.                                                    *)
LEMMA WritesDocuments ==
  ASSUME InvTypeIInv, NEW h \in Requests, Writes(h)
  PROVE  /\ inv' \in [Invs -> [status : {"absent", "deleted", "draft", "open", "void", "uncollectible"},
                                number : Nat]]
         /\ nextNumber' \in Nat \ {0}
<1> DEFINE e == req[h]
<1>1. /\ inv' = [i \in Invs |->
                  [status |-> IF i \in DOMAIN e.status THEN e.status[i] ELSE inv[i].status,
                   number |-> IF i \in DOMAIN e.number THEN e.number[i] ELSE inv[i].number]]
      /\ nextNumber' = IF e.number = Nothing THEN nextNumber ELSE Max(Range(e.number)) + 1
  BY Zenon DEF Writes
<1>2. /\ \A i \in Invs : /\ inv[i].status \in {"absent", "deleted", "draft", "open", "void", "uncollectible"}
                         /\ inv[i].number \in Nat
      /\ nextNumber \in Nat \ {0} /\ TypedRequest(e)
  BY DEF InvTypeIInv, InvTypeOK
<1>3. \A i \in DOMAIN e.status : e.status[i] \in {"deleted", "draft", "open", "void", "uncollectible"}
  BY <1>2 DEF TypedRequest
<1>4. CASE e.number = Nothing
  <2>1. DOMAIN e.number = {}
    BY <1>4 DEF Nothing
  <2> HIDE DEF e
  <2> QED BY <1>1, <1>2, <1>3, <1>4, <2>1
<1>5. CASE e.number # Nothing
  <2>1. PICK j \in Invs, n \in Nat \ {0} : e.number = [x \in {j} |-> n]
    BY <1>2, <1>5 DEF TypedRequest
  <2>2. Range(e.number) = {n}
    BY <2>1 DEF Range
  <2>3. Max({n}) = n
    BY DEF Max
  <2>4. \A i \in DOMAIN e.number : e.number[i] \in Nat
    BY <2>1
  <2> HIDE DEF e
  <2>5. nextNumber' \in Nat \ {0}
    BY <1>1, <1>5, <2>2, <2>3
  <2> QED BY <1>1, <1>2, <1>3, <2>4, <2>5
<1> QED BY <1>4, <1>5

LEMMA WritesLinks ==
  ASSUME InvTypeIInv, NEW h \in Requests, Writes(h)
  PROVE  /\ money' \in [Payments -> {"expected", "landed", "deleted"}]
         /\ allocs' \subseteq AllocType /\ IsFiniteSet(allocs') /\ \A a \in allocs' : a.pay \in Landed'
<1> DEFINE e == req[h]
           new == IF Clashes(e) THEN {} ELSE e.links
<1>1. /\ money' = [t \in Payments |-> IF t \in e.lands THEN "landed" ELSE money[t]]
      /\ allocs' = (allocs \cup new) \ e.unlinks
  BY Zenon DEF Writes
<1>2. /\ money \in [Payments -> {"expected", "landed", "deleted"}]
      /\ allocs \subseteq AllocType /\ IsFiniteSet(allocs) /\ \A a \in allocs : a.pay \in Landed
      /\ TypedRequest(e)
  BY DEF InvTypeIInv, InvTypeOK
<1>3. new \subseteq AllocType /\ IsFiniteSet(new) /\ \A a \in new : a.pay \in Landed \cup e.lands
  <2>1. IsFiniteSet({})
    BY FS_EmptySet
  <2> QED BY <1>2, <2>1 DEF TypedRequest, Clashes
<1> HIDE DEF e, new
<1>4. IsFiniteSet(allocs')
  <2>1. IsFiniteSet(allocs \cup new)
    BY <1>2, <1>3, FS_Union
  <2>2. allocs' \subseteq allocs \cup new
    BY <1>1
  <2> QED BY <2>1, <2>2, FS_Subset
<1>5. \A t \in Payments : t \in Landed \cup e.lands => t \in Landed'
  BY <1>1 DEF Landed
<1>6. \A a \in AllocType : a.pay \in Payments
  BY DEF AllocType
<1>7. allocs' \subseteq AllocType /\ \A a \in allocs' : a.pay \in Landed'
  BY <1>1, <1>2, <1>3, <1>5, <1>6
<1>8. money' \in [Payments -> {"expected", "landed", "deleted"}]
  BY <1>1, <1>2
<1> QED BY <1>4, <1>7, <1>8

LEMMA WritesTyped ==
  ASSUME InvIInv, InvTypeIInv, NEW h \in Requests, Writes(h) PROVE InvTypeIInv'
<1> DEFINE e == req[h]
<1>1. TypedRequest(e)
  BY DEF InvTypeIInv
<1>2. \A p \in Pairs : asked'[p] = Unasked \/ asked'[p] \in QuestionType
  <2> SUFFICES ASSUME NEW p \in Pairs PROVE asked'[p] = Unasked \/ asked'[p] \in QuestionType
    OBVIOUS
  <2>1. asked[p] = Unasked \/ asked[p] \in QuestionType
    BY DEF InvTypeIInv, InvTypeOK, QuestionType
  <2>2. CASE p \in DOMAIN e.asks
    BY <1>1, <2>2, WritesRows DEF TypedRequest
  <2>3. CASE p \in DOMAIN e.answers
    <3>1. asked[p] \in QuestionType /\ asked'[p] = [asked[p] EXCEPT !.status = e.answers[p]]
      BY <2>1, <2>3, WritesRows DEF Posed
    <3>2. e.answers[p] \in Answered
      BY <1>1, <2>3 DEF TypedRequest
    <3> HIDE DEF e
    <3> QED BY <3>1, <3>2 DEF QuestionType
  <2>4. CASE p \notin DOMAIN e.asks \cup DOMAIN e.answers
    BY <2>1, <2>4, WritesRows
  <2> QED BY <2>2, <2>3, <2>4
<1>3. ASSUME NEW k \in Requests PROVE TypedRequest(req'[k])
  <2> DEFINE look == [Idle EXCEPT !.op = "look", !.status = e.status]
  <2>1. TypedRequest(look)
    BY <1>1, IdleTyped DEF TypedRequest, Idle
  <2>2. req' = [req EXCEPT ![h] = IF e.op = "issue" THEN look ELSE Idle]
    BY Zenon DEF Writes
  <2>3. TypedRequest(req[k]) /\ DOMAIN req = Requests
    BY DEF InvTypeIInv, InvIInv
  <2> HIDE DEF look, e
  <2>4. req'[k] \in {look, Idle, req[k]}
    BY <2>2, <2>3
  <2> QED BY <2>1, <2>3, <2>4, IdleTyped
<1>4. \A k \in Requests : DOMAIN req'[k] = DOMAIN Idle
  BY <1>3 DEF TypedRequest
<1> QED BY <1>2, <1>3, <1>4, WritesDocuments, WritesLinks DEF InvTypeIInv, InvTypeOK, QuestionType

LEMMA PaymentGoesTyped ==
  ASSUME InvIInv, InvTypeIInv, NEW t \in Payments, DeletesPayment(t) PROVE InvTypeIInv'
<1>1. /\ money' = [money EXCEPT ![t] = "deleted"] /\ allocs' = allocs \ {a \in allocs : a.pay = t}
      /\ asked' = [p \in Pairs |-> IF p[1] = t THEN Unasked ELSE asked[p]]
      /\ UNCHANGED <<inv, nextNumber, req>>
  BY DEF DeletesPayment, LinksWithout, Spent
<1>2. /\ money' \in [Payments -> {"expected", "landed", "deleted"}]
      /\ \A u \in Landed : u # t => u \in Landed'
  BY <1>1 DEF InvTypeIInv, InvTypeOK, Landed
<1>3. allocs' \subseteq AllocType /\ \A a \in allocs' : a.pay \in Landed'
  BY <1>1, <1>2 DEF InvTypeIInv, InvTypeOK
<1>4. IsFiniteSet(allocs')
  BY <1>1, FS_Subset DEF InvTypeIInv
<1>5. \A p \in Pairs : asked'[p] = Unasked \/ asked'[p] = asked[p]
  BY <1>1
<1>6. \A k \in Requests : req'[k] = req[k]
  BY <1>1
<1> QED BY <1>1, <1>2, <1>3, <1>4, <1>5, <1>6 DEF InvTypeIInv, InvTypeOK

LEMMA InvTypeInductive == InvIInv /\ InvTypeIInv /\ [InvNext]_invVars => InvTypeIInv'
<1> SUFFICES ASSUME InvIInv, InvTypeIInv, [InvNext]_invVars PROVE InvTypeIInv'
  OBVIOUS
<1>1. ASSUME NEW h \in Requests, NEW e, TypedRequest(e), Submits(h, e) PROVE InvTypeIInv'
  BY <1>1, TypedStep, Zenon DEF Submits
<1>2. ASSUME NEW h \in Requests, NEW i \in Invs, LooksBack(h, i) PROVE InvTypeIInv'
  <2>1. UNCHANGED <<inv, nextNumber, money, allocs, asked>>
    BY <1>2, Zenon DEF LooksBack
  <2> QED BY <1>2, <2>1, LookingTyped, TypedStep, Zenon
<1>3. ASSUME NEW h \in Requests, Drops(h) PROVE InvTypeIInv'
  <2>1. req' = [req EXCEPT ![h] = Idle] /\ UNCHANGED <<inv, nextNumber, money, allocs, asked>>
    BY <1>3, Zenon DEF Drops
  <2> QED BY <2>1, IdleTyped, TypedStep, Zenon
<1>4. CASE UNCHANGED invVars
  BY <1>4 DEF invVars, InvTypeIInv, InvTypeOK, Landed
<1>5. CASE InvNext
  BY <1>1, <1>2, <1>3, <1>5, SubmitsTyped, HandTyped, ArrivalTyped, AcceptedTyped,
     WritesTyped, PaymentGoesTyped, Zenon DEF InvNext
<1> QED BY <1>4, <1>5

(* The books of invoices keep their types: every link is a positive amount  *)
(* of a payment that is on the books, and what is asked about is never      *)
(* negative, however a payment is shared out.                               *)
THEOREM InvTypes == InvSpec => []InvTypeOK
<1>1. InvTypeIInv => InvTypeOK
  BY DEF InvTypeIInv
<1> QED BY <1>1, InvTypesInitially, InvTypeInductive, InvInvariant, PTL DEF InvSpec

-----------------------------------------------------------------------------
(* The workspace.  Its parts share no state, and a step of one leaves the   *)
(* others as they were.                                                     *)
LEMMA PartsStep ==
  [WorkspaceNext]_bookVars =>
    [FeedNext]_feedVars /\ [SyncNext]_syncVars /\ [InvNext]_invVars /\ [ApprovalNext]_approvalVars
  BY Zenon DEF WorkspaceNext, bookVars, FeedStep, SyncStep, InvStep, ApprovalStep

(* Whatever its bank, its jobs, its people and external agents do, and in   *)
(* whatever order, the books of a workspace keep their types.               *)
THEOREM WorkspaceTyped == WorkspaceSpec => []TypeOK
<1>1. WorkspaceSpec => FeedSpec /\ SyncSpec /\ InvSpec /\ ApprovalSpec
  BY PartsStep, PTL DEF WorkspaceSpec, WorkspaceInit, FeedSpec, SyncSpec, InvSpec, ApprovalSpec
<1>2. FeedTypeOK /\ SyncTypeOK /\ InvTypeOK /\ ApprovalTypeOK => TypeOK
  BY DEF TypeOK
<1> QED BY <1>1, <1>2, FeedTyped, SyncTypes, InvTypes, ApprovalTypes, PTL
=============================================================================
