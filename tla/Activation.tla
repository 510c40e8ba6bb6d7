----------------------------- MODULE Activation -----------------------------
(***************************************************************************)
(* From a captured payment to a paid plan: the durable webhook inbox, the   *)
(* scanner that beats every 30 seconds, and the one transaction that grants *)
(* a first purchase.  Translated from billing/webhook_inbox.py,             *)
(* billing/activation.py, tasks/payment_tasks.py and the parts of account   *)
(* deletion and administration that race with a grant.                      *)
(*                                                                          *)
(* A worker is one run of the reconcile task; nothing keeps two runs from   *)
(* overlapping.  A receipt passes through a read transaction, a fetch from  *)
(* the provider that holds no lock, and a second transaction that first     *)
(* takes the row of the user and looks at the account (one step), and then  *)
(* decides and commits (another).  The worker may die between any two.      *)
(***************************************************************************)
EXTENDS AccountFence, Integers, FiniteSets

CONSTANTS
  Payments, Events, Workers,
  Buyer,   \* the user whose reservation a payment's order belongs to; None
           \* when no local reservation has that order
  Of,      \* the payment a receipt (payment.captured or order.paid) announces
  Batch,   \* receipts a scan takes (5)
  Rest,    \* scans that pass before a retried receipt is due again
  None

ASSUME ActivationAssumption ==
  /\ Buyer \in [Payments -> Users \cup {None}] /\ None \notin Users \cup Payments
  /\ None \notin Events
  /\ Of \in [Events -> Payments]
  /\ IsFiniteSet(Events) /\ Batch \in Nat /\ Rest \in Nat

VARIABLES
  payment,   \* the provider's view of each payment
  inbox,     \* payment_webhook_events.state
  received,  \* payment_webhook_events.received_at, as an order of arrival
  rest,      \* scans left until next_attempt_at
  verified,  \* payments recorded on their reservation (and founder claim)
  grants,    \* payment_activations
  plan,      \* subscriptions: the payment a user's paid plan comes from
  worker     \* the receipt each run is at

vars == <<payment, inbox, received, rest, verified, grants, plan,
          account, worker>>

NoWork == [pc |-> "idle", todo |-> {}, receipt |-> None, seen |-> "none"]

TypeOK ==
  /\ payment \in [Payments -> {"none", "captured", "refunded"}]
  /\ inbox \in [Events -> {"absent", "pending", "processed", "quarantined"}]
  /\ received \in [Events -> Nat]
  /\ rest \in [Events -> 0..Rest]
  /\ verified \subseteq Payments /\ grants \subseteq Payments
  /\ plan \in [Users -> Payments \cup {None}]
  /\ account \in [Users -> Account]
  /\ worker \in [Workers ->
       [pc : {"idle", "read", "fetch", "apply", "locked", "retry", "reject"},
        todo : SUBSET Events, receipt : Events \cup {None},
        seen : {"none", "captured", "refunded"}]]

Init ==
  /\ payment = [p \in Payments |-> "none"]
  /\ inbox = [e \in Events |-> "absent"]
  /\ received = [e \in Events |-> 0]
  /\ rest = [e \in Events |-> 0]
  /\ verified = {} /\ grants = {}
  /\ plan = [u \in Users |-> None]
  /\ FenceInit
  /\ worker = [w \in Workers |-> NoWork]
-----------------------------------------------------------------------------
(* The provider.                                                            *)
Capture(p) ==
  /\ payment[p] = "none"
  /\ payment' = [payment EXCEPT ![p] = "captured"]
  /\ UNCHANGED <<inbox, received, rest, verified, grants, plan, account, worker>>

Refund(p) ==
  /\ payment[p] = "captured"
  /\ payment' = [payment EXCEPT ![p] = "refunded"]
  /\ UNCHANGED <<inbox, received, rest, verified, grants, plan, account, worker>>

(* Fault: a delivery that finds its receipt stored writes it anew.          *)
DeliverUpsert(e) ==
  /\ payment[Of[e]] # "none"
  /\ inbox' = [inbox EXCEPT ![e] = "pending"]
  /\ received' = [received EXCEPT ![e] =
                    Cardinality({f \in Events : inbox[f] # "absent"}) + 1]
  /\ UNCHANGED <<payment, rest, verified, grants, plan, account, worker>>

(* POST /webhooks/razorpay, persist_webhook: insert unless the same body is *)
(* stored, commit, then answer.  An answer may be lost and the event        *)
(* delivered again, any number of times.                                    *)
Deliver(e) ==
  /\ payment[Of[e]] # "none"
  /\ IF inbox[e] = "absent"
     THEN /\ inbox' = [inbox EXCEPT ![e] = "pending"]
          /\ received' = [received EXCEPT ![e] =
                            Cardinality({f \in Events : inbox[f] # "absent"}) + 1]
     ELSE UNCHANGED <<inbox, received>>
  /\ UNCHANGED <<payment, rest, verified, grants, plan, account, worker>>
-----------------------------------------------------------------------------
(* The worker.                                                              *)
At(w, e, pc) == worker[w].pc = pc /\ worker[w].receipt = e

Goto(w, pc) == worker' = [worker EXCEPT ![w].pc = pc]

(* The rest of the batch once a receipt is done with, in order of arrival.  *)
Proceed(w) ==
  LET left == worker[w].todo IN
  IF left = {} THEN worker' = [worker EXCEPT ![w] = NoWork]
  ELSE \E e \in left :
         /\ \A f \in left : received[e] <= received[f]
         /\ worker' = [worker EXCEPT ![w] = [pc |-> "read", todo |-> left \ {e},
                                             receipt |-> e, seen |-> "none"]]

(* Fault: the scan takes the oldest pending receipts, resting or not.       *)
PendingAtAll == {e \in Events : inbox[e] = "pending"}

Due == {e \in Events : inbox[e] = "pending" /\ rest[e] = 0}

(* One beat of 30 seconds nearer to next_attempt_at.                        *)
Rested(e) == IF rest[e] > 0 THEN rest[e] - 1 ELSE 0

Oldest(S) == {e \in S : Cardinality({f \in S : received[f] < received[e]}) < Batch}

(* scan_receipts: select the oldest receipts that are due.                  *)
Scan(w) ==
  /\ worker[w].pc = "idle"
  /\ IF Due = {} THEN UNCHANGED worker
     ELSE \E e \in Oldest(Due) :
            /\ \A f \in Due : received[e] <= received[f]
            /\ worker' = [worker EXCEPT
                 ![w] = [pc |-> "read", todo |-> Oldest(Due) \ {e},
                         receipt |-> e, seen |-> "none"]]
  /\ rest' = [e \in Events |-> Rested(e)]
  /\ UNCHANGED <<payment, inbox, received, verified, grants, plan, account>>

(* process_receipt, first transaction: the receipt may have been settled or *)
(* put to rest since the scan; without a reservation it must be retried.    *)
ReadReceipt(w, e) ==
  /\ At(w, e, "read")
  /\ IF inbox[e] # "pending" \/ rest[e] > 0 THEN Proceed(w)
     ELSE IF Buyer[Of[e]] = None THEN Goto(w, "retry")
     ELSE Goto(w, "fetch")
  /\ UNCHANGED <<payment, inbox, received, rest, verified, grants, plan, account>>

(* fetch_capture, outside any transaction.                                  *)
FetchCapture(w, e) ==
  /\ At(w, e, "fetch")
  /\ worker' = [worker EXCEPT ![w].pc = "apply", ![w].seen = payment[Of[e]]]
  /\ UNCHANGED <<payment, inbox, received, rest, verified, grants, plan, account>>

(* Fault: an unreachable provider settles the receipt for good.             *)
FetchRejects(w, e) ==
  /\ At(w, e, "fetch")
  /\ Goto(w, "reject")
  /\ UNCHANGED <<payment, inbox, received, rest, verified, grants, plan, account>>

(* The provider is unreachable or slower than 55 seconds.                   *)
FetchFails(w, e) ==
  /\ At(w, e, "fetch")
  /\ Goto(w, "retry")
  /\ UNCHANGED <<payment, inbox, received, rest, verified, grants, plan, account>>

(* Whom the second transaction grants to: enabled, no deletion under way.   *)
Entitled(u) == account[u].enabled /\ account[u].deletion = "none"

(* Fault: the user is read without FOR UPDATE, so nobody waits for the row. *)
Unfenced(u) == TRUE

(* No transaction keeps the row of the user locked.                         *)
UserFree(u) ==
  \A w \in Workers : worker[w].pc = "locked" => Buyer[Of[worker[w].receipt]] # u

(* Fault: off by one, a first grant does not stop a second.                 *)
PriorPair(u) == Cardinality({p \in grants : Buyer[p] = u}) > 1

(* A paid subscription or an earlier grant: a lifecycle for an operator.    *)
Prior(u) == plan[u] # None \/ \E p \in grants : Buyer[p] = u

(* Fault: a payment is taken for a replay because its user has a grant.     *)
AnyGrantOf(p) == \E q \in grants : Buyer[q] = Buyer[p]

(* payment_activations already holds this payment.                          *)
Granted(p) == p \in grants

(* process_receipt, second transaction: the user's row is locked for update *)
(* and the account is looked at; whoever changes the account has to wait.   *)
LockUser(w, e) ==
  LET u == Buyer[Of[e]] IN
  /\ At(w, e, "apply") /\ UserFree(u)
  /\ Goto(w, IF Entitled(u) THEN "locked" ELSE "reject")
  /\ UNCHANGED <<payment, inbox, received, rest, verified, grants, plan, account>>

(* The rest of that transaction: reservation, receipt and subscription rows *)
(* are locked and everything else decided before is decided again; the      *)
(* account is not looked at a second time.  A rejection rolls it back.      *)
Apply(w, e) ==
  LET p == Of[e]
      u == Buyer[p]
  IN
  /\ At(w, e, "locked")
  /\ \/ /\ inbox[e] # "pending"
        /\ Proceed(w)
        /\ UNCHANGED <<inbox, verified, grants, plan>>
     \/ /\ inbox[e] = "pending"
        /\ worker[w].seen # "captured" \/ (~Granted(p) /\ Prior(u))
        /\ Goto(w, "reject")
        /\ UNCHANGED <<inbox, verified, grants, plan>>
     \/ /\ inbox[e] = "pending"
        /\ worker[w].seen = "captured" /\ (Granted(p) \/ ~Prior(u))
        /\ inbox' = [inbox EXCEPT ![e] = "processed"]
        /\ IF Granted(p) THEN UNCHANGED <<verified, grants, plan>>
           ELSE /\ verified' = verified \cup {p}
                /\ grants' = grants \cup {p}
                /\ plan' = [plan EXCEPT ![u] = p]
        /\ Proceed(w)
  /\ UNCHANGED <<payment, received, rest, account>>

(* Fault: the word that answers a retry is stored as the receipt's state.   *)
DisposeByWord(w, e) ==
  /\ At(w, e, "retry") \/ At(w, e, "reject")
  /\ inbox' = [inbox EXCEPT ![e] = IF @ # "pending" THEN @
                                   ELSE IF worker[w].pc = "retry" THEN "retry"
                                   ELSE "quarantined"]
  /\ rest' = [rest EXCEPT ![e] = IF worker[w].pc = "retry" THEN Rest ELSE @]
  /\ Proceed(w)
  /\ UNCHANGED <<payment, received, verified, grants, plan, account>>

(* Fault: the disposition is recorded whatever became of the receipt.       *)
DisposeBlindly(w, e) ==
  /\ At(w, e, "retry") \/ At(w, e, "reject")
  /\ inbox' = [inbox EXCEPT ![e] = IF worker[w].pc = "retry" THEN "pending"
                                   ELSE "quarantined"]
  /\ rest' = [rest EXCEPT ![e] = IF worker[w].pc = "retry" THEN Rest ELSE 0]
  /\ Proceed(w)
  /\ UNCHANGED <<payment, received, verified, grants, plan, account>>

(* disposition: back off or quarantine a receipt, unless it was settled.    *)
Dispose(w, e) ==
  /\ At(w, e, "retry") \/ At(w, e, "reject")
  /\ IF inbox[e] # "pending" THEN UNCHANGED <<inbox, rest>>
     ELSE IF worker[w].pc = "retry"
          THEN rest' = [rest EXCEPT ![e] = Rest] /\ UNCHANGED inbox
          ELSE /\ inbox' = [inbox EXCEPT ![e] = "quarantined"]
               /\ rest' = [rest EXCEPT ![e] = 0]
  /\ Proceed(w)
  /\ UNCHANGED <<payment, received, verified, grants, plan, account>>

(* A transaction fails (database_retry): nothing is recorded, not even a    *)
(* back-off, and the scan goes on to its next receipt.                      *)
TransactionFails(w) ==
  /\ worker[w].pc \in {"read", "apply", "locked", "retry", "reject"}
  /\ Proceed(w)
  /\ UNCHANGED <<payment, inbox, received, rest, verified, grants, plan, account>>

(* The worker process is lost; the task is redelivered as a new scan.       *)
CrashWorker(w) ==
  /\ worker[w].pc # "idle"
  /\ worker' = [worker EXCEPT ![w] = NoWork]
  /\ UNCHANGED <<payment, inbox, received, rest, verified, grants, plan, account>>
-----------------------------------------------------------------------------
(* What else changes the rows a grant depends on.                           *)

(* POST /checkout/verify-payment records the purchase and grants nothing.   *)
VerifyPayment(p) ==
  /\ payment[p] = "captured" /\ Buyer[p] # None /\ account[Buyer[p]].enabled
  /\ verified' = verified \cup {p}
  /\ UNCHANGED <<payment, inbox, received, rest, grants, plan, account, worker>>

(* The account is switched, or its deletion requested or withdrawn, between *)
(* any two steps of a worker.  Switching writes the user's row and a request *)
(* locks it, so both wait for it; a withdrawal locks the request alone.     *)
ChangeAccount(u) ==
  /\ \/ UserFree(u) /\ (Request(u) \/ \E b \in BOOLEAN : Switch(u, b))
     \/ Withdraw(u)
  /\ UNCHANGED <<payment, inbox, received, rest, verified, grants, plan, worker>>

(* purge_primary, under a lock of every table, which waits for every row    *)
(* that is locked: the subscription goes, the evidence of the payment stays. *)
PurgeAccount(u) ==
  /\ \A v \in Users : UserFree(v)
  /\ Purge(u)
  /\ plan' = [plan EXCEPT ![u] = None]
  /\ UNCHANGED <<payment, inbox, received, rest, verified, grants, worker>>

Provider ==
  \/ \E p \in Payments : Capture(p) \/ Refund(p)
  \/ \E e \in Events : Deliver(e)

Work(w) ==
  \/ Scan(w)
  \/ \E e \in Events : ReadReceipt(w, e) \/ FetchCapture(w, e) \/ FetchFails(w, e)
                       \/ LockUser(w, e) \/ Apply(w, e) \/ Dispose(w, e)
  \/ TransactionFails(w) \/ CrashWorker(w)

People ==
  \/ \E p \in Payments : VerifyPayment(p)
  \/ \E u \in Users : ChangeAccount(u) \/ PurgeAccount(u)

Next == Provider \/ People \/ \E w \in Workers : Work(w)

Spec == Init /\ [][Next]_vars

(* Razorpay redelivers until it is answered; beat starts scans for ever; a  *)
(* step that is possible again and again (the provider up, the database     *)
(* reachable) succeeds once.                                                *)
Fairness ==
  /\ \A e \in Events : WF_vars(Deliver(e))
  /\ \A w \in Workers : WF_vars(Scan(w))
  /\ \A w \in Workers, e \in Events :
       SF_vars(ReadReceipt(w, e)) /\ SF_vars(FetchCapture(w, e))
         /\ SF_vars(LockUser(w, e)) /\ SF_vars(Apply(w, e))
         /\ \A verdict \in {"retry", "reject"} :
              SF_vars(At(w, e, verdict) /\ Dispose(w, e))

FairSpec == Spec /\ Fairness
-----------------------------------------------------------------------------
(* A user has at most one first-purchase grant, and the plan in force is    *)
(* the one it paid for, however many payments, receipts and overlapping     *)
(* scans there are.                                                         *)
OneGrant ==
  /\ \A p, q \in grants : Buyer[p] = Buyer[q] => p = q
  /\ \A u \in Users : plan[u] # None => plan[u] \in grants /\ Buyer[plan[u]] = u

(* A receipt counts as processed only if its own payment was granted and    *)
(* recorded on the reservation: no charge is dropped as already handled.    *)
ProcessedGranted ==
  \A e \in Events : inbox[e] = "processed" => Of[e] \in grants \cap verified

(* A settled receipt stays settled, though a slower worker that read it     *)
(* while it was pending may dispose of it after.                            *)
TerminalReceipts ==
  [][\A e \in Events : inbox[e] \in {"processed", "quarantined"}
                         => inbox'[e] = inbox[e]]_vars

(* No plan is given to a user who is disabled at that moment, or whose      *)
(* account is deleted or about to be, though the account is looked at in    *)
(* one statement and the plan committed in a later one, with administrators *)
(* and deletions in between.                                                *)
GrantsOnlyEntitled ==
  [][\A u \in Users : plan'[u] \notin {plan[u], None} =>
       account[u].enabled /\ account[u].deletion = "none"]_vars

(* Every receipt for a local order is settled in the end, though foreign    *)
(* receipts older than it are retried for ever.                             *)
ReceiptsSettle ==
  \A e \in Events :
    payment[Of[e]] # "none" /\ Buyer[Of[e]] # None
      ~> inbox[e] \in {"processed", "quarantined"}

(* A captured payment buys its plan: an entitled user whose first purchase  *)
(* still has an undecided receipt gets it, unless the payment is refunded,  *)
(* the account closed or another purchase granted first.                    *)
CaptureGranted ==
  \A e \in Events :
    LET p == Of[e]
        u == Buyer[p]
        undecided == inbox[e] \in {"absent", "pending"}
                       /\ ~\E w \in Workers : At(w, e, "reject")
    IN u # None =>
         (undecided /\ payment[p] = "captured" /\ Entitled(u) /\ ~Prior(u)
            ~> payment[p] = "refunded" \/ ~Entitled(u) \/ Prior(u))
=============================================================================
