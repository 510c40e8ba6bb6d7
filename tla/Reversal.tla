------------------------------ MODULE Reversal ------------------------------
(***************************************************************************)
(* Stopping a mandate and refunding payments, together with the renewals    *)
(* they interfere with.  Translated from billing/cancellation.py and        *)
(* billing/refunds.py; everything of Renewal goes on beside them.           *)
(*                                                                          *)
(* Either decision is committed before the single request that carries it   *)
(* out leaves; afterwards only the provider's own records settle it.        *)
(***************************************************************************)
EXTENDS Renewal

CONSTANTS
  RefundIds,  \* the provider's refunds
  Price       \* what every payment was, in the smallest amounts refunded

ASSUME ReversalAssumption ==
  Price \in Nat \ {0} /\ None \notin RefundIds /\ RefundIds \cap Cycles = {}

VARIABLES
  intent,       \* payment_refunds, at most one per payment
  refund,       \* the provider's refunds
  refundPost,   \* payments whose refund request is on its way
  observed,     \* refund_observations: the status last seen of a refund
  refundInbox   \* receipts of refund events

refundVars == <<intent, refund, refundPost, observed, refundInbox>>
allVars    == <<vars, refundVars>>

Grant    == <<None, 0>>
Payments == {Grant} \cup Cycles
RefundReceipts == RefundIds \X {"pending", "processed", "failed"}

NoIntent == [state |-> "none", amount |-> 0, bound |-> None]
NoRefund == [status |-> "none", of |-> Grant, amount |-> 0, ours |-> FALSE]

Intents ==
  [state : {"none", "sending", "uncertain", "pending", "processed", "failed", "external"},
   amount : 0..Price, bound : RefundIds \cup {None}]
Refunds == [status : {"none", "pending", "processed", "failed"},
            of : Payments, amount : 0..Price, ours : BOOLEAN]

RefundTypeOK ==
  /\ TypeOK
  /\ intent \in [Payments -> Intents]
  /\ refund \in [RefundIds -> Refunds]
  /\ refundPost \subseteq Payments
  /\ observed \in [RefundIds -> {"none", "pending", "processed", "failed"}]
  /\ refundInbox \in [RefundReceipts -> {"none", "pending", "processed", "quarantined"}]

RefundInit ==
  /\ Init
  /\ intent = [p \in Payments |-> NoIntent]
  /\ refund = [r \in RefundIds |-> NoRefund]
  /\ refundPost = {}
  /\ observed = [r \in RefundIds |-> "none"]
  /\ refundInbox = [r \in RefundReceipts |-> "none"]
-----------------------------------------------------------------------------
(* Cancellation.  source(reconcile): the mandate the plan is bound to.      *)
Cancellable(m) ==
  /\ account # "inactive" /\ sub.bound = m
  /\ mandate[m].state = "ready" /\ sub.end = PaidEnd

MayBeStopped == {"created", "active", "pending", "halted", "cancelled"}
Status(m) == [NotFetched EXCEPT !.status = provider[m].status]

CancelRequested(h, m) ==
  /\ handler[h] = Idle /\ Cancellable(m)
  /\ claim[m] = "none" => account # "deleting"
  /\ provider[m].status \in MayBeStopped
  /\ Becomes(h, [pc |-> "cancel", of |-> <<m, 0>>, ev |-> Status(m)])
  /\ UNCHANGED <<now, account, sub, mandate, cycles, recovery, claim, provider, post, inbox, refundVars>>

(* confirm: access stays as paid for, any grace is over.                    *)
Confirm(m) ==
  /\ claim' = [claim EXCEPT ![m] = "confirmed"]
  /\ sub' = [sub EXCEPT !.status = "canceled", !.cap = TRUE, !.due = None, !.grace = None]

(* Fault: an outcome in doubt is sent for again.                            *)
SendsStopAgain(m) == claim[m] # "confirmed"

MaySendStop(m) == claim[m] = "none"

CancelDecided(h, m) ==
  LET stopped == handler[h].ev.status = "cancelled"
      send == MaySendStop(m) /\ ~stopped
  IN
  /\ handler[h].pc = "cancel" /\ handler[h].of = <<m, 0>>
  /\ IF ~Cancellable(m) \/ (send /\ account = "deleting")
       THEN Ends(h) /\ UNCHANGED <<claim, sub, post>>
     ELSE IF stopped
       THEN Confirm(m) /\ Ends(h) /\ UNCHANGED post
     ELSE IF send
       THEN /\ claim' = [claim EXCEPT ![m] = "sending"]
            /\ post' = post \cup {[kind |-> "cancel", of |-> m]}
            /\ Becomes(h, [Idle EXCEPT !.pc = "stop", !.of = <<m, 0>>])
            /\ UNCHANGED sub
       ELSE Ends(h) /\ UNCHANGED <<claim, sub, post>>
  /\ UNCHANGED <<now, account, mandate, cycles, recovery, provider, inbox, refundVars>>

(* What the provider says after the request, or nothing if either call      *)
(* failed.                                                                  *)
CancelReplied(h, m, ok) ==
  /\ handler[h].pc = "stop" /\ handler[h].of = <<m, 0>>
  /\ Becomes(h, [pc |-> "stopped", of |-> <<m, 0>>, ev |-> IF ok THEN Status(m) ELSE NotFetched])
  /\ UNCHANGED <<now, account, sub, mandate, cycles, recovery, claim, provider, post, inbox, refundVars>>

CancelRecorded(h, m) ==
  /\ handler[h].pc = "stopped" /\ handler[h].of = <<m, 0>>
  /\ Ends(h)
  /\ IF ~Cancellable(m) THEN UNCHANGED <<claim, sub>>
     ELSE IF handler[h].ev.status = "cancelled" THEN Confirm(m)
     ELSE /\ claim' = IF claim[m] = "confirmed" THEN claim ELSE [claim EXCEPT ![m] = "uncertain"]
          /\ UNCHANGED sub
  /\ UNCHANGED <<now, account, mandate, cycles, recovery, provider, post, inbox, refundVars>>

(* The provider's own receipt confirms, and never sends anything.           *)
StopReceipt(m) == [type |-> "cancelled", of |-> <<m, 0>>]

FetchStopReceipt(h, m) ==
  /\ handler[h] = Idle /\ inbox[StopReceipt(m)] = "pending" /\ mandate[m].bound
  /\ IF Cancellable(m)
       THEN /\ provider[m].status = "cancelled"
            /\ Becomes(h, [pc |-> "stop receipt", of |-> <<m, 0>>, ev |-> Status(m)])
            /\ UNCHANGED inbox
       ELSE Settle(StopReceipt(m), "quarantined") /\ UNCHANGED handler
  /\ UNCHANGED <<now, account, sub, mandate, cycles, recovery, claim, provider, post, refundVars>>

ApplyStopReceipt(h, m) ==
  /\ handler[h].pc = "stop receipt" /\ handler[h].of = <<m, 0>>
  /\ Ends(h)
  /\ IF inbox[StopReceipt(m)] = "pending" /\ Cancellable(m)
       THEN Confirm(m) /\ Settle(StopReceipt(m), "processed")
       ELSE Settle(StopReceipt(m), "quarantined") /\ UNCHANGED <<claim, sub>>
  /\ UNCHANGED <<now, account, mandate, cycles, recovery, provider, post, refundVars>>

(* At the provider: the request is carried out, or the customer stops the   *)
(* subscription there.                                                      *)
ProviderStops(m) ==
  /\ provider[m].status \in Paying
  /\ provider' = [provider EXCEPT ![m].status = "cancelled"]
  /\ post' = post \ {[kind |-> "cancel", of |-> m]}
  /\ Report("cancelled", <<m, 0>>)
  /\ UNCHANGED <<now, account, sub, mandate, cycles, recovery, claim, handler, refundVars>>
-----------------------------------------------------------------------------
(* Refunds.  An inventory is the status of every refund of a payment.       *)
RefundsOf(p) == {r \in RefundIds : refund[r].status # "none" /\ refund[r].of = p}
Inventory(p) == [r \in RefundsOf(p) |-> refund[r].status]
Amount(R)    == Cardinality({x \in R \X (1..Price) : x[2] <= refund[x[1]].amount})
OnFile(p)    == p = Grant \/ p \in cycles
TermEnd(p)   == IF p = Grant THEN CycleLen ELSE PeriodEnd(p)
Known(p)     == {r \in RefundsOf(p) : observed[r] # "none"}

(* Fault: whatever differs from what is on record is refused.               *)
AnyChange(ev) == \E r \in DOMAIN ev : observed[r] # "none" /\ observed[r] # ev[r]

(* observe: what was seen before may neither vanish nor go back.            *)
Regresses(ev) == \E r \in DOMAIN ev : observed[r] = "processed" /\ ev[r] # "processed"

Incomplete(p, ev) == ~(Known(p) \subseteq DOMAIN ev)

Seen(ev)      == [r \in RefundIds |-> IF r \in DOMAIN ev THEN ev[r] ELSE observed[r]]
Returned(p, ev) == Amount({r \in RefundsOf(p) : Seen(ev)[r] = "processed"})
InFull(p, ev) == Returned(p, ev) = Price

(* The intent follows the refund that carries its receipt; money returned   *)
(* in full by others closes an intent that nothing is known about.          *)
Bound(p, ev) ==
  LET mine == {r \in DOMAIN ev : refund[r].ours} IN
  IF intent[p].state = "none" THEN NoIntent
  ELSE IF mine # {} THEN [intent[p] EXCEPT !.state = ev[CHOOSE r \in mine : TRUE],
                                           !.bound = CHOOSE r \in mine : TRUE]
  ELSE IF InFull(p, ev) /\ intent[p].state \in {"sending", "uncertain"} /\ intent[p].bound = None
    THEN [intent[p] EXCEPT !.state = "external"]
  ELSE intent[p]

(* Only the term the plan stands on is revoked by its refund.               *)
Revokes(p, ev) == InFull(p, ev) /\ sub.end = TermEnd(p)

Observable(p, ev) == ~Regresses(ev) /\ ~Incomplete(p, ev) /\ Returned(p, ev) <= Price

ObserveSub(p, ev) ==
  IF Revokes(p, ev) THEN [sub EXCEPT !.refunded = TRUE, !.due = None, !.grace = None] ELSE sub

Observe(p, ev, next) ==
  /\ observed' = Seen(ev)
  /\ intent' = [intent EXCEPT ![p] = next]
  /\ sub' = ObserveSub(p, ev)

RefundRead(h, p) ==
  /\ handler[h] = Idle /\ OnFile(p)
  /\ Becomes(h, [pc |-> "refund", of |-> p, ev |-> Inventory(p)])
  /\ UNCHANGED <<now, account, sub, mandate, cycles, recovery, claim, provider, post, inbox, refundVars>>

(* Collection has to be stopped first.                                      *)
CollectionStopped ==
  \A m \in Mandates : mandate[m].state \in {"creating", "uncertain", "ready"} => Stopped(m)

MayDispatch(p, ev) ==
  /\ account = "open" /\ intent[p].state = "none" /\ DOMAIN ev = {} /\ CollectionStopped

RefundDispatched(h, p, amount) ==
  LET ev == handler[h].ev IN
  /\ handler[h].pc = "refund" /\ handler[h].of = p
  /\ IF ~Observable(p, ev) THEN Ends(h) /\ UNCHANGED <<refundVars, sub>>
     ELSE IF MayDispatch(p, ev)
       THEN /\ intent' = [intent EXCEPT ![p] = [state |-> "sending", amount |-> amount, bound |-> None]]
            /\ refundPost' = refundPost \cup {p}
            /\ Becomes(h, [Idle EXCEPT !.pc = "refunding", !.of = p])
            /\ UNCHANGED <<refund, observed, refundInbox, sub>>
     ELSE IF intent[p].state # "none" /\ intent[p].amount = amount
       THEN Observe(p, ev, Bound(p, ev)) /\ Ends(h) /\ UNCHANGED <<refund, refundPost, refundInbox>>
       ELSE Ends(h) /\ UNCHANGED <<refundVars, sub>>
  /\ UNCHANGED <<now, account, mandate, cycles, recovery, claim, provider, post, inbox>>

RefundReplied(h, p) ==
  /\ handler[h].pc = "refunding" /\ handler[h].of = p
  /\ \/ Becomes(h, [pc |-> "refunded", of |-> p, ev |-> Inventory(p)])
     \/ Becomes(h, [pc |-> "refund unknown", of |-> p, ev |-> NotFetched])
  /\ UNCHANGED <<now, account, sub, mandate, cycles, recovery, claim, provider, post, inbox, refundVars>>

Doubtful(i) == IF i.state = "sending" THEN [i EXCEPT !.state = "uncertain"] ELSE i

RefundRecorded(h, p) ==
  /\ handler[h].pc \in {"refunded", "refund unknown"} /\ handler[h].of = p
  /\ Ends(h)
  /\ IF handler[h].pc = "refund unknown"
       THEN /\ intent' = [intent EXCEPT ![p] = Doubtful(intent[p])]
            /\ UNCHANGED <<observed, sub>>
     ELSE IF Observable(p, handler[h].ev)
       THEN Observe(p, handler[h].ev, Doubtful(Bound(p, handler[h].ev)))
       ELSE UNCHANGED <<intent, observed, sub>>
  /\ UNCHANGED <<now, account, mandate, cycles, recovery, claim, provider, post, inbox,
                 refund, refundPost, refundInbox>>

(* A receipt of a refund event only makes a worker look.                    *)
FetchRefundReceipt(h, rc) ==
  LET p == refund[rc[1]].of IN
  /\ handler[h] = Idle /\ refundInbox[rc] = "pending" /\ OnFile(p)
  /\ Becomes(h, [pc |-> rc[2], of |-> rc[1], ev |-> Inventory(p)])
  /\ UNCHANGED <<now, account, sub, mandate, cycles, recovery, claim, provider, post, inbox, refundVars>>

SettleRefund(rc, s) == refundInbox' = [refundInbox EXCEPT ![rc] = s]

ApplyRefundReceipt(h, rc) ==
  LET p == refund[rc[1]].of
      ev == handler[h].ev
  IN
  /\ handler[h].of = rc[1] /\ handler[h].pc = rc[2]
  /\ Ends(h)
  /\ IF refundInbox[rc] # "pending" THEN UNCHANGED <<observed, intent, sub, refundInbox>>
     ELSE IF Regresses(ev) THEN SettleRefund(rc, "quarantined") /\ UNCHANGED <<observed, intent, sub>>
     ELSE IF ~Observable(p, ev) THEN UNCHANGED <<observed, intent, sub, refundInbox>>
     ELSE Observe(p, ev, Bound(p, ev)) /\ SettleRefund(rc, "processed")
  /\ UNCHANGED <<now, account, mandate, cycles, recovery, claim, provider, post, inbox, refund, refundPost>>
-----------------------------------------------------------------------------
(* The provider never returns more than it took.                            *)
Captured(p) == IF p = Grant THEN TRUE ELSE p[2] <= provider[p[1]].paid
Returnable(p) == Price - Amount({r \in RefundsOf(p) : refund[r].status # "failed"})

IssueRefund(r, p, amount, ours) ==
  /\ refund[r] = NoRefund /\ Captured(p) /\ amount \in 1..Returnable(p)
  /\ refund' = [refund EXCEPT ![r] = [status |-> "pending", of |-> p, amount |-> amount, ours |-> ours]]
  /\ refundInbox' = [refundInbox EXCEPT ![<<r, "pending">>] = "pending"]

ProviderRefunds(r, p) ==
  /\ \/ \E amount \in 1..Price : IssueRefund(r, p, amount, FALSE) /\ UNCHANGED refundPost
     \/ p \in refundPost /\ IssueRefund(r, p, intent[p].amount, TRUE) /\ refundPost' = refundPost \ {p}
  /\ UNCHANGED <<vars, intent, observed>>

RefundSettles(r, s) ==
  /\ refund[r].status = "pending"
  /\ refund' = [refund EXCEPT ![r].status = s]
  /\ refundInbox' = [refundInbox EXCEPT ![<<r, s>>] = "pending"]
  /\ UNCHANGED <<vars, intent, refundPost, observed>>

Refunded(c) == RefundsOf(c) # {}

ReversalWork(h) ==
  \/ \E c \in Cycles : FetchCharge(h, c, Refunded(c)) /\ UNCHANGED refundVars
  \/ \E m \in Mandates :
       \/ CancelRequested(h, m) \/ CancelDecided(h, m) \/ CancelRecorded(h, m)
       \/ \E ok \in BOOLEAN : CancelReplied(h, m, ok)
       \/ FetchStopReceipt(h, m) \/ ApplyStopReceipt(h, m)
  \/ \E p \in Payments :
       \/ RefundRead(h, p) \/ RefundReplied(h, p) \/ RefundRecorded(h, p)
       \/ \E amount \in 1..Price : RefundDispatched(h, p, amount)
  \/ \E rc \in RefundReceipts : FetchRefundReceipt(h, rc) \/ ApplyRefundReceipt(h, rc)

ReversalNext ==
  \/ Environment /\ UNCHANGED refundVars
  \/ \E h \in Handlers : Work(h) /\ UNCHANGED refundVars
  \/ \E h \in Handlers : ReversalWork(h)
  \/ \E c \in Cycles : \E r \in Failures(c) : RejectFailure(r) /\ UNCHANGED refundVars
  \/ \E m \in Mandates : ProviderStops(m)
  \/ \E r \in RefundIds : \/ \E p \in Payments : ProviderRefunds(r, p)
                          \/ \E s \in {"processed", "failed"} : RefundSettles(r, s)

ReversalSpec == RefundInit /\ [][ReversalNext]_allVars
-----------------------------------------------------------------------------
(* Stopped means stopped: a confirmed cancellation was carried out by the   *)
(* provider, and no renewal, recovery or enrolment that was under way makes *)
(* the plan active again (cancellation.py:170).                             *)
StopIsFinal ==
  \A m \in Mandates : Stopped(m) =>
    provider[m].status = "cancelled" /\ sub.status = "canceled" /\ sub.cap

(* A payment is refunded by this system once: of the request on its way and *)
(* the refunds that carry our receipt there is never more than one.         *)
RefundOnce ==
  \A p \in Payments : p \in refundPost => \A r \in RefundsOf(p) : ~refund[r].ours

(* The plan is revoked exactly when the term it stands on was returned in   *)
(* full: an older term's refund, a partial one or one that is only pending  *)
(* revokes nothing, and a renewal or cancellation gives nothing back.       *)
ReturnedInFull(p) == Amount({r \in RefundsOf(p) : observed[r] = "processed"}) = Price
RevokesItsTerm ==
  sub.refunded <=> \E p \in Payments : OnFile(p) /\ TermEnd(p) = PaidEnd /\ ReturnedInFull(p)

(* Cancelling, late receipts and refunds of other terms take nothing from a *)
(* term that was paid for and not returned in full.                         *)
ServedUnlessReturned == ~sub.refunded => PaidServed

(* "external" closes an intent for good: the request it was written for     *)
(* never returned money (refunds.py:186).                                   *)
ExternalMeansUnused ==
  \A p \in Payments : intent[p].state = "external" => \A r \in RefundsOf(p) : ~refund[r].ours

(* A refund receipt may be set aside for a stale inventory, but never       *)
(* before what it reports is on record.                                     *)
SetAsideIsKnown ==
  \A rc \in RefundReceipts : refundInbox[rc] = "quarantined" => observed[rc[1]] \in {rc[2], "processed", "failed"}
-----------------------------------------------------------------------------
(* The plan as its books show it: the first grant and the cycles applied.   *)
termsPaid == {[from |-> 0, to |-> CycleLen]} \cup
             {[from |-> PeriodStart(c), to |-> PeriodEnd(c)] : c \in cycles}

Plan == INSTANCE PrepaidPlan
          WITH Length <- CycleLen, terms <- termsPaid, end <- sub.end,
               revoked <- sub.refunded, today <- now

(* Paid terms follow one another, every handled charge is one of them, and  *)
(* renewals, recoveries, cancellations and refunds together keep the        *)
(* promise of PrepaidPlan: no step moves a term or takes one back, and only *)
(* a new one restores a plan that was revoked (renewal_cycles.py:150).      *)
PaidTerms == [](TermsAdjacent /\ HandledMeansApplied) /\ Plan!Spec

(* The plan is to be had exactly in the terms paid for and kept, and in the *)
(* grace of an open debt.                                                   *)
AccessAsPaid == ServedUnlessReturned /\ EarnedOnly /\ RevokesItsTerm

(* A cancellation is sent once: while one is on its way none was carried    *)
(* out, and nothing is sent for a mandate whose claim is on record.         *)
CancelOnce ==
  [][\A m \in Mandates : claim[m] # "none" /\ [kind |-> "cancel", of |-> m] \notin post =>
       [kind |-> "cancel", of |-> m] \notin post']_allVars

(* Nothing that moves money or stops it is sent twice, and one agreement at *)
(* most may charge.                                                         *)
SentOnce == [](OneAgreement /\ EnrolledOnce /\ RefundOnce) /\ CancelOnce

(* Access is reduced for a debt, and for a debt that exists.                *)
DebtIsHonest == ReducedOnlyInDebt /\ DebtIsReal

(* What became of money returned is on record before anything is closed.    *)
RefundsOnRecord == ExternalMeansUnused /\ SetAsideIsKnown
=============================================================================
