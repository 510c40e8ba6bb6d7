------------------------------ MODULE Renewal ------------------------------
(***************************************************************************)
(* Finite renewal of one customer's paid plan: enrolment in a mandate that  *)
(* the provider charges every cycle, receipts of paid cycles, and recovery  *)
(* after a failed charge.  Translated from billing/renewal_mandates.py,     *)
(* renewal_cycles.py and payment_recovery.py.                               *)
(*                                                                          *)
(* Every request or receipt handler reads the provider outside any          *)
(* transaction, then locks the user's row and decides on that snapshot: the *)
(* two are separate steps and a handler may die between them.  The user's   *)
(* lock makes each decision one atomic step.  Time is counted in ticks of   *)
(* which a cycle takes CycleLen; the lead of fifteen minutes and the sixty  *)
(* seconds of an enrolment in progress are shorter than a tick.             *)
(***************************************************************************)
EXTENDS Integers, FiniteSets, FiniteSetsExt

CONSTANTS
  Mandates,    \* identities of renewal_mandates rows; bounds the enrolments
  TotalCount,  \* cycles of a mandate
  CycleLen,    \* ticks of a paid period
  Troubles,    \* what may befall the account: a pending deletion, being disabled
  Grace,       \* values billing_recovery_grace_hours takes, in ticks
  MaxGrace,    \* the 72 hours no grace may exceed
  Horizon,     \* the clock stops here
  Handlers,    \* concurrent requests and receipt workers
  None

ASSUME RenewalAssumption ==
  /\ TotalCount \in Nat \ {0} /\ CycleLen \in Nat \ {0} /\ Horizon \in Nat
  /\ MaxGrace \in 0..(CycleLen - 1) /\ Grace \subseteq 0..MaxGrace /\ Grace # {}
  /\ Troubles \subseteq {"deleting", "inactive"}
  /\ None \notin Mandates \cup Int

VARIABLES
  now,       \* the clock
  account,   \* users.is_active and account_deletions, as AccountFence has them
  sub,       \* the subscriptions row
  mandate,   \* renewal_mandates
  cycles,    \* renewal_cycles: the paid periods applied, as <<mandate, number>>
  recovery,  \* payment_recoveries
  claim,     \* payment_cancellations
  provider,  \* the provider's subscriptions
  post,      \* requests to create or cancel one that are on their way
  inbox,     \* receipts of provider events
  handler

vars == <<now, account, sub, mandate, cycles, recovery, claim, provider, post, inbox, handler>>

Cycles == Mandates \X (1..TotalCount)
Receipts == [type : {"charged", "pending", "halted"}, of : Cycles] \cup
            [type : {"cancelled"}, of : Mandates \X {0}]
Posts == [kind : {"create", "cancel"}, of : Mandates]

NoMandate == [state |-> "none", active |-> FALSE, start |-> 0, bound |-> FALSE]
NoCase    == [open |-> FALSE, paidThrough |-> None, grace |-> None, resolved |-> FALSE]
NotFetched == [status |-> "none", paid |-> 0, refunded |-> FALSE]
Idle == [pc |-> "idle", of |-> None, ev |-> NotFetched]

ProviderStatuses ==
  {"none", "created", "active", "pending", "halted", "cancelled", "completed", "expired"}
Paying == {"created", "active", "pending", "halted"}

Subscriptions ==
  [status : {"active", "grace", "past_due", "canceled"}, start : 0..Horizon,
   end : 0..(Horizon + CycleLen), cap : BOOLEAN, refunded : BOOLEAN,
   due : 0..Horizon \cup {None}, grace : 0..(Horizon + CycleLen) \cup {None},
   bound : Mandates \cup {None}]
MandateRows ==
  [state : {"none", "unstarted", "creating", "uncertain", "ready", "completed", "expired"},
   active : BOOLEAN, start : 0..(Horizon + CycleLen), bound : BOOLEAN]
Cases == [open : BOOLEAN, paidThrough : 0..Horizon \cup {None},
          grace : 0..(Horizon + CycleLen) \cup {None}, resolved : BOOLEAN]

TypeOK ==
  /\ now \in 0..Horizon
  /\ account \in {"open"} \cup Troubles
  /\ sub \in Subscriptions
  /\ mandate \in [Mandates -> MandateRows]
  /\ cycles \subseteq Cycles
  /\ recovery \in [Cycles -> Cases]
  /\ claim \in [Mandates -> {"none", "sending", "uncertain", "confirmed"}]
  /\ provider \in [Mandates -> [status : ProviderStatuses, paid : 0..TotalCount]]
  /\ post \subseteq Posts
  /\ inbox \in [Receipts -> {"none", "pending", "processed", "quarantined"}]

(* The grant of the first purchase covers one cycle.                        *)
Init ==
  /\ now = 0 /\ account = "open"
  /\ sub = [status |-> "active", start |-> 0, end |-> CycleLen, cap |-> FALSE,
            refunded |-> FALSE, due |-> None, grace |-> None, bound |-> None]
  /\ mandate = [m \in Mandates |-> NoMandate]
  /\ cycles = {}
  /\ recovery = [c \in Cycles |-> NoCase]
  /\ claim = [m \in Mandates |-> "none"]
  /\ provider = [m \in Mandates |-> [status |-> "none", paid |-> 0]]
  /\ post = {}
  /\ inbox = [r \in Receipts |-> "none"]
  /\ handler = [h \in Handlers |-> Idle]
-----------------------------------------------------------------------------
Later(a, b) == IF a > b THEN a ELSE b

PeriodStart(c) == mandate[c[1]].start + (c[2] - 1) * CycleLen

(* Fault: the period of an invoice is read as two cycles.                   *)
TwoCycles(c) == PeriodStart(c) + 2 * CycleLen

PeriodEnd(c) == PeriodStart(c) + CycleLen

Applied(m)  == {c \in cycles : c[1] = m}
PaidEnd     == Max({CycleLen} \cup {PeriodEnd(c) : c \in cycles})
Expected(m) == Max({mandate[m].start} \cup {PeriodEnd(c) : c \in Applied(m)})

Unclaimed == \A m \in Mandates : claim[m] = "none"

(* source: what may be enrolled is a paid, uncancelled, unrefunded plan     *)
(* whose end is the end of its last paid term.                              *)
Renewable ==
  /\ account = "open" /\ Unclaimed
  /\ sub.status = "active" /\ ~sub.refunded /\ ~sub.cap
  /\ sub.end = PaidEnd

(* effective_plan: what the row entitles to at this moment.                 *)
InGrace ==
  /\ sub.status = "grace" /\ ~sub.cap /\ sub.due = sub.end
  /\ sub.grace # None /\ sub.end < sub.grace /\ sub.grace <= sub.end + MaxGrace
  /\ now < sub.grace

Entitled ==
  /\ ~sub.refunded /\ now >= sub.start
  /\ now < sub.end \/ InGrace

Becomes(h, s) == handler' = [handler EXCEPT ![h] = s]
Ends(h)       == Becomes(h, Idle)

(* Any request or worker may die, or time out, wherever it is.              *)
Dies(h) ==
  /\ handler[h] # Idle
  /\ Ends(h)
  /\ UNCHANGED <<now, account, sub, mandate, cycles, recovery, claim, provider, post, inbox>>
-----------------------------------------------------------------------------
(* Enrolment: one row holds the customer's active place, one committed      *)
(* claim may send the request to create the provider's subscription.        *)

FirstCharge == Later(sub.end, now)

Fresh(m) == mandate[m].state = "none"

EnrolNew(h, m) ==
  /\ handler[h] = Idle /\ Renewable /\ Fresh(m)
  /\ \A x \in Mandates : ~mandate[x].active
  /\ sub.bound # None => mandate[sub.bound].state = "completed"
  /\ mandate' = [mandate EXCEPT ![m] =
       [state |-> "unstarted", active |-> TRUE, start |-> FirstCharge, bound |-> FALSE]]
  /\ Becomes(h, [Idle EXCEPT !.pc = "dispatch", !.of = <<m, 0>>])
  /\ UNCHANGED <<now, account, sub, cycles, recovery, claim, provider, post, inbox>>

Unsent(m) == mandate[m].state = "unstarted"

EnrolAgain(h, m) ==
  /\ handler[h] = Idle /\ Renewable /\ mandate[m].active
  /\ ~(mandate[m].state = "ready" /\ mandate[m].start > now)
  /\ LET step == IF Unsent(m) THEN "dispatch" ELSE "lookup"
     IN  Becomes(h, [Idle EXCEPT !.pc = step, !.of = <<m, 0>>])
  /\ UNCHANGED <<now, account, sub, mandate, cycles, recovery, claim, provider, post, inbox>>

(* The claim is committed before the request leaves.                        *)
ClaimDispatch(h, m) ==
  /\ handler[h].pc = "dispatch" /\ handler[h].of = <<m, 0>>
  /\ IF Renewable /\ Unsent(m)
       THEN /\ mandate' = [mandate EXCEPT ![m].state = "creating"]
            /\ post' = post \cup {[kind |-> "create", of |-> m]}
            /\ Becomes(h, [Idle EXCEPT !.pc = "lookup", !.of = <<m, 0>>])
       ELSE Ends(h) /\ UNCHANGED <<mandate, post>>
  /\ UNCHANGED <<now, account, sub, cycles, recovery, claim, provider, inbox>>

(* The reply to the request, the subscription that is bound, or the only    *)
(* one in the provider's list that names the mandate.                       *)
FetchEnrolment(h, m) ==
  /\ handler[h].pc = "lookup" /\ handler[h].of = <<m, 0>>
  /\ provider[m].status \in {"created", "active", "completed", "expired"}
  /\ Becomes(h, [pc |-> "attach", of |-> <<m, 0>>,
                 ev |-> [NotFetched EXCEPT !.status = provider[m].status, !.paid = provider[m].paid]])
  /\ UNCHANGED <<now, account, sub, mandate, cycles, recovery, claim, provider, post, inbox>>

(* No reply, no match, or a status that proves nothing.                     *)
EnrolmentUncertain(h, m) ==
  /\ handler[h].pc = "lookup" /\ handler[h].of = <<m, 0>>
  /\ mandate' = IF mandate[m].state \in {"creating", "uncertain"}
                  THEN [mandate EXCEPT ![m].state = "uncertain"] ELSE mandate
  /\ Ends(h)
  /\ UNCHANGED <<now, account, sub, cycles, recovery, claim, provider, post, inbox>>

ExpiredUnpaid(ev) == ev.status = "expired" /\ ev.paid = 0

Attach(h, m) ==
  /\ handler[h].pc = "attach" /\ handler[h].of = <<m, 0>>
  /\ Ends(h)
  /\ IF ~Renewable \/ ~mandate[m].active \/ (ExpiredUnpaid(handler[h].ev) /\ Applied(m) # {})
       THEN UNCHANGED <<mandate, sub>>
     ELSE IF ExpiredUnpaid(handler[h].ev)
       THEN /\ mandate' = [mandate EXCEPT ![m].state = "expired", ![m].active = FALSE]
            /\ sub' = IF sub.bound = m THEN [sub EXCEPT !.bound = None] ELSE sub
       ELSE /\ mandate' = [mandate EXCEPT ![m].state = "ready", ![m].bound = TRUE]
            /\ sub' = [sub EXCEPT !.bound = m]
  /\ UNCHANGED <<now, account, cycles, recovery, claim, provider, post, inbox>>
-----------------------------------------------------------------------------
(* A receipt of a charge.  First the row and the provider's subscription,   *)
(* plan, invoice and payment; refunded tells whether the payment is whole.  *)
Charged(c) == [type |-> "charged", of |-> c]
Row(m)     == mandate[m].bound /\ mandate[m].state \in {"ready", "completed"}

FetchCharge(h, c, refunded) ==
  /\ handler[h] = Idle /\ inbox[Charged(c)] = "pending" /\ Row(c[1])
  /\ Becomes(h, [pc |-> "charge", of |-> c,
                 ev |-> [status |-> provider[c[1]].status, paid |-> provider[c[1]].paid,
                         refunded |-> refunded]])
  /\ UNCHANGED <<now, account, sub, mandate, cycles, recovery, claim, provider, post, inbox>>

Stopped(m) == claim[m] = "confirmed"

(* The cancellation of this mandate is in doubt, or not known here yet.     *)
StopUnresolved(m, ev) ==
  \/ claim[m] \in {"sending", "uncertain"}
  \/ ev.status = "cancelled" /\ claim[m] = "none"

(* validate_invoice.                                                        *)
ProvenPaid(ev) == ev.status \in {"active", "completed", "cancelled"} /\ ~ev.refunded

LifecycleFits(m) ==
  /\ sub.bound = m
  /\ \/ sub.status \in {"active", "grace", "past_due"} /\ ~sub.cap
     \/ Stopped(m) /\ sub.status = "canceled" /\ sub.cap

(* An open case of this period must be about the term that just ended.      *)
CaseFits(c) ==
  recovery[c].open => recovery[c].paidThrough = sub.end /\ ~recovery[c].resolved

(* What becomes of the receipt: "retry" leaves it pending for a later beat. *)
ChargeOutcome(c, ev) ==
  LET m == c[1] IN
  IF account # "open" THEN "quarantined"
  ELSE IF ~Row(m) THEN "quarantined"
  ELSE IF StopUnresolved(m, ev) THEN "retry"
  ELSE IF ~ProvenPaid(ev) THEN "quarantined"
  ELSE IF c \in cycles THEN "processed"
  ELSE IF ~LifecycleFits(m) THEN "quarantined"
  ELSE IF PeriodStart(c) > Expected(m) THEN "retry"
  ELSE IF PeriodStart(c) # Expected(m) \/ Cardinality(Applied(m)) >= TotalCount
          \/ sub.end # PaidEnd THEN "quarantined"
  ELSE IF PeriodStart(c) > now THEN "retry"
  ELSE IF ~CaseFits(c) THEN "quarantined"
  ELSE "renewed"

(* Fault: the new term is one cycle more than the old, whatever was paid.   *)
OneMoreCycle(c) ==
  [sub EXCEPT !.status = IF Stopped(c[1]) THEN "canceled" ELSE "active",
              !.end = sub.end + CycleLen, !.refunded = FALSE, !.due = None, !.grace = None]

(* Fault: the new term is counted from when the receipt is processed.       *)
CycleFromNow(c) ==
  [sub EXCEPT !.status = IF Stopped(c[1]) THEN "canceled" ELSE "active",
              !.end = now + CycleLen, !.refunded = FALSE, !.due = None, !.grace = None]

(* Fault: the paid period of a stopped mandate makes the plan active again.  *)
RenewedActive(c) ==
  [sub EXCEPT !.status = "active", !.end = PeriodEnd(c), !.refunded = FALSE,
              !.due = None, !.grace = None]

(* Fault: a late payment leaves the state of recovery as it is.             *)
StillRecovering(c) == [sub EXCEPT !.end = PeriodEnd(c), !.refunded = FALSE]

Renewed(c) ==
  [sub EXCEPT !.status = IF Stopped(c[1]) THEN "canceled" ELSE "active",
              !.start = IF PeriodStart(c) > sub.end \/ sub.refunded THEN PeriodStart(c) ELSE sub.start,
              !.end = PeriodEnd(c), !.refunded = FALSE, !.due = None, !.grace = None]

Settle(r, outcome) ==
  inbox' = IF inbox[r] = "pending" /\ outcome # "retry"
             THEN [inbox EXCEPT ![r] = outcome] ELSE inbox

LastCycle(m) == Cardinality(Applied(m)) + 1 = TotalCount

ApplyCharge(h, c) ==
  LET m == c[1]
      outcome == ChargeOutcome(c, handler[h].ev)
  IN
  /\ handler[h].pc = "charge" /\ handler[h].of = c
  /\ Ends(h)
  /\ IF inbox[Charged(c)] = "pending" /\ outcome = "renewed"
       THEN /\ sub' = Renewed(c)
            /\ cycles' = cycles \cup {c}
            /\ recovery' = [recovery EXCEPT ![c].resolved = recovery[c].open]
            /\ mandate' = IF LastCycle(m) /\ ~Stopped(m)
                            THEN [mandate EXCEPT ![m].state = "completed", ![m].active = FALSE]
                            ELSE mandate
            /\ Settle(Charged(c), "processed")
       ELSE /\ Settle(Charged(c), outcome)
            /\ UNCHANGED <<sub, cycles, recovery, mandate>>
  /\ UNCHANGED <<now, account, claim, provider, post>>
-----------------------------------------------------------------------------
(* A receipt that a charge failed or that the provider gave up.             *)
Failures(c) == {[type |-> t, of |-> c] : t \in {"pending", "halted"}}

RejectFailure(r) ==
  /\ inbox[r] = "pending" /\ mandate[r.of[1]].bound
  /\ mandate[r.of[1]].state # "ready" \/ claim[r.of[1]] # "none"
  /\ Settle(r, "quarantined")
  /\ UNCHANGED <<now, account, sub, mandate, cycles, recovery, claim, provider, post, handler>>

FetchFailure(h, r) ==
  /\ handler[h] = Idle /\ inbox[r] = "pending"
  /\ mandate[r.of[1]].bound /\ mandate[r.of[1]].state = "ready" /\ claim[r.of[1]] = "none"
  /\ Becomes(h, [pc |-> r.type, of |-> r.of,
                 ev |-> [NotFetched EXCEPT !.status = provider[r.of[1]].status,
                                           !.paid = provider[r.of[1]].paid]])
  /\ UNCHANGED <<now, account, sub, mandate, cycles, recovery, claim, provider, post, inbox>>

(* Only a recorded cycle proves that a failure signed long ago is over.     *)
Superseded(c, ev) ==
  ev.status \in {"active", "completed"} /\ ev.paid = Cardinality(Applied(c[1])) /\ c \in cycles

CountFits(ev, count) == ev.paid = count /\ count < TotalCount

UnpaidCycle(m) ==
  {c \in Cycles : c[1] = m /\ PeriodStart(c) = Expected(m)}

FailureOutcome(c, ev) ==
  LET m == c[1]
      count == Cardinality(Applied(m))
  IN
  IF account # "open" \/ claim[m] # "none" \/ ~Row(m) \/ mandate[m].state # "ready"
    THEN "quarantined"
  ELSE IF ev.status \notin {"pending", "halted", "active", "completed"} THEN "quarantined"
  ELSE IF sub.bound # m \/ sub.status \notin {"active", "grace", "past_due"} \/ sub.cap
    THEN "quarantined"
  ELSE IF Superseded(c, ev) THEN "processed"
  ELSE IF ev.paid > count \/ ev.status \in {"active", "completed"} THEN "retry"
  ELSE IF ~CountFits(ev, count) THEN "quarantined"
  ELSE IF sub.end > Expected(m) \/ sub.end # PaidEnd THEN "quarantined"
  ELSE IF Expected(m) > now THEN "retry"
  ELSE IF \E u \in UnpaidCycle(m) : ~CaseFits(u) THEN "quarantined"
  ELSE "recovering"

(* Fault: every receipt counts the grace anew from the setting of the day.  *)
NewDeadline(u, g) == sub.end + g

Deadline(u, g) == IF recovery[u].open THEN recovery[u].grace ELSE sub.end + g

ApplyFailure(h, r, g) ==
  LET outcome == FailureOutcome(r.of, handler[h].ev) IN
  /\ handler[h].pc = r.type /\ handler[h].of = r.of
  /\ Ends(h)
  /\ IF inbox[r] = "pending" /\ outcome = "recovering"
       THEN \E u \in UnpaidCycle(r.of[1]) :
            /\ recovery' = [recovery EXCEPT ![u] =
                 [open |-> TRUE, paidThrough |-> sub.end, grace |-> Deadline(u, g), resolved |-> FALSE]]
            /\ sub' = [sub EXCEPT !.due = sub.end, !.grace = Deadline(u, g),
                         !.status = IF Deadline(u, g) > now THEN "grace" ELSE "past_due"]
            /\ Settle(r, "processed")
       ELSE /\ Settle(r, outcome)
            /\ UNCHANGED <<recovery, sub>>
  /\ UNCHANGED <<now, account, mandate, cycles, claim, provider, post>>
-----------------------------------------------------------------------------
(* The provider: it carries a request out once, lets an authorization that  *)
(* was not given in time expire, charges in order, perhaps a tick ahead of  *)
(* the period, and reports what it did; reports arrive late, but arrive.    *)
Report(t, c) == inbox' = [inbox EXCEPT ![[type |-> t, of |-> c]] = "pending"]

ExecuteCreate(m) ==
  /\ [kind |-> "create", of |-> m] \in post
  /\ post' = post \ {[kind |-> "create", of |-> m]}
  /\ provider' = [provider EXCEPT ![m].status = "created"]
  /\ UNCHANGED <<now, account, sub, mandate, cycles, recovery, claim, inbox, handler>>

Expires(m) ==
  /\ provider[m].status = "created" /\ now >= mandate[m].start
  /\ provider' = [provider EXCEPT ![m].status = "expired"]
  /\ UNCHANGED <<now, account, sub, mandate, cycles, recovery, claim, post, inbox, handler>>

Due(m) == provider[m].paid < TotalCount /\ now + 1 >= mandate[m].start + provider[m].paid * CycleLen
Coming(m) == <<m, provider[m].paid + 1>>

ChargeSucceeds(m) ==
  /\ provider[m].status \in Paying /\ Due(m)
  /\ provider' = [provider EXCEPT ![m] =
       [status |-> IF @.paid + 1 = TotalCount THEN "completed" ELSE "active", paid |-> @.paid + 1]]
  /\ Report("charged", Coming(m))
  /\ UNCHANGED <<now, account, sub, mandate, cycles, recovery, claim, post, handler>>

ChargeFails(m) ==
  /\ provider[m].status \in {"created", "active", "pending"} /\ Due(m)
  /\ LET to == IF provider[m].status = "pending" THEN "halted" ELSE "pending"
     IN  /\ provider' = [provider EXCEPT ![m].status = to]
         /\ Report(to, Coming(m))
  /\ UNCHANGED <<now, account, sub, mandate, cycles, recovery, claim, post, handler>>

SetAccount(a) ==
  /\ account # a /\ account' = a
  /\ UNCHANGED <<now, sub, mandate, cycles, recovery, claim, provider, post, inbox, handler>>

Tick ==
  /\ now < Horizon /\ now' = now + 1
  /\ UNCHANGED <<account, sub, mandate, cycles, recovery, claim, provider, post, inbox, handler>>

Environment ==
  \/ Tick
  \/ \E a \in {"open"} \cup Troubles : SetAccount(a)
  \/ \E m \in Mandates :
       ExecuteCreate(m) \/ Expires(m) \/ ChargeSucceeds(m) \/ ChargeFails(m)

Work(h) ==
  \/ Dies(h)
  \/ \E m \in Mandates :
       \/ EnrolNew(h, m) \/ EnrolAgain(h, m) \/ ClaimDispatch(h, m)
       \/ FetchEnrolment(h, m) \/ EnrolmentUncertain(h, m) \/ Attach(h, m)
  \/ \E c \in Cycles :
       \/ ApplyCharge(h, c)
       \/ \E r \in Failures(c), g \in Grace : FetchFailure(h, r) \/ ApplyFailure(h, r, g)

Next ==
  \/ Environment
  \/ \E h \in Handlers : Work(h) \/ \E c \in Cycles : FetchCharge(h, c, FALSE)
  \/ \E c \in Cycles : \E r \in Failures(c) : RejectFailure(r)

Spec == Init /\ [][Next]_vars
-----------------------------------------------------------------------------
(* Paid terms follow one another: no two cycles of any mandates overlap     *)
(* each other or the first grant, a mandate's cycles have no hole, and the  *)
(* subscription ends where the last of them does (renewal_cycles.py:150).   *)
TermsAdjacent ==
  /\ \A c, d \in cycles : c # d => PeriodEnd(c) <= PeriodStart(d) \/ PeriodEnd(d) <= PeriodStart(c)
  /\ \A c \in cycles : PeriodStart(c) >= CycleLen
  /\ \A c \in cycles, k \in 1..TotalCount : k < c[2] => <<c[1], k>> \in cycles
  /\ sub.end = PaidEnd

(* A paid term is never cut short: whatever failure, recovery, expiry or    *)
(* late receipt comes in, the customer has the plan in every recorded term  *)
(* (service.py:61, payment_recovery.py:210).                                *)
InTerm(c) == PeriodStart(c) <= now /\ now < PeriodEnd(c)
PaidServed == (now < CycleLen \/ \E c \in cycles : InTerm(c)) => Entitled

(* The plan is never had for nothing: only in a recorded term, or within    *)
(* the longest grace after the last one while an unpaid period is on file.  *)
Owing(c) == recovery[c].open /\ ~recovery[c].resolved /\ recovery[c].paidThrough = PaidEnd
EarnedOnly ==
  Entitled => \/ now < CycleLen
              \/ \E c \in cycles : InTerm(c)
              \/ now < PaidEnd + Max(Grace) /\ \E c \in Cycles : Owing(c)

(* At most one agreement may take money: never two provider subscriptions,  *)
(* existing or on their way, that can charge the same customer.             *)
MayCharge(m) == provider[m].status \in Paying \/ [kind |-> "create", of |-> m] \in post
OneAgreement == \A m, n \in Mandates : MayCharge(m) /\ MayCharge(n) => m = n

(* A mandate is sent for once: while a request to create is on its way none *)
(* was carried out before it, however often the customer tries again.       *)
EnrolledOnce ==
  \A m \in Mandates : [kind |-> "create", of |-> m] \in post =>
    provider[m].status = "none" /\ mandate[m].state \in {"creating", "uncertain"}

(* A receipt of a charge counts as handled only when its period is on file. *)
HandledMeansApplied ==
  \A c \in Cycles : inbox[Charged(c)] = "processed" => c \in cycles

(* Access is reduced only while a period is unpaid here: grace and past_due *)
(* go with an open case about the term that ended last.                     *)
ReducedOnlyInDebt ==
  sub.status \in {"grace", "past_due"} => \E c \in Cycles : Owing(c) /\ c \notin cycles

(* A case is opened only for the period whose charge failed: no old, stale  *)
(* or out-of-order failure receipt charges the customer with another one.   *)
DebtIsReal ==
  \A c \in Cycles : recovery[c].open => inbox[[type |-> "pending", of |-> c]] # "none"

(* Nothing restarts a grace period: a repeated or later failure receipt or  *)
(* a changed setting leaves the first deadline of that debt as it was.      *)
GraceFixed ==
  [][sub.grace # None /\ sub'.grace # None /\ sub'.due = sub.due => sub'.grace = sub.grace]_vars

(* Every paid invoice is reconciled, exactly once (renewal_cycles.py:1): of *)
(* an active account none is set aside.                                     *)
PaidCyclesCount ==
  [][\A c \in Cycles : account = "open" /\ inbox[Charged(c)] = "pending" =>
       inbox'[Charged(c)] # "quarantined"]_vars
=============================================================================
