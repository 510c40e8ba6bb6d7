------------------------------ MODULE Checkout ------------------------------
(***************************************************************************)
(* Founder checkout: quotes, founder slots, and the single durable dispatch *)
(* of a provider order.  Translated from billing/offer_service.py,          *)
(* billing/checkout_orders.py and api/checkout.py.                          *)
(*                                                                          *)
(* A request handler is a process with a program counter; one step is one   *)
(* database transaction (or, where a transaction reads twice under READ     *)
(* COMMITTED, one statement of it) or one provider call.  A handler may die *)
(* between any two steps.  The payment provider is an external actor: it    *)
(* executes a POST at any time after it was sent, even when the client has  *)
(* given up waiting for it.                                                 *)
(***************************************************************************)
EXTENDS Campaign, FiniteSets

CONSTANTS
  Users, Procs,
  Rids,        \* reservation ids; bound on the quotes ever created
  OrderIds,    \* provider order ids; more than Rids, so a second order shows
  Products,    \* subset of AllProducts customers ask for
  Wave1, Wave2,\* capacities of the two founder waves
  TTL,         \* quote lifetime
  Settle,      \* how long a dispatch is left alone before it is reconciled
  None         \* a null column

AllProducts == {"pro_monthly", "max_monthly", "pro_annual"}
Monthly     == {"pro_monthly", "max_monthly"}
Capacity    == Wave1 + Wave2
Positions   == 1..Capacity
NoPosition  == 0

ASSUME CheckoutAssumption ==
  /\ Products \subseteq AllProducts
  /\ Wave1 \in Nat /\ Wave2 \in Nat /\ TTL \in Nat /\ Settle \in Nat
  /\ None \notin Users \cup Rids \cup OrderIds \cup Products

VARIABLES
  rows,      \* checkout_reservations
  members,   \* founding_members, keyed by user
  handler,   \* the request each process is serving
  inflight,  \* order.create requests sent and not yet executed
  orders,    \* the provider's orders
  opened     \* orders whose payment page a customer was given

checkoutVars == <<rows, members, handler, inflight, orders, opened>>
vars == <<campaign, now, rows, members, handler, inflight, orders, opened>>

Offers == {"founder_wave_1", "founder_wave_2", "pro_monthly_intro",
           "max_monthly_intro", "standard"}
Introductory == Offers \ {"standard"}
FounderOffers == {"founder_wave_1", "founder_wave_2"}
WaveOf == [founder_wave_1 |-> 1, founder_wave_2 |-> 2]

FreeRow == [status |-> "none", user |-> None, product |-> None,
            offer |-> None, position |-> NoPosition, starts |-> NoDate,
            expires |-> 0, orderState |-> "unstarted", startedAt |-> NoDate,
            order |-> None, payment |-> None]

NoOrder == [receipt |-> None, offer |-> None, status |-> "none"]

Idle == [pc |-> "idle", user |-> None, product |-> None, at |-> 0,
         claimed |-> {}, rid |-> None, order |-> None, seen |-> "none"]

Row == [status : {"none", "reserved", "verified", "expired", "cancelled"},
        user : Users \cup {None}, product : AllProducts \cup {None},
        offer : Offers \cup {None}, position : Positions \cup {NoPosition},
        starts : Dates \cup {NoDate}, expires : 0..MaxNow + TTL,
        orderState : {"unstarted", "creating", "uncertain", "ready"},
        startedAt : 0..MaxNow \cup {NoDate},
        order : OrderIds \cup {None}, payment : OrderIds \cup {None}]

Order == [receipt : Rids \cup {None}, offer : Offers \cup {None},
          status : {"none", "created", "attempted", "paid"}]

PCs == {"idle", "reserve", "held", "claim", "post", "await", "lookup",
        "attach", "unresolved", "evidence", "settle"}

Handler == [pc : PCs, user : Users \cup {None}, product : AllProducts \cup {None},
            at : 0..MaxNow, claimed : SUBSET Positions, rid : Rids \cup {None},
            order : OrderIds \cup {None},
            seen : {"none", "created", "attempted", "paid"}]

Claim == [position : Positions, offer : FounderOffers, rid : Rids]
NoClaim == [position |-> NoPosition, offer |-> None, rid |-> None]

TypeOK ==
  /\ CampaignTypeOK
  /\ rows \in [Rids -> Row]
  /\ members \in [Users -> Claim \cup {NoClaim}]
  /\ handler \in [Procs -> Handler]
  /\ inflight \subseteq Procs \X Rids \X Offers
  /\ orders \in [OrderIds -> Order]
  /\ opened \subseteq OrderIds

Init ==
  /\ CampaignInit
  /\ rows = [r \in Rids |-> FreeRow]
  /\ members = [u \in Users |-> NoClaim]
  /\ handler = [p \in Procs |-> Idle]
  /\ inflight = {}
  /\ orders = [o \in OrderIds |-> NoOrder]
  /\ opened = {}

-----------------------------------------------------------------------------
(* Reading the reservation table.                                           *)

Started(r) == rows[r].orderState # "unstarted" \/ rows[r].order # None

(* A hold a quote must respect at time t: unexpired, or already dispatched. *)
Active(r, t) == rows[r].status = "reserved" /\ (rows[r].expires > t \/ Started(r))

(* Fault: expiry forgets that a dispatched quote may still be paid.         *)
StaleDespiteOrder(r, t) == rows[r].status = "reserved" /\ rows[r].expires <= t

(* What _expire_stale_reservations releases.                                *)
Stale(r, t) == rows[r].status = "reserved" /\ rows[r].expires <= t /\ ~Started(r)

(* Fault: a paid purchase is forgotten once its payment id is recorded.      *)
ForgetsPurchase(u) ==
  \E r \in Rids : rows[r].user = u /\ rows[r].status = "verified" /\ rows[r].payment = None

(* _has_prior_paid_purchase                                                 *)
HasPrior(u) == \E r \in Rids : rows[r].user = u /\ rows[r].status = "verified"

(* The two reads of _founder_positions_in_use.                              *)
ClaimedPositions == {members[u].position : u \in Users} \ {NoPosition}
HeldPositions(t) == {rows[r].position : r \in {q \in Rids : Active(q, t)}}
                      \ {NoPosition}

WaveForPosition(n) == IF n <= Wave1 THEN 1 ELSE 2
FounderOffer(n) == IF WaveForPosition(n) = 1 THEN "founder_wave_1"
                   ELSE "founder_wave_2"

StandardOffer(product, prior) ==
  IF prior \/ product \notin Monthly THEN "standard"
  ELSE IF product = "pro_monthly" THEN "pro_monthly_intro" ELSE "max_monthly_intro"

(* A first monthly purchase made before launch starts its term at launch.   *)
QuotedStart(product, prior, t) ==
  IF ~prior /\ product \in Monthly /\ t < campaign.launch
  THEN campaign.launch ELSE NoDate

FounderEligible(product, prior, t) ==
  ~prior /\ product = "pro_monthly" /\ IsLive(campaign, t)

(* The lowest position not in use; NoPosition when the campaign is full.    *)
LowestFree(used) ==
  IF Positions \subseteq used THEN NoPosition
  ELSE CHOOSE n \in Positions \ used : \A m \in Positions \ used : n <= m

(* The campaign row is locked by a handler between its two position reads,  *)
(* and so are the stale rows its transaction has marked but not committed.  *)
LockFree == \A p \in Procs : handler[p].pc # "held"
RowFree(r) == \A p \in Procs : handler[p].pc = "held" => ~Stale(r, handler[p].at)

Goto(p, h) == handler' = [handler EXCEPT ![p] = h]
Done(p) == Goto(p, Idle)
-----------------------------------------------------------------------------
(* POST /checkout/create-order.                                             *)

(* The handler reads the clock before it waits for the campaign row.        *)
CreateOrder(p, u, product) ==
  /\ handler[p].pc = "idle"
  /\ Goto(p, [Idle EXCEPT !.pc = "reserve", !.user = u, !.product = product,
                          !.at = now])
  /\ UNCHANGED <<campaign, now, rows, members, inflight, orders, opened>>

(* The rows after the stale holds of time t are released.                   *)
Expired(t) ==
  [r \in Rids |-> IF Stale(r, t)
                  THEN [rows[r] EXCEPT !.status = "expired", !.position = NoPosition]
                  ELSE rows[r]]

Quote(h, n) ==
  LET prior == HasPrior(h.user)
  IN [FreeRow EXCEPT
        !.status = "reserved", !.user = h.user, !.product = h.product,
        !.offer = IF n = NoPosition THEN StandardOffer(h.product, prior)
                  ELSE FounderOffer(n),
        !.position = n,
        !.starts = IF n = NoPosition THEN QuotedStart(h.product, prior, h.at)
                   ELSE campaign.launch,
        !.expires = h.at + TTL]

(* Fault: no unique constraint on founder_position.                         *)
InsertUnchecked(p, n) ==
  \E r \in Rids :
    /\ rows[r].status = "none"
    /\ rows' = [Expired(handler[p].at) EXCEPT ![r] = Quote(handler[p], n)]
    /\ Goto(p, [Idle EXCEPT !.pc = "claim", !.rid = r])

(* INSERT and commit; the unique constraint on founder_position spans every *)
(* row, and breaking it rolls the whole transaction back (a 500).           *)
InsertQuote(p, n) ==
  LET h == handler[p] IN
  \/ /\ n # NoPosition /\ \E r \in Rids : Expired(h.at)[r].position = n
     /\ Done(p)
     /\ UNCHANGED rows
  \/ /\ n # NoPosition => \A r \in Rids : Expired(h.at)[r].position # n
     /\ \E r \in Rids :
          /\ rows[r].status = "none"
          /\ rows' = [Expired(h.at) EXCEPT ![r] = Quote(h, n)]
          /\ Goto(p, [Idle EXCEPT !.pc = "claim", !.rid = r])

(* reserve_checkout_offer under the campaign lock, up to the first read of  *)
(* _founder_positions_in_use when a founder slot has to be chosen.          *)
Reserve(p) ==
  LET h == handler[p]
      mine == {r \in Rids : Active(r, h.at) /\ rows[r].user = h.user}
      same == {r \in mine : rows[r].product = h.product}
  IN
  /\ h.pc = "reserve"
  /\ LockFree
  /\ \/ \E r \in same :                        \* reuse the live quote
          /\ rows' = Expired(h.at)
          /\ Goto(p, [Idle EXCEPT !.pc = "claim", !.rid = r])
     \/ /\ same = {} /\ mine # {}              \* ValueError: another plan
        /\ Done(p)
        /\ UNCHANGED rows
     \/ /\ mine = {}
        /\ FounderEligible(h.product, HasPrior(h.user), h.at)
        /\ Goto(p, [h EXCEPT !.pc = "held", !.claimed = ClaimedPositions])
        /\ UNCHANGED rows
     \/ /\ mine = {}
        /\ ~FounderEligible(h.product, HasPrior(h.user), h.at)
        /\ InsertQuote(p, NoPosition)
  /\ UNCHANGED <<campaign, now, members, inflight, orders, opened>>

(* The second read, the choice of the slot, the INSERT and the commit.      *)
AllocateFounder(p) ==
  LET h == handler[p] IN
  /\ h.pc = "held"
  /\ InsertQuote(p, LowestFree(h.claimed \cup HeldPositions(h.at)))
  /\ UNCHANGED <<campaign, now, members, inflight, orders, opened>>

(* Fault: a dispatch whose outcome is unknown is claimed and sent again.    *)
ClaimAgain(p) ==
  LET h == handler[p] IN
  /\ h.pc = "claim" /\ RowFree(h.rid)
  /\ rows[h.rid].status = "reserved" /\ rows[h.rid].order = None
  /\ rows' = [rows EXCEPT ![h.rid].orderState = "creating", ![h.rid].startedAt = now]
  /\ Goto(p, [h EXCEPT !.pc = "post"])
  /\ UNCHANGED <<campaign, now, members, inflight, orders, opened>>

(* ensure_provider_order: compare-and-set the row to 'creating' and commit; *)
(* losers are refused or go and look the order up.                          *)
ClaimDispatch(p) ==
  LET h == handler[p]
      row == rows[h.rid]
  IN
  /\ h.pc = "claim"
  /\ RowFree(h.rid)
  /\ \/ /\ row.status = "reserved" /\ ~Started(h.rid)
        /\ rows' = [rows EXCEPT ![h.rid].orderState = "creating",
                                ![h.rid].startedAt = now]
        /\ Goto(p, [h EXCEPT !.pc = "post"])
     \/ /\ \/ row.status # "reserved"
           \/ row.orderState = "creating" /\ row.startedAt > now - Settle
        /\ Done(p)
        /\ UNCHANGED rows
     \/ /\ row.status = "reserved" /\ Started(h.rid)
        /\ ~(row.orderState = "creating" /\ row.startedAt > now - Settle)
        /\ Goto(p, [h EXCEPT !.pc = "lookup", !.order = row.order])
        /\ UNCHANGED rows
  /\ UNCHANGED <<campaign, now, members, inflight, orders, opened>>

(* client.order.create leaves this process.                                 *)
SendPost(p) ==
  /\ handler[p].pc = "post"
  /\ inflight' = inflight \cup {<<p, handler[p].rid, rows[handler[p].rid].offer>>}
  /\ Goto(p, [handler[p] EXCEPT !.pc = "await"])
  /\ UNCHANGED <<campaign, now, rows, members, orders, opened>>

(* The reply of the POST, once the provider has executed it; validate_order *)
(* checks the order against the quote.                                      *)
PostReply(p, o) ==
  LET h == handler[p] IN
  /\ h.pc = "await"
  /\ orders[o].receipt = h.rid /\ \A x \in inflight : <<x[1], x[2]>> # <<p, h.rid>>
  /\ Goto(p, [h EXCEPT !.pc = IF orders[o].offer = rows[h.rid].offer
                              THEN "attach" ELSE "unresolved",
                       !.order = o, !.seen = "created"])
  /\ UNCHANGED <<campaign, now, rows, members, inflight, orders, opened>>

(* A fetch of the known order, or the inventory of orders by receipt, which *)
(* must hold exactly one match.                                             *)
LookUp(p) ==
  LET h == handler[p]
      matches == IF h.order # None THEN {h.order}
                 ELSE {o \in OrderIds : orders[o].receipt = h.rid}
  IN
  /\ h.pc = "lookup"
  /\ \/ \E o \in matches :
          /\ matches = {o}
          /\ orders[o].offer = rows[h.rid].offer
          /\ Goto(p, [h EXCEPT !.pc = "attach", !.order = o,
                               !.seen = orders[o].status])
     \/ /\ ~\E o \in matches : matches = {o} /\ orders[o].offer = rows[h.rid].offer
        /\ Goto(p, [h EXCEPT !.pc = "unresolved"])
  /\ UNCHANGED <<campaign, now, rows, members, inflight, orders, opened>>

(* A provider call fails or times out, whatever its remote outcome.         *)
CallFails(p) ==
  /\ handler[p].pc \in {"await", "lookup"}
  /\ Goto(p, [handler[p] EXCEPT !.pc = "unresolved"])
  /\ UNCHANGED <<campaign, now, rows, members, inflight, orders, opened>>

(* Keep the outcome as 'uncertain' unless someone has resolved it.          *)
RecordUncertain(p) ==
  LET r == handler[p].rid IN
  /\ handler[p].pc = "unresolved"
  /\ rows' = IF rows[r].order = None /\ rows[r].orderState \in {"creating", "uncertain"}
             THEN [rows EXCEPT ![r].orderState = "uncertain"] ELSE rows
  /\ Done(p)
  /\ UNCHANGED <<campaign, now, members, inflight, orders, opened>>

(* attach_provider_order under the row lock; the payment page opens only    *)
(* for an unattempted order inside the quote's window.                      *)
AttachOrder(p) ==
  LET h == handler[p]
      row == rows[h.rid]
      ok == row.status = "reserved" /\ row.order \in {None, h.order}
  IN
  /\ h.pc = "attach"
  /\ rows' = IF ok THEN [rows EXCEPT ![h.rid].orderState = "ready",
                                     ![h.rid].order = h.order] ELSE rows
  /\ opened' = IF ok /\ h.seen = "created" /\ row.expires > now
               THEN opened \cup {h.order} ELSE opened
  /\ Done(p)
  /\ UNCHANGED <<campaign, now, members, inflight, orders>>
-----------------------------------------------------------------------------
(* Fault: closing the browser's payment page releases the quote.            *)
CancelDispatched(r) ==
  /\ rows[r].status \in {"reserved", "verified"}
  /\ RowFree(r)
  /\ rows' = [rows EXCEPT ![r].status = "cancelled", ![r].position = NoPosition]
  /\ UNCHANGED <<campaign, now, members, handler, inflight, orders, opened>>

(* POST /checkout/cancel-reservation: one transaction, and a no-op or an    *)
(* error unless the quote is reserved and was never dispatched.             *)
CancelReservation(r) ==
  /\ rows[r].status = "reserved" /\ ~Started(r)
  /\ RowFree(r)
  /\ rows' = [rows EXCEPT ![r].status = "cancelled", ![r].position = NoPosition]
  /\ UNCHANGED <<campaign, now, members, handler, inflight, orders, opened>>

-----------------------------------------------------------------------------
(* POST /checkout/verify-payment; the signed-webhook worker takes the same  *)
(* steps on behalf of the reservation's user.                               *)
VerifyPayment(p, r) ==
  /\ handler[p].pc = "idle"
  /\ rows[r].order # None
  /\ Goto(p, [Idle EXCEPT !.pc = "evidence", !.rid = r, !.order = rows[r].order])
  /\ UNCHANGED <<campaign, now, rows, members, inflight, orders, opened>>

(* Fetch order and payment, outside any lock.                               *)
FetchEvidence(p) ==
  LET h == handler[p] IN
  /\ h.pc = "evidence"
  /\ \/ orders[h.order].status = "paid" /\ orders[h.order].offer = rows[h.rid].offer
        /\ Goto(p, [h EXCEPT !.pc = "settle", !.seen = "paid"])
     \/ Done(p)
  /\ UNCHANGED <<campaign, now, rows, members, inflight, orders, opened>>

(* mark_reservation_verified raises ValueError unless ...                   *)
Verifiable(r) ==
  /\ rows[r].status = "reserved" /\ ~Stale(r, now)
  /\ rows[r].offer \in FounderOffers =>
       /\ rows[r].position # NoPosition
       /\ members[rows[r].user].rid \in {None, r}

(* Fault: a claim is made for every purchase, with or without a slot.       *)
AnyPurchase(r) == TRUE

(* The purchase has a founder wave, and makes its customer a member.        *)
Founding(r) == rows[r].offer \in FounderOffers

(* The row is locked again and the captured payment recorded; a row already *)
(* verified, with this payment or another, is left alone.                   *)
SettlePayment(p) ==
  LET h == handler[p]
      r == h.rid
      row == rows[r]
  IN
  /\ h.pc = "settle"
  /\ IF row.order = h.order /\ Verifiable(r)
     THEN /\ rows' = [rows EXCEPT
                        ![r].status = "verified", ![r].payment = h.order,
                        ![r].starts = IF row.starts = NoDate THEN now ELSE @]
          /\ members' = IF Founding(r) /\ members[row.user] = NoClaim
                        THEN [members EXCEPT ![row.user] =
                                [position |-> row.position, offer |-> row.offer,
                                 rid |-> r]]
                        ELSE members
     ELSE UNCHANGED <<rows, members>>
  /\ Done(p)
  /\ UNCHANGED <<campaign, now, inflight, orders, opened>>

-----------------------------------------------------------------------------
(* A handler dies: its transaction rolls back, its request stays in flight. *)
Crash(p) ==
  /\ handler[p].pc # "idle"
  /\ Done(p)
  /\ UNCHANGED <<campaign, now, rows, members, inflight, orders, opened>>

(* The provider executes an order.create.                                   *)
ExecutePost(x, o) ==
  /\ orders[o] = NoOrder
  /\ inflight' = inflight \ {x}
  /\ orders' = [orders EXCEPT ![o] = [receipt |-> x[2], offer |-> x[3],
                                      status |-> "created"]]
  /\ UNCHANGED <<campaign, now, rows, members, handler, opened>>

(* The customer's payment page: a failed attempt, or a captured payment.    *)
AttemptPayment(o) ==
  /\ o \in opened /\ orders[o].status = "created"
  /\ orders' = [orders EXCEPT ![o].status = "attempted"]
  /\ UNCHANGED <<campaign, now, rows, members, handler, inflight, opened>>

CapturePayment(o) ==
  /\ o \in opened /\ orders[o].status \in {"created", "attempted"}
  /\ orders' = [orders EXCEPT ![o].status = "paid"]
  /\ UNCHANGED <<campaign, now, rows, members, handler, inflight, opened>>

Administer ==
  /\ LockFree
  /\ \E v \in 1..campaign.version, c \in Changes : UpdateCampaign(v, c)
  /\ UNCHANGED checkoutVars

PassTime == Tick /\ UNCHANGED checkoutVars

Step(p) ==
  \/ \E u \in Users, product \in Products : CreateOrder(p, u, product)
  \/ \E r \in Rids : VerifyPayment(p, r)
  \/ Reserve(p) \/ AllocateFounder(p) \/ ClaimDispatch(p) \/ SendPost(p)
  \/ \E o \in OrderIds : PostReply(p, o)
  \/ LookUp(p) \/ CallFails(p) \/ RecordUncertain(p) \/ AttachOrder(p)
  \/ FetchEvidence(p) \/ SettlePayment(p)
  \/ Crash(p)

Next ==
  \/ \E p \in Procs : Step(p)
  \/ \E r \in Rids : CancelReservation(r)
  \/ \E x \in inflight, o \in OrderIds : ExecutePost(x, o)
  \/ \E o \in OrderIds : AttemptPayment(o) \/ CapturePayment(o)
  \/ Administer
  \/ PassTime

Spec == Init /\ [][Next]_vars
-----------------------------------------------------------------------------
(* The abstract view: which founder slots are promised, and how firmly.     *)
SlotOf(n) ==
  LET holders == {r \in Rids : rows[r].position = n}
      r == CHOOSE q \in holders : TRUE
  IN IF holders = {} THEN [stage |-> "free", owner |-> None]
     ELSE [owner |-> rows[r].user,
           stage |-> IF rows[r].status = "verified" THEN "sold"
                     ELSE IF Started(r) THEN "ordered" ELSE "held"]

slot == [n \in Positions |-> SlotOf(n)]

Slots == INSTANCE FounderSlots

(* Allocation, expiry, cancellation, dispatch and verification of quotes    *)
(* together keep the promise of FounderSlots: a slot is given back only     *)
(* while no order was dispatched for it, and is sold once, to its holder.   *)
SlotPromise == Slots!Spec

-----------------------------------------------------------------------------
(* One founder slot is never sold or promised twice, whatever is allocated  *)
(* while a verification moves a slot from the reservations to the members.  *)
SlotsExclusive ==
  \A r, q \in Rids : r # q /\ rows[r].position # NoPosition
                       => rows[r].position # rows[q].position

(* A founding member's record is the founder quote that user paid for.      *)
MembersPaid ==
  \A u \in Users : members[u] # NoClaim =>
    LET row == rows[members[u].rid]
    IN /\ row.user = u /\ row.status = "verified"
       /\ row.position = members[u].position /\ row.offer = members[u].offer

(* ensure_provider_order's promise: a reservation gets at most one POST in  *)
(* its life, so at most one provider order, through crashes, timeouts,      *)
(* delayed requests and retries.                                            *)
SingleDispatch ==
  \A r \in Rids :
    Cardinality({x \in inflight : x[2] = r})
      + Cardinality({o \in OrderIds : orders[o].receipt = r}) <= 1

(* Whatever may still charge the customer is backed by the quote it was     *)
(* made for: same price, still held or already paid, founder slot kept.     *)
OrdersBacked ==
  LET backed(r, offer) ==
        /\ rows[r].status \in {"reserved", "verified"} /\ Started(r)
        /\ rows[r].offer = offer
        /\ offer \in FounderOffers => FounderOffer(rows[r].position) = offer
                                      /\ rows[r].position # NoPosition
  IN /\ \A x \in inflight : backed(x[2], x[3])
     /\ \A o \in OrderIds : orders[o] # NoOrder => backed(orders[o].receipt, orders[o].offer)

(* A first-purchase price is never open twice for one customer: no second   *)
(* introductory quote while one is held, dispatched or bought.              *)
OneIntroduction ==
  \A r, q \in Rids :
    /\ r # q /\ rows[r].user = rows[q].user
    /\ rows[r].offer \in Introductory /\ rows[q].offer \in Introductory
    => ~(\A s \in {r, q} : rows[s].status = "verified" \/ Active(s, now))

(* A captured payment is never stranded: its quote is recorded as paid by   *)
(* that payment, or can still be.                                           *)
CapturesSettle ==
  \A o \in OrderIds : orders[o].status = "paid" =>
    \E r \in Rids :
      /\ rows[r].order = o
      /\ (rows[r].status = "verified" /\ rows[r].payment = o) \/ Verifiable(r)
=============================================================================
