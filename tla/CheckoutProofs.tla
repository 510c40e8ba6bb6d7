--------------------------- MODULE CheckoutProofs ---------------------------
(***************************************************************************)
(* Proofs about Checkout, for any number of users, handlers, reservations   *)
(* and founder slots.                                                       *)
(***************************************************************************)
EXTENDS Checkout, WellFoundedInduction, TLAPS

(* Handlers past ClaimDispatch work on a quote whose dispatch is durable.   *)
Dispatched == {"post", "await", "lookup", "attach", "unresolved", "evidence", "settle"}

HandlerSound(h) ==
    /\ h.pc \in {"reserve", "held"} => h.user \in Users /\ h.product \in AllProducts
    /\ h.pc = "claim" => h.rid \in Rids /\ rows[h.rid].status # "none"
    /\ h.pc \in Dispatched => h.rid \in Rids /\ Started(h.rid)
    /\ h.pc = "attach" => h.order \in OrderIds /\ orders[h.order].receipt = h.rid
    /\ h.pc = "lookup" => h.order \in {None, rows[h.rid].order}
    /\ h.pc \in {"evidence", "settle"} => h.order \in OrderIds

HandlersSound == \A p \in Procs : HandlerSound(handler[p])

(* The life of a row: dispatch implies a live quote, a live quote has a     *)
(* founder position exactly when it has the founder price of that position. *)
RowsSound ==
  \A r \in Rids :
    LET row == rows[r] IN
    /\ row.status \notin {"reserved", "verified"} => ~Started(r) /\ row.position = NoPosition
    /\ row.status # "none" => row.user \in Users /\ row.offer \in Offers
    /\ row.status \in {"reserved", "verified"} =>
         IF row.position = NoPosition THEN row.offer \notin FounderOffers
         ELSE row.offer = FounderOffer(row.position)
    /\ row.status = "verified" => row.order # None /\ row.payment = row.order

(* Orders and requests carry the receipt and price of a dispatched quote.   *)
OrdersSound ==
  /\ \A x \in inflight : Started(x[2]) /\ x[3] = rows[x[2]].offer
  /\ \A o \in OrderIds : orders[o] # NoOrder =>
       /\ orders[o].receipt \in Rids
       /\ Started(orders[o].receipt)
       /\ orders[o].offer = rows[orders[o].receipt].offer
       /\ orders[o].status \in {"attempted", "paid"} => o \in opened
  /\ \A r \in Rids : rows[r].order # None => orders[rows[r].order].receipt = r
  /\ \A o \in opened : orders[o] # NoOrder /\ rows[orders[o].receipt].order = o

(* A customer has at most one reserved quote, and it is introductory only   *)
(* while nothing was bought; two purchases are not both introductory.       *)
OneReserved ==
  \A r, q \in Rids :
    rows[r].status = "reserved" /\ rows[q].status = "reserved"
      /\ rows[r].user = rows[q].user => r = q

FirstPurchase ==
  \A r, q \in Rids :
    r # q /\ rows[r].user = rows[q].user /\ rows[q].status = "verified" =>
      /\ rows[r].status = "reserved" => rows[r].offer \notin Introductory
      /\ rows[r].status = "verified" => ~{rows[r].offer, rows[q].offer} \subseteq Introductory

(* The handler holding the campaign row is alone, and what it read of its   *)
(* customer before choosing a slot is still so.                             *)
HeldStable ==
  \A p \in Procs : handler[p].pc = "held" =>
    /\ \A q \in Procs : handler[q].pc = "held" => q = p
    /\ ~HasPrior(handler[p].user)
    /\ \A r \in Rids : rows[r].user = handler[p].user /\ rows[r].status = "reserved"
                         => Stale(r, handler[p].at)

IInv ==
  /\ TypeOK /\ HandlersSound /\ RowsSound /\ OrdersSound
  /\ OneReserved /\ FirstPurchase /\ HeldStable /\ MembersPaid

(* Some member of a nonempty set of positions is least.                     *)
LEMMA SmallestPosition ==
  ASSUME NEW S, S \subseteq Positions, S # {}
  PROVE  \E n \in S : \A m \in S : n <= m
<1>1. Positions \subseteq Nat
  BY CheckoutAssumption DEF Positions, Capacity
<1>2. \E n \in S : \A m \in S : ~(<<m, n>> \in OpToRel(<, Nat))
  BY <1>1, NatLessThanWellFounded, WFMin
<1>3. PICK n \in S : \A m \in S : ~(<<m, n>> \in OpToRel(<, Nat))
  BY <1>2
<1>4. \A m \in S : ~(m < n)
  BY <1>1, <1>3 DEF OpToRel
<1> QED
  BY <1>1, <1>4

(* LowestFree returns a position, or none.                                  *)
LEMMA LowestFreeType ==
  ASSUME NEW used
  PROVE  LowestFree(used) \in Positions \cup {NoPosition}
<1>1. CASE Positions \subseteq used
  BY <1>1 DEF LowestFree
<1>2. CASE ~(Positions \subseteq used)
  <2> DEFINE S == Positions \ used
  <2>1. \E n \in S : \A m \in S : n <= m
    BY <1>2, SmallestPosition
  <2> QED
    BY <1>2, <2>1 DEF LowestFree
<1> QED
  BY <1>1, <1>2

(* An accepted PATCH leaves a well-typed campaign row.                      *)
LEMMA EditKeepsCampaignType ==
  ASSUME CampaignTypeOK, NEW v \in 1..campaign.version, NEW c \in Changes,
         UpdateCampaign(v, c)
  PROVE  CampaignTypeOK'
<1> DEFINE val(f) == IF f \in DOMAIN c THEN c[f] ELSE campaign[f]
<1>1. /\ DOMAIN c \subseteq Fields
      /\ \A f \in DOMAIN c : c[f] \in IF f = "state" THEN States
                                      ELSE Dates \cup {NoDate}
  BY CampaignAssumption
<1>2. val("state") \in States
  BY <1>1 DEF CampaignTypeOK, CampaignRow
<1>3. \A f \in {"starts", "ends", "launch"} : val(f) \in Dates \cup {NoDate}
  BY <1>1 DEF CampaignTypeOK, CampaignRow
<1>4. campaign.version + 1 \in 1..MaxVersion
  BY CampaignAssumption DEF CampaignTypeOK, CampaignRow, UpdateCampaign
<1>5. campaign' = [state |-> val("state"), starts |-> val("starts"),
                   ends |-> val("ends"), launch |-> val("launch"),
                   version |-> campaign.version + 1]
  BY DEF UpdateCampaign, Edited
<1>6. campaign' \in CampaignRow
  <2> HIDE DEF val
  <2> QED
    BY <1>2, <1>3, <1>4, <1>5 DEF CampaignRow
<1> QED
  BY <1>6 DEF CampaignTypeOK, UpdateCampaign

(* The quote built for a well-typed request is a row.                       *)
LEMMA QuoteType ==
  ASSUME TypeOK, NEW p \in Procs, handler[p].user \in Users,
         handler[p].product \in AllProducts,
         NEW n \in Positions \cup {NoPosition}
  PROVE  Quote(handler[p], n) \in Row
<1>1. /\ handler[p].at \in 0..MaxNow
      /\ campaign.launch \in Dates \cup {NoDate}
  BY DEF TypeOK, Handler, CampaignTypeOK, CampaignRow
<1>2. handler[p].at + TTL \in 0..MaxNow + TTL
  BY <1>1, CampaignAssumption, CheckoutAssumption
<1>3. \A b : StandardOffer(handler[p].product, b) \in Offers
  BY DEF StandardOffer, Offers
<1>4. FounderOffer(n) \in Offers
  BY DEF FounderOffer, Offers
<1>5. \A b : QuotedStart(handler[p].product, b, handler[p].at) \in Dates \cup {NoDate}
  BY <1>1 DEF QuotedStart
<1> QED
  BY <1>1, <1>2, <1>3, <1>4, <1>5 DEF Quote, Row, FreeRow

(* Releasing stale holds keeps the table's type.                            *)
LEMMA ExpiredType ==
  ASSUME TypeOK, NEW t
  PROVE  Expired(t) \in [Rids -> Row]
<1> SUFFICES ASSUME NEW r \in Rids
             PROVE  [rows[r] EXCEPT !.status = "expired", !.position = NoPosition] \in Row
  BY DEF TypeOK, Expired
<1>1. rows[r] \in Row
  BY DEF TypeOK
<1> QED
  BY <1>1 DEF Row

(* What the handlers of each action may become.                             *)
LEMMA IdleType == Idle \in Handler
BY CampaignAssumption DEF Idle, Handler, PCs

(* The record a handler has once its quote is committed.                    *)
LEMMA ClaimHandlerType ==
  ASSUME NEW r \in Rids
  PROVE  [Idle EXCEPT !.pc = "claim", !.rid = r] \in Handler
BY IdleType DEF Handler, PCs, Idle

-----------------------------------------------------------------------------
(* What no step undoes: a quote stays the quote it is, a dispatch stays a   *)
(* dispatch, an attached order and an order's receipt stay.                 *)
Grows ==
  /\ \A r \in Rids : rows[r].status # "none" =>
       /\ rows'[r].status # "none"
       /\ rows'[r].user = rows[r].user /\ rows'[r].offer = rows[r].offer
  /\ \A r \in Rids : Started(r) => Started(r)'
  /\ \A r \in Rids : rows[r].order # None => rows'[r].order = rows[r].order
  /\ \A o \in OrderIds : orders[o].receipt # None => orders'[o].receipt = orders[o].receipt

(* A handler that does not move stays sound when the tables only grow.      *)
LEMMA OtherHandlersSound ==
  ASSUME IInv, Grows, NEW q \in Procs, handler'[q] = handler[q]
  PROVE  HandlerSound(handler[q])'
<1>1. HandlerSound(handler[q]) /\ handler[q] \in Handler
  BY DEF IInv, HandlersSound, TypeOK
<1>2. None \notin Rids
  BY CheckoutAssumption
<1>3. handler[q].pc = "claim" => rows'[handler[q].rid].status # "none"
  BY <1>1 DEF HandlerSound, Grows
<1>4. handler[q].pc \in Dispatched => handler[q].rid \in Rids /\ Started(handler[q].rid)'
  BY <1>1 DEF HandlerSound, Grows
<1>5. handler[q].pc = "attach" => orders'[handler[q].order].receipt = handler[q].rid
  BY <1>1, <1>2 DEF HandlerSound, Grows, Dispatched
<1>6. handler[q].pc = "lookup" => handler[q].order \in {None, rows'[handler[q].rid].order}
  BY <1>1 DEF HandlerSound, Grows, Dispatched
<1> QED
  BY <1>1, <1>3, <1>4, <1>5, <1>6 DEF HandlerSound, Started

(* A step that only moves one handler, and not into the campaign lock.      *)
LEMMA HandlerStep ==
  ASSUME IInv, NEW p \in Procs, NEW h \in Handler, Goto(p, h),
         UNCHANGED <<campaign, now, rows, members, inflight, orders, opened>>,
         HandlerSound(h), h.pc # "held"
  PROVE  IInv'
<1>1. TypeOK'
  BY DEF IInv, TypeOK, CampaignTypeOK, Goto
<1>2. Grows
  BY DEF Grows, Started
<1>3. HandlersSound'
  <2> SUFFICES ASSUME NEW q \in Procs PROVE HandlerSound(handler[q])'
    BY DEF HandlersSound
  <2>1. CASE q = p
    <3>1. handler'[q] = h
      BY <2>1 DEF IInv, TypeOK, Goto
    <3> QED
      BY <3>1 DEF HandlerSound, Started
  <2>2. CASE q # p
    <3>1. handler'[q] = handler[q]
      BY <2>2 DEF IInv, TypeOK, Goto
    <3> QED
      BY <1>2, <3>1, OtherHandlersSound
  <2> QED
    BY <2>1, <2>2
<1>4. RowsSound' /\ OrdersSound' /\ OneReserved' /\ FirstPurchase' /\ MembersPaid'
  BY DEF IInv, RowsSound, OrdersSound, OneReserved, FirstPurchase, MembersPaid, Started
<1>5. HeldStable'
  BY DEF IInv, TypeOK, HeldStable, Goto, HasPrior, Stale, Started
<1> QED
  BY <1>1, <1>3, <1>4, <1>5 DEF IInv

(* An idle handler is well typed and promises nothing.                      *)
LEMMA IdleSound == Idle \in Handler /\ HandlerSound(Idle) /\ Idle.pc # "held"
BY IdleType DEF Idle, HandlerSound, Dispatched

(* Returning, failing and crashing lose only the handler's record.          *)
LEMMA DoneStep ==
  ASSUME IInv, NEW p \in Procs, Done(p),
         UNCHANGED <<campaign, now, rows, members, inflight, orders, opened>>
  PROVE  IInv'
BY IdleSound, HandlerStep DEF Done

(* POST /checkout/create-order starts a sound handler.                      *)
LEMMA CreateOrderStep ==
  ASSUME IInv, NEW p \in Procs, NEW u \in Users, NEW product \in Products,
         CreateOrder(p, u, product)
  PROVE  IInv'
<1> DEFINE h == [Idle EXCEPT !.pc = "reserve", !.user = u, !.product = product, !.at = now]
<1>1. h \in Handler /\ h.pc = "reserve" /\ h.user = u /\ h.product = product
  BY IdleType, CheckoutAssumption DEF IInv, TypeOK, CampaignTypeOK, Idle, Handler, PCs
<1>2. HandlerSound(h)
  <2> HIDE DEF h
  <2> QED BY <1>1, CheckoutAssumption DEF HandlerSound, Dispatched
<1>3. Goto(p, h) /\ UNCHANGED <<campaign, now, rows, members, inflight, orders, opened>>
  BY DEF CreateOrder
<1> HIDE DEF h
<1> QED
  BY <1>1, <1>2, <1>3, HandlerStep

(* Verification starts on a quote whose order is attached.                  *)
LEMMA VerifyPaymentStep ==
  ASSUME IInv, NEW p \in Procs, NEW r \in Rids, VerifyPayment(p, r)
  PROVE  IInv'
<1> DEFINE h == [Idle EXCEPT !.pc = "evidence", !.rid = r, !.order = rows[r].order]
<1>1. rows[r].order \in OrderIds /\ Started(r)
  BY DEF IInv, TypeOK, Row, VerifyPayment, Started
<1>2. h \in Handler /\ h.pc = "evidence" /\ h.rid = r /\ h.order = rows[r].order
  BY <1>1, IdleType DEF Idle, Handler, PCs
<1>3. Goto(p, h) /\ UNCHANGED <<campaign, now, rows, members, inflight, orders, opened>>
  BY DEF VerifyPayment
<1>4. HandlerSound(h)
  <2> HIDE DEF h
  <2> QED BY <1>1, <1>2 DEF HandlerSound, Dispatched
<1> HIDE DEF h
<1> QED
  BY <1>2, <1>3, <1>4, HandlerStep

(* A reply hands over an order that carries the handler's receipt.          *)
LEMMA PostReplyStep ==
  ASSUME IInv, NEW p \in Procs, NEW o \in OrderIds, PostReply(p, o)
  PROVE  IInv'
<1> DEFINE next == IF orders[o].offer = rows[handler[p].rid].offer
                   THEN "attach" ELSE "unresolved"
           h == [handler[p] EXCEPT !.pc = next, !.order = o, !.seen = "created"]
<1>1. handler[p] \in Handler /\ HandlerSound(handler[p]) /\ handler[p].pc = "await"
  BY DEF IInv, TypeOK, HandlersSound, PostReply
<1>2. h \in Handler /\ h.pc \in {"attach", "unresolved"} /\ h.rid = handler[p].rid /\ h.order = o
  BY <1>1 DEF Handler, PCs
<1>3. Goto(p, h) /\ UNCHANGED <<campaign, now, rows, members, inflight, orders, opened>>
      /\ orders[o].receipt = handler[p].rid
  BY DEF PostReply
<1>4. HandlerSound(h)
  <2> HIDE DEF h
  <2> QED BY <1>1, <1>2, <1>3 DEF HandlerSound, Dispatched
<1> HIDE DEF h
<1> QED
  BY <1>2, <1>3, <1>4, HandlerStep

(* Losing a reply leaves a dispatched quote to be marked uncertain.         *)
LEMMA UnresolvedStep ==
  ASSUME IInv, NEW p \in Procs, handler[p].pc \in Dispatched,
         Goto(p, [handler[p] EXCEPT !.pc = "unresolved"]),
         UNCHANGED <<campaign, now, rows, members, inflight, orders, opened>>
  PROVE  IInv'
<1> DEFINE h == [handler[p] EXCEPT !.pc = "unresolved"]
<1>1. handler[p] \in Handler /\ HandlerSound(handler[p])
  BY DEF IInv, TypeOK, HandlersSound
<1>2. h \in Handler /\ h.pc = "unresolved" /\ h.rid = handler[p].rid
  BY <1>1 DEF Handler, PCs
<1>3. HandlerSound(h)
  <2> HIDE DEF h
  <2> QED BY <1>1, <1>2 DEF HandlerSound, Dispatched
<1> HIDE DEF h
<1> QED
  BY <1>2, <1>3, HandlerStep DEF h

(* A look-up finds only an order with the handler's receipt.                *)
LEMMA LookUpStep ==
  ASSUME IInv, NEW p \in Procs, LookUp(p)
  PROVE  IInv'
<1>1. /\ handler[p] \in Handler /\ HandlerSound(handler[p]) /\ handler[p].pc = "lookup"
      /\ UNCHANGED <<campaign, now, rows, members, inflight, orders, opened>>
  BY DEF IInv, TypeOK, HandlersSound, LookUp
<1>2. CASE Goto(p, [handler[p] EXCEPT !.pc = "unresolved"])
  BY <1>1, <1>2, UnresolvedStep DEF Dispatched
<1>3. ASSUME NEW o, o \in IF handler[p].order # None THEN {handler[p].order}
                          ELSE {x \in OrderIds : orders[x].receipt = handler[p].rid},
             Goto(p, [handler[p] EXCEPT !.pc = "attach", !.order = o,
                                        !.seen = orders[o].status])
      PROVE  IInv'
  <2> DEFINE h == [handler[p] EXCEPT !.pc = "attach", !.order = o, !.seen = orders[o].status]
  <2>1. handler[p].rid \in Rids /\ Started(handler[p].rid)
    BY <1>1 DEF HandlerSound, Dispatched
  <2>2. o \in OrderIds /\ orders[o].receipt = handler[p].rid
    BY <1>1, <1>3, <2>1 DEF HandlerSound, Dispatched, IInv, TypeOK, Row, OrdersSound
  <2>3. h \in Handler /\ h.pc = "attach" /\ h.rid = handler[p].rid /\ h.order = o
    BY <1>1, <2>2 DEF Handler, PCs, IInv, TypeOK, Order
  <2>4. HandlerSound(h)
    <3> HIDE DEF h
    <3> QED BY <2>1, <2>2, <2>3 DEF HandlerSound, Dispatched
  <2> HIDE DEF h
  <2> QED
    BY <1>1, <1>3, <2>3, <2>4, HandlerStep DEF h
<1> QED
  BY <1>2, <1>3 DEF LookUp

(* Evidence read outside the lock changes nothing but the handler.          *)
LEMMA FetchEvidenceStep ==
  ASSUME IInv, NEW p \in Procs, FetchEvidence(p)
  PROVE  IInv'
<1>1. CASE Done(p)
  BY <1>1, DoneStep DEF FetchEvidence
<1>2. CASE Goto(p, [handler[p] EXCEPT !.pc = "settle", !.seen = "paid"])
  <2> DEFINE h == [handler[p] EXCEPT !.pc = "settle", !.seen = "paid"]
  <2>1. handler[p] \in Handler /\ HandlerSound(handler[p]) /\ handler[p].pc = "evidence"
    BY DEF IInv, TypeOK, HandlersSound, FetchEvidence
  <2>2. h \in Handler /\ h.pc = "settle" /\ h.rid = handler[p].rid /\ h.order = handler[p].order
    BY <2>1 DEF Handler, PCs
  <2>3. HandlerSound(h)
    <3> HIDE DEF h
    <3> QED BY <2>1, <2>2 DEF HandlerSound, Dispatched
  <2> HIDE DEF h
  <2> QED
    BY <1>2, <2>2, <2>3, HandlerStep DEF h, FetchEvidence
<1> QED
  BY <1>1, <1>2 DEF FetchEvidence

-----------------------------------------------------------------------------
(* Quotes: releasing the stale ones, and inserting a new one.               *)

(* What releasing the stale holds does to each field of a row.              *)
LEMMA ExpiredFields ==
  ASSUME TypeOK, NEW t, NEW r \in Rids
  PROVE  LET row == Expired(t)[r] IN
         /\ row.user = rows[r].user /\ row.offer = rows[r].offer
         /\ row.order = rows[r].order /\ row.orderState = rows[r].orderState
         /\ row.payment = rows[r].payment
         /\ Stale(r, t) => row.status = "expired" /\ row.position = NoPosition
         /\ ~Stale(r, t) => row.status = rows[r].status /\ row.position = rows[r].position
<1>1. Expired(t)[r] = IF Stale(r, t) THEN [rows[r] EXCEPT !.status = "expired",
                                                         !.position = NoPosition]
                      ELSE rows[r]
  BY DEF Expired
<1>2. rows[r] \in Row
  BY DEF TypeOK
<1> QED
  BY <1>1, <1>2 DEF Row

(* Releasing the stale holds keeps every fact about the tables.             *)
LEMMA ExpiredKeeps ==
  ASSUME IInv, NEW t, rows' = Expired(t), UNCHANGED <<members, inflight, orders, opened>>
  PROVE  /\ RowsSound' /\ OrdersSound' /\ OneReserved' /\ FirstPurchase'
         /\ MembersPaid' /\ Grows
<1>2. \A r \in Rids :
        /\ rows'[r].user = rows[r].user /\ rows'[r].offer = rows[r].offer
        /\ rows'[r].order = rows[r].order /\ rows'[r].orderState = rows[r].orderState
        /\ rows'[r].payment = rows[r].payment
        /\ Stale(r, t) => rows'[r].status = "expired" /\ rows'[r].position = NoPosition
        /\ ~Stale(r, t) => rows'[r].status = rows[r].status
                           /\ rows'[r].position = rows[r].position
  BY ExpiredFields DEF IInv
<1>3. \A r \in Rids :
        /\ Stale(r, t) => rows[r].status = "reserved" /\ ~Started(r)
        /\ Started(r)' <=> Started(r)
  BY <1>2 DEF Stale, Started
<1>4. RowsSound'
  BY <1>2, <1>3 DEF IInv, RowsSound
<1>5. OrdersSound'
  <2>1. OrdersSound /\ inflight \subseteq Procs \X Rids \X Offers
    BY DEF IInv, TypeOK
  <2>2. \A x \in inflight : Started(x[2])' /\ x[3] = rows'[x[2]].offer
    BY <1>2, <1>3, <2>1 DEF OrdersSound
  <2> QED
    BY <1>2, <1>3, <2>1, <2>2 DEF OrdersSound, IInv, TypeOK
<1>6. OneReserved' /\ FirstPurchase'
  BY <1>2, <1>3 DEF IInv, OneReserved, FirstPurchase
<1>7. MembersPaid'
  <2>1. \A u \in Users : members[u] # NoClaim => members[u].rid \in Rids
    BY DEF IInv, TypeOK, Claim
  <2>2. \A r \in Rids : rows[r].status = "verified" => ~Stale(r, t)
    BY <1>3
  <2> QED
    BY <1>2, <2>1, <2>2 DEF IInv, MembersPaid
<1>8. Grows
  BY <1>2, <1>3 DEF Grows
<1> QED
  BY <1>4, <1>5, <1>6, <1>7, <1>8

(* Reserve that finds the customer's live quote returns it.                 *)
LEMMA ReuseStep ==
  ASSUME IInv, NEW p \in Procs, NEW t, NEW r \in Rids, LockFree, Active(r, t),
         rows' = Expired(t), Goto(p, [Idle EXCEPT !.pc = "claim", !.rid = r]),
         UNCHANGED <<campaign, now, members, inflight, orders, opened>>
  PROVE  IInv'
<1> DEFINE h == [Idle EXCEPT !.pc = "claim", !.rid = r]
<1>1. h \in Handler /\ h.pc = "claim" /\ h.rid = r
  BY ClaimHandlerType DEF Idle
<1>2. /\ RowsSound' /\ OrdersSound' /\ OneReserved' /\ FirstPurchase'
      /\ MembersPaid' /\ Grows
  BY ExpiredKeeps
<1>3. handler' = [handler EXCEPT ![p] = h]
  BY DEF Goto
<1> HIDE DEF h
<1>4. TypeOK'
  BY <1>1, <1>3, ExpiredType DEF IInv, TypeOK, CampaignTypeOK
<1>5. HandlersSound'
  <2> SUFFICES ASSUME NEW q \in Procs PROVE HandlerSound(handler[q])'
    BY DEF HandlersSound
  <2>1. CASE q = p
    <3>1. handler'[q] = h /\ rows[r].status # "none"
      BY <1>3, <2>1 DEF IInv, TypeOK, Active
    <3> QED
      BY <1>1, <1>2, <3>1 DEF HandlerSound, Dispatched, Grows
  <2>2. CASE q # p
    BY <1>2, <1>3, <2>2, OtherHandlersSound DEF IInv, TypeOK
  <2> QED
    BY <2>1, <2>2
<1>6. HeldStable'
  BY <1>1, <1>3 DEF LockFree, HeldStable, IInv, TypeOK
<1> QED
  BY <1>2, <1>4, <1>5, <1>6 DEF IInv

(* Reserve that needs a founder slot keeps the campaign row locked.         *)
LEMMA HoldLockStep ==
  ASSUME IInv, NEW p \in Procs, handler[p].pc = "reserve", LockFree,
         \A r \in Rids : ~(Active(r, handler[p].at) /\ rows[r].user = handler[p].user),
         FounderEligible(handler[p].product, HasPrior(handler[p].user), handler[p].at),
         Goto(p, [handler[p] EXCEPT !.pc = "held", !.claimed = ClaimedPositions]),
         UNCHANGED <<campaign, now, rows, members, inflight, orders, opened>>
  PROVE  IInv'
<1> DEFINE h == [handler[p] EXCEPT !.pc = "held", !.claimed = ClaimedPositions]
<1>1. handler[p] \in Handler /\ HandlerSound(handler[p])
  BY DEF IInv, TypeOK, HandlersSound
<1>2. ClaimedPositions \subseteq Positions
  BY DEF IInv, TypeOK, ClaimedPositions, Claim, NoClaim
<1>3. /\ h \in Handler /\ h.pc = "held" /\ h.user = handler[p].user
      /\ h.product = handler[p].product /\ h.at = handler[p].at
  BY <1>1, <1>2 DEF Handler, PCs
<1>4. handler' = [handler EXCEPT ![p] = h]
  BY DEF Goto
<1> HIDE DEF h
<1>5. TypeOK'
  BY <1>3, <1>4 DEF IInv, TypeOK, CampaignTypeOK
<1>6. Grows
  BY DEF Grows, Started
<1>7. HandlersSound'
  <2> SUFFICES ASSUME NEW q \in Procs PROVE HandlerSound(handler[q])'
    BY DEF HandlersSound
  <2>1. CASE q = p
    <3>1. handler'[q] = h
      BY <1>4, <2>1 DEF IInv, TypeOK
    <3> QED
      BY <1>1, <1>3, <3>1 DEF HandlerSound, Dispatched
  <2>2. CASE q # p
    BY <1>4, <1>6, <2>2, OtherHandlersSound DEF IInv, TypeOK
  <2> QED
    BY <2>1, <2>2
<1>8. RowsSound' /\ OrdersSound' /\ OneReserved' /\ FirstPurchase' /\ MembersPaid'
  BY DEF IInv, RowsSound, OrdersSound, OneReserved, FirstPurchase, MembersPaid, Started
<1>9. HeldStable'
  <2>1. \A q \in Procs : handler'[q].pc = "held" => q = p
    BY <1>4 DEF LockFree, IInv, TypeOK
  <2>2. handler'[p] = h
    BY <1>4 DEF IInv, TypeOK
  <2>3. ~HasPrior(handler[p].user)
    BY DEF FounderEligible
  <2>4. \A r \in Rids : rows[r].user = handler[p].user /\ rows[r].status = "reserved"
                          => Stale(r, handler[p].at)
    <3> SUFFICES ASSUME NEW r \in Rids, rows[r].user = handler[p].user,
                        rows[r].status = "reserved"
                 PROVE  Stale(r, handler[p].at)
      OBVIOUS
    <3>1. ~(rows[r].expires > handler[p].at) /\ ~Started(r)
      BY DEF Active
    <3>2. rows[r].expires \in Int /\ handler[p].at \in Int
      BY <1>1, CampaignAssumption, CheckoutAssumption DEF IInv, TypeOK, Row, Handler
    <3> QED
      BY <3>1, <3>2 DEF Stale
  <2> QED
    BY <1>3, <2>1, <2>2, <2>3, <2>4 DEF HeldStable, HasPrior, Stale, Started
<1> QED
  BY <1>5, <1>7, <1>8, <1>9 DEF IInv

(* The fields of a new quote.                                               *)
LEMMA QuoteFields ==
  ASSUME NEW p \in Procs, NEW n \in Positions \cup {NoPosition},
         n # NoPosition => ~HasPrior(handler[p].user)
  PROVE  LET quote == Quote(handler[p], n) IN
         /\ quote.status = "reserved" /\ quote.user = handler[p].user
         /\ quote.position = n
         /\ quote.orderState = "unstarted" /\ quote.order = None
         /\ quote.offer \in Offers
         /\ IF n = NoPosition THEN quote.offer \notin FounderOffers
            ELSE quote.offer = FounderOffer(n)
         /\ HasPrior(handler[p].user) => quote.offer \notin Introductory
<1>1. /\ Quote(handler[p], n).status = "reserved"
      /\ Quote(handler[p], n).user = handler[p].user
      /\ Quote(handler[p], n).position = n
      /\ Quote(handler[p], n).orderState = "unstarted"
      /\ Quote(handler[p], n).order = None
      /\ Quote(handler[p], n).offer =
           IF n = NoPosition THEN StandardOffer(handler[p].product, HasPrior(handler[p].user))
           ELSE FounderOffer(n)
  BY DEF Quote, FreeRow
<1>2. \A product : /\ StandardOffer(product, TRUE) = "standard"
                   /\ StandardOffer(product, FALSE) \in Offers \ FounderOffers
  BY DEF StandardOffer, Offers, FounderOffers
<1>3. FounderOffer(n) \in Offers
  BY DEF FounderOffer, Offers
<1>4. "standard" \in Offers /\ "standard" \notin FounderOffers /\ "standard" \notin Introductory
  BY DEF Offers, FounderOffers, Introductory
<1>5. HasPrior(handler[p].user) \in BOOLEAN
  BY DEF HasPrior
<1> QED
  BY <1>1, <1>2, <1>3, <1>4, <1>5

(* Inserting a quote for a customer with no live quote keeps IInv.          *)
LEMMA InsertStep ==
  ASSUME IInv, NEW p \in Procs, handler[p].pc \in {"reserve", "held"},
         NEW n \in Positions \cup {NoPosition},
         n # NoPosition => ~HasPrior(handler[p].user),
         \A q \in Procs : handler[q].pc = "held" => q = p,
         \A r \in Rids : rows[r].user = handler[p].user /\ rows[r].status = "reserved"
                         => Stale(r, handler[p].at),
         InsertQuote(p, n),
         UNCHANGED <<campaign, now, members, inflight, orders, opened>>
  PROVE  IInv'
<1>1. CASE Done(p) /\ UNCHANGED rows
  BY <1>1, DoneStep
<1>2. ASSUME NEW r \in Rids, rows[r].status = "none",
             rows' = [Expired(handler[p].at) EXCEPT ![r] = Quote(handler[p], n)],
             Goto(p, [Idle EXCEPT !.pc = "claim", !.rid = r])
      PROVE  IInv'
  <2> DEFINE h == [Idle EXCEPT !.pc = "claim", !.rid = r]
             t == handler[p].at
             quote == Quote(handler[p], n)
  <2>1. h \in Handler /\ h.pc = "claim" /\ h.rid = r
    BY ClaimHandlerType DEF Idle
  <2>2. handler' = [handler EXCEPT ![p] = h]
    BY <1>2 DEF Goto
  <2>3. handler[p].user \in Users /\ handler[p].product \in AllProducts
    BY DEF IInv, HandlersSound, HandlerSound
  <2>4. /\ quote.status = "reserved" /\ quote.user = handler[p].user
        /\ quote.position = n
        /\ quote.orderState = "unstarted" /\ quote.order = None
        /\ quote.offer \in Offers
        /\ IF n = NoPosition THEN quote.offer \notin FounderOffers
           ELSE quote.offer = FounderOffer(n)
        /\ HasPrior(handler[p].user) => quote.offer \notin Introductory
    BY QuoteFields
  <2>5. Expired(t) \in [Rids -> Row] /\ quote \in Row
    BY <2>3, ExpiredType, QuoteType DEF IInv
  <2>6. rows'[r] = quote /\ \A q \in Rids \ {r} : rows'[q] = Expired(t)[q]
    BY <1>2, <2>5
  <2>7. \A q \in Rids \ {r} :
          /\ rows'[q].user = rows[q].user /\ rows'[q].offer = rows[q].offer
          /\ rows'[q].order = rows[q].order /\ rows'[q].orderState = rows[q].orderState
          /\ rows'[q].payment = rows[q].payment
          /\ Stale(q, t) => rows'[q].status = "expired" /\ rows'[q].position = NoPosition
          /\ ~Stale(q, t) => rows'[q].status = rows[q].status
                             /\ rows'[q].position = rows[q].position
    BY <2>6, ExpiredFields DEF IInv
  <2>8. ~Started(r) /\ rows[r].order = None /\ ~Started(r)'
    BY <1>2, <2>4, <2>6 DEF IInv, RowsSound, Started
  <2>9. \A q \in Rids \ {r} :
          /\ Stale(q, t) => rows[q].status = "reserved" /\ ~Started(q)
          /\ Started(q)' <=> Started(q)
    BY <2>7 DEF Stale, Started
  <2>10. TypeOK'
    BY <1>2, <2>1, <2>2, <2>5 DEF IInv, TypeOK, CampaignTypeOK
  <2> HIDE DEF h, quote, t
  <2>11. RowsSound'
    BY <2>3, <2>4, <2>6, <2>7, <2>8, <2>9 DEF IInv, RowsSound
  <2>12. OrdersSound'
    <3>1. OrdersSound /\ inflight \subseteq Procs \X Rids \X Offers
      BY DEF IInv, TypeOK
    <3>2. \A x \in inflight : Started(x[2])' /\ x[3] = rows'[x[2]].offer
      BY <2>7, <2>8, <2>9, <3>1 DEF OrdersSound
    <3>3. rows'[r].order = None
      BY <2>4, <2>6
    <3>4. \A o \in OrderIds : orders[o] # NoOrder =>
             orders[o].receipt \in Rids \ {r}
      BY <2>8, <3>1 DEF OrdersSound
    <3>5. opened \subseteq OrderIds
      BY DEF IInv, TypeOK
    <3> QED
      BY <2>7, <2>9, <3>1, <3>2, <3>3, <3>4, <3>5 DEF OrdersSound
  <2>13. OneReserved'
    <3>1. \A q \in Rids \ {r} : rows'[q].status = "reserved" =>
             rows[q].status = "reserved" /\ ~Stale(q, t) /\ rows'[q].user = rows[q].user
      BY <2>7
    <3>2. \A q \in Rids \ {r} : rows'[q].status = "reserved" => rows'[q].user # rows'[r].user
      BY <2>4, <2>6, <3>1 DEF t
    <3> QED
      BY <3>1, <3>2 DEF IInv, OneReserved
  <2>14. FirstPurchase'
    <3>1. \A q \in Rids \ {r} : rows'[q].status = "verified" => rows[q].status = "verified"
      BY <2>7
    <3>2. \A q \in Rids \ {r} : rows'[q].status = "reserved" => rows[q].status = "reserved"
      BY <2>7
    <3>3. \A q \in Rids \ {r} :
             rows'[q].status = "verified" /\ rows'[q].user = rows'[r].user
               => rows'[r].offer \notin Introductory
      BY <2>4, <2>6, <2>7, <3>1 DEF HasPrior
    <3> QED
      BY <2>4, <2>6, <2>7, <3>1, <3>2, <3>3 DEF IInv, FirstPurchase
  <2>15. MembersPaid'
    <3>1. \A u \in Users : members[u] # NoClaim =>
             members[u].rid \in Rids \ {r} /\ ~Stale(members[u].rid, t)
      BY <1>2, <2>9 DEF IInv, TypeOK, Claim, MembersPaid
    <3> QED
      BY <2>7, <3>1 DEF IInv, MembersPaid
  <2>16. Grows
    <3>1. \A q \in Rids : rows[q].status # "none" =>
             /\ rows'[q].status # "none"
             /\ rows'[q].user = rows[q].user /\ rows'[q].offer = rows[q].offer
      BY <1>2, <2>7
    <3> QED
      BY <2>7, <2>8, <2>9, <3>1 DEF Grows
  <2>17. HandlersSound'
    <3> SUFFICES ASSUME NEW q \in Procs PROVE HandlerSound(handler[q])'
      BY DEF HandlersSound
    <3>1. CASE q = p
      <4>1. handler'[q] = h
        BY <2>2, <3>1 DEF IInv, TypeOK
      <4> QED
        BY <2>1, <2>4, <2>6, <4>1 DEF HandlerSound, Dispatched
    <3>2. CASE q # p
      BY <2>2, <2>16, <3>2, OtherHandlersSound DEF IInv, TypeOK
    <3> QED
      BY <3>1, <3>2
  <2>18. HeldStable'
    BY <2>1, <2>2 DEF HeldStable, IInv, TypeOK
  <2> QED
    BY <2>10, <2>11, <2>12, <2>13, <2>14, <2>15, <2>17, <2>18 DEF IInv
<1> QED
  BY <1>1, <1>2 DEF InsertQuote

(* reserve_checkout_offer keeps IInv, whichever way it returns.             *)
LEMMA ReserveStep ==
  ASSUME IInv, NEW p \in Procs, Reserve(p)
  PROVE  IInv'
<1> DEFINE h == handler[p]
           mine == {r \in Rids : Active(r, h.at) /\ rows[r].user = h.user}
           same == {r \in mine : rows[r].product = h.product}
<1>1. /\ h.pc = "reserve" /\ LockFree
      /\ UNCHANGED <<campaign, now, members, inflight, orders, opened>>
  BY DEF Reserve
<1>2. ASSUME NEW r \in same, rows' = Expired(h.at),
             Goto(p, [Idle EXCEPT !.pc = "claim", !.rid = r])
      PROVE  IInv'
  BY <1>1, <1>2, ReuseStep
<1>3. CASE Done(p) /\ UNCHANGED rows
  BY <1>1, <1>3, DoneStep
<1>4. CASE /\ mine = {} /\ FounderEligible(h.product, HasPrior(h.user), h.at)
           /\ Goto(p, [h EXCEPT !.pc = "held", !.claimed = ClaimedPositions])
           /\ UNCHANGED rows
  BY <1>1, <1>4, HoldLockStep
<1>5. CASE mine = {} /\ InsertQuote(p, NoPosition)
  <2>1. \A r \in Rids : rows[r].user = handler[p].user /\ rows[r].status = "reserved"
                         => Stale(r, handler[p].at)
    <3> SUFFICES ASSUME NEW r \in Rids, rows[r].user = handler[p].user,
                        rows[r].status = "reserved"
                 PROVE  Stale(r, handler[p].at)
      OBVIOUS
    <3>1. ~(rows[r].expires > handler[p].at) /\ ~Started(r)
      BY <1>5 DEF Active
    <3>2. rows[r].expires \in Int /\ handler[p].at \in Int
      BY CampaignAssumption, CheckoutAssumption DEF IInv, TypeOK, Row, Handler
    <3> QED
      BY <3>1, <3>2 DEF Stale
  <2>2. \A q \in Procs : handler[q].pc # "held"
    BY <1>1 DEF LockFree
  <2>3. NoPosition \in Positions \cup {NoPosition}
    OBVIOUS
  <2> QED
    BY <1>1, <1>5, <2>1, <2>2, <2>3, InsertStep
<1> QED
  BY <1>2, <1>3, <1>4, <1>5 DEF Reserve

(* Choosing and inserting a founder slot keeps IInv.                        *)
LEMMA AllocateFounderStep ==
  ASSUME IInv, NEW p \in Procs, AllocateFounder(p)
  PROVE  IInv'
<1> DEFINE n == LowestFree(handler[p].claimed \cup HeldPositions(handler[p].at))
<1>1. n \in Positions \cup {NoPosition}
  BY LowestFreeType
<1>2. /\ handler[p].pc = "held" /\ InsertQuote(p, n)
      /\ UNCHANGED <<campaign, now, members, inflight, orders, opened>>
  BY DEF AllocateFounder
<1>3. /\ \A q \in Procs : handler[q].pc = "held" => q = p
      /\ ~HasPrior(handler[p].user)
      /\ \A r \in Rids : rows[r].user = handler[p].user /\ rows[r].status = "reserved"
                          => Stale(r, handler[p].at)
  BY <1>2 DEF IInv, HeldStable
<1> HIDE DEF n
<1> QED
  BY <1>1, <1>2, <1>3, InsertStep

-----------------------------------------------------------------------------
(* The dispatch: steps that move a reserved quote's order state forward.    *)

(* A dispatched quote's order state and order may move forward.             *)
LEMMA OrderStateStep ==
  ASSUME IInv, NEW p \in Procs, NEW h \in Handler, Goto(p, h), h.pc # "held",
         HandlerSound(h)',
         NEW r \in Rids, NEW row \in Row, rows' = [rows EXCEPT ![r] = row],
         rows[r].status = "reserved", Started(r) \/ RowFree(r),
         row.status = "reserved", row.user = rows[r].user, row.offer = rows[r].offer,
         row.position = rows[r].position, row.payment = rows[r].payment,
         row.orderState # "unstarted",
         rows[r].order # None => row.order = rows[r].order,
         row.order # None => orders[row.order].receipt = r,
         opened' \in {opened, opened \cup {row.order}},
         opened' # opened => row.order # None,
         UNCHANGED <<campaign, now, members, inflight, orders>>
  PROVE  IInv'
<1>1. rows'[r] = row /\ \A q \in Rids \ {r} : rows'[q] = rows[q]
  BY DEF IInv, TypeOK
<1>2. handler'[p] = h /\ \A q \in Procs \ {p} : handler'[q] = handler[q]
  BY DEF IInv, TypeOK, Goto
<1>3. Started(r)' /\ \A q \in Rids \ {r} : Started(q)' <=> Started(q)
  BY <1>1 DEF Started
<1>4. TypeOK'
  BY DEF IInv, TypeOK, CampaignTypeOK, Goto, Row
<1>5. Grows
  <2>1. \A q \in Rids : rows[q].status # "none" =>
          rows'[q].status # "none" /\ rows'[q].user = rows[q].user
            /\ rows'[q].offer = rows[q].offer
    BY <1>1
  <2> QED
    BY <1>1, <1>3, <2>1 DEF Grows
<1>6. HandlersSound'
  BY <1>2, <1>5, OtherHandlersSound DEF HandlersSound
<1>7. RowsSound'
  BY <1>1, <1>3 DEF IInv, RowsSound
<1>8. OrdersSound'
  <2>1. OrdersSound /\ inflight \subseteq Procs \X Rids \X Offers /\ opened \subseteq OrderIds
    BY DEF IInv, TypeOK
  <2>2. \A x \in inflight : Started(x[2])' /\ x[3] = rows'[x[2]].offer
    BY <1>1, <1>3, <2>1 DEF OrdersSound
  <2>3. \A o \in OrderIds : orders[o] # NoOrder =>
       /\ orders[o].receipt \in Rids
       /\ Started(orders[o].receipt)'
       /\ orders[o].offer = rows'[orders[o].receipt].offer
       /\ orders[o].status \in {"attempted", "paid"} => o \in opened'
    BY <1>1, <1>3, <2>1 DEF OrdersSound
  <2>4. \A q \in Rids : rows'[q].order # None => orders[rows'[q].order].receipt = q
    BY <1>1, <2>1 DEF OrdersSound
  <2>5. \A o \in opened : orders[o] # NoOrder /\ rows'[orders[o].receipt].order = o
    <3> SUFFICES ASSUME NEW o \in opened
                 PROVE  orders[o] # NoOrder /\ rows'[orders[o].receipt].order = o
      OBVIOUS
    <3>1. /\ orders[o] # NoOrder /\ orders[o].receipt \in Rids
          /\ rows[orders[o].receipt].order = o /\ o # None
      BY <2>1, CheckoutAssumption DEF OrdersSound
    <3> QED
      BY <1>1, <3>1
  <2>6. \A o \in opened' \ opened : orders[o] # NoOrder /\ rows'[orders[o].receipt].order = o
    BY <1>1, CheckoutAssumption DEF NoOrder
  <2> QED
    BY <2>2, <2>3, <2>4, <2>5, <2>6 DEF OrdersSound
<1>9. OneReserved' /\ FirstPurchase'
  BY <1>1 DEF IInv, OneReserved, FirstPurchase
<1>10. MembersPaid'
  <2>1. \A u \in Users : members[u] # NoClaim => members[u].rid \in Rids \ {r}
    BY DEF IInv, TypeOK, Claim, MembersPaid
  <2> QED
    BY <1>1, <2>1 DEF IInv, MembersPaid
<1>11. HeldStable'
  <2> SUFFICES ASSUME NEW q \in Procs, handler'[q].pc = "held"
               PROVE  /\ \A s \in Procs : handler'[s].pc = "held" => s = q
                      /\ ~HasPrior(handler[q].user)'
                      /\ \A s \in Rids : rows'[s].user = handler'[q].user
                           /\ rows'[s].status = "reserved" => Stale(s, handler[q].at)'
    BY DEF HeldStable
  <2>1. q # p /\ handler'[q] = handler[q] /\ handler[q].pc = "held"
    BY <1>2
  <2>2. rows[r].user # handler[q].user
    BY <2>1 DEF IInv, HeldStable, RowFree, Stale
  <2>3. \A s \in Procs : handler'[s].pc = "held" => s = q
    BY <1>2, <2>1 DEF IInv, HeldStable
  <2>4. ~HasPrior(handler[q].user)'
    BY <1>1, <2>1 DEF IInv, HeldStable, HasPrior
  <2>5. \A s \in Rids : rows'[s].user = handler'[q].user
                           /\ rows'[s].status = "reserved" => Stale(s, handler[q].at)'
    BY <1>1, <1>3, <2>1, <2>2 DEF IInv, HeldStable, Stale
  <2> QED
    BY <2>3, <2>4, <2>5
<1> QED
  BY <1>4, <1>6, <1>7, <1>8, <1>9, <1>10, <1>11 DEF IInv

(* What IInv says of one handler.                                           *)
LEMMA HandlerFacts ==
  ASSUME IInv, NEW p \in Procs
  PROVE  handler[p] \in Handler /\ HandlerSound(handler[p])
BY DEF IInv, TypeOK, HandlersSound

(* The compare-and-set before the POST keeps IInv.                          *)
LEMMA ClaimDispatchStep ==
  ASSUME IInv, NEW p \in Procs, ClaimDispatch(p)
  PROVE  IInv'
<1>0. PICK r \in Rids : r = handler[p].rid
  BY HandlerFacts DEF ClaimDispatch, HandlerSound
<1>1. /\ handler[p] \in Handler /\ handler[p].pc = "claim" /\ RowFree(r)
      /\ rows[r] \in Row
      /\ UNCHANGED <<campaign, now, members, inflight, orders, opened>>
  BY <1>0, HandlerFacts DEF ClaimDispatch, HandlerSound, IInv, TypeOK
<1>2. CASE /\ rows[r].status = "reserved" /\ ~Started(r)
           /\ rows' = [rows EXCEPT ![r].orderState = "creating", ![r].startedAt = now]
           /\ Goto(p, [handler[p] EXCEPT !.pc = "post"])
  <2> DEFINE row == [rows[r] EXCEPT !.orderState = "creating", !.startedAt = now]
  <2>1. rows' = [rows EXCEPT ![r] = row]
    <3>1. rows \in [Rids -> Row]
      BY DEF IInv, TypeOK
    <3>2. row = [[rows[r] EXCEPT !.orderState = "creating"] EXCEPT !.startedAt = now]
      OBVIOUS
    <3> QED
      BY <1>2, <3>1, <3>2
  <2>2. row \in Row
    BY <1>1 DEF Row, IInv, TypeOK, CampaignTypeOK
  <2>3. /\ row.status = rows[r].status /\ row.user = rows[r].user
        /\ row.offer = rows[r].offer /\ row.position = rows[r].position
        /\ row.payment = rows[r].payment /\ row.orderState = "creating"
        /\ row.order = rows[r].order
    BY <1>1 DEF Row
  <2>4. PICK h \in Handler : /\ h = [handler[p] EXCEPT !.pc = "post"]
                             /\ h.pc = "post" /\ h.rid = r
    <3>1. /\ [handler[p] EXCEPT !.pc = "post"] \in Handler
          /\ [handler[p] EXCEPT !.pc = "post"].pc = "post"
          /\ [handler[p] EXCEPT !.pc = "post"].rid = r
      BY <1>0, <1>1 DEF Handler, PCs
    <3> QED
      BY <3>1
  <2> HIDE DEF row
  <2>5. rows'[r].orderState = "creating"
    BY <1>1, <2>1, <2>3 DEF IInv, TypeOK
  <2>6. HandlerSound(h)'
    BY <1>1, <2>4, <2>5 DEF HandlerSound, Dispatched, Started
  <2>7. row.order = None
    BY <1>2, <2>3 DEF Started
  <2>8. /\ row.status = "reserved" /\ rows[r].status = "reserved"
        /\ row.orderState # "unstarted" /\ rows[r].order = None /\ opened' = opened
        /\ Started(r) \/ RowFree(r)
    BY <1>1, <1>2, <2>3, <2>7
  <2>9. /\ Goto(p, h) /\ h.pc # "held"
        /\ UNCHANGED <<campaign, now, members, inflight, orders>>
    BY <1>1, <1>2, <2>4
  <2> QED
    BY <2>1, <2>2, <2>3, <2>6, <2>7, <2>8, <2>9, OrderStateStep
<1>3. CASE Done(p) /\ UNCHANGED rows
  BY <1>1, <1>3, DoneStep
<1>4. CASE /\ Started(r) /\ UNCHANGED rows
           /\ Goto(p, [handler[p] EXCEPT !.pc = "lookup", !.order = rows[r].order])
  <2> DEFINE h == [handler[p] EXCEPT !.pc = "lookup", !.order = rows[r].order]
  <2>1. h \in Handler /\ h.pc = "lookup" /\ h.rid = r /\ h.order = rows[r].order
    BY <1>0, <1>1 DEF Handler, PCs, Row
  <2> HIDE DEF h
  <2>2. HandlerSound(h)
    BY <1>1, <1>4, <2>1 DEF HandlerSound, Dispatched
  <2> QED
    BY <1>1, <1>4, <2>1, <2>2, HandlerStep DEF h
<1> QED
  BY <1>0, <1>2, <1>3, <1>4 DEF ClaimDispatch

(* A sent request is backed by a dispatched quote.                          *)
LEMMA SendPostStep ==
  ASSUME IInv, NEW p \in Procs, SendPost(p)
  PROVE  IInv'
<1> DEFINE h == [handler[p] EXCEPT !.pc = "await"]
<1>0. PICK r \in Rids : r = handler[p].rid
  BY HandlerFacts DEF SendPost, HandlerSound, Dispatched
<1>1. /\ handler[p] \in Handler /\ handler[p].pc = "post"
      /\ Started(r) /\ rows[r] \in Row
  BY <1>0, HandlerFacts DEF SendPost, HandlerSound, Dispatched, IInv, TypeOK
<1>2. rows[r].offer \in Offers
  BY <1>1 DEF IInv, RowsSound
<1>3. h \in Handler /\ h.pc = "await" /\ h.rid = r
  BY <1>0, <1>1 DEF Handler, PCs
<1>4. handler' = [handler EXCEPT ![p] = h] /\ inflight' = inflight \cup {<<p, r, rows[r].offer>>}
      /\ UNCHANGED <<campaign, now, rows, members, orders, opened>>
  BY <1>0 DEF SendPost, Goto
<1> HIDE DEF h
<1>5. TypeOK'
  BY <1>1, <1>2, <1>3, <1>4 DEF IInv, TypeOK, CampaignTypeOK
<1>6. Grows
  BY <1>4 DEF Grows, Started
<1>7. HandlersSound'
  <2> SUFFICES ASSUME NEW q \in Procs PROVE HandlerSound(handler[q])'
    BY DEF HandlersSound
  <2>1. CASE q = p
    <3>1. handler'[q] = h
      BY <1>4, <2>1 DEF IInv, TypeOK
    <3>2. Started(r)'
      BY <1>1, <1>6 DEF Grows
    <3> QED
      BY <1>1, <1>3, <3>1, <3>2 DEF HandlerSound, Dispatched
  <2>2. CASE q # p
    BY <1>4, <1>6, <2>2, OtherHandlersSound DEF IInv, TypeOK
  <2> QED
    BY <2>1, <2>2
<1>8. OrdersSound'
  <2>1. \A q \in Rids : Started(q)' <=> Started(q)
    BY <1>4 DEF Started
  <2>2. OrdersSound /\ inflight \subseteq Procs \X Rids \X Offers
    BY DEF IInv, TypeOK
  <2>3. \A x \in inflight' : Started(x[2])' /\ x[3] = rows'[x[2]].offer
    BY <1>1, <1>4, <2>1, <2>2 DEF OrdersSound
  <2> QED
    BY <1>4, <2>1, <2>2, <2>3 DEF OrdersSound
<1>9. RowsSound' /\ OneReserved' /\ FirstPurchase' /\ MembersPaid'
  BY <1>4 DEF IInv, RowsSound, OneReserved, FirstPurchase, MembersPaid, Started
<1>10. HeldStable'
  BY <1>3, <1>4 DEF IInv, TypeOK, HeldStable, HasPrior, Stale, Started
<1> QED
  BY <1>5, <1>7, <1>8, <1>9, <1>10 DEF IInv

(* Recording an unknown outcome keeps IInv.                                 *)
LEMMA RecordUncertainStep ==
  ASSUME IInv, NEW p \in Procs, RecordUncertain(p)
  PROVE  IInv'
<1> DEFINE r == handler[p].rid
<1>1. /\ r \in Rids /\ Started(r) /\ rows[r] \in Row /\ Done(p)
      /\ UNCHANGED <<campaign, now, members, inflight, orders, opened>>
  BY HandlerFacts DEF RecordUncertain, HandlerSound, Dispatched, IInv, TypeOK
<1>2. CASE UNCHANGED rows
  BY <1>1, <1>2, DoneStep
<1>3. CASE rows[r].order = None /\ rows' = [rows EXCEPT ![r].orderState = "uncertain"]
  <2> DEFINE row == [rows[r] EXCEPT !.orderState = "uncertain"]
  <2>1. rows' = [rows EXCEPT ![r] = row]
    BY <1>1, <1>3 DEF IInv, TypeOK
  <2>2. row \in Row
    BY <1>1 DEF Row
  <2>3. /\ row.status = rows[r].status /\ row.user = rows[r].user
        /\ row.offer = rows[r].offer /\ row.position = rows[r].position
        /\ row.payment = rows[r].payment /\ row.orderState = "uncertain"
        /\ row.order = None
    BY <1>1, <1>3 DEF Row
  <2>4. rows[r].status = "reserved"
    BY <1>1, <1>3 DEF IInv, RowsSound
  <2>5. HandlerSound(Idle)'
    BY DEF HandlerSound, Idle, Dispatched
  <2> HIDE DEF row
  <2> QED
    BY <1>1, <1>3, <2>1, <2>2, <2>3, <2>4, <2>5, IdleSound, OrderStateStep DEF Done
<1> QED
  BY <1>2, <1>3 DEF RecordUncertain

(* Attaching an order with the quote's receipt keeps IInv.                  *)
LEMMA AttachOrderStep ==
  ASSUME IInv, NEW p \in Procs, AttachOrder(p)
  PROVE  IInv'
<1> DEFINE r == handler[p].rid
           o == handler[p].order
           ok == rows[r].status = "reserved" /\ rows[r].order \in {None, o}
<1>1. /\ r \in Rids /\ Started(r) /\ rows[r] \in Row /\ Done(p)
      /\ o \in OrderIds /\ orders[o].receipt = r /\ o # None
      /\ UNCHANGED <<campaign, now, members, inflight, orders>>
  BY HandlerFacts, CheckoutAssumption
  DEF AttachOrder, HandlerSound, Dispatched, IInv, TypeOK
<1>2. CASE ~ok
  BY <1>1, <1>2, DoneStep DEF AttachOrder
<1>3. CASE ok
  <2> DEFINE row == [rows[r] EXCEPT !.orderState = "ready", !.order = o]
  <2>1. rows' = [rows EXCEPT ![r] = row] /\ opened' \in {opened, opened \cup {o}}
    BY <1>1, <1>3 DEF IInv, TypeOK, AttachOrder
  <2>2. row \in Row
    BY <1>1 DEF Row
  <2>3. /\ row.status = rows[r].status /\ row.user = rows[r].user
        /\ row.offer = rows[r].offer /\ row.position = rows[r].position
        /\ row.payment = rows[r].payment /\ row.orderState = "ready"
        /\ row.order = o
    BY <1>1 DEF Row
  <2>4. HandlerSound(Idle)'
    BY DEF HandlerSound, Idle, Dispatched
  <2> HIDE DEF row
  <2> QED
    BY <1>1, <1>3, <2>1, <2>2, <2>3, <2>4, IdleSound, OrderStateStep DEF Done
<1> QED
  BY <1>2, <1>3

-----------------------------------------------------------------------------
(* Releasing and paying a quote.                                            *)

(* Cancelling a quote that was never dispatched keeps IInv.                 *)
LEMMA CancelReservationStep ==
  ASSUME IInv, NEW r \in Rids, CancelReservation(r)
  PROVE  IInv'
<1> DEFINE row == [rows[r] EXCEPT !.status = "cancelled", !.position = NoPosition]
<1>1. /\ rows[r].status = "reserved" /\ ~Started(r)
      /\ rows[r] \in Row /\ rows \in [Rids -> Row]
      /\ UNCHANGED <<campaign, now, members, handler, inflight, orders, opened>>
  BY DEF CancelReservation, IInv, TypeOK
<1>2. rows' = [rows EXCEPT ![r] = row]
  <2>1. row = [[rows[r] EXCEPT !.status = "cancelled"] EXCEPT !.position = NoPosition]
    OBVIOUS
  <2> QED
    BY <1>1, <2>1 DEF CancelReservation
<1>3. /\ row \in Row /\ row.status = "cancelled" /\ row.position = NoPosition
      /\ row.user = rows[r].user /\ row.offer = rows[r].offer
      /\ row.orderState = rows[r].orderState /\ row.order = rows[r].order
  BY <1>1 DEF Row
<1> HIDE DEF row
<1>4. rows'[r] = row /\ \A q \in Rids \ {r} : rows'[q] = rows[q]
  BY <1>1, <1>2
<1>5. \A q \in Rids : Started(q)' <=> Started(q)
  BY <1>3, <1>4 DEF Started
<1>6. TypeOK'
  BY <1>1, <1>2, <1>3 DEF IInv, TypeOK, CampaignTypeOK
<1>7. Grows
  BY <1>1, <1>3, <1>4, <1>5 DEF Grows
<1>8. HandlersSound'
  BY <1>1, <1>7, OtherHandlersSound DEF HandlersSound
<1>9. RowsSound'
  BY <1>1, <1>3, <1>4, <1>5 DEF IInv, RowsSound
<1>10. OrdersSound'
  <2>1. OrdersSound /\ inflight \subseteq Procs \X Rids \X Offers /\ opened \subseteq OrderIds
    BY DEF IInv, TypeOK
  <2>2. \A q \in Rids : rows'[q].offer = rows[q].offer /\ rows'[q].order = rows[q].order
    BY <1>3, <1>4
  <2>3. \A x \in inflight : Started(x[2])' /\ x[3] = rows'[x[2]].offer
    BY <1>5, <2>1, <2>2 DEF OrdersSound
  <2> QED
    BY <1>1, <1>5, <2>1, <2>2, <2>3 DEF OrdersSound
<1>11. OneReserved' /\ FirstPurchase'
  BY <1>3, <1>4 DEF IInv, OneReserved, FirstPurchase
<1>12. MembersPaid'
  <2>1. \A u \in Users : members[u] # NoClaim => members[u].rid \in Rids \ {r}
    BY <1>1 DEF IInv, TypeOK, Claim, MembersPaid
  <2> QED
    BY <1>1, <1>4, <2>1 DEF IInv, MembersPaid
<1>13. HeldStable'
  BY <1>1, <1>3, <1>4, <1>5 DEF IInv, HeldStable, HasPrior, Stale
<1> QED
  BY <1>6, <1>8, <1>9, <1>10, <1>11, <1>12, <1>13 DEF IInv

(* Recording a captured payment keeps IInv.                                 *)
LEMMA SettlePaymentStep ==
  ASSUME IInv, NEW p \in Procs, SettlePayment(p)
  PROVE  IInv'
<1>0. PICK r \in Rids : r = handler[p].rid
  BY HandlerFacts DEF SettlePayment, Founding, HandlerSound, Dispatched
<1>1. /\ handler[p].order \in OrderIds /\ Started(r) /\ Done(p)
      /\ rows[r] \in Row /\ rows \in [Rids -> Row]
      /\ UNCHANGED <<campaign, now, inflight, orders, opened>>
  BY <1>0, HandlerFacts DEF SettlePayment, Founding, HandlerSound, Dispatched, IInv, TypeOK
<1>2. CASE UNCHANGED <<rows, members>>
  BY <1>1, <1>2, DoneStep
<1>3. ASSUME rows[r].order = handler[p].order, Verifiable(r),
             rows' = [rows EXCEPT
                        ![r].status = "verified", ![r].payment = handler[p].order,
                        ![r].starts = IF rows[r].starts = NoDate THEN now ELSE @],
             members' = IF rows[r].offer \in FounderOffers /\ members[rows[r].user] = NoClaim
                        THEN [members EXCEPT ![rows[r].user] =
                                [position |-> rows[r].position, offer |-> rows[r].offer,
                                 rid |-> r]]
                        ELSE members
      PROVE  IInv'
  <2> DEFINE start == IF rows[r].starts = NoDate THEN now ELSE rows[r].starts
             row == [rows[r] EXCEPT !.status = "verified", !.payment = handler[p].order,
                                    !.starts = start]
  <2>1. rows' = [rows EXCEPT ![r] = row]
    BY <1>1, <1>3
  <2>2. start \in Dates \cup {NoDate}
    BY <1>1, CampaignAssumption DEF Row, IInv, TypeOK, CampaignTypeOK, Dates
  <2>3. /\ row \in Row /\ row.status = "verified" /\ row.payment = rows[r].order
        /\ row.position = rows[r].position
        /\ row.user = rows[r].user /\ row.offer = rows[r].offer
        /\ row.orderState = rows[r].orderState /\ row.order = rows[r].order
    <3> DEFINE a == rows[r]
               o == handler[p].order
    <3>1. row = [[[a EXCEPT !.status = "verified"] EXCEPT !.payment = o] EXCEPT !.starts = start]
      OBVIOUS
    <3>2. /\ a \in Row /\ o \in OrderIds
          /\ start \in Dates \cup {NoDate} /\ a.order = o
      BY <1>1, <1>3, <2>2
    <3> HIDE DEF start, row, a, o
    <3>3. [a EXCEPT !.status = "verified"] \in Row
      BY <3>2 DEF Row
    <3>4. \A b \in Row : [b EXCEPT !.payment = o] \in Row
      BY <3>2 DEF Row
    <3>5. \A b \in Row : [b EXCEPT !.starts = start] \in Row
      BY <3>2 DEF Row
    <3>6. row \in Row
      BY <3>1, <3>3, <3>4, <3>5
    <3>7. /\ row.status = "verified" /\ row.payment = o
          /\ row.position = a.position
          /\ row.user = a.user /\ row.offer = a.offer
          /\ row.orderState = a.orderState /\ row.order = a.order
      BY <3>1, <3>2 DEF Row
    <3> QED BY <3>2, <3>6, <3>7 DEF a, o
  <2> HIDE DEF row, start
  <2>4. rows'[r] = row /\ \A q \in Rids \ {r} : rows'[q] = rows[q]
    BY <1>1, <2>1
  <2>5. \A q \in Rids : Started(q)' <=> Started(q)
    BY <2>3, <2>4 DEF Started
  <2>6. rows[r].status = "reserved" /\ rows[r].user \in Users /\ rows[r].order # None
    BY <1>1, <1>3, CheckoutAssumption DEF Verifiable, IInv, RowsSound
  <2>7. rows[r].offer \in FounderOffers => rows[r].position \in Positions
    BY <1>1, <1>3 DEF Verifiable, Row
  <2>8. TypeOK'
    <3>1. members' \in [Users -> Claim \cup {NoClaim}]
      BY <1>3, <2>6, <2>7 DEF IInv, TypeOK, Claim
    <3>2. handler' \in [Procs -> Handler]
      BY <1>1, IdleType DEF Done, Goto, IInv, TypeOK
    <3> QED
      BY <1>1, <2>1, <2>3, <3>1, <3>2 DEF IInv, TypeOK, CampaignTypeOK
  <2>9. Grows
    BY <1>1, <2>3, <2>4, <2>5 DEF Grows
  <2>10. handler'[p] = Idle /\ \A q \in Procs \ {p} : handler'[q] = handler[q]
    BY <1>1 DEF Done, Goto, IInv, TypeOK
  <2>11. HandlersSound'
    <3>1. HandlerSound(Idle)'
      BY DEF HandlerSound, Idle, Dispatched
    <3>2. HandlerSound(handler[p])'
      BY <2>10, <3>1 DEF HandlerSound, Started
    <3> QED
      BY <2>9, <2>10, <3>2, OtherHandlersSound DEF HandlersSound
  <2>12. RowsSound'
    BY <2>3, <2>4, <2>5, <2>6 DEF IInv, RowsSound
  <2>13. OrdersSound'
    <3>1. OrdersSound /\ inflight \subseteq Procs \X Rids \X Offers /\ opened \subseteq OrderIds
      BY DEF IInv, TypeOK
    <3>2. \A q \in Rids : rows'[q].offer = rows[q].offer /\ rows'[q].order = rows[q].order
      BY <2>3, <2>4
    <3>3. \A x \in inflight : Started(x[2])' /\ x[3] = rows'[x[2]].offer
      BY <2>5, <3>1, <3>2 DEF OrdersSound
    <3> QED
      BY <1>1, <2>5, <3>1, <3>2, <3>3 DEF OrdersSound
  <2>14. OneReserved'
    BY <2>3, <2>4 DEF IInv, OneReserved
  <2>15. FirstPurchase'
    <3> SUFFICES ASSUME NEW a \in Rids, NEW b \in Rids, a # b,
                        rows'[a].user = rows'[b].user, rows'[b].status = "verified"
                 PROVE  /\ rows'[a].status = "reserved" => rows'[a].offer \notin Introductory
                        /\ rows'[a].status = "verified" =>
                             ~{rows'[a].offer, rows'[b].offer} \subseteq Introductory
      BY DEF FirstPurchase
    <3>1. CASE a # r /\ b # r
      BY <2>4, <3>1 DEF IInv, FirstPurchase
    <3>2. CASE a = r
      BY <2>3, <2>4, <2>6, <3>2 DEF IInv, FirstPurchase
    <3>3. CASE b = r
      <4>1. rows[a].status # "reserved"
        BY <2>3, <2>4, <2>6, <3>3 DEF IInv, OneReserved
      <4>2. rows[a].status = "verified" => rows[r].offer \notin Introductory
        BY <2>3, <2>4, <2>6, <3>3 DEF IInv, FirstPurchase
      <4> QED
        BY <2>3, <2>4, <3>3, <4>1, <4>2
    <3> QED
      BY <3>1, <3>2, <3>3
  <2>16. MembersPaid'
    <3> SUFFICES ASSUME NEW u \in Users, members'[u] # NoClaim
                 PROVE  LET paid == rows'[members'[u].rid]
                        IN /\ paid.user = u /\ paid.status = "verified"
                           /\ paid.position = members'[u].position
                           /\ paid.offer = members'[u].offer
      BY DEF MembersPaid
    <3>1. CASE members'[u] = members[u]
      <4>1. members[u].rid \in Rids \ {r}
        BY <2>6, <3>1 DEF IInv, TypeOK, Claim, MembersPaid
      <4> QED
        BY <2>4, <3>1, <4>1 DEF IInv, MembersPaid
    <3>2. CASE members'[u] # members[u]
      <4>1. /\ u = rows[r].user
            /\ members'[u] = [position |-> rows[r].position, offer |-> rows[r].offer,
                              rid |-> r]
        BY <1>3, <3>2 DEF IInv, TypeOK
      <4> QED
        BY <2>3, <2>4, <4>1
    <3> QED
      BY <3>1, <3>2
  <2>17. HeldStable'
    <3> SUFFICES ASSUME NEW q \in Procs, handler'[q].pc = "held"
                 PROVE  /\ \A s \in Procs : handler'[s].pc = "held" => s = q
                        /\ ~HasPrior(handler[q].user)'
                        /\ \A s \in Rids : rows'[s].user = handler'[q].user
                             /\ rows'[s].status = "reserved" => Stale(s, handler[q].at)'
      BY DEF HeldStable
    <3>1. q # p /\ handler'[q] = handler[q] /\ handler[q].pc = "held"
      BY <2>10, IdleSound
    <3>2. rows[r].user # handler[q].user
      BY <1>1, <2>6, <3>1 DEF IInv, HeldStable, Stale
    <3>3. \A s \in Procs : handler'[s].pc = "held" => s = q
      BY <2>10, <3>1, IdleSound DEF IInv, HeldStable
    <3>4. ~HasPrior(handler[q].user)'
      BY <2>3, <2>4, <3>1, <3>2 DEF IInv, HeldStable, HasPrior
    <3>5. \A s \in Rids : rows'[s].user = handler'[q].user
                             /\ rows'[s].status = "reserved" => Stale(s, handler[q].at)'
      BY <2>3, <2>4, <2>5, <3>1, <3>2 DEF IInv, HeldStable, Stale
    <3> QED
      BY <3>3, <3>4, <3>5
  <2> QED
    BY <2>8, <2>11, <2>12, <2>13, <2>14, <2>15, <2>16, <2>17 DEF IInv
<1> QED
  BY <1>0, <1>2, <1>3 DEF SettlePayment, Founding

-----------------------------------------------------------------------------
(* The provider, the administrator and the clock.                           *)

(* The provider only turns a request into a created order with its receipt. *)
LEMMA ExecutePostStep ==
  ASSUME IInv, NEW x \in inflight, NEW o \in OrderIds, ExecutePost(x, o)
  PROVE  IInv'
<1>1. PICK r \in Rids, offer \in Offers : x[2] = r /\ x[3] = offer
  BY DEF IInv, TypeOK
<1>2. PICK new \in Order : new = [receipt |-> r, offer |-> offer, status |-> "created"]
  BY DEF Order
<1>3. /\ inflight' = inflight \ {x} /\ orders' = [orders EXCEPT ![o] = new]
      /\ orders[o] = NoOrder /\ orders \in [OrderIds -> Order]
      /\ UNCHANGED <<campaign, now, rows, members, handler, opened>>
  BY <1>1, <1>2 DEF ExecutePost, IInv, TypeOK
<1>4. /\ orders'[o] = new /\ \A a \in OrderIds \ {o} : orders'[a] = orders[a]
      /\ orders[o].receipt = None
  BY <1>3 DEF NoOrder
<1>5. TypeOK'
  BY <1>3 DEF IInv, TypeOK, CampaignTypeOK
<1>6. Grows
  <2>1. \A a \in OrderIds : orders[a].receipt # None => orders'[a].receipt = orders[a].receipt
    BY <1>4
  <2> QED
    BY <1>3, <2>1 DEF Grows, Started
<1>7. HandlersSound'
  BY <1>3, <1>6, OtherHandlersSound DEF HandlersSound
<1>8. OrdersSound'
  <2>1. /\ OrdersSound /\ rows \in [Rids -> Row] /\ opened \subseteq OrderIds
        /\ \A q \in Rids : Started(q)' <=> Started(q)
    BY <1>3 DEF IInv, TypeOK, Started
  <2>2. Started(r) /\ offer = rows[r].offer
    BY <1>1, <2>1 DEF OrdersSound
  <2>3. \A q \in Rids : rows[q].order # None => rows[q].order # o
    BY <1>4, <2>1, CheckoutAssumption DEF OrdersSound
  <2>4. \A q \in Rids : rows[q].order # None => orders'[rows[q].order].receipt = q
    BY <1>4, <2>1, <2>3 DEF OrdersSound, Row
  <2>5. o \notin opened
    BY <1>3, <2>1 DEF OrdersSound
  <2>6. \A a \in OrderIds : orders'[a] # NoOrder =>
          /\ orders'[a].receipt \in Rids
          /\ Started(orders[a].receipt)'
          /\ orders'[a].offer = rows[orders'[a].receipt].offer
          /\ orders'[a].status \in {"attempted", "paid"} => a \in opened
    <3> SUFFICES ASSUME NEW a \in OrderIds, orders'[a] # NoOrder
                 PROVE  /\ orders'[a].receipt \in Rids
                        /\ Started(orders[a].receipt)'
                        /\ orders'[a].offer = rows[orders'[a].receipt].offer
                        /\ orders'[a].status \in {"attempted", "paid"} => a \in opened
      OBVIOUS
    <3>1. CASE a = o
      BY <1>2, <1>4, <2>1, <2>2, <3>1
    <3>2. CASE a # o
      BY <1>4, <2>1, <3>2 DEF OrdersSound
    <3> QED
      BY <3>1, <3>2
  <2>7. \A a \in opened : orders'[a] # NoOrder /\ rows[orders'[a].receipt].order = a
    BY <1>4, <2>1, <2>5 DEF OrdersSound
  <2>8. \A y \in inflight' : Started(y[2])' /\ y[3] = rows[y[2]].offer
    <3>1. \A y \in inflight : y[2] \in Rids /\ Started(y[2]) /\ y[3] = rows[y[2]].offer
      BY <2>1 DEF OrdersSound, IInv, TypeOK
    <3> QED
      BY <1>3, <2>1, <3>1
  <2> QED
    BY <1>3, <2>4, <2>6, <2>7, <2>8 DEF OrdersSound
<1>9. RowsSound' /\ OneReserved' /\ FirstPurchase' /\ MembersPaid' /\ HeldStable'
  BY <1>3 DEF IInv, RowsSound, OneReserved, FirstPurchase, MembersPaid, HeldStable,
              Started, HasPrior, Stale
<1> QED
  BY <1>5, <1>7, <1>8, <1>9 DEF IInv

(* Only the status of an order whose page a customer was given moves on.    *)
LEMMA PayStep ==
  ASSUME IInv, NEW o \in opened, NEW status \in {"attempted", "paid"},
         orders' = [orders EXCEPT ![o].status = status],
         UNCHANGED <<campaign, now, rows, members, handler, inflight, opened>>
  PROVE  IInv'
<1>1. o \in OrderIds /\ orders \in [OrderIds -> Order] /\ orders[o] \in Order
  BY DEF IInv, TypeOK
<1>2. PICK new \in Order : /\ new = [orders[o] EXCEPT !.status = status]
                           /\ new.receipt = orders[o].receipt
                           /\ new.offer = orders[o].offer /\ new.status = status
  BY <1>1 DEF Order
<1>3. orders' = [orders EXCEPT ![o] = new]
  BY <1>1, <1>2
<1>4. orders'[o] = new /\ \A a \in OrderIds \ {o} : orders'[a] = orders[a]
  BY <1>1, <1>3
<1>5. \A a \in OrderIds : /\ orders'[a].receipt = orders[a].receipt
                          /\ orders'[a].offer = orders[a].offer
  BY <1>2, <1>4
<1>6. TypeOK'
  BY <1>1, <1>3 DEF IInv, TypeOK, CampaignTypeOK
<1>7. Grows
  BY <1>5 DEF Grows, Started
<1>8. HandlersSound'
  BY <1>7, OtherHandlersSound DEF HandlersSound
<1>9. OrdersSound'
  <2>1. OrdersSound /\ (\A q \in Rids : Started(q)' <=> Started(q)) /\ opened \subseteq OrderIds
        /\ rows \in [Rids -> Row] /\ inflight \subseteq Procs \X Rids \X Offers
    BY DEF IInv, TypeOK, Started
  <2>2. \A a \in OrderIds : orders'[a] # NoOrder => orders[a] # NoOrder
    BY <1>4, <2>1 DEF OrdersSound
  <2>3. \A a \in OrderIds : orders'[a].status \in {"attempted", "paid"} /\ orders'[a] # NoOrder
                              => a \in opened
    BY <1>4, <2>1 DEF OrdersSound
  <2>4. \A a \in OrderIds : orders'[a] # NoOrder =>
          /\ orders'[a].receipt \in Rids
          /\ Started(orders[a].receipt)'
          /\ orders'[a].offer = rows[orders'[a].receipt].offer
    BY <1>5, <2>1, <2>2 DEF OrdersSound
  <2>5. \A q \in Rids : rows[q].order # None => orders'[rows[q].order].receipt = q
    BY <1>5, <2>1 DEF OrdersSound, Row
  <2>6. \A a \in opened : orders'[a] # NoOrder /\ rows[orders'[a].receipt].order = a
    <3>1. orders'[o] # NoOrder
      BY <1>2, <1>4 DEF NoOrder
    <3>2. \A a \in opened : orders'[a] # NoOrder
      BY <1>4, <2>1, <3>1 DEF OrdersSound
    <3> QED
      BY <1>5, <2>1, <3>2 DEF OrdersSound
  <2>7. \A y \in inflight : Started(y[2])' /\ y[3] = rows[y[2]].offer
    BY <2>1 DEF OrdersSound
  <2> QED
    BY <2>3, <2>4, <2>5, <2>6, <2>7 DEF OrdersSound
<1>10. RowsSound' /\ OneReserved' /\ FirstPurchase' /\ MembersPaid' /\ HeldStable'
  BY DEF IInv, RowsSound, OneReserved, FirstPurchase, MembersPaid, HeldStable,
         Started, HasPrior, Stale
<1> QED
  BY <1>6, <1>8, <1>9, <1>10 DEF IInv

(* An edit of the campaign row and the passing of time touch no quote.      *)
LEMMA CampaignStep ==
  ASSUME IInv, CampaignTypeOK', UNCHANGED checkoutVars
  PROVE  IInv'
<1>1. TypeOK'
  BY DEF IInv, TypeOK, checkoutVars
<1>2. HandlersSound' /\ RowsSound' /\ OrdersSound'
  BY DEF IInv, HandlersSound, HandlerSound, RowsSound, OrdersSound, Started, checkoutVars
<1>3. OneReserved' /\ FirstPurchase' /\ MembersPaid' /\ HeldStable'
  BY DEF IInv, OneReserved, FirstPurchase, MembersPaid, HeldStable, Started, HasPrior,
         Stale, checkoutVars
<1> QED
  BY <1>1, <1>2, <1>3 DEF IInv

-----------------------------------------------------------------------------
(* IInv is inductive.                                                       *)


(* The initial state satisfies IInv.                                        *)
LEMMA InitIInv == Init => IInv
<1> SUFFICES ASSUME Init PROVE IInv
  OBVIOUS
<1>1. CampaignTypeOK
  BY CampaignAssumption DEF Init, CampaignInit, CampaignTypeOK, CampaignRow, States
<1>2. FreeRow \in Row
  BY <1>1, CampaignAssumption, CheckoutAssumption DEF FreeRow, Row
<1>3. NoOrder \in Order
  BY DEF NoOrder, Order
<1>4. TypeOK
  BY <1>1, <1>2, <1>3, IdleType DEF Init, TypeOK
<1>5. HandlersSound
  BY IdleSound DEF Init, HandlersSound, HandlerSound, Idle, Dispatched
<1>6. RowsSound
  BY DEF Init, RowsSound, FreeRow, Started
<1>7. OrdersSound
  BY DEF Init, OrdersSound, FreeRow
<1>8. OneReserved /\ FirstPurchase
  BY DEF Init, OneReserved, FirstPurchase, FreeRow
<1>9. HeldStable /\ MembersPaid
  BY IdleSound DEF Init, HeldStable, MembersPaid
<1> QED
  BY <1>4, <1>5, <1>6, <1>7, <1>8, <1>9 DEF IInv

(* Every handler step keeps IInv.                                           *)
LEMMA StepIInv ==
  ASSUME IInv, NEW p \in Procs, Step(p)
  PROVE  IInv'
<1>1. CASE \E u \in Users, product \in Products : CreateOrder(p, u, product)
  BY <1>1, CreateOrderStep
<1>2. CASE \E r \in Rids : VerifyPayment(p, r)
  BY <1>2, VerifyPaymentStep
<1>3. CASE Reserve(p)
  BY <1>3, ReserveStep
<1>4. CASE AllocateFounder(p)
  BY <1>4, AllocateFounderStep
<1>5. CASE ClaimDispatch(p)
  BY <1>5, ClaimDispatchStep
<1>6. CASE SendPost(p)
  BY <1>6, SendPostStep
<1>7. CASE \E o \in OrderIds : PostReply(p, o)
  BY <1>7, PostReplyStep
<1>8. CASE LookUp(p)
  BY <1>8, LookUpStep
<1>9. CASE CallFails(p)
  BY <1>9, UnresolvedStep DEF CallFails, Dispatched
<1>10. CASE RecordUncertain(p)
  BY <1>10, RecordUncertainStep
<1>11. CASE AttachOrder(p)
  BY <1>11, AttachOrderStep
<1>12. CASE FetchEvidence(p)
  BY <1>12, FetchEvidenceStep
<1>13. CASE SettlePayment(p)
  BY <1>13, SettlePaymentStep
<1>14. CASE Crash(p)
  BY <1>14, DoneStep DEF Crash
<1> QED
  BY <1>1, <1>2, <1>3, <1>4, <1>5, <1>6, <1>7, <1>8, <1>9, <1>10, <1>11, <1>12,
     <1>13, <1>14 DEF Step

(* Every step keeps IInv.                                                   *)
LEMMA NextIInv == IInv /\ [Next]_vars => IInv'
<1> SUFFICES ASSUME IInv, [Next]_vars PROVE IInv'
  OBVIOUS
<1>1. CASE \E p \in Procs : Step(p)
  BY <1>1, StepIInv
<1>2. CASE \E r \in Rids : CancelReservation(r)
  BY <1>2, CancelReservationStep
<1>3. CASE \E x \in inflight, o \in OrderIds : ExecutePost(x, o)
  BY <1>3, ExecutePostStep
<1>4. CASE \E o \in OrderIds : AttemptPayment(o) \/ CapturePayment(o)
  BY <1>4, PayStep DEF AttemptPayment, CapturePayment
<1>5. CASE Administer
  <2>1. PICK v \in 1..campaign.version, c \in Changes : UpdateCampaign(v, c)
    BY <1>5 DEF Administer
  <2>2. CampaignTypeOK'
    BY <2>1, EditKeepsCampaignType DEF IInv, TypeOK
  <2> QED
    BY <1>5, <2>2, CampaignStep DEF Administer
<1>6. CASE PassTime
  <2>1. CampaignTypeOK'
    BY <1>6, CampaignAssumption DEF PassTime, Tick, IInv, TypeOK, CampaignTypeOK
  <2> QED
    BY <1>6, <2>1, CampaignStep DEF PassTime
<1>7. CASE UNCHANGED vars
  BY <1>7, CampaignStep DEF vars, checkoutVars, IInv, TypeOK, CampaignTypeOK
<1> QED
  BY <1>1, <1>2, <1>3, <1>4, <1>5, <1>6, <1>7 DEF Next

(* The invariant behind every safety theorem of checkout: see IInv.         *)
THEOREM Invariant == Spec => []IInv
<1> QED
  BY InitIInv, NextIInv, PTL DEF Spec

(* The tables, handlers, requests and orders of checkout keep their types.  *)
THEOREM TypeCorrect == Spec => []TypeOK
<1>1. IInv => TypeOK
  BY DEF IInv
<1> QED
  BY <1>1, Invariant, PTL

(* A founding member's record is always the verified quote of that user.    *)
THEOREM MembersHavePaid == Spec => []MembersPaid
<1>1. IInv => MembersPaid
  BY DEF IInv
<1> QED
  BY <1>1, Invariant, PTL

(* No order or request outlives the quote, the price or the founder slot it *)
(* was made for.                                                            *)
THEOREM OrdersAreBacked == Spec => []OrdersBacked
<1>1. ASSUME IInv PROVE OrdersBacked
  <2> DEFINE backed(r, offer) ==
        /\ rows[r].status \in {"reserved", "verified"} /\ Started(r)
        /\ rows[r].offer = offer
        /\ offer \in FounderOffers => FounderOffer(rows[r].position) = offer
                                      /\ rows[r].position # NoPosition
  <2>1. \A r \in Rids : Started(r) => backed(r, rows[r].offer)
    BY <1>1 DEF IInv, RowsSound
  <2> HIDE DEF backed
  <2>2. \A x \in inflight : x[2] \in Rids /\ Started(x[2]) /\ x[3] = rows[x[2]].offer
    BY <1>1 DEF IInv, TypeOK, OrdersSound
  <2>3. \A o \in OrderIds : orders[o] # NoOrder =>
          /\ orders[o].receipt \in Rids /\ Started(orders[o].receipt)
          /\ orders[o].offer = rows[orders[o].receipt].offer
    BY <1>1 DEF IInv, OrdersSound
  <2>4. (\A x \in inflight : backed(x[2], x[3]))
        /\ (\A o \in OrderIds : orders[o] # NoOrder => backed(orders[o].receipt, orders[o].offer))
    BY <2>1, <2>2, <2>3
  <2> QED
    BY <2>4 DEF OrdersBacked, backed
<1> QED
  BY <1>1, Invariant, PTL

(* A customer never has two live first-purchase prices.                     *)
THEOREM IntroductionOnce == Spec => []OneIntroduction
<1>1. ASSUME IInv PROVE OneIntroduction
  <2> SUFFICES ASSUME NEW r \in Rids, NEW q \in Rids, r # q,
                      rows[r].user = rows[q].user,
                      rows[r].offer \in Introductory, rows[q].offer \in Introductory,
                      \A s \in {r, q} : rows[s].status = "verified" \/ Active(s, now)
               PROVE  FALSE
    BY DEF OneIntroduction
  <2>1. rows[r].status \in {"verified", "reserved"} /\ rows[q].status \in {"verified", "reserved"}
    BY DEF Active
  <2> QED
    BY <1>1, <2>1 DEF IInv, OneReserved, FirstPurchase
<1> QED
  BY <1>1, Invariant, PTL

(* A captured payment's quote is paid by it, or verification still accepts  *)
(* it: no capture is stranded by expiry, cancellation or another purchase.  *)
THEOREM NoStrandedCapture == Spec => []CapturesSettle
<1>1. ASSUME IInv PROVE CapturesSettle
  <2> SUFFICES ASSUME NEW o \in OrderIds, orders[o].status = "paid"
               PROVE  \E r \in Rids :
                        /\ rows[r].order = o
                        /\ (rows[r].status = "verified" /\ rows[r].payment = o) \/ Verifiable(r)
    BY DEF CapturesSettle
  <2> DEFINE r == orders[o].receipt
  <2>1. orders[o] # NoOrder
    BY DEF NoOrder
  <2>2. r \in Rids /\ Started(r) /\ o \in opened
    BY <1>1, <2>1 DEF IInv, OrdersSound
  <2>3. rows[r].order = o
    BY <1>1, <2>2 DEF IInv, OrdersSound
  <2>4. rows[r].status \in {"reserved", "verified"} /\ rows[r].user \in Users
    BY <1>1, <2>2 DEF IInv, RowsSound
  <2>5. CASE rows[r].status = "verified"
    BY <1>1, <2>2, <2>3, <2>5 DEF IInv, RowsSound
  <2>6. CASE rows[r].status = "reserved"
    <3>1. ~Stale(r, now)
      BY <2>2 DEF Stale
    <3>2. rows[r].offer \in FounderOffers => rows[r].position # NoPosition
      BY <1>1, <2>2, <2>6 DEF IInv, RowsSound
    <3>3. rows[r].offer \in FounderOffers => members[rows[r].user] = NoClaim
      <4> SUFFICES ASSUME rows[r].offer \in FounderOffers, members[rows[r].user] # NoClaim
                   PROVE  FALSE
        OBVIOUS
      <4> DEFINE q == members[rows[r].user].rid
      <4>1. /\ q \in Rids /\ rows[q].user = rows[r].user /\ rows[q].status = "verified"
        <5> DEFINE u == rows[r].user
        <5>1. members[u] \in Claim /\ u \in Users
          BY <1>1, <2>4 DEF IInv, TypeOK
        <5>2. q \in Rids
          BY <5>1 DEF Claim
        <5>3. MembersPaid
          BY <1>1 DEF IInv
        <5> HIDE DEF u
        <5> QED BY <5>1, <5>2, <5>3 DEF MembersPaid, u
      <4>2. rows[r].offer \in Introductory
        BY DEF Introductory, Offers, FounderOffers
      <4> HIDE DEF q, r
      <4> QED
        BY <1>1, <2>2, <2>6, <4>1, <4>2 DEF IInv, FirstPurchase
    <3>4. Verifiable(r)
      BY <2>6, <3>1, <3>2, <3>3 DEF Verifiable, NoClaim
    <3> QED
      BY <2>2, <2>3, <3>4
  <2> QED
    BY <2>4, <2>5, <2>6
<1> QED
  BY <1>1, Invariant, PTL
=============================================================================
