---------------------------- MODULE RefundProofs ----------------------------
(***************************************************************************)
(* Proofs about what the records of refunds say: a view of a payment's      *)
(* refunds that a handler holds may be stale, but all of them, and what is  *)
(* on record, are stages of one history.  From that: nothing is closed or   *)
(* set aside that is not known, and the plan is to be had as it was paid;   *)
(* and that Reversal implements PrepaidPlan.                                *)
(***************************************************************************)
EXTENDS ReversalProofs

(* Amounts of finitely many refunds.                                        *)
Issued == {r \in RefundIds : refund[r].status # "none"}

LEMMA AmountGrows ==
  ASSUME IsFiniteSet(Issued), NEW R, NEW S, R \subseteq Issued, S \subseteq R
  PROVE  Amount(R) \in Nat /\ Amount(S) \in Nat /\ Amount(S) <= Amount(R)
<1> DEFINE X(T) == {x \in T \X (1..Price) : x[2] <= refund[x[1]].amount}
<1>1. IsFiniteSet(R \X (1..Price))
  <2>1. IsFiniteSet(R) /\ IsFiniteSet(1..Price)
    BY FS_Subset, FS_Interval, ReversalAssumption
  <2> QED BY <2>1, FS_Product
<1>2. X(R) \in SUBSET (R \X (1..Price)) /\ X(S) \in SUBSET X(R)
  OBVIOUS
<1>3. Amount(R) = Cardinality(X(R)) /\ Amount(S) = Cardinality(X(S))
  BY DEF Amount
<1> HIDE DEF X
<1>4. IsFiniteSet(X(R)) /\ IsFiniteSet(X(S)) /\ Cardinality(X(S)) <= Cardinality(X(R))
  BY <1>1, <1>2, FS_Subset
<1> QED BY <1>3, <1>4, FS_CardinalityType

LEMMA AmountStays ==
  ASSUME NEW R, \A r \in R : refund'[r].amount = refund[r].amount PROVE Amount(R)' = Amount(R)
<1>1. {x \in R \X (1..Price) : x[2] <= refund'[x[1]].amount} = {x \in R \X (1..Price) : x[2] <= refund[x[1]].amount}
  OBVIOUS
<1> QED BY <1>1 DEF Amount

LEMMA NothingAmounts == Amount({}) = 0
<1>1. {x \in {} \X (1..Price) : x[2] <= refund[x[1]].amount} = {}
  OBVIOUS
<1> QED BY <1>1, FS_EmptySet DEF Amount
-----------------------------------------------------------------------------
(* What is seen of a payment's refunds: by the provider itself, on record,  *)
(* and by every handler that has read and not yet written.                  *)
Lists == UNION {[S -> Settlements] : S \in SUBSET RefundIds}

Looking(h, p) ==
  \/ handler[h].pc \in {"refund", "refunded"} /\ handler[h].of = p
  \/ handler[h].pc \in Settlements /\ handler[h].of \in RefundIds /\ refund[handler[h].of].of = p

Noted(p)  == [r \in Known(p) |-> observed[r]]
Views(p)  == {handler[h].ev : h \in {k \in Handlers : Looking(k, p)}}
Sights(p) == {Inventory(p), Noted(p)} \cup Views(p)

Processed(e) == {r \in DOMAIN e : e[r] = "processed"}

(* One view is an earlier stage of another.                                 *)
Before(e, f) == \A r \in DOMAIN e : r \in DOMAIN f /\ (e[r] = "pending" \/ f[r] = e[r])

Latest  == \A p \in Payments : \A e \in Sights(p) : e \in Lists /\ Before(e, Inventory(p))
InOrder == \A p \in Payments : \A e, f \in Sights(p) : Before(e, f) \/ Before(f, e)

(* A handler woken by a receipt read after the provider had sent it.        *)
Delivered == \A h \in Handlers, rc \in RefundReceipts : handler[h].pc = rc[2] /\ handler[h].of = rc[1] =>
  rc[1] \in DOMAIN handler[h].ev /\ (rc[2] = "pending" \/ handler[h].ev[rc[1]] = rc[2])
Arrived == \A rc \in RefundReceipts : refundInbox[rc] # "none" =>
  refund[rc[1]].status # "none" /\ (rc[2] = "pending" \/ refund[rc[1]].status = rc[2])
Traced == \A r \in RefundIds : observed[r] # "none" => refund[r].status # "none"

SightIInv == Latest /\ InOrder /\ Delivered /\ Arrived /\ Traced

LEMMA SightsAre ==
  ASSUME NEW p, NEW e
  PROVE  e \in Sights(p) <=> \/ e = Inventory(p) \/ e = Noted(p)
                             \/ \E h \in Handlers : Looking(h, p) /\ e = handler[h].ev
  BY DEF Sights, Views

LEMMA ListsAre ==
  ASSUME NEW e, NEW S \in SUBSET RefundIds, e \in [S -> Settlements] PROVE e \in Lists
  BY DEF Lists

LEMMA OfLists ==
  ASSUME NEW e \in Lists
  PROVE  DOMAIN e \subseteq RefundIds /\ e = [r \in DOMAIN e |-> e[r]] /\ \A r \in DOMAIN e : e[r] \in Settlements
  BY DEF Lists

(* Where handlers look.                                                     *)
Elsewhere(s) == s.pc \notin {"refund", "refunding", "refunded"} /\ ~Reviews(s)

Sees(k) ==
  LET s == handler'[k] IN
  \/ Elsewhere(s)
  \/ \E p \in Payments :
       /\ s.of = p
       /\ \/ s.pc = "refund" /\ s.ev = Inventory(p) /\ OnFile(p)
          \/ s.pc = "refunding" /\ handler[k].pc = "refund" /\ handler[k].of = p
          \/ s.pc = "refunded" /\ s.ev = Inventory(p) /\ handler[k].pc = "refunding" /\ handler[k].of = p
  \/ \E rc \in RefundReceipts :
       /\ s.of = rc[1] /\ s.pc = rc[2] /\ s.ev = Inventory(refund[rc[1]].of)
       /\ refundInbox[rc] = "pending" /\ OnFile(refund[rc[1]].of)

LEMMA GoesElsewhere ==
  ASSUME TypeIInv, NEW h \in Handlers
  PROVE  /\ Ends(h) => Elsewhere(handler'[h])
         /\ \A t \in {"dispatch", "lookup", "stop"} : \A x : Becomes(h, [Idle EXCEPT !.pc = t, !.of = x]) => Elsewhere(handler'[h])
         /\ \A t \in {"attach", "cancel", "stopped", "stop receipt", "charge", "halted", "refund unknown"} : \A x, e :
              Becomes(h, [pc |-> t, of |-> x, ev |-> e]) /\ (t = "halted" => x \in Cycles) => Elsewhere(handler'[h])
         /\ \A x \in Cycles : \A e : Becomes(h, [pc |-> "pending", of |-> x, ev |-> e]) => Elsewhere(handler'[h])
<1>0. DOMAIN handler = Handlers
  BY DEF TypeIInv
<1>1. ASSUME Ends(h) PROVE Elsewhere(handler'[h])
  <2>1. handler'[h] = Idle
    BY <1>0, <1>1, BecomesThat DEF Ends
  <2> QED BY <2>1 DEF Elsewhere, Reviews, Settlements, Idle
<1>2. ASSUME NEW t \in {"dispatch", "lookup", "stop"}, NEW x, Becomes(h, [Idle EXCEPT !.pc = t, !.of = x])
      PROVE  Elsewhere(handler'[h])
  <2>1. handler'[h].pc = t
    BY <1>0, <1>2, BecomesIdle
  <2> QED BY <2>1 DEF Elsewhere, Reviews, Settlements
<1>3. ASSUME NEW t \in {"attach", "cancel", "stopped", "stop receipt", "charge", "halted", "refund unknown", "pending"},
             NEW x, NEW e, Becomes(h, [pc |-> t, of |-> x, ev |-> e]), t \in {"halted", "pending"} => x \in Cycles
      PROVE  Elsewhere(handler'[h])
  <2>1. handler'[h].pc = t /\ handler'[h].of = x
    BY <1>0, <1>3, BecomesThere
  <2> QED BY <1>3, <2>1, ReversalAssumption DEF Elsewhere, Reviews, Settlements
<1> QED BY <1>1, <1>2, <1>3

LEMMA ReadsSee ==
  ASSUME TypeIInv, NEW h \in Handlers, Reads(h) PROVE Sees(h)
<1>0. DOMAIN handler = Handlers
  BY DEF TypeIInv
<1>1. CASE Dies(h)
  BY <1>1, GoesElsewhere, Zenon DEF Dies, Sees
<1>2. ASSUME NEW m \in Mandates, EnrolAgain(h, m) PROVE Sees(h)
  <2>1. \E t \in {"dispatch", "lookup", "stop"} : Becomes(h, [Idle EXCEPT !.pc = t, !.of = <<m, 0>>])
    <3>1. "dispatch" \in {"dispatch", "lookup", "stop"} /\ "lookup" \in {"dispatch", "lookup", "stop"}
      OBVIOUS
    <3>2. CASE Unsent(m)
      BY <1>2, <3>1, <3>2, Zenon DEF EnrolAgain
    <3>3. CASE ~Unsent(m)
      BY <1>2, <3>1, <3>3, Zenon DEF EnrolAgain
    <3> QED BY <3>2, <3>3
  <2> QED BY <2>1, GoesElsewhere, Zenon DEF Sees
<1>3. ASSUME NEW m \in Mandates,
             FetchEnrolment(h, m) \/ CancelRequested(h, m) \/ \E ok \in BOOLEAN : CancelReplied(h, m, ok)
      PROVE  Sees(h)
  <2>1. \E t \in {"attach", "cancel", "stopped"} : \E e : Becomes(h, [pc |-> t, of |-> <<m, 0>>, ev |-> e])
    BY <1>3, Zenon DEF FetchEnrolment, CancelRequested, CancelReplied
  <2>2. PICK t \in {"attach", "cancel", "stopped"} : \E e : Becomes(h, [pc |-> t, of |-> <<m, 0>>, ev |-> e])
    BY <2>1
  <2>3. t # "halted" /\ t \in {"attach", "cancel", "stopped", "stop receipt", "charge", "halted", "refund unknown"}
    BY <2>2
  <2> QED BY <2>2, <2>3, GoesElsewhere, Zenon DEF Sees
<1>4. ASSUME NEW c \in Cycles, FetchCharge(h, c, Refunded(c)) \/ \E r \in Failures(c) : FetchFailure(h, r) PROVE Sees(h)
  <2>1. PICK t \in {"charge", "pending", "halted"} : \E e : Becomes(h, [pc |-> t, of |-> c, ev |-> e])
    <3>1. \A r \in Failures(c) : r.of = c /\ r.type \in {"pending", "halted"}
      BY DEF Failures
    <3> QED BY <1>4, <3>1, Zenon DEF FetchCharge, FetchFailure
  <2>2. CASE t = "pending"
    BY <2>1, <2>2, GoesElsewhere, Zenon DEF Sees
  <2>3. CASE t # "pending"
    <3>1. t \in {"attach", "cancel", "stopped", "stop receipt", "charge", "halted", "refund unknown"}
      BY <2>1, <2>3
    <3> QED BY <2>1, <3>1, GoesElsewhere, Zenon DEF Sees
  <2> QED BY <2>2, <2>3
<1>5. ASSUME NEW p \in Payments, RefundRead(h, p) PROVE Sees(h)
  <2>1. Becomes(h, [pc |-> "refund", of |-> p, ev |-> Inventory(p)]) /\ OnFile(p)
    BY <1>5, Zenon DEF RefundRead
  <2>2. handler'[h].pc = "refund" /\ handler'[h].of = p /\ handler'[h].ev = Inventory(p)
    BY <1>0, <2>1, BecomesThere
  <2> QED BY <2>1, <2>2 DEF Sees
<1>6. ASSUME NEW p \in Payments, RefundReplied(h, p) PROVE Sees(h)
  <2>1. handler[h].pc = "refunding" /\ handler[h].of = p
    BY <1>6, Zenon DEF RefundReplied
  <2>2. CASE Becomes(h, [pc |-> "refunded", of |-> p, ev |-> Inventory(p)])
    <3>1. handler'[h].pc = "refunded" /\ handler'[h].of = p /\ handler'[h].ev = Inventory(p)
      BY <1>0, <2>2, BecomesThere
    <3> QED BY <2>1, <3>1 DEF Sees
  <2>3. CASE Becomes(h, [pc |-> "refund unknown", of |-> p, ev |-> NotFetched])
    <3>1. /\ "refund unknown" \in {"attach", "cancel", "stopped", "stop receipt", "charge", "halted", "refund unknown"}
          /\ "refund unknown" # "halted"
      OBVIOUS
    <3> QED BY <2>3, <3>1, GoesElsewhere, Zenon DEF Sees
  <2> QED BY <1>6, <2>2, <2>3, Zenon DEF RefundReplied
<1>7. ASSUME NEW rc \in RefundReceipts, FetchRefundReceipt(h, rc) PROVE Sees(h)
  <2>1. /\ Becomes(h, [pc |-> rc[2], of |-> rc[1], ev |-> Inventory(refund[rc[1]].of)])
        /\ refundInbox[rc] = "pending" /\ OnFile(refund[rc[1]].of)
    BY <1>7, Zenon DEF FetchRefundReceipt
  <2>2. handler'[h].pc = rc[2] /\ handler'[h].of = rc[1] /\ handler'[h].ev = Inventory(refund[rc[1]].of)
    BY <1>0, <2>1, BecomesThere
  <2>3. \E x \in RefundReceipts :
          /\ handler'[h].of = x[1] /\ handler'[h].pc = x[2] /\ handler'[h].ev = Inventory(refund[x[1]].of)
          /\ refundInbox[x] = "pending" /\ OnFile(refund[x[1]].of)
    BY <2>1, <2>2
  <2> QED BY <2>3, Zenon DEF Sees
<1> QED BY <1>1, <1>2, <1>3, <1>4, <1>5, <1>6, <1>7, Zenon DEF Reads

LEMMA WritesSee ==
  ASSUME TypeIInv, NEW h \in Handlers, Writes(h)
  PROVE  (UNCHANGED handler \/ Sees(h)) /\ UNCHANGED refund
<1>0. DOMAIN handler = Handlers
  BY DEF TypeIInv
<1>1. ASSUME Ends(h) PROVE Sees(h)
  BY <1>1, GoesElsewhere, Zenon DEF Sees
<1>2. ASSUME NEW t \in {"dispatch", "lookup", "stop"}, NEW x, Becomes(h, [Idle EXCEPT !.pc = t, !.of = x]) PROVE Sees(h)
  BY <1>2, GoesElsewhere, Zenon DEF Sees
<1>3. "dispatch" \in {"dispatch", "lookup", "stop"} /\ "lookup" \in {"dispatch", "lookup", "stop"}
      /\ "stop" \in {"dispatch", "lookup", "stop"}
  OBVIOUS
<1>4. ASSUME NEW m \in Mandates, EnrolNew(h, m) \/ ClaimDispatch(h, m) \/ EnrolmentUncertain(h, m) \/ Attach(h, m)
      PROVE  Sees(h)
  BY <1>1, <1>2, <1>3, <1>4, Zenon DEF EnrolNew, ClaimDispatch, EnrolmentUncertain, Attach
<1>5. ASSUME NEW c \in Cycles, ApplyCharge(h, c) \/ \E r \in Failures(c), g \in Grace : ApplyFailure(h, r, g) PROVE Sees(h)
  BY <1>1, <1>5, Zenon DEF ApplyCharge, ApplyFailure
<1>6. ASSUME NEW m \in Mandates, Cancels(h, m) PROVE UNCHANGED handler \/ Sees(h)
  <2>1. CASE Becomes(h, [pc |-> "stop receipt", of |-> <<m, 0>>, ev |-> Status(m)])
    <3>1. /\ "stop receipt" \in {"attach", "cancel", "stopped", "stop receipt", "charge", "halted", "refund unknown"}
          /\ "stop receipt" # "halted"
      OBVIOUS
    <3> QED BY <2>1, <3>1, GoesElsewhere, Zenon DEF Sees
  <2> QED BY <1>1, <1>2, <1>3, <1>6, <2>1, CancelMoves, Zenon
<1>7. ASSUME NEW p \in Payments, RefundRecorded(h, p) \/ \E amount \in 1..Price : RefundDispatched(h, p, amount)
      PROVE  Sees(h)
  <2>1. CASE Becomes(h, [Idle EXCEPT !.pc = "refunding", !.of = p]) /\ handler[h].pc = "refund" /\ handler[h].of = p
    <3>1. handler'[h].pc = "refunding" /\ handler'[h].of = p
      BY <1>0, <2>1, BecomesIdle
    <3> QED BY <2>1, <3>1 DEF Sees
  <2> QED BY <1>1, <1>7, <2>1, RefundMoves, Zenon
<1>8. ASSUME NEW rc \in RefundReceipts, ApplyRefundReceipt(h, rc) PROVE Sees(h)
  BY <1>1, <1>8, ReceiptMoves, Zenon
<1>9. UNCHANGED handler \/ Sees(h)
  BY <1>4, <1>5, <1>6, <1>7, <1>8, Zenon DEF Writes, Cancels
<1>10. UNCHANGED refund
  <2>1. UNCHANGED refundVars => UNCHANGED refund
    BY DEF refundVars
  <2>2. \A m \in Mandates : Cancels(h, m) => UNCHANGED refundVars
    BY CancelMoves, Zenon
  <2> QED BY <2>1, <2>2, RefundMoves, ReceiptMoves, Zenon DEF Writes, Cancels
<1> QED BY <1>9, <1>10

(* Handlers look and write only while the provider's refunds stand still.   *)
LEMMA HandlersLook ==
  ASSUME TypeIInv, Steps, UNCHANGED refund
  PROVE  \A k \in Handlers : handler'[k] = handler[k] \/ Sees(k)
<1>1. ASSUME NEW h \in Handlers, Reads(h) \/ Writes(h), NEW k \in Handlers PROVE handler'[k] = handler[k] \/ Sees(k)
  <2>1. CASE k = h
    <3>1. UNCHANGED handler => handler'[k] = handler[k]
      OBVIOUS
    <3> QED BY <1>1, <2>1, <3>1, ReadsSee, WritesSee, Zenon
  <2>2. CASE k # h /\ Reads(h)
    BY <2>2, ReadsBooks DEF TypeIInv
  <2>3. CASE k # h /\ Writes(h)
    <3>1. k \in Handlers \ {h}
      BY <2>3
    <3> QED BY <2>3, <3>1, WritesArrives, Zenon
  <2> QED BY <1>1, <2>1, <2>2, <2>3
<1>2. ASSUME NEW c \in Cycles, NEW r \in Failures(c), RejectFailure(r) PROVE UNCHANGED handler
  BY <1>2, Zenon DEF RejectFailure
<1>3. ASSUME ProviderActs PROVE UNCHANGED handler
  <2>1. ASSUME NEW r \in RefundIds, (\E p \in Payments : ProviderRefunds(r, p))
                                    \/ \E s \in {"processed", "failed"} : RefundSettles(r, s)
        PROVE  UNCHANGED handler
    BY <2>1, ProviderRefundMoves DEF vars
  <2> QED BY <1>3, <2>1, ProviderMoves, Zenon DEF ProviderActs
<1>4. UNCHANGED handler => \A k \in Handlers : handler'[k] = handler[k]
  OBVIOUS
<1> QED BY <1>1, <1>2, <1>3, <1>4, Zenon DEF Steps

(* What a step does to the records of refunds.                              *)
Woken(h, rc) == handler[h].pc = rc[2] /\ handler[h].of = rc[1]

Rewrites(p) == \E i : /\ intent' = [intent EXCEPT ![p] = i]
                      /\ i.state = "external" => intent[p].state = "external"

Notices(h, p) == /\ Notes(h, p)
                 /\ \/ UNCHANGED refundInbox
                    \/ \E rc \in RefundReceipts : Woken(h, rc) /\ SettleRefund(rc, "processed")

SetsAside(h, rc) == /\ UNCHANGED <<intent, observed>> /\ Woken(h, rc)
                    /\ Regresses(handler[h].ev) /\ SettleRefund(rc, "quarantined")

Issuing(r, p, n) == /\ UNCHANGED <<vars, intent, observed>> /\ n \in 1..Returnable(p)
                    /\ \E ours \in BOOLEAN : Issues(r, p, n, ours) /\ (ours => p \in refundPost)
                    /\ refundInbox' = [refundInbox EXCEPT ![<<r, "pending">>] = "pending"]

Concluding(r, s) == /\ UNCHANGED <<vars, intent, observed>> /\ Concludes(r, s)
                    /\ refundInbox' = [refundInbox EXCEPT ![<<r, s>>] = "pending"]

LEMMA RefundKinds ==
  ASSUME TypeIInv, Steps
  PROVE  \/ /\ UNCHANGED refund
            /\ \/ UNCHANGED <<intent, observed, refundInbox>>
               \/ UNCHANGED <<observed, refundInbox, sub, mandate, cycles, recovery>> /\ \E p \in Payments : Rewrites(p)
               \/ \E h \in Handlers, p \in Payments : Notices(h, p)
               \/ \E h \in Handlers, rc \in RefundReceipts : SetsAside(h, rc)
         \/ \E r \in RefundIds, p \in Payments, n \in 1..Price : Issuing(r, p, n)
         \/ \E r \in RefundIds, s \in {"processed", "failed"} : Concluding(r, s)
<1>0. RefundTypeOK
  BY DEF TypeIInv
<1> DEFINE Still == UNCHANGED <<refund, intent, observed, refundInbox>>
<1>1. ASSUME NEW h \in Handlers, Reads(h) PROVE Still
  BY <1>1, ReadsBooks DEF Books, refundVars
<1>2. UNCHANGED refundVars => Still
  BY DEF refundVars
<1>3. ASSUME NEW h \in Handlers, NEW m \in Mandates, Cancels(h, m) PROVE Still
  BY <1>2, <1>3, CancelMoves, Zenon
<1>4. ASSUME NEW h \in Handlers, NEW p \in Payments,
             RefundRecorded(h, p) \/ \E amount \in 1..Price : RefundDispatched(h, p, amount)
      PROVE  \/ Still
             \/ UNCHANGED <<refund, observed, refundInbox, sub, mandate, cycles, recovery>> /\ Rewrites(p)
             \/ UNCHANGED refund /\ Notices(h, p)
  <2>1. UNCHANGED <<mandate, cycles, recovery, claim, refund, refundInbox>>
    BY <1>4, RefundMoves, Zenon
  <2>2. CASE Requests(p)
    <3>1. PICK amount \in 1..Price : intent' = [intent EXCEPT ![p] = [state |-> "sending", amount |-> amount, bound |-> None]]
      BY <2>2 DEF Requests
    <3>2. [state |-> "sending", amount |-> amount, bound |-> None].state # "external"
      OBVIOUS
    <3>3. Rewrites(p)
      BY <3>1, <3>2, Zenon DEF Rewrites
    <3> QED BY <2>1, <2>2, <3>3 DEF Requests
  <2>3. CASE UNCHANGED <<observed, sub>> /\ intent' = [intent EXCEPT ![p] = Doubtful(intent[p])]
    <3>1. Doubtful(intent[p]).state = "external" => intent[p].state = "external"
      BY <1>0 DEF Doubtful, RefundTypeOK, Intents
    <3> QED BY <2>1, <2>3, <3>1 DEF Rewrites
  <2>4. CASE Records(h, p)
    BY <2>1, <2>4 DEF Notices, Notes
  <2>5. CASE UNCHANGED <<intent, observed, sub>>
    BY <2>1, <2>5
  <2> HIDE DEF Still
  <2> QED BY <1>4, <2>2, <2>3, <2>4, <2>5, RefundMoves, Zenon
<1>5. ASSUME NEW h \in Handlers, NEW rc \in RefundReceipts, ApplyRefundReceipt(h, rc)
      PROVE  \/ Still
             \/ UNCHANGED refund /\ \E p \in Payments : Notices(h, p)
             \/ UNCHANGED refund /\ SetsAside(h, rc)
  <2>1. UNCHANGED <<mandate, cycles, recovery, claim, refund>> /\ Woken(h, rc)
    BY <1>5, ReceiptMoves, Zenon DEF Woken
  <2>2. refund[rc[1]].of \in Payments
    BY <1>0 DEF RefundReceipts, RefundTypeOK, Refunds
  <2>3. CASE UNCHANGED <<observed, intent, sub>> /\ SettleRefund(rc, "quarantined") /\ Regresses(handler[h].ev)
    BY <2>1, <2>3 DEF SetsAside
  <2>4. CASE Records(h, refund[rc[1]].of) /\ SettleRefund(rc, "processed")
    <3>1. Notices(h, refund[rc[1]].of)
      BY <2>1, <2>4 DEF Notices, Notes
    <3> QED BY <2>1, <2>2, <3>1
  <2>5. CASE UNCHANGED <<observed, intent, sub, refundInbox>>
    BY <2>1, <2>5
  <2> HIDE DEF Still
  <2> QED BY <1>5, <2>3, <2>4, <2>5, ReceiptMoves, Zenon
<1>6. ASSUME NEW c \in Cycles, NEW r \in Failures(c), RejectFailure(r), UNCHANGED refundVars PROVE Still
  BY <1>2, <1>6
<1>7. ASSUME NEW r \in RefundIds, \/ \E p \in Payments : ProviderRefunds(r, p)
                                  \/ \E s \in {"processed", "failed"} : RefundSettles(r, s)
      PROVE  \/ \E p \in Payments, n \in 1..Price : Issuing(r, p, n)
             \/ \E s \in {"processed", "failed"} : Concluding(r, s)
  <2>1. UNCHANGED <<vars, intent, observed>>
    BY <1>7, ProviderRefundMoves, Zenon
  <2>2. CASE \E p \in Payments, n \in 1..Price, ours \in BOOLEAN :
                 /\ Issues(r, p, n, ours) /\ n \in 1..Returnable(p) /\ Captured(p)
                 /\ refundInbox' = [refundInbox EXCEPT ![<<r, "pending">>] = "pending"]
                 /\ IF ours THEN p \in refundPost /\ refundPost' = refundPost \ {p} /\ n = intent[p].amount
                            ELSE UNCHANGED refundPost
    BY <2>1, <2>2, Zenon DEF Issuing
  <2>3. CASE \E s \in {"processed", "failed"} :
                 /\ Concludes(r, s) /\ UNCHANGED refundPost
                 /\ refundInbox' = [refundInbox EXCEPT ![<<r, s>>] = "pending"]
    BY <2>1, <2>3, Zenon DEF Concluding
  <2> QED BY <1>7, <2>2, <2>3, ProviderRefundMoves, Zenon
<1>8. ASSUME ProviderActs
      PROVE  \/ Still
             \/ \E r \in RefundIds, p \in Payments, n \in 1..Price : Issuing(r, p, n)
             \/ \E r \in RefundIds, s \in {"processed", "failed"} : Concluding(r, s)
  <2>1. ASSUME NEW m \in Mandates, ProviderStops(m) PROVE Still
    BY <1>2, <2>1, Zenon DEF ProviderStops
  <2> HIDE DEF Still
  <2> QED BY <1>2, <1>7, <1>8, <2>1, Zenon DEF ProviderActs
<1>9. ASSUME NEW h \in Handlers, Writes(h)
      PROVE  \/ Still
             \/ UNCHANGED <<refund, observed, refundInbox, sub, mandate, cycles, recovery>> /\ \E p \in Payments : Rewrites(p)
             \/ UNCHANGED refund /\ \E p \in Payments : Notices(h, p)
             \/ UNCHANGED refund /\ \E rc \in RefundReceipts : SetsAside(h, rc)
  <2> HIDE DEF Still
  <2> QED BY <1>2, <1>3, <1>4, <1>5, <1>9, Zenon DEF Writes, Cancels
<1>10. Still => UNCHANGED refund /\ UNCHANGED <<intent, observed, refundInbox>>
  OBVIOUS
<1>11. UNCHANGED <<refund, observed, refundInbox, sub, mandate, cycles, recovery>>
         => UNCHANGED refund /\ UNCHANGED <<observed, refundInbox, sub, mandate, cycles, recovery>>
  OBVIOUS
<1> HIDE DEF Still
<1> QED BY <1>1, <1>6, <1>8, <1>9, <1>10, <1>11, Zenon DEF Steps
-----------------------------------------------------------------------------
(* Looking and writing down add no view that was not there: what goes on    *)
(* record is what a handler held.                                           *)
LEMMA RecordsAll ==
  ASSUME TypeIInv, SightIInv, UNCHANGED refund, NEW h \in Handlers, NEW p \in Payments, Records(h, p)
  PROVE  /\ Looking(h, p) /\ handler[h].ev \in Lists /\ DOMAIN handler[h].ev \subseteq RefundsOf(p)
         /\ Known(p)' = DOMAIN handler[h].ev /\ Noted(p)' = handler[h].ev
         /\ \A q \in Payments \ {p} : Known(q)' = Known(q) /\ Noted(q)' = Noted(q)
         /\ \A r \in RefundIds : observed'[r] = IF r \in DOMAIN handler[h].ev THEN handler[h].ev[r] ELSE observed[r]
<1> DEFINE ev == handler[h].ev
<1>0. observed \in [RefundIds -> {"none", "pending", "processed", "failed"}]
  BY DEF TypeIInv, RefundTypeOK
<1>1. Looking(h, p)
  BY DEF Records, Reviews, Looking
<1>2. ev \in Sights(p)
  BY <1>1, SightsAre
<1>3. ev \in Lists /\ Before(ev, Inventory(p))
  BY <1>2, Zenon DEF SightIInv, Latest
<1>4. DOMAIN Inventory(p) = RefundsOf(p)
  BY DEF Inventory
<1>5. DOMAIN ev \subseteq RefundsOf(p)
  BY <1>3, <1>4 DEF Before
<1>6. observed' = Seen(ev) /\ Known(p) \subseteq DOMAIN ev
  BY Zenon DEF Records, Observe, Observable, Incomplete
<1>7. \A q : RefundsOf(q)' = RefundsOf(q)
  BY DEF RefundsOf
<1>8. \A r \in DOMAIN ev : ev[r] \in Settlements
  BY <1>3, OfLists
<1> HIDE DEF ev
<1>9. \A r \in RefundIds : observed'[r] = IF r \in DOMAIN ev THEN ev[r] ELSE observed[r]
  BY <1>6 DEF Seen
<1>10. \A q : RefundsOf(q) \subseteq RefundIds
  BY DEF RefundsOf
<1>11. Known(p)' = DOMAIN ev
  <2>1. Known(p)' = {r \in RefundsOf(p) : observed'[r] # "none"}
    BY <1>7 DEF Known
  <2>2. ASSUME NEW r \in RefundsOf(p) PROVE observed'[r] # "none" <=> r \in DOMAIN ev
    <3>1. CASE r \in DOMAIN ev
      BY <1>8, <1>9, <1>10, <3>1 DEF Settlements
    <3>2. CASE r \notin DOMAIN ev
      BY <1>6, <1>9, <1>10, <3>2 DEF Known
    <3> QED BY <3>1, <3>2
  <2> QED BY <1>5, <2>1, <2>2
<1>12. Noted(p)' = ev
  <2>1. Noted(p)' = [r \in DOMAIN ev |-> observed'[r]]
    BY <1>11 DEF Noted
  <2>2. \A r \in DOMAIN ev : observed'[r] = ev[r]
    BY <1>5, <1>9, <1>10
  <2>3. ev = [r \in DOMAIN ev |-> ev[r]]
    BY <1>3, OfLists DEF ev
  <2> QED BY <2>1, <2>2, <2>3
<1>13. ASSUME NEW q \in Payments \ {p} PROVE Known(q)' = Known(q) /\ Noted(q)' = Noted(q)
  <2>1. \A r \in RefundsOf(q) : observed'[r] = observed[r]
    <3>1. \A r \in RefundsOf(q) : r \notin RefundsOf(p)
      BY DEF RefundsOf
    <3> QED BY <1>5, <1>9, <1>10, <3>1
  <2>2. Known(q)' = Known(q)
    BY <1>7, <2>1 DEF Known
  <2>3. \A r \in Known(q) : observed'[r] = observed[r]
    BY <2>1 DEF Known
  <2> QED BY <2>2, <2>3 DEF Noted
<1> QED BY <1>1, <1>3, <1>5, <1>9, <1>11, <1>12, <1>13 DEF ev

LEMMA SightsKept ==
  ASSUME TypeIInv, SightIInv, UNCHANGED refund,
         \A k \in Handlers : handler'[k] = handler[k] \/ Sees(k),
         UNCHANGED observed \/ \E h \in Handlers, p \in Payments : Records(h, p),
         NEW q \in Payments
  PROVE  RefundsOf(q)' = RefundsOf(q) /\ Inventory(q)' = Inventory(q) /\ Sights(q)' \subseteq Sights(q)
<1>1. RefundsOf(q)' = RefundsOf(q) /\ Inventory(q)' = Inventory(q)
  BY DEF RefundsOf, Inventory
<1>2. Noted(q)' \in Sights(q)
  <2>1. CASE UNCHANGED observed
    <3>1. Noted(q)' = Noted(q)
      BY <1>1, <2>1 DEF Noted, Known
    <3> QED BY <3>1, SightsAre, Zenon
  <2>2. ASSUME NEW h \in Handlers, NEW p \in Payments, Records(h, p) PROVE Noted(q)' \in Sights(q)
    <3>1. CASE q = p
      BY <2>2, <3>1, RecordsAll, SightsAre, Zenon
    <3>2. CASE q # p
      <4>1. Noted(q)' = Noted(q)
        BY <2>2, <3>2, RecordsAll
      <4> QED BY <4>1, SightsAre, Zenon
    <3> QED BY <3>1, <3>2
  <2> QED BY <2>1, <2>2
<1>3. ASSUME NEW k \in Handlers, Looking(k, q)' PROVE handler'[k].ev \in Sights(q)
  <2>1. CASE handler'[k] = handler[k]
    BY <1>3, <2>1, SightsAre DEF Looking
  <2>2. CASE Sees(k)
    <3>1. ~Elsewhere(handler'[k])
      BY <1>3 DEF Elsewhere, Looking, Reviews
    <3>2. ASSUME NEW p \in Payments, handler'[k].of = p, handler'[k].pc \in {"refund", "refunded"}, handler'[k].ev = Inventory(p)
          PROVE  handler'[k].ev = Inventory(q)
      BY <1>3, <3>2 DEF Looking, Settlements
    <3>3. handler'[k].pc # "refunding"
      BY <1>3 DEF Looking, Settlements
    <3>4. ASSUME NEW rc \in RefundReceipts, handler'[k].of = rc[1], handler'[k].pc = rc[2],
                 handler'[k].ev = Inventory(refund[rc[1]].of)
          PROVE  handler'[k].ev = Inventory(q)
      BY <1>3, <3>4 DEF Looking, Settlements, RefundReceipts
    <3>5. handler'[k].ev = Inventory(q)
      <4>1. \A t : t = "refund" \/ t = "refunded" => t \in {"refund", "refunded"}
        OBVIOUS
      <4> QED BY <2>2, <3>1, <3>2, <3>3, <3>4, <4>1, Zenon DEF Sees
    <3> QED BY <3>5, SightsAre
  <2> QED BY <2>1, <2>2
<1>4. \A e : e \in Sights(q)' => e \in Sights(q)
  <2> SUFFICES ASSUME NEW e, e \in Sights(q)' PROVE e \in Sights(q)
    OBVIOUS
  <2>1. e = Inventory(q)' \/ e = Noted(q)' \/ \E k \in Handlers : Looking(k, q)' /\ e = handler'[k].ev
    BY DEF Sights, Views
  <2>2. Inventory(q)' \in Sights(q)
    BY <1>1, SightsAre
  <2> QED BY <1>2, <1>3, <2>1, <2>2, Zenon
<1> QED BY <1>1, <1>4

(* What the provider does only adds to what it lists.                       *)
Moving(r) == \/ \E p \in Payments, n \in 1..Price : Issuing(r, p, n)
             \/ \E s \in {"processed", "failed"} : Concluding(r, s)

LEMMA RowsGrow ==
  ASSUME RefundTypeOK, NEW r \in RefundIds, Moving(r)
  PROVE  /\ UNCHANGED <<vars, intent, observed>>
         /\ \A x \in RefundIds : refund[x].status # "none" =>
              /\ refund'[x].of = refund[x].of /\ refund'[x].amount = refund[x].amount
              /\ refund'[x].ours = refund[x].ours /\ refund'[x].status # "none"
              /\ refund[x].status = "pending" \/ refund'[x].status = refund[x].status
         /\ \A x \in RefundIds : refund[x].status = "none" => refund'[x].status = "none" \/ x = r
<1>1. ASSUME NEW p \in Payments, NEW n \in 1..Price, Issuing(r, p, n)
      PROVE  UNCHANGED <<vars, intent, observed>> /\ \E ours : Issues(r, p, n, ours)
  BY <1>1 DEF Issuing
<1>2. ASSUME NEW s \in {"processed", "failed"}, Concluding(r, s)
      PROVE  UNCHANGED <<vars, intent, observed>> /\ Concludes(r, s) /\ s # "none"
  BY <1>2 DEF Concluding
<1>3. UNCHANGED <<vars, intent, observed>>
  BY <1>1, <1>2, Zenon DEF Moving
<1>4. CASE \E p \in Payments, n \in 1..Price : \E ours : Issues(r, p, n, ours)
  BY <1>3, <1>4 DEF Issues
<1>5. CASE \E s \in {"processed", "failed"} : Concludes(r, s)
  BY <1>3, <1>5 DEF Concludes
<1> QED BY <1>1, <1>2, <1>4, <1>5, Zenon DEF Moving

LEMMA LookedFor ==
  ASSUME TypeIInv, SightIInv, NEW k \in Handlers, handler[k].pc \in Settlements, handler[k].of \in RefundIds
  PROVE  refund[handler[k].of].status # "none"
<1> DEFINE x == handler[k].of
           p == refund[x].of
<1>1. p \in Payments /\ Looking(k, p)
  BY DEF TypeIInv, RefundTypeOK, Refunds, Looking
<1>2. Before(handler[k].ev, Inventory(p))
  BY <1>1, SightsAre, Zenon DEF SightIInv, Latest
<1>3. x \in DOMAIN handler[k].ev
  <2>1. <<x, handler[k].pc>> \in RefundReceipts /\ <<x, handler[k].pc>>[1] = x /\ <<x, handler[k].pc>>[2] = handler[k].pc
    BY DEF RefundReceipts, Settlements
  <2> QED BY <2>1, Zenon DEF SightIInv, Delivered
<1>4. x \in RefundsOf(p)
  BY <1>2, <1>3 DEF Before, Inventory
<1> QED BY <1>4 DEF RefundsOf

LEMMA SightsGrow ==
  ASSUME TypeIInv, TypeIInv', SightIInv, NEW r \in RefundIds, Moving(r), NEW q \in Payments
  PROVE  /\ \A e \in Sights(q)' : e = Inventory(q)' \/ e \in Sights(q)
         /\ Noted(q)' = Noted(q) /\ RefundsOf(q) \subseteq RefundsOf(q)'
         /\ Before(Inventory(q), Inventory(q)') /\ Inventory(q)' \in Lists
         /\ \A k \in Handlers : handler'[k] = handler[k]
<1>0. RefundTypeOK /\ RefundTypeOK' /\ UNCHANGED <<handler, observed>>
  BY RowsGrow DEF TypeIInv, vars
<1>1. RefundsOf(q) \subseteq RefundsOf(q)' /\ RefundsOf(q)' \subseteq RefundIds
  BY <1>0, RowsGrow DEF RefundsOf
<1>2. Before(Inventory(q), Inventory(q)')
  <2>1. \A x \in RefundsOf(q) : refund[x].status = "pending" \/ refund'[x].status = refund[x].status
    BY <1>0, RowsGrow DEF RefundsOf
  <2> QED BY <1>1, <2>1 DEF Before, Inventory
<1>3. Inventory(q)' \in Lists
  <2>1. \A x \in RefundsOf(q)' : refund'[x].status \in Settlements
    BY <1>0 DEF RefundsOf, RefundTypeOK, Refunds, Settlements
  <2>2. Inventory(q)' \in [RefundsOf(q)' -> Settlements]
    BY <2>1 DEF Inventory
  <2> QED BY <1>1, <2>2, ListsAre
<1>4. Noted(q)' = Noted(q)
  <2>1. \A x \in RefundIds : observed[x] # "none" => (x \in RefundsOf(q)' <=> x \in RefundsOf(q))
    BY <1>0, RowsGrow DEF RefundsOf, SightIInv, Traced
  <2>2. Known(q)' = Known(q)
    BY <1>0, <1>1, <2>1 DEF Known
  <2> QED BY <1>0, <2>2 DEF Noted
<1>5. ASSUME NEW k \in Handlers PROVE handler'[k] = handler[k] /\ (Looking(k, q)' => Looking(k, q))
  <2>1. handler'[k] = handler[k]
    BY <1>0
  <2>2. handler[k].pc \in Settlements /\ handler[k].of \in RefundIds => refund'[handler[k].of].of = refund[handler[k].of].of
    BY <1>0, LookedFor, RowsGrow
  <2> QED BY <2>1, <2>2 DEF Looking
<1>6. ASSUME NEW e \in Sights(q)' PROVE e = Inventory(q)' \/ e \in Sights(q)
  <2>1. e = Inventory(q)' \/ e = Noted(q)' \/ \E k \in Handlers : Looking(k, q)' /\ e = handler'[k].ev
    BY DEF Sights, Views
  <2> QED BY <1>4, <1>5, <2>1, SightsAre, Zenon
<1> QED BY <1>1, <1>2, <1>3, <1>4, <1>5, <1>6

LEMMA BeforeAll ==
  /\ \A e, f, g : Before(e, f) /\ Before(f, g) => Before(e, g)
  /\ \A e : Before(e, e)
  BY DEF Before

LEMMA WokenFor ==
  ASSUME TypeIInv, SightIInv, NEW h \in Handlers, NEW rc \in RefundReceipts, Woken(h, rc)
  PROVE  /\ Looking(h, refund[rc[1]].of) /\ refund[rc[1]].of \in Payments
         /\ rc[1] \in DOMAIN handler[h].ev /\ (rc[2] = "pending" \/ handler[h].ev[rc[1]] = rc[2])
         /\ refund[rc[1]].status # "none" /\ (rc[2] = "pending" \/ refund[rc[1]].status = rc[2])
<1> DEFINE p == refund[rc[1]].of
           e == handler[h].ev
<1>1. rc[1] \in RefundIds /\ rc[2] \in Settlements
  BY DEF RefundReceipts, Settlements
<1>2. p \in Payments /\ Looking(h, p)
  BY <1>1 DEF TypeIInv, RefundTypeOK, Refunds, Looking, Woken
<1>3. Before(e, Inventory(p))
  BY <1>2, SightsAre, Zenon DEF SightIInv, Latest
<1>4. rc[1] \in DOMAIN e /\ (rc[2] = "pending" \/ e[rc[1]] = rc[2])
  BY Zenon DEF SightIInv, Delivered, Woken
<1> HIDE DEF e, p
<1>5. rc[1] \in RefundsOf(p) /\ (rc[2] = "pending" \/ refund[rc[1]].status = rc[2])
  BY <1>3, <1>4 DEF Before, Inventory
<1>6. refund[rc[1]].status # "none"
  BY <1>5 DEF RefundsOf
<1> QED BY <1>2, <1>4, <1>5, <1>6 DEF e, p

LEMMA SightsStay ==
  ASSUME TypeIInv, SightIInv, Steps, UNCHANGED refund PROVE SightIInv'
<1>0. refundInbox \in [RefundReceipts -> {"none", "pending", "processed", "quarantined"}]
  BY DEF TypeIInv, RefundTypeOK
<1>1. \A k \in Handlers : handler'[k] = handler[k] \/ Sees(k)
  BY HandlersLook
<1>2. \/ UNCHANGED observed /\ (UNCHANGED refundInbox \/ \E h \in Handlers, rc \in RefundReceipts : SetsAside(h, rc))
      \/ \E h \in Handlers, p \in Payments : Notices(h, p)
  <2>1. ASSUME NEW r \in RefundIds, Moving(r) PROVE FALSE
    <3>1. ASSUME NEW p \in Payments, NEW n \in 1..Price, Issuing(r, p, n) PROVE FALSE
      BY <3>1 DEF Issuing, Issues
    <3>2. ASSUME NEW s \in {"processed", "failed"}, Concluding(r, s) PROVE FALSE
      BY <3>2 DEF Concluding, Concludes
    <3> QED BY <2>1, <3>1, <3>2, Zenon DEF Moving
  <2>2. UNCHANGED <<intent, observed, refundInbox>> => UNCHANGED observed /\ UNCHANGED refundInbox
    OBVIOUS
  <2>3. UNCHANGED <<observed, refundInbox, sub, mandate, cycles, recovery>> => UNCHANGED observed /\ UNCHANGED refundInbox
    OBVIOUS
  <2>4. \A h, rc : SetsAside(h, rc) => UNCHANGED observed
    BY DEF SetsAside
  <2> QED BY <2>1, <2>2, <2>3, <2>4, RefundKinds, Zenon DEF Moving
<1>3. UNCHANGED observed \/ \E h \in Handlers, p \in Payments : Records(h, p)
  BY <1>2, Zenon DEF Notices, Notes
<1>4. \A q \in Payments : Inventory(q)' = Inventory(q) /\ Sights(q)' \subseteq Sights(q)
  BY <1>1, <1>3, SightsKept
<1>5. Latest' /\ InOrder'
  <2>1. Latest'
    BY <1>4 DEF SightIInv, Latest, Before
  <2>2. InOrder'
    BY <1>4 DEF SightIInv, InOrder, Before
  <2> QED BY <2>1, <2>2
<1>6. Delivered'
  <2> SUFFICES ASSUME NEW k \in Handlers, NEW rc \in RefundReceipts, handler'[k].pc = rc[2], handler'[k].of = rc[1]
               PROVE  rc[1] \in DOMAIN handler'[k].ev /\ (rc[2] = "pending" \/ handler'[k].ev[rc[1]] = rc[2])
    BY DEF Delivered
  <2>1. CASE handler'[k] = handler[k]
    <3>1. handler[k].pc = rc[2] /\ handler[k].of = rc[1]
      BY <2>1
    <3>2. rc[1] \in DOMAIN handler[k].ev /\ (rc[2] = "pending" \/ handler[k].ev[rc[1]] = rc[2])
      BY <3>1, Zenon DEF SightIInv, Delivered
    <3> QED BY <2>1, <3>2
  <2>2. CASE Sees(k)
    <3>1. rc[1] \in RefundIds /\ rc[2] \in Settlements /\ rc = <<rc[1], rc[2]>>
      BY DEF RefundReceipts, Settlements
    <3>2. ~Elsewhere(handler'[k]) /\ handler'[k].pc # "refund" /\ handler'[k].pc # "refunding" /\ handler'[k].pc # "refunded"
      BY <3>1 DEF Elsewhere, Reviews, Settlements
    <3>3. PICK x \in RefundReceipts : /\ handler'[k].of = x[1] /\ handler'[k].pc = x[2]
                                      /\ handler'[k].ev = Inventory(refund[x[1]].of) /\ refundInbox[x] = "pending"
      BY <2>2, <3>2, Zenon DEF Sees
    <3>4. x = rc
      BY <3>1, <3>3 DEF RefundReceipts
    <3> DEFINE p == refund[rc[1]].of
    <3>5. refund[rc[1]].status # "none" /\ (rc[2] = "pending" \/ refund[rc[1]].status = rc[2])
      BY <3>3, <3>4 DEF SightIInv, Arrived
    <3>6. rc[1] \in RefundsOf(p)
      BY <3>1, <3>5 DEF RefundsOf
    <3> HIDE DEF p
    <3>7. rc[1] \in DOMAIN Inventory(p) /\ (rc[2] = "pending" \/ Inventory(p)[rc[1]] = rc[2])
      BY <3>5, <3>6 DEF Inventory
    <3>8. handler'[k].ev = Inventory(p)
      BY <3>3, <3>4 DEF p
    <3> QED BY <3>7, <3>8
  <2> QED BY <1>1, <2>1, <2>2
<1>7. Arrived'
  <2> SUFFICES ASSUME NEW rc \in RefundReceipts, refundInbox'[rc] # "none"
               PROVE  refund[rc[1]].status # "none" /\ (rc[2] = "pending" \/ refund[rc[1]].status = rc[2])
    BY DEF Arrived
  <2>1. refundInbox[rc] # "none" \/ \E h \in Handlers : Woken(h, rc)
    <3>1. ASSUME NEW h \in Handlers, NEW x \in RefundReceipts, NEW s, Woken(h, x), SettleRefund(x, s)
          PROVE  refundInbox[rc] # "none" \/ Woken(h, rc)
      BY <1>0, <3>1 DEF SettleRefund
    <3> QED BY <1>2, <3>1, Zenon DEF SetsAside, Notices
  <2> QED BY <2>1, WokenFor DEF SightIInv, Arrived
<1>8. Traced'
  <2>1. ASSUME NEW h \in Handlers, NEW p \in Payments, Records(h, p) PROVE Traced'
    <3>1. /\ DOMAIN handler[h].ev \subseteq RefundsOf(p)
          /\ \A r \in RefundIds : observed'[r] = IF r \in DOMAIN handler[h].ev THEN handler[h].ev[r] ELSE observed[r]
      BY <2>1, RecordsAll
    <3> QED BY <3>1 DEF Traced, SightIInv, RefundsOf
  <2>2. CASE UNCHANGED observed
    BY <2>2 DEF SightIInv, Traced
  <2> QED BY <1>3, <2>1, <2>2
<1> QED BY <1>5, <1>6, <1>7, <1>8 DEF SightIInv

LEMMA SightsMove ==
  ASSUME TypeIInv, TypeIInv', SightIInv, NEW r \in RefundIds, Moving(r) PROVE SightIInv'
<1>0. RefundTypeOK /\ refundInbox \in [RefundReceipts -> {"none", "pending", "processed", "quarantined"}]
      /\ refundInbox' \in [RefundReceipts -> {"none", "pending", "processed", "quarantined"}]
  BY DEF TypeIInv, RefundTypeOK
<1>1. ASSUME NEW q \in Payments, NEW e \in Sights(q)' PROVE e \in Lists /\ Before(e, Inventory(q)')
  <2>1. CASE e = Inventory(q)'
    BY <2>1, SightsGrow, BeforeAll, Zenon
  <2>2. CASE e \in Sights(q)
    <3>1. e \in Lists /\ Before(e, Inventory(q))
      BY <2>2, Zenon DEF SightIInv, Latest
    <3>2. Before(Inventory(q), Inventory(q)')
      BY SightsGrow
    <3> QED BY <3>1, <3>2, BeforeAll, Zenon
  <2> QED BY <1>1, <2>1, <2>2, SightsGrow
<1>2. ASSUME NEW q \in Payments, NEW e \in Sights(q)', NEW f \in Sights(q)' PROVE Before(e, f) \/ Before(f, e)
  <2>1. Before(e, Inventory(q)') /\ Before(f, Inventory(q)')
    BY <1>1, <1>2
  <2>2. e \in Sights(q) /\ f \in Sights(q) => Before(e, f) \/ Before(f, e)
    BY Zenon DEF SightIInv, InOrder
  <2>3. (e = Inventory(q)' \/ e \in Sights(q)) /\ (f = Inventory(q)' \/ f \in Sights(q))
    BY <1>2, SightsGrow
  <2> QED BY <2>1, <2>2, <2>3, Zenon
<1>3. Latest' /\ InOrder'
  BY <1>1, <1>2 DEF Latest, InOrder, Before
<1>4. UNCHANGED <<handler, observed>>
  BY <1>0, RowsGrow DEF vars
<1>5. Delivered' /\ Traced'
  BY <1>0, <1>4, RowsGrow DEF SightIInv, Delivered, Traced
<1>6. Arrived'
  <2> SUFFICES ASSUME NEW rc \in RefundReceipts, refundInbox'[rc] # "none"
               PROVE  refund'[rc[1]].status # "none" /\ (rc[2] = "pending" \/ refund'[rc[1]].status = rc[2])
    BY DEF Arrived
  <2>0. rc[1] \in RefundIds /\ rc[2] \in Settlements /\ rc = <<rc[1], rc[2]>>
    BY DEF RefundReceipts, Settlements
  <2>1. CASE refundInbox[rc] # "none"
    <3>1. refund[rc[1]].status # "none" /\ (rc[2] = "pending" \/ refund[rc[1]].status = rc[2])
      BY <2>1 DEF SightIInv, Arrived
    <3> QED BY <1>0, <2>0, <3>1, RowsGrow
  <2>2. CASE refundInbox[rc] = "none"
    <3>1. \A x : refundInbox' = [refundInbox EXCEPT ![x] = "pending"] => x = rc
      BY <1>0, <2>2
    <3>2. ASSUME NEW p \in Payments, NEW n \in 1..Price, Issuing(r, p, n)
          PROVE  rc[1] = r /\ rc[2] = "pending" /\ refund'[r].status = "pending"
      <4>1. <<r, "pending">> = rc
        BY <3>1, <3>2, Zenon DEF Issuing
      <4>2. refund'[r].status = "pending"
        BY <3>2 DEF Issuing, Issues
      <4> QED BY <2>0, <4>1, <4>2
    <3>3. ASSUME NEW s \in {"processed", "failed"}, Concluding(r, s)
          PROVE  rc[1] = r /\ rc[2] = s /\ refund'[r].status = s
      <4>1. <<r, s>> = rc
        BY <3>1, <3>3, Zenon DEF Concluding
      <4>2. refund'[r].status = s
        BY <3>3, Zenon DEF Concluding, Concludes
      <4> QED BY <2>0, <4>1, <4>2
    <3>4. CASE \E p \in Payments, n \in 1..Price : Issuing(r, p, n)
      BY <3>2, <3>4
    <3>5. CASE \E s \in {"processed", "failed"} : Concluding(r, s)
      BY <3>3, <3>5
    <3> QED BY <3>4, <3>5 DEF Moving
  <2> QED BY <2>1, <2>2
<1> QED BY <1>3, <1>5, <1>6 DEF SightIInv

LEMMA SightStep ==
  ASSUME TypeIInv, SightIInv, [ReversalNext]_allVars PROVE SightIInv'
<1>0. TypeIInv'
  BY TypesStep
<1>1. CASE UNCHANGED allVars
  <2>1. UNCHANGED <<handler, refund, observed, refundInbox>>
    BY <1>1 DEF allVars, vars, refundVars
  <2>2. \A p \in Payments : Inventory(p)' = Inventory(p) /\ Sights(p)' = Sights(p)
    BY <2>1 DEF Sights, Views, Inventory, Noted, Known, RefundsOf, Looking
  <2>3. Latest' /\ InOrder'
    BY <2>2 DEF SightIInv, Latest, InOrder, Before
  <2>4. Delivered' /\ Arrived' /\ Traced'
    BY <2>1 DEF SightIInv, Delivered, Arrived, Traced
  <2> QED BY <2>3, <2>4 DEF SightIInv
<1>2. CASE Steps
  <2>1. UNCHANGED refund \/ \E r \in RefundIds : Moving(r)
    BY <1>2, RefundKinds, Zenon DEF Moving
  <2> QED BY <1>0, <1>2, <2>1, SightsStay, SightsMove
<1> QED BY <1>1, <1>2, EveryStep

LEMMA InitialSights == RefundInit => SightIInv
<1> SUFFICES ASSUME RefundInit PROVE SightIInv
  OBVIOUS
<1>1. /\ \A r \in RefundIds : refund[r].status = "none" /\ observed[r] = "none"
      /\ \A h \in Handlers : handler[h].pc = "idle"
      /\ \A rc \in RefundReceipts : refundInbox[rc] = "none"
  BY DEF RefundInit, Init, NoRefund, Idle
<1>2. \A p : RefundsOf(p) = {} /\ Known(p) = {} /\ \A h \in Handlers : ~Looking(h, p)
  BY <1>1 DEF RefundsOf, Known, Looking, Settlements
<1>3. ASSUME NEW p \in Payments, NEW e \in Sights(p) PROVE DOMAIN e = {} /\ e \in Lists
  <2>1. e = Inventory(p) \/ e = Noted(p)
    BY <1>2, <1>3, SightsAre
  <2>2. e \in [{} -> Settlements]
    BY <1>2, <2>1 DEF Inventory, Noted
  <2> QED BY <2>2, ListsAre
<1>4. Latest /\ InOrder
  BY <1>3 DEF Latest, InOrder, Before
<1>5. Delivered /\ Arrived /\ Traced
  BY <1>1 DEF Delivered, Arrived, Traced, RefundReceipts
<1> QED BY <1>4, <1>5 DEF SightIInv
-----------------------------------------------------------------------------
(* What is closed and set aside.  A view in which all the money is back     *)
(* misses no refund; a receipt set aside is older than some refund on       *)
(* record, and whoever sees that one sees what the receipt reports.         *)
Spent(e)  == Amount(Processed(e)) >= Price

Finite    == IsFiniteSet(Issued)
Exhausted == \A p \in Payments : \A e \in Sights(p) : Spent(e) => RefundsOf(p) \subseteq DOMAIN e
Closed    == \A p \in Payments : intent[p].state = "external" =>
               (\A r \in RefundsOf(p) : ~refund[r].ours) /\ Spent(Inventory(p))

Shows(e, x, rc) == x \in DOMAIN e /\ e[x] = "processed" =>
                     rc[1] \in DOMAIN e /\ (rc[2] = "pending" \/ e[rc[1]] = rc[2])
Overtaken == \A rc \in RefundReceipts : refundInbox[rc] = "quarantined" =>
  \E x \in RefundIds : /\ refund[x].of = refund[rc[1]].of /\ observed[x] = "processed"
                       /\ \A e \in Sights(refund[rc[1]].of) : Shows(e, x, rc)

RecordIInv == Finite /\ Exhausted /\ Closed /\ Overtaken

LEMMA SpentAll ==
  ASSUME TypeIInv, SightIInv, Finite, NEW p \in Payments, NEW e \in Sights(p)
  PROVE  /\ Processed(e) \subseteq Processed(Inventory(p)) /\ Processed(Inventory(p)) \subseteq RefundsOf(p)
         /\ RefundsOf(p) \subseteq Issued
         /\ Spent(e) => \A n \in 1..Returnable(p) : FALSE
<1> DEFINE all == Processed(Inventory(p))
           standing == {r \in RefundsOf(p) : refund[r].status # "failed"}
<1>1. Before(e, Inventory(p))
  BY Zenon DEF SightIInv, Latest
<1>2. Processed(e) \subseteq all /\ all \subseteq standing
  BY <1>1 DEF Before, Inventory, Processed
<1>3. standing \subseteq RefundsOf(p) /\ RefundsOf(p) \subseteq Issued
  BY DEF RefundsOf, Issued
<1>4. Returnable(p) = Price - Amount(standing)
  BY DEF Returnable
<1> HIDE DEF all, standing
<1>5. Amount(Processed(e)) \in Nat /\ Amount(standing) \in Nat /\ Amount(Processed(e)) <= Amount(standing)
  <2>1. Processed(e) \subseteq standing /\ standing \subseteq Issued
    BY <1>2, <1>3
  <2> QED BY <2>1, AmountGrows DEF Finite
<1>6. Spent(e) => \A n \in 1..Returnable(p) : FALSE
  BY <1>4, <1>5, ReversalAssumption DEF Spent
<1>7. all \subseteq RefundsOf(p)
  BY <1>2, <1>3
<1> QED BY <1>2, <1>3, <1>6, <1>7 DEF all

(* What is written down as returned is what the view shows as returned.     *)
LEMMA ReturnedIs ==
  ASSUME TypeIInv, SightIInv, UNCHANGED refund, NEW h \in Handlers, NEW p \in Payments, Records(h, p)
  PROVE  /\ Returned(p, handler[h].ev) = Amount(Processed(handler[h].ev))
         /\ Returned(p, handler[h].ev) <= Price
<1> DEFINE ev == handler[h].ev
<1>1. DOMAIN ev \subseteq RefundsOf(p) /\ Known(p) \subseteq DOMAIN ev
  <2>1. Known(p) \subseteq DOMAIN ev
    BY Zenon DEF Records, Observable, Incomplete
  <2> QED BY <2>1, RecordsAll
<1>2. Returned(p, ev) <= Price
  BY Zenon DEF Records, Observable
<1> HIDE DEF ev
<1>3. {r \in RefundsOf(p) : Seen(ev)[r] = "processed"} = Processed(ev)
  <2>1. \A r \in RefundsOf(p) : r \in RefundIds /\ Seen(ev)[r] = IF r \in DOMAIN ev THEN ev[r] ELSE observed[r]
    BY DEF RefundsOf, Seen
  <2>2. \A r \in RefundsOf(p) : r \notin DOMAIN ev => observed[r] = "none"
    BY <1>1 DEF Known
  <2> QED BY <1>1, <2>1, <2>2 DEF Processed
<1>4. Returned(p, ev) = Amount(Processed(ev))
  BY <1>3, Zenon DEF Returned
<1> QED BY <1>2, <1>4 DEF ev

LEMMA ClosesWhen ==
  ASSUME RefundTypeOK, NEW p \in Payments, NEW ev, Listing(ev), intent[p].state # "external",
         NEW i \in {Bound(p, ev), Doubtful(Bound(p, ev))}, i.state = "external"
  PROVE  (\A r \in DOMAIN ev : ~refund[r].ours) /\ InFull(p, ev)
<1> DEFINE mine == {r \in DOMAIN ev : refund[r].ours}
           x == CHOOSE r \in mine : TRUE
<1>1. intent[p] \in Intents /\ Bound(p, ev) \in Intents
  BY BoundTyped DEF RefundTypeOK
<1>2. Bound(p, ev).state = "external"
  BY <1>1 DEF Doubtful, Intents
<1>3. ASSUME mine # {} PROVE [intent[p] EXCEPT !.state = ev[x], !.bound = x].state # "external"
  <2>1. x \in DOMAIN ev
    BY <1>3
  <2>2. ev[x] \in Settlements
    BY <2>1 DEF Listing
  <2> HIDE DEF x
  <2> QED BY <1>1, <2>2 DEF Settlements, Intents
<1>4. NoIntent.state # "external"
  BY DEF NoIntent
<1> HIDE DEF x
<1>5. \/ Bound(p, ev) = NoIntent \/ Bound(p, ev) = intent[p]
      \/ mine # {} /\ Bound(p, ev) = [intent[p] EXCEPT !.state = ev[x], !.bound = x]
      \/ mine = {} /\ InFull(p, ev)
  BY Zenon DEF Bound, x
<1>6. mine = {} /\ InFull(p, ev)
  BY <1>2, <1>3, <1>4, <1>5
<1> QED BY <1>6

LEMMA StandsSpent ==
  ASSUME TypeIInv, SightIInv, UNCHANGED refund, NEW e PROVE Spent(e)' <=> Spent(e)
<1>1. Amount(Processed(e))' = Amount(Processed(e))
  BY AmountStays DEF Processed, Amount
<1> QED BY <1>1 DEF Spent

LEMMA ClosedStays ==
  ASSUME TypeIInv, SightIInv, RecordIInv, Steps, UNCHANGED refund PROVE Closed'
<1>0. RefundTypeOK /\ intent \in [Payments -> Intents]
  BY DEF TypeIInv, RefundTypeOK
<1>1. \A q \in Payments : RefundsOf(q)' = RefundsOf(q) /\ Inventory(q)' = Inventory(q)
  BY DEF RefundsOf, Inventory
<1>2. \A e : Spent(e)' <=> Spent(e)
  BY StandsSpent
<1>3. \A q \in Payments : Spent(Inventory(q))' <=> Spent(Inventory(q))
  BY <1>1 DEF Spent, Processed, Amount
<1>4. ASSUME NEW q \in Payments, intent'[q].state = "external"
      PROVE  (\A r \in RefundsOf(q) : ~refund[r].ours) /\ Spent(Inventory(q))
  <2>1. CASE intent[q].state = "external"
    BY <2>1 DEF RecordIInv, Closed
  <2>2. CASE intent[q].state # "external"
    <3>1. PICK h \in Handlers, p \in Payments : Records(h, p)
      <4>1. ASSUME NEW p \in Payments, Rewrites(p) PROVE FALSE
        BY <1>0, <1>4, <2>2, <4>1 DEF Rewrites
      <4>2. intent' # intent
        BY <1>4, <2>2
      <4>3. \A r \in RefundIds, p \in Payments, n \in 1..Price : ~Issuing(r, p, n)
        BY <4>2 DEF Issuing
      <4>4. \A r \in RefundIds, s \in {"processed", "failed"} : ~Concluding(r, s)
        BY <4>2 DEF Concluding
      <4> QED BY <4>1, <4>2, <4>3, <4>4, RefundKinds, Zenon DEF SetsAside, Notices, Notes
    <3> DEFINE ev == handler[h].ev
    <3>2. Listing(ev) /\ \E i \in {Bound(p, ev), Doubtful(Bound(p, ev))} : intent' = [intent EXCEPT ![p] = i]
      BY <3>1 DEF Records, Observe
    <3>3. PICK i \in {Bound(p, ev), Doubtful(Bound(p, ev))} : intent' = [intent EXCEPT ![p] = i]
      BY <3>2
    <3>4. p = q /\ i.state = "external"
      BY <1>0, <1>4, <2>2, <3>3
    <3>5. (\A r \in DOMAIN ev : ~refund[r].ours) /\ InFull(q, ev)
      BY <1>0, <2>2, <3>2, <3>3, <3>4, ClosesWhen
    <3>6. Amount(Processed(ev)) = Price
      BY <3>1, <3>4, <3>5, ReturnedIs DEF InFull
    <3>7. Spent(ev) /\ ev \in Sights(q)
      <4>1. ev \in Sights(q)
        BY <3>1, <3>4, RecordsAll, SightsAre, Zenon
      <4> QED BY <3>6, <4>1, ReversalAssumption DEF Spent
    <3>8. RefundsOf(q) \subseteq DOMAIN ev
      BY <3>7, Zenon DEF RecordIInv, Exhausted
    <3>9. Spent(Inventory(q))
      <4> HIDE DEF ev
      <4>1. /\ Processed(ev) \subseteq Processed(Inventory(q)) /\ Processed(Inventory(q)) \subseteq Issued
        BY <3>7, SpentAll DEF RecordIInv
      <4>2. /\ Amount(Processed(ev)) <= Amount(Processed(Inventory(q)))
            /\ Amount(Processed(ev)) \in Nat /\ Amount(Processed(Inventory(q))) \in Nat
        BY <4>1, AmountGrows DEF RecordIInv, Finite
      <4> QED BY <3>7, <4>2, ReversalAssumption DEF Spent
    <3> QED BY <3>5, <3>8, <3>9
  <2> QED BY <2>1, <2>2
<1> QED BY <1>1, <1>3, <1>4 DEF Closed

(* What is on record changes only when a view is written down.              *)
LEMMA Observes ==
  ASSUME TypeIInv, Steps
  PROVE  UNCHANGED observed \/ \E h \in Handlers, p \in Payments : Notes(h, p)
<1>1. \A h, rc : SetsAside(h, rc) => UNCHANGED observed
  BY DEF SetsAside
<1>2. \A r, p, n : Issuing(r, p, n) => UNCHANGED observed
  BY DEF Issuing
<1>3. \A r, s : Concluding(r, s) => UNCHANGED observed
  BY DEF Concluding
<1>4. /\ UNCHANGED <<intent, observed, refundInbox>> => UNCHANGED observed
      /\ UNCHANGED <<observed, refundInbox, sub, mandate, cycles, recovery>> => UNCHANGED observed
  OBVIOUS
<1> QED BY <1>1, <1>2, <1>3, <1>4, RefundKinds, Zenon DEF Notices

LEMMA OvertakenStays ==
  ASSUME TypeIInv, SightIInv, RecordIInv, Steps, UNCHANGED refund PROVE Overtaken'
<1>0. /\ refundInbox \in [RefundReceipts -> {"none", "pending", "processed", "quarantined"}]
      /\ \A r \in RefundIds : refund[r].of \in Payments
  BY DEF TypeIInv, RefundTypeOK, Refunds
<1>1. UNCHANGED observed \/ \E h \in Handlers, p \in Payments : Records(h, p)
  BY Observes, Zenon DEF Notes
<1>2. \A q \in Payments : Sights(q)' \subseteq Sights(q)
  BY <1>1, HandlersLook, SightsKept
<1>3. \A x \in RefundIds : observed[x] = "processed" => observed'[x] = "processed"
  <2>1. ASSUME NEW h \in Handlers, NEW p \in Payments, Records(h, p), NEW x \in RefundIds, observed[x] = "processed"
        PROVE  observed'[x] = "processed"
    <3>1. ~Regresses(handler[h].ev)
      BY <2>1, Zenon DEF Records, Observable
    <3>2. observed'[x] = IF x \in DOMAIN handler[h].ev THEN handler[h].ev[x] ELSE observed[x]
      BY <2>1, RecordsAll
    <3> QED BY <2>1, <3>1, <3>2 DEF Regresses
  <2> QED BY <1>1, <2>1
<1>4. ASSUME NEW rc \in RefundReceipts,
             \E x \in RefundIds : /\ refund[x].of = refund[rc[1]].of /\ observed[x] = "processed"
                                  /\ \A e \in Sights(refund[rc[1]].of) : Shows(e, x, rc)
      PROVE  \E x \in RefundIds : /\ refund[x].of = refund[rc[1]].of /\ observed'[x] = "processed"
                                  /\ \A e \in Sights(refund[rc[1]].of)' : Shows(e, x, rc)
  <2>1. PICK x \in RefundIds : /\ refund[x].of = refund[rc[1]].of /\ observed[x] = "processed"
                               /\ \A e \in Sights(refund[rc[1]].of) : Shows(e, x, rc)
    BY <1>4
  <2>2. refund[rc[1]].of \in Payments
    BY <1>0 DEF RefundReceipts
  <2>3. Sights(refund[rc[1]].of)' \subseteq Sights(refund[rc[1]].of)
    <3>1. PICK q \in Payments : q = refund[rc[1]].of
      BY <2>2
    <3>2. Sights(q)' \subseteq Sights(q)
      BY <1>2
    <3>3. Sights(refund[rc[1]].of)' = Sights(q)'
      BY <3>1 DEF Sights, Inventory, Noted, Known, RefundsOf, Views, Looking
    <3> QED BY <3>1, <3>2, <3>3
  <2> QED BY <1>3, <2>1, <2>3
<1>5. ASSUME NEW h \in Handlers, NEW rc \in RefundReceipts, SetsAside(h, rc)
      PROVE  \E x \in RefundIds : /\ refund[x].of = refund[rc[1]].of /\ observed[x] = "processed"
                                  /\ \A e \in Sights(refund[rc[1]].of) : Shows(e, x, rc)
  <2> DEFINE ev == handler[h].ev
             p == refund[rc[1]].of
  <2>1. Regresses(ev) /\ Woken(h, rc)
    BY <1>5 DEF SetsAside
  <2>2. PICK x \in DOMAIN ev : observed[x] = "processed" /\ ev[x] # "processed"
    BY <2>1 DEF Regresses
  <2>3. /\ p \in Payments /\ Looking(h, p)
        /\ rc[1] \in DOMAIN ev /\ (rc[2] = "pending" \/ ev[rc[1]] = rc[2])
    BY <2>1, WokenFor, Zenon
  <2>4. ev \in Sights(p)
    BY <2>3, SightsAre, Zenon
  <2>5. Before(ev, Inventory(p))
    BY <2>3, <2>4, Zenon DEF SightIInv, Latest
  <2>6. x \in RefundsOf(p)
    BY <2>2, <2>5 DEF Before, Inventory
  <2>7. ASSUME NEW e \in Sights(p) PROVE Shows(e, x, rc)
    <3>1. Before(e, ev) \/ Before(ev, e)
      BY <2>3, <2>4, <2>7, Zenon DEF SightIInv, InOrder
    <3> HIDE DEF ev, p
    <3>2. x \in DOMAIN e /\ e[x] = "processed" => ~Before(e, ev)
      BY <2>2 DEF Before
    <3> QED BY <2>3, <3>1, <3>2 DEF Before, Shows
  <2>8. x \in RefundIds /\ refund[x].of = p
    BY <2>6 DEF RefundsOf
  <2> QED BY <2>2, <2>7, <2>8
<1>6. ASSUME NEW rc \in RefundReceipts, refundInbox'[rc] = "quarantined"
      PROVE  refundInbox[rc] = "quarantined" \/ \E h \in Handlers : SetsAside(h, rc)
  <2>1. ASSUME NEW x \in RefundReceipts, SettleRefund(x, "processed") PROVE refundInbox[rc] = "quarantined"
    BY <1>0, <1>6, <2>1 DEF SettleRefund
  <2>2. ASSUME NEW h \in Handlers, NEW x \in RefundReceipts, SetsAside(h, x)
        PROVE  refundInbox[rc] = "quarantined" \/ x = rc
    BY <1>0, <1>6, <2>2 DEF SettleRefund, SetsAside
  <2>3. UNCHANGED refundInbox => refundInbox[rc] = "quarantined"
    BY <1>6
  <2>4. ASSUME NEW x, refundInbox' = [refundInbox EXCEPT ![x] = "pending"] PROVE refundInbox[rc] = "quarantined"
    BY <1>0, <1>6, <2>4
  <2>5. /\ UNCHANGED <<intent, observed, refundInbox>> => UNCHANGED refundInbox
        /\ UNCHANGED <<observed, refundInbox, sub, mandate, cycles, recovery>> => UNCHANGED refundInbox
    OBVIOUS
  <2> QED BY <2>1, <2>2, <2>3, <2>4, <2>5, RefundKinds, Zenon DEF Notices, Issuing, Concluding
<1>7. ASSUME NEW rc \in RefundReceipts, refundInbox'[rc] = "quarantined"
      PROVE  \E x \in RefundIds : /\ refund[x].of = refund[rc[1]].of /\ observed'[x] = "processed"
                                  /\ \A e \in Sights(refund[rc[1]].of)' : Shows(e, x, rc)
  BY <1>4, <1>5, <1>6, <1>7 DEF RecordIInv, Overtaken
<1> QED BY <1>7 DEF Overtaken, Shows

(* The provider issues no refund of a payment that is back in full.         *)
LEMMA RowsOfMove ==
  ASSUME TypeIInv, SightIInv, NEW r \in RefundIds, Moving(r), NEW q \in Payments
  PROVE  RefundsOf(q)' = RefundsOf(q) \/ \E n : n \in 1..Returnable(q)
<1>0. RefundTypeOK
  BY DEF TypeIInv
<1>1. ASSUME NEW p \in Payments, NEW n \in 1..Price, Issuing(r, p, n)
      PROVE  RefundsOf(q)' = RefundsOf(q) \/ n \in 1..Returnable(q)
  <2>1. n \in 1..Returnable(p) /\ \E ours : Issues(r, p, n, ours)
    BY <1>1, Zenon DEF Issuing
  <2>2. p # q => RefundsOf(q)' = RefundsOf(q)
    BY <2>1 DEF Issues, RefundsOf
  <2> QED BY <2>1, <2>2, Zenon
<1>2. ASSUME NEW s \in {"processed", "failed"}, Concluding(r, s) PROVE RefundsOf(q)' = RefundsOf(q)
  <2>1. Concludes(r, s) /\ s # "none"
    BY <1>2 DEF Concluding
  <2> QED BY <2>1 DEF Concludes, RefundsOf
<1> QED BY <1>1, <1>2, Zenon DEF Moving

LEMMA RecordsMove ==
  ASSUME TypeIInv, TypeIInv', SightIInv, RecordIInv, NEW r \in RefundIds, Moving(r) PROVE RecordIInv'
<1>0. RefundTypeOK /\ UNCHANGED <<intent, observed>>
  BY RowsGrow DEF TypeIInv
<1>1. \A R : R \subseteq Issued => Amount(R)' = Amount(R)
  <2> SUFFICES ASSUME NEW R, R \subseteq Issued PROVE Amount(R)' = Amount(R)
    OBVIOUS
  <2>1. \A x \in R : refund'[x].amount = refund[x].amount
    BY <1>0, RowsGrow DEF Issued
  <2> QED BY <2>1, AmountStays
<1>2. Finite'
  <2>1. Issued' \in SUBSET (Issued \cup {r})
    BY <1>0, RowsGrow DEF Issued
  <2>2. IsFiniteSet(Issued \cup {r})
    BY FS_AddElement DEF RecordIInv, Finite
  <2> QED BY <2>1, <2>2, FS_Subset DEF Finite
<1>3. ASSUME NEW q \in Payments, NEW e \in Sights(q)
      PROVE  /\ Spent(e)' <=> Spent(e)
             /\ Spent(e) => RefundsOf(q)' = RefundsOf(q)
  <2>1. Processed(e) \subseteq Issued /\ (Spent(e) => \A n \in 1..Returnable(q) : FALSE)
    BY SpentAll DEF RecordIInv
  <2>2. Amount(Processed(e))' = Amount(Processed(e))
    BY <1>1, <2>1
  <2> QED BY <2>1, <2>2, RowsOfMove DEF Spent, Processed
<1>4. Exhausted'
  <2>1. ASSUME NEW q \in Payments, NEW e \in Sights(q)', Spent(e)' PROVE RefundsOf(q)' \subseteq DOMAIN e
    <3>1. CASE e = Inventory(q)'
      BY <3>1 DEF Inventory
    <3>2. CASE e \in Sights(q)
      <4>1. Spent(e) /\ RefundsOf(q)' = RefundsOf(q)
        BY <1>3, <2>1, <3>2
      <4> QED BY <3>2, <4>1 DEF RecordIInv, Exhausted
    <3> QED BY <2>1, <3>1, <3>2, SightsGrow
  <2> QED BY <2>1 DEF Exhausted
<1>5. Closed'
  <2>1. ASSUME NEW q \in Payments, intent[q].state = "external"
        PROVE  (\A x \in RefundsOf(q)' : ~refund'[x].ours) /\ Spent(Inventory(q))'
    <3>1. (\A x \in RefundsOf(q) : ~refund[x].ours) /\ Spent(Inventory(q)) /\ Inventory(q) \in Sights(q)
      BY <2>1, SightsAre DEF RecordIInv, Closed
    <3>2. RefundsOf(q)' = RefundsOf(q) /\ Processed(Inventory(q)) \subseteq RefundsOf(q) /\ RefundsOf(q) \subseteq Issued
      BY <1>3, <3>1, SpentAll DEF RecordIInv
    <3>3. \A x \in RefundsOf(q) : refund'[x].ours = refund[x].ours
      BY <1>0, RowsGrow DEF RefundsOf
    <3> DEFINE later == Processed(Inventory(q)')
    <3>4. Processed(Inventory(q)) \subseteq later /\ later \subseteq RefundsOf(q)'
      <4>1. Before(Inventory(q), Inventory(q)')
        BY SightsGrow
      <4>2. DOMAIN Inventory(q)' = RefundsOf(q)'
        BY DEF Inventory
      <4> QED BY <4>1, <4>2 DEF Before, Processed
    <3>5. /\ Amount(Processed(Inventory(q))) <= Amount(later)
          /\ Amount(Processed(Inventory(q))) \in Nat /\ Amount(later) \in Nat
      <4> HIDE DEF later
      <4>1. later \subseteq Issued
        BY <3>2, <3>4
      <4> QED BY <3>4, <4>1, AmountGrows DEF RecordIInv, Finite
    <3>6. Spent(Inventory(q))' <=> Amount(later) >= Price
      <4>1. PICK S : S = later
        OBVIOUS
      <4>2. Amount(S)' = Amount(S)
        BY <1>1, <3>2, <3>4, <4>1
      <4>3. Spent(Inventory(q))' <=> Amount(S)' >= Price
        BY <4>1 DEF Spent, Processed, Amount
      <4> QED BY <4>1, <4>2, <4>3
    <3>7. Amount(later) >= Price
      <4> HIDE DEF later
      <4> QED BY <3>1, <3>5, ReversalAssumption DEF Spent
    <3> QED BY <3>1, <3>2, <3>3, <3>6, <3>7
  <2> QED BY <1>0, <2>1 DEF Closed
<1>6. Overtaken'
  <2> SUFFICES ASSUME NEW rc \in RefundReceipts, refundInbox'[rc] = "quarantined"
               PROVE  \E x \in RefundIds : /\ refund'[x].of = refund'[rc[1]].of /\ observed'[x] = "processed"
                                           /\ \A e \in Sights(refund[rc[1]].of)' : Shows(e, x, rc)
    BY DEF Overtaken, Shows
  <2>0. rc[1] \in RefundIds
    BY DEF RefundReceipts
  <2>1. refundInbox[rc] = "quarantined"
    <3>1. refundInbox \in [RefundReceipts -> {"none", "pending", "processed", "quarantined"}]
      BY <1>0 DEF RefundTypeOK
    <3>2. \E x : refundInbox' = [refundInbox EXCEPT ![x] = "pending"]
      BY Zenon DEF Moving, Issuing, Concluding
    <3> QED BY <3>1, <3>2
  <2>2. PICK x \in RefundIds : /\ refund[x].of = refund[rc[1]].of /\ observed[x] = "processed"
                               /\ \A e \in Sights(refund[rc[1]].of) : Shows(e, x, rc)
    BY <2>1 DEF RecordIInv, Overtaken
  <2>3. refund[rc[1]].status # "none" /\ refund[x].status # "none"
    BY <2>1, <2>2 DEF SightIInv, Arrived, Traced
  <2>4. refund'[rc[1]].of = refund[rc[1]].of /\ refund'[x].of = refund[x].of
    BY <1>0, <2>0, <2>3, RowsGrow
  <2>5. PICK q \in Payments : q = refund[rc[1]].of
    BY <1>0, <2>0 DEF RefundTypeOK, Refunds
  <2>6. Sights(refund[rc[1]].of)' = Sights(q)'
    BY <2>4, <2>5 DEF Sights, Inventory, Noted, Known, RefundsOf, Views, Looking
  <2>7. x \in DOMAIN Noted(q) /\ Noted(q)[x] = "processed"
    <3>1. x \in Known(q)
      BY <2>2, <2>3, <2>5 DEF Known, RefundsOf
    <3> QED BY <2>2, <3>1 DEF Noted
  <2>8. rc[1] \in DOMAIN Noted(q) /\ (rc[2] = "pending" \/ Noted(q)[rc[1]] = rc[2])
    <3>1. Shows(Noted(q), x, rc)
      BY <2>2, <2>5, SightsAre, Zenon
    <3> QED BY <2>7, <3>1 DEF Shows
  <2>9. Before(Noted(q), Inventory(q)')
    <3>1. Before(Noted(q), Inventory(q))
      BY SightsAre, Zenon DEF SightIInv, Latest
    <3>2. Before(Inventory(q), Inventory(q)')
      BY SightsGrow
    <3> QED BY <3>1, <3>2, BeforeAll, Zenon
  <2>10. Shows(Inventory(q)', x, rc)
    <3> DEFINE e == Noted(q)
               f == Inventory(q)'
    <3> HIDE DEF e, f
    <3>1. rc[1] \in DOMAIN e /\ (rc[2] = "pending" \/ e[rc[1]] = rc[2]) /\ Before(e, f)
      BY <2>8, <2>9 DEF e, f
    <3>2. Shows(f, x, rc)
      BY <3>1 DEF Before, Shows
    <3> QED BY <3>2 DEF f
  <2>11. ASSUME NEW e \in Sights(q)' PROVE Shows(e, x, rc)
    <3>1. e = Inventory(q)' \/ e \in Sights(q)
      BY <2>11, SightsGrow
    <3>2. e \in Sights(q) => Shows(e, x, rc)
      BY <2>2, <2>5
    <3> QED BY <2>10, <3>1, <3>2
  <2> QED BY <1>0, <2>2, <2>4, <2>6, <2>11
<1> QED BY <1>2, <1>4, <1>5, <1>6 DEF RecordIInv

LEMMA RecordStep ==
  ASSUME TypeIInv, SightIInv, RecordIInv, [ReversalNext]_allVars PROVE RecordIInv'
<1>1. CASE UNCHANGED allVars
  <2>1. UNCHANGED <<handler, refund, observed, refundInbox, intent>>
    BY <1>1 DEF allVars, vars, refundVars
  <2>2. \A p \in Payments : RefundsOf(p)' = RefundsOf(p) /\ Inventory(p)' = Inventory(p) /\ Sights(p)' = Sights(p)
    BY <2>1 DEF Sights, Views, Inventory, Noted, Known, RefundsOf, Looking
  <2>3. Finite'
    BY <2>1 DEF RecordIInv, Finite, Issued
  <2>4. Exhausted' /\ Closed'
    BY <2>1, <2>2 DEF RecordIInv, Exhausted, Closed, Spent, Processed, Amount
  <2>5. \A rc \in RefundReceipts : Sights(refund[rc[1]].of)' = Sights(refund[rc[1]].of)
    BY <2>1 DEF Sights, Views, Inventory, Noted, Known, RefundsOf, Looking
  <2>6. Overtaken'
    BY <2>1, <2>5 DEF RecordIInv, Overtaken, Shows
  <2> QED BY <2>3, <2>4, <2>6 DEF RecordIInv
<1>2. CASE Steps /\ UNCHANGED refund
  <2>1. Finite'
    BY <1>2 DEF RecordIInv, Finite, Issued
  <2>2. \A q \in Payments : RefundsOf(q)' = RefundsOf(q) /\ Sights(q)' \subseteq Sights(q)
    <3>1. UNCHANGED observed \/ \E h \in Handlers, p \in Payments : Records(h, p)
      BY <1>2, Observes, Zenon DEF Notes
    <3> QED BY <1>2, <3>1, HandlersLook, SightsKept
  <2>3. \A e : Spent(e)' <=> Spent(e)
    BY <1>2, StandsSpent
  <2>4. Exhausted'
    BY <2>2, <2>3 DEF RecordIInv, Exhausted
  <2> QED BY <1>2, <2>1, <2>4, ClosedStays, OvertakenStays DEF RecordIInv
<1>3. CASE Steps /\ ~UNCHANGED refund
  <2>1. TypeIInv'
    BY TypesStep
  <2>2. \E r \in RefundIds : Moving(r)
    BY <1>3, RefundKinds, Zenon DEF Moving
  <2> QED BY <2>1, <2>2, RecordsMove
<1> QED BY <1>1, <1>2, <1>3, EveryStep

LEMMA InitialRecords == RefundInit => RecordIInv
<1> SUFFICES ASSUME RefundInit PROVE RecordIInv
  OBVIOUS
<1>1. /\ \A r \in RefundIds : refund[r].status = "none" /\ observed[r] = "none"
      /\ \A rc \in RefundReceipts : refundInbox[rc] = "none"
      /\ \A p \in Payments : intent[p].state = "none"
  BY DEF RefundInit, NoRefund, NoIntent
<1>2. Finite
  <2>1. Issued = {}
    BY <1>1 DEF Issued
  <2> QED BY <2>1, FS_EmptySet DEF Finite
<1>3. Exhausted /\ Closed /\ Overtaken
  <2>1. \A p : RefundsOf(p) = {}
    BY <1>1 DEF RefundsOf
  <2> QED BY <1>1, <2>1 DEF Exhausted, Closed, Overtaken
<1> QED BY <1>2, <1>3 DEF RecordIInv

LEMMA SetAsideKnown ==
  ASSUME TypeIInv, SightIInv, RecordIInv PROVE RefundsOnRecord
<1>1. ExternalMeansUnused
  BY DEF RecordIInv, Closed, ExternalMeansUnused
<1>2. SetAsideIsKnown
  <2> SUFFICES ASSUME NEW rc \in RefundReceipts, refundInbox[rc] = "quarantined"
               PROVE  observed[rc[1]] \in {rc[2], "processed", "failed"}
    BY DEF SetAsideIsKnown
  <2> DEFINE p == refund[rc[1]].of
  <2>1. PICK x \in RefundIds : /\ refund[x].of = p /\ observed[x] = "processed"
                               /\ \A e \in Sights(p) : Shows(e, x, rc)
    BY DEF RecordIInv, Overtaken
  <2>2. Shows(Noted(p), x, rc)
    BY <2>1, SightsAre, Zenon
  <2>3. x \in Known(p)
    BY <2>1 DEF Known, RefundsOf, SightIInv, Traced
  <2>4. rc[1] \in Known(p) /\ (rc[2] = "pending" \/ observed[rc[1]] = rc[2])
    BY <2>1, <2>2, <2>3 DEF Shows, Noted
  <2>5. rc[1] \in RefundIds /\ observed[rc[1]] \in {"pending", "processed", "failed"}
    BY <2>4 DEF Known, RefundsOf, TypeIInv, RefundTypeOK
  <2> QED BY <2>4, <2>5
<1> QED BY <1>1, <1>2 DEF RefundsOnRecord

(* However late an inventory is written down, and in whatever order: an     *)
(* intent is closed for good only when its request never returned money,    *)
(* and a receipt is set aside only when what it reports is on record.       *)
THEOREM RecordsAreTrue == ReversalSpec => []RefundsOnRecord
<1> DEFINE IInv == TypeIInv /\ SightIInv /\ RecordIInv
<1>1. RefundInit => IInv
  BY InitialTypes, InitialSights, InitialRecords
<1>2. IInv /\ [ReversalNext]_allVars => IInv'
  BY TypesStep, SightStep, RecordStep
<1>3. IInv => RefundsOnRecord
  BY SetAsideKnown
<1> HIDE DEF IInv
<1> QED BY <1>1, <1>2, <1>3, PTL DEF ReversalSpec
-----------------------------------------------------------------------------
(* The plan is to be had as it was paid.  Terms on record stand where they  *)
(* are; a new one begins where the last of them ends or later.              *)
TermsStand ==
  /\ cycles' = cycles /\ sub'.start = sub.start /\ sub'.end = sub.end
  /\ \A c \in cycles : PeriodStart(c)' = PeriodStart(c) /\ PeriodEnd(c)' = PeriodEnd(c)

TermAdded(c) ==
  /\ c \in Cycles \ cycles /\ cycles' = cycles \cup {c}
  /\ \A d \in Cycles : PeriodStart(d)' = PeriodStart(d) /\ PeriodEnd(d)' = PeriodEnd(d)
  /\ \A d \in cycles : PeriodEnd(d) <= PeriodStart(c)
  /\ CycleLen <= PeriodStart(c) /\ sub.end <= PeriodStart(c) /\ PeriodStart(c) <= now
  /\ PeriodStart(c) \in Nat /\ PeriodEnd(c) = PeriodStart(c) + CycleLen /\ PeriodEnd(c) = sub'.end
  /\ sub'.start = (IF PeriodStart(c) > sub.end \/ sub.refunded THEN PeriodStart(c) ELSE sub.start)
  /\ ~sub'.refunded /\ sub'.grace = None

LEMMA EnrolledStand ==
  ASSUME TypeIInv, TermIInv, UNCHANGED cycles, NEW m \in Mandates,
         Started(m) \/ Advanced(m) \/ \E h \in Handlers : Attached(h, m)
  PROVE  TermsStand
<1>1. sub \in Subscriptions /\ \A c \in cycles : c[1] \in Mandates
  BY DEF TypeIInv, RefundTypeOK, TypeOK, Cycles
<1>2. sub'.start = sub.start /\ sub'.end = sub.end
  BY <1>1 DEF Started, Advanced, Attached, Expired, Readied, Subscriptions
<1>3. \A c \in cycles : mandate'[c[1]].start = mandate[c[1]].start
  <2>1. ASSUME NEW c \in cycles, c[1] = m PROVE mandate'[m].start = mandate[m].start
    BY <2>1 DEF TermIInv, Begun, Started, Fresh, Advanced, Attached, Expired, Readied, Moved
  <2>2. \A n \in Mandates \ {m} : mandate'[n] = mandate[n]
    BY DEF Started, Advanced, Attached, Expired, Readied, Moved
  <2> QED BY <1>1, <2>1, <2>2
<1> QED BY <1>2, <1>3, PeriodsKept DEF TermsStand

LEMMA RenewalAdds ==
  ASSUME TypeIInv, TermIInv, NEW h \in Handlers, NEW c \in Cycles, Renews(h, c) PROVE TermAdded(c)
<1> DEFINE m == c[1]
<1>1. /\ TypeOK /\ cycles \subseteq Cycles /\ m \in Mandates
      /\ PeriodStart(c) \in Nat /\ PeriodEnd(c) = PeriodStart(c) + CycleLen
      /\ mandate[m].start \in Nat /\ mandate[m].start <= PeriodStart(c)
  BY Periods DEF TypeIInv, RefundTypeOK, TypeOK
<1>2. /\ sub' = Renewed(c) /\ cycles' = cycles \cup {c} /\ c \notin cycles
      /\ UNCHANGED mandate \/ Moved(m, "completed", FALSE, mandate[m].start)
      /\ mandate[m].state = "ready" /\ PeriodStart(c) = Expected(m) /\ PeriodStart(c) <= now
  BY Zenon DEF Renews
<1>3. /\ sub'.end = PeriodEnd(c) /\ ~sub'.refunded /\ sub'.grace = None
      /\ sub'.start = (IF PeriodStart(c) > sub.end \/ sub.refunded THEN PeriodStart(c) ELSE sub.start)
  BY <1>1, <1>2, RenewedMoves
<1>4. \A d \in Cycles : PeriodStart(d)' = PeriodStart(d) /\ PeriodEnd(d)' = PeriodEnd(d)
  <2>1. \A n \in Mandates : mandate'[n].start = mandate[n].start
    BY <1>2 DEF Moved
  <2>2. \A d \in Cycles : d[1] \in Mandates
    BY DEF Cycles
  <2> QED BY <2>1, <2>2, PeriodsKept
<1>5. CycleLen <= PeriodStart(c)
  <2>1. CycleLen <= mandate[m].start
    BY <1>1, <1>2 DEF TermIInv, Begun
  <2> QED BY <1>1, <2>1, RenewalAssumption
<1>6. ASSUME NEW d \in cycles PROVE PeriodEnd(d) <= PeriodStart(c) /\ PeriodEnd(d) \in Nat
  <2>1. PeriodEnd(d) \in Nat
    BY <1>1, Periods, RenewalAssumption
  <2>2. CASE d[1] = m
    <3>1. d \in Applied(m)
      BY <2>2 DEF Applied
    <3> QED BY <1>1, <1>2, <2>1, <3>1, ExpectedIsMax
  <2>3. CASE d[1] # m
    <3>1. PeriodEnd(d) <= mandate[m].start
      BY <1>1, <1>2, <2>3 DEF TermIInv, Placeholder, Held, Behind
    <3> HIDE DEF m
    <3> QED BY <1>1, <2>1, <3>1
  <2> QED BY <2>2, <2>3
<1>7. sub.end <= PeriodStart(c)
  <2>1. sub.end = CycleLen \/ \E d \in cycles : sub.end = PeriodEnd(d)
    BY <1>1, PaidEndIsMax DEF TermIInv
  <2> QED BY <1>5, <1>6, <2>1
<1> QED BY <1>1, <1>2, <1>3, <1>4, <1>5, <1>6, <1>7, Zenon DEF TermAdded

LEMMA TermKinds ==
  ASSUME TypeIInv, TermIInv, Steps
  PROVE  TermsStand \/ \E h \in Handlers, c \in Cycles : Renews(h, c) /\ TermAdded(c)
<1>1. Quiet => TermsStand
  BY PeriodsKept DEF Quiet, SameTerm, TermsStand
<1>2. ASSUME NEW m \in Mandates, UNCHANGED <<now, cycles, inbox>>,
             Started(m) \/ Advanced(m) \/ \E h \in Handlers : Attached(h, m)
      PROVE  TermsStand
  BY <1>2, EnrolledStand
<1> QED BY <1>1, <1>2, RenewalAdds, StepKinds, Zenon

(* Time only passes, and a step that makes it pass does nothing else here.  *)
Ticks == now' = now + 1 /\ UNCHANGED <<sub, mandate, cycles>>

LEMMA ClockMoves == ASSUME TypeIInv, Steps PROVE UNCHANGED now \/ Ticks
<1>1. ASSUME NEW h \in Handlers, Reads(h) PROVE UNCHANGED now
  BY <1>1, ReadsBooks DEF Books
<1>2. ASSUME NEW h \in Handlers, Writes(h) PROVE UNCHANGED now
  <2>1. ASSUME NEW m \in Mandates, EnrolNew(h, m) \/ ClaimDispatch(h, m) \/ EnrolmentUncertain(h, m) \/ Attach(h, m)
        PROVE  UNCHANGED now
    BY <2>1, Zenon DEF EnrolNew, ClaimDispatch, EnrolmentUncertain, Attach
  <2>2. ASSUME NEW c \in Cycles, ApplyCharge(h, c) \/ \E r \in Failures(c), g \in Grace : ApplyFailure(h, r, g)
        PROVE  UNCHANGED now
    BY <2>2, Zenon DEF ApplyCharge, ApplyFailure
  <2>3. ASSUME NEW m \in Mandates, Cancels(h, m) PROVE UNCHANGED now
    BY <2>3, CancelMoves, Zenon
  <2> QED BY <1>2, <2>1, <2>2, <2>3, RefundMoves, ReceiptMoves, Zenon DEF Writes, Cancels
<1>3. ASSUME NEW c \in Cycles, NEW r \in Failures(c), RejectFailure(r) PROVE UNCHANGED now
  BY <1>3, Zenon DEF RejectFailure
<1>4. ASSUME ProviderActs PROVE UNCHANGED now \/ Ticks
  BY <1>4, Zenon DEF ProviderActs, Environment, Ticks, Tick, SetAccount, ExecuteCreate, Expires, ChargeSucceeds, ChargeFails,
     ProviderStops, ProviderRefunds, RefundSettles, vars
<1> QED BY <1>1, <1>2, <1>3, <1>4, Zenon DEF Steps

LEMMA TimePasses == ASSUME TypeIInv, Steps PROVE now \in Nat /\ now' \in Nat /\ now <= now'
<1>1. now \in Nat
  BY RenewalAssumption DEF TypeIInv, RefundTypeOK, TypeOK
<1> QED BY <1>1, ClockMoves DEF Ticks

(* What access rests on: the plan started, no moment of it is outside the   *)
(* paid terms, and no deadline is further than the longest grace.           *)
StartPast == sub.start <= now
Covered   == \A t \in Nat : sub.start <= t /\ t < sub.end =>
               t < CycleLen \/ \E c \in cycles : PeriodStart(c) <= t /\ t < PeriodEnd(c)
ShortGrace(g) == g # None /\ g <= sub.end + Max(Grace)
GraceShort == /\ sub.grace # None => ShortGrace(sub.grace)
              /\ \A c \in Cycles : recovery[c].open => ShortGrace(recovery[c].grace)

ServedIInv == StartPast /\ Covered /\ GraceShort

LEMMA LongestGrace == Max(Grace) \in 0..MaxGrace /\ \A g \in Grace : g \in Nat /\ g <= Max(Grace)
<1>1. Grace \in SUBSET Int /\ MaxGrace \in Int /\ \A g \in Grace : g <= MaxGrace
  BY RenewalAssumption
<1>2. Max(Grace) \in Grace /\ \A g \in Grace : g <= Max(Grace)
  BY <1>1, RenewalAssumption, MaxBounded
<1>3. \A g \in Grace : g \in Nat /\ g \in 0..MaxGrace
  BY RenewalAssumption
<1> QED BY <1>2, <1>3

LEMMA CoveredKept ==
  ASSUME TypeIInv, TermIInv, Covered, Steps PROVE Covered'
<1>0. sub.start \in Nat /\ sub.end \in Nat
  BY RenewalAssumption DEF TypeIInv, RefundTypeOK, TypeOK, Subscriptions
<1>1. CASE TermsStand
  BY <1>1 DEF TermsStand, Covered
<1>2. ASSUME NEW c \in Cycles, TermAdded(c) PROVE Covered'
  <2>1. /\ cycles' = cycles \cup {c} /\ cycles \subseteq Cycles
        /\ \A d \in Cycles : PeriodStart(d)' = PeriodStart(d) /\ PeriodEnd(d)' = PeriodEnd(d)
    BY <1>2 DEF TermAdded, TypeIInv, RefundTypeOK, TypeOK
  <2>2. /\ sub.end <= PeriodStart(c) /\ PeriodStart(c) \in Nat /\ PeriodEnd(c) = sub'.end
        /\ sub'.start = (IF PeriodStart(c) > sub.end \/ sub.refunded THEN PeriodStart(c) ELSE sub.start)
    BY <1>2 DEF TermAdded
  <2> SUFFICES ASSUME NEW t \in Nat, sub'.start <= t, t < sub'.end
               PROVE  t < CycleLen \/ \E d \in cycles \cup {c} : PeriodStart(d) <= t /\ t < PeriodEnd(d)
    BY <2>1 DEF Covered
  <2>3. CASE PeriodStart(c) <= t
    BY <2>2, <2>3
  <2>4. CASE t < PeriodStart(c)
    <3>1. sub.start <= t /\ t < sub.end
      BY <1>0, <2>2, <2>4
    <3> QED BY <3>1 DEF Covered
  <2> QED BY <2>2, <2>3, <2>4
<1> QED BY <1>1, <1>2, TermKinds

LEMMA StartKept ==
  ASSUME TypeIInv, TermIInv, StartPast, Steps PROVE StartPast'
<1>0. sub.start \in Nat /\ now \in Nat /\ now' \in Nat /\ now <= now'
  BY TimePasses, RenewalAssumption DEF TypeIInv, RefundTypeOK, TypeOK, Subscriptions
<1>1. CASE TermsStand
  BY <1>0, <1>1 DEF TermsStand, StartPast
<1>2. ASSUME NEW c \in Cycles, TermAdded(c) PROVE StartPast'
  <2>1. sub'.start = sub.start \/ (sub'.start = PeriodStart(c) /\ PeriodStart(c) <= now /\ PeriodStart(c) \in Nat)
    BY <1>2 DEF TermAdded
  <2> QED BY <1>0, <2>1 DEF StartPast
<1> QED BY <1>1, <1>2, TermKinds

LEMMA GraceShortKept ==
  ASSUME TypeIInv, TermIInv, FailureSeen, GraceShort, Steps PROVE GraceShort'
<1>0. /\ TypeOK /\ sub \in Subscriptions /\ sub.end \in Nat
      /\ sub.grace \in Nat \cup {None} /\ \A c \in Cycles : recovery[c].grace \in Nat \cup {None}
  BY RenewalAssumption DEF TypeIInv, RefundTypeOK, TypeOK, Subscriptions, Cases
<1>1. ASSUME UNCHANGED recovery, sub'.end = sub.end, sub'.grace \in {sub.grace, None} PROVE GraceShort'
  BY <1>1 DEF GraceShort, ShortGrace
<1>2. UNCHANGED <<claim, recovery, sub, mandate, cycles>> => GraceShort'
  BY <1>1
<1>3. ASSUME NEW m \in Mandates, Enrolling(m) PROVE GraceShort'
  BY <1>1, <1>3 DEF Enrolling
<1>4. ASSUME NEW h \in Handlers, NEW m \in Mandates, Enrols(h, m) PROVE GraceShort'
  <2>1. sub'.end = sub.end /\ sub'.grace = sub.grace /\ UNCHANGED recovery
    BY <1>0, <1>4 DEF Enrols, Attached, Readied, Expired, Subscriptions
  <2> QED BY <1>1, <2>1
<1>5. ASSUME NEW h \in Handlers, NEW c \in Cycles, Renews(h, c) PROVE GraceShort'
  <2>1. sub'.grace = None /\ sub'.end \in Nat /\ sub.end <= sub'.end
    <3>1. /\ sub'.grace = None /\ sub'.end = PeriodStart(c) + CycleLen
          /\ PeriodStart(c) \in Nat /\ sub.end <= PeriodStart(c)
      BY <1>5, RenewalAdds DEF TermAdded
    <3> QED BY <1>0, <3>1, RenewalAssumption
  <2>2. \A d \in Cycles : recovery'[d].open = recovery[d].open /\ recovery'[d].grace = recovery[d].grace
    <3>1. recovery' = [recovery EXCEPT ![c].resolved = recovery[c].open]
      BY <1>5, Zenon DEF Renews
    <3> QED BY <1>0, <3>1, ResolvedMoves
  <2>3. ASSUME NEW d \in Cycles, recovery[d].open PROVE ShortGrace(recovery[d].grace)'
    <3> DEFINE g == recovery[d].grace
    <3>1. g # None /\ g \in Nat /\ g <= sub.end + Max(Grace)
      BY <1>0, <2>3 DEF GraceShort, ShortGrace
    <3>2. recovery'[d].grace = g
      BY <2>2
    <3> HIDE DEF g
    <3>3. g <= sub'.end + Max(Grace)
      BY <1>0, <2>1, <3>1, LongestGrace, RenewalAssumption
    <3> QED BY <3>1, <3>2, <3>3 DEF ShortGrace
  <2> QED BY <2>1, <2>2, <2>3 DEF GraceShort
<1>6. ASSUME NEW h \in Handlers, NEW c \in Cycles, NEW r \in Failures(c), NEW g \in Grace, Owes(h, c, r, g)
      PROVE  GraceShort'
  <2>1. PICK u \in Cycles \ cycles : OpensCase(u, g)
    BY <1>6, OwesMoves
  <2>2. /\ SameTerm /\ sub'.grace = Deadline(u, g) /\ recovery'[u].grace = Deadline(u, g)
        /\ \A v \in Cycles \ {u} : recovery'[v] = recovery[v]
    BY <1>0, <2>1, OpensCaseMoves
  <2>3. ShortGrace(Deadline(u, g))
    <3>1. CASE recovery[u].open
      BY <3>1 DEF Deadline, GraceShort
    <3>2. CASE ~recovery[u].open
      <4>1. Deadline(u, g) = sub.end + g
        BY <3>2 DEF Deadline
      <4> QED BY <1>0, <4>1, LongestGrace, RenewalAssumption DEF ShortGrace
    <3> QED BY <3>1, <3>2
  <2> QED BY <2>1, <2>2, <2>3 DEF GraceShort, ShortGrace, SameTerm
<1>7. ASSUME NEW h \in Handlers, NEW m \in Mandates, Cancels(h, m) PROVE GraceShort'
  <2>1. UNCHANGED recovery /\ (UNCHANGED sub \/ Confirm(m))
    BY <1>7, CancelMoves, Zenon
  <2>2. sub'.end = sub.end /\ sub'.grace \in {sub.grace, None}
    BY <1>0, <2>1, ConfirmMoves DEF SameTerm
  <2> QED BY <1>1, <2>1, <2>2
<1>8. ASSUME NEW h \in Handlers, NEW p \in Payments, Notes(h, p) PROVE GraceShort'
  <2>1. SameTerm /\ (sub' = sub \/ sub'.grace = None) /\ UNCHANGED recovery
    BY <1>0, <1>8, ObserveMoves, Zenon DEF Notes, Records
  <2> QED BY <1>1, <2>1 DEF SameTerm
<1> QED BY <1>2, <1>3, <1>4, <1>5, <1>6, <1>7, <1>8, PlanKinds, Zenon

LEMMA ServedStep ==
  ASSUME TypeIInv, TermIInv, DebtIInv, ServedIInv, [ReversalNext]_allVars PROVE ServedIInv'
<1>1. CASE UNCHANGED allVars
  BY <1>1 DEF allVars, vars, ServedIInv, StartPast, Covered, GraceShort, ShortGrace, PeriodStart, PeriodEnd
<1>2. CASE Steps
  BY <1>2, StartKept, CoveredKept, GraceShortKept DEF ServedIInv, DebtIInv
<1> QED BY <1>1, <1>2, EveryStep

LEMMA InitialServed == RefundInit => ServedIInv
<1> SUFFICES ASSUME RefundInit PROVE ServedIInv
  OBVIOUS
<1>1. /\ sub.start = 0 /\ now = 0 /\ sub.end = CycleLen /\ sub.grace = None
      /\ \A c \in Cycles : ~recovery[c].open
  BY DEF RefundInit, Init, NoCase
<1> QED BY <1>1 DEF ServedIInv, StartPast, Covered, GraceShort

(* Served in every paid term that was not returned, and in no other time    *)
(* but the grace of a debt.                                                 *)
LEMMA ServedAsPaid ==
  ASSUME TypeIInv, TermIInv, DebtIInv, ServedIInv PROVE ServedUnlessReturned /\ EarnedOnly
<1>0. /\ TypeOK /\ now \in Nat /\ sub.end \in Nat /\ sub.start \in Nat /\ sub.end = PaidEnd
      /\ sub.grace \in Nat \cup {None} /\ cycles \subseteq Cycles
  BY RenewalAssumption DEF TypeIInv, RefundTypeOK, TypeOK, Subscriptions, TermIInv
<1>1. ServedUnlessReturned
  <2> SUFFICES ASSUME ~sub.refunded, now < CycleLen \/ \E c \in cycles : InTerm(c)
               PROVE  now >= sub.start /\ now < sub.end
    BY DEF ServedUnlessReturned, PaidServed, Entitled
  <2>1. CycleLen <= sub.end /\ \A c \in cycles : PeriodEnd(c) <= sub.end /\ PeriodEnd(c) \in Nat
    BY <1>0, PaidEndIsMax, Periods, RenewalAssumption
  <2>2. now < sub.end
    BY <1>0, <2>1, RenewalAssumption DEF InTerm
  <2> QED BY <1>0, <2>2 DEF ServedIInv, StartPast
<1>2. EarnedOnly
  <2> SUFFICES ASSUME now >= sub.start, now < sub.end \/ InGrace
               PROVE  \/ now < CycleLen \/ \E c \in cycles : InTerm(c)
                      \/ now < PaidEnd + Max(Grace) /\ \E c \in Cycles : Owing(c)
    BY DEF EarnedOnly, Entitled
  <2>1. CASE now < sub.end
    BY <1>0, <2>1 DEF ServedIInv, Covered, InTerm
  <2>2. CASE InGrace
    <3>1. sub.status = "grace" /\ sub.grace # None /\ now < sub.grace
      BY <2>2 DEF InGrace
    <3>2. sub.grace <= PaidEnd + Max(Grace)
      BY <1>0, <3>1 DEF ServedIInv, GraceShort, ShortGrace
    <3>3. now < PaidEnd + Max(Grace)
      BY <1>0, <3>1, <3>2, LongestGrace, RenewalAssumption
    <3>4. \E c \in Cycles : Owing(c)
      BY <1>0, <3>1 DEF DebtIInv, Reduced, Owing
    <3> QED BY <3>3, <3>4
  <2> QED BY <2>1, <2>2
<1> QED BY <1>1, <1>2

(* Only payments on file are looked at, asked back and written about.       *)
Asking(h, p) == Looking(h, p) \/ (handler[h].pc = "refunding" /\ handler[h].of = p)

Visited ==
  /\ \A h \in Handlers, p \in Payments : Asking(h, p) => OnFile(p)
  /\ \A r \in RefundIds : observed[r] # "none" => OnFile(refund[r].of)

LEMMA FilesKept == ASSUME TypeIInv, TermIInv, Steps, NEW p, OnFile(p) PROVE OnFile(p)'
<1>1. cycles \subseteq cycles'
  BY TermKinds DEF TermsStand, TermAdded
<1> QED BY <1>1 DEF OnFile

LEMMA AsksOnFile ==
  ASSUME TypeIInv, Visited, UNCHANGED refund, NEW k \in Handlers, NEW q \in Payments,
         handler'[k] = handler[k] \/ Sees(k), Asking(k, q)'
  PROVE  OnFile(q)
<1>1. CASE handler'[k] = handler[k]
  <2>1. Asking(k, q)
    BY <1>1 DEF Asking, Looking
  <2> QED BY <2>1 DEF Visited
<1>2. CASE Sees(k)
  <2>1. ~Elsewhere(handler'[k])
    BY DEF Elsewhere, Asking, Looking, Reviews
  <2>2. ASSUME NEW p \in Payments, handler'[k].of = p, handler'[k].pc \in {"refund", "refunding", "refunded"}
        PROVE  p = q
    BY <2>2 DEF Asking, Looking, Settlements
  <2>3. ASSUME NEW p \in Payments, handler[k].of = p, handler[k].pc = "refund" \/ handler[k].pc = "refunding"
        PROVE  OnFile(p)
    <3>1. Asking(k, p)
      BY <2>3 DEF Asking, Looking
    <3> QED BY <3>1 DEF Visited
  <2>4. ASSUME NEW rc \in RefundReceipts, handler'[k].of = rc[1], handler'[k].pc = rc[2]
        PROVE  refund[rc[1]].of = q
    BY <2>4 DEF Asking, Looking, Settlements, RefundReceipts
  <2>5. "refund" \in {"refund", "refunding", "refunded"} /\ "refunding" \in {"refund", "refunding", "refunded"}
        /\ "refunded" \in {"refund", "refunding", "refunded"}
    OBVIOUS
  <2> QED BY <1>2, <2>1, <2>2, <2>3, <2>4, <2>5, Zenon DEF Sees
<1> QED BY <1>1, <1>2

LEMMA VisitedStep ==
  ASSUME TypeIInv, TermIInv, SightIInv, Visited, [ReversalNext]_allVars PROVE Visited'
<1>1. CASE UNCHANGED allVars
  BY <1>1 DEF allVars, vars, refundVars, Visited, Asking, Looking, OnFile
<1>2. CASE Steps /\ UNCHANGED refund
  <2>1. \A h \in Handlers, p \in Payments : Asking(h, p)' => OnFile(p)
    BY <1>2, HandlersLook, AsksOnFile
  <2>2. \A r \in RefundIds : observed'[r] # "none" => OnFile(refund[r].of)
    <3>1. ASSUME NEW h \in Handlers, NEW p \in Payments, Records(h, p), NEW r \in RefundIds, observed'[r] # "none"
          PROVE  OnFile(refund[r].of)
      <4>1. /\ Looking(h, p) /\ DOMAIN handler[h].ev \subseteq RefundsOf(p)
            /\ r \in DOMAIN handler[h].ev \/ observed'[r] = observed[r]
        BY <1>2, <3>1, RecordsAll
      <4>2. OnFile(p)
        BY <4>1 DEF Visited, Asking
      <4> QED BY <3>1, <4>1, <4>2 DEF RefundsOf, Visited
    <3>2. UNCHANGED observed => \A r \in RefundIds : observed'[r] # "none" => OnFile(refund[r].of)
      BY DEF Visited
    <3> QED BY <1>2, <3>1, <3>2, Observes, Zenon DEF Notes
  <2> QED BY <1>2, <2>1, <2>2, FilesKept DEF Visited
<1>3. CASE Steps /\ ~UNCHANGED refund
  <2>0. PICK r \in RefundIds : Moving(r)
    BY <1>3, RefundKinds, Zenon DEF Moving
  <2>1. UNCHANGED <<handler, cycles, observed>> /\ RefundTypeOK
    BY <2>0, RowsGrow DEF TypeIInv, vars
  <2>2. \A x \in RefundIds : refund[x].status # "none" => refund'[x].of = refund[x].of
    BY <2>0, <2>1, RowsGrow
  <2>3. ASSUME NEW h \in Handlers, NEW p \in Payments, Asking(h, p)' PROVE Asking(h, p)
    <3>1. handler[h].pc \in Settlements /\ handler[h].of \in RefundIds => refund'[handler[h].of].of = refund[handler[h].of].of
      BY <2>2, LookedFor
    <3> QED BY <2>1, <2>3, <3>1 DEF Asking, Looking
  <2>4. \A x \in RefundIds : observed[x] # "none" => refund'[x].of = refund[x].of
    BY <2>2 DEF SightIInv, Traced
  <2> QED BY <2>1, <2>3, <2>4 DEF Visited, OnFile
<1> QED BY <1>1, <1>2, <1>3, EveryStep

LEMMA InitialVisited == RefundInit => Visited
<1> SUFFICES ASSUME RefundInit PROVE Visited
  OBVIOUS
<1>1. (\A r \in RefundIds : observed[r] = "none") /\ \A h \in Handlers : handler[h].pc = "idle"
  BY DEF RefundInit, Init, Idle
<1> QED BY <1>1 DEF Visited, Asking, Looking, Settlements

(* The payment of the term that the plan stands on, returned in full.       *)
Lost(p) == OnFile(p) /\ TermEnd(p) = PaidEnd /\ ReturnedInFull(p)

LEMMA ReturnedNoted ==
  ASSUME NEW p PROVE ReturnedInFull(p) <=> Amount(Processed(Noted(p))) = Price
<1>1. {r \in RefundsOf(p) : observed[r] = "processed"} = Processed(Noted(p))
  BY DEF Processed, Noted, Known
<1> QED BY <1>1, Zenon DEF ReturnedInFull

LEMMA TermsEndThere ==
  ASSUME TermsStand, NEW p \in Payments
  PROVE  OnFile(p)' = OnFile(p) /\ (OnFile(p) => TermEnd(p)' = TermEnd(p)) /\ PaidEnd' = PaidEnd
<1>1. PaidEnd' = PaidEnd
  BY PaidEndKept DEF TermsStand
<1> QED BY <1>1 DEF TermsStand, OnFile, TermEnd

(* Nothing is written about refunds.                                        *)
LEMMA LostStays ==
  ASSUME TermsStand, UNCHANGED <<refund, observed>>, NEW p \in Payments PROVE Lost(p)' = Lost(p)
<1>1. ReturnedInFull(p)' = ReturnedInFull(p)
  BY DEF ReturnedInFull, Amount, RefundsOf
<1> QED BY <1>1, TermsEndThere DEF Lost

LEMMA RenewalRestores ==
  ASSUME TypeIInv, TermIInv, TermIInv', Visited, UNCHANGED <<refund, observed>>,
         NEW c \in Cycles, TermAdded(c)
  PROVE  ~sub'.refunded /\ \A p \in Payments : ~Lost(p)'
<1>1. /\ c \notin cycles /\ cycles' = cycles \cup {c} /\ cycles \subseteq Cycles /\ ~sub'.refunded
      /\ \A d \in Cycles : PeriodEnd(d)' = PeriodEnd(d)
      /\ \A d \in cycles : PeriodEnd(d) <= PeriodStart(c) /\ PeriodEnd(d) \in Nat
      /\ CycleLen <= PeriodStart(c) /\ PeriodStart(c) \in Nat
      /\ PeriodEnd(c) = PeriodStart(c) + CycleLen /\ sub'.end = PeriodEnd(c)
  BY Periods, RenewalAssumption DEF TermAdded, TypeIInv, RefundTypeOK, TypeOK
<1>2. PaidEnd' = PeriodEnd(c)
  BY <1>1 DEF TermIInv
<1>3. c # Grant
  BY RenewalAssumption DEF Cycles, Grant
<1>4. ASSUME NEW p \in Payments, OnFile(p)', TermEnd(p)' = PaidEnd' PROVE p = c
  <2>1. CASE p = Grant
    <3>1. TermEnd(p)' = CycleLen
      BY <2>1 DEF TermEnd
    <3> QED BY <1>1, <1>2, <1>4, <3>1, RenewalAssumption
  <2>2. CASE p \in cycles /\ p # Grant
    <3>1. TermEnd(p)' = PeriodEnd(p)
      BY <1>1, <2>2 DEF TermEnd
    <3> QED BY <1>1, <1>2, <1>4, <2>2, <3>1, RenewalAssumption
  <2> QED BY <1>1, <1>4, <2>1, <2>2 DEF OnFile
<1>5. ~ReturnedInFull(c)'
  <2>1. ~OnFile(c)
    BY <1>1, <1>3 DEF OnFile
  <2>2. {r \in RefundsOf(c) : observed[r] = "processed"} = {}
    BY <2>1 DEF RefundsOf, Visited
  <2>3. ~ReturnedInFull(c)
    BY <2>2, NothingAmounts, ReversalAssumption DEF ReturnedInFull
  <2> QED BY <2>3 DEF ReturnedInFull, Amount, RefundsOf
<1> QED BY <1>1, <1>4, <1>5 DEF Lost

(* A view is written down: what was back in full stays so.                  *)
LEMMA NotedRevokes ==
  ASSUME TypeIInv, TermIInv, SightIInv, Finite, Visited, RevokesItsTerm, UNCHANGED refund,
         NEW h \in Handlers, NEW p \in Payments, Notes(h, p)
  PROVE  sub'.refunded <=> \E q \in Payments : Lost(q)'
<1> DEFINE ev == handler[h].ev
<1>0. Records(h, p) /\ UNCHANGED <<mandate, cycles>> /\ TypeOK
  BY Zenon DEF Notes, TypeIInv, RefundTypeOK
<1>1. /\ SameTerm /\ \/ sub' = sub /\ ~Revokes(p, ev)
                     \/ sub'.refunded /\ Revokes(p, ev)
  BY <1>0, ObserveMoves, Zenon DEF Records
<1>2. /\ Looking(h, p) /\ Noted(p)' = ev /\ DOMAIN ev \subseteq RefundsOf(p)
      /\ \A q \in Payments \ {p} : Noted(q)' = Noted(q)
      /\ \A r \in RefundIds : observed'[r] = IF r \in DOMAIN ev THEN ev[r] ELSE observed[r]
  BY <1>0, RecordsAll
<1>3. TermsStand
  BY <1>0, <1>1, PeriodsKept DEF TermsStand, SameTerm
<1>4. \A S : Amount(S)' = Amount(S)
  BY DEF Amount
<1>5. \A q \in Payments : ReturnedInFull(q)' <=> Amount(Processed(Noted(q)'))= Price
  <2>1. \A q : {r \in RefundsOf(q)' : observed'[r] = "processed"} = Processed(Noted(q)')
    BY DEF Processed, Noted, Known
  <2>2. \A q : ReturnedInFull(q)' <=> Amount({r \in RefundsOf(q)' : observed'[r] = "processed"}) = Price
    BY DEF ReturnedInFull, Amount
  <2> QED BY <2>1, <2>2
<1>6. \A q \in Payments \ {p} : Lost(q)' <=> Lost(q)
  BY <1>2, <1>3, <1>5, ReturnedNoted, TermsEndThere DEF Lost
<1>7. OnFile(p)
  BY <1>2 DEF Visited, Asking
<1>8. ReturnedInFull(p)' <=> InFull(p, ev)
  BY <1>0, <1>2, <1>5, ReturnedIs DEF InFull
<1>9. Lost(p)' <=> Revokes(p, ev)
  <2>1. sub.end = PaidEnd
    BY DEF TermIInv
  <2> HIDE DEF ev
  <2> QED BY <1>3, <1>7, <1>8, <2>1, TermsEndThere DEF Lost, Revokes
<1>10. Lost(p) => Lost(p)'
  <2> SUFFICES ASSUME ReturnedInFull(p) PROVE ReturnedInFull(p)'
    BY <1>3, TermsEndThere DEF Lost
  <2>1. /\ Amount(Processed(ev)) <= Price /\ Amount(Processed(Noted(p))) = Price
        /\ InFull(p, ev) <=> Amount(Processed(ev)) = Price
    BY <1>0, ReturnedIs, ReturnedNoted DEF InFull
  <2>2. ~Regresses(ev) /\ Known(p) \subseteq DOMAIN ev
    BY <1>0, Zenon DEF Records, Observable, Incomplete
  <2>3. DOMAIN ev \subseteq Issued
    BY <1>2 DEF RefundsOf, Issued
  <2> HIDE DEF ev
  <2>4. Processed(Noted(p)) \subseteq Processed(ev) /\ Processed(ev) \subseteq Issued
    BY <2>2, <2>3 DEF Processed, Noted, Regresses
  <2>5. Amount(Processed(Noted(p))) <= Amount(Processed(ev)) /\ Amount(Processed(ev)) \in Nat
    BY <2>4, AmountGrows DEF Finite
  <2> QED BY <1>8, <2>1, <2>5, ReversalAssumption
<1>11. CASE Revokes(p, ev)
  BY <1>1, <1>9, <1>11
<1>12. CASE ~Revokes(p, ev)
  <2>1. sub' = sub
    BY <1>1, <1>12
  <2>2. sub.refunded <=> \E q \in Payments : Lost(q)
    BY DEF RevokesItsTerm, Lost
  <2> QED BY <1>6, <1>9, <1>10, <1>12, <2>1, <2>2
<1> QED BY <1>11, <1>12

(* The provider only adds to what is not on record yet.                     *)
LEMMA MovingRevokes ==
  ASSUME TypeIInv, TypeIInv', SightIInv, Finite, RevokesItsTerm, NEW r \in RefundIds, Moving(r)
  PROVE  sub'.refunded <=> \E q \in Payments : Lost(q)'
<1>1. UNCHANGED vars /\ UNCHANGED observed
  BY RowsGrow DEF TypeIInv
<1>2. ASSUME NEW q \in Payments PROVE ReturnedInFull(q)' <=> ReturnedInFull(q)
  <2> DEFINE S == Processed(Noted(q))
  <2>1. Noted(q)' = Noted(q)
    BY SightsGrow
  <2>2. \A x \in S : refund'[x].amount = refund[x].amount
    <3>1. \A x \in S : x \in RefundIds /\ refund[x].status # "none"
      BY DEF Processed, Noted, Known, RefundsOf
    <3> QED BY <3>1, RowsGrow DEF TypeIInv
  <2>3. {x \in RefundsOf(q)' : observed'[x] = "processed"} = S
    <3>1. {x \in RefundsOf(q)' : observed'[x] = "processed"} = Processed(Noted(q)')
      BY DEF Processed, Noted, Known
    <3> QED BY <2>1, <3>1
  <2>4. PICK T : T = S
    OBVIOUS
  <2>5. Amount(T)' = Amount(T)
    BY <2>2, <2>4, AmountStays
  <2>6. ReturnedInFull(q)' <=> Amount(T)' = Price
    BY <2>3, <2>4 DEF ReturnedInFull, Amount
  <2>7. ReturnedInFull(q) <=> Amount(T) = Price
    BY <2>4, ReturnedNoted
  <2> QED BY <2>5, <2>6, <2>7
<1>3. TermsStand
  BY <1>1, PeriodsKept DEF vars, TermsStand
<1>4. \A q \in Payments : Lost(q)' <=> Lost(q)
  BY <1>2, <1>3, TermsEndThere DEF Lost
<1>5. sub.refunded <=> \E q \in Payments : Lost(q)
  BY DEF RevokesItsTerm, Lost
<1> QED BY <1>1, <1>4, <1>5 DEF vars

(* What else a step does leaves it alone whether the term was returned.     *)
LEMMA RefundedKept ==
  ASSUME TypeIInv, TermIInv, Steps,
         \A h \in Handlers, p \in Payments : ~Notes(h, p),
         \A h \in Handlers, c \in Cycles : ~Renews(h, c)
  PROVE  sub'.refunded = sub.refunded
<1>0. TypeOK /\ sub \in Subscriptions
  BY DEF TypeIInv, RefundTypeOK, TypeOK
<1>1. \A m \in Mandates : Enrolling(m) => UNCHANGED sub
  BY DEF Enrolling
<1>2. ASSUME NEW h \in Handlers, NEW m \in Mandates, Enrols(h, m) PROVE sub'.refunded = sub.refunded
  BY <1>0, <1>2 DEF Enrols, Attached, Readied, Expired, Subscriptions
<1>3. ASSUME NEW h \in Handlers, NEW c \in Cycles, NEW r \in Failures(c), NEW g \in Grace, Owes(h, c, r, g)
      PROVE  sub'.refunded = sub.refunded
  <2>1. \E u \in Cycles : OpensCase(u, g)
    BY <1>3, Zenon DEF Owes, Recovers, UnpaidCycle
  <2> QED BY <1>0, <2>1, OpensCaseMoves
<1>4. ASSUME NEW h \in Handlers, NEW m \in Mandates, Cancels(h, m) PROVE sub'.refunded = sub.refunded
  <2>1. UNCHANGED sub \/ Confirm(m)
    BY <1>4, CancelMoves, Zenon
  <2> QED BY <1>0, <2>1, ConfirmMoves
<1> QED BY <1>1, <1>2, <1>3, <1>4, PlanKinds

LEMMA RevokesStep ==
  ASSUME TypeIInv, TermIInv, SightIInv, Finite, Visited, RevokesItsTerm, [ReversalNext]_allVars
  PROVE  RevokesItsTerm'
<1>0. TypeIInv' /\ TermIInv'
  BY TypesStep, TermsStep
<1>1. (sub'.refunded <=> \E p \in Payments : Lost(p)') => RevokesItsTerm'
  BY DEF RevokesItsTerm, Lost
<1>2. sub.refunded <=> \E p \in Payments : Lost(p)
  BY DEF RevokesItsTerm, Lost
<1>3. CASE UNCHANGED allVars
  <2>1. UNCHANGED <<refund, observed, sub>> /\ TermsStand
    BY <1>3, PeriodsKept DEF allVars, vars, refundVars, TermsStand
  <2> QED BY <1>1, <1>2, <2>1, LostStays
<1>4. CASE Steps /\ ~UNCHANGED refund
  <2>1. \E r \in RefundIds : Moving(r)
    BY <1>4, RefundKinds, Zenon DEF Moving
  <2> QED BY <1>0, <1>1, <2>1, MovingRevokes
<1>5. CASE Steps /\ UNCHANGED refund
  <2>1. ASSUME NEW h \in Handlers, NEW p \in Payments, Notes(h, p) PROVE RevokesItsTerm'
    BY <1>1, <1>5, <2>1, NotedRevokes
  <2>2. ASSUME \A h \in Handlers, p \in Payments : ~Notes(h, p) PROVE RevokesItsTerm'
    <3>1. UNCHANGED <<refund, observed>>
      BY <1>5, <2>2, Observes
    <3>2. ASSUME NEW h \in Handlers, NEW c \in Cycles, Renews(h, c) PROVE RevokesItsTerm'
      <4>1. TermAdded(c)
        BY <3>2, RenewalAdds
      <4>2. ~sub'.refunded /\ \A p \in Payments : ~Lost(p)'
        BY <1>0, <3>1, <4>1, RenewalRestores
      <4> QED BY <1>1, <4>2
    <3>3. ASSUME \A h \in Handlers, c \in Cycles : ~Renews(h, c) PROVE RevokesItsTerm'
      <4>1. TermsStand
        BY <1>5, <3>3, TermKinds
      <4>2. sub'.refunded = sub.refunded
        BY <1>5, <2>2, <3>3, RefundedKept
      <4> QED BY <1>1, <1>2, <3>1, <4>1, <4>2, LostStays
    <3> QED BY <3>2, <3>3
  <2> QED BY <2>1, <2>2
<1> QED BY <1>3, <1>4, <1>5, EveryStep

LEMMA InitialRevokes == RefundInit => RevokesItsTerm
<1> SUFFICES ASSUME RefundInit PROVE RevokesItsTerm
  OBVIOUS
<1>1. ~sub.refunded /\ \A r \in RefundIds : observed[r] = "none"
  BY DEF RefundInit, Init
<1>2. \A p : {r \in RefundsOf(p) : observed[r] = "processed"} = {}
  BY <1>1 DEF RefundsOf
<1>3. \A p : ~ReturnedInFull(p)
  BY <1>2, NothingAmounts, ReversalAssumption DEF ReturnedInFull
<1> QED BY <1>1, <1>3 DEF RevokesItsTerm

(* The plan is to be had in every term that was paid for and not returned,  *)
(* and only there or in the grace of an open debt; it is revoked exactly    *)
(* when the term it stands on is on record as returned in full.  No late    *)
(* receipt, retry, cancellation or refund of another term changes that.     *)
THEOREM AccessIsAsPaid == ReversalSpec => []AccessAsPaid
<1> DEFINE IInv == /\ TypeIInv /\ TermIInv /\ SentIInv /\ DebtIInv /\ ServedIInv
                   /\ SightIInv /\ RecordIInv /\ Visited /\ RevokesItsTerm
<1>1. RefundInit => IInv
  BY InitialTypes, InitialTerms, InitialSent, InitialDebt, InitialServed, InitialSights, InitialRecords,
     InitialVisited, InitialRevokes
<1>2. IInv /\ [ReversalNext]_allVars => IInv'
  <2>1. RecordIInv => Finite
    BY DEF RecordIInv
  <2> QED BY <2>1, TypesStep, TermsStep, SentStep, DebtStep, ServedStep, SightStep, RecordStep, VisitedStep, RevokesStep
<1>3. IInv => AccessAsPaid
  BY ServedAsPaid DEF AccessAsPaid
<1> HIDE DEF IInv
<1> QED BY <1>1, <1>2, <1>3, PTL DEF ReversalSpec
-----------------------------------------------------------------------------
(* Reversal implements PrepaidPlan.  What a step makes of the plan's books. *)
LEMMA BooksStand == ASSUME TermsStand PROVE termsPaid' = termsPaid
<1>1. {[from |-> PeriodStart(c), to |-> PeriodEnd(c)] : c \in cycles}' =
      {[from |-> PeriodStart(c), to |-> PeriodEnd(c)] : c \in cycles}
  BY DEF TermsStand
<1> QED BY <1>1 DEF termsPaid

LEMMA BooksGain ==
  ASSUME TypeOK, NEW c \in Cycles, TermAdded(c)
  PROVE  termsPaid' = termsPaid \cup {Plan!Term(PeriodStart(c))}
<1> DEFINE Entry(d) == [from |-> PeriodStart(d), to |-> PeriodEnd(d)]
<1>1. cycles \subseteq Cycles /\ cycles' = cycles \cup {c}
  BY DEF TypeOK, TermAdded
<1>2. \A d \in Cycles : Entry(d)' = Entry(d)
  BY DEF TermAdded
<1>3. Entry(c) = Plan!Term(PeriodStart(c))
  BY DEF TermAdded, Plan!Term
<1>4. termsPaid' = {[from |-> 0, to |-> CycleLen]} \cup {Entry(d)' : d \in cycles'}
  BY DEF termsPaid
<1>5. termsPaid = {[from |-> 0, to |-> CycleLen]} \cup {Entry(d) : d \in cycles}
  BY DEF termsPaid
<1>6. {Entry(d)' : d \in cycles'} = {Entry(d) : d \in cycles} \cup {Entry(c)}
  <2> HIDE DEF Entry
  <2> QED BY <1>1, <1>2
<1> HIDE DEF Entry
<1> QED BY <1>3, <1>4, <1>5, <1>6

PlanBooks == <<termsPaid, sub.end, sub.refunded, now>>

LEMMA PlanRenewed ==
  ASSUME TypeOK, UNCHANGED now, NEW c \in Cycles, TermAdded(c) PROVE Plan!Next
<1>1. /\ PeriodStart(c) \in 0..now /\ sub.end <= PeriodStart(c) /\ PeriodStart(c) <= now
      /\ sub'.end = PeriodStart(c) + CycleLen /\ ~sub'.refunded
  BY RenewalAssumption DEF TermAdded, TypeOK
<1>2. Plan!Renew(PeriodStart(c))
  BY <1>1, BooksGain DEF Plan!Renew
<1> QED BY <1>1, <1>2 DEF Plan!Next

LEMMA PlanStep ==
  ASSUME TypeIInv, TermIInv, [ReversalNext]_allVars PROVE [Plan!Next]_PlanBooks
<1>0. TypeOK /\ sub.refunded \in BOOLEAN /\ sub'.refunded \in BOOLEAN
  BY TypesStep DEF TypeIInv, RefundTypeOK, TypeOK, Subscriptions
<1>1. CASE UNCHANGED allVars
  <2>1. UNCHANGED <<sub, now>> /\ TermsStand
    BY <1>1, PeriodsKept DEF allVars, vars, TermsStand
  <2> QED BY <2>1, BooksStand DEF PlanBooks
<1>2. ASSUME Ticks PROVE Plan!Next
  <2>1. TermsStand
    BY <1>2, PeriodsKept DEF Ticks, TermsStand
  <2>2. Plan!Passes
    BY <1>2, <2>1, BooksStand DEF Ticks, Plan!Passes
  <2> QED BY <2>2 DEF Plan!Next
<1>3. CASE Steps /\ UNCHANGED now
  <2>1. ASSUME NEW h \in Handlers, NEW c \in Cycles, Renews(h, c) PROVE Plan!Next
    BY <1>0, <1>3, <2>1, RenewalAdds, PlanRenewed
  <2>2. ASSUME TermsStand, sub'.refunded = sub.refunded PROVE UNCHANGED PlanBooks
    BY <1>3, <2>2, BooksStand DEF TermsStand, PlanBooks
  <2>3. ASSUME TermsStand, ~sub.refunded, sub'.refunded PROVE Plan!Next
    <3>1. Plan!Revoke
      BY <1>3, <2>3, BooksStand DEF TermsStand, Plan!Revoke
    <3> QED BY <3>1 DEF Plan!Next
  <2>4. ASSUME NEW h \in Handlers, NEW p \in Payments, Notes(h, p)
        PROVE  TermsStand /\ (sub' = sub \/ sub'.refunded)
    <3>1. UNCHANGED <<mandate, cycles>> /\ SameTerm /\ (sub' = sub \/ sub'.refunded)
      BY <1>0, <2>4, ObserveMoves, Zenon DEF Notes, Records
    <3> QED BY <3>1, PeriodsKept DEF TermsStand, SameTerm
  <2>5. ASSUME \A h \in Handlers, c \in Cycles : ~Renews(h, c),
               \A h \in Handlers, p \in Payments : ~Notes(h, p)
        PROVE  TermsStand /\ sub'.refunded = sub.refunded
    BY <1>3, <2>5, TermKinds, RefundedKept
  <2> QED BY <1>0, <2>1, <2>2, <2>3, <2>4, <2>5
<1> QED BY <1>1, <1>2, <1>3, EveryStep, ClockMoves

LEMMA InitialPlan == RefundInit => Plan!Init
<1> SUFFICES ASSUME RefundInit PROVE Plan!Init
  OBVIOUS
<1>1. cycles = {} /\ sub.end = CycleLen /\ ~sub.refunded /\ now = 0
  BY DEF RefundInit, Init
<1>2. termsPaid = {Plan!Term(0)}
  BY <1>1, RenewalAssumption DEF termsPaid, Plan!Term
<1> QED BY <1>1, <1>2 DEF Plan!Init

(* Every behaviour of renewals, recoveries, cancellations and refunds is    *)
(* one of PrepaidPlan: the terms paid for are never moved, shortened or     *)
(* taken back, each begins when the one before is over and not before its   *)
(* time, and a plan that was revoked comes back only with a new term.       *)
THEOREM PlanAsPaid == ReversalSpec => PaidTerms
<1>1. RefundInit => TypeIInv /\ TermIInv /\ Plan!Init
  BY InitialTypes, InitialTerms, InitialPlan
<1>2. TypeIInv /\ TermIInv /\ [ReversalNext]_allVars => TypeIInv' /\ TermIInv' /\ [Plan!Next]_PlanBooks
  BY TypesStep, TermsStep, PlanStep
<1>3. ReversalSpec => Plan!Init /\ [][Plan!Next]_PlanBooks
  BY <1>1, <1>2, PTL DEF ReversalSpec
<1>4. Plan!Init /\ [][Plan!Next]_PlanBooks => Plan!Spec
  BY DEF Plan!Spec, PlanBooks
<1> QED BY <1>3, <1>4, TermsFollow DEF PaidTerms
=============================================================================
