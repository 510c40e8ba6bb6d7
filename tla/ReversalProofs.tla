--------------------------- MODULE ReversalProofs ---------------------------
(***************************************************************************)
(* Proofs about renewals, cancellations and refunds together: the types,    *)
(* the paid terms, debts and grace, and that nothing is sent for twice.     *)
(* What is proved about the records of refunds is in RefundProofs.          *)
(***************************************************************************)
EXTENDS Reversal, FiniteSetTheorems, WellFoundedInduction, TLAPS

(* Every set of numbers that is bounded has its Max.                        *)
LEMMA MaxBounded ==
  ASSUME NEW S \in SUBSET Int, S # {}, NEW b \in Int, \A x \in S : x <= b
  PROVE  Max(S) \in S /\ \A y \in S : y <= Max(S)
<1> DEFINE T == {n \in Nat : b - n \in S}
<1>1. T # {}
  <2>1. PICK x \in S : TRUE
    OBVIOUS
  <2>2. b - x \in Nat /\ b - (b - x) = x
    OBVIOUS
  <2>3. b - x \in T
    BY <2>1, <2>2
  <2> QED BY <2>3
<1>2. T \subseteq Nat
  OBVIOUS
<1>3. PICK n \in T : \A k \in T : n <= k
  <2> HIDE DEF T
  <2>1. \E n \in T : \A k \in T : ~(<<k, n>> \in OpToRel(<, Nat))
    BY <1>1, <1>2, NatLessThanWellFounded, WFMin
  <2>2. PICK n \in T : \A k \in T : ~(<<k, n>> \in OpToRel(<, Nat))
    BY <2>1
  <2>3. \A k \in T : ~(k < n)
    BY <1>2, <2>2 DEF OpToRel
  <2> QED BY <1>2, <2>3
<1>4. b - n \in S /\ \A y \in S : b - n >= y
  <2>1. ASSUME NEW y \in S PROVE b - n >= y
    <3>1. b - y \in Nat /\ b - (b - y) = y
      OBVIOUS
    <3>2. b - y \in T
      BY <3>1, <2>1
    <3> QED BY <1>3, <3>2
  <2> QED BY <2>1
<1> QED BY <1>4 DEF Max

(* Products of the numbers of cycles with their length.                     *)
LEMMA Multiples ==
  ASSUME NEW a \in Nat, NEW b \in Nat
  PROVE  /\ a * CycleLen \in Nat /\ (a + 1) * CycleLen = a * CycleLen + CycleLen
         /\ a < b => a * CycleLen + CycleLen <= b * CycleLen
<1>1. a * CycleLen \in Nat /\ (a + 1) * CycleLen = a * CycleLen + CycleLen
  BY RenewalAssumption
<1>2. ASSUME a < b PROVE a * CycleLen + CycleLen <= b * CycleLen
  <2>1. PICK k \in Nat : b = (a + 1) + k
    <3>1. b - (a + 1) \in Nat /\ b = (a + 1) + (b - (a + 1))
      BY <1>2
    <3> QED BY <3>1
  <2>2. b * CycleLen = (a + 1) * CycleLen + k * CycleLen /\ k * CycleLen \in Nat
    BY <2>1, RenewalAssumption
  <2> QED BY <1>1, <2>2, RenewalAssumption
<1> QED BY <1>1, <1>2
-----------------------------------------------------------------------------
(* Periods of one mandate follow each other from its start.                 *)
LEMMA Periods ==
  ASSUME TypeOK, NEW c \in Cycles
  PROVE  /\ c[1] \in Mandates /\ c[2] \in 1..TotalCount /\ c = <<c[1], c[2]>>
         /\ PeriodStart(c) \in Nat /\ PeriodEnd(c) = PeriodStart(c) + CycleLen
         /\ mandate[c[1]].start \in Nat /\ mandate[c[1]].start <= PeriodStart(c)
         /\ PeriodStart(c) = mandate[c[1]].start <=> c[2] = 1
<1>1. c[1] \in Mandates /\ c[2] \in 1..TotalCount /\ c[2] - 1 \in Nat /\ c = <<c[1], c[2]>>
  BY RenewalAssumption DEF Cycles
<1>2. mandate[c[1]].start \in Nat
  BY <1>1, RenewalAssumption DEF TypeOK, MandateRows
<1>3. (c[2] - 1) * CycleLen \in Nat /\ (0 < c[2] - 1 => 0 * CycleLen + CycleLen <= (c[2] - 1) * CycleLen)
  BY <1>1, Multiples
<1>4. c[2] = 1 => (c[2] - 1) * CycleLen = 0
  BY RenewalAssumption
<1>5. 0 * CycleLen = 0
  BY RenewalAssumption
<1> HIDE DEF Cycles
<1> QED BY <1>1, <1>2, <1>3, <1>4, <1>5, RenewalAssumption DEF PeriodStart, PeriodEnd

LEMMA PeriodsOrdered ==
  ASSUME TypeOK, NEW c \in Cycles, NEW d \in Cycles, c[1] = d[1]
  PROVE  /\ c[2] < d[2] => PeriodEnd(c) <= PeriodStart(d)
         /\ PeriodEnd(c) = PeriodStart(d) <=> d[2] = c[2] + 1
<1>1. c[2] - 1 \in Nat /\ d[2] - 1 \in Nat /\ c[2] \in Nat
  BY RenewalAssumption DEF Cycles
<1>2. mandate[c[1]].start \in Nat
  BY RenewalAssumption DEF TypeOK, MandateRows, Cycles
<1> DEFINE C == (c[2] - 1) * CycleLen
           D == (d[2] - 1) * CycleLen
           E == c[2] * CycleLen
<1>3. C \in Nat /\ D \in Nat /\ E \in Nat
  BY <1>1, Multiples
<1>4. E = C + CycleLen
  <2>1. c[2] = (c[2] - 1) + 1
    BY <1>1
  <2> QED BY <1>1, <2>1, Multiples
<1>5. /\ c[2] - 1 < d[2] - 1 => C + CycleLen <= D
      /\ c[2] < d[2] - 1 => E + CycleLen <= D
      /\ d[2] - 1 < c[2] => D + CycleLen <= E
  BY <1>1, Multiples
<1>6. d[2] - 1 = c[2] => D = E
  OBVIOUS
<1> HIDE DEF C, D, E
<1>7. /\ PeriodEnd(c) = mandate[c[1]].start + C + CycleLen
      /\ PeriodStart(d) = mandate[c[1]].start + D
  BY DEF PeriodStart, PeriodEnd, C, D
<1>8. CycleLen \in Nat \ {0}
  BY RenewalAssumption
<1>9. c[2] < d[2] => PeriodEnd(c) <= PeriodStart(d)
  <2>1. c[2] < d[2] => c[2] - 1 < d[2] - 1
    BY RenewalAssumption DEF Cycles
  <2> QED BY <1>2, <1>3, <1>5, <1>7, <1>8, <2>1
<1>10. PeriodEnd(c) = PeriodStart(d) <=> E = D
  BY <1>2, <1>3, <1>4, <1>7, <1>8
<1>11. E = D <=> d[2] = c[2] + 1
  <2>1. c[2] < d[2] - 1 \/ d[2] - 1 < c[2] \/ d[2] - 1 = c[2]
    BY <1>1
  <2>2. d[2] - 1 = c[2] <=> d[2] = c[2] + 1
    BY <1>1, RenewalAssumption DEF Cycles
  <2> QED BY <1>3, <1>5, <1>6, <1>8, <2>1, <2>2
<1> QED BY <1>9, <1>10, <1>11

LEMMA PeriodsBounded ==
  ASSUME TypeOK
  PROVE  \E b \in Nat : /\ CycleLen <= b
                        /\ \A c \in Cycles : PeriodEnd(c) <= b
                        /\ \A m \in Mandates : mandate[m].start <= b
<1> DEFINE b == Horizon + CycleLen + TotalCount * CycleLen
<1>1. b \in Nat /\ CycleLen <= b /\ Horizon + CycleLen <= b /\ TotalCount * CycleLen \in Nat
  BY RenewalAssumption, Multiples
<1>2. \A m \in Mandates : mandate[m].start \in Nat /\ mandate[m].start <= Horizon + CycleLen
  BY RenewalAssumption DEF TypeOK, MandateRows
<1>3. ASSUME NEW c \in Cycles PROVE PeriodEnd(c) <= b
  <2>1. c[1] \in Mandates /\ c[2] - 1 \in Nat /\ c[2] - 1 < TotalCount
    BY RenewalAssumption DEF Cycles
  <2> DEFINE C == (c[2] - 1) * CycleLen
             E == TotalCount * CycleLen
  <2>2. C \in Nat /\ E \in Nat /\ C + CycleLen <= E
    BY <1>1, <2>1, Multiples, RenewalAssumption
  <2>3. PeriodEnd(c) = mandate[c[1]].start + C + CycleLen /\ b = Horizon + CycleLen + E
    BY DEF PeriodStart, PeriodEnd
  <2> HIDE DEF C, E, b
  <2> QED BY <1>1, <1>2, <2>1, <2>2, <2>3, RenewalAssumption
<1> QED
  <2> HIDE DEF b
  <2> QED BY <1>1, <1>2, <1>3, RenewalAssumption

(* Where the next cycle of a mandate has to start.                          *)
LEMMA ExpectedIsMax ==
  ASSUME TypeOK, NEW m \in Mandates
  PROVE  /\ Expected(m) \in Nat /\ mandate[m].start <= Expected(m)
         /\ \A c \in Applied(m) : PeriodEnd(c) <= Expected(m)
         /\ Expected(m) = mandate[m].start \/ \E c \in Applied(m) : Expected(m) = PeriodEnd(c)
<1> DEFINE S == {mandate[m].start} \cup {PeriodEnd(c) : c \in Applied(m)}
<1>1. Applied(m) \subseteq Cycles
  BY DEF Applied, TypeOK
<1>2. S \subseteq Nat
  <2>1. mandate[m].start \in Nat
    BY RenewalAssumption DEF TypeOK, MandateRows
  <2>2. \A c \in Applied(m) : PeriodEnd(c) \in Nat
    BY <1>1, Periods, RenewalAssumption
  <2> QED BY <2>1, <2>2
<1>3. PICK b \in Nat : mandate[m].start <= b /\ \A c \in Cycles : PeriodEnd(c) <= b
  BY PeriodsBounded
<1>4. S # {} /\ \A x \in S : x <= b
  BY <1>1, <1>3
<1>5. Max(S) \in S /\ \A y \in S : y <= Max(S)
  <2> HIDE DEF S
  <2> QED BY <1>2, <1>4, MaxBounded
<1> QED BY <1>2, <1>5 DEF Expected

(* Where the last of all paid terms ends.                                   *)
LEMMA PaidEndIsMax ==
  ASSUME TypeOK
  PROVE  /\ PaidEnd \in Nat /\ CycleLen <= PaidEnd
         /\ \A c \in cycles : PeriodEnd(c) <= PaidEnd
         /\ PaidEnd = CycleLen \/ \E c \in cycles : PaidEnd = PeriodEnd(c)
<1> DEFINE S == {CycleLen} \cup {PeriodEnd(c) : c \in cycles}
<1>1. cycles \subseteq Cycles
  BY DEF TypeOK
<1>2. S \subseteq Nat
  BY <1>1, Periods, RenewalAssumption
<1>3. PICK b \in Nat : CycleLen <= b /\ \A c \in Cycles : PeriodEnd(c) <= b
  BY PeriodsBounded
<1>4. S # {} /\ \A x \in S : x <= b
  BY <1>1, <1>3
<1>5. Max(S) \in S /\ \A y \in S : y <= Max(S)
  <2> HIDE DEF S
  <2> QED BY <1>2, <1>4, MaxBounded
<1> QED BY <1>2, <1>5 DEF PaidEnd
-----------------------------------------------------------------------------
(* Types.  An inventory that a handler took lists refunds and what became   *)
(* of them; a handler that looks into a failed charge has none.             *)
Settlements == {"pending", "processed", "failed"}
Listing(ev) == DOMAIN ev \subseteq RefundIds /\ \A r \in DOMAIN ev : ev[r] \in Settlements

Reviews(s) == \/ s.pc \in {"refund", "refunded"} /\ s.of \in Payments
              \/ s.pc \in Settlements /\ s.of \in RefundIds

TypeIInv ==
  /\ RefundTypeOK
  /\ DOMAIN handler = Handlers /\ \A h \in Handlers : Reviews(handler[h]) => Listing(handler[h].ev)

(* Steps that only read leave all but the handler's own place.              *)
Books == <<now, account, sub, mandate, cycles, recovery, claim, provider, post, inbox, refundVars>>

Reads(h) ==
  \/ Dies(h) /\ UNCHANGED refundVars
  \/ \E m \in Mandates : (EnrolAgain(h, m) \/ FetchEnrolment(h, m)) /\ UNCHANGED refundVars
  \/ \E m \in Mandates, ok \in BOOLEAN : CancelRequested(h, m) \/ CancelReplied(h, m, ok)
  \/ \E c \in Cycles : \/ FetchCharge(h, c, Refunded(c)) /\ UNCHANGED refundVars
                       \/ \E r \in Failures(c) : FetchFailure(h, r) /\ UNCHANGED refundVars
  \/ \E p \in Payments : RefundRead(h, p) \/ RefundReplied(h, p)
  \/ \E rc \in RefundReceipts : FetchRefundReceipt(h, rc)

LEMMA ReadsBooks ==
  ASSUME NEW h \in Handlers, Reads(h)
  PROVE  UNCHANGED Books /\ \E s : handler' = [handler EXCEPT ![h] = s]
<1>1. UNCHANGED Books
  BY Zenon DEF Reads, Dies, EnrolAgain, FetchEnrolment, CancelRequested, CancelReplied, FetchCharge,
         FetchFailure, RefundRead, RefundReplied, FetchRefundReceipt, Books
<1>2. \E s : handler' = [handler EXCEPT ![h] = s]
  BY Zenon DEF Reads, Dies, EnrolAgain, FetchEnrolment, CancelRequested, CancelReplied, FetchCharge,
         FetchFailure, RefundRead, RefundReplied, FetchRefundReceipt, Becomes, Ends
<1> QED BY <1>1, <1>2

LEMMA BecomesThat ==
  ASSUME DOMAIN handler = Handlers, NEW h \in Handlers, NEW s, Becomes(h, s)
  PROVE  /\ DOMAIN handler' = Handlers /\ handler'[h] = s
         /\ \A k \in Handlers \ {h} : handler'[k] = handler[k]
  BY DEF Becomes

LEMMA BecomesThere ==
  ASSUME DOMAIN handler = Handlers, NEW h \in Handlers, NEW t, NEW x, NEW e,
         Becomes(h, [pc |-> t, of |-> x, ev |-> e])
  PROVE  handler'[h].pc = t /\ handler'[h].of = x /\ handler'[h].ev = e
  BY BecomesThat

LEMMA BecomesIdle ==
  ASSUME DOMAIN handler = Handlers, NEW h \in Handlers, NEW t, NEW x,
         Becomes(h, [Idle EXCEPT !.pc = t, !.of = x])
  PROVE  handler'[h].pc = t /\ handler'[h].of = x /\ handler'[h].ev = NotFetched
<1> DEFINE s == [Idle EXCEPT !.pc = t, !.of = x]
<1>1. s.pc = t /\ s.of = x /\ s.ev = NotFetched
  BY DEF Idle
<1>2. handler'[h] = s
  BY BecomesThat, Zenon
<1> QED BY <1>1, <1>2, Zenon

LEMMA InventoryLists ==
  ASSUME RefundTypeOK, NEW p PROVE Listing(Inventory(p))
  BY DEF RefundTypeOK, Refunds, Listing, Inventory, RefundsOf, Settlements

LEMMA ReadsTypes ==
  ASSUME TypeIInv, NEW h \in Handlers, Reads(h) PROVE TypeIInv'
<1>1. RefundTypeOK'
  BY ReadsBooks DEF TypeIInv, RefundTypeOK, TypeOK, Books, refundVars
<1>2. DOMAIN handler' = Handlers /\ \A k \in Handlers \ {h} : handler'[k] = handler[k]
  BY ReadsBooks DEF TypeIInv
<1>3. Reviews(handler'[h]) => Listing(handler'[h].ev)
  <2>1. CASE Dies(h)
    BY <2>1, BecomesThat DEF TypeIInv, Ends, Dies, Idle, Reviews, Settlements
  <2>2. ASSUME NEW m \in Mandates,
               EnrolAgain(h, m) \/ FetchEnrolment(h, m) \/ CancelRequested(h, m)
               \/ \E ok \in BOOLEAN : CancelReplied(h, m, ok)
        PROVE  ~Reviews(handler'[h])
    <3>1. \/ \E t \in {"dispatch", "lookup"} : Becomes(h, [Idle EXCEPT !.pc = t, !.of = <<m, 0>>])
          \/ \E t \in {"attach", "cancel", "stopped"} : \E e : Becomes(h, [pc |-> t, of |-> <<m, 0>>, ev |-> e])
      <4>1. CASE EnrolAgain(h, m)
        <5>1. CASE Unsent(m)
          BY <4>1, <5>1, Zenon DEF EnrolAgain
        <5>2. CASE ~Unsent(m)
          BY <4>1, <5>2, Zenon DEF EnrolAgain
        <5> QED BY <5>1, <5>2
      <4>2. CASE FetchEnrolment(h, m) \/ CancelRequested(h, m) \/ \E ok \in BOOLEAN : CancelReplied(h, m, ok)
        BY <4>2, Zenon DEF FetchEnrolment, CancelRequested, CancelReplied
      <4> QED BY <2>2, <4>1, <4>2
    <3>2. DOMAIN handler = Handlers
      BY DEF TypeIInv
    <3>3. handler'[h].pc \in {"dispatch", "lookup", "attach", "cancel", "stopped"}
      BY <3>1, <3>2, BecomesThere, BecomesIdle, Zenon
    <3> QED BY <3>3 DEF Reviews, Settlements
  <2>3. ASSUME NEW c \in Cycles, FetchCharge(h, c, Refunded(c)) \/ \E r \in Failures(c) : FetchFailure(h, r)
        PROVE  ~Reviews(handler'[h])
    <3>1. \E t \in {"charge", "pending", "halted"} : \E e : Becomes(h, [pc |-> t, of |-> c, ev |-> e])
      <4>1. \A r \in Failures(c) : r.of = c /\ r.type \in {"pending", "halted"}
        BY DEF Failures
      <4> QED BY <2>3, <4>1, Zenon DEF FetchCharge, FetchFailure
    <3> QED BY <3>1, BecomesThat, ReversalAssumption DEF TypeIInv, Reviews, Settlements
  <2>4. ASSUME NEW p \in Payments, RefundRead(h, p) \/ RefundReplied(h, p)
        PROVE  handler'[h].ev = Inventory(p) \/ handler'[h].pc = "refund unknown"
    <3>1. \/ Becomes(h, [pc |-> "refund", of |-> p, ev |-> Inventory(p)])
          \/ Becomes(h, [pc |-> "refunded", of |-> p, ev |-> Inventory(p)])
          \/ Becomes(h, [pc |-> "refund unknown", of |-> p, ev |-> NotFetched])
      BY <2>4, Zenon DEF RefundRead, RefundReplied
    <3>2. DOMAIN handler = Handlers
      BY DEF TypeIInv
    <3> QED BY <3>1, <3>2, BecomesThere, Zenon
  <2>5. ASSUME NEW rc \in RefundReceipts, FetchRefundReceipt(h, rc)
        PROVE  handler'[h].ev = Inventory(refund[rc[1]].of)
    <3>1. Becomes(h, [pc |-> rc[2], of |-> rc[1], ev |-> Inventory(refund[rc[1]].of)])
      BY <2>5, Zenon DEF FetchRefundReceipt
    <3> QED BY <3>1, BecomesThat DEF TypeIInv
  <2>6. \A p : Listing(Inventory(p))
    BY InventoryLists DEF TypeIInv
  <2>7. handler'[h].pc = "refund unknown" => ~Reviews(handler'[h])
    BY DEF Reviews, Settlements
  <2> QED BY <2>1, <2>2, <2>3, <2>4, <2>5, <2>6, <2>7 DEF Reads
<1> QED BY <1>1, <1>2, <1>3 DEF TypeIInv, Reviews, Listing

(* The rest of the steps leave a handler idle, or at a place without an     *)
(* inventory.                                                               *)
Placed == DOMAIN handler = Handlers /\ \A h \in Handlers : Reviews(handler[h]) => Listing(handler[h].ev)

LEMMA Stays == ASSUME Placed, UNCHANGED handler PROVE Placed'
  BY DEF Placed, Reviews, Listing

LEMMA EndsPlaced ==
  ASSUME Placed, NEW h \in Handlers, Ends(h) PROVE Placed'
<1>1. ~Reviews(Idle)
  BY DEF Reviews, Settlements, Idle
<1>2. DOMAIN handler' = Handlers /\ handler'[h] = Idle /\ \A k \in Handlers \ {h} : handler'[k] = handler[k]
  BY BecomesThat DEF Ends, Placed
<1> QED BY <1>1, <1>2 DEF Placed, Reviews, Listing

LEMMA MovesPlaced ==
  ASSUME Placed, NEW h \in Handlers, NEW s, Becomes(h, s),
         s.pc \in {"dispatch", "lookup", "stop", "stop receipt", "refunding"}
  PROVE  Placed'
<1>1. ~Reviews(s)
  BY DEF Reviews, Settlements
<1>2. DOMAIN handler' = Handlers /\ handler'[h] = s /\ \A k \in Handlers \ {h} : handler'[k] = handler[k]
  BY BecomesThat DEF Placed
<1> QED BY <1>1, <1>2 DEF Placed, Reviews, Listing

LEMMA TypesKept ==
  ASSUME TypeIInv, UNCHANGED refundVars, TypeOK', Placed' PROVE TypeIInv'
  BY DEF TypeIInv, Placed, RefundTypeOK, refundVars

ProviderRows == [status : ProviderStatuses, paid : 0..TotalCount]

LEMMA ProviderTyped ==
  ASSUME TypeOK, NEW m \in Mandates, NEW s \in ProviderStatuses
  PROVE  /\ [provider EXCEPT ![m].status = s] \in [Mandates -> ProviderRows]
         /\ \A n \in 0..TotalCount :
              [provider EXCEPT ![m] = [status |-> s, paid |-> n]] \in [Mandates -> ProviderRows]
<1>1. provider \in [Mandates -> ProviderRows]
  BY DEF TypeOK, ProviderRows
<1> QED BY <1>1 DEF ProviderRows

LEMMA ReportTyped ==
  ASSUME TypeOK, NEW t, NEW c, [type |-> t, of |-> c] \in Receipts, Report(t, c)
  PROVE  inbox' \in [Receipts -> {"none", "pending", "processed", "quarantined"}]
  BY DEF Report, TypeOK

LEMMA EnvironmentTypes ==
  ASSUME TypeIInv, Environment \/ (\E m \in Mandates : ProviderStops(m)), UNCHANGED refundVars
  PROVE  TypeIInv'
<1>1. TypeOK /\ Placed
  BY DEF TypeIInv, RefundTypeOK, Placed
<1>2. UNCHANGED handler
  BY Zenon DEF Environment, Tick, SetAccount, ExecuteCreate, Expires, ChargeSucceeds, ChargeFails, ProviderStops
<1>3. ASSUME Tick PROVE TypeOK'
  <2>1. now' \in 0..Horizon
    BY <1>1, <1>3, RenewalAssumption DEF TypeOK, Tick
  <2>2. UNCHANGED <<account, sub, mandate, cycles, recovery, claim, provider, post, inbox>>
    BY <1>3 DEF Tick
  <2> QED BY <1>1, <2>1, <2>2 DEF TypeOK
<1>4. ASSUME NEW a \in {"open"} \cup Troubles, SetAccount(a) PROVE TypeOK'
  BY <1>1, <1>4 DEF SetAccount, TypeOK
<1>5. ASSUME NEW m \in Mandates, ExecuteCreate(m) \/ Expires(m) PROVE TypeOK'
  <2>1. PICK s \in ProviderStatuses : provider' = [provider EXCEPT ![m].status = s]
    <3>1. "created" \in ProviderStatuses /\ "expired" \in ProviderStatuses
      BY DEF ProviderStatuses
    <3> QED BY <1>5, <3>1, Zenon DEF ExecuteCreate, Expires
  <2>2. provider' \in [Mandates -> ProviderRows]
    BY <1>1, <2>1, ProviderTyped, RenewalAssumption, Zenon
  <2>3. /\ post' \subseteq post
        /\ UNCHANGED <<now, account, sub, mandate, cycles, recovery, claim, inbox>>
    BY <1>5, Zenon DEF ExecuteCreate, Expires
  <2> QED BY <1>1, <2>2, <2>3 DEF ProviderRows, TypeOK
<1>6. ASSUME NEW m \in Mandates, ChargeSucceeds(m) PROVE TypeOK'
  <2>1. Coming(m) \in Cycles /\ provider[m].paid + 1 \in 0..TotalCount
    BY <1>1, <1>6, RenewalAssumption DEF ChargeSucceeds, Due, TypeOK, Coming, Cycles
  <2>2. provider' \in [Mandates -> ProviderRows]
    <3>1. \E s \in ProviderStatuses : provider' = [provider EXCEPT ![m] = [status |-> s, paid |-> provider[m].paid + 1]]
      BY <1>1, <1>6 DEF ChargeSucceeds, ProviderStatuses, TypeOK
    <3>2. PICK s \in ProviderStatuses :
            provider' = [provider EXCEPT ![m] = [status |-> s, paid |-> provider[m].paid + 1]]
      BY <3>1, Zenon
    <3>3. \A n \in 0..TotalCount :
            [provider EXCEPT ![m] = [status |-> s, paid |-> n]] \in [Mandates -> ProviderRows]
      BY <1>1, ProviderTyped, Zenon
    <3> DEFINE n == provider[m].paid + 1
    <3>4. n \in 0..TotalCount
      BY <2>1
    <3>5. [provider EXCEPT ![m] = [status |-> s, paid |-> n]] \in [Mandates -> ProviderRows]
      <4> HIDE DEF n
      <4> QED BY <3>3, <3>4, Zenon
    <3> QED BY <3>2, <3>5, Zenon
  <2>3. inbox' \in [Receipts -> {"none", "pending", "processed", "quarantined"}]
    BY <1>1, <1>6, <2>1, ReportTyped DEF ChargeSucceeds, Receipts
  <2> QED BY <1>1, <1>6, <2>2, <2>3 DEF ChargeSucceeds, ProviderRows, TypeOK
<1>7. ASSUME NEW m \in Mandates, ChargeFails(m) PROVE TypeOK'
  <2>1. Coming(m) \in Cycles
    BY <1>1, <1>7, RenewalAssumption DEF ChargeFails, Due, TypeOK, Coming, Cycles
  <2>2. PICK s \in {"pending", "halted"} :
          /\ provider' = [provider EXCEPT ![m].status = s]
          /\ Report(s, Coming(m))
    <3> DEFINE to == IF provider[m].status = "pending" THEN "halted" ELSE "pending"
    <3>1. to \in {"pending", "halted"}
      OBVIOUS
    <3> QED BY <1>7, <3>1, Zenon DEF ChargeFails
  <2>3. provider' \in [Mandates -> ProviderRows]
    <3>1. s \in ProviderStatuses
      BY DEF ProviderStatuses
    <3> QED BY <1>1, <2>2, <3>1, ProviderTyped, Zenon
  <2>4. inbox' \in [Receipts -> {"none", "pending", "processed", "quarantined"}]
    <3>1. [type |-> s, of |-> Coming(m)] \in Receipts
      BY <2>1 DEF Receipts
    <3> QED BY <1>1, <2>2, <3>1, ReportTyped, Zenon
  <2>5. UNCHANGED <<now, account, sub, mandate, cycles, recovery, claim, post>>
    BY <1>7, Zenon DEF ChargeFails
  <2> QED BY <1>1, <2>3, <2>4, <2>5 DEF ProviderRows, TypeOK
<1>8. ASSUME NEW m \in Mandates, ProviderStops(m) PROVE TypeOK'
  <2>1. provider' \in [Mandates -> ProviderRows]
    <3>1. "cancelled" \in ProviderStatuses
      BY DEF ProviderStatuses
    <3> QED BY <1>1, <1>8, <3>1, ProviderTyped, RenewalAssumption, Zenon DEF ProviderStops
  <2>2. inbox' \in [Receipts -> {"none", "pending", "processed", "quarantined"}]
    BY <1>1, <1>8, ReportTyped DEF ProviderStops, Receipts
  <2>3. post' \subseteq post /\ UNCHANGED <<now, account, sub, mandate, cycles, recovery, claim>>
    BY <1>8, Zenon DEF ProviderStops
  <2> QED BY <1>1, <2>1, <2>2, <2>3 DEF ProviderRows, TypeOK
<1>9. TypeOK'
  BY <1>3, <1>4, <1>5, <1>6, <1>7, <1>8, Zenon DEF Environment
<1> QED BY <1>1, <1>2, <1>9, Stays, TypesKept

LEMMA EnrolmentTypes ==
  ASSUME TypeIInv, NEW h \in Handlers, NEW m \in Mandates, UNCHANGED refundVars,
         EnrolNew(h, m) \/ ClaimDispatch(h, m) \/ EnrolmentUncertain(h, m) \/ Attach(h, m)
  PROVE  TypeIInv'
<1>1. TypeOK /\ Placed /\ \A s, x : [Idle EXCEPT !.pc = s, !.of = x].pc = s
  BY DEF TypeIInv, RefundTypeOK, Placed, Idle
<1>2. Placed'
  <2>1. Ends(h) \/ \E s \in {"dispatch", "lookup"} : Becomes(h, [Idle EXCEPT !.pc = s, !.of = <<m, 0>>])
    <3>1. "dispatch" \in {"dispatch", "lookup"} /\ "lookup" \in {"dispatch", "lookup"}
      OBVIOUS
    <3>2. CASE EnrolNew(h, m)
      BY <3>1, <3>2, Zenon DEF EnrolNew
    <3>3. CASE ClaimDispatch(h, m)
      BY <3>1, <3>3, Zenon DEF ClaimDispatch
    <3>4. CASE EnrolmentUncertain(h, m) \/ Attach(h, m)
      BY <3>4, Zenon DEF EnrolmentUncertain, Attach
    <3> QED BY <3>2, <3>3, <3>4
  <2>2. \A s \in {"dispatch", "lookup"} : s \in {"dispatch", "lookup", "stop", "stop receipt", "refunding"}
    OBVIOUS
  <2> QED BY <1>1, <2>1, <2>2, MovesPlaced, EndsPlaced, Zenon
<1>3. FirstCharge \in 0..(Horizon + CycleLen) /\ mandate \in [Mandates -> MandateRows] /\ sub \in Subscriptions
  BY <1>1, RenewalAssumption DEF TypeOK, Subscriptions, FirstCharge, Later
<1>4. mandate' \in [Mandates -> MandateRows]
  <2>1. CASE EnrolNew(h, m)
    BY <1>3, <2>1 DEF EnrolNew, MandateRows
  <2>2. CASE ClaimDispatch(h, m)
    BY <1>3, <2>2 DEF ClaimDispatch, MandateRows
  <2>3. CASE EnrolmentUncertain(h, m)
    BY <1>3, <2>3 DEF EnrolmentUncertain, MandateRows
  <2>4. CASE Attach(h, m)
    BY <1>3, <2>4 DEF Attach, MandateRows
  <2> QED BY <2>1, <2>2, <2>3, <2>4
<1>5. sub' \in Subscriptions
  <2>1. sub' = sub \/ sub' = [sub EXCEPT !.bound = None] \/ sub' = [sub EXCEPT !.bound = m]
    BY DEF EnrolNew, ClaimDispatch, EnrolmentUncertain, Attach
  <2> QED BY <1>3, <2>1 DEF Subscriptions
<1>6. post' \subseteq Posts /\ UNCHANGED <<now, account, cycles, recovery, claim, provider, inbox>>
  BY <1>1 DEF EnrolNew, ClaimDispatch, EnrolmentUncertain, Attach, Posts, TypeOK
<1>7. TypeOK'
  BY <1>1, <1>4, <1>5, <1>6 DEF TypeOK
<1> QED BY <1>2, <1>7, TypesKept

(* A renewed term lies between the start of its period and the horizon.     *)
LEMMA RenewedType ==
  ASSUME TypeOK, NEW c \in Cycles, NEW ev, ChargeOutcome(c, ev) = "renewed"
  PROVE  /\ PeriodStart(c) <= now /\ PeriodStart(c) = Expected(c[1]) /\ c \notin cycles
         /\ sub.end = PaidEnd /\ Row(c[1]) /\ LifecycleFits(c[1])
<1>1. PeriodStart(c) \in Nat /\ now \in Nat
  BY Periods, RenewalAssumption DEF TypeOK
<1> QED BY <1>1 DEF ChargeOutcome

LEMMA SettleTyped ==
  ASSUME TypeOK, NEW r \in Receipts, NEW o \in {"quarantined", "processed", "retry"}, Settle(r, o)
  PROVE  inbox' \in [Receipts -> {"none", "pending", "processed", "quarantined"}]
  BY DEF Settle, TypeOK

LEMMA ChargeTypes ==
  ASSUME TypeIInv, NEW h \in Handlers, NEW c \in Cycles, ApplyCharge(h, c), UNCHANGED refundVars
  PROVE  TypeIInv'
<1>1. TypeOK /\ Placed
  BY DEF TypeIInv, RefundTypeOK, Placed
<1>2. Placed'
  BY <1>1, EndsPlaced, Zenon DEF ApplyCharge
<1>3. Charged(c) \in Receipts
  BY DEF Charged, Receipts
<1>4. CASE inbox[Charged(c)] = "pending" /\ ChargeOutcome(c, handler[h].ev) = "renewed"
  <2>1. /\ sub' = Renewed(c) /\ cycles' = cycles \cup {c}
        /\ recovery' = [recovery EXCEPT ![c].resolved = recovery[c].open]
        /\ \/ mandate' = [mandate EXCEPT ![c[1]].state = "completed", ![c[1]].active = FALSE]
           \/ mandate' = mandate
        /\ Settle(Charged(c), "processed")
        /\ UNCHANGED <<now, account, claim, provider, post>>
    BY <1>4 DEF ApplyCharge
  <2>2. PeriodStart(c) \in Nat /\ PeriodStart(c) <= now /\ PeriodEnd(c) = PeriodStart(c) + CycleLen /\ c[1] \in Mandates
    BY <1>1, <1>4, Periods, RenewedType
  <2>3. sub' \in Subscriptions
    <3>1. PeriodStart(c) \in 0..Horizon /\ PeriodEnd(c) \in 0..(Horizon + CycleLen)
      BY <1>1, <2>2, RenewalAssumption DEF TypeOK
    <3>2. sub \in Subscriptions
      BY <1>1 DEF TypeOK
    <3> HIDE DEF PeriodStart, PeriodEnd
    <3> QED BY <2>1, <3>1, <3>2 DEF Renewed, Subscriptions
  <2>4. recovery' \in [Cycles -> Cases]
    <3>1. recovery \in [Cycles -> Cases] /\ c \in Cycles
      BY <1>1 DEF TypeOK
    <3>2. recovery[c].open \in BOOLEAN /\ [recovery[c] EXCEPT !.resolved = recovery[c].open] \in Cases
      BY <3>1 DEF Cases
    <3>3. recovery' = [recovery EXCEPT ![c] = [recovery[c] EXCEPT !.resolved = recovery[c].open]]
      BY <2>1
    <3> QED BY <3>1, <3>2, <3>3
  <2>5. mandate' \in [Mandates -> MandateRows]
    BY <1>1, <2>1, <2>2 DEF MandateRows, TypeOK
  <2>6. inbox' \in [Receipts -> {"none", "pending", "processed", "quarantined"}]
    BY <1>1, <1>3, <2>1, SettleTyped
  <2>7. TypeOK'
    BY <1>1, <2>1, <2>3, <2>4, <2>5, <2>6 DEF TypeOK
  <2> QED BY <1>2, <2>7, TypesKept
<1>5. CASE ~(inbox[Charged(c)] = "pending" /\ ChargeOutcome(c, handler[h].ev) = "renewed")
  <2>1. /\ Settle(Charged(c), ChargeOutcome(c, handler[h].ev))
        /\ UNCHANGED <<now, account, sub, mandate, cycles, recovery, claim, provider, post>>
    BY <1>5 DEF ApplyCharge
  <2>2. ChargeOutcome(c, handler[h].ev) \in {"quarantined", "processed", "retry", "renewed"}
    BY DEF ChargeOutcome
  <2>3. inbox' \in [Receipts -> {"none", "pending", "processed", "quarantined"}]
    BY <1>1, <1>3, <1>5, <2>1, <2>2, SettleTyped DEF Settle, TypeOK
  <2>4. TypeOK'
    BY <1>1, <2>1, <2>3 DEF TypeOK
  <2> QED BY <1>2, <2>4, TypesKept
<1> QED BY <1>4, <1>5

LEMMA RecoveringType ==
  ASSUME TypeOK, NEW c \in Cycles, NEW ev, FailureOutcome(c, ev) = "recovering"
  PROVE  /\ sub.end <= now /\ sub.end <= Expected(c[1]) /\ sub.end = PaidEnd /\ Expected(c[1]) <= now
         /\ sub.bound = c[1] /\ sub.status \in {"active", "grace", "past_due"} /\ ~sub.cap
         /\ claim[c[1]] = "none" /\ mandate[c[1]].state = "ready" /\ c[1] \in Mandates
         /\ ev.status \in {"pending", "halted"} /\ ev.paid = Cardinality(Applied(c[1]))
         /\ \A u \in UnpaidCycle(c[1]) : CaseFits(u)
<1>1. c[1] \in Mandates /\ Expected(c[1]) \in Nat /\ now \in Nat /\ sub.end \in Nat
  BY ExpectedIsMax, RenewalAssumption DEF TypeOK, Subscriptions, Cycles
<1> QED BY <1>1 DEF FailureOutcome, CountFits

LEMMA FailureReceipts ==
  ASSUME NEW c \in Cycles, NEW r \in Failures(c)
  PROVE  r \in Receipts /\ r.of = c /\ r.type \in {"pending", "halted"} /\ r = [type |-> r.type, of |-> c]
  BY DEF Failures, Receipts

LEMMA FailureSettles ==
  ASSUME TypeOK, NEW r \in Receipts, NEW c, NEW ev,
         Settle(r, FailureOutcome(c, ev)), FailureOutcome(c, ev) # "recovering" \/ inbox[r] # "pending"
  PROVE  inbox' \in [Receipts -> {"none", "pending", "processed", "quarantined"}]
<1>1. FailureOutcome(c, ev) \in {"quarantined", "processed", "retry", "recovering"}
  BY DEF FailureOutcome
<1>2. inbox' = inbox \/ \E o \in {"quarantined", "processed"} : inbox' = [inbox EXCEPT ![r] = o]
  BY <1>1, Zenon DEF Settle
<1> QED BY <1>2 DEF TypeOK

(* The case and the plan after a failed charge.                             *)
OpensCase(u, g) ==
  /\ recovery' = [recovery EXCEPT ![u] =
       [open |-> TRUE, paidThrough |-> sub.end, grace |-> Deadline(u, g), resolved |-> FALSE]]
  /\ sub' = [sub EXCEPT !.due = sub.end, !.grace = Deadline(u, g),
                         !.status = IF Deadline(u, g) > now THEN "grace" ELSE "past_due"]

LEMMA Recovering ==
  ASSUME NEW h, NEW r, NEW g, ApplyFailure(h, r, g),
         inbox[r] = "pending", FailureOutcome(r.of, handler[h].ev) = "recovering"
  PROVE  /\ UNCHANGED <<now, account, mandate, cycles, claim, provider, post>> /\ Ends(h)
         /\ inbox' = [inbox EXCEPT ![r] = "processed"]
         /\ \E u \in UnpaidCycle(r.of[1]) : OpensCase(u, g)
<1>1. Settle(r, "processed")
  BY Zenon DEF ApplyFailure
<1>2. inbox' = [inbox EXCEPT ![r] = "processed"]
  BY <1>1 DEF Settle
<1> QED BY <1>2, Zenon DEF ApplyFailure, OpensCase

LEMMA FailureTypes ==
  ASSUME TypeIInv, NEW h \in Handlers, NEW c \in Cycles, NEW r \in Failures(c), NEW g \in Grace,
         ApplyFailure(h, r, g), UNCHANGED refundVars
  PROVE  TypeIInv'
<1>1. TypeOK /\ Placed /\ r \in Receipts /\ r.of = c /\ sub \in Subscriptions /\ recovery \in [Cycles -> Cases]
  BY FailureReceipts DEF TypeIInv, RefundTypeOK, Placed, TypeOK
<1>2. Placed'
  BY <1>1, EndsPlaced, Zenon DEF ApplyFailure
<1>3. CASE inbox[r] = "pending" /\ FailureOutcome(c, handler[h].ev) = "recovering"
  <2>0. inbox[r] = "pending" /\ FailureOutcome(r.of, handler[h].ev) = "recovering"
    BY <1>1, <1>3
  <2>1. PICK u \in UnpaidCycle(c[1]) : OpensCase(u, g)
    BY <1>1, <2>0, Recovering
  <2>2. sub.end <= now /\ now \in 0..Horizon /\ sub.end \in Nat /\ u \in Cycles
    BY <1>1, <1>3, RecoveringType, RenewalAssumption DEF UnpaidCycle, TypeOK, Subscriptions
  <2>3. Deadline(u, g) \in 0..(Horizon + CycleLen) \cup {None} /\ sub.end \in 0..Horizon
    <3>1. g \in Nat /\ g < CycleLen
      BY RenewalAssumption
    <3>2. recovery[u].grace \in 0..(Horizon + CycleLen) \cup {None}
      BY <1>1, <2>2 DEF Cases
    <3>3. sub.end + g \in 0..(Horizon + CycleLen)
      BY <2>2, <3>1, RenewalAssumption
    <3> QED BY <2>2, <3>2, <3>3, RenewalAssumption DEF Deadline
  <2>4. sub' \in Subscriptions
    BY <1>1, <2>1, <2>3 DEF Subscriptions, OpensCase
  <2>5. recovery' \in [Cycles -> Cases]
    BY <1>1, <2>1, <2>2, <2>3 DEF Cases, OpensCase
  <2>6. inbox' \in [Receipts -> {"none", "pending", "processed", "quarantined"}]
    BY <1>1, <1>3, Recovering DEF TypeOK
  <2>7. UNCHANGED <<now, account, mandate, cycles, claim, provider, post>>
    BY Zenon DEF ApplyFailure
  <2>8. TypeOK'
    BY <1>1, <2>4, <2>5, <2>6, <2>7 DEF TypeOK
  <2> QED BY <1>2, <2>8, TypesKept
<1>4. CASE ~(inbox[r] = "pending" /\ FailureOutcome(c, handler[h].ev) = "recovering")
  <2>1. /\ Settle(r, FailureOutcome(c, handler[h].ev))
        /\ UNCHANGED <<now, account, sub, recovery, mandate, cycles, claim, provider, post>>
    BY <1>1, <1>4, Zenon DEF ApplyFailure
  <2>2. inbox' \in [Receipts -> {"none", "pending", "processed", "quarantined"}]
    BY <1>1, <1>4, <2>1, FailureSettles, Zenon
  <2>3. TypeOK'
    BY <1>1, <2>1, <2>2 DEF TypeOK
  <2> QED BY <1>2, <2>3, TypesKept
<1> QED BY <1>3, <1>4

LEMMA RejectTypes ==
  ASSUME TypeIInv, NEW c \in Cycles, NEW r \in Failures(c), RejectFailure(r), UNCHANGED refundVars
  PROVE  TypeIInv'
<1>1. TypeOK /\ Placed /\ r \in Receipts
  BY FailureReceipts DEF TypeIInv, RefundTypeOK, Placed
<1>2. UNCHANGED <<now, account, sub, mandate, cycles, recovery, claim, provider, post, handler>> /\ Settle(r, "quarantined")
  BY Zenon DEF RejectFailure
<1>3. inbox' \in [Receipts -> {"none", "pending", "processed", "quarantined"}]
  BY <1>1, <1>2, SettleTyped
<1> QED BY <1>1, <1>2, <1>3, Stays, TypesKept DEF TypeOK

LEMMA ConfirmTyped ==
  ASSUME TypeOK, NEW m \in Mandates, Confirm(m)
  PROVE  sub' \in Subscriptions /\ claim' \in [Mandates -> {"none", "sending", "uncertain", "confirmed"}]
  BY DEF TypeOK, Confirm, Subscriptions

LEMMA CancelTypes ==
  ASSUME TypeIInv, NEW h \in Handlers, NEW m \in Mandates,
         CancelDecided(h, m) \/ CancelRecorded(h, m) \/ ApplyStopReceipt(h, m)
  PROVE  TypeIInv'
<1>1. TypeOK /\ Placed
  BY DEF TypeIInv, RefundTypeOK, Placed
<1>2. \/ UNCHANGED <<claim, sub>>
      \/ Confirm(m)
      \/ UNCHANGED sub /\ \E s \in {"sending", "uncertain"} : claim' = [claim EXCEPT ![m] = s]
  <2>1. "sending" \in {"sending", "uncertain"} /\ "uncertain" \in {"sending", "uncertain"}
    OBVIOUS
  <2> QED BY <2>1, Zenon DEF CancelDecided, CancelRecorded, ApplyStopReceipt
<1>3. sub' \in Subscriptions /\ claim' \in [Mandates -> {"none", "sending", "uncertain", "confirmed"}]
  <2>1. CASE UNCHANGED <<claim, sub>>
    BY <1>1, <2>1 DEF TypeOK
  <2>2. CASE UNCHANGED sub /\ \E s \in {"sending", "uncertain"} : claim' = [claim EXCEPT ![m] = s]
    BY <1>1, <2>2 DEF TypeOK
  <2> QED BY <1>1, <1>2, <2>1, <2>2, ConfirmTyped
<1>4. post' \subseteq Posts
  <2>1. [kind |-> "cancel", of |-> m] \in Posts
    BY DEF Posts
  <2>2. post' = post \/ post' = post \cup {[kind |-> "cancel", of |-> m]}
    BY Zenon DEF CancelDecided, CancelRecorded, ApplyStopReceipt
  <2> QED BY <1>1, <2>1, <2>2 DEF TypeOK
<1>5. inbox' \in [Receipts -> {"none", "pending", "processed", "quarantined"}]
  <2>1. StopReceipt(m) \in Receipts
    BY DEF StopReceipt, Receipts
  <2>2. \/ UNCHANGED inbox
        \/ Settle(StopReceipt(m), "processed") \/ Settle(StopReceipt(m), "quarantined")
    BY Zenon DEF CancelDecided, CancelRecorded, ApplyStopReceipt
  <2> QED BY <1>1, <2>1, <2>2, SettleTyped DEF TypeOK
<1>6. UNCHANGED <<now, account, mandate, cycles, recovery, provider, refundVars>>
  BY Zenon DEF CancelDecided, CancelRecorded, ApplyStopReceipt
<1>7. Placed'
  <2>1. Ends(h) \/ Becomes(h, [Idle EXCEPT !.pc = "stop", !.of = <<m, 0>>])
    BY Zenon DEF CancelDecided, CancelRecorded, ApplyStopReceipt
  <2>2. [Idle EXCEPT !.pc = "stop", !.of = <<m, 0>>].pc = "stop"
    BY DEF Idle
  <2> QED BY <1>1, <2>1, <2>2, EndsPlaced, MovesPlaced
<1>8. TypeOK'
  BY <1>1, <1>3, <1>4, <1>5, <1>6 DEF TypeOK
<1> QED BY <1>6, <1>7, <1>8, TypesKept

LEMMA StopReadTypes ==
  ASSUME TypeIInv, NEW h \in Handlers, NEW m \in Mandates, FetchStopReceipt(h, m)
  PROVE  TypeIInv'
<1>1. TypeOK /\ Placed
  BY DEF TypeIInv, RefundTypeOK, Placed
<1>2. UNCHANGED <<now, account, sub, mandate, cycles, recovery, claim, provider, post, refundVars>>
  BY Zenon DEF FetchStopReceipt
<1>3. \/ UNCHANGED handler /\ Settle(StopReceipt(m), "quarantined")
      \/ UNCHANGED inbox /\ Becomes(h, [pc |-> "stop receipt", of |-> <<m, 0>>, ev |-> Status(m)])
  BY Zenon DEF FetchStopReceipt
<1>4. inbox' \in [Receipts -> {"none", "pending", "processed", "quarantined"}]
  <2>1. StopReceipt(m) \in Receipts
    BY DEF StopReceipt, Receipts
  <2> QED BY <1>1, <1>3, <2>1, SettleTyped DEF TypeOK
<1>5. Placed'
  BY <1>1, <1>3, Stays, MovesPlaced
<1>6. TypeOK'
  BY <1>1, <1>2, <1>4 DEF TypeOK
<1> QED BY <1>2, <1>5, <1>6, TypesKept

Statuses == {"none", "pending", "processed", "failed"}

LEMMA SeenTyped ==
  ASSUME RefundTypeOK, NEW ev, Listing(ev) PROVE Seen(ev) \in [RefundIds -> Statuses]
  BY DEF RefundTypeOK, Listing, Settlements, Seen, Statuses

LEMMA BoundTyped ==
  ASSUME RefundTypeOK, NEW p \in Payments, NEW ev, Listing(ev)
  PROVE  Bound(p, ev) \in Intents
<1>1. intent[p] \in Intents
  BY DEF RefundTypeOK
<1>2. NoIntent \in Intents
  BY ReversalAssumption DEF NoIntent, Intents
<1> DEFINE mine == {r \in DOMAIN ev : refund[r].ours}
           x == CHOOSE r \in mine : TRUE
<1>3. ASSUME mine # {} PROVE [intent[p] EXCEPT !.state = ev[x], !.bound = x] \in Intents
  <2>1. x \in DOMAIN ev
    BY <1>3
  <2>2. x \in RefundIds /\ ev[x] \in Settlements
    BY <2>1 DEF Listing
  <2> HIDE DEF x
  <2> QED BY <1>1, <2>2 DEF Intents, Settlements
<1>4. [intent[p] EXCEPT !.state = "external"] \in Intents
  BY <1>1 DEF Intents
<1> HIDE DEF x
<1>5. \/ Bound(p, ev) = NoIntent \/ Bound(p, ev) = intent[p]
      \/ Bound(p, ev) = [intent[p] EXCEPT !.state = "external"]
      \/ mine # {} /\ Bound(p, ev) = [intent[p] EXCEPT !.state = ev[x], !.bound = x]
  BY Zenon DEF Bound, x
<1> HIDE DEF mine
<1> QED BY <1>1, <1>2, <1>3, <1>4, <1>5

LEMMA DoubtfulTyped == ASSUME NEW i \in Intents PROVE Doubtful(i) \in Intents
  BY DEF Doubtful, Intents

(* What recording an inventory comes to.                                    *)
LEMMA ObserveTyped ==
  ASSUME RefundTypeOK, NEW p \in Payments, NEW ev, Listing(ev), NEW i \in Intents, Observe(p, ev, i)
  PROVE  /\ observed' \in [RefundIds -> Statuses] /\ intent' \in [Payments -> Intents]
         /\ sub' \in Subscriptions
<1>1. sub \in Subscriptions /\ intent \in [Payments -> Intents]
  BY DEF RefundTypeOK, TypeOK
<1>2. observed' = Seen(ev) /\ intent' = [intent EXCEPT ![p] = i] /\ sub' = ObserveSub(p, ev)
  BY DEF Observe
<1>3. sub' \in Subscriptions
  BY <1>1, <1>2 DEF ObserveSub, Subscriptions
<1>4. intent' \in [Payments -> Intents]
  BY <1>1, <1>2
<1> QED BY <1>2, <1>3, <1>4, SeenTyped

LEMMA OthersTyped ==
  ASSUME TypeOK, UNCHANGED <<now, account, mandate, cycles, recovery, claim, provider, post, inbox>>,
         sub' \in Subscriptions
  PROVE  TypeOK'
  BY DEF TypeOK

LEMMA RefundingTypes ==
  ASSUME TypeIInv, NEW h \in Handlers, NEW p \in Payments,
         RefundRecorded(h, p) \/ \E amount \in 1..Price : RefundDispatched(h, p, amount)
  PROVE  TypeIInv'
<1> DEFINE ev == handler[h].ev
<1>1. RefundTypeOK /\ TypeOK /\ Placed
  BY DEF TypeIInv, RefundTypeOK, Placed
<1>2. UNCHANGED <<now, account, mandate, cycles, recovery, claim, provider, post, inbox, refund, refundInbox>>
  BY Zenon DEF RefundRecorded, RefundDispatched, refundVars
<1>3. Placed'
  <2>1. Ends(h) \/ Becomes(h, [Idle EXCEPT !.pc = "refunding", !.of = p])
    BY Zenon DEF RefundRecorded, RefundDispatched
  <2>2. [Idle EXCEPT !.pc = "refunding", !.of = p].pc = "refunding"
    BY DEF Idle
  <2> QED BY <1>1, <2>1, <2>2, EndsPlaced, MovesPlaced
<1>4. refundPost' \subseteq Payments
  <2>1. refundPost' = refundPost \/ refundPost' = refundPost \cup {p}
    BY Zenon DEF RefundRecorded, RefundDispatched, refundVars
  <2> QED BY <1>1, <2>1 DEF RefundTypeOK
<1>5. \/ UNCHANGED <<observed, sub, intent>>
      \/ UNCHANGED <<observed, sub>> /\ \E i \in Intents : intent' = [intent EXCEPT ![p] = i]
      \/ handler[h].pc \in {"refund", "refunded"} /\ (Observe(p, ev, Bound(p, ev)) \/ Observe(p, ev, Doubtful(Bound(p, ev))))
  <2>1. CASE RefundRecorded(h, p)
    <3>1. Doubtful(intent[p]) \in Intents
      BY <1>1, DoubtfulTyped DEF RefundTypeOK
    <3>2. handler[h].pc # "refund unknown" => handler[h].pc \in {"refund", "refunded"}
      BY <2>1 DEF RefundRecorded
    <3> QED BY <2>1, <3>1, <3>2, Zenon DEF RefundRecorded
  <2>2. ASSUME NEW amount \in 1..Price, RefundDispatched(h, p, amount) PROVE <1>5!1 \/ <1>5!2 \/ <1>5!3
    <3>1. [state |-> "sending", amount |-> amount, bound |-> None] \in Intents
      BY ReversalAssumption DEF Intents
    <3>2. handler[h].pc \in {"refund", "refunded"}
      BY <2>2 DEF RefundDispatched
    <3> QED BY <2>2, <3>1, <3>2, Zenon DEF RefundDispatched, refundVars
  <2> QED BY <2>1, <2>2
<1>6. ASSUME handler[h].pc \in {"refund", "refunded"}, Observe(p, ev, Bound(p, ev)) \/ Observe(p, ev, Doubtful(Bound(p, ev)))
      PROVE  observed' \in [RefundIds -> Statuses] /\ intent' \in [Payments -> Intents] /\ sub' \in Subscriptions
  <2>1. Listing(ev)
    <3>1. handler[h].of = p
      BY Zenon DEF RefundRecorded, RefundDispatched
    <3> QED BY <1>1, <1>6, <3>1 DEF Placed, Reviews
  <2>2. Bound(p, ev) \in Intents /\ Doubtful(Bound(p, ev)) \in Intents
    BY <1>1, <2>1, BoundTyped, DoubtfulTyped
  <2> HIDE DEF ev
  <2> QED BY <1>1, <1>6, <2>1, <2>2, ObserveTyped
<1>7. observed' \in [RefundIds -> Statuses] /\ intent' \in [Payments -> Intents] /\ sub' \in Subscriptions
  <2> HIDE DEF ev
  <2> QED BY <1>1, <1>5, <1>6 DEF RefundTypeOK, TypeOK, Statuses
<1>8. TypeOK'
  BY <1>1, <1>2, <1>7, OthersTyped
<1> QED BY <1>1, <1>2, <1>3, <1>4, <1>7, <1>8 DEF TypeIInv, Placed, RefundTypeOK, Statuses

LEMMA RefundReceiptTypes ==
  ASSUME TypeIInv, NEW h \in Handlers, NEW rc \in RefundReceipts, ApplyRefundReceipt(h, rc)
  PROVE  TypeIInv'
<1> DEFINE ev == handler[h].ev
           p == refund[rc[1]].of
<1>1. RefundTypeOK /\ TypeOK /\ Placed
  BY DEF TypeIInv, RefundTypeOK, Placed
<1>2. /\ UNCHANGED <<now, account, mandate, cycles, recovery, claim, provider, post, inbox, refund, refundPost>>
      /\ Ends(h) /\ handler[h].of = rc[1] /\ handler[h].pc = rc[2]
  BY Zenon DEF ApplyRefundReceipt
<1>3. Placed'
  BY <1>1, <1>2, EndsPlaced
<1>4. rc[1] \in RefundIds /\ rc[2] \in Settlements /\ p \in Payments
  BY <1>1 DEF RefundReceipts, Settlements, RefundTypeOK, Refunds
<1>5. Listing(ev)
  BY <1>1, <1>2, <1>4 DEF Placed, Reviews
<1> HIDE DEF p, ev
<1>6. UNCHANGED <<observed, intent, sub>> \/ Observe(p, ev, Bound(p, ev))
  BY Zenon DEF ApplyRefundReceipt, p, ev
<1>7. observed' \in [RefundIds -> Statuses] /\ intent' \in [Payments -> Intents] /\ sub' \in Subscriptions
  <2>1. CASE UNCHANGED <<observed, intent, sub>>
    BY <1>1, <2>1 DEF RefundTypeOK, TypeOK, Statuses
  <2>2. CASE Observe(p, ev, Bound(p, ev))
    BY <1>1, <1>4, <1>5, <2>2, BoundTyped, ObserveTyped
  <2> QED BY <1>6, <2>1, <2>2
<1>8. refundInbox' \in [RefundReceipts -> {"none", "pending", "processed", "quarantined"}]
  <2>1. UNCHANGED refundInbox \/ \E s \in {"processed", "quarantined"} : refundInbox' = [refundInbox EXCEPT ![rc] = s]
    <3>1. "processed" \in {"processed", "quarantined"} /\ "quarantined" \in {"processed", "quarantined"}
      OBVIOUS
    <3> QED BY <3>1, Zenon DEF ApplyRefundReceipt, SettleRefund
  <2> QED BY <1>1, <2>1 DEF RefundTypeOK
<1>9. TypeOK'
  BY <1>1, <1>2, <1>7, OthersTyped
<1> QED BY <1>1, <1>2, <1>3, <1>7, <1>8, <1>9 DEF TypeIInv, Placed, RefundTypeOK, Statuses

LEMMA ProviderRefundTypes ==
  ASSUME TypeIInv, NEW r \in RefundIds,
         \/ \E p \in Payments : ProviderRefunds(r, p)
         \/ \E s \in {"processed", "failed"} : RefundSettles(r, s)
  PROVE  TypeIInv'
<1>1. RefundTypeOK /\ TypeOK /\ Placed
  BY DEF TypeIInv, RefundTypeOK, Placed
<1>2. UNCHANGED <<vars, intent, observed>>
  BY Zenon DEF ProviderRefunds, RefundSettles
<1>3. \E s \in Settlements : refundInbox' = [refundInbox EXCEPT ![<<r, s>>] = "pending"]
  <2>1. "pending" \in Settlements /\ \A s \in {"processed", "failed"} : s \in Settlements
    BY DEF Settlements
  <2> QED BY <2>1, Zenon DEF ProviderRefunds, IssueRefund, RefundSettles
<1>4. \/ \E x \in Refunds : refund' = [refund EXCEPT ![r] = x]
      \/ \E s \in {"processed", "failed"} : refund' = [refund EXCEPT ![r].status = s]
  <2>1. ASSUME NEW p \in Payments, ProviderRefunds(r, p) PROVE \E x \in Refunds : refund' = [refund EXCEPT ![r] = x]
    <3>1. \A b \in 1..Price : b \in 0..Price
      BY ReversalAssumption
    <3>2. PICK amount \in 0..Price, ours \in BOOLEAN : IssueRefund(r, p, amount, ours)
      <4>1. intent[p].amount \in 0..Price
        BY <1>1 DEF RefundTypeOK, Intents
      <4>2. CASE \E amount \in 1..Price : IssueRefund(r, p, amount, FALSE)
        BY <3>1, <4>2, Zenon
      <4>3. CASE IssueRefund(r, p, intent[p].amount, TRUE)
        BY <4>1, <4>3, Zenon
      <4> QED BY <2>1, <4>2, <4>3, Zenon DEF ProviderRefunds
    <3>3. [status |-> "pending", of |-> p, amount |-> amount, ours |-> ours] \in Refunds
      BY <3>2 DEF Refunds
    <3> QED BY <3>2, <3>3, Zenon DEF IssueRefund
  <2>2. ASSUME NEW s \in {"processed", "failed"}, RefundSettles(r, s)
        PROVE  \E t \in {"processed", "failed"} : refund' = [refund EXCEPT ![r].status = t]
    BY <2>2, Zenon DEF RefundSettles
  <2> QED BY <2>1, <2>2, Zenon
<1>5. refund' \in [RefundIds -> Refunds]
  <2>1. CASE \E x \in Refunds : refund' = [refund EXCEPT ![r] = x]
    BY <1>1, <2>1 DEF RefundTypeOK
  <2>2. CASE \E s \in {"processed", "failed"} : refund' = [refund EXCEPT ![r].status = s]
    BY <1>1, <2>2 DEF RefundTypeOK, Refunds
  <2> QED BY <1>4, <2>1, <2>2
<1>6. refundPost' \subseteq Payments
  <2>1. refundPost' \subseteq refundPost
    BY Zenon DEF ProviderRefunds, RefundSettles
  <2> QED BY <1>1, <2>1 DEF RefundTypeOK
<1>7. refundInbox' \in [RefundReceipts -> {"none", "pending", "processed", "quarantined"}]
  BY <1>1, <1>3 DEF RefundTypeOK, RefundReceipts, Settlements
<1>8. Placed'
  BY <1>1, <1>2, Stays DEF vars
<1> QED BY <1>1, <1>2, <1>5, <1>6, <1>7, <1>8 DEF TypeIInv, Placed, RefundTypeOK, TypeOK, vars

LEMMA InitialTypes == RefundInit => TypeIInv
<1> SUFFICES ASSUME RefundInit PROVE TypeIInv
  OBVIOUS
<1>1. Init /\ refundPost = {}
  BY DEF RefundInit
<1>2. sub \in Subscriptions
  BY <1>1, RenewalAssumption DEF Init, Subscriptions
<1>3. mandate \in [Mandates -> MandateRows]
  BY <1>1, RenewalAssumption DEF Init, NoMandate, MandateRows
<1>4. recovery \in [Cycles -> Cases]
  BY <1>1 DEF Init, NoCase, Cases
<1>5. provider \in [Mandates -> [status : ProviderStatuses, paid : 0..TotalCount]]
  BY <1>1, RenewalAssumption DEF Init, ProviderStatuses
<1>6. /\ now \in 0..Horizon /\ account \in {"open"} \cup Troubles
      /\ cycles \subseteq Cycles /\ post \subseteq Posts
      /\ claim \in [Mandates -> {"none", "sending", "uncertain", "confirmed"}]
      /\ inbox \in [Receipts -> {"none", "pending", "processed", "quarantined"}]
  BY <1>1, RenewalAssumption DEF Init
<1>7. TypeOK
  BY <1>2, <1>3, <1>4, <1>5, <1>6 DEF TypeOK
<1>8. NoIntent \in Intents /\ NoRefund \in Refunds
  BY ReversalAssumption DEF NoIntent, Intents, NoRefund, Refunds, Payments
<1>9. RefundTypeOK
  BY <1>7, <1>8 DEF RefundInit, RefundTypeOK
<1>10. DOMAIN handler = Handlers /\ \A h \in Handlers : ~Reviews(handler[h])
  BY <1>1 DEF Init, Idle, Reviews, Settlements
<1> QED BY <1>9, <1>10 DEF TypeIInv

(* Every step, as the proofs take it apart.                                 *)
Writes(h) ==
  \/ /\ UNCHANGED refundVars
     /\ \/ \E m \in Mandates : EnrolNew(h, m) \/ ClaimDispatch(h, m) \/ EnrolmentUncertain(h, m) \/ Attach(h, m)
        \/ \E c \in Cycles : \/ ApplyCharge(h, c)
                             \/ \E r \in Failures(c), g \in Grace : ApplyFailure(h, r, g)
  \/ \E m \in Mandates :
       CancelDecided(h, m) \/ CancelRecorded(h, m) \/ FetchStopReceipt(h, m) \/ ApplyStopReceipt(h, m)
  \/ \E p \in Payments : RefundRecorded(h, p) \/ \E amount \in 1..Price : RefundDispatched(h, p, amount)
  \/ \E rc \in RefundReceipts : ApplyRefundReceipt(h, rc)

ProviderActs ==
  \/ Environment /\ UNCHANGED refundVars
  \/ \E m \in Mandates : ProviderStops(m)
  \/ \E r \in RefundIds : \/ \E p \in Payments : ProviderRefunds(r, p)
                          \/ \E s \in {"processed", "failed"} : RefundSettles(r, s)

Steps ==
  \/ \E h \in Handlers : Reads(h) \/ Writes(h)
  \/ \E c \in Cycles : \E r \in Failures(c) : RejectFailure(r) /\ UNCHANGED refundVars
  \/ ProviderActs

LEMMA EveryStep ==
  ASSUME [ReversalNext]_allVars PROVE Steps \/ UNCHANGED allVars
<1>1. ASSUME NEW h \in Handlers, Work(h), UNCHANGED refundVars PROVE Reads(h) \/ Writes(h)
  <2>1. CASE Dies(h)
    BY <1>1, <2>1, Zenon DEF Reads
  <2>2. ASSUME NEW m \in Mandates,
               \/ EnrolNew(h, m) \/ EnrolAgain(h, m) \/ ClaimDispatch(h, m)
               \/ FetchEnrolment(h, m) \/ EnrolmentUncertain(h, m) \/ Attach(h, m)
        PROVE  Reads(h) \/ Writes(h)
    BY <1>1, <2>2, Zenon DEF Reads, Writes
  <2>3. ASSUME NEW c \in Cycles, \/ ApplyCharge(h, c)
                                 \/ \E r \in Failures(c), g \in Grace : FetchFailure(h, r) \/ ApplyFailure(h, r, g)
        PROVE  Reads(h) \/ Writes(h)
    BY <1>1, <2>3, Zenon DEF Reads, Writes
  <2> QED BY <1>1, <2>1, <2>2, <2>3, Zenon DEF Work
<1>2. ASSUME NEW h \in Handlers, ReversalWork(h) PROVE Reads(h) \/ Writes(h)
  <2>1. ASSUME NEW c \in Cycles, FetchCharge(h, c, Refunded(c)), UNCHANGED refundVars
        PROVE  Reads(h) \/ Writes(h)
    BY <2>1, Zenon DEF Reads
  <2>2. ASSUME NEW m \in Mandates,
               \/ CancelRequested(h, m) \/ CancelDecided(h, m) \/ CancelRecorded(h, m)
               \/ \E ok \in BOOLEAN : CancelReplied(h, m, ok)
               \/ FetchStopReceipt(h, m) \/ ApplyStopReceipt(h, m)
        PROVE  Reads(h) \/ Writes(h)
    <3>1. TRUE \in BOOLEAN
      OBVIOUS
    <3> QED BY <2>2, <3>1, Zenon DEF Reads, Writes
  <2>3. ASSUME NEW p \in Payments,
               \/ RefundRead(h, p) \/ RefundReplied(h, p) \/ RefundRecorded(h, p)
               \/ \E amount \in 1..Price : RefundDispatched(h, p, amount)
        PROVE  Reads(h) \/ Writes(h)
    BY <2>3, Zenon DEF Reads, Writes
  <2>4. ASSUME NEW rc \in RefundReceipts, FetchRefundReceipt(h, rc) \/ ApplyRefundReceipt(h, rc)
        PROVE  Reads(h) \/ Writes(h)
    BY <2>4, Zenon DEF Reads, Writes
  <2> QED BY <1>2, <2>1, <2>2, <2>3, <2>4, Zenon DEF ReversalWork
<1> QED BY <1>1, <1>2, Zenon DEF ReversalNext, Steps, ProviderActs

LEMMA TypesStep ==
  ASSUME TypeIInv, [ReversalNext]_allVars PROVE TypeIInv'
<1>1. CASE UNCHANGED allVars
  BY <1>1 DEF TypeIInv, Reviews, Listing, RefundTypeOK, TypeOK, allVars, vars, refundVars
<1>2. CASE Steps
  <2>1. ASSUME NEW h \in Handlers, Writes(h) PROVE TypeIInv'
    BY <2>1, EnrolmentTypes, ChargeTypes, FailureTypes, CancelTypes, StopReadTypes, RefundingTypes,
       RefundReceiptTypes, Zenon DEF Writes
  <2>2. ASSUME ProviderActs PROVE TypeIInv'
    <3>1. ASSUME NEW m \in Mandates, ProviderStops(m) PROVE UNCHANGED refundVars
      BY <3>1, Zenon DEF ProviderStops
    <3> QED BY <2>2, <3>1, EnvironmentTypes, ProviderRefundTypes, Zenon DEF ProviderActs
  <2> QED BY <1>2, <2>1, <2>2, ReadsTypes, RejectTypes, Zenon DEF Steps
<1> QED BY <1>1, <1>2, EveryStep

(* Every variable keeps its type, in every renewal, cancellation and refund *)
(* there can be, of any number of mandates, refunds and handlers.           *)
THEOREM ReversalTypes == ReversalSpec => []RefundTypeOK
<1>1. TypeIInv /\ [ReversalNext]_allVars => TypeIInv'
  BY TypesStep
<1>2. TypeIInv => RefundTypeOK
  BY DEF TypeIInv
<1> QED BY InitialTypes, <1>1, <1>2, PTL DEF ReversalSpec
-----------------------------------------------------------------------------
(* What the paid terms rest on.  Only the mandate that holds the customer's *)
(* place can be charged for anew: every other term on record ended before   *)
(* it starts.                                                               *)
Held == {"unstarted", "creating", "uncertain", "ready"}

Placeholder ==
  /\ \A m, n \in Mandates : mandate[m].active /\ mandate[n].active => m = n
  /\ \A m \in Mandates : mandate[m].active <=> mandate[m].state \in Held
  /\ \A m \in Mandates : sub.bound = m => mandate[m].state \in {"ready", "completed"}

Begun ==
  /\ \A m \in Mandates : mandate[m].state # "none" => CycleLen <= mandate[m].start
  /\ \A c \in cycles : mandate[c[1]].state \in {"ready", "completed"}

NoHoles == \A c \in cycles, k \in 1..TotalCount : k < c[2] => <<c[1], k>> \in cycles
Apart   == \A c, d \in cycles : c # d => PeriodEnd(c) <= PeriodStart(d) \/ PeriodEnd(d) <= PeriodStart(c)
Full    == \A m \in Mandates, k \in 1..TotalCount : mandate[m].state = "completed" => <<m, k>> \in cycles
Behind  == \A m \in Mandates, d \in cycles : mandate[m].active /\ d[1] # m => PeriodEnd(d) <= mandate[m].start

TermIInv ==
  /\ Placeholder /\ Begun /\ NoHoles /\ Apart /\ Full /\ Behind
  /\ sub.end = PaidEnd /\ HandledMeansApplied

LEMMA PeriodsKept ==
  ASSUME NEW c, mandate'[c[1]].start = mandate[c[1]].start
  PROVE  PeriodStart(c)' = PeriodStart(c) /\ PeriodEnd(c)' = PeriodEnd(c)
  BY DEF PeriodStart, PeriodEnd

LEMMA PaidEndKept ==
  ASSUME cycles' = cycles, \A c \in cycles : PeriodEnd(c)' = PeriodEnd(c)
  PROVE  PaidEnd' = PaidEnd
<1>1. {PeriodEnd(c) : c \in cycles}' = {PeriodEnd(c) : c \in cycles}
  OBVIOUS
<1> QED BY <1>1 DEF PaidEnd

(* What a step that writes one mandate's row does to it.                    *)
Moved(m, s, a, t) ==
  /\ mandate'[m].state = s /\ mandate'[m].active = a /\ mandate'[m].start = t
  /\ \A n \in Mandates \ {m} : mandate'[n] = mandate[n]

Started(m) ==
  /\ Fresh(m) /\ \A n \in Mandates : ~mandate[n].active
  /\ Moved(m, "unstarted", TRUE, FirstCharge) /\ sub' = sub

Advanced(m) ==
  /\ \/ mandate[m].state = "unstarted" /\ Moved(m, "creating", mandate[m].active, mandate[m].start)
     \/ mandate[m].state \in {"creating", "uncertain"} /\ Moved(m, "uncertain", mandate[m].active, mandate[m].start)
  /\ sub' = sub

Expired(m) ==
  /\ mandate[m].active /\ Applied(m) = {} /\ Moved(m, "expired", FALSE, mandate[m].start)
  /\ sub' = IF sub.bound = m THEN [sub EXCEPT !.bound = None] ELSE sub

Readied(m) ==
  /\ mandate[m].active /\ Moved(m, "ready", TRUE, mandate[m].start)
  /\ sub' = [sub EXCEPT !.bound = m]

(* A handler that read the provider's subscription attaches it.             *)
Attaching(h, m) == handler[h].pc = "attach" /\ handler[h].of = <<m, 0>>
Attached(h, m) ==
  Attaching(h, m) /\ (Readied(m) \/ (Expired(m) /\ handler[h].ev.status = "expired"))

LEMMA RowsMove ==
  ASSUME TypeOK, NEW m \in Mandates
  PROVE  /\ \A b, t : mandate' = [mandate EXCEPT ![m] = [state |-> "unstarted", active |-> TRUE, start |-> t, bound |-> b]]
                        => Moved(m, "unstarted", TRUE, t)
         /\ \A s : mandate' = [mandate EXCEPT ![m].state = s] => Moved(m, s, mandate[m].active, mandate[m].start)
         /\ \A s : mandate' = [mandate EXCEPT ![m].state = s, ![m].active = FALSE]
                     => Moved(m, s, FALSE, mandate[m].start)
         /\ \A s : mandate' = [mandate EXCEPT ![m].state = s, ![m].bound = TRUE]
                     => Moved(m, s, mandate[m].active, mandate[m].start)
<1>1. mandate \in [Mandates -> MandateRows]
  BY DEF TypeOK
<1> QED BY <1>1 DEF MandateRows, Moved

LEMMA EnrolmentMoves ==
  ASSUME TypeOK, NEW h \in Handlers, NEW m \in Mandates,
         EnrolNew(h, m) \/ ClaimDispatch(h, m) \/ EnrolmentUncertain(h, m) \/ Attach(h, m)
  PROVE  /\ UNCHANGED <<now, account, cycles, recovery, claim, provider, inbox>>
         /\ \/ UNCHANGED <<mandate, sub>>
            \/ Started(m) \/ Advanced(m) \/ Attached(h, m)
<1>1. UNCHANGED <<now, account, cycles, recovery, claim, provider, inbox>>
  BY Zenon DEF EnrolNew, ClaimDispatch, EnrolmentUncertain, Attach
<1>2. CASE EnrolNew(h, m)
  BY <1>1, <1>2, RowsMove, Zenon DEF EnrolNew, Started
<1>3. CASE ClaimDispatch(h, m)
  BY <1>1, <1>3, RowsMove, Zenon DEF ClaimDispatch, Advanced, Unsent
<1>4. CASE EnrolmentUncertain(h, m)
  BY <1>1, <1>4, RowsMove, Zenon DEF EnrolmentUncertain, Advanced
<1>5. CASE Attach(h, m)
  <2>1. \/ UNCHANGED <<mandate, sub>>
        \/ /\ mandate[m].active /\ Applied(m) = {} /\ handler[h].ev.status = "expired"
           /\ mandate' = [mandate EXCEPT ![m].state = "expired", ![m].active = FALSE]
           /\ sub' = IF sub.bound = m THEN [sub EXCEPT !.bound = None] ELSE sub
        \/ /\ mandate[m].active
           /\ mandate' = [mandate EXCEPT ![m].state = "ready", ![m].bound = TRUE]
           /\ sub' = [sub EXCEPT !.bound = m]
    BY <1>5, Zenon DEF Attach, ExpiredUnpaid
  <2>2. mandate[m].active => mandate[m].active = TRUE
    BY DEF TypeOK, MandateRows
  <2>3. Attaching(h, m)
    BY <1>5, Zenon DEF Attach, Attaching
  <2> QED BY <1>1, <2>1, <2>2, <2>3, RowsMove, Zenon DEF Expired, Readied, Attached
<1> QED BY <1>2, <1>3, <1>4, <1>5

LEMMA TermsOfEnrolment ==
  ASSUME TypeIInv, TermIInv, NEW m \in Mandates, UNCHANGED <<now, cycles, inbox>>,
         Started(m) \/ Advanced(m) \/ Expired(m) \/ Readied(m)
  PROVE  TermIInv'
<1>1. /\ sub \in Subscriptions /\ cycles \subseteq Cycles /\ now \in Nat /\ TypeOK
      /\ \A n \in Mandates : mandate[n].active \in BOOLEAN /\ mandate[n].start \in Nat
  BY RenewalAssumption DEF TypeIInv, RefundTypeOK, TypeOK, MandateRows
<1>2. PICK s, a, t : Moved(m, s, a, t)
  BY DEF Started, Advanced, Expired, Readied
<1>3. sub'.end = sub.end
  BY <1>1 DEF Started, Advanced, Expired, Readied, Subscriptions
<1>4. \A c \in cycles : mandate'[c[1]].start = mandate[c[1]].start
  <2>1. ASSUME NEW c \in cycles, c[1] = m PROVE mandate'[m].start = mandate[m].start
    BY <2>1 DEF TermIInv, Begun, Started, Fresh, Advanced, Expired, Readied, Moved
  <2>2. \A c \in cycles : c[1] \in Mandates
    BY <1>1 DEF Cycles
  <2> QED BY <1>2, <2>1, <2>2 DEF Moved
<1>5. \A c \in cycles : PeriodStart(c)' = PeriodStart(c) /\ PeriodEnd(c)' = PeriodEnd(c)
  BY <1>4, PeriodsKept
<1>6. PaidEnd' = PaidEnd
  BY <1>5, PaidEndKept
<1>7. Placeholder'
  <2>1. CASE Started(m)
    BY <1>1, <2>1 DEF TermIInv, Placeholder, Started, Fresh, Moved, Held
  <2>2. CASE Advanced(m)
    BY <1>1, <2>2 DEF TermIInv, Placeholder, Advanced, Moved, Held
  <2>3. CASE Expired(m)
    <3>1. sub'.bound # m /\ \A n \in Mandates : sub'.bound = n => sub.bound = n
      BY <1>1, <2>3, RenewalAssumption DEF Expired, Subscriptions
    <3> QED BY <1>1, <2>3, <3>1 DEF TermIInv, Placeholder, Expired, Moved, Held
  <2>4. CASE Readied(m)
    <3>1. sub'.bound = m
      BY <1>1, <2>4 DEF Readied, Subscriptions
    <3> QED BY <1>1, <2>4, <3>1 DEF TermIInv, Placeholder, Readied, Moved, Held
  <2> QED BY <2>1, <2>2, <2>3, <2>4
<1>8. Begun'
  <2>1. \A c \in cycles : c[1] = m => mandate'[m].state \in {"ready", "completed"}
    BY DEF TermIInv, Begun, Started, Fresh, Advanced, Expired, Readied, Moved, Applied
  <2>2. CycleLen <= mandate'[m].start
    <3>1. CASE Started(m)
      <4>1. CycleLen <= sub.end /\ sub.end \in Nat
        BY <1>1, PaidEndIsMax DEF TermIInv
      <4> QED BY <1>1, <3>1, <4>1, RenewalAssumption DEF Started, Moved, FirstCharge, Later
    <3>2. CASE ~Started(m)
      BY <1>1, <3>2 DEF TermIInv, Begun, Placeholder, Held, Advanced, Expired, Readied, Moved
    <3> QED BY <3>1, <3>2
  <2>3. \A c \in cycles : c[1] \in Mandates
    BY <1>1 DEF Cycles
  <2> QED BY <1>2, <2>1, <2>2, <2>3 DEF TermIInv, Begun, Moved
<1>9. NoHoles' /\ Apart'
  BY <1>5 DEF TermIInv, NoHoles, Apart
<1>10. Full'
  <2>1. mandate'[m].state = "completed" => FALSE
    BY DEF Started, Advanced, Expired, Readied, Moved
  <2> QED BY <1>2, <2>1 DEF TermIInv, Full, Moved
<1>11. Behind'
  <2> SUFFICES ASSUME NEW n \in Mandates, NEW d \in cycles, mandate'[n].active, d[1] # n
               PROVE  PeriodEnd(d) <= mandate'[n].start
    BY <1>5 DEF Behind
  <2>1. CASE n # m
    BY <1>2, <2>1 DEF TermIInv, Behind, Moved
  <2>2. CASE n = m /\ Started(m)
    <3>1. PeriodEnd(d) <= sub.end /\ PeriodEnd(d) \in Nat /\ sub.end \in Nat
      BY <1>1, PaidEndIsMax, Periods, RenewalAssumption DEF TermIInv
    <3> QED BY <1>1, <2>2, <3>1 DEF Started, Moved, FirstCharge, Later
  <2>3. CASE n = m /\ ~Started(m)
    <3>1. mandate[m].active /\ mandate'[m].start = mandate[m].start
      BY <1>1, <2>3 DEF TermIInv, Placeholder, Held, Advanced, Expired, Readied, Moved
    <3> QED BY <2>3, <3>1 DEF TermIInv, Behind
  <2> QED BY <2>1, <2>2, <2>3
<1>12. HandledMeansApplied'
  BY DEF TermIInv, HandledMeansApplied
<1> QED BY <1>3, <1>6, <1>7, <1>8, <1>9, <1>10, <1>11, <1>12 DEF TermIInv

(* The cycles of a mandate are the first ones: the next in line tells how   *)
(* many there are.                                                          *)
LEMMA NextInLine ==
  ASSUME TypeOK, NoHoles, NEW c \in Cycles, PeriodStart(c) = Expected(c[1])
  PROVE  /\ c \notin cycles
         /\ Applied(c[1]) = {<<c[1], k>> : k \in 1..(c[2] - 1)}
         /\ Cardinality(Applied(c[1])) = c[2] - 1
<1> DEFINE m == c[1]
<1>1. m \in Mandates /\ c[2] \in 1..TotalCount /\ c = <<m, c[2]>> /\ cycles \subseteq Cycles
  BY Periods DEF TypeOK
<1>2. ASSUME NEW d \in Applied(m) PROVE d \in Cycles /\ d = <<m, d[2]>> /\ d[2] \in 1..(c[2] - 1)
  <2>1. d \in Cycles /\ d[1] = m /\ PeriodEnd(d) <= PeriodStart(c)
    BY <1>1, ExpectedIsMax DEF Applied
  <2>2. d = <<m, d[2]>> /\ d[2] \in 1..TotalCount /\ PeriodEnd(d) = PeriodStart(d) + CycleLen /\ PeriodStart(d) \in Nat
    BY <2>1, Periods
  <2>3. PeriodStart(c) \in Nat /\ PeriodEnd(c) = PeriodStart(c) + CycleLen
    BY Periods
  <2>4. c[2] < d[2] => PeriodEnd(c) <= PeriodStart(d)
    BY <2>1, PeriodsOrdered
  <2>5. c[2] = d[2] => c = d
    BY <1>1, <2>2
  <2> HIDE DEF m
  <2>6. d[2] < c[2]
    BY <1>1, <2>1, <2>2, <2>3, <2>4, <2>5, RenewalAssumption
  <2> QED BY <1>1, <2>1, <2>2, <2>6, RenewalAssumption
<1>3. ASSUME NEW k \in 1..(c[2] - 1) PROVE <<m, k>> \in Applied(m)
  <2>1. c[2] # 1
    BY <1>1, RenewalAssumption
  <2>2. PeriodStart(c) # mandate[m].start
    BY <2>1, Periods
  <2>3. PICK d \in Applied(m) : PeriodStart(c) = PeriodEnd(d)
    BY <1>1, <2>2, ExpectedIsMax
  <2>4. d \in cycles /\ d[1] = m /\ d = <<m, d[2]>> /\ c[2] = d[2] + 1
    BY <1>1, <1>2, <2>3, PeriodsOrdered DEF Applied
  <2>5. k = d[2] \/ (k < d[2] /\ k \in 1..TotalCount)
    BY <1>1, <1>2, <2>4, RenewalAssumption
  <2>6. <<m, k>> \in cycles
    BY <2>4, <2>5 DEF NoHoles
  <2> QED BY <2>6 DEF Applied
<1>4. Applied(m) = {<<m, k>> : k \in 1..(c[2] - 1)}
  <2>1. Applied(m) \subseteq {<<m, k>> : k \in 1..(c[2] - 1)}
    BY <1>2
  <2> QED BY <1>3, <2>1
<1>5. c \notin cycles
  <2>1. c \notin Applied(m)
    <3>1. c[2] \notin 1..(c[2] - 1)
      BY <1>1, RenewalAssumption
    <3> QED BY <1>2, <3>1
  <2> QED BY <2>1 DEF Applied
<1>6. Cardinality(Applied(m)) = c[2] - 1
  <2> DEFINE n == c[2] - 1
             f == [k \in 1..n |-> <<m, k>>]
  <2>1. n \in Nat
    BY <1>1, RenewalAssumption
  <2> HIDE DEF n
  <2>2. f \in Bijection(1..n, {<<m, k>> : k \in 1..n})
    BY DEF Bijection, Injection, Surjection, IsInjective
  <2>3. IsFiniteSet(1..n) /\ Cardinality(1..n) = n
    BY <2>1, FS_Interval
  <2>4. Cardinality({<<m, k>> : k \in 1..n}) = n
    BY <2>2, <2>3, FS_Bijection DEF ExistsBijection
  <2> QED BY <1>4, <2>4 DEF n
<1> QED BY <1>4, <1>5, <1>6

(* What recording a paid cycle comes to.                                    *)
Renews(h, c) ==
  /\ handler[h].of = c /\ Ends(h)
  /\ inbox[Charged(c)] = "pending" /\ inbox' = [inbox EXCEPT ![Charged(c)] = "processed"]
  /\ sub' = Renewed(c) /\ cycles' = cycles \cup {c}
  /\ recovery' = [recovery EXCEPT ![c].resolved = recovery[c].open]
  /\ \/ UNCHANGED mandate
     \/ c[2] = TotalCount /\ Moved(c[1], "completed", FALSE, mandate[c[1]].start)
  /\ c[2] = TotalCount /\ ~Stopped(c[1]) => Moved(c[1], "completed", FALSE, mandate[c[1]].start)
  /\ mandate[c[1]].state = "ready" /\ LifecycleFits(c[1])
  /\ PeriodStart(c) <= now /\ PeriodStart(c) = Expected(c[1]) /\ c \notin cycles

LEMMA ChargeMoves ==
  ASSUME TypeIInv, TermIInv, NEW h \in Handlers, NEW c \in Cycles, ApplyCharge(h, c)
  PROVE  /\ UNCHANGED <<now, account, claim, provider, post>> /\ Ends(h)
         /\ \/ UNCHANGED <<sub, mandate, cycles, recovery>> /\ Settle(Charged(c), ChargeOutcome(c, handler[h].ev))
               /\ (inbox[Charged(c)] = "pending" => ChargeOutcome(c, handler[h].ev) # "renewed")
            \/ Renews(h, c)
<1>1. UNCHANGED <<now, account, claim, provider, post>> /\ Ends(h) /\ handler[h].of = c
  BY Zenon DEF ApplyCharge
<1>2. CASE ~(inbox[Charged(c)] = "pending" /\ ChargeOutcome(c, handler[h].ev) = "renewed")
  BY <1>1, <1>2, Zenon DEF ApplyCharge
<1>3. CASE inbox[Charged(c)] = "pending" /\ ChargeOutcome(c, handler[h].ev) = "renewed"
  <2>1. TypeOK /\ c[1] \in Mandates /\ c[2] \in 1..TotalCount /\ c = <<c[1], c[2]>>
    BY Periods DEF TypeIInv, RefundTypeOK
  <2>2. /\ PeriodStart(c) <= now /\ PeriodStart(c) = Expected(c[1]) /\ c \notin cycles
        /\ Row(c[1]) /\ LifecycleFits(c[1])
    BY <1>3, <2>1, RenewedType
  <2>3. mandate[c[1]].state = "ready"
    BY <2>1, <2>2 DEF Row, TermIInv, Full
  <2>4. LastCycle(c[1]) <=> c[2] = TotalCount
    <3>1. Cardinality(Applied(c[1])) = c[2] - 1
      BY <2>1, <2>2, NextInLine DEF TermIInv
    <3> QED BY <2>1, <3>1, RenewalAssumption DEF LastCycle
  <2>5. /\ sub' = Renewed(c) /\ cycles' = cycles \cup {c}
        /\ recovery' = [recovery EXCEPT ![c].resolved = recovery[c].open]
        /\ mandate' = IF LastCycle(c[1]) /\ ~Stopped(c[1])
                        THEN [mandate EXCEPT ![c[1]].state = "completed", ![c[1]].active = FALSE]
                        ELSE mandate
        /\ Settle(Charged(c), "processed")
    BY <1>3, Zenon DEF ApplyCharge
  <2>6. inbox' = [inbox EXCEPT ![Charged(c)] = "processed"]
    BY <1>3, <2>5 DEF Settle
  <2>7. /\ UNCHANGED mandate \/ (c[2] = TotalCount /\ Moved(c[1], "completed", FALSE, mandate[c[1]].start))
        /\ c[2] = TotalCount /\ ~Stopped(c[1]) => Moved(c[1], "completed", FALSE, mandate[c[1]].start)
    BY <2>1, <2>4, <2>5, RowsMove, Zenon
  <2> QED BY <1>1, <1>3, <2>2, <2>3, <2>5, <2>6, <2>7, Zenon DEF Renews
<1> QED BY <1>2, <1>3

LEMMA TermsOfCharge ==
  ASSUME TypeIInv, TypeIInv', TermIInv, NEW h \in Handlers, NEW c \in Cycles, Renews(h, c)
  PROVE  TermIInv'
<1> DEFINE m == c[1]
<1>1. /\ TypeOK /\ TypeOK' /\ sub \in Subscriptions /\ cycles \subseteq Cycles /\ now \in Nat
      /\ \A n \in Mandates : mandate[n].active \in BOOLEAN /\ mandate[n].start \in Nat
      /\ m \in Mandates /\ c[2] \in 1..TotalCount /\ c = <<m, c[2]>>
      /\ PeriodStart(c) \in Nat /\ PeriodEnd(c) = PeriodStart(c) + CycleLen /\ mandate[m].start <= PeriodStart(c)
  BY Periods, RenewalAssumption DEF TypeIInv, RefundTypeOK, TypeOK, MandateRows
<1>2. /\ sub' = Renewed(c) /\ cycles' = cycles \cup {c}
      /\ UNCHANGED mandate \/ (c[2] = TotalCount /\ Moved(m, "completed", FALSE, mandate[m].start))
      /\ mandate[m].state = "ready" /\ PeriodStart(c) = Expected(m) /\ c \notin cycles
      /\ inbox' = [inbox EXCEPT ![Charged(c)] = "processed"]
      /\ sub.bound = m
  BY Zenon DEF Renews, LifecycleFits
<1>3. mandate[m].active /\ sub'.end = PeriodEnd(c) /\ sub'.bound = sub.bound
  BY <1>1, <1>2 DEF TermIInv, Placeholder, Held, Renewed, Subscriptions
<1>4. \A n \in Mandates : mandate'[n].start = mandate[n].start
  BY <1>2 DEF Moved
<1>5. \A d \in Cycles : d[1] \in Mandates /\ PeriodStart(d)' = PeriodStart(d) /\ PeriodEnd(d)' = PeriodEnd(d)
  BY <1>4, PeriodsKept DEF Cycles
<1>6. ASSUME NEW d \in cycles
      PROVE  /\ PeriodEnd(d) <= PeriodStart(c) /\ PeriodEnd(d) \in Nat
             /\ d[1] = m => d[2] < c[2]
  <2>1. CASE d[1] = m
    <3>1. d \in Applied(m)
      BY <2>1 DEF Applied
    <3>2. d \in {<<m, k>> : k \in 1..(c[2] - 1)}
      BY <1>1, <1>2, <3>1, NextInLine DEF TermIInv
    <3>3. PeriodEnd(d) <= PeriodStart(c)
      BY <1>1, <1>2, <3>1, ExpectedIsMax
    <3>4. PeriodEnd(d) \in Nat
      BY <1>1, Periods, RenewalAssumption
    <3> QED BY <1>1, <3>2, <3>3, <3>4, RenewalAssumption
  <2>2. CASE d[1] # m
    <3>1. PeriodEnd(d) <= mandate[m].start
      BY <1>1, <1>3, <2>2 DEF TermIInv, Behind
    <3>2. PeriodEnd(d) \in Nat
      BY <1>1, Periods, RenewalAssumption
    <3> HIDE DEF m
    <3> QED BY <1>1, <2>2, <3>1, <3>2
  <2> QED BY <2>1, <2>2
<1>7. sub'.end = PaidEnd'
  <2> DEFINE S == {CycleLen} \cup {PeriodEnd(d) : d \in cycles \cup {c}}
  <2>1. PaidEnd' = Max(S)
    <3>1. {PeriodEnd(d) : d \in cycles}' = {PeriodEnd(d) : d \in cycles \cup {c}}
      BY <1>1, <1>2, <1>5
    <3> QED BY <3>1 DEF PaidEnd
  <2>2. CycleLen <= mandate[m].start
    BY <1>1, <1>2 DEF TermIInv, Begun
  <2>3. PeriodEnd(c) \in S /\ S \in SUBSET Int /\ \A x \in S : x <= PeriodEnd(c)
    <3> HIDE DEF m
    <3> QED BY <1>1, <1>6, <2>2, RenewalAssumption
  <2> HIDE DEF S, m
  <2>4. Max(S) \in S /\ \A y \in S : y <= Max(S)
    BY <1>1, <2>3, MaxBounded, RenewalAssumption
  <2>5. Max(S) = PeriodEnd(c)
    <3>1. Max(S) \in Int /\ PeriodEnd(c) \in Int
      BY <2>3, <2>4
    <3>2. Max(S) <= PeriodEnd(c) /\ PeriodEnd(c) <= Max(S)
      BY <2>3, <2>4, Zenon
    <3> QED BY <3>1, <3>2
  <2> QED BY <1>3, <2>1, <2>5
<1>8. Placeholder' /\ Begun'
  <2>1. CASE UNCHANGED mandate
    BY <1>2, <1>3, <2>1 DEF TermIInv, Placeholder, Begun
  <2>2. CASE Moved(m, "completed", FALSE, mandate[m].start)
    <3>1. Placeholder'
      BY <1>2, <1>3, <2>2 DEF TermIInv, Placeholder, Held, Moved
    <3>2. Begun'
      BY <1>1, <1>2, <1>4, <1>5, <2>2 DEF TermIInv, Begun, Moved
    <3> QED BY <3>1, <3>2
  <2> QED BY <1>2, <2>1, <2>2
<1>9. NoHoles'
  <2> SUFFICES ASSUME NEW d \in cycles', NEW k \in 1..TotalCount, k < d[2] PROVE <<d[1], k>> \in cycles'
    BY DEF NoHoles
  <2>1. CASE d \in cycles
    BY <1>2, <2>1 DEF TermIInv, NoHoles
  <2>2. CASE d = c
    <3>1. k \in 1..(c[2] - 1)
      BY <1>1, <2>2, RenewalAssumption
    <3>2. <<m, k>> \in Applied(m)
      BY <1>1, <1>2, <3>1, NextInLine DEF TermIInv
    <3> QED BY <1>2, <2>2, <3>2 DEF Applied
  <2> QED BY <1>2, <2>1, <2>2
<1>10. Apart'
  BY <1>1, <1>2, <1>5, <1>6 DEF TermIInv, Apart
<1>11. Full'
  <2> SUFFICES ASSUME NEW n \in Mandates, NEW k \in 1..TotalCount, mandate'[n].state = "completed"
               PROVE  <<n, k>> \in cycles'
    BY DEF Full
  <2>1. CASE mandate[n].state = "completed"
    BY <1>2, <2>1 DEF TermIInv, Full
  <2>2. CASE mandate[n].state # "completed"
    <3>1. n = m /\ c[2] = TotalCount
      BY <1>2, <2>2 DEF Moved
    <3>2. k = c[2] \/ k < c[2]
      BY <3>1, RenewalAssumption
    <3>3. c \in cycles' /\ c = <<n, c[2]>> /\ c[1] = n
      BY <1>1, <1>2, <3>1
    <3> QED BY <1>9, <3>2, <3>3 DEF NoHoles
  <2> QED BY <2>1, <2>2
<1>12. Behind'
  <2> SUFFICES ASSUME NEW n \in Mandates, NEW d \in cycles', mandate'[n].active, d[1] # n
               PROVE  PeriodEnd(d)' <= mandate'[n].start
    BY DEF Behind
  <2>1. mandate[n].active
    BY <1>2 DEF Moved
  <2>2. n = m
    BY <1>1, <1>3, <2>1 DEF TermIInv, Placeholder
  <2>3. d \in cycles
    BY <1>2, <2>2
  <2> QED BY <1>1, <1>4, <1>5, <2>1, <2>3 DEF TermIInv, Behind
<1>13. HandledMeansApplied'
  <2> SUFFICES ASSUME NEW d \in Cycles, inbox'[Charged(d)] = "processed" PROVE d \in cycles'
    BY DEF HandledMeansApplied
  <2>1. CASE d = c
    BY <1>2, <2>1
  <2>2. CASE d # c
    <3>1. Charged(d) # Charged(c)
      BY <2>2 DEF Charged
    <3>2. inbox'[Charged(d)] = inbox[Charged(d)]
      <4>1. Charged(d) \in Receipts
        BY DEF Charged, Receipts
      <4> QED BY <1>1, <1>2, <3>1, <4>1 DEF TypeOK
    <3> QED BY <1>2, <3>2 DEF TermIInv, HandledMeansApplied
  <2> QED BY <2>1, <2>2
<1> QED BY <1>7, <1>8, <1>9, <1>10, <1>11, <1>12, <1>13 DEF TermIInv
-----------------------------------------------------------------------------
(* The other steps, by what they write.  The plan of the customer:          *)
SameTerm == sub'.start = sub.start /\ sub'.end = sub.end /\ sub'.bound = sub.bound

LEMMA ConfirmMoves ==
  ASSUME TypeOK, NEW m \in Mandates, Confirm(m)
  PROVE  /\ SameTerm /\ sub'.status = "canceled" /\ sub'.cap /\ sub'.refunded = sub.refunded
         /\ sub'.due = None /\ sub'.grace = None
         /\ claim'[m] = "confirmed" /\ \A n \in Mandates \ {m} : claim'[n] = claim[n]
  BY DEF TypeOK, Confirm, SameTerm, Subscriptions

LEMMA ObserveMoves ==
  ASSUME TypeOK, NEW p, NEW ev, NEW i, Observe(p, ev, i)
  PROVE  /\ SameTerm /\ sub'.status = sub.status /\ sub'.cap = sub.cap
         /\ \/ sub' = sub /\ ~Revokes(p, ev)
            \/ sub'.refunded /\ sub'.due = None /\ sub'.grace = None /\ Revokes(p, ev)
  BY DEF TypeOK, Observe, ObserveSub, SameTerm, Subscriptions

LEMMA OpensCaseMoves ==
  ASSUME TypeOK, NEW u \in Cycles, NEW g, OpensCase(u, g)
  PROVE  /\ SameTerm /\ sub'.cap = sub.cap /\ sub'.refunded = sub.refunded
         /\ sub'.due = sub.end /\ sub'.grace = Deadline(u, g)
         /\ sub'.status = IF Deadline(u, g) > now THEN "grace" ELSE "past_due"
         /\ recovery'[u].open /\ recovery'[u].paidThrough = sub.end
         /\ recovery'[u].grace = Deadline(u, g) /\ ~recovery'[u].resolved
         /\ \A v \in Cycles \ {u} : recovery'[v] = recovery[v]
<1>1. sub \in Subscriptions /\ recovery \in [Cycles -> Cases]
  BY DEF TypeOK
<1>2. /\ SameTerm /\ sub'.cap = sub.cap /\ sub'.refunded = sub.refunded
      /\ sub'.due = sub.end /\ sub'.grace = Deadline(u, g)
      /\ sub'.status = IF Deadline(u, g) > now THEN "grace" ELSE "past_due"
  BY <1>1 DEF OpensCase, SameTerm, Subscriptions
<1>3. /\ recovery'[u] = [open |-> TRUE, paidThrough |-> sub.end, grace |-> Deadline(u, g), resolved |-> FALSE]
      /\ \A v \in Cycles \ {u} : recovery'[v] = recovery[v]
  BY <1>1 DEF OpensCase
<1>4. /\ recovery'[u].open /\ recovery'[u].paidThrough = sub.end
      /\ recovery'[u].grace = Deadline(u, g) /\ ~recovery'[u].resolved
  BY <1>3
<1> QED BY <1>2, <1>3, <1>4

(* The receipts: one is settled, or the provider reports.                   *)
Settled(r, o) ==
  /\ r \in Receipts /\ inbox[r] = "pending" /\ o \in {"processed", "quarantined"}
  /\ inbox' = [inbox EXCEPT ![r] = o]

LEMMA SettleMoves ==
  ASSUME NEW r \in Receipts, NEW o \in {"processed", "quarantined", "retry"}, Settle(r, o)
  PROVE  UNCHANGED inbox \/ Settled(r, o)
  BY DEF Settle, Settled

LEMMA ChargeSettles ==
  ASSUME NEW c \in Cycles, NEW ev
  PROVE  /\ Charged(c) \in Receipts
         /\ ChargeOutcome(c, ev) \in {"processed", "quarantined", "retry", "renewed"}
         /\ ChargeOutcome(c, ev) = "processed" => c \in cycles
<1>1. Charged(c) \in Receipts
  BY DEF Charged, Receipts
<1>2. ChargeOutcome(c, ev) \in {"processed", "quarantined", "retry", "renewed"} /\ (ChargeOutcome(c, ev) = "processed" => c \in cycles)
  BY DEF ChargeOutcome
<1> QED BY <1>1, <1>2

(* Recovery of a failed charge, or a failure that is only settled.          *)
Recovers(h, c, r, g) ==
  /\ handler[h].pc = r.type /\ handler[h].of = c
  /\ inbox[r] = "pending" /\ FailureOutcome(c, handler[h].ev) = "recovering"
  /\ inbox' = [inbox EXCEPT ![r] = "processed"]
  /\ \E u \in UnpaidCycle(c[1]) : OpensCase(u, g)

LEMMA FailureMoves ==
  ASSUME NEW h \in Handlers, NEW c \in Cycles, NEW r \in Failures(c), NEW g \in Grace, ApplyFailure(h, r, g)
  PROVE  /\ UNCHANGED <<now, account, mandate, cycles, claim, provider, post>> /\ Ends(h)
         /\ \/ UNCHANGED <<recovery, sub>> /\ (UNCHANGED inbox \/ \E o : Settled(r, o))
            \/ Recovers(h, c, r, g)
<1>1. r \in Receipts /\ r.of = c
  BY FailureReceipts
<1>2. UNCHANGED <<now, account, mandate, cycles, claim, provider, post>> /\ Ends(h)
  BY Zenon DEF ApplyFailure
<1>3. CASE inbox[r] = "pending" /\ FailureOutcome(c, handler[h].ev) = "recovering"
  <2>1. /\ inbox' = [inbox EXCEPT ![r] = "processed"] /\ \E u \in UnpaidCycle(c[1]) : OpensCase(u, g)
        /\ handler[h].pc = r.type /\ handler[h].of = c
    <3>1. handler[h].pc = r.type /\ handler[h].of = c
      BY <1>1, Zenon DEF ApplyFailure
    <3> QED BY <1>1, <1>3, <3>1, Recovering
  <2> QED BY <1>2, <1>3, <2>1 DEF Recovers
<1>4. CASE ~(inbox[r] = "pending" /\ FailureOutcome(c, handler[h].ev) = "recovering")
  <2>1. Settle(r, FailureOutcome(c, handler[h].ev)) /\ UNCHANGED <<recovery, sub>>
    BY <1>1, <1>4, Zenon DEF ApplyFailure
  <2>2. FailureOutcome(c, handler[h].ev) \in {"processed", "quarantined", "retry", "recovering"}
    BY DEF FailureOutcome
  <2>3. UNCHANGED inbox \/ Settled(r, FailureOutcome(c, handler[h].ev))
    BY <1>1, <1>4, <2>1, <2>2 DEF Settle, Settled
  <2> QED BY <1>2, <2>1, <2>3
<1> QED BY <1>3, <1>4

(* Deciding about a cancellation.                                           *)
Stopping(h, m) == handler[h].pc \in {"cancel", "stopped", "stop receipt"} /\ handler[h].of = <<m, 0>>
Cancels(h, m) == CancelDecided(h, m) \/ CancelRecorded(h, m) \/ FetchStopReceipt(h, m) \/ ApplyStopReceipt(h, m)

LEMMA CancelMoves ==
  ASSUME NEW h \in Handlers, NEW m \in Mandates, Cancels(h, m)
  PROVE  /\ UNCHANGED <<now, account, mandate, cycles, recovery, provider, refundVars>>
         /\ \/ UNCHANGED <<claim, sub>>
            \/ Confirm(m) /\ Cancellable(m) /\ Stopping(h, m)
                          /\ (handler[h].ev.status = "cancelled" \/ handler[h].pc = "stop receipt")
            \/ UNCHANGED sub /\ Cancellable(m) /\ claim[m] # "confirmed"
               /\ \E s \in {"sending", "uncertain"} : claim' = [claim EXCEPT ![m] = s]
         /\ UNCHANGED inbox \/ \E o : Settled(StopReceipt(m), o)
         /\ \/ UNCHANGED post
            \/ post' = post \cup {[kind |-> "cancel", of |-> m]} /\ claim[m] = "none"
         /\ \/ UNCHANGED handler \/ Ends(h) \/ Becomes(h, [Idle EXCEPT !.pc = "stop", !.of = <<m, 0>>])
            \/ /\ Becomes(h, [pc |-> "stop receipt", of |-> <<m, 0>>, ev |-> Status(m)])
               /\ provider[m].status = "cancelled"
<1>1. UNCHANGED <<now, account, mandate, cycles, recovery, provider, refundVars>>
  BY Zenon DEF Cancels, CancelDecided, CancelRecorded, FetchStopReceipt, ApplyStopReceipt
<1>2. \/ UNCHANGED <<claim, sub>>
      \/ Confirm(m) /\ Cancellable(m) /\ Stopping(h, m)
                    /\ (handler[h].ev.status = "cancelled" \/ handler[h].pc = "stop receipt")
      \/ UNCHANGED sub /\ Cancellable(m) /\ claim[m] # "confirmed"
         /\ \E s \in {"sending", "uncertain"} : claim' = [claim EXCEPT ![m] = s]
  <2>1. "sending" \in {"sending", "uncertain"} /\ "uncertain" \in {"sending", "uncertain"} /\ "none" # "confirmed"
    OBVIOUS
  <2>2. handler[h].pc \in {"cancel", "stopped", "stop receipt"} /\ handler[h].of = <<m, 0>> => Stopping(h, m)
    BY DEF Stopping
  <2>3. \A s : s \in {"cancel", "stopped", "stop receipt"} <=> s = "cancel" \/ s = "stopped" \/ s = "stop receipt"
    OBVIOUS
  <2>4. CASE CancelDecided(h, m)
    BY <2>1, <2>2, <2>3, <2>4, Zenon DEF CancelDecided, MaySendStop
  <2>5. CASE CancelRecorded(h, m)
    BY <2>1, <2>2, <2>3, <2>5, Zenon DEF CancelRecorded
  <2>6. CASE FetchStopReceipt(h, m)
    BY <2>6, Zenon DEF FetchStopReceipt
  <2>7. CASE ApplyStopReceipt(h, m)
    BY <2>2, <2>3, <2>7, Zenon DEF ApplyStopReceipt
  <2> QED BY <2>4, <2>5, <2>6, <2>7, Zenon DEF Cancels
<1>3. UNCHANGED inbox \/ \E o : Settled(StopReceipt(m), o)
  <2>1. StopReceipt(m) \in Receipts
    BY DEF StopReceipt, Receipts
  <2>2. UNCHANGED inbox \/ \E o \in {"processed", "quarantined"} : Settle(StopReceipt(m), o)
    <3>1. "processed" \in {"processed", "quarantined"} /\ "quarantined" \in {"processed", "quarantined"}
      OBVIOUS
    <3> QED BY <3>1, Zenon DEF Cancels, CancelDecided, CancelRecorded, FetchStopReceipt, ApplyStopReceipt
  <2>3. \A o \in {"processed", "quarantined"} : Settle(StopReceipt(m), o) => UNCHANGED inbox \/ Settled(StopReceipt(m), o)
    BY <2>1, SettleMoves
  <2> QED BY <2>2, <2>3, Zenon
<1>4. \/ UNCHANGED post
      \/ post' = post \cup {[kind |-> "cancel", of |-> m]} /\ claim[m] = "none"
  BY Zenon DEF Cancels, CancelDecided, CancelRecorded, FetchStopReceipt, ApplyStopReceipt, MaySendStop
<1>5. \/ UNCHANGED handler \/ Ends(h) \/ Becomes(h, [Idle EXCEPT !.pc = "stop", !.of = <<m, 0>>])
      \/ /\ Becomes(h, [pc |-> "stop receipt", of |-> <<m, 0>>, ev |-> Status(m)])
         /\ provider[m].status = "cancelled"
  BY Zenon DEF Cancels, CancelDecided, CancelRecorded, FetchStopReceipt, ApplyStopReceipt
<1> QED BY <1>1, <1>2, <1>3, <1>4, <1>5

(* Refunds: an inventory in a handler's hand goes on record.                *)
Records(h, p) ==
  LET ev == handler[h].ev IN
  /\ Reviews(handler[h]) /\ Listing(ev) /\ Observable(p, ev) /\ p \in Payments
  /\ handler[h].pc \in {"refund", "refunded"} => handler[h].of = p
  /\ handler[h].pc \in Settlements => p = refund[handler[h].of].of
  /\ Observe(p, ev, Bound(p, ev)) \/ Observe(p, ev, Doubtful(Bound(p, ev)))

Requests(p) ==
  /\ account = "open" /\ intent[p].state = "none" /\ CollectionStopped
  /\ refundPost' = refundPost \cup {p} /\ UNCHANGED <<observed, sub>>
  /\ \E amount \in 1..Price :
       intent' = [intent EXCEPT ![p] = [state |-> "sending", amount |-> amount, bound |-> None]]

LEMMA RefundMoves ==
  ASSUME TypeIInv, NEW h \in Handlers, NEW p \in Payments,
         RefundRecorded(h, p) \/ \E amount \in 1..Price : RefundDispatched(h, p, amount)
  PROVE  /\ UNCHANGED <<now, account, mandate, cycles, recovery, claim, provider, post, inbox, refund, refundInbox>>
         /\ \/ Requests(p) /\ Becomes(h, [Idle EXCEPT !.pc = "refunding", !.of = p])
                           /\ Observable(p, handler[h].ev) /\ handler[h].pc = "refund" /\ handler[h].of = p
                           /\ DOMAIN handler[h].ev = {}
            \/ /\ Ends(h) /\ UNCHANGED refundPost
               /\ \/ UNCHANGED <<intent, observed, sub>>
                  \/ UNCHANGED <<observed, sub>> /\ intent' = [intent EXCEPT ![p] = Doubtful(intent[p])]
                  \/ Records(h, p)
<1>1. UNCHANGED <<now, account, mandate, cycles, recovery, claim, provider, post, inbox, refund, refundInbox>>
  BY Zenon DEF RefundRecorded, RefundDispatched, refundVars
<1>2. ASSUME handler[h].pc \in {"refund", "refunded"}, handler[h].of = p, Observable(p, handler[h].ev),
             \/ Observe(p, handler[h].ev, Bound(p, handler[h].ev))
             \/ Observe(p, handler[h].ev, Doubtful(Bound(p, handler[h].ev)))
      PROVE  Records(h, p)
  <2>1. Reviews(handler[h]) /\ Listing(handler[h].ev)
    BY <1>2 DEF Reviews, TypeIInv
  <2>2. handler[h].pc \notin Settlements
    BY <1>2 DEF Settlements
  <2> QED BY <1>2, <2>1, <2>2, Zenon DEF Records
<1>3. CASE RefundRecorded(h, p)
  <2>1. handler[h].pc # "refund unknown" => handler[h].pc \in {"refund", "refunded"}
    BY <1>3 DEF RefundRecorded
  <2> QED BY <1>1, <1>2, <1>3, <2>1, Zenon DEF RefundRecorded
<1>4. ASSUME NEW amount \in 1..Price, RefundDispatched(h, p, amount)
      PROVE  \/ Requests(p) /\ Becomes(h, [Idle EXCEPT !.pc = "refunding", !.of = p])
                            /\ Observable(p, handler[h].ev) /\ handler[h].pc = "refund" /\ handler[h].of = p
                            /\ DOMAIN handler[h].ev = {}
             \/ /\ Ends(h) /\ UNCHANGED refundPost
                /\ UNCHANGED <<intent, observed, sub>> \/ Records(h, p)
  <2>1. handler[h].pc \in {"refund", "refunded"} /\ handler[h].pc = "refund" /\ handler[h].of = p
    BY <1>4 DEF RefundDispatched
  <2> QED BY <1>2, <1>4, <2>1, Zenon DEF RefundDispatched, refundVars, MayDispatch, Requests
<1> QED BY <1>1, <1>3, <1>4, Zenon

LEMMA ReceiptMoves ==
  ASSUME TypeIInv, NEW h \in Handlers, NEW rc \in RefundReceipts, ApplyRefundReceipt(h, rc)
  PROVE  /\ UNCHANGED <<now, account, mandate, cycles, recovery, claim, provider, post, inbox, refund, refundPost>>
         /\ Ends(h) /\ handler[h].of = rc[1] /\ handler[h].pc = rc[2]
         /\ \/ UNCHANGED <<observed, intent, sub, refundInbox>>
            \/ UNCHANGED <<observed, intent, sub>> /\ SettleRefund(rc, "quarantined") /\ Regresses(handler[h].ev)
            \/ Records(h, refund[rc[1]].of) /\ SettleRefund(rc, "processed")
<1>1. /\ UNCHANGED <<now, account, mandate, cycles, recovery, claim, provider, post, inbox, refund, refundPost>>
      /\ Ends(h) /\ handler[h].of = rc[1] /\ handler[h].pc = rc[2]
  BY Zenon DEF ApplyRefundReceipt
<1>2. rc[1] \in RefundIds /\ rc[2] \in Settlements /\ refund[rc[1]].of \in Payments
  BY DEF RefundReceipts, Settlements, TypeIInv, RefundTypeOK, Refunds
<1>3. Reviews(handler[h]) /\ Listing(handler[h].ev) /\ handler[h].pc \notin {"refund", "refunded"}
  BY <1>1, <1>2 DEF TypeIInv, Reviews, Settlements
<1>4. \/ UNCHANGED <<observed, intent, sub, refundInbox>>
      \/ UNCHANGED <<observed, intent, sub>> /\ SettleRefund(rc, "quarantined") /\ Regresses(handler[h].ev)
      \/ Records(h, refund[rc[1]].of) /\ SettleRefund(rc, "processed")
  BY <1>1, <1>2, <1>3, Zenon DEF ApplyRefundReceipt, Records
<1> QED BY <1>1, <1>4

(* What the provider does with money it collects.                           *)
LEMMA ProviderMoves ==
  ASSUME Environment \/ (\E m \in Mandates : ProviderStops(m))
  PROVE  /\ UNCHANGED <<sub, mandate, cycles, recovery, claim, handler>>
         /\ \/ UNCHANGED inbox
            \/ \E m \in Mandates : /\ ChargeSucceeds(m) \/ ChargeFails(m)
                                   /\ \E t \in {"charged", "pending", "halted"} : Report(t, Coming(m))
            \/ \E m \in Mandates : Report("cancelled", <<m, 0>>)
<1>1. UNCHANGED <<sub, mandate, cycles, recovery, claim, handler>>
  BY Zenon DEF Environment, Tick, SetAccount, ExecuteCreate, Expires, ChargeSucceeds, ChargeFails, ProviderStops
<1>2. ASSUME NEW m \in Mandates, ChargeSucceeds(m) \/ ChargeFails(m)
      PROVE  \E t \in {"charged", "pending", "halted"} : Report(t, Coming(m))
  BY <1>2 DEF ChargeSucceeds, ChargeFails
<1>3. ASSUME NEW m \in Mandates, ProviderStops(m) PROVE Report("cancelled", <<m, 0>>)
  BY <1>3, Zenon DEF ProviderStops
<1>4. Tick \/ (\E a \in {"open"} \cup Troubles : SetAccount(a)) \/ (\E m \in Mandates : ExecuteCreate(m) \/ Expires(m))
        => UNCHANGED inbox
  BY Zenon DEF Tick, SetAccount, ExecuteCreate, Expires
<1> QED BY <1>1, <1>2, <1>3, <1>4, Zenon DEF Environment

(* Receipts are settled, never lost; one of a charge is handled only when   *)
(* its cycle is on record, and appears only when the provider charged.      *)
InboxKept ==
  /\ \A r \in Receipts : inbox[r] # "none" => inbox'[r] # "none"
  /\ \A c \in Cycles : inbox'[Charged(c)] = "processed" => inbox[Charged(c)] = "processed" \/ c \in cycles'
  /\ \A c \in Cycles : inbox[Charged(c)] = "none" /\ inbox'[Charged(c)] # "none" =>
       \E m \in Mandates : ChargeSucceeds(m) /\ c = Coming(m)

LEMMA ChargedIs ==
  ASSUME NEW c \in Cycles
  PROVE  /\ Charged(c) \in Receipts /\ Charged(c).type = "charged"
         /\ \A t, d : Charged(c) = [type |-> t, of |-> d] => t = "charged" /\ c = d
  BY DEF Charged, Receipts

LEMMA InboxSame == ASSUME UNCHANGED inbox PROVE InboxKept
  BY DEF InboxKept

LEMMA InboxSettled ==
  ASSUME TypeOK, NEW r, NEW o, Settled(r, o),
         \A c \in Cycles : r = Charged(c) /\ o = "processed" => c \in cycles'
  PROVE  InboxKept
<1>1. /\ r \in Receipts /\ inbox'[r] = o /\ o \in {"processed", "quarantined"} /\ inbox[r] = "pending"
      /\ \A x \in Receipts \ {r} : inbox'[x] = inbox[x]
  BY DEF Settled, TypeOK
<1> QED BY <1>1, ChargedIs DEF InboxKept

LEMMA InboxReported ==
  ASSUME TypeOK, NEW t, NEW d, Report(t, d),
         t = "charged" => \E m \in Mandates : ChargeSucceeds(m) /\ d = Coming(m)
  PROVE  InboxKept
<1> DEFINE r == [type |-> t, of |-> d]
<1>1. \A x \in Receipts : inbox'[x] = inbox[x] \/ (x = r /\ inbox'[x] = "pending")
  <2>1. inbox' = [inbox EXCEPT ![r] = "pending"] /\ DOMAIN inbox = Receipts
    BY DEF Report, TypeOK
  <2> HIDE DEF r
  <2> QED BY <2>1
<1>2. \A c \in Cycles : Charged(c) = r => t = "charged" /\ c = d
  BY ChargedIs
<1> HIDE DEF r
<1> QED BY <1>1, <1>2, ChargedIs DEF InboxKept

(* Steps that leave the mandates, the paid cycles and the term alone.       *)
Quiet == UNCHANGED <<mandate, cycles>> /\ SameTerm

LEMMA StepKinds ==
  ASSUME TypeIInv, TermIInv, Steps
  PROVE  /\ InboxKept
         /\ \/ Quiet
            \/ \E m \in Mandates : /\ UNCHANGED <<now, cycles, inbox>>
                                   /\ Started(m) \/ Advanced(m) \/ \E h \in Handlers : Attached(h, m)
            \/ \E h \in Handlers, c \in Cycles : Renews(h, c)
<1>0. TypeOK
  BY DEF TypeIInv, RefundTypeOK
<1>1. ASSUME NEW h \in Handlers, Reads(h) PROVE InboxKept /\ Quiet
  <2>1. UNCHANGED <<mandate, cycles, sub, inbox>>
    BY <1>1, ReadsBooks DEF Books
  <2> QED BY <2>1, InboxSame DEF Quiet, SameTerm
<1>2. ASSUME NEW h \in Handlers, NEW m \in Mandates,
             EnrolNew(h, m) \/ ClaimDispatch(h, m) \/ EnrolmentUncertain(h, m) \/ Attach(h, m)
      PROVE  /\ InboxKept
             /\ \/ Quiet
                \/ UNCHANGED <<now, cycles, inbox>> /\ (Started(m) \/ Advanced(m) \/ Attached(h, m))
  BY <1>0, <1>2, EnrolmentMoves, InboxSame DEF Quiet, SameTerm
<1>3. ASSUME NEW h \in Handlers, NEW c \in Cycles, ApplyCharge(h, c)
      PROVE  InboxKept /\ (Quiet \/ Renews(h, c))
  <2>1. CASE Renews(h, c)
    <3>1. Settled(Charged(c), "processed") /\ c \in cycles'
      BY <2>1, ChargeSettles DEF Renews, Settled
    <3>2. \A d \in Cycles : Charged(c) = Charged(d) => c = d
      BY DEF Charged
    <3> QED BY <1>0, <2>1, <3>1, <3>2, InboxSettled
  <2>2. CASE ~Renews(h, c)
    <3>1. /\ UNCHANGED <<sub, mandate, cycles>> /\ Settle(Charged(c), ChargeOutcome(c, handler[h].ev))
          /\ inbox[Charged(c)] = "pending" => ChargeOutcome(c, handler[h].ev) # "renewed"
      BY <1>3, <2>2, ChargeMoves
    <3> DEFINE o == ChargeOutcome(c, handler[h].ev)
    <3>2. UNCHANGED inbox \/ (Settled(Charged(c), o) /\ (o = "processed" => c \in cycles'))
      <4>1. Charged(c) \in Receipts /\ o \in {"processed", "quarantined", "retry", "renewed"} /\ (o = "processed" => c \in cycles)
        BY ChargeSettles
      <4> HIDE DEF o
      <4> QED BY <3>1, <4>1 DEF Settle, Settled, o
    <3> HIDE DEF o
    <3>3. \A d \in Cycles : Charged(c) = Charged(d) => c = d
      BY DEF Charged
    <3>4. InboxKept
      BY <1>0, <3>2, <3>3, InboxSame, InboxSettled
    <3> QED BY <3>1, <3>4 DEF Quiet, SameTerm
  <2> QED BY <2>1, <2>2
<1>4. ASSUME NEW h \in Handlers, NEW c \in Cycles, NEW r \in Failures(c), NEW g \in Grace, ApplyFailure(h, r, g)
      PROVE  InboxKept /\ Quiet
  <2>1. r \in Receipts /\ r.type # "charged" /\ \A d \in Cycles : r # Charged(d)
    BY FailureReceipts, ChargedIs
  <2>2. UNCHANGED <<mandate, cycles>>
    BY <1>4, FailureMoves
  <2>3. UNCHANGED inbox \/ \E o : Settled(r, o)
    BY <1>4, <2>1, FailureMoves DEF Recovers, Settled
  <2>4. SameTerm
    <3>1. CASE UNCHANGED sub
      BY <3>1 DEF SameTerm
    <3>2. ASSUME NEW u \in UnpaidCycle(c[1]), OpensCase(u, g) PROVE SameTerm
      BY <1>0, <3>2, OpensCaseMoves DEF UnpaidCycle
    <3> QED BY <1>4, <3>1, <3>2, FailureMoves DEF Recovers
  <2> QED BY <1>0, <2>1, <2>2, <2>3, <2>4, InboxSame, InboxSettled DEF Quiet
<1>5. ASSUME NEW h \in Handlers, NEW m \in Mandates, Cancels(h, m) PROVE InboxKept /\ Quiet
  <2>1. \A d \in Cycles : StopReceipt(m) # Charged(d)
    BY ChargedIs DEF StopReceipt
  <2>2. SameTerm
    BY <1>0, <1>5, CancelMoves, ConfirmMoves DEF SameTerm
  <2>3. UNCHANGED <<mandate, cycles>> /\ (UNCHANGED inbox \/ \E o : Settled(StopReceipt(m), o))
    BY <1>5, CancelMoves, Zenon
  <2> QED BY <1>0, <2>1, <2>2, <2>3, InboxSame, InboxSettled DEF Quiet
<1>6. ASSUME NEW h \in Handlers, NEW p, Records(h, p) PROVE SameTerm
  BY <1>0, <1>6, ObserveMoves DEF Records
<1>7. ASSUME NEW h \in Handlers, NEW p \in Payments,
             RefundRecorded(h, p) \/ \E amount \in 1..Price : RefundDispatched(h, p, amount)
      PROVE  InboxKept /\ Quiet
  <2>1. UNCHANGED <<mandate, cycles, inbox>>
    BY <1>7, RefundMoves, Zenon
  <2>2. UNCHANGED sub \/ Records(h, p)
    BY <1>7, RefundMoves, Zenon DEF Requests
  <2> QED BY <1>6, <2>1, <2>2, InboxSame DEF Quiet, SameTerm
<1>8. ASSUME NEW h \in Handlers, NEW rc \in RefundReceipts, ApplyRefundReceipt(h, rc) PROVE InboxKept /\ Quiet
  <2>1. UNCHANGED <<mandate, cycles, inbox>> /\ (UNCHANGED sub \/ Records(h, refund[rc[1]].of))
    BY <1>8, ReceiptMoves, Zenon
  <2> QED BY <1>6, <2>1, InboxSame DEF Quiet, SameTerm
<1>9. ASSUME NEW c \in Cycles, NEW r \in Failures(c), RejectFailure(r) PROVE InboxKept /\ Quiet
  <2>1. r \in Receipts /\ r.type # "charged" /\ \A d \in Cycles : r # Charged(d)
    BY FailureReceipts, ChargedIs
  <2>2. UNCHANGED <<sub, mandate, cycles>> /\ Settle(r, "quarantined")
    BY <1>9, Zenon DEF RejectFailure
  <2> QED BY <1>0, <2>1, <2>2, SettleMoves, InboxSame, InboxSettled DEF Quiet, SameTerm
<1>10. ASSUME ProviderActs PROVE InboxKept /\ Quiet
  <2>1. ASSUME Environment \/ (\E m \in Mandates : ProviderStops(m)) PROVE InboxKept /\ Quiet
    <3>1. UNCHANGED <<sub, mandate, cycles>>
      BY <2>1, ProviderMoves, Zenon
    <3>2. ASSUME NEW m \in Mandates, NEW t \in {"charged", "pending", "halted"}, Report(t, Coming(m)),
                 ChargeSucceeds(m) \/ ChargeFails(m)
          PROVE  InboxKept
      <4>1. CASE ChargeSucceeds(m)
        BY <1>0, <3>2, <4>1, InboxReported
      <4>2. CASE ChargeFails(m)
        <5>1. PICK s \in {"pending", "halted"} : Report(s, Coming(m))
          BY <4>2 DEF ChargeFails
        <5> QED BY <1>0, <5>1, InboxReported
      <4> QED BY <3>2, <4>1, <4>2
    <3>3. ASSUME NEW m \in Mandates, Report("cancelled", <<m, 0>>) PROVE InboxKept
      BY <1>0, <3>3, InboxReported
    <3>4. InboxKept
      BY <2>1, <3>2, <3>3, ProviderMoves, InboxSame, Zenon
    <3> QED BY <3>1, <3>4 DEF Quiet, SameTerm
  <2>2. ASSUME NEW r \in RefundIds, \/ \E p \in Payments : ProviderRefunds(r, p)
                                    \/ \E s \in {"processed", "failed"} : RefundSettles(r, s)
        PROVE  InboxKept /\ Quiet
    <3>1. UNCHANGED vars
      BY <2>2, Zenon DEF ProviderRefunds, RefundSettles
    <3> QED BY <3>1, InboxSame DEF Quiet, SameTerm, vars
  <2> QED BY <1>10, <2>1, <2>2, Zenon DEF ProviderActs
<1>11. ASSUME NEW h \in Handlers, Writes(h)
       PROVE  /\ InboxKept
              /\ \/ Quiet
                 \/ \E m \in Mandates : /\ UNCHANGED <<now, cycles, inbox>>
                                        /\ Started(m) \/ Advanced(m) \/ Attached(h, m)
                 \/ \E c \in Cycles : Renews(h, c)
  <2>1. CASE \E m \in Mandates : EnrolNew(h, m) \/ ClaimDispatch(h, m) \/ EnrolmentUncertain(h, m) \/ Attach(h, m)
    BY <1>2, <2>1, Zenon
  <2>2. CASE \E c \in Cycles : ApplyCharge(h, c) \/ \E r \in Failures(c), g \in Grace : ApplyFailure(h, r, g)
    BY <1>3, <1>4, <2>2, Zenon
  <2>3. CASE \E m \in Mandates : Cancels(h, m)
    BY <1>5, <2>3, Zenon
  <2>4. CASE \/ \E p \in Payments : RefundRecorded(h, p) \/ \E amount \in 1..Price : RefundDispatched(h, p, amount)
             \/ \E rc \in RefundReceipts : ApplyRefundReceipt(h, rc)
    BY <1>7, <1>8, <2>4, Zenon
  <2> QED BY <1>11, <2>1, <2>2, <2>3, <2>4, Zenon DEF Writes, Cancels
<1> QED BY <1>1, <1>9, <1>10, <1>11, Zenon DEF Steps

LEMMA TermsQuiet ==
  ASSUME TypeIInv, TermIInv, Quiet, InboxKept PROVE TermIInv'
<1>1. \A c : PeriodStart(c)' = PeriodStart(c) /\ PeriodEnd(c)' = PeriodEnd(c)
  BY PeriodsKept DEF Quiet
<1>2. PaidEnd' = PaidEnd
  BY <1>1, PaidEndKept DEF Quiet
<1>3. sub'.end = PaidEnd'
  BY <1>2 DEF TermIInv, Quiet, SameTerm
<1>4. Placeholder' /\ Begun' /\ NoHoles' /\ Full'
  BY DEF TermIInv, Quiet, SameTerm, Placeholder, Begun, NoHoles, Full
<1>5. Apart' /\ Behind'
  BY <1>1 DEF TermIInv, Quiet, Apart, Behind
<1>6. HandledMeansApplied'
  BY DEF TermIInv, InboxKept, HandledMeansApplied, Quiet
<1> QED BY <1>3, <1>4, <1>5, <1>6 DEF TermIInv

LEMMA TermsStep ==
  ASSUME TypeIInv, TermIInv, [ReversalNext]_allVars PROVE TermIInv'
<1>1. TypeIInv'
  BY TypesStep
<1>2. CASE UNCHANGED allVars
  <2>1. Quiet /\ InboxKept
    BY <1>2, InboxSame DEF Quiet, SameTerm, allVars, vars
  <2> QED BY <2>1, TermsQuiet
<1>3. CASE Steps
  <2>1. ASSUME NEW m \in Mandates, UNCHANGED <<now, cycles, inbox>>,
               Started(m) \/ Advanced(m) \/ \E h \in Handlers : Attached(h, m)
        PROVE  TermIInv'
    <3>1. Started(m) \/ Advanced(m) \/ Expired(m) \/ Readied(m)
      BY <2>1 DEF Attached
    <3> QED BY <2>1, <3>1, TermsOfEnrolment
  <2>2. ASSUME Quiet, InboxKept PROVE TermIInv'
    BY <2>2, TermsQuiet
  <2>3. ASSUME NEW h \in Handlers, NEW c \in Cycles, Renews(h, c) PROVE TermIInv'
    BY <1>1, <2>3, TermsOfCharge
  <2> QED BY <1>3, <2>1, <2>2, <2>3, StepKinds, Zenon
<1> QED BY <1>2, <1>3, EveryStep

LEMMA InitialTerms == RefundInit => TermIInv
<1> SUFFICES ASSUME RefundInit PROVE TermIInv
  OBVIOUS
<1>1. /\ cycles = {} /\ sub.end = CycleLen /\ sub.bound = None
      /\ \A m \in Mandates : ~mandate[m].active /\ mandate[m].state = "none"
      /\ inbox = [r \in Receipts |-> "none"]
  BY DEF RefundInit, Init, NoMandate
<1>2. TypeOK
  BY InitialTypes DEF TypeIInv, RefundTypeOK
<1>3. PaidEnd = CycleLen
  BY <1>1, <1>2, PaidEndIsMax
<1>4. Placeholder
  BY <1>1, RenewalAssumption DEF Placeholder, Held
<1>5. Begun /\ NoHoles /\ Apart /\ Full /\ Behind
  BY <1>1 DEF Begun, NoHoles, Apart, Full, Behind
<1>6. HandledMeansApplied
  BY <1>1, ChargedIs DEF HandledMeansApplied
<1> QED BY <1>1, <1>3, <1>4, <1>5, <1>6 DEF TermIInv

LEMMA TermsAre ==
  ASSUME TypeOK, TermIInv PROVE TermsAdjacent /\ HandledMeansApplied
<1>1. \A c \in cycles : PeriodStart(c) >= CycleLen
  <2> SUFFICES ASSUME NEW c \in cycles PROVE PeriodStart(c) >= CycleLen
    OBVIOUS
  <2>1. c \in Cycles
    BY DEF TypeOK
  <2>2. c[1] \in Mandates /\ PeriodStart(c) \in Nat /\ mandate[c[1]].start \in Nat /\ mandate[c[1]].start <= PeriodStart(c)
    BY <2>1, Periods
  <2>3. CycleLen <= mandate[c[1]].start
    BY <2>2 DEF TermIInv, Begun
  <2> QED BY <2>2, <2>3, RenewalAssumption
<1> QED BY <1>1 DEF TermIInv, TermsAdjacent, Apart, NoHoles

(* The paid terms of all mandates ever enrolled follow one another without  *)
(* overlap, from the first grant on; a mandate's cycles have no hole; the   *)
(* plan ends with the last of them; a receipt handled is a cycle on record. *)
THEOREM TermsFollow == ReversalSpec => [](TermsAdjacent /\ HandledMeansApplied)
<1>1. RefundInit => TypeIInv /\ TermIInv
  BY InitialTypes, InitialTerms
<1>2. TypeIInv /\ TermIInv /\ [ReversalNext]_allVars => TypeIInv' /\ TermIInv'
  BY TypesStep, TermsStep
<1>3. TypeIInv /\ TermIInv => TermsAdjacent /\ HandledMeansApplied
  BY TermsAre DEF TypeIInv, RefundTypeOK
<1> QED BY <1>1, <1>2, <1>3, PTL DEF ReversalSpec
-----------------------------------------------------------------------------
(* Where handlers get to, and the word of the provider they take along.     *)
Arrives(h) ==
  LET s == handler'[h] IN
  \/ s.pc \in {"idle", "dispatch", "lookup", "stop", "charge", "refunding", "refund", "refunded", "refund unknown"}
  \/ \E m \in Mandates : /\ s.pc = "attach" /\ s.of = <<m, 0>> /\ s.ev.status = provider[m].status
                         /\ provider[m].status \in {"created", "active", "completed", "expired"}
  \/ \E m \in Mandates : /\ s.pc \in {"cancel", "stopped"} /\ s.of = <<m, 0>>
                         /\ s.ev.status \in {provider[m].status, "none"}
  \/ \E m \in Mandates : s.pc = "stop receipt" /\ s.of = <<m, 0>> /\ provider[m].status = "cancelled"
  \/ \E c \in Cycles : /\ s.pc \in {"pending", "halted"} /\ s.of = c
                       /\ s.ev.status = provider[c[1]].status /\ s.ev.paid = provider[c[1]].paid
  \/ s.pc \in Settlements /\ s.of \in RefundIds

LEMMA EvidenceIs ==
  ASSUME NEW m
  PROVE  /\ Status(m).status = provider[m].status /\ NotFetched.status = "none" /\ Idle.pc = "idle"
         /\ [NotFetched EXCEPT !.status = provider[m].status, !.paid = provider[m].paid].status = provider[m].status
         /\ [NotFetched EXCEPT !.status = provider[m].status, !.paid = provider[m].paid].paid = provider[m].paid
  BY DEF Status, NotFetched, Idle

LEMMA ReadsArrives ==
  ASSUME TypeIInv, NEW h \in Handlers, Reads(h) PROVE Arrives(h)
<1>0. DOMAIN handler = Handlers
  BY DEF TypeIInv
<1>1. CASE Dies(h)
  <2>1. handler'[h].pc = "idle"
    BY <1>0, <1>1, BecomesThat, EvidenceIs DEF Dies, Ends
  <2> QED BY <2>1 DEF Arrives
<1>2. ASSUME NEW m \in Mandates, EnrolAgain(h, m) PROVE Arrives(h)
  <2>1. \E t \in {"dispatch", "lookup"} : Becomes(h, [Idle EXCEPT !.pc = t, !.of = <<m, 0>>])
    <3>1. CASE Unsent(m)
      BY <1>2, <3>1, Zenon DEF EnrolAgain
    <3>2. CASE ~Unsent(m)
      BY <1>2, <3>2, Zenon DEF EnrolAgain
    <3> QED BY <3>1, <3>2
  <2>2. handler'[h].pc \in {"dispatch", "lookup"}
    BY <1>0, <2>1, BecomesIdle, Zenon
  <2> QED BY <2>2 DEF Arrives
<1>3. ASSUME NEW m \in Mandates, FetchEnrolment(h, m) PROVE Arrives(h)
  <2> DEFINE e == [NotFetched EXCEPT !.status = provider[m].status, !.paid = provider[m].paid]
  <2>1. e.status = provider[m].status
    BY EvidenceIs
  <2>2. Becomes(h, [pc |-> "attach", of |-> <<m, 0>>, ev |-> e])
    BY <1>3, Zenon DEF FetchEnrolment
  <2> HIDE DEF e
  <2>3. handler'[h].pc = "attach" /\ handler'[h].of = <<m, 0>> /\ handler'[h].ev = e
    BY <1>0, <2>2, BecomesThere
  <2>4. provider[m].status \in {"created", "active", "completed", "expired"}
    BY <1>3 DEF FetchEnrolment
  <2> QED BY <2>1, <2>3, <2>4 DEF Arrives
<1>4. ASSUME NEW m \in Mandates, NEW ok \in BOOLEAN, CancelRequested(h, m) \/ CancelReplied(h, m, ok) PROVE Arrives(h)
  <2>1. PICK t \in {"cancel", "stopped"}, e \in {Status(m), NotFetched} : Becomes(h, [pc |-> t, of |-> <<m, 0>>, ev |-> e])
    <3>1. /\ Status(m) \in {Status(m), NotFetched} /\ NotFetched \in {Status(m), NotFetched}
          /\ "cancel" \in {"cancel", "stopped"} /\ "stopped" \in {"cancel", "stopped"}
      OBVIOUS
    <3>2. CASE ok
      BY <1>4, <3>1, <3>2, Zenon DEF CancelRequested, CancelReplied
    <3>3. CASE ~ok
      BY <1>4, <3>1, <3>3, Zenon DEF CancelRequested, CancelReplied
    <3> QED BY <3>2, <3>3
  <2>2. handler'[h].pc = t /\ handler'[h].of = <<m, 0>> /\ handler'[h].ev = e
    BY <1>0, <2>1, BecomesThere
  <2>3. e.status \in {provider[m].status, "none"}
    BY <2>1, EvidenceIs
  <2> QED BY <2>1, <2>2, <2>3 DEF Arrives
<1>5. ASSUME NEW c \in Cycles, FetchCharge(h, c, Refunded(c)) PROVE Arrives(h)
  <2>1. \E e : Becomes(h, [pc |-> "charge", of |-> c, ev |-> e])
    BY <1>5, Zenon DEF FetchCharge
  <2>2. handler'[h].pc = "charge"
    BY <1>0, <2>1, BecomesThere
  <2> QED BY <2>2 DEF Arrives
<1>6. ASSUME NEW c \in Cycles, NEW r \in Failures(c), FetchFailure(h, r) PROVE Arrives(h)
  <2> DEFINE e == [NotFetched EXCEPT !.status = provider[c[1]].status, !.paid = provider[c[1]].paid]
  <2>1. e.status = provider[c[1]].status /\ e.paid = provider[c[1]].paid /\ r.of = c /\ r.type \in {"pending", "halted"}
    BY EvidenceIs, FailureReceipts
  <2>2. Becomes(h, [pc |-> r.type, of |-> c, ev |-> e])
    <3>1. Becomes(h, [pc |-> r.type, of |-> r.of,
            ev |-> [NotFetched EXCEPT !.status = provider[r.of[1]].status, !.paid = provider[r.of[1]].paid]])
      BY <1>6, Zenon DEF FetchFailure
    <3>2. r.of = c
      BY <2>1
    <3> QED BY <3>1, <3>2, Zenon
  <2> HIDE DEF e
  <2>3. handler'[h].pc = r.type /\ handler'[h].of = c /\ handler'[h].ev = e
    BY <1>0, <2>2, BecomesThere
  <2> QED BY <2>1, <2>3 DEF Arrives
<1>7. ASSUME NEW p \in Payments, RefundRead(h, p) \/ RefundReplied(h, p) PROVE Arrives(h)
  <2>1. \/ \E e : Becomes(h, [pc |-> "refund", of |-> p, ev |-> e])
        \/ \E e : Becomes(h, [pc |-> "refunded", of |-> p, ev |-> e])
        \/ \E e : Becomes(h, [pc |-> "refund unknown", of |-> p, ev |-> e])
    BY <1>7, Zenon DEF RefundRead, RefundReplied
  <2>2. handler'[h].pc \in {"refund", "refunded", "refund unknown"}
    BY <1>0, <2>1, BecomesThere
  <2> QED BY <2>2 DEF Arrives
<1>8. ASSUME NEW rc \in RefundReceipts, FetchRefundReceipt(h, rc) PROVE Arrives(h)
  <2>1. \E e : Becomes(h, [pc |-> rc[2], of |-> rc[1], ev |-> e])
    BY <1>8, Zenon DEF FetchRefundReceipt
  <2>2. handler'[h].pc = rc[2] /\ handler'[h].of = rc[1]
    BY <1>0, <2>1, BecomesThere
  <2>3. rc[2] \in Settlements /\ rc[1] \in RefundIds
    BY DEF RefundReceipts, Settlements
  <2> QED BY <2>2, <2>3 DEF Arrives
<1>9. TRUE \in BOOLEAN
  OBVIOUS
<1> QED BY <1>1, <1>2, <1>3, <1>4, <1>5, <1>6, <1>7, <1>8, <1>9, Zenon DEF Reads

LEMMA EndsArrives ==
  ASSUME TypeIInv, NEW h \in Handlers, Ends(h) PROVE Arrives(h)
<1>1. DOMAIN handler = Handlers /\ Becomes(h, Idle)
  BY DEF TypeIInv, Ends
<1>2. handler'[h] = Idle
  BY <1>1, BecomesThat, Zenon
<1>3. handler'[h].pc = "idle"
  BY <1>2 DEF Idle
<1> QED BY <1>3 DEF Arrives

LEMMA MovesArrives ==
  ASSUME TypeIInv, NEW h \in Handlers, NEW t \in {"dispatch", "lookup", "stop", "refunding"}, NEW x,
         Becomes(h, [Idle EXCEPT !.pc = t, !.of = x])
  PROVE  Arrives(h)
<1>1. handler'[h].pc = t
  BY BecomesIdle DEF TypeIInv
<1> QED BY <1>1 DEF Arrives

LEMMA WritesArrives ==
  ASSUME TypeIInv, NEW h \in Handlers, Writes(h)
  PROVE  /\ UNCHANGED provider
         /\ UNCHANGED handler \/ Arrives(h)
         /\ \A k \in Handlers \ {h} : handler'[k] = handler[k]
<1>0. DOMAIN handler = Handlers
  BY DEF TypeIInv
<1>1. /\ UNCHANGED provider
      /\ UNCHANGED handler \/ \E s : Becomes(h, s)
  <2>1. ASSUME NEW m \in Mandates, EnrolNew(h, m) \/ ClaimDispatch(h, m) \/ EnrolmentUncertain(h, m) \/ Attach(h, m)
        PROVE  <1>1
    BY <2>1, Zenon DEF EnrolNew, ClaimDispatch, EnrolmentUncertain, Attach, Ends
  <2>2. ASSUME NEW c \in Cycles, ApplyCharge(h, c) \/ \E r \in Failures(c), g \in Grace : ApplyFailure(h, r, g) PROVE <1>1
    BY <2>2, Zenon DEF ApplyCharge, ApplyFailure, Ends
  <2>3. ASSUME NEW m \in Mandates, Cancels(h, m) PROVE <1>1
    BY <2>3, CancelMoves, Zenon DEF Ends
  <2>4. ASSUME NEW p \in Payments, RefundRecorded(h, p) \/ \E amount \in 1..Price : RefundDispatched(h, p, amount) PROVE <1>1
    BY <2>4, RefundMoves, Zenon DEF Ends
  <2>5. ASSUME NEW rc \in RefundReceipts, ApplyRefundReceipt(h, rc) PROVE <1>1
    BY <2>5, Zenon DEF ApplyRefundReceipt, Ends
  <2> QED BY <2>1, <2>2, <2>3, <2>4, <2>5, Zenon DEF Writes, Cancels
<1>2. UNCHANGED handler \/ Arrives(h)
  <2>1. ASSUME NEW m \in Mandates, EnrolNew(h, m) \/ ClaimDispatch(h, m) \/ EnrolmentUncertain(h, m) \/ Attach(h, m)
        PROVE  Arrives(h)
    <3>1. Ends(h) \/ \E t \in {"dispatch", "lookup", "stop", "refunding"} : Becomes(h, [Idle EXCEPT !.pc = t, !.of = <<m, 0>>])
      <4>1. /\ "dispatch" \in {"dispatch", "lookup", "stop", "refunding"}
            /\ "lookup" \in {"dispatch", "lookup", "stop", "refunding"}
        OBVIOUS
      <4> QED BY <2>1, <4>1, Zenon DEF EnrolNew, ClaimDispatch, EnrolmentUncertain, Attach
    <3> QED BY <3>1, EndsArrives, MovesArrives, Zenon
  <2>2. ASSUME NEW c \in Cycles, ApplyCharge(h, c) \/ \E r \in Failures(c), g \in Grace : ApplyFailure(h, r, g) PROVE Arrives(h)
    <3>1. Ends(h)
      BY <2>2, Zenon DEF ApplyCharge, ApplyFailure
    <3> QED BY <3>1, EndsArrives
  <2>3. ASSUME NEW m \in Mandates, Cancels(h, m) PROVE UNCHANGED handler \/ Arrives(h)
    <3>1. CASE Becomes(h, [Idle EXCEPT !.pc = "stop", !.of = <<m, 0>>])
      <4>1. handler'[h].pc = "stop"
        BY <1>0, <3>1, BecomesIdle
      <4> QED BY <4>1 DEF Arrives
    <3>2. CASE Becomes(h, [pc |-> "stop receipt", of |-> <<m, 0>>, ev |-> Status(m)]) /\ provider[m].status = "cancelled"
      <4>1. handler'[h].pc = "stop receipt" /\ handler'[h].of = <<m, 0>>
        BY <1>0, <3>2, BecomesThere
      <4> QED BY <3>2, <4>1 DEF Arrives
    <3> QED BY <2>3, <3>1, <3>2, CancelMoves, EndsArrives, Zenon
  <2>4. ASSUME NEW p \in Payments, RefundRecorded(h, p) \/ \E amount \in 1..Price : RefundDispatched(h, p, amount)
        PROVE  Arrives(h)
    <3>1. CASE Becomes(h, [Idle EXCEPT !.pc = "refunding", !.of = p])
      <4>1. handler'[h].pc = "refunding"
        BY <1>0, <3>1, BecomesIdle
      <4> QED BY <4>1 DEF Arrives
    <3> QED BY <2>4, <3>1, RefundMoves, EndsArrives, Zenon
  <2>5. ASSUME NEW rc \in RefundReceipts, ApplyRefundReceipt(h, rc) PROVE Arrives(h)
    BY <2>5, ReceiptMoves, EndsArrives, Zenon
  <2> QED BY <2>1, <2>2, <2>3, <2>4, <2>5, Zenon DEF Writes, Cancels
<1> QED BY <1>0, <1>1, <1>2, BecomesThat

(* Handlers move only while the provider does not.                          *)
LEMMA HandlersMove ==
  ASSUME TypeIInv, Steps
  PROVE  \A k \in Handlers : handler'[k] = handler[k] \/ (Arrives(k) /\ UNCHANGED provider)
<1>1. ASSUME NEW h \in Handlers, Reads(h) \/ Writes(h), NEW k \in Handlers
      PROVE  handler'[k] = handler[k] \/ (Arrives(k) /\ UNCHANGED provider)
  <2>1. CASE Reads(h)
    <3>1. UNCHANGED provider /\ Arrives(h) /\ \A n \in Handlers \ {h} : handler'[n] = handler[n]
      BY <2>1, ReadsBooks, ReadsArrives DEF Books, TypeIInv
    <3> QED BY <3>1
  <2>2. CASE Writes(h)
    <3>1. UNCHANGED handler => handler'[k] = handler[k]
      OBVIOUS
    <3> QED BY <2>2, <3>1, WritesArrives, Zenon
  <2> QED BY <1>1, <2>1, <2>2
<1>2. ASSUME NEW c \in Cycles, NEW r \in Failures(c), RejectFailure(r) PROVE UNCHANGED handler
  BY <1>2, Zenon DEF RejectFailure
<1>3. ASSUME ProviderActs PROVE UNCHANGED handler
  BY <1>3, ProviderMoves, Zenon DEF ProviderActs, ProviderRefunds, RefundSettles, vars
<1> QED BY <1>1, <1>2, <1>3, Zenon DEF Steps

(* What one provider's subscription goes through in a step.                 *)
Create(m) == [kind |-> "create", of |-> m]

Turns(m, s, n) ==
  /\ provider'[m].status = s /\ provider'[m].paid = n
  /\ \A x \in Mandates \ {m} : provider'[x] = provider[x]

Created(m)  == /\ Create(m) \in post /\ post' = post \ {Create(m)} /\ Turns(m, "created", provider[m].paid)
               /\ UNCHANGED inbox
Lapses(m)   == /\ provider[m].status = "created" /\ Turns(m, "expired", provider[m].paid)
               /\ UNCHANGED <<inbox, post>>
Collects(m) == /\ provider[m].status \in Paying /\ provider[m].paid < TotalCount
               /\ Turns(m, IF provider[m].paid + 1 = TotalCount THEN "completed" ELSE "active", provider[m].paid + 1)
               /\ UNCHANGED post /\ Report("charged", Coming(m))
Fails(m)    == /\ provider[m].status \in {"created", "active", "pending"} /\ provider[m].paid < TotalCount
               /\ \/ provider[m].status # "pending" /\ Turns(m, "pending", provider[m].paid)
                     /\ Report("pending", Coming(m))
                  \/ provider[m].status = "pending" /\ Turns(m, "halted", provider[m].paid)
                     /\ Report("halted", Coming(m))
               /\ UNCHANGED post
Stops(m)    == /\ provider[m].status \in Paying /\ Turns(m, "cancelled", provider[m].paid)
               /\ post' = post \ {[kind |-> "cancel", of |-> m]} /\ Report("cancelled", <<m, 0>>)

LEMMA StatusTurns ==
  ASSUME TypeOK, NEW m \in Mandates
  PROVE  /\ \A s : provider' = [provider EXCEPT ![m].status = s] => Turns(m, s, provider[m].paid)
         /\ \A s, n : provider' = [provider EXCEPT ![m] = [status |-> s, paid |-> n]] => Turns(m, s, n)
<1>1. provider \in [Mandates -> [status : ProviderStatuses, paid : 0..TotalCount]]
  BY DEF TypeOK
<1> QED BY <1>1 DEF Turns

LEMMA CollectsWhen ==
  ASSUME TypeOK, NEW m \in Mandates, ChargeSucceeds(m) PROVE Collects(m)
<1> DEFINE s == IF provider[m].paid + 1 = TotalCount THEN "completed" ELSE "active"
           n == provider[m].paid + 1
<1>1. provider' = [provider EXCEPT ![m] = [status |-> s, paid |-> n]]
  BY DEF ChargeSucceeds
<1>2. Turns(m, s, n)
  <2> HIDE DEF s, n
  <2> QED BY <1>1, StatusTurns
<1>3. provider[m].status \in Paying /\ provider[m].paid < TotalCount /\ UNCHANGED post /\ Report("charged", Coming(m))
  BY DEF ChargeSucceeds, Due
<1> QED BY <1>2, <1>3 DEF Collects

LEMMA FailsWhen ==
  ASSUME TypeOK, NEW m \in Mandates, ChargeFails(m) PROVE Fails(m)
<1>1. provider[m].status \in {"created", "active", "pending"} /\ provider[m].paid < TotalCount /\ UNCHANGED post
  BY DEF ChargeFails, Due
<1>2. CASE provider[m].status = "pending"
  <2>1. provider' = [provider EXCEPT ![m].status = "halted"] /\ Report("halted", Coming(m))
    BY <1>2, Zenon DEF ChargeFails
  <2> QED BY <1>1, <1>2, <2>1, StatusTurns DEF Fails
<1>3. CASE provider[m].status # "pending"
  <2>1. provider' = [provider EXCEPT ![m].status = "pending"] /\ Report("pending", Coming(m))
    BY <1>3, Zenon DEF ChargeFails
  <2> QED BY <1>1, <1>3, <2>1, StatusTurns DEF Fails
<1> QED BY <1>2, <1>3

LEMMA ProviderKinds ==
  ASSUME TypeIInv, TermIInv, Steps
  PROVE  \/ UNCHANGED provider
         \/ /\ UNCHANGED <<sub, mandate, cycles, recovery, claim, handler, refundVars>>
            /\ \E m \in Mandates : Created(m) \/ Lapses(m) \/ Collects(m) \/ Fails(m) \/ Stops(m)
<1>0. TypeOK
  BY DEF TypeIInv, RefundTypeOK
<1>1. ASSUME NEW h \in Handlers, Reads(h) \/ Writes(h) PROVE UNCHANGED provider
  <2>1. Reads(h) => UNCHANGED provider
    BY ReadsBooks DEF Books
  <2> QED BY <1>1, <2>1, WritesArrives
<1>2. ASSUME NEW c \in Cycles, NEW r \in Failures(c), RejectFailure(r) PROVE UNCHANGED provider
  BY <1>2, Zenon DEF RejectFailure
<1>3. ASSUME NEW r \in RefundIds, \/ \E p \in Payments : ProviderRefunds(r, p)
                                  \/ \E s \in {"processed", "failed"} : RefundSettles(r, s)
      PROVE  UNCHANGED provider
  <2>1. UNCHANGED vars
    BY <1>3, Zenon DEF ProviderRefunds, RefundSettles
  <2> QED BY <2>1 DEF vars
<1>4. ASSUME NEW m \in Mandates, ProviderStops(m)
      PROVE  Stops(m) /\ UNCHANGED <<sub, mandate, cycles, recovery, claim, handler, refundVars>>
  <2>1. /\ provider[m].status \in Paying /\ provider' = [provider EXCEPT ![m].status = "cancelled"]
        /\ post' = post \ {[kind |-> "cancel", of |-> m]} /\ Report("cancelled", <<m, 0>>)
        /\ UNCHANGED <<sub, mandate, cycles, recovery, claim, handler, refundVars>>
    BY <1>4, Zenon DEF ProviderStops
  <2> QED BY <1>0, <2>1, StatusTurns DEF Stops
<1>5. ASSUME Environment, UNCHANGED refundVars
      PROVE  \/ UNCHANGED provider
             \/ /\ UNCHANGED <<sub, mandate, cycles, recovery, claim, handler, refundVars>>
                /\ \E m \in Mandates : Created(m) \/ Lapses(m) \/ Collects(m) \/ Fails(m)
  <2>1. UNCHANGED <<sub, mandate, cycles, recovery, claim, handler>>
    BY <1>5, ProviderMoves, Zenon
  <2>2. ASSUME NEW m \in Mandates, ExecuteCreate(m) PROVE Created(m)
    <3>1. /\ Create(m) \in post /\ post' = post \ {Create(m)} /\ UNCHANGED inbox
          /\ provider' = [provider EXCEPT ![m].status = "created"]
      BY <2>2, Zenon DEF ExecuteCreate, Create
    <3> QED BY <1>0, <3>1, StatusTurns, Zenon DEF Created
  <2>3. ASSUME NEW m \in Mandates, Expires(m) PROVE Lapses(m)
    <3>1. /\ provider[m].status = "created" /\ UNCHANGED <<inbox, post>>
          /\ provider' = [provider EXCEPT ![m].status = "expired"]
      BY <2>3, Zenon DEF Expires
    <3> QED BY <1>0, <3>1, StatusTurns, Zenon DEF Lapses
  <2>4. (Tick \/ \E a \in {"open"} \cup Troubles : SetAccount(a)) => UNCHANGED provider
    BY Zenon DEF Tick, SetAccount
  <2> QED BY <1>0, <1>5, <2>1, <2>2, <2>3, <2>4, CollectsWhen, FailsWhen, Zenon DEF Environment
<1> QED BY <1>1, <1>2, <1>3, <1>4, <1>5, Zenon DEF Steps, ProviderActs

(* What the requests to create rest on: nothing is sent for a mandate       *)
(* before its claim, what a handler attaches exists, the provider's count   *)
(* is at least ours.                                                        *)
Unasked == \A m \in Mandates : mandate[m].state \in {"none", "unstarted"} =>
             provider[m].status = "none" /\ Create(m) \notin post
Gone    == \A m \in Mandates : mandate[m].state = "expired" => provider[m].status = "expired"
Founded == \A h \in Handlers, m \in Mandates : Attaching(h, m) =>
             /\ provider[m].status # "none"
             /\ handler[h].ev.status = "expired" => provider[m].status = "expired"
Counted == /\ \A m \in Mandates : provider[m].status = "none" => provider[m].paid = 0
           /\ \A m \in Mandates : provider[m].status \in Paying => provider[m].paid < TotalCount
           /\ \A c \in Cycles : inbox[Charged(c)] # "none" => c[2] <= provider[c[1]].paid
           /\ \A c \in cycles : inbox[Charged(c)] # "none"

SentIInv == EnrolledOnce /\ Unasked /\ Gone /\ Founded /\ Counted

StateTurns(n) ==
  LET s == mandate[n].state
      t == mandate'[n].state
  IN  \/ t = s
      \/ s = "none" /\ t = "unstarted"
      \/ s = "unstarted" /\ t = "creating"
      \/ s \in {"creating", "uncertain"} /\ t = "uncertain"
      \/ t = "expired" /\ provider[n].status = "expired"
      \/ t = "ready" /\ provider[n].status # "none"
      \/ s = "ready" /\ t = "completed"

LEMMA StatesTurn ==
  ASSUME TypeIInv, TermIInv, Founded, Steps PROVE \A n \in Mandates : StateTurns(n)
<1>1. CASE Quiet
  BY <1>1 DEF Quiet, StateTurns
<1>2. ASSUME NEW m \in Mandates, Started(m) \/ Advanced(m) \/ \E h \in Handlers : Attached(h, m)
      PROVE  \A n \in Mandates : StateTurns(n)
  <2>1. CASE Started(m) \/ Advanced(m)
    BY <2>1 DEF Started, Fresh, Advanced, Moved, StateTurns
  <2>2. ASSUME NEW h \in Handlers, Attached(h, m) PROVE \A n \in Mandates : StateTurns(n)
    BY <2>2 DEF Founded, Attached, Expired, Readied, Moved, StateTurns
  <2> QED BY <1>2, <2>1, <2>2
<1>3. ASSUME NEW h \in Handlers, NEW c \in Cycles, Renews(h, c) PROVE \A n \in Mandates : StateTurns(n)
  BY <1>3 DEF Renews, Moved, StateTurns
<1> QED BY <1>1, <1>2, <1>3, StepKinds, Zenon

LEMMA CreatesKept ==
  ASSUME TypeIInv, TermIInv, Steps, UNCHANGED provider
  PROVE  \A n \in Mandates : Create(n) \in post' =>
           Create(n) \in post \/ (mandate[n].state = "unstarted" /\ mandate'[n].state = "creating")
<1>0. TypeOK /\ \A n, m : Create(n) # [kind |-> "cancel", of |-> m] /\ (Create(n) = Create(m) => n = m)
  BY DEF TypeIInv, RefundTypeOK, Create
<1> DEFINE Kept == \A n \in Mandates : Create(n) \in post' =>
             Create(n) \in post \/ (mandate[n].state = "unstarted" /\ mandate'[n].state = "creating")
<1>1. ASSUME \/ UNCHANGED post
             \/ \E m \in Mandates : post' = post \cup {[kind |-> "cancel", of |-> m]}
             \/ \E m \in Mandates : post' = post \ {[kind |-> "cancel", of |-> m]}
             \/ \E m \in Mandates : post' = post \ {Create(m)}
      PROVE  Kept
  BY <1>0, <1>1
<1>2. ASSUME NEW h \in Handlers, NEW m \in Mandates,
             EnrolNew(h, m) \/ ClaimDispatch(h, m) \/ EnrolmentUncertain(h, m) \/ Attach(h, m)
      PROVE  Kept
  <2>1. CASE UNCHANGED post
    BY <1>1, <2>1
  <2>2. CASE ~UNCHANGED post
    <3>1. /\ post' = post \cup {Create(m)} /\ mandate[m].state = "unstarted"
          /\ mandate' = [mandate EXCEPT ![m].state = "creating"]
      BY <1>2, <2>2, Zenon DEF EnrolNew, ClaimDispatch, EnrolmentUncertain, Attach, Create, Unsent
    <3>2. mandate'[m].state = "creating"
      BY <1>0, <3>1, RowsMove, Zenon DEF Moved
    <3> QED BY <1>0, <3>1, <3>2
  <2> QED BY <2>1, <2>2
<1>3. ASSUME NEW h \in Handlers, Reads(h) PROVE UNCHANGED post
  BY <1>3, ReadsBooks DEF Books
<1>4. ASSUME NEW h \in Handlers, NEW c \in Cycles, ApplyCharge(h, c) \/ \E r \in Failures(c), g \in Grace : ApplyFailure(h, r, g)
      PROVE  UNCHANGED post
  BY <1>4, Zenon DEF ApplyCharge, ApplyFailure
<1>5. ASSUME NEW h \in Handlers, NEW p \in Payments, RefundRecorded(h, p) \/ \E amount \in 1..Price : RefundDispatched(h, p, amount)
      PROVE  UNCHANGED post
  BY <1>5, RefundMoves, Zenon
<1>6. ASSUME NEW h \in Handlers, NEW rc \in RefundReceipts, ApplyRefundReceipt(h, rc) PROVE UNCHANGED post
  BY <1>6, Zenon DEF ApplyRefundReceipt
<1>7. ASSUME NEW h \in Handlers, NEW m \in Mandates, Cancels(h, m) PROVE Kept
  <2>1. UNCHANGED post \/ post' = post \cup {[kind |-> "cancel", of |-> m]}
    BY <1>7, CancelMoves, Zenon
  <2> QED BY <1>1, <2>1, Zenon
<1>8. ASSUME NEW c \in Cycles, NEW r \in Failures(c), RejectFailure(r) PROVE UNCHANGED post
  BY <1>8, Zenon DEF RejectFailure
<1>9. ASSUME ProviderActs PROVE Kept
  <2>1. ASSUME NEW m \in Mandates, ProviderStops(m) PROVE Kept
    <3>1. post' = post \ {[kind |-> "cancel", of |-> m]}
      BY <2>1, Zenon DEF ProviderStops
    <3> QED BY <1>1, <3>1, Zenon
  <2>2. ASSUME NEW m \in Mandates, ExecuteCreate(m) PROVE Kept
    <3>1. post' = post \ {Create(m)}
      BY <2>2, Zenon DEF ExecuteCreate, Create
    <3> QED BY <1>1, <3>1, Zenon
  <2>3. \/ Tick \/ (\E a \in {"open"} \cup Troubles : SetAccount(a))
        \/ \E m \in Mandates : Expires(m) \/ ChargeSucceeds(m) \/ ChargeFails(m)
        \/ \E r \in RefundIds : \/ \E p \in Payments : ProviderRefunds(r, p)
                                \/ \E s \in {"processed", "failed"} : RefundSettles(r, s)
        => UNCHANGED post
    BY Zenon DEF Tick, SetAccount, Expires, ChargeSucceeds, ChargeFails, ProviderRefunds, RefundSettles, vars
  <2> QED BY <1>1, <1>9, <2>1, <2>2, <2>3, Zenon DEF ProviderActs, Environment
<1>10. ASSUME NEW h \in Handlers, Writes(h) PROVE Kept
  <2> HIDE DEF Kept
  <2> QED BY <1>1, <1>2, <1>4, <1>5, <1>6, <1>7, <1>10, Zenon DEF Writes, Cancels
<1> QED
  <2> HIDE DEF Kept
  <2>1. Kept
    BY <1>1, <1>3, <1>8, <1>9, <1>10, Zenon DEF Steps
  <2> QED BY <2>1 DEF Kept

(* Cycles on record come from receipts, and these from charges.             *)
LEMMA CountKept ==
  ASSUME TypeIInv, TypeIInv', TermIInv, Counted, Steps,
         \A m \in Mandates : provider[m].paid <= provider'[m].paid,
         \A m \in Mandates : ChargeSucceeds(m) => provider'[m].paid = provider[m].paid + 1
  PROVE  /\ \A c \in Cycles : inbox'[Charged(c)] # "none" => c[2] <= provider'[c[1]].paid
         /\ \A c \in cycles' : inbox'[Charged(c)] # "none"
<1>1. TypeOK /\ cycles \subseteq Cycles /\ InboxKept
  BY StepKinds DEF TypeIInv, RefundTypeOK, TypeOK
<1>2. ASSUME NEW c \in Cycles, inbox'[Charged(c)] # "none" PROVE c[2] <= provider'[c[1]].paid
  <2>1. c[1] \in Mandates /\ c[2] \in Nat
    BY <1>1, Periods
  <2>2. provider[c[1]].paid \in Nat
    BY <1>1, <2>1 DEF TypeOK
  <2>3. provider'[c[1]].paid \in Nat
    BY <2>1 DEF TypeIInv, RefundTypeOK, TypeOK
  <2>4. CASE inbox[Charged(c)] # "none"
    BY <2>1, <2>2, <2>3, <2>4 DEF Counted
  <2>5. CASE inbox[Charged(c)] = "none"
    <3>1. PICK m \in Mandates : ChargeSucceeds(m) /\ c = Coming(m)
      BY <1>1, <1>2, <2>5 DEF InboxKept
    <3> QED BY <2>2, <2>3, <3>1 DEF Coming
  <2> QED BY <2>4, <2>5
<1>3. ASSUME NEW c \in cycles' PROVE inbox'[Charged(c)] # "none"
  <2>1. CASE c \in cycles
    BY <1>1, <2>1, ChargedIs DEF Counted, InboxKept
  <2>2. CASE c \notin cycles
    <3>1. PICK h \in Handlers, d \in Cycles : Renews(h, d)
      BY <1>3, <2>2, StepKinds DEF Quiet
    <3>2. c = d /\ inbox[Charged(c)] # "none"
      BY <1>3, <2>2, <3>1 DEF Renews
    <3> QED BY <1>1, <3>2, ChargedIs DEF InboxKept
  <2> QED BY <2>1, <2>2
<1> QED BY <1>2, <1>3

LEMMA SentStill ==
  ASSUME TypeIInv, TypeIInv', TermIInv, SentIInv, Steps, UNCHANGED provider PROVE SentIInv'
<1>1. TypeOK /\ (\A n \in Mandates : StateTurns(n)) /\ (\A n \in Mandates : Create(n) \in post' =>
           Create(n) \in post \/ (mandate[n].state = "unstarted" /\ mandate'[n].state = "creating"))
  BY StatesTurn, CreatesKept DEF SentIInv, TypeIInv, RefundTypeOK
<1>2. EnrolledOnce'
  <2>1. \A n \in Mandates : Create(n) \in post' =>
          provider[n].status = "none" /\ mandate'[n].state \in {"creating", "uncertain"}
    BY <1>1 DEF SentIInv, EnrolledOnce, Unasked, Create, StateTurns
  <2> QED BY <2>1 DEF EnrolledOnce, Create
<1>3. Unasked'
  BY <1>1 DEF SentIInv, Unasked, StateTurns
<1>4. Gone'
  BY <1>1 DEF SentIInv, Gone, StateTurns
<1>5. Founded'
  <2> SUFFICES ASSUME NEW h \in Handlers, NEW m \in Mandates, Attaching(h, m)'
               PROVE  provider[m].status # "none" /\ (handler'[h].ev.status = "expired" => provider[m].status = "expired")
    BY DEF Founded
  <2>1. handler'[h].pc = "attach" /\ handler'[h].of = <<m, 0>>
    BY DEF Attaching
  <2>2. CASE handler'[h] = handler[h]
    BY <2>1, <2>2 DEF SentIInv, Founded, Attaching
  <2>3. CASE Arrives(h)
    BY <2>1, <2>3 DEF Arrives, Settlements
  <2> QED BY <2>2, <2>3, HandlersMove
<1>6. Counted'
  <2>1. ASSUME NEW m \in Mandates, ChargeSucceeds(m) PROVE FALSE
    <3>1. Collects(m) /\ provider[m].paid \in Nat
      BY <1>1, <2>1, CollectsWhen DEF TypeOK
    <3> QED BY <3>1 DEF Collects, Turns
  <2>2. \A m \in Mandates : provider[m].paid \in Nat
    BY <1>1 DEF TypeOK
  <2>3. \A m \in Mandates : provider[m].paid <= provider'[m].paid
    BY <2>2
  <2> QED BY <2>1, <2>3, CountKept DEF SentIInv, Counted
<1> QED BY <1>2, <1>3, <1>4, <1>5, <1>6 DEF SentIInv

LEMMA SentTurns ==
  ASSUME TypeIInv, TypeIInv', TermIInv, SentIInv, Steps, UNCHANGED <<mandate, cycles, handler>>,
         NEW m \in Mandates, Created(m) \/ Lapses(m) \/ Collects(m) \/ Fails(m) \/ Stops(m)
  PROVE  SentIInv'
<1>1. /\ TypeOK /\ \A n \in Mandates : provider[n].paid \in Nat /\ provider'[n].paid \in Nat
      /\ \A n : Create(n) # [kind |-> "cancel", of |-> m] /\ (Create(n) = Create(m) => n = m)
  BY DEF TypeIInv, RefundTypeOK, TypeOK, Create
<1>2. \A n \in Mandates \ {m} : provider'[n] = provider[n]
  BY DEF Created, Lapses, Collects, Fails, Stops, Turns
<1>3. /\ provider'[m].status # "none" /\ provider[m].status # "expired"
      /\ provider[m].status = "none" => Created(m)
  <2>1. CASE Created(m)
    BY <2>1 DEF SentIInv, EnrolledOnce, Create, Created, Turns
  <2>2. CASE Lapses(m) \/ Collects(m) \/ Fails(m) \/ Stops(m)
    BY <2>2 DEF Lapses, Collects, Fails, Stops, Turns, Paying
  <2> QED BY <2>1, <2>2
<1>4. \A n \in Mandates : Create(n) \in post' => Create(n) \in post /\ n # m
  <2>1. post' \subseteq post
    BY DEF Created, Lapses, Collects, Fails, Stops
  <2>2. Create(m) \notin post'
    BY <1>1, <1>3, <2>1 DEF SentIInv, EnrolledOnce, Created, Create
  <2> QED BY <2>1, <2>2
<1>5. EnrolledOnce'
  BY <1>2, <1>4 DEF SentIInv, EnrolledOnce, Create
<1>6. Unasked'
  <2>1. mandate[m].state \notin {"none", "unstarted"}
    <3>1. CASE Created(m)
      BY <3>1 DEF SentIInv, Unasked, Created
    <3>2. CASE ~Created(m)
      BY <1>3, <3>2 DEF SentIInv, Unasked
    <3> QED BY <3>1, <3>2
  <2> QED BY <1>2, <1>4, <2>1 DEF SentIInv, Unasked
<1>7. Gone'
  BY <1>2, <1>3 DEF SentIInv, Gone
<1>8. Founded'
  BY <1>2, <1>3 DEF SentIInv, Founded, Attaching
<1>9. Counted'
  <2>1. provider[m].paid <= provider'[m].paid /\ (ChargeSucceeds(m) => provider'[m].paid = provider[m].paid + 1)
    <3>1. ChargeSucceeds(m) => provider'[m].paid = provider[m].paid + 1
      BY <1>1, CollectsWhen DEF Collects, Turns
    <3>2. provider[m].paid <= provider'[m].paid
      BY <1>1 DEF Created, Lapses, Collects, Fails, Stops, Turns
    <3> QED BY <3>1, <3>2
  <2>2. \A n \in Mandates : ChargeSucceeds(n) => n = m
    <3>1. ASSUME NEW n \in Mandates, ChargeSucceeds(n), n # m PROVE FALSE
      <4>1. provider'[n].paid = provider[n].paid + 1
        BY <1>1, <3>1, CollectsWhen DEF Collects, Turns
      <4> QED BY <1>1, <1>2, <3>1, <4>1
    <3> QED BY <3>1
  <2>3. \A n \in Mandates : provider[n].paid <= provider'[n].paid
    BY <1>1, <1>2, <2>1
  <2>4. /\ \A c \in Cycles : inbox'[Charged(c)] # "none" => c[2] <= provider'[c[1]].paid
        /\ \A c \in cycles' : inbox'[Charged(c)] # "none"
    BY <2>1, <2>2, <2>3, CountKept DEF SentIInv
  <2>5. provider'[m].status \in Paying => provider'[m].paid < TotalCount
    <3>1. CASE Created(m)
      <4>1. provider'[m].paid = 0
        BY <3>1 DEF SentIInv, EnrolledOnce, Create, Counted, Created, Turns
      <4> QED BY <4>1, RenewalAssumption
    <3>2. CASE Lapses(m) \/ Stops(m)
      BY <3>2 DEF Lapses, Stops, Turns, Paying
    <3>3. CASE Collects(m)
      BY <1>1, <3>3, RenewalAssumption DEF Collects, Turns, Paying
    <3>4. CASE Fails(m)
      BY <3>4 DEF Fails, Turns
    <3> QED BY <3>1, <3>2, <3>3, <3>4
  <2> QED BY <1>2, <1>3, <2>4, <2>5 DEF SentIInv, Counted
<1> QED BY <1>5, <1>6, <1>7, <1>8, <1>9 DEF SentIInv

LEMMA SentStep ==
  ASSUME TypeIInv, TermIInv, SentIInv, [ReversalNext]_allVars PROVE SentIInv'
<1>1. CASE UNCHANGED allVars
  BY <1>1 DEF allVars, vars, SentIInv, EnrolledOnce, Unasked, Gone, Founded, Attaching, Counted
<1>2. CASE Steps
  <2>1. TypeIInv'
    BY TypesStep
  <2> QED BY <1>2, <2>1, ProviderKinds, SentStill, SentTurns
<1> QED BY <1>1, <1>2, EveryStep

LEMMA InitialSent == RefundInit => SentIInv
<1> SUFFICES ASSUME RefundInit PROVE SentIInv
  OBVIOUS
<1>1. /\ post = {} /\ cycles = {} /\ \A h \in Handlers : handler[h].pc = "idle"
      /\ \A m \in Mandates : mandate[m].state = "none" /\ provider[m].status = "none" /\ provider[m].paid = 0
      /\ inbox = [r \in Receipts |-> "none"]
  BY DEF RefundInit, Init, NoMandate, Idle
<1> QED BY <1>1, ChargedIs, RenewalAssumption
        DEF SentIInv, EnrolledOnce, Unasked, Gone, Founded, Attaching, Counted, Paying
-----------------------------------------------------------------------------
(* Refunds are asked for once.  What the provider does with one:            *)
Issues(r, p, n, ours) ==
  /\ refund[r].status = "none" /\ refund'[r].status = "pending" /\ refund'[r].of = p
  /\ refund'[r].amount = n /\ refund'[r].ours = ours
  /\ \A x \in RefundIds \ {r} : refund'[x] = refund[x]

Concludes(r, s) ==
  /\ refund[r].status = "pending" /\ refund'[r].status = s /\ refund'[r].of = refund[r].of
  /\ refund'[r].amount = refund[r].amount /\ refund'[r].ours = refund[r].ours
  /\ \A x \in RefundIds \ {r} : refund'[x] = refund[x]

LEMMA RefundRowsMove ==
  ASSUME RefundTypeOK, NEW r \in RefundIds
  PROVE  /\ \A p, n, ours : refund[r] = NoRefund /\ refund' = [refund EXCEPT ![r] =
                [status |-> "pending", of |-> p, amount |-> n, ours |-> ours]] => Issues(r, p, n, ours)
         /\ \A s : refund[r].status = "pending" /\ refund' = [refund EXCEPT ![r].status = s] => Concludes(r, s)
<1>1. refund \in [RefundIds -> Refunds]
  BY DEF RefundTypeOK
<1> QED BY <1>1 DEF Refunds, Issues, Concludes, NoRefund

LEMMA ProviderRefundMoves ==
  ASSUME TypeIInv, NEW r \in RefundIds,
         \/ \E p \in Payments : ProviderRefunds(r, p)
         \/ \E s \in {"processed", "failed"} : RefundSettles(r, s)
  PROVE  /\ UNCHANGED <<vars, intent, observed>>
         /\ \/ \E p \in Payments, n \in 1..Price, ours \in BOOLEAN :
                 /\ Issues(r, p, n, ours) /\ n \in 1..Returnable(p) /\ Captured(p)
                 /\ refundInbox' = [refundInbox EXCEPT ![<<r, "pending">>] = "pending"]
                 /\ IF ours THEN p \in refundPost /\ refundPost' = refundPost \ {p} /\ n = intent[p].amount
                            ELSE UNCHANGED refundPost
            \/ \E s \in {"processed", "failed"} : /\ Concludes(r, s) /\ UNCHANGED refundPost
                 /\ refundInbox' = [refundInbox EXCEPT ![<<r, s>>] = "pending"]
<1>0. RefundTypeOK
  BY DEF TypeIInv
<1>1. UNCHANGED <<vars, intent, observed>>
  BY Zenon DEF ProviderRefunds, RefundSettles
<1>2. ASSUME NEW p \in Payments, NEW n, NEW ours, IssueRefund(r, p, n, ours)
      PROVE  /\ Issues(r, p, n, ours) /\ n \in 1..Returnable(p) /\ Captured(p)
             /\ refundInbox' = [refundInbox EXCEPT ![<<r, "pending">>] = "pending"]
  <2>1. /\ refund[r] = NoRefund /\ n \in 1..Returnable(p) /\ Captured(p)
        /\ refund' = [refund EXCEPT ![r] = [status |-> "pending", of |-> p, amount |-> n, ours |-> ours]]
        /\ refundInbox' = [refundInbox EXCEPT ![<<r, "pending">>] = "pending"]
    BY <1>2, Zenon DEF IssueRefund
  <2> QED BY <1>0, <2>1, RefundRowsMove, Zenon
<1>3. ASSUME NEW p \in Payments, ProviderRefunds(r, p)
      PROVE  \E n \in 1..Price, ours \in BOOLEAN :
                 /\ Issues(r, p, n, ours) /\ n \in 1..Returnable(p) /\ Captured(p)
                 /\ refundInbox' = [refundInbox EXCEPT ![<<r, "pending">>] = "pending"]
                 /\ IF ours THEN p \in refundPost /\ refundPost' = refundPost \ {p} /\ n = intent[p].amount
                            ELSE UNCHANGED refundPost
  <2>1. CASE \E n \in 1..Price : IssueRefund(r, p, n, FALSE) /\ UNCHANGED refundPost
    <3>1. FALSE \in BOOLEAN
      OBVIOUS
    <3> QED BY <1>2, <2>1, <3>1, Zenon
  <2>2. CASE p \in refundPost /\ IssueRefund(r, p, intent[p].amount, TRUE) /\ refundPost' = refundPost \ {p}
    <3> DEFINE n == intent[p].amount
    <3>1. n \in 0..Price
      BY <1>0 DEF RefundTypeOK, Intents
    <3>2. n \in 1..Returnable(p)
      BY <1>2, <2>2
    <3>3. n \in 1..Price /\ TRUE \in BOOLEAN
      BY <3>1, <3>2, ReversalAssumption
    <3> HIDE DEF n
    <3>4. IssueRefund(r, p, n, TRUE) /\ n = intent[p].amount
      BY <2>2 DEF n
    <3> QED BY <1>2, <2>2, <3>3, <3>4, Zenon
  <2> QED BY <1>3, <2>1, <2>2, Zenon DEF ProviderRefunds
<1>4. ASSUME NEW s \in {"processed", "failed"}, RefundSettles(r, s)
      PROVE  /\ Concludes(r, s) /\ UNCHANGED refundPost
             /\ refundInbox' = [refundInbox EXCEPT ![<<r, s>>] = "pending"]
  <2>1. /\ refund[r].status = "pending" /\ refund' = [refund EXCEPT ![r].status = s] /\ UNCHANGED refundPost
        /\ refundInbox' = [refundInbox EXCEPT ![<<r, s>>] = "pending"]
    BY <1>4, Zenon DEF RefundSettles
  <2> QED BY <1>0, <2>1, RefundRowsMove, Zenon
<1> QED BY <1>1, <1>3, <1>4, Zenon

(* An intent once written is never taken back.                              *)
Unspent == \A p \in Payments : intent[p].state = "none" =>
             p \notin refundPost /\ \A r \in RefundsOf(p) : ~refund[r].ours

LEMMA IntentStays ==
  ASSUME RefundTypeOK, NEW p \in Payments, NEW ev, Listing(ev), intent[p].state # "none"
  PROVE  Bound(p, ev).state # "none" /\ Doubtful(Bound(p, ev)).state # "none" /\ Doubtful(intent[p]).state # "none"
<1> DEFINE mine == {r \in DOMAIN ev : refund[r].ours}
           x == CHOOSE r \in mine : TRUE
<1>1. intent[p] \in Intents /\ Bound(p, ev) \in Intents
  BY BoundTyped DEF RefundTypeOK
<1>2. ASSUME mine # {} PROVE ev[x] \in Settlements
  <2>1. x \in DOMAIN ev
    BY <1>2
  <2> QED BY <2>1 DEF Listing
<1> HIDE DEF x
<1>3. mine # {} => [intent[p] EXCEPT !.state = ev[x], !.bound = x].state # "none"
  BY <1>1, <1>2 DEF Settlements, Intents
<1>4. [intent[p] EXCEPT !.state = "external"].state # "none"
  BY <1>1 DEF Intents
<1>5. \/ Bound(p, ev) = intent[p]
      \/ Bound(p, ev) = [intent[p] EXCEPT !.state = "external"]
      \/ mine # {} /\ Bound(p, ev) = [intent[p] EXCEPT !.state = ev[x], !.bound = x]
  BY Zenon DEF Bound, x
<1> HIDE DEF mine
<1>6. Bound(p, ev).state # "none"
  BY <1>3, <1>4, <1>5
<1>7. \A i \in Intents : i.state # "none" => Doubtful(i).state # "none"
  BY DEF Doubtful, Intents
<1> QED BY <1>1, <1>6, <1>7

OnceIInv == RefundOnce /\ Unspent

LEMMA OnceKept ==
  ASSUME RefundTypeOK, OnceIInv, UNCHANGED <<refund, refundPost>>, NEW p \in Payments, NEW i,
         intent' = [intent EXCEPT ![p] = i], i.state = "none" => intent[p].state = "none"
  PROVE  OnceIInv'
<1>1. \A q \in Payments : intent'[q].state = "none" => intent[q].state = "none"
  BY DEF RefundTypeOK
<1>2. \A q : RefundsOf(q)' = RefundsOf(q)
  BY DEF RefundsOf
<1> QED BY <1>1, <1>2 DEF OnceIInv, RefundOnce, Unspent

LEMMA OnceStep ==
  ASSUME TypeIInv, OnceIInv, [ReversalNext]_allVars PROVE OnceIInv'
<1>0. RefundTypeOK
  BY DEF TypeIInv
<1>1. ASSUME UNCHANGED <<refund, refundPost, intent>> PROVE OnceIInv'
  BY <1>1 DEF OnceIInv, RefundOnce, Unspent, RefundsOf
<1>2. ASSUME NEW h \in Handlers, NEW p, Records(h, p), UNCHANGED <<refund, refundPost>> PROVE OnceIInv'
  <2>1. p \in Payments /\ Listing(handler[h].ev)
    BY <1>2 DEF Records
  <2>2. PICK i \in {Bound(p, handler[h].ev), Doubtful(Bound(p, handler[h].ev))} : intent' = [intent EXCEPT ![p] = i]
    BY <1>2 DEF Records, Observe
  <2>3. i.state = "none" => intent[p].state = "none"
    BY <1>0, <2>1, <2>2, IntentStays
  <2> QED BY <1>0, <1>2, <2>1, <2>2, <2>3, OnceKept
<1>3. ASSUME NEW h \in Handlers, NEW p \in Payments,
             RefundRecorded(h, p) \/ \E amount \in 1..Price : RefundDispatched(h, p, amount)
      PROVE  OnceIInv'
  <2>1. CASE Requests(p)
    <3>1. UNCHANGED refund /\ intent[p].state = "none" /\ refundPost' = refundPost \cup {p}
      BY <1>3, <2>1, RefundMoves, Zenon DEF Requests
    <3>2. \A q \in Payments : intent'[q].state = "none" => intent[q].state = "none" /\ q # p
      BY <1>0, <2>1 DEF Requests, RefundTypeOK
    <3>3. \A q : RefundsOf(q)' = RefundsOf(q)
      BY <3>1 DEF RefundsOf
    <3> QED BY <3>1, <3>2, <3>3 DEF OnceIInv, RefundOnce, Unspent
  <2>2. CASE UNCHANGED <<refund, refundPost>> /\ intent' = [intent EXCEPT ![p] = Doubtful(intent[p])]
    <3>1. Doubtful(intent[p]).state = "none" => intent[p].state = "none"
      BY <1>0 DEF Doubtful, RefundTypeOK, Intents
    <3> QED BY <1>0, <2>2, <3>1, OnceKept
  <2>3. CASE ~Requests(p)
    <3>1. /\ UNCHANGED <<refund, refundPost>>
          /\ \/ UNCHANGED intent
             \/ intent' = [intent EXCEPT ![p] = Doubtful(intent[p])]
             \/ Records(h, p)
      BY <1>3, <2>3, RefundMoves, Zenon
    <3>2. UNCHANGED intent => UNCHANGED <<refund, refundPost, intent>>
      BY <3>1
    <3> QED BY <1>1, <1>2, <2>2, <3>1, <3>2, Zenon
  <2> QED BY <2>1, <2>3
<1>4. ASSUME NEW h \in Handlers, NEW rc \in RefundReceipts, ApplyRefundReceipt(h, rc) PROVE OnceIInv'
  <2>1. UNCHANGED <<refund, refundPost>> /\ (UNCHANGED intent \/ Records(h, refund[rc[1]].of))
    BY <1>4, ReceiptMoves, Zenon
  <2>2. UNCHANGED intent => OnceIInv'
    BY <1>1, <2>1
  <2> QED BY <1>2, <1>4, <2>1, <2>2, Zenon
<1>5. ASSUME NEW r \in RefundIds, \/ \E p \in Payments : ProviderRefunds(r, p)
                                  \/ \E s \in {"processed", "failed"} : RefundSettles(r, s)
      PROVE  OnceIInv'
  <2>1. UNCHANGED intent
    BY <1>5, ProviderRefundMoves, Zenon
  <2>2. ASSUME NEW p \in Payments, NEW n, NEW ours \in BOOLEAN, Issues(r, p, n, ours),
               IF ours THEN p \in refundPost /\ refundPost' = refundPost \ {p} ELSE UNCHANGED refundPost
        PROVE  OnceIInv'
    <3>1. \A q : RefundsOf(q)' = IF q = p THEN RefundsOf(q) \cup {r} ELSE RefundsOf(q)
      BY <2>2 DEF Issues, RefundsOf
    <3>2. \A q : \A x \in RefundsOf(q) : refund'[x].ours = refund[x].ours
      BY <2>2 DEF Issues, RefundsOf
    <3>3. CASE ours
      BY <2>1, <2>2, <3>1, <3>2, <3>3 DEF OnceIInv, RefundOnce, Unspent, Issues
    <3>4. CASE ~ours
      BY <2>1, <2>2, <3>1, <3>2, <3>4 DEF OnceIInv, RefundOnce, Unspent, Issues
    <3> QED BY <3>3, <3>4
  <2>3. ASSUME NEW s \in {"processed", "failed"}, Concludes(r, s), UNCHANGED refundPost PROVE OnceIInv'
    <3>1. \A q : RefundsOf(q)' = RefundsOf(q)
      BY <2>3 DEF Concludes, RefundsOf
    <3>2. \A q : \A x \in RefundsOf(q) : refund'[x].ours = refund[x].ours
      BY <2>3 DEF Concludes, RefundsOf
    <3> QED BY <2>1, <2>3, <3>1, <3>2 DEF OnceIInv, RefundOnce, Unspent
  <2> QED BY <1>5, <2>2, <2>3, ProviderRefundMoves, Zenon
<1>6. ASSUME NEW h \in Handlers, Reads(h) PROVE OnceIInv'
  BY <1>1, <1>6, ReadsBooks DEF Books, refundVars
<1>7. ASSUME UNCHANGED refundVars PROVE OnceIInv'
  BY <1>1, <1>7 DEF refundVars
<1>8. ASSUME NEW m \in Mandates, NEW h \in Handlers, Cancels(h, m) PROVE OnceIInv'
  BY <1>7, <1>8, CancelMoves, Zenon
<1>9. ASSUME NEW m \in Mandates, ProviderStops(m) PROVE OnceIInv'
  BY <1>7, <1>9, Zenon DEF ProviderStops
<1>10. CASE UNCHANGED allVars
  BY <1>7, <1>10 DEF allVars
<1>11. ASSUME NEW h \in Handlers, Writes(h) PROVE OnceIInv'
  BY <1>3, <1>4, <1>7, <1>8, <1>11, Zenon DEF Writes, Cancels
<1>12. CASE Steps
  BY <1>5, <1>6, <1>7, <1>9, <1>11, <1>12, Zenon DEF Steps, ProviderActs
<1> QED BY <1>10, <1>12, EveryStep

LEMMA InitialOnce == RefundInit => OnceIInv
  BY DEF RefundInit, OnceIInv, RefundOnce, Unspent, RefundsOf, NoRefund, NoIntent

(* Who may charge holds the customer's place: an enrolment whose request is *)
(* on its way is claimed, one that lapsed cannot be paid for, and one whose *)
(* last cycle is on record was charged for the last time.                   *)
LEMMA OneCharges ==
  ASSUME TypeIInv, TermIInv, SentIInv PROVE OneAgreement
<1>1. ASSUME NEW m \in Mandates, MayCharge(m) PROVE mandate[m].active
  <2>1. CASE [kind |-> "create", of |-> m] \in post
    BY <2>1 DEF SentIInv, EnrolledOnce, TermIInv, Placeholder, Held
  <2>2. CASE provider[m].status \in Paying
    <3>1. mandate[m].state \notin {"none", "unstarted", "expired"}
      BY <2>2 DEF SentIInv, Unasked, Gone, Paying
    <3>2. mandate[m].state # "completed"
      <4>1. SUFFICES ASSUME mandate[m].state = "completed" PROVE FALSE
        OBVIOUS
      <4> DEFINE c == <<m, TotalCount>>
      <4>2. TotalCount \in 1..TotalCount
        BY RenewalAssumption
      <4>3. c \in cycles /\ c \in Cycles /\ c[1] = m /\ c[2] = TotalCount
        BY <4>1, <4>2 DEF TermIInv, Full, Cycles
      <4> HIDE DEF c
      <4>4. inbox[Charged(c)] # "none"
        BY <4>3 DEF SentIInv, Counted
      <4>5. TotalCount <= provider[m].paid
        BY <4>3, <4>4 DEF SentIInv, Counted
      <4>6. provider[m].paid < TotalCount
        BY <2>2 DEF SentIInv, Counted
      <4>7. provider[m].paid \in Nat
        BY DEF TypeIInv, RefundTypeOK, TypeOK
      <4> QED BY <4>5, <4>6, <4>7, RenewalAssumption
    <3>3. mandate[m].state \in Held
      BY <3>1, <3>2 DEF Held, TypeIInv, RefundTypeOK, TypeOK, MandateRows
    <3> QED BY <3>3 DEF TermIInv, Placeholder
  <2> QED BY <1>1, <2>1, <2>2 DEF MayCharge
<1> QED BY <1>1 DEF OneAgreement, TermIInv, Placeholder

(* A request to stop is written only together with the claim.               *)
Cancel(m) == [kind |-> "cancel", of |-> m]

LEMMA StopsAreClaimed ==
  ASSUME Steps
  PROVE  \A m \in Mandates : claim[m] # "none" /\ Cancel(m) \notin post => Cancel(m) \notin post'
<1> DEFINE Kept == \A n \in Mandates : claim[n] # "none" /\ Cancel(n) \notin post => Cancel(n) \notin post'
<1>0. \A n, m : Cancel(n) # Create(m) /\ (Cancel(n) = Cancel(m) => n = m)
  BY DEF Cancel, Create
<1>1. ASSUME \/ UNCHANGED post
             \/ \E m \in Mandates : post' = post \cup {Create(m)}
             \/ \E m \in Mandates : post' = post \cup {Cancel(m)} /\ claim[m] = "none"
             \/ \E x : post' = post \ {x}
      PROVE  Kept
  BY <1>0, <1>1
<1> HIDE DEF Kept
<1>2. ASSUME NEW h \in Handlers, NEW m \in Mandates,
             EnrolNew(h, m) \/ ClaimDispatch(h, m) \/ EnrolmentUncertain(h, m) \/ Attach(h, m)
      PROVE  Kept
  BY <1>1, <1>2, Zenon DEF EnrolNew, ClaimDispatch, EnrolmentUncertain, Attach, Create
<1>3. ASSUME NEW h \in Handlers, Reads(h) PROVE Kept
  BY <1>1, <1>3, ReadsBooks DEF Books
<1>4. ASSUME NEW h \in Handlers, NEW c \in Cycles, ApplyCharge(h, c) \/ \E r \in Failures(c), g \in Grace : ApplyFailure(h, r, g)
      PROVE  Kept
  BY <1>1, <1>4, Zenon DEF ApplyCharge, ApplyFailure
<1>5. ASSUME NEW h \in Handlers, NEW p \in Payments, RefundRecorded(h, p) \/ \E amount \in 1..Price : RefundDispatched(h, p, amount)
      PROVE  Kept
  BY <1>1, <1>5, Zenon DEF RefundRecorded, RefundDispatched
<1>6. ASSUME NEW h \in Handlers, NEW rc \in RefundReceipts, ApplyRefundReceipt(h, rc) PROVE Kept
  BY <1>1, <1>6, Zenon DEF ApplyRefundReceipt
<1>7. ASSUME NEW h \in Handlers, NEW m \in Mandates, Cancels(h, m) PROVE Kept
  BY <1>1, <1>7, CancelMoves, Zenon DEF Cancel
<1>8. ASSUME NEW c \in Cycles, NEW r \in Failures(c), RejectFailure(r) PROVE Kept
  BY <1>1, <1>8, Zenon DEF RejectFailure
<1>9. ASSUME ProviderActs PROVE Kept
  <2>1. (\E m \in Mandates : ProviderStops(m) \/ ExecuteCreate(m)) => \E x : post' = post \ {x}
    BY Zenon DEF ProviderStops, ExecuteCreate
  <2>2. \/ Tick \/ (\E a \in {"open"} \cup Troubles : SetAccount(a))
        \/ \E m \in Mandates : Expires(m) \/ ChargeSucceeds(m) \/ ChargeFails(m)
        \/ \E r \in RefundIds : \/ \E p \in Payments : ProviderRefunds(r, p)
                                \/ \E s \in {"processed", "failed"} : RefundSettles(r, s)
        => UNCHANGED post
    BY Zenon DEF Tick, SetAccount, Expires, ChargeSucceeds, ChargeFails, ProviderRefunds, RefundSettles, vars
  <2> QED BY <1>1, <1>9, <2>1, <2>2, Zenon DEF ProviderActs, Environment
<1>10. ASSUME NEW h \in Handlers, Writes(h) PROVE Kept
  BY <1>2, <1>4, <1>5, <1>6, <1>7, <1>10, Zenon DEF Writes, Cancels
<1>11. Kept
  BY <1>3, <1>8, <1>9, <1>10, Zenon DEF Steps
<1> QED BY <1>11 DEF Kept

(* No request that moves money or stops it is repeated, however many        *)
(* handlers, retries and deaths of handlers there are: an enrolment, a      *)
(* cancellation and a refund are each sent for once, and never may two of   *)
(* the provider's subscriptions charge the same customer.                   *)
THEOREM SentForOnce == ReversalSpec => SentOnce
<1> DEFINE IInv == TypeIInv /\ TermIInv /\ SentIInv /\ OnceIInv
           Claimed == \A m \in Mandates : claim[m] # "none" /\ [kind |-> "cancel", of |-> m] \notin post =>
                        [kind |-> "cancel", of |-> m] \notin post'
<1>1. RefundInit => IInv
  BY InitialTypes, InitialTerms, InitialSent, InitialOnce
<1>2. IInv /\ [ReversalNext]_allVars => IInv'
  BY TypesStep, TermsStep, SentStep, OnceStep
<1>3. IInv => OneAgreement /\ EnrolledOnce /\ RefundOnce
  BY OneCharges DEF SentIInv, OnceIInv
<1>4. IInv /\ [ReversalNext]_allVars => [Claimed]_allVars
  BY EveryStep, StopsAreClaimed DEF Cancel
<1> HIDE DEF Claimed, IInv
<1>5. ReversalSpec => [](OneAgreement /\ EnrolledOnce /\ RefundOnce)
  BY <1>1, <1>2, <1>3, PTL DEF ReversalSpec
<1>6. ReversalSpec => [][Claimed]_allVars
  BY <1>1, <1>2, <1>4, PTL DEF ReversalSpec
<1>7. [][Claimed]_allVars <=> CancelOnce
  BY DEF CancelOnce, Claimed
<1> QED BY <1>5, <1>6, <1>7 DEF SentOnce
-----------------------------------------------------------------------------
(* The plan, the claims and the cases: what a step may do to them.          *)
Enrolling(m) == UNCHANGED <<claim, recovery, cycles, sub>> /\ (Started(m) \/ Advanced(m))
Enrols(h, m) == UNCHANGED <<claim, recovery, cycles>> /\ Renewable /\ Attached(h, m)
Owes(h, c, r, g) == UNCHANGED <<now, claim, mandate, cycles>> /\ Recovers(h, c, r, g)
Notes(h, p) == UNCHANGED <<claim, recovery, mandate, cycles>> /\ Records(h, p)

LEMMA PlanKinds ==
  ASSUME TypeIInv, TermIInv, Steps
  PROVE  \/ UNCHANGED <<claim, recovery, sub, mandate, cycles>>
         \/ \E m \in Mandates : Enrolling(m)
         \/ \E h \in Handlers, m \in Mandates : Enrols(h, m)
         \/ \E h \in Handlers, c \in Cycles : Renews(h, c) /\ UNCHANGED claim
         \/ \E h \in Handlers, c \in Cycles : \E r \in Failures(c), g \in Grace : Owes(h, c, r, g)
         \/ \E h \in Handlers, m \in Mandates : Cancels(h, m)
         \/ \E h \in Handlers, p \in Payments : Notes(h, p)
<1>0. TypeOK
  BY DEF TypeIInv, RefundTypeOK
<1> DEFINE Still == UNCHANGED <<claim, recovery, sub, mandate, cycles>>
           Kinds == \/ Still
                    \/ \E m \in Mandates : Enrolling(m)
                    \/ \E h \in Handlers, m \in Mandates : Enrols(h, m)
                    \/ \E h \in Handlers, c \in Cycles : Renews(h, c) /\ UNCHANGED claim
                    \/ \E h \in Handlers, c \in Cycles : \E r \in Failures(c), g \in Grace : Owes(h, c, r, g)
                    \/ \E h \in Handlers, m \in Mandates : Cancels(h, m)
                    \/ \E h \in Handlers, p \in Payments : Notes(h, p)
<1>1. ASSUME NEW h \in Handlers, Reads(h) PROVE Still
  BY <1>1, ReadsBooks DEF Books
<1>2. ASSUME NEW h \in Handlers, NEW m \in Mandates,
             EnrolNew(h, m) \/ ClaimDispatch(h, m) \/ EnrolmentUncertain(h, m) \/ Attach(h, m)
      PROVE  Still \/ Enrolling(m) \/ Enrols(h, m)
  <2>1. /\ UNCHANGED <<claim, recovery, cycles>>
        /\ UNCHANGED <<mandate, sub>> \/ Started(m) \/ Advanced(m) \/ Attached(h, m)
    BY <1>0, <1>2, EnrolmentMoves, Zenon
  <2>2. CASE UNCHANGED <<mandate, sub>>
    BY <2>1, <2>2
  <2>3. CASE Started(m) \/ Advanced(m)
    BY <2>1, <2>3 DEF Enrolling, Started, Advanced
  <2>4. CASE Attached(h, m) /\ ~UNCHANGED <<mandate, sub>> /\ ~Advanced(m) /\ ~Started(m)
    <3>1. ~EnrolNew(h, m)
      <4>1. EnrolNew(h, m) => Started(m)
        BY <1>0, RowsMove, Zenon DEF EnrolNew, Started
      <4> QED BY <2>4, <4>1
    <3>2. ~ClaimDispatch(h, m) /\ ~EnrolmentUncertain(h, m)
      <4>1. handler[h].pc = "attach"
        BY <2>4 DEF Attached, Attaching
      <4> QED BY <4>1 DEF ClaimDispatch, EnrolmentUncertain
    <3>3. Renewable
      BY <1>2, <2>4, <3>1, <3>2, Zenon DEF Attach
    <3> QED BY <2>1, <2>4, <3>3, Zenon DEF Enrols
  <2> QED BY <2>1, <2>2, <2>3, <2>4
<1>3. ASSUME NEW h \in Handlers, NEW c \in Cycles, ApplyCharge(h, c)
      PROVE  Still \/ (Renews(h, c) /\ UNCHANGED claim)
  BY <1>3, ChargeMoves
<1>4. ASSUME NEW h \in Handlers, NEW c \in Cycles, NEW r \in Failures(c), NEW g \in Grace, ApplyFailure(h, r, g)
      PROVE  Still \/ Owes(h, c, r, g)
  BY <1>4, FailureMoves DEF Owes
<1>5. ASSUME NEW h \in Handlers, NEW p \in Payments,
             RefundRecorded(h, p) \/ \E amount \in 1..Price : RefundDispatched(h, p, amount)
      PROVE  Still \/ Notes(h, p)
  <2>1. UNCHANGED <<claim, recovery, mandate, cycles>>
    BY <1>5, RefundMoves, Zenon
  <2>2. UNCHANGED sub \/ Records(h, p)
    BY <1>5, RefundMoves, Zenon DEF Requests
  <2> QED BY <2>1, <2>2 DEF Notes
<1>6. ASSUME NEW h \in Handlers, NEW rc \in RefundReceipts, ApplyRefundReceipt(h, rc)
      PROVE  Still \/ \E p \in Payments : Notes(h, p)
  <2>1. UNCHANGED <<claim, recovery, mandate, cycles>> /\ (UNCHANGED sub \/ Records(h, refund[rc[1]].of))
    BY <1>6, ReceiptMoves, Zenon
  <2>2. refund[rc[1]].of \in Payments
    BY DEF RefundReceipts, TypeIInv, RefundTypeOK, Refunds
  <2> QED BY <2>1, <2>2 DEF Notes
<1>7. ASSUME NEW c \in Cycles, NEW r \in Failures(c), RejectFailure(r) PROVE Still
  BY <1>7, Zenon DEF RejectFailure
<1>8. ASSUME ProviderActs PROVE Still
  BY <1>8, ProviderMoves, Zenon DEF ProviderActs, ProviderRefunds, RefundSettles, vars
<1> HIDE DEF Still
<1>9. ASSUME NEW h \in Handlers, Writes(h) PROVE Kinds
  <2>1. CASE \E m \in Mandates : EnrolNew(h, m) \/ ClaimDispatch(h, m) \/ EnrolmentUncertain(h, m) \/ Attach(h, m)
    BY <1>2, <2>1, Zenon
  <2>2. CASE \E c \in Cycles : ApplyCharge(h, c) \/ \E r \in Failures(c), g \in Grace : ApplyFailure(h, r, g)
    BY <1>3, <1>4, <2>2, Zenon
  <2>3. CASE \E m \in Mandates : Cancels(h, m)
    BY <2>3, Zenon
  <2>4. CASE \/ \E p \in Payments : RefundRecorded(h, p) \/ \E amount \in 1..Price : RefundDispatched(h, p, amount)
             \/ \E rc \in RefundReceipts : ApplyRefundReceipt(h, rc)
    BY <1>5, <1>6, <2>4, Zenon
  <2> HIDE DEF Kinds
  <2> QED BY <1>9, <2>1, <2>2, <2>3, <2>4, Zenon DEF Writes, Cancels
<1>10. Kinds
  <2>1. Still => Kinds
    OBVIOUS
  <2> HIDE DEF Kinds
  <2> QED BY <1>1, <1>7, <1>8, <1>9, <2>1, Zenon DEF Steps
<1> QED BY <1>10 DEF Still

LEMMA RenewedMoves ==
  ASSUME TypeOK, NEW c, sub' = Renewed(c)
  PROVE  /\ sub'.status = (IF Stopped(c[1]) THEN "canceled" ELSE "active") /\ sub'.cap = sub.cap
         /\ sub'.start = (IF PeriodStart(c) > sub.end \/ sub.refunded THEN PeriodStart(c) ELSE sub.start)
         /\ sub'.end = PeriodEnd(c) /\ ~sub'.refunded /\ sub'.due = None /\ sub'.grace = None
         /\ sub'.bound = sub.bound
<1>1. sub \in Subscriptions
  BY DEF TypeOK
<1> QED BY <1>1 DEF Renewed, Subscriptions

(* What a confirmed stop rests on: the word of the provider that a handler  *)
(* carries, and that claims are made for the mandate of the plan alone.     *)
Vouched == \A h \in Handlers, m \in Mandates :
             Stopping(h, m) /\ (handler[h].ev.status = "cancelled" \/ handler[h].pc = "stop receipt") =>
               provider[m].status = "cancelled"
ClaimsBound == \A m \in Mandates : claim[m] # "none" => sub.bound = m

StopIInv == StopIsFinal /\ Vouched /\ ClaimsBound

LEMMA CancelledStays ==
  ASSUME TypeIInv, TermIInv, SentIInv, Steps, NEW m \in Mandates, provider[m].status = "cancelled"
  PROVE  provider'[m].status = "cancelled"
<1>1. CASE UNCHANGED provider
  BY <1>1
<1>2. ASSUME NEW n \in Mandates, Created(n) \/ Lapses(n) \/ Collects(n) \/ Fails(n) \/ Stops(n)
      PROVE  provider'[m].status = "cancelled"
  <2>1. Created(n) => provider[n].status = "none"
    BY DEF Created, SentIInv, EnrolledOnce, Create
  <2>2. n = m => Stops(n)
    BY <1>2, <2>1 DEF Lapses, Collects, Fails, Stops, Paying
  <2> QED BY <1>2, <2>2 DEF Created, Lapses, Collects, Fails, Stops, Turns
<1> QED BY <1>1, <1>2, ProviderKinds

LEMMA VouchedKept ==
  ASSUME TypeIInv, TermIInv, SentIInv, Vouched, Steps PROVE Vouched'
<1> SUFFICES ASSUME NEW h \in Handlers, NEW m \in Mandates, Stopping(h, m)',
                    handler'[h].ev.status = "cancelled" \/ handler'[h].pc = "stop receipt"
             PROVE  provider'[m].status = "cancelled"
  BY DEF Vouched
<1>1. handler'[h].pc \in {"cancel", "stopped", "stop receipt"} /\ handler'[h].of = <<m, 0>>
  BY DEF Stopping
<1>2. CASE handler'[h] = handler[h]
  <2>1. provider[m].status = "cancelled"
    BY <1>1, <1>2 DEF Vouched, Stopping
  <2> QED BY <2>1, CancelledStays
<1>3. CASE Arrives(h) /\ UNCHANGED provider
  <2> DEFINE s == handler'[h]
  <2>1. s.pc \in {"cancel", "stopped", "stop receipt"} /\ s.of = <<m, 0>> /\ (s.ev.status = "cancelled" \/ s.pc = "stop receipt")
    BY <1>1
  <2>2. PICK n \in Mandates : /\ s.of = <<n, 0>>
                              /\ \/ s.ev.status \in {provider[n].status, "none"} /\ s.pc # "stop receipt"
                                 \/ provider[n].status = "cancelled"
    <3>1. /\ s.pc \notin {"idle", "dispatch", "lookup", "stop", "charge", "refunding", "refund", "refunded", "refund unknown"}
          /\ s.pc # "attach" /\ s.pc \notin {"pending", "halted"} /\ s.pc \notin Settlements
      BY <2>1 DEF Settlements
    <3>2. s.pc \in {"cancel", "stopped"} => s.pc # "stop receipt"
      OBVIOUS
    <3> QED BY <1>3, <3>1, <3>2, Zenon DEF Arrives
  <2> HIDE DEF s
  <2>3. n = m
    <3>1. \A a, b : <<a, 0>> = <<b, 0>> => a = b
      OBVIOUS
    <3> QED BY <2>1, <2>2, <3>1, Zenon
  <2>4. provider[m].status = "cancelled"
    <3>1. "cancelled" # "none"
      OBVIOUS
    <3> QED BY <2>1, <2>2, <2>3, <3>1, Zenon
  <2> QED BY <1>3, <2>4
<1> QED BY <1>2, <1>3, HandlersMove

LEMMA StopsKept ==
  ASSUME TypeIInv, TermIInv, StopIInv, Steps
  PROVE  /\ \A m \in Mandates : claim'[m] # "none" => sub'.bound = m
         /\ \A m \in Mandates : Stopped(m)' => provider[m].status = "cancelled" /\ sub'.status = "canceled" /\ sub'.cap
<1> DEFINE Kept == /\ \A m \in Mandates : claim'[m] # "none" => sub'.bound = m
                   /\ \A m \in Mandates : Stopped(m)' =>
                        provider[m].status = "cancelled" /\ sub'.status = "canceled" /\ sub'.cap
<1>0. TypeOK /\ sub \in Subscriptions
  BY DEF TypeIInv, RefundTypeOK, TypeOK
<1>1. CASE UNCHANGED <<claim, sub>>
  BY <1>1 DEF StopIInv, StopIsFinal, ClaimsBound, Stopped
<1>2. ASSUME Unclaimed, UNCHANGED claim PROVE Kept
  BY <1>2 DEF Unclaimed, Stopped
<1>3. ASSUME NEW h \in Handlers, NEW c \in Cycles, Renews(h, c), UNCHANGED claim PROVE Kept
  <2>1. sub' = Renewed(c) /\ sub.bound = c[1]
    BY <1>3, Zenon DEF Renews, LifecycleFits
  <2>2. /\ sub'.status = (IF Stopped(c[1]) THEN "canceled" ELSE "active") /\ sub'.cap = sub.cap
        /\ sub'.bound = sub.bound
    BY <1>0, <2>1, RenewedMoves
  <2> QED BY <1>3, <2>1, <2>2 DEF StopIInv, StopIsFinal, ClaimsBound, Stopped
<1>4. ASSUME NEW h \in Handlers, NEW c \in Cycles, NEW r \in Failures(c), NEW g \in Grace, Owes(h, c, r, g) PROVE Kept
  <2>1. claim[c[1]] = "none" /\ sub.bound = c[1]
    BY <1>0, <1>4, RecoveringType, Zenon DEF Owes, Recovers
  <2>2. Unclaimed
    BY <2>1 DEF StopIInv, ClaimsBound, Unclaimed
  <2> QED BY <1>2, <1>4, <2>2 DEF Owes
<1>5. ASSUME NEW h \in Handlers, NEW m \in Mandates, Cancels(h, m) PROVE Kept
  <2>1. CASE UNCHANGED <<claim, sub>>
    BY <1>1, <2>1
  <2>2. CASE Confirm(m) /\ Cancellable(m) /\ Stopping(h, m)
                        /\ (handler[h].ev.status = "cancelled" \/ handler[h].pc = "stop receipt")
    <3>1. provider[m].status = "cancelled" /\ sub.bound = m
      BY <2>2 DEF StopIInv, Vouched, Cancellable
    <3>2. SameTerm /\ sub'.status = "canceled" /\ sub'.cap /\ \A n \in Mandates \ {m} : claim'[n] = claim[n]
      BY <1>0, <2>2, ConfirmMoves
    <3>3. \A n \in Mandates : claim'[n] # "none" => n = m
      BY <3>1, <3>2 DEF StopIInv, ClaimsBound
    <3> QED BY <3>1, <3>2, <3>3 DEF SameTerm, Stopped
  <2>3. CASE UNCHANGED sub /\ Cancellable(m) /\ claim[m] # "confirmed"
             /\ \E s \in {"sending", "uncertain"} : claim' = [claim EXCEPT ![m] = s]
    <3>1. sub.bound = m
      BY <2>3 DEF Cancellable
    <3>2. claim'[m] # "confirmed" /\ \A n \in Mandates \ {m} : claim'[n] = claim[n]
      BY <1>0, <2>3 DEF TypeOK
    <3> QED BY <2>3, <3>1, <3>2 DEF StopIInv, StopIsFinal, ClaimsBound, Stopped
  <2> QED BY <1>5, <2>1, <2>2, <2>3, CancelMoves, Zenon
<1>6. ASSUME NEW h \in Handlers, NEW p \in Payments, Notes(h, p) PROVE Kept
  <2>1. SameTerm /\ sub'.status = sub.status /\ sub'.cap = sub.cap /\ UNCHANGED claim
    BY <1>0, <1>6, ObserveMoves, Zenon DEF Notes, Records
  <2> QED BY <2>1 DEF SameTerm, StopIInv, StopIsFinal, ClaimsBound, Stopped
<1> HIDE DEF Kept
<1>7. UNCHANGED <<claim, recovery, sub, mandate, cycles>> => Kept
  BY <1>1 DEF Kept
<1>8. ASSUME NEW m \in Mandates, Enrolling(m) PROVE Kept
  BY <1>1, <1>8 DEF Enrolling, Kept
<1>9. ASSUME NEW h \in Handlers, NEW m \in Mandates, Enrols(h, m) PROVE Kept
  BY <1>2, <1>9 DEF Enrols, Renewable
<1>10. Kept
  BY <1>3, <1>4, <1>5, <1>6, <1>7, <1>8, <1>9, PlanKinds, Zenon
<1> QED BY <1>10 DEF Kept

LEMMA StopStep ==
  ASSUME TypeIInv, TermIInv, SentIInv, StopIInv, [ReversalNext]_allVars PROVE StopIInv'
<1>1. CASE UNCHANGED allVars
  BY <1>1 DEF allVars, vars, StopIInv, StopIsFinal, Stopped, Vouched, Stopping, ClaimsBound
<1>2. CASE Steps
  <2>1. Vouched'
    BY <1>2, VouchedKept DEF StopIInv
  <2>2. ClaimsBound'
    BY <1>2, StopsKept DEF ClaimsBound
  <2>3. StopIsFinal'
    <3> SUFFICES ASSUME NEW m \in Mandates, Stopped(m)'
                 PROVE  provider'[m].status = "cancelled" /\ sub'.status = "canceled" /\ sub'.cap
      BY DEF StopIsFinal
    <3> QED BY <1>2, StopsKept, CancelledStays
  <2> QED BY <2>1, <2>2, <2>3 DEF StopIInv
<1> QED BY <1>1, <1>2, EveryStep

LEMMA InitialStop == RefundInit => StopIInv
<1> SUFFICES ASSUME RefundInit PROVE StopIInv
  OBVIOUS
<1>1. (\A m \in Mandates : claim[m] = "none") /\ \A h \in Handlers : handler[h].pc = "idle"
  BY DEF RefundInit, Init, Idle
<1> QED BY <1>1 DEF StopIInv, StopIsFinal, Stopped, Vouched, Stopping, ClaimsBound

(* Stopped means stopped: once a cancellation is confirmed here the         *)
(* provider has carried it out, and no charge, failure, enrolment or        *)
(* receipt still in a handler's hand makes the plan active again.           *)
THEOREM StoppedStays == ReversalSpec => []StopIsFinal
<1> DEFINE IInv == TypeIInv /\ TermIInv /\ SentIInv /\ StopIInv
<1>1. RefundInit => IInv
  BY InitialTypes, InitialTerms, InitialSent, InitialStop
<1>2. IInv /\ [ReversalNext]_allVars => IInv'
  BY TypesStep, TermsStep, SentStep, StopStep
<1>3. IInv => StopIsFinal
  BY DEF StopIInv
<1> QED BY <1>1, <1>2, <1>3, PTL DEF ReversalSpec
-----------------------------------------------------------------------------
(* What a debt rests on: the failed charge that a receipt reports, or that  *)
(* a handler holds a snapshot of, is the one the provider could not collect.*)
Pending(c) == [type |-> "pending", of |-> c]

Reduced == sub.status \in {"grace", "past_due"} =>
             \E c \in Cycles \ cycles : recovery[c].open /\ ~recovery[c].resolved /\ recovery[c].paidThrough = sub.end

GraceKept ==
  sub.grace # None =>
    /\ sub.status \in {"grace", "past_due"}
    /\ \E m \in Mandates : /\ sub.bound = m
                           /\ \A u \in UnpaidCycle(m) : recovery[u].open /\ recovery[u].grace = sub.grace

Failing(h, c) == handler[h].pc \in {"pending", "halted"} /\ handler[h].of = c
FailureSeen ==
  /\ \A m \in Mandates : provider[m].status \in {"pending", "halted"} => inbox[Pending(Coming(m))] # "none"
  /\ \A h \in Handlers, c \in Cycles : Failing(h, c) /\ handler[h].ev.status \in {"pending", "halted"} =>
       /\ handler[h].ev.paid \in 0..(TotalCount - 1)
       /\ inbox[Pending(<<c[1], handler[h].ev.paid + 1>>)] # "none"

DebtIInv == Reduced /\ GraceKept /\ DebtIsReal /\ FailureSeen

LEMMA NextUnpaid ==
  ASSUME TypeOK, NoHoles, NEW m \in Mandates, NEW u \in UnpaidCycle(m)
  PROVE  /\ u \in Cycles \ cycles /\ u[1] = m
         /\ u = <<m, Cardinality(Applied(m)) + 1>> /\ UnpaidCycle(m) = {u}
<1>1. ASSUME NEW v \in UnpaidCycle(m)
      PROVE  v \in Cycles \ cycles /\ v[1] = m /\ v = <<m, Cardinality(Applied(m)) + 1>>
  <2>1. v \in Cycles /\ v[1] = m /\ PeriodStart(v) = Expected(v[1])
    BY <1>1 DEF UnpaidCycle
  <2>2. v \notin cycles /\ Cardinality(Applied(m)) = v[2] - 1
    BY <2>1, NextInLine
  <2>3. v[2] \in Nat /\ v = <<m, v[2]>>
    BY <2>1, Periods, RenewalAssumption
  <2> QED BY <2>1, <2>2, <2>3
<1> QED BY <1>1

LEMMA PendingIs ==
  ASSUME NEW c \in Cycles
  PROVE  /\ Pending(c) \in Receipts /\ \A d : Pending(c) = Pending(d) => c = d
         /\ \A t, d : Pending(c) = [type |-> t, of |-> d] => t = "pending" /\ c = d
  BY DEF Pending, Receipts

(* A case is opened for the cycle that was not paid, and only for it.       *)
LEMMA OwesMoves ==
  ASSUME TypeIInv, TermIInv, FailureSeen, NEW h \in Handlers, NEW c \in Cycles,
         NEW r \in Failures(c), NEW g \in Grace, Owes(h, c, r, g)
  PROVE  \E u \in Cycles \ cycles :
           /\ UnpaidCycle(c[1]) = {u} /\ OpensCase(u, g) /\ inbox[Pending(u)] # "none"
           /\ sub.bound = c[1] /\ c[1] \in Mandates
<1>0. TypeOK /\ NoHoles
  BY DEF TypeIInv, RefundTypeOK, TermIInv
<1>1. /\ handler[h].pc = r.type /\ handler[h].of = c /\ FailureOutcome(c, handler[h].ev) = "recovering"
      /\ \E u \in UnpaidCycle(c[1]) : OpensCase(u, g)
  BY Zenon DEF Owes, Recovers
<1>2. r.type \in {"pending", "halted"}
  BY FailureReceipts
<1>3. /\ sub.bound = c[1] /\ c[1] \in Mandates /\ handler[h].ev.status \in {"pending", "halted"}
      /\ handler[h].ev.paid = Cardinality(Applied(c[1]))
  BY <1>0, <1>1, RecoveringType, Zenon
<1>4. PICK u \in UnpaidCycle(c[1]) : OpensCase(u, g)
  BY <1>1
<1>5. u \in Cycles \ cycles /\ u = <<c[1], Cardinality(Applied(c[1])) + 1>> /\ UnpaidCycle(c[1]) = {u}
  BY <1>0, <1>3, <1>4, NextUnpaid
<1>6. Failing(h, c)
  BY <1>1, <1>2, Zenon DEF Failing
<1>7. inbox[Pending(<<c[1], handler[h].ev.paid + 1>>)] # "none"
  BY <1>3, <1>6, Zenon DEF FailureSeen
<1>8. inbox[Pending(u)] # "none"
  BY <1>3, <1>5, <1>7, Zenon
<1> QED BY <1>3, <1>4, <1>5, <1>8, Zenon

LEMMA ResolvedMoves ==
  ASSUME TypeOK, NEW c \in Cycles, recovery' = [recovery EXCEPT ![c].resolved = recovery[c].open]
  PROVE  /\ recovery'[c].open = recovery[c].open /\ recovery'[c].paidThrough = recovery[c].paidThrough
         /\ recovery'[c].grace = recovery[c].grace /\ recovery'[c].resolved = recovery[c].open
         /\ \A d \in Cycles \ {c} : recovery'[d] = recovery[d]
<1>1. recovery \in [Cycles -> Cases]
  BY DEF TypeOK
<1> QED BY <1>1 DEF Cases

LEMMA DebtsReported ==
  ASSUME TypeIInv, TermIInv, DebtIsReal, FailureSeen, Steps PROVE DebtIsReal'
<1>0. TypeOK /\ InboxKept
  BY StepKinds DEF TypeIInv, RefundTypeOK
<1>1. ASSUME \A c \in Cycles : recovery'[c].open => recovery[c].open \/ inbox[Pending(c)] # "none"
      PROVE  DebtIsReal'
  BY <1>0, <1>1, PendingIs DEF DebtIsReal, InboxKept, Pending
<1>2. CASE UNCHANGED recovery
  BY <1>1, <1>2
<1>3. ASSUME NEW h \in Handlers, NEW c \in Cycles, Renews(h, c) PROVE DebtIsReal'
  <2>1. recovery' = [recovery EXCEPT ![c].resolved = recovery[c].open]
    BY <1>3, Zenon DEF Renews
  <2>2. \A d \in Cycles : recovery'[d].open = recovery[d].open
    BY <1>0, <2>1, ResolvedMoves
  <2> QED BY <1>1, <2>2
<1>4. ASSUME NEW h \in Handlers, NEW c \in Cycles, NEW r \in Failures(c), NEW g \in Grace, Owes(h, c, r, g)
      PROVE  DebtIsReal'
  <2>1. PICK u \in Cycles \ cycles : OpensCase(u, g) /\ inbox[Pending(u)] # "none"
    BY <1>4, OwesMoves
  <2>2. \A v \in Cycles \ {u} : recovery'[v] = recovery[v]
    BY <1>0, <2>1, OpensCaseMoves
  <2> QED BY <1>1, <2>1, <2>2
<1>5. \A h \in Handlers, m \in Mandates : Cancels(h, m) => UNCHANGED recovery
  BY CancelMoves, Zenon
<1>6. /\ \A m \in Mandates : Enrolling(m) => UNCHANGED recovery
      /\ \A h \in Handlers, m \in Mandates : Enrols(h, m) => UNCHANGED recovery
      /\ \A h \in Handlers, p \in Payments : Notes(h, p) => UNCHANGED recovery
  BY DEF Enrolling, Enrols, Notes
<1> QED BY <1>2, <1>3, <1>4, <1>5, <1>6, PlanKinds

LEMMA FailuresSeen ==
  ASSUME TypeIInv, TypeIInv', TermIInv, SentIInv, FailureSeen, Steps PROVE FailureSeen'
<1>0. TypeOK /\ InboxKept /\ \A m \in Mandates : provider[m].paid \in Nat /\ provider'[m].paid \in Nat
  BY StepKinds DEF TypeIInv, RefundTypeOK, TypeOK
<1>1. ASSUME NEW m \in Mandates, provider[m].paid < TotalCount PROVE Pending(Coming(m)) \in Receipts
  <2>1. Coming(m) \in Cycles
    BY <1>0, <1>1, RenewalAssumption DEF Coming, Cycles
  <2> QED BY <2>1, PendingIs
<1>2. \A m \in Mandates : provider[m].status \in {"pending", "halted"} => provider[m].paid < TotalCount
  BY DEF SentIInv, Counted, Paying
<1>3. ASSUME NEW m \in Mandates, provider[m].status \in {"pending", "halted"} PROVE inbox'[Pending(Coming(m))] # "none"
  <2>1. Pending(Coming(m)) \in Receipts
    BY <1>1, <1>2, <1>3
  <2> QED BY <1>0, <1>3, <2>1 DEF FailureSeen, InboxKept
<1>4. ASSUME NEW m \in Mandates, provider'[m].status \in {"pending", "halted"} PROVE inbox'[Pending(Coming(m)')] # "none"
  <2>1. CASE provider'[m] = provider[m]
    BY <1>3, <1>4, <2>1 DEF Coming
  <2>2. CASE provider'[m] # provider[m]
    <3>1. PICK n \in Mandates : Created(n) \/ Lapses(n) \/ Collects(n) \/ Fails(n) \/ Stops(n)
      BY <2>2, ProviderKinds
    <3>2. n = m
      BY <2>2, <3>1 DEF Created, Lapses, Collects, Fails, Stops, Turns
    <3>3. Fails(m)
      BY <1>4, <3>1, <3>2 DEF Created, Lapses, Collects, Stops, Turns
    <3>4. provider'[m].paid = provider[m].paid /\ provider[m].paid < TotalCount
      BY <3>3 DEF Fails, Turns
    <3>5. Coming(m)' = Coming(m)
      BY <3>4 DEF Coming
    <3>6. CASE provider[m].status = "pending"
      BY <1>3, <3>5, <3>6
    <3>7. CASE provider[m].status # "pending"
      <4>1. Report("pending", Coming(m))
        BY <3>3, <3>7 DEF Fails
      <4>2. inbox' = [inbox EXCEPT ![Pending(Coming(m))] = "pending"]
        BY <4>1, Zenon DEF Report, Pending
      <4>3. inbox'[Pending(Coming(m))] = "pending"
        BY <1>0, <1>1, <3>4, <4>2 DEF TypeOK
      <4> QED BY <3>5, <4>3
    <3> QED BY <3>6, <3>7
  <2> QED BY <2>1, <2>2
<1>5. ASSUME NEW h \in Handlers, NEW c \in Cycles, Failing(h, c)', handler'[h].ev.status \in {"pending", "halted"}
      PROVE  /\ handler'[h].ev.paid \in 0..(TotalCount - 1)
             /\ inbox'[Pending(<<c[1], handler'[h].ev.paid + 1>>)] # "none"
  <2>1. handler'[h].pc \in {"pending", "halted"} /\ handler'[h].of = c /\ c[1] \in Mandates
    BY <1>0, <1>5, Periods DEF Failing
  <2>2. CASE handler'[h] = handler[h]
    <3> DEFINE n == handler[h].ev.paid
    <3>1. Failing(h, c) /\ handler[h].ev.status \in {"pending", "halted"}
      BY <1>5, <2>1, <2>2 DEF Failing
    <3>2. n \in 0..(TotalCount - 1) /\ inbox[Pending(<<c[1], n + 1>>)] # "none"
      BY <3>1, Zenon DEF FailureSeen
    <3> HIDE DEF n
    <3>3. Pending(<<c[1], n + 1>>) \in Receipts
      <4>1. <<c[1], n + 1>> \in Cycles
        BY <2>1, <3>2, RenewalAssumption DEF Cycles
      <4> QED BY <4>1, PendingIs
    <3>4. inbox'[Pending(<<c[1], n + 1>>)] # "none"
      BY <1>0, <3>2, <3>3, Zenon DEF InboxKept
    <3>5. handler'[h].ev.paid = n
      BY <2>2 DEF n
    <3> QED BY <3>2, <3>4, <3>5, Zenon
  <2>3. CASE Arrives(h) /\ UNCHANGED provider
    <3> DEFINE s == handler'[h]
    <3>1. s.ev.status = provider[c[1]].status /\ s.ev.paid = provider[c[1]].paid
      <4>1. /\ s.pc \notin {"idle", "dispatch", "lookup", "stop", "charge", "refunding", "refund", "refunded", "refund unknown"}
            /\ s.pc # "attach" /\ s.pc \notin {"cancel", "stopped"} /\ s.pc # "stop receipt" /\ s.of \notin RefundIds
        BY <2>1, ReversalAssumption
      <4> QED BY <2>1, <2>3, <4>1, Zenon DEF Arrives
    <3>2. provider[c[1]].status \in {"pending", "halted"}
      BY <1>5, <3>1, Zenon
    <3> DEFINE n == provider[c[1]].paid
    <3>3. n \in 0..(TotalCount - 1)
      BY <1>0, <1>2, <2>1, <3>2, RenewalAssumption
    <3>4. inbox'[Pending(<<c[1], n + 1>>)] # "none"
      BY <1>3, <2>1, <3>2, Zenon DEF Coming
    <3> HIDE DEF n
    <3>5. handler'[h].ev.paid = n
      BY <3>1 DEF n
    <3> QED BY <3>3, <3>4, <3>5, Zenon
  <2> QED BY <2>2, <2>3, HandlersMove
<1> QED BY <1>4, <1>5 DEF FailureSeen

LEMMA UnpaidKept ==
  ASSUME cycles' = cycles, NEW m, mandate'[m].start = mandate[m].start
  PROVE  UnpaidCycle(m)' = UnpaidCycle(m)
<1>1. Applied(m)' = Applied(m)
  BY DEF Applied
<1>2. \A c : c[1] = m => PeriodStart(c)' = PeriodStart(c) /\ PeriodEnd(c)' = PeriodEnd(c)
  BY DEF PeriodStart, PeriodEnd
<1>3. {PeriodEnd(c) : c \in Applied(m)}' = {PeriodEnd(c) : c \in Applied(m)}
  BY <1>1, <1>2 DEF Applied
<1>4. Expected(m)' = Expected(m)
  BY <1>3 DEF Expected
<1> QED BY <1>2, <1>4 DEF UnpaidCycle

(* Access is reduced, and a grace is set, only by a failed charge; both end *)
(* with the charge that pays, with a cancellation or with a refund.         *)
LEMMA ReducedKept ==
  ASSUME TypeIInv, TermIInv, Reduced, GraceKept, FailureSeen, Steps PROVE Reduced' /\ GraceKept'
<1>0. TypeOK /\ sub \in Subscriptions /\ \A m \in Mandates : mandate'[m].start = mandate[m].start \/ Started(m)
  <2>1. \A m \in Mandates : mandate'[m].start = mandate[m].start \/ Started(m)
    BY StepKinds DEF Quiet, Started, Advanced, Attached, Expired, Readied, Renews, Moved
  <2> QED BY <2>1 DEF TypeIInv, RefundTypeOK, TypeOK
<1>1. ASSUME sub'.status \notin {"grace", "past_due"}, sub'.grace = None PROVE Reduced' /\ GraceKept'
  BY <1>1 DEF Reduced, GraceKept
<1>2. ASSUME UNCHANGED <<recovery, cycles>>, sub'.status = sub.status, sub'.end = sub.end PROVE Reduced'
  BY <1>2 DEF Reduced
<1>3. ASSUME UNCHANGED <<recovery, cycles>>, UNCHANGED mandate \/ \E m \in Mandates : Enrolling(m), UNCHANGED sub
      PROVE  GraceKept'
  <2> SUFFICES ASSUME sub.grace # None
               PROVE  /\ sub.status \in {"grace", "past_due"}
                      /\ \E m \in Mandates : /\ sub.bound = m
                             /\ \A u \in UnpaidCycle(m)' : recovery[u].open /\ recovery[u].grace = sub.grace
    BY <1>3 DEF GraceKept
  <2>1. PICK m \in Mandates : sub.bound = m /\ \A u \in UnpaidCycle(m) : recovery[u].open /\ recovery[u].grace = sub.grace
    BY DEF GraceKept
  <2>2. ~Started(m)
    BY <2>1 DEF TermIInv, Placeholder, Started, Fresh
  <2>3. UnpaidCycle(m)' = UnpaidCycle(m)
    BY <1>0, <1>3, <2>2, UnpaidKept
  <2> QED BY <2>1, <2>3 DEF GraceKept
<1>4. CASE UNCHANGED <<claim, recovery, sub, mandate, cycles>>
  BY <1>2, <1>3, <1>4
<1>5. ASSUME NEW m \in Mandates, Enrolling(m) PROVE Reduced' /\ GraceKept'
  BY <1>2, <1>3, <1>5 DEF Enrolling
<1>6. ASSUME NEW h \in Handlers, NEW m \in Mandates, Enrols(h, m) PROVE Reduced' /\ GraceKept'
  <2>1. sub.status = "active" /\ sub.grace = None
    BY <1>6 DEF Enrols, Renewable, GraceKept
  <2>2. sub'.status = sub.status /\ sub'.grace = sub.grace
    BY <1>0, <1>6 DEF Enrols, Attached, Readied, Expired, Subscriptions
  <2> QED BY <1>1, <2>1, <2>2
<1>7. ASSUME NEW h \in Handlers, NEW c \in Cycles, Renews(h, c) PROVE Reduced' /\ GraceKept'
  <2>1. sub' = Renewed(c)
    BY <1>7, Zenon DEF Renews
  <2> QED BY <1>0, <1>1, <2>1, RenewedMoves
<1>8. ASSUME NEW h \in Handlers, NEW c \in Cycles, NEW r \in Failures(c), NEW g \in Grace, Owes(h, c, r, g)
      PROVE  Reduced' /\ GraceKept'
  <2>1. PICK u \in Cycles \ cycles : /\ UnpaidCycle(c[1]) = {u} /\ OpensCase(u, g)
                                     /\ sub.bound = c[1] /\ c[1] \in Mandates
    BY <1>8, OwesMoves
  <2>2. /\ SameTerm /\ sub'.grace = Deadline(u, g) /\ sub'.status \in {"grace", "past_due"}
        /\ recovery'[u].open /\ recovery'[u].paidThrough = sub.end
        /\ recovery'[u].grace = Deadline(u, g) /\ ~recovery'[u].resolved
    BY <1>0, <2>1, OpensCaseMoves
  <2>3. UNCHANGED <<mandate, cycles>>
    BY <1>8 DEF Owes
  <2>4. UnpaidCycle(c[1])' = {u}
    BY <2>1, <2>3, UnpaidKept
  <2>5. Reduced'
    BY <2>1, <2>2, <2>3 DEF Reduced, SameTerm
  <2>6. GraceKept'
    BY <2>1, <2>2, <2>4 DEF GraceKept, SameTerm
  <2> QED BY <2>5, <2>6
<1>9. ASSUME NEW h \in Handlers, NEW m \in Mandates, Cancels(h, m) PROVE Reduced' /\ GraceKept'
  <2>1. UNCHANGED <<recovery, cycles, mandate>>
    BY <1>9, CancelMoves, Zenon
  <2>2. UNCHANGED sub \/ Confirm(m)
    BY <1>9, CancelMoves, Zenon
  <2>3. CASE UNCHANGED sub
    BY <1>2, <1>3, <2>1, <2>3
  <2>4. CASE Confirm(m)
    <3>1. sub'.status = "canceled" /\ sub'.grace = None
      BY <1>0, <2>4, ConfirmMoves
    <3> QED BY <1>1, <3>1
  <2> QED BY <2>2, <2>3, <2>4
<1>10. ASSUME NEW h \in Handlers, NEW p \in Payments, Notes(h, p) PROVE Reduced' /\ GraceKept'
  <2>1. UNCHANGED <<recovery, cycles, mandate>>
    BY <1>10 DEF Notes
  <2>2. SameTerm /\ sub'.status = sub.status /\ (sub' = sub \/ sub'.grace = None)
    BY <1>0, <1>10, ObserveMoves, Zenon DEF Notes, Records
  <2>3. Reduced'
    BY <1>2, <2>1, <2>2 DEF SameTerm
  <2>4. GraceKept'
    <3>1. sub' = sub => GraceKept'
      BY <1>3, <2>1
    <3>2. sub'.grace = None => GraceKept'
      BY DEF GraceKept
    <3> QED BY <2>2, <3>1, <3>2
  <2> QED BY <2>3, <2>4
<1> QED BY <1>4, <1>5, <1>6, <1>7, <1>8, <1>9, <1>10, PlanKinds, Zenon

LEMMA DebtStep ==
  ASSUME TypeIInv, TermIInv, SentIInv, DebtIInv, [ReversalNext]_allVars PROVE DebtIInv'
<1>1. CASE UNCHANGED allVars
  <2>1. \A m : UnpaidCycle(m)' = UnpaidCycle(m)
    BY <1>1, UnpaidKept DEF allVars, vars
  <2>2. GraceKept'
    BY <1>1, <2>1 DEF allVars, vars, DebtIInv, GraceKept
  <2>3. Reduced' /\ DebtIsReal'
    BY <1>1 DEF allVars, vars, DebtIInv, Reduced, DebtIsReal
  <2>4. FailureSeen'
    BY <1>1 DEF allVars, vars, DebtIInv, FailureSeen, Failing, Coming
  <2> QED BY <2>2, <2>3, <2>4 DEF DebtIInv
<1>2. CASE Steps
  <2>1. TypeIInv'
    BY TypesStep
  <2> QED BY <1>2, <2>1, ReducedKept, DebtsReported, FailuresSeen DEF DebtIInv
<1> QED BY <1>1, <1>2, EveryStep

LEMMA InitialDebt == RefundInit => DebtIInv
<1> SUFFICES ASSUME RefundInit PROVE DebtIInv
  OBVIOUS
<1>1. /\ sub.status = "active" /\ sub.grace = None /\ (\A h \in Handlers : handler[h].pc = "idle")
      /\ \A m \in Mandates : provider[m].status = "none"
      /\ \A c \in Cycles : ~recovery[c].open
  BY DEF RefundInit, Init, NoCase, Idle
<1> QED BY <1>1 DEF DebtIInv, Reduced, GraceKept, DebtIsReal, FailureSeen, Failing

(* A deadline once set for a debt is the deadline of that debt.             *)
LEMMA DeadlineStays ==
  ASSUME TypeIInv, TermIInv, GraceKept, FailureSeen, Steps,
         sub.grace # None, sub'.grace # None, sub'.due = sub.due
  PROVE  sub'.grace = sub.grace
<1>0. TypeOK /\ sub \in Subscriptions
  BY DEF TypeIInv, RefundTypeOK, TypeOK
<1>1. \A m \in Mandates : Enrolling(m) => UNCHANGED sub
  BY DEF Enrolling
<1>2. ASSUME NEW h \in Handlers, NEW m \in Mandates, Enrols(h, m) PROVE sub'.grace = sub.grace
  BY <1>0, <1>2 DEF Enrols, Attached, Readied, Expired, Subscriptions
<1>3. ASSUME NEW h \in Handlers, NEW c \in Cycles, Renews(h, c) PROVE FALSE
  <2>1. sub' = Renewed(c)
    BY <1>3, Zenon DEF Renews
  <2> QED BY <1>0, <2>1, RenewedMoves
<1>4. ASSUME NEW h \in Handlers, NEW c \in Cycles, NEW r \in Failures(c), NEW g \in Grace, Owes(h, c, r, g)
      PROVE  sub'.grace = sub.grace
  <2>1. PICK u \in Cycles \ cycles : /\ UnpaidCycle(c[1]) = {u} /\ OpensCase(u, g)
                                     /\ sub.bound = c[1] /\ c[1] \in Mandates
    BY <1>4, OwesMoves
  <2>2. recovery[u].open /\ recovery[u].grace = sub.grace
    BY <2>1 DEF GraceKept
  <2>3. sub'.grace = Deadline(u, g)
    BY <1>0, <2>1, OpensCaseMoves
  <2> QED BY <2>2, <2>3 DEF Deadline
<1>5. ASSUME NEW h \in Handlers, NEW m \in Mandates, Cancels(h, m) PROVE sub'.grace = sub.grace
  <2>1. UNCHANGED sub \/ Confirm(m)
    BY <1>5, CancelMoves, Zenon
  <2>2. ~Confirm(m)
    BY <1>0, ConfirmMoves
  <2> QED BY <2>1, <2>2
<1>6. ASSUME NEW h \in Handlers, NEW p \in Payments, Notes(h, p) PROVE sub'.grace = sub.grace
  <2>1. sub' = sub \/ sub'.grace = None
    BY <1>0, <1>6, ObserveMoves, Zenon DEF Notes, Records
  <2> QED BY <2>1
<1> QED BY <1>1, <1>2, <1>3, <1>4, <1>5, <1>6, PlanKinds

(* Access is reduced only while a cycle that was really charged in vain is  *)
(* unpaid here and its case open about the term that ended last; no case is *)
(* ever opened for another cycle.                                           *)
THEOREM DebtsAreHonest == ReversalSpec => []DebtIsHonest
<1> DEFINE IInv == TypeIInv /\ TermIInv /\ SentIInv /\ DebtIInv
<1>1. RefundInit => IInv
  BY InitialTypes, InitialTerms, InitialSent, InitialDebt
<1>2. IInv /\ [ReversalNext]_allVars => IInv'
  BY TypesStep, TermsStep, SentStep, DebtStep
<1>3. IInv => DebtIsHonest
  BY DEF TermIInv, DebtIInv, Reduced, DebtIsHonest, ReducedOnlyInDebt, Owing
<1> QED BY <1>1, <1>2, <1>3, PTL DEF ReversalSpec

(* A grace is never counted anew: whatever receipts of failures come late,  *)
(* twice or out of order, and whatever the setting becomes, the deadline of *)
(* a debt is the one its first receipt set.                                 *)
THEOREM GraceStays == ReversalSpec => GraceFixed
<1> DEFINE IInv == TypeIInv /\ TermIInv /\ SentIInv /\ DebtIInv
           Fixed == sub.grace # None /\ sub'.grace # None /\ sub'.due = sub.due => sub'.grace = sub.grace
<1>1. RefundInit => IInv
  BY InitialTypes, InitialTerms, InitialSent, InitialDebt
<1>2. IInv /\ [ReversalNext]_allVars => IInv'
  BY TypesStep, TermsStep, SentStep, DebtStep
<1>3. IInv /\ [ReversalNext]_allVars => [Fixed]_vars
  <2> SUFFICES ASSUME IInv, [ReversalNext]_allVars PROVE [Fixed]_vars
    OBVIOUS
  <2>1. CASE UNCHANGED allVars
    BY <2>1 DEF allVars
  <2>2. CASE Steps
    BY <2>2, DeadlineStays DEF DebtIInv
  <2> QED BY <2>1, <2>2, EveryStep
<1> HIDE DEF IInv, Fixed
<1>4. ReversalSpec => [][Fixed]_vars
  BY <1>1, <1>2, <1>3, PTL DEF ReversalSpec
<1> QED BY <1>4 DEF GraceFixed, Fixed
=============================================================================
