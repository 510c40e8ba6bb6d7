--------------------------- MODULE CheckoutSafety ---------------------------
(***************************************************************************)
(* What Checkout shows beyond IInv: a founder slot is promised once, the    *)
(* counters add up, a quote is dispatched to the provider once, and the     *)
(* reservations table, read as the promise made for each founder slot, only *)
(* ever takes the steps of FounderSlots.                                    *)
(***************************************************************************)
EXTENDS CheckoutProofs, FounderStatus, FiniteSetTheorems

(* Every step but the INSERT of a quote leaves positions, or clears them.   *)
PositionsOnlyCleared ==
  \A r \in Rids : rows'[r].position \in {rows[r].position, NoPosition}

(* Clearing positions creates no second owner.                              *)
LEMMA ClearingIsSafe ==
  ASSUME SlotsExclusive, PositionsOnlyCleared
  PROVE  SlotsExclusive'
BY DEF SlotsExclusive, PositionsOnlyCleared

(* Expiry clears positions.                                                 *)
LEMMA ExpiryClears ==
  ASSUME IInv, NEW t, NEW r \in Rids
  PROVE  Expired(t)[r].position \in {rows[r].position, NoPosition}
BY ExpiredFields DEF IInv

(* The unique constraint on founder_position decides the INSERT.            *)
LEMMA InsertIsExclusive ==
  ASSUME IInv, SlotsExclusive, NEW p \in Procs,
         NEW n \in Positions \cup {NoPosition}, InsertQuote(p, n)
  PROVE  SlotsExclusive'
<1>1. CASE UNCHANGED rows
  BY <1>1 DEF SlotsExclusive
<1>2. ASSUME n # NoPosition => \A r \in Rids : Expired(handler[p].at)[r].position # n,
             NEW r \in Rids,
             rows' = [Expired(handler[p].at) EXCEPT ![r] = Quote(handler[p], n)]
      PROVE  SlotsExclusive'
  <2> DEFINE old == Expired(handler[p].at)
             new == Quote(handler[p], n)
  <2>1. new.position = n
    BY DEF Quote, FreeRow
  <2>2. DOMAIN old = Rids
    BY DEF Expired
  <2>3. \A q \in Rids : old[q].position \in {rows[q].position, NoPosition}
    BY ExpiryClears
  <2> HIDE DEF old, new
  <2>4. rows' = [old EXCEPT ![r] = new]
    BY <1>2 DEF old, new
  <2>5. rows'[r].position = n /\ \A q \in Rids \ {r} : rows'[q] = old[q]
    BY <2>1, <2>2, <2>4
  <2>6. n # NoPosition => \A q \in Rids : old[q].position # n
    BY <1>2 DEF old
  <2> SUFFICES ASSUME NEW a \in Rids, NEW b \in Rids, a # b,
                      rows'[a].position # NoPosition,
                      rows'[a].position = rows'[b].position
               PROVE  FALSE
    BY DEF SlotsExclusive
  <2>7. CASE a = r \/ b = r
    BY <2>5, <2>6, <2>7
  <2>8. CASE a # r /\ b # r
    BY <2>3, <2>5, <2>8 DEF SlotsExclusive
  <2> QED
    BY <2>7, <2>8
<1> QED
  BY <1>1, <1>2 DEF InsertQuote

(* The steps of a handler keep slots exclusive.                             *)
LEMMA StepIsExclusive ==
  ASSUME IInv, SlotsExclusive, NEW p \in Procs, Step(p)
  PROVE  SlotsExclusive'
<1>1. CASE Reserve(p)
  <2>1. \/ UNCHANGED rows \/ rows' = Expired(handler[p].at)
        \/ InsertQuote(p, NoPosition)
    BY <1>1 DEF Reserve
  <2>2. CASE UNCHANGED rows
    BY <2>2 DEF SlotsExclusive
  <2>3. CASE rows' = Expired(handler[p].at)
    BY <2>3, ExpiryClears, ClearingIsSafe DEF PositionsOnlyCleared
  <2>4. CASE InsertQuote(p, NoPosition)
    BY <2>4, InsertIsExclusive
  <2> QED
    BY <2>1, <2>2, <2>3, <2>4
<1>2. CASE AllocateFounder(p)
  BY <1>2, LowestFreeType, InsertIsExclusive DEF AllocateFounder
<1>3. CASE ClaimDispatch(p) \/ RecordUncertain(p) \/ AttachOrder(p) \/ SettlePayment(p)
  <2>1. PICK r \in Rids : r = handler[p].rid
    BY <1>3, HandlerFacts DEF ClaimDispatch, RecordUncertain, AttachOrder, SettlePayment, Founding,
                              HandlerSound, Dispatched
  <2>2. rows \in [Rids -> Row] /\ rows[r] \in Row
    BY DEF IInv, TypeOK
  <2>3. \/ UNCHANGED rows
        \/ rows' = [rows EXCEPT ![r].orderState = "creating", ![r].startedAt = now]
        \/ rows' = [rows EXCEPT ![r].orderState = "uncertain"]
        \/ rows' = [rows EXCEPT ![r].orderState = "ready", ![r].order = handler[p].order]
        \/ rows' = [rows EXCEPT ![r].status = "verified", ![r].payment = handler[p].order,
                       ![r].starts = IF rows[r].starts = NoDate THEN now ELSE @]
    BY <1>3, <2>1 DEF ClaimDispatch, RecordUncertain, AttachOrder, SettlePayment, Founding
  <2>4. \A q \in Rids : rows'[q].position = rows[q].position
    BY <2>2, <2>3 DEF Row
  <2> QED
    BY <2>4, ClearingIsSafe DEF PositionsOnlyCleared
<1>4. CASE UNCHANGED rows
  BY <1>4 DEF SlotsExclusive
<1> QED
  BY <1>1, <1>2, <1>3, <1>4
  DEF Step, CreateOrder, VerifyPayment, SendPost, PostReply, LookUp, CallFails,
      FetchEvidence, Crash

(* A numbered founder slot belongs to at most one quote, however many       *)
(* customers, handlers and waves compete for it.                            *)
THEOREM SlotsStayExclusive == Spec => []SlotsExclusive
<1>1. Init => SlotsExclusive
  BY DEF Init, SlotsExclusive, FreeRow
<1>2. IInv /\ SlotsExclusive /\ [Next]_vars => SlotsExclusive'
  <2> SUFFICES ASSUME IInv, SlotsExclusive, [Next]_vars PROVE SlotsExclusive'
    OBVIOUS
  <2>1. CASE \E p \in Procs : Step(p)
    BY <2>1, StepIsExclusive
  <2>2. CASE \E r \in Rids : CancelReservation(r)
    <3>1. PICK r \in Rids : CancelReservation(r)
      BY <2>2
    <3>2. rows \in [Rids -> Row] /\ rows[r] \in Row
      BY DEF IInv, TypeOK
    <3>3. rows' = [rows EXCEPT ![r] = [[rows[r] EXCEPT !.status = "cancelled"]
                                         EXCEPT !.position = NoPosition]]
      BY <3>1, <3>2 DEF CancelReservation
    <3>4. PositionsOnlyCleared
      BY <3>2, <3>3 DEF PositionsOnlyCleared, Row
    <3> QED
      BY <3>4, ClearingIsSafe
  <2>3. CASE UNCHANGED rows
    BY <2>3 DEF SlotsExclusive
  <2> QED
    BY <2>1, <2>2, <2>3 DEF Next, ExecutePost, AttemptPayment, CapturePayment,
                            Administer, PassTime, checkoutVars, vars
<1> QED
  BY <1>1, <1>2, Invariant, PTL DEF Spec

-----------------------------------------------------------------------------
(* Slots of a wave and who has them.                                        *)
WaveSlots(w) == {n \in Positions : WaveForPosition(n) = w}
Bought(w) == {members[u].position : u \in Buyers(w)}
Promised(w, t) == {rows[r].position : r \in Holds(w, t)}

(* The wave of a slot is that of its offer.                                 *)
LEMMA WaveOfSlot == ASSUME NEW n \in Positions PROVE WaveOf[FounderOffer(n)] = WaveForPosition(n)
  BY DEF WaveOf, FounderOffer, WaveForPosition

(* The slots of a wave are an interval.                                     *)
LEMMA WaveSize ==
  ASSUME NEW w \in {1, 2}
  PROVE  IsFiniteSet(WaveSlots(w)) /\ Cardinality(WaveSlots(w)) = WaveCapacity[w] /\ WaveCapacity[w] \in Nat
<1>1. WaveSlots(w) = IF w = 1 THEN 1..Wave1 ELSE (Wave1 + 1)..(Wave1 + Wave2)
  BY CheckoutAssumption DEF WaveSlots, WaveForPosition, Positions, Capacity
<1>2. CASE w = 1
  BY <1>1, <1>2, FS_Interval, CheckoutAssumption DEF WaveCapacity
<1>3. CASE w = 2
  <2>1. IsFiniteSet((Wave1 + 1)..(Wave1 + Wave2))
        /\ Cardinality((Wave1 + 1)..(Wave1 + Wave2)) = Wave2
    BY FS_Interval, CheckoutAssumption
  <2> QED BY <1>1, <1>3, <2>1, CheckoutAssumption DEF WaveCapacity
<1> QED BY <1>2, <1>3

(* Buyers and holds of a wave have each a slot of it, and of nobody else.   *)
LEMMA SlotsOfWave ==
  ASSUME IInv, SlotsExclusive, NEW w \in {1, 2}, NEW t
  PROVE  /\ \A u \in Buyers(w) : members[u].position \in WaveSlots(w)
         /\ \A r \in Holds(w, t) : rows[r].position \in WaveSlots(w)
         /\ \A u, v \in Buyers(w) : members[u].position = members[v].position => u = v
         /\ \A r, q \in Holds(w, t) : rows[r].position = rows[q].position => r = q
         /\ \A u \in Buyers(w), r \in Holds(w, t) : members[u].position # rows[r].position
         /\ (ClaimedPositions \cup HeldPositions(t)) \cap WaveSlots(w) = Bought(w) \cup Promised(w, t)
<1>1. /\ \A u \in Users : members[u] # NoClaim =>
          /\ members[u].rid \in Rids /\ members[u].position \in Positions
          /\ rows[members[u].rid].user = u /\ rows[members[u].rid].status = "verified"
          /\ rows[members[u].rid].position = members[u].position
          /\ rows[members[u].rid].offer = members[u].offer
      /\ \A u \in Users : members[u] = NoClaim => members[u].position = NoPosition
  BY DEF IInv, TypeOK, Claim, NoClaim, MembersPaid
<1>2. \A r \in Rids : rows[r].position \in Positions \cup {NoPosition}
  BY DEF IInv, TypeOK, Row
<1>3. NoPosition \notin Positions
  BY DEF NoPosition, Positions
<1>4. \A r \in Rids : rows[r].status \in {"reserved", "verified"} =>
        IF rows[r].position = NoPosition THEN rows[r].offer \notin FounderOffers
        ELSE rows[r].offer = FounderOffer(rows[r].position)
  BY DEF IInv, RowsSound
<1>5. \A n \in Positions : FounderOffer(n) \in FounderOffers
  BY DEF FounderOffer, FounderOffers
<1>6. \A u \in Users : members[u] # NoClaim => WaveOf[members[u].offer] = WaveForPosition(members[u].position)
  BY <1>1, <1>3, <1>4, WaveOfSlot
<1>7. \A r \in Rids : Active(r, t) =>
        /\ rows[r].position = NoPosition <=> rows[r].offer \notin FounderOffers
        /\ rows[r].position # NoPosition => WaveOf[rows[r].offer] = WaveForPosition(rows[r].position)
  BY <1>2, <1>4, <1>5, WaveOfSlot DEF Active
<1>8. \A u \in Buyers(w) : members[u].position \in WaveSlots(w)
  BY <1>1, <1>6 DEF Buyers, WaveSlots
<1>9. \A r \in Holds(w, t) : rows[r].position \in WaveSlots(w)
  BY <1>2, <1>7 DEF Holds, WaveSlots
<1>10. \A u, v \in Buyers(w) : members[u].position = members[v].position => u = v
  BY <1>1, <1>3 DEF Buyers, SlotsExclusive
<1>11. \A r, q \in Holds(w, t) : rows[r].position = rows[q].position => r = q
  BY <1>7 DEF Holds, SlotsExclusive
<1>12. \A u \in Buyers(w), r \in Holds(w, t) : members[u].position # rows[r].position
  BY <1>1, <1>3 DEF Buyers, Holds, Active, SlotsExclusive
<1>13. (ClaimedPositions \cup HeldPositions(t)) \cap WaveSlots(w) \subseteq Bought(w) \cup Promised(w, t)
  <2>1. \A n \in ClaimedPositions \cap WaveSlots(w) : n \in Bought(w)
    BY <1>1, <1>6 DEF ClaimedPositions, WaveSlots, Bought, Buyers
  <2>2. \A n \in HeldPositions(t) \cap WaveSlots(w) : n \in Promised(w, t)
    BY <1>7 DEF HeldPositions, WaveSlots, Promised, Holds
  <2> QED BY <2>1, <2>2
<1>14. Bought(w) \cup Promised(w, t) \subseteq (ClaimedPositions \cup HeldPositions(t)) \cap WaveSlots(w)
  <2>1. Bought(w) \subseteq ClaimedPositions
    BY <1>1, <1>3 DEF Bought, Buyers, ClaimedPositions
  <2>2. Promised(w, t) \subseteq HeldPositions(t)
    BY <1>7 DEF Promised, Holds, HeldPositions
  <2> QED BY <1>8, <1>9, <2>1, <2>2 DEF Bought, Promised
<1> QED BY <1>8, <1>9, <1>10, <1>11, <1>12, <1>13, <1>14

(* A set whose members have each a value of their own is as large as the    *)
(* set of these values.                                                     *)
LEMMA AsManyAsValues ==
  ASSUME NEW S, NEW f \in [S -> Positions], NEW T, IsFiniteSet(T),
         T = {f[x] : x \in S}, \A x, y \in S : f[x] = f[y] => x = y
  PROVE  IsFiniteSet(S) /\ Cardinality(S) = Cardinality(T)
<1>1. ExistsBijection(T, S)
  <2> DEFINE g == [n \in T |-> CHOOSE x \in S : f[x] = n]
  <2>1. \A n \in T : g[n] \in S /\ f[g[n]] = n
    OBVIOUS
  <2>2. \A x \in S : f[x] \in T /\ g[f[x]] = x
    BY <2>1
  <2>3. g \in [T -> S]
    BY <2>1
  <2> HIDE DEF g
  <2>4. g \in Bijection(T, S)
    BY <2>1, <2>2, <2>3 DEF Bijection, Injection, Surjection, IsInjective
  <2> QED BY <2>4 DEF ExistsBijection
<1> QED BY <1>1, FS_Bijection

(* What is left of a wave is what an allocation could give out, as long as  *)
(* nothing moves between the counts.                                        *)
LEMMA FreeIsLeft ==
  ASSUME IInv, SlotsExclusive, NEW w \in {1, 2}, NEW t
  PROVE  /\ IsFiniteSet(Buyers(w))
         /\ Cardinality(Buyers(w)) \in Nat /\ Cardinality(Holds(w, t)) \in Nat
         /\ WaveCapacity[w] \in Nat /\ Cardinality(FreeSlots(w, t)) \in Nat
         /\ Cardinality(FreeSlots(w, t))
              = WaveCapacity[w] - Cardinality(Buyers(w)) - Cardinality(Holds(w, t))
<1>1. IsFiniteSet(WaveSlots(w)) /\ Cardinality(WaveSlots(w)) = WaveCapacity[w] /\ WaveCapacity[w] \in Nat
  BY WaveSize
<1>2. Bought(w) \subseteq WaveSlots(w) /\ Promised(w, t) \subseteq WaveSlots(w) /\ Bought(w) \cap Promised(w, t) = {}
  BY SlotsOfWave DEF Bought, Promised
<1>3. IsFiniteSet(Bought(w)) /\ IsFiniteSet(Promised(w, t))
  BY <1>1, <1>2, FS_Subset
<1>4. IsFiniteSet(Buyers(w)) /\ Cardinality(Buyers(w)) = Cardinality(Bought(w))
  <2> DEFINE f == [u \in Buyers(w) |-> members[u].position]
  <2>1. f \in [Buyers(w) -> Positions]
    BY SlotsOfWave DEF WaveSlots
  <2>2. Bought(w) = {f[u] : u \in Buyers(w)}
    BY DEF Bought
  <2>3. \A u, v \in Buyers(w) : f[u] = f[v] => u = v
    BY SlotsOfWave
  <2> HIDE DEF f
  <2> QED BY <1>3, <2>1, <2>2, <2>3, AsManyAsValues
<1>5. IsFiniteSet(Holds(w, t)) /\ Cardinality(Holds(w, t)) = Cardinality(Promised(w, t))
  <2> DEFINE f == [r \in Holds(w, t) |-> rows[r].position]
  <2>1. f \in [Holds(w, t) -> Positions]
    BY SlotsOfWave DEF WaveSlots
  <2>2. Promised(w, t) = {f[r] : r \in Holds(w, t)}
    BY DEF Promised
  <2>3. \A r, q \in Holds(w, t) : f[r] = f[q] => r = q
    BY SlotsOfWave
  <2> HIDE DEF f
  <2> QED BY <1>3, <2>1, <2>2, <2>3, AsManyAsValues
<1> DEFINE Gone == Bought(w) \cup Promised(w, t)
<1>6. IsFiniteSet(Gone) /\ Cardinality(Gone) = Cardinality(Bought(w)) + Cardinality(Promised(w, t))
  <2>1. Cardinality(Bought(w) \cap Promised(w, t)) = 0
    BY <1>2, FS_EmptySet
  <2>2. Cardinality(Bought(w)) \in Nat /\ Cardinality(Promised(w, t)) \in Nat
    BY <1>3, FS_CardinalityType
  <2>3. /\ IsFiniteSet(Gone)
        /\ Cardinality(Gone) = Cardinality(Bought(w)) + Cardinality(Promised(w, t))
                                  - Cardinality(Bought(w) \cap Promised(w, t))
    BY <1>3, FS_Union
  <2> QED BY <2>1, <2>2, <2>3
<1>7. FreeSlots(w, t) = WaveSlots(w) \ Gone
  BY SlotsOfWave DEF WaveSlots, FreeSlots
<1>8. /\ Cardinality(WaveSlots(w) \ Gone) = WaveCapacity[w] - Cardinality(Gone)
      /\ Cardinality(WaveSlots(w) \ Gone) \in Nat
  <2>1. WaveSlots(w) \cap Gone = Gone
    BY <1>2
  <2>2. /\ IsFiniteSet(WaveSlots(w) \ Gone)
        /\ Cardinality(WaveSlots(w) \ Gone) = Cardinality(WaveSlots(w)) - Cardinality(WaveSlots(w) \cap Gone)
    BY <1>1, FS_Difference
  <2> QED BY <1>1, <2>1, <2>2, FS_CardinalityType
<1>9. /\ Cardinality(Bought(w)) \in Nat /\ Cardinality(Promised(w, t)) \in Nat
  BY <1>3, FS_CardinalityType
<1> HIDE DEF Gone
<1> QED
  BY <1>1, <1>4, <1>5, <1>6, <1>7, <1>8, <1>9

(* No step takes a member's record away.                                    *)
LEMMA MembersStay ==
  ASSUME IInv, [Next]_vars, NEW u \in Users, members[u] # NoClaim
  PROVE  members'[u] = members[u]
<1>1. CASE \E p \in Procs : SettlePayment(p)
  <2>1. PICK p \in Procs : SettlePayment(p)
    BY <1>1
  <2>2. \/ UNCHANGED members
        \/ \E v, c : members[v] = NoClaim /\ members' = [members EXCEPT ![v] = c]
    BY <2>1 DEF SettlePayment
  <2> QED
    BY <2>2 DEF IInv, TypeOK
<1>2. CASE UNCHANGED members
  BY <1>2
<1> QED
  BY <1>1, <1>2
  DEF Next, Step, CreateOrder, VerifyPayment, Reserve, AllocateFounder, ClaimDispatch,
      SendPost, PostReply, LookUp, CallFails, RecordUncertain, AttachOrder,
      FetchEvidence, Crash, CancelReservation, ExecutePost, AttemptPayment,
      CapturePayment, Administer, PassTime, checkoutVars, vars

(* The members of a wave can be counted.                                    *)
WavesCount == \A w \in {1, 2} : IsFiniteSet(Buyers(w)) /\ Cardinality(Buyers(w)) \in Nat

(* What the page remembers: who was counted as a member of a wave still is. *)
PageType == [at : Int, step : 0..4, counts : [{1, 2} -> [claimed : Nat, held : Nat]]]
PageSound ==
  /\ page \in PageType
  /\ \A w \in {1, 2} : page.step >= 2 * w - 1 =>
       page.counts[w].claimed <= Cardinality(Buyers(w))

(* A wave gains members and loses none.                                     *)
LEMMA WaveGrows ==
  ASSUME IInv, [Next]_vars, WavesCount', NEW w \in {1, 2}
  PROVE  Cardinality(Buyers(w)) <= Cardinality(Buyers(w)')
<1>1. Buyers(w) \subseteq Buyers(w)'
  BY MembersStay DEF Buyers
<1>2. IsFiniteSet(Buyers(w)')
  BY DEF WavesCount
<1> QED
  BY <1>1, <1>2, FS_Subset

(* A count of the page fills in one number of one wave.                     *)
LEMMA CountFills ==
  ASSUME IInv, SlotsExclusive, PageSound, CountNext
  PROVE  \E s \in 0..3, w \in {1, 2} :
           /\ page.step = s /\ page'.step = s + 1 /\ page'.at = page.at
           /\ page' \in PageType
           /\ page'.counts[3 - w] = page.counts[3 - w]
           /\ IF s = 2 * w - 2
              THEN page'.counts[w] = [page.counts[w] EXCEPT !.claimed = Cardinality(Buyers(w))]
              ELSE /\ s = 2 * w - 1
                   /\ page'.counts[w] = [page.counts[w] EXCEPT !.held = Cardinality(Holds(w, page.at))]
<1>1. PICK s \in 0..3 : page.step = s
  BY DEF CountNext, PageSound, PageType
<1>2. PICK w \in {1, 2} : w = IF s <= 1 THEN 1 ELSE 2
  OBVIOUS
<1>3. (s \div 2) + 1 = w /\ Statements[(s % 2) + 1] = IF s \in {0, 2} THEN "claimed" ELSE "held"
  <2>1. CASE s = 0
    BY <1>2, <2>1 DEF Statements
  <2>2. CASE s = 1
    BY <1>2, <2>2 DEF Statements
  <2>3. CASE s = 2
    BY <1>2, <2>3 DEF Statements
  <2>4. CASE s = 3
    BY <1>2, <2>4 DEF Statements
  <2> QED BY <2>1, <2>2, <2>3, <2>4
<1>4. Cardinality(Buyers(w)) \in Nat /\ Cardinality(Holds(w, page.at)) \in Nat
  BY FreeIsLeft
<1>5. /\ page \in PageType /\ page.counts \in [{1, 2} -> [claimed : Nat, held : Nat]]
      /\ page.counts[w] \in [claimed : Nat, held : Nat]
  BY DEF PageSound, PageType
<1>6. ASSUME NEW row \in [claimed : Nat, held : Nat],
             page' = [page EXCEPT !.step = s + 1, !.counts[w] = row]
      PROVE  /\ page'.step = s + 1 /\ page'.at = page.at /\ page' \in PageType
             /\ page'.counts[3 - w] = page.counts[3 - w] /\ page'.counts[w] = row
  <2> DEFINE filled == [page.counts EXCEPT ![w] = row]
  <2>1. page' = [[page EXCEPT !.step = s + 1] EXCEPT !.counts = filled]
    BY <1>5, <1>6 DEF PageType
  <2>2. filled \in [{1, 2} -> [claimed : Nat, held : Nat]]
    BY <1>5
  <2>3. filled[3 - w] = page.counts[3 - w] /\ filled[w] = row
    BY <1>5
  <2> HIDE DEF filled
  <2>4. page' = [at |-> page.at, step |-> s + 1, counts |-> filled]
    BY <1>5, <2>1 DEF PageType
  <2>5. page.at \in Int /\ s + 1 \in 0..4
    BY <1>5 DEF PageType
  <2>6. page' \in PageType
    BY <2>2, <2>4, <2>5 DEF PageType
  <2> QED
    BY <2>3, <2>4, <2>6
<1>7. CASE s \in {0, 2}
  <2> DEFINE row == [page.counts[w] EXCEPT !.claimed = Cardinality(Buyers(w))]
  <2>1. page' = [page EXCEPT !.step = s + 1, !.counts[w]["claimed"] = Cardinality(Buyers(w))]
    BY <1>1, <1>3, <1>7 DEF CountNext
  <2>2. page' = [page EXCEPT !.step = s + 1, !.counts[w] = row]
    BY <1>5, <2>1 DEF PageType
  <2>3. row \in [claimed : Nat, held : Nat]
    BY <1>4, <1>5
  <2>4. s = 2 * w - 2
    BY <1>2, <1>7
  <2> HIDE DEF row
  <2>5. /\ page'.step = s + 1 /\ page'.at = page.at /\ page' \in PageType
        /\ page'.counts[3 - w] = page.counts[3 - w] /\ page'.counts[w] = row
    BY <1>6, <2>2, <2>3
  <2> QED
    BY <1>1, <2>4, <2>5 DEF row
<1>8. CASE s \in {1, 3}
  <2> DEFINE row == [page.counts[w] EXCEPT !.held = Cardinality(Holds(w, page.at))]
  <2>1. Statements[(s % 2) + 1] = "held" /\ "held" # "claimed"
    BY <1>3, <1>8
  <2>2. page' = [page EXCEPT !.step = s + 1, !.counts[w]["held"] = Cardinality(Holds(w, page.at))]
    BY <1>1, <1>3, <2>1 DEF CountNext
  <2>3. page' = [page EXCEPT !.step = s + 1, !.counts[w] = row]
    BY <1>5, <2>2 DEF PageType
  <2>4. row \in [claimed : Nat, held : Nat]
    BY <1>4, <1>5
  <2>5. s = 2 * w - 1 /\ s # 2 * w - 2
    BY <1>2, <1>8
  <2> HIDE DEF row
  <2>6. /\ page'.step = s + 1 /\ page'.at = page.at /\ page' \in PageType
        /\ page'.counts[3 - w] = page.counts[3 - w] /\ page'.counts[w] = row
    BY <1>6, <2>3, <2>4
  <2> QED
    BY <1>1, <2>5, <2>6 DEF row
<1> QED
  BY <1>7, <1>8

(* Checkout and the page together keep what the page remembers true.        *)
LEMMA PageKeeps ==
  ASSUME IInv, SlotsExclusive, WavesCount', PageSound, [PageNext]_<<vars, page>>
  PROVE  PageSound'
<1>1. CASE CountNext /\ UNCHANGED vars
  <2>1. \A w \in {1, 2} : Buyers(w)' = Buyers(w) /\ Cardinality(Buyers(w)) \in Nat
    BY <1>1, FreeIsLeft DEF vars, Buyers
  <2>2. PICK s \in 0..3, w \in {1, 2} :
           /\ page.step = s /\ page'.step = s + 1
           /\ page' \in PageType
           /\ page'.counts[3 - w] = page.counts[3 - w]
           /\ IF s = 2 * w - 2
              THEN page'.counts[w] = [page.counts[w] EXCEPT !.claimed = Cardinality(Buyers(w))]
              ELSE /\ s = 2 * w - 1
                   /\ page'.counts[w] = [page.counts[w] EXCEPT !.held = Cardinality(Holds(w, page.at))]
    BY <1>1, CountFills
  <2>3. page.counts[w] \in [claimed : Nat, held : Nat]
    BY DEF PageSound, PageType
  <2>4. page'.step >= 2 * w - 1 => page'.counts[w].claimed <= Cardinality(Buyers(w))
    BY <2>1, <2>2, <2>3 DEF PageSound
  <2>5. page'.step >= 2 * (3 - w) - 1 => page'.counts[3 - w].claimed <= Cardinality(Buyers(3 - w))
    <3>1. 3 - w \in {1, 2}
      OBVIOUS
    <3>2. s + 1 >= 2 * (3 - w) - 1 => s >= 2 * (3 - w) - 1
      BY <2>2
    <3> QED BY <2>2, <3>1, <3>2 DEF PageSound
  <2>6. \A v \in {1, 2} : v = w \/ v = 3 - w
    OBVIOUS
  <2> QED
    BY <2>1, <2>2, <2>4, <2>5, <2>6 DEF PageSound
<1>2. CASE (OpenPage \/ Reply) /\ UNCHANGED vars
  <2>1. now \in Int
    BY CampaignAssumption DEF IInv, TypeOK, CampaignTypeOK
  <2>2. page' = NoPage \/ page' = [NoPage EXCEPT !.at = now]
    BY <1>2 DEF OpenPage, Reply
  <2>3. page' \in PageType /\ page'.step = 0
    BY <2>1, <2>2 DEF NoPage, NoDate, PageType
  <2> QED
    BY <2>3 DEF PageSound
<1>3. CASE [Next]_vars /\ UNCHANGED page
  <2> SUFFICES ASSUME NEW w \in {1, 2}, page.step >= 2 * w - 1
               PROVE  page.counts[w].claimed <= Cardinality(Buyers(w)')
    BY <1>3 DEF PageSound
  <2>1. page.counts[w].claimed \in Nat /\ page.counts[w].claimed <= Cardinality(Buyers(w))
    BY DEF PageSound, PageType
  <2>2. Cardinality(Buyers(w)) <= Cardinality(Buyers(w)')
    BY <1>3, WaveGrows
  <2>3. Cardinality(Buyers(w)) \in Nat /\ Cardinality(Buyers(w)') \in Nat
    BY FreeIsLeft DEF WavesCount
  <2> QED
    BY <2>1, <2>2, <2>3
<1> QED
  BY <1>1, <1>2, <1>3 DEF PageNext

(* The second count of a wave.                                              *)
LEMMA CountIsHonest ==
  ASSUME IInv, SlotsExclusive, PageSound, [PageNext]_<<vars, page>>,
         NEW w \in {1, 2}, ~Counted(w), Counted(w)'
  PROVE  LET sold == Cardinality(Buyers(w)) - page.counts[w].claimed
         IN sold' >= 0 /\ Available(w)' = Cardinality(FreeSlots(w, page.at)') + sold'
<1>1. CountNext /\ UNCHANGED vars
  <2>1. page.step \in 0..4 /\ ~(page.step >= 2 * w) /\ page'.step >= 2 * w
    BY DEF Counted, PageSound, PageType
  <2>2. page' # page /\ ~OpenPage /\ ~Reply
    BY <2>1 DEF OpenPage, Reply, NoPage
  <2> QED
    BY <2>2 DEF PageNext
<1>2. PICK s \in 0..3, v \in {1, 2} :
         /\ page.step = s /\ page'.step = s + 1 /\ page'.at = page.at
         /\ IF s = 2 * v - 2 THEN TRUE
            ELSE /\ s = 2 * v - 1
                 /\ page'.counts[v] = [page.counts[v] EXCEPT !.held = Cardinality(Holds(v, page.at))]
  BY <1>1, CountFills
<1>3. s = 2 * w - 1 /\ v = w
  BY <1>2 DEF Counted
<1>4. page.counts[w] \in [claimed : Nat, held : Nat] /\ page.counts[w].claimed <= Cardinality(Buyers(w))
  BY <1>2, <1>3 DEF PageSound, PageType
<1>5. /\ page'.counts[w].claimed = page.counts[w].claimed
      /\ page'.counts[w].held = Cardinality(Holds(w, page.at))
  BY <1>2, <1>3, <1>4
<1>6. /\ Buyers(w)' = Buyers(w)
      /\ FreeSlots(w, page.at)' = FreeSlots(w, page.at)
  <2>1. UNCHANGED <<members, rows>> /\ page'.at = page.at
    BY <1>1, <1>2 DEF vars
  <2>2. Buyers(w)' = Buyers(w) /\ ClaimedPositions' = ClaimedPositions
    BY <2>1 DEF Buyers, ClaimedPositions
  <2>3. HeldPositions(page.at)' = HeldPositions(page.at)
    BY <2>1 DEF HeldPositions, Active, Started
  <2> QED
    BY <2>2, <2>3 DEF FreeSlots
<1>7. /\ Cardinality(Buyers(w)) \in Nat /\ Cardinality(Holds(w, page.at)) \in Nat
      /\ WaveCapacity[w] \in Nat /\ Cardinality(FreeSlots(w, page.at)) \in Nat
      /\ Cardinality(FreeSlots(w, page.at))
           = WaveCapacity[w] - Cardinality(Buyers(w)) - Cardinality(Holds(w, page.at))
  BY FreeIsLeft
<1>8. Available(w)' = LET left == WaveCapacity[w] - page.counts[w].claimed - Cardinality(Holds(w, page.at))
                      IN IF left > 0 THEN left ELSE 0
  BY <1>5 DEF Available, WaveCapacity
<1> QED
  BY <1>4, <1>5, <1>6, <1>7, <1>8

(* The scarcity shown to customers is real up to what is sold between two   *)
(* counts of a wave, at any size of the waves (_wave_counts).               *)
THEOREM CountersAreReal == PageSpec => CountersHonest
<1>1. PageSpec => Spec
  <2>1. PageInit => Init
    BY DEF PageInit
  <2>2. [PageNext]_<<vars, page>> => [Next]_vars
    BY DEF PageNext
  <2> QED
    BY <2>1, <2>2, PTL DEF PageSpec, Spec
<1>2. PageInit => PageSound
  <2> SUFFICES ASSUME PageInit PROVE PageSound
    OBVIOUS
  <2>1. page \in PageType /\ page.step = 0
    BY DEF PageInit, NoPage, NoDate, PageType
  <2> QED
    BY <2>1 DEF PageSound
<1>3. IInv /\ SlotsExclusive => WavesCount
  BY FreeIsLeft DEF WavesCount
<1>4. IInv /\ SlotsExclusive /\ WavesCount' /\ PageSound /\ [PageNext]_<<vars, page>> => PageSound'
  BY PageKeeps
<1>5. IInv /\ SlotsExclusive /\ PageSound /\ [PageNext]_<<vars, page>>
        => \A w \in {1, 2} : ~Counted(w) /\ Counted(w)' =>
             LET sold == Cardinality(Buyers(w)) - page.counts[w].claimed
             IN sold' >= 0 /\ Available(w)' = Cardinality(FreeSlots(w, page.at)') + sold'
  BY CountIsHonest
<1> QED
  BY <1>1, <1>2, <1>3, <1>4, <1>5, Invariant, SlotsStayExclusive, PTL DEF PageSpec, CountersHonest

-----------------------------------------------------------------------------
(* A quote's dispatch is in one place: a handler about to POST, a request   *)
(* in flight, or an order at the provider.                                  *)
DispatchUnique ==
  /\ \A p, q \in Procs :
       handler[p].pc = "post" /\ handler[q].pc = "post" /\ handler[p].rid = handler[q].rid
         => p = q
  /\ \A p \in Procs : handler[p].pc = "post" =>
       /\ \A x \in inflight : x[2] # handler[p].rid
       /\ \A o \in OrderIds : orders[o].receipt # handler[p].rid
  /\ \A x, y \in inflight : x[2] = y[2] => x = y
  /\ \A x \in inflight, o \in OrderIds : orders[o].receipt # x[2]
  /\ \A a, b \in OrderIds : orders[a].receipt # None /\ orders[a].receipt = orders[b].receipt
                              => a = b

(* One place at most means at most one request or order.                    *)
LEMMA UniqueIsSingle ==
  ASSUME DispatchUnique, None \notin Rids
  PROVE  SingleDispatch
<1> SUFFICES ASSUME NEW r \in Rids
             PROVE  Cardinality({x \in inflight : x[2] = r})
                      + Cardinality({o \in OrderIds : orders[o].receipt = r}) <= 1
  BY DEF SingleDispatch
<1> DEFINE X == {x \in inflight : x[2] = r}
           O == {o \in OrderIds : orders[o].receipt = r}
<1>1. X = {} \/ O = {}
  BY DEF DispatchUnique
<1>2. X = {} \/ \E x : X = {x}
  <2>1. \A x, y \in X : x = y
    BY DEF DispatchUnique
  <2> HIDE DEF X
  <2> QED
    BY <2>1
<1>3. O = {} \/ \E o : O = {o}
  <2>1. \A a, b \in O : a = b
    BY DEF DispatchUnique
  <2> HIDE DEF O
  <2> QED
    BY <2>1
<1> HIDE DEF X, O
<1>4. Cardinality(X) \in {0, 1} /\ (X = {} => Cardinality(X) = 0)
  BY <1>2, FS_EmptySet, FS_Singleton
<1>5. Cardinality(O) \in {0, 1} /\ (O = {} => Cardinality(O) = 0)
  BY <1>3, FS_EmptySet, FS_Singleton
<1>6. Cardinality(X) + Cardinality(O) <= 1
  BY <1>1, <1>4, <1>5
<1> QED
  BY <1>6 DEF X, O

(* A step that sends nothing and puts no handler about to send.             *)
LEMMA QuietStep ==
  ASSUME DispatchUnique,
         \A p \in Procs : handler'[p].pc = "post" => handler'[p] = handler[p],
         inflight' = inflight,
         \A o \in OrderIds : orders'[o].receipt = orders[o].receipt
  PROVE  DispatchUnique'
<1>1. \A p, q \in Procs :
        handler'[p].pc = "post" /\ handler'[q].pc = "post"
          /\ handler'[p].rid = handler'[q].rid => p = q
  BY DEF DispatchUnique
<1>2. \A p \in Procs : handler'[p].pc = "post" =>
        /\ \A x \in inflight : x[2] # handler'[p].rid
        /\ \A o \in OrderIds : orders'[o].receipt # handler'[p].rid
  BY DEF DispatchUnique
<1>3. \A x \in inflight, o \in OrderIds : orders'[o].receipt # x[2]
  BY DEF DispatchUnique
<1>4. \A a, b \in OrderIds :
        orders'[a].receipt # None /\ orders'[a].receipt = orders'[b].receipt => a = b
  BY DEF DispatchUnique
<1> QED
  BY <1>1, <1>2, <1>3, <1>4 DEF DispatchUnique

(* The compare-and-set lets one handler through, once.                      *)
LEMMA ClaimIsUnique ==
  ASSUME IInv, DispatchUnique, NEW p \in Procs, NEW r \in Rids, ~Started(r),
         handler' = [handler EXCEPT ![p] = [handler[p] EXCEPT !.pc = "post"]],
         handler[p].rid = r,
         UNCHANGED <<inflight, orders>>
  PROVE  DispatchUnique'
<1>1. handler[p] \in Handler /\ handler \in [Procs -> Handler]
  BY DEF IInv, TypeOK
<1>2. /\ handler'[p].pc = "post" /\ handler'[p].rid = r
      /\ \A q \in Procs \ {p} : handler'[q] = handler[q]
  BY <1>1 DEF Handler
<1>3. \A q \in Procs : handler[q].pc = "post" => handler[q].rid # r
  BY HandlerFacts DEF HandlerSound, Dispatched
<1>4. \A x \in inflight : x[2] # r
  BY DEF IInv, OrdersSound
<1>5. \A o \in OrderIds : orders[o].receipt # r
  BY CheckoutAssumption DEF IInv, OrdersSound, NoOrder
<1> QED
  BY <1>2, <1>3, <1>4, <1>5 DEF DispatchUnique

(* Sending moves the dispatch from the handler to the wire.                 *)
LEMMA SendIsUnique ==
  ASSUME IInv, DispatchUnique, NEW p \in Procs, SendPost(p)
  PROVE  DispatchUnique'
<1>1. handler[p] \in Handler /\ handler \in [Procs -> Handler] /\ handler[p].pc = "post"
  BY DEF IInv, TypeOK, SendPost
<1>2. PICK x : /\ x[2] = handler[p].rid /\ inflight' = inflight \cup {x}
               /\ orders' = orders
  BY DEF SendPost
<1>3. handler'[p].pc = "await" /\ \A q \in Procs \ {p} : handler'[q] = handler[q]
  BY <1>1 DEF SendPost, Goto, Handler
<1>4. \A a, b \in Procs :
        handler'[a].pc = "post" /\ handler'[b].pc = "post"
          /\ handler'[a].rid = handler'[b].rid => a = b
  BY <1>3 DEF DispatchUnique
<1>5. \A q \in Procs : handler'[q].pc = "post" =>
        /\ \A y \in inflight' : y[2] # handler'[q].rid
        /\ \A o \in OrderIds : orders'[o].receipt # handler'[q].rid
  <2> SUFFICES ASSUME NEW q \in Procs, handler'[q].pc = "post"
               PROVE  /\ \A y \in inflight' : y[2] # handler'[q].rid
                      /\ \A o \in OrderIds : orders'[o].receipt # handler'[q].rid
    OBVIOUS
  <2>1. q # p /\ handler'[q] = handler[q]
    BY <1>3
  <2>2. handler[q].rid # handler[p].rid
    BY <1>1, <2>1 DEF DispatchUnique
  <2> QED
    BY <1>2, <2>1, <2>2 DEF DispatchUnique
<1>6. \A y, z \in inflight' : y[2] = z[2] => y = z
  BY <1>1, <1>2 DEF DispatchUnique
<1>7. \A y \in inflight', o \in OrderIds : orders'[o].receipt # y[2]
  BY <1>1, <1>2 DEF DispatchUnique
<1> QED
  BY <1>2, <1>4, <1>5, <1>6, <1>7 DEF DispatchUnique

(* Executing moves it from the wire to the provider's orders.               *)
LEMMA ExecuteIsUnique ==
  ASSUME IInv, DispatchUnique, NEW x \in inflight, NEW o \in OrderIds, ExecutePost(x, o)
  PROVE  DispatchUnique'
<1>1. /\ orders \in [OrderIds -> Order] /\ x[2] \in Rids
      /\ inflight' = inflight \ {x} /\ handler' = handler
  BY DEF ExecutePost, IInv, TypeOK
<1>2. orders'[o].receipt = x[2] /\ \A a \in OrderIds \ {o} : orders'[a] = orders[a]
  BY <1>1 DEF ExecutePost
<1> QED
  BY <1>1, <1>2, CheckoutAssumption DEF DispatchUnique

(* The steps of a handler keep a dispatch in one place.                     *)
LEMMA StepIsUnique ==
  ASSUME IInv, DispatchUnique, NEW p \in Procs, Step(p)
  PROVE  DispatchUnique'
<1>0. handler \in [Procs -> Handler] /\ handler[p] \in Handler
  BY DEF IInv, TypeOK
<1>1. ASSUME NEW h, Goto(p, h), h.pc # "post", UNCHANGED <<inflight, orders>>
      PROVE  DispatchUnique'
  <2>1. \A q \in Procs : handler'[q] = IF q = p THEN h ELSE handler[q]
    BY <1>0, <1>1 DEF Goto
  <2> QED
    BY <1>1, <2>1, QuietStep
<1>2. ASSUME Done(p), UNCHANGED <<inflight, orders>> PROVE DispatchUnique'
  <2>1. Idle.pc # "post"
    BY DEF Idle
  <2> QED
    BY <1>1, <1>2, <2>1 DEF Done
<1>3. CASE ClaimDispatch(p)
  <2>1. CASE /\ ~Started(handler[p].rid)
             /\ Goto(p, [handler[p] EXCEPT !.pc = "post"])
    <3>1. handler[p].rid \in Rids
      BY <1>3, HandlerFacts DEF ClaimDispatch, HandlerSound
    <3> QED
      BY <1>3, <2>1, <3>1, ClaimIsUnique DEF ClaimDispatch, Goto
  <2>2. CASE Done(p)
    BY <1>2, <1>3, <2>2 DEF ClaimDispatch
  <2>3. CASE \E o : Goto(p, [handler[p] EXCEPT !.pc = "lookup", !.order = o])
    <3>1. PICK o : Goto(p, [handler[p] EXCEPT !.pc = "lookup", !.order = o])
      BY <2>3
    <3>2. [handler[p] EXCEPT !.pc = "lookup", !.order = o].pc # "post"
      BY <1>0 DEF Handler
    <3> QED
      BY <1>1, <1>3, <3>1, <3>2 DEF ClaimDispatch
  <2> QED
    BY <1>3, <2>1, <2>2, <2>3 DEF ClaimDispatch
<1>4. CASE SendPost(p)
  BY <1>4, SendIsUnique
<1>5. CASE AllocateFounder(p) \/ Reserve(p)
  <2>1. /\ UNCHANGED <<inflight, orders>>
        /\ \/ Done(p)
           \/ \E r \in Rids : Goto(p, [Idle EXCEPT !.pc = "claim", !.rid = r])
           \/ Goto(p, [handler[p] EXCEPT !.pc = "held", !.claimed = ClaimedPositions])
    BY <1>5 DEF AllocateFounder, Reserve, InsertQuote
  <2>2. \A r : [Idle EXCEPT !.pc = "claim", !.rid = r].pc # "post"
    BY DEF Idle
  <2>3. [handler[p] EXCEPT !.pc = "held", !.claimed = ClaimedPositions].pc # "post"
    BY <1>0 DEF Handler
  <2> QED
    BY <1>1, <1>2, <2>1, <2>2, <2>3
<1>6. CASE \E u \in Users, product \in Products : CreateOrder(p, u, product)
  <2>1. PICK u, product : Goto(p, [Idle EXCEPT !.pc = "reserve", !.user = u,
                                               !.product = product, !.at = now])
    BY <1>6 DEF CreateOrder
  <2>2. [Idle EXCEPT !.pc = "reserve", !.user = u, !.product = product, !.at = now].pc # "post"
    BY DEF Idle
  <2> QED
    BY <1>1, <1>6, <2>1, <2>2 DEF CreateOrder
<1>7. CASE \E r \in Rids : VerifyPayment(p, r)
  <2>1. PICK r, o : Goto(p, [Idle EXCEPT !.pc = "evidence", !.rid = r, !.order = o])
    BY <1>7 DEF VerifyPayment
  <2>2. [Idle EXCEPT !.pc = "evidence", !.rid = r, !.order = o].pc # "post"
    BY DEF Idle
  <2> QED
    BY <1>1, <1>7, <2>1, <2>2 DEF VerifyPayment
<1>8. CASE \E o \in OrderIds : PostReply(p, o)
  <2>0. PICK o \in OrderIds : PostReply(p, o)
    BY <1>8
  <2>1. PICK pc \in {"attach", "unresolved"} :
          Goto(p, [handler[p] EXCEPT !.pc = pc, !.order = o, !.seen = "created"])
    BY <2>0 DEF PostReply
  <2>2. [handler[p] EXCEPT !.pc = pc, !.order = o, !.seen = "created"].pc # "post"
    BY <1>0, <2>1 DEF Handler
  <2> QED
    BY <1>1, <1>8, <2>1, <2>2 DEF PostReply
<1>9. CASE LookUp(p) \/ CallFails(p) \/ FetchEvidence(p)
  <2>1. /\ UNCHANGED <<inflight, orders>>
        /\ \/ Done(p)
           \/ \E o, s : Goto(p, [handler[p] EXCEPT !.pc = "attach", !.order = o, !.seen = s])
           \/ Goto(p, [handler[p] EXCEPT !.pc = "unresolved"])
           \/ Goto(p, [handler[p] EXCEPT !.pc = "settle", !.seen = "paid"])
    BY <1>9 DEF LookUp, CallFails, FetchEvidence
  <2>2. \A o, s : [handler[p] EXCEPT !.pc = "attach", !.order = o, !.seen = s].pc # "post"
    BY <1>0 DEF Handler
  <2>3. /\ [handler[p] EXCEPT !.pc = "unresolved"].pc # "post"
        /\ [handler[p] EXCEPT !.pc = "settle", !.seen = "paid"].pc # "post"
    BY <1>0 DEF Handler
  <2> QED
    BY <1>1, <1>2, <2>1, <2>2, <2>3
<1>10. CASE RecordUncertain(p) \/ AttachOrder(p) \/ SettlePayment(p) \/ Crash(p)
  BY <1>2, <1>10 DEF RecordUncertain, AttachOrder, SettlePayment, Founding, Crash
<1> QED
  BY <1>3, <1>4, <1>5, <1>6, <1>7, <1>8, <1>9, <1>10 DEF Step

(* At most one order.create request or order ever exists for a quote,       *)
(* through crashes, timeouts, late execution and retries.                   *)
THEOREM DispatchedOnce == Spec => []SingleDispatch
<1>1. Init => DispatchUnique
  BY DEF Init, DispatchUnique, Idle, NoOrder
<1>2. IInv /\ DispatchUnique /\ [Next]_vars => DispatchUnique'
  <2> SUFFICES ASSUME IInv, DispatchUnique, [Next]_vars PROVE DispatchUnique'
    OBVIOUS
  <2>1. CASE \E p \in Procs : Step(p)
    BY <2>1, StepIsUnique
  <2>2. CASE \E x \in inflight, o \in OrderIds : ExecutePost(x, o)
    BY <2>2, ExecuteIsUnique
  <2>3. CASE \E o \in OrderIds : AttemptPayment(o) \/ CapturePayment(o)
    <3>1. PICK o \in OrderIds, s \in {"attempted", "paid"} :
            orders' = [orders EXCEPT ![o].status = s] /\ UNCHANGED <<handler, inflight>>
      BY <2>3 DEF AttemptPayment, CapturePayment
    <3>2. orders \in [OrderIds -> Order] /\ orders[o] \in Order
      BY DEF IInv, TypeOK
    <3>3. \A a \in OrderIds : orders'[a].receipt = orders[a].receipt
      BY <3>1, <3>2 DEF Order
    <3> QED
      BY <3>1, <3>3, QuietStep
  <2>4. CASE UNCHANGED <<handler, inflight, orders>>
    BY <2>4, QuietStep
  <2>5. CASE \E r \in Rids : CancelReservation(r)
    BY <2>4, <2>5 DEF CancelReservation
  <2>6. CASE Administer \/ PassTime \/ UNCHANGED vars
    BY <2>4, <2>6 DEF Administer, PassTime, checkoutVars, vars
  <2> QED
    BY <2>1, <2>2, <2>3, <2>5, <2>6 DEF Next
<1>3. DispatchUnique => SingleDispatch
  BY UniqueIsSingle, CheckoutAssumption
<1> QED
  BY <1>1, <1>2, <1>3, Invariant, PTL DEF Spec

-----------------------------------------------------------------------------
(* Checkout implements FounderSlots.  What the holder of a slot makes of it. *)
View(r) == [owner |-> rows[r].user,
            stage |-> IF rows[r].status = "verified" THEN "sold"
                      ELSE IF Started(r) THEN "ordered" ELSE "held"]

(* A slot is read off its only holder, or it is free.                       *)
LEMMA SlotView ==
  ASSUME SlotsExclusive, NEW n \in Positions
  PROVE  /\ \A r \in Rids : rows[r].position = n => SlotOf(n) = View(r)
         /\ (\A r \in Rids : rows[r].position # n) => SlotOf(n) = Slots!Free
<1>1. n # NoPosition
  BY CheckoutAssumption DEF Positions, Capacity, NoPosition
<1>2. ASSUME NEW r \in Rids, rows[r].position = n PROVE SlotOf(n) = View(r)
  <2>1. {q \in Rids : rows[q].position = n} = {r}
    BY <1>1, <1>2 DEF SlotsExclusive
  <2> QED
    BY <2>1 DEF SlotOf, View
<1>3. ASSUME \A r \in Rids : rows[r].position # n PROVE SlotOf(n) = Slots!Free
  <2>1. {q \in Rids : rows[q].position = n} = {}
    BY <1>3
  <2> QED
    BY <2>1 DEF SlotOf, Slots!Free
<1> QED
  BY <1>2, <1>3

(* The same in the next state.                                              *)
LEMMA SlotViewNext ==
  ASSUME SlotsExclusive', NEW n \in Positions
  PROVE  /\ \A r \in Rids : rows'[r].position = n => SlotOf(n)' = View(r)'
         /\ (\A r \in Rids : rows'[r].position # n) => SlotOf(n)' = Slots!Free
<1>1. n # NoPosition
  BY CheckoutAssumption DEF Positions, Capacity, NoPosition
<1>2. ASSUME NEW r \in Rids, rows'[r].position = n PROVE SlotOf(n)' = View(r)'
  <2>1. {q \in Rids : rows'[q].position = n} = {r}
    BY <1>1, <1>2 DEF SlotsExclusive
  <2> QED
    BY <2>1 DEF SlotOf, View
<1>3. ASSUME \A r \in Rids : rows'[r].position # n PROVE SlotOf(n)' = Slots!Free
  <2>1. {q \in Rids : rows'[q].position = n} = {}
    BY <1>3
  <2> QED
    BY <2>1 DEF SlotOf, Slots!Free
<1> QED
  BY <1>2, <1>3

(* A step that keeps every position and its view is a stutter.              *)
LEMMA SlotStutter ==
  ASSUME SlotsExclusive, SlotsExclusive',
         \A r \in Rids : /\ rows'[r].position = rows[r].position
                         /\ rows[r].position # NoPosition => View(r)' = View(r)
  PROVE  UNCHANGED slot
<1> SUFFICES ASSUME NEW n \in Positions PROVE SlotOf(n)' = SlotOf(n)
  BY DEF slot
<1>1. CASE \E r \in Rids : rows[r].position = n
  <2>1. PICK r \in Rids : rows[r].position = n
    BY <1>1
  <2>2. n # NoPosition
    BY CheckoutAssumption DEF Positions, Capacity, NoPosition
  <2> QED
    BY <2>1, <2>2, SlotView, SlotViewNext
<1>2. CASE \A r \in Rids : rows[r].position # n
  BY <1>2, SlotView, SlotViewNext
<1> QED
  BY <1>1, <1>2

(* A step that changes the view of one holder changes its slot alone.       *)
LEMMA SlotMoves ==
  ASSUME SlotsExclusive, SlotsExclusive', NEW r \in Rids, rows[r].position \in Positions,
         \A q \in Rids : rows'[q].position = rows[q].position,
         \A q \in Rids \ {r} : rows[q].position # NoPosition => View(q)' = View(q)
  PROVE  slot' = [slot EXCEPT ![rows[r].position] = View(r)']
<1> SUFFICES ASSUME NEW n \in Positions
             PROVE  SlotOf(n)' = IF n = rows[r].position THEN View(r)' ELSE SlotOf(n)
  BY DEF slot
<1>0. n # NoPosition
  BY CheckoutAssumption DEF Positions, Capacity, NoPosition
<1>1. CASE n = rows[r].position
  BY <1>1, SlotViewNext
<1>2. CASE n # rows[r].position /\ \E q \in Rids : rows[q].position = n
  <2>1. PICK q \in Rids : rows[q].position = n
    BY <1>2
  <2> QED
    BY <1>0, <1>2, <2>1, SlotView, SlotViewNext
<1>3. CASE n # rows[r].position /\ \A q \in Rids : rows[q].position # n
  BY <1>3, SlotView, SlotViewNext
<1> QED
  BY <1>1, <1>2, <1>3

(* Clearing the positions of undispatched reserved quotes lapses their      *)
(* slots, and one new quote may take a slot nobody then holds.              *)
LEMMA SlotTurnover ==
  ASSUME SlotsExclusive, SlotsExclusive', NEW cleared \in SUBSET Rids, NEW new,
         \A r \in cleared : /\ rows[r].status = "reserved" /\ ~Started(r)
                            /\ rows'[r].position = NoPosition,
         \A r \in Rids \ (cleared \cup {new}) :
            /\ rows'[r].position = rows[r].position
            /\ rows[r].position # NoPosition => View(r)' = View(r),
         new \in Rids => /\ new \notin cleared /\ rows[new].position = NoPosition
                         /\ rows'[new].position \in Positions =>
                              /\ rows'[new].user \in Users
                              /\ View(new)' = Slots!Hold(rows'[new].user)
                         /\ rows'[new].position \in Positions \cup {NoPosition}
  PROVE  Slots!Turnover
<1> DEFINE lapsed == {n \in Positions : \E r \in cleared : rows[r].position = n}
           freed == [n \in Positions |-> IF n \in lapsed THEN Slots!Free ELSE slot[n]]
<1>0. NoPosition \notin Positions
  BY CheckoutAssumption DEF Positions, Capacity, NoPosition
<1>1. lapsed \in SUBSET {n \in Positions : slot[n].stage = "held"}
  BY SlotView DEF slot, View
<1>2. ASSUME NEW n \in Positions, new \in Rids => rows'[new].position # n
      PROVE  SlotOf(n)' = freed[n]
  <2>1. CASE n \in lapsed
    <3>1. PICK r \in cleared : rows[r].position = n
      BY <2>1
    <3>2. \A q \in Rids : rows'[q].position # n
      BY <1>0, <1>2, <3>1 DEF SlotsExclusive
    <3> QED
      BY <2>1, <3>2, SlotViewNext
  <2>2. CASE n \notin lapsed /\ \E r \in Rids : rows[r].position = n
    <3>1. PICK r \in Rids \ (cleared \cup {new}) : rows[r].position = n
      BY <1>0, <2>2
    <3>2. SlotOf(n)' = View(r)' /\ SlotOf(n) = View(r) /\ View(r)' = View(r)
      BY <1>0, <3>1, SlotView, SlotViewNext
    <3> QED
      BY <2>2, <3>2 DEF slot
  <2>3. CASE n \notin lapsed /\ \A r \in Rids : rows[r].position # n
    <3>1. \A r \in Rids : rows'[r].position # n
      BY <1>0, <1>2, <2>3
    <3> QED
      BY <2>3, <3>1, SlotView, SlotViewNext DEF slot
  <2> QED
    BY <2>1, <2>2, <2>3
<1>3. CASE ~(new \in Rids /\ rows'[new].position \in Positions)
  <2>1. ASSUME NEW n \in Positions
        PROVE  SlotOf(n)' = IF n \in lapsed THEN Slots!Free ELSE slot[n]
    <3>1. new \in Rids => rows'[new].position # n
      BY <1>3
    <3> QED
      BY <1>2, <3>1
  <2> HIDE DEF lapsed
  <2>2. slot' = freed
    BY <2>1 DEF slot
  <2> QED
    BY <1>1, <2>2 DEF Slots!Turnover
<1>4. CASE new \in Rids /\ rows'[new].position \in Positions
  <2>0. PICK k \in Positions, u \in Users : k = rows'[new].position /\ u = rows'[new].user
    BY <1>4
  <2>1. SlotOf(k)' = Slots!Hold(u)
    BY <1>4, <2>0, SlotViewNext
  <2>2. \A r \in Rids \ {new} : rows'[r].position # k
    BY <1>0, <1>4, <2>0 DEF SlotsExclusive
  <2>3. freed[k] = Slots!Free
    <3>1. CASE k \in lapsed
      BY <3>1
    <3>2. CASE k \notin lapsed
      <4>1. ASSUME NEW r \in Rids, rows[r].position = k PROVE FALSE
        <5>1. r \notin cleared /\ r # new
          BY <1>0, <1>4, <3>2, <4>1
        <5> QED
          BY <2>2, <4>1, <5>1
      <4>2. slot[k] = Slots!Free
        BY <4>1, SlotView DEF slot
      <4> QED
        BY <3>2, <4>2
    <3> QED
      BY <3>1, <3>2
  <2>4. ASSUME NEW n \in Positions \ {k}
        PROVE  SlotOf(n)' = IF n \in lapsed THEN Slots!Free ELSE slot[n]
    BY <1>2, <2>0
  <2>5. slot' = [freed EXCEPT ![k] = Slots!Hold(u)]
    <3> HIDE DEF lapsed
    <3> QED
      BY <2>1, <2>4 DEF slot
  <2> HIDE DEF freed
  <2>6. \E n \in Positions, v \in Users :
          freed[n] = Slots!Free /\ slot' = [freed EXCEPT ![n] = Slots!Hold(v)]
    BY <2>3, <2>5
  <2> QED
    BY <1>1, <2>6 DEF Slots!Turnover, freed
<1> QED
  BY <1>3, <1>4

-----------------------------------------------------------------------------
(* The actions that touch slots, one by one.                                *)

(* Releasing stale holds is a turnover that gives nothing out.              *)
LEMMA ExpiryTurnsOver ==
  ASSUME IInv, SlotsExclusive, SlotsExclusive', NEW t, rows' = Expired(t)
  PROVE  Slots!Turnover
<1> DEFINE cleared == {r \in Rids : Stale(r, t)}
<1>1. \A r \in cleared : /\ rows[r].status = "reserved" /\ ~Started(r)
                         /\ rows'[r].position = NoPosition
  BY ExpiredFields DEF IInv, Stale
<1>2. \A r \in Rids \ cleared : rows'[r] = rows[r]
  BY DEF Expired
<1>3. \A r \in Rids \ (cleared \cup {None}) :
        /\ rows'[r].position = rows[r].position
        /\ rows[r].position # NoPosition => View(r)' = View(r)
  BY <1>2 DEF View, Started
<1>4. None \notin Rids
  BY CheckoutAssumption
<1> QED
  BY <1>1, <1>3, <1>4, SlotTurnover

(* A new quote holds a slot that was free, or had just lapsed.              *)
LEMMA InsertTurnsOver ==
  ASSUME IInv, SlotsExclusive, SlotsExclusive', NEW p \in Procs,
         handler[p].pc \in {"reserve", "held"},
         NEW n \in Positions \cup {NoPosition}, n # NoPosition => ~HasPrior(handler[p].user),
         InsertQuote(p, n)
  PROVE  Slots!Turnover \/ UNCHANGED slot
<1>1. CASE UNCHANGED rows
  BY <1>1, SlotStutter DEF View, Started
<1>2. ASSUME NEW r \in Rids, rows[r].status = "none",
             rows' = [Expired(handler[p].at) EXCEPT ![r] = Quote(handler[p], n)]
      PROVE  Slots!Turnover
  <2> DEFINE t == handler[p].at
             cleared == {q \in Rids : Stale(q, t)}
  <2>1. DOMAIN Expired(t) = Rids
    BY DEF Expired
  <2>2. rows'[r] = Quote(handler[p], n) /\ \A q \in Rids \ {r} : rows'[q] = Expired(t)[q]
    BY <1>2, <2>1
  <2>3. r \notin cleared
    BY <1>2 DEF Stale
  <2>4. \A q \in cleared : /\ rows[q].status = "reserved" /\ ~Started(q)
                           /\ rows'[q].position = NoPosition
    BY <2>2, <2>3, ExpiredFields DEF IInv, Stale
  <2>5. \A q \in Rids \ (cleared \cup {r}) : rows'[q] = rows[q]
    BY <2>2 DEF Expired
  <2>6. \A q \in Rids \ (cleared \cup {r}) :
          /\ rows'[q].position = rows[q].position
          /\ rows[q].position # NoPosition => View(q)' = View(q)
    BY <2>5 DEF View, Started
  <2>7. rows[r].position = NoPosition
    BY <1>2 DEF IInv, RowsSound
  <2>8. /\ rows'[r].position = n /\ rows'[r].user = handler[p].user
        /\ rows'[r].status = "reserved" /\ rows'[r].order = None
        /\ rows'[r].orderState = "unstarted"
    BY <2>2, QuoteFields
  <2>9. rows'[r].user \in Users
    BY <2>8, HandlerFacts DEF HandlerSound
  <2>10. View(r)' = Slots!Hold(rows'[r].user)
    BY <2>8 DEF View, Started, Slots!Hold
  <2> HIDE DEF cleared
  <2>11. cleared \in SUBSET Rids
    BY DEF cleared
  <2> QED
    BY <2>3, <2>4, <2>6, <2>7, <2>8, <2>9, <2>10, <2>11, SlotTurnover
<1> QED
  BY <1>1, <1>2 DEF InsertQuote

(* A dispatched quote ties its slot to an order; a paid one sells it; a     *)
(* cancelled one gives it back.                                             *)
LEMMA RowMoves ==
  ASSUME IInv, SlotsExclusive, SlotsExclusive', NEW r \in Rids,
         rows[r].status = "reserved",
         \A q \in Rids \ {r} : rows'[q] = rows[q],
         rows'[r].user = rows[r].user, rows'[r].position = rows[r].position,
         \/ ~Started(r) /\ Started(r)' /\ rows'[r].status = "reserved"
         \/ Started(r) /\ Started(r)' /\ rows'[r].status = "reserved"
         \/ Started(r) /\ rows'[r].status = "verified"
  PROVE  [Slots!Next]_slot
<1>0. \A q \in Rids \ {r} : View(q)' = View(q)
  BY DEF View, Started
<1>1. CASE rows[r].position = NoPosition \/ View(r)' = View(r)
  BY <1>0, <1>1, SlotStutter
<1>2. CASE rows[r].position # NoPosition
  <2>1. PICK n \in Positions : n = rows[r].position
    BY <1>2 DEF IInv, TypeOK, Row
  <2>2. slot[n] = View(r)
    BY <2>1, SlotView DEF slot
  <2>3. slot' = [slot EXCEPT ![n] = View(r)']
    BY <1>0, <2>1, SlotMoves
  <2>4. CASE ~Started(r) /\ Started(r)' /\ rows'[r].status = "reserved"
    <3>1. View(r)' = [View(r) EXCEPT !.stage = "ordered"] /\ View(r).stage = "held"
      BY <2>4 DEF View
    <3>2. Slots!Dispatch(n)
      BY <2>2, <2>3, <3>1 DEF Slots!Dispatch
    <3> QED
      BY <3>2 DEF Slots!Next
  <2>5. CASE Started(r) /\ rows'[r].status = "verified"
    <3>1. View(r)' = [View(r) EXCEPT !.stage = "sold"] /\ View(r).stage = "ordered"
      BY <2>5 DEF View
    <3>2. Slots!Sell(n)
      BY <2>2, <2>3, <3>1 DEF Slots!Sell
    <3> QED
      BY <3>2 DEF Slots!Next
  <2>6. CASE Started(r) /\ Started(r)' /\ rows'[r].status = "reserved"
    BY <1>1, <2>6 DEF View
  <2> QED
    BY <2>4, <2>5, <2>6
<1> QED
  BY <1>1, <1>2

(* Every step of a handler is a step of FounderSlots or none.               *)
LEMMA StepRefines ==
  ASSUME IInv, SlotsExclusive, SlotsExclusive', NEW p \in Procs, Step(p)
  PROVE  [Slots!Next]_slot
<1>0. rows \in [Rids -> Row]
  BY DEF IInv, TypeOK
<1>1. CASE UNCHANGED rows
  BY <1>1, SlotStutter DEF View, Started
<1>2. CASE Reserve(p)
  <2>1. \/ UNCHANGED rows \/ rows' = Expired(handler[p].at)
        \/ InsertQuote(p, NoPosition)
    BY <1>2 DEF Reserve
  <2>2. handler[p].pc = "reserve"
    BY <1>2 DEF Reserve
  <2> QED
    BY <1>1, <2>1, <2>2, ExpiryTurnsOver, InsertTurnsOver DEF Slots!Next
<1>3. CASE AllocateFounder(p)
  <2>1. ~HasPrior(handler[p].user) /\ handler[p].pc = "held"
    BY <1>3 DEF AllocateFounder, IInv, HeldStable
  <2> QED
    BY <1>3, <2>1, LowestFreeType, InsertTurnsOver DEF AllocateFounder, Slots!Next
<1>4. CASE ClaimDispatch(p)
  <2>1. PICK r \in Rids : r = handler[p].rid
    BY <1>4, HandlerFacts DEF ClaimDispatch, HandlerSound
  <2>2. CASE /\ rows[r].status = "reserved" /\ ~Started(r)
             /\ rows' = [rows EXCEPT ![r].orderState = "creating", ![r].startedAt = now]
    <3>1. rows[r] \in Row
      BY <1>0
    <3>2. \A q \in Rids \ {r} : rows'[q] = rows[q]
      BY <1>0, <2>2
    <3>3. /\ rows'[r].user = rows[r].user /\ rows'[r].position = rows[r].position
          /\ rows'[r].status = rows[r].status /\ rows'[r].orderState = "creating"
      <4>1. rows'[r] = [[rows[r] EXCEPT !.orderState = "creating"] EXCEPT !.startedAt = now]
        BY <1>0, <2>2
      <4> QED
        BY <3>1, <4>1 DEF Row
    <3>4. Started(r)'
      BY <3>3 DEF Started
    <3> QED
      BY <2>2, <3>2, <3>3, <3>4, RowMoves
  <2> QED
    BY <1>1, <1>4, <2>1, <2>2 DEF ClaimDispatch
<1>5. CASE RecordUncertain(p)
  <2>1. PICK r \in Rids : r = handler[p].rid /\ Started(r)
    BY <1>5, HandlerFacts DEF RecordUncertain, HandlerSound, Dispatched
  <2>2. CASE rows' = [rows EXCEPT ![r].orderState = "uncertain"]
    <3>1. rows[r] \in Row
      BY <1>0
    <3>2. \A q \in Rids \ {r} : rows'[q] = rows[q]
      BY <1>0, <2>2
    <3>3. /\ rows'[r].user = rows[r].user /\ rows'[r].position = rows[r].position
          /\ rows'[r].status = rows[r].status /\ rows'[r].orderState = "uncertain"
      BY <1>0, <2>2, <3>1 DEF Row
    <3>4. View(r)' = View(r) /\ \A q \in Rids \ {r} : View(q)' = View(q)
      BY <2>1, <3>2, <3>3 DEF View, Started
    <3>5. \A q \in Rids : rows'[q].position = rows[q].position /\ View(q)' = View(q)
      BY <3>2, <3>3, <3>4
    <3> QED
      BY <3>5, SlotStutter
  <2> QED
    BY <1>1, <1>5, <2>1, <2>2 DEF RecordUncertain
<1>6. CASE AttachOrder(p)
  <2>1. PICK r \in Rids, o \in OrderIds :
          r = handler[p].rid /\ o = handler[p].order /\ Started(r)
    BY <1>6, HandlerFacts DEF AttachOrder, HandlerSound, Dispatched
  <2>2. CASE /\ rows[r].status = "reserved"
             /\ rows' = [rows EXCEPT ![r].orderState = "ready", ![r].order = o]
    <3>1. rows[r] \in Row
      BY <1>0
    <3>2. \A q \in Rids \ {r} : rows'[q] = rows[q]
      BY <1>0, <2>2
    <3>3. /\ rows'[r].user = rows[r].user /\ rows'[r].position = rows[r].position
          /\ rows'[r].status = rows[r].status /\ rows'[r].orderState = "ready"
      <4>1. rows'[r] = [[rows[r] EXCEPT !.orderState = "ready"] EXCEPT !.order = o]
        BY <1>0, <2>2
      <4> QED
        BY <3>1, <4>1 DEF Row
    <3>4. Started(r)'
      BY <3>3 DEF Started
    <3> QED
      BY <2>1, <2>2, <3>2, <3>3, <3>4, RowMoves
  <2> QED
    BY <1>1, <1>6, <2>1, <2>2 DEF AttachOrder
<1>7. CASE SettlePayment(p)
  <2>1. PICK r \in Rids : r = handler[p].rid /\ Started(r)
    BY <1>7, HandlerFacts DEF SettlePayment, Founding, HandlerSound, Dispatched
  <2>2. ASSUME Verifiable(r), NEW start, NEW order,
               rows' = [rows EXCEPT ![r].status = "verified", ![r].payment = order,
                                    ![r].starts = start]
        PROVE  [Slots!Next]_slot
    <3>1. rows[r] \in Row
      BY <1>0
    <3>2. \A q \in Rids \ {r} : rows'[q] = rows[q]
      BY <1>0, <2>2
    <3>3. /\ rows'[r].user = rows[r].user /\ rows'[r].position = rows[r].position
          /\ rows'[r].status = "verified"
      <4>1. rows'[r] = [[[rows[r] EXCEPT !.status = "verified"] EXCEPT !.payment = order]
                          EXCEPT !.starts = start]
        BY <1>0, <2>2
      <4> QED
        BY <3>1, <4>1 DEF Row
    <3>4. rows[r].status = "reserved"
      BY <2>2 DEF Verifiable
    <3> QED
      BY <2>1, <3>2, <3>3, <3>4, RowMoves
  <2>3. \/ UNCHANGED rows
        \/ Verifiable(r) /\ \E start, order :
             rows' = [rows EXCEPT ![r].status = "verified", ![r].payment = order,
                                  ![r].starts = start]
    BY <1>7, <2>1 DEF SettlePayment, Founding
  <2> QED
    BY <1>1, <2>2, <2>3
<1> QED
  BY <1>1, <1>2, <1>3, <1>4, <1>5, <1>6, <1>7
  DEF Step, CreateOrder, VerifyPayment, SendPost, PostReply, LookUp, CallFails,
      FetchEvidence, Crash

(* Cancelling an undispatched quote gives its slot back.                    *)
LEMMA CancelTurnsOver ==
  ASSUME IInv, SlotsExclusive, SlotsExclusive', NEW r \in Rids, CancelReservation(r)
  PROVE  [Slots!Next]_slot
<1>1. rows \in [Rids -> Row] /\ rows[r] \in Row
  BY DEF IInv, TypeOK
<1>2. rows' = [rows EXCEPT ![r] = [[rows[r] EXCEPT !.status = "cancelled"]
                                     EXCEPT !.position = NoPosition]]
  BY <1>1 DEF CancelReservation
<1>3. rows'[r].position = NoPosition /\ \A q \in Rids \ {r} : rows'[q] = rows[q]
  BY <1>1, <1>2 DEF Row
<1>4. \A q \in {r} : /\ rows[q].status = "reserved" /\ ~Started(q)
                     /\ rows'[q].position = NoPosition
  BY <1>3 DEF CancelReservation
<1>5. \A q \in Rids \ ({r} \cup {None}) :
        /\ rows'[q].position = rows[q].position
        /\ rows[q].position # NoPosition => View(q)' = View(q)
  BY <1>3 DEF View, Started
<1>6. None \notin Rids /\ {r} \in SUBSET Rids
  BY CheckoutAssumption
<1> QED
  BY <1>4, <1>5, <1>6, SlotTurnover DEF Slots!Next

(* Quotes, expiry, cancellation, dispatch and verification together keep    *)
(* the promise of FounderSlots: a slot tied to an order is never given to   *)
(* someone else, and a slot is sold once, to the customer it was held for.  *)
THEOREM CheckoutKeepsPromise == Spec => SlotPromise
<1>1. Init => Slots!Init
  <2> SUFFICES ASSUME Init PROVE Slots!Init
    OBVIOUS
  <2>1. SlotsExclusive /\ \A r \in Rids : rows[r].position = NoPosition
    BY DEF Init, SlotsExclusive, FreeRow
  <2>2. NoPosition \notin Positions
    BY CheckoutAssumption DEF Positions, Capacity, NoPosition
  <2>3. \A n \in Positions : SlotOf(n) = Slots!Free
    BY <2>1, <2>2, SlotView
  <2> QED
    BY <2>3 DEF slot, Slots!Init
<1>2. IInv /\ SlotsExclusive /\ SlotsExclusive' /\ [Next]_vars => [Slots!Next]_slot
  <2> SUFFICES ASSUME IInv, SlotsExclusive, SlotsExclusive', [Next]_vars
               PROVE  [Slots!Next]_slot
    OBVIOUS
  <2>1. CASE \E p \in Procs : Step(p)
    BY <2>1, StepRefines
  <2>2. CASE \E r \in Rids : CancelReservation(r)
    BY <2>2, CancelTurnsOver
  <2>3. CASE UNCHANGED rows
    BY <2>3, SlotStutter DEF View, Started
  <2> QED
    BY <2>1, <2>2, <2>3 DEF Next, ExecutePost, AttemptPayment, CapturePayment,
                            Administer, PassTime, checkoutVars, vars
<1> QED
  BY <1>1, <1>2, Invariant, SlotsStayExclusive, PTL DEF Spec, SlotPromise, Slots!Spec
=============================================================================
