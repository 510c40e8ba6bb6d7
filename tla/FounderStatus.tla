--------------------------- MODULE FounderStatus ---------------------------
(***************************************************************************)
(* The public page of the founder campaign beside checkout.  GET            *)
(* /founder-campaign counts the slots of each wave in billing/              *)
(* offer_service.py:_wave_counts, in four statements under READ COMMITTED   *)
(* without the campaign lock: checkout runs on between any two of them.     *)
(* One reader is enough, since a reader writes nothing.                     *)
(***************************************************************************)
EXTENDS Checkout

VARIABLE page  \* the request: the instant it took as now, the statements done, the counts

NoPage == [at |-> NoDate, step |-> 0,
           counts |-> [w \in {1, 2} |-> [claimed |-> 0, held |-> 0]]]

WaveCapacity == <<Wave1, Wave2>>

(* The members of a wave, and the reservations that hold a slot of it.      *)
Buyers(w) == {u \in Users : members[u] # NoClaim /\ WaveOf[members[u].offer] = w}
Holds(w, t) == {r \in Rids : /\ Active(r, t) /\ rows[r].offer \in FounderOffers
                             /\ WaveOf[rows[r].offer] = w}

(* Fault: the reservations are counted before the members.                  *)
HeldFirst == <<"held", "claimed">>

(* The statements of _wave_counts for one wave, in their order.             *)
Statements == <<"claimed", "held">>

OpenPage ==
  /\ page = NoPage
  /\ page' = [NoPage EXCEPT !.at = now]

CountNext ==
  LET w == (page.step \div 2) + 1
      kind == Statements[(page.step % 2) + 1]
  IN
  /\ page # NoPage /\ page.step < 4
  /\ page' = [page EXCEPT !.step = @ + 1,
                !.counts[w][kind] = IF kind = "claimed" THEN Cardinality(Buyers(w))
                                    ELSE Cardinality(Holds(w, page.at))]

(* The reply is made from the counts alone.                                 *)
Reply == page.step = 4 /\ page' = NoPage

(* campaign_status: what the page shows as left of a wave.                  *)
Available(w) ==
  LET left == WaveCapacity[w] - page.counts[w].claimed - page.counts[w].held
  IN IF left > 0 THEN left ELSE 0

PageInit == Init /\ page = NoPage
PageNext == \/ Next /\ UNCHANGED page
            \/ (OpenPage \/ CountNext \/ Reply) /\ UNCHANGED vars
PageSpec == PageInit /\ [][PageNext]_<<vars, page>>
-----------------------------------------------------------------------------
(* The slots of a wave that an allocation at time t could give out.         *)
FreeSlots(w, t) ==
  {n \in Positions \ (ClaimedPositions \cup HeldPositions(t)) : WaveForPosition(n) = w}

Counted(w) == page.step >= 2 * w

(* The scarcity shown is real up to what is sold meanwhile: once a wave is  *)
(* counted, its published remainder is the number of its slots free for the *)
(* page's instant plus the members who joined after the first of the two    *)
(* counts, so the page never hides a slot that could be bought and never    *)
(* overstates by more than was sold while it was counting.                  *)
CountersHonest ==
  [][\A w \in {1, 2} : ~Counted(w) /\ Counted(w)' =>
       LET sold == Cardinality(Buyers(w)) - page.counts[w].claimed
       IN sold' >= 0 /\ Available(w)' = Cardinality(FreeSlots(w, page.at)') + sold']_<<vars, page>>
=============================================================================
