---------------------------- MODULE FounderSlots ----------------------------
(***************************************************************************)
(* What founder checkout promises about each numbered founder slot: it is   *)
(* free, held for one customer, tied to a provider order of that customer,  *)
(* or sold to that customer.  A held slot may be given back; one tied to an *)
(* order may only be sold; a sold slot stays sold.                          *)
(***************************************************************************)
CONSTANTS Users, Positions, None

VARIABLE slot

Free == [stage |-> "free", owner |-> None]
Hold(u) == [stage |-> "held", owner |-> u]

Init == slot = [n \in Positions |-> Free]

(* Some held slots lapse, and at most one free or lapsed slot is given out. *)
Turnover ==
  \E lapsed \in SUBSET {n \in Positions : slot[n].stage = "held"} :
    LET freed == [n \in Positions |-> IF n \in lapsed THEN Free ELSE slot[n]]
    IN \/ slot' = freed
       \/ \E n \in Positions, u \in Users :
            /\ freed[n] = Free
            /\ slot' = [freed EXCEPT ![n] = Hold(u)]

Dispatch(n) ==
  /\ slot[n].stage = "held"
  /\ slot' = [slot EXCEPT ![n].stage = "ordered"]

Sell(n) ==
  /\ slot[n].stage = "ordered"
  /\ slot' = [slot EXCEPT ![n].stage = "sold"]

Next == Turnover \/ \E n \in Positions : Dispatch(n) \/ Sell(n)

Spec == Init /\ [][Next]_slot
=============================================================================
