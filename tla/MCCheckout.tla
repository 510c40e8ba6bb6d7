----------------------------- MODULE MCCheckout -----------------------------
EXTENDS FounderStatus, TLC

CONSTANTS u1, u2, p1, p2, r1, r2, o1, o2, o3, Scenes

(* The instance is explored in scenes, each with more of one kind of actor  *)
(* than of the others; a behaviour stays in the scene it starts in.         *)
VARIABLE scene

Customers  == {rows[r].user : r \in Rids} \cup {handler[p].user : p \in Procs}
Bought     == {rows[r].product : r \in Rids} \cup {handler[p].product : p \in Procs}
OneHandler == \A p, q \in Procs : handler[p] # Idle /\ handler[q] # Idle => p = q

InScene ==
  CASE scene = "slots"  -> Bought \subseteq {"pro_monthly", None} /\ now <= 1 /\ page = NoPage
    [] scene = "orders" -> Cardinality(Customers \ {None}) <= 1 /\ page = NoPage
    [] scene = "page"   -> Bought \subseteq {"pro_monthly", None} /\ now <= 1 /\ OneHandler

MCInit == PageInit /\ scene \in Scenes
MCNext == PageNext /\ UNCHANGED scene /\ InScene'
MCSpec == MCInit /\ [][MCNext]_<<vars, page, scene>>

Launch == [state |-> "active", launch |-> 2]
CampaignEdits == {Launch}

Symmetry == Permutations(Users) \cup Permutations(Procs)
            \cup Permutations(Rids) \cup Permutations(OrderIds)
=============================================================================
