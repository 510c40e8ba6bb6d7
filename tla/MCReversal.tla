----------------------------- MODULE MCReversal -----------------------------
EXTENDS Reversal, TLC

CONSTANTS h1, h2, m1, m2, r1, r2, Scenes

(* The instance is explored in scenes, each with more of one kind of actor  *)
(* than of the others; a behaviour stays in the scene it starts in.         *)
VARIABLE scene

Used         == {m \in Mandates : mandate[m].state # "none"}
NoRefunds    == refundPost = {} /\ \A r \in RefundIds : refund[r].status = "none"
NoReversal   == NoRefunds /\ \A h \in Handlers : handler[h].pc # "refund"
OneHandler   == \A h, g \in Handlers : handler[h] # Idle /\ handler[g] # Idle => h = g
InFullOnly   == /\ \A r \in RefundIds : refund[r].amount \in {0, Price}
                /\ \A p \in Payments : intent[p].amount \in {0, Price}
OneRefund    == Cardinality({r \in RefundIds : refund[r].status # "none"}) <= 1

InScene ==
  CASE scene = "mandates" -> /\ OneHandler /\ NoReversal
                             /\ Cardinality(Used) > 1 => now <= 2
                             /\ Cardinality(Used) > 1 \/ now > 2 => account = "open"
    [] scene = "workers"  -> Cardinality(Used) <= 1 /\ NoReversal /\ now <= 2
    [] scene = "refunds"  -> Used = {} /\ now = 0 /\ account = "open" /\ (OneHandler \/ OneRefund)
    [] scene = "terms"    -> /\ Cardinality(Used) <= 1 /\ OneHandler /\ OneRefund
                             /\ account = "open" /\ now <= 2 /\ InFullOnly
                             /\ \A c \in Cycles : ~recovery[c].open
                             /\ NoRefunds \/ cycles # {}

MCInit == RefundInit /\ scene \in Scenes
MCNext == ReversalNext /\ UNCHANGED scene /\ InScene'
MCSpec == MCInit /\ [][MCNext]_<<allVars, scene>>

Symmetry == Permutations(RefundIds) \cup Permutations(Mandates) \cup Permutations(Handlers)
=============================================================================
