---------------------------- MODULE MCActivation ----------------------------
EXTENDS Activation, TLC

CONSTANTS u1, w1, w2, p1, p2, e1, e2, e3

(* Two purchases of one user; the first is announced twice (payment.captured *)
(* and order.paid).                                                          *)
SameBuyer == (p1 :> u1) @@ (p2 :> u1)
Announced == (e1 :> p1) @@ (e2 :> p1) @@ (e3 :> p2)

(* An order this instance does not know and a local one, each announced once. *)
OnceEach == (e1 :> p1) @@ (e3 :> p2)
OneForeign == (p1 :> None) @@ (p2 :> u1)

Symmetry == Permutations(Workers) \cup Permutations({e1, e2})
=============================================================================
