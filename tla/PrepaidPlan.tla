----------------------------- MODULE PrepaidPlan -----------------------------
(***************************************************************************)
(* What billing promises about a plan that is paid in advance: the terms    *)
(* paid for are never moved, shortened or taken back; a new one begins when *)
(* the last one is over, or later, and never before its time; the plan is   *)
(* given back only with a new term.                                         *)
(***************************************************************************)
EXTENDS Integers

CONSTANT Length  \* of a term

VARIABLES
  terms,    \* what was paid for
  end,      \* where the plan ends
  revoked,  \* whether the term it stands on was returned
  today

Term(from) == [from |-> from, to |-> from + Length]

Init == terms = {Term(0)} /\ end = Length /\ ~revoked /\ today = 0

Renew(from) ==
  /\ end <= from /\ from <= today
  /\ terms' = terms \cup {Term(from)}
  /\ end' = from + Length
  /\ ~revoked'
  /\ UNCHANGED today

Revoke ==
  /\ ~revoked /\ revoked'
  /\ UNCHANGED <<terms, end, today>>

Passes ==
  /\ today' = today + 1
  /\ UNCHANGED <<terms, end, revoked>>

Next == (\E from \in 0..today : Renew(from)) \/ Revoke \/ Passes

Spec == Init /\ [][Next]_<<terms, end, revoked, today>>
=============================================================================
