----------------------------- MODULE MCBankFeed -----------------------------
(***************************************************************************)
(* A sync and a generation of the bill that read and write the rows of one  *)
(* account at the same time: the button (api/recurring_transactions.py) and *)
(* the daily task take no lock that a sync job would hold.                   *)
(***************************************************************************)
EXTENDS BankFeed

CONSTANTS o1, w1, w2

\* The operation looks like the one occurrence of the bill.
MCWindow == [o \in Ops |-> 1]

\* One of the writers syncs, the other one generates.
Roles == txn[w1].by # "generate" /\ txn[w2].by # "sync"

\* The bank has reported nothing yet, and no occurrence came due.
MCInit == FeedInit /\ nextOcc = 1 /\ \A o \in Ops : feed[o].status = "none"

MCSpec == MCInit /\ [][FeedNext /\ Roles']_feedVars
=============================================================================
