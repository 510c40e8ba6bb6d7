---------------------------- MODULE AccountFence ----------------------------
(***************************************************************************)
(* What the rest of the system may assume about an account: it is enabled   *)
(* or not, its deletion can be requested and withdrawn, and a purge is      *)
(* final.  Activation races with these steps; AccountDeletion, the workflow *)
(* behind them, implements them.                                            *)
(***************************************************************************)
CONSTANT Users

VARIABLE account   \* users.is_active and the user's account_deletions

Account == [enabled : BOOLEAN, deletion : {"none", "pending", "purged"}]

FenceInit == account = [u \in Users |-> [enabled |-> TRUE, deletion |-> "none"]]

(* An administrator's update_user.  It refuses a tombstone, and should its  *)
(* check be stale a trigger on users refuses the write.                     *)
Switch(u, b) ==
  /\ account[u].enabled # b /\ account[u].deletion # "purged"
  /\ account' = [account EXCEPT ![u].enabled = b]

(* That the user is active was looked at earlier, and may be false by now.  *)
Request(u) ==
  /\ account[u].deletion = "none"
  /\ account' = [account EXCEPT ![u].deletion = "pending"]

Withdraw(u) ==
  /\ account[u].deletion = "pending"
  /\ account' = [account EXCEPT ![u].deletion = "none"]

Purge(u) ==
  /\ account[u].deletion = "pending"
  /\ account' = [account EXCEPT ![u] = [enabled |-> FALSE, deletion |-> "purged"]]

FenceNext ==
  \E u \in Users : \/ Request(u) \/ Withdraw(u) \/ Purge(u)
                   \/ \E b \in BOOLEAN : Switch(u, b)

FenceSpec == FenceInit /\ [][FenceNext]_account
=============================================================================
