----------------------------- MODULE Workspace -----------------------------
(***************************************************************************)
(* The books of a workspace: what its bank reports, the jobs that fetch it,  *)
(* its invoices and what external agents ask for.  Each is changed by        *)
(* processes of its own, in any order.                                       *)
(***************************************************************************)
EXTENDS BankFeed, SyncJob, Invoices, Approvals

bookVars == <<feedVars, syncVars, invVars, approvalVars>>

FeedStep     == FeedNext /\ UNCHANGED <<syncVars, invVars, approvalVars>>
SyncStep     == SyncNext /\ UNCHANGED <<feedVars, invVars, approvalVars>>
InvStep      == InvNext /\ UNCHANGED <<feedVars, syncVars, approvalVars>>
ApprovalStep == ApprovalNext /\ UNCHANGED <<feedVars, syncVars, invVars>>

WorkspaceInit == FeedInit /\ SyncInit /\ InvInit /\ ApprovalInit
WorkspaceNext == FeedStep \/ SyncStep \/ InvStep \/ ApprovalStep
WorkspaceSpec == WorkspaceInit /\ [][WorkspaceNext]_bookVars

(* The types of all parts: every row, job, link, question and approval is   *)
(* one the models (models/*.py) can store.                                  *)
TypeOK == FeedTypeOK /\ SyncTypeOK /\ InvTypeOK /\ ApprovalTypeOK
=============================================================================
