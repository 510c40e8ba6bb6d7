----------------------------- MODULE Approvals -----------------------------
(***************************************************************************)
(* What an external agent may change: it asks for an action, a person        *)
(* approves or rejects it, and the approved action is executed afterwards.   *)
(* Translated from services/mcp_approval_service.py,                         *)
(* agents/api/mcp_tokens.py and mcp_server/registry.py; a tool changes the   *)
(* books or raises, and it may do both.                                      *)
(***************************************************************************)
EXTENDS Naturals, FiniteSets

CONSTANTS
  Actions,  \* mcp_approvals.id, of one token
  Presses,  \* requests that approve or reject
  Cap       \* actions a token may ask for within an hour

ASSUME ApprovalsAssumption == Cap \in Nat

VARIABLES
  approval,  \* mcp_approvals.status
  lapsed,    \* actions whose ten minutes are over
  recent,    \* actions asked for within the last hour
  usable,    \* the token is neither revoked nor expired
  press,     \* how far a request is, and with which action
  effects    \* history: how often an action changed the books

approvalVars == <<approval, lapsed, recent, usable, press, effects>>

Unpressed    == [at |-> "idle"]
Stage(s, a)  == [at |-> s, on |-> a]
Stages       == {"approving", "rejecting", "calling", "returned", "raised"}

ApprovalTypeOK ==
  /\ approval \in [Actions -> {"none", "pending", "executing", "executed",
                               "review_required", "rejected"}]
  /\ lapsed \subseteq Actions /\ recent \subseteq Actions
  /\ usable \in BOOLEAN
  /\ press \in [Presses -> {Unpressed} \cup [at : Stages, on : Actions]]
  /\ effects \in [Actions -> Nat]

ApprovalInit ==
  /\ approval = [a \in Actions |-> "none"]
  /\ lapsed = {} /\ recent = {} /\ usable = TRUE
  /\ press = [r \in Presses |-> Unpressed]
  /\ effects = [a \in Actions |-> 0]

Moves(r, s) == press' = [press EXCEPT ![r] = s]
Turns(a, s) == approval' = [approval EXCEPT ![a] = s]
-----------------------------------------------------------------------------
(* queue_approval; the token's row is locked while the last hour is counted. *)
Queues(a) ==
  /\ usable /\ approval[a] = "none" /\ Cardinality(recent) < Cap
  /\ Turns(a, "pending") /\ recent' = recent \cup {a}
  /\ UNCHANGED <<lapsed, usable, press, effects>>

(* Fault: the row is read without a lock.                                   *)
NotLocked(a) == TRUE

(* SELECT ... FOR UPDATE of the action.                                     *)
Lockable(a) ==
  \A r \in Presses : press[r] \notin {Stage("approving", a), Stage("rejecting", a)}

ReadsToApprove(r, a) ==
  /\ press[r] = Unpressed /\ Lockable(a)
  /\ approval[a] = "pending" /\ a \notin lapsed
  /\ Moves(r, Stage("approving", a))
  /\ UNCHANGED <<approval, lapsed, recent, usable, effects>>

(* The claim is committed before the tool is called.                        *)
Claims(r, a) ==
  /\ press[r] = Stage("approving", a)
  /\ Turns(a, "executing") /\ Moves(r, Stage("calling", a))
  /\ UNCHANGED <<lapsed, recent, usable, effects>>

(* call_tool: authorize_tool and validate_execution, then the handler.      *)
Permitted(a) == usable /\ approval[a] = "executing" /\ a \notin lapsed

CallsTool(r, a, changes, raises) ==
  /\ press[r] = Stage("calling", a)
  /\ Permitted(a) \/ (raises /\ ~changes)
  /\ effects' = [effects EXCEPT ![a] = IF changes THEN @ + 1 ELSE @]
  /\ Moves(r, Stage(IF raises THEN "raised" ELSE "returned", a))
  /\ UNCHANGED <<approval, lapsed, recent, usable>>

Confirms(r, a) ==
  /\ press[r] = Stage("returned", a)
  /\ Turns(a, "executed") /\ Moves(r, Unpressed)
  /\ UNCHANGED <<lapsed, recent, usable, effects>>

(* Whatever was raised, the action is not tried again.                      *)
AsksForReview(r, a) ==
  /\ press[r] = Stage("raised", a)
  /\ Turns(a, "review_required") /\ Moves(r, Unpressed)
  /\ UNCHANGED <<lapsed, recent, usable, effects>>

ReadsToReject(r, a) ==
  /\ press[r] = Unpressed /\ Lockable(a) /\ approval[a] = "pending"
  /\ Moves(r, Stage("rejecting", a))
  /\ UNCHANGED <<approval, lapsed, recent, usable, effects>>

Rejects(r, a) ==
  /\ press[r] = Stage("rejecting", a)
  /\ Turns(a, "rejected") /\ Moves(r, Unpressed)
  /\ UNCHANGED <<lapsed, recent, usable, effects>>

(* The process dies; a claim that was committed stays.                      *)
PressDies(r) ==
  /\ press[r] # Unpressed /\ Moves(r, Unpressed)
  /\ UNCHANGED <<approval, lapsed, recent, usable, effects>>

(* Time, and the owner of the token.                                        *)
Lapses(a) ==
  /\ approval[a] # "none" /\ a \notin lapsed /\ lapsed' = lapsed \cup {a}
  /\ UNCHANGED <<approval, recent, usable, press, effects>>

HourPasses ==
  /\ recent # {} /\ recent' = {} /\ lapsed' = lapsed \cup recent
  /\ UNCHANGED <<approval, usable, press, effects>>

RevokesToken ==
  /\ usable /\ usable' = FALSE
  /\ UNCHANGED <<approval, lapsed, recent, press, effects>>

ApprovalNext ==
  \/ \E a \in Actions : Queues(a) \/ Lapses(a)
  \/ \E r \in Presses, a \in Actions :
       \/ ReadsToApprove(r, a) \/ Claims(r, a) \/ Confirms(r, a) \/ AsksForReview(r, a)
       \/ ReadsToReject(r, a) \/ Rejects(r, a)
       \/ \E changes, raises \in BOOLEAN : CallsTool(r, a, changes, raises)
  \/ \E r \in Presses : PressDies(r)
  \/ HourPasses \/ RevokesToken

ApprovalSpec == ApprovalInit /\ [][ApprovalNext]_approvalVars
-----------------------------------------------------------------------------
(* An action changes the books at most once, and only after a person said   *)
(* so: not when it was rejected, whoever pressed what at the same moment or *)
(* after a failure (agents/api/mcp_tokens.py:114).                          *)
ApprovedOnce ==
  \A a \in Actions :
    /\ effects[a] <= 1
    /\ effects[a] = 1 => approval[a] \in {"executing", "executed", "review_required"}
=============================================================================
