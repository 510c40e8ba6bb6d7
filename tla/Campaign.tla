------------------------------ MODULE Campaign ------------------------------
(***************************************************************************)
(* The founder pricing campaign: one row that administrators edit through   *)
(* PATCH /campaign (api/pricing_admin.py) under optimistic versioning, and  *)
(* the clock against which every offer is priced.                           *)
(*                                                                          *)
(* The row is locked FOR UPDATE by an edit and by a quote, so an edit is    *)
(* one step; LockFree is the guard a module with quotes adds to it.         *)
(***************************************************************************)
EXTENDS Integers

CONSTANTS
  MaxNow,      \* bound: the last instant of the clock
  MaxVersion,  \* bound: edits stop when the row reaches this version
  Changes      \* the PATCH bodies tried: functions from some fields to values

States == {"scheduled", "active", "paused", "closed"}
NoDate == -1   \* a null timestamp column
Dates  == 0..MaxNow + 1
Fields == {"state", "starts", "ends", "launch"}

ASSUME CampaignAssumption ==
  /\ MaxNow \in Nat /\ MaxVersion \in Nat \ {0}
  /\ \A c \in Changes :
       /\ DOMAIN c \subseteq Fields
       /\ \A f \in DOMAIN c : c[f] \in IF f = "state" THEN States
                                       ELSE Dates \cup {NoDate}

VARIABLES
  campaign,  \* the pricing_campaigns row
  now        \* the wall clock

campaignVars == <<campaign, now>>

CampaignRow == [state : States,
                starts : Dates \cup {NoDate},
                ends   : Dates \cup {NoDate},
                launch : Dates \cup {NoDate},
                version : 1..MaxVersion]

CampaignTypeOK == campaign \in CampaignRow /\ now \in 0..MaxNow

CampaignInit ==
  /\ campaign = [state |-> "scheduled", starts |-> NoDate, ends |-> NoDate,
                 launch |-> NoDate, version |-> 1]
  /\ now = 0

(* campaign_is_live: inside the pre-sale window and before public launch.   *)
IsLive(row, t) ==
  /\ row.state = "active"
  /\ row.launch # NoDate /\ t < row.launch
  /\ row.starts # NoDate => t >= row.starts
  /\ row.ends # NoDate => t < row.ends

AllowedTransitions ==
  [scheduled |-> {"scheduled", "active", "closed"},
   active    |-> {"active", "paused", "closed"},
   paused    |-> {"paused", "active", "closed"},
   closed    |-> {"closed"}]

(* The row after a PATCH body is applied, before it is validated.           *)
Edited(c) ==
  LET val(f) == IF f \in DOMAIN c THEN c[f] ELSE campaign[f]
  IN [state |-> val("state"), starts |-> val("starts"), ends |-> val("ends"),
      launch |-> val("launch"), version |-> campaign.version + 1]

(* The date checks of update_campaign, on the row as edited.                *)
Coherent(row) ==
  /\ row.starts # NoDate /\ row.ends # NoDate => row.starts < row.ends
  /\ row.launch # NoDate =>
       /\ row.starts # NoDate => row.starts < row.launch
       /\ row.ends # NoDate => row.ends <= row.launch
  /\ row.state = "active" => row.launch # NoDate /\ row.launch > now

(* An administrator who read the given version submits a PATCH.  A stale    *)
(* version, a forbidden transition or incoherent dates raise ValueError and *)
(* the transaction rolls back, so only an accepted edit is a step.          *)
UpdateCampaign(expected, c) ==
  /\ campaign.version = expected
  /\ expected < MaxVersion
  /\ Edited(c).state \in AllowedTransitions[campaign.state]
  /\ Coherent(Edited(c))
  /\ campaign' = Edited(c)
  /\ UNCHANGED now

Tick == now < MaxNow /\ now' = now + 1 /\ UNCHANGED campaign
=============================================================================
