---------------------------- MODULE MCWorkspace ----------------------------
(***************************************************************************)
(* The books of a workspace on small instances.  The components share no     *)
(* state, so that each behaviour plays one scene, of one of them, and the    *)
(* others stay as they were.                                                 *)
(***************************************************************************)
EXTENDS Workspace, TLC

CONSTANTS o1, o2, w1, a1, a2, b1, h1, h2, i1, i2, t1, c1, c2, p1, p2

VARIABLE scene

\* Both operations look alike, and like the one occurrence of the bill.
MCWindow == [o \in Ops |-> 1]

\* The payment covers one invoice, and two of them only in part.
MCCents  == [x \in Invs \cup Payments |-> IF x \in Invs THEN 5 ELSE 8]

Sym == Permutations(Ops)

(* "twins": two operations beside what the user types, no bill, and no row   *)
(* hidden.  "bill": one operation, an occurrence to come, two rows at most.  *)
(* "jobs": the queue and its workers.  "answers": invoices, where one        *)
(* request does what is asked and the other only answers questions.          *)
(* "agents": what external agents ask for.                                   *)
Bounds ==
  /\ scene = "twins" => \A r \in RowIds : rows[r] # NoRow => ~rows[r].ignored
  /\ scene = "bill"  => /\ Cardinality({o \in Ops : feed[o].status # "none"}) <= 1
                        /\ Cardinality(Live(rows)) <= 2
  /\ scene = "answers" => req[h2].op \in {"idle", "answer"}

\* A feed that does not matter in a scene starts empty.
Quiet == nextOcc = 1 /\ \A o \in Ops : feed[o].status = "none"

Init ==
  /\ scene \in {"twins", "bill", "jobs", "answers", "agents"}
  /\ WorkspaceInit
  /\ scene = "twins" => nextOcc = Occurrences + 1
  /\ scene = "bill"  => nextOcc = 1
  /\ scene \in {"jobs", "answers", "agents"} => Quiet
  /\ Bounds

Next ==
  /\ \/ scene \in {"twins", "bill"} /\ FeedStep
     \/ scene = "jobs" /\ SyncStep
     \/ scene = "answers" /\ InvStep
     \/ scene = "agents" /\ ApprovalStep
  /\ UNCHANGED scene
  /\ Bounds'

Spec == Init /\ [][Next]_<<scene, bookVars>>
=============================================================================
