-------------------------- MODULE ActivationProofs --------------------------
(***************************************************************************)
(* Safety of activation for any number of users, payments, receipts and     *)
(* overlapping scans.                                                       *)
(***************************************************************************)
EXTENDS Activation, FiniteSetTheorems, TLAPS

(* A grant and the record of the purchase are committed together; with the  *)
(* two invariants TLC checks this is inductive, because the transaction     *)
(* that grants trusts nothing the worker read before it but the account,    *)
(* whose row it keeps locked (Fenced).                                      *)
IInv ==
  /\ TypeOK
  /\ OneGrant
  /\ ProcessedGranted
  /\ grants \subseteq verified

(* The user a run works for.                                                *)
Customer(w) == Buyer[Of[worker[w].receipt]]

(* A run past the lock works for a user who is entitled, whoever has tried  *)
(* to change the account since; before the lock it works for a known user.  *)
Fenced ==
  \A w \in Workers :
    /\ worker[w].pc \in {"fetch", "apply", "locked"} => Customer(w) \in Users
    /\ worker[w].pc = "locked" => Entitled(Customer(w))

(* The states of the reconcile runs.                                        *)
RunType ==
  [Workers -> [pc : {"idle", "read", "fetch", "apply", "locked", "retry", "reject"},
               todo : SUBSET Events, receipt : Events \cup {None},
               seen : {"none", "captured", "refunded"}]]

(* The variables a worker changes only in Apply or Dispose.                 *)
ledger == <<inbox, verified, grants, plan>>

(* Initially nothing is stored or granted.                                  *)
LEMMA InitInvariant == Init => IInv
  BY ActivationAssumption DEF Init, FenceInit, Account, IInv, TypeOK, OneGrant,
                              ProcessedGranted, NoWork

(* The next receipt of the batch, or an idle worker, is a well-typed state. *)
LEMMA ProceedTyped ==
  ASSUME TypeOK, NEW w \in Workers, Proceed(w)
  PROVE  worker' \in RunType
  BY DEF TypeOK, Proceed, NoWork, RunType

(* Moving a worker to another stage of its receipt keeps the types.         *)
LEMMA GotoTyped ==
  ASSUME TypeOK, NEW w \in Workers, NEW pc \in {"fetch", "apply", "locked", "retry", "reject"},
         Goto(w, pc)
  PROVE  worker' \in RunType
  BY DEF TypeOK, Goto, RunType

(* A scan takes receipts that exist and brings the others a beat nearer.    *)
LEMMA ScanTyped ==
  ASSUME TypeOK, NEW w \in Workers, Scan(w)
  PROVE  TypeOK'
<1>1. Oldest(Due) \subseteq Events
  BY DEF Oldest, Due
<1>2. worker' \in RunType
  BY <1>1 DEF TypeOK, Scan, RunType
<1>3. rest' \in [Events -> 0..Rest]
  BY ActivationAssumption DEF TypeOK, Scan, Rested
<1> QED BY <1>2, <1>3 DEF TypeOK, Scan, RunType

(* A delivery stores a receipt once; it never touches what is stored.       *)
LEMMA DeliverStep ==
  ASSUME IInv, NEW e \in Events, Deliver(e)
  PROVE  IInv'
<1>1. Cardinality({f \in Events : inbox[f] # "absent"}) \in Nat
  BY ActivationAssumption, FS_Subset, FS_CardinalityType
<1>2. TypeOK'
  BY <1>1 DEF IInv, TypeOK, Deliver
<1>3. OneGrant' /\ (grants \subseteq verified)'
  BY DEF IInv, OneGrant, Deliver
<1>4. ProcessedGranted'
  BY DEF IInv, TypeOK, ProcessedGranted, Deliver
<1> QED BY <1>2, <1>3, <1>4 DEF IInv

(* The granting transaction preserves the invariant: a grant is added only  *)
(* for a user without one, together with its plan, its purchase record and  *)
(* the end of its receipt.                                                  *)
LEMMA ApplyStep ==
  ASSUME IInv, NEW w \in Workers, NEW e \in Events, Apply(w, e)
  PROVE  IInv'
<1> DEFINE p == Of[e]
           u == Buyer[p]
<1>0. p \in Payments /\ u \in Users \cup {None}
  BY ActivationAssumption
<1>1. worker' \in RunType
  <2>1. TypeOK
    BY DEF IInv
  <2> QED BY <2>1, ProceedTyped, GotoTyped DEF Apply
<1>2. CASE UNCHANGED ledger
  <2>1. TypeOK'
    BY <1>1, <1>2 DEF IInv, TypeOK, Apply, ledger, RunType
  <2> QED
    BY <2>1, <1>2 DEF IInv, OneGrant, ProcessedGranted, ledger
<1>3. CASE /\ inbox' = [inbox EXCEPT ![e] = "processed"]
           /\ Granted(p) /\ UNCHANGED <<verified, grants, plan>>
  <2>1. TypeOK'
    BY <1>1, <1>3 DEF IInv, TypeOK, Apply, RunType
  <2>2. ProcessedGranted'
    BY <1>3 DEF IInv, TypeOK, ProcessedGranted, Granted
  <2> QED
    BY <2>1, <2>2, <1>3 DEF IInv, OneGrant
<1>4. CASE /\ inbox' = [inbox EXCEPT ![e] = "processed"]
           /\ ~Prior(u)
           /\ verified' = verified \cup {p}
           /\ grants' = grants \cup {p}
           /\ plan' = [plan EXCEPT ![u] = p]
  <2>1. TypeOK'
    BY <1>0, <1>1, <1>4 DEF IInv, TypeOK, Apply, RunType
  <2>2. ProcessedGranted' /\ (grants \subseteq verified)'
    BY <1>4 DEF IInv, TypeOK, ProcessedGranted
  <2>3. OneGrant'
    <3>1. \A q \in grants : Buyer[q] # u
      BY <1>4 DEF Prior
    <3>2. \A v \in Users : plan'[v] = IF v = u THEN p ELSE plan[v]
      BY <1>4 DEF IInv, TypeOK
    <3> QED BY <3>1, <3>2, <1>4 DEF IInv, OneGrant
  <2> QED BY <2>1, <2>2, <2>3 DEF IInv
<1>5. \/ UNCHANGED ledger
      \/ /\ inbox' = [inbox EXCEPT ![e] = "processed"]
         /\ Granted(p) /\ UNCHANGED <<verified, grants, plan>>
      \/ /\ inbox' = [inbox EXCEPT ![e] = "processed"]
         /\ ~Prior(u)
         /\ verified' = verified \cup {p}
         /\ grants' = grants \cup {p}
         /\ plan' = [plan EXCEPT ![u] = p]
  BY DEF Apply, ledger
<1> HIDE DEF p, u
<1> QED BY <1>2, <1>3, <1>4, <1>5

(* A disposition only rests or quarantines a receipt that is pending.       *)
LEMMA DisposeStep ==
  ASSUME IInv, NEW w \in Workers, NEW e \in Events, Dispose(w, e)
  PROVE  IInv'
<1>1. TypeOK'
  <2>1. TypeOK
    BY DEF IInv
  <2>2. worker' \in RunType
    BY <2>1, ProceedTyped DEF Dispose
  <2>3. inbox' \in [Events -> {"absent", "pending", "processed", "quarantined"}]
    BY <2>1 DEF TypeOK, Dispose
  <2>4. rest' \in [Events -> 0..Rest]
    BY <2>1, ActivationAssumption DEF TypeOK, Dispose
  <2>5. UNCHANGED <<payment, received, verified, grants, plan, account>>
    BY DEF Dispose
  <2> QED BY <2>1, <2>2, <2>3, <2>4, <2>5 DEF TypeOK, RunType
<1>2. ProcessedGranted'
  BY DEF IInv, TypeOK, ProcessedGranted, Dispose
<1> QED
  BY <1>1, <1>2 DEF IInv, OneGrant, Dispose

(* The remaining steps of a worker change its own state and the back-off.   *)
LEMMA WorkerStep ==
  ASSUME IInv, NEW w \in Workers, NEW e \in Events,
         \/ Scan(w) \/ ReadReceipt(w, e) \/ FetchCapture(w, e) \/ LockUser(w, e)
         \/ FetchFails(w, e) \/ TransactionFails(w) \/ CrashWorker(w)
  PROVE  IInv'
<1>0. TypeOK
  BY DEF IInv
<1>1. TypeOK'
  <2>1. CASE Scan(w)
    BY <1>0, <2>1, ScanTyped
  <2>2. CASE FetchCapture(w, e)
    <3>1. payment[Of[e]] \in {"none", "captured", "refunded"}
      BY <1>0, ActivationAssumption DEF TypeOK
    <3>2. worker' \in RunType
      <4> DEFINE T == [pc : {"idle", "read", "fetch", "apply", "locked", "retry", "reject"},
                       todo : SUBSET Events, receipt : Events \cup {None},
                       seen : {"none", "captured", "refunded"}]
      <4>1. worker \in [Workers -> T]
        BY <1>0 DEF TypeOK
      <4>2. PICK x \in T : worker' = [worker EXCEPT ![w] = x]
        <5>1. [worker[w] EXCEPT !.pc = "apply", !.seen = payment[Of[e]]] \in T
          BY <3>1, <4>1
        <5> QED BY <2>2, <4>1, <5>1 DEF FetchCapture
      <4> QED BY <4>1, <4>2 DEF RunType
    <3>3. UNCHANGED <<payment, inbox, received, rest, verified, grants, plan, account>>
      BY <2>2 DEF FetchCapture
    <3> QED BY <1>0, <3>2, <3>3 DEF TypeOK, RunType
  <2>3. CASE ReadReceipt(w, e) \/ FetchFails(w, e) \/ LockUser(w, e) \/ TransactionFails(w)
    <3>1. worker' \in RunType
      BY <1>0, <2>3, ProceedTyped, GotoTyped DEF ReadReceipt, FetchFails, LockUser, TransactionFails
    <3> QED
      BY <1>0, <2>3, <3>1 DEF TypeOK, ReadReceipt, FetchFails, LockUser, TransactionFails, RunType
  <2>4. CASE CrashWorker(w)
    BY <1>0, <2>4 DEF TypeOK, CrashWorker, NoWork
  <2> QED BY <2>1, <2>2, <2>3, <2>4
<1>2. UNCHANGED ledger
  BY DEF Scan, ReadReceipt, FetchCapture, FetchFails, LockUser, TransactionFails, CrashWorker,
         ledger
<1> QED
  BY <1>1, <1>2 DEF IInv, OneGrant, ProcessedGranted, ledger

(* Requests, cancellations and purges of accounts, edits by administrators  *)
(* and verified checkouts: a purge drops a plan and keeps its grant.        *)
LEMMA PeopleStep ==
  ASSUME IInv, People
  PROVE  IInv'
<1>1. ASSUME NEW p \in Payments, VerifyPayment(p) PROVE IInv'
  BY <1>1 DEF IInv, TypeOK, OneGrant, ProcessedGranted, VerifyPayment
<1>2. ASSUME NEW u \in Users, ChangeAccount(u) PROVE IInv'
  <2>1. TypeOK'
    <3>1. account' \in [Users -> Account]
      <4>1. account \in [Users -> Account]
        BY DEF IInv, TypeOK
      <4>2. PICK x \in Account : account' = [account EXCEPT ![u] = x]
        <5>1. \A a \in Account, d \in {"none", "pending"}, b \in BOOLEAN :
                [a EXCEPT !.deletion = d] \in Account /\ [a EXCEPT !.enabled = b] \in Account
          BY DEF Account
        <5>2. account[u] \in Account
          BY <4>1
        <5>3. CASE Request(u)
          BY <5>1, <5>2, <5>3 DEF Request
        <5>4. CASE Withdraw(u)
          BY <5>1, <5>2, <5>4 DEF Withdraw
        <5>5. ASSUME NEW b \in BOOLEAN, Switch(u, b)
              PROVE  \E x \in Account : account' = [account EXCEPT ![u] = x]
          BY <5>1, <5>2, <5>5 DEF Switch
        <5> QED BY <1>2, <5>3, <5>4, <5>5 DEF ChangeAccount
      <4> QED BY <4>1, <4>2
    <3> QED BY <1>2, <3>1 DEF IInv, TypeOK, ChangeAccount
  <2> QED
    BY <1>2, <2>1 DEF IInv, OneGrant, ProcessedGranted, ChangeAccount
<1>3. ASSUME NEW u \in Users, PurgeAccount(u) PROVE IInv'
  <2>1. TypeOK'
    BY <1>3 DEF IInv, TypeOK, PurgeAccount, Purge, Account
  <2>2. \A v \in Users : plan'[v] = IF v = u THEN None ELSE plan[v]
    BY <1>3 DEF IInv, TypeOK, PurgeAccount
  <2> QED
    BY <1>3, <2>1, <2>2 DEF IInv, OneGrant, ProcessedGranted, PurgeAccount
<1> QED BY <1>1, <1>2, <1>3 DEF People

(* What the provider does to a payment changes nothing stored here.         *)
LEMMA ProviderStep ==
  ASSUME IInv, Provider
  PROVE  IInv'
<1>1. ASSUME NEW p \in Payments, Capture(p) \/ Refund(p) PROVE IInv'
  BY <1>1 DEF IInv, TypeOK, OneGrant, ProcessedGranted, Capture, Refund
<1> QED BY <1>1, DeliverStep DEF Provider

(* Every step preserves the invariant.                                      *)
LEMMA StepInvariant == IInv /\ [Next]_vars => IInv'
<1> SUFFICES ASSUME IInv, [Next]_vars PROVE IInv'
  OBVIOUS
<1>1. CASE UNCHANGED vars
  BY <1>1 DEF IInv, TypeOK, OneGrant, ProcessedGranted, vars
<1>2. ASSUME NEW w \in Workers, Work(w) PROVE IInv'
  <2>1. CASE \E e \in Events : Apply(w, e)
    BY <2>1, ApplyStep
  <2>2. CASE \E e \in Events : Dispose(w, e)
    BY <2>2, DisposeStep
  <2>3. CASE \E e \in Events : ReadReceipt(w, e) \/ FetchCapture(w, e) \/ FetchFails(w, e)
                             \/ LockUser(w, e)
    BY <2>3, WorkerStep
  <2>4. CASE Scan(w) \/ TransactionFails(w) \/ CrashWorker(w)
    <3>1. CASE Events = {}
      <4>1. TypeOK'
        <5>1. TypeOK
          BY DEF IInv
        <5>2. CASE Scan(w)
          BY <5>1, <5>2, ScanTyped
        <5>3. CASE TransactionFails(w) \/ CrashWorker(w)
          <6>1. worker' \in RunType
            BY <5>1, <5>3, ProceedTyped DEF TransactionFails, CrashWorker, TypeOK, NoWork, RunType
          <6> QED BY <5>1, <5>3, <6>1 DEF TypeOK, TransactionFails, CrashWorker, RunType
        <5> QED BY <2>4, <5>2, <5>3
      <4> QED
        BY <2>4, <4>1 DEF IInv, OneGrant, ProcessedGranted, Scan,
                          TransactionFails, CrashWorker
    <3>2. CASE Events # {}
      BY <2>4, <3>2, WorkerStep
    <3> QED BY <3>1, <3>2
  <2> QED BY <1>2, <2>1, <2>2, <2>3, <2>4 DEF Work
<1> QED BY <1>1, <1>2, ProviderStep, PeopleStep DEF Next

(* The invariant holds in every reachable state, with no fairness assumed.  *)
THEOREM Invariant == Spec => []IInv
  BY InitInvariant, StepInvariant, PTL DEF Spec

(* The inbox, the ledger and the workers keep their types: process_receipt  *)
(* leaves no row in a state the models do not name.                         *)
THEOREM TypeCorrect == Spec => []TypeOK
  BY Invariant, PTL DEF IInv

(* process_receipt grants a user at most one first purchase, and the plan   *)
(* in force is the one that purchase paid for.                              *)
THEOREM GrantedOnce == Spec => []OneGrant
  BY Invariant, PTL DEF IInv

(* A receipt marked processed was granted and recorded: processed() is      *)
(* committed with the grant or finds it already there.                      *)
THEOREM NoChargeDropped == Spec => []ProcessedGranted
  BY Invariant, PTL DEF IInv

(* disposition() and process_receipt() look at the receipt again under its  *)
(* lock, so no slower worker moves it once it is settled.                   *)
THEOREM ReceiptsStaySettled == Spec => TerminalReceipts
<1>1. IInv /\ [Next]_vars =>
        [\A e \in Events : inbox[e] \in {"processed", "quarantined"}
                             => inbox'[e] = inbox[e]]_vars
  <2> SUFFICES ASSUME IInv, Next, NEW f \in Events,
                      inbox[f] \in {"processed", "quarantined"}
               PROVE  inbox'[f] = inbox[f]
    OBVIOUS
  <2>1. ASSUME NEW e \in Events, Deliver(e) PROVE inbox'[f] = inbox[f]
    BY <2>1 DEF Deliver, IInv, TypeOK
  <2>2. ASSUME NEW w \in Workers, NEW e \in Events, Apply(w, e) \/ Dispose(w, e)
        PROVE  inbox'[f] = inbox[f]
    BY <2>2 DEF Apply, Dispose, IInv, TypeOK
  <2>3. ASSUME NEW w \in Workers, NEW e \in Events,
               ReadReceipt(w, e) \/ FetchCapture(w, e) \/ FetchFails(w, e) \/ LockUser(w, e)
        PROVE  UNCHANGED inbox
    BY <2>3 DEF ReadReceipt, FetchCapture, FetchFails, LockUser
  <2>4. ASSUME NEW w \in Workers, Scan(w) \/ TransactionFails(w) \/ CrashWorker(w)
        PROVE  UNCHANGED inbox
    BY <2>4 DEF Scan, TransactionFails, CrashWorker
  <2>5. ASSUME People \/ \E p \in Payments : Capture(p) \/ Refund(p)
        PROVE  UNCHANGED inbox
    BY <2>5 DEF People, VerifyPayment, ChangeAccount, PurgeAccount, Capture, Refund
  <2> QED BY <2>1, <2>2, <2>3, <2>4, <2>5 DEF Next, Provider, Work
<1> QED BY <1>1, Invariant, PTL DEF Spec, TerminalReceipts

(* Proceeding, failing and going on with another receipt leave no lock and  *)
(* no customer behind.                                                      *)
LEMMA ProceedReleases ==
  ASSUME TypeOK, NEW w \in Workers, Proceed(w) \/ worker' = [worker EXCEPT ![w] = NoWork]
  PROVE  /\ worker'[w].pc \in {"idle", "read"}
         /\ \A x \in Workers \ {w} : worker'[x] = worker[x]
  BY DEF TypeOK, Proceed, NoWork

(* A run that goes to another stage keeps its receipt.                      *)
LEMMA GotoKeeps ==
  ASSUME TypeOK, NEW w \in Workers, NEW pc, Goto(w, pc)
  PROVE  /\ worker'[w].pc = pc /\ worker'[w].receipt = worker[w].receipt
         /\ \A x \in Workers \ {w} : worker'[x] = worker[x]
  BY DEF TypeOK, Goto

(* A step of one run that leaves the accounts alone keeps the fence, if it  *)
(* ends outside the fenced stages or with an entitled customer.             *)
LEMMA RunKeepsFence ==
  ASSUME Fenced, NEW w \in Workers, UNCHANGED account,
         \A x \in Workers \ {w} : worker'[x] = worker[x],
         worker'[w].pc \in {"fetch", "apply", "locked"} => Customer(w)' \in Users,
         worker'[w].pc = "locked" => Entitled(Customer(w))'
  PROVE  Fenced'
  BY DEF Fenced, Customer, Entitled

(* Every step of a run keeps the fence.                                     *)
LEMMA WorkKeepsFence ==
  ASSUME TypeOK, Fenced, NEW w \in Workers, Work(w)
  PROVE  Fenced'
<1>1. CASE Scan(w)
  <2>1. CASE UNCHANGED worker
    BY <1>1, <2>1 DEF Scan, Fenced, Customer, Entitled
  <2>2. CASE worker' # worker
    <3>1. /\ worker'[w].pc = "read" /\ \A x \in Workers \ {w} : worker'[x] = worker[x]
          /\ UNCHANGED account
      BY <1>1, <2>2 DEF Scan, TypeOK
    <3> QED BY <3>1, RunKeepsFence
  <2> QED BY <2>1, <2>2
<1>2. CASE TransactionFails(w) \/ CrashWorker(w)
  <2>1. UNCHANGED account
    BY <1>2 DEF TransactionFails, CrashWorker
  <2> QED
    BY <1>2, <2>1, ProceedReleases, RunKeepsFence DEF TransactionFails, CrashWorker
<1>3. ASSUME NEW e \in Events, ReadReceipt(w, e) PROVE Fenced'
  <2>1. UNCHANGED account
    BY <1>3 DEF ReadReceipt
  <2>2. CASE Proceed(w)
    BY <2>1, <2>2, ProceedReleases, RunKeepsFence
  <2>3. CASE Goto(w, "retry")
    BY <2>1, <2>3, GotoKeeps, RunKeepsFence
  <2>4. CASE Goto(w, "fetch") /\ Buyer[Of[e]] # None
    <3>1. worker'[w].pc = "fetch" /\ Customer(w)' = Buyer[Of[e]]
      BY <1>3, <2>4, GotoKeeps DEF Customer, ReadReceipt, At
    <3>2. Buyer[Of[e]] \in Users
      BY <2>4, ActivationAssumption
    <3> QED BY <2>1, <2>4, <3>1, <3>2, GotoKeeps, RunKeepsFence
  <2> QED BY <1>3, <2>2, <2>3, <2>4 DEF ReadReceipt
<1>4. ASSUME NEW e \in Events, FetchCapture(w, e) PROVE Fenced'
  <2>1. /\ worker'[w].pc = "apply" /\ worker'[w].receipt = worker[w].receipt
        /\ \A x \in Workers \ {w} : worker'[x] = worker[x]
        /\ UNCHANGED account
    BY <1>4 DEF FetchCapture, TypeOK
  <2>2. Customer(w) \in Users
    BY <1>4 DEF FetchCapture, At, Fenced
  <2> QED BY <2>1, <2>2, RunKeepsFence DEF Customer
<1>5. ASSUME NEW e \in Events, FetchFails(w, e) PROVE Fenced'
  <2>1. UNCHANGED account /\ Goto(w, "retry")
    BY <1>5 DEF FetchFails
  <2> QED BY <2>1, GotoKeeps, RunKeepsFence
<1>6. ASSUME NEW e \in Events, LockUser(w, e) PROVE Fenced'
  <2>1. UNCHANGED account
    BY <1>6 DEF LockUser
  <2>2. CASE Goto(w, "reject")
    BY <2>1, <2>2, GotoKeeps, RunKeepsFence
  <2>3. CASE Goto(w, "locked") /\ Entitled(Buyer[Of[e]])
    <3>1. Customer(w) = Buyer[Of[e]] /\ Customer(w) \in Users
      BY <1>6 DEF LockUser, At, Fenced, Customer
    <3>2. Customer(w)' = Customer(w) /\ Entitled(Customer(w))'
      BY <2>1, <2>3, <3>1, GotoKeeps DEF Customer, Entitled
    <3> QED BY <2>1, <2>3, <3>1, <3>2, GotoKeeps, RunKeepsFence
  <2> QED BY <1>6, <2>2, <2>3 DEF LockUser
<1>7. ASSUME NEW e \in Events, Apply(w, e) \/ Dispose(w, e) PROVE Fenced'
  <2>1. UNCHANGED account /\ (Proceed(w) \/ Goto(w, "reject"))
    BY <1>7 DEF Apply, Dispose
  <2> QED BY <2>1, ProceedReleases, GotoKeeps, RunKeepsFence
<1> QED BY <1>1, <1>2, <1>3, <1>4, <1>5, <1>6, <1>7 DEF Work

(* Whoever changes an account waits for its row, so that what a run has     *)
(* seen of it under the lock stays true until the run is done.              *)
LEMMA PeopleKeepFence ==
  ASSUME TypeOK, Fenced, People
  PROVE  Fenced'
<1>1. UNCHANGED worker
  BY DEF People, VerifyPayment, ChangeAccount, PurgeAccount
<1> SUFFICES ASSUME NEW w \in Workers, worker[w].pc = "locked",
                    Customer(w) \in Users, Entitled(Customer(w))
             PROVE  Entitled(Customer(w))'
  BY <1>1 DEF Fenced, Customer
<1>2. \A u \in Users : UserFree(u) => u # Customer(w)
  BY DEF UserFree, Customer
<1>3. Customer(w)' = Customer(w)
  BY <1>1 DEF Customer
<1> DEFINE me == Customer(w)
<1>4. \A u \in Users \ {me} : (Request(u) \/ Withdraw(u) \/ Purge(u) \/ \E b \in BOOLEAN : Switch(u, b))
                                => account'[me] = account[me]
  BY DEF Request, Withdraw, Purge, Switch, TypeOK
<1>5. ~Withdraw(me)
  BY DEF Withdraw, Entitled
<1> HIDE DEF me
<1>6. account'[me] = account[me]
  <2>1. ASSUME NEW u \in Users, ChangeAccount(u) PROVE account'[me] = account[me]
    BY <1>2, <1>4, <1>5, <2>1 DEF ChangeAccount, me
  <2>2. ASSUME NEW u \in Users, PurgeAccount(u) PROVE account'[me] = account[me]
    BY <1>2, <1>4, <2>2 DEF PurgeAccount, me
  <2>3. ASSUME NEW p \in Payments, VerifyPayment(p) PROVE account'[me] = account[me]
    BY <2>3 DEF VerifyPayment
  <2> QED BY <2>1, <2>2, <2>3 DEF People
<1> QED BY <1>3, <1>6 DEF Entitled, me

(* The account seen under the lock is the account at the commit.            *)
THEOREM FenceHolds == Spec => []Fenced
<1>1. Init => Fenced
  BY DEF Init, Fenced, NoWork
<1>2. IInv /\ Fenced /\ [Next]_vars => Fenced'
  <2> SUFFICES ASSUME TypeOK, Fenced, [Next]_vars PROVE Fenced'
    BY DEF IInv
  <2>1. CASE UNCHANGED vars
    BY <2>1 DEF vars, Fenced, Customer, Entitled
  <2>2. CASE Provider
    <3>1. UNCHANGED <<worker, account>>
      BY <2>2 DEF Provider, Capture, Refund, Deliver
    <3> QED BY <3>1 DEF Fenced, Customer, Entitled
  <2> QED BY <2>1, <2>2, WorkKeepsFence, PeopleKeepFence DEF Next
<1> QED BY <1>1, <1>2, Invariant, PTL DEF Spec

(* The user's row is locked before anything is granted and kept to the end  *)
(* of the transaction, so a plan is never given to a disabled user or       *)
(* across a deletion, although Apply itself does not look at the account.   *)
THEOREM NoResurrection == Spec => GrantsOnlyEntitled
<1>1. IInv /\ Fenced /\ [Next]_vars =>
        [\A u \in Users : plan'[u] \notin {plan[u], None} =>
           account[u].enabled /\ account[u].deletion = "none"]_vars
  <2> SUFFICES ASSUME IInv, Fenced, Next, NEW u \in Users, plan'[u] \notin {plan[u], None}
               PROVE  Entitled(u)
    BY DEF Entitled
  <2>1. ASSUME NEW w \in Workers, NEW e \in Events, Apply(w, e) PROVE Entitled(u)
    <3>1. Entitled(Buyer[Of[e]])
      BY <2>1 DEF Apply, At, Fenced, Customer
    <3>2. CASE UNCHANGED plan
      BY <3>2
    <3>3. CASE plan' = [plan EXCEPT ![Buyer[Of[e]]] = Of[e]]
      BY <3>1, <3>3 DEF IInv, TypeOK
    <3> QED BY <2>1, <3>2, <3>3 DEF Apply
  <2>2. ASSUME NEW v \in Users, PurgeAccount(v) PROVE FALSE
    BY <2>2 DEF PurgeAccount, IInv, TypeOK
  <2>3. ASSUME NEW w \in Workers, NEW e \in Events,
               \/ ReadReceipt(w, e) \/ FetchCapture(w, e) \/ FetchFails(w, e)
               \/ LockUser(w, e) \/ Dispose(w, e)
        PROVE  UNCHANGED plan
    BY <2>3 DEF ReadReceipt, FetchCapture, FetchFails, LockUser, Dispose
  <2>4. ASSUME NEW w \in Workers, Scan(w) \/ TransactionFails(w) \/ CrashWorker(w)
        PROVE  UNCHANGED plan
    BY <2>4 DEF Scan, TransactionFails, CrashWorker
  <2>5. ASSUME Provider PROVE UNCHANGED plan
    BY <2>5 DEF Provider, Capture, Refund, Deliver
  <2>6. ASSUME People, \A v \in Users : ~PurgeAccount(v) PROVE UNCHANGED plan
    BY <2>6 DEF People, VerifyPayment, ChangeAccount
  <2> QED BY <2>1, <2>2, <2>3, <2>4, <2>5, <2>6 DEF Next, Work
<1> QED BY <1>1, Invariant, FenceHolds, PTL DEF Spec, GrantsOnlyEntitled
=============================================================================
