------------------------------ MODULE Invoices ------------------------------
(***************************************************************************)
(* Invoices, the payments that settle them and the questions the matcher     *)
(* asks when it is not sure.  Translated from services/invoice_service.py,   *)
(* services/reconciliation_service.py, _engine.py, _suggestion_service.py    *)
(* and api/invoices.py, api/reconciliation.py.                               *)
(*                                                                          *)
(* A request reads what it needs in one database transaction, decides, and   *)
(* writes at its end; others commit in between.  Whether a pair looks alike  *)
(* is left to the policy, a document the user edits: any answer is possible. *)
(***************************************************************************)
EXTENDS Integers, FiniteSets, SequencesExt

CONSTANTS
  Invs,      \* invoices.id
  Payments,  \* transactions.id of money that may arrive
  Cents,     \* Cents[x]: the total of an invoice, the amount of a payment
  Requests,  \* requests and jobs being served
  Series     \* the workspace named a series for its numbers

ASSUME InvoicesAssumption ==
  /\ IsFiniteSet(Invs) /\ IsFiniteSet(Payments)
  /\ Cents \in [Invs \cup Payments -> Nat \ {0}]
  /\ Series \in BOOLEAN

VARIABLES
  inv,         \* status and number of each invoice
  nextNumber,  \* invoice_settings.next_number
  money,       \* payments that are on the books, and that were deleted
  allocs,      \* invoice_allocations
  asked,       \* reconciliation_suggestions, by payment and invoice
  req          \* what an open request holds and is about to write

invVars == <<inv, nextNumber, money, allocs, asked, req>>

Pairs      == Payments \X Invs
Unasked    == [status |-> "none"]
Answered   == {"accepted", "declined", "expired"}
Question(S, n) == [status |-> "pending", set |-> S, cents |-> n]
Alloc(t, i, n, by) == [pay |-> t, inv |-> i, cents |-> n, by |-> by]
AllocType  == [pay : Payments, inv : Invs, cents : Nat \ {0}, by : {"hand", "rule", "answer"}]

(* What a request writes when it commits; as long as it is open it holds    *)
(* the rows it read FOR UPDATE.                                             *)
Nothing == [x \in {} |-> x]
Idle ==
  [op |-> "idle", holds |-> {}, status |-> Nothing, number |-> Nothing, lands |-> {},
   links |-> {}, unlinks |-> {}, asks |-> Nothing, answers |-> Nothing]

Landed == {t \in Payments : money[t] = "landed"}

InvTypeOK ==
  /\ inv \in [Invs -> [status : {"absent", "deleted", "draft", "open", "void", "uncollectible"},
                       number : Nat]]
  /\ nextNumber \in Nat \ {0}
  /\ money \in [Payments -> {"expected", "landed", "deleted"}]
  /\ allocs \subseteq AllocType /\ \A a \in allocs : a.pay \in Landed
  /\ \A p \in Pairs : asked[p] = Unasked \/
       asked[p] \in [status : {"pending"} \cup Answered, set : SUBSET Invs, cents : Nat]
  /\ \A h \in Requests : DOMAIN req[h] = DOMAIN Idle

InvInit ==
  /\ inv = [i \in Invs |-> [status |-> "absent", number |-> 0]]
  /\ nextNumber = 1 /\ allocs = {}
  /\ money = [t \in Payments |-> "expected"]
  /\ asked = [p \in Pairs |-> Unasked]
  /\ req = [h \in Requests |-> Idle]
-----------------------------------------------------------------------------
(* derive_state and balance.                                                *)
Of(i)      == {a \in allocs : a.inv = i}
Spent(t)   == {a \in allocs : a.pay = t}
Balance(i) == Cents[i] - SumFunction([a \in Of(i) |-> a.cents])
Waiting    == {i \in Invs : inv[i].status = "open" /\ Balance(i) > 0}
Least(a, b) == IF a < b THEN a ELSE b

(* allocate, as far as one request can see.                                 *)
Allocatable(i, n) == inv[i].status = "open" /\ 0 < n /\ n <= Balance(i)

(* _share_out: what a payment settles of each of several promises; it is    *)
(* shared in proportion when it is short, and the last promise gets the     *)
(* cents that rounding left.                                                *)
ShareOut(moved, promises) ==
  LET S        == ToSet(promises)
      total    == SumFunction([i \in S |-> Balance(i)])
      share(i) == (moved * Balance(i)) \div total
      last     == Last(promises)
      spent    == SumFunction([i \in S \ {last} |-> share(i)])
  IN  [i \in S |-> IF total <= moved THEN Balance(i)
                   ELSE IF i = last THEN moved - spent ELSE share(i)]

(* evaluate: what the strategies may decide about a payment.  One promise   *)
(* is settled as far as the money goes.                                     *)
Decisions(t, candidates) ==
  {[i \in {c} |-> Least(Cents[t], Balance(c))] : c \in candidates} \cup
  {ShareOut(Cents[t], s) :
     s \in UNION {SetToSeqs(S) : S \in {X \in SUBSET candidates : Cardinality(X) > 1}}}

Links(t, d, by) == {Alloc(t, i, d[i], by) : i \in DOMAIN d}
Fits(d)         == \A i \in DOMAIN d : Allocatable(i, d[i])

(* record: a pair is asked about once, whatever became of it.               *)
Fresh(t, d)     == \A i \in DOMAIN d : asked[<<t, i>>] = Unasked
Asks(t, d)      == [p \in {t} \X DOMAIN d |-> Question(DOMAIN d, d[p[2]])]
-----------------------------------------------------------------------------
Submits(h, e) ==
  /\ req[h] = Idle
  /\ req' = [req EXCEPT ![h] = e]
  /\ UNCHANGED <<inv, nextNumber, money, allocs, asked>>

Sets(i, s)  == [Idle EXCEPT !.op = "status", !.status = [x \in {i} |-> s]]
Opened(i)   == [Sets(i, "open") EXCEPT !.op = "issue"]

(* _settings_for_update: the row is locked before it is written, and its    *)
(* number was read before that.                                             *)
Numbered(i) == [Opened(i) EXCEPT !.number = [x \in {i} |-> nextNumber]]

(* create_invoice: a draft, one that is open at once, or an imported one,   *)
(* which keeps its own name.                                                *)
Creates(h, i) ==
  /\ inv[i].status = "absent" /\ \A k \in Requests : i \notin DOMAIN req[k].status
  /\ \E e \in {Sets(i, "draft"), Numbered(i), Opened(i)} : Submits(h, e)

Issues(h, i)       == inv[i].status = "draft" /\ Submits(h, Numbered(i))
DeletesDraft(h, i) == inv[i].status = "draft" /\ Submits(h, Sets(i, "deleted"))
WritesOff(h, i)    == inv[i].status = "open" /\ Submits(h, Sets(i, "uncollectible"))
Reopens(h, i)      == inv[i].status = "uncollectible" /\ Submits(h, Sets(i, "open"))
Voids(h, i) ==
  /\ inv[i].status \in {"open", "uncollectible"} /\ Of(i) = {}
  /\ Submits(h, Sets(i, "void"))

(* A link made by hand: what fits, or an amount the user typed.             *)
Allocates(h, i, t) ==
  /\ t \in Landed
  /\ \E n \in {Least(Balance(i), Cents[t]), Balance(i)} :
       /\ Allocatable(i, n)
       /\ Submits(h, [Idle EXCEPT !.op = "link", !.links = {Alloc(t, i, n, "hand")}])

Unallocates(h, a) ==
  a \in allocs /\ Submits(h, [Idle EXCEPT !.op = "unlink", !.unlinks = {a}])

(* match_incoming, in the transaction that books the payment.               *)
Arrives(h, t) ==
  LET booked == [Idle EXCEPT !.op = "match", !.lands = {t}] IN
  /\ money[t] = "expected" /\ \A k \in Requests : t \notin req[k].lands
  /\ \/ Submits(h, booked)
     \/ \E d \in Decisions(t, Waiting) :
          \/ Fits(d) /\ Submits(h, [booked EXCEPT !.links = Links(t, d, "rule")])
          \/ Fresh(t, d) /\ Submits(h, [booked EXCEPT !.asks = Asks(t, d)])

(* match_for_invoice, once the document was issued: a payment that is free  *)
(* and the only one that fits is linked, those that might fit are asked.    *)
LooksBack(h, i) ==
  LET free == {t \in Landed : Spent(t) = {}}
      d(t) == [x \in {i} |-> Least(Cents[t], Balance(i))]
  IN
  /\ req[h].op = "look" /\ i \in DOMAIN req[h].status
  /\ \E T \in SUBSET {t \in free : Fresh(t, d(t))}, L \in SUBSET free :
       /\ Cardinality(L) <= 1 /\ L \cap T = {}
       /\ L \cup T # {} => i \in Waiting
       /\ req' = [req EXCEPT ![h] = [Idle EXCEPT
                    !.op = "match",
                    !.asks = [p \in T \X {i} |-> Question({i}, d(p[1])[i])],
                    !.links = UNION {Links(t, d(t), "rule") : t \in L}]]
  /\ UNCHANGED <<inv, nextNumber, money, allocs, asked>>
-----------------------------------------------------------------------------
Members(p)    == {p[1]} \X asked[p].set
Answers(p, s) == [Idle EXCEPT !.op = "answer", !.answers = [q \in Members(p) |-> s]]

(* get: the row is read FOR UPDATE, once nobody else holds it.              *)
Unlocked(p)    == \A h \in Requests : p \notin req[h].holds
Takes(p, s)    == [Answers(p, s) EXCEPT !.holds = {p}]

Accepts(h, p) ==
  /\ Unlocked(p) /\ asked[p].status = "pending"
  /\ \A q \in Members(p) : Allocatable(q[2], asked[q].cents)
  /\ Submits(h, [Takes(p, "accepted") EXCEPT
       !.links = {Alloc(q[1], q[2], asked[q].cents, "answer") : q \in Members(p)}])

Declines(h, p) ==
  Unlocked(p) /\ asked[p].status = "pending" /\ Submits(h, Takes(p, "declined"))

(* expire_stale, which takes no lock.                                       *)
Expires(h, p) == asked[p].status = "pending" /\ Submits(h, Answers(p, "expired"))

(* Fault: a question is deleted when it was answered.                       *)
Forgotten(q, s) == Unasked

(* _resolve: the row stays.                                                 *)
Resolved(q, s) == [asked[q] EXCEPT !.status = s]
-----------------------------------------------------------------------------
PairsOf(links) == {<<a.pay, a.inv>> : a \in links}

(* The constraints of invoice_allocations.                                  *)
Clashes(e) ==
  \/ PairsOf(e.links) \cap PairsOf(allocs) # {}
  \/ \E a \in e.links : a.pay \notin Landed \cup e.lands \/ inv[a.inv].status = "deleted"

(* A constraint or an update of a row that is gone fails the request; what  *)
(* the matcher links is in a savepoint of its own.                          *)
Fails(e) ==
  \/ e.op # "match" /\ Clashes(e)
  \/ \E i \in DOMAIN e.status : inv[i].status = "deleted"
  \/ \E p \in DOMAIN e.asks : asked[p] # Unasked \/ p[1] \notin Landed \cup e.lands
  \/ \E p \in DOMAIN e.answers : asked[p] = Unasked
  \/ Series /\ \E i \in DOMAIN e.number, j \in Invs : j # i /\ inv[j].number = e.number[i]

(* An update waits for the transaction that holds the row.                  *)
Waits(h) == \E k \in Requests \ {h} : req[k].holds \cap DOMAIN req[h].answers # {}

After(f, g) == [x \in DOMAIN f |-> IF x \in DOMAIN g THEN g[x] ELSE f[x]]

Writes(h) ==
  LET e == req[h] IN
  /\ e.op \notin {"idle", "look"} /\ ~Waits(h) /\ ~Fails(e)
  /\ inv' = [i \in Invs |->
       [status |-> IF i \in DOMAIN e.status THEN e.status[i] ELSE inv[i].status,
        number |-> IF i \in DOMAIN e.number THEN e.number[i] ELSE inv[i].number]]
  /\ nextNumber' = IF e.number = Nothing THEN nextNumber ELSE Max(Range(e.number)) + 1
  /\ money'  = [t \in Payments |-> IF t \in e.lands THEN "landed" ELSE money[t]]
  /\ allocs' = (allocs \cup IF Clashes(e) THEN {} ELSE e.links) \ e.unlinks
  /\ asked'  = After(After(asked, e.asks),
                     [q \in DOMAIN e.answers |-> Resolved(q, e.answers[q])])
  /\ req'    = [req EXCEPT ![h] = IF e.op = "issue" THEN [Idle EXCEPT !.op = "look",
                                                            !.status = e.status]
                                  ELSE Idle]

(* The request fails, or its process dies, before the commit.               *)
Drops(h) ==
  /\ req[h] # Idle /\ req' = [req EXCEPT ![h] = Idle]
  /\ UNCHANGED <<inv, nextNumber, money, allocs, asked>>

(* Fault: the links of a deleted payment stay.                              *)
LinksStay(t) == allocs

(* A transaction is deleted: what points at it goes with it.                *)
LinksWithout(t) == allocs \ Spent(t)

DeletesPayment(t) ==
  /\ t \in Landed /\ \A p \in {t} \X Invs : Unlocked(p)
  /\ money' = [money EXCEPT ![t] = "deleted"]
  /\ allocs' = LinksWithout(t)
  /\ asked' = [p \in Pairs |-> IF p[1] = t THEN Unasked ELSE asked[p]]
  /\ UNCHANGED <<inv, nextNumber, req>>

InvNext ==
  \/ \E h \in Requests :
       \/ \E i \in Invs :
            \/ Creates(h, i) \/ Issues(h, i) \/ DeletesDraft(h, i)
            \/ WritesOff(h, i) \/ Reopens(h, i) \/ Voids(h, i) \/ LooksBack(h, i)
            \/ \E t \in Payments : Allocates(h, i, t)
       \/ \E a \in allocs : Unallocates(h, a)
       \/ \E t \in Payments : Arrives(h, t)
       \/ \E p \in Pairs : Accepts(h, p) \/ Declines(h, p) \/ Expires(h, p)
       \/ Writes(h) \/ Drops(h)
  \/ \E t \in Payments : DeletesPayment(t)

InvSpec == InvInit /\ [][InvNext]_invVars
-----------------------------------------------------------------------------
(* As long as the payment exists, a question leaves the queue only by an    *)
(* answer that stays on record, so that no later import or document can ask *)
(* it again (reconciliation_suggestion_service.py:102).                     *)
NeverReasked ==
  [][\A p \in Pairs : asked[p] # Unasked /\ money'[p[1]] = "landed" =>
       \/ asked'[p] = asked[p]
       \/ asked'[p].status \in Answered]_invVars

(* A question about one invoice that the queue shows as declined has not    *)
(* settled it, whoever else answered at the same moment                     *)
(* (reconciliation_suggestion_service.py:225).                              *)
QueueAgrees ==
  \A p \in Pairs : asked[p].status = "declined" /\ asked[p].set = {p[2]} =>
    \A a \in allocs : <<a.pay, a.inv>> = p => a.by # "answer"

(* invoice_service.py:84, models/invoice.py:113: two documents never carry  *)
(* one number.                                                              *)
NumberedOnce ==
  \A i, j \in Invs : i # j => inv[i].number # inv[j].number \/ inv[i].number = 0

(* reconciliation_engine.py:501: a share settles no more than its promise   *)
(* is owed.                                                                 *)
SharesFit ==
  \A t \in Payments : \A d \in Decisions(t, Waiting) : \A i \in DOMAIN d : d[i] <= Balance(i)
=============================================================================
