------------------------------ MODULE BankFeed ------------------------------
(***************************************************************************)
(* What a bank reports about one account, merged into the ledger beside what *)
(* the user types and what a recurring bill generates ahead of the charge.   *)
(* Translated from services/connection_service.py (sync_connection and its   *)
(* matchers), services/recurring_transaction_service.py,                     *)
(* services/recurring_match_service.py.  The synthetic opening transaction   *)
(* that makes the rows add up to the bank's balance is left out.             *)
(*                                                                          *)
(* Operations with the same window look alike to every matcher: same amount, *)
(* direction and day, similar descriptions.  Window k > 0 is that of         *)
(* occurrence k of the bill; window 0 is none of its.                        *)
(***************************************************************************)
EXTENDS Integers, FiniteSets, SequencesExt

CONSTANTS
  Ops,          \* operations of the bank
  Window,       \* Window[o]: the occurrence an operation looks like
  Occurrences,  \* occurrences until the bill's end date
  RowIds,       \* transactions.id, in the order of creation
  Writers,      \* transactions that read, decide and then commit
  None

ASSUME FeedAssumption ==
  /\ IsFiniteSet(Ops)
  /\ Occurrences \in Nat /\ Window \in [Ops -> 0..Occurrences]
  /\ RowIds \subseteq Nat /\ IsFiniteSet(RowIds) /\ None \notin Ops \X {1, 2}

VARIABLES
  feed,     \* what the bank reports of an operation, under which id
  rows,     \* the account's transactions
  nextOcc,  \* recurring_transactions.next_occurrence
  today,    \* occurrences that came due
  hand,     \* history: the windows the user typed or hid a row in
  txn       \* what an open transaction read and is about to write

feedVars == <<feed, rows, nextOcc, today, hand, txn>>

Ids    == Ops \X {1, 2}
NoRow  == [source |-> "none"]
Row(kind, source, status, ext, bill) ==
  [kind |-> kind, source |-> source, status |-> status, ext |-> ext,
   bill |-> bill, ignored |-> FALSE, paired |-> FALSE]
RowType ==
  [kind : 0..Occurrences, source : {"manual", "recurring", "sync"},
   status : {"pending", "posted"}, ext : Ids \cup {None},
   bill : BOOLEAN, ignored : BOOLEAN, paired : BOOLEAN]
Says(status, id) == [status |-> status, id |-> id]
NoTxn      == [by |-> "none"]
Books(t, n) == [rows |-> t, nextOcc |-> n]

BooksType ==
  [rows : [RowIds -> RowType \cup {NoRow}], nextOcc : 1..(Occurrences + 1)]

FeedTypeOK ==
  /\ feed \in [Ops -> [status : {"none", "pending", "posted", "dropped"}, id : {1, 2}]]
  /\ Books(rows, nextOcc) \in BooksType
  /\ today \in 0..Occurrences /\ hand \subseteq {"typed", "hid"} \X (0..Occurrences)
  /\ \A w \in Writers : txn[w] = NoTxn \/
       txn[w] \in [by : {"sync", "generate"}, from : BooksType, to : BooksType]
-----------------------------------------------------------------------------
Live(t) == {r \in RowIds : t[r] # NoRow}

\* Ids are not used again: not while a transaction still knows them.
Held    == UNION {Live(txn[w].from.rows) : w \in {v \in Writers : txn[v] # NoTxn}}
Free(t) == RowIds \ (Live(t) \cup Held)
Insert(t, row) == [t EXCEPT ![Min(Free(t))] = row]

\* A report: an operation, the id it comes under and its status.
Listed(pending) ==
  {o \in Ops : feed[o].status \in {"posted"} \cup (IF pending THEN {"pending"} ELSE {})}
Report(o) == [op |-> o, ext |-> <<o, feed[o].id>>, status |-> feed[o].status]
LooksLike(row, rp) == row.kind = Window[rp.op]

SameId(t, rp) == {r \in Live(t) : t[r].ext = rp.ext}

(* _fuzzy_match_manual.                                                     *)
TypedTwins(t, rp) ==
  {r \in Live(t) : t[r].source = "manual" /\ t[r].ext = None /\ LooksLike(t[r], rp)}

(* Fault: rows of the same day and amount are taken for one operation,      *)
(* whatever their states.                                                   *)
AnyTwins(t, rp) ==
  {r \in Live(t) : t[r].source = "sync" /\ LooksLike(t[r], rp)}

(* Fault: a report under a new id is always a new operation.                *)
NoTwins(t, rp) == {}

(* _find_synced_duplicate: that the states differ is what tells a report    *)
(* that comes back under a new id from a second operation.                  *)
SyncedTwins(t, rp) ==
  {r \in Live(t) : t[r].source = "sync" /\ LooksLike(t[r], rp) /\ t[r].status # rp.status}

(* find_placeholder_for_incoming.                                           *)
Placeholders(t, rp) ==
  {r \in Live(t) : /\ t[r].source = "recurring" /\ t[r].bill /\ t[r].ext = None
                   /\ ~t[r].ignored /\ LooksLike(t[r], rp)}

(* find_bill_for_incoming and advance_past.                                 *)
Fulfils(n, rp) == n <= Occurrences /\ Window[rp.op] = n

Posted(row, rp) == row.status = "pending" /\ rp.status = "posted"

Collapsed(t, r, rp) ==
  IF Posted(t[r], rp) THEN [t EXCEPT ![r].status = "posted", ![r].ext = rp.ext] ELSE t

(* Queries return candidates in no particular order.                        *)
Pick(S, newest) == IF newest THEN Max(S) ELSE Min(S)

(* One report, folded into the ledger.                                      *)
Merged(b, rp, newest) ==
  LET t      == b.rows
      known  == SameId(t, rp)
      manual == TypedTwins(t, rp)
      twins  == SyncedTwins(t, rp)
      held   == Placeholders(t, rp)
  IN
  IF known # {} THEN
    LET r == Min(known) IN
    [b EXCEPT !.rows[r].status = IF ~t[r].ignored /\ Posted(t[r], rp) THEN "posted" ELSE @]
  ELSE IF manual # {} THEN
    LET r == Pick(manual, newest) IN
    IF t[r].ignored THEN b
    ELSE [b EXCEPT !.rows[r].ext = rp.ext, !.rows[r].source = "sync"]
  ELSE IF twins # {} THEN [b EXCEPT !.rows = Collapsed(t, Pick(twins, newest), rp)]
  ELSE IF held # {} THEN
    LET r == Pick(held, newest) IN
    [b EXCEPT !.rows[r].ext = rp.ext, !.rows[r].source = "sync", !.rows[r].status = rp.status]
  ELSE
    LET linked == Fulfils(b.nextOcc, rp) IN
    [b EXCEPT !.rows = Insert(t, Row(Window[rp.op], "sync", rp.status, rp.ext, linked)),
              !.nextOcc = IF linked THEN @ + 1 ELSE @]

(* detect_transfer_pairs: some of the new rows have a counterpart.          *)
Paired(b, P) ==
  [b EXCEPT !.rows = [r \in RowIds |-> IF r \in P THEN [b.rows[r] EXCEPT !.paired = TRUE]
                                       ELSE b.rows[r]]]

(* _cleanup_phantom_duplicates.                                             *)
Phantoms(t) ==
  {r \in Live(t) : /\ t[r].source = "sync" /\ ~t[r].paired
                   /\ \E x \in Live(t) \ {r} : /\ t[x].source = "sync" /\ t[x].paired
                                               /\ t[x].kind = t[r].kind}
Cleaned(b) ==
  [b EXCEPT !.rows = [r \in RowIds |-> IF r \in Phantoms(b.rows) THEN NoRow ELSE b.rows[r]]]

Current == Books(rows, nextOcc)

(* handle_oauth_callback: the first import of an account has nothing to     *)
(* match but itself.  The bill starts, at any of its occurrences, with it.  *)
First(t, rp) ==
  LET twins == SyncedTwins(t, rp) IN
  IF twins # {} THEN Collapsed(t, Min(twins), rp)
  ELSE Insert(t, Row(Window[rp.op], "sync", rp.status, rp.ext, FALSE))

Imported(order) ==
  LET after[i \in 0..Len(order)] ==
        IF i = 0 THEN [r \in RowIds |-> NoRow] ELSE First(after[i - 1], Report(order[i]))
  IN  after[Len(order)]

FeedInit ==
  /\ feed \in [Ops -> {Says("none", 1), Says("pending", 1), Says("posted", 1)}]
  /\ nextOcc \in 1..(Occurrences + 1) /\ today = nextOcc - 1 /\ hand = {}
  /\ txn = [w \in Writers |-> NoTxn]
  /\ \E order \in SetToSeqs(Listed(TRUE)) : \E P \in SUBSET Live(Imported(order)) :
       rows = Paired(Books(Imported(order), 1), P).rows

AllMerged(b, order, newest) ==
  LET after[i \in 0..Len(order)] ==
        IF i = 0 THEN b ELSE Merged(after[i - 1], Report(order[i]), newest)
  IN  after[Len(order)]
-----------------------------------------------------------------------------
(* Fault: an occurrence that a charge covers is generated all the same.     *)
NoCharge(t, k) == {}

(* find_real_tx_for_occurrence.                                             *)
Charges(t, k) ==
  {r \in Live(t) : /\ t[r].source \in {"sync", "manual"} /\ ~t[r].bill
                   /\ ~t[r].ignored /\ t[r].kind = k}

(* generate_pending, one occurrence: the account is connected, so that a    *)
(* placeholder stays pending until a charge confirms it.                    *)
Generated(b, k) ==
  LET c == Charges(b.rows, k) IN
  [b EXCEPT !.rows = IF c # {} THEN [@ EXCEPT ![Min(c)].bill = TRUE]
                     ELSE Insert(@, Row(k, "recurring", "pending", None, TRUE)),
            !.nextOcc = k + 1]

\* From the next occurrence through the last one that came due.
AllGenerated(b) ==
  LET before[k \in b.nextOcc..(today + 1)] ==
        IF k = b.nextOcc THEN b ELSE Generated(before[k - 1], k - 1)
  IN  before[today + 1]

(* A transaction writes the columns it changed; those that another one      *)
(* changed meanwhile stay, and new rows come after the ones there are.      *)
Changed(f, r) == f.from.rows[r] # f.to.rows[r]
Updates(f)    == {r \in Live(f.from.rows) : Changed(f, r)}
Additions(f)  == {r \in Live(f.to.rows) : r \notin Live(f.from.rows)}

Written(f, r) ==
  IF f.to.rows[r] = NoRow THEN NoRow
  ELSE [c \in DOMAIN rows[r] |-> IF f.from.rows[r][c] # f.to.rows[r][c]
                                   THEN f.to.rows[r][c] ELSE rows[r][c]]

Placings(f) ==
  {at \in [Additions(f) -> Free(rows)] :
     /\ \A x, y \in Additions(f) : x < y => at[x] < at[y]
     /\ \A x \in Additions(f) : \A s \in Free(rows) : s < at[x] => s \in Range(at)}

Committed(f, at) ==
  [r \in RowIds |-> IF r \in Range(at) THEN f.to.rows[CHOOSE x \in Additions(f) : at[x] = r]
                    ELSE IF r \in Updates(f) THEN Written(f, r) ELSE rows[r]]

Later(old, new, now) == IF old # new THEN new ELSE now
-----------------------------------------------------------------------------
Opens(w, by, to) ==
  /\ txn[w] = NoTxn
  /\ txn' = [txn EXCEPT ![w] = [by |-> by, from |-> Current, to |-> to]]
  /\ UNCHANGED <<feed, rows, nextOcc, today, hand>>

\* The bound of the instance: there are ids left for what may be inserted.
Room(n) == Cardinality(Free(rows)) >= n

(* Whether pending reports are imported is a setting of the connection.     *)
SyncReads(w) ==
  \E pending, newest \in BOOLEAN :
    /\ Room(Cardinality(Listed(pending)))
    /\ \E order \in SetToSeqs(Listed(pending)) :
         LET merged == AllMerged(Current, order, newest) IN
         \E P \in SUBSET (Live(merged.rows) \ Live(rows)) :
           Opens(w, "sync", Cleaned(Paired(merged, P)))

GenerateReads(w) ==
  /\ nextOcc <= today
  /\ Room(today + 1 - nextOcc)
  /\ Opens(w, "generate", AllGenerated(Current))

(* An update of a row that is gone fails the whole transaction.             *)
Commits(w) ==
  LET f == txn[w] IN
  /\ f # NoTxn
  /\ Updates(f) \subseteq Live(rows)
  /\ \E at \in Placings(f) : rows' = Committed(f, at)
  /\ nextOcc' = Later(f.from.nextOcc, f.to.nextOcc, nextOcc)
  /\ txn' = [txn EXCEPT ![w] = NoTxn]
  /\ UNCHANGED <<feed, today, hand>>

RollsBack(w) ==
  /\ txn[w] # NoTxn
  /\ txn' = [txn EXCEPT ![w] = NoTxn]
  /\ UNCHANGED <<feed, rows, nextOcc, today, hand>>

(* The user, in transactions of one statement.                              *)
Types(kind, status) ==
  /\ Room(1)
  /\ rows' = Insert(rows, Row(kind, "manual", status, None, FALSE))
  /\ hand' = hand \cup {<<"typed", kind>>}
  /\ UNCHANGED <<feed, nextOcc, today, txn>>

Deletes(r) ==
  /\ r \in Live(rows) /\ rows' = [rows EXCEPT ![r] = NoRow]
  /\ UNCHANGED <<feed, nextOcc, today, hand, txn>>

TogglesIgnored(r) ==
  /\ r \in Live(rows) /\ rows' = [rows EXCEPT ![r].ignored = ~@]
  /\ hand' = hand \cup {<<"hid", rows[r].kind>>}
  /\ UNCHANGED <<feed, nextOcc, today, txn>>

UnlinksBill(r) ==
  /\ r \in Live(rows) /\ rows[r].bill /\ rows' = [rows EXCEPT ![r].bill = FALSE]
  /\ UNCHANGED <<feed, nextOcc, today, hand, txn>>

(* The bank: an operation is reported, posted under the id it had or under  *)
(* another one, or dropped before it was posted.                            *)
BankReports(o, status, id) ==
  /\ \/ feed[o].status = "none" /\ status # "dropped" /\ id = 1
     \/ feed[o].status = "pending" /\ status # "pending"
  /\ feed' = [feed EXCEPT ![o] = [status |-> status, id |-> id]]
  /\ UNCHANGED <<rows, nextOcc, today, hand, txn>>

FallsDue ==
  /\ today < Occurrences /\ today' = today + 1
  /\ UNCHANGED <<feed, rows, nextOcc, hand, txn>>

FeedNext ==
  \/ \E w \in Writers : SyncReads(w) \/ GenerateReads(w) \/ Commits(w) \/ RollsBack(w)
  \/ \E o \in Ops, s \in {"pending", "posted"} : Types(Window[o], s)
  \/ \E r \in RowIds : Deletes(r) \/ TogglesIgnored(r) \/ UnlinksBill(r)
  \/ \E o \in Ops, s \in {"pending", "posted", "dropped"}, id \in {1, 2} : BankReports(o, s, id)
  \/ FallsDue

FeedSpec == FeedInit /\ [][FeedNext]_feedVars
-----------------------------------------------------------------------------
FromBank(t, k) == {r \in Live(t) : t[r].kind = k /\ t[r].ext # None}
Known(k, S)    == {o \in Ops : Window[o] = k /\ feed[o].status \in S}
Untyped        == {k \in 0..Occurrences : <<"typed", k>> \notin hand}
Ever           == {"pending", "posted", "dropped"}
HandMade(t, k) == \E r \in Live(t) : t[r].kind = k /\ (t[r].ignored \/ t[r].paired)

(* A sync loses nothing: in what it is about to write every posted          *)
(* operation has a row of its own, look-alikes of the same day included;    *)
(* only what the user hid or typed, or what was paired as a transfer, may   *)
(* stand for more than one (connection_service.py:1258).                    *)
Covers(t) ==
  \A k \in Untyped : ~HandMade(t, k) =>
    Cardinality(FromBank(t, k)) >= Cardinality(Known(k, {"posted"}))
NothingLost ==
  [][\A w \in Writers : (txn[w] = NoTxn /\ txn'[w] # NoTxn) =>
       (txn'[w].by = "sync" => Covers(txn'[w].to.rows))]_feedVars

(* No operation is in the books twice, however often the bank changes its   *)
(* id: where the user typed nothing there are no more rows from the bank    *)
(* than operations it reported (connection_service.py:1258).                *)
CountedOnce ==
  \A k \in Untyped :
    Cardinality(FromBank(rows, k)) <= Cardinality(Known(k, Ever))

(* An occurrence of the bill is not both announced and charged, whichever   *)
(* came first, unless the user typed or hid it                              *)
(* (recurring_match_service.py:203).                                        *)
Stands(k) == {r \in Live(rows) : rows[r].kind = k /\ (rows[r].bill \/ rows[r].ext # None)}
OccurrenceOnce ==
  \A k \in Untyped \ {0} : <<"hid", k>> \notin hand =>
    Cardinality(Stands(k)) <= Max({1, Cardinality(Known(k, Ever))})
=============================================================================
