----------------------------- MODULE FeedProofs -----------------------------
(***************************************************************************)
(* Safety of what a bank's reports do to the ledger, for any operations,    *)
(* look-alikes, rows and occurrences of the bill.  Types hold whatever      *)
(* overlaps; what is said of the bank's operations holds as long as one     *)
(* transaction at a time reads and writes the rows of the account: the job  *)
(* queue sees to that for syncs (SyncJob).  Nothing does between a sync and *)
(* a generation of the bill, and MCBillTwice shows an occurrence that is    *)
(* both announced and charged then; no theorem is stated about the bill.    *)
(***************************************************************************)
EXTENDS BankFeed, FiniteSetTheorems, WellFoundedInduction, TLAPS

(* Some number of a nonempty set is least, and some number of a finite one  *)
(* is greatest.                                                             *)
LEMMA LeastIn ==
  ASSUME NEW S, S \subseteq Nat, S # {}
  PROVE  /\ Min(S) \in S
         /\ \A n \in S : Min(S) <= n
<1>1. \E n \in S : \A m \in S : ~(<<m, n>> \in OpToRel(<, Nat))
  BY NatLessThanWellFounded, WFMin
<1>2. PICK n \in S : \A m \in S : ~(<<m, n>> \in OpToRel(<, Nat))
  BY <1>1
<1>3. \A m \in S : ~(m < n)
  BY <1>2 DEF OpToRel
<1>4. \A m \in S : n =< m
  BY <1>3
<1> QED
  BY <1>4 DEF Min

LEMMA GreatestIn ==
  ASSUME NEW S, S \subseteq Nat, S # {}, IsFiniteSet(S)
  PROVE  Max(S) \in S
<1> DEFINE Top(T) == \E x \in T : \A y \in T : x >= y
           Bad == {T \in SUBSET S : T # {} /\ ~Top(T)}
<1>1. Bad = {}
  <2> SUFFICES ASSUME Bad # {} PROVE FALSE
    OBVIOUS
  <2>1. Bad \subseteq FiniteSubsetsOf(S)
    BY FS_FiniteSubsetsOfFinite
  <2>2. \E T \in Bad : \A U \in Bad : ~(<<U, T>> \in StrictSubsetOrdering(S))
    <3> HIDE DEF Bad
    <3> QED
      BY <2>1, FS_StrictSubsetOrderingWellFounded, WFMin
  <2>3. PICK T \in Bad : \A U \in Bad : ~(<<U, T>> \in StrictSubsetOrdering(S))
    BY <2>2
  <2>4. PICK x \in T : TRUE
    OBVIOUS
  <2>5. T \ {x} \notin Bad
    <3>1. T \ {x} \subseteq T /\ T \ {x} # T /\ T \subseteq S
      OBVIOUS
    <3> QED
      BY <2>3, <3>1 DEF StrictSubsetOrdering
  <2>6. CASE T \ {x} = {}
    BY <2>6
  <2>7. CASE T \ {x} # {}
    <3>1. PICK m \in T \ {x} : \A y \in T \ {x} : m >= y
      BY <2>5, <2>7
    <3>2. CASE m >= x
      BY <3>1, <3>2
    <3>3. CASE x >= m
      <4>1. \A y \in T : x >= y
        BY <3>1, <3>3
      <4> QED
        BY <4>1
    <3> QED
      BY <3>2, <3>3
  <2> QED
    BY <2>6, <2>7
<1> QED
  BY <1>1 DEF Max

(* What is true of the first position, and of each one after a position it  *)
(* is true of, is true of all.                                              *)
LEMMA Reaches ==
  ASSUME NEW a \in Nat, NEW n \in Nat, NEW S, a \in S,
         \A i \in (a + 1)..n : i - 1 \in S => i \in S
  PROVE  a..n \subseteq S
<1> DEFINE Out == (a..n) \ S
<1> SUFFICES ASSUME Out # {} PROVE FALSE
  OBVIOUS
<1>1. Min(Out) \in Out /\ \A m \in Out : Min(Out) <= m
  BY LeastIn
<1>2. Min(Out) \in (a + 1)..n
  BY <1>1
<1>3. Min(Out) - 1 \notin Out
  BY <1>1, <1>2
<1> QED
  BY <1>1, <1>2, <1>3

(* A table that is filled from its first position on exists.                *)
Fillings(X, b, a, n, G) ==
  {f \in [a..n -> X] : f[a] = b /\ \A i \in (a + 1)..n : f[i] = G[<<f[i - 1], i>>]}

LEMMA Fills ==
  ASSUME NEW X, NEW b \in X, NEW a \in Nat, NEW n \in Nat, a <= n,
         NEW G \in [X \X ((a + 1)..n) -> X]
  PROVE  \E f : f \in Fillings(X, b, a, n, G)
<1> DEFINE Upto(m, f) == f[a] = b /\ \A i \in (a + 1)..m : f[i] = G[<<f[i - 1], i>>]
           S == {m \in a..n : \E f \in [a..m -> X] : Upto(m, f)}
<1>1. a \in S
  <2>1. [i \in a..a |-> b] \in [a..a -> X] /\ Upto(a, [i \in a..a |-> b])
    OBVIOUS
  <2> QED
    BY <2>1
<1>2. ASSUME NEW m \in (a + 1)..n, m - 1 \in S PROVE m \in S
  <2>1. PICK f \in [a..(m - 1) -> X] : Upto(m - 1, f)
    BY <1>2
  <2> DEFINE g == [i \in a..m |-> IF i = m THEN G[<<f[m - 1], m>>] ELSE f[i]]
  <2>2. f[m - 1] \in X
    OBVIOUS
  <2>3. G[<<f[m - 1], m>>] \in X
    BY <2>2
  <2>4. g \in [a..m -> X]
    BY <2>3
  <2>5. g[a] = b
    BY <2>1
  <2>6. ASSUME NEW i \in (a + 1)..m PROVE g[i] = G[<<g[i - 1], i>>]
    <3>1. g[i - 1] = f[i - 1]
      OBVIOUS
    <3>2. CASE i = m
      <4>1. g[m] = G[<<f[m - 1], m>>]
        OBVIOUS
      <4> HIDE DEF g
      <4> QED
        BY <3>1, <3>2, <4>1
    <3>3. CASE i # m
      <4>1. i \in (a + 1)..(m - 1) /\ g[i] = f[i]
        BY <3>3
      <4>2. f[i] = G[<<f[i - 1], i>>]
        BY <2>1, <4>1
      <4> HIDE DEF g
      <4> QED
        BY <3>1, <4>1, <4>2
    <3> QED
      BY <3>2, <3>3
  <2>7. Upto(m, g)
    BY <2>5, <2>6
  <2>8. m \in a..n
    OBVIOUS
  <2> HIDE DEF g, Upto
  <2>9. \E h \in [a..m -> X] : Upto(m, h)
    BY <2>4, <2>7
  <2> QED
    BY <2>8, <2>9
<1>3. n \in S
  <2> HIDE DEF S
  <2>1. a..n \subseteq S
    BY <1>1, <1>2, Reaches
  <2> QED
    BY <2>1
<1> QED
  BY <1>3 DEF Fillings


(* The same from zero on.                                                   *)
LEMMA ReachesFromZero ==
  ASSUME NEW n \in Nat, NEW S, 0 \in S, \A i \in 1..n : i - 1 \in S => i \in S
  PROVE  0..n \subseteq S
<1>1. 0 \in Nat /\ \A i \in (0 + 1)..n : i - 1 \in S => i \in S
  OBVIOUS
<1> QED
  BY <1>1, Reaches
-----------------------------------------------------------------------------
(* One report.  Whichever way it is taken, it writes one row.               *)
Rows       == [RowIds -> RowType \cup {NoRow}]
ReportType == [op : Ops, ext : Ids, status : {"pending", "posted"}]

Confirmed(row, rp) ==
  [row EXCEPT !.status = IF ~row.ignored /\ Posted(row, rp) THEN "posted" ELSE @]
Adopted(row, rp) ==
  IF row.ignored THEN row ELSE [row EXCEPT !.ext = rp.ext, !.source = "sync"]
Moved(row, rp) ==
  IF Posted(row, rp) THEN [row EXCEPT !.status = "posted", !.ext = rp.ext] ELSE row
Filled(row, rp) ==
  [row EXCEPT !.ext = rp.ext, !.source = "sync", !.status = rp.status]
Found(b, rp) == Row(Window[rp.op], "sync", rp.status, rp.ext, Fulfils(b.nextOcc, rp))

WritesOver(b, c, x, row) == c = Books([b.rows EXCEPT ![x] = row], b.nextOcc)

Confirming(b, c, rp) ==
  \E r \in SameId(b.rows, rp) : WritesOver(b, c, r, Confirmed(b.rows[r], rp))
Adopting(b, c, rp) ==
  /\ SameId(b.rows, rp) = {}
  /\ \E r \in TypedTwins(b.rows, rp) : WritesOver(b, c, r, Adopted(b.rows[r], rp))
Moving(b, c, rp) ==
  /\ SameId(b.rows, rp) = {}
  /\ \E r \in SyncedTwins(b.rows, rp) : WritesOver(b, c, r, Moved(b.rows[r], rp))
Charging(b, c, rp) ==
  /\ SameId(b.rows, rp) = {} /\ SyncedTwins(b.rows, rp) = {}
  /\ \E r \in Placeholders(b.rows, rp) : WritesOver(b, c, r, Filled(b.rows[r], rp))
Appearing(b, c, rp) ==
  /\ SameId(b.rows, rp) = {} /\ SyncedTwins(b.rows, rp) = {}
  /\ Placeholders(b.rows, rp) = {}
  /\ c = Books(Insert(b.rows, Found(b, rp)),
               IF Fulfils(b.nextOcc, rp) THEN b.nextOcc + 1 ELSE b.nextOcc)

(* Books are a table and a number.                                          *)
LEMMA BooksAre ==
  /\ \A t \in Rows, n \in 1..(Occurrences + 1) :
       /\ Books(t, n) \in BooksType
       /\ Books(t, n).rows = t /\ Books(t, n).nextOcc = n
  /\ \A b \in BooksType : /\ b.rows \in Rows /\ b.nextOcc \in 1..(Occurrences + 1)
                          /\ b = Books(b.rows, b.nextOcc)
  BY DEF Books, BooksType, Rows

(* A row in the table is a row.                                             *)
LEMMA LiveRows ==
  /\ \A t \in Rows : \A r \in Live(t) : r \in RowIds /\ t[r] \in RowType
  /\ NoRow \notin RowType
<1>1. NoRow \notin RowType
  <2>1. \A row \in RowType : row.source # "none"
    BY DEF RowType
  <2> QED
    BY <2>1 DEF NoRow
<1> QED
  BY <1>1 DEF Live, Rows

(* Candidates are rows of the table, and the pick is one of them.           *)
LEMMA Candidates ==
  ASSUME NEW t \in Rows, NEW S, S \subseteq Live(t), S # {}, NEW newest \in BOOLEAN
  PROVE  Pick(S, newest) \in S /\ Min(S) \in S
<1>1. S \subseteq RowIds
  BY DEF Live
<1>2. S \subseteq Nat /\ IsFiniteSet(S)
  BY <1>1, FeedAssumption, FS_Subset
<1> QED
  BY <1>2, LeastIn, GreatestIn DEF Pick

(* _fuzzy_match_manual .. _find_synced_duplicate: how a report is taken.    *)
LEMMA MergeCases ==
  ASSUME NEW b \in BooksType, NEW rp \in ReportType, NEW newest \in BOOLEAN
  PROVE  LET c == Merged(b, rp, newest) IN
         \/ Confirming(b, c, rp) \/ Adopting(b, c, rp) \/ Moving(b, c, rp)
         \/ Charging(b, c, rp) \/ Appearing(b, c, rp)
<1> DEFINE t == b.rows
           c == Merged(b, rp, newest)
           known == SameId(t, rp)
           manual == TypedTwins(t, rp)
           twins == SyncedTwins(t, rp)
           held == Placeholders(t, rp)
<1>1. /\ t \in Rows
      /\ b = Books(t, b.nextOcc)
  BY BooksAre
<1>2. /\ known \subseteq Live(t) /\ manual \subseteq Live(t)
      /\ twins \subseteq Live(t) /\ held \subseteq Live(t)
  BY DEF SameId, TypedTwins, SyncedTwins, Placeholders
<1>3. \A r \in Live(t) : r \in RowIds /\ t[r] \in RowType
  BY <1>1, LiveRows
<1>4. /\ known # {} => Min(known) \in known
      /\ manual # {} => Pick(manual, newest) \in manual
      /\ twins # {} => Pick(twins, newest) \in twins
      /\ held # {} => Pick(held, newest) \in held
  BY <1>1, <1>2, Candidates
<1>5. CASE known # {}
  <2> DEFINE r == Min(known)
  <2>1. r \in known /\ r \in Live(t) /\ r \in RowIds /\ t[r] \in RowType
    BY <1>2, <1>3, <1>4, <1>5
  <2>2. c = [b EXCEPT !.rows[r].status =
               IF ~t[r].ignored /\ Posted(t[r], rp) THEN "posted" ELSE @]
    BY <1>5 DEF Merged
  <2>3. WritesOver(b, c, r, Confirmed(t[r], rp))
    BY <1>1, <2>1, <2>2 DEF WritesOver, Confirmed, Books, Rows
  <2> QED
    BY <2>1, <2>3 DEF Confirming
<1>6. CASE known = {} /\ manual # {}
  <2> DEFINE r == Pick(manual, newest)
  <2>1. r \in manual /\ r \in Live(t) /\ r \in RowIds /\ t[r] \in RowType
    BY <1>2, <1>3, <1>4, <1>6
  <2>2. c = IF t[r].ignored THEN b
            ELSE [b EXCEPT !.rows[r].ext = rp.ext, !.rows[r].source = "sync"]
    BY <1>6 DEF Merged
  <2>3. WritesOver(b, c, r, Adopted(t[r], rp))
    <3>1. CASE t[r].ignored
      <4>1. Adopted(t[r], rp) = t[r] /\ c = b
        BY <2>2, <3>1 DEF Adopted
      <4>2. [t EXCEPT ![r] = t[r]] = t
        BY <1>1 DEF Rows
      <4> QED
        BY <1>1, <4>1, <4>2 DEF WritesOver
    <3>2. CASE ~t[r].ignored
      <4> DEFINE new == [t[r] EXCEPT !.ext = rp.ext, !.source = "sync"]
      <4>1. c = [b EXCEPT !.rows[r].ext = rp.ext, !.rows[r].source = "sync"]
        BY <2>2, <3>2
      <4>2. c = [b EXCEPT !.rows = [t EXCEPT ![r] = new]]
        BY <1>1, <2>1, <4>1 DEF Rows, Books
      <4>3. Adopted(t[r], rp) = new
        BY <3>2 DEF Adopted
      <4> HIDE DEF new
      <4> QED
        BY <1>1, <4>2, <4>3 DEF WritesOver, Books
    <3> QED
      BY <3>1, <3>2
  <2> QED
    BY <1>6, <2>1, <2>3 DEF Adopting
<1>7. CASE known = {} /\ manual = {} /\ twins # {}
  <2> DEFINE r == Pick(twins, newest)
  <2>1. r \in twins /\ r \in Live(t) /\ r \in RowIds /\ t[r] \in RowType
    BY <1>2, <1>3, <1>4, <1>7
  <2>2. c = [b EXCEPT !.rows = Collapsed(t, r, rp)]
    BY <1>7 DEF Merged
  <2>3. Collapsed(t, r, rp) = [t EXCEPT ![r] = Moved(t[r], rp)]
    BY <1>1, <2>1 DEF Collapsed, Moved, Rows
  <2>4. WritesOver(b, c, r, Moved(t[r], rp))
    BY <1>1, <2>2, <2>3 DEF WritesOver, Books
  <2> QED
    BY <1>7, <2>1, <2>4 DEF Moving
<1>8. CASE known = {} /\ manual = {} /\ twins = {} /\ held # {}
  <2> DEFINE r == Pick(held, newest)
  <2>1. r \in held /\ r \in Live(t) /\ r \in RowIds /\ t[r] \in RowType
    BY <1>2, <1>3, <1>4, <1>8
  <2>2. c = [b EXCEPT !.rows[r].ext = rp.ext, !.rows[r].source = "sync",
                      !.rows[r].status = rp.status]
    BY <1>8 DEF Merged
  <2> DEFINE new == Filled(t[r], rp)
  <2>3. c = [b EXCEPT !.rows = [t EXCEPT ![r] = new]]
    BY <1>1, <2>1, <2>2 DEF Filled, Rows, Books
  <2>4. WritesOver(b, c, r, new)
    <3> HIDE DEF new
    <3> QED
      BY <1>1, <2>3 DEF WritesOver, Books
  <2> QED
    BY <1>8, <2>1, <2>4 DEF Charging
<1>9. CASE known = {} /\ manual = {} /\ twins = {} /\ held = {}
  <2> DEFINE linked == Fulfils(b.nextOcc, rp)
  <2>1. c = [b EXCEPT !.rows = Insert(t, Found(b, rp)),
                      !.nextOcc = IF linked THEN @ + 1 ELSE @]
    BY <1>9 DEF Merged, Found
  <2>2. c = Books(Insert(t, Found(b, rp)), IF linked THEN b.nextOcc + 1 ELSE b.nextOcc)
    BY <1>1, <2>1 DEF Books
  <2> QED
    BY <1>9, <2>2 DEF Appearing
<1> QED
  BY <1>5, <1>6, <1>7, <1>8, <1>9

-----------------------------------------------------------------------------
(* Sound books, given what the bank reports and what the user has done.     *)
FeedType    == [Ops -> [status : {"none", "pending", "posted", "dropped"}, id : {1, 2}]]
Typed(h, k) == <<"typed", k>> \in h
Hid(h, k)   == <<"hid", k>> \in h
Seen(fd, k) == {o \in Ops : Window[o] = k /\ fd[o].status \in Ever}

(* What a row from the bank remembers of the operation it stands for: a     *)
(* pending one is there under its first id, a posted one under its last.    *)
SaysSo(fd, row) ==
  /\ fd[row.ext[1]].status # "none"
  /\ row.status = "posted" => fd[row.ext[1]] = Says("posted", row.ext[2])
  /\ row.status = "pending" => row.ext[2] = 1

RowSound(fd, h, row, n) ==
  /\ row.source = "sync" <=> row.ext # None
  /\ row.ext # None => Window[row.ext[1]] = row.kind
  /\ row.source = "manual" => Typed(h, row.kind)
  /\ row.ignored => Hid(h, row.kind)
  /\ row.bill => row.kind < n
  /\ row.ext # None /\ ~Typed(h, row.kind) => SaysSo(fd, row)

OwnIds(t) ==
  \A r, s \in Live(t) : t[r].ext # None /\ t[r].ext = t[s].ext => r = s

(* The rows of a window can be told apart by operations of that window.     *)
Attributed(fd, h, t) ==
  \A k \in 0..Occurrences :
    ~Typed(h, k) => ExistsInjection(FromBank(t, k), Seen(fd, k))

(* An announced occurrence is not charged, nor announced a second time.     *)
Standing(row)  == row.bill \/ row.ext # None
Announced(row) == row.bill /\ row.ext = None
Plain(h, k)    == k # 0 /\ ~Typed(h, k) /\ ~Hid(h, k)
Alone(h, t) ==
  \A r, s \in Live(t) :
    (Plain(h, t[r].kind) /\ t[s].kind = t[r].kind /\ Announced(t[r]) /\ Standing(t[s]))
      => r = s

Sound(fd, h, b) ==
  /\ b \in BooksType
  /\ \A r \in Live(b.rows) : RowSound(fd, h, b.rows[r], b.nextOcc)
  /\ OwnIds(b.rows) /\ Attributed(fd, h, b.rows) /\ Alone(h, b.rows)

(* Among rows of one status, the operation tells rows apart.                *)
LEMMA ToldApart ==
  ASSUME NEW fd \in FeedType, NEW h, NEW n, NEW t \in Rows, NEW k \in 0..Occurrences,
         \A r \in Live(t) : RowSound(fd, h, t[r], n), OwnIds(t), ~Typed(h, k),
         \A r, s \in FromBank(t, k) : t[r].status = t[s].status
  PROVE  ExistsInjection(FromBank(t, k), Seen(fd, k))
<1> DEFINE g == [r \in FromBank(t, k) |-> t[r].ext[1]]
<1>1. ASSUME NEW r \in FromBank(t, k)
      PROVE  /\ r \in Live(t) /\ t[r].kind = k /\ t[r].ext # None
             /\ t[r].ext \in Ops \X {1, 2} /\ t[r].status \in {"pending", "posted"}
             /\ Window[t[r].ext[1]] = k /\ SaysSo(fd, t[r])
  <2>1. r \in Live(t) /\ t[r].kind = k /\ t[r].ext # None
    BY DEF FromBank
  <2>2. t[r] \in RowType
    BY <2>1, LiveRows
  <2>3. t[r].ext \in Ops \X {1, 2} /\ t[r].status \in {"pending", "posted"}
    BY <2>1, <2>2 DEF RowType, Ids
  <2> QED
    BY <2>1, <2>3 DEF RowSound
<1>2. ASSUME NEW r \in FromBank(t, k) PROVE g[r] \in Seen(fd, k)
  <2>1. t[r].ext[1] \in Ops /\ fd[t[r].ext[1]].status # "none"
    BY <1>1 DEF SaysSo
  <2> QED
    BY <1>1, <2>1 DEF Seen, FeedType, Ever
<1>3. ASSUME NEW r \in FromBank(t, k), NEW s \in FromBank(t, k), g[r] = g[s]
      PROVE  r = s
  <2>1. t[r].ext[1] = t[s].ext[1] /\ t[r].status = t[s].status
    BY <1>3
  <2>2. t[r].ext[2] = t[s].ext[2]
    <3>1. SaysSo(fd, t[r]) /\ SaysSo(fd, t[s])
      BY <1>1
    <3>2. CASE t[r].status = "posted"
      <4>1. /\ fd[t[r].ext[1]] = Says("posted", t[r].ext[2])
            /\ fd[t[r].ext[1]] = Says("posted", t[s].ext[2])
        BY <2>1, <3>1, <3>2 DEF SaysSo
      <4>2. \A i : Says("posted", i).id = i
        BY DEF Says
      <4> QED
        BY <4>1, <4>2
    <3>3. CASE t[r].status = "pending"
      BY <2>1, <3>1, <3>3 DEF SaysSo
    <3> QED
      BY <1>1, <3>2, <3>3
  <2>3. t[r].ext = t[s].ext
    BY <1>1, <2>1, <2>2
  <2> QED
    BY <1>1, <2>3 DEF OwnIds
<1>4. g \in Injection(FromBank(t, k), Seen(fd, k))
  <2>1. g \in [FromBank(t, k) -> Seen(fd, k)]
    BY <1>2
  <2> HIDE DEF g
  <2> QED
    BY <1>3, <2>1 DEF Injection, IsInjective
<1> QED
  BY <1>4 DEF ExistsInjection

(* Fewer rows are told apart as well.                                       *)
LEMMA FewerToldApart ==
  ASSUME NEW S, NEW T, NEW U, ExistsInjection(S, T), U \subseteq S
  PROVE  ExistsInjection(U, T)
<1>1. PICK g \in Injection(S, T) : TRUE
  BY DEF ExistsInjection
<1>2. [x \in U |-> g[x]] \in Injection(U, T)
  BY <1>1 DEF Injection, IsInjective
<1> QED
  BY <1>2 DEF ExistsInjection

(* Writing one row keeps sound books sound, when the row is sound, has an   *)
(* id of its own, can be told apart from the others of its window, and is   *)
(* not announced beside a charge.                                           *)
OwnId(t, x, row) ==
  row.ext # None => \A s \in Live(t) \ {x} : t[s].ext # row.ext
TellsApart(h, t, x, row) ==
  (row.ext # None /\ ~Typed(h, row.kind)) =>
    \/ x \in FromBank(t, row.kind)
    \/ \A s \in FromBank(t, row.kind) : t[s].status = row.status
StandsAlone(h, t, x, row) ==
  (Plain(h, row.kind) /\ Standing(row)) =>
    \A s \in Live(t) \ {x} : (t[s].kind = row.kind /\ Standing(t[s])) =>
      ~Announced(row) /\ ~Announced(t[s])

(* A later next occurrence changes nothing.                                 *)
LEMMA LaterSound ==
  ASSUME NEW fd, NEW h, NEW b, Sound(fd, h, b), NEW n \in 1..(Occurrences + 1),
         b.nextOcc <= n
  PROVE  Sound(fd, h, Books(b.rows, n))
<1> DEFINE c == Books(b.rows, n)
<1>1. b \in BooksType /\ b.rows \in Rows /\ b.nextOcc \in 1..(Occurrences + 1)
  BY BooksAre DEF Sound
<1>2. c \in BooksType /\ c.rows = b.rows /\ c.nextOcc = n
  BY <1>1, BooksAre
<1>3. ASSUME NEW r \in Live(b.rows) PROVE RowSound(fd, h, b.rows[r], n)
  <2>1. b.rows[r] \in RowType /\ RowSound(fd, h, b.rows[r], b.nextOcc)
    BY <1>1, LiveRows DEF Sound
  <2>2. b.rows[r].kind \in 0..Occurrences
    BY <2>1 DEF RowType
  <2>3. b.rows[r].kind < b.nextOcc => b.rows[r].kind < n
    BY <1>1, <2>2, FeedAssumption
  <2> QED
    BY <2>1, <2>3 DEF RowSound
<1> HIDE DEF c
<1>4. Sound(fd, h, c)
  BY <1>2, <1>3 DEF Sound
<1> QED
  BY <1>4 DEF c

LEMMA WrittenSound ==
  ASSUME NEW fd \in FeedType, NEW h, NEW b, Sound(fd, h, b),
         NEW x, NEW row \in RowType, RowSound(fd, h, row, b.nextOcc),
         OwnId(b.rows, x, row), TellsApart(h, b.rows, x, row),
         StandsAlone(h, b.rows, x, row)
  PROVE  Sound(fd, h, Books([b.rows EXCEPT ![x] = row], b.nextOcc))
<1> DEFINE t == b.rows
           u == [t EXCEPT ![x] = row]
           n == b.nextOcc
<1>1. t \in Rows /\ n \in 1..(Occurrences + 1) /\ b = Books(t, n)
  BY BooksAre DEF Sound
<1>2. CASE x \notin RowIds
  <2>1. u = t
    BY <1>1, <1>2 DEF Rows
  <2> QED
    BY <1>1, <2>1
<1>3. CASE x \in RowIds
  <2>1. u \in Rows /\ u[x] = row /\ \A s \in RowIds \ {x} : u[s] = t[s]
    BY <1>1, <1>3 DEF Rows
  <2>2. Live(u) = Live(t) \cup {x}
    BY <1>3, <2>1, LiveRows DEF Live
  <2> HIDE DEF u
  <2>3. Books(u, n) \in BooksType /\ Books(u, n).rows = u /\ Books(u, n).nextOcc = n
    BY <1>1, <2>1, BooksAre
  <2>4. \A s \in Live(u) \ {x} : s \in Live(t) /\ u[s] = t[s]
    BY <2>1, <2>2 DEF Live
  <2>5. \A r \in Live(u) : RowSound(fd, h, u[r], n)
    BY <2>1, <2>4 DEF Sound
  <2>6. OwnIds(u)
    BY <2>1, <2>4 DEF Sound, OwnIds, OwnId
  <2>7. Alone(h, u)
    <3> SUFFICES ASSUME NEW r \in Live(u), NEW s \in Live(u), Plain(h, u[r].kind),
                        u[s].kind = u[r].kind, Announced(u[r]), Standing(u[s]), r # s
                 PROVE  FALSE
      BY DEF Alone
    <3>1. Standing(u[r])
      BY DEF Announced, Standing
    <3>2. CASE r = x
      BY <2>1, <2>4, <3>1, <3>2 DEF StandsAlone
    <3>3. CASE s = x
      BY <2>1, <2>4, <3>1, <3>3 DEF StandsAlone
    <3>4. CASE r # x /\ s # x
      BY <2>4, <3>4 DEF Sound, Alone
    <3> QED
      BY <3>2, <3>3, <3>4
  <2>8. Attributed(fd, h, u)
    <3> SUFFICES ASSUME NEW k \in 0..Occurrences, ~Typed(h, k)
                 PROVE  ExistsInjection(FromBank(u, k), Seen(fd, k))
      BY DEF Attributed
    <3>1. ExistsInjection(FromBank(t, k), Seen(fd, k))
      BY DEF Sound, Attributed
    <3>2. \A s \in FromBank(u, k) \ {x} : s \in FromBank(t, k) /\ u[s] = t[s]
      BY <2>4 DEF FromBank
    <3>3. CASE FromBank(u, k) \subseteq FromBank(t, k)
      BY <3>1, <3>3, FewerToldApart
    <3>4. CASE ~(FromBank(u, k) \subseteq FromBank(t, k))
      <4>1. x \in FromBank(u, k) /\ x \notin FromBank(t, k)
        BY <3>2, <3>4
      <4>2. row.kind = k /\ row.ext # None
        BY <2>1, <4>1 DEF FromBank
      <4>3. \A s \in FromBank(t, k) : t[s].status = row.status
        BY <4>1, <4>2 DEF TellsApart
      <4>4. \A s \in FromBank(u, k) : u[s].status = row.status
        BY <2>1, <3>2, <4>3
      <4> QED
        BY <2>1, <2>5, <2>6, <4>4, ToldApart
    <3> QED
      BY <3>3, <3>4
  <2>9. Sound(fd, h, Books(u, n))
    BY <2>3, <2>5, <2>6, <2>7, <2>8 DEF Sound
  <2> QED
    BY <2>9 DEF u
<1> QED
  BY <1>2, <1>3

-----------------------------------------------------------------------------
(* A report says what the bank says.                                        *)
FirstIds(fd) == \A o \in Ops : fd[o].status \in {"none", "pending"} => fd[o].id = 1
Reported(fd, rp) ==
  /\ rp \in ReportType
  /\ rp.ext = <<rp.op, fd[rp.op].id>> /\ rp.status = fd[rp.op].status

(* A row that takes the id and the state of a report says what it says.     *)
LEMMA ReportSaysSo ==
  ASSUME NEW fd \in FeedType, FirstIds(fd), NEW rp, Reported(fd, rp),
         NEW row \in RowType, row.ext = rp.ext, row.status \in {"pending", rp.status},
         row.status = "pending" => row.ext[2] = 1
  PROVE  SaysSo(fd, row) /\ row.ext # None /\ row.ext \in Ids
<1>1. /\ rp.op \in Ops /\ rp.status \in {"pending", "posted"}
      /\ rp.ext = <<rp.op, fd[rp.op].id>> /\ rp.status = fd[rp.op].status
      /\ rp.ext \in Ids
  BY DEF Reported, ReportType
<1>2. row.ext[1] = rp.op /\ row.ext[2] = fd[rp.op].id
  BY <1>1
<1>3. fd[rp.op] \in [status : {"none", "pending", "posted", "dropped"}, id : {1, 2}]
  BY <1>1 DEF FeedType
<1>4. row.status = "posted" => fd[rp.op] = Says("posted", fd[rp.op].id)
  BY <1>1, <1>3 DEF Says
<1>5. None \notin Ids
  BY FeedAssumption DEF Ids
<1> QED
  BY <1>1, <1>2, <1>4, <1>5 DEF SaysSo

LEMMA ReportFirstId ==
  ASSUME NEW fd \in FeedType, FirstIds(fd), NEW rp, Reported(fd, rp), rp.status = "pending"
  PROVE  rp.ext[2] = 1
<1>1. rp.op \in Ops /\ rp.ext = <<rp.op, fd[rp.op].id>> /\ fd[rp.op].status = "pending"
  BY DEF Reported, ReportType
<1>2. fd[rp.op].id = 1
  BY <1>1 DEF FirstIds
<1> QED
  BY <1>1, <1>2

(* A row that stays the bank's stays alone.                                 *)
LEMMA StaysAlone ==
  ASSUME NEW h, NEW t, Alone(h, t), NEW r \in Live(t), NEW row,
         row.kind = t[r].kind, row.ext # None, t[r].ext # None
  PROVE  StandsAlone(h, t, r, row)
BY DEF StandsAlone, Alone, Standing, Announced

(* An id no row has is its own.                                             *)
LEMMA NewIdIsOwn ==
  ASSUME NEW t, NEW rp, SameId(t, rp) = {}, NEW x, NEW row, row.ext = rp.ext
  PROVE  OwnId(t, x, row)
BY DEF OwnId, SameId

LEMMA ConfirmsSound ==
  ASSUME NEW fd \in FeedType, FirstIds(fd), NEW h, NEW b, Sound(fd, h, b),
         NEW rp, Reported(fd, rp), NEW c, Confirming(b, c, rp)
  PROVE  Sound(fd, h, c)
<1> DEFINE t == b.rows
<1>1. PICK r \in SameId(t, rp) : WritesOver(b, c, r, Confirmed(t[r], rp))
  BY DEF Confirming
<1> DEFINE row == Confirmed(t[r], rp)
<1>2. r \in Live(t) /\ t[r].ext = rp.ext
  BY DEF SameId
<1>3. t \in Rows /\ t[r] \in RowType /\ RowSound(fd, h, t[r], b.nextOcc)
  BY <1>2, BooksAre, LiveRows DEF Sound
<1>4. /\ row \in RowType
      /\ row.kind = t[r].kind /\ row.source = t[r].source /\ row.ext = t[r].ext
      /\ row.bill = t[r].bill /\ row.ignored = t[r].ignored
      /\ row.status \in {t[r].status, rp.status}
      /\ row.status = "pending" => t[r].status = "pending"
  <2>1. \/ row = [t[r] EXCEPT !.status = "posted"] /\ rp.status = "posted"
        \/ row = t[r]
    BY <1>3 DEF Confirmed, Posted, RowType
  <2> QED
    BY <1>3, <2>1 DEF RowType
<1> HIDE DEF row
<1>5. rp.ext \in Ids /\ None \notin Ids
  BY FeedAssumption DEF Reported, ReportType, Ids
<1>6. t[r].ext # None
  BY <1>2, <1>5
<1>7. ~Typed(h, row.kind) => SaysSo(fd, row)
  <2>1. CASE row.status = t[r].status
    BY <1>3, <1>4, <1>6, <2>1 DEF RowSound, SaysSo
  <2>2. CASE row.status # t[r].status
    <3>1. row.status = rp.status /\ row.status # "pending"
      BY <1>3, <1>4, <2>2 DEF RowType
    <3> QED
      BY <1>2, <1>4, <3>1, ReportSaysSo
  <2> QED
    BY <2>1, <2>2
<1>8. RowSound(fd, h, row, b.nextOcc)
  BY <1>3, <1>4, <1>7 DEF RowSound
<1>9. OwnId(t, r, row) /\ TellsApart(h, t, r, row)
  BY <1>2, <1>4, <1>6 DEF Sound, OwnIds, OwnId, TellsApart, FromBank
<1>10. StandsAlone(h, t, r, row)
  BY <1>2, <1>4, <1>6, StaysAlone DEF Sound
<1>11. c = Books([t EXCEPT ![r] = row], b.nextOcc)
  BY <1>1 DEF WritesOver, row
<1> QED
  BY <1>4, <1>8, <1>9, <1>10, <1>11, WrittenSound

LEMMA AdoptsSound ==
  ASSUME NEW fd \in FeedType, NEW h, NEW b, Sound(fd, h, b),
         NEW rp, Reported(fd, rp), NEW c, Adopting(b, c, rp)
  PROVE  Sound(fd, h, c)
<1> DEFINE t == b.rows
<1>1. PICK r \in TypedTwins(t, rp) : WritesOver(b, c, r, Adopted(t[r], rp))
  BY DEF Adopting
<1> DEFINE row == Adopted(t[r], rp)
<1>2. /\ r \in Live(t) /\ t[r].source = "manual" /\ t[r].ext = None
      /\ t[r].kind = Window[rp.op] /\ SameId(t, rp) = {}
  BY DEF TypedTwins, LooksLike, Adopting
<1>3. t \in Rows /\ t[r] \in RowType /\ RowSound(fd, h, t[r], b.nextOcc)
  BY <1>2, BooksAre, LiveRows DEF Sound
<1>4. rp.op \in Ops /\ rp.ext \in Ids /\ rp.ext[1] = rp.op /\ None \notin Ids
  BY FeedAssumption DEF Reported, ReportType, Ids
<1>5. \/ row = t[r]
      \/ row = [t[r] EXCEPT !.ext = rp.ext, !.source = "sync"]
  BY DEF Adopted
<1>6. /\ row \in RowType
      /\ row.kind = t[r].kind /\ row.bill = t[r].bill /\ row.ignored = t[r].ignored
      /\ \/ row.source = t[r].source /\ row.ext = t[r].ext
         \/ row.source = "sync" /\ row.ext = rp.ext
  BY <1>3, <1>4, <1>5 DEF RowType
<1> HIDE DEF row
<1>7. Typed(h, row.kind)
  BY <1>2, <1>3, <1>6 DEF RowSound
<1>8. RowSound(fd, h, row, b.nextOcc)
  BY <1>2, <1>3, <1>4, <1>6, <1>7 DEF RowSound
<1>9. OwnId(t, r, row)
  <2>1. CASE row.ext = None
    BY <2>1 DEF OwnId
  <2>2. CASE row.ext = rp.ext
    BY <1>2, <2>2, NewIdIsOwn
  <2> QED
    BY <1>2, <1>6, <2>1, <2>2
<1>10. TellsApart(h, t, r, row) /\ StandsAlone(h, t, r, row)
  BY <1>7 DEF TellsApart, StandsAlone, Plain
<1>11. c = Books([t EXCEPT ![r] = row], b.nextOcc)
  BY <1>1 DEF WritesOver, row
<1> QED
  BY <1>6, <1>8, <1>9, <1>10, <1>11, WrittenSound

LEMMA MovesSound ==
  ASSUME NEW fd \in FeedType, FirstIds(fd), NEW h, NEW b, Sound(fd, h, b),
         NEW rp, Reported(fd, rp), NEW c, Moving(b, c, rp)
  PROVE  Sound(fd, h, c)
<1> DEFINE t == b.rows
<1>1. PICK r \in SyncedTwins(t, rp) : WritesOver(b, c, r, Moved(t[r], rp))
  BY DEF Moving
<1> DEFINE row == Moved(t[r], rp)
<1>2. /\ r \in Live(t) /\ t[r].source = "sync"
      /\ t[r].kind = Window[rp.op] /\ SameId(t, rp) = {}
  BY DEF SyncedTwins, LooksLike, Moving
<1>3. t \in Rows /\ t[r] \in RowType /\ RowSound(fd, h, t[r], b.nextOcc)
  BY <1>2, BooksAre, LiveRows DEF Sound
<1>4. rp.op \in Ops /\ rp.ext \in Ids /\ rp.ext[1] = rp.op /\ None \notin Ids
  BY FeedAssumption DEF Reported, ReportType, Ids
<1>5. \/ row = t[r]
      \/ row = [t[r] EXCEPT !.status = "posted", !.ext = rp.ext] /\ rp.status = "posted"
  BY DEF Moved, Posted
<1>6. /\ row \in RowType
      /\ row.kind = t[r].kind /\ row.bill = t[r].bill /\ row.ignored = t[r].ignored
      /\ row.source = "sync"
      /\ \/ row.status = t[r].status /\ row.ext = t[r].ext
         \/ row.status = "posted" /\ rp.status = "posted" /\ row.ext = rp.ext
  BY <1>2, <1>3, <1>4, <1>5 DEF RowType
<1> HIDE DEF row
<1>7. t[r].ext # None /\ row.ext # None /\ Window[row.ext[1]] = row.kind
  BY <1>2, <1>3, <1>4, <1>6 DEF RowSound
<1>8. ~Typed(h, row.kind) => SaysSo(fd, row)
  <2>1. CASE row.status = t[r].status /\ row.ext = t[r].ext
    BY <1>3, <1>6, <1>7, <2>1 DEF RowSound, SaysSo
  <2>2. CASE row.status = "posted" /\ rp.status = "posted" /\ row.ext = rp.ext
    BY <1>6, <2>2, ReportSaysSo
  <2> QED
    BY <1>6, <2>1, <2>2
<1>9. RowSound(fd, h, row, b.nextOcc)
  BY <1>2, <1>3, <1>6, <1>7, <1>8 DEF RowSound
<1>10. OwnId(t, r, row)
  <2>1. CASE row.ext = t[r].ext
    BY <1>2, <1>7, <2>1 DEF Sound, OwnIds, OwnId
  <2>2. CASE row.ext = rp.ext
    BY <1>2, <2>2, NewIdIsOwn
  <2> QED
    BY <1>6, <2>1, <2>2
<1>11. TellsApart(h, t, r, row)
  BY <1>2, <1>6, <1>7 DEF TellsApart, FromBank
<1>12. StandsAlone(h, t, r, row)
  BY <1>2, <1>6, <1>7, StaysAlone DEF Sound
<1>13. c = Books([t EXCEPT ![r] = row], b.nextOcc)
  BY <1>1 DEF WritesOver, row
<1> QED
  BY <1>6, <1>9, <1>10, <1>11, <1>12, <1>13, WrittenSound

LEMMA ArrivesSound ==
  ASSUME NEW fd \in FeedType, FirstIds(fd), NEW h, NEW b, Sound(fd, h, b),
         NEW rp, Reported(fd, rp), NEW c, Charging(b, c, rp)
  PROVE  Sound(fd, h, c)
<1> DEFINE t == b.rows
<1>1. PICK r \in Placeholders(t, rp) : WritesOver(b, c, r, Filled(t[r], rp))
  BY DEF Charging
<1> DEFINE row == Filled(t[r], rp)
<1>2. /\ r \in Live(t) /\ t[r].bill /\ t[r].ext = None /\ ~t[r].ignored
      /\ t[r].kind = Window[rp.op]
      /\ SameId(t, rp) = {} /\ SyncedTwins(t, rp) = {}
  BY DEF Placeholders, LooksLike, Charging
<1>3. t \in Rows /\ t[r] \in RowType /\ RowSound(fd, h, t[r], b.nextOcc)
  BY <1>2, BooksAre, LiveRows DEF Sound
<1>4. /\ rp.op \in Ops /\ rp.ext \in Ids /\ rp.ext[1] = rp.op /\ None \notin Ids
      /\ rp.status \in {"pending", "posted"}
  BY FeedAssumption DEF Reported, ReportType, Ids
<1>5. /\ row \in RowType
      /\ row.kind = t[r].kind /\ row.bill = t[r].bill /\ row.ignored = t[r].ignored
      /\ row.source = "sync" /\ row.ext = rp.ext /\ row.status = rp.status
  BY <1>3, <1>4 DEF RowType, Filled
<1> HIDE DEF row
<1>6. row.ext # None /\ Window[row.ext[1]] = row.kind
  BY <1>2, <1>4, <1>5
<1>7. SaysSo(fd, row)
  BY <1>5, ReportSaysSo, ReportFirstId
<1>8. RowSound(fd, h, row, b.nextOcc)
  BY <1>3, <1>5, <1>6, <1>7 DEF RowSound
<1>9. OwnId(t, r, row)
  BY <1>2, <1>5, NewIdIsOwn
<1>10. TellsApart(h, t, r, row)
  <2> SUFFICES ASSUME NEW s \in FromBank(t, row.kind) PROVE t[s].status = row.status
    BY DEF TellsApart
  <2>1. s \in Live(t) /\ t[s].kind = Window[rp.op] /\ t[s].ext # None
    BY <1>2, <1>5 DEF FromBank
  <2>2. t[s].source = "sync"
    BY <2>1 DEF Sound, RowSound
  <2> QED
    BY <1>2, <1>5, <2>1, <2>2 DEF SyncedTwins, LooksLike
<1>11. StandsAlone(h, t, r, row)
  <2> SUFFICES ASSUME Plain(h, row.kind), NEW s \in Live(t) \ {r},
                      t[s].kind = row.kind, Standing(t[s])
               PROVE  FALSE
    BY DEF StandsAlone
  <2>1. Announced(t[r])
    BY <1>2 DEF Announced
  <2> QED
    BY <1>2, <1>5, <2>1 DEF Sound, Alone
<1>12. c = Books([t EXCEPT ![r] = row], b.nextOcc)
  BY <1>1 DEF WritesOver, row
<1> QED
  BY <1>5, <1>8, <1>9, <1>10, <1>11, <1>12, WrittenSound

LEMMA AppearsSound ==
  ASSUME NEW fd \in FeedType, FirstIds(fd), NEW h, NEW b, Sound(fd, h, b),
         NEW rp, Reported(fd, rp), NEW c, Appearing(b, c, rp)
  PROVE  Sound(fd, h, c)
<1> DEFINE t == b.rows
           row == Found(b, rp)
           x == Min(Free(t))
           n == IF Fulfils(b.nextOcc, rp) THEN b.nextOcc + 1 ELSE b.nextOcc
           a == Books(t, n)
<1>1. /\ SameId(t, rp) = {} /\ SyncedTwins(t, rp) = {} /\ Placeholders(t, rp) = {}
      /\ c = Books([t EXCEPT ![x] = row], n)
  BY DEF Appearing, Insert
<1>2. t \in Rows /\ b.nextOcc \in 1..(Occurrences + 1)
  BY BooksAre DEF Sound
<1>3. n \in 1..(Occurrences + 1) /\ b.nextOcc <= n
  BY <1>2, FeedAssumption DEF Fulfils
<1> HIDE DEF n
<1>4. a.rows = t /\ a.nextOcc = n /\ Sound(fd, h, a)
  BY <1>2, <1>3, BooksAre, LaterSound
<1>5. /\ rp.op \in Ops /\ rp.ext \in Ids /\ rp.ext[1] = rp.op /\ None \notin Ids
      /\ rp.status \in {"pending", "posted"}
  BY FeedAssumption DEF Reported, ReportType, Ids
<1>6. /\ row \in RowType
      /\ row.kind = Window[rp.op] /\ row.ignored = FALSE /\ row.source = "sync"
      /\ row.ext = rp.ext /\ row.status = rp.status
      /\ row.bill = Fulfils(b.nextOcc, rp)
  BY <1>5, FeedAssumption DEF RowType, Found, Row, Fulfils
<1> HIDE DEF row, x
<1>7. row.ext # None /\ Window[row.ext[1]] = row.kind
  BY <1>5, <1>6
<1>8. SaysSo(fd, row)
  BY <1>6, ReportSaysSo, ReportFirstId
<1>9. row.bill => row.kind < n
  <2>1. Fulfils(b.nextOcc, rp) => n = b.nextOcc + 1 /\ Window[rp.op] = b.nextOcc
    BY DEF Fulfils, n
  <2>2. row.bill => Fulfils(b.nextOcc, rp)
    BY <1>6
  <2> QED
    BY <1>2, <1>6, <2>1, <2>2
<1>10. RowSound(fd, h, row, n)
  BY <1>6, <1>7, <1>8, <1>9 DEF RowSound
<1>11. OwnId(t, x, row)
  BY <1>1, <1>6, NewIdIsOwn
<1>12. TellsApart(h, t, x, row)
  <2> SUFFICES ASSUME NEW s \in FromBank(t, row.kind) PROVE t[s].status = row.status
    BY DEF TellsApart
  <2>1. s \in Live(t) /\ t[s].kind = Window[rp.op] /\ t[s].ext # None
    BY <1>6 DEF FromBank
  <2>2. t[s].source = "sync"
    BY <2>1 DEF Sound, RowSound
  <2> QED
    BY <1>1, <1>6, <2>1, <2>2 DEF SyncedTwins, LooksLike
<1>13. StandsAlone(h, t, x, row)
  <2> SUFFICES ASSUME Plain(h, row.kind), NEW s \in Live(t), t[s].kind = row.kind
               PROVE  ~Announced(row) /\ ~Announced(t[s])
    BY DEF StandsAlone
  <2>1. ~Announced(row)
    BY <1>7 DEF Announced
  <2>2. t[s] \in RowType /\ RowSound(fd, h, t[s], b.nextOcc)
    BY <1>2, LiveRows DEF Sound
  <2>3. CASE Announced(t[s])
    <3>1. t[s].source = "recurring" /\ ~t[s].ignored
      BY <2>2, <2>3 DEF RowType, RowSound, Announced, Plain
    <3>2. s \in Placeholders(t, rp)
      BY <1>6, <2>3, <3>1 DEF Placeholders, LooksLike, Announced
    <3> QED
      BY <1>1, <3>2
  <2> QED
    BY <2>1, <2>3
<1> HIDE DEF a
<1>14. Sound(fd, h, Books([a.rows EXCEPT ![x] = row], a.nextOcc))
  BY <1>4, <1>6, <1>10, <1>11, <1>12, <1>13, WrittenSound
<1> QED
  BY <1>1, <1>4, <1>14 DEF n, x, row

(* sync_connection: a report keeps sound books sound, however it is taken.  *)
LEMMA MergedSound ==
  ASSUME NEW fd \in FeedType, FirstIds(fd), NEW h, NEW b, Sound(fd, h, b),
         NEW rp, Reported(fd, rp), NEW newest \in BOOLEAN
  PROVE  Sound(fd, h, Merged(b, rp, newest))
<1>1. b \in BooksType /\ rp \in ReportType
  BY DEF Sound, Reported
<1> QED
  BY <1>1, MergeCases, ConfirmsSound, AdoptsSound, MovesSound, ArrivesSound, AppearsSound
-----------------------------------------------------------------------------
(* Books drawn from sound ones: each row is that of another table, or is    *)
(* the user's own.                                                          *)
Resembles(h, row, old) ==
  /\ row.kind = old.kind /\ row.source = old.source
  /\ row.status = old.status /\ row.ext = old.ext
  /\ row.bill => old.bill
  /\ row.ignored => Hid(h, row.kind)
Own(h, row) ==
  /\ row.source = "manual" /\ row.ext = None /\ ~row.bill
  /\ Typed(h, row.kind) /\ (row.ignored => Hid(h, row.kind))
Draws(h, t, u, e) ==
  /\ \A r \in Live(u) :
       Own(h, u[r]) \/ (e[r] \in Live(t) /\ Resembles(h, u[r], t[e[r]]))
  /\ \A r, s \in Live(u) : ~Own(h, u[r]) /\ ~Own(h, u[s]) /\ e[r] = e[s] => r = s

LEMMA DrawnSound ==
  ASSUME NEW fd, NEW h, NEW b, Sound(fd, h, b),
         NEW c \in BooksType, c.nextOcc = b.nextOcc, NEW e, Draws(h, b.rows, c.rows, e)
  PROVE  Sound(fd, h, c)
<1> DEFINE t == b.rows
           u == c.rows
<1>1. t \in Rows /\ u \in Rows
  BY BooksAre DEF Sound
<1>2. ASSUME NEW r \in Live(u), ~Own(h, u[r])
      PROVE  e[r] \in Live(t) /\ Resembles(h, u[r], t[e[r]])
  BY <1>2 DEF Draws
<1>3. ASSUME NEW r \in Live(u), NEW s \in Live(u), ~Own(h, u[r]), ~Own(h, u[s]),
             e[r] = e[s]
      PROVE  r = s
  BY <1>3 DEF Draws
<1>4. \A r \in Live(u) : (u[r].ext # None \/ u[r].bill) => ~Own(h, u[r])
  BY DEF Own
<1>5. ASSUME NEW r \in Live(u) PROVE RowSound(fd, h, u[r], c.nextOcc)
  <2>1. CASE Own(h, u[r])
    BY <2>1 DEF Own, RowSound
  <2>2. CASE ~Own(h, u[r])
    <3>1. RowSound(fd, h, t[e[r]], b.nextOcc) /\ Resembles(h, u[r], t[e[r]])
      BY <1>2, <2>2 DEF Sound
    <3>2. SaysSo(fd, t[e[r]]) => SaysSo(fd, u[r])
      BY <3>1 DEF SaysSo, Resembles
    <3> QED
      BY <3>1, <3>2 DEF RowSound, Resembles
  <2> QED
    BY <2>1, <2>2
<1>6. OwnIds(u)
  <2> SUFFICES ASSUME NEW r \in Live(u), NEW s \in Live(u), u[r].ext # None,
                      u[r].ext = u[s].ext
               PROVE  r = s
    BY DEF OwnIds
  <2>1. ~Own(h, u[r]) /\ ~Own(h, u[s])
    BY <1>4
  <2>2. t[e[r]].ext = u[r].ext /\ t[e[s]].ext = u[s].ext
    BY <1>2, <2>1 DEF Resembles
  <2>3. e[r] = e[s]
    BY <1>2, <2>1, <2>2 DEF Sound, OwnIds
  <2> QED
    BY <1>3, <2>1, <2>3
<1>7. Alone(h, u)
  <2> SUFFICES ASSUME NEW r \in Live(u), NEW s \in Live(u), Plain(h, u[r].kind),
                      u[s].kind = u[r].kind, Announced(u[r]), Standing(u[s])
               PROVE  r = s
    BY DEF Alone
  <2>1. ~Own(h, u[r]) /\ ~Own(h, u[s])
    BY <1>4 DEF Announced, Standing
  <2>2. /\ e[r] \in Live(t) /\ e[s] \in Live(t)
        /\ Resembles(h, u[r], t[e[r]]) /\ Resembles(h, u[s], t[e[s]])
    BY <1>2, <2>1
  <2>3. /\ t[e[r]].kind = u[r].kind /\ t[e[s]].kind = u[r].kind
        /\ Announced(t[e[r]]) /\ Standing(t[e[s]])
    BY <2>2 DEF Resembles, Announced, Standing
  <2>4. e[r] = e[s]
    BY <2>2, <2>3 DEF Sound, Alone
  <2> QED
    BY <1>3, <2>1, <2>4
<1>8. Attributed(fd, h, u)
  <2> SUFFICES ASSUME NEW k \in 0..Occurrences, ~Typed(h, k)
               PROVE  ExistsInjection(FromBank(u, k), Seen(fd, k))
    BY DEF Attributed
  <2>1. ExistsInjection(FromBank(t, k), Seen(fd, k))
    BY DEF Sound, Attributed
  <2>2. PICK g \in Injection(FromBank(t, k), Seen(fd, k)) : TRUE
    BY <2>1 DEF ExistsInjection
  <2>3. ASSUME NEW r \in FromBank(u, k)
        PROVE  r \in Live(u) /\ ~Own(h, u[r]) /\ e[r] \in FromBank(t, k)
    <3>1. r \in Live(u) /\ ~Own(h, u[r])
      BY <1>4 DEF FromBank
    <3> QED
      BY <1>2, <3>1 DEF FromBank, Resembles
  <2> DEFINE j == [r \in FromBank(u, k) |-> g[e[r]]]
  <2>4. j \in [FromBank(u, k) -> Seen(fd, k)]
    BY <2>2, <2>3 DEF Injection
  <2>5. ASSUME NEW r \in FromBank(u, k), NEW s \in FromBank(u, k), j[r] = j[s]
        PROVE  r = s
    <3>1. g[e[r]] = g[e[s]]
      BY <2>5
    <3>2. e[r] = e[s]
      BY <2>2, <2>3, <3>1 DEF Injection, IsInjective
    <3> QED
      BY <1>3, <2>3, <3>2
  <2>6. j \in Injection(FromBank(u, k), Seen(fd, k))
    <3> HIDE DEF j
    <3> QED
      BY <2>4, <2>5 DEF Injection, IsInjective
  <2> QED
    BY <2>6 DEF ExistsInjection
<1> QED
  BY <1>5, <1>6, <1>7, <1>8 DEF Sound

(* The same rows, some of them gone, or with less of a bill to them.        *)
LEMMA SubsetSound ==
  ASSUME NEW fd, NEW h, NEW b, Sound(fd, h, b),
         NEW c \in BooksType, c.nextOcc = b.nextOcc,
         \A r \in Live(c.rows) :
           Own(h, c.rows[r]) \/ (r \in Live(b.rows) /\ Resembles(h, c.rows[r], b.rows[r]))
  PROVE  Sound(fd, h, c)
<1> DEFINE e == [r \in RowIds |-> r]
<1>1. \A r \in Live(c.rows) : e[r] = r
  BY DEF Live
<1>2. Draws(h, b.rows, c.rows, e)
  <2> HIDE DEF e
  <2> QED
    BY <1>1 DEF Draws
<1> QED
  BY <1>2, DrawnSound

LEMMA ResemblesItself ==
  ASSUME NEW fd, NEW h, NEW b, Sound(fd, h, b), NEW r \in Live(b.rows), NEW row,
         row.kind = b.rows[r].kind, row.source = b.rows[r].source,
         row.status = b.rows[r].status, row.ext = b.rows[r].ext,
         row.bill = b.rows[r].bill, row.ignored = b.rows[r].ignored
  PROVE  Resembles(h, row, b.rows[r])
BY DEF Sound, RowSound, Resembles

(* What pairing rows as transfers and removing phantoms leaves of a row.    *)
LEMMA PairedFields ==
  ASSUME NEW b \in BooksType, NEW P, P \subseteq Live(b.rows)
  PROVE  LET c == Paired(b, P) IN
         /\ c \in BooksType /\ c.nextOcc = b.nextOcc
         /\ Live(c.rows) = Live(b.rows)
         /\ \A r \in Live(b.rows) :
              /\ c.rows[r].kind = b.rows[r].kind /\ c.rows[r].source = b.rows[r].source
              /\ c.rows[r].status = b.rows[r].status /\ c.rows[r].ext = b.rows[r].ext
              /\ c.rows[r].bill = b.rows[r].bill /\ c.rows[r].ignored = b.rows[r].ignored
<1> DEFINE t == b.rows
           u == [r \in RowIds |-> IF r \in P THEN [t[r] EXCEPT !.paired = TRUE] ELSE t[r]]
<1>1. t \in Rows /\ b = Books(t, b.nextOcc) /\ b.nextOcc \in 1..(Occurrences + 1)
  BY BooksAre
<1>2. ASSUME NEW r \in Live(t)
      PROVE  /\ u[r] \in RowType
             /\ u[r].kind = t[r].kind /\ u[r].source = t[r].source
             /\ u[r].status = t[r].status /\ u[r].ext = t[r].ext
             /\ u[r].bill = t[r].bill /\ u[r].ignored = t[r].ignored
  <2>1. r \in RowIds /\ t[r] \in RowType
    BY <1>1, LiveRows
  <2>2. u[r] = [t[r] EXCEPT !.paired = TRUE] \/ u[r] = t[r]
    BY <2>1
  <2> HIDE DEF u
  <2> QED
    BY <2>1, <2>2 DEF RowType
<1>3. ASSUME NEW r \in RowIds, r \notin Live(t) PROVE u[r] = NoRow
  BY <1>3 DEF Live
<1>4. u = [r \in RowIds |-> u[r]]
  OBVIOUS
<1>5. Paired(b, P) = Books(u, b.nextOcc)
  <2>1. Paired(b, P) = [b EXCEPT !.rows = u]
    BY DEF Paired
  <2> HIDE DEF u
  <2> QED
    BY <1>1, <2>1 DEF Books
<1> HIDE DEF u
<1>6. u \in Rows
  BY <1>2, <1>3, <1>4 DEF Rows
<1>7. Live(u) = Live(t)
  BY <1>2, <1>3, LiveRows DEF Live
<1> QED
  BY <1>1, <1>2, <1>5, <1>6, <1>7, BooksAre

LEMMA CleanedFields ==
  ASSUME NEW b \in BooksType
  PROVE  LET c == Cleaned(b) IN
         /\ c \in BooksType /\ c.nextOcc = b.nextOcc
         /\ Live(c.rows) = Live(b.rows) \ Phantoms(b.rows)
         /\ \A r \in Live(c.rows) : c.rows[r] = b.rows[r]
<1> DEFINE t == b.rows
           u == [r \in RowIds |-> IF r \in Phantoms(t) THEN NoRow ELSE t[r]]
<1>1. t \in Rows /\ b = Books(t, b.nextOcc) /\ b.nextOcc \in 1..(Occurrences + 1)
  BY BooksAre
<1>2. u \in Rows
  BY <1>1 DEF Rows
<1>3. Live(u) = Live(t) \ Phantoms(t) /\ \A r \in Live(u) : u[r] = t[r]
  BY DEF Live
<1>4. Cleaned(b) = Books(u, b.nextOcc)
  <2>1. Cleaned(b) = [b EXCEPT !.rows = u]
    BY DEF Cleaned
  <2> HIDE DEF u
  <2> QED
    BY <1>1, <2>1 DEF Books
<1> HIDE DEF u
<1> QED
  BY <1>1, <1>2, <1>3, <1>4, BooksAre

LEMMA PairedSound ==
  ASSUME NEW fd, NEW h, NEW b, Sound(fd, h, b), NEW P, P \subseteq Live(b.rows)
  PROVE  Sound(fd, h, Paired(b, P))
<1> DEFINE c == Paired(b, P)
<1>1. b \in BooksType
  BY DEF Sound
<1>2. /\ c \in BooksType /\ c.nextOcc = b.nextOcc /\ Live(c.rows) = Live(b.rows)
      /\ \A r \in Live(c.rows) : Resembles(h, c.rows[r], b.rows[r])
  BY <1>1, PairedFields, ResemblesItself
<1> HIDE DEF c
<1> QED
  BY <1>2, SubsetSound DEF c

LEMMA CleanedSound ==
  ASSUME NEW fd, NEW h, NEW b, Sound(fd, h, b)
  PROVE  Sound(fd, h, Cleaned(b))
<1> DEFINE c == Cleaned(b)
<1>1. b \in BooksType
  BY DEF Sound
<1>2. /\ c \in BooksType /\ c.nextOcc = b.nextOcc /\ Live(c.rows) \subseteq Live(b.rows)
      /\ \A r \in Live(c.rows) : Resembles(h, c.rows[r], b.rows[r])
  BY <1>1, CleanedFields, ResemblesItself
<1> HIDE DEF c
<1> QED
  BY <1>2, SubsetSound DEF c

-----------------------------------------------------------------------------
(* The whole of a sync, report by report.                                   *)
Steps(f, b, order, newest) ==
  /\ f[0] = b
  /\ \A i \in 1..Len(order) : f[i] = Merged(f[i - 1], Report(order[i]), newest)

(* A fold of reports stays within what each report keeps.                   *)
EachStaysIn(X, order, newest) ==
  \A c \in X, i \in 1..Len(order) : Merged(c, Report(order[i]), newest) \in X

LEMMA MergedWithin ==
  ASSUME NEW X, NEW b \in X, NEW order, Len(order) \in Nat, NEW newest,
         EachStaysIn(X, order, newest)
  PROVE  \E f : /\ Steps(f, b, order, newest)
                /\ \A i \in 0..Len(order) : f[i] \in X
                /\ AllMerged(b, order, newest) = f[Len(order)]
<1> DEFINE n == Len(order)
           G == [y \in X \X (1..n) |-> Merged(y[1], Report(order[y[2]]), newest)]
           Table(g) == [i \in 0..n |-> IF i = 0 THEN b
                                       ELSE Merged(g[i - 1], Report(order[i]), newest)]
           after == CHOOSE g : g = Table(g)
<1>1. \A c \in X, i \in 1..n : Merged(c, Report(order[i]), newest) \in X
  BY DEF EachStaysIn
<1>3. G \in [X \X (1..n) -> X]
  BY <1>1
<1>4. \A c \in X, i \in 1..n : G[<<c, i>>] = Merged(c, Report(order[i]), newest)
  OBVIOUS
<1> HIDE DEF G
<1>5. \E f : f \in Fillings(X, b, 0, n, G)
  <2> HIDE DEF n
  <2>1. n \in Nat /\ 0 \in Nat /\ 0 <= n /\ G \in [X \X ((0 + 1)..n) -> X]
    BY <1>3 DEF n
  <2> QED
    BY <2>1, Fills
<1>6. PICK f \in [0..n -> X] : f[0] = b /\ \A i \in 1..n : f[i] = G[<<f[i - 1], i>>]
  BY <1>5 DEF Fillings
<1>7. f = Table(f)
  <2>1. \A i \in 1..n : f[i - 1] \in X
    OBVIOUS
  <2>2. \A i \in 1..n : f[i] = Merged(f[i - 1], Report(order[i]), newest)
    BY <1>4, <1>6, <2>1
  <2>3. f = [i \in 0..n |-> f[i]]
    OBVIOUS
  <2> HIDE DEF n
  <2>4. \A i \in 0..n : f[i] = IF i = 0 THEN b
                                ELSE Merged(f[i - 1], Report(order[i]), newest)
    BY <1>6, <2>2 DEF n
  <2> QED
    BY <2>3, <2>4
<1>8. after = Table(after)
  BY <1>7, Zenon
<1>9. Steps(after, b, order, newest)
  <2> HIDE DEF after
  <2> QED
    BY <1>8 DEF Steps
<1>10. AllMerged(b, order, newest) = after[n]
  BY Zenon DEF AllMerged
<1> HIDE DEF after, Table
<1>11. \A i \in 0..n : after[i] \in X
  <2> DEFINE S == {i \in 0..n : after[i] \in X}
  <2>1. 0 \in S
    BY <1>9 DEF Steps
  <2>2. ASSUME NEW i \in 1..n, i - 1 \in S PROVE i \in S
    BY <1>1, <1>9, <2>2 DEF Steps
  <2> HIDE DEF S
  <2>3. 0..n \subseteq S
    BY <2>1, <2>2, ReachesFromZero
  <2> QED
    BY <2>3 DEF S
<1> QED
  BY <1>9, <1>10, <1>11

LEMMA MergedInSteps ==
  ASSUME NEW h, NEW b, feed \in FeedType, FirstIds(feed), Sound(feed, h, b),
         NEW order, Len(order) \in Nat,
         \A i \in 1..Len(order) : Reported(feed, Report(order[i])),
         NEW newest \in BOOLEAN
  PROVE  \E f : /\ Steps(f, b, order, newest)
                /\ \A i \in 0..Len(order) : Sound(feed, h, f[i])
                /\ AllMerged(b, order, newest) = f[Len(order)]
<1> DEFINE X == {c \in BooksType : Sound(feed, h, c)}
<1>1. b \in X
  BY DEF Sound
<1>2. ASSUME NEW c \in X, NEW i \in 1..Len(order)
      PROVE  Merged(c, Report(order[i]), newest) \in X
  <2>1. Sound(feed, h, Merged(c, Report(order[i]), newest))
    BY MergedSound
  <2> QED
    BY <2>1 DEF Sound
<1>3. \A c \in X : Sound(feed, h, c)
  OBVIOUS
<1>4. EachStaysIn(X, order, newest)
  BY <1>2 DEF EachStaysIn
<1> HIDE DEF X
<1>5. PICK f : /\ Steps(f, b, order, newest)
               /\ \A i \in 0..Len(order) : f[i] \in X
               /\ AllMerged(b, order, newest) = f[Len(order)]
  BY <1>1, <1>4, MergedWithin
<1> QED
  BY <1>3, <1>5

-----------------------------------------------------------------------------
(* The first import: the same with nothing but the bank's rows.             *)
LEMMA CollapsedIs ==
  ASSUME NEW t \in Rows, NEW r \in Live(t), NEW rp
  PROVE  Collapsed(t, r, rp) = [t EXCEPT ![r] = Moved(t[r], rp)]
BY DEF Collapsed, Moved, Rows, Live

LEMMA FirstType ==
  ASSUME NEW t \in Rows, NEW rp \in ReportType
  PROVE  First(t, rp) \in Rows
<1> DEFINE twins == SyncedTwins(t, rp)
           r == Min(twins)
           new == Row(Window[rp.op], "sync", rp.status, rp.ext, FALSE)
<1>1. CASE twins # {}
  <2>1. r \in Live(t) /\ r \in RowIds /\ t[r] \in RowType
    <3>1. twins \subseteq Live(t) /\ TRUE \in BOOLEAN
      BY DEF SyncedTwins
    <3>2. r \in twins
      BY <1>1, <3>1, Candidates
    <3> QED
      BY <3>1, <3>2, LiveRows
  <2>2. First(t, rp) = [t EXCEPT ![r] = Moved(t[r], rp)]
    BY <1>1, <2>1, CollapsedIs DEF First
  <2>3. Moved(t[r], rp) \in RowType
    BY <2>1 DEF Moved, RowType, ReportType
  <2> QED
    BY <2>2, <2>3 DEF Rows
<1>2. CASE twins = {}
  <2>1. new \in RowType
    BY FeedAssumption DEF Row, RowType, ReportType
  <2>2. First(t, rp) = [t EXCEPT ![Min(Free(t))] = new]
    BY <1>2 DEF First, Insert
  <2> QED
    BY <2>1, <2>2 DEF Rows
<1> QED
  BY <1>1, <1>2

LEMMA FirstSound ==
  ASSUME NEW fd \in FeedType, FirstIds(fd), NEW h,
         NEW t \in Rows, Sound(fd, h, Books(t, 1)), \A r \in Live(t) : ~t[r].bill,
         NEW rp, Reported(fd, rp), SameId(t, rp) = {}
  PROVE  /\ Sound(fd, h, Books(First(t, rp), 1))
         /\ \A r \in Live(First(t, rp)) :
              /\ ~First(t, rp)[r].bill
              /\ First(t, rp)[r].ext = rp.ext \/ \E s \in Live(t) : First(t, rp)[r].ext = t[s].ext
<1> DEFINE b == Books(t, 1)
           u == First(t, rp)
           twins == SyncedTwins(t, rp)
<1>1. 1 \in 1..(Occurrences + 1)
  BY FeedAssumption
<1>2. b.rows = t /\ b.nextOcc = 1
  BY <1>1, BooksAre
<1> HIDE DEF b
<1>3. CASE twins # {}
  <2> DEFINE r == Min(twins)
             row == Moved(t[r], rp)
  <2>1. twins \subseteq Live(t) /\ TRUE \in BOOLEAN
    BY DEF SyncedTwins
  <2>2. r \in twins
    BY <1>3, <2>1, Candidates
  <2>3. r \in Live(t) /\ r \in RowIds /\ t[r] \in RowType
    BY <2>1, <2>2, LiveRows
  <2>4. u = [t EXCEPT ![r] = row]
    BY <1>3, <2>3, CollapsedIs DEF First
  <2>5. WritesOver(b, Books(u, 1), r, row)
    BY <1>2, <2>4 DEF WritesOver
  <2>6. Moving(b, Books(u, 1), rp)
    BY <1>2, <2>2, <2>5 DEF Moving
  <2>7. Sound(fd, h, Books(u, 1))
    BY <2>6, MovesSound DEF b
  <2>8. row.bill = t[r].bill /\ row.ext \in {t[r].ext, rp.ext}
    BY <2>3 DEF Moved, RowType
  <2>9. \A s \in Live(u) : s \in Live(t) /\ (s = r \/ u[s] = t[s])
    BY <2>3, <2>4 DEF Live, Rows
  <2>10. u[r] = row
    BY <2>3, <2>4 DEF Rows
  <2> HIDE DEF u, r, row
  <2>11. \A s \in Live(u) :
           ~u[s].bill /\ (u[s].ext = rp.ext \/ \E q \in Live(t) : u[s].ext = t[q].ext)
    BY <2>3, <2>8, <2>9, <2>10
  <2> QED
    BY <2>7, <2>11 DEF u
<1>4. CASE twins = {}
  <2> DEFINE row == Row(Window[rp.op], "sync", rp.status, rp.ext, FALSE)
             x == Min(Free(t))
  <2>1. u = [t EXCEPT ![x] = row]
    BY <1>4 DEF First, Insert
  <2>2. /\ rp.op \in Ops /\ rp.ext \in Ids /\ rp.ext[1] = rp.op /\ None \notin Ids
        /\ rp.status \in {"pending", "posted"}
    BY FeedAssumption DEF Reported, ReportType, Ids
  <2>3. /\ row \in RowType
        /\ row.kind = Window[rp.op] /\ row.ignored = FALSE /\ row.source = "sync"
        /\ row.ext = rp.ext /\ row.status = rp.status /\ row.bill = FALSE
    BY <2>2, FeedAssumption DEF Row, RowType
  <2> HIDE DEF row, x
  <2>4. row.ext # None /\ Window[row.ext[1]] = row.kind
    BY <2>2, <2>3
  <2>5. SaysSo(fd, row)
    BY <2>3, ReportSaysSo, ReportFirstId
  <2>6. RowSound(fd, h, row, b.nextOcc)
    BY <2>3, <2>4, <2>5 DEF RowSound
  <2>7. OwnId(t, x, row)
    BY <2>3, NewIdIsOwn
  <2>8. TellsApart(h, t, x, row)
    <3> SUFFICES ASSUME NEW s \in FromBank(t, row.kind) PROVE t[s].status = row.status
      BY DEF TellsApart
    <3>1. s \in Live(t) /\ t[s].kind = Window[rp.op] /\ t[s].ext # None
      BY <2>3 DEF FromBank
    <3>2. t[s].source = "sync"
      BY <1>2, <3>1 DEF Sound, RowSound, b
    <3> QED
      BY <1>4, <2>3, <3>1, <3>2 DEF SyncedTwins, LooksLike
  <2>9. StandsAlone(h, t, x, row)
    BY <2>3 DEF StandsAlone, Announced
  <2>10. Sound(fd, h, b)
    BY DEF b
  <2>11. Sound(fd, h, Books([b.rows EXCEPT ![x] = row], b.nextOcc))
    BY <1>2, <2>3, <2>6, <2>7, <2>8, <2>9, <2>10, WrittenSound
  <2>12. \A s \in Live(u) : u[s] = row \/ (s \in Live(t) /\ u[s] = t[s])
    BY <2>1 DEF Live, Rows
  <2> HIDE DEF u
  <2>13. \A s \in Live(u) :
           ~u[s].bill /\ (u[s].ext = rp.ext \/ \E q \in Live(t) : u[s].ext = t[q].ext)
    BY <2>3, <2>12
  <2> QED
    BY <1>2, <2>1, <2>11, <2>13 DEF u
<1> QED
  BY <1>3, <1>4

(* An account without rows is sound.                                        *)
LEMMA EmptySound ==
  ASSUME NEW fd, NEW h
  PROVE  LET t == [r \in RowIds |-> NoRow] IN
         t \in Rows /\ Live(t) = {} /\ Sound(fd, h, Books(t, 1))
<1> DEFINE t == [r \in RowIds |-> NoRow]
<1>1. t \in Rows /\ Live(t) = {} /\ 1 \in 1..(Occurrences + 1)
  BY FeedAssumption DEF Rows, Live
<1> HIDE DEF t
<1>2. Books(t, 1) \in BooksType /\ Books(t, 1).rows = t
  BY <1>1, BooksAre
<1>3. ASSUME NEW k PROVE ExistsInjection(FromBank(t, k), Seen(fd, k))
  <2>1. FromBank(t, k) = {}
    BY <1>1 DEF FromBank
  <2>2. [r \in {} |-> r] \in Injection({}, Seen(fd, k))
    BY DEF Injection, IsInjective
  <2> QED
    BY <2>1, <2>2 DEF ExistsInjection
<1>4. Sound(fd, h, Books(t, 1))
  BY <1>1, <1>2, <1>3 DEF Sound, OwnIds, Attributed, Alone
<1> QED
  BY <1>1, <1>4 DEF t

(* handle_oauth_callback: each operation is imported once.                  *)
LEMMA ImportedSound ==
  ASSUME feed \in FeedType, FirstIds(feed), NEW h, NEW order, Len(order) \in Nat,
         \A i \in 1..Len(order) : Reported(feed, Report(order[i])),
         \A i, j \in 1..Len(order) : order[i] = order[j] => i = j
  PROVE  /\ Imported(order) \in Rows
         /\ Sound(feed, h, Books(Imported(order), 1))
         /\ \A r \in Live(Imported(order)) : ~Imported(order)[r].bill
<1> DEFINE n == Len(order)
           b == [r \in RowIds |-> NoRow]
           G == [y \in Rows \X (1..n) |-> First(y[1], Report(order[y[2]]))]
           Table(g) == [i \in 0..n |-> IF i = 0 THEN b
                                       ELSE First(g[i - 1], Report(order[i]))]
           after == CHOOSE g : g = Table(g)
<1>1. b \in Rows /\ Live(b) = {} /\ Sound(feed, h, Books(b, 1))
  BY EmptySound
<1>2. ASSUME NEW c \in Rows, NEW i \in 1..n PROVE First(c, Report(order[i])) \in Rows
  BY FirstType DEF Reported
<1>3. G \in [Rows \X (1..n) -> Rows]
  BY <1>2
<1>4. \A c \in Rows, i \in 1..n : G[<<c, i>>] = First(c, Report(order[i]))
  OBVIOUS
<1> HIDE DEF G, b
<1>5. \E f : f \in Fillings(Rows, b, 0, n, G)
  <2> HIDE DEF n
  <2>1. n \in Nat /\ 0 \in Nat /\ 0 <= n /\ G \in [Rows \X ((0 + 1)..n) -> Rows]
    BY <1>3 DEF n
  <2> QED
    BY <1>1, <2>1, Fills
<1>6. PICK f \in [0..n -> Rows] : f[0] = b /\ \A i \in 1..n : f[i] = G[<<f[i - 1], i>>]
  BY <1>5 DEF Fillings
<1>7. f = Table(f)
  <2>1. \A i \in 1..n : f[i - 1] \in Rows
    OBVIOUS
  <2>2. \A i \in 1..n : f[i] = First(f[i - 1], Report(order[i]))
    BY <1>4, <1>6, <2>1
  <2>3. f = [i \in 0..n |-> f[i]]
    OBVIOUS
  <2> HIDE DEF n
  <2>4. \A i \in 0..n : f[i] = IF i = 0 THEN b ELSE First(f[i - 1], Report(order[i]))
    BY <1>6, <2>2 DEF n
  <2> QED
    BY <2>3, <2>4
<1>8. after = Table(after)
  BY <1>7, Zenon
<1>9. Imported(order) = after[n]
  BY Zenon DEF Imported, b
<1> HIDE DEF after
<1>10. after[0] = b /\ \A i \in 1..n : after[i] = First(after[i - 1], Report(order[i]))
  BY <1>8
<1> HIDE DEF Table
<1> DEFINE Fine(i) ==
      /\ after[i] \in Rows /\ Sound(feed, h, Books(after[i], 1))
      /\ \A r \in Live(after[i]) :
           /\ ~after[i][r].bill
           /\ \E j \in 1..i : after[i][r].ext = Report(order[j]).ext
<1>11. Fine(0)
  BY <1>1, <1>10
<1>12. ASSUME NEW i \in 1..n, Fine(i - 1) PROVE Fine(i)
  <2> DEFINE t == after[i - 1]
             rp == Report(order[i])
  <2>1. Reported(feed, rp) /\ rp \in ReportType
    BY DEF Reported
  <2>2. ASSUME NEW j \in 1..(i - 1) PROVE Report(order[j]).ext # rp.ext
    <3>1. j \in 1..n /\ j # i
      OBVIOUS
    <3>2. order[j] # order[i]
      BY <3>1
    <3> QED
      BY <3>2 DEF Report
  <2>3. SameId(t, rp) = {}
    BY <1>12, <2>2 DEF SameId
  <2>4. after[i] = First(t, rp)
    BY <1>10
  <2>5. t \in Rows /\ Sound(feed, h, Books(t, 1)) /\ \A r \in Live(t) : ~t[r].bill
    BY <1>12
  <2>6. \A r \in Live(t) : \E j \in 1..i : t[r].ext = Report(order[j]).ext
    <3>1. \A j \in 1..(i - 1) : j \in 1..i
      OBVIOUS
    <3> QED
      BY <1>12, <3>1
  <2>7. i \in 1..i
    OBVIOUS
  <2> HIDE DEF t, rp
  <2>8. /\ First(t, rp) \in Rows /\ Sound(feed, h, Books(First(t, rp), 1))
        /\ \A r \in Live(First(t, rp)) :
             /\ ~First(t, rp)[r].bill
             /\ First(t, rp)[r].ext = rp.ext \/ \E s \in Live(t) : First(t, rp)[r].ext = t[s].ext
    BY <2>1, <2>3, <2>5, FirstSound, FirstType
  <2>9. ASSUME NEW r \in Live(after[i])
        PROVE  ~after[i][r].bill /\ \E j \in 1..i : after[i][r].ext = Report(order[j]).ext
    <3>1. CASE after[i][r].ext = rp.ext
      BY <2>4, <2>7, <2>8, <3>1 DEF rp
    <3>2. CASE \E s \in Live(t) : after[i][r].ext = t[s].ext
      BY <2>4, <2>6, <2>8, <3>2
    <3> QED
      BY <2>4, <2>8, <3>1, <3>2
  <2> QED
    BY <2>4, <2>8, <2>9
<1>13. Fine(n)
  <2> DEFINE S == {i \in 0..n : Fine(i)}
  <2> HIDE DEF Fine
  <2>1. 0 \in S
    BY <1>11
  <2>2. ASSUME NEW i \in 1..n, i - 1 \in S PROVE i \in S
    BY <1>12, <2>2
  <2> HIDE DEF S
  <2>3. 0..n \subseteq S
    BY <2>1, <2>2, ReachesFromZero
  <2> QED
    BY <2>3 DEF S
<1> QED
  BY <1>9, <1>13

-----------------------------------------------------------------------------
(* generate_pending, one occurrence.                                        *)
LEMMA GenerateCases ==
  ASSUME NEW b \in BooksType, NEW k \in 1..Occurrences
  PROVE  LET c == Generated(b, k) IN
         \/ \E r \in Charges(b.rows, k) :
              c = Books([b.rows EXCEPT ![r] = [b.rows[r] EXCEPT !.bill = TRUE]], k + 1)
         \/ /\ Charges(b.rows, k) = {}
            /\ c = Books(Insert(b.rows, Row(k, "recurring", "pending", None, TRUE)), k + 1)
<1> DEFINE t == b.rows
           s == Charges(t, k)
           r == Min(s)
           c == Generated(b, k)
<1>1. t \in Rows /\ b = Books(t, b.nextOcc)
  BY BooksAre
<1>2. CASE s # {}
  <2>1. s \subseteq Live(t) /\ TRUE \in BOOLEAN
    BY DEF Charges
  <2>2. r \in s
    BY <1>1, <1>2, <2>1, Candidates
  <2>3. r \in RowIds /\ t[r] \in RowType
    BY <1>1, <2>1, <2>2, LiveRows
  <2>4. c = [b EXCEPT !.rows = [@ EXCEPT ![r].bill = TRUE], !.nextOcc = k + 1]
    BY <1>2 DEF Generated
  <2> DEFINE u == [t EXCEPT ![r] = [t[r] EXCEPT !.bill = TRUE]]
  <2>5. [t EXCEPT ![r].bill = TRUE] = u
    BY <1>1, <2>3 DEF Rows
  <2>6. c = [b EXCEPT !.rows = u, !.nextOcc = k + 1]
    BY <1>1, <2>4, <2>5 DEF Books
  <2>7. c = Books(u, k + 1)
    <3> HIDE DEF u
    <3> QED
      BY <1>1, <2>6 DEF Books
  <2> QED
    BY <2>2, <2>7
<1>3. CASE s = {}
  <2> DEFINE u == Insert(t, Row(k, "recurring", "pending", None, TRUE))
  <2>1. c = [b EXCEPT !.rows = u, !.nextOcc = k + 1]
    BY <1>1, <1>3 DEF Generated, Books
  <2>2. c = Books(u, k + 1)
    <3> HIDE DEF u
    <3> QED
      BY <1>1, <2>1 DEF Books
  <2> QED
    BY <1>3, <2>2
<1> QED
  BY <1>2, <1>3

LEMMA GeneratedType ==
  ASSUME NEW b \in BooksType, NEW k \in 1..Occurrences
  PROVE  Generated(b, k) \in BooksType /\ Generated(b, k).nextOcc = k + 1
<1> DEFINE t == b.rows
           c == Generated(b, k)
<1>1. t \in Rows /\ k + 1 \in 1..(Occurrences + 1)
  BY BooksAre, FeedAssumption
<1>2. ASSUME NEW r \in Charges(t, k) PROVE [t[r] EXCEPT !.bill = TRUE] \in RowType
  <2>1. t[r] \in RowType
    BY <1>1, LiveRows DEF Charges
  <2> QED
    BY <2>1 DEF RowType
<1>3. Row(k, "recurring", "pending", None, TRUE) \in RowType
  BY FeedAssumption DEF Row, RowType
<1>4. \A x, row : row \in RowType => [t EXCEPT ![x] = row] \in Rows
  BY <1>1 DEF Rows
<1>5. \E u \in Rows : c = Books(u, k + 1)
  BY <1>2, <1>3, <1>4, GenerateCases DEF Insert
<1> QED
  BY <1>1, <1>5, BooksAre

LEMMA GeneratedSound ==
  ASSUME NEW fd \in FeedType, NEW h, NEW b, Sound(fd, h, b), NEW k \in 1..Occurrences,
         b.nextOcc = k
  PROVE  Sound(fd, h, Generated(b, k))
<1> DEFINE t == b.rows
           a == Books(t, k + 1)
           c == Generated(b, k)
<1>1. t \in Rows /\ b \in BooksType /\ k + 1 \in 1..(Occurrences + 1) /\ b.nextOcc <= k + 1
  BY BooksAre, FeedAssumption DEF Sound
<1>2. a.rows = t /\ a.nextOcc = k + 1 /\ Sound(fd, h, a)
  BY <1>1, BooksAre, LaterSound
<1> HIDE DEF a
<1>3. ASSUME NEW r \in Charges(t, k),
             c = Books([t EXCEPT ![r] = [t[r] EXCEPT !.bill = TRUE]], k + 1)
      PROVE  Sound(fd, h, c)
  <2> DEFINE row == [t[r] EXCEPT !.bill = TRUE]
  <2>1. /\ r \in Live(t) /\ t[r].kind = k /\ t[r].source \in {"sync", "manual"}
        /\ t[r] \in RowType /\ RowSound(fd, h, t[r], b.nextOcc)
    BY <1>1, LiveRows DEF Charges, Sound
  <2>2. /\ row \in RowType
        /\ row.kind = k /\ row.source = t[r].source /\ row.status = t[r].status
        /\ row.ext = t[r].ext /\ row.ignored = t[r].ignored /\ row.bill
    BY <2>1 DEF RowType
  <2>3. c = Books([t EXCEPT ![r] = row], k + 1)
    BY <1>3
  <2> HIDE DEF row
  <2>4. SaysSo(fd, t[r]) => SaysSo(fd, row)
    BY <2>2 DEF SaysSo
  <2>5. row.bill => row.kind < k + 1
    BY <2>2
  <2>6. RowSound(fd, h, row, k + 1)
    BY <2>1, <2>2, <2>4, <2>5 DEF RowSound
  <2>7. OwnId(t, r, row) /\ TellsApart(h, t, r, row)
    BY <2>1, <2>2 DEF Sound, OwnIds, OwnId, TellsApart, FromBank
  <2>8. StandsAlone(h, t, r, row)
    <3>1. CASE Typed(h, k)
      BY <2>2, <3>1 DEF StandsAlone, Plain
    <3>2. CASE ~Typed(h, k)
      <4>1. t[r].ext # None /\ row.ext # None
        BY <2>1, <2>2, <3>2 DEF RowSound
      <4> QED
        BY <2>1, <2>2, <4>1, StaysAlone DEF Sound
    <3> QED
      BY <3>1, <3>2
  <2>9. Sound(fd, h, Books([a.rows EXCEPT ![r] = row], a.nextOcc))
    BY <1>2, <2>2, <2>6, <2>7, <2>8, WrittenSound
  <2> QED
    BY <1>2, <2>3, <2>9
<1>4. ASSUME Charges(t, k) = {},
             c = Books(Insert(t, Row(k, "recurring", "pending", None, TRUE)), k + 1)
      PROVE  Sound(fd, h, c)
  <2> DEFINE row == Row(k, "recurring", "pending", None, TRUE)
             x == Min(Free(t))
  <2>1. /\ row \in RowType
        /\ row.kind = k /\ row.source = "recurring" /\ row.ext = None
        /\ row.ignored = FALSE /\ row.bill
    BY FeedAssumption DEF Row, RowType
  <2>2. c = Books([t EXCEPT ![x] = row], k + 1)
    BY <1>4 DEF Insert
  <2> HIDE DEF row, x
  <2>3. row.bill => row.kind < k + 1
    BY <2>1
  <2>4. RowSound(fd, h, row, k + 1)
    BY <2>1, <2>3 DEF RowSound
  <2>5. OwnId(t, x, row) /\ TellsApart(h, t, x, row)
    BY <2>1 DEF OwnId, TellsApart
  <2>6. StandsAlone(h, t, x, row)
    <3> SUFFICES ASSUME Plain(h, k), NEW s \in Live(t), t[s].kind = k, Standing(t[s])
                 PROVE  FALSE
      BY <2>1 DEF StandsAlone
    <3>1. t[s] \in RowType /\ RowSound(fd, h, t[s], k)
      BY <1>1, LiveRows DEF Sound
    <3>2. ~t[s].bill
      <4>1. ~(k < k)
        OBVIOUS
      <4> QED
        BY <3>1, <4>1 DEF RowSound
    <3>3. t[s].source = "sync" /\ ~t[s].ignored
      BY <3>1, <3>2 DEF RowSound, Standing, Plain
    <3> QED
      BY <1>4, <3>2, <3>3 DEF Charges
  <2>7. Sound(fd, h, Books([a.rows EXCEPT ![x] = row], a.nextOcc))
    BY <1>2, <2>1, <2>4, <2>5, <2>6, WrittenSound
  <2> QED
    BY <1>2, <2>2, <2>7
<1> QED
  BY <1>1, <1>3, <1>4, GenerateCases

(* Every occurrence that came due, one after the other.                     *)
LEMMA GeneratedWithin ==
  ASSUME NEW b \in BooksType, today \in 0..Occurrences, b.nextOcc <= today
  PROVE  \E f : /\ f[b.nextOcc] = b
                /\ \A k \in (b.nextOcc + 1)..(today + 1) : f[k] = Generated(f[k - 1], k - 1)
                /\ \A k \in b.nextOcc..(today + 1) : f[k] \in BooksType /\ f[k].nextOcc = k
                /\ AllGenerated(b) = f[today + 1]
<1> DEFINE a == b.nextOcc
           n == today + 1
           G == [y \in BooksType \X ((a + 1)..n) |-> Generated(y[1], y[2] - 1)]
           Table(g) == [k \in a..n |-> IF k = a THEN b ELSE Generated(g[k - 1], k - 1)]
           before == CHOOSE g : g = Table(g)
<1>1. a \in Nat /\ n \in Nat /\ a <= n /\ a >= 1 /\ n <= Occurrences + 1
  BY BooksAre, FeedAssumption
<1> HIDE DEF a, n
<1>2. ASSUME NEW k \in (a + 1)..n PROVE k - 1 \in 1..Occurrences
  BY <1>1, FeedAssumption
<1>3. G \in [BooksType \X ((a + 1)..n) -> BooksType]
  BY <1>2, GeneratedType
<1>4. \A c \in BooksType, k \in (a + 1)..n : G[<<c, k>>] = Generated(c, k - 1)
  OBVIOUS
<1> HIDE DEF G
<1>5. \E f : f \in Fillings(BooksType, b, a, n, G)
  BY <1>1, <1>3, Fills
<1>6. PICK f \in [a..n -> BooksType] :
        f[a] = b /\ \A k \in (a + 1)..n : f[k] = G[<<f[k - 1], k>>]
  BY <1>5 DEF Fillings
<1>7. f = Table(f)
  <2>1. \A k \in (a + 1)..n : f[k - 1] \in BooksType
    BY <1>1
  <2>2. \A k \in (a + 1)..n : f[k] = Generated(f[k - 1], k - 1)
    BY <1>4, <1>6, <2>1
  <2>3. f = [k \in a..n |-> f[k]]
    OBVIOUS
  <2>4. \A k \in a..n : k = a \/ k \in (a + 1)..n
    BY <1>1
  <2>5. \A k \in a..n : f[k] = IF k = a THEN b ELSE Generated(f[k - 1], k - 1)
    BY <1>6, <2>2, <2>4
  <2> QED
    BY <2>3, <2>5
<1>8. before = Table(before)
  BY <1>7, Zenon
<1>9. AllGenerated(b) = before[n]
  BY Zenon DEF AllGenerated, a, n
<1> HIDE DEF before
<1>10. before[a] = b /\ \A k \in (a + 1)..n : before[k] = Generated(before[k - 1], k - 1)
  BY <1>1, <1>8
<1> HIDE DEF Table
<1> DEFINE S == {k \in a..n : before[k] \in BooksType /\ before[k].nextOcc = k}
<1>11. a \in S
  BY <1>1, <1>10 DEF a
<1>12. ASSUME NEW k \in (a + 1)..n, k - 1 \in S PROVE k \in S
  <2>1. before[k - 1] \in BooksType /\ k - 1 \in 1..Occurrences
    BY <1>2, <1>12
  <2>2. Generated(before[k - 1], k - 1) \in BooksType
        /\ Generated(before[k - 1], k - 1).nextOcc = (k - 1) + 1
    BY <2>1, GeneratedType
  <2>3. k \in a..n /\ (k - 1) + 1 = k
    BY <1>1
  <2> QED
    BY <1>10, <2>2, <2>3
<1> HIDE DEF S
<1>13. a..n \subseteq S
  BY <1>1, <1>11, <1>12, Reaches
<1> QED
  BY <1>9, <1>10, <1>13 DEF S, a, n

LEMMA GeneratedInSteps ==
  ASSUME NEW fd \in FeedType, NEW h, NEW b, Sound(fd, h, b),
         today \in 0..Occurrences, b.nextOcc <= today
  PROVE  \E f : /\ f[b.nextOcc] = b
                /\ \A k \in (b.nextOcc + 1)..(today + 1) : f[k] = Generated(f[k - 1], k - 1)
                /\ \A k \in b.nextOcc..(today + 1) : Sound(fd, h, f[k]) /\ f[k].nextOcc = k
                /\ AllGenerated(b) = f[today + 1]
<1> DEFINE a == b.nextOcc
           n == today + 1
<1>1. b \in BooksType /\ a \in Nat /\ n \in Nat /\ a <= n /\ a >= 1 /\ n <= Occurrences + 1
  BY BooksAre, FeedAssumption DEF Sound
<1>2. PICK f : /\ f[a] = b
               /\ \A k \in (a + 1)..n : f[k] = Generated(f[k - 1], k - 1)
               /\ \A k \in a..n : f[k] \in BooksType /\ f[k].nextOcc = k
               /\ AllGenerated(b) = f[n]
  BY <1>1, GeneratedWithin
<1> HIDE DEF a, n
<1> DEFINE S == {k \in a..n : Sound(fd, h, f[k])}
<1>3. a \in S
  BY <1>1, <1>2
<1>4. ASSUME NEW k \in (a + 1)..n, k - 1 \in S PROVE k \in S
  <2>1. k - 1 \in a..n /\ k - 1 \in 1..Occurrences /\ k \in a..n
    BY <1>1, FeedAssumption
  <2>2. Sound(fd, h, f[k - 1]) /\ f[k - 1].nextOcc = k - 1
    BY <1>2, <1>4, <2>1
  <2>3. Sound(fd, h, Generated(f[k - 1], k - 1))
    BY <2>1, <2>2, GeneratedSound
  <2> QED
    BY <1>2, <2>1, <2>3
<1> HIDE DEF S
<1>5. a..n \subseteq S
  BY <1>1, <1>3, <1>4, Reaches
<1> QED
  BY <1>2, <1>5 DEF S, a, n

(* The order reports come in: each operation that is listed, once.          *)
LEMMA OrderOfReports ==
  ASSUME feed \in FeedType, NEW pending \in BOOLEAN,
         NEW order \in SetToSeqs(Listed(pending))
  PROVE  /\ Len(order) = Cardinality(Listed(pending)) /\ Len(order) \in Nat
         /\ \A i \in 1..Len(order) :
              order[i] \in Listed(pending) /\ Reported(feed, Report(order[i]))
         /\ \A i, j \in 1..Len(order) : order[i] = order[j] => i = j
         /\ \A o \in Listed(pending) : \E i \in 1..Len(order) : order[i] = o
<1> DEFINE T == Listed(pending)
           n == Cardinality(T)
<1>1. T \in SUBSET Ops
  BY DEF Listed
<1>2. IsFiniteSet(T) /\ n \in Nat
  <2>1. IsFiniteSet(T)
    BY <1>1, FeedAssumption, FS_Subset
  <2> QED
    BY <2>1, FS_CardinalityType
<1>3. /\ order \in [1..n -> T]
      /\ \A i, j \in 1..n : i # j => order[i] # order[j]
  BY DEF SetToSeqs
<1> HIDE DEF T, n
<1>4. Len(order) = n
  BY <1>2, <1>3
<1>5. \A o \in T : feed[o].status \in {"pending", "posted"}
  BY DEF T, Listed
<1>6. ASSUME NEW o \in T PROVE Reported(feed, Report(o))
  <2>1. o \in Ops /\ feed[o].id \in {1, 2} /\ feed[o].status \in {"pending", "posted"}
    BY <1>1, <1>5 DEF FeedType
  <2> QED
    BY <2>1 DEF Reported, ReportType, Report, Ids
<1>7. \A o \in T : \E i \in 1..n : order[i] = o
  <2>1. order \in Injection(1..n, T)
    BY <1>3 DEF Injection, IsInjective
  <2>2. IsFiniteSet(1..n) /\ Cardinality(1..n) = n
    <3>1. 1 \in Int /\ n \in Int
      BY <1>2
    <3>2. /\ IsFiniteSet(1..n)
          /\ Cardinality(1..n) = IF 1 > n THEN 0 ELSE n - 1 + 1
      BY <3>1, FS_Interval
    <3> QED
      BY <1>2, <3>2
  <2>3. Cardinality(1..n) = Cardinality(T) <=> order \in Surjection(1..n, T)
    BY <1>2, <2>1, FS_Injection
  <2>4. order \in Surjection(1..n, T)
    BY <2>2, <2>3 DEF n
  <2> QED
    BY <2>4 DEF Surjection
<1> QED
  BY <1>2, <1>3, <1>4, <1>6, <1>7 DEF T, n


-----------------------------------------------------------------------------
(* With room for what comes, no row is written over: rows keep their window, *)
(* and a posted one its operation.                                          *)
KeptRow(old, new) ==
  /\ new.kind = old.kind /\ new.ignored = old.ignored
  /\ (old.status = "posted" /\ old.ext # None) =>
       new.status = "posted" /\ new.ext = old.ext
Keeps(t, u) == \A r \in Live(t) : r \in Live(u) /\ KeptRow(t[r], u[r])

LEMMA KeepsOn ==
  ASSUME NEW s, NEW t, NEW u, Keeps(s, t), Keeps(t, u)
  PROVE  Keeps(s, u)
BY DEF Keeps, KeptRow

LEMMA KeepsItself == \A t : Keeps(t, t)
  BY DEF Keeps, KeptRow

LEMMA WriteKeeps ==
  ASSUME NEW t \in Rows, NEW x, NEW row \in RowType,
         x \in Live(t) => KeptRow(t[x], row)
  PROVE  LET u == [t EXCEPT ![x] = row] IN
         Keeps(t, u) /\ Free(t) \ {x} \subseteq Free(u)
<1> DEFINE u == [t EXCEPT ![x] = row]
<1>1. \A r \in RowIds : u[r] = IF r = x THEN row ELSE t[r]
  BY DEF Rows
<1> HIDE DEF u
<1>2. row # NoRow
  BY LiveRows
<1>3. \A r \in Live(t) : r \in Live(u) /\ KeptRow(t[r], u[r])
  BY <1>1, <1>2 DEF Live, KeptRow
<1>4. Free(t) \ {x} \subseteq Free(u)
  BY <1>1 DEF Free, Live
<1> QED
  BY <1>3, <1>4 DEF Keeps, u

LEMMA NextFree ==
  ASSUME NEW t, Free(t) # {}
  PROVE  Min(Free(t)) \in RowIds /\ Min(Free(t)) \notin Live(t)
<1>1. Free(t) \subseteq Nat
  BY FeedAssumption DEF Free
<1>2. Min(Free(t)) \in Free(t)
  BY <1>1, LeastIn
<1> QED
  BY <1>2 DEF Free

(* One more report, or occurrence, uses up one id at most.                  *)
UsesOne(b, c) ==
  Keeps(b.rows, c.rows) /\ \E x : Free(b.rows) \ {x} \subseteq Free(c.rows)

LEMMA WritesUseOne ==
  ASSUME NEW b \in BooksType, NEW n, NEW x, NEW row \in RowType,
         x \in Live(b.rows) => KeptRow(b.rows[x], row)
  PROVE  UsesOne(b, Books([b.rows EXCEPT ![x] = row], n))
<1>1. b.rows \in Rows
  BY BooksAre
<1>2. Books([b.rows EXCEPT ![x] = row], n).rows = [b.rows EXCEPT ![x] = row]
  BY DEF Books
<1> QED
  BY <1>1, <1>2, WriteKeeps DEF UsesOne

LEMMA MergedUsesOne ==
  ASSUME NEW b \in BooksType, Free(b.rows) # {}, NEW rp \in ReportType,
         NEW newest \in BOOLEAN
  PROVE  UsesOne(b, Merged(b, rp, newest))
<1> DEFINE t == b.rows
           c == Merged(b, rp, newest)
<1>1. t \in Rows /\ rp.ext \in Ids /\ rp.status \in {"pending", "posted"}
  BY BooksAre DEF ReportType
<1>2. \A r \in Live(t) : t[r] \in RowType
  BY <1>1, LiveRows
<1>3. ASSUME NEW r \in Live(t), NEW row \in RowType, WritesOver(b, c, r, row), KeptRow(t[r], row)
      PROVE  UsesOne(b, c)
  BY <1>3, WritesUseOne DEF WritesOver
<1> SUFFICES UsesOne(b, c)
  OBVIOUS
<1> HIDE DEF c
<1>4. CASE Confirming(b, c, rp)
  <2>1. PICK r \in SameId(t, rp) : WritesOver(b, c, r, Confirmed(t[r], rp))
    BY <1>4 DEF Confirming
  <2>2. r \in Live(t) /\ t[r] \in RowType
    BY <1>2 DEF SameId
  <2>3. Confirmed(t[r], rp) = [t[r] EXCEPT !.status = "posted"] \/ Confirmed(t[r], rp) = t[r]
    BY <2>2 DEF Confirmed, RowType
  <2>4. Confirmed(t[r], rp) \in RowType /\ KeptRow(t[r], Confirmed(t[r], rp))
    BY <2>2, <2>3 DEF RowType, KeptRow
  <2> QED
    BY <1>3, <2>1, <2>2, <2>4
<1>5. CASE Adopting(b, c, rp)
  <2>1. PICK r \in TypedTwins(t, rp) : WritesOver(b, c, r, Adopted(t[r], rp))
    BY <1>5 DEF Adopting
  <2>2. r \in Live(t) /\ t[r] \in RowType /\ t[r].ext = None
    BY <1>2 DEF TypedTwins
  <2>3. Adopted(t[r], rp) \in RowType /\ KeptRow(t[r], Adopted(t[r], rp))
    BY <1>1, <2>2 DEF Adopted, RowType, KeptRow
  <2> QED
    BY <1>3, <2>1, <2>2, <2>3
<1>6. CASE Moving(b, c, rp)
  <2>1. PICK r \in SyncedTwins(t, rp) : WritesOver(b, c, r, Moved(t[r], rp))
    BY <1>6 DEF Moving
  <2>2. r \in Live(t) /\ t[r] \in RowType
    BY <1>2 DEF SyncedTwins
  <2>3. Moved(t[r], rp) \in RowType /\ KeptRow(t[r], Moved(t[r], rp))
    BY <1>1, <2>2 DEF Moved, Posted, RowType, KeptRow
  <2> QED
    BY <1>3, <2>1, <2>2, <2>3
<1>7. CASE Charging(b, c, rp)
  <2>1. PICK r \in Placeholders(t, rp) : WritesOver(b, c, r, Filled(t[r], rp))
    BY <1>7 DEF Charging
  <2>2. r \in Live(t) /\ t[r] \in RowType /\ t[r].ext = None
    BY <1>2 DEF Placeholders
  <2>3. Filled(t[r], rp) \in RowType /\ KeptRow(t[r], Filled(t[r], rp))
    BY <1>1, <2>2 DEF Filled, RowType, KeptRow
  <2> QED
    BY <1>3, <2>1, <2>2, <2>3
<1>8. CASE Appearing(b, c, rp)
  <2>1. Found(b, rp) \in RowType
    BY <1>1, FeedAssumption DEF Found, Row, RowType, ReportType, Fulfils
  <2>2. Min(Free(t)) \notin Live(t)
    BY NextFree
  <2> QED
    BY <1>8, <2>1, <2>2, WritesUseOne DEF Appearing, Insert
<1> QED
  BY <1>4, <1>5, <1>6, <1>7, <1>8, MergeCases DEF c

LEMMA GeneratedUsesOne ==
  ASSUME NEW b \in BooksType, Free(b.rows) # {}, NEW k \in 1..Occurrences
  PROVE  UsesOne(b, Generated(b, k))
<1> DEFINE t == b.rows
           c == Generated(b, k)
<1>1. t \in Rows
  BY BooksAre
<1>2. CASE \E r \in Charges(t, k) : c = Books([t EXCEPT ![r] = [t[r] EXCEPT !.bill = TRUE]], k + 1)
  <2>1. PICK r \in Charges(t, k) : c = Books([t EXCEPT ![r] = [t[r] EXCEPT !.bill = TRUE]], k + 1)
    BY <1>2
  <2> DEFINE row == [t[r] EXCEPT !.bill = TRUE]
  <2>2. t[r] \in RowType
    BY <1>1, LiveRows DEF Charges
  <2>3. row \in RowType /\ KeptRow(t[r], row)
    BY <2>2 DEF RowType, KeptRow
  <2>4. c = Books([t EXCEPT ![r] = row], k + 1)
    BY <2>1
  <2> HIDE DEF row
  <2> QED
    BY <2>3, <2>4, WritesUseOne
<1>3. CASE c = Books(Insert(t, Row(k, "recurring", "pending", None, TRUE)), k + 1)
  <2> DEFINE row == Row(k, "recurring", "pending", None, TRUE)
  <2>1. row \in RowType
    BY FeedAssumption DEF Row, RowType
  <2>2. Min(Free(t)) \notin Live(t)
    BY NextFree
  <2>3. c = Books([t EXCEPT ![Min(Free(t))] = row], k + 1)
    BY <1>3 DEF Insert
  <2> HIDE DEF row
  <2> QED
    BY <2>1, <2>2, <2>3, WritesUseOne
<1> QED
  BY <1>2, <1>3, GenerateCases

(* What is left of the room, and what is kept, along a whole sync and over  *)
(* all the occurrences that came due.                                       *)
LEMMA RoomLeft ==
  ASSUME NEW b, NEW c, NEW m \in Nat, UsesOne(b, c), Cardinality(Free(b.rows)) >= m + 1
  PROVE  Cardinality(Free(c.rows)) >= m
<1> DEFINE F == Free(b.rows)
           G == Free(c.rows)
<1>1. IsFiniteSet(F) /\ IsFiniteSet(G)
  <2>1. F \subseteq RowIds /\ G \subseteq RowIds
    BY DEF Free
  <2> QED
    BY <2>1, FeedAssumption, FS_Subset
<1>2. PICK x : F \ {x} \subseteq G
  BY DEF UsesOne
<1> HIDE DEF F, G
<1>3. /\ Cardinality(F) \in Nat /\ Cardinality(G) \in Nat /\ IsFiniteSet(F \ {x})
      /\ Cardinality(F \ {x}) = IF x \in F THEN Cardinality(F) - 1 ELSE Cardinality(F)
  BY <1>1, FS_CardinalityType, FS_RemoveElement
<1>4. Cardinality(F \ {x}) <= Cardinality(G)
  BY <1>1, <1>2, FS_Subset
<1>5. Cardinality(F) >= m + 1
  BY DEF F
<1>6. Cardinality(G) >= m
  BY <1>3, <1>4, <1>5
<1> QED
  BY <1>6 DEF G

LEMMA RoomIsFree ==
  ASSUME NEW t, NEW m \in Nat, Cardinality(Free(t)) >= m + 1
  PROVE  Free(t) # {}
<1>1. Cardinality({}) = 0
  BY FS_EmptySet
<1> QED
  BY <1>1

LEMMA StepsKeep ==
  ASSUME feed \in FeedType, NEW h, NEW b, NEW order, Len(order) \in Nat,
         \A i \in 1..Len(order) : Reported(feed, Report(order[i])),
         NEW newest \in BOOLEAN, NEW f, Steps(f, b, order, newest),
         \A i \in 0..Len(order) : Sound(feed, h, f[i]),
         Cardinality(Free(b.rows)) >= Len(order)
  PROVE  /\ \A i \in 0..Len(order) : Keeps(b.rows, f[i].rows)
         /\ \A i \in 1..Len(order) : Free(f[i - 1].rows) # {} /\ Keeps(f[i - 1].rows, f[i].rows)
<1> DEFINE n == Len(order)
           S == {i \in 0..n : /\ Cardinality(Free(f[i].rows)) >= n - i
                              /\ Keeps(b.rows, f[i].rows)}
<1> HIDE DEF n
<1>1. n \in Nat /\ f[0] = b /\ Cardinality(Free(b.rows)) >= n
  BY DEF n, Steps
<1>2. ASSUME NEW i \in 1..n
      PROVE  /\ Report(order[i]) \in ReportType /\ f[i - 1] \in BooksType
             /\ f[i] = Merged(f[i - 1], Report(order[i]), newest)
  <2>1. i - 1 \in 0..n
    BY <1>1
  <2> QED
    BY <2>1 DEF n, Steps, Sound, Reported
<1>3. ASSUME NEW i \in 1..n, i - 1 \in S
      PROVE  Free(f[i - 1].rows) # {} /\ UsesOne(f[i - 1], f[i]) /\ i \in S
  <2>1. n - i \in Nat /\ n - (i - 1) = (n - i) + 1
    BY <1>1
  <2>2. Cardinality(Free(f[i - 1].rows)) >= (n - i) + 1 /\ Keeps(b.rows, f[i - 1].rows)
    BY <1>3, <2>1
  <2>3. Free(f[i - 1].rows) # {}
    BY <2>1, <2>2, RoomIsFree
  <2>4. UsesOne(f[i - 1], f[i])
    BY <1>2, <2>3, MergedUsesOne
  <2>5. Cardinality(Free(f[i].rows)) >= n - i
    BY <2>1, <2>2, <2>4, RoomLeft
  <2>6. Keeps(b.rows, f[i].rows)
    BY <2>2, <2>4, KeepsOn DEF UsesOne
  <2> QED
    BY <2>3, <2>4, <2>5, <2>6
<1>4. 0 \in S
  BY <1>1, KeepsItself
<1>5. 0..n \subseteq S
  <2> HIDE DEF S
  <2> QED
    BY <1>1, <1>3, <1>4, ReachesFromZero
<1>6. \A i \in 1..n : i - 1 \in 0..n
  BY <1>1
<1>7. \A i \in 0..n : Keeps(b.rows, f[i].rows)
  BY <1>5
<1> HIDE DEF S
<1> QED
  BY <1>3, <1>5, <1>6, <1>7 DEF n, UsesOne

LEMMA GeneratedKeeps ==
  ASSUME feed \in FeedType, NEW h, NEW b, Sound(feed, h, b),
         today \in 0..Occurrences, b.nextOcc <= today,
         Cardinality(Free(b.rows)) >= today + 1 - b.nextOcc
  PROVE  Sound(feed, h, AllGenerated(b)) /\ Keeps(b.rows, AllGenerated(b).rows)
<1> DEFINE a == b.nextOcc
           n == today + 1
<1>1. a \in 1..n /\ n \in 1..(Occurrences + 1) /\ Occurrences \in Nat
  <2>1. b.nextOcc \in 1..(Occurrences + 1) /\ Occurrences \in Nat
    BY BooksAre, FeedAssumption DEF Sound
  <2> QED
    BY <2>1
<1>2. PICK f : /\ f[a] = b
               /\ \A k \in (a + 1)..n : f[k] = Generated(f[k - 1], k - 1)
               /\ \A k \in a..n : Sound(feed, h, f[k])
               /\ AllGenerated(b) = f[n]
  BY GeneratedInSteps
<1>3. Cardinality(Free(b.rows)) >= n - a
  <2>1. today + 1 - b.nextOcc = n - a
    BY <1>1
  <2> QED
    BY <2>1
<1> HIDE DEF a, n
<1> DEFINE S == {k \in a..n : /\ Cardinality(Free(f[k].rows)) >= n - k
                              /\ Keeps(b.rows, f[k].rows)}
<1>4. a \in S
  BY <1>1, <1>2, <1>3, KeepsItself
<1>5. ASSUME NEW k \in (a + 1)..n, k - 1 \in S PROVE k \in S
  <2>1. /\ n - k \in Nat /\ n - (k - 1) = (n - k) + 1
        /\ k - 1 \in a..n /\ k - 1 \in 1..Occurrences /\ k \in a..n
    BY <1>1
  <2>2. Cardinality(Free(f[k - 1].rows)) >= (n - k) + 1 /\ Keeps(b.rows, f[k - 1].rows)
    BY <1>5, <2>1
  <2>3. Free(f[k - 1].rows) # {}
    BY <2>1, <2>2, RoomIsFree
  <2>4. UsesOne(f[k - 1], f[k])
    BY <1>2, <2>1, <2>3, GeneratedUsesOne DEF Sound
  <2>5. Cardinality(Free(f[k].rows)) >= n - k
    BY <2>1, <2>2, <2>4, RoomLeft
  <2>6. Keeps(b.rows, f[k].rows)
    BY <2>2, <2>4, KeepsOn DEF UsesOne
  <2> QED
    BY <2>1, <2>5, <2>6
<1>6. n \in S
  <2>1. a \in Nat /\ n \in Nat /\ n \in a..n
    BY <1>1
  <2> HIDE DEF S
  <2>2. a..n \subseteq S
    BY <1>4, <1>5, <2>1, Reaches
  <2> QED
    BY <2>1, <2>2
<1>7. n \in a..n
  BY <1>6
<1> QED
  BY <1>2, <1>6, <1>7

-----------------------------------------------------------------------------
(* What the bank says only goes forward, and so does the user's history.    *)
GoesOn(fd, fe) ==
  \A o \in Ops : \/ fe[o] = fd[o]
                 \/ fd[o].status \in {"none", "pending"} /\ fe[o].status # "none"

LEMMA StableSound ==
  ASSUME NEW fd \in FeedType, NEW fe \in FeedType, GoesOn(fd, fe),
         NEW h, NEW i, h \subseteq i, NEW b, Sound(fd, h, b)
  PROVE  Sound(fe, i, b)
<1> DEFINE t == b.rows
<1>1. t \in Rows
  BY BooksAre DEF Sound
<1>2. \A k : (Typed(h, k) => Typed(i, k)) /\ (Hid(h, k) => Hid(i, k))
  BY DEF Typed, Hid
<1>3. ASSUME NEW r \in Live(t) PROVE RowSound(fe, i, t[r], b.nextOcc)
  <2>1. RowSound(fd, h, t[r], b.nextOcc) /\ t[r] \in RowType
    BY <1>1, LiveRows DEF Sound
  <2>2. ASSUME t[r].ext # None, SaysSo(fd, t[r]) PROVE SaysSo(fe, t[r])
    <3> DEFINE o == t[r].ext[1]
    <3>1. o \in Ops
      BY <2>1, <2>2 DEF RowType, Ids
    <3>2. CASE fe[o] = fd[o]
      BY <2>2, <3>2 DEF SaysSo
    <3>3. CASE fd[o].status \in {"none", "pending"} /\ fe[o].status # "none"
      <4>1. t[r].status # "posted"
        <5>1. \A x : Says("posted", x).status = "posted"
          BY DEF Says
        <5> QED
          BY <2>2, <3>3, <5>1 DEF SaysSo
      <4> QED
        BY <2>2, <3>3, <4>1 DEF SaysSo
    <3> QED
      BY <3>1, <3>2, <3>3 DEF GoesOn
  <2> QED
    BY <1>2, <2>1, <2>2 DEF RowSound
<1>4. Attributed(fe, i, t)
  <2> SUFFICES ASSUME NEW k \in 0..Occurrences, ~Typed(i, k)
               PROVE  ExistsInjection(FromBank(t, k), Seen(fe, k))
    BY DEF Attributed
  <2>1. ExistsInjection(FromBank(t, k), Seen(fd, k))
    BY <1>2 DEF Sound, Attributed
  <2>2. Seen(fd, k) \subseteq Seen(fe, k)
    <3> SUFFICES ASSUME NEW o \in Ops, fd[o].status \in Ever
                 PROVE  fe[o].status \in Ever
      BY DEF Seen
    <3>1. fe[o].status \in {"none", "pending", "posted", "dropped"}
      BY DEF FeedType
    <3> QED
      BY <3>1 DEF GoesOn, Ever
  <2>3. PICK g \in Injection(FromBank(t, k), Seen(fd, k)) : TRUE
    BY <2>1 DEF ExistsInjection
  <2>4. g \in Injection(FromBank(t, k), Seen(fe, k))
    BY <2>2, <2>3 DEF Injection
  <2> QED
    BY <2>4 DEF ExistsInjection
<1>5. Alone(i, t)
  BY <1>2 DEF Sound, Alone, Plain
<1> QED
  BY <1>3, <1>4, <1>5 DEF Sound

(* What changed meanwhile under an open transaction: rows it read may be    *)
(* gone, be hidden or have lost their bill; rows it did not read were typed. *)
(* The transaction itself gives no row another window.                      *)
Unmoved(row, old) ==
  /\ row.kind = old.kind /\ row.source = old.source /\ row.status = old.status
  /\ row.ext = old.ext /\ row.paired = old.paired
  /\ row.bill => old.bill
SameKinds(t, u) == \A r \in Live(t) : r \in Live(u) => u[r].kind = t[r].kind
Follows(t, n, h, f) ==
  /\ f.from.nextOcc = n /\ SameKinds(f.from.rows, f.to.rows)
  /\ \A r \in Live(t) : IF r \in Live(f.from.rows) THEN Unmoved(t[r], f.from.rows[r])
                        ELSE Own(h, t[r])

TxnType == [by : {"sync", "generate"}, from : BooksType, to : BooksType]
FeedTypes ==
  /\ feed \in FeedType /\ today \in 0..Occurrences
  /\ hand \subseteq {"typed", "hid"} \X (0..Occurrences)
  /\ txn \in [Writers -> TxnType \cup {NoTxn}]

(* What an open transaction is about to write is sound, and still fits.     *)
OpenSound ==
  \A w \in Writers : txn[w] # NoTxn =>
    Sound(feed, hand, txn[w].to) /\ Follows(rows, nextOcc, hand, txn[w])

FeedIInv == FeedTypes /\ FirstIds(feed) /\ Sound(feed, hand, Current) /\ OpenSound

(* An open transaction is a transaction.                                    *)
LEMMA OpenTxn ==
  ASSUME FeedTypes, NEW w \in Writers, txn[w] # NoTxn
  PROVE  txn[w] \in TxnType /\ txn[w].from \in BooksType /\ txn[w].to \in BooksType
BY DEF FeedTypes, TxnType

LEMMA TxnIsOpen ==
  /\ NoTxn \notin TxnType
  /\ \A x : x \in TxnType => x # NoTxn
<1>1. \A x \in TxnType : x.by # "none"
  BY DEF TxnType
<1> QED
  BY <1>1 DEF NoTxn

LEMMA CurrentIs ==
  ASSUME Sound(feed, hand, Current)
  PROVE  rows \in Rows /\ nextOcc \in 1..(Occurrences + 1)
         /\ Current.rows = rows /\ Current.nextOcc = nextOcc
<1>1. Current \in BooksType /\ Current.rows = rows /\ Current.nextOcc = nextOcc
  BY DEF Sound, Current, Books
<1> QED
  BY <1>1, BooksAre

(* The invariant contains the types.                                        *)
LEMMA FeedInitially == FeedInit => FeedIInv
<1> SUFFICES ASSUME FeedInit PROVE FeedIInv
  OBVIOUS
<1>1. feed \in FeedType /\ FirstIds(feed)
  <2>1. /\ \A o \in Ops : feed[o] \in {Says("none", 1), Says("pending", 1), Says("posted", 1)}
        /\ feed \in [Ops -> {Says("none", 1), Says("pending", 1), Says("posted", 1)}]
    BY DEF FeedInit
  <2> QED
    BY <2>1 DEF FeedType, FirstIds, Says
<1>2. nextOcc \in 1..(Occurrences + 1) /\ today \in 0..Occurrences /\ hand = {}
  BY FeedAssumption DEF FeedInit
<1>3. PICK order \in SetToSeqs(Listed(TRUE)) :
        \E P \in SUBSET Live(Imported(order)) :
          rows = Paired(Books(Imported(order), 1), P).rows
  BY DEF FeedInit
<1>4. PICK P \in SUBSET Live(Imported(order)) :
        rows = Paired(Books(Imported(order), 1), P).rows
  BY <1>3
<1> DEFINE b == Books(Imported(order), 1)
           c == Paired(b, P)
<1>5. Imported(order) \in Rows /\ Sound(feed, hand, b)
  <2>1. TRUE \in BOOLEAN
    OBVIOUS
  <2>2. /\ Len(order) \in Nat
        /\ \A i \in 1..Len(order) : Reported(feed, Report(order[i]))
        /\ \A i, j \in 1..Len(order) : order[i] = order[j] => i = j
    BY <1>1, <2>1, OrderOfReports
  <2> QED
    BY <1>1, <2>2, ImportedSound
<1>6. 1 \in 1..(Occurrences + 1)
  BY FeedAssumption
<1>7. b \in BooksType /\ b.rows = Imported(order) /\ b.nextOcc = 1
  BY <1>5, <1>6, BooksAre
<1> HIDE DEF b
<1>8. Sound(feed, hand, c) /\ c.nextOcc = 1 /\ c.rows = rows
  BY <1>4, <1>5, <1>7, PairedSound, PairedFields DEF b
<1> HIDE DEF c
<1>9. Sound(feed, hand, Current)
  BY <1>2, <1>8, LaterSound DEF Current
<1>10. txn = [w \in Writers |-> NoTxn]
  BY DEF FeedInit
<1> QED
  BY <1>1, <1>2, <1>9, <1>10 DEF FeedIInv, FeedTypes, OpenSound

(* A transaction that opens reads the books as they are.                    *)
LEMMA OpensStep ==
  ASSUME FeedIInv, NEW w \in Writers, NEW by \in {"sync", "generate"}, NEW to,
         Sound(feed, hand, to), SameKinds(rows, to.rows), Opens(w, by, to)
  PROVE  FeedIInv'
<1> DEFINE f == [by |-> by, from |-> Current, to |-> to]
<1>1. txn' = [txn EXCEPT ![w] = f] /\ UNCHANGED <<feed, rows, nextOcc, today, hand>>
  BY DEF Opens
<1>2. f \in TxnType /\ f.from = Current /\ f.to = to
  BY DEF TxnType, FeedIInv, Sound
<1> HIDE DEF f
<1>3. FeedTypes'
  BY <1>1, <1>2 DEF FeedIInv, FeedTypes
<1>4. Follows(rows, nextOcc, hand, f)
  <2>1. Current.rows = rows /\ Current.nextOcc = nextOcc
    BY CurrentIs DEF FeedIInv
  <2> QED
    BY <1>2, <2>1 DEF Follows, SameKinds, Unmoved
<1>5. OpenSound'
  <2> SUFFICES ASSUME NEW v \in Writers, txn'[v] # NoTxn
               PROVE  /\ Sound(feed', hand', txn'[v].to)
                      /\ Follows(rows', nextOcc', hand', txn'[v])
    BY DEF OpenSound
  <2>1. CASE v = w
    BY <1>1, <1>2, <1>4, <2>1 DEF FeedIInv, FeedTypes
  <2>2. CASE v # w
    BY <1>1, <2>2 DEF FeedIInv, FeedTypes, OpenSound
  <2> QED
    BY <2>1, <2>2
<1>6. FirstIds(feed') /\ Sound(feed', hand', Current')
  BY <1>1 DEF FeedIInv, Current
<1> QED
  BY <1>3, <1>5, <1>6 DEF FeedIInv

LEMMA SyncReadsStep ==
  ASSUME FeedIInv, NEW w \in Writers, SyncReads(w)
  PROVE  FeedIInv'
<1>1. PICK pending \in BOOLEAN, newest \in BOOLEAN :
        /\ Room(Cardinality(Listed(pending)))
        /\ \E order \in SetToSeqs(Listed(pending)) :
           \E P \in SUBSET (Live(AllMerged(Current, order, newest).rows) \ Live(rows)) :
             Opens(w, "sync", Cleaned(Paired(AllMerged(Current, order, newest), P)))
  BY DEF SyncReads
<1>2. PICK order \in SetToSeqs(Listed(pending)) :
        \E P \in SUBSET (Live(AllMerged(Current, order, newest).rows) \ Live(rows)) :
          Opens(w, "sync", Cleaned(Paired(AllMerged(Current, order, newest), P)))
  BY <1>1
<1> DEFINE merged == AllMerged(Current, order, newest)
<1>3. PICK P \in SUBSET (Live(merged.rows) \ Live(rows)) :
        Opens(w, "sync", Cleaned(Paired(merged, P)))
  BY <1>2
<1>4. feed \in FeedType /\ FirstIds(feed) /\ Sound(feed, hand, Current)
  BY DEF FeedIInv, FeedTypes
<1>5. /\ Len(order) \in Nat
      /\ \A i \in 1..Len(order) : Reported(feed, Report(order[i]))
      /\ Cardinality(Free(Current.rows)) >= Len(order)
  <2>1. Cardinality(Free(rows)) >= Cardinality(Listed(pending))
    BY <1>1 DEF Room
  <2> QED
    BY <1>4, <2>1, OrderOfReports, CurrentIs
<1>6. Sound(feed, hand, merged) /\ Keeps(rows, merged.rows)
  <2>1. PICK f : /\ Steps(f, Current, order, newest)
                 /\ \A i \in 0..Len(order) : Sound(feed, hand, f[i])
                 /\ merged = f[Len(order)]
    BY <1>4, <1>5, MergedInSteps
  <2>2. Len(order) \in 0..Len(order)
    BY <1>5
  <2>3. Keeps(Current.rows, f[Len(order)].rows)
    BY <1>4, <1>5, <2>1, <2>2, StepsKeep
  <2> QED
    BY <1>4, <2>1, <2>2, <2>3, CurrentIs
<1> HIDE DEF merged
<1>7. Sound(feed, hand, Cleaned(Paired(merged, P)))
  BY <1>6, PairedSound, CleanedSound
<1>8. SameKinds(rows, Cleaned(Paired(merged, P)).rows)
  <2>1. merged \in BooksType
    BY <1>6 DEF Sound
  <2> DEFINE c == Paired(merged, P)
             d == Cleaned(c)
  <2>2. c \in BooksType /\ \A r \in Live(c.rows) : c.rows[r].kind = merged.rows[r].kind
    BY <2>1, PairedFields
  <2> HIDE DEF c
  <2>3. \A r \in Live(d.rows) : r \in Live(c.rows) /\ d.rows[r] = c.rows[r]
    BY <2>2, CleanedFields
  <2> HIDE DEF d
  <2>4. SameKinds(rows, d.rows)
    BY <1>6, <2>2, <2>3 DEF SameKinds, Keeps, KeptRow
  <2> QED
    BY <2>4 DEF c, d
<1> QED
  BY <1>3, <1>7, <1>8, OpensStep

LEMMA GenerateReadsStep ==
  ASSUME FeedIInv, NEW w \in Writers, GenerateReads(w)
  PROVE  FeedIInv'
<1>1. /\ nextOcc <= today /\ Opens(w, "generate", AllGenerated(Current))
      /\ Cardinality(Free(rows)) >= today + 1 - nextOcc
  BY DEF GenerateReads, Room
<1>2. /\ feed \in FeedType /\ Sound(feed, hand, Current) /\ today \in 0..Occurrences
      /\ Current.nextOcc = nextOcc /\ Current.rows = rows
  BY CurrentIs DEF FeedIInv, FeedTypes
<1>3. Sound(feed, hand, AllGenerated(Current)) /\ Keeps(rows, AllGenerated(Current).rows)
  BY <1>1, <1>2, GeneratedKeeps
<1>4. SameKinds(rows, AllGenerated(Current).rows)
  BY <1>3 DEF SameKinds, Keeps, KeptRow
<1> QED
  BY <1>1, <1>3, <1>4, OpensStep

LEMMA RollsBackStep ==
  ASSUME FeedIInv, NEW w \in Writers, RollsBack(w)
  PROVE  FeedIInv'
<1>1. txn' = [txn EXCEPT ![w] = NoTxn] /\ UNCHANGED <<feed, rows, nextOcc, today, hand>>
  BY DEF RollsBack
<1>2. FeedTypes'
  BY <1>1 DEF FeedIInv, FeedTypes
<1>3. OpenSound'
  BY <1>1 DEF FeedIInv, FeedTypes, OpenSound
<1>4. FirstIds(feed') /\ Sound(feed', hand', Current')
  BY <1>1 DEF FeedIInv, Current
<1> QED
  BY <1>2, <1>3, <1>4 DEF FeedIInv

(* What the user does to rows, under open transactions: rows go, lose their *)
(* bill or are hidden, and typed rows come under ids nobody knows.          *)
UserWrites ==
  /\ UNCHANGED <<feed, nextOcc, today, txn>>
  /\ hand \subseteq hand' /\ hand' \subseteq {"typed", "hid"} \X (0..Occurrences)
  /\ rows' \in Rows
  /\ \A r \in Live(rows') :
       \/ /\ r \in Live(rows)
          /\ Resembles(hand', rows'[r], rows[r]) /\ rows'[r].paired = rows[r].paired
       \/ Own(hand', rows'[r]) /\ r \notin Held

LEMMA UserStep ==
  ASSUME FeedIInv, UserWrites
  PROVE  FeedIInv'
<1>1. /\ feed' = feed /\ nextOcc' = nextOcc /\ today' = today /\ txn' = txn
      /\ hand \subseteq hand' /\ rows' \in Rows
  BY DEF UserWrites
<1>2. /\ feed \in FeedType /\ rows \in Rows /\ nextOcc \in 1..(Occurrences + 1)
      /\ Current.rows = rows /\ Current.nextOcc = nextOcc
  BY CurrentIs DEF FeedIInv, FeedTypes
<1>3. GoesOn(feed, feed)
  BY DEF GoesOn
<1>4. \A b : Sound(feed, hand, b) => Sound(feed, hand', b)
  BY <1>1, <1>2, <1>3, StableSound
<1>5. Sound(feed', hand', Current')
  <2> DEFINE c == Books(rows', nextOcc)
  <2>1. c \in BooksType /\ c.rows = rows' /\ c.nextOcc = nextOcc
    BY <1>1, <1>2, BooksAre
  <2>2. \A r \in Live(rows') : Own(hand', rows'[r])
          \/ (r \in Live(rows) /\ Resembles(hand', rows'[r], rows[r]))
    BY DEF UserWrites
  <2>3. Sound(feed, hand', Current)
    BY <1>4 DEF FeedIInv
  <2>4. Current' = c
    BY <1>1 DEF Current
  <2> HIDE DEF c
  <2>5. Sound(feed, hand', c)
    BY <1>2, <2>1, <2>2, <2>3, SubsetSound
  <2> QED
    BY <1>1, <2>4, <2>5
<1>6. OpenSound'
  <2> SUFFICES ASSUME NEW w \in Writers, txn[w] # NoTxn
               PROVE  /\ Sound(feed', hand', txn'[w].to)
                      /\ Follows(rows', nextOcc', hand', txn'[w])
    BY <1>1 DEF OpenSound
  <2>1. Sound(feed, hand, txn[w].to) /\ Follows(rows, nextOcc, hand, txn[w])
    BY DEF FeedIInv, OpenSound
  <2> DEFINE t == txn[w].from.rows
  <2>2. ASSUME NEW r \in Live(rows')
        PROVE  IF r \in Live(t) THEN Unmoved(rows'[r], t[r]) ELSE Own(hand', rows'[r])
    <3>1. CASE r \in Live(rows) /\ Resembles(hand', rows'[r], rows[r])
               /\ rows'[r].paired = rows[r].paired
      <4>1. CASE r \in Live(t)
        <5>1. Unmoved(rows[r], t[r])
          BY <2>1, <3>1, <4>1 DEF Follows
        <5> QED
          BY <3>1, <4>1, <5>1 DEF Unmoved, Resembles
      <4>2. CASE r \notin Live(t)
        <5>1. Own(hand, rows[r])
          BY <2>1, <3>1, <4>2 DEF Follows
        <5>2. Typed(hand, rows[r].kind) => Typed(hand', rows[r].kind)
          BY <1>1 DEF Typed
        <5> QED
          BY <3>1, <4>2, <5>1, <5>2 DEF Own, Resembles
      <4> QED
        BY <4>1, <4>2
    <3>2. CASE Own(hand', rows'[r]) /\ r \notin Held
      <4>1. r \notin Live(t)
        BY <3>2 DEF Held
      <4> QED
        BY <3>2, <4>1
    <3> QED
      BY <3>1, <3>2 DEF UserWrites
  <2>3. Follows(rows', nextOcc, hand', txn[w])
    BY <2>1, <2>2 DEF Follows
  <2> QED
    BY <1>1, <1>4, <2>1, <2>3
<1>7. FeedTypes' /\ FirstIds(feed')
  BY <1>1 DEF FeedIInv, FeedTypes, UserWrites
<1> QED
  BY <1>5, <1>6, <1>7 DEF FeedIInv

LEMMA TypesStep ==
  ASSUME FeedIInv, NEW o \in Ops, NEW status \in {"pending", "posted"},
         Types(Window[o], status)
  PROVE  FeedIInv'
<1> DEFINE k == Window[o]
           row == Row(k, "manual", status, None, FALSE)
           x == Min(Free(rows))
<1>1. /\ rows' = [rows EXCEPT ![x] = row] /\ hand' = hand \cup {<<"typed", k>>}
      /\ UNCHANGED <<feed, nextOcc, today, txn>> /\ Cardinality(Free(rows)) >= 1
  BY DEF Types, Insert, Room
<1>2. rows \in Rows /\ k \in 0..Occurrences
  BY CurrentIs, FeedAssumption DEF FeedIInv
<1>3. x \in RowIds /\ x \notin Live(rows) /\ x \notin Held
  <2>1. Free(rows) # {}
    BY <1>1, FS_EmptySet
  <2>2. Free(rows) \subseteq Nat
    BY FeedAssumption DEF Free
  <2>3. x \in Free(rows)
    BY <2>1, <2>2, LeastIn
  <2> QED
    BY <2>3 DEF Free
<1>4. /\ row \in RowType /\ row.source = "manual" /\ row.ext = None
      /\ ~row.bill /\ ~row.ignored /\ row.kind = k
  BY <1>2 DEF Row, RowType
<1> HIDE DEF row, x, k
<1>5. rows' \in Rows /\ rows'[x] = row /\ \A r \in RowIds \ {x} : rows'[r] = rows[r]
  BY <1>1, <1>2, <1>3, <1>4 DEF Rows
<1>6. Own(hand', row)
  BY <1>1, <1>4 DEF Own, Typed
<1>7. hand \subseteq hand' /\ hand' \subseteq {"typed", "hid"} \X (0..Occurrences)
  BY <1>1, <1>2 DEF FeedIInv, FeedTypes
<1>8. ASSUME NEW r \in Live(rows')
      PROVE  \/ /\ r \in Live(rows)
                /\ Resembles(hand', rows'[r], rows[r]) /\ rows'[r].paired = rows[r].paired
             \/ Own(hand', rows'[r]) /\ r \notin Held
  <2>1. CASE r = x
    BY <1>3, <1>5, <1>6, <2>1
  <2>2. CASE r # x
    <3>1. r \in Live(rows) /\ rows'[r] = rows[r]
      BY <1>5, <2>2 DEF Live
    <3>2. rows[r].ignored => Hid(hand, rows[r].kind)
      BY <3>1, CurrentIs DEF FeedIInv, Sound, RowSound
    <3> QED
      BY <1>7, <3>1, <3>2 DEF Resembles, Hid
  <2> QED
    BY <2>1, <2>2
<1> QED
  BY <1>1, <1>5, <1>7, <1>8, UserStep DEF UserWrites

(* A row that the user does not touch stays as it is.                       *)
LEMMA OtherRowsStay ==
  ASSUME FeedIInv, NEW r \in Live(rows), hand \subseteq hand'
  PROVE  Resembles(hand', rows[r], rows[r])
<1>1. rows[r].ignored => Hid(hand, rows[r].kind)
  BY CurrentIs DEF FeedIInv, Sound, RowSound
<1> QED
  BY <1>1 DEF Resembles, Hid

LEMMA DeletesStep ==
  ASSUME FeedIInv, NEW r \in RowIds, Deletes(r)
  PROVE  FeedIInv'
<1>1. rows' = [rows EXCEPT ![r] = NoRow] /\ UNCHANGED <<feed, nextOcc, today, hand, txn>>
  BY DEF Deletes
<1>2. rows \in Rows
  BY CurrentIs DEF FeedIInv
<1>3. rows' \in Rows /\ \A s \in Live(rows') : s \in Live(rows) /\ rows'[s] = rows[s]
  BY <1>1, <1>2 DEF Rows, Live
<1>4. \A s \in Live(rows') : Resembles(hand', rows'[s], rows[s])
  BY <1>1, <1>3, OtherRowsStay
<1>5. hand \subseteq hand' /\ hand' \subseteq {"typed", "hid"} \X (0..Occurrences)
  BY <1>1 DEF FeedIInv, FeedTypes
<1> QED
  BY <1>1, <1>3, <1>4, <1>5, UserStep DEF UserWrites

LEMMA TogglesIgnoredStep ==
  ASSUME FeedIInv, NEW r \in RowIds, TogglesIgnored(r)
  PROVE  FeedIInv'
<1> DEFINE row == [rows[r] EXCEPT !.ignored = ~rows[r].ignored]
<1>1. /\ rows' = [rows EXCEPT ![r].ignored = ~@] /\ r \in Live(rows)
      /\ hand' = hand \cup {<<"hid", rows[r].kind>>}
      /\ UNCHANGED <<feed, nextOcc, today, txn>>
  BY DEF TogglesIgnored
<1>2. rows \in Rows /\ rows[r] \in RowType
  BY <1>1, CurrentIs, LiveRows DEF FeedIInv
<1>3. rows' = [rows EXCEPT ![r] = row]
  BY <1>1, <1>2 DEF Rows
<1>4. /\ row \in RowType
      /\ row.kind = rows[r].kind /\ row.source = rows[r].source
      /\ row.status = rows[r].status /\ row.ext = rows[r].ext
      /\ row.bill = rows[r].bill /\ row.paired = rows[r].paired
  BY <1>2 DEF RowType
<1> HIDE DEF row
<1>5. /\ rows' \in Rows /\ rows'[r] = row
      /\ \A s \in Live(rows') : s # r => s \in Live(rows) /\ rows'[s] = rows[s]
  BY <1>2, <1>3, <1>4 DEF Rows, Live
<1>6. hand \subseteq hand' /\ hand' \subseteq {"typed", "hid"} \X (0..Occurrences)
  BY <1>1, <1>2 DEF FeedIInv, FeedTypes, RowType
<1>7. Resembles(hand', row, rows[r])
  BY <1>1, <1>4 DEF Resembles, Hid
<1>8. \A s \in Live(rows') :
        /\ s \in Live(rows)
        /\ Resembles(hand', rows'[s], rows[s]) /\ rows'[s].paired = rows[s].paired
  BY <1>1, <1>4, <1>5, <1>6, <1>7, OtherRowsStay
<1> QED
  BY <1>1, <1>5, <1>6, <1>8, UserStep DEF UserWrites

LEMMA UnlinksBillStep ==
  ASSUME FeedIInv, NEW r \in RowIds, UnlinksBill(r)
  PROVE  FeedIInv'
<1> DEFINE row == [rows[r] EXCEPT !.bill = FALSE]
<1>1. /\ rows' = [rows EXCEPT ![r].bill = FALSE] /\ r \in Live(rows)
      /\ UNCHANGED <<feed, nextOcc, today, hand, txn>>
  BY DEF UnlinksBill
<1>2. rows \in Rows /\ rows[r] \in RowType
  BY <1>1, CurrentIs, LiveRows DEF FeedIInv
<1>3. rows' = [rows EXCEPT ![r] = row]
  BY <1>1, <1>2 DEF Rows
<1>4. /\ row \in RowType
      /\ row.kind = rows[r].kind /\ row.source = rows[r].source
      /\ row.status = rows[r].status /\ row.ext = rows[r].ext
      /\ ~row.bill /\ row.paired = rows[r].paired /\ row.ignored = rows[r].ignored
  BY <1>2 DEF RowType
<1> HIDE DEF row
<1>5. /\ rows' \in Rows /\ rows'[r] = row
      /\ \A s \in Live(rows') : s # r => s \in Live(rows) /\ rows'[s] = rows[s]
  BY <1>2, <1>3, <1>4 DEF Rows, Live
<1>6. hand \subseteq hand' /\ hand' \subseteq {"typed", "hid"} \X (0..Occurrences)
  BY <1>1 DEF FeedIInv, FeedTypes
<1>7. Resembles(hand', row, rows[r])
  <2>1. Resembles(hand', rows[r], rows[r])
    BY <1>1, <1>6, OtherRowsStay
  <2> QED
    BY <1>4, <2>1 DEF Resembles
<1>8. \A s \in Live(rows') :
        /\ s \in Live(rows)
        /\ Resembles(hand', rows'[s], rows[s]) /\ rows'[s].paired = rows[s].paired
  BY <1>1, <1>4, <1>5, <1>6, <1>7, OtherRowsStay
<1> QED
  BY <1>1, <1>5, <1>6, <1>8, UserStep DEF UserWrites

(* The bank goes on: what the books know stays true of it.                  *)
LEMMA BankReportsStep ==
  ASSUME FeedIInv, NEW o \in Ops, NEW status \in {"pending", "posted", "dropped"},
         NEW id \in {1, 2}, BankReports(o, status, id)
  PROVE  FeedIInv'
<1>1. /\ \/ feed[o].status = "none" /\ status # "dropped" /\ id = 1
         \/ feed[o].status = "pending" /\ status # "pending"
      /\ feed' = [feed EXCEPT ![o] = [status |-> status, id |-> id]]
      /\ UNCHANGED <<rows, nextOcc, today, hand, txn>>
  BY DEF BankReports
<1>2. feed \in FeedType /\ FirstIds(feed)
  BY DEF FeedIInv, FeedTypes
<1>3. /\ feed' \in FeedType /\ feed'[o].status = status /\ feed'[o].id = id
      /\ \A p \in Ops \ {o} : feed'[p] = feed[p]
  BY <1>1, <1>2 DEF FeedType
<1>4. FirstIds(feed')
  BY <1>1, <1>2, <1>3 DEF FirstIds
<1>5. GoesOn(feed, feed')
  BY <1>1, <1>3 DEF GoesOn
<1>6. \A b : Sound(feed, hand, b) => Sound(feed', hand, b)
  BY <1>2, <1>3, <1>5, StableSound
<1>7. Sound(feed', hand', Current')
  BY <1>1, <1>6 DEF FeedIInv, Current
<1>8. OpenSound'
  BY <1>1, <1>6 DEF FeedIInv, OpenSound
<1> QED
  BY <1>1, <1>3, <1>4, <1>7, <1>8 DEF FeedIInv, FeedTypes

LEMMA FallsDueStep ==
  ASSUME FeedIInv, FallsDue
  PROVE  FeedIInv'
<1>1. today < Occurrences /\ today' = today + 1 /\ UNCHANGED <<feed, rows, nextOcc, hand, txn>>
  BY DEF FallsDue
<1>2. FeedTypes'
  BY <1>1, FeedAssumption DEF FeedIInv, FeedTypes
<1>3. OpenSound' /\ FirstIds(feed') /\ Sound(feed', hand', Current')
  BY <1>1 DEF FeedIInv, OpenSound, Current
<1> QED
  BY <1>2, <1>3 DEF FeedIInv

-----------------------------------------------------------------------------
(* What is written of a row that was read: the columns that were changed,   *)
(* beside what happened to the others meanwhile.                            *)
Columns == {"kind", "source", "status", "ext", "bill", "ignored", "paired"}

Patched(now, old, new) ==
  [c \in DOMAIN now |-> IF old[c] # new[c] THEN new[c] ELSE now[c]]

LEMMA PatchedType ==
  ASSUME NEW now \in RowType, NEW old \in RowType, NEW new \in RowType
  PROVE  Patched(now, old, new) \in RowType
<1> DEFINE row == Patched(now, old, new)
<1>1. DOMAIN now = Columns
  BY DEF RowType, Columns
<1>2. \A c \in Columns : row[c] \in {new[c], now[c]}
  BY <1>1 DEF Patched
<1>3. row = [kind |-> row.kind, source |-> row.source, status |-> row.status,
             ext |-> row.ext, bill |-> row.bill, ignored |-> row.ignored,
             paired |-> row.paired]
  BY <1>1 DEF Columns, Patched
<1> HIDE DEF row
<1>4. /\ row.kind \in {new.kind, now.kind} /\ row.source \in {new.source, now.source}
      /\ row.status \in {new.status, now.status} /\ row.ext \in {new.ext, now.ext}
      /\ row.bill \in {new.bill, now.bill} /\ row.ignored \in {new.ignored, now.ignored}
      /\ row.paired \in {new.paired, now.paired}
  BY <1>2 DEF Columns
<1>5. row \in RowType
  BY <1>3, <1>4 DEF RowType
<1> QED
  BY <1>5 DEF row

LEMMA WrittenColumns ==
  ASSUME NEW now \in RowType, NEW old \in RowType, NEW new \in RowType, Unmoved(now, old)
  PROVE  LET row == Patched(now, old, new) IN
         /\ row \in RowType
         /\ row.kind = new.kind /\ row.source = new.source
         /\ row.status = new.status /\ row.ext = new.ext
         /\ row.bill => new.bill
         /\ row.ignored \in {new.ignored, now.ignored}
<1> DEFINE row == Patched(now, old, new)
<1>1. DOMAIN now = Columns
  BY DEF RowType, Columns
<1>2. /\ row.kind = IF old.kind # new.kind THEN new.kind ELSE now.kind
      /\ row.source = IF old.source # new.source THEN new.source ELSE now.source
      /\ row.status = IF old.status # new.status THEN new.status ELSE now.status
      /\ row.ext = IF old.ext # new.ext THEN new.ext ELSE now.ext
      /\ row.bill = IF old.bill # new.bill THEN new.bill ELSE now.bill
      /\ row.ignored = IF old.ignored # new.ignored THEN new.ignored ELSE now.ignored
      /\ row.paired = IF old.paired # new.paired THEN new.paired ELSE now.paired
  BY <1>1 DEF Columns, Patched
<1>3. row = [kind |-> row.kind, source |-> row.source, status |-> row.status,
             ext |-> row.ext, bill |-> row.bill, ignored |-> row.ignored,
             paired |-> row.paired]
  BY <1>1 DEF Columns, Patched
<1> HIDE DEF row
<1>4. /\ row.kind = new.kind /\ row.source = new.source
      /\ row.status = new.status /\ row.ext = new.ext
      /\ row.ignored \in {new.ignored, now.ignored}
      /\ row.paired \in {new.paired, now.paired}
      /\ row.bill \in {new.bill, now.bill}
  BY <1>2 DEF Unmoved
<1>5. row.bill => new.bill
  BY <1>2 DEF Unmoved
<1>6. row \in RowType
  BY <1>3, <1>4 DEF RowType
<1> QED
  BY <1>4, <1>5, <1>6 DEF row

(* A row that comes out of a commit without being new resembles the row the *)
(* transaction wrote, or was typed meanwhile.                               *)
LEMMA KeptRows ==
  ASSUME FeedIInv, NEW w \in Writers, txn[w] # NoTxn,
         Updates(txn[w]) \subseteq Live(rows),
         NEW r \in RowIds, NEW row, row # NoRow,
         row = IF r \in Updates(txn[w]) THEN Written(txn[w], r) ELSE rows[r]
  PROVE  /\ row \in RowType
         /\ \/ Own(hand, row)
            \/ /\ r \in Live(txn[w].from.rows) /\ r \in Live(txn[w].to.rows)
               /\ Resembles(hand, row, txn[w].to.rows[r])
<1> DEFINE f == txn[w]
           o == f.from.rows
           t == f.to.rows
<1>1. /\ Sound(feed, hand, f.to) /\ Follows(rows, nextOcc, hand, f)
      /\ f.from \in BooksType /\ f.to \in BooksType /\ o \in Rows /\ t \in Rows
      /\ rows \in Rows /\ Sound(feed, hand, Current) /\ Current.rows = rows
  BY CurrentIs, OpenTxn, BooksAre DEF FeedIInv, OpenSound
<1>2. \A s \in Live(rows) : rows[s].ignored => Hid(hand, rows[s].kind)
  BY <1>1 DEF Sound, RowSound
<1>3. \A s \in Live(t) : t[s].ignored => Hid(hand, t[s].kind)
  BY <1>1 DEF Sound, RowSound
<1>4. CASE r \in Updates(f)
  <2>1. /\ r \in Live(rows) /\ r \in Live(o) /\ rows[r] \in RowType /\ o[r] \in RowType
        /\ Unmoved(rows[r], o[r])
    BY <1>1, <1>4, LiveRows DEF Updates, Follows
  <2>2. t[r] # NoRow /\ row = Patched(rows[r], o[r], t[r])
    BY <1>4 DEF Written, Patched
  <2>3. r \in Live(t) /\ t[r] \in RowType
    BY <1>1, <2>2, LiveRows DEF Live
  <2>4. /\ row \in RowType
        /\ row.kind = t[r].kind /\ row.source = t[r].source
        /\ row.status = t[r].status /\ row.ext = t[r].ext
        /\ row.bill => t[r].bill
        /\ row.ignored \in {t[r].ignored, rows[r].ignored}
    BY <2>1, <2>2, <2>3, WrittenColumns
  <2>5. rows[r].kind = row.kind
    <3>1. rows[r].kind = o[r].kind
      BY <2>1 DEF Unmoved
    <3>2. o[r].kind = t[r].kind
      BY <1>1, <2>1, <2>3 DEF Follows, SameKinds
    <3> QED
      BY <2>4, <3>1, <3>2
  <2>6. row.ignored => Hid(hand, row.kind)
    BY <1>2, <1>3, <2>1, <2>3, <2>4, <2>5
  <2> QED
    BY <2>1, <2>3, <2>4, <2>6 DEF Resembles
<1>5. CASE r \notin Updates(f)
  <2>1. row = rows[r] /\ r \in Live(rows) /\ rows[r] \in RowType
    BY <1>1, <1>5, LiveRows DEF Live
  <2>2. CASE r \in Live(o)
    <3>1. t[r] = o[r] /\ r \in Live(t)
      BY <1>5, <2>2 DEF Updates, Changed, Live
    <3>2. Unmoved(rows[r], t[r])
      BY <1>1, <2>1, <2>2, <3>1 DEF Follows
    <3> QED
      BY <1>2, <2>1, <2>2, <3>1, <3>2 DEF Unmoved, Resembles
  <2>3. CASE r \notin Live(o)
    BY <1>1, <2>1, <2>3 DEF Follows
  <2> QED
    BY <2>1, <2>2, <2>3
<1> QED
  BY <1>4, <1>5

(* New rows come under ids of their own.                                    *)
LEMMA PlacedApart ==
  ASSUME NEW f, NEW at \in Placings(f)
  PROVE  /\ \A x \in Additions(f) : at[x] \in Free(rows) /\ at[x] \in Range(at)
         /\ \A r \in Range(at) : \E x \in Additions(f) : at[x] = r
         /\ \A x, y \in Additions(f) : at[x] = at[y] => x = y
<1>1. /\ at \in [Additions(f) -> Free(rows)]
      /\ \A x, y \in Additions(f) : x < y => at[x] < at[y]
  BY DEF Placings
<1>2. \A x \in Additions(f) : x \in Nat /\ at[x] \in Nat
  BY <1>1, FeedAssumption DEF Additions, Live, Free
<1>3. ASSUME NEW x \in Additions(f), NEW y \in Additions(f), at[x] = at[y] PROVE x = y
  <2>1. x \in Nat /\ y \in Nat /\ at[x] \in Nat /\ ~(at[x] < at[y]) /\ ~(at[y] < at[x])
    BY <1>2, <1>3
  <2>2. ~(x < y) /\ ~(y < x)
    BY <1>1, <2>1
  <2> QED
    BY <2>1, <2>2
<1> QED
  BY <1>1, <1>3 DEF Range

(* The books after a commit are drawn from what the transaction wrote.      *)
LEMMA CommitDraws ==
  ASSUME FeedIInv, NEW w \in Writers, txn[w] # NoTxn,
         Updates(txn[w]) \subseteq Live(rows), NEW at \in Placings(txn[w])
  PROVE  LET u == Committed(txn[w], at) IN
         u \in Rows /\ \E e : Draws(hand, txn[w].to.rows, u, e)
<1> DEFINE f == txn[w]
           o == f.from.rows
           t == f.to.rows
           u == Committed(f, at)
           e == [r \in RowIds |-> IF r \in Range(at) THEN CHOOSE x \in Additions(f) : at[x] = r
                                  ELSE r]
<1>1. Sound(feed, hand, f.to) /\ t \in Rows
  BY OpenTxn, BooksAre DEF FeedIInv, OpenSound
<1>2. ASSUME NEW r \in RowIds, r \in Range(at)
      PROVE  /\ e[r] \in Additions(f) /\ at[e[r]] = r
             /\ e[r] \in Live(t) /\ e[r] \notin Live(o)
             /\ u[r] = t[e[r]] /\ u[r] \in RowType /\ Resembles(hand, u[r], t[e[r]])
  <2>1. e[r] = CHOOSE x \in Additions(f) : at[x] = r
    BY <1>2
  <2>2. e[r] \in Additions(f) /\ at[e[r]] = r
    <3>1. \E x \in Additions(f) : at[x] = r
      BY <1>2, PlacedApart
    <3> QED
      BY <2>1, <3>1
  <2>3. u[r] = t[CHOOSE x \in Additions(f) : at[x] = r]
    BY <1>2 DEF Committed
  <2>4. u[r] = t[e[r]]
    BY <2>1, <2>3
  <2> HIDE DEF e, u
  <2>5. e[r] \in Live(t) /\ e[r] \notin Live(o)
    BY <2>2 DEF Additions
  <2>6. t[e[r]] \in RowType /\ RowSound(feed, hand, t[e[r]], f.to.nextOcc)
    BY <1>1, <2>5, LiveRows DEF Sound
  <2>7. Resembles(hand, u[r], t[e[r]])
    BY <2>4, <2>6 DEF Resembles, RowSound
  <2> QED
    BY <2>2, <2>4, <2>5, <2>6, <2>7
<1>3. ASSUME NEW r \in RowIds, r \notin Range(at), u[r] # NoRow
      PROVE  /\ e[r] = r /\ u[r] \in RowType
             /\ Own(hand, u[r]) \/ (r \in Live(o) /\ r \in Live(t) /\ Resembles(hand, u[r], t[r]))
  <2>1. e[r] = r
    BY <1>3
  <2>2. u[r] = IF r \in Updates(f) THEN Written(f, r) ELSE rows[r]
    BY <1>3 DEF Committed
  <2> HIDE DEF e, u
  <2> QED
    BY <1>3, <2>1, <2>2, KeptRows
<1>4. u = [r \in RowIds |-> u[r]]
  BY DEF Committed
<1> HIDE DEF e, u
<1>5. u \in Rows
  <2>1. \A r \in RowIds : u[r] \in RowType \cup {NoRow}
    BY <1>2, <1>3
  <2> QED
    BY <1>4, <2>1 DEF Rows
<1>6. ASSUME NEW r \in Live(u)
      PROVE  Own(hand, u[r]) \/ (e[r] \in Live(t) /\ Resembles(hand, u[r], t[e[r]]))
  <2>1. r \in RowIds /\ u[r] # NoRow
    BY DEF Live
  <2> QED
    BY <1>2, <1>3, <2>1
<1>7. ASSUME NEW r \in Live(u), NEW s \in Live(u), ~Own(hand, u[r]), ~Own(hand, u[s]),
             e[r] = e[s]
      PROVE  r = s
  <2>1. r \in RowIds /\ u[r] # NoRow /\ s \in RowIds /\ u[s] # NoRow
    BY DEF Live
  <2>2. CASE r \in Range(at) /\ s \in Range(at)
    BY <1>2, <1>7, <2>1, <2>2
  <2>3. CASE r \in Range(at) /\ s \notin Range(at)
    BY <1>2, <1>3, <1>7, <2>1, <2>3
  <2>4. CASE r \notin Range(at) /\ s \in Range(at)
    BY <1>2, <1>3, <1>7, <2>1, <2>4
  <2>5. CASE r \notin Range(at) /\ s \notin Range(at)
    BY <1>3, <1>7, <2>1, <2>5
  <2> QED
    BY <2>2, <2>3, <2>4, <2>5
<1>8. Draws(hand, t, u, e)
  BY <1>6, <1>7 DEF Draws
<1> QED
  BY <1>5, <1>8 DEF u

(* With no other transaction open, the books after a commit are sound.       *)
LEMMA CommitsStep ==
  ASSUME FeedIInv, NEW w \in Writers, \A v \in Writers \ {w} : txn[v] = NoTxn, Commits(w)
  PROVE  FeedIInv'
<1> DEFINE f == txn[w]
<1>1. /\ f # NoTxn /\ Updates(f) \subseteq Live(rows)
      /\ nextOcc' = Later(f.from.nextOcc, f.to.nextOcc, nextOcc)
      /\ txn' = [txn EXCEPT ![w] = NoTxn] /\ UNCHANGED <<feed, today, hand>>
  BY DEF Commits
<1>2. PICK at \in Placings(f) : rows' = Committed(f, at)
  BY DEF Commits
<1>3. Sound(feed, hand, f.to) /\ Follows(rows, nextOcc, hand, f) /\ f.to \in BooksType
  BY <1>1, OpenTxn DEF FeedIInv, OpenSound
<1>4. nextOcc' = f.to.nextOcc
  BY <1>1, <1>3 DEF Later, Follows
<1>5. rows' \in Rows /\ \E e : Draws(hand, f.to.rows, rows', e)
  BY <1>1, <1>2, CommitDraws
<1> HIDE DEF f
<1> DEFINE c == Books(rows', nextOcc')
<1>6. c \in BooksType /\ c.rows = rows' /\ c.nextOcc = f.to.nextOcc
  BY <1>3, <1>4, <1>5, BooksAre
<1>7. Current' = c
  BY DEF Current
<1> HIDE DEF c
<1>8. Sound(feed, hand, c)
  BY <1>3, <1>5, <1>6, DrawnSound
<1>9. FeedTypes' /\ FirstIds(feed')
  BY <1>1 DEF FeedIInv, FeedTypes
<1>10. \A v \in Writers : txn'[v] = NoTxn
  BY <1>1 DEF FeedIInv, FeedTypes
<1> QED
  BY <1>1, <1>7, <1>8, <1>9, <1>10 DEF FeedIInv, OpenSound

-----------------------------------------------------------------------------
(* Types, whatever overlaps: a transaction writes rows over rows.           *)
FeedTypeIInv == FeedTypes /\ Current \in BooksType

LEMMA MergedType ==
  ASSUME NEW b \in BooksType, NEW rp \in ReportType, NEW newest \in BOOLEAN
  PROVE  Merged(b, rp, newest) \in BooksType
<1> DEFINE t == b.rows
           c == Merged(b, rp, newest)
<1>1. t \in Rows /\ b.nextOcc \in 1..(Occurrences + 1)
  BY BooksAre
<1>2. \A r \in Live(t) : t[r] \in RowType
  BY <1>1, LiveRows
<1>3. \A x, row : row \in RowType => [t EXCEPT ![x] = row] \in Rows
  BY <1>1 DEF Rows
<1>4. ASSUME NEW row \in RowType
      PROVE  /\ Confirmed(row, rp) \in RowType /\ Adopted(row, rp) \in RowType
             /\ Moved(row, rp) \in RowType /\ Filled(row, rp) \in RowType
  BY DEF Confirmed, Adopted, Moved, Filled, RowType, ReportType
<1>5. Found(b, rp) \in RowType
  BY FeedAssumption DEF Found, Row, RowType, ReportType, Fulfils
<1>6. ASSUME NEW x, NEW row \in RowType, WritesOver(b, c, x, row) PROVE c \in BooksType
  BY <1>1, <1>3, <1>6, BooksAre DEF WritesOver
<1>7. /\ SameId(t, rp) \subseteq Live(t) /\ TypedTwins(t, rp) \subseteq Live(t)
      /\ SyncedTwins(t, rp) \subseteq Live(t) /\ Placeholders(t, rp) \subseteq Live(t)
  BY DEF SameId, TypedTwins, SyncedTwins, Placeholders
<1>8. CASE Appearing(b, c, rp)
  <2>1. Insert(t, Found(b, rp)) \in Rows
    BY <1>3, <1>5 DEF Insert
  <2>2. (IF Fulfils(b.nextOcc, rp) THEN b.nextOcc + 1 ELSE b.nextOcc) \in 1..(Occurrences + 1)
    BY <1>1, FeedAssumption DEF Fulfils
  <2> QED
    BY <1>8, <2>1, <2>2, BooksAre DEF Appearing
<1> HIDE DEF c
<1>9. ASSUME Confirming(b, c, rp) \/ Adopting(b, c, rp) \/ Moving(b, c, rp) \/ Charging(b, c, rp)
      PROVE  c \in BooksType
  BY <1>2, <1>4, <1>6, <1>7, <1>9 DEF Confirming, Adopting, Moving, Charging
<1> QED
  BY <1>8, <1>9, MergeCases DEF c

LEMMA CommittedType ==
  ASSUME FeedTypeIInv, NEW w \in Writers, txn[w] # NoTxn,
         Updates(txn[w]) \subseteq Live(rows), NEW at \in Placings(txn[w])
  PROVE  Committed(txn[w], at) \in Rows
<1> DEFINE f == txn[w]
           u == Committed(f, at)
<1>1. rows \in Rows /\ f.from.rows \in Rows /\ f.to.rows \in Rows
  <2>1. f.from \in BooksType /\ f.to \in BooksType
    BY OpenTxn DEF FeedTypeIInv
  <2> QED
    BY <2>1, BooksAre DEF FeedTypeIInv, Current, Books
<1>2. ASSUME NEW r \in RowIds, r \in Range(at)
      PROVE  f.to.rows[CHOOSE x \in Additions(f) : at[x] = r] \in RowType \cup {NoRow}
  <2>1. \E x \in Additions(f) : at[x] = r
    BY <1>2, PlacedApart
  <2>2. (CHOOSE x \in Additions(f) : at[x] = r) \in Live(f.to.rows)
    BY <2>1 DEF Additions
  <2> QED
    BY <1>1, <2>2, LiveRows
<1>3. ASSUME NEW r \in Updates(f) PROVE Written(f, r) \in RowType \cup {NoRow}
  <2> DEFINE old == f.from.rows[r]
             new == f.to.rows[r]
             now == rows[r]
  <2>1. r \in Live(f.from.rows) /\ r \in Live(rows) /\ r \in RowIds
    BY DEF Updates, Live
  <2>2. old \in RowType /\ now \in RowType
    BY <1>1, <2>1, LiveRows
  <2>3. CASE new = NoRow
    BY <2>3 DEF Written
  <2>4. CASE new # NoRow
    <3>1. new \in RowType
      BY <1>1, <2>1, <2>4 DEF Rows
    <3>2. Written(f, r) = Patched(now, old, new)
      BY <2>4 DEF Written, Patched
    <3>3. Patched(now, old, new) \in RowType
      BY <2>2, <3>1, PatchedType
    <3> QED
      BY <3>2, <3>3
  <2> QED
    BY <2>3, <2>4
<1>4. \A r \in RowIds : rows[r] \in RowType \cup {NoRow}
  BY <1>1 DEF Rows
<1> HIDE DEF f
<1>5. u = [r \in RowIds |->
            IF r \in Range(at) THEN f.to.rows[CHOOSE x \in Additions(f) : at[x] = r]
            ELSE IF r \in Updates(f) THEN Written(f, r) ELSE rows[r]]
  BY DEF Committed
<1> HIDE DEF u
<1>6. \A r \in RowIds : u[r] \in RowType \cup {NoRow}
  BY <1>2, <1>3, <1>4, <1>5
<1>7. u = [r \in RowIds |-> u[r]]
  BY <1>5
<1> QED
  BY <1>6, <1>7 DEF Rows, u, f

(* Nothing but the rows, the pointer and an open transaction change type.   *)
LEMMA ReadsTyped ==
  ASSUME FeedTypeIInv, NEW w \in Writers, NEW by \in {"sync", "generate"},
         NEW to \in BooksType, Opens(w, by, to)
  PROVE  FeedTypeIInv'
<1> DEFINE f == [by |-> by, from |-> Current, to |-> to]
<1>1. txn' = [txn EXCEPT ![w] = f] /\ UNCHANGED <<feed, rows, nextOcc, today, hand>>
  BY DEF Opens
<1>2. f \in TxnType
  BY DEF TxnType, FeedTypeIInv
<1> HIDE DEF f
<1> QED
  BY <1>1, <1>2 DEF FeedTypeIInv, FeedTypes, Current

LEMMA SyncReadsTyped ==
  ASSUME FeedTypeIInv, NEW w \in Writers, SyncReads(w)
  PROVE  FeedTypeIInv'
<1>1. PICK pending \in BOOLEAN, newest \in BOOLEAN :
        \E order \in SetToSeqs(Listed(pending)) :
           \E P \in SUBSET (Live(AllMerged(Current, order, newest).rows) \ Live(rows)) :
             Opens(w, "sync", Cleaned(Paired(AllMerged(Current, order, newest), P)))
  BY DEF SyncReads
<1>2. PICK order \in SetToSeqs(Listed(pending)) :
        \E P \in SUBSET (Live(AllMerged(Current, order, newest).rows) \ Live(rows)) :
          Opens(w, "sync", Cleaned(Paired(AllMerged(Current, order, newest), P)))
  BY <1>1
<1> DEFINE merged == AllMerged(Current, order, newest)
<1>3. PICK P \in SUBSET (Live(merged.rows) \ Live(rows)) :
        Opens(w, "sync", Cleaned(Paired(merged, P)))
  BY <1>2
<1>4. Len(order) \in Nat /\ \A i \in 1..Len(order) : Report(order[i]) \in ReportType
  BY OrderOfReports DEF FeedTypeIInv, FeedTypes, Reported
<1>5. EachStaysIn(BooksType, order, newest)
  BY <1>4, MergedType DEF EachStaysIn
<1>6. Current \in BooksType
  BY DEF FeedTypeIInv
<1>7. merged \in BooksType
  <2>1. PICK f : /\ \A i \in 0..Len(order) : f[i] \in BooksType
                 /\ merged = f[Len(order)]
    BY <1>4, <1>5, <1>6, MergedWithin
  <2>2. Len(order) \in 0..Len(order)
    BY <1>4
  <2> HIDE DEF merged
  <2> QED
    BY <2>1, <2>2
<1> HIDE DEF merged
<1>8. Cleaned(Paired(merged, P)) \in BooksType
  BY <1>7, PairedFields, CleanedFields
<1> QED
  BY <1>3, <1>8, ReadsTyped

LEMMA GenerateReadsTyped ==
  ASSUME FeedTypeIInv, NEW w \in Writers, GenerateReads(w)
  PROVE  FeedTypeIInv'
<1>1. nextOcc <= today /\ Opens(w, "generate", AllGenerated(Current))
  BY DEF GenerateReads
<1>2. /\ Current \in BooksType /\ Current.nextOcc = nextOcc /\ nextOcc \in Nat
      /\ today \in 0..Occurrences
  BY BooksAre DEF FeedTypeIInv, FeedTypes, Current, Books
<1>3. PICK f : /\ \A k \in nextOcc..(today + 1) : f[k] \in BooksType
               /\ AllGenerated(Current) = f[today + 1]
  BY <1>1, <1>2, GeneratedWithin
<1>4. today + 1 \in nextOcc..(today + 1)
  BY <1>1, <1>2, FeedAssumption
<1> QED
  BY <1>1, <1>3, <1>4, ReadsTyped

LEMMA CommitsTyped ==
  ASSUME FeedTypeIInv, NEW w \in Writers, Commits(w)
  PROVE  FeedTypeIInv'
<1> DEFINE f == txn[w]
<1>1. /\ f # NoTxn /\ Updates(f) \subseteq Live(rows)
      /\ nextOcc' = Later(f.from.nextOcc, f.to.nextOcc, nextOcc)
      /\ txn' = [txn EXCEPT ![w] = NoTxn] /\ UNCHANGED <<feed, today, hand>>
  BY DEF Commits
<1>2. PICK at \in Placings(f) : rows' = Committed(f, at)
  BY DEF Commits
<1>3. rows' \in Rows
  BY <1>1, <1>2, CommittedType
<1>4. f.to \in BooksType
  BY <1>1, OpenTxn DEF FeedTypeIInv
<1> HIDE DEF f
<1>5. nextOcc' \in 1..(Occurrences + 1)
  BY <1>1, <1>4, BooksAre DEF Later, FeedTypeIInv, Current, Books
<1>6. Current' \in BooksType
  BY <1>3, <1>5, BooksAre DEF Current
<1> QED
  BY <1>1, <1>6 DEF FeedTypeIInv, FeedTypes

(* What the user does writes rows.                                          *)
LEMMA UserTyped ==
  ASSUME FeedTypeIInv,
         \/ \E o \in Ops, s \in {"pending", "posted"} : Types(Window[o], s)
         \/ \E r \in RowIds : Deletes(r) \/ TogglesIgnored(r) \/ UnlinksBill(r)
  PROVE  FeedTypeIInv'
<1>1. rows \in Rows /\ nextOcc \in 1..(Occurrences + 1)
  BY BooksAre DEF FeedTypeIInv, Current, Books
<1>2. \A x : \A row \in RowType \cup {NoRow} : [rows EXCEPT ![x] = row] \in Rows
  BY <1>1 DEF Rows
<1>3. SUFFICES /\ rows' \in Rows /\ UNCHANGED <<feed, nextOcc, today, txn>>
               /\ hand' \subseteq {"typed", "hid"} \X (0..Occurrences)
  <2>1. ASSUME rows' \in Rows, UNCHANGED nextOcc PROVE Current' \in BooksType
    BY <1>1, <2>1, BooksAre DEF Current
  <2> QED
    BY <2>1 DEF FeedTypeIInv, FeedTypes
<1>4. hand \subseteq {"typed", "hid"} \X (0..Occurrences)
  BY DEF FeedTypeIInv, FeedTypes
<1>5. ASSUME NEW o \in Ops, NEW s \in {"pending", "posted"}, Types(Window[o], s)
      PROVE  /\ rows' \in Rows /\ UNCHANGED <<feed, nextOcc, today, txn>>
             /\ hand' \subseteq {"typed", "hid"} \X (0..Occurrences)
  <2>1. Window[o] \in 0..Occurrences
    BY FeedAssumption
  <2>2. Row(Window[o], "manual", s, None, FALSE) \in RowType
    BY <2>1 DEF Row, RowType
  <2>3. /\ rows' = Insert(rows, Row(Window[o], "manual", s, None, FALSE))
        /\ hand' = hand \cup {<<"typed", Window[o]>>}
        /\ UNCHANGED <<feed, nextOcc, today, txn>>
    BY <1>5 DEF Types
  <2>4. rows' \in Rows
    BY <1>2, <2>2, <2>3 DEF Insert
  <2>5. <<"typed", Window[o]>> \in {"typed", "hid"} \X (0..Occurrences)
    BY <2>1
  <2>6. hand' \subseteq {"typed", "hid"} \X (0..Occurrences)
    BY <1>4, <2>3, <2>5, Zenon
  <2> QED
    BY <2>3, <2>4, <2>6
<1>6. ASSUME NEW r \in RowIds, r \in Live(rows)
      PROVE  /\ rows[r] \in RowType /\ rows[r].kind \in 0..Occurrences
             /\ [rows EXCEPT ![r].ignored = ~@] \in Rows
             /\ [rows EXCEPT ![r].bill = FALSE] \in Rows
  <2>1. rows[r] \in RowType
    BY <1>1, <1>6, LiveRows
  <2>2. /\ [rows[r] EXCEPT !.ignored = ~rows[r].ignored] \in RowType
        /\ [rows[r] EXCEPT !.bill = FALSE] \in RowType
        /\ rows[r].kind \in 0..Occurrences
    BY <2>1 DEF RowType
  <2> QED
    BY <1>1, <2>1, <2>2 DEF Rows
<1>7. ASSUME NEW r \in RowIds, Deletes(r) \/ TogglesIgnored(r) \/ UnlinksBill(r)
      PROVE  /\ rows' \in Rows /\ UNCHANGED <<feed, nextOcc, today, txn>>
             /\ hand' \subseteq {"typed", "hid"} \X (0..Occurrences)
  <2>1. CASE Deletes(r)
    BY <1>2, <1>4, <2>1 DEF Deletes
  <2>2. CASE UnlinksBill(r)
    BY <1>4, <1>6, <2>2 DEF UnlinksBill
  <2>3. CASE TogglesIgnored(r)
    <3>1. /\ r \in Live(rows) /\ rows' = [rows EXCEPT ![r].ignored = ~@]
          /\ hand' = hand \cup {<<"hid", rows[r].kind>>}
          /\ UNCHANGED <<feed, nextOcc, today, txn>>
      BY <2>3 DEF TogglesIgnored
    <3>2. rows' \in Rows /\ <<"hid", rows[r].kind>> \in {"typed", "hid"} \X (0..Occurrences)
      BY <1>6, <3>1
    <3>3. hand' \subseteq {"typed", "hid"} \X (0..Occurrences)
      BY <1>4, <3>1, <3>2, Zenon
    <3> QED
      BY <3>1, <3>2, <3>3
  <2> QED
    BY <1>7, <2>1, <2>2, <2>3
<1> QED
  BY <1>5, <1>7

LEMMA FeedTypeInductive ==
  ASSUME FeedTypeIInv, [FeedNext]_feedVars
  PROVE  FeedTypeIInv'
<1>1. ASSUME NEW w \in Writers, RollsBack(w) PROVE FeedTypeIInv'
  BY <1>1 DEF RollsBack, FeedTypeIInv, FeedTypes, Current
<1>2. ASSUME NEW o \in Ops, NEW s \in {"pending", "posted", "dropped"}, NEW id \in {1, 2},
             BankReports(o, s, id)
      PROVE  FeedTypeIInv'
  BY <1>2 DEF BankReports, FeedTypeIInv, FeedTypes, FeedType, Current
<1>3. ASSUME FallsDue PROVE FeedTypeIInv'
  BY <1>3, FeedAssumption DEF FallsDue, FeedTypeIInv, FeedTypes, Current
<1>4. CASE UNCHANGED feedVars
  BY <1>4 DEF feedVars, FeedTypeIInv, FeedTypes, Current
<1> QED
  BY <1>1, <1>2, <1>3, <1>4, SyncReadsTyped, GenerateReadsTyped, CommitsTyped, UserTyped
     DEF FeedNext

(* Every transaction reads and is about to write whole books, whose rows    *)
(* are rows, also where transactions overlap.                               *)
THEOREM FeedTyped == FeedSpec => []FeedTypeOK
<1>1. FeedInit => FeedTypeIInv
  BY FeedInitially DEF FeedIInv, FeedTypeIInv, Sound
<1>2. FeedTypeIInv /\ [FeedNext]_feedVars => FeedTypeIInv'
  BY FeedTypeInductive
<1>3. FeedTypeIInv => FeedTypeOK
  BY DEF FeedTypeIInv, FeedTypes, FeedTypeOK, FeedType, TxnType, Current
<1> QED
  BY <1>1, <1>2, <1>3, PTL DEF FeedSpec

-----------------------------------------------------------------------------
(* The hypothesis of what follows: no two transactions that read rows of    *)
(* the account, to write them later, are open at once.                      *)
OneOpen == \A v, w \in Writers : txn[v] # NoTxn /\ txn[w] # NoTxn => v = w

LEMMA FeedInductive ==
  ASSUME OneOpen, FeedIInv, [FeedNext]_feedVars
  PROVE  FeedIInv'
<1>1. ASSUME NEW w \in Writers, SyncReads(w) \/ GenerateReads(w) \/ Commits(w) \/ RollsBack(w)
      PROVE  FeedIInv'
  <2>1. Commits(w) => \A v \in Writers \ {w} : txn[v] = NoTxn
    BY DEF OneOpen, Commits
  <2> QED
    BY <1>1, <2>1, SyncReadsStep, GenerateReadsStep, CommitsStep, RollsBackStep
<1>2. ASSUME NEW o \in Ops, NEW s \in {"pending", "posted"}, Types(Window[o], s)
      PROVE  FeedIInv'
  BY <1>2, TypesStep
<1>3. ASSUME NEW r \in RowIds, Deletes(r) \/ TogglesIgnored(r) \/ UnlinksBill(r)
      PROVE  FeedIInv'
  BY <1>3, DeletesStep, TogglesIgnoredStep, UnlinksBillStep
<1>4. ASSUME NEW o \in Ops, NEW s \in {"pending", "posted", "dropped"}, NEW id \in {1, 2},
             BankReports(o, s, id)
      PROVE  FeedIInv'
  BY <1>4, BankReportsStep
<1>5. CASE UNCHANGED feedVars
  <2>1. UNCHANGED <<feed, rows, nextOcc, today, hand, txn>>
    BY <1>5 DEF feedVars
  <2>2. FeedTypes' /\ FirstIds(feed')
    BY <2>1 DEF FeedIInv, FeedTypes
  <2>3. Sound(feed', hand', Current')
    BY <2>1 DEF FeedIInv, Current
  <2>4. OpenSound'
    BY <2>1 DEF FeedIInv, OpenSound
  <2> QED
    BY <2>2, <2>3, <2>4 DEF FeedIInv
<1> QED
  BY <1>1, <1>2, <1>3, <1>4, <1>5, FallsDueStep DEF FeedNext

(* The inductive invariant holds: every row says whose it is, and an open   *)
(* transaction writes what follows from what it read.                       *)
THEOREM FeedInvariant == FeedSpec /\ []OneOpen => []FeedIInv
<1>1. FeedInit => FeedIInv
  BY FeedInitially
<1>2. OneOpen /\ FeedIInv /\ [FeedNext]_feedVars => FeedIInv'
  BY FeedInductive
<1> QED
  BY <1>1, <1>2, PTL DEF FeedSpec

(* Rows that can be told apart by operations are no more than these.        *)
LEMMA AsManyOperations ==
  ASSUME FeedIInv, NEW k \in Untyped
  PROVE  /\ IsFiniteSet(FromBank(rows, k))
         /\ Cardinality(Known(k, Ever)) \in Nat /\ Cardinality(FromBank(rows, k)) \in Nat
         /\ Cardinality(FromBank(rows, k)) <= Cardinality(Known(k, Ever))
<1>1. k \in 0..Occurrences /\ ~Typed(hand, k)
  BY DEF Untyped, Typed
<1>2. ExistsInjection(FromBank(rows, k), Seen(feed, k))
  BY <1>1, CurrentIs DEF FeedIInv, Sound, Attributed
<1>3. Seen(feed, k) = Known(k, Ever)
  BY DEF Seen, Known
<1>4. IsFiniteSet(FromBank(rows, k)) /\ IsFiniteSet(Known(k, Ever))
  <2>1. FromBank(rows, k) \subseteq RowIds /\ Known(k, Ever) \subseteq Ops
    BY DEF FromBank, Live, Known
  <2> QED
    BY <2>1, FeedAssumption, FS_Subset
<1>5. PICK g \in Injection(FromBank(rows, k), Known(k, Ever)) : TRUE
  BY <1>2, <1>3 DEF ExistsInjection
<1> QED
  BY <1>4, <1>5, FS_Injection, FS_CardinalityType

(* No operation is in the books twice, however often the bank changes its   *)
(* id (sync_connection, _find_synced_duplicate).                            *)
THEOREM BankCountedOnce == FeedSpec /\ []OneOpen => []CountedOnce
<1>1. FeedIInv => CountedOnce
  BY AsManyOperations DEF CountedOnce
<1> QED
  BY <1>1, FeedInvariant, PTL

-----------------------------------------------------------------------------
(* A posted report has a posted row of its own once it is merged, where the *)
(* user typed and hid nothing.                                              *)
Unhidden(t, k) == \A r \in Live(t) : t[r].kind = k => ~t[r].ignored
HasRow(t, id)  == \E r \in Live(t) : t[r].status = "posted" /\ t[r].ext = id

LEMMA RowStays ==
  ASSUME NEW t, NEW u, Keeps(t, u), NEW id \in Ids, HasRow(t, id)
  PROVE  HasRow(u, id)
<1>1. id # None
  BY FeedAssumption DEF Ids
<1> QED
  BY <1>1 DEF Keeps, KeptRow, HasRow

LEMMA UnhiddenBefore ==
  ASSUME NEW t, NEW u, Keeps(t, u), NEW k, Unhidden(u, k)
  PROVE  Unhidden(t, k)
BY DEF Keeps, KeptRow, Unhidden

LEMMA PostedLands ==
  ASSUME NEW fd, NEW h, NEW b, Sound(fd, h, b), Free(b.rows) # {},
         NEW rp, Reported(fd, rp), rp.status = "posted",
         ~Typed(h, Window[rp.op]), Unhidden(b.rows, Window[rp.op]), NEW newest \in BOOLEAN
  PROVE  HasRow(Merged(b, rp, newest).rows, rp.ext)
<1> DEFINE t == b.rows
           c == Merged(b, rp, newest)
<1>1. /\ b \in BooksType /\ t \in Rows /\ rp \in ReportType
      /\ rp.op \in Ops /\ rp.ext \in Ids /\ rp.ext[1] = rp.op
  BY BooksAre DEF Sound, Reported, ReportType, Ids
<1>2. rp.ext # None
  BY <1>1, FeedAssumption DEF Ids
<1>3. ASSUME NEW r \in Live(t) PROVE r \in RowIds /\ t[r] \in RowType /\ RowSound(fd, h, t[r], b.nextOcc)
  BY <1>1, LiveRows DEF Sound
<1>4. \/ Confirming(b, c, rp) \/ Adopting(b, c, rp) \/ Moving(b, c, rp)
      \/ Charging(b, c, rp) \/ Appearing(b, c, rp)
  BY <1>1, MergeCases
<1> SUFFICES HasRow(c.rows, rp.ext)
  OBVIOUS
<1> HIDE DEF c
<1>5. ASSUME NEW r \in RowIds, NEW row \in RowType, row.status = "posted", row.ext = rp.ext,
             c.rows = [t EXCEPT ![r] = row]
      PROVE  HasRow(c.rows, rp.ext)
  <2>1. c.rows[r] = row
    BY <1>1, <1>5 DEF Rows
  <2>2. r \in Live(c.rows)
    BY <2>1, LiveRows DEF Live
  <2> QED
    BY <1>5, <2>1, <2>2 DEF HasRow
<1>6. ASSUME NEW r, NEW row, WritesOver(b, c, r, row) PROVE c.rows = [t EXCEPT ![r] = row]
  BY <1>6 DEF WritesOver, Books
<1>7. CASE Confirming(b, c, rp)
  <2>1. PICK r \in SameId(t, rp) : WritesOver(b, c, r, Confirmed(t[r], rp))
    BY <1>7 DEF Confirming
  <2>2. r \in Live(t) /\ t[r].ext = rp.ext
    BY DEF SameId
  <2>3. t[r].kind = Window[rp.op]
    BY <1>1, <1>2, <1>3, <2>2 DEF RowSound
  <2>4. ~t[r].ignored
    BY <2>2, <2>3 DEF Unhidden
  <2> DEFINE row == Confirmed(t[r], rp)
  <2>5. row \in RowType /\ row.status = "posted" /\ row.ext = rp.ext
    <3>1. t[r] \in RowType
      BY <1>3, <2>2
    <3> QED
      BY <2>2, <2>4, <3>1 DEF Confirmed, Posted, RowType
  <2>6. c.rows = [t EXCEPT ![r] = row]
    BY <1>6, <2>1
  <2> HIDE DEF row
  <2> QED
    BY <1>3, <1>5, <2>2, <2>5, <2>6
<1>8. CASE Adopting(b, c, rp)
  <2>1. PICK r \in TypedTwins(t, rp) : TRUE
    BY <1>8 DEF Adopting
  <2>2. r \in Live(t) /\ t[r].source = "manual" /\ t[r].kind = Window[rp.op]
    BY <2>1 DEF TypedTwins, LooksLike
  <2> QED
    BY <1>3, <2>2 DEF RowSound
<1>9. CASE Moving(b, c, rp)
  <2>1. PICK r \in SyncedTwins(t, rp) : WritesOver(b, c, r, Moved(t[r], rp))
    BY <1>9 DEF Moving
  <2>2. r \in Live(t) /\ t[r].status # "posted" /\ r \in RowIds /\ t[r] \in RowType
    BY <1>3 DEF SyncedTwins
  <2> DEFINE row == Moved(t[r], rp)
  <2>3. row \in RowType /\ row.status = "posted" /\ row.ext = rp.ext
    BY <1>1, <2>2 DEF Moved, Posted, RowType
  <2>4. c.rows = [t EXCEPT ![r] = row]
    BY <1>6, <2>1
  <2> HIDE DEF row
  <2> QED
    BY <1>5, <2>2, <2>3, <2>4
<1>10. CASE Charging(b, c, rp)
  <2>1. PICK r \in Placeholders(t, rp) : WritesOver(b, c, r, Filled(t[r], rp))
    BY <1>10 DEF Charging
  <2>2. r \in RowIds /\ t[r] \in RowType
    BY <1>3 DEF Placeholders
  <2> DEFINE row == Filled(t[r], rp)
  <2>3. row \in RowType /\ row.status = "posted" /\ row.ext = rp.ext
    BY <1>1, <2>2 DEF Filled, RowType
  <2>4. c.rows = [t EXCEPT ![r] = row]
    BY <1>6, <2>1
  <2> HIDE DEF row
  <2> QED
    BY <1>5, <2>2, <2>3, <2>4
<1>11. CASE Appearing(b, c, rp)
  <2> DEFINE row == Found(b, rp)
  <2>1. row \in RowType /\ row.status = "posted" /\ row.ext = rp.ext
    BY <1>1, FeedAssumption DEF Found, Row, RowType, ReportType, Fulfils
  <2> HIDE DEF row
  <2>2. c.rows = [t EXCEPT ![Min(Free(t))] = row]
    BY <1>11 DEF Appearing, Insert, Books, row
  <2> QED
    BY <1>5, <2>1, <2>2, NextFree
<1> QED
  BY <1>4, <1>7, <1>8, <1>9, <1>10, <1>11

(* So has every posted report of a sync in what the sync merged.            *)
LEMMA AllPostedLand ==
  ASSUME feed \in FeedType, NEW h, NEW b, NEW order, Len(order) \in Nat,
         \A i \in 1..Len(order) : Reported(feed, Report(order[i])),
         NEW newest \in BOOLEAN, NEW f, Steps(f, b, order, newest),
         \A i \in 0..Len(order) : Sound(feed, h, f[i]),
         Cardinality(Free(b.rows)) >= Len(order),
         NEW k, ~Typed(h, k), Unhidden(f[Len(order)].rows, k)
  PROVE  \A j \in 1..Len(order) :
           (Report(order[j]).status = "posted" /\ Window[Report(order[j]).op] = k) =>
             HasRow(f[Len(order)].rows, Report(order[j]).ext)
<1> DEFINE n == Len(order)
           rp(j) == Report(order[j])
           Landed(i) == Unhidden(f[i].rows, k) =>
             \A j \in 1..i : (rp(j).status = "posted" /\ Window[rp(j).op] = k) =>
               HasRow(f[i].rows, rp(j).ext)
           S == {i \in 0..n : Landed(i)}
<1>1. \A i \in 1..n : Free(f[i - 1].rows) # {} /\ Keeps(f[i - 1].rows, f[i].rows)
  BY StepsKeep
<1>2. 0 \in S
  OBVIOUS
<1>3. ASSUME NEW i \in 1..n, i - 1 \in S PROVE i \in S
  <2> SUFFICES ASSUME Unhidden(f[i].rows, k), NEW j \in 1..i,
                      rp(j).status = "posted", Window[rp(j).op] = k
               PROVE  HasRow(f[i].rows, rp(j).ext)
    OBVIOUS
  <2>1. Unhidden(f[i - 1].rows, k)
    BY <1>1, UnhiddenBefore
  <2>2. /\ Reported(feed, rp(j)) /\ j \in 1..n /\ rp(j).ext \in Ids
        /\ Sound(feed, h, f[i - 1]) /\ f[i] = Merged(f[i - 1], rp(i), newest)
    <3>1. j \in 1..n /\ i - 1 \in 0..n
      OBVIOUS
    <3> QED
      BY <3>1 DEF Steps, Reported, ReportType
  <2>3. CASE j = i
    <3> HIDE DEF rp
    <3> QED
      BY <1>1, <2>1, <2>2, <2>3, PostedLands
  <2>4. CASE j # i
    <3>1. j \in 1..(i - 1)
      BY <2>4
    <3>2. HasRow(f[i - 1].rows, rp(j).ext)
      BY <1>3, <2>1, <3>1
    <3> HIDE DEF rp
    <3> QED
      BY <1>1, <2>2, <3>2, RowStays
  <2> QED
    BY <2>3, <2>4
<1>4. n \in S
  <2> HIDE DEF S
  <2>1. 0..n \subseteq S
    BY <1>2, <1>3, ReachesFromZero
  <2> QED
    BY <2>1
<1> QED
  BY <1>4

(* Phantoms are removed beside a paired row only.                           *)
LEMMA NoneCleaned ==
  ASSUME NEW b \in BooksType, NEW P, P \subseteq Live(b.rows), NEW k,
         ~HandMade(Cleaned(Paired(b, P)).rows, k)
  PROVE  LET u == Cleaned(Paired(b, P)).rows IN
         /\ Unhidden(b.rows, k)
         /\ \A r \in Live(b.rows) :
              b.rows[r].kind = k => r \in Live(u) /\ u[r].kind = k /\ u[r].ext = b.rows[r].ext
<1> DEFINE c == Paired(b, P)
           d == Cleaned(c)
<1>1. /\ c \in BooksType /\ Live(c.rows) = Live(b.rows)
      /\ \A r \in Live(b.rows) :
           /\ c.rows[r].kind = b.rows[r].kind /\ c.rows[r].ext = b.rows[r].ext
           /\ c.rows[r].ignored = b.rows[r].ignored
  BY PairedFields
<1> HIDE DEF c
<1>2. /\ Live(d.rows) = Live(c.rows) \ Phantoms(c.rows)
      /\ \A r \in Live(d.rows) : d.rows[r] = c.rows[r]
  BY <1>1, CleanedFields
<1>3. ~HandMade(d.rows, k)
  BY DEF c
<1> HIDE DEF d
<1>4. ASSUME NEW r \in Live(c.rows), c.rows[r].kind = k PROVE r \in Live(d.rows)
  <2> SUFFICES ASSUME r \in Phantoms(c.rows) PROVE FALSE
    BY <1>2, <1>4
  <2>1. PICK x \in Live(c.rows) : c.rows[x].paired /\ c.rows[x].kind = k
    BY <1>4 DEF Phantoms
  <2>2. x \in Live(d.rows) /\ d.rows[x] = c.rows[x]
    BY <1>2, <2>1 DEF Phantoms
  <2> QED
    BY <1>3, <2>1, <2>2 DEF HandMade
<1>5. \A r \in Live(b.rows) : b.rows[r].kind = k =>
        /\ r \in Live(d.rows) /\ d.rows[r].kind = k /\ d.rows[r].ext = b.rows[r].ext
        /\ d.rows[r].ignored = b.rows[r].ignored
  BY <1>1, <1>2, <1>4
<1>6. Unhidden(b.rows, k)
  BY <1>3, <1>5 DEF Unhidden, HandMade
<1> QED
  BY <1>5, <1>6 DEF d, c

LEMMA SyncCovers ==
  ASSUME FeedIInv, NEW w \in Writers, SyncReads(w)
  PROVE  \E to : Opens(w, "sync", to) /\ Covers(to.rows)
<1>1. PICK pending \in BOOLEAN, newest \in BOOLEAN :
        /\ Room(Cardinality(Listed(pending)))
        /\ \E order \in SetToSeqs(Listed(pending)) :
           \E P \in SUBSET (Live(AllMerged(Current, order, newest).rows) \ Live(rows)) :
             Opens(w, "sync", Cleaned(Paired(AllMerged(Current, order, newest), P)))
  BY DEF SyncReads
<1>2. PICK order \in SetToSeqs(Listed(pending)) :
        \E P \in SUBSET (Live(AllMerged(Current, order, newest).rows) \ Live(rows)) :
          Opens(w, "sync", Cleaned(Paired(AllMerged(Current, order, newest), P)))
  BY <1>1
<1> DEFINE merged == AllMerged(Current, order, newest)
           n == Len(order)
<1>3. PICK P \in SUBSET (Live(merged.rows) \ Live(rows)) :
        Opens(w, "sync", Cleaned(Paired(merged, P)))
  BY <1>2
<1>4. feed \in FeedType /\ FirstIds(feed) /\ Sound(feed, hand, Current) /\ Current.rows = rows
  BY CurrentIs DEF FeedIInv, FeedTypes
<1>5. /\ n \in Nat /\ n = Cardinality(Listed(pending))
      /\ \A i \in 1..n : Reported(feed, Report(order[i]))
      /\ \A o \in Listed(pending) : \E i \in 1..n : order[i] = o
  BY <1>4, OrderOfReports
<1>6. Cardinality(Free(Current.rows)) >= n
  BY <1>1, <1>4, <1>5 DEF Room
<1>7. PICK f : /\ Steps(f, Current, order, newest)
               /\ \A i \in 0..n : Sound(feed, hand, f[i])
               /\ merged = f[n]
  BY <1>4, <1>5, MergedInSteps
<1>8. Sound(feed, hand, merged) /\ merged \in BooksType /\ merged.rows \in Rows
  <2>1. n \in 0..n
    BY <1>5
  <2> QED
    BY <1>7, <2>1, BooksAre DEF Sound
<1> HIDE DEF merged
<1> DEFINE u == Cleaned(Paired(merged, P)).rows
<1> SUFFICES ASSUME NEW k \in Untyped, ~HandMade(u, k)
             PROVE  Cardinality(FromBank(u, k)) >= Cardinality(Known(k, {"posted"}))
  BY <1>3 DEF Covers
<1>9. ~Typed(hand, k)
  BY DEF Untyped, Typed
<1>10. /\ Unhidden(merged.rows, k)
       /\ \A r \in Live(merged.rows) : merged.rows[r].kind = k =>
            r \in Live(u) /\ u[r].kind = k /\ u[r].ext = merged.rows[r].ext
  BY <1>8, NoneCleaned
<1> HIDE DEF u
<1>11. ASSUME NEW o \in Known(k, {"posted"})
       PROVE  \E r \in FromBank(u, k) : u[r].ext = <<o, feed[o].id>>
  <2>1. o \in Ops /\ Window[o] = k /\ feed[o].status = "posted" /\ o \in Listed(pending)
    BY DEF Known, Listed
  <2>2. PICK j \in 1..n : order[j] = o
    BY <1>5, <2>1
  <2>3. /\ Report(order[j]).status = "posted" /\ Report(order[j]).op = o
        /\ Report(order[j]).ext = <<o, feed[o].id>>
    BY <2>1, <2>2 DEF Report
  <2>4. HasRow(merged.rows, <<o, feed[o].id>>)
    BY <1>4, <1>5, <1>6, <1>7, <1>9, <1>10, <2>1, <2>3, AllPostedLand
  <2>5. PICK r \in Live(merged.rows) : merged.rows[r].ext = <<o, feed[o].id>>
    BY <2>4 DEF HasRow
  <2>6. <<o, feed[o].id>> # None
    BY <1>4, <2>1, FeedAssumption DEF FeedType
  <2>7. merged.rows[r].kind = k
    <3>1. RowSound(feed, hand, merged.rows[r], merged.nextOcc)
      BY <1>8 DEF Sound
    <3>2. <<o, feed[o].id>>[1] = o
      OBVIOUS
    <3> QED
      BY <2>1, <2>5, <2>6, <3>1, <3>2 DEF RowSound
  <2> QED
    BY <1>10, <2>5, <2>6, <2>7 DEF FromBank
<1> DEFINE g == [o \in Known(k, {"posted"}) |->
                   CHOOSE r \in FromBank(u, k) : u[r].ext = <<o, feed[o].id>>]
<1>12. \A o \in Known(k, {"posted"}) : g[o] \in FromBank(u, k) /\ u[g[o]].ext = <<o, feed[o].id>>
  BY <1>11
<1>13. g \in Injection(Known(k, {"posted"}), FromBank(u, k))
  <2>1. g \in [Known(k, {"posted"}) -> FromBank(u, k)]
    BY <1>12
  <2> HIDE DEF g
  <2>2. \A o, p \in Known(k, {"posted"}) : g[o] = g[p] => o = p
    BY <1>12
  <2> QED
    BY <2>1, <2>2 DEF Injection, IsInjective
<1>14. IsFiniteSet(FromBank(u, k))
  <2>1. FromBank(u, k) \subseteq RowIds
    BY DEF FromBank, Live
  <2> QED
    BY <2>1, FeedAssumption, FS_Subset
<1>15. Cardinality(Known(k, {"posted"})) <= Cardinality(FromBank(u, k))
  <2> HIDE DEF g
  <2> QED
    BY <1>13, <1>14, FS_Injection
<1>16. Cardinality(Known(k, {"posted"})) \in Nat /\ Cardinality(FromBank(u, k)) \in Nat
  <2>1. IsFiniteSet(Known(k, {"posted"}))
    <3>1. Known(k, {"posted"}) \subseteq Ops
      BY DEF Known
    <3> QED
      BY <3>1, FeedAssumption, FS_Subset
  <2> QED
    BY <1>14, <2>1, FS_CardinalityType
<1> QED
  BY <1>15, <1>16

(* A sync loses nothing: in what it is about to write every posted          *)
(* operation has a row of its own, look-alikes of the same day included     *)
(* (sync_connection and its matchers, _cleanup_phantom_duplicates).         *)
THEOREM SyncLosesNothing == FeedSpec /\ []OneOpen => NothingLost
<1> DEFINE Kept == \A w \in Writers : (txn[w] = NoTxn /\ txn'[w] # NoTxn) =>
                     (txn'[w].by = "sync" => Covers(txn'[w].to.rows))
<1>1. FeedIInv /\ [FeedNext]_feedVars => [Kept]_feedVars
  <2> SUFFICES ASSUME FeedIInv, FeedNext, NEW w \in Writers,
                      txn[w] = NoTxn, txn'[w] # NoTxn, txn'[w].by = "sync"
               PROVE  Covers(txn'[w].to.rows)
    OBVIOUS
  <2>1. txn \in [Writers -> TxnType \cup {NoTxn}]
    BY DEF FeedIInv, FeedTypes
  <2>2. ASSUME NEW v \in Writers, SyncReads(v) PROVE Covers(txn'[w].to.rows)
    <3>1. v = w
      BY <2>1, <2>2 DEF SyncReads, Opens
    <3>2. PICK to : Opens(w, "sync", to) /\ Covers(to.rows)
      BY <2>2, <3>1, SyncCovers
    <3>3. txn'[w].to = to
      BY <2>1, <3>2 DEF Opens
    <3> QED
      BY <3>2, <3>3
  <2>3. ASSUME NEW v \in Writers, GenerateReads(v) PROVE FALSE
    <3>1. txn' = [txn EXCEPT ![v] = [by |-> "generate", from |-> Current,
                                     to |-> AllGenerated(Current)]]
      BY <2>3 DEF GenerateReads, Opens
    <3> QED
      BY <2>1, <3>1
  <2>4. ASSUME NEW v \in Writers, Commits(v) \/ RollsBack(v) PROVE FALSE
    BY <2>1, <2>4 DEF Commits, RollsBack
  <2>5. ASSUME txn' = txn PROVE FALSE
    BY <2>5
  <2>6. ASSUME NEW o, NEW s, Types(Window[o], s) PROVE FALSE
    BY <2>5, <2>6 DEF Types
  <2>7. ASSUME NEW r, Deletes(r) \/ TogglesIgnored(r) \/ UnlinksBill(r) PROVE FALSE
    BY <2>5, <2>7 DEF Deletes, TogglesIgnored, UnlinksBill
  <2>8. ASSUME NEW o, NEW s, NEW id, BankReports(o, s, id) PROVE FALSE
    BY <2>5, <2>8 DEF BankReports
  <2>9. ASSUME FallsDue PROVE FALSE
    BY <2>5, <2>9 DEF FallsDue
  <2> QED
    BY <2>2, <2>3, <2>4, <2>6, <2>7, <2>8, <2>9 DEF FeedNext
<1> QED
  BY <1>1, FeedInvariant, PTL DEF FeedSpec, NothingLost
=============================================================================
