-------------------------- MODULE SQLiteStoreProofs --------------------------
(***************************************************************************)
(* SQLiteStore implements TileStore, for every number of connections,      *)
(* sessions, runs and rows.  SQLiteInv is inductive: it says of the writer *)
(* what its view has of the call it executes, and of every session, in the *)
(* committed tables and in the view, that its positions count up from 0.   *)
(***************************************************************************)
EXTENDS SQLiteStore, FiniteSetTheorems, TLAPS

Row == [session : Sessions, position : Nat, run : Runs, item : Items]

Tables == [sessions : [Sessions -> Store!SessionRow \cup {NULL}],
           runs : [Runs -> Store!RunRow \cup {NULL}],
           rows : SUBSET Row]

RowsIn(tables, s) == {x \in tables.rows : x.session = s}

\* The rows have the positions 0 to n - 1, each once.
Numbered(rows, n) ==
    /\ \A x \in rows : x.position \in 0 .. n - 1
    /\ \A p \in 0 .. n - 1 : \E x \in rows : x.position = p
    /\ \A x, y \in rows : x.position = y.position => x = y

LEMMA NumberedCount ==
    ASSUME NEW rows, NEW n \in Nat, Numbered(rows, n)
    PROVE  IsFiniteSet(rows) /\ Cardinality(rows) = n
<1> DEFINE at(i) == CHOOSE x \in rows : x.position = i - 1
           f == [i \in 1 .. n |-> at(i)]
<1>1. \A i \in 1 .. n : at(i) \in rows /\ at(i).position = i - 1
  <2>1. ASSUME NEW i \in 1 .. n PROVE \E x \in rows : x.position = i - 1
    BY DEF Numbered
  <2> QED
    BY <2>1
<1> HIDE DEF at
<1>2. f \in Bijection(1 .. n, rows)
  <2>1. f \in [1 .. n -> rows]
    BY <1>1
  <2>2. \A i, j \in 1 .. n : f[i] = f[j] => i = j
    <3>1. \A i, j \in 1 .. n : i - 1 = j - 1 => i = j
      OBVIOUS
    <3> QED
      BY <1>1, <3>1
  <2>3. \A x \in rows : \E i \in 1 .. n : f[i] = x
    <3>1. ASSUME NEW x \in rows PROVE \E i \in 1 .. n : f[i] = x
      <4>1. x.position + 1 \in 1 .. n /\ (x.position + 1) - 1 = x.position
        BY DEF Numbered
      <4> DEFINE i == x.position + 1
      <4>2. at(i) \in rows /\ at(i).position = x.position
        BY <1>1, <4>1
      <4>3. at(i) = x
        BY <4>2 DEF Numbered
      <4> QED
        BY <4>1, <4>3
    <3> QED
      BY <3>1
  <2> QED
    BY <2>1, <2>2, <2>3 DEF Bijection, Injection, Surjection, IsInjective
<1>3. ExistsBijection(1 .. n, rows)
  BY <1>2 DEF ExistsBijection
<1>4. Cardinality(rows) = n
  BY <1>3, FS_CountingElements
<1> QED
  BY <1>3, <1>4, FS_NatBijection

\* As many rows are before a row as its position says.
LEMMA NumberedRank ==
    ASSUME NEW rows, NEW n \in Nat, Numbered(rows, n), NEW x \in rows
    PROVE  Cardinality({y \in rows : y.position < x.position}) = x.position
<1> DEFINE below == {y \in rows : y.position < x.position}
<1>1. x.position \in 0 .. n - 1 /\ \A y \in rows : y.position \in 0 .. n - 1
  BY DEF Numbered
<1>2. Numbered(below, x.position)
  <2>1. \A y \in below : y.position \in 0 .. x.position - 1
    BY <1>1
  <2>2. ASSUME NEW p \in 0 .. x.position - 1
        PROVE  \E y \in below : y.position = p
    <3>1. p \in 0 .. n - 1 /\ p < x.position
      BY <1>1
    <3>2. PICK y \in rows : y.position = p
      BY <3>1 DEF Numbered
    <3> QED
      BY <3>1, <3>2
  <2>3. \A y, z \in below : y.position = z.position => y = z
    BY DEF Numbered
  <2> QED
    BY <2>1, <2>2, <2>3 DEF Numbered
<1>3. x.position \in Nat
  BY <1>1
<1> QED
  BY <1>2, <1>3, NumberedCount

\* What ORDER BY position returns.
LEMMA HistoryFacts ==
    ASSUME NEW tables, NEW s, NEW n \in Nat, Numbered(RowsIn(tables, s), n)
    PROVE  /\ DOMAIN HistoryIn(tables, s) = 1 .. n
           /\ \A x \in RowsIn(tables, s) :
                HistoryIn(tables, s)[x.position + 1] = [run |-> x.run, item |-> x.item]
<1> DEFINE rows == RowsIn(tables, s)
           at(i) == CHOOSE x \in rows :
                      Cardinality({y \in rows : y.position < x.position}) = i - 1
<1>1. Cardinality(rows) = n
  BY NumberedCount
<1>2. HistoryIn(tables, s) =
        [i \in 1 .. Cardinality(rows) |-> [run |-> at(i).run, item |-> at(i).item]]
  BY DEF HistoryIn, RowsIn
<1>3. ASSUME NEW x \in rows
      PROVE  x.position + 1 \in 1 .. n /\ at(x.position + 1) = x
  <2>1. x.position \in 0 .. n - 1
    BY DEF Numbered
  <2>2. \A y \in rows : Cardinality({z \in rows : z.position < y.position}) = y.position
    BY NumberedRank
  <2>3. at(x.position + 1) = CHOOSE y \in rows :
          Cardinality({z \in rows : z.position < y.position}) = (x.position + 1) - 1
    OBVIOUS
  <2>4. (x.position + 1) - 1 = x.position
    BY <2>1
  <2>5. \A y \in rows : 
          Cardinality({z \in rows : z.position < y.position}) = x.position <=> y = x
    BY <2>2 DEF Numbered
  <2>6. at(x.position + 1) = x
    BY <2>3, <2>4, <2>5
  <2> QED
    BY <2>1, <2>6
<1> QED
  BY <1>1, <1>2, <1>3

LEMMA HistoryType ==
    ASSUME NEW tables, tables.rows \subseteq Row, NEW s, NEW n \in Nat,
           Numbered(RowsIn(tables, s), n)
    PROVE  /\ HistoryIn(tables, s) \in Seq(Store!HistoryRow)
           /\ Len(HistoryIn(tables, s)) = n
           /\ \A i \in 1 .. n : \E x \in RowsIn(tables, s) :
                /\ x.position = i - 1
                /\ HistoryIn(tables, s)[i] = [run |-> x.run, item |-> x.item]
<1> DEFINE h == HistoryIn(tables, s)
<1>1. h = [i \in 1 .. Cardinality(RowsIn(tables, s)) |-> h[i]]
  BY DEF HistoryIn, RowsIn
<1>2. Cardinality(RowsIn(tables, s)) = n
  BY NumberedCount
<1>3. ASSUME NEW i \in 1 .. n
      PROVE  \E x \in RowsIn(tables, s) :
               x.position = i - 1 /\ h[i] = [run |-> x.run, item |-> x.item]
  <2>1. i - 1 \in 0 .. n - 1 /\ (i - 1) + 1 = i
    OBVIOUS
  <2>2. PICK x \in RowsIn(tables, s) : x.position = i - 1
    BY <2>1 DEF Numbered
  <2>3. h[x.position + 1] = [run |-> x.run, item |-> x.item]
    BY HistoryFacts
  <2> QED
    BY <2>1, <2>2, <2>3
<1> HIDE DEF h
<1>4. ASSUME NEW i \in 1 .. n PROVE h[i] \in Store!HistoryRow
  <2>1. PICK x \in RowsIn(tables, s) : h[i] = [run |-> x.run, item |-> x.item]
    BY <1>3
  <2>2. x.run \in Runs /\ x.item \in Items
    BY DEF RowsIn, Row
  <2> QED
    BY <2>1, <2>2 DEF Store!HistoryRow
<1>5. h = [i \in 1 .. n |-> h[i]]
  BY <1>1, <1>2
<1>6. h \in Seq(Store!HistoryRow) /\ Len(h) = n
  BY <1>4, <1>5
<1> QED
  BY <1>3, <1>6 DEF h

LEMMA ConcatFacts ==
    ASSUME NEW S, NEW b \in Seq(S), NEW c \in Seq(S)
    PROVE  b \o c \in Seq(S) /\ Len(b \o c) = Len(b) + Len(c)
OBVIOUS

LEMMA SameRowsSameHistory ==
    ASSUME NEW tables, NEW after, NEW s, RowsIn(after, s) = RowsIn(tables, s)
    PROVE  HistoryIn(after, s) = HistoryIn(tables, s)
<1> DEFINE at(rows, i) == CHOOSE x \in rows :
                 Cardinality({y \in rows : y.position < x.position}) = i - 1
           F(rows) == [i \in 1 .. Cardinality(rows) |->
                         [run |-> at(rows, i).run, item |-> at(rows, i).item]]
<1>1. HistoryIn(after, s) = F(RowsIn(after, s))
  BY DEF HistoryIn, RowsIn
<1>2. HistoryIn(tables, s) = F(RowsIn(tables, s))
  BY DEF HistoryIn, RowsIn
<1> HIDE DEF F
<1> QED
  BY <1>1, <1>2

LEMMA InsertedDelta ==
    ASSUME NEW tables, tables.rows \subseteq Row, NEW after,
           NEW s \in Sessions, NEW n \in Nat, Numbered(RowsIn(tables, s), n),
           NEW r \in Runs, NEW d \in Seq(Items),
           after.rows = tables.rows \cup DeltaRows(s, n, r, d)
    PROVE  /\ after.rows \subseteq Row
           /\ Numbered(RowsIn(after, s), n + Len(d))
           /\ HistoryIn(after, s) = HistoryIn(tables, s) \o Store!RowsFor(r, d)
           /\ \A u \in Sessions \ {s} :
                /\ RowsIn(after, u) = RowsIn(tables, u)
                /\ HistoryIn(after, u) = HistoryIn(tables, u)
<1> DEFINE row(i) == [session |-> s, position |-> n + i - 1, run |-> r, item |-> d[i]]
           old == RowsIn(tables, s)
           new == RowsIn(after, s)
<1>1. Len(d) \in Nat /\ DOMAIN d = 1 .. Len(d) /\ \A i \in 1 .. Len(d) : d[i] \in Items
  OBVIOUS
<1>2. /\ \A i \in 1 .. Len(d) : row(i) \in DeltaRows(s, n, r, d)
      /\ \A x \in DeltaRows(s, n, r, d) : \E i \in 1 .. Len(d) : x = row(i)
  BY <1>1 DEF DeltaRows
<1>3. \A i \in 1 .. Len(d) : row(i) \in Row /\ row(i).session = s /\ row(i).position = n + i - 1
        /\ row(i).run = r /\ row(i).item = d[i]
  BY <1>1 DEF Row
<1> HIDE DEF row
<1>4. after.rows \subseteq Row
  BY <1>2, <1>3
<1>5. new = old \cup DeltaRows(s, n, r, d)
  BY <1>2, <1>3 DEF RowsIn
<1>6. Numbered(new, n + Len(d))
  <2>1. ASSUME NEW x \in new PROVE x.position \in 0 .. (n + Len(d)) - 1
    <3>1. CASE x \in old
      <4>1. x.position \in 0 .. n - 1
        BY <3>1 DEF Numbered
      <4> QED
        BY <1>1, <4>1
    <3>2. CASE x \in DeltaRows(s, n, r, d)
      <4>1. PICK i \in 1 .. Len(d) : x = row(i)
        BY <1>2, <3>2
      <4>2. x.position = n + i - 1
        BY <1>3, <4>1
      <4> QED
        BY <1>1, <4>2
    <3> QED
      BY <1>5, <3>1, <3>2
  <2>2. ASSUME NEW p \in 0 .. (n + Len(d)) - 1 PROVE \E x \in new : x.position = p
    <3>1. CASE p \in 0 .. n - 1
      BY <1>5, <3>1 DEF Numbered
    <3>2. CASE p \notin 0 .. n - 1
      <4>1. (p - n) + 1 \in 1 .. Len(d) /\ n + ((p - n) + 1) - 1 = p
        BY <1>1, <3>2
      <4> QED
        BY <1>2, <1>3, <1>5, <4>1
    <3> QED
      BY <3>1, <3>2
  <2>3. ASSUME NEW x \in new, NEW y \in new, x.position = y.position
        PROVE  x = y
    <3>1. CASE x \in old /\ y \in old
      BY <2>3, <3>1 DEF Numbered
    <3>2. ASSUME NEW u \in old, NEW i \in 1 .. Len(d)
          PROVE  u.position # row(i).position
      <4>1. u.position \in 0 .. n - 1
        BY DEF Numbered
      <4> QED
        BY <1>1, <1>3, <4>1
    <3>3. ASSUME NEW i \in 1 .. Len(d), NEW j \in 1 .. Len(d), row(i).position = row(j).position
          PROVE  row(i) = row(j)
      <4>1. n + i - 1 = n + j - 1
        BY <1>3, <3>3
      <4>2. i = j
        BY <1>1, <4>1
      <4> QED
        BY <4>2
    <3> QED
      BY <1>2, <1>5, <2>3, <3>1, <3>2, <3>3
  <2> QED
    BY <2>1, <2>2, <2>3 DEF Numbered
<1>7. HistoryIn(after, s) = HistoryIn(tables, s) \o Store!RowsFor(r, d)
  <2> DEFINE a == HistoryIn(after, s)
             b == HistoryIn(tables, s)
             c == Store!RowsFor(r, d)
  <2>1. /\ a \in Seq(Store!HistoryRow) /\ Len(a) = n + Len(d)
        /\ b \in Seq(Store!HistoryRow) /\ Len(b) = n
    BY <1>1, <1>4, <1>6, HistoryType
  <2>2. c = [i \in 1 .. Len(d) |-> [run |-> r, item |-> d[i]]]
    BY <1>1 DEF Store!RowsFor
  <2>3. c \in Seq(Store!HistoryRow) /\ Len(c) = Len(d)
        /\ \A i \in 1 .. Len(d) : c[i] = [run |-> r, item |-> d[i]]
    BY <1>1, <2>2 DEF Store!HistoryRow
  <2>4. ASSUME NEW i \in 1 .. n PROVE a[i] = b[i]
    <3>1. i - 1 \in 0 .. n - 1 /\ (i - 1) + 1 = i
      OBVIOUS
    <3>2. PICK x \in old : x.position = i - 1
      BY <3>1 DEF Numbered
    <3>3. x \in new
      BY <1>5
    <3>4. a[x.position + 1] = [run |-> x.run, item |-> x.item]
      BY <1>1, <1>6, <3>3, HistoryFacts
    <3>5. b[x.position + 1] = [run |-> x.run, item |-> x.item]
      BY HistoryFacts
    <3> QED
      BY <3>1, <3>2, <3>4, <3>5
  <2>5. ASSUME NEW i \in 1 .. Len(d) PROVE a[n + i] = c[i]
    <3>1. row(i) \in new
      BY <1>2, <1>5
    <3>2. a[row(i).position + 1] = [run |-> row(i).run, item |-> row(i).item]
      BY <1>1, <1>6, <3>1, HistoryFacts
    <3>3. row(i).position + 1 = n + i
      BY <1>1, <1>3
    <3> QED
      BY <1>3, <2>3, <3>2, <3>3
  <2> HIDE DEF a, b, c
  <2>6. ASSUME NEW i \in 1 .. n + Len(d) PROVE a[i] = (b \o c)[i]
    <3>1. CASE i \in 1 .. n
      BY <2>1, <2>3, <2>4, <3>1
    <3>2. CASE i \notin 1 .. n
      <4>1. i - n \in 1 .. Len(d) /\ n + (i - n) = i
        BY <1>1, <3>2
      <4>2. a[i] = c[i - n]
        BY <2>5, <4>1
      <4> QED
        BY <2>1, <2>3, <3>2, <4>1, <4>2
    <3> QED
      BY <3>1, <3>2
  <2>7. b \o c \in Seq(Store!HistoryRow) /\ Len(b \o c) = n + Len(d)
    <3>1. b \o c \in Seq(Store!HistoryRow) /\ Len(b \o c) = Len(b) + Len(c)
      BY <2>1, <2>3, ConcatFacts
    <3> QED
      BY <2>1, <2>3, <3>1
  <2>8. a = b \o c
    BY <2>1, <2>6, <2>7
  <2> QED
    BY <2>8 DEF a, b, c
<1>8. ASSUME NEW u \in Sessions \ {s}
      PROVE  RowsIn(after, u) = RowsIn(tables, u)
  BY <1>2, <1>3 DEF RowsIn
<1>9. ASSUME NEW u \in Sessions \ {s}
      PROVE  HistoryIn(after, u) = HistoryIn(tables, u)
  BY <1>8, SameRowsSameHistory
<1> QED
  BY <1>4, <1>6, <1>7, <1>8, <1>9

\* The rows that COPY_HISTORY_ITEMS adds.
CopiedRows(tables, source, target) ==
    {[x EXCEPT !.session = target] : x \in RowsIn(tables, source)}

LEMMA CopiedHistory ==
    ASSUME NEW tables, tables.rows \subseteq Row, NEW after,
           NEW source \in Sessions, NEW target \in Sessions,
           NEW n \in Nat, Numbered(RowsIn(tables, source), n),
           RowsIn(tables, target) = {},
           after.rows = tables.rows \cup CopiedRows(tables, source, target)
    PROVE  /\ after.rows \subseteq Row
           /\ Numbered(RowsIn(after, target), n)
           /\ HistoryIn(after, target) = HistoryIn(tables, source)
           /\ \A u \in Sessions \ {target} :
                /\ RowsIn(after, u) = RowsIn(tables, u)
                /\ HistoryIn(after, u) = HistoryIn(tables, u)
<1> DEFINE copy(x) == [x EXCEPT !.session = target]
           old == RowsIn(tables, source)
           new == RowsIn(after, target)
<1>1. \A x \in old : /\ copy(x) \in Row /\ copy(x).session = target
                     /\ copy(x).position = x.position
                     /\ copy(x).run = x.run /\ copy(x).item = x.item
  BY DEF RowsIn, Row
<1>2. /\ \A x \in old : copy(x) \in CopiedRows(tables, source, target)
      /\ \A y \in CopiedRows(tables, source, target) : \E x \in old : y = copy(x)
  BY DEF CopiedRows
<1> HIDE DEF copy
<1>3. after.rows \subseteq Row
  BY <1>1, <1>2
<1>4. new = CopiedRows(tables, source, target)
  BY <1>1, <1>2 DEF RowsIn
<1>5. Numbered(new, n)
  <2>1. \A y \in new : y.position \in 0 .. n - 1
    BY <1>1, <1>2, <1>4 DEF Numbered
  <2>2. \A p \in 0 .. n - 1 : \E y \in new : y.position = p
    BY <1>1, <1>2, <1>4 DEF Numbered
  <2>3. ASSUME NEW y \in new, NEW z \in new, y.position = z.position
        PROVE  y = z
    <3>1. PICK v \in old, w \in old : y = copy(v) /\ z = copy(w)
      BY <1>2, <1>4
    <3>2. v = w
      BY <1>1, <2>3, <3>1 DEF Numbered
    <3> QED
      BY <3>1, <3>2
  <2> QED
    BY <2>1, <2>2, <2>3 DEF Numbered
<1>6. HistoryIn(after, target) = HistoryIn(tables, source)
  <2> DEFINE a == HistoryIn(after, target)
             b == HistoryIn(tables, source)
  <2>1. /\ a \in Seq(Store!HistoryRow) /\ Len(a) = n
        /\ b \in Seq(Store!HistoryRow) /\ Len(b) = n
    BY <1>3, <1>5, HistoryType
  <2>2. ASSUME NEW i \in 1 .. n PROVE a[i] = b[i]
    <3>1. i - 1 \in 0 .. n - 1 /\ (i - 1) + 1 = i
      OBVIOUS
    <3>2. PICK x \in old : x.position = i - 1
      BY <3>1 DEF Numbered
    <3>3. copy(x) \in new
      BY <1>2, <1>4
    <3>4. a[copy(x).position + 1] = [run |-> copy(x).run, item |-> copy(x).item]
      BY <1>5, <3>3, HistoryFacts
    <3>5. b[x.position + 1] = [run |-> x.run, item |-> x.item]
      BY HistoryFacts
    <3> QED
      BY <1>1, <3>1, <3>2, <3>4, <3>5
  <2> HIDE DEF a, b
  <2>3. a = b
    BY <2>1, <2>2
  <2> QED
    BY <2>3 DEF a, b
<1>7. ASSUME NEW u \in Sessions \ {target}
      PROVE  RowsIn(after, u) = RowsIn(tables, u)
  BY <1>1, <1>2 DEF RowsIn
<1>8. ASSUME NEW u \in Sessions \ {target}
      PROVE  HistoryIn(after, u) = HistoryIn(tables, u)
  BY <1>7, SameRowsSameHistory
<1> QED
  BY <1>3, <1>5, <1>6, <1>7, <1>8
-----------------------------------------------------------------------------
(* The inductive invariant.                                                *)

Dense(tables) == \A s \in Sessions : \E n \in Nat : Numbered(RowsIn(tables, s), n)

\* The tables are typed, rows and runs are of sessions that exist, and every
\* session's rows are numbered.
TablesAgree(tables) ==
    /\ tables \in Tables
    /\ \A x \in tables.rows : tables.sessions[x.session] # NULL
    /\ \A r \in Runs : tables.runs[r] # NULL => tables.sessions[tables.runs[r].session] # NULL
    /\ Dense(tables)

CallOK(k) ==
    /\ k.op \in {"create_session", "start_run", "finish_run", "abort_active_run", "fork_session"}
    /\ k.session \in Sessions
    /\ k.op = "start_run" => k.run \in Runs
    /\ k.op = "finish_run" => k.run \in Runs /\ k.outcome \in Outcomes /\ k.delta \in Deltas
    /\ k.op = "fork_session" => k.source \in Sessions

ActiveRow(row) == row # NULL /\ row.outcome = NULL

\* What the checks of a call have found in the committed tables.
Startable(k) ==
    /\ db.sessions[k.session] # NULL
    /\ \A r \in Runs : ActiveRow(db.runs[r]) => db.runs[r].session # k.session

Endable(k) ==
    /\ k.op = "abort_active_run" => k.outcome = Aborted /\ db.sessions[k.session] # NULL
    /\ k.run \in Runs /\ ActiveRow(db.runs[k.run]) /\ db.runs[k.run].session = k.session

Forkable(k) == db.sessions[k.source] # NULL /\ db.sessions[k.session] = NULL

\* What its statements have made of them in the view.
Inserted(k) ==
    \E t \in Times : view.sessions = [db.sessions EXCEPT ![k.session] = Store!NewSession(t)]

Started(k) ==
    \E t \in Times : view.runs = [db.runs EXCEPT ![k.run] = Store!NewRun(k.session, t)]

Ended(k) ==
    \E t \in Times : view.runs =
      [db.runs EXCEPT ![k.run] = Store!TerminalRun(db.runs[k.run], k.outcome, t)]

Appended(k) ==
    \E n \in Nat : /\ Numbered(RowsIn(db, k.session), n)
                   /\ view.rows = db.rows \cup DeltaRows(k.session, n, k.run, k.delta)

Copied(k) == view.rows = db.rows \cup CopiedRows(db, k.source, k.session)

TouchedLast(k) ==
    view.sessions = [db.sessions EXCEPT
      ![k.session] = Store!Touched(db.sessions[k.session], view.runs[k.run].ended)]

WriteReady(c, k) ==
    /\ view = db
    /\ k.op = "start_run" => Startable(k) /\ snapshot[c] = HistoryIn(db, k.session)
    /\ k.op \in {"finish_run", "abort_active_run"} => Endable(k)
    /\ k.op = "fork_session" => Forkable(k)

HistoryReady(k) ==
    /\ view.rows = db.rows
    /\ \/ k.op = "finish_run" /\ Endable(k) /\ Ended(k) /\ view.sessions = db.sessions
       \/ k.op = "fork_session" /\ Forkable(k) /\ Inserted(k) /\ view.runs = db.runs

TouchReady(k) ==
    /\ view.sessions = db.sessions /\ Endable(k) /\ Ended(k)
    /\ \/ k.op = "finish_run" /\ Appended(k)
       \/ k.op = "abort_active_run" /\ view.rows = db.rows

CommitReady(c, k) ==
    \/ /\ k.op = "create_session" /\ db.sessions[k.session] = NULL
       /\ Inserted(k) /\ view.runs = db.runs /\ view.rows = db.rows
    \/ /\ k.op = "start_run" /\ Startable(k) /\ db.runs[k.run] = NULL
       /\ Started(k) /\ view.sessions = db.sessions /\ view.rows = db.rows
       /\ snapshot[c] = HistoryIn(db, k.session)
    \/ k.op = "finish_run" /\ Endable(k) /\ Ended(k) /\ Appended(k) /\ TouchedLast(k)
    \/ k.op = "abort_active_run" /\ view = db
    \/ /\ k.op = "abort_active_run" /\ Endable(k) /\ Ended(k) /\ TouchedLast(k)
       /\ view.rows = db.rows
    \/ k.op = "fork_session" /\ Forkable(k) /\ Inserted(k) /\ view.runs = db.runs /\ Copied(k)

\* What the view of connection c has of the call it executes.
ViewAgrees(c) ==
    /\ pc[c] = "check" => view = db /\ call[c].op # "create_session"
    /\ pc[c] = "write" => WriteReady(c, call[c])
    /\ pc[c] = "history" => HistoryReady(call[c])
    /\ pc[c] = "touch" => TouchReady(call[c])
    /\ pc[c] = "commit" => CommitReady(c, call[c])

ConnAgrees(c) ==
    /\ pc[c] \in {"idle", "begin"} <=> writer # c
    /\ pc[c] # "idle" => CallOK(call[c])
    /\ snapshot[c] # NULL => call[c].op = "start_run" /\ pc[c] \in {"write", "commit"}

SQLiteInv ==
    /\ TablesAgree(db)
    /\ writer \in Conns \cup {NULL}
    /\ writer # NULL => TablesAgree(view) /\ ViewAgrees(writer)
    /\ pc \in [Conns -> {"idle", "begin", "check", "write", "history", "touch", "commit"}]
    /\ call = [c \in Conns |-> call[c]]
    /\ snapshot = [c \in Conns |-> snapshot[c]]
    /\ \A c \in Conns : ConnAgrees(c)

LEMMA SQLiteInvInit == Init => SQLiteInv
<1> SUFFICES ASSUME Init PROVE SQLiteInv
  OBVIOUS
<1>1. db.rows = {} /\ db.sessions = [s \in Sessions |-> NULL] /\ db.runs = [r \in Runs |-> NULL]
  BY DEF Init, EmptyDb
<1>2. db \in Tables
  BY DEF Init, EmptyDb, Tables
<1>3. Dense(db)
  <2>1. \A s \in Sessions : RowsIn(db, s) = {}
    BY <1>1 DEF RowsIn
  <2>2. Numbered({}, 0)
    BY DEF Numbered
  <2> QED
    BY <2>1, <2>2 DEF Dense
<1>4. TablesAgree(db)
  BY <1>1, <1>2, <1>3 DEF TablesAgree
<1>5. \A c \in Conns : ConnAgrees(c)
  BY SQLiteAssumption DEF Init, ConnAgrees
<1> QED
  BY <1>4, <1>5 DEF Init, SQLiteInv

\* What the statements write is of the type of its table.
LEMMA RowFacts ==
    ASSUME NEW t \in Times, NEW s \in Sessions
    PROVE  /\ Store!NewSession(t) \in Store!SessionRow /\ Store!NewSession(t) # NULL
           /\ Store!NewRun(s, t) \in Store!RunRow /\ Store!NewRun(s, t) # NULL
           /\ Store!NewRun(s, t).session = s
<1>1. Store!NewSession(t) \in Store!SessionRow
  BY DEF Store!NewSession, Store!SessionRow
<1>2. Store!NewRun(s, t) \in Store!RunRow /\ Store!NewRun(s, t).session = s
  BY DEF Store!NewRun, Store!RunRow
<1> QED
  BY <1>1, <1>2, SQLiteAssumption DEF Store!SessionRow, Store!RunRow

LEMMA TerminalFacts ==
    ASSUME NEW row \in Store!RunRow, NEW o \in Outcomes, NEW t \in Times
    PROVE  /\ Store!TerminalRun(row, o, t) \in Store!RunRow
           /\ Store!TerminalRun(row, o, t) # NULL
           /\ Store!TerminalRun(row, o, t).session = row.session
           /\ Store!TerminalRun(row, o, t).ended \in Times
<1>1. Store!Latest(t, row.started) \in Times
  BY DEF Store!Latest, Store!RunRow
<1>2. Store!TerminalRun(row, o, t) \in Store!RunRow
  BY <1>1 DEF Store!TerminalRun, Store!RunRow
<1> QED
  BY <1>1, <1>2, SQLiteAssumption DEF Store!TerminalRun, Store!RunRow

LEMMA TouchedFacts ==
    ASSUME NEW row \in Store!SessionRow, NEW t \in Times
    PROVE  Store!Touched(row, t) \in Store!SessionRow /\ Store!Touched(row, t) # NULL
<1>1. Store!Latest(row.updated, t) \in Times
  BY DEF Store!Latest, Store!SessionRow
<1>2. Store!Touched(row, t) = [created |-> row.created, updated |-> Store!Latest(row.updated, t)]
  BY DEF Store!Touched, Store!SessionRow
<1> QED
  BY <1>1, <1>2, SQLiteAssumption DEF Store!SessionRow

\* A session that does not exist has no rows.
LEMMA NoRowsBeforeSession ==
    ASSUME NEW tables, TablesAgree(tables), NEW s \in Sessions, tables.sessions[s] = NULL
    PROVE  RowsIn(tables, s) = {}
BY DEF TablesAgree, RowsIn

\* A connection that stands still while another one moves.
LEMMA OthersAgree ==
    ASSUME SQLiteInv, NEW c \in Conns,
           \A d \in Conns \ {c} : pc'[d] = pc[d] /\ call'[d] = call[d] /\ snapshot'[d] = snapshot[d],
           writer' = writer \/ (writer \in {c, NULL} /\ writer' \in {c, NULL})
    PROVE  \A d \in Conns \ {c} : ConnAgrees(d)'
BY SQLiteAssumption DEF SQLiteInv, ConnAgrees
-----------------------------------------------------------------------------
LEMMA InvokeKeeps ==
    ASSUME SQLiteInv, NEW c \in Conns, NEW k \in Calls, Invoke(c, k)
    PROVE  SQLiteInv'
<1> USE DEF SQLiteInv
<1>1. /\ pc[c] = "idle" /\ call' = [call EXCEPT ![c] = k] /\ pc' = [pc EXCEPT ![c] = "begin"]
      /\ db' = db /\ writer' = writer /\ view' = view /\ snapshot' = snapshot
  BY DEF Invoke
<1>2. writer # c /\ snapshot[c] = NULL
  BY <1>1 DEF ConnAgrees
<1>3. CallOK(k)
  BY SQLiteAssumption DEF Calls, CallOK
<1>4. ConnAgrees(c)'
  BY <1>1, <1>2, <1>3 DEF ConnAgrees
<1>5. \A d \in Conns \ {c} : ConnAgrees(d)'
  BY <1>1, OthersAgree
<1>6. TablesAgree(db)' /\ (writer # NULL => TablesAgree(view)')
  BY <1>1
<1>7. ASSUME writer' # NULL PROVE ViewAgrees(writer)'
  <2>1. /\ writer' \in Conns /\ writer' # c /\ ViewAgrees(writer)
        /\ pc'[writer'] = pc[writer] /\ call'[writer'] = call[writer]
        /\ snapshot'[writer'] = snapshot[writer]
    BY <1>1, <1>2, <1>7
  <2> QED
    BY <1>1, <2>1
       DEF ViewAgrees, WriteReady, HistoryReady, TouchReady, CommitReady,
           Startable, Endable, Forkable, Inserted, Started, Ended, Appended, Copied, TouchedLast
<1> QED
  BY <1>1, <1>4, <1>5, <1>6, <1>7

LEMMA BeginKeeps ==
    ASSUME SQLiteInv, NEW c \in Conns, Begin(c)
    PROVE  SQLiteInv'
<1> USE DEF SQLiteInv
<1>1. /\ pc[c] = "begin" /\ writer = NULL /\ writer' = c /\ view' = db /\ db' = db
      /\ pc' = [pc EXCEPT ![c] = IF call[c].op = "create_session" THEN "write" ELSE "check"]
      /\ call' = call /\ snapshot' = snapshot
  BY DEF Begin
<1>2. pc'[c] = IF call[c].op = "create_session" THEN "write" ELSE "check"
  BY <1>1
<1>3. CallOK(call[c]) /\ snapshot[c] = NULL
  BY <1>1 DEF ConnAgrees
<1>4. ConnAgrees(c)'
  BY <1>1, <1>2, <1>3 DEF ConnAgrees
<1>5. \A d \in Conns \ {c} : ConnAgrees(d)'
  BY <1>1, OthersAgree
<1>6. ViewAgrees(c)'
  BY <1>1, <1>2 DEF ViewAgrees, WriteReady
<1> QED
  BY <1>1, <1>2, <1>4, <1>5, <1>6

\* A call that returns, with or without an effect, leaves a connection idle.
LEMMA ReturnKeeps ==
    ASSUME SQLiteInv, NEW c \in Conns, Return(c),
           \/ /\ pc[c] = "begin" /\ writer' = writer /\ db' = db /\ view' = view
           \/ /\ writer = c /\ writer' = NULL /\ TablesAgree(db)'
    PROVE  SQLiteInv'
<1> USE DEF SQLiteInv
<1>1. /\ call' = [call EXCEPT ![c] = NULL] /\ pc' = [pc EXCEPT ![c] = "idle"]
      /\ snapshot' = [snapshot EXCEPT ![c] = NULL]
  BY DEF Return
<1>2. writer' # c
  BY SQLiteAssumption DEF ConnAgrees
<1>3. pc'[c] = "idle" /\ snapshot'[c] = NULL
  BY <1>1
<1>4. ConnAgrees(c)'
  BY <1>2, <1>3 DEF ConnAgrees
<1>5. \A d \in Conns \ {c} : ConnAgrees(d)'
  BY <1>1, OthersAgree
<1>6. ASSUME writer' # NULL PROVE TablesAgree(view)' /\ ViewAgrees(writer)'
  <2>1. /\ writer' = writer /\ db' = db /\ view' = view
        /\ writer' \in Conns /\ ViewAgrees(writer) /\ TablesAgree(view)
    BY <1>6
  <2>2. /\ pc'[writer'] = pc[writer] /\ call'[writer'] = call[writer]
        /\ snapshot'[writer'] = snapshot[writer]
    BY <1>1, <1>2, <2>1
  <2> QED
    BY <2>1, <2>2
       DEF ViewAgrees, WriteReady, HistoryReady, TouchReady, CommitReady,
           Startable, Endable, Forkable, Inserted, Started, Ended, Appended, Copied, TouchedLast
<1>7. TablesAgree(db)' /\ writer' \in Conns \cup {NULL}
  OBVIOUS
<1> QED
  BY <1>1, <1>4, <1>5, <1>6, <1>7

LEMMA EndKeeps ==
    ASSUME SQLiteInv, NEW c \in Conns, Busy(c) \/ Commit(c) \/ Rollback(c)
    PROVE  SQLiteInv'
<1> USE DEF SQLiteInv
<1>1. CASE Busy(c)
  BY <1>1, ReturnKeeps DEF Busy
<1>2. CASE Commit(c) \/ Rollback(c)
  <2>1. writer = c /\ TablesAgree(db) /\ TablesAgree(view)
    BY <1>2, SQLiteAssumption DEF Commit, Rollback, ConnAgrees
  <2>2. db' = view \/ db' = db
    BY <1>2 DEF Commit, Rollback
  <2> QED
    BY <1>2, <2>1, <2>2, ReturnKeeps DEF Commit, Rollback
<1> QED
  BY <1>1, <1>2

\* A statement of the writer moves nothing but its own call and the view.
LEMMA StatementKeeps ==
    ASSUME SQLiteInv, NEW c \in Conns, writer = c, writer' = writer, db' = db,
           NEW label \in {"write", "history", "touch", "commit"},
           pc' = [pc EXCEPT ![c] = label],
           NEW k, call' = [call EXCEPT ![c] = k], CallOK(k),
           NEW h, snapshot' = [snapshot EXCEPT ![c] = h],
           h = NULL \/ (k.op = "start_run" /\ label \in {"write", "commit"}),
           TablesAgree(view)', ViewAgrees(c)'
    PROVE  SQLiteInv'
<1> USE DEF SQLiteInv
<1>1. pc'[c] = label /\ call'[c] = k /\ snapshot'[c] = h
  OBVIOUS
<1>2. ConnAgrees(c)'
  BY <1>1 DEF ConnAgrees
<1>3. \A d \in Conns \ {c} : ConnAgrees(d)'
  BY OthersAgree
<1>4. TablesAgree(db)'
  OBVIOUS
<1> QED
  BY <1>2, <1>3, <1>4

\* What is known where a statement is to run.
LEMMA WriterFacts ==
    ASSUME SQLiteInv, NEW c \in Conns, pc[c] \notin {"idle", "begin"}
    PROVE  /\ writer = c /\ TablesAgree(view) /\ TablesAgree(db) /\ ViewAgrees(c) /\ CallOK(call[c])
           /\ snapshot[c] # NULL => call[c].op = "start_run" /\ pc[c] \in {"write", "commit"}
BY SQLiteAssumption DEF SQLiteInv, ConnAgrees

LEMMA CheckKeeps ==
    ASSUME SQLiteInv, NEW c \in Conns, Check(c)
    PROVE  SQLiteInv'
<1> DEFINE k == call[c]
<1>1. /\ pc[c] = "check" /\ db' = db /\ writer' = writer /\ view' = view
      /\ CheckStart(c) \/ CheckFinish(c) \/ CheckAbort(c) \/ CheckFork(c)
  BY DEF Check
<1>2. /\ writer = c /\ TablesAgree(view) /\ CallOK(k) /\ view = db /\ snapshot[c] = NULL
      /\ call = [d \in Conns |-> call[d]] /\ snapshot = [d \in Conns |-> snapshot[d]]
      /\ pc = [d \in Conns |-> pc[d]]
  BY <1>1, WriterFacts DEF ViewAgrees, SQLiteInv
<1>3. TablesAgree(view)'
  BY <1>1, <1>2 DEF TablesAgree, Dense, RowsIn
<1>4. \A s, r : r \in Runs =>
        (r \in ActiveRuns(s) <=> ActiveRow(db.runs[r]) /\ db.runs[r].session = s)
  BY <1>2 DEF ActiveRuns, Active, ActiveRow
<1>5. CASE CheckStart(c)
  <2>1. /\ k.op = "start_run" /\ db.sessions[k.session] # NULL /\ ActiveRuns(k.session) = {}
        /\ snapshot' = [snapshot EXCEPT ![c] = HistoryIn(view, k.session)]
        /\ pc' = [pc EXCEPT ![c] = "write"] /\ call' = call
    BY <1>2, <1>5 DEF CheckStart, HasSession, Goto
  <2>2. Startable(k)
    BY <1>4, <2>1 DEF Startable
  <2>3. /\ pc'[c] = "write" /\ snapshot'[c] = HistoryIn(db, k.session)
        /\ call' = [call EXCEPT ![c] = k]
    BY <1>2, <2>1
  <2>4. ViewAgrees(c)'
    BY <1>1, <1>2, <2>1, <2>2, <2>3 DEF ViewAgrees, WriteReady, Startable
  <2> QED
    BY <1>1, <1>2, <1>3, <2>1, <2>3, <2>4, StatementKeeps
<1>6. CASE CheckFinish(c)
  <2>1. /\ k.op = "finish_run" /\ ActiveRow(db.runs[k.run]) /\ db.runs[k.run].session = k.session
        /\ pc' = [pc EXCEPT ![c] = "write"] /\ call' = call /\ snapshot' = snapshot
    BY <1>2, <1>6 DEF CheckFinish, Active, ActiveRow, Goto
  <2>2. Endable(k)
    BY <1>2, <2>1 DEF Endable, CallOK
  <2>3. /\ pc'[c] = "write" /\ call' = [call EXCEPT ![c] = k]
        /\ snapshot' = [snapshot EXCEPT ![c] = NULL]
    BY <1>2, <2>1
  <2>4. ViewAgrees(c)'
    BY <1>1, <1>2, <2>1, <2>2, <2>3 DEF ViewAgrees, WriteReady, Endable
  <2> QED
    BY <1>1, <1>2, <1>3, <2>1, <2>3, <2>4, StatementKeeps
<1>7. CASE CheckAbort(c)
  <2>1. k.op = "abort_active_run" /\ db.sessions[k.session] # NULL /\ snapshot' = snapshot
    BY <1>2, <1>7 DEF CheckAbort, HasSession
  <2>2. snapshot' = [snapshot EXCEPT ![c] = NULL]
    BY <1>2, <2>1
  <2>3. CASE pc' = [pc EXCEPT ![c] = "commit"] /\ call' = call
    <3>1. pc'[c] = "commit" /\ call' = [call EXCEPT ![c] = k]
      BY <1>2, <2>3
    <3>2. ViewAgrees(c)'
      BY <1>1, <1>2, <2>1, <2>3, <3>1 DEF ViewAgrees, CommitReady
    <3> QED
      BY <1>1, <1>2, <1>3, <2>2, <2>3, <3>1, <3>2, StatementKeeps
  <2>4. ASSUME NEW r \in ActiveRuns(k.session), pc' = [pc EXCEPT ![c] = "write"],
               call' = [call EXCEPT ![c] =
                 [op |-> "abort_active_run", session |-> k.session, run |-> r, outcome |-> Aborted]]
        PROVE  SQLiteInv'
    <3> DEFINE q == [op |-> "abort_active_run", session |-> k.session, run |-> r, outcome |-> Aborted]
    <3>1. pc'[c] = "write" /\ call'[c] = q /\ call' = [call EXCEPT ![c] = q]
      BY <1>2, <2>4
    <3>2. r \in Runs
      BY DEF ActiveRuns
    <3>3. /\ q.op = "abort_active_run" /\ q.session = k.session /\ q.run = r /\ q.outcome = Aborted
      OBVIOUS
    <3>4. CallOK(q)
      BY <1>2, <3>3 DEF CallOK
    <3> HIDE DEF q
    <3>5. Endable(q)
      BY <1>4, <2>1, <3>2, <3>3 DEF Endable
    <3>6. ViewAgrees(c)'
      BY <1>1, <1>2, <2>1, <3>1, <3>3, <3>5 DEF ViewAgrees, WriteReady, Endable
    <3> QED
      BY <1>1, <1>2, <1>3, <2>2, <2>4, <3>1, <3>4, <3>6, StatementKeeps
  <2> QED
    BY <1>7, <2>3, <2>4 DEF CheckAbort, Goto
<1>8. CASE CheckFork(c)
  <2>1. /\ k.op = "fork_session" /\ db.sessions[k.source] # NULL /\ db.sessions[k.session] = NULL
        /\ pc' = [pc EXCEPT ![c] = "write"] /\ call' = call /\ snapshot' = snapshot
    BY <1>2, <1>8 DEF CheckFork, HasSession, Goto
  <2>2. Forkable(k)
    BY <2>1 DEF Forkable
  <2>3. /\ pc'[c] = "write" /\ call' = [call EXCEPT ![c] = k]
        /\ snapshot' = [snapshot EXCEPT ![c] = NULL]
    BY <1>2, <2>1
  <2>4. ViewAgrees(c)'
    BY <1>1, <1>2, <2>1, <2>2, <2>3 DEF ViewAgrees, WriteReady, Forkable
  <2> QED
    BY <1>1, <1>2, <1>3, <2>1, <2>3, <2>4, StatementKeeps
<1> QED
  BY <1>1, <1>5, <1>6, <1>7, <1>8

\* Statements that leave the history rows alone keep them numbered.
LEMMA RecordsKeepTables ==
    ASSUME NEW tables, TablesAgree(tables), NEW after, after \in Tables,
           after.rows = tables.rows,
           \A s \in Sessions : tables.sessions[s] # NULL => after.sessions[s] # NULL,
           \A r \in Runs : after.runs[r] # NULL => after.sessions[after.runs[r].session] # NULL
    PROVE  TablesAgree(after)
<1>1. tables.rows \subseteq Row
  BY DEF TablesAgree, Tables
<1>2. \A x \in after.rows : after.sessions[x.session] # NULL
  BY <1>1 DEF TablesAgree, Row
<1>3. Dense(after)
  BY DEF TablesAgree, Dense, RowsIn
<1> QED
  BY <1>2, <1>3 DEF TablesAgree

LEMMA ViewUpdates ==
    ASSUME view \in Tables
    PROVE  /\ view.sessions \in [Sessions -> Store!SessionRow \cup {NULL}]
           /\ view.runs \in [Runs -> Store!RunRow \cup {NULL}]
           /\ view.rows \subseteq Row
           /\ \A s \in Sessions, row \in Store!SessionRow :
                [view EXCEPT !.sessions[s] = row]
                  = [sessions |-> [view.sessions EXCEPT ![s] = row],
                     runs |-> view.runs, rows |-> view.rows]
           /\ \A r \in Runs, row \in Store!RunRow :
                [view EXCEPT !.runs[r] = row]
                  = [sessions |-> view.sessions,
                     runs |-> [view.runs EXCEPT ![r] = row], rows |-> view.rows]
BY DEF Tables

LEMMA WriteKeeps ==
    ASSUME SQLiteInv, NEW c \in Conns, Write(c)
    PROVE  SQLiteInv'
<1> DEFINE k == call[c]
<1>1. /\ pc[c] = "write" /\ db' = db /\ writer' = writer /\ call' = call /\ snapshot' = snapshot
      /\ InsertSession(c) \/ InsertRun(c) \/ FinalizeActiveRun(c)
  BY DEF Write
<1>2. /\ writer = c /\ TablesAgree(view) /\ CallOK(k) /\ view = db /\ WriteReady(c, k)
      /\ snapshot[c] # NULL => k.op = "start_run"
      /\ call = [call EXCEPT ![c] = k] /\ snapshot = [snapshot EXCEPT ![c] = snapshot[c]]
      /\ pc = [d \in Conns |-> pc[d]]
  BY <1>1, WriterFacts DEF ViewAgrees, WriteReady, SQLiteInv
<1>3. /\ view \in Tables /\ db.sessions \in [Sessions -> Store!SessionRow \cup {NULL}]
      /\ db.runs \in [Runs -> Store!RunRow \cup {NULL}] /\ db.rows \subseteq Row
      /\ \A r \in Runs : db.runs[r] # NULL => db.sessions[db.runs[r].session] # NULL
  BY <1>2, ViewUpdates DEF TablesAgree
<1>4. k.session \in Sessions
  BY <1>2 DEF CallOK
<1>5. CASE InsertSession(c)
  <2>1. PICK t \in Times : view' = [view EXCEPT !.sessions[k.session] = Store!NewSession(t)]
    BY <1>5 DEF InsertSession
  <2>2. /\ k.op \in {"create_session", "fork_session"} /\ db.sessions[k.session] = NULL
        /\ pc' = [pc EXCEPT ![c] = IF k.op = "fork_session" THEN "history" ELSE "commit"]
    BY <1>2, <1>5 DEF InsertSession, HasSession, Goto
  <2>3. Store!NewSession(t) \in Store!SessionRow /\ Store!NewSession(t) # NULL
    BY <1>4, RowFacts
  <2>4. view' = [sessions |-> [db.sessions EXCEPT ![k.session] = Store!NewSession(t)],
                 runs |-> db.runs, rows |-> db.rows]
    BY <1>2, <1>3, <1>4, <2>1, <2>3, ViewUpdates
  <2>5. /\ view'.sessions = [db.sessions EXCEPT ![k.session] = Store!NewSession(t)]
        /\ view'.runs = db.runs /\ view'.rows = db.rows
    BY <2>4
  <2>6. view' \in Tables
    BY <1>3, <1>4, <2>3, <2>4 DEF Tables
  <2>7. TablesAgree(view')
    <3>1. \A s \in Sessions : db.sessions[s] # NULL => view'.sessions[s] # NULL
      BY <1>3, <1>4, <2>3, <2>5
    <3>2. \A r \in Runs : view'.runs[r] # NULL => view'.runs[r].session \in Sessions
      BY <1>3, <2>5 DEF Store!RunRow
    <3>3. \A r \in Runs : view'.runs[r] # NULL => view'.sessions[view'.runs[r].session] # NULL
      BY <1>3, <2>5, <3>1, <3>2
    <3> QED
      BY <1>2, <2>5, <2>6, <3>1, <3>3, RecordsKeepTables
  <2>8. snapshot[c] = NULL
    BY <1>2, <2>2
  <2>9. ViewAgrees(c)'
    <3>1. Inserted(k)'
      BY <1>1, <2>5 DEF Inserted
    <3>2. CASE k.op = "create_session"
      <4>1. pc'[c] = "commit"
        BY <1>2, <2>2, <3>2
      <4> QED
        BY <1>1, <2>2, <2>5, <3>1, <3>2, <4>1 DEF ViewAgrees, CommitReady
    <3>3. CASE k.op = "fork_session"
      <4>1. pc'[c] = "history" /\ Forkable(k)'
        BY <1>1, <1>2, <2>2, <3>3 DEF WriteReady, Forkable
      <4> QED
        BY <1>1, <2>5, <3>1, <3>3, <4>1 DEF ViewAgrees, HistoryReady
    <3> QED
      BY <2>2, <3>2, <3>3
  <2> QED
    BY <1>1, <1>2, <2>2, <2>7, <2>8, <2>9, StatementKeeps
<1>6. CASE InsertRun(c)
  <2>1. PICK t \in Times : view' = [view EXCEPT !.runs[k.run] = Store!NewRun(k.session, t)]
    BY <1>6 DEF InsertRun
  <2>2. /\ k.op = "start_run" /\ db.runs[k.run] = NULL /\ k.run \in Runs
        /\ pc' = [pc EXCEPT ![c] = "commit"]
    BY <1>2, <1>6 DEF InsertRun, Goto, CallOK
  <2>3. /\ Store!NewRun(k.session, t) \in Store!RunRow /\ Store!NewRun(k.session, t) # NULL
        /\ Store!NewRun(k.session, t).session = k.session
    BY <1>4, RowFacts
  <2>4. view' = [sessions |-> db.sessions,
                 runs |-> [db.runs EXCEPT ![k.run] = Store!NewRun(k.session, t)], rows |-> db.rows]
    BY <1>2, <1>3, <2>1, <2>2, <2>3, ViewUpdates
  <2>5. /\ view'.runs = [db.runs EXCEPT ![k.run] = Store!NewRun(k.session, t)]
        /\ view'.sessions = db.sessions /\ view'.rows = db.rows
    BY <2>4
  <2>6. view' \in Tables
    BY <1>3, <2>2, <2>3, <2>4 DEF Tables
  <2>7. Startable(k) /\ snapshot[c] = HistoryIn(db, k.session)
    BY <1>2, <2>2 DEF WriteReady
  <2>8. TablesAgree(view')
    <3>1. ASSUME NEW r \in Runs, view'.runs[r] # NULL
          PROVE  view'.sessions[view'.runs[r].session] # NULL
      <4>1. CASE r = k.run
        BY <1>3, <2>3, <2>5, <2>7, <4>1 DEF Startable
      <4>2. CASE r # k.run
        BY <1>3, <2>5, <3>1, <4>2
      <4> QED
        BY <4>1, <4>2
    <3>2. \A s \in Sessions : db.sessions[s] # NULL => view'.sessions[s] # NULL
      BY <2>5
    <3>3. TablesAgree(db)
      BY <1>2
    <3> QED
      BY <2>5, <2>6, <3>1, <3>2, <3>3, RecordsKeepTables
  <2>9. ViewAgrees(c)'
    <3>1. pc'[c] = "commit" /\ Started(k)' /\ Startable(k)' /\ snapshot'[c] = HistoryIn(db', k.session)
      BY <1>1, <1>2, <2>2, <2>5, <2>7 DEF Started, Startable
    <3> QED
      BY <1>1, <2>2, <2>5, <3>1 DEF ViewAgrees, CommitReady
  <2> QED
    BY <1>1, <1>2, <2>2, <2>8, <2>9, StatementKeeps
<1>7. CASE FinalizeActiveRun(c)
  <2>1. PICK t \in Times :
          view' = [view EXCEPT !.runs[k.run] = Store!TerminalRun(@, k.outcome, t)]
    BY <1>7 DEF FinalizeActiveRun
  <2>2. /\ k.op \in {"finish_run", "abort_active_run"}
        /\ pc' = [pc EXCEPT ![c] = IF k.op = "finish_run" THEN "history" ELSE "touch"]
    BY <1>7 DEF FinalizeActiveRun, Goto
  <2>3. /\ Endable(k) /\ k.run \in Runs /\ k.outcome \in Outcomes
        /\ db.runs[k.run] \in Store!RunRow /\ db.runs[k.run] # NULL /\ db.runs[k.run].session = k.session
    <3>1. Endable(k)
      BY <1>2, <2>2 DEF WriteReady
    <3>2. k.outcome \in Outcomes
      BY <1>2, <2>2, <3>1, SQLiteAssumption DEF CallOK, Endable
    <3> QED
      BY <1>3, <3>1, <3>2 DEF Endable, ActiveRow
  <2> DEFINE row == Store!TerminalRun(db.runs[k.run], k.outcome, t)
  <2>4. /\ row \in Store!RunRow /\ row # NULL /\ row.session = k.session
    BY <2>3, TerminalFacts
  <2>5. view' = [view EXCEPT !.runs[k.run] = row]
    BY <1>2, <2>1
  <2> HIDE DEF row
  <2>6. view' = [sessions |-> db.sessions,
                 runs |-> [db.runs EXCEPT ![k.run] = row], rows |-> db.rows]
    BY <1>2, <1>3, <2>3, <2>4, <2>5, ViewUpdates
  <2>7. /\ view'.runs = [db.runs EXCEPT ![k.run] = row]
        /\ view'.sessions = db.sessions /\ view'.rows = db.rows
    BY <2>6
  <2>8. view' \in Tables
    BY <1>3, <2>3, <2>4, <2>6 DEF Tables
  <2>9. TablesAgree(view')
    <3>1. ASSUME NEW r \in Runs, view'.runs[r] # NULL
          PROVE  view'.sessions[view'.runs[r].session] # NULL
      <4>1. CASE r = k.run
        BY <1>3, <2>3, <2>4, <2>7, <4>1
      <4>2. CASE r # k.run
        BY <1>3, <2>7, <3>1, <4>2
      <4> QED
        BY <4>1, <4>2
    <3>2. \A s \in Sessions : db.sessions[s] # NULL => view'.sessions[s] # NULL
      BY <2>7
    <3>3. TablesAgree(db)
      BY <1>2
    <3> QED
      BY <2>7, <2>8, <3>1, <3>2, <3>3, RecordsKeepTables
  <2>10. ViewAgrees(c)'
    <3>1. Ended(k)' /\ Endable(k)'
      BY <1>1, <2>3, <2>7 DEF Ended, Endable, row
    <3>2. pc'[c] = IF k.op = "finish_run" THEN "history" ELSE "touch"
      BY <1>2, <2>2
    <3> QED
      BY <1>1, <2>2, <2>7, <3>1, <3>2 DEF ViewAgrees, HistoryReady, TouchReady
  <2>11. snapshot[c] = NULL
    BY <1>2, <2>2
  <2> QED
    BY <1>1, <1>2, <2>2, <2>9, <2>10, <2>11, StatementKeeps
<1> QED
  BY <1>1, <1>5, <1>6, <1>7

\* An append starts where the positions end.
LEMMA NextPositionFacts ==
    ASSUME NEW s, NEW n \in Nat, Numbered(RowsIn(view, s), n)
    PROVE  NextPosition(s) = n
<1> DEFINE used == {x.position : x \in {y \in view.rows : y.session = s}}
<1>1. used = 0 .. n - 1
  <2>1. \A p \in used : p \in 0 .. n - 1
    BY DEF RowsIn, Numbered
  <2>2. \A p \in 0 .. n - 1 : p \in used
    BY DEF RowsIn, Numbered
  <2> QED
    BY <2>1, <2>2
<1>2. NextPosition(s) = IF used = {} THEN 0 ELSE 1 + CHOOSE p \in used : \A q \in used : q <= p
  BY DEF NextPosition
<1> HIDE DEF used
<1>3. CASE n = 0
  BY <1>1, <1>2, <1>3
<1>4. CASE n # 0
  <2>1. n - 1 \in used /\ \A q \in used : q <= n - 1
    BY <1>1, <1>4
  <2>2. \A p \in used : (\A q \in used : q <= p) <=> p = n - 1
    BY <1>1, <2>1
  <2>3. (CHOOSE p \in used : \A q \in used : q <= p) = n - 1
    BY <2>1, <2>2
  <2>4. NextPosition(s) = 1 + (n - 1)
    BY <1>2, <2>1, <2>3
  <2> QED
    BY <2>4
<1> QED
  BY <1>3, <1>4

LEMMA RowsUpdate ==
    ASSUME view \in Tables, NEW rows
    PROVE  [view EXCEPT !.rows = @ \cup rows]
             = [sessions |-> view.sessions, runs |-> view.runs, rows |-> view.rows \cup rows]
<1>1. \A S : [view EXCEPT !.rows = S] = [sessions |-> view.sessions, runs |-> view.runs, rows |-> S]
  BY DEF Tables
<1> QED
  BY <1>1

\* Rows of an existing session, numbered on or copied, leave all sessions dense.
LEMMA RowsKeepTables ==
    ASSUME NEW tables, TablesAgree(tables), NEW after, NEW s \in Sessions,
           after.sessions = tables.sessions, after.runs = tables.runs,
           after = [sessions |-> after.sessions, runs |-> after.runs, rows |-> after.rows],
           after.rows \subseteq Row, tables.sessions[s] # NULL,
           NEW m \in Nat, Numbered(RowsIn(after, s), m),
           \A u \in Sessions \ {s} : RowsIn(after, u) = RowsIn(tables, u)
    PROVE  TablesAgree(after)
<1>1. after \in Tables
  BY DEF TablesAgree, Tables
<1>2. Dense(after)
  <2>1. ASSUME NEW u \in Sessions PROVE \E n \in Nat : Numbered(RowsIn(after, u), n)
    BY DEF TablesAgree, Dense
  <2> QED
    BY <2>1 DEF Dense
<1>3. ASSUME NEW x \in after.rows PROVE after.sessions[x.session] # NULL
  <2>1. x.session \in Sessions
    BY DEF Row
  <2>2. CASE x.session = s
    BY <2>2
  <2>3. CASE x.session # s
    <3>1. x \in RowsIn(tables, x.session)
      BY <2>1, <2>3 DEF RowsIn
    <3> QED
      BY <3>1 DEF RowsIn, TablesAgree
  <2> QED
    BY <2>2, <2>3
<1> QED
  BY <1>1, <1>2, <1>3 DEF TablesAgree

LEMMA HistoryKeeps ==
    ASSUME SQLiteInv, NEW c \in Conns, History(c)
    PROVE  SQLiteInv'
<1> DEFINE k == call[c]
<1>1. /\ pc[c] = "history" /\ db' = db /\ writer' = writer /\ call' = call /\ snapshot' = snapshot
      /\ InsertHistoryDelta(c) \/ CopyHistoryItems(c)
  BY DEF History
<1>2. /\ writer = c /\ TablesAgree(view) /\ TablesAgree(db) /\ CallOK(k) /\ HistoryReady(k)
      /\ snapshot[c] = NULL
      /\ call = [call EXCEPT ![c] = k] /\ snapshot = [snapshot EXCEPT ![c] = snapshot[c]]
      /\ pc = [d \in Conns |-> pc[d]]
  BY <1>1, WriterFacts DEF ViewAgrees, SQLiteInv
<1>3. /\ view \in Tables /\ view.rows \subseteq Row /\ view.rows = db.rows /\ k.session \in Sessions
      /\ db.runs \in [Runs -> Store!RunRow \cup {NULL}]
      /\ db.sessions \in [Sessions -> Store!SessionRow \cup {NULL}]
  BY <1>2 DEF TablesAgree, Tables, HistoryReady, CallOK
<1>4. \A u : RowsIn(view, u) = RowsIn(db, u)
  BY <1>3 DEF RowsIn
<1>5. CASE InsertHistoryDelta(c)
  <2>1. k.op = "finish_run" /\ Endable(k) /\ Ended(k) /\ view.sessions = db.sessions
    BY <1>2, <1>5 DEF InsertHistoryDelta, HistoryReady
  <2>2. k.run \in Runs /\ k.delta \in Seq(Items)
    BY <1>2, <2>1, SQLiteAssumption DEF CallOK
  <2>3. PICK n \in Nat : Numbered(RowsIn(view, k.session), n)
    BY <1>2, <1>3 DEF TablesAgree, Dense
  <2>4. NextPosition(k.session) = n
    BY <2>3, NextPositionFacts
  <2> DEFINE rows == DeltaRows(k.session, n, k.run, k.delta)
  <2>5. /\ view' = [view EXCEPT !.rows = @ \cup rows] /\ pc' = [pc EXCEPT ![c] = "touch"]
    BY <1>5, <2>4 DEF InsertHistoryDelta, Insert, Goto, FinishRows
  <2> HIDE DEF rows
  <2>6. view' = [sessions |-> view.sessions, runs |-> view.runs, rows |-> view.rows \cup rows]
    BY <1>3, <2>5, RowsUpdate
  <2>7. view'.sessions = view.sessions /\ view'.runs = view.runs /\ view'.rows = view.rows \cup rows
    BY <2>6
  <2>8. /\ view'.rows \subseteq Row
        /\ Numbered(RowsIn(view', k.session), n + Len(k.delta))
        /\ \A u \in Sessions \ {k.session} : RowsIn(view', u) = RowsIn(view, u)
    <3>1. view'.rows = view.rows \cup DeltaRows(k.session, n, k.run, k.delta)
      BY <2>7 DEF rows
    <3> HIDE DEF k
    <3>2. \A d \in Seq(Items) :
            view'.rows = view.rows \cup DeltaRows(k.session, n, k.run, d)
              => view'.rows \subseteq Row /\ Numbered(RowsIn(view', k.session), n + Len(d))
      BY <1>3, <2>2, <2>3, InsertedDelta, ZenonT(60)
    <3>3. \A x \in DeltaRows(k.session, n, k.run, k.delta) : x.session = k.session
      BY DEF DeltaRows
    <3>4. \A u \in Sessions \ {k.session} : RowsIn(view', u) = RowsIn(view, u)
      BY <3>1, <3>3 DEF RowsIn
    <3> QED
      BY <2>2, <3>1, <3>2, <3>4
  <2>9. n + Len(k.delta) \in Nat
    BY <2>2
  <2>10. view.sessions[k.session] # NULL
    <3>1. db.runs[k.run] # NULL /\ db.runs[k.run].session = k.session
      BY <2>1 DEF Endable, ActiveRow
    <3> QED
      BY <1>2, <2>1, <2>2, <3>1 DEF TablesAgree
  <2>11. TablesAgree(view')
    BY <1>2, <1>3, <2>6, <2>7, <2>8, <2>9, <2>10, RowsKeepTables
  <2>12. ViewAgrees(c)'
    <3>1. Appended(k)'
      BY <1>1, <1>3, <1>4, <2>3, <2>7 DEF Appended, rows
    <3>2. Endable(k)' /\ Ended(k)' /\ pc'[c] = "touch"
      BY <1>1, <1>2, <2>1, <2>5, <2>7 DEF Endable, Ended
    <3> QED
      BY <1>1, <2>1, <2>7, <3>1, <3>2 DEF ViewAgrees, TouchReady
  <2> QED
    BY <1>1, <1>2, <2>5, <2>11, <2>12, StatementKeeps
<1>6. CASE CopyHistoryItems(c)
  <2>1. k.op = "fork_session" /\ Forkable(k) /\ Inserted(k) /\ view.runs = db.runs
    BY <1>2, <1>6 DEF CopyHistoryItems, HistoryReady
  <2>2. k.source \in Sessions /\ k.source # k.session
    BY <1>2, <2>1 DEF CallOK, Forkable
  <2>3. PICK n \in Nat : Numbered(RowsIn(view, k.source), n)
    BY <1>2, <2>2 DEF TablesAgree, Dense
  <2>4. RowsIn(view, k.session) = {}
    <3>1. db.sessions[k.session] = NULL
      BY <2>1 DEF Forkable
    <3> QED
      BY <1>2, <1>3, <1>4, <3>1, NoRowsBeforeSession
  <2> DEFINE rows == CopiedRows(view, k.source, k.session)
  <2>5. /\ view' = [view EXCEPT !.rows = @ \cup rows] /\ pc' = [pc EXCEPT ![c] = "commit"]
    BY <1>6 DEF CopyHistoryItems, ForkRows, Insert, Goto, CopiedRows, RowsIn
  <2> HIDE DEF rows
  <2>6. view' = [sessions |-> view.sessions, runs |-> view.runs, rows |-> view.rows \cup rows]
    BY <1>3, <2>5, RowsUpdate
  <2>7. view'.sessions = view.sessions /\ view'.runs = view.runs /\ view'.rows = view.rows \cup rows
    BY <2>6
  <2>8. /\ view'.rows \subseteq Row
        /\ Numbered(RowsIn(view', k.session), n)
        /\ \A u \in Sessions \ {k.session} : RowsIn(view', u) = RowsIn(view, u)
    BY <1>3, <2>2, <2>3, <2>4, <2>7, CopiedHistory DEF rows
  <2>9. view.sessions[k.session] # NULL
    BY <1>3, <2>1, RowFacts DEF Inserted
  <2>10. TablesAgree(view')
    BY <1>2, <1>3, <2>3, <2>6, <2>7, <2>8, <2>9, RowsKeepTables
  <2>11. ViewAgrees(c)'
    <3>1. rows = CopiedRows(db, k.source, k.session)
      BY <1>4 DEF rows, CopiedRows
    <3>2. Copied(k)' /\ Forkable(k)' /\ Inserted(k)' /\ pc'[c] = "commit"
      BY <1>1, <1>2, <1>3, <2>1, <2>5, <2>7, <3>1 DEF Copied, Forkable, Inserted
    <3> QED
      BY <1>1, <2>1, <2>7, <3>2 DEF ViewAgrees, CommitReady
  <2> QED
    BY <1>1, <1>2, <2>5, <2>10, <2>11, StatementKeeps
<1> QED
  BY <1>1, <1>5, <1>6

LEMMA TouchKeeps ==
    ASSUME SQLiteInv, NEW c \in Conns, TouchSession(c)
    PROVE  SQLiteInv'
<1> DEFINE k == call[c]
<1>1. /\ pc[c] = "touch" /\ db' = db /\ writer' = writer /\ call' = call /\ snapshot' = snapshot
      /\ pc' = [pc EXCEPT ![c] = "commit"]
      /\ view' = [view EXCEPT !.sessions[k.session] =
                    Store!Touched(@, view.runs[k.run].ended)]
  BY DEF TouchSession, Goto
<1>2. /\ writer = c /\ TablesAgree(view) /\ TablesAgree(db) /\ CallOK(k) /\ TouchReady(k)
      /\ snapshot[c] = NULL
      /\ call = [call EXCEPT ![c] = k] /\ snapshot = [snapshot EXCEPT ![c] = snapshot[c]]
      /\ pc = [d \in Conns |-> pc[d]]
  BY <1>1, WriterFacts DEF ViewAgrees, SQLiteInv
<1>3. /\ view.sessions = db.sessions /\ Endable(k) /\ Ended(k)
      /\ k.op \in {"finish_run", "abort_active_run"}
  BY <1>2 DEF TouchReady
<1>4. /\ k.session \in Sessions /\ k.run \in Runs /\ k.outcome \in Outcomes
      /\ db.runs \in [Runs -> Store!RunRow \cup {NULL}]
      /\ view.runs \in [Runs -> Store!RunRow \cup {NULL}]
      /\ view.sessions \in [Sessions -> Store!SessionRow \cup {NULL}]
      /\ view.rows \subseteq Row /\ view \in Tables
  BY <1>2, <1>3, SQLiteAssumption DEF CallOK, Endable, TablesAgree, Tables
<1>5. db.runs[k.run] \in Store!RunRow /\ db.runs[k.run] # NULL /\ db.runs[k.run].session = k.session
  BY <1>3, <1>4 DEF Endable, ActiveRow
<1>6. view.runs[k.run].ended \in Times
  <2>1. PICK t \in Times : view.runs =
          [db.runs EXCEPT ![k.run] = Store!TerminalRun(db.runs[k.run], k.outcome, t)]
    BY <1>3 DEF Ended
  <2>2. view.runs[k.run] = Store!TerminalRun(db.runs[k.run], k.outcome, t)
    BY <1>4, <2>1
  <2> QED
    BY <1>4, <1>5, <2>2, TerminalFacts
<1>7. view.sessions[k.session] \in Store!SessionRow
  BY <1>2, <1>3, <1>4, <1>5 DEF TablesAgree
<1> DEFINE row == Store!Touched(view.sessions[k.session], view.runs[k.run].ended)
<1>8. row \in Store!SessionRow /\ row # NULL
  BY <1>6, <1>7, TouchedFacts
<1>9. view' = [view EXCEPT !.sessions[k.session] = row]
  BY <1>1
<1> HIDE DEF row
<1>10. view' = [sessions |-> [view.sessions EXCEPT ![k.session] = row],
                runs |-> view.runs, rows |-> view.rows]
  BY <1>4, <1>8, <1>9, ViewUpdates
<1>11. /\ view'.sessions = [view.sessions EXCEPT ![k.session] = row]
       /\ view'.runs = view.runs /\ view'.rows = view.rows
  BY <1>10
<1>12. view' \in Tables
  BY <1>4, <1>8, <1>10 DEF Tables
<1>13. TablesAgree(view')
  <2>1. \A s \in Sessions : view.sessions[s] # NULL => view'.sessions[s] # NULL
    BY <1>4, <1>8, <1>11
  <2>2. \A r \in Runs : view'.runs[r] # NULL => view'.runs[r].session \in Sessions
    BY <1>4, <1>11 DEF Store!RunRow
  <2>3. \A r \in Runs : view'.runs[r] # NULL => view'.sessions[view'.runs[r].session] # NULL
    BY <1>2, <1>11, <2>1, <2>2 DEF TablesAgree
  <2> QED
    BY <1>2, <1>11, <1>12, <2>1, <2>3, RecordsKeepTables
<1>14. ViewAgrees(c)'
  <2>1. Endable(k)' /\ Ended(k)' /\ pc'[c] = "commit" /\ TouchedLast(k)'
    BY <1>1, <1>2, <1>3, <1>11, ZenonT(60) DEF Endable, Ended, TouchedLast, row
  <2>2. CASE k.op = "finish_run" /\ Appended(k)
    <3>1. Appended(k)'
      BY <1>1, <1>11, <2>2 DEF Appended
    <3> QED
      BY <1>1, <2>1, <2>2, <3>1 DEF ViewAgrees, CommitReady
  <2>3. CASE k.op = "abort_active_run" /\ view.rows = db.rows
    BY <1>1, <1>11, <2>1, <2>3 DEF ViewAgrees, CommitReady
  <2> QED
    BY <1>2, <2>2, <2>3 DEF TouchReady
<1> QED
  BY <1>1, <1>2, <1>13, <1>14, StatementKeeps

LEMMA SQLiteInvNext == SQLiteInv /\ [Next]_vars => SQLiteInv'
<1> SUFFICES ASSUME SQLiteInv, [Next]_vars PROVE SQLiteInv'
  OBVIOUS
<1>1. CASE UNCHANGED vars
  <2>1. /\ db' = db /\ writer' = writer /\ view' = view /\ pc' = pc
        /\ call' = call /\ snapshot' = snapshot
    BY <1>1 DEF vars
  <2>2. \A c \in Conns : ConnAgrees(c)'
    BY <2>1 DEF SQLiteInv, ConnAgrees
  <2>3. ASSUME writer # NULL PROVE ViewAgrees(writer)'
    <3>1. /\ writer' = writer /\ db' = db /\ view' = view /\ ViewAgrees(writer)
          /\ pc'[writer'] = pc[writer] /\ call'[writer'] = call[writer]
          /\ snapshot'[writer'] = snapshot[writer]
      BY <2>1, <2>3 DEF SQLiteInv
    <3> QED
      BY <3>1 DEF ViewAgrees, WriteReady, HistoryReady, TouchReady, CommitReady,
                  Startable, Endable, Forkable, Inserted, Started, Ended, Appended, Copied,
                  TouchedLast
  <2> QED
    BY <2>1, <2>2, <2>3 DEF SQLiteInv
<1> QED
  BY <1>1, InvokeKeeps, BeginKeeps, EndKeeps, CheckKeeps, WriteKeeps, HistoryKeeps, TouchKeeps
     DEF Next, Step
-----------------------------------------------------------------------------
\* The inductive invariant, in every behaviour of any number of connections.
THEOREM SQLiteInvariant == Spec => []SQLiteInv
BY SQLiteInvInit, SQLiteInvNext, PTL DEF Spec

\* No session's history has a gap or a repeat, whoever appended and forked it.
THEOREM SQLitePositionsDense == Spec => []PositionsDense
<1>1. ASSUME SQLiteInv PROVE PositionsDense
  <2>1. ASSUME NEW s \in Sessions
        PROVE  LET rows == {x \in db.rows : x.session = s}
               IN  {x.position : x \in rows} = 0 .. Cardinality(rows) - 1
    <3>1. PICK n \in Nat : Numbered(RowsIn(db, s), n)
      BY <1>1 DEF SQLiteInv, TablesAgree, Dense
    <3>2. Cardinality(RowsIn(db, s)) = n
      BY <3>1, NumberedCount
    <3>3. {x.position : x \in RowsIn(db, s)} = 0 .. n - 1
      BY <3>1 DEF Numbered
    <3> QED
      BY <3>2, <3>3 DEF RowsIn
  <2> QED
    BY <2>1 DEF PositionsDense
<1> QED
  BY <1>1, SQLiteInvariant, PTL

\* start_run, finish_run and fork_session reach their INSERTs with nothing for an
\* index to refuse.
THEOREM SQLiteIndexesStayIdle == Spec => []IndexesStayIdle
<1>1. ASSUME SQLiteInv PROVE IndexesStayIdle
  <2>1. ASSUME NEW c \in Conns, pc[c] = "write", call[c].op = "start_run"
        PROVE  ActiveRuns(call[c].session) = {}
    <3>1. WriteReady(c, call[c])
      BY <1>1, <2>1, WriterFacts DEF ViewAgrees
    <3> QED
      BY <2>1, <3>1 DEF WriteReady, Startable, ActiveRow, ActiveRuns, Active
  <2>2. ASSUME NEW c \in Conns, pc[c] = "history", call[c].op = "finish_run"
        PROVE  Unused(FinishRows(call[c]))
    <3> DEFINE k == call[c]
    <3>1. TablesAgree(view) /\ CallOK(k)
      BY <1>1, <2>2, WriterFacts
    <3>2. k.session \in Sessions /\ k.delta \in Seq(Items)
      BY <2>2, <3>1, SQLiteAssumption DEF CallOK
    <3>3. PICK n \in Nat : Numbered(RowsIn(view, k.session), n)
      BY <3>1, <3>2 DEF TablesAgree, Dense
    <3>4. FinishRows(k) = DeltaRows(k.session, n, k.run, k.delta)
      BY <3>3, NextPositionFacts DEF FinishRows
    <3>5. ASSUME NEW x \in FinishRows(k), NEW y \in view.rows, x.session = y.session
          PROVE  x.position # y.position
      <4>1. PICK i \in DOMAIN k.delta : x.session = k.session /\ x.position = n + i - 1
        BY <3>4 DEF DeltaRows
      <4>2. i \in 1 .. Len(k.delta)
        BY <3>2
      <4>3. y.position \in 0 .. n - 1
        BY <3>3, <3>5, <4>1 DEF RowsIn, Numbered
      <4> QED
        BY <4>1, <4>2, <4>3
    <3> QED
      BY <3>5 DEF Unused
  <2>3. ASSUME NEW c \in Conns, pc[c] = "history", call[c].op = "fork_session"
        PROVE  Unused(ForkRows(call[c]))
    <3>1. HistoryReady(call[c]) /\ TablesAgree(db) /\ TablesAgree(view) /\ CallOK(call[c])
      BY <1>1, <2>3, WriterFacts DEF ViewAgrees
    <3>2. view.rows = db.rows /\ db.sessions[call[c].session] = NULL
      BY <2>3, <3>1 DEF HistoryReady, Forkable
    <3>3. \A y \in view.rows : y.session # call[c].session
      BY <3>1, <3>2 DEF TablesAgree
    <3>4. \A x \in ForkRows(call[c]) : x.session = call[c].session
      BY <3>1 DEF ForkRows, TablesAgree, Tables, Row
    <3> QED
      BY <3>3, <3>4 DEF Unused
  <2> QED
    BY <2>1, <2>2, <2>3 DEF IndexesStayIdle
<1> QED
  BY <1>1, SQLiteInvariant, PTL
-----------------------------------------------------------------------------
(* What a commit publishes is one operation of the abstract store.         *)

\* Only a commit of the writer changes the tables, all at once.
LEMMA OnlyCommitsPublish ==
    ASSUME SQLiteInv, [Next]_vars, db' # db
    PROVE  /\ writer \in Conns /\ db' = view /\ pc[writer] = "commit"
           /\ CommitReady(writer, call[writer]) /\ CallOK(call[writer]) /\ TablesAgree(view)
<1>1. PICK c \in Conns : Commit(c)
  BY DEF Next, Step, vars, Invoke, Begin, Busy, Check, Write, History, TouchSession, Rollback
<1>2. pc[c] = "commit" /\ db' = view
  BY <1>1 DEF Commit
<1>3. writer = c /\ ViewAgrees(c) /\ CallOK(call[c]) /\ TablesAgree(view)
  BY <1>2, WriterFacts
<1> QED
  BY <1>2, <1>3 DEF ViewAgrees

\* The history that start_run returns is committed history at the moment its
\* run is published.
THEOREM SQLiteStartSnapshotIsAtomic == Spec => StartSnapshotIsAtomic
<1> DEFINE Atomic == \A c \in Conns :
             snapshot[c] # NULL /\ db' # db /\ writer = c
               => snapshot[c] = HistoryIn(db', call[c].session)
<1>1. ASSUME SQLiteInv, [Next]_vars PROVE Atomic
  <2>1. ASSUME NEW c \in Conns, snapshot[c] # NULL, db' # db, writer = c
        PROVE  snapshot[c] = HistoryIn(db', call[c].session)
    <3>1. db' = view /\ pc[c] = "commit" /\ CommitReady(c, call[c])
      BY <1>1, <2>1, OnlyCommitsPublish
    <3>2. call[c].op = "start_run"
      BY <1>1, <2>1, <3>1, WriterFacts
    <3>3. view.rows = db.rows /\ snapshot[c] = HistoryIn(db, call[c].session)
      BY <3>1, <3>2 DEF CommitReady
    <3>4. RowsIn(db', call[c].session) = RowsIn(db, call[c].session)
      BY <3>1, <3>3 DEF RowsIn
    <3> QED
      BY <3>3, <3>4, SameRowsSameHistory
  <2> QED
    BY <2>1
<1>2. SQLiteInv /\ [Next]_vars => [Atomic]_vars
  BY <1>1
<1> QED
  BY <1>2, SQLiteInvariant, PTL DEF Spec, StartSnapshotIsAtomic

Histories == [s \in Sessions |-> HistoryIn(db, s)]

\* A commit that leaves the rows alone leaves every history alone.
LEMMA SameHistories ==
    ASSUME db'.rows = db.rows
    PROVE  Histories' = Histories
<1>1. \A s : RowsIn(db', s) = RowsIn(db, s)
  BY DEF RowsIn
<1>2. \A s : HistoryIn(db', s) = HistoryIn(db, s)
  BY <1>1, SameRowsSameHistory
<1> QED
  BY <1>2 DEF Histories

\* The end of a run, in the tables, is the end of a run in the abstract store.
LEMMA EndedMapsToEndRun ==
    ASSUME TablesAgree(db), NEW k, Endable(k), Ended(k), TouchedLast(k), db' = view,
           k.outcome \in Outcomes
    PROVE  /\ k.run \in Runs /\ Store!ActiveIn(k.run, k.session)
           /\ \E t \in Times : Store!EndRun(k.session, k.run, k.outcome, t)
<1>1. db.runs \in [Runs -> Store!RunRow \cup {NULL}] /\ k.run \in Runs
  BY DEF TablesAgree, Tables, Endable
<1>2. PICK t \in Times : view.runs =
        [db.runs EXCEPT ![k.run] = Store!TerminalRun(db.runs[k.run], k.outcome, t)]
  BY DEF Ended
<1>3. view.runs[k.run] = Store!TerminalRun(db.runs[k.run], k.outcome, t)
  BY <1>1, <1>2
<1>4. Store!EndRun(k.session, k.run, k.outcome, t)
  BY <1>2, <1>3 DEF Store!EndRun, TouchedLast
<1>5. Store!ActiveIn(k.run, k.session)
  BY DEF Endable, ActiveRow, Store!ActiveIn, Store!IsActive
<1> QED
  BY <1>1, <1>4, <1>5

LEMMA CommitMapsToStore ==
    ASSUME SQLiteInv, [Next]_vars, db' # db
    PROVE  Store!StoreNext
<1> DEFINE k == call[writer]
<1>1. /\ db' = view /\ CommitReady(writer, k) /\ CallOK(k)
      /\ TablesAgree(view) /\ TablesAgree(db)
  BY OnlyCommitsPublish DEF SQLiteInv
<1>2. /\ k.session \in Sessions /\ db.rows \subseteq Row
  BY <1>1 DEF CallOK, TablesAgree, Tables
<1> HIDE DEF k
<1>3. CASE /\ k.op = "create_session" /\ db.sessions[k.session] = NULL
           /\ Inserted(k) /\ view.runs = db.runs /\ view.rows = db.rows
  <2>1. PICK t \in Times : view.sessions = [db.sessions EXCEPT ![k.session] = Store!NewSession(t)]
    BY <1>3 DEF Inserted
  <2>2. Histories' = Histories
    BY <1>1, <1>3, SameHistories
  <2>3. Store!CreateSession(k.session, t)
    BY <1>1, <1>3, <2>1, <2>2 DEF Store!CreateSession, Store!Exists, Histories
  <2> QED
    BY <1>2, <2>3 DEF Store!StoreNext
<1>4. CASE /\ k.op = "start_run" /\ Startable(k) /\ db.runs[k.run] = NULL
           /\ Started(k) /\ view.sessions = db.sessions /\ view.rows = db.rows
  <2>1. PICK t \in Times : view.runs = [db.runs EXCEPT ![k.run] = Store!NewRun(k.session, t)]
    BY <1>4 DEF Started
  <2>2. Histories' = Histories
    BY <1>1, <1>4, SameHistories
  <2>3. k.run \in Runs
    BY <1>1, <1>4 DEF CallOK
  <2>4. Store!StartRun(k.session, k.run, t)
    BY <1>1, <1>4, <2>1, <2>2
       DEF Store!StartRun, Store!Exists, Store!ActiveIn, Store!IsActive, Startable, ActiveRow, Histories
  <2> QED
    BY <1>2, <2>3, <2>4 DEF Store!StoreNext
<1>5. CASE k.op = "finish_run" /\ Endable(k) /\ Ended(k) /\ Appended(k) /\ TouchedLast(k)
  <2>1. k.run \in Runs /\ k.outcome \in Outcomes /\ k.delta \in Deltas
    BY <1>1, <1>5 DEF CallOK
  <2>2. PICK n \in Nat : /\ Numbered(RowsIn(db, k.session), n)
                         /\ view.rows = db.rows \cup DeltaRows(k.session, n, k.run, k.delta)
    BY <1>5 DEF Appended
  <2>3. \A d \in Seq(Items) :
          db'.rows = db.rows \cup DeltaRows(k.session, n, k.run, d)
            => /\ HistoryIn(db', k.session) = HistoryIn(db, k.session) \o Store!RowsFor(k.run, d)
               /\ \A u \in Sessions \ {k.session} : HistoryIn(db', u) = HistoryIn(db, u)
    BY <1>2, <2>1, <2>2, InsertedDelta
  <2>4. /\ HistoryIn(db', k.session) = HistoryIn(db, k.session) \o Store!RowsFor(k.run, k.delta)
        /\ \A u \in Sessions \ {k.session} : HistoryIn(db', u) = HistoryIn(db, u)
    BY <1>1, <2>1, <2>2, <2>3, SQLiteAssumption
  <2>5. Store!AppendRows(k.session, k.run, k.delta)
    BY <1>2, <2>4 DEF Store!AppendRows
  <2>6. PICK t \in Times : Store!EndRun(k.session, k.run, k.outcome, t)
    BY <1>1, <1>5, <2>1, EndedMapsToEndRun
  <2>7. Store!FinishRun(k.session, k.run, k.outcome, k.delta, t)
    BY <1>1, <1>5, <2>1, <2>5, <2>6, EndedMapsToEndRun DEF Store!FinishRun
  <2> QED
    BY <1>2, <2>1, <2>7 DEF Store!StoreNext
<1>6. CASE /\ k.op = "abort_active_run" /\ Endable(k) /\ Ended(k) /\ TouchedLast(k)
           /\ view.rows = db.rows
  <2>1. k.outcome = Aborted /\ k.outcome \in Outcomes /\ db.sessions[k.session] # NULL
    BY <1>6, SQLiteAssumption DEF Endable
  <2>2. Histories' = Histories
    BY <1>1, <1>6, SameHistories
  <2>3. PICK t \in Times : Store!EndRun(k.session, k.run, Aborted, t)
    BY <1>1, <1>6, <2>1, EndedMapsToEndRun
  <2>4. k.run \in Runs /\ Store!ActiveIn(k.run, k.session)
    BY <1>1, <1>6, <2>1, EndedMapsToEndRun
  <2>5. Store!AbortRun(k.session, k.run, t)
    BY <2>1, <2>2, <2>3, <2>4 DEF Store!AbortRun, Store!Exists, Histories
  <2> QED
    BY <1>2, <2>4, <2>5 DEF Store!StoreNext
<1>7. CASE k.op = "fork_session" /\ Forkable(k) /\ Inserted(k) /\ view.runs = db.runs /\ Copied(k)
  <2>1. k.source \in Sessions /\ db.sessions[k.source] # NULL /\ db.sessions[k.session] = NULL
    BY <1>1, <1>7 DEF CallOK, Forkable
  <2>2. PICK t \in Times : view.sessions = [db.sessions EXCEPT ![k.session] = Store!NewSession(t)]
    BY <1>7 DEF Inserted
  <2>3. PICK n \in Nat : Numbered(RowsIn(db, k.source), n)
    BY <1>1, <2>1 DEF TablesAgree, Dense
  <2>4. RowsIn(db, k.session) = {}
    BY <1>1, <1>2, <2>1, NoRowsBeforeSession
  <2>5. db'.rows = db.rows \cup CopiedRows(db, k.source, k.session)
    BY <1>1, <1>7 DEF Copied
  <2>6. /\ HistoryIn(db', k.session) = HistoryIn(db, k.source)
        /\ \A u \in Sessions \ {k.session} : HistoryIn(db', u) = HistoryIn(db, u)
    BY <1>2, <2>1, <2>3, <2>4, <2>5, CopiedHistory
  <2>7. Histories' = [Histories EXCEPT ![k.session] = Histories[k.source]]
    BY <1>2, <2>1, <2>6 DEF Histories
  <2>8. Store!ForkSession(k.source, k.session, t)
    BY <1>1, <1>7, <2>1, <2>2, <2>7 DEF Store!ForkSession, Store!Exists, Histories
  <2> QED
    BY <1>2, <2>1, <2>8 DEF Store!StoreNext
<1>8. CASE view = db
  BY <1>1, <1>8
<1> QED
  BY <1>1, <1>3, <1>4, <1>5, <1>6, <1>7, <1>8 DEF CommitReady

\* SQLite's statements, transactions, rollbacks and crashes implement the
\* atomic operations of the store contract.
THEOREM SQLiteImplementsStore == Spec => StoreSpec
<1>1. Init => Store!StoreInit
  <2>1. ASSUME Init PROVE Store!StoreInit
    <3>1. /\ db.rows = {} /\ db.sessions = [s \in Sessions |-> NULL]
          /\ db.runs = [r \in Runs |-> NULL]
      BY <2>1 DEF Init, EmptyDb
    <3>2. ASSUME NEW s \in Sessions PROVE HistoryIn(db, s) = <<>>
      <4>1. Numbered(RowsIn(db, s), 0) /\ db.rows \subseteq Row
        BY <3>1 DEF RowsIn, Numbered
      <4>2. HistoryIn(db, s) \in Seq(Store!HistoryRow) /\ Len(HistoryIn(db, s)) = 0
        BY <4>1, HistoryType
      <4> QED
        BY <4>2
    <3> QED
      BY <3>1, <3>2 DEF Store!StoreInit
  <2> QED
    BY <2>1
<1>2. SQLiteInv /\ [Next]_vars => [Store!StoreNext]_(Store!storeVars)
  <2>1. ASSUME SQLiteInv, [Next]_vars PROVE [Store!StoreNext]_(Store!storeVars)
    <3>1. CASE db' # db
      BY <2>1, <3>1, CommitMapsToStore
    <3>2. CASE db' = db
      <4>1. Histories' = Histories
        BY <3>2, SameHistories
      <4> QED
        BY <3>2, <4>1 DEF Store!storeVars, Histories
    <3> QED
      BY <3>1, <3>2
  <2> QED
    BY <2>1
<1> QED
  BY <1>1, <1>2, SQLiteInvariant, PTL DEF Spec, StoreSpec, Store!StoreSpec
=============================================================================
