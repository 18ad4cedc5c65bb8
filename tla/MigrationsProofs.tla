-------------------------- MODULE MigrationsProofs --------------------------
(***************************************************************************)
(* Proofs about Migrations, for any rows a database may hold and any       *)
(* targets of downgrades.  First what statements and sequences of them do  *)
(* to tables and rows; then what the chain of revisions is, classified by  *)
(* the statements it is made of, and the schema it makes at each revision, *)
(* up and down; then the invariants of the commands and the theorems.      *)
(***************************************************************************)
EXTENDS Migrations, NaturalsInduction, WellFoundedInduction, TLAPS

-----------------------------------------------------------------------------
(* Induction over the positions of a sequence *)

\* Every set of naturals that is not empty has a least element.
LEMMA LeastNumber ==
    ASSUME NEW N, N \subseteq Nat, N # {}
    PROVE  \E m \in N : \A k \in N : m <= k
<1>1. PICK m \in N : \A k \in N : <<k, m>> \notin OpToRel(<, Nat)
  BY WFMin, NatLessThanWellFounded, Zenon
<1>2. ASSUME NEW k \in N PROVE ~(k < m)
  BY <1>1, Zenon DEF OpToRel
<1>3. \A k \in N : k \in Nat /\ m \in Nat /\ ~(k < m) BY <1>2
<1>4. \A k \in N : m <= k BY <1>3
<1>. QED BY <1>4

\* What holds at the start and is handed on holds everywhere.
LEMMA UpTo ==
    ASSUME NEW n \in Nat, NEW Good, 0 \in Good,
           \A i \in 1 .. n : i - 1 \in Good => i \in Good
    PROVE  \A i \in 0 .. n : i \in Good
<1>. DEFINE Bad == {i \in 0 .. n : i \notin Good}
<1>. SUFFICES ASSUME Bad # {} PROVE FALSE OBVIOUS
<1>1. Bad \subseteq Nat OBVIOUS
<1>. HIDE DEF Bad
<1>2. PICK m \in Bad : \A k \in Bad : m <= k BY <1>1, LeastNumber
<1>. USE DEF Bad
<1>3. m \in 1 .. n /\ m - 1 \in 0 .. n BY <1>2
<1>4. m - 1 \notin Bad BY <1>2, <1>3
<1>. QED BY <1>2, <1>3, <1>4

-----------------------------------------------------------------------------
(* Executing statements: Execute is a recursive function over the          *)
(* positions of the statements; a fact about it is a fact about the states *)
(* after each of them.                                                     *)

\* The equations of the recursive function in Execute, for n statements.
IsAfter(f, db0, statements, n) ==
    f = [i \in 0 .. n |-> IF i = 0 THEN [ok |-> TRUE, db |-> db0]
                          ELSE Executed(f[i - 1], statements[i])]

LEMMA AfterAt ==
    ASSUME NEW db0, NEW statements, NEW f, NEW n \in Nat, IsAfter(f, db0, statements, n)
    PROVE  /\ f[0] = [ok |-> TRUE, db |-> db0]
           /\ \A i \in 1 .. n : f[i] = Executed(f[i - 1], statements[i])
<1>1. \A i \in 0 .. n : f[i] = IF i = 0 THEN [ok |-> TRUE, db |-> db0]
                               ELSE Executed(f[i - 1], statements[i])
  BY DEF IsAfter
<1>2. 0 \in 0 .. n /\ \A i \in 1 .. n : i \in 0 .. n /\ i # 0 OBVIOUS
<1>. QED BY <1>1, <1>2

LEMMA AfterExtends ==
    ASSUME NEW db0, NEW statements, NEW n \in Nat, NEW f, IsAfter(f, db0, statements, n)
    PROVE  \E g : IsAfter(g, db0, statements, n + 1)
<1>. DEFINE next == Executed(f[n], statements[n + 1])
            g == [i \in 0 .. n + 1 |-> IF i = n + 1 THEN next ELSE f[i]]
            h == [i \in 0 .. n + 1 |-> IF i = 0 THEN [ok |-> TRUE, db |-> db0]
                                       ELSE Executed(g[i - 1], statements[i])]
<1>1. /\ f[0] = [ok |-> TRUE, db |-> db0]
      /\ \A i \in 1 .. n : f[i] = Executed(f[i - 1], statements[i])
  BY AfterAt
<1>2. ASSUME NEW i \in 0 .. n + 1 PROVE g[i] = h[i]
  <2>1. CASE i = n + 1
    <3>1. i # 0 /\ i - 1 = n /\ n \in 0 .. n + 1 /\ n # n + 1 BY <2>1
    <3>2. g[i - 1] = f[n] BY <3>1
    <3>. QED BY <2>1, <3>1, <3>2
  <2>2. CASE i = 0
    <3>1. g[i] = f[i] BY <2>2
    <3>. QED BY <1>1, <2>2, <3>1
  <2>3. CASE i # n + 1 /\ i # 0
    <3>1. i \in 1 .. n /\ i - 1 \in 0 .. n + 1 /\ i - 1 # n + 1 BY <2>3
    <3>2. g[i] = f[i] /\ g[i - 1] = f[i - 1] BY <3>1, <2>3
    <3>. HIDE DEF g
    <3>. QED BY <1>1, <2>3, <3>1, <3>2
  <2>. QED BY <2>1, <2>2, <2>3
<1>3. g = h
  <2>. DEFINE D == 0 .. n + 1
  <2>1. DOMAIN g = D /\ DOMAIN h = D OBVIOUS
  <2>. QED BY <1>2
<1>4. IsAfter(g, db0, statements, n + 1)
  <2>. HIDE DEF g
  <2>. QED BY <1>3 DEF IsAfter
<1>. QED BY <1>4

LEMMA AfterExists ==
    ASSUME NEW db0, NEW statements, NEW n \in Nat
    PROVE  \E f : IsAfter(f, db0, statements, n)
<1>. DEFINE Good == {m \in Nat : \E f : IsAfter(f, db0, statements, m)}
<1>1. 0 \in Good
  <2>1. IsAfter([i \in 0 .. 0 |-> [ok |-> TRUE, db |-> db0]], db0, statements, 0)
    BY DEF IsAfter
  <2>. QED BY <2>1
<1>2. ASSUME NEW i \in 1 .. n, i - 1 \in Good PROVE i \in Good
  <2>1. i - 1 \in Nat /\ i - 1 + 1 = i /\ i \in Nat OBVIOUS
  <2>2. \E f : IsAfter(f, db0, statements, i - 1 + 1) BY <1>2, <2>1, AfterExtends
  <2>. QED BY <2>1, <2>2
<1>. HIDE DEF Good
<1>3. n \in Good BY <1>1, <1>2, UpTo
<1>. QED BY <1>3 DEF Good

LEMMA ExecuteIs ==
    ASSUME NEW db0, NEW statements, Len(statements) \in Nat
    PROVE  \E f : /\ f[0] = [ok |-> TRUE, db |-> db0]
                  /\ \A i \in 1 .. Len(statements) : f[i] = Executed(f[i - 1], statements[i])
                  /\ Execute(db0, statements) = f[Len(statements)]
<1>1. \E f : f = [i \in 0 .. Len(statements) |-> IF i = 0 THEN [ok |-> TRUE, db |-> db0]
                                                 ELSE Executed(f[i - 1], statements[i])]
  <2>1. \E f : IsAfter(f, db0, statements, Len(statements)) BY AfterExists
  <2>. QED BY <2>1 DEF IsAfter
<1>2. \E f : IsAfter(f, db0, statements, Len(statements))
             /\ Execute(db0, statements) = f[Len(statements)]
  BY <1>1 DEF Execute, IsAfter
<1>. QED BY <1>2, AfterAt

LEMMA TwentyTwo == HeadRevision = 22
BY DEF HeadRevision, Chain

\* The equations of the recursive function in Built, for n revisions.
IsBuilt(f, n) ==
    f = [i \in 0 .. n |-> IF i = 0 THEN <<EmptyDatabase>>
                          ELSE Append(f[i - 1], Execute(f[i - 1][i], Chain[i].up).db)]

LEMMA BuiltAt ==
    ASSUME NEW f, NEW n \in Nat, IsBuilt(f, n)
    PROVE  /\ f[0] = <<EmptyDatabase>>
           /\ \A i \in 1 .. n :
                 f[i] = Append(f[i - 1], Execute(f[i - 1][i], Chain[i].up).db)
<1>1. \A i \in 0 .. n : f[i] = IF i = 0 THEN <<EmptyDatabase>>
                               ELSE Append(f[i - 1], Execute(f[i - 1][i], Chain[i].up).db)
  BY DEF IsBuilt
<1>2. 0 \in 0 .. n /\ \A i \in 1 .. n : i \in 0 .. n /\ i # 0 OBVIOUS
<1>. QED BY <1>1, <1>2

LEMMA BuiltExtends ==
    ASSUME NEW n \in Nat, NEW f, IsBuilt(f, n)
    PROVE  \E g : IsBuilt(g, n + 1)
<1>. DEFINE next == Append(f[n], Execute(f[n][n + 1], Chain[n + 1].up).db)
            g == [i \in 0 .. n + 1 |-> IF i = n + 1 THEN next ELSE f[i]]
            h == [i \in 0 .. n + 1 |-> IF i = 0 THEN <<EmptyDatabase>>
                      ELSE Append(g[i - 1], Execute(g[i - 1][i], Chain[i].up).db)]
<1>1. /\ f[0] = <<EmptyDatabase>>
      /\ \A i \in 1 .. n : f[i] = Append(f[i - 1], Execute(f[i - 1][i], Chain[i].up).db)
  BY BuiltAt
<1>2. ASSUME NEW i \in 0 .. n + 1 PROVE g[i] = h[i]
  <2>1. CASE i = n + 1
    <3>1. i # 0 /\ i - 1 = n /\ n \in 0 .. n + 1 /\ n # n + 1 BY <2>1
    <3>2. g[i - 1] = f[n] BY <3>1
    <3>. QED BY <2>1, <3>1, <3>2
  <2>2. CASE i = 0
    <3>1. g[i] = f[i] BY <2>2
    <3>. QED BY <1>1, <2>2, <3>1
  <2>3. CASE i # n + 1 /\ i # 0
    <3>1. i \in 1 .. n /\ i - 1 \in 0 .. n + 1 /\ i - 1 # n + 1 BY <2>3
    <3>2. g[i] = f[i] /\ g[i - 1] = f[i - 1] BY <3>1, <2>3
    <3>. HIDE DEF g
    <3>. QED BY <1>1, <2>3, <3>1, <3>2
  <2>. QED BY <2>1, <2>2, <2>3
<1>3. g = h
  <2>. DEFINE D == 0 .. n + 1
  <2>1. DOMAIN g = D /\ DOMAIN h = D OBVIOUS
  <2>. QED BY <1>2
<1>4. IsBuilt(g, n + 1)
  <2>. HIDE DEF g
  <2>. QED BY <1>3 DEF IsBuilt
<1>. QED BY <1>4

\* SchemaAt(0) is empty, and each revision runs on what the one before built.
LEMMA BuiltIs ==
    /\ Built[1] = EmptyDatabase
    /\ \A n \in 1 .. HeadRevision : Built[n + 1] = Execute(Built[n], Chain[n].up).db
<1>. DEFINE H == HeadRevision
            Good == {m \in Nat : \E f : IsBuilt(f, m)}
<1>1. H \in Nat BY TwentyTwo
<1>2. 0 \in Good
  <2>1. IsBuilt([i \in 0 .. 0 |-> <<EmptyDatabase>>], 0) BY DEF IsBuilt
  <2>. QED BY <2>1
<1>3. ASSUME NEW i \in 1 .. H, i - 1 \in Good PROVE i \in Good
  <2>1. i - 1 \in Nat /\ i - 1 + 1 = i /\ i \in Nat BY <1>1
  <2>2. \E f : IsBuilt(f, i - 1 + 1) BY <1>3, <2>1, BuiltExtends
  <2>. QED BY <2>1, <2>2
<1>. HIDE DEF Good
<1>4. H \in Good BY <1>1, <1>2, <1>3, UpTo
<1>5. \E f : IsBuilt(f, H) BY <1>4 DEF Good
<1>6. \E f : IsBuilt(f, H) /\ Built = f[H] BY <1>5 DEF Built, IsBuilt
<1>7. PICK f : IsBuilt(f, H) /\ Built = f[H] BY <1>6
<1>8. /\ f[0] = <<EmptyDatabase>>
      /\ \A i \in 1 .. H : f[i] = Append(f[i - 1], Execute(f[i - 1][i], Chain[i].up).db)
  BY <1>1, <1>7, BuiltAt
<1>. HIDE DEF H
\* f[i] has i + 1 databases, the first of them those of f[i - 1].
<1>. DEFINE Ok(i) == /\ \E S : f[i] \in Seq(S)
                     /\ Len(f[i]) = i + 1
                     /\ f[i][1] = EmptyDatabase
                     /\ \A n \in 1 .. i : f[i][n + 1] = Execute(f[i][n], Chain[n].up).db
            Fine == {i \in 0 .. H : Ok(i)}
<1>9. 0 \in Fine
  <2>. DEFINE S == {EmptyDatabase}
  <2>1. /\ <<EmptyDatabase>> \in Seq(S) /\ Len(<<EmptyDatabase>>) = 0 + 1
        /\ <<EmptyDatabase>>[1] = EmptyDatabase
    OBVIOUS
  <2>2. f[0] \in Seq(S) /\ Len(f[0]) = 0 + 1 /\ f[0][1] = EmptyDatabase
    BY <1>8, <2>1
  <2>. HIDE DEF S
  <2>3. \A n \in 1 .. 0 : FALSE OBVIOUS
  <2>4. 0 \in 0 .. H BY <1>1 DEF H
  <2>5. Ok(0) BY <2>2, <2>3
  <2>. QED BY <2>4, <2>5
<1>10. ASSUME NEW i \in 1 .. H, i - 1 \in Fine PROVE i \in Fine
  <2>. DEFINE s == f[i - 1]
              e == Execute(f[i - 1][i], Chain[i].up).db
  <2>1. PICK S : s \in Seq(S) BY <1>10
  <2>2. i \in Nat /\ i - 1 \in Nat /\ i - 1 + 1 = i BY <1>1
  <2>3. /\ Len(s) = i /\ s[1] = EmptyDatabase
        /\ \A n \in 1 .. i - 1 : s[n + 1] = Execute(s[n], Chain[n].up).db
    BY <1>10, <2>2
  <2>4. f[i] = Append(s, e) /\ e = Execute(s[i], Chain[i].up).db BY <1>8
  <2>. HIDE DEF s, e, Ok
  <2>5. s \in Seq(S \cup {e}) BY <2>1
  <2>6. /\ f[i] \in Seq(S \cup {e}) /\ Len(f[i]) = i + 1 /\ f[i][i + 1] = e
        /\ \A n \in 1 .. i : f[i][n] = s[n]
    BY <2>2, <2>3, <2>4, <2>5
  <2>7. ASSUME NEW n \in 1 .. i PROVE f[i][n + 1] = Execute(f[i][n], Chain[n].up).db
    <3>1. CASE n = i BY <2>2, <2>4, <2>6, <3>1
    <3>2. CASE n # i
      <4>1. n \in 1 .. i - 1 /\ n + 1 \in 1 .. i /\ n \in 1 .. i BY <2>2, <3>2
      <4>. QED BY <2>3, <2>6, <4>1
    <3>. QED BY <3>1, <3>2
  <2>8. f[i][1] = EmptyDatabase BY <2>2, <2>3, <2>6
  <2>9. Ok(i) BY <2>6, <2>7, <2>8 DEF Ok
  <2>. QED BY <2>9
<1>. HIDE DEF Fine, Ok
<1>11. H \in Fine BY <1>1, <1>9, <1>10, UpTo
<1>12. Ok(H) BY <1>11 DEF Fine
<1>. QED BY <1>7, <1>12 DEF Ok, H
-----------------------------------------------------------------------------
(* What statements do to the tables, whatever the rows                     *)

\* The statement s, run on tables T, makes tables U of them.
Runs(T, s, U) ==
    IF s.guarded /\ ~Present(T, s) THEN U = T
    ELSE Fits(T, s) /\ U = TablesAfter(T, s)

\* The first m statements of st run, each on what the one before made, and
\* together they make U of T;
LeadsTo(T, st, m, U) ==
    \E p : /\ p[1] = T /\ p[m + 1] = U
           /\ \A i \in 1 .. m : Runs(p[i], st[i], p[i + 1])

\* and so do all of them.
Leads(T, st, U) == LeadsTo(T, st, Len(st), U)

\* A statement makes one thing of the tables,
LEMMA RunsUnique ==
    ASSUME NEW T, NEW s, NEW U, NEW V, Runs(T, s, U), Runs(T, s, V)
    PROVE  U = V
BY DEF Runs

\* and so do several.
LEMMA LeadsUnique ==
    ASSUME NEW T, NEW st, NEW n \in Nat, NEW U, NEW V, LeadsTo(T, st, n, U), LeadsTo(T, st, n, V)
    PROVE  U = V
<1>1. PICK p : /\ p[1] = T /\ p[n + 1] = U
               /\ \A i \in 1 .. n : Runs(p[i], st[i], p[i + 1])
  BY DEF LeadsTo
<1>2. PICK q : /\ q[1] = T /\ q[n + 1] = V
               /\ \A i \in 1 .. n : Runs(q[i], st[i], q[i + 1])
  BY DEF LeadsTo
<1>. DEFINE Good == {i \in 0 .. n : p[i + 1] = q[i + 1]}
<1>3. 0 \in Good BY <1>1, <1>2
<1>4. ASSUME NEW i \in 1 .. n, i - 1 \in Good PROVE i \in Good
  <2>1. i \in 0 .. n /\ i - 1 + 1 = i OBVIOUS
  <2>2. p[i] = q[i] BY <1>4, <2>1
  <2>3. Runs(p[i], st[i], p[i + 1]) /\ Runs(p[i], st[i], q[i + 1])
    BY <1>1, <1>2, <2>2
  <2>4. p[i + 1] = q[i + 1] BY <2>3, RunsUnique
  <2>. QED BY <2>1, <2>4
<1>. HIDE DEF Good
<1>5. n \in Good BY <1>3, <1>4, UpTo
<1>6. p[n + 1] = q[n + 1] BY <1>5 DEF Good
<1>. QED BY <1>1, <1>2, <1>6

\* Statement after statement.
LEMMA LeadsNowhere ==
    ASSUME NEW T, NEW st
    PROVE  LeadsTo(T, st, 0, T)
<1>. DEFINE p == <<T>>
<1>1. p[1] = T /\ 0 + 1 = 1 OBVIOUS
<1>2. \A i \in 1 .. 0 : FALSE OBVIOUS
<1>. HIDE DEF p
<1>. QED BY <1>1, <1>2 DEF LeadsTo

LEMMA LeadsFurther ==
    ASSUME NEW T, NEW st, NEW m \in Nat, NEW V, LeadsTo(T, st, m, V),
           NEW n, n = m + 1, NEW U, Runs(V, st[n], U)
    PROVE  LeadsTo(T, st, n, U)
<1>1. PICK p : /\ p[1] = T /\ p[m + 1] = V
               /\ \A i \in 1 .. m : Runs(p[i], st[i], p[i + 1])
  BY DEF LeadsTo
<1>. DEFINE q == [i \in 1 .. n + 1 |-> IF i = n + 1 THEN U ELSE p[i]]
<1>2. q[1] = T /\ q[n + 1] = U BY <1>1
<1>3. ASSUME NEW i \in 1 .. n PROVE Runs(q[i], st[i], q[i + 1])
  <2>1. CASE i = n
    <3>1. q[i] = p[m + 1] /\ q[i + 1] = U BY <2>1
    <3>. QED BY <1>1, <2>1, <3>1
  <2>2. CASE i # n
    <3>1. i \in 1 .. m BY <2>2
    <3>2. q[i] = p[i] /\ q[i + 1] = p[i + 1] BY <3>1
    <3>. QED BY <1>1, <3>1, <3>2
  <2>. QED BY <2>1, <2>2
<1>. HIDE DEF q
<1>. QED BY <1>2, <1>3 DEF LeadsTo
-----------------------------------------------------------------------------
(* Execute, in terms of Runs                                               *)

\* What a statement that runs on tables T does to the rows.
RowsRun(T, rows, s, new) ==
    IF s.guarded /\ ~Present(T, s) THEN new = rows
    ELSE Allowed(rows, s) /\ new = RowsAfter(rows, s)

LEMMA ExecutedRuns ==
    ASSUME NEW x, NEW s, DOMAIN x = {"ok", "db"}, x.ok \in BOOLEAN,
           NEW y, y = Executed(x, s)
    PROVE  /\ DOMAIN y = {"ok", "db"} /\ y.ok \in BOOLEAN
           /\ y.ok => /\ x.ok
                      /\ Runs(x.db.tables, s, y.db.tables)
                      /\ RowsRun(x.db.tables, x.db.rows, s, y.db.rows)
<1>1. CASE ~x.ok
  <2>1. y = x BY <1>1 DEF Executed
  <2>. QED BY <1>1, <2>1
<1>2. CASE x.ok /\ s.guarded /\ ~Present(x.db.tables, s)
  <2>1. y = x BY <1>2 DEF Executed
  <2>. QED BY <1>2, <2>1 DEF Runs, RowsRun
<1>3. CASE x.ok /\ ~(s.guarded /\ ~Present(x.db.tables, s)) /\ Can(x.db, s)
  <2>1. y = [ok |-> TRUE, db |-> Do(x.db, s)] BY <1>3 DEF Executed
  <2>2. /\ y.ok /\ DOMAIN y = {"ok", "db"}
        /\ y.db.tables = TablesAfter(x.db.tables, s)
        /\ y.db.rows = RowsAfter(x.db.rows, s)
    BY <2>1 DEF Do
  <2>3. y.ok = TRUE BY <2>1
  <2>. QED BY <1>3, <2>2, <2>3 DEF Runs, RowsRun, Can
<1>4. CASE x.ok /\ ~(s.guarded /\ ~Present(x.db.tables, s)) /\ ~Can(x.db, s)
  <2>1. y = [x EXCEPT !.ok = FALSE] BY <1>4 DEF Executed
  <2>2. y.ok = FALSE /\ DOMAIN y = {"ok", "db"} BY <2>1
  <2>. QED BY <2>2
<1>. QED BY <1>1, <1>2, <1>3, <1>4

\* A command that comes to its end has run every statement.
LEMMA ExecuteRuns ==
    ASSUME NEW d, NEW st, Len(st) \in Nat, Execute(d, st).ok
    PROVE  \E T, R : /\ T[1] = d.tables /\ R[1] = d.rows
                     /\ T[Len(st) + 1] = Execute(d, st).db.tables
                     /\ R[Len(st) + 1] = Execute(d, st).db.rows
                     /\ \A i \in 1 .. Len(st) : /\ Runs(T[i], st[i], T[i + 1])
                                                /\ RowsRun(T[i], R[i], st[i], R[i + 1])
<1>. DEFINE n == Len(st)
<1>1. PICK f : /\ f[0] = [ok |-> TRUE, db |-> d]
               /\ \A i \in 1 .. n : f[i] = Executed(f[i - 1], st[i])
               /\ Execute(d, st) = f[n]
  BY ExecuteIs
<1>2. n \in Nat OBVIOUS
<1>. HIDE DEF n
<1>. DEFINE Ok(j) == /\ Runs(f[j - 1].db.tables, st[j], f[j].db.tables)
                     /\ RowsRun(f[j - 1].db.tables, f[j - 1].db.rows, st[j], f[j].db.rows)
            Fine(i) == /\ DOMAIN f[i] = {"ok", "db"} /\ f[i].ok \in BOOLEAN
                       /\ f[i].ok => \A j \in 1 .. i : Ok(j)
            Good == {i \in 0 .. n : Fine(i)}
<1>3. 0 \in Good
  <2>1. DOMAIN f[0] = {"ok", "db"} /\ f[0].ok \in BOOLEAN BY <1>1
  <2>2. \A j \in 1 .. 0 : FALSE OBVIOUS
  <2>. HIDE DEF Ok
  <2>. QED BY <1>2, <2>1, <2>2
<1>4. ASSUME NEW i \in 1 .. n, i - 1 \in Good PROVE i \in Good
  <2>. DEFINE x == f[i - 1]
  <2>1. DOMAIN x = {"ok", "db"} /\ x.ok \in BOOLEAN BY <1>4
  <2>2. f[i] = Executed(x, st[i]) BY <1>1
  <2>3. x.ok => \A j \in 1 .. i - 1 : Ok(j) BY <1>4
  <2>4. /\ DOMAIN f[i] = {"ok", "db"} /\ f[i].ok \in BOOLEAN
        /\ f[i].ok => x.ok /\ Ok(i)
    <3>. HIDE DEF x
    <3>1. /\ DOMAIN f[i] = {"ok", "db"} /\ f[i].ok \in BOOLEAN
          /\ f[i].ok =>
                 /\ x.ok
                 /\ Runs(x.db.tables, st[i], f[i].db.tables)
                 /\ RowsRun(x.db.tables, x.db.rows, st[i], f[i].db.rows)
      BY <2>1, <2>2, ExecutedRuns
    <3>. QED BY <3>1 DEF x
  <2>5. \A j \in 1 .. i : j \in 1 .. i - 1 \/ j = i BY <1>2
  <2>6. i \in 0 .. n BY <1>2
  <2>. HIDE DEF Ok, x
  <2>7. f[i].ok => \A j \in 1 .. i : Ok(j) BY <2>3, <2>4, <2>5
  <2>. QED BY <2>4, <2>6, <2>7
<1>. HIDE DEF Fine, Good
<1>5. n \in Good BY <1>2, <1>3, <1>4, UpTo
<1>6. \A j \in 1 .. n : Ok(j) BY <1>1, <1>5 DEF Good, Fine, n
<1>. DEFINE T == [i \in 1 .. n + 1 |-> f[i - 1].db.tables]
            R == [i \in 1 .. n + 1 |-> f[i - 1].db.rows]
<1>7. \A i \in 1 .. n + 1 : T[i] = f[i - 1].db.tables /\ R[i] = f[i - 1].db.rows OBVIOUS
<1>8. 1 \in 1 .. n + 1 /\ n + 1 \in 1 .. n + 1 /\ n + 1 - 1 = n /\ 1 - 1 = 0 BY <1>2
<1>9. f[0].db = d BY <1>1
<1>10. ASSUME NEW i \in 1 .. n
       PROVE  /\ Runs(T[i], st[i], T[i + 1])
              /\ RowsRun(T[i], R[i], st[i], R[i + 1])
  <2>1. i \in 1 .. n + 1 /\ i + 1 \in 1 .. n + 1 /\ i + 1 - 1 = i BY <1>2
  <2>. HIDE DEF T, R
  <2>2. /\ T[i] = f[i - 1].db.tables /\ R[i] = f[i - 1].db.rows
        /\ T[i + 1] = f[i].db.tables /\ R[i + 1] = f[i].db.rows
    BY <1>7, <2>1
  <2>. QED BY <1>6, <2>2
<1>. HIDE DEF T, R
<1>11. T[1] = d.tables /\ R[1] = d.rows BY <1>7, <1>8, <1>9
<1>12. T[n + 1] = Execute(d, st).db.tables /\ R[n + 1] = Execute(d, st).db.rows
  <2>1. T[n + 1] = f[n].db.tables /\ R[n + 1] = f[n].db.rows BY <1>2, <1>7, <1>8
  <2>. QED BY <1>1, <2>1
<1>. QED BY <1>10, <1>11, <1>12 DEF n

LEMMA ExecuteLeads ==
    ASSUME NEW d, NEW st, Len(st) \in Nat, Execute(d, st).ok
    PROVE  Leads(d.tables, st, Execute(d, st).db.tables)
BY ExecuteRuns DEF Leads, LeadsTo

\* A command whose statements run on the tables, and whose data statements
\* are allowed on every set of rows that may come up, comes to its end.
LEMMA LeadsExecutes ==
    ASSUME NEW d, NEW st, Len(st) \in Nat, NEW U, Leads(d.tables, st, U),
           NEW Safe, d.rows \in Safe,
           \A i \in 1 .. Len(st), rows \in Safe :
               Allowed(rows, st[i]) /\ RowsAfter(rows, st[i]) \in Safe
    PROVE  /\ Execute(d, st).ok
           /\ Execute(d, st).db.tables = U
           /\ Execute(d, st).db.rows \in Safe
<1>. DEFINE n == Len(st)
<1>1. PICK f : /\ f[0] = [ok |-> TRUE, db |-> d]
               /\ \A i \in 1 .. n : f[i] = Executed(f[i - 1], st[i])
               /\ Execute(d, st) = f[n]
  BY ExecuteIs
<1>2. PICK p : /\ p[1] = d.tables /\ p[n + 1] = U
               /\ \A i \in 1 .. n : Runs(p[i], st[i], p[i + 1])
  BY DEF Leads, LeadsTo
<1>3. n \in Nat OBVIOUS
<1>3a. \A i \in 1 .. n, rows \in Safe :
          Allowed(rows, st[i]) /\ RowsAfter(rows, st[i]) \in Safe
  OBVIOUS
<1>. HIDE DEF n
<1>. DEFINE Fine(i) == f[i].ok /\ f[i].db.tables = p[i + 1] /\ f[i].db.rows \in Safe
            Good == {i \in 0 .. n : Fine(i)}
<1>4. 0 \in Good
  <2>1. f[0].ok /\ f[0].db = d BY <1>1
  <2>. QED BY <1>2, <1>3, <2>1
<1>5. ASSUME NEW i \in 1 .. n, i - 1 \in Good PROVE i \in Good
  <2>. DEFINE x == f[i - 1]
              s == st[i]
  <2>1. i \in 0 .. n /\ i - 1 + 1 = i BY <1>3
  <2>2. x.ok /\ x.db.tables = p[i] /\ x.db.rows \in Safe BY <1>5, <2>1
  <2>3. f[i] = Executed(x, s) /\ Runs(p[i], s, p[i + 1]) BY <1>1, <1>2
  <2>4. Allowed(x.db.rows, s) /\ RowsAfter(x.db.rows, s) \in Safe BY <1>3a, <2>2
  <2>. HIDE DEF x, s
  <2>5. CASE s.guarded /\ ~Present(p[i], s)
    <3>1. f[i] = x BY <2>2, <2>3, <2>5 DEF Executed
    <3>2. p[i + 1] = p[i] BY <2>3, <2>5 DEF Runs
    <3>. QED BY <2>1, <2>2, <3>1, <3>2
  <2>6. CASE ~(s.guarded /\ ~Present(p[i], s))
    <3>1. Fits(p[i], s) /\ p[i + 1] = TablesAfter(p[i], s) BY <2>3, <2>6 DEF Runs
    <3>2. Can(x.db, s) BY <2>2, <2>4, <3>1 DEF Can
    <3>3. f[i] = [ok |-> TRUE, db |-> Do(x.db, s)] BY <2>2, <2>3, <2>6, <3>2 DEF Executed
    <3>4. /\ f[i].ok /\ f[i].db.tables = TablesAfter(x.db.tables, s)
          /\ f[i].db.rows = RowsAfter(x.db.rows, s)
      BY <3>3 DEF Do
    <3>. QED BY <2>1, <2>2, <2>4, <3>1, <3>4
  <2>. QED BY <2>5, <2>6
<1>. HIDE DEF Fine, Good
<1>6. n \in Good
  <2>1. \A i \in 1 .. n : i - 1 \in Good => i \in Good BY <1>5
  <2>2. \A i \in 0 .. n : i \in Good BY <1>3, <1>4, <2>1, UpTo, Zenon
  <2>. QED BY <1>3, <2>2
<1>7. Fine(n) BY <1>6 DEF Good
<1>. QED BY <1>1, <1>2, <1>7 DEF Fine, n

\* Statements that ask nothing of the rows run on any.
Careless(s) == s.do \notin {"point_at", "set_dict"}

LEMMA CarelessExecutes ==
    ASSUME NEW d, NEW st, Len(st) \in Nat, NEW U, Leads(d.tables, st, U),
           \A i \in 1 .. Len(st) : Careless(st[i])
    PROVE  /\ Execute(d, st).ok
           /\ Execute(d, st).db.tables = U
<1>. DEFINE Safe == SUBSET (d.rows \cup {st[i].to : i \in 1 .. Len(st)})
<1>1. d.rows \in Safe OBVIOUS
<1>2. ASSUME NEW i \in 1 .. Len(st), NEW rows \in Safe
      PROVE  Allowed(rows, st[i]) /\ RowsAfter(rows, st[i]) \in Safe
  <2>1. Allowed(rows, st[i]) BY DEF Allowed, Careless
  <2>2. RowsAfter(rows, st[i]) \subseteq rows \cup {st[i].to} BY DEF RowsAfter
  <2>. QED BY <2>1, <2>2
<1>. HIDE DEF Safe
<1>3. \A i \in 1 .. Len(st), rows \in Safe :
         Allowed(rows, st[i]) /\ RowsAfter(rows, st[i]) \in Safe
  BY <1>2
<1>4. /\ Execute(d, st).ok
      /\ Execute(d, st).db.tables = U
      /\ Execute(d, st).db.rows \in Safe
  BY <1>1, <1>3, LeadsExecutes, Zenon
<1>. QED BY <1>4
-----------------------------------------------------------------------------
(* A downgrade that mirrors its upgrade undoes it                          *)

\* Tables are records, and a foreign key points to a table that is there.
Shaped(T) ==
    /\ T = [t \in DOMAIN T |-> T[t]]
    /\ \A t \in DOMAIN T : T[t] = [columns |-> T[t].columns, indexes |-> T[t].indexes,
                                    parents |-> T[t].parents]

Sound(T) == Shaped(T) /\ \A t \in DOMAIN T : T[t].parents \subseteq DOMAIN T

LEMMA AlteredIs ==
    ASSUME NEW t, NEW s,
           t = [columns |-> t.columns, indexes |-> t.indexes, parents |-> t.parents]
    PROVE  /\ s.do = "add" => Altered(t, s) = [t EXCEPT !.columns = t.columns \cup s.columns]
           /\ s.do = "remove" => Altered(t, s) = [t EXCEPT !.columns = t.columns \ s.columns]
           /\ s.do = "rename" =>
                 Altered(t, s) = [t EXCEPT !.columns = (t.columns \ s.columns) \cup {s.to[2]}]
           /\ s.do = "index" => Altered(t, s) = [t EXCEPT !.indexes = t.indexes \cup s.indexes]
           /\ s.do = "unindex" => Altered(t, s) = [t EXCEPT !.indexes = t.indexes \ s.indexes]
           /\ s.do = "refer" => Altered(t, s) = [t EXCEPT !.parents = t.parents \cup s.parents]
           /\ s.do = "unrefer" => Altered(t, s) = [t EXCEPT !.parents = t.parents \ s.parents]
           /\ s.do \notin {"add", "remove", "rename", "index", "unindex", "refer", "unrefer"} =>
                 Altered(t, s) = t
<1>1. "columns" \in DOMAIN t /\ "indexes" \in DOMAIN t /\ "parents" \in DOMAIN t
  OBVIOUS
<1>. QED BY DEF Altered

\* An altered table in the form of a record, in one piece.
AlteredTable(t, s) ==
    [columns |-> IF s.do = "add" THEN t.columns \cup s.columns
                 ELSE IF s.do = "remove" THEN t.columns \ s.columns
                 ELSE IF s.do = "rename" THEN (t.columns \ s.columns) \cup {s.to[2]}
                 ELSE t.columns,
     indexes |-> IF s.do = "index" THEN t.indexes \cup s.indexes
                 ELSE IF s.do = "unindex" THEN t.indexes \ s.indexes
                 ELSE t.indexes,
     parents |-> IF s.do = "refer" THEN t.parents \cup s.parents
                 ELSE IF s.do = "unrefer" THEN t.parents \ s.parents
                 ELSE t.parents]

LEMMA AlteredIsTable ==
    ASSUME NEW t, NEW s,
           t = [columns |-> t.columns, indexes |-> t.indexes, parents |-> t.parents]
    PROVE  Altered(t, s) = AlteredTable(t, s)
<1>1. CASE s.do = "add" BY <1>1, AlteredIs DEF AlteredTable
<1>2. CASE s.do = "remove" BY <1>2, AlteredIs DEF AlteredTable
<1>3. CASE s.do = "rename" BY <1>3, AlteredIs DEF AlteredTable
<1>4. CASE s.do = "index" BY <1>4, AlteredIs DEF AlteredTable
<1>5. CASE s.do = "unindex" BY <1>5, AlteredIs DEF AlteredTable
<1>6. CASE s.do = "refer" BY <1>6, AlteredIs DEF AlteredTable
<1>7. CASE s.do = "unrefer" BY <1>7, AlteredIs DEF AlteredTable
<1>8. CASE s.do \notin {"add", "remove", "rename", "index", "unindex", "refer", "unrefer"}
  BY <1>8, AlteredIs DEF AlteredTable
<1>. QED BY <1>1, <1>2, <1>3, <1>4, <1>5, <1>6, <1>7, <1>8

\* The tables after a statement, table by table.
Follow(T, s, U) ==
    /\ U = [t \in DOMAIN U |-> U[t]]
    /\ \A t \in DOMAIN T \ {s.table} : t \in DOMAIN U /\ U[t] = T[t]
    /\ s.do = "create" =>
          /\ DOMAIN U = DOMAIN T \cup {s.table}
          /\ U[s.table] = [columns |-> s.columns, indexes |-> {}, parents |-> s.parents]
    /\ s.do = "drop" => DOMAIN U = DOMAIN T \ {s.table}
    /\ s.do \notin {"create", "drop"} =>
          /\ DOMAIN U = DOMAIN T
          /\ s.table \in DOMAIN T => U[s.table] = AlteredTable(T[s.table], s)

LEMMA TablesAfterFollow ==
    ASSUME NEW T, Shaped(T), NEW s, NEW U, U = TablesAfter(T, s)
    PROVE  Follow(T, s, U)
<1>1. CASE s.do = "create"
  <2>. DEFINE new == [columns |-> s.columns, indexes |-> {}, parents |-> s.parents]
              D == DOMAIN T \cup {s.table}
  <2>1. U = [t \in D |-> IF t = s.table THEN new ELSE T[t]] BY <1>1 DEF TablesAfter
  <2>2. DOMAIN U = D /\ \A t \in D : U[t] = IF t = s.table THEN new ELSE T[t] BY <2>1
  <2>. HIDE DEF new
  <2>3. U = [t \in DOMAIN U |-> U[t]] BY <2>1
  <2>. QED BY <1>1, <2>2, <2>3 DEF new, Follow
<1>2. CASE s.do = "drop"
  <2>1. U = [t \in DOMAIN T \ {s.table} |-> T[t]] BY <1>2 DEF TablesAfter
  <2>. QED BY <1>2, <2>1 DEF Follow
<1>3. CASE s.do \notin {"create", "drop"}
  <2>1. U = [T EXCEPT ![s.table] = Altered(T[s.table], s)] BY <1>3 DEF TablesAfter
  <2>2. DOMAIN U = DOMAIN T /\ U = [t \in DOMAIN U |-> U[t]] BY <2>1
  <2>3. \A t \in DOMAIN T \ {s.table} : U[t] = T[t] BY <2>1
  <2>4. s.table \in DOMAIN T => U[s.table] = AlteredTable(T[s.table], s)
    BY <2>1, AlteredIsTable DEF Sound, Shaped
  <2>. QED BY <1>3, <2>2, <2>3, <2>4 DEF Follow
<1>. QED BY <1>1, <1>2, <1>3

LEMMA RunsSound ==
    ASSUME NEW T, Sound(T), NEW s, NEW U, Runs(T, s, U)
    PROVE  Sound(U)
<1>1. CASE U = T BY <1>1
<1>2. CASE Fits(T, s) /\ U = TablesAfter(T, s)
  <2>1. Follow(T, s, U) BY <1>2, TablesAfterFollow DEF Sound
  <2>2. ASSUME NEW t \in DOMAIN U
        PROVE  /\ U[t] = [columns |-> U[t].columns, indexes |-> U[t].indexes,
                          parents |-> U[t].parents]
               /\ U[t].parents \subseteq DOMAIN U
    <3>1. CASE s.do = "create"
      <4>1. s.parents \subseteq DOMAIN T BY <1>2, <3>1 DEF Fits
      <4>2. CASE t = s.table BY <2>1, <3>1, <4>1, <4>2 DEF Follow
      <4>3. CASE t # s.table
        <5>1. t \in DOMAIN T /\ U[t] = T[t] BY <2>1, <3>1, <4>3 DEF Follow
        <5>. QED BY <2>1, <3>1, <5>1 DEF Sound, Shaped, Follow
      <4>. QED BY <4>2, <4>3
    <3>2. CASE s.do = "drop"
      <4>1. t \in DOMAIN T /\ t # s.table /\ U[t] = T[t] BY <2>1, <3>2 DEF Follow
      <4>2. s.table \notin T[t].parents BY <1>2, <3>2, <4>1 DEF Fits
      <4>. QED BY <2>1, <3>2, <4>1, <4>2 DEF Sound, Shaped, Follow
    <3>3. CASE s.do \notin {"create", "drop"}
      <4>1. t \in DOMAIN T /\ s.parents \subseteq DOMAIN T BY <1>2, <2>1, <3>3 DEF Fits, Follow
      <4>2. T[t].parents \subseteq DOMAIN T BY <4>1 DEF Sound, Shaped
      <4>3. CASE t = s.table
        <5>1. U[t] = AlteredTable(T[t], s) BY <2>1, <3>3, <4>1, <4>3 DEF Follow
        <5>2. U[t].parents \subseteq T[t].parents \cup s.parents BY <5>1 DEF AlteredTable
        <5>3. U[t] = [columns |-> U[t].columns, indexes |-> U[t].indexes,
                      parents |-> U[t].parents]
          BY <5>1 DEF AlteredTable
        <5>. QED BY <2>1, <3>3, <4>1, <4>2, <5>2, <5>3 DEF Follow
      <4>4. CASE t # s.table
        <5>1. U[t] = T[t] BY <2>1, <4>1, <4>4 DEF Follow
        <5>. QED BY <2>1, <3>3, <4>1, <5>1 DEF Sound, Shaped, Follow
      <4>. QED BY <4>3, <4>4
    <3>. QED BY <3>1, <3>2, <3>3
  <2>. QED BY <2>1, <2>2 DEF Sound, Shaped, Follow
<1>. QED BY <1>1, <1>2 DEF Runs

LEMMA LeadsSound ==
    ASSUME NEW T, Sound(T), NEW st, NEW n \in Nat,
           NEW p, p[1] = T, \A i \in 1 .. n : Runs(p[i], st[i], p[i + 1])
    PROVE  \A i \in 1 .. n + 1 : Sound(p[i])
<1>. DEFINE Good == {i \in 0 .. n : Sound(p[i + 1])}
<1>1. n \in Nat /\ \A i \in 1 .. n : Runs(p[i], st[i], p[i + 1]) OBVIOUS
<1>2. 0 \in Good BY <1>1
<1>3. ASSUME NEW i \in 1 .. n, i - 1 \in Good PROVE i \in Good
  <2>1. i \in 0 .. n /\ i - 1 + 1 = i BY <1>1
  <2>2. Sound(p[i]) BY <1>3, <2>1
  <2>3. Sound(p[i + 1]) BY <1>1, <2>2, RunsSound
  <2>. QED BY <2>1, <2>3
<1>. HIDE DEF Good
<1>4. \A i \in 0 .. n : i \in Good BY <1>1, <1>2, <1>3, UpTo
<1>5. ASSUME NEW i \in 1 .. n + 1 PROVE Sound(p[i])
  <2>1. i - 1 \in 0 .. n /\ i - 1 + 1 = i BY <1>1
  <2>. QED BY <1>4, <2>1 DEF Good
<1>. QED BY <1>5

\* The statement d takes back what s did.
Mirrors(s, d) ==
    /\ ~s.guarded /\ ~d.guarded /\ d.table = s.table
    /\ \/ s.do = "create" /\ d.do = "drop" /\ d.parents = {}
       \/ s.do = "add" /\ d.do = "remove" /\ d.parents = {} /\ d.columns = s.columns
       \/ s.do = "index" /\ d.do = "unindex" /\ d.parents = {} /\ d.indexes = s.indexes
       \/ s.do = "refer" /\ d.do = "unrefer" /\ d.parents = s.parents

\* Two shaped schemas with the same tables are the same.
LEMMA ShapedEqual ==
    ASSUME NEW T, Shaped(T), NEW U, Shaped(U), DOMAIN T = DOMAIN U,
           \A t \in DOMAIN T : T[t] = U[t]
    PROVE  T = U
<1>1. T = [t \in DOMAIN T |-> T[t]] BY DEF Shaped
<1>2. U = [t \in DOMAIN U |-> U[t]] BY DEF Shaped
<1>. QED BY <1>1, <1>2

LEMMA Undo ==
    ASSUME NEW T, Sound(T), NEW s, NEW U, Runs(T, s, U), NEW d, Mirrors(s, d),
           s.do = "refer" => s.parents \cap T[s.table].parents = {}
    PROVE  Runs(U, d, T)
<1>. DEFINE V == TablesAfter(U, d)
            t == s.table
<1>1. Fits(T, s) /\ U = TablesAfter(T, s) /\ d.table = t BY DEF Runs, Mirrors
<1>2. Sound(U) BY RunsSound
<1>3. /\ \A o \in DOMAIN T \ {t} : o \in DOMAIN U /\ U[o] = T[o]
      /\ s.do = "create" => DOMAIN U = DOMAIN T \cup {t}
      /\ s.do \notin {"create", "drop"} =>
            DOMAIN U = DOMAIN T /\ (t \in DOMAIN T => U[t] = AlteredTable(T[t], s))
  <2>1. Follow(T, s, U) BY <1>1, TablesAfterFollow DEF Sound
  <2>. QED BY <2>1 DEF Follow
<1>4. /\ \A o \in DOMAIN U \ {t} : o \in DOMAIN V /\ V[o] = U[o]
      /\ d.do = "drop" => DOMAIN V = DOMAIN U \ {t}
      /\ d.do \notin {"create", "drop"} =>
            DOMAIN V = DOMAIN U /\ (t \in DOMAIN U => V[t] = AlteredTable(U[t], d))
  <2>1. Follow(U, d, V) BY <1>2, TablesAfterFollow DEF Sound
  <2>. QED BY <1>1, <2>1 DEF Follow
<1>5. Fits(U, d)
  <2>1. CASE s.do = "create"
    <3>1. t \notin DOMAIN T /\ d.do = "drop" /\ d.parents = {} BY <1>1, <2>1 DEF Fits, Mirrors
    <3>2. \A o \in DOMAIN U \ {t} : t \notin U[o].parents BY <1>3, <2>1, <3>1 DEF Sound, Shaped
    <3>. QED BY <1>1, <1>3, <2>1, <3>1, <3>2 DEF Fits
  <2>2. CASE s.do = "add"
    <3>1. t \in DOMAIN T /\ d.do = "remove" /\ d.parents = {} /\ d.columns = s.columns
      BY <1>1, <2>2 DEF Fits, Mirrors
    <3>2. U[t].columns = T[t].columns \cup s.columns BY <1>3, <2>2, <3>1 DEF AlteredTable
    <3>. QED BY <1>1, <1>3, <2>2, <3>1, <3>2 DEF Fits
  <2>3. CASE s.do = "index"
    <3>1. t \in DOMAIN T /\ d.do = "unindex" /\ d.parents = {} /\ d.indexes = s.indexes
      BY <1>1, <2>3 DEF Fits, Mirrors
    <3>2. U[t].indexes = T[t].indexes \cup s.indexes BY <1>3, <2>3, <3>1 DEF AlteredTable
    <3>. QED BY <1>1, <1>3, <2>3, <3>1, <3>2 DEF Fits
  <2>4. CASE s.do = "refer"
    <3>1. t \in DOMAIN T /\ s.parents \subseteq DOMAIN T
          /\ d.do = "unrefer" /\ d.parents = s.parents
      BY <1>1, <2>4 DEF Fits, Mirrors
    <3>2. U[t].parents = T[t].parents \cup s.parents BY <1>3, <2>4, <3>1 DEF AlteredTable
    <3>. QED BY <1>1, <1>3, <2>4, <3>1, <3>2 DEF Fits
  <2>. QED BY <2>1, <2>2, <2>3, <2>4 DEF Mirrors
<1>6. Runs(U, d, V) BY <1>5 DEF Runs, Mirrors
<1>7. Sound(V) BY <1>2, <1>6, RunsSound
<1>8. DOMAIN V = DOMAIN T
  <2>1. CASE s.do = "create"
    <3>1. t \notin DOMAIN T /\ d.do = "drop" BY <1>1, <2>1 DEF Fits, Mirrors
    <3>. QED BY <1>3, <1>4, <2>1, <3>1
  <2>2. CASE s.do # "create"
    <3>1. s.do \notin {"create", "drop"} /\ d.do \notin {"create", "drop"} BY <2>2 DEF Mirrors
    <3>. QED BY <1>3, <1>4, <3>1
  <2>. QED BY <2>1, <2>2
<1>9. ASSUME NEW o \in DOMAIN T PROVE V[o] = T[o]
  <2>1. CASE o # t BY <1>3, <1>4, <2>1
  <2>2. CASE o = t
    <3>1. s.do # "create" BY <1>1, <2>2 DEF Fits
    <3>2. V[t] = AlteredTable(U[t], d) /\ U[t] = AlteredTable(T[t], s)
      BY <1>3, <1>4, <2>2, <3>1 DEF Mirrors
    <3>3. T[t] = [columns |-> T[t].columns, indexes |-> T[t].indexes, parents |-> T[t].parents]
      BY <2>2 DEF Sound, Shaped
    <3>4. CASE s.do = "add"
      <4>1. s.columns \cap T[t].columns = {} /\ d.do = "remove" /\ d.columns = s.columns
        BY <1>1, <3>4 DEF Fits, Mirrors
      <4>2. (T[t].columns \cup s.columns) \ s.columns = T[t].columns BY <4>1
      <4>. QED BY <2>2, <3>2, <3>3, <3>4, <4>1, <4>2 DEF AlteredTable
    <3>5. CASE s.do = "index"
      <4>1. s.indexes \cap T[t].indexes = {} /\ d.do = "unindex" /\ d.indexes = s.indexes
        BY <1>1, <3>5 DEF Fits, Mirrors
      <4>2. (T[t].indexes \cup s.indexes) \ s.indexes = T[t].indexes BY <4>1
      <4>. QED BY <2>2, <3>2, <3>3, <3>5, <4>1, <4>2 DEF AlteredTable
    <3>6. CASE s.do = "refer"
      <4>1. d.do = "unrefer" /\ d.parents = s.parents BY <3>6 DEF Mirrors
      <4>2. (T[t].parents \cup s.parents) \ s.parents = T[t].parents BY <3>6
      <4>. QED BY <2>2, <3>2, <3>3, <3>6, <4>1, <4>2 DEF AlteredTable
    <3>. QED BY <3>1, <3>4, <3>5, <3>6 DEF Mirrors
  <2>. QED BY <2>1, <2>2
<1>10. V = T BY <1>7, <1>8, <1>9, ShapedEqual DEF Sound
<1>. QED BY <1>6, <1>10

\* A downgrade takes back the first n statements of the upgrade, the last one
\* first, where a foreign key was new.
LEMMA Downgrades ==
    ASSUME NEW T, Sound(T), NEW up, NEW n \in Nat, NEW U, LeadsTo(T, up, n, U), NEW down,
           Len(down) = n,
           \A i \in 1 .. n : Mirrors(up[i], down[n + 1 - i]),
           \A i \in 1 .. n : up[i].do = "refer" =>
               \A V : LeadsTo(T, up, i - 1, V) => up[i].parents \cap V[up[i].table].parents = {}
    PROVE  Leads(U, down, T)
<1>1. PICK p : /\ p[1] = T /\ p[n + 1] = U
               /\ \A i \in 1 .. n : Runs(p[i], up[i], p[i + 1])
  BY DEF LeadsTo
<1>2. \A i \in 1 .. n + 1 : Sound(p[i]) BY <1>1, LeadsSound
<1>3. n \in Nat /\ Len(down) = n OBVIOUS
<1>4. ASSUME NEW i \in 1 .. n, up[i].do = "refer"
      PROVE  up[i].parents \cap p[i][up[i].table].parents = {}
  <2>1. i - 1 + 1 = i /\ \A k \in 1 .. i - 1 : k \in 1 .. n OBVIOUS
  <2>2. LeadsTo(T, up, i - 1, p[i]) BY <1>1, <2>1 DEF LeadsTo
  <2>. QED BY <1>4, <2>2
<1>. DEFINE q == [i \in 1 .. n + 1 |-> p[n + 2 - i]]
<1>5. \A i \in 1 .. n + 1 : q[i] = p[n + 2 - i] OBVIOUS
<1>6. q[1] = U /\ q[n + 1] = T
  <2>1. 1 \in 1 .. n + 1 /\ n + 1 \in 1 .. n + 1 /\ n + 2 - 1 = n + 1 /\ n + 2 - (n + 1) = 1
    BY <1>3
  <2>. QED BY <1>1, <1>5, <2>1
<1>7. ASSUME NEW i \in 1 .. n PROVE Runs(q[i], down[i], q[i + 1])
  <2>. DEFINE j == n + 1 - i
  <2>1. j \in 1 .. n /\ j \in 1 .. n + 1 /\ n + 1 - j = i BY <1>3
  <2>2. /\ i \in 1 .. n + 1 /\ i + 1 \in 1 .. n + 1
        /\ n + 2 - i = j + 1 /\ n + 2 - (i + 1) = j
    BY <1>3
  <2>3. q[i] = p[j + 1] /\ q[i + 1] = p[j] BY <1>5, <2>2
  <2>. HIDE DEF j, q
  <2>4. /\ Runs(p[j], up[j], p[j + 1]) /\ Sound(p[j]) /\ Mirrors(up[j], down[i])
        /\ up[j].do = "refer" => up[j].parents \cap p[j][up[j].table].parents = {}
    BY <1>1, <1>2, <1>4, <2>1
  <2>5. Runs(p[j + 1], down[i], p[j]) BY <2>4, Undo
  <2>. QED BY <2>3, <2>5
<1>. HIDE DEF q
<1>. QED BY <1>3, <1>6, <1>7 DEF Leads, LeadsTo
-----------------------------------------------------------------------------
(* The retired schemas: without the PLC tables                             *)

PLC == Range(PLC_TABLES_IN_DROP_ORDER)

LEMMA PLCTables ==
    PLC = {"plc_test_run_io_logs", "plc_test_run_items", "plc_test_runs",
           "plc_llm_suggestions", "plc_testcases", "plc_execution_profiles",
           "plc_targets", "plc_test_suites"}
<1>. DEFINE s == PLC_TABLES_IN_DROP_ORDER
<1>1. DOMAIN s = 1 .. 8 BY DEF PLC_TABLES_IN_DROP_ORDER
<1>2. 1 .. 8 = {1, 2, 3, 4, 5, 6, 7, 8} OBVIOUS
<1>3. /\ s[1] = "plc_test_run_io_logs" /\ s[2] = "plc_test_run_items"
      /\ s[3] = "plc_test_runs" /\ s[4] = "plc_llm_suggestions"
      /\ s[5] = "plc_testcases" /\ s[6] = "plc_execution_profiles"
      /\ s[7] = "plc_targets" /\ s[8] = "plc_test_suites"
  BY DEF PLC_TABLES_IN_DROP_ORDER
<1>4. PLC = {s[i] : i \in {1, 2, 3, 4, 5, 6, 7, 8}} BY <1>1, <1>2 DEF PLC, Range
<1>. HIDE DEF s
<1>. QED BY <1>3, <1>4

\* What Retired does, table by table.
LEMMA RetiredIs ==
    ASSUME NEW T, Shaped(T)
    PROVE  /\ Shaped(Retired(T)) /\ DOMAIN Retired(T) = DOMAIN T \ PLC
           /\ \A t \in DOMAIN T \ PLC : t # "jobs" => Retired(T)[t] = T[t]
           /\ "jobs" \in DOMAIN T =>
                 Retired(T)["jobs"] =
                     [columns |-> T["jobs"].columns \ {"plc_suite_id"},
                      indexes |-> T["jobs"].indexes \ {"plc_suite_status_created_at"},
                      parents |-> T["jobs"].parents]
<1>. DEFINE R == Retired(T)
            jobs == [columns |-> T["jobs"].columns \ {"plc_suite_id"},
                     indexes |-> T["jobs"].indexes \ {"plc_suite_status_created_at"},
                     parents |-> T["jobs"].parents]
            D == DOMAIN T \ PLC
<1>1. R = [t \in D |-> IF t = "jobs" THEN jobs ELSE T[t]] BY DEF Retired, PLC
<1>2. DOMAIN R = D /\ \A t \in D : R[t] = IF t = "jobs" THEN jobs ELSE T[t] BY <1>1
<1>3. "jobs" \notin PLC BY PLCTables
<1>4. /\ jobs.columns = T["jobs"].columns \ {"plc_suite_id"}
      /\ jobs.indexes = T["jobs"].indexes \ {"plc_suite_status_created_at"}
      /\ jobs.parents = T["jobs"].parents
      /\ jobs = [columns |-> jobs.columns, indexes |-> jobs.indexes, parents |-> jobs.parents]
  OBVIOUS
<1>. HIDE DEF R, jobs
<1>5. R = [t \in DOMAIN R |-> R[t]] BY <1>1
<1>6. \A t \in DOMAIN R : R[t] = [columns |-> R[t].columns, indexes |-> R[t].indexes,
                                  parents |-> R[t].parents]
  BY <1>2, <1>4 DEF Shaped
<1>7. Shaped(R) BY <1>5, <1>6 DEF Shaped
<1>8. "jobs" \in DOMAIN T => R["jobs"] = jobs BY <1>2, <1>3
<1>. QED BY <1>2, <1>7, <1>8 DEF R, jobs

\* A statement that has nothing to do with the PLC tables
Outside(s) ==
    ~s.guarded /\ s.table \notin PLC \cup {"jobs"} /\ s.parents \cap PLC = {}

\* does to a retired schema what it does to the schema.
LEMMA RetiredRuns ==
    ASSUME NEW T, Sound(T), NEW s, Outside(s), NEW U, Runs(T, s, U)
    PROVE  Runs(Retired(T), s, Retired(U))
<1>. DEFINE V == TablesAfter(Retired(T), s)
            t == s.table
            R == Retired(T)
            S == Retired(U)
<1>1. Fits(T, s) /\ U = TablesAfter(T, s) /\ Sound(U) BY RunsSound DEF Runs, Outside
<1>2. Follow(T, s, U) BY <1>1, TablesAfterFollow DEF Sound
<1>3. /\ Shaped(R) /\ DOMAIN R = DOMAIN T \ PLC
      /\ \A o \in DOMAIN T \ PLC : o # "jobs" => R[o] = T[o]
      /\ "jobs" \in DOMAIN T =>
            R["jobs"] = [columns |-> T["jobs"].columns \ {"plc_suite_id"},
                         indexes |-> T["jobs"].indexes \ {"plc_suite_status_created_at"},
                         parents |-> T["jobs"].parents]
  BY RetiredIs DEF Sound
<1>4. /\ Shaped(S) /\ DOMAIN S = DOMAIN U \ PLC
      /\ \A o \in DOMAIN U \ PLC : o # "jobs" => S[o] = U[o]
      /\ "jobs" \in DOMAIN U =>
            S["jobs"] = [columns |-> U["jobs"].columns \ {"plc_suite_id"},
                         indexes |-> U["jobs"].indexes \ {"plc_suite_status_created_at"},
                         parents |-> U["jobs"].parents]
  BY <1>1, RetiredIs DEF Sound
<1>5. Follow(R, s, V) BY <1>3, TablesAfterFollow
<1>. HIDE DEF R, S, V
<1>6. t \notin PLC /\ t # "jobs" /\ s.parents \cap PLC = {} BY DEF Outside
<1>7. t \in DOMAIN T => t \in DOMAIN R /\ R[t] = T[t] BY <1>3, <1>6
<1>8. Fits(R, s)
  <2>1. s.parents \subseteq DOMAIN R BY <1>1, <1>3, <1>6 DEF Fits
  <2>2. CASE s.do = "create" BY <1>1, <1>3, <2>1, <2>2 DEF Fits
  <2>3. CASE s.do = "drop"
    <3>1. ASSUME NEW o \in DOMAIN R \ {t} PROVE t \notin R[o].parents
      <4>1. o \in DOMAIN T /\ R[o].parents = T[o].parents BY <1>3
      <4>. QED BY <1>1, <2>3, <4>1 DEF Fits
    <3>. QED BY <1>1, <1>7, <2>1, <2>3, <3>1 DEF Fits
  <2>4. CASE s.do \notin {"create", "drop"} BY <1>1, <1>7, <2>1, <2>4 DEF Fits
  <2>. QED BY <2>2, <2>3, <2>4
<1>9. DOMAIN V = DOMAIN S
  <2>1. CASE s.do = "create" BY <1>2, <1>3, <1>4, <1>5, <1>6, <2>1 DEF Follow
  <2>2. CASE s.do = "drop" BY <1>2, <1>3, <1>4, <1>5, <1>6, <2>2 DEF Follow
  <2>3. CASE s.do \notin {"create", "drop"} BY <1>2, <1>3, <1>4, <1>5, <1>6, <2>3 DEF Follow
  <2>. QED BY <2>1, <2>2, <2>3
<1>10. ASSUME NEW o \in DOMAIN V PROVE V[o] = S[o]
  <2>1. CASE o # t
    <3>1. o \in DOMAIN U \ PLC BY <1>4, <1>9
    <3>2. o \in DOMAIN T \ PLC /\ U[o] = T[o]
      <4>1. CASE s.do = "create" BY <1>2, <2>1, <3>1, <4>1 DEF Follow
      <4>2. CASE s.do = "drop" BY <1>2, <2>1, <3>1, <4>2 DEF Follow
      <4>3. CASE s.do \notin {"create", "drop"} BY <1>2, <2>1, <3>1, <4>3 DEF Follow
      <4>. QED BY <4>1, <4>2, <4>3
    <3>3. V[o] = R[o] BY <1>3, <1>5, <2>1, <3>2 DEF Follow
    <3>4. CASE o = "jobs" BY <1>3, <1>4, <3>1, <3>2, <3>3, <3>4
    <3>5. CASE o # "jobs" BY <1>3, <1>4, <3>1, <3>2, <3>3, <3>5
    <3>. QED BY <3>4, <3>5
  <2>2. CASE o = t
    <3>1. t \in DOMAIN U /\ S[t] = U[t] BY <1>4, <1>6, <1>9, <2>2
    <3>2. CASE s.do = "create" BY <1>2, <1>5, <2>2, <3>1, <3>2 DEF Follow
    <3>3. CASE s.do = "drop" BY <1>5, <2>2, <3>3 DEF Follow
    <3>4. CASE s.do \notin {"create", "drop"}
      <4>1. t \in DOMAIN T /\ t \in DOMAIN R /\ R[t] = T[t]
        BY <1>2, <1>7, <3>1, <3>4 DEF Follow
      <4>2. U[t] = AlteredTable(T[t], s) BY <1>2, <3>4, <4>1 DEF Follow
      <4>3. V[t] = AlteredTable(R[t], s) BY <1>5, <3>4, <4>1 DEF Follow
      <4>. QED BY <2>2, <3>1, <4>1, <4>2, <4>3
    <3>. QED BY <3>2, <3>3, <3>4
  <2>. QED BY <2>1, <2>2
<1>11. Shaped(V)
  <2>1. V = [o \in DOMAIN V |-> V[o]] BY <1>5 DEF Follow
  <2>2. \A o \in DOMAIN V : V[o] = S[o] /\ o \in DOMAIN S BY <1>9, <1>10
  <2>. QED BY <1>4, <2>1, <2>2 DEF Shaped
<1>12. V = S BY <1>4, <1>9, <1>10, <1>11, ShapedEqual
<1>. QED BY <1>8, <1>12 DEF Runs, Outside, R, S, V

LEMMA RetiredLeads ==
    ASSUME NEW T, Sound(T), NEW st, Len(st) \in Nat, NEW U, Leads(T, st, U),
           \A i \in 1 .. Len(st) : Outside(st[i])
    PROVE  Leads(Retired(T), st, Retired(U))
<1>. DEFINE n == Len(st)
<1>1. PICK p : /\ p[1] = T /\ p[n + 1] = U
               /\ \A i \in 1 .. n : Runs(p[i], st[i], p[i + 1])
  BY DEF Leads, LeadsTo
<1>2. \A i \in 1 .. n + 1 : Sound(p[i]) BY <1>1, LeadsSound
<1>3. n \in Nat /\ \A i \in 1 .. n : Outside(st[i]) OBVIOUS
<1>. HIDE DEF n
<1>. DEFINE q == [i \in 1 .. n + 1 |-> Retired(p[i])]
<1>4. q[1] = Retired(T) /\ q[n + 1] = Retired(U)
  <2>1. 1 \in 1 .. n + 1 /\ n + 1 \in 1 .. n + 1 BY <1>3
  <2>. QED BY <1>1, <2>1
<1>5. ASSUME NEW i \in 1 .. n PROVE Runs(q[i], st[i], q[i + 1])
  <2>1. i \in 1 .. n + 1 /\ i + 1 \in 1 .. n + 1 BY <1>3
  <2>2. q[i] = Retired(p[i]) /\ q[i + 1] = Retired(p[i + 1]) BY <2>1
  <2>3. Sound(p[i]) /\ Outside(st[i]) /\ Runs(p[i], st[i], p[i + 1])
    BY <1>1, <1>2, <1>3, <2>1
  <2>. HIDE DEF q
  <2>. QED BY <2>2, <2>3, RetiredRuns
<1>. HIDE DEF q
<1>. QED BY <1>4, <1>5 DEF Leads, LeadsTo, n
-----------------------------------------------------------------------------
(* Statements, by constructor                                              *)

LEMMA CreateTableIs ==
    ASSUME NEW t, NEW C, NEW P
    PROVE  /\ CreateTable(t, C, P).do = "create" /\ CreateTable(t, C, P).table = t
           /\ CreateTable(t, C, P).columns = C /\ CreateTable(t, C, P).indexes = {}
           /\ CreateTable(t, C, P).parents = P /\ ~CreateTable(t, C, P).guarded
BY DEF CreateTable, Statement

LEMMA CreateIndexesIs ==
    ASSUME NEW t, NEW I
    PROVE  /\ CreateIndexes(t, I).do = "index" /\ CreateIndexes(t, I).table = t
           /\ CreateIndexes(t, I).columns = {} /\ CreateIndexes(t, I).indexes = I
           /\ CreateIndexes(t, I).parents = {} /\ ~CreateIndexes(t, I).guarded
BY DEF CreateIndexes, Statement

LEMMA DropTableIs ==
    ASSUME NEW t
    PROVE  /\ DropTable(t).do = "drop" /\ DropTable(t).table = t
           /\ DropTable(t).columns = {} /\ DropTable(t).indexes = {}
           /\ DropTable(t).parents = {} /\ ~DropTable(t).guarded
BY DEF DropTable, Statement

LEMMA DropIndexesIs ==
    ASSUME NEW t, NEW I
    PROVE  /\ DropIndexes(t, I).do = "unindex" /\ DropIndexes(t, I).table = t
           /\ DropIndexes(t, I).columns = {} /\ DropIndexes(t, I).indexes = I
           /\ DropIndexes(t, I).parents = {} /\ ~DropIndexes(t, I).guarded
BY DEF DropIndexes, Statement

LEMMA AddColumnsIs ==
    ASSUME NEW t, NEW C
    PROVE  /\ AddColumns(t, C).do = "add" /\ AddColumns(t, C).table = t
           /\ AddColumns(t, C).columns = C /\ AddColumns(t, C).indexes = {}
           /\ AddColumns(t, C).parents = {} /\ ~AddColumns(t, C).guarded
BY DEF AddColumns, Statement

LEMMA DropColumnsIs ==
    ASSUME NEW t, NEW C
    PROVE  /\ DropColumns(t, C).do = "remove" /\ DropColumns(t, C).table = t
           /\ DropColumns(t, C).columns = C /\ DropColumns(t, C).indexes = {}
           /\ DropColumns(t, C).parents = {} /\ ~DropColumns(t, C).guarded
BY DEF DropColumns, Statement

LEMMA ReferIs ==
    ASSUME NEW t, NEW p
    PROVE  /\ Refer(t, p).do = "refer" /\ Refer(t, p).table = t
           /\ Refer(t, p).parents = {p} /\ ~Refer(t, p).guarded
           /\ Unrefer(t, p).do = "unrefer" /\ Unrefer(t, p).table = t
           /\ Unrefer(t, p).parents = {p} /\ ~Unrefer(t, p).guarded
BY DEF Refer, Unrefer, Statement

\* The data statements.
LEMMA DataIs ==
    ASSUME NEW t, NEW kind, NEW from, NEW p
    PROVE  /\ Insert(<<t, kind>>).do = "insert" /\ Insert(<<t, kind>>).table = t
           /\ Insert(<<t, kind>>).to = <<t, kind>>
           /\ Insert(<<t, kind>>).parents = {} /\ ~Insert(<<t, kind>>).guarded
           /\ InsertFrom(from, <<t, kind>>).do = "insert_from"
           /\ InsertFrom(from, <<t, kind>>).table = t
           /\ InsertFrom(from, <<t, kind>>).from = from
           /\ InsertFrom(from, <<t, kind>>).to = <<t, kind>>
           /\ InsertFrom(from, <<t, kind>>).parents = {} /\ ~InsertFrom(from, <<t, kind>>).guarded
           /\ Rewrite(from, <<t, kind>>).do = "rewrite" /\ Rewrite(from, <<t, kind>>).table = t
           /\ Rewrite(from, <<t, kind>>).from = from /\ Rewrite(from, <<t, kind>>).to = <<t, kind>>
           /\ Rewrite(from, <<t, kind>>).parents = {} /\ ~Rewrite(from, <<t, kind>>).guarded
           /\ PointAt(t, p).do = "point_at" /\ PointAt(t, p).table = t
           /\ PointAt(t, p).parents = {p} /\ ~PointAt(t, p).guarded
           /\ SetDict(t).do = "set_dict" /\ SetDict(t).table = t
           /\ SetDict(t).parents = {} /\ ~SetDict(t).guarded
BY DEF Insert, InsertFrom, Rewrite, PointAt, SetDict, Statement

\* What mirrors what.
LEMMA MirrorTable ==
    ASSUME NEW t, NEW C, NEW P
    PROVE  Mirrors(CreateTable(t, C, P), DropTable(t))
BY CreateTableIs, DropTableIs DEF Mirrors

LEMMA MirrorIndexes ==
    ASSUME NEW t, NEW I, NEW J, I \subseteq J, J \subseteq I
    PROVE  Mirrors(CreateIndexes(t, I), DropIndexes(t, J))
<1>1. I = J OBVIOUS
<1>. QED BY <1>1, CreateIndexesIs, DropIndexesIs DEF Mirrors

LEMMA MirrorColumns ==
    ASSUME NEW t, NEW C, NEW D, C \subseteq D, D \subseteq C
    PROVE  Mirrors(AddColumns(t, C), DropColumns(t, D))
<1>1. C = D OBVIOUS
<1>. QED BY <1>1, AddColumnsIs, DropColumnsIs DEF Mirrors

-----------------------------------------------------------------------------
(* Statements that run                                                     *)

LEMMA FitsRuns ==
    ASSUME NEW T, Sound(T), NEW s, ~s.guarded \/ Present(T, s), Fits(T, s)
    PROVE  \E U : Runs(T, s, U) /\ Sound(U) /\ Follow(T, s, U)
<1>1. Runs(T, s, TablesAfter(T, s)) BY DEF Runs
<1>2. Sound(TablesAfter(T, s)) BY <1>1, RunsSound
<1>3. Follow(T, s, TablesAfter(T, s)) BY TablesAfterFollow DEF Sound
<1>. QED BY <1>1, <1>2, <1>3

\* A data statement changes no table.
LEMMA DataRuns ==
    ASSUME NEW T, Sound(T), NEW s, ~s.guarded, s.table \in DOMAIN T, s.parents \subseteq DOMAIN T,
           s.do \in {"insert", "insert_from", "rewrite", "point_at", "set_dict"}
    PROVE  Runs(T, s, T)
<1>1. Fits(T, s) BY DEF Fits
<1>2. PICK U : Runs(T, s, U) /\ Sound(U) /\ Follow(T, s, U) BY <1>1, FitsRuns
<1>3. AlteredTable(T[s.table], s) = T[s.table] BY DEF AlteredTable, Sound, Shaped
<1>4. DOMAIN U = DOMAIN T /\ \A t \in DOMAIN T : U[t] = T[t] BY <1>2, <1>3 DEF Follow
<1>5. U = T BY <1>2, <1>4, ShapedEqual DEF Sound
<1>. QED BY <1>2, <1>5

\* The tables T without those the first m statements drop.
Left(T, st, m) == [t \in DOMAIN T \ {st[j].table : j \in 1 .. m} |-> T[t]]

\* Tables can be dropped, under a guard or not, in an order in which no table
\* that is left refers to the next one.
DropOrder(T, st, n) ==
    \A i \in 1 .. n : /\ st[i].do = "drop" /\ st[i].parents = {}
                      /\ st[i].columns = {} /\ st[i].indexes = {}
                      /\ st[i].table \in DOMAIN T
                      /\ \A j \in 1 .. i - 1 : st[j].table # st[i].table
                      /\ \A t \in DOMAIN T : st[i].table \in T[t].parents =>
                            \E j \in 1 .. i - 1 : st[j].table = t

LEMMA Drops ==
    ASSUME NEW T, Sound(T), NEW st, NEW n \in Nat, DropOrder(T, st, n)
    PROVE  LeadsTo(T, st, n, Left(T, st, n))
<1>. DEFINE p == [i \in 1 .. n + 1 |-> Left(T, st, i - 1)]
<1>1. p[1] = T
  <2>1. DOMAIN T \ {st[j].table : j \in 1 .. 0} = DOMAIN T OBVIOUS
  <2>2. Left(T, st, 0) = [t \in DOMAIN T |-> T[t]] BY <2>1 DEF Left
  <2>3. Left(T, st, 0) = T BY <2>2 DEF Sound, Shaped
  <2>. QED BY <2>3
<1>2. p[n + 1] = Left(T, st, n) OBVIOUS
<1>3. ASSUME NEW i \in 1 .. n PROVE Runs(p[i], st[i], p[i + 1])
  <2>. DEFINE V == Left(T, st, i - 1)
              W == Left(T, st, i)
              s == st[i]
              Gone(m) == {st[j].table : j \in 1 .. m}
  <2>1. p[i] = V /\ p[i + 1] = W OBVIOUS
  <2>2. /\ s.do = "drop" /\ s.parents = {} /\ s.columns = {} /\ s.indexes = {}
        /\ s.table \in DOMAIN T
        /\ \A j \in 1 .. i - 1 : st[j].table # s.table
        /\ \A t \in DOMAIN T : s.table \in T[t].parents =>
              \E j \in 1 .. i - 1 : st[j].table = t
    BY DEF DropOrder
  <2>3. Gone(i) = Gone(i - 1) \cup {s.table}
    <3>1. 1 .. i = (1 .. i - 1) \cup {i} OBVIOUS
    <3>. QED BY <3>1
  <2>4. DOMAIN V = DOMAIN T \ Gone(i - 1) /\ \A t \in DOMAIN V : V[t] = T[t] BY DEF Left
  <2>5. W = [t \in DOMAIN T \ Gone(i) |-> T[t]] BY DEF Left
  <2>6. s.table \notin Gone(i - 1) BY <2>2
  <2>7. \A t \in DOMAIN V : s.table \notin T[t].parents BY <2>2, <2>4
  <2>. HIDE DEF V, W, s, Gone, p
  <2>8. s.table \in DOMAIN V BY <2>2, <2>4, <2>6
  <2>9. Fits(V, s) BY <2>2, <2>4, <2>7, <2>8 DEF Fits
  <2>10. Present(V, s) BY <2>2, <2>8 DEF Present
  <2>11. TablesAfter(V, s) = [t \in DOMAIN V \ {s.table} |-> V[t]] BY <2>2 DEF TablesAfter
  <2>12. DOMAIN V \ {s.table} = DOMAIN T \ Gone(i) BY <2>3, <2>4
  <2>13. W = TablesAfter(V, s)
    <3>. DEFINE D == DOMAIN T \ Gone(i)
    <3>1. \A t \in D : V[t] = T[t] BY <2>4, <2>12
    <3>2. TablesAfter(V, s) = [t \in D |-> V[t]] BY <2>11, <2>12
    <3>3. W = [t \in D |-> T[t]] BY <2>5
    <3>. HIDE DEF D
    <3>. QED BY <3>1, <3>2, <3>3
  <2>14. Runs(V, s, W) BY <2>9, <2>10, <2>13 DEF Runs
  <2>. QED BY <2>1, <2>14 DEF s
<1>. HIDE DEF p
<1>. QED BY <1>1, <1>2, <1>3 DEF LeadsTo

LEMMA LeftIs ==
    ASSUME NEW T, Sound(T), NEW st, NEW n
    PROVE  /\ DOMAIN Left(T, st, n) = DOMAIN T \ {st[j].table : j \in 1 .. n}
           /\ \A t \in DOMAIN Left(T, st, n) : Left(T, st, n)[t] = T[t]
           /\ Shaped(Left(T, st, n))
<1>. DEFINE D == DOMAIN T \ {st[j].table : j \in 1 .. n}
            L == Left(T, st, n)
<1>1. L = [t \in D |-> T[t]] BY DEF Left
<1>. HIDE DEF D, L
<1>2. DOMAIN L = D /\ \A t \in D : L[t] = T[t] BY <1>1
<1>3. Shaped(L) BY <1>1, <1>2 DEF Shaped, Sound, D
<1>. QED BY <1>2, <1>3 DEF D, L
-----------------------------------------------------------------------------
(* New tables                                                              *)

\* The first n statements of st create tables that are not in T, after the
\* tables they refer to, and index each of them at most once.
Creations(T, st, n) ==
    \A i \in 1 .. n :
        /\ ~st[i].guarded
        /\ \/ /\ st[i].do = "create" /\ st[i].table \notin DOMAIN T
              /\ \A j \in 1 .. i - 1 : st[j].table # st[i].table
              /\ \A q \in st[i].parents : q \in DOMAIN T \/ \E j \in 1 .. i - 1 : st[j].table = q
           \/ /\ st[i].do = "index" /\ st[i].parents = {}
              /\ \E j \in 1 .. i - 1 : st[j].table = st[i].table /\ st[j].do = "create"
              /\ \A j \in 1 .. i - 1 : st[j].table = st[i].table => st[j].do = "create"

\* The schema U is T and the tables that the first n of st have made.
Adds(T, st, n, U) ==
    /\ Sound(U)
    /\ DOMAIN U = DOMAIN T \cup {st[j].table : j \in 1 .. n}
    /\ \A t \in DOMAIN T : U[t] = T[t]
    /\ \A i \in 1 .. n :
          /\ st[i].do = "create" =>
                /\ U[st[i].table].columns = st[i].columns
                /\ U[st[i].table].parents = st[i].parents
          /\ st[i].do = "index" => U[st[i].table].indexes = st[i].indexes
          /\ st[i].do = "create" /\ (\A j \in 1 .. n : j # i => st[j].table # st[i].table) =>
                U[st[i].table].indexes = {}

LEMMA AddsNothing ==
    ASSUME NEW T, Sound(T), NEW st
    PROVE  Adds(T, st, 0, T)
<1>1. {st[j].table : j \in 1 .. 0} = {} OBVIOUS
<1>2. \A i \in 1 .. 0 : FALSE OBVIOUS
<1>. QED BY <1>1, <1>2 DEF Adds

LEMMA AddsOne ==
    ASSUME NEW T, Sound(T), NEW st, NEW n \in Nat, Creations(T, st, n + 1),
           NEW V, Adds(T, st, n, V)
    PROVE  \E U : Runs(V, st[n + 1], U) /\ Adds(T, st, n + 1, U)
<1>. DEFINE m == n + 1
            s == st[m]
            Made(k) == {st[j].table : j \in 1 .. k}
<1>1. m \in 1 .. m /\ m - 1 = n /\ n \in Nat /\ 1 .. m = (1 .. n) \cup {m} /\ m \notin 1 .. n
  OBVIOUS
<1>2. /\ ~s.guarded
      /\ \/ /\ s.do = "create" /\ s.table \notin DOMAIN T
            /\ \A j \in 1 .. n : st[j].table # s.table
            /\ \A q \in s.parents : q \in DOMAIN T \/ \E j \in 1 .. n : st[j].table = q
         \/ /\ s.do = "index" /\ s.parents = {}
            /\ \E j \in 1 .. n : st[j].table = s.table /\ st[j].do = "create"
            /\ \A j \in 1 .. n : st[j].table = s.table => st[j].do = "create"
  BY <1>1 DEF Creations
<1>3. /\ Sound(V) /\ DOMAIN V = DOMAIN T \cup Made(n)
      /\ \A t \in DOMAIN T : V[t] = T[t]
      /\ \A i \in 1 .. n :
            /\ st[i].do = "create" =>
                  /\ V[st[i].table].columns = st[i].columns
                  /\ V[st[i].table].parents = st[i].parents
            /\ st[i].do = "index" => V[st[i].table].indexes = st[i].indexes
            /\ st[i].do = "create" /\ (\A j \in 1 .. n : j # i => st[j].table # st[i].table) =>
                  V[st[i].table].indexes = {}
  BY DEF Adds
<1>4. Made(m) = Made(n) \cup {s.table} BY <1>1
<1>5. \A i \in 1 .. n : st[i].table \in Made(n) OBVIOUS
<1>6. \A t \in Made(n) : \E j \in 1 .. n : st[j].table = t OBVIOUS
<1>7. \A i \in 1 .. n : st[i].do = "create" \/ st[i].do = "index"
  <2>1. \A i \in 1 .. n : i \in 1 .. n + 1 OBVIOUS
  <2>. QED BY <2>1 DEF Creations
<1>8. \A i \in 1 .. n : \A j \in 1 .. n :
          st[i].do = "create" /\ st[j].do = "create" /\ st[i].table = st[j].table => i = j
  <2>1. ASSUME NEW i \in 1 .. n, NEW j \in 1 .. n, st[i].do = "create", st[j].do = "create",
               st[i].table = st[j].table, i < j
        PROVE  FALSE
    <3>1. j \in 1 .. n + 1 /\ i \in 1 .. j - 1 BY <2>1
    <3>. QED BY <2>1, <3>1 DEF Creations
  <2>2. \A i \in 1 .. n : \A j \in 1 .. n : i < j \/ j < i \/ i = j OBVIOUS
  <2>. QED BY <2>1, <2>2
<1>9. \A t \in DOMAIN T : t \notin Made(n) \/ \A j \in 1 .. n : st[j].table = t => st[j].do # "create"
  <2>1. \A j \in 1 .. n : st[j].do = "create" => st[j].table \notin DOMAIN T
    <3>1. \A i \in 1 .. n : i \in 1 .. n + 1 OBVIOUS
    <3>. QED BY <3>1 DEF Creations
  <2>. QED BY <2>1
<1>. HIDE DEF Made, s, m
<1>10. CASE s.do = "create"
  <2>1. s.table \notin DOMAIN V BY <1>2, <1>3, <1>6, <1>10
  <2>2. s.parents \subseteq DOMAIN V BY <1>2, <1>3, <1>5, <1>10
  <2>3. Fits(V, s) BY <1>10, <2>1, <2>2 DEF Fits
  <2>4. PICK U : Runs(V, s, U) /\ Sound(U) /\ Follow(V, s, U) BY <1>2, <1>3, <2>3, FitsRuns
  <2>5. /\ DOMAIN U = DOMAIN V \cup {s.table}
        /\ U[s.table].columns = s.columns /\ U[s.table].indexes = {}
        /\ U[s.table].parents = s.parents
        /\ \A t \in DOMAIN V : U[t] = V[t]
    BY <1>10, <2>1, <2>4 DEF Follow
  <2>6. DOMAIN U = DOMAIN T \cup Made(m) BY <1>3, <1>4, <2>5
  <2>7. \A t \in DOMAIN T : U[t] = T[t] BY <1>3, <2>5
  <2>8. ASSUME NEW i \in 1 .. m
        PROVE  /\ st[i].do = "create" =>
                     /\ U[st[i].table].columns = st[i].columns
                     /\ U[st[i].table].parents = st[i].parents
               /\ st[i].do = "index" => U[st[i].table].indexes = st[i].indexes
               /\ st[i].do = "create" /\ (\A j \in 1 .. m : j # i => st[j].table # st[i].table) =>
                     U[st[i].table].indexes = {}
    <3>1. CASE i = m BY <1>10, <2>5, <3>1 DEF s
    <3>2. CASE i # m
      <4>1. i \in 1 .. n BY <1>1, <3>2
      <4>2. U[st[i].table] = V[st[i].table] BY <1>3, <1>5, <2>5, <4>1
      <4>3. (\A j \in 1 .. m : j # i => st[j].table # st[i].table) =>
            (\A j \in 1 .. n : j # i => st[j].table # st[i].table)
        BY <1>1
      <4>. QED BY <1>3, <4>1, <4>2, <4>3
    <3>. QED BY <3>1, <3>2
  <2>9. Adds(T, st, m, U) BY <2>4, <2>6, <2>7, <2>8 DEF Adds, Made
  <2>. QED BY <2>4, <2>9 DEF m, s
<1>11. CASE s.do = "index"
  <2>1. PICK c \in 1 .. n : st[c].table = s.table /\ st[c].do = "create" BY <1>2, <1>11
  <2>2. \A j \in 1 .. n : st[j].table = s.table => j = c BY <1>2, <1>8, <1>11, <2>1
  <2>3. s.table \in DOMAIN V /\ s.table \notin DOMAIN T BY <1>3, <1>5, <1>9, <2>1
  <2>4. \A j \in 1 .. n : j # c => st[j].table # st[c].table BY <2>1, <2>2
  <2>5. V[s.table].indexes = {} BY <1>3, <2>1, <2>4
  <2>6. Fits(V, s) BY <1>2, <1>11, <2>3, <2>5 DEF Fits
  <2>7. PICK U : Runs(V, s, U) /\ Sound(U) /\ Follow(V, s, U) BY <1>2, <1>3, <2>6, FitsRuns
  <2>8. /\ DOMAIN U = DOMAIN V /\ U[s.table] = AlteredTable(V[s.table], s)
        /\ \A t \in DOMAIN V : t # s.table => U[t] = V[t]
    BY <1>11, <2>3, <2>7 DEF Follow
  <2>9. /\ U[s.table].columns = V[s.table].columns /\ U[s.table].parents = V[s.table].parents
        /\ U[s.table].indexes = s.indexes
    BY <1>11, <2>5, <2>8 DEF AlteredTable
  <2>10. DOMAIN U = DOMAIN T \cup Made(m) BY <1>3, <1>4, <2>3, <2>8
  <2>11. \A t \in DOMAIN T : U[t] = T[t] BY <1>3, <2>3, <2>8
  <2>12. ASSUME NEW i \in 1 .. m
         PROVE  /\ st[i].do = "create" =>
                      /\ U[st[i].table].columns = st[i].columns
                      /\ U[st[i].table].parents = st[i].parents
                /\ st[i].do = "index" => U[st[i].table].indexes = st[i].indexes
                /\ st[i].do = "create" /\ (\A j \in 1 .. m : j # i => st[j].table # st[i].table) =>
                      U[st[i].table].indexes = {}
    <3>1. CASE i = m BY <1>11, <2>9, <3>1 DEF s
    <3>2. CASE i = c
      <4>1. m # c /\ m \in 1 .. m BY <1>1
      <4>2. st[m].table = st[c].table BY <2>1 DEF s
      <4>. QED BY <1>3, <2>1, <2>9, <3>2, <4>1, <4>2
    <3>3. CASE i # m /\ i # c
      <4>1. i \in 1 .. n BY <1>1, <3>3
      <4>2. st[i].table # s.table BY <2>2, <3>3, <4>1
      <4>3. U[st[i].table] = V[st[i].table] BY <1>3, <1>5, <2>8, <4>1, <4>2
      <4>4. (\A j \in 1 .. m : j # i => st[j].table # st[i].table) =>
            (\A j \in 1 .. n : j # i => st[j].table # st[i].table)
        BY <1>1
      <4>. QED BY <1>3, <4>1, <4>3, <4>4
    <3>. QED BY <3>1, <3>2, <3>3
  <2>13. Adds(T, st, m, U) BY <2>7, <2>10, <2>11, <2>12 DEF Adds, Made
  <2>. QED BY <2>7, <2>13 DEF m, s
<1>. QED BY <1>2, <1>10, <1>11

LEMMA Creates ==
    ASSUME NEW T, Sound(T), NEW st, NEW n \in Nat, Creations(T, st, n)
    PROVE  \E U : LeadsTo(T, st, n, U) /\ Adds(T, st, n, U)
<1>. DEFINE Good == {m \in 0 .. n : \E U : LeadsTo(T, st, m, U) /\ Adds(T, st, m, U)}
<1>1. 0 \in Good
  <2>1. LeadsTo(T, st, 0, T) /\ Adds(T, st, 0, T) BY LeadsNowhere, AddsNothing
  <2>. QED BY <2>1
<1>2. ASSUME NEW i \in 1 .. n, i - 1 \in Good PROVE i \in Good
  <2>1. PICK V : LeadsTo(T, st, i - 1, V) /\ Adds(T, st, i - 1, V) BY <1>2
  <2>2. i - 1 \in Nat /\ i - 1 + 1 = i /\ i \in 0 .. n OBVIOUS
  <2>3. Creations(T, st, i) BY DEF Creations
  <2>4. Creations(T, st, i - 1 + 1) BY <2>2, <2>3
  <2>5. PICK U : Runs(V, st[i], U) /\ Adds(T, st, i, U)
    <3>1. \E U : Runs(V, st[i - 1 + 1], U) /\ Adds(T, st, i - 1 + 1, U)
      BY <2>1, <2>2, <2>4, AddsOne
    <3>. QED BY <2>2, <3>1
  <2>6. LeadsTo(T, st, i, U) BY <2>1, <2>2, <2>5, LeadsFurther
  <2>. QED BY <2>2, <2>5, <2>6
<1>. HIDE DEF Good
<1>3. n \in Good BY <1>1, <1>2, UpTo
<1>. QED BY <1>3 DEF Good
-----------------------------------------------------------------------------
(* Altered tables                                                          *)

\* U is T with the content c for the table t.
Alters(T, U, t, c) ==
    /\ DOMAIN U = DOMAIN T /\ U[t] = c
    /\ \A o \in DOMAIN T : o # t => U[o] = T[o]

Adding(s, t) == s.do = "add" /\ s.table = t /\ ~s.guarded /\ s.parents = {}
Indexing(s, t) == s.do = "index" /\ s.table = t /\ ~s.guarded /\ s.parents = {}
Creating(s, t) == s.do = "create" /\ s.table = t /\ ~s.guarded

LEMMA AddRuns ==
    ASSUME NEW T, Sound(T), NEW t \in DOMAIN T, NEW s, Adding(s, t),
           s.columns \cap T[t].columns = {}
    PROVE  \E U : /\ Runs(T, s, U) /\ Sound(U)
                  /\ Alters(T, U, t, Table(T[t].columns \cup s.columns, T[t].indexes,
                                           T[t].parents))
<1>1. Fits(T, s) BY DEF Fits, Adding
<1>2. PICK U : Runs(T, s, U) /\ Sound(U) /\ Follow(T, s, U) BY <1>1, FitsRuns DEF Adding
<1>3. AlteredTable(T[t], s) = Table(T[t].columns \cup s.columns, T[t].indexes, T[t].parents)
  BY DEF AlteredTable, Table, Adding
<1>4. Alters(T, U, t, Table(T[t].columns \cup s.columns, T[t].indexes, T[t].parents))
  BY <1>2, <1>3 DEF Alters, Follow, Adding
<1>. QED BY <1>2, <1>4

LEMMA IndexRuns ==
    ASSUME NEW T, Sound(T), NEW t \in DOMAIN T, NEW s, Indexing(s, t),
           s.indexes \cap T[t].indexes = {}
    PROVE  \E U : /\ Runs(T, s, U) /\ Sound(U)
                  /\ Alters(T, U, t, Table(T[t].columns, T[t].indexes \cup s.indexes,
                                           T[t].parents))
<1>1. Fits(T, s) BY DEF Fits, Indexing
<1>2. PICK U : Runs(T, s, U) /\ Sound(U) /\ Follow(T, s, U) BY <1>1, FitsRuns DEF Indexing
<1>3. AlteredTable(T[t], s) = Table(T[t].columns, T[t].indexes \cup s.indexes, T[t].parents)
  BY DEF AlteredTable, Table, Indexing
<1>4. Alters(T, U, t, Table(T[t].columns, T[t].indexes \cup s.indexes, T[t].parents))
  BY <1>2, <1>3 DEF Alters, Follow, Indexing
<1>. QED BY <1>2, <1>4

LEMMA ReferRuns ==
    ASSUME NEW T, Sound(T), NEW t \in DOMAIN T, NEW s, s.do = "refer", s.table = t,
           ~s.guarded, s.parents \subseteq DOMAIN T
    PROVE  \E U : /\ Runs(T, s, U) /\ Sound(U)
                  /\ Alters(T, U, t, Table(T[t].columns, T[t].indexes,
                                           T[t].parents \cup s.parents))
<1>1. Fits(T, s) BY DEF Fits
<1>2. PICK U : Runs(T, s, U) /\ Sound(U) /\ Follow(T, s, U) BY <1>1, FitsRuns
<1>3. AlteredTable(T[t], s) = Table(T[t].columns, T[t].indexes, T[t].parents \cup s.parents)
  BY DEF AlteredTable, Table
<1>4. Alters(T, U, t, Table(T[t].columns, T[t].indexes, T[t].parents \cup s.parents))
  BY <1>2, <1>3 DEF Alters, Follow
<1>. QED BY <1>2, <1>4

\* Columns, then indexes, of a table: statements a and x of st.
LEMMA AddIndexRun ==
    ASSUME NEW T, NEW st, NEW m \in Nat, NEW V, LeadsTo(T, st, m, V), Sound(V),
           NEW a, a = m + 1, NEW x, x = m + 2,
           NEW t \in DOMAIN V, Adding(st[a], t), Indexing(st[x], t),
           st[a].columns \cap V[t].columns = {}, st[x].indexes \cap V[t].indexes = {}
    PROVE  \E U : /\ LeadsTo(T, st, x, U) /\ Sound(U)
                  /\ Alters(V, U, t, Table(V[t].columns \cup st[a].columns,
                                           V[t].indexes \cup st[x].indexes, V[t].parents))
<1>1. PICK W : /\ Runs(V, st[a], W) /\ Sound(W)
               /\ Alters(V, W, t, Table(V[t].columns \cup st[a].columns,
                                        V[t].indexes, V[t].parents))
  BY AddRuns
<1>2. /\ t \in DOMAIN W /\ W[t].columns = V[t].columns \cup st[a].columns
      /\ W[t].indexes = V[t].indexes /\ W[t].parents = V[t].parents
  BY <1>1 DEF Alters, Table
<1>3. PICK U : /\ Runs(W, st[x], U) /\ Sound(U)
               /\ Alters(W, U, t, Table(W[t].columns, W[t].indexes \cup st[x].indexes,
                                        W[t].parents))
  BY <1>1, <1>2, IndexRuns
<1>4. LeadsTo(T, st, a, W) BY <1>1, LeadsFurther
<1>5. a \in Nat /\ x = a + 1 OBVIOUS
<1>6. LeadsTo(T, st, x, U) BY <1>3, <1>4, <1>5, LeadsFurther
<1>7. Alters(V, U, t, Table(V[t].columns \cup st[a].columns,
                            V[t].indexes \cup st[x].indexes, V[t].parents))
  BY <1>1, <1>2, <1>3 DEF Alters
<1>. QED BY <1>3, <1>6, <1>7

-----------------------------------------------------------------------------
(* What the revisions do                                                   *)

\* The tables that creation statements leave behind.
New(st, c, x) == Table(st[c].columns, st[x].indexes, st[c].parents)

LEMMA NewIs ==
    ASSUME NEW T, NEW st, NEW n, NEW U, Adds(T, st, n, U), NEW c \in 1 .. n, NEW x \in 1 .. n,
           NEW t, Creating(st[c], t), Indexing(st[x], t)
    PROVE  t \in DOMAIN U /\ U[t] = New(st, c, x)
<1>1. st[c].table = t /\ st[x].table = t /\ st[c].do = "create" /\ st[x].do = "index"
  BY DEF Creating, Indexing
<1>2. t \in DOMAIN U BY <1>1 DEF Adds
<1>3. /\ U[t].columns = st[c].columns /\ U[t].parents = st[c].parents
      /\ U[t].indexes = st[x].indexes
  BY <1>1 DEF Adds
<1>4. U[t] = [columns |-> U[t].columns, indexes |-> U[t].indexes, parents |-> U[t].parents]
  BY <1>2 DEF Adds, Sound, Shaped
<1>. QED BY <1>2, <1>3, <1>4 DEF New, Table

\* A revision that creates a table and does nothing else.
TableMade(T, st, t, U) ==
    /\ Leads(T, st, U) /\ Sound(U)
    /\ DOMAIN U = DOMAIN T \cup {t} /\ \A o \in DOMAIN T : U[o] = T[o]
    /\ U[t] = Table(st[1].columns, {}, {})

LEMMA OneTable ==
    ASSUME NEW T, Sound(T), NEW st, NEW t, t \notin DOMAIN T,
           Len(st) = 1, Creating(st[1], t), st[1].parents = {}
    PROVE  \E U : TableMade(T, st, t, U)
<1>1. 1 .. 1 = {1} OBVIOUS
<1>2. Creations(T, st, 1) BY <1>1 DEF Creations, Creating
<1>3. PICK U : LeadsTo(T, st, 1, U) /\ Adds(T, st, 1, U) BY <1>2, Creates
<1>4. DOMAIN U = DOMAIN T \cup {t}
  <2>1. {st[j].table : j \in 1 .. 1} = {t} BY <1>1 DEF Creating
  <2>. QED BY <1>3, <2>1 DEF Adds
<1>5. U[t] = Table(st[1].columns, {}, {})
  <2>1. U[t].columns = st[1].columns /\ U[t].parents = {} /\ U[t].indexes = {}
    BY <1>1, <1>3 DEF Adds, Creating
  <2>2. U[t] = [columns |-> U[t].columns, indexes |-> U[t].indexes, parents |-> U[t].parents]
    BY <1>3, <1>4 DEF Adds, Sound, Shaped
  <2>. QED BY <2>1, <2>2 DEF Table
<1>. QED BY <1>3, <1>4, <1>5 DEF Leads, Adds, TableMade

LEMMA OneTables ==
    /\ Len(R20260227_0001.up) = 1 /\ Creating(R20260227_0001.up[1], "jobs")
    /\ R20260227_0001.up[1].parents = {}
    /\ Len(R20260227_0002.up) = 1 /\ Creating(R20260227_0002.up[1], "worker_heartbeats")
    /\ R20260227_0002.up[1].parents = {}
    /\ Len(R20260525_0015.down) = 1 /\ Creating(R20260525_0015.down[1], "worker_heartbeats")
    /\ R20260525_0015.down[1].parents = {}
BY CreateTableIs DEF R20260227_0001, R20260227_0002, R20260525_0015, Creating

\* A revision that adds columns and indexes to a table.
LEMMA AddIndexRevision ==
    ASSUME NEW T, Sound(T), NEW t \in DOMAIN T, NEW st,
           Len(st) = 2, Adding(st[1], t), Indexing(st[2], t),
           st[1].columns \cap T[t].columns = {}, st[2].indexes \cap T[t].indexes = {}
    PROVE  \E U : /\ Leads(T, st, U) /\ Sound(U)
                  /\ Alters(T, U, t, Table(T[t].columns \cup st[1].columns,
                                           T[t].indexes \cup st[2].indexes, T[t].parents))
<1>1. LeadsTo(T, st, 0, T) BY LeadsNowhere
<1>2. 0 \in Nat /\ 1 = 0 + 1 /\ 2 = 0 + 2 OBVIOUS
<1>3. PICK U : /\ LeadsTo(T, st, 2, U) /\ Sound(U)
               /\ Alters(T, U, t, Table(T[t].columns \cup st[1].columns,
                                        T[t].indexes \cup st[2].indexes, T[t].parents))
  BY <1>1, <1>2, AddIndexRun
<1>. QED BY <1>3 DEF Leads

\* A revision that creates a table and adds to another.
TableMadeAndOneAltered(T, st, n, t, U) ==
    /\ Leads(T, st, U) /\ Sound(U)
    /\ DOMAIN U = DOMAIN T \cup {n} /\ U[n] = New(st, 1, 2)
    /\ \A o \in DOMAIN T : o # t => U[o] = T[o]
    /\ U[t] = Table(T[t].columns \cup st[3].columns, T[t].indexes \cup st[4].indexes,
                    T[t].parents)

LEMMA TableAndAddIndex ==
    ASSUME NEW T, Sound(T), NEW st, NEW n, n \notin DOMAIN T, NEW t \in DOMAIN T,
           Len(st) = 4, Creating(st[1], n), st[1].parents = {}, Indexing(st[2], n),
           Adding(st[3], t), Indexing(st[4], t),
           st[3].columns \cap T[t].columns = {}, st[4].indexes \cap T[t].indexes = {}
    PROVE  \E U : TableMadeAndOneAltered(T, st, n, t, U)
<1>1. 1 .. 2 = {1, 2} /\ 1 .. 1 = {1} OBVIOUS
<1>2. Creations(T, st, 2) BY <1>1 DEF Creations, Creating, Indexing
<1>3. PICK V : LeadsTo(T, st, 2, V) /\ Adds(T, st, 2, V) BY <1>2, Creates
<1>4. V[n] = New(st, 1, 2) BY <1>1, <1>3, NewIs
<1>5. DOMAIN V = DOMAIN T \cup {n}
  <2>1. {st[j].table : j \in 1 .. 2} = {n} BY <1>1 DEF Creating, Indexing
  <2>. QED BY <1>3, <2>1 DEF Adds
<1>6. Sound(V) /\ \A o \in DOMAIN T : V[o] = T[o] BY <1>3 DEF Adds
<1>7. t \in DOMAIN V /\ V[t] = T[t] /\ 2 \in Nat /\ 3 = 2 + 1 /\ 4 = 2 + 2 BY <1>5, <1>6
<1>8. PICK U : /\ LeadsTo(T, st, 4, U) /\ Sound(U)
               /\ Alters(V, U, t, Table(V[t].columns \cup st[3].columns,
                                        V[t].indexes \cup st[4].indexes, V[t].parents))
  BY <1>3, <1>6, <1>7, AddIndexRun
<1>. QED BY <1>4, <1>5, <1>6, <1>7, <1>8 DEF Leads, Alters, TableMadeAndOneAltered

\* A revision that adds columns to two tables.
TwoAltered(T, st, a, b, U) ==
    /\ Leads(T, st, U) /\ Sound(U) /\ DOMAIN U = DOMAIN T
    /\ U[a] = Table(T[a].columns \cup st[1].columns, T[a].indexes, T[a].parents)
    /\ U[b] = Table(T[b].columns \cup st[2].columns, T[b].indexes, T[b].parents)
    /\ \A o \in DOMAIN T : o # a /\ o # b => U[o] = T[o]

LEMMA TwoAddRevision ==
    ASSUME NEW T, Sound(T), NEW a \in DOMAIN T, NEW b \in DOMAIN T, a # b, NEW st,
           Len(st) = 2, Adding(st[1], a), Adding(st[2], b),
           st[1].columns \cap T[a].columns = {}, st[2].columns \cap T[b].columns = {}
    PROVE  \E U : TwoAltered(T, st, a, b, U)
<1>1. LeadsTo(T, st, 0, T) BY LeadsNowhere
<1>2. 0 \in Nat /\ 0 + 1 = 1 /\ 1 \in Nat /\ 1 + 1 = 2 OBVIOUS
<1>3. PICK V : /\ Runs(T, st[1], V) /\ Sound(V)
               /\ Alters(T, V, a, Table(T[a].columns \cup st[1].columns, T[a].indexes,
                                        T[a].parents))
  BY AddRuns
<1>4. b \in DOMAIN V /\ V[b] = T[b] BY <1>3 DEF Alters
<1>5. PICK U : /\ Runs(V, st[2], U) /\ Sound(U)
               /\ Alters(V, U, b, Table(V[b].columns \cup st[2].columns, V[b].indexes,
                                        V[b].parents))
  BY <1>3, <1>4, AddRuns
<1>6. LeadsTo(T, st, 1, V) BY <1>1, <1>2, <1>3, LeadsFurther
<1>7. LeadsTo(T, st, 2, U) BY <1>2, <1>5, <1>6, LeadsFurther
<1>. QED BY <1>3, <1>4, <1>5, <1>7 DEF Leads, Alters, TwoAltered

\* A revision that adds columns to a table.
LEMMA AddRevision ==
    ASSUME NEW T, Sound(T), NEW t \in DOMAIN T, NEW st, Len(st) = 1, Adding(st[1], t),
           st[1].columns \cap T[t].columns = {}
    PROVE  \E U : /\ Leads(T, st, U) /\ Sound(U)
                  /\ Alters(T, U, t, Table(T[t].columns \cup st[1].columns, T[t].indexes,
                                           T[t].parents))
<1>1. LeadsTo(T, st, 0, T) BY LeadsNowhere
<1>2. 0 \in Nat /\ 0 + 1 = 1 OBVIOUS
<1>3. PICK U : /\ Runs(T, st[1], U) /\ Sound(U)
               /\ Alters(T, U, t, Table(T[t].columns \cup st[1].columns, T[t].indexes,
                                        T[t].parents))
  BY AddRuns
<1>4. LeadsTo(T, st, 1, U) BY <1>1, <1>2, <1>3, LeadsFurther
<1>. QED BY <1>3, <1>4 DEF Leads

\* A revision of one data statement.
LEMMA DataRevision ==
    ASSUME NEW T, Sound(T), NEW st, Len(st) = 1, ~st[1].guarded, st[1].table \in DOMAIN T,
           st[1].parents = {}, st[1].do \in {"insert_from", "rewrite"}
    PROVE  Leads(T, st, T)
<1>1. Runs(T, st[1], T) BY DataRuns
<1>2. LeadsTo(T, st, 0, T) BY LeadsNowhere
<1>3. 0 \in Nat /\ 0 + 1 = 1 OBVIOUS
<1>4. LeadsTo(T, st, 1, T) BY <1>1, <1>2, <1>3, LeadsFurther
<1>. QED BY <1>4 DEF Leads

LEMMA Alterations ==
    /\ Len(R20260302_0003.up) = 2
    /\ Adding(R20260302_0003.up[1], "jobs") /\ Indexing(R20260302_0003.up[2], "jobs")
    /\ Len(R20260308_0004.up) = 4 /\ R20260308_0004.up[1].parents = {}
    /\ Creating(R20260308_0004.up[1], "datasets") /\ Indexing(R20260308_0004.up[2], "datasets")
    /\ Adding(R20260308_0004.up[3], "jobs") /\ Indexing(R20260308_0004.up[4], "jobs")
    /\ Len(R20260411_0005.up) = 4 /\ R20260411_0005.up[1].parents = {}
    /\ Creating(R20260411_0005.up[1], "plc_test_suites")
    /\ Indexing(R20260411_0005.up[2], "plc_test_suites")
    /\ Adding(R20260411_0005.up[3], "jobs") /\ Indexing(R20260411_0005.up[4], "jobs")
    /\ Len(R20260415_0010.up) = 2
    /\ Adding(R20260415_0010.up[1], "plc_llm_suggestions")
    /\ Indexing(R20260415_0010.up[2], "plc_llm_suggestions")
    /\ Len(R20260417_0011.up) = 2
    /\ Adding(R20260417_0011.up[1], "ft_training_jobs")
    /\ Adding(R20260417_0011.up[2], "model_registry")
    /\ Len(Rb4aadc4ac8f6.up) = 2
    /\ Adding(Rb4aadc4ac8f6.up[1], "ft_model_artifacts")
    /\ Adding(Rb4aadc4ac8f6.up[2], "ft_training_jobs")
    /\ Len(R20260609_0020.up) = 1 /\ Adding(R20260609_0020.up[1], "jobs")
<1>. USE CreateTableIs, CreateIndexesIs, AddColumnsIs DEF Creating, Indexing, Adding
<1>1. /\ Len(R20260302_0003.up) = 2
      /\ Adding(R20260302_0003.up[1], "jobs") /\ Indexing(R20260302_0003.up[2], "jobs")
  BY DEF R20260302_0003
<1>2. /\ Len(R20260308_0004.up) = 4 /\ R20260308_0004.up[1].parents = {}
      /\ Creating(R20260308_0004.up[1], "datasets") /\ Indexing(R20260308_0004.up[2], "datasets")
      /\ Adding(R20260308_0004.up[3], "jobs") /\ Indexing(R20260308_0004.up[4], "jobs")
  BY DEF R20260308_0004
<1>3. /\ Len(R20260411_0005.up) = 4 /\ R20260411_0005.up[1].parents = {}
      /\ Creating(R20260411_0005.up[1], "plc_test_suites")
      /\ Indexing(R20260411_0005.up[2], "plc_test_suites")
      /\ Adding(R20260411_0005.up[3], "jobs") /\ Indexing(R20260411_0005.up[4], "jobs")
  BY DEF R20260411_0005
<1>4. /\ Len(R20260415_0010.up) = 2
      /\ Adding(R20260415_0010.up[1], "plc_llm_suggestions")
      /\ Indexing(R20260415_0010.up[2], "plc_llm_suggestions")
  BY DEF R20260415_0010
<1>5. /\ Len(R20260417_0011.up) = 2
      /\ Adding(R20260417_0011.up[1], "ft_training_jobs")
      /\ Adding(R20260417_0011.up[2], "model_registry")
      /\ Len(Rb4aadc4ac8f6.up) = 2
      /\ Adding(Rb4aadc4ac8f6.up[1], "ft_model_artifacts")
      /\ Adding(Rb4aadc4ac8f6.up[2], "ft_training_jobs")
      /\ Len(R20260609_0020.up) = 1 /\ Adding(R20260609_0020.up[1], "jobs")
  BY DEF R20260417_0011, Rb4aadc4ac8f6, R20260609_0020
<1>. QED BY <1>1, <1>2, <1>3, <1>4, <1>5
-----------------------------------------------------------------------------
(* Revisions that create tables                                            *)

\* The first 2 * h statements of st create and index the h tables tb, none
\* before those it refers to.
Pairs(T, st, tb, h) ==
    \A k \in 1 .. h :
        /\ Creating(st[2 * k - 1], tb[k]) /\ Indexing(st[2 * k], tb[k])
        /\ tb[k] \notin DOMAIN T /\ \A j \in 1 .. k - 1 : tb[j] # tb[k]
        /\ \A q \in st[2 * k - 1].parents : q \in DOMAIN T \/ \E j \in 1 .. k - 1 : tb[j] = q

\* U is T with those tables.
PairsMade(T, st, tb, h, U) ==
    /\ DOMAIN U = DOMAIN T \cup {tb[k] : k \in 1 .. h}
    /\ \A t \in DOMAIN T : U[t] = T[t]
    /\ \A k \in 1 .. h : U[tb[k]] = New(st, 2 * k - 1, 2 * k)

LEMMA PairsCreate ==
    ASSUME NEW T, Sound(T), NEW st, NEW tb, NEW h \in Nat, Pairs(T, st, tb, h),
           NEW n, n = 2 * h
    PROVE  \E U : LeadsTo(T, st, n, U) /\ Sound(U) /\ PairsMade(T, st, tb, h, U)
<1>1. \A i \in 1 .. n : \E k \in 1 .. h : i = 2 * k - 1 \/ i = 2 * k
  <2>1. ASSUME NEW i \in 1 .. n PROVE \E k \in 1 .. h : i = 2 * k - 1 \/ i = 2 * k
    <3>. DEFINE k == (i + 1) \div 2
    <3>1. k \in 1 .. h /\ (i = 2 * k - 1 \/ i = 2 * k) OBVIOUS
    <3>. QED BY <3>1
  <2>. QED BY <2>1
<1>2. \A k \in 1 .. h : /\ 2 * k - 1 \in 1 .. n /\ 2 * k \in 1 .. n
                        /\ st[2 * k - 1].table = tb[k] /\ st[2 * k].table = tb[k]
                        /\ st[2 * k - 1].do = "create" /\ st[2 * k].do = "index"
  BY DEF Pairs, Creating, Indexing
<1>3. ASSUME NEW i \in 1 .. n
      PROVE  /\ ~st[i].guarded
             /\ \/ /\ st[i].do = "create" /\ st[i].table \notin DOMAIN T
                   /\ \A j \in 1 .. i - 1 : st[j].table # st[i].table
                   /\ \A q \in st[i].parents :
                          q \in DOMAIN T \/ \E j \in 1 .. i - 1 : st[j].table = q
                \/ /\ st[i].do = "index" /\ st[i].parents = {}
                   /\ \E j \in 1 .. i - 1 : st[j].table = st[i].table /\ st[j].do = "create"
                   /\ \A j \in 1 .. i - 1 : st[j].table = st[i].table => st[j].do = "create"
  <2>1. PICK k \in 1 .. h : i = 2 * k - 1 \/ i = 2 * k BY <1>1
  <2>2. \A j \in 1 .. i - 1 :
           \/ \E l \in 1 .. k - 1 : st[j].table = tb[l]
           \/ j = 2 * k - 1 /\ i = 2 * k
    <3>1. ASSUME NEW j \in 1 .. i - 1
          PROVE  \/ \E l \in 1 .. k - 1 : st[j].table = tb[l]
                 \/ j = 2 * k - 1 /\ i = 2 * k
      <4>1. j \in 1 .. n OBVIOUS
      <4>2. PICK l \in 1 .. h : j = 2 * l - 1 \/ j = 2 * l BY <1>1, <4>1
      <4>3. l \in 1 .. k - 1 \/ (l = k /\ j = 2 * k - 1 /\ i = 2 * k) BY <2>1, <4>2
      <4>4. st[j].table = tb[l] BY <1>2, <4>2
      <4>. QED BY <4>3, <4>4
    <3>. QED BY <3>1
  <2>3. /\ Creating(st[2 * k - 1], tb[k]) /\ Indexing(st[2 * k], tb[k])
        /\ tb[k] \notin DOMAIN T /\ \A j \in 1 .. k - 1 : tb[j] # tb[k]
        /\ \A q \in st[2 * k - 1].parents : q \in DOMAIN T \/ \E j \in 1 .. k - 1 : tb[j] = q
    BY DEF Pairs
  <2>4. CASE i = 2 * k - 1
    <3>1. \A j \in 1 .. i - 1 : st[j].table # tb[k] BY <2>2, <2>3, <2>4
    <3>2. \A l \in 1 .. k - 1 : 2 * l - 1 \in 1 .. i - 1 /\ l \in 1 .. h BY <2>4
    <3>3. \A l \in 1 .. k - 1 : st[2 * l - 1].table = tb[l] BY <1>2, <3>2
    <3>4. \A q \in st[i].parents : q \in DOMAIN T \/ \E j \in 1 .. i - 1 : st[j].table = q
      BY <2>3, <2>4, <3>2, <3>3
    <3>. QED BY <2>3, <2>4, <3>1, <3>4 DEF Creating
  <2>5. CASE i = 2 * k
    <3>1. 2 * k - 1 \in 1 .. i - 1 BY <2>5
    <3>2. \A j \in 1 .. i - 1 : st[j].table = tb[k] => j = 2 * k - 1 BY <2>2, <2>3
    <3>3. st[i].table = tb[k] /\ st[i].do = "index" /\ st[i].parents = {} /\ ~st[i].guarded
      BY <2>3, <2>5 DEF Indexing
    <3>4. st[2 * k - 1].table = tb[k] /\ st[2 * k - 1].do = "create" BY <1>2
    <3>. QED BY <3>1, <3>2, <3>3, <3>4
  <2>. QED BY <2>1, <2>4, <2>5
<1>4. Creations(T, st, n) BY <1>3 DEF Creations
<1>5. PICK U : LeadsTo(T, st, n, U) /\ Adds(T, st, n, U) BY <1>4, Creates
<1>6. DOMAIN U = DOMAIN T \cup {tb[k] : k \in 1 .. h}
  <2>. DEFINE A == {st[j].table : j \in 1 .. n}
              B == {tb[k] : k \in 1 .. h}
  <2>1. A = B
    <3>1. ASSUME NEW j \in 1 .. n PROVE st[j].table \in B
      <4>1. PICK k \in 1 .. h : j = 2 * k - 1 \/ j = 2 * k BY <1>1
      <4>. QED BY <1>2, <4>1
    <3>2. ASSUME NEW k \in 1 .. h PROVE tb[k] \in A
      <4>1. 2 * k \in 1 .. n /\ st[2 * k].table = tb[k] BY <1>2
      <4>. QED BY <4>1
    <3>. QED BY <3>1, <3>2
  <2>. QED BY <1>5, <2>1 DEF Adds
<1>7. ASSUME NEW k \in 1 .. h PROVE U[tb[k]] = New(st, 2 * k - 1, 2 * k)
  <2>1. Creating(st[2 * k - 1], tb[k]) /\ Indexing(st[2 * k], tb[k]) BY DEF Pairs
  <2>. QED BY <1>2, <1>5, <2>1, NewIs
<1>. QED BY <1>5, <1>6, <1>7 DEF Adds, PairsMade

\* 20260412_0006 creates five PLC tables and inserts a target.
LEMMA Statements6 ==
    LET st == R20260412_0006.up
    IN  /\ Len(st) = 11
        /\ Creating(st[1], "plc_targets") /\ Indexing(st[2], "plc_targets")
        /\ Creating(st[3], "plc_testcases") /\ Indexing(st[4], "plc_testcases")
        /\ Creating(st[5], "plc_test_runs") /\ Indexing(st[6], "plc_test_runs")
        /\ Creating(st[7], "plc_test_run_items") /\ Indexing(st[8], "plc_test_run_items")
        /\ Creating(st[9], "plc_test_run_io_logs") /\ Indexing(st[10], "plc_test_run_io_logs")
        /\ st[1].parents = {} /\ st[3].parents = {"plc_test_suites"}
        /\ st[5].parents = {"jobs", "plc_test_suites"}
        /\ st[7].parents = {"plc_test_runs", "plc_testcases"}
        /\ st[9].parents = {"plc_test_run_items"}
        /\ st[11] = Insert(<<"plc_targets", "row">>)
BY CreateTableIs, CreateIndexesIs
   DEF R20260412_0006, R20260412_0006_Runs, R20260412_0006_Items, Creating, Indexing

Made6(T, U) ==
    LET st == R20260412_0006.up
    IN  /\ Leads(T, st, U) /\ LeadsTo(T, st, 10, U) /\ Sound(U)
        /\ DOMAIN U = DOMAIN T \cup
               {"plc_targets", "plc_testcases", "plc_test_runs", "plc_test_run_items",
                "plc_test_run_io_logs"}
        /\ \A t \in DOMAIN T : U[t] = T[t]
        /\ U["plc_targets"] = New(st, 1, 2)
        /\ U["plc_testcases"] = New(st, 3, 4)
        /\ U["plc_test_runs"] = New(st, 5, 6)
        /\ U["plc_test_run_items"] = New(st, 7, 8)
        /\ U["plc_test_run_io_logs"] = New(st, 9, 10)

LEMMA Up6 ==
    ASSUME NEW T, Sound(T), "jobs" \in DOMAIN T, "plc_test_suites" \in DOMAIN T,
           \A t \in {"plc_targets", "plc_testcases", "plc_test_runs", "plc_test_run_items",
                     "plc_test_run_io_logs"} : t \notin DOMAIN T
    PROVE  \E U : Made6(T, U)
<1>. DEFINE st == R20260412_0006.up
            tb == <<"plc_targets", "plc_testcases", "plc_test_runs", "plc_test_run_items",
                    "plc_test_run_io_logs">>
<1>1. /\ tb[1] = "plc_targets" /\ tb[2] = "plc_testcases" /\ tb[3] = "plc_test_runs"
      /\ tb[4] = "plc_test_run_items" /\ tb[5] = "plc_test_run_io_logs"
  OBVIOUS
<1>2. 1 .. 5 = {1, 2, 3, 4, 5} OBVIOUS
<1>. HIDE DEF st, tb
<1>3. Pairs(T, st, tb, 5)
  <2>1. ASSUME NEW k \in {1, 2, 3, 4, 5}
        PROVE  /\ Creating(st[2 * k - 1], tb[k]) /\ Indexing(st[2 * k], tb[k])
               /\ tb[k] \notin DOMAIN T /\ \A j \in 1 .. k - 1 : tb[j] # tb[k]
               /\ \A q \in st[2 * k - 1].parents :
                      q \in DOMAIN T \/ \E j \in 1 .. k - 1 : tb[j] = q
    BY <1>1, Statements6 DEF st
  <2>. QED BY <1>2, <2>1 DEF Pairs
<1>4. PICK U : LeadsTo(T, st, 10, U) /\ Sound(U) /\ PairsMade(T, st, tb, 5, U)
  <2>1. 5 \in Nat /\ 10 = 2 * 5 OBVIOUS
  <2>. QED BY <1>3, <2>1, PairsCreate
<1>5. {tb[k] : k \in 1 .. 5} = {"plc_targets", "plc_testcases", "plc_test_runs",
                                "plc_test_run_items", "plc_test_run_io_logs"}
  BY <1>1, <1>2
<1>6. /\ st[11].do = "insert" /\ ~st[11].guarded /\ st[11].table = "plc_targets"
      /\ st[11].parents = {} /\ Len(st) = 11
  BY Statements6, DataIs DEF st
<1>7. Runs(U, st[11], U) BY <1>4, <1>5, <1>6, DataRuns DEF PairsMade
<1>8. LeadsTo(T, st, 11, U)
  <2>1. 10 \in Nat /\ 11 = 10 + 1 OBVIOUS
  <2>. QED BY <1>4, <1>7, <2>1, LeadsFurther
<1>9. /\ U["plc_targets"] = New(st, 1, 2) /\ U["plc_testcases"] = New(st, 3, 4)
      /\ U["plc_test_runs"] = New(st, 5, 6) /\ U["plc_test_run_items"] = New(st, 7, 8)
      /\ U["plc_test_run_io_logs"] = New(st, 9, 10)
  BY <1>1, <1>2, <1>4 DEF PairsMade
<1>. QED BY <1>4, <1>5, <1>6, <1>8, <1>9 DEF Leads, PairsMade, st, Made6
-----------------------------------------------------------------------------
(* What the statements of the chain are                                    *)

\* The foreign keys of the chain.
References ==
    {<<"plc_testcases", "plc_test_suites">>,
     <<"plc_testcases", "plc_execution_profiles">>,
     <<"plc_test_runs", "jobs">>,
     <<"plc_test_runs", "plc_test_suites">>,
     <<"plc_test_run_items", "plc_test_runs">>,
     <<"plc_test_run_items", "plc_testcases">>,
     <<"plc_test_run_io_logs", "plc_test_run_items">>,
     <<"plc_llm_suggestions", "plc_test_suites">>,
     <<"plc_llm_suggestions", "plc_testcases">>,
     <<"ft_dataset_versions", "ft_datasets">>,
     <<"ft_dataset_rows", "ft_dataset_versions">>,
     <<"ft_training_jobs", "ft_dataset_versions">>,
     <<"ft_training_jobs", "jobs">>,
     <<"ft_model_artifacts", "ft_training_jobs">>,
     <<"model_registry", "ft_model_artifacts">>,
     <<"rag_documents", "rag_collections">>,
     <<"rag_chunks", "rag_collections">>,
     <<"rag_chunks", "rag_documents">>,
     <<"rag_entities", "rag_collections">>,
     <<"rag_relationships", "rag_collections">>,
     <<"rag_relationships", "rag_entities">>,
     <<"rag_entity_chunks", "rag_chunks">>,
     <<"rag_entity_chunks", "rag_entities">>,
     <<"rag_communities", "rag_collections">>,
     <<"rag_community_members", "rag_communities">>,
     <<"rag_community_members", "rag_entities">>,
     <<"rag_query_traces", "rag_collections">>,
     <<"evaluation_sets", "rag_collections">>,
     <<"evaluation_questions", "evaluation_sets">>,
     <<"evaluation_questions", "rag_chunks">>,
     <<"evaluation_runs", "evaluation_sets">>,
     <<"evaluation_runs", "rag_collections">>,
     <<"evaluation_results", "evaluation_runs">>}

\* A new table refers to such tables, and to the parents its rows need.
Refers(t, P) ==
    /\ \A q \in P : <<t, q>> \in References
    /\ \A need \in Needs : need[1] = t => need[2] \in P

\* The data statements of the chain.
DataStatement(s) ==
    \/ /\ s.do = "insert"
       /\ s.table = "plc_targets" /\ s.to = <<"plc_targets", "row">>
    \/ /\ s.do = "insert_from" /\ s.from = <<"plc_test_suites", "cases">>
       /\ s.table = "plc_testcases" /\ s.to = <<"plc_testcases", "row">>
    \/ /\ s.do = "insert_from" /\ s.from = <<"plc_testcases", "row">>
       /\ s.table = "plc_execution_profiles" /\ s.to = <<"plc_execution_profiles", "row">>
    \/ /\ s.do = "rewrite" /\ s.from = <<"ft_training_jobs", "sft_lora">>
       /\ s.table = "ft_training_jobs" /\ s.to = <<"ft_training_jobs", "sft_qlora">>
    \/ /\ s.do \in {"point_at", "set_dict"}
       /\ s.table \in {"plc_testcases", "plc_test_runs", "plc_test_run_items"}

\* Statements that change a table and no row.
Structural(s) == s.do \in {"add", "remove", "rename", "index", "unindex"}

\* The statements of an upgrade
Forward(s) ==
    \/ DataStatement(s)
    \/ Structural(s)
    \/ s.do = "create" /\ Refers(s.table, s.parents)
    \/ s.do = "refer" /\ \A q \in s.parents : <<s.table, q>> \in References
    \/ s.do = "drop" /\ s.table \notin DOMAIN ModelTables

\* and those of a downgrade.
Backward(s) ==
    \/ Structural(s)
    \/ s.do = "create" /\ Refers(s.table, s.parents)
    \/ s.do = "unrefer" /\ \A need \in Needs : need[1] = s.table => need[2] \notin s.parents
    \/ s.do = "drop"

\* The tables of the models.
LEMMA ModelNames ==
    DOMAIN ModelTables = {"jobs", "datasets", "rag_collections", "rag_documents", "rag_chunks",
                          "rag_entities", "rag_relationships", "rag_entity_chunks",
                          "rag_communities", "rag_community_members", "rag_query_traces",
                          "evaluation_sets", "evaluation_questions", "evaluation_runs",
                          "evaluation_results"}
<1>1. DOMAIN JobTables = {"jobs", "datasets"} BY DEF JobTables
<1>2. DOMAIN CollectionTables = {"rag_collections", "rag_documents", "rag_chunks"}
  BY DEF CollectionTables
<1>3. DOMAIN GraphTables = {"rag_entities", "rag_relationships", "rag_entity_chunks",
                            "rag_communities", "rag_community_members", "rag_query_traces"}
  BY DEF GraphTables
<1>4. DOMAIN EvaluationTables = {"evaluation_sets", "evaluation_questions",
                                 "evaluation_runs", "evaluation_results"}
  BY DEF EvaluationTables
<1>5. DOMAIN ModelTables = UNION {DOMAIN JobTables, DOMAIN CollectionTables,
                                  DOMAIN GraphTables, DOMAIN EvaluationTables}
  BY DEF ModelTables
<1>. QED BY <1>1, <1>2, <1>3, <1>4, <1>5

\* The constructors make such statements.
LEMMA Usual ==
    ASSUME NEW t, NEW X
    PROVE  /\ Forward(CreateIndexes(t, X)) /\ Backward(CreateIndexes(t, X))
           /\ Forward(DropIndexes(t, X)) /\ Backward(DropIndexes(t, X))
           /\ Forward(AddColumns(t, X)) /\ Backward(AddColumns(t, X))
           /\ Forward(DropColumns(t, X)) /\ Backward(DropColumns(t, X))
BY CreateIndexesIs, DropIndexesIs, AddColumnsIs, DropColumnsIs
   DEF Forward, Backward, Structural

LEMMA UsualTable ==
    ASSUME NEW t, NEW C, NEW P
    PROVE  Refers(t, P) => Forward(CreateTable(t, C, P)) /\ Backward(CreateTable(t, C, P))
BY CreateTableIs DEF Forward, Backward

LEMMA UsualDrop ==
    ASSUME NEW t
    PROVE  /\ Backward(DropTable(t))
           /\ t \notin DOMAIN ModelTables => Forward(DropTable(t))
BY DropTableIs DEF Forward, Backward

\* The new tables of the chain.
LEMMA EachRefers ==
    /\ Refers("jobs", {})
    /\ Refers("worker_heartbeats", {})
    /\ Refers("datasets", {})
    /\ Refers("plc_test_suites", {})
    /\ Refers("plc_targets", {})
    /\ Refers("plc_testcases", {"plc_test_suites"})
    /\ Refers("plc_test_runs", {"jobs", "plc_test_suites"})
    /\ Refers("plc_test_run_items", {"plc_test_runs", "plc_testcases"})
    /\ Refers("plc_test_run_io_logs", {"plc_test_run_items"})
    /\ Refers("plc_llm_suggestions", {"plc_test_suites", "plc_testcases"})
    /\ Refers("plc_execution_profiles", {})
    /\ Refers("ft_datasets", {})
    /\ Refers("ft_dataset_versions", {"ft_datasets"})
    /\ Refers("ft_dataset_rows", {"ft_dataset_versions"})
    /\ Refers("ft_training_jobs", {"ft_dataset_versions", "jobs"})
    /\ Refers("ft_model_artifacts", {"ft_training_jobs"})
    /\ Refers("model_registry", {"ft_model_artifacts"})
    /\ Refers("rag_collections", {})
    /\ Refers("rag_documents", {"rag_collections"})
    /\ Refers("rag_chunks", {"rag_collections", "rag_documents"})
    /\ Refers("rag_entities", {"rag_collections"})
    /\ Refers("rag_relationships", {"rag_collections", "rag_entities"})
    /\ Refers("rag_entity_chunks", {"rag_chunks", "rag_entities"})
    /\ Refers("rag_communities", {"rag_collections"})
    /\ Refers("rag_community_members", {"rag_communities", "rag_entities"})
    /\ Refers("rag_query_traces", {"rag_collections"})
    /\ Refers("evaluation_sets", {"rag_collections"})
    /\ Refers("evaluation_questions", {"evaluation_sets", "rag_chunks"})
    /\ Refers("evaluation_runs", {"evaluation_sets", "rag_collections"})
    /\ Refers("evaluation_results", {"evaluation_runs"})
BY DEF Refers, References, Needs
\* The constructors of the data statements, of foreign keys and of guards.
LEMMA UsualData ==
    /\ Forward(Insert(<<"plc_targets", "row">>))
    /\ Forward(InsertFrom(<<"plc_test_suites", "cases">>, <<"plc_testcases", "row">>))
    /\ Forward(InsertFrom(<<"plc_testcases", "row">>, <<"plc_execution_profiles", "row">>))
    /\ Forward(Rewrite(<<"ft_training_jobs", "sft_lora">>, <<"ft_training_jobs", "sft_qlora">>))
    /\ Forward(PointAt("plc_testcases", "plc_execution_profiles"))
    /\ Forward(SetDict("plc_test_runs")) /\ Forward(SetDict("plc_test_run_items"))
<1>. USE DEF Statement, Forward, DataStatement
<1>1. Forward(Insert(<<"plc_targets", "row">>)) BY DEF Insert
<1>2. Forward(InsertFrom(<<"plc_test_suites", "cases">>, <<"plc_testcases", "row">>))
  BY DEF InsertFrom
<1>3. Forward(InsertFrom(<<"plc_testcases", "row">>, <<"plc_execution_profiles", "row">>))
  BY DEF InsertFrom
<1>4. Forward(Rewrite(<<"ft_training_jobs", "sft_lora">>, <<"ft_training_jobs", "sft_qlora">>))
  BY DEF Rewrite
<1>5. Forward(PointAt("plc_testcases", "plc_execution_profiles")) BY DEF PointAt
<1>6. Forward(SetDict("plc_test_runs")) /\ Forward(SetDict("plc_test_run_items"))
  BY DEF SetDict
<1>. QED BY <1>1, <1>2, <1>3, <1>4, <1>5, <1>6

LEMMA Referring ==
    /\ Forward(Refer("plc_testcases", "plc_execution_profiles"))
    /\ Backward(Unrefer("plc_testcases", "plc_execution_profiles"))
BY ReferIs DEF Forward, Backward, References, Needs

LEMMA GuardedDropIs ==
    ASSUME NEW t
    PROVE  /\ IfPresent(DropTable(t)).do = "drop" /\ IfPresent(DropTable(t)).table = t
           /\ IfPresent(DropTable(t)).columns = {} /\ IfPresent(DropTable(t)).indexes = {}
           /\ IfPresent(DropTable(t)).parents = {} /\ IfPresent(DropTable(t)).guarded
BY DEF IfPresent, DropTable, Statement

LEMMA GuardedIs ==
    ASSUME NEW t, NEW X
    PROVE  /\ IfPresent(DropIndexes(t, X)).do = "unindex"
           /\ IfPresent(DropIndexes(t, X)).table = t
           /\ IfPresent(DropIndexes(t, X)).columns = {}
           /\ IfPresent(DropIndexes(t, X)).indexes = X
           /\ IfPresent(DropIndexes(t, X)).parents = {} /\ IfPresent(DropIndexes(t, X)).guarded
           /\ IfPresent(CreateIndexes(t, X)).do = "index"
           /\ IfPresent(CreateIndexes(t, X)).table = t
           /\ IfPresent(CreateIndexes(t, X)).columns = {}
           /\ IfPresent(CreateIndexes(t, X)).indexes = X
           /\ IfPresent(CreateIndexes(t, X)).parents = {}
           /\ IfPresent(CreateIndexes(t, X)).guarded
           /\ IfPresent(DropColumns(t, X)).do = "remove"
           /\ IfPresent(DropColumns(t, X)).table = t
           /\ IfPresent(DropColumns(t, X)).columns = X
           /\ IfPresent(DropColumns(t, X)).indexes = {}
           /\ IfPresent(DropColumns(t, X)).parents = {} /\ IfPresent(DropColumns(t, X)).guarded
<1>1. /\ IfPresent(DropIndexes(t, X)).do = "unindex"
      /\ IfPresent(DropIndexes(t, X)).table = t
      /\ IfPresent(DropIndexes(t, X)).columns = {}
      /\ IfPresent(DropIndexes(t, X)).indexes = X
      /\ IfPresent(DropIndexes(t, X)).parents = {} /\ IfPresent(DropIndexes(t, X)).guarded
  BY DEF IfPresent, DropIndexes, Statement
<1>2. /\ IfPresent(CreateIndexes(t, X)).do = "index"
      /\ IfPresent(CreateIndexes(t, X)).table = t
      /\ IfPresent(CreateIndexes(t, X)).columns = {}
      /\ IfPresent(CreateIndexes(t, X)).indexes = X
      /\ IfPresent(CreateIndexes(t, X)).parents = {} /\ IfPresent(CreateIndexes(t, X)).guarded
  BY DEF IfPresent, CreateIndexes, Statement
<1>3. /\ IfPresent(DropColumns(t, X)).do = "remove"
      /\ IfPresent(DropColumns(t, X)).table = t
      /\ IfPresent(DropColumns(t, X)).columns = X
      /\ IfPresent(DropColumns(t, X)).indexes = {}
      /\ IfPresent(DropColumns(t, X)).parents = {} /\ IfPresent(DropColumns(t, X)).guarded
  BY DEF IfPresent, DropColumns, Statement
<1>. QED BY <1>1, <1>2, <1>3

LEMMA GuardedRenameIs ==
    ASSUME NEW t, NEW old, NEW new
    PROVE  /\ IfPresent(Rename(t, old, new)).do = "rename"
           /\ IfPresent(Rename(t, old, new)).table = t
           /\ IfPresent(Rename(t, old, new)).columns = {old}
           /\ IfPresent(Rename(t, old, new)).indexes = {}
           /\ IfPresent(Rename(t, old, new)).to = <<t, new>>
           /\ IfPresent(Rename(t, old, new)).parents = {}
           /\ IfPresent(Rename(t, old, new)).guarded
BY DEF IfPresent, Rename, Statement

LEMMA UsualGuarded ==
    ASSUME NEW t, NEW X
    PROVE  /\ Forward(IfPresent(DropIndexes(t, X))) /\ Backward(IfPresent(DropIndexes(t, X)))
           /\ Forward(IfPresent(CreateIndexes(t, X))) /\ Backward(IfPresent(CreateIndexes(t, X)))
           /\ Forward(IfPresent(DropColumns(t, X)))
BY GuardedIs DEF Forward, Backward, Structural

LEMMA UsualGuardedDrop ==
    ASSUME NEW t, t \notin DOMAIN ModelTables
    PROVE  Forward(IfPresent(DropTable(t)))
BY GuardedDropIs DEF Forward

LEMMA UsualRename ==
    ASSUME NEW t, NEW old, NEW new
    PROVE  Forward(IfPresent(Rename(t, old, new))) /\ Backward(IfPresent(Rename(t, old, new)))
BY GuardedRenameIs DEF Forward, Backward, Structural

\* The statements that are made from a list of tables.
LEMMA Retirement ==
    LET st == R20260523_0013.up
    IN  /\ Len(st) = 10
        /\ st[1] = IfPresent(DropTable("plc_test_run_io_logs"))
        /\ st[2] = IfPresent(DropTable("plc_test_run_items"))
        /\ st[3] = IfPresent(DropTable("plc_test_runs"))
        /\ st[4] = IfPresent(DropTable("plc_llm_suggestions"))
        /\ st[5] = IfPresent(DropTable("plc_testcases"))
        /\ st[6] = IfPresent(DropTable("plc_execution_profiles"))
        /\ st[7] = IfPresent(DropTable("plc_targets"))
        /\ st[8] = IfPresent(DropTable("plc_test_suites"))
        /\ st[9] = IfPresent(DropIndexes("jobs", {"plc_suite_status_created_at"}))
        /\ st[10] = IfPresent(DropColumns("jobs", {"plc_suite_id"}))
<1>. DEFINE o == PLC_TABLES_IN_DROP_ORDER
            d == [i \in DOMAIN o |-> IfPresent(DropTable(o[i]))]
            e == <<IfPresent(DropIndexes("jobs", {"plc_suite_status_created_at"})),
                   IfPresent(DropColumns("jobs", {"plc_suite_id"}))>>
<1>1. DOMAIN o = 1 .. 8 BY DEF PLC_TABLES_IN_DROP_ORDER
<1>2. /\ o[1] = "plc_test_run_io_logs" /\ o[2] = "plc_test_run_items"
      /\ o[3] = "plc_test_runs" /\ o[4] = "plc_llm_suggestions"
      /\ o[5] = "plc_testcases" /\ o[6] = "plc_execution_profiles"
      /\ o[7] = "plc_targets" /\ o[8] = "plc_test_suites"
  BY DEF PLC_TABLES_IN_DROP_ORDER
<1>3. R20260523_0013.up = d \o e BY DEF R20260523_0013
<1>4. Len(e) = 2 /\ e[1] = IfPresent(DropIndexes("jobs", {"plc_suite_status_created_at"}))
      /\ e[2] = IfPresent(DropColumns("jobs", {"plc_suite_id"}))
  OBVIOUS
<1>. HIDE DEF o
<1>5. \A i \in 1 .. 8 : d[i] = IfPresent(DropTable(o[i])) BY <1>1
<1>6. d \in Seq({d[i] : i \in 1 .. 8}) /\ Len(d) = 8 BY <1>1
<1>. QED BY <1>1, <1>2, <1>3, <1>4, <1>5, <1>6

LEMMA Clearance ==
    LET st == R20260607_0016.up
    IN  /\ Len(st) = 6
        /\ st[1] = IfPresent(DropTable("model_registry"))
        /\ st[2] = IfPresent(DropTable("ft_model_artifacts"))
        /\ st[3] = IfPresent(DropTable("ft_training_jobs"))
        /\ st[4] = IfPresent(DropTable("ft_dataset_rows"))
        /\ st[5] = IfPresent(DropTable("ft_dataset_versions"))
        /\ st[6] = IfPresent(DropTable("ft_datasets"))
<1>. DEFINE o == DROP_ORDER
            d == [i \in DOMAIN o |-> IfPresent(DropTable(o[i]))]
<1>1. DOMAIN o = 1 .. 6 BY DEF DROP_ORDER
<1>2. /\ o[1] = "model_registry" /\ o[2] = "ft_model_artifacts" /\ o[3] = "ft_training_jobs"
      /\ o[4] = "ft_dataset_rows" /\ o[5] = "ft_dataset_versions" /\ o[6] = "ft_datasets"
  BY DEF DROP_ORDER
<1>3. R20260607_0016.up = d BY DEF R20260607_0016
<1>. HIDE DEF o
<1>4. \A i \in 1 .. 6 : d[i] = IfPresent(DropTable(o[i])) BY <1>1
<1>5. Len(d) = 6 BY <1>1
<1>. QED BY <1>2, <1>3, <1>4, <1>5

\* Every statement of an upgrade is one of them,
LEMMA ChainForward ==
    \A n \in 1 .. HeadRevision :
        LET st == Chain[n].up IN Len(st) \in Nat /\ \A i \in 1 .. Len(st) : Forward(st[i])
<1>. DEFINE All(st, m) == Len(st) = m /\ \A i \in 1 .. m : Forward(st[i])
<1>. USE Usual, UsualTable, UsualDrop, EachRefers
<1>1. All(R20260227_0001.up, 1) BY DEF R20260227_0001
<1>2. All(R20260227_0002.up, 1) BY DEF R20260227_0002
<1>3. All(R20260302_0003.up, 2) BY DEF R20260302_0003
<1>4. All(R20260308_0004.up, 4) BY DEF R20260308_0004
<1>5. All(R20260411_0005.up, 4) BY DEF R20260411_0005
<1>6. All(R20260412_0006.up, 11)
  BY UsualData DEF R20260412_0006, R20260412_0006_Runs, R20260412_0006_Items
<1>7. All(R20260412_0007.up, 1) BY UsualData DEF R20260412_0007
<1>8. All(R20260412_0008.up, 2) BY DEF R20260412_0008
<1>9. All(R20260415_0009.up, 10)
  BY UsualData, Referring DEF R20260415_0009, R20260415_0009_Columns, R20260415_0009_Data
<1>10. All(R20260415_0010.up, 2) BY DEF R20260415_0010
<1>11. All(R20260417_0010.up, 16)
  BY DEF R20260417_0010, R20260417_0010_Training, R20260417_0010_Registry
<1>12. All(R20260417_0011.up, 2) BY DEF R20260417_0011
<1>13. All(R20260523_0012.up, 1) BY UsualData DEF R20260523_0012
<1>14. All(R20260523_0013.up, 10) BY Retirement, UsualGuarded, UsualGuardedDrop, ModelNames
<1>15. All(R20260523_0014.up, 3) BY UsualGuarded, UsualRename DEF R20260523_0014
<1>16. All(Rb4aadc4ac8f6.up, 2) BY DEF Rb4aadc4ac8f6
<1>17. All(R20260525_0015.up, 1) BY ModelNames DEF R20260525_0015
<1>18. All(R20260607_0016.up, 6) BY Clearance, UsualGuarded, UsualGuardedDrop, ModelNames
<1>19. All(R20260607_0017.up, 14) BY DEF R20260607_0017, R20260607_0017_Graph
<1>20. All(R20260607_0018.up, 4) BY DEF R20260607_0018
<1>21. All(R20260607_0019.up, 4) BY DEF R20260607_0019
<1>22. All(R20260609_0020.up, 1) BY DEF R20260609_0020
<1>. HIDE DEF All
<1>23. ASSUME NEW n \in 1 .. 22 PROVE \E m \in Nat : All(Chain[n].up, m)
  <2>1. CASE n \in 1 .. 6 BY <2>1, <1>1, <1>2, <1>3, <1>4, <1>5, <1>6 DEF Chain
  <2>2. CASE n \in 7 .. 12 BY <2>2, <1>7, <1>8, <1>9, <1>10, <1>11, <1>12 DEF Chain
  <2>3. CASE n \in 13 .. 17 BY <2>3, <1>13, <1>14, <1>15, <1>16, <1>17 DEF Chain
  <2>4. CASE n \in 18 .. 22 BY <2>4, <1>18, <1>19, <1>20, <1>21, <1>22 DEF Chain
  <2>. QED BY <2>1, <2>2, <2>3, <2>4
<1>. QED BY <1>23, TwentyTwo DEF All

\* and every statement of a downgrade.
LEMMA ChainBackward ==
    \A n \in 1 .. HeadRevision :
        LET st == Chain[n].down IN Len(st) \in Nat /\ \A i \in 1 .. Len(st) : Backward(st[i])
<1>. DEFINE All(st, m) == Len(st) = m /\ \A i \in 1 .. m : Backward(st[i])
<1>. USE Usual, UsualTable, UsualDrop, EachRefers
<1>1. All(R20260227_0001.down, 1) BY DEF R20260227_0001
<1>2. All(R20260227_0002.down, 1) BY DEF R20260227_0002
<1>3. All(R20260302_0003.down, 2) BY DEF R20260302_0003
<1>4. All(R20260308_0004.down, 4) BY DEF R20260308_0004
<1>5. All(R20260411_0005.down, 4) BY DEF R20260411_0005
<1>6. All(R20260412_0006.down, 10) BY DEF R20260412_0006
<1>7. All(R20260412_0007.down, 0) BY DEF R20260412_0007
<1>8. All(R20260412_0008.down, 2) BY DEF R20260412_0008
<1>9. All(R20260415_0009.down, 6) BY Referring DEF R20260415_0009
<1>10. All(R20260415_0010.down, 2) BY DEF R20260415_0010
<1>11. All(R20260417_0010.down, 16) BY DEF R20260417_0010
<1>12. All(R20260417_0011.down, 2) BY DEF R20260417_0011
<1>13. All(R20260523_0012.down, 0) BY DEF R20260523_0012
<1>14. All(R20260523_0013.down, 0) BY DEF R20260523_0013
<1>15. All(R20260523_0014.down, 3) BY UsualGuarded, UsualRename DEF R20260523_0014
<1>16. All(Rb4aadc4ac8f6.down, 2) BY DEF Rb4aadc4ac8f6
<1>17. All(R20260525_0015.down, 1) BY DEF R20260525_0015
<1>18. All(R20260607_0016.down, 12)
  BY DEF R20260607_0016, R20260607_0016_Down_Datasets, R20260607_0016_Down_Training, R20260607_0016_Down_Indexes
<1>19. All(R20260607_0017.down, 7) BY DEF R20260607_0017, R20260607_0017_Down
<1>20. All(R20260607_0018.down, 2) BY DEF R20260607_0018
<1>21. All(R20260607_0019.down, 2) BY DEF R20260607_0019
<1>22. All(R20260609_0020.down, 1) BY DEF R20260609_0020
<1>. HIDE DEF All
<1>23. ASSUME NEW n \in 1 .. 22 PROVE \E m \in Nat : All(Chain[n].down, m)
  <2>1. CASE n \in 1 .. 6 BY <2>1, <1>1, <1>2, <1>3, <1>4, <1>5, <1>6 DEF Chain
  <2>2. CASE n \in 7 .. 12 BY <2>2, <1>7, <1>8, <1>9, <1>10, <1>11, <1>12 DEF Chain
  <2>3. CASE n \in 13 .. 17 BY <2>3, <1>13, <1>14, <1>15, <1>16, <1>17 DEF Chain
  <2>4. CASE n \in 18 .. 22 BY <2>4, <1>18, <1>19, <1>20, <1>21, <1>22 DEF Chain
  <2>. QED BY <2>1, <2>2, <2>3, <2>4
<1>. QED BY <1>23, TwentyTwo DEF All

-----------------------------------------------------------------------------
(* What every statement of the chain keeps                                 *)

\* Foreign keys are those of the chain, none that rows need is missing, and
\* those of the rows hold.
Tidy(T, rows) ==
    /\ Sound(T)
    /\ \A t \in DOMAIN T : \A q \in T[t].parents : <<t, q>> \in References
    /\ \A need \in Needs : need[1] \in DOMAIN T => need[2] \in T[need[1]].parents
    /\ Consistent(T, rows)

\* The rows that upgrades insert.
Inserted == {<<"plc_targets", "row">>, <<"plc_testcases", "row">>,
             <<"plc_execution_profiles", "row">>, <<"ft_training_jobs", "sft_qlora">>}

\* The tables after a statement that neither creates nor drops one.
LEMMA SameTables ==
    ASSUME NEW T, Sound(T), NEW s, Fits(T, s), s.do \notin {"create", "drop"},
           NEW U, U = TablesAfter(T, s)
    PROVE  /\ DOMAIN U = DOMAIN T /\ s.table \in DOMAIN T
           /\ \A t \in DOMAIN T : t # s.table => U[t] = T[t]
           /\ U[s.table] = AlteredTable(T[s.table], s)
<1>1. Follow(T, s, U) BY TablesAfterFollow DEF Sound
<1>2. s.table \in DOMAIN T BY DEF Fits
<1>. QED BY <1>1, <1>2 DEF Follow

LEMMA ForeignKeysKept ==
    ASSUME NEW T, NEW rows, Tidy(T, rows), NEW s, Forward(s) \/ Backward(s), Fits(T, s),
           NEW U, U = TablesAfter(T, s), Sound(U)
    PROVE  /\ \A t \in DOMAIN U : \A q \in U[t].parents : <<t, q>> \in References
           /\ \A need \in Needs : need[1] \in DOMAIN U => need[2] \in U[need[1]].parents
<1>. DEFINE t == s.table
<1>1. /\ \A o \in DOMAIN T : \A q \in T[o].parents : <<o, q>> \in References
      /\ \A need \in Needs : need[1] \in DOMAIN T => need[2] \in T[need[1]].parents
      /\ Sound(T)
  BY DEF Tidy
<1>2. Follow(T, s, U) BY <1>1, TablesAfterFollow DEF Sound
<1>3. CASE s.do = "create"
  <2>1. /\ DOMAIN U = DOMAIN T \cup {t} /\ U[t].parents = s.parents
        /\ \A o \in DOMAIN T : o # t => U[o] = T[o]
    BY <1>2, <1>3 DEF Follow
  <2>2. Refers(t, s.parents) BY <1>3 DEF Forward, Backward, DataStatement, Structural
  <2>. QED BY <1>1, <2>1, <2>2 DEF Refers
<1>4. CASE s.do = "drop"
  <2>1. DOMAIN U = DOMAIN T \ {t} /\ \A o \in DOMAIN U : U[o] = T[o]
    BY <1>2, <1>4 DEF Follow
  <2>. QED BY <1>1, <2>1
<1>5. CASE s.do \notin {"create", "drop"}
  <2>1. /\ DOMAIN U = DOMAIN T /\ t \in DOMAIN T
        /\ \A o \in DOMAIN T : o # t => U[o] = T[o]
        /\ U[t] = AlteredTable(T[t], s)
    BY <1>1, <1>5, SameTables
  <2>2. CASE s.do = "refer"
    <3>1. U[t].parents = T[t].parents \cup s.parents BY <2>1, <2>2 DEF AlteredTable
    <3>2. \A q \in s.parents : <<t, q>> \in References
      BY <2>2 DEF Forward, Backward, DataStatement, Structural
    <3>. QED BY <1>1, <2>1, <3>1, <3>2
  <2>3. CASE s.do = "unrefer"
    <3>1. U[t].parents = T[t].parents \ s.parents BY <2>1, <2>3 DEF AlteredTable
    <3>2. \A need \in Needs : need[1] = t => need[2] \notin s.parents
      BY <2>3 DEF Forward, Backward, DataStatement, Structural
    <3>. QED BY <1>1, <2>1, <3>1, <3>2
  <2>4. CASE s.do \notin {"refer", "unrefer"}
    <3>1. U[t].parents = T[t].parents BY <2>1, <2>4 DEF AlteredTable
    <3>. QED BY <1>1, <2>1, <3>1
  <2>. QED BY <2>2, <2>3, <2>4
<1>. QED BY <1>3, <1>4, <1>5

\* What a statement does to the rows.
LEMMA RowsKept ==
    ASSUME NEW T, NEW rows, Tidy(T, rows), NEW s, Forward(s) \/ Backward(s), Fits(T, s),
           NEW new, new = RowsAfter(rows, s)
    PROVE  /\ new \subseteq rows \cup Inserted
           /\ Backward(s) => new \subseteq rows
           /\ Forward(s) => \A row \in rows : row[1] \in DOMAIN ModelTables => row \in new
           /\ s.do = "drop" => new = {row \in rows : row[1] # s.table}
           /\ s.do # "drop" =>
                 /\ \A row \in new : row \in rows \/ (row[1] = s.table /\ DataStatement(s))
                 /\ \A row \in rows : row \in new \/ (row[1] = s.table /\ HasRows(new, s.table))
<1>1. CASE s.do = "drop"
  <2>1. new = {row \in rows : row[1] # s.table} BY <1>1 DEF RowsAfter
  <2>2. Forward(s) => s.table \notin DOMAIN ModelTables
    BY <1>1 DEF Forward, DataStatement, Structural
  <2>. QED BY <1>1, <2>1, <2>2
<1>2. CASE s.do \in {"insert", "insert_from", "rewrite"}
  <2>1. DataStatement(s) /\ ~Backward(s) BY <1>2 DEF Forward, Backward, Structural
  <2>2. s.to \in Inserted /\ s.to[1] = s.table BY <1>2, <2>1 DEF DataStatement, Inserted
  <2>3. CASE s.do = "rewrite"
    <3>1. s.from = <<"ft_training_jobs", "sft_lora">> /\ s.from[1] = s.table
      BY <2>1, <2>3 DEF DataStatement
    <3>2. s.from[1] \notin DOMAIN ModelTables BY <3>1, ModelNames
    <3>3. \/ s.from \notin rows /\ new = rows
          \/ s.from \in rows /\ new = (rows \ {s.from}) \cup {s.to}
      BY <2>3 DEF RowsAfter
    <3>4. CASE s.from \notin rows /\ new = rows BY <2>1, <2>3, <3>4
    <3>5. CASE s.from \in rows /\ new = (rows \ {s.from}) \cup {s.to}
      <4>1. HasRows(new, s.table) BY <2>2, <3>5 DEF HasRows
      <4>. QED BY <2>1, <2>2, <2>3, <3>1, <3>2, <3>5, <4>1
    <3>. QED BY <3>3, <3>4, <3>5
  <2>4. CASE s.do # "rewrite"
    <3>1. new = rows \/ new = rows \cup {s.to} BY <1>2, <2>4 DEF RowsAfter
    <3>. QED BY <1>2, <2>1, <2>2, <2>4, <3>1
  <2>. QED BY <2>3, <2>4
<1>3. CASE s.do \notin {"drop", "insert", "insert_from", "rewrite"}
  <2>1. new = rows BY <1>3 DEF RowsAfter
  <2>. QED BY <1>3, <2>1
<1>. QED BY <1>1, <1>2, <1>3

LEMMA ConsistentKept ==
    ASSUME NEW T, NEW rows, Tidy(T, rows), NEW s, Forward(s) \/ Backward(s), Fits(T, s),
           NEW U, U = TablesAfter(T, s), NEW new, new = RowsAfter(rows, s)
    PROVE  Consistent(U, new)
<1>. DEFINE t == s.table
<1>1. /\ \A row \in rows : row[1] \in DOMAIN T
      /\ \A need \in Needs : HasRows(rows, need[1]) => HasRows(rows, need[2])
      /\ \A need \in Needs : need[1] \in DOMAIN T => need[2] \in T[need[1]].parents
      /\ Sound(T)
  BY DEF Tidy, Consistent
<1>2. Follow(T, s, U) BY <1>1, TablesAfterFollow DEF Sound
<1>3. CASE s.do = "create"
  <2>1. DOMAIN U = DOMAIN T \cup {t} BY <1>2, <1>3 DEF Follow
  <2>2. new = rows BY <1>3 DEF RowsAfter
  <2>. QED BY <1>1, <2>1, <2>2 DEF Consistent
<1>4. CASE s.do = "drop"
  <2>1. DOMAIN U = DOMAIN T \ {t} BY <1>2, <1>4 DEF Follow
  <2>2. new = {row \in rows : row[1] # t} BY <1>4 DEF RowsAfter
  <2>3. ASSUME NEW need \in Needs, HasRows(new, need[1]) PROVE HasRows(new, need[2])
    <3>1. need[1] # t /\ HasRows(rows, need[1]) /\ need[1] \in DOMAIN T
      BY <1>1, <2>2, <2>3 DEF HasRows
    <3>2. \A o \in DOMAIN T \ {t} : t \notin T[o].parents BY <1>4 DEF Fits
    <3>3. need[2] # t BY <1>1, <3>1, <3>2
    <3>. QED BY <1>1, <2>2, <2>3, <3>1, <3>3 DEF HasRows
  <2>. QED BY <1>1, <2>1, <2>2, <2>3 DEF Consistent
<1>5. CASE s.do \notin {"create", "drop"}
  <2>1. DOMAIN U = DOMAIN T /\ t \in DOMAIN T BY <1>1, <1>5, SameTables
  <2>2. /\ \A row \in new : row \in rows \/ (row[1] = t /\ DataStatement(s))
        /\ \A row \in rows : row \in new \/ (row[1] = t /\ HasRows(new, t))
    BY <1>5, RowsKept
  <2>3. ASSUME NEW need \in Needs, HasRows(new, need[1]) PROVE HasRows(new, need[2])
    <3>1. PICK row \in new : row[1] = need[1] BY <2>3 DEF HasRows
    <3>2. HasRows(rows, need[2]) => HasRows(new, need[2])
      BY <2>2 DEF HasRows
    <3>3. CASE row \in rows BY <1>1, <3>1, <3>2, <3>3 DEF HasRows
    <3>4. CASE row \notin rows
      <4>1. need[1] = t /\ DataStatement(s) BY <2>2, <3>1, <3>4
      <4>2. CASE s.do = "insert_from" /\ s.from = <<"plc_test_suites", "cases">>
                 /\ t = "plc_testcases"
        <5>1. new = rows \/ s.from \in rows BY <4>2 DEF RowsAfter
        <5>2. s.from \in rows BY <3>1, <3>4, <5>1
        <5>3. need[2] = "plc_test_suites" BY <4>1, <4>2 DEF Needs
        <5>4. HasRows(rows, need[2]) BY <4>2, <5>2, <5>3 DEF HasRows
        <5>. QED BY <3>2, <5>4
      <4>3. CASE s.do \in {"point_at", "set_dict"}
        <5>1. new = rows BY <4>3 DEF RowsAfter
        <5>. QED BY <3>1, <3>4, <5>1
      <4>4. CASE t \in {"plc_targets", "plc_execution_profiles", "ft_training_jobs"}
        BY <4>1, <4>4 DEF Needs
      <4>. QED BY <4>1, <4>2, <4>3, <4>4 DEF DataStatement
    <3>. QED BY <3>3, <3>4
  <2>. QED BY <1>1, <2>1, <2>2, <2>3 DEF Consistent
<1>. QED BY <1>3, <1>4, <1>5

LEMMA StatementTidy ==
    ASSUME NEW T, NEW rows, Tidy(T, rows), NEW s, Forward(s) \/ Backward(s), Fits(T, s),
           ~(s.guarded /\ ~Present(T, s))
    PROVE  Tidy(TablesAfter(T, s), RowsAfter(rows, s))
<1>1. Runs(T, s, TablesAfter(T, s)) BY DEF Runs
<1>2. Sound(TablesAfter(T, s)) BY <1>1, RunsSound DEF Tidy
<1>. QED BY <1>2, ForeignKeysKept, ConsistentKept DEF Tidy

\* What a command does, whether it comes to its end or not.
LEMMA ExecuteTidy ==
    ASSUME NEW d, Tidy(d.tables, d.rows), NEW st, Len(st) \in Nat,
           \A i \in 1 .. Len(st) : Forward(st[i]) \/ Backward(st[i]),
           NEW e, e = Execute(d, st).db
    PROVE  /\ Tidy(e.tables, e.rows)
           /\ e.rows \subseteq d.rows \cup Inserted
           /\ (\A i \in 1 .. Len(st) : Backward(st[i])) => e.rows \subseteq d.rows
           /\ (\A i \in 1 .. Len(st) : Forward(st[i])) =>
                 \A row \in d.rows : row[1] \in DOMAIN ModelTables => row \in e.rows
<1>. DEFINE n == Len(st)
            Down == \A i \in 1 .. n : Backward(st[i])
            Up == \A i \in 1 .. n : Forward(st[i])
<1>1. PICK f : /\ f[0] = [ok |-> TRUE, db |-> d]
               /\ \A i \in 1 .. n : f[i] = Executed(f[i - 1], st[i])
               /\ Execute(d, st) = f[n]
  BY ExecuteIs
<1>2. /\ n \in Nat /\ \A i \in 1 .. n : Forward(st[i]) \/ Backward(st[i])
      /\ Down => \A i \in 1 .. n : Backward(st[i])
      /\ Up => \A i \in 1 .. n : Forward(st[i])
  OBVIOUS
<1>. HIDE DEF n, Down, Up
<1>. DEFINE Fine(x) == /\ DOMAIN x = {"ok", "db"}
                       /\ Tidy(x.db.tables, x.db.rows)
                       /\ x.db.rows \subseteq d.rows \cup Inserted
                       /\ Down => x.db.rows \subseteq d.rows
                       /\ Up => \A row \in d.rows :
                                   row[1] \in DOMAIN ModelTables => row \in x.db.rows
            Good == {i \in 0 .. n : Fine(f[i])}
<1>3. 0 \in Good
  <2>1. f[0].db = d /\ DOMAIN f[0] = {"ok", "db"} BY <1>1
  <2>. QED BY <1>2, <2>1
<1>4. ASSUME NEW i \in 1 .. n, i - 1 \in Good PROVE i \in Good
  <2>. DEFINE x == f[i - 1]
              s == st[i]
              T == x.db.tables
              rows == x.db.rows
  <2>1. i \in 0 .. n /\ Fine(x) BY <1>2, <1>4
  <2>2. f[i] = Executed(x, s) BY <1>1
  <2>3. /\ Forward(s) \/ Backward(s)
        /\ Down => Backward(s)
        /\ Up => Forward(s)
    BY <1>2
  <2>. HIDE DEF x, s
  <2>4. CASE f[i].db = x.db /\ DOMAIN f[i] = {"ok", "db"} BY <2>1, <2>4
  <2>5. CASE x.ok /\ ~(s.guarded /\ ~Present(T, s)) /\ Can(x.db, s)
    <3>1. f[i] = [ok |-> TRUE, db |-> Do(x.db, s)] BY <2>2, <2>5 DEF Executed
    <3>2. /\ DOMAIN f[i] = {"ok", "db"} /\ f[i].db.tables = TablesAfter(T, s)
          /\ f[i].db.rows = RowsAfter(rows, s)
      BY <3>1 DEF Do
    <3>3. Fits(T, s) BY <2>5 DEF Can
    <3>4. Tidy(f[i].db.tables, f[i].db.rows) BY <2>1, <2>3, <2>5, <3>2, <3>3, StatementTidy
    <3>5. /\ f[i].db.rows \subseteq rows \cup Inserted
          /\ Backward(s) => f[i].db.rows \subseteq rows
          /\ Forward(s) => \A row \in rows :
                              row[1] \in DOMAIN ModelTables => row \in f[i].db.rows
      BY <2>1, <2>3, <3>2, <3>3, RowsKept
    <3>. QED BY <2>1, <2>3, <3>2, <3>4, <3>5
  <2>6. CASE x.ok /\ ~(s.guarded /\ ~Present(T, s)) /\ ~Can(x.db, s)
    <3>1. f[i] = [x EXCEPT !.ok = FALSE] BY <2>2, <2>6 DEF Executed
    <3>2. f[i].db = x.db /\ DOMAIN f[i] = {"ok", "db"} BY <2>1, <3>1
    <3>. QED BY <2>4, <3>2
  <2>7. CASE ~x.ok \/ (s.guarded /\ ~Present(T, s))
    <3>1. f[i] = x BY <2>2, <2>7 DEF Executed
    <3>. QED BY <2>1, <2>4, <3>1
  <2>. QED BY <2>5, <2>6, <2>7
<1>. HIDE DEF Fine, Good
<1>5. n \in Good
  <2>1. \A i \in 1 .. n : i - 1 \in Good => i \in Good BY <1>4
  <2>2. \A i \in 0 .. n : i \in Good BY <1>2, <1>3, <2>1, UpTo, Zenon
  <2>. QED BY <1>2, <2>2
<1>6. Fine(f[n]) BY <1>5 DEF Good
<1>. QED BY <1>1, <1>6 DEF Fine, n, Up, Down
-----------------------------------------------------------------------------
(* The commands, and the rows                                              *)

LEMMA EmptyTidy == Tidy(EmptyDatabase.tables, EmptyDatabase.rows)
<1>1. EmptyDatabase.tables = <<>> /\ EmptyDatabase.rows = {} BY DEF EmptyDatabase
<1>2. DOMAIN EmptyDatabase.tables = {} BY <1>1
<1>3. Sound(EmptyDatabase.tables) BY <1>1, <1>2 DEF Sound, Shaped
<1>4. Consistent(EmptyDatabase.tables, EmptyDatabase.rows) BY <1>1 DEF Consistent, HasRows
<1>5. \A need \in Needs : need[1] \notin DOMAIN EmptyDatabase.tables BY <1>2
<1>. QED BY <1>2, <1>3, <1>4, <1>5 DEF Tidy

\* What the chain builds is tidy.
LEMMA BuiltTidy == \A n \in 0 .. 22 : Tidy(Built[n + 1].tables, Built[n + 1].rows)
<1>. DEFINE Good == {n \in 0 .. 22 : Tidy(Built[n + 1].tables, Built[n + 1].rows)}
<1>1. 0 \in Good BY EmptyTidy, BuiltIs
<1>2. ASSUME NEW n \in 1 .. 22, n - 1 \in Good PROVE n \in Good
  <2>. DEFINE d == Built[n]
  <2>1. n - 1 + 1 = n /\ n \in 0 .. 22 OBVIOUS
  <2>2. Tidy(d.tables, d.rows) BY <1>2, <2>1
  <2>3. Built[n + 1] = Execute(d, Chain[n].up).db BY BuiltIs, TwentyTwo
  <2>4. /\ Len(Chain[n].up) \in Nat
        /\ \A i \in 1 .. Len(Chain[n].up) : Forward(Chain[n].up[i])
    BY ChainForward, TwentyTwo
  <2>. HIDE DEF d
  <2>5. Tidy(Built[n + 1].tables, Built[n + 1].rows) BY <2>2, <2>3, <2>4, ExecuteTidy
  <2>. QED BY <2>1, <2>5
<1>. HIDE DEF Good
<1>3. \A n \in 0 .. 22 : n \in Good BY <1>1, <1>2, UpTo
<1>. QED BY <1>3 DEF Good

\* The statements of the next revision of a command.
NextStatements ==
    IF tx.way = "up" THEN Chain[NextRevision].up ELSE Chain[NextRevision].down

\* A command is an upgrade to the head while the API migrates, or a downgrade
\* while the stack is down; it has gone the way from the committed version.
CommandOK ==
    /\ api \in {"stopped", "migrating", "serving", "exited"}
    /\ worker \in {"off", "polling"}
    /\ outcome \in {"none", "committed", "failed", "killed"}
    /\ db.version \in 0 .. 22 /\ DOMAIN db = {"version", "tables", "rows"}
    /\ tx.way \in {"none", "up", "down"}
    /\ tx.way = "none" <=> tx = NoTransaction
    /\ tx.way # "none" =>
          /\ DOMAIN tx = {"way", "target", "version", "tables", "rows"}
          /\ tx.version \in 0 .. 22 /\ tx.target \in 0 .. 22
    /\ tx.way = "up" <=> api = "migrating"
    /\ tx.way = "up" => tx.target = 22 /\ db.version <= tx.version
    /\ tx.way = "down" =>
          /\ api \in {"stopped", "exited"} /\ worker = "off"
          /\ tx.target <= tx.version /\ tx.version <= db.version /\ tx.target < db.version

\* The rows of a command.
RowsOK ==
    /\ Tidy(db.tables, db.rows)
    /\ tx.way # "none" => Tidy(tx.tables, tx.rows) /\ tx.rows \subseteq db.rows \cup Inserted
    /\ tx.way = "up" => \A row \in db.rows : row[1] \in DOMAIN ModelTables => row \in tx.rows
    /\ tx.way = "down" => tx.rows \subseteq db.rows

LEMMA CommandInit == Init => CommandOK
<1>. SUFFICES ASSUME Init PROVE CommandOK OBVIOUS
<1>1. PICK n \in 0 .. HeadRevision, rows \in SUBSET KnownRows :
          db = [version |-> n, tables |-> SchemaAt(n), rows |-> rows]
  BY DEF Init
<1>2. tx = [way |-> "none"] BY DEF Init, NoTransaction
<1>3. tx.way = "none" BY <1>2
<1>. QED BY <1>1, <1>2, <1>3, TwentyTwo DEF Init, CommandOK, NoTransaction

LEMMA NextRevisionIs ==
    ASSUME CommandOK, Pending
    PROVE  /\ tx.way \in {"up", "down"} /\ NextRevision \in 1 .. 22
           /\ tx.way = "up" => NextRevision = tx.version + 1 /\ tx.version < 22
           /\ tx.way = "down" => NextRevision = tx.version /\ tx.target < tx.version
BY DEF CommandOK, Pending, NextRevision, NoTransaction

LEMMA CommandNext == CommandOK /\ [Next]_vars => CommandOK'
<1>. SUFFICES ASSUME CommandOK, [Next]_vars PROVE CommandOK' OBVIOUS
<1>. USE TwentyTwo DEF CommandOK
<1>1. CASE ApiStarts
  <2>1. tx' = [way |-> "up", target |-> 22, version |-> db.version,
               tables |-> db.tables, rows |-> db.rows]
    BY <1>1 DEF ApiStarts, Begin
  <2>2. tx'.way = "up" /\ tx' # NoTransaction BY <2>1 DEF NoTransaction
  <2>. QED BY <1>1, <2>1, <2>2 DEF ApiStarts
<1>2. CASE DowngradeStarts
  <2>1. PICK target \in Targets : target < db.version /\ Begin("down", target)
    BY <1>2 DEF DowngradeStarts
  <2>2. tx' = [way |-> "down", target |-> target, version |-> db.version,
               tables |-> db.tables, rows |-> db.rows]
    BY <2>1 DEF Begin
  <2>3. tx'.way = "down" /\ tx' # NoTransaction BY <2>2 DEF NoTransaction
  <2>4. target \in 0 .. 22 /\ target < db.version BY <2>1, TargetsAssumption
  <2>. QED BY <1>2, <2>2, <2>3, <2>4 DEF DowngradeStarts
<1>3. CASE RevisionRuns
  <2>1. tx' = [tx EXCEPT !.version = IF tx.way = "up" THEN tx.version + 1 ELSE tx.version - 1,
                         !.tables = Applied.db.tables, !.rows = Applied.db.rows]
    BY <1>3 DEF RevisionRuns
  <2>2. Pending BY <1>3 DEF RevisionRuns
  <2>3. /\ tx.way \in {"up", "down"}
        /\ tx.way = "up" => tx.version < 22
        /\ tx.way = "down" => tx.target < tx.version
    BY <2>2, NextRevisionIs
  <2>4. DOMAIN tx = {"way", "target", "version", "tables", "rows"} BY <2>3
  <2>5. /\ DOMAIN tx' = DOMAIN tx /\ tx'.way = tx.way /\ tx'.target = tx.target
        /\ tx'.version = IF tx.way = "up" THEN tx.version + 1 ELSE tx.version - 1
    BY <2>1, <2>4
  <2>6. tx' # NoTransaction BY <2>3, <2>5 DEF NoTransaction
  <2>. QED BY <1>3, <2>3, <2>4, <2>5, <2>6 DEF RevisionRuns
<1>4. CASE RevisionFails
  <2>1. tx' = NoTransaction /\ tx'.way = "none" BY <1>4 DEF RevisionFails, NoTransaction
  <2>. QED BY <1>4, <2>1 DEF RevisionFails, Pending
<1>5. CASE CommandCommits
  <2>1. tx' = NoTransaction /\ tx'.way = "none" BY <1>5 DEF CommandCommits, NoTransaction
  <2>. QED BY <1>5, <2>1 DEF CommandCommits
<1>6. CASE WorkerStarts BY <1>6 DEF WorkerStarts
<1>7. CASE Writes
  <2>1. PICK row \in KnownRows : db' = [db EXCEPT !.rows = db.rows \cup {row}]
    BY <1>7 DEF Writes
  <2>. QED BY <1>7, <2>1 DEF Writes
<1>8. CASE ApiKilled
  <2>1. tx' = NoTransaction /\ tx'.way = "none" BY <1>8 DEF ApiKilled, NoTransaction
  <2>. QED BY <1>8, <2>1 DEF ApiKilled
<1>9. CASE DowngradeKilled
  <2>1. tx' = NoTransaction /\ tx'.way = "none" BY <1>9 DEF DowngradeKilled, NoTransaction
  <2>. QED BY <1>9, <2>1 DEF DowngradeKilled
<1>10. CASE WorkerKilled BY <1>10 DEF WorkerKilled
<1>11. CASE UNCHANGED vars BY <1>11 DEF vars
<1>. QED BY <1>1, <1>2, <1>3, <1>4, <1>5, <1>6, <1>7, <1>8, <1>9, <1>10, <1>11 DEF Next

LEMMA RowsInit == Init => RowsOK
<1>. SUFFICES ASSUME Init PROVE RowsOK OBVIOUS
<1>1. PICK n \in 0 .. HeadRevision, rows \in SUBSET KnownRows :
          /\ Consistent(SchemaAt(n), rows)
          /\ db = [version |-> n, tables |-> SchemaAt(n), rows |-> rows]
  BY DEF Init
<1>2. Tidy(SchemaAt(n), Built[n + 1].rows) BY <1>1, BuiltTidy, TwentyTwo DEF SchemaAt
<1>3. Tidy(db.tables, db.rows) BY <1>1, <1>2 DEF Tidy
<1>4. tx.way = "none" BY DEF Init, NoTransaction
<1>. QED BY <1>3, <1>4 DEF RowsOK

\* The database after the next revision.
LEMMA AppliedIs ==
    ASSUME CommandOK, RowsOK, RevisionRuns
    PROVE  /\ Applied = Execute(tx, NextStatements) /\ Applied.ok
           /\ tx'.tables = Applied.db.tables /\ tx'.rows = Applied.db.rows
           /\ tx'.way = tx.way /\ tx'.target = tx.target /\ tx.way \in {"up", "down"}
           /\ tx.way = "up" => tx'.version = tx.version + 1 /\ NextRevision = tx.version + 1
           /\ tx.way = "down" => tx'.version = tx.version - 1 /\ NextRevision = tx.version
           /\ Tidy(tx'.tables, tx'.rows)
           /\ tx'.rows \subseteq tx.rows \cup Inserted
           /\ tx.way = "down" => tx'.rows \subseteq tx.rows
           /\ tx.way = "up" => \A row \in tx.rows :
                                  row[1] \in DOMAIN ModelTables => row \in tx'.rows
<1>. DEFINE st == NextStatements
            e == Execute(tx, st).db
<1>1. Pending /\ Applied.ok BY DEF RevisionRuns
<1>2. /\ tx.way \in {"up", "down"} /\ NextRevision \in 1 .. 22
      /\ tx.way = "up" => NextRevision = tx.version + 1
      /\ tx.way = "down" => NextRevision = tx.version
  BY <1>1, NextRevisionIs
<1>3. Applied = Execute(tx, st) BY DEF Applied, NextStatements
<1>4. tx' = [tx EXCEPT !.version = IF tx.way = "up" THEN tx.version + 1 ELSE tx.version - 1,
                       !.tables = Applied.db.tables, !.rows = Applied.db.rows]
  BY DEF RevisionRuns
<1>5. DOMAIN tx = {"way", "target", "version", "tables", "rows"} BY <1>2 DEF CommandOK
<1>6. /\ tx'.tables = e.tables /\ tx'.rows = e.rows
      /\ tx'.way = tx.way /\ tx'.target = tx.target
      /\ tx'.version = IF tx.way = "up" THEN tx.version + 1 ELSE tx.version - 1
  BY <1>3, <1>4, <1>5
<1>7. /\ Len(st) \in Nat
      /\ tx.way = "up" => \A i \in 1 .. Len(st) : Forward(st[i])
      /\ tx.way = "down" => \A i \in 1 .. Len(st) : Backward(st[i])
  <2>1. CASE tx.way = "up"
    <3>1. st = Chain[NextRevision].up BY <2>1 DEF NextStatements
    <3>. QED BY <1>2, <2>1, <3>1, ChainForward, TwentyTwo
  <2>2. CASE tx.way = "down"
    <3>1. st = Chain[NextRevision].down BY <2>2 DEF NextStatements
    <3>. QED BY <1>2, <2>2, <3>1, ChainBackward, TwentyTwo
  <2>. QED BY <1>2, <2>1, <2>2
<1>8. \A i \in 1 .. Len(st) : Forward(st[i]) \/ Backward(st[i]) BY <1>2, <1>7
<1>9. Tidy(tx.tables, tx.rows) BY <1>2 DEF RowsOK
<1>. HIDE DEF st
<1>10. /\ Tidy(e.tables, e.rows)
       /\ e.rows \subseteq tx.rows \cup Inserted
       /\ (\A i \in 1 .. Len(st) : Backward(st[i])) => e.rows \subseteq tx.rows
       /\ (\A i \in 1 .. Len(st) : Forward(st[i])) =>
             \A row \in tx.rows : row[1] \in DOMAIN ModelTables => row \in e.rows
  BY <1>7, <1>8, <1>9, ExecuteTidy
<1>. QED BY <1>1, <1>2, <1>3, <1>6, <1>7, <1>10 DEF st

LEMMA RowsNext == CommandOK /\ RowsOK /\ [Next]_vars => RowsOK'
<1>. SUFFICES ASSUME CommandOK, RowsOK, [Next]_vars PROVE RowsOK' OBVIOUS
<1>1. ASSUME NEW way, NEW target, Begin(way, target), UNCHANGED db PROVE RowsOK'
  <2>1. tx' = [way |-> way, target |-> target, version |-> db.version,
               tables |-> db.tables, rows |-> db.rows]
    BY <1>1 DEF Begin
  <2>. QED BY <1>1, <2>1 DEF RowsOK
<1>2. CASE ApiStarts BY <1>1, <1>2 DEF ApiStarts
<1>3. CASE DowngradeStarts BY <1>1, <1>3 DEF DowngradeStarts
<1>4. CASE RevisionRuns
  <2>1. /\ tx'.way = tx.way /\ Tidy(tx'.tables, tx'.rows)
        /\ tx'.rows \subseteq tx.rows \cup Inserted
        /\ tx.way = "down" => tx'.rows \subseteq tx.rows
        /\ tx.way = "up" => \A row \in tx.rows :
                               row[1] \in DOMAIN ModelTables => row \in tx'.rows
    BY <1>4, AppliedIs
  <2>2. db' = db BY <1>4 DEF RevisionRuns
  <2>. QED BY <2>1, <2>2 DEF RowsOK
<1>5. CASE tx' = NoTransaction /\ UNCHANGED db
  <2>1. tx'.way = "none" BY <1>5 DEF NoTransaction
  <2>. QED BY <1>5, <2>1 DEF RowsOK
<1>6. CASE CommandCommits
  <2>1. tx'.way = "none" BY <1>6 DEF CommandCommits, NoTransaction
  <2>2. tx.way # "none" BY <1>6 DEF CommandCommits, CommandOK
  <2>3. db' = [version |-> tx.version, tables |-> tx.tables, rows |-> tx.rows]
    BY <1>6 DEF CommandCommits
  <2>. QED BY <2>1, <2>2, <2>3 DEF RowsOK
<1>7. CASE Writes
  <2>1. PICK row \in KnownRows : /\ db' = [db EXCEPT !.rows = db.rows \cup {row}]
                                 /\ Consistent(db.tables, db.rows \cup {row})
    BY <1>7 DEF Writes
  <2>2. tx.way = "none" /\ tx' = tx BY <1>7 DEF Writes, CommandOK
  <2>3. db'.tables = db.tables /\ db'.rows = db.rows \cup {row} BY <2>1 DEF CommandOK
  <2>. QED BY <2>1, <2>2, <2>3 DEF RowsOK, Tidy
<1>8. CASE UNCHANGED <<db, tx>> BY <1>8 DEF RowsOK
<1>. QED BY <1>2, <1>3, <1>4, <1>5, <1>6, <1>7, <1>8
         DEF Next, RevisionFails, WorkerStarts, ApiKilled, DowngradeKilled, WorkerKilled, vars

\* No upgrade that commits loses a row of a table the models still have:
\* upgrade() drops only tables that models.py no longer declares.
THEOREM RowsSurviveUpgrades == Spec => UpgradeKeepsRows
<1>1. ASSUME CommandOK, RowsOK, [Next]_vars, db'.version > db.version
      PROVE  \A row \in db.rows : row[1] \in DOMAIN ModelTables => row \in db'.rows
  <2>1. CASE CommandCommits
    <3>1. db' = [version |-> tx.version, tables |-> tx.tables, rows |-> tx.rows]
      BY <2>1 DEF CommandCommits
    <3>2. tx.way \in {"up", "down"} /\ tx.version = tx.target
      BY <1>1, <2>1 DEF CommandCommits, CommandOK
    <3>3. tx.way # "down" BY <1>1, <3>1, <3>2 DEF CommandOK
    <3>. QED BY <1>1, <3>1, <3>2, <3>3 DEF RowsOK
  <2>2. CASE Writes
    <3>1. PICK row \in KnownRows : db' = [db EXCEPT !.rows = db.rows \cup {row}]
      BY <2>2 DEF Writes
    <3>2. db'.version = db.version BY <1>1, <3>1 DEF CommandOK
    <3>. QED BY <1>1, <3>2 DEF CommandOK
  <2>3. CASE UNCHANGED db BY <1>1, <2>3
  <2>. QED BY <1>1, <2>1, <2>2, <2>3
           DEF Next, ApiStarts, DowngradeStarts, RevisionRuns, RevisionFails, WorkerStarts,
               ApiKilled, DowngradeKilled, WorkerKilled, vars
<1>2. CommandOK /\ RowsOK /\ [Next]_vars =>
          [db'.version > db.version =>
              \A row \in db.rows : row[1] \in DOMAIN ModelTables => row \in db'.rows]_vars
  BY <1>1
<1>. QED BY <1>2, CommandInit, CommandNext, RowsInit, RowsNext, PTL DEF Spec, UpgradeKeepsRows

-----------------------------------------------------------------------------
(* Columns and indexes that are added are new                              *)

LEMMA JobsApart ==
    LET c1 == R20260227_0001.up[1].columns
        c3 == R20260302_0003.up[1].columns
        c4 == R20260308_0004.up[3].columns
        c5 == R20260411_0005.up[3].columns
        x3 == R20260302_0003.up[2].indexes
        x4 == R20260308_0004.up[4].indexes
        x5 == R20260411_0005.up[4].indexes
    IN  /\ c3 \cap c1 = {}
        /\ c4 \cap (c1 \cup c3) = {}
        /\ c5 = {"plc_suite_id"} /\ c5 \cap ((c1 \cup c3) \cup c4) = {}
        /\ R20260609_0020.up[1].columns = {"cancel_requested_at"}
        /\ "cancel_requested_at" \notin c1 \cup c3 \cup c4
        /\ x4 \cap x3 = {}
        /\ x5 = {"plc_suite_status_created_at"} /\ x5 \cap (x3 \cup x4) = {}
        /\ JobTables["jobs"].columns = c1 \cup c3 \cup c4 \cup {"cancel_requested_at"}
        /\ JobTables["jobs"].indexes = x3 \cup x4
        /\ JobTables["jobs"].parents = {}
BY CreateTableIs, CreateIndexesIs, AddColumnsIs
   DEF R20260227_0001, R20260302_0003, R20260308_0004, R20260411_0005, R20260609_0020,
       JobTables, Table

LEMMA PlcApart ==
    /\ R20260415_0009.up[3].columns \cap R20260412_0006.up[3].columns = {}
    /\ R20260415_0009.up[5].columns \cap R20260412_0006.up[5].columns = {}
    /\ R20260415_0009.up[6].columns \cap R20260412_0006.up[7].columns = {}
    /\ R20260415_0010.up[1].columns \cap R20260412_0008.up[1].columns = {}
    /\ R20260415_0010.up[2].indexes \cap R20260412_0008.up[2].indexes = {}
<1>1. R20260415_0009.up[3].columns \cap R20260412_0006.up[3].columns = {}
  BY CreateTableIs, AddColumnsIs
     DEF R20260415_0009, R20260415_0009_Columns, R20260415_0009_Data,
         R20260412_0006, R20260412_0006_Runs, R20260412_0006_Items
<1>2. R20260415_0009.up[5].columns \cap R20260412_0006.up[5].columns = {}
  BY CreateTableIs, AddColumnsIs
     DEF R20260415_0009, R20260415_0009_Columns, R20260415_0009_Data,
         R20260412_0006, R20260412_0006_Runs, R20260412_0006_Items
<1>3. R20260415_0009.up[6].columns \cap R20260412_0006.up[7].columns = {}
  BY CreateTableIs, AddColumnsIs
     DEF R20260415_0009, R20260415_0009_Columns, R20260415_0009_Data,
         R20260412_0006, R20260412_0006_Runs, R20260412_0006_Items
<1>4. /\ R20260415_0010.up[1].columns \cap R20260412_0008.up[1].columns = {}
      /\ R20260415_0010.up[2].indexes \cap R20260412_0008.up[2].indexes = {}
  BY CreateTableIs, AddColumnsIs, CreateIndexesIs DEF R20260415_0010, R20260412_0008
<1>. QED BY <1>1, <1>2, <1>3, <1>4

\* The statements of 20260417_0010, the fine-tuning and the collections.
LEMMA Statements11 ==
    LET st == R20260417_0010.up
    IN  /\ Len(st) = 16
        /\ Creating(st[1], "ft_datasets") /\ Indexing(st[2], "ft_datasets")
        /\ Creating(st[3], "ft_dataset_versions") /\ Indexing(st[4], "ft_dataset_versions")
        /\ Creating(st[5], "ft_dataset_rows") /\ Indexing(st[6], "ft_dataset_rows")
        /\ Creating(st[7], "ft_training_jobs") /\ Indexing(st[8], "ft_training_jobs")
        /\ Creating(st[9], "ft_model_artifacts") /\ Indexing(st[10], "ft_model_artifacts")
        /\ Creating(st[11], "model_registry") /\ Indexing(st[12], "model_registry")
        /\ Creating(st[13], "rag_collections") /\ Indexing(st[14], "rag_collections")
        /\ Creating(st[15], "rag_documents") /\ Indexing(st[16], "rag_documents")
        /\ st[1].parents = {} /\ st[3].parents = {"ft_datasets"}
        /\ st[5].parents = {"ft_dataset_versions"}
        /\ st[7].parents = {"ft_dataset_versions", "jobs"}
        /\ st[9].parents = {"ft_training_jobs"} /\ st[11].parents = {"ft_model_artifacts"}
        /\ st[13].parents = {} /\ st[15].parents = {"rag_collections"}
<1>. DEFINE st == R20260417_0010.up
<1>1. /\ Len(st) = 16
      /\ st[1] = R20260417_0010_Training[1] /\ st[2] = R20260417_0010_Training[2]
      /\ st[3] = R20260417_0010_Training[3] /\ st[4] = R20260417_0010_Training[4]
      /\ st[5] = R20260417_0010_Training[5] /\ st[6] = R20260417_0010_Training[6]
      /\ st[7] = R20260417_0010_Training[7] /\ st[8] = R20260417_0010_Training[8]
      /\ st[9] = R20260417_0010_Registry[1] /\ st[10] = R20260417_0010_Registry[2]
      /\ st[11] = R20260417_0010_Registry[3] /\ st[12] = R20260417_0010_Registry[4]
      /\ st[13] = R20260417_0010_Registry[5] /\ st[14] = R20260417_0010_Registry[6]
      /\ st[15] = R20260417_0010_Registry[7] /\ st[16] = R20260417_0010_Registry[8]
  BY DEF R20260417_0010, R20260417_0010_Training, R20260417_0010_Registry
<1>. HIDE DEF st
<1>2. /\ Creating(st[1], "ft_datasets") /\ Indexing(st[2], "ft_datasets")
      /\ Creating(st[3], "ft_dataset_versions") /\ Indexing(st[4], "ft_dataset_versions")
      /\ st[1].parents = {} /\ st[3].parents = {"ft_datasets"}
  BY <1>1, CreateTableIs, CreateIndexesIs DEF R20260417_0010_Training, Creating, Indexing
<1>3. /\ Creating(st[5], "ft_dataset_rows") /\ Indexing(st[6], "ft_dataset_rows")
      /\ Creating(st[7], "ft_training_jobs") /\ Indexing(st[8], "ft_training_jobs")
      /\ st[5].parents = {"ft_dataset_versions"}
      /\ st[7].parents = {"ft_dataset_versions", "jobs"}
  BY <1>1, CreateTableIs, CreateIndexesIs DEF R20260417_0010_Training, Creating, Indexing
<1>4. /\ Creating(st[9], "ft_model_artifacts") /\ Indexing(st[10], "ft_model_artifacts")
      /\ Creating(st[11], "model_registry") /\ Indexing(st[12], "model_registry")
      /\ st[9].parents = {"ft_training_jobs"} /\ st[11].parents = {"ft_model_artifacts"}
  BY <1>1, CreateTableIs, CreateIndexesIs DEF R20260417_0010_Registry, Creating, Indexing
<1>5. /\ Creating(st[13], "rag_collections") /\ Indexing(st[14], "rag_collections")
      /\ Creating(st[15], "rag_documents") /\ Indexing(st[16], "rag_documents")
      /\ st[13].parents = {} /\ st[15].parents = {"rag_collections"}
  BY <1>1, CreateTableIs, CreateIndexesIs DEF R20260417_0010_Registry, Creating, Indexing
<1>. QED BY <1>1, <1>2, <1>3, <1>4, <1>5 DEF st

\* What it creates,
LEMMA Columns11 ==
    LET st == R20260417_0010.up
    IN  /\ st[1].columns = {"id", "name", "task_type", "schema_type", "description",
               "current_version_id", "created_at", "updated_at"}
        /\ st[3].columns = {"id", "dataset_id", "version_label", "status", "row_count",
               "train_split_ratio", "val_split_ratio", "test_split_ratio", "created_at",
               "updated_at"}
        /\ st[5].columns = {"id", "dataset_version_id", "split", "input_json", "target_json",
               "metadata_json", "validation_status", "validation_error", "created_at",
               "updated_at"}
        /\ st[7].columns = {"id", "dataset_version_id", "base_model_name", "training_method",
               "hyperparams_json", "status", "backing_job_id", "log_text", "created_at",
               "started_at", "finished_at"}
        /\ st[9].columns = {"id", "training_job_id", "artifact_type", "local_path",
               "metadata_json", "created_at"}
        /\ st[11].columns = {"id", "display_name", "source_type", "base_model_name",
               "ollama_model_name", "artifact_id", "status", "tags_json", "description",
               "created_at", "updated_at"}
        /\ st[2].indexes = {"task_type", "created_at"}
        /\ st[4].indexes = {"dataset_id", "status", "created_at"}
        /\ st[6].indexes = {"dataset_version_id", "split", "validation_status"}
        /\ st[8].indexes = {"dataset_version_id", "status", "created_at"}
        /\ st[10].indexes = {"training_job_id", "artifact_type"}
        /\ st[12].indexes = {"status", "source_type", "ollama_model_name"}
<1>. DEFINE st == R20260417_0010.up
<1>. USE CreateTableIs, CreateIndexesIs
         DEF R20260417_0010, R20260417_0010_Training, R20260417_0010_Registry
<1>1. st[1].columns = {"id", "name", "task_type", "schema_type", "description",
         "current_version_id", "created_at", "updated_at"} OBVIOUS
<1>2. st[3].columns = {"id", "dataset_id", "version_label", "status", "row_count",
         "train_split_ratio", "val_split_ratio", "test_split_ratio", "created_at",
         "updated_at"} OBVIOUS
<1>3. st[5].columns = {"id", "dataset_version_id", "split", "input_json", "target_json",
         "metadata_json", "validation_status", "validation_error", "created_at",
         "updated_at"} OBVIOUS
<1>4. st[7].columns = {"id", "dataset_version_id", "base_model_name", "training_method",
         "hyperparams_json", "status", "backing_job_id", "log_text", "created_at",
         "started_at", "finished_at"} OBVIOUS
<1>5. st[9].columns = {"id", "training_job_id", "artifact_type", "local_path",
         "metadata_json", "created_at"} OBVIOUS
<1>6. st[11].columns = {"id", "display_name", "source_type", "base_model_name",
         "ollama_model_name", "artifact_id", "status", "tags_json", "description",
         "created_at", "updated_at"} OBVIOUS
<1>7. st[2].indexes = {"task_type", "created_at"} OBVIOUS
<1>8. st[4].indexes = {"dataset_id", "status", "created_at"} OBVIOUS
<1>9. st[6].indexes = {"dataset_version_id", "split", "validation_status"} OBVIOUS
<1>10. st[8].indexes = {"dataset_version_id", "status", "created_at"} OBVIOUS
<1>11. st[10].indexes = {"training_job_id", "artifact_type"} OBVIOUS
<1>12. st[12].indexes = {"status", "source_type", "ollama_model_name"} OBVIOUS
<1>. HIDE CreateTableIs, CreateIndexesIs
         DEF R20260417_0010, R20260417_0010_Training, R20260417_0010_Registry, st
<1>. QED BY <1>1, <1>2, <1>3, <1>4, <1>5, <1>6, <1>7, <1>8, <1>9, <1>10, <1>11, <1>12 DEF st

\* what later revisions add to it,
LEMMA FineTuningApart ==
    LET created == R20260417_0010.up
        added == R20260417_0011.up
        dated == Rb4aadc4ac8f6.up
    IN  /\ added[1].columns \cap created[7].columns = {}
        /\ added[2].columns \cap created[11].columns = {}
        /\ "serving_model_name" \notin created[11].columns \cup added[2].columns
        /\ dated[1].columns \cap created[9].columns = {}
        /\ dated[2].columns \cap (created[7].columns \cup added[1].columns) = {}
<1>1. /\ R20260417_0011.up[1].columns = {"trainer_backend", "train_rows", "val_rows",
             "test_rows", "format_summary_json", "metrics_json", "evaluation_json",
             "error_json", "output_dir"}
      /\ R20260417_0011.up[2].columns = {"published_model_name", "publish_status",
             "lineage_json"}
  BY AddColumnsIs DEF R20260417_0011
<1>2. Rb4aadc4ac8f6.up[1].columns = {"updated_at"} /\ Rb4aadc4ac8f6.up[2].columns = {"updated_at"}
  BY AddColumnsIs DEF Rb4aadc4ac8f6
<1>. QED BY <1>1, <1>2, Columns11

\* and what the downgrade of 20260607_0016 creates again.
LEMMA StatementsAgain ==
    LET st == R20260607_0016.down
    IN  /\ Len(st) = 12
        /\ Creating(st[1], "ft_datasets") /\ Indexing(st[7], "ft_datasets")
        /\ Creating(st[2], "ft_dataset_versions") /\ Indexing(st[8], "ft_dataset_versions")
        /\ Creating(st[3], "ft_dataset_rows") /\ Indexing(st[9], "ft_dataset_rows")
        /\ Creating(st[4], "ft_training_jobs") /\ Indexing(st[10], "ft_training_jobs")
        /\ Creating(st[5], "ft_model_artifacts") /\ Indexing(st[11], "ft_model_artifacts")
        /\ Creating(st[6], "model_registry") /\ Indexing(st[12], "model_registry")
        /\ st[1].parents = {} /\ st[2].parents = {"ft_datasets"}
        /\ st[3].parents = {"ft_dataset_versions"}
        /\ st[4].parents = {"ft_dataset_versions", "jobs"}
        /\ st[5].parents = {"ft_training_jobs"} /\ st[6].parents = {"ft_model_artifacts"}
BY CreateTableIs, CreateIndexesIs
   DEF R20260607_0016, R20260607_0016_Down_Datasets, R20260607_0016_Down_Training,
       R20260607_0016_Down_Indexes, Creating, Indexing

LEMMA ColumnsAgain ==
    LET st == R20260607_0016.down
        created == R20260417_0010.up
        added == R20260417_0011.up
        dated == Rb4aadc4ac8f6.up
    IN  /\ st[1].columns = created[1].columns /\ st[7].indexes = created[2].indexes
        /\ st[2].columns = created[3].columns /\ st[8].indexes = created[4].indexes
        /\ st[3].columns = created[5].columns /\ st[9].indexes = created[6].indexes
        /\ st[4].columns = (created[7].columns \cup added[1].columns) \cup dated[2].columns
        /\ st[10].indexes = created[8].indexes
        /\ st[5].columns = created[9].columns \cup dated[1].columns
        /\ st[11].indexes = created[10].indexes
        /\ st[6].columns = ((created[11].columns \cup added[2].columns)
                                \ {"ollama_model_name"}) \cup {"serving_model_name"}
        /\ st[12].indexes = (created[12].indexes \ {"ollama_model_name"})
                                \cup {"serving_model_name"}
<1>. DEFINE st == R20260607_0016.down
<1>1. /\ R20260417_0011.up[1].columns = {"trainer_backend", "train_rows", "val_rows",
             "test_rows", "format_summary_json", "metrics_json", "evaluation_json",
             "error_json", "output_dir"}
      /\ R20260417_0011.up[2].columns = {"published_model_name", "publish_status",
             "lineage_json"}
  BY AddColumnsIs DEF R20260417_0011
<1>2. Rb4aadc4ac8f6.up[1].columns = {"updated_at"} /\ Rb4aadc4ac8f6.up[2].columns = {"updated_at"}
  BY AddColumnsIs DEF Rb4aadc4ac8f6
<1>3. /\ st[1].columns = {"id", "name", "task_type", "schema_type", "description",
             "current_version_id", "created_at", "updated_at"}
      /\ st[2].columns = {"id", "dataset_id", "version_label", "status", "row_count",
             "train_split_ratio", "val_split_ratio", "test_split_ratio", "created_at",
             "updated_at"}
      /\ st[3].columns = {"id", "dataset_version_id", "split", "input_json", "target_json",
             "metadata_json", "validation_status", "validation_error", "created_at",
             "updated_at"}
      /\ st[4].columns = {"id", "dataset_version_id", "base_model_name", "training_method",
             "hyperparams_json", "status", "backing_job_id", "trainer_backend", "train_rows",
             "val_rows", "test_rows", "format_summary_json", "metrics_json",
             "evaluation_json", "error_json", "output_dir", "log_text", "created_at",
             "updated_at", "started_at", "finished_at"}
      /\ st[5].columns = {"id", "training_job_id", "artifact_type", "local_path",
             "metadata_json", "created_at", "updated_at"}
      /\ st[6].columns = {"id", "display_name", "source_type", "base_model_name",
             "serving_model_name", "published_model_name", "artifact_id", "status",
             "publish_status", "tags_json", "lineage_json", "description", "created_at",
             "updated_at"}
      /\ st[7].indexes = {"task_type", "created_at"}
      /\ st[8].indexes = {"dataset_id", "status", "created_at"}
      /\ st[9].indexes = {"dataset_version_id", "split", "validation_status"}
      /\ st[10].indexes = {"dataset_version_id", "status", "created_at"}
      /\ st[11].indexes = {"training_job_id", "artifact_type"}
      /\ st[12].indexes = {"status", "source_type", "serving_model_name"}
  BY CreateTableIs, CreateIndexesIs
     DEF R20260607_0016, R20260607_0016_Down_Datasets, R20260607_0016_Down_Training,
         R20260607_0016_Down_Indexes
<1>. HIDE DEF st
<1>4. /\ st[1].columns = R20260417_0010.up[1].columns
      /\ st[2].columns = R20260417_0010.up[3].columns
      /\ st[3].columns = R20260417_0010.up[5].columns
      /\ st[7].indexes = R20260417_0010.up[2].indexes
      /\ st[8].indexes = R20260417_0010.up[4].indexes
      /\ st[9].indexes = R20260417_0010.up[6].indexes
      /\ st[10].indexes = R20260417_0010.up[8].indexes
      /\ st[11].indexes = R20260417_0010.up[10].indexes
  BY <1>3, Columns11
<1>5. st[4].columns = (R20260417_0010.up[7].columns \cup R20260417_0011.up[1].columns)
                          \cup Rb4aadc4ac8f6.up[2].columns
  BY <1>1, <1>2, <1>3, Columns11
<1>6. st[5].columns = R20260417_0010.up[9].columns \cup Rb4aadc4ac8f6.up[1].columns
  BY <1>2, <1>3, Columns11
<1>7. st[6].columns = ((R20260417_0010.up[11].columns \cup R20260417_0011.up[2].columns)
                           \ {"ollama_model_name"}) \cup {"serving_model_name"}
  BY <1>1, <1>3, Columns11
<1>8. st[12].indexes = (R20260417_0010.up[12].indexes \ {"ollama_model_name"})
                           \cup {"serving_model_name"}
  BY <1>3, Columns11
<1>. QED BY <1>4, <1>5, <1>6, <1>7, <1>8 DEF st

-----------------------------------------------------------------------------
(* The schema at every revision                                            *)

LEMMA ChainIs ==
    /\ Chain[1] = R20260227_0001 /\ Chain[2] = R20260227_0002 /\ Chain[3] = R20260302_0003
    /\ Chain[4] = R20260308_0004 /\ Chain[5] = R20260411_0005 /\ Chain[6] = R20260412_0006
    /\ Chain[7] = R20260412_0007 /\ Chain[8] = R20260412_0008 /\ Chain[9] = R20260415_0009
    /\ Chain[10] = R20260415_0010 /\ Chain[11] = R20260417_0010
    /\ Chain[12] = R20260417_0011 /\ Chain[13] = R20260523_0012
    /\ Chain[14] = R20260523_0013 /\ Chain[15] = R20260523_0014
    /\ Chain[16] = Rb4aadc4ac8f6 /\ Chain[17] = R20260525_0015
    /\ Chain[18] = R20260607_0016 /\ Chain[19] = R20260607_0017
    /\ Chain[20] = R20260607_0018 /\ Chain[21] = R20260607_0019
    /\ Chain[22] = R20260609_0020
BY DEF Chain

\* The one row that the chain itself puts into an empty database.
Targeted == {<<"plc_targets", "row">>}

\* Upgrading an empty database to revision n leads to schema S, by the
\* statements st of that revision.
Reached(n, st, S) ==
    /\ Chain[n].up = st /\ SchemaAt(n) = S
    /\ Leads(SchemaAt(n - 1), st, S) /\ Sound(S)
    /\ Built[n + 1].rows \subseteq Targeted

\* Where the statements of a revision run on the tables, the data statements
\* let them.
LEMMA Reaches ==
    ASSUME NEW n \in 1 .. 22, Built[n].rows \subseteq Targeted,
           NEW st, st = Chain[n].up, NEW U, Leads(SchemaAt(n - 1), st, U)
    PROVE  Reached(n, st, U)
<1>. DEFINE d == Built[n]
            Safe == SUBSET Targeted
<1>1. n - 1 + 1 = n /\ n \in 0 .. 22 OBVIOUS
<1>2. SchemaAt(n - 1) = d.tables BY <1>1 DEF SchemaAt
<1>3. /\ Len(st) \in Nat
      /\ \A i \in 1 .. Len(st) : Forward(st[i])
  BY ChainForward, TwentyTwo
<1>4. ASSUME NEW i \in 1 .. Len(st), NEW rows \in Safe
      PROVE  Allowed(rows, st[i]) /\ RowsAfter(rows, st[i]) \in Safe
  <2>. DEFINE s == st[i]
  <2>1. Forward(s) BY <1>3
  <2>. HIDE DEF s
  <2>2. \A t : t # "plc_targets" => ~HasRows(rows, t) BY DEF HasRows, Targeted
  <2>3. \A row \in rows : row = <<"plc_targets", "row">> BY DEF Targeted
  <2>4. Allowed(rows, s)
    BY <2>1, <2>2 DEF Allowed, Forward, DataStatement, Structural
  <2>5. RowsAfter(rows, s) \subseteq Targeted
    <3>1. CASE s.do = "insert" BY <2>1, <3>1 DEF RowsAfter, Forward, DataStatement, Structural, Targeted
    <3>2. CASE s.do \in {"insert_from", "rewrite"}
      <4>1. s.from \notin rows
        BY <2>1, <2>3, <3>2 DEF Forward, DataStatement, Structural
      <4>. QED BY <3>2, <4>1 DEF RowsAfter
    <3>3. CASE s.do \notin {"insert", "insert_from", "rewrite"} BY <3>3 DEF RowsAfter
    <3>. QED BY <3>1, <3>2, <3>3
  <2>. QED BY <2>4, <2>5 DEF s
<1>5. d.rows \in Safe OBVIOUS
<1>9. Leads(d.tables, st, U) BY <1>2
<1>. HIDE DEF d, Safe
<1>6. Execute(d, st).db.tables = U /\ Execute(d, st).db.rows \in Safe
  BY <1>3, <1>4, <1>5, <1>9, LeadsExecutes
<1>7. Built[n + 1] = Execute(d, st).db BY BuiltIs, TwentyTwo DEF d
<1>8. SchemaAt(n) = U BY <1>6, <1>7 DEF SchemaAt
<1>10. Sound(U) BY <1>1, <1>8, BuiltTidy DEF Tidy, SchemaAt
<1>. QED BY <1>6, <1>7, <1>8, <1>10 DEF Reached, Safe

LEMMA Schema0 ==
    /\ DOMAIN SchemaAt(0) = {} /\ Sound(SchemaAt(0)) /\ Built[1].rows = {}
<1>1. Built[0 + 1].rows = {} /\ SchemaAt(0) = <<>> BY BuiltIs DEF SchemaAt, EmptyDatabase
<1>2. 0 \in 0 .. 22 OBVIOUS
<1>4. Sound(SchemaAt(0)) BY <1>2, BuiltTidy DEF Tidy, SchemaAt
<1>3. DOMAIN <<>> = {} OBVIOUS
<1>. QED BY <1>1, <1>3, <1>4

LEMMA Schema1 ==
    /\ Reached(1, R20260227_0001.up, SchemaAt(1))
    /\ DOMAIN SchemaAt(1) = {"jobs"}
    /\ SchemaAt(1)["jobs"] = Table(R20260227_0001.up[1].columns, {}, {})
<1>. DEFINE T == SchemaAt(0)
            st == R20260227_0001.up
            new == "jobs"
<1>1. st = Chain[1].up /\ 1 \in 1 .. 22 /\ 1 - 1 = 0 BY ChainIs
<1>2. Sound(T) /\ DOMAIN T = {} /\ Built[1].rows \subseteq Targeted BY Schema0
<1>3. /\ new \notin DOMAIN T
      /\ Len(st) = 1 /\ Creating(st[1], new) /\ st[1].parents = {}
  BY <1>2, OneTables
<1>. HIDE DEF T, st, new
<1>4. PICK U : TableMade(T, st, new, U) BY <1>2, <1>3, OneTable
<1>5. Reached(1, st, U) BY <1>1, <1>2, <1>4, Reaches DEF T, TableMade
<1>. QED BY <1>2, <1>4, <1>5 DEF Reached, TableMade, st, new

LEMMA Schema2 ==
    LET T == SchemaAt(1)
        U == SchemaAt(2)
    IN  /\ Reached(2, R20260227_0002.up, U)
        /\ DOMAIN U = {"jobs", "worker_heartbeats"} /\ U["jobs"] = T["jobs"]
        /\ U["worker_heartbeats"] = Table(R20260227_0002.up[1].columns, {}, {})
<1>. DEFINE T == SchemaAt(1)
            st == R20260227_0002.up
            new == "worker_heartbeats"
<1>1. st = Chain[2].up /\ 2 \in 1 .. 22 /\ 2 - 1 = 1 BY ChainIs
<1>2. Sound(T) /\ DOMAIN T = {"jobs"} /\ Built[2].rows \subseteq Targeted
  BY Schema1 DEF Reached
<1>3. /\ new \notin DOMAIN T
      /\ Len(st) = 1 /\ Creating(st[1], new) /\ st[1].parents = {}
  BY <1>2, OneTables
<1>. HIDE DEF T, st, new
<1>4. PICK U : TableMade(T, st, new, U) BY <1>2, <1>3, OneTable
<1>5. Reached(2, st, U) BY <1>1, <1>2, <1>4, Reaches DEF T, TableMade
<1>. QED BY <1>2, <1>4, <1>5 DEF Reached, TableMade, st, T, new

LEMMA Schema3 ==
    LET T == SchemaAt(2)
        U == SchemaAt(3)
        st == R20260302_0003.up
    IN  /\ Reached(3, st, U)
        /\ DOMAIN U = {"jobs", "worker_heartbeats"}
        /\ U["worker_heartbeats"] = T["worker_heartbeats"]
        /\ U["jobs"] = Table(R20260227_0001.up[1].columns \cup st[1].columns,
                             st[2].indexes, {})
<1>. DEFINE T == SchemaAt(2)
            st == R20260302_0003.up
            c == R20260227_0001.up[1].columns
<1>1. st = Chain[3].up /\ 3 \in 1 .. 22 /\ 3 - 1 = 2 BY ChainIs
<1>2. /\ Sound(T) /\ DOMAIN T = {"jobs", "worker_heartbeats"} /\ Built[3].rows \subseteq Targeted
      /\ T["jobs"] = Table(c, {}, {})
  BY Schema1, Schema2 DEF Reached
<1>3. T["jobs"].columns = c /\ T["jobs"].indexes = {} /\ T["jobs"].parents = {}
  BY <1>2 DEF Table
<1>4. st[1].columns \cap c = {} /\ st[2].indexes \cap {} = {} BY JobsApart
<1>5. Len(st) = 2 /\ Adding(st[1], "jobs") /\ Indexing(st[2], "jobs") BY Alterations
<1>. HIDE DEF T, st, c
<1>6. PICK U : /\ Leads(T, st, U)
               /\ Alters(T, U, "jobs", Table(c \cup st[1].columns, {} \cup st[2].indexes, {}))
  BY <1>2, <1>3, <1>4, <1>5, AddIndexRevision
<1>7. Reached(3, st, U) BY <1>1, <1>2, <1>6, Reaches DEF T
<1>8. {} \cup st[2].indexes = st[2].indexes OBVIOUS
<1>. QED BY <1>2, <1>6, <1>7, <1>8 DEF Reached, st, T, c, Alters

LEMMA Schema4 ==
    LET T == SchemaAt(3)
        U == SchemaAt(4)
        st == R20260308_0004.up
    IN  /\ Reached(4, st, U)
        /\ DOMAIN U = {"jobs", "worker_heartbeats", "datasets"}
        /\ U["worker_heartbeats"] = T["worker_heartbeats"]
        /\ U["datasets"] = New(st, 1, 2)
        /\ U["jobs"] = Table((R20260227_0001.up[1].columns \cup R20260302_0003.up[1].columns)
                                 \cup st[3].columns,
                             R20260302_0003.up[2].indexes \cup st[4].indexes, {})
<1>. DEFINE T == SchemaAt(3)
            st == R20260308_0004.up
            c == R20260227_0001.up[1].columns \cup R20260302_0003.up[1].columns
            x == R20260302_0003.up[2].indexes
<1>1. st = Chain[4].up /\ 4 \in 1 .. 22 /\ 4 - 1 = 3 BY ChainIs
<1>2. /\ Sound(T) /\ DOMAIN T = {"jobs", "worker_heartbeats"} /\ Built[4].rows \subseteq Targeted
      /\ T["jobs"] = Table(c, x, {})
  BY Schema3 DEF Reached
<1>3. T["jobs"].columns = c /\ T["jobs"].indexes = x /\ T["jobs"].parents = {}
  BY <1>2 DEF Table
<1>4. st[3].columns \cap c = {} /\ st[4].indexes \cap x = {} BY JobsApart
<1>5. /\ Len(st) = 4 /\ Creating(st[1], "datasets") /\ st[1].parents = {}
      /\ Indexing(st[2], "datasets") /\ Adding(st[3], "jobs") /\ Indexing(st[4], "jobs")
  BY Alterations
<1>. HIDE DEF T, st, c, x
<1>8. /\ "jobs" \in DOMAIN T /\ "datasets" \notin DOMAIN T
      /\ st[3].columns \cap T["jobs"].columns = {}
      /\ st[4].indexes \cap T["jobs"].indexes = {}
  BY <1>2, <1>3, <1>4
<1>6. PICK U : TableMadeAndOneAltered(T, st, "datasets", "jobs", U)
  BY <1>2, <1>5, <1>8, TableAndAddIndex
<1>7. Reached(4, st, U) BY <1>1, <1>2, <1>6, Reaches DEF T, TableMadeAndOneAltered
<1>. QED BY <1>2, <1>3, <1>6, <1>7 DEF Reached, TableMadeAndOneAltered, st, T, c, x

LEMMA Schema5 ==
    LET T == SchemaAt(4)
        U == SchemaAt(5)
        st == R20260411_0005.up
    IN  /\ Reached(5, st, U)
        /\ DOMAIN U = {"jobs", "worker_heartbeats", "datasets", "plc_test_suites"}
        /\ U["worker_heartbeats"] = T["worker_heartbeats"] /\ U["datasets"] = T["datasets"]
        /\ U["jobs"] = Table(((R20260227_0001.up[1].columns \cup R20260302_0003.up[1].columns)
                                 \cup R20260308_0004.up[3].columns) \cup st[3].columns,
                             (R20260302_0003.up[2].indexes \cup R20260308_0004.up[4].indexes)
                                 \cup st[4].indexes, {})
<1>. DEFINE T == SchemaAt(4)
            st == R20260411_0005.up
            c == (R20260227_0001.up[1].columns \cup R20260302_0003.up[1].columns)
                     \cup R20260308_0004.up[3].columns
            x == R20260302_0003.up[2].indexes \cup R20260308_0004.up[4].indexes
<1>1. st = Chain[5].up /\ 5 \in 1 .. 22 /\ 5 - 1 = 4 BY ChainIs
<1>2. /\ Sound(T) /\ DOMAIN T = {"jobs", "worker_heartbeats", "datasets"}
      /\ Built[5].rows \subseteq Targeted /\ T["jobs"] = Table(c, x, {})
  BY Schema4 DEF Reached
<1>3. T["jobs"].columns = c /\ T["jobs"].indexes = x /\ T["jobs"].parents = {}
  BY <1>2 DEF Table
<1>4. st[3].columns \cap c = {} /\ st[4].indexes \cap x = {} BY JobsApart
<1>5. /\ Len(st) = 4 /\ Creating(st[1], "plc_test_suites") /\ st[1].parents = {}
      /\ Indexing(st[2], "plc_test_suites") /\ Adding(st[3], "jobs") /\ Indexing(st[4], "jobs")
  BY Alterations
<1>. HIDE DEF T, st, c, x
<1>8. /\ "jobs" \in DOMAIN T /\ "plc_test_suites" \notin DOMAIN T
      /\ st[3].columns \cap T["jobs"].columns = {}
      /\ st[4].indexes \cap T["jobs"].indexes = {}
  BY <1>2, <1>3, <1>4
<1>6. PICK U : TableMadeAndOneAltered(T, st, "plc_test_suites", "jobs", U)
  BY <1>2, <1>5, <1>8, TableAndAddIndex
<1>7. Reached(5, st, U) BY <1>1, <1>2, <1>6, Reaches DEF T, TableMadeAndOneAltered
<1>. QED BY <1>2, <1>3, <1>6, <1>7 DEF Reached, TableMadeAndOneAltered, st, T, c, x

LEMMA Schema6 ==
    LET T == SchemaAt(5)
        U == SchemaAt(6)
        st == R20260412_0006.up
    IN  /\ Reached(6, st, U) /\ LeadsTo(T, st, 10, U)
        /\ DOMAIN U = DOMAIN T \cup
               {"plc_targets", "plc_testcases", "plc_test_runs", "plc_test_run_items",
                "plc_test_run_io_logs"}
        /\ \A t \in DOMAIN T : U[t] = T[t]
        /\ U["plc_testcases"].columns = st[3].columns
        /\ U["plc_testcases"].parents = {"plc_test_suites"}
        /\ U["plc_test_runs"].columns = st[5].columns
        /\ U["plc_test_run_items"].columns = st[7].columns
<1>. DEFINE T == SchemaAt(5)
            st == R20260412_0006.up
<1>1. st = Chain[6].up /\ 6 \in 1 .. 22 /\ 6 - 1 = 5 BY ChainIs
<1>2. /\ Sound(T) /\ DOMAIN T = {"jobs", "worker_heartbeats", "datasets", "plc_test_suites"}
      /\ Built[6].rows \subseteq Targeted
  BY Schema5 DEF Reached
<1>. HIDE DEF T
<1>3. /\ "jobs" \in DOMAIN T /\ "plc_test_suites" \in DOMAIN T
      /\ \A t \in {"plc_targets", "plc_testcases", "plc_test_runs", "plc_test_run_items",
                   "plc_test_run_io_logs"} : t \notin DOMAIN T
  BY <1>2
<1>4. PICK U : Made6(T, U) BY <1>2, <1>3, Up6
<1>5. /\ Leads(T, st, U) /\ LeadsTo(T, st, 10, U)
      /\ DOMAIN U = DOMAIN T \cup
             {"plc_targets", "plc_testcases", "plc_test_runs", "plc_test_run_items",
              "plc_test_run_io_logs"}
      /\ \A t \in DOMAIN T : U[t] = T[t]
      /\ U["plc_testcases"] = New(st, 3, 4) /\ U["plc_test_runs"] = New(st, 5, 6)
      /\ U["plc_test_run_items"] = New(st, 7, 8)
  BY <1>4 DEF Made6
<1>6. st[3].parents = {"plc_test_suites"} BY Statements6
<1>. HIDE DEF st
<1>7. Reached(6, st, U) BY <1>1, <1>2, <1>5, Reaches DEF T
<1>8. /\ U["plc_testcases"].columns = st[3].columns
      /\ U["plc_testcases"].parents = {"plc_test_suites"}
      /\ U["plc_test_runs"].columns = st[5].columns
      /\ U["plc_test_run_items"].columns = st[7].columns
  BY <1>5, <1>6 DEF New, Table
<1>. QED BY <1>5, <1>7, <1>8 DEF Reached, T, st

LEMMA Data ==
    /\ Len(R20260412_0007.up) = 1 /\ ~R20260412_0007.up[1].guarded
    /\ R20260412_0007.up[1].table = "plc_testcases" /\ R20260412_0007.up[1].parents = {}
    /\ R20260412_0007.up[1].do = "insert_from"
    /\ Len(R20260523_0012.up) = 1 /\ ~R20260523_0012.up[1].guarded
    /\ R20260523_0012.up[1].table = "ft_training_jobs" /\ R20260523_0012.up[1].parents = {}
    /\ R20260523_0012.up[1].do = "rewrite"
BY DEF R20260412_0007, R20260523_0012, InsertFrom, Rewrite, Statement

LEMMA Schema7 == Reached(7, R20260412_0007.up, SchemaAt(7)) /\ SchemaAt(7) = SchemaAt(6)
<1>. DEFINE T == SchemaAt(6)
            st == R20260412_0007.up
<1>1. st = Chain[7].up /\ 7 \in 1 .. 22 /\ 7 - 1 = 6 BY ChainIs
<1>2. Sound(T) /\ "plc_testcases" \in DOMAIN T /\ Built[7].rows \subseteq Targeted
  BY Schema6 DEF Reached
<1>3. /\ Len(st) = 1 /\ ~st[1].guarded /\ st[1].table \in DOMAIN T
      /\ st[1].parents = {} /\ st[1].do \in {"insert_from", "rewrite"}
  BY <1>2, Data
<1>. HIDE DEF T, st
<1>4. Leads(T, st, T) BY <1>2, <1>3, DataRevision
<1>5. Reached(7, st, T) BY <1>1, <1>2, <1>4, Reaches DEF T
<1>. QED BY <1>5 DEF Reached, T, st

LEMMA Statements8 ==
    LET st == R20260412_0008.up
    IN  /\ Len(st) = 2 /\ Creating(st[1], "plc_llm_suggestions")
        /\ Indexing(st[2], "plc_llm_suggestions")
        /\ st[1].parents = {"plc_test_suites", "plc_testcases"}
BY CreateTableIs, CreateIndexesIs DEF R20260412_0008, Creating, Indexing

\* A revision that creates and indexes tables.
LEMMA PairsRevision ==
    ASSUME NEW T, Sound(T), NEW st, NEW tb, NEW h \in Nat, Len(st) = 2 * h, Pairs(T, st, tb, h)
    PROVE  \E U : Leads(T, st, U) /\ Sound(U) /\ PairsMade(T, st, tb, h, U)
BY PairsCreate DEF Leads

LEMMA Schema8 ==
    LET T == SchemaAt(7)
        U == SchemaAt(8)
        st == R20260412_0008.up
    IN  /\ Reached(8, st, U)
        /\ DOMAIN U = DOMAIN T \cup {"plc_llm_suggestions"}
        /\ \A t \in DOMAIN T : U[t] = T[t]
        /\ U["plc_llm_suggestions"].columns = st[1].columns
        /\ U["plc_llm_suggestions"].indexes = st[2].indexes
<1>. DEFINE T == SchemaAt(7)
            st == R20260412_0008.up
            tb == <<"plc_llm_suggestions">>
<1>1. st = Chain[8].up /\ 8 \in 1 .. 22 /\ 8 - 1 = 7 BY ChainIs
<1>2. /\ Sound(T) /\ "plc_testcases" \in DOMAIN T /\ "plc_test_suites" \in DOMAIN T
      /\ "plc_llm_suggestions" \notin DOMAIN T /\ Built[8].rows \subseteq Targeted
  BY Schema5, Schema6, Schema7 DEF Reached
<1>3. /\ 1 .. 1 = {1} /\ \A j \in 1 .. 1 - 1 : FALSE OBVIOUS
<1>4. tb[1] = "plc_llm_suggestions" /\ 2 * 1 - 1 = 1 /\ 2 * 1 = 2 /\ 1 \in Nat OBVIOUS
<1>5. Len(st) = 2 * 1 /\ Creating(st[1], tb[1]) /\ Indexing(st[2], tb[1])
      /\ \A q \in st[1].parents : q \in DOMAIN T
  BY <1>2, Statements8
<1>. HIDE DEF T, st, tb
<1>6. Pairs(T, st, tb, 1) BY <1>2, <1>3, <1>4, <1>5 DEF Pairs
<1>7. PICK U : Leads(T, st, U) /\ Sound(U) /\ PairsMade(T, st, tb, 1, U)
  BY <1>2, <1>4, <1>5, <1>6, PairsRevision
<1>8. Reached(8, st, U) BY <1>1, <1>2, <1>7, Reaches DEF T
<1>9. /\ DOMAIN U = DOMAIN T \cup {"plc_llm_suggestions"}
      /\ \A t \in DOMAIN T : U[t] = T[t]
      /\ U["plc_llm_suggestions"] = New(st, 1, 2)
  BY <1>3, <1>4, <1>7 DEF PairsMade
<1>. QED BY <1>8, <1>9 DEF Reached, T, st, New, Table

LEMMA SetDictIs ==
    ASSUME NEW t
    PROVE  /\ SetDict(t).do = "set_dict" /\ SetDict(t).table = t
           /\ SetDict(t).parents = {} /\ ~SetDict(t).guarded
BY DEF SetDict, Statement

LEMMA Statements9 ==
    LET st == R20260415_0009.up
    IN  /\ Len(st) = 10
        /\ Creating(st[1], "plc_execution_profiles") /\ st[1].parents = {}
        /\ Indexing(st[2], "plc_execution_profiles")
        /\ Adding(st[3], "plc_testcases")
        /\ st[4].do = "refer" /\ st[4].table = "plc_testcases" /\ ~st[4].guarded
        /\ st[4].parents = {"plc_execution_profiles"}
        /\ Adding(st[5], "plc_test_runs") /\ Adding(st[6], "plc_test_run_items")
        /\ st[7].do = "point_at" /\ st[7].table = "plc_testcases" /\ ~st[7].guarded
        /\ st[7].parents = {"plc_execution_profiles"}
        /\ st[8].do = "insert_from" /\ st[8].table = "plc_execution_profiles"
        /\ ~st[8].guarded /\ st[8].parents = {}
        /\ st[9].do = "set_dict" /\ st[9].table = "plc_test_runs" /\ ~st[9].guarded
        /\ st[9].parents = {}
        /\ st[10].do = "set_dict" /\ st[10].table = "plc_test_run_items" /\ ~st[10].guarded
        /\ st[10].parents = {}
<1>. DEFINE st == R20260415_0009.up
<1>1. /\ Len(st) = 10
      /\ st[1] = R20260415_0009_Columns[1] /\ st[2] = R20260415_0009_Columns[2]
      /\ st[3] = R20260415_0009_Columns[3] /\ st[4] = R20260415_0009_Columns[4]
      /\ st[5] = R20260415_0009_Columns[5] /\ st[6] = R20260415_0009_Columns[6]
      /\ st[7] = R20260415_0009_Data[1] /\ st[8] = R20260415_0009_Data[2]
      /\ st[9] = R20260415_0009_Data[3] /\ st[10] = R20260415_0009_Data[4]
  BY DEF R20260415_0009, R20260415_0009_Columns, R20260415_0009_Data
<1>. HIDE DEF st
<1>2. /\ Creating(st[1], "plc_execution_profiles") /\ st[1].parents = {}
      /\ Indexing(st[2], "plc_execution_profiles")
  BY <1>1, CreateTableIs, CreateIndexesIs DEF R20260415_0009_Columns, Creating, Indexing
<1>3. /\ Adding(st[3], "plc_testcases") /\ Adding(st[5], "plc_test_runs")
      /\ Adding(st[6], "plc_test_run_items")
  BY <1>1, AddColumnsIs DEF R20260415_0009_Columns, Adding
<1>4. /\ st[4].do = "refer" /\ st[4].table = "plc_testcases" /\ ~st[4].guarded
      /\ st[4].parents = {"plc_execution_profiles"}
  BY <1>1, ReferIs DEF R20260415_0009_Columns
<1>5. /\ st[7].do = "point_at" /\ st[7].table = "plc_testcases" /\ ~st[7].guarded
      /\ st[7].parents = {"plc_execution_profiles"}
      /\ st[8].do = "insert_from" /\ st[8].table = "plc_execution_profiles"
      /\ ~st[8].guarded /\ st[8].parents = {}
      /\ st[9].do = "set_dict" /\ st[9].table = "plc_test_runs" /\ ~st[9].guarded
      /\ st[9].parents = {}
      /\ st[10].do = "set_dict" /\ st[10].table = "plc_test_run_items" /\ ~st[10].guarded
      /\ st[10].parents = {}
  <2>1. /\ st[7] = PointAt("plc_testcases", "plc_execution_profiles")
        /\ st[8] = InsertFrom(<<"plc_testcases", "row">>, <<"plc_execution_profiles", "row">>)
        /\ st[9] = SetDict("plc_test_runs") /\ st[10] = SetDict("plc_test_run_items")
    BY <1>1 DEF R20260415_0009_Data
  <2>2. /\ st[7].do = "point_at" /\ st[7].table = "plc_testcases" /\ ~st[7].guarded
        /\ st[7].parents = {"plc_execution_profiles"}
    BY <2>1 DEF PointAt, Statement
  <2>3. /\ st[8].do = "insert_from" /\ st[8].table = "plc_execution_profiles"
        /\ ~st[8].guarded /\ st[8].parents = {}
    BY <2>1 DEF InsertFrom, Statement
  <2>4. /\ st[9].do = "set_dict" /\ st[9].table = "plc_test_runs" /\ ~st[9].guarded
        /\ st[9].parents = {}
    BY <2>1, SetDictIs
  <2>5. /\ st[10].do = "set_dict" /\ st[10].table = "plc_test_run_items" /\ ~st[10].guarded
        /\ st[10].parents = {}
    BY <2>1, SetDictIs
  <2>. QED BY <2>2, <2>3, <2>4, <2>5
<1>. QED BY <1>1, <1>2, <1>3, <1>4, <1>5 DEF st

\* 20260415_0009 creates a table, alters three others, and changes rows.
Made9(T, U) ==
    LET st == R20260415_0009.up
    IN  /\ Leads(T, st, U) /\ LeadsTo(T, st, 6, U) /\ Sound(U)
        /\ DOMAIN U = DOMAIN T \cup {"plc_execution_profiles"}
        /\ \A t \in DOMAIN T \ {"plc_testcases", "plc_test_runs", "plc_test_run_items"} :
               U[t] = T[t]
        /\ \E V : LeadsTo(T, st, 3, V) /\ V["plc_testcases"].parents = T["plc_testcases"].parents

LEMMA Up9 ==
    ASSUME NEW T, Sound(T), "plc_execution_profiles" \notin DOMAIN T,
           "plc_testcases" \in DOMAIN T, "plc_test_runs" \in DOMAIN T,
           "plc_test_run_items" \in DOMAIN T,
           R20260415_0009.up[3].columns \cap T["plc_testcases"].columns = {},
           R20260415_0009.up[5].columns \cap T["plc_test_runs"].columns = {},
           R20260415_0009.up[6].columns \cap T["plc_test_run_items"].columns = {}
    PROVE  \E U : Made9(T, U)
<1>. DEFINE st == R20260415_0009.up
            tb == <<"plc_execution_profiles">>
<1>1. /\ 1 .. 1 = {1} /\ \A j \in 1 .. 1 - 1 : FALSE OBVIOUS
<1>2. /\ tb[1] = "plc_execution_profiles" /\ 2 * 1 - 1 = 1 /\ 2 * 1 = 2 /\ 1 \in Nat OBVIOUS
<1>3. Creating(st[1], tb[1]) /\ Indexing(st[2], tb[1]) /\ st[1].parents = {} BY Statements9
<1>. HIDE DEF st, tb
<1>4. Pairs(T, st, tb, 1) BY <1>1, <1>2, <1>3 DEF Pairs
<1>5. PICK A : LeadsTo(T, st, 2, A) /\ Sound(A) /\ PairsMade(T, st, tb, 1, A)
  BY <1>2, <1>4, PairsCreate
<1>6. /\ DOMAIN A = DOMAIN T \cup {"plc_execution_profiles"}
      /\ \A t \in DOMAIN T : A[t] = T[t]
  BY <1>1, <1>2, <1>5 DEF PairsMade
<1>7. /\ Adding(st[3], "plc_testcases") /\ "plc_testcases" \in DOMAIN A
      /\ st[3].columns \cap A["plc_testcases"].columns = {}
  BY <1>6, Statements9 DEF st
<1>8. PICK B : /\ Runs(A, st[3], B) /\ Sound(B)
               /\ Alters(A, B, "plc_testcases",
                         Table(A["plc_testcases"].columns \cup st[3].columns,
                               A["plc_testcases"].indexes, A["plc_testcases"].parents))
  BY <1>5, <1>7, AddRuns
<1>9. /\ DOMAIN B = DOMAIN A
      /\ B["plc_testcases"].parents = T["plc_testcases"].parents
      /\ \A t \in DOMAIN A : t # "plc_testcases" => B[t] = A[t]
  BY <1>6, <1>8 DEF Alters, Table
<1>10. /\ st[4].do = "refer" /\ st[4].table = "plc_testcases" /\ ~st[4].guarded
       /\ st[4].parents \subseteq DOMAIN B /\ "plc_testcases" \in DOMAIN B
  BY <1>6, <1>9, Statements9 DEF st
<1>11. PICK C : /\ Runs(B, st[4], C) /\ Sound(C)
                /\ Alters(B, C, "plc_testcases",
                          Table(B["plc_testcases"].columns, B["plc_testcases"].indexes,
                                B["plc_testcases"].parents \cup st[4].parents))
  BY <1>8, <1>10, ReferRuns
<1>12. /\ DOMAIN C = DOMAIN B
       /\ \A t \in DOMAIN B : t # "plc_testcases" => C[t] = B[t]
  BY <1>11 DEF Alters
<1>13. /\ Adding(st[5], "plc_test_runs") /\ "plc_test_runs" \in DOMAIN C
       /\ st[5].columns \cap C["plc_test_runs"].columns = {}
  BY <1>6, <1>9, <1>12, Statements9 DEF st
<1>14. PICK D : /\ Runs(C, st[5], D) /\ Sound(D)
                /\ Alters(C, D, "plc_test_runs",
                          Table(C["plc_test_runs"].columns \cup st[5].columns,
                                C["plc_test_runs"].indexes, C["plc_test_runs"].parents))
  BY <1>11, <1>13, AddRuns
<1>15. DOMAIN D = DOMAIN C /\ \A t \in DOMAIN C : t # "plc_test_runs" => D[t] = C[t]
  BY <1>14 DEF Alters
<1>16. /\ Adding(st[6], "plc_test_run_items") /\ "plc_test_run_items" \in DOMAIN D
       /\ st[6].columns \cap D["plc_test_run_items"].columns = {}
  BY <1>6, <1>9, <1>12, <1>15, Statements9 DEF st
<1>17. PICK U : /\ Runs(D, st[6], U) /\ Sound(U)
                /\ Alters(D, U, "plc_test_run_items",
                          Table(D["plc_test_run_items"].columns \cup st[6].columns,
                                D["plc_test_run_items"].indexes,
                                D["plc_test_run_items"].parents))
  BY <1>14, <1>16, AddRuns
<1>18. DOMAIN U = DOMAIN D /\ \A t \in DOMAIN D : t # "plc_test_run_items" => U[t] = D[t]
  BY <1>17 DEF Alters
<1>19. /\ DOMAIN U = DOMAIN T \cup {"plc_execution_profiles"}
       /\ \A t \in DOMAIN T \ {"plc_testcases", "plc_test_runs", "plc_test_run_items"} :
              U[t] = T[t]
  BY <1>6, <1>9, <1>12, <1>15, <1>18
<1>20. LeadsTo(T, st, 3, B) /\ LeadsTo(T, st, 6, U)
  <2>1. /\ 2 \in Nat /\ 3 \in Nat /\ 4 \in Nat /\ 5 \in Nat
        /\ 3 = 2 + 1 /\ 4 = 3 + 1 /\ 5 = 4 + 1 /\ 6 = 5 + 1
    OBVIOUS
  <2>2. LeadsTo(T, st, 3, B) BY <1>5, <1>8, <2>1, LeadsFurther
  <2>3. LeadsTo(T, st, 4, C) BY <1>11, <2>1, <2>2, LeadsFurther
  <2>4. LeadsTo(T, st, 5, D) BY <1>14, <2>1, <2>3, LeadsFurther
  <2>5. LeadsTo(T, st, 6, U) BY <1>17, <2>1, <2>4, LeadsFurther
  <2>. QED BY <2>2, <2>5
<1>21. Runs(U, st[7], U) /\ Runs(U, st[8], U) /\ Runs(U, st[9], U) /\ Runs(U, st[10], U)
  <2>. DEFINE Harmless(s) ==
           /\ ~s.guarded /\ s.table \in DOMAIN U /\ s.parents \subseteq DOMAIN U
           /\ s.do \in {"insert", "insert_from", "rewrite", "point_at", "set_dict"}
  <2>1. Harmless(st[7]) /\ Harmless(st[8]) /\ Harmless(st[9]) /\ Harmless(st[10])
    BY <1>19, Statements9 DEF st
  <2>2. \A s : Harmless(s) => Runs(U, s, U) BY <1>17, DataRuns
  <2>. HIDE DEF Harmless
  <2>. QED BY <2>1, <2>2
<1>22. LeadsTo(T, st, 10, U)
  <2>1. /\ 6 \in Nat /\ 7 \in Nat /\ 8 \in Nat /\ 9 \in Nat
        /\ 7 = 6 + 1 /\ 8 = 7 + 1 /\ 9 = 8 + 1 /\ 10 = 9 + 1
    OBVIOUS
  <2>2. LeadsTo(T, st, 7, U) BY <1>20, <1>21, <2>1, LeadsFurther
  <2>3. LeadsTo(T, st, 8, U) BY <1>21, <2>1, <2>2, LeadsFurther
  <2>4. LeadsTo(T, st, 9, U) BY <1>21, <2>1, <2>3, LeadsFurther
  <2>. QED BY <1>21, <2>1, <2>4, LeadsFurther
<1>23. Leads(T, st, U) BY <1>22, Statements9 DEF Leads, st
<1>. QED BY <1>9, <1>17, <1>19, <1>20, <1>23 DEF Made9, st

LEMMA Schema9 ==
    LET T == SchemaAt(8)
        U == SchemaAt(9)
        st == R20260415_0009.up
    IN  /\ Reached(9, st, U) /\ LeadsTo(T, st, 6, U)
        /\ DOMAIN U = DOMAIN T \cup {"plc_execution_profiles"}
        /\ \A t \in DOMAIN T \ {"plc_testcases", "plc_test_runs", "plc_test_run_items"} :
               U[t] = T[t]
        /\ \A V : LeadsTo(T, st, 3, V) =>
               V["plc_testcases"].parents = {"plc_test_suites"}
<1>. DEFINE T == SchemaAt(8)
            st == R20260415_0009.up
<1>1. st = Chain[9].up /\ 9 \in 1 .. 22 /\ 9 - 1 = 8 BY ChainIs
<1>2. Sound(T) /\ Built[9].rows \subseteq Targeted BY Schema8 DEF Reached
<1>3. /\ "plc_testcases" \in DOMAIN T /\ T["plc_testcases"].parents = {"plc_test_suites"}
      /\ T["plc_testcases"].columns = R20260412_0006.up[3].columns
      /\ "plc_test_runs" \in DOMAIN T /\ T["plc_test_runs"].columns = R20260412_0006.up[5].columns
      /\ "plc_test_run_items" \in DOMAIN T
      /\ T["plc_test_run_items"].columns = R20260412_0006.up[7].columns
      /\ "plc_execution_profiles" \notin DOMAIN T
  BY Schema5, Schema6, Schema7, Schema8
<1>4. /\ st[3].columns \cap T["plc_testcases"].columns = {}
      /\ st[5].columns \cap T["plc_test_runs"].columns = {}
      /\ st[6].columns \cap T["plc_test_run_items"].columns = {}
  BY <1>3, PlcApart
<1>. HIDE DEF T
<1>5. PICK U : Made9(T, U) BY <1>2, <1>3, <1>4, Up9
<1>6. /\ Leads(T, st, U) /\ LeadsTo(T, st, 6, U)
      /\ DOMAIN U = DOMAIN T \cup {"plc_execution_profiles"}
      /\ \A t \in DOMAIN T \ {"plc_testcases", "plc_test_runs", "plc_test_run_items"} :
             U[t] = T[t]
      /\ \E V : LeadsTo(T, st, 3, V) /\ V["plc_testcases"].parents = T["plc_testcases"].parents
  BY <1>5 DEF Made9
<1>. HIDE DEF st
<1>7. Reached(9, st, U) BY <1>1, <1>2, <1>6, Reaches DEF T
<1>8. ASSUME NEW V, LeadsTo(T, st, 3, V)
      PROVE  V["plc_testcases"].parents = {"plc_test_suites"}
  <2>1. PICK W : LeadsTo(T, st, 3, W) /\ W["plc_testcases"].parents = T["plc_testcases"].parents
    BY <1>6
  <2>2. 3 \in Nat OBVIOUS
  <2>3. V = W BY <1>8, <2>1, <2>2, LeadsUnique
  <2>. QED BY <1>3, <2>1, <2>3
<1>. QED BY <1>6, <1>7, <1>8 DEF Reached, T, st

LEMMA Schema10 ==
    LET T == SchemaAt(9)
        U == SchemaAt(10)
    IN  /\ Reached(10, R20260415_0010.up, U)
        /\ DOMAIN U = DOMAIN T
        /\ \A t \in DOMAIN T : t # "plc_llm_suggestions" => U[t] = T[t]
<1>. DEFINE T == SchemaAt(9)
            st == R20260415_0010.up
<1>1. st = Chain[10].up /\ 10 \in 1 .. 22 /\ 10 - 1 = 9 BY ChainIs
<1>2. Sound(T) /\ Built[10].rows \subseteq Targeted BY Schema9 DEF Reached
<1>3. /\ "plc_llm_suggestions" \in DOMAIN T
      /\ T["plc_llm_suggestions"].columns = R20260412_0008.up[1].columns
      /\ T["plc_llm_suggestions"].indexes = R20260412_0008.up[2].indexes
  BY Schema8, Schema9
<1>4. /\ st[1].columns \cap T["plc_llm_suggestions"].columns = {}
      /\ st[2].indexes \cap T["plc_llm_suggestions"].indexes = {}
  BY <1>3, PlcApart
<1>5. /\ Len(st) = 2 /\ Adding(st[1], "plc_llm_suggestions")
      /\ Indexing(st[2], "plc_llm_suggestions")
  BY Alterations
<1>. HIDE DEF T, st
<1>6. PICK U : /\ Leads(T, st, U) /\ Sound(U)
               /\ Alters(T, U, "plc_llm_suggestions",
                         Table(T["plc_llm_suggestions"].columns \cup st[1].columns,
                               T["plc_llm_suggestions"].indexes \cup st[2].indexes,
                               T["plc_llm_suggestions"].parents))
  BY <1>2, <1>3, <1>4, <1>5, AddIndexRevision
<1>7. Reached(10, st, U) BY <1>1, <1>2, <1>6, Reaches DEF T
<1>. QED BY <1>6, <1>7 DEF Reached, Alters, T, st

LEMMA Names10 ==
    DOMAIN SchemaAt(10) =
        {"jobs", "worker_heartbeats", "datasets", "plc_test_suites", "plc_targets",
         "plc_testcases", "plc_test_runs", "plc_test_run_items", "plc_test_run_io_logs",
         "plc_llm_suggestions", "plc_execution_profiles"}
<1>1. DOMAIN SchemaAt(6) =
          {"jobs", "worker_heartbeats", "datasets", "plc_test_suites", "plc_targets",
           "plc_testcases", "plc_test_runs", "plc_test_run_items", "plc_test_run_io_logs"}
  BY Schema5, Schema6
<1>2. DOMAIN SchemaAt(10) =
          (DOMAIN SchemaAt(6) \cup {"plc_llm_suggestions"}) \cup {"plc_execution_profiles"}
  BY Schema7, Schema8, Schema9, Schema10
<1>. QED BY <1>1, <1>2

\* 20260417_0010 creates the fine-tuning tables and the collections.
Created11 ==
    {"ft_datasets", "ft_dataset_versions", "ft_dataset_rows", "ft_training_jobs",
     "ft_model_artifacts", "model_registry", "rag_collections", "rag_documents"}

LEMMA Schema11 ==
    LET T == SchemaAt(10)
        U == SchemaAt(11)
        st == R20260417_0010.up
    IN  /\ Reached(11, st, U)
        /\ DOMAIN U = DOMAIN T \cup Created11
        /\ \A t \in DOMAIN T : U[t] = T[t]
        /\ U["ft_datasets"] = New(st, 1, 2) /\ U["ft_dataset_versions"] = New(st, 3, 4)
        /\ U["ft_dataset_rows"] = New(st, 5, 6) /\ U["ft_training_jobs"] = New(st, 7, 8)
        /\ U["ft_model_artifacts"] = New(st, 9, 10) /\ U["model_registry"] = New(st, 11, 12)
        /\ U["rag_collections"] = New(st, 13, 14) /\ U["rag_documents"] = New(st, 15, 16)
<1>. DEFINE T == SchemaAt(10)
            st == R20260417_0010.up
            tb == <<"ft_datasets", "ft_dataset_versions", "ft_dataset_rows",
                    "ft_training_jobs", "ft_model_artifacts", "model_registry",
                    "rag_collections", "rag_documents">>
<1>1. st = Chain[11].up /\ 11 \in 1 .. 22 /\ 11 - 1 = 10 BY ChainIs
<1>2. /\ Sound(T) /\ Built[11].rows \subseteq Targeted
      /\ "jobs" \in DOMAIN T /\ \A t \in Created11 : t \notin DOMAIN T
  BY Schema10, Names10 DEF Reached, Created11
<1>3. /\ tb[1] = "ft_datasets" /\ tb[2] = "ft_dataset_versions" /\ tb[3] = "ft_dataset_rows"
      /\ tb[4] = "ft_training_jobs" /\ tb[5] = "ft_model_artifacts"
      /\ tb[6] = "model_registry" /\ tb[7] = "rag_collections" /\ tb[8] = "rag_documents"
  OBVIOUS
<1>4. 1 .. 8 = {1, 2, 3, 4, 5, 6, 7, 8} OBVIOUS
<1>5. Len(st) = 2 * 8 /\ 8 \in Nat BY Statements11
<1>. HIDE DEF T, st, tb
<1>6. Pairs(T, st, tb, 8)
  <2>1. ASSUME NEW k \in {1, 2, 3, 4, 5, 6, 7, 8}
        PROVE  Creating(st[2 * k - 1], tb[k]) /\ Indexing(st[2 * k], tb[k])
    BY <1>3, Statements11 DEF st
  <2>2. ASSUME NEW k \in {1, 2, 3, 4, 5, 6, 7, 8}
        PROVE  tb[k] \notin DOMAIN T /\ \A j \in 1 .. k - 1 : tb[j] # tb[k]
    BY <1>2, <1>3 DEF Created11
  <2>3. ASSUME NEW k \in {1, 2, 3, 4, 5, 6, 7, 8}
        PROVE  \A q \in st[2 * k - 1].parents :
                   q \in DOMAIN T \/ \E j \in 1 .. k - 1 : tb[j] = q
    BY <1>2, <1>3, Statements11 DEF st
  <2>. QED BY <1>4, <2>1, <2>2, <2>3 DEF Pairs
<1>7. PICK U : Leads(T, st, U) /\ Sound(U) /\ PairsMade(T, st, tb, 8, U)
  BY <1>2, <1>5, <1>6, PairsRevision
<1>8. Reached(11, st, U) BY <1>1, <1>2, <1>7, Reaches DEF T
<1>9. {tb[k] : k \in 1 .. 8} = Created11 BY <1>3, <1>4 DEF Created11
<1>10. /\ U["ft_datasets"] = New(st, 1, 2) /\ U["ft_dataset_versions"] = New(st, 3, 4)
       /\ U["ft_dataset_rows"] = New(st, 5, 6) /\ U["ft_training_jobs"] = New(st, 7, 8)
       /\ U["ft_model_artifacts"] = New(st, 9, 10) /\ U["model_registry"] = New(st, 11, 12)
       /\ U["rag_collections"] = New(st, 13, 14) /\ U["rag_documents"] = New(st, 15, 16)
  BY <1>3, <1>4, <1>7 DEF PairsMade
<1>. QED BY <1>7, <1>8, <1>9, <1>10 DEF Reached, PairsMade, T, st

LEMMA Schema12 ==
    LET T == SchemaAt(11)
        U == SchemaAt(12)
        st == R20260417_0011.up
        created == R20260417_0010.up
    IN  /\ Reached(12, st, U)
        /\ DOMAIN U = DOMAIN T
        /\ \A t \in DOMAIN T : t # "ft_training_jobs" /\ t # "model_registry" => U[t] = T[t]
        /\ U["ft_training_jobs"] =
               Table(created[7].columns \cup st[1].columns, created[8].indexes,
                     created[7].parents)
        /\ U["model_registry"] =
               Table(created[11].columns \cup st[2].columns, created[12].indexes,
                     created[11].parents)
<1>. DEFINE T == SchemaAt(11)
            st == R20260417_0011.up
            created == R20260417_0010.up
<1>1. st = Chain[12].up /\ 12 \in 1 .. 22 /\ 12 - 1 = 11 BY ChainIs
<1>2. /\ Sound(T) /\ Built[12].rows \subseteq Targeted
      /\ "ft_training_jobs" \in DOMAIN T /\ "model_registry" \in DOMAIN T
      /\ T["ft_training_jobs"] = New(created, 7, 8) /\ T["model_registry"] = New(created, 11, 12)
  BY Schema11 DEF Reached, Created11
<1>. HIDE DEF T
<1>3. /\ T["ft_training_jobs"].columns = created[7].columns
      /\ T["ft_training_jobs"].indexes = created[8].indexes
      /\ T["ft_training_jobs"].parents = created[7].parents
      /\ T["model_registry"].columns = created[11].columns
      /\ T["model_registry"].indexes = created[12].indexes
      /\ T["model_registry"].parents = created[11].parents
  BY <1>2 DEF New, Table
<1>4. /\ st[1].columns \cap T["ft_training_jobs"].columns = {}
      /\ st[2].columns \cap T["model_registry"].columns = {}
  BY <1>3, FineTuningApart
<1>5. Len(st) = 2 /\ Adding(st[1], "ft_training_jobs") /\ Adding(st[2], "model_registry")
  BY Alterations
<1>. HIDE DEF st, created
<1>6. PICK U : TwoAltered(T, st, "ft_training_jobs", "model_registry", U)
  BY <1>2, <1>4, <1>5, TwoAddRevision
<1>7. Reached(12, st, U) BY <1>1, <1>2, <1>6, Reaches DEF T, TwoAltered
<1>. QED BY <1>3, <1>6, <1>7 DEF Reached, TwoAltered, T, st, created

LEMMA Schema13 == Reached(13, R20260523_0012.up, SchemaAt(13)) /\ SchemaAt(13) = SchemaAt(12)
<1>. DEFINE T == SchemaAt(12)
            st == R20260523_0012.up
<1>1. st = Chain[13].up /\ 13 \in 1 .. 22 /\ 13 - 1 = 12 BY ChainIs
<1>2. Sound(T) /\ "ft_training_jobs" \in DOMAIN T /\ Built[13].rows \subseteq Targeted
  BY Schema11, Schema12 DEF Reached, Created11
<1>3. /\ Len(st) = 1 /\ ~st[1].guarded /\ st[1].table \in DOMAIN T
      /\ st[1].parents = {} /\ st[1].do \in {"insert_from", "rewrite"}
  BY <1>2, Data
<1>. HIDE DEF T, st
<1>4. Leads(T, st, T) BY <1>2, <1>3, DataRevision
<1>5. Reached(13, st, T) BY <1>1, <1>2, <1>4, Reaches DEF T
<1>. QED BY <1>5 DEF Reached, T, st

LEMMA Names13 ==
    DOMAIN SchemaAt(13) =
        {"jobs", "worker_heartbeats", "datasets", "plc_test_suites", "plc_targets",
         "plc_testcases", "plc_test_runs", "plc_test_run_items", "plc_test_run_io_logs",
         "plc_llm_suggestions", "plc_execution_profiles"} \cup Created11
BY Names10, Schema11, Schema12, Schema13

\* Statements under a guard: with what they name there, they run; without it,
\* nothing happens, and there was nothing to take away.
LEMMA UnindexIfPresent ==
    ASSUME NEW T, Sound(T), NEW t \in DOMAIN T, NEW s, NEW x,
           s.do = "unindex", s.table = t, s.guarded, s.columns = {}, s.indexes = {x},
           s.parents = {}
    PROVE  \E U : /\ Runs(T, s, U) /\ Sound(U)
                  /\ Alters(T, U, t, Table(T[t].columns, T[t].indexes \ {x}, T[t].parents))
<1>1. CASE x \in T[t].indexes
  <2>1. Present(T, s) /\ Fits(T, s) BY <1>1 DEF Present, Fits
  <2>2. PICK U : Runs(T, s, U) /\ Sound(U) /\ Follow(T, s, U) BY <2>1, FitsRuns
  <2>3. AlteredTable(T[t], s) = Table(T[t].columns, T[t].indexes \ {x}, T[t].parents)
    BY DEF AlteredTable, Table
  <2>4. Alters(T, U, t, Table(T[t].columns, T[t].indexes \ {x}, T[t].parents))
    BY <2>2, <2>3 DEF Alters, Follow
  <2>. QED BY <2>2, <2>4
<1>2. CASE x \notin T[t].indexes
  <2>1. ~Present(T, s) BY <1>2 DEF Present
  <2>2. Runs(T, s, T) BY <2>1 DEF Runs
  <2>3. T[t].indexes \ {x} = T[t].indexes BY <1>2
  <2>4. T[t] = Table(T[t].columns, T[t].indexes, T[t].parents) BY DEF Table, Sound, Shaped
  <2>5. Alters(T, T, t, Table(T[t].columns, T[t].indexes \ {x}, T[t].parents))
    BY <2>3, <2>4 DEF Alters
  <2>. QED BY <2>2, <2>5
<1>. QED BY <1>1, <1>2

LEMMA RemoveIfPresent ==
    ASSUME NEW T, Sound(T), NEW t \in DOMAIN T, NEW s, NEW x,
           s.do = "remove", s.table = t, s.guarded, s.columns = {x}, s.indexes = {},
           s.parents = {}
    PROVE  \E U : /\ Runs(T, s, U) /\ Sound(U)
                  /\ Alters(T, U, t, Table(T[t].columns \ {x}, T[t].indexes, T[t].parents))
<1>1. CASE x \in T[t].columns
  <2>1. Present(T, s) /\ Fits(T, s) BY <1>1 DEF Present, Fits
  <2>2. PICK U : Runs(T, s, U) /\ Sound(U) /\ Follow(T, s, U) BY <2>1, FitsRuns
  <2>3. AlteredTable(T[t], s) = Table(T[t].columns \ {x}, T[t].indexes, T[t].parents)
    BY DEF AlteredTable, Table
  <2>4. Alters(T, U, t, Table(T[t].columns \ {x}, T[t].indexes, T[t].parents))
    BY <2>2, <2>3 DEF Alters, Follow
  <2>. QED BY <2>2, <2>4
<1>2. CASE x \notin T[t].columns
  <2>1. ~Present(T, s) BY <1>2 DEF Present
  <2>2. Runs(T, s, T) BY <2>1 DEF Runs
  <2>3. T[t].columns \ {x} = T[t].columns BY <1>2
  <2>4. T[t] = Table(T[t].columns, T[t].indexes, T[t].parents) BY DEF Table, Sound, Shaped
  <2>5. Alters(T, T, t, Table(T[t].columns \ {x}, T[t].indexes, T[t].parents))
    BY <2>3, <2>4 DEF Alters
  <2>. QED BY <2>2, <2>5
<1>. QED BY <1>1, <1>2

\* The PLC tables are dropped after those that refer to them.
LEMMA RetirementDrops ==
    ASSUME NEW T, Sound(T), PLC \subseteq DOMAIN T,
           \A t \in DOMAIN T : \A q \in T[t].parents : <<t, q>> \in References
    PROVE  DropOrder(T, R20260523_0013.up, 8)
<1>. DEFINE st == R20260523_0013.up
<1>1. 1 .. 8 = {1, 2, 3, 4, 5, 6, 7, 8} OBVIOUS
<1>2. /\ st[1].table = "plc_test_run_io_logs" /\ st[2].table = "plc_test_run_items"
      /\ st[3].table = "plc_test_runs" /\ st[4].table = "plc_llm_suggestions"
      /\ st[5].table = "plc_testcases" /\ st[6].table = "plc_execution_profiles"
      /\ st[7].table = "plc_targets" /\ st[8].table = "plc_test_suites"
  BY Retirement, GuardedDropIs
<1>3. \A i \in {1, 2, 3, 4, 5, 6, 7, 8} :
         st[i].do = "drop" /\ st[i].parents = {} /\ st[i].columns = {} /\ st[i].indexes = {}
  BY Retirement, GuardedDropIs
<1>. HIDE DEF st
<1>4. \A i \in {1, 2, 3, 4, 5, 6, 7, 8} :
         st[i].table \in DOMAIN T /\ \A j \in 1 .. i - 1 : st[j].table # st[i].table
  BY <1>2, PLCTables
<1>5. ASSUME NEW t \in DOMAIN T
      PROVE  /\ "plc_test_run_io_logs" \notin T[t].parents
             /\ "plc_test_run_items" \in T[t].parents => t = "plc_test_run_io_logs"
             /\ "plc_test_runs" \in T[t].parents => t = "plc_test_run_items"
             /\ "plc_llm_suggestions" \notin T[t].parents
             /\ "plc_testcases" \in T[t].parents =>
                   t \in {"plc_test_run_items", "plc_llm_suggestions"}
             /\ "plc_execution_profiles" \in T[t].parents => t = "plc_testcases"
             /\ "plc_targets" \notin T[t].parents
             /\ "plc_test_suites" \in T[t].parents =>
                   t \in {"plc_testcases", "plc_test_runs", "plc_llm_suggestions"}
  <2>1. \A q : q \in T[t].parents => <<t, q>> \in References OBVIOUS
  <2>. QED BY <2>1 DEF References
<1>6. ASSUME NEW i \in {1, 2, 3, 4, 5, 6, 7, 8}, NEW t \in DOMAIN T,
             st[i].table \in T[t].parents
      PROVE  \E j \in 1 .. i - 1 : st[j].table = t
  <2>1. CASE i = 1 BY <1>2, <1>5, <1>6, <2>1
  <2>2. CASE i = 2
    <3>1. t = st[1].table /\ 1 \in 1 .. i - 1 BY <1>2, <1>5, <1>6, <2>2
    <3>. QED BY <3>1
  <2>3. CASE i = 3
    <3>1. t = st[2].table /\ 2 \in 1 .. i - 1 BY <1>2, <1>5, <1>6, <2>3
    <3>. QED BY <3>1
  <2>4. CASE i = 4 BY <1>2, <1>5, <1>6, <2>4
  <2>5. CASE i = 5
    <3>1. t \in {st[2].table, st[4].table} /\ {2, 4} \subseteq 1 .. i - 1
      BY <1>2, <1>5, <1>6, <2>5
    <3>. QED BY <3>1
  <2>6. CASE i = 6
    <3>1. t = st[5].table /\ 5 \in 1 .. i - 1 BY <1>2, <1>5, <1>6, <2>6
    <3>. QED BY <3>1
  <2>7. CASE i = 7 BY <1>2, <1>5, <1>6, <2>7
  <2>8. CASE i = 8
    <3>1. t \in {st[3].table, st[4].table, st[5].table} /\ {3, 4, 5} \subseteq 1 .. i - 1
      BY <1>2, <1>5, <1>6, <2>8
    <3>. QED BY <3>1
  <2>. QED BY <2>1, <2>2, <2>3, <2>4, <2>5, <2>6, <2>7, <2>8
<1>. QED BY <1>1, <1>3, <1>4, <1>6 DEF DropOrder, st

\* 20260523_0013 leaves the schema without the PLC domain.
LEMMA Up14 ==
    ASSUME NEW T, Sound(T), PLC \subseteq DOMAIN T, "jobs" \in DOMAIN T,
           \A t \in DOMAIN T : \A q \in T[t].parents : <<t, q>> \in References
    PROVE  Leads(T, R20260523_0013.up, Retired(T))
<1>. DEFINE st == R20260523_0013.up
            L == Left(T, st, 8)
<1>1. LeadsTo(T, st, 8, L)
  <2>1. 8 \in Nat OBVIOUS
  <2>. QED BY <2>1, RetirementDrops, Drops
<1>2. {st[j].table : j \in 1 .. 8} = PLC
  <2>1. 1 .. 8 = {1, 2, 3, 4, 5, 6, 7, 8} OBVIOUS
  <2>2. /\ st[1].table = "plc_test_run_io_logs" /\ st[2].table = "plc_test_run_items"
        /\ st[3].table = "plc_test_runs" /\ st[4].table = "plc_llm_suggestions"
        /\ st[5].table = "plc_testcases" /\ st[6].table = "plc_execution_profiles"
        /\ st[7].table = "plc_targets" /\ st[8].table = "plc_test_suites"
    BY Retirement, GuardedDropIs
  <2>. HIDE DEF st
  <2>. QED BY <2>1, <2>2, PLCTables
<1>3. Len(st) = 10 BY Retirement
<1>4. /\ st[9].do = "unindex" /\ st[9].table = "jobs" /\ st[9].guarded /\ st[9].columns = {}
      /\ st[9].indexes = {"plc_suite_status_created_at"} /\ st[9].parents = {}
      /\ st[10].do = "remove" /\ st[10].table = "jobs" /\ st[10].guarded
      /\ st[10].columns = {"plc_suite_id"} /\ st[10].indexes = {} /\ st[10].parents = {}
  BY Retirement, GuardedIs
<1>. HIDE DEF st, L
<1>5. DOMAIN L = DOMAIN T \ PLC /\ \A t \in DOMAIN T \ PLC : L[t] = T[t]
  <2>1. /\ DOMAIN L = DOMAIN T \ {st[j].table : j \in 1 .. 8}
        /\ \A t \in DOMAIN L : L[t] = T[t]
    BY DEF L, Left
  <2>. QED BY <1>2, <2>1
<1>6. Sound(L)
  <2>1. PICK p : /\ p[1] = T /\ p[8 + 1] = L
                 /\ \A i \in 1 .. 8 : Runs(p[i], st[i], p[i + 1])
    BY <1>1 DEF LeadsTo
  <2>2. 8 \in Nat /\ 8 + 1 \in 1 .. 8 + 1 OBVIOUS
  <2>. QED BY <2>1, <2>2, LeadsSound
<1>7. "jobs" \in DOMAIN L /\ L["jobs"] = T["jobs"] BY <1>5, PLCTables
<1>8. PICK V : /\ Runs(L, st[9], V) /\ Sound(V)
               /\ Alters(L, V, "jobs",
                         Table(L["jobs"].columns,
                               L["jobs"].indexes \ {"plc_suite_status_created_at"},
                               L["jobs"].parents))
  BY <1>4, <1>6, <1>7, UnindexIfPresent
<1>9. /\ "jobs" \in DOMAIN V /\ V["jobs"].columns = T["jobs"].columns
      /\ V["jobs"].indexes = T["jobs"].indexes \ {"plc_suite_status_created_at"}
      /\ V["jobs"].parents = T["jobs"].parents
      /\ DOMAIN V = DOMAIN L /\ \A t \in DOMAIN L : t # "jobs" => V[t] = L[t]
  BY <1>7, <1>8 DEF Alters, Table
<1>10. PICK U : /\ Runs(V, st[10], U) /\ Sound(U)
                /\ Alters(V, U, "jobs",
                          Table(V["jobs"].columns \ {"plc_suite_id"}, V["jobs"].indexes,
                                V["jobs"].parents))
  BY <1>4, <1>8, <1>9, RemoveIfPresent
<1>11. LeadsTo(T, st, 10, U)
  <2>1. 8 \in Nat /\ 9 \in Nat /\ 9 = 8 + 1 /\ 10 = 9 + 1 OBVIOUS
  <2>2. LeadsTo(T, st, 9, V) BY <1>1, <1>8, <2>1, LeadsFurther
  <2>. QED BY <1>10, <2>1, <2>2, LeadsFurther
<1>12. /\ DOMAIN U = DOMAIN T \ PLC
       /\ \A t \in DOMAIN T \ PLC : t # "jobs" => U[t] = T[t]
       /\ U["jobs"] = [columns |-> T["jobs"].columns \ {"plc_suite_id"},
                       indexes |-> T["jobs"].indexes \ {"plc_suite_status_created_at"},
                       parents |-> T["jobs"].parents]
  BY <1>5, <1>9, <1>10 DEF Alters, Table
<1>13. U = Retired(T)
  <2>. DEFINE R == Retired(T)
  <2>1. /\ Shaped(R) /\ DOMAIN R = DOMAIN T \ PLC
        /\ \A t \in DOMAIN T \ PLC : t # "jobs" => R[t] = T[t]
        /\ R["jobs"] = [columns |-> T["jobs"].columns \ {"plc_suite_id"},
                        indexes |-> T["jobs"].indexes \ {"plc_suite_status_created_at"},
                        parents |-> T["jobs"].parents]
    BY RetiredIs DEF Sound
  <2>. HIDE DEF R
  <2>2. \A t \in DOMAIN U : U[t] = R[t] BY <1>12, <2>1
  <2>3. DOMAIN U = DOMAIN R /\ Shaped(U) BY <1>10, <1>12, <2>1 DEF Sound
  <2>4. U = R BY <2>1, <2>2, <2>3, ShapedEqual
  <2>. QED BY <2>4 DEF R
<1>. QED BY <1>3, <1>11, <1>13 DEF Leads, st

LEMMA Schema14 == Reached(14, R20260523_0013.up, Retired(SchemaAt(13)))
<1>. DEFINE T == SchemaAt(13)
            st == R20260523_0013.up
<1>1. st = Chain[14].up /\ 14 \in 1 .. 22 /\ 14 - 1 = 13 BY ChainIs
<1>2. Sound(T) /\ Built[14].rows \subseteq Targeted BY Schema13 DEF Reached
<1>3. PLC \subseteq DOMAIN T /\ "jobs" \in DOMAIN T BY Names13, PLCTables
<1>4. \A t \in DOMAIN T : \A q \in T[t].parents : <<t, q>> \in References
  <2>1. 13 \in 0 .. 22 OBVIOUS
  <2>. QED BY <2>1, BuiltTidy DEF Tidy, SchemaAt
<1>. HIDE DEF T
<1>5. Leads(T, st, Retired(T)) BY <1>2, <1>3, <1>4, Up14
<1>. HIDE DEF st
<1>6. Reached(14, st, Retired(T)) BY <1>1, <1>2, <1>5, Reaches DEF T
<1>. QED BY <1>6 DEF T, st

\* A revision that renames a column and its index, where they are there.
Renames(st, t, a, b) ==
    /\ Len(st) = 3
    /\ st[1] = IfPresent(DropIndexes(t, {a})) /\ st[2] = IfPresent(Rename(t, a, b))
    /\ st[3] = IfPresent(CreateIndexes(t, {b}))

RenamedIn(T, st, t, a, b, U) ==
    /\ Leads(T, st, U) /\ Sound(U)
    /\ Alters(T, U, t, Table((T[t].columns \ {a}) \cup {b}, (T[t].indexes \ {a}) \cup {b},
                             T[t].parents))

LEMMA RenameRevision ==
    ASSUME NEW T, Sound(T), NEW t \in DOMAIN T, NEW st, NEW a, NEW b, Renames(st, t, a, b),
           a \in T[t].columns, b \notin T[t].columns, a \in T[t].indexes, b \notin T[t].indexes
    PROVE  \E U : RenamedIn(T, st, t, a, b, U)
<1>1. /\ st[1].do = "unindex" /\ st[1].table = t /\ st[1].guarded /\ st[1].columns = {}
      /\ st[1].indexes = {a} /\ st[1].parents = {}
  BY GuardedIs DEF Renames
<1>2. /\ st[2].do = "rename" /\ st[2].table = t /\ st[2].guarded /\ st[2].columns = {a}
      /\ st[2].indexes = {} /\ st[2].parents = {} /\ st[2].to[2] = b
  BY GuardedRenameIs DEF Renames
<1>3. /\ st[3].do = "index" /\ st[3].table = t /\ st[3].guarded /\ st[3].columns = {}
      /\ st[3].indexes = {b} /\ st[3].parents = {}
  BY GuardedIs DEF Renames
<1>4. PICK A : /\ Runs(T, st[1], A) /\ Sound(A)
               /\ Alters(T, A, t, Table(T[t].columns, T[t].indexes \ {a}, T[t].parents))
  BY <1>1, UnindexIfPresent
<1>5. /\ t \in DOMAIN A /\ DOMAIN A = DOMAIN T
      /\ A[t].columns = T[t].columns /\ A[t].indexes = T[t].indexes \ {a}
      /\ A[t].parents = T[t].parents /\ \A o \in DOMAIN T : o # t => A[o] = T[o]
  BY <1>4 DEF Alters, Table
<1>6. Present(A, st[2]) /\ Fits(A, st[2]) BY <1>2, <1>5 DEF Present, Fits
<1>7. PICK B : Runs(A, st[2], B) /\ Sound(B) /\ Follow(A, st[2], B)
  BY <1>4, <1>6, FitsRuns
<1>8. /\ t \in DOMAIN B /\ DOMAIN B = DOMAIN T
      /\ B[t].columns = (T[t].columns \ {a}) \cup {b} /\ B[t].indexes = T[t].indexes \ {a}
      /\ B[t].parents = T[t].parents /\ \A o \in DOMAIN T : o # t => B[o] = T[o]
  BY <1>2, <1>5, <1>7 DEF Follow, AlteredTable
<1>9. Present(B, st[3]) /\ Fits(B, st[3])
  <2>1. Present(B, st[3]) BY <1>3, <1>8 DEF Present
  <2>2. st[3].indexes \cap B[t].indexes = {} BY <1>3, <1>8
  <2>3. Fits(B, st[3]) BY <1>3, <1>8, <2>2 DEF Fits
  <2>. QED BY <2>1, <2>3
<1>10. PICK U : Runs(B, st[3], U) /\ Sound(U) /\ Follow(B, st[3], U)
  BY <1>7, <1>9, FitsRuns
<1>11. /\ DOMAIN U = DOMAIN T
       /\ U[t].columns = (T[t].columns \ {a}) \cup {b}
       /\ U[t].indexes = (T[t].indexes \ {a}) \cup {b}
       /\ U[t].parents = T[t].parents /\ \A o \in DOMAIN T : o # t => U[o] = T[o]
  BY <1>3, <1>8, <1>10 DEF Follow, AlteredTable
<1>12. U[t] = Table(U[t].columns, U[t].indexes, U[t].parents)
  BY <1>10, <1>11 DEF Sound, Shaped, Table
<1>13. LeadsTo(T, st, 3, U)
  <2>1. 0 \in Nat /\ 1 \in Nat /\ 2 \in Nat /\ 1 = 0 + 1 /\ 2 = 1 + 1 /\ 3 = 2 + 1 OBVIOUS
  <2>2. LeadsTo(T, st, 1, A) BY <1>4, <2>1, LeadsNowhere, LeadsFurther
  <2>3. LeadsTo(T, st, 2, B) BY <1>7, <2>1, <2>2, LeadsFurther
  <2>. QED BY <1>10, <2>1, <2>3, LeadsFurther
<1>14. Leads(T, st, U) BY <1>13 DEF Leads, Renames
<1>. QED BY <1>10, <1>11, <1>12, <1>14 DEF RenamedIn, Alters

LEMMA RegistryRenamed ==
    /\ Renames(R20260523_0014.up, "model_registry", "ollama_model_name", "serving_model_name")
    /\ Renames(R20260523_0014.down, "model_registry", "serving_model_name", "ollama_model_name")
BY DEF R20260523_0014, Renames

\* The registry before, between and after.
LEMMA RegistryColumns ==
    LET created == R20260417_0010.up
        c == created[11].columns \cup R20260417_0011.up[2].columns
        x == created[12].indexes
    IN  /\ "ollama_model_name" \in c /\ "serving_model_name" \notin c
        /\ "ollama_model_name" \in x /\ "serving_model_name" \notin x
<1>1. R20260417_0011.up[2].columns = {"published_model_name", "publish_status", "lineage_json"}
  BY AddColumnsIs DEF R20260417_0011
<1>. QED BY <1>1, Columns11

LEMMA Schema15 ==
    LET T == SchemaAt(14)
        U == SchemaAt(15)
        created == R20260417_0010.up
        c == created[11].columns \cup R20260417_0011.up[2].columns
        x == created[12].indexes
    IN  /\ Reached(15, R20260523_0014.up, U)
        /\ DOMAIN U = DOMAIN T
        /\ \A t \in DOMAIN T : t # "model_registry" => U[t] = T[t]
        /\ T["model_registry"] = Table(c, x, created[11].parents)
        /\ U["model_registry"] =
               Table((c \ {"ollama_model_name"}) \cup {"serving_model_name"},
                     (x \ {"ollama_model_name"}) \cup {"serving_model_name"},
                     created[11].parents)
<1>. DEFINE T == SchemaAt(14)
            st == R20260523_0014.up
            c == R20260417_0010.up[11].columns \cup R20260417_0011.up[2].columns
            x == R20260417_0010.up[12].indexes
            P == R20260417_0010.up[11].parents
<1>1. st = Chain[15].up /\ 15 \in 1 .. 22 /\ 15 - 1 = 14 BY ChainIs
<1>2. Sound(T) /\ Built[15].rows \subseteq Targeted BY Schema14 DEF Reached
<1>3. "model_registry" \in DOMAIN T /\ T["model_registry"] = Table(c, x, P)
  <2>. DEFINE R == SchemaAt(13)
  <2>1. "model_registry" \in DOMAIN R /\ "model_registry" \notin PLC
    BY Names13, PLCTables DEF Created11
  <2>2. R["model_registry"] = Table(c, x, P) BY Schema12, Schema13
  <2>3. Sound(R) /\ T = Retired(R) BY Schema13, Schema14 DEF Reached
  <2>. HIDE DEF R, T, c, x, P
  <2>. QED BY <2>1, <2>2, <2>3, RetiredIs DEF Sound
<1>4. /\ "ollama_model_name" \in c /\ "serving_model_name" \notin c
      /\ "ollama_model_name" \in x /\ "serving_model_name" \notin x
  BY RegistryColumns
<1>5. Renames(st, "model_registry", "ollama_model_name", "serving_model_name")
  BY RegistryRenamed
<1>. HIDE DEF T, st, c, x, P
<1>6. /\ T["model_registry"].columns = c /\ T["model_registry"].indexes = x
      /\ T["model_registry"].parents = P
  BY <1>3 DEF Table
<1>7. PICK U : RenamedIn(T, st, "model_registry", "ollama_model_name", "serving_model_name", U)
  BY <1>2, <1>3, <1>4, <1>5, <1>6, RenameRevision
<1>8. Reached(15, st, U) BY <1>1, <1>2, <1>7, Reaches DEF T, RenamedIn
<1>. QED BY <1>3, <1>6, <1>7, <1>8 DEF Reached, RenamedIn, Alters, T, st, c, x, P

LEMMA Schema16 ==
    LET T == SchemaAt(15)
        U == SchemaAt(16)
        st == Rb4aadc4ac8f6.up
        created == R20260417_0010.up
        added == R20260417_0011.up
    IN  /\ Reached(16, st, U)
        /\ DOMAIN U = DOMAIN T
        /\ \A t \in DOMAIN T : t # "ft_model_artifacts" /\ t # "ft_training_jobs" => U[t] = T[t]
        /\ U["ft_model_artifacts"] =
               Table(created[9].columns \cup st[1].columns, created[10].indexes,
                     created[9].parents)
        /\ U["ft_training_jobs"] =
               Table((created[7].columns \cup added[1].columns) \cup st[2].columns,
                     created[8].indexes, created[7].parents)
<1>. DEFINE T == SchemaAt(15)
            st == Rb4aadc4ac8f6.up
            created == R20260417_0010.up
            added == R20260417_0011.up
<1>1. st = Chain[16].up /\ 16 \in 1 .. 22 /\ 16 - 1 = 15 BY ChainIs
<1>2. Sound(T) /\ Built[16].rows \subseteq Targeted BY Schema15 DEF Reached
<1>3. /\ "ft_model_artifacts" \in DOMAIN T /\ T["ft_model_artifacts"] = New(created, 9, 10)
      /\ "ft_training_jobs" \in DOMAIN T
      /\ T["ft_training_jobs"] =
             Table(created[7].columns \cup added[1].columns, created[8].indexes,
                   created[7].parents)
  <2>. DEFINE R == SchemaAt(13)
  <2>1. /\ "ft_model_artifacts" \in DOMAIN R /\ "ft_model_artifacts" \notin PLC
        /\ "ft_training_jobs" \in DOMAIN R /\ "ft_training_jobs" \notin PLC
    BY Names13, PLCTables DEF Created11
  <2>2. /\ R["ft_model_artifacts"] = New(created, 9, 10)
        /\ R["ft_training_jobs"] =
               Table(created[7].columns \cup added[1].columns, created[8].indexes,
                     created[7].parents)
    BY Schema11, Schema12, Schema13 DEF Created11
  <2>3. Sound(R) /\ SchemaAt(14) = Retired(R) BY Schema13, Schema14 DEF Reached
  <2>4. /\ "ft_model_artifacts" \in DOMAIN SchemaAt(14)
        /\ SchemaAt(14)["ft_model_artifacts"] = R["ft_model_artifacts"]
        /\ "ft_training_jobs" \in DOMAIN SchemaAt(14)
        /\ SchemaAt(14)["ft_training_jobs"] = R["ft_training_jobs"]
    <3>. HIDE DEF R, created, added, T
    <3>1. /\ DOMAIN Retired(R) = DOMAIN R \ PLC
          /\ \A t \in DOMAIN R \ PLC : t # "jobs" => Retired(R)[t] = R[t]
      BY <2>3, RetiredIs DEF Sound
    <3>2. SchemaAt(14) = Retired(R) BY <2>3
    <3>. QED BY <2>1, <3>1, <3>2
  <2>5. /\ "ft_model_artifacts" \in DOMAIN T
        /\ T["ft_model_artifacts"] = SchemaAt(14)["ft_model_artifacts"]
        /\ "ft_training_jobs" \in DOMAIN T
        /\ T["ft_training_jobs"] = SchemaAt(14)["ft_training_jobs"]
    BY <2>4, Schema15
  <2>. HIDE DEF R, T, created, added
  <2>. QED BY <2>2, <2>4, <2>5
<1>. HIDE DEF T
<1>4. /\ T["ft_model_artifacts"].columns = created[9].columns
      /\ T["ft_model_artifacts"].indexes = created[10].indexes
      /\ T["ft_model_artifacts"].parents = created[9].parents
      /\ T["ft_training_jobs"].columns = created[7].columns \cup added[1].columns
      /\ T["ft_training_jobs"].indexes = created[8].indexes
      /\ T["ft_training_jobs"].parents = created[7].parents
  BY <1>3 DEF New, Table
<1>5. /\ st[1].columns \cap T["ft_model_artifacts"].columns = {}
      /\ st[2].columns \cap T["ft_training_jobs"].columns = {}
  BY <1>4, FineTuningApart
<1>6. Len(st) = 2 /\ Adding(st[1], "ft_model_artifacts") /\ Adding(st[2], "ft_training_jobs")
  BY Alterations
<1>. HIDE DEF st, created, added
<1>7. PICK U : TwoAltered(T, st, "ft_model_artifacts", "ft_training_jobs", U)
  BY <1>2, <1>3, <1>5, <1>6, TwoAddRevision
<1>8. Reached(16, st, U) BY <1>1, <1>2, <1>7, Reaches DEF T, TwoAltered
<1>. QED BY <1>4, <1>7, <1>8 DEF Reached, TwoAltered, T, st, created, added

LEMMA Names16 ==
    DOMAIN SchemaAt(16) = {"jobs", "worker_heartbeats", "datasets"} \cup Created11
<1>. DEFINE R == SchemaAt(13)
<1>1. DOMAIN R = {"jobs", "worker_heartbeats", "datasets", "plc_test_suites", "plc_targets",
         "plc_testcases", "plc_test_runs", "plc_test_run_items", "plc_test_run_io_logs",
         "plc_llm_suggestions", "plc_execution_profiles"} \cup Created11
  BY Names13
<1>2. Sound(R) /\ SchemaAt(14) = Retired(R) BY Schema13, Schema14 DEF Reached
<1>3. DOMAIN SchemaAt(16) = DOMAIN SchemaAt(14) BY Schema15, Schema16
<1>. HIDE DEF R
<1>4. DOMAIN SchemaAt(14) = DOMAIN R \ PLC BY <1>2, RetiredIs DEF Sound
<1>5. DOMAIN R \ PLC = {"jobs", "worker_heartbeats", "datasets"} \cup Created11
  BY <1>1, PLCTables DEF Created11
<1>. QED BY <1>3, <1>4, <1>5

\* The foreign keys of a schema of the chain.
LEMMA References22 ==
    ASSUME NEW n \in 0 .. 22
    PROVE  \A t \in DOMAIN SchemaAt(n) : \A q \in SchemaAt(n)[t].parents : <<t, q>> \in References
BY BuiltTidy DEF Tidy, SchemaAt

\* A revision that drops tables and does nothing else.
LEMMA DropRevision ==
    ASSUME NEW T, Sound(T), NEW st, NEW n \in Nat, Len(st) = n, DropOrder(T, st, n)
    PROVE  Leads(T, st, Left(T, st, n)) /\ Sound(Left(T, st, n))
<1>. DEFINE L == Left(T, st, n)
<1>1. LeadsTo(T, st, n, L) BY Drops
<1>. HIDE DEF L
<1>2. PICK p : /\ p[1] = T /\ p[n + 1] = L
               /\ \A i \in 1 .. n : Runs(p[i], st[i], p[i + 1])
  BY <1>1 DEF LeadsTo
<1>3. n + 1 \in 1 .. n + 1 OBVIOUS
<1>4. Sound(L) BY <1>2, <1>3, LeadsSound
<1>. QED BY <1>1, <1>4 DEF Leads, L

\* A revision that drops one table, which none refers to.
LEMMA OneDrop ==
    ASSUME NEW T, Sound(T), NEW st, NEW t \in DOMAIN T, Len(st) = 1, st[1] = DropTable(t),
           \A o \in DOMAIN T : t \notin T[o].parents
    PROVE  Leads(T, st, Left(T, st, 1)) /\ Sound(Left(T, st, 1))
<1>1. 1 .. 1 = {1} /\ 1 \in Nat OBVIOUS
<1>2. /\ st[1].do = "drop" /\ st[1].table = t /\ st[1].parents = {}
      /\ st[1].columns = {} /\ st[1].indexes = {}
  BY DropTableIs
<1>3. DropOrder(T, st, 1) BY <1>1, <1>2 DEF DropOrder
<1>. QED BY <1>1, <1>3, DropRevision

LEMMA Schema17 ==
    LET T == SchemaAt(16)
        U == SchemaAt(17)
    IN  /\ Reached(17, R20260525_0015.up, U)
        /\ DOMAIN U = {"jobs", "datasets"} \cup Created11
        /\ \A t \in DOMAIN U : U[t] = T[t]
<1>. DEFINE T == SchemaAt(16)
            st == R20260525_0015.up
            U == Left(T, st, 1)
<1>1. st = Chain[17].up /\ 17 \in 1 .. 22 /\ 17 - 1 = 16 BY ChainIs
<1>2. Sound(T) /\ Built[17].rows \subseteq Targeted BY Schema16 DEF Reached
<1>3. Len(st) = 1 /\ st[1] = DropTable("worker_heartbeats") BY DEF R20260525_0015
<1>4. DOMAIN T = {"jobs", "worker_heartbeats", "datasets"} \cup Created11 BY Names16
<1>5. \A t \in DOMAIN T : "worker_heartbeats" \notin T[t].parents
  <2>1. 16 \in 0 .. 22 OBVIOUS
  <2>2. \A t \in DOMAIN T : \A q \in T[t].parents : <<t, q>> \in References
    BY <2>1, References22
  <2>. HIDE DEF T
  <2>. QED BY <2>2 DEF References
<1>. HIDE DEF T, st
<1>6. Leads(T, st, U) /\ Sound(U) BY <1>2, <1>3, <1>4, <1>5, OneDrop
<1>7. DOMAIN U = DOMAIN T \ {"worker_heartbeats"} /\ \A t \in DOMAIN U : U[t] = T[t]
  <2>1. DOMAIN U = DOMAIN T \ {st[j].table : j \in 1 .. 1} /\ \A t \in DOMAIN U : U[t] = T[t]
    BY DEF Left
  <2>2. st[1].table = "worker_heartbeats" BY <1>3, DropTableIs
  <2>3. 1 .. 1 = {1} OBVIOUS
  <2>. HIDE DEF U
  <2>. QED BY <2>1, <2>2, <2>3
<1>. HIDE DEF U
<1>8. Reached(17, st, U) BY <1>1, <1>2, <1>6, Reaches DEF T
<1>9. "worker_heartbeats" \notin {"jobs", "datasets"} \cup Created11 BY DEF Created11
<1>. QED BY <1>4, <1>7, <1>8, <1>9 DEF Reached, T, st

\* The fine-tuning tables are dropped after those that refer to them.
FineTuning == {"ft_datasets", "ft_dataset_versions", "ft_dataset_rows", "ft_training_jobs",
               "ft_model_artifacts", "model_registry"}

LEMMA ClearanceDrops ==
    ASSUME NEW T, Sound(T), FineTuning \subseteq DOMAIN T,
           \A t \in DOMAIN T : \A q \in T[t].parents : <<t, q>> \in References
    PROVE  /\ DropOrder(T, R20260607_0016.up, 6)
           /\ {R20260607_0016.up[j].table : j \in 1 .. 6} = FineTuning
<1>. DEFINE st == R20260607_0016.up
<1>1. 1 .. 6 = {1, 2, 3, 4, 5, 6} OBVIOUS
<1>2. /\ st[1].table = "model_registry" /\ st[2].table = "ft_model_artifacts"
      /\ st[3].table = "ft_training_jobs" /\ st[4].table = "ft_dataset_rows"
      /\ st[5].table = "ft_dataset_versions" /\ st[6].table = "ft_datasets"
  BY Clearance, GuardedDropIs
<1>3. \A i \in {1, 2, 3, 4, 5, 6} :
         st[i].do = "drop" /\ st[i].parents = {} /\ st[i].columns = {} /\ st[i].indexes = {}
  BY Clearance, GuardedDropIs
<1>. HIDE DEF st
<1>4. \A i \in {1, 2, 3, 4, 5, 6} :
         st[i].table \in DOMAIN T /\ \A j \in 1 .. i - 1 : st[j].table # st[i].table
  BY <1>2 DEF FineTuning
<1>5. ASSUME NEW t \in DOMAIN T
      PROVE  /\ "model_registry" \notin T[t].parents
             /\ "ft_model_artifacts" \in T[t].parents => t = "model_registry"
             /\ "ft_training_jobs" \in T[t].parents => t = "ft_model_artifacts"
             /\ "ft_dataset_rows" \notin T[t].parents
             /\ "ft_dataset_versions" \in T[t].parents =>
                   t \in {"ft_dataset_rows", "ft_training_jobs"}
             /\ "ft_datasets" \in T[t].parents => t = "ft_dataset_versions"
  <2>1. \A q : q \in T[t].parents => <<t, q>> \in References OBVIOUS
  <2>. QED BY <2>1 DEF References
<1>6. ASSUME NEW i \in {1, 2, 3, 4, 5, 6}, NEW t \in DOMAIN T, st[i].table \in T[t].parents
      PROVE  \E j \in 1 .. i - 1 : st[j].table = t
  <2>1. CASE i = 1 BY <1>2, <1>5, <1>6, <2>1
  <2>2. CASE i = 2
    <3>1. t = st[1].table /\ 1 \in 1 .. i - 1 BY <1>2, <1>5, <1>6, <2>2
    <3>. QED BY <3>1
  <2>3. CASE i = 3
    <3>1. t = st[2].table /\ 2 \in 1 .. i - 1 BY <1>2, <1>5, <1>6, <2>3
    <3>. QED BY <3>1
  <2>4. CASE i = 4 BY <1>2, <1>5, <1>6, <2>4
  <2>5. CASE i = 5
    <3>1. t \in {st[3].table, st[4].table} /\ {3, 4} \subseteq 1 .. i - 1
      BY <1>2, <1>5, <1>6, <2>5
    <3>. QED BY <3>1
  <2>6. CASE i = 6
    <3>1. t = st[5].table /\ 5 \in 1 .. i - 1 BY <1>2, <1>5, <1>6, <2>6
    <3>. QED BY <3>1
  <2>. QED BY <2>1, <2>2, <2>3, <2>4, <2>5, <2>6
<1>7. {st[j].table : j \in 1 .. 6} = FineTuning BY <1>1, <1>2 DEF FineTuning
<1>. QED BY <1>1, <1>3, <1>4, <1>6, <1>7 DEF DropOrder, st

LEMMA Schema18 ==
    LET T == SchemaAt(17)
        U == SchemaAt(18)
    IN  /\ Reached(18, R20260607_0016.up, U)
        /\ DOMAIN U = {"jobs", "datasets", "rag_collections", "rag_documents"}
        /\ \A t \in DOMAIN U : U[t] = T[t]
<1>. DEFINE T == SchemaAt(17)
            st == R20260607_0016.up
            U == Left(T, st, 6)
<1>1. st = Chain[18].up /\ 18 \in 1 .. 22 /\ 18 - 1 = 17 BY ChainIs
<1>2. /\ Sound(T) /\ Built[18].rows \subseteq Targeted
      /\ DOMAIN T = {"jobs", "datasets"} \cup Created11
  BY Schema17 DEF Reached
<1>3. Len(st) = 6 /\ 6 \in Nat BY Clearance
<1>4. \A t \in DOMAIN T : \A q \in T[t].parents : <<t, q>> \in References
  <2>1. 17 \in 0 .. 22 OBVIOUS
  <2>. QED BY <2>1, References22
<1>5. FineTuning \subseteq DOMAIN T BY <1>2 DEF FineTuning, Created11
<1>. HIDE DEF T
<1>6. DropOrder(T, st, 6) /\ {st[j].table : j \in 1 .. 6} = FineTuning
  BY <1>2, <1>4, <1>5, ClearanceDrops
<1>. HIDE DEF st
<1>7. Leads(T, st, U) /\ Sound(U) BY <1>2, <1>3, <1>6, DropRevision
<1>8. DOMAIN U = DOMAIN T \ FineTuning /\ \A t \in DOMAIN U : U[t] = T[t]
  <2>1. DOMAIN U = DOMAIN T \ {st[j].table : j \in 1 .. 6} /\ \A t \in DOMAIN U : U[t] = T[t]
    BY DEF Left
  <2>. QED BY <1>6, <2>1
<1>. HIDE DEF U
<1>9. Reached(18, st, U) BY <1>1, <1>2, <1>7, Reaches DEF T
<1>10. DOMAIN U = {"jobs", "datasets", "rag_collections", "rag_documents"}
  BY <1>2, <1>8 DEF FineTuning, Created11
<1>. QED BY <1>8, <1>9, <1>10 DEF Reached, T, st

\* The statements of the revisions that create the graph and the evaluations.
LEMMA Statements19 ==
    LET st == R20260607_0017.up
    IN  /\ Len(st) = 14
        /\ Creating(st[1], "rag_chunks") /\ Indexing(st[2], "rag_chunks")
        /\ Creating(st[3], "rag_entities") /\ Indexing(st[4], "rag_entities")
        /\ Creating(st[5], "rag_relationships") /\ Indexing(st[6], "rag_relationships")
        /\ Creating(st[7], "rag_entity_chunks") /\ Indexing(st[8], "rag_entity_chunks")
        /\ Creating(st[9], "rag_communities") /\ Indexing(st[10], "rag_communities")
        /\ Creating(st[11], "rag_community_members")
        /\ Indexing(st[12], "rag_community_members")
        /\ Creating(st[13], "rag_query_traces") /\ Indexing(st[14], "rag_query_traces")
        /\ st[1].parents = {"rag_collections", "rag_documents"}
        /\ st[3].parents = {"rag_collections"}
        /\ st[5].parents = {"rag_collections", "rag_entities"}
        /\ st[7].parents = {"rag_chunks", "rag_entities"}
        /\ st[9].parents = {"rag_collections"}
        /\ st[11].parents = {"rag_communities", "rag_entities"}
        /\ st[13].parents = {"rag_collections"}
<1>. DEFINE st == R20260607_0017.up
<1>1. /\ Len(st) = 14
      /\ st[1] = R20260607_0017_Graph[1] /\ st[2] = R20260607_0017_Graph[2]
      /\ st[3] = R20260607_0017_Graph[3] /\ st[4] = R20260607_0017_Graph[4]
      /\ st[5] = R20260607_0017_Graph[5] /\ st[6] = R20260607_0017_Graph[6]
      /\ st[7] = R20260607_0017_Graph[7] /\ st[8] = R20260607_0017_Graph[8]
  BY DEF R20260607_0017, R20260607_0017_Graph
<1>2. /\ Creating(st[9], "rag_communities") /\ Indexing(st[10], "rag_communities")
      /\ st[9].parents = {"rag_collections"}
  <2>1. \E C, X : /\ st[9] = CreateTable("rag_communities", C, {"rag_collections"})
                  /\ st[10] = CreateIndexes("rag_communities", X)
    BY DEF R20260607_0017, R20260607_0017_Graph
  <2>. QED BY <2>1, CreateTableIs, CreateIndexesIs DEF Creating, Indexing
<1>3. /\ Creating(st[11], "rag_community_members")
      /\ Indexing(st[12], "rag_community_members")
      /\ st[11].parents = {"rag_communities", "rag_entities"}
  <2>1. \E C, X : /\ st[11] = CreateTable("rag_community_members", C,
                                          {"rag_communities", "rag_entities"})
                  /\ st[12] = CreateIndexes("rag_community_members", X)
    BY DEF R20260607_0017, R20260607_0017_Graph
  <2>. QED BY <2>1, CreateTableIs, CreateIndexesIs DEF Creating, Indexing
<1>4. /\ Creating(st[13], "rag_query_traces") /\ Indexing(st[14], "rag_query_traces")
      /\ st[13].parents = {"rag_collections"}
  <2>1. \E C, X : /\ st[13] = CreateTable("rag_query_traces", C, {"rag_collections"})
                  /\ st[14] = CreateIndexes("rag_query_traces", X)
    BY DEF R20260607_0017, R20260607_0017_Graph
  <2>. QED BY <2>1, CreateTableIs, CreateIndexesIs DEF Creating, Indexing
<1>. HIDE DEF st
<1>5. /\ Creating(st[1], "rag_chunks") /\ Indexing(st[2], "rag_chunks")
      /\ Creating(st[3], "rag_entities") /\ Indexing(st[4], "rag_entities")
      /\ st[1].parents = {"rag_collections", "rag_documents"}
      /\ st[3].parents = {"rag_collections"}
  BY <1>1, CreateTableIs, CreateIndexesIs DEF R20260607_0017_Graph, Creating, Indexing
<1>6. /\ Creating(st[5], "rag_relationships") /\ Indexing(st[6], "rag_relationships")
      /\ Creating(st[7], "rag_entity_chunks") /\ Indexing(st[8], "rag_entity_chunks")
      /\ st[5].parents = {"rag_collections", "rag_entities"}
      /\ st[7].parents = {"rag_chunks", "rag_entities"}
  BY <1>1, CreateTableIs, CreateIndexesIs DEF R20260607_0017_Graph, Creating, Indexing
<1>. QED BY <1>1, <1>2, <1>3, <1>4, <1>5, <1>6 DEF st

LEMMA Statements20 ==
    LET st == R20260607_0018.up
    IN  /\ Len(st) = 4
        /\ Creating(st[1], "evaluation_sets") /\ Indexing(st[2], "evaluation_sets")
        /\ Creating(st[3], "evaluation_questions") /\ Indexing(st[4], "evaluation_questions")
        /\ st[1].parents = {"rag_collections"}
        /\ st[3].parents = {"evaluation_sets", "rag_chunks"}
BY CreateTableIs, CreateIndexesIs DEF R20260607_0018, Creating, Indexing

LEMMA Statements21 ==
    LET st == R20260607_0019.up
    IN  /\ Len(st) = 4
        /\ Creating(st[1], "evaluation_runs") /\ Indexing(st[2], "evaluation_runs")
        /\ Creating(st[3], "evaluation_results") /\ Indexing(st[4], "evaluation_results")
        /\ st[1].parents = {"evaluation_sets", "rag_collections"}
        /\ st[3].parents = {"evaluation_runs"}
BY CreateTableIs, CreateIndexesIs DEF R20260607_0019, Creating, Indexing

\* 20260607_0017 creates the graph of a collection.
Created19 ==
    {"rag_chunks", "rag_entities", "rag_relationships", "rag_entity_chunks",
     "rag_communities", "rag_community_members", "rag_query_traces"}

LEMMA Schema19 ==
    LET T == SchemaAt(18)
        U == SchemaAt(19)
        st == R20260607_0017.up
    IN  /\ Reached(19, st, U)
        /\ DOMAIN U = DOMAIN T \cup Created19
        /\ \A t \in DOMAIN T : U[t] = T[t]
        /\ U["rag_chunks"] = New(st, 1, 2) /\ U["rag_entities"] = New(st, 3, 4)
        /\ U["rag_relationships"] = New(st, 5, 6) /\ U["rag_entity_chunks"] = New(st, 7, 8)
        /\ U["rag_communities"] = New(st, 9, 10)
        /\ U["rag_community_members"] = New(st, 11, 12)
        /\ U["rag_query_traces"] = New(st, 13, 14)
<1>. DEFINE T == SchemaAt(18)
            st == R20260607_0017.up
            tb == <<"rag_chunks", "rag_entities", "rag_relationships", "rag_entity_chunks",
                    "rag_communities", "rag_community_members", "rag_query_traces">>
<1>1. st = Chain[19].up /\ 19 \in 1 .. 22 /\ 19 - 1 = 18 BY ChainIs
<1>2. /\ Sound(T) /\ Built[19].rows \subseteq Targeted
      /\ "rag_collections" \in DOMAIN T /\ "rag_documents" \in DOMAIN T
      /\ \A t \in Created19 : t \notin DOMAIN T
  BY Schema18 DEF Reached, Created19
<1>3. /\ tb[1] = "rag_chunks" /\ tb[2] = "rag_entities" /\ tb[3] = "rag_relationships"
      /\ tb[4] = "rag_entity_chunks" /\ tb[5] = "rag_communities"
      /\ tb[6] = "rag_community_members" /\ tb[7] = "rag_query_traces"
  OBVIOUS
<1>4. 1 .. 7 = {1, 2, 3, 4, 5, 6, 7} OBVIOUS
<1>5. Len(st) = 2 * 7 /\ 7 \in Nat BY Statements19
<1>. HIDE DEF T, st, tb
<1>6. Pairs(T, st, tb, 7)
  <2>1. ASSUME NEW k \in {1, 2, 3, 4, 5, 6, 7}
        PROVE  Creating(st[2 * k - 1], tb[k]) /\ Indexing(st[2 * k], tb[k])
    BY <1>3, Statements19 DEF st
  <2>2. ASSUME NEW k \in {1, 2, 3, 4, 5, 6, 7}
        PROVE  tb[k] \notin DOMAIN T /\ \A j \in 1 .. k - 1 : tb[j] # tb[k]
    BY <1>2, <1>3 DEF Created19
  <2>3. ASSUME NEW k \in {1, 2, 3, 4, 5, 6, 7}
        PROVE  \A q \in st[2 * k - 1].parents :
                   q \in DOMAIN T \/ \E j \in 1 .. k - 1 : tb[j] = q
    BY <1>2, <1>3, Statements19 DEF st
  <2>. QED BY <1>4, <2>1, <2>2, <2>3 DEF Pairs
<1>7. PICK U : Leads(T, st, U) /\ Sound(U) /\ PairsMade(T, st, tb, 7, U)
  BY <1>2, <1>5, <1>6, PairsRevision
<1>8. Reached(19, st, U) BY <1>1, <1>2, <1>7, Reaches DEF T
<1>9. {tb[k] : k \in 1 .. 7} = Created19 BY <1>3, <1>4 DEF Created19
<1>10. /\ U["rag_chunks"] = New(st, 1, 2) /\ U["rag_entities"] = New(st, 3, 4)
       /\ U["rag_relationships"] = New(st, 5, 6) /\ U["rag_entity_chunks"] = New(st, 7, 8)
       /\ U["rag_communities"] = New(st, 9, 10)
       /\ U["rag_community_members"] = New(st, 11, 12)
       /\ U["rag_query_traces"] = New(st, 13, 14)
  BY <1>3, <1>4, <1>7 DEF PairsMade
<1>. QED BY <1>7, <1>8, <1>9, <1>10 DEF Reached, PairsMade, T, st

\* A revision that creates and indexes two tables.
TwoMade(T, st, a, b, U) ==
    /\ Leads(T, st, U) /\ Sound(U)
    /\ DOMAIN U = DOMAIN T \cup {a, b} /\ \A t \in DOMAIN T : U[t] = T[t]
    /\ U[a] = New(st, 1, 2) /\ U[b] = New(st, 3, 4)

LEMMA TwoPairs ==
    ASSUME NEW T, Sound(T), NEW st, NEW a, NEW b, a \notin DOMAIN T, b \notin DOMAIN T, a # b,
           Len(st) = 4, Creating(st[1], a), Indexing(st[2], a),
           Creating(st[3], b), Indexing(st[4], b),
           st[1].parents \subseteq DOMAIN T, st[3].parents \subseteq DOMAIN T \cup {a}
    PROVE  \E U : TwoMade(T, st, a, b, U)
<1>. DEFINE tb == <<a, b>>
<1>1. tb[1] = a /\ tb[2] = b OBVIOUS
<1>. HIDE DEF tb
<1>2. Pairs(T, st, tb, 2)
  <2>1. 1 .. 2 = {1, 2} OBVIOUS
  <2>2. ASSUME NEW k \in {1, 2}
        PROVE  /\ Creating(st[2 * k - 1], tb[k]) /\ Indexing(st[2 * k], tb[k])
               /\ tb[k] \notin DOMAIN T /\ \A j \in 1 .. k - 1 : tb[j] # tb[k]
               /\ \A q \in st[2 * k - 1].parents :
                      q \in DOMAIN T \/ \E j \in 1 .. k - 1 : tb[j] = q
    <3>1. CASE k = 1 BY <1>1, <3>1
    <3>2. CASE k = 2
      <4>1. 2 * k - 1 = 3 /\ 2 * k = 4 /\ 1 .. k - 1 = {1} BY <3>2
      <4>. QED BY <1>1, <3>2, <4>1
    <3>. QED BY <3>1, <3>2
  <2>. QED BY <2>1, <2>2 DEF Pairs
<1>3. PICK U : Leads(T, st, U) /\ Sound(U) /\ PairsMade(T, st, tb, 2, U)
  <2>1. 2 \in Nat /\ Len(st) = 2 * 2 OBVIOUS
  <2>. QED BY <1>2, <2>1, PairsRevision
<1>4. /\ DOMAIN U = DOMAIN T \cup {a, b} /\ \A t \in DOMAIN T : U[t] = T[t]
      /\ U[a] = New(st, 1, 2) /\ U[b] = New(st, 3, 4)
  <2>1. 1 .. 2 = {1, 2} OBVIOUS
  <2>2. {tb[k] : k \in 1 .. 2} = {a, b} BY <1>1, <2>1
  <2>3. U[tb[1]] = New(st, 1, 2) /\ U[tb[2]] = New(st, 3, 4) BY <1>3, <2>1 DEF PairsMade
  <2>. QED BY <1>1, <1>3, <2>2, <2>3 DEF PairsMade
<1>. QED BY <1>3, <1>4 DEF TwoMade

LEMMA Schema20 ==
    LET T == SchemaAt(19)
        U == SchemaAt(20)
        st == R20260607_0018.up
    IN  /\ Reached(20, st, U)
        /\ DOMAIN U = DOMAIN T \cup {"evaluation_sets", "evaluation_questions"}
        /\ \A t \in DOMAIN T : U[t] = T[t]
        /\ U["evaluation_sets"] = New(st, 1, 2) /\ U["evaluation_questions"] = New(st, 3, 4)
<1>. DEFINE T == SchemaAt(19)
            st == R20260607_0018.up
<1>1. st = Chain[20].up /\ 20 \in 1 .. 22 /\ 20 - 1 = 19 BY ChainIs
<1>2. /\ Sound(T) /\ Built[20].rows \subseteq Targeted
      /\ "rag_collections" \in DOMAIN T /\ "rag_chunks" \in DOMAIN T
      /\ "evaluation_sets" \notin DOMAIN T /\ "evaluation_questions" \notin DOMAIN T
  BY Schema18, Schema19 DEF Reached, Created19
<1>3. /\ Len(st) = 4
      /\ Creating(st[1], "evaluation_sets") /\ Indexing(st[2], "evaluation_sets")
      /\ Creating(st[3], "evaluation_questions") /\ Indexing(st[4], "evaluation_questions")
      /\ st[1].parents = {"rag_collections"}
      /\ st[3].parents = {"evaluation_sets", "rag_chunks"}
  BY Statements20
<1>. HIDE DEF T, st
<1>4. PICK U : TwoMade(T, st, "evaluation_sets", "evaluation_questions", U)
  BY <1>2, <1>3, TwoPairs
<1>5. Reached(20, st, U) BY <1>1, <1>2, <1>4, Reaches DEF T, TwoMade
<1>. QED BY <1>4, <1>5 DEF Reached, TwoMade, T, st

LEMMA Schema21 ==
    LET T == SchemaAt(20)
        U == SchemaAt(21)
        st == R20260607_0019.up
    IN  /\ Reached(21, st, U)
        /\ DOMAIN U = DOMAIN T \cup {"evaluation_runs", "evaluation_results"}
        /\ \A t \in DOMAIN T : U[t] = T[t]
        /\ U["evaluation_runs"] = New(st, 1, 2) /\ U["evaluation_results"] = New(st, 3, 4)
<1>. DEFINE T == SchemaAt(20)
            st == R20260607_0019.up
<1>1. st = Chain[21].up /\ 21 \in 1 .. 22 /\ 21 - 1 = 20 BY ChainIs
<1>2. /\ Sound(T) /\ Built[21].rows \subseteq Targeted
      /\ "rag_collections" \in DOMAIN T /\ "evaluation_sets" \in DOMAIN T
      /\ "evaluation_runs" \notin DOMAIN T /\ "evaluation_results" \notin DOMAIN T
  BY Schema18, Schema19, Schema20 DEF Reached, Created19
<1>3. /\ Len(st) = 4
      /\ Creating(st[1], "evaluation_runs") /\ Indexing(st[2], "evaluation_runs")
      /\ Creating(st[3], "evaluation_results") /\ Indexing(st[4], "evaluation_results")
      /\ st[1].parents = {"evaluation_sets", "rag_collections"}
      /\ st[3].parents = {"evaluation_runs"}
  BY Statements21
<1>. HIDE DEF T, st
<1>4. PICK U : TwoMade(T, st, "evaluation_runs", "evaluation_results", U)
  BY <1>2, <1>3, TwoPairs
<1>5. Reached(21, st, U) BY <1>1, <1>2, <1>4, Reaches DEF T, TwoMade
<1>. QED BY <1>4, <1>5 DEF Reached, TwoMade, T, st

\* The jobs table from revision 16 to revision 21, without the PLC column.
LEMMA Jobs21 ==
    /\ "jobs" \in DOMAIN SchemaAt(21)
    /\ SchemaAt(21)["jobs"] =
           Table((R20260227_0001.up[1].columns \cup R20260302_0003.up[1].columns)
                     \cup R20260308_0004.up[3].columns,
                 R20260302_0003.up[2].indexes \cup R20260308_0004.up[4].indexes, {})
<1>. DEFINE J(n) == SchemaAt(n)["jobs"]
            C == (R20260227_0001.up[1].columns \cup R20260302_0003.up[1].columns)
                     \cup R20260308_0004.up[3].columns
            X == R20260302_0003.up[2].indexes \cup R20260308_0004.up[4].indexes
            R == SchemaAt(13)
<1>1. J(5) = Table(C \cup R20260411_0005.up[3].columns, X \cup R20260411_0005.up[4].indexes, {})
      /\ "jobs" \in DOMAIN SchemaAt(5)
  BY Schema5
<1>2. J(8) = J(5) /\ "jobs" \in DOMAIN SchemaAt(8) BY <1>1, Schema6, Schema7, Schema8
<1>3. J(10) = J(8) /\ "jobs" \in DOMAIN SchemaAt(10) BY <1>2, Schema9, Schema10
<1>4. J(13) = J(10) /\ "jobs" \in DOMAIN SchemaAt(13) BY <1>3, Schema11, Schema12, Schema13
<1>5. J(14) = Table(C, X, {})
  <2>1. Sound(R) /\ SchemaAt(14) = Retired(R) BY Schema13, Schema14 DEF Reached
  <2>2. J(14) = [columns |-> J(13).columns \ {"plc_suite_id"},
                 indexes |-> J(13).indexes \ {"plc_suite_status_created_at"},
                 parents |-> J(13).parents]
    <3>. HIDE DEF R
    <3>1. Retired(R)["jobs"] = [columns |-> R["jobs"].columns \ {"plc_suite_id"},
                                indexes |-> R["jobs"].indexes \ {"plc_suite_status_created_at"},
                                parents |-> R["jobs"].parents]
      BY <2>1, <1>4, RetiredIs DEF Sound, R
    <3>. QED BY <2>1, <3>1 DEF R
  <2>3. J(13) = Table(C \cup {"plc_suite_id"}, X \cup {"plc_suite_status_created_at"}, {})
    <3>1. R20260411_0005.up[3].columns = {"plc_suite_id"}
          /\ R20260411_0005.up[4].indexes = {"plc_suite_status_created_at"}
      BY JobsApart
    <3>. HIDE DEF J, C, X
    <3>. QED BY <1>1, <1>2, <1>3, <1>4, <3>1
  <2>4. "plc_suite_id" \notin C /\ "plc_suite_status_created_at" \notin X BY JobsApart
  <2>. HIDE DEF J, C, X, R
  <2>5. /\ (C \cup {"plc_suite_id"}) \ {"plc_suite_id"} = C
        /\ (X \cup {"plc_suite_status_created_at"}) \ {"plc_suite_status_created_at"} = X
    BY <2>4
  <2>. QED BY <2>2, <2>3, <2>5 DEF Table
<1>6. J(15) = J(14) /\ "jobs" \in DOMAIN SchemaAt(15) /\ J(16) = J(15)
  <2>1. DOMAIN SchemaAt(16) = {"jobs", "worker_heartbeats", "datasets"} \cup Created11
    BY Names16
  <2>2. DOMAIN SchemaAt(16) = DOMAIN SchemaAt(15) /\ DOMAIN SchemaAt(15) = DOMAIN SchemaAt(14)
    BY Schema15, Schema16
  <2>3. \A t \in DOMAIN SchemaAt(14) : t # "model_registry" => SchemaAt(15)[t] = SchemaAt(14)[t]
    BY Schema15
  <2>4. \A t \in DOMAIN SchemaAt(15) :
           t # "ft_model_artifacts" /\ t # "ft_training_jobs" => SchemaAt(16)[t] = SchemaAt(15)[t]
    BY Schema16
  <2>. QED BY <2>1, <2>2, <2>3, <2>4
<1>7. J(18) = J(16) BY Schema17, Schema18
<1>8. J(21) = J(18) /\ "jobs" \in DOMAIN SchemaAt(21) BY Schema18, Schema19, Schema20, Schema21
<1>. QED BY <1>5, <1>6, <1>7, <1>8

LEMMA Schema22 ==
    LET T == SchemaAt(21)
        U == SchemaAt(22)
    IN  /\ Reached(22, R20260609_0020.up, U)
        /\ DOMAIN U = DOMAIN T
        /\ \A t \in DOMAIN T : t # "jobs" => U[t] = T[t]
        /\ U["jobs"] = Table(T["jobs"].columns \cup {"cancel_requested_at"}, T["jobs"].indexes,
                             T["jobs"].parents)
<1>. DEFINE T == SchemaAt(21)
            st == R20260609_0020.up
<1>1. st = Chain[22].up /\ 22 \in 1 .. 22 /\ 22 - 1 = 21 BY ChainIs
<1>2. Sound(T) /\ Built[22].rows \subseteq Targeted /\ "jobs" \in DOMAIN T
  BY Schema21, Jobs21 DEF Reached
<1>3. st[1].columns = {"cancel_requested_at"} BY JobsApart
<1>4. st[1].columns \cap T["jobs"].columns = {}
  <2>1. "cancel_requested_at" \notin T["jobs"].columns BY Jobs21, JobsApart DEF Table
  <2>. QED BY <1>3, <2>1
<1>5. Len(st) = 1 /\ Adding(st[1], "jobs") BY Alterations
<1>. HIDE DEF T, st
<1>6. PICK U : /\ Leads(T, st, U) /\ Sound(U)
               /\ Alters(T, U, "jobs", Table(T["jobs"].columns \cup st[1].columns,
                                             T["jobs"].indexes, T["jobs"].parents))
  BY <1>2, <1>4, <1>5, AddRevision
<1>7. Reached(22, st, U) BY <1>1, <1>2, <1>6, Reaches DEF T
<1>. QED BY <1>3, <1>6, <1>7 DEF Reached, Alters, T, st

\* What the chain ends with is what models.py declares.
LEMMA Untouched14 ==
    \A t \in DOMAIN SchemaAt(13) \ PLC :
        t # "jobs" => t \in DOMAIN SchemaAt(14) /\ SchemaAt(14)[t] = SchemaAt(13)[t]
<1>. DEFINE R == SchemaAt(13)
<1>1. Sound(R) /\ SchemaAt(14) = Retired(R) BY Schema13, Schema14 DEF Reached
<1>. HIDE DEF R
<1>2. /\ DOMAIN Retired(R) = DOMAIN R \ PLC
      /\ \A t \in DOMAIN R \ PLC : t # "jobs" => Retired(R)[t] = R[t]
  BY <1>1, RetiredIs DEF Sound
<1>3. SchemaAt(14) = Retired(R) BY <1>1
<1>4. \A t \in DOMAIN R \ PLC :
          t # "jobs" => t \in DOMAIN SchemaAt(14) /\ SchemaAt(14)[t] = R[t]
  BY <1>2, <1>3
<1>. QED BY <1>4 DEF R

LEMMA Kept22 ==
    /\ SchemaAt(22)["datasets"] = SchemaAt(4)["datasets"]
    /\ \A t \in {"rag_collections", "rag_documents"} : SchemaAt(22)[t] = SchemaAt(11)[t]
<1>1. SchemaAt(10)["datasets"] = SchemaAt(4)["datasets"]
  BY Schema4, Schema5, Schema6, Schema7, Schema8, Schema9, Schema10
<1>2. SchemaAt(11)["datasets"] = SchemaAt(10)["datasets"] BY Names10, Schema11
<1>. DEFINE Old == {"datasets", "rag_collections", "rag_documents"}
<1>3. ASSUME NEW t \in Old PROVE SchemaAt(22)[t] = SchemaAt(11)[t]
  <2>1. t \in DOMAIN SchemaAt(13) /\ t \notin PLC /\ t # "jobs" BY Names13, PLCTables DEF Created11
  <2>2. SchemaAt(13)[t] = SchemaAt(11)[t]
    <3>1. SchemaAt(13) = SchemaAt(12) /\ DOMAIN SchemaAt(12) = DOMAIN SchemaAt(11)
      BY Schema12, Schema13
    <3>2. \A o \in DOMAIN SchemaAt(11) : o # "ft_training_jobs" /\ o # "model_registry" =>
              SchemaAt(12)[o] = SchemaAt(11)[o]
      BY Schema12
    <3>. QED BY <2>1, <3>1, <3>2
  <2>3. SchemaAt(14)[t] = SchemaAt(13)[t] /\ t \in DOMAIN SchemaAt(14) BY <2>1, Untouched14
  <2>4. SchemaAt(15)[t] = SchemaAt(14)[t] /\ t \in DOMAIN SchemaAt(15) BY <2>3, Schema15
  <2>5. SchemaAt(16)[t] = SchemaAt(15)[t] /\ t \in DOMAIN SchemaAt(16) BY <2>4, Schema16
  <2>6. SchemaAt(17)[t] = SchemaAt(16)[t] BY Schema17 DEF Created11
  <2>7. SchemaAt(18)[t] = SchemaAt(17)[t] /\ t \in DOMAIN SchemaAt(18) BY Schema18
  <2>8. SchemaAt(21)[t] = SchemaAt(18)[t] /\ t \in DOMAIN SchemaAt(21)
    BY <2>7, Schema19, Schema20, Schema21
  <2>9. SchemaAt(22)[t] = SchemaAt(21)[t] BY <2>1, <2>8, Schema22
  <2>. QED BY <2>2, <2>3, <2>4, <2>5, <2>6, <2>7, <2>8, <2>9
<1>. QED BY <1>1, <1>2, <1>3

\* The tables of the models, as the revisions create them.
LEMMA NewIsTable ==
    ASSUME NEW st, NEW c, NEW x, NEW t, NEW m, m = Table(m.columns, m.indexes, m.parents),
           st[c] = CreateTable(t, m.columns, m.parents), st[x] = CreateIndexes(t, m.indexes)
    PROVE  m = New(st, c, x)
BY CreateTableIs, CreateIndexesIs DEF New

LEMMA ModelCollections ==
    LET a == R20260308_0004.up
        b == R20260417_0010.up
        c == R20260607_0017.up
    IN  /\ JobTables["datasets"] = New(a, 1, 2)
        /\ CollectionTables["rag_collections"] = New(b, 13, 14)
        /\ CollectionTables["rag_documents"] = New(b, 15, 16)
        /\ CollectionTables["rag_chunks"] = New(c, 1, 2)
<1>. DEFINE a == R20260308_0004.up
            b == R20260417_0010.up
            c == R20260607_0017.up
<1>1. /\ a[1] = CreateTable("datasets", JobTables["datasets"].columns,
                            JobTables["datasets"].parents)
      /\ a[2] = CreateIndexes("datasets", JobTables["datasets"].indexes)
  BY DEF R20260308_0004, JobTables, Table
<1>2. /\ b[13] = CreateTable("rag_collections", CollectionTables["rag_collections"].columns,
                             CollectionTables["rag_collections"].parents)
      /\ b[14] = CreateIndexes("rag_collections", CollectionTables["rag_collections"].indexes)
  <2>1. b[13] = R20260417_0010_Registry[5] /\ b[14] = R20260417_0010_Registry[6]
    BY DEF R20260417_0010, R20260417_0010_Training, R20260417_0010_Registry
  <2>. HIDE DEF b
  <2>. QED BY <2>1 DEF R20260417_0010_Registry, CollectionTables, Table
<1>3. /\ b[15] = CreateTable("rag_documents", CollectionTables["rag_documents"].columns,
                             CollectionTables["rag_documents"].parents)
      /\ b[16] = CreateIndexes("rag_documents", CollectionTables["rag_documents"].indexes)
  <2>1. b[15] = R20260417_0010_Registry[7] /\ b[16] = R20260417_0010_Registry[8]
    BY DEF R20260417_0010, R20260417_0010_Training, R20260417_0010_Registry
  <2>. HIDE DEF b
  <2>. QED BY <2>1 DEF R20260417_0010_Registry, CollectionTables, Table
<1>4. /\ c[1] = CreateTable("rag_chunks", {"id", "collection_id", "document_id", "ordinal",
                 "text", "token_count", "embedding_json", "embedding_model", "created_at"},
                 CollectionTables["rag_chunks"].parents)
      /\ c[2] = CreateIndexes("rag_chunks", CollectionTables["rag_chunks"].indexes)
  BY DEF R20260607_0017, R20260607_0017_Graph, CollectionTables, Table
<1>5. CollectionTables["rag_chunks"].columns =
          {"id", "collection_id", "document_id", "ordinal",
           "text", "token_count", "embedding_json", "embedding_model", "created_at"}
  BY DEF CollectionTables, Table
<1>. HIDE DEF a, b, c
<1>6. JobTables["datasets"] = Table(JobTables["datasets"].columns,
          JobTables["datasets"].indexes, JobTables["datasets"].parents)
  BY DEF JobTables, Table
<1>7. \A t \in {"rag_collections", "rag_documents", "rag_chunks"} :
         CollectionTables[t] =
             Table(CollectionTables[t].columns, CollectionTables[t].indexes,
                   CollectionTables[t].parents)
  BY DEF CollectionTables, Table
<1>8. JobTables["datasets"] = New(a, 1, 2) BY <1>1, <1>6, NewIsTable
<1>9. CollectionTables["rag_collections"] = New(b, 13, 14) BY <1>2, <1>7, NewIsTable
<1>10. CollectionTables["rag_documents"] = New(b, 15, 16) BY <1>3, <1>7, NewIsTable
<1>11. CollectionTables["rag_chunks"] = New(c, 1, 2) BY <1>4, <1>5, <1>7, NewIsTable
<1>. QED BY <1>8, <1>9, <1>10, <1>11 DEF a, b, c

LEMMA ModelGraph ==
    LET st == R20260607_0017.up
    IN  /\ GraphTables["rag_entities"] = New(st, 3, 4)
        /\ GraphTables["rag_relationships"] = New(st, 5, 6)
        /\ GraphTables["rag_entity_chunks"] = New(st, 7, 8)
        /\ GraphTables["rag_communities"] = New(st, 9, 10)
        /\ GraphTables["rag_community_members"] = New(st, 11, 12)
        /\ GraphTables["rag_query_traces"] = New(st, 13, 14)
<1>. DEFINE st == R20260607_0017.up
<1>1. /\ st[3] = CreateTable("rag_entities", GraphTables["rag_entities"].columns,
                             GraphTables["rag_entities"].parents)
      /\ st[4] = CreateIndexes("rag_entities", GraphTables["rag_entities"].indexes)
  BY DEF R20260607_0017, R20260607_0017_Graph, GraphTables, Table
<1>2. /\ st[5] = CreateTable("rag_relationships", GraphTables["rag_relationships"].columns,
                             GraphTables["rag_relationships"].parents)
      /\ st[6] = CreateIndexes("rag_relationships", GraphTables["rag_relationships"].indexes)
  BY DEF R20260607_0017, R20260607_0017_Graph, GraphTables, Table
<1>3. /\ st[7] = CreateTable("rag_entity_chunks", GraphTables["rag_entity_chunks"].columns,
                             GraphTables["rag_entity_chunks"].parents)
      /\ st[8] = CreateIndexes("rag_entity_chunks", GraphTables["rag_entity_chunks"].indexes)
  BY DEF R20260607_0017, R20260607_0017_Graph, GraphTables, Table
<1>4. /\ st[9] = CreateTable("rag_communities", GraphTables["rag_communities"].columns,
                             GraphTables["rag_communities"].parents)
      /\ st[10] = CreateIndexes("rag_communities", GraphTables["rag_communities"].indexes)
  BY DEF R20260607_0017, R20260607_0017_Graph, GraphTables, Table
<1>5. /\ st[11] = CreateTable("rag_community_members", GraphTables["rag_community_members"].columns,
                              GraphTables["rag_community_members"].parents)
      /\ st[12] = CreateIndexes("rag_community_members",
                                GraphTables["rag_community_members"].indexes)
  BY DEF R20260607_0017, R20260607_0017_Graph, GraphTables, Table
<1>6. /\ st[13] = CreateTable("rag_query_traces", GraphTables["rag_query_traces"].columns,
                              GraphTables["rag_query_traces"].parents)
      /\ st[14] = CreateIndexes("rag_query_traces", GraphTables["rag_query_traces"].indexes)
  BY DEF R20260607_0017, R20260607_0017_Graph, GraphTables, Table
<1>. HIDE DEF st
<1>7. \A t \in {"rag_entities", "rag_relationships", "rag_entity_chunks",
          "rag_communities", "rag_community_members", "rag_query_traces"} :
         GraphTables[t] =
             Table(GraphTables[t].columns, GraphTables[t].indexes,
                   GraphTables[t].parents)
  BY DEF GraphTables, Table
<1>8. GraphTables["rag_entities"] = New(st, 3, 4) BY <1>1, <1>7, NewIsTable
<1>9. GraphTables["rag_relationships"] = New(st, 5, 6) BY <1>2, <1>7, NewIsTable
<1>10. GraphTables["rag_entity_chunks"] = New(st, 7, 8) BY <1>3, <1>7, NewIsTable
<1>11. GraphTables["rag_communities"] = New(st, 9, 10) BY <1>4, <1>7, NewIsTable
<1>12. GraphTables["rag_community_members"] = New(st, 11, 12) BY <1>5, <1>7, NewIsTable
<1>13. GraphTables["rag_query_traces"] = New(st, 13, 14) BY <1>6, <1>7, NewIsTable
<1>. QED BY <1>8, <1>9, <1>10, <1>11, <1>12, <1>13 DEF st

LEMMA ModelEvaluations ==
    LET a == R20260607_0018.up
        b == R20260607_0019.up
    IN  /\ EvaluationTables["evaluation_sets"] = New(a, 1, 2)
        /\ EvaluationTables["evaluation_questions"] = New(a, 3, 4)
        /\ EvaluationTables["evaluation_runs"] = New(b, 1, 2)
        /\ EvaluationTables["evaluation_results"] = New(b, 3, 4)
<1>. DEFINE a == R20260607_0018.up
            b == R20260607_0019.up
<1>1. /\ a[1] = CreateTable("evaluation_sets", EvaluationTables["evaluation_sets"].columns,
                            EvaluationTables["evaluation_sets"].parents)
      /\ a[2] = CreateIndexes("evaluation_sets", EvaluationTables["evaluation_sets"].indexes)
  BY DEF R20260607_0018, EvaluationTables, Table
<1>2. /\ a[3] = CreateTable("evaluation_questions",
                          EvaluationTables["evaluation_questions"].columns,
                            EvaluationTables["evaluation_questions"].parents)
      /\ a[4] = CreateIndexes("evaluation_questions",
                              EvaluationTables["evaluation_questions"].indexes)
  BY DEF R20260607_0018, EvaluationTables, Table
<1>3. /\ b[1] = CreateTable("evaluation_runs", EvaluationTables["evaluation_runs"].columns,
                            EvaluationTables["evaluation_runs"].parents)
      /\ b[2] = CreateIndexes("evaluation_runs", EvaluationTables["evaluation_runs"].indexes)
  BY DEF R20260607_0019, EvaluationTables, Table
<1>4. /\ b[3] = CreateTable("evaluation_results", EvaluationTables["evaluation_results"].columns,
                            EvaluationTables["evaluation_results"].parents)
      /\ b[4] = CreateIndexes("evaluation_results",
                              EvaluationTables["evaluation_results"].indexes)
  BY DEF R20260607_0019, EvaluationTables, Table
<1>. HIDE DEF a, b
<1>5. \A t \in {"evaluation_sets", "evaluation_questions",
          "evaluation_runs", "evaluation_results"} :
         EvaluationTables[t] =
             Table(EvaluationTables[t].columns, EvaluationTables[t].indexes,
                   EvaluationTables[t].parents)
  BY DEF EvaluationTables, Table
<1>6. EvaluationTables["evaluation_sets"] = New(a, 1, 2) BY <1>1, <1>5, NewIsTable
<1>7. EvaluationTables["evaluation_questions"] = New(a, 3, 4) BY <1>2, <1>5, NewIsTable
<1>8. EvaluationTables["evaluation_runs"] = New(b, 1, 2) BY <1>3, <1>5, NewIsTable
<1>9. EvaluationTables["evaluation_results"] = New(b, 3, 4) BY <1>4, <1>5, NewIsTable
<1>. QED BY <1>6, <1>7, <1>8, <1>9 DEF a, b

LEMMA ModelTablesAre ==
    /\ ModelTables = [t \in DOMAIN ModelTables |-> ModelTables[t]]
    /\ \A t \in DOMAIN JobTables : ModelTables[t] = JobTables[t]
    /\ \A t \in DOMAIN CollectionTables : ModelTables[t] = CollectionTables[t]
    /\ \A t \in DOMAIN GraphTables : ModelTables[t] = GraphTables[t]
    /\ \A t \in DOMAIN EvaluationTables : ModelTables[t] = EvaluationTables[t]
    /\ DOMAIN JobTables = {"jobs", "datasets"}
    /\ DOMAIN CollectionTables = {"rag_collections", "rag_documents", "rag_chunks"}
    /\ DOMAIN GraphTables = {"rag_entities", "rag_relationships", "rag_entity_chunks",
                             "rag_communities", "rag_community_members", "rag_query_traces"}
    /\ DOMAIN EvaluationTables = {"evaluation_sets", "evaluation_questions",
                                  "evaluation_runs", "evaluation_results"}
<1>1. DOMAIN JobTables = {"jobs", "datasets"} BY DEF JobTables
<1>2. DOMAIN CollectionTables = {"rag_collections", "rag_documents", "rag_chunks"}
  BY DEF CollectionTables
<1>3. DOMAIN GraphTables = {"rag_entities", "rag_relationships", "rag_entity_chunks",
                            "rag_communities", "rag_community_members", "rag_query_traces"}
  BY DEF GraphTables
<1>4. DOMAIN EvaluationTables = {"evaluation_sets", "evaluation_questions",
                                 "evaluation_runs", "evaluation_results"}
  BY DEF EvaluationTables
<1>5. \A t \in UNION {DOMAIN JobTables, DOMAIN CollectionTables, DOMAIN GraphTables,
                      DOMAIN EvaluationTables} :
         ModelTables[t] = CASE t \in DOMAIN JobTables -> JobTables[t]
                            [] t \in DOMAIN CollectionTables -> CollectionTables[t]
                            [] t \in DOMAIN GraphTables -> GraphTables[t]
                            [] t \in DOMAIN EvaluationTables -> EvaluationTables[t]
  BY DEF ModelTables
<1>6. \A t \in DOMAIN JobTables : ModelTables[t] = JobTables[t]
  BY <1>1, <1>2, <1>3, <1>4, <1>5
<1>7. \A t \in DOMAIN CollectionTables : ModelTables[t] = CollectionTables[t]
  BY <1>1, <1>2, <1>3, <1>4, <1>5
<1>8. \A t \in DOMAIN GraphTables : ModelTables[t] = GraphTables[t]
  BY <1>1, <1>2, <1>3, <1>4, <1>5
<1>9. \A t \in DOMAIN EvaluationTables : ModelTables[t] = EvaluationTables[t]
  BY <1>1, <1>2, <1>3, <1>4, <1>5
<1>10. ModelTables = [t \in DOMAIN ModelTables |-> ModelTables[t]] BY DEF ModelTables
<1>. QED BY <1>1, <1>2, <1>3, <1>4, <1>6, <1>7, <1>8, <1>9, <1>10

LEMMA HeadIsModels == SchemaAt(22) = ModelTables
<1>. DEFINE T == SchemaAt(22)
            M == ModelTables
<1>1. Sound(T) BY Schema22 DEF Reached
<1>2. DOMAIN T = DOMAIN M
  BY ModelNames, Schema18, Schema19, Schema20, Schema21, Schema22 DEF Created19
<1>3. T["jobs"] = M["jobs"]
  <2>. DEFINE C == (R20260227_0001.up[1].columns \cup R20260302_0003.up[1].columns)
                       \cup R20260308_0004.up[3].columns
              X == R20260302_0003.up[2].indexes \cup R20260308_0004.up[4].indexes
  <2>1. T["jobs"] = Table(SchemaAt(21)["jobs"].columns \cup {"cancel_requested_at"},
                          SchemaAt(21)["jobs"].indexes, SchemaAt(21)["jobs"].parents)
    BY Schema22
  <2>2. SchemaAt(21)["jobs"] = Table(C, X, {}) BY Jobs21
  <2>3. /\ JobTables["jobs"].columns = C \cup {"cancel_requested_at"}
        /\ JobTables["jobs"].indexes = X /\ JobTables["jobs"].parents = {}
    BY JobsApart
  <2>4. JobTables["jobs"] = Table(JobTables["jobs"].columns, JobTables["jobs"].indexes,
                                  JobTables["jobs"].parents)
    BY DEF JobTables, Table
  <2>5. M["jobs"] = JobTables["jobs"] BY ModelTablesAre
  <2>. HIDE DEF T, M, C, X
  <2>. QED BY <2>1, <2>2, <2>3, <2>4, <2>5 DEF Table
<1>4. \A t \in DOMAIN SchemaAt(21) : t # "jobs" => T[t] = SchemaAt(21)[t] BY Schema22
<1>5. T["datasets"] = M["datasets"]
  <2>1. T["datasets"] = New(R20260308_0004.up, 1, 2) BY Kept22, Schema4
  <2>. QED BY <2>1, ModelCollections, ModelTablesAre
<1>6. T["rag_collections"] = M["rag_collections"] /\ T["rag_documents"] = M["rag_documents"]
  BY Kept22, Schema11, ModelCollections, ModelTablesAre
<1>7. ASSUME NEW t \in Created19 PROVE T[t] = SchemaAt(19)[t]
  BY <1>4, Schema19, Schema20, Schema21 DEF Created19
<1>8. T["rag_chunks"] = M["rag_chunks"]
  BY <1>7, Schema19, ModelCollections, ModelTablesAre DEF Created19
<1>9. \A t \in {"rag_entities", "rag_relationships", "rag_entity_chunks", "rag_communities",
                "rag_community_members", "rag_query_traces"} : T[t] = M[t]
  <2>1. \A t \in DOMAIN GraphTables : t \in Created19 /\ M[t] = GraphTables[t]
    BY ModelTablesAre DEF Created19
  <2>2. \A t \in DOMAIN GraphTables : SchemaAt(19)[t] = GraphTables[t]
    BY Schema19, ModelGraph, ModelTablesAre
  <2>3. \A t \in DOMAIN GraphTables : T[t] = M[t] BY <1>7, <2>1, <2>2
  <2>. QED BY <2>3, ModelTablesAre
<1>10. T["evaluation_sets"] = M["evaluation_sets"]
       /\ T["evaluation_questions"] = M["evaluation_questions"]
  <2>1. \A t \in {"evaluation_sets", "evaluation_questions"} : T[t] = SchemaAt(20)[t]
    BY <1>4, Schema20, Schema21
  <2>. QED BY <2>1, Schema20, ModelEvaluations, ModelTablesAre
<1>11. T["evaluation_runs"] = M["evaluation_runs"]
       /\ T["evaluation_results"] = M["evaluation_results"]
  <2>1. \A t \in {"evaluation_runs", "evaluation_results"} : T[t] = SchemaAt(21)[t]
    BY <1>4, Schema21
  <2>. QED BY <2>1, Schema21, ModelEvaluations, ModelTablesAre
<1>12. \A t \in DOMAIN M : T[t] = M[t]
  BY <1>3, <1>5, <1>6, <1>8, <1>9, <1>10, <1>11, ModelNames
<1>13. Shaped(M)
  <2>1. M = [t \in DOMAIN M |-> M[t]] BY ModelTablesAre
  <2>2. \A t \in DOMAIN T : T[t] = [columns |-> T[t].columns, indexes |-> T[t].indexes,
                                    parents |-> T[t].parents]
    BY <1>1 DEF Sound, Shaped
  <2>. HIDE DEF T, M
  <2>. QED BY <1>2, <1>12, <2>1, <2>2 DEF Shaped
<1>. HIDE DEF T, M
<1>14. T = M BY <1>1, <1>2, <1>12, <1>13, ShapedEqual DEF Sound
<1>. QED BY <1>14 DEF T, M

-----------------------------------------------------------------------------
(* The downgrades                                                          *)
\* The statement d takes back what s did, whatever was there.
Undoes(s, d) == Mirrors(s, d) /\ s.do # "refer"

LEMMA UndoesTable ==
    ASSUME NEW t, NEW C, NEW P
    PROVE  Undoes(CreateTable(t, C, P), DropTable(t))
BY MirrorTable, CreateTableIs DEF Undoes

LEMMA UndoesIndexes ==
    ASSUME NEW t, NEW I, NEW J, I \subseteq J, J \subseteq I
    PROVE  Undoes(CreateIndexes(t, I), DropIndexes(t, J))
BY MirrorIndexes, CreateIndexesIs DEF Undoes

LEMMA UndoesColumns ==
    ASSUME NEW t, NEW C, NEW D, C \subseteq D, D \subseteq C
    PROVE  Undoes(AddColumns(t, C), DropColumns(t, D))
BY MirrorColumns, AddColumnsIs DEF Undoes

\* A downgrade that takes back every statement of its upgrade.
LEMMA DownRevision ==
    ASSUME NEW n \in 1 .. 22, Sound(SchemaAt(n - 1)), NEW up, Reached(n, up, SchemaAt(n)),
           NEW down, Len(up) \in Nat, Len(down) = Len(up),
           \A i \in 1 .. Len(up) : Undoes(up[i], down[Len(up) + 1 - i])
    PROVE  Leads(SchemaAt(n), down, SchemaAt(n - 1))
<1>. DEFINE T == SchemaAt(n - 1)
            U == SchemaAt(n)
            m == Len(up)
<1>1. Sound(T) /\ m \in Nat /\ LeadsTo(T, up, m, U) /\ Len(down) = m BY DEF Reached, Leads
<1>2. \A i \in 1 .. m : Mirrors(up[i], down[m + 1 - i]) BY DEF Undoes
<1>3. \A i \in 1 .. m : up[i].do = "refer" =>
          \A V : LeadsTo(T, up, i - 1, V) => up[i].parents \cap V[up[i].table].parents = {}
  BY DEF Undoes
<1>. HIDE DEF T, U, m
<1>4. Leads(U, down, T) BY <1>1, <1>2, <1>3, Downgrades
<1>. QED BY <1>4 DEF T, U

LEMMA Down1 == Leads(SchemaAt(1), R20260227_0001.down, SchemaAt(0))
<1>. DEFINE up == R20260227_0001.up
            down == R20260227_0001.down
<1>1. Len(up) = 1 /\ Len(down) = 1 /\ Undoes(up[1], down[1])
  BY UndoesTable DEF R20260227_0001
<1>2. Reached(1, up, SchemaAt(1)) /\ Sound(SchemaAt(0)) BY Schema0, Schema1
<1>. HIDE DEF up, down
<1>3. \A i \in 1 .. Len(up) : Undoes(up[i], down[Len(up) + 1 - i]) BY <1>1
<1>4. 1 \in 1 .. 22 /\ 1 - 1 = 0 /\ Len(up) \in Nat BY <1>1
<1>. QED BY <1>1, <1>2, <1>3, <1>4, DownRevision DEF down

LEMMA Down3 == Leads(SchemaAt(3), R20260302_0003.down, SchemaAt(2))
<1>. DEFINE up == R20260302_0003.up
            down == R20260302_0003.down
<1>1. Len(up) = 2 /\ Len(down) = 2 BY DEF R20260302_0003
<1>2. Undoes(up[1], down[2]) BY UndoesColumns DEF R20260302_0003
<1>3. Undoes(up[2], down[1]) BY UndoesIndexes DEF R20260302_0003
<1>4. Reached(3, up, SchemaAt(3)) /\ Sound(SchemaAt(2)) BY Schema2, Schema3 DEF Reached
<1>. HIDE DEF up, down
<1>5. \A i \in 1 .. Len(up) : Undoes(up[i], down[Len(up) + 1 - i]) BY <1>1, <1>2, <1>3
<1>6. 3 \in 1 .. 22 /\ 3 - 1 = 2 /\ Len(up) \in Nat BY <1>1
<1>. QED BY <1>1, <1>4, <1>5, <1>6, DownRevision DEF down

LEMMA Down2 == Leads(SchemaAt(2), R20260227_0002.down, SchemaAt(1))
<1>. DEFINE up == R20260227_0002.up
            down == R20260227_0002.down
<1>1. Len(up) = 1 /\ Len(down) = 1 BY DEF R20260227_0002
<1>2. Undoes(up[1], down[1]) BY UndoesTable DEF R20260227_0002
<1>3. Reached(2, up, SchemaAt(2)) /\ Sound(SchemaAt(1)) BY Schema1, Schema2 DEF Reached
<1>. HIDE DEF up, down
<1>4. \A i \in 1 .. Len(up) : Undoes(up[i], down[Len(up) + 1 - i])
  BY <1>1, <1>2
<1>5. 2 \in 1 .. 22 /\ 2 - 1 = 1 /\ Len(up) \in Nat BY <1>1
<1>. QED BY <1>1, <1>3, <1>4, <1>5, DownRevision DEF down

LEMMA Down4 == Leads(SchemaAt(4), R20260308_0004.down, SchemaAt(3))
<1>. DEFINE up == R20260308_0004.up
            down == R20260308_0004.down
<1>1. Len(up) = 4 /\ Len(down) = 4 BY DEF R20260308_0004
<1>2. Undoes(up[1], down[4]) BY UndoesTable DEF R20260308_0004
<1>3. Undoes(up[2], down[3]) BY UndoesIndexes DEF R20260308_0004
<1>4. Undoes(up[3], down[2]) BY UndoesColumns DEF R20260308_0004
<1>5. Undoes(up[4], down[1]) BY UndoesIndexes DEF R20260308_0004
<1>6. Reached(4, up, SchemaAt(4)) /\ Sound(SchemaAt(3)) BY Schema3, Schema4 DEF Reached
<1>. HIDE DEF up, down
<1>7. \A i \in 1 .. Len(up) : Undoes(up[i], down[Len(up) + 1 - i])
  BY <1>1, <1>2, <1>3, <1>4, <1>5
<1>8. 4 \in 1 .. 22 /\ 4 - 1 = 3 /\ Len(up) \in Nat BY <1>1
<1>. QED BY <1>1, <1>6, <1>7, <1>8, DownRevision DEF down

LEMMA Down5 == Leads(SchemaAt(5), R20260411_0005.down, SchemaAt(4))
<1>. DEFINE up == R20260411_0005.up
            down == R20260411_0005.down
<1>1. Len(up) = 4 /\ Len(down) = 4 BY DEF R20260411_0005
<1>2. Undoes(up[1], down[4]) BY UndoesTable DEF R20260411_0005
<1>3. Undoes(up[2], down[3]) BY UndoesIndexes DEF R20260411_0005
<1>4. Undoes(up[3], down[2]) BY UndoesColumns DEF R20260411_0005
<1>5. Undoes(up[4], down[1]) BY UndoesIndexes DEF R20260411_0005
<1>6. Reached(5, up, SchemaAt(5)) /\ Sound(SchemaAt(4)) BY Schema4, Schema5 DEF Reached
<1>. HIDE DEF up, down
<1>7. \A i \in 1 .. Len(up) : Undoes(up[i], down[Len(up) + 1 - i])
  BY <1>1, <1>2, <1>3, <1>4, <1>5
<1>8. 5 \in 1 .. 22 /\ 5 - 1 = 4 /\ Len(up) \in Nat BY <1>1
<1>. QED BY <1>1, <1>6, <1>7, <1>8, DownRevision DEF down

LEMMA Down8 == Leads(SchemaAt(8), R20260412_0008.down, SchemaAt(7))
<1>. DEFINE up == R20260412_0008.up
            down == R20260412_0008.down
<1>1. Len(up) = 2 /\ Len(down) = 2 BY DEF R20260412_0008
<1>2. Undoes(up[1], down[2]) BY UndoesTable DEF R20260412_0008
<1>3. Undoes(up[2], down[1]) BY UndoesIndexes DEF R20260412_0008
<1>4. Reached(8, up, SchemaAt(8)) /\ Sound(SchemaAt(7)) BY Schema7, Schema8 DEF Reached
<1>. HIDE DEF up, down
<1>5. \A i \in 1 .. Len(up) : Undoes(up[i], down[Len(up) + 1 - i])
  BY <1>1, <1>2, <1>3
<1>6. 8 \in 1 .. 22 /\ 8 - 1 = 7 /\ Len(up) \in Nat BY <1>1
<1>. QED BY <1>1, <1>4, <1>5, <1>6, DownRevision DEF down

LEMMA Down10 == Leads(SchemaAt(10), R20260415_0010.down, SchemaAt(9))
<1>. DEFINE up == R20260415_0010.up
            down == R20260415_0010.down
<1>1. Len(up) = 2 /\ Len(down) = 2 BY DEF R20260415_0010
<1>2. Undoes(up[1], down[2]) BY UndoesColumns DEF R20260415_0010
<1>3. Undoes(up[2], down[1]) BY UndoesIndexes DEF R20260415_0010
<1>4. Reached(10, up, SchemaAt(10)) /\ Sound(SchemaAt(9)) BY Schema9, Schema10 DEF Reached
<1>. HIDE DEF up, down
<1>5. \A i \in 1 .. Len(up) : Undoes(up[i], down[Len(up) + 1 - i])
  BY <1>1, <1>2, <1>3
<1>6. 10 \in 1 .. 22 /\ 10 - 1 = 9 /\ Len(up) \in Nat BY <1>1
<1>. QED BY <1>1, <1>4, <1>5, <1>6, DownRevision DEF down

LEMMA Down12 == Leads(SchemaAt(12), R20260417_0011.down, SchemaAt(11))
<1>. DEFINE up == R20260417_0011.up
            down == R20260417_0011.down
<1>1. Len(up) = 2 /\ Len(down) = 2 BY DEF R20260417_0011
<1>2. Undoes(up[1], down[2]) BY UndoesColumns DEF R20260417_0011
<1>3. Undoes(up[2], down[1]) BY UndoesColumns DEF R20260417_0011
<1>4. Reached(12, up, SchemaAt(12)) /\ Sound(SchemaAt(11)) BY Schema11, Schema12 DEF Reached
<1>. HIDE DEF up, down
<1>5. \A i \in 1 .. Len(up) : Undoes(up[i], down[Len(up) + 1 - i])
  BY <1>1, <1>2, <1>3
<1>6. 12 \in 1 .. 22 /\ 12 - 1 = 11 /\ Len(up) \in Nat BY <1>1
<1>. QED BY <1>1, <1>4, <1>5, <1>6, DownRevision DEF down

LEMMA Down16 == Leads(SchemaAt(16), Rb4aadc4ac8f6.down, SchemaAt(15))
<1>. DEFINE up == Rb4aadc4ac8f6.up
            down == Rb4aadc4ac8f6.down
<1>1. Len(up) = 2 /\ Len(down) = 2 BY DEF Rb4aadc4ac8f6
<1>2. Undoes(up[1], down[2]) BY UndoesColumns DEF Rb4aadc4ac8f6
<1>3. Undoes(up[2], down[1]) BY UndoesColumns DEF Rb4aadc4ac8f6
<1>4. Reached(16, up, SchemaAt(16)) /\ Sound(SchemaAt(15)) BY Schema15, Schema16 DEF Reached
<1>. HIDE DEF up, down
<1>5. \A i \in 1 .. Len(up) : Undoes(up[i], down[Len(up) + 1 - i])
  BY <1>1, <1>2, <1>3
<1>6. 16 \in 1 .. 22 /\ 16 - 1 = 15 /\ Len(up) \in Nat BY <1>1
<1>. QED BY <1>1, <1>4, <1>5, <1>6, DownRevision DEF down

LEMMA Down22 == Leads(SchemaAt(22), R20260609_0020.down, SchemaAt(21))
<1>. DEFINE up == R20260609_0020.up
            down == R20260609_0020.down
<1>1. Len(up) = 1 /\ Len(down) = 1 BY DEF R20260609_0020
<1>2. Undoes(up[1], down[1]) BY UndoesColumns DEF R20260609_0020
<1>3. Reached(22, up, SchemaAt(22)) /\ Sound(SchemaAt(21)) BY Schema21, Schema22 DEF Reached
<1>. HIDE DEF up, down
<1>4. \A i \in 1 .. Len(up) : Undoes(up[i], down[Len(up) + 1 - i])
  BY <1>1, <1>2
<1>5. 22 \in 1 .. 22 /\ 22 - 1 = 21 /\ Len(up) \in Nat BY <1>1
<1>. QED BY <1>1, <1>3, <1>4, <1>5, DownRevision DEF down

\* The downgrade of 20260412_0006 takes back what was created; the row that
\* was inserted goes with its table.
LEMMA Undoes6 ==
    LET up == R20260412_0006.up
        down == R20260412_0006.down
    IN  Len(down) = 10 /\ \A i \in 1 .. 10 : Undoes(up[i], down[10 + 1 - i])
<1>. DEFINE up == R20260412_0006.up
            down == R20260412_0006.down
<1>1. /\ up[1] = R20260412_0006_Runs[1] /\ up[2] = R20260412_0006_Runs[2]
      /\ up[3] = R20260412_0006_Runs[3] /\ up[4] = R20260412_0006_Runs[4]
      /\ up[5] = R20260412_0006_Runs[5] /\ up[6] = R20260412_0006_Runs[6]
      /\ up[7] = R20260412_0006_Items[1] /\ up[8] = R20260412_0006_Items[2]
      /\ up[9] = R20260412_0006_Items[3] /\ up[10] = R20260412_0006_Items[4]
  BY DEF R20260412_0006, R20260412_0006_Runs, R20260412_0006_Items
<1>2. /\ Len(down) = 10
      /\ down[10] = DropTable("plc_targets")
      /\ down[9] = DropIndexes("plc_targets", {"is_active", "created_at"})
      /\ down[8] = DropTable("plc_testcases")
      /\ down[7] = DropIndexes("plc_testcases", {"suite_id", "is_active", "instruction_name",
                                                 "input_type", "created_at"})
      /\ down[6] = DropTable("plc_test_runs")
      /\ down[5] = DropIndexes("plc_test_runs", {"target_key", "suite_id_created_at",
                                                 "status_created_at"})
      /\ down[4] = DropTable("plc_test_run_items")
      /\ down[3] = DropIndexes("plc_test_run_items", {"testcase_id", "status", "run_id",
                                                      "case_key"})
      /\ down[2] = DropTable("plc_test_run_io_logs")
      /\ down[1] = DropIndexes("plc_test_run_io_logs", {"run_item_sequence", "run_item_id",
                                                        "direction"})
  BY DEF R20260412_0006
<1>. HIDE DEF up, down
<1>3. Undoes(up[1], down[10])
  BY <1>1, <1>2, UndoesTable DEF R20260412_0006_Runs
<1>4. Undoes(up[2], down[9])
  BY <1>1, <1>2, UndoesIndexes DEF R20260412_0006_Runs
<1>5. Undoes(up[3], down[8])
  BY <1>1, <1>2, UndoesTable DEF R20260412_0006_Runs
<1>6. Undoes(up[4], down[7])
  BY <1>1, <1>2, UndoesIndexes DEF R20260412_0006_Runs
<1>7. Undoes(up[5], down[6])
  BY <1>1, <1>2, UndoesTable DEF R20260412_0006_Runs
<1>8. Undoes(up[6], down[5])
  BY <1>1, <1>2, UndoesIndexes DEF R20260412_0006_Runs
<1>9. Undoes(up[7], down[4])
  BY <1>1, <1>2, UndoesTable DEF R20260412_0006_Items
<1>10. Undoes(up[8], down[3])
  BY <1>1, <1>2, UndoesIndexes DEF R20260412_0006_Items
<1>11. Undoes(up[9], down[2])
  BY <1>1, <1>2, UndoesTable DEF R20260412_0006_Items
<1>12. Undoes(up[10], down[1])
  BY <1>1, <1>2, UndoesIndexes DEF R20260412_0006_Items
<1>13. 1 .. 10 = {1, 2, 3, 4, 5, 6, 7, 8, 9, 10} OBVIOUS
<1>14. \A i \in {1, 2, 3, 4, 5, 6, 7, 8, 9, 10} : Undoes(up[i], down[10 + 1 - i])
  BY <1>3, <1>4, <1>5, <1>6, <1>7, <1>8, <1>9, <1>10, <1>11, <1>12
<1>. QED BY <1>2, <1>13, <1>14 DEF up, down

LEMMA Down6 == Leads(SchemaAt(6), R20260412_0006.down, SchemaAt(5))
<1>. DEFINE up == R20260412_0006.up
            down == R20260412_0006.down
            T == SchemaAt(5)
            U == SchemaAt(6)
<1>1. Sound(T) BY Schema5 DEF Reached
<1>2. LeadsTo(T, up, 10, U) /\ 10 \in Nat BY Schema6
<1>3. Len(down) = 10 /\ \A i \in 1 .. 10 : Undoes(up[i], down[10 + 1 - i]) BY Undoes6
<1>. HIDE DEF up, down, T, U
<1>4. \A i \in 1 .. 10 : Mirrors(up[i], down[10 + 1 - i]) BY <1>3 DEF Undoes
<1>5. \A i \in 1 .. 10 : up[i].do = "refer" =>
          \A V : LeadsTo(T, up, i - 1, V) => up[i].parents \cap V[up[i].table].parents = {}
  BY <1>3 DEF Undoes
<1>6. Leads(U, down, T) BY <1>1, <1>2, <1>3, <1>4, <1>5, Downgrades
<1>. QED BY <1>6 DEF U, down, T

\* The downgrade of 20260415_0009 takes back what its upgrade made, the foreign
\* key of the testcases too, which was new.
LEMMA Mirrors9 ==
    LET up == R20260415_0009.up
        down == R20260415_0009.down
    IN  /\ Len(down) = 6
        /\ \A i \in 1 .. 6 : Mirrors(up[i], down[6 + 1 - i])
        /\ \A i \in 1 .. 6 : up[i].do = "refer" =>
               i = 4 /\ up[i].table = "plc_testcases" /\ up[i].parents = {"plc_execution_profiles"}
<1>. DEFINE up == R20260415_0009.up
            down == R20260415_0009.down
<1>1. /\ up[1] = R20260415_0009_Columns[1] /\ up[2] = R20260415_0009_Columns[2]
      /\ up[3] = R20260415_0009_Columns[3] /\ up[4] = R20260415_0009_Columns[4]
      /\ up[5] = R20260415_0009_Columns[5] /\ up[6] = R20260415_0009_Columns[6]
  BY DEF R20260415_0009, R20260415_0009_Columns, R20260415_0009_Data
<1>2. /\ Len(down) = 6
      /\ down[6] = DropTable("plc_execution_profiles")
      /\ down[5] = DropIndexes("plc_execution_profiles", {"memory_profile_key", "is_active",
                                                          "instruction_name"})
      /\ down[4] = DropColumns("plc_testcases", {"execution_profile_key"})
      /\ down[3] = Unrefer("plc_testcases", "plc_execution_profiles")
      /\ down[2] = DropColumns("plc_test_runs", {"target_snapshot_json", "validator_version",
                                                 "executor_mode", "request_schema_version"})
      /\ down[1] = DropColumns("plc_test_run_items", {"request_context_json", "inputs_json",
                       "execution_profile_key", "memory_profile_key", "expected_outcome",
                       "timeout_ms", "output_type", "input_type"})
  BY DEF R20260415_0009
<1>. HIDE DEF up, down
<1>3. Undoes(up[1], down[6]) BY <1>1, <1>2, UndoesTable DEF R20260415_0009_Columns
<1>4. Undoes(up[2], down[5]) BY <1>1, <1>2, UndoesIndexes DEF R20260415_0009_Columns
<1>5. Undoes(up[3], down[4]) BY <1>1, <1>2, UndoesColumns DEF R20260415_0009_Columns
<1>6. /\ Mirrors(up[4], down[3])
      /\ up[4].table = "plc_testcases" /\ up[4].parents = {"plc_execution_profiles"}
  <2>1. up[4] = Refer("plc_testcases", "plc_execution_profiles")
    BY <1>1 DEF R20260415_0009_Columns
  <2>2. /\ up[4].do = "refer" /\ up[4].table = "plc_testcases" /\ ~up[4].guarded
        /\ up[4].parents = {"plc_execution_profiles"}
    BY <2>1, ReferIs
  <2>3. /\ down[3].do = "unrefer" /\ down[3].table = "plc_testcases" /\ ~down[3].guarded
        /\ down[3].parents = {"plc_execution_profiles"}
    BY <1>2, ReferIs
  <2>. QED BY <2>2, <2>3 DEF Mirrors
<1>7. Undoes(up[5], down[2]) BY <1>1, <1>2, UndoesColumns DEF R20260415_0009_Columns
<1>8. Undoes(up[6], down[1]) BY <1>1, <1>2, UndoesColumns DEF R20260415_0009_Columns
<1>9. 1 .. 6 = {1, 2, 3, 4, 5, 6} OBVIOUS
<1>10. \A i \in {1, 2, 3, 4, 5, 6} : Mirrors(up[i], down[6 + 1 - i])
  BY <1>3, <1>4, <1>5, <1>6, <1>7, <1>8 DEF Undoes
<1>11. \A i \in {1, 2, 3, 4, 5, 6} : up[i].do = "refer" => i = 4
  BY <1>3, <1>4, <1>5, <1>7, <1>8 DEF Undoes
<1>. QED BY <1>2, <1>6, <1>9, <1>10, <1>11 DEF up, down

LEMMA Down9 == Leads(SchemaAt(9), R20260415_0009.down, SchemaAt(8))
<1>. DEFINE up == R20260415_0009.up
            down == R20260415_0009.down
            T == SchemaAt(8)
            U == SchemaAt(9)
<1>1. Sound(T) BY Schema8 DEF Reached
<1>2. /\ LeadsTo(T, up, 6, U) /\ 6 \in Nat
      /\ \A V : LeadsTo(T, up, 3, V) => V["plc_testcases"].parents = {"plc_test_suites"}
  BY Schema9
<1>3. /\ Len(down) = 6 /\ \A i \in 1 .. 6 : Mirrors(up[i], down[6 + 1 - i])
      /\ \A i \in 1 .. 6 : up[i].do = "refer" =>
             i = 4 /\ up[i].table = "plc_testcases" /\ up[i].parents = {"plc_execution_profiles"}
  BY Mirrors9
<1>. HIDE DEF up, down, T, U
<1>4. ASSUME NEW i \in 1 .. 6, up[i].do = "refer", NEW V, LeadsTo(T, up, i - 1, V)
      PROVE  up[i].parents \cap V[up[i].table].parents = {}
  <2>1. i - 1 = 3 /\ up[i].table = "plc_testcases" /\ up[i].parents = {"plc_execution_profiles"}
    BY <1>3, <1>4
  <2>2. LeadsTo(T, up, 3, V) BY <1>4, <2>1
  <2>3. V["plc_testcases"].parents = {"plc_test_suites"} BY <1>2, <2>2
  <2>. QED BY <2>1, <2>3
<1>5. \A i \in 1 .. 6 : up[i].do = "refer" =>
          \A V : LeadsTo(T, up, i - 1, V) => up[i].parents \cap V[up[i].table].parents = {}
  BY <1>4
<1>6. Leads(U, down, T) BY <1>1, <1>2, <1>3, <1>5, Downgrades
<1>. QED BY <1>6 DEF U, down, T

LEMMA Down7 == Leads(SchemaAt(7), R20260412_0007.down, SchemaAt(6))
<1>1. Len(R20260412_0007.down) = 0 BY DEF R20260412_0007
<1>. QED BY <1>1, Schema7, LeadsNowhere DEF Leads

LEMMA Down13 == Leads(SchemaAt(13), R20260523_0012.down, SchemaAt(12))
<1>1. Len(R20260523_0012.down) = 0 BY DEF R20260523_0012
<1>. QED BY <1>1, Schema13, LeadsNowhere DEF Leads

\* The downgrade of 20260417_0010.
LEMMA Undoes11 ==
    LET up == R20260417_0010.up
        down == R20260417_0010.down
    IN  Len(down) = 16 /\ \A i \in 1 .. 16 : Undoes(up[i], down[16 + 1 - i])
<1>. DEFINE up == R20260417_0010.up
            down == R20260417_0010.down
<1>1. /\ up[1] = R20260417_0010_Training[1] /\ up[2] = R20260417_0010_Training[2]
      /\ up[3] = R20260417_0010_Training[3] /\ up[4] = R20260417_0010_Training[4]
      /\ up[5] = R20260417_0010_Training[5] /\ up[6] = R20260417_0010_Training[6]
      /\ up[7] = R20260417_0010_Training[7] /\ up[8] = R20260417_0010_Training[8]
      /\ up[9] = R20260417_0010_Registry[1] /\ up[10] = R20260417_0010_Registry[2]
      /\ up[11] = R20260417_0010_Registry[3] /\ up[12] = R20260417_0010_Registry[4]
      /\ up[13] = R20260417_0010_Registry[5] /\ up[14] = R20260417_0010_Registry[6]
      /\ up[15] = R20260417_0010_Registry[7] /\ up[16] = R20260417_0010_Registry[8]
  BY DEF R20260417_0010, R20260417_0010_Training, R20260417_0010_Registry
<1>2. /\ Len(down) = 16
      /\ down[16] = DropTable("ft_datasets")
      /\ down[15] = DropIndexes("ft_datasets", {"created_at", "task_type"})
      /\ down[14] = DropTable("ft_dataset_versions")
      /\ down[13] = DropIndexes("ft_dataset_versions", {"created_at", "status", "dataset_id"})
      /\ down[12] = DropTable("ft_dataset_rows")
      /\ down[11] = DropIndexes("ft_dataset_rows", {"validation_status", "split",
                                                    "dataset_version_id"})
      /\ down[10] = DropTable("ft_training_jobs")
      /\ down[9] = DropIndexes("ft_training_jobs", {"created_at", "status",
                                                    "dataset_version_id"})
  BY DEF R20260417_0010
<1>3. /\ down[8] = DropTable("ft_model_artifacts")
      /\ down[7] = DropIndexes("ft_model_artifacts", {"artifact_type", "training_job_id"})
      /\ down[6] = DropTable("model_registry")
      /\ down[5] = DropIndexes("model_registry", {"ollama_model_name", "source_type", "status"})
      /\ down[4] = DropTable("rag_collections")
      /\ down[3] = DropIndexes("rag_collections", {"created_at", "index_status"})
      /\ down[2] = DropTable("rag_documents")
      /\ down[1] = DropIndexes("rag_documents", {"mime_type", "status", "collection_id"})
  BY DEF R20260417_0010
<1>. HIDE DEF up, down
<1>4. Undoes(up[1], down[16])
  BY <1>1, <1>2, UndoesTable DEF R20260417_0010_Training
<1>5. Undoes(up[2], down[15])
  BY <1>1, <1>2, UndoesIndexes DEF R20260417_0010_Training
<1>6. Undoes(up[3], down[14])
  BY <1>1, <1>2, UndoesTable DEF R20260417_0010_Training
<1>7. Undoes(up[4], down[13])
  BY <1>1, <1>2, UndoesIndexes DEF R20260417_0010_Training
<1>8. Undoes(up[5], down[12])
  BY <1>1, <1>2, UndoesTable DEF R20260417_0010_Training
<1>9. Undoes(up[6], down[11])
  BY <1>1, <1>2, UndoesIndexes DEF R20260417_0010_Training
<1>10. Undoes(up[7], down[10])
  BY <1>1, <1>2, UndoesTable DEF R20260417_0010_Training
<1>11. Undoes(up[8], down[9])
  BY <1>1, <1>2, UndoesIndexes DEF R20260417_0010_Training
<1>12. Undoes(up[9], down[8])
  BY <1>1, <1>3, UndoesTable DEF R20260417_0010_Registry
<1>13. Undoes(up[10], down[7])
  BY <1>1, <1>3, UndoesIndexes DEF R20260417_0010_Registry
<1>14. Undoes(up[11], down[6])
  BY <1>1, <1>3, UndoesTable DEF R20260417_0010_Registry
<1>15. Undoes(up[12], down[5])
  BY <1>1, <1>3, UndoesIndexes DEF R20260417_0010_Registry
<1>16. Undoes(up[13], down[4])
  BY <1>1, <1>3, UndoesTable DEF R20260417_0010_Registry
<1>17. Undoes(up[14], down[3])
  BY <1>1, <1>3, UndoesIndexes DEF R20260417_0010_Registry
<1>18. Undoes(up[15], down[2])
  BY <1>1, <1>3, UndoesTable DEF R20260417_0010_Registry
<1>19. Undoes(up[16], down[1])
  BY <1>1, <1>3, UndoesIndexes DEF R20260417_0010_Registry
<1>20. 1 .. 16 = {1, 2, 3, 4, 5, 6, 7, 8, 9, 10, 11, 12, 13, 14, 15, 16} OBVIOUS
<1>21. \A i \in {1, 2, 3, 4, 5, 6, 7, 8, 9, 10, 11, 12, 13, 14, 15, 16} :
          Undoes(up[i], down[16 + 1 - i])
  BY <1>4, <1>5, <1>6, <1>7, <1>8, <1>9, <1>10, <1>11,
     <1>12, <1>13, <1>14, <1>15, <1>16, <1>17, <1>18, <1>19
<1>. QED BY <1>2, <1>20, <1>21 DEF up, down

LEMMA Down11 == Leads(SchemaAt(11), R20260417_0010.down, SchemaAt(10))
<1>. DEFINE up == R20260417_0010.up
            down == R20260417_0010.down
<1>1. Len(up) = 16 /\ Len(down) = 16 /\ \A i \in 1 .. 16 : Undoes(up[i], down[16 + 1 - i])
  BY Statements11, Undoes11
<1>2. Reached(11, up, SchemaAt(11)) /\ Sound(SchemaAt(10)) BY Schema10, Schema11 DEF Reached
<1>. HIDE DEF up, down
<1>3. \A i \in 1 .. Len(up) : Undoes(up[i], down[Len(up) + 1 - i]) BY <1>1
<1>4. 11 \in 1 .. 22 /\ 11 - 1 = 10 /\ Len(up) \in Nat BY <1>1
<1>. QED BY <1>1, <1>2, <1>3, <1>4, DownRevision DEF down

\* A downgrade that leads to a schema with the tables of an earlier one leads
\* to the earlier one.
LEMMA LeadsBack ==
    ASSUME NEW T, Sound(T), NEW W, Sound(W), DOMAIN W = DOMAIN T,
           \A t \in DOMAIN T : W[t] = T[t], NEW U, NEW st, Leads(U, st, W)
    PROVE  Leads(U, st, T)
BY ShapedEqual DEF Sound

LEMMA Down15 == Leads(SchemaAt(15), R20260523_0014.down, SchemaAt(14))
<1>. DEFINE T == SchemaAt(14)
            U == SchemaAt(15)
            st == R20260523_0014.down
            c == R20260417_0010.up[11].columns \cup R20260417_0011.up[2].columns
            x == R20260417_0010.up[12].indexes
            P == R20260417_0010.up[11].parents
            d == (c \ {"ollama_model_name"}) \cup {"serving_model_name"}
            y == (x \ {"ollama_model_name"}) \cup {"serving_model_name"}
<1>1. Sound(T) /\ Sound(U) BY Schema14, Schema15 DEF Reached
<1>2. /\ DOMAIN U = DOMAIN T /\ \A t \in DOMAIN T : t # "model_registry" => U[t] = T[t]
      /\ T["model_registry"] = Table(c, x, P) /\ U["model_registry"] = Table(d, y, P)
  BY Schema15
<1>3. "model_registry" \in DOMAIN U
  <2>1. "model_registry" \in DOMAIN SchemaAt(16) BY Names16 DEF Created11
  <2>. QED BY <2>1, Schema16
<1>4. /\ "ollama_model_name" \in c /\ "serving_model_name" \notin c
      /\ "ollama_model_name" \in x /\ "serving_model_name" \notin x
  BY RegistryColumns
<1>5. Renames(st, "model_registry", "serving_model_name", "ollama_model_name")
  BY RegistryRenamed
<1>. HIDE DEF T, U, st, c, x, P
<1>6. /\ "serving_model_name" \in d /\ "ollama_model_name" \notin d
      /\ "serving_model_name" \in y /\ "ollama_model_name" \notin y
      /\ (d \ {"serving_model_name"}) \cup {"ollama_model_name"} = c
      /\ (y \ {"serving_model_name"}) \cup {"ollama_model_name"} = x
  BY <1>4
<1>. HIDE DEF d, y
<1>7. /\ U["model_registry"].columns = d /\ U["model_registry"].indexes = y
      /\ U["model_registry"].parents = P
  BY <1>2 DEF Table
<1>8. PICK W : RenamedIn(U, st, "model_registry", "serving_model_name", "ollama_model_name", W)
  BY <1>1, <1>3, <1>5, <1>6, <1>7, RenameRevision
<1>9. Leads(U, st, W) /\ Sound(W) BY <1>8 DEF RenamedIn
<1>10. /\ DOMAIN W = DOMAIN U /\ W["model_registry"] = Table(c, x, P)
       /\ \A t \in DOMAIN U : t # "model_registry" => W[t] = U[t]
  BY <1>6, <1>7, <1>8 DEF RenamedIn, Alters
<1>11. DOMAIN W = DOMAIN T /\ \A t \in DOMAIN T : W[t] = T[t] BY <1>2, <1>10
<1>12. Leads(U, st, T) BY <1>1, <1>9, <1>11, LeadsBack
<1>. QED BY <1>12 DEF U, st, T

\* The heartbeats are never changed between their creation and their removal.
LEMMA Heartbeats16 ==
    SchemaAt(16)["worker_heartbeats"] = Table(R20260227_0002.up[1].columns, {}, {})
<1>. DEFINE H(n) == SchemaAt(n)["worker_heartbeats"]
            t == "worker_heartbeats"
<1>1. H(2) = Table(R20260227_0002.up[1].columns, {}, {}) BY Schema2
<1>2. H(5) = H(2) BY Schema3, Schema4, Schema5
<1>3. H(8) = H(5) /\ t \in DOMAIN SchemaAt(8) BY Schema5, Schema6, Schema7, Schema8
<1>4. H(10) = H(8) /\ t \in DOMAIN SchemaAt(10) BY <1>3, Schema9, Schema10
<1>5. H(13) = H(10) /\ t \in DOMAIN SchemaAt(13) BY <1>4, Schema11, Schema12, Schema13
<1>6. H(14) = H(13) /\ t \in DOMAIN SchemaAt(14) BY <1>5, Untouched14, PLCTables
<1>7. H(15) = H(14) /\ t \in DOMAIN SchemaAt(15) BY <1>6, Schema15
<1>8. H(16) = H(15) BY <1>7, Schema16
<1>. QED BY <1>1, <1>2, <1>3, <1>4, <1>5, <1>6, <1>7, <1>8

LEMMA Down17 == Leads(SchemaAt(17), R20260525_0015.down, SchemaAt(16))
<1>. DEFINE T == SchemaAt(16)
            U == SchemaAt(17)
            st == R20260525_0015.down
<1>1. Sound(T) /\ Sound(U) BY Schema16, Schema17 DEF Reached
<1>2. /\ DOMAIN T = DOMAIN U \cup {"worker_heartbeats"} /\ "worker_heartbeats" \notin DOMAIN U
      /\ \A t \in DOMAIN U : U[t] = T[t]
  BY Names16, Schema17 DEF Created11
<1>3. Len(st) = 1 /\ Creating(st[1], "worker_heartbeats") /\ st[1].parents = {} BY OneTables
<1>4. T["worker_heartbeats"] = Table(st[1].columns, {}, {})
  <2>1. st[1].columns = R20260227_0002.up[1].columns
    BY CreateTableIs DEF R20260525_0015, R20260227_0002
  <2>. QED BY <2>1, Heartbeats16
<1>. HIDE DEF T, U, st
<1>5. PICK W : TableMade(U, st, "worker_heartbeats", W) BY <1>1, <1>2, <1>3, OneTable
<1>6. Leads(U, st, W) /\ Sound(W) BY <1>5 DEF TableMade
<1>7. DOMAIN W = DOMAIN T /\ \A t \in DOMAIN T : W[t] = T[t] BY <1>2, <1>4, <1>5 DEF TableMade
<1>8. Leads(U, st, T) BY <1>1, <1>6, <1>7, LeadsBack
<1>. QED BY <1>8 DEF T, U, st

\* A downgrade that only drops what the upgrade created.
LEMMA DropsBack ==
    ASSUME NEW T, Sound(T), NEW U, Sound(U), NEW st, NEW n \in Nat, Len(st) = n,
           DropOrder(U, st, n), DOMAIN T = DOMAIN U \ {st[j].table : j \in 1 .. n},
           \A t \in DOMAIN T : U[t] = T[t]
    PROVE  Leads(U, st, T)
<1>. DEFINE L == Left(U, st, n)
<1>1. Leads(U, st, L) /\ Sound(L) BY DropRevision
<1>2. DOMAIN L = DOMAIN T /\ \A t \in DOMAIN T : L[t] = T[t] BY DEF Left
<1>. HIDE DEF L
<1>. QED BY <1>1, <1>2, LeadsBack

\* Two tables are dropped, of which at most the first refers to the second.
DropsTwo(U, st, a, b) ==
    DropOrder(U, st, 2) /\ {st[j].table : j \in 1 .. 2} = {a, b}

LEMMA TwoDrops ==
    ASSUME NEW U, NEW st, NEW a \in DOMAIN U, NEW b \in DOMAIN U, a # b,
           st[1] = DropTable(a), st[2] = DropTable(b),
           \A t \in DOMAIN U : a \notin U[t].parents,
           \A t \in DOMAIN U : b \in U[t].parents => t = a
    PROVE  DropsTwo(U, st, a, b)
<1>1. 1 .. 2 = {1, 2} OBVIOUS
<1>2. st[1].table = a /\ st[2].table = b BY DropTableIs
<1>3. \A i \in {1, 2} : st[i].do = "drop" /\ st[i].parents = {} /\ st[i].columns = {}
                        /\ st[i].indexes = {} /\ st[i].table \in DOMAIN U
  BY DropTableIs
<1>4. \A i \in {1, 2} : \A j \in 1 .. i - 1 : st[j].table # st[i].table
  BY <1>2
<1>5. ASSUME NEW i \in {1, 2}, NEW t \in DOMAIN U, st[i].table \in U[t].parents
      PROVE  \E j \in 1 .. i - 1 : st[j].table = t
  <2>1. CASE i = 1 BY <1>2, <1>5, <2>1
  <2>2. CASE i = 2
    <3>1. 1 \in 1 .. i - 1 BY <2>2
    <3>. QED BY <1>2, <1>5, <2>2, <3>1
  <2>. QED BY <2>1, <2>2
<1>6. {st[j].table : j \in 1 .. 2} = {a, b} BY <1>1, <1>2
<1>. QED BY <1>1, <1>3, <1>4, <1>5, <1>6 DEF DropOrder, DropsTwo

LEMMA Down20 == Leads(SchemaAt(20), R20260607_0018.down, SchemaAt(19))
<1>. DEFINE T == SchemaAt(19)
            U == SchemaAt(20)
            st == R20260607_0018.down
<1>1. Sound(T) /\ Sound(U) BY Schema19, Schema20 DEF Reached
<1>2. DOMAIN U = DOMAIN T \cup {"evaluation_sets", "evaluation_questions"}
      /\ \A t \in DOMAIN T : U[t] = T[t]
  BY Schema20
<1>3. "evaluation_sets" \notin DOMAIN T /\ "evaluation_questions" \notin DOMAIN T
  BY Schema18, Schema19 DEF Created19
<1>4. /\ Len(st) = 2 /\ st[1] = DropTable("evaluation_questions")
      /\ st[2] = DropTable("evaluation_sets")
  BY DEF R20260607_0018
<1>5. \A t \in DOMAIN U : \A q \in U[t].parents : <<t, q>> \in References
  <2>1. 20 \in 0 .. 22 OBVIOUS
  <2>. QED BY <2>1, References22
<1>6. "evaluation_runs" \notin DOMAIN U BY Schema18, Schema19, Schema20 DEF Created19
<1>. HIDE DEF T, U, st
<1>7. \A t \in DOMAIN U : /\ "evaluation_questions" \notin U[t].parents
                          /\ "evaluation_sets" \in U[t].parents => t = "evaluation_questions"
  BY <1>5, <1>6 DEF References
<1>8. /\ DropOrder(U, st, 2)
      /\ {st[j].table : j \in 1 .. 2} = {"evaluation_questions", "evaluation_sets"}
  <2>1. /\ "evaluation_questions" \in DOMAIN U /\ "evaluation_sets" \in DOMAIN U
        /\ "evaluation_questions" # "evaluation_sets"
    BY <1>2
  <2>2. \A t \in DOMAIN U : "evaluation_questions" \notin U[t].parents BY <1>7
  <2>3. \A t \in DOMAIN U : "evaluation_sets" \in U[t].parents => t = "evaluation_questions"
    BY <1>7
  <2>4. DropsTwo(U, st, "evaluation_questions", "evaluation_sets")
    BY <1>4, <2>1, <2>2, <2>3, TwoDrops
  <2>. QED BY <2>4 DEF DropsTwo
<1>9. 2 \in Nat /\ DOMAIN T = DOMAIN U \ {st[j].table : j \in 1 .. 2} BY <1>2, <1>3, <1>8
<1>10. Leads(U, st, T) BY <1>1, <1>2, <1>4, <1>8, <1>9, DropsBack
<1>. QED BY <1>10 DEF T, U, st

LEMMA Down21 == Leads(SchemaAt(21), R20260607_0019.down, SchemaAt(20))
<1>. DEFINE T == SchemaAt(20)
            U == SchemaAt(21)
            st == R20260607_0019.down
<1>1. Sound(T) /\ Sound(U) BY Schema20, Schema21 DEF Reached
<1>2. DOMAIN U = DOMAIN T \cup {"evaluation_runs", "evaluation_results"}
      /\ \A t \in DOMAIN T : U[t] = T[t]
  BY Schema21
<1>3. "evaluation_runs" \notin DOMAIN T /\ "evaluation_results" \notin DOMAIN T
  BY Schema18, Schema19, Schema20 DEF Created19
<1>4. /\ Len(st) = 2 /\ st[1] = DropTable("evaluation_results")
      /\ st[2] = DropTable("evaluation_runs")
  BY DEF R20260607_0019
<1>5. \A t \in DOMAIN U : \A q \in U[t].parents : <<t, q>> \in References
  <2>1. 21 \in 0 .. 22 OBVIOUS
  <2>. QED BY <2>1, References22
<1>. HIDE DEF T, U, st
<1>6. \A t \in DOMAIN U : /\ "evaluation_results" \notin U[t].parents
                          /\ "evaluation_runs" \in U[t].parents => t = "evaluation_results"
  BY <1>5 DEF References
<1>7. /\ DropOrder(U, st, 2)
      /\ {st[j].table : j \in 1 .. 2} = {"evaluation_results", "evaluation_runs"}
  <2>1. /\ "evaluation_results" \in DOMAIN U /\ "evaluation_runs" \in DOMAIN U
        /\ "evaluation_results" # "evaluation_runs"
    BY <1>2
  <2>2. \A t \in DOMAIN U : "evaluation_results" \notin U[t].parents BY <1>6
  <2>3. \A t \in DOMAIN U : "evaluation_runs" \in U[t].parents => t = "evaluation_results"
    BY <1>6
  <2>4. DropsTwo(U, st, "evaluation_results", "evaluation_runs")
    BY <1>4, <2>1, <2>2, <2>3, TwoDrops
  <2>. QED BY <2>4 DEF DropsTwo
<1>8. 2 \in Nat /\ DOMAIN T = DOMAIN U \ {st[j].table : j \in 1 .. 2} BY <1>2, <1>3, <1>7
<1>9. Leads(U, st, T) BY <1>1, <1>2, <1>4, <1>7, <1>8, DropsBack
<1>. QED BY <1>9 DEF T, U, st

\* The graph is dropped in an order in which no table that is left refers to
\* the next one.
LEMMA GraphDrops ==
    ASSUME NEW U, Created19 \subseteq DOMAIN U,
           \A t \in DOMAIN U : \A q \in U[t].parents : <<t, q>> \in References,
           "evaluation_questions" \notin DOMAIN U
    PROVE  /\ Len(R20260607_0017.down) = 7
           /\ DropOrder(U, R20260607_0017.down, 7)
           /\ {R20260607_0017.down[j].table : j \in 1 .. 7} = Created19
<1>. DEFINE st == R20260607_0017.down
<1>1. 1 .. 7 = {1, 2, 3, 4, 5, 6, 7} OBVIOUS
<1>2. /\ Len(st) = 7
      /\ st[1] = DropTable("rag_query_traces") /\ st[2] = DropTable("rag_community_members")
      /\ st[3] = DropTable("rag_communities") /\ st[4] = DropTable("rag_entity_chunks")
      /\ st[5] = DropTable("rag_relationships") /\ st[6] = DropTable("rag_entities")
      /\ st[7] = DropTable("rag_chunks")
  BY DEF R20260607_0017, R20260607_0017_Down
<1>. HIDE DEF st
<1>3. /\ st[1].table = "rag_query_traces" /\ st[2].table = "rag_community_members"
      /\ st[3].table = "rag_communities" /\ st[4].table = "rag_entity_chunks"
      /\ st[5].table = "rag_relationships" /\ st[6].table = "rag_entities"
      /\ st[7].table = "rag_chunks"
  BY <1>2, DropTableIs
<1>4. \A i \in {1, 2, 3, 4, 5, 6, 7} :
         st[i].do = "drop" /\ st[i].parents = {} /\ st[i].columns = {} /\ st[i].indexes = {}
  BY <1>2, DropTableIs
<1>5. \A i \in {1, 2, 3, 4, 5, 6, 7} :
         st[i].table \in DOMAIN U /\ \A j \in 1 .. i - 1 : st[j].table # st[i].table
  BY <1>3 DEF Created19
<1>6. ASSUME NEW t \in DOMAIN U
      PROVE  /\ "rag_query_traces" \notin U[t].parents
             /\ "rag_community_members" \notin U[t].parents
             /\ "rag_communities" \in U[t].parents => t = "rag_community_members"
             /\ "rag_entity_chunks" \notin U[t].parents
             /\ "rag_relationships" \notin U[t].parents
             /\ "rag_entities" \in U[t].parents =>
                   t \in {"rag_relationships", "rag_entity_chunks", "rag_community_members"}
             /\ "rag_chunks" \in U[t].parents => t = "rag_entity_chunks"
  <2>1. \A q : q \in U[t].parents => <<t, q>> \in References OBVIOUS
  <2>. QED BY <2>1 DEF References
<1>7. ASSUME NEW i \in {1, 2, 3, 4, 5, 6, 7}, NEW t \in DOMAIN U, st[i].table \in U[t].parents
      PROVE  \E j \in 1 .. i - 1 : st[j].table = t
  <2>1. CASE i \in {1, 2, 4, 5} BY <1>3, <1>6, <1>7, <2>1
  <2>2. CASE i = 3
    <3>1. t = st[2].table /\ 2 \in 1 .. i - 1 BY <1>3, <1>6, <1>7, <2>2
    <3>. QED BY <3>1
  <2>3. CASE i = 6
    <3>1. t \in {st[2].table, st[4].table, st[5].table} /\ {2, 4, 5} \subseteq 1 .. i - 1
      BY <1>3, <1>6, <1>7, <2>3
    <3>. QED BY <3>1
  <2>4. CASE i = 7
    <3>1. t = st[4].table /\ 4 \in 1 .. i - 1 BY <1>3, <1>6, <1>7, <2>4
    <3>. QED BY <3>1
  <2>. QED BY <2>1, <2>2, <2>3, <2>4
<1>8. {st[j].table : j \in 1 .. 7} = Created19 BY <1>1, <1>3 DEF Created19
<1>. QED BY <1>1, <1>2, <1>4, <1>5, <1>7, <1>8 DEF DropOrder, st

LEMMA Down19 == Leads(SchemaAt(19), R20260607_0017.down, SchemaAt(18))
<1>. DEFINE T == SchemaAt(18)
            U == SchemaAt(19)
            st == R20260607_0017.down
<1>1. Sound(T) /\ Sound(U) BY Schema18, Schema19 DEF Reached
<1>2. DOMAIN U = DOMAIN T \cup Created19 /\ \A t \in DOMAIN T : U[t] = T[t] BY Schema19
<1>3. DOMAIN T = {"jobs", "datasets", "rag_collections", "rag_documents"} BY Schema18
<1>4. \A t \in DOMAIN U : \A q \in U[t].parents : <<t, q>> \in References
  <2>1. 19 \in 0 .. 22 OBVIOUS
  <2>. QED BY <2>1, References22
<1>5. Created19 \subseteq DOMAIN U /\ "evaluation_questions" \notin DOMAIN U
      /\ DOMAIN T = DOMAIN U \ Created19
  BY <1>2, <1>3 DEF Created19
<1>. HIDE DEF T, U
<1>6. Len(st) = 7 /\ DropOrder(U, st, 7) /\ {st[j].table : j \in 1 .. 7} = Created19
  BY <1>4, <1>5, GraphDrops
<1>. HIDE DEF st
<1>7. 7 \in Nat /\ DOMAIN T = DOMAIN U \ {st[j].table : j \in 1 .. 7} BY <1>5, <1>6
<1>8. Leads(U, st, T) BY <1>1, <1>2, <1>6, <1>7, DropsBack
<1>. QED BY <1>8 DEF T, U, st

\* The downgrade of 20260607_0016 creates the fine-tuning tables as they were.
LEMMA Recreations ==
    ASSUME NEW T, FineTuning \cap DOMAIN T = {}, "jobs" \in DOMAIN T
    PROVE  Creations(T, R20260607_0016.down, 12)
<1>. DEFINE st == R20260607_0016.down
<1>1. /\ Creating(st[1], "ft_datasets") /\ Indexing(st[7], "ft_datasets")
      /\ Creating(st[2], "ft_dataset_versions") /\ Indexing(st[8], "ft_dataset_versions")
      /\ Creating(st[3], "ft_dataset_rows") /\ Indexing(st[9], "ft_dataset_rows")
      /\ Creating(st[4], "ft_training_jobs") /\ Indexing(st[10], "ft_training_jobs")
      /\ Creating(st[5], "ft_model_artifacts") /\ Indexing(st[11], "ft_model_artifacts")
      /\ Creating(st[6], "model_registry") /\ Indexing(st[12], "model_registry")
  BY StatementsAgain
<1>2. /\ st[1].parents = {} /\ st[2].parents = {"ft_datasets"}
      /\ st[3].parents = {"ft_dataset_versions"}
      /\ st[4].parents = {"ft_dataset_versions", "jobs"}
      /\ st[5].parents = {"ft_training_jobs"} /\ st[6].parents = {"ft_model_artifacts"}
  BY StatementsAgain
<1>. HIDE DEF st
<1>3. /\ st[1].table = "ft_datasets" /\ st[2].table = "ft_dataset_versions"
      /\ st[3].table = "ft_dataset_rows" /\ st[4].table = "ft_training_jobs"
      /\ st[5].table = "ft_model_artifacts" /\ st[6].table = "model_registry"
      /\ st[7].table = "ft_datasets" /\ st[8].table = "ft_dataset_versions"
      /\ st[9].table = "ft_dataset_rows" /\ st[10].table = "ft_training_jobs"
      /\ st[11].table = "ft_model_artifacts" /\ st[12].table = "model_registry"
  BY <1>1 DEF Creating, Indexing
<1>4. \A i \in {1, 2, 3, 4, 5, 6} : st[i].do = "create" /\ ~st[i].guarded
  BY <1>1 DEF Creating
<1>5. \A i \in {7, 8, 9, 10, 11, 12} :
         st[i].do = "index" /\ ~st[i].guarded /\ st[i].parents = {}
  BY <1>1 DEF Indexing
<1>6. ASSUME NEW i \in {1, 2, 3, 4, 5, 6}
      PROVE  /\ st[i].table \notin DOMAIN T
             /\ \A j \in 1 .. i - 1 : st[j].table # st[i].table
  BY <1>3 DEF FineTuning
<1>7. ASSUME NEW i \in {1, 2, 3, 4, 5, 6}, NEW q \in st[i].parents
      PROVE  q \in DOMAIN T \/ \E j \in 1 .. i - 1 : st[j].table = q
  <2>1. CASE i = 1 BY <1>2, <2>1
  <2>2. CASE i = 2
    <3>1. q = st[1].table /\ 1 \in 1 .. i - 1 BY <1>2, <1>3, <2>2
    <3>. QED BY <3>1
  <2>3. CASE i = 3
    <3>1. q = st[2].table /\ 2 \in 1 .. i - 1 BY <1>2, <1>3, <2>3
    <3>. QED BY <3>1
  <2>4. CASE i = 4
    <3>1. q \in {st[2].table, "jobs"} /\ 2 \in 1 .. i - 1 BY <1>2, <1>3, <2>4
    <3>. QED BY <3>1
  <2>5. CASE i = 5
    <3>1. q = st[4].table /\ 4 \in 1 .. i - 1 BY <1>2, <1>3, <2>5
    <3>. QED BY <3>1
  <2>6. CASE i = 6
    <3>1. q = st[5].table /\ 5 \in 1 .. i - 1 BY <1>2, <1>3, <2>6
    <3>. QED BY <3>1
  <2>. QED BY <2>1, <2>2, <2>3, <2>4, <2>5, <2>6
<1>8. ASSUME NEW i \in {7, 8, 9, 10, 11, 12}
      PROVE  /\ \E j \in 1 .. i - 1 : st[j].table = st[i].table /\ st[j].do = "create"
             /\ \A j \in 1 .. i - 1 : st[j].table = st[i].table => st[j].do = "create"
  <2>1. i - 6 \in {1, 2, 3, 4, 5, 6} /\ i - 6 \in 1 .. i - 1 OBVIOUS
  <2>2. st[i - 6].table = st[i].table /\ st[i - 6].do = "create"
    <3>1. st[i - 6].do = "create" BY <1>4, <2>1
    <3>2. st[i - 6].table = st[i].table BY <1>3
    <3>. QED BY <3>1, <3>2
  <2>3. ASSUME NEW j \in 1 .. i - 1, st[j].table = st[i].table PROVE st[j].do = "create"
    <3>1. j \in {1, 2, 3, 4, 5, 6, 7, 8, 9, 10, 11} OBVIOUS
    <3>2. CASE j \in {1, 2, 3, 4, 5, 6} BY <1>4, <3>2
    <3>3. CASE j \in {7, 8, 9, 10, 11} BY <1>3, <2>3, <3>3
    <3>. QED BY <3>1, <3>2, <3>3
  <2>. QED BY <2>1, <2>2, <2>3
<1>9. 1 .. 12 = {1, 2, 3, 4, 5, 6} \cup {7, 8, 9, 10, 11, 12} OBVIOUS
<1>. DEFINE Fresh(i) ==
                /\ st[i].do = "create" /\ st[i].table \notin DOMAIN T
                /\ \A j \in 1 .. i - 1 : st[j].table # st[i].table
                /\ \A q \in st[i].parents :
                       q \in DOMAIN T \/ \E j \in 1 .. i - 1 : st[j].table = q
            Index(i) ==
                /\ st[i].do = "index" /\ st[i].parents = {}
                /\ \E j \in 1 .. i - 1 : st[j].table = st[i].table /\ st[j].do = "create"
                /\ \A j \in 1 .. i - 1 : st[j].table = st[i].table => st[j].do = "create"
<1>10. \A i \in {1, 2, 3, 4, 5, 6} : ~st[i].guarded /\ Fresh(i) BY <1>4, <1>6, <1>7
<1>11. \A i \in {7, 8, 9, 10, 11, 12} : ~st[i].guarded /\ Index(i) BY <1>5, <1>8
<1>12. \A i \in 1 .. 12 : ~st[i].guarded /\ (Fresh(i) \/ Index(i))
  <2>. HIDE DEF Fresh, Index
  <2>. QED BY <1>9, <1>10, <1>11
<1>. QED BY <1>12 DEF Creations, st

\* The fine-tuning tables at revision 17.
LEMMA FineTuning17 ==
    LET T == SchemaAt(17)
        created == R20260417_0010.up
        added == R20260417_0011.up
        dated == Rb4aadc4ac8f6.up
        c == created[11].columns \cup added[2].columns
        x == created[12].indexes
    IN  /\ T["ft_datasets"] = New(created, 1, 2)
        /\ T["ft_dataset_versions"] = New(created, 3, 4)
        /\ T["ft_dataset_rows"] = New(created, 5, 6)
        /\ T["ft_training_jobs"] =
               Table((created[7].columns \cup added[1].columns) \cup dated[2].columns,
                     created[8].indexes, created[7].parents)
        /\ T["ft_model_artifacts"] =
               Table(created[9].columns \cup dated[1].columns, created[10].indexes,
                     created[9].parents)
        /\ T["model_registry"] =
               Table((c \ {"ollama_model_name"}) \cup {"serving_model_name"},
                     (x \ {"ollama_model_name"}) \cup {"serving_model_name"},
                     created[11].parents)
<1>1. \A t \in Created11 : SchemaAt(17)[t] = SchemaAt(16)[t] BY Schema17
<1>2. \A t \in Created11 : t \in DOMAIN SchemaAt(15)
  BY Names16, Schema16
<1>3. \A t \in Created11 : t # "ft_model_artifacts" /\ t # "ft_training_jobs" =>
          SchemaAt(16)[t] = SchemaAt(15)[t]
  BY <1>2, Schema16
<1>4. \A t \in {"ft_datasets", "ft_dataset_versions", "ft_dataset_rows"} :
          SchemaAt(15)[t] = SchemaAt(11)[t]
  <2>. SUFFICES ASSUME NEW t \in {"ft_datasets", "ft_dataset_versions", "ft_dataset_rows"}
                PROVE  SchemaAt(15)[t] = SchemaAt(11)[t]
    OBVIOUS
  <2>1. t \in DOMAIN SchemaAt(13) /\ t \notin PLC /\ t # "jobs"
    BY Names13, PLCTables DEF Created11
  <2>2. SchemaAt(14)[t] = SchemaAt(13)[t] /\ t \in DOMAIN SchemaAt(14) BY <2>1, Untouched14
  <2>3. SchemaAt(15)[t] = SchemaAt(14)[t] BY <2>2, Schema15
  <2>4. t \in DOMAIN SchemaAt(11) BY Schema11 DEF Created11
  <2>5. SchemaAt(13)[t] = SchemaAt(11)[t] BY <2>4, Schema12, Schema13
  <2>. QED BY <2>2, <2>3, <2>5
<1>5. /\ SchemaAt(17)["ft_datasets"] = SchemaAt(11)["ft_datasets"]
      /\ SchemaAt(17)["ft_dataset_versions"] = SchemaAt(11)["ft_dataset_versions"]
      /\ SchemaAt(17)["ft_dataset_rows"] = SchemaAt(11)["ft_dataset_rows"]
      /\ SchemaAt(17)["model_registry"] = SchemaAt(15)["model_registry"]
      /\ SchemaAt(17)["ft_training_jobs"] = SchemaAt(16)["ft_training_jobs"]
      /\ SchemaAt(17)["ft_model_artifacts"] = SchemaAt(16)["ft_model_artifacts"]
  BY <1>1, <1>3, <1>4 DEF Created11
<1>6. /\ SchemaAt(11)["ft_datasets"] = New(R20260417_0010.up, 1, 2)
      /\ SchemaAt(11)["ft_dataset_versions"] = New(R20260417_0010.up, 3, 4)
      /\ SchemaAt(11)["ft_dataset_rows"] = New(R20260417_0010.up, 5, 6)
  BY Schema11
<1>. QED BY <1>5, <1>6, Schema15, Schema16

LEMMA Down18 == Leads(SchemaAt(18), R20260607_0016.down, SchemaAt(17))
<1>. DEFINE T == SchemaAt(17)
            U == SchemaAt(18)
            st == R20260607_0016.down
<1>1. Sound(T) /\ Sound(U) BY Schema17, Schema18 DEF Reached
<1>2. /\ DOMAIN T = DOMAIN U \cup FineTuning /\ FineTuning \cap DOMAIN U = {}
      /\ "jobs" \in DOMAIN U /\ \A t \in DOMAIN U : U[t] = T[t]
  BY Schema17, Schema18 DEF FineTuning, Created11
<1>3. Len(st) = 12 BY StatementsAgain
<1>. HIDE DEF T, U
<1>4. Creations(U, st, 12) BY <1>2, Recreations
<1>5. /\ Creating(st[1], "ft_datasets") /\ Indexing(st[7], "ft_datasets")
      /\ Creating(st[2], "ft_dataset_versions") /\ Indexing(st[8], "ft_dataset_versions")
      /\ Creating(st[3], "ft_dataset_rows") /\ Indexing(st[9], "ft_dataset_rows")
      /\ Creating(st[4], "ft_training_jobs") /\ Indexing(st[10], "ft_training_jobs")
      /\ Creating(st[5], "ft_model_artifacts") /\ Indexing(st[11], "ft_model_artifacts")
      /\ Creating(st[6], "model_registry") /\ Indexing(st[12], "model_registry")
  BY StatementsAgain
<1>6. /\ T["ft_datasets"] = New(st, 1, 7) /\ T["ft_dataset_versions"] = New(st, 2, 8)
      /\ T["ft_dataset_rows"] = New(st, 3, 9) /\ T["ft_training_jobs"] = New(st, 4, 10)
      /\ T["ft_model_artifacts"] = New(st, 5, 11) /\ T["model_registry"] = New(st, 6, 12)
  BY FineTuning17, ColumnsAgain, StatementsAgain, Statements11 DEF New, T
<1>. HIDE DEF st
<1>7. PICK W : LeadsTo(U, st, 12, W) /\ Adds(U, st, 12, W)
  <2>1. 12 \in Nat OBVIOUS
  <2>. QED BY <1>1, <1>4, <2>1, Creates
<1>8. Leads(U, st, W) /\ Sound(W) /\ \A t \in DOMAIN U : W[t] = U[t]
  BY <1>3, <1>7 DEF Leads, Adds
<1>9. /\ W["ft_datasets"] = New(st, 1, 7) /\ W["ft_dataset_versions"] = New(st, 2, 8)
      /\ W["ft_dataset_rows"] = New(st, 3, 9) /\ W["ft_training_jobs"] = New(st, 4, 10)
      /\ W["ft_model_artifacts"] = New(st, 5, 11) /\ W["model_registry"] = New(st, 6, 12)
  <2>1. {1, 2, 3, 4, 5, 6, 7, 8, 9, 10, 11, 12} \subseteq 1 .. 12 OBVIOUS
  <2>. QED BY <1>5, <1>7, <2>1, NewIs
<1>10. DOMAIN W = DOMAIN T
  <2>1. DOMAIN W = DOMAIN U \cup {st[j].table : j \in 1 .. 12} BY <1>7 DEF Adds
  <2>2. 1 .. 12 = {1, 2, 3, 4, 5, 6, 7, 8, 9, 10, 11, 12} OBVIOUS
  <2>3. /\ st[1].table = "ft_datasets" /\ st[2].table = "ft_dataset_versions"
        /\ st[3].table = "ft_dataset_rows" /\ st[4].table = "ft_training_jobs"
        /\ st[5].table = "ft_model_artifacts" /\ st[6].table = "model_registry"
        /\ st[7].table = "ft_datasets" /\ st[8].table = "ft_dataset_versions"
        /\ st[9].table = "ft_dataset_rows" /\ st[10].table = "ft_training_jobs"
        /\ st[11].table = "ft_model_artifacts" /\ st[12].table = "model_registry"
    BY <1>5 DEF Creating, Indexing
  <2>4. {st[j].table : j \in 1 .. 12} = FineTuning BY <2>2, <2>3 DEF FineTuning
  <2>. QED BY <1>2, <2>1, <2>4
<1>11. \A t \in DOMAIN T : W[t] = T[t] BY <1>2, <1>6, <1>8, <1>9 DEF FineTuning
<1>12. Leads(U, st, T) BY <1>1, <1>8, <1>10, <1>11, LeadsBack
<1>. QED BY <1>12 DEF T, U, st

-----------------------------------------------------------------------------
(* The whole chain, in both directions                                     *)

\* Upgrading to revision n runs on the schema before it,
Raises(n) == Leads(SchemaAt(n - 1), Chain[n].up, SchemaAt(n))

LEMMA EachRaises == \A n \in 1 .. 22 : Raises(n)
<1>. USE DEF Reached, Raises
<1>1. Raises(1) BY Schema1
<1>2. Raises(2) BY Schema2
<1>3. Raises(3) BY Schema3
<1>4. Raises(4) BY Schema4
<1>5. Raises(5) BY Schema5
<1>6. Raises(6) BY Schema6
<1>7. Raises(7) BY Schema7
<1>8. Raises(8) BY Schema8
<1>9. Raises(9) BY Schema9
<1>10. Raises(10) BY Schema10
<1>11. Raises(11) BY Schema11
<1>12. Raises(12) BY Schema12
<1>13. Raises(13) BY Schema13
<1>14. Raises(14) BY Schema14
<1>15. Raises(15) BY Schema15
<1>16. Raises(16) BY Schema16
<1>17. Raises(17) BY Schema17
<1>18. Raises(18) BY Schema18
<1>19. Raises(19) BY Schema19
<1>20. Raises(20) BY Schema20
<1>21. Raises(21) BY Schema21
<1>22. Raises(22) BY Schema22
<1>. HIDE DEF Raises, Reached
<1>23. 1 .. 22 = {1, 2, 3, 4, 5, 6, 7, 8, 9, 10, 11, 12, 13, 14, 15, 16, 17, 18, 19, 20, 21, 22} OBVIOUS
<1>. QED BY <1>1, <1>2, <1>3, <1>4, <1>5, <1>6, <1>7, <1>8, <1>9, <1>10, <1>11, <1>12,
          <1>13, <1>14, <1>15, <1>16, <1>17, <1>18, <1>19, <1>20, <1>21, <1>22, <1>23

\* and its downgrade leads back: only 20260523_0013 does not restore anything.
Lowers(n) == Leads(SchemaAt(n), Chain[n].down, SchemaAt(n - 1))

LEMMA EachLowers == \A n \in 1 .. 22 : n # 14 => Lowers(n)
<1>. USE ChainIs DEF Lowers
<1>1. Lowers(1) BY Down1
<1>2. Lowers(2) BY Down2
<1>3. Lowers(3) BY Down3
<1>4. Lowers(4) BY Down4
<1>5. Lowers(5) BY Down5
<1>6. Lowers(6) BY Down6
<1>7. Lowers(7) BY Down7
<1>8. Lowers(8) BY Down8
<1>9. Lowers(9) BY Down9
<1>10. Lowers(10) BY Down10
<1>11. Lowers(11) BY Down11
<1>12. Lowers(12) BY Down12
<1>13. Lowers(13) BY Down13
<1>15. Lowers(15) BY Down15
<1>16. Lowers(16) BY Down16
<1>17. Lowers(17) BY Down17
<1>18. Lowers(18) BY Down18
<1>19. Lowers(19) BY Down19
<1>20. Lowers(20) BY Down20
<1>21. Lowers(21) BY Down21
<1>22. Lowers(22) BY Down22
<1>. HIDE DEF Lowers
<1>23. 1 .. 22 = {1, 2, 3, 4, 5, 6, 7, 8, 9, 10, 11, 12, 13, 14, 15, 16, 17, 18, 19, 20, 21, 22} OBVIOUS
<1>. QED BY <1>1, <1>2, <1>3, <1>4, <1>5, <1>6, <1>7, <1>8, <1>9, <1>10, <1>11, <1>12,
          <1>13, <1>15, <1>16, <1>17, <1>18, <1>19, <1>20, <1>21, <1>22, <1>23

LEMMA Lowers14 == /\ Leads(SchemaAt(14), Chain[14].down, SchemaAt(14))
                  /\ SchemaAt(14) = Retired(SchemaAt(13))
<1>1. Len(Chain[14].down) = 0 BY ChainIs DEF R20260523_0013
<1>2. Leads(SchemaAt(14), Chain[14].down, SchemaAt(14)) BY <1>1, LeadsNowhere DEF Leads
<1>. QED BY <1>2, Schema14 DEF Reached
-----------------------------------------------------------------------------
(* The chain on the retired schemas                                        *)

\* The revisions between 20260417_0010 and 20260523_0012 do not touch the PLC
\* domain,
Apart(st) == Len(st) \in Nat /\ \A i \in 1 .. Len(st) : Outside(st[i])

LEMMA Apart11 == Apart(R20260417_0010.up) /\ Apart(R20260417_0010.down)
<1>. DEFINE up == R20260417_0010.up
            down == R20260417_0010.down
<1>1. /\ Len(up) = 16
      /\ Creating(up[1], "ft_datasets") /\ Indexing(up[2], "ft_datasets")
      /\ Creating(up[3], "ft_dataset_versions") /\ Indexing(up[4], "ft_dataset_versions")
      /\ Creating(up[5], "ft_dataset_rows") /\ Indexing(up[6], "ft_dataset_rows")
      /\ Creating(up[7], "ft_training_jobs") /\ Indexing(up[8], "ft_training_jobs")
      /\ Creating(up[9], "ft_model_artifacts") /\ Indexing(up[10], "ft_model_artifacts")
      /\ Creating(up[11], "model_registry") /\ Indexing(up[12], "model_registry")
      /\ Creating(up[13], "rag_collections") /\ Indexing(up[14], "rag_collections")
      /\ Creating(up[15], "rag_documents") /\ Indexing(up[16], "rag_documents")
      /\ up[1].parents = {} /\ up[3].parents = {"ft_datasets"}
      /\ up[5].parents = {"ft_dataset_versions"}
      /\ up[7].parents = {"ft_dataset_versions", "jobs"}
      /\ up[9].parents = {"ft_training_jobs"} /\ up[11].parents = {"ft_model_artifacts"}
      /\ up[13].parents = {} /\ up[15].parents = {"rag_collections"}
  BY Statements11
<1>2. Len(down) = 16 /\ \A i \in 1 .. 16 : Undoes(up[i], down[16 + 1 - i]) BY Undoes11
<1>. HIDE DEF up, down
<1>3. 1 .. 16 = {1, 2, 3, 4, 5, 6, 7, 8, 9, 10, 11, 12, 13, 14, 15, 16} OBVIOUS
<1>4. \A i \in {1, 3, 5, 7, 9, 11, 13, 15} : Outside(up[i])
  BY <1>1, PLCTables DEF Outside, Creating
<1>5. \A i \in {2, 4, 6, 8, 10, 12, 14, 16} : Outside(up[i])
  BY <1>1, PLCTables DEF Outside, Indexing
<1>6. \A i \in 1 .. 16 : Outside(up[i]) BY <1>3, <1>4, <1>5
<1>7. ASSUME NEW j \in 1 .. 16 PROVE Outside(down[j])
  <2>. DEFINE i == 16 + 1 - j
  <2>1. i \in 1 .. 16 /\ 16 + 1 - i = j OBVIOUS
  <2>2. Undoes(up[i], down[j]) BY <1>2, <2>1
  <2>3. Outside(up[i]) BY <1>6, <2>1
  <2>. HIDE DEF i
  <2>. QED BY <2>2, <2>3 DEF Undoes, Mirrors, Outside
<1>. QED BY <1>1, <1>2, <1>6, <1>7 DEF Apart, up, down

LEMMA Apart12 == Apart(R20260417_0011.up) /\ Apart(R20260417_0011.down)
<1>. DEFINE up == R20260417_0011.up
            down == R20260417_0011.down
<1>1. /\ Len(up) = 2 /\ Adding(up[1], "ft_training_jobs") /\ Adding(up[2], "model_registry")
  BY Alterations
<1>2. Len(down) = 2 BY DEF R20260417_0011
<1>3. Undoes(up[1], down[2]) BY UndoesColumns DEF R20260417_0011
<1>4. Undoes(up[2], down[1]) BY UndoesColumns DEF R20260417_0011
<1>. HIDE DEF up, down
<1>5. Outside(up[1]) /\ Outside(up[2]) BY <1>1, PLCTables DEF Adding, Outside
<1>6. Outside(down[1]) /\ Outside(down[2])
  BY <1>3, <1>4, <1>5 DEF Undoes, Mirrors, Outside
<1>. QED BY <1>1, <1>2, <1>5, <1>6 DEF Apart, up, down

LEMMA Apart13 == Apart(R20260523_0012.up) /\ Apart(R20260523_0012.down)
<1>1. Len(R20260523_0012.down) = 0 BY DEF R20260523_0012
<1>. QED BY <1>1, Data, PLCTables DEF Apart, Outside

LEMMA Sound22 == \A n \in 0 .. 22 : Sound(SchemaAt(n))
BY BuiltTidy DEF Tidy, SchemaAt

\* and do on a retired schema what they do on the schema.
LEMMA RetiredChain ==
    \A n \in 11 .. 13 :
        /\ Leads(Retired(SchemaAt(n - 1)), Chain[n].up, Retired(SchemaAt(n)))
        /\ Leads(Retired(SchemaAt(n)), Chain[n].down, Retired(SchemaAt(n - 1)))
<1>. SUFFICES ASSUME NEW n \in 11 .. 13
              PROVE  /\ Leads(Retired(SchemaAt(n - 1)), Chain[n].up, Retired(SchemaAt(n)))
                     /\ Leads(Retired(SchemaAt(n)), Chain[n].down, Retired(SchemaAt(n - 1)))
  OBVIOUS
<1>1. n \in {11, 12, 13} OBVIOUS
<1>2. Apart(Chain[n].up) /\ Apart(Chain[n].down)
  <2>1. CASE n = 11 BY <2>1, ChainIs, Apart11
  <2>2. CASE n = 12 BY <2>2, ChainIs, Apart12
  <2>3. CASE n = 13 BY <2>3, ChainIs, Apart13
  <2>. QED BY <1>1, <2>1, <2>2, <2>3
<1>3. n \in 1 .. 22 /\ n # 14 /\ n \in 0 .. 22 /\ n - 1 \in 0 .. 22 OBVIOUS
<1>4. Raises(n) /\ Lowers(n) BY <1>3, EachRaises, EachLowers
<1>5. Sound(SchemaAt(n)) /\ Sound(SchemaAt(n - 1)) BY <1>3, Sound22
<1>6. Leads(Retired(SchemaAt(n - 1)), Chain[n].up, Retired(SchemaAt(n)))
  BY <1>2, <1>4, <1>5, RetiredLeads DEF Raises, Apart
<1>7. Leads(Retired(SchemaAt(n)), Chain[n].down, Retired(SchemaAt(n - 1)))
  BY <1>2, <1>4, <1>5, RetiredLeads DEF Lowers, Apart
<1>. QED BY <1>6, <1>7

\* Statements whose guards find nothing leave the tables alone.
LEMMA NothingPresent ==
    ASSUME NEW T, NEW st, Len(st) \in Nat,
           \A i \in 1 .. Len(st) : st[i].guarded /\ ~Present(T, st[i])
    PROVE  Leads(T, st, T)
<1>. DEFINE n == Len(st)
            p == [i \in 1 .. n + 1 |-> T]
<1>1. p[1] = T /\ p[n + 1] = T OBVIOUS
<1>2. \A i \in 1 .. n : p[i] = T /\ p[i + 1] = T OBVIOUS
<1>. HIDE DEF p
<1>3. \A i \in 1 .. n : Runs(p[i], st[i], p[i + 1]) BY <1>2 DEF Runs
<1>. QED BY <1>1, <1>3 DEF Leads, LeadsTo

\* 20260523_0013 finds nothing to drop in a retired schema.
LEMMA RetiredTwice ==
    ASSUME NEW T, Sound(T), "jobs" \in DOMAIN T
    PROVE  Leads(Retired(T), R20260523_0013.up, Retired(T))
<1>. DEFINE st == R20260523_0013.up
            R == Retired(T)
<1>1. /\ DOMAIN R \cap PLC = {}
      /\ "plc_suite_id" \notin R["jobs"].columns
      /\ "plc_suite_status_created_at" \notin R["jobs"].indexes
  <2>1. /\ DOMAIN R = DOMAIN T \ PLC
        /\ R["jobs"] = [columns |-> T["jobs"].columns \ {"plc_suite_id"},
                        indexes |-> T["jobs"].indexes \ {"plc_suite_status_created_at"},
                        parents |-> T["jobs"].parents]
    BY RetiredIs DEF Sound
  <2>. HIDE DEF R
  <2>. QED BY <2>1
<1>2. /\ Len(st) = 10
      /\ \A i \in 1 .. 8 : st[i].table \in PLC /\ st[i].guarded
  <2>1. 1 .. 8 = {1, 2, 3, 4, 5, 6, 7, 8} OBVIOUS
  <2>2. /\ st[1].table = "plc_test_run_io_logs" /\ st[2].table = "plc_test_run_items"
        /\ st[3].table = "plc_test_runs" /\ st[4].table = "plc_llm_suggestions"
        /\ st[5].table = "plc_testcases" /\ st[6].table = "plc_execution_profiles"
        /\ st[7].table = "plc_targets" /\ st[8].table = "plc_test_suites"
        /\ st[1].guarded /\ st[2].guarded /\ st[3].guarded /\ st[4].guarded
        /\ st[5].guarded /\ st[6].guarded /\ st[7].guarded /\ st[8].guarded
    BY Retirement, GuardedDropIs
  <2>3. Len(st) = 10 BY Retirement
  <2>. HIDE DEF st
  <2>. QED BY <2>1, <2>2, <2>3, PLCTables
<1>3. /\ st[9].do = "unindex" /\ st[9].table = "jobs" /\ st[9].guarded
      /\ st[9].indexes = {"plc_suite_status_created_at"}
      /\ st[10].do = "remove" /\ st[10].table = "jobs" /\ st[10].guarded
      /\ st[10].columns = {"plc_suite_id"}
  BY Retirement, GuardedIs
<1>. HIDE DEF st, R
<1>4. \A i \in 1 .. 8 : st[i].guarded /\ ~Present(R, st[i]) BY <1>1, <1>2 DEF Present
<1>5. st[9].guarded /\ ~Present(R, st[9]) BY <1>1, <1>3 DEF Present
<1>6. st[10].guarded /\ ~Present(R, st[10]) BY <1>1, <1>3 DEF Present
<1>7. \A i \in 1 .. 10 : i \in 1 .. 8 \/ i = 9 \/ i = 10 OBVIOUS
<1>8. \A i \in 1 .. Len(st) : st[i].guarded /\ ~Present(R, st[i])
  BY <1>2, <1>4, <1>5, <1>6, <1>7
<1>9. Len(st) \in Nat BY <1>2
<1>10. Leads(R, st, R) BY <1>8, <1>9, NothingPresent
<1>. QED BY <1>10 DEF st, R

\* 20260415_0010 cannot be taken back there: its table is gone.
LEMMA RetiredStops ==
    ASSUME NEW U
    PROVE  ~Leads(Retired(SchemaAt(10)), Chain[10].down, U)
<1>. SUFFICES ASSUME Leads(Retired(SchemaAt(10)), Chain[10].down, U) PROVE FALSE OBVIOUS
<1>. DEFINE st == Chain[10].down
            R == Retired(SchemaAt(10))
<1>1. /\ Len(st) = 2 /\ st[1] = DropIndexes("plc_llm_suggestions", {"type_status"})
  BY ChainIs DEF R20260415_0010
<1>2. "plc_llm_suggestions" \notin DOMAIN R
  <2>1. 10 \in 0 .. 22 OBVIOUS
  <2>2. Shaped(SchemaAt(10)) BY <2>1, Sound22 DEF Sound
  <2>3. DOMAIN R = DOMAIN SchemaAt(10) \ PLC BY <2>2, RetiredIs
  <2>. QED BY <2>3, PLCTables
<1>3. PICK p : p[1] = R /\ \A i \in 1 .. Len(st) : Runs(p[i], st[i], p[i + 1])
  BY DEF Leads, LeadsTo
<1>. HIDE DEF st, R
<1>4. Runs(R, st[1], p[2]) BY <1>1, <1>3
<1>5. ~st[1].guarded /\ st[1].table = "plc_llm_suggestions" /\ st[1].do = "unindex"
  BY <1>1, DropIndexesIs
<1>. QED BY <1>2, <1>4, <1>5 DEF Runs, Fits

-----------------------------------------------------------------------------
(* The schema follows the revision                                         *)

LEMMA Identifiers ==
    /\ Chain[1].id = "20260227_0001" /\ Chain[2].id = "20260227_0002"
    /\ Chain[3].id = "20260302_0003" /\ Chain[4].id = "20260308_0004"
    /\ Chain[5].id = "20260411_0005" /\ Chain[6].id = "20260412_0006"
    /\ Chain[7].id = "20260412_0007" /\ Chain[8].id = "20260412_0008"
    /\ Chain[9].id = "20260415_0009" /\ Chain[10].id = "20260415_0010"
    /\ Chain[11].id = "20260417_0010" /\ Chain[12].id = "20260417_0011"
    /\ Chain[13].id = "20260523_0012" /\ Chain[14].id = "20260523_0013"
    /\ Chain[15].id = "20260523_0014" /\ Chain[16].id = "b4aadc4ac8f6"
    /\ Chain[17].id = "20260525_0015" /\ Chain[18].id = "20260607_0016"
    /\ Chain[19].id = "20260607_0017" /\ Chain[20].id = "20260607_0018"
    /\ Chain[21].id = "20260607_0019" /\ Chain[22].id = "20260609_0020"
<1>1. Chain[1].id = "20260227_0001" BY ChainIs DEF R20260227_0001
<1>2. Chain[2].id = "20260227_0002" BY ChainIs DEF R20260227_0002
<1>3. Chain[3].id = "20260302_0003" BY ChainIs DEF R20260302_0003
<1>4. Chain[4].id = "20260308_0004" BY ChainIs DEF R20260308_0004
<1>5. Chain[5].id = "20260411_0005" BY ChainIs DEF R20260411_0005
<1>6. Chain[6].id = "20260412_0006" BY ChainIs DEF R20260412_0006
<1>7. Chain[7].id = "20260412_0007" BY ChainIs DEF R20260412_0007
<1>8. Chain[8].id = "20260412_0008" BY ChainIs DEF R20260412_0008
<1>9. Chain[9].id = "20260415_0009" BY ChainIs DEF R20260415_0009
<1>10. Chain[10].id = "20260415_0010" BY ChainIs DEF R20260415_0010
<1>11. Chain[11].id = "20260417_0010" BY ChainIs DEF R20260417_0010
<1>12. Chain[12].id = "20260417_0011" BY ChainIs DEF R20260417_0011
<1>13. Chain[13].id = "20260523_0012" BY ChainIs DEF R20260523_0012
<1>14. Chain[14].id = "20260523_0013" BY ChainIs DEF R20260523_0013
<1>15. Chain[15].id = "20260523_0014" BY ChainIs DEF R20260523_0014
<1>16. Chain[16].id = "b4aadc4ac8f6" BY ChainIs DEF Rb4aadc4ac8f6
<1>17. Chain[17].id = "20260525_0015" BY ChainIs DEF R20260525_0015
<1>18. Chain[18].id = "20260607_0016" BY ChainIs DEF R20260607_0016
<1>19. Chain[19].id = "20260607_0017" BY ChainIs DEF R20260607_0017
<1>20. Chain[20].id = "20260607_0018" BY ChainIs DEF R20260607_0018
<1>21. Chain[21].id = "20260607_0019" BY ChainIs DEF R20260607_0019
<1>22. Chain[22].id = "20260609_0020" BY ChainIs DEF R20260609_0020
<1>. QED BY <1>1, <1>2, <1>3, <1>4, <1>5, <1>6, <1>7, <1>8, <1>9, <1>10, <1>11, <1>12,
          <1>13, <1>14, <1>15, <1>16, <1>17, <1>18, <1>19, <1>20, <1>21, <1>22

\* The revisions the properties name.
LEMMA Numbers ==
    /\ Number("20260412_0007") = 7 /\ Number("20260415_0009") = 9
    /\ Number("20260415_0010") = 10 /\ Number("20260417_0010") = 11
    /\ Number("20260523_0013") = 14
<1>1. 1 .. 22 = {1, 2, 3, 4, 5, 6, 7, 8, 9, 10, 11, 12, 13, 14, 15, 16, 17, 18, 19, 20, 21, 22} OBVIOUS
<1>2. /\ \A n \in 1 .. 22 : Chain[n].id = "20260412_0007" <=> n = 7
      /\ \A n \in 1 .. 22 : Chain[n].id = "20260415_0009" <=> n = 9
      /\ \A n \in 1 .. 22 : Chain[n].id = "20260415_0010" <=> n = 10
      /\ \A n \in 1 .. 22 : Chain[n].id = "20260417_0010" <=> n = 11
      /\ \A n \in 1 .. 22 : Chain[n].id = "20260523_0013" <=> n = 14
  BY <1>1, Identifiers
<1>3. /\ 7 \in 1 .. 22 /\ 9 \in 1 .. 22 /\ 10 \in 1 .. 22 /\ 11 \in 1 .. 22 /\ 14 \in 1 .. 22
  OBVIOUS
<1>. QED BY <1>2, <1>3, TwentyTwo DEF Number

\* The tables T of a database at revision v: those the chain makes, or those
\* without the PLC domain.
SchemaOK(v, T) ==
    T = SchemaAt(v) \/ (v \in 10 .. 13 /\ T = Retired(SchemaAt(v)))

\* What a revision leads to, both ways.
LEMMA Lengths == \A n \in 1 .. 22 : Len(Chain[n].up) \in Nat /\ Len(Chain[n].down) \in Nat
BY ChainForward, ChainBackward, TwentyTwo

LEMMA OneSchema ==
    ASSUME NEW T, NEW st, Len(st) \in Nat, NEW U, Leads(T, st, U), NEW V, Leads(T, st, V)
    PROVE  V = U
<1>. DEFINE n == Len(st)
<1>1. n \in Nat /\ LeadsTo(T, st, n, U) /\ LeadsTo(T, st, n, V) BY DEF Leads
<1>. HIDE DEF n
<1>. QED BY <1>1, LeadsUnique

\* What the upgrade and the downgrade of revision n do to such tables.
LEMMA Upgraded ==
    ASSUME NEW n \in 1 .. 22, NEW T, SchemaOK(n - 1, T)
    PROVE  \E V : Leads(T, Chain[n].up, V) /\ SchemaOK(n, V)
<1>1. CASE T = SchemaAt(n - 1)
  <2>1. Leads(T, Chain[n].up, SchemaAt(n)) BY <1>1, EachRaises DEF Raises
  <2>. QED BY <2>1 DEF SchemaOK
<1>2. CASE n - 1 \in 10 .. 13 /\ T = Retired(SchemaAt(n - 1))
  <2>1. CASE n \in 11 .. 13
    <3>1. Leads(T, Chain[n].up, Retired(SchemaAt(n))) BY <1>2, <2>1, RetiredChain
    <3>2. n \in 10 .. 13 BY <2>1
    <3>. QED BY <3>1, <3>2 DEF SchemaOK
  <2>2. CASE n = 14
    <3>1. T = Retired(SchemaAt(13)) BY <1>2, <2>2
    <3>2. 13 \in 0 .. 22 OBVIOUS
    <3>3. Sound(SchemaAt(13)) /\ "jobs" \in DOMAIN SchemaAt(13) BY <3>2, Sound22, Names13
    <3>4. Leads(T, Chain[14].up, T) BY <3>1, <3>3, ChainIs, RetiredTwice
    <3>5. T = SchemaAt(14) BY <3>1, Lowers14
    <3>. QED BY <2>2, <3>4, <3>5 DEF SchemaOK
  <2>. QED BY <1>2, <2>1, <2>2
<1>. QED BY <1>1, <1>2 DEF SchemaOK

LEMMA Downgraded ==
    ASSUME NEW n \in 1 .. 22, NEW T, SchemaOK(n, T),
           ~(n = 10 /\ T = Retired(SchemaAt(10)))
    PROVE  \E V : Leads(T, Chain[n].down, V) /\ SchemaOK(n - 1, V)
<1>1. CASE T = SchemaAt(n) /\ n # 14
  <2>1. Leads(T, Chain[n].down, SchemaAt(n - 1)) BY <1>1, EachLowers DEF Lowers
  <2>. QED BY <2>1 DEF SchemaOK
<1>2. CASE T = SchemaAt(n) /\ n = 14
  <2>1. Leads(T, Chain[n].down, Retired(SchemaAt(13))) BY <1>2, Lowers14
  <2>2. n - 1 = 13 /\ 13 \in 10 .. 13 BY <1>2
  <2>. QED BY <2>1, <2>2 DEF SchemaOK
<1>3. CASE n \in 10 .. 13 /\ T = Retired(SchemaAt(n))
  <2>1. n \in 11 .. 13 BY <1>3
  <2>2. Leads(T, Chain[n].down, Retired(SchemaAt(n - 1))) BY <1>3, <2>1, RetiredChain
  <2>3. n - 1 \in 10 .. 13 BY <2>1
  <2>. QED BY <2>2, <2>3 DEF SchemaOK
<1>. QED BY <1>1, <1>2, <1>3 DEF SchemaOK

\* The schema of the database and of a command; whoever uses the database
\* finds it at the head, and the rows upgrades insert are not there to stay.
SchemasOK ==
    /\ SchemaOK(db.version, db.tables)
    /\ tx.way # "none" => SchemaOK(tx.version, tx.tables)
    /\ api = "serving" \/ worker = "polling" => db.version = 22
    /\ db.rows \subseteq KnownRows

LEMMA SchemasInit == Init => SchemasOK
<1>. SUFFICES ASSUME Init PROVE SchemasOK OBVIOUS
<1>1. PICK n \in 0 .. HeadRevision, rows \in SUBSET KnownRows :
          db = [version |-> n, tables |-> SchemaAt(n), rows |-> rows]
  BY DEF Init
<1>2. tx.way = "none" BY DEF Init, NoTransaction
<1>. QED BY <1>1, <1>2 DEF Init, SchemasOK, SchemaOK

\* The command's tables after the next revision.
LEMMA AppliedSchema ==
    ASSUME CommandOK, RowsOK, SchemasOK, RevisionRuns
    PROVE  SchemaOK(tx'.version, tx'.tables)
<1>. DEFINE n == NextRevision
            st == NextStatements
            U == Applied.db.tables
<1>1. /\ Applied = Execute(tx, st) /\ Applied.ok /\ tx'.tables = U
      /\ tx.way \in {"up", "down"}
      /\ tx.way = "up" => tx'.version = tx.version + 1 /\ n = tx.version + 1
      /\ tx.way = "down" => tx'.version = tx.version - 1 /\ n = tx.version
  BY AppliedIs
<1>2. n \in 1 .. 22 BY NextRevisionIs DEF RevisionRuns
<1>3. tx.version \in 0 .. 22 /\ SchemaOK(tx.version, tx.tables)
  BY <1>1 DEF CommandOK, SchemasOK
<1>. HIDE DEF n, U
<1>4. CASE tx.way = "up"
  <2>1. st = Chain[n].up /\ tx.version = n - 1 BY <1>1, <1>2, <1>3, <1>4 DEF NextStatements, n
  <2>2. PICK V : Leads(tx.tables, Chain[n].up, V) /\ SchemaOK(n, V)
    BY <1>2, <1>3, <2>1, Upgraded
  <2>3. Leads(tx.tables, st, U) BY <1>1, <1>2, <2>1, Lengths, ExecuteLeads DEF U
  <2>4. U = V BY <1>2, <2>1, <2>2, <2>3, Lengths, OneSchema
  <2>. QED BY <1>1, <1>4, <2>2, <2>4
<1>5. CASE tx.way = "down"
  <2>1. st = Chain[n].down /\ tx.version = n BY <1>1, <1>5 DEF NextStatements, n
  <2>2. Leads(tx.tables, st, U) BY <1>1, <1>2, <2>1, Lengths, ExecuteLeads DEF U
  <2>3. ~(n = 10 /\ tx.tables = Retired(SchemaAt(10))) BY <2>1, <2>2, RetiredStops
  <2>4. PICK V : Leads(tx.tables, Chain[n].down, V) /\ SchemaOK(n - 1, V)
    BY <1>2, <1>3, <2>1, <2>3, Downgraded
  <2>5. U = V BY <1>2, <2>1, <2>2, <2>4, Lengths, OneSchema
  <2>. QED BY <1>1, <1>5, <2>1, <2>4, <2>5
<1>. QED BY <1>1, <1>4, <1>5

\* A database at the head has the models' tables.
LEMMA HeadSchema ==
    ASSUME NEW T, SchemaOK(22, T)
    PROVE  T = ModelTables
<1>1. 22 \notin 10 .. 13 OBVIOUS
<1>. QED BY <1>1, HeadIsModels DEF SchemaOK

LEMMA SchemasNext == CommandOK /\ RowsOK /\ SchemasOK /\ [Next]_vars => SchemasOK'
<1>. SUFFICES ASSUME CommandOK, RowsOK, SchemasOK, [Next]_vars PROVE SchemasOK' OBVIOUS
<1>1. ASSUME NEW way, NEW target, Begin(way, target), UNCHANGED <<db, worker>>,
             api' # "serving" \/ api' = api
      PROVE  SchemasOK'
  <2>1. tx' = [way |-> way, target |-> target, version |-> db.version,
               tables |-> db.tables, rows |-> db.rows]
    BY <1>1 DEF Begin
  <2>2. tx'.version = db.version /\ tx'.tables = db.tables BY <2>1
  <2>. QED BY <1>1, <2>2 DEF SchemasOK
<1>2. CASE ApiStarts
  <2>1. Begin("up", HeadRevision) /\ UNCHANGED <<db, worker>> /\ api' # "serving"
    BY <1>2 DEF ApiStarts
  <2>. QED BY <1>1, <2>1
<1>3. CASE DowngradeStarts
  <2>1. PICK target \in Targets : Begin("down", target) BY <1>3 DEF DowngradeStarts
  <2>2. UNCHANGED <<db, worker>> /\ api' = api BY <1>3 DEF DowngradeStarts
  <2>. QED BY <1>1, <2>1, <2>2
<1>4. CASE RevisionRuns
  <2>1. SchemaOK(tx'.version, tx'.tables) BY <1>4, AppliedSchema
  <2>2. UNCHANGED <<db, api, worker>> BY <1>4 DEF RevisionRuns
  <2>. QED BY <2>1, <2>2 DEF SchemasOK
<1>5. CASE tx' = NoTransaction /\ UNCHANGED <<db, worker>> /\ (api' # "serving" \/ api' = api)
  <2>1. tx'.way = "none" BY <1>5 DEF NoTransaction
  <2>. QED BY <1>5, <2>1 DEF SchemasOK
<1>6. CASE CommandCommits
  <2>1. tx'.way = "none" /\ worker' = worker BY <1>6 DEF CommandCommits, NoTransaction
  <2>2. tx.way \in {"up", "down"} /\ tx.version = tx.target
    BY <1>6 DEF CommandCommits, CommandOK
  <2>3. db' = [version |-> tx.version, tables |-> tx.tables, rows |-> tx.rows]
    BY <1>6 DEF CommandCommits
  <2>4. /\ db'.version = tx.version /\ db'.tables = tx.tables /\ db'.rows = tx.rows
        /\ SchemaOK(tx.version, tx.tables)
    BY <2>2, <2>3 DEF SchemasOK
  <2>5. CASE tx.way = "down"
    <3>1. api' = api /\ api # "serving" /\ worker # "polling"
      BY <1>6, <2>5 DEF CommandCommits, CommandOK
    <3>2. tx.rows \subseteq KnownRows BY <2>5 DEF RowsOK, SchemasOK
    <3>. QED BY <2>1, <2>4, <3>1, <3>2 DEF SchemasOK
  <2>6. CASE tx.way = "up"
    <3>1. tx.version = 22 BY <2>2, <2>6 DEF CommandOK
    <3>2. tx.tables = ModelTables BY <2>4, <3>1, HeadSchema
    <3>3. /\ tx.rows \subseteq db.rows \cup Inserted
          /\ \A row \in tx.rows : row[1] \in DOMAIN ModelTables
      BY <2>6, <3>2 DEF RowsOK, Tidy, Consistent
    <3>4. \A row \in Inserted : row[1] \notin DOMAIN ModelTables BY ModelNames DEF Inserted
    <3>5. tx.rows \subseteq KnownRows BY <3>3, <3>4 DEF SchemasOK
    <3>. QED BY <2>1, <2>4, <3>1, <3>5 DEF SchemasOK
  <2>. QED BY <2>2, <2>5, <2>6
<1>7. CASE WorkerStarts BY <1>7 DEF WorkerStarts, SchemasOK
<1>8. CASE Writes
  <2>1. PICK row \in KnownRows : db' = [db EXCEPT !.rows = db.rows \cup {row}]
    BY <1>8 DEF Writes
  <2>2. UNCHANGED <<tx, api, worker>> BY <1>8 DEF Writes
  <2>3. db'.version = db.version /\ db'.tables = db.tables /\ db'.rows = db.rows \cup {row}
    BY <2>1 DEF CommandOK
  <2>. QED BY <2>2, <2>3 DEF SchemasOK
<1>9. CASE WorkerKilled BY <1>9 DEF WorkerKilled, SchemasOK
<1>10. CASE UNCHANGED vars BY <1>10 DEF vars, SchemasOK
<1>11. CASE RevisionFails
  <2>1. api' # "serving" \/ api' = api BY <1>11 DEF RevisionFails
  <2>. QED BY <1>5, <1>11, <2>1 DEF RevisionFails
<1>12. CASE ApiKilled BY <1>5, <1>12 DEF ApiKilled
<1>13. CASE DowngradeKilled BY <1>5, <1>13 DEF DowngradeKilled
<1>. QED BY <1>2, <1>3, <1>4, <1>6, <1>7, <1>8, <1>9, <1>10, <1>11, <1>12, <1>13 DEF Next

\* The inductive invariant.
MigrationsOK == CommandOK /\ RowsOK /\ SchemasOK

LEMMA AlwaysOK == Spec => []MigrationsOK
<1>1. Init => MigrationsOK BY CommandInit, RowsInit, SchemasInit DEF MigrationsOK
<1>2. MigrationsOK /\ [Next]_vars => MigrationsOK'
  BY CommandNext, RowsNext, SchemasNext DEF MigrationsOK
<1>. QED BY <1>1, <1>2, PTL DEF Spec

\* Rows and foreign keys are consistent at every moment, between commands and
\* inside one, and no row that an upgrade inserts for its own purposes stays.
THEOREM TypeCorrect == Spec => []TypeOK
<1>1. MigrationsOK => TypeOK
  <2>. SUFFICES ASSUME MigrationsOK PROVE TypeOK OBVIOUS
  <2>1. tx # NoTransaction => tx.way # "none" BY DEF MigrationsOK, CommandOK
  <2>. QED BY <2>1, TwentyTwo DEF MigrationsOK, CommandOK, RowsOK, SchemasOK, Tidy, TypeOK
<1>. QED BY <1>1, AlwaysOK, PTL

\* Whatever sequence of upgrades, downgrades, failures and kills: the schema
\* is the one the chain makes at that revision, or lacks the PLC domain.
THEOREM SchemaFollows == Spec => []SchemaFollowsRevision
<1>1. MigrationsOK => SchemaFollowsRevision
  <2>. SUFFICES ASSUME MigrationsOK, db.tables # SchemaAt(db.version) PROVE IsRetired(db)
    BY DEF SchemaFollowsRevision
  <2>1. db.version \in 10 .. 13 /\ db.tables = Retired(SchemaAt(db.version))
    BY DEF MigrationsOK, SchemasOK, SchemaOK
  <2>. QED BY <2>1, Numbers DEF IsRetired
<1>. QED BY <1>1, AlwaysOK, PTL

\* A serving API and a polling worker see the schema of models.py.
THEOREM ServedSchema == Spec => []ServedSchemaIsModels
<1>1. MigrationsOK => ServedSchemaIsModels
  <2>. SUFFICES ASSUME MigrationsOK, api = "serving" \/ worker = "polling"
                PROVE  db.version = HeadRevision /\ db.tables = ModelTables
    BY DEF ServedSchemaIsModels
  <2>1. db.version = 22 /\ SchemaOK(db.version, db.tables) BY DEF MigrationsOK, SchemasOK
  <2>2. db.tables = ModelTables BY <2>1, HeadSchema
  <2>. QED BY <2>1, <2>2, TwentyTwo
<1>. QED BY <1>1, AlwaysOK, PTL

-----------------------------------------------------------------------------
(* Which downgrades fail                                                   *)

LEMMA BackwardCareless ==
    ASSUME NEW s, Backward(s)
    PROVE  Careless(s)
BY DEF Backward, Structural, Careless

\* The database has been at revision 20260523_0013, and is below or above it.
AfterRetirement == db.version >= 14 \/ IsRetired(db)

LEMMA AfterRetirementIs ==
    AfterRetirement <=> \/ db.version >= 14
                        \/ /\ db.version \in 10 .. 13
                           /\ db.tables = Retired(SchemaAt(db.version))
                           /\ db.tables # SchemaAt(db.version)
<1>1. 11 - 1 = 10 /\ 14 - 1 = 13 OBVIOUS
<1>. QED BY <1>1, Numbers DEF AfterRetirement, IsRetired

\* A downgrade from such a database is on a retired schema below 20260523_0013,
\* any other one on the schemas of the chain.
DownOK ==
    tx.way = "down" =>
        /\ AfterRetirement /\ tx.version < 14 =>
              tx.version \in 10 .. 13 /\ tx.tables = Retired(SchemaAt(tx.version))
        /\ ~AfterRetirement => tx.version < 14 /\ tx.tables = SchemaAt(tx.version)

LEMMA DownInit == Init => DownOK
BY DEF Init, NoTransaction, DownOK

\* One step of a downgrade.
LEMMA DownStep ==
    ASSUME MigrationsOK, DownOK, RevisionRuns, tx.way = "down"
    PROVE  DownOK'
<1>. DEFINE n == tx.version
            st == Chain[n].down
            U == Applied.db.tables
            A == AfterRetirement
<1>1. /\ Applied = Execute(tx, NextStatements) /\ Applied.ok
      /\ tx'.tables = U /\ tx'.version = n - 1 /\ NextRevision = n
  BY AppliedIs DEF MigrationsOK
<1>2. n \in 1 .. 22 BY <1>1, NextRevisionIs DEF RevisionRuns, MigrationsOK
<1>3. NextStatements = st BY <1>1 DEF NextStatements
<1>4. Leads(tx.tables, st, U) BY <1>1, <1>2, <1>3, Lengths, ExecuteLeads
<1>5. Len(st) \in Nat BY <1>2, Lengths
<1>6. SchemaOK(n, tx.tables) BY DEF MigrationsOK, SchemasOK
<1>7. AfterRetirement' = A
  <2>1. db' = db BY DEF RevisionRuns
  <2>. QED BY <2>1 DEF AfterRetirement, IsRetired
<1>8. /\ A /\ n < 14 => n \in 10 .. 13 /\ tx.tables = Retired(SchemaAt(n))
      /\ ~A => n < 14 /\ tx.tables = SchemaAt(n)
  BY DEF DownOK
<1>. HIDE DEF n, st, U, A
<1>9. ASSUME A, n - 1 < 14 PROVE n - 1 \in 10 .. 13 /\ U = Retired(SchemaAt(n - 1))
  <2>1. CASE n = 14
    <3>1. 14 \notin 10 .. 13 OBVIOUS
    <3>2. tx.tables = SchemaAt(14) BY <1>6, <2>1, <3>1 DEF SchemaOK
    <3>3. Leads(tx.tables, st, SchemaAt(14)) BY <2>1, <3>2, Lowers14 DEF st
    <3>4. U = SchemaAt(14) BY <1>4, <1>5, <3>3, OneSchema
    <3>5. n - 1 = 13 /\ 13 \in 10 .. 13 BY <2>1
    <3>. QED BY <3>4, <3>5, Lowers14
  <2>2. CASE n # 14
    <3>1. n \in 10 .. 13 /\ tx.tables = Retired(SchemaAt(n)) BY <1>2, <1>8, <1>9, <2>2
    <3>2. n # 10
      <4>1. SUFFICES ASSUME n = 10 PROVE FALSE OBVIOUS
      <4>2. Leads(Retired(SchemaAt(10)), Chain[10].down, U) BY <1>4, <3>1, <4>1 DEF st
      <4>. QED BY <4>2, RetiredStops
    <3>3. n \in 11 .. 13 /\ n - 1 \in 10 .. 13 BY <3>1, <3>2
    <3>4. Leads(tx.tables, st, Retired(SchemaAt(n - 1))) BY <3>1, <3>3, RetiredChain DEF st
    <3>5. U = Retired(SchemaAt(n - 1)) BY <1>4, <1>5, <3>4, OneSchema
    <3>. QED BY <3>3, <3>5
  <2>. QED BY <2>1, <2>2
<1>10. ASSUME ~A PROVE n - 1 < 14 /\ U = SchemaAt(n - 1)
  <2>1. n < 14 /\ tx.tables = SchemaAt(n) /\ n # 14 BY <1>2, <1>8, <1>10
  <2>2. Lowers(n) BY <1>2, <2>1, EachLowers
  <2>3. Leads(tx.tables, st, SchemaAt(n - 1)) BY <2>1, <2>2 DEF Lowers, st
  <2>4. U = SchemaAt(n - 1) BY <1>4, <1>5, <2>3, OneSchema
  <2>. QED BY <1>2, <2>1, <2>4
<1>. QED BY <1>1, <1>7, <1>9, <1>10 DEF DownOK

LEMMA DownNext == MigrationsOK /\ DownOK /\ [Next]_vars => DownOK'
<1>. SUFFICES ASSUME MigrationsOK, DownOK, [Next]_vars PROVE DownOK' OBVIOUS
<1>1. CASE tx'.way # "down" BY <1>1 DEF DownOK
<1>2. CASE UNCHANGED <<db, tx>> BY <1>2 DEF DownOK, AfterRetirement, IsRetired
<1>3. CASE ApiStarts
  <2>1. tx'.way = "up" BY <1>3 DEF ApiStarts, Begin
  <2>. QED BY <1>1, <2>1
<1>4. CASE DowngradeStarts
  <2>1. PICK target \in Targets : Begin("down", target) BY <1>4 DEF DowngradeStarts
  <2>2. db' = db BY <1>4 DEF DowngradeStarts
  <2>3. tx' = [way |-> "down", target |-> target, version |-> db.version,
               tables |-> db.tables, rows |-> db.rows]
    BY <2>1 DEF Begin
  <2>4. tx'.version = db.version /\ tx'.tables = db.tables BY <2>3
  <2>5. AfterRetirement' = AfterRetirement BY <2>2 DEF AfterRetirement, IsRetired
  <2>6. SchemaOK(db.version, db.tables) /\ db.version \in 0 .. 22
    BY DEF MigrationsOK, SchemasOK, CommandOK
  <2>7. AfterRetirement /\ db.version < 14 =>
            db.version \in 10 .. 13 /\ db.tables = Retired(SchemaAt(db.version))
    BY <2>6, AfterRetirementIs
  <2>8. ~AfterRetirement => db.version < 14 /\ db.tables = SchemaAt(db.version)
    BY <2>6, AfterRetirementIs DEF SchemaOK
  <2>. QED BY <2>4, <2>5, <2>7, <2>8 DEF DownOK
<1>5. CASE RevisionRuns
  <2>1. tx'.way = tx.way BY <1>5, AppliedIs DEF MigrationsOK
  <2>. QED BY <1>1, <1>5, <2>1, DownStep
<1>6. CASE tx' = NoTransaction
  <2>1. tx'.way = "none" BY <1>6 DEF NoTransaction
  <2>. QED BY <1>1, <2>1
<1>7. CASE Writes
  <2>1. api = "serving" /\ tx' = tx BY <1>7 DEF Writes
  <2>2. tx.way # "down" BY <2>1 DEF MigrationsOK, CommandOK
  <2>. QED BY <1>1, <2>1, <2>2
<1>. QED BY <1>2, <1>3, <1>4, <1>5, <1>6, <1>7
         DEF Next, RevisionFails, CommandCommits, WorkerStarts, ApiKilled, DowngradeKilled,
             WorkerKilled, vars

\* A retired schema is not the one of the chain.
LEMMA RetiredDiffers == Retired(SchemaAt(10)) # SchemaAt(10)
<1>1. 10 \in 0 .. 22 OBVIOUS
<1>2. Shaped(SchemaAt(10)) BY <1>1, Sound22 DEF Sound
<1>3. DOMAIN Retired(SchemaAt(10)) = DOMAIN SchemaAt(10) \ PLC BY <1>2, RetiredIs
<1>4. "plc_targets" \in DOMAIN SchemaAt(10) /\ "plc_targets" \in PLC BY Names10, PLCTables
<1>. QED BY <1>3, <1>4

\* The one revision a downgrade can fail at.
LEMMA DownFails ==
    ASSUME MigrationsOK, DownOK, RevisionFails, tx.way = "down"
    PROVE  tx.version = 10 /\ tx.target < 10 /\ AfterRetirement
<1>. DEFINE n == tx.version
            st == Chain[n].down
<1>1. Pending /\ ~Applied.ok BY DEF RevisionFails
<1>2. n \in 1 .. 22 /\ NextRevision = n /\ tx.target < n
  BY <1>1, NextRevisionIs DEF MigrationsOK
<1>3. Applied = Execute(tx, st) BY <1>2 DEF Applied
<1>4. SchemaOK(n, tx.tables) BY DEF MigrationsOK, SchemasOK
<1>5. /\ Len(st) \in Nat
      /\ \A i \in 1 .. Len(st) : Careless(st[i])
  BY <1>2, ChainBackward, TwentyTwo, BackwardCareless
<1>6. n = 10 /\ tx.tables = Retired(SchemaAt(10))
  <2>1. SUFFICES ASSUME ~(n = 10 /\ tx.tables = Retired(SchemaAt(10))) PROVE FALSE OBVIOUS
  <2>. HIDE DEF n
  <2>2. PICK V : Leads(tx.tables, st, V) BY <1>2, <1>4, <2>1, Downgraded
  <2>. HIDE DEF st
  <2>3. Execute(tx, st).ok BY <1>5, <2>2, CarelessExecutes
  <2>. QED BY <1>1, <1>3, <2>3
<1>7. AfterRetirement BY <1>6, RetiredDiffers DEF DownOK
<1>. QED BY <1>2, <1>6, <1>7

\* A downgrade fails exactly when it goes below the revision whose table is
\* gone, from a database that has been at 20260523_0013.
THEOREM DowngradeFails == Spec => DowngradeFailsOnRetired
<1>. DEFINE Ends == tx.way = "down" /\ outcome' \in {"committed", "failed"}
                    /\ tx' = NoTransaction
            Below == tx.target < Number("20260415_0010")
                     /\ (db.version >= Number("20260523_0013") \/ IsRetired(db))
<1>1. ASSUME MigrationsOK, DownOK, [Next]_vars, Ends
      PROVE  (outcome' = "failed") = Below
  <2>1. Below <=> tx.target < 10 /\ AfterRetirement BY Numbers DEF AfterRetirement
  <2>2. CASE CommandCommits
    <3>1. outcome' = "committed" /\ tx.version = tx.target BY <2>2 DEF CommandCommits
    <3>2. tx.version \in 0 .. 22 BY <1>1 DEF MigrationsOK, CommandOK
    <3>3. ~(tx.target < 10 /\ AfterRetirement)
      BY <1>1, <3>1, <3>2 DEF DownOK
    <3>. QED BY <2>1, <3>1, <3>3
  <2>3. CASE RevisionFails
    <3>1. outcome' = "failed" BY <2>3 DEF RevisionFails
    <3>. QED BY <1>1, <2>1, <2>3, <3>1, DownFails
  <2>4. CASE RevisionRuns
    <3>1. tx'.way = tx.way BY <1>1, <2>4, AppliedIs DEF MigrationsOK
    <3>. QED BY <1>1, <3>1 DEF NoTransaction
  <2>5. CASE tx' = tx
    <3>. QED BY <1>1, <2>5 DEF NoTransaction
  <2>6. CASE ApiStarts \/ DowngradeStarts
    BY <1>1, <2>6 DEF ApiStarts, DowngradeStarts, NoTransaction
  <2>7. CASE ApiKilled BY <1>1, <2>7 DEF ApiKilled, MigrationsOK, CommandOK
  <2>8. CASE DowngradeKilled BY <1>1, <2>8 DEF DowngradeKilled
  <2>. QED BY <1>1, <2>2, <2>3, <2>4, <2>5, <2>6, <2>7, <2>8
           DEF Next, WorkerStarts, Writes, WorkerKilled, vars
<1>2. MigrationsOK /\ DownOK /\ [Next]_vars =>
          [tx.way = "down" /\ outcome' \in {"committed", "failed"} /\ tx' = NoTransaction =>
             (outcome' = "failed") =
                 (/\ tx.target < Number("20260415_0010")
                  /\ db.version >= Number("20260523_0013") \/ IsRetired(db))]_vars
  BY <1>1
<1>. QED BY <1>2, AlwaysOK, DownInit, DownNext, PTL DEF Spec, DowngradeFailsOnRetired

-----------------------------------------------------------------------------
(* Which upgrades fail                                                     *)

\* A statement that changes no row, or adds the one target.
Quiet(s) ==
    \/ s.do \in {"create", "add", "index", "refer"}
    \/ s.do = "insert" /\ s.to = <<"plc_targets", "row">>

LEMMA QuietStatements ==
    /\ \A t, C, P : Quiet(CreateTable(t, C, P))
    /\ \A t, C : Quiet(AddColumns(t, C))
    /\ \A t, I : Quiet(CreateIndexes(t, I))
    /\ \A t, p : Quiet(Refer(t, p))
    /\ Quiet(Insert(<<"plc_targets", "row">>))
BY CreateTableIs, AddColumnsIs, CreateIndexesIs, ReferIs, DataIs DEF Quiet

LEMMA CarelessStatements ==
    /\ \A s : Quiet(s) => Careless(s)
    /\ \A t : Careless(DropTable(t)) /\ Careless(IfPresent(DropTable(t)))
    /\ \A t, X : Careless(IfPresent(DropIndexes(t, X))) /\ Careless(IfPresent(CreateIndexes(t, X)))
                 /\ Careless(IfPresent(DropColumns(t, X)))
    /\ \A t, a, b : Careless(IfPresent(Rename(t, a, b)))
<1>1. \A s : Quiet(s) => Careless(s) BY DEF Quiet, Careless
<1>2. \A t : Careless(DropTable(t)) /\ Careless(IfPresent(DropTable(t)))
  BY DropTableIs, GuardedDropIs DEF Careless
<1>3. \A t, X : Careless(IfPresent(DropIndexes(t, X))) /\ Careless(IfPresent(CreateIndexes(t, X)))
                /\ Careless(IfPresent(DropColumns(t, X)))
  BY GuardedIs DEF Careless
<1>4. \A t, a, b : Careless(IfPresent(Rename(t, a, b))) BY GuardedRenameIs DEF Careless
<1>. QED BY <1>1, <1>2, <1>3, <1>4

\* The upgrades before 20260415_0009 are quiet, but for the one that turns
\* stored cases into rows,
LEMMA ChainQuiet ==
    /\ \A n \in {1, 2, 3, 4, 5, 6, 8} : \A i \in 1 .. Len(Chain[n].up) : Quiet(Chain[n].up[i])
    /\ \A i \in 1 .. 6 : Quiet(R20260415_0009.up[i])
<1>. DEFINE All(st) == \A i \in 1 .. Len(st) : Quiet(st[i])
<1>1. All(R20260227_0001.up) BY QuietStatements DEF R20260227_0001
<1>2. All(R20260227_0002.up) BY QuietStatements DEF R20260227_0002
<1>3. All(R20260302_0003.up) BY QuietStatements DEF R20260302_0003
<1>4. All(R20260308_0004.up) BY QuietStatements DEF R20260308_0004
<1>5. All(R20260411_0005.up) BY QuietStatements DEF R20260411_0005
<1>6. All(R20260412_0006.up)
  BY QuietStatements DEF R20260412_0006, R20260412_0006_Runs, R20260412_0006_Items
<1>8. All(R20260412_0008.up) BY QuietStatements DEF R20260412_0008
<1>9. \A i \in 1 .. 6 : Quiet(R20260415_0009.up[i])
  <2>1. 1 .. 6 = {1, 2, 3, 4, 5, 6} OBVIOUS
  <2>. QED BY <2>1, Statements9 DEF Quiet, Creating, Indexing, Adding
<1>. HIDE DEF All
<1>10. \A n \in {1, 2, 3, 4, 5, 6, 8} : All(Chain[n].up)
  BY <1>1, <1>2, <1>3, <1>4, <1>5, <1>6, <1>8, ChainIs
<1>. QED BY <1>9, <1>10 DEF All

\* and 20260415_0009 is the only one that can trip over rows.
LEMMA ChainCareless ==
    \A n \in 1 .. 22 : n # 9 => \A i \in 1 .. Len(Chain[n].up) : Careless(Chain[n].up[i])
<1>. DEFINE All(st) == \A i \in 1 .. Len(st) : Careless(st[i])
<1>1. \A n \in {1, 2, 3, 4, 5, 6, 8} : All(Chain[n].up) BY ChainQuiet, CarelessStatements
<1>2. 1 .. 1 = {1} OBVIOUS
<1>7. All(R20260412_0007.up) /\ All(R20260523_0012.up) BY <1>2, Data DEF Careless
<1>10. All(R20260415_0010.up) BY QuietStatements, CarelessStatements DEF R20260415_0010
<1>11. All(R20260417_0010.up)
  BY QuietStatements, CarelessStatements
     DEF R20260417_0010, R20260417_0010_Training, R20260417_0010_Registry
<1>12. All(R20260417_0011.up) BY QuietStatements, CarelessStatements DEF R20260417_0011
<1>14. All(R20260523_0013.up) BY Retirement, CarelessStatements
<1>15. All(R20260523_0014.up) BY CarelessStatements DEF R20260523_0014
<1>16. All(Rb4aadc4ac8f6.up) BY QuietStatements, CarelessStatements DEF Rb4aadc4ac8f6
<1>17. All(R20260525_0015.up) BY CarelessStatements DEF R20260525_0015
<1>18. All(R20260607_0016.up) BY Clearance, CarelessStatements
<1>19. All(R20260607_0017.up)
  BY QuietStatements, CarelessStatements DEF R20260607_0017, R20260607_0017_Graph
<1>20. All(R20260607_0018.up) BY QuietStatements, CarelessStatements DEF R20260607_0018
<1>21. All(R20260607_0019.up) BY QuietStatements, CarelessStatements DEF R20260607_0019
<1>22. All(R20260609_0020.up) BY QuietStatements, CarelessStatements DEF R20260609_0020
<1>. HIDE DEF All
<1>23. ASSUME NEW n \in 1 .. 22, n # 9 PROVE All(Chain[n].up)
  <2>1. CASE n \in 1 .. 8 BY <2>1, <1>1, <1>7, ChainIs
  <2>2. CASE n \in 10 .. 15
    BY <2>2, <1>7, <1>10, <1>11, <1>12, <1>14, <1>15, ChainIs
  <2>3. CASE n \in 16 .. 22
    BY <2>3, <1>16, <1>17, <1>18, <1>19, <1>20, <1>21, <1>22, ChainIs
  <2>. QED BY <1>23, <2>1, <2>2, <2>3
<1>. QED BY <1>23 DEF All

\* Quiet statements keep the rows, and add at most the target.
LEMMA QuietRows ==
    ASSUME NEW T, NEW R, NEW st, NEW n \in Nat,
           \A i \in 1 .. n : RowsRun(T[i], R[i], st[i], R[i + 1]) /\ Quiet(st[i])
    PROVE  R[1] \subseteq R[n + 1] /\ R[n + 1] \subseteq R[1] \cup Targeted
<1>. DEFINE Good == {i \in 0 .. n : R[1] \subseteq R[i + 1] /\ R[i + 1] \subseteq R[1] \cup Targeted}
<1>1. n \in Nat /\ 0 \in Good OBVIOUS
<1>2. ASSUME NEW i \in 1 .. n, i - 1 \in Good PROVE i \in Good
  <2>1. i \in 0 .. n /\ i - 1 + 1 = i BY <1>1
  <2>2. R[1] \subseteq R[i] /\ R[i] \subseteq R[1] \cup Targeted BY <1>2, <2>1
  <2>3. RowsRun(T[i], R[i], st[i], R[i + 1]) /\ Quiet(st[i]) OBVIOUS
  <2>4. R[i] \subseteq R[i + 1] /\ R[i + 1] \subseteq R[i] \cup Targeted
    BY <2>3 DEF RowsRun, RowsAfter, Quiet, Targeted
  <2>. QED BY <2>1, <2>2, <2>4
<1>. HIDE DEF Good
<1>3. n \in Good BY <1>1, <1>2, UpTo
<1>. QED BY <1>3 DEF Good

\* HasOldCases, of the rows of a database at revision v.
Old(v, rows) ==
    /\ v < 9
    /\ \/ HasRows(rows, "plc_testcases") \/ HasRows(rows, "plc_test_runs")
       \/ v < 7 /\ <<"plc_test_suites", "cases">> \in rows

LEMMA OldIs == HasOldCases(db) <=> Old(db.version, db.rows)
BY Numbers DEF HasOldCases, Old

LEMMA BothData ==
    LET st == R20260415_0009.up
        s == R20260412_0007.up[1]
    IN  /\ st[8].from = <<"plc_testcases", "row">>
        /\ s.from = <<"plc_test_suites", "cases">> /\ s.to = <<"plc_testcases", "row">>
<1>1. /\ Chain[9] = R20260415_0009 /\ Chain[7] = R20260412_0007
      /\ 9 \in 1 .. HeadRevision /\ 7 \in 1 .. HeadRevision /\ 8 \in 1 .. 10 /\ 1 \in 1 .. 1
  BY ChainIs, TwentyTwo
<1>2. Forward(R20260415_0009.up[8]) BY <1>1, ChainForward, Statements9
<1>3. Forward(R20260412_0007.up[1]) BY <1>1, ChainForward, Data
<1>4. R20260415_0009.up[8].from = <<"plc_testcases", "row">>
  BY <1>2, Statements9 DEF Forward, DataStatement, Structural
<1>5. LET s == R20260412_0007.up[1]
      IN s.from = <<"plc_test_suites", "cases">> /\ s.to = <<"plc_testcases", "row">>
  BY <1>3, Data DEF Forward, DataStatement, Structural
<1>. QED BY <1>4, <1>5

\* 20260415_0009 runs only where there are neither testcases nor runs.
LEMMA OldCasesStop ==
    ASSUME NEW d, d.tables = SchemaAt(8), Consistent(d.tables, d.rows),
           Execute(d, R20260415_0009.up).ok
    PROVE  ~HasRows(d.rows, "plc_testcases") /\ ~HasRows(d.rows, "plc_test_runs")
<1>. DEFINE st == R20260415_0009.up
<1>1. Len(st) = 10 /\ Len(st) \in Nat BY Statements9
<1>2. PICK T, R : /\ R[1] = d.rows
                  /\ \A i \in 1 .. Len(st) : RowsRun(T[i], R[i], st[i], R[i + 1])
  BY <1>1, ExecuteRuns
<1>3. \A i \in 1 .. 6 : RowsRun(T[i], R[i], st[i], R[i + 1]) /\ Quiet(st[i])
  BY <1>1, <1>2, ChainQuiet
<1>4. 6 \in Nat /\ 6 + 1 = 7 OBVIOUS
<1>5. R[1] \subseteq R[7] /\ R[7] \subseteq R[1] \cup Targeted
  <2>. HIDE DEF st
  <2>. QED BY <1>3, <1>4, QuietRows
<1>6. /\ RowsRun(T[7], R[7], st[7], R[8]) /\ RowsRun(T[8], R[8], st[8], R[9])
      /\ RowsRun(T[9], R[9], st[9], R[10])
  <2>1. 7 \in 1 .. 10 /\ 8 \in 1 .. 10 /\ 9 \in 1 .. 10 OBVIOUS
  <2>. QED BY <1>1, <1>2, <2>1
<1>7. Allowed(R[7], st[7]) /\ R[8] = R[7] BY <1>6, Statements9 DEF RowsRun, RowsAfter
<1>8. R[8] \subseteq R[9] BY <1>6, Statements9 DEF RowsRun, RowsAfter
<1>9. Allowed(R[9], st[9]) BY <1>6, Statements9 DEF RowsRun
<1>10. "plc_execution_profiles" \notin DOMAIN d.tables BY Schema5, Schema6, Schema7, Schema8
<1>11. ~HasRows(R[7], "plc_execution_profiles")
  BY <1>2, <1>5, <1>10 DEF HasRows, Consistent, Targeted
<1>12. ~HasRows(R[7], "plc_testcases") BY <1>7, <1>11, Statements9 DEF Allowed
<1>13. ~HasRows(R[9], "plc_test_runs") BY <1>9, Statements9 DEF Allowed
<1>. QED BY <1>2, <1>5, <1>7, <1>8, <1>12, <1>13 DEF HasRows

\* and it runs wherever there are none.
LEMMA NoOldCases ==
    ASSUME NEW d, NEW U, Leads(d.tables, R20260415_0009.up, U), Consistent(d.tables, d.rows),
           ~HasRows(d.rows, "plc_testcases"), ~HasRows(d.rows, "plc_test_runs")
    PROVE  Execute(d, R20260415_0009.up).ok
<1>. DEFINE st == R20260415_0009.up
            Tables == {"plc_testcases", "plc_test_runs", "plc_test_run_items"}
            Safe == SUBSET {row \in d.rows \cup Targeted : row[1] \notin Tables}
<1>1. Len(st) = 10 /\ Len(st) \in Nat BY Statements9
<1>2. <<"plc_test_run_items", "plc_test_runs">> \in Needs BY DEF Needs
<1>3. ~HasRows(d.rows, "plc_test_run_items") BY <1>2 DEF Consistent
<1>4. d.rows \in Safe BY <1>3 DEF HasRows
<1>5. ASSUME NEW i \in 1 .. Len(st), NEW rows \in Safe
      PROVE  Allowed(rows, st[i]) /\ RowsAfter(rows, st[i]) \in Safe
  <2>1. \A t \in Tables : ~HasRows(rows, t) BY DEF HasRows
  <2>2. CASE i \in 1 .. 6
    <3>1. Quiet(st[i]) BY <2>2, ChainQuiet
    <3>2. Allowed(rows, st[i]) BY <3>1 DEF Quiet, Allowed
    <3>3. RowsAfter(rows, st[i]) = rows \/ RowsAfter(rows, st[i]) = rows \cup Targeted
      BY <3>1 DEF Quiet, RowsAfter, Targeted
    <3>4. rows \cup Targeted \in Safe BY DEF Targeted
    <3>. QED BY <3>2, <3>3, <3>4
  <2>3. CASE i = 7 BY <2>1, <2>3, Statements9 DEF Allowed, RowsAfter
  <2>4. CASE i = 8
    <3>1. <<"plc_testcases", "row">> \notin rows BY <2>1 DEF HasRows
    <3>. QED BY <2>4, <3>1, Statements9, BothData DEF Allowed, RowsAfter
  <2>5. CASE i \in {9, 10} BY <2>1, <2>5, Statements9 DEF Allowed, RowsAfter
  <2>. QED BY <1>1, <2>2, <2>3, <2>4, <2>5
<1>. HIDE DEF st, Safe
<1>6. Leads(d.tables, st, U) BY DEF st
<1>7. Execute(d, st).ok BY <1>1, <1>4, <1>5, <1>6, LeadsExecutes
<1>. QED BY <1>7 DEF st

\* A revision that runs keeps what makes an upgrade fail later.
LEMMA OldKept ==
    ASSUME NEW n \in 1 .. 22, NEW d, SchemaOK(n - 1, d.tables), Consistent(d.tables, d.rows),
           Execute(d, Chain[n].up).ok
    PROVE  Old(n, Execute(d, Chain[n].up).db.rows) <=> Old(n - 1, d.rows)
<1>. DEFINE st == Chain[n].up
            rows == Execute(d, st).db.rows
<1>1. CASE n >= 10 BY <1>1 DEF Old
<1>2. CASE n = 9
  <2>1. n - 1 = 8 /\ 8 \notin 10 .. 13 BY <1>2
  <2>2. d.tables = SchemaAt(8) BY <2>1 DEF SchemaOK
  <2>3. Execute(d, R20260415_0009.up).ok BY <1>2, ChainIs
  <2>4. ~HasRows(d.rows, "plc_testcases") /\ ~HasRows(d.rows, "plc_test_runs")
    BY <2>2, <2>3, OldCasesStop
  <2>. QED BY <1>2, <2>1, <2>4 DEF Old
<1>3. CASE n \in 1 .. 8
  <2>1. Len(st) \in Nat BY Lengths
  <2>2. PICK T, R : /\ R[1] = d.rows /\ R[Len(st) + 1] = rows
                    /\ \A i \in 1 .. Len(st) : RowsRun(T[i], R[i], st[i], R[i + 1])
    BY <2>1, ExecuteRuns
  <2>3. CASE n = 7
    <3>1. st = R20260412_0007.up BY <2>3, ChainIs
    <3>2. Len(st) = 1 /\ 1 \in 1 .. 1 /\ 1 + 1 = 2 BY <3>1, Data
    <3>3. RowsRun(T[1], d.rows, st[1], rows) BY <2>2, <3>2
    <3>4. rows = IF <<"plc_test_suites", "cases">> \in d.rows
                 THEN d.rows \cup {<<"plc_testcases", "row">>} ELSE d.rows
      BY <3>1, <3>3, Data, BothData DEF RowsRun, RowsAfter
    <3>5. n - 1 = 6 /\ n = 7 BY <2>3
    <3>. HIDE DEF rows
    <3>6. /\ HasRows(rows, "plc_test_runs") <=> HasRows(d.rows, "plc_test_runs")
          /\ HasRows(rows, "plc_testcases") <=>
                HasRows(d.rows, "plc_testcases") \/ <<"plc_test_suites", "cases">> \in d.rows
      <4>1. CASE <<"plc_test_suites", "cases">> \in d.rows
        <5>1. rows = d.rows \cup {<<"plc_testcases", "row">>} BY <3>4, <4>1
        <5>2. <<"plc_testcases", "row">>[1] = "plc_testcases" OBVIOUS
        <5>. QED BY <4>1, <5>1, <5>2 DEF HasRows
      <4>2. CASE <<"plc_test_suites", "cases">> \notin d.rows
        <5>1. rows = d.rows BY <3>4, <4>2
        <5>. QED BY <4>2, <5>1
      <4>. QED BY <4>1, <4>2
    <3>7. Old(n, rows) <=> HasRows(rows, "plc_testcases") \/ HasRows(rows, "plc_test_runs")
      BY <3>5 DEF Old
    <3>8. Old(n - 1, d.rows) <=>
             HasRows(d.rows, "plc_testcases") \/ HasRows(d.rows, "plc_test_runs")
             \/ <<"plc_test_suites", "cases">> \in d.rows
      BY <3>5 DEF Old
    <3>9. Old(n, rows) <=> Old(n - 1, d.rows) BY <3>6, <3>7, <3>8
    <3>. QED BY <3>9 DEF rows
  <2>4. CASE n # 7
    <3>1. n \in {1, 2, 3, 4, 5, 6, 8} BY <1>3, <2>4
    <3>2. \A i \in 1 .. Len(st) : Quiet(st[i]) BY <3>1, ChainQuiet
    <3>. HIDE DEF st, rows
    <3>3. \A i \in 1 .. Len(st) : RowsRun(T[i], R[i], st[i], R[i + 1]) /\ Quiet(st[i])
      BY <2>2, <3>2
    <3>4. d.rows \subseteq rows /\ rows \subseteq d.rows \cup Targeted
      BY <2>1, <2>2, <3>3, QuietRows
    <3>5. /\ HasRows(rows, "plc_testcases") <=> HasRows(d.rows, "plc_testcases")
          /\ HasRows(rows, "plc_test_runs") <=> HasRows(d.rows, "plc_test_runs")
          /\ <<"plc_test_suites", "cases">> \in rows <=> <<"plc_test_suites", "cases">> \in d.rows
      BY <3>4 DEF HasRows, Targeted
    <3>6. n < 9 /\ n - 1 < 9 /\ (n < 7 <=> n - 1 < 7)  BY <1>3, <2>4, <3>1
    <3>7. Old(n, rows) <=> Old(n - 1, d.rows) BY <3>5, <3>6 DEF Old
    <3>. QED BY <3>7 DEF st, rows
  <2>. QED BY <2>3, <2>4
<1>. QED BY <1>1, <1>2, <1>3

\* What makes the upgrade fail was there when it started, or never comes.
UpOK == tx.way = "up" => (Old(tx.version, tx.rows) <=> HasOldCases(db))

LEMMA UpInit == Init => UpOK
BY DEF Init, NoTransaction, UpOK

LEMMA UpNext == MigrationsOK /\ UpOK /\ [Next]_vars => UpOK'
<1>. SUFFICES ASSUME MigrationsOK, UpOK, [Next]_vars PROVE UpOK' OBVIOUS
<1>1. CASE tx'.way # "up" BY <1>1 DEF UpOK
<1>2. CASE UNCHANGED <<db, tx>> BY <1>2 DEF UpOK, HasOldCases
<1>3. CASE ApiStarts
  <2>1. /\ tx' = [way |-> "up", target |-> HeadRevision, version |-> db.version,
                  tables |-> db.tables, rows |-> db.rows]
        /\ db' = db
    BY <1>3 DEF ApiStarts, Begin
  <2>2. tx'.version = db.version /\ tx'.rows = db.rows BY <2>1
  <2>3. HasOldCases(db)' <=> HasOldCases(db) BY <2>1 DEF HasOldCases
  <2>. QED BY <2>2, <2>3, OldIs DEF UpOK
<1>4. CASE DowngradeStarts
  <2>1. PICK target \in Targets : Begin("down", target) BY <1>4 DEF DowngradeStarts
  <2>2. tx'.way = "down" BY <2>1 DEF Begin
  <2>. QED BY <1>1, <2>2
<1>5. CASE RevisionRuns
  <2>1. SUFFICES ASSUME tx'.way = "up" PROVE UpOK' BY <1>1
  <2>2. /\ Applied = Execute(tx, NextStatements) /\ Applied.ok
        /\ tx'.rows = Applied.db.rows /\ tx.way = "up"
        /\ tx'.version = tx.version + 1 /\ NextRevision = tx.version + 1
    BY <1>5, <2>1, AppliedIs DEF MigrationsOK
  <2>3. NextRevision \in 1 .. 22 BY <1>5, NextRevisionIs DEF RevisionRuns, MigrationsOK
  <2>. DEFINE n == NextRevision
  <2>4. n - 1 = tx.version /\ n \in 1 .. 22 BY <2>2, <2>3 DEF MigrationsOK, CommandOK
  <2>5. SchemaOK(tx.version, tx.tables) /\ Consistent(tx.tables, tx.rows)
    BY <2>2 DEF MigrationsOK, SchemasOK, RowsOK, Tidy
  <2>6. Applied = Execute(tx, Chain[n].up) BY <2>2 DEF NextStatements
  <2>7. n = tx'.version BY <2>2
  <2>. HIDE DEF n
  <2>8. SchemaOK(n - 1, tx.tables) /\ Execute(tx, Chain[n].up).ok BY <2>2, <2>4, <2>5, <2>6
  <2>9. Old(n, Execute(tx, Chain[n].up).db.rows) <=> Old(n - 1, tx.rows)
    BY <2>4, <2>5, <2>8, OldKept
  <2>10. Old(tx'.version, tx'.rows) <=> Old(tx.version, tx.rows)
    BY <2>2, <2>4, <2>6, <2>7, <2>9
  <2>11. HasOldCases(db)' <=> HasOldCases(db) BY <1>5 DEF RevisionRuns, HasOldCases
  <2>. QED BY <2>2, <2>10, <2>11 DEF UpOK
<1>6. CASE tx' = NoTransaction
  <2>1. tx'.way = "none" BY <1>6 DEF NoTransaction
  <2>. QED BY <1>1, <2>1
<1>7. CASE Writes
  <2>1. api = "serving" /\ tx' = tx BY <1>7 DEF Writes
  <2>2. tx.way # "up" BY <2>1 DEF MigrationsOK, CommandOK
  <2>. QED BY <1>1, <2>1, <2>2
<1>. QED BY <1>2, <1>3, <1>4, <1>5, <1>6, <1>7
         DEF Next, RevisionFails, CommandCommits, WorkerStarts, ApiKilled, DowngradeKilled,
             WorkerKilled, vars

\* The rows a revision trips over are the ones 20260415_0009 cannot upgrade.
LEMMA UpFails ==
    ASSUME MigrationsOK, RevisionFails, tx.way = "up"
    PROVE  Old(tx.version, tx.rows)
<1>. DEFINE n == NextRevision
            st == Chain[n].up
<1>1. Pending /\ ~Applied.ok BY DEF RevisionFails
<1>2. n \in 1 .. 22 /\ n = tx.version + 1 /\ tx.version \in 0 .. 22
  BY <1>1, NextRevisionIs DEF MigrationsOK, CommandOK
<1>3. ~Execute(tx, st).ok BY <1>1, <1>2 DEF Applied
<1>4. SchemaOK(tx.version, tx.tables) /\ Consistent(tx.tables, tx.rows)
  BY DEF MigrationsOK, SchemasOK, RowsOK, Tidy
<1>5. n - 1 = tx.version BY <1>2
<1>. HIDE DEF n
<1>6. PICK U : Leads(tx.tables, st, U)
  <2>1. SchemaOK(n - 1, tx.tables) BY <1>4, <1>5
  <2>. QED BY <1>2, <2>1, Upgraded
<1>7. n = 9
  <2>1. SUFFICES ASSUME n # 9 PROVE FALSE OBVIOUS
  <2>2. Len(st) \in Nat /\ \A i \in 1 .. Len(st) : Careless(st[i])
    BY <1>2, <2>1, ChainCareless, Lengths
  <2>. HIDE DEF st
  <2>3. Execute(tx, st).ok BY <1>6, <2>2, CarelessExecutes
  <2>. QED BY <1>3, <2>3
<1>8. st = R20260415_0009.up BY <1>7, ChainIs
<1>9. HasRows(tx.rows, "plc_testcases") \/ HasRows(tx.rows, "plc_test_runs")
  <2>1. SUFFICES ASSUME ~HasRows(tx.rows, "plc_testcases"), ~HasRows(tx.rows, "plc_test_runs")
                 PROVE  FALSE
    OBVIOUS
  <2>2. Leads(tx.tables, R20260415_0009.up, U) BY <1>6, <1>8
  <2>3. Execute(tx, R20260415_0009.up).ok BY <1>4, <2>1, <2>2, NoOldCases
  <2>. QED BY <1>3, <1>8, <2>3
<1>10. tx.version < 9 BY <1>2, <1>7
<1>. QED BY <1>9, <1>10 DEF Old

\* The API's upgrade fails exactly on the databases with rows that revision
\* 20260415_0009 cannot upgrade, whatever downgrades left behind.
THEOREM UpgradeFails == Spec => UpgradeFailsOnOldCases
<1>1. ASSUME MigrationsOK, UpOK, [Next]_vars,
             api = "migrating", api' \in {"serving", "exited"}
      PROVE  (api' = "exited") = HasOldCases(db)
  <2>1. tx.way = "up" BY <1>1 DEF MigrationsOK, CommandOK
  <2>2. Old(tx.version, tx.rows) <=> HasOldCases(db) BY <1>1, <2>1 DEF UpOK
  <2>3. HasOldCases(db) \in BOOLEAN BY DEF HasOldCases
  <2>4. CASE CommandCommits
    <3>1. api' = "serving" /\ tx.version = tx.target BY <2>1, <2>4 DEF CommandCommits
    <3>2. tx.version = 22 BY <1>1, <2>1, <3>1 DEF MigrationsOK, CommandOK
    <3>3. ~Old(tx.version, tx.rows) BY <3>2 DEF Old
    <3>. QED BY <2>2, <2>3, <3>1, <3>3
  <2>5. CASE RevisionFails
    <3>1. api' = "exited" BY <2>1, <2>5 DEF RevisionFails
    <3>2. Old(tx.version, tx.rows) BY <1>1, <2>1, <2>5, UpFails
    <3>. QED BY <2>2, <2>3, <3>1, <3>2
  <2>6. CASE api' \in {api, "stopped", "migrating"} BY <1>1, <2>6
  <2>. QED BY <1>1, <2>4, <2>5, <2>6
           DEF Next, ApiStarts, DowngradeStarts, RevisionRuns, WorkerStarts, Writes,
               ApiKilled, DowngradeKilled, WorkerKilled, vars
<1>2. MigrationsOK /\ UpOK /\ [Next]_vars =>
          [api = "migrating" /\ api' \in {"serving", "exited"} =>
             (api' = "exited") = HasOldCases(db)]_vars
  BY <1>1
<1>. QED BY <1>2, AlwaysOK, UpInit, UpNext, PTL DEF Spec, UpgradeFailsOnOldCases
=============================================================================
