-------------------------- MODULE MigrationsProofs --------------------------
(***************************************************************************)
(* The build and installation of releases, for every sequence of source    *)
(* trees whose later members have the incremental files of the released    *)
(* ones before them: a database has the schema of a fresh installation,    *)
(* changed files are reported, and functions run on the final schema.      *)
(*                                                                         *)
(* The build's assertions make the number of an incremental file its place *)
(* in the script, so the scripts of two releases agree as far as the older *)
(* one goes.  The invariant then says that what a transaction has applied  *)
(* is always a beginning of its target's incremental files, which has at   *)
(* least the files it has passed.                                          *)
(***************************************************************************)
EXTENDS Migrations, FiniteSetTheorems, WellFoundedInduction, TLAPS

----------------------------------------------------------------------------
(* Sorting *)

LEMMA LeastExists ==
  ASSUME NEW D \in SUBSET Nat, D # {}
  PROVE  \E d \in D : \A e \in D : d <= e
  <1>1. IsWellFoundedOn({p \in Nat \X Nat : p[1] < p[2]}, Nat)
    BY NatLessThanWellFounded, Zenon DEF OpToRel
  <1>2. PICK d \in D : \A e \in D : ~(<<e, d>> \in {p \in Nat \X Nat : p[1] < p[2]})
    BY <1>1, WFMin, Zenon
  <1>3. \A e \in D : ~(e < d)
    BY <1>2
  <1> QED BY <1>3

Files(files) == IsFiniteSet(files) /\ \A f \in files : f.number \in Nat

Ascending(s) ==
  \A i, j \in DOMAIN s :
    i < j => s[i] # s[j] /\ NamePlace(s[i].number) <= NamePlace(s[j].number)

LEMMA PlaceIsInt == \A n \in Nat : NamePlace(n) + 1 \in Nat
  BY DEF NamePlace

\* One file comes first.
LEMMA FirstFile ==
  ASSUME NEW S, S # {}, \A f \in S : f.number \in Nat
  PROVE  \E f \in S : \A g \in S : NamePlace(f.number) <= NamePlace(g.number)
  <1> DEFINE P(g) == NamePlace(g.number) + 1
             D == {P(g) : g \in S}
  <1>1. \A g \in S : P(g) \in Nat
    BY PlaceIsInt
  <1>2. PICK d \in D : \A e \in D : d <= e
    <2>1. D \in SUBSET Nat /\ D # {}
      BY <1>1
    <2> HIDE DEF D
    <2> QED BY <2>1, LeastExists
  <1>3. PICK f \in S : d = P(f)
    OBVIOUS
  <1>4. \A g \in S : P(f) <= P(g)
    BY <1>2, <1>3
  <1>5. \A g \in S : NamePlace(g.number) \in Int
    BY DEF NamePlace
  <1> QED BY <1>4, <1>5

\* ... and the others can be sorted behind it.
LEMMA SortedBehind ==
  ASSUME NEW S, NEW f \in S, NEW n \in Nat \ {0}, NEW s \in [1..(n - 1) -> S \ {f}],
         Ascending(s), \A g \in S : NamePlace(f.number) <= NamePlace(g.number)
  PROVE  \E t \in [1..n -> S] : Ascending(t)
  <1> DEFINE t == [i \in 1..n |-> IF i = 1 THEN f ELSE s[i - 1]]
  <1>1. t \in [1..n -> S]
    OBVIOUS
  <1>2. ASSUME NEW i \in 1..n, NEW j \in 1..n, i < j
        PROVE  t[i] # t[j] /\ NamePlace(t[i].number) <= NamePlace(t[j].number)
    <2>1. t[j] = s[j - 1] /\ j - 1 \in 1..(n - 1) /\ s[j - 1] \in S \ {f}
      BY <1>2
    <2>2. CASE i = 1
      BY <2>1, <2>2
    <2>3. CASE i # 1
      <3>1. t[i] = s[i - 1] /\ i - 1 \in 1..(n - 1) /\ i - 1 < j - 1
        BY <1>2, <2>3
      <3>2. DOMAIN s = 1..(n - 1)
        OBVIOUS
      <3> HIDE DEF t
      <3> QED BY <2>1, <3>1, <3>2 DEF Ascending
    <2> QED BY <2>2, <2>3
  <1>3. DOMAIN t = 1..n
    OBVIOUS
  <1> HIDE DEF t
  <1> QED BY <1>1, <1>2, <1>3 DEF Ascending

LEMMA SortedExists ==
  ASSUME NEW files, Files(files)
  PROVE  \E s \in [1..Cardinality(files) -> files] : Ascending(s)
  <1> DEFINE Sortable(n) == \A S \in SUBSET files :
                              Cardinality(S) = n => \E s \in [1..n -> S] : Ascending(s)
             Bad == {n \in Nat : ~Sortable(n)}
  <1>1. \A S \in SUBSET files : IsFiniteSet(S) /\ Cardinality(S) \in Nat
    BY FS_Subset, FS_CardinalityType DEF Files
  <1>2. ASSUME NEW n \in Bad, \A m \in Bad : n <= m PROVE FALSE
    <2>1. PICK S \in SUBSET files : Cardinality(S) = n /\ ~\E s \in [1..n -> S] : Ascending(s)
      OBVIOUS
    <2>2. n # 0
      <3> SUFFICES ASSUME n = 0 PROVE FALSE
        OBVIOUS
      <3>1. [i \in 1..n |-> {}] \in [1..n -> S] /\ DOMAIN [i \in 1..n |-> {}] = {}
        OBVIOUS
      <3>2. Ascending([i \in 1..n |-> {}])
        BY <3>1 DEF Ascending
      <3> QED BY <2>1, <3>1, <3>2
    <2>3. PICK f \in S : \A g \in S : NamePlace(f.number) <= NamePlace(g.number)
      <3>1. S # {}
        BY <1>1, <2>1, <2>2, FS_EmptySet
      <3>2. \A g \in S : g.number \in Nat
        BY DEF Files
      <3> QED BY <3>1, <3>2, FirstFile
    <2>4. Cardinality(S \ {f}) = n - 1 /\ S \ {f} \in SUBSET files
      BY <1>1, <2>1, FS_RemoveElement
    <2>5. n - 1 \in Nat /\ n - 1 \notin Bad
      BY <1>2, <2>2
    <2>6. PICK s \in [1..(n - 1) -> S \ {f}] : Ascending(s)
      BY <2>4, <2>5
    <2>7. n \in Nat \ {0}
      BY <2>2
    <2> QED BY <2>1, <2>3, <2>6, <2>7, SortedBehind
  <1>3. Bad = {}
    <2>1. Bad \in SUBSET Nat
      OBVIOUS
    <2> HIDE DEF Bad
    <2> QED BY <1>2, <2>1, LeastExists
  <1> QED BY <1>1, <1>3

\* Sorted has each file once.
LEMMA SortedFiles ==
  ASSUME NEW files, Files(files)
  PROVE  LET n == Cardinality(files)
             s == Sorted(files)
         IN  /\ n \in Nat /\ s \in [1..n -> files]
             /\ \A i, j \in 1..n : s[i] = s[j] => i = j
             /\ \A f \in files : \E i \in 1..n : s[i] = f
  <1> DEFINE n == Cardinality(files)
             s == Sorted(files)
  <1>1. IsFiniteSet(files) /\ n \in Nat
    BY FS_CardinalityType DEF Files
  <1>2. s \in [1..n -> files] /\ Ascending(s)
    BY SortedExists DEF Sorted, Ascending
  <1> HIDE DEF s, n
  <1>3. \A i, j \in 1..n : s[i] = s[j] => i = j
    <2>1. \A i, j \in 1..n : i < j => s[i] # s[j]
      BY <1>2 DEF Ascending
    <2>2. \A i, j \in 1..n : i < j \/ j < i \/ i = j
      BY <1>1
    <2> QED BY <2>1, <2>2
  <1>4. s \in Injection(1..n, files)
    BY <1>2, <1>3 DEF Injection, IsInjective
  <1>5. IsFiniteSet(1..n) /\ Cardinality(1..n) = n
    BY <1>1, FS_Interval
  <1>6. s \in Surjection(1..n, files)
    BY <1>1, <1>4, <1>5, FS_Injection DEF n
  <1>7. \A f \in files : \E i \in 1..n : s[i] = f
    BY <1>6 DEF Surjection
  <1> QED BY <1>1, <1>2, <1>3, <1>7 DEF s, n

----------------------------------------------------------------------------
(* Scripts *)

Size(v) == Cardinality(Releases[v].incremental) + 1

LEMMA TreeFiles ==
  ASSUME NEW v \in Versions
  PROVE  Files(Releases[v].incremental) /\ Files(Releases[v].idempotent)
  BY MGAssumption DEF Files

LEMMA UniqueNames ==
  ASSUME NEW v \in Versions
  PROVE  \A f, g \in Releases[v].idempotent : f.title = g.title => f = g
  BY MGAssumption

\* The build's assertion, by induction on the place.
LEMMA NumberIsPlace ==
  ASSUME NEW files, Files(files), ~RenderFails(files, "incremental")
  PROVE  \A i \in 1..Cardinality(files) : Sorted(files)[i].number = i
  <1> DEFINE n == Cardinality(files)
             s == Sorted(files)
             Bad == {i \in 1..n : s[i].number # i}
  <1>1. \A i \in 1..n : Number(files, i) = Number(files, i - 1) + 1
    BY DEF RenderFails, InOrder
  <1>2. n \in Nat
    BY SortedFiles
  <1>3. \A i \in 1..n : Number(files, i) = s[i].number
    BY <1>2 DEF Number
  <1>4. Number(files, 0) = 0
    BY DEF Number
  <1> HIDE DEF s, n
  <1>5. ASSUME NEW i \in Bad, \A j \in Bad : i <= j PROVE FALSE
    <2>1. CASE i = 1
      BY <1>1, <1>2, <1>3, <1>4, <2>1
    <2>2. CASE i # 1
      <3>1. i - 1 \in 1..n /\ i - 1 \notin Bad
        BY <1>2, <1>5, <2>2
      <3>2. s[i - 1].number = i - 1
        BY <3>1
      <3> QED BY <1>1, <1>2, <1>3, <3>1, <3>2
    <2> QED BY <2>1, <2>2
  <1>6. Bad = {}
    <2>1. Bad \in SUBSET Nat
      BY <1>2
    <2> HIDE DEF Bad
    <2> QED BY <1>5, <2>1, LeastExists
  <1> QED BY <1>6 DEF s, n

\* So the sorted directory has each file at its number.
LEMMA NumberedFiles ==
  ASSUME NEW files, Files(files), ~RenderFails(files, "incremental")
  PROVE  LET n == Cardinality(files)
         IN  /\ n \in Nat
             /\ \A i \in 1..n : Sorted(files)[i] \in files /\ Sorted(files)[i].number = i
             /\ \A f \in files : \E i \in 1..n : Sorted(files)[i] = f
  <1> DEFINE n == Cardinality(files)
             s == Sorted(files)
  <1>1. /\ n \in Nat /\ s \in [1..n -> files]
        /\ \A f \in files : \E i \in 1..n : s[i] = f
    BY SortedFiles, Zenon
  <1>2. \A i \in 1..n : s[i].number = i
    BY NumberIsPlace, Zenon
  <1> HIDE DEF n, s
  <1>3. \A i \in 1..n : s[i] \in files
    BY <1>1
  <1> QED BY <1>1, <1>2, <1>3, Zenon DEF n, s

\* After a file numbered 999 come only others of that number.
LEMMA LastFiles ==
  ASSUME NEW files, Files(files), ~RenderFails(files, "idempotent"),
         NEW k \in 1..Cardinality(files), Sorted(files)[k].number = 999
  PROVE  \A i \in k..Cardinality(files) : Sorted(files)[i].number = 999
  <1> DEFINE n == Cardinality(files)
             s == Sorted(files)
             Bad == {i \in k..n : s[i].number # 999}
  <1>1. \A i \in 1..n : /\ Number(files, i) = 999 \/ Number(files, i) = Number(files, i - 1) + 1
                        /\ Number(files, i) # 1000
    BY DEF RenderFails, InOrder
  <1>2. n \in Nat
    BY SortedFiles
  <1>3. \A i \in 1..n : Number(files, i) = s[i].number
    BY <1>2 DEF Number
  <1>4. s[k].number = 999 /\ k \in 1..n
    OBVIOUS
  <1> HIDE DEF s, n
  <1>5. ASSUME NEW i \in Bad, \A j \in Bad : i <= j PROVE FALSE
    <2>1. i # k
      BY <1>4
    <2>2. i \in 1..n /\ i - 1 \in 1..n /\ i - 1 \in k..n /\ i - 1 \notin Bad
      BY <1>2, <1>4, <1>5, <2>1
    <2>3. s[i - 1].number = 999
      BY <2>2
    <2> QED BY <1>1, <1>3, <2>2, <2>3
  <1>6. Bad = {}
    <2>1. Bad \in SUBSET Nat
      BY <1>2, <1>4
    <2> HIDE DEF Bad
    <2> QED BY <1>5, <2>1, LeastExists
  <1> QED BY <1>6 DEF s, n

LEMMA Prepended ==
  ASSUME NEW S, NEW e \in S, NEW q \in Seq(S)
  PROVE  /\ <<e>> \o q \in Seq(S) /\ Len(<<e>> \o q) = Len(q) + 1
         /\ (<<e>> \o q)[1] = e
         /\ \A i \in 1..Len(q) : (<<e>> \o q)[1 + i] = q[i]
  OBVIOUS

Bootstrap(v) ==
  [type |-> "incremental", title |-> "create-ext-schema", body |-> Releases[v].schema]

\* The incremental files of a release, behind the schema's.
LEMMA IncrementalShape ==
  ASSUME NEW v \in Versions
  PROVE  LET n == Cardinality(Releases[v].incremental)
             s == Incrementals(v)
         IN  /\ n \in Nat /\ Len(s) = Size(v) /\ DOMAIN s = 1..Size(v)
             /\ s[1] = Bootstrap(v)
             /\ \A i \in 1..n : s[1 + i] = Wrap(Releases[v].incremental, "incremental")[i]
             /\ \A i \in 1..n : /\ Sorted(Releases[v].incremental)[i] \in Releases[v].incremental
                                /\ s[1 + i].title = Sorted(Releases[v].incremental)[i].title
             /\ \E S : s \in Seq(S)
  <1> DEFINE files == Releases[v].incremental
             n == Cardinality(files)
             w == Wrap(files, "incremental")
             S == {Bootstrap(v)} \cup {w[i] : i \in 1..n}
             s == Incrementals(v)
  <1>1. n \in Nat /\ Sorted(files) \in [1..n -> files]
    BY TreeFiles, SortedFiles
  <1>2. w \in Seq(S) /\ Len(w) = n
    BY <1>1 DEF Wrap
  <1>3. Bootstrap(v) \in S
    OBVIOUS
  <1>4. s = <<Bootstrap(v)>> \o w
    BY DEF Incrementals, RenderBootstrap, Bootstrap
  <1>5. \A i \in 1..n : w[i].title = Sorted(files)[i].title
    BY <1>1 DEF Wrap
  <1> HIDE DEF s, w, n, S
  <1>6. /\ s \in Seq(S) /\ Len(s) = 1 + n /\ s[1] = Bootstrap(v)
        /\ \A i \in 1..n : s[1 + i] = w[i]
    BY <1>2, <1>3, <1>4, Prepended
  <1>7. DOMAIN s = 1..(1 + n)
    BY <1>6
  <1> QED BY <1>1, <1>5, <1>6, <1>7 DEF Size, s, w, n, files

\* A script has them first, and then the idempotent files.
LEMMA ScriptShape ==
  ASSUME NEW v \in Versions
  PROVE  LET t == Script(Releases[v])
             m == Cardinality(Releases[v].idempotent)
         IN  /\ Size(v) \in Nat \ {0} /\ m \in Nat /\ DOMAIN t = 1..(Size(v) + m)
             /\ \E S : t \in Seq(S)
             /\ \A i \in 1..Size(v) : t[i] = Incrementals(v)[i] /\ t[i].type = "incremental"
             /\ \A i \in 1..m :
                  /\ t[Size(v) + i].type = "idempotent"
                  /\ t[Size(v) + i].title = Sorted(Releases[v].idempotent)[i].title
  <1> DEFINE t == Script(Releases[v])
             m == Cardinality(Releases[v].idempotent)
             n == Cardinality(Releases[v].incremental)
             w == Wrap(Releases[v].incremental, "incremental")
             x == Wrap(Releases[v].idempotent, "idempotent")
             S == {Bootstrap(v)} \cup {w[i] : i \in 1..n} \cup {x[i] : i \in 1..m}
  <1>1. m \in Nat /\ n \in Nat
    BY TreeFiles, SortedFiles
  <1>2. w \in Seq(S) /\ Len(w) = n /\ x \in Seq(S) /\ Len(x) = m
    <2> DEFINE W == {w[i] : i \in 1..n}
               X == {x[i] : i \in 1..m}
    <2>1. w \in Seq(W) /\ Len(w) = n
      BY <1>1 DEF Wrap
    <2>2. x \in Seq(X) /\ Len(x) = m
      BY <1>1 DEF Wrap
    <2>3. W \subseteq S /\ X \subseteq S
      OBVIOUS
    <2> HIDE DEF w, x, W, X, S, n, m
    <2> QED BY <2>1, <2>2, <2>3
  <1>3. Bootstrap(v) \in S
    OBVIOUS
  <1>4. t = <<Bootstrap(v)>> \o (w \o x)
    BY DEF Script, RenderSql, RenderBootstrap, Bootstrap
  <1>5. \A i \in 1..n : w[i].type = "incremental"
    BY <1>1 DEF Wrap
  <1>6. \A i \in 1..m : /\ x[i].type = "idempotent"
                        /\ x[i].title = Sorted(Releases[v].idempotent)[i].title
    BY <1>1 DEF Wrap
  <1>7. /\ Incrementals(v)[1] = Bootstrap(v)
        /\ \A i \in 1..n : Incrementals(v)[1 + i] = w[i]
    BY IncrementalShape
  <1>8. Bootstrap(v).type = "incremental"
    BY DEF Bootstrap
  <1> HIDE DEF t, w, x, m, n, S
  <1>9. /\ w \o x \in Seq(S) /\ Len(w \o x) = n + m
        /\ \A i \in 1..n : (w \o x)[i] = w[i]
        /\ \A i \in 1..m : (w \o x)[n + i] = x[i]
    BY <1>2
  <1>10. /\ t \in Seq(S) /\ Len(t) = 1 + n + m /\ t[1] = Bootstrap(v)
         /\ \A i \in 1..(n + m) : t[1 + i] = (w \o x)[i]
    <2> DEFINE c == w \o x
    <2>1. c \in Seq(S) /\ Len(c) = n + m /\ t = <<Bootstrap(v)>> \o c
      BY <1>3, <1>4, <1>9
    <2> HIDE DEF c
    <2>2. /\ t \in Seq(S) /\ Len(t) = 1 + n + m /\ t[1] = Bootstrap(v)
          /\ \A i \in 1..(n + m) : t[1 + i] = c[i]
      BY <1>1, <1>3, <2>1, Prepended
    <2> QED BY <2>2 DEF c
  <1>11. \A i \in 1..n : t[1 + i] = w[i]
    <2>1. \A i \in 1..n : i \in 1..(n + m)
      BY <1>1
    <2> QED BY <1>9, <1>10, <2>1
  <1>12. \A i \in 1..m : t[1 + n + i] = x[i]
    <2>1. \A i \in 1..m : n + i \in 1..(n + m) /\ 1 + (n + i) = 1 + n + i
      BY <1>1
    <2> QED BY <1>9, <1>10, <2>1
  <1>13. Size(v) = 1 + n
    BY <1>1 DEF Size, n
  <1>14. \A i \in 1..(1 + n) : t[i] = Incrementals(v)[i] /\ t[i].type = "incremental"
    <2> SUFFICES ASSUME NEW i \in 1..(1 + n)
                 PROVE  t[i] = Incrementals(v)[i] /\ t[i].type = "incremental"
      OBVIOUS
    <2>1. CASE i = 1
      BY <1>7, <1>8, <1>10, <2>1
    <2>2. CASE i # 1
      <3>1. i - 1 \in 1..n /\ 1 + (i - 1) = i
        BY <1>1, <2>2
      <3> QED BY <1>5, <1>7, <1>11, <3>1
    <2> QED BY <2>1, <2>2
  <1>15. DOMAIN t = 1..(1 + n + m)
    BY <1>1, <1>10
  <1>16. /\ Size(v) \in Nat \ {0} /\ DOMAIN t = 1..(Size(v) + m)
         /\ \A i \in 1..Size(v) : t[i] = Incrementals(v)[i] /\ t[i].type = "incremental"
    BY <1>1, <1>13, <1>14, <1>15
  <1>17. \A i \in 1..m : /\ t[Size(v) + i].type = "idempotent"
                         /\ t[Size(v) + i].title = Sorted(Releases[v].idempotent)[i].title
    BY <1>6, <1>12, <1>13
  <1> QED BY <1>1, <1>10, <1>16, <1>17 DEF t, m

LEMMA TitlesDiffer ==
  ASSUME NEW v \in Versions, NEW i \in 1..Size(v), NEW j \in 1..Size(v),
         Incrementals(v)[i].title = Incrementals(v)[j].title
  PROVE  i = j
  <1> DEFINE files == Releases[v].incremental
             n == Cardinality(files)
             s == Sorted(files)
             t == Incrementals(v)
  <1>1. n \in Nat /\ Size(v) = n + 1
    BY IncrementalShape DEF Size
  <1>2. t[1].title = "create-ext-schema" /\ \A k \in 1..n : t[1 + k].title = s[k].title
    <2>1. t[1] = Bootstrap(v) /\ \A k \in 1..n : t[1 + k].title = s[k].title
      BY IncrementalShape
    <2>2. Bootstrap(v).title = "create-ext-schema"
      BY DEF Bootstrap
    <2> QED BY <2>1, <2>2
  <1>3. /\ \A k \in 1..n : s[k] \in files
        /\ \A k, l \in 1..n : s[k] = s[l] => k = l
    BY TreeFiles, SortedFiles
  <1>4. \A f \in files : /\ f.title # "create-ext-schema"
                         /\ \A g \in files : f.title = g.title => f = g
    BY MGAssumption
  <1>5. t[i].title = t[j].title
    OBVIOUS
  <1> HIDE DEF t, s, n, files
  <1>6. \A k \in 1..Size(v) : k = 1 \/ (k - 1 \in 1..n /\ t[k].title = s[k - 1].title)
    <2>1. \A k \in 1..Size(v) : k = 1 \/ (k - 1 \in 1..n /\ 1 + (k - 1) = k)
      BY <1>1
    <2> QED BY <1>2, <2>1
  <1>7. CASE i = 1 /\ j = 1
    BY <1>7
  <1>8. CASE i # 1 /\ j # 1
    <2>1. i - 1 \in 1..n /\ j - 1 \in 1..n /\ s[i - 1].title = s[j - 1].title
      BY <1>5, <1>6, <1>8
    <2>2. i - 1 = j - 1
      BY <1>3, <1>4, <2>1
    <2> QED BY <1>1, <2>2
  <1>9. CASE i = 1 /\ j # 1
    BY <1>2, <1>3, <1>4, <1>5, <1>6, <1>9
  <1>10. CASE i # 1 /\ j = 1
    BY <1>2, <1>3, <1>4, <1>5, <1>6, <1>10
  <1> QED BY <1>7, <1>8, <1>9, <1>10

\* The scripts of two releases agree as far as the older one goes.
LEMMA OlderIsBeginning ==
  ASSUME NEW v \in Versions, NEW w \in Versions, v < w, Builds(v), Builds(w)
  PROVE  /\ Size(v) <= Size(w)
         /\ \A i \in 1..Size(v) : Incrementals(v)[i].title = Incrementals(w)[i].title
  <1> DEFINE F(u) == Releases[u].incremental
             n(u) == Cardinality(F(u))
             s(u) == Sorted(F(u))
  <1>1. /\ n(v) \in Nat /\ n(w) \in Nat
        /\ \A i \in 1..n(v) : s(v)[i] \in F(v) /\ s(v)[i].number = i
        /\ \A i \in 1..n(w) : s(w)[i].number = i
        /\ \A f \in F(w) : \E i \in 1..n(w) : s(w)[i] = f
    <2>1. Files(F(v)) /\ Files(F(w))
      BY TreeFiles
    <2>2. ~RenderFails(F(v), "incremental") /\ ~RenderFails(F(w), "incremental")
      BY DEF Builds
    <2>3. /\ n(v) \in Nat
          /\ \A i \in 1..n(v) : s(v)[i] \in F(v) /\ s(v)[i].number = i
      BY <2>1, <2>2, NumberedFiles, Zenon
    <2>4. /\ n(w) \in Nat
          /\ \A i \in 1..n(w) : s(w)[i] \in F(w) /\ s(w)[i].number = i
          /\ \A f \in F(w) : \E i \in 1..n(w) : s(w)[i] = f
      BY <2>1, <2>2, NumberedFiles, Zenon
    <2> HIDE DEF n, s, F
    <2> QED BY <2>3, <2>4
  <1>2. \A f \in F(v) : \E g \in F(w) : g.title = f.title /\ g.number = f.number
    BY MGAssumption
  <1>3. /\ Incrementals(v)[1] = Bootstrap(v) /\ Incrementals(w)[1] = Bootstrap(w)
        /\ Bootstrap(v).title = Bootstrap(w).title
        /\ \A i \in 1..n(v) : Incrementals(v)[1 + i].title = s(v)[i].title
        /\ \A i \in 1..n(w) : Incrementals(w)[1 + i].title = s(w)[i].title
    <2>1. Bootstrap(v).title = Bootstrap(w).title
      BY DEF Bootstrap
    <2> QED BY <2>1, IncrementalShape
  <1>4. Size(v) = n(v) + 1 /\ Size(w) = n(w) + 1
    BY DEF Size
  <1> HIDE DEF F, n, s
  <1>5. \A i \in 1..n(v) : i \in 1..n(w) /\ s(w)[i].title = s(v)[i].title
    <2> SUFFICES ASSUME NEW i \in 1..n(v) PROVE i \in 1..n(w) /\ s(w)[i].title = s(v)[i].title
      OBVIOUS
    <2>1. PICK g \in F(w) : g.title = s(v)[i].title /\ g.number = i
      BY <1>1, <1>2
    <2>2. PICK j \in 1..n(w) : s(w)[j] = g
      BY <1>1
    <2>3. i = j
      BY <1>1, <2>1, <2>2
    <2> QED BY <2>1, <2>2, <2>3
  <1>6. n(v) <= n(w)
    <2>1. CASE n(v) = 0
      BY <1>1, <2>1
    <2>2. CASE n(v) # 0
      <3>1. n(v) \in 1..n(v)
        BY <1>1, <2>2
      <3> QED BY <1>1, <1>5, <3>1
    <2> QED BY <2>1, <2>2
  <1>7. ASSUME NEW i \in 1..Size(v)
        PROVE  Incrementals(v)[i].title = Incrementals(w)[i].title
    <2>1. CASE i = 1
      BY <1>3, <2>1
    <2>2. CASE i # 1
      <3>1. i - 1 \in 1..n(v) /\ i - 1 \in 1..n(w) /\ 1 + (i - 1) = i
        BY <1>1, <1>4, <1>5, <2>2
      <3> QED BY <1>3, <1>5, <3>1
    <2> QED BY <2>1, <2>2
  <1> QED BY <1>1, <1>4, <1>6, <1>7

----------------------------------------------------------------------------
(* The inductive invariant *)

Blocks == UNION {{Script(Releases[v])[i] : i \in DOMAIN Script(Releases[v])} : v \in Versions}

Entry(b) == [title |-> b.title, body |-> b.body]

Database == [release    : Nat,
             migration  : SUBSET {Entry(b) : b \in Blocks},
             applied    : Seq(Blocks),
             idempotent : Seq(Blocks)]

MGTyped == /\ DOMAIN script = Versions
           /\ \A v \in Versions :
                script[v] = <<>> \/ (Builds(v) /\ script[v] = Script(Releases[v]))
           /\ db \in Database /\ work \in Database
           /\ upgrade \in [target : Nat, pos : Nat]

\* The migration table has what was applied.
Tracked(d) == d.migration = {Entry(d.applied[i]) : i \in DOMAIN d.applied}

\* The blocks applied have the titles of v's incremental files, as far as they go.
Beginning(d, v) ==
  /\ Len(d.applied) <= Size(v)
  /\ \A i \in DOMAIN d.applied : d.applied[i].title = Incrementals(v)[i].title

\* A committed database is that of its release.
Stored == /\ Tracked(db)
          /\ db.release = 0 => db.applied = <<>>
          /\ db.release # 0 => /\ db.release \in Versions /\ Builds(db.release)
                              /\ Beginning(db, db.release)
                              /\ Len(db.applied) = Size(db.release)

\* A transaction has applied, or found applied, the files it has passed.
Passed ==
  upgrade # Idle =>
    LET v == upgrade.target
    IN  /\ v \in Versions /\ script[v] # <<>> /\ upgrade.pos # 0
        /\ Tracked(work) /\ Beginning(work, v)
        /\ \A i \in 1..Size(v) : i < upgrade.pos => i <= Len(work.applied)
        /\ \A i \in DOMAIN work.applied :
             i < upgrade.pos /\ Incrementals(v)[i].body # work.applied[i].body =>
               Incrementals(v)[i].title \in warned \cup Tolerated

MGInv == MGTyped /\ Stored /\ Passed /\ (upgrade = Idle => work = db)

LEMMA MGInitInv == MGInit => MGInv
  <1> SUFFICES ASSUME MGInit PROVE MGInv
    OBVIOUS
  <1>1. /\ db = [release |-> 0, migration |-> {}, applied |-> <<>>, idempotent |-> <<>>]
        /\ work = db /\ upgrade = Idle /\ script = [v \in Versions |-> <<>>]
    BY DEF MGInit
  <1>2. db \in Database
    BY <1>1 DEF Database
  <1>3. upgrade \in [target : Nat, pos : Nat]
    BY <1>1 DEF Idle
  <1>4. Tracked(db)
    BY <1>1 DEF Tracked
  <1>5. MGTyped
    BY <1>1, <1>2, <1>3 DEF MGTyped
  <1>6. Stored
    BY <1>1, <1>4 DEF Stored
  <1> QED BY <1>1, <1>5, <1>6 DEF MGInv, Passed

LEMMA BuildInv ==
  ASSUME MGInv, NEW v \in Versions, Build(v)
  PROVE  MGInv'
  <1>1. /\ script[v] = <<>> /\ UNCHANGED <<db, upgrade, work, warned>>
        /\ script' = [script EXCEPT ![v] = IF Builds(v) THEN Script(Releases[v]) ELSE <<>>]
    BY DEF Build
  <1>2. MGTyped
    BY DEF MGInv
  <1>3. DOMAIN script' = Versions /\ \A w \in Versions : w # v => script'[w] = script[w]
    BY <1>1, <1>2 DEF MGTyped
  <1>4. script'[v] = <<>> \/ (Builds(v) /\ script'[v] = Script(Releases[v]))
    BY <1>1, <1>2 DEF MGTyped
  <1>5. MGTyped'
    BY <1>1, <1>2, <1>3, <1>4 DEF MGTyped
  <1>6. Stored'
    BY <1>1 DEF MGInv, Stored, Tracked, Beginning
  <1>7. Passed'
    <2>1. \A w \in Versions : script[w] # <<>> => script'[w] # <<>>
      BY <1>1, <1>3
    <2> QED BY <1>1, <2>1 DEF MGInv, Passed, Tracked, Beginning
  <1> QED BY <1>1, <1>5, <1>6, <1>7 DEF MGInv

\* The files of the database's release begin those of a later one.
LEMMA BeginInv ==
  ASSUME MGInv, NEW v \in Versions, Begin(v)
  PROVE  MGInv'
  <1>1. /\ upgrade = Idle /\ script[v] # <<>> /\ v > db.release
        /\ upgrade' = [target |-> v, pos |-> 1]
        /\ work' = [db EXCEPT !.idempotent = <<>>]
        /\ UNCHANGED <<script, db>>
    BY DEF Begin
  <1>2. MGTyped /\ Stored
    BY DEF MGInv
  <1>3. v \in Nat \ {0} /\ Builds(v)
    BY <1>1, <1>2, MGAssumption DEF MGTyped
  <1>4. work' \in Database /\ work'.applied = db.applied /\ work'.migration = db.migration
    <2> DEFINE E == {Entry(b) : b \in Blocks}
    <2>1. db \in [release : Nat, migration : SUBSET E, applied : Seq(Blocks),
                  idempotent : Seq(Blocks)]
      BY <1>2 DEF MGTyped, Database
    <2>2. <<>> \in Seq(Blocks)
      OBVIOUS
    <2> HIDE DEF E
    <2>3. /\ work' \in [release : Nat, migration : SUBSET E, applied : Seq(Blocks),
                        idempotent : Seq(Blocks)]
          /\ work'.applied = db.applied /\ work'.migration = db.migration
      BY <1>1, <2>1, <2>2
    <2> QED BY <2>3 DEF Database, E
  <1>5. upgrade'.target = v /\ upgrade'.pos = 1 /\ upgrade' \in [target : Nat, pos : Nat]
    BY <1>1, <1>3
  <1>6. MGTyped'
    BY <1>1, <1>2, <1>4, <1>5 DEF MGTyped
  <1>7. Stored' /\ Tracked(work')
    <2>1. Stored'
      BY <1>1, <1>2 DEF Stored, Tracked, Beginning
    <2> QED BY <1>2, <1>4, <2>1 DEF Stored, Tracked
  <1>8. Beginning(work', v)
    <2>1. CASE db.release = 0
      <3>1. work'.applied = <<>>
        BY <1>2, <1>4, <2>1 DEF Stored
      <3> QED BY <3>1, ScriptShape DEF Beginning
    <2>2. CASE db.release # 0
      <3> DEFINE u == db.release
      <3>1. /\ u \in Versions /\ Builds(u) /\ u < v
            /\ Beginning(db, u) /\ Len(db.applied) = Size(u)
        <4>1. u \in Nat
          BY <1>2 DEF MGTyped, Database
        <4> QED BY <1>1, <1>2, <1>3, <2>2, <4>1 DEF Stored
      <3>2. /\ Size(u) <= Size(v)
            /\ \A i \in 1..Size(u) : Incrementals(u)[i].title = Incrementals(v)[i].title
        BY <1>3, <3>1, OlderIsBeginning
      <3>3. DOMAIN db.applied = 1..Size(u)
        <4>1. db.applied \in Seq(Blocks)
          BY <1>2 DEF MGTyped, Database
        <4> QED BY <3>1, <4>1
      <3> HIDE DEF u
      <3> QED BY <1>4, <3>1, <3>2, <3>3 DEF Beginning
    <2> QED BY <2>1, <2>2
  <1>9. Passed'
    <2>1. \A i \in 1..Size(v) : ~(i < 1)
      BY ScriptShape
    <2>2. \A i \in DOMAIN work'.applied : ~(i < 1)
      BY <1>4 DEF Database
    <2>3. /\ v \in Versions /\ script'[v] # <<>>
          /\ Tracked(work') /\ Beginning(work', v)
      BY <1>1, <1>7, <1>8
    <2> QED BY <1>5, <2>1, <2>2, <2>3 DEF Passed, Tracked, Beginning
  <1>10. upgrade' # Idle
    BY <1>3, <1>5 DEF Idle
  <1> QED BY <1>6, <1>7, <1>9, <1>10 DEF MGInv

\* What the block of a running transaction is.
LEMMA BlockShape ==
  ASSUME MGInv, InScript
  PROVE  LET v == upgrade.target
             k == upgrade.pos
             m == Cardinality(Releases[v].idempotent)
         IN  /\ v \in Versions /\ script[v] = Script(Releases[v]) /\ Builds(v)
             /\ Size(v) \in Nat \ {0} /\ m \in Nat /\ k \in 1..(Size(v) + m)
             /\ Block \in Blocks /\ Block = Script(Releases[v])[k]
             /\ Block.type = "incremental" => k \in 1..Size(v) /\ Block = Incrementals(v)[k]
             /\ Block.type = "idempotent" => k \in (Size(v) + 1)..(Size(v) + m)
  <1> DEFINE v == upgrade.target
             k == upgrade.pos
             m == Cardinality(Releases[v].idempotent)
             t == Script(Releases[v])
  <1>1. v \in Versions /\ script[v] = t /\ Builds(v) /\ Block = t[k] /\ k \in DOMAIN t
    BY DEF InScript, MGInv, MGTyped, Passed, Block
  <1>2. /\ Size(v) \in Nat \ {0} /\ m \in Nat /\ DOMAIN t = 1..(Size(v) + m)
        /\ \A i \in 1..Size(v) : t[i] = Incrementals(v)[i] /\ t[i].type = "incremental"
        /\ \A i \in 1..m : t[Size(v) + i].type = "idempotent"
    BY <1>1, ScriptShape
  <1>3. Block \in Blocks
    BY <1>1 DEF Blocks
  <1> HIDE DEF t, k, m, v
  <1>4. k \in 1..Size(v) \/ (k \in (Size(v) + 1)..(Size(v) + m) /\ k - Size(v) \in 1..m)
    BY <1>1, <1>2
  <1>5. CASE k \in 1..Size(v)
    BY <1>1, <1>2, <1>3, <1>5 DEF t, k, m, v
  <1>6. CASE k \in (Size(v) + 1)..(Size(v) + m) /\ k - Size(v) \in 1..m
    <2>1. Size(v) + (k - Size(v)) = k
      BY <1>2, <1>6
    <2>2. t[k].type = "idempotent"
      BY <1>2, <1>6, <2>1
    <2> QED BY <1>1, <1>2, <1>3, <1>6, <2>2 DEF t, k, m, v
  <1> QED BY <1>4, <1>5, <1>6

LEMMA NextBlockKeeps ==
  ASSUME MGInv, InScript, NextBlock, work' \in Database
  PROVE  /\ MGTyped' /\ Stored'
         /\ upgrade'.target = upgrade.target /\ upgrade'.pos = upgrade.pos + 1
         /\ upgrade.pos \in Nat \ {0} /\ upgrade' # Idle
  <1>1. /\ upgrade' = [upgrade EXCEPT !.pos = @ + 1] /\ UNCHANGED <<script, db>>
        /\ upgrade \in [target : Nat, pos : Nat]
    BY DEF NextBlock, MGInv, MGTyped
  <1>2. /\ upgrade'.target = upgrade.target /\ upgrade'.pos = upgrade.pos + 1
        /\ upgrade' \in [target : Nat, pos : Nat] /\ upgrade.pos \in Nat
    BY <1>1
  <1>3. upgrade # Idle /\ upgrade.pos # 0
    BY DEF InScript, MGInv, Passed
  <1>4. upgrade' # Idle
    BY <1>2 DEF Idle
  <1>5. MGTyped'
    BY <1>1, <1>2 DEF MGInv, MGTyped
  <1>6. Stored'
    BY <1>1 DEF MGInv, Stored, Tracked, Beginning
  <1> QED BY <1>2, <1>3, <1>4, <1>5, <1>6

\* A title that is in the migration table was applied in its place.
LEMMA SkipAppliedInv ==
  ASSUME MGInv, SkipApplied
  PROVE  MGInv'
  <1> DEFINE v == upgrade.target
             k == upgrade.pos
             I == Incrementals(v)
             a == work.applied
  <1>1. /\ InScript /\ Block.type = "incremental" /\ Migrated(Block.title) # {}
        /\ warned' = IF BodyDiffers /\ Block.title \notin Tolerated
                     THEN warned \cup {Block.title} ELSE warned
        /\ work' = work /\ NextBlock
    BY DEF SkipApplied
  <1>2. /\ v \in Versions /\ script[v] # <<>> /\ Tracked(work) /\ Beginning(work, v)
        /\ \A i \in 1..Size(v) : i < k => i <= Len(a)
        /\ \A i \in DOMAIN a : i < k /\ I[i].body # a[i].body =>
             I[i].title \in warned \cup Tolerated
    BY <1>1 DEF InScript, MGInv, Passed
  <1>3. work \in Database /\ MGTyped /\ a \in Seq(Blocks) /\ DOMAIN a = 1..Len(a)
    <2>1. work \in Database /\ MGTyped
      BY DEF MGInv, MGTyped
    <2>2. a \in Seq(Blocks)
      BY <2>1 DEF Database
    <2> QED BY <2>1, <2>2
  <1>4. /\ MGTyped' /\ Stored' /\ upgrade'.target = v /\ upgrade'.pos = k + 1
        /\ k \in Nat \ {0} /\ upgrade' # Idle /\ script' = script
    BY <1>1, <1>3, NextBlockKeeps DEF NextBlock
  <1>5. k \in 1..Size(v) /\ Block = I[k] /\ Size(v) \in Nat
    BY <1>1, BlockShape
  <1>6. PICK m \in Migrated(Block.title) : TRUE
    BY <1>1
  <1>7. PICK i \in DOMAIN a : m = Entry(a[i]) /\ a[i].title = Block.title
    BY <1>2, <1>6 DEF Migrated, Tracked, Entry
  <1>8. i = k
    <2>1. i \in 1..Size(v) /\ a[i].title = I[i].title
      BY <1>2, <1>3, <1>5, <1>7 DEF Beginning
    <2> QED BY <1>2, <1>5, <1>7, <2>1, TitlesDiffer
  <1>9. \A j \in 1..Size(v) : j < k + 1 => j <= Len(a)
    BY <1>2, <1>3, <1>4, <1>5, <1>7, <1>8
  <1>10. \A j \in DOMAIN a : j < k + 1 /\ I[j].body # a[j].body =>
           I[j].title \in warned' \cup Tolerated
    <2> SUFFICES ASSUME NEW j \in DOMAIN a, j < k + 1, I[j].body # a[j].body
                 PROVE  I[j].title \in warned' \cup Tolerated
      OBVIOUS
    <2>1. warned \subseteq warned'
      BY <1>1
    <2>2. CASE j = k
      <3>1. BodyDiffers
        BY <1>5, <1>6, <1>7, <1>8, <2>2 DEF BodyDiffers, Entry
      <3> QED BY <1>1, <1>5, <2>2, <3>1
    <2>3. CASE j # k
      <3>1. j < k
        BY <1>3, <1>4, <2>3
      <3> QED BY <1>2, <2>1, <3>1
    <2> QED BY <2>2, <2>3
  <1> HIDE DEF v, k, I, a
  <1>11. Passed'
    BY <1>1, <1>2, <1>4, <1>9, <1>10 DEF Passed, Tracked, Beginning, v, k, I, a
  <1> QED BY <1>4, <1>11 DEF MGInv

\* A title that is not there is the next one.
LEMMA ApplyIncrementalInv ==
  ASSUME MGInv, ApplyIncremental
  PROVE  MGInv'
  <1> DEFINE v == upgrade.target
             k == upgrade.pos
             I == Incrementals(v)
             a == work.applied
             E == {Entry(b) : b \in Blocks}
  <1>1. /\ InScript /\ Block.type = "incremental" /\ Migrated(Block.title) = {}
        /\ work' = [work EXCEPT
             !.applied   = Append(@, Block),
             !.migration = @ \cup {[title |-> Block.title, body |-> Block.body]}]
        /\ warned' = warned /\ NextBlock
    BY DEF ApplyIncremental
  <1>2. /\ v \in Versions /\ script[v] # <<>> /\ Tracked(work) /\ Beginning(work, v)
        /\ \A i \in 1..Size(v) : i < k => i <= Len(a)
        /\ \A i \in DOMAIN a : i < k /\ I[i].body # a[i].body =>
             I[i].title \in warned \cup Tolerated
    BY <1>1 DEF InScript, MGInv, Passed
  <1>3. k \in 1..Size(v) /\ Block = I[k] /\ Size(v) \in Nat /\ Block \in Blocks
    BY <1>1, BlockShape
  <1>4. work \in [release : Nat, migration : SUBSET E, applied : Seq(Blocks),
                 idempotent : Seq(Blocks)]
    BY DEF MGInv, MGTyped, Database
  <1>5. Entry(Block) \in E /\ Entry(Block) = [title |-> Block.title, body |-> Block.body]
    BY <1>3 DEF Entry
  <1> HIDE DEF E
  <1>6. /\ work' \in [release : Nat, migration : SUBSET E, applied : Seq(Blocks),
                      idempotent : Seq(Blocks)]
        /\ work'.applied = Append(a, Block)
        /\ work'.migration = work.migration \cup {Entry(Block)}
    <2>1. Append(work.applied, Block) \in Seq(Blocks)
      BY <1>3, <1>4
    <2>2. work.migration \cup {Entry(Block)} \in SUBSET E
      BY <1>4, <1>5
    <2>3. work' = [work EXCEPT !.applied   = Append(@, Block),
                               !.migration = @ \cup {Entry(Block)}]
      BY <1>1, <1>5
    <2> QED BY <1>4, <2>1, <2>2, <2>3
  <1>7. work' \in Database
    BY <1>6 DEF Database, E
  <1>8. a \in Seq(Blocks) /\ Len(a) \in Nat /\ DOMAIN a = 1..Len(a)
    BY <1>4
  <1>9. /\ MGTyped' /\ Stored' /\ upgrade'.target = v /\ upgrade'.pos = k + 1
        /\ k \in Nat \ {0} /\ upgrade' # Idle /\ script' = script
    BY <1>1, <1>7, NextBlockKeeps DEF NextBlock
  <1>10. Len(a) = k - 1
    <2>1. \A i \in DOMAIN a : a[i].title # Block.title
      <3> SUFFICES ASSUME NEW i \in DOMAIN a, a[i].title = Block.title PROVE FALSE
        OBVIOUS
      <3>1. Entry(a[i]) \in work.migration
        BY <1>2 DEF Tracked
      <3>2. Entry(a[i]).title = Block.title
        BY DEF Entry
      <3> QED BY <1>1, <3>1, <3>2 DEF Migrated
    <2>2. \A i \in DOMAIN a : i # k
      BY <1>2, <1>3, <2>1 DEF Beginning
    <2>3. ~(k <= Len(a))
      BY <1>3, <1>8, <2>2
    <2>4. k = 1 \/ k - 1 <= Len(a)
      BY <1>2, <1>3
    <2> QED BY <1>3, <1>8, <2>3, <2>4
  <1>11. /\ Len(work'.applied) = k /\ DOMAIN work'.applied = 1..k
         /\ work'.applied[k] = Block /\ \A i \in 1..(k - 1) : work'.applied[i] = a[i]
    BY <1>3, <1>6, <1>8, <1>10
  <1> DEFINE b == work'.applied
  <1> HIDE DEF a, b, I, v, k
  <1>12. Tracked(work')
    <2>1. work.migration = {Entry(a[i]) : i \in 1..(k - 1)}
      BY <1>2, <1>8, <1>10 DEF Tracked, a
    <2>2. work'.migration = {Entry(b[i]) : i \in 1..k}
      BY <1>3, <1>6, <1>11, <2>1 DEF b
    <2> QED BY <1>11, <2>2 DEF Tracked, b
  <1>13. Beginning(work', v)
    <2>1. \A i \in 1..k : b[i].title = I[i].title
      <3> SUFFICES ASSUME NEW i \in 1..k PROVE b[i].title = I[i].title
        OBVIOUS
      <3>1. CASE i = k
        BY <1>3, <1>11, <3>1 DEF b
      <3>2. CASE i # k
        <4>1. i \in 1..(k - 1)
          BY <1>3, <3>2
        <4>2. a[i].title = I[i].title
          BY <1>2, <1>8, <1>10, <4>1 DEF Beginning, a, I
        <4> QED BY <1>11, <4>1, <4>2 DEF b
      <3> QED BY <3>1, <3>2
    <2> QED BY <1>3, <1>11, <2>1 DEF Beginning, b, I
  <1>14. \A i \in 1..Size(v) : i < k + 1 => i <= Len(b)
    BY <1>3, <1>11 DEF b
  <1>15. \A i \in 1..k : i < k + 1 /\ I[i].body # b[i].body =>
           I[i].title \in warned' \cup Tolerated
    <2>1. \A i \in 1..(k - 1) : I[i].body # b[i].body => I[i].title \in warned' \cup Tolerated
      <3> SUFFICES ASSUME NEW i \in 1..(k - 1), I[i].body # b[i].body
                   PROVE  I[i].title \in warned' \cup Tolerated
        OBVIOUS
      <3>1. i \in DOMAIN a /\ i < k /\ a[i] = b[i]
        BY <1>3, <1>8, <1>10, <1>11 DEF a, b
      <3> QED BY <1>1, <1>2, <3>1 DEF a, I, k, v
    <2>2. I[k].body = b[k].body
      BY <1>3, <1>11 DEF b
    <2> QED BY <1>3, <2>1, <2>2
  <1>16. Passed'
    <2>1. /\ v \in Versions /\ script'[v] # <<>> /\ k + 1 # 0
      BY <1>2, <1>3, <1>9
    <2> QED BY <1>9, <1>11, <1>12, <1>13, <1>14, <1>15, <2>1
            DEF Passed, Tracked, Beginning, b, I
  <1> QED BY <1>9, <1>16 DEF MGInv

LEMMA ApplyIdempotentInv ==
  ASSUME MGInv, ApplyIdempotent
  PROVE  MGInv' /\ Titles(work.applied) = Titles(Incrementals(upgrade.target))
  <1> DEFINE v == upgrade.target
             k == upgrade.pos
             I == Incrementals(v)
             a == work.applied
  <1>1. /\ InScript /\ Block.type = "idempotent"
        /\ work' = [work EXCEPT !.idempotent = Append(@, Block)]
        /\ warned' = warned /\ NextBlock
    BY DEF ApplyIdempotent
  <1>2. /\ v \in Versions /\ script[v] # <<>> /\ Tracked(work) /\ Beginning(work, v)
        /\ \A i \in 1..Size(v) : i < k => i <= Len(a)
        /\ \A i \in DOMAIN a : i < k /\ I[i].body # a[i].body =>
             I[i].title \in warned \cup Tolerated
    BY <1>1 DEF InScript, MGInv, Passed
  <1>3. k > Size(v) /\ Size(v) \in Nat \ {0} /\ Block \in Blocks /\ k \in Nat
    BY <1>1, BlockShape
  <1>4. work \in Database /\ a \in Seq(Blocks) /\ DOMAIN a = 1..Len(a)
    <2>1. work \in Database
      BY DEF MGInv, MGTyped
    <2>2. a \in Seq(Blocks)
      BY <2>1 DEF Database
    <2> QED BY <2>1, <2>2
  <1>5. work' \in Database /\ work'.applied = a /\ work'.migration = work.migration
    <2> DEFINE E == {Entry(b) : b \in Blocks}
    <2>1. work \in [release : Nat, migration : SUBSET E, applied : Seq(Blocks),
                   idempotent : Seq(Blocks)]
      BY <1>4 DEF Database
    <2>2. Append(work.idempotent, Block) \in Seq(Blocks)
      BY <1>3, <2>1
    <2> HIDE DEF E
    <2>3. /\ work' \in [release : Nat, migration : SUBSET E, applied : Seq(Blocks),
                        idempotent : Seq(Blocks)]
          /\ work'.applied = a /\ work'.migration = work.migration
      BY <1>1, <2>1, <2>2
    <2> QED BY <2>3 DEF Database, E
  <1>6. /\ MGTyped' /\ Stored' /\ upgrade'.target = v /\ upgrade'.pos = k + 1
        /\ k \in Nat \ {0} /\ upgrade' # Idle /\ script' = script
    BY <1>1, <1>5, NextBlockKeeps DEF NextBlock
  <1>7. Len(a) = Size(v)
    <2>1. Size(v) <= Len(a)
      BY <1>2, <1>3
    <2> QED BY <1>2, <1>3, <1>4, <2>1 DEF Beginning
  <1>8. Titles(a) = Titles(I)
    <2>1. DOMAIN I = 1..Size(v) /\ DOMAIN a = 1..Size(v)
      BY <1>2, <1>4, <1>7, IncrementalShape
    <2>2. \A i \in 1..Size(v) : a[i].title = I[i].title
      BY <1>2, <2>1 DEF Beginning
    <2> QED BY <2>1, <2>2 DEF Titles
  <1> HIDE DEF v, k, I, a
  <1>9. \A i \in DOMAIN a : i < k + 1 /\ I[i].body # a[i].body =>
          I[i].title \in warned \cup Tolerated
    BY <1>2, <1>3, <1>4, <1>7
  <1>10. \A i \in 1..Size(v) : i < k + 1 => i <= Len(a)
    BY <1>3, <1>7
  <1>11. Passed'
    <2>1. /\ v \in Versions /\ script'[v] # <<>> /\ k + 1 # 0
      BY <1>2, <1>3, <1>6
    <2>2. Tracked(work') /\ Beginning(work', v)
      BY <1>2, <1>5 DEF Tracked, Beginning, a
    <2> QED BY <1>1, <1>5, <1>6, <1>9, <1>10, <2>1, <2>2
            DEF Passed, Tracked, Beginning, I, a
  <1> QED BY <1>6, <1>8, <1>11 DEF MGInv, v, I, a

LEMMA RollbackInv ==
  ASSUME MGInv, Rollback
  PROVE  MGInv'
  <1>1. /\ upgrade' = Idle /\ work' = db /\ UNCHANGED <<script, db, warned>>
    BY DEF Rollback
  <1>2. MGTyped /\ Stored
    BY DEF MGInv
  <1>3. MGTyped'
    BY <1>1, <1>2 DEF MGTyped, Idle
  <1>4. Stored'
    BY <1>1, <1>2 DEF Stored, Tracked, Beginning
  <1> QED BY <1>1, <1>3, <1>4 DEF MGInv, Passed

\* At the end all of the target's files are passed.
LEMMA CommitInv ==
  ASSUME MGInv, Commit
  PROVE  /\ MGInv'
         /\ \A i \in DOMAIN work.applied :
              LET b == Incrementals(upgrade.target)[i]
              IN  b.body # work.applied[i].body => b.title \in warned \cup Tolerated
  <1> DEFINE v == upgrade.target
             k == upgrade.pos
             I == Incrementals(v)
             a == work.applied
             m == Cardinality(Releases[v].idempotent)
  <1>1. /\ upgrade # Idle /\ ~InScript /\ db' = [work EXCEPT !.release = v]
        /\ work' = db' /\ upgrade' = Idle /\ UNCHANGED <<script, warned>>
    BY DEF Commit
  <1>2. /\ v \in Versions /\ script[v] # <<>> /\ k # 0
        /\ Tracked(work) /\ Beginning(work, v)
        /\ \A i \in 1..Size(v) : i < k => i <= Len(a)
        /\ \A i \in DOMAIN a : i < k /\ I[i].body # a[i].body =>
             I[i].title \in warned \cup Tolerated
    BY <1>1 DEF MGInv, Passed
  <1>3. MGTyped /\ work \in Database /\ k \in Nat
    BY DEF MGInv, MGTyped
  <1>4. script[v] = Script(Releases[v]) /\ Builds(v)
    BY <1>2, <1>3 DEF MGTyped
  <1>5. /\ Size(v) \in Nat \ {0} /\ m \in Nat
        /\ DOMAIN Script(Releases[v]) = 1..(Size(v) + m)
    BY <1>2, ScriptShape
  <1>6. k > Size(v) + m
    <2>1. k \notin 1..(Size(v) + m)
      BY <1>1, <1>4, <1>5 DEF InScript
    <2> QED BY <1>2, <1>3, <1>5, <2>1
  <1>7. a \in Seq(Blocks) /\ DOMAIN a = 1..Len(a) /\ Len(a) \in Nat
    <2>1. a \in Seq(Blocks)
      BY <1>3 DEF Database
    <2> QED BY <2>1
  <1>8. Len(a) = Size(v)
    <2>1. Size(v) \in 1..Size(v) /\ Size(v) < k
      <3> HIDE DEF m, k, v
      <3> QED BY <1>3, <1>5, <1>6
    <2>2. Size(v) <= Len(a)
      BY <1>2, <2>1
    <2> QED BY <1>2, <1>5, <1>7, <2>2 DEF Beginning
  <1>9. v \in Nat \ {0}
    BY <1>2, MGAssumption
  <1>10. /\ db' \in Database /\ db'.release = v
         /\ db'.applied = a /\ db'.migration = work.migration
    <2> DEFINE E == {Entry(b) : b \in Blocks}
    <2>1. work \in [release : Nat, migration : SUBSET E, applied : Seq(Blocks),
                   idempotent : Seq(Blocks)]
      BY <1>3 DEF Database
    <2> HIDE DEF E
    <2>2. /\ db' \in [release : Nat, migration : SUBSET E, applied : Seq(Blocks),
                      idempotent : Seq(Blocks)]
          /\ db'.release = v /\ db'.applied = a /\ db'.migration = work.migration
      BY <1>1, <1>9, <2>1
    <2> QED BY <2>2 DEF Database, E
  <1>11. \A i \in DOMAIN a : I[i].body # a[i].body => I[i].title \in warned \cup Tolerated
    <2>1. \A i \in DOMAIN a : i < k
      <3> HIDE DEF m, k, v, a
      <3> QED BY <1>3, <1>5, <1>6, <1>7, <1>8
    <2> QED BY <1>2, <2>1
  <1>12. MGTyped'
    BY <1>1, <1>3, <1>10 DEF MGTyped, Idle
  <1>13. Stored'
    <2>1. Tracked(db') /\ Beginning(db', v)
      BY <1>2, <1>10 DEF Tracked, Beginning
    <2> QED BY <1>2, <1>4, <1>8, <1>9, <1>10, <2>1 DEF Stored, Tracked, Beginning
  <1> QED BY <1>1, <1>11, <1>12, <1>13 DEF MGInv, Passed

LEMMA MGNextInv == MGInv /\ [MGNext]_mgVars => MGInv'
  <1> SUFFICES ASSUME MGInv, [MGNext]_mgVars PROVE MGInv'
    OBVIOUS
  <1>1. CASE UNCHANGED mgVars
    BY <1>1 DEF mgVars, MGInv, MGTyped, Stored, Passed, Tracked, Beginning
  <1> QED BY <1>1, BuildInv, BeginInv, SkipAppliedInv, ApplyIncrementalInv,
             ApplyIdempotentInv, RollbackInv, CommitInv DEF MGNext

----------------------------------------------------------------------------
(* Theorems *)

\* What MGSpec keeps true of scripts, databases and running transactions.
THEOREM MGInvariant == MGSpec => []MGInv
  <1> QED BY MGInitInv, MGNextInv, PTL DEF MGSpec

\* By whatever releases a database came to its release, it has applied the
\* incremental files of a fresh installation, in their order.
THEOREM UpgradeEqualsInstallHolds == MGSpec => []UpgradeEqualsInstall
  <1>1. MGInv => UpgradeEqualsInstall
    <2> SUFFICES ASSUME MGInv, db.release # 0
                 PROVE  Titles(db.applied) = Titles(Incrementals(db.release))
      BY DEF UpgradeEqualsInstall
    <2> DEFINE v == db.release
               a == db.applied
    <2>1. v \in Versions /\ Beginning(db, v) /\ Len(a) = Size(v)
      BY DEF MGInv, Stored
    <2>2. a \in Seq(Blocks)
      BY DEF MGInv, MGTyped, Database
    <2>3. DOMAIN a = 1..Size(v) /\ DOMAIN Incrementals(v) = 1..Size(v)
      BY <2>1, <2>2, IncrementalShape
    <2>4. \A i \in 1..Size(v) : a[i].title = Incrementals(v)[i].title
      BY <2>1, <2>3 DEF Beginning
    <2> QED BY <2>3, <2>4 DEF Titles
  <1> QED BY <1>1, MGInvariant, PTL

\* A transaction that commits has warned of each file that is not what the
\* database applied, but for the tolerated ones.
THEOREM ChangesReportedHolds == MGSpec => ChangesReported
  <1> DEFINE Reported == Commit => \A i \in DOMAIN work.applied :
               LET b == Incrementals(upgrade.target)[i]
               IN  b.body # work.applied[i].body => b.title \in warned \cup Tolerated
  <1>1. MGInv /\ [MGNext]_mgVars => [Reported]_mgVars
    BY CommitInv
  <1> QED BY <1>1, MGInvariant, PTL DEF MGSpec, ChangesReported

\* Functions are created on the release's own schema, those of the files
\* numbered 999 after all others.
THEOREM FunctionsOnFinalSchemaHolds == MGSpec => FunctionsOnFinalSchema
  <1> DEFINE t == script[upgrade.target]
             r == Releases[upgrade.target]
             Last == {f.title : f \in {g \in r.idempotent : g.number = 999}}
             OnFinal == ApplyIdempotent =>
               /\ Titles(work.applied) = Titles(Incrementals(upgrade.target))
               /\ Block.title \in {f.title : f \in r.idempotent}
               /\ Block.title \in Last =>
                    \A i \in DOMAIN t : i >= upgrade.pos => t[i].title \in Last
  <1>1. ASSUME MGInv, ApplyIdempotent PROVE OnFinal
    <2> DEFINE v == upgrade.target
               m == Cardinality(r.idempotent)
               s == Sorted(r.idempotent)
               j == upgrade.pos - Size(v)
    <2>1. InScript /\ Block.type = "idempotent"
      BY <1>1 DEF ApplyIdempotent
    <2>2. /\ v \in Versions /\ t = Script(r) /\ Builds(v) /\ Block = t[upgrade.pos]
          /\ Size(v) \in Nat \ {0} /\ m \in Nat
          /\ upgrade.pos \in (Size(v) + 1)..(Size(v) + m)
      BY <1>1, <2>1, BlockShape
    <2>3. /\ DOMAIN t = 1..(Size(v) + m)
          /\ \A i \in 1..m : t[Size(v) + i].title = s[i].title
      <3>1. /\ DOMAIN Script(Releases[v]) = 1..(Size(v) + m)
            /\ \A i \in 1..m : Script(Releases[v])[Size(v) + i].title = s[i].title
        BY <2>2, ScriptShape
      <3> QED BY <2>2, <3>1
    <2>4. /\ Files(r.idempotent) /\ ~RenderFails(r.idempotent, "idempotent")
          /\ \A i \in 1..m : s[i] \in r.idempotent
          /\ \A f, g \in r.idempotent : f.title = g.title => f = g
      <3>1. Files(r.idempotent) /\ ~RenderFails(r.idempotent, "idempotent")
        BY <2>2, TreeFiles DEF Builds
      <3>2. \A i \in 1..m : s[i] \in r.idempotent
        BY <3>1, SortedFiles
      <3>3. \A f, g \in r.idempotent : f.title = g.title => f = g
        BY <2>2, UniqueNames
      <3> QED BY <3>1, <3>2, <3>3
    <2>5. \A k \in 1..m : s[k].number = 999 => \A i \in k..m : s[i].number = 999
      BY <2>4, LastFiles
    <2>6. Titles(work.applied) = Titles(Incrementals(v))
      BY <1>1, ApplyIdempotentInv
    <2> DEFINE F == r.idempotent
    <2>7. /\ Last = {f.title : f \in {g \in F : g.number = 999}}
          /\ \A i \in 1..m : s[i] \in F
          /\ \A f, g \in F : f.title = g.title => f = g
      BY <2>4
    <2> HIDE DEF s, m, t, Last, F
    <2>8. j \in 1..m /\ Size(v) + j = upgrade.pos
      BY <2>2
    <2>9. Block.title = s[j].title
      BY <2>2, <2>3, <2>8
    <2>10. ASSUME Block.title \in Last, NEW i \in DOMAIN t, i >= upgrade.pos
           PROVE  t[i].title \in Last
      <3>1. i - Size(v) \in j..m /\ i - Size(v) \in 1..m /\ Size(v) + (i - Size(v)) = i
        BY <2>2, <2>3, <2>8, <2>10
      <3>2. s[j].number = 999
        BY <2>7, <2>8, <2>9, <2>10
      <3>3. s[i - Size(v)].number = 999
        BY <2>5, <2>8, <3>1, <3>2
      <3>4. t[i].title = s[i - Size(v)].title
        BY <2>3, <3>1
      <3> QED BY <2>7, <3>1, <3>3, <3>4
    <2>11. Block.title \in {f.title : f \in F}
      BY <2>7, <2>8, <2>9
    <2> QED BY <2>6, <2>10, <2>11 DEF F
  <1>2. MGInv /\ [MGNext]_mgVars => [OnFinal]_mgVars
    BY <1>1
  <1> QED BY <1>2, MGInvariant, PTL DEF MGSpec, FunctionsOnFinalSchema

=============================================================================
