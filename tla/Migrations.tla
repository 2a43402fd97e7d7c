----------------------------- MODULE Migrations -----------------------------
(***************************************************************************)
(* How a release's scripts are put together (src/build.rs) and applied to  *)
(* a database (src/templates/*-wrapper.sql).  The build numbers the files  *)
(* without gaps or duplicates; an installation or an upgrade runs all of   *)
(* them in one transaction: each incremental file once in the life of a    *)
(* database, by its name, each idempotent file every time.  A database may *)
(* skip releases on its way.                                               *)
(***************************************************************************)
EXTENDS Integers, Sequences, FiniteSets

CONSTANTS Releases,   \* sequence of source trees, oldest first:
                      \* [schema : body of 001-create-ext-schema.sql,
                      \*  incremental, idempotent : sets of [number, title, body]];
                      \* a file's title is its whole name, its number the prefix,
                      \* its body that with the release's version put in
          Tolerated   \* titles whose change raises no warning

VARIABLES script,   \* release -> what its build made, or <<>>
          db,       \* [release, migration, applied, idempotent]
          upgrade,  \* None, or [target, pos] of the transaction that runs
          work,     \* what the transaction has made of db
          warned    \* titles a warning was raised for, in this transaction

mgVars == <<script, db, upgrade, work, warned>>

Versions == DOMAIN Releases

Idle == [target |-> 0, pos |-> 0]

----------------------------------------------------------------------------
(* build.rs *)

\* fs::read_dir gives the files in no order; paths.sort() sorts their names.
\* A number has three digits and a dash, or four: 1000 and 1009 follow 100.
NamePlace(n) == IF n > 999 THEN 2 * n ELSE 20 * n - 1

Sorted(files) ==
  CHOOSE s \in [1..Cardinality(files) -> files] :
    \A i, j \in DOMAIN s :
      i < j => s[i] # s[j] /\ NamePlace(s[i].number) <= NamePlace(s[j].number)

Number(files, i) == IF i = 0 THEN 0 ELSE Sorted(files)[i].number

\* (mutant) gaps are let through.
NoDuplicate(files, i) == Number(files, i) > Number(files, i - 1)

\* The two assertions of render_file; 999 is for the script that is last.
InOrder(files, i) == Number(files, i) = Number(files, i - 1) + 1

RenderFails(files, type) ==
  \E i \in 1..Cardinality(files) :
    \/ (type = "incremental" \/ Number(files, i) # 999) /\ ~InOrder(files, i)
    \/ type = "idempotent" /\ Number(files, i) = 1000

Wrap(files, type) ==
  [i \in 1..Cardinality(files) |->
     [type |-> type, title |-> Sorted(files)[i].title, body |-> Sorted(files)[i].body]]

\* render_bootstrap: its schema file goes through the incremental wrapper.  What
\* is around it records nothing: 000-migration-table.sql makes the table unless
\* it is there, 002-stop-bgw.sql stops background workers.
RenderBootstrap(r) ==
  <<[type |-> "incremental", title |-> "create-ext-schema", body |-> r.schema]>>

\* (mutant) the functions first.
RenderFunctionsFirst(r) ==
  Wrap(r.idempotent, "idempotent") \o Wrap(r.incremental, "incremental")

RenderSql(r) == Wrap(r.incremental, "incremental") \o Wrap(r.idempotent, "idempotent")

Script(r) == RenderBootstrap(r) \o RenderSql(r)

Builds(v) == /\ ~RenderFails(Releases[v].incremental, "incremental")
             /\ ~RenderFails(Releases[v].idempotent, "idempotent")

\* Names are unique in a directory.  A release has the incremental files of the
\* earlier ones: e2e/tests/incremental-freeze-test.rs reads each of them.
ASSUME MGAssumption ==
  /\ Versions \subseteq Nat \ {0}
  /\ \A v \in Versions : \A files \in {Releases[v].incremental, Releases[v].idempotent} :
       /\ IsFiniteSet(files)
       /\ \A f, g \in files : f.number \in Nat /\ (f.title = g.title => f = g)
  /\ \A v \in Versions : \A f \in Releases[v].incremental :
       /\ f.title # "create-ext-schema"
       /\ \A w \in Versions : v < w /\ Builds(v) /\ Builds(w) =>
            \E g \in Releases[w].incremental : g.title = f.title /\ g.number = f.number

----------------------------------------------------------------------------

MGInit ==
  /\ script = [v \in Versions |-> <<>>]
  /\ db = [release |-> 0, migration |-> {}, applied |-> <<>>, idempotent |-> <<>>]
  /\ upgrade = Idle /\ work = db /\ warned = {}

\* A build that fails writes nothing.
Build(v) ==
  /\ script[v] = <<>>
  /\ script' = [script EXCEPT ![v] = IF Builds(v) THEN Script(Releases[v]) ELSE <<>>]
  /\ UNCHANGED <<db, upgrade, work, warned>>

\* CREATE EXTENSION, or ALTER EXTENSION UPDATE to any later release.
Begin(v) ==
  /\ upgrade = Idle /\ script[v] # <<>> /\ v > db.release
  /\ upgrade' = [target |-> v, pos |-> 1]
  /\ work' = [db EXCEPT !.idempotent = <<>>]
  /\ warned' = {}
  /\ UNCHANGED <<script, db>>

Block == script[upgrade.target][upgrade.pos]

InScript == upgrade # Idle /\ upgrade.pos \in DOMAIN script[upgrade.target]

NextBlock == upgrade' = [upgrade EXCEPT !.pos = @ + 1] /\ UNCHANGED <<script, db>>

Migrated(title) == {m \in work.migration : m.title = title}

\* (mutant) the names are compared.
NameDiffers == \E m \in Migrated(Block.title) : m.title # Block.title

\* <> is NULL, and nothing is said, for a name without a body.  There are such in
\* a database that a connector had made (templates/promscale--0.0.0.sql); here all
\* names are the wrapper's.
BodyDiffers == \E m \in Migrated(Block.title) : m.body # Block.body

SkipApplied ==
  /\ InScript /\ Block.type = "incremental" /\ Migrated(Block.title) # {}
  /\ warned' = IF BodyDiffers /\ Block.title \notin Tolerated
               THEN warned \cup {Block.title} ELSE warned
  /\ UNCHANGED work
  /\ NextBlock

ApplyIncremental ==
  /\ InScript /\ Block.type = "incremental" /\ Migrated(Block.title) = {}
  /\ work' = [work EXCEPT
       !.applied   = Append(@, Block),
       !.migration = @ \cup {[title |-> Block.title, body |-> Block.body]}]
  /\ UNCHANGED warned
  /\ NextBlock

ApplyIdempotent ==
  /\ InScript /\ Block.type = "idempotent"
  /\ work' = [work EXCEPT !.idempotent = Append(@, Block)]
  /\ UNCHANGED warned
  /\ NextBlock

\* An error in any script, or a crash, rolls all of it back.
Rollback == /\ upgrade # Idle
            /\ upgrade' = Idle
            /\ work' = db
            /\ UNCHANGED <<script, db, warned>>

Commit == /\ upgrade # Idle /\ ~InScript
          /\ db' = [work EXCEPT !.release = upgrade.target]
          /\ work' = db'
          /\ upgrade' = Idle
          /\ UNCHANGED <<script, warned>>

MGNext == \/ \E v \in Versions : Build(v) \/ Begin(v)
          \/ SkipApplied \/ ApplyIncremental \/ ApplyIdempotent \/ Rollback \/ Commit

MGSpec == MGInit /\ [][MGNext]_mgVars

----------------------------------------------------------------------------
(* Properties *)

Titles(s) == [i \in DOMAIN s |-> s[i].title]

Incrementals(v) ==
  RenderBootstrap(Releases[v]) \o Wrap(Releases[v].incremental, "incremental")

\* By whatever releases a database came to its release, failed attempts
\* included, the incremental files were applied as on a fresh installation:
\* each one, once, in the order of their numbers.
UpgradeEqualsInstall ==
  db.release # 0 => Titles(db.applied) = Titles(Incrementals(db.release))

\* A file that changed after a database applied it is never applied again;
\* the upgrade says so, but for the tolerated ones.
ChangesReported ==
  [][Commit => \A i \in DOMAIN work.applied :
       LET b == Incrementals(upgrade.target)[i]
       IN  b.body # work.applied[i].body => b.title \in warned \cup Tolerated]_mgVars

\* A file with functions is run only when the schema is the release's, and only
\* files numbered 999 after one of that number (build.rs:175), whatever was skipped.
FunctionsOnFinalSchema ==
  [][ApplyIdempotent =>
       LET r == Releases[upgrade.target]
           Last == {f.title : f \in {g \in r.idempotent : g.number = 999}}
       IN  /\ Titles(work.applied) = Titles(Incrementals(upgrade.target))
           /\ Block.title \in {f.title : f \in r.idempotent}
           /\ Block.title \in Last =>
                \A i \in DOMAIN script[upgrade.target] :
                  i >= upgrade.pos => script[upgrade.target][i].title \in Last]_mgVars

=============================================================================
