--------------------------- MODULE CandidateStore ---------------------------
(***************************************************************************)
(* The file of the Candidate database: its schema versions, and snapshots  *)
(* of it.  executescript() commits before it runs, so every statement of   *)
(* an upward migration is a transaction of its own; a downward one is one  *)
(* transaction.  Several processes may migrate, write the table of actions *)
(* and copy the file at the same time, and end between two statements.     *)
(*                                                                         *)
(* Of the tables of version 1 only `candidates' and `candidate_actions'    *)
(* are told apart; indexes are left out.                                   *)
(***************************************************************************)
EXTENDS Naturals, Sequences, FiniteSets

CONSTANTS
  Actors,      \* processes
  Rows,        \* rows of candidate_actions
  None,
  MaxCrashes,  \* bound: processes that end in the middle
  MaxDowns     \* bound: downward migrations

ASSUME StoreConstants == MaxCrashes \in Nat /\ MaxDowns \in Nat

VARIABLES
  db,        \* the file, or None
  at,        \* what a process is doing
  snap,      \* one destination of snapshots
  manifest,  \* and its manifest
  crashes, downs,
  refused,   \* history: a migration was refused or failed
  cause,     \* history: a process ended, or a rollback was made, where that blocks the file
  overlap,   \* history: two migrations overlapped
  acted,     \* history: rows inserted
  exposed,   \* history: rows inserted between the copy and the drop of a migration
  raced,     \* history: two snapshots to the destination overlapped
  moved,     \* history: processes whose snapshot saw the version change before its copy
  torn       \* history: a process ended between snapshot and manifest

fileVars == <<db, refused, cause, overlap, acted, exposed, downs>>
snapVars == <<snap, manifest, raced, torn>>
vars == <<fileVars, at, snapVars, moved, crashes>>

\* candidate_actions and candidate_actions_v2 are sets of rows, or None.
Tables == {"candidates", "audit"}
Files == [version: 0 .. 3, tables: SUBSET Tables,
          actions: {None} \cup SUBSET Rows, actions2: {None} \cup SUBSET Rows]
Empty == [version |-> 0, tables |-> {}, actions |-> None, actions2 |-> None]
AtVersion1 == [version |-> 1, tables |-> {"candidates"}, actions |-> {}, actions2 |-> None]

\* What a process does, with the version it has read and its copy of the file.
Jobs == [job: {"none", "migrate", "snapshot"},
         pc: {"idle", "open", "run", "copy", "place", "manifest"},
         version: 0 .. 3, k: 1 .. 5, copy: Files \cup {None}]
Manifests == [hash: Files, schema: 0 .. 3]
Idle == [job |-> "none", pc |-> "idle", version |-> 0, k |-> 1, copy |-> None]

ASSUME NoneIsNothing ==
  None \notin Files /\ None \notin Manifests /\ \A rows \in SUBSET Rows : rows # None

\* A fresh installation, or one of the first release.
Init ==
  /\ db \in {None, AtVersion1}
  /\ at = [a \in Actors |-> Idle]
  /\ snap = None /\ manifest = None
  /\ crashes = 0 /\ downs = 0
  /\ refused = FALSE /\ cause = FALSE /\ overlap = FALSE
  /\ acted = {} /\ exposed = {} /\ raced = FALSE /\ moved = {} /\ torn = FALSE

(***************************************************************************)
(* Upward migrations.                                                      *)
(***************************************************************************)
\* Mutant of Statements: the rows are not copied.
StatementsNoCopy(v) ==
  CASE v = 1 -> <<"candidates", "actions", "version">>
    [] v = 2 -> <<"actions2", "drop", "rename", "version">>
    [] v = 3 -> <<"audit", "version">>

\* Mutant of Statements: the version is written before the tables.
StatementsVersionFirst(v) ==
  CASE v = 1 -> <<"version", "candidates", "actions">>
    [] v = 2 -> <<"actions2", "copy", "drop", "rename", "version">>
    [] v = 3 -> <<"version", "audit">>

Statements(v) ==
  CASE v = 1 -> <<"candidates", "actions", "version">>
    [] v = 2 -> <<"actions2", "copy", "drop", "rename", "version">>
    [] v = 3 -> <<"audit", "version">>

Migrating == {a \in Actors : at[a].job = "migrate"}
Target(a) == at[a].version + 1
Statement(a) == Statements(Target(a))[at[a].k]

\* Which statements SQLite accepts.
Succeeds(s) ==
  CASE s = "copy" -> db.actions # None /\ db.actions2 # None /\ db.actions \cap db.actions2 = {}
    [] s = "drop" -> db.actions # None
    [] s = "rename" -> db.actions2 # None /\ db.actions = None
    [] OTHER -> TRUE

After(s, v) ==
  CASE s = "candidates" -> [db EXCEPT !.tables = @ \cup {"candidates"}]
    [] s = "actions"  -> [db EXCEPT !.actions = IF @ = None THEN {} ELSE @]
    [] s = "actions2" -> [db EXCEPT !.actions2 = IF @ = None THEN {} ELSE @]
    [] s = "copy"     -> [db EXCEPT !.actions2 = @ \cup db.actions]
    [] s = "drop"     -> [db EXCEPT !.actions = None]
    [] s = "rename"   -> [db EXCEPT !.actions = db.actions2, !.actions2 = None]
    [] s = "audit"    -> [db EXCEPT !.tables = @ \cup {"audit"}]
    [] s = "version"  -> [db EXCEPT !.version = v]

\* current_version(); a file without a version is refused, a missing one is created.
ReadVersion(a) ==
  /\ at[a] = Idle
  /\ db # None => db.version # 0
  /\ at' = [at EXCEPT ![a] = [Idle EXCEPT !.job = "migrate", !.pc = "open",
                                         !.version = IF db = None THEN 0 ELSE db.version]]
  /\ overlap' = (overlap \/ Migrating # {})
  /\ UNCHANGED <<db, refused, cause, acted, exposed, downs, snapVars, moved, crashes>>

Refused(a) ==
  /\ at[a] = Idle
  /\ db # None /\ db.version = 0
  /\ refused' = TRUE
  /\ overlap' = (overlap \/ Migrating # {})
  /\ UNCHANGED <<db, cause, at, acted, exposed, downs, snapVars, moved, crashes>>

Connect(a) ==
  /\ at[a].job = "migrate" /\ at[a].pc = "open"
  /\ db' = IF db = None THEN Empty ELSE db
  /\ at' = [at EXCEPT ![a].pc = "run"]
  /\ UNCHANGED <<refused, cause, overlap, acted, exposed, downs, snapVars, moved, crashes>>

\* Snapshots that have read the version of the file and not yet copied it.
Copying == {a \in Actors : at[a].pc = "copy"}

Execute(a) ==
  LET s == Statement(a)
      last == at[a].k = Len(Statements(Target(a)))
  IN
  /\ at[a].pc = "run" /\ at[a].version < 3
  /\ Succeeds(s)
  /\ db' = After(s, Target(a))
  /\ at' = [at EXCEPT ![a].version = IF last THEN @ + 1 ELSE @, ![a].k = IF last THEN 1 ELSE @ + 1]
  /\ moved' = IF s = "version" THEN moved \cup Copying ELSE moved
  /\ UNCHANGED <<refused, cause, overlap, acted, exposed, downs, snapVars, crashes>>

ExecuteFails(a) ==
  /\ at[a].pc = "run" /\ at[a].version < 3
  /\ ~Succeeds(Statement(a))
  /\ refused' = TRUE
  /\ at' = [at EXCEPT ![a] = Idle]
  /\ UNCHANGED <<db, cause, overlap, acted, exposed, downs, snapVars, moved, crashes>>

Migrated(a) ==
  /\ at[a].pc = "run" /\ at[a].version = 3
  /\ at' = [at EXCEPT ![a] = Idle]
  /\ UNCHANGED <<fileVars, snapVars, moved, crashes>>

(***************************************************************************)
(* Downward migrations and writers.                                        *)
(***************************************************************************)
RollBack(to) ==
  /\ downs < MaxDowns
  /\ db # None /\ db.version > to
  /\ db' = IF db.version = 3 /\ to = 2 THEN [db EXCEPT !.tables = @ \ {"audit"}, !.version = 2]
           ELSE [Empty EXCEPT !.version = to, !.actions2 = db.actions2]
  /\ downs' = downs + 1
  /\ cause' = (cause \/ Migrating # {} \/ ~(db.version = 3 /\ to = 2))
  /\ moved' = moved \cup Copying
  /\ UNCHANGED <<refused, overlap, acted, exposed, at, snapVars, crashes>>

\* The window in which a migration has copied the rows and not yet dropped the table.
Between(a) == at[a].pc = "run" /\ Target(a) = 2 /\ at[a].k \in {3, 4}

\* A dismissal, restoration or promotion, whatever the version of the file.
InsertAction(r) ==
  /\ db # None /\ db.actions # None
  /\ r \notin acted
  /\ db' = [db EXCEPT !.actions = @ \cup {r}]
  /\ acted' = acted \cup {r}
  /\ exposed' = IF \E a \in Actors : Between(a) THEN exposed \cup {r} ELSE exposed
  /\ UNCHANGED <<refused, cause, overlap, downs, at, snapVars, moved, crashes>>

(***************************************************************************)
(* Snapshots.                                                              *)
(***************************************************************************)
StartSnapshot(a) ==
  /\ at[a] = Idle
  /\ db # None
  /\ snap = None /\ manifest = None
  /\ at' = [at EXCEPT ![a] = [Idle EXCEPT !.job = "snapshot", !.pc = "copy", !.version = db.version]]
  /\ raced' = (raced \/ \E c \in Actors : at[c].job = "snapshot")
  /\ moved' = moved \ {a}
  /\ UNCHANGED <<fileVars, snap, manifest, torn, crashes>>

CopyPages(a) ==
  /\ at[a].job = "snapshot" /\ at[a].pc = "copy"
  /\ at' = [at EXCEPT ![a].pc = "place", ![a].copy = db]
  /\ UNCHANGED <<fileVars, snapVars, moved, crashes>>

\* The rename of the copy; another snapshot placed meanwhile is replaced.
Place(a) ==
  /\ at[a].job = "snapshot" /\ at[a].pc = "place"
  /\ snap' = at[a].copy
  /\ at' = [at EXCEPT ![a].pc = "manifest"]
  /\ UNCHANGED <<fileVars, manifest, raced, torn, moved, crashes>>

\* Mutant of ManifestOf: the schema is read from the live file, after the copy.
ManifestOfLive(a) == [hash |-> at[a].copy, schema |-> db.version]

ManifestOf(a) == [hash |-> at[a].copy, schema |-> at[a].version]

PlaceManifest(a) ==
  /\ at[a].job = "snapshot" /\ at[a].pc = "manifest"
  /\ manifest' = ManifestOf(a)
  /\ at' = [at EXCEPT ![a] = Idle]
  /\ UNCHANGED <<fileVars, snap, raced, torn, moved, crashes>>

\* verify_candidate_snapshot().
Verdict ==
  IF snap = None \/ manifest = None THEN "missing"
  ELSE IF manifest.hash # snap THEN "hash_mismatch"
  ELSE IF manifest.schema # snap.version THEN "schema_mismatch" ELSE "ok"

\* A process ends, or a snapshot fails.
Crash(a) ==
  /\ at[a] # Idle /\ crashes < MaxCrashes
  /\ crashes' = crashes + 1
  /\ at' = [at EXCEPT ![a] = Idle]
  /\ torn' = (torn \/ at[a].pc = "manifest")
  /\ cause' = (cause \/ (at[a].pc = "run" /\ at[a].version = 0) \/ Between(a))
  /\ moved' = IF at[a].job = "snapshot" THEN moved \ {a} ELSE moved
  /\ UNCHANGED <<db, refused, overlap, acted, exposed, downs, snap, manifest, raced>>

Migrate(a) == ReadVersion(a) \/ Refused(a) \/ Connect(a) \/ Execute(a) \/ ExecuteFails(a) \/ Migrated(a)
Snapshot(a) == StartSnapshot(a) \/ CopyPages(a) \/ Place(a) \/ PlaceManifest(a)

Next ==
  \/ \E a \in Actors : Migrate(a) \/ Snapshot(a) \/ Crash(a)
  \/ \E to \in 0 .. 2 : RollBack(to)
  \/ \E r \in Rows : InsertAction(r)

Spec == Init /\ [][Next]_vars

(***************************************************************************)
(* Properties.                                                             *)
(***************************************************************************)
\* Type invariant.
TypeOK ==
  /\ db \in Files \cup {None}
  /\ at \in [Actors -> Jobs]
  /\ snap \in Files \cup {None}
  /\ manifest \in Manifests \cup {None}
  /\ exposed \subseteq acted /\ acted \subseteq Rows

\* Migrations and rollbacks leave a file whose version says which tables it has, and no
\* migration is refused: one that a crash has ended can be repeated.  Not so if two
\* migrations overlap, a process ends while it makes version 1 or between the copy of the
\* actions and the renaming, a rollback goes below the previous version, or any rollback,
\* however far, is made while a process migrates.
TablesOf(v) == CASE v = 3 -> {"candidates", "audit"} [] v \in {1, 2} -> {"candidates"} [] v = 0 -> {}
VersionDescribes ==
  ~cause /\ ~overlap =>
    /\ ~refused
    /\ Migrating = {} /\ db # None =>
         db.version # 0 /\ TablesOf(db.version) \subseteq db.tables /\ db.actions # None

\* No row of candidate_actions is lost by an upward migration, wherever processes end,
\* unless the row comes between the copy and the drop, or two migrations overlap.
Kept(r) == db # None /\ \E rows \in {db.actions, db.actions2} \ {None} : r \in rows
ActionsKept == downs = 0 /\ ~overlap => \A r \in acted \ exposed : Kept(r)

\* Unless two snapshots to one destination overlap, verify_candidate_snapshot accepts a
\* snapshot that has a manifest, in its hash and in its schema version; it finds another
\* schema only if the version was changed between the reading of it and the copy.  And a
\* snapshot without manifest is left only by a process that ended in between.
SnapshotsFit ==
  /\ ~raced /\ manifest # None => Verdict = "ok" \/ (Verdict = "schema_mismatch" /\ moved # {})
  /\ ~torn /\ (\A a \in Actors : at[a].job # "snapshot") => (snap = None <=> manifest = None)
=============================================================================
