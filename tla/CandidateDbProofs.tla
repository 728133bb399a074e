--------------------------- MODULE CandidateDbProofs ---------------------------
(***************************************************************************)
(* Proofs about the Candidate database, for any number of processes, rows, *)
(* channels, crashes and rollbacks: its file (CandidateStore) and the lock *)
(* of a channel that its table of discovery runs is (DiscoveryRuns).       *)
(***************************************************************************)
EXTENDS CandidateStore, DiscoveryRuns, FiniteSetTheorems, TLAPS

-----------------------------------------------------------------------------
(***************************************************************************)
(* The file.  The invariant says of the one process that migrates what its *)
(* statements so far have left in the file (Ready), and of a file that     *)
(* nobody migrates that the next migration will succeed (Good).            *)
(***************************************************************************)
StagedJob(x) ==
  /\ x.job = "none" => x = Idle
  /\ x.job = "migrate" =>
       /\ x.pc \in {"open", "run"} /\ (x.pc = "open" => x.k = 1)
       /\ x.version = 0 => x.k <= 3
       /\ x.version = 2 => x.k <= 2
       /\ x.version = 3 => x.k = 1
  /\ x.job = "snapshot" => x.pc \in {"copy", "place", "manifest"}
Staged == \A a \in Actors : StagedJob(at[a])

Typed ==
  /\ TypeOK /\ Staged /\ downs \in Nat
  /\ db = None => acted = {} /\ \A a \in Actors : at[a].pc # "run"

\* Unless it is on record, one process migrates.
OneMigration == ~overlap => \A a, b \in Migrating : a = b

\* A migration of the file will succeed.
Good ==
  /\ db.version # 0 /\ TablesOf(db.version) \subseteq db.tables /\ db.actions # None
  /\ db.version = 1 => db.actions2 \in {None, {}}

\* What the migration a has done to the file.
Ready(a) ==
  /\ db # None /\ db.version = at[a].version
  /\ at[a].version = 0 => /\ db.actions2 = None
                          /\ at[a].k >= 2 => "candidates" \in db.tables
                          /\ at[a].k = 3 => db.actions # None
  /\ at[a].version # 0 => TablesOf(db.version) \subseteq db.tables
  /\ at[a].version = 1 => /\ db.actions = None <=> at[a].k = 4
                          /\ at[a].k = 1 => db.actions2 \in {None, {}}
                          /\ at[a].k = 2 => db.actions2 = {}
                          /\ at[a].k \in {3, 4} => db.actions2 # None
                          /\ at[a].k = 5 => db.actions2 = None
  /\ at[a].version = 2 => /\ db.actions # None
                          /\ at[a].k = 2 => "audit" \in db.tables
  /\ at[a].version = 3 => db.actions # None

Opened(a) ==
  /\ db = None => at[a].version = 0
  /\ db # None => Good /\ at[a].version = db.version

OnTheWay(a) == IF at[a].pc = "open" THEN Opened(a) ELSE Ready(a)

Described ==
  ~cause /\ ~overlap =>
    /\ ~refused
    /\ Migrating = {} => db = None \/ Good
    /\ \A a \in Migrating : OnTheWay(a)

\* What was copied may be dropped.
MayDrop(a) ==
  at[a].pc = "run" /\ Target(a) = 2 /\ at[a].k = 3 =>
    /\ db.actions2 # None
    /\ db.actions # None => db.actions \ exposed \subseteq db.actions2

Retained ==
  downs = 0 /\ ~overlap =>
    /\ \A r \in acted \ exposed : Kept(r)
    /\ \A a \in Actors : MayDrop(a)

\* Snapshots.
OneSnapshot ==
  ~raced => \A a, b \in Actors : at[a].job = "snapshot" /\ at[b].job = "snapshot" => a = b

Copied ==
  \A a \in Actors :
    /\ at[a].pc = "copy" => db # None
    /\ at[a].pc \in {"place", "manifest"} => at[a].copy # None
    /\ at[a].pc = "manifest" => snap # None
    /\ ~raced /\ at[a].pc \in {"copy", "place"} => snap = None
    /\ ~raced /\ at[a].pc = "manifest" => snap = at[a].copy
    /\ ~raced /\ at[a].job = "snapshot" => manifest = None

Manifested ==
  /\ manifest # None => snap # None /\ (~raced => manifest.hash = snap)
  /\ snap # None /\ manifest = None /\ ~torn => \E a \in Actors : at[a].pc = "manifest"

\* A snapshot that saw no change of version has read the version it copied.
Schemed ==
  /\ \A a \in Actors \ moved :
       /\ at[a].pc = "copy" => at[a].version = db.version
       /\ at[a].pc \in {"place", "manifest"} => at[a].version = at[a].copy.version
  /\ ~raced /\ moved = {} /\ manifest # None => manifest.schema = manifest.hash.version

StoreInv ==
  /\ Typed /\ OneMigration /\ Described /\ Retained
  /\ OneSnapshot /\ Copied /\ Manifested

-----------------------------------------------------------------------------
(* Values.                                                                 *)

LEMMA StatementFacts ==
  /\ Len(Statements(1)) = 3 /\ Statements(1)[1] = "candidates" /\ Statements(1)[2] = "actions"
  /\ Statements(1)[3] = "version"
  /\ Len(Statements(2)) = 5 /\ Statements(2)[1] = "actions2" /\ Statements(2)[2] = "copy"
  /\ Statements(2)[3] = "drop" /\ Statements(2)[4] = "rename" /\ Statements(2)[5] = "version"
  /\ Len(Statements(3)) = 2 /\ Statements(3)[1] = "audit" /\ Statements(3)[2] = "version"
<1>1. Statements(1) = <<"candidates", "actions", "version">>
  BY DEF Statements
<1>2. Statements(2) = <<"actions2", "copy", "drop", "rename", "version">>
  BY DEF Statements
<1>3. Statements(3) = <<"audit", "version">>
  BY DEF Statements
<1>4. Len(Statements(1)) = 3 /\ Statements(1)[1] = "candidates" /\ Statements(1)[2] = "actions"
      /\ Statements(1)[3] = "version"
  BY <1>1
<1>5. Len(Statements(2)) = 5 /\ Statements(2)[1] = "actions2" /\ Statements(2)[2] = "copy"
      /\ Statements(2)[3] = "drop" /\ Statements(2)[4] = "rename" /\ Statements(2)[5] = "version"
  BY <1>2
<1>6. Len(Statements(3)) = 2 /\ Statements(3)[1] = "audit" /\ Statements(3)[2] = "version"
  BY <1>3
<1> QED BY <1>4, <1>5, <1>6

LEMMA FileValues ==
  /\ Empty \in Files /\ AtVersion1 \in Files
  /\ Empty.version = 0 /\ Empty.tables = {} /\ Empty.actions = None /\ Empty.actions2 = None
  /\ AtVersion1.version = 1 /\ AtVersion1.tables = {"candidates"} /\ AtVersion1.actions = {}
  /\ AtVersion1.actions2 = None
<1>1. Empty = [version |-> 0, tables |-> {}, actions |-> None, actions2 |-> None]
  BY DEF Empty
<1>2. AtVersion1 = [version |-> 1, tables |-> {"candidates"}, actions |-> {}, actions2 |-> None]
  BY DEF AtVersion1
<1>3. Empty \in Files
  BY <1>1 DEF Files
<1>4. AtVersion1 \in Files
  BY <1>2 DEF Files, Tables
<1> QED BY <1>1, <1>2, <1>3, <1>4

LEMMA IdleJob ==
  /\ Idle \in Jobs /\ Idle.job = "none" /\ Idle.pc = "idle" /\ Idle.k = 1 /\ Idle.version = 0
  /\ Idle.copy = None
BY DEF Idle, Jobs

LEMMA AfterFacts ==
  ASSUME db \in Files, NEW v \in 1 .. 3, NEW s, Succeeds(s)
  PROVE  /\ s \in {"candidates", "audit"} =>
              /\ After(s, v) \in Files /\ After(s, v).tables = db.tables \cup {s}
              /\ After(s, v).version = db.version /\ After(s, v).actions = db.actions
              /\ After(s, v).actions2 = db.actions2
         /\ s = "actions" =>
              /\ After(s, v) \in Files /\ After(s, v).tables = db.tables
              /\ After(s, v).version = db.version /\ After(s, v).actions2 = db.actions2
              /\ After(s, v).actions = IF db.actions = None THEN {} ELSE db.actions
         /\ s = "actions2" =>
              /\ After(s, v) \in Files /\ After(s, v).tables = db.tables
              /\ After(s, v).version = db.version /\ After(s, v).actions = db.actions
              /\ After(s, v).actions2 = IF db.actions2 = None THEN {} ELSE db.actions2
         /\ s = "copy" =>
              /\ After(s, v) \in Files /\ After(s, v).tables = db.tables
              /\ After(s, v).version = db.version /\ After(s, v).actions = db.actions
              /\ db.actions # None /\ db.actions2 # None
              /\ After(s, v).actions2 = db.actions2 \cup db.actions /\ After(s, v).actions2 # None
         /\ s = "drop" =>
              /\ After(s, v) \in Files /\ After(s, v).tables = db.tables
              /\ After(s, v).version = db.version /\ After(s, v).actions = None
              /\ After(s, v).actions2 = db.actions2
         /\ s = "rename" =>
              /\ After(s, v) \in Files /\ After(s, v).tables = db.tables
              /\ After(s, v).version = db.version /\ After(s, v).actions = db.actions2
              /\ After(s, v).actions2 = None /\ db.actions = None /\ db.actions2 # None
         /\ s = "version" =>
              /\ After(s, v) \in Files /\ After(s, v).tables = db.tables
              /\ After(s, v).version = v /\ After(s, v).actions = db.actions
              /\ After(s, v).actions2 = db.actions2
<1>1. CASE s \in {"candidates", "audit"}
  <2>1. After(s, v) = [db EXCEPT !.tables = db.tables \cup {s}]
    BY <1>1 DEF After
  <2> QED BY <1>1, <2>1 DEF Files, Tables
<1>2. CASE s = "actions"
  <2>1. After(s, v) = [db EXCEPT !.actions = IF db.actions = None THEN {} ELSE db.actions]
    BY <1>2 DEF After
  <2> QED BY <1>2, <2>1 DEF Files
<1>3. CASE s = "actions2"
  <2>1. After(s, v) = [db EXCEPT !.actions2 = IF db.actions2 = None THEN {} ELSE db.actions2]
    BY <1>3 DEF After
  <2> QED BY <1>3, <2>1 DEF Files
<1>4. CASE s = "copy"
  <2>1. After(s, v) = [db EXCEPT !.actions2 = db.actions2 \cup db.actions]
    BY <1>4 DEF After
  <2>2. db.actions # None /\ db.actions2 # None
    BY <1>4 DEF Succeeds
  <2>3. db.actions2 \cup db.actions \in SUBSET Rows
    BY <2>2 DEF Files
  <2> QED BY <1>4, <2>1, <2>2, <2>3, NoneIsNothing DEF Files
<1>5. CASE s = "drop"
  <2>1. After(s, v) = [db EXCEPT !.actions = None]
    BY <1>5 DEF After
  <2> QED BY <1>5, <2>1 DEF Files
<1>6. CASE s = "rename"
  <2>1. After(s, v) = [db EXCEPT !.actions = db.actions2, !.actions2 = None]
    BY <1>6 DEF After
  <2>2. db.actions = None /\ db.actions2 # None
    BY <1>6 DEF Succeeds
  <2> QED BY <1>6, <2>1, <2>2 DEF Files
<1>7. CASE s = "version"
  <2>1. After(s, v) = [db EXCEPT !.version = v]
    BY <1>7 DEF After
  <2> QED BY <1>7, <2>1 DEF Files
<1> QED BY <1>1, <1>2, <1>3, <1>4, <1>5, <1>6, <1>7


-----------------------------------------------------------------------------
(* Steps.  A step of a process a changes its job to x and nobody else's.   *)

JobStep(a, x) ==
  /\ x \in Jobs /\ at'[a] = x /\ \A b \in Actors \ {a} : at'[b] = at[b]
  /\ at' \in [Actors -> Jobs]

LEMMA Jobbing ==
  ASSUME at \in [Actors -> Jobs], NEW a \in Actors, NEW x \in Jobs, at' = [at EXCEPT ![a] = x]
  PROVE  JobStep(a, x)
BY DEF JobStep

LEMMA StagedStep ==
  ASSUME Staged, NEW a \in Actors, NEW x, JobStep(a, x), StagedJob(x) PROVE Staged'
BY DEF Staged, JobStep, StagedJob

LEMMA JobKinds ==
  ASSUME Typed, NEW a \in Actors
  PROVE  /\ at[a] \in Jobs
         /\ at[a].pc \in {"open", "run"} <=> at[a].job = "migrate"
         /\ at[a].pc \in {"copy", "place", "manifest"} <=> at[a].job = "snapshot"
         /\ at[a].pc = "open" => at[a].k = 1
         /\ at[a].version = 0 /\ at[a].job = "migrate" => at[a].k <= 3
         /\ at[a].version = 2 /\ at[a].job = "migrate" => at[a].k <= 2
         /\ at[a].version = 3 /\ at[a].job = "migrate" => at[a].k = 1
<1>1. at[a] \in Jobs /\ StagedJob(at[a])
  BY DEF Typed, TypeOK, Staged
<1>2. at[a].job \in {"none", "migrate", "snapshot"}
  BY <1>1 DEF Jobs
<1>3. CASE at[a].job = "none"
  BY <1>1, <1>3, IdleJob DEF StagedJob
<1>4. CASE at[a].job = "migrate"
  BY <1>1, <1>4 DEF StagedJob
<1>5. CASE at[a].job = "snapshot"
  BY <1>1, <1>5 DEF StagedJob
<1> QED BY <1>1, <1>2, <1>3, <1>4, <1>5

LEMMA IdleStaged == StagedJob(Idle)
BY IdleJob DEF StagedJob

\* What each action does with the job of its process.
LEMMA ReadVersionStep ==
  ASSUME Typed, NEW a \in Actors, ReadVersion(a)
  PROVE  \E x : /\ JobStep(a, x) /\ StagedJob(x) /\ x.job = "migrate" /\ x.pc = "open" /\ x.k = 1
                /\ x.version = (IF db = None THEN 0 ELSE db.version)
<1> DEFINE v == IF db = None THEN 0 ELSE db.version
           x == [Idle EXCEPT !.job = "migrate", !.pc = "open", !.version = v]
<1>1. v \in 0 .. 3
  BY DEF Typed, TypeOK, Files
<1> HIDE DEF v
<1>2. x \in Jobs /\ x.job = "migrate" /\ x.pc = "open" /\ x.k = 1 /\ x.version = v
  BY <1>1, IdleJob DEF Jobs
<1>3. at' = [at EXCEPT ![a] = x]
  BY DEF ReadVersion, v
<1> HIDE DEF x
<1>4. JobStep(a, x)
  BY <1>2, <1>3, Jobbing DEF Typed, TypeOK
<1>5. StagedJob(x)
  BY <1>1, <1>2 DEF StagedJob
<1> QED BY <1>2, <1>4, <1>5 DEF v

LEMMA ConnectStep ==
  ASSUME Typed, NEW a \in Actors, Connect(a)
  PROVE  \E x : /\ JobStep(a, x) /\ StagedJob(x) /\ x.job = "migrate" /\ x.pc = "run"
                /\ x.k = 1 /\ x.version = at[a].version
<1> DEFINE x == [at[a] EXCEPT !.pc = "run"]
<1>1. at[a] \in Jobs /\ at[a].job = "migrate" /\ at[a].k = 1
  BY JobKinds DEF Connect
<1>2. x \in Jobs /\ x.job = "migrate" /\ x.pc = "run" /\ x.k = 1 /\ x.version = at[a].version
  BY <1>1 DEF Jobs
<1>3. at' = [at EXCEPT ![a] = x]
  BY DEF Connect
<1> HIDE DEF x
<1>4. JobStep(a, x)
  BY <1>2, <1>3, Jobbing DEF Typed, TypeOK
<1>5. StagedJob(x)
  BY <1>2 DEF StagedJob
<1> QED BY <1>2, <1>4, <1>5

\* The statement that is next: s, the k-th of the n that lead from version v to v + 1.
IsNext(a, v, k, s, n) ==
  /\ at[a].version = v /\ at[a].k = k /\ Target(a) = v + 1 /\ Statement(a) = s
  /\ n = Len(Statements(Target(a)))

LEMMA StatementAt ==
  ASSUME Typed, NEW a \in Actors, at[a].pc = "run", at[a].version < 3
  PROVE  \/ IsNext(a, 0, 1, "candidates", 3)
         \/ IsNext(a, 0, 2, "actions", 3)
         \/ IsNext(a, 0, 3, "version", 3)
         \/ IsNext(a, 1, 1, "actions2", 5)
         \/ IsNext(a, 1, 2, "copy", 5)
         \/ IsNext(a, 1, 3, "drop", 5)
         \/ IsNext(a, 1, 4, "rename", 5)
         \/ IsNext(a, 1, 5, "version", 5)
         \/ IsNext(a, 2, 1, "audit", 2)
         \/ IsNext(a, 2, 2, "version", 2)
<1>1. /\ at[a].version \in 0 .. 2 /\ at[a].k \in 1 .. 5
      /\ at[a].version = 0 => at[a].k <= 3
      /\ at[a].version = 2 => at[a].k <= 2
  BY JobKinds DEF Jobs
<1>2. Target(a) = at[a].version + 1 /\ Statement(a) = Statements(Target(a))[at[a].k]
  BY DEF Target, Statement
<1>3. CASE at[a].version = 0
  <2>1. Target(a) = 1 /\ at[a].k \in 1 .. 3
    BY <1>1, <1>2, <1>3
  <2>2. at[a].k = 1 => IsNext(a, 0, 1, "candidates", 3)
    BY <1>2, <1>3, <2>1, StatementFacts DEF IsNext
  <2>3. at[a].k = 2 => IsNext(a, 0, 2, "actions", 3)
    BY <1>2, <1>3, <2>1, StatementFacts DEF IsNext
  <2>4. at[a].k = 3 => IsNext(a, 0, 3, "version", 3)
    BY <1>2, <1>3, <2>1, StatementFacts DEF IsNext
  <2> QED BY <2>1, <2>2, <2>3, <2>4
<1>4. CASE at[a].version = 1
  <2>1. Target(a) = 2 /\ at[a].k \in 1 .. 5
    BY <1>1, <1>2, <1>4
  <2>2. at[a].k = 1 => IsNext(a, 1, 1, "actions2", 5)
    BY <1>2, <1>4, <2>1, StatementFacts DEF IsNext
  <2>3. at[a].k = 2 => IsNext(a, 1, 2, "copy", 5)
    BY <1>2, <1>4, <2>1, StatementFacts DEF IsNext
  <2>4. at[a].k = 3 => IsNext(a, 1, 3, "drop", 5)
    BY <1>2, <1>4, <2>1, StatementFacts DEF IsNext
  <2>5. at[a].k = 4 => IsNext(a, 1, 4, "rename", 5)
    BY <1>2, <1>4, <2>1, StatementFacts DEF IsNext
  <2>6. at[a].k = 5 => IsNext(a, 1, 5, "version", 5)
    BY <1>2, <1>4, <2>1, StatementFacts DEF IsNext
  <2> QED BY <2>1, <2>2, <2>3, <2>4, <2>5, <2>6
<1>5. CASE at[a].version = 2
  <2>1. Target(a) = 3 /\ at[a].k \in 1 .. 2
    BY <1>1, <1>2, <1>5
  <2>2. at[a].k = 1 => IsNext(a, 2, 1, "audit", 2)
    BY <1>2, <1>5, <2>1, StatementFacts DEF IsNext
  <2>3. at[a].k = 2 => IsNext(a, 2, 2, "version", 2)
    BY <1>2, <1>5, <2>1, StatementFacts DEF IsNext
  <2> QED BY <2>1, <2>2, <2>3
<1> QED BY <1>1, <1>3, <1>4, <1>5

LEMMA ExecuteStep ==
  ASSUME Typed, NEW a \in Actors, Execute(a)
  PROVE  \E x : /\ JobStep(a, x) /\ StagedJob(x) /\ x.job = "migrate" /\ x.pc = "run"
                /\ IF at[a].k = Len(Statements(Target(a)))
                   THEN x.version = at[a].version + 1 /\ x.k = 1
                   ELSE x.version = at[a].version /\ x.k = at[a].k + 1
<1> DEFINE last == at[a].k = Len(Statements(Target(a)))
           v == IF last THEN at[a].version + 1 ELSE at[a].version
           j == IF last THEN 1 ELSE at[a].k + 1
           x == [at[a] EXCEPT !.version = v, !.k = j]
<1>1. at[a] \in Jobs /\ at[a].pc = "run" /\ at[a].job = "migrate" /\ at[a].version < 3
  BY JobKinds DEF Execute
<1>2. at' = [at EXCEPT ![a] = x]
  BY DEF Execute
<1>3. v \in 0 .. 3 /\ j \in 1 .. 5 /\ (v = 0 => j <= 3) /\ (v = 2 => j <= 2) /\ (v = 3 => j = 1)
  <2>1. /\ at[a].version \in 0 .. 2 /\ at[a].k \in 1 .. 5
        /\ at[a].version = 0 => at[a].k <= 3 /\ (last <=> at[a].k = 3)
        /\ at[a].version = 1 => (last <=> at[a].k = 5)
        /\ at[a].version = 2 => at[a].k <= 2 /\ (last <=> at[a].k = 2)
    <3>1. at[a].version \in 0 .. 2 /\ at[a].k \in 1 .. 5
      BY <1>1, JobKinds DEF Jobs
    <3>2. /\ at[a].version = 0 => Len(Statements(Target(a))) = 3
          /\ at[a].version = 1 => Len(Statements(Target(a))) = 5
          /\ at[a].version = 2 => Len(Statements(Target(a))) = 2
      BY <1>1, StatementAt DEF IsNext
    <3> QED BY <1>1, <3>1, <3>2, JobKinds
  <2> HIDE DEF last
  <2>2. CASE last
    BY <2>1, <2>2
  <2>3. CASE ~last
    BY <2>1, <2>3
  <2> QED BY <2>2, <2>3
<1> HIDE DEF v, j
<1>4. x \in Jobs /\ x.job = "migrate" /\ x.pc = "run" /\ x.k = j /\ x.version = v
  BY <1>1, <1>3 DEF Jobs
<1> HIDE DEF x
<1>5. JobStep(a, x)
  BY <1>2, <1>4, Jobbing DEF Typed, TypeOK
<1>6. StagedJob(x)
  BY <1>3, <1>4 DEF StagedJob
<1> QED BY <1>4, <1>5, <1>6 DEF v, j

LEMMA IdleStep ==
  ASSUME Typed, NEW a \in Actors, at' = [at EXCEPT ![a] = Idle] PROVE JobStep(a, Idle)
BY IdleJob, Jobbing DEF Typed, TypeOK

LEMMA StartSnapshotStep ==
  ASSUME Typed, NEW a \in Actors, StartSnapshot(a)
  PROVE  \E x : JobStep(a, x) /\ StagedJob(x) /\ x.job = "snapshot" /\ x.pc = "copy"
<1> DEFINE x == [Idle EXCEPT !.job = "snapshot", !.pc = "copy", !.version = db.version]
<1>1. db.version \in 0 .. 3
  BY DEF Typed, TypeOK, Files, StartSnapshot
<1>2. x \in Jobs /\ x.job = "snapshot" /\ x.pc = "copy"
  BY <1>1, IdleJob DEF Jobs
<1>3. at' = [at EXCEPT ![a] = x]
  BY DEF StartSnapshot
<1> HIDE DEF x
<1> QED BY <1>2, <1>3, Jobbing DEF Typed, TypeOK, StagedJob

LEMMA CopyPagesStep ==
  ASSUME Typed, NEW a \in Actors, CopyPages(a)
  PROVE  \E x : JobStep(a, x) /\ StagedJob(x) /\ x.job = "snapshot" /\ x.pc = "place" /\ x.copy = db
<1> DEFINE x == [at[a] EXCEPT !.pc = "place", !.copy = db]
<1>1. at[a] \in Jobs /\ at[a].job = "snapshot" /\ db \in Files \cup {None}
  BY JobKinds DEF Typed, TypeOK, CopyPages
<1>2. x \in Jobs /\ x.job = "snapshot" /\ x.pc = "place" /\ x.copy = db
  BY <1>1 DEF Jobs
<1>3. at' = [at EXCEPT ![a] = x]
  BY DEF CopyPages
<1> HIDE DEF x
<1> QED BY <1>2, <1>3, Jobbing DEF Typed, TypeOK, StagedJob

LEMMA PlaceStep ==
  ASSUME Typed, NEW a \in Actors, Place(a)
  PROVE  \E x : JobStep(a, x) /\ StagedJob(x) /\ x.job = "snapshot" /\ x.pc = "manifest"
                /\ x.copy = at[a].copy
<1> DEFINE x == [at[a] EXCEPT !.pc = "manifest"]
<1>1. at[a] \in Jobs /\ at[a].job = "snapshot"
  BY JobKinds DEF Place
<1>2. x \in Jobs /\ x.job = "snapshot" /\ x.pc = "manifest" /\ x.copy = at[a].copy
  BY <1>1 DEF Jobs
<1>3. at' = [at EXCEPT ![a] = x]
  BY DEF Place
<1> HIDE DEF x
<1> QED BY <1>2, <1>3, Jobbing DEF Typed, TypeOK, StagedJob

-----------------------------------------------------------------------------
(* What a step leaves alone.                                               *)

LEMMA TypedKept ==
  ASSUME Typed, NEW a \in Actors, NEW x, JobStep(a, x), StagedJob(x),
         db' \in Files \cup {None}, db' = None => db = None /\ x.pc # "run",
         snap' \in Files \cup {None}, manifest' \in Manifests \cup {None},
         UNCHANGED <<exposed, acted, downs>>
  PROVE  Typed'
<1>1. Staged'
  BY StagedStep DEF Typed
<1>2. TypeOK'
  BY DEF Typed, TypeOK, JobStep
<1>3. db' = None => acted' = {} /\ \A b \in Actors : at'[b].pc # "run"
  BY DEF Typed, JobStep
<1>4. downs' \in Nat
  BY DEF Typed
<1> QED BY <1>1, <1>2, <1>3, <1>4 DEF Typed

LEMMA SnapshotsKept ==
  ASSUME Typed, OneSnapshot, Copied, Manifested, NEW a \in Actors, NEW x, JobStep(a, x),
         at[a].job # "snapshot", x.job # "snapshot", x.pc \in {"idle", "open", "run"},
         UNCHANGED snapVars, db' = None => db = None
  PROVE  OneSnapshot' /\ Copied' /\ Manifested'
<1>1. at[a].pc \notin {"copy", "place", "manifest"}
  BY JobKinds
<1>2. snap' = snap /\ manifest' = manifest /\ raced' = raced /\ torn' = torn
  BY DEF snapVars
<1>3. \A b \in Actors : at'[b].job = "snapshot" => b # a /\ at'[b] = at[b]
  BY DEF JobStep
<1>4. \A b \in Actors : at'[b].pc \in {"copy", "place", "manifest"} => b # a /\ at'[b] = at[b]
  BY DEF JobStep
<1>5. OneSnapshot'
  BY <1>2, <1>3 DEF OneSnapshot
<1>6. Copied'
  BY <1>2, <1>3, <1>4 DEF Copied
<1>7. Manifested'
  <2>1. ASSUME NEW b \in Actors, at[b].pc = "manifest" PROVE at'[b].pc = "manifest"
    BY <1>1, <2>1 DEF JobStep
  <2> QED BY <1>2, <2>1 DEF Manifested
<1> QED BY <1>5, <1>6, <1>7

LEMMA MigrationsKept ==
  ASSUME Typed, OneMigration, Described, Retained, NEW a \in Actors, NEW x, JobStep(a, x),
         at[a].job # "migrate", x.job # "migrate", x.pc \notin {"open", "run"},
         UNCHANGED <<db, refused, overlap, acted, exposed, downs>>, cause => cause'
  PROVE  OneMigration' /\ Described' /\ Retained'
<1>1. Migrating' = Migrating
  BY DEF Migrating, JobStep
<1>2. a \notin Migrating /\ \A b \in Migrating : at'[b] = at[b]
  BY DEF Migrating, JobStep
<1>3. OneMigration'
  BY <1>1 DEF OneMigration
<1>4. Good' <=> Good
  BY DEF Good, TablesOf
<1>5. \A b \in Migrating : OnTheWay(b) => OnTheWay(b)'
  BY ZenonT(30), <1>2, <1>4 DEF OnTheWay, Ready, Opened, TablesOf
<1>6. Described'
  BY <1>1, <1>4, <1>5 DEF Described
<1>7. \A r \in acted \ exposed : Kept(r) => Kept(r)'
  BY DEF Kept
<1>8. ASSUME NEW b \in Actors, MayDrop(b) PROVE MayDrop(b)'
  <2>1. CASE b = a
    BY <2>1 DEF MayDrop, JobStep
  <2>2. CASE b # a
    BY <1>8, <2>2 DEF MayDrop, JobStep, Target
  <2> QED BY <2>1, <2>2
<1>9. Retained'
  BY <1>7, <1>8 DEF Retained
<1> QED BY <1>3, <1>6, <1>9

LEMMA OneMigrationKept ==
  ASSUME OneMigration, NEW a \in Actors, NEW x, JobStep(a, x),
         x.job = "migrate" => at[a].job = "migrate", overlap => overlap'
  PROVE  OneMigration'
<1>1. Migrating' \subseteq Migrating
  BY DEF Migrating, JobStep
<1> QED BY <1>1 DEF OneMigration

\* Nobody else migrates.
LEMMA Alone ==
  ASSUME OneMigration, ~overlap, NEW a \in Actors, at[a].job = "migrate", NEW b \in Actors \ {a}
  PROVE  at[b].job # "migrate"
BY DEF OneMigration, Migrating

\* A step of the process that migrates, judged by that process alone.
LEMMA DescribedBy ==
  ASSUME OneMigration, ~overlap, NEW a \in Actors, NEW x, JobStep(a, x), at[a].job = "migrate",
         ~refused', x.job = "migrate" => OnTheWay(a)', x.job # "migrate" => (db = None \/ Good)'
  PROVE  Described'
<1>1. \A b \in Actors : at'[b].job = "migrate" => b = a
  BY Alone DEF JobStep
<1>2. at'[a] = x
  BY DEF JobStep
<1> QED BY <1>1, <1>2 DEF Described, Migrating

LEMMA RetainedBy ==
  ASSUME Typed, OneMigration, ~overlap, NEW a \in Actors, NEW x, JobStep(a, x), at[a].job = "migrate",
         \A r \in acted \ exposed : Kept(r)', UNCHANGED <<acted, exposed>>, MayDrop(a)'
  PROVE  Retained'
<1>1. \A b \in Actors \ {a} : at'[b] = at[b] /\ at[b].pc # "run"
  BY Alone, JobKinds DEF JobStep
<1>2. \A b \in Actors \ {a} : MayDrop(b)'
  BY <1>1 DEF MayDrop
<1> QED BY <1>2 DEF Retained

-----------------------------------------------------------------------------
(* Upward migrations.                                                      *)

LEMMA ReadVersionInv ==
  ASSUME StoreInv, NEW a \in Actors, ReadVersion(a) PROVE StoreInv'
<1>1. PICK x : /\ JobStep(a, x) /\ StagedJob(x) /\ x.job = "migrate" /\ x.pc = "open" /\ x.k = 1
               /\ x.version = (IF db = None THEN 0 ELSE db.version)
  BY ReadVersionStep DEF StoreInv
<1>2. /\ at[a] = Idle /\ overlap' = (overlap \/ Migrating # {})
      /\ UNCHANGED <<db, refused, cause, acted, exposed, downs, snap, manifest, raced, torn>>
  BY DEF ReadVersion, snapVars
<1>3. Typed'
  BY <1>1, <1>2, TypedKept DEF StoreInv, Typed, TypeOK
<1>4. OneSnapshot' /\ Copied' /\ Manifested'
  BY <1>1, <1>2, IdleJob, SnapshotsKept DEF StoreInv, snapVars
<1>5. ~overlap' => ~overlap /\ Migrating' = {a} /\ Migrating = {}
  BY <1>1, <1>2 DEF Migrating, JobStep
<1>6. OneMigration'
  BY <1>5 DEF OneMigration
<1>7. Described'
  <2> SUFFICES ASSUME ~cause', ~overlap' PROVE ~refused' /\ OnTheWay(a)'
    BY <1>5 DEF Described
  <2>1. ~refused /\ (db = None \/ Good)
    BY <1>2, <1>5 DEF StoreInv, Described
  <2>2. at'[a] = x
    BY <1>1 DEF JobStep
  <2>3. db # None => Good'
    BY <1>2, <2>1 DEF Good, TablesOf
  <2> QED BY <1>1, <1>2, <2>1, <2>2, <2>3 DEF OnTheWay, Opened
<1>8. Retained'
  <2> SUFFICES ASSUME downs' = 0, ~overlap' PROVE (\A r \in acted \ exposed : Kept(r))' /\ \A b \in Actors : MayDrop(b)'
    BY DEF Retained
  <2>1. Retained /\ downs = 0 /\ ~overlap
    BY <1>2, <1>5 DEF StoreInv
  <2>2. (\A r \in acted \ exposed : Kept(r))'
    BY <1>2, <2>1 DEF Retained, Kept
  <2>3. ASSUME NEW b \in Actors PROVE MayDrop(b)'
    <3>1. CASE b = a
      BY <1>1, <3>1 DEF MayDrop, JobStep
    <3>2. CASE b # a
      BY <1>1, <1>2, <2>1, <3>2 DEF Retained, MayDrop, JobStep, Target
    <3> QED BY <3>1, <3>2
  <2> QED BY <2>2, <2>3
<1> QED BY <1>3, <1>4, <1>6, <1>7, <1>8 DEF StoreInv

LEMMA RefusedInv ==
  ASSUME StoreInv, NEW a \in Actors, Refused(a) PROVE StoreInv'
<1>1. /\ db # None /\ db.version = 0 /\ overlap' = (overlap \/ Migrating # {})
      /\ UNCHANGED <<db, cause, at, acted, exposed, downs, snap, manifest, raced, torn>>
  BY DEF Refused, snapVars
<1>2. Typed' /\ OneSnapshot' /\ Copied' /\ Manifested'
  BY <1>1 DEF StoreInv, Typed, TypeOK, Staged, OneSnapshot, Copied, Manifested
<1>3. OneMigration' /\ Retained'
  BY <1>1 DEF StoreInv, OneMigration, Migrating, Retained, Kept, MayDrop, Target
<1>4. Described'
  <2>1. ASSUME ~cause', ~overlap' PROVE FALSE
    BY <1>1, <2>1 DEF StoreInv, Described, Good
  <2> QED BY <2>1 DEF Described
<1> QED BY <1>2, <1>3, <1>4 DEF StoreInv

LEMMA ConnectInv ==
  ASSUME StoreInv, NEW a \in Actors, Connect(a) PROVE StoreInv'
<1>1. PICK x : /\ JobStep(a, x) /\ StagedJob(x) /\ x.job = "migrate" /\ x.pc = "run"
               /\ x.k = 1 /\ x.version = at[a].version
  BY ConnectStep DEF StoreInv
<1>2. /\ at[a].job = "migrate" /\ at[a].pc = "open" /\ db' = (IF db = None THEN Empty ELSE db)
      /\ UNCHANGED <<refused, cause, overlap, acted, exposed, downs, snap, manifest, raced, torn>>
  BY DEF Connect, snapVars
<1>3. db' # None /\ db' \in Files
  BY <1>2, FileValues, NoneIsNothing DEF StoreInv, Typed, TypeOK
<1>4. Typed'
  BY <1>1, <1>2, <1>3, TypedKept DEF StoreInv, Typed, TypeOK
<1>5. OneSnapshot' /\ Copied' /\ Manifested'
  BY <1>1, <1>2, <1>3, SnapshotsKept DEF StoreInv, snapVars
<1>6. OneMigration'
  BY <1>1, <1>2, OneMigrationKept DEF StoreInv
<1>7. at'[a] = x
  BY <1>1 DEF JobStep
<1>8. Described'
  <2> SUFFICES ASSUME ~cause, ~overlap PROVE ~refused /\ Ready(a)'
    BY <1>1, <1>2, <1>7, DescribedBy DEF StoreInv, Described, OnTheWay
  <2>1. ~refused /\ Opened(a)
    BY <1>2 DEF StoreInv, Described, Migrating, OnTheWay
  <2>2. CASE db = None
    BY <1>1, <1>2, <1>3, <1>7, <2>1, <2>2, FileValues DEF Opened, Ready
  <2>3. CASE db # None
    <3>1. at'[a].version = db.version /\ at'[a].k = 1 /\ db' = db /\ Good
      BY <1>1, <1>2, <1>7, <2>1, <2>3 DEF Opened
    <3> QED BY <2>1, <2>3, <3>1 DEF Ready, Good
  <2> QED BY <2>1, <2>2, <2>3
<1>9. Retained'
  <2> SUFFICES ASSUME downs = 0, ~overlap PROVE (\A r \in acted \ exposed : Kept(r)') /\ MayDrop(a)'
    BY <1>1, <1>2, RetainedBy DEF StoreInv, Retained
  <2>1. MayDrop(a)'
    BY <1>1, <1>7 DEF MayDrop
  <2>2. ASSUME NEW r \in acted \ exposed PROVE Kept(r)'
    BY <1>2, <2>2 DEF StoreInv, Retained, Kept, Typed
  <2> QED BY <2>1, <2>2
<1> QED BY <1>4, <1>5, <1>6, <1>8, <1>9 DEF StoreInv

LEMMA MigratedInv ==
  ASSUME StoreInv, NEW a \in Actors, Migrated(a) PROVE StoreInv'
<1>1. /\ at[a].pc = "run" /\ at[a].version = 3 /\ at[a].job = "migrate" /\ JobStep(a, Idle)
      /\ UNCHANGED <<db, refused, cause, overlap, acted, exposed, downs, snap, manifest, raced, torn>>
  BY JobKinds, IdleStep DEF StoreInv, Migrated, fileVars, snapVars
<1>2. Typed'
  BY <1>1, IdleJob, IdleStaged, TypedKept DEF StoreInv, Typed, TypeOK
<1>3. OneSnapshot' /\ Copied' /\ Manifested'
  BY <1>1, IdleJob, SnapshotsKept DEF StoreInv, snapVars
<1>4. OneMigration'
  BY <1>1, OneMigrationKept DEF StoreInv
<1>5. Described'
  <2> SUFFICES ASSUME ~cause, ~overlap PROVE ~refused /\ Good'
    BY <1>1, IdleJob, DescribedBy DEF StoreInv, Described
  <2>1. ~refused /\ Ready(a)
    BY <1>1 DEF StoreInv, Described, Migrating, OnTheWay
  <2> QED BY <1>1, <2>1 DEF Ready, Good, TablesOf
<1>6. Retained'
  <2> SUFFICES ASSUME downs = 0, ~overlap PROVE (\A r \in acted \ exposed : Kept(r)') /\ MayDrop(a)'
    BY <1>1, RetainedBy DEF StoreInv, Retained
  <2> QED BY <1>1, IdleJob DEF StoreInv, Retained, Kept, MayDrop, JobStep
<1> QED BY <1>2, <1>3, <1>4, <1>5, <1>6 DEF StoreInv

LEMMA ExecuteFailsInv ==
  ASSUME StoreInv, NEW a \in Actors, ExecuteFails(a) PROVE StoreInv'
<1>1. /\ at[a].pc = "run" /\ at[a].version < 3 /\ at[a].job = "migrate" /\ JobStep(a, Idle)
      /\ ~Succeeds(Statement(a))
      /\ UNCHANGED <<db, cause, overlap, acted, exposed, downs, snap, manifest, raced, torn>>
  BY JobKinds, IdleStep DEF StoreInv, ExecuteFails, snapVars
<1>2. Typed'
  BY <1>1, IdleJob, IdleStaged, TypedKept DEF StoreInv, Typed, TypeOK
<1>3. OneSnapshot' /\ Copied' /\ Manifested'
  BY <1>1, IdleJob, SnapshotsKept DEF StoreInv, snapVars
<1>4. OneMigration'
  BY <1>1, OneMigrationKept DEF StoreInv
\* A statement that is Ready succeeds.
<1>5. Described'
  <2>1. ASSUME ~cause, ~overlap PROVE FALSE
    <3>1. Ready(a) /\ db \in Files
      BY <1>1, <2>1 DEF StoreInv, Typed, TypeOK, Described, Migrating, OnTheWay, Ready
    <3>2. ~(Statement(a) \in {"candidates", "actions", "actions2", "audit", "version"})
      BY <1>1 DEF Succeeds
    <3>3. at[a].version = 1 /\ Statement(a) \in {"copy", "drop", "rename"}
          /\ (Statement(a) = "copy" => at[a].k = 2) /\ (Statement(a) = "drop" => at[a].k = 3)
          /\ (Statement(a) = "rename" => at[a].k = 4)
      BY <1>1, <3>2, StatementAt DEF IsNext, StoreInv
    <3>4. CASE Statement(a) = "copy"
      BY <1>1, <3>1, <3>3, <3>4, NoneIsNothing DEF Ready, Succeeds
    <3>5. CASE Statement(a) = "drop"
      BY <1>1, <3>1, <3>3, <3>5 DEF Ready, Succeeds
    <3>6. CASE Statement(a) = "rename"
      BY <1>1, <3>1, <3>3, <3>6 DEF Ready, Succeeds
    <3> QED BY <3>3, <3>4, <3>5, <3>6
  <2> QED BY <1>1, <2>1 DEF Described
<1>6. Retained'
  <2> SUFFICES ASSUME downs = 0, ~overlap PROVE (\A r \in acted \ exposed : Kept(r)') /\ MayDrop(a)'
    BY <1>1, RetainedBy DEF StoreInv, Retained
  <2> QED BY <1>1, IdleJob DEF StoreInv, Retained, Kept, MayDrop, JobStep
<1> QED BY <1>2, <1>3, <1>4, <1>5, <1>6 DEF StoreInv

LEMMA ExecuteReady ==
  ASSUME Typed, NEW a \in Actors, NEW x, at'[a] = x, at[a].pc = "run", at[a].version < 3,
         Succeeds(Statement(a)), db' = After(Statement(a), Target(a)), Ready(a),
         IF at[a].k = Len(Statements(Target(a))) THEN x.version = at[a].version + 1 /\ x.k = 1
                                                 ELSE x.version = at[a].version /\ x.k = at[a].k + 1
  PROVE  Ready(a)'
<1>1. db \in Files /\ Target(a) \in 1 .. 3 /\ db # None
  BY StatementAt DEF Typed, TypeOK, IsNext, Ready
<1>2. TablesOf(1) = {"candidates"} /\ TablesOf(2) = {"candidates"} /\ TablesOf(3) = {"candidates", "audit"}
  BY DEF TablesOf
<1>3. After(Statement(a), Target(a)) # None
  BY <1>1, AfterFacts, StatementAt, NoneIsNothing DEF IsNext
<1>4. CASE IsNext(a, 0, 1, "candidates", 3)
  <2>1. Statement(a) = "candidates" /\ Target(a) = 1 /\ at[a].version = 0 /\ at[a].k = 1
    BY <1>4 DEF IsNext
  <2>2. at'[a].version = 0 /\ at'[a].k = 2
    BY <1>4 DEF IsNext
  <2> QED BY <1>1, <1>2, <1>3, <2>1, <2>2, AfterFacts, NoneIsNothing DEF Ready
<1>5. CASE IsNext(a, 0, 2, "actions", 3)
  <2>1. Statement(a) = "actions" /\ Target(a) = 1 /\ at[a].version = 0 /\ at[a].k = 2
    BY <1>5 DEF IsNext
  <2>2. at'[a].version = 0 /\ at'[a].k = 3
    BY <1>5 DEF IsNext
  <2> QED BY <1>1, <1>2, <1>3, <2>1, <2>2, AfterFacts, NoneIsNothing DEF Ready
<1>6. CASE IsNext(a, 0, 3, "version", 3)
  <2>1. Statement(a) = "version" /\ Target(a) = 1 /\ at[a].version = 0 /\ at[a].k = 3
    BY <1>6 DEF IsNext
  <2>2. at'[a].version = 1 /\ at'[a].k = 1
    BY <1>6 DEF IsNext
  <2> QED BY <1>1, <1>2, <1>3, <2>1, <2>2, AfterFacts, NoneIsNothing DEF Ready
<1>7. CASE IsNext(a, 1, 1, "actions2", 5)
  <2>1. Statement(a) = "actions2" /\ Target(a) = 2 /\ at[a].version = 1 /\ at[a].k = 1
    BY <1>7 DEF IsNext
  <2>2. at'[a].version = 1 /\ at'[a].k = 2
    BY <1>7 DEF IsNext
  <2> QED BY <1>1, <1>2, <1>3, <2>1, <2>2, AfterFacts, NoneIsNothing DEF Ready
<1>8. CASE IsNext(a, 1, 2, "copy", 5)
  <2>1. Statement(a) = "copy" /\ Target(a) = 2 /\ at[a].version = 1 /\ at[a].k = 2
    BY <1>8 DEF IsNext
  <2>2. at'[a].version = 1 /\ at'[a].k = 3
    BY <1>8 DEF IsNext
  <2> QED BY <1>1, <1>2, <1>3, <2>1, <2>2, AfterFacts, NoneIsNothing DEF Ready
<1>9. CASE IsNext(a, 1, 3, "drop", 5)
  <2>1. Statement(a) = "drop" /\ Target(a) = 2 /\ at[a].version = 1 /\ at[a].k = 3
    BY <1>9 DEF IsNext
  <2>2. at'[a].version = 1 /\ at'[a].k = 4
    BY <1>9 DEF IsNext
  <2> QED BY <1>1, <1>2, <1>3, <2>1, <2>2, AfterFacts, NoneIsNothing DEF Ready
<1>10. CASE IsNext(a, 1, 4, "rename", 5)
  <2>1. Statement(a) = "rename" /\ Target(a) = 2 /\ at[a].version = 1 /\ at[a].k = 4
    BY <1>10 DEF IsNext
  <2>2. at'[a].version = 1 /\ at'[a].k = 5
    BY <1>10 DEF IsNext
  <2> QED BY <1>1, <1>2, <1>3, <2>1, <2>2, AfterFacts, NoneIsNothing DEF Ready
<1>11. CASE IsNext(a, 1, 5, "version", 5)
  <2>1. Statement(a) = "version" /\ Target(a) = 2 /\ at[a].version = 1 /\ at[a].k = 5
    BY <1>11 DEF IsNext
  <2>2. at'[a].version = 2 /\ at'[a].k = 1
    BY <1>11 DEF IsNext
  <2> QED BY <1>1, <1>2, <1>3, <2>1, <2>2, AfterFacts, NoneIsNothing DEF Ready
<1>12. CASE IsNext(a, 2, 1, "audit", 2)
  <2>1. Statement(a) = "audit" /\ Target(a) = 3 /\ at[a].version = 2 /\ at[a].k = 1
    BY <1>12 DEF IsNext
  <2>2. at'[a].version = 2 /\ at'[a].k = 2
    BY <1>12 DEF IsNext
  <2> QED BY <1>1, <1>2, <1>3, <2>1, <2>2, AfterFacts, NoneIsNothing DEF Ready
<1>13. CASE IsNext(a, 2, 2, "version", 2)
  <2>1. Statement(a) = "version" /\ Target(a) = 3 /\ at[a].version = 2 /\ at[a].k = 2
    BY <1>13 DEF IsNext
  <2>2. at'[a].version = 3 /\ at'[a].k = 1
    BY <1>13 DEF IsNext
  <2> QED BY <1>1, <1>2, <1>3, <2>1, <2>2, AfterFacts, NoneIsNothing DEF Ready
<1> QED BY StatementAt, <1>4, <1>5, <1>6, <1>7, <1>8, <1>9, <1>10, <1>11, <1>12, <1>13

\* The effect of each statement, where the file fits the migration.
LEMMA ExecuteInv ==
  ASSUME StoreInv, NEW a \in Actors, Execute(a) PROVE StoreInv'
<1>1. PICK x : /\ JobStep(a, x) /\ StagedJob(x) /\ x.job = "migrate" /\ x.pc = "run"
               /\ IF at[a].k = Len(Statements(Target(a)))
                  THEN x.version = at[a].version + 1 /\ x.k = 1
                  ELSE x.version = at[a].version /\ x.k = at[a].k + 1
  BY ExecuteStep DEF StoreInv
<1>2. /\ at[a].pc = "run" /\ at[a].version < 3 /\ at[a].job = "migrate" /\ db # None
      /\ Succeeds(Statement(a)) /\ db' = After(Statement(a), Target(a))
      /\ UNCHANGED <<refused, cause, overlap, acted, exposed, downs, snap, manifest, raced, torn>>
  BY JobKinds DEF StoreInv, Typed, Execute, snapVars
<1> DEFINE s == Statement(a)
<1>3. db \in Files /\ Target(a) \in 1 .. 3 /\ Target(a) = at[a].version + 1
  BY <1>2, StatementAt DEF StoreInv, Typed, TypeOK, IsNext
<1>4. s \in {"candidates", "audit", "actions", "actions2", "copy", "drop", "rename", "version"}
  BY <1>2, StatementAt DEF StoreInv, IsNext
<1>5. db' \in Files /\ db' # None
  BY <1>2, <1>3, <1>4, AfterFacts, NoneIsNothing
<1>6. Typed'
  BY <1>1, <1>2, <1>5, TypedKept DEF StoreInv, Typed, TypeOK
<1>7. OneSnapshot' /\ Copied' /\ Manifested'
  BY <1>1, <1>2, <1>5, SnapshotsKept DEF StoreInv, snapVars
<1>8. OneMigration'
  BY <1>1, <1>2, OneMigrationKept DEF StoreInv
<1>9. at'[a] = x
  BY <1>1 DEF JobStep
<1>10. Described'
  <2> SUFFICES ASSUME ~cause, ~overlap PROVE ~refused /\ Ready(a)'
    BY <1>1, <1>2, <1>9, DescribedBy DEF StoreInv, Described, OnTheWay
  <2>1. ~refused /\ Ready(a)
    BY <1>2 DEF StoreInv, Described, Migrating, OnTheWay
  <2> QED BY <2>1, ExecuteReady, <1>1, <1>2, <1>3, <1>9 DEF StoreInv
<1>11. Retained'
  <2> SUFFICES ASSUME downs = 0, ~overlap PROVE (\A r \in acted \ exposed : Kept(r)') /\ MayDrop(a)'
    BY <1>1, <1>2, RetainedBy DEF StoreInv, Retained
  <2>1. (\A r \in acted \ exposed : Kept(r)) /\ MayDrop(a)
    BY DEF StoreInv, Retained
  <2>2. MayDrop(a)'
    <3> SUFFICES ASSUME x.version + 1 = 2, x.k = 3
                 PROVE  db'.actions2 # None /\ (db'.actions # None => db'.actions \ exposed \subseteq db'.actions2)
      BY <1>2, <1>9 DEF MayDrop, Target
    <3>1. s = "copy"
      BY <1>1, <1>2, StatementAt DEF StoreInv, IsNext
    <3> QED BY <1>2, <1>3, <3>1, AfterFacts, NoneIsNothing DEF Files
  <2>3. ASSUME NEW r \in acted \ exposed PROVE Kept(r)'
    <3>1. \E rows \in {db.actions, db.actions2} \ {None} : r \in rows
      BY <2>1 DEF Kept
    <3>2. CASE s \in {"candidates", "audit", "version"}
      BY <1>2, <1>3, <1>5, <3>1, <3>2, AfterFacts DEF Kept
    <3>3. CASE s = "actions"
      BY <1>2, <1>3, <1>5, <3>1, <3>3, AfterFacts DEF Kept
    <3>4. CASE s = "actions2"
      BY <1>2, <1>3, <1>5, <3>1, <3>4, AfterFacts DEF Kept
    <3>5. CASE s = "copy"
      BY <1>2, <1>3, <1>5, <3>1, <3>5, AfterFacts, NoneIsNothing DEF Kept, Files
    <3>6. CASE s = "drop"
      <4>1. at[a].version + 1 = 2 /\ at[a].k = 3
        BY <1>2, <3>6, StatementAt DEF StoreInv, IsNext
      <4>2. db.actions2 # None /\ db.actions # None /\ db.actions \ exposed \subseteq db.actions2
        BY <1>2, <2>1, <3>6, <4>1 DEF MayDrop, Target, Succeeds
      <4> QED BY <1>2, <1>3, <1>5, <3>1, <3>6, <4>2, AfterFacts DEF Kept
    <3>7. CASE s = "rename"
      BY <1>2, <1>3, <1>5, <3>1, <3>7, AfterFacts DEF Kept
    <3> QED BY <1>4, <3>2, <3>3, <3>4, <3>5, <3>6, <3>7
  <2> QED BY <2>2, <2>3
<1> QED BY <1>6, <1>7, <1>8, <1>10, <1>11 DEF StoreInv

-----------------------------------------------------------------------------
(* Snapshots.                                                              *)

LEMMA StartSnapshotInv ==
  ASSUME StoreInv, NEW a \in Actors, StartSnapshot(a) PROVE StoreInv'
<1>1. PICK x : JobStep(a, x) /\ StagedJob(x) /\ x.job = "snapshot" /\ x.pc = "copy"
  BY StartSnapshotStep DEF StoreInv
<1>2. /\ at[a] = Idle /\ db # None /\ snap = None /\ manifest = None
      /\ raced' = (raced \/ \E c \in Actors : at[c].job = "snapshot")
      /\ UNCHANGED <<db, refused, cause, overlap, acted, exposed, downs, snap, manifest, torn>>
  BY DEF StartSnapshot, fileVars
<1>3. Typed'
  BY <1>1, <1>2, TypedKept DEF StoreInv, Typed, TypeOK
<1>4. OneMigration' /\ Described' /\ Retained'
  BY <1>1, <1>2, IdleJob, MigrationsKept DEF StoreInv
<1>5. at'[a] = x /\ \A b \in Actors \ {a} : at'[b] = at[b]
  BY <1>1 DEF JobStep
<1>6. OneSnapshot'
  BY <1>2, <1>5 DEF OneSnapshot
<1>7. Copied'
  <2>1. ASSUME NEW b \in Actors PROVE
          /\ at'[b].pc = "copy" => db' # None
          /\ at'[b].pc \in {"place", "manifest"} => at'[b].copy # None
          /\ at'[b].pc = "manifest" => snap' # None
          /\ ~raced' /\ at'[b].pc \in {"copy", "place"} => snap' = None
          /\ ~raced' /\ at'[b].pc = "manifest" => snap' = at'[b].copy
          /\ ~raced' /\ at'[b].job = "snapshot" => manifest' = None
    <3>1. CASE b = a
      BY <1>1, <1>2, <1>5, <3>1
    <3>2. CASE b # a
      BY <1>2, <1>5, <3>2 DEF StoreInv, Copied
    <3> QED BY <3>1, <3>2
  <2> QED BY <2>1 DEF Copied
<1>8. Manifested'
  BY <1>2 DEF Manifested
<1> QED BY <1>3, <1>4, <1>6, <1>7, <1>8 DEF StoreInv

LEMMA CopyPagesInv ==
  ASSUME StoreInv, NEW a \in Actors, CopyPages(a) PROVE StoreInv'
<1>1. PICK x : JobStep(a, x) /\ StagedJob(x) /\ x.job = "snapshot" /\ x.pc = "place" /\ x.copy = db
  BY CopyPagesStep DEF StoreInv
<1>2. /\ at[a].job = "snapshot" /\ at[a].pc = "copy"
      /\ UNCHANGED <<db, refused, cause, overlap, acted, exposed, downs, snap, manifest, raced, torn>>
  BY DEF CopyPages, fileVars, snapVars
<1>3. Typed'
  BY <1>1, <1>2, TypedKept DEF StoreInv, Typed, TypeOK
<1>4. OneMigration' /\ Described' /\ Retained'
  BY <1>1, <1>2, MigrationsKept DEF StoreInv
<1>5. at'[a] = x /\ \A b \in Actors \ {a} : at'[b] = at[b]
  BY <1>1 DEF JobStep
<1>6. OneSnapshot'
  BY <1>2, <1>5 DEF StoreInv, OneSnapshot
<1>7. Copied'
  BY <1>1, <1>2, <1>5 DEF StoreInv, Copied
<1>8. Manifested'
  <2>1. ASSUME NEW b \in Actors, at[b].pc = "manifest" PROVE at'[b].pc = "manifest"
    BY <1>2, <1>5, <2>1
  <2> QED BY <1>2, <2>1 DEF StoreInv, Manifested
<1> QED BY <1>3, <1>4, <1>6, <1>7, <1>8 DEF StoreInv

LEMMA PlaceInv ==
  ASSUME StoreInv, NEW a \in Actors, Place(a) PROVE StoreInv'
<1>1. PICK x : JobStep(a, x) /\ StagedJob(x) /\ x.job = "snapshot" /\ x.pc = "manifest"
               /\ x.copy = at[a].copy
  BY PlaceStep DEF StoreInv
<1>2. /\ at[a].job = "snapshot" /\ at[a].pc = "place" /\ snap' = at[a].copy
      /\ UNCHANGED <<db, refused, cause, overlap, acted, exposed, downs, manifest, raced, torn>>
  BY DEF Place, fileVars
<1>3. at[a].copy # None /\ at[a].copy \in Files \cup {None}
  BY <1>2, JobKinds DEF StoreInv, Copied, Jobs
<1>4. Typed'
  BY <1>1, <1>2, <1>3, TypedKept DEF StoreInv, Typed, TypeOK
<1>5. OneMigration' /\ Described' /\ Retained'
  BY <1>1, <1>2, MigrationsKept DEF StoreInv
<1>6. at'[a] = x /\ \A b \in Actors \ {a} : at'[b] = at[b]
  BY <1>1 DEF JobStep
<1>7. OneSnapshot'
  BY <1>2, <1>6 DEF StoreInv, OneSnapshot
<1>8. ~raced => manifest = None /\ \A b \in Actors \ {a} : at[b].job # "snapshot"
  BY <1>2 DEF StoreInv, OneSnapshot, Copied
<1>9. Copied'
  <2>1. ASSUME NEW b \in Actors PROVE
          /\ at'[b].pc = "copy" => db' # None
          /\ at'[b].pc \in {"place", "manifest"} => at'[b].copy # None
          /\ at'[b].pc = "manifest" => snap' # None
          /\ ~raced' /\ at'[b].pc \in {"copy", "place"} => snap' = None
          /\ ~raced' /\ at'[b].pc = "manifest" => snap' = at'[b].copy
          /\ ~raced' /\ at'[b].job = "snapshot" => manifest' = None
    <3>1. CASE b = a
      BY <1>1, <1>2, <1>3, <1>6, <1>8, <3>1
    <3>2. CASE b # a
      <4>1. at'[b] = at[b] /\ (~raced => at[b].pc \notin {"copy", "place", "manifest"})
        BY <1>6, <1>8, <3>2, JobKinds DEF StoreInv
      <4> QED BY <1>2, <1>3, <1>8, <4>1 DEF StoreInv, Copied
    <3> QED BY <3>1, <3>2
  <2> QED BY <2>1 DEF Copied
<1>10. Manifested'
  BY <1>1, <1>2, <1>3, <1>6, <1>8 DEF StoreInv, Manifested
<1> QED BY <1>4, <1>5, <1>7, <1>9, <1>10 DEF StoreInv

LEMMA PlaceManifestInv ==
  ASSUME StoreInv, NEW a \in Actors, PlaceManifest(a) PROVE StoreInv'
<1>1. /\ at[a].job = "snapshot" /\ at[a].pc = "manifest" /\ JobStep(a, Idle)
      /\ manifest' = [hash |-> at[a].copy, schema |-> at[a].version]
      /\ UNCHANGED <<db, refused, cause, overlap, acted, exposed, downs, snap, raced, torn>>
  BY IdleStep DEF StoreInv, PlaceManifest, ManifestOf, fileVars
<1>2. at[a].copy \in Files /\ at[a].version \in 0 .. 3 /\ snap # None /\ (~raced => snap = at[a].copy)
  BY <1>1, JobKinds DEF StoreInv, Copied, Jobs
<1>3. manifest' \in Manifests /\ manifest' # None /\ manifest'.hash = at[a].copy
  BY <1>1, <1>2, NoneIsNothing DEF Manifests
<1>4. Typed'
  BY <1>1, <1>3, IdleJob, IdleStaged, TypedKept DEF StoreInv, Typed, TypeOK
<1>5. OneMigration' /\ Described' /\ Retained'
  BY <1>1, IdleJob, MigrationsKept DEF StoreInv
<1>6. at'[a] = Idle /\ \A b \in Actors \ {a} : at'[b] = at[b]
  BY <1>1 DEF JobStep
<1>7. OneSnapshot'
  BY <1>1, <1>6, IdleJob DEF StoreInv, OneSnapshot
<1>8. ~raced => \A b \in Actors : at'[b].job # "snapshot" /\ at'[b].pc \notin {"copy", "place", "manifest"}
  <2>1. ASSUME ~raced, NEW b \in Actors \ {a} PROVE at[b].job # "snapshot"
    BY <1>1, <2>1 DEF StoreInv, OneSnapshot
  <2>2. ASSUME ~raced, NEW b \in Actors \ {a} PROVE at[b].pc \notin {"copy", "place", "manifest"}
    BY <2>1, <2>2, JobKinds DEF StoreInv
  <2> QED BY <1>6, <2>1, <2>2, IdleJob
<1>9. Copied'
  BY <1>1, <1>6, <1>8, IdleJob DEF StoreInv, Copied
<1>10. Manifested'
  BY <1>1, <1>2, <1>3 DEF Manifested
<1> QED BY <1>4, <1>5, <1>7, <1>9, <1>10 DEF StoreInv

-----------------------------------------------------------------------------
(* Processes that end, rollbacks, writers.                                 *)

LEMMA CrashInv ==
  ASSUME StoreInv, NEW a \in Actors, Crash(a) PROVE StoreInv'
<1>1. /\ JobStep(a, Idle) /\ torn' = (torn \/ at[a].pc = "manifest")
      /\ cause' = (cause \/ (at[a].pc = "run" /\ at[a].version = 0) \/ Between(a))
      /\ UNCHANGED <<db, refused, overlap, acted, exposed, downs, snap, manifest, raced>>
  BY IdleStep DEF StoreInv, Crash
<1>2. Typed'
  BY <1>1, IdleJob, IdleStaged, TypedKept DEF StoreInv, Typed, TypeOK
<1>3. at'[a] = Idle /\ \A b \in Actors \ {a} : at'[b] = at[b]
  BY <1>1 DEF JobStep
<1>4. OneSnapshot' /\ Copied'
  BY <1>1, <1>3, IdleJob DEF StoreInv, OneSnapshot, Copied
<1>5. Manifested'
  <2>1. ASSUME NEW b \in Actors, at[b].pc = "manifest", ~torn' PROVE at'[b].pc = "manifest"
    BY <1>1, <1>3, <2>1
  <2> QED BY <1>1, <2>1 DEF StoreInv, Manifested
<1>6. CASE at[a].job # "migrate"
  <2>1. OneMigration' /\ Described' /\ Retained'
    BY <1>1, <1>6, IdleJob, MigrationsKept DEF StoreInv
  <2> QED BY <1>2, <1>4, <1>5, <2>1 DEF StoreInv
\* What a migration has left is what the next one may find.
<1>7. CASE at[a].job = "migrate"
  <2>1. OneMigration'
    BY <1>1, <1>7, OneMigrationKept DEF StoreInv
  <2>2. Described'
    <3> SUFFICES ASSUME ~cause', ~overlap PROVE ~refused /\ (db = None \/ Good)'
      BY <1>1, <1>7, IdleJob, DescribedBy DEF StoreInv, Described
    <3>1. ~refused /\ OnTheWay(a) /\ ~Between(a) /\ (at[a].pc = "run" => at[a].version # 0)
      BY <1>1, <1>7 DEF StoreInv, Described, Migrating
    <3>2. CASE at[a].pc = "open"
      BY <1>1, <3>1, <3>2 DEF OnTheWay, Opened, Good, TablesOf
    <3>3. CASE at[a].pc = "run"
      <4>1. at[a].version \in 1 .. 3 /\ at[a].k \in 1 .. 5 /\ Ready(a)
        BY <3>1, <3>3, JobKinds DEF StoreInv, Jobs, OnTheWay
      <4>2. at[a].version = 1 => at[a].k \in {1, 2, 5}
        BY <3>1, <3>3, <4>1 DEF Between, Target
      <4>3. Good
        <5>1. CASE at[a].version = 1
          BY <4>1, <4>2, <5>1 DEF Ready, Good
        <5>2. CASE at[a].version \in {2, 3}
          BY <4>1, <5>2 DEF Ready, Good
        <5> QED BY <4>1, <5>1, <5>2
      <4> QED BY <1>1, <3>1, <4>3 DEF Good
    <3> QED BY <1>7, <3>2, <3>3, JobKinds DEF StoreInv
  <2>3. Retained'
    <3> SUFFICES ASSUME downs = 0, ~overlap PROVE (\A r \in acted \ exposed : Kept(r)') /\ MayDrop(a)'
      BY <1>1, <1>7, RetainedBy DEF StoreInv, Retained
    <3> QED BY <1>1, <1>3, IdleJob DEF StoreInv, Retained, Kept, MayDrop
  <2> QED BY <1>2, <1>4, <1>5, <2>1, <2>2, <2>3 DEF StoreInv
<1> QED BY <1>6, <1>7

LEMMA RollBackInv ==
  ASSUME StoreInv, NEW to \in 0 .. 2, RollBack(to) PROVE StoreInv'
<1> DEFINE back == db.version = 3 /\ to = 2
<1>1. /\ db # None /\ db \in Files /\ downs' = downs + 1 /\ downs \in Nat
      /\ cause' = (cause \/ Migrating # {} \/ ~back)
      /\ UNCHANGED <<refused, overlap, acted, exposed, at, snap, manifest, raced, torn>>
  BY DEF StoreInv, Typed, TypeOK, RollBack, snapVars
<1>2. back => db' = [db EXCEPT !.tables = db.tables \ {"audit"}, !.version = 2]
  BY DEF RollBack
<1>3. ~back => db' = [Empty EXCEPT !.version = to, !.actions2 = db.actions2]
  BY DEF RollBack
<1>4. /\ db' \in Files
      /\ back => /\ db'.tables = db.tables \ {"audit"} /\ db'.version = 2
                 /\ db'.actions = db.actions
  <2>1. CASE back
    <3>1. db.tables \ {"audit"} \in SUBSET Tables /\ 2 \in 0 .. 3
      BY <1>1 DEF Files
    <3> HIDE DEF back
    <3> QED BY <1>1, <1>2, <2>1, <3>1 DEF Files
  <2>2. CASE ~back
    <3>1. db.actions2 \in {None} \cup SUBSET Rows /\ to \in 0 .. 3
      BY <1>1 DEF Files
    <3>2. Empty.tables \in SUBSET Tables /\ Empty.actions = None /\ Empty \in Files
      BY FileValues
    <3> HIDE DEF back
    <3> QED BY <1>3, <2>2, <3>1, <3>2 DEF Files
  <2> QED BY <2>1, <2>2
<1>5. db' # None
  BY <1>4, NoneIsNothing
<1>6. Typed'
  BY <1>1, <1>4, <1>5 DEF StoreInv, Typed, TypeOK, Staged
<1>7. OneMigration' /\ OneSnapshot' /\ Copied' /\ Manifested'
  BY <1>1, <1>5 DEF StoreInv, OneMigration, Migrating, OneSnapshot, Copied, Manifested
<1>8. Described'
  <2> SUFFICES ASSUME ~cause', ~overlap' PROVE ~refused' /\ Migrating' = {} /\ Good'
    BY DEF Described
  <2>1. ~refused /\ Migrating = {} /\ Good /\ back
    BY <1>1 DEF StoreInv, Described
  <2>2. db'.version = 2 /\ {"candidates"} \subseteq db'.tables /\ db'.actions # None
    BY <1>4, <2>1 DEF Good, TablesOf
  <2> QED BY <1>1, <2>1, <2>2 DEF Good, TablesOf, Migrating
<1>9. Retained'
  BY <1>1 DEF Retained
<1> QED BY <1>6, <1>7, <1>8, <1>9 DEF StoreInv

LEMMA InsertActionInv ==
  ASSUME StoreInv, NEW r \in Rows, InsertAction(r) PROVE StoreInv'
<1>1. /\ db # None /\ db \in Files /\ db.actions # None /\ acted' = acted \cup {r}
      /\ exposed' = (IF \E a \in Actors : Between(a) THEN exposed \cup {r} ELSE exposed)
      /\ db' = [db EXCEPT !.actions = db.actions \cup {r}]
      /\ UNCHANGED <<refused, cause, overlap, downs, at, snap, manifest, raced, torn>>
  BY DEF StoreInv, Typed, TypeOK, InsertAction, snapVars
<1>2. db.actions \cup {r} \in SUBSET Rows
  BY <1>1 DEF Files
<1>3. /\ db' \in Files /\ db'.version = db.version /\ db'.tables = db.tables
      /\ db'.actions = db.actions \cup {r} /\ db'.actions2 = db.actions2
  BY <1>1, <1>2 DEF Files
<1>4. db' # None /\ db'.actions # None
  BY <1>2, <1>3, NoneIsNothing
<1>5. TypeOK'
  BY <1>1, <1>3 DEF StoreInv, Typed, TypeOK
<1>6. Typed'
  BY <1>1, <1>4, <1>5 DEF StoreInv, Typed, Staged
<1>7. OneMigration' /\ OneSnapshot' /\ Copied' /\ Manifested'
  BY <1>1, <1>4 DEF StoreInv, OneMigration, Migrating, OneSnapshot, Copied, Manifested
<1>8. Described'
  <2>1. Good => Good'
    BY <1>3, <1>4 DEF Good
  <2>2. ASSUME NEW a \in Actors, OnTheWay(a) PROVE OnTheWay(a)'
    <3>1. Ready(a) => Ready(a)'
      BY <1>1, <1>3, <1>4 DEF Ready
    <3>2. Opened(a) => Opened(a)'
      BY <1>1, <1>3, <1>4, <2>1 DEF Opened
    <3> QED BY <1>1, <2>2, <3>1, <3>2 DEF OnTheWay
  <2> QED BY <1>1, <2>1, <2>2 DEF StoreInv, Described, Migrating
<1>9. Retained'
  <2> SUFFICES ASSUME downs = 0, ~overlap
               PROVE (\A q \in acted' \ exposed' : Kept(q)') /\ \A a \in Actors : MayDrop(a)'
    BY <1>1 DEF Retained
  <2>1. (\A q \in acted \ exposed : Kept(q)) /\ \A a \in Actors : MayDrop(a)
    BY DEF StoreInv, Retained
  <2>2. ASSUME NEW q \in acted' \ exposed' PROVE Kept(q)'
    <3>1. CASE q = r
      BY <1>3, <1>4, <3>1 DEF Kept
    <3>2. CASE q # r
      <4>1. Kept(q)
        BY <1>1, <2>1, <3>2
      <4> QED BY <1>3, <1>4, <4>1 DEF Kept
    <3> QED BY <3>1, <3>2
  <2>3. ASSUME NEW a \in Actors PROVE MayDrop(a)'
    <3>1. CASE Between(a) /\ at[a].k = 3
      <4>1. exposed' = exposed \cup {r}
        BY <1>1, <3>1
      <4> QED BY <1>1, <1>3, <2>1, <4>1 DEF MayDrop, Target
    <3>2. CASE ~(Between(a) /\ at[a].k = 3)
      BY <1>1, <3>2 DEF MayDrop, Between, Target
    <3> QED BY <3>1, <3>2
  <2> QED BY <2>2, <2>3
<1> QED BY <1>6, <1>7, <1>8, <1>9 DEF StoreInv

-----------------------------------------------------------------------------
(* The versions that snapshots have read.                                  *)

\* Of a file whose version stays, or with a record of the snapshots the change passes.
LEMMA SchemedKept ==
  ASSUME Schemed, moved' \subseteq Actors, UNCHANGED <<manifest, raced>>,
         \A b \in Actors : at'[b].pc \in {"copy", "place", "manifest"} => at'[b] = at[b],
         \/ moved' = moved /\ db'.version = db.version
         \/ moved' = moved \cup Copying
  PROVE  Schemed'
<1>1. ASSUME NEW b \in Actors \ moved', at'[b].pc = "copy" PROVE at'[b].version = db'.version
  <2>1. at'[b] = at[b] /\ b \in Copying /\ b \notin moved
    BY <1>1 DEF Copying
  <2> QED BY <1>1, <2>1 DEF Schemed, Copying
<1>2. ASSUME NEW b \in Actors \ moved', at'[b].pc \in {"place", "manifest"}
      PROVE  at'[b].version = at'[b].copy.version
  BY <1>2 DEF Schemed
<1>3. moved' = {} => moved = {}
  OBVIOUS
<1> QED BY <1>1, <1>2, <1>3 DEF Schemed

LEMMA MigrateSchemed ==
  ASSUME StoreInv, Schemed, moved \subseteq Actors, NEW a \in Actors, Migrate(a)
  PROVE  Schemed' /\ moved' \subseteq Actors
<1>1. Typed /\ Copied
  BY DEF StoreInv
<1>2. Copying # {} => db # None
  BY <1>1 DEF Copying, Copied
<1>3. CASE Execute(a)
  <2>1. PICK x : JobStep(a, x) /\ x.job = "migrate" /\ x.pc = "run"
    BY <1>1, <1>3, ExecuteStep
  <2>2. /\ at[a].pc = "run" /\ at[a].version < 3 /\ db # None /\ Succeeds(Statement(a))
        /\ db' = After(Statement(a), Target(a)) /\ UNCHANGED <<manifest, raced>>
        /\ moved' = IF Statement(a) = "version" THEN moved \cup Copying ELSE moved
    BY <1>1, <1>3 DEF Typed, Execute, snapVars
  <2>3. db \in Files /\ Target(a) \in 1 .. 3
    BY <1>1, <2>2, StatementAt DEF Typed, TypeOK, IsNext
  <2>4. Statement(a) \in {"candidates", "audit", "actions", "actions2", "copy", "drop", "rename", "version"}
    BY <1>1, <2>2, StatementAt DEF IsNext
  <2>5. Statement(a) # "version" => db'.version = db.version
    BY <2>2, <2>3, <2>4, AfterFacts
  <2>6. \A b \in Actors : at'[b].pc \in {"copy", "place", "manifest"} => at'[b] = at[b]
    BY <2>1 DEF JobStep
  <2>7. moved' \subseteq Actors
    BY <2>2 DEF Copying
  <2> QED BY <2>2, <2>5, <2>6, <2>7, SchemedKept
<1>4. CASE ~Execute(a)
  <2>1. /\ UNCHANGED <<manifest, raced, moved>>
        /\ db # None => db' = db
    BY <1>4, NoneIsNothing DEF Migrate, ReadVersion, Refused, Connect, ExecuteFails, Migrated, snapVars, fileVars
  <2>2. \A b \in Actors : at'[b].pc \in {"copy", "place", "manifest"} => at'[b] = at[b]
    <3>1. CASE ReadVersion(a)
      BY <1>1, <3>1, ReadVersionStep DEF JobStep
    <3>2. CASE Refused(a)
      BY <3>2 DEF Refused
    <3>3. CASE Connect(a)
      BY <1>1, <3>3, ConnectStep DEF JobStep
    <3>4. CASE ExecuteFails(a) \/ Migrated(a)
      <4>1. JobStep(a, Idle)
        BY <1>1, <3>4, IdleStep DEF ExecuteFails, Migrated
      <4> QED BY <4>1, IdleJob DEF JobStep
    <3> QED BY <1>4, <3>1, <3>2, <3>3, <3>4 DEF Migrate
  <2>3. ASSUME NEW b \in Actors, at[b].pc = "copy" PROVE db' = db
    BY <1>1, <2>1, <2>3 DEF Copied
  <2>4. CASE Copying = {}
    BY <2>1, <2>2, <2>4, SchemedKept
  <2>5. CASE Copying # {}
    BY <1>2, <2>1, <2>2, <2>5, SchemedKept
  <2> QED BY <2>1, <2>4, <2>5
<1> QED BY <1>3, <1>4

LEMMA SnapshotSchemed ==
  ASSUME StoreInv, Schemed, moved \subseteq Actors, NEW a \in Actors, Snapshot(a)
  PROVE  Schemed' /\ moved' \subseteq Actors
<1>1. at \in [Actors -> Jobs] /\ Copied /\ OneSnapshot
  BY DEF StoreInv, Typed, TypeOK
<1>2. CASE StartSnapshot(a)
  <2>1. /\ at' = [at EXCEPT ![a] = [Idle EXCEPT !.job = "snapshot", !.pc = "copy", !.version = db.version]]
        /\ db' = db /\ manifest = None /\ manifest' = None /\ moved' = moved \ {a}
    BY <1>2 DEF StartSnapshot, fileVars
  <2> QED BY <1>1, <2>1, IdleJob DEF Schemed, Jobs
<1>3. CASE CopyPages(a)
  <2>1. /\ at' = [at EXCEPT ![a] = [at[a] EXCEPT !.pc = "place", !.copy = db]]
        /\ at[a].pc = "copy" /\ UNCHANGED <<db, manifest, moved, raced>>
    BY <1>3 DEF CopyPages, fileVars, snapVars
  <2>2. at'[a].pc = "place" /\ at'[a].copy = db /\ at'[a].version = at[a].version
    BY <1>1, <2>1 DEF Jobs
  <2>3. \A b \in Actors \ {a} : at'[b] = at[b]
    BY <1>1, <2>1
  <2> QED BY <2>1, <2>2, <2>3 DEF Schemed
<1>4. CASE Place(a)
  <2>1. /\ at' = [at EXCEPT ![a] = [at[a] EXCEPT !.pc = "manifest"]]
        /\ at[a].pc = "place" /\ UNCHANGED <<db, manifest, moved, raced>>
    BY <1>4 DEF Place, fileVars
  <2>2. at'[a].pc = "manifest" /\ at'[a].copy = at[a].copy /\ at'[a].version = at[a].version
    BY <1>1, <2>1 DEF Jobs
  <2>3. \A b \in Actors \ {a} : at'[b] = at[b]
    BY <1>1, <2>1
  <2> QED BY <2>1, <2>2, <2>3 DEF Schemed
<1>5. CASE PlaceManifest(a)
  <2>1. /\ at' = [at EXCEPT ![a] = Idle] /\ at[a].pc = "manifest"
        /\ manifest' = [hash |-> at[a].copy, schema |-> at[a].version] /\ UNCHANGED <<db, moved, raced>>
    BY <1>5 DEF PlaceManifest, ManifestOf, fileVars
  <2>2. at'[a] = Idle /\ \A b \in Actors \ {a} : at'[b] = at[b]
    BY <1>1, <2>1
  <2>3. manifest'.hash = at[a].copy /\ manifest'.schema = at[a].version
    BY <2>1
  <2> QED BY <2>1, <2>2, <2>3, IdleJob DEF Schemed
<1> QED BY <1>2, <1>3, <1>4, <1>5 DEF Snapshot

LEMMA CrashSchemed ==
  ASSUME StoreInv, Schemed, moved \subseteq Actors, NEW a \in Actors, Crash(a)
  PROVE  Schemed' /\ moved' \subseteq Actors
<1>1. at \in [Actors -> Jobs] /\ Copied
  BY DEF StoreInv, Typed, TypeOK
<1>2. /\ at' = [at EXCEPT ![a] = Idle] /\ UNCHANGED <<db, manifest, raced>>
      /\ moved' = IF at[a].job = "snapshot" THEN moved \ {a} ELSE moved
  BY DEF Crash
<1>3. at'[a] = Idle /\ \A b \in Actors \ {a} : at'[b] = at[b]
  BY <1>1, <1>2
<1>4. ~raced /\ manifest # None => moved' = moved
  BY <1>1, <1>2 DEF Copied
<1> QED BY <1>2, <1>3, <1>4, IdleJob DEF Schemed

LEMMA SchemedInit == Init => Schemed /\ moved \subseteq Actors
BY IdleJob DEF Init, Schemed

LEMMA SchemedStep ==
  StoreInv /\ Schemed /\ moved \subseteq Actors /\ [Next]_vars => Schemed' /\ moved' \subseteq Actors
<1> SUFFICES ASSUME StoreInv, Schemed, moved \subseteq Actors, [Next]_vars
             PROVE  Schemed' /\ moved' \subseteq Actors
  OBVIOUS
<1>1. CASE UNCHANGED vars
  BY <1>1 DEF vars, fileVars, snapVars, Schemed
<1>2. ASSUME NEW to \in 0 .. 2, RollBack(to) PROVE Schemed' /\ moved' \subseteq Actors
  <2>1. at' = at /\ UNCHANGED <<manifest, raced>> /\ moved' = moved \cup Copying
    BY <1>2 DEF RollBack, snapVars
  <2>2. moved' \subseteq Actors
    BY <2>1 DEF Copying
  <2> QED BY <2>1, <2>2, SchemedKept
<1>3. ASSUME NEW r \in Rows, InsertAction(r) PROVE Schemed' /\ moved' \subseteq Actors
  <2>1. at' = at /\ UNCHANGED <<manifest, raced, moved>>
    BY <1>3 DEF InsertAction, snapVars
  <2>2. db \in Files /\ db' = [db EXCEPT !.actions = db.actions \cup {r}]
    BY <1>3 DEF InsertAction, StoreInv, Typed, TypeOK
  <2>3. db'.version = db.version
    BY <2>2 DEF Files
  <2> QED BY <2>1, <2>3, SchemedKept
<1> QED BY <1>1, <1>2, <1>3, MigrateSchemed, SnapshotSchemed, CrashSchemed DEF Next

LEMMA StoreInitInv == Init => StoreInv
<1> SUFFICES ASSUME Init PROVE StoreInv
  OBVIOUS
<1>1. \A a \in Actors : at[a] = Idle
  BY DEF Init
<1>2. Typed
  <2>1. TypeOK
    BY FileValues, IdleJob DEF Init, TypeOK
  <2> QED BY <1>1, <2>1, IdleJob, IdleStaged DEF Init, Typed, Staged
<1>3. Migrating = {}
  BY <1>1, IdleJob DEF Migrating
<1>4. db = None \/ Good
  <2>1. CASE db = AtVersion1
    BY <2>1, FileValues, NoneIsNothing DEF Good, TablesOf
  <2> QED BY <2>1 DEF Init
<1>5. Described
  BY <1>3, <1>4 DEF Init, Described
<1>6. OneMigration /\ Retained
  BY <1>1, <1>3, IdleJob DEF Init, OneMigration, Retained, MayDrop
<1>7. OneSnapshot /\ Copied /\ Manifested
  BY <1>1, IdleJob DEF Init, OneSnapshot, Copied, Manifested
<1> QED BY <1>2, <1>5, <1>6, <1>7 DEF StoreInv

LEMMA StoreStepInv == StoreInv /\ [Next]_vars => StoreInv'
<1> SUFFICES ASSUME StoreInv, [Next]_vars PROVE StoreInv'
  OBVIOUS
<1>1. CASE UNCHANGED vars
  <2> USE <1>1 DEF vars, fileVars, snapVars
  <2>1. Typed' /\ OneMigration'
    BY DEF StoreInv, Typed, TypeOK, Staged, OneMigration, Migrating
  <2>2. Retained'
    <3>1. \A r \in acted \ exposed : Kept(r) => Kept(r)'
      BY DEF Kept
    <3>2. \A a \in Actors : MayDrop(a) => MayDrop(a)'
      BY DEF MayDrop, Target
    <3> QED BY <3>1, <3>2 DEF StoreInv, Retained
  <2>3. Described'
    <3>1. Good => Good'
      BY DEF Good
    <3>2. \A a \in Actors : OnTheWay(a) => OnTheWay(a)'
      BY <3>1 DEF OnTheWay, Opened, Ready
    <3> QED BY <3>1, <3>2 DEF StoreInv, Described, Migrating
  <2>4. OneSnapshot' /\ Copied' /\ Manifested'
    BY DEF StoreInv, OneSnapshot, Copied, Manifested
  <2> QED BY <2>1, <2>2, <2>3, <2>4 DEF StoreInv
<1>2. ASSUME NEW a \in Actors, Migrate(a) PROVE StoreInv'
  BY <1>2, ReadVersionInv, RefusedInv, ConnectInv, ExecuteInv, ExecuteFailsInv, MigratedInv DEF Migrate
<1>3. ASSUME NEW a \in Actors, Snapshot(a) PROVE StoreInv'
  BY <1>3, StartSnapshotInv, CopyPagesInv, PlaceInv, PlaceManifestInv DEF Snapshot
<1>4. ASSUME NEW a \in Actors, Crash(a) PROVE StoreInv'
  BY <1>4, CrashInv
<1>5. ASSUME NEW to \in 0 .. 2, RollBack(to) PROVE StoreInv'
  BY <1>5, RollBackInv
<1>6. ASSUME NEW r \in Rows, InsertAction(r) PROVE StoreInv'
  BY <1>6, InsertActionInv
<1> QED BY <1>1, <1>2, <1>3, <1>4, <1>5, <1>6 DEF Next

LEMMA StoreInvariance == Spec => []StoreInv
BY StoreInitInv, StoreStepInv, PTL DEF Spec

LEMMA SchemedInvariance == Spec => [](Schemed /\ moved \subseteq Actors)
<1>1. StoreInv /\ (Schemed /\ moved \subseteq Actors) /\ [Next]_vars
        => (Schemed /\ moved \subseteq Actors)'
  BY SchemedStep
<1> QED BY <1>1, StoreInvariance, SchemedInit, PTL DEF Spec

\* The variables have their types, and a process that has opened the file finds one.
THEOREM StoreTypes == Spec => []Typed
<1>1. StoreInv => Typed
  BY DEF StoreInv
<1> QED BY <1>1, StoreInvariance, PTL

\* A file that nobody migrates has the tables its version stands for, and no migration is
\* refused, unless one of the accidents that the property names is on record.
THEOREM VersionsDescribeTables == Spec => []VersionDescribes
<1>1. StoreInv => VersionDescribes
  BY DEF StoreInv, Described, VersionDescribes, Good
<1> QED BY <1>1, StoreInvariance, PTL

\* Upward migrations lose no row that was not inserted between their copy and their drop.
THEOREM ActionsSurvive == Spec => []ActionsKept
<1>1. StoreInv => ActionsKept
  BY DEF StoreInv, Retained, ActionsKept
<1> QED BY <1>1, StoreInvariance, PTL

\* verify_candidate_snapshot accepts a snapshot that has a manifest, its hash and its schema,
\* unless the version was changed between the reading of it and the copy or two snapshots
\* overlapped; and a process that ended has left any snapshot without a manifest.
THEOREM ManifestsFit == Spec => []SnapshotsFit
<1>1. ASSUME StoreInv, Schemed PROVE SnapshotsFit
  <2>1. (\A a \in Actors : at[a].job # "snapshot") => \A a \in Actors : at[a].pc # "manifest"
    BY <1>1, JobKinds DEF StoreInv
  <2>2. ASSUME ~raced, manifest # None
        PROVE  Verdict = "ok" \/ (Verdict = "schema_mismatch" /\ moved # {})
    BY <1>1, <2>2 DEF StoreInv, Manifested, Schemed, Verdict
  <2> QED BY <1>1, <2>1, <2>2 DEF StoreInv, Manifested, SnapshotsFit
<1> QED BY <1>1, StoreInvariance, SchemedInvariance, PTL

-----------------------------------------------------------------------------
(***************************************************************************)
(* The lock that discovery_runs is: at most one row of a channel runs, and *)
(* a process that works holds a row, its own, that runs or is stale.       *)
(***************************************************************************)
AtMostOne ==
  \A r, q \in Runs :
    row[r].status = "running" /\ row[q].status = "running" /\ row[r].channel = row[q].channel
      => r = q

IsWorking(w) == post[w].pc = "working"

OwnRows == \A v, w \in Workers : IsWorking(v) /\ IsWorking(w) /\ v # w => post[v].run # post[w].run

RowsFit ==
  \A w \in Workers : IsWorking(w) =>
    /\ row[post[w].run].channel = post[w].channel
    /\ row[post[w].run].status = "running" \/ row[post[w].run].age > LockStale

RunsInv == RunsTypeOK /\ AtMostOne /\ OwnRows /\ RowsFit

LEMMA WorkingRun ==
  ASSUME RunsTypeOK, NEW w \in Workers, IsWorking(w) PROVE post[w].run \in Runs /\ Held(post[w].run)
BY DEF RunsTypeOK, IsWorking, Posts, Held

LEMMA RunsInitInv == RunsInit => RunsInv
<1> SUFFICES ASSUME RunsInit PROVE RunsInv
  OBVIOUS
<1>1. RunsTypeOK
  BY DiscoveryConstants DEF RunsInit, RunsTypeOK, RunRows, Posts, NoPost, Ages, AgeCap
<1>2. AtMostOne
  BY DEF RunsInit, AtMostOne
<1>3. \A w \in Workers : ~IsWorking(w)
  BY DEF RunsInit, IsWorking, NoPost
<1> QED BY <1>1, <1>2, <1>3 DEF RunsInv, OwnRows, RowsFit

\* A process that leaves without touching the table, or comes.
LEMMA LeaveInv ==
  ASSUME RunsInv, NEW w \in Workers, NEW p \in Posts, p.pc # "working", p.run = Nothing,
         post' = [post EXCEPT ![w] = p], UNCHANGED row
  PROVE  RunsInv'
<1>1. \A v \in Workers : post'[v] = IF v = w THEN p ELSE post[v]
  BY DEF RunsInv, RunsTypeOK
<1>2. RunsTypeOK'
  BY <1>1 DEF RunsInv, RunsTypeOK
<1> QED BY <1>1, <1>2 DEF RunsInv, AtMostOne, OwnRows, RowsFit, IsWorking

LEMMA NoPostType == NoPost \in Posts /\ NoPost.pc # "working" /\ NoPost.run = Nothing
BY DiscoveryConstants DEF NoPost, Posts, Ages, AgeCap

LEMMA StartInv == ASSUME RunsInv, NEW w \in Workers, Start(w) PROVE RunsInv'
<1>1. PICK n \in Free :
        /\ row' = [r \in Runs |->
                     IF r = n THEN [channel |-> post[w].channel, status |-> "running",
                                    age |-> post[w].age]
                     ELSE IF Stale(w, r) THEN [row[r] EXCEPT !.status = "failed"]
                     ELSE row[r]]
        /\ post' = [post EXCEPT ![w].pc = "working", ![w].run = n, ![w].age = 0]
  BY DEF Start
<1>2. n \in Runs /\ row[n].status # "running" /\ ~Held(n) /\ n # Nothing
  BY <1>1, DiscoveryConstants DEF Free
<1>3. post[w].pc = "starting" /\ Live(w) = {}
  BY DEF Start
<1> DEFINE p == [post[w] EXCEPT !.pc = "working", !.run = n, !.age = 0]
           new == [channel |-> post[w].channel, status |-> "running", age |-> post[w].age]
<1>4. \A v \in Workers : post'[v] = IF v = w THEN p ELSE post[v]
  BY <1>1 DEF RunsInv, RunsTypeOK
<1>5. p \in Posts /\ p.pc = "working" /\ p.run = n /\ p.channel = post[w].channel
  <2>1. post[w] \in Posts /\ 0 \in Ages /\ n \in Runs \cup {Nothing}
    BY <1>2, DiscoveryConstants DEF RunsInv, RunsTypeOK, Ages, AgeCap
  <2>2. [post[w] EXCEPT !.pc = "working"] \in Posts
    BY <2>1 DEF Posts
  <2> QED BY <2>1, <2>2 DEF Posts
<1>6. new \in RunRows /\ row'[n] = new
  BY <1>1, <1>2 DEF RunsInv, RunsTypeOK, RunRows, Posts
<1>7. \A r \in Runs \ {n} :
        /\ row'[r] \in RunRows /\ row'[r].channel = row[r].channel /\ row'[r].age = row[r].age
        /\ row'[r].status = row[r].status \/ (row'[r].status = "failed" /\ row[r].age > LockStale)
        /\ Stale(w, r) => row'[r].status = "failed"
        /\ row'[r].status = "running" => row[r].status = "running"
  <2> TAKE r \in Runs \ {n}
  <2>1. row'[r] = IF Stale(w, r) THEN [row[r] EXCEPT !.status = "failed"] ELSE row[r]
    BY <1>1
  <2>2. row[r] \in RunRows /\ post[w].age \in Nat /\ row[r].age \in Nat
    BY DiscoveryConstants DEF RunsInv, RunsTypeOK, RunRows, Posts, Ages, AgeCap
  <2>3. CASE Stale(w, r)
    <3>1. row[r].age > LockStale
      BY <2>2, <2>3, DiscoveryConstants DEF Stale
    <3> QED BY <2>1, <2>2, <2>3, <3>1 DEF RunRows
  <2>4. CASE ~Stale(w, r)
    BY <2>1, <2>2, <2>4
  <2> QED BY <2>3, <2>4
<1>8. RunsTypeOK'
  <2>1. row' \in [Runs -> RunRows]
    <3>1. \A r \in Runs : row'[r] \in RunRows
      BY <1>6, <1>7
    <3> QED BY <3>1, <1>1
  <2>2. post' \in [Workers -> Posts]
    BY <1>1, <1>4, <1>5 DEF RunsInv, RunsTypeOK
  <2> HIDE DEF p
  <2>3. \A v \in Workers : post'[v].pc = "working" <=> post'[v].run # Nothing
    BY <1>2, <1>4, <1>5 DEF RunsInv, RunsTypeOK
  <2> QED BY <2>1, <2>2, <2>3 DEF RunsTypeOK
<1> HIDE DEF p
<1>9. AtMostOne'
  <2>1. ASSUME NEW q \in Runs \ {n}, row'[q].status = "running" PROVE row'[q].channel # new.channel
    <3>1. row[q].status = "running" /\ row[q].channel = row'[q].channel /\ ~Stale(w, q)
      BY <2>1, <1>7
    <3> QED BY <3>1, <1>3 DEF Live, Running
  <2> QED BY <2>1, <1>6, <1>7 DEF RunsInv, AtMostOne
<1>10. \A v \in Workers \ {w} : IsWorking(v) => post[v].run \in Runs \ {n}
  BY <1>2, WorkingRun DEF RunsInv
<1>11. OwnRows'
  BY <1>4, <1>5, <1>10 DEF RunsInv, OwnRows, IsWorking
<1>12. RowsFit'
  <2> SUFFICES ASSUME NEW v \in Workers, IsWorking(v)'
               PROVE  /\ row'[post'[v].run].channel = post'[v].channel
                      /\ row'[post'[v].run].status = "running" \/ row'[post'[v].run].age > LockStale
    BY DEF RowsFit
  <2>1. CASE v = w
    BY <2>1, <1>4, <1>5, <1>6
  <2>2. CASE v # w
    BY <2>2, <1>4, <1>7, <1>10 DEF RunsInv, RowsFit, IsWorking
  <2> QED BY <2>1, <2>2
<1> QED BY <1>8, <1>9, <1>11, <1>12 DEF RunsInv

LEMMA FinishInv == ASSUME RunsInv, NEW w \in Workers, Finish(w) PROVE RunsInv'
<1>1. PICK outcome \in Outcomes :
        row' = [row EXCEPT ![post[w].run].status = outcome, ![post[w].run].age = 0]
  BY DEF Finish
<1>2. IsWorking(w) /\ post' = [post EXCEPT ![w] = NoPost]
  BY DEF Finish, IsWorking
<1>3. post[w].run \in Runs
  BY <1>2, WorkingRun DEF RunsInv
<1> DEFINE mine == post[w].run
<1>4. /\ row'[mine] \in RunRows /\ row'[mine].status # "running"
      /\ row' \in [Runs -> RunRows]
      /\ \A r \in Runs \ {mine} : row'[r] = row[r]
  <2>1. row[mine] \in RunRows /\ 0 \in Ages /\ outcome \in {"succeeded", "failed"}
    BY <1>3, DiscoveryConstants DEF RunsInv, RunsTypeOK, Ages, AgeCap, Outcomes
  <2>2. row'[mine] = [row[mine] EXCEPT !.status = outcome, !.age = 0]
        /\ \A r \in Runs \ {mine} : row'[r] = row[r]
    BY <1>1, <1>3 DEF RunsInv, RunsTypeOK
  <2>3. row'[mine] \in RunRows /\ row'[mine].status # "running"
    BY <2>1, <2>2 DEF RunRows
  <2>4. \A r \in Runs : row'[r] \in RunRows
    BY <2>2, <2>3 DEF RunsInv, RunsTypeOK
  <2>5. row' = [r \in Runs |-> row'[r]]
    BY <1>1 DEF RunsInv, RunsTypeOK
  <2> QED BY <2>2, <2>3, <2>4, <2>5
<1>5. \A v \in Workers : post'[v] = IF v = w THEN NoPost ELSE post[v]
  BY <1>2 DEF RunsInv, RunsTypeOK
<1>6. \A v \in Workers : IsWorking(v)' => v # w /\ IsWorking(v)
  BY <1>5, NoPostType DEF IsWorking
<1>7. \A v \in Workers : IsWorking(v)' => post'[v] = post[v] /\ post[v].run \in Runs \ {mine}
  BY <1>2, <1>5, <1>6, WorkingRun DEF RunsInv, OwnRows
<1>8. RunsTypeOK'
  BY <1>2, <1>4, <1>5, NoPostType DEF RunsInv, RunsTypeOK
<1>9. AtMostOne'
  BY <1>4 DEF RunsInv, AtMostOne
<1>10. OwnRows'
  BY <1>6, <1>7 DEF RunsInv, OwnRows
<1>11. RowsFit'
  BY <1>4, <1>6, <1>7 DEF RunsInv, RowsFit
<1> QED BY <1>8, <1>9, <1>10, <1>11 DEF RunsInv

LEMMA TickInv == ASSUME RunsInv, Tick PROVE RunsInv'
<1>1. /\ row' = [r \in Runs |-> IF row[r].status = "running" \/ Held(r)
                                THEN [row[r] EXCEPT !.age = Older(@)] ELSE row[r]]
      /\ post' = [w \in Workers |-> IF post[w].pc = "starting"
                                  THEN [post[w] EXCEPT !.age = Older(@)] ELSE post[w]]
  BY DEF Tick
<1>2. \A n \in Ages : Older(n) \in Ages /\ (n > LockStale => Older(n) > LockStale)
  BY DiscoveryConstants DEF Ages, AgeCap, Older
<1>3. \A r \in Runs : /\ row'[r] \in RunRows
                      /\ row'[r].status = row[r].status /\ row'[r].channel = row[r].channel
                      /\ row[r].age > LockStale => row'[r].age > LockStale
  BY <1>1, <1>2 DEF RunsInv, RunsTypeOK, RunRows
<1>4. \A w \in Workers : /\ post'[w] \in Posts /\ post'[w].pc = post[w].pc
                         /\ post'[w].run = post[w].run /\ post'[w].channel = post[w].channel
  BY <1>1, <1>2 DEF RunsInv, RunsTypeOK, Posts
<1>5. RunsTypeOK'
  BY <1>1, <1>3, <1>4 DEF RunsInv, RunsTypeOK
<1>6. AtMostOne'
  BY <1>3 DEF RunsInv, AtMostOne
<1>7. OwnRows'
  BY <1>4 DEF RunsInv, OwnRows, IsWorking
<1>8. RowsFit'
  BY <1>3, <1>4, WorkingRun DEF RunsInv, RowsFit, IsWorking
<1> QED BY <1>5, <1>6, <1>7, <1>8 DEF RunsInv

LEMMA RunsStepInv == RunsInv /\ [RunsNext]_runVars => RunsInv'
<1> SUFFICES ASSUME RunsInv, [RunsNext]_runVars PROVE RunsInv'
  OBVIOUS
<1>1. CASE UNCHANGED runVars
  BY <1>1 DEF runVars, RunsInv, RunsTypeOK, AtMostOne, OwnRows, RowsFit, IsWorking
<1>2. CASE Tick
  BY <1>2, TickInv
<1>3. ASSUME NEW w \in Workers, Start(w) \/ Finish(w) PROVE RunsInv'
  BY <1>3, StartInv, FinishInv
<1>4. ASSUME NEW w \in Workers, StartRefused(w) \/ FinishRefused(w) \/ Die(w) PROVE RunsInv'
  BY <1>4, NoPostType, LeaveInv DEF StartRefused, FinishRefused, Die
<1>5. ASSUME NEW w \in Workers, NEW ch \in Channels, Begin(w, ch) PROVE RunsInv'
  <2> DEFINE p == [NoPost EXCEPT !.pc = "starting", !.channel = ch]
  <2>1. p \in Posts /\ p.pc # "working" /\ p.run = Nothing
    <3>1. [NoPost EXCEPT !.pc = "starting"] \in Posts
      BY NoPostType DEF Posts
    <3>2. p \in Posts /\ p.pc = "starting"
      BY <3>1, NoPostType DEF Posts
    <3>3. p.run = NoPost.run
      BY DEF NoPost
    <3> QED BY <3>2, <3>3, NoPostType
  <2>2. post' = [post EXCEPT ![w] = p] /\ UNCHANGED row
    BY <1>5 DEF Begin
  <2> HIDE DEF p
  <2> QED BY <2>1, <2>2, LeaveInv
<1> QED BY <1>1, <1>2, <1>3, <1>4, <1>5 DEF RunsNext, Step

LEMMA RunsInvariance == RunsSpec => []RunsInv
BY RunsInitInv, RunsStepInv, PTL DEF RunsSpec

\* The rows of discovery_runs and the processes keep their types.
THEOREM DiscoveryTypes == RunsSpec => []RunsTypeOK
BY RunsInvariance, PTL DEF RunsInv

\* The lock: start_discovery_run() and finish_discovery_run() never leave two running
\* rows of a channel, for any number of processes.
THEOREM DiscoveryLock == RunsSpec => []OneRunPerChannel
<1>1. RunsInv => OneRunPerChannel
  <2> SUFFICES ASSUME RunsInv, NEW ch \in Channels PROVE Cardinality(Running(ch)) <= 1
    BY DEF OneRunPerChannel
  <2>1. CASE Running(ch) = {}
    BY <2>1, FS_EmptySet
  <2>2. CASE Running(ch) # {}
    <3>1. PICK r : Running(ch) = {r}
      BY <2>2 DEF Running, RunsInv, AtMostOne
    <3>2. Cardinality({r}) = 1
      BY FS_Singleton
    <3> QED BY <3>1, <3>2
  <2> QED BY <2>1, <2>2
<1> QED BY <1>1, RunsInvariance, PTL

\* Two processes ask one channel at the same time only after the run of one of them has
\* become older than LOCK_STALE.
THEOREM DiscoveryOverlap == RunsSpec => []OverlapNeedsStale
<1>1. RunsInv => OverlapNeedsStale
  <2> SUFFICES ASSUME RunsInv, NEW ch \in Channels, NEW v \in Working(ch), NEW w \in Working(ch),
                      v # w
               PROVE  row[post[v].run].age > LockStale \/ row[post[w].run].age > LockStale
    BY DEF OverlapNeedsStale
  <2>1. /\ v \in Workers /\ IsWorking(v) /\ post[v].channel = ch
        /\ w \in Workers /\ IsWorking(w) /\ post[w].channel = ch
    BY DEF Working, IsWorking
  <2>2. post[v].run \in Runs /\ post[w].run \in Runs /\ post[v].run # post[w].run
    BY <2>1, WorkingRun DEF RunsInv, OwnRows
  <2> QED BY <2>1, <2>2 DEF RunsInv, RowsFit, AtMostOne
<1> QED BY <1>1, RunsInvariance, PTL

\* What a reclaim has written about a run is not changed by the process that still works
\* on it, nor by any other.
THEOREM DiscoveryReclaim == RunsSpec => ReclaimedStays
<1>1. ASSUME RunsInv, [RunsNext]_runVars, NEW w \in Workers, post[w].pc = "working",
             row[post[w].run].status # "running"
      PROVE  row'[post[w].run].status = row[post[w].run].status
  <2>1. post[w].run \in Runs /\ Held(post[w].run)
    BY <1>1, WorkingRun DEF RunsInv, IsWorking
  <2>2. CASE UNCHANGED row
    BY <2>2
  <2>3. CASE Tick
    BY <2>1, <2>3, TickInv DEF Tick, RunsInv, RunsTypeOK, RunRows
  <2>4. ASSUME NEW v \in Workers, Start(v) PROVE row'[post[w].run].status = row[post[w].run].status
    BY <1>1, <2>1, <2>4 DEF Start, Free, Stale
  <2>5. ASSUME NEW v \in Workers, Finish(v) PROVE row'[post[w].run].status = row[post[w].run].status
    BY <1>1, <2>1, <2>5 DEF Finish, MayFinish, RunsInv, RunsTypeOK
  <2> QED BY <1>1, <2>2, <2>3, <2>4, <2>5
          DEF RunsNext, Step, runVars, StartRefused, FinishRefused, Die, Begin
<1>2. RunsInv /\ [RunsNext]_runVars =>
        [\A w \in Workers :
           post[w].pc = "working" /\ row[post[w].run].status # "running" =>
             row'[post[w].run].status = row[post[w].run].status]_runVars
  BY <1>1
<1> QED BY <1>2, RunsInvariance, PTL DEF RunsSpec, ReclaimedStays
=============================================================================
