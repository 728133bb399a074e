---------------------------- MODULE StoreBackup ----------------------------
(***************************************************************************)
(* Durable backups of both databases and of the Source assets, and their   *)
(* restoration.  The worker and the command line run such jobs beside each *)
(* other while the live data go on changing, and while somebody may        *)
(* replace or delete remote assets.                                        *)
(*                                                                         *)
(* Content is abstract: a live item has a version number, an encrypted     *)
(* archive is the pair of the backup and the set it was made of, and equal *)
(* hashes mean equal content.  Ids of backups carry 48 random bits and are *)
(* taken as unique.  verify-remote makes the checks of a restoration and   *)
(* changes nothing; it has no action of its own.                           *)
(***************************************************************************)
EXTENDS Naturals, Sequences, FiniteSets

CONSTANTS
  Actors,       \* processes that run one job at a time
  Backups,      \* ids of durable backups
  PathList,     \* places of Source assets in the order of their names
  FirstPaths,   \* those that hold an asset at the start
  Earlier,      \* backups already made at the start, of what was there
  None,
  Damaged,      \* what a broken download or a replaced asset holds
  MaxEdits,     \* bound: items that change, once each; an asset may also go, for good
  MaxTampers    \* bound: remote assets replaced or deleted by others, once each

ASSUME BackupConstants ==
  /\ FirstPaths # {} /\ Earlier \subseteq Backups
  /\ \A p \in FirstPaths : \E k \in 1 .. Len(PathList) : PathList[k] = p
  /\ MaxEdits \in Nat /\ MaxTampers \in Nat

VARIABLES
  live,       \* version of each item of the repository; 0 if there is none
  removed,    \* assets that are gone
  at,         \* what a process is doing
  work,       \* work directory of a backup; of a finished one, what it held
  remote,     \* assets of the release
  receipts,   \* per-backup receipts: the ids of the encrypted assets
  latest,     \* latest-success.json
  restored,   \* one destination of restorations: the backup it is of, what it holds
  reported,   \* history: the backups reported as restored to it
  crowded,    \* history: a restoration was moved into the directory of another
  tampered    \* history: remote names touched by others

itemVars == <<live, removed>>
backupVars == <<work, remote, receipts, latest>>
restVars == <<restored, reported, crowded, tampered>>
vars == <<itemVars, at, backupVars, restVars>>

Stores == {"candidates", "schema", "operations"}
Paths == {PathList[k] : k \in 1 .. Len(PathList)}
Before(p) == {PathList[j] : j \in 1 .. (CHOOSE k \in 1 .. Len(PathList) : PathList[k] = p) - 1}
Items == Stores \cup Paths
SetOf(i) == IF i \in Stores THEN "candidate" ELSE "source_assets"

\* The remote names of a backup in the order of their uploads.
Uploads == <<[set |-> "candidate", kind |-> "cipher"], [set |-> "candidate", kind |-> "outer"],
             [set |-> "source_assets", kind |-> "cipher"], [set |-> "source_assets", kind |-> "outer"]>>
Sets == <<"candidate", "source_assets">>
SetNames == {"candidate", "source_assets"}
Names == [of: Backups, set: SetNames, kind: {"cipher", "outer"}]

Ciphers == [of: Backups, set: SetNames]
Ids == {1, 2}
Outers == [cipher: Ciphers, id: Ids]
Assets == [id: Ids, data: Ciphers \cup Outers \cup {Damaged}]
Versions == {0, 1, 2}

ASSUME StoresAreNoPlaces == Stores \cap Paths = {}
ASSUME NoneIsNothing ==
  /\ None \notin Backups /\ None \notin Versions /\ None \notin Assets
  /\ None \notin [SetNames -> Ids] /\ None \notin [Items -> Versions]

FirstVersion(i) == IF i \in Paths \ FirstPaths THEN 0 ELSE 1

\* `lost' is history: the assets removed after the start and before they were read.
Unused == [since |-> None, inventory |-> [p \in Paths |-> None],
           archive |-> [i \in Items |-> None], lost |-> {}]
Idle == [job |-> "none", pc |-> "idle", of |-> None, n |-> 1, schema |-> 0,
         ids |-> <<>>, staged |-> <<>>]

\* A finished backup of the repository at the start.
FirstWork == [since |-> [i \in Items |-> FirstVersion(i)],
              inventory |-> [p \in Paths |-> FirstVersion(p)],
              archive |-> [i \in Items |-> IF FirstVersion(i) = 0 THEN None ELSE FirstVersion(i)],
              lost |-> {}]
FirstAsset(m) ==
  LET cipher == [of |-> m.of, set |-> m.set]
  IN  [id |-> 1, data |-> IF m.kind = "cipher" THEN cipher ELSE [cipher |-> cipher, id |-> 1]]

Init ==
  /\ live = [i \in Items |-> FirstVersion(i)] /\ removed = {}
  /\ at = [a \in Actors |-> Idle]
  /\ work = [b \in Backups |-> IF b \in Earlier THEN FirstWork ELSE Unused]
  /\ remote = [m \in Names |-> IF m.of \in Earlier THEN FirstAsset(m) ELSE None]
  /\ receipts = [b \in Backups |-> IF b \in Earlier THEN [s \in SetNames |-> 1] ELSE None]
  /\ latest \in IF Earlier = {} THEN {None} ELSE Earlier
  /\ restored = [of |-> None, content |-> [i \in Items |-> None]]
  /\ reported = {} /\ crowded = FALSE /\ tampered = {}

Doing(a, job, pc) == at[a].job = job /\ at[a].pc = pc
GoTo(a, pc) == at' = [at EXCEPT ![a].pc = pc]

(***************************************************************************)
(* Durable backups: inventory, archives, check of the archives.            *)
(***************************************************************************)
Inventory(b) == {p \in Paths : work[b].inventory[p] \notin {None, 0}}

StartBackup(a, b) ==
  /\ at[a] = Idle
  /\ work[b] = Unused
  /\ at' = [at EXCEPT ![a] = [Idle EXCEPT !.job = "backup", !.pc = "hash", !.of = b]]
  /\ work' = [work EXCEPT ![b].since = live]
  /\ UNCHANGED <<itemVars, remote, receipts, latest, restVars>>

HashAsset(a, p) ==
  LET b == at[a].of IN
  /\ Doing(a, "backup", "hash")
  /\ work[b].inventory[p] = None /\ \A q \in Before(p) : work[b].inventory[q] # None
  /\ work' = [work EXCEPT ![b].inventory[p] = live[p]]
  /\ UNCHANGED <<itemVars, at, remote, receipts, latest, restVars>>

\* Mutant of Preflight: created_at is the time after the inventory.
PreflightThenClock(a) ==
  /\ Doing(a, "backup", "hash")
  /\ \A p \in Paths : work[at[a].of].inventory[p] # None
  /\ GoTo(a, "version")
  /\ work' = [work EXCEPT ![at[a].of].since = live]
  /\ UNCHANGED <<itemVars, remote, receipts, latest, restVars>>

\* The inventory is not empty, the database is healthy, no name is taken.
Preflight(a) ==
  LET b == at[a].of IN
  /\ Doing(a, "backup", "hash")
  /\ \A p \in Paths : work[b].inventory[p] # None
  /\ Inventory(b) # {}
  /\ receipts[b] = None
  /\ \A m \in Names : m.of = b => remote[m] = None
  /\ GoTo(a, "version")
  /\ UNCHANGED <<itemVars, backupVars, restVars>>

\* The snapshot notes the schema version first and copies the pages later.
ReadVersion(a) ==
  /\ Doing(a, "backup", "version")
  /\ at' = [at EXCEPT ![a].pc = "copy", ![a].schema = live["schema"]]
  /\ UNCHANGED <<itemVars, backupVars, restVars>>

\* The copy is verified at once: a version that has changed since is a failure.
CopyCandidates(a) ==
  /\ Doing(a, "backup", "copy")
  /\ live["schema"] = at[a].schema
  /\ GoTo(a, "operations")
  /\ work' = [work EXCEPT ![at[a].of].archive =
                [@ EXCEPT !["candidates"] = live["candidates"], !["schema"] = live["schema"]]]
  /\ UNCHANGED <<itemVars, remote, receipts, latest, restVars>>

CopyOperations(a) ==
  /\ Doing(a, "backup", "operations")
  /\ GoTo(a, "pack")
  /\ work' = [work EXCEPT ![at[a].of].archive["operations"] = live["operations"]]
  /\ UNCHANGED <<itemVars, remote, receipts, latest, restVars>>

\* An asset that is no longer there is a failure.
PackAsset(a, p) ==
  LET b == at[a].of IN
  /\ Doing(a, "backup", "pack")
  /\ live[p] # 0
  /\ p \in Inventory(b) /\ work[b].archive[p] = None
  /\ \A q \in Before(p) \cap Inventory(b) : work[b].archive[q] # None
  /\ work' = [work EXCEPT ![b].archive[p] = live[p]]
  /\ UNCHANGED <<itemVars, at, remote, receipts, latest, restVars>>

\* The archive holds the inventory's files with the inventory's hashes.
AsInventoried(b) == \A p \in Inventory(b) : work[b].archive[p] = work[b].inventory[p]

CheckArchives(a) ==
  /\ Doing(a, "backup", "pack")
  /\ AsInventoried(at[a].of)
  /\ GoTo(a, "put")
  /\ UNCHANGED <<itemVars, backupVars, restVars>>

(***************************************************************************)
(* Durable backups: upload, receipt.  An upload is the call that creates   *)
(* the asset and a first look at it; a second look must see the same.      *)
(***************************************************************************)
NameAt(a) == [of |-> at[a].of, set |-> Uploads[at[a].n].set, kind |-> Uploads[at[a].n].kind]

\* The encrypted archive, or the manifest that names the asset just inspected.
Payload(a) ==
  LET m == NameAt(a)
      cipher == [of |-> m.of, set |-> m.set]
  IN  IF m.kind = "cipher" THEN cipher ELSE [cipher |-> cipher, id |-> at[a].ids[at[a].n - 1]]

Put(a) ==
  /\ Doing(a, "backup", "put") /\ at[a].n <= Len(Uploads)
  /\ remote[NameAt(a)] = None
  /\ remote' = [remote EXCEPT ![NameAt(a)] = [id |-> 1, data |-> Payload(a)]]
  /\ GoTo(a, "look")
  /\ UNCHANGED <<itemVars, work, receipts, latest, restVars>>

Look(a) ==
  /\ Doing(a, "backup", "look")
  /\ remote[NameAt(a)] # None
  /\ at' = [at EXCEPT ![a].pc = "inspect", ![a].ids = Append(@, remote[NameAt(a)].id)]
  /\ UNCHANGED <<itemVars, backupVars, restVars>>

Inspect(a) ==
  /\ Doing(a, "backup", "inspect")
  /\ remote[NameAt(a)] # None
  /\ remote[NameAt(a)].id = at[a].ids[at[a].n]
  /\ at' = [at EXCEPT ![a].pc = "put", ![a].n = @ + 1]
  /\ UNCHANGED <<itemVars, backupVars, restVars>>

\* Mutant of UploadsDone: the receipt is written before the last upload.
UploadsDoneEarly(a) == at[a].n >= Len(Uploads)

UploadsDone(a) == at[a].n > Len(Uploads)

WriteReceipt(a) ==
  /\ Doing(a, "backup", "put") /\ UploadsDone(a)
  /\ receipts[at[a].of] = None
  /\ receipts' = [receipts EXCEPT ![at[a].of] =
                    [s \in SetNames |-> at[a].ids[IF s = "candidate" THEN 1 ELSE 3]]]
  /\ GoTo(a, "latest")
  /\ UNCHANGED <<itemVars, work, remote, latest, restVars>>

WriteLatest(a) ==
  /\ Doing(a, "backup", "latest")
  /\ latest' = at[a].of
  /\ at' = [at EXCEPT ![a] = Idle]
  /\ UNCHANGED <<itemVars, work, remote, receipts, restVars>>

(***************************************************************************)
(* Restoration from a receipt into an empty directory.                     *)
(***************************************************************************)
StartRestore(a, b) ==
  /\ at[a] = Idle
  /\ receipts[b] # None /\ restored.of = None
  /\ at' = [at EXCEPT ![a] = [Idle EXCEPT !.job = "restore", !.pc = "outer", !.of = b]]
  /\ UNCHANGED <<itemVars, backupVars, restVars>>

Wanted(a) == [of |-> at[a].of, set |-> Sets[at[a].n]]
RemoteOf(a, kind) == remote[[of |-> at[a].of, set |-> Sets[at[a].n], kind |-> kind]]
ReceiptId(a) == receipts[at[a].of][Sets[at[a].n]]

\* What a download delivers.
Download(a, kind) == {RemoteOf(a, kind).data, Damaged}

LoadOuter(a) ==
  /\ Doing(a, "restore", "outer") /\ at[a].n <= Len(Sets)
  /\ RemoteOf(a, "outer") # None
  /\ [cipher |-> Wanted(a), id |-> ReceiptId(a)] \in Download(a, "outer")
  /\ GoTo(a, "cipher")
  /\ UNCHANGED <<itemVars, backupVars, restVars>>

InspectCipher(a) ==
  /\ Doing(a, "restore", "cipher")
  /\ RemoteOf(a, "cipher") # None
  /\ RemoteOf(a, "cipher").id = ReceiptId(a)
  /\ GoTo(a, "download")
  /\ UNCHANGED <<itemVars, backupVars, restVars>>

\* Mutant of Genuine: what decrypts is restored, whatever it was made of.
GenuineIfDecrypts(a, data) == data \in Ciphers

\* The hash of the receipt, and the id and the set in the manifest of the archive.
Genuine(a, data) == data = Wanted(a)

\* The encrypted archive is fetched, decrypted, checked and unpacked.
Extract(a) ==
  /\ Doing(a, "restore", "download")
  /\ RemoteOf(a, "cipher") # None
  /\ \E data \in Download(a, "cipher") :
       /\ Genuine(a, data)
       /\ data \in Ciphers
       /\ data.set = "source_assets" => AsInventoried(data.of)
       /\ at' = [at EXCEPT ![a].staged = Append(@, data), ![a].n = @ + 1, ![a].pc = "outer"]
  /\ UNCHANGED <<itemVars, backupVars, restVars>>

\* What the directory of the unpacked archives holds.
Unpacked(staged) ==
  [i \in Items |-> LET from == {k \in 1 .. Len(staged) : staged[k].set = SetOf(i)}
                   IN  IF from = {} THEN None ELSE work[staged[CHOOSE k \in from : TRUE].of].archive[i]]

\* A directory that exists must still be empty; it is removed.
ClearDestination(a) ==
  /\ Doing(a, "restore", "outer") /\ at[a].n > Len(Sets)
  /\ restored.of = None
  /\ GoTo(a, "move")
  /\ UNCHANGED <<itemVars, backupVars, restVars>>

Report(a) == reported' = reported \cup {at[a].of} /\ at' = [at EXCEPT ![a] = Idle]

\* shutil.move() within a file system,
Rename(a) ==
  /\ Doing(a, "restore", "move")
  /\ restored.of = None
  /\ restored' = [of |-> at[a].of, content |-> Unpacked(at[a].staged)]
  /\ Report(a)
  /\ UNCHANGED <<itemVars, backupVars, crowded, tampered>>

\* and between two, where it is a copy.
BeginCopy(a) ==
  /\ Doing(a, "restore", "move")
  /\ restored.of = None
  /\ restored' = [of |-> at[a].of, content |-> [i \in Items |-> None]]
  /\ GoTo(a, "copying")
  /\ UNCHANGED <<itemVars, backupVars, reported, crowded, tampered>>

EndCopy(a) ==
  /\ Doing(a, "restore", "copying")
  /\ restored' = [of |-> at[a].of, content |-> Unpacked(at[a].staged)]
  /\ Report(a)
  /\ UNCHANGED <<itemVars, backupVars, crowded, tampered>>

\* Another restoration has come between: what exists is moved into.
MoveInside(a) ==
  /\ Doing(a, "restore", "move")
  /\ restored.of # None
  /\ crowded' = TRUE
  /\ Report(a)
  /\ UNCHANGED <<itemVars, backupVars, restored, tampered>>

(***************************************************************************)
(* The rest of the world.                                                  *)
(***************************************************************************)
\* A check refuses, a call or tool fails, or the process ends: temporary files go away.
\* What a backup has uploaded stays and blocks its id.
Fail(a) ==
  /\ at[a] # Idle
  /\ at' = [at EXCEPT ![a] = Idle]
  /\ work' = IF at[a].job = "backup" /\ receipts[at[a].of] = None
             THEN [work EXCEPT ![at[a].of] = Unused] ELSE work
  /\ UNCHANGED <<itemVars, remote, receipts, latest, restVars>>

Changed == {i \in Items : live[i] # FirstVersion(i)} \cup removed

\* Other jobs and people change an item, or create an asset.
Edit(i) ==
  /\ live[i] = FirstVersion(i) /\ i \notin removed
  /\ Cardinality(Changed) < MaxEdits
  /\ live' = [live EXCEPT ![i] = @ + 1]
  /\ UNCHANGED <<removed, at, backupVars, restVars>>

\* A FileTransaction that is rolled back, or a promotion that is compensated, unlinks an
\* asset it had created.
Remove(p) ==
  /\ live[p] # 0
  /\ Cardinality(Changed \cup {p}) <= MaxEdits
  /\ live' = [live EXCEPT ![p] = 0]
  /\ removed' = removed \cup {p}
  /\ work' = [b \in Backups |->
                IF work[b].since # None /\ work[b].inventory[p] = None
                THEN [work[b] EXCEPT !.lost = @ \cup {p}] ELSE work[b]]
  /\ UNCHANGED <<at, remote, receipts, latest, restVars>>

\* A remote asset is deleted, or replaced by one with another id.  What holds an asset of
\* the other kind fails as a damaged one does.
Tamper(m) ==
  /\ remote[m] # None /\ m \notin tampered
  /\ Cardinality(tampered) < MaxTampers
  /\ tampered' = tampered \cup {m}
  /\ \/ remote' = [remote EXCEPT ![m] = None]
     \/ \E data \in {Damaged} \cup {remote[k].data : k \in {j \in Names : remote[j] # None /\ j.kind = m.kind}} :
          remote' = [remote EXCEPT ![m] = [id |-> @.id + 1, data |-> data]]
  /\ UNCHANGED <<itemVars, at, work, receipts, latest, restored, reported, crowded>>

Archive(a) ==
  \/ \E b \in Backups : StartBackup(a, b)
  \/ \E p \in Paths : HashAsset(a, p) \/ PackAsset(a, p)
  \/ Preflight(a) \/ ReadVersion(a) \/ CopyCandidates(a) \/ CopyOperations(a) \/ CheckArchives(a)

Upload(a) == Put(a) \/ Look(a) \/ Inspect(a) \/ WriteReceipt(a) \/ WriteLatest(a)

Restore(a) ==
  \/ \E b \in Backups : StartRestore(a, b)
  \/ LoadOuter(a) \/ InspectCipher(a) \/ Extract(a)
  \/ ClearDestination(a) \/ Rename(a) \/ BeginCopy(a) \/ EndCopy(a) \/ MoveInside(a)

Next ==
  \/ \E a \in Actors : Archive(a) \/ Upload(a) \/ Restore(a) \/ Fail(a)
  \/ \E i \in Items : Edit(i)
  \/ \E p \in Paths : Remove(p)
  \/ \E m \in Names : Tamper(m)

Spec == Init /\ [][Next]_vars

(***************************************************************************)
(* Properties.                                                             *)
(***************************************************************************)
\* Type invariant.
TypeOK ==
  /\ live \in [Items -> Versions] /\ removed \subseteq Paths
  /\ \A a \in Actors : /\ at[a].job \in {"none", "backup", "restore"}
                       /\ at[a].of \in Backups \cup {None}
                       /\ at[a].n \in 1 .. 5 /\ Len(at[a].ids) <= 4
                       /\ Len(at[a].staged) <= 2
  /\ \A b \in Backups : /\ work[b].inventory \in [Paths -> Versions \cup {None}]
                        /\ work[b].archive \in [Items -> Versions \cup {None}]
                        /\ receipts[b] \in [SetNames -> Ids] \cup {None}
  /\ \A m \in Names : remote[m] \in Assets \cup {None}
  /\ tampered \subseteq Names /\ reported \subseteq Backups

\* Every backup with a receipt can be restored as long as nobody touches its remote
\* assets: all four are there, agree with the receipt, and pass the checks of a
\* restoration, whatever failed and whatever changed while it was made.
Touched(b) == \E m \in tampered : m.of = b
Restorable(b) ==
  \A s \in SetNames :
    /\ remote[[of |-> b, set |-> s, kind |-> "cipher"]] =
         [id |-> receipts[b][s], data |-> [of |-> b, set |-> s]]
    /\ remote[[of |-> b, set |-> s, kind |-> "outer"]] # None
    /\ remote[[of |-> b, set |-> s, kind |-> "outer"]].data =
         [cipher |-> [of |-> b, set |-> s], id |-> receipts[b][s]]
    /\ AsInventoried(b)
ReceiptsRestorable == \A b \in Backups : receipts[b] # None /\ ~Touched(b) => Restorable(b)

\* A backup holds nothing older than the moment written in its receipt, and no item of
\* that moment is missing but an asset that somebody removed before the inventory read it:
\* its age, which the health page shows, is not flattered.
NothingOlder ==
  \A b \in Backups : receipts[b] # None =>
    \A i \in Items : work[b].since[i] > 0 =>
      \/ work[b].archive[i] # None /\ work[b].archive[i] >= work[b].since[i]
      \/ work[b].archive[i] = None /\ i \in work[b].lost

\* latest-success.json names a backup whose own receipt exists, so that verification and
\* restoration, which load that receipt, can use it.
LatestHasReceipt == latest # None => receipts[latest] # None

\* When a restoration is reported, its directory is the whole content of the backup that
\* was asked for, whatever the remote assets had become; not so if two restorations to one
\* directory overlapped between the check of it and the move.
RestoreExact ==
  reported # {} /\ ~crowded =>
    /\ reported = {restored.of} /\ receipts[restored.of] # None
    /\ \A i \in Items : restored.content[i] = work[restored.of].archive[i]
=============================================================================
