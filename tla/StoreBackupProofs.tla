-------------------------- MODULE StoreBackupProofs --------------------------
(***************************************************************************)
(* Proofs about StoreBackup, for any number of processes, backups and      *)
(* assets, any changes and any interference with the remote assets.        *)
(*                                                                         *)
(* The invariant follows a backup through its phases: who makes it is the  *)
(* only one who does, its work directory is consistent from CheckArchives  *)
(* on, and unless somebody interferes every upload up to the counter is    *)
(* there with the id that was noted.  A receipt freezes all of that.       *)
(***************************************************************************)
EXTENDS StoreBackup, TLAPS

Early == {"hash", "version", "copy", "operations", "pack"}
Sending == {"put", "look", "inspect"}
Receiving == {"outer", "cipher", "download", "move", "copying"}

Job == [job: {"none", "backup", "restore"},
        pc: {"idle", "latest"} \cup Early \cup Sending \cup Receiving,
        of: Backups \cup {None}, n: 1 .. 5, schema: Versions, ids: Seq(Ids), staged: Seq(Ciphers)]
Work == [since: [Items -> Versions] \cup {None},
         inventory: [Paths -> Versions \cup {None}], archive: [Items -> Versions \cup {None}],
         lost: SUBSET Paths]

Types ==
  /\ live \in [Items -> Versions]
  /\ removed \subseteq Paths /\ \A p \in removed : live[p] = 0
  /\ at \in [Actors -> Job]
  /\ work \in [Backups -> Work]
  /\ remote \in [Names -> Assets \cup {None}]
  /\ receipts \in [Backups -> [SetNames -> Ids] \cup {None}]
  /\ tampered \subseteq Names /\ reported \subseteq Backups

\* Every item of the start of the backup is in the archives, or was lost.
Complete(b) == \A i \in Items : work[b].since[i] > 0 =>
  \/ work[b].archive[i] # None /\ work[b].archive[i] >= work[b].since[i]
  \/ work[b].archive[i] = None /\ i \in work[b].lost

Hashed(b) == \A p \in Paths : work[b].inventory[p] # None

\* Nothing in the work directory is older than its start, and what the inventory did not
\* find although it was there at the start was lost.
AgeFits(b) == work[b].since # None =>
  /\ \A i \in Items \ removed : work[b].since[i] <= live[i]
  /\ \A p \in removed : work[b].inventory[p] = None /\ work[b].since[p] > 0 => p \in work[b].lost
  /\ \A p \in Paths : work[b].inventory[p] # None =>
       \/ work[b].inventory[p] >= work[b].since[p]
       \/ work[b].inventory[p] = 0 /\ p \in work[b].lost
  /\ \A p \in Paths : work[b].inventory[p] \in {None, 0} => work[b].archive[p] = None
  /\ \A i \in Stores : work[b].archive[i] # None => work[b].archive[i] >= work[b].since[i]

Upto(b, k) == \A j \in 1 .. k :
  remote[[of |-> b, set |-> Uploads[j].set, kind |-> Uploads[j].kind]] # None

\* How far the backup of a process is in its work directory.
Packed(a) ==
  /\ at[a].pc \in {"version", "copy", "operations", "pack"} => Hashed(at[a].of)
  /\ at[a].pc \in {"operations", "pack"} =>
       work[at[a].of].archive["candidates"] # None /\ work[at[a].of].archive["schema"] # None
  /\ at[a].pc = "pack" => work[at[a].of].archive["operations"] # None
  /\ at[a].pc \in Sending \cup {"latest"} => AsInventoried(at[a].of) /\ Complete(at[a].of)

\* How far it is with its uploads.
Sent(a) ==
  /\ at[a].pc \in Early => at[a].n = 1 /\ at[a].ids = <<>>
  /\ at[a].pc = "put" => Len(at[a].ids) = at[a].n - 1
  /\ at[a].pc = "look" => at[a].n <= 4 /\ Len(at[a].ids) = at[a].n - 1
  /\ at[a].pc = "inspect" => at[a].n <= 4 /\ Len(at[a].ids) = at[a].n
  /\ at[a].pc = "latest" => Len(at[a].ids) = 4
  /\ ~Touched(at[a].of) => /\ \A k \in 1 .. Len(at[a].ids) : at[a].ids[k] = 1
                           /\ Upto(at[a].of, Len(at[a].ids))

BackupFits(a) == at[a].job = "backup" =>
  /\ at[a].pc \in Early \cup Sending \cup {"latest"}
  /\ at[a].of \in Backups /\ work[at[a].of].since # None
  /\ at[a].pc = "latest" <=> receipts[at[a].of] # None
  /\ Packed(a) /\ Sent(a) /\ at[a].staged = <<>>

\* The destination of a restoration that is being copied there.
Holding(a) == restored.of # None /\ restored.of = at[a].of /\ (~crowded => reported = {})

RestoreFits(a) == at[a].job = "restore" =>
  /\ at[a].pc \in Receiving /\ at[a].ids = <<>>
  /\ at[a].of \in Backups /\ receipts[at[a].of] # None
  /\ Len(at[a].staged) = at[a].n - 1 /\ at[a].n <= 3
  /\ at[a].pc \in {"cipher", "download"} => at[a].n <= 2
  /\ at[a].pc \in {"move", "copying"} => at[a].n = 3
  /\ at[a].pc = "copying" => Holding(a)
  /\ \A k \in 1 .. Len(at[a].staged) : at[a].staged[k] = [of |-> at[a].of, set |-> Sets[k]]

IdleFits(a) == at[a].job = "none" => at[a].pc = "idle" /\ at[a].ids = <<>> /\ at[a].staged = <<>>

Fits(a) == BackupFits(a) /\ RestoreFits(a) /\ IdleFits(a)

\* One process makes a backup, and one copies to the destination.
Sole == \A a, c \in Actors :
  /\ at[a].job = "backup" /\ at[c].job = "backup" /\ at[a].of = at[c].of => a = c
  /\ at[a].pc = "copying" /\ at[c].pc = "copying" => a = c

\* What a receipt stands for.
ReceiptFits(b) == receipts[b] # None =>
  /\ work[b].since # None /\ AsInventoried(b) /\ Complete(b)
  /\ ~Touched(b) => /\ \A s \in SetNames : receipts[b][s] = 1
                    /\ Upto(b, 4)

\* Remote assets nobody interfered with are the ones a backup uploads.
RemoteFits == \A m \in Names :
  /\ ~Touched(m.of) => remote[m] \in {None, FirstAsset(m)}
  /\ m \notin tampered /\ remote[m] # None => remote[m].id = 1

\* What was restored is of a backup with a receipt, and complete when it is reported.
Delivered ==
  /\ restored.of = None => reported = {}
  /\ restored.of # None => restored.of \in Backups /\ receipts[restored.of] # None
  /\ RestoreExact

IInv ==
  /\ Types /\ Sole /\ RemoteFits
  /\ \A a \in Actors : Fits(a)
  /\ \A b \in Backups : AgeFits(b) /\ ReceiptFits(b)
  /\ LatestHasReceipt /\ Delivered
  /\ latest # None => latest \in Backups

(***************************************************************************)
(* Static facts.                                                           *)
(***************************************************************************)
LEMMA Static ==
  /\ \A i \in Items : FirstVersion(i) \in {0, 1}
  /\ Uploads[1] = [set |-> "candidate", kind |-> "cipher"]
  /\ Uploads[2] = [set |-> "candidate", kind |-> "outer"]
  /\ Uploads[3] = [set |-> "source_assets", kind |-> "cipher"]
  /\ Uploads[4] = [set |-> "source_assets", kind |-> "outer"]
  /\ Len(Uploads) = 4 /\ Len(Sets) = 2
  /\ Sets[1] = "candidate" /\ Sets[2] = "source_assets"
  /\ Stores \subseteq Items /\ Paths \subseteq Items
BY DEF FirstVersion, Uploads, Sets, Stores, Items

\* What the names of a backup's uploads and its sets are.
LEMMA NamesOf ==
  ASSUME NEW m \in Names
  PROVE  \E j \in 1 .. 4 : m = [of |-> m.of, set |-> Uploads[j].set, kind |-> Uploads[j].kind]
<1>1. m = [of |-> m.of, set |-> m.set, kind |-> m.kind]
      /\ m.set \in {"candidate", "source_assets"} /\ m.kind \in {"cipher", "outer"}
  BY DEF Names, SetNames
<1> QED BY <1>1, Static

(***************************************************************************)
(* A step of one process, which may change some backups that no other      *)
(* process makes and that have no receipt yet.                             *)
(***************************************************************************)
Frame(a, D) ==
  /\ \A c \in Actors \ {a} :
       at'[c] = at[c] /\ (at[c].job = "backup" => at[c].of \notin D)
  /\ \A d \in Backups \ D : work'[d] = work[d] /\ receipts'[d] = receipts[d]
  /\ \A d \in D : receipts[d] = None
  /\ \A m \in Names : remote[m] # None => remote'[m] # None
  /\ tampered' = tampered /\ live' = live /\ removed' = removed
  /\ \A c \in Actors \ {a} : at[c].pc = "copying" =>
       restored' = restored /\ (crowded' \/ UNCHANGED <<reported, crowded>>)

LEMMA UptoStays ==
  ASSUME Types, NEW b \in Backups, NEW k \in 0 .. 4, Upto(b, k),
         \A m \in Names : remote[m] # None => remote'[m] # None
  PROVE  Upto(b, k)'
<1> SUFFICES ASSUME NEW j \in 1 .. k
             PROVE  remote'[[of |-> b, set |-> Uploads[j].set, kind |-> Uploads[j].kind]] # None
  BY DEF Upto
<1>1. [of |-> b, set |-> Uploads[j].set, kind |-> Uploads[j].kind] \in Names
  BY Static DEF Names, SetNames
<1> QED BY <1>1 DEF Upto

\* No more ids are noted than there are uploads.
LEMMA IdsLength ==
  ASSUME Types, NEW a \in Actors, Sent(a),
         at[a].pc \in Early \cup Sending \cup {"latest"}
  PROVE  Len(at[a].ids) \in 0 .. 4
<1>1. at[a].ids \in Seq(Ids) /\ at[a].n \in 1 .. 5
  BY DEF Types, Job
<1>2. CASE at[a].pc \in Early
  BY <1>2 DEF Sent
<1>3. CASE at[a].pc \in {"put", "look"}
  <2>1. Len(at[a].ids) = at[a].n - 1
    BY <1>3 DEF Sent
  <2> QED BY <1>1, <2>1
<1>4. CASE at[a].pc = "inspect"
  <2>1. Len(at[a].ids) = at[a].n /\ at[a].n <= 4
    BY <1>4 DEF Sent
  <2> QED BY <1>1, <2>1
<1>5. CASE at[a].pc = "latest"
  BY <1>5 DEF Sent
<1> QED BY <1>2, <1>3, <1>4, <1>5 DEF Sending

LEMMA OtherFits ==
  ASSUME IInv, NEW a \in Actors, NEW D \in SUBSET Backups, Frame(a, D), NEW c \in Actors \ {a}
  PROVE  Fits(c)'
<1>1. at'[c] = at[c] /\ Fits(c)
  BY DEF Frame, IInv
<1>2. BackupFits(c)'
  <2> SUFFICES ASSUME at[c].job = "backup"
               PROVE  BackupFits(c)'
    BY <1>1 DEF BackupFits
  <2> DEFINE b == at[c].of
  <2>1. b \in Backups \ D /\ work'[b] = work[b] /\ receipts'[b] = receipts[b]
    BY <1>1 DEF Frame, Fits, BackupFits
  <2>2. Packed(c)'
    BY <1>1, <2>1 DEF Fits, BackupFits, Packed, Hashed, AsInventoried, Inventory, Complete
  <2>3. Sent(c)'
    <3>1. Sent(c) /\ (Touched(b)' <=> Touched(b))
      BY <1>1, <2>1 DEF Fits, BackupFits, Touched, Frame
    <3>2. Len(at[c].ids) \in 0 .. 4
      BY <1>1, <3>1, IdsLength DEF Fits, BackupFits, IInv
    <3>3. ~Touched(b) => Upto(b, Len(at[c].ids))'
      BY <2>1, <3>1, <3>2, UptoStays DEF Sent, IInv, Frame
    <3> QED BY <1>1, <3>1, <3>3 DEF Sent, Upto
  <2> QED BY <1>1, <2>1, <2>2, <2>3 DEF Fits, BackupFits
<1>3. RestoreFits(c)'
  <2>1. Holding(c) /\ at[c].pc = "copying" => Holding(c)'
    BY <1>1 DEF Frame, Holding
  <2>2. RestoreFits(c)
    BY <1>1 DEF Fits
  <2> QED BY <1>1, <2>1, <2>2 DEF RestoreFits, Frame
<1> QED BY <1>1, <1>2, <1>3 DEF Fits, IdleFits

LEMMA StepInv ==
  ASSUME IInv, NEW a \in Actors, NEW D \in SUBSET Backups, Frame(a, D), Types',
         at'[a].job = "backup" => \A c \in Actors \ {a} :
                                    at[c].job = "backup" => at[c].of # at'[a].of,
         at'[a].pc = "copying" => \A c \in Actors \ {a} : at[c].pc # "copying",
         Fits(a)', RemoteFits', Delivered', LatestHasReceipt',
         \A b \in D : AgeFits(b)' /\ ReceiptFits(b)',
         latest' # None => latest' \in Backups
  PROVE  IInv'
<1>1. \A c \in Actors : Fits(c)'
  BY OtherFits
<1>2. Sole'
  BY DEF Sole, Frame, IInv
<1>3. \A b \in Backups \ D : AgeFits(b)' /\ ReceiptFits(b)'
  <2> TAKE b \in Backups \ D
  <2>1. work'[b] = work[b] /\ receipts'[b] = receipts[b] /\ (Touched(b)' <=> Touched(b))
        /\ live' = live /\ removed' = removed /\ (Upto(b, 4) => Upto(b, 4)')
    BY UptoStays DEF Frame, Touched, IInv
  <2>2. AgeFits(b) /\ ReceiptFits(b)
    BY DEF IInv
  <2> QED BY <2>1, <2>2 DEF AgeFits, ReceiptFits, AsInventoried, Inventory, Complete
<1> QED BY <1>1, <1>2, <1>3 DEF IInv

\* A step that only moves the process on.
LEMMA MoveInv ==
  ASSUME IInv, NEW a \in Actors, NEW j \in Job, at' = [at EXCEPT ![a] = j],
         j.job = "backup" => at[a].job = "backup" /\ j.of = at[a].of,
         j.pc # "copying", UNCHANGED <<live, removed, backupVars, restVars>>, Fits(a)'
  PROVE  IInv'
<1>1. at'[a] = j /\ \A c \in Actors \ {a} : at'[c] = at[c]
  BY DEF IInv, Types
<1>2. Frame(a, {})
  BY <1>1 DEF Frame, backupVars, restVars
<1>3. Types'
  BY DEF IInv, Types, backupVars, restVars
<1>4. j.job = "backup" => \A c \in Actors \ {a} : at[c].job = "backup" => at[c].of # j.of
  BY DEF IInv, Sole
<1>5. RemoteFits' /\ Delivered' /\ LatestHasReceipt' /\ (latest' # None => latest' \in Backups)
  BY DEF IInv, RemoteFits, Delivered, RestoreExact, LatestHasReceipt, backupVars, restVars, Touched,
         FirstAsset
<1> QED BY <1>1, <1>2, <1>3, <1>4, <1>5, StepInv

\* A step that neither restores nor replaces latest-success.json.
LEMMA KeepInv ==
  ASSUME IInv, NEW a \in Actors, NEW D \in SUBSET Backups, Frame(a, D), Types',
         at'[a].job = "backup" => \A c \in Actors \ {a} :
                                    at[c].job = "backup" => at[c].of # at'[a].of,
         at'[a].pc # "copying",
         Fits(a)', RemoteFits', \A b \in D : AgeFits(b)' /\ ReceiptFits(b)',
         restored' = restored, reported' = reported, crowded' = crowded, latest' = latest
  PROVE  IInv'
<1>1. LatestHasReceipt'
  BY DEF IInv, LatestHasReceipt, Frame
<1>2. Delivered'
  <2>1. CASE restored.of = None
    BY <2>1 DEF IInv, Delivered, RestoreExact
  <2>2. CASE restored.of # None
    <3>1. restored.of \in Backups \ D
      BY <2>2 DEF IInv, Delivered, Frame
    <3> QED BY <2>2, <3>1 DEF IInv, Delivered, RestoreExact, Frame
  <2> QED BY <2>1, <2>2
<1>3. latest' # None => latest' \in Backups
  BY DEF IInv
<1> QED BY <1>1, <1>2, <1>3, StepInv

\* The process that makes a backup, seen from a step of it.
LEMMA Owner ==
  ASSUME IInv, NEW a \in Actors, at[a].job = "backup", at[a].pc # "latest"
  PROVE  /\ at[a].of \in Backups /\ receipts[at[a].of] = None
         /\ work[at[a].of].since # None /\ Packed(a) /\ Sent(a) /\ at[a].staged = <<>>
         /\ AgeFits(at[a].of) /\ at[a] \in Job
         /\ \A c \in Actors \ {a} : at[c].job = "backup" => at[c].of # at[a].of
BY DEF IInv, Fits, BackupFits, Sole, Types

(***************************************************************************)
(* The initial state.                                                      *)
(***************************************************************************)
LEMMA FirstAssetType ==
  ASSUME NEW m \in Names PROVE FirstAsset(m) \in Assets /\ FirstAsset(m) # None /\ FirstAsset(m).id = 1
<1>1. [of |-> m.of, set |-> m.set] \in Ciphers
  BY DEF Names, Ciphers
<1>2. [cipher |-> [of |-> m.of, set |-> m.set], id |-> 1] \in Outers
  BY <1>1 DEF Outers, Ids
<1>3. FirstAsset(m) \in Assets
  BY <1>1, <1>2 DEF FirstAsset, Assets, Ids
<1> QED BY <1>3, NoneIsNothing DEF FirstAsset

LEMMA InitInv == Init => IInv
<1> SUFFICES ASSUME Init PROVE IInv
  OBVIOUS
<1>1. live \in [Items -> Versions]
  BY Static DEF Init, Versions
<1>2. at \in [Actors -> Job]
  <2>1. Idle \in Job
    BY DEF Idle, Job, Versions
  <2> QED BY <2>1 DEF Init
<1>3. FirstWork \in Work /\ Unused \in Work
  BY Static DEF FirstWork, Unused, Work, Versions
<1>4. work \in [Backups -> Work]
  BY <1>3 DEF Init
<1>5. remote \in [Names -> Assets \cup {None}]
  BY FirstAssetType DEF Init
<1>6. receipts \in [Backups -> [SetNames -> Ids] \cup {None}]
  BY DEF Init, Ids
<1>7. Types
  BY <1>1, <1>2, <1>4, <1>5, <1>6 DEF Types, Init
<1>8. Sole /\ Delivered /\ \A a \in Actors : Fits(a)
  BY DEF Init, Idle, Sole, Delivered, RestoreExact, Fits, BackupFits, RestoreFits, IdleFits
<1>9. latest # None => latest \in Earlier
  BY DEF Init
<1>10. LatestHasReceipt /\ (latest # None => latest \in Backups)
  <2>1. [s \in SetNames |-> 1] \in [SetNames -> Ids]
    BY DEF Ids
  <2> QED BY <1>9, <2>1, BackupConstants, NoneIsNothing DEF LatestHasReceipt, Init
<1>11. ASSUME NEW b \in Earlier PROVE AgeFits(b) /\ ReceiptFits(b)
  <2>1. b \in Backups /\ work[b] = FirstWork /\ receipts[b] = [s \in SetNames |-> 1]
    BY <1>11, BackupConstants DEF Init
  <2>2. [i \in Items |-> FirstVersion(i)] \in [Items -> Versions]
    BY Static DEF Versions
  <2>3. \A i \in Items : /\ work[b].since[i] = FirstVersion(i) /\ live[i] = FirstVersion(i)
                         /\ work[b].archive[i] = IF FirstVersion(i) = 0 THEN None ELSE FirstVersion(i)
    BY <2>1 DEF FirstWork, Init
  <2>4. \A p \in Paths : work[b].inventory[p] = FirstVersion(p) /\ p \in Items
    BY <2>1, Static DEF FirstWork
  <2>5. work[b].since # None
    BY <2>1, <2>2, NoneIsNothing DEF FirstWork
  <2>6. AgeFits(b)
    <3>1. removed = {} /\ \A i \in Items : FirstVersion(i) <= FirstVersion(i)
      BY Static DEF Init
    <3>2. \A i \in Items : FirstVersion(i) # None
      BY Static, NoneIsNothing DEF Versions
    <3>3. \A i \in Stores : work[b].archive[i] # None => work[b].archive[i] = work[b].since[i]
      BY <2>3, Static
    <3> QED BY <2>3, <2>4, <3>1, <3>2, <3>3, Static DEF AgeFits
  <2>7. AsInventoried(b)
    BY <2>3, <2>4 DEF AsInventoried, Inventory
  <2>8. Complete(b)
    BY <2>3, Static, NoneIsNothing DEF Complete, Versions
  <2>9. Upto(b, 4)
    <3> SUFFICES ASSUME NEW j \in 1 .. 4
                 PROVE  remote[[of |-> b, set |-> Uploads[j].set, kind |-> Uploads[j].kind]] # None
      BY DEF Upto
    <3>1. [of |-> b, set |-> Uploads[j].set, kind |-> Uploads[j].kind] \in Names
      BY <2>1, Static DEF Names, SetNames
    <3> QED BY <3>1, <1>11, FirstAssetType DEF Init
  <2> QED BY <2>1, <2>5, <2>6, <2>7, <2>8, <2>9 DEF ReceiptFits
<1>12. ASSUME NEW b \in Backups \ Earlier PROVE AgeFits(b) /\ ReceiptFits(b)
  BY <1>12 DEF Init, Unused, AgeFits, ReceiptFits
<1>13. RemoteFits
  BY FirstAssetType DEF Init, RemoteFits
<1> QED BY <1>7, <1>8, <1>9, <1>10, <1>11, <1>12, <1>13 DEF IInv

(***************************************************************************)
(* The archives.                                                           *)
(***************************************************************************)
\* A step that moves the process on within its backup, or not at all, and may
\* change its work directory.
LEMMA WorkInv ==
  ASSUME IInv, NEW a \in Actors, NEW b \in Backups, NEW w \in Work, NEW j \in Job,
         at[a].job = "backup" => at[a].pc # "latest" /\ at[a].of = b,
         j.job = "backup", j.of = b, receipts[b] = None,
         \A c \in Actors \ {a} : at[c].job = "backup" => at[c].of # b,
         at' = [at EXCEPT ![a] = j], work' = [work EXCEPT ![b] = w],
         UNCHANGED <<live, removed, remote, receipts, latest, restVars>>,
         w.since # None, j.staged = <<>>, j.pc \in Early \cup Sending,
         AgeFits(b)', Packed(a)', Sent(a)'
  PROVE  IInv'
<1>1. at'[a] = j /\ (\A c \in Actors \ {a} : at'[c] = at[c])
      /\ work'[b] = w /\ \A d \in Backups \ {b} : work'[d] = work[d]
  BY DEF IInv, Types
<1>2. Frame(a, {b})
  BY <1>1 DEF Frame, restVars
<1>3. Types'
  BY DEF IInv, Types, restVars
<1>4. Fits(a)'
  BY <1>1 DEF Fits, BackupFits, RestoreFits, IdleFits, Early, Sending
<1>5. RemoteFits' /\ ReceiptFits(b)'
  BY DEF IInv, RemoteFits, Touched, ReceiptFits, restVars
<1>6. at'[a].pc # "copying"
  BY <1>1 DEF Early, Sending
<1> QED BY <1>1, <1>2, <1>3, <1>4, <1>5, <1>6, KeepInv DEF restVars

LEMMA StartBackupInv ==
  ASSUME IInv, NEW a \in Actors, NEW b \in Backups, StartBackup(a, b) PROVE IInv'
<1> DEFINE j == [Idle EXCEPT !.job = "backup", !.pc = "hash", !.of = b]
           w == [work[b] EXCEPT !.since = live]
<1>1. live \in [Items -> Versions] /\ live # None /\ work[b] \in Work
  BY NoneIsNothing DEF IInv, Types
<1>2. /\ j.job = "backup" /\ j.pc = "hash" /\ j.of = b /\ j.n = 1
      /\ j.ids = <<>> /\ j.staged = <<>>
  BY DEF Idle
<1>3. j \in Job
  <2>1. Idle \in Job
    BY DEF Idle, Job, Versions
  <2>2. [Idle EXCEPT !.job = "backup"] \in Job
    BY <2>1 DEF Job
  <2>3. [[Idle EXCEPT !.job = "backup"] EXCEPT !.pc = "hash"] \in Job
    BY <2>2 DEF Job, Early
  <2> QED BY <2>3 DEF Job
<1>4. w = [since |-> live, inventory |-> [p \in Paths |-> None], archive |-> [i \in Items |-> None],
           lost |-> {}]
  BY DEF StartBackup, itemVars, Unused
<1>5. w \in Work
  BY <1>1, <1>4 DEF Work
<1>6. receipts[b] = None
  BY DEF IInv, ReceiptFits, StartBackup, Unused
<1>7. \A c \in Actors : at[c].job = "backup" => at[c].of # b
  BY DEF IInv, Fits, BackupFits, StartBackup, itemVars, Unused
<1>8. at[a].job = "none"
  BY DEF StartBackup, itemVars, Idle
<1>9. at'[a] = j /\ work'[b] = w /\ live' = live
  BY DEF StartBackup, itemVars, IInv, Types
<1>10. AgeFits(b)'
  <2>1. removed' = removed /\ \A p \in removed : live[p] = 0
    BY DEF StartBackup, itemVars, IInv, Types
  <2>2. /\ w.since = live /\ \A p \in Paths : w.inventory[p] = None
        /\ \A i \in Items : w.archive[i] = None
    BY <1>4
  <2>3. \A i \in Items : live[i] <= live[i]
    BY <1>1 DEF Versions
  <2>4. Paths \subseteq Items /\ Stores \subseteq Items /\ removed \subseteq Paths
    BY Static DEF IInv, Types
  <2> HIDE DEF w
  <2> QED BY <1>9, <2>1, <2>2, <2>3, <2>4 DEF AgeFits
<1>11. Packed(a)' /\ Sent(a)'
  <2>1. Packed(a)'
    BY <1>2, <1>9 DEF Packed, Sending
  <2>2. Len(at'[a].ids) = 0
    BY <1>2, <1>9
  <2> QED BY <1>2, <1>9, <2>1, <2>2 DEF Sent, Upto
<1> HIDE DEF j, w
<1>12. at' = [at EXCEPT ![a] = j] /\ work' = [work EXCEPT ![b] = w]
  BY DEF StartBackup, itemVars, j, w
<1>13. UNCHANGED <<live, removed, remote, receipts, latest, restVars>>
  BY DEF StartBackup, itemVars
<1> QED BY <1>1, <1>2, <1>3, <1>4, <1>5, <1>6, <1>7, <1>8, <1>10, <1>11, <1>12, <1>13, WorkInv
    DEF Early

LEMMA HashAssetInv ==
  ASSUME IInv, NEW a \in Actors, NEW p \in Paths, HashAsset(a, p) PROVE IInv'
<1>0. PICK b \in Backups : b = at[a].of
  BY Owner DEF HashAsset, itemVars, Doing
<1> DEFINE v == [work[b].inventory EXCEPT ![p] = live[p]]
           w == [work[b] EXCEPT !.inventory = v]
<1>1. at[a].job = "backup" /\ at[a].pc = "hash" /\ UNCHANGED <<live, removed, at, remote, receipts, latest, restVars>>
  BY DEF HashAsset, itemVars, Doing
<1>2. work' = [work EXCEPT ![b] = w]
  BY <1>0 DEF HashAsset, itemVars
<1>3. /\ at[a].of = b /\ receipts[b] = None /\ work[b].since # None /\ Packed(a) /\ Sent(a)
      /\ at[a].staged = <<>> /\ AgeFits(b) /\ at[a] \in Job
      /\ \A c \in Actors \ {a} : at[c].job = "backup" => at[c].of # b
  BY <1>0, <1>1, Owner
<1>4. work[b] \in Work /\ live \in [Items -> Versions] /\ p \in Items
  BY <1>3, Static DEF IInv, Types
<1>5. v \in [Paths -> Versions \cup {None}]
  BY <1>4 DEF Work
<1>6. w \in Work /\ w.since = work[b].since /\ w.inventory = v /\ w.archive = work[b].archive
  BY <1>4, <1>5 DEF Work
<1>7. work'[b] = w /\ live' = live
  BY <1>1, <1>2, <1>3 DEF IInv, Types
<1>8. AgeFits(b)'
  <2>1. v[p] = live[p] /\ \A q \in Paths \ {p} : v[q] = work[b].inventory[q]
    BY <1>4 DEF Work
  <2>2. live[p] \in Versions /\ work[b].since \in [Items -> Versions] /\ work[b].since[p] \in Versions
    BY <1>3, <1>4 DEF Work
  <2> HIDE DEF v, w
  <2>3. work[b].inventory[p] = None
    BY <1>0 DEF HashAsset
  <2>4. work[b].archive[p] = None
    BY <1>3, <2>3 DEF AgeFits
  <2>5. v[p] >= work[b].since[p] \/ (v[p] = 0 /\ p \in work[b].lost)
    <3>1. CASE p \in removed
      <4>1. v[p] = 0
        BY <2>1, <3>1 DEF IInv, Types
      <4>2. work[b].since[p] > 0 => p \in work[b].lost
        BY <1>3, <2>3, <3>1 DEF AgeFits
      <4> QED BY <1>4, <2>2, <4>1, <4>2 DEF Versions
    <3>2. CASE p \notin removed
      BY <1>3, <1>4, <2>1, <2>2, <3>2 DEF AgeFits, Versions
    <3> QED BY <3>1, <3>2
  <2>6. removed' = removed /\ w.lost = work[b].lost
    BY <1>1, <1>4 DEF Work, w
  <2>7. v[p] # None
    BY <2>1, <2>2, NoneIsNothing
  <2>8. \A q \in Paths : v[q] # None => \/ v[q] >= work[b].since[q]
                                        \/ v[q] = 0 /\ q \in work[b].lost
    <3> TAKE q \in Paths
    <3>1. CASE q = p
      BY <2>5, <3>1
    <3>2. CASE q # p
      BY <1>3, <2>1, <3>2 DEF AgeFits
    <3> QED BY <3>1, <3>2
  <2>9. \A q \in removed : v[q] = None /\ work[b].since[q] > 0 => q \in work[b].lost
    BY <1>3, <1>4, <2>1, <2>7 DEF AgeFits, IInv, Types
  <2>10. \A q \in Paths : v[q] \in {None, 0} => work[b].archive[q] = None
    BY <1>3, <2>1, <2>4 DEF AgeFits
  <2> QED BY <1>3, <1>6, <1>7, <2>6, <2>8, <2>9, <2>10 DEF AgeFits
<1> HIDE DEF v, w
<1>9. Packed(a)' /\ Sent(a)'
  <2>1. at'[a] = at[a] /\ (Touched(b)' <=> Touched(b)) /\ remote' = remote
    BY <1>1 DEF Touched, restVars
  <2> QED BY <1>1, <1>3, <2>1 DEF Packed, Sent, Sending, Upto
<1>10. at' = [at EXCEPT ![a] = at[a]]
  BY <1>1 DEF IInv, Types
<1>11. at[a].pc \in Early \cup Sending
  BY <1>1 DEF Early
<1> QED BY <1>1, <1>2, <1>3, <1>6, <1>8, <1>9, <1>10, <1>11, WorkInv

\* Some items go into the archives as they are now.
LEMMA ArchiveInv ==
  ASSUME IInv, NEW a \in Actors, NEW I \in SUBSET Items, NEW j \in Job,
         at[a].job = "backup", at[a].pc \in {"copy", "operations", "pack"},
         at' = [at EXCEPT ![a] = j], j.job = "backup", j.of = at[a].of, j.n = at[a].n,
         j.ids = at[a].ids, j.staged = at[a].staged, j.pc \in {"operations", "pack"},
         work' = [work EXCEPT ![at[a].of].archive =
                    [i \in Items |-> IF i \in I THEN live[i] ELSE work[at[a].of].archive[i]]],
         I \cap Paths \subseteq Inventory(at[a].of),
         j.pc = "operations" => {"candidates", "schema"} \subseteq I,
         j.pc = "pack" => at[a].pc = "pack" \/ (at[a].pc = "operations" /\ "operations" \in I),
         UNCHANGED <<live, removed, remote, receipts, latest, restVars>>
  PROVE  IInv'
<1>0. PICK b \in Backups : b = at[a].of
  BY Owner
<1> DEFINE v == [i \in Items |-> IF i \in I THEN live[i] ELSE work[b].archive[i]]
           w == [work[b] EXCEPT !.archive = v]
<1>1. /\ at[a].of = b /\ receipts[b] = None /\ work[b].since # None /\ Packed(a) /\ Sent(a)
      /\ at[a].staged = <<>> /\ AgeFits(b) /\ at[a] \in Job
      /\ \A c \in Actors \ {a} : at[c].job = "backup" => at[c].of # b
  BY <1>0, Owner
<1>2. work[b] \in Work /\ live \in [Items -> Versions]
  BY <1>1 DEF IInv, Types
<1>3. v \in [Items -> Versions \cup {None}] /\ \A i \in I : v[i] # None
  BY <1>2, NoneIsNothing DEF Work
<1>4. w \in Work /\ w.since = work[b].since /\ w.inventory = work[b].inventory /\ w.archive = v
  BY <1>2, <1>3 DEF Work
<1>5. work' = [work EXCEPT ![b] = w] /\ work'[b] = w /\ live' = live /\ at'[a] = j
  BY <1>1 DEF IInv, Types
<1>6. AgeFits(b)'
  <2>1. work[b].since \in [Items -> Versions]
    BY <1>1, <1>2 DEF Work
  <2>2. \A i \in Stores : i \in Items /\ i \notin removed
    BY Static, StoresAreNoPlaces DEF IInv, Types
  <2>3. \A i \in Stores : v[i] # None => v[i] >= work[b].since[i]
    BY <1>1, <1>2, <2>1, <2>2 DEF AgeFits, Versions
  <2>4. \A p \in Paths : work[b].inventory[p] \in {None, 0} => v[p] = None
    <3> TAKE p \in Paths
    <3> HAVE work[b].inventory[p] \in {None, 0}
    <3>1. p \notin I
      BY <1>1 DEF Inventory
    <3> QED BY <1>1, <3>1, Static DEF AgeFits
  <2>5. w.lost = work[b].lost /\ removed' = removed /\ removed \subseteq Paths
    BY <1>2 DEF Work, IInv, Types
  <2> HIDE DEF v, w
  <2>6. /\ work'[b].since = work[b].since /\ work'[b].inventory = work[b].inventory
        /\ work'[b].archive = v /\ work'[b].lost = work[b].lost
    BY <1>4, <1>5, <2>5
  <2> QED BY <1>1, <1>5, <2>3, <2>4, <2>5, <2>6 DEF AgeFits
<1>7. \A i \in Items : work[b].archive[i] # None => v[i] # None
  BY <1>3
<1> HIDE DEF v, w
<1>8. Packed(a)'
  <2>1. \A p \in Paths : work'[b].inventory[p] # None
    BY <1>1, <1>4, <1>5 DEF Packed, Hashed
  <2>2. {"candidates", "schema", "operations"} \subseteq Items
    BY DEF Items, Stores
  <2>3. j.pc = "operations" => v["candidates"] # None /\ v["schema"] # None
    BY <1>3
  <2>4. j.pc = "pack" =>
          v["candidates"] # None /\ v["schema"] # None /\ v["operations"] # None
    BY <1>1, <1>3, <1>7, <2>2 DEF Packed
  <2>5. /\ at'[a].of = b /\ at'[a].pc \in {"operations", "pack"} /\ at'[a].pc = j.pc
        /\ work'[b].archive = v
    BY <1>1, <1>4, <1>5
  <2> QED BY <2>1, <2>3, <2>4, <2>5 DEF Packed, Sending, Hashed
<1>9. Sent(a)'
  <2>1. (Touched(b)' <=> Touched(b)) /\ remote' = remote
    BY DEF Touched, restVars
  <2>2. at'[a].n = 1 /\ at'[a].ids = <<>> /\ at'[a].of = b /\ at'[a].pc \in {"operations", "pack"}
    <3>1. at[a].n = 1 /\ at[a].ids = <<>>
      BY <1>1 DEF Sent, Early
    <3> QED BY <1>1, <1>5, <3>1
  <2>3. Len(at'[a].ids) = 0
    BY <2>2
  <2> QED BY <2>2, <2>3 DEF Sent, Upto
<1>10. j.pc \in Early \cup Sending
  BY DEF Early
<1>11. at[a].pc # "latest" /\ j.of = b /\ j.staged = <<>> /\ w.since # None
  BY <1>1, <1>4
<1> QED BY <1>1, <1>4, <1>5, <1>6, <1>8, <1>9, <1>10, <1>11, WorkInv

LEMMA CopyCandidatesInv == ASSUME IInv, NEW a \in Actors, CopyCandidates(a) PROVE IInv'
<1>1. at[a].job = "backup" /\ at[a].pc = "copy" /\ UNCHANGED <<live, removed, remote, receipts, latest, restVars>>
      /\ at' = [at EXCEPT ![a].pc = "operations"] /\ at[a] \in Job
  BY DEF CopyCandidates, itemVars, Doing, GoTo, IInv, Types
<1> DEFINE I == {"candidates", "schema"}
           j == [at[a] EXCEPT !.pc = "operations"]
<1>2. j \in Job /\ j.pc = "operations" /\ I \in SUBSET Items /\ at' = [at EXCEPT ![a] = j]
      /\ j.job = "backup" /\ j.of = at[a].of /\ j.n = at[a].n /\ j.ids = at[a].ids
      /\ j.staged = at[a].staged
  BY <1>1 DEF Job, Early, Items, Stores
<1>3. at[a].of \in Backups /\ work \in [Backups -> Work]
  BY <1>1, Owner DEF IInv, Types
<1>4. work' = [work EXCEPT ![at[a].of].archive =
                [i \in Items |-> IF i \in I THEN live[i] ELSE work[at[a].of].archive[i]]]
  <2> DEFINE b == at[a].of
             u == [work[b].archive EXCEPT !["candidates"] = live["candidates"],
                                          !["schema"] = live["schema"]]
             v == [i \in Items |-> IF i \in I THEN live[i] ELSE work[b].archive[i]]
  <2>1. work' = [work EXCEPT ![b].archive = u]
    BY DEF CopyCandidates, itemVars
  <2>2. u = v
    BY <1>3 DEF Work, Items, Stores
  <2> QED BY <2>1, <2>2
<1> HIDE DEF I, j
<1>5. I \cap Paths \subseteq Inventory(at[a].of)
  BY StoresAreNoPlaces DEF I, Stores
<1> QED BY <1>1, <1>2, <1>4, <1>5, ArchiveInv DEF I

LEMMA CopyOperationsInv == ASSUME IInv, NEW a \in Actors, CopyOperations(a) PROVE IInv'
<1>1. at[a].job = "backup" /\ at[a].pc = "operations"
      /\ UNCHANGED <<live, removed, remote, receipts, latest, restVars>>
      /\ at' = [at EXCEPT ![a].pc = "pack"] /\ at[a] \in Job
  BY DEF CopyOperations, itemVars, Doing, GoTo, IInv, Types
<1> DEFINE I == {"operations"}
           j == [at[a] EXCEPT !.pc = "pack"]
<1>2. j \in Job /\ j.pc = "pack" /\ I \in SUBSET Items /\ at' = [at EXCEPT ![a] = j]
      /\ j.job = "backup" /\ j.of = at[a].of /\ j.n = at[a].n /\ j.ids = at[a].ids
      /\ j.staged = at[a].staged
  BY <1>1 DEF Job, Early, Items, Stores
<1>3. at[a].of \in Backups /\ work \in [Backups -> Work]
  BY <1>1, Owner DEF IInv, Types
<1>4. work' = [work EXCEPT ![at[a].of].archive =
                [i \in Items |-> IF i \in I THEN live[i] ELSE work[at[a].of].archive[i]]]
  <2> DEFINE b == at[a].of
             u == [work[b].archive EXCEPT !["operations"] = live["operations"]]
             v == [i \in Items |-> IF i \in I THEN live[i] ELSE work[b].archive[i]]
  <2>1. work' = [work EXCEPT ![b].archive = u]
    BY DEF CopyOperations, itemVars
  <2>2. u = v
    BY <1>3 DEF Work, Items, Stores
  <2> QED BY <2>1, <2>2
<1> HIDE DEF I, j
<1>5. I \cap Paths \subseteq Inventory(at[a].of)
  BY StoresAreNoPlaces DEF I, Stores
<1> QED BY ZenonT(30), <1>1, <1>2, <1>4, <1>5, ArchiveInv DEF I

LEMMA PackAssetInv ==
  ASSUME IInv, NEW a \in Actors, NEW p \in Paths, PackAsset(a, p) PROVE IInv'
<1>1. at[a].job = "backup" /\ at[a].pc = "pack"
      /\ UNCHANGED <<live, removed, at, remote, receipts, latest, restVars>> /\ at[a] \in Job
  BY DEF PackAsset, itemVars, Doing, IInv, Types
<1>2. {p} \in SUBSET Items /\ at' = [at EXCEPT ![a] = at[a]]
  BY <1>1, Static DEF IInv, Types
<1>3. at[a].of \in Backups /\ work \in [Backups -> Work]
  BY <1>1, Owner DEF IInv, Types
<1>4. work' = [work EXCEPT ![at[a].of].archive =
                [i \in Items |-> IF i \in {p} THEN live[i] ELSE work[at[a].of].archive[i]]]
  <2> DEFINE b == at[a].of
             u == [work[b].archive EXCEPT ![p] = live[p]]
             v == [i \in Items |-> IF i \in {p} THEN live[i] ELSE work[b].archive[i]]
  <2>1. work' = [work EXCEPT ![b].archive = u]
    BY DEF PackAsset, itemVars
  <2>2. u = v
    BY <1>3 DEF Work
  <2> QED BY <2>1, <2>2
<1>5. {p} \cap Paths \subseteq Inventory(at[a].of)
  BY DEF PackAsset
<1> QED BY ZenonT(30), <1>1, <1>2, <1>4, <1>5, ArchiveInv

(***************************************************************************)
(* A backup moves on.                                                      *)
(***************************************************************************)
LEMMA OnwardInv ==
  ASSUME IInv, NEW a \in Actors, NEW j \in Job, at' = [at EXCEPT ![a] = j],
         at[a].job = "backup", at[a].pc # "latest", j.job = "backup", j.of = at[a].of,
         j.staged = at[a].staged, j.pc \in Early \cup Sending,
         UNCHANGED <<live, removed, backupVars, restVars>>, Packed(a)', Sent(a)'
  PROVE  IInv'
<1>1. /\ at[a].of \in Backups /\ receipts[at[a].of] = None /\ work[at[a].of].since # None
      /\ at[a].staged = <<>>
  BY Owner
<1>2. at'[a] = j /\ work' = work /\ receipts' = receipts
  BY DEF IInv, Types, backupVars
<1>3. Fits(a)'
  BY <1>1, <1>2 DEF Fits, BackupFits, RestoreFits, IdleFits, Early, Sending
<1>4. j.pc # "copying"
  BY DEF Early, Sending
<1> QED BY <1>3, <1>4, MoveInv

\* An early step, before any upload.
LEMMA EarlyInv ==
  ASSUME IInv, NEW a \in Actors, NEW j \in Job, at' = [at EXCEPT ![a] = j],
         at[a].job = "backup", at[a].pc \in Early, j.job = "backup", j.of = at[a].of,
         j.staged = at[a].staged, j.ids = at[a].ids, j.n = at[a].n,
         j.pc \in Early \cup {"put"},
         UNCHANGED <<live, removed, backupVars, restVars>>, Packed(a)'
  PROVE  IInv'
<1>1. at[a].n = 1 /\ at[a].ids = <<>> /\ at[a].pc # "latest"
  BY Owner DEF Sent, Early
<1>2. at'[a] = j /\ at'[a].n = 1 /\ at'[a].ids = <<>>
  BY <1>1 DEF IInv, Types
<1>3. Len(at'[a].ids) = 0 /\ at'[a].pc \notin {"look", "inspect", "latest"}
  BY <1>2 DEF Early
<1>4. Sent(a)'
  BY <1>2, <1>3 DEF Sent, Upto
<1> QED BY <1>1, <1>4, OnwardInv DEF Sending

LEMMA PreflightInv == ASSUME IInv, NEW a \in Actors, Preflight(a) PROVE IInv'
<1> DEFINE j == [at[a] EXCEPT !.pc = "version"]
<1>1. at[a].job = "backup" /\ at[a].pc = "hash" /\ at' = [at EXCEPT ![a] = j] /\ at[a] \in Job
      /\ UNCHANGED <<live, removed, backupVars, restVars>> /\ Hashed(at[a].of)
  BY DEF Preflight, itemVars, Doing, GoTo, Hashed, IInv, Types
<1>2. j \in Job /\ j.pc = "version" /\ j.job = "backup" /\ j.of = at[a].of
      /\ j.staged = at[a].staged /\ j.ids = at[a].ids /\ j.n = at[a].n
  BY <1>1 DEF Job, Early
<1>3. Packed(a)'
  BY <1>1, <1>2 DEF Packed, Hashed, Sending, IInv, Types, backupVars
<1> HIDE DEF j
<1> QED BY <1>1, <1>2, <1>3, EarlyInv DEF Early

LEMMA ReadVersionInv == ASSUME IInv, NEW a \in Actors, ReadVersion(a) PROVE IInv'
<1> DEFINE i == [at[a] EXCEPT !.pc = "copy"]
           j == [i EXCEPT !.schema = live["schema"]]
<1>1. at[a].job = "backup" /\ at[a].pc = "version" /\ at' = [at EXCEPT ![a] = j] /\ at[a] \in Job
      /\ UNCHANGED <<live, removed, backupVars, restVars>> /\ live["schema"] \in Versions
  BY DEF ReadVersion, itemVars, Doing, IInv, Types, Items, Stores
<1>2. Hashed(at[a].of)
  BY <1>1, Owner DEF Packed
<1>3. i \in Job /\ i.pc = "copy" /\ i.job = "backup" /\ i.of = at[a].of
      /\ i.staged = at[a].staged /\ i.ids = at[a].ids /\ i.n = at[a].n
  BY <1>1 DEF Job, Early
<1> HIDE DEF i
<1>4. j \in Job /\ j.pc = "copy" /\ j.job = "backup" /\ j.of = at[a].of
      /\ j.staged = at[a].staged /\ j.ids = at[a].ids /\ j.n = at[a].n
  BY <1>1, <1>3 DEF Job
<1> HIDE DEF j
<1>5. Packed(a)'
  BY <1>1, <1>2, <1>4 DEF Packed, Hashed, Sending, IInv, Types, backupVars
<1> QED BY <1>1, <1>4, <1>5, EarlyInv DEF Early

LEMMA CheckArchivesInv == ASSUME IInv, NEW a \in Actors, CheckArchives(a) PROVE IInv'
<1> DEFINE j == [at[a] EXCEPT !.pc = "put"]
<1>1. at[a].job = "backup" /\ at[a].pc = "pack" /\ at' = [at EXCEPT ![a] = j] /\ at[a] \in Job
      /\ UNCHANGED <<live, removed, backupVars, restVars>> /\ AsInventoried(at[a].of)
  BY DEF CheckArchives, itemVars, Doing, GoTo, IInv, Types
<1>2. j \in Job /\ j.pc = "put" /\ j.job = "backup" /\ j.of = at[a].of
      /\ j.staged = at[a].staged /\ j.ids = at[a].ids /\ j.n = at[a].n
  BY <1>1 DEF Job, Sending
<1>3. PICK b \in Backups : b = at[a].of
  BY <1>1, Owner
<1>4. Complete(b)
  <2> SUFFICES ASSUME NEW i \in Items, work[b].since[i] > 0
               PROVE  \/ work[b].archive[i] # None /\ work[b].archive[i] >= work[b].since[i]
                      \/ work[b].archive[i] = None /\ i \in work[b].lost
    BY DEF Complete
  <2>1. Packed(a) /\ AgeFits(b) /\ work[b].since # None /\ work[b] \in Work
    BY <1>1, <1>3, Owner DEF IInv, Types
  <2>2. CASE i \in Stores
    BY <1>1, <1>3, <2>1, <2>2 DEF Packed, Stores, AgeFits
  <2>3. CASE i \in Paths
    <3>1. work[b].inventory[i] # None
      BY <1>1, <1>3, <2>1, <2>3 DEF Packed, Hashed
    <3>2. CASE work[b].inventory[i] = 0
      <4>1. work[b].since[i] \in Versions
        BY <2>1 DEF Work
      <4>2. i \in work[b].lost
        BY <2>1, <2>3, <3>1, <3>2, <4>1 DEF AgeFits, Versions
      <4>3. work[b].archive[i] = None
        BY <2>1, <2>3, <3>2 DEF AgeFits
      <4> QED BY <4>2, <4>3
    <3>3. CASE work[b].inventory[i] # 0
      <4>1. work[b].archive[i] = work[b].inventory[i]
        BY <1>1, <1>3, <2>3, <3>1, <3>3 DEF AsInventoried, Inventory
      <4> QED BY <2>1, <2>3, <3>1, <3>3, <4>1 DEF AgeFits
    <3> QED BY <3>2, <3>3
  <2> QED BY <2>2, <2>3 DEF Items
<1>5. Packed(a)'
  <2>1. at'[a] = j /\ work' = work
    BY <1>1 DEF IInv, Types, backupVars
  <2>2. AsInventoried(b)' /\ Complete(b)'
    BY <1>1, <1>3, <1>4, <2>1 DEF AsInventoried, Inventory, Complete
  <2>3. at'[a].of = b /\ at'[a].pc = "put"
    BY <1>2, <1>3, <2>1
  <2> QED BY <2>2, <2>3 DEF Packed, AsInventoried, Inventory, Complete
<1> HIDE DEF j
<1> QED BY <1>1, <1>2, <1>5, EarlyInv DEF Early

(***************************************************************************)
(* Uploads and the receipt.                                                *)
(***************************************************************************)
\* The name of the current upload, and an asset nobody interfered with.
LEMMA CurrentName ==
  ASSUME IInv, NEW a \in Actors, at[a].job = "backup", at[a].pc # "latest", at[a].n <= 4
  PROVE  /\ NameAt(a) \in Names /\ NameAt(a).of = at[a].of
         /\ NameAt(a) = [of |-> at[a].of, set |-> Uploads[at[a].n].set, kind |-> Uploads[at[a].n].kind]
         /\ remote[NameAt(a)] # None =>
              /\ remote[NameAt(a)].id \in Ids
              /\ ~Touched(at[a].of) => remote[NameAt(a)].id = 1
<1>1. at[a].of \in Backups /\ at[a].n \in 1 .. 4
  BY Owner DEF Job
<1>2. NameAt(a) \in Names
  BY <1>1, Static DEF NameAt, Names, SetNames
<1>3. NameAt(a).of = at[a].of
  BY DEF NameAt
<1>4. remote[NameAt(a)] # None => remote[NameAt(a)].id \in Ids
  BY <1>2 DEF IInv, Types, Assets
<1>5. ~Touched(at[a].of) /\ remote[NameAt(a)] # None => remote[NameAt(a)].id = 1
  BY <1>2, <1>3, FirstAssetType DEF IInv, RemoteFits
<1> QED BY <1>2, <1>3, <1>4, <1>5 DEF NameAt

LEMMA LookInv == ASSUME IInv, NEW a \in Actors, Look(a) PROVE IInv'
<1> DEFINE x == remote[NameAt(a)].id
           s == Append(at[a].ids, x)
           i == [at[a] EXCEPT !.pc = "inspect"]
           j == [i EXCEPT !.ids = s]
<1>1. at[a].job = "backup" /\ at[a].pc = "look" /\ at' = [at EXCEPT ![a] = j] /\ at[a] \in Job
      /\ UNCHANGED <<live, removed, backupVars, restVars>> /\ remote[NameAt(a)] # None
  BY DEF Look, itemVars, Doing, IInv, Types
<1>2. Packed(a) /\ Sent(a) /\ at[a].n <= 4 /\ Len(at[a].ids) = at[a].n - 1
  BY <1>1, Owner DEF Sent
<1>3. x \in Ids /\ (~Touched(at[a].of) => x = 1)
  BY <1>1, <1>2, CurrentName
<1>4. at[a].n \in Nat /\ at[a].ids \in Seq(Ids)
  BY <1>1 DEF Job
<1>5. s \in Seq(Ids) /\ Len(s) = at[a].n /\ s[at[a].n] = x
      /\ \A k \in 1 .. at[a].n - 1 : s[k] = at[a].ids[k]
  BY <1>2, <1>3, <1>4
<1> HIDE DEF s, x
<1>6. i \in Job /\ i.pc = "inspect" /\ i.job = "backup" /\ i.of = at[a].of
      /\ i.staged = at[a].staged /\ i.n = at[a].n
  BY <1>1 DEF Job, Sending
<1> HIDE DEF i
<1>7. j \in Job /\ j.pc = "inspect" /\ j.job = "backup" /\ j.of = at[a].of
      /\ j.staged = at[a].staged /\ j.n = at[a].n /\ j.ids = s
  BY <1>5, <1>6 DEF Job
<1> HIDE DEF j
<1>8. at'[a] = j /\ remote' = remote /\ work' = work
  BY <1>1 DEF IInv, Types, backupVars
<1>9. PICK b \in Backups : b = at[a].of
  BY <1>1, Owner
<1>10. ~Touched(b) => /\ \A k \in 1 .. at[a].n : s[k] = 1
                      /\ Upto(b, at[a].n)
  <2> SUFFICES ASSUME ~Touched(b)
               PROVE  (\A k \in 1 .. at[a].n : s[k] = 1) /\ Upto(b, at[a].n)
    OBVIOUS
  <2>1. (\A k \in 1 .. at[a].n - 1 : at[a].ids[k] = 1) /\ Upto(b, at[a].n - 1)
    BY <1>2, <1>9 DEF Sent
  <2>2. \A k \in 1 .. at[a].n : s[k] = 1
    BY <1>3, <1>4, <1>5, <1>9, <2>1
  <2>3. NameAt(a) = [of |-> b, set |-> Uploads[at[a].n].set, kind |-> Uploads[at[a].n].kind]
    BY <1>9 DEF NameAt
  <2>4. \A k \in 1 .. at[a].n : k \in 1 .. at[a].n - 1 \/ k = at[a].n
    BY <1>4
  <2> QED BY <1>1, <2>1, <2>2, <2>3, <2>4 DEF Upto
<1>11. Touched(b)' <=> Touched(b)
  BY <1>1 DEF Touched, restVars
<1>12. Sent(a)'
  BY <1>2, <1>5, <1>7, <1>8, <1>9, <1>10, <1>11 DEF Sent, Upto, Early
<1>13. Packed(a)'
  BY <1>1, <1>2, <1>7, <1>8 DEF Packed, Sending, AsInventoried, Inventory, Complete
<1> QED BY <1>1, <1>7, <1>12, <1>13, OnwardInv DEF Sending

LEMMA InspectInv == ASSUME IInv, NEW a \in Actors, Inspect(a) PROVE IInv'
<1> DEFINE i == [at[a] EXCEPT !.pc = "put"]
           j == [i EXCEPT !.n = at[a].n + 1]
<1>1. at[a].job = "backup" /\ at[a].pc = "inspect" /\ at' = [at EXCEPT ![a] = j] /\ at[a] \in Job
      /\ UNCHANGED <<live, removed, backupVars, restVars>>
  BY DEF Inspect, itemVars, Doing, IInv, Types
<1>2. Packed(a) /\ Sent(a) /\ at[a].n <= 4 /\ Len(at[a].ids) = at[a].n
  BY <1>1, Owner DEF Sent
<1>3. at[a].n \in 1 .. 4
  BY <1>1, <1>2 DEF Job
<1>4. i \in Job /\ i.pc = "put" /\ i.job = "backup" /\ i.of = at[a].of
      /\ i.staged = at[a].staged /\ i.ids = at[a].ids
  BY <1>1 DEF Job, Sending
<1> HIDE DEF i
<1>5. j \in Job /\ j.pc = "put" /\ j.job = "backup" /\ j.of = at[a].of
      /\ j.staged = at[a].staged /\ j.n = at[a].n + 1 /\ j.ids = at[a].ids
  BY <1>3, <1>4 DEF Job
<1> HIDE DEF j
<1>6. at'[a] = j /\ remote' = remote /\ work' = work
  BY <1>1 DEF IInv, Types, backupVars
<1>7. PICK b \in Backups : b = at[a].of
  BY <1>1, Owner
<1>8. Touched(b)' <=> Touched(b)
  BY <1>1 DEF Touched, restVars
<1>9. at'[a].pc = "put" /\ at'[a].of = b /\ at'[a].ids = at[a].ids
  BY <1>5, <1>6, <1>7
<1>10. ~Touched(b) => /\ \A k \in 1 .. Len(at[a].ids) : at[a].ids[k] = 1
                      /\ Upto(b, Len(at[a].ids))
  BY <1>2, <1>7 DEF Sent
<1>11. Len(at'[a].ids) = at'[a].n - 1
  BY <1>2, <1>3, <1>5, <1>6
<1>12. Sent(a)'
  BY <1>6, <1>8, <1>9, <1>10, <1>11 DEF Sent, Upto, Early
<1>13. Packed(a)'
  BY <1>1, <1>2, <1>5, <1>6 DEF Packed, Sending, AsInventoried, Inventory, Complete
<1> QED BY <1>1, <1>5, <1>12, <1>13, OnwardInv DEF Sending

LEMMA PutInv == ASSUME IInv, NEW a \in Actors, Put(a) PROVE IInv'
<1> DEFINE m == NameAt(a)
           x == [id |-> 1, data |-> Payload(a)]
           j == [at[a] EXCEPT !.pc = "look"]
<1>1. at[a].job = "backup" /\ at[a].pc = "put" /\ at' = [at EXCEPT ![a] = j] /\ at[a] \in Job
      /\ UNCHANGED <<live, removed, work, receipts, latest, restVars>> /\ remote[m] = None
      /\ remote' = [remote EXCEPT ![m] = x] /\ at[a].n <= 4
  BY Static DEF Put, itemVars, Doing, GoTo, IInv, Types
<1>2. PICK b \in Backups : b = at[a].of
  BY <1>1, Owner
<1>3. /\ receipts[b] = None /\ work[b].since # None /\ Packed(a) /\ Sent(a) /\ at[a].staged = <<>>
      /\ \A c \in Actors \ {a} : at[c].job = "backup" => at[c].of # b
  BY <1>1, <1>2, Owner
<1>4. at[a].n \in 1 .. 4 /\ Len(at[a].ids) = at[a].n - 1 /\ at[a].ids \in Seq(Ids)
  BY <1>1, <1>3 DEF Job, Sent
<1>5. m \in Names /\ m.of = b
  BY <1>1, <1>2, CurrentName
<1>6. m.set = Uploads[at[a].n].set /\ m.kind = Uploads[at[a].n].kind
      /\ m = [of |-> b, set |-> Uploads[at[a].n].set, kind |-> Uploads[at[a].n].kind]
  BY <1>2 DEF NameAt
<1> DEFINE cipher == [of |-> b, set |-> m.set]
<1>7. x \in Assets /\ x.id = 1 /\ (~Touched(b) => x = FirstAsset(m))
  <2>1. cipher \in Ciphers
    BY <1>5 DEF Ciphers, Names
  <2>2. CASE m.kind = "cipher"
    <3>1. Payload(a) = cipher
      BY <1>5, <2>2 DEF Payload
    <3> QED BY <1>5, <2>1, <2>2, <3>1 DEF Assets, Ids, FirstAsset
  <2>3. CASE m.kind # "cipher"
    <3>1. at[a].n - 1 \in 1 .. Len(at[a].ids)
      BY <1>4, <1>6, <2>3, Static
    <3>2. at[a].ids[at[a].n - 1] \in Ids /\ (~Touched(b) => at[a].ids[at[a].n - 1] = 1)
      BY <1>2, <1>3, <1>4, <3>1 DEF Sent
    <3>3. Payload(a) = [cipher |-> cipher, id |-> at[a].ids[at[a].n - 1]]
      BY <1>5, <2>3 DEF Payload
    <3>4. Payload(a) \in Outers
      BY <2>1, <3>2, <3>3 DEF Outers
    <3> QED BY <1>5, <2>3, <3>2, <3>3, <3>4 DEF Assets, Ids, FirstAsset
  <2> QED BY <2>2, <2>3
<1> HIDE DEF m, x
<1>8. remote'[m] = x /\ (\A k \in Names \ {m} : remote'[k] = remote[k]) /\ x # None
  BY <1>1, <1>5, <1>7, NoneIsNothing DEF IInv, Types
<1>9. j \in Job /\ j.pc = "look" /\ j.job = "backup" /\ j.of = at[a].of
      /\ j.staged = at[a].staged /\ j.ids = at[a].ids /\ j.n = at[a].n
  BY <1>1 DEF Job, Sending
<1> HIDE DEF j
<1>10. at'[a] = j /\ \A c \in Actors \ {a} : at'[c] = at[c]
  BY <1>1 DEF IInv, Types
<1>11. \A k \in Names : remote[k] # None => remote'[k] # None
  BY <1>8
<1>12. Frame(a, {})
  BY <1>1, <1>10, <1>11 DEF Frame, restVars
<1>13. Types'
  BY <1>1, <1>7, <1>9 DEF IInv, Types, restVars
<1>14. Sent(a)'
  <2>1. (Touched(b)' <=> Touched(b)) /\ Types
    BY <1>1 DEF Touched, restVars, IInv
  <2>2. ~Touched(b) => Upto(b, at[a].n - 1)'
    <3>1. ~Touched(b) => Upto(b, at[a].n - 1)
      BY <1>2, <1>3, <1>4 DEF Sent
    <3>2. PICK k \in 0 .. 4 : k = at[a].n - 1
      BY <1>4
    <3>3. ~Touched(b) => Upto(b, k)'
      BY <1>11, <2>1, <3>1, <3>2, UptoStays
    <3>4. at'[a].n = at[a].n
      BY <1>9, <1>10
    <3> QED BY <3>2, <3>3, <3>4
  <2>3. at'[a].pc = "look" /\ at'[a].of = b /\ at'[a].ids = at[a].ids /\ at'[a].n = at[a].n
    BY <1>2, <1>9, <1>10
  <2>4. ~Touched(b) => \A k \in 1 .. Len(at[a].ids) : at[a].ids[k] = 1
    BY <1>2, <1>3 DEF Sent
  <2> QED BY <1>4, <2>1, <2>2, <2>3, <2>4 DEF Sent, Upto, Early
<1>15. Packed(a)'
  BY <1>1, <1>2, <1>3, <1>9, <1>10 DEF Packed, Sending, AsInventoried, Inventory, Complete
<1>16. Fits(a)'
  BY <1>1, <1>2, <1>3, <1>9, <1>10, <1>14, <1>15 DEF Fits, BackupFits, RestoreFits, IdleFits, Sending
<1>17. RemoteFits'
  BY <1>1, <1>5, <1>7, <1>8 DEF IInv, RemoteFits, Touched, restVars, FirstAsset
<1> QED BY <1>1, <1>2, <1>3, <1>9, <1>10, <1>12, <1>13, <1>16, <1>17, KeepInv DEF restVars

LEMMA WriteReceiptInv == ASSUME IInv, NEW a \in Actors, WriteReceipt(a) PROVE IInv'
<1> DEFINE r == [s \in SetNames |-> at[a].ids[IF s = "candidate" THEN 1 ELSE 3]]
           j == [at[a] EXCEPT !.pc = "latest"]
<1>1. at[a].job = "backup" /\ at[a].pc = "put" /\ at' = [at EXCEPT ![a] = j] /\ at[a] \in Job
      /\ UNCHANGED <<live, removed, work, remote, latest, restVars>> /\ at[a].n > 4
      /\ receipts' = [receipts EXCEPT ![at[a].of] = r]
  BY Static DEF WriteReceipt, itemVars, UploadsDone, Doing, GoTo, IInv, Types
<1>2. PICK b \in Backups : b = at[a].of
  BY <1>1, Owner
<1>3. /\ receipts[b] = None /\ work[b].since # None /\ Packed(a) /\ Sent(a) /\ at[a].staged = <<>>
      /\ AgeFits(b) /\ \A c \in Actors \ {a} : at[c].job = "backup" => at[c].of # b
  BY <1>1, <1>2, Owner
<1>4. at[a].n = 5 /\ at[a].ids \in Seq(Ids)
  BY <1>1 DEF Job
<1>5. Len(at[a].ids) = 4
  BY <1>1, <1>3, <1>4 DEF Sent
<1>6. r \in [SetNames -> Ids] /\ r # None
  BY <1>4, <1>5, NoneIsNothing
<1>7. ~Touched(b) => (\A k \in 1 .. 4 : at[a].ids[k] = 1) /\ Upto(b, 4)
  BY <1>2, <1>3, <1>5 DEF Sent
<1>8. ~Touched(b) => \A s \in SetNames : r[s] = 1
  BY <1>7
<1> HIDE DEF r
<1>9. j \in Job /\ j.pc = "latest" /\ j.job = "backup" /\ j.of = at[a].of
      /\ j.staged = at[a].staged /\ j.ids = at[a].ids /\ j.n = at[a].n
  BY <1>1 DEF Job
<1> HIDE DEF j
<1>10. at'[a] = j /\ (\A c \in Actors \ {a} : at'[c] = at[c])
       /\ receipts'[b] = r /\ \A d \in Backups \ {b} : receipts'[d] = receipts[d]
  BY <1>1, <1>2 DEF IInv, Types
<1>11. Frame(a, {b})
  BY <1>1, <1>3, <1>10 DEF Frame, restVars
<1>12. Types'
  BY <1>1, <1>6, <1>9 DEF IInv, Types, restVars
<1>13. AsInventoried(b) /\ Complete(b)
  BY <1>1, <1>2, <1>3 DEF Packed, Sending
<1>14. (Touched(b)' <=> Touched(b)) /\ (Upto(b, 4)' <=> Upto(b, 4))
       /\ (AsInventoried(b)' <=> AsInventoried(b)) /\ (Complete(b)' <=> Complete(b))
  BY <1>1 DEF Touched, Upto, AsInventoried, Inventory, Complete, restVars
<1>15. at'[a].pc = "latest" /\ at'[a].of = b /\ at'[a].ids = at[a].ids /\ at'[a].job = "backup"
       /\ at'[a].staged = <<>>
  BY <1>2, <1>3, <1>9, <1>10
<1>16. Sent(a)'
  BY <1>5, <1>7, <1>14, <1>15 DEF Sent, Upto, Early
<1>17. Packed(a)'
  BY <1>13, <1>14, <1>15 DEF Packed, Sending, AsInventoried, Inventory, Complete
<1>18. Fits(a)'
  BY <1>1, <1>3, <1>6, <1>10, <1>15, <1>16, <1>17 DEF Fits, BackupFits, RestoreFits, IdleFits
<1>19. ReceiptFits(b)' /\ AgeFits(b)'
  BY <1>1, <1>3, <1>7, <1>8, <1>10, <1>13, <1>14 DEF ReceiptFits, AgeFits
<1>20. RemoteFits'
  BY <1>1 DEF IInv, RemoteFits, Touched, restVars
<1> QED BY <1>1, <1>3, <1>10, <1>11, <1>12, <1>15, <1>18, <1>19, <1>20, KeepInv DEF restVars

LEMMA IdleType == Idle \in Job /\ Idle.job = "none" /\ Idle.pc = "idle" /\ Idle.ids = <<>> /\ Idle.staged = <<>>
BY DEF Idle, Job, Versions

LEMMA WriteLatestInv == ASSUME IInv, NEW a \in Actors, WriteLatest(a) PROVE IInv'
<1>1. at[a].job = "backup" /\ at[a].pc = "latest" /\ at' = [at EXCEPT ![a] = Idle]
      /\ UNCHANGED <<live, removed, work, remote, receipts, restVars>> /\ latest' = at[a].of
  BY DEF WriteLatest, itemVars, Doing
<1>2. at[a].of \in Backups /\ receipts[at[a].of] # None
  BY <1>1 DEF IInv, Fits, BackupFits
<1>3. at'[a] = Idle /\ \A c \in Actors \ {a} : at'[c] = at[c]
  BY <1>1 DEF IInv, Types
<1>4. Frame(a, {})
  BY <1>1, <1>3 DEF Frame, restVars
<1>5. Types'
  BY <1>1, IdleType DEF IInv, Types, restVars
<1>6. Fits(a)'
  BY <1>3, IdleType DEF Fits, BackupFits, RestoreFits, IdleFits
<1>7. LatestHasReceipt' /\ latest' \in Backups
  BY <1>1, <1>2 DEF LatestHasReceipt
<1>8. RemoteFits' /\ Delivered'
  BY <1>1 DEF IInv, RemoteFits, Delivered, RestoreExact, Touched, restVars, FirstAsset
<1> QED BY <1>3, <1>4, <1>5, <1>6, <1>7, <1>8, IdleType, StepInv

(***************************************************************************)
(* Restorations.                                                           *)
(***************************************************************************)
\* A restoration moves on without having unpacked anything.
LEMMA RestoreMoveInv ==
  ASSUME IInv, NEW a \in Actors, NEW j \in Job, at' = [at EXCEPT ![a] = j],
         at[a].job = "restore", j.job = "restore", j.of = at[a].of, j.n = at[a].n,
         j.ids = at[a].ids, j.staged = at[a].staged, j.pc \in {"cipher", "download"}, at[a].n <= 2,
         UNCHANGED <<live, removed, backupVars, restVars>>
  PROVE  IInv'
<1>1. at'[a] = j /\ receipts' = receipts
  BY DEF IInv, Types, backupVars
<1>2. RestoreFits(a)
  BY DEF IInv, Fits
<1>3. Fits(a)'
  BY <1>1, <1>2 DEF Fits, BackupFits, RestoreFits, IdleFits, Receiving
<1> QED BY <1>3, MoveInv

LEMMA StartRestoreInv ==
  ASSUME IInv, NEW a \in Actors, NEW b \in Backups, StartRestore(a, b) PROVE IInv'
<1> DEFINE h == [Idle EXCEPT !.job = "restore"]
           i == [h EXCEPT !.pc = "outer"]
           j == [i EXCEPT !.of = b]
<1>1. at' = [at EXCEPT ![a] = j] /\ UNCHANGED <<live, removed, backupVars, restVars>> /\ receipts[b] # None
  BY DEF StartRestore, itemVars
<1>2. h \in Job /\ h.job = "restore" /\ h.ids = <<>> /\ h.staged = <<>> /\ h.n = 1
  BY IdleType DEF Job, Idle
<1> HIDE DEF h
<1>3. i \in Job /\ i.job = "restore" /\ i.pc = "outer" /\ i.ids = <<>> /\ i.staged = <<>> /\ i.n = 1
  BY <1>2 DEF Job, Receiving
<1> HIDE DEF i
<1>4. j \in Job /\ j.job = "restore" /\ j.pc = "outer" /\ j.of = b /\ j.ids = <<>>
      /\ j.staged = <<>> /\ j.n = 1
  BY <1>3 DEF Job
<1> HIDE DEF j
<1>5. at'[a] = j /\ receipts' = receipts
  BY <1>1 DEF IInv, Types, backupVars
<1>6. Len(at'[a].staged) = 0
  BY <1>4, <1>5
<1>7. Fits(a)'
  BY <1>1, <1>4, <1>5, <1>6 DEF Fits, BackupFits, RestoreFits, IdleFits, Receiving
<1> QED BY <1>1, <1>4, <1>7, MoveInv

LEMMA LoadOuterInv == ASSUME IInv, NEW a \in Actors, LoadOuter(a) PROVE IInv'
<1> DEFINE j == [at[a] EXCEPT !.pc = "cipher"]
<1>1. at[a].job = "restore" /\ at' = [at EXCEPT ![a] = j] /\ at[a] \in Job /\ at[a].n <= 2
      /\ UNCHANGED <<live, removed, backupVars, restVars>>
  BY Static DEF LoadOuter, itemVars, Doing, GoTo, IInv, Types
<1>2. j \in Job /\ j.job = "restore" /\ j.of = at[a].of /\ j.n = at[a].n /\ j.ids = at[a].ids
      /\ j.staged = at[a].staged /\ j.pc = "cipher"
  BY <1>1 DEF Job, Receiving
<1> HIDE DEF j
<1> QED BY <1>1, <1>2, RestoreMoveInv

LEMMA InspectCipherInv == ASSUME IInv, NEW a \in Actors, InspectCipher(a) PROVE IInv'
<1> DEFINE j == [at[a] EXCEPT !.pc = "download"]
<1>1. at[a].job = "restore" /\ at[a].pc = "cipher" /\ at' = [at EXCEPT ![a] = j] /\ at[a] \in Job
      /\ UNCHANGED <<live, removed, backupVars, restVars>>
  BY DEF InspectCipher, itemVars, Doing, GoTo, IInv, Types
<1>2. j \in Job /\ j.job = "restore" /\ j.of = at[a].of /\ j.n = at[a].n /\ j.ids = at[a].ids
      /\ j.staged = at[a].staged /\ j.pc = "download"
  BY <1>1 DEF Job, Receiving
<1>3. at[a].n <= 2
  BY <1>1 DEF IInv, Fits, RestoreFits
<1> HIDE DEF j
<1> QED BY <1>1, <1>2, <1>3, RestoreMoveInv

LEMMA ExtractInv == ASSUME IInv, NEW a \in Actors, Extract(a) PROVE IInv'
<1>1. PICK data \in Ciphers :
        /\ data = Wanted(a)
        /\ at' = [at EXCEPT ![a].staged = Append(@, data), ![a].n = @ + 1, ![a].pc = "outer"]
  BY DEF Extract, itemVars, Genuine
<1>2. at[a].job = "restore" /\ at[a].pc = "download" /\ at[a] \in Job
      /\ UNCHANGED <<live, removed, backupVars, restVars>>
  BY DEF Extract, itemVars, Doing, IInv, Types
<1>3. RestoreFits(a) /\ at[a].n <= 2 /\ Len(at[a].staged) = at[a].n - 1
  BY <1>2 DEF IInv, Fits, RestoreFits
<1>4. at[a].n \in 1 .. 2 /\ at[a].staged \in Seq(Ciphers)
  BY <1>2, <1>3 DEF Job
<1> DEFINE s == Append(at[a].staged, data)
           h == [at[a] EXCEPT !.staged = s]
           i == [h EXCEPT !.n = at[a].n + 1]
           j == [i EXCEPT !.pc = "outer"]
<1>5. at' = [at EXCEPT ![a] = j]
  BY <1>1
<1>6. s \in Seq(Ciphers) /\ Len(s) = at[a].n /\ s[at[a].n] = data
      /\ \A k \in 1 .. at[a].n - 1 : s[k] = at[a].staged[k]
  BY <1>1, <1>3, <1>4
<1> HIDE DEF s
<1>7. h \in Job /\ h.job = "restore" /\ h.of = at[a].of /\ h.ids = at[a].ids /\ h.staged = s
  BY <1>2, <1>6 DEF Job
<1> HIDE DEF h
<1>8. i \in Job /\ i.job = "restore" /\ i.of = at[a].of /\ i.ids = at[a].ids /\ i.staged = s
      /\ i.n = at[a].n + 1
  BY <1>4, <1>7 DEF Job
<1> HIDE DEF i
<1>9. j \in Job /\ j.job = "restore" /\ j.of = at[a].of /\ j.ids = at[a].ids /\ j.staged = s
      /\ j.n = at[a].n + 1 /\ j.pc = "outer"
  BY <1>8 DEF Job, Receiving
<1> HIDE DEF j
<1>10. at'[a] = j /\ receipts' = receipts
  BY <1>2, <1>5 DEF IInv, Types, backupVars
<1>11. \A k \in 1 .. at[a].n : s[k] = [of |-> at[a].of, set |-> Sets[k]]
  <2> TAKE k \in 1 .. at[a].n
  <2>1. CASE k = at[a].n
    BY <1>1, <1>6, <2>1 DEF Wanted
  <2>2. CASE k # at[a].n
    <3>1. k \in 1 .. at[a].n - 1
      BY <1>4, <2>2
    <3>2. k \in 1 .. Len(at[a].staged)
      BY <1>3, <3>1
    <3> QED BY <1>2, <1>3, <1>6, <3>1, <3>2 DEF RestoreFits
  <2> QED BY <2>1, <2>2
<1>12. RestoreFits(a)'
  <2>1. Len(j.staged) = j.n - 1 /\ j.n <= 3
    BY <1>4, <1>6, <1>9
  <2>2. \A k \in 1 .. Len(j.staged) : j.staged[k] = [of |-> j.of, set |-> Sets[k]]
    BY <1>6, <1>9, <1>11
  <2>3. at[a].of \in Backups /\ receipts[at[a].of] # None /\ at[a].ids = <<>>
    BY <1>2, <1>3 DEF RestoreFits
  <2> QED BY <1>9, <1>10, <2>1, <2>2, <2>3 DEF RestoreFits, Receiving
<1>13. Fits(a)'
  BY <1>9, <1>10, <1>12 DEF Fits, BackupFits, IdleFits
<1> QED BY <1>2, <1>5, <1>9, <1>13, MoveInv

LEMMA ClearDestinationInv == ASSUME IInv, NEW a \in Actors, ClearDestination(a) PROVE IInv'
<1> DEFINE j == [at[a] EXCEPT !.pc = "move"]
<1>1. at[a].job = "restore" /\ at' = [at EXCEPT ![a] = j] /\ at[a] \in Job /\ at[a].n > 2
      /\ UNCHANGED <<live, removed, backupVars, restVars>>
  BY Static DEF ClearDestination, itemVars, Doing, GoTo, IInv, Types
<1>2. j \in Job /\ j.job = "restore" /\ j.of = at[a].of /\ j.n = at[a].n /\ j.ids = at[a].ids
      /\ j.staged = at[a].staged /\ j.pc = "move"
  BY <1>1 DEF Job, Receiving
<1> HIDE DEF j
<1>3. at'[a] = j /\ receipts' = receipts
  BY <1>1 DEF IInv, Types, backupVars
<1>4. RestoreFits(a)
  BY DEF IInv, Fits
<1>5. at[a].n = 3
  <2>1. at[a].n \in 1 .. 5 /\ at[a].n <= 3
    BY <1>1, <1>4 DEF RestoreFits, Job
  <2> QED BY <1>1, <2>1
<1>6. Fits(a)'
  BY <1>1, <1>2, <1>3, <1>4, <1>5 DEF Fits, BackupFits, RestoreFits, IdleFits, Receiving
<1> QED BY <1>1, <1>2, <1>6, MoveInv

\* What a restoration has unpacked when it moves it is what the backup held.
LEMMA UnpackedAll ==
  ASSUME IInv, NEW a \in Actors, at[a].job = "restore", at[a].pc \in {"move", "copying"}
  PROVE  /\ at[a].of \in Backups /\ receipts[at[a].of] # None
         /\ \A i \in Items : Unpacked(at[a].staged)[i] = work[at[a].of].archive[i]
<1>1. RestoreFits(a) /\ at[a].of \in Backups /\ receipts[at[a].of] # None
  BY DEF IInv, Fits, RestoreFits
<1>0. at[a].staged \in Seq(Ciphers)
  BY DEF IInv, Types, Job
<1>2. at[a].n = 3 /\ Len(at[a].staged) = 2
  <2>1. at[a].n = 3 /\ Len(at[a].staged) = at[a].n - 1
    BY <1>1 DEF RestoreFits
  <2> QED BY <2>1
<1>3. \A k \in 1 .. 2 : at[a].staged[k] = [of |-> at[a].of, set |-> Sets[k]]
  BY <1>1, <1>2 DEF RestoreFits
<1>4. \A i \in Items : Unpacked(at[a].staged)[i] = work[at[a].of].archive[i]
  <2> TAKE i \in Items
  <2> DEFINE from == {k \in 1 .. Len(at[a].staged) : at[a].staged[k].set = SetOf(i)}
  <2>1. \E k \in 1 .. 2 : k \in from
    BY <1>2, <1>3, Static DEF SetOf
  <2>2. from # {} /\ from \subseteq 1 .. 2
    BY <1>2, <2>1
  <2>3. Unpacked(at[a].staged)[i] = work[at[a].staged[CHOOSE k \in from : TRUE].of].archive[i]
    BY <2>2 DEF Unpacked
  <2>4. (CHOOSE k \in from : TRUE) \in from
    BY <2>2
  <2>5. PICK h \in 1 .. 2 : h = CHOOSE k \in from : TRUE
    BY <2>2, <2>4
  <2>6. at[a].staged[h].of = at[a].of
    BY <1>3
  <2> HIDE DEF from
  <2> QED BY <2>3, <2>5, <2>6
<1> QED BY <1>1, <1>4

\* A step of the last phase, which changes the destination only.
LEMMA DeliverInv ==
  ASSUME IInv, NEW a \in Actors, NEW j \in Job, at' = [at EXCEPT ![a] = j],
         at[a].job = "restore", UNCHANGED <<live, removed, backupVars, tampered>>,
         j = Idle \/ (j.job = "restore" /\ Fits(a)'),
         reported' \in {reported, reported \cup {at[a].of}},
         \A c \in Actors \ {a} : at[c].pc = "copying" =>
           restored' = restored /\ (crowded' \/ UNCHANGED <<reported, crowded>>),
         j.pc = "copying" => \A c \in Actors \ {a} : at[c].pc # "copying",
         Delivered'
  PROVE  IInv'
<1>1. at'[a] = j /\ \A c \in Actors \ {a} : at'[c] = at[c]
  BY DEF IInv, Types
<1>2. Frame(a, {})
  BY <1>1 DEF Frame, backupVars
<1>3. at[a].of \in Backups
  BY DEF IInv, Fits, RestoreFits
<1>4. Types'
  BY <1>3 DEF IInv, Types, backupVars
<1>5. Fits(a)'
  <2>1. CASE j = Idle
    BY <1>1, <2>1, IdleType DEF Fits, BackupFits, RestoreFits, IdleFits
  <2> QED BY <2>1
<1>6. j.job # "backup"
  BY IdleType
<1>7. RemoteFits' /\ LatestHasReceipt' /\ (latest' # None => latest' \in Backups)
  BY DEF IInv, RemoteFits, LatestHasReceipt, Touched, backupVars, FirstAsset
<1> QED BY <1>1, <1>2, <1>4, <1>5, <1>6, <1>7, StepInv

\* While the destination does not exist, nobody copies to it.
LEMMA NobodyCopies ==
  ASSUME IInv, restored.of = None PROVE reported = {} /\ \A c \in Actors : at[c].pc # "copying"
<1>1. ASSUME NEW c \in Actors, at[c].pc = "copying" PROVE FALSE
  <2>1. Fits(c) /\ at[c] \in Job
    BY DEF IInv, Types
  <2>2. at[c].job = "restore"
    BY <1>1, <2>1 DEF Job, Fits, BackupFits, IdleFits, Early, Sending
  <2> QED BY <1>1, <2>1, <2>2 DEF Fits, RestoreFits, Holding
<1> QED BY <1>1 DEF IInv, Delivered

LEMMA RenameInv == ASSUME IInv, NEW a \in Actors, Rename(a) PROVE IInv'
<1>1. at[a].job = "restore" /\ at[a].pc = "move" /\ at' = [at EXCEPT ![a] = Idle] /\ restored.of = None
      /\ UNCHANGED <<live, removed, backupVars, crowded, tampered>>
      /\ reported' = reported \cup {at[a].of}
      /\ restored' = [of |-> at[a].of, content |-> Unpacked(at[a].staged)]
  BY DEF Rename, Report, itemVars, Doing
<1>2. reported = {} /\ \A c \in Actors : at[c].pc # "copying"
  BY <1>1, NobodyCopies
<1>3. at[a].of \in Backups /\ receipts' = receipts /\ receipts[at[a].of] # None /\ work' = work
      /\ \A i \in Items : Unpacked(at[a].staged)[i] = work[at[a].of].archive[i]
  BY <1>1, UnpackedAll DEF backupVars
<1>4. Delivered'
  BY <1>1, <1>2, <1>3, NoneIsNothing DEF Delivered, RestoreExact
<1> QED BY <1>1, <1>2, <1>4, IdleType, DeliverInv

LEMMA BeginCopyInv == ASSUME IInv, NEW a \in Actors, BeginCopy(a) PROVE IInv'
<1> DEFINE j == [at[a] EXCEPT !.pc = "copying"]
<1>1. at[a].job = "restore" /\ at[a].pc = "move" /\ at' = [at EXCEPT ![a] = j] /\ restored.of = None
      /\ UNCHANGED <<live, removed, backupVars, reported, crowded, tampered>> /\ at[a] \in Job
      /\ restored' = [of |-> at[a].of, content |-> [i \in Items |-> None]]
  BY DEF BeginCopy, GoTo, itemVars, Doing, IInv, Types
<1>2. reported = {} /\ \A c \in Actors : at[c].pc # "copying"
  BY <1>1, NobodyCopies
<1>3. at[a].of \in Backups /\ receipts' = receipts /\ receipts[at[a].of] # None /\ RestoreFits(a)
  BY <1>1, UnpackedAll DEF backupVars, IInv, Fits
<1>4. j \in Job /\ j.job = "restore" /\ j.of = at[a].of /\ j.n = at[a].n /\ j.ids = at[a].ids
      /\ j.staged = at[a].staged /\ j.pc = "copying"
  BY <1>1 DEF Job, Receiving
<1> HIDE DEF j
<1>5. Delivered'
  BY <1>1, <1>2, <1>3, NoneIsNothing DEF Delivered, RestoreExact
<1>6. at'[a] = j
  BY <1>1 DEF IInv, Types
<1>7. restored'.of # None /\ restored'.of = at[a].of
  BY <1>1, <1>3, NoneIsNothing
<1>8. Holding(a)'
  BY <1>1, <1>2, <1>4, <1>6, <1>7 DEF Holding
<1>9. Fits(a)'
  BY <1>1, <1>3, <1>4, <1>6, <1>8 DEF Fits, BackupFits, RestoreFits, IdleFits, Receiving
<1> QED BY <1>1, <1>2, <1>4, <1>5, <1>9, DeliverInv

LEMMA EndCopyInv == ASSUME IInv, NEW a \in Actors, EndCopy(a) PROVE IInv'
<1>1. at[a].job = "restore" /\ at[a].pc = "copying" /\ at' = [at EXCEPT ![a] = Idle]
      /\ UNCHANGED <<live, removed, backupVars, crowded, tampered>>
      /\ reported' = reported \cup {at[a].of}
      /\ restored' = [of |-> at[a].of, content |-> Unpacked(at[a].staged)]
  BY DEF EndCopy, Report, itemVars, Doing
<1>2. (~crowded => reported = {}) /\ \A c \in Actors \ {a} : at[c].pc # "copying"
  BY <1>1 DEF IInv, Fits, RestoreFits, Holding, Sole
<1>3. at[a].of \in Backups /\ receipts' = receipts /\ receipts[at[a].of] # None /\ work' = work
      /\ \A i \in Items : Unpacked(at[a].staged)[i] = work[at[a].of].archive[i]
  BY <1>1, UnpackedAll DEF backupVars
<1>4. Delivered'
  BY <1>1, <1>2, <1>3, NoneIsNothing DEF Delivered, RestoreExact
<1> QED BY <1>1, <1>2, <1>4, IdleType, DeliverInv

LEMMA MoveInsideInv == ASSUME IInv, NEW a \in Actors, MoveInside(a) PROVE IInv'
<1>1. at[a].job = "restore" /\ at' = [at EXCEPT ![a] = Idle] /\ restored.of # None /\ crowded'
      /\ UNCHANGED <<live, removed, backupVars, restored, tampered>>
      /\ reported' = reported \cup {at[a].of}
  BY DEF MoveInside, Report, itemVars, Doing
<1>2. Delivered'
  BY <1>1 DEF IInv, Delivered, RestoreExact, backupVars
<1> QED BY <1>1, <1>2, IdleType, DeliverInv

(***************************************************************************)
(* Failures, changes and interference.                                     *)
(***************************************************************************)
LEMMA FailInv == ASSUME IInv, NEW a \in Actors, Fail(a) PROVE IInv'
<1>1. at' = [at EXCEPT ![a] = Idle] /\ UNCHANGED <<live, removed, remote, receipts, latest, restVars>>
      /\ work' = IF at[a].job = "backup" /\ receipts[at[a].of] = None
                 THEN [work EXCEPT ![at[a].of] = Unused] ELSE work
  BY DEF Fail, itemVars
<1>2. at'[a] = Idle /\ \A c \in Actors \ {a} : at'[c] = at[c]
  BY <1>1 DEF IInv, Types
<1>3. Fits(a)'
  BY <1>2, IdleType DEF Fits, BackupFits, RestoreFits, IdleFits
<1>4. RemoteFits'
  BY <1>1 DEF IInv, RemoteFits, Touched, restVars
<1>5. CASE at[a].job = "backup" /\ receipts[at[a].of] = None
  <2>1. at[a].pc # "latest"
    BY <1>5 DEF IInv, Fits, BackupFits
  <2>2. PICK b \in Backups : b = at[a].of
    BY <1>5, <2>1, Owner
  <2>3. \A c \in Actors \ {a} : at[c].job = "backup" => at[c].of # b
    BY <1>5, <2>1, <2>2, Owner
  <2>4. Unused \in Work
    BY DEF Unused, Work
  <2>5. work' = [work EXCEPT ![b] = Unused] /\ work'[b] = Unused
        /\ \A d \in Backups \ {b} : work'[d] = work[d]
    BY <1>1, <1>5, <2>2 DEF IInv, Types
  <2>6. Frame(a, {b})
    BY <1>1, <1>2, <1>5, <2>2, <2>3, <2>5 DEF Frame, restVars
  <2>7. Types'
    BY <1>1, <2>4, <2>5, IdleType DEF IInv, Types, restVars
  <2>8. AgeFits(b)' /\ ReceiptFits(b)'
    BY <1>1, <1>5, <2>2, <2>5 DEF AgeFits, ReceiptFits, Unused
  <2> QED BY <1>1, <1>2, <1>3, <1>4, <2>6, <2>7, <2>8, IdleType, KeepInv DEF restVars
<1>6. CASE ~(at[a].job = "backup" /\ receipts[at[a].of] = None)
  <2>1. UNCHANGED <<live, removed, backupVars, restVars>>
    BY <1>1, <1>6 DEF backupVars
  <2> QED BY <1>1, <1>3, <2>1, IdleType, MoveInv
<1> QED BY <1>5, <1>6

LEMMA EditInv == ASSUME IInv, NEW i \in Items, Edit(i) PROVE IInv'
<1>1. live[i] = FirstVersion(i) /\ live' = [live EXCEPT ![i] = @ + 1] /\ i \notin removed
      /\ UNCHANGED <<removed, at, backupVars, restVars>>
  BY DEF Edit
<1>2. live' \in [Items -> Versions] /\ (\A k \in Items : live[k] <= live'[k])
      /\ \A k \in Items \ {i} : live'[k] = live[k]
  BY <1>1, Static DEF IInv, Types, Versions
<1>3. Types'
  BY <1>1, <1>2, Static DEF IInv, Types, backupVars, restVars
<1>4. ASSUME NEW b \in Backups PROVE AgeFits(b)' /\ ReceiptFits(b)'
  <2>1. work' = work /\ receipts' = receipts /\ remote' = remote /\ tampered' = tampered
        /\ removed' = removed
    BY <1>1 DEF backupVars, restVars
  <2>2. work[b].since # None => \A k \in Items \ removed : work[b].since[k] <= live'[k]
    <3> SUFFICES ASSUME work[b].since # None, NEW k \in Items \ removed
                 PROVE  work[b].since[k] <= live'[k]
      OBVIOUS
    <3>1. work[b].since[k] \in Versions /\ live[k] \in Versions /\ live'[k] \in Versions
      BY <1>2 DEF IInv, Types, Work
    <3>2. work[b].since[k] <= live[k]
      BY DEF IInv, AgeFits
    <3> QED BY <1>2, <3>1, <3>2 DEF Versions
  <2>3. AgeFits(b)'
    BY <2>1, <2>2 DEF IInv, AgeFits
  <2>4. ReceiptFits(b)'
    BY <2>1 DEF IInv, ReceiptFits, AsInventoried, Inventory, Complete, Touched, Upto
  <2> QED BY <2>3, <2>4
<1>5. \A a \in Actors : Fits(a)'
  <2> TAKE a \in Actors
  <2>1. Fits(a)
    BY DEF IInv
  <2> QED BY <1>1, <2>1
      DEF Fits, BackupFits, RestoreFits, IdleFits, Packed, Sent, Hashed, AsInventoried, Inventory,
          Complete, Touched, Upto, Holding, backupVars, restVars
<1>6. Sole' /\ RemoteFits' /\ LatestHasReceipt' /\ Delivered' /\ (latest' # None => latest' \in Backups)
  BY <1>1 DEF IInv, Sole, RemoteFits, LatestHasReceipt, Delivered, RestoreExact, Touched, FirstAsset,
              backupVars, restVars
<1> QED BY <1>3, <1>4, <1>5, <1>6 DEF IInv

LEMMA RemoveInv == ASSUME IInv, NEW p \in Paths, Remove(p) PROVE IInv'
<1>1. live' = [live EXCEPT ![p] = 0] /\ removed' = removed \cup {p}
      /\ UNCHANGED <<at, remote, receipts, latest, restVars>>
  BY DEF Remove
<1>2. live' \in [Items -> Versions] /\ live'[p] = 0 /\ \A k \in Items \ {p} : live'[k] = live[k]
  BY <1>1, Static DEF IInv, Types, Versions
<1>3. ASSUME NEW b \in Backups
      PROVE  /\ work'[b] \in Work
             /\ work'[b].since = work[b].since /\ work'[b].inventory = work[b].inventory
             /\ work'[b].archive = work[b].archive /\ work[b].lost \subseteq work'[b].lost
             /\ work[b].since # None /\ work[b].inventory[p] = None => p \in work'[b].lost
  <2> DEFINE w == [work[b] EXCEPT !.lost = @ \cup {p}]
  <2>1. work[b] \in Work
    BY DEF IInv, Types
  <2>2. w \in Work /\ w.since = work[b].since /\ w.inventory = work[b].inventory
        /\ w.archive = work[b].archive /\ w.lost = work[b].lost \cup {p}
    BY <2>1 DEF Work
  <2>3. work'[b] = IF work[b].since # None /\ work[b].inventory[p] = None THEN w ELSE work[b]
    BY DEF Remove
  <2> HIDE DEF w
  <2> QED BY <2>1, <2>2, <2>3
<1>4. work' \in [Backups -> Work]
  <2>1. DOMAIN work' = Backups /\ work' = [b \in Backups |-> work'[b]]
    BY DEF Remove
  <2> QED BY <1>3, <2>1
<1>5. Types'
  BY <1>1, <1>2, <1>4, Static DEF IInv, Types, restVars
<1>6. ASSUME NEW b \in Backups PROVE Complete(b) => Complete(b)'
  BY <1>3 DEF Complete
<1>7. ASSUME NEW b \in Backups PROVE AsInventoried(b)' <=> AsInventoried(b)
  BY <1>3 DEF AsInventoried, Inventory
<1>8. ASSUME NEW b \in Backups PROVE AgeFits(b)' /\ ReceiptFits(b)'
  <2>1. AgeFits(b) /\ ReceiptFits(b)
    BY DEF IInv
  <2>2. AgeFits(b)'
    BY <1>1, <1>2, <1>3, <2>1 DEF AgeFits
  <2>3. ReceiptFits(b)'
    BY <1>1, <1>3, <1>6, <1>7, <2>1 DEF ReceiptFits, Touched, Upto, restVars
  <2> QED BY <2>2, <2>3
<1>9. ASSUME NEW a \in Actors PROVE Fits(a)'
  <2>1. Fits(a) /\ at' = at
    BY <1>1 DEF IInv
  <2>2. BackupFits(a)'
    <3> SUFFICES ASSUME at[a].job = "backup" PROVE BackupFits(a)'
      BY <2>1 DEF BackupFits
    <3>1. PICK b \in Backups : b = at[a].of
      BY <2>1 DEF Fits, BackupFits
    <3>2. Packed(a)'
      BY <1>3, <1>6, <1>7, <2>1, <3>1 DEF Fits, BackupFits, Packed, Hashed
    <3>3. Sent(a)'
      BY <1>1, <2>1 DEF Fits, BackupFits, Sent, Touched, Upto, restVars
    <3> QED BY <1>1, <1>3, <2>1, <3>1, <3>2, <3>3 DEF Fits, BackupFits
  <2>3. RestoreFits(a)' /\ IdleFits(a)'
    BY <1>1, <2>1 DEF Fits, RestoreFits, IdleFits, Holding, restVars
  <2> QED BY <2>2, <2>3 DEF Fits
<1>10. Sole' /\ RemoteFits' /\ LatestHasReceipt' /\ (latest' # None => latest' \in Backups)
  BY <1>1 DEF IInv, Sole, RemoteFits, LatestHasReceipt, Touched, FirstAsset, restVars
<1>11. Delivered'
  BY <1>1, <1>3 DEF IInv, Delivered, RestoreExact, restVars
<1> QED BY <1>5, <1>8, <1>9, <1>10, <1>11 DEF IInv

LEMMA TamperInv == ASSUME IInv, NEW m \in Names, Tamper(m) PROVE IInv'
<1>1. remote[m] # None /\ m \notin tampered /\ tampered' = tampered \cup {m}
      /\ UNCHANGED <<live, removed, at, work, receipts, latest, restored, reported, crowded>>
  BY DEF Tamper, itemVars
<1>2. PICK x \in Assets \cup {None} : remote' = [remote EXCEPT ![m] = x]
  <2>1. CASE remote' = [remote EXCEPT ![m] = None]
    BY <2>1
  <2>2. CASE \E data \in {Damaged} \cup {remote[k].data : k \in {j \in Names : remote[j] # None /\ j.kind = m.kind}} :
               remote' = [remote EXCEPT ![m] = [id |-> @.id + 1, data |-> data]]
    <3>1. PICK data \in {Damaged} \cup {remote[k].data : k \in {j \in Names : remote[j] # None /\ j.kind = m.kind}} :
            remote' = [remote EXCEPT ![m] = [id |-> remote[m].id + 1, data |-> data]]
      BY <2>2
    <3>2. remote[m].id = 1
      BY <1>1 DEF IInv, RemoteFits
    <3>3. data \in Ciphers \cup Outers \cup {Damaged}
      BY <3>1 DEF IInv, Types, Assets
    <3>4. [id |-> remote[m].id + 1, data |-> data] \in Assets
      BY <3>2, <3>3 DEF Assets, Ids
    <3> QED BY <3>1, <3>4
  <2> QED BY <2>1, <2>2 DEF Tamper, itemVars
<1>3. \A k \in Names \ {m} : remote'[k] = remote[k]
  BY <1>2 DEF IInv, Types
<1>4. Types'
  BY <1>1, <1>2 DEF IInv, Types
<1>5. Touched(m.of)' /\ \A b : Touched(b) => Touched(b)'
  BY <1>1 DEF Touched
<1>6. ASSUME NEW b \in Backups, NEW k \in 0 .. 4, Upto(b, k), b # m.of
      PROVE  Upto(b, k)'
  <2> SUFFICES ASSUME NEW j \in 1 .. k
               PROVE  remote'[[of |-> b, set |-> Uploads[j].set, kind |-> Uploads[j].kind]] # None
    BY DEF Upto
  <2>1. [of |-> b, set |-> Uploads[j].set, kind |-> Uploads[j].kind] \in Names \ {m}
    BY <1>6, Static DEF Names, SetNames
  <2> QED BY <1>3, <1>6, <2>1 DEF Upto
<1>7. RemoteFits'
  BY <1>1, <1>3, <1>5 DEF IInv, RemoteFits, FirstAsset
<1>8. ASSUME NEW b \in Backups PROVE AgeFits(b)' /\ ReceiptFits(b)'
  <2>1. AgeFits(b)' /\ (AsInventoried(b)' <=> AsInventoried(b)) /\ (Complete(b)' <=> Complete(b))
    BY <1>1 DEF IInv, AgeFits, AsInventoried, Inventory, Complete
  <2>2. ReceiptFits(b) /\ (~Touched(b)' => ~Touched(b) /\ b # m.of)
    BY <1>5 DEF IInv
  <2> QED BY <1>1, <1>6, <2>1, <2>2 DEF ReceiptFits
<1>9. ASSUME NEW a \in Actors PROVE Fits(a)'
  <2>1. Fits(a) /\ at' = at
    BY <1>1 DEF IInv
  <2>2. BackupFits(a)'
    <3> SUFFICES ASSUME at[a].job = "backup" PROVE BackupFits(a)'
      BY <2>1 DEF BackupFits
    <3>1. Packed(a)'
      BY <1>1, <2>1 DEF Fits, BackupFits, Packed, Hashed, AsInventoried, Inventory, Complete
    <3>2. PICK b \in Backups : b = at[a].of
      BY <2>1 DEF Fits, BackupFits
    <3>3. Sent(a)
      BY <2>1 DEF Fits, BackupFits
    <3>4. PICK k \in 0 .. 4 : k = Len(at[a].ids)
      BY <2>1, <3>3, IdsLength DEF IInv, Fits, BackupFits
    <3>5. ~Touched(b)' => ~Touched(b) /\ Upto(b, k)'
      BY <1>5, <1>6, <3>2, <3>3, <3>4 DEF Sent
    <3>6. Sent(a)'
      BY <2>1, <3>2, <3>3, <3>4, <3>5 DEF Sent, Upto
    <3> QED BY <1>1, <2>1, <3>1, <3>6 DEF Fits, BackupFits
  <2>3. RestoreFits(a)' /\ IdleFits(a)'
    BY <1>1, <2>1 DEF Fits, RestoreFits, IdleFits, Holding
  <2> QED BY <2>2, <2>3 DEF Fits
<1>10. Sole' /\ LatestHasReceipt' /\ Delivered' /\ (latest' # None => latest' \in Backups)
  BY <1>1 DEF IInv, Sole, LatestHasReceipt, Delivered, RestoreExact
<1> QED BY <1>4, <1>7, <1>8, <1>9, <1>10 DEF IInv

(***************************************************************************)
(* The theorems.                                                           *)
(***************************************************************************)
LEMMA StutterInv == ASSUME IInv, UNCHANGED vars PROVE IInv'
<1>1. Types' /\ Sole' /\ RemoteFits'
  BY DEF IInv, Types, Sole, RemoteFits, Touched, FirstAsset, restVars, backupVars, itemVars, vars
<1>2. \A a \in Actors : Fits(a)'
  <2> TAKE a \in Actors
  <2>1. Fits(a)
    BY DEF IInv
  <2> QED BY <2>1
      DEF Fits, BackupFits, RestoreFits, IdleFits, Packed, Sent, Hashed, AsInventoried, Inventory,
          Complete, Touched, Upto, Holding, restVars, backupVars, itemVars, vars
<1>3. \A b \in Backups : AgeFits(b)' /\ ReceiptFits(b)'
  <2> TAKE b \in Backups
  <2>1. AgeFits(b) /\ ReceiptFits(b)
    BY DEF IInv
  <2> QED BY <2>1 DEF AgeFits, ReceiptFits, AsInventoried, Inventory, Complete, Touched, Upto, restVars, backupVars, itemVars,
            vars
<1>4. LatestHasReceipt' /\ Delivered' /\ (latest' # None => latest' \in Backups)
  BY DEF IInv, LatestHasReceipt, Delivered, RestoreExact, restVars, backupVars, vars
<1> QED BY <1>1, <1>2, <1>3, <1>4 DEF IInv

LEMMA NextInv == ASSUME IInv, Next PROVE IInv'
<1>1. CASE \E a \in Actors : Archive(a)
  BY <1>1, StartBackupInv, HashAssetInv, PackAssetInv, PreflightInv, ReadVersionInv,
     CopyCandidatesInv, CopyOperationsInv, CheckArchivesInv DEF Archive
<1>2. CASE \E a \in Actors : Upload(a)
  BY <1>2, PutInv, LookInv, InspectInv, WriteReceiptInv, WriteLatestInv DEF Upload
<1>3. CASE \E a \in Actors : Restore(a)
  BY <1>3, StartRestoreInv, LoadOuterInv, InspectCipherInv, ExtractInv,
     ClearDestinationInv, RenameInv, BeginCopyInv, EndCopyInv, MoveInsideInv DEF Restore
<1>4. CASE \E a \in Actors : Fail(a)
  BY <1>4, FailInv
<1>5. CASE \E i \in Items : Edit(i)
  BY <1>5, EditInv
<1>6. CASE \E m \in Names : Tamper(m)
  BY <1>6, TamperInv
<1>7. CASE \E p \in Paths : Remove(p)
  BY <1>7, RemoveInv
<1> QED BY <1>1, <1>2, <1>3, <1>4, <1>5, <1>6, <1>7 DEF Next

LEMMA Inductive == Spec => []IInv
<1>1. IInv /\ [Next]_vars => IInv'
  BY NextInv, StutterInv
<1> QED BY <1>1, InitInv, PTL DEF Spec

LEMMA InvImpliesRestorable == IInv => ReceiptsRestorable
<1> SUFFICES ASSUME IInv, NEW b \in Backups, receipts[b] # None, ~Touched(b), NEW s \in SetNames
             PROVE  /\ remote[[of |-> b, set |-> s, kind |-> "cipher"]] =
                         [id |-> receipts[b][s], data |-> [of |-> b, set |-> s]]
                    /\ remote[[of |-> b, set |-> s, kind |-> "outer"]] # None
                    /\ remote[[of |-> b, set |-> s, kind |-> "outer"]].data =
                         [cipher |-> [of |-> b, set |-> s], id |-> receipts[b][s]]
                    /\ AsInventoried(b)
  BY DEF ReceiptsRestorable, Restorable
<1>1. receipts[b][s] = 1 /\ Upto(b, 4) /\ AsInventoried(b)
  BY DEF IInv, ReceiptFits
<1>2. ASSUME NEW k \in {"cipher", "outer"}
      PROVE  /\ [of |-> b, set |-> s, kind |-> k] \in Names
             /\ remote[[of |-> b, set |-> s, kind |-> k]] = FirstAsset([of |-> b, set |-> s, kind |-> k])
  <2> DEFINE m == [of |-> b, set |-> s, kind |-> k]
  <2>1. m \in Names /\ m.of = b
    BY DEF Names
  <2>2. PICK j \in 1 .. 4 : m = [of |-> b, set |-> Uploads[j].set, kind |-> Uploads[j].kind]
    BY <2>1, NamesOf
  <2>3. remote[m] # None
    BY <1>1, <2>2 DEF Upto
  <2> QED BY <2>1, <2>3 DEF IInv, RemoteFits
<1>3. FirstAsset([of |-> b, set |-> s, kind |-> "cipher"]) =
        [id |-> 1, data |-> [of |-> b, set |-> s]]
  BY DEF FirstAsset
<1>4. FirstAsset([of |-> b, set |-> s, kind |-> "outer"]).data =
        [cipher |-> [of |-> b, set |-> s], id |-> 1]
  BY DEF FirstAsset
<1>5. remote[[of |-> b, set |-> s, kind |-> "outer"]] # None
  BY <1>2, FirstAssetType
<1> QED BY <1>1, <1>2, <1>3, <1>4, <1>5

LEMMA InvImpliesAge == IInv => NothingOlder
<1> SUFFICES ASSUME IInv, NEW b \in Backups, receipts[b] # None,
                    NEW i \in Items, work[b].since[i] > 0
             PROVE  \/ work[b].archive[i] # None /\ work[b].archive[i] >= work[b].since[i]
                    \/ work[b].archive[i] = None /\ i \in work[b].lost
  BY DEF NothingOlder
<1>1. ReceiptFits(b)
  BY DEF IInv
<1> QED BY <1>1 DEF ReceiptFits, Complete

\* Every backup that has a receipt can be restored as long as nobody touches its remote
\* assets, for any number of backups, processes, failures and changes
\* (create_durable_backup, restore_durable_backup).
THEOREM BackupRestorable == Spec => []ReceiptsRestorable
<1> QED BY Inductive, InvImpliesRestorable, PTL

\* A backup holds nothing older than the moment its receipt names, and everything of that
\* moment but the assets that were removed before the inventory read them
\* (create_durable_backup, _asset_inventory).
THEOREM BackupFresh == Spec => []NothingOlder
<1> QED BY Inductive, InvImpliesAge, PTL

\* latest-success.json names a backup whose receipt exists (_atomic_json).
THEOREM BackupLatest == Spec => []LatestHasReceipt
<1>1. IInv => LatestHasReceipt
  BY DEF IInv
<1> QED BY <1>1, Inductive, PTL

\* What a restoration reports is exactly the content of the backup that was asked for,
\* whatever the remote assets had become, unless two restorations to one directory met
\* between the check of it and the move (restore_durable_backup).
THEOREM BackupExact == Spec => []RestoreExact
<1>1. IInv => RestoreExact
  BY DEF IInv, Delivered
<1> QED BY <1>1, Inductive, PTL
=============================================================================
