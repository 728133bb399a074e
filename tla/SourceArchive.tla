--------------------------- MODULE SourceArchive ---------------------------
(***************************************************************************)
(* Sources and their archived assets (services/ingestion.py, with          *)
(* web_source_workflows.py for the Web application).  A capture adds a     *)
(* version of what a page or a file holds, processing adds the text of the *)
(* latest version, and both rewrite the Source, which lists the assets.    *)
(*                                                                         *)
(* Every operation reads the repository first, does something slow (a      *)
(* download, the extraction of text), then reads the Source a second time  *)
(* and writes it with a FileTransaction, the Source before the assets.     *)
(* What it took from the first reading goes over what others have written  *)
(* since.  The Web application compares the files with those it has seen   *)
(* when it made the preview; the command line and the jobs do not.         *)
(*                                                                         *)
(* Each operation captures at a second of its own: its name is the name of *)
(* the version it adds.  New Sources do not compete for a number here      *)
(* (CandidateQueue and ResearchObjects have that race).  Dates are left    *)
(* out: confirming one writes the Source as it was read.                   *)
(***************************************************************************)
EXTENDS Naturals, FiniteSets, SequencesExt

CONSTANTS
  Sources,      \* Sources, by path
  Ops,          \* bound: operations, each started once
  Web,          \* those of the Web application; one process serves them all
  Pages,        \* what a capture may bring
  UrlOf,        \* its canonical URL, None for an uploaded file
  DigestOf,     \* the hash of its content
  Archived,     \* the Source with a processed version, if any; the others are new or registered
  First,        \* the version that it has
  Registered,   \* Sources that were drafted without a capture
  MaxAtWork,    \* bound: operations at work at the same time
  MaxFaults,    \* bound: failing calls and crashes
  None

Versions == Ops \cup {First}
Digests == {DigestOf[g] : g \in Pages}
Urls == {UrlOf[g] : g \in Pages}
Kinds == {"raw", "metadata", "text", "record"}

ASSUME ArchiveConstants ==
  /\ Web \subseteq Ops /\ First \notin Ops
  /\ Archived \cup Registered \subseteq Sources /\ Archived \cap Registered = {}
  /\ Pages # {} /\ \A s, t \in Archived : s = t
  /\ MaxAtWork \in Nat /\ MaxFaults \in Nat
  /\ None \notin Sources \cup Pages \cup Digests \cup Ops

VARIABLES
  doc,          \* the Sources
  archive,      \* the asset files that exist
  bytes,        \* the hash of each raw file
  plan,         \* what an operation has read and is going to write
  pc,           \* where it is
  published,    \* history: the versions captured of each Source and not taken back
  torn,         \* history: Sources of which a crash or a failing rollback left a part of a write
  overtaken,    \* history: Sources written or taken back by an operation that missed a write
  spoiled,      \* history: Sources whose archived text a failing call kept from being read
  rolledBack,   \* history: Sources with a write that was undone
  together,     \* history: captures of which one was published while the other was at work
  faults        \* failing calls and crashes so far

files == <<doc, archive, bytes>>
histories == <<published, torn, overtaken, spoiled, rolledBack, together>>
vars == <<files, plan, pc, histories, faults>>

(***************************************************************************)
(* asset_paths is kept as two lists: the versions whose raw file and       *)
(* metadata are listed, and those whose extracted text is.                 *)
(***************************************************************************)
Statuses == {"registered", "captured", "processed", "failed"}
Docs == [status: Statuses, captured: Seq(Versions), texts: Seq(Versions),
         digest: Digests \cup {None}, url: Urls \cup {None}, upstream: SUBSET Sources]

ASSUME NoneIsNoDoc == None \notin Docs

Draft == [status |-> "registered", captured |-> <<>>, texts |-> <<>>,
          digest |-> None, url |-> None, upstream |-> {}]
FirstDoc == [status |-> "processed", captured |-> <<First>>, texts |-> <<First>>,
             digest |-> CHOOSE d \in Digests : TRUE, url |-> None, upstream |-> {}]

Operations == {"add", "fetch", "process", "confirm"}
NoPlan == [op |-> None, src |-> None, page |-> None, seen |-> None, dups |-> {},
           new |-> None, before |-> None, held |-> {}, placed |-> 0, late |-> FALSE]
Plans == [op: Operations \cup {None}, src: Sources \cup {None}, page: Pages \cup {None},
          seen: Docs \cup {None}, dups: SUBSET Sources, new: Docs \cup {None},
          before: Docs \cup {None}, held: SUBSET (Versions \X Kinds), placed: 0 .. 3,
          late: BOOLEAN]

Steps == {"idle", "begun", "looked", "composed", "planned", "approved",
          "replacing", "undoing", "removing", "failing", "failed", "done"}

Init ==
  /\ doc = [s \in Sources |-> IF s \in Archived THEN FirstDoc
                              ELSE IF s \in Registered THEN Draft ELSE None]
  /\ archive = IF Archived = {} THEN {} ELSE {First} \X Kinds
  /\ bytes = [v \in Versions |-> IF v = First THEN FirstDoc.digest ELSE None]
  /\ plan = [p \in Ops |-> NoPlan]
  /\ pc = [p \in Ops |-> "idle"]
  /\ published = [s \in Sources |-> IF s \in Archived THEN <<First>> ELSE <<>>]
  /\ torn = {} /\ overtaken = {} /\ spoiled = {} /\ rolledBack = {} /\ together = {}
  /\ faults = 0

Existing == {s \in Sources : doc[s] # None}
AtWork == {p \in Ops : pc[p] \notin {"idle", "done"}}

\* Handlers of the Web process do not overlap.
WebFree == \A p \in Web : pc[p] \in {"idle", "planned", "done"}

End(p) == pc' = [pc EXCEPT ![p] = "done"] /\ plan' = [plan EXCEPT ![p] = NoPlan]
Fault == faults < MaxFaults /\ faults' = faults + 1

(***************************************************************************)
(* What an operation writes besides the Source, in this order.             *)
(***************************************************************************)
VersionOf(p) ==
  IF plan[p].op = "process" THEN Last(plan[p].seen.captured) ELSE p

Assets(p) ==
  CASE plan[p].op \in {"add", "fetch"} -> <<<<p, "raw">>, <<p, "metadata">>>>
    [] plan[p].op = "process" -> <<<<VersionOf(p), "text">>, <<VersionOf(p), "record">>>>
    [] OTHER -> <<>>

AssetSet(p) == Range(Assets(p))
Complete(p) == plan[p].placed = 1 + Len(Assets(p))

\* A part of the write is there, or a part of it is still to be taken back.
Committing(p) ==
  \/ pc[p] = "replacing" /\ plan[p].placed > 0 /\ ~Complete(p)
  \/ pc[p] = "undoing"
  \/ pc[p] = "removing" /\ plan[p].placed > 1
Quiet(s) == \A p \in Ops : plan[p].src = s => plan[p].placed = 0

(***************************************************************************)
(* A Source is written.  Whoever works on it with what he has read before  *)
(* is late, except for a preview that waits: its confirmation compares.    *)
(***************************************************************************)
Exposed(q, s) == plan[q].src = s /\ pc[q] # "planned"

Overtake(p) == overtaken' = IF plan[p].late THEN overtaken \cup {plan[p].src} ELSE overtaken

Rewrite(p, content) == doc' = [doc EXCEPT ![plan[p].src] = content] /\ Overtake(p)

WithLate(p) ==
  [q \in Ops |-> IF q # p /\ Exposed(q, plan[p].src) THEN [plan[q] EXCEPT !.late = TRUE]
                 ELSE plan[q]]

(***************************************************************************)
(* The first reading.  A capture may be made of any page.                  *)
(***************************************************************************)
Duplicates(s, page) ==
  {t \in Existing \ {s} : \/ UrlOf[page] # None /\ doc[t].url = UrlOf[page]
                          \/ doc[t].digest = DigestOf[page]}

Start(p, op, s, page, dups) ==
  /\ pc[p] = "idle" /\ Cardinality(AtWork) < MaxAtWork
  /\ p \in Web => WebFree
  /\ plan' = [plan EXCEPT ![p] =
       [NoPlan EXCEPT !.op = op, !.src = s, !.page = page, !.dups = dups,
                      !.seen = IF op = "add" THEN Draft ELSE doc[s],
                      !.late = \E q \in Ops : plan[q].src = s /\ Committing(q)]]
  /\ pc' = [pc EXCEPT ![p] = "begun"]
  /\ UNCHANGED <<files, histories, faults>>

\* Without allow_duplicate no duplicate may be found; with it they are named.
Add(p, s, page) ==
  /\ s \notin Existing
  /\ Start(p, "add", s, page, Duplicates(s, page))

Unchanged(s, page) == doc[s].digest = DigestOf[page]

Fetch(p, s, page) ==
  /\ s \in Existing /\ ~Unchanged(s, page)
  /\ Start(p, "fetch", s, page, Duplicates(s, page))

Process(p, s) == s \in Existing /\ Start(p, "process", s, None, {})
ConfirmDate(p, s) == s \in Existing /\ Start(p, "confirm", s, None, {})

(***************************************************************************)
(* Processing looks at the latest version.                                 *)
(***************************************************************************)
HasVersion(p) ==
  /\ plan[p].seen.captured # <<>>
  /\ {VersionOf(p)} \X {"raw", "metadata"} \subseteq archive

Extracted(p) == AssetSet(p) \cap archive

\* Only the command line and the jobs record a failure.
Refuse(p) ==
  IF p \in Web THEN End(p) ELSE pc' = [pc EXCEPT ![p] = "failing"] /\ UNCHANGED plan

Look(p) ==
  /\ pc[p] = "begun" /\ plan[p].op = "process"
  /\ HasVersion(p) /\ Extracted(p) = {}
  /\ pc' = [pc EXCEPT ![p] = "looked"]
  /\ UNCHANGED <<files, plan, histories, faults>>

\* Mutant of AlreadyProcessed: a second run is not recognised.
AlreadyProcessedNever(p) == FALSE

AlreadyProcessed(p) ==
  p \notin Web /\ plan[p].seen.status = "processed" /\ Extracted(p) = AssetSet(p)

\* There is no version, or a part of its extraction exists.
LookRefuses(p) ==
  /\ pc[p] = "begun" /\ plan[p].op = "process"
  /\ HasVersion(p) => Extracted(p) # {}
  /\ IF HasVersion(p) /\ AlreadyProcessed(p) THEN End(p) ELSE Refuse(p)
  /\ UNCHANGED <<files, histories, faults>>

\* An asset cannot be read, or its text cannot be extracted.
LookFails(p) ==
  /\ pc[p] = "begun" /\ plan[p].op = "process" /\ Fault
  /\ spoiled' = IF plan[p].seen.captured # <<>> /\ Extracted(p) # {} /\ p \notin Web
                THEN spoiled \cup {plan[p].src} ELSE spoiled
  /\ Refuse(p)
  /\ UNCHANGED <<files, published, torn, overtaken, rolledBack, together>>

(***************************************************************************)
(* The second reading, and the new Source.  The list of assets and, for    *)
(* duplicates, the upstream Sources are those of the first reading.        *)
(***************************************************************************)
\* Mutant of FetchedStatus: a processed Source stays processed.
FetchedStatusKept(read) == IF read.status = "processed" THEN "processed" ELSE "captured"

FetchedStatus(read) == "captured"

\* Mutant of Upstream: duplicates that were allowed are not named.
UpstreamKept(p, read) == read.upstream

Upstream(p, read) ==
  IF plan[p].dups = {} THEN read.upstream ELSE plan[p].seen.upstream \cup plan[p].dups

NewDoc(p, read) ==
  LET seen == plan[p].seen
      page == plan[p].page
  IN  CASE plan[p].op = "confirm" -> read
        [] plan[p].op = "process" ->
             [read EXCEPT !.status = "processed", !.captured = seen.captured,
                          !.texts = Append(seen.texts, VersionOf(p))]
        [] OTHER ->
             [status |-> FetchedStatus(read),
              captured |-> Append(seen.captured, p), texts |-> seen.texts,
              digest |-> DigestOf[page],
              url |-> IF UrlOf[page] = None THEN read.url ELSE UrlOf[page],
              upstream |-> Upstream(p, read)]

Compose(p) ==
  LET read == IF plan[p].op = "add" THEN Draft ELSE doc[plan[p].src]
  IN  /\ pc[p] = IF plan[p].op = "process" THEN "looked" ELSE "begun"
      /\ read # None
      /\ plan' = [plan EXCEPT ![p].new = NewDoc(p, read)]
      /\ pc' = [pc EXCEPT ![p] = "composed"]
      /\ UNCHANGED <<files, histories, faults>>

\* The Source is gone after the rollback of its addition, a call fails or the process
\* ends before anything is written, a preview expires.
GiveUp(p) ==
  /\ pc[p] \in {"begun", "looked", "composed", "planned", "approved", "failing", "failed"}
  /\ End(p)
  /\ UNCHANGED <<files, histories, faults>>

(***************************************************************************)
(* The preview of the Web application and its confirmation.                *)
(***************************************************************************)
Version(p) == <<doc[plan[p].src], AssetSet(p) \cap archive>>

Preview(p) ==
  /\ p \in Web /\ pc[p] = "composed"
  /\ plan' = [plan EXCEPT ![p].before = doc[plan[p].src], ![p].held = AssetSet(p) \cap archive]
  /\ pc' = [pc EXCEPT ![p] = "planned"]
  /\ UNCHANGED <<files, histories, faults>>

\* Mutant of AsPreviewed: the version is not compared.
AsPreviewedAlways(p) == TRUE

AsPreviewed(p) == Version(p) = <<plan[p].before, plan[p].held>>

Confirm(p) ==
  /\ p \in Web /\ pc[p] = "planned" /\ WebFree
  /\ AsPreviewed(p)
  /\ pc' = [pc EXCEPT ![p] = "approved"]
  /\ UNCHANGED <<files, plan, histories, faults>>

(***************************************************************************)
(* FileTransaction.commit(), one file at a time.                           *)
(***************************************************************************)
\* The command line creates a Source that it captures again and that is gone.
Fits(p) ==
  LET gone == doc[plan[p].src] = None
      create == IF p \in Web THEN plan[p].before = None
                ELSE plan[p].op = "add" \/ (plan[p].op = "fetch" /\ gone)
  IN  gone = create /\ AssetSet(p) \cap archive = plan[p].held

Preflight(p) ==
  /\ pc[p] = IF p \in Web THEN "approved" ELSE "composed"
  /\ Fits(p)
  /\ plan' = [plan EXCEPT ![p].before = doc[plan[p].src]]
  /\ pc' = [pc EXCEPT ![p] = "replacing"]
  /\ UNCHANGED <<files, histories, faults>>

\* An exception while a Source is processed is recorded as a failure of its own.
Fail(p) ==
  IF plan[p].op = "process" /\ p \notin Web
  THEN /\ pc' = [pc EXCEPT ![p] = "failing"]
       /\ plan' = [plan EXCEPT ![p].placed = 0]
  ELSE End(p)

PreflightRefuses(p) ==
  /\ pc[p] = IF p \in Web THEN "approved" ELSE "composed"
  /\ ~Fits(p)
  /\ Fail(p)
  /\ UNCHANGED <<files, histories, faults>>

Captures == {q \in AtWork : plan[q].op \in {"add", "fetch"}}

ReplaceSource(p) ==
  /\ pc[p] = "replacing" /\ plan[p].placed = 0
  /\ Rewrite(p, plan[p].new)
  /\ plan' = [WithLate(p) EXCEPT ![p].placed = 1]
  /\ published' = IF p \in Captures
                  THEN [published EXCEPT ![plan[p].src] = Append(@, p)] ELSE published
  /\ together' = IF p \in Captures THEN together \cup {{p, q} : q \in Captures \ {p}}
                 ELSE together
  /\ UNCHANGED <<archive, bytes, pc, torn, spoiled, rolledBack, faults>>

PlaceAsset(p) ==
  /\ pc[p] = "replacing" /\ plan[p].placed > 0 /\ ~Complete(p)
  /\ archive' = archive \cup {Assets(p)[plan[p].placed]}
  /\ bytes' = IF plan[p].page = None THEN bytes
              ELSE [bytes EXCEPT ![p] = DigestOf[plan[p].page]]
  /\ plan' = [plan EXCEPT ![p].placed = @ + 1]
  /\ UNCHANGED <<doc, pc, histories, faults>>

\* The command returns, the Web application has added its audit row or taken all back.
Finish(p) ==
  /\ (pc[p] = "replacing" /\ Complete(p)) \/ (pc[p] = "removing" /\ plan[p].placed = 1)
  /\ End(p)
  /\ UNCHANGED <<files, histories, faults>>

(***************************************************************************)
(* The way back, one file at a time as well.  When an os.replace fails the *)
(* transaction takes the files back in the reverse order, the Source last. *)
(* When the audit row of the Web application fails after all of them, a    *)
(* Source that was there is put back first, one that was not removed last. *)
(***************************************************************************)
ReplaceFails(p) ==
  /\ pc[p] = "replacing" /\ ~Complete(p) /\ Fault
  /\ IF plan[p].placed = 0 THEN Fail(p)
     ELSE pc' = [pc EXCEPT ![p] = "undoing"] /\ UNCHANGED plan
  /\ UNCHANGED <<files, histories>>

AuditFails(p) ==
  /\ p \in Web /\ pc[p] = "replacing" /\ Complete(p) /\ Fault
  /\ pc' = [pc EXCEPT ![p] = "undoing"]
  /\ plan' = WithLate(p) /\ Overtake(p)
  /\ UNCHANGED <<files, published, torn, spoiled, rolledBack, together>>

SourceFirst(p) == Complete(p) /\ plan[p].before # None

\* What an operation has created and a rollback removes.
Undone(p) == {Assets(p)[i] : i \in 1 .. plan[p].placed - 1} \ plan[p].held

\* The raw file is the first.  An asset that was there gets its content back.
RemoveAsset(p) ==
  /\ plan[p].placed > 1
  /\ pc[p] = "removing" \/ (pc[p] = "undoing" /\ ~SourceFirst(p))
  /\ archive' = archive \ ({Assets(p)[plan[p].placed - 1]} \ plan[p].held)
  /\ bytes' = IF plan[p].page # None /\ plan[p].placed = 2 THEN [bytes EXCEPT ![p] = None]
              ELSE bytes
  /\ plan' = [plan EXCEPT ![p].placed = @ - 1]
  /\ UNCHANGED <<doc, pc, histories, faults>>

\* Of the versions captured in this order, p is taken back.
Retract(versions, p) ==
  IF versions # <<>> /\ Last(versions) = p THEN Front(versions) ELSE versions

RestoreSource(p) ==
  /\ pc[p] = "undoing" /\ (SourceFirst(p) \/ plan[p].placed = 1)
  /\ Rewrite(p, plan[p].before)
  /\ published' = IF p \in Captures
                  THEN [published EXCEPT ![plan[p].src] = Retract(@, p)] ELSE published
  /\ rolledBack' = rolledBack \cup {plan[p].src}
  /\ IF SourceFirst(p) THEN pc' = [pc EXCEPT ![p] = "removing"] /\ plan' = WithLate(p)
     ELSE IF plan[p].op = "process" /\ p \notin Web
     THEN pc' = [pc EXCEPT ![p] = "failing"] /\ plan' = [WithLate(p) EXCEPT ![p].placed = 0]
     ELSE pc' = [pc EXCEPT ![p] = "done"] /\ plan' = [WithLate(p) EXCEPT ![p] = NoPlan]
  /\ UNCHANGED <<archive, bytes, torn, spoiled, together, faults>>

\* A file cannot be put back or removed: the rest is not tried.
UndoFails(p) ==
  /\ pc[p] # "replacing" /\ Committing(p) /\ Fault
  /\ torn' = torn \cup {plan[p].src}
  /\ Fail(p)
  /\ UNCHANGED <<files, published, overtaken, spoiled, rolledBack, together>>

\* The process ends between two files, and nothing repairs the Source later.
Crash(p) ==
  /\ Committing(p) /\ Fault
  /\ torn' = torn \cup {plan[p].src}
  /\ End(p)
  /\ UNCHANGED <<files, published, overtaken, spoiled, rolledBack, together>>

(***************************************************************************)
(* _record_processing_failure(): the Source is read once more and written. *)
(***************************************************************************)
ReadFailed(p) ==
  LET read == doc[plan[p].src]
  IN  /\ pc[p] = "failing" /\ read # None
      /\ plan' = [plan EXCEPT ![p].new = [read EXCEPT !.status = "failed"]]
      /\ pc' = [pc EXCEPT ![p] = "failed"]
      /\ UNCHANGED <<files, histories, faults>>

RecordFailure(p) ==
  /\ pc[p] = "failed" /\ doc[plan[p].src] # None
  /\ Rewrite(p, plan[p].new)
  /\ pc' = [pc EXCEPT ![p] = "done"]
  /\ plan' = [WithLate(p) EXCEPT ![p] = NoPlan]
  /\ UNCHANGED <<archive, bytes, published, torn, spoiled, rolledBack, together, faults>>

Begin(p) ==
  \/ \E s \in Sources, page \in Pages : Add(p, s, page) \/ Fetch(p, s, page)
  \/ \E s \in Sources : Process(p, s) \/ ConfirmDate(p, s)

Continue(p) ==
  \/ Look(p) \/ LookRefuses(p) \/ LookFails(p) \/ Compose(p) \/ GiveUp(p)
  \/ Preview(p) \/ Confirm(p)
  \/ Preflight(p) \/ PreflightRefuses(p)
  \/ ReplaceSource(p) \/ PlaceAsset(p) \/ Finish(p)
  \/ ReplaceFails(p) \/ AuditFails(p) \/ RemoveAsset(p) \/ RestoreSource(p) \/ UndoFails(p)
  \/ Crash(p)
  \/ ReadFailed(p) \/ RecordFailure(p)

Next == \E p \in Ops : Begin(p) \/ Continue(p)

Spec == Init /\ [][Next]_vars

(***************************************************************************)
(* Properties.                                                             *)
(***************************************************************************)
\* Type invariant.
TypeOK ==
  /\ doc \in [Sources -> Docs \cup {None}]
  /\ archive \in SUBSET (Versions \X Kinds)
  /\ bytes \in [Versions -> Digests \cup {None}]
  /\ pc \in [Ops -> Steps]
  /\ plan \in [Ops -> Plans]
  /\ published \in [Sources -> Seq(Versions)]
  /\ {torn, overtaken, spoiled, rolledBack} \subseteq SUBSET Sources
  /\ together \in SUBSET (SUBSET Versions)
  /\ faults \in 0 .. MaxFaults

\* verify_source_assets_from_objects().
Listed(s) == Range(doc[s].captured) \X {"raw", "metadata"}
             \cup Range(doc[s].texts) \X {"text", "record"}

Settled(s) == s \in Existing \ (torn \cup overtaken) /\ Quiet(s)
LatestOf(s) == Last(doc[s].captured)

\* The check of the archive finds every listed asset, and the hash of the latest version
\* in the Source, whatever fails and is rolled back.  Only a crash between two files, a
\* rollback that fails itself, or an operation that missed a write of another leaves a
\* Source that does not verify.
VerifyPasses ==
  \A s \in Sources : Settled(s) /\ doc[s].captured # <<>> =>
    Listed(s) \subseteq archive /\ bytes[LatestOf(s)] = doc[s].digest

\* The text that an Event of a processed Source quotes, the last one that is listed, is
\* that of the version captured last and not taken back, whatever crashes and failing
\* rollbacks leave behind.  Only a write that missed another one can bring an older list.
TextIsCurrent ==
  \A s \in Existing \ overtaken : doc[s].status = "processed" =>
    doc[s].texts # <<>> /\ published[s] # <<>> /\ Last(doc[s].texts) = Last(published[s])

\* A Source that waits for processing, or has failed, can be processed: nothing of the
\* extraction of its latest version exists, which would be refused for ever.  Besides a
\* crash, a failing rollback and a missed write, it takes a second run that fails to read
\* what the first one has extracted.
WaitingCanBeProcessed ==
  \A s \in Sources \ spoiled :
    Settled(s) /\ doc[s].status \in {"captured", "failed"} /\ doc[s].captured # <<>> =>
      ({LatestOf(s)} \X {"text", "record"}) \cap archive = {}

\* Of two Sources that hold the same content one names the other as upstream, unless they
\* were captured at the same time or a capture was undone.
DuplicatesNamed ==
  \A s, t \in Sources \ rolledBack :
    s # t /\ Settled(s) /\ Settled(t) /\ doc[s].digest # None /\ doc[s].digest = doc[t].digest =>
      \/ s \in doc[t].upstream \/ t \in doc[s].upstream
      \/ {LatestOf(s), LatestOf(t)} \in together
=============================================================================
