--------------------------- MODULE CandidateQueue ---------------------------
(***************************************************************************)
(* The queue of candidate Sources: the table `candidates' and what the     *)
(* Web application, the command line and the jobs do to it.                *)
(*                                                                         *)
(* A promotion spans the database and the file tree.  The command line     *)
(* publishes the Source, then links the candidate in a transaction of its  *)
(* own.  The Web application does both while it holds the write lock of    *)
(* the database.  When the link fails, the files are removed again.  Jobs  *)
(* list candidates first and write them later, by id.                      *)
(*                                                                         *)
(* Candidate ids are random, so a purged id does not come back.  Nothing   *)
(* writes the statuses "triaged" and "failed" that the queries mention.    *)
(* Scores are left out: they change the version of a row, and a preview    *)
(* may be refused here at any time.                                        *)
(* Retention is left open: any candidate may be past it.                   *)
(***************************************************************************)
EXTENDS Naturals, FiniteSets

CONSTANTS
  Candidates,   \* candidate ids
  UrlOf,        \* canonical URL of a candidate
  PagesOf,      \* pages that this URL may lead to when it is fetched
  SlugOf,       \* slug of its title, a part of the path of its Source
  Queued,       \* candidates that are in the queue at the start
  Plans,        \* bound: decisions that are prepared, by the command line or in the browser
  Web,          \* those prepared in the browser; one process serves them all
  Jobs,         \* job runs at work at the same time
  MaxNumber,    \* bound: numbers of Sources
  MaxFaults,    \* bound: failing calls and crashes
  None

Numbers == 1 .. MaxNumber

ASSUME QueueConstants ==
  /\ Queued \subseteq Candidates /\ Web \subseteq Plans
  /\ MaxNumber \in Nat /\ MaxFaults \in Nat
  /\ \A c \in Candidates : PagesOf[c] # {}
  /\ None \notin Numbers \cup Plans \cup Candidates

VARIABLES
  rows,         \* the table candidates
  sources,      \* who published the Source at a path, or None
  plan,         \* what a plan decides, from its preparation on
  pc,           \* where the handler of a plan is
  job,          \* what a job run is doing
  todo,         \* the candidates it has listed
  manifests,    \* plans with a recovery manifest
  linked,       \* history: plans whose promotion was committed
  overtaken,    \* history: candidates expired although they had left the queue
  overwritten,  \* history: plans whose published file another promotion replaced
  faults        \* failing calls and crashes so far

files == <<sources, overwritten>>
jobs == <<job, todo, overtaken>>
vars == <<rows, sources, plan, pc, job, todo, manifests, linked, overtaken, overwritten, faults>>

RowStatuses == {"absent", "new", "promoted", "dismissed", "expired", "purged"}
Rows == [status: RowStatuses, source: Numbers \cup {None}]
Row(status) == [status |-> status, source |-> None]

Slugs == {SlugOf[c] : c \in Candidates}
Paths == Numbers \X Slugs

Steps == {"idle", "reading", "planned", "locked", "checked", "published",
          "conflict", "failed", "note_conflict", "note_failed", "done", "abandoned", "dead"}

Operations == {"promote", "dismiss", "restore"}
NoPlan == [op |-> None, cand |-> None, page |-> None, number |-> None,
           version |-> Row("absent")]

Init ==
  /\ rows = [c \in Candidates |-> Row(IF c \in Queued THEN "new" ELSE "absent")]
  /\ sources = [x \in Paths |-> None]
  /\ plan = [p \in Plans |-> NoPlan]
  /\ pc = [p \in Plans |-> "idle"]
  /\ job = [j \in Jobs |-> "idle"]
  /\ todo = [j \in Jobs |-> {}]
  /\ manifests = {} /\ linked = {} /\ overtaken = {} /\ overwritten = {}
  /\ faults = 0

\* SQLite has one writer; a Web promotion is one until it commits or rolls back.
Holding(p) == p \in Web /\ pc[p] \in {"locked", "checked", "published"}
LockFree == \A p \in Plans : ~Holding(p)

\* Handlers of the Web process do not overlap.
InHandler(p) == pc[p] \notin {"idle", "planned", "done", "abandoned", "dead"}
WebFree == \A p \in Web : ~InHandler(p)

GoTo(p, l) == pc' = [pc EXCEPT ![p] = l] /\ UNCHANGED plan
End(p) == pc' = [pc EXCEPT ![p] = "done"] /\ plan' = [plan EXCEPT ![p] = NoPlan]
Fault == faults < MaxFaults /\ faults' = faults + 1

(***************************************************************************)
(* The file tree.                                                          *)
(***************************************************************************)
HasFile(p) == \E x \in Paths : sources[x] = p
Published == {x \in Paths : sources[x] # None}
SourcedUrls == {plan[sources[x]].page : x \in Published}

\* validate_repository(): a permanent id names one file.
RepositoryValid == \A x, y \in Published : x[1] = y[1] => x = y

LastNumber ==
  LET used == {x[1] : x \in Published}
  IN  IF used = {} THEN 0 ELSE CHOOSE n \in used : \A m \in used : m <= n

PathOf(p) == <<plan[p].number, SlugOf[plan[p].cand]>>

(***************************************************************************)
(* Triage.  Each decision is one transaction; the Web application also     *)
(* compares the row with the one it has shown.                             *)
(***************************************************************************)
Decided(op) == IF op = "dismiss" THEN "dismissed" ELSE "new"

\* Mutant of MayDecide: a promoted candidate is dismissed.
MayDecideAnything(op, status) == status \notin {"absent", "purged"}

MayDecide(op, status) ==
  IF op = "dismiss" THEN status \in {"new", "expired"}
  ELSE status \in {"dismissed", "expired"}

Dismiss(c) ==
  /\ LockFree /\ MayDecide("dismiss", rows[c].status)
  /\ rows' = [rows EXCEPT ![c].status = Decided("dismiss")]
  /\ UNCHANGED <<files, plan, pc, jobs, manifests, linked, faults>>

Restore(c) ==
  /\ LockFree /\ MayDecide("restore", rows[c].status)
  /\ rows' = [rows EXCEPT ![c].status = Decided("restore")]
  /\ UNCHANGED <<files, plan, pc, jobs, manifests, linked, faults>>

WebPreview(p, op, c) ==
  /\ p \in Web /\ pc[p] = "idle" /\ WebFree
  /\ op # "promote" /\ MayDecide(op, rows[c].status)
  /\ plan' = [plan EXCEPT ![p] = [op |-> op, cand |-> c, page |-> None,
                                  number |-> None, version |-> rows[c]]]
  /\ pc' = [pc EXCEPT ![p] = "planned"]
  /\ UNCHANGED <<rows, files, jobs, manifests, linked, faults>>

AsShown(p) == rows[plan[p].cand] = plan[p].version

WebDecide(p) ==
  LET c == plan[p].cand
  IN  /\ p \in Web /\ pc[p] = "planned" /\ plan[p].op # "promote"
      /\ WebFree /\ LockFree
      /\ AsShown(p) /\ MayDecide(plan[p].op, rows[c].status)
      /\ rows' = [rows EXCEPT ![c].status = Decided(plan[p].op)]
      /\ End(p)
      /\ UNCHANGED <<files, jobs, manifests, linked, faults>>

\* The row has changed since the preview, or the token has expired.
WebConflict(p) ==
  /\ p \in Web /\ pc[p] = "planned" /\ WebFree
  /\ End(p)
  /\ UNCHANGED <<rows, files, jobs, manifests, linked, faults>>

(***************************************************************************)
(* Promotion.                                                              *)
(***************************************************************************)
\* The candidate is checked before its page is fetched.
PrepareRead(p, c) ==
  /\ pc[p] = "idle" /\ (p \in Web => WebFree)
  /\ rows[c].status = "new"
  /\ plan' = [plan EXCEPT ![p].op = "promote", ![p].cand = c]
  /\ pc' = [pc EXCEPT ![p] = "reading"]
  /\ UNCHANGED <<rows, files, jobs, manifests, linked, faults>>

\* The repository is read and the version of the row taken after the fetch.  A page
\* that is a Source already is refused.
PreparePlan(p) ==
  LET c == plan[p].cand
  IN  /\ pc[p] = "reading"
      /\ RepositoryValid /\ LastNumber < MaxNumber
      /\ p \in Web => rows[c].status # "purged"
      /\ \E page \in PagesOf[c] \ SourcedUrls :
           plan' = [plan EXCEPT ![p].page = page, ![p].number = LastNumber + 1,
                                ![p].version = IF p \in Web THEN rows[c] ELSE @]
      /\ pc' = [pc EXCEPT ![p] = "planned"]
      /\ UNCHANGED <<rows, files, jobs, manifests, linked, faults>>

\* The preparation stops: one of these conditions does not hold, or the fetch fails.
PrepareRefused(p) ==
  /\ pc[p] = "reading"
  /\ End(p)
  /\ UNCHANGED <<rows, files, jobs, manifests, linked, faults>>

\* BEGIN IMMEDIATE, then the version is compared.
Lock(p) ==
  /\ p \in Web /\ pc[p] = "planned" /\ plan[p].op = "promote"
  /\ WebFree /\ LockFree /\ AsShown(p)
  /\ GoTo(p, "locked")
  /\ UNCHANGED <<rows, files, jobs, manifests, linked, faults>>

MayPublish(p) ==
  IF p \in Web THEN pc[p] = "locked" ELSE pc[p] = "planned"

\* A failed execution leaves the token valid if the row is as it was.
Settle(p) == IF p \in Web /\ AsShown(p) THEN GoTo(p, "planned") ELSE End(p)

\* FileTransaction.commit(): first nothing may exist ...
Preflight(p) ==
  /\ MayPublish(p) /\ sources[PathOf(p)] = None
  /\ GoTo(p, "checked")
  /\ UNCHANGED <<rows, files, jobs, manifests, linked, faults>>

\* Mutant of PreflightRefuses: the files of the plan are removed although it created none.
PreflightRefusesUnlinks(p) ==
  /\ MayPublish(p) /\ sources[PathOf(p)] # None
  /\ GoTo(p, "failed")
  /\ UNCHANGED <<rows, files, jobs, manifests, linked, faults>>

PreflightRefuses(p) ==
  /\ MayPublish(p) /\ sources[PathOf(p)] # None
  /\ Settle(p)
  /\ UNCHANGED <<rows, files, jobs, manifests, linked, faults>>

\* ... and then the files are moved into place.
Publish(p) ==
  /\ pc[p] = "checked"
  /\ sources' = [sources EXCEPT ![PathOf(p)] = p]
  /\ overwritten' = overwritten \cup ({sources[PathOf(p)]} \ {None})
  /\ GoTo(p, "published")
  /\ UNCHANGED <<rows, jobs, manifests, linked, faults>>

PublishFails(p) ==
  /\ pc[p] = "checked" /\ Fault
  /\ Settle(p)
  /\ UNCHANGED <<rows, files, jobs, manifests, linked>>

\* Mutant of MayLink: a restored candidate that has a Source is promoted again.
MayLinkAgain(row) == row.status = "new"

MayLink(row) == row.status = "new" /\ row.source = None

Link(p) ==
  LET c == plan[p].cand
  IN  /\ pc[p] = "published" /\ (p \in Web \/ LockFree)
      /\ MayLink(rows[c])
      /\ rows' = [rows EXCEPT ![c].status = "promoted", ![c].source = plan[p].number]
      /\ linked' = linked \cup {p}
      /\ pc' = [pc EXCEPT ![p] = "done"]
      /\ plan' = [plan EXCEPT ![p].version = NoPlan.version]
      /\ UNCHANGED <<files, jobs, manifests, faults>>

LinkRefused(p) ==
  /\ pc[p] = "published" /\ (p \in Web \/ LockFree)
  /\ ~MayLink(rows[plan[p].cand])
  /\ GoTo(p, "conflict")
  /\ UNCHANGED <<rows, files, jobs, manifests, linked, faults>>

\* The database stays locked, or the statement, the audit row or the commit fails.
LinkFails(p) ==
  /\ pc[p] = "published" /\ Fault
  /\ GoTo(p, "failed")
  /\ UNCHANGED <<rows, files, jobs, manifests, linked>>

\* Mutant of Compensate: the command line leaves its files.
CompensateWebOnly(p) ==
  /\ pc[p] \in {"conflict", "failed"}
  /\ sources' = IF p \in Web THEN [sources EXCEPT ![PathOf(p)] = None] ELSE sources
  /\ IF p \notin Web THEN End(p)
     ELSE GoTo(p, IF pc[p] = "conflict" THEN "note_conflict" ELSE "note_failed")
  /\ UNCHANGED <<rows, overwritten, jobs, manifests, linked, faults>>

\* The paths are unlinked, whoever wrote the file that is there now.
Compensate(p) ==
  /\ pc[p] \in {"conflict", "failed"}
  /\ sources' = [sources EXCEPT ![PathOf(p)] = None]
  /\ IF p \notin Web THEN End(p)
     ELSE GoTo(p, IF pc[p] = "conflict" THEN "note_conflict" ELSE "note_failed")
  /\ UNCHANGED <<rows, overwritten, jobs, manifests, linked, faults>>

\* An OSError of unlink() passes through every handler: no manifest, token consumed.
CompensateFails(p) ==
  /\ pc[p] \in {"conflict", "failed"} /\ Fault
  /\ GoTo(p, "abandoned")
  /\ UNCHANGED <<rows, files, jobs, manifests, linked>>

Note(p) ==
  /\ pc[p] \in {"note_conflict", "note_failed"} /\ p \notin manifests
  /\ manifests' = manifests \cup {p}
  /\ IF pc[p] = "note_conflict" THEN End(p) ELSE Settle(p)
  /\ UNCHANGED <<rows, files, jobs, linked, faults>>

\* A manifest of an earlier try is not replaced.
NoteFails(p) ==
  /\ pc[p] \in {"note_conflict", "note_failed"}
  /\ IF p \in manifests THEN UNCHANGED faults ELSE Fault
  /\ Settle(p)
  /\ UNCHANGED <<rows, files, jobs, manifests, linked>>

\* A process ends; SQLite rolls its transaction back.
Crash ==
  /\ Fault
  /\ \E P \in {Web} \cup {{p} : p \in Plans \ Web} :
       LET lost == {p \in P : InHandler(p) \/ pc[p] = "planned"}
       IN  /\ lost # {}
           /\ pc' = [p \in Plans |-> IF p \in lost THEN "dead" ELSE pc[p]]
           /\ plan' = [p \in Plans |-> IF p \in lost /\ ~HasFile(p) THEN NoPlan ELSE plan[p]]
  /\ UNCHANGED <<rows, files, jobs, manifests, linked>>

(***************************************************************************)
(* Jobs.                                                                   *)
(***************************************************************************)
WithStatus(S) == {c \in Candidates : rows[c].status \in S}

Work(j, what, S) ==
  /\ job' = [job EXCEPT ![j] = what]
  /\ todo' = [todo EXCEPT ![j] = S]

ListExpiring(j) ==
  /\ job[j] = "idle" /\ RepositoryValid
  /\ \E S \in SUBSET WithStatus({"new"}) \ {{}} : Work(j, "expire", S)
  /\ UNCHANGED <<rows, files, plan, pc, manifests, linked, overtaken, faults>>

\* The rows that UPDATE ... WHERE candidate_id = ? matches.
Matched(S) == {c \in S : rows[c].status # "purged"}

\* The job goes on with a purge, the command does not.
Expire(j) ==
  /\ job[j] = "expire" /\ LockFree
  /\ rows' = [c \in Candidates |->
                IF c \in Matched(todo[j]) THEN [rows[c] EXCEPT !.status = "expired"]
                ELSE rows[c]]
  /\ overtaken' = overtaken \cup {c \in Matched(todo[j]) : rows[c].status # "new"}
  /\ \E next \in {"idle", "purge"} : Work(j, next, {})
  /\ UNCHANGED <<files, plan, pc, manifests, linked, faults>>

Purge(j) ==
  /\ job[j] \in {"idle", "purge"} /\ LockFree
  /\ WithStatus({"dismissed", "expired"}) # {}
  /\ rows' = [c \in Candidates |->
                IF rows[c].status \in {"dismissed", "expired"} THEN Row("purged") ELSE rows[c]]
  /\ Work(j, "idle", {})
  /\ UNCHANGED <<files, plan, pc, manifests, linked, overtaken, faults>>

\* The URLs of the Sources are read before the channel is asked ...
StartDiscovery(j) ==
  /\ job[j] = "idle" /\ RepositoryValid
  /\ \E S \in SUBSET {c \in WithStatus({"absent"}) : UrlOf[c] \notin SourcedUrls} \ {{}} :
       Work(j, "discover", S)
  /\ UNCHANGED <<rows, files, plan, pc, manifests, linked, overtaken, faults>>

\* ... and those of the promoted candidates after it.
SkipSourced(j) ==
  /\ job[j] = "discover"
  /\ LET known == {UrlOf[c] : c \in WithStatus({"promoted"})}
     IN  Work(j, "insert", {c \in todo[j] : UrlOf[c] \notin known})
  /\ UNCHANGED <<rows, files, plan, pc, manifests, linked, overtaken, faults>>

InsertCandidates(j) ==
  /\ job[j] = "insert" /\ LockFree
  /\ rows' = [c \in Candidates |->
                IF c \in todo[j] /\ rows[c].status = "absent" THEN Row("new") ELSE rows[c]]
  /\ Work(j, "idle", {})
  /\ UNCHANGED <<files, plan, pc, manifests, linked, overtaken, faults>>

\* The job fails or its process ends; its transaction is rolled back.
JobEnds(j) ==
  /\ job[j] # "idle"
  /\ Work(j, "idle", {})
  /\ UNCHANGED <<rows, files, plan, pc, manifests, linked, overtaken, faults>>

Triage ==
  \/ \E c \in Candidates : Dismiss(c) \/ Restore(c)
  \/ \E p \in Web, op \in Operations, c \in Candidates : WebPreview(p, op, c)
  \/ \E p \in Web : WebDecide(p) \/ WebConflict(p)

Promote(p) ==
  \/ \E c \in Candidates : PrepareRead(p, c)
  \/ PreparePlan(p) \/ PrepareRefused(p) \/ Lock(p)
  \/ Preflight(p) \/ PreflightRefuses(p) \/ Publish(p) \/ PublishFails(p)
  \/ Link(p) \/ LinkRefused(p) \/ LinkFails(p)
  \/ Compensate(p) \/ CompensateFails(p) \/ Note(p) \/ NoteFails(p)

JobStep(j) ==
  \/ ListExpiring(j) \/ Expire(j) \/ Purge(j)
  \/ StartDiscovery(j) \/ SkipSourced(j) \/ InsertCandidates(j)
  \/ JobEnds(j)

Next ==
  \/ Triage \/ Crash
  \/ \E p \in Plans : Promote(p)
  \/ \E j \in Jobs : JobStep(j)

Spec == Init /\ [][Next]_vars

(***************************************************************************)
(* Properties.                                                             *)
(***************************************************************************)
\* Type invariant.
TypeOK ==
  /\ rows \in [Candidates -> Rows]
  /\ sources \in [Paths -> Plans \cup {None}]
  /\ plan \in [Plans -> [op: Operations \cup {None}, cand: Candidates \cup {None},
                         page: (UNION {PagesOf[c] : c \in Candidates}) \cup {None},
                         number: Numbers \cup {None}, version: Rows]]
  /\ pc \in [Plans -> Steps]
  /\ job \in [Jobs -> {"idle", "expire", "purge", "discover", "insert"}]
  /\ todo \in [Jobs -> SUBSET Candidates]
  /\ manifests \in SUBSET Plans /\ linked \in SUBSET Plans
  /\ overtaken \in SUBSET Candidates /\ overwritten \in SUBSET Plans
  /\ faults \in 0 .. MaxFaults

\* The Source of a promoted candidate is in the tree, unless two promotions were
\* between the existence check and the replacement of the same file at once.
PromotedHasSource ==
  overwritten = {} =>
    \A p \in linked : \E x \in Paths : x = PathOf(p) /\ sources[x] = p

\* A candidate becomes at most one Source, although a stale expiry and a restore
\* may bring a promoted candidate back into the queue.
OneSourcePerCandidate ==
  \A p, q \in linked : plan[p].cand = plan[q].cand => p = q

\* When a promotion is over or may be tried again, its files are in the tree only if
\* the candidate was linked.  To leave an orphan takes a crash or an unlink that fails.
NoOrphans ==
  \A x \in Published : pc[sources[x]] \in {"done", "planned"} => sources[x] \in linked

\* Only an expiry that acts on a stale listing takes a promoted candidate out of
\* its status, and a purge removes only what was dismissed or expired.
PromotedStays ==
  [][\A c \in Candidates : rows[c].status = "promoted" /\ c \notin overtaken' =>
       rows'[c].status = "promoted" /\ rows'[c].source = rows[c].source]_vars
=============================================================================
