------------------------ MODULE SourceArchiveProofs ------------------------
(***************************************************************************)
(* Proofs about SourceArchive, for any number of Sources, operations,      *)
(* pages, failing calls and crashes.  The inductive invariant has six      *)
(* parts; each of the first four needs those before it, the last two need  *)
(* parts 1 and 2:                                                          *)
(*   1. Base: types, what a Source lists, what a plan holds at each step;  *)
(*   2. Timely: an operation that is not late has read what there is;      *)
(*   3. Ownership: a version belongs to one Source, and nobody knows it    *)
(*      before it has been captured;                                       *)
(*   4. SourcesInv: a Source that no crash and no late operation has       *)
(*      spoilt describes the archive, as it is and as a rollback leaves it;*)
(*   5. Naming: of two Sources with the same content one names the other,  *)
(*      and a capture at work knows those it will have to name;            *)
(*   6. Recorded: a Source that no late operation has written lists what   *)
(*      has been captured of it and not taken back.                        *)
(* LocalTo and WriteTo describe the two kinds of step, those that change   *)
(* one plan only and those that write a Source as well; each part is       *)
(* proved once for either kind, then for the steps that need more.         *)
(***************************************************************************)
EXTENDS SourceArchive, SequenceTheorems, TLAPS

(***************************************************************************)
(* The inductive invariant, part 1: types, what a Source lists, and what   *)
(* the plan of an operation holds where it is.                             *)
(***************************************************************************)
Working(p) == pc[p] \notin {"idle", "done"}
Prompt(p) == Working(p) /\ ~plan[p].late
CaptureOps == {"add", "fetch"}
Capturing(p) == plan[p].op \in CaptureOps
Processing(p) == plan[p].op = "process"

\* What a Source lists fits together, in whatever order it was written.
Shape(d) ==
  /\ Range(d.texts) \subseteq Range(d.captured)
  /\ d.status = "processed" => d.texts # <<>> /\ d.captured # <<>> /\ Last(d.texts) = Last(d.captured)
  /\ d.status = "registered" => d.captured = <<>>

ShapedDocs == {d \in Docs : Shape(d)}
ShapedPlans == {x \in Plans : {x.seen, x.new, x.before} \subseteq ShapedDocs \cup {None}}

\* The plan x of an operation p at some step.
Writing == {"replacing", "undoing", "removing"}
Composed == {"composed", "planned", "approved"} \cup Writing
StageOf(p, x, step) ==
  /\ x.op \in Operations /\ x.src \in Sources /\ x.seen # None
  /\ x.op \in CaptureOps <=> x.page # None
  /\ x.placed > 0 => step \in Writing /\ (x.op = "confirm" => x.placed = 1)
  /\ step \in {"undoing", "removing"} => x.placed > 0
  /\ step = "undoing" /\ p \notin Web => x.op # "confirm" /\ x.placed < 3
  /\ step = "removing" => p \in Web
  /\ step \in {"looked", "failing", "failed"} => x.op = "process"
  /\ step \in {"planned", "approved"} => p \in Web
  /\ step \in {"failing", "failed"} => p \notin Web
  /\ x.op = "process" /\ step \in Composed \cup {"looked"} => x.seen.captured # <<>>
  /\ p \notin Web => x.held = {}
  /\ step \in Composed \cup {"failed"} => x.new # None
  /\ x.op = "add" => x.seen = Draft

Stage(p, x, step) == IF step \in {"idle", "done"} THEN x = NoPlan ELSE StageOf(p, x, step)
Stages == \A p \in Ops : Stage(p, plan[p], pc[p])

HandlerWaits(p) == pc[p] \in {"idle", "planned", "done"}
OneHandler ==
  \A p, q \in Web : p # q => HandlerWaits(p) \/ HandlerWaits(q)

Base ==
  /\ TypeOK
  /\ doc \in [Sources -> ShapedDocs \cup {None}] /\ plan \in [Ops -> ShapedPlans]
  /\ Stages /\ OneHandler

DocsOf(p) == {plan[p].seen, plan[p].new, plan[p].before} \ {None}

\* An operation that is not late, and not a preview, has read what there is.
ReadBy(p) == IF plan[p].op = "add" THEN None ELSE plan[p].seen
InTime(p) ==
  /\ plan[p].placed = 0 =>
       \/ (IF pc[p] = "planned" THEN plan[p].before ELSE doc[plan[p].src]) = ReadBy(p)
       \/ pc[p] \in {"failing", "failed"} /\ plan[p].src \in torn
  /\ plan[p].placed > 0 =>
       doc[plan[p].src] = IF pc[p] = "removing" THEN plan[p].before ELSE plan[p].new
  /\ pc[p] \in Writing => plan[p].before = ReadBy(p)
  /\ pc[p] \in Composed => plan[p].new = NewDoc(p, plan[p].seen)
  /\ pc[p] = "failed" => plan[p].new = [doc[plan[p].src] EXCEPT !.status = "failed"]

Timely == \A p \in Ops : Prompt(p) => InTime(p)

\* A version belongs to one Source.
MentionedBy(d, v) == d # None /\ v \in Range(d.captured)
Mentions(s, v) ==
  \/ MentionedBy(doc[s], v)
  \/ \E p \in Ops : plan[p].src = s /\ (v = p \/ \E d \in DocsOf(p) : MentionedBy(d, v))

OneOwner == \A s, t \in Sources, v \in Versions : Mentions(s, v) /\ Mentions(t, v) => s = t

\* What nobody has captured yet, nobody knows.
Unknown(p) ==
  /\ \A s \in Sources : ~MentionedBy(doc[s], p)
  /\ \A q \in Ops \ {p} : \A d \in DocsOf(q) : ~MentionedBy(d, p)
  /\ \A k \in Kinds : <<p, k>> \notin archive

OwnReading(p) == ~MentionedBy(plan[p].seen, p) /\ ~MentionedBy(plan[p].before, p)

Captured(p) ==
  /\ OwnReading(p)
  /\ plan[p].placed = 0 => Unknown(p)
  /\ plan[p].placed > 0 /\ pc[p] = "replacing" =>
       /\ <<p, "raw">> \in archive <=> plan[p].placed > 1
       /\ <<p, "metadata">> \in archive <=> plan[p].placed > 2
       /\ plan[p].placed > 1 => bytes[p] = DigestOf[plan[p].page]

Freshness ==
  \A p \in Ops :
    /\ pc[p] = "idle" => Unknown(p)
    /\ Working(p) /\ Capturing(p) => Captured(p)

\* The invariant of a Source that no crash and no late operation has spoilt.
Clean(s) == s \notin torn \cup overtaken

MayUndo(p) == pc[p] \in Writing /\ plan[p].placed > 0 /\ (p \in Web \/ ~Complete(p))
Removing(p) == pc[p] = "removing" /\ plan[p].placed > 1

ListedIn(d) == Range(d.captured) \X {"raw", "metadata"} \cup Range(d.texts) \X {"text", "record"}
Texts(d) == Range(d.texts) \X {"text"}

\* What d says of the archive is true of these files.
Good(d, files_, hashes) ==
  d # None => /\ ListedIn(d) \subseteq files_
              /\ d.captured # <<>> => hashes[Last(d.captured)] = d.digest
Waits(d, files_) ==
  d # None /\ d.status \in {"captured", "failed"} /\ d.captured # <<>> =>
    ({Last(d.captured)} \X {"text", "record"}) \cap files_ = {}

\* While one writes, the others are late, or preview something else.
CommitAlone(s) ==
  \A r \in Ops : plan[r].src = s /\ Committing(r) =>
    /\ ~plan[r].late
    /\ \A q \in Ops \ {r} : plan[q].src = s =>
         plan[q].late \/ (pc[q] = "planned" /\ (r \in Web \/ plan[q].before # doc[s]))

\* The texts that a preview lists stay.
PreviewKept(q, s) ==
  pc[q] = "planned" /\ ~plan[q].late /\ plan[q].before # None =>
    /\ Texts(plan[q].before) \subseteq archive
    /\ \A r \in Ops : plan[r].src = s /\ MayUndo(r) /\ ~plan[r].late =>
         Texts(plan[q].before) \cap Undone(r) = {}

\* Nobody else extracts what r extracts.
ExtractsAlone(r) ==
  Prompt(r) /\ Processing(r) =>
    /\ pc[r] \in {"looked", "composed", "approved"} => AssetSet(r) \cap archive = {}
    /\ pc[r] \in {"planned", "approved"} \cup Writing => plan[r].held = {}
    /\ pc[r] \in Writing => AssetSet(r) \cap archive = {Assets(r)[i] : i \in 1 .. plan[r].placed - 1}

MayRetry(r) ==
  ~plan[r].late /\ pc[r] \in {"failing", "failed"} /\ plan[r].seen.captured # <<>> =>
    AssetSet(r) \cap archive = {}

Previews(s) == \A q \in Ops : plan[q].src = s => PreviewKept(q, s)
Extractions(s) == \A r \in Ops : plan[r].src = s => ExtractsAlone(r)

\* The Source is right, and so is what may be put back.
Verified(s) ==
  /\ (\A r \in Ops : plan[r].src = s => ~Committing(r)) => Good(doc[s], archive, bytes)
  /\ \A r \in Ops : plan[r].src = s /\ ~plan[r].late /\ MayUndo(r) =>
       Good(plan[r].before, archive \ Undone(r), bytes)

Processable(s) ==
  /\ (\A r \in Ops : plan[r].src = s => ~Removing(r)) => Waits(doc[s], archive)
  /\ \A r \in Ops : plan[r].src = s /\ ~plan[r].late /\ MayUndo(r) =>
       Waits(plan[r].before, archive \ Undone(r))
  /\ \A r \in Ops : plan[r].src = s => MayRetry(r)

SourceInv(s) ==
  /\ Clean(s) => CommitAlone(s) /\ Previews(s) /\ Extractions(s) /\ Verified(s)
  /\ Clean(s) /\ s \notin spoiled => Processable(s)

SourcesInv == \A s \in Sources : SourceInv(s)

\* Duplicates.
Unrolled(s) == s \in Existing \ rolledBack /\ Clean(s)
NamedOrTogether ==
  \A s, t \in Sources :
    s # t /\ Unrolled(s) /\ Unrolled(t) /\ doc[s].digest # None /\ doc[s].digest = doc[t].digest =>
      \/ s \in doc[t].upstream \/ t \in doc[s].upstream
      \/ {LatestOf(s), LatestOf(t)} \in together
Foreseen ==
  \A p \in Ops, t \in Sources :
    Working(p) /\ Capturing(p) /\ plan[p].placed = 0 /\ t # plan[p].src /\ Unrolled(t)
      /\ doc[t].digest = DigestOf[plan[p].page] =>
        t \in plan[p].dups \/ {p, LatestOf(t)} \in together
-----------------------------------------------------------------------------
(* Lists.                                                                  *)

LEMMA RangeIn ==
  ASSUME NEW S, NEW seq \in Seq(S)
  PROVE  /\ Range(seq) \subseteq S
         /\ seq # <<>> => Last(seq) \in Range(seq)
         /\ seq = <<>> => Range(seq) = {}
<1>1. Range(seq) = {seq[i] : i \in 1 .. Len(seq)} /\ Len(seq) \in Nat
  BY RangeEquality
<1>2. ASSUME seq # <<>> PROVE Last(seq) \in Range(seq)
  BY <1>1, <1>2, EmptySeq DEF Last
<1>3. Range(seq) \subseteq S
  BY <1>1, ElementOfSeq
<1> QED BY <1>1, <1>2, <1>3

LEMMA RangeAppend ==
  ASSUME NEW S, NEW seq \in Seq(S), NEW x \in S
  PROVE  /\ Append(seq, x) \in Seq(S) /\ Append(seq, x) # <<>>
         /\ Last(Append(seq, x)) = x
         /\ Range(Append(seq, x)) = Range(seq) \cup {x}
<1> DEFINE long == Append(seq, x)
<1>1. long \in Seq(S) /\ long # <<>> /\ Len(long) = Len(seq) + 1
      /\ (\A i \in 1 .. Len(seq) : long[i] = seq[i]) /\ long[Len(seq) + 1] = x
  BY AppendProperties
<1>2. Range(seq) = {seq[i] : i \in 1 .. Len(seq)} /\ Range(long) = {long[i] : i \in 1 .. Len(long)}
  BY <1>1, RangeEquality
<1>3. Len(seq) \in Nat
  OBVIOUS
<1> HIDE DEF long
<1>4. Last(long) = x
  BY <1>1 DEF Last
<1>5. Range(long) = Range(seq) \cup {x}
  BY <1>1, <1>2, <1>3
<1> QED BY <1>1, <1>4, <1>5 DEF long

LEMMA EmptyList == ASSUME NEW S PROVE <<>> \in Seq(S) /\ Range(<<>>) = {}
BY RangeIn, EmptySeq

-----------------------------------------------------------------------------
(* The Sources that can be written.                                        *)

LEMMA Constants ==
  /\ None \notin Docs /\ None \notin Sources /\ None \notin Pages /\ None \notin Digests
  /\ Web \subseteq Ops /\ First \notin Ops /\ First \in Versions /\ Ops \subseteq Versions
BY ArchiveConstants, NoneIsNoDoc DEF Versions

LEMMA DraftShaped == Draft \in ShapedDocs
<1>1. Draft \in Docs
  BY EmptyList DEF Draft, Docs, Statuses
<1>2. Shape(Draft)
  BY EmptyList DEF Shape, Draft
<1> QED BY <1>1, <1>2 DEF ShapedDocs

LEMMA FirstShaped ==
  /\ FirstDoc \in ShapedDocs /\ FirstDoc.digest \in Digests
  /\ FirstDoc.status = "processed" /\ FirstDoc.upstream = {}
  /\ FirstDoc.captured # <<>> /\ Last(FirstDoc.captured) = First
  /\ Range(FirstDoc.captured) = {First} /\ Range(FirstDoc.texts) = {First}
<1>1. Digests # {}
  BY ArchiveConstants DEF Digests
<1> DEFINE dg == CHOOSE d \in Digests : TRUE
<1>2. dg \in Digests
  BY <1>1
<1> DEFINE nothing == <<>>
           one == Append(nothing, First)
<1>3. one = <<First>>
  OBVIOUS
<1>4. one \in Seq(Versions) /\ one # <<>> /\ Last(one) = First /\ Range(one) = {First}
  <2>1. nothing \in Seq(Versions) /\ Range(nothing) = {} /\ First \in Versions
    BY EmptyList, Constants
  <2> HIDE DEF nothing
  <2> QED BY <2>1, RangeAppend
<1>5. FirstDoc = [status |-> "processed", captured |-> one, texts |-> one,
                  digest |-> dg, url |-> None, upstream |-> {}]
  BY <1>3, Zenon DEF FirstDoc
<1> HIDE DEF one, dg
<1>6. FirstDoc \in Docs
  BY <1>2, <1>4, <1>5 DEF Docs, Statuses
<1>7. Shape(FirstDoc)
  BY <1>4, <1>5 DEF Shape
<1> QED BY <1>2, <1>4, <1>5, <1>6, <1>7 DEF ShapedDocs

\* What an operation composes from a Source that it has read.
Composes(p) ==
  /\ plan[p].op \in Operations /\ plan[p].seen \in ShapedDocs /\ plan[p].dups \in SUBSET Sources
  /\ Capturing(p) => plan[p].page \in Pages
  /\ Processing(p) => plan[p].seen.captured # <<>>

LEMMA NewDocShaped ==
  ASSUME NEW p \in Ops, Composes(p), NEW read \in ShapedDocs
  PROVE  /\ NewDoc(p, read) \in ShapedDocs
         /\ Capturing(p) =>
              /\ NewDoc(p, read).status = "captured" /\ NewDoc(p, read).texts = plan[p].seen.texts
              /\ NewDoc(p, read).captured # <<>> /\ Last(NewDoc(p, read).captured) = p
              /\ Range(NewDoc(p, read).captured) = Range(plan[p].seen.captured) \cup {p}
              /\ NewDoc(p, read).digest = DigestOf[plan[p].page]
              /\ NewDoc(p, read).upstream = Upstream(p, read)
         /\ Processing(p) =>
              /\ NewDoc(p, read).status = "processed"
              /\ NewDoc(p, read).captured = plan[p].seen.captured
              /\ Range(NewDoc(p, read).texts) = Range(plan[p].seen.texts) \cup {Last(plan[p].seen.captured)}
              /\ NewDoc(p, read).digest = read.digest /\ NewDoc(p, read).upstream = read.upstream
         /\ ~Capturing(p) /\ ~Processing(p) => NewDoc(p, read) = read
<1> DEFINE seen == plan[p].seen
           page == plan[p].page
           n == NewDoc(p, read)
<1>1. /\ seen \in Docs /\ Shape(seen) /\ read \in Docs /\ Shape(read)
      /\ seen.captured \in Seq(Versions) /\ seen.texts \in Seq(Versions) /\ p \in Versions
  BY Constants DEF Composes, ShapedDocs, Docs
<1>2. CASE Capturing(p)
  <2>0. plan[p].op # "confirm" /\ plan[p].op # "process" /\ page \in Pages
    BY <1>2 DEF Capturing, CaptureOps, Composes
  <2>1. n = [status |-> "captured", captured |-> Append(seen.captured, p), texts |-> seen.texts,
             digest |-> DigestOf[page],
             url |-> IF UrlOf[page] = None THEN read.url ELSE UrlOf[page],
             upstream |-> Upstream(p, read)]
    BY <2>0 DEF NewDoc, FetchedStatus
  <2>2. /\ Append(seen.captured, p) \in Seq(Versions) /\ Append(seen.captured, p) # <<>>
        /\ Last(Append(seen.captured, p)) = p
        /\ Range(Append(seen.captured, p)) = Range(seen.captured) \cup {p}
    BY <1>1, RangeAppend
  <2>3. DigestOf[page] \in Digests /\ UrlOf[page] \in Urls
    BY <2>0 DEF Digests, Urls
  <2>4. Upstream(p, read) \in SUBSET Sources
    BY <1>1 DEF Upstream, Composes, Docs
  <2>5. (IF UrlOf[page] = None THEN read.url ELSE UrlOf[page]) \in Urls \cup {None}
    BY <1>1, <2>3 DEF Docs
  <2> HIDE DEF n, seen, page
  <2>6. n \in Docs
    BY <1>1, <2>1, <2>2, <2>3, <2>4, <2>5 DEF Docs, Statuses
  <2>7. Shape(n)
    BY <1>1, <2>1, <2>2 DEF Shape
  <2>8. /\ n.status = "captured" /\ n.texts = seen.texts /\ n.captured # <<>> /\ Last(n.captured) = p
        /\ Range(n.captured) = Range(seen.captured) \cup {p}
        /\ n.digest = DigestOf[page] /\ n.upstream = Upstream(p, read)
    BY <2>1, <2>2
  <2>9. ~Processing(p)
    BY <2>0 DEF Processing
  <2> QED BY <1>2, <2>6, <2>7, <2>8, <2>9 DEF n, seen, page, ShapedDocs
<1>3. CASE Processing(p)
  <2>0. plan[p].op # "confirm" /\ plan[p].op = "process" /\ ~Capturing(p) /\ seen.captured # <<>>
    BY <1>3 DEF Processing, Composes, Capturing, CaptureOps
  <2> DEFINE v == Last(seen.captured)
  <2>1. n = [read EXCEPT !.status = "processed", !.captured = seen.captured,
                         !.texts = Append(seen.texts, v)]
    BY <2>0, Zenon DEF NewDoc, VersionOf
  <2>2. v \in Range(seen.captured) /\ Range(seen.captured) \subseteq Versions
    BY <1>1, <2>0, RangeIn
  <2>3. /\ Append(seen.texts, v) \in Seq(Versions) /\ Append(seen.texts, v) # <<>>
        /\ Last(Append(seen.texts, v)) = v
        /\ Range(Append(seen.texts, v)) = Range(seen.texts) \cup {v}
    BY <1>1, <2>2, RangeAppend
  <2> DEFINE longer == Append(seen.texts, v)
  <2> HIDE DEF n, seen, page, v, longer
  <2>4. /\ n \in Docs /\ n.status = "processed" /\ n.captured = seen.captured /\ n.texts = longer
        /\ n.digest = read.digest /\ n.upstream = read.upstream
    <3>1. longer \in Seq(Versions)
      BY <2>3 DEF longer
    <3>2. n = [read EXCEPT !.status = "processed", !.captured = seen.captured, !.texts = longer]
      BY <2>1 DEF longer
    <3> QED BY <1>1, <3>1, <3>2 DEF Docs, Statuses
  <2>5. Shape(n)
    <3>1. longer # <<>> /\ Last(longer) = v /\ Range(longer) = Range(seen.texts) \cup {v}
      BY <2>3 DEF longer
    <3>2. Range(seen.texts) \subseteq Range(seen.captured) /\ seen.captured # <<>>
      BY <1>1, <2>0 DEF Shape
    <3>3. v = Last(seen.captured)
      BY DEF v
    <3>4. Range(n.texts) \subseteq Range(n.captured)
      BY <2>2, <2>4, <3>1, <3>2
    <3>5. n.texts # <<>> /\ n.captured # <<>> /\ Last(n.texts) = Last(n.captured)
      BY <2>4, <3>1, <3>2, <3>3
    <3>6. n.status = "processed"
      BY <2>4
    <3> QED BY <3>4, <3>5, <3>6 DEF Shape
  <2>6. n \in ShapedDocs
    BY <2>4, <2>5 DEF ShapedDocs
  <2>7. Range(n.texts) = Range(seen.texts) \cup {v}
    BY <2>3, <2>4 DEF longer
  <2> QED BY <1>3, <2>0, <2>4, <2>6, <2>7 DEF n, seen, page, v
<1>4. CASE ~Capturing(p) /\ ~Processing(p)
  <2>1. plan[p].op = "confirm"
    BY <1>4 DEF Composes, Operations, Capturing, Processing, CaptureOps
  <2>2. n = read
    BY <2>1 DEF NewDoc
  <2> QED BY <1>4, <2>2
<1> QED BY <1>2, <1>3, <1>4

LEMMA FailedShaped ==
  ASSUME NEW read \in ShapedDocs, NEW n, n = [read EXCEPT !.status = "failed"]
  PROVE  /\ n \in ShapedDocs /\ n.status = "failed" /\ n.captured = read.captured
         /\ n.texts = read.texts /\ n.digest = read.digest /\ n.upstream = read.upstream
<1>1. /\ n \in Docs /\ n.status = "failed" /\ n.captured = read.captured
      /\ n.texts = read.texts /\ n.digest = read.digest /\ n.upstream = read.upstream
  BY DEF Docs, Statuses, ShapedDocs
<1>2. Shape(n)
  BY <1>1 DEF Shape, ShapedDocs
<1> QED BY <1>1, <1>2 DEF ShapedDocs

-----------------------------------------------------------------------------
(* What an operation has planned.                                          *)

LEMMA PlanTyped ==
  ASSUME NEW x \in ShapedPlans
  PROVE  /\ x \in Plans /\ x.op \in Operations \cup {None} /\ x.src \in Sources \cup {None}
         /\ x.page \in Pages \cup {None} /\ x.dups \in SUBSET Sources
         /\ x.seen \in ShapedDocs \cup {None} /\ x.new \in ShapedDocs \cup {None}
         /\ x.before \in ShapedDocs \cup {None} /\ x.held \in SUBSET (Versions \X Kinds)
         /\ x.placed \in 0 .. 3 /\ x.late \in BOOLEAN
BY DEF ShapedPlans, Plans

LEMMA NoPlanShaped ==
  /\ NoPlan \in ShapedPlans /\ NoPlan.src = None /\ NoPlan.placed = 0 /\ ~NoPlan.late
  /\ NoPlan.seen = None /\ NoPlan.new = None /\ NoPlan.before = None
<1>1. /\ NoPlan.src = None /\ NoPlan.placed = 0 /\ ~NoPlan.late
      /\ NoPlan.seen = None /\ NoPlan.new = None /\ NoPlan.before = None
  BY DEF NoPlan
<1>2. NoPlan \in Plans
  BY DEF NoPlan, Plans
<1> QED BY <1>1, <1>2 DEF ShapedPlans

LEMMA WorkingPlan ==
  ASSUME Base, NEW p \in Ops, Working(p)
  PROVE  /\ plan[p] \in ShapedPlans /\ StageOf(p, plan[p], pc[p])
         /\ plan[p].op \in Operations /\ plan[p].src \in Sources
         /\ plan[p].seen \in ShapedDocs /\ plan[p].seen \in Docs
         /\ plan[p].dups \in SUBSET Sources
         /\ Capturing(p) => plan[p].page \in Pages
         /\ ~Capturing(p) => plan[p].page = None
         /\ (Processing(p) => pc[p] \in Composed \cup {"looked"}) => Composes(p)
<1>1. plan[p] \in ShapedPlans /\ StageOf(p, plan[p], pc[p])
  BY DEF Base, Stages, Stage, Working
<1>2. /\ plan[p].op \in Operations /\ plan[p].src \in Sources /\ plan[p].seen \in ShapedDocs
      /\ plan[p].dups \in SUBSET Sources
      /\ Capturing(p) => plan[p].page \in Pages
      /\ ~Capturing(p) => plan[p].page = None
  BY <1>1, PlanTyped DEF StageOf, Writing, Capturing
<1>3. (Processing(p) => pc[p] \in Composed \cup {"looked"}) => Composes(p)
  BY <1>1, <1>2 DEF StageOf, Writing, Composes, Processing
<1> QED BY <1>1, <1>2, <1>3 DEF ShapedDocs

LEMMA AssetFacts ==
  ASSUME NEW p, plan[p].op \in Operations
  PROVE  /\ Capturing(p) =>
              /\ Len(Assets(p)) = 2 /\ Assets(p)[1] = <<p, "raw">> /\ Assets(p)[2] = <<p, "metadata">>
              /\ AssetSet(p) = {<<p, "raw">>, <<p, "metadata">>} /\ ~Processing(p)
         /\ Processing(p) =>
              /\ VersionOf(p) = Last(plan[p].seen.captured) /\ Len(Assets(p)) = 2
              /\ Assets(p)[1] = <<VersionOf(p), "text">> /\ Assets(p)[2] = <<VersionOf(p), "record">>
              /\ AssetSet(p) = {<<VersionOf(p), "text">>, <<VersionOf(p), "record">>}
         /\ ~Capturing(p) /\ ~Processing(p) =>
              plan[p].op = "confirm" /\ Len(Assets(p)) = 0 /\ AssetSet(p) = {}
<1>0. \A a, b : Len(<<a, b>>) = 2 /\ <<a, b>>[1] = a /\ <<a, b>>[2] = b /\ Range(<<a, b>>) = {a, b}
  BY DEF Range
<1>1. ASSUME Capturing(p)
      PROVE  ~Processing(p) /\ Assets(p) = <<<<p, "raw">>, <<p, "metadata">>>>
  BY <1>1 DEF Capturing, CaptureOps, Processing, Assets
<1>2. ASSUME Processing(p)
      PROVE  /\ VersionOf(p) = Last(plan[p].seen.captured)
             /\ Assets(p) = <<<<VersionOf(p), "text">>, <<VersionOf(p), "record">>>>
  <2>1. VersionOf(p) = Last(plan[p].seen.captured)
    BY <1>2 DEF Processing, VersionOf
  <2>2. plan[p].op = "process" /\ plan[p].op \notin {"add", "fetch"}
    BY <1>2 DEF Processing
  <2>3. Assets(p) = <<<<VersionOf(p), "text">>, <<VersionOf(p), "record">>>>
    BY <2>2, Zenon DEF Assets
  <2> QED BY <2>1, <2>3
<1>3. ASSUME ~Capturing(p), ~Processing(p)
      PROVE  plan[p].op = "confirm" /\ Len(Assets(p)) = 0 /\ AssetSet(p) = {}
  <2>1. plan[p].op = "confirm"
    BY <1>3 DEF Operations, Capturing, CaptureOps, Processing
  <2>2. Assets(p) = <<>>
    BY <2>1 DEF Assets
  <2> QED BY <2>1, <2>2, EmptyList DEF AssetSet
<1>4. Capturing(p) => AssetSet(p) = {<<p, "raw">>, <<p, "metadata">>}
  BY <1>0, <1>1 DEF AssetSet
<1>5. Processing(p) => AssetSet(p) = {<<VersionOf(p), "text">>, <<VersionOf(p), "record">>}
  BY <1>0, <1>2 DEF AssetSet
<1>6. Capturing(p) => /\ Len(Assets(p)) = 2 /\ Assets(p)[1] = <<p, "raw">>
                      /\ Assets(p)[2] = <<p, "metadata">>
  BY <1>0, <1>1
<1>7. Processing(p) => /\ Len(Assets(p)) = 2 /\ Assets(p)[1] = <<VersionOf(p), "text">>
                       /\ Assets(p)[2] = <<VersionOf(p), "record">>
  BY <1>0, <1>2
<1> QED BY <1>1, <1>2, <1>3, <1>4, <1>5, <1>6, <1>7

-----------------------------------------------------------------------------
(* Steps: p goes on with the plan x, the operations of L become late.      *)

Later(x) == [x EXCEPT !.late = TRUE]

StepTo(p, x, step, L) ==
  /\ plan' = [q \in Ops |-> IF q = p THEN x ELSE IF q \in L THEN Later(plan[q]) ELSE plan[q]]
  /\ pc' = [q \in Ops |-> IF q = p THEN step ELSE pc[q]]

\* What all operations but p keep.
Keeps(q) ==
  /\ pc'[q] = pc[q]
  /\ plan'[q].op = plan[q].op /\ plan'[q].src = plan[q].src /\ plan'[q].page = plan[q].page
  /\ plan'[q].seen = plan[q].seen /\ plan'[q].dups = plan[q].dups
  /\ plan'[q].new = plan[q].new /\ plan'[q].before = plan[q].before
  /\ plan'[q].held = plan[q].held /\ plan'[q].placed = plan[q].placed
  /\ plan[q].late => plan'[q].late

LEMMA LaterFacts ==
  ASSUME NEW x \in ShapedPlans
  PROVE  /\ Later(x) \in ShapedPlans /\ Later(x).late
         /\ Later(x).op = x.op /\ Later(x).src = x.src /\ Later(x).page = x.page
         /\ Later(x).seen = x.seen /\ Later(x).dups = x.dups
         /\ Later(x).new = x.new /\ Later(x).before = x.before
         /\ Later(x).held = x.held /\ Later(x).placed = x.placed
<1>1. x \in Plans
  BY DEF ShapedPlans
<1>2. /\ Later(x) \in Plans /\ Later(x).late
      /\ Later(x).op = x.op /\ Later(x).src = x.src /\ Later(x).page = x.page
      /\ Later(x).seen = x.seen /\ Later(x).dups = x.dups
      /\ Later(x).new = x.new /\ Later(x).before = x.before
      /\ Later(x).held = x.held /\ Later(x).placed = x.placed
  BY <1>1 DEF Later, Plans
<1> QED BY <1>2 DEF ShapedPlans

LEMMA StepKeeps ==
  ASSUME Base, NEW p \in Ops, NEW x, NEW step, NEW L, StepTo(p, x, step, L)
  PROVE  /\ plan'[p] = x /\ pc'[p] = step
         /\ \A q \in Ops \ {p} : /\ Keeps(q) /\ plan'[q] \in ShapedPlans
                                 /\ q \in L => plan'[q].late
                                 /\ q \notin L => plan'[q] = plan[q]
<1>1. plan'[p] = x /\ pc'[p] = step
  BY DEF StepTo
<1>2. ASSUME NEW q \in Ops \ {p}
      PROVE  /\ Keeps(q) /\ plan'[q] \in ShapedPlans
             /\ q \in L => plan'[q].late
             /\ q \notin L => plan'[q] = plan[q]
  <2>1. plan[q] \in ShapedPlans /\ pc'[q] = pc[q]
        /\ plan'[q] = (IF q \in L THEN Later(plan[q]) ELSE plan[q])
    BY DEF Base, StepTo
  <2> QED BY <2>1, LaterFacts DEF Keeps
<1> QED BY <1>1, <1>2

FilesTyped ==
  /\ doc \in [Sources -> ShapedDocs \cup {None}]
  /\ archive \in SUBSET (Versions \X Kinds)
  /\ bytes \in [Versions -> Digests \cup {None}]
  /\ published \in [Sources -> Seq(Versions)]
  /\ {torn, overtaken, spoiled, rolledBack} \subseteq SUBSET Sources
  /\ together \in SUBSET (SUBSET Versions)
  /\ faults \in 0 .. MaxFaults

LEMMA BaseTyped == Base => FilesTyped
BY DEF Base, TypeOK, FilesTyped

LEMMA BaseStep ==
  ASSUME Base, NEW p \in Ops, NEW x \in ShapedPlans, NEW step \in Steps, Stage(p, x, step),
         NEW L, \A q \in L \cap Ops : Working(q), StepTo(p, x, step, L), FilesTyped',
         \/ step \in {"idle", "planned", "done"} \/ ~HandlerWaits(p) \/ p \notin Web
         \/ \A q \in Web : HandlerWaits(q)
  PROVE  Base'
<1>0. /\ plan'[p] = x /\ pc'[p] = step
      /\ \A q \in Ops \ {p} : /\ Keeps(q) /\ plan'[q] \in ShapedPlans
                              /\ q \in L => plan'[q].late
                              /\ q \notin L => plan'[q] = plan[q]
  BY StepKeeps
<1>1. plan' \in [Ops -> ShapedPlans]
  <2>1. \A q \in Ops : plan'[q] \in ShapedPlans
    BY <1>0
  <2>2. DOMAIN plan' = Ops /\ plan' = [q \in Ops |-> plan'[q]]
    BY DEF StepTo
  <2> QED BY <2>1, <2>2
<1>2. pc' \in [Ops -> Steps]
  BY DEF StepTo, Base, TypeOK
<1>3. TypeOK'
  <2>1. doc' \in [Sources -> Docs \cup {None}]
    BY DEF FilesTyped, ShapedDocs
  <2>2. plan' \in [Ops -> Plans]
    BY <1>1 DEF ShapedPlans
  <2> QED BY <1>2, <2>1, <2>2 DEF FilesTyped, TypeOK
<1>4. Stages'
  <2>1. ASSUME NEW q \in Ops \ {p} PROVE Stage(q, plan'[q], pc'[q])
    <3>1. Stage(q, plan[q], pc[q])
      BY DEF Base, Stages
    <3>2. CASE q \in L
      <4>1. StageOf(q, plan[q], pc[q]) /\ pc[q] \notin {"idle", "done"}
        BY <3>1, <3>2 DEF Stage, Working
      <4> QED BY <1>0, <4>1 DEF Keeps, Stage, StageOf, Writing
    <3>3. CASE q \notin L
      BY <1>0, <3>1, <3>3 DEF Keeps
    <3> QED BY <3>2, <3>3
  <2> QED BY <1>0, <2>1 DEF Stages
<1>5. OneHandler'
  <2>1. \A q \in Ops \ {p} : pc'[q] = pc[q]
    BY <1>0 DEF Keeps
  <2>2. Web \subseteq Ops
    BY Constants
  <2> QED BY <1>0, <2>1, <2>2 DEF Base, OneHandler, HandlerWaits
<1> QED BY <1>1, <1>3, <1>4, <1>5 DEF FilesTyped, Base

-----------------------------------------------------------------------------
(* Steps that write no file: p goes on with the plan x.                    *)

LocalTo(p, x, step) ==
  /\ x \in ShapedPlans /\ step \in Steps /\ Stage(p, x, step) /\ x.placed = 0
  /\ StepTo(p, x, step, {})
  /\ UNCHANGED <<files, published, overtaken, rolledBack, together>>
  /\ torn \subseteq torn' /\ spoiled \subseteq spoiled'
  /\ Base'

LEMMA LocalBase ==
  ASSUME Base, NEW p \in Ops, NEW x \in ShapedPlans, NEW step \in Steps, Stage(p, x, step),
         x.placed = 0, StepTo(p, x, step, {}),
         UNCHANGED <<files, published, overtaken, rolledBack, together>>,
         torn \subseteq torn' /\ torn' \subseteq Sources,
         spoiled \subseteq spoiled' /\ spoiled' \subseteq Sources,
         faults' \in 0 .. MaxFaults,
         \/ step \in {"idle", "planned", "done"} \/ ~HandlerWaits(p) \/ p \notin Web
         \/ \A q \in Web : HandlerWaits(q)
  PROVE  LocalTo(p, x, step)
<1>1. FilesTyped'
  BY BaseTyped DEF FilesTyped, files
<1>2. Base'
  BY <1>1, BaseStep
<1> QED BY <1>2 DEF LocalTo

LEMMA EndSteps ==
  ASSUME Base, NEW p \in Ops, End(p)
  PROVE  StepTo(p, NoPlan, "done", {}) /\ Stage(p, NoPlan, "done")
BY DEF End, StepTo, Base, TypeOK, Stage

Agree(x, y) ==
  /\ x.op = y.op /\ x.src = y.src /\ x.page = y.page /\ x.seen = y.seen /\ x.dups = y.dups
  /\ x.placed = y.placed /\ x.late = y.late

SamePlan(x, y) ==
  /\ x.op = y.op /\ x.src = y.src /\ x.page = y.page /\ x.seen = y.seen /\ x.dups = y.dups
  /\ x.late = y.late /\ x.new = y.new /\ x.before = y.before /\ x.held = y.held

LEMMA UpdatedNew ==
  ASSUME NEW x \in ShapedPlans, NEW d \in ShapedDocs \cup {None},
         NEW y, y = [x EXCEPT !.new = d]
  PROVE  y \in ShapedPlans /\ Agree(y, x) /\ y.new = d /\ y.before = x.before /\ y.held = x.held
<1>1. x \in Plans /\ ShapedDocs \subseteq Docs
  BY DEF ShapedPlans, ShapedDocs
<1>2. {x.seen, x.new, x.before} \subseteq ShapedDocs \cup {None}
  BY DEF ShapedPlans
<1>3. y \in Plans /\ Agree(y, x) /\ y.new = d /\ y.before = x.before /\ y.held = x.held
  BY <1>1 DEF Plans, Agree
<1> QED BY <1>2, <1>3 DEF ShapedPlans, Agree

LEMMA UpdatedBefore ==
  ASSUME NEW x \in ShapedPlans, NEW d \in ShapedDocs \cup {None},
         NEW y, y = [x EXCEPT !.before = d]
  PROVE  y \in ShapedPlans /\ Agree(y, x) /\ y.new = x.new /\ y.before = d /\ y.held = x.held
<1>1. x \in Plans /\ ShapedDocs \subseteq Docs
  BY DEF ShapedPlans, ShapedDocs
<1>2. {x.seen, x.new, x.before} \subseteq ShapedDocs \cup {None}
  BY DEF ShapedPlans
<1>3. y \in Plans /\ Agree(y, x) /\ y.new = x.new /\ y.before = d /\ y.held = x.held
  BY <1>1 DEF Plans, Agree
<1> QED BY <1>2, <1>3 DEF ShapedPlans, Agree

LEMMA UpdatedPlaced ==
  ASSUME NEW x \in ShapedPlans, NEW n \in 0 .. 3,
         NEW y, y = [x EXCEPT !.placed = n]
  PROVE  y \in ShapedPlans /\ y.op = x.op /\ y.src = x.src /\ y.page = x.page
         /\ y.seen = x.seen /\ y.dups = x.dups /\ y.late = x.late /\ y.placed = n
         /\ y.new = x.new /\ y.before = x.before /\ y.held = x.held
<1>1. x \in Plans /\ ShapedDocs \subseteq Docs
  BY DEF ShapedPlans, ShapedDocs
<1>2. {x.seen, x.new, x.before} \subseteq ShapedDocs \cup {None}
  BY DEF ShapedPlans
<1>3. y \in Plans /\ y.op = x.op /\ y.src = x.src /\ y.page = x.page
         /\ y.seen = x.seen /\ y.dups = x.dups /\ y.late = x.late /\ y.placed = n
         /\ y.new = x.new /\ y.before = x.before /\ y.held = x.held
  BY <1>1 DEF Plans, Agree
<1> QED BY <1>2, <1>3 DEF ShapedPlans, Agree

\* The plan of an operation that has begun.
BegunPlan(x, op, s, page, dups) ==
  /\ x.op = op /\ x.src = s /\ x.page = page /\ x.dups = dups
  /\ x.seen = (IF op = "add" THEN Draft ELSE doc[s])
  /\ x.new = None /\ x.before = None
  /\ x.late <=> \E q \in Ops : plan[q].src = s /\ Committing(q)

LEMMA StartLocal ==
  ASSUME Base, NEW p \in Ops, NEW op \in Operations, NEW s \in Sources,
         NEW page \in Pages \cup {None}, NEW dups \in SUBSET Sources,
         op \in CaptureOps <=> page # None, op # "add" => s \in Existing,
         Start(p, op, s, page, dups)
  PROVE  \E x : BegunPlan(x, op, s, page, dups) /\ LocalTo(p, x, "begun")
<1> DEFINE seen == IF op = "add" THEN Draft ELSE doc[s]
           late == \E q \in Ops : plan[q].src = s /\ Committing(q)
           x == [NoPlan EXCEPT !.op = op, !.src = s, !.page = page, !.dups = dups,
                               !.seen = seen, !.late = late]
<1>1. seen \in ShapedDocs /\ seen # None
  <2>1. CASE op = "add"
    BY <2>1, DraftShaped, Constants DEF ShapedDocs
  <2>2. CASE op # "add"
    BY <2>2 DEF Existing, Base
  <2> QED BY <2>1, <2>2
<1>2. late \in BOOLEAN
  OBVIOUS
<1>3. plan' = [plan EXCEPT ![p] = x] /\ pc' = [pc EXCEPT ![p] = "begun"] /\ pc[p] = "idle"
      /\ UNCHANGED <<files, histories, faults>> /\ (p \in Web => WebFree)
  BY Zenon DEF Start
<1>4. seen = (IF op = "add" THEN Draft ELSE doc[s])
  OBVIOUS
<1>5. late <=> \E q \in Ops : plan[q].src = s /\ Committing(q)
  OBVIOUS
<1> HIDE DEF seen, late
<1>6. /\ x.op = op /\ x.src = s /\ x.page = page /\ x.dups = dups /\ x.seen = seen /\ x.late = late
      /\ x.new = None /\ x.before = None /\ x.held = {} /\ x.placed = 0
  BY DEF NoPlan
<1>7. x \in Plans
  <2>1. NoPlan \in Plans /\ seen \in Docs
    BY <1>1, NoPlanShaped DEF ShapedPlans, ShapedDocs
  <2>2. op \in Operations \cup {None} /\ s \in Sources \cup {None} /\ seen \in Docs \cup {None}
    BY <2>1
  <2> QED BY <1>2, <2>1, <2>2 DEF Plans
<1> HIDE DEF x
<1>8. x \in ShapedPlans
  BY <1>1, <1>6, <1>7 DEF ShapedPlans
<1>9. Stage(p, x, "begun")
  BY <1>1, <1>4, <1>6 DEF Stage, StageOf, Composed, Writing
<1>10. StepTo(p, x, "begun", {})
  BY <1>3 DEF StepTo, Base, TypeOK
<1>11. p \in Web => \A q \in Web : HandlerWaits(q)
  BY <1>3 DEF WebFree, HandlerWaits
<1>12. LocalTo(p, x, "begun")
  <2>1. UNCHANGED <<files, published, overtaken, rolledBack, together>> /\ torn' = torn /\ spoiled' = spoiled
        /\ faults' = faults /\ torn \subseteq Sources /\ spoiled \subseteq Sources
        /\ faults \in 0 .. MaxFaults
    BY <1>3 DEF histories, Base, TypeOK
  <2>2. "begun" \in Steps
    BY DEF Steps
  <2> QED BY <1>6, <1>8, <1>9, <1>10, <1>11, <2>1, <2>2, LocalBase
<1>13. BegunPlan(x, op, s, page, dups)
  BY <1>4, <1>5, <1>6 DEF BegunPlan
<1> QED BY <1>12, <1>13

\* Leaving, or staying with the same plan.
LEMMA LeaveLocal ==
  ASSUME Base, NEW p \in Ops, End(p),
         UNCHANGED <<files, published, overtaken, rolledBack, together>>,
         torn \subseteq torn' /\ torn' \subseteq Sources,
         spoiled \subseteq spoiled' /\ spoiled' \subseteq Sources, faults' \in 0 .. MaxFaults
  PROVE  LocalTo(p, NoPlan, "done")
<1>1. NoPlan \in ShapedPlans /\ NoPlan.placed = 0 /\ "done" \in Steps
  BY NoPlanShaped DEF Steps
<1> QED BY <1>1, EndSteps, LocalBase

LEMMA StayLocal ==
  ASSUME Base, NEW p \in Ops, Working(p), plan[p].placed = 0,
         NEW step \in Steps \ {"idle", "done"}, StageOf(p, plan[p], step),
         pc' = [pc EXCEPT ![p] = step], plan' = plan,
         UNCHANGED <<files, published, overtaken, rolledBack, together, torn>>,
         spoiled \subseteq spoiled' /\ spoiled' \subseteq Sources, faults' \in 0 .. MaxFaults,
         \/ ~HandlerWaits(p) \/ p \notin Web
         \/ \A q \in Web : HandlerWaits(q)
  PROVE  LocalTo(p, plan[p], step)
<1>1. plan[p] \in ShapedPlans /\ torn \subseteq Sources
  BY DEF Base, TypeOK
<1>2. StepTo(p, plan[p], step, {})
  BY DEF StepTo, Base, TypeOK
<1>3. Stage(p, plan[p], step)
  BY DEF Stage
<1> QED BY <1>1, <1>2, <1>3, LocalBase

LEMMA HistoriesTyped ==
  Base => /\ torn \subseteq Sources /\ spoiled \subseteq Sources /\ overtaken \subseteq Sources
          /\ rolledBack \subseteq Sources /\ faults \in 0 .. MaxFaults /\ MaxFaults \in Nat
BY ArchiveConstants DEF Base, TypeOK

LEMMA FaultTyped == Base /\ Fault => faults' \in 0 .. MaxFaults
BY HistoriesTyped DEF Fault

LEMMA LookLocal ==
  ASSUME Base, NEW p \in Ops, Look(p)
  PROVE  Working(p) /\ LocalTo(p, plan[p], "looked")
<1>1. /\ pc[p] = "begun" /\ Processing(p) /\ plan[p].seen.captured # <<>>
      /\ pc' = [pc EXCEPT ![p] = "looked"] /\ plan' = plan
      /\ UNCHANGED <<files, published, overtaken, rolledBack, together, torn, spoiled, faults>>
  BY DEF Look, histories, HasVersion, Processing
<1>2. Working(p) /\ ~HandlerWaits(p) /\ "looked" \in Steps \ {"idle", "done"}
  BY <1>1 DEF Working, HandlerWaits, Steps
<1>3. StageOf(p, plan[p], "looked") /\ plan[p].placed = 0
  BY <1>1, <1>2, WorkingPlan, PlanTyped DEF StageOf, Processing, Composed, Writing
<1> QED BY <1>1, <1>2, <1>3, StayLocal, HistoriesTyped

\* An operation that is refused leaves, or is going to record a failure.
RefusedTo(p) ==
  \/ LocalTo(p, NoPlan, "done")
  \/ p \notin Web /\ Processing(p) /\ LocalTo(p, plan[p], "failing")

LEMMA RefuseLocal ==
  ASSUME Base, NEW p \in Ops, Working(p), Processing(p), plan[p].placed = 0, Refuse(p),
         ~HandlerWaits(p),
         UNCHANGED <<files, published, overtaken, rolledBack, together, torn>>,
         spoiled \subseteq spoiled' /\ spoiled' \subseteq Sources, faults' \in 0 .. MaxFaults
  PROVE  RefusedTo(p)
<1>1. CASE p \in Web
  BY <1>1, LeaveLocal, HistoriesTyped DEF Refuse, RefusedTo
<1>2. CASE p \notin Web
  <2>1. pc' = [pc EXCEPT ![p] = "failing"] /\ plan' = plan
    BY <1>2 DEF Refuse
  <2>2. StageOf(p, plan[p], "failing") /\ "failing" \in Steps \ {"idle", "done"}
    BY <1>2, WorkingPlan DEF StageOf, Processing, Composed, Writing, Steps
  <2> QED BY <1>2, <2>1, <2>2, StayLocal DEF RefusedTo
<1> QED BY <1>1, <1>2

LEMMA LookRefusesLocal ==
  ASSUME Base, NEW p \in Ops, LookRefuses(p)
  PROVE  /\ Working(p) /\ pc[p] = "begun" /\ Processing(p) /\ UNCHANGED spoiled
         /\ \/ LocalTo(p, NoPlan, "done")
            \/ /\ p \notin Web /\ LocalTo(p, plan[p], "failing")
               /\ HasVersion(p) => Extracted(p) # {} /\ ~AlreadyProcessed(p)
<1>1. /\ pc[p] = "begun" /\ Processing(p) /\ (HasVersion(p) => Extracted(p) # {})
      /\ IF HasVersion(p) /\ AlreadyProcessed(p) THEN End(p) ELSE Refuse(p)
      /\ UNCHANGED <<files, published, overtaken, rolledBack, together, torn, spoiled, faults>>
  BY DEF LookRefuses, histories, Processing
<1>2. Working(p) /\ ~HandlerWaits(p)
  BY <1>1 DEF Working, HandlerWaits
<1>3. plan[p].placed = 0
  BY <1>1, <1>2, WorkingPlan, PlanTyped DEF StageOf, Writing
<1>4. CASE HasVersion(p) /\ AlreadyProcessed(p)
  BY <1>1, <1>2, <1>4, LeaveLocal, HistoriesTyped
<1>5. CASE ~(HasVersion(p) /\ AlreadyProcessed(p))
  <2>1. RefusedTo(p)
    BY <1>1, <1>2, <1>3, <1>5, RefuseLocal, HistoriesTyped
  <2> QED BY <1>1, <1>2, <1>5, <2>1 DEF RefusedTo
<1> QED BY <1>4, <1>5

LEMMA LookFailsLocal ==
  ASSUME Base, NEW p \in Ops, LookFails(p)
  PROVE  /\ Working(p) /\ pc[p] = "begun" /\ Processing(p) /\ RefusedTo(p)
         /\ plan[p].seen.captured # <<>> /\ Extracted(p) # {} /\ p \notin Web => plan[p].src \in spoiled'
<1>1. /\ pc[p] = "begun" /\ Processing(p) /\ Fault /\ Refuse(p)
      /\ spoiled' = IF plan[p].seen.captured # <<>> /\ Extracted(p) # {} /\ p \notin Web
                    THEN spoiled \cup {plan[p].src} ELSE spoiled
      /\ UNCHANGED <<files, published, overtaken, rolledBack, together, torn>>
  BY DEF LookFails, Processing
<1>2. Working(p) /\ ~HandlerWaits(p)
  BY <1>1 DEF Working, HandlerWaits
<1>3. plan[p].placed = 0 /\ plan[p].src \in Sources
  BY <1>1, <1>2, WorkingPlan, PlanTyped DEF StageOf, Writing
<1>4. spoiled \subseteq spoiled' /\ spoiled' \subseteq Sources
  BY <1>1, <1>3, HistoriesTyped
<1>5. faults' \in 0 .. MaxFaults
  BY <1>1, FaultTyped
<1>6. RefusedTo(p)
  BY <1>1, <1>2, <1>3, <1>4, <1>5, RefuseLocal
<1> QED BY <1>1, <1>2, <1>6

LEMMA ComposeLocal ==
  ASSUME Base, NEW p \in Ops, Compose(p)
  PROVE  LET read == IF plan[p].op = "add" THEN Draft ELSE doc[plan[p].src]
         IN  /\ Working(p) /\ pc[p] = (IF Processing(p) THEN "looked" ELSE "begun")
             /\ read \in ShapedDocs /\ Composes(p)
             /\ \E x : /\ LocalTo(p, x, "composed") /\ Agree(x, plan[p]) /\ x.new = NewDoc(p, read)
                       /\ x.before = plan[p].before /\ x.held = plan[p].held
<1> DEFINE read == IF plan[p].op = "add" THEN Draft ELSE doc[plan[p].src]
           x == [plan[p] EXCEPT !.new = NewDoc(p, read)]
<1>1. /\ pc[p] = (IF Processing(p) THEN "looked" ELSE "begun") /\ read # None
      /\ plan' = [plan EXCEPT ![p].new = NewDoc(p, read)] /\ pc' = [pc EXCEPT ![p] = "composed"]
      /\ UNCHANGED <<files, published, overtaken, rolledBack, together, torn, spoiled, faults>>
  BY DEF Compose, histories, Processing
<1>2. Working(p) /\ ~HandlerWaits(p)
  BY <1>1 DEF Working, HandlerWaits
<1>3. /\ plan[p] \in ShapedPlans /\ StageOf(p, plan[p], pc[p]) /\ plan[p].src \in Sources /\ Composes(p)
  BY <1>1, <1>2, WorkingPlan
<1>4. plan[p].placed = 0
  BY <1>1, <1>3, PlanTyped DEF StageOf, Writing
<1>5. read \in ShapedDocs
  BY <1>1, <1>3, DraftShaped DEF Base
<1>6. NewDoc(p, read) \in ShapedDocs
  BY <1>3, <1>5, NewDocShaped
<1>7. /\ x \in ShapedPlans /\ Agree(x, plan[p]) /\ x.new = NewDoc(p, read)
      /\ x.before = plan[p].before /\ x.held = plan[p].held
  <2>1. x = [plan[p] EXCEPT !.new = NewDoc(p, read)]
    OBVIOUS
  <2> HIDE DEF x
  <2> QED BY <1>3, <1>6, <2>1, UpdatedNew
<1>8. StepTo(p, x, "composed", {})
  BY <1>1 DEF StepTo, Base, TypeOK
<1> HIDE DEF x, read
<1>9. Stage(p, x, "composed")
  <2>1. x.new # None
    BY <1>6, <1>7, Constants DEF ShapedDocs
  <2>2. x.op = "process" => x.seen.captured # <<>>
    BY <1>1, <1>3, <1>7 DEF StageOf, Writing, Agree, Processing
  <2> QED BY <1>3, <1>4, <1>7, <2>1, <2>2 DEF Stage, StageOf, Writing, Agree
<1>10. LocalTo(p, x, "composed")
  <2>1. x.placed = 0 /\ "composed" \in Steps
    BY <1>4, <1>7 DEF Agree, Steps
  <2> QED BY <1>1, <1>2, <1>7, <1>8, <1>9, <2>1, LocalBase, HistoriesTyped
<1> QED BY <1>1, <1>2, <1>3, <1>5, <1>7, <1>10 DEF read

LEMMA GiveUpLocal ==
  ASSUME Base, NEW p \in Ops, GiveUp(p)
  PROVE  LocalTo(p, NoPlan, "done") /\ plan[p].placed = 0
<1>1. End(p) /\ UNCHANGED <<files, published, overtaken, rolledBack, together, torn, spoiled, faults>>
      /\ pc[p] \in {"begun", "looked", "composed", "planned", "approved", "failing", "failed"}
  BY DEF GiveUp, histories
<1>2. plan[p].placed = 0
  <2>1. Working(p) /\ pc[p] \notin Writing
    BY <1>1 DEF Working, Writing
  <2> QED BY <2>1, WorkingPlan, PlanTyped DEF StageOf, Writing
<1> QED BY <1>1, <1>2, LeaveLocal, HistoriesTyped

LEMMA HeldTyped ==
  ASSUME Base, NEW p PROVE AssetSet(p) \cap archive \in SUBSET (Versions \X Kinds)
BY DEF Base, TypeOK

LEMMA PreviewLocal ==
  ASSUME Base, NEW p \in Ops, Preview(p)
  PROVE  /\ Working(p) /\ p \in Web /\ pc[p] = "composed"
         /\ \E x : /\ LocalTo(p, x, "planned") /\ Agree(x, plan[p]) /\ x.new = plan[p].new
                   /\ x.before = doc[plan[p].src] /\ x.held = AssetSet(p) \cap archive
<1> DEFINE x == [plan[p] EXCEPT !.before = doc[plan[p].src], !.held = AssetSet(p) \cap archive]
<1>1. /\ p \in Web /\ pc[p] = "composed" /\ pc' = [pc EXCEPT ![p] = "planned"]
      /\ plan' = [plan EXCEPT ![p].before = doc[plan[p].src], ![p].held = AssetSet(p) \cap archive]
      /\ UNCHANGED <<files, published, overtaken, rolledBack, together, torn, spoiled, faults>>
  BY DEF Preview, histories
<1>2. Working(p) /\ ~HandlerWaits(p)
  BY <1>1 DEF Working, HandlerWaits
<1>3. plan[p] \in ShapedPlans /\ StageOf(p, plan[p], pc[p]) /\ plan[p].src \in Sources
  BY <1>2, WorkingPlan
<1>4. plan[p].placed = 0
  BY <1>1, <1>3, PlanTyped DEF StageOf, Writing
<1>5. doc[plan[p].src] \in ShapedDocs \cup {None}
  BY <1>3 DEF Base
<1>6. /\ x \in ShapedPlans /\ Agree(x, plan[p]) /\ x.new = plan[p].new
      /\ x.before = doc[plan[p].src] /\ x.held = AssetSet(p) \cap archive
  <2>1. x = [plan[p] EXCEPT !.before = doc[plan[p].src], !.held = AssetSet(p) \cap archive]
    OBVIOUS
  <2>2. AssetSet(p) \cap archive \in SUBSET (Versions \X Kinds)
    BY HeldTyped
  <2> DEFINE d == doc[plan[p].src]
             h == AssetSet(p) \cap archive
             y == plan[p]
             z == [y EXCEPT !.before = d]
  <2>3. y \in ShapedPlans /\ d \in ShapedDocs \cup {None} /\ h \in SUBSET (Versions \X Kinds)
        /\ x = [z EXCEPT !.held = h] /\ z = [y EXCEPT !.before = d]
    BY <1>3, <1>5, <2>1, <2>2
  <2> HIDE DEF x, y, z, d, h
  <2>4. z \in ShapedPlans /\ Agree(z, y) /\ z.new = y.new /\ z.before = d
    BY <2>3, UpdatedBefore
  <2>5. x \in ShapedPlans /\ Agree(x, z) /\ x.new = z.new /\ x.before = z.before /\ x.held = h
    <3>1. z \in Plans /\ {z.seen, z.new, z.before} \subseteq ShapedDocs \cup {None}
      BY <2>4 DEF ShapedPlans
    <3>2. x \in Plans /\ Agree(x, z) /\ x.new = z.new /\ x.before = z.before /\ x.held = h
      BY <2>3, <3>1 DEF Plans, Agree
    <3> QED BY <3>1, <3>2 DEF ShapedPlans, Agree
  <2>6. Agree(x, y) /\ x.new = y.new /\ x.before = d
    BY <2>4, <2>5 DEF Agree
  <2> QED BY <2>5, <2>6 DEF y, d, h
<1>7. StepTo(p, x, "planned", {})
  BY <1>1 DEF StepTo, Base, TypeOK
<1> HIDE DEF x
<1>8. Stage(p, x, "planned")
  BY <1>1, <1>3, <1>4, <1>6 DEF Stage, StageOf, Agree, Composed, Writing
<1>9. LocalTo(p, x, "planned")
  <2>1. x.placed = 0 /\ "planned" \in Steps
    BY <1>4, <1>6 DEF Agree, Steps
  <2> QED BY <1>1, <1>2, <1>6, <1>7, <1>8, <2>1, LocalBase, HistoriesTyped
<1> QED BY <1>1, <1>2, <1>6, <1>9

LEMMA ConfirmLocal ==
  ASSUME Base, NEW p \in Ops, Confirm(p)
  PROVE  /\ Working(p) /\ pc[p] = "planned" /\ LocalTo(p, plan[p], "approved")
         /\ doc[plan[p].src] = plan[p].before /\ AssetSet(p) \cap archive = plan[p].held
<1>1. /\ p \in Web /\ pc[p] = "planned" /\ WebFree /\ pc' = [pc EXCEPT ![p] = "approved"]
      /\ plan' = plan /\ Version(p) = <<plan[p].before, plan[p].held>>
      /\ UNCHANGED <<files, published, overtaken, rolledBack, together, torn, spoiled, faults>>
  BY DEF Confirm, AsPreviewed, histories
<1>2. Working(p) /\ \A q \in Web : HandlerWaits(q)
  BY <1>1 DEF Working, WebFree, HandlerWaits
<1>3. plan[p] \in ShapedPlans /\ StageOf(p, plan[p], pc[p])
  BY <1>2, WorkingPlan
<1>4. plan[p].placed = 0
  BY <1>1, <1>3, PlanTyped DEF StageOf, Writing
<1>5. StageOf(p, plan[p], "approved") /\ "approved" \in Steps \ {"idle", "done"}
  BY <1>1, <1>3, <1>4 DEF StageOf, Composed, Writing, Steps
<1>6. doc[plan[p].src] = plan[p].before /\ AssetSet(p) \cap archive = plan[p].held
  BY <1>1 DEF Version
<1> QED BY <1>1, <1>2, <1>4, <1>5, <1>6, StayLocal, HistoriesTyped

LEMMA PreflightLocal ==
  ASSUME Base, NEW p \in Ops, Preflight(p)
  PROVE  /\ Working(p) /\ pc[p] = (IF p \in Web THEN "approved" ELSE "composed") /\ Fits(p)
         /\ \E x : /\ LocalTo(p, x, "replacing") /\ Agree(x, plan[p]) /\ x.new = plan[p].new
                   /\ x.before = doc[plan[p].src] /\ x.held = plan[p].held
<1> DEFINE x == [plan[p] EXCEPT !.before = doc[plan[p].src]]
<1>1. /\ pc[p] = (IF p \in Web THEN "approved" ELSE "composed") /\ Fits(p)
      /\ plan' = [plan EXCEPT ![p].before = doc[plan[p].src]] /\ pc' = [pc EXCEPT ![p] = "replacing"]
      /\ UNCHANGED <<files, published, overtaken, rolledBack, together, torn, spoiled, faults>>
  BY DEF Preflight, histories
<1>2. Working(p) /\ ~HandlerWaits(p)
  BY <1>1 DEF Working, HandlerWaits
<1>3. plan[p] \in ShapedPlans /\ StageOf(p, plan[p], pc[p]) /\ plan[p].src \in Sources
  BY <1>2, WorkingPlan
<1>4. plan[p].placed = 0
  BY <1>1, <1>3, PlanTyped DEF StageOf, Writing
<1>5. doc[plan[p].src] \in ShapedDocs \cup {None}
  BY <1>3 DEF Base
<1>6. /\ x \in ShapedPlans /\ Agree(x, plan[p]) /\ x.new = plan[p].new
      /\ x.before = doc[plan[p].src] /\ x.held = plan[p].held
  <2>1. x = [plan[p] EXCEPT !.before = doc[plan[p].src]]
    OBVIOUS
  <2> HIDE DEF x
  <2> QED BY <1>3, <1>5, <2>1, UpdatedBefore
<1>7. StepTo(p, x, "replacing", {})
  BY <1>1 DEF StepTo, Base, TypeOK
<1> HIDE DEF x
<1>8. Stage(p, x, "replacing")
  BY <1>1, <1>3, <1>4, <1>6 DEF Stage, StageOf, Agree, Composed, Writing
<1>9. LocalTo(p, x, "replacing")
  <2>1. x.placed = 0 /\ "replacing" \in Steps
    BY <1>4, <1>6 DEF Agree, Steps
  <2> QED BY <1>1, <1>2, <1>6, <1>7, <1>8, <2>1, LocalBase, HistoriesTyped
<1> QED BY <1>1, <1>2, <1>6, <1>9

LEMMA SamePlaced ==
  ASSUME NEW x \in Plans, x.placed = 0 PROVE [x EXCEPT !.placed = 0] = x
BY DEF Plans

LEMMA FailLocal ==
  ASSUME Base, NEW p \in Ops, Working(p), ~HandlerWaits(p), plan[p].placed = 0, Fail(p),
         UNCHANGED <<files, published, overtaken, rolledBack, together, torn, spoiled>>,
         faults' \in 0 .. MaxFaults
  PROVE  RefusedTo(p)
<1>1. CASE Processing(p) /\ p \notin Web
  <2>1. pc' = [pc EXCEPT ![p] = "failing"] /\ plan' = [plan EXCEPT ![p].placed = 0]
    BY <1>1 DEF Fail, Processing
  <2>2. [plan[p] EXCEPT !.placed = 0] = plan[p] /\ plan \in [Ops -> Plans]
    BY SamePlaced DEF Base, TypeOK
  <2>3. plan' = plan
    BY <2>1, <2>2
  <2>4. StageOf(p, plan[p], "failing") /\ "failing" \in Steps \ {"idle", "done"}
    BY <1>1, WorkingPlan DEF StageOf, Processing, Composed, Writing, Steps
  <2> QED BY <1>1, <2>1, <2>3, <2>4, StayLocal, HistoriesTyped DEF RefusedTo
<1>2. CASE ~(Processing(p) /\ p \notin Web)
  BY <1>2, LeaveLocal, HistoriesTyped DEF Fail, Processing, RefusedTo
<1> QED BY <1>1, <1>2

LEMMA PreflightRefusesLocal ==
  ASSUME Base, NEW p \in Ops, PreflightRefuses(p)
  PROVE  /\ Working(p) /\ pc[p] = (IF p \in Web THEN "approved" ELSE "composed")
         /\ RefusedTo(p) /\ UNCHANGED spoiled
<1>1. /\ pc[p] = (IF p \in Web THEN "approved" ELSE "composed") /\ Fail(p)
      /\ UNCHANGED <<files, published, overtaken, rolledBack, together, torn, spoiled, faults>>
  BY DEF PreflightRefuses, histories
<1>2. Working(p) /\ ~HandlerWaits(p)
  BY <1>1 DEF Working, HandlerWaits
<1>3. plan[p].placed = 0
  BY <1>1, <1>2, WorkingPlan, PlanTyped DEF StageOf, Writing
<1> QED BY <1>1, <1>2, <1>3, FailLocal, HistoriesTyped

LEMMA FinishLocal ==
  ASSUME Base, NEW p \in Ops, Finish(p)
  PROVE  Working(p) /\ ~Committing(p) /\ LocalTo(p, NoPlan, "done") /\ UNCHANGED spoiled
<1>1. /\ End(p)
      /\ (pc[p] = "replacing" /\ Complete(p)) \/ (pc[p] = "removing" /\ plan[p].placed = 1)
      /\ UNCHANGED <<files, published, overtaken, rolledBack, together, torn, spoiled, faults>>
  BY DEF Finish, histories
<1>2. Working(p) /\ ~Committing(p)
  BY <1>1 DEF Working, Committing
<1> QED BY <1>1, <1>2, LeaveLocal, HistoriesTyped

LEMMA CrashLocal ==
  ASSUME Base, NEW p \in Ops, Crash(p)
  PROVE  /\ Working(p) /\ Committing(p) /\ plan[p].src \in torn' /\ UNCHANGED spoiled
         /\ LocalTo(p, NoPlan, "done")
<1>1. /\ End(p) /\ Committing(p) /\ Fault /\ torn' = torn \cup {plan[p].src}
      /\ UNCHANGED <<files, published, overtaken, rolledBack, together, spoiled>>
  BY DEF Crash
<1>2. Working(p)
  BY <1>1 DEF Committing, Working
<1>3. plan[p].src \in Sources
  BY <1>2, WorkingPlan
<1> QED BY <1>1, <1>2, <1>3, LeaveLocal, HistoriesTyped, FaultTyped

LEMMA UndoFailsLocal ==
  ASSUME Base, NEW p \in Ops, UndoFails(p)
  PROVE  /\ Working(p) /\ Committing(p) /\ plan[p].src \in torn' /\ UNCHANGED spoiled
         /\ pc[p] \in {"undoing", "removing"}
         /\ \/ LocalTo(p, NoPlan, "done")
            \/ \E x : /\ p \notin Web /\ Processing(p) /\ x.placed = 0 /\ SamePlan(x, plan[p])
                      /\ LocalTo(p, x, "failing")
<1>1. /\ Fail(p) /\ Committing(p) /\ Fault /\ torn' = torn \cup {plan[p].src}
      /\ pc[p] # "replacing"
      /\ UNCHANGED <<files, published, overtaken, rolledBack, together, spoiled>>
  BY DEF UndoFails
<1>2. Working(p) /\ pc[p] \in {"undoing", "removing"} /\ ~HandlerWaits(p)
  BY <1>1 DEF Committing, Working, HandlerWaits
<1>3. plan[p] \in ShapedPlans /\ StageOf(p, plan[p], pc[p]) /\ plan[p].src \in Sources
  BY <1>2, WorkingPlan
<1>4. torn \subseteq torn' /\ torn' \subseteq Sources /\ spoiled' \subseteq Sources
      /\ spoiled \subseteq spoiled' /\ faults' \in 0 .. MaxFaults
  BY <1>1, <1>3, HistoriesTyped, FaultTyped
<1>5. CASE Processing(p) /\ p \notin Web
  <2> DEFINE x == [plan[p] EXCEPT !.placed = 0]
  <2>1. pc' = [pc EXCEPT ![p] = "failing"] /\ plan' = [plan EXCEPT ![p] = x]
    BY <1>1, <1>5 DEF Fail, Processing
  <2>2. x \in ShapedPlans /\ x.placed = 0 /\ SamePlan(x, plan[p])
    <3>1. x = [plan[p] EXCEPT !.placed = 0] /\ 0 \in 0 .. 3
      OBVIOUS
    <3> HIDE DEF x
    <3> QED BY <1>3, <3>1, UpdatedPlaced DEF SamePlan
  <2> HIDE DEF x
  <2>3. StepTo(p, x, "failing", {})
    BY <2>1 DEF StepTo, Base, TypeOK
  <2>4. Stage(p, x, "failing") /\ "failing" \in Steps
    BY <1>3, <1>5, <2>2 DEF Stage, StageOf, SamePlan, Composed, Writing, Steps, Processing
  <2>5. LocalTo(p, x, "failing")
    BY <1>1, <1>2, <1>4, <2>2, <2>3, <2>4, LocalBase
  <2> QED BY <1>1, <1>2, <1>5, <2>2, <2>5
<1>6. CASE ~(Processing(p) /\ p \notin Web)
  <2>1. End(p)
    BY <1>1, <1>6 DEF Fail, Processing
  <2>2. LocalTo(p, NoPlan, "done")
    BY <1>1, <1>4, <2>1, LeaveLocal
  <2> QED BY <1>1, <1>2, <2>2
<1> QED BY <1>5, <1>6

LEMMA ReplaceFailsLocal ==
  ASSUME Base, NEW p \in Ops, ReplaceFails(p), plan[p].placed = 0
  PROVE  /\ Working(p) /\ pc[p] = "replacing" /\ RefusedTo(p) /\ UNCHANGED spoiled
<1>1. /\ pc[p] = "replacing" /\ Fault /\ Fail(p)
      /\ UNCHANGED <<files, published, overtaken, rolledBack, together, torn, spoiled>>
  BY DEF ReplaceFails, histories
<1>2. Working(p) /\ ~HandlerWaits(p)
  BY <1>1 DEF Working, HandlerWaits
<1> QED BY <1>1, <1>2, FailLocal, FaultTyped

LEMMA ReadFailedLocal ==
  ASSUME Base, NEW p \in Ops, ReadFailed(p)
  PROVE  LET read == doc[plan[p].src]
         IN  /\ Working(p) /\ pc[p] = "failing" /\ read \in ShapedDocs
             /\ \E x : /\ LocalTo(p, x, "failed") /\ Agree(x, plan[p])
                       /\ x.new = [read EXCEPT !.status = "failed"]
                       /\ x.before = plan[p].before /\ x.held = plan[p].held
<1> DEFINE read == doc[plan[p].src]
           n == [read EXCEPT !.status = "failed"]
           x == [plan[p] EXCEPT !.new = n]
<1>1. /\ pc[p] = "failing" /\ read # None /\ plan' = [plan EXCEPT ![p].new = n]
      /\ pc' = [pc EXCEPT ![p] = "failed"]
      /\ UNCHANGED <<files, published, overtaken, rolledBack, together, torn, spoiled, faults>>
  BY DEF ReadFailed, histories
<1>2. Working(p) /\ ~HandlerWaits(p)
  BY <1>1 DEF Working, HandlerWaits
<1>3. plan[p] \in ShapedPlans /\ StageOf(p, plan[p], pc[p]) /\ plan[p].src \in Sources
  BY <1>2, WorkingPlan
<1>4. plan[p].placed = 0
  BY <1>1, <1>3, PlanTyped DEF StageOf, Writing
<1>5. read \in ShapedDocs
  BY <1>1, <1>3 DEF Base
<1> HIDE DEF n
<1>6. n \in ShapedDocs /\ n = [read EXCEPT !.status = "failed"]
  BY <1>5, FailedShaped DEF n
<1>7. /\ x \in ShapedPlans /\ Agree(x, plan[p]) /\ x.new = n
      /\ x.before = plan[p].before /\ x.held = plan[p].held
  <2>1. x = [plan[p] EXCEPT !.new = n]
    OBVIOUS
  <2> HIDE DEF x
  <2> QED BY <1>3, <1>6, <2>1, UpdatedNew
<1>8. StepTo(p, x, "failed", {})
  BY <1>1 DEF StepTo, Base, TypeOK
<1> HIDE DEF x
<1>9. Stage(p, x, "failed")
  <2>1. x.new # None
    BY <1>6, <1>7, Constants DEF ShapedDocs
  <2> QED BY <1>1, <1>3, <1>4, <1>7, <2>1 DEF Stage, StageOf, Agree, Composed, Writing
<1>10. LocalTo(p, x, "failed")
  <2>1. x.placed = 0 /\ "failed" \in Steps
    BY <1>4, <1>7 DEF Agree, Steps
  <2> QED BY <1>1, <1>2, <1>7, <1>8, <1>9, <2>1, LocalBase, HistoriesTyped
<1> QED BY <1>1, <1>2, <1>5, <1>6, <1>7, <1>10

-----------------------------------------------------------------------------
(* Steps that write a file.                                                *)

OthersOn(p) == {q \in Ops \ {p} : Exposed(q, plan[p].src)}

\* p writes the Source, which becomes d, and goes on with the plan x.
WriteTo(p, d, x, step) ==
  /\ x \in ShapedPlans /\ step \in Steps /\ Stage(p, x, step) /\ d \in ShapedDocs \cup {None}
  /\ StepTo(p, x, step, OthersOn(p))
  /\ doc' = [doc EXCEPT ![plan[p].src] = d]
  /\ overtaken' = IF plan[p].late THEN overtaken \cup {plan[p].src} ELSE overtaken
  /\ UNCHANGED <<torn, spoiled>>
  /\ Base'

LEMMA OthersWork == ASSUME Base, NEW p \in Ops, Working(p) PROVE \A q \in OthersOn(p) : Working(q)
<1> SUFFICES ASSUME NEW q \in OthersOn(p), ~Working(q) PROVE FALSE
  OBVIOUS
<1>1. plan[q].src = plan[p].src /\ q \in Ops
  BY DEF OthersOn, Exposed
<1>2. plan[q] = NoPlan
  BY <1>1 DEF Base, Stages, Stage, Working
<1>3. plan[p].src # None
  BY WorkingPlan, Constants
<1> QED BY <1>1, <1>2, <1>3, NoPlanShaped

LEMMA WriteBase ==
  ASSUME Base, NEW p \in Ops, Working(p), NEW d \in ShapedDocs \cup {None},
         NEW x \in ShapedPlans, NEW step \in Steps, Stage(p, x, step), ~HandlerWaits(p),
         plan' = [WithLate(p) EXCEPT ![p] = x], pc' = [pc EXCEPT ![p] = step],
         Rewrite(p, d), UNCHANGED <<torn, spoiled>>,
         archive' \in SUBSET (Versions \X Kinds), bytes' \in [Versions -> Digests \cup {None}],
         published' \in [Sources -> Seq(Versions)],
         rolledBack' \subseteq Sources, together' \in SUBSET (SUBSET Versions),
         faults' \in 0 .. MaxFaults
  PROVE  WriteTo(p, d, x, step)
<1>1. StepTo(p, x, step, OthersOn(p))
  BY DEF WithLate, OthersOn, StepTo, Later, Base, TypeOK
<1>2. /\ doc' = [doc EXCEPT ![plan[p].src] = d]
      /\ overtaken' = IF plan[p].late THEN overtaken \cup {plan[p].src} ELSE overtaken
  BY DEF Rewrite, Overtake
<1>3. FilesTyped'
  <2>1. doc' \in [Sources -> ShapedDocs \cup {None}]
    BY <1>2 DEF Base
  <2>2. overtaken' \subseteq Sources
    BY <1>2, WorkingPlan, HistoriesTyped
  <2>3. torn' \subseteq Sources /\ spoiled' \subseteq Sources
    BY HistoriesTyped
  <2> QED BY <2>1, <2>2, <2>3 DEF FilesTyped
<1>4. \A q \in OthersOn(p) \cap Ops : Working(q)
  BY OthersWork
<1>5. Base'
  BY <1>1, <1>3, <1>4, BaseStep
<1> QED BY <1>1, <1>2, <1>5 DEF WriteTo

LEMMA ReplaceSourceWrites ==
  ASSUME Base, NEW p \in Ops, ReplaceSource(p)
  PROVE  /\ Working(p) /\ pc[p] = "replacing" /\ plan[p].placed = 0
         /\ UNCHANGED <<archive, bytes, rolledBack>>
         /\ together' = IF p \in Captures THEN together \cup {{p, q} : q \in Captures \ {p}}
                        ELSE together
         /\ published' = IF Capturing(p)
                         THEN [published EXCEPT ![plan[p].src] = Append(published[plan[p].src], p)]
                         ELSE published
         /\ \E x : /\ WriteTo(p, plan[p].new, x, "replacing") /\ x.placed = 1
                   /\ x.op = plan[p].op /\ x.src = plan[p].src /\ x.page = plan[p].page
                   /\ x.seen = plan[p].seen /\ x.dups = plan[p].dups /\ x.late = plan[p].late
                   /\ x.new = plan[p].new /\ x.before = plan[p].before /\ x.held = plan[p].held
<1> DEFINE x == [plan[p] EXCEPT !.placed = 1]
<1>1. /\ pc[p] = "replacing" /\ plan[p].placed = 0 /\ Rewrite(p, plan[p].new)
      /\ plan' = [WithLate(p) EXCEPT ![p].placed = 1]
      /\ together' = IF p \in Captures THEN together \cup {{p, q} : q \in Captures \ {p}}
                     ELSE together
      /\ published' = IF p \in Captures
                      THEN [published EXCEPT ![plan[p].src] = Append(published[plan[p].src], p)]
                      ELSE published
      /\ UNCHANGED <<archive, bytes, pc, torn, spoiled, rolledBack, faults>>
  BY DEF ReplaceSource
<1>2. Working(p) /\ ~HandlerWaits(p) /\ (p \in Captures <=> Capturing(p))
  BY <1>1 DEF Working, HandlerWaits, Captures, AtWork, Capturing, CaptureOps
<1>3. /\ plan[p] \in ShapedPlans /\ StageOf(p, plan[p], pc[p]) /\ plan[p].src \in Sources
      /\ plan[p].new \in ShapedDocs \cup {None}
  BY <1>2, WorkingPlan, PlanTyped
<1>4. plan' = [WithLate(p) EXCEPT ![p] = x]
  BY <1>1 DEF WithLate
<1>5. pc' = [pc EXCEPT ![p] = "replacing"]
  BY <1>1 DEF Base, TypeOK
<1>6. /\ x \in ShapedPlans /\ x.op = plan[p].op /\ x.src = plan[p].src /\ x.page = plan[p].page
      /\ x.seen = plan[p].seen /\ x.dups = plan[p].dups /\ x.late = plan[p].late
      /\ x.placed = 1
      /\ x.new = plan[p].new /\ x.before = plan[p].before /\ x.held = plan[p].held
  <2>1. x = [plan[p] EXCEPT !.placed = 1] /\ 1 \in 0 .. 3
    OBVIOUS
  <2> HIDE DEF x
  <2> QED BY <1>3, <2>1, UpdatedPlaced
<1> HIDE DEF x
<1>7. Stage(p, x, "replacing") /\ "replacing" \in Steps
  BY <1>1, <1>3, <1>6 DEF Stage, StageOf, Composed, Writing, Steps
<1>8. together' \in SUBSET (SUBSET Versions)
  <2>1. \A q \in Captures : {p, q} \in SUBSET Versions
    BY Constants DEF Captures, AtWork
  <2>2. together \in SUBSET (SUBSET Versions)
    BY DEF Base, TypeOK
  <2>3. together' \subseteq together \cup {{p, q} : q \in Captures \ {p}}
    BY <1>1
  <2> QED BY <2>1, <2>2, <2>3
<1>9. archive' \in SUBSET (Versions \X Kinds) /\ bytes' \in [Versions -> Digests \cup {None}]
      /\ rolledBack' \subseteq Sources /\ faults' \in 0 .. MaxFaults
  BY <1>1 DEF Base, TypeOK
<1>11. published' \in [Sources -> Seq(Versions)]
  <2>1. published \in [Sources -> Seq(Versions)] /\ p \in Versions
    BY Constants DEF Base, TypeOK
  <2>2. Append(published[plan[p].src], p) \in Seq(Versions)
    BY <1>3, <2>1, AppendProperties
  <2> QED BY <1>1, <2>1, <2>2
<1>10. WriteTo(p, plan[p].new, x, "replacing")
  BY <1>1, <1>2, <1>3, <1>4, <1>5, <1>6, <1>7, <1>8, <1>9, <1>11, WriteBase
<1> QED BY <1>1, <1>2, <1>6, <1>10

LEMMA RecordFailureWrites ==
  ASSUME Base, NEW p \in Ops, RecordFailure(p)
  PROVE  /\ Working(p) /\ pc[p] = "failed" /\ doc[plan[p].src] # None
         /\ UNCHANGED <<archive, bytes, published, rolledBack, together>>
         /\ WriteTo(p, plan[p].new, NoPlan, "done")
<1>1. /\ pc[p] = "failed" /\ doc[plan[p].src] # None /\ Rewrite(p, plan[p].new)
      /\ pc' = [pc EXCEPT ![p] = "done"] /\ plan' = [WithLate(p) EXCEPT ![p] = NoPlan]
      /\ UNCHANGED <<archive, bytes, published, torn, spoiled, rolledBack, together, faults>>
  BY DEF RecordFailure
<1>2. Working(p) /\ ~HandlerWaits(p)
  BY <1>1 DEF Working, HandlerWaits
<1>3. plan[p].new \in ShapedDocs \cup {None}
  BY <1>2, WorkingPlan, PlanTyped
<1>4. NoPlan \in ShapedPlans /\ Stage(p, NoPlan, "done") /\ "done" \in Steps
  BY NoPlanShaped DEF Stage, Steps
<1>5. /\ archive' \in SUBSET (Versions \X Kinds) /\ bytes' \in [Versions -> Digests \cup {None}]
      /\ rolledBack' \subseteq Sources /\ faults' \in 0 .. MaxFaults
      /\ together' \in SUBSET (SUBSET Versions) /\ published' \in [Sources -> Seq(Versions)]
  BY <1>1 DEF Base, TypeOK
<1>6. WriteTo(p, plan[p].new, NoPlan, "done")
  BY <1>1, <1>2, <1>3, <1>4, <1>5, WriteBase
<1> QED BY <1>1, <1>2, <1>6

\* When the audit fails the Source stays for the moment, and who works on it is late.
LEMMA AuditFailsWrites ==
  ASSUME Base, NEW p \in Ops, AuditFails(p)
  PROVE  /\ Working(p) /\ pc[p] = "replacing" /\ p \in Web /\ Complete(p) /\ plan[p].placed > 0
         /\ UNCHANGED <<files, published, rolledBack, together>>
         /\ WriteTo(p, doc[plan[p].src], plan[p], "undoing")
<1>1. /\ pc[p] = "replacing" /\ Fault /\ p \in Web /\ Complete(p)
      /\ pc' = [pc EXCEPT ![p] = "undoing"] /\ plan' = WithLate(p) /\ Overtake(p)
      /\ UNCHANGED <<files, published, torn, spoiled, rolledBack, together>>
  BY DEF AuditFails
<1>2. Working(p) /\ ~HandlerWaits(p)
  BY <1>1 DEF Working, HandlerWaits
<1>3. /\ plan[p] \in ShapedPlans /\ StageOf(p, plan[p], pc[p]) /\ plan[p].src \in Sources
      /\ plan[p].placed \in 0 .. 3 /\ plan[p].op \in Operations
  BY <1>2, WorkingPlan, PlanTyped
<1>4. plan[p].placed > 0
  BY <1>1, <1>3, AssetFacts DEF Complete
<1>5. plan' = [WithLate(p) EXCEPT ![p] = plan[p]]
  BY <1>1 DEF WithLate
<1>6. Rewrite(p, doc[plan[p].src])
  BY <1>1, <1>3 DEF Rewrite, files, Base, TypeOK
<1>7. Stage(p, plan[p], "undoing") /\ "undoing" \in Steps
  BY <1>1, <1>3, <1>4 DEF Stage, StageOf, Composed, Writing, Steps
<1>8. /\ archive' \in SUBSET (Versions \X Kinds) /\ bytes' \in [Versions -> Digests \cup {None}]
      /\ rolledBack' \subseteq Sources /\ together' \in SUBSET (SUBSET Versions)
      /\ published' \in [Sources -> Seq(Versions)] /\ faults' \in 0 .. MaxFaults
      /\ UNCHANGED <<torn, spoiled>>
  BY <1>1, FaultTyped DEF Base, TypeOK, files
<1>9. doc[plan[p].src] \in ShapedDocs \cup {None}
  BY <1>3 DEF Base
<1>10. WriteTo(p, doc[plan[p].src], plan[p], "undoing")
  BY <1>1, <1>2, <1>3, <1>5, <1>6, <1>7, <1>8, <1>9, WriteBase
<1> QED BY <1>1, <1>2, <1>4, <1>10

LEMMA RetractTyped ==
  ASSUME NEW seq \in Seq(Versions), NEW p PROVE Retract(seq, p) \in Seq(Versions)
<1>1. CASE seq # <<>> /\ Last(seq) = p
  <2>1. Len(seq) \in Nat /\ Len(seq) > 0
    BY <1>1, EmptySeq
  <2>2. Front(seq) \in Seq(Versions)
    BY <2>1, SubSeqProperties DEF Front
  <2> QED BY <1>1, <2>2 DEF Retract
<1>2. CASE ~(seq # <<>> /\ Last(seq) = p)
  BY <1>2 DEF Retract
<1> QED BY <1>1, <1>2

LEMMA RestoreSourceWrites ==
  ASSUME Base, NEW p \in Ops, RestoreSource(p)
  PROVE  /\ Working(p) /\ MayUndo(p) /\ pc[p] = "undoing" /\ plan[p].placed > 0
         /\ UNCHANGED <<archive, bytes, together>>
         /\ rolledBack' = rolledBack \cup {plan[p].src}
         /\ published' = IF Capturing(p)
                         THEN [published EXCEPT ![plan[p].src] = Retract(published[plan[p].src], p)]
                         ELSE published
         /\ \/ plan[p].placed = 1 /\ WriteTo(p, plan[p].before, NoPlan, "done")
            \/ \E x : /\ p \notin Web /\ Processing(p) /\ x.placed = 0 /\ SamePlan(x, plan[p])
                      /\ plan[p].placed = 1 /\ WriteTo(p, plan[p].before, x, "failing")
            \/ p \in Web /\ WriteTo(p, plan[p].before, plan[p], "removing")
<1>1. /\ pc[p] = "undoing" /\ Rewrite(p, plan[p].before)
      /\ SourceFirst(p) \/ plan[p].placed = 1
      /\ published' = IF p \in Captures
                      THEN [published EXCEPT ![plan[p].src] = Retract(published[plan[p].src], p)]
                      ELSE published
      /\ rolledBack' = rolledBack \cup {plan[p].src}
      /\ UNCHANGED <<archive, bytes, torn, spoiled, together, faults>>
  BY DEF RestoreSource
<1>2. Working(p) /\ ~HandlerWaits(p) /\ (p \in Captures <=> Capturing(p))
  BY <1>1 DEF Working, HandlerWaits, Captures, AtWork, Capturing, CaptureOps
<1>3. /\ plan[p] \in ShapedPlans /\ StageOf(p, plan[p], pc[p]) /\ plan[p].src \in Sources
      /\ plan[p].before \in ShapedDocs \cup {None} /\ plan[p].placed \in 0 .. 3
      /\ plan[p].op \in Operations
  BY <1>2, WorkingPlan, PlanTyped
<1>4. plan[p].placed > 0 /\ (p \notin Web => plan[p].op # "confirm" /\ plan[p].placed < 3)
  BY <1>1, <1>3 DEF StageOf, Writing
<1>5. p \in Web \/ ~Complete(p)
  BY <1>3, <1>4, AssetFacts DEF Complete
<1>6. MayUndo(p)
  BY <1>1, <1>4, <1>5 DEF MayUndo, Writing
<1>7. /\ archive' \in SUBSET (Versions \X Kinds) /\ bytes' \in [Versions -> Digests \cup {None}]
      /\ rolledBack' \subseteq Sources /\ faults' \in 0 .. MaxFaults
      /\ together' \in SUBSET (SUBSET Versions) /\ UNCHANGED <<torn, spoiled>>
  <2>1. archive' \in SUBSET (Versions \X Kinds) /\ together' \in SUBSET (SUBSET Versions)
    BY <1>1 DEF Base, TypeOK
  <2>2. bytes' \in [Versions -> Digests \cup {None}] /\ faults' \in 0 .. MaxFaults
    BY <1>1 DEF Base, TypeOK
  <2>3. rolledBack' \subseteq Sources
    BY <1>1, <1>3, HistoriesTyped
  <2> QED BY <1>1, <2>1, <2>2, <2>3
<1>8. published' \in [Sources -> Seq(Versions)]
  <2>1. published \in [Sources -> Seq(Versions)]
    BY DEF Base, TypeOK
  <2>2. Retract(published[plan[p].src], p) \in Seq(Versions)
    BY <1>3, <2>1, RetractTyped
  <2> QED BY <1>1, <2>1, <2>2
<1>9. CASE SourceFirst(p)
  <2>1. pc' = [pc EXCEPT ![p] = "removing"] /\ plan' = WithLate(p)
    BY <1>9 DEF RestoreSource
  <2>2. p \in Web
    BY <1>5, <1>9 DEF SourceFirst
  <2>3. Stage(p, plan[p], "removing") /\ "removing" \in Steps
    BY <1>1, <1>3, <1>4, <2>2 DEF Stage, StageOf, Composed, Writing, Steps
  <2>4. plan' = [WithLate(p) EXCEPT ![p] = plan[p]]
    BY <2>1 DEF WithLate
  <2>5. WriteTo(p, plan[p].before, plan[p], "removing")
    BY <1>1, <1>2, <1>3, <1>7, <1>8, <2>1, <2>3, <2>4, WriteBase
  <2> QED BY <1>1, <1>2, <1>4, <1>6, <2>2, <2>5
<1>10. CASE ~SourceFirst(p) /\ plan[p].op = "process" /\ p \notin Web
  <2> DEFINE x == [plan[p] EXCEPT !.placed = 0]
  <2>1. pc' = [pc EXCEPT ![p] = "failing"] /\ plan' = [WithLate(p) EXCEPT ![p] = x]
    BY <1>10 DEF RestoreSource, WithLate
  <2>2. x \in ShapedPlans /\ x.placed = 0 /\ SamePlan(x, plan[p])
    <3>1. x = [plan[p] EXCEPT !.placed = 0] /\ 0 \in 0 .. 3
      OBVIOUS
    <3> HIDE DEF x
    <3> QED BY <1>3, <3>1, UpdatedPlaced DEF SamePlan
  <2> HIDE DEF x
  <2>3. Stage(p, x, "failing") /\ "failing" \in Steps
    BY <1>3, <1>10, <2>2 DEF Stage, StageOf, SamePlan, Composed, Writing, Steps
  <2>4. WriteTo(p, plan[p].before, x, "failing")
    BY <1>1, <1>2, <1>3, <1>7, <1>8, <2>1, <2>2, <2>3, WriteBase
  <2> QED BY <1>1, <1>2, <1>4, <1>6, <1>10, <2>2, <2>4 DEF Processing
<1>11. CASE ~SourceFirst(p) /\ ~(plan[p].op = "process" /\ p \notin Web)
  <2>1. pc' = [pc EXCEPT ![p] = "done"] /\ plan' = [WithLate(p) EXCEPT ![p] = NoPlan]
    BY <1>11 DEF RestoreSource
  <2>2. NoPlan \in ShapedPlans /\ Stage(p, NoPlan, "done") /\ "done" \in Steps
    BY NoPlanShaped DEF Stage, Steps
  <2>3. WriteTo(p, plan[p].before, NoPlan, "done")
    BY <1>1, <1>2, <1>3, <1>7, <1>8, <2>1, <2>2, WriteBase
  <2> QED BY <1>1, <1>2, <1>4, <1>6, <1>11, <2>3
<1> QED BY <1>9, <1>10, <1>11

\* p goes on with its files: the plan x differs in what is placed.
MoveTo(p, x, step) ==
  /\ x \in ShapedPlans /\ SamePlan(x, plan[p]) /\ x.placed > 0 /\ step \in Writing
  /\ StepTo(p, x, step, {})
  /\ UNCHANGED <<doc, published, torn, overtaken, spoiled, rolledBack, together>>
  /\ Base'

LEMMA ReplaceFailsMoves ==
  ASSUME Base, NEW p \in Ops, ReplaceFails(p), plan[p].placed # 0
  PROVE  /\ Working(p) /\ pc[p] = "replacing" /\ plan[p].placed > 0 /\ ~Complete(p)
         /\ archive' = archive /\ bytes' = bytes
         /\ MoveTo(p, plan[p], "undoing")
<1>1. /\ pc[p] = "replacing" /\ ~Complete(p) /\ Fault
      /\ pc' = [pc EXCEPT ![p] = "undoing"] /\ plan' = plan
      /\ UNCHANGED <<files, histories>>
  BY DEF ReplaceFails
<1>2. Working(p) /\ ~HandlerWaits(p)
  BY <1>1 DEF Working, HandlerWaits
<1>3. /\ plan[p] \in ShapedPlans /\ StageOf(p, plan[p], pc[p]) /\ plan[p].src \in Sources
      /\ plan[p].placed \in 0 .. 3 /\ plan[p].op \in Operations
  BY <1>2, WorkingPlan, PlanTyped
<1>4. plan[p].placed > 0
  BY <1>3
<1>5. plan[p].op # "confirm" /\ plan[p].placed < 3
  <2>1. CASE ~Capturing(p) /\ ~Processing(p)
    <3>1. Len(Assets(p)) = 0 /\ plan[p].op = "confirm"
      BY <1>3, <2>1, AssetFacts
    <3> QED BY <1>1, <1>3, <1>4, <3>1 DEF Complete, StageOf, Writing
  <2>2. CASE Capturing(p) \/ Processing(p)
    <3>1. Len(Assets(p)) = 2
      BY <1>3, <2>2, AssetFacts
    <3> QED BY <1>1, <1>3, <2>2, <3>1 DEF Complete, Capturing, Processing, CaptureOps
  <2> QED BY <2>1, <2>2
<1>6. Stage(p, plan[p], "undoing") /\ "undoing" \in Steps /\ "undoing" \in Writing
  BY <1>1, <1>3, <1>4, <1>5 DEF Stage, StageOf, Composed, Writing, Steps
<1>7. StepTo(p, plan[p], "undoing", {})
  BY <1>1 DEF StepTo, Base, TypeOK
<1>8. FilesTyped' /\ UNCHANGED <<doc, archive, bytes, published, torn, overtaken, spoiled, rolledBack, together>>
  BY <1>1, BaseTyped, FaultTyped DEF FilesTyped, files, histories
<1>9. Base'
  BY <1>2, <1>3, <1>6, <1>7, <1>8, BaseStep
<1> QED BY <1>1, <1>2, <1>3, <1>4, <1>6, <1>7, <1>8, <1>9 DEF MoveTo, SamePlan

LEMMA RemoveAssetMoves ==
  ASSUME Base, NEW p \in Ops, RemoveAsset(p)
  PROVE  /\ Working(p) /\ pc[p] \in {"undoing", "removing"} /\ plan[p].placed \in {2, 3}
         /\ (Capturing(p) \/ Processing(p)) /\ MayUndo(p) /\ Committing(p)
         /\ archive' = archive \ ({Assets(p)[plan[p].placed - 1]} \ plan[p].held)
         /\ bytes' = IF Capturing(p) /\ plan[p].placed = 2 THEN [bytes EXCEPT ![p] = None] ELSE bytes
         /\ \E x : MoveTo(p, x, pc[p]) /\ x.placed = plan[p].placed - 1
<1> DEFINE x == [plan[p] EXCEPT !.placed = plan[p].placed - 1]
<1>1. /\ plan[p].placed > 1 /\ pc[p] \in {"undoing", "removing"}
      /\ archive' = archive \ ({Assets(p)[plan[p].placed - 1]} \ plan[p].held)
      /\ bytes' = IF plan[p].page # None /\ plan[p].placed = 2 THEN [bytes EXCEPT ![p] = None]
                  ELSE bytes
      /\ plan' = [plan EXCEPT ![p] = x]
      /\ UNCHANGED <<doc, pc, published, torn, overtaken, spoiled, rolledBack, together, faults>>
  BY DEF RemoveAsset, histories
<1>2. Working(p) /\ ~HandlerWaits(p)
  BY <1>1 DEF Working, HandlerWaits
<1>3. /\ plan[p] \in ShapedPlans /\ StageOf(p, plan[p], pc[p]) /\ plan[p].src \in Sources
      /\ plan[p].placed \in 0 .. 3 /\ plan[p].op \in Operations
      /\ Capturing(p) <=> plan[p].page # None
  BY <1>2, WorkingPlan, PlanTyped, Constants
<1>4. plan[p].placed \in {2, 3}
  BY <1>1, <1>3
<1>5. Capturing(p) \/ Processing(p)
  BY <1>3, <1>4, AssetFacts DEF StageOf, Writing
<1>6. MayUndo(p) /\ Committing(p)
  <2>1. p \in Web \/ plan[p].placed < 3
    BY <1>1, <1>3 DEF StageOf, Writing
  <2>2. p \in Web \/ ~Complete(p)
    BY <1>3, <1>4, <1>5, <2>1, AssetFacts DEF Complete
  <2> QED BY <1>1, <1>4, <2>2 DEF MayUndo, Committing, Writing
<1>7. x \in ShapedPlans /\ x.placed = plan[p].placed - 1 /\ SamePlan(x, plan[p])
  <2> DEFINE n == plan[p].placed - 1
  <2>1. x = [plan[p] EXCEPT !.placed = n] /\ n \in 0 .. 3
    BY <1>4
  <2> HIDE DEF x, n
  <2>2. x \in ShapedPlans /\ x.placed = n /\ SamePlan(x, plan[p])
    BY <1>3, <2>1, UpdatedPlaced DEF SamePlan
  <2> QED BY <2>2 DEF n
<1>8. StepTo(p, x, pc[p], {})
  BY <1>1 DEF StepTo, Base, TypeOK
<1> HIDE DEF x
<1>9. Stage(p, x, pc[p]) /\ pc[p] \in Steps /\ pc[p] \in Writing
  BY <1>1, <1>3, <1>4, <1>7 DEF Stage, StageOf, SamePlan, Composed, Writing, Steps
<1>10. FilesTyped'
  <2>1. bytes' \in [Versions -> Digests \cup {None}]
    BY <1>1 DEF Base, TypeOK
  <2>2. archive' \in SUBSET (Versions \X Kinds)
    BY <1>1 DEF Base, TypeOK
  <2> QED BY <1>1, <2>1, <2>2, BaseTyped DEF FilesTyped
<1>11. Base'
  BY <1>2, <1>7, <1>8, <1>9, <1>10, BaseStep
<1> QED BY <1>1, <1>2, <1>3, <1>4, <1>5, <1>6, <1>7, <1>8, <1>9, <1>11 DEF MoveTo

\* p creates its next asset.
LEMMA PlaceAssetCreates ==
  ASSUME Base, NEW p \in Ops, PlaceAsset(p)
  PROVE  /\ Working(p) /\ Committing(p) /\ (Capturing(p) \/ Processing(p)) /\ Base'
         /\ plan[p].placed \in {1, 2}
         /\ pc[p] = "replacing" /\ pc' = pc
         /\ archive' = archive \cup {Assets(p)[plan[p].placed]}
         /\ bytes' = IF Capturing(p) THEN [bytes EXCEPT ![p] = DigestOf[plan[p].page]] ELSE bytes
         /\ \E x : MoveTo(p, x, "replacing") /\ x.placed = plan[p].placed + 1
<1> DEFINE x == [plan[p] EXCEPT !.placed = plan[p].placed + 1]
<1>1. /\ pc[p] = "replacing" /\ plan[p].placed > 0 /\ ~Complete(p)
      /\ archive' = archive \cup {Assets(p)[plan[p].placed]}
      /\ bytes' = IF plan[p].page = None THEN bytes ELSE [bytes EXCEPT ![p] = DigestOf[plan[p].page]]
      /\ plan' = [plan EXCEPT ![p] = x]
      /\ UNCHANGED <<doc, pc, published, torn, overtaken, spoiled, rolledBack, together, faults>>
  BY DEF PlaceAsset, histories
<1>2. Working(p) /\ ~HandlerWaits(p) /\ Committing(p)
  BY <1>1 DEF Committing, Working, HandlerWaits
<1>3. /\ plan[p] \in ShapedPlans /\ StageOf(p, plan[p], pc[p]) /\ plan[p].src \in Sources
      /\ plan[p].placed \in 0 .. 3 /\ plan[p].op \in Operations
      /\ Capturing(p) <=> plan[p].page # None
      /\ Capturing(p) => plan[p].page \in Pages
  BY <1>2, WorkingPlan, PlanTyped, Constants
<1>4. (Capturing(p) \/ Processing(p)) /\ plan[p].placed \in {1, 2}
  <2>1. CASE ~Capturing(p) /\ ~Processing(p)
    <3>1. plan[p].op = "confirm" /\ Len(Assets(p)) = 0
      BY <1>3, <2>1, AssetFacts
    <3>2. plan[p].placed = 1
      BY <1>1, <1>3, <3>1 DEF StageOf, Writing
    <3> QED BY <1>1, <3>1, <3>2 DEF Complete
  <2>2. CASE Capturing(p) \/ Processing(p)
    <3>1. Len(Assets(p)) = 2
      BY <1>3, <2>2, AssetFacts
    <3> QED BY <1>1, <1>3, <2>2, <3>1 DEF Complete
  <2> QED BY <2>1, <2>2
<1>5. Capturing(p) \/ Processing(p)
  BY <1>4
<1>6. plan[p].placed \in {1, 2}
  BY <1>4
<1>7. x \in ShapedPlans /\ x.placed = plan[p].placed + 1 /\ SamePlan(x, plan[p])
  <2> DEFINE n == plan[p].placed + 1
  <2>1. x = [plan[p] EXCEPT !.placed = n] /\ n \in 0 .. 3
    BY <1>6
  <2> HIDE DEF x, n
  <2>2. x \in ShapedPlans /\ x.placed = n /\ SamePlan(x, plan[p])
    BY <1>3, <2>1, UpdatedPlaced DEF SamePlan
  <2> QED BY <2>2 DEF n
<1>8. StepTo(p, x, "replacing", {})
  BY <1>1, <1>2 DEF StepTo, Base, TypeOK
<1> HIDE DEF x
<1>9. Base'
  <2>1. Stage(p, x, "replacing") /\ "replacing" \in Steps
    BY <1>1, <1>3, <1>5, <1>6, <1>7 DEF Stage, StageOf, SamePlan, Composed, Writing, Steps, Capturing,
       CaptureOps, Processing
  <2>2. Assets(p)[plan[p].placed] \in Versions \X Kinds
    <3>1. CASE Capturing(p)
      <4>1. Assets(p)[1] = <<p, "raw">> /\ Assets(p)[2] = <<p, "metadata">>
        BY <1>3, <3>1, AssetFacts
      <4> QED BY <1>6, <4>1, Constants DEF Kinds
    <3>2. CASE Processing(p)
      <4>1. /\ VersionOf(p) = Last(plan[p].seen.captured)
            /\ Assets(p)[1] = <<VersionOf(p), "text">> /\ Assets(p)[2] = <<VersionOf(p), "record">>
        BY <1>3, <3>2, AssetFacts
      <4>2. plan[p].seen.captured # <<>> /\ plan[p].seen.captured \in Seq(Versions)
        BY <1>1, <1>2, <1>3, <3>2, WorkingPlan DEF StageOf, Composed, Writing, Processing, Docs
      <4>3. VersionOf(p) \in Versions
        BY <4>1, <4>2, RangeIn
      <4> QED BY <1>6, <4>1, <4>3 DEF Kinds
    <3> QED BY <1>5, <3>1, <3>2
  <2>3. bytes' \in [Versions -> Digests \cup {None}]
    BY <1>1, <1>3 DEF Base, TypeOK, Digests
  <2>4. archive' \in SUBSET (Versions \X Kinds)
    BY <1>1, <2>2 DEF Base, TypeOK
  <2>5. FilesTyped'
    BY <1>1, <2>3, <2>4, BaseTyped DEF FilesTyped
  <2> QED BY <1>2, <1>7, <1>8, <2>1, <2>5, BaseStep
<1>10. x.placed > 0 /\ "replacing" \in Writing
  BY <1>6, <1>7 DEF Writing
<1> QED BY <1>1, <1>2, <1>3, <1>5, <1>6, <1>7, <1>8, <1>9, <1>10 DEF MoveTo

-----------------------------------------------------------------------------
(* Part 1 of the invariant holds.                                          *)

LEMMA InitBase == Init => Base
<1> SUFFICES ASSUME Init PROVE Base
  OBVIOUS
<1>1. doc \in [Sources -> ShapedDocs \cup {None}]
  <2>1. \A s \in Sources : doc[s] \in {FirstDoc, Draft, None}
    BY DEF Init
  <2>2. doc = [s \in Sources |-> doc[s]]
    BY DEF Init
  <2> QED BY <2>1, <2>2, FirstShaped, DraftShaped
<1>2. plan = [p \in Ops |-> NoPlan] /\ pc = [p \in Ops |-> "idle"]
  BY DEF Init
<1>3. plan \in [Ops -> ShapedPlans] /\ plan \in [Ops -> Plans] /\ pc \in [Ops -> Steps]
  BY <1>2, NoPlanShaped DEF ShapedPlans, Steps
<1>4. archive \in SUBSET (Versions \X Kinds)
  BY Constants DEF Init
<1>5. bytes \in [Versions -> Digests \cup {None}]
  BY FirstShaped DEF Init
<1>6. doc \in [Sources -> Docs \cup {None}]
  BY <1>1 DEF ShapedDocs
<1>7. /\ {torn, overtaken, spoiled, rolledBack} \subseteq SUBSET Sources
      /\ together \in SUBSET (SUBSET Versions) /\ faults \in 0 .. MaxFaults
  BY ArchiveConstants DEF Init
<1>9. published \in [Sources -> Seq(Versions)]
  <2>1. <<>> \in Seq(Versions)
    BY EmptyList
  <2>2. <<First>> \in Seq(Versions)
    <3> DEFINE nothing == <<>>
    <3>1. Append(nothing, First) = <<First>>
      OBVIOUS
    <3>2. nothing \in Seq(Versions) /\ First \in Versions
      BY <2>1, Constants
    <3> HIDE DEF nothing
    <3>3. Append(nothing, First) \in Seq(Versions)
      BY <3>2, AppendProperties
    <3> QED BY <3>1, <3>3
  <2> QED BY <2>1, <2>2 DEF Init
<1>8. Stages /\ OneHandler
  BY <1>2, Constants DEF Stages, Stage, OneHandler, HandlerWaits
<1> QED BY <1>1, <1>3, <1>4, <1>5, <1>6, <1>7, <1>8, <1>9 DEF Base, TypeOK

\* An operation begins with one of four readings.
LEMMA BeginStarts ==
  ASSUME Base, NEW p \in Ops, Begin(p)
  PROVE  \E op \in Operations, s \in Sources, page \in Pages \cup {None}, dups \in SUBSET Sources :
           /\ op \in CaptureOps <=> page # None
           /\ IF op = "add" THEN s \notin Existing ELSE s \in Existing
           /\ page # None => dups = Duplicates(s, page)
           /\ Start(p, op, s, page, dups)
<1>1. "add" \in Operations /\ "fetch" \in Operations /\ "process" \in Operations
      /\ "confirm" \in Operations
  BY DEF Operations
<1>2. ASSUME NEW s \in Sources, NEW page \in Pages PROVE Duplicates(s, page) \in SUBSET Sources
  BY DEF Duplicates, Existing
<1>3. ASSUME NEW s \in Sources, NEW page \in Pages, Add(p, s, page)
      PROVE  s \notin Existing /\ Start(p, "add", s, page, Duplicates(s, page)) /\ page # None
  BY <1>3, Constants DEF Add
<1>4. ASSUME NEW s \in Sources, NEW page \in Pages, Fetch(p, s, page)
      PROVE  s \in Existing /\ Start(p, "fetch", s, page, Duplicates(s, page)) /\ page # None
  BY <1>4, Constants DEF Fetch
<1>5. ASSUME NEW s \in Sources, Process(p, s)
      PROVE  s \in Existing /\ Start(p, "process", s, None, {})
  BY <1>5 DEF Process
<1>6. ASSUME NEW s \in Sources, ConfirmDate(p, s)
      PROVE  s \in Existing /\ Start(p, "confirm", s, None, {})
  BY <1>6 DEF ConfirmDate
<1>7. "add" \in CaptureOps /\ "fetch" \in CaptureOps /\ "process" \notin CaptureOps
      /\ "confirm" \notin CaptureOps
  BY DEF CaptureOps
<1>8. CASE \E s \in Sources, page \in Pages : Add(p, s, page)
  BY <1>1, <1>2, <1>3, <1>7, <1>8
<1>9. CASE \E s \in Sources, page \in Pages : Fetch(p, s, page)
  BY <1>1, <1>2, <1>4, <1>7, <1>9
<1>10. CASE \E s \in Sources : Process(p, s)
  BY <1>1, <1>5, <1>7, <1>10
<1>11. CASE \E s \in Sources : ConfirmDate(p, s)
  BY <1>1, <1>6, <1>7, <1>11
<1> QED BY <1>8, <1>9, <1>10, <1>11 DEF Begin

LEMMA NextBase == Base /\ [Next]_vars => Base'
<1> SUFFICES ASSUME Base, [Next]_vars PROVE Base'
  OBVIOUS
<1>1. CASE UNCHANGED vars
  BY <1>1 DEF vars, files, histories, Base, TypeOK, Stages, Stage, StageOf, Writing, OneHandler, HandlerWaits
<1>2. ASSUME NEW p \in Ops, Begin(p) PROVE Base'
  BY <1>2, BeginStarts, StartLocal DEF LocalTo
<1>3. ASSUME NEW p \in Ops, Continue(p) PROVE Base'
  <2>1. Look(p) => Base'
    BY LookLocal DEF LocalTo
  <2>2. LookRefuses(p) => Base'
    BY LookRefusesLocal DEF LocalTo
  <2>3. LookFails(p) => Base'
    BY LookFailsLocal DEF RefusedTo, LocalTo
  <2>4. Compose(p) => Base'
    BY ComposeLocal DEF LocalTo
  <2>5. GiveUp(p) => Base'
    BY GiveUpLocal DEF LocalTo
  <2>6. Preview(p) => Base'
    BY PreviewLocal DEF LocalTo
  <2>7. Confirm(p) => Base'
    BY ConfirmLocal DEF LocalTo
  <2>8. Preflight(p) => Base'
    BY PreflightLocal DEF LocalTo
  <2>9. PreflightRefuses(p) => Base'
    BY PreflightRefusesLocal DEF RefusedTo, LocalTo
  <2>10. ReplaceSource(p) => Base'
    BY ReplaceSourceWrites DEF WriteTo
  <2>11. PlaceAsset(p) => Base'
    BY PlaceAssetCreates DEF MoveTo
  <2>12. Finish(p) => Base'
    BY FinishLocal DEF LocalTo
  <2>13. ReplaceFails(p) => Base'
    BY ReplaceFailsLocal, ReplaceFailsMoves DEF RefusedTo, LocalTo, MoveTo
  <2>17. AuditFails(p) => Base'
    BY AuditFailsWrites DEF WriteTo
  <2>18. RemoveAsset(p) => Base'
    BY RemoveAssetMoves DEF MoveTo
  <2>19. RestoreSource(p) => Base'
    BY RestoreSourceWrites DEF WriteTo
  <2>20. UndoFails(p) => Base'
    BY UndoFailsLocal DEF LocalTo
  <2>14. Crash(p) => Base'
    BY CrashLocal DEF LocalTo
  <2>15. ReadFailed(p) => Base'
    BY ReadFailedLocal DEF LocalTo
  <2>16. RecordFailure(p) => Base'
    BY RecordFailureWrites DEF WriteTo
  <2> QED BY <1>3, <2>1, <2>2, <2>3, <2>4, <2>5, <2>6, <2>7, <2>8, <2>9, <2>10, <2>11, <2>12,
             <2>13, <2>14, <2>15, <2>16, <2>17, <2>18, <2>19, <2>20 DEF Continue
<1> QED BY <1>1, <1>2, <1>3 DEF Next

\* The variables keep their types.
THEOREM TypeCorrect == Spec => []TypeOK
<1>1. Base => TypeOK
  BY DEF Base
<1> QED BY <1>1, InitBase, NextBase, PTL DEF Spec

-----------------------------------------------------------------------------
(* Part 2: who is not late has read what there is.                         *)

LEMMA NewDocSame ==
  ASSUME NEW p, NEW read, plan'[p].op = plan[p].op, plan'[p].page = plan[p].page,
         plan'[p].seen = plan[p].seen, plan'[p].dups = plan[p].dups
  PROVE  NewDoc(p, read)' = NewDoc(p, read)
BY DEF NewDoc, VersionOf, Upstream, FetchedStatus

LEMMA InTimeKept ==
  ASSUME NEW q, InTime(q), pc'[q] = pc[q], plan'[q] = plan[q],
         pc[q] # "planned" => doc'[plan[q].src] = doc[plan[q].src],
         pc[q] = "planned" => plan[q].placed = 0, torn \subseteq torn'
  PROVE  InTime(q)'
<1>1. NewDoc(q, plan[q].seen)' = NewDoc(q, plan[q].seen)
  BY DEF NewDoc, VersionOf, Upstream, FetchedStatus
<1> QED BY <1>1 DEF InTime, ReadBy

LEMMA PlannedWaits ==
  ASSUME Base, NEW q \in Ops, pc[q] = "planned"
  PROVE  Working(q) /\ q \in Web /\ plan[q].placed = 0
<1>1. Working(q)
  BY DEF Working
<1> QED BY <1>1, WorkingPlan, PlanTyped DEF StageOf, Writing

LEMMA TimelyLocal ==
  ASSUME Base, Timely, NEW p \in Ops, NEW x, NEW step, LocalTo(p, x, step),
         step \in {"idle", "done"} \/ x.late \/ InTime(p)'
  PROVE  Timely'
<1>1. /\ plan'[p] = x /\ pc'[p] = step /\ doc' = doc
      /\ \A q \in Ops \ {p} : Keeps(q) /\ plan'[q] = plan[q]
  BY StepKeeps DEF LocalTo, files
<1>2. Prompt(p)' => InTime(p)'
  BY <1>1 DEF Prompt, Working
<1>3. ASSUME NEW q \in Ops \ {p}, Prompt(q)' PROVE InTime(q)'
  <2>1. Prompt(q) /\ pc'[q] = pc[q] /\ plan'[q] = plan[q]
    BY <1>1, <1>3 DEF Prompt, Working, Keeps
  <2>2. InTime(q)
    BY <2>1 DEF Timely
  <2>3. torn \subseteq torn'
    BY DEF LocalTo
  <2> QED BY <1>1, <2>1, <2>2, <2>3, InTimeKept, PlannedWaits
<1> QED BY <1>2, <1>3 DEF Timely

LEMMA TimelyWrite ==
  ASSUME Base, Timely, NEW p \in Ops, Working(p), NEW d, NEW x, NEW step, WriteTo(p, d, x, step),
         step \in {"idle", "done"} \/ x.late \/ InTime(p)'
  PROVE  Timely'
<1> DEFINE s == plan[p].src
<1>1. /\ plan'[p] = x /\ pc'[p] = step /\ doc' = [doc EXCEPT ![s] = d]
      /\ \A q \in Ops \ {p} : /\ Keeps(q)
                              /\ q \in OthersOn(p) => plan'[q].late
                              /\ q \notin OthersOn(p) => plan'[q] = plan[q]
  <2>1. StepTo(p, x, step, OthersOn(p)) /\ doc' = [doc EXCEPT ![s] = d]
    BY DEF WriteTo
  <2> QED BY <2>1, StepKeeps
<1>2. Prompt(p)' => InTime(p)'
  BY <1>1 DEF Prompt, Working
<1>3. ASSUME NEW q \in Ops \ {p}, Prompt(q)' PROVE InTime(q)'
  <2>1. q \notin OthersOn(p) /\ pc'[q] = pc[q] /\ plan'[q] = plan[q] /\ Prompt(q)
    BY <1>1, <1>3 DEF Prompt, Working, Keeps
  <2>2. InTime(q) /\ plan[q].src \in Sources
    BY <2>1, WorkingPlan DEF Timely, Prompt
  <2>3. pc[q] # "planned" => plan[q].src # s
    BY <2>1 DEF OthersOn, Exposed
  <2>4. pc[q] # "planned" => doc'[plan[q].src] = doc[plan[q].src]
    BY <1>1, <2>2, <2>3 DEF Base
  <2>5. torn \subseteq torn'
    BY DEF WriteTo
  <2> HIDE DEF s
  <2> QED BY <2>1, <2>2, <2>4, <2>5, InTimeKept, PlannedWaits
<1> QED BY <1>2, <1>3 DEF Timely

LEMMA LeaveTimely ==
  ASSUME Base, Timely, NEW p \in Ops, LocalTo(p, NoPlan, "done") PROVE Timely'
BY TimelyLocal

LEMMA StayTimely ==
  ASSUME Base, Timely, NEW p \in Ops, Working(p), pc[p] # "planned",
         NEW step \in {"looked", "failing"},
         LocalTo(p, plan[p], step), pc[p] \notin {"failing", "failed"}
  PROVE  Timely'
<1>1. plan'[p] = plan[p] /\ pc'[p] = step /\ doc' = doc /\ plan[p].placed = 0
      /\ torn \subseteq torn'
  BY StepKeeps DEF LocalTo, files
<1>2. ASSUME ~plan[p].late PROVE InTime(p)'
  <2>1. InTime(p)
    BY <1>2 DEF Timely, Prompt
  <2> QED BY <1>1, <2>1 DEF InTime, ReadBy, Composed, Writing
<1> QED BY <1>2, TimelyLocal

LEMMA BeginTimely ==
  ASSUME Base, Timely, NEW p \in Ops, Begin(p) PROVE Timely'
<1>1. PICK op \in Operations, s \in Sources, page \in Pages \cup {None}, dups \in SUBSET Sources :
        /\ op \in CaptureOps <=> page # None
        /\ IF op = "add" THEN s \notin Existing ELSE s \in Existing
        /\ Start(p, op, s, page, dups)
  BY BeginStarts
<1>2. PICK x : BegunPlan(x, op, s, page, dups) /\ LocalTo(p, x, "begun")
  BY <1>1, StartLocal
<1>3. plan'[p] = x /\ pc'[p] = "begun" /\ doc' = doc /\ x.placed = 0
  BY <1>2, StepKeeps DEF LocalTo, files
<1>4. InTime(p)'
  BY <1>1, <1>2, <1>3 DEF InTime, ReadBy, BegunPlan, Existing, Composed, Writing
<1> QED BY <1>2, <1>4, TimelyLocal

LEMMA ComposeTimely ==
  ASSUME Base, Timely, NEW p \in Ops, Compose(p) PROVE Timely'
<1> DEFINE read == IF plan[p].op = "add" THEN Draft ELSE doc[plan[p].src]
<1>1. Working(p) /\ pc[p] \in {"begun", "looked"} /\ read \in ShapedDocs
  BY ComposeLocal
<1>2. PICK x : LocalTo(p, x, "composed") /\ Agree(x, plan[p]) /\ x.new = NewDoc(p, read)
  BY ComposeLocal
<1>3. plan'[p] = x /\ pc'[p] = "composed" /\ doc' = doc /\ x.placed = 0
  BY <1>2, StepKeeps DEF LocalTo, files
<1>4. ASSUME ~x.late PROVE InTime(p)'
  <2>1. InTime(p) /\ plan[p].placed = 0
    BY <1>1, <1>2, <1>3, <1>4 DEF Agree, Timely, Prompt
  <2>2. doc[plan[p].src] = ReadBy(p)
    BY <1>1, <2>1 DEF InTime
  <2>3. plan[p].op = "add" => plan[p].seen = Draft
    BY <1>1, WorkingPlan DEF StageOf, Writing
  <2>4. read = plan[p].seen
    BY <2>2, <2>3 DEF ReadBy
  <2>5. \A r : NewDoc(p, r)' = NewDoc(p, r)
    BY <1>2, <1>3, NewDocSame DEF Agree
  <2>6. plan'[p].new = NewDoc(p, plan[p].seen)' /\ plan'[p].seen = plan[p].seen
    BY <1>2, <1>3, <2>4, NewDocSame DEF Agree
  <2>7. ReadBy(p)' = ReadBy(p) /\ plan'[p].src = plan[p].src
    BY <1>2, <1>3 DEF ReadBy, Agree
  <2> QED BY <1>3, <2>2, <2>6, <2>7 DEF InTime, Composed, Writing
<1> QED BY <1>2, <1>4, TimelyLocal

\* What goes on with another before image, the same new Source and no new reading.
LEMMA ContinueTimely ==
  ASSUME Base, Timely, NEW p \in Ops, Working(p), pc[p] \in Composed, plan[p].placed = 0,
         NEW x, NEW step \in Composed, LocalTo(p, x, step), Agree(x, plan[p]), x.new = plan[p].new,
         pc[p] = "planned" => doc[plan[p].src] = plan[p].before,
         x.before = doc[plan[p].src]
  PROVE  Timely'
<1>1. plan'[p] = x /\ pc'[p] = step /\ doc' = doc /\ x.placed = 0
  BY StepKeeps DEF LocalTo, files
<1>2. ASSUME ~x.late PROVE InTime(p)'
  <2>1. InTime(p)
    BY <1>2 DEF Agree, Timely, Prompt
  <2>2. doc[plan[p].src] = ReadBy(p)
    BY <2>1 DEF InTime, Composed, Writing
  <2>3. ReadBy(p)' = ReadBy(p) /\ plan'[p].src = plan[p].src /\ plan'[p].seen = plan[p].seen
    BY <1>1 DEF ReadBy, Agree
  <2>4. NewDoc(p, plan[p].seen)' = NewDoc(p, plan[p].seen)
    BY <1>1 DEF NewDoc, VersionOf, Upstream, FetchedStatus, Agree
  <2>5. plan'[p].new = NewDoc(p, plan[p].seen)'
    BY <1>1, <2>1, <2>4 DEF InTime
  <2> QED BY <1>1, <2>2, <2>3, <2>4, <2>5 DEF InTime, Composed, Writing
<1> QED BY <1>2, TimelyLocal

LEMMA PreviewTimely ==
  ASSUME Base, Timely, NEW p \in Ops, Preview(p) PROVE Timely'
<1>1. Working(p) /\ pc[p] = "composed"
  BY PreviewLocal
<1>2. PICK x : /\ LocalTo(p, x, "planned") /\ Agree(x, plan[p]) /\ x.new = plan[p].new
               /\ x.before = doc[plan[p].src]
  BY PreviewLocal
<1>3. plan[p].placed = 0
  BY <1>2 DEF Agree, LocalTo
<1> QED BY <1>1, <1>2, <1>3, ContinueTimely DEF Composed, Writing

LEMMA ConfirmTimely ==
  ASSUME Base, Timely, NEW p \in Ops, Confirm(p) PROVE Timely'
<1>1. /\ Working(p) /\ pc[p] = "planned" /\ LocalTo(p, plan[p], "approved")
      /\ doc[plan[p].src] = plan[p].before
  BY ConfirmLocal
<1>2. plan[p].placed = 0 /\ Agree(plan[p], plan[p])
  BY <1>1 DEF LocalTo, Agree
<1> QED BY <1>1, <1>2, ContinueTimely DEF Composed, Writing

LEMMA PreflightTimely ==
  ASSUME Base, Timely, NEW p \in Ops, Preflight(p) PROVE Timely'
<1>1. Working(p) /\ pc[p] \in {"approved", "composed"}
  BY PreflightLocal
<1>2. PICK x : /\ LocalTo(p, x, "replacing") /\ Agree(x, plan[p]) /\ x.new = plan[p].new
               /\ x.before = doc[plan[p].src]
  BY PreflightLocal
<1>3. plan[p].placed = 0
  BY <1>2 DEF Agree, LocalTo
<1> QED BY <1>1, <1>2, <1>3, ContinueTimely DEF Composed, Writing

LEMMA ReadFailedTimely ==
  ASSUME Base, Timely, NEW p \in Ops, ReadFailed(p) PROVE Timely'
<1> DEFINE read == doc[plan[p].src]
<1>1. Working(p) /\ pc[p] = "failing" /\ Processing(p)
  BY ReadFailedLocal, WorkingPlan DEF StageOf, Writing, Processing
<1>2. PICK x : /\ LocalTo(p, x, "failed") /\ Agree(x, plan[p])
               /\ x.new = [read EXCEPT !.status = "failed"]
  BY ReadFailedLocal
<1>3. plan'[p] = x /\ pc'[p] = "failed" /\ doc' = doc /\ x.placed = 0
  BY <1>2, StepKeeps DEF LocalTo, files
<1>4. ASSUME ~x.late PROVE InTime(p)'
  <2>1. InTime(p) /\ plan[p].placed = 0
    BY <1>1, <1>2, <1>3, <1>4 DEF Agree, Timely, Prompt
  <2>2. read = ReadBy(p) \/ plan[p].src \in torn
    BY <1>1, <2>1 DEF InTime
  <2>3. ReadBy(p)' = ReadBy(p) /\ plan'[p].src = plan[p].src /\ plan'[p].seen = plan[p].seen
    BY <1>2, <1>3 DEF ReadBy, Agree
  <2>4. torn \subseteq torn'
    BY <1>2 DEF LocalTo
  <2> QED BY <1>2, <1>3, <2>2, <2>3, <2>4 DEF InTime, Composed, Writing
<1> QED BY <1>2, <1>4, TimelyLocal

LEMMA ReplaceSourceTimely ==
  ASSUME Base, Timely, NEW p \in Ops, ReplaceSource(p) PROVE Timely'
<1>1. Working(p) /\ pc[p] = "replacing" /\ plan[p].placed = 0
  BY ReplaceSourceWrites
<1>2. PICK x : /\ WriteTo(p, plan[p].new, x, "replacing") /\ x.placed = 1
               /\ x.op = plan[p].op /\ x.src = plan[p].src /\ x.page = plan[p].page
               /\ x.seen = plan[p].seen /\ x.dups = plan[p].dups /\ x.late = plan[p].late
               /\ x.new = plan[p].new /\ x.before = plan[p].before
  BY ReplaceSourceWrites
<1>3. /\ plan'[p] = x /\ pc'[p] = "replacing"
      /\ doc'[plan[p].src] = plan[p].new
  <2>1. StepTo(p, x, "replacing", OthersOn(p)) /\ doc' = [doc EXCEPT ![plan[p].src] = plan[p].new]
    BY <1>2 DEF WriteTo
  <2>2. plan[p].src \in Sources
    BY <1>1, WorkingPlan
  <2> QED BY <2>1, <2>2, StepKeeps DEF Base
<1>4. ASSUME ~x.late PROVE InTime(p)'
  <2>1. InTime(p)
    BY <1>1, <1>2, <1>4 DEF Timely, Prompt
  <2>2. ReadBy(p)' = ReadBy(p)
    BY <1>2, <1>3 DEF ReadBy
  <2>3. NewDoc(p, plan[p].seen)' = NewDoc(p, plan[p].seen)
    BY <1>2, <1>3 DEF NewDoc, VersionOf, Upstream, FetchedStatus
  <2>4. plan[p].before = ReadBy(p) /\ plan[p].new = NewDoc(p, plan[p].seen)
    BY <1>1, <2>1 DEF InTime, Composed, Writing
  <2> QED BY <1>2, <1>3, <2>2, <2>3, <2>4 DEF InTime, Composed, Writing
<1> QED BY <1>1, <1>2, <1>4, TimelyWrite

LEMMA UndoFailsTimely ==
  ASSUME Base, Timely, NEW p \in Ops, UndoFails(p) PROVE Timely'
<1>1. Working(p) /\ plan[p].src \in torn'
  BY UndoFailsLocal
<1>2. CASE LocalTo(p, NoPlan, "done")
  BY <1>2, LeaveTimely
<1>3. ASSUME NEW x, x.placed = 0, SamePlan(x, plan[p]), LocalTo(p, x, "failing")
      PROVE  Timely'
  <2>1. plan'[p] = x /\ pc'[p] = "failing"
    BY <1>3, StepKeeps DEF LocalTo
  <2>2. InTime(p)'
    BY <1>1, <1>3, <2>1 DEF InTime, Composed, Writing, SamePlan
  <2> QED BY <1>3, <2>2, TimelyLocal
<1> QED BY <1>2, <1>3, UndoFailsLocal

LEMMA AuditFailsTimely ==
  ASSUME Base, Timely, NEW p \in Ops, AuditFails(p) PROVE Timely'
<1>1. /\ Working(p) /\ pc[p] = "replacing" /\ plan[p].placed > 0
      /\ WriteTo(p, doc[plan[p].src], plan[p], "undoing")
  BY AuditFailsWrites
<1>2. doc' = doc /\ plan'[p] = plan[p] /\ pc'[p] = "undoing"
  BY <1>1, AuditFailsWrites, StepKeeps DEF files, WriteTo
<1>3. ASSUME ~plan[p].late PROVE InTime(p)'
  <2>1. InTime(p)
    BY <1>1, <1>3 DEF Timely, Prompt
  <2>2. ReadBy(p)' = ReadBy(p) /\ NewDoc(p, plan[p].seen)' = NewDoc(p, plan[p].seen)
    BY <1>2 DEF ReadBy, NewDoc, VersionOf, Upstream, FetchedStatus
  <2> QED BY <1>1, <1>2, <2>1, <2>2 DEF InTime, Composed, Writing
<1> QED BY <1>1, <1>3, TimelyWrite

LEMMA RestoreSourceTimely ==
  ASSUME Base, Timely, NEW p \in Ops, RestoreSource(p) PROVE Timely'
<1>1. /\ Working(p) /\ MayUndo(p) /\ plan[p].src \in Sources /\ pc[p] = "undoing"
      /\ plan[p].placed > 0
  BY RestoreSourceWrites, WorkingPlan
<1>2. CASE WriteTo(p, plan[p].before, NoPlan, "done")
  BY <1>1, <1>2, TimelyWrite
<1>3. ASSUME NEW x, x.placed = 0, SamePlan(x, plan[p]),
             WriteTo(p, plan[p].before, x, "failing")
      PROVE  Timely'
  <2>1. StepTo(p, x, "failing", OthersOn(p)) /\ doc' = [doc EXCEPT ![plan[p].src] = plan[p].before]
    BY <1>3 DEF WriteTo
  <2>2. plan'[p] = x /\ pc'[p] = "failing" /\ doc'[plan[p].src] = plan[p].before
    BY <1>1, <2>1, StepKeeps DEF Base
  <2>3. ASSUME ~x.late PROVE InTime(p)'
    <3>1. plan[p].before = ReadBy(p)
      BY <1>1, <1>3, <2>3 DEF Timely, Prompt, InTime, Writing, SamePlan
    <3>2. ReadBy(p)' = ReadBy(p)
      BY <1>3, <2>2 DEF ReadBy, SamePlan
    <3> QED BY <1>3, <2>2, <3>1, <3>2 DEF InTime, Composed, Writing, SamePlan
  <2> QED BY <1>1, <1>3, <2>3, TimelyWrite
<1>4. CASE WriteTo(p, plan[p].before, plan[p], "removing")
  <2>1. /\ StepTo(p, plan[p], "removing", OthersOn(p))
        /\ doc' = [doc EXCEPT ![plan[p].src] = plan[p].before]
    BY <1>4 DEF WriteTo
  <2>2. plan'[p] = plan[p] /\ pc'[p] = "removing" /\ doc'[plan[p].src] = plan[p].before
    BY <1>1, <2>1, StepKeeps DEF Base
  <2>3. ASSUME ~plan[p].late PROVE InTime(p)'
    <3>1. InTime(p)
      BY <1>1, <2>3 DEF Timely, Prompt
    <3>2. ReadBy(p)' = ReadBy(p) /\ NewDoc(p, plan[p].seen)' = NewDoc(p, plan[p].seen)
      BY <2>2 DEF ReadBy, NewDoc, VersionOf, Upstream, FetchedStatus
    <3> QED BY <1>1, <2>2, <3>1, <3>2 DEF InTime, Composed, Writing
  <2> QED BY <1>1, <1>4, <2>3, TimelyWrite
<1> QED BY <1>2, <1>3, <1>4, RestoreSourceWrites

\* Other files are written or removed.
LEMMA MoveTimely ==
  ASSUME Base, Timely, NEW p \in Ops, Working(p), pc[p] \in Writing, plan[p].placed > 0,
         NEW x, NEW step, MoveTo(p, x, step), step = "removing" <=> pc[p] = "removing"
  PROVE  Timely'
<1>1. /\ plan'[p] = x /\ pc'[p] = step /\ SamePlan(x, plan[p]) /\ x.placed > 0 /\ doc' = doc
      /\ step \in Writing /\ torn \subseteq torn'
      /\ \A q \in Ops \ {p} : Keeps(q) /\ plan'[q] = plan[q]
  BY StepKeeps DEF MoveTo
<1>2. ASSUME Prompt(p)' PROVE InTime(p)'
  <2>1. InTime(p)
    BY <1>1, <1>2 DEF Timely, Prompt, SamePlan
  <2>2. ReadBy(p)' = ReadBy(p)
    BY <1>1 DEF ReadBy, SamePlan
  <2>3. NewDoc(p, plan[p].seen)' = NewDoc(p, plan[p].seen)
    BY <1>1 DEF NewDoc, VersionOf, Upstream, FetchedStatus, SamePlan
  <2>4. /\ doc[plan[p].src] = (IF pc[p] = "removing" THEN plan[p].before ELSE plan[p].new)
        /\ plan[p].before = ReadBy(p) /\ plan[p].new = NewDoc(p, plan[p].seen)
    BY <2>1 DEF InTime, Composed
  <2> QED BY <1>1, <2>2, <2>3, <2>4 DEF InTime, SamePlan, Writing
<1>3. ASSUME NEW q \in Ops \ {p}, Prompt(q)' PROVE InTime(q)'
  <2>1. Prompt(q) /\ pc'[q] = pc[q] /\ plan'[q] = plan[q]
    BY <1>1, <1>3 DEF Prompt, Working, Keeps
  <2>2. InTime(q)
    BY <2>1 DEF Timely
  <2> QED BY <1>1, <2>1, <2>2, InTimeKept, PlannedWaits
<1> QED BY <1>2, <1>3 DEF Timely

LEMMA PlaceAssetTimely ==
  ASSUME Base, Timely, NEW p \in Ops, PlaceAsset(p) PROVE Timely'
<1>1. Working(p) /\ pc[p] = "replacing" /\ plan[p].placed > 0 /\ pc[p] \in Writing
  BY PlaceAssetCreates DEF Writing
<1>2. PICK x : MoveTo(p, x, "replacing")
  BY PlaceAssetCreates
<1> QED BY <1>1, <1>2, MoveTimely

LEMMA RemoveAssetTimely ==
  ASSUME Base, Timely, NEW p \in Ops, RemoveAsset(p) PROVE Timely'
<1>1. Working(p) /\ plan[p].placed > 0 /\ pc[p] \in Writing
  BY RemoveAssetMoves DEF Writing
<1>2. PICK x : MoveTo(p, x, pc[p])
  BY RemoveAssetMoves
<1> QED BY <1>1, <1>2, MoveTimely

LEMMA ReplaceFailsTimely ==
  ASSUME Base, Timely, NEW p \in Ops, ReplaceFails(p) PROVE Timely'
<1>1. CASE plan[p].placed = 0
  <2>1. Working(p) /\ pc[p] = "replacing" /\ RefusedTo(p)
    BY <1>1, ReplaceFailsLocal
  <2> QED BY <2>1, LeaveTimely, StayTimely DEF RefusedTo
<1>2. CASE plan[p].placed # 0
  <2>1. /\ Working(p) /\ pc[p] = "replacing" /\ plan[p].placed > 0 /\ pc[p] \in Writing
        /\ MoveTo(p, plan[p], "undoing")
    BY <1>2, ReplaceFailsMoves DEF Writing
  <2> QED BY <2>1, MoveTimely
<1> QED BY <1>1, <1>2

LEMMA NextTimely == Base /\ Timely /\ [Next]_vars => Timely'
<1> SUFFICES ASSUME Base, Timely, [Next]_vars PROVE Timely'
  OBVIOUS
<1>1. CASE UNCHANGED vars
  <2>1. plan' = plan /\ pc' = pc /\ doc' = doc /\ torn \subseteq torn'
    BY <1>1 DEF vars, files, histories
  <2>2. ASSUME NEW q \in Ops, Prompt(q)' PROVE InTime(q)'
    <3>1. InTime(q)
      BY <2>1, <2>2 DEF Timely, Prompt, Working
    <3> QED BY <2>1, <3>1, InTimeKept, PlannedWaits
  <2> QED BY <2>2 DEF Timely
<1>2. ASSUME NEW p \in Ops, Continue(p) PROVE Timely'
  <2>1. Look(p) => Timely'
    <3> SUFFICES ASSUME Look(p) PROVE Timely'
      OBVIOUS
    <3>1. Working(p) /\ LocalTo(p, plan[p], "looked") /\ pc[p] = "begun"
      BY LookLocal DEF Look
    <3> QED BY <3>1, StayTimely
  <2>2. LookRefuses(p) => Timely'
    BY LookRefusesLocal, LeaveTimely, StayTimely
  <2>3. LookFails(p) => Timely'
    BY LookFailsLocal, LeaveTimely, StayTimely DEF RefusedTo
  <2>4. GiveUp(p) \/ Finish(p) \/ Crash(p) => Timely'
    BY GiveUpLocal, FinishLocal, CrashLocal, LeaveTimely
  <2>5. PreflightRefuses(p) => Timely'
    <3> SUFFICES ASSUME PreflightRefuses(p) PROVE Timely'
      OBVIOUS
    <3>1. Working(p) /\ pc[p] \notin {"planned", "failing", "failed"} /\ RefusedTo(p)
      BY PreflightRefusesLocal
    <3> QED BY <3>1, LeaveTimely, StayTimely DEF RefusedTo
  <2>6. RecordFailure(p) => Timely'
    BY RecordFailureWrites, TimelyWrite
  <2> QED BY <1>2, <2>1, <2>2, <2>3, <2>4, <2>5, <2>6, ComposeTimely, PreviewTimely, ConfirmTimely,
             PreflightTimely, ReplaceSourceTimely, PlaceAssetTimely, ReplaceFailsTimely,
             AuditFailsTimely, RemoveAssetTimely, RestoreSourceTimely, UndoFailsTimely, ReadFailedTimely
             DEF Continue
<1> QED BY <1>1, <1>2, BeginTimely DEF Next

-----------------------------------------------------------------------------
(* Part 3: a version belongs to one Source, and nobody knows it before it  *)
(* has been captured.                                                      *)

Known(p, v) == \E d \in DocsOf(p) : MentionedBy(d, v)

\* What p's next plan mentions, apart from p itself, it finds in the Source or has known.
Brings(p, x) ==
  \A d \in {x.seen, x.new, x.before}, v \in Versions :
    MentionedBy(d, v) => v = p \/ MentionedBy(doc[x.src], v) \/ Known(p, v)

Ownership == OneOwner /\ Freshness

LEMMA KnownOwner ==
  ASSUME NEW p \in Ops, NEW v, Known(p, v) PROVE Mentions(plan[p].src, v)
BY DEF Known, Mentions

LEMMA IdleKnowsNothing ==
  ASSUME Base, NEW p \in Ops, ~Working(p)
  PROVE  plan[p] = NoPlan /\ (\A v : ~Known(p, v)) /\ plan[p].src \notin Sources
<1>1. plan[p] = NoPlan
  BY DEF Base, Stages, Stage, Working
<1> QED BY <1>1, NoPlanShaped, Constants DEF Known, DocsOf, MentionedBy

LEMMA OwnershipLocal ==
  ASSUME Base, Ownership, NEW p \in Ops, NEW x, NEW step, LocalTo(p, x, step),
         step \notin {"idle", "done"} =>
           /\ Brings(p, x) /\ (pc[p] # "idle" => Working(p) /\ plan[p].src = x.src)
           /\ x.op \in CaptureOps =>
                Unknown(p) /\ ~MentionedBy(x.seen, p) /\ ~MentionedBy(x.before, p),
         step # "idle"
  PROVE  Ownership'
<1>1. /\ plan'[p] = x /\ pc'[p] = step /\ doc' = doc /\ archive' = archive /\ bytes' = bytes
      /\ \A q \in Ops \ {p} : Keeps(q) /\ plan'[q] = plan[q] /\ DocsOf(q)' = DocsOf(q)
      /\ x.placed = 0
  BY StepKeeps DEF LocalTo, files, DocsOf
<1>2. step \in {"idle", "done"} => x = NoPlan
  BY DEF LocalTo, Stage
<1>3. ASSUME NEW v \in Versions, NEW d \in DocsOf(p)', MentionedBy(d, v)
      PROVE  step # "done" /\ (v = p \/ MentionedBy(doc[x.src], v) \/ Known(p, v))
  <2>1. d \in {x.seen, x.new, x.before} /\ d # None
    BY <1>1, <1>3 DEF DocsOf
  <2>2. step # "done"
    BY <1>2, <2>1, NoPlanShaped
  <2> QED BY <1>3, <2>1, <2>2 DEF Brings
<1>4. ASSUME NEW q \in Ops \ {p}, Unknown(q) PROVE Unknown(q)'
  <2>1. \A s \in Sources : ~MentionedBy(doc[s], q)'
    BY <1>1, <1>4 DEF Unknown, MentionedBy
  <2>2. \A k \in Kinds : <<q, k>> \notin archive'
    BY <1>1, <1>4 DEF Unknown
  <2>3. ASSUME NEW r \in Ops \ {q}, NEW d \in DocsOf(r)', MentionedBy(d, q) PROVE FALSE
    <3>1. CASE r # p
      BY <1>1, <1>4, <2>3, <3>1 DEF Unknown
    <3>2. CASE r = p
      <4>1. q \in Versions
        BY Constants
      <4>2. step # "done" /\ (MentionedBy(doc[x.src], q) \/ Known(p, q))
        BY <1>3, <2>3, <3>2, <4>1
      <4>3. x.src \in Sources
        BY <4>2, <1>1 DEF LocalTo, Stage, StageOf, Writing
      <4> QED BY <1>4, <4>2, <4>3 DEF Unknown, Known
    <3> QED BY <3>1, <3>2
  <2> QED BY <2>1, <2>2, <2>3 DEF Unknown, MentionedBy
<1>5. Unknown(p) => Unknown(p)'
  BY <1>1 DEF Unknown, MentionedBy
<1>6. Freshness'
  <2>1. ASSUME NEW q \in Ops \ {p} PROVE /\ pc'[q] = "idle" => Unknown(q)'
                                         /\ Working(q)' /\ Capturing(q)' => Captured(q)'
    <3>1. pc'[q] = pc[q] /\ plan'[q] = plan[q]
      BY <1>1 DEF Keeps
    <3>2. (pc[q] = "idle" => Unknown(q)) /\ (Working(q) /\ Capturing(q) => Captured(q))
      BY DEF Ownership, Freshness
    <3> QED BY <1>1, <1>4, <3>1, <3>2 DEF Working, Capturing, Captured, OwnReading, MentionedBy
  <2>2. pc'[p] # "idle"
    BY <1>1
  <2>3. ASSUME Working(p)', Capturing(p)' PROVE Captured(p)'
    <3>1. Unknown(p) /\ ~MentionedBy(x.seen, p) /\ ~MentionedBy(x.before, p)
      BY <1>1, <2>3 DEF Working, Capturing
    <3> QED BY <1>1, <1>5, <3>1 DEF Captured, OwnReading, MentionedBy
  <2> QED BY <2>1, <2>2, <2>3 DEF Freshness
<1>7. OneOwner'
  <2>1. ASSUME NEW t \in Sources, NEW v \in Versions, Mentions(t, v)'
        PROVE  Mentions(t, v) \/ (v = p /\ t = x.src /\ pc[p] = "idle")
    <3>1. CASE MentionedBy(doc[t], v)'
      BY <1>1, <3>1 DEF Mentions, MentionedBy
    <3>2. CASE \E q \in Ops \ {p} : /\ plan'[q].src = t
                                    /\ v = q \/ \E d \in DocsOf(q)' : MentionedBy(d, v)
      BY <1>1, <3>2 DEF Mentions
    <3>3. CASE x.src = t /\ (v = p \/ \E d \in DocsOf(p)' : MentionedBy(d, v))
      <4>1. step # "done"
        BY <1>2, <3>3, NoPlanShaped, Constants
      <4>2. CASE pc[p] = "idle"
        <5>1. ~Known(p, v)
          BY <4>2, IdleKnowsNothing DEF Working
        <5> QED BY <1>3, <3>3, <4>2, <5>1 DEF Mentions
      <4>3. CASE pc[p] # "idle"
        <5>1. plan[p].src = t
          BY <3>3, <4>1, <4>3
        <5>2. v = p \/ MentionedBy(doc[t], v) \/ Known(p, v)
          BY <1>3, <3>3
        <5> QED BY <5>1, <5>2, KnownOwner DEF Mentions
      <4> QED BY <4>2, <4>3
    <3> QED BY <1>1, <2>1, <3>1, <3>2, <3>3 DEF Mentions, MentionedBy
  <2>2. ASSUME NEW t \in Sources, pc[p] = "idle" PROVE ~Mentions(t, p)
    <3>1. Unknown(p) /\ plan[p].src # t
      BY <2>2, IdleKnowsNothing DEF Ownership, Freshness, Working
    <3> QED BY <3>1 DEF Mentions, Unknown
  <2> QED BY <2>1, <2>2, Constants DEF OneOwner, Ownership
<1> QED BY <1>6, <1>7 DEF Ownership

LEMMA LeaveOwnership ==
  ASSUME Base, Ownership, NEW p \in Ops, LocalTo(p, NoPlan, "done") PROVE Ownership'
BY OwnershipLocal

LEMMA DraftMentions == \A v \in Versions : ~MentionedBy(Draft, v)
<1>1. Draft.captured = <<>>
  BY DEF Draft
<1> QED BY <1>1, EmptyList DEF MentionedBy

\* p goes on with the reading that it has, and its Source or a composed one besides.
LEMMA OnwardOwnership ==
  ASSUME Base, Ownership, NEW p \in Ops, Working(p), plan[p].placed = 0,
         NEW x, NEW step, LocalTo(p, x, step), step # "idle", Agree(x, plan[p]),
         \A v \in Versions : MentionedBy(x.new, v) =>
           v = p \/ MentionedBy(doc[plan[p].src], v) \/ Known(p, v),
         x.before \in {plan[p].before, doc[plan[p].src]}
  PROVE  Ownership'
<1>1. x.op = plan[p].op /\ x.src = plan[p].src /\ x.seen = plan[p].seen /\ pc[p] # "idle"
  BY DEF Agree, Working
<1>2. \A v \in Versions : /\ MentionedBy(plan[p].seen, v) => Known(p, v)
                          /\ MentionedBy(plan[p].before, v) => Known(p, v)
  BY DEF Known, DocsOf, MentionedBy
<1>3. Brings(p, x)
  BY <1>1, <1>2 DEF Brings
<1>4. ASSUME x.op \in CaptureOps
      PROVE  Unknown(p) /\ ~MentionedBy(x.seen, p) /\ ~MentionedBy(x.before, p)
  <2>1. Captured(p)
    BY <1>1, <1>4 DEF Ownership, Freshness, Capturing
  <2>2. Unknown(p) /\ plan[p].src \in Sources
    BY <2>1, WorkingPlan DEF Captured
  <2> QED BY <1>1, <2>1, <2>2 DEF Captured, OwnReading, Unknown
<1> QED BY <1>1, <1>3, <1>4, OwnershipLocal

LEMMA StayOwnership ==
  ASSUME Base, Ownership, NEW p \in Ops, Working(p), NEW step, step # "idle",
         LocalTo(p, plan[p], step)
  PROVE  Ownership'
<1>1. plan[p].placed = 0 /\ Agree(plan[p], plan[p])
  BY DEF LocalTo, Agree
<1>2. \A v \in Versions : MentionedBy(plan[p].new, v) => Known(p, v)
  BY DEF Known, DocsOf, MentionedBy
<1> QED BY <1>1, <1>2, OnwardOwnership

LEMMA BeginOwnership ==
  ASSUME Base, Ownership, NEW p \in Ops, Begin(p) PROVE Ownership'
<1>1. PICK op \in Operations, s \in Sources, page \in Pages \cup {None}, dups \in SUBSET Sources :
        /\ op \in CaptureOps <=> page # None
        /\ IF op = "add" THEN s \notin Existing ELSE s \in Existing
        /\ Start(p, op, s, page, dups)
  BY BeginStarts
<1>2. PICK x : BegunPlan(x, op, s, page, dups) /\ LocalTo(p, x, "begun")
  BY <1>1, StartLocal
<1>3. pc[p] = "idle"
  BY <1>1 DEF Start
<1>4. Unknown(p)
  BY <1>3 DEF Ownership, Freshness
<1>5. x.src = s /\ x.new = None /\ x.before = None /\ x.seen \in {Draft, doc[s]}
  BY <1>2 DEF BegunPlan
<1>6. Brings(p, x)
  BY <1>5, DraftMentions DEF Brings, MentionedBy
<1>7. ~MentionedBy(x.seen, p) /\ ~MentionedBy(x.before, p)
  <2>1. ~MentionedBy(doc[s], p)
    BY <1>4 DEF Unknown
  <2> QED BY <1>5, <2>1, DraftMentions, Constants DEF MentionedBy
<1> QED BY <1>2, <1>3, <1>4, <1>6, <1>7, OwnershipLocal

LEMMA ComposeOwnership ==
  ASSUME Base, Ownership, NEW p \in Ops, Compose(p) PROVE Ownership'
<1> DEFINE read == IF plan[p].op = "add" THEN Draft ELSE doc[plan[p].src]
<1>1. Working(p) /\ read \in ShapedDocs /\ Composes(p)
  BY ComposeLocal
<1>2. PICK x : LocalTo(p, x, "composed") /\ Agree(x, plan[p]) /\ x.new = NewDoc(p, read)
               /\ x.before = plan[p].before
  BY ComposeLocal
<1>3. plan[p].placed = 0
  BY <1>2 DEF LocalTo, Agree
<1>4. ASSUME NEW v \in Versions, MentionedBy(x.new, v)
      PROVE  v = p \/ MentionedBy(doc[plan[p].src], v) \/ Known(p, v)
  <2>1. v \in Range(x.new.captured) /\ plan[p].seen \in DocsOf(p)
    BY <1>1, <1>4, WorkingPlan, Constants DEF MentionedBy, DocsOf
  <2>2. v \in Range(plan[p].seen.captured) => Known(p, v)
    BY <2>1 DEF Known, MentionedBy, DocsOf
  <2>3. CASE Capturing(p)
    BY <1>1, <1>2, <2>1, <2>2, <2>3, NewDocShaped
  <2>4. CASE Processing(p)
    BY <1>1, <1>2, <2>1, <2>2, <2>4, NewDocShaped
  <2>5. CASE ~Capturing(p) /\ ~Processing(p)
    <3>1. x.new = read
      BY <1>1, <1>2, <2>5, NewDocShaped
    <3>2. read = doc[plan[p].src]
      BY <2>5 DEF Capturing, CaptureOps
    <3> QED BY <1>4, <3>1, <3>2
  <2> QED BY <2>3, <2>4, <2>5
<1> QED BY <1>1, <1>2, <1>3, <1>4, OnwardOwnership

LEMMA PreviewOwnership ==
  ASSUME Base, Ownership, NEW p \in Ops, Preview(p) \/ Preflight(p) PROVE Ownership'
<1>1. Working(p)
  BY PreviewLocal, PreflightLocal
<1>2. PICK step \in {"planned", "replacing"} :
        \E x : /\ LocalTo(p, x, step) /\ Agree(x, plan[p])
               /\ x.new = plan[p].new /\ x.before = doc[plan[p].src]
  <2>1. CASE Preview(p)
    BY <2>1, PreviewLocal
  <2>2. CASE Preflight(p)
    BY <2>2, PreflightLocal
  <2> QED BY <2>1, <2>2
<1>0. PICK x : /\ LocalTo(p, x, step) /\ Agree(x, plan[p])
               /\ x.new = plan[p].new /\ x.before = doc[plan[p].src]
  BY <1>2
<1>3. plan[p].placed = 0
  BY <1>0 DEF LocalTo, Agree
<1>4. \A v \in Versions : MentionedBy(plan[p].new, v) => Known(p, v)
  BY DEF Known, DocsOf, MentionedBy
<1> QED BY <1>1, <1>0, <1>3, <1>4, OnwardOwnership

LEMMA ReadFailedOwnership ==
  ASSUME Base, Ownership, NEW p \in Ops, ReadFailed(p) PROVE Ownership'
<1> DEFINE read == doc[plan[p].src]
<1>1. Working(p) /\ read \in ShapedDocs
  BY ReadFailedLocal
<1>2. PICK x : LocalTo(p, x, "failed") /\ Agree(x, plan[p])
               /\ x.new = [read EXCEPT !.status = "failed"] /\ x.before = plan[p].before
  BY ReadFailedLocal
<1>3. plan[p].placed = 0
  BY <1>2 DEF LocalTo, Agree
<1>4. x.new.captured = read.captured
  BY <1>1, <1>2, FailedShaped
<1>5. \A v \in Versions : MentionedBy(x.new, v) => MentionedBy(read, v)
  BY <1>1, <1>4, Constants DEF MentionedBy, ShapedDocs
<1> QED BY <1>1, <1>2, <1>3, <1>5, OnwardOwnership

\* The files: p writes what it knows.
Unread(p) ==
  /\ \A s \in Sources : ~MentionedBy(doc[s], p)
  /\ \A q \in Ops \ {p} : \A d \in DocsOf(q) : ~MentionedBy(d, p)

LEMMA OwnerWrite ==
  ASSUME OneOwner, NEW p \in Ops,
         \A s \in Sources : \/ doc'[s] = doc[s]
                            \/ s = plan[p].src /\ \A v \in Versions : MentionedBy(doc[s], v)' => Known(p, v),
         \A q \in Ops \ {p} : Keeps(q),
         DocsOf(p)' \subseteq DocsOf(p), plan'[p].src \in {plan[p].src, None}
  PROVE  OneOwner' /\ \A q \in Ops \ {p} : Unread(q) => Unread(q)'
<1>1. \A q \in Ops \ {p} : DocsOf(q)' = DocsOf(q) /\ plan'[q].src = plan[q].src
  BY DEF Keeps, DocsOf
<1>2. ASSUME NEW s \in Sources, NEW v \in Versions, MentionedBy(doc[s], v)'
      PROVE  MentionedBy(doc[s], v) \/ (s = plan[p].src /\ Known(p, v))
  <2>1. CASE doc'[s] = doc[s]
    BY <1>2, <2>1 DEF MentionedBy
  <2>2. CASE doc'[s] # doc[s]
    BY <1>2, <2>2
  <2> QED BY <2>1, <2>2
<1>3. ASSUME NEW s \in Sources, NEW v \in Versions, Mentions(s, v)' PROVE Mentions(s, v)
  <2>1. CASE MentionedBy(doc[s], v)'
    BY <1>2, <2>1, KnownOwner DEF Mentions
  <2>2. CASE \E q \in Ops : /\ plan'[q].src = s
                            /\ v = q \/ \E d \in DocsOf(q)' : MentionedBy(d, v)
    <3>1. PICK q \in Ops : /\ plan'[q].src = s
                           /\ v = q \/ \E d \in DocsOf(q)' : MentionedBy(d, v)
      BY <2>2
    <3>2. plan[q].src = s /\ (v = q \/ \E d \in DocsOf(q) : MentionedBy(d, v))
      BY <1>1, <3>1, Constants
    <3> QED BY <3>2 DEF Mentions
  <2>3. MentionedBy(doc[s], v)' \/ \E q \in Ops : /\ plan'[q].src = s
                                                  /\ v = q \/ \E d \in DocsOf(q)' : MentionedBy(d, v)
    BY <1>3 DEF Mentions, MentionedBy
  <2> QED BY <2>1, <2>2, <2>3
<1>4. OneOwner'
  BY <1>3 DEF OneOwner
<1>5. ASSUME NEW q \in Ops \ {p}, Unread(q) PROVE Unread(q)'
  <2>1. ~Known(p, q) /\ q \in Versions
    BY <1>5, Constants DEF Unread, Known
  <2>2. \A s \in Sources : ~MentionedBy(doc[s], q)'
    BY <1>2, <1>5, <2>1 DEF Unread
  <2>3. \A r \in Ops \ {q} : \A d \in DocsOf(r)' : ~MentionedBy(d, q)
    BY <1>1, <1>5 DEF Unread
  <2> QED BY <2>2, <2>3 DEF Unread, MentionedBy
<1> QED BY <1>4, <1>5

LEMMA UnknownParts == \A q : Unknown(q) <=> Unread(q) /\ \A k \in Kinds : <<q, k>> \notin archive
BY DEF Unknown, Unread

\* What p writes and keeps when it writes its Source.
HoldsNoMore(x, y) ==
  \/ x = NoPlan
  \/ x.new = y.new /\ x.before = y.before /\ x.seen = y.seen /\ x.src = y.src

LEMMA WriteDocs ==
  ASSUME Base, NEW p \in Ops, Working(p), NEW d, NEW x, NEW step, WriteTo(p, d, x, step),
         d \in {plan[p].new, plan[p].before, doc[plan[p].src]},
         HoldsNoMore(x, plan[p])
  PROVE  /\ \A s \in Sources :
              \/ doc'[s] = doc[s]
              \/ s = plan[p].src /\ \A v \in Versions : MentionedBy(doc[s], v)' => Known(p, v)
         /\ \A q \in Ops \ {p} : Keeps(q)
         /\ DocsOf(p)' \subseteq DocsOf(p) /\ plan'[p].src \in {plan[p].src, None}
         /\ plan'[p] = x /\ pc'[p] = step
<1>1. /\ StepTo(p, x, step, OthersOn(p)) /\ doc' = [doc EXCEPT ![plan[p].src] = d]
  BY DEF WriteTo
<1>2. /\ \A q \in Ops \ {p} : Keeps(q)
      /\ plan'[p] = x /\ pc'[p] = step
  BY <1>1, StepKeeps
<1>3. DocsOf(p)' \subseteq DocsOf(p) /\ plan'[p].src \in {plan[p].src, None}
  BY <1>2, NoPlanShaped DEF DocsOf, HoldsNoMore
<1>4. ASSUME NEW s \in Sources
      PROVE  \/ doc'[s] = doc[s]
             \/ s = plan[p].src /\ \A v \in Versions : MentionedBy(doc[s], v)' => Known(p, v)
  <2>1. CASE s # plan[p].src
    BY <1>1, <2>1
  <2>2. CASE s = plan[p].src
    <3>1. doc'[s] = d
      BY <1>1, <2>2 DEF Base
    <3> QED BY <2>2, <3>1 DEF MentionedBy, Known, DocsOf
  <2> QED BY <2>1, <2>2
<1> QED BY <1>2, <1>3, <1>4

LEMMA FreshOthers ==
  ASSUME Freshness, NEW p \in Ops, NEW q \in Ops \ {p}, Keeps(q), Unread(q) => Unread(q)',
         \A k \in {"raw", "metadata"} : <<q, k>> \in archive' <=> <<q, k>> \in archive,
         Unknown(q) => \A k \in Kinds : <<q, k>> \notin archive',
         bytes'[q] = bytes[q]
  PROVE  /\ pc'[q] = "idle" => Unknown(q)'
         /\ Working(q)' /\ Capturing(q)' => Captured(q)'
<1>1. Unknown(q) => Unknown(q)'
  BY DEF Unknown, Unread, MentionedBy
<1>2. pc'[q] = "idle" => Unknown(q)'
  BY <1>1 DEF Freshness, Keeps
<1>3. ASSUME Working(q)', Capturing(q)' PROVE Captured(q)'
  <2>1. Captured(q)
    BY <1>3 DEF Freshness, Keeps, Working, Capturing
  <2>2. OwnReading(q)'
    BY <2>1 DEF Captured, OwnReading, MentionedBy, Keeps
  <2>3. plan'[q].placed = plan[q].placed /\ plan'[q].page = plan[q].page
    BY DEF Keeps
  <2>4. pc'[q] = pc[q]
    BY DEF Keeps
  <2> QED BY <1>1, <2>1, <2>2, <2>3, <2>4 DEF Captured
<1> QED BY <1>2, <1>3

LEMMA ReplaceSourceOwnership ==
  ASSUME Base, Ownership, NEW p \in Ops, ReplaceSource(p) PROVE Ownership'
<1>1. Working(p) /\ pc[p] = "replacing" /\ plan[p].placed = 0 /\ archive' = archive /\ bytes' = bytes
  BY ReplaceSourceWrites
<1>2. PICK x : /\ WriteTo(p, plan[p].new, x, "replacing") /\ x.placed = 1
               /\ x.op = plan[p].op /\ x.src = plan[p].src /\ x.page = plan[p].page
               /\ x.seen = plan[p].seen /\ x.new = plan[p].new /\ x.before = plan[p].before
               /\ HoldsNoMore(x, plan[p])
  BY ReplaceSourceWrites DEF HoldsNoMore
<1>3. /\ \A s \in Sources :
           \/ doc'[s] = doc[s]
           \/ s = plan[p].src /\ \A v \in Versions : MentionedBy(doc[s], v)' => Known(p, v)
      /\ \A q \in Ops \ {p} : Keeps(q)
      /\ DocsOf(p)' \subseteq DocsOf(p) /\ plan'[p].src \in {plan[p].src, None}
      /\ plan'[p] = x /\ pc'[p] = "replacing"
  BY <1>1, <1>2, WriteDocs
<1>4. OneOwner' /\ \A q \in Ops \ {p} : Unread(q) => Unread(q)'
  BY <1>3, OwnerWrite DEF Ownership
<1>5. \A q \in Ops \ {p} : /\ pc'[q] = "idle" => Unknown(q)'
                           /\ Working(q)' /\ Capturing(q)' => Captured(q)'
  <2> SUFFICES ASSUME NEW q \in Ops \ {p}
               PROVE  /\ pc'[q] = "idle" => Unknown(q)'
                      /\ Working(q)' /\ Capturing(q)' => Captured(q)'
    OBVIOUS
  <2>1. Unknown(q) => \A k \in Kinds : <<q, k>> \notin archive'
    BY <1>1 DEF Unknown
  <2> QED BY <1>1, <1>3, <1>4, <2>1, FreshOthers DEF Ownership
<1>6. ASSUME Capturing(p)' PROVE Captured(p)'
  <2>1. Captured(p)
    BY <1>1, <1>2, <1>3, <1>6 DEF Ownership, Freshness, Capturing
  <2>2. OwnReading(p)'
    BY <1>2, <1>3, <2>1 DEF Captured, OwnReading, MentionedBy
  <2>3. <<p, "raw">> \notin archive' /\ <<p, "metadata">> \notin archive'
    BY <1>1, <2>1 DEF Captured, Unknown, Kinds
  <2> QED BY <1>2, <1>3, <2>2, <2>3 DEF Captured
<1> QED BY <1>3, <1>4, <1>5, <1>6 DEF Ownership, Freshness

LEMMA RecordFailureOwnership ==
  ASSUME Base, Ownership, NEW p \in Ops, RecordFailure(p) PROVE Ownership'
<1>1. Working(p) /\ archive' = archive /\ bytes' = bytes /\ WriteTo(p, plan[p].new, NoPlan, "done")
  BY RecordFailureWrites
<1>0. HoldsNoMore(NoPlan, plan[p])
  BY DEF HoldsNoMore
<1>2. /\ \A s \in Sources :
           \/ doc'[s] = doc[s]
           \/ s = plan[p].src /\ \A v \in Versions : MentionedBy(doc[s], v)' => Known(p, v)
      /\ \A q \in Ops \ {p} : Keeps(q)
      /\ DocsOf(p)' \subseteq DocsOf(p) /\ plan'[p].src \in {plan[p].src, None}
      /\ pc'[p] = "done"
  BY <1>0, <1>1, WriteDocs
<1>3. OneOwner' /\ \A q \in Ops \ {p} : Unread(q) => Unread(q)'
  BY <1>2, OwnerWrite DEF Ownership
<1>4. \A q \in Ops \ {p} : /\ pc'[q] = "idle" => Unknown(q)'
                           /\ Working(q)' /\ Capturing(q)' => Captured(q)'
  <2> SUFFICES ASSUME NEW q \in Ops \ {p}
               PROVE  /\ pc'[q] = "idle" => Unknown(q)'
                      /\ Working(q)' /\ Capturing(q)' => Captured(q)'
    OBVIOUS
  <2>1. Unknown(q) => \A k \in Kinds : <<q, k>> \notin archive'
    BY <1>1 DEF Unknown
  <2> QED BY <1>1, <1>2, <1>3, <2>1, FreshOthers DEF Ownership
<1> QED BY <1>0, <1>2, <1>3, <1>4 DEF Ownership, Freshness, Working

\* The assets of p are its own version's, or of one that it has read.
LEMMA AssetOwner ==
  ASSUME Base, NEW p \in Ops, Working(p), Processing(p) => pc[p] \in Composed \cup {"looked"},
         NEW v, NEW k, <<v, k>> \in AssetSet(p)
  PROVE  \/ Capturing(p) /\ v = p /\ k \in {"raw", "metadata"}
         \/ /\ Processing(p) /\ v = VersionOf(p) /\ k \in {"text", "record"} /\ Known(p, v)
            /\ MentionedBy(plan[p].seen, v) /\ v \in Versions
<1>1. plan[p].op \in Operations /\ plan[p].seen \in Docs /\ plan[p].seen # None
  BY WorkingPlan, Constants
<1>2. CASE Capturing(p)
  BY <1>1, <1>2, AssetFacts
<1>3. CASE Processing(p)
  <2>1. plan[p].seen.captured # <<>> /\ plan[p].seen.captured \in Seq(Versions)
    BY <1>1, <1>3, WorkingPlan DEF StageOf, Writing, Processing, Docs
  <2>2. v = VersionOf(p) /\ k \in {"text", "record"} /\ VersionOf(p) = Last(plan[p].seen.captured)
    BY <1>1, <1>3, AssetFacts
  <2>3. v \in Range(plan[p].seen.captured) /\ v \in Versions
    BY <2>1, <2>2, RangeIn
  <2> QED BY <1>1, <1>3, <2>2, <2>3 DEF MentionedBy, Known, DocsOf
<1> QED BY <1>1, <1>2, <1>3, AssetFacts

LEMMA UndoneAssets ==
  ASSUME Base, NEW p \in Ops, Working(p), plan[p].placed > 0
  PROVE  /\ Undone(p) \subseteq AssetSet(p) /\ pc[p] \in Writing
         /\ Processing(p) => pc[p] \in Composed \cup {"looked"}
<1>1. /\ pc[p] \in Writing /\ plan[p].op \in Operations /\ plan[p].placed \in 0 .. 3
      /\ plan[p].op = "confirm" => plan[p].placed = 1
  BY WorkingPlan, PlanTyped DEF StageOf
<1>2. Undone(p) \subseteq {Assets(p)[i] : i \in 1 .. plan[p].placed - 1}
  BY DEF Undone
<1>3. 1 .. plan[p].placed - 1 \subseteq {1, 2}
  BY <1>1
<1>4. CASE Capturing(p) \/ Processing(p)
  <2>1. AssetSet(p) = {Assets(p)[1], Assets(p)[2]}
    BY <1>1, <1>4, AssetFacts
  <2> QED BY <1>1, <1>2, <1>3, <2>1 DEF Composed
<1>5. CASE ~Capturing(p) /\ ~Processing(p)
  <2>1. plan[p].placed = 1
    BY <1>1, <1>5, AssetFacts
  <2>2. Undone(p) = {}
    BY <1>2, <2>1
  <2> QED BY <1>1, <2>2 DEF Composed
<1> QED BY <1>4, <1>5

\* p takes something back, or begins to.
LEMMA BackOwnership ==
  ASSUME Base, Ownership, NEW p \in Ops, Working(p), plan[p].placed > 0,
         NEW gone, gone \subseteq AssetSet(p), archive' = archive \ gone,
         \A q \in Ops \ {p} : bytes'[q] = bytes[q] /\ Keeps(q),
         OneOwner', \A q \in Ops \ {p} : Unread(q) => Unread(q)',
         \/ pc'[p] # "idle" /\ ~(Working(p)' /\ Capturing(p)')
         \/ /\ pc'[p] \in {"undoing", "removing"} /\ plan'[p].placed > 0
            /\ plan'[p].op = plan[p].op /\ plan'[p].seen = plan[p].seen /\ plan'[p].before = plan[p].before
  PROVE  Ownership'
<1>1. ASSUME NEW q \in Ops \ {p}
      PROVE  /\ pc'[q] = "idle" => Unknown(q)'
             /\ Working(q)' /\ Capturing(q)' => Captured(q)'
  <2>1. \A k \in {"raw", "metadata"} : <<q, k>> \notin gone
    BY UndoneAssets, AssetOwner
  <2>2. \A k \in {"raw", "metadata"} : <<q, k>> \in archive' <=> <<q, k>> \in archive
    BY <2>1
  <2>3. Unknown(q) => \A k \in Kinds : <<q, k>> \notin archive'
    BY DEF Unknown
  <2> QED BY <2>2, <2>3, FreshOthers DEF Ownership
<1>2. pc'[p] # "idle"
  OBVIOUS
<1>3. ASSUME Working(p)', Capturing(p)' PROVE Captured(p)'
  <2>1. /\ pc'[p] # "replacing" /\ plan'[p].placed # 0
        /\ plan'[p].op = plan[p].op /\ plan'[p].seen = plan[p].seen /\ plan'[p].before = plan[p].before
    BY <1>3, WorkingPlan, PlanTyped
  <2>2. Captured(p)
    BY <1>3, <2>1 DEF Ownership, Freshness, Capturing
  <2> QED BY <2>1, <2>2 DEF Captured, OwnReading, MentionedBy
<1> QED BY <1>1, <1>2, <1>3 DEF Ownership, Freshness

LEMMA ReplaceFailsOwnership ==
  ASSUME Base, Ownership, NEW p \in Ops, ReplaceFails(p) PROVE Ownership'
<1>1. CASE plan[p].placed = 0
  <2>1. Working(p) /\ RefusedTo(p)
    BY <1>1, ReplaceFailsLocal
  <2> QED BY <2>1, LeaveOwnership, StayOwnership DEF RefusedTo
<1>2. CASE plan[p].placed # 0
  <2>1. /\ Working(p) /\ plan[p].placed > 0 /\ archive' = archive /\ bytes' = bytes
        /\ StepTo(p, plan[p], "undoing", {}) /\ doc' = doc
    BY <1>2, ReplaceFailsMoves DEF MoveTo
  <2>2. /\ plan'[p] = plan[p] /\ pc'[p] = "undoing" /\ (\A q \in Ops \ {p} : Keeps(q))
    BY <2>1, StepKeeps
  <2>3. DocsOf(p)' = DocsOf(p)
    BY <2>2 DEF DocsOf
  <2>4. OneOwner' /\ \A q \in Ops \ {p} : Unread(q) => Unread(q)'
    BY <2>1, <2>2, <2>3, OwnerWrite DEF Ownership
  <2>5. archive' = archive \ {} /\ {} \subseteq AssetSet(p)
    BY <2>1
  <2> QED BY <2>1, <2>2, <2>4, <2>5, BackOwnership
<1> QED BY <1>1, <1>2

LEMMA RemoveAssetOwnership ==
  ASSUME Base, Ownership, NEW p \in Ops, RemoveAsset(p) PROVE Ownership'
<1>1. /\ Working(p) /\ pc[p] \in {"undoing", "removing"} /\ plan[p].placed \in {2, 3}
      /\ (Capturing(p) \/ Processing(p))
      /\ archive' = archive \ ({Assets(p)[plan[p].placed - 1]} \ plan[p].held)
      /\ bytes' = IF Capturing(p) /\ plan[p].placed = 2 THEN [bytes EXCEPT ![p] = None] ELSE bytes
  BY RemoveAssetMoves
<1>2. PICK x : MoveTo(p, x, pc[p]) /\ x.placed = plan[p].placed - 1
  BY RemoveAssetMoves
<1>3. /\ plan'[p] = x /\ pc'[p] = pc[p] /\ (\A q \in Ops \ {p} : Keeps(q)) /\ doc' = doc
      /\ SamePlan(x, plan[p])
  BY <1>2, StepKeeps DEF MoveTo
<1>4. DocsOf(p)' = DocsOf(p) /\ plan'[p].src = plan[p].src
  BY <1>3 DEF DocsOf, SamePlan
<1>5. OneOwner' /\ \A q \in Ops \ {p} : Unread(q) => Unread(q)'
  BY <1>3, <1>4, OwnerWrite DEF Ownership
<1>6. Assets(p)[plan[p].placed - 1] \in AssetSet(p)
  <2>1. AssetSet(p) = {Assets(p)[1], Assets(p)[2]}
    BY <1>1, WorkingPlan, AssetFacts
  <2>2. plan[p].placed - 1 = 1 \/ plan[p].placed - 1 = 2
    BY <1>1
  <2> QED BY <2>1, <2>2
<1>7. \A q \in Ops \ {p} : bytes'[q] = bytes[q]
  BY <1>1, Constants DEF Base, TypeOK
<1>8. plan'[p].placed > 0 /\ plan[p].placed > 0
  BY <1>1, <1>2, <1>3
<1>9. {Assets(p)[plan[p].placed - 1]} \ plan[p].held \subseteq AssetSet(p)
  BY <1>6
<1> QED BY <1>1, <1>3, <1>5, <1>7, <1>8, <1>9, BackOwnership DEF SamePlan

LEMMA AuditFailsOwnership ==
  ASSUME Base, Ownership, NEW p \in Ops, AuditFails(p) PROVE Ownership'
<1>1. /\ Working(p) /\ plan[p].placed > 0 /\ archive' = archive /\ bytes' = bytes
      /\ WriteTo(p, doc[plan[p].src], plan[p], "undoing")
  BY AuditFailsWrites DEF files
<1>2. HoldsNoMore(plan[p], plan[p])
  BY DEF HoldsNoMore
<1>3. /\ \A s \in Sources :
           \/ doc'[s] = doc[s]
           \/ s = plan[p].src /\ \A v \in Versions : MentionedBy(doc[s], v)' => Known(p, v)
      /\ \A q \in Ops \ {p} : Keeps(q)
      /\ DocsOf(p)' \subseteq DocsOf(p) /\ plan'[p].src \in {plan[p].src, None}
      /\ plan'[p] = plan[p] /\ pc'[p] = "undoing"
  BY <1>1, <1>2, WriteDocs
<1>4. OneOwner' /\ \A q \in Ops \ {p} : Unread(q) => Unread(q)'
  BY <1>3, OwnerWrite DEF Ownership
<1>5. PICK gone : gone \subseteq AssetSet(p) /\ archive' = archive \ gone
  <2>1. archive' = archive \ {} /\ {} \subseteq AssetSet(p)
    BY <1>1
  <2> QED BY <2>1
<1>6. \A q \in Ops \ {p} : bytes'[q] = bytes[q] /\ Keeps(q)
  BY <1>1, <1>3
<1>7. /\ pc'[p] \in {"undoing", "removing"} /\ plan'[p].placed > 0
      /\ plan'[p].op = plan[p].op /\ plan'[p].seen = plan[p].seen /\ plan'[p].before = plan[p].before
  BY <1>1, <1>3
<1> QED BY <1>1, <1>4, <1>5, <1>6, <1>7, BackOwnership

LEMMA RestoreSourceOwnership ==
  ASSUME Base, Ownership, NEW p \in Ops, RestoreSource(p) PROVE Ownership'
<1>1. /\ Working(p) /\ plan[p].placed > 0 /\ archive' = archive /\ bytes' = bytes
  BY RestoreSourceWrites
<1>2. PICK x, step : /\ WriteTo(p, plan[p].before, x, step) /\ HoldsNoMore(x, plan[p])
                     /\ \/ x = NoPlan /\ step = "done"
                        \/ Processing(p) /\ step = "failing" /\ x.op = plan[p].op
                        \/ x = plan[p] /\ step = "removing"
  BY RestoreSourceWrites DEF HoldsNoMore, SamePlan
<1>3. /\ \A s \in Sources :
           \/ doc'[s] = doc[s]
           \/ s = plan[p].src /\ \A v \in Versions : MentionedBy(doc[s], v)' => Known(p, v)
      /\ \A q \in Ops \ {p} : Keeps(q)
      /\ DocsOf(p)' \subseteq DocsOf(p) /\ plan'[p].src \in {plan[p].src, None}
      /\ plan'[p] = x /\ pc'[p] = step
  BY <1>1, <1>2, WriteDocs
<1>4. OneOwner' /\ \A q \in Ops \ {p} : Unread(q) => Unread(q)'
  BY <1>3, OwnerWrite DEF Ownership
<1>5. PICK gone : gone \subseteq AssetSet(p) /\ archive' = archive \ gone
  <2>1. archive' = archive \ {} /\ {} \subseteq AssetSet(p)
    BY <1>1
  <2> QED BY <2>1
<1>6. \/ pc'[p] # "idle" /\ ~(Working(p)' /\ Capturing(p)')
      \/ /\ pc'[p] \in {"undoing", "removing"} /\ plan'[p].placed > 0
         /\ plan'[p].op = plan[p].op /\ plan'[p].seen = plan[p].seen /\ plan'[p].before = plan[p].before
  BY <1>1, <1>2, <1>3 DEF Working, Capturing, CaptureOps, Processing
<1>7. \A q \in Ops \ {p} : bytes'[q] = bytes[q] /\ Keeps(q)
  BY <1>1, <1>3
<1> QED BY <1>1, <1>4, <1>5, <1>6, <1>7, BackOwnership

LEMMA UndoFailsOwnership ==
  ASSUME Base, Ownership, NEW p \in Ops, UndoFails(p) PROVE Ownership'
<1>1. CASE LocalTo(p, NoPlan, "done")
  BY <1>1, LeaveOwnership
<1>2. ASSUME NEW x, Processing(p), SamePlan(x, plan[p]), LocalTo(p, x, "failing") PROVE Ownership'
  <2>1. Working(p) /\ pc[p] # "idle"
    BY UndoFailsLocal DEF Working
  <2>2. Brings(p, x)
    BY <1>2 DEF Brings, SamePlan, Known, DocsOf, MentionedBy
  <2>3. x.op \notin CaptureOps /\ plan[p].src = x.src
    BY <1>2 DEF SamePlan, Processing, CaptureOps
  <2> QED BY <1>2, <2>1, <2>2, <2>3, OwnershipLocal
<1> QED BY <1>1, <1>2, UndoFailsLocal

LEMMA PlaceAssetOwnership ==
  ASSUME Base, Ownership, NEW p \in Ops, PlaceAsset(p) PROVE Ownership'
<1>1. /\ Working(p) /\ pc[p] = "replacing" /\ (Capturing(p) \/ Processing(p))
      /\ plan[p].placed \in {1, 2} /\ doc' = doc
      /\ archive' = archive \cup {Assets(p)[plan[p].placed]}
      /\ bytes' = IF Capturing(p) THEN [bytes EXCEPT ![p] = DigestOf[plan[p].page]] ELSE bytes
  BY PlaceAssetCreates DEF MoveTo
<1>2. PICK x : /\ x.placed = plan[p].placed + 1 /\ SamePlan(x, plan[p])
               /\ StepTo(p, x, "replacing", {})
  BY PlaceAssetCreates DEF MoveTo
<1>3. /\ plan'[p] = x /\ pc'[p] = "replacing" /\ (\A q \in Ops \ {p} : Keeps(q))
  BY <1>2, StepKeeps
<1>4. DocsOf(p)' = DocsOf(p) /\ plan'[p].src = plan[p].src
  BY <1>2, <1>3 DEF DocsOf, SamePlan
<1>5. OneOwner' /\ \A q \in Ops \ {p} : Unread(q) => Unread(q)'
  BY <1>1, <1>3, <1>4, OwnerWrite DEF Ownership
<1>6. Assets(p)[plan[p].placed] \in AssetSet(p)
  <2>1. AssetSet(p) = {Assets(p)[1], Assets(p)[2]}
    BY <1>1, WorkingPlan, AssetFacts
  <2> QED BY <1>1, <2>1
<1>7. \A v, k : <<v, k>> \in AssetSet(p) =>
        \/ Capturing(p) /\ v = p /\ k \in {"raw", "metadata"}
        \/ k \in {"text", "record"} /\ Known(p, v)
  BY <1>1, AssetOwner DEF Composed, Writing
<1>8. ASSUME NEW q \in Ops \ {p}
      PROVE  /\ pc'[q] = "idle" => Unknown(q)'
             /\ Working(q)' /\ Capturing(q)' => Captured(q)'
  <2>1. \A k \in {"raw", "metadata"} : <<q, k>> \in archive' <=> <<q, k>> \in archive
    BY <1>1, <1>6, <1>7
  <2>2. Unknown(q) => ~Known(p, q)
    BY DEF Unknown, Known
  <2>3. Unknown(q) => \A k \in Kinds : <<q, k>> \notin archive'
    BY <1>1, <1>6, <1>7, <2>2 DEF Unknown
  <2>4. bytes'[q] = bytes[q]
    BY <1>1, Constants DEF Base, TypeOK
  <2> QED BY <1>3, <1>5, <2>1, <2>3, <2>4, FreshOthers DEF Ownership
<1>9. ASSUME Capturing(p)' PROVE Captured(p)'
  <2>1. Capturing(p) /\ plan'[p].placed = plan[p].placed + 1 /\ plan'[p].page = plan[p].page
        /\ plan'[p].seen = plan[p].seen /\ plan'[p].before = plan[p].before
    BY <1>2, <1>3, <1>9 DEF Capturing, SamePlan
  <2>2. Captured(p)
    BY <1>1, <2>1 DEF Ownership, Freshness
  <2>3. OwnReading(p)'
    BY <2>1, <2>2 DEF Captured, OwnReading, MentionedBy
  <2>4. Assets(p)[1] = <<p, "raw">> /\ Assets(p)[2] = <<p, "metadata">>
    BY <1>1, <2>1, WorkingPlan, AssetFacts
  <2>5. bytes'[p] = DigestOf[plan'[p].page]
    BY <1>1, <2>1, Constants DEF Base, TypeOK
  <2>6. /\ <<p, "raw">> \in archive <=> plan[p].placed > 1
        /\ <<p, "metadata">> \in archive <=> plan[p].placed > 2
    BY <1>1, <2>2 DEF Captured
  <2>7. /\ <<p, "raw">> \in archive' <=> plan'[p].placed > 1
        /\ <<p, "metadata">> \in archive' <=> plan'[p].placed > 2
    <3>1. CASE plan[p].placed = 1
      BY <1>1, <2>1, <2>4, <2>6, <3>1
    <3>2. CASE plan[p].placed = 2
      BY <1>1, <2>1, <2>4, <2>6, <3>2
    <3> QED BY <1>1, <3>1, <3>2
  <2>8. plan'[p].placed # 0
    BY <1>1, <2>1
  <2> QED BY <2>3, <2>5, <2>7, <2>8 DEF Captured
<1> QED BY <1>3, <1>5, <1>8, <1>9 DEF Ownership, Freshness

LEMMA InitOwnership == Init => Timely /\ Ownership
<1> SUFFICES ASSUME Init PROVE Timely /\ Ownership
  OBVIOUS
<1>1. \A p \in Ops : plan[p] = NoPlan /\ pc[p] = "idle"
  BY DEF Init
<1>2. \A p \in Ops : DocsOf(p) = {} /\ plan[p].src = None /\ ~Working(p) /\ ~Prompt(p)
  BY <1>1, NoPlanShaped DEF DocsOf, Working, Prompt
<1>3. ASSUME NEW s \in Sources, NEW v, MentionedBy(doc[s], v) PROVE s \in Archived /\ v = First
  <2>1. doc[s] = (IF s \in Archived THEN FirstDoc ELSE IF s \in Registered THEN Draft ELSE None)
    BY DEF Init
  <2>2. v \notin Range(Draft.captured)
    BY EmptyList DEF Draft
  <2> QED BY <1>3, <2>1, <2>2, FirstShaped DEF MentionedBy
<1>4. OneOwner
  <2>1. \A s \in Sources, v \in Versions : Mentions(s, v) => s \in Archived
    BY <1>2, <1>3, Constants DEF Mentions
  <2> QED BY <2>1, ArchiveConstants DEF OneOwner
<1>5. ASSUME NEW p \in Ops PROVE Unknown(p)
  <2>1. p # First
    BY Constants
  <2>2. \A k \in Kinds : <<p, k>> \notin archive
    BY <2>1 DEF Init
  <2> QED BY <1>2, <1>3, <2>1, <2>2 DEF Unknown
<1> QED BY <1>2, <1>4, <1>5 DEF Timely, Ownership, Freshness

LEMMA NextOwnership == Base /\ Ownership /\ [Next]_vars => Ownership'
<1> SUFFICES ASSUME Base, Ownership, [Next]_vars PROVE Ownership'
  OBVIOUS
<1>1. CASE UNCHANGED vars
  BY <1>1 DEF vars, files, Ownership, OneOwner, Mentions, MentionedBy, DocsOf, Freshness, Unknown,
     Captured, OwnReading, Working, Capturing
<1>2. ASSUME NEW p \in Ops, Continue(p) PROVE Ownership'
  <2>1. Look(p) => Ownership'
    BY LookLocal, StayOwnership
  <2>2. LookRefuses(p) => Ownership'
    BY LookRefusesLocal, LeaveOwnership, StayOwnership
  <2>3. LookFails(p) => Ownership'
    BY LookFailsLocal, LeaveOwnership, StayOwnership DEF RefusedTo
  <2>4. GiveUp(p) \/ Finish(p) \/ Crash(p) => Ownership'
    BY GiveUpLocal, FinishLocal, CrashLocal, LeaveOwnership
  <2>5. Confirm(p) => Ownership'
    BY ConfirmLocal, StayOwnership
  <2>6. PreflightRefuses(p) => Ownership'
    BY PreflightRefusesLocal, LeaveOwnership, StayOwnership DEF RefusedTo
  <2> QED BY <1>2, <2>1, <2>2, <2>3, <2>4, <2>5, <2>6, ComposeOwnership, PreviewOwnership,
             ReplaceSourceOwnership, PlaceAssetOwnership, ReplaceFailsOwnership, AuditFailsOwnership,
             RemoveAssetOwnership, RestoreSourceOwnership, UndoFailsOwnership, ReadFailedOwnership,
             RecordFailureOwnership DEF Continue
<1> QED BY <1>1, <1>2, BeginOwnership DEF Next

-----------------------------------------------------------------------------
(* Part 4: the Sources that no crash and no late operation has spoilt.     *)

LEMMA KeptParts ==
  ASSUME NEW q, Keeps(q)
  PROVE  /\ Assets(q)' = Assets(q) /\ AssetSet(q)' = AssetSet(q) /\ Undone(q)' = Undone(q)
         /\ Complete(q)' <=> Complete(q)
         /\ Committing(q)' <=> Committing(q)
         /\ MayUndo(q)' <=> MayUndo(q)
         /\ Removing(q)' <=> Removing(q)
         /\ Working(q)' <=> Working(q)
         /\ Processing(q)' <=> Processing(q)
<1>1. Assets(q)' = Assets(q)
  BY DEF Keeps, Assets, VersionOf
<1>2. AssetSet(q)' = AssetSet(q) /\ (Complete(q)' <=> Complete(q))
  BY <1>1 DEF Keeps, AssetSet, Complete
<1>3. Undone(q)' = Undone(q)
  BY <1>1 DEF Keeps, Undone
<1> QED BY <1>1, <1>2, <1>3 DEF Keeps, Committing, MayUndo, Removing, Working, Processing

LEMMA ListedMentioned ==
  ASSUME NEW d \in ShapedDocs
  PROVE  /\ \A v, k : <<v, k>> \in ListedIn(d) => MentionedBy(d, v) /\ v \in Versions /\ k \in Kinds
         /\ ListedIn(d) \subseteq Versions \X Kinds
         /\ Texts(d) \subseteq ListedIn(d)
         /\ d.captured # <<>> => MentionedBy(d, Last(d.captured)) /\ Last(d.captured) \in Versions
         /\ \A v : MentionedBy(d, v) => v \in Versions
<1>1. /\ d \in Docs /\ d # None /\ Range(d.texts) \subseteq Range(d.captured)
      /\ d.captured \in Seq(Versions)
  BY Constants DEF ShapedDocs, Shape, Docs
<1>2. Range(d.captured) \subseteq Versions /\ (d.captured # <<>> => Last(d.captured) \in Range(d.captured))
  BY <1>1, RangeIn
<1> QED BY <1>1, <1>2 DEF ListedIn, Texts, MentionedBy, Kinds

\* Files that d does not mention do not matter to it.
LEMMA GoodKept ==
  ASSUME NEW d \in ShapedDocs \cup {None}, NEW A, NEW B, NEW g, NEW h, Good(d, A, g),
         \A v \in Versions : MentionedBy(d, v) =>
           h[v] = g[v] /\ \A k \in Kinds : <<v, k>> \in A => <<v, k>> \in B
  PROVE  Good(d, B, h)
<1> SUFFICES ASSUME d # None
             PROVE  ListedIn(d) \subseteq B /\ (d.captured # <<>> => h[Last(d.captured)] = d.digest)
  BY DEF Good
<1>1. ListedIn(d) \subseteq A /\ (d.captured # <<>> => g[Last(d.captured)] = d.digest)
  BY DEF Good
<1>2. ListedIn(d) \subseteq B
  BY <1>1, ListedMentioned
<1> QED BY <1>1, <1>2, ListedMentioned

LEMMA WaitsKept ==
  ASSUME NEW d \in ShapedDocs \cup {None}, NEW A, NEW B, Waits(d, A),
         \A v \in Versions : MentionedBy(d, v) =>
           \A k \in {"text", "record"} : <<v, k>> \in B => <<v, k>> \in A
  PROVE  Waits(d, B)
<1> SUFFICES ASSUME d # None, d.status \in {"captured", "failed"}, d.captured # <<>>
             PROVE  ({Last(d.captured)} \X {"text", "record"}) \cap B = {}
  BY DEF Waits
<1>1. ({Last(d.captured)} \X {"text", "record"}) \cap A = {}
  BY DEF Waits
<1>2. MentionedBy(d, Last(d.captured)) /\ Last(d.captured) \in Versions
  BY ListedMentioned
<1>3. ASSUME NEW k \in {"text", "record"} PROVE <<Last(d.captured), k>> \notin B
  BY <1>1, <1>2
<1> QED BY <1>3

\* The versions that the assets of r belong to.
LEMMA OwnAssets ==
  ASSUME Base, NEW r \in Ops, Working(r), Processing(r) => plan[r].seen.captured # <<>>,
         NEW v, NEW k, <<v, k>> \in AssetSet(r)
  PROVE  Mentions(plan[r].src, v) /\ v \in Versions /\ k \in Kinds
<1>1. plan[r].op \in Operations /\ plan[r].seen \in Docs /\ plan[r].seen # None
  BY WorkingPlan, Constants
<1>2. CASE Capturing(r)
  <2>1. v = r /\ k \in Kinds
    BY <1>1, <1>2, AssetFacts DEF Kinds
  <2> QED BY <2>1, Constants DEF Mentions
<1>3. CASE Processing(r)
  <2>1. v = Last(plan[r].seen.captured) /\ k \in Kinds
    BY <1>1, <1>3, AssetFacts DEF Kinds
  <2>2. plan[r].seen.captured # <<>> /\ plan[r].seen.captured \in Seq(Versions)
    BY <1>1, <1>3 DEF Docs
  <2>3. v \in Range(plan[r].seen.captured) /\ v \in Versions
    BY <2>1, <2>2, RangeIn
  <2>4. Known(r, v)
    BY <1>1, <2>3 DEF Known, MentionedBy, DocsOf
  <2> QED BY <2>1, <2>3, <2>4, KnownOwner
<1> QED BY <1>1, <1>2, <1>3, AssetFacts

\* A Source that a step does not concern.
Untouched(t) ==
  /\ doc'[t] = doc[t]
  /\ \A q \in Ops : plan'[q].src = t \/ plan[q].src = t =>
       Keeps(q) /\ (plan'[q].late <=> plan[q].late)
  /\ \A v \in Versions : Mentions(t, v) =>
       bytes'[v] = bytes[v] /\ \A k \in Kinds : <<v, k>> \in archive' <=> <<v, k>> \in archive
  /\ Clean(t)' => Clean(t)
  /\ t \in spoiled => t \in spoiled'

LEMMA UntouchedSource ==
  ASSUME Base, NEW t \in Sources, SourceInv(t), Untouched(t) PROVE SourceInv(t)'
<1> DEFINE Mine == {q \in Ops : plan[q].src = t}
<1>1. Mine' = Mine
  BY DEF Untouched, Keeps
<1>2. ASSUME NEW q \in Mine
      PROVE  /\ q \in Ops /\ Keeps(q) /\ (plan'[q].late <=> plan[q].late) /\ Working(q)
             /\ Assets(q)' = Assets(q) /\ AssetSet(q)' = AssetSet(q) /\ Undone(q)' = Undone(q)
             /\ Committing(q)' <=> Committing(q)
             /\ MayUndo(q)' <=> MayUndo(q)
             /\ Removing(q)' <=> Removing(q)
             /\ Prompt(q)' <=> Prompt(q)
             /\ Processing(q)' <=> Processing(q)
  <2>1. Keeps(q) /\ (plan'[q].late <=> plan[q].late)
    BY DEF Untouched
  <2>2. Working(q)
    BY IdleKnowsNothing
  <2> QED BY <2>1, <2>2, KeptParts DEF Prompt
<1>3. ASSUME NEW q \in Mine, NEW d \in {plan[q].seen, plan[q].before}, d # None, NEW v, MentionedBy(d, v)
      PROVE  Mentions(t, v)
  BY <1>3, KnownOwner DEF Known, DocsOf
<1>4. \A v \in Versions : MentionedBy(doc[t], v) => Mentions(t, v)
  BY DEF Mentions
<1>5. \A v \in Versions : Mentions(t, v) =>
        bytes'[v] = bytes[v] /\ \A k \in Kinds : <<v, k>> \in archive' <=> <<v, k>> \in archive
  BY DEF Untouched
<1>6. ASSUME NEW q \in Mine, Processing(q) => plan[q].seen.captured # <<>>
      PROVE  AssetSet(q) \cap archive' = AssetSet(q) \cap archive
  <2>1. \A v, k : <<v, k>> \in AssetSet(q) => (<<v, k>> \in archive' <=> <<v, k>> \in archive)
    BY <1>2, <1>5, <1>6, OwnAssets
  <2>2. plan[q].op \in Operations
    BY <1>2, WorkingPlan
  <2>3. \A a \in AssetSet(q) : \E v, k : a = <<v, k>>
    BY <2>2, AssetFacts
  <2> QED BY <2>1, <2>3
<1>7. doc[t] \in ShapedDocs \cup {None} /\ doc'[t] = doc[t]
  BY DEF Base, Untouched
<1>8. \A q \in Mine : plan[q].before \in ShapedDocs \cup {None} /\ plan[q] \in ShapedPlans
  BY PlanTyped DEF Base
<1> HIDE DEF Mine
<1>9. ASSUME Clean(t), CommitAlone(t) PROVE CommitAlone(t)'
  <2>1. \A q : q \in Mine <=> q \in Ops /\ plan[q].src = t
    BY DEF Mine
  <2>2. \A q : q \in Mine <=> q \in Ops /\ plan'[q].src = t
    BY <1>1 DEF Mine
  <2>3. SUFFICES ASSUME NEW r \in Mine, Committing(r)'
                 PROVE  /\ ~plan'[r].late
                        /\ \A q \in Mine \ {r} :
                             plan'[q].late \/ (pc'[q] = "planned" /\ (r \in Web \/ plan'[q].before # doc'[t]))
    BY <2>2 DEF CommitAlone
  <2>4. /\ ~plan[r].late
        /\ \A q \in Mine \ {r} :
             plan[q].late \/ (pc[q] = "planned" /\ (r \in Web \/ plan[q].before # doc[t]))
    BY <1>2, <1>9, <2>1, <2>3 DEF CommitAlone
  <2> QED BY <1>2, <1>7, <2>3, <2>4 DEF Keeps
<1>10. ASSUME NEW q \in Mine, PreviewKept(q, t) PROVE PreviewKept(q, t)'
  <2> SUFFICES ASSUME pc'[q] = "planned", ~plan'[q].late, plan'[q].before # None
               PROVE  /\ Texts(plan'[q].before) \subseteq archive'
                      /\ \A r \in Ops : plan'[r].src = t /\ MayUndo(r)' /\ ~plan'[r].late =>
                           Texts(plan'[q].before) \cap Undone(r)' = {}
    BY DEF PreviewKept
  <2>1. plan'[q].before = plan[q].before /\ plan[q].before \in ShapedDocs
    BY <1>2, <1>8 DEF Keeps
  <2>2. /\ Texts(plan[q].before) \subseteq archive
        /\ \A r \in Ops : plan[r].src = t /\ MayUndo(r) /\ ~plan[r].late =>
             Texts(plan[q].before) \cap Undone(r) = {}
    BY <1>2, <1>10, <2>1 DEF PreviewKept, Keeps
  <2>3. ASSUME NEW v, <<v, "text">> \in Texts(plan[q].before) PROVE <<v, "text">> \in archive'
    <3>1. MentionedBy(plan[q].before, v) /\ v \in Versions /\ plan[q].before # None
      BY <2>1, <2>3, ListedMentioned, Constants DEF ShapedDocs
    <3>2. Mentions(t, v)
      BY <1>3, <3>1
    <3> QED BY <1>5, <2>2, <2>3, <3>1, <3>2 DEF Kinds
  <2>4. Texts(plan[q].before) \subseteq archive'
    BY <2>3 DEF Texts
  <2>5. ASSUME NEW r \in Ops, plan'[r].src = t, MayUndo(r)', ~plan'[r].late
        PROVE  Texts(plan[q].before) \cap Undone(r)' = {}
    <3>1. r \in Mine
      BY <1>1, <2>5 DEF Mine
    <3>2. plan[r].src = t
      BY <3>1 DEF Mine
    <3> QED BY <1>2, <2>2, <2>5, <3>1, <3>2
  <2> QED BY <2>1, <2>4, <2>5
<1>11. ASSUME NEW q \in Mine, ExtractsAlone(q) PROVE ExtractsAlone(q)'
  <2>1. Processing(q) /\ pc[q] \in {"looked", "composed", "approved"} \cup Writing =>
          AssetSet(q) \cap archive' = AssetSet(q) \cap archive
    <3> SUFFICES ASSUME Processing(q), pc[q] \in {"looked", "composed", "approved"} \cup Writing
                 PROVE  AssetSet(q) \cap archive' = AssetSet(q) \cap archive
      OBVIOUS
    <3>1. plan[q].seen.captured # <<>>
      BY <1>2, WorkingPlan DEF StageOf, Processing, Composed, Writing
    <3> QED BY <1>6, <3>1
  <2> QED BY <1>2, <1>11, <2>1 DEF ExtractsAlone, Keeps
<1>12. ASSUME NEW q \in Mine, MayRetry(q) PROVE MayRetry(q)'
  <2>1. plan[q].seen.captured # <<>> => AssetSet(q) \cap archive' = AssetSet(q) \cap archive
    BY <1>6
  <2> QED BY <1>2, <1>12, <2>1 DEF MayRetry, Keeps
<1>13. ASSUME NEW q \in Mine, Good(plan[q].before, archive \ Undone(q), bytes)
       PROVE  Good(plan[q].before, archive' \ Undone(q), bytes')
  <2>1. \A v \in Versions : MentionedBy(plan[q].before, v) =>
          bytes'[v] = bytes[v]
          /\ \A k \in Kinds : <<v, k>> \in archive \ Undone(q) => <<v, k>> \in archive' \ Undone(q)
    BY <1>3, <1>5 DEF MentionedBy
  <2> QED BY <1>8, <1>13, <2>1, GoodKept
<1>14. ASSUME NEW q \in Mine, Waits(plan[q].before, archive \ Undone(q))
       PROVE  Waits(plan[q].before, archive' \ Undone(q))
  <2>1. \A v \in Versions : MentionedBy(plan[q].before, v) =>
          \A k \in {"text", "record"} : <<v, k>> \in archive' \ Undone(q) => <<v, k>> \in archive \ Undone(q)
    BY <1>3, <1>5 DEF MentionedBy, Kinds
  <2> QED BY <1>8, <1>14, <2>1, WaitsKept
<1>15. ASSUME Verified(t) PROVE Verified(t)'
  <2>1. ASSUME \A r \in Ops : plan'[r].src = t => ~Committing(r)'
        PROVE  Good(doc[t], archive', bytes')
    <3>1. Good(doc[t], archive, bytes)
      BY <1>1, <1>2, <1>15, <2>1 DEF Verified, Mine
    <3> QED BY <1>4, <1>5, <1>7, <3>1, GoodKept
  <2>2. ASSUME NEW r \in Ops, plan'[r].src = t, ~plan'[r].late, MayUndo(r)'
        PROVE  Good(plan'[r].before, archive' \ Undone(r)', bytes')
    <3>1. r \in Mine /\ plan[r].src = t
      BY <1>1, <2>2 DEF Mine
    <3>2. Good(plan[r].before, archive \ Undone(r), bytes)
      BY <1>2, <1>15, <2>2, <3>1 DEF Verified
    <3>3. plan'[r].before = plan[r].before /\ Undone(r)' = Undone(r)
      BY <1>2, <3>1 DEF Keeps
    <3> QED BY <1>13, <3>1, <3>2, <3>3
  <2> QED BY <1>7, <2>1, <2>2 DEF Verified
<1>16. ASSUME Processable(t) PROVE Processable(t)'
  <2>1. ASSUME \A r \in Ops : plan'[r].src = t => ~Removing(r)'
        PROVE  Waits(doc[t], archive')
    <3>1. Waits(doc[t], archive)
      BY <1>1, <1>2, <1>16, <2>1 DEF Processable, Mine
    <3>2. \A v \in Versions : MentionedBy(doc[t], v) =>
            \A k \in {"text", "record"} : <<v, k>> \in archive' => <<v, k>> \in archive
      BY <1>4, <1>5 DEF Kinds
    <3> QED BY <1>7, <3>1, <3>2, WaitsKept
  <2>2. ASSUME NEW r \in Ops, plan'[r].src = t, ~plan'[r].late, MayUndo(r)'
        PROVE  Waits(plan'[r].before, archive' \ Undone(r)')
    <3>1. r \in Mine /\ plan[r].src = t
      BY <1>1, <2>2 DEF Mine
    <3>2. Waits(plan[r].before, archive \ Undone(r))
      BY <1>2, <1>16, <2>2, <3>1 DEF Processable
    <3>3. plan'[r].before = plan[r].before /\ Undone(r)' = Undone(r)
      BY <1>2, <3>1 DEF Keeps
    <3> QED BY <1>14, <3>1, <3>2, <3>3
  <2>3. \A r \in Ops : plan'[r].src = t => MayRetry(r)'
    BY <1>1, <1>12, <1>16 DEF Processable, Mine
  <2> QED BY <1>7, <2>1, <2>2, <2>3 DEF Processable
<1>17. Previews(t) => Previews(t)'
  BY <1>1, <1>10 DEF Previews, Mine
<1>18. Extractions(t) => Extractions(t)'
  BY <1>1, <1>11 DEF Extractions, Mine
<1> QED BY <1>9, <1>15, <1>16, <1>17, <1>18 DEF SourceInv, Untouched

\* A step of p that writes no file.
LEMMA LocalSource ==
  ASSUME Base, NEW p \in Ops, NEW x, NEW step, LocalTo(p, x, step), NEW t \in Sources, SourceInv(t),
         Clean(t)' => (plan[p].src = t => ~Committing(p)),
         Clean(t)' /\ x.src = t =>
           /\ (\E r \in Ops \ {p} : plan[r].src = t /\ Committing(r)) =>
                x.late \/ (step = "planned" /\ x.before # doc[t])
           /\ PreviewKept(p, t)' /\ ExtractsAlone(p)'
           /\ t \notin spoiled' => MayRetry(p)'
  PROVE  SourceInv(t)'
<1>1. /\ plan'[p] = x /\ pc'[p] = step /\ doc' = doc /\ archive' = archive /\ bytes' = bytes
      /\ \A q \in Ops \ {p} : Keeps(q) /\ plan'[q] = plan[q]
      /\ x.placed = 0 /\ overtaken' = overtaken /\ torn \subseteq torn' /\ spoiled \subseteq spoiled'
  BY StepKeeps DEF LocalTo, files
<1>2. ASSUME NEW q \in Ops \ {p}
      PROVE  /\ Keeps(q) /\ (plan'[q].late <=> plan[q].late)
             /\ Assets(q)' = Assets(q) /\ AssetSet(q)' = AssetSet(q) /\ Undone(q)' = Undone(q)
             /\ Committing(q)' <=> Committing(q)
             /\ MayUndo(q)' <=> MayUndo(q)
             /\ Removing(q)' <=> Removing(q)
             /\ Prompt(q)' <=> Prompt(q)
             /\ Processing(q)' <=> Processing(q)
  BY <1>1, KeptParts DEF Prompt
<1>3. ~Committing(p)' /\ ~MayUndo(p)' /\ ~Removing(p)' /\ (~Committing(p) => ~Removing(p))
  <2>1. pc'[p] # "undoing"
    BY <1>1 DEF LocalTo, Stage, StageOf
  <2> QED BY <1>1, <2>1 DEF Committing, MayUndo, Removing
<1>4. Clean(t)' => Clean(t)
  BY <1>1 DEF Clean
<1>5. ASSUME Clean(t)', CommitAlone(t) PROVE CommitAlone(t)'
  <2> SUFFICES ASSUME NEW r \in Ops, plan'[r].src = t, Committing(r)'
               PROVE  /\ ~plan'[r].late
                      /\ \A q \in Ops \ {r} : plan'[q].src = t =>
                           \/ plan'[q].late
                           \/ pc'[q] = "planned" /\ (r \in Web \/ plan'[q].before # doc'[t])
    BY DEF CommitAlone
  <2>1. r # p
    BY <1>3
  <2>2. Committing(r) /\ plan[r].src = t
    BY <1>1, <1>2, <2>1
  <2>3. /\ ~plan[r].late
        /\ \A q \in Ops \ {r} : plan[q].src = t =>
             plan[q].late \/ (pc[q] = "planned" /\ (r \in Web \/ plan[q].before # doc[t]))
    BY <1>5, <2>2 DEF CommitAlone
  <2>4. ASSUME NEW q \in Ops \ {r}, plan'[q].src = t
        PROVE  \/ plan'[q].late
               \/ pc'[q] = "planned" /\ (r \in Web \/ plan'[q].before # doc'[t])
    <3>1. CASE q = p
      BY <1>1, <1>5, <2>1, <2>2, <2>4, <3>1
    <3>2. CASE q # p
      BY <1>1, <2>3, <2>4, <3>2 DEF Keeps
    <3> QED BY <3>1, <3>2
  <2> QED BY <1>2, <2>1, <2>3, <2>4
<1>6. ASSUME NEW q \in Ops \ {p}, PreviewKept(q, t) PROVE PreviewKept(q, t)'
  <2> SUFFICES ASSUME pc'[q] = "planned", ~plan'[q].late, plan'[q].before # None
               PROVE  /\ Texts(plan'[q].before) \subseteq archive'
                      /\ \A r \in Ops : plan'[r].src = t /\ MayUndo(r)' /\ ~plan'[r].late =>
                           Texts(plan'[q].before) \cap Undone(r)' = {}
    BY DEF PreviewKept
  <2>1. /\ Texts(plan[q].before) \subseteq archive
        /\ \A r \in Ops : plan[r].src = t /\ MayUndo(r) /\ ~plan[r].late =>
             Texts(plan[q].before) \cap Undone(r) = {}
    BY <1>1, <1>6 DEF PreviewKept, Keeps
  <2> QED BY <1>1, <1>2, <1>3, <2>1
<1>7. ASSUME Clean(t)', Previews(t) PROVE Previews(t)'
  BY <1>1, <1>6, <1>7 DEF Previews
<1>8. ASSUME Clean(t)', Extractions(t) PROVE Extractions(t)'
  <2>1. ASSUME NEW q \in Ops \ {p}, ExtractsAlone(q) PROVE ExtractsAlone(q)'
    BY <1>1, <1>2, <2>1 DEF ExtractsAlone, Keeps
  <2> QED BY <1>1, <1>8, <2>1 DEF Extractions
<1>9. ASSUME Clean(t)', Verified(t) PROVE Verified(t)'
  <2>1. (\A r \in Ops : plan'[r].src = t => ~Committing(r)') => Good(doc'[t], archive', bytes')
    BY <1>1, <1>2, <1>9 DEF Verified
  <2>2. ASSUME NEW r \in Ops, plan'[r].src = t, ~plan'[r].late, MayUndo(r)'
        PROVE  Good(plan'[r].before, archive' \ Undone(r)', bytes')
    <3>1. r # p
      BY <1>3, <2>2
    <3> QED BY <1>1, <1>2, <1>9, <2>2, <3>1 DEF Verified
  <2> QED BY <2>1, <2>2 DEF Verified
<1>10. ASSUME Clean(t)', t \notin spoiled', Processable(t) PROVE Processable(t)'
  <2>1. (\A r \in Ops : plan'[r].src = t => ~Removing(r)') => Waits(doc'[t], archive')
    BY <1>1, <1>2, <1>3, <1>10 DEF Processable
  <2>2. ASSUME NEW r \in Ops, plan'[r].src = t, ~plan'[r].late, MayUndo(r)'
        PROVE  Waits(plan'[r].before, archive' \ Undone(r)')
    <3>1. r # p
      BY <1>3, <2>2
    <3> QED BY <1>1, <1>2, <1>10, <2>2, <3>1 DEF Processable
  <2>3. ASSUME NEW r \in Ops, plan'[r].src = t PROVE MayRetry(r)'
    <3>1. CASE r = p
      BY <1>1, <1>10, <2>3, <3>1
    <3>2. CASE r # p
      <4>1. MayRetry(r)
        BY <1>1, <1>10, <2>3, <3>2 DEF Processable
      <4> QED BY <1>1, <1>2, <3>2, <4>1 DEF MayRetry, Keeps
    <3> QED BY <3>1, <3>2
  <2> QED BY <2>1, <2>2, <2>3 DEF Processable
<1> QED BY <1>1, <1>4, <1>5, <1>7, <1>8, <1>9, <1>10 DEF SourceInv

\* Who is not late is alone.
LEMMA Alone ==
  ASSUME NEW p \in Ops, NEW t, CommitAlone(t), plan[p].src = t, ~plan[p].late,
         pc[p] = "planned" => plan[p].before = doc[t] /\ \A r \in Web : ~Committing(r)
  PROVE  \A r \in Ops \ {p} : plan[r].src = t => ~Committing(r)
BY DEF CommitAlone

LEMMA LeaveSources ==
  ASSUME Base, SourcesInv, NEW p \in Ops, LocalTo(p, NoPlan, "done"),
         Committing(p) => plan[p].src \in torn'
  PROVE  SourcesInv'
<1> SUFFICES ASSUME NEW t \in Sources PROVE SourceInv(t)'
  BY DEF SourcesInv
<1>1. PICK x, step : x = NoPlan /\ step = "done" /\ LocalTo(p, x, step)
  OBVIOUS
<1>2. x.src # t
  BY <1>1, NoPlanShaped, Constants
<1>3. Clean(t)' => (plan[p].src = t => ~Committing(p))
  BY DEF Clean
<1>4. SourceInv(t)
  BY DEF SourcesInv
<1> QED BY <1>1, <1>2, <1>3, <1>4, LocalSource

LEMMA OnwardSources ==
  ASSUME Base, SourcesInv, NEW p \in Ops, Working(p), plan[p].placed = 0,
         NEW x, NEW step, LocalTo(p, x, step), Agree(x, plan[p]),
         pc[p] = "planned" => plan[p].before = doc[plan[p].src] /\ \A r \in Web : ~Committing(r),
         Clean(plan[p].src) /\ step = "planned" => PreviewKept(p, plan[p].src)',
         Clean(plan[p].src) /\ Prompt(p) /\ Processing(p) =>
           /\ step \in {"looked", "composed", "approved", "replacing"} => AssetSet(p) \cap archive = {}
           /\ step \in {"planned", "approved", "replacing"} => x.held = {},
         Clean(plan[p].src) /\ plan[p].src \notin spoiled' /\ ~plan[p].late =>
           (step \in {"failing", "failed"} /\ plan[p].seen.captured # <<>> => AssetSet(p) \cap archive = {})
  PROVE  SourcesInv'
<1> SUFFICES ASSUME NEW t \in Sources PROVE SourceInv(t)'
  BY DEF SourcesInv
<1>1. /\ plan'[p] = x /\ pc'[p] = step /\ doc' = doc /\ archive' = archive
      /\ x.placed = 0 /\ overtaken' = overtaken /\ torn \subseteq torn'
      /\ x.late = plan[p].late /\ x.src = plan[p].src /\ x.seen = plan[p].seen /\ x.op = plan[p].op
  BY StepKeeps DEF LocalTo, files, Agree
<1>2. Assets(p)' = Assets(p) /\ AssetSet(p)' = AssetSet(p)
  BY <1>1 DEF Assets, AssetSet, VersionOf
<1>3. ~Committing(p)
  BY WorkingPlan DEF Committing, StageOf
<1>4. SourceInv(t) /\ (Clean(t)' => Clean(t))
  BY <1>1 DEF SourcesInv, Clean
<1>5. ASSUME Clean(t)', x.src = t
      PROVE  /\ (\E r \in Ops \ {p} : plan[r].src = t /\ Committing(r)) =>
                  x.late \/ (step = "planned" /\ x.before # doc[t])
             /\ PreviewKept(p, t)' /\ ExtractsAlone(p)'
             /\ t \notin spoiled' => MayRetry(p)'
  <2>1. Clean(t) /\ CommitAlone(t) /\ plan[p].src = t
    BY <1>1, <1>4, <1>5 DEF SourceInv
  <2>2. (\E r \in Ops \ {p} : plan[r].src = t /\ Committing(r)) => x.late
    BY <1>1, <2>1, Alone
  <2>6. step \in Writing => step = "replacing"
    BY <1>1 DEF LocalTo, Stage, StageOf, Writing
  <2>3. PreviewKept(p, t)'
    BY <1>1, <2>1 DEF PreviewKept
  <2>4. ExtractsAlone(p)'
    <3> SUFFICES ASSUME Prompt(p)', Processing(p)'
                 PROVE  /\ step \in {"looked", "composed", "approved"} => AssetSet(p) \cap archive = {}
                        /\ step \in {"planned", "approved", "replacing"} => x.held = {}
                        /\ step = "replacing" =>
                             AssetSet(p) \cap archive = {Assets(p)[i] : i \in 1 .. x.placed - 1}
      BY <1>1, <1>2, <2>6 DEF ExtractsAlone, Writing
    <3>1. Prompt(p) /\ Processing(p)
      BY <1>1, <2>1 DEF Prompt, Processing
    <3>2. 1 .. x.placed - 1 = {}
      BY <1>1
    <3>3. {Assets(p)[i] : i \in 1 .. x.placed - 1} = {}
      BY <3>2
    <3> QED BY <2>1, <3>1, <3>3
  <2>5. t \notin spoiled' => MayRetry(p)'
    BY <1>1, <1>2, <2>1 DEF MayRetry
  <2> QED BY <2>2, <2>3, <2>4, <2>5
<1> QED BY <1>3, <1>4, <1>5, LocalSource

LEMMA StaySources ==
  ASSUME Base, SourcesInv, NEW p \in Ops, Working(p), NEW step, LocalTo(p, plan[p], step),
         pc[p] = "planned" => plan[p].before = doc[plan[p].src] /\ \A r \in Web : ~Committing(r),
         step # "planned",
         Clean(plan[p].src) /\ Prompt(p) /\ Processing(p) =>
           /\ step \in {"looked", "composed", "approved", "replacing"} => AssetSet(p) \cap archive = {}
           /\ step \in {"planned", "approved", "replacing"} => plan[p].held = {},
         Clean(plan[p].src) /\ plan[p].src \notin spoiled' /\ ~plan[p].late =>
           (step \in {"failing", "failed"} /\ plan[p].seen.captured # <<>> => AssetSet(p) \cap archive = {})
  PROVE  SourcesInv'
<1>1. plan[p].placed = 0 /\ Agree(plan[p], plan[p])
  BY DEF LocalTo, Agree
<1> QED BY <1>1, OnwardSources

LEMMA LookSources ==
  ASSUME Base, SourcesInv, NEW p \in Ops, Look(p) PROVE SourcesInv'
<1>1. pc[p] = "begun" /\ AssetSet(p) \cap archive = {}
  BY DEF Look, Extracted
<1> QED BY <1>1, LookLocal, StaySources

LEMMA StartSources ==
  ASSUME Base, SourcesInv, NEW p \in Ops, Begin(p) PROVE SourcesInv'
<1>1. PICK op \in Operations, s \in Sources, page \in Pages \cup {None}, dups \in SUBSET Sources :
        /\ op \in CaptureOps <=> page # None
        /\ IF op = "add" THEN s \notin Existing ELSE s \in Existing
        /\ Start(p, op, s, page, dups)
  BY BeginStarts
<1>2. PICK x, step : step = "begun" /\ BegunPlan(x, op, s, page, dups) /\ LocalTo(p, x, step)
  BY <1>1, StartLocal
<1>0. pc[p] = "idle"
  BY <1>1 DEF Start
<1>3. ~Committing(p) /\ plan'[p] = x /\ pc'[p] = step
  BY <1>0, <1>2, StepKeeps DEF Committing, LocalTo
<1>4. PreviewKept(p, s)' /\ ExtractsAlone(p)' /\ MayRetry(p)'
  BY <1>2, <1>3 DEF PreviewKept, ExtractsAlone, MayRetry, Writing
<1>5. x.src = s /\ (x.late <=> \E q \in Ops : plan[q].src = s /\ Committing(q))
  BY <1>2 DEF BegunPlan
<1> SUFFICES ASSUME NEW t \in Sources PROVE SourceInv(t)'
  BY DEF SourcesInv
<1>6. SourceInv(t)
  BY DEF SourcesInv
<1> QED BY <1>2, <1>3, <1>4, <1>5, <1>6, LocalSource

\* An operation that is in time knows a Source that is right.
LEMMA ReadsGood ==
  ASSUME Base, Timely, SourcesInv, NEW p \in Ops, Prompt(p), plan[p].placed = 0, pc[p] # "planned",
         Clean(plan[p].src)
  PROVE  /\ doc[plan[p].src] = ReadBy(p)
         /\ Good(doc[plan[p].src], archive, bytes)
         /\ plan[p].src \notin spoiled => Waits(doc[plan[p].src], archive)
         /\ \A r \in Ops : plan[r].src = plan[p].src => ~Committing(r)
<1>1. Working(p) /\ ~plan[p].late /\ InTime(p)
  BY DEF Timely, Prompt
<1>2. plan[p].src \in Sources
  BY <1>1, WorkingPlan
<1>3. SourceInv(plan[p].src)
  BY <1>2 DEF SourcesInv
<1>4. \A r \in Ops : plan[r].src = plan[p].src => ~Committing(r)
  <2>1. \A r \in Ops \ {p} : plan[r].src = plan[p].src => ~Committing(r)
    BY <1>1, <1>3, Alone DEF SourceInv
  <2>2. ~Committing(p)
    BY <1>1, WorkingPlan DEF Committing, StageOf
  <2> QED BY <2>1, <2>2
<1>5. \A r \in Ops : plan[r].src = plan[p].src => ~Removing(r)
  BY <1>4 DEF Committing, Removing
<1> QED BY <1>1, <1>3, <1>4, <1>5 DEF SourceInv, Verified, Processable, InTime, Clean

LEMMA ComposeSources ==
  ASSUME Base, SourcesInv, NEW p \in Ops, Compose(p) PROVE SourcesInv'
<1>1. Working(p) /\ pc[p] = (IF Processing(p) THEN "looked" ELSE "begun")
  BY ComposeLocal
<1>2. PICK x, step : step = "composed" /\ LocalTo(p, x, step) /\ Agree(x, plan[p])
  BY ComposeLocal
<1>3. plan[p].placed = 0 /\ pc[p] # "planned"
  BY <1>1, <1>2 DEF LocalTo, Agree
<1>4. plan[p].src \in Sources
  BY <1>1, WorkingPlan
<1>5. Clean(plan[p].src) /\ Prompt(p) /\ Processing(p) => AssetSet(p) \cap archive = {}
  BY <1>1, <1>4 DEF SourcesInv, SourceInv, Extractions, ExtractsAlone
<1> QED BY <1>1, <1>2, <1>3, <1>5, OnwardSources

LEMMA LookRefusesSources ==
  ASSUME Base, Timely, SourcesInv, NEW p \in Ops, LookRefuses(p) PROVE SourcesInv'
<1>1. Working(p) /\ pc[p] = "begun" /\ Processing(p) /\ spoiled' = spoiled
  BY LookRefusesLocal
<1>2. CASE LocalTo(p, NoPlan, "done")
  BY <1>1, <1>2, LeaveSources DEF Committing
<1>3. CASE p \notin Web /\ LocalTo(p, plan[p], "failing")
           /\ (HasVersion(p) => Extracted(p) # {} /\ ~AlreadyProcessed(p))
  <2> DEFINE s == plan[p].src
             seen == plan[p].seen
             v == VersionOf(p)
  <2>1. ASSUME Clean(s), s \notin spoiled', ~plan[p].late, seen.captured # <<>>
        PROVE  AssetSet(p) \cap archive = {}
    <3>1. Prompt(p) /\ plan[p].placed = 0
      BY <1>1, <1>3, <2>1 DEF Prompt, LocalTo
    <3>2. doc[s] = seen /\ Good(doc[s], archive, bytes) /\ Waits(doc[s], archive)
      BY <1>1, <2>1, <3>1, ReadsGood DEF ReadBy, Processing
    <3>3. seen \in ShapedDocs /\ seen \in Docs /\ seen # None /\ plan[p].op \in Operations
      BY <1>1, WorkingPlan, Constants
    <3>4. v = Last(seen.captured) /\ AssetSet(p) = {<<v, "text">>, <<v, "record">>}
      BY <1>1, <3>3, AssetFacts
    <3>5. /\ ListedIn(seen) \subseteq archive
          /\ seen.status \in {"captured", "failed"} => ({v} \X {"text", "record"}) \cap archive = {}
      BY <2>1, <3>2, <3>3, <3>4 DEF Good, Waits
    <3>6. v \in Range(seen.captured)
      BY <2>1, <3>3, <3>4, RangeIn DEF Docs
    <3>7. {v} \X {"raw", "metadata"} \subseteq ListedIn(seen)
      BY <3>6 DEF ListedIn
    <3>8. HasVersion(p)
      BY <2>1, <3>5, <3>7 DEF HasVersion
    <3>9. seen.status # "processed"
      <4> SUFFICES ASSUME seen.status = "processed" PROVE FALSE
        OBVIOUS
      <4>1. seen.texts # <<>> /\ Last(seen.texts) = v /\ seen.texts \in Seq(Versions)
        BY <3>3, <3>4 DEF ShapedDocs, Shape, Docs
      <4>2. v \in Range(seen.texts)
        BY <4>1, RangeIn
      <4>3. AssetSet(p) \subseteq ListedIn(seen)
        BY <3>4, <4>2 DEF ListedIn
      <4>4. Extracted(p) = AssetSet(p)
        BY <3>5, <4>3 DEF Extracted
      <4> QED BY <1>3, <3>8, <4>4 DEF AlreadyProcessed
    <3>10. seen.status # "registered"
      BY <2>1, <3>3 DEF ShapedDocs, Shape
    <3>11. seen.status \in {"captured", "failed"}
      BY <3>3, <3>9, <3>10 DEF Docs, Statuses
    <3>12. <<v, "text">> \notin archive /\ <<v, "record">> \notin archive
      BY <3>5, <3>11
    <3> QED BY <3>4, <3>12
  <2> HIDE DEF s, seen, v
  <2>2. Clean(plan[p].src) /\ plan[p].src \notin spoiled' /\ ~plan[p].late =>
          (plan[p].seen.captured # <<>> => AssetSet(p) \cap archive = {})
    BY <2>1 DEF s, seen
  <2> QED BY <1>1, <1>3, <2>2, StaySources
<1> QED BY <1>2, <1>3, LookRefusesLocal

LEMMA LookFailsSources ==
  ASSUME Base, SourcesInv, NEW p \in Ops, LookFails(p) PROVE SourcesInv'
<1>1. /\ Working(p) /\ pc[p] = "begun" /\ RefusedTo(p)
      /\ plan[p].seen.captured # <<>> /\ Extracted(p) # {} /\ p \notin Web => plan[p].src \in spoiled'
  BY LookFailsLocal
<1>2. CASE LocalTo(p, NoPlan, "done")
  BY <1>1, <1>2, LeaveSources DEF Committing
<1>3. CASE p \notin Web /\ LocalTo(p, plan[p], "failing")
  <2>1. plan[p].src \notin spoiled' /\ plan[p].seen.captured # <<>> => AssetSet(p) \cap archive = {}
    BY <1>1, <1>3 DEF Extracted
  <2> QED BY <1>1, <1>3, <2>1, StaySources
<1> QED BY <1>1, <1>2, <1>3 DEF RefusedTo

\* A commit is refused, or fails at its first file, and nothing of it was written.
LEMMA RefusedSources ==
  ASSUME Base, SourcesInv, NEW p \in Ops, Working(p), RefusedTo(p),
         pc[p] \in {"composed", "approved", "replacing"}, plan[p].placed = 0
  PROVE  SourcesInv'
<1>1. CASE LocalTo(p, NoPlan, "done")
  BY <1>1, LeaveSources DEF Committing
<1>2. CASE Processing(p) /\ LocalTo(p, plan[p], "failing")
  <2>1. plan[p].src \in Sources
    BY WorkingPlan
  <2>2. 1 .. plan[p].placed - 1 = {}
    OBVIOUS
  <2>3. {Assets(p)[i] : i \in 1 .. plan[p].placed - 1} = {}
    BY <2>2
  <2>4. Clean(plan[p].src) /\ ~plan[p].late => AssetSet(p) \cap archive = {}
    BY <1>2, <2>1, <2>3 DEF SourcesInv, SourceInv, Extractions, ExtractsAlone, Prompt, Writing
  <2> QED BY <1>2, <2>4, StaySources
<1> QED BY <1>1, <1>2 DEF RefusedTo

LEMMA PreviewSources ==
  ASSUME Base, Timely, SourcesInv, NEW p \in Ops, Preview(p) PROVE SourcesInv'
<1>1. Working(p) /\ p \in Web /\ pc[p] = "composed"
  BY PreviewLocal
<1>2. PICK x, step : /\ step = "planned" /\ LocalTo(p, x, step) /\ Agree(x, plan[p])
                     /\ x.before = doc[plan[p].src] /\ x.held = AssetSet(p) \cap archive
  BY PreviewLocal
<1>3. /\ plan[p].placed = 0 /\ plan'[p] = x /\ pc'[p] = "planned" /\ archive' = archive
      /\ \A q \in Ops \ {p} : Keeps(q) /\ plan'[q] = plan[q]
      /\ x.placed = 0 /\ x.late = plan[p].late
  BY <1>2, StepKeeps DEF LocalTo, Agree, files
<1>4. plan[p].src \in Sources /\ doc[plan[p].src] \in ShapedDocs \cup {None}
  BY <1>1, WorkingPlan DEF Base
<1>5. ASSUME Clean(plan[p].src) PROVE PreviewKept(p, plan[p].src)'
  <2> DEFINE s == plan[p].src
             d == doc[s]
  <2> SUFFICES ASSUME ~x.late, d # None
               PROVE  /\ Texts(d) \subseteq archive
                      /\ \A r \in Ops : ~(plan'[r].src = s /\ MayUndo(r)')
    <3>1. x.src = s /\ x.before = d
      BY <1>2 DEF Agree
    <3> QED BY <1>3, <3>1 DEF PreviewKept
  <2>1. Good(d, archive, bytes) /\ \A r \in Ops : plan[r].src = s => ~Committing(r)
    BY <1>1, <1>3, <1>5, ReadsGood DEF Prompt
  <2>2. Texts(d) \subseteq archive
    BY <1>4, <2>1, ListedMentioned DEF Good
  <2>3. ASSUME NEW r \in Ops, plan'[r].src = s, MayUndo(r)' PROVE FALSE
    <3>1. r # p
      BY <1>3, <2>3 DEF MayUndo
    <3>2. MayUndo(r) /\ plan[r].src = s
      BY <1>3, <2>3, <3>1, KeptParts
    <3>3. r \in Web /\ pc[r] \in Writing
      <4>1. Working(r)
        BY <3>2 DEF MayUndo, Working, Writing
      <4>2. pc[r] = "removing" => r \in Web
        BY <4>1, WorkingPlan DEF StageOf
      <4> QED BY <2>1, <3>2, <4>2 DEF MayUndo, Committing, Writing
    <3> QED BY <1>1, <3>1, <3>3 DEF Base, OneHandler, HandlerWaits, Writing
  <2> QED BY <2>2, <2>3
<1>6. Clean(plan[p].src) /\ Prompt(p) /\ Processing(p) => AssetSet(p) \cap archive = {}
  BY <1>1, <1>4 DEF SourcesInv, SourceInv, Extractions, ExtractsAlone
<1> QED BY <1>1, <1>2, <1>3, <1>5, <1>6, OnwardSources

LEMMA ConfirmSources ==
  ASSUME Base, SourcesInv, NEW p \in Ops, Confirm(p) PROVE SourcesInv'
<1>1. /\ Working(p) /\ pc[p] = "planned" /\ LocalTo(p, plan[p], "approved")
      /\ doc[plan[p].src] = plan[p].before /\ AssetSet(p) \cap archive = plan[p].held
  BY ConfirmLocal
<1>2. plan[p].src \in Sources
  BY <1>1, WorkingPlan
<1>3. Clean(plan[p].src) /\ Prompt(p) /\ Processing(p) => plan[p].held = {}
  BY <1>1, <1>2 DEF SourcesInv, SourceInv, Extractions, ExtractsAlone
<1>4. \A r \in Web : ~Committing(r)
  BY DEF Confirm, WebFree, Committing
<1> QED BY <1>1, <1>3, <1>4, StaySources

LEMMA PreflightSources ==
  ASSUME Base, SourcesInv, NEW p \in Ops, Preflight(p) PROVE SourcesInv'
<1>1. Working(p) /\ pc[p] = (IF p \in Web THEN "approved" ELSE "composed")
  BY PreflightLocal
<1>2. PICK x, step : /\ step = "replacing" /\ LocalTo(p, x, step) /\ Agree(x, plan[p])
                     /\ x.held = plan[p].held
  BY PreflightLocal
<1>3. plan[p].placed = 0 /\ pc[p] # "planned"
  BY <1>1, <1>2 DEF LocalTo, Agree
<1>4. plan[p].src \in Sources /\ (p \notin Web => plan[p].held = {})
  BY <1>1, WorkingPlan DEF StageOf, Writing
<1>5. Clean(plan[p].src) /\ Prompt(p) /\ Processing(p) => AssetSet(p) \cap archive = {} /\ x.held = {}
  BY <1>1, <1>2, <1>4 DEF SourcesInv, SourceInv, Extractions, ExtractsAlone
<1> QED BY <1>1, <1>2, <1>3, <1>5, OnwardSources

LEMMA ReadFailedSources ==
  ASSUME Base, SourcesInv, NEW p \in Ops, ReadFailed(p) PROVE SourcesInv'
<1>1. Working(p) /\ pc[p] = "failing"
  BY ReadFailedLocal
<1>2. PICK x, step : step = "failed" /\ LocalTo(p, x, step) /\ Agree(x, plan[p])
  BY ReadFailedLocal
<1>3. plan[p].placed = 0 /\ spoiled \subseteq spoiled'
  BY <1>2 DEF LocalTo, Agree
<1>4. plan[p].src \in Sources
  BY <1>1, WorkingPlan
<1>5. Clean(plan[p].src) /\ plan[p].src \notin spoiled' /\ ~plan[p].late =>
        (plan[p].seen.captured # <<>> => AssetSet(p) \cap archive = {})
  BY <1>1, <1>3, <1>4 DEF SourcesInv, SourceInv, Processable, MayRetry
<1> QED BY <1>1, <1>2, <1>3, <1>5, OnwardSources

\* A step of p that writes files of its Source does not concern another Source.
LEMMA OtherSources ==
  ASSUME Base, OneOwner, SourcesInv, NEW p \in Ops, Working(p),
         NEW t \in Sources, t # plan[p].src, plan'[p].src \in {plan[p].src, None},
         \A q \in Ops \ {p} : Keeps(q) /\ (plan[q].src = t => plan'[q] = plan[q]),
         doc'[t] = doc[t],
         \/ archive' = archive
         \/ /\ Processing(p) => plan[p].seen.captured # <<>>
            /\ \A a : a \notin AssetSet(p) => (a \in archive' <=> a \in archive),
         \A v \in Versions \ {p} : bytes'[v] = bytes[v],
         Clean(t)' => Clean(t), spoiled \subseteq spoiled'
  PROVE  SourceInv(t)'
<1>1. plan[p].src \in Sources /\ p \in Versions /\ Mentions(plan[p].src, p)
  BY WorkingPlan, Constants DEF Mentions
<1>2. ASSUME NEW v \in Versions, Mentions(t, v)
      PROVE  bytes'[v] = bytes[v] /\ \A k \in Kinds : <<v, k>> \in archive' <=> <<v, k>> \in archive
  <2>1. ~Mentions(plan[p].src, v)
    BY <1>1, <1>2 DEF OneOwner
  <2>2. v # p
    BY <1>1, <2>1
  <2>3. archive' = archive \/ \A k : <<v, k>> \notin AssetSet(p)
    BY <2>1, OwnAssets
  <2> QED BY <2>2, <2>3
<1>3. \A q \in Ops : plan'[q].src = t \/ plan[q].src = t =>
        Keeps(q) /\ (plan'[q].late <=> plan[q].late)
  BY Constants DEF Keeps
<1>4. Untouched(t)
  BY <1>2, <1>3 DEF Untouched
<1> QED BY <1>4, UntouchedSource DEF SourcesInv

\* A step of p that writes files of its own Source, and leaves the others late or with
\* their previews.
LEMMA WrittenSource ==
  ASSUME Base, NEW p \in Ops, NEW s \in Sources,
         \A q \in Ops \ {p} :
           Keeps(q) /\ (plan[q].src = s => ~Committing(q) /\ (plan'[q].late \/ pc[q] = "planned")),
         Extractions(s),
         Committing(p)' /\ plan'[p].src = s =>
           /\ ~plan'[p].late
           /\ p \in Web \/ \A q \in Ops \ {p} :
                plan[q].src = s /\ pc[q] = "planned" /\ ~plan[q].late => plan[q].before # doc'[s],
         \A q \in Ops \ {p} :
           plan[q].src = s /\ pc[q] = "planned" /\ ~plan[q].late /\ plan[q].before # None =>
             /\ Texts(plan[q].before) \subseteq archive'
             /\ plan'[p].src = s /\ MayUndo(p)' /\ ~plan'[p].late =>
                  Texts(plan[q].before) \cap Undone(p)' = {},
         pc'[p] # "planned", plan'[p].src = s => ExtractsAlone(p)',
         (plan'[p].src = s => ~Committing(p)') => Good(doc'[s], archive', bytes'),
         plan'[p].src = s /\ ~plan'[p].late /\ MayUndo(p)' =>
           Good(plan'[p].before, archive' \ Undone(p)', bytes'),
         s \notin spoiled' =>
           /\ (plan'[p].src = s => ~Removing(p)') => Waits(doc'[s], archive')
           /\ plan'[p].src = s /\ ~plan'[p].late /\ MayUndo(p)' =>
                Waits(plan'[p].before, archive' \ Undone(p)')
           /\ plan'[p].src = s => MayRetry(p)'
  PROVE  SourceInv(s)'
<1>1. ASSUME NEW q \in Ops \ {p}, plan'[q].src = s
      PROVE  /\ plan[q].src = s /\ pc'[q] = pc[q] /\ plan'[q].before = plan[q].before
             /\ ~Committing(q)'
             /\ ~plan'[q].late => pc[q] = "planned" /\ ~plan[q].late /\ ~MayUndo(q)' /\ ~Committing(q)'
  BY <1>1, KeptParts DEF Keeps, MayUndo, Writing
<1>2. CommitAlone(s)'
  <2> SUFFICES ASSUME NEW r \in Ops, plan'[r].src = s, Committing(r)'
               PROVE  /\ ~plan'[r].late
                      /\ \A q \in Ops \ {r} : plan'[q].src = s =>
                           \/ plan'[q].late
                           \/ pc'[q] = "planned" /\ (r \in Web \/ plan'[q].before # doc'[s])
    BY DEF CommitAlone
  <2>1. r = p
    BY <1>1
  <2> QED BY <1>1, <2>1
<1>3. Previews(s)'
  <2> SUFFICES ASSUME NEW q \in Ops, plan'[q].src = s, pc'[q] = "planned", ~plan'[q].late,
                      plan'[q].before # None
               PROVE  /\ Texts(plan'[q].before) \subseteq archive'
                      /\ \A r \in Ops : plan'[r].src = s /\ MayUndo(r)' /\ ~plan'[r].late =>
                           Texts(plan'[q].before) \cap Undone(r)' = {}
    BY DEF Previews, PreviewKept
  <2>1. q # p
    OBVIOUS
  <2>2. plan[q].src = s /\ pc[q] = "planned" /\ ~plan[q].late /\ plan'[q].before = plan[q].before
    BY <1>1, <2>1
  <2>3. Texts(plan'[q].before) \subseteq archive'
    BY <2>1, <2>2
  <2>4. ASSUME NEW r \in Ops, plan'[r].src = s, MayUndo(r)', ~plan'[r].late
        PROVE  Texts(plan'[q].before) \cap Undone(r)' = {}
    <3>1. r = p
      BY <1>1, <2>4
    <3> QED BY <2>1, <2>2, <2>4, <3>1
  <2> QED BY <2>3, <2>4
<1>4. Extractions(s)'
  <2> SUFFICES ASSUME NEW r \in Ops \ {p}, plan'[r].src = s PROVE ExtractsAlone(r)'
    BY DEF Extractions
  <2>1. Keeps(r) /\ ExtractsAlone(r)
    BY <1>1 DEF Extractions
  <2>2. CASE plan'[r].late
    BY <2>2 DEF ExtractsAlone, Prompt
  <2>3. CASE ~plan'[r].late
    <3>1. pc[r] = "planned" /\ pc'[r] = "planned" /\ ~plan[r].late /\ Working(r)
      BY <1>1, <2>3 DEF Working
    <3>2. /\ Prompt(r) /\ (Processing(r)' <=> Processing(r)) /\ plan'[r].held = plan[r].held
          /\ pc'[r] \notin {"looked", "composed", "approved"} \cup Writing
      BY <2>1, <3>1, KeptParts DEF Prompt, Keeps, Writing
    <3> QED BY <2>1, <3>1, <3>2 DEF ExtractsAlone
  <2> QED BY <2>2, <2>3
<1>5. Verified(s)'
  <2>1. ASSUME \A r \in Ops : plan'[r].src = s => ~Committing(r)'
        PROVE  Good(doc'[s], archive', bytes')
    BY <2>1
  <2>2. ASSUME NEW r \in Ops, plan'[r].src = s, ~plan'[r].late, MayUndo(r)'
        PROVE  Good(plan'[r].before, archive' \ Undone(r)', bytes')
    <3>1. r = p
      BY <1>1, <2>2
    <3> QED BY <2>2, <3>1
  <2> QED BY <2>1, <2>2 DEF Verified
<1>6. ASSUME s \notin spoiled' PROVE Processable(s)'
  <2>1. ASSUME NEW r \in Ops, plan'[r].src = s, ~plan'[r].late, MayUndo(r)'
        PROVE  Waits(plan'[r].before, archive' \ Undone(r)')
    <3>1. r = p
      BY <1>1, <2>1
    <3> QED BY <1>6, <2>1, <3>1
  <2>2. ASSUME NEW r \in Ops, plan'[r].src = s PROVE MayRetry(r)'
    <3>1. CASE r = p
      BY <1>6, <2>2, <3>1
    <3>2. CASE r # p
      BY <1>1, <2>2, <3>2 DEF MayRetry
    <3> QED BY <3>1, <3>2
  <2>3. (\A r \in Ops : plan'[r].src = s => ~Removing(r)') => Waits(doc'[s], archive')
    BY <1>6
  <2> QED BY <2>1, <2>2, <2>3 DEF Processable
<1> QED BY <1>2, <1>3, <1>4, <1>5, <1>6 DEF SourceInv

LEMMA WriteFacts ==
  ASSUME Base, NEW p \in Ops, Working(p), NEW d, NEW x, NEW step, WriteTo(p, d, x, step),
         NEW s, s = plan[p].src
  PROVE  /\ plan'[p] = x /\ pc'[p] = step
         /\ \A q \in Ops \ {p} :
              /\ Keeps(q)
              /\ plan[q].src # plan[p].src => plan'[q] = plan[q]
              /\ plan[q].src = plan[p].src => plan'[q].late \/ pc[q] = "planned"
         /\ doc'[plan[p].src] = d /\ \A t \in Sources \ {plan[p].src} : doc'[t] = doc[t]
         /\ plan[p].late => ~Clean(s)'
         /\ \A t : Clean(t)' => Clean(t)
         /\ spoiled' = spoiled
<1>1. /\ StepTo(p, x, step, OthersOn(p)) /\ doc' = [doc EXCEPT ![plan[p].src] = d]
      /\ overtaken' = (IF plan[p].late THEN overtaken \cup {plan[p].src} ELSE overtaken)
      /\ torn' = torn /\ spoiled' = spoiled
  BY DEF WriteTo
<1>2. plan[p].src \in Sources
  BY WorkingPlan
<1>3. /\ plan[p].late => ~Clean(s)'
      /\ \A t : Clean(t)' => Clean(t)
  BY <1>1 DEF Clean
<1>4. doc'[plan[p].src] = d /\ \A t \in Sources \ {plan[p].src} : doc'[t] = doc[t]
  BY <1>1, <1>2 DEF Base
<1>5. /\ plan'[p] = x /\ pc'[p] = step
      /\ \A q \in Ops \ {p} : /\ Keeps(q)
                              /\ q \in OthersOn(p) => plan'[q].late
                              /\ q \notin OthersOn(p) => plan'[q] = plan[q]
  BY <1>1, StepKeeps
<1>6. \A q \in Ops \ {p} : /\ plan[q].src # plan[p].src => q \notin OthersOn(p)
                           /\ plan[q].src = plan[p].src => q \in OthersOn(p) \/ pc[q] = "planned"
  BY DEF OthersOn, Exposed
<1> QED BY <1>1, <1>3, <1>4, <1>5, <1>6

LEMMA RecordFailureSources ==
  ASSUME Base, Timely, Ownership, SourcesInv, NEW p \in Ops, RecordFailure(p) PROVE SourcesInv'
<1>1. /\ Working(p) /\ pc[p] = "failed" /\ archive' = archive /\ bytes' = bytes
      /\ WriteTo(p, plan[p].new, NoPlan, "done")
  BY RecordFailureWrites
<1>2. PICK s \in Sources : s = plan[p].src
  BY <1>1, WorkingPlan
<1>3. /\ Processing(p) /\ plan[p].op \in Operations /\ plan[p].placed = 0
      /\ plan[p].seen \in ShapedDocs /\ plan[p].seen # None
  BY <1>1, WorkingPlan, PlanTyped, Constants DEF StageOf, Writing, Processing, ShapedDocs
<1>4. /\ plan'[p] = NoPlan /\ pc'[p] = "done"
      /\ \A q \in Ops \ {p} :
           /\ Keeps(q)
           /\ plan[q].src # plan[p].src => plan'[q] = plan[q]
           /\ plan[q].src = plan[p].src => plan'[q].late \/ pc[q] = "planned"
      /\ doc'[s] = plan[p].new /\ \A t \in Sources \ {s} : doc'[t] = doc[t]
      /\ plan[p].late => ~Clean(s)'
      /\ \A t : Clean(t)' => Clean(t)
      /\ spoiled' = spoiled
  <2>1. PICK x, step, d : x = NoPlan /\ step = "done" /\ d = plan[p].new /\ WriteTo(p, d, x, step)
    BY <1>1
  <2> QED BY <1>1, <1>2, <2>1, WriteFacts
<1>5. plan'[p].src = None
  BY <1>4, NoPlanShaped
<1> SUFFICES ASSUME NEW t \in Sources PROVE SourceInv(t)'
  BY DEF SourcesInv
<1>6. CASE t # s
  <2>1. \A q \in Ops \ {p} : Keeps(q) /\ (plan[q].src = t => plan'[q] = plan[q])
    BY <1>2, <1>4, <1>6
  <2>2. doc'[t] = doc[t] /\ (Clean(t)' => Clean(t)) /\ spoiled \subseteq spoiled'
    BY <1>4, <1>6
  <2> QED BY <1>1, <1>2, <1>5, <1>6, <2>1, <2>2, OtherSources DEF Ownership
<1>7. CASE t = s /\ ~Clean(s)'
  BY <1>7 DEF SourceInv
<1>8. CASE t = s /\ Clean(s)'
  <2> DEFINE seen == plan[p].seen
             new == plan[p].new
  <2>1. Clean(s) /\ Prompt(p)
    BY <1>1, <1>2, <1>4, <1>8 DEF Prompt
  <2>2. /\ doc[s] = seen /\ Good(seen, archive, bytes)
        /\ \A r \in Ops : plan[r].src = s => ~Committing(r)
    BY <1>1, <1>2, <1>3, <2>1, ReadsGood DEF ReadBy, Processing
  <2>3. SourceInv(s)
    BY DEF SourcesInv
  <2>4. new = [seen EXCEPT !.status = "failed"]
    BY <1>1, <1>2, <2>1, <2>2 DEF Timely, InTime
  <2> HIDE DEF new
  <2>5. new.status = "failed" /\ new.captured = seen.captured /\ new.texts = seen.texts
        /\ new.digest = seen.digest
    BY <1>3, <2>4, FailedShaped
  <2>6. Good(new, archive, bytes)
    BY <1>3, <2>2, <2>5 DEF Good, ListedIn
  <2>7. s \notin spoiled => Waits(new, archive)
    <3> SUFFICES ASSUME s \notin spoiled, seen.captured # <<>>
                 PROVE  ({Last(seen.captured)} \X {"text", "record"}) \cap archive = {}
      BY <2>5 DEF Waits
    <3>1. AssetSet(p) \cap archive = {}
      BY <1>1, <1>2, <2>1, <2>3 DEF SourceInv, Processable, MayRetry, Prompt
    <3>2. AssetSet(p) = {<<Last(seen.captured), "text">>, <<Last(seen.captured), "record">>}
      BY <1>3, AssetFacts
    <3>3. <<Last(seen.captured), "text">> \notin archive /\ <<Last(seen.captured), "record">> \notin archive
      BY <3>1, <3>2
    <3> QED BY <3>3
  <2>8. \A q \in Ops \ {p} :
          plan[q].src = s /\ pc[q] = "planned" /\ ~plan[q].late /\ plan[q].before # None =>
            Texts(plan[q].before) \subseteq archive
    BY <2>1, <2>3 DEF SourceInv, Previews, PreviewKept
  <2>9. Extractions(s) /\ plan'[p].src # s
    BY <1>5, <2>1, <2>3, Constants DEF SourceInv
  <2>10. doc'[s] = new
    BY <1>4 DEF new
  <2>11. SourceInv(s)'
    BY <1>1, <1>2, <1>4, <2>2, <2>6, <2>7, <2>8, <2>9, <2>10, WrittenSource
  <2> QED BY <1>8, <2>11
<1> QED BY <1>6, <1>7, <1>8

\* The asset that p has created last.
LEMMA LastAsset ==
  ASSUME Base, NEW p \in Ops, Working(p), Capturing(p) \/ Processing(p), plan[p].placed \in {2, 3}
  PROVE  LET a == Assets(p)[plan[p].placed - 1]
         IN  /\ a \in AssetSet(p)
             /\ {Assets(p)[i] : i \in 1 .. plan[p].placed - 1} =
                  {Assets(p)[i] : i \in 1 .. plan[p].placed - 2} \cup {a}
             /\ a \notin {Assets(p)[i] : i \in 1 .. plan[p].placed - 2}
<1>1. AssetSet(p) = {Assets(p)[1], Assets(p)[2]} /\ Assets(p)[1] # Assets(p)[2]
  <2>1. plan[p].op \in Operations
    BY WorkingPlan
  <2>2. CASE Capturing(p)
    <3>1. /\ Assets(p)[1] = <<p, "raw">> /\ Assets(p)[2] = <<p, "metadata">>
          /\ AssetSet(p) = {<<p, "raw">>, <<p, "metadata">>}
      BY <2>1, <2>2, AssetFacts
    <3>2. <<p, "raw">> # <<p, "metadata">>
      OBVIOUS
    <3> QED BY <3>1, <3>2
  <2>3. CASE Processing(p)
    <3>1. /\ Assets(p)[1] = <<VersionOf(p), "text">> /\ Assets(p)[2] = <<VersionOf(p), "record">>
          /\ AssetSet(p) = {<<VersionOf(p), "text">>, <<VersionOf(p), "record">>}
      BY <2>1, <2>3, AssetFacts
    <3>2. <<VersionOf(p), "text">> # <<VersionOf(p), "record">>
      OBVIOUS
    <3> QED BY <3>1, <3>2
  <2> QED BY <2>2, <2>3
<1>2. 1 .. 0 = {} /\ 1 .. 1 = {1} /\ 1 .. 2 = {1, 2}
  OBVIOUS
<1>3. CASE plan[p].placed = 2
  BY <1>1, <1>2, <1>3
<1>4. CASE plan[p].placed = 3
  BY <1>1, <1>2, <1>4
<1> QED BY <1>3, <1>4

\* What is known of a Source while p writes it, or takes it back, and is alone.
LEMMA WriterAlone ==
  ASSUME Base, Timely, SourcesInv, NEW p \in Ops, Working(p), NEW s \in Sources, s = plan[p].src,
         Clean(s), ~plan[p].late, pc[p] # "planned"
  PROVE  /\ CommitAlone(s) /\ Previews(s) /\ Extractions(s)
         /\ \A q \in Ops \ {p} : plan[q].src = s => ~Committing(q)
         /\ InTime(p)
         /\ ~Committing(p) => Good(doc[s], archive, bytes)
         /\ s \notin spoiled /\ ~Removing(p) => Waits(doc[s], archive)
         /\ MayUndo(p) =>
              /\ Good(plan[p].before, archive \ Undone(p), bytes)
              /\ s \notin spoiled => Waits(plan[p].before, archive \ Undone(p))
<1>1. CommitAlone(s) /\ Previews(s) /\ Extractions(s) /\ Verified(s) /\ (s \notin spoiled => Processable(s))
  BY DEF SourcesInv, SourceInv
<1>2. \A q \in Ops \ {p} : plan[q].src = s => ~Committing(q)
  BY <1>1, Alone
<1>3. \A q \in Ops \ {p} : plan[q].src = s => ~Removing(q)
  BY <1>2 DEF Committing, Removing
<1>4. InTime(p)
  BY DEF Timely, Prompt
<1> QED BY <1>1, <1>2, <1>3, <1>4 DEF Verified, Processable

\* p goes back: some files that it has created are removed, or none yet.
LEMMA BackSources ==
  ASSUME Base, Timely, Ownership, SourcesInv, NEW p \in Ops, Working(p), Committing(p), MayUndo(p),
         Capturing(p) \/ Processing(p),
         NEW x, NEW step, MoveTo(p, x, step), step \in {"undoing", "removing"},
         step = "removing" <=> pc[p] = "removing",
         NEW gone, gone \subseteq Undone(p), archive' = archive \ gone,
         Undone(p)' = Undone(p) \ gone,
         \A v \in Versions : v # p \/ ~Capturing(p) => bytes'[v] = bytes[v],
         Processing(p) /\ plan[p].held = {}
           /\ AssetSet(p) \cap archive = {Assets(p)[i] : i \in 1 .. plan[p].placed - 1} =>
             AssetSet(p) \cap archive' = {Assets(p)[i] : i \in 1 .. x.placed - 1}
  PROVE  SourcesInv'
<1>1. PICK s \in Sources : s = plan[p].src
  BY WorkingPlan
<1>2. /\ plan'[p] = x /\ pc'[p] = step /\ doc' = doc
      /\ \A q \in Ops \ {p} : Keeps(q) /\ plan'[q] = plan[q]
      /\ SamePlan(x, plan[p]) /\ x.placed > 0
      /\ UNCHANGED <<torn, overtaken, spoiled>>
  BY StepKeeps DEF MoveTo
<1>3. /\ plan'[p].src = s /\ plan'[p].late = plan[p].late
      /\ plan'[p].before = plan[p].before /\ plan'[p].held = plan[p].held
      /\ Assets(p)' = Assets(p) /\ AssetSet(p)' = AssetSet(p)
      /\ Processing(p)' <=> Processing(p)
  <2>1. /\ plan'[p].src = s /\ plan'[p].late = plan[p].late
        /\ plan'[p].before = plan[p].before /\ plan'[p].held = plan[p].held
    BY <1>1, <1>2 DEF SamePlan
  <2>2. /\ Assets(p)' = Assets(p) /\ AssetSet(p)' = AssetSet(p)
        /\ Processing(p)' <=> Processing(p)
    BY <1>2 DEF SamePlan, Assets, AssetSet, VersionOf, Processing
  <2> QED BY <2>1, <2>2
<1>4. /\ pc[p] \in Writing /\ plan[p].placed > 0
      /\ Undone(p) \subseteq AssetSet(p) /\ plan[p].before \in ShapedDocs \cup {None}
      /\ Processing(p) => plan[p].seen.captured # <<>>
  <2>1. pc[p] \in Writing /\ plan[p].placed > 0
    BY DEF MayUndo
  <2> QED BY <2>1, UndoneAssets, WorkingPlan, PlanTyped DEF StageOf, Composed, Processing
<1> SUFFICES ASSUME NEW t \in Sources PROVE SourceInv(t)'
  BY DEF SourcesInv
<1>5. CASE t # s
  <2>1. \A q \in Ops \ {p} : Keeps(q) /\ (plan[q].src = t => plan'[q] = plan[q])
    BY <1>2
  <2>2. doc'[t] = doc[t] /\ (Clean(t)' => Clean(t)) /\ spoiled \subseteq spoiled'
    BY <1>2 DEF Clean
  <2>3. \A b : b \notin AssetSet(p) => (b \in archive' <=> b \in archive)
    BY <1>4
  <2>4. \A v \in Versions \ {p} : bytes'[v] = bytes[v]
    OBVIOUS
  <2> QED BY <1>1, <1>3, <1>4, <1>5, <2>1, <2>2, <2>3, <2>4, OtherSources DEF Ownership
<1>6. CASE t = s /\ ~Clean(s)'
  BY <1>6 DEF SourceInv
<1>7. CASE t = s /\ Clean(s)'
  <2> DEFINE before == plan[p].before
  <2>1. Clean(s) /\ pc[p] # "planned"
    BY <1>2, <1>4, <1>7 DEF Clean, Writing
  <2>2. CommitAlone(s)
    BY <2>1 DEF SourcesInv, SourceInv
  <2>3. /\ ~plan[p].late
        /\ \A q \in Ops \ {p} : plan[q].src = s =>
             plan[q].late \/ (pc[q] = "planned" /\ (p \in Web \/ plan[q].before # doc[s]))
    BY <1>1, <2>2 DEF CommitAlone
  <2>4. /\ Previews(s) /\ Extractions(s) /\ InTime(p)
        /\ \A q \in Ops \ {p} : plan[q].src = s => ~Committing(q)
        /\ s \notin spoiled /\ ~Removing(p) => Waits(doc[s], archive)
        /\ Good(before, archive \ Undone(p), bytes)
        /\ s \notin spoiled => Waits(before, archive \ Undone(p))
    BY <1>1, <2>1, <2>3, WriterAlone
  <2>5. archive' \ Undone(p)' = archive \ Undone(p) /\ archive' \subseteq archive
    OBVIOUS
  <2>6. Good(before, archive' \ Undone(p)', bytes')
    <3>1. Capturing(p) => ~MentionedBy(before, p)
      BY DEF Ownership, Freshness, Captured, OwnReading
    <3>2. \A v \in Versions : MentionedBy(before, v) => bytes'[v] = bytes[v]
      BY <3>1
    <3> QED BY <1>4, <2>4, <2>5, <3>2, GoodKept
  <2>7. s \notin spoiled => Waits(before, archive' \ Undone(p)')
    BY <2>4, <2>5
  <2>8. step = "removing" => doc[s] = before
    BY <1>1, <1>4, <2>4 DEF InTime
  <2>9. x.placed = 1 => Undone(p)' = {}
    <3> SUFFICES ASSUME x.placed = 1 PROVE Undone(p)' = {}
      OBVIOUS
    <3>1. 1 .. plan'[p].placed - 1 = {}
      BY <1>2
    <3> QED BY <3>1 DEF Undone
  <2>10. x.placed \in 0 .. 3 /\ (x.placed = 1 \/ x.placed > 1)
    <3>1. x \in ShapedPlans
      BY DEF MoveTo
    <3> QED BY <1>2, <3>1 DEF ShapedPlans, Plans
  <2>11. ~Committing(p)' => Good(doc[s], archive', bytes')
    <3> SUFFICES ASSUME ~Committing(p)' PROVE Good(doc[s], archive', bytes')
      OBVIOUS
    <3>1. step = "removing" /\ x.placed = 1
      BY <1>2, <2>10 DEF Committing
    <3>2. archive' \ Undone(p)' = archive'
      BY <2>9, <3>1
    <3> QED BY <2>6, <2>8, <3>1, <3>2
  <2>12. s \notin spoiled /\ ~Removing(p)' => Waits(doc[s], archive')
    <3> SUFFICES ASSUME s \notin spoiled, ~Removing(p)' PROVE Waits(doc[s], archive')
      OBVIOUS
    <3>1. CASE step = "removing"
      <4>1. x.placed = 1
        BY <1>2, <2>10, <3>1 DEF Removing
      <4>2. archive' \ Undone(p)' = archive'
        BY <2>9, <4>1
      <4> QED BY <2>7, <2>8, <3>1, <4>2
    <3>2. CASE step # "removing"
      <4>1. Waits(doc[s], archive)
        BY <2>4, <3>2 DEF Removing
      <4>2. doc[s] \in ShapedDocs \cup {None}
        BY DEF Base
      <4> QED BY <2>5, <4>1, <4>2, WaitsKept
    <3> QED BY <3>1, <3>2
  <2>13. ASSUME NEW q \in Ops \ {p}, plan[q].src = s, pc[q] = "planned", ~plan[q].late,
                plan[q].before # None
         PROVE  Texts(plan[q].before) \subseteq archive' /\ Texts(plan[q].before) \cap Undone(p)' = {}
    <3>1. Texts(plan[q].before) \subseteq archive /\ Texts(plan[q].before) \cap Undone(p) = {}
      BY <1>1, <2>3, <2>4, <2>13 DEF Previews, PreviewKept
    <3> QED BY <3>1
  <2>14. ExtractsAlone(p)' /\ MayRetry(p)'
    <3>1. MayRetry(p)'
      BY <1>2 DEF MayRetry
    <3>2. Processing(p) => /\ plan[p].held = {}
                           /\ AssetSet(p) \cap archive' = {Assets(p)[i] : i \in 1 .. x.placed - 1}
      BY <1>1, <1>4, <2>3, <2>4 DEF Extractions, ExtractsAlone, Prompt
    <3>3. ExtractsAlone(p)'
      BY <1>2, <1>3, <3>2 DEF ExtractsAlone, Writing
    <3> QED BY <3>1, <3>3
  <2>15. \A q \in Ops \ {p} :
           Keeps(q) /\ (plan[q].src = s => ~Committing(q) /\ (plan'[q].late \/ pc[q] = "planned"))
    BY <1>2, <2>3, <2>4
  <2>16. /\ pc'[p] # "planned" /\ doc'[s] = doc[s] /\ plan'[p].before = before /\ ~plan'[p].late
         /\ spoiled' = spoiled
    BY <1>2, <1>3, <2>3
  <2>17. p \in Web \/ \A q \in Ops \ {p} :
           plan[q].src = s /\ pc[q] = "planned" /\ ~plan[q].late => plan[q].before # doc'[s]
    BY <2>3, <2>16
  <2>18. SourceInv(s)'
    BY <1>3, <2>4, <2>6, <2>7, <2>11, <2>12, <2>13, <2>14, <2>15, <2>16, <2>17, WrittenSource
  <2> QED BY <1>7, <2>18
<1> QED BY <1>5, <1>6, <1>7

LEMMA ReplaceFailsSources ==
  ASSUME Base, Timely, Ownership, SourcesInv, NEW p \in Ops, ReplaceFails(p) PROVE SourcesInv'
<1>1. CASE plan[p].placed = 0
  <2>1. Working(p) /\ RefusedTo(p) /\ pc[p] \in {"composed", "approved", "replacing"}
    BY <1>1, ReplaceFailsLocal
  <2> QED BY <1>1, <2>1, RefusedSources
<1>2. CASE plan[p].placed # 0
  <2>1. /\ Working(p) /\ pc[p] = "replacing" /\ plan[p].placed > 0 /\ ~Complete(p)
        /\ archive' = archive /\ bytes' = bytes
        /\ MoveTo(p, plan[p], "undoing")
    BY <1>2, ReplaceFailsMoves
  <2>2. Committing(p) /\ MayUndo(p)
    BY <2>1 DEF Committing, MayUndo, Writing
  <2>3. Capturing(p) \/ Processing(p)
    <3>1. /\ plan[p].op \in Operations /\ StageOf(p, plan[p], pc[p]) /\ plan[p].placed \in 0 .. 3
      BY <2>1, WorkingPlan, PlanTyped
    <3> QED BY <2>1, <3>1, AssetFacts DEF Complete, StageOf, Operations, Capturing, CaptureOps, Processing
  <2>4. plan'[p] = plan[p]
    BY <2>1, StepKeeps DEF MoveTo
  <2>5. Undone(p)' = Undone(p)
    BY <2>4 DEF Undone, Assets, VersionOf
  <2>6. PICK gone : gone = {}
    OBVIOUS
  <2>7. /\ gone \subseteq Undone(p) /\ archive' = archive \ gone /\ Undone(p)' = Undone(p) \ gone
    BY <2>1, <2>5, <2>6
  <2>8. PICK x, step : x = plan[p] /\ step = "undoing"
    OBVIOUS
  <2>9. /\ MoveTo(p, x, step) /\ step \in {"undoing", "removing"}
        /\ (step = "removing" <=> pc[p] = "removing")
    BY <2>1, <2>8
  <2>10. \A v \in Versions : v # p \/ ~Capturing(p) => bytes'[v] = bytes[v]
    BY <2>1
  <2>11. Processing(p) /\ plan[p].held = {}
           /\ AssetSet(p) \cap archive = {Assets(p)[i] : i \in 1 .. plan[p].placed - 1} =>
             AssetSet(p) \cap archive' = {Assets(p)[i] : i \in 1 .. x.placed - 1}
    BY <2>1, <2>8
  <2> QED BY <2>1, <2>2, <2>3, <2>7, <2>9, <2>10, <2>11, BackSources
<1> QED BY <1>1, <1>2

LEMMA RemoveAssetSources ==
  ASSUME Base, Timely, Ownership, SourcesInv, NEW p \in Ops, RemoveAsset(p) PROVE SourcesInv'
<1> DEFINE a == Assets(p)[plan[p].placed - 1]
           gone == {a} \ plan[p].held
<1>1. /\ Working(p) /\ pc[p] \in {"undoing", "removing"} /\ plan[p].placed \in {2, 3}
      /\ (Capturing(p) \/ Processing(p)) /\ MayUndo(p) /\ Committing(p)
      /\ archive' = archive \ gone
      /\ bytes' = IF Capturing(p) /\ plan[p].placed = 2 THEN [bytes EXCEPT ![p] = None] ELSE bytes
  BY RemoveAssetMoves
<1>2. PICK x : MoveTo(p, x, pc[p]) /\ x.placed = plan[p].placed - 1
  BY RemoveAssetMoves
<1>3. plan'[p] = x /\ SamePlan(x, plan[p])
  BY <1>2, StepKeeps DEF MoveTo
<1>4. plan'[p].held = plan[p].held /\ Assets(p)' = Assets(p) /\ plan'[p].placed = plan[p].placed - 1
  BY <1>2, <1>3 DEF SamePlan, Assets, VersionOf
<1>5. /\ a \in AssetSet(p)
      /\ {Assets(p)[i] : i \in 1 .. plan[p].placed - 1} =
           {Assets(p)[i] : i \in 1 .. plan[p].placed - 2} \cup {a}
      /\ a \notin {Assets(p)[i] : i \in 1 .. plan[p].placed - 2}
  BY <1>1, LastAsset
<1>6. Undone(p)' = {Assets(p)[i] : i \in 1 .. plan[p].placed - 2} \ plan[p].held
  <2>1. plan'[p].placed - 1 = plan[p].placed - 2
    BY <1>1, <1>4
  <2> QED BY <1>4, <2>1 DEF Undone
<1> HIDE DEF a
<1>7. gone \subseteq Undone(p) /\ Undone(p)' = Undone(p) \ gone
  BY <1>5, <1>6 DEF Undone
<1>8. \A v \in Versions : v # p \/ ~Capturing(p) => bytes'[v] = bytes[v]
  BY <1>1 DEF Base, TypeOK
<1>9. Processing(p) /\ plan[p].held = {}
        /\ AssetSet(p) \cap archive = {Assets(p)[i] : i \in 1 .. plan[p].placed - 1} =>
          AssetSet(p) \cap archive' = {Assets(p)[i] : i \in 1 .. x.placed - 1}
  <2>1. x.placed - 1 = plan[p].placed - 2
    BY <1>1, <1>2
  <2> QED BY <1>1, <1>5, <2>1
<1> HIDE DEF gone
<1> QED BY <1>1, <1>2, <1>7, <1>8, <1>9, BackSources

\* The audit fails: p was through, and will take everything back.
LEMMA AuditFailsSources ==
  ASSUME Base, Timely, Ownership, SourcesInv, NEW p \in Ops, AuditFails(p) PROVE SourcesInv'
<1>1. /\ Working(p) /\ pc[p] = "replacing" /\ p \in Web /\ Complete(p) /\ plan[p].placed > 0
      /\ archive' = archive /\ bytes' = bytes
  BY AuditFailsWrites DEF files
<1>2. PICK s \in Sources : s = plan[p].src
  BY <1>1, WorkingPlan
<1>3. PICK d, x, step : d = doc[s] /\ x = plan[p] /\ step = "undoing" /\ WriteTo(p, d, x, step)
  BY <1>2, AuditFailsWrites
<1>4. /\ plan'[p] = plan[p] /\ pc'[p] = "undoing"
      /\ \A q \in Ops \ {p} :
           /\ Keeps(q)
           /\ plan[q].src # plan[p].src => plan'[q] = plan[q]
           /\ plan[q].src = plan[p].src => plan'[q].late \/ pc[q] = "planned"
      /\ doc'[s] = doc[s] /\ \A t \in Sources \ {s} : doc'[t] = doc[t]
      /\ plan[p].late => ~Clean(s)'
      /\ \A t : Clean(t)' => Clean(t)
      /\ spoiled' = spoiled
  BY <1>1, <1>2, <1>3, WriteFacts
<1>5. /\ Assets(p)' = Assets(p) /\ AssetSet(p)' = AssetSet(p) /\ Undone(p)' = Undone(p)
      /\ (Processing(p)' <=> Processing(p)) /\ MayUndo(p)
      /\ Committing(p)' /\ ~Removing(p) /\ ~Removing(p)'
  <2>1. /\ Assets(p)' = Assets(p) /\ AssetSet(p)' = AssetSet(p) /\ (Processing(p)' <=> Processing(p))
    BY <1>4 DEF Assets, AssetSet, VersionOf, Processing
  <2> QED BY <1>1, <1>4, <2>1 DEF Undone, MayUndo, Writing, Committing, Removing
<1> SUFFICES ASSUME NEW t \in Sources PROVE SourceInv(t)'
  BY DEF SourcesInv
<1>6. CASE t # s
  <2>1. \A q \in Ops \ {p} : Keeps(q) /\ (plan[q].src = t => plan'[q] = plan[q])
    BY <1>2, <1>4, <1>6
  <2>2. doc'[t] = doc[t] /\ (Clean(t)' => Clean(t)) /\ spoiled \subseteq spoiled'
    BY <1>4, <1>6
  <2>3. plan'[p].src \in {plan[p].src, None} /\ \A v \in Versions \ {p} : bytes'[v] = bytes[v]
    BY <1>1, <1>4
  <2> QED BY <1>1, <1>2, <1>6, <2>1, <2>2, <2>3, OtherSources DEF Ownership
<1>7. CASE t = s /\ ~Clean(s)'
  BY <1>7 DEF SourceInv
<1>8. CASE t = s /\ Clean(s)'
  <2>1. Clean(s) /\ ~plan[p].late /\ pc[p] # "planned"
    BY <1>1, <1>4, <1>8
  <2>2. /\ Previews(s) /\ Extractions(s)
        /\ \A q \in Ops \ {p} : plan[q].src = s => ~Committing(q)
        /\ s \notin spoiled => Waits(doc[s], archive)
        /\ Good(plan[p].before, archive \ Undone(p), bytes)
        /\ s \notin spoiled => Waits(plan[p].before, archive \ Undone(p))
    BY <1>1, <1>2, <1>5, <2>1, WriterAlone
  <2>3. \A q \in Ops \ {p} :
          plan[q].src = s /\ pc[q] = "planned" /\ ~plan[q].late /\ plan[q].before # None =>
            Texts(plan[q].before) \subseteq archive /\ Texts(plan[q].before) \cap Undone(p) = {}
    BY <1>2, <1>5, <2>1, <2>2 DEF Previews, PreviewKept
  <2>4. ExtractsAlone(p)' /\ MayRetry(p)'
    <3>1. MayRetry(p)'
      BY <1>4 DEF MayRetry
    <3>2. ExtractsAlone(p)
      BY <1>2, <2>2 DEF Extractions
    <3>3. Prompt(p)
      BY <1>1, <2>1 DEF Prompt
    <3>4. ExtractsAlone(p)'
      BY <1>1, <1>4, <1>5, <3>2, <3>3 DEF ExtractsAlone, Writing
    <3> QED BY <3>1, <3>4
  <2>5. plan'[p].src = s /\ ~plan'[p].late /\ pc'[p] # "planned" /\ plan'[p].before = plan[p].before
    BY <1>2, <1>4, <2>1
  <2>6. \A q \in Ops \ {p} :
          Keeps(q) /\ (plan[q].src = s => ~Committing(q) /\ (plan'[q].late \/ pc[q] = "planned"))
    BY <1>2, <1>4, <2>2
  <2>7. SourceInv(s)'
    BY <1>1, <1>4, <1>5, <2>2, <2>3, <2>4, <2>5, <2>6, WrittenSource
  <2> QED BY <1>8, <2>7
<1> QED BY <1>6, <1>7, <1>8

\* The Source is put back, before the assets or after them.
LEMMA RestoreSources ==
  ASSUME Base, Timely, Ownership, SourcesInv, NEW p \in Ops, RestoreSource(p) PROVE SourcesInv'
<1>1. /\ Working(p) /\ MayUndo(p) /\ pc[p] = "undoing" /\ plan[p].placed > 0
      /\ archive' = archive /\ bytes' = bytes
  BY RestoreSourceWrites
<1>2. PICK x, step : /\ WriteTo(p, plan[p].before, x, step)
                     /\ \/ plan[p].placed = 1 /\ x = NoPlan /\ step = "done"
                        \/ /\ Processing(p) /\ step = "failing" /\ SamePlan(x, plan[p]) /\ x.placed = 0
                           /\ plan[p].placed = 1
                        \/ p \in Web /\ x = plan[p] /\ step = "removing"
  BY RestoreSourceWrites
<1>3. PICK s \in Sources : s = plan[p].src
  BY <1>1, WorkingPlan
<1>4. /\ Processing(p) => plan[p].seen.captured # <<>>
      /\ plan[p].before \in ShapedDocs \cup {None} /\ plan[p].placed \in 0 .. 3
  BY <1>1, WorkingPlan, PlanTyped DEF StageOf, Processing, Composed, Writing
<1>5. /\ plan'[p] = x /\ pc'[p] = step
      /\ \A q \in Ops \ {p} :
           /\ Keeps(q)
           /\ plan[q].src # plan[p].src => plan'[q] = plan[q]
           /\ plan[q].src = plan[p].src => plan'[q].late \/ pc[q] = "planned"
      /\ doc'[s] = plan[p].before /\ \A t \in Sources \ {s} : doc'[t] = doc[t]
      /\ plan[p].late => ~Clean(s)'
      /\ \A t : Clean(t)' => Clean(t)
      /\ spoiled' = spoiled
  BY <1>1, <1>2, <1>3, WriteFacts
<1>6. plan'[p].src \in {s, None} /\ step \in {"done", "failing", "removing"}
  BY <1>2, <1>3, <1>5, NoPlanShaped DEF SamePlan
<1> SUFFICES ASSUME NEW t \in Sources PROVE SourceInv(t)'
  BY DEF SourcesInv
<1>7. CASE t # s
  <2>1. \A q \in Ops \ {p} : Keeps(q) /\ (plan[q].src = t => plan'[q] = plan[q])
    BY <1>3, <1>5, <1>7
  <2>2. doc'[t] = doc[t] /\ (Clean(t)' => Clean(t)) /\ spoiled \subseteq spoiled'
    BY <1>5, <1>7
  <2>3. \A v \in Versions \ {p} : bytes'[v] = bytes[v]
    BY <1>1
  <2> QED BY <1>1, <1>3, <1>6, <1>7, <2>1, <2>2, <2>3, OtherSources DEF Ownership
<1>8. CASE t = s /\ ~Clean(s)'
  BY <1>8 DEF SourceInv
<1>9. CASE t = s /\ Clean(s)'
  <2> DEFINE before == plan[p].before
  <2>1. Clean(s) /\ ~plan[p].late /\ pc[p] # "planned"
    BY <1>1, <1>3, <1>5, <1>9
  <2>2. /\ Previews(s) /\ Extractions(s)
        /\ \A q \in Ops \ {p} : plan[q].src = s => ~Committing(q)
        /\ Good(before, archive \ Undone(p), bytes)
        /\ s \notin spoiled => Waits(before, archive \ Undone(p))
    BY <1>1, <1>3, <2>1, WriterAlone
  <2>3. plan[p].placed = 1 => archive \ Undone(p) = archive
    <3> SUFFICES ASSUME plan[p].placed = 1 PROVE Undone(p) = {}
      OBVIOUS
    <3>1. 1 .. plan[p].placed - 1 = {}
      OBVIOUS
    <3> QED BY <3>1 DEF Undone
  <2>4. \A q \in Ops \ {p} :
          plan[q].src = s /\ pc[q] = "planned" /\ ~plan[q].late /\ plan[q].before # None =>
            Texts(plan[q].before) \subseteq archive /\ Texts(plan[q].before) \cap Undone(p) = {}
    BY <1>1, <1>3, <2>1, <2>2 DEF Previews, PreviewKept
  <2>5. \A q \in Ops \ {p} :
          Keeps(q) /\ (plan[q].src = s => ~Committing(q) /\ (plan'[q].late \/ pc[q] = "planned"))
    BY <1>3, <1>5, <2>2
  <2>6. doc'[s] = before /\ pc'[p] # "planned"
    BY <1>5, <1>6
  <2>7. CASE step = "removing"
    <3>1. plan'[p] = plan[p] /\ p \in Web
      BY <1>2, <1>5, <2>7
    <3>2. /\ Assets(p)' = Assets(p) /\ AssetSet(p)' = AssetSet(p) /\ (Processing(p)' <=> Processing(p))
      BY <3>1 DEF Assets, AssetSet, VersionOf, Processing
    <3>3. Undone(p)' = Undone(p)
      BY <3>1, <3>2 DEF Undone
    <3>4. ~Committing(p)' \/ ~Removing(p)' => plan[p].placed = 1
      BY <1>1, <1>4, <1>5, <2>7, <3>1 DEF Committing, Removing
    <3>5. ExtractsAlone(p)' /\ MayRetry(p)'
      <4>1. MayRetry(p)'
        BY <1>5, <2>7 DEF MayRetry
      <4>2. ExtractsAlone(p) /\ Prompt(p)
        BY <1>1, <1>3, <2>1, <2>2 DEF Extractions, Prompt
      <4>3. ExtractsAlone(p)'
        BY <1>1, <1>5, <2>7, <3>1, <3>2, <4>2 DEF ExtractsAlone, Writing
      <4> QED BY <4>1, <4>3
    <3>6. ~Committing(p)' => Good(before, archive, bytes)
      BY <2>2, <2>3, <3>4
    <3>7. s \notin spoiled /\ ~Removing(p)' => Waits(before, archive)
      BY <2>2, <2>3, <3>4
    <3>8. plan'[p].src = s /\ ~plan'[p].late /\ plan'[p].before = before
      BY <1>3, <2>1, <3>1
    <3>9. SourceInv(s)'
      BY <1>1, <1>5, <2>2, <2>4, <2>5, <2>6, <3>1, <3>3, <3>5, <3>6, <3>7, <3>8, WrittenSource
    <3> QED BY <1>9, <3>9
  <2>8. CASE step # "removing"
    <3>1. Good(before, archive, bytes) /\ (s \notin spoiled => Waits(before, archive)) /\ plan[p].placed = 1
      BY <1>2, <2>2, <2>3, <2>8
    <3>2. ~Committing(p)' /\ ~MayUndo(p)'
      BY <1>5, <1>6, <2>8 DEF Committing, MayUndo, Writing
    <3>3. plan'[p].src = s => ExtractsAlone(p)' /\ MayRetry(p)'
      <4> SUFFICES ASSUME plan'[p].src = s PROVE ExtractsAlone(p)' /\ MayRetry(p)'
        OBVIOUS
      <4>1. step = "failing" /\ Processing(p) /\ SamePlan(x, plan[p])
        BY <1>2, <1>5, <2>8, NoPlanShaped, Constants
      <4>2. AssetSet(p)' = AssetSet(p)
        BY <1>5, <4>1 DEF SamePlan, AssetSet, Assets, VersionOf
      <4>3. AssetSet(p) \cap archive = {}
        <5>1. AssetSet(p) \cap archive = {Assets(p)[i] : i \in 1 .. plan[p].placed - 1}
          BY <1>1, <1>3, <2>1, <2>2, <4>1 DEF Extractions, ExtractsAlone, Prompt, Writing
        <5>2. 1 .. plan[p].placed - 1 = {}
          BY <3>1
        <5> QED BY <5>1, <5>2
      <4>4. ExtractsAlone(p)'
        BY <1>5, <4>1 DEF ExtractsAlone, Writing
      <4>5. MayRetry(p)'
        BY <1>1, <4>2, <4>3 DEF MayRetry
      <4> QED BY <4>4, <4>5
    <3>4. SourceInv(s)'
      BY <1>1, <1>5, <2>2, <2>4, <2>5, <2>6, <3>1, <3>2, <3>3, WrittenSource
    <3> QED BY <1>9, <3>4
  <2> QED BY <2>7, <2>8
<1> QED BY <1>7, <1>8, <1>9

\* What a failing rollback leaves is not right any more.
LEMMA UndoFailsSources ==
  ASSUME Base, SourcesInv, NEW p \in Ops, UndoFails(p) PROVE SourcesInv'
<1>1. Working(p) /\ Committing(p) /\ plan[p].src \in torn'
  BY UndoFailsLocal
<1>2. CASE LocalTo(p, NoPlan, "done")
  BY <1>1, <1>2, LeaveSources
<1>3. ASSUME NEW x, SamePlan(x, plan[p]), LocalTo(p, x, "failing") PROVE SourcesInv'
  <2> SUFFICES ASSUME NEW t \in Sources PROVE SourceInv(t)'
    BY DEF SourcesInv
  <2>1. PICK step : step = "failing" /\ LocalTo(p, x, step)
    BY <1>3
  <2>2. SourceInv(t) /\ (Clean(t)' => plan[p].src # t /\ x.src # t)
    BY <1>1, <1>3 DEF SourcesInv, Clean, SamePlan
  <2> QED BY <2>1, <2>2, LocalSource
<1> QED BY <1>2, <1>3, UndoFailsLocal

LEMMA ReplaceSources ==
  ASSUME Base, Timely, Ownership, SourcesInv, NEW p \in Ops, ReplaceSource(p) PROVE SourcesInv'
<1>1. Working(p) /\ pc[p] = "replacing" /\ plan[p].placed = 0 /\ archive' = archive /\ bytes' = bytes
  BY ReplaceSourceWrites
<1>2. PICK x, step : /\ WriteTo(p, plan[p].new, x, step) /\ x.placed = 1 /\ SamePlan(x, plan[p])
                     /\ step = "replacing"
  BY ReplaceSourceWrites DEF SamePlan
<1>3. PICK s \in Sources : s = plan[p].src
  BY <1>1, WorkingPlan
<1>4. /\ plan[p].new \in ShapedDocs /\ plan[p].new # None /\ plan[p].op \in Operations
      /\ plan[p].seen \in ShapedDocs /\ Composes(p)
  BY <1>1, WorkingPlan, PlanTyped DEF StageOf, Composed, Writing
<1>5. /\ plan'[p] = x /\ pc'[p] = "replacing"
      /\ \A q \in Ops \ {p} :
           /\ Keeps(q)
           /\ plan[q].src # plan[p].src => plan'[q] = plan[q]
           /\ plan[q].src = plan[p].src => plan'[q].late \/ pc[q] = "planned"
      /\ doc'[s] = plan[p].new /\ \A t \in Sources \ {s} : doc'[t] = doc[t]
      /\ plan[p].late => ~Clean(s)'
      /\ \A t : Clean(t)' => Clean(t)
      /\ spoiled' = spoiled
  BY <1>1, <1>2, <1>3, WriteFacts
<1>6. plan'[p].src = s /\ plan'[p].placed = 1 /\ plan'[p].late = plan[p].late
      /\ plan'[p].before = plan[p].before /\ plan'[p].held = plan[p].held
  BY <1>2, <1>3, <1>5 DEF SamePlan
<1> SUFFICES ASSUME NEW t \in Sources PROVE SourceInv(t)'
  BY DEF SourcesInv
<1>7. CASE t # s
  <2>1. \A q \in Ops \ {p} : Keeps(q) /\ (plan[q].src = t => plan'[q] = plan[q])
    BY <1>3, <1>5, <1>7
  <2>2. doc'[t] = doc[t] /\ (Clean(t)' => Clean(t)) /\ spoiled \subseteq spoiled'
    BY <1>5, <1>7
  <2> QED BY <1>1, <1>3, <1>6, <1>7, <2>1, <2>2, OtherSources DEF Ownership
<1>8. CASE t = s /\ ~Clean(s)'
  BY <1>8 DEF SourceInv
<1>9. CASE t = s /\ Clean(s)'
  <2> DEFINE seen == plan[p].seen
             new == plan[p].new
             before == plan[p].before
  <2>1. Clean(s) /\ Prompt(p) /\ ~plan[p].late
    BY <1>1, <1>3, <1>5, <1>9 DEF Prompt
  <2>2. /\ doc[s] = ReadBy(p) /\ Good(doc[s], archive, bytes)
        /\ s \notin spoiled => Waits(doc[s], archive)
        /\ \A r \in Ops : plan[r].src = s => ~Committing(r)
    BY <1>1, <1>3, <2>1, ReadsGood
  <2>3. Previews(s) /\ Extractions(s)
    BY <2>1 DEF SourcesInv, SourceInv
  <2>4. before = doc[s] /\ new = NewDoc(p, seen)
    BY <1>1, <2>1, <2>2 DEF Timely, InTime, Composed, Writing
  <2>5. Assets(p)' = Assets(p) /\ AssetSet(p)' = AssetSet(p)
    BY <1>2, <1>5 DEF SamePlan, Assets, AssetSet, VersionOf
  <2>6. Undone(p)' = {} /\ {Assets(p)[i] : i \in 1 .. 0} = {}
    <3>1. 1 .. plan'[p].placed - 1 = {} /\ 1 .. 0 = {}
      BY <1>6
    <3> QED BY <3>1 DEF Undone
  <2>7. Processing(p) => plan[p].held = {} /\ AssetSet(p) \cap archive = {}
    <3>1. Processing(p) => /\ plan[p].held = {}
                           /\ AssetSet(p) \cap archive = {Assets(p)[i] : i \in 1 .. plan[p].placed - 1}
      BY <1>1, <1>3, <2>1, <2>3 DEF Extractions, ExtractsAlone, Writing
    <3>2. 1 .. plan[p].placed - 1 = {}
      BY <1>1
    <3> QED BY <3>1, <3>2
  <2>8. Capturing(p) => Unknown(p)
    BY <1>1 DEF Ownership, Freshness, Captured
  <2>9. /\ Capturing(p) \/ Processing(p) => Len(Assets(p)) = 2
        /\ ~Capturing(p) /\ ~Processing(p) => Len(Assets(p)) = 0 /\ new = doc[s]
    <3>1. ~Capturing(p) => doc[s] = seen
      BY <2>2 DEF Capturing, CaptureOps, ReadBy
    <3> QED BY <1>4, <2>4, <3>1, AssetFacts, NewDocShaped
  <2> HIDE DEF new
  <2>10. ASSUME Committing(p)', NEW q \in Ops \ {p}, plan[q].src = s, pc[q] = "planned", ~plan[q].late,
                plan[q].before = new
         PROVE  FALSE
    <3>1. Capturing(p) \/ Processing(p)
      <4>1. ~Complete(p)'
        BY <1>5, <2>10 DEF Committing
      <4> QED BY <1>6, <2>5, <2>9, <4>1 DEF Complete
    <3>2. CASE Capturing(p)
      <4>1. MentionedBy(new, p)
        BY <1>4, <2>4, <3>2, NewDocShaped DEF MentionedBy, new
      <4>2. plan[q].before \in DocsOf(q)
        BY <1>4, <2>10 DEF DocsOf, new
      <4> QED BY <2>8, <2>10, <3>2, <4>1, <4>2 DEF Unknown
    <3>3. CASE Processing(p)
      <4>1. <<Last(seen.captured), "text">> \in Texts(new)
        BY <1>4, <2>4, <3>3, NewDocShaped DEF Texts
      <4>2. Texts(new) \subseteq archive
        BY <1>4, <2>3, <2>10 DEF Previews, PreviewKept, new
      <4>3. <<Last(seen.captured), "text">> \in AssetSet(p)
        BY <1>4, <3>3, AssetFacts
      <4> QED BY <2>7, <3>3, <4>1, <4>2, <4>3
    <3> QED BY <3>1, <3>2, <3>3
  <2>11. \A q \in Ops \ {p} :
           plan[q].src = s /\ pc[q] = "planned" /\ ~plan[q].late /\ plan[q].before # None =>
             Texts(plan[q].before) \subseteq archive'
    BY <1>1, <2>3 DEF Previews, PreviewKept
  <2>12. ExtractsAlone(p)' /\ MayRetry(p)'
    <3>1. MayRetry(p)'
      BY <1>5 DEF MayRetry
    <3>2. Processing(p)' <=> Processing(p)
      BY <1>2, <1>5 DEF SamePlan, Processing
    <3>3. {Assets(p)'[i] : i \in 1 .. plan'[p].placed - 1} = {}
      BY <1>6
    <3>4. ExtractsAlone(p)'
      BY <1>1, <1>5, <1>6, <2>5, <2>7, <3>2, <3>3 DEF ExtractsAlone, Writing
    <3> QED BY <3>1, <3>4
  <2>13. ~Committing(p)' => Good(new, archive, bytes)
    <3> SUFFICES ASSUME ~Committing(p)' PROVE Good(new, archive, bytes)
      OBVIOUS
    <3>1. Complete(p)'
      BY <1>5, <1>6 DEF Committing
    <3>2. ~Capturing(p) /\ ~Processing(p)
      BY <1>6, <2>5, <2>9, <3>1 DEF Complete
    <3> QED BY <2>2, <2>9, <3>2 DEF new
  <2>14. Good(before, archive \ {}, bytes) /\ (s \notin spoiled => Waits(before, archive \ {}))
    <3>1. archive \ {} = archive
      OBVIOUS
    <3> QED BY <2>2, <2>4, <3>1
  <2>15. s \notin spoiled => Waits(new, archive)
    <3> SUFFICES ASSUME s \notin spoiled PROVE Waits(new, archive)
      OBVIOUS
    <3>1. CASE Capturing(p)
      <4>1. Last(new.captured) = p
        BY <1>4, <2>4, <3>1, NewDocShaped DEF new
      <4>2. <<p, "text">> \notin archive /\ <<p, "record">> \notin archive
        BY <2>8, <3>1 DEF Unknown, Kinds
      <4> QED BY <4>1, <4>2 DEF Waits
    <3>2. CASE Processing(p)
      <4>1. new.status = "processed"
        BY <1>4, <2>4, <3>2, NewDocShaped DEF new
      <4> QED BY <4>1 DEF Waits
    <3>3. CASE ~Capturing(p) /\ ~Processing(p)
      BY <2>2, <2>9, <3>3 DEF new
    <3> QED BY <3>1, <3>2, <3>3
  <2>16. doc'[s] = new
    BY <1>5 DEF new
  <2>17. Committing(p)' /\ plan'[p].src = s =>
           /\ ~plan'[p].late
           /\ p \in Web \/ \A q \in Ops \ {p} :
                plan[q].src = s /\ pc[q] = "planned" /\ ~plan[q].late => plan[q].before # doc'[s]
    BY <1>6, <2>1, <2>10, <2>16
  <2>18. \A q \in Ops \ {p} :
           Keeps(q) /\ (plan[q].src = s => ~Committing(q) /\ (plan'[q].late \/ pc[q] = "planned"))
    BY <1>3, <1>5, <2>2
  <2>19. pc'[p] # "planned"
    BY <1>5
  <2>20. Good(plan'[p].before, archive' \ Undone(p)', bytes')
         /\ (s \notin spoiled' => Waits(plan'[p].before, archive' \ Undone(p)'))
    BY <1>1, <1>5, <1>6, <2>6, <2>14
  <2>21. SourceInv(s)'
    BY <1>1, <1>5, <1>6, <2>3, <2>6, <2>11, <2>12, <2>13, <2>15, <2>16, <2>17, <2>18, <2>19, <2>20,
       WrittenSource
  <2> QED BY <1>9, <2>21
<1> QED BY <1>7, <1>8, <1>9

\* The asset that p creates next.
LEMMA NextAsset ==
  ASSUME Base, NEW p \in Ops, Working(p), Capturing(p) \/ Processing(p), plan[p].placed \in {1, 2}
  PROVE  LET a == Assets(p)[plan[p].placed]
         IN  /\ a \in AssetSet(p) /\ AssetSet(p) = {Assets(p)[1], Assets(p)[2]} /\ Len(Assets(p)) = 2
             /\ {Assets(p)[i] : i \in 1 .. plan[p].placed} =
                  {Assets(p)[i] : i \in 1 .. plan[p].placed - 1} \cup {a}
             /\ a \notin {Assets(p)[i] : i \in 1 .. plan[p].placed - 1}
             /\ Capturing(p) => a \in {<<p, "raw">>, <<p, "metadata">>}
<1>1. /\ AssetSet(p) = {Assets(p)[1], Assets(p)[2]} /\ Assets(p)[1] # Assets(p)[2]
      /\ Len(Assets(p)) = 2
      /\ Capturing(p) => AssetSet(p) = {<<p, "raw">>, <<p, "metadata">>}
  <2>1. plan[p].op \in Operations
    BY WorkingPlan
  <2>2. CASE Capturing(p)
    <3>1. /\ Len(Assets(p)) = 2 /\ Assets(p)[1] = <<p, "raw">> /\ Assets(p)[2] = <<p, "metadata">>
          /\ AssetSet(p) = {<<p, "raw">>, <<p, "metadata">>}
      BY <2>1, <2>2, AssetFacts
    <3>2. <<p, "raw">> # <<p, "metadata">>
      OBVIOUS
    <3> QED BY <3>1, <3>2
  <2>3. CASE Processing(p)
    <3>1. /\ Len(Assets(p)) = 2 /\ ~Capturing(p)
          /\ Assets(p)[1] = <<VersionOf(p), "text">> /\ Assets(p)[2] = <<VersionOf(p), "record">>
          /\ AssetSet(p) = {<<VersionOf(p), "text">>, <<VersionOf(p), "record">>}
      BY <2>1, <2>3, AssetFacts DEF Processing, Capturing, CaptureOps
    <3>2. <<VersionOf(p), "text">> # <<VersionOf(p), "record">>
      OBVIOUS
    <3> QED BY <3>1, <3>2
  <2> QED BY <2>2, <2>3
<1>2. 1 .. 0 = {} /\ 1 .. 1 = {1} /\ 1 .. 2 = {1, 2}
  OBVIOUS
<1>3. CASE plan[p].placed = 1
  BY <1>1, <1>2, <1>3
<1>4. CASE plan[p].placed = 2
  BY <1>1, <1>2, <1>4
<1> QED BY <1>3, <1>4

\* When the last asset exists, the archive is what the new Source says.
LEMMA Published ==
  ASSUME Base, NEW p \in Ops, Working(p), pc[p] = "replacing", Capturing(p) \/ Processing(p),
         NEW new, new = NewDoc(p, plan[p].seen), NEW A, NEW h,
         ListedIn(plan[p].seen) \cup AssetSet(p) \subseteq A,
         Capturing(p) => h[p] = DigestOf[plan[p].page],
         Processing(p) => h[Last(plan[p].seen.captured)] = plan[p].seen.digest
  PROVE  Good(new, A, h)
<1> DEFINE seen == plan[p].seen
<1>1. Composes(p) /\ seen \in ShapedDocs /\ plan[p].op \in Operations
  BY WorkingPlan DEF Composed, Writing
<1>2. CASE Capturing(p)
  <2>1. /\ Range(new.captured) = Range(seen.captured) \cup {p} /\ new.texts = seen.texts
        /\ Last(new.captured) = p /\ new.digest = DigestOf[plan[p].page]
    BY <1>1, <1>2, NewDocShaped
  <2>2. AssetSet(p) = {<<p, "raw">>, <<p, "metadata">>}
    BY <1>1, <1>2, AssetFacts
  <2>3. ListedIn(new) \subseteq ListedIn(seen) \cup AssetSet(p)
    BY <2>1, <2>2 DEF ListedIn
  <2> QED BY <1>2, <2>1, <2>3 DEF Good
<1>3. CASE Processing(p)
  <2> DEFINE v == Last(seen.captured)
  <2>1. /\ new.captured = seen.captured /\ Range(new.texts) = Range(seen.texts) \cup {v}
        /\ new.digest = seen.digest
    BY <1>1, <1>3, NewDocShaped
  <2>2. AssetSet(p) = {<<v, "text">>, <<v, "record">>}
    BY <1>1, <1>3, AssetFacts
  <2> HIDE DEF v
  <2>3. ListedIn(new) \subseteq ListedIn(seen) \cup AssetSet(p)
    BY <2>1, <2>2 DEF ListedIn
  <2> QED BY <1>3, <2>1, <2>3 DEF Good
<1> QED BY <1>2, <1>3

LEMMA PlaceAssetSources ==
  ASSUME Base, Timely, Ownership, SourcesInv, NEW p \in Ops, PlaceAsset(p) PROVE SourcesInv'
<1> DEFINE a == Assets(p)[plan[p].placed]
<1>1. /\ Working(p) /\ Committing(p) /\ pc[p] = "replacing" /\ (Capturing(p) \/ Processing(p))
      /\ plan[p].placed \in {1, 2}
      /\ archive' = archive \cup {a}
      /\ bytes' = IF Capturing(p) THEN [bytes EXCEPT ![p] = DigestOf[plan[p].page]] ELSE bytes
  BY PlaceAssetCreates
<1>2. PICK x : /\ x.placed = plan[p].placed + 1 /\ SamePlan(x, plan[p])
               /\ StepTo(p, x, "replacing", {}) /\ doc' = doc
               /\ torn' = torn /\ overtaken' = overtaken /\ spoiled' = spoiled
  BY PlaceAssetCreates DEF MoveTo
<1>3. PICK s \in Sources : s = plan[p].src
  BY <1>1, WorkingPlan
<1>4. /\ plan'[p] = x /\ pc'[p] = "replacing" /\ \A q \in Ops \ {p} : Keeps(q) /\ plan'[q] = plan[q]
  BY <1>2, StepKeeps
<1>5. /\ plan'[p].src = s /\ plan'[p].placed = plan[p].placed + 1 /\ plan'[p].late = plan[p].late
      /\ plan'[p].before = plan[p].before /\ plan'[p].held = plan[p].held
      /\ Assets(p)' = Assets(p) /\ AssetSet(p)' = AssetSet(p)
      /\ Processing(p)' <=> Processing(p)
  <2>1. /\ plan'[p].src = s /\ plan'[p].placed = plan[p].placed + 1 /\ plan'[p].late = plan[p].late
        /\ plan'[p].before = plan[p].before /\ plan'[p].held = plan[p].held
    BY <1>2, <1>3, <1>4 DEF SamePlan
  <2>2. /\ Assets(p)' = Assets(p) /\ AssetSet(p)' = AssetSet(p)
        /\ Processing(p)' <=> Processing(p)
    BY <1>2, <1>4 DEF SamePlan, Assets, AssetSet, VersionOf, Processing
  <2> QED BY <2>1, <2>2
<1>6. /\ a \in AssetSet(p) /\ AssetSet(p) = {Assets(p)[1], Assets(p)[2]} /\ Len(Assets(p)) = 2
      /\ {Assets(p)[i] : i \in 1 .. plan[p].placed} =
           {Assets(p)[i] : i \in 1 .. plan[p].placed - 1} \cup {a}
      /\ a \notin {Assets(p)[i] : i \in 1 .. plan[p].placed - 1}
      /\ Capturing(p) => a \in {<<p, "raw">>, <<p, "metadata">>}
  BY <1>1, NextAsset
<1>7. /\ plan[p].op \in Operations /\ plan[p].seen \in ShapedDocs /\ Composes(p)
      /\ plan[p].before \in ShapedDocs \cup {None}
      /\ Processing(p) => plan[p].seen.captured # <<>>
      /\ plan[p].op = "add" => plan[p].seen = Draft
  BY <1>1, WorkingPlan, PlanTyped DEF Composed, Writing, StageOf, Processing
<1>8. \A v \in Versions \ {p} : bytes'[v] = bytes[v]
  BY <1>1 DEF Base, TypeOK
<1> HIDE DEF a
<1> SUFFICES ASSUME NEW t \in Sources PROVE SourceInv(t)'
  BY DEF SourcesInv
<1>9. CASE t # s
  <2>1. \A q \in Ops \ {p} : Keeps(q) /\ (plan[q].src = t => plan'[q] = plan[q])
    BY <1>4
  <2>2. doc'[t] = doc[t] /\ (Clean(t)' => Clean(t)) /\ spoiled \subseteq spoiled'
    BY <1>2 DEF Clean
  <2>3. \A b : b \notin AssetSet(p) => (b \in archive' <=> b \in archive)
    BY <1>1, <1>6
  <2> QED BY <1>1, <1>3, <1>5, <1>7, <1>8, <1>9, <2>1, <2>2, <2>3, OtherSources DEF Ownership
<1>10. CASE t = s /\ ~Clean(s)'
  BY <1>10 DEF SourceInv
<1>11. CASE t = s /\ Clean(s)'
  <2> DEFINE seen == plan[p].seen
             before == plan[p].before
  <2>1. Clean(s) /\ SourceInv(s)
    BY <1>2, <1>11 DEF Clean, SourcesInv
  <2>2. CommitAlone(s) /\ Previews(s) /\ Extractions(s) /\ Verified(s)
        /\ (s \notin spoiled => Processable(s))
    BY <2>1 DEF SourceInv
  <2>3. /\ ~plan[p].late
        /\ \A q \in Ops \ {p} : plan[q].src = s =>
             plan[q].late \/ (pc[q] = "planned" /\ (p \in Web \/ plan[q].before # doc[s]))
    BY <1>1, <1>3, <2>2 DEF CommitAlone
  <2>4. \A q \in Ops \ {p} : plan[q].src = s => ~Committing(q)
    BY <1>1, <1>3, <2>2, <2>3 DEF CommitAlone
  <2>5. Prompt(p) /\ MayUndo(p)
    BY <1>1, <2>3 DEF Prompt, MayUndo, Committing, Writing
  <2>6. doc[s] = NewDoc(p, seen) /\ before = ReadBy(p)
    <3>1. InTime(p)
      BY <2>5 DEF Timely
    <3>2. plan[p].placed > 0 /\ pc[p] \in Composed /\ pc[p] \in Writing /\ pc[p] # "removing"
      BY <1>1 DEF Composed, Writing
    <3>3. doc[plan[p].src] = plan[p].new /\ plan[p].new = NewDoc(p, plan[p].seen)
      BY <3>1, <3>2 DEF InTime
    <3>4. plan[p].before = ReadBy(p)
      BY <3>1, <3>2 DEF InTime
    <3> QED BY <1>3, <3>3, <3>4
  <2>7. Good(before, archive \ Undone(p), bytes) /\ (s \notin spoiled => Waits(before, archive \ Undone(p)))
    BY <1>3, <2>2, <2>3, <2>5 DEF Verified, Processable
  <2>8. ListedIn(seen) \subseteq archive
        /\ (Processing(p) => bytes[Last(seen.captured)] = seen.digest)
    <3>1. CASE plan[p].op = "add"
      <4>1. Range(seen.captured) = {} /\ Range(seen.texts) = {} /\ ~Processing(p)
        BY <1>7, <3>1, EmptyList DEF Draft, Processing
      <4> QED BY <4>1 DEF ListedIn
    <3>2. CASE plan[p].op # "add"
      <4>1. before = seen /\ seen # None
        BY <1>7, <2>6, <3>2, Constants DEF ReadBy, ShapedDocs
      <4> QED BY <1>7, <2>7, <4>1 DEF Good
    <3> QED BY <3>1, <3>2
  <2>9. Processing(p) =>
          /\ plan[p].held = {} /\ a \notin archive
          /\ AssetSet(p) \cap archive = {Assets(p)[i] : i \in 1 .. plan[p].placed - 1}
    BY <1>1, <1>3, <1>6, <2>2, <2>5 DEF Extractions, ExtractsAlone, Writing
  <2>10. Undone(p)' = Undone(p) \cup ({a} \ plan[p].held)
    <3>1. plan'[p].placed - 1 = plan[p].placed
      BY <1>1, <1>5
    <3> QED BY <1>5, <1>6, <3>1 DEF Undone
  <2>11. ExtractsAlone(p)' /\ MayRetry(p)'
    <3>1. MayRetry(p)'
      BY <1>4 DEF MayRetry
    <3>2. plan'[p].placed - 1 = plan[p].placed
      BY <1>1, <1>5
    <3>3. Processing(p) => AssetSet(p) \cap archive' = {Assets(p)[i] : i \in 1 .. plan[p].placed}
      BY <1>1, <1>6, <2>9
    <3>4. ExtractsAlone(p)'
      BY <1>4, <1>5, <2>9, <3>2, <3>3 DEF ExtractsAlone, Writing
    <3> QED BY <3>1, <3>4
  <2>12. ASSUME NEW q \in Ops \ {p}, plan[q].src = s, pc[q] = "planned", ~plan[q].late,
                plan[q].before # None
         PROVE  Texts(plan[q].before) \subseteq archive' /\ Texts(plan[q].before) \cap Undone(p)' = {}
    <3>1. Texts(plan[q].before) \subseteq archive /\ Texts(plan[q].before) \cap Undone(p) = {}
      BY <1>3, <2>2, <2>3, <2>5, <2>12 DEF Previews, PreviewKept
    <3>2. a \notin Texts(plan[q].before)
      <4>1. Capturing(p) => a \notin Texts(plan[q].before)
        BY <1>6 DEF Texts
      <4> QED BY <1>1, <2>9, <3>1, <4>1
    <3> QED BY <1>1, <2>10, <3>1, <3>2
  <2>13. ~Committing(p)' => Good(doc[s], archive', bytes')
    <3> SUFFICES ASSUME ~Committing(p)' PROVE Good(doc[s], archive', bytes')
      OBVIOUS
    <3>1. plan[p].placed = 2
      <4>1. Complete(p)' /\ plan'[p].placed > 0
        BY <1>1, <1>4, <1>5 DEF Committing
      <4> QED BY <1>1, <1>5, <1>6, <4>1 DEF Complete
    <3>2. AssetSet(p) \subseteq archive'
      <4>1. CASE Capturing(p)
        <5>1. <<p, "raw">> \in archive
          <6>1. Captured(p)
            BY <1>1, <4>1 DEF Ownership, Freshness
          <6> QED BY <1>1, <3>1, <6>1 DEF Captured
        <5>2. Assets(p)[1] = <<p, "raw">>
          BY <1>7, <4>1, AssetFacts
        <5> QED BY <1>1, <1>6, <3>1, <5>1, <5>2 DEF a
      <4>2. CASE Processing(p)
        <5>1. 1 \in 1 .. plan[p].placed - 1
          BY <3>1
        <5>2. Assets(p)[1] \in archive
          BY <2>9, <4>2, <5>1
        <5> QED BY <1>1, <1>6, <3>1, <5>2 DEF a
      <4> QED BY <1>1, <4>1, <4>2
    <3>3. Capturing(p) => bytes'[p] = DigestOf[plan[p].page]
      BY <1>1, Constants DEF Base, TypeOK
    <3>4. Processing(p) => bytes'[Last(seen.captured)] = seen.digest
      <4>1. Processing(p) => ~Capturing(p)
        BY DEF Processing, Capturing, CaptureOps
      <4> QED BY <1>1, <2>8, <4>1
    <3>5. ListedIn(seen) \cup AssetSet(p) \subseteq archive'
      BY <1>1, <2>8, <3>2
    <3> QED BY <1>1, <2>6, <3>3, <3>4, <3>5, Published
  <2>14. Good(before, archive' \ Undone(p)', bytes')
    <3>1. ASSUME NEW v \in Versions, MentionedBy(before, v)
          PROVE  bytes'[v] = bytes[v]
                 /\ \A k \in Kinds : <<v, k>> \in archive \ Undone(p) => <<v, k>> \in archive' \ Undone(p)'
      <4>1. CASE Capturing(p)
        <5>1. v # p
          BY <1>1, <3>1, <4>1 DEF Ownership, Freshness, Captured, OwnReading
        <5>2. \A k : <<v, k>> # a
          BY <1>6, <4>1, <5>1
        <5> QED BY <1>1, <1>8, <2>10, <5>1, <5>2
      <4>2. CASE Processing(p)
        <5>1. bytes' = bytes
          BY <1>1, <4>2 DEF Processing, Capturing, CaptureOps
        <5> QED BY <1>1, <2>9, <2>10, <4>2, <5>1
      <4> QED BY <1>1, <4>1, <4>2
    <3> QED BY <1>7, <2>7, <3>1, GoodKept
  <2>15. s \notin spoiled => Waits(doc[s], archive')
    <3> SUFFICES ASSUME s \notin spoiled PROVE Waits(doc[s], archive')
      OBVIOUS
    <3>1. CASE Capturing(p)
      <4>1. Waits(doc[s], archive) /\ doc[s] \in ShapedDocs \cup {None}
        BY <1>1, <1>3, <2>1, <2>3, WriterAlone DEF Removing, Base
      <4>2. \A v, k : k \in {"text", "record"} /\ <<v, k>> \in archive' => <<v, k>> \in archive
        BY <1>1, <1>6, <3>1
      <4> QED BY <4>1, <4>2, WaitsKept
    <3>2. CASE Processing(p)
      <4>1. doc[s].status = "processed"
        BY <1>7, <2>6, <3>2, NewDocShaped
      <4> QED BY <4>1 DEF Waits
    <3> QED BY <1>1, <3>1, <3>2
  <2>16. s \notin spoiled => Waits(before, archive' \ Undone(p)')
    <3>1. \A v, k : k \in {"text", "record"} /\ <<v, k>> \in archive' \ Undone(p)' =>
            <<v, k>> \in archive \ Undone(p)
      <4>1. CASE Capturing(p)
        BY <1>1, <1>6, <2>10, <4>1
      <4>2. CASE Processing(p)
        BY <1>1, <2>9, <2>10, <4>2
      <4> QED BY <1>1, <4>1, <4>2
    <3> QED BY <1>7, <2>7, <3>1, WaitsKept
  <2>17. \A q \in Ops \ {p} :
           Keeps(q) /\ (plan[q].src = s => ~Committing(q) /\ (plan'[q].late \/ pc[q] = "planned"))
    BY <1>4, <2>3, <2>4
  <2>18. pc'[p] # "planned" /\ doc'[s] = doc[s] /\ plan'[p].before = before /\ ~plan'[p].late
         /\ spoiled' = spoiled
    BY <1>2, <1>4, <1>5, <2>3
  <2>19. p \in Web \/ \A q \in Ops \ {p} :
           plan[q].src = s /\ pc[q] = "planned" /\ ~plan[q].late => plan[q].before # doc'[s]
    BY <2>3, <2>18
  <2>20. SourceInv(s)'
    BY <1>5, <2>2, <2>11, <2>12, <2>13, <2>14, <2>15, <2>16, <2>17, <2>18, <2>19, WrittenSource
  <2> QED BY <1>11, <2>20
<1> QED BY <1>9, <1>10, <1>11

LEMMA InitSources == Init => SourcesInv
<1> SUFFICES ASSUME Init, NEW s \in Sources PROVE SourceInv(s)
  BY DEF SourcesInv
<1>1. \A p \in Ops : plan[p].src # s
  BY NoPlanShaped, Constants DEF Init
<1>2. Good(doc[s], archive, bytes) /\ Waits(doc[s], archive)
  <2>1. CASE s \in Archived
    <3>1. doc[s] = FirstDoc /\ archive = {First} \X Kinds /\ bytes[First] = FirstDoc.digest
      BY <2>1, Constants DEF Init
    <3> QED BY <3>1, FirstShaped DEF Good, Waits, ListedIn, Kinds
  <2>2. CASE s \notin Archived
    <3>1. doc[s] \in {Draft, None}
      BY <2>2 DEF Init
    <3>2. Range(Draft.captured) = {} /\ Range(Draft.texts) = {} /\ Draft.captured = <<>>
      BY EmptyList DEF Draft
    <3> QED BY <3>1, <3>2 DEF Good, Waits, ListedIn
  <2> QED BY <2>1, <2>2
<1> QED BY <1>1, <1>2 DEF SourceInv, CommitAlone, Previews, Extractions, Verified, Processable

LEMMA NextSources == Base /\ Timely /\ Ownership /\ SourcesInv /\ [Next]_vars => SourcesInv'
<1> SUFFICES ASSUME Base, Timely, Ownership, SourcesInv, [Next]_vars PROVE SourcesInv'
  OBVIOUS
<1>1. CASE UNCHANGED vars
  <2> SUFFICES ASSUME NEW t \in Sources PROVE SourceInv(t)'
    BY DEF SourcesInv
  <2>1. Untouched(t)
    BY <1>1 DEF vars, files, histories, Untouched, Keeps, Clean
  <2> QED BY <2>1, UntouchedSource DEF SourcesInv
<1>2. ASSUME NEW p \in Ops, Continue(p) PROVE SourcesInv'
  <2>1. GiveUp(p) => SourcesInv'
    <3> SUFFICES ASSUME GiveUp(p) PROVE SourcesInv'
      OBVIOUS
    <3>1. ~Committing(p)
      BY DEF GiveUp, Committing
    <3> QED BY <3>1, GiveUpLocal, LeaveSources
  <2>2. Finish(p) => SourcesInv'
    BY FinishLocal, LeaveSources
  <2>3. Crash(p) => SourcesInv'
    BY CrashLocal, LeaveSources
  <2>4. PreflightRefuses(p) => SourcesInv'
    <3> SUFFICES ASSUME PreflightRefuses(p) PROVE SourcesInv'
      OBVIOUS
    <3>1. Working(p) /\ RefusedTo(p) /\ pc[p] \in {"composed", "approved"}
      BY PreflightRefusesLocal
    <3>2. plan[p].placed = 0
      BY <3>1, WorkingPlan, PlanTyped DEF StageOf, Writing
    <3> QED BY <3>1, <3>2, RefusedSources
  <2> QED BY <1>2, <2>1, <2>2, <2>3, <2>4, ReplaceFailsSources, AuditFailsSources, RemoveAssetSources,
             RestoreSources, UndoFailsSources, LookSources, LookRefusesSources, LookFailsSources,
             ComposeSources, PreviewSources, ConfirmSources, PreflightSources, ReplaceSources,
             PlaceAssetSources, ReadFailedSources, RecordFailureSources DEF Continue
<1> QED BY <1>1, <1>2, StartSources DEF Next

\* Parts 1 to 4 of the invariant.
ArchiveInv == Base /\ Timely /\ Ownership /\ SourcesInv

LEMMA ArchiveHolds == Spec => []ArchiveInv
<1>1. Init => ArchiveInv
  BY InitBase, InitOwnership, InitSources DEF ArchiveInv
<1>2. ArchiveInv /\ [Next]_vars => ArchiveInv'
  BY NextBase, NextTimely, NextOwnership, NextSources DEF ArchiveInv
<1> QED BY <1>1, <1>2, PTL DEF Spec

\* The check of the archive finds what a Source lists, unless a crash or a failing rollback
\* left a part of a write, or an operation missed a write of another.
THEOREM ListedAssetsVerify == Spec => []VerifyPasses
<1>1. ArchiveInv => VerifyPasses
  <2> SUFFICES ASSUME ArchiveInv, NEW s \in Sources, Settled(s), doc[s].captured # <<>>
               PROVE  Listed(s) \subseteq archive /\ bytes[LatestOf(s)] = doc[s].digest
    BY DEF VerifyPasses
  <2>1. Clean(s) /\ doc[s] # None /\ SourceInv(s)
    BY DEF Settled, Existing, Clean, ArchiveInv, SourcesInv
  <2>2. \A r \in Ops : plan[r].src = s => ~Committing(r)
    <3> SUFFICES ASSUME NEW r \in Ops, plan[r].src = s, Committing(r) PROVE FALSE
      OBVIOUS
    <3>1. Working(r) /\ plan[r].placed = 0 /\ Base
      BY DEF Settled, Quiet, Committing, Working, ArchiveInv
    <3> QED BY <3>1, WorkingPlan DEF Committing, StageOf
  <2>3. Good(doc[s], archive, bytes)
    BY <2>1, <2>2 DEF SourceInv, Verified
  <2> QED BY <2>1, <2>3 DEF Good, Listed, ListedIn, LatestOf
<1> QED BY <1>1, ArchiveHolds, PTL

\* Nothing of the extraction of a version that waits for it exists.
THEOREM WaitingSourcesCanBeProcessed == Spec => []WaitingCanBeProcessed
<1>1. ArchiveInv => WaitingCanBeProcessed
  <2> SUFFICES ASSUME ArchiveInv, NEW s \in Sources \ spoiled, Settled(s),
                      doc[s].status \in {"captured", "failed"}, doc[s].captured # <<>>
               PROVE  ({LatestOf(s)} \X {"text", "record"}) \cap archive = {}
    BY DEF WaitingCanBeProcessed
  <2>1. Clean(s) /\ doc[s] # None /\ SourceInv(s)
    BY DEF Settled, Existing, Clean, ArchiveInv, SourcesInv
  <2>2. \A r \in Ops : plan[r].src = s => ~Removing(r)
    BY DEF Settled, Quiet, Removing
  <2>3. Waits(doc[s], archive)
    BY <2>1, <2>2 DEF SourceInv, Processable
  <2> QED BY <2>1, <2>3 DEF Waits, LatestOf
<1> QED BY <1>1, ArchiveHolds, PTL

-----------------------------------------------------------------------------
(* Part 5: duplicates are named.                                           *)

Naming == NamedOrTogether /\ Foreseen

LEMMA NamingKept ==
  ASSUME Naming, NEW p \in Ops, together \subseteq together', \A q \in Ops \ {p} : Keeps(q),
         \A t \in Sources : Unrolled(t)' =>
           /\ Unrolled(t) /\ doc'[t].digest = doc[t].digest /\ doc'[t].upstream = doc[t].upstream
           /\ LatestOf(t)' = LatestOf(t),
         Working(p)' /\ Capturing(p)' /\ plan'[p].placed = 0 =>
           \A t \in Sources \ {plan'[p].src} :
             Unrolled(t) /\ doc[t].digest = DigestOf[plan'[p].page] =>
               t \in plan'[p].dups \/ {p, LatestOf(t)} \in together
  PROVE  Naming'
<1>1. NamedOrTogether'
  <2> SUFFICES ASSUME NEW s \in Sources, NEW t \in Sources, s # t, Unrolled(s)', Unrolled(t)',
                      doc'[s].digest # None, doc'[s].digest = doc'[t].digest
               PROVE  \/ s \in doc'[t].upstream \/ t \in doc'[s].upstream
                      \/ {LatestOf(s)', LatestOf(t)'} \in together'
    BY DEF NamedOrTogether
  <2>1. \/ s \in doc[t].upstream \/ t \in doc[s].upstream
        \/ {LatestOf(s), LatestOf(t)} \in together
    BY DEF Naming, NamedOrTogether
  <2> QED BY <2>1
<1>2. Foreseen'
  <2> SUFFICES ASSUME NEW q \in Ops, NEW t \in Sources, Working(q)', Capturing(q)',
                      plan'[q].placed = 0, t # plan'[q].src, Unrolled(t)',
                      doc'[t].digest = DigestOf[plan'[q].page]
               PROVE  t \in plan'[q].dups \/ {q, LatestOf(t)'} \in together'
    BY DEF Foreseen
  <2>1. Unrolled(t) /\ doc'[t].digest = doc[t].digest /\ LatestOf(t)' = LatestOf(t)
    OBVIOUS
  <2>2. CASE q = p
    BY <2>1, <2>2
  <2>3. CASE q # p
    <3>1. Keeps(q) /\ Working(q) /\ Capturing(q)
      BY <2>3 DEF Keeps, Working, Capturing
    <3>2. plan[q].placed = 0 /\ t # plan[q].src /\ doc[t].digest = DigestOf[plan[q].page]
      BY <2>1, <3>1 DEF Keeps
    <3>3. t \in plan[q].dups \/ {q, LatestOf(t)} \in together
      BY <2>1, <3>1, <3>2 DEF Naming, Foreseen
    <3>4. plan'[q].dups = plan[q].dups
      BY <3>1 DEF Keeps
    <3> QED BY <2>1, <3>3, <3>4
  <2> QED BY <2>2, <2>3
<1> QED BY <1>1, <1>2 DEF Naming

\* Steps that write no Source.
LEMMA NamingLocal ==
  ASSUME Naming, NEW p \in Ops, doc' = doc, overtaken \subseteq overtaken', rolledBack' = rolledBack,
         together' = together, torn \subseteq torn', \A q \in Ops \ {p} : Keeps(q),
         Working(p)' /\ Capturing(p)' /\ plan'[p].placed = 0 =>
           \A t \in Sources \ {plan'[p].src} :
             Unrolled(t) /\ doc[t].digest = DigestOf[plan'[p].page] =>
               t \in plan'[p].dups \/ {p, LatestOf(t)} \in together
  PROVE  Naming'
<1>1. \A t \in Sources : Unrolled(t)' =>
        /\ Unrolled(t) /\ doc'[t].digest = doc[t].digest /\ doc'[t].upstream = doc[t].upstream
        /\ LatestOf(t)' = LatestOf(t)
  BY DEF Unrolled, Existing, Clean, LatestOf
<1> QED BY <1>1, NamingKept

LEMMA LeaveNaming ==
  ASSUME Base, Naming, NEW p \in Ops, LocalTo(p, NoPlan, "done") PROVE Naming'
<1>1. /\ doc' = doc /\ overtaken \subseteq overtaken' /\ rolledBack' = rolledBack
      /\ together' = together /\ torn \subseteq torn' /\ \A q \in Ops \ {p} : Keeps(q)
      /\ ~Working(p)'
  BY StepKeeps DEF LocalTo, files, Working
<1> QED BY <1>1, NamingLocal

LEMMA OnwardNaming ==
  ASSUME Base, Naming, NEW p \in Ops, Working(p), NEW x, NEW step, LocalTo(p, x, step),
         Agree(x, plan[p])
  PROVE  Naming'
<1>1. /\ doc' = doc /\ overtaken \subseteq overtaken' /\ rolledBack' = rolledBack
      /\ together' = together /\ torn \subseteq torn' /\ \A q \in Ops \ {p} : Keeps(q)
      /\ plan'[p] = x
  BY StepKeeps DEF LocalTo, files
<1>2. ASSUME Capturing(p)', plan'[p].placed = 0, NEW t \in Sources \ {plan'[p].src}, Unrolled(t),
             doc[t].digest = DigestOf[plan'[p].page]
      PROVE  t \in plan'[p].dups \/ {p, LatestOf(t)} \in together
  <2>1. Capturing(p) /\ plan[p].placed = 0 /\ t # plan[p].src
        /\ doc[t].digest = DigestOf[plan[p].page] /\ plan'[p].dups = plan[p].dups
    BY <1>1, <1>2 DEF Agree, Capturing
  <2> QED BY <1>2, <2>1 DEF Naming, Foreseen
<1> QED BY <1>1, <1>2, NamingLocal

LEMMA StayNaming ==
  ASSUME Base, Naming, NEW p \in Ops, Working(p), NEW step, LocalTo(p, plan[p], step) PROVE Naming'
<1>1. Agree(plan[p], plan[p])
  BY DEF Agree
<1> QED BY <1>1, OnwardNaming

LEMMA StartNaming ==
  ASSUME Base, Naming, NEW p \in Ops, Begin(p) PROVE Naming'
<1>1. PICK op \in Operations, s \in Sources, page \in Pages \cup {None}, dups \in SUBSET Sources :
        /\ op \in CaptureOps <=> page # None
        /\ IF op = "add" THEN s \notin Existing ELSE s \in Existing
        /\ page # None => dups = Duplicates(s, page)
        /\ Start(p, op, s, page, dups)
  BY BeginStarts
<1>2. PICK x, step : step = "begun" /\ BegunPlan(x, op, s, page, dups) /\ LocalTo(p, x, step)
  BY <1>1, StartLocal
<1>3. /\ doc' = doc /\ overtaken \subseteq overtaken' /\ rolledBack' = rolledBack
      /\ together' = together /\ torn \subseteq torn' /\ \A q \in Ops \ {p} : Keeps(q)
      /\ plan'[p] = x
  BY <1>2, StepKeeps DEF LocalTo, files
<1>4. ASSUME Capturing(p)', NEW t \in Sources \ {plan'[p].src}, Unrolled(t),
             doc[t].digest = DigestOf[plan'[p].page]
      PROVE  t \in plan'[p].dups
  <2>1. page # None /\ dups = Duplicates(s, page) /\ doc[t].digest = DigestOf[page]
        /\ plan'[p].dups = dups /\ t # s
    BY <1>1, <1>2, <1>3, <1>4 DEF BegunPlan, Capturing
  <2>2. t \in Existing
    BY <1>4 DEF Unrolled
  <2> QED BY <2>1, <2>2 DEF Duplicates
<1> QED BY <1>3, <1>4, NamingLocal

\* A write that keeps what a Source holds, or one that no longer counts.
LEMMA WriteNaming ==
  ASSUME Base, Naming, NEW p \in Ops, Working(p), NEW d, NEW x, NEW step, WriteTo(p, d, x, step),
         together \subseteq together', rolledBack \subseteq rolledBack',
         ~(Working(p)' /\ Capturing(p)' /\ plan'[p].placed = 0),
         NEW s \in Sources, s = plan[p].src,
         \/ s \in rolledBack'
         \/ ~plan[p].late /\ Clean(s) =>
              /\ doc[s] # None /\ d.digest = doc[s].digest /\ d.upstream = doc[s].upstream
              /\ d.captured = doc[s].captured
  PROVE  Naming'
<1>1. /\ plan'[p] = x /\ pc'[p] = step /\ \A q \in Ops \ {p} : Keeps(q)
      /\ doc'[s] = d /\ \A t \in Sources \ {s} : doc'[t] = doc[t]
      /\ plan[p].late => ~Clean(s)'
      /\ \A t : Clean(t)' => Clean(t)
  BY WriteFacts
<1>2. ASSUME NEW t \in Sources, Unrolled(t)'
      PROVE  /\ Unrolled(t) /\ doc'[t].digest = doc[t].digest /\ doc'[t].upstream = doc[t].upstream
             /\ LatestOf(t)' = LatestOf(t)
  <2>1. t \notin rolledBack' /\ t \notin rolledBack /\ Clean(t)' /\ Clean(t) /\ doc'[t] # None
    BY <1>1, <1>2 DEF Unrolled, Existing
  <2>2. CASE t # s
    BY <1>1, <2>1, <2>2 DEF Unrolled, Existing, LatestOf
  <2>3. CASE t = s
    BY <1>1, <2>1, <2>3 DEF Unrolled, Existing, LatestOf
  <2> QED BY <2>2, <2>3
<1> QED BY <1>1, <1>2, NamingKept

\* A capture is published: whoever has the same content was found by it, or will see its name.
LEMMA CaptureNaming ==
  ASSUME Base, Timely, Naming, NEW p \in Ops, ReplaceSource(p), Capturing(p) PROVE Naming'
<1>1. /\ Working(p) /\ pc[p] = "replacing" /\ plan[p].placed = 0 /\ rolledBack' = rolledBack
      /\ together' = IF p \in Captures THEN together \cup {{p, q} : q \in Captures \ {p}} ELSE together
  BY ReplaceSourceWrites
<1>2. PICK x, step : /\ WriteTo(p, plan[p].new, x, step) /\ x.placed = 1
  BY ReplaceSourceWrites
<1>3. PICK s \in Sources : s = plan[p].src
  BY <1>1, WorkingPlan
<1>4. plan[p].seen \in ShapedDocs /\ Composes(p)
  BY <1>1, WorkingPlan DEF Composed, Writing
<1>5. /\ plan'[p] = x
      /\ \A q \in Ops \ {p} : Keeps(q)
      /\ doc'[s] = plan[p].new /\ \A t \in Sources \ {s} : doc'[t] = doc[t]
      /\ plan[p].late => ~Clean(s)'
      /\ \A t : Clean(t)' => Clean(t)
  BY <1>1, <1>2, <1>3, WriteFacts
<1>6. together \subseteq together' /\ \A q \in Ops \ {p} : Working(q) /\ Capturing(q) => {p, q} \in together'
  BY <1>1 DEF Captures, AtWork, Working, Capturing, CaptureOps
<1>7. ASSUME NEW t \in Sources \ {s}, Unrolled(t)'
      PROVE  Unrolled(t) /\ doc'[t] = doc[t] /\ LatestOf(t)' = LatestOf(t)
  BY <1>1, <1>5, <1>7 DEF Unrolled, Existing, LatestOf
<1>8. ASSUME Unrolled(s)'
      PROVE  /\ doc'[s].digest = DigestOf[plan[p].page] /\ LatestOf(s)' = p
             /\ plan[p].dups \subseteq doc'[s].upstream
  <2>1. Prompt(p)
    BY <1>1, <1>5, <1>8 DEF Prompt, Unrolled
  <2>2. InTime(p)
    BY <2>1 DEF Timely
  <2>3. doc'[s] = NewDoc(p, plan[p].seen)
    BY <1>1, <1>5, <2>2 DEF InTime, Composed, Writing
  <2>4. plan[p].dups \subseteq Upstream(p, plan[p].seen)
    BY DEF Upstream
  <2> QED BY <1>4, <2>3, <2>4, NewDocShaped DEF LatestOf
<1>9. ASSUME NEW t \in Sources \ {s}, Unrolled(s)', Unrolled(t)', doc'[s].digest = doc'[t].digest
      PROVE  t \in doc'[s].upstream \/ {LatestOf(s)', LatestOf(t)'} \in together'
  <2>1. Unrolled(t) /\ doc[t].digest = DigestOf[plan[p].page]
    BY <1>7, <1>8, <1>9
  <2>2. t \in plan[p].dups \/ {p, LatestOf(t)} \in together
    BY <1>1, <1>3, <2>1 DEF Naming, Foreseen
  <2> QED BY <1>6, <1>7, <1>8, <1>9, <2>2
<1>10. NamedOrTogether'
  <2> SUFFICES ASSUME NEW a \in Sources, NEW b \in Sources, a # b, Unrolled(a)', Unrolled(b)',
                      doc'[a].digest # None, doc'[a].digest = doc'[b].digest
               PROVE  \/ a \in doc'[b].upstream \/ b \in doc'[a].upstream
                      \/ {LatestOf(a)', LatestOf(b)'} \in together'
    BY DEF NamedOrTogether
  <2>1. CASE a = s
    BY <1>9, <2>1
  <2>2. CASE b = s
    <3>1. a \in doc'[b].upstream \/ {LatestOf(b)', LatestOf(a)'} \in together'
      BY <1>9, <2>2
    <3>2. {LatestOf(b)', LatestOf(a)'} = {LatestOf(a)', LatestOf(b)'}
      OBVIOUS
    <3> QED BY <3>1, <3>2
  <2>3. CASE a # s /\ b # s
    <3>1. /\ Unrolled(a) /\ doc'[a] = doc[a] /\ LatestOf(a)' = LatestOf(a)
          /\ Unrolled(b) /\ doc'[b] = doc[b] /\ LatestOf(b)' = LatestOf(b)
      BY <1>7, <2>3
    <3>2. \/ a \in doc[b].upstream \/ b \in doc[a].upstream
          \/ {LatestOf(a), LatestOf(b)} \in together
      BY <3>1 DEF Naming, NamedOrTogether
    <3> QED BY <1>6, <3>1, <3>2
  <2> QED BY <2>1, <2>2, <2>3
<1>11. Foreseen'
  <2> SUFFICES ASSUME NEW q \in Ops, NEW t \in Sources, Working(q)', Capturing(q)',
                      plan'[q].placed = 0, t # plan'[q].src, Unrolled(t)',
                      doc'[t].digest = DigestOf[plan'[q].page]
               PROVE  t \in plan'[q].dups \/ {q, LatestOf(t)'} \in together'
    BY DEF Foreseen
  <2>1. q # p
    BY <1>2, <1>5
  <2>2. Keeps(q) /\ Working(q) /\ Capturing(q)
    BY <1>5, <2>1 DEF Keeps, Working, Capturing
  <2>3. CASE t = s
    <3>1. {p, q} \in together' /\ LatestOf(t)' = p /\ {p, q} = {q, p}
      BY <1>6, <1>8, <2>1, <2>2, <2>3
    <3> QED BY <3>1
  <2>4. CASE t # s
    <3>1. Unrolled(t) /\ doc'[t] = doc[t] /\ LatestOf(t)' = LatestOf(t)
      BY <1>7, <2>4
    <3>2. plan[q].placed = 0 /\ t # plan[q].src /\ doc[t].digest = DigestOf[plan[q].page]
          /\ plan'[q].dups = plan[q].dups
      BY <2>2, <3>1 DEF Keeps
    <3>3. t \in plan[q].dups \/ {q, LatestOf(t)} \in together
      BY <2>2, <3>1, <3>2 DEF Naming, Foreseen
    <3> QED BY <1>6, <3>1, <3>2, <3>3
  <2> QED BY <2>3, <2>4
<1> QED BY <1>10, <1>11 DEF Naming

LEMMA ReplaceNaming ==
  ASSUME Base, Timely, Naming, NEW p \in Ops, ReplaceSource(p), ~Capturing(p) PROVE Naming'
<1>1. /\ Working(p) /\ pc[p] = "replacing" /\ plan[p].placed = 0 /\ rolledBack' = rolledBack
      /\ together \subseteq together'
  BY ReplaceSourceWrites
<1>2. PICK d, x, step : d = plan[p].new /\ WriteTo(p, d, x, step) /\ x.op = plan[p].op
  BY ReplaceSourceWrites
<1>3. PICK s \in Sources : s = plan[p].src
  BY <1>1, WorkingPlan
<1>4. plan[p].seen \in ShapedDocs /\ plan[p].seen # None /\ Composes(p)
  BY <1>1, WorkingPlan, Constants DEF Composed, Writing
<1>5. ~Capturing(p)'
  <2>1. plan'[p] = x
    BY <1>1, <1>2, <1>3, WriteFacts
  <2> QED BY <1>2, <2>1 DEF Capturing
<1>6. ~plan[p].late =>
        /\ doc[s] # None /\ d.digest = doc[s].digest /\ d.upstream = doc[s].upstream
        /\ d.captured = doc[s].captured
  <2> SUFFICES ASSUME ~plan[p].late
               PROVE  /\ doc[s] # None /\ d.digest = doc[s].digest /\ d.upstream = doc[s].upstream
                      /\ d.captured = doc[s].captured
    OBVIOUS
  <2>1. InTime(p)
    BY <1>1 DEF Timely, Prompt
  <2>2. d = NewDoc(p, plan[p].seen) /\ doc[s] = plan[p].seen
    BY <1>1, <1>2, <1>3, <2>1 DEF InTime, Composed, Writing, ReadBy, Capturing, CaptureOps
  <2> QED BY <1>4, <2>2, NewDocShaped
<1> QED BY <1>1, <1>2, <1>3, <1>5, <1>6, WriteNaming

LEMMA RecordFailureNaming ==
  ASSUME Base, Timely, Naming, NEW p \in Ops, RecordFailure(p) PROVE Naming'
<1>1. /\ Working(p) /\ pc[p] = "failed" /\ rolledBack' = rolledBack /\ together' = together
      /\ doc[plan[p].src] # None
  BY RecordFailureWrites
<1>2. PICK d, x, step : d = plan[p].new /\ x = NoPlan /\ step = "done" /\ WriteTo(p, d, x, step)
  BY RecordFailureWrites
<1>3. PICK s \in Sources : s = plan[p].src
  BY <1>1, WorkingPlan
<1>4. plan[p].seen \in ShapedDocs /\ Processing(p) /\ plan[p].placed = 0
  BY <1>1, WorkingPlan, PlanTyped DEF StageOf, Writing, Processing
<1>5. ~Working(p)'
  <2>1. pc'[p] = step
    BY <1>1, <1>2, <1>3, WriteFacts
  <2> QED BY <1>2, <2>1 DEF Working
<1>6. ~plan[p].late =>
        /\ doc[s] # None /\ d.digest = doc[s].digest /\ d.upstream = doc[s].upstream
        /\ d.captured = doc[s].captured
  <2> SUFFICES ASSUME ~plan[p].late
               PROVE  /\ doc[s] # None /\ d.digest = doc[s].digest /\ d.upstream = doc[s].upstream
                      /\ d.captured = doc[s].captured
    OBVIOUS
  <2>1. InTime(p)
    BY <1>1 DEF Timely, Prompt
  <2>2. d = [doc[s] EXCEPT !.status = "failed"] /\ doc[s] \in ShapedDocs
    BY <1>1, <1>2, <1>3, <2>1 DEF InTime, Base
  <2> QED BY <1>1, <1>3, <2>2, FailedShaped
<1> QED BY <1>1, <1>2, <1>3, <1>5, <1>6, WriteNaming

\* A step of p among its files, which writes no Source.
LEMMA MoveNaming ==
  ASSUME Base, Naming, NEW p \in Ops, NEW x, NEW step, MoveTo(p, x, step) PROVE Naming'
<1>1. /\ doc' = doc /\ overtaken \subseteq overtaken' /\ rolledBack' = rolledBack
      /\ together' = together /\ torn \subseteq torn' /\ StepTo(p, x, step, {}) /\ x.placed > 0
  BY DEF MoveTo
<1>2. plan'[p].placed # 0 /\ \A q \in Ops \ {p} : Keeps(q)
  BY <1>1, StepKeeps
<1> QED BY <1>1, <1>2, NamingLocal

LEMMA RefusedNaming ==
  ASSUME Base, Naming, NEW p \in Ops, Working(p), RefusedTo(p) PROVE Naming'
BY LeaveNaming, StayNaming DEF RefusedTo

LEMMA PlaceAssetNaming == ASSUME Base, Naming, NEW p \in Ops, PlaceAsset(p) PROVE Naming'
BY PlaceAssetCreates, MoveNaming

LEMMA RemoveAssetNaming == ASSUME Base, Naming, NEW p \in Ops, RemoveAsset(p) PROVE Naming'
BY RemoveAssetMoves, MoveNaming

LEMMA ReplaceFailsNaming == ASSUME Base, Naming, NEW p \in Ops, ReplaceFails(p) PROVE Naming'
<1>1. CASE plan[p].placed = 0
  BY <1>1, ReplaceFailsLocal, RefusedNaming
<1>2. CASE plan[p].placed # 0
  BY <1>2, ReplaceFailsMoves, MoveNaming
<1> QED BY <1>1, <1>2

LEMMA AuditFailsNaming == ASSUME Base, Naming, NEW p \in Ops, AuditFails(p) PROVE Naming'
<1>1. /\ Working(p) /\ plan[p].placed > 0 /\ UNCHANGED <<doc, rolledBack, together>>
      /\ WriteTo(p, doc[plan[p].src], plan[p], "undoing")
  BY AuditFailsWrites DEF files
<1>2. plan'[p] = plan[p] /\ \A q \in Ops \ {p} : Keeps(q)
  BY <1>1, WriteFacts
<1>3. overtaken \subseteq overtaken' /\ torn' = torn
  BY <1>1 DEF WriteTo
<1>4. plan'[p].placed # 0
  BY <1>1, <1>2
<1> QED BY <1>1, <1>2, <1>3, <1>4, NamingLocal

LEMMA RestoreNaming == ASSUME Base, Naming, NEW p \in Ops, RestoreSource(p) PROVE Naming'
<1>1. /\ Working(p) /\ rolledBack' = rolledBack \cup {plan[p].src} /\ together' = together
      /\ plan[p].placed > 0
  BY RestoreSourceWrites
<1>2. PICK x, step : /\ WriteTo(p, plan[p].before, x, step)
                     /\ \/ x = NoPlan /\ step = "done"
                        \/ Processing(p) /\ step = "failing" /\ SamePlan(x, plan[p])
                        \/ x = plan[p] /\ step = "removing"
  BY RestoreSourceWrites
<1>3. PICK s \in Sources : s = plan[p].src
  BY <1>1, WorkingPlan
<1>4. plan'[p] = x /\ pc'[p] = step
  BY <1>1, <1>2, <1>3, WriteFacts
<1>5. ~(Working(p)' /\ Capturing(p)' /\ plan'[p].placed = 0)
  BY <1>1, <1>2, <1>4 DEF SamePlan, Working, Capturing, Processing, CaptureOps
<1> QED BY <1>1, <1>2, <1>3, <1>5, WriteNaming

LEMMA UndoFailsNaming == ASSUME Base, Naming, NEW p \in Ops, UndoFails(p) PROVE Naming'
<1>1. CASE LocalTo(p, NoPlan, "done")
  BY <1>1, LeaveNaming
<1>2. ASSUME NEW x, Processing(p), SamePlan(x, plan[p]), LocalTo(p, x, "failing") PROVE Naming'
  <2>1. /\ doc' = doc /\ overtaken \subseteq overtaken' /\ rolledBack' = rolledBack
        /\ together' = together /\ torn \subseteq torn' /\ plan'[p] = x
        /\ \A q \in Ops \ {p} : Keeps(q)
    BY <1>2, StepKeeps DEF LocalTo, files
  <2>2. ~Capturing(p)'
    BY <1>2, <2>1 DEF SamePlan, Capturing, Processing, CaptureOps
  <2> QED BY <2>1, <2>2, NamingLocal
<1> QED BY <1>1, <1>2, UndoFailsLocal

LEMMA InitNaming == Init => Naming
<1> SUFFICES ASSUME Init PROVE Naming
  OBVIOUS
<1>1. \A s \in Sources : doc[s].digest # None /\ Unrolled(s) => s \in Archived
  BY DEF Init, Unrolled, Existing, Draft
<1>2. NamedOrTogether
  BY <1>1, Constants, ArchiveConstants, FirstShaped DEF NamedOrTogether, Init
<1>3. Foreseen
  BY DEF Foreseen, Init, Working
<1> QED BY <1>2, <1>3 DEF Naming

LEMMA NextNaming == Base /\ Timely /\ Naming /\ [Next]_vars => Naming'
<1> SUFFICES ASSUME Base, Timely, Naming, [Next]_vars PROVE Naming'
  OBVIOUS
<1>1. CASE UNCHANGED vars
  BY <1>1 DEF vars, files, histories, Naming, NamedOrTogether, Foreseen, Unrolled, Existing, Clean,
              LatestOf, Working, Capturing
<1>2. ASSUME NEW p \in Ops, Continue(p) PROVE Naming'
  <2>1. Look(p) => Naming'
    BY LookLocal, StayNaming
  <2>2. LookRefuses(p) => Naming'
    BY LookRefusesLocal, LeaveNaming, StayNaming
  <2>3. LookFails(p) => Naming'
    BY LookFailsLocal, RefusedNaming
  <2>4. Compose(p) => Naming'
    <3> SUFFICES ASSUME Compose(p) PROVE Naming'
      OBVIOUS
    <3>1. Working(p) /\ \E x, step : LocalTo(p, x, step) /\ Agree(x, plan[p])
      BY ComposeLocal
    <3> QED BY <3>1, OnwardNaming
  <2>5. GiveUp(p) => Naming'
    BY GiveUpLocal, LeaveNaming
  <2>6. Preview(p) => Naming'
    <3> SUFFICES ASSUME Preview(p) PROVE Naming'
      OBVIOUS
    <3>1. Working(p) /\ \E x, step : LocalTo(p, x, step) /\ Agree(x, plan[p])
      BY PreviewLocal
    <3> QED BY <3>1, OnwardNaming
  <2>7. Confirm(p) => Naming'
    BY ConfirmLocal, StayNaming
  <2>8. Preflight(p) => Naming'
    <3> SUFFICES ASSUME Preflight(p) PROVE Naming'
      OBVIOUS
    <3>1. Working(p) /\ \E x, step : LocalTo(p, x, step) /\ Agree(x, plan[p])
      BY PreflightLocal
    <3> QED BY <3>1, OnwardNaming
  <2>9. PreflightRefuses(p) => Naming'
    BY PreflightRefusesLocal, RefusedNaming
  <2>10. ReplaceSource(p) => Naming'
    BY CaptureNaming, ReplaceNaming
  <2>11. PlaceAsset(p) => Naming'
    BY PlaceAssetNaming
  <2>12. Finish(p) => Naming'
    BY FinishLocal, LeaveNaming
  <2>13. Crash(p) => Naming'
    BY CrashLocal, LeaveNaming
  <2>14. ReadFailed(p) => Naming'
    <3> SUFFICES ASSUME ReadFailed(p) PROVE Naming'
      OBVIOUS
    <3>1. Working(p) /\ \E x, step : LocalTo(p, x, step) /\ Agree(x, plan[p])
      BY ReadFailedLocal
    <3> QED BY <3>1, OnwardNaming
  <2>15. RecordFailure(p) => Naming'
    BY RecordFailureNaming
  <2> QED BY <1>2, <2>1, <2>2, <2>3, <2>4, <2>5, <2>6, <2>7, <2>8, <2>9, <2>10, <2>11, <2>12, <2>13,
             <2>14, <2>15, ReplaceFailsNaming, AuditFailsNaming, RemoveAssetNaming, RestoreNaming,
             UndoFailsNaming DEF Continue
<1> QED BY <1>1, <1>2, StartNaming DEF Next

\* Of two Sources with the same content one names the other, unless they were captured at
\* the same time or a write was undone.
THEOREM DuplicatesAlwaysNamed == Spec => []DuplicatesNamed
<1>1. Init => ArchiveInv /\ Naming
  BY InitBase, InitOwnership, InitSources, InitNaming DEF ArchiveInv
<1>2. ArchiveInv /\ Naming /\ [Next]_vars => ArchiveInv' /\ Naming'
  BY NextBase, NextTimely, NextOwnership, NextSources, NextNaming DEF ArchiveInv
<1>3. Naming => DuplicatesNamed
  <2> SUFFICES ASSUME Naming, NEW s \in Sources \ rolledBack, NEW t \in Sources \ rolledBack,
                      s # t, Settled(s), Settled(t), doc[s].digest # None,
                      doc[s].digest = doc[t].digest
               PROVE  \/ s \in doc[t].upstream \/ t \in doc[s].upstream
                      \/ {LatestOf(s), LatestOf(t)} \in together
    BY DEF DuplicatesNamed
  <2>1. Unrolled(s) /\ Unrolled(t)
    BY DEF Settled, Unrolled, Clean
  <2> QED BY <2>1 DEF Naming, NamedOrTogether
<1> QED BY <1>1, <1>2, <1>3, PTL DEF Spec

-----------------------------------------------------------------------------
(* Part 6: a Source lists the versions that have been captured of it.      *)

CapturedIn(d) == IF d = None THEN <<>> ELSE d.captured
Recorded == \A s \in Sources \ overtaken : published[s] = CapturedIn(doc[s])

LEMMA FrontAppend ==
  ASSUME NEW S, NEW seq \in Seq(S), NEW x \in S PROVE Retract(Append(seq, x), x) = seq
<1> DEFINE long == Append(seq, x)
<1>1. /\ long \in Seq(S) /\ long # <<>> /\ Len(long) = Len(seq) + 1
      /\ \A i \in 1 .. Len(seq) : long[i] = seq[i]
  BY AppendProperties
<1>2. Last(long) = x
  BY RangeAppend
<1>3. Len(seq) \in Nat
  OBVIOUS
<1> HIDE DEF long
<1>4. Front(long) = seq
  <2>1. Front(long) = SubSeq(long, 1, Len(seq))
    BY <1>1, <1>3 DEF Front
  <2>2. SubSeq(long, 1, Len(seq)) = [i \in 1 .. Len(seq) |-> long[i]]
    BY <1>3
  <2>3. seq = [i \in 1 .. Len(seq) |-> seq[i]]
    OBVIOUS
  <2> QED BY <1>1, <2>1, <2>2, <2>3
<1> QED BY <1>1, <1>2, <1>4 DEF Retract, long

\* What an operation in time adds to the list that it has read.
LEMMA NewCaptured ==
  ASSUME NEW p \in Ops, Composes(p), plan[p].seen # None
  PROVE  /\ Capturing(p) =>
              NewDoc(p, plan[p].seen).captured = Append(plan[p].seen.captured, p)
         /\ ~Capturing(p) => NewDoc(p, plan[p].seen).captured = plan[p].seen.captured
<1>1. CASE Capturing(p)
  <2>1. plan[p].op # "confirm" /\ plan[p].op # "process"
    BY <1>1 DEF Capturing, CaptureOps
  <2> QED BY <1>1, <2>1 DEF NewDoc
<1>2. CASE ~Capturing(p)
  <2>1. plan[p].seen \in ShapedDocs
    BY DEF Composes
  <2> QED BY <1>2, <2>1, NewDocShaped
<1> QED BY <1>1, <1>2

\* The list that an operation has read, None for an addition.
LEMMA ReadList ==
  ASSUME Base, NEW p \in Ops, Working(p)
  PROVE  CapturedIn(ReadBy(p)) = plan[p].seen.captured /\ plan[p].seen # None
<1>1. plan[p].seen # None /\ (plan[p].op = "add" => plan[p].seen = Draft)
  BY WorkingPlan DEF StageOf
<1>2. Draft.captured = <<>>
  BY DEF Draft
<1> QED BY <1>1, <1>2 DEF CapturedIn, ReadBy

\* Steps that write no Source.
LEMMA RecordedKept ==
  ASSUME Recorded, doc' = doc, published' = published, overtaken \subseteq overtaken'
  PROVE  Recorded'
BY DEF Recorded

LEMMA RecordedWrite ==
  ASSUME Base, Recorded, NEW p \in Ops, Working(p), NEW d, NEW x, NEW step, WriteTo(p, d, x, step),
         NEW s \in Sources, s = plan[p].src,
         \A t \in Sources \ {s} : published'[t] = published[t],
         ~plan[p].late /\ s \notin overtaken => published'[s] = CapturedIn(d)
  PROVE  Recorded'
<1>1. /\ doc'[s] = d /\ \A t \in Sources \ {s} : doc'[t] = doc[t]
  BY WriteFacts
<1>2. overtaken \subseteq overtaken' /\ (plan[p].late => s \in overtaken')
  BY DEF WriteTo
<1> SUFFICES ASSUME NEW t \in Sources \ overtaken' PROVE published'[t] = CapturedIn(doc[t])'
  BY DEF Recorded
<1>3. CASE t = s
  BY <1>1, <1>2, <1>3 DEF CapturedIn
<1>4. CASE t # s
  <2>1. published[t] = CapturedIn(doc[t])
    BY <1>2 DEF Recorded
  <2> QED BY <1>1, <1>4, <2>1 DEF CapturedIn
<1> QED BY <1>3, <1>4

LEMMA ReplaceRecorded ==
  ASSUME Base, Timely, Recorded, NEW p \in Ops, ReplaceSource(p) PROVE Recorded'
<1>1. /\ Working(p) /\ pc[p] = "replacing" /\ plan[p].placed = 0
      /\ published' = IF Capturing(p)
                      THEN [published EXCEPT ![plan[p].src] = Append(published[plan[p].src], p)]
                      ELSE published
  BY ReplaceSourceWrites
<1>2. PICK x : WriteTo(p, plan[p].new, x, "replacing")
  BY ReplaceSourceWrites
<1>3. PICK s \in Sources : s = plan[p].src
  BY <1>1, WorkingPlan
<1>4. Composes(p) /\ plan[p].new # None
  BY <1>1, WorkingPlan DEF Composed, Writing, StageOf
<1>5. published \in [Sources -> Seq(Versions)]
  BY DEF Base, TypeOK
<1>6. ASSUME ~plan[p].late, s \notin overtaken PROVE published'[s] = CapturedIn(plan[p].new)
  <2>1. InTime(p)
    BY <1>1, <1>6 DEF Timely, Prompt
  <2>2. doc[s] = ReadBy(p) /\ plan[p].new = NewDoc(p, plan[p].seen)
    BY <1>1, <1>3, <2>1 DEF InTime, Composed, Writing
  <2>3. published[s] = plan[p].seen.captured
    BY <1>1, <1>6, <2>2, ReadList DEF Recorded
  <2>4. CapturedIn(plan[p].new) = NewDoc(p, plan[p].seen).captured
    BY <1>4, <2>2 DEF CapturedIn
  <2>5. published'[s] = IF Capturing(p) THEN Append(plan[p].seen.captured, p) ELSE plan[p].seen.captured
    BY <1>1, <1>3, <1>5, <2>3
  <2> QED BY <1>1, <1>4, <2>4, <2>5, ReadList, NewCaptured
<1>7. \A t \in Sources \ {s} : published'[t] = published[t]
  BY <1>1, <1>3, <1>5
<1> QED BY <1>1, <1>2, <1>3, <1>6, <1>7, RecordedWrite

LEMMA RestoreRecorded ==
  ASSUME Base, Timely, Recorded, NEW p \in Ops, RestoreSource(p) PROVE Recorded'
<1>1. /\ Working(p) /\ pc[p] = "undoing" /\ plan[p].placed > 0
      /\ published' = IF Capturing(p)
                      THEN [published EXCEPT ![plan[p].src] = Retract(published[plan[p].src], p)]
                      ELSE published
  BY RestoreSourceWrites
<1>2. PICK x, step : WriteTo(p, plan[p].before, x, step)
  BY RestoreSourceWrites
<1>3. PICK s \in Sources : s = plan[p].src
  BY <1>1, WorkingPlan
<1>4. Composes(p) /\ plan[p].new # None
  BY <1>1, WorkingPlan DEF Composed, Writing, StageOf
<1>5. published \in [Sources -> Seq(Versions)]
  BY DEF Base, TypeOK
<1>6. ASSUME ~plan[p].late, s \notin overtaken PROVE published'[s] = CapturedIn(plan[p].before)
  <2>1. InTime(p)
    BY <1>1, <1>6 DEF Timely, Prompt
  <2>2. doc[s] = plan[p].new /\ plan[p].new = NewDoc(p, plan[p].seen) /\ plan[p].before = ReadBy(p)
    BY <1>1, <1>3, <2>1 DEF InTime, Composed, Writing
  <2>3. published[s] = NewDoc(p, plan[p].seen).captured
    BY <1>4, <1>6, <2>2 DEF Recorded, CapturedIn
  <2>4. CapturedIn(plan[p].before) = plan[p].seen.captured /\ plan[p].seen # None
    BY <1>1, <2>2, ReadList
  <2>5. CASE Capturing(p)
    <3>1. plan[p].seen.captured \in Seq(Versions) /\ p \in Versions
      BY <1>4, Constants DEF Composes, ShapedDocs, Docs
    <3>2. published[s] = Append(plan[p].seen.captured, p)
      BY <1>4, <2>3, <2>4, <2>5, NewCaptured
    <3>3. published'[s] = Retract(published[s], p)
      BY <1>1, <1>3, <1>5, <2>5
    <3> QED BY <2>4, <3>1, <3>2, <3>3, FrontAppend
  <2>6. CASE ~Capturing(p)
    <3>1. published[s] = plan[p].seen.captured
      BY <1>4, <2>3, <2>4, <2>6, NewCaptured
    <3> QED BY <1>1, <2>4, <2>6, <3>1
  <2> QED BY <2>5, <2>6
<1>7. \A t \in Sources \ {s} : published'[t] = published[t]
  BY <1>1, <1>3, <1>5
<1> QED BY <1>1, <1>2, <1>3, <1>6, <1>7, RecordedWrite

LEMMA RecordFailureRecorded ==
  ASSUME Base, Timely, Recorded, NEW p \in Ops, RecordFailure(p) PROVE Recorded'
<1>1. /\ Working(p) /\ pc[p] = "failed" /\ doc[plan[p].src] # None /\ published' = published
      /\ WriteTo(p, plan[p].new, NoPlan, "done")
  BY RecordFailureWrites
<1>2. PICK s \in Sources : s = plan[p].src
  BY <1>1, WorkingPlan
<1>3. ASSUME ~plan[p].late, s \notin overtaken PROVE published'[s] = CapturedIn(plan[p].new)
  <2>1. InTime(p)
    BY <1>1, <1>3 DEF Timely, Prompt
  <2>2. plan[p].new = [doc[s] EXCEPT !.status = "failed"] /\ doc[s] \in ShapedDocs
    BY <1>1, <1>2, <2>1 DEF InTime, Base
  <2>3. plan[p].new.captured = doc[s].captured /\ plan[p].new # None
    BY <2>2, FailedShaped, Constants DEF ShapedDocs
  <2> QED BY <1>1, <1>2, <1>3, <2>3 DEF Recorded, CapturedIn
<1> QED BY <1>1, <1>2, <1>3, RecordedWrite

LEMMA InitRecorded == Init => Recorded
<1> SUFFICES ASSUME Init, NEW s \in Sources PROVE published[s] = CapturedIn(doc[s])
  BY DEF Recorded
<1>1. CASE s \in Archived
  <2>1. doc[s] = FirstDoc /\ published[s] = <<First>>
    BY <1>1 DEF Init
  <2>2. FirstDoc \in Docs /\ FirstDoc.captured = <<First>>
    BY FirstShaped DEF ShapedDocs, FirstDoc
  <2> QED BY <2>1, <2>2, Constants DEF CapturedIn
<1>2. CASE s \notin Archived
  <2>1. doc[s] \in {Draft, None} /\ published[s] = <<>>
    BY <1>2 DEF Init
  <2> QED BY <2>1 DEF CapturedIn, Draft
<1> QED BY <1>1, <1>2

LEMMA NextRecorded == Base /\ Timely /\ Recorded /\ [Next]_vars => Recorded'
<1> SUFFICES ASSUME Base, Timely, Recorded, [Next]_vars PROVE Recorded'
  OBVIOUS
<1>1. CASE UNCHANGED vars
  BY <1>1, RecordedKept DEF vars, files, histories
<1>2. ASSUME NEW p \in Ops, Begin(p) PROVE Recorded'
  BY <1>2, RecordedKept DEF Begin, Add, Fetch, Process, ConfirmDate, Start, files, histories
<1>3. ASSUME NEW p \in Ops, Continue(p) PROVE Recorded'
  <2>1. Look(p) \/ LookRefuses(p) \/ LookFails(p) \/ Compose(p) \/ GiveUp(p) => Recorded'
    BY RecordedKept DEF Look, LookRefuses, LookFails, Compose, GiveUp, files, histories
  <2>2. Preview(p) \/ Confirm(p) \/ Preflight(p) \/ PreflightRefuses(p) \/ ReadFailed(p) => Recorded'
    BY RecordedKept DEF Preview, Confirm, Preflight, PreflightRefuses, ReadFailed, files, histories
  <2>3. PlaceAsset(p) \/ Finish(p) \/ ReplaceFails(p) \/ RemoveAsset(p) \/ UndoFails(p) \/ Crash(p)
          => Recorded'
    BY RecordedKept DEF PlaceAsset, Finish, ReplaceFails, RemoveAsset, UndoFails, Crash, files, histories
  <2>4. AuditFails(p) => Recorded'
    <3> SUFFICES ASSUME AuditFails(p) PROVE Recorded'
      OBVIOUS
    <3>1. doc' = doc /\ published' = published /\ overtaken \subseteq overtaken'
      BY DEF AuditFails, Overtake, files
    <3> QED BY <3>1, RecordedKept
  <2> QED BY <1>3, <2>1, <2>2, <2>3, <2>4, ReplaceRecorded, RestoreRecorded, RecordFailureRecorded
          DEF Continue
<1> QED BY <1>1, <1>2, <1>3 DEF Next

\* The last text of a processed Source is that of the version captured last, unless an
\* operation that missed a write of another has written the Source: every list, also
\* one that a rollback puts back, names the captures in their order.
THEOREM TextAlwaysCurrent == Spec => []TextIsCurrent
<1>1. Init => ArchiveInv /\ Recorded
  BY InitBase, InitOwnership, InitSources, InitRecorded DEF ArchiveInv
<1>2. ArchiveInv /\ Recorded /\ [Next]_vars => ArchiveInv' /\ Recorded'
  BY NextBase, NextTimely, NextOwnership, NextSources, NextRecorded DEF ArchiveInv
<1>3. ArchiveInv /\ Recorded => TextIsCurrent
  <2> SUFFICES ASSUME ArchiveInv, Recorded, NEW s \in Existing \ overtaken, doc[s].status = "processed"
               PROVE  doc[s].texts # <<>> /\ published[s] # <<>> /\ Last(doc[s].texts) = Last(published[s])
    BY DEF TextIsCurrent
  <2>1. s \in Sources /\ doc[s] # None
    BY DEF Existing
  <2>2. doc[s] \in ShapedDocs
    BY <2>1 DEF ArchiveInv, Base
  <2>3. doc[s].texts # <<>> /\ doc[s].captured # <<>> /\ Last(doc[s].texts) = Last(doc[s].captured)
    BY <2>2 DEF ShapedDocs, Shape
  <2>4. published[s] = doc[s].captured
    BY <2>1 DEF Recorded, CapturedIn
  <2> QED BY <2>3, <2>4
<1> QED BY <1>1, <1>2, <1>3, PTL DEF Spec

=============================================================================
