----------------------- MODULE ResearchObjectsProofs -----------------------
(***************************************************************************)
(* Proofs about ResearchObjects, for any repository, any number of Web     *)
(* sessions and command line processes, and any bound.                     *)
(*                                                                         *)
(* The inductive invariant says of each pending plan what its operation    *)
(* established when it validated the repository: the new content satisfies *)
(* the rules about one object, and it is a legal move from the content     *)
(* that was validated.  It says so of the files that had not changed when  *)
(* they were read again.  That is enough: a file that has not changed up   *)
(* to the publication either still holds what was validated, and the       *)
(* others are the ones that the properties exempt.  The rules between      *)
(* objects need more: they hold in the repository as it would be with the  *)
(* plan in it (Overlay), and they go on to hold there whatever others      *)
(* publish, because what they rest on never goes away (Grows).             *)
(***************************************************************************)
EXTENDS ResearchObjects, TLAPS


\* The statuses that a Valuation takes, and the one of a Recommendation with a successor.
Valued(f, o) == TypeOf[f] = "valuation" => o.status \in {"draft", "superseded"}
Ended(f, o) ==
  TypeOf[f] = "recommendation" /\ o.supersededBy # None => o.status = "superseded"

Sound(f, o) == OwnRules(f, o) /\ Valued(f, o)

LegalWrites(read, writes) ==
  \A f \in DOMAIN writes :
    /\ Sound(f, writes[f])
    /\ read[f] # Absent => LegalMove(TypeOf[f], read[f], writes[f])

\* What is left of it when some files had changed.
LegalPlan(p) ==
  \A f \in DOMAIN p.writes :
    /\ Valued(f, p.writes[f])
    /\ f \notin p.changed =>
         /\ Sound(f, p.writes[f])
         /\ p.read[f] # Absent => LegalMove(TypeOf[f], p.read[f], p.writes[f])

PlansLegal == \A s \in Sessions : plan[s] # NoPlan => LegalPlan(plan[s])

AllSound ==
  \A f \in Existing(repo) :
    Valued(f, repo[f]) /\ (f \notin clobbered => OwnRules(f, repo[f]))

\* A new link leads to an object that has no successor.
Chained == {"report", "recommendation"}
Successor(o) == IF o = Absent THEN None ELSE o.supersededBy
Linked(read, writes) ==
  \A f \in DOMAIN writes : TypeOf[f] \in Chained =>
    \/ writes[f].supersededBy = Successor(read[f])
    \/ /\ writes[f].status = "superseded"
       /\ \E g \in DOMAIN writes : /\ TypeOf[g] \in Chained /\ writes[f].supersededBy = IdOf[g]
                                    /\ writes[g].supersededBy = None

\* Links of plans made before a changed file was written.
PlansLink ==
  clobbered = {} =>
    \A s \in Sessions : plan[s] # NoPlan /\ plan[s].changed = {} =>
      Linked(plan[s].read, plan[s].writes)

AllEnded == clobbered = {} => \A f \in Existing(repo) : Ended(f, repo[f])

IInv == TypeOK /\ AllSound /\ PlansLegal /\ PlansLink /\ AllEnded

(***************************************************************************)
(* Resolutions.  A plan either adds none and closes no Forecast, or it     *)
(* closes one open Forecast and adds the Resolution that says so.          *)
(***************************************************************************)
Closed(o) == o.status \in {"resolved", "void"}

QuietAt(f, o, n) ==
  /\ TypeOf[f] = "resolution" => o # Absent
  /\ TypeOf[f] = "forecast" /\ Closed(n) => o # Absent /\ Closed(o)

Closing(read, writes) ==
  \E f, g \in Files :
    /\ DOMAIN writes = {f, g}
    /\ TypeOf[f] = "forecast" /\ read[f] # Absent /\ read[f].status = "open" /\ Closed(writes[f])
    /\ TypeOf[g] = "resolution" /\ read[g] = Absent /\ writes[g].subject = IdOf[f]

Answering(read, writes) ==
  \/ \A f \in DOMAIN writes : QuietAt(f, read[f], writes[f])
  \/ Closing(read, writes)

PlansAnswer ==
  \A s \in Sessions : plan[s] # NoPlan /\ plan[s].changed = {} =>
    Answering(plan[s].read, plan[s].writes)

\* A Resolution names a Forecast that is there.
SubjectsExist ==
  \A g \in OfType(repo, "resolution"), f \in Files :
    TypeOf[f] = "forecast" /\ repo[g].subject = IdOf[f] => f \in Existing(repo)

(***************************************************************************)
(* Rules between objects.                                                  *)
(***************************************************************************)
\* What others may rest on stays: the review of an Event, the mark on a Source, the
\* links of a Report.
Keeps(f, o, n) ==
  /\ n # Absent
  /\ o.ready => n.ready
  /\ o.supersededBy # None => n.supersededBy = o.supersededBy
  /\ TypeOf[f] = "event" /\ o.review = "reviewed" => n.review = "reviewed"
  /\ TypeOf[f] = "report" => n.supersedes = o.supersedes

Grows(r, q) == \A f \in Existing(r) : Keeps(f, r[f], q[f])

Overlay(r, writes) == [f \in Files |-> IF f \in DOMAIN writes THEN writes[f] ELSE r[f]]

\* The Evidence that must be reviewed is there and reviewed.
Needy(f, o) ==
  \/ TypeOf[f] \in {"report", "thesis"} /\ o.review = "reviewed"
  \/ TypeOf[f] = "report" /\ o.print # None

Backed(r, f) ==
  Needy(f, r[f]) =>
    \A id \in r[f].basis :
      \E g \in Holders(r, id) : TypeOf[g] = "event" /\ r[g].review = "reviewed"

Extracted(r, f) ==
  TypeOf[f] = "event" => \A id \in r[f].basis : \E g \in Holders(r, id) : r[g].ready

Referring(r, f) == TypeOf[f] \notin {"company", "sector"} => ReferenceRule(r, f)

Stands(r, f) == Referring(r, f) /\ Backed(r, f) /\ Extracted(r, f) /\ ReportPairRule(r, f)

KeepsRead(read, writes) ==
  \A f \in DOMAIN writes : read[f] # Absent => Keeps(f, read[f], writes[f])

\* What an operation must show about the content it computes.
Fit(writes) ==
  /\ DOMAIN writes \subseteq Files
  /\ writes \in [DOMAIN writes -> Objects]
  /\ LegalWrites(repo, writes)

Standing(writes) == \A f \in DOMAIN writes : Stands(Overlay(repo, writes), f)

Good(writes) ==
  /\ Fit(writes) /\ Answering(repo, writes)
  /\ KeepsRead(repo, writes) /\ (clobbered = {} => Linked(repo, writes)) /\ Standing(writes)

Offered(s) ==
  plan[s] = NoPlan
  /\ \E w, k : Offer(s, w, k) /\ Good(w) /\ k \in [DOMAIN w -> SUBSET Fields]

(***************************************************************************)
(* Objects.                                                                *)
(***************************************************************************)
LEMMA BlankType == Blank \in Objects
BY DEF Blank, Objects, Statuses, ReviewStatuses

LEMMA IdsType == ASSUME NEW F \in SUBSET Files PROVE IdsOf(F) \in SUBSET Ids
BY ValidationConstants DEF IdsOf

LEMMA ExistingType ==
  ASSUME TypeOK, NEW f \in Existing(repo)
  PROVE  f \in Files /\ repo[f] \in Objects /\ repo[f] # Absent
BY DEF TypeOK, Existing, Slots

LEMMA OfTypeType ==
  ASSUME TypeOK, NEW t, NEW f \in OfType(repo, t)
  PROVE  f \in Existing(repo) /\ f \in Files /\ repo[f] \in Objects /\ TypeOf[f] = t
         /\ repo[f] # Absent
BY ExistingType DEF OfType

\* An operation starts from a repository in which every object obeys its own rules.
LEMMA StartSound ==
  ASSUME IInv, Valid(repo), NEW f \in Existing(repo) PROVE Sound(f, repo[f])
BY DEF IInv, AllSound, Valid, Sound

LEMMA NewType == ASSUME NEW t, NEW f \in New(repo, t)
                 PROVE f \in Files /\ TypeOf[f] = t /\ repo[f] = Absent
BY DEF New

LEMMA SomeType == ASSUME NEW t, NEW S \in Some(OfType(repo, t)) PROVE S \in SUBSET Files
BY DEF Some, OfType, Existing

LEMMA SameMove == ASSUME NEW t, NEW o \in Objects PROVE LegalMove(t, o, o)
BY AbsentIsNoObject DEF LegalMove, MayMove

(***************************************************************************)
(* What stands in a repository goes on to stand while it grows.            *)
(***************************************************************************)
LEMMA ReportIds ==
  ASSUME NEW f \in Files, NEW g \in Files, TypeOf[f] \in Chained, IdOf[f] = IdOf[g]
  PROVE  f = g
BY ValidationConstants DEF Chained

LEMMA HoldersStay ==
  ASSUME NEW r, NEW q, Grows(r, q), NEW id, NEW g \in Holders(r, id)
  PROVE  g \in Holders(q, id) /\ g \in Existing(r) /\ Keeps(g, r[g], q[g])
BY DEF Holders, Existing, Grows, Keeps

LEMMA GrowsOver ==
  ASSUME TypeOK, NEW w, DOMAIN w \subseteq Files, KeepsRead(repo, w)
  PROVE  Grows(repo, Overlay(repo, w))
BY ExistingType DEF Grows, Keeps, KeepsRead, Overlay, Existing

\* The Reports that a Report links to are the same ones, and link as they did.
LEMMA PairStays ==
  ASSUME NEW r, NEW q, Grows(r, q), NEW f \in Files, TypeOf[f] = "report", Referring(r, f),
         NEW id \in {r[f].supersedes, r[f].supersededBy} \ {None}, NEW h \in Holders(q, id)
  PROVE  /\ h \in Holders(r, id) /\ q[h].supersedes = r[h].supersedes
         /\ r[h].supersededBy = IdOf[f] => q[h].supersededBy = IdOf[f]
<1>1. PICK g \in Holders(r, id) : TypeOf[g] = "report"
  BY DEF Referring, ReferenceRule
<1>2. g = h
  BY <1>1, ReportIds DEF Holders, Existing, Chained
<1>3. IdOf[f] # None
  BY ValidationConstants
<1> QED BY <1>1, <1>2, <1>3, HoldersStay DEF Keeps

\* f has in q what its rules ask for if they held in r, and f asks for no more.
LEMMA StandsOn ==
  ASSUME NEW r, NEW q, Grows(r, q), NEW f \in Files, f \in Existing(r), Stands(r, f),
         q[f].basis = r[f].basis, q[f].subject = r[f].subject,
         q[f].supersedes = r[f].supersedes, q[f].supersededBy = r[f].supersededBy,
         Needy(f, q[f]) => Needy(f, r[f]),
         TypeOf[f] = "report" =>
           (q[f].status = "final" /\ q[f].review = "reviewed"
            => r[f].status = "final" /\ r[f].review = "reviewed")
  PROVE  Stands(q, f)
<1>1. Referring(q, f)
  BY HoldersStay DEF Stands, Referring, ReferenceRule
<1>2. Backed(q, f)
  BY HoldersStay DEF Stands, Backed, Keeps
<1>3. Extracted(q, f)
  BY HoldersStay DEF Stands, Extracted, Keeps
<1>4. ReportPairRule(q, f)
  <2> SUFFICES ASSUME TypeOf[f] = "report" PROVE ReportPairRule(q, f)
    BY DEF ReportPairRule
  <2>2. Referring(r, f)
    BY DEF Stands
  <2>3. SuccessorNames(q, f)
    BY <2>2, PairStays DEF Stands, ReportPairRule, SuccessorNames
  <2>4. q[f].status = "final" /\ q[f].review = "reviewed" => PriorNames(q, f)
    BY <2>2, PairStays DEF Stands, ReportPairRule, PriorNames
  <2> QED BY <2>3, <2>4 DEF ReportPairRule
<1> QED BY <1>1, <1>2, <1>3, <1>4 DEF Stands

\* In a valid repository every object stands.
LEMMA ValidStands ==
  ASSUME NEW r, Valid(r), NEW f \in Existing(r) PROVE Stands(r, f)
<1>1. ReferenceRule(r, f) /\ ReportPairRule(r, f)
  BY DEF Valid
<1>2. Backed(r, f)
  <2> SUFFICES ASSUME Needy(f, r[f]), NEW id \in r[f].basis
               PROVE  \E g \in Holders(r, id) : TypeOf[g] = "event" /\ r[g].review = "reviewed"
    BY DEF Backed
  <2>1. BasisType(TypeOf[f]) = "event"
    BY DEF Needy, BasisType
  <2>2. PICK g \in Holders(r, id) : TypeOf[g] = "event"
    BY <1>1, <2>1 DEF ReferenceRule
  <2>3. Reviewed(r, id)
    BY DEF Valid, EvidenceRule, GeneratedRule, Needy
  <2> QED BY <2>2, <2>3 DEF Reviewed
<1>3. Extracted(r, f)
  BY <1>1 DEF Extracted, Valid, ExtractionRule, ReferenceRule
<1> QED BY <1>1, <1>2, <1>3 DEF Stands, Referring

\* What a new object rests on is there.
Founded(t, o) ==
  /\ t \notin {"company", "sector"} =>
       \A id \in o.basis : \E g \in OfType(repo, BasisType(t)) : IdOf[g] = id
  /\ t = "report" /\ o.print # None =>
       \A id \in o.basis : \E g \in OfType(repo, "event") :
         IdOf[g] = id /\ repo[g].review = "reviewed"
  /\ o.supersedes # None => \E g \in OfType(repo, t) : IdOf[g] = o.supersedes
  /\ o.subject # None => Holders(repo, o.subject) # {}

LEMMA NewStands ==
  ASSUME NEW q, Grows(repo, q), NEW f \in Files, Founded(TypeOf[f], q[f]),
         q[f].review = "pending", q[f].supersededBy = None, Extracted(q, f)
  PROVE  Stands(q, f)
<1>1. \A t, g : g \in OfType(repo, t) =>
        g \in Holders(q, IdOf[g]) /\ TypeOf[g] = t /\ Keeps(g, repo[g], q[g])
  BY DEF OfType, Holders, Existing, Grows, Keeps
<1>2. Referring(q, f)
  <2>1. TypeOf[f] \notin {"company", "sector"} =>
          \A id \in q[f].basis : \E g \in Holders(q, id) : TypeOf[g] = BasisType(TypeOf[f])
    BY <1>1 DEF Founded
  <2>2. q[f].supersedes # None => \E g \in Holders(q, q[f].supersedes) : TypeOf[g] = TypeOf[f]
    BY <1>1 DEF Founded
  <2>3. q[f].subject # None => Holders(q, q[f].subject) # {}
    BY HoldersStay DEF Founded
  <2> QED BY <2>1, <2>2, <2>3 DEF Referring, ReferenceRule
<1>3. Backed(q, f)
  BY <1>1 DEF Backed, Needy, Founded, Keeps
<1>4. ReportPairRule(q, f)
  BY DEF ReportPairRule, SuccessorNames
<1> QED BY <1>2, <1>3, <1>4 DEF Stands

LEMMA CitedFounds ==
  ASSUME NEW t, NEW S \in Some(OfType(repo, t)), NEW id \in IdsOf(S)
  PROVE  \E g \in OfType(repo, t) : IdOf[g] = id
BY DEF IdsOf, Some

(***************************************************************************)
(* Offers of one file.                                                     *)
(***************************************************************************)
LEMMA OneGood ==
  ASSUME TypeOK, NEW f \in Files, NEW o \in Objects, Sound(f, o),
         repo[f] # Absent => LegalMove(TypeOf[f], repo[f], o) /\ Keeps(f, repo[f], o),
         QuietAt(f, repo[f], o), o.supersededBy = Successor(repo[f]),
         ASSUME NEW q, Grows(repo, q), q[f] = o PROVE Stands(q, f)
  PROVE  Good([g \in {f} |-> o])
<1> DEFINE w == [g \in {f} |-> o]
<1>1. DOMAIN w = {f} /\ w[f] = o /\ w \in [DOMAIN w -> Objects]
  OBVIOUS
<1> HIDE DEF w
<1>2. KeepsRead(repo, w)
  BY <1>1 DEF KeepsRead
<1>3. Overlay(repo, w)[f] = o
  BY <1>1 DEF Overlay
<1>4. Standing(w)
  BY <1>1, <1>2, <1>3, GrowsOver DEF Standing
<1> QED BY <1>1, <1>2, <1>4 DEF Good, Fit, Answering, LegalWrites, Linked, w

LEMMA OfferedOne ==
  ASSUME NEW s, NEW f, NEW o, NEW k \in SUBSET Fields, MayStart(s),
         Offer(s, [g \in {f} |-> o], [g \in {f} |-> k]), Good([g \in {f} |-> o])
  PROVE  Offered(s)
BY DEF Offered, MayStart

\* A new object that is a draft, or of a type whose status follows no rule.
Guarded == {"report", "forecast", "recommendation", "valuation"}

LEMMA NewSound ==
  ASSUME NEW f \in Files, NEW o \in Objects, o.review = "pending", o.supersededBy = None,
         o.status = "draft" \/ TypeOf[f] \notin Guarded
  PROVE  Sound(f, o)
BY DEF Sound, Valued, OwnRules, ReportRule, ForecastRule, PostureRule, Guarded

LEMMA NewOffer ==
  ASSUME IInv, NEW s, NEW t, NEW f \in New(repo, t), NEW o \in Objects, MayStart(s),
         OfferNew(s, f, o), o.review = "pending", o.supersededBy = None,
         o.status = "draft" \/ t \notin Guarded, t \notin {"resolution", "event"}, Founded(t, o)
  PROVE  Offered(s)
<1>1. f \in Files /\ TypeOf[f] = t /\ repo[f] = Absent
  BY NewType
<1>2. Sound(f, o)
  BY <1>1, NewSound
<1>3. QuietAt(f, repo[f], o)
  BY <1>1 DEF QuietAt, Closed, Guarded
<1>4. ASSUME NEW q, Grows(repo, q), q[f] = o PROVE Stands(q, f)
  BY <1>1, <1>4, NewStands DEF Extracted
<1>5. o.supersededBy = Successor(repo[f])
  BY <1>1 DEF Successor
<1>6. Good([g \in {f} |-> o])
  BY <1>1, <1>2, <1>3, <1>4, <1>5, OneGood DEF IInv
<1>7. Offer(s, [g \in {f} |-> o], [g \in {f} |-> {}])
  BY DEF OfferNew
<1>8. {} \in SUBSET Fields /\ MayStart(s)
  OBVIOUS
<1> QED BY <1>6, <1>7, <1>8, OfferedOne

LEMMA DraftSource_ ==
  ASSUME IInv, NEW s \in Sessions, DraftSource(s) PROVE Offered(s)
<1>1. PICK f \in New(repo, "source") : OfferNew(s, f, [Blank EXCEPT !.status = "captured"])
  BY DEF DraftSource
<1>2. [Blank EXCEPT !.status = "captured"] \in Objects
  BY BlankType DEF Blank, Objects, Statuses
<1>3. MayStart(s)
  BY DEF DraftSource
<1>9. Founded("source", [Blank EXCEPT !.status = "captured"])
  BY DEF Founded, Blank
<1> QED BY <1>9, <1>1, <1>2, <1>3, NewOffer DEF Blank, Guarded

LEMMA DraftAssertion_ ==
  ASSUME IInv, NEW s \in Sessions, DraftAssertion(s) PROVE Offered(s)
<1>1. PICK f \in New(repo, "assertion") : OfferNew(s, f, [Blank EXCEPT !.status = "active"])
  BY DEF DraftAssertion
<1>2. [Blank EXCEPT !.status = "active"] \in Objects
  BY BlankType DEF Blank, Objects, Statuses
<1>3. MayStart(s)
  BY DEF DraftAssertion
<1>9. Founded("assertion", [Blank EXCEPT !.status = "active"])
  BY DEF Founded, Blank
<1> QED BY <1>9, <1>1, <1>2, <1>3, NewOffer DEF Blank, Guarded

LEMMA DraftAction_ ==
  ASSUME IInv, NEW s \in Sessions, DraftAction(s) PROVE Offered(s)
<1>1. PICK f \in New(repo, "action") : OfferNew(s, f, [Blank EXCEPT !.status = "open"])
  BY DEF DraftAction
<1>2. [Blank EXCEPT !.status = "open"] \in Objects
  BY BlankType DEF Blank, Objects, Statuses
<1>3. MayStart(s)
  BY DEF DraftAction
<1>9. Founded("action", [Blank EXCEPT !.status = "open"])
  BY DEF Founded, Blank
<1> QED BY <1>9, <1>1, <1>2, <1>3, NewOffer DEF Blank, Guarded

LEMMA DraftForecast_ ==
  ASSUME IInv, NEW s \in Sessions, DraftForecast(s) PROVE Offered(s)
<1>1. PICK f \in New(repo, "forecast") : OfferNew(s, f, Blank)
  BY DEF DraftForecast
<1>2. Blank \in Objects
  BY BlankType DEF Blank, Objects, Statuses
<1>3. MayStart(s)
  BY DEF DraftForecast
<1>9. Founded("forecast", Blank)
  BY DEF Founded, Blank
<1> QED BY <1>9, <1>1, <1>2, <1>3, NewOffer DEF Blank, Guarded

LEMMA DraftReport_ ==
  ASSUME IInv, NEW s \in Sessions, DraftReport(s) PROVE Offered(s)
<1>1. PICK f \in New(repo, "report"), events \in Some(OfType(repo, "event")) :
        OfferNew(s, f, [Blank EXCEPT !.basis = IdsOf(events)])
  BY DEF DraftReport
<1>2. IdsOf(events) \in SUBSET Ids
  BY SomeType, IdsType
<1>3. [Blank EXCEPT !.basis = IdsOf(events)] \in Objects
  BY <1>2, BlankType, ValidationConstants DEF Blank, Objects, Statuses
<1>4. MayStart(s)
  BY DEF DraftReport
<1>9. Founded("report", [Blank EXCEPT !.basis = IdsOf(events)])
  BY CitedFounds DEF Founded, Blank, BasisType
<1> QED BY <1>9, <1>1, <1>3, <1>4, NewOffer DEF Blank, Guarded

LEMMA DraftImpact_ ==
  ASSUME IInv, NEW s \in Sessions, DraftImpact(s) PROVE Offered(s)
<1>1. PICK f \in New(repo, "assertion"), g \in OfType(repo, "event") :
        OfferNew(s, f, [Blank EXCEPT !.status = "active", !.basis = {IdOf[g]}])
  BY DEF DraftImpact
<1> DEFINE o == [Blank EXCEPT !.status = "active", !.basis = {IdOf[g]}]
<1>2. IdOf[g] \in Ids
  BY OfTypeType, ValidationConstants DEF IInv
<1>3. o \in Objects
  BY <1>2, BlankType, ValidationConstants DEF Blank, Objects, Statuses
<1>4. MayStart(s)
  BY DEF DraftImpact
<1>5. o.review = "pending" /\ o.supersededBy = None
  BY DEF Blank
<1>6. "assertion" \notin Guarded
  BY DEF Guarded
<1>9. Founded("assertion", o)
  BY <1>1 DEF Founded, Blank, BasisType
<1>11. OfferNew(s, f, o)
  BY <1>1
<1> HIDE DEF o
<1> QED BY <1>9, <1>11, <1>3, <1>4, <1>5, <1>6, NewOffer

LEMMA DraftRun_ ==
  ASSUME IInv, NEW s \in Sessions, DraftRun(s) PROVE Offered(s)
<1>1. PICK f \in New(repo, "run"), events \in Some(OfType(repo, "event")) :
        OfferNew(s, f, [Blank EXCEPT !.status = "completed", !.basis = IdsOf(events)])
  BY DEF DraftRun
<1> DEFINE o == [Blank EXCEPT !.status = "completed", !.basis = IdsOf(events)]
<1>2. IdsOf(events) \in SUBSET Ids
  BY SomeType, IdsType
<1>3. o \in Objects
  BY <1>2, BlankType, ValidationConstants DEF Blank, Objects, Statuses
<1>4. MayStart(s)
  BY DEF DraftRun
<1>5. o.review = "pending" /\ o.supersededBy = None
  BY DEF Blank
<1>6. "run" \notin Guarded
  BY DEF Guarded
<1>9. Founded("run", o)
  BY CitedFounds DEF Founded, Blank, BasisType
<1>11. OfferNew(s, f, o)
  BY <1>1
<1> HIDE DEF o
<1> QED BY <1>9, <1>11, <1>3, <1>4, <1>5, <1>6, NewOffer

LEMMA DraftValuation_ ==
  ASSUME IInv, NEW s \in Sessions, DraftValuation(s) PROVE Offered(s)
<1>1. PICK f \in New(repo, "valuation"), sources \in Some(OfType(repo, "source")) \cup {{}},
            licensed \in BOOLEAN :
        OfferNew(s, f, [Blank EXCEPT !.basis = IdsOf(sources), !.ready = licensed])
  BY DEF DraftValuation
<1> DEFINE o == [Blank EXCEPT !.basis = IdsOf(sources), !.ready = licensed]
<1>2. IdsOf(sources) \in SUBSET Ids
  BY SomeType, IdsType
<1>3. o \in Objects
  BY <1>2, BlankType, ValidationConstants DEF Blank, Objects, Statuses
<1>4. MayStart(s)
  BY DEF DraftValuation
<1>9. Founded("valuation", o)
  <2>1. \A id \in IdsOf(sources) : \E g \in OfType(repo, "source") : IdOf[g] = id
    BY CitedFounds DEF IdsOf
  <2> QED BY <2>1 DEF Founded, Blank, BasisType
<1>10. o.review = "pending" /\ o.supersededBy = None /\ o.status = "draft"
  BY DEF Blank
<1>11. OfferNew(s, f, o)
  BY <1>1
<1> HIDE DEF o
<1> QED BY <1>9, <1>10, <1>11, <1>3, <1>4, NewOffer

LEMMA DraftRecommendation_ ==
  ASSUME IInv, NEW s \in Sessions, DraftRecommendation(s) PROVE Offered(s)
<1>1. PICK f \in New(repo, "recommendation"),
            g \in OfType(repo, "valuation") \cup {None} :
        OfferNew(s, f, [Blank EXCEPT !.subject = IF g = None THEN None ELSE IdOf[g]])
  BY DEF DraftRecommendation
<1>2. (IF g = None THEN None ELSE IdOf[g]) \in Ids \cup {None}
  BY OfTypeType, ValidationConstants DEF IInv
<1>3. [Blank EXCEPT !.subject = IF g = None THEN None ELSE IdOf[g]] \in Objects
  BY <1>2, BlankType, ValidationConstants DEF Blank, Objects, Statuses
<1>4. MayStart(s)
  BY DEF DraftRecommendation
<1>9. Founded("recommendation", [Blank EXCEPT !.subject = IF g = None THEN None ELSE IdOf[g]])
  <2>1. g # None => Holders(repo, IdOf[g]) # {}
    BY DEF OfType, Holders
  <2> QED BY <2>1 DEF Founded, Blank
<1> QED BY <1>9, <1>1, <1>3, <1>4, NewOffer DEF Blank, Guarded

LEMMA DraftEntity_ ==
  ASSUME IInv, NEW s \in Sessions, DraftEntity(s) PROVE Offered(s)
<1>0. PICK f \in New(repo, "company") \cup New(repo, "sector") :
        \E named \in SUBSET Names(BasisType(TypeOf[f])) :
          OfferNew(s, f, [Blank EXCEPT !.status = "active", !.basis = named])
  BY DEF DraftEntity
<1>1. PICK named \in SUBSET Names(BasisType(TypeOf[f])) :
        OfferNew(s, f, [Blank EXCEPT !.status = "active", !.basis = named])
  BY <1>0
<1> DEFINE o == [Blank EXCEPT !.status = "active", !.basis = named]
<1>2. named \in SUBSET Ids
  BY DEF Names
<1>3. o \in Objects
  BY <1>2, BlankType DEF Blank, Objects, Statuses
<1>4. MayStart(s)
  BY DEF DraftEntity
<1>5. o.review = "pending"
      /\ o.supersededBy = None
  BY DEF Blank
<1>6. "company" \notin Guarded /\ "sector" \notin Guarded
  BY DEF Guarded
<1>9. Founded("company", o)
  BY DEF Founded, Blank
<1>10. Founded("sector", o)
  BY DEF Founded, Blank
<1>11. OfferNew(s, f, o)
  BY <1>1
<1> HIDE DEF o
<1>7. CASE f \in New(repo, "company")
  BY <1>9, <1>11, <1>3, <1>4, <1>5, <1>6, <1>7, NewOffer
<1>8. CASE f \in New(repo, "sector")
  BY <1>10, <1>11, <1>3, <1>4, <1>5, <1>6, <1>8, NewOffer
<1> QED BY <1>7, <1>8

LEMMA GenerateReport_ ==
  ASSUME IInv, NEW s \in Sessions, GenerateReport(s) PROVE Offered(s)
<1>1. PICK f \in New(repo, "report"), events \in Some(OfType(repo, "event")),
           prior \in OfType(repo, "report") \cup {None}, e \in Editions :
        /\ \A g \in events : repo[g].review = "reviewed"
        /\ OfferNew(s, f, [Blank EXCEPT !.basis = IdsOf(events),
                          !.print = <<IdsOf(events), e>>,
                          !.supersedes = IF prior = None THEN None ELSE IdOf[prior]])
  BY DEF GenerateReport
<1> DEFINE o == [Blank EXCEPT !.basis = IdsOf(events),
                   !.print = <<IdsOf(events), e>>,
                   !.supersedes = IF prior = None THEN None ELSE IdOf[prior]]
<1>2. IdsOf(events) \in SUBSET Ids
  BY SomeType, IdsType
<1>3. <<IdsOf(events), e>> \in Prints
  BY <1>2 DEF Prints
<1>4. (IF prior = None THEN None ELSE IdOf[prior]) \in Ids \cup {None}
  BY OfTypeType, ValidationConstants DEF IInv
<1>5. o \in Objects
  BY <1>2, <1>3, <1>4, BlankType DEF Blank, Objects
<1>6. o.review = "pending" /\ o.supersededBy = None /\ o.status = "draft"
  BY DEF Blank
<1>7. MayStart(s)
  BY DEF GenerateReport
<1> HIDE DEF o
<1>8. OfferNew(s, f, o)
  BY <1>1 DEF o
<1>9. Founded("report", o)
  <2>1. \A g \in events : g \in OfType(repo, "event") /\ repo[g].review = "reviewed"
    BY <1>1 DEF Some
  <2>2. \A id \in o.basis : \E g \in OfType(repo, "event") : IdOf[g] = id /\ repo[g].review = "reviewed"
    BY <2>1 DEF o, IdsOf, Blank
  <2>3. o.supersedes # None => \E g \in OfType(repo, "report") : IdOf[g] = o.supersedes
    BY <1>1 DEF o, Blank
  <2>4. o.subject = None
    BY DEF o, Blank
  <2> QED BY <2>2, <2>3, <2>4 DEF Founded, BasisType
<1> QED BY <1>9, <1>5, <1>6, <1>7, <1>8, NewOffer

(***************************************************************************)
(* Changes of one file.                                                    *)
(***************************************************************************)
SameButStatus(o, n) ==
  /\ n.review = o.review /\ n.basis = o.basis /\ n.subject = o.subject /\ n.print = o.print
  /\ n.supersedes = o.supersedes /\ n.supersededBy = o.supersededBy /\ n.ready = o.ready

LEMMA ChangeOffer ==
  ASSUME NEW s, TypeOK, NEW t, NEW f \in OfType(repo, t), NEW st, MayStart(s),
         LET o == [repo[f] EXCEPT !.status = st]
         IN  /\ o \in Objects /\ OfferStatus(s, f, st) /\ Sound(f, o) /\ LegalMove(t, repo[f], o)
             /\ QuietAt(f, repo[f], o),
         t # "report"
  PROVE  Offered(s)
<1> DEFINE o == [repo[f] EXCEPT !.status = st]
<1>1. f \in Files /\ TypeOf[f] = t /\ f \in Existing(repo) /\ repo[f] \in Objects /\ repo[f] # Absent
  BY OfTypeType
<1>2. SameButStatus(repo[f], o)
  BY <1>1 DEF SameButStatus, Objects
<1>3. Stands(repo, f)
  BY <1>1, ValidStands DEF MayStart
<1>4. ASSUME NEW q, Grows(repo, q), q[f] = o PROVE Stands(q, f)
  <2> HIDE DEF o
  <2> QED BY <1>1, <1>2, <1>3, <1>4, StandsOn DEF Needy, SameButStatus
<1>5. Keeps(f, repo[f], o) /\ o.supersededBy = Successor(repo[f])
  <2> HIDE DEF o
  <2> QED BY <1>1, <1>2 DEF Keeps, Successor, LegalMove, SameButStatus, o
<1>6. Good([g \in {f} |-> o])
  <2> HIDE DEF o
  <2>1. o \in Objects /\ Sound(f, o) /\ LegalMove(t, repo[f], o) /\ QuietAt(f, repo[f], o)
    BY DEF o
  <2> QED BY <1>1, <1>4, <1>5, <2>1, OneGood
<1>7. {"status"} \in SUBSET Fields
  BY DEF Fields
<1> QED BY <1>6, <1>7, OfferedOne DEF OfferStatus

\* A move of the status alone is legal if the table of its type has it.
LEMMA StatusMove ==
  ASSUME NEW t, NEW o \in Objects, NEW st \in Statuses, <<o.status, st>> \in StatusMoves(t)
  PROVE  /\ [o EXCEPT !.status = st] \in Objects
         /\ LegalMove(t, o, [o EXCEPT !.status = st])
<1>1. [o EXCEPT !.status = st] \in Objects
  BY DEF Objects
<1>2. [o EXCEPT !.status = st] # Absent
  BY <1>1, AbsentIsNoObject
<1> DEFINE n == [o EXCEPT !.status = st]
<1>3. /\ n.status = st /\ n.review = o.review /\ n.basis = o.basis /\ n.subject = o.subject
      /\ n.print = o.print /\ n.ready = o.ready /\ n.supersededBy = o.supersededBy
  BY DEF Objects
<1>4. LegalMove(t, o, n)
  <2> HIDE DEF n
  <2> QED BY <1>1, <1>2, <1>3 DEF LegalMove, MayMove, n
<1> QED BY <1>1, <1>4

LEMMA CloseAction_ ==
  ASSUME IInv, NEW s \in Sessions, CloseAction(s) PROVE Offered(s)
<1>1. PICK f \in OfType(repo, "action") :
        /\ repo[f].status = "open"
        /\ OfferStatus(s, f, "done")
  BY DEF CloseAction
<1>2. repo[f] \in Objects /\ TypeOf[f] = "action"
  BY OfTypeType DEF IInv
<1>3. <<repo[f].status, "done">> \in StatusMoves("action") /\ "done" \in Statuses
  BY <1>1 DEF StatusMoves, Statuses, MayOpen, MayActivate
<1>4. /\ [repo[f] EXCEPT !.status = "done"] \in Objects
      /\ LegalMove("action", repo[f], [repo[f] EXCEPT !.status = "done"])
  BY <1>2, <1>3, StatusMove
<1>5. Sound(f, [repo[f] EXCEPT !.status = "done"])
  BY <1>1, <1>2 DEF Sound, Valued, OwnRules, ReportRule, ForecastRule, PostureRule, Objects,
                    MayOpen, MayActivate
<1>6. MayStart(s)
  BY DEF CloseAction
<1>7. QuietAt(f, repo[f], [repo[f] EXCEPT !.status = "done"])
  BY <1>2 DEF QuietAt, Closed, Objects
<1> QED BY <1>1, <1>4, <1>5, <1>6, <1>7, ChangeOffer DEF IInv

LEMMA OpenForecast_ ==
  ASSUME IInv, NEW s \in Sessions, OpenForecast(s) PROVE Offered(s)
<1>1. PICK f \in OfType(repo, "forecast") :
        /\ MayOpen(repo[f])
        /\ OfferStatus(s, f, "open")
  BY DEF OpenForecast
<1>2. repo[f] \in Objects /\ TypeOf[f] = "forecast"
  BY OfTypeType DEF IInv
<1>3. <<repo[f].status, "open">> \in StatusMoves("forecast") /\ "open" \in Statuses
  BY <1>1 DEF StatusMoves, Statuses, MayOpen, MayActivate
<1>4. /\ [repo[f] EXCEPT !.status = "open"] \in Objects
      /\ LegalMove("forecast", repo[f], [repo[f] EXCEPT !.status = "open"])
  BY <1>2, <1>3, StatusMove
<1>5. Sound(f, [repo[f] EXCEPT !.status = "open"])
  BY <1>1, <1>2 DEF Sound, Valued, OwnRules, ReportRule, ForecastRule, PostureRule, Objects,
                    MayOpen, MayActivate
<1>6. MayStart(s)
  BY DEF OpenForecast
<1>7. QuietAt(f, repo[f], [repo[f] EXCEPT !.status = "open"])
  BY <1>2 DEF QuietAt, Closed, Objects
<1> QED BY <1>1, <1>4, <1>5, <1>6, <1>7, ChangeOffer DEF IInv

LEMMA ActivateRecommendation_ ==
  ASSUME IInv, NEW s \in Sessions, ActivateRecommendation(s) PROVE Offered(s)
<1>1. PICK f \in OfType(repo, "recommendation") :
        /\ MayActivate(repo[f])
        /\ OfferStatus(s, f, "active")
  BY DEF ActivateRecommendation
<1>2. repo[f] \in Objects /\ TypeOf[f] = "recommendation"
  BY OfTypeType DEF IInv
<1>3. <<repo[f].status, "active">> \in StatusMoves("recommendation") /\ "active" \in Statuses
  BY <1>1 DEF StatusMoves, Statuses, MayOpen, MayActivate
<1>4. /\ [repo[f] EXCEPT !.status = "active"] \in Objects
      /\ LegalMove("recommendation", repo[f], [repo[f] EXCEPT !.status = "active"])
  BY <1>2, <1>3, StatusMove
<1>8. Sound(f, repo[f])
  BY OfTypeType, StartSound DEF IInv, ActivateRecommendation, MayStart
<1>5. Sound(f, [repo[f] EXCEPT !.status = "active"])
  BY <1>1, <1>2, <1>8 DEF Sound, Valued, OwnRules, ReportRule, ForecastRule, PostureRule, Objects,
                    MayOpen, MayActivate
<1>6. MayStart(s)
  BY DEF ActivateRecommendation
<1>7. QuietAt(f, repo[f], [repo[f] EXCEPT !.status = "active"])
  BY <1>2 DEF QuietAt, Closed, Objects
<1> QED BY <1>1, <1>4, <1>5, <1>6, <1>7, ChangeOffer DEF IInv

LEMMA CloseRecommendation_ ==
  ASSUME IInv, NEW s \in Sessions, CloseRecommendation(s) PROVE Offered(s)
<1>1. PICK f \in OfType(repo, "recommendation") :
        /\ repo[f].status = "active"
        /\ OfferStatus(s, f, "closed")
  BY DEF CloseRecommendation
<1>2. repo[f] \in Objects /\ TypeOf[f] = "recommendation"
  BY OfTypeType DEF IInv
<1>3. <<repo[f].status, "closed">> \in StatusMoves("recommendation") /\ "closed" \in Statuses
  BY <1>1 DEF StatusMoves, Statuses, MayOpen, MayActivate
<1>4. /\ [repo[f] EXCEPT !.status = "closed"] \in Objects
      /\ LegalMove("recommendation", repo[f], [repo[f] EXCEPT !.status = "closed"])
  BY <1>2, <1>3, StatusMove
<1>8. Sound(f, repo[f])
  BY OfTypeType, StartSound DEF IInv, CloseRecommendation, MayStart
<1>5. Sound(f, [repo[f] EXCEPT !.status = "closed"])
  BY <1>1, <1>2, <1>8 DEF Sound, Valued, OwnRules, ReportRule, ForecastRule, PostureRule, Objects,
                    MayOpen, MayActivate
<1>6. MayStart(s)
  BY DEF CloseRecommendation
<1>7. QuietAt(f, repo[f], [repo[f] EXCEPT !.status = "closed"])
  BY <1>2 DEF QuietAt, Closed, Objects
<1> QED BY <1>1, <1>4, <1>5, <1>6, <1>7, ChangeOffer DEF IInv

(***************************************************************************)
(* Offers of several files.                                                *)
(***************************************************************************)
LEMMA OfferedMany ==
  ASSUME NEW s, NEW w, NEW k \in [DOMAIN w -> SUBSET Fields], MayStart(s), Offer(s, w, k), Good(w)
  PROVE  Offered(s)
BY DEF Offered, MayStart

SameButReady(o, n) ==
  /\ n.review = o.review /\ n.basis = o.basis /\ n.subject = o.subject /\ n.print = o.print
  /\ n.supersedes = o.supersedes /\ n.supersededBy = o.supersededBy /\ (o.ready => n.ready)

\* Marking a Source as extracted leaves the rest of it alone.
LEMMA MarkReady ==
  ASSUME NEW f \in Files, NEW o \in Objects, Sound(f, o)
  PROVE  /\ [o EXCEPT !.ready = TRUE] \in Objects
         /\ Sound(f, [o EXCEPT !.ready = TRUE])
         /\ LegalMove(TypeOf[f], o, [o EXCEPT !.ready = TRUE])
         /\ SameButReady(o, [o EXCEPT !.ready = TRUE]) /\ [o EXCEPT !.ready = TRUE].ready
<1> DEFINE n == [o EXCEPT !.ready = TRUE]
<1>1. n \in Objects
  BY DEF Objects
<1>2. /\ n.status = o.status /\ n.review = o.review /\ n.basis = o.basis /\ n.ready
      /\ n.subject = o.subject /\ n.print = o.print /\ n.supersededBy = o.supersededBy
      /\ n.supersedes = o.supersedes
  BY DEF Objects
<1> HIDE DEF n
<1>3. n # Absent
  BY <1>1, AbsentIsNoObject
<1>4. LegalMove(TypeOf[f], o, n)
  BY <1>2, <1>3 DEF LegalMove, MayMove
<1>5. Sound(f, n)
  BY <1>2 DEF Sound, Valued, OwnRules, ReportRule, ForecastRule, PostureRule
<1>6. SameButReady(o, n) /\ n.ready
  BY <1>2 DEF SameButReady
<1> QED BY <1>1, <1>4, <1>5, <1>6 DEF n

LEMMA EventGood ==
  ASSUME IInv, Valid(repo), NEW f \in New(repo, "event"),
         NEW sources \in Some(OfType(repo, "source")), NEW print \in Prints \cup {None}
  PROVE  Good(EventWrites(repo, f, sources, print))
<1> DEFINE cited == {h \in sources : ~repo[h].ready}
           o == [Blank EXCEPT !.status = "active", !.basis = IdsOf(sources), !.print = print]
           w == EventWrites(repo, f, sources, print)
<1>1. f \in Files /\ TypeOf[f] = "event" /\ repo[f] = Absent
  BY NewType
<1>2. \A g \in cited : g \in OfType(repo, "source")
  BY DEF Some
<1>3. \A g \in cited : g \in Files /\ repo[g] \in Objects /\ Sound(g, repo[g]) /\ g # f
  BY <1>1, <1>2, OfTypeType, StartSound DEF IInv
<1>4. o \in Objects
  <2>1. IdsOf(sources) \in SUBSET Ids
    BY SomeType, IdsType
  <2> QED BY <2>1, BlankType DEF Blank, Objects, Statuses
<1>5. Sound(f, o)
  <2>1. o.review = "pending" /\ o.supersededBy = None
    BY DEF Blank
  <2> QED BY <1>1, <1>4, <2>1, NewSound DEF Guarded
<1>10. /\ o.review = "pending" /\ o.supersededBy = None /\ o.basis = IdsOf(sources)
       /\ o.supersedes = None /\ o.subject = None
  BY DEF Blank
<1>11. \A g \in sources : g \in OfType(repo, "source") /\ (g \notin cited => repo[g].ready)
  BY DEF Some
<1>6. /\ DOMAIN w = {f} \cup cited
      /\ w[f] = o
      /\ \A g \in cited : w[g] = [repo[g] EXCEPT !.ready = TRUE]
      /\ w = [g \in DOMAIN w |-> w[g]]
  BY <1>3 DEF EventWrites
<1>7. \A g \in DOMAIN w : w[g] \in Objects /\ Sound(g, w[g])
                          /\ (repo[g] # Absent => LegalMove(TypeOf[g], repo[g], w[g]))
                          /\ QuietAt(g, repo[g], w[g])
  <2> TAKE g \in DOMAIN w
  <2>1. CASE g = f
    BY <2>1, <1>1, <1>4, <1>5, <1>6 DEF QuietAt
  <2>2. CASE g \in cited
    <3>1. g \in Files /\ repo[g] \in Objects /\ Sound(g, repo[g])
      BY <2>2, <1>3
    <3>2. w[g] = [repo[g] EXCEPT !.ready = TRUE]
      BY <2>2, <1>6
    <3>3. TypeOf[g] = "source"
      BY <2>2, <1>2, OfTypeType DEF IInv
    <3>4. QuietAt(g, repo[g], w[g])
      BY <3>3 DEF QuietAt
    <3> HIDE DEF w, cited
    <3> QED BY <3>1, <3>2, <3>4, MarkReady
  <2> QED BY <2>1, <2>2, <1>6
<1> HIDE DEF w, cited, o
<1>8. w \in [DOMAIN w -> Objects]
  BY <1>6, <1>7
<1>9. DOMAIN w \subseteq Files
  BY <1>1, <1>3, <1>6
<1> DEFINE q == Overlay(repo, w)
<1>12. \A g \in cited : /\ w[g] \in Objects /\ w[g].ready /\ SameButReady(repo[g], w[g])
  <2> TAKE g \in cited
  <2>1. g \in Files /\ repo[g] \in Objects /\ Sound(g, repo[g])
    BY <1>3
  <2>2. w[g] = [repo[g] EXCEPT !.ready = TRUE]
    BY <1>6
  <2> QED BY <2>1, <2>2, MarkReady
<1>13. KeepsRead(repo, w)
  <2> SUFFICES ASSUME NEW g \in cited PROVE Keeps(g, repo[g], w[g])
    BY <1>1, <1>6 DEF KeepsRead
  <2> QED BY <1>12, AbsentIsNoObject DEF Keeps, SameButReady
<1>14. Grows(repo, q)
  BY <1>9, <1>13, GrowsOver DEF IInv
<1>15. \A g \in DOMAIN w : q[g] = w[g]
  BY <1>9 DEF Overlay
<1>19. \A g \in sources : q[g].ready
  BY <1>6, <1>9, <1>11, <1>12, <1>15, <1>14, OfTypeType DEF Grows, Keeps, IInv
<1> HIDE DEF q
<1>16. Stands(q, f)
  <2>1. q[f] = o
    BY <1>6, <1>15
  <2>2. Extracted(q, f)
    <3>1. \A g \in sources : g \in Holders(q, IdOf[g])
      BY <1>11, <1>14, HoldersStay DEF OfType, Holders
    <3> QED BY <2>1, <3>1, <1>10, <1>19 DEF Extracted, IdsOf
  <2>3. Founded("event", o)
    BY <1>10, CitedFounds DEF Founded, BasisType
  <2> QED BY <1>1, <1>10, <1>14, <2>1, <2>2, <2>3, NewStands
<1>17. ASSUME NEW g \in cited PROVE Stands(q, g)
  <2>1. g \in Existing(repo) /\ g \in Files /\ TypeOf[g] = "source" /\ g \in DOMAIN w
    BY <1>2, <1>6, OfTypeType DEF IInv
  <2>2. Stands(repo, g) /\ SameButReady(repo[g], q[g])
    BY <2>1, <1>12, <1>15, ValidStands
  <2> QED BY <2>1, <2>2, <1>14, StandsOn DEF SameButReady, Needy
<1>18. Linked(repo, w)
  BY <1>1, <1>2, <1>6, OfTypeType DEF Linked, Chained, IInv
<1> QED BY <1>6, <1>7, <1>8, <1>9, <1>13, <1>16, <1>17, <1>18
        DEF Good, Fit, Answering, LegalWrites, Standing, q, w

LEMMA OfferedEvent ==
  ASSUME IInv, NEW s, MayStart(s), NEW f \in New(repo, "event"),
         NEW sources \in Some(OfType(repo, "source")), NEW print \in Prints \cup {None},
         OfferEvent(s, f, sources, print)
  PROVE  Offered(s)
<1> DEFINE w == EventWrites(repo, f, sources, print)
<1>1. Good(w)
  BY EventGood DEF MayStart
<1>2. Offer(s, w, [g \in DOMAIN w |-> {"ready"}])
  BY DEF OfferEvent
<1> HIDE DEF w
<1>3. [g \in DOMAIN w |-> {"ready"}] \in [DOMAIN w -> SUBSET Fields]
  BY DEF Fields
<1> QED BY <1>1, <1>2, <1>3, OfferedMany

LEMMA DraftEvent_ ==
  ASSUME IInv, NEW s \in Sessions, DraftEvent(s) PROVE Offered(s)
<1>1. PICK f \in New(repo, "event"), sources \in Some(OfType(repo, "source")) :
        OfferEvent(s, f, sources, None)
  BY DEF DraftEvent
<1>2. MayStart(s)
  BY DEF DraftEvent
<1> QED BY <1>1, <1>2, OfferedEvent

LEMMA GenerateEvent_ ==
  ASSUME IInv, NEW s \in Sessions, GenerateEvent(s) PROVE Offered(s)
<1>1. PICK f \in New(repo, "event"), sources \in Some(OfType(repo, "source")), e \in Editions :
        OfferEvent(s, f, sources, <<IdsOf(sources), e>>)
  BY DEF GenerateEvent
<1>2. <<IdsOf(sources), e>> \in Prints
  BY SomeType, IdsType DEF Prints
<1>3. MayStart(s)
  BY DEF GenerateEvent
<1> QED BY <1>1, <1>2, <1>3, OfferedEvent

\* Two files that each get good content.
LEMMA TwoFit ==
  ASSUME NEW f \in Files, NEW g \in Files, f # g, NEW a \in Objects, NEW b \in Objects,
         Sound(f, a), Sound(g, b),
         repo[f] # Absent => LegalMove(TypeOf[f], repo[f], a),
         repo[g] # Absent => LegalMove(TypeOf[g], repo[g], b),
         NEW w, w = [h \in {f, g} |-> w[h]], w[f] = a, w[g] = b
  PROVE  Fit(w)
<1>1. DOMAIN w = {f, g}
  OBVIOUS
<1>2. w \in [DOMAIN w -> Objects]
  BY <1>1
<1>3. \A h \in DOMAIN w : Sound(h, w[h]) /\ (repo[h] # Absent => LegalMove(TypeOf[h], repo[h], w[h]))
  BY <1>1
<1> QED BY <1>1, <1>2, <1>3 DEF Fit, LegalWrites

LEMMA ResolveForecast_ ==
  ASSUME IInv, NEW s \in Sessions, ResolveForecast(s) PROVE Offered(s)
<1>1. PICK f \in OfType(repo, "forecast"), g \in New(repo, "resolution"),
           sources \in Some(OfType(repo, "source")), end \in {"resolved", "void"} :
       /\ MayResolve(repo[f])
       /\ Offer(s, [h \in {f, g} |->
                      IF h = g THEN [Blank EXCEPT !.status = "applied", !.subject = IdOf[f],
                                                  !.basis = IdsOf(sources)]
                      ELSE [repo[f] EXCEPT !.status = end]],
                   [h \in {f, g} |-> {"status"}])
  BY DEF ResolveForecast
<1> DEFINE o == [Blank EXCEPT !.status = "applied", !.subject = IdOf[f], !.basis = IdsOf(sources)]
           n == [repo[f] EXCEPT !.status = end]
           w == [h \in {f, g} |-> IF h = g THEN o ELSE n]
<1>2. f \in Files /\ repo[f] \in Objects /\ TypeOf[f] = "forecast" /\ repo[f] # Absent
  BY OfTypeType DEF IInv
<1>3. g \in Files /\ TypeOf[g] = "resolution" /\ repo[g] = Absent /\ g # f
  BY <1>2, NewType
<1>4. o \in Objects
  <2>1. IdsOf(sources) \in SUBSET Ids
    BY SomeType, IdsType
  <2>2. IdOf[f] \in Ids
    BY <1>2, ValidationConstants
  <2> QED BY <2>1, <2>2, BlankType DEF Blank, Objects, Statuses
<1>5. Sound(g, o)
  <2>1. o.review = "pending" /\ o.supersededBy = None
    BY DEF Blank
  <2> QED BY <1>3, <1>4, <2>1, NewSound DEF Guarded
<1>6. <<repo[f].status, end>> \in StatusMoves("forecast") /\ end \in Statuses
  BY <1>1 DEF StatusMoves, Statuses, MayResolve
<1>7. n \in Objects /\ LegalMove("forecast", repo[f], n)
  BY <1>2, <1>6, StatusMove
<1>8. Sound(f, n)
  BY <1>1, <1>2 DEF Sound, Valued, OwnRules, ReportRule, ForecastRule, PostureRule, Objects
<1>9. MayStart(s)
  BY DEF ResolveForecast
<1>10. w = [h \in {f, g} |-> w[h]] /\ w[g] = o /\ w[f] = n
  BY <1>3
<1>16. o.subject = IdOf[f] /\ Closed(n)
  BY <1>2 DEF Blank, Closed, Objects
<1>11. Offer(s, w, [h \in {f, g} |-> {"status"}])
  BY <1>1
<1>17. /\ o.review = "pending" /\ o.supersededBy = None /\ o.basis = IdsOf(sources)
       /\ o.supersedes = None
  BY DEF Blank
<1>18. SameButStatus(repo[f], n)
  BY <1>2 DEF SameButStatus, Objects
<1> HIDE DEF o, n, w
<1>12. Fit(w)
  BY <1>2, <1>3, <1>4, <1>5, <1>7, <1>8, <1>10, TwoFit
<1>13. DOMAIN w = {f, g}
  BY <1>10
<1>14. Closing(repo, w)
  BY <1>1, <1>2, <1>3, <1>10, <1>16, <1>13 DEF Closing, MayResolve
<1> DEFINE q == Overlay(repo, w)
<1>19. KeepsRead(repo, w)
  <2>1. Keeps(f, repo[f], n)
    BY <1>7, <1>18, AbsentIsNoObject DEF Keeps, SameButStatus
  <2> QED BY <2>1, <1>3, <1>10, <1>13 DEF KeepsRead
<1>20. Grows(repo, q) /\ q[f] = n /\ q[g] = o
  BY <1>2, <1>3, <1>10, <1>13, <1>19, GrowsOver DEF IInv, Overlay
<1> HIDE DEF q
<1>21. Stands(q, f)
  <2>1. f \in Existing(repo)
    BY <1>2 DEF Existing
  <2>2. Stands(repo, f)
    BY <2>1, <1>9, ValidStands DEF MayStart
  <2> QED BY <2>1, <2>2, <1>2, <1>18, <1>20, StandsOn DEF SameButStatus, Needy
<1>22. Stands(q, g)
  <2>1. Holders(repo, IdOf[f]) # {}
    BY <1>2 DEF Holders, Existing
  <2>2. Founded("resolution", o)
    BY <2>1, <1>16, <1>17, CitedFounds DEF Founded, BasisType
  <2> QED BY <2>2, <1>3, <1>17, <1>20, NewStands DEF Extracted
<1>23. Linked(repo, w)
  BY <1>2, <1>3, <1>13 DEF Linked, Chained
<1>15. Good(w)
  BY <1>12, <1>13, <1>14, <1>19, <1>21, <1>22, <1>23 DEF Good, Answering, Standing, q
<1>24. [h \in {f, g} |-> {"status"}] \in [DOMAIN w -> SUBSET Fields]
  BY <1>13 DEF Fields
<1> QED BY <1>9, <1>11, <1>15, <1>24, OfferedMany

\* Both ends of a link keep to their rules, and the old one may be superseded.
LEMMA LinkGood ==
  ASSUME IInv, Valid(repo), NEW t \in {"recommendation", "valuation"},
         NEW old \in OfType(repo, t), NEW new \in OfType(repo, t), IdOf[old] # IdOf[new],
         repo[old].supersededBy = None,
         clobbered = {} /\ t = "recommendation" => repo[new].supersededBy = None,
         repo[old].status = "superseded" \/ <<repo[old].status, "superseded">> \in StatusMoves(t)
  PROVE  Good(Link(repo, old, new))
<1> DEFINE a == [repo[old] EXCEPT !.status = "superseded", !.supersededBy = IdOf[new]]
           b == [repo[new] EXCEPT !.supersedes = IdOf[old]]
           w == Link(repo, old, new)
<1>1. /\ old \in Files /\ repo[old] \in Objects /\ TypeOf[old] = t /\ repo[old] # Absent
      /\ new \in Files /\ repo[new] \in Objects /\ TypeOf[new] = t /\ repo[new] # Absent
      /\ Sound(old, repo[old]) /\ Sound(new, repo[new]) /\ old # new
  BY OfTypeType, StartSound DEF IInv
<1>2. IdOf[old] \in Ids /\ IdOf[new] \in Ids
  BY <1>1, ValidationConstants
<1>3. /\ a \in Objects
      /\ a.status = "superseded" /\ a.review = repo[old].review /\ a.basis = repo[old].basis
      /\ a.subject = repo[old].subject /\ a.print = repo[old].print /\ a.ready = repo[old].ready
      /\ a.supersededBy = IdOf[new] /\ a.supersedes = repo[old].supersedes
  BY <1>1, <1>2 DEF Objects, Statuses
<1>4. /\ b \in Objects
      /\ b.status = repo[new].status /\ b.review = repo[new].review /\ b.basis = repo[new].basis
      /\ b.subject = repo[new].subject /\ b.print = repo[new].print /\ b.ready = repo[new].ready
      /\ b.supersededBy = repo[new].supersededBy /\ b.supersedes = IdOf[old]
  BY <1>1, <1>2 DEF Objects
<1>5. w = [h \in {old, new} |-> w[h]] /\ w[old] = a /\ w[new] = b
  BY <1>1 DEF Link
<1> HIDE DEF a, b, w
<1>6. a # Absent /\ b # Absent
  BY <1>3, <1>4, AbsentIsNoObject
<1>7. LegalMove(TypeOf[old], repo[old], a)
  BY <1>1, <1>3, <1>6 DEF LegalMove, MayMove
<1>8. LegalMove(TypeOf[new], repo[new], b)
  BY <1>4, <1>6 DEF LegalMove, MayMove
<1>9. Sound(old, a)
  BY <1>1, <1>3 DEF Sound, Valued, OwnRules, ReportRule, ForecastRule, PostureRule
<1>10. Sound(new, b)
  BY <1>1, <1>4 DEF Sound, Valued, OwnRules, ReportRule, ForecastRule, PostureRule
<1>11. Fit(w)
  BY <1>1, <1>3, <1>4, <1>5, <1>7, <1>8, <1>9, <1>10, TwoFit
<1>12. \A f \in DOMAIN w : QuietAt(f, repo[f], w[f])
  BY <1>1, <1>5 DEF QuietAt
<1> DEFINE q == Overlay(repo, w)
<1>13. DOMAIN w = {old, new}
  BY <1>5
<1>14. KeepsRead(repo, w)
  <2>1. Keeps(old, repo[old], a)
    BY <1>1, <1>3, <1>6 DEF Keeps
  <2>2. Keeps(new, repo[new], b)
    BY <1>1, <1>4, <1>6 DEF Keeps
  <2> QED BY <2>1, <2>2, <1>5, <1>13 DEF KeepsRead
<1>15. Grows(repo, q) /\ q[old] = a /\ q[new] = b
  BY <1>1, <1>5, <1>13, <1>14, GrowsOver DEF IInv, Overlay
<1>16. /\ old \in Existing(repo) /\ Stands(repo, old) /\ new \in Holders(q, IdOf[new])
       /\ new \in Existing(repo) /\ Stands(repo, new) /\ old \in Holders(q, IdOf[old])
  BY <1>1, <1>6, <1>15, ValidStands DEF Existing, Holders
<1> HIDE DEF q
<1>17. Stands(q, old)
  <2>1. Referring(q, old)
    BY <1>1, <1>3, <1>15, <1>16, HoldersStay DEF Stands, Referring, ReferenceRule
  <2> QED BY <2>1, <1>1 DEF Stands, Backed, Needy, Extracted, ReportPairRule
<1>18. Stands(q, new)
  <2>1. Referring(q, new)
    BY <1>1, <1>4, <1>15, <1>16, HoldersStay DEF Stands, Referring, ReferenceRule
  <2> QED BY <2>1, <1>1 DEF Stands, Backed, Needy, Extracted, ReportPairRule
<1>19. clobbered = {} => Linked(repo, w)
  BY <1>1, <1>3, <1>4, <1>5, <1>13 DEF Linked, Chained, Successor
<1> QED BY <1>11, <1>12, <1>13, <1>14, <1>17, <1>18, <1>19 DEF Good, Answering, Standing, q, w

LEMMA OfferedLink ==
  ASSUME NEW s, NEW old, NEW new, MayStart(s), Good(Link(repo, old, new)),
         Offer(s, Link(repo, old, new), LinkSets(old, new))
  PROVE  Offered(s)
<1>1. LinkSets(old, new) \in [DOMAIN Link(repo, old, new) -> SUBSET Fields]
  BY DEF LinkSets, Link, Fields
<1> QED BY <1>1, OfferedMany

LEMMA SupersedeRecommendation_ ==
  ASSUME IInv, NEW s \in Sessions, SupersedeRecommendation(s) PROVE Offered(s)
<1>1. PICK old \in OfType(repo, "recommendation"), new \in OfType(repo, "recommendation") :
        /\ IdOf[old] # IdOf[new] /\ MayReplace(repo[old], repo[new])
        /\ Offer(s, Link(repo, old, new), LinkSets(old, new))
  BY DEF SupersedeRecommendation
<1>2. <<repo[old].status, "superseded">> \in StatusMoves("recommendation")
  BY <1>1 DEF MayReplace, StatusMoves
<1>4. clobbered = {} => repo[new].supersededBy = None
  BY <1>1, OfTypeType DEF IInv, AllEnded, Ended, MayReplace
<1>3. Good(Link(repo, old, new))
  BY <1>1, <1>2, <1>4, LinkGood DEF MayReplace, SupersedeRecommendation, MayStart
<1> QED BY <1>1, <1>3, OfferedLink DEF SupersedeRecommendation

LEMMA SupersedeValuation_ ==
  ASSUME IInv, NEW s \in Sessions, SupersedeValuation(s) PROVE Offered(s)
<1>1. PICK old \in OfType(repo, "valuation"), new \in OfType(repo, "valuation") :
        /\ IdOf[old] # IdOf[new] /\ repo[old].supersededBy = None
        /\ Offer(s, Link(repo, old, new), LinkSets(old, new))
  BY DEF SupersedeValuation
<1>2. repo[old].status = "superseded"
      \/ <<repo[old].status, "superseded">> \in StatusMoves("valuation")
  BY OfTypeType DEF IInv, AllSound, Valued, StatusMoves
<1>3. Good(Link(repo, old, new))
  BY <1>1, <1>2, LinkGood DEF SupersedeValuation, MayStart
<1> QED BY <1>1, <1>3, OfferedLink DEF SupersedeValuation

(***************************************************************************)
(* Review.                                                                 *)
(***************************************************************************)
SameLinks(o, n) ==
  /\ n.basis = o.basis /\ n.subject = o.subject /\ n.print = o.print /\ n.ready = o.ready
  /\ n.supersedes = o.supersedes

LEMMA DecidedGood ==
  ASSUME NEW f \in Files, NEW o \in Objects, Sound(f, o), NEW decision \in DOMAIN Verdict,
         MayMove(o.review, Verdict[decision]),
         decision = "approve" /\ TypeOf[f] = "report" => o.status = "draft"
  PROVE  /\ Decided(f, o, decision) \in Objects
         /\ Sound(f, Decided(f, o, decision))
         /\ LegalMove(TypeOf[f], o, Decided(f, o, decision))
         /\ SameLinks(o, Decided(f, o, decision))
         /\ Decided(f, o, decision).supersededBy = o.supersededBy
         /\ o.review = "reviewed" => decision = "approve"
         /\ Decided(f, o, decision).review = "reviewed" <=> decision = "approve"
<1> DEFINE n == Decided(f, o, decision)
           final == TypeOf[f] = "report" /\ decision = "approve"
<1>1. decision \in {"approve", "edit", "reject"}
  BY DEF Verdict
<1>2. /\ Verdict[decision] \in {"pending", "reviewed", "rejected"}
      /\ Verdict[decision] = "reviewed" <=> decision = "approve"
      /\ o.review = "reviewed" => decision = "approve"
      /\ o.review # "superseded"
  BY <1>1 DEF Verdict, MayMove, ReviewMoves
<1>3. /\ n \in Objects
      /\ n.review = Verdict[decision] /\ n.basis = o.basis /\ n.subject = o.subject
      /\ n.print = o.print /\ n.ready = o.ready /\ n.supersededBy = o.supersededBy
      /\ n.supersedes = o.supersedes
      /\ final => n.status = "final"
      /\ ~final => n.status = o.status
  BY <1>2 DEF Decided, Objects, ReviewStatuses, Statuses
<1> HIDE DEF n
<1>4. n # Absent
  BY <1>3, AbsentIsNoObject
<1>5. Sound(f, n)
  BY <1>2, <1>3 DEF Sound, Valued, OwnRules, ReportRule, ForecastRule, PostureRule
<1>6. o.status = n.status \/ <<o.status, n.status>> \in StatusMoves(TypeOf[f])
  BY <1>3 DEF StatusMoves
<1>7. LegalMove(TypeOf[f], o, n)
  BY <1>3, <1>4, <1>6 DEF LegalMove
<1>8. SameLinks(o, n)
  BY <1>3 DEF SameLinks
<1> QED BY <1>2, <1>3, <1>5, <1>7, <1>8 DEF n

LEMMA RetiredGood ==
  ASSUME NEW f \in Files, NEW o \in Objects, Sound(f, o), TypeOf[f] = "report",
         o.status = "final", MayMove(o.review, "superseded"), NEW id \in Ids
  PROVE  /\ Retired(o, id) \in Objects
         /\ Sound(f, Retired(o, id))
         /\ LegalMove(TypeOf[f], o, Retired(o, id))
         /\ SameLinks(o, Retired(o, id)) /\ Retired(o, id).supersededBy = id
         /\ Retired(o, id).review = "superseded" /\ o.supersededBy = None
         /\ Retired(o, id).status = "superseded"
<1> DEFINE n == Retired(o, id)
<1>1. /\ n \in Objects
      /\ n.status = "superseded" /\ n.review = "superseded" /\ n.supersededBy = id
      /\ n.basis = o.basis /\ n.subject = o.subject /\ n.print = o.print /\ n.ready = o.ready
      /\ n.supersedes = o.supersedes
  BY DEF Retired, Objects, ReviewStatuses, Statuses
<1> HIDE DEF n
<1>2. n # Absent
  BY <1>1, AbsentIsNoObject
<1>3. o.supersededBy = None
  BY DEF Sound, Valued, OwnRules, ReportRule
<1>4. Sound(f, n)
  BY <1>1, ValidationConstants DEF Sound, Valued, OwnRules, ReportRule, ForecastRule, PostureRule
<1>5. <<o.status, n.status>> \in StatusMoves(TypeOf[f])
  BY <1>1 DEF StatusMoves
<1>6. LegalMove(TypeOf[f], o, n)
  BY <1>1, <1>2, <1>3, <1>5 DEF LegalMove
<1>7. SameLinks(o, n)
  BY <1>1 DEF SameLinks
<1> QED BY <1>1, <1>3, <1>4, <1>6, <1>7 DEF n

LEMMA ReviewGood ==
  ASSUME IInv, Valid(repo), NEW targets \in SUBSET Existing(repo), NEW decision \in DOMAIN Verdict,
         NEW note \in New(repo, "review"),
         \A f \in targets : MayReview(repo, f, decision),
         decision = "approve" => MaySupersede(repo, targets)
  PROVE  Good(ReviewWrites(repo, targets, decision, note))
<1> DEFINE retired == IF decision = "approve" THEN UNION {Priors(repo, f) : f \in targets} ELSE {}
           w == ReviewWrites(repo, targets, decision, note)
           By(g) == CHOOSE f \in targets : g \in Priors(repo, f)
           o == [Blank EXCEPT !.status = "applied"]
<1>1. note \in Files /\ TypeOf[note] = "review" /\ repo[note] = Absent
  BY NewType
<1>2. \A g \in targets : g \in Files /\ repo[g] \in Objects /\ Sound(g, repo[g]) /\ g # note
  BY <1>1, ExistingType, StartSound DEF IInv
<1>3. \A g \in retired : \E f \in targets : g \in Priors(repo, f)
  OBVIOUS
<1>4. \A g \in retired : By(g) \in targets /\ IdOf[By(g)] \in Ids
  BY <1>2, <1>3, ValidationConstants
<1>5. \A g \in retired :
        /\ g \in Files /\ repo[g] \in Objects /\ Sound(g, repo[g]) /\ g # note /\ g \notin targets
        /\ TypeOf[g] = "report" /\ repo[g].status = "final"
        /\ MayMove(repo[g].review, "superseded")
  <2> TAKE g \in retired
  <2>1. PICK f \in targets : g \in Priors(repo, f)
    BY <1>3
  <2>2. g \in Existing(repo)
    BY <2>1 DEF Priors, Holders
  <2>3. decision = "approve"
    OBVIOUS
  <2>4. repo[g] \in Objects /\ Sound(g, repo[g])
    BY <2>2, ExistingType, StartSound DEF IInv
  <2> QED BY <2>1, <2>2, <2>3, <2>4, <1>1, ExistingType DEF MaySupersede, IInv
<1>6. o \in Objects /\ Sound(note, o)
  <2>1. o \in Objects /\ o.review = "pending" /\ o.supersededBy = None
    BY BlankType DEF Blank, Objects, Statuses
  <2> QED BY <1>1, <2>1, NewSound DEF Guarded
<1>7. /\ DOMAIN w = targets \cup retired \cup {note}
      /\ w[note] = o
      /\ \A g \in targets : w[g] = Decided(g, repo[g], decision)
      /\ \A g \in retired : w[g] = Retired(repo[g], IdOf[By(g)])
      /\ w = [g \in DOMAIN w |-> w[g]]
  <2>1. w = [g \in targets \cup retired \cup {note} |->
              IF g = note THEN o ELSE IF g \in targets THEN Decided(g, repo[g], decision)
              ELSE Retired(repo[g], IdOf[By(g)])]
    BY DEF ReviewWrites
  <2> HIDE DEF w, o, retired, By
  <2> QED BY <2>1, <1>2, <1>5
<1> HIDE DEF w, o, retired, By
<1>8. \A g \in DOMAIN w : /\ g \in Files /\ w[g] \in Objects /\ Sound(g, w[g])
                          /\ repo[g] # Absent => LegalMove(TypeOf[g], repo[g], w[g])
                          /\ QuietAt(g, repo[g], w[g])
  <2> TAKE g \in DOMAIN w
  <2>1. CASE g = note
    BY <2>1, <1>1, <1>6, <1>7 DEF QuietAt
  <2>2. CASE g \in targets
    <3>1. MayMove(repo[g].review, Verdict[decision])
          /\ (decision = "approve" /\ TypeOf[g] = "report" => repo[g].status = "draft")
      BY <2>2 DEF MayReview
    <3>2. QuietAt(g, repo[g], Decided(g, repo[g], decision))
      BY <2>2, <1>2, ExistingType DEF QuietAt, Closed, Decided, Objects, IInv
    <3> QED BY <2>2, <3>1, <3>2, <1>2, <1>7, DecidedGood
  <2>3. CASE g \in retired
    <3>1. QuietAt(g, repo[g], Retired(repo[g], IdOf[By(g)]))
      BY <2>3, <1>5 DEF QuietAt
    <3> QED BY <2>3, <3>1, <1>4, <1>5, <1>7, RetiredGood
  <2> QED BY <2>1, <2>2, <2>3, <1>7
<1>9. w \in [DOMAIN w -> Objects]
  BY <1>7, <1>8
<1>10. DOMAIN w \subseteq Files
  BY <1>8
<1>11. \A g \in targets : /\ SameLinks(repo[g], w[g])
                          /\ w[g].supersededBy = repo[g].supersededBy
                          /\ repo[g].review = "reviewed" => w[g].review = "reviewed"
                          /\ w[g].review = "reviewed" <=> decision = "approve"
  <2> TAKE g \in targets
  <2>1. MayMove(repo[g].review, Verdict[decision])
        /\ (decision = "approve" /\ TypeOf[g] = "report" => repo[g].status = "draft")
    BY DEF MayReview
  <2>2. w[g] = Decided(g, repo[g], decision) /\ g \in Files /\ repo[g] \in Objects
        /\ Sound(g, repo[g])
    BY <1>2, <1>7
  <2> QED BY <2>1, <2>2, DecidedGood
<1>12. \A g \in retired : /\ SameLinks(repo[g], w[g]) /\ w[g].supersededBy = IdOf[By(g)]
                          /\ w[g].review = "superseded" /\ repo[g].supersededBy = None
                          /\ w[g].status = "superseded"
  <2> TAKE g \in retired
  <2>1. w[g] = Retired(repo[g], IdOf[By(g)]) /\ IdOf[By(g)] \in Ids
    BY <1>4, <1>7
  <2> QED BY <2>1, <1>5, RetiredGood
<1>13. \A g \in retired : /\ By(g) \in targets /\ g \in Priors(repo, By(g))
                          /\ decision = "approve" /\ TypeOf[By(g)] = "report"
                          /\ IdOf[g] = repo[By(g)].supersedes /\ repo[By(g)].status = "draft"
  <2> TAKE g \in retired
  <2>1. By(g) \in targets /\ g \in Priors(repo, By(g))
    BY <1>3 DEF By
  <2>2. decision = "approve"
    BY DEF retired
  <2> QED BY <2>1, <2>2 DEF Priors, Holders, MayReview
<1> DEFINE q == Overlay(repo, w)
<1>14. KeepsRead(repo, w)
  <2> SUFFICES ASSUME NEW g \in DOMAIN w, repo[g] # Absent PROVE Keeps(g, repo[g], w[g])
    BY DEF KeepsRead
  <2>1. w[g] # Absent
    BY <1>8, AbsentIsNoObject
  <2>2. CASE g \in targets
    BY <2>1, <2>2, <1>11 DEF Keeps, SameLinks
  <2>3. CASE g \in retired
    BY <2>1, <2>3, <1>5, <1>12 DEF Keeps, SameLinks
  <2> QED BY <2>2, <2>3, <1>1, <1>7
<1>15. Grows(repo, q) /\ \A g \in DOMAIN w : q[g] = w[g]
  BY <1>10, <1>14, GrowsOver DEF IInv, Overlay
<1> HIDE DEF q
<1>16. Stands(q, note)
  <2>1. /\ o.review = "pending" /\ o.supersededBy = None /\ o.basis = {}
        /\ o.supersedes = None /\ o.subject = None
    BY DEF o, Blank
  <2>2. q[note] = o
    BY <1>7, <1>15
  <2>3. Founded("review", o)
    BY <2>1 DEF Founded
  <2> QED BY <2>1, <2>2, <2>3, <1>1, <1>15, NewStands DEF Extracted
<1>17. ASSUME NEW g \in retired PROVE Stands(q, g)
  <2>1. /\ g \in Files /\ TypeOf[g] = "report" /\ q[g] = w[g]
        /\ g \in Existing(repo) /\ Stands(repo, g)
    BY <1>5, <1>7, <1>15, AbsentIsNoObject, ValidStands DEF Existing
  <2>2. /\ By(g) \in Existing(repo) /\ By(g) \in Files /\ TypeOf[By(g)] = "report"
        /\ q[By(g)].supersedes = IdOf[g] /\ By(g) \in Holders(repo, IdOf[By(g)])
    BY <1>2, <1>7, <1>11, <1>13, <1>15 DEF SameLinks, Holders
  <2>3. By(g) \in Holders(q, IdOf[By(g)])
    BY <2>2, <1>15, HoldersStay
  <2>4. Referring(q, g)
    <3>1. SameLinks(repo[g], q[g]) /\ q[g].supersededBy = IdOf[By(g)]
      BY <2>1, <1>12
    <3> QED BY <2>1, <2>2, <2>3, <3>1, <1>15, HoldersStay
            DEF Stands, Referring, ReferenceRule, SameLinks
  <2>5. Backed(q, g)
    BY <2>1, <1>12, <1>15, HoldersStay DEF Stands, Backed, Needy, Keeps, SameLinks
  <2>6. Extracted(q, g)
    BY <2>1 DEF Extracted
  <2>7. SuccessorNames(q, g)
    <3>1. \A h \in Holders(q, IdOf[By(g)]) : h = By(g)
      BY <2>2, ReportIds DEF Holders, Existing, Chained
    <3> QED BY <2>1, <2>2, <3>1, <1>12 DEF SuccessorNames
  <2>8. q[g].review # "reviewed"
    BY <2>1, <1>12
  <2> QED BY <2>4, <2>5, <2>6, <2>7, <2>8 DEF Stands, ReportPairRule
<1>18. ASSUME NEW g \in targets PROVE Stands(q, g)
  <2>1. /\ g \in Files /\ q[g] = w[g] /\ g \in Existing(repo) /\ Stands(repo, g)
        /\ SameLinks(repo[g], q[g]) /\ q[g].supersededBy = repo[g].supersededBy
    BY <1>2, <1>7, <1>11, <1>15, ValidStands
  <2>2. Referring(q, g)
    BY <2>1, <1>15, HoldersStay DEF Stands, Referring, ReferenceRule, SameLinks
  <2>3. Backed(q, g)
    <3> SUFFICES ASSUME Needy(g, q[g]), NEW id \in q[g].basis
                 PROVE  \E h \in Holders(q, id) : TypeOf[h] = "event" /\ q[h].review = "reviewed"
      BY DEF Backed
    <3>1. id \in repo[g].basis
      BY <2>1 DEF SameLinks
    <3>2. Reviewed(repo, id)
      <4>1. CASE q[g].review = "reviewed"
        BY <2>1, <3>1, <4>1, <1>11 DEF Needy, MayReview
      <4>2. CASE q[g].review # "reviewed"
        <5>1. TypeOf[g] = "report" /\ repo[g].print # None
          BY <2>1, <4>2 DEF Needy, SameLinks
        <5> QED BY <2>1, <3>1, <5>1 DEF Valid, GeneratedRule
      <4> QED BY <4>1, <4>2
    <3>3. PICK h \in Holders(repo, id) : TypeOf[h] = "event"
      <4>1. TypeOf[g] \notin {"company", "sector"} /\ BasisType(TypeOf[g]) = "event"
        BY DEF Needy, BasisType
      <4> QED BY <2>1, <3>1, <4>1 DEF Stands, Referring, ReferenceRule
    <3> QED BY <3>2, <3>3, <1>15, HoldersStay DEF Reviewed, Keeps
  <2>4. Extracted(q, g)
    BY <2>1, <1>15, HoldersStay DEF Stands, Extracted, Keeps, SameLinks
  <2>5. ReportPairRule(q, g)
    <3> SUFFICES ASSUME TypeOf[g] = "report" PROVE ReportPairRule(q, g)
      BY DEF ReportPairRule
    <3>1. Referring(repo, g) /\ SuccessorNames(repo, g)
      BY <2>1 DEF Stands, ReportPairRule
    <3>2. SuccessorNames(q, g)
      BY <2>1, <3>1, <1>15, PairStays DEF SuccessorNames
    <3>3. ASSUME q[g].review = "reviewed", q[g].supersedes # None,
                 NEW h \in Holders(q, q[g].supersedes)
          PROVE  q[h].supersededBy = IdOf[g]
      <4>1. decision = "approve"
        BY <2>1, <3>3, <1>11
      <4>2. h \in Priors(repo, g)
        BY <2>1, <3>1, <3>3, <1>15, PairStays DEF Priors, SameLinks
      <4>3. h \in retired
        BY <4>1, <4>2 DEF retired
      <4>4. By(h) = g
        BY <4>1, <4>2, <4>3, <1>13 DEF MaySupersede
      <4> QED BY <4>3, <4>4, <1>7, <1>12, <1>15
    <3> QED BY <3>2, <3>3 DEF ReportPairRule, PriorNames
  <2> QED BY <2>2, <2>3, <2>4, <2>5 DEF Stands
<1>19. Linked(repo, w)
  <2> SUFFICES ASSUME NEW g \in DOMAIN w, TypeOf[g] \in Chained
               PROVE  \/ w[g].supersededBy = Successor(repo[g])
                      \/ /\ w[g].status = "superseded"
                         /\ \E h \in DOMAIN w : /\ TypeOf[h] \in Chained
                                               /\ w[g].supersededBy = IdOf[h]
                                               /\ w[h].supersededBy = None
    BY DEF Linked
  <2>1. CASE g \in targets
    BY <2>1, <1>2, <1>11, AbsentIsNoObject DEF Successor
  <2>2. CASE g \in retired
    <3>1. By(g) \in targets /\ TypeOf[By(g)] = "report" /\ repo[By(g)].status = "draft"
      BY <2>2, <1>13
    <3>2. Sound(By(g), repo[By(g)])
      BY <3>1, <1>2
    <3>3. w[By(g)].supersededBy = None
      BY <3>1, <3>2, <1>11 DEF Sound, Valued, OwnRules, ReportRule
    <3> QED BY <2>2, <3>1, <3>3, <1>7, <1>12 DEF Chained
  <2> QED BY <2>1, <2>2, <1>1, <1>7 DEF Chained
<1>20. Standing(w)
  BY <1>7, <1>16, <1>17, <1>18 DEF Standing, q
<1> QED BY <1>8, <1>9, <1>10, <1>14, <1>19, <1>20 DEF Good, Fit, Answering, LegalWrites, w

LEMMA Review_ ==
  ASSUME IInv, NEW s \in Sessions, Review(s) PROVE Offered(s)
<1>1. PICK targets \in Some(Existing(repo)), decision \in DOMAIN Verdict,
           note \in New(repo, "review") :
       /\ \A f \in targets : MayReview(repo, f, decision)
       /\ decision = "approve" => MaySupersede(repo, targets)
       /\ LET w == ReviewWrites(repo, targets, decision, note)
          IN  Offer(s, w, ReviewSets(targets, decision, w))
  BY DEF Review
<1>2. targets \in SUBSET Existing(repo)
  BY DEF Some
<1>3. MayStart(s)
  BY DEF Review
<1> DEFINE w == ReviewWrites(repo, targets, decision, note)
<1>4. Good(w) /\ Offer(s, w, ReviewSets(targets, decision, w))
  BY <1>1, <1>2, <1>3, ReviewGood DEF MayStart
<1> HIDE DEF w
<1>5. ReviewSets(targets, decision, w) \in [DOMAIN w -> SUBSET Fields]
  BY DEF ReviewSets, Fields
<1> QED BY <1>3, <1>4, <1>5, OfferedMany

LEMMA CreateOffers == ASSUME IInv, NEW s \in Sessions, Create(s) PROVE Offered(s)
BY DraftSource_, DraftEvent_, GenerateEvent_, DraftReport_, GenerateReport_, DraftEntity_,
   DraftAssertion_, DraftImpact_, DraftRun_, DraftAction_, DraftForecast_, DraftValuation_,
   DraftRecommendation_ DEF Create

LEMMA ChangeOffers == ASSUME IInv, NEW s \in Sessions, Change(s) PROVE Offered(s)
BY Review_, CloseAction_, OpenForecast_, ResolveForecast_, ActivateRecommendation_,
   CloseRecommendation_, SupersedeRecommendation_, SupersedeValuation_ DEF Change

(***************************************************************************)
(* The invariant.                                                          *)
(***************************************************************************)
LEMMA InitInv == Init => IInv
<1> SUFFICES ASSUME Init PROVE IInv
  OBVIOUS
<1>1. TypeOK
  BY ObjectConstants DEF Init, TypeOK, Slots
<1>2. AllSound
  <2> SUFFICES ASSUME NEW f \in Existing(repo) PROVE OwnRules(f, repo[f]) /\ Valued(f, repo[f])
    BY DEF AllSound
  <2>1. f \in Existing(Seed) /\ repo[f] = Seed[f]
    BY DEF Init
  <2>2. OwnRules(f, Seed[f])
    BY <2>1, SeedIsValid DEF Valid
  <2>3. TypeOf[f] = "valuation" => Seed[f].status \in {"draft", "superseded"}
    BY <2>1, SeedIsValid DEF OfType
  <2> QED BY <2>1, <2>2, <2>3 DEF Valued
<1>3. PlansLegal /\ PlansLink
  BY DEF Init, PlansLegal, PlansLink
<1>4. AllEnded
  BY SeedIsValid DEF Init, AllEnded, Ended, OfType
<1> QED BY <1>1, <1>2, <1>3, <1>4 DEF IInv

\* A step that changes one plan keeps the invariant if the new plan satisfies it.
LEMMA PlanInv ==
  ASSUME IInv, NEW s \in Sessions, NEW p, plan' = [plan EXCEPT ![s] = p],
         UNCHANGED <<repo, clobbered, commits>>,
         p # NoPlan =>
           /\ IsPlan(p) /\ LegalPlan(p)
           /\ clobbered = {} /\ p.changed = {} => Linked(p.read, p.writes)
  PROVE  IInv'
<1>1. DOMAIN plan' = Sessions /\ \A c \in Sessions : plan'[c] = IF c = s THEN p ELSE plan[c]
  BY DEF IInv, TypeOK
<1>2. TypeOK'
  BY <1>1 DEF IInv, TypeOK
<1>3. PlansLegal'
  BY <1>1 DEF IInv, PlansLegal
<1>4. PlansLink'
  BY <1>1 DEF IInv, PlansLink
<1>5. AllSound' /\ AllEnded'
  BY DEF IInv, AllSound, AllEnded, Existing
<1> QED BY <1>2, <1>3, <1>4, <1>5 DEF IInv

\* The plan that an operation offers.
OfferedPlan(w, k) ==
  [writes |-> w, read |-> [f \in DOMAIN w |-> repo[f]], sets |-> k,
   todo |-> {f \in DOMAIN w : repo[f] # Absent}, changed |-> {},
   base |-> [f \in DOMAIN w |-> repo[f]], shown |-> FALSE]

LEMMA OfferPlan ==
  ASSUME NEW s \in Sessions, Offered(s)
  PROVE  /\ UNCHANGED <<repo, clobbered, commits>>
         /\ \E w, k : /\ plan' = [plan EXCEPT ![s] = OfferedPlan(w, k)]
                      /\ Good(w) /\ k \in [DOMAIN w -> SUBSET Fields]
BY DEF Offered, Offer, OfferedPlan

LEMMA OfferInv ==
  ASSUME IInv, NEW s \in Sessions, Offered(s)
  PROVE  IInv' /\ UNCHANGED <<repo, clobbered, commits>>
<1>1. PICK w, k : /\ plan' = [plan EXCEPT ![s] = OfferedPlan(w, k)]
                  /\ Good(w) /\ k \in [DOMAIN w -> SUBSET Fields]
  BY OfferPlan
<1> DEFINE now == [f \in DOMAIN w |-> repo[f]]
           p == OfferedPlan(w, k)
<1>2. p.writes = w /\ p.read = now /\ p.changed = {}
  BY DEF OfferedPlan
<1>3. IsPlan(p)
  <2>1. now \in [DOMAIN w -> Slots]
    BY <1>1 DEF Good, Fit, IInv, TypeOK
  <2>2. w \in [DOMAIN w -> Objects] /\ DOMAIN w \subseteq Files
    BY <1>1 DEF Good, Fit
  <2> QED BY <1>1, <2>1, <2>2 DEF IsPlan, PlanFor, OfferedPlan
<1>4. \A f \in DOMAIN w : now[f] = repo[f]
  OBVIOUS
<1> HIDE DEF p, now
<1>5. LegalPlan(p)
  BY <1>1, <1>2, <1>4 DEF Good, Fit, LegalWrites, LegalPlan, Sound
<1>6. clobbered = {} => Linked(now, w)
  BY <1>1, <1>4 DEF Good, Linked
<1> QED BY <1>1, <1>2, <1>3, <1>5, <1>6, OfferPlan, PlanInv DEF p

\* Assign stays within the objects, and takes the status from one of the two.
LEMMA AssignType ==
  ASSUME NEW o \in Objects, NEW n \in Objects, NEW k
  PROVE  Assign(o, n, k) \in Objects /\ Assign(o, n, k).status \in {o.status, n.status}
<1> DEFINE status == IF "status" \in k THEN n.status ELSE o.status
           review == IF "review" \in k THEN n.review ELSE o.review
           supersedes == IF "supersedes" \in k THEN n.supersedes ELSE o.supersedes
           supersededBy == IF "supersededBy" \in k THEN n.supersededBy ELSE o.supersededBy
           ready == IF "ready" \in k THEN n.ready ELSE o.ready
<1>1. /\ status \in Statuses /\ status \in {o.status, n.status} /\ review \in ReviewStatuses
      /\ supersedes \in Ids \cup {None} /\ supersededBy \in Ids \cup {None}
      /\ ready \in BOOLEAN
  BY DEF Objects
<1>2. Assign(o, n, k) = [o EXCEPT !.status = status, !.review = review,
                           !.supersedes = supersedes, !.supersededBy = supersededBy,
                           !.ready = ready]
  BY DEF Assign, Objects
<1> HIDE DEF status, review, supersedes, supersededBy, ready
<1>3. Assign(o, n, k).status = status
  BY <1>2 DEF Objects
<1>4. Assign(o, n, k) \in Objects
  BY <1>1, <1>2 DEF Objects
<1> QED BY <1>1, <1>3, <1>4

\* Reading again leaves a file that is as it was to its plan; others count as changed.
ReadOne(p, f, q) ==
  /\ q.read = p.read /\ DOMAIN q.writes = DOMAIN p.writes
  /\ \A g \in DOMAIN p.writes : g # f => q.writes[g] = p.writes[g]
  /\ repo[f] = p.read[f] => q.writes = p.writes /\ q.changed = p.changed
  /\ repo[f] # p.read[f] => /\ q.changed = p.changed \cup {f}
                            /\ q.writes[f] = Assign(repo[f], p.writes[f], p.sets[f])

LEMMA ReadPlan ==
  ASSUME IInv, NEW s \in Sessions, ReadAgain(s)
  PROVE  /\ plan[s] # NoPlan /\ UNCHANGED <<repo, clobbered, commits>>
         /\ \E f, q : /\ f \in plan[s].todo /\ f \in DOMAIN plan[s].writes
                      /\ repo[f] \in Objects
                      /\ plan' = [plan EXCEPT ![s] = q]
                      /\ IsPlan(q) /\ ReadOne(plan[s], f, q)
<1> DEFINE p == plan[s]
<1>1. plan[s] # NoPlan /\ UNCHANGED <<repo, clobbered, commits>>
  BY DEF ReadAgain
<1>2. PICK f \in p.todo :
        /\ repo[f] # Absent
        /\ plan' = [plan EXCEPT
             ![s].writes[f] = IF repo[f] = p.read[f] THEN @ ELSE Assign(repo[f], @, p.sets[f]),
             ![s].todo = @ \ {f},
             ![s].changed = IF repo[f] = p.read[f] THEN @ ELSE @ \cup {f}]
  BY DEF ReadAgain
<1>3. IsPlan(p)
  BY <1>1 DEF IInv, TypeOK
<1>4. f \in DOMAIN p.writes /\ DOMAIN p.writes \subseteq Files
  BY <1>3 DEF IsPlan, PlanFor
<1>5. repo[f] \in Objects /\ p.writes[f] \in Objects
  BY <1>2, <1>3, <1>4 DEF IInv, TypeOK, Slots, IsPlan, PlanFor
<1> DEFINE new == IF repo[f] = p.read[f] THEN p.writes[f]
                  ELSE Assign(repo[f], p.writes[f], p.sets[f])
           ws == [p.writes EXCEPT ![f] = new]
           ch == IF repo[f] = p.read[f] THEN p.changed ELSE p.changed \cup {f}
           q == [p EXCEPT !.writes = ws, !.todo = p.todo \ {f}, !.changed = ch]
<1>6. plan' = [plan EXCEPT ![s] = q]
  BY <1>2, <1>3 DEF IInv, TypeOK, IsPlan, PlanFor
<1>7. new \in Objects
  BY <1>5, AssignType
<1>8. /\ ws \in [DOMAIN p.writes -> Objects] /\ DOMAIN ws = DOMAIN p.writes /\ ws[f] = new
      /\ \A g \in DOMAIN p.writes : g # f => ws[g] = p.writes[g]
      /\ new = p.writes[f] => ws = p.writes
  <2> HIDE DEF new
  <2> QED BY <1>3, <1>4, <1>7 DEF IsPlan, PlanFor
<1>9. ch \subseteq DOMAIN p.writes
  BY <1>3, <1>4 DEF IsPlan, PlanFor
<1>10. /\ repo[f] = p.read[f] => new = p.writes[f] /\ ch = p.changed
       /\ repo[f] # p.read[f] => /\ new = Assign(repo[f], p.writes[f], p.sets[f])
                                 /\ ch = p.changed \cup {f}
  OBVIOUS
<1> HIDE DEF ws, ch, new
<1>11. /\ q.writes = ws /\ q.changed = ch /\ q.read = p.read
       /\ q \in PlanFor(DOMAIN p.writes)
  <2> HIDE DEF p
  <2> QED BY <1>3, <1>8, <1>9 DEF IsPlan, PlanFor
<1> HIDE DEF q
<1>12. IsPlan(q)
  BY <1>4, <1>8, <1>11 DEF IsPlan
<1>13. ReadOne(p, f, q)
  BY <1>8, <1>10, <1>11 DEF ReadOne
<1> QED BY <1>1, <1>4, <1>5, <1>6, <1>12, <1>13

LEMMA ReadInv ==
  ASSUME IInv, NEW s \in Sessions, ReadAgain(s)
  PROVE  IInv' /\ UNCHANGED <<repo, clobbered, commits>>
<1> DEFINE p == plan[s]
<1>1. p # NoPlan /\ UNCHANGED <<repo, clobbered, commits>>
  BY ReadPlan
<1>2. PICK f, q :
        /\ f \in p.todo /\ f \in DOMAIN p.writes /\ repo[f] \in Objects
        /\ plan' = [plan EXCEPT ![s] = q] /\ IsPlan(q) /\ ReadOne(p, f, q)
  BY ReadPlan
<1>3. /\ IsPlan(p) /\ LegalPlan(p)
      /\ clobbered = {} /\ p.changed = {} => Linked(p.read, p.writes)
  BY <1>1 DEF IInv, TypeOK, PlansLegal, PlansLink
<1> HIDE DEF p
<1>4. CASE repo[f] = p.read[f]
  <2>1. q.writes = p.writes /\ q.changed = p.changed /\ q.read = p.read
    BY <1>2, <1>4 DEF ReadOne
  <2>2. LegalPlan(q)
    BY <1>3, <2>1 DEF LegalPlan
  <2> QED BY <1>1, <1>2, <1>3, <2>1, <2>2, PlanInv
<1>5. CASE repo[f] # p.read[f]
  <2>1. q.changed = p.changed \cup {f} /\ q.read = p.read /\ DOMAIN q.writes = DOMAIN p.writes
    BY <1>2, <1>5 DEF ReadOne
  <2>2. ASSUME NEW g \in DOMAIN q.writes, g # f
        PROVE  /\ Valued(g, q.writes[g])
               /\ g \notin q.changed =>
                    /\ Sound(g, q.writes[g])
                    /\ q.read[g] # Absent => LegalMove(TypeOf[g], q.read[g], q.writes[g])
    <3>1. g \in DOMAIN p.writes /\ q.writes[g] = p.writes[g] /\ q.read[g] = p.read[g]
          /\ (g \notin q.changed => g \notin p.changed)
      BY <1>2, <2>1, <2>2 DEF ReadOne
    <3> QED BY <1>3, <3>1 DEF LegalPlan
  <2>3. Valued(f, q.writes[f])
    <3>1. q.writes[f] = Assign(repo[f], p.writes[f], p.sets[f])
      BY <1>2, <1>5 DEF ReadOne
    <3>2. p.writes[f] \in Objects /\ f \in Files
      BY <1>2, <1>3 DEF IsPlan, PlanFor
    <3>3. Valued(f, repo[f]) /\ Valued(f, p.writes[f])
      BY <1>2, <1>3, <3>2, AbsentIsNoObject DEF IInv, AllSound, LegalPlan, Existing
    <3> QED BY <1>2, <3>1, <3>2, <3>3, AssignType DEF Valued
  <2>4. LegalPlan(q)
    BY <2>1, <2>2, <2>3 DEF LegalPlan
  <2> QED BY <1>1, <1>2, <2>1, <2>4, PlanInv
<1> QED BY <1>4, <1>5

\* A preview changes nothing but what the plan was shown on.
LEMMA PreviewPlan ==
  ASSUME IInv, NEW s \in Sessions, Preview(s)
  PROVE  /\ plan[s] # NoPlan /\ UNCHANGED <<repo, clobbered, commits>>
         /\ \E q : /\ plan' = [plan EXCEPT ![s] = q] /\ IsPlan(q)
                   /\ q.read = plan[s].read /\ q.writes = plan[s].writes
                   /\ q.changed = plan[s].changed
<1> DEFINE old == plan[s]
           now == [f \in DOMAIN old.writes |-> repo[f]]
           q == [old EXCEPT !.shown = TRUE, !.base = now]
<1>1. UNCHANGED <<repo, clobbered, commits>> /\ old # NoPlan
  BY DEF Preview
<1>2. IsPlan(old)
  BY <1>1 DEF IInv, TypeOK
<1>3. plan' = [plan EXCEPT ![s] = q]
  BY DEF Preview
<1>4. now \in [DOMAIN old.writes -> Slots]
  BY <1>2 DEF IInv, TypeOK, IsPlan
<1>5. IsPlan(q) /\ q.read = old.read /\ q.writes = old.writes /\ q.changed = old.changed
  <2> HIDE DEF now, old
  <2> QED BY <1>2, <1>4 DEF IsPlan, PlanFor
<1> QED BY <1>1, <1>3, <1>5

LEMMA PreviewInv ==
  ASSUME IInv, NEW s \in Sessions, Preview(s)
  PROVE  IInv' /\ UNCHANGED <<repo, clobbered, commits>>
<1> DEFINE p == plan[s]
<1>1. p # NoPlan /\ UNCHANGED <<repo, clobbered, commits>>
  BY PreviewPlan
<1>2. PICK q : /\ plan' = [plan EXCEPT ![s] = q] /\ IsPlan(q)
               /\ q.read = p.read /\ q.writes = p.writes /\ q.changed = p.changed
  BY PreviewPlan
<1>3. /\ LegalPlan(p)
      /\ clobbered = {} /\ p.changed = {} => Linked(p.read, p.writes)
  BY <1>1 DEF IInv, PlansLegal, PlansLink
<1> HIDE DEF p
<1>4. LegalPlan(q)
  BY <1>2, <1>3 DEF LegalPlan
<1> QED BY <1>1, <1>2, <1>3, <1>4, PlanInv

LEMMA DropInv ==
  ASSUME IInv, NEW s \in Sessions, Drop(s)
  PROVE  IInv' /\ UNCHANGED <<repo, clobbered, commits>>
BY PlanInv DEF Drop

\* What a publication does to a file: nothing, or what its plan says.
LEMMA WriteFiles ==
  ASSUME IInv, NEW s \in Sessions, plan[s] # NoPlan, Write(s)
  PROVE  /\ IsPlan(plan[s]) /\ LegalPlan(plan[s])
         /\ repo' \in [Files -> Slots]
         /\ \A f \in Files \ DOMAIN plan[s].writes : repo'[f] = repo[f]
         /\ \A f \in DOMAIN plan[s].writes :
              /\ f \in Files /\ repo'[f] = plan[s].writes[f] /\ repo'[f] \in Objects
              /\ f \notin clobbered' => repo[f] = plan[s].read[f] /\ f \notin plan[s].changed
         /\ clobbered \subseteq clobbered'
         /\ clobbered' = {} => clobbered = {} /\ plan[s].changed = {}
<1> DEFINE p == plan[s]
<1>1. IsPlan(p) /\ LegalPlan(p)
  BY DEF IInv, TypeOK, PlansLegal
<1>2. DOMAIN p.writes \subseteq Files /\ p.writes \in [DOMAIN p.writes -> Objects]
  BY <1>1 DEF IsPlan, PlanFor
<1>3. repo' = [f \in Files |-> IF f \in DOMAIN p.writes THEN p.writes[f] ELSE repo[f]]
      /\ clobbered' = clobbered \cup p.changed \cup {f \in DOMAIN p.writes : repo[f] # p.read[f]}
  BY DEF Write
<1>4. repo \in [Files -> Slots]
  BY DEF IInv, TypeOK
<1>5. repo' \in [Files -> Slots]
  BY <1>2, <1>3, <1>4 DEF Slots
<1>6. /\ \A f \in DOMAIN p.writes :
           f \notin clobbered' => repo[f] = p.read[f] /\ f \notin p.changed
      /\ clobbered \subseteq clobbered'
      /\ clobbered' = {} => clobbered = {} /\ p.changed = {}
  <2> HIDE DEF p
  <2> QED BY <1>3
<1> QED BY <1>1, <1>2, <1>3, <1>5, <1>6

\* A Recommendation with a successor is superseded, and stays so.
LEMMA WriteEnded ==
  ASSUME IInv, NEW s \in Sessions, plan[s] # NoPlan, Write(s) PROVE AllEnded'
<1> SUFFICES ASSUME clobbered' = {}, NEW f \in Existing(repo'),
                    TypeOf[f] = "recommendation", repo'[f].supersededBy # None
             PROVE  repo'[f].status = "superseded"
  BY DEF AllEnded, Ended
<1> DEFINE p == plan[s]
<1>1. f \in Files /\ repo'[f] # Absent
  BY DEF Existing
<1>2. clobbered = {} /\ p.changed = {}
  BY WriteFiles
<1>3. CASE f \notin DOMAIN p.writes
  <2>1. repo'[f] = repo[f]
    BY <1>1, <1>3, WriteFiles
  <2> QED BY <1>1, <1>2, <2>1 DEF IInv, AllEnded, Ended, Existing
<1>4. CASE f \in DOMAIN p.writes
  <2>1. repo'[f] = p.writes[f] /\ repo[f] = p.read[f]
    BY <1>4, WriteFiles
  <2>2. \/ p.writes[f].supersededBy = Successor(repo[f])
        \/ p.writes[f].status = "superseded"
    BY <1>2, <1>4, <2>1 DEF IInv, PlansLink, Linked, Chained
  <2>3. repo[f] # Absent => LegalMove("recommendation", repo[f], p.writes[f])
    BY <1>2, <1>4, <2>1, WriteFiles DEF LegalPlan
  <2>4. CASE p.writes[f].supersededBy = Successor(repo[f])
    <3>1. repo[f] # Absent /\ repo[f].supersededBy # None
      BY <2>1, <2>4 DEF Successor
    <3>2. repo[f].status = "superseded"
      BY <1>1, <1>2, <3>1 DEF IInv, AllEnded, Ended, Existing
    <3> QED BY <2>1, <2>3, <3>1, <3>2 DEF LegalMove, StatusMoves
  <2> QED BY <2>1, <2>2, <2>4
<1> QED BY <1>3, <1>4

LEMMA WriteInv ==
  ASSUME IInv, NEW s \in Sessions, plan[s] # NoPlan, Write(s)
  PROVE  /\ IInv'
         /\ \A f \in Existing(repo) :
              f \notin clobbered' => LegalMove(TypeOf[f], repo[f], repo'[f])
<1> DEFINE p == plan[s]
<1>1. DOMAIN plan' = Sessions /\ \A c \in Sessions : plan'[c] = IF c = s THEN NoPlan ELSE plan[c]
  BY DEF Write, IInv, TypeOK
<1>2. TypeOK'
  <2>1. commits' \in 0 .. MaxCommits
    BY ObjectConstants DEF Write, IInv, TypeOK
  <2>2. clobbered' \subseteq Files
    <3>1. p.changed \subseteq Files /\ DOMAIN p.writes \subseteq Files
      BY WriteFiles DEF IsPlan, PlanFor
    <3>2. clobbered' = clobbered \cup p.changed \cup {f \in DOMAIN p.writes : repo[f] # p.read[f]}
      BY DEF Write
    <3> HIDE DEF p
    <3> QED BY <3>1, <3>2 DEF IInv, TypeOK
  <2> QED BY <1>1, <2>1, <2>2, WriteFiles DEF IInv, TypeOK
<1>3. PlansLegal'
  BY <1>1 DEF IInv, PlansLegal
<1>4. PlansLink'
  BY <1>1, WriteFiles DEF IInv, PlansLink
<1>5. AllSound'
  <2> SUFFICES ASSUME NEW f \in Existing(repo)'
               PROVE  Valued(f, repo'[f]) /\ (f \notin clobbered' => OwnRules(f, repo'[f]))
    BY DEF AllSound
  <2>1. f \in Files /\ repo'[f] # Absent
    BY DEF Existing
  <2>2. CASE f \in DOMAIN p.writes
    BY <2>2, WriteFiles DEF LegalPlan, Sound
  <2>3. CASE f \notin DOMAIN p.writes
    <3>1. repo'[f] = repo[f] /\ (f \notin clobbered' => f \notin clobbered)
      BY <2>1, <2>3, WriteFiles
    <3> QED BY <2>1, <3>1 DEF IInv, AllSound, Existing
  <2> QED BY <2>2, <2>3
<1>6. ASSUME NEW f \in Existing(repo), f \notin clobbered'
      PROVE  LegalMove(TypeOf[f], repo[f], repo'[f])
  <2>1. f \in Files /\ repo[f] \in Objects /\ repo[f] # Absent
    BY ExistingType DEF IInv
  <2>2. CASE f \in DOMAIN p.writes
    BY <1>6, <2>1, <2>2, WriteFiles DEF LegalPlan
  <2>3. CASE f \notin DOMAIN p.writes
    BY <2>1, <2>3, WriteFiles, SameMove
  <2> QED BY <2>2, <2>3
<1> QED BY <1>2, <1>3, <1>4, <1>5, <1>6, WriteEnded DEF IInv

LEMMA StepInv == IInv /\ [Next]_vars => IInv'
<1> SUFFICES ASSUME IInv, [Next]_vars PROVE IInv'
  OBVIOUS
<1>1. CASE UNCHANGED vars
  BY <1>1 DEF vars, IInv, TypeOK, AllSound, PlansLegal, PlansLink, AllEnded, Existing
<1>2. ASSUME NEW s \in Sessions, Create(s) \/ Change(s) PROVE IInv'
  BY <1>2, CreateOffers, ChangeOffers, OfferInv
<1>3. ASSUME NEW s \in Sessions, Publish(s) PROVE IInv'
  BY <1>3, ReadInv, PreviewInv, DropInv, WriteInv DEF Publish, Confirm, Apply
<1> QED BY <1>1, <1>2, <1>3 DEF Next

LEMMA StepLegal ==
  IInv /\ Next => \A f \in Existing(repo) :
                    f \notin clobbered' => LegalMove(TypeOf[f], repo[f], repo'[f])
<1> SUFFICES ASSUME IInv, Next, NEW f \in Existing(repo), f \notin clobbered'
             PROVE  LegalMove(TypeOf[f], repo[f], repo'[f])
  OBVIOUS
<1>1. repo' = repo => LegalMove(TypeOf[f], repo[f], repo'[f])
  BY ExistingType, SameMove DEF IInv
<1>2. ASSUME NEW s \in Sessions, Create(s) \/ Change(s) PROVE repo' = repo
  BY <1>2, CreateOffers, ChangeOffers, OfferInv
<1>3. ASSUME NEW s \in Sessions, ReadAgain(s) \/ Preview(s) \/ Drop(s) PROVE repo' = repo
  BY <1>3 DEF ReadAgain, Preview, Drop
<1>4. ASSUME NEW s \in Sessions, Confirm(s) \/ Apply(s)
      PROVE  LegalMove(TypeOf[f], repo[f], repo'[f])
  BY <1>4, WriteInv DEF Confirm, Apply
<1> QED BY <1>1, <1>2, <1>3, <1>4 DEF Next, Publish

LEMMA Invariance == Spec => []IInv
BY InitInv, StepInv, PTL DEF Spec

\* All variables keep their types, whatever sessions do.
THEOREM ResearchTypes == Spec => []TypeOK
BY Invariance, PTL DEF IInv

\* An open Forecast, an active Recommendation and a final Report are reviewed in every
\* state, up to files that were written although they had changed since they were validated.
THEOREM RulesAreLocal == Spec => []LocalRules
<1>1. IInv => LocalRules
  BY DEF IInv, AllSound, LocalRules
<1> QED BY <1>1, Invariance, PTL

\* No object moves backwards or changes what it rests on, unless its file is written
\* although it had changed since the operation validated it.
THEOREM MovesForward == Spec => MovesAreLegal
<1>1. IInv /\ [Next]_vars =>
        [\A f \in Existing(repo) : f \notin clobbered' => LegalMove(TypeOf[f], repo[f], repo'[f])]_vars
  BY StepLegal
<1> QED BY <1>1, Invariance, PTL DEF Spec, MovesAreLegal

(***************************************************************************)
(* One Resolution.                                                         *)
(***************************************************************************)
Answers(r, f) == {g \in OfType(r, "resolution") : r[g].subject = IdOf[f]}

Settled == clobbered = {} => ResolvedOnce(repo) /\ SubjectsExist

LEMMA ForecastIds ==
  ASSUME NEW f \in Files, NEW g \in Files, TypeOf[f] = "forecast", IdOf[f] = IdOf[g]
  PROVE  f = g
BY ValidationConstants

\* A legal move neither opens a closed Forecast nor turns a Resolution to another one.
LEMMA StaysClosed ==
  ASSUME NEW o, NEW n, LegalMove("forecast", o, n), Closed(o) PROVE Closed(n)
BY DEF LegalMove, StatusMoves, Closed

\* What a publication does to Forecasts and Resolutions if it writes no changed file.
LEMMA WriteKeeps ==
  ASSUME IInv, NEW s \in Sessions, plan[s] # NoPlan, Write(s), clobbered' = {}
  PROVE  /\ \A f \in Existing(repo) : f \in Existing(repo')
         /\ \A g \in OfType(repo, "resolution") : repo'[g].subject = repo[g].subject
         /\ \A f \in OfType(repo, "forecast") : Closed(repo[f]) => Closed(repo'[f])
<1>1. \A f \in Existing(repo) : LegalMove(TypeOf[f], repo[f], repo'[f])
  BY WriteInv
<1> QED BY <1>1, StaysClosed DEF LegalMove, Existing, OfType

LEMMA QuietWrite ==
  ASSUME IInv, NEW s \in Sessions, plan[s] # NoPlan, Write(s), clobbered' = {},
         ResolvedOnce(repo), SubjectsExist,
         \A f \in DOMAIN plan[s].writes : QuietAt(f, plan[s].read[f], plan[s].writes[f])
  PROVE  ResolvedOnce(repo') /\ SubjectsExist'
<1> DEFINE W == DOMAIN plan[s].writes
<1>1. \A f \in W : f \in Files /\ QuietAt(f, repo[f], repo'[f])
  BY WriteFiles
<1>2. \A f \in Files \ W : repo'[f] = repo[f]
  BY WriteFiles
<1> HIDE DEF W
<1>3. OfType(repo', "resolution") = OfType(repo, "resolution")
  <2>1. ASSUME NEW g \in OfType(repo', "resolution") PROVE g \in OfType(repo, "resolution")
    BY <1>1, <1>2 DEF OfType, Existing, QuietAt
  <2>2. ASSUME NEW g \in OfType(repo, "resolution") PROVE g \in OfType(repo', "resolution")
    BY WriteKeeps DEF OfType
  <2> QED BY <2>1, <2>2
<1>4. \A f \in Files : Answers(repo', f) = Answers(repo, f)
  BY <1>3, WriteKeeps DEF Answers
<1>5. ASSUME NEW f \in OfType(repo', "forecast")
      PROVE  /\ f \in Existing(repo) => (Closed(repo'[f]) <=> Closed(repo[f]))
             /\ f \notin Existing(repo) => ~Closed(repo'[f]) /\ Answers(repo, f) = {}
  <2>1. f \in Files /\ TypeOf[f] = "forecast"
    BY DEF OfType, Existing
  <2>2. Closed(repo'[f]) => repo[f] # Absent /\ Closed(repo[f])
    <3>1. CASE f \in W
      BY <2>1, <3>1, <1>1 DEF QuietAt
    <3>2. CASE f \notin W
      BY <2>1, <3>2, <1>2 DEF OfType, Existing
    <3> QED BY <3>1, <3>2
  <2>3. f \in Existing(repo) => (Closed(repo[f]) => Closed(repo'[f]))
    BY <2>1, WriteKeeps DEF OfType
  <2>4. f \notin Existing(repo) => Answers(repo, f) = {}
    BY <2>1 DEF Answers, SubjectsExist
  <2> QED BY <2>1, <2>2, <2>3, <2>4 DEF Existing
<1>6. ResolvedOnce(repo')
  <2> SUFFICES ASSUME NEW f \in OfType(repo', "forecast")
               PROVE  IF Closed(repo'[f]) THEN \E g \in Answers(repo', f) : Answers(repo', f) = {g}
                      ELSE Answers(repo', f) = {}
    BY DEF ResolvedOnce, Answers, Closed
  <2>1. f \in Files
    BY DEF OfType, Existing
  <2>2. CASE f \in Existing(repo)
    <3>1. f \in OfType(repo, "forecast")
      BY <2>2 DEF OfType
    <3>2. IF Closed(repo[f]) THEN \E g \in Answers(repo, f) : Answers(repo, f) = {g}
          ELSE Answers(repo, f) = {}
      BY <3>1 DEF ResolvedOnce, Answers, Closed
    <3> QED BY <2>1, <2>2, <3>2, <1>4, <1>5
  <2>3. CASE f \notin Existing(repo)
    BY <2>1, <2>3, <1>4, <1>5
  <2> QED BY <2>2, <2>3
<1>7. SubjectsExist'
  <2> SUFFICES ASSUME NEW g \in OfType(repo', "resolution"), NEW f \in Files,
                      TypeOf[f] = "forecast", repo'[g].subject = IdOf[f]
               PROVE  f \in Existing(repo')
    BY DEF SubjectsExist
  <2>1. f \in Existing(repo)
    BY <1>3, WriteKeeps DEF SubjectsExist
  <2> QED BY <2>1, WriteKeeps
<1> QED BY <1>6, <1>7

LEMMA ClosingWrite ==
  ASSUME IInv, NEW s \in Sessions, plan[s] # NoPlan, Write(s), clobbered' = {},
         ResolvedOnce(repo), SubjectsExist, Closing(plan[s].read, plan[s].writes)
  PROVE  ResolvedOnce(repo') /\ SubjectsExist'
<1>1. PICK f0 \in Files, g0 \in Files :
        /\ DOMAIN plan[s].writes = {f0, g0}
        /\ TypeOf[f0] = "forecast" /\ plan[s].read[f0] # Absent
        /\ plan[s].read[f0].status = "open" /\ Closed(plan[s].writes[f0])
        /\ TypeOf[g0] = "resolution" /\ plan[s].read[g0] = Absent
        /\ plan[s].writes[g0].subject = IdOf[f0]
  BY DEF Closing
<1>2. /\ repo[f0] # Absent /\ repo[f0].status = "open" /\ Closed(repo'[f0])
      /\ repo[g0] = Absent /\ repo'[g0] # Absent /\ repo'[g0].subject = IdOf[f0]
      /\ \A f \in Files \ {f0, g0} : repo'[f] = repo[f]
  BY <1>1, WriteFiles, AbsentIsNoObject
<1>3. OfType(repo', "resolution") = OfType(repo, "resolution") \cup {g0}
  BY <1>1, <1>2 DEF OfType, Existing
<1>4. f0 \in OfType(repo, "forecast") /\ f0 \in Existing(repo')
  BY <1>1, <1>2, WriteKeeps DEF OfType, Existing
<1>5. Answers(repo, f0) = {}
  <2>1. ~Closed(repo[f0])
    BY <1>2 DEF Closed
  <2> QED BY <1>4, <2>1 DEF ResolvedOnce, Answers, Closed
<1>6. Answers(repo', f0) = {g0}
  BY <1>2, <1>3, <1>5, WriteKeeps DEF Answers
<1>7. ASSUME NEW f \in Files, TypeOf[f] = "forecast", f # f0
      PROVE  Answers(repo', f) = Answers(repo, f) /\ repo'[f] = repo[f]
  <2>1. IdOf[f] # IdOf[f0]
    BY <1>1, <1>7, ForecastIds
  <2>2. g0 \notin OfType(repo, "resolution")
    BY <1>2 DEF OfType, Existing
  <2>3. Answers(repo', f) = Answers(repo, f)
    BY <1>2, <1>3, <2>1, <2>2, WriteKeeps DEF Answers
  <2> QED BY <1>1, <1>2, <1>7, <2>3
<1>8. ResolvedOnce(repo')
  <2> SUFFICES ASSUME NEW f \in OfType(repo', "forecast")
               PROVE  IF Closed(repo'[f]) THEN \E g \in Answers(repo', f) : Answers(repo', f) = {g}
                      ELSE Answers(repo', f) = {}
    BY DEF ResolvedOnce, Answers, Closed
  <2>1. CASE f = f0
    BY <2>1, <1>2, <1>6
  <2>2. CASE f # f0
    <3>1. f \in Files /\ TypeOf[f] = "forecast"
      BY DEF OfType, Existing
    <3>2. Answers(repo', f) = Answers(repo, f) /\ repo'[f] = repo[f]
      BY <2>2, <3>1, <1>7
    <3>3. f \in OfType(repo, "forecast")
      BY <3>1, <3>2 DEF OfType, Existing
    <3>4. IF Closed(repo[f]) THEN \E g \in Answers(repo, f) : Answers(repo, f) = {g}
          ELSE Answers(repo, f) = {}
      BY <3>3 DEF ResolvedOnce, Answers, Closed
    <3> QED BY <3>2, <3>4
  <2> QED BY <2>1, <2>2
<1>9. SubjectsExist'
  <2> SUFFICES ASSUME NEW g \in OfType(repo', "resolution"), NEW f \in Files,
                      TypeOf[f] = "forecast", repo'[g].subject = IdOf[f]
               PROVE  f \in Existing(repo')
    BY DEF SubjectsExist
  <2>1. CASE g = g0
    BY <2>1, <1>1, <1>2, <1>4, ForecastIds
  <2>2. CASE g # g0
    <3>1. g \in OfType(repo, "resolution")
      BY <2>2, <1>3
    <3>2. f \in Existing(repo)
      BY <3>1, WriteKeeps DEF SubjectsExist
    <3> QED BY <3>2, WriteKeeps
  <2> QED BY <2>1, <2>2
<1> QED BY <1>8, <1>9

IInv2 == IInv /\ PlansAnswer /\ Settled

LEMMA InitInv2 == Init => IInv2
<1> SUFFICES ASSUME Init PROVE IInv2
  OBVIOUS
<1>1. PlansAnswer
  BY DEF Init, PlansAnswer
<1>2. ResolvedOnce(repo)
  BY SeedIsValid DEF Init
<1>3. SubjectsExist
  <2> SUFFICES ASSUME NEW g \in OfType(repo, "resolution"), NEW f \in Files,
                      TypeOf[f] = "forecast", repo[g].subject = IdOf[f]
               PROVE  f \in Existing(repo)
    BY DEF SubjectsExist
  <2>1. repo = Seed /\ g \in Existing(repo)
    BY DEF Init, OfType
  <2>2. repo[g].subject # None
    BY ValidationConstants
  <2>3. PICK h \in Holders(repo, repo[g].subject) : TRUE
    BY <2>1, <2>2, SeedIsValid DEF Valid, ReferenceRule
  <2>4. h \in Existing(repo) /\ h \in Files /\ IdOf[h] = IdOf[f]
    BY <2>3 DEF Holders, Existing
  <2> QED BY <2>4, ForecastIds
<1> QED BY <1>1, <1>2, <1>3, InitInv DEF IInv2, Settled

\* A step that changes one plan to one that answers.
LEMMA PlanAnswers ==
  ASSUME IInv, PlansAnswer, NEW s \in Sessions, NEW p, plan' = [plan EXCEPT ![s] = p],
         p # NoPlan /\ p.changed = {} => Answering(p.read, p.writes)
  PROVE  PlansAnswer'
<1>1. \A c \in Sessions : plan'[c] = IF c = s THEN p ELSE plan[c]
  BY DEF IInv, TypeOK
<1> QED BY <1>1 DEF PlansAnswer

LEMMA OfferAnswers ==
  ASSUME IInv, PlansAnswer, NEW s \in Sessions, Offered(s) PROVE PlansAnswer'
<1>1. PICK w, k : plan' = [plan EXCEPT ![s] = OfferedPlan(w, k)] /\ Good(w)
  BY OfferPlan
<1> DEFINE now == [f \in DOMAIN w |-> repo[f]]
<1>2. OfferedPlan(w, k).read = now /\ OfferedPlan(w, k).writes = w
  BY DEF OfferedPlan
<1>3. Answering(now, w)
  <2>1. Answering(repo, w)
    BY <1>1 DEF Good
  <2>2. \A f \in DOMAIN w : now[f] = repo[f]
    OBVIOUS
  <2> HIDE DEF now
  <2>3. CASE \A f \in DOMAIN w : QuietAt(f, repo[f], w[f])
    BY <2>2, <2>3 DEF Answering
  <2>4. CASE Closing(repo, w)
    BY <2>2, <2>4 DEF Answering, Closing
  <2> QED BY <2>1, <2>3, <2>4 DEF Answering
<1> HIDE DEF now
<1> QED BY <1>1, <1>2, <1>3, PlanAnswers

LEMMA ReadAnswers ==
  ASSUME IInv, PlansAnswer, NEW s \in Sessions, ReadAgain(s) PROVE PlansAnswer'
<1>1. PICK f, q : f \in plan[s].todo /\ plan' = [plan EXCEPT ![s] = q] /\ ReadOne(plan[s], f, q)
  BY ReadPlan
<1>2. q.changed = {} => plan[s].changed = {} /\ q.read = plan[s].read /\ q.writes = plan[s].writes
  BY <1>1 DEF ReadOne
<1>3. plan[s] # NoPlan
  BY ReadPlan
<1> QED BY <1>1, <1>2, <1>3, PlanAnswers DEF PlansAnswer

LEMMA PreviewAnswers ==
  ASSUME IInv, PlansAnswer, NEW s \in Sessions, Preview(s) PROVE PlansAnswer'
<1>1. PICK q : /\ plan' = [plan EXCEPT ![s] = q] /\ q.read = plan[s].read
               /\ q.writes = plan[s].writes /\ q.changed = plan[s].changed
  BY PreviewPlan
<1>2. plan[s] # NoPlan
  BY PreviewPlan
<1> QED BY <1>1, <1>2, PlanAnswers DEF PlansAnswer

LEMMA RemoveAnswers ==
  ASSUME IInv, PlansAnswer, NEW s \in Sessions, plan' = [plan EXCEPT ![s] = NoPlan]
  PROVE  PlansAnswer'
BY PlanAnswers

LEMMA SameSettled == Settled /\ UNCHANGED <<repo, clobbered>> => Settled'
BY DEF Settled, SubjectsExist, OfType, Existing, ResolvedOnce

LEMMA WriteSettled ==
  ASSUME IInv2, NEW s \in Sessions, plan[s] # NoPlan, Write(s) PROVE Settled'
<1> SUFFICES ASSUME clobbered' = {} PROVE ResolvedOnce(repo') /\ SubjectsExist'
  BY DEF Settled
<1>1. ResolvedOnce(repo) /\ SubjectsExist
  BY WriteFiles DEF IInv2, Settled
<1>2. Answering(plan[s].read, plan[s].writes)
  BY WriteFiles DEF IInv2, PlansAnswer
<1> QED BY <1>1, <1>2, QuietWrite, ClosingWrite DEF Answering, IInv2

LEMMA StepInv2 == IInv2 /\ [Next]_vars => IInv2'
<1> SUFFICES ASSUME IInv2, [Next]_vars PROVE IInv2'
  OBVIOUS
<1>1. IInv'
  BY StepInv DEF IInv2
<1>2. CASE UNCHANGED vars
  BY <1>1, <1>2, SameSettled DEF vars, IInv2, PlansAnswer
<1>3. ASSUME NEW s \in Sessions, Create(s) \/ Change(s) PROVE PlansAnswer' /\ Settled'
  BY <1>3, CreateOffers, ChangeOffers, OfferInv, OfferAnswers, SameSettled DEF IInv2
<1>4. ASSUME NEW s \in Sessions, Preview(s) PROVE PlansAnswer' /\ Settled'
  BY <1>4, PreviewAnswers, PreviewInv, SameSettled DEF IInv2
<1>7. ASSUME NEW s \in Sessions, ReadAgain(s) PROVE PlansAnswer' /\ Settled'
  BY <1>7, ReadAnswers, ReadInv, SameSettled DEF IInv2
<1>5. ASSUME NEW s \in Sessions, Drop(s) PROVE PlansAnswer' /\ Settled'
  BY <1>5, RemoveAnswers, SameSettled DEF IInv2, Drop
<1>6. ASSUME NEW s \in Sessions, Confirm(s) \/ Apply(s) PROVE PlansAnswer' /\ Settled'
  <2>1. plan[s] # NoPlan /\ Write(s)
    BY <1>6 DEF Confirm, Apply
  <2>2. plan' = [plan EXCEPT ![s] = NoPlan]
    BY <2>1 DEF Write
  <2> QED BY <2>1, <2>2, RemoveAnswers, WriteSettled DEF IInv2
<1> QED BY <1>1, <1>2, <1>3, <1>4, <1>5, <1>6, <1>7 DEF Next, Publish, IInv2

\* A Forecast is closed by exactly one Resolution, and an open one has none, as long as
\* no file is written that had changed since it was validated: of any number of Web plans
\* for one Forecast the confirmation lets one through.  Two command lines can both resolve
\* it; that is a write of a changed file, and the theorem says nothing after it.
THEOREM OneResolutionOnly == Spec => []OneResolution
<1>1. IInv2 => OneResolution
  BY DEF IInv2, Settled, OneResolution
<1> QED BY <1>1, InitInv2, StepInv2, PTL DEF Spec

(***************************************************************************)
(* The rules between objects, and the chain of successors.                 *)
(*                                                                         *)
(* Every object stands in the repository, and every plan stands in the     *)
(* repository as it would be with the plan in it.  A publication that      *)
(* writes no changed file makes the repository grow, and so do the         *)
(* overlays of the other plans: whatever stood goes on to stand.           *)
(***************************************************************************)
PlansKeep ==
  \A s \in Sessions : plan[s] # NoPlan /\ plan[s].changed = {} =>
    KeepsRead(plan[s].read, plan[s].writes)

PlansStand ==
  clobbered = {} =>
    \A s \in Sessions : plan[s] # NoPlan /\ plan[s].changed = {} => Standing(plan[s].writes)

AllStand == clobbered = {} => \A f \in Existing(repo) : Stands(repo, f)

IInv3 == IInv /\ PlansKeep /\ PlansStand /\ AllStand /\ SupersessionEnds

LEMMA InitInv3 == Init => IInv3
<1> SUFFICES ASSUME Init PROVE IInv3
  OBVIOUS
<1>1. PlansKeep /\ PlansStand
  BY DEF Init, PlansKeep, PlansStand
<1>2. AllStand
  BY SeedIsValid, ValidStands DEF Init, AllStand
<1>3. SupersessionEnds
  BY SeedIsValid DEF Init, SupersessionEnds
<1> QED BY <1>1, <1>2, <1>3, InitInv DEF IInv3

\* A step that changes one plan.
LEMMA PlanKeeps ==
  ASSUME IInv, PlansKeep, PlansStand, NEW s \in Sessions, NEW p, plan' = [plan EXCEPT ![s] = p],
         UNCHANGED <<repo, clobbered>>,
         p # NoPlan /\ p.changed = {} =>
           KeepsRead(p.read, p.writes) /\ (clobbered = {} => Standing(p.writes))
  PROVE  PlansKeep' /\ PlansStand'
<1>1. \A c \in Sessions : plan'[c] = IF c = s THEN p ELSE plan[c]
  BY DEF IInv, TypeOK
<1>2. PlansKeep'
  BY <1>1 DEF PlansKeep
<1>3. PlansStand'
  BY <1>1 DEF PlansStand, Standing
<1> QED BY <1>2, <1>3

LEMMA OfferKeeps ==
  ASSUME IInv, PlansKeep, PlansStand, NEW s \in Sessions, Offered(s)
  PROVE  PlansKeep' /\ PlansStand'
<1>1. PICK w, k : plan' = [plan EXCEPT ![s] = OfferedPlan(w, k)] /\ Good(w)
  BY OfferPlan
<1> DEFINE now == [f \in DOMAIN w |-> repo[f]]
<1>2. OfferedPlan(w, k).read = now /\ OfferedPlan(w, k).writes = w
  BY DEF OfferedPlan
<1>3. \A f \in DOMAIN w : now[f] = repo[f]
  OBVIOUS
<1> HIDE DEF now
<1>4. KeepsRead(now, w) /\ Standing(w)
  BY <1>1, <1>3 DEF Good, KeepsRead
<1> QED BY <1>1, <1>2, <1>4, PlanKeeps, OfferPlan

LEMMA ReadKeeps ==
  ASSUME IInv, PlansKeep, PlansStand, NEW s \in Sessions, ReadAgain(s)
  PROVE  PlansKeep' /\ PlansStand'
<1>1. PICK f, q : f \in plan[s].todo /\ plan' = [plan EXCEPT ![s] = q] /\ ReadOne(plan[s], f, q)
  BY ReadPlan
<1>2. q.changed = {} => plan[s].changed = {} /\ q.read = plan[s].read /\ q.writes = plan[s].writes
  BY <1>1 DEF ReadOne
<1>3. plan[s] # NoPlan /\ UNCHANGED <<repo, clobbered>>
  BY ReadPlan
<1> QED BY <1>1, <1>2, <1>3, PlanKeeps DEF PlansKeep, PlansStand

LEMMA PreviewKeeps ==
  ASSUME IInv, PlansKeep, PlansStand, NEW s \in Sessions, Preview(s)
  PROVE  PlansKeep' /\ PlansStand'
<1>1. PICK q : /\ plan' = [plan EXCEPT ![s] = q] /\ q.read = plan[s].read
               /\ q.writes = plan[s].writes /\ q.changed = plan[s].changed
  BY PreviewPlan
<1>2. plan[s] # NoPlan /\ UNCHANGED <<repo, clobbered>>
  BY PreviewPlan
<1> QED BY <1>1, <1>2, PlanKeeps DEF PlansKeep, PlansStand

LEMMA DropKeeps ==
  ASSUME IInv, PlansKeep, PlansStand, NEW s \in Sessions, Drop(s)
  PROVE  PlansKeep' /\ PlansStand'
BY PlanKeeps DEF Drop

LEMMA SameStand ==
  AllStand /\ SupersessionEnds /\ UNCHANGED <<repo, clobbered>> => (AllStand /\ SupersessionEnds)'
BY DEF AllStand, SupersessionEnds, Existing, OfType, Ends

\* A publication that writes no changed file turns the repository into the overlay.
LEMMA WriteOverlays ==
  ASSUME IInv3, NEW s \in Sessions, plan[s] # NoPlan, Write(s), clobbered' = {}
  PROVE  /\ clobbered = {} /\ plan[s].changed = {} /\ repo' = Overlay(repo, plan[s].writes)
         /\ DOMAIN plan[s].writes \subseteq Files
         /\ \A f \in DOMAIN plan[s].writes : repo[f] = plan[s].read[f]
         /\ Grows(repo, repo')
<1>1. /\ clobbered = {} /\ plan[s].changed = {} /\ DOMAIN plan[s].writes \subseteq Files
      /\ \A f \in DOMAIN plan[s].writes : repo[f] = plan[s].read[f]
  BY WriteFiles DEF IInv3
<1>2. repo' = Overlay(repo, plan[s].writes)
  BY DEF Write, Overlay
<1>3. KeepsRead(repo, plan[s].writes)
  BY <1>1 DEF IInv3, PlansKeep, KeepsRead
<1> QED BY <1>1, <1>2, <1>3, GrowsOver DEF IInv3, IInv

LEMMA SameKeeps == ASSUME NEW f, NEW o, o # Absent PROVE Keeps(f, o, o)
BY DEF Keeps

LEMMA WriteStand ==
  ASSUME IInv3, NEW s \in Sessions, plan[s] # NoPlan, Write(s) PROVE AllStand'
<1> SUFFICES ASSUME clobbered' = {}, NEW f \in Existing(repo') PROVE Stands(repo', f)
  BY DEF AllStand
<1>1. /\ repo' = Overlay(repo, plan[s].writes) /\ Grows(repo, repo')
      /\ clobbered = {} /\ plan[s].changed = {}
  BY WriteOverlays
<1>2. CASE f \in DOMAIN plan[s].writes
  BY <1>1, <1>2 DEF IInv3, PlansStand, Standing
<1>3. CASE f \notin DOMAIN plan[s].writes
  <2>1. f \in Files /\ repo'[f] = repo[f] /\ f \in Existing(repo)
    BY <1>1, <1>3 DEF Overlay, Existing
  <2>2. Stands(repo, f)
    BY <1>1, <2>1 DEF IInv3, AllStand
  <2> QED BY <1>1, <2>1, <2>2, StandsOn
<1> QED BY <1>2, <1>3

\* The other plans stand on in what has grown under them.
LEMMA WritePlans ==
  ASSUME IInv3, NEW s \in Sessions, plan[s] # NoPlan, Write(s)
  PROVE  PlansKeep' /\ PlansStand'
<1>1. \A c \in Sessions : plan'[c] = IF c = s THEN NoPlan ELSE plan[c]
  BY DEF Write, IInv3, IInv, TypeOK
<1>2. PlansKeep'
  BY <1>1 DEF IInv3, PlansKeep
<1>3. PlansStand'
  <2> SUFFICES ASSUME clobbered' = {}, NEW c \in Sessions, plan'[c] # NoPlan,
                      plan[c].changed = {}, NEW f \in DOMAIN plan[c].writes
               PROVE  Stands(Overlay(repo', plan[c].writes), f)
    BY <1>1 DEF PlansStand, Standing
  <2> DEFINE w == plan[c].writes
             r == Overlay(repo, w)
             q == Overlay(repo', w)
  <2>1. plan[c] # NoPlan /\ IsPlan(plan[c])
    BY <1>1 DEF IInv3, IInv, TypeOK
  <2>2. DOMAIN w \subseteq Files /\ \A g \in DOMAIN w : w[g] # Absent
    BY <2>1, AbsentIsNoObject DEF IsPlan, PlanFor
  <2>3. Stands(r, f)
    BY <2>1, WriteOverlays DEF IInv3, PlansStand, Standing
  <2> HIDE DEF w
  <2>4. f \in Files /\ f \in Existing(r) /\ q[f] = r[f]
    BY <2>2 DEF Overlay, Existing, w
  <2>5. Grows(r, q)
    <3> SUFFICES ASSUME NEW g \in Existing(r) PROVE Keeps(g, r[g], q[g])
      BY DEF Grows
    <3>1. CASE g \in DOMAIN w
      BY <3>1, <2>2, SameKeeps DEF Overlay
    <3>2. CASE g \notin DOMAIN w
      <4>1. g \in Files /\ r[g] = repo[g] /\ q[g] = repo'[g] /\ g \in Existing(repo)
        BY <3>2 DEF Overlay, Existing
      <4> QED BY <4>1, WriteOverlays DEF Grows
    <3> QED BY <3>1, <3>2
  <2> HIDE DEF r, q
  <2>6. Stands(q, f)
    BY <2>3, <2>4, <2>5, StandsOn
  <2> QED BY <2>6 DEF q, w
<1> QED BY <1>2, <1>3

\* A new link leads to an object without a successor, so it closes no circle.
LEMMA WriteEnds ==
  ASSUME IInv3, NEW s \in Sessions, plan[s] # NoPlan, Write(s) PROVE SupersessionEnds'
<1> DEFINE w == plan[s].writes
           Chain(r) == OfType(r, "report") \cup OfType(r, "recommendation")
<1> SUFFICES ASSUME clobbered' = {}, NEW S \in SUBSET Chain(repo'), S # {}
             PROVE  \E f \in S : \A g \in S : repo'[f].supersededBy # IdOf[g]
  BY DEF SupersessionEnds, Ends
<1>1. /\ clobbered = {} /\ plan[s].changed = {} /\ DOMAIN w \subseteq Files
      /\ \A f \in DOMAIN w : repo[f] = plan[s].read[f] /\ repo'[f] = w[f]
      /\ \A f \in Files \ DOMAIN w : repo'[f] = repo[f]
  BY WriteOverlays DEF Overlay
<1>2. Ends(repo)
  BY <1>1 DEF IInv3, SupersessionEnds
<1>3. \A f \in DOMAIN w : TypeOf[f] \in Chained =>
        \/ w[f].supersededBy = Successor(repo[f])
        \/ \E g \in DOMAIN w : /\ TypeOf[g] \in Chained /\ w[f].supersededBy = IdOf[g]
                               /\ w[g].supersededBy = None
  BY <1>1 DEF IInv3, IInv, PlansLink, Linked
<1>4. \A f \in S : f \in Files /\ TypeOf[f] \in Chained /\ repo'[f] # Absent
  BY DEF OfType, Existing, Chained
<1> HIDE DEF w
<1>5. CASE \E f \in S, g \in DOMAIN w :
             TypeOf[g] \in Chained /\ repo'[f].supersededBy = IdOf[g] /\ w[g].supersededBy = None
  <2>1. PICK f \in S, g \in DOMAIN w :
          TypeOf[g] \in Chained /\ repo'[f].supersededBy = IdOf[g] /\ w[g].supersededBy = None
    BY <1>5
  <2>2. CASE g \in S
    <3>1. repo'[g].supersededBy = None
      BY <2>1, <1>1
    <3>2. \A h \in S : IdOf[h] # None
      BY <1>4, ValidationConstants
    <3> QED BY <2>2, <3>1, <3>2
  <2>3. CASE g \notin S
    <3>1. \A h \in S : IdOf[h] # IdOf[g]
      BY <2>1, <2>3, <1>1, <1>4, ReportIds
    <3> QED BY <2>1, <3>1
  <2> QED BY <2>2, <2>3
<1>6. CASE \A f \in S : repo'[f].supersededBy = Successor(repo[f])
  <2>1. CASE \E f \in S : repo[f] = Absent
    <3>1. PICK f \in S : repo[f] = Absent
      BY <2>1
    <3>2. repo'[f].supersededBy = None
      BY <3>1, <1>6 DEF Successor
    <3>3. \A h \in S : IdOf[h] # None
      BY <1>4, ValidationConstants
    <3> QED BY <3>2, <3>3
  <2>2. CASE \A f \in S : repo[f] # Absent
    <3>1. S \in SUBSET (OfType(repo, "report") \cup OfType(repo, "recommendation"))
      BY <2>2, <1>4 DEF OfType, Existing, Chained
    <3>2. PICK f \in S : \A g \in S : repo[f].supersededBy # IdOf[g]
      BY <3>1, <1>2 DEF Ends
    <3>3. repo'[f].supersededBy = repo[f].supersededBy
      BY <2>2, <1>6 DEF Successor
    <3> QED BY <3>2, <3>3
  <2> QED BY <2>1, <2>2
<1>7. ASSUME NEW f \in S, repo'[f].supersededBy # Successor(repo[f])
      PROVE  \E g \in DOMAIN w :
               TypeOf[g] \in Chained /\ repo'[f].supersededBy = IdOf[g] /\ w[g].supersededBy = None
  <2>1. CASE f \in DOMAIN w
    BY <2>1, <1>1, <1>3, <1>4, <1>7
  <2>2. CASE f \notin DOMAIN w
    BY <2>2, <1>1, <1>4, <1>7 DEF Successor
  <2> QED BY <2>1, <2>2
<1> QED BY <1>5, <1>6, <1>7

LEMMA StepInv3 == IInv3 /\ [Next]_vars => IInv3'
<1> SUFFICES ASSUME IInv3, [Next]_vars PROVE IInv3'
  OBVIOUS
<1>1. IInv'
  BY StepInv DEF IInv3
<1> DEFINE Rest == PlansKeep' /\ PlansStand' /\ AllStand' /\ SupersessionEnds'
<1>2. CASE UNCHANGED vars
  BY <1>1, <1>2, SameStand DEF vars, IInv3, PlansKeep, PlansStand, Standing
<1>3. ASSUME NEW s \in Sessions, Create(s) \/ Change(s) PROVE Rest
  BY <1>3, CreateOffers, ChangeOffers, OfferInv, OfferKeeps, SameStand DEF IInv3
<1>7. ASSUME NEW s \in Sessions, ReadAgain(s) PROVE Rest
  BY <1>7, ReadKeeps, ReadInv, SameStand DEF IInv3
<1>4. ASSUME NEW s \in Sessions, Preview(s) PROVE Rest
  BY <1>4, PreviewKeeps, PreviewInv, SameStand DEF IInv3
<1>5. ASSUME NEW s \in Sessions, Drop(s) PROVE Rest
  BY <1>5, DropKeeps, DropInv, SameStand DEF IInv3
<1>6. ASSUME NEW s \in Sessions, Confirm(s) \/ Apply(s) PROVE Rest
  <2>1. plan[s] # NoPlan /\ Write(s)
    BY <1>6 DEF Confirm, Apply
  <2> QED BY <2>1, WriteStand, WritePlans, WriteEnds
<1> QED BY <1>1, <1>2, <1>3, <1>4, <1>5, <1>6, <1>7 DEF Next, Publish, IInv3

\* What stands satisfies the rules of the validation, if no two files share an id.
LEMMA StandsValid ==
  ASSUME NEW r, UniqueIds(r), NEW f \in Existing(r), Stands(r, f)
  PROVE  /\ EvidenceRule(r, f) /\ GeneratedRule(r, f) /\ ReportPairRule(r, f)
         /\ ExtractionRule(r, f)
         /\ TypeOf[f] \notin {"company", "sector"} => ReferenceRule(r, f)
<1>1. \A id : \A g, h \in Holders(r, id) : g = h
  BY DEF UniqueIds, Holders
<1>2. Needy(f, r[f]) => \A id \in r[f].basis : Reviewed(r, id)
  BY <1>1 DEF Stands, Backed, Reviewed
<1>3. ExtractionRule(r, f)
  BY <1>1 DEF Stands, Extracted, ExtractionRule
<1> QED BY <1>2, <1>3 DEF Stands, Referring, Needy, EvidenceRule, GeneratedRule

\* Reviewed work rests on reviewed Evidence, Events cite extracted Sources, Reports that
\* supersede each other say so in both files and every reference leads somewhere, in
\* every state: although an operation checks this long before it writes, and a
\* confirmation compares only the files it writes.  It holds until a file is written that
\* had changed since it was validated, or an id is used twice.
THEOREM RulesBetweenKept == Spec => []RulesKept
<1>1. IInv3 => RulesKept
  BY StandsValid DEF IInv3, AllStand, RulesKept
<1> QED BY <1>1, InitInv3, StepInv3, PTL DEF Spec

\* No circle of successors, however many Reports and Recommendations are superseded at
\* the same time, as long as no file is written that had changed since it was validated.
THEOREM SupersessionAcyclic == Spec => []SupersessionEnds
<1>1. IInv3 => SupersessionEnds
  BY DEF IInv3
<1> QED BY <1>1, InitInv3, StepInv3, PTL DEF Spec

=============================================================================
