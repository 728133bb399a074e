------------------------- MODULE ResearchValidation -------------------------
(***************************************************************************)
(* The rules that services/validation.py enforces on the Markdown          *)
(* repository, as far as they depend on what the life-cycle operations     *)
(* change.  A repository maps each path to the object it holds.  A path    *)
(* fixes the type and the permanent id of its object; two paths may carry  *)
(* the same id, because the names of Sources and Events also hold a slug.  *)
(*                                                                         *)
(* The `basis' of an object are the ids that its authority rests on:       *)
(* source_ids of an Event, a Resolution or a Valuation, evidence_ids of a  *)
(* Report or an Assertion, the Evidence for and against a Thesis.          *)
(***************************************************************************)
EXTENDS Naturals, FiniteSets

CONSTANTS
  Files,      \* paths of objects
  Types,      \* object types
  TypeOf,     \* type of the object at a path
  Ids,        \* permanent ids
  IdOf,       \* id of the object at a path
  Editions,   \* what a generation fingerprint hashes besides the basis
  None,       \* an empty field
  Absent      \* no file

ASSUME ValidationConstants ==
  /\ TypeOf \in [Files -> Types] /\ IdOf \in [Files -> Ids]
  /\ None \notin Ids /\ None \notin Editions
  /\ \A f, g \in Files : IdOf[f] = IdOf[g] /\ f # g => TypeOf[f] \in {"source", "event"}

ReviewStatuses == {"pending", "reviewed", "rejected", "superseded"}
Statuses == {"captured", "processed", "draft", "final", "superseded", "open", "done",
             "resolved", "void", "active", "closed", "applied", "completed"}

\* generation_fingerprint: a hash of the basis and of the rest of the request.
Prints == (SUBSET Ids) \X Editions

\* `ready' is the one field that the rules of a type ask for besides: review_date
\* of a Thesis, "Event extraction completed" of a Source, data_license of a Valuation.
Objects == [status: Statuses, review: ReviewStatuses, basis: SUBSET Ids,
            subject: Ids \cup {None}, supersedes: Ids \cup {None},
            supersededBy: Ids \cup {None}, ready: BOOLEAN,
            print: Prints \cup {None}]

ASSUME AbsentIsNoObject == Absent \notin Objects

Existing(r) == {f \in Files : r[f] # Absent}
OfType(r, t) == {f \in Existing(r) : TypeOf[f] = t}
Holders(r, id) == {f \in Existing(r) : IdOf[f] = id}
Reviewed(r, id) == \A f \in Holders(r, id) : r[f].review = "reviewed"

(***************************************************************************)
(* Rules about one object.                                                 *)
(***************************************************************************)
ThesisRule(f, o) == TypeOf[f] = "thesis" /\ o.review = "reviewed" => o.ready

ReportRule(f, o) ==
  TypeOf[f] = "report" =>
    /\ o.status = "final" => o.review = "reviewed"
    /\ o.status = "draft" => o.review # "reviewed"
    /\ o.supersededBy # None <=> o.status = "superseded" /\ o.review = "superseded"

ForecastRule(f, o) == TypeOf[f] = "forecast" /\ o.status = "open" => o.review = "reviewed"

PostureRule(f, o) ==
  TypeOf[f] = "recommendation" /\ o.status = "active" => o.review = "reviewed"

LicenseRule(f, o) ==
  TypeOf[f] = "valuation" /\ o.review = "reviewed" => o.ready

(***************************************************************************)
(* Rules about an object and those it refers to.                           *)
(***************************************************************************)
UniqueIds(r) == \A f, g \in Existing(r) : IdOf[f] = IdOf[g] => f = g

\* What a reference of each type of object must name.
BasisType(t) ==
  CASE t \in {"event", "resolution", "valuation"} -> "source"
    [] t \in {"thesis", "report", "assertion", "run", "forecast"} -> "event"
    [] t = "company" -> "sector"
    [] OTHER -> "none"

ReferenceRule(r, f) ==
  /\ \A id \in r[f].basis :
       \E g \in Holders(r, id) : TypeOf[g] = BasisType(TypeOf[f])
  /\ \A id \in {r[f].supersedes, r[f].supersededBy} \ {None} :
       \E g \in Holders(r, id) : TypeOf[g] = TypeOf[f]
  /\ r[f].subject # None => Holders(r, r[f].subject) # {}

\* A reviewed Report or Thesis rests on reviewed Evidence.
EvidenceRule(r, f) ==
  TypeOf[f] \in {"report", "thesis"} /\ r[f].review = "reviewed" =>
    \A id \in r[f].basis : Reviewed(r, id)

\* A generated Report does so from the start.
GeneratedRule(r, f) ==
  TypeOf[f] = "report" /\ r[f].print # None => \A id \in r[f].basis : Reviewed(r, id)

\* A reviewed Assertion, Resolution or Valuation has something reviewed to rest on.
AssertionRule(r, f) ==
  TypeOf[f] = "assertion" /\ r[f].review = "reviewed" =>
    \E id \in r[f].basis : Reviewed(r, id)

ResolutionRule(r, f) ==
  TypeOf[f] = "resolution" /\ r[f].review = "reviewed" =>
    \E id \in r[f].basis : Reviewed(r, id)

ValuationRule(r, f) ==
  TypeOf[f] = "valuation" /\ r[f].review = "reviewed" =>
    \E id \in r[f].basis : Reviewed(r, id)

\* superseded_by and supersedes point at each other, for a Report once it is final.
SuccessorNames(r, f) ==
  r[f].supersededBy # None =>
    \A g \in Holders(r, r[f].supersededBy) : r[g].supersedes = IdOf[f]
PriorNames(r, f) ==
  r[f].supersedes # None =>
    \A g \in Holders(r, r[f].supersedes) : r[g].supersededBy = IdOf[f]

ReportPairRule(r, f) ==
  TypeOf[f] = "report" =>
    /\ SuccessorNames(r, f)
    /\ r[f].status = "final" /\ r[f].review = "reviewed" => PriorNames(r, f)

DecisionPairRule(r, f) ==
  TypeOf[f] \in {"recommendation", "valuation"} =>
    SuccessorNames(r, f) /\ PriorNames(r, f)

\* A Source that an Event cites is marked as extracted.
ExtractionRule(r, f) ==
  TypeOf[f] = "event" => \A id \in r[f].basis : \A g \in Holders(r, id) : r[g].ready

UniquePrints(r) ==
  \A f, g \in Existing(r) :
    TypeOf[f] = TypeOf[g] /\ r[f].print # None /\ r[f].print = r[g].print => f = g

(***************************************************************************)
(* validate_repository(): no finding of level error.                       *)
(***************************************************************************)
OwnRules(f, o) ==
  ReportRule(f, o) /\ ForecastRule(f, o) /\ PostureRule(f, o)

Valid(r) ==
  /\ UniqueIds(r) /\ UniquePrints(r)
  /\ \A f \in Existing(r) :
       /\ OwnRules(f, r[f]) /\ ThesisRule(f, r[f]) /\ LicenseRule(f, r[f])
       /\ ReferenceRule(r, f) /\ EvidenceRule(r, f) /\ GeneratedRule(r, f)
       /\ AssertionRule(r, f) /\ ResolutionRule(r, f) /\ ValuationRule(r, f)
       /\ ReportPairRule(r, f) /\ DecisionPairRule(r, f) /\ ExtractionRule(r, f)
=============================================================================
