-------------------------- MODULE ResearchObjects --------------------------
(***************************************************************************)
(* The life cycles of research objects: the operations of the services     *)
(* that create, review, open, resolve, activate, close and supersede them, *)
(* as they run for Web sessions and on the command line at the same time.  *)
(*                                                                         *)
(* Every operation validates the whole repository and decides on what it   *)
(* has read there.  Then it reads each file that it changes once more, and *)
(* sets its fields in that text: what others wrote in between is kept, and *)
(* what was checked before is not checked again.  It writes the files      *)
(* later.  A Web session shows the plan for confirmation and compares the  *)
(* files it writes, and only these, before it publishes them.  The command *)
(* line commits at once and compares nothing: it only refuses to create a  *)
(* file that exists.                                                       *)
(*                                                                         *)
(* How a plan is published is the subject of FileTransaction and           *)
(* RepositoryMutation; here publication is one step.                       *)
(***************************************************************************)
EXTENDS ResearchValidation

CONSTANTS
  Sessions,     \* browser sessions and command line processes
  Web,          \* the browser sessions; one Web process serves them all
  SeriesOf,     \* series in which the id of a file is numbered
  NumberOf,     \* number of the file in its series
  Seed,         \* repository at the start
  NoPlan,
  Batches,      \* bound: sets of files that one review may name or one new object cite
  MaxCommits    \* bound: plans published

ASSUME ObjectConstants ==
  /\ Web \subseteq Sessions
  /\ NumberOf \in [Files -> Nat]
  /\ Seed \in [Files -> Objects \cup {Absent}]
  /\ Batches \subseteq (SUBSET Files) \ {{}}
  /\ MaxCommits \in Nat

VARIABLES
  repo,         \* object at each path, or Absent
  plan,         \* what a session has computed and not yet written
  clobbered,    \* history: files written although they had changed since they were validated
  commits       \* number of plans published

vars == <<repo, plan, clobbered, commits>>

Slots == Objects \cup {Absent}
Fields == {"status", "review", "supersedes", "supersededBy", "ready"}
PlanFor(F) == [writes: [F -> Objects],        \* new content
               read: [F -> Slots],            \* the files when the repository was validated
               sets: [F -> SUBSET Fields],    \* what the operation sets in a file that is there
               todo: SUBSET F,                \* files still to be read again
               changed: SUBSET F,             \* history: files that differed when read again
               base: [F -> Slots],            \* the files when the plan was shown
               shown: BOOLEAN]                \* the preview was issued (Web only)

(***************************************************************************)
(* Names of new files.  Numbered types continue at the highest number; a   *)
(* date or slug in the name makes several paths of the same number.  Types *)
(* named by a slug alone have a series of their own for each path.         *)
(***************************************************************************)
LastNumber(r, s) ==
  LET used == {NumberOf[f] : f \in {g \in Existing(r) : SeriesOf[g] = s}}
  IN  IF used = {} THEN 0 ELSE CHOOSE n \in used : \A m \in used : m <= n

New(r, t) ==
  {f \in Files : TypeOf[f] = t /\ r[f] = Absent
                 /\ NumberOf[f] = LastNumber(r, SeriesOf[f]) + 1}

Blank == [status |-> "draft", review |-> "pending", basis |-> {}, subject |-> None,
          supersedes |-> None, supersededBy |-> None, ready |-> FALSE, print |-> None]

(***************************************************************************)
(* Plans.                                                                  *)
(***************************************************************************)
Init ==
  /\ repo = Seed
  /\ plan = [s \in Sessions |-> NoPlan]
  /\ clobbered = {}
  /\ commits = 0

\* Handlers of the Web process do not overlap: none starts while one is at work.
WebBusy == \E s \in Web : plan[s] # NoPlan /\ ~plan[s].shown

\* The start of every operation: the repository must be valid.
MayStart(s) ==
  /\ commits < MaxCommits
  /\ plan[s] = NoPlan
  /\ s \in Web => ~WebBusy
  /\ Valid(repo)

\* Some of these files.
Some(F) == {S \in Batches : S \subseteq F}

\* What an operation decides on the repository that it has validated.
Offer(s, writes, sets) ==
  LET now == [f \in DOMAIN writes |-> repo[f]]
  IN  /\ plan' = [plan EXCEPT ![s] =
                    [writes |-> writes, read |-> now, sets |-> sets,
                     todo |-> {f \in DOMAIN writes : repo[f] # Absent}, changed |-> {},
                     base |-> now, shown |-> FALSE]]
      /\ UNCHANGED <<repo, clobbered, commits>>

OfferNew(s, f, o) == Offer(s, [g \in {f} |-> o], [g \in {f} |-> {}])

OfferStatus(s, f, status) ==
  Offer(s, [g \in {f} |-> [repo[f] EXCEPT !.status = status]], [g \in {f} |-> {"status"}])

\* The object o with these fields of n.
Assign(o, n, fields) ==
  [o EXCEPT !.status = IF "status" \in fields THEN n.status ELSE @,
            !.review = IF "review" \in fields THEN n.review ELSE @,
            !.supersedes = IF "supersedes" \in fields THEN n.supersedes ELSE @,
            !.supersededBy = IF "supersededBy" \in fields THEN n.supersededBy ELSE @,
            !.ready = IF "ready" \in fields THEN n.ready ELSE @]

\* The operation reads a file that it changes again, and sets its fields in what is
\* there now: the content it had in mind, unless the file has changed.
ReadAgain(s) ==
  /\ plan[s] # NoPlan
  /\ \E f \in plan[s].todo :
       LET p == plan[s]
           same == repo[f] = p.read[f]
       IN  /\ repo[f] # Absent
           /\ plan' = [plan EXCEPT
                ![s].writes[f] = IF same THEN @ ELSE Assign(repo[f], @, p.sets[f]),
                ![s].todo = @ \ {f},
                ![s].changed = IF same THEN @ ELSE @ \cup {f}]
  /\ UNCHANGED <<repo, clobbered, commits>>

(***************************************************************************)
(* Review.                                                                 *)
(***************************************************************************)
Reviewable == Types \ {"review", "action"}

\* Mutant of ReviewMoves: what is approved can be rejected.
ReviewMovesBack == {<<"pending", "reviewed">>, <<"pending", "rejected">>,
                    <<"reviewed", "superseded">>, <<"rejected", "pending">>,
                    <<"reviewed", "rejected">>}

ReviewMoves == {<<"pending", "reviewed">>, <<"pending", "rejected">>,
                <<"reviewed", "superseded">>, <<"rejected", "pending">>}

MayMove(from, to) == from = to \/ <<from, to>> \in ReviewMoves

Verdict == [approve |-> "reviewed", edit |-> "pending", reject |-> "rejected"]

\* Mutant of MayReview: the Evidence of a Thesis or Report is not looked at.
MayReviewUnsupported(r, f, decision) ==
  /\ TypeOf[f] \in Reviewable
  /\ MayMove(r[f].review, Verdict[decision])
  /\ decision = "approve" /\ TypeOf[f] = "report" => r[f].status = "draft"

MayReview(r, f, decision) ==
  /\ TypeOf[f] \in Reviewable
  /\ decision = "approve" /\ TypeOf[f] \in {"thesis", "report"} =>
       \A id \in r[f].basis : Reviewed(r, id)
  /\ MayMove(r[f].review, Verdict[decision])
  /\ decision = "approve" /\ TypeOf[f] = "report" => r[f].status = "draft"

Priors(r, f) == IF TypeOf[f] = "report" THEN Holders(r, r[f].supersedes) ELSE {}

\* The Reports that approving these targets supersedes.
MaySupersede(r, targets) ==
  \A f \in targets : \A g \in Priors(r, f) :
    /\ TypeOf[g] = "report" /\ g \notin targets
    /\ r[g].status = "final" /\ MayMove(r[g].review, "superseded")
    /\ \A h \in targets : g \in Priors(r, h) => h = f

Decided(f, o, decision) ==
  [o EXCEPT !.review = Verdict[decision],
            !.status = IF TypeOf[f] = "report" /\ decision = "approve" THEN "final" ELSE @]

Retired(o, successor) ==
  [o EXCEPT !.status = "superseded", !.review = "superseded", !.supersededBy = successor]

ReviewWrites(r, targets, decision, note) ==
  LET retired == IF decision = "approve" THEN UNION {Priors(r, f) : f \in targets} ELSE {}
  IN  [g \in targets \cup retired \cup {note} |->
         IF g = note THEN [Blank EXCEPT !.status = "applied"]
         ELSE IF g \in targets THEN Decided(g, r[g], decision)
         ELSE Retired(r[g], IdOf[CHOOSE f \in targets : g \in Priors(r, f)])]

ReviewSets(targets, decision, writes) ==
  [g \in DOMAIN writes |->
     IF g \notin targets THEN {"status", "review", "supersededBy"}
     ELSE IF TypeOf[g] = "report" /\ decision = "approve" THEN {"review", "status"}
     ELSE {"review"}]

Review(s) ==
  /\ MayStart(s)
  /\ \E targets \in Some(Existing(repo)), decision \in DOMAIN Verdict,
        note \in New(repo, "review") :
       /\ \A f \in targets : MayReview(repo, f, decision)
       /\ decision = "approve" => MaySupersede(repo, targets)
       /\ LET writes == ReviewWrites(repo, targets, decision, note)
          IN  Offer(s, writes, ReviewSets(targets, decision, writes))

(***************************************************************************)
(* New objects.                                                            *)
(***************************************************************************)
IdsOf(F) == {IdOf[f] : f \in F}
Unprinted(r, t, p) == \A f \in OfType(r, t) : r[f].print # p

\* The ids that an object of type t can be given.
Names(t) == {id \in Ids : \A f \in Files : IdOf[f] = id => TypeOf[f] = t}

DraftSource(s) ==
  /\ MayStart(s)
  /\ \E f \in New(repo, "source") : OfferNew(s, f, [Blank EXCEPT !.status = "captured"])

\* An Event, with the mark "extracted" on the Sources it cites.  (One that got the
\* mark meanwhile is left out or refused; here it is written as it is.)
EventWrites(r, f, sources, print) ==
  [g \in {f} \cup {h \in sources : ~r[h].ready} |->
     IF g = f THEN [Blank EXCEPT !.status = "active", !.basis = IdsOf(sources),
                                 !.print = print]
     ELSE [r[g] EXCEPT !.ready = TRUE]]

OfferEvent(s, f, sources, print) ==
  LET writes == EventWrites(repo, f, sources, print)
  IN  Offer(s, writes, [g \in DOMAIN writes |-> {"ready"}])

DraftEvent(s) ==
  /\ s \notin Web
  /\ MayStart(s)
  /\ \E f \in New(repo, "event"), sources \in Some(OfType(repo, "source")) :
       OfferEvent(s, f, sources, None)

\* A structured Event quotes a processed Source and carries a fingerprint.
GenerateEvent(s) ==
  /\ MayStart(s)
  /\ \E f \in New(repo, "event"), sources \in Some(OfType(repo, "source")),
        e \in Editions :
       /\ \E g \in sources : repo[g].status = "processed"
       /\ Unprinted(repo, "event", <<IdsOf(sources), e>>)
       /\ OfferEvent(s, f, sources, <<IdsOf(sources), e>>)

DraftReport(s) ==
  /\ s \notin Web
  /\ MayStart(s)
  /\ \E f \in New(repo, "report"), events \in Some(OfType(repo, "event")) :
       OfferNew(s, f, [Blank EXCEPT !.basis = IdsOf(events)])

\* A synthesized Report rests on reviewed Evidence and may supersede a reviewed Report.
GenerateReport(s) ==
  /\ MayStart(s)
  /\ \E f \in New(repo, "report"), events \in Some(OfType(repo, "event")),
        prior \in OfType(repo, "report") \cup {None}, e \in Editions :
       /\ \A g \in events : repo[g].review = "reviewed"
       /\ prior # None => repo[prior].review = "reviewed"
       /\ Unprinted(repo, "report", <<IdsOf(events), e>>)
       /\ OfferNew(s, f, [Blank EXCEPT !.basis = IdsOf(events),
                            !.print = <<IdsOf(events), e>>,
                            !.supersedes = IF prior = None THEN None ELSE IdOf[prior]])

\* A Company names Sectors and a Sector names Companies; they need not exist.
DraftEntity(s) ==
  /\ MayStart(s)
  /\ \E f \in New(repo, "company") \cup New(repo, "sector") :
       \E named \in SUBSET Names(BasisType(TypeOf[f])) :
         OfferNew(s, f, [Blank EXCEPT !.status = "active", !.basis = named])

\* A relation between two objects carries no Evidence; an impact carries its Event.
DraftAssertion(s) ==
  /\ MayStart(s)
  /\ \E f \in New(repo, "assertion") : OfferNew(s, f, [Blank EXCEPT !.status = "active"])

DraftImpact(s) ==
  /\ MayStart(s)
  /\ \E f \in New(repo, "assertion"), g \in OfType(repo, "event") :
       OfferNew(s, f, [Blank EXCEPT !.status = "active", !.basis = {IdOf[g]}])

DraftRun(s) ==
  /\ MayStart(s)
  /\ \E f \in New(repo, "run"), events \in Some(OfType(repo, "event")) :
       OfferNew(s, f, [Blank EXCEPT !.status = "completed", !.basis = IdsOf(events)])

DraftAction(s) ==
  /\ MayStart(s)
  /\ \E f \in New(repo, "action") : OfferNew(s, f, [Blank EXCEPT !.status = "open"])

CloseAction(s) ==
  /\ MayStart(s)
  /\ \E f \in OfType(repo, "action") :
       /\ repo[f].status = "open"
       /\ OfferStatus(s, f, "done")

(***************************************************************************)
(* Forecasts.                                                              *)
(***************************************************************************)
DraftForecast(s) ==
  /\ MayStart(s)
  /\ \E f \in New(repo, "forecast") : OfferNew(s, f, Blank)

\* Mutant of MayOpen: a Forecast opens before its review.
MayOpenEarly(o) == o.status = "draft"

MayOpen(o) == o.review = "reviewed" /\ o.status = "draft"

OpenForecast(s) ==
  /\ MayStart(s)
  /\ \E f \in OfType(repo, "forecast") :
       /\ MayOpen(repo[f])
       /\ OfferStatus(s, f, "open")

\* Mutant of MayResolve: a closed Forecast is resolved again.
MayResolveAgain(o) == o.status # "draft"

MayResolve(o) == o.status = "open"

\* The Resolution and the end of the Forecast, in one transaction.
ResolveForecast(s) ==
  /\ MayStart(s)
  /\ \E f \in OfType(repo, "forecast"), g \in New(repo, "resolution"),
        sources \in Some(OfType(repo, "source")), end \in {"resolved", "void"} :
       /\ MayResolve(repo[f])
       /\ Offer(s, [h \in {f, g} |->
                      IF h = g THEN [Blank EXCEPT !.status = "applied", !.subject = IdOf[f],
                                                  !.basis = IdsOf(sources)]
                      ELSE [repo[f] EXCEPT !.status = end]],
                   [h \in {f, g} |-> {"status"}])

(***************************************************************************)
(* Valuations and Recommendations.                                         *)
(***************************************************************************)
DraftValuation(s) ==
  /\ MayStart(s)
  /\ \E f \in New(repo, "valuation"), sources \in Some(OfType(repo, "source")) \cup {{}},
        licensed \in BOOLEAN :
       OfferNew(s, f, [Blank EXCEPT !.basis = IdsOf(sources), !.ready = licensed])

DraftRecommendation(s) ==
  /\ MayStart(s)
  /\ \E f \in New(repo, "recommendation"), g \in OfType(repo, "valuation") \cup {None} :
       OfferNew(s, f, [Blank EXCEPT !.subject = IF g = None THEN None ELSE IdOf[g]])

\* Mutant of MayActivate: a closed Recommendation becomes active again.
MayActivateAgain(o) == o.review = "reviewed"

MayActivate(o) == o.review = "reviewed" /\ o.status = "draft"

ActivateRecommendation(s) ==
  /\ MayStart(s)
  /\ \E f \in OfType(repo, "recommendation") :
       /\ MayActivate(repo[f])
       /\ OfferStatus(s, f, "active")

CloseRecommendation(s) ==
  /\ MayStart(s)
  /\ \E f \in OfType(repo, "recommendation") :
       /\ repo[f].status = "active"
       /\ OfferStatus(s, f, "closed")

\* Both pointers, in one transaction.
Link(r, old, new) ==
  [g \in {old, new} |->
     IF g = old THEN [r[old] EXCEPT !.status = "superseded", !.supersededBy = IdOf[new]]
     ELSE [r[new] EXCEPT !.supersedes = IdOf[old]]]

LinkSets(old, new) ==
  [g \in {old, new} |-> IF g = old THEN {"status", "supersededBy"} ELSE {"supersedes"}]

\* Mutant of MayReplace: the status of the successor is not looked at.
MayReplaceAny(old, new) ==
  /\ old.status = "active" /\ old.supersededBy = None
  /\ new.review = "reviewed"

MayReplace(old, new) ==
  /\ old.status = "active" /\ old.supersededBy = None
  /\ new.status = "active" /\ new.review = "reviewed"

SupersedeRecommendation(s) ==
  /\ MayStart(s)
  /\ \E old, new \in OfType(repo, "recommendation") :
       /\ IdOf[old] # IdOf[new] /\ MayReplace(repo[old], repo[new])
       /\ Offer(s, Link(repo, old, new), LinkSets(old, new))

SupersedeValuation(s) ==
  /\ MayStart(s)
  /\ \E old, new \in OfType(repo, "valuation") :
       /\ IdOf[old] # IdOf[new] /\ repo[old].supersededBy = None
       /\ Offer(s, Link(repo, old, new), LinkSets(old, new))

(***************************************************************************)
(* Publication.                                                            *)
(***************************************************************************)
\* prepare_repository_mutation() reads the files a third time before it shows the plan.
Preview(s) ==
  /\ s \in Web /\ plan[s] # NoPlan /\ plan[s].todo = {} /\ ~plan[s].shown
  /\ plan' = [plan EXCEPT ![s].shown = TRUE,
                          ![s].base = [f \in DOMAIN plan[s].writes |-> repo[f]]]
  /\ UNCHANGED <<repo, clobbered, commits>>

AsShown(s) == \A f \in DOMAIN plan[s].writes : repo[f] = plan[s].base[f]

NothingToCreateExists(s) ==
  \A f \in DOMAIN plan[s].writes : plan[s].read[f] = Absent => repo[f] = Absent

Write(s) ==
  LET p == plan[s]
  IN  /\ commits < MaxCommits
      /\ repo' = [f \in Files |-> IF f \in DOMAIN p.writes THEN p.writes[f] ELSE repo[f]]
      /\ clobbered' = clobbered \cup p.changed \cup {f \in DOMAIN p.writes : repo[f] # p.read[f]}
      /\ commits' = commits + 1
      /\ plan' = [plan EXCEPT ![s] = NoPlan]

Confirm(s) ==
  /\ s \in Web /\ plan[s] # NoPlan /\ plan[s].shown
  /\ ~WebBusy
  /\ AsShown(s)
  /\ Write(s)

Apply(s) ==
  /\ s \notin Web /\ plan[s] # NoPlan /\ plan[s].todo = {}
  /\ NothingToCreateExists(s)
  /\ Write(s)

\* A Web plan expires, is replaced or is refused at confirmation; the command line
\* refuses to create a file that exists or is stopped; reading again fails.
Drop(s) ==
  /\ plan[s] # NoPlan
  /\ plan' = [plan EXCEPT ![s] = NoPlan]
  /\ UNCHANGED <<repo, clobbered, commits>>

Create(s) ==
  \/ DraftSource(s) \/ DraftEvent(s) \/ GenerateEvent(s)
  \/ DraftReport(s) \/ GenerateReport(s) \/ DraftEntity(s)
  \/ DraftAssertion(s) \/ DraftImpact(s) \/ DraftRun(s) \/ DraftAction(s)
  \/ DraftForecast(s) \/ DraftValuation(s) \/ DraftRecommendation(s)

Change(s) ==
  \/ Review(s) \/ CloseAction(s) \/ OpenForecast(s) \/ ResolveForecast(s)
  \/ ActivateRecommendation(s) \/ CloseRecommendation(s)
  \/ SupersedeRecommendation(s) \/ SupersedeValuation(s)

Publish(s) == ReadAgain(s) \/ Preview(s) \/ Confirm(s) \/ Apply(s) \/ Drop(s)

Next == \E s \in Sessions : Create(s) \/ Change(s) \/ Publish(s)

Spec == Init /\ [][Next]_vars

(***************************************************************************)
(* Properties.                                                             *)
(***************************************************************************)
IsPlan(p) == DOMAIN p.writes \subseteq Files /\ p \in PlanFor(DOMAIN p.writes)

\* Type invariant.
TypeOK ==
  /\ repo \in [Files -> Slots]
  /\ DOMAIN plan = Sessions
  /\ \A s \in Sessions : plan[s] # NoPlan => IsPlan(plan[s])
  /\ clobbered \subseteq Files
  /\ commits \in 0 .. MaxCommits

\* Plans made at the same time leave every object within the rules about one object: an
\* open Forecast, an active Recommendation and a final Report are reviewed.  A file is
\* exempt once it was written although it had changed since the operation validated it:
\* the second reading keeps the change and nobody checks the result, so that a rejection
\* beside an approval of the same Report leaves it final and rejected.
LocalRules == \A f \in Existing(repo) \ clobbered : OwnRules(f, repo[f])

\* The rules between objects hold although every operation checks them long before
\* it writes, and a confirmation compares only the files it writes.  What an operation
\* saw reviewed, extracted or final stays so.  It holds until a file is written that had
\* changed since it was validated (the command line does that) or two files share an id.
RulesKept ==
  clobbered = {} /\ UniqueIds(repo) =>
    \A f \in Existing(repo) :
      /\ EvidenceRule(repo, f) /\ GeneratedRule(repo, f)
      /\ ReportPairRule(repo, f) /\ ExtractionRule(repo, f)
      /\ TypeOf[f] \notin {"company", "sector"} => ReferenceRule(repo, f)

\* A Forecast is closed by one Resolution, and never without one, until a file is written
\* that had changed since it was validated: of two Web plans for one Forecast only the
\* first can be confirmed.  Two command lines compare nothing: both can resolve it.
ResolvedOnce(r) ==
  \A f \in OfType(r, "forecast") :
    LET closing == {g \in OfType(r, "resolution") : r[g].subject = IdOf[f]}
    IN  IF r[f].status \in {"resolved", "void"} THEN \E g \in closing : closing = {g}
        ELSE closing = {}
OneResolution == clobbered = {} => ResolvedOnce(repo)

Ends(r) ==
  \A S \in SUBSET (OfType(r, "report") \cup OfType(r, "recommendation")) :
    S # {} => \E f \in S : \A g \in S : r[f].supersededBy # IdOf[g]

\* Following superseded_by from a Report or a Recommendation comes to an end, until a
\* file is written that had changed since it was validated.
SupersessionEnds == clobbered = {} => Ends(repo)

StatusMoves(t) ==
  CASE t = "report" -> {<<"draft", "final">>, <<"final", "superseded">>}
    [] t = "forecast" -> {<<"draft", "open">>, <<"open", "resolved">>, <<"open", "void">>}
    [] t = "recommendation" ->
         {<<"draft", "active">>, <<"active", "closed">>, <<"active", "superseded">>}
    [] t = "valuation" -> {<<"draft", "superseded">>}
    [] t = "action" -> {<<"open", "done">>}
    [] OTHER -> {}

\* The repository at the start is a valid one, and its decisions are consistent: what
\* is validated does not rule out an active Recommendation with a successor, nor two
\* objects that supersede each other.
ASSUME SeedIsValid ==
  /\ Valid(Seed) /\ ResolvedOnce(Seed) /\ Ends(Seed)
  /\ \A f \in OfType(Seed, "valuation") : Seed[f].status \in {"draft", "superseded"}
  /\ \A f \in OfType(Seed, "recommendation") :
       Seed[f].supersededBy # None => Seed[f].status = "superseded"

LegalMove(t, o, n) ==
  /\ n # Absent
  /\ MayMove(o.review, n.review)
  /\ o.status = n.status \/ <<o.status, n.status>> \in StatusMoves(t)
  /\ n.basis = o.basis /\ n.subject = o.subject /\ n.print = o.print
  /\ o.ready => n.ready
  /\ o.supersededBy # None => n.supersededBy = o.supersededBy

\* An object only moves forward in its life cycle, and what it rests on never changes,
\* whoever writes in between, unless its file is written although it had changed since
\* it was validated.
MovesAreLegal ==
  [][\A f \in Existing(repo) : f \notin clobbered' => LegalMove(TypeOf[f], repo[f], repo'[f])]_vars
=============================================================================
