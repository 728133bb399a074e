------------------------ MODULE CandidateQueueProofs ------------------------
(***************************************************************************)
(* Proofs about CandidateQueue, for any candidates, plans, jobs and        *)
(* bounds.                                                                 *)
(*                                                                         *)
(* A promotion touches the queue and the tree at different times; what it  *)
(* owns in between is the invariant.  FileOf says whose a published file   *)
(* is and how far its owner is, Own that nobody took it away, LinkedRow    *)
(* that a row which was linked once is never linked again.                 *)
(***************************************************************************)
EXTENDS CandidateQueue, WellFoundedInduction, TLAPS

PlanRecords ==
  [op: Operations \cup {None}, cand: Candidates \cup {None},
   page: (UNION {PagesOf[c] : c \in Candidates}) \cup {None},
   number: Numbers \cup {None}, version: Rows]

QueueType ==
  /\ job \in [Jobs -> {"idle", "expire", "purge", "discover", "insert"}]
  /\ todo \in [Jobs -> SUBSET Candidates]
  /\ manifests \in SUBSET Plans /\ overtaken \in SUBSET Candidates
  /\ faults \in 0 .. MaxFaults

CoreType ==
  /\ rows \in [Candidates -> Rows]
  /\ sources \in [Paths -> Plans \cup {None}]
  /\ plan \in [Plans -> PlanRecords]
  /\ pc \in [Plans -> Steps]
  /\ linked \in SUBSET Plans /\ overwritten \in SUBSET Plans

Working == {"locked", "checked", "published", "conflict", "failed",
            "note_conflict", "note_failed"}
Holds == {"published", "conflict", "failed"}
Left == Holds \cup {"abandoned", "dead"}

Promoting(r) == r.op = "promote" /\ r.cand \in Candidates /\ r.number \in Numbers

Fields ==
  \A p \in Plans :
    /\ pc[p] \in Working \/ (pc[p] = "planned" /\ (p \notin Web \/ plan[p].op = "promote"))
         => Promoting(plan[p])
    /\ pc[p] = "reading" => plan[p].op = "promote" /\ plan[p].cand \in Candidates
    /\ p \in linked => pc[p] = "done" /\ Promoting(plan[p])

FileOf ==
  \A p \in Plans, x \in Paths :
    sources[x] = p => x = PathOf(p) /\ (pc[p] \in Left \/ p \in linked)

Own ==
  overwritten = {} =>
    \A p \in Plans : p \in linked \/ pc[p] \in Holds => sources[PathOf(p)] = p

WasLinked(row) == row.status = "purged" \/ (row.status # "absent" /\ row.source # None)

LinkedRow == \A p \in linked : WasLinked(rows[plan[p].cand])

IInv ==
  /\ CoreType /\ QueueType
  /\ Fields /\ FileOf /\ Own /\ LinkedRow /\ OneSourcePerCandidate

LEMMA TypeOKSplit == TypeOK <=> CoreType /\ QueueType
BY DEF TypeOK, CoreType, QueueType, PlanRecords

(***************************************************************************)
(* The number of a new Source is one beyond the highest that is used.      *)
(***************************************************************************)
LEMMA HighestNumber ==
  ASSUME NEW S \in SUBSET Numbers, S # {}
  PROVE  \E n \in S : \A m \in S : m <= n
<1> DEFINE Above == {k \in Nat : \A m \in S : m <= k}
<1>1. MaxNumber \in Above
  BY QueueConstants DEF Numbers
<1>2. PICK k \in Above : \A n \in Above : k <= n
  <2> DEFINE Less == {ss \in Nat \X Nat : ss[1] < ss[2]}
  <2>1. \A m, n \in Nat : m < n => <<m, n>> \in Less
    OBVIOUS
  <2>2. IsWellFoundedOn(Less, Nat)
    BY NatLessThanWellFounded, Zenon DEF OpToRel
  <2> HIDE DEF Less
  <2>3. Above \subseteq Nat /\ Above # {}
    BY <1>1
  <2> HIDE DEF Above
  <2>4. \E k \in Above : \A n \in Above : ~ (<<n, k>> \in Less)
    BY <2>2, <2>3, WFMin, Zenon
  <2>5. PICK k \in Above : \A n \in Above : ~ (<<n, k>> \in Less)
    BY <2>4
  <2>6. \A n \in Above : k <= n
    <3> TAKE n \in Above
    <3>1. ~ (n < k)
      BY <2>1, <2>3, <2>5
    <3> QED BY <2>3, <3>1
  <2> QED BY <2>6
<1>3. S \subseteq Nat \ {0}
  BY QueueConstants DEF Numbers
<1>4. k \in S
  <2> SUFFICES ASSUME k \notin S PROVE FALSE
    OBVIOUS
  <2>1. \A m \in S : m <= k - 1
    BY <1>2, <1>3
  <2>2. k - 1 \in Nat
    <3>1. PICK m \in S : TRUE
      OBVIOUS
    <3> QED BY <1>2, <1>3, <3>1
  <2>3. k - 1 \in Above
    BY <2>1, <2>2
  <2> QED BY <1>2, <2>3
<1> QED BY <1>2, <1>4

LEMMA NextNumber == ASSUME LastNumber < MaxNumber PROVE LastNumber + 1 \in Numbers
<1> DEFINE used == {x[1] : x \in Published}
<1>1. used \subseteq Numbers
  BY DEF Published, Paths
<1>2. LastNumber \in Nat
  <2>1. CASE used = {}
    BY <2>1 DEF LastNumber
  <2>2. CASE used # {}
    <3>1. \E n \in used : \A m \in used : m <= n
      BY <1>1, <2>2, HighestNumber
    <3>2. LastNumber = CHOOSE n \in used : \A m \in used : m <= n
      BY <2>2 DEF LastNumber
    <3>3. LastNumber \in used
      BY <3>1, <3>2
    <3> QED BY <1>1, <3>3, QueueConstants DEF Numbers
  <2> QED BY <2>1, <2>2
<1> QED BY <1>2, QueueConstants DEF Numbers

LEMMA InitInv == Init => IInv
<1> SUFFICES ASSUME Init PROVE IInv
  OBVIOUS
<1>1. CoreType
  BY DEF Init, CoreType, Rows, Row, RowStatuses, NoPlan, PlanRecords, Steps
<1>2. QueueType
  BY QueueConstants DEF Init, QueueType
<1>3. \A p \in Plans : pc[p] = "idle" /\ p \notin linked
  BY DEF Init
<1>4. \A x \in Paths : sources[x] = None
  BY DEF Init
<1>5. Fields /\ FileOf /\ Own
  BY <1>3, <1>4, QueueConstants DEF Fields, FileOf, Own, Working, Holds
<1>6. linked = {}
  BY DEF Init
<1> QED BY <1>1, <1>2, <1>5, <1>6 DEF IInv, LinkedRow, OneSourcePerCandidate

(***************************************************************************)
(* What no transaction does to a row: it keeps the Source of a candidate   *)
(* until it purges it, and a purged row stays purged.                      *)
(***************************************************************************)
RowStep ==
  /\ rows' \in [Candidates -> Rows]
  /\ \A c \in Candidates :
       /\ rows[c].status = "purged" => rows'[c].status = "purged"
       /\ rows[c].status # "absent" =>
            \/ rows'[c].status = "purged"
            \/ rows'[c].status # "absent" /\ rows'[c].source = rows[c].source

LEMMA SameRows == ASSUME IInv, UNCHANGED rows PROVE RowStep
BY DEF IInv, CoreType, RowStep

LEMMA StatusStep ==
  ASSUME IInv, NEW c \in Candidates, NEW s \in RowStatuses \ {"absent"},
         rows[c].status # "purged", rows' = [rows EXCEPT ![c].status = s]
  PROVE  RowStep
BY DEF IInv, CoreType, RowStep, Rows

LEMMA RowStepLinked ==
  ASSUME IInv, RowStep, UNCHANGED linked,
         \A p \in linked : plan'[p].cand = plan[p].cand
  PROVE  LinkedRow' /\ OneSourcePerCandidate'
BY DEF IInv, RowStep, LinkedRow, WasLinked, OneSourcePerCandidate, Fields, Promoting, CoreType

\* A step that leaves the plans and the tree alone.
LEMMA QueueStep ==
  ASSUME IInv, RowStep, QueueType', UNCHANGED <<files, plan, pc, linked>>
  PROVE  IInv'
<1>1. CoreType'
  BY DEF IInv, CoreType, RowStep, files
<1>2. Fields' /\ FileOf' /\ Own'
  BY DEF IInv, Fields, FileOf, Own, PathOf, files
<1>3. LinkedRow' /\ OneSourcePerCandidate'
  BY RowStepLinked
<1> QED BY <1>1, <1>2, <1>3 DEF IInv

\* A step of one plan that leaves the tree alone.
LEMMA PlanStep ==
  ASSUME IInv, RowStep, QueueType', UNCHANGED <<files, linked>>,
         NEW p \in Plans, NEW l \in Steps, NEW r \in PlanRecords,
         pc' = [pc EXCEPT ![p] = l], plan' = [plan EXCEPT ![p] = r],
         p \notin linked,
         pc[p] \in Left => l \in Left /\ r = plan[p],
         l \in Holds => pc[p] \in Holds,
         l \in Working \/ (l = "planned" /\ (p \notin Web \/ r.op = "promote")) => Promoting(r),
         l = "reading" => r.op = "promote" /\ r.cand \in Candidates
  PROVE  IInv'
<1>1. \A q \in Plans : /\ pc'[q] = IF q = p THEN l ELSE pc[q]
                       /\ plan'[q] = IF q = p THEN r ELSE plan[q]
  BY DEF IInv, CoreType
<1>2. CoreType'
  BY DEF IInv, CoreType, RowStep, files
<1>3. Fields'
  BY <1>1 DEF IInv, Fields
<1>4. \A q \in Plans : q # p \/ pc[p] \in Left => PathOf(q)' = PathOf(q)
  BY <1>1 DEF PathOf
<1>5. FileOf'
  BY <1>1, <1>4 DEF IInv, FileOf, files
<1>6. Own'
  <2> SUFFICES ASSUME overwritten = {}, NEW q \in Plans, q \in linked \/ pc'[q] \in Holds
               PROVE  sources'[PathOf(q)'] = q
    BY DEF Own, files
  <2>1. q \in linked \/ pc[q] \in Holds
    BY <1>1
  <2>2. PathOf(q)' = PathOf(q)
    BY <1>1, <1>4, <2>1 DEF Left
  <2> QED BY <2>1, <2>2 DEF IInv, Own, files
<1>7. LinkedRow' /\ OneSourcePerCandidate'
  BY <1>1, RowStepLinked DEF IInv, CoreType
<1> QED BY <1>2, <1>3, <1>5, <1>6, <1>7 DEF IInv

LEMMA GoToInv ==
  ASSUME IInv, RowStep, QueueType', UNCHANGED <<files, linked>>,
         NEW p \in Plans, NEW l \in Steps, GoTo(p, l), p \notin linked,
         pc[p] \in Left => l \in Left,
         l \in Holds => pc[p] \in Holds,
         l \in Working \cup {"planned"} => Promoting(plan[p]),
         l # "reading"
  PROVE  IInv'
<1>1. plan[p] \in PlanRecords /\ plan' = [plan EXCEPT ![p] = plan[p]]
  BY DEF IInv, CoreType, GoTo
<1>2. pc' = [pc EXCEPT ![p] = l]
  BY DEF GoTo
<1> QED BY <1>1, <1>2, PlanStep

LEMMA EndInv ==
  ASSUME IInv, RowStep, QueueType', UNCHANGED <<files, linked>>,
         NEW p \in Plans, End(p), p \notin linked, pc[p] \notin Left
  PROVE  IInv'
<1>1. NoPlan \in PlanRecords /\ "done" \in Steps
  BY DEF NoPlan, PlanRecords, Rows, Row, RowStatuses, Steps
<1>2. "done" \notin Working \cup Holds \cup {"planned", "reading"}
  BY DEF Working, Holds
<1>3. pc' = [pc EXCEPT ![p] = "done"] /\ plan' = [plan EXCEPT ![p] = NoPlan]
  BY DEF End
<1> QED BY <1>1, <1>2, <1>3, PlanStep

LEMMA SettleInv ==
  ASSUME IInv, RowStep, QueueType', UNCHANGED <<files, linked>>,
         NEW p \in Plans, Settle(p), p \notin linked, pc[p] \notin Left, Promoting(plan[p])
  PROVE  IInv'
<1>1. CASE GoTo(p, "planned")
  <2>1. "planned" \in Steps \ (Holds \cup {"reading"})
    BY DEF Steps, Holds
  <2> QED BY <1>1, <2>1, GoToInv
<1>2. CASE End(p)
  BY <1>2, EndInv
<1> QED BY <1>1, <1>2 DEF Settle

LEMMA SameQueue == ASSUME IInv, UNCHANGED <<jobs, manifests>>, faults' \in 0 .. MaxFaults
                   PROVE  QueueType'
BY DEF IInv, QueueType, jobs

LEMMA FaultType == ASSUME IInv, Fault \/ UNCHANGED faults PROVE faults' \in 0 .. MaxFaults
BY QueueConstants DEF IInv, QueueType, Fault

(***************************************************************************)
(* Triage.                                                                 *)
(***************************************************************************)
LEMMA NotLinked == ASSUME IInv, NEW p \in Plans, pc[p] # "done" PROVE p \notin linked
BY DEF IInv, Fields

LEMMA Decision ==
  ASSUME IInv, NEW c \in Candidates, NEW op, MayDecide(op, rows[c].status)
  PROVE  /\ rows[c].status \in {"new", "expired", "dismissed"}
         /\ Decided(op) \in RowStatuses \ {"absent"}
BY DEF MayDecide, Decided, RowStatuses

LEMMA TriageInv == ASSUME IInv, Triage PROVE IInv'
<1>1. ASSUME NEW c \in Candidates, Dismiss(c) \/ Restore(c) PROVE IInv'
  <2>1. PICK op : MayDecide(op, rows[c].status)
                  /\ rows' = [rows EXCEPT ![c].status = Decided(op)]
    BY <1>1 DEF Dismiss, Restore
  <2>2. RowStep
    BY <2>1, Decision, StatusStep
  <2>3. UNCHANGED <<files, plan, pc, jobs, manifests, linked, faults>>
    BY <1>1 DEF Dismiss, Restore
  <2>4. QueueType'
    BY <2>3, FaultType, SameQueue
  <2> QED BY <2>2, <2>3, <2>4, QueueStep
<1>2. ASSUME NEW p \in Web, NEW op \in Operations, NEW c \in Candidates, WebPreview(p, op, c)
      PROVE  IInv'
  <2> DEFINE r == [op |-> op, cand |-> c, page |-> None, number |-> None, version |-> rows[c]]
  <2>1. p \in Plans /\ p \notin linked
    BY <1>2, NotLinked, QueueConstants DEF WebPreview
  <2>2. r \in PlanRecords /\ "planned" \in Steps \ (Working \cup Holds)
    BY DEF IInv, CoreType, PlanRecords, Steps, Working, Holds
  <2>3. pc' = [pc EXCEPT ![p] = "planned"] /\ plan' = [plan EXCEPT ![p] = r]
        /\ UNCHANGED <<rows, files, jobs, manifests, linked, faults>>
        /\ pc[p] \notin Left /\ r.op # "promote"
    BY <1>2 DEF WebPreview, Left, Holds
  <2>4. QueueType' /\ RowStep
    BY <2>3, FaultType, SameQueue, SameRows
  <2> HIDE DEF r
  <2> QED BY <2>1, <2>2, <2>3, <2>4, PlanStep
<1>3. ASSUME NEW p \in Web, WebDecide(p) PROVE IInv'
  <2>1. p \in Plans /\ p \notin linked /\ pc[p] \notin Left
    BY <1>3, NotLinked, QueueConstants DEF WebDecide, Left, Holds
  <2>2. End(p) /\ UNCHANGED <<files, jobs, manifests, linked, faults>>
    BY <1>3 DEF WebDecide
  <2>3. RowStep
    <3>1. CASE plan[p].cand \in Candidates
      BY <1>3, <3>1, Decision, StatusStep DEF WebDecide
    <3>2. CASE plan[p].cand \notin Candidates
      <4>1. rows' = rows
        BY <1>3, <3>2 DEF WebDecide, IInv, CoreType
      <4> QED BY <4>1, SameRows
    <3> QED BY <3>1, <3>2
  <2>4. QueueType'
    BY <2>2, FaultType, SameQueue
  <2> QED BY <2>1, <2>2, <2>3, <2>4, EndInv
<1>4. ASSUME NEW p \in Web, WebConflict(p) PROVE IInv'
  <2>1. p \in Plans /\ p \notin linked /\ pc[p] \notin Left
    BY <1>4, NotLinked, QueueConstants DEF WebConflict, Left, Holds
  <2>2. End(p) /\ UNCHANGED <<rows, files, jobs, manifests, linked, faults>>
    BY <1>4 DEF WebConflict
  <2>3. QueueType' /\ RowStep
    BY <2>2, FaultType, SameQueue, SameRows
  <2> QED BY <2>1, <2>2, <2>3, EndInv
<1> QED BY <1>1, <1>2, <1>3, <1>4 DEF Triage

(***************************************************************************)
(* Promotion.                                                              *)
(***************************************************************************)
LEMMA PrepareInv ==
  ASSUME IInv, NEW p \in Plans,
         (\E c \in Candidates : PrepareRead(p, c)) \/ PreparePlan(p) \/ PrepareRefused(p)
  PROVE  IInv'
<1>1. p \notin linked /\ pc[p] \notin Left
      /\ UNCHANGED <<rows, files, jobs, manifests, linked, faults>>
  BY NotLinked DEF PrepareRead, PreparePlan, PrepareRefused, Left, Holds
<1>2. QueueType' /\ RowStep
  BY <1>1, FaultType, SameQueue, SameRows
<1>3. {"reading", "planned"} \subseteq Steps \ Holds /\ "reading" \notin Working
  BY DEF Steps, Holds, Working
<1>4. ASSUME NEW c \in Candidates, PrepareRead(p, c) PROVE IInv'
  <2> DEFINE r == [plan[p] EXCEPT !.op = "promote", !.cand = c]
  <2>1. r \in PlanRecords /\ r.op = "promote" /\ r.cand \in Candidates
    BY DEF IInv, CoreType, PlanRecords, Operations
  <2>2. plan' = [plan EXCEPT ![p] = r] /\ pc' = [pc EXCEPT ![p] = "reading"]
    BY <1>4 DEF PrepareRead, IInv, CoreType
  <2> HIDE DEF r
  <2> QED BY <1>1, <1>2, <1>3, <2>1, <2>2, PlanStep
<1>5. ASSUME PreparePlan(p) PROVE IInv'
  <2>1. plan[p].op = "promote" /\ plan[p].cand \in Candidates
    BY <1>5 DEF PreparePlan, IInv, Fields
  <2>2. PICK page \in PagesOf[plan[p].cand] :
          plan' = [plan EXCEPT ![p].page = page, ![p].number = LastNumber + 1,
                               ![p].version = IF p \in Web THEN rows[plan[p].cand] ELSE @]
    BY <1>5 DEF PreparePlan
  <2> DEFINE r == [plan[p] EXCEPT !.page = page, !.number = LastNumber + 1,
                                  !.version = IF p \in Web THEN rows[plan[p].cand] ELSE @]
  <2>3. LastNumber + 1 \in Numbers
    BY <1>5, NextNumber DEF PreparePlan
  <2>4. r \in PlanRecords /\ Promoting(r)
    BY ZenonT(30), <2>1, <2>2, <2>3 DEF IInv, CoreType, PlanRecords, Promoting
  <2>5. plan' = [plan EXCEPT ![p] = r] /\ pc' = [pc EXCEPT ![p] = "planned"]
    BY <1>5, <2>2 DEF PreparePlan, IInv, CoreType
  <2> HIDE DEF r
  <2> QED BY <1>1, <1>2, <1>3, <2>4, <2>5, PlanStep
<1>6. ASSUME PrepareRefused(p) PROVE IInv'
  BY <1>1, <1>2, <1>6, EndInv DEF PrepareRefused
<1> QED BY <1>4, <1>5, <1>6

LEMMA MayPublishPlan ==
  ASSUME IInv, NEW p \in Plans, MayPublish(p) \/ pc[p] \in Working
  PROVE  Promoting(plan[p]) /\ p \notin linked
<1>1. pc[p] \in Working \/ (pc[p] = "planned" /\ p \notin Web)
  BY DEF MayPublish, Working
<1>2. Promoting(plan[p]) /\ pc[p] # "done"
  BY <1>1 DEF IInv, Fields, Working
<1> QED BY <1>2, NotLinked

LEMMA BeforePublishInv ==
  ASSUME IInv, NEW p \in Plans,
         Lock(p) \/ Preflight(p) \/ PreflightRefuses(p) \/ PublishFails(p)
  PROVE  IInv'
<1>1. UNCHANGED <<rows, files, jobs, manifests, linked>> /\ (Fault \/ UNCHANGED faults)
  BY DEF Lock, Preflight, PreflightRefuses, PublishFails
<1>2. QueueType' /\ RowStep
  BY <1>1, FaultType, SameQueue, SameRows
<1>3. pc[p] \in {"planned", "locked", "checked"}
  BY DEF Lock, Preflight, PreflightRefuses, PublishFails, MayPublish
<1>4. Promoting(plan[p]) /\ p \notin linked /\ pc[p] \notin Left
  <2>1. CASE Lock(p)
    BY <2>1, <1>3, NotLinked DEF Lock, IInv, Fields, Left, Holds
  <2>2. CASE ~Lock(p)
    BY <2>2, <1>3, MayPublishPlan
       DEF Preflight, PreflightRefuses, PublishFails, Left, Holds, Working
  <2> QED BY <2>1, <2>2
<1>5. {"locked", "checked"} \subseteq Steps \ (Holds \cup {"reading"})
  BY DEF Steps, Holds
<1>6. CASE GoTo(p, "locked") \/ GoTo(p, "checked")
  BY <1>1, <1>2, <1>4, <1>5, <1>6, GoToInv
<1>7. CASE Settle(p)
  BY <1>1, <1>2, <1>4, <1>7, SettleInv
<1> QED BY <1>6, <1>7 DEF Lock, Preflight, PreflightRefuses, PublishFails

LEMMA PathType ==
  ASSUME IInv, NEW p \in Plans, Promoting(plan[p]) PROVE PathOf(p) \in Paths
BY DEF PathOf, Paths, Slugs, Promoting

LEMMA PublishInv == ASSUME IInv, NEW p \in Plans, Publish(p) PROVE IInv'
<1>1. Promoting(plan[p]) /\ p \notin linked /\ PathOf(p) \in Paths
  BY MayPublishPlan, PathType DEF Publish, Working
<1>2. /\ sources' = [sources EXCEPT ![PathOf(p)] = p]
      /\ overwritten' = overwritten \cup ({sources[PathOf(p)]} \ {None})
      /\ pc' = [pc EXCEPT ![p] = "published"] /\ plan' = plan
      /\ UNCHANGED <<rows, jobs, manifests, linked, faults>>
      /\ pc[p] = "checked"
  BY DEF Publish, GoTo
<1>3. QueueType' /\ RowStep
  BY <1>2, FaultType, SameQueue, SameRows
<1>4. sources[PathOf(p)] \in Plans \cup {None}
  BY <1>1 DEF IInv, CoreType
<1>5. CoreType'
  BY <1>2, <1>3, <1>4 DEF IInv, CoreType, RowStep, Steps
<1>6. \A q \in Plans : pc'[q] = IF q = p THEN "published" ELSE pc[q]
  BY <1>2 DEF IInv, CoreType
<1>7. \A x \in Paths : sources'[x] = IF x = PathOf(p) THEN p ELSE sources[x]
  BY <1>2 DEF IInv, CoreType
<1>8. Fields'
  BY <1>1, <1>2, <1>6 DEF IInv, Fields
<1>9. \A q \in Plans : PathOf(q)' = PathOf(q)
  BY <1>2 DEF PathOf
<1>10. FileOf'
  BY <1>2, <1>6, <1>7, <1>9 DEF IInv, FileOf, Left, Holds
<1>11. Own'
  <2> SUFFICES ASSUME overwritten' = {}, NEW q \in Plans, q \in linked \/ pc'[q] \in Holds
               PROVE  sources'[PathOf(q)] = q
    BY <1>2, <1>9 DEF Own
  <2>1. CASE q = p
    BY <1>1, <1>7, <2>1
  <2>2. CASE q # p
    <3>1. q \in linked \/ pc[q] \in Holds
      BY <1>6, <2>2
    <3>2. sources[PathOf(q)] = q
      BY <1>2, <3>1 DEF IInv, Own
    <3>3. PathOf(q) # PathOf(p)
      BY <1>2, <3>2, <2>2, QueueConstants
    <3>4. PathOf(q) \in Paths
      <4>1. Promoting(plan[q])
        BY <3>1 DEF IInv, Fields, Holds, Working
      <4> QED BY <4>1, PathType
    <3> QED BY <1>7, <3>2, <3>3, <3>4
  <2> QED BY <2>1, <2>2
<1>12. LinkedRow' /\ OneSourcePerCandidate'
  BY <1>2, <1>3, RowStepLinked
<1> QED BY <1>3, <1>5, <1>8, <1>10, <1>11, <1>12 DEF IInv

LEMMA LinkInv == ASSUME IInv, NEW p \in Plans, Link(p) PROVE IInv'
<1> DEFINE c == plan[p].cand
           r == [plan[p] EXCEPT !.version = NoPlan.version]
<1>1. /\ pc[p] = "published" /\ MayLink(rows[c])
      /\ rows' = [rows EXCEPT ![c].status = "promoted", ![c].source = plan[p].number]
      /\ linked' = linked \cup {p} /\ pc' = [pc EXCEPT ![p] = "done"]
      /\ plan' = [plan EXCEPT ![p] = r]
      /\ UNCHANGED <<files, jobs, manifests, faults>>
  BY DEF Link, IInv, CoreType
<1>2. Promoting(plan[p]) /\ p \notin linked /\ c \in Candidates
  BY <1>1, MayPublishPlan DEF Working, Promoting
<1>3. r \in PlanRecords /\ Promoting(r) /\ r.number = plan[p].number /\ r.cand = c
  BY <1>2 DEF IInv, CoreType, PlanRecords, Promoting, NoPlan, Row, Rows, RowStatuses
<1> HIDE DEF r
<1>4. \A q \in Plans : /\ pc'[q] = IF q = p THEN "done" ELSE pc[q]
                       /\ plan'[q] = IF q = p THEN r ELSE plan[q]
  BY <1>1 DEF IInv, CoreType
<1>5. \A q \in Plans : PathOf(q)' = PathOf(q) /\ plan'[q].cand = plan[q].cand
  BY <1>3, <1>4 DEF PathOf
<1>6. /\ rows' \in [Candidates -> Rows]
      /\ \A d \in Candidates : d # c => rows'[d] = rows[d]
      /\ rows'[c].status = "promoted" /\ rows'[c].source = plan[p].number
  BY <1>1, <1>2 DEF IInv, CoreType, Rows, RowStatuses, Promoting
<1>7. QueueType'
  BY <1>1, FaultType, SameQueue
<1>8. CoreType'
  BY <1>1, <1>3, <1>6 DEF IInv, CoreType, files, Steps
<1>9. Fields'
  BY <1>1, <1>3, <1>4 DEF IInv, Fields, Working
<1>10. FileOf'
  BY <1>1, <1>4, <1>5 DEF IInv, FileOf, files
<1>11. Own'
  BY <1>1, <1>4, <1>5 DEF IInv, Own, files, Holds
<1>12. \A q \in linked : plan[q].cand \in Candidates /\ WasLinked(rows[plan[q].cand])
  BY DEF IInv, Fields, Promoting, LinkedRow, CoreType
<1>13. \A q \in linked : plan[q].cand # c
  BY <1>1, <1>12 DEF MayLink, WasLinked
<1>14. LinkedRow'
  BY SMTT(30), <1>1, <1>2, <1>5, <1>6, <1>12, <1>13, QueueConstants
     DEF LinkedRow, WasLinked, Promoting, IInv, CoreType
<1>15. OneSourcePerCandidate'
  BY <1>1, <1>5, <1>13 DEF IInv, OneSourcePerCandidate, CoreType
<1> QED BY <1>7, <1>8, <1>9, <1>10, <1>11, <1>14, <1>15 DEF IInv

LEMMA UnlinkedInv ==
  ASSUME IInv, NEW p \in Plans, LinkRefused(p) \/ LinkFails(p) \/ CompensateFails(p)
  PROVE  IInv'
<1>1. UNCHANGED <<rows, files, jobs, manifests, linked>> /\ (Fault \/ UNCHANGED faults)
      /\ pc[p] \in Holds
  BY DEF LinkRefused, LinkFails, CompensateFails, Holds
<1>2. QueueType' /\ RowStep
  BY <1>1, FaultType, SameQueue, SameRows
<1>3. Promoting(plan[p]) /\ p \notin linked
  BY <1>1, MayPublishPlan DEF Working, Holds
<1>4. {"conflict", "failed", "abandoned"} \subseteq (Steps \cap Left) \ {"reading"}
  BY DEF Steps, Left, Holds
<1>5. GoTo(p, "conflict") \/ GoTo(p, "failed") \/ GoTo(p, "abandoned")
  BY DEF LinkRefused, LinkFails, CompensateFails
<1> QED BY <1>1, <1>2, <1>3, <1>4, <1>5, GoToInv

LEMMA CompensateInv == ASSUME IInv, NEW p \in Plans, Compensate(p) PROVE IInv'
<1>1. /\ pc[p] \in {"conflict", "failed"}
      /\ sources' = [sources EXCEPT ![PathOf(p)] = None]
      /\ UNCHANGED <<rows, overwritten, jobs, manifests, linked, faults>>
  BY DEF Compensate
<1>2. PICK l \in {"done", "note_conflict", "note_failed"}, r \in {plan[p], NoPlan} :
        /\ pc' = [pc EXCEPT ![p] = l] /\ plan' = [plan EXCEPT ![p] = r]
        /\ l # "done" => r = plan[p]
  BY DEF Compensate, End, GoTo, IInv, CoreType
<1>3. Promoting(plan[p]) /\ p \notin linked /\ PathOf(p) \in Paths
  BY <1>1, MayPublishPlan, PathType DEF Working
<1>4. r \in PlanRecords /\ l \in Steps
  BY <1>2 DEF IInv, CoreType, NoPlan, PlanRecords, Rows, Row, RowStatuses, Steps
<1>5. QueueType' /\ RowStep
  BY <1>1, FaultType, SameQueue, SameRows
<1>6. \A q \in Plans : /\ pc'[q] = IF q = p THEN l ELSE pc[q]
                       /\ plan'[q] = IF q = p THEN r ELSE plan[q]
  BY <1>2 DEF IInv, CoreType
<1>7. \A x \in Paths : sources'[x] = IF x = PathOf(p) THEN None ELSE sources[x]
  BY <1>1 DEF IInv, CoreType
<1>8. CoreType'
  BY <1>1, <1>2, <1>4, <1>5 DEF IInv, CoreType, RowStep
<1>9. Fields'
  BY <1>1, <1>2, <1>3, <1>6 DEF IInv, Fields, Working
<1>10. \A q \in Plans : q # p => PathOf(q)' = PathOf(q)
  BY <1>6 DEF PathOf
<1>11. FileOf'
  <2> SUFFICES ASSUME NEW q \in Plans, NEW x \in Paths, sources'[x] = q
               PROVE  x = PathOf(q)' /\ (pc'[q] \in Left \/ q \in linked)
    BY <1>1 DEF FileOf
  <2>1. x # PathOf(p) /\ sources[x] = q
    BY <1>7, QueueConstants
  <2>2. q # p
    BY <2>1 DEF IInv, FileOf
  <2> QED BY <1>6, <1>10, <2>1, <2>2 DEF IInv, FileOf
<1>12. Own'
  <2> SUFFICES ASSUME overwritten = {}, NEW q \in Plans, q \in linked \/ pc'[q] \in Holds
               PROVE  sources'[PathOf(q)'] = q
    BY <1>1 DEF Own
  <2>1. q # p
    BY <1>2, <1>3, <1>6 DEF Holds
  <2>2. q \in linked \/ pc[q] \in Holds
    BY <1>6, <2>1
  <2>3. sources[PathOf(q)] = q /\ sources[PathOf(p)] = p
    BY <1>1, <2>2 DEF IInv, Own, Holds
  <2>4. PathOf(q) \in Paths
    <3>1. Promoting(plan[q])
      BY <2>2 DEF IInv, Fields, Holds, Working
    <3> QED BY <3>1, PathType
  <2> QED BY <1>7, <1>10, <2>1, <2>3, <2>4
<1>13. LinkedRow' /\ OneSourcePerCandidate'
  BY <1>1, <1>3, <1>5, <1>6, RowStepLinked DEF IInv, CoreType
<1> QED BY <1>5, <1>8, <1>9, <1>11, <1>12, <1>13 DEF IInv

LEMMA NoteInv == ASSUME IInv, NEW p \in Plans, Note(p) \/ NoteFails(p) PROVE IInv'
<1>1. UNCHANGED <<rows, files, jobs, linked>> /\ (Fault \/ UNCHANGED faults)
      /\ manifests' \in {manifests, manifests \cup {p}}
      /\ pc[p] \in {"note_conflict", "note_failed"}
  BY DEF Note, NoteFails
<1>2. QueueType' /\ RowStep
  BY <1>1, FaultType, SameRows DEF IInv, QueueType, jobs
<1>3. Promoting(plan[p]) /\ p \notin linked /\ pc[p] \notin Left
  BY <1>1, MayPublishPlan DEF Working, Left, Holds
<1>4. CASE End(p)
  BY <1>1, <1>2, <1>3, <1>4, EndInv
<1>5. CASE Settle(p)
  BY <1>1, <1>2, <1>3, <1>5, SettleInv
<1> QED BY <1>4, <1>5 DEF Note, NoteFails

\* A process ends: its plans are forgotten, unless they have left a file.
LEMMA CrashInv == ASSUME IInv, Crash PROVE IInv'
<1>1. PICK P \in {Web} \cup {{p} : p \in Plans \ Web} :
        LET lost == {p \in P : InHandler(p) \/ pc[p] = "planned"}
        IN  /\ lost # {}
            /\ pc' = [p \in Plans |-> IF p \in lost THEN "dead" ELSE pc[p]]
            /\ plan' = [p \in Plans |-> IF p \in lost /\ ~HasFile(p) THEN NoPlan ELSE plan[p]]
  BY DEF Crash
<1> DEFINE lost == {p \in P : InHandler(p) \/ pc[p] = "planned"}
<1>2. \A p \in lost : pc[p] # "done"
  BY DEF InHandler
<1>3. pc' = [p \in Plans |-> IF p \in lost THEN "dead" ELSE pc[p]]
      /\ plan' = [p \in Plans |-> IF p \in lost /\ ~HasFile(p) THEN NoPlan ELSE plan[p]]
      /\ UNCHANGED <<rows, files, jobs, manifests, linked>> /\ Fault
  BY <1>1 DEF Crash
<1> HIDE DEF lost
<1>4. QueueType' /\ RowStep
  BY <1>3, FaultType, SameQueue, SameRows
<1>5. NoPlan \in PlanRecords /\ "dead" \in Steps
  BY DEF NoPlan, PlanRecords, Rows, Row, RowStatuses, Steps
<1>6. CoreType'
  BY <1>3, <1>4, <1>5 DEF IInv, CoreType, RowStep, files
<1>7. \A p \in Plans : p \in lost => pc'[p] = "dead" /\ p \notin linked
  BY <1>2, <1>3, NotLinked
<1>8. \A p \in Plans : p \notin lost => pc'[p] = pc[p] /\ plan'[p] = plan[p] /\ PathOf(p)' = PathOf(p)
  BY <1>3 DEF PathOf
<1>9. Fields'
  BY <1>3, <1>7, <1>8 DEF IInv, Fields, Working
<1>10. FileOf'
  <2> SUFFICES ASSUME NEW p \in Plans, NEW x \in Paths, sources[x] = p
               PROVE  x = PathOf(p)' /\ (pc'[p] \in Left \/ p \in linked)
    BY <1>3 DEF FileOf, files
  <2>1. plan'[p] = plan[p]
    BY <1>3 DEF HasFile
  <2>2. PathOf(p)' = PathOf(p)
    BY <2>1 DEF PathOf
  <2> QED BY <1>7, <1>8, <2>2 DEF IInv, FileOf, Left
<1>11. Own'
  BY <1>3, <1>7, <1>8 DEF IInv, Own, files, Holds
<1>12. LinkedRow' /\ OneSourcePerCandidate'
  BY <1>3, <1>4, <1>7, <1>8, RowStepLinked DEF IInv, CoreType
<1> QED BY <1>4, <1>6, <1>9, <1>10, <1>11, <1>12 DEF IInv

(***************************************************************************)
(* Jobs.                                                                   *)
(***************************************************************************)
LEMMA JobType ==
  ASSUME IInv, NEW j \in Jobs, NEW S \in SUBSET Candidates,
         NEW what \in {"idle", "expire", "purge", "discover", "insert"}, Work(j, what, S),
         UNCHANGED <<manifests, faults>>, overtaken' \in SUBSET Candidates
  PROVE  QueueType'
BY DEF IInv, QueueType, Work

LEMMA JobInv == ASSUME IInv, NEW j \in Jobs, JobStep(j) PROVE IInv'
<1>1. UNCHANGED <<files, plan, pc, manifests, linked, faults>>
  BY DEF JobStep, ListExpiring, Expire, Purge, StartDiscovery, SkipSourced, InsertCandidates,
         JobEnds
<1>2. todo[j] \in SUBSET Candidates /\ overtaken \in SUBSET Candidates
  BY DEF IInv, QueueType
<1>3. CASE ListExpiring(j) \/ StartDiscovery(j) \/ SkipSourced(j) \/ JobEnds(j)
  <2>1. UNCHANGED <<rows, overtaken>>
    BY <1>3 DEF ListExpiring, StartDiscovery, SkipSourced, JobEnds
  <2>2. \E S \in SUBSET Candidates, what \in {"idle", "expire", "discover", "insert"} :
          Work(j, what, S)
    BY <1>2, <1>3 DEF ListExpiring, StartDiscovery, SkipSourced, JobEnds, WithStatus
  <2>3. QueueType'
    BY <1>1, <1>2, <2>1, <2>2, JobType
  <2> QED BY <1>1, <2>1, <2>3, SameRows, QueueStep
<1>4. CASE Expire(j)
  <2>1. rows' = [c \in Candidates |->
                   IF c \in Matched(todo[j]) THEN [rows[c] EXCEPT !.status = "expired"] ELSE rows[c]]
    BY <1>4 DEF Expire
  <2>2. RowStep
    BY <2>1 DEF IInv, CoreType, RowStep, Rows, RowStatuses, Matched
  <2>3. QueueType'
    BY <1>1, <1>2, <1>4, JobType DEF Expire, Matched
  <2> QED BY <1>1, <2>2, <2>3, QueueStep
<1>5. CASE Purge(j)
  <2>1. rows' = [c \in Candidates |->
                   IF rows[c].status \in {"dismissed", "expired"} THEN Row("purged") ELSE rows[c]]
    BY <1>5 DEF Purge
  <2>2. RowStep
    BY <2>1 DEF IInv, CoreType, RowStep, Rows, Row, RowStatuses
  <2>3. QueueType'
    BY <1>1, <1>2, <1>5, JobType DEF Purge
  <2> QED BY <1>1, <2>2, <2>3, QueueStep
<1>6. CASE InsertCandidates(j)
  <2>1. rows' = [c \in Candidates |->
                   IF c \in todo[j] /\ rows[c].status = "absent" THEN Row("new") ELSE rows[c]]
    BY <1>6 DEF InsertCandidates
  <2>2. RowStep
    BY <2>1 DEF IInv, CoreType, RowStep, Rows, Row, RowStatuses
  <2>3. QueueType'
    BY <1>1, <1>2, <1>6, JobType DEF InsertCandidates
  <2> QED BY <1>1, <2>2, <2>3, QueueStep
<1> QED BY <1>3, <1>4, <1>5, <1>6 DEF JobStep

LEMMA NextInv == IInv /\ [Next]_vars => IInv'
<1> SUFFICES ASSUME IInv, [Next]_vars PROVE IInv'
  OBVIOUS
<1>1. CASE Triage
  BY <1>1, TriageInv
<1>2. CASE Crash
  BY <1>2, CrashInv
<1>3. ASSUME NEW p \in Plans, Promote(p) PROVE IInv'
  BY <1>3, PrepareInv, BeforePublishInv, PublishInv, LinkInv, UnlinkedInv, CompensateInv, NoteInv
     DEF Promote
<1>4. ASSUME NEW j \in Jobs, JobStep(j) PROVE IInv'
  BY <1>4, JobInv
<1>5. CASE UNCHANGED vars
  <2>1. UNCHANGED <<rows, files, plan, pc, jobs, manifests, linked, faults>>
    BY <1>5 DEF vars, files, jobs
  <2> QED BY <2>1, SameRows, FaultType, SameQueue, QueueStep
<1> QED BY <1>1, <1>2, <1>3, <1>4, <1>5 DEF Next

LEMMA Invariance == Spec => []IInv
BY InitInv, NextInv, PTL DEF Spec

(***************************************************************************)
(* Theorems.                                                               *)
(***************************************************************************)
\* The state has its type in every reachable state.
THEOREM TypeCorrect == Spec => []TypeOK
<1>1. IInv => TypeOK
  BY TypeOKSplit DEF IInv
<1> QED BY <1>1, Invariance, PTL

\* Unless one promotion replaced the file of another, the Source of every candidate that
\* promote.py has linked is in the tree.
THEOREM PromotedHaveTheirSource == Spec => []PromotedHasSource
<1>1. IInv => PromotedHasSource
  <2> SUFFICES ASSUME IInv, overwritten = {}, NEW p \in linked
               PROVE  \E x \in Paths : x = PathOf(p) /\ sources[x] = p
    BY DEF PromotedHasSource
  <2>1. p \in Plans /\ Promoting(plan[p])
    BY DEF IInv, CoreType, Fields
  <2>2. PathOf(p) \in Paths /\ sources[PathOf(p)] = p
    BY <2>1, PathType DEF IInv, Own
  <2> QED BY <2>2
<1> QED BY <1>1, Invariance, PTL

\* The link of promote.py is made once for a candidate, whatever expiries and restores do
\* to its status in between.
THEOREM CandidatesBecomeOneSource == Spec => []OneSourcePerCandidate
<1>1. IInv => OneSourcePerCandidate
  BY DEF IInv
<1> QED BY <1>1, Invariance, PTL

\* The compensation of promote.py leaves no file of a promotion that is over or may be
\* tried again, unless it was linked.
THEOREM CompensationLeavesNoOrphan == Spec => []NoOrphans
<1>1. IInv => NoOrphans
  <2> SUFFICES ASSUME IInv, NEW x \in Published, pc[sources[x]] \in {"done", "planned"}
               PROVE  sources[x] \in linked
    BY DEF NoOrphans
  <2>1. x \in Paths /\ sources[x] \in Plans
    BY DEF Published, IInv, CoreType
  <2> QED BY <2>1 DEF IInv, FileOf, Left, Holds
<1> QED BY <1>1, Invariance, PTL

\* Triage, purges and discoveries leave promoted candidates alone; an expiry that does
\* not is the one that acts on a stale listing.
THEOREM PromotionIsFinal == Spec => PromotedStays
<1> DEFINE Stays(c) == rows[c].status = "promoted" /\ c \notin overtaken' =>
                         rows'[c].status = "promoted" /\ rows'[c].source = rows[c].source
<1>1. IInv /\ [Next]_vars => [\A c \in Candidates : Stays(c)]_vars
  <2> SUFFICES ASSUME IInv, Next, NEW c \in Candidates,
                      rows[c].status = "promoted", c \notin overtaken'
               PROVE  rows'[c] = rows[c]
    OBVIOUS
  <2>1. CASE UNCHANGED rows
    BY <2>1
  <2>2. ASSUME NEW d \in Candidates, Dismiss(d) \/ Restore(d) PROVE rows'[c] = rows[c]
    BY <2>2 DEF Dismiss, Restore, MayDecide, IInv, CoreType
  <2>3. ASSUME NEW p \in Web, WebDecide(p) PROVE rows'[c] = rows[c]
    BY <2>3 DEF WebDecide, MayDecide, IInv, CoreType
  <2>4. ASSUME NEW p \in Plans, Link(p) PROVE rows'[c] = rows[c]
    BY <2>4 DEF Link, MayLink, IInv, CoreType
  <2>5. ASSUME NEW j \in Jobs, Expire(j) PROVE rows'[c] = rows[c]
    BY <2>5 DEF Expire, Matched
  <2>6. ASSUME NEW j \in Jobs, Purge(j) \/ InsertCandidates(j) PROVE rows'[c] = rows[c]
    BY <2>6 DEF Purge, InsertCandidates
  <2>7. ASSUME NEW p \in Web, WebConflict(p) \/ \E op \in Operations, d \in Candidates : WebPreview(p, op, d)
        PROVE  UNCHANGED rows
    BY <2>7 DEF WebConflict, WebPreview
  <2>8. ASSUME NEW p \in Plans, Promote(p), ~Link(p) PROVE UNCHANGED rows
    BY <2>8 DEF Promote, PrepareRead, PreparePlan, PrepareRefused, Lock, Preflight,
       PreflightRefuses, Publish, PublishFails, LinkRefused, LinkFails, Compensate,
       CompensateFails, Note, NoteFails
  <2>9. ASSUME NEW j \in Jobs, JobStep(j), ~Expire(j), ~Purge(j), ~InsertCandidates(j)
        PROVE  UNCHANGED rows
    BY <2>9 DEF JobStep, ListExpiring, StartDiscovery, SkipSourced, JobEnds
  <2>10. CASE Crash
    BY <2>1, <2>10 DEF Crash
  <2> QED
    BY <2>1, <2>2, <2>3, <2>4, <2>5, <2>6, <2>7, <2>8, <2>9, <2>10 DEF Next, Triage
<1> QED BY <1>1, Invariance, PTL DEF Spec, PromotedStays
=============================================================================
