------------------------- MODULE SchedulerWorkerProofs -------------------------
(***************************************************************************)
(* What holds of the scheduler for every number of schedules, runs,        *)
(* workers and callers, every clock and every setting.                     *)
(*                                                                         *)
(* The invariant that carries the argument is Ownership: until a lease has *)
(* lapsed, a worker between claim and outcome of a schedule's run owns the *)
(* row under a lease that ends where the worker thinks it ends.  It needs  *)
(* ClockInv (no clock value in use lies in the future, so nobody sees the  *)
(* lease expire early), RowsExist (rows in hand are real, so no insert can *)
(* hit them, and callers touch only ad-hoc rows) and LapseNoted (a worker  *)
(* past its lease is on record).                                           *)
(*                                                                         *)
(* Part 1 is about the tables alone, part 2 about leases and retries, part *)
(* 3 about due times and the refinement of part 1 by the worker.           *)
(***************************************************************************)
EXTENDS SchedulerWorker, FiniteSetTheorems, TLAPS

(***************************************************************************)
(* Part 1: what the tables of OperationsDb guarantee, for any number of    *)
(* schedules, runs and clients.                                            *)
(*                                                                         *)
(* The lemmas say of each operation, whoever calls it with whatever typed  *)
(* arguments, that it preserves the database invariant.  The theorems for  *)
(* the most general client follow here; part 2 uses the same lemmas for    *)
(* the worker and the other clients.                                       *)
(***************************************************************************)
DbInv ==
  /\ DbTypeOK
  /\ OneActiveRunPerSchedule
  /\ LeaseMatchesStatus

-----------------------------------------------------------------------------
(* Initially.                                                              *)

LEMMA InitTyped == DbInit => DbTypeOK
BY NullsAreNotIds DEF DbInit, DbTypeOK, RunRow, ScheduleRow, AbsentRun,
   AbsentSchedule, Claimable, Terminal, Kinds

LEMMA InitDbInv == DbInit => DbInv
<1> SUFFICES ASSUME DbInit PROVE DbInv
  OBVIOUS
<1>1. DbTypeOK
  BY InitTyped
<1>2. \A r \in Runs : runs[r].status = "absent" /\ runs[r].owner = NoWorker
                      /\ runs[r].expires = NoTime
  BY DEF DbInit, AbsentRun
<1>3. \A r \in Runs : ~IsActive(r)
  BY <1>2 DEF IsActive, Active
<1>4. QED
  BY <1>1, <1>2, <1>3 DEF DbInv, OneActiveRunPerSchedule, LeaseMatchesStatus

-----------------------------------------------------------------------------
(* The operations keep the types.                                          *)

LEMMA LeaseEndNat ==
  ASSUME NEW at \in Nat, NEW lease \in Nat
  PROVE  LeaseEnd(at, lease) \in Nat
BY NumbersAreNat DEF LeaseEnd

LEMMA CountNat ==
  ASSUME NEW n \in Nat
  PROVE  Count(n) \in Nat
BY DEF Count

LEMMA CreateScheduleTyped ==
  ASSUME DbTypeOK, NEW s \in Schedules, NEW e \in BOOLEAN,
         NEW i \in Nat \ {0}, CreateSchedule(s, e, i)
  PROVE  DbTypeOK'
BY DEF DbTypeOK, CreateSchedule, ScheduleRow

LEMMA UpdateScheduleTyped ==
  ASSUME DbTypeOK, NEW s \in Schedules, NEW v \in Nat,
         NEW t \in Nat \cup {NoTime}, NEW e \in BOOLEAN, NEW i \in Nat \ {0},
         UpdateSchedule(s, v, t, e, i)
  PROVE  DbTypeOK'
BY DEF DbTypeOK, UpdateSchedule, ScheduleRow

LEMMA SetNextRunTyped ==
  ASSUME DbTypeOK, NEW s \in Schedules, NEW t \in Nat \cup {NoTime},
         SetNextRun(s, t)
  PROVE  DbTypeOK'
BY DEF DbTypeOK, SetNextRun, ScheduleRow

LEMMA CreateRunTyped ==
  ASSUME DbTypeOK, NEW r \in Runs, NEW s \in Schedules \cup {NoSchedule},
         NEW k \in Kinds, NEW at \in Nat, NEW m \in Nat,
         CreateRun(r, s, k, at, m)
  PROVE  DbTypeOK'
BY DEF DbTypeOK, CreateRun, RunRow, Claimable

LEMMA ClaimRunTyped ==
  ASSUME DbTypeOK, NEW r \in Runs, NEW w \in Workers, NEW at \in Nat,
         NEW l \in Nat, ClaimRun(r, w, at, l)
  PROVE  DbTypeOK'
<1>1. LeaseEnd(at, l) \in Nat
  BY LeaseEndNat
<1>2. Count(runs[r].attempt) \in Nat
  BY CountNat DEF DbTypeOK, RunRow
<1> DEFINE row == [runs[r] EXCEPT !.status = "claimed",
                                  !.attempt = Count(runs[r].attempt),
                                  !.owner = w, !.expires = LeaseEnd(at, l)]
<1>3. row \in RunRow
  <2>1. runs[r] \in RunRow
    BY DEF DbTypeOK
  <2>2. QED
    BY <2>1, <1>1, <1>2 DEF RunRow, Claimable
<1>4. runs' = [runs EXCEPT ![r] = row] /\ UNCHANGED schedules
  BY DEF ClaimRun
<1>5. QED
  BY <1>3, <1>4 DEF DbTypeOK

LEMMA MarkRunRunningTyped ==
  ASSUME DbTypeOK, NEW r \in Runs, NEW w \in Workers, MarkRunRunning(r, w)
  PROVE  DbTypeOK'
BY SMTT(30) DEF DbTypeOK, MarkRunRunning, RunRow, Claimable

LEMMA ReclaimTyped ==
  ASSUME DbTypeOK, NEW at \in Nat, ReclaimStaleLeases(at)
  PROVE  DbTypeOK'
BY ZenonT(30) DEF DbTypeOK, ReclaimStaleLeases, RunRow, Claimable

LEMMA RequeueRunTyped ==
  ASSUME DbTypeOK, NEW r \in Runs, NEW at \in Nat, RequeueRun(r, at)
  PROVE  DbTypeOK'
BY ZenonT(30) DEF DbTypeOK, RequeueRun, RunRow, Claimable

LEMMA FinalizeRunTyped ==
  ASSUME DbTypeOK, NEW r \in Runs, NEW st \in Terminal, FinalizeRun(r, st)
  PROVE  DbTypeOK'
BY ZenonT(30) DEF DbTypeOK, FinalizeRun, RunRow

-----------------------------------------------------------------------------
(* The operations on runs keep the invariant.                              *)

LEMMA SchedulesOnly ==
  ASSUME DbInv, DbTypeOK', UNCHANGED runs
  PROVE  DbInv'
BY DEF DbInv, OneActiveRunPerSchedule, LeaseMatchesStatus, IsActive, Active

LEMMA CreateRunInv ==
  ASSUME DbInv, NEW r \in Runs, NEW s \in Schedules \cup {NoSchedule},
         NEW k \in Kinds, NEW at \in Nat, NEW m \in Nat,
         CreateRun(r, s, k, at, m)
  PROVE  DbInv'
<1>1. DbTypeOK'
  BY CreateRunTyped DEF DbInv
<1>2. \A q \in Runs \ {r} : runs'[q] = runs[q]
  BY DEF CreateRun, DbInv, DbTypeOK
<1>3. /\ runs'[r].status = "queued" /\ runs'[r].owner = NoWorker
      /\ runs'[r].expires = NoTime
  BY DEF CreateRun, DbInv, DbTypeOK
<1>4. QED
  BY <1>1, <1>2, <1>3
     DEF DbInv, OneActiveRunPerSchedule, LeaseMatchesStatus, IsActive, Active

LEMMA ClaimRunInv ==
  ASSUME DbInv, NEW r \in Runs, NEW w \in Workers, NEW at \in Nat,
         NEW l \in Nat, ClaimRun(r, w, at, l)
  PROVE  DbInv'
<1>1. DbTypeOK'
  BY ClaimRunTyped DEF DbInv
<1>2. \A q \in Runs \ {r} : runs'[q] = runs[q]
  BY DEF ClaimRun, DbInv, DbTypeOK
<1>3. /\ runs'[r].status = "claimed" /\ runs'[r].owner = w
      /\ runs'[r].expires = LeaseEnd(at, l)
      /\ runs'[r].schedule = runs[r].schedule
  BY DEF ClaimRun, DbInv, DbTypeOK, RunRow
<1>4. w # NoWorker /\ LeaseEnd(at, l) # NoTime
  BY NullsAreNotIds, LeaseEndNat
<1>5. ~SlotTaken(r)
  BY DEF ClaimRun, CanClaim
<1>6. OneActiveRunPerSchedule'
  BY <1>2, <1>3, <1>5
     DEF DbInv, OneActiveRunPerSchedule, SlotTaken, IsActive, Active
<1>7. LeaseMatchesStatus'
  BY <1>2, <1>3, <1>4 DEF DbInv, LeaseMatchesStatus, IsActive, Active
<1>8. QED
  BY <1>1, <1>6, <1>7 DEF DbInv

LEMMA MarkRunRunningInv ==
  ASSUME DbInv, NEW r \in Runs, NEW w \in Workers, MarkRunRunning(r, w)
  PROVE  DbInv'
<1>1. DbTypeOK'
  BY MarkRunRunningTyped DEF DbInv
<1>2. \A q \in Runs \ {r} : runs'[q] = runs[q]
  BY DEF MarkRunRunning, DbInv, DbTypeOK
<1>3. /\ runs[r].status = "claimed" /\ runs'[r].status = "running"
      /\ runs'[r].owner = runs[r].owner
      /\ runs'[r].expires = runs[r].expires
      /\ runs'[r].schedule = runs[r].schedule
  BY DEF MarkRunRunning, CanMark, DbInv, DbTypeOK, RunRow
<1>4. \A q \in Runs : IsActive(q)' <=> IsActive(q)
  BY <1>2, <1>3 DEF IsActive, Active
<1>5. QED
  BY <1>1, <1>2, <1>3, <1>4
     DEF DbInv, OneActiveRunPerSchedule, LeaseMatchesStatus

\* A step that takes some rows out of the active ones, resets their lease and
\* leaves the other rows alone.
LEMMA ReleaseInv ==
  ASSUME DbInv, DbTypeOK', NEW R \in SUBSET Runs,
         \A q \in Runs \ R : runs'[q] = runs[q],
         \A q \in R : /\ runs'[q].status \notin Active
                      /\ runs'[q].owner = NoWorker
                      /\ runs'[q].expires = NoTime
  PROVE  DbInv'
BY DEF DbInv, OneActiveRunPerSchedule, LeaseMatchesStatus, IsActive

LEMMA ReclaimInv ==
  ASSUME DbInv, NEW at \in Nat, ReclaimStaleLeases(at)
  PROVE  DbInv'
<1> DEFINE R == {q \in Runs : Stale(q, at)}
<1>1. DbTypeOK'
  BY ReclaimTyped DEF DbInv
<1>2. \A q \in Runs \ R : runs'[q] = runs[q]
  BY DEF ReclaimStaleLeases
<1>3. \A q \in R : /\ runs'[q].status = "queued"
                   /\ runs'[q].owner = NoWorker
                   /\ runs'[q].expires = NoTime
  BY DEF ReclaimStaleLeases, DbInv, DbTypeOK, RunRow
<1>4. QED
  BY <1>1, <1>2, <1>3, ReleaseInv DEF Active

LEMMA RequeueRunInv ==
  ASSUME DbInv, NEW r \in Runs, NEW at \in Nat, RequeueRun(r, at)
  PROVE  DbInv'
<1>1. DbTypeOK'
  BY RequeueRunTyped DEF DbInv
<1>2. \A q \in Runs \ {r} : runs'[q] = runs[q]
  BY DEF RequeueRun, DbInv, DbTypeOK
<1>3. /\ runs'[r].status = "queued" /\ runs'[r].owner = NoWorker
      /\ runs'[r].expires = NoTime
  BY DEF RequeueRun, DbInv, DbTypeOK, RunRow
<1>4. \A q \in {r} : /\ runs'[q].status \notin Active
                     /\ runs'[q].owner = NoWorker
                     /\ runs'[q].expires = NoTime
  BY <1>3 DEF Active
<1>5. {r} \in SUBSET Runs
  OBVIOUS
<1>6. QED
  BY <1>1, <1>2, <1>4, <1>5, ReleaseInv

LEMMA FinalizeRunInv ==
  ASSUME DbInv, NEW r \in Runs, NEW st \in Terminal, FinalizeRun(r, st)
  PROVE  DbInv'
<1>1. DbTypeOK'
  BY FinalizeRunTyped DEF DbInv
<1>2. \A q \in Runs \ {r} : runs'[q] = runs[q]
  BY DEF FinalizeRun, DbInv, DbTypeOK
<1>3. /\ runs'[r].status = st /\ runs'[r].owner = NoWorker
      /\ runs'[r].expires = NoTime
  BY DEF FinalizeRun, DbInv, DbTypeOK, RunRow
<1>4. \A q \in {r} : /\ runs'[q].status \notin Active
                     /\ runs'[q].owner = NoWorker
                     /\ runs'[q].expires = NoTime
  BY <1>3 DEF Active, Terminal
<1>5. {r} \in SUBSET Runs
  OBVIOUS
<1>6. QED
  BY <1>1, <1>2, <1>4, <1>5, ReleaseInv

-----------------------------------------------------------------------------
(* No operation removes a row or moves it to another schedule.             *)

RowsStay ==
  \A r \in Runs :
    Exists(r) => Exists(r)' /\ runs'[r].schedule = runs[r].schedule

LEMMA UnchangedRowsStay == UNCHANGED runs => RowsStay
BY DEF RowsStay, Exists

LEMMA CreateRunStay ==
  ASSUME DbTypeOK, NEW r \in Runs, NEW s, NEW k, NEW at, NEW m,
         CreateRun(r, s, k, at, m)
  PROVE  /\ RowsStay
         /\ \A q \in Runs : Exists(q) => runs'[q] = runs[q]
         /\ Exists(r)' /\ runs'[r].schedule = s
BY DEF RowsStay, Exists, CreateRun, DbTypeOK

LEMMA ClaimRunStay ==
  ASSUME DbTypeOK, NEW r \in Runs, NEW w \in Workers, NEW at \in Nat,
         NEW l \in Nat, ClaimRun(r, w, at, l)
  PROVE  /\ RowsStay
         /\ \A q \in Runs \ {r} : runs'[q] = runs[q]
         /\ runs'[r].status = "claimed" /\ runs'[r].owner = w
         /\ runs'[r].expires = LeaseEnd(at, l)
BY DEF RowsStay, Exists, ClaimRun, DbTypeOK, RunRow

LEMMA MarkRunRunningStay ==
  ASSUME DbTypeOK, NEW r \in Runs, NEW w \in Workers, MarkRunRunning(r, w)
  PROVE  /\ RowsStay
         /\ \A q \in Runs \ {r} : runs'[q] = runs[q]
         /\ runs[r].status = "claimed" /\ runs'[r].status = "running"
         /\ runs'[r].owner = runs[r].owner
         /\ runs'[r].expires = runs[r].expires
BY DEF RowsStay, Exists, MarkRunRunning, CanMark, DbTypeOK, RunRow

LEMMA ReclaimStay ==
  ASSUME DbTypeOK, NEW at \in Nat, ReclaimStaleLeases(at)
  PROVE  /\ RowsStay
         /\ \A q \in Runs : ~Stale(q, at) => runs'[q] = runs[q]
BY DEF RowsStay, Exists, ReclaimStaleLeases, DbTypeOK, RunRow

LEMMA RequeueRunStay ==
  ASSUME DbTypeOK, NEW r \in Runs, NEW at \in Nat, RequeueRun(r, at)
  PROVE  RowsStay /\ \A q \in Runs \ {r} : runs'[q] = runs[q]
BY DEF RowsStay, Exists, RequeueRun, DbTypeOK, RunRow

LEMMA FinalizeRunStay ==
  ASSUME DbTypeOK, NEW r \in Runs, NEW st \in Terminal, FinalizeRun(r, st)
  PROVE  RowsStay /\ \A q \in Runs \ {r} : runs'[q] = runs[q]
BY DEF RowsStay, Exists, FinalizeRun, DbTypeOK, RunRow, Terminal

-----------------------------------------------------------------------------
(* The most general client.                                                *)

LEMMA DbInvStep == DbInv /\ [DbNext]_dbVars => DbInv'
<1> SUFFICES ASSUME DbInv, [DbNext]_dbVars PROVE DbInv'
  OBVIOUS
<1> USE NumbersAreNat
<1>t. DbTypeOK
  BY DEF DbInv
<1>1. ASSUME NEW s \in Schedules, NEW e \in BOOLEAN, NEW i \in Intervals,
             CreateSchedule(s, e, i)
      PROVE  DbInv'
  <2>1. DbTypeOK'
    BY <1>1, <1>t, CreateScheduleTyped
  <2>2. QED
    BY <1>1, <2>1, SchedulesOnly DEF CreateSchedule
<1>2. ASSUME NEW s \in Schedules, NEW e \in BOOLEAN, NEW i \in Intervals,
             NEW t \in Times \cup {NoTime},
             UpdateSchedule(s, schedules[s].version, t, e, i)
      PROVE  DbInv'
  <2>1. schedules[s].version \in Nat
    BY <1>t DEF DbTypeOK, ScheduleRow
  <2>2. DbTypeOK'
    BY <1>2, <1>t, <2>1, UpdateScheduleTyped
  <2>3. QED
    BY <1>2, <2>2, SchedulesOnly DEF UpdateSchedule
<1>3. ASSUME NEW s \in Schedules, NEW t \in Times \cup {NoTime},
             SetNextRun(s, t)
      PROVE  DbInv'
  <2>1. DbTypeOK'
    BY <1>3, <1>t, SetNextRunTyped
  <2>2. QED
    BY <1>3, <2>1, SchedulesOnly DEF SetNextRun
<1>4. ASSUME NEW r \in Runs, NEW s \in Schedules \cup {NoSchedule},
             NEW k \in Kinds, NEW at \in Times, NEW m \in 1 .. AttemptCap,
             CreateRun(r, s, k, at, m)
      PROVE  DbInv'
  BY <1>4, CreateRunInv
<1>5. ASSUME NEW r \in Runs, NEW w \in Workers, NEW at \in Times,
             NEW l \in Timeouts, ClaimRun(r, w, at, l)
      PROVE  DbInv'
  BY <1>5, ClaimRunInv
<1>6. ASSUME NEW r \in Runs, NEW w \in Workers, MarkRunRunning(r, w)
      PROVE  DbInv'
  BY <1>6, MarkRunRunningInv
<1>7. ASSUME NEW at \in Times, ReclaimStaleLeases(at)
      PROVE  DbInv'
  BY <1>7, ReclaimInv
<1>8. ASSUME NEW r \in Runs, NEW at \in Times, RequeueRun(r, at)
      PROVE  DbInv'
  BY <1>8, RequeueRunInv
<1>9. ASSUME NEW r \in Runs, NEW st \in Terminal, FinalizeRun(r, st)
      PROVE  DbInv'
  BY <1>9, FinalizeRunInv
<1>10. CASE UNCHANGED dbVars
  <2>1. DbTypeOK' /\ UNCHANGED runs
    BY <1>10, <1>t DEF DbTypeOK, dbVars
  <2>2. QED
    BY <2>1, SchedulesOnly
<1>11. QED
  BY <1>1, <1>2, <1>3, <1>4, <1>5, <1>6, <1>7, <1>8, <1>9, <1>10 DEF DbNext

LEMMA DbInvariance == DbSpec => []DbInv
<1>1. DbInit => DbInv
  BY InitDbInv
<1>2. DbInv /\ [DbNext]_dbVars => DbInv'
  BY DbInvStep
<1>3. QED
  BY <1>1, <1>2, PTL DEF DbSpec

\* The tables hold what their columns promise, whatever the clients do.
THEOREM DbTypeCorrect == DbSpec => []DbTypeOK
<1>1. DbInv => DbTypeOK
  BY DEF DbInv
<1>2. QED
  BY <1>1, DbInvariance, PTL

\* Owner and lease end are set exactly on active rows, so every active row can
\* become stale and be reclaimed.
THEOREM DbLeaseMatchesStatus == DbSpec => []LeaseMatchesStatus
<1>1. DbInv => LeaseMatchesStatus
  BY DEF DbInv
<1>2. QED
  BY <1>1, DbInvariance, PTL

(***************************************************************************)
(* Part 2: the worker and the other clients of the tables.                 *)
(***************************************************************************)

-----------------------------------------------------------------------------
(* Types.                                                                  *)

LEMMA DivBounds ==
  ASSUME NEW a \in Nat, NEW i \in Nat \ {0}
  PROVE  /\ (a \div i) * i \in Nat
         /\ (a \div i) * i <= a /\ a < (a \div i) * i + i
<1>1. a \div i \in Nat
  OBVIOUS
<1>2. \A x, y \in Nat : x * y \in Nat
  OBVIOUS
<1>3. (a \div i) * i \in Nat
  BY <1>1, <1>2
<1>4. QED
  BY <1>1, <1>3

\* due_decision: the due time that fires lies between the one that was
\* written and the clock, and the one that follows it after the clock.
LEMMA DueDecision ==
  ASSUME NEW d \in DueRecord, NEW at \in Nat, d.next <= at
  PROVE  /\ LastDue(d, at) \in Nat /\ Following(d, at) \in Nat
         /\ d.next <= LastDue(d, at) /\ LastDue(d, at) <= at
         /\ at < Following(d, at) /\ Following(d, at) <= at + d.interval
<1>1. d.next \in Nat /\ d.interval \in Nat \ {0} /\ at - d.next \in Nat
  BY DEF DueRecord
<1> DEFINE q == ((at - d.next) \div d.interval) * d.interval
<1>2. q \in Nat /\ q <= at - d.next /\ at - d.next < q + d.interval
  BY <1>1, DivBounds
<1>3. LastDue(d, at) = d.next + q /\ Following(d, at) = d.next + q + d.interval
  BY DEF LastDue, Following
<1> HIDE DEF q
<1>4. QED
  BY <1>1, <1>2, <1>3

LEMMA LeaseSecondsNat == \A r : LeaseSeconds(r) \in Nat
BY NumbersAreNat, WorkerConstants DEF LeaseSeconds

LEMMA InitTypeOK == Init => TypeOK
<1> SUFFICES ASSUME Init PROVE TypeOK
  OBVIOUS
<1>1. DbTypeOK
  BY InitTyped DEF Init
<1>2. ControlTypeOK
  BY DEF Init, ControlTypeOK, PCs
<1>3. WorkListTypeOK
  BY DEF Init, WorkListTypeOK
<1>4. HandTypeOK
  BY DEF Init, HandTypeOK, Holding
<1>5. EditTypeOK
  BY DEF Init, EditTypeOK
<1>6. lapsed \in BOOLEAN
  BY DEF Init
<1>7. LookTypeOK
  BY NumbersAreNat DEF Init, LookTypeOK
<1>8. QED
  BY <1>1, <1>2, <1>3, <1>4, <1>5, <1>6, <1>7 DEF TypeOK

\* Every action calls at most one operation of the database, with arguments of
\* the right types.
LEMMA DbStep == TypeOK /\ DbInv /\ [Next]_vars => DbInv'
<1> SUFFICES ASSUME TypeOK, DbInv, [Next]_vars PROVE DbInv'
  OBVIOUS
<1>t. DbTypeOK /\ ControlTypeOK /\ WorkListTypeOK /\ HandTypeOK /\ EditTypeOK
  BY DEF TypeOK
<1>u. ASSUME UNCHANGED dbVars PROVE DbInv'
  <2>1. DbTypeOK' /\ UNCHANGED runs
    BY <1>u, <1>t DEF DbTypeOK, dbVars
  <2>2. QED
    BY <2>1, SchedulesOnly
<1>1. ASSUME NEW w \in Workers, Spawn(w) PROVE DbInv'
  BY <1>1, <1>u DEF Spawn
<1>2. ASSUME NEW w \in Workers, Crash(w) PROVE DbInv'
  BY <1>2, <1>u DEF Crash
<1>3. ASSUME NEW w \in Workers, Exit(w) PROVE DbInv'
  BY <1>3, <1>u DEF Exit
<1>4. ASSUME NEW w \in Workers, Begin(w) PROVE DbInv'
  BY <1>4, <1>u DEF Begin
<1>5. ASSUME NEW w \in Workers, Reclaim(w) PROVE DbInv'
  <2>1. observed[w] \in Nat
    BY <1>5, <1>t DEF Reclaim, ControlTypeOK, HandTypeOK, Holding
  <2>2. QED
    BY <1>5, <2>1, ReclaimInv, WorkerConstants DEF Reclaim
<1>6. ASSUME NEW w \in Workers, ListDue(w) PROVE DbInv'
  BY <1>6, <1>u DEF ListDue
<1>7. ASSUME NEW w \in Workers, CreateFails(w) PROVE DbInv'
  BY <1>7, <1>u DEF CreateFails
<1>8. ASSUME NEW w \in Workers, ListClaimable(w) PROVE DbInv'
  BY <1>8, <1>u DEF ListClaimable
<1>9. ASSUME NEW w \in Workers, EndTick(w) PROVE DbInv'
  BY <1>9, <1>u DEF EndTick
<1>10. ASSUME NEW w \in Workers, Claim(w) PROVE DbInv'
  <2>1. observed[w] \in Nat /\ cur[w] \in Runs
    BY <1>10, <1>t DEF Claim, ControlTypeOK, HandTypeOK, Holding
  <2>2. QED
    BY <1>10, <2>1, ClaimRunInv, LeaseSecondsNat, WorkerConstants DEF Claim
<1>11. ASSUME NEW w \in Workers, ClaimRefused(w) PROVE DbInv'
  BY <1>11, <1>u DEF ClaimRefused
<1>12. ASSUME NEW w \in Workers, Mark(w) PROVE DbInv'
  <2>1. cur[w] \in Runs
    BY <1>12, <1>t DEF Mark, ControlTypeOK, HandTypeOK, Holding
  <2>2. QED
    BY <1>12, <2>1, MarkRunRunningInv, WorkerConstants DEF Mark
<1>13. ASSUME NEW w \in Workers, MarkConflict(w) PROVE DbInv'
  BY <1>13, <1>u DEF MarkConflict
<1>14. ASSUME NEW w \in Workers, NEW y \in {"signal", "parent"}, StopRequested(w, y) PROVE DbInv'
  BY <1>14, <1>u DEF StopRequested
<1>15. ASSUME NEW w \in Workers, NEW d \in due[w], NotDue(w, d) PROVE DbInv'
  BY <1>15, <1>u DEF NotDue
<1>16. ASSUME NEW w \in Workers, NEW d \in due[w], Advance(w, d) PROVE DbInv'
  <2>1. d \in DueRecord /\ observed[w] \in Nat
    BY <1>t DEF WorkListTypeOK, ControlTypeOK
  <2>2. Following(d, observed[w]) \in Nat
    BY <1>16, <2>1, DueDecision DEF Advance
  <2>3. DbTypeOK'
    BY <1>16, <1>t, <2>1, <2>2, SetNextRunTyped DEF Advance, DueRecord
  <2>4. QED
    BY <1>16, <2>3, SchedulesOnly DEF Advance, SetNextRun
<1>17. ASSUME NEW w \in Workers, NEW r \in Runs, CreateDue(w, r) PROVE DbInv'
  <2>1. observed[w] \in Nat /\ cur[w] \in Schedules
    BY <1>17, <1>t DEF CreateDue, ControlTypeOK, HandTypeOK, Holding
  <2>2. QED
    BY <1>17, <2>1, CreateRunInv, WorkerConstants DEF CreateDue, Kinds
<1>18. ASSUME NEW w \in Workers, NEW r \in todo[w], Take(w, r) PROVE DbInv'
  BY <1>18, <1>u DEF Take
<1>19. ASSUME NEW w \in Workers, NEW o \in {"success", "failed"}, Finish(w, o) PROVE DbInv'
  <2>1. cur[w] \in Runs /\ now \in Nat /\ o \in Terminal
    BY <1>19, <1>t DEF Finish, HandTypeOK, ControlTypeOK, Holding, Terminal
  <2>2. RequeueRun(cur[w], now) \/ FinalizeRun(cur[w], o)
    BY <1>19 DEF Finish
  <2>3. QED
    BY <2>1, <2>2, RequeueRunInv, FinalizeRunInv
<1>20. ASSUME NEW s \in Schedules, NEW e \in BOOLEAN, NEW i \in Intervals, WebCreateSchedule(s, e, i) PROVE DbInv'
  <2>1. DbTypeOK'
    BY <1>20, <1>t, NumbersAreNat, CreateScheduleTyped DEF WebCreateSchedule
  <2>2. QED
    BY <1>20, <2>1, SchedulesOnly DEF WebCreateSchedule, CreateSchedule
<1>21. ASSUME NEW s \in Schedules, EditRead(s) PROVE DbInv'
  BY <1>21, <1>u DEF EditRead
<1>22. ASSUME NEW e \in BOOLEAN, NEW i \in Intervals, EditWrite(e, i) PROVE DbInv'
  <2>1. edit \in [id : Schedules, version : Nat, next : Nat \cup {NoTime}]
    BY <1>22, <1>t DEF EditWrite, EditTypeOK
  <2>2. edit.id \in Schedules /\ edit.version \in Nat /\ edit.next \in Nat \cup {NoTime}
    BY <2>1
  <2>3. i \in Nat \ {0}
    BY NumbersAreNat
  <2>4. UpdateSchedule(edit.id, edit.version, edit.next, e, i)
    BY <1>22 DEF EditWrite
  <2>5. DbTypeOK'
    BY <1>t, <2>2, <2>3, <2>4, UpdateScheduleTyped
  <2>6. QED
    BY <2>4, <2>5, SchedulesOnly DEF UpdateSchedule
<1>23. ASSUME NEW r \in Runs, NEW s \in Schedules \cup {NoSchedule}, WebQueueRun(r, s) PROVE DbInv'
  <2>1. now \in Nat
    BY <1>23, <1>t DEF WebQueueRun, ControlTypeOK, HandTypeOK, Holding
  <2>2. QED
    BY <1>23, <2>1, CreateRunInv, WorkerConstants DEF WebQueueRun, Kinds
<1>24. ASSUME NEW c \in Callers, NEW r \in Runs, NEW k \in {"manual", "historical"}, NEW at \in {0, now}, CallerCreate(c, r, k, at) PROVE DbInv'
  <2>1. at \in Nat
    BY <1>24, <1>t DEF CallerCreate, ControlTypeOK, HandTypeOK, Holding
  <2>2. QED
    BY <1>24, <2>1, CreateRunInv, WorkerConstants DEF CallerCreate, Kinds
<1>25. ASSUME NEW c \in Callers, NEW st \in Terminal, CallerFinalize(c, st) PROVE DbInv'
  <2>1. held[c] \in Runs
    BY <1>25, <1>t DEF CallerFinalize, ControlTypeOK, HandTypeOK, Holding
  <2>2. QED
    BY <1>25, <2>1, FinalizeRunInv, WorkerConstants DEF CallerFinalize
<1>26. ASSUME NEW c \in Callers, CallerDies(c) PROVE DbInv'
  BY <1>26, <1>u DEF CallerDies
<1>27. ASSUME ClockTick PROVE DbInv'
  BY <1>27, <1>u DEF ClockTick
<1>28. ASSUME UNCHANGED vars PROVE DbInv'
  BY <1>28, <1>u DEF vars
<1>29. QED
  BY <1>1, <1>2, <1>3, <1>4, <1>5, <1>6, <1>7, <1>8, <1>9, <1>10, <1>11, <1>12, <1>13, <1>14, <1>15, <1>16, <1>17, <1>18, <1>19, <1>20, <1>21, <1>22, <1>23, <1>24, <1>25, <1>26, <1>27, <1>28
     DEF Next, WorkerStep, ClientStep

LEMMA LocalStep ==
  TypeOK /\ DbInv' /\ [Next]_vars =>
    ControlTypeOK' /\ WorkListTypeOK' /\ HandTypeOK'
<1> DEFINE Typed == ControlTypeOK /\ WorkListTypeOK /\ HandTypeOK
<1> SUFFICES ASSUME TypeOK, DbInv', [Next]_vars PROVE Typed'
  OBVIOUS
<1>t. DbTypeOK /\ ControlTypeOK /\ WorkListTypeOK /\ HandTypeOK
  BY DEF TypeOK
<1>d. DbInv'
  OBVIOUS
<1>1. ASSUME NEW w \in Workers, Spawn(w) PROVE Typed'
  BY <1>1, <1>t, NumbersAreNat
     DEF Spawn, ControlTypeOK, WorkListTypeOK, HandTypeOK, PCs,
         Holding, DueRecord, localVars, clientVars
<1>2. ASSUME NEW w \in Workers, Crash(w) PROVE Typed'
  BY <1>2, <1>t, NumbersAreNat
     DEF Crash, GoDown, ControlTypeOK, WorkListTypeOK, HandTypeOK, PCs,
         Holding, DueRecord, localVars, clientVars
<1>3. ASSUME NEW w \in Workers, Exit(w) PROVE Typed'
  BY <1>3, <1>t, NumbersAreNat
     DEF Exit, GoDown, ControlTypeOK, WorkListTypeOK, HandTypeOK, PCs,
         Holding, DueRecord, localVars, clientVars
<1>4. ASSUME NEW w \in Workers, Begin(w) PROVE Typed'
  BY <1>4, <1>t, NumbersAreNat
     DEF Begin, ControlTypeOK, WorkListTypeOK, HandTypeOK, PCs,
         Holding, DueRecord, localVars, clientVars
<1>5. ASSUME NEW w \in Workers, Reclaim(w) PROVE Typed'
  BY <1>5, <1>t, NumbersAreNat
     DEF Reclaim, ControlTypeOK, WorkListTypeOK, HandTypeOK, PCs,
         Holding, DueRecord, localVars, clientVars
<1>6. ASSUME NEW w \in Workers, ListDue(w) PROVE Typed'
  BY <1>6, <1>t, NumbersAreNat
     DEF ListDue, Enabled, DbTypeOK, ScheduleRow, ControlTypeOK, WorkListTypeOK, HandTypeOK, PCs,
         Holding, DueRecord, localVars, clientVars
<1>7. ASSUME NEW w \in Workers, CreateFails(w) PROVE Typed'
  BY <1>7, <1>t, NumbersAreNat
     DEF CreateFails, ControlTypeOK, WorkListTypeOK, HandTypeOK, PCs,
         Holding, DueRecord, localVars, clientVars
<1>8. ASSUME NEW w \in Workers, ListClaimable(w) PROVE Typed'
  BY <1>8, <1>t, NumbersAreNat
     DEF ListClaimable, ControlTypeOK, WorkListTypeOK, HandTypeOK, PCs,
         Holding, DueRecord, localVars, clientVars
<1>9. ASSUME NEW w \in Workers, EndTick(w) PROVE Typed'
  BY <1>9, <1>t, NumbersAreNat
     DEF EndTick, ControlTypeOK, WorkListTypeOK, HandTypeOK, PCs,
         Holding, DueRecord, localVars, clientVars
<1>10. ASSUME NEW w \in Workers, Claim(w) PROVE Typed'
  <2>1. DbTypeOK'
    BY <1>d DEF DbInv
  <2>2. tries'[w] \in Nat
    <3>1. cur[w] \in Runs
      BY <1>10, <1>t DEF Claim, HandTypeOK
    <3>2. runs'[cur[w]].attempt \in Nat
      BY <2>1, <3>1 DEF DbTypeOK, RunRow
    <3>3. QED
      BY <1>10, <1>t, <3>2 DEF Claim, ControlTypeOK
  <2>3. QED
    BY <1>10, <1>t, <2>2 DEF Claim, ControlTypeOK, WorkListTypeOK, HandTypeOK,
       PCs, Holding, localVars, clientVars
<1>11. ASSUME NEW w \in Workers, ClaimRefused(w) PROVE Typed'
  BY <1>11, <1>t, NumbersAreNat
     DEF ClaimRefused, ControlTypeOK, WorkListTypeOK, HandTypeOK, PCs,
         Holding, DueRecord, localVars, clientVars
<1>12. ASSUME NEW w \in Workers, Mark(w) PROVE Typed'
  BY <1>12, <1>t, NumbersAreNat
     DEF Mark, ControlTypeOK, WorkListTypeOK, HandTypeOK, PCs,
         Holding, DueRecord, localVars, clientVars
<1>13. ASSUME NEW w \in Workers, MarkConflict(w) PROVE Typed'
  BY <1>13, <1>t, NumbersAreNat
     DEF MarkConflict, GoDown, ControlTypeOK, WorkListTypeOK, HandTypeOK, PCs,
         Holding, DueRecord, localVars, clientVars
<1>14. ASSUME NEW w \in Workers, NEW y \in {"signal", "parent"}, StopRequested(w, y) PROVE Typed'
  BY <1>14, <1>t, NumbersAreNat
     DEF StopRequested, ControlTypeOK, WorkListTypeOK, HandTypeOK, PCs,
         Holding, DueRecord, localVars, clientVars
<1>15. ASSUME NEW w \in Workers, NEW d \in due[w], NotDue(w, d) PROVE Typed'
  BY <1>15, <1>t, NumbersAreNat
     DEF NotDue, ControlTypeOK, WorkListTypeOK, HandTypeOK, PCs,
         Holding, DueRecord, localVars, clientVars
<1>16. ASSUME NEW w \in Workers, NEW d \in due[w], Advance(w, d) PROVE Typed'
  <2>1. d \in DueRecord /\ observed[w] \in Nat
    BY <1>t DEF WorkListTypeOK, ControlTypeOK
  <2>2. LastDue(d, observed[w]) \in Nat
    BY <1>16, <2>1, DueDecision DEF Advance
  <2>3. [d EXCEPT !.next = LastDue(d, observed[w])] \in DueRecord /\ d.id \in Schedules
    BY <2>1, <2>2 DEF DueRecord
  <2>4. QED
    BY <1>16, <1>t, <2>1, <2>3 DEF Advance, ControlTypeOK, WorkListTypeOK,
       HandTypeOK, PCs, Holding, localVars, clientVars
<1>17. ASSUME NEW w \in Workers, NEW r \in Runs, CreateDue(w, r) PROVE Typed'
  BY <1>17, <1>t, NumbersAreNat
     DEF CreateDue, ControlTypeOK, WorkListTypeOK, HandTypeOK, PCs,
         Holding, DueRecord, localVars, clientVars
<1>18. ASSUME NEW w \in Workers, NEW r \in todo[w], Take(w, r) PROVE Typed'
  BY <1>18, <1>t, NumbersAreNat
     DEF Take, ControlTypeOK, WorkListTypeOK, HandTypeOK, PCs,
         Holding, DueRecord, localVars, clientVars
<1>19. ASSUME NEW w \in Workers, NEW o \in {"success", "failed"}, Finish(w, o) PROVE Typed'
  BY <1>19, <1>t, NumbersAreNat
     DEF Finish, ControlTypeOK, WorkListTypeOK, HandTypeOK, PCs,
         Holding, DueRecord, localVars, clientVars
<1>20. ASSUME NEW s \in Schedules, NEW e \in BOOLEAN, NEW i \in Intervals, WebCreateSchedule(s, e, i) PROVE Typed'
  BY <1>20, <1>t, NumbersAreNat
     DEF WebCreateSchedule, ControlTypeOK, WorkListTypeOK, HandTypeOK, PCs,
         Holding, DueRecord, localVars, clientVars
<1>21. ASSUME NEW s \in Schedules, EditRead(s) PROVE Typed'
  BY <1>21, <1>t, NumbersAreNat
     DEF EditRead, ControlTypeOK, WorkListTypeOK, HandTypeOK, PCs,
         Holding, DueRecord, localVars, clientVars
<1>22. ASSUME NEW e \in BOOLEAN, NEW i \in Intervals, EditWrite(e, i) PROVE Typed'
  BY <1>22, <1>t, NumbersAreNat
     DEF EditWrite, ControlTypeOK, WorkListTypeOK, HandTypeOK, PCs,
         Holding, DueRecord, localVars, clientVars
<1>23. ASSUME NEW r \in Runs, NEW s \in Schedules \cup {NoSchedule}, WebQueueRun(r, s) PROVE Typed'
  BY <1>23, <1>t, NumbersAreNat
     DEF WebQueueRun, ControlTypeOK, WorkListTypeOK, HandTypeOK, PCs,
         Holding, DueRecord, localVars, clientVars
<1>24. ASSUME NEW c \in Callers, NEW r \in Runs, NEW k \in {"manual", "historical"}, NEW at \in {0, now}, CallerCreate(c, r, k, at) PROVE Typed'
  BY <1>24, <1>t, NumbersAreNat
     DEF CallerCreate, ControlTypeOK, WorkListTypeOK, HandTypeOK, PCs,
         Holding, DueRecord, localVars, clientVars
<1>25. ASSUME NEW c \in Callers, NEW st \in Terminal, CallerFinalize(c, st) PROVE Typed'
  BY <1>25, <1>t, NumbersAreNat
     DEF CallerFinalize, ControlTypeOK, WorkListTypeOK, HandTypeOK, PCs,
         Holding, DueRecord, localVars, clientVars
<1>26. ASSUME NEW c \in Callers, CallerDies(c) PROVE Typed'
  BY <1>26, <1>t, NumbersAreNat
     DEF CallerDies, ControlTypeOK, WorkListTypeOK, HandTypeOK, PCs,
         Holding, DueRecord, localVars, clientVars
<1>27. ASSUME ClockTick PROVE Typed'
  BY <1>27, <1>t, NumbersAreNat
     DEF ClockTick, ControlTypeOK, WorkListTypeOK, HandTypeOK, PCs,
         Holding, DueRecord, localVars, clientVars
<1>28. ASSUME UNCHANGED vars PROVE Typed'
  BY <1>28, <1>t, NumbersAreNat
     DEF vars, ControlTypeOK, WorkListTypeOK, HandTypeOK, PCs,
         Holding, DueRecord, localVars, clientVars
<1>29. QED
  BY <1>1, <1>2, <1>3, <1>4, <1>5, <1>6, <1>7, <1>8, <1>9, <1>10, <1>11, <1>12, <1>13, <1>14, <1>15, <1>16, <1>17, <1>18, <1>19, <1>20, <1>21, <1>22, <1>23, <1>24, <1>25, <1>26, <1>27, <1>28
     DEF Next, WorkerStep, ClientStep
-----------------------------------------------------------------------------
(* What the steps leave alone.                                             *)

\* A step of worker w: it notes lapses, does not touch the clock, the clients
\* and the other workers.
StepOf(w) ==
  \/ WorkerStep(w) \/ Spawn(w) \/ Crash(w)
  \/ \E why \in {"signal", "parent"} : StopRequested(w, why)

LEMMA WorkerFrame ==
  ASSUME TypeOK, NEW w \in Workers, StepOf(w)
  PROVE  /\ NoteLapse /\ UNCHANGED <<now, held, edit>>
         /\ \A v \in Workers \ {w} :
              pc'[v] = pc[v] /\ cur'[v] = cur[v] /\ observed'[v] = observed[v]
              /\ todo'[v] = todo[v]
BY DEF TypeOK, ControlTypeOK, WorkListTypeOK, HandTypeOK, StepOf, WorkerStep,
   Spawn, Crash, GoDown, StopRequested, Exit, Begin, Reclaim, ListDue, NotDue,
   Advance, CreateDue, CreateFails, ListClaimable, Take, EndTick, Claim,
   ClaimRefused, Mark, MarkConflict, Finish, clientVars

\* A step of a client or of the clock.
LEMMA OtherFrame ==
  ASSUME ClientStep \/ ClockTick
  PROVE  NoteLapse /\ UNCHANGED localVars
BY DEF ClientStep, WebCreateSchedule, EditRead, EditWrite, WebQueueRun,
   CallerCreate, CallerFinalize, CallerDies, ClockTick

LEMMA NextCases ==
  ASSUME [Next]_vars
  PROVE  \/ \E w \in Workers : StepOf(w)
         \/ ClientStep
         \/ ClockTick
         \/ UNCHANGED vars
BY DEF Next, StepOf

LEMMA EditStep == TypeOK /\ [Next]_vars => EditTypeOK'
<1> SUFFICES ASSUME TypeOK, [Next]_vars PROVE EditTypeOK'
  OBVIOUS
<1>t. DbTypeOK /\ EditTypeOK
  BY DEF TypeOK
<1>1. CASE \E w \in Workers : StepOf(w)
  BY <1>1, <1>t, WorkerFrame DEF EditTypeOK
<1>2. CASE ClientStep
  <2>1. ASSUME NEW s \in Schedules, EditRead(s) PROVE EditTypeOK'
    <3>1. edit' = [id |-> s, version |-> schedules[s].version,
                   next |-> schedules[s].next]
      BY <2>1 DEF EditRead
    <3>2. schedules[s].version \in Nat /\ schedules[s].next \in Nat \cup {NoTime}
      BY <1>t DEF DbTypeOK, ScheduleRow
    <3>3. QED
      BY <3>1, <3>2 DEF EditTypeOK
  <2>2. edit' = edit \/ edit' = NoEdit \/ \E s \in Schedules : EditRead(s)
    BY <1>2 DEF ClientStep, WebCreateSchedule, EditWrite, WebQueueRun,
       CallerCreate, CallerFinalize, CallerDies, clientVars
  <2>3. QED
    BY <1>t, <2>1, <2>2 DEF EditTypeOK
<1>3. CASE ClockTick
  BY <1>3, <1>t DEF ClockTick, clientVars, EditTypeOK
<1>4. CASE UNCHANGED vars
  BY <1>4, <1>t DEF vars, clientVars, EditTypeOK
<1>5. QED
  BY <1>1, <1>2, <1>3, <1>4, NextCases

\* What a step does to the history of due times.
LEMMA LookSteps ==
  ASSUME [Next]_vars
  PROVE  \/ UNCHANGED <<slotOf, span, lost, looked>>
         \/ /\ UNCHANGED <<slotOf, span, lost>>
            /\ \E w \in Workers : \E d \in due[w] : NotDue(w, d) \/ Advance(w, d)
         \/ \E w \in Workers, r \in Runs : CreateDue(w, r)
         \/ /\ UNCHANGED <<slotOf, span, looked>>
            /\ \E w \in Workers : CreateFails(w) \/ Crash(w)
<1>1. ASSUME NEW w \in Workers, StepOf(w)
      PROVE  \/ UNCHANGED <<slotOf, span, lost, looked>>
             \/ UNCHANGED <<slotOf, span, lost>> /\ \E d \in due[w] : NotDue(w, d) \/ Advance(w, d)
             \/ \E r \in Runs : CreateDue(w, r)
             \/ UNCHANGED <<slotOf, span, looked>> /\ (CreateFails(w) \/ Crash(w))
  BY <1>1, SMTT(30) DEF StepOf, WorkerStep, Spawn, Crash, StopRequested, Exit, Begin, Reclaim,
     ListDue, NotDue, Advance, CreateFails, ListClaimable, Take, EndTick, Claim, ClaimRefused,
     Mark, MarkConflict, Finish, lookVars
<1>2. CASE ClientStep \/ ClockTick
  BY <1>2 DEF ClientStep, WebCreateSchedule, EditRead, EditWrite, WebQueueRun, CallerCreate,
     CallerFinalize, CallerDies, ClockTick, lookVars
<1>3. CASE UNCHANGED vars
  BY <1>3 DEF vars, lookVars
<1> QED BY <1>1, <1>2, <1>3, NextCases

LEMMA LookTyped == TypeOK /\ [Next]_vars => LookTypeOK'
<1> SUFFICES ASSUME TypeOK, [Next]_vars PROVE LookTypeOK'
  OBVIOUS
<1>t. /\ LookTypeOK
      /\ \A w \in Workers : observed[w] \in Nat /\ due[w] \subseteq DueRecord
      /\ \A d \in DueRecord : d.id \in Schedules /\ d.interval \in Nat
  BY DEF TypeOK, ControlTypeOK, WorkListTypeOK, DueRecord
<1>1. CASE UNCHANGED <<slotOf, span, lost, looked>>
  BY <1>t, <1>1 DEF LookTypeOK
<1>2. ASSUME NEW w \in Workers, NEW d \in due[w], NotDue(w, d) \/ Advance(w, d),
             UNCHANGED <<slotOf, span, lost>>
      PROVE  LookTypeOK'
  <2>1. looked' = [looked EXCEPT ![d.id] = observed[w]]
    BY <1>2 DEF NotDue, Advance
  <2> QED BY <1>t, <1>2, <2>1 DEF LookTypeOK
<1>3. ASSUME NEW w \in Workers, NEW r \in Runs, CreateDue(w, r) PROVE LookTypeOK'
  <2>1. PICK d \in due[w] : span' = [span EXCEPT ![r] = d.interval]
    BY <1>3 DEF CreateDue
  <2>2. UNCHANGED <<lost, looked>>
    BY <1>3 DEF CreateDue
  <2> QED BY <1>t, <2>1, <2>2 DEF LookTypeOK
<1>4. ASSUME NEW w \in Workers, CreateFails(w) \/ Crash(w), UNCHANGED <<slotOf, span, looked>>
      PROVE  LookTypeOK'
  <2>1. lost' = lost \cup Inserting(w)
    BY <1>4 DEF CreateFails, Crash
  <2> QED BY <1>t, <1>4, <2>1 DEF LookTypeOK, Inserting
<1> QED BY <1>1, <1>2, <1>3, <1>4, LookSteps

LapseNoted == PastLease => lapsed

\* A lapse once noted stays noted, and no lapse goes unnoted.
LEMMA LapseStep ==
  TypeOK /\ LapseNoted /\ [Next]_vars =>
    /\ lapsed' \in BOOLEAN
    /\ LapseNoted'
    /\ lapsed => lapsed'
<1> SUFFICES ASSUME TypeOK, LapseNoted, [Next]_vars
             PROVE  lapsed' \in BOOLEAN /\ LapseNoted' /\ (lapsed => lapsed')
  OBVIOUS
<1>1. ASSUME NoteLapse
      PROVE  lapsed' \in BOOLEAN /\ LapseNoted' /\ (lapsed => lapsed')
  BY <1>1, Zenon DEF NoteLapse, LapseNoted
<1>2. ASSUME UNCHANGED vars
      PROVE  lapsed' \in BOOLEAN /\ LapseNoted' /\ (lapsed => lapsed')
  <2>1. lapsed \in BOOLEAN
    BY DEF TypeOK
  <2>2. lapsed' = lapsed
    BY <1>2 DEF vars
  <2>3. PastLease' = PastLease
    BY <1>2 DEF vars, dbVars, localVars, PastLease, Holding, LeaseOf,
       LeaseSeconds
  <2>4. QED
    BY <2>1, <2>2, <2>3, Zenon DEF LapseNoted
<1>3. QED
  BY <1>1, <1>2, NextCases, WorkerFrame, OtherFrame

-----------------------------------------------------------------------------
(* Types and tables.                                                       *)

TypeInv == TypeOK /\ DbInv

LEMMA TypeInvStep == TypeInv /\ [Next]_vars => TypeInv'
<1> SUFFICES ASSUME TypeInv, [Next]_vars PROVE TypeInv'
  OBVIOUS
<1>1. DbInv'
  BY DbStep DEF TypeInv
<1>2. ControlTypeOK' /\ WorkListTypeOK' /\ HandTypeOK'
  BY <1>1, LocalStep DEF TypeInv
<1>3. EditTypeOK'
  BY EditStep DEF TypeInv
<1>4. lapsed' \in BOOLEAN
  <2>1. ASSUME NoteLapse PROVE lapsed' \in BOOLEAN
    BY <2>1, Zenon DEF NoteLapse
  <2>2. ASSUME UNCHANGED vars PROVE lapsed' \in BOOLEAN
    BY <2>2 DEF vars, TypeInv, TypeOK
  <2>3. QED
    BY <2>1, <2>2, NextCases, WorkerFrame, OtherFrame DEF TypeInv
<1>5. LookTypeOK'
  BY LookTyped DEF TypeInv
<1>6. QED
  BY <1>1, <1>2, <1>3, <1>4, <1>5 DEF TypeInv, TypeOK, DbInv

LEMMA TypeInvariance == Spec => []TypeInv
<1>1. Init => TypeInv
  BY InitTypeOK, InitDbInv DEF TypeInv, Init
<1>2. TypeInv /\ [Next]_vars => TypeInv'
  BY TypeInvStep
<1>3. QED
  BY <1>1, <1>2, PTL DEF Spec

\* Every variable keeps its type: a worker in the middle of a tick has the
\* schedule or the run in hand that its next step works on.
THEOREM TypeCorrect == Spec => []TypeOK
<1>1. TypeInv => TypeOK
  BY DEF TypeInv
<1>2. QED
  BY <1>1, TypeInvariance, PTL

-----------------------------------------------------------------------------
(* The inductive invariant.                                                *)

\* No worker works with a clock value from the future.
ClockInv == \A w \in Workers : observed[w] <= now

\* Rows in hand exist; a caller's row has no schedule.
RowsExist ==
  /\ \A w \in Workers :
       /\ pc[w] = "claim" \/ Holding(w) => Exists(cur[w])
       /\ \A r \in todo[w] : Exists(r)
  /\ \A c \in Callers :
       held[c] # NoRun => Exists(held[c]) /\ runs[held[c]].schedule = NoSchedule

\* Worker w has the row of its scheduled run under its own lease.
Owns(w) ==
  ScheduleOf(w) # NoSchedule =>
    /\ runs[cur[w]].status = IF pc[w] = "mark" THEN "claimed" ELSE "running"
    /\ runs[cur[w]].owner = w
    /\ runs[cur[w]].expires = LeaseOf(w)

Ownership == ~lapsed => \A w \in Workers : Holding(w) => Owns(w)

IInv == TypeInv /\ ClockInv /\ RowsExist /\ LapseNoted /\ Ownership

LEMMA InitIInv == Init => IInv
<1> SUFFICES ASSUME Init PROVE IInv
  OBVIOUS
<1>1. TypeInv
  BY InitTypeOK, InitDbInv DEF TypeInv, Init
<1>2. \A w \in Workers : /\ observed[w] = 0 /\ pc[w] = "down" /\ todo[w] = {}
                         /\ ~Holding(w)
  BY DEF Init, Holding
<1>3. ClockInv
  BY <1>2 DEF Init, ClockInv
<1>4. RowsExist
  BY <1>2 DEF Init, RowsExist
<1>5. LapseNoted /\ Ownership
  BY <1>2 DEF LapseNoted, PastLease, Ownership
<1>6. QED
  BY <1>1, <1>3, <1>4, <1>5 DEF IInv

LEMMA ClockStep == TypeInv /\ ClockInv /\ [Next]_vars => ClockInv'
<1> SUFFICES ASSUME TypeInv, ClockInv, [Next]_vars PROVE ClockInv'
  OBVIOUS
<1>t. ControlTypeOK /\ TypeOK
  BY DEF TypeInv, TypeOK
<1>1. ASSUME NEW w \in Workers, StepOf(w) PROVE ClockInv'
  <2>1. now' = now /\ \A v \in Workers \ {w} : observed'[v] = observed[v]
    BY <1>t, <1>1, WorkerFrame
  <2>2. observed'[w] \in {0, now, observed[w]}
    BY <1>t, <1>1 DEF ControlTypeOK, StepOf, WorkerStep, Spawn, Crash, GoDown,
       StopRequested, Exit, Begin, Reclaim, ListDue, NotDue, Advance,
       CreateDue, CreateFails, ListClaimable, Take, EndTick, Claim,
       ClaimRefused, Mark, MarkConflict, Finish
  <2>3. QED
    BY <1>t, <2>1, <2>2 DEF ClockInv, ControlTypeOK
<1>2. CASE ClientStep
  BY <1>2 DEF ClockInv, ClientStep, WebCreateSchedule, EditRead, EditWrite,
     WebQueueRun, CallerCreate, CallerFinalize, CallerDies, localVars
<1>3. CASE ClockTick
  BY <1>3, <1>t DEF ClockInv, ClockTick, localVars, ControlTypeOK
<1>4. CASE UNCHANGED vars
  BY <1>4 DEF ClockInv, vars, localVars
<1>5. QED
  BY <1>1, <1>2, <1>3, <1>4, NextCases

\* The steps that change the table of runs.
LEMMA RunsSteps ==
  ASSUME [Next]_vars
  PROVE  \/ UNCHANGED runs
         \/ \E w \in Workers :
              \/ Reclaim(w) \/ Claim(w) \/ Mark(w)
              \/ \E r \in Runs : CreateDue(w, r)
              \/ \E o \in {"success", "failed"} : Finish(w, o)
         \/ \E r \in Runs, s \in Schedules \cup {NoSchedule} : WebQueueRun(r, s)
         \/ \E c \in Callers, r \in Runs, k \in {"manual", "historical"},
               at \in {0, now} : CallerCreate(c, r, k, at)
         \/ \E c \in Callers, st \in Terminal : CallerFinalize(c, st)
BY ZenonT(30) DEF Next, WorkerStep, ClientStep, Spawn, Crash, StopRequested, Exit,
   Begin, ListDue, NotDue, Advance, CreateFails, ListClaimable, Take,
   EndTick, ClaimRefused, MarkConflict, WebCreateSchedule, EditRead,
   EditWrite, CallerDies, ClockTick, SetNextRun, CreateSchedule,
   UpdateSchedule, vars, dbVars

\* Every step is a step of the database that keeps the rows, or leaves the
\* runs alone.
LEMMA RowsStep == TypeInv /\ [Next]_vars => RowsStay
<1> SUFFICES ASSUME TypeInv, [Next]_vars PROVE RowsStay
  OBVIOUS
<1>t. DbTypeOK /\ ControlTypeOK /\ HandTypeOK
  BY DEF TypeInv, TypeOK
<1>1. ASSUME NEW w \in Workers, Reclaim(w) PROVE RowsStay
  BY <1>1, <1>t, ReclaimStay DEF Reclaim, ControlTypeOK
<1>2. ASSUME NEW w \in Workers, NEW r \in Runs, CreateDue(w, r) PROVE RowsStay
  BY <1>2, <1>t, CreateRunStay DEF CreateDue
<1>3. ASSUME NEW w \in Workers, Claim(w) PROVE RowsStay
  BY <1>3, <1>t, ClaimRunStay, LeaseSecondsNat
     DEF Claim, ControlTypeOK, HandTypeOK
<1>4. ASSUME NEW w \in Workers, Mark(w) PROVE RowsStay
  BY <1>4, <1>t, MarkRunRunningStay DEF Mark, HandTypeOK, Holding
<1>5. ASSUME NEW w \in Workers, NEW o \in {"success", "failed"}, Finish(w, o)
      PROVE  RowsStay
  <2>1. cur[w] \in Runs /\ now \in Nat /\ o \in Terminal
    BY <1>5, <1>t DEF Finish, HandTypeOK, ControlTypeOK, Holding, Terminal
  <2>2. QED
    BY <1>5, <1>t, <2>1, RequeueRunStay, FinalizeRunStay DEF Finish
<1>6. ASSUME NEW r \in Runs, NEW s \in Schedules \cup {NoSchedule},
             WebQueueRun(r, s)
      PROVE  RowsStay
  BY <1>6, <1>t, CreateRunStay DEF WebQueueRun
<1>7. ASSUME NEW c \in Callers, NEW r \in Runs, NEW k, NEW at,
             CallerCreate(c, r, k, at)
      PROVE  RowsStay
  BY <1>7, <1>t, CreateRunStay DEF CallerCreate
<1>8. ASSUME NEW c \in Callers, NEW st \in Terminal, CallerFinalize(c, st)
      PROVE  RowsStay
  <2>1. held[c] \in Runs
    BY <1>8, <1>t DEF CallerFinalize, ControlTypeOK
  <2>2. QED
    BY <1>8, <1>t, <2>1, FinalizeRunStay DEF CallerFinalize
<1>9. QED
  BY <1>1, <1>2, <1>3, <1>4, <1>5, <1>6, <1>7, <1>8, RunsSteps,
     UnchangedRowsStay

LEMMA RowsExistStep == TypeInv /\ RowsExist /\ [Next]_vars => RowsExist'
<1> SUFFICES ASSUME TypeInv, RowsExist, [Next]_vars PROVE RowsExist'
  OBVIOUS
<1>t. TypeOK /\ DbTypeOK /\ ControlTypeOK /\ HandTypeOK /\ WorkListTypeOK
  BY DEF TypeInv, TypeOK
<1>u. TypeOK' /\ ControlTypeOK' /\ HandTypeOK' /\ WorkListTypeOK'
  BY TypeInvStep DEF TypeInv, TypeOK
<1>s. RowsStay
  BY RowsStep
<1> DEFINE HandsExist(w) ==
      /\ pc'[w] = "claim" \/ Holding(w)' => Exists(cur'[w])
      /\ \A r \in todo'[w] : Exists(r)
<1>1. ASSUME NEW w \in Workers, StepOf(w) PROVE HandsExist(w)
  BY <1>1, <1>t
     DEF RowsExist, Exists, Holding, ControlTypeOK, HandTypeOK, WorkListTypeOK,
         StepOf, WorkerStep, Spawn, Crash, GoDown, StopRequested, Exit, Begin,
         Reclaim, ListDue, NotDue, Advance, CreateDue, CreateFails,
         ListClaimable, Take, EndTick, Claim, ClaimRefused, Mark, MarkConflict,
         Finish
<1>2. ASSUME NEW w \in Workers, NEW v \in Workers \ {w}, StepOf(w)
      PROVE  HandsExist(v)
  BY <1>2, <1>t, WorkerFrame DEF RowsExist, Holding
<1>3. ASSUME NEW w \in Workers, UNCHANGED localVars PROVE HandsExist(w)
  BY <1>3 DEF RowsExist, Holding, localVars
<1>4. \A w \in Workers : HandsExist(w)
  BY <1>1, <1>2, <1>3, NextCases, OtherFrame DEF vars
<1>5. \A w \in Workers :
        /\ pc'[w] = "claim" \/ Holding(w)' => cur'[w] \in Runs
        /\ todo'[w] \subseteq Runs
  BY <1>u DEF HandTypeOK, WorkListTypeOK, Holding
<1>6. ASSUME NEW c \in Callers, held'[c] # NoRun
      PROVE  Exists(held[c])' /\ runs'[held'[c]].schedule = NoSchedule
  <2>1. CASE held'[c] = held[c]
    BY <1>6, <1>t, <1>s, <2>1 DEF RowsExist, RowsStay, ControlTypeOK, Exists
  <2>2. ASSUME NEW r \in Runs, NEW k, NEW at, CallerCreate(c, r, k, at)
        PROVE  Exists(held[c])' /\ runs'[held'[c]].schedule = NoSchedule
    <3>1. held'[c] = r
      BY <2>2, <1>t DEF CallerCreate, ControlTypeOK
    <3>2. QED
      BY <2>2, <1>t, <3>1, CreateRunStay DEF CallerCreate, Exists
  <2>3. \/ held'[c] = held[c]
        \/ \E r \in Runs, k \in {"manual", "historical"}, at \in {0, now} :
             CallerCreate(c, r, k, at)
    <3>1. CASE ClientStep
      BY <1>6, <1>t, <3>1 DEF ControlTypeOK, ClientStep, WebCreateSchedule,
         EditRead, EditWrite, WebQueueRun, CallerCreate, CallerFinalize,
         CallerDies, clientVars
    <3>2. CASE \E w \in Workers : StepOf(w)
      BY <1>t, <3>2, WorkerFrame
    <3>3. CASE ClockTick \/ UNCHANGED vars
      BY <3>3 DEF ClockTick, vars, clientVars
    <3>4. QED
      BY <3>1, <3>2, <3>3, NextCases
  <2>4. QED
    BY <2>1, <2>2, <2>3
<1>7. QED
  BY <1>s, <1>4, <1>5, <1>6 DEF RowsExist, RowsStay, Exists, Holding

\* If a holder had the run before and nobody touched its row, it owns it still.
LEMMA StillOwns ==
  ASSUME NEW w \in Workers, Holding(w), Owns(w),
         pc'[w] = pc[w], cur'[w] = cur[w], observed'[w] = observed[w],
         ScheduleOf(w) # NoSchedule => runs'[cur[w]] = runs[cur[w]],
         runs'[cur[w]].schedule = runs[cur[w]].schedule
  PROVE  Owns(w)'
BY DEF Owns, ScheduleOf, LeaseOf, LeaseSeconds

\* What the invariant gives the other workers before a step of v.
LEMMA Holder ==
  ASSUME IInv, ~lapsed, NEW w \in Workers, Holding(w), ScheduleOf(w) # NoSchedule
  PROVE  /\ cur[w] \in Runs /\ Exists(cur[w]) /\ IsActive(cur[w])
         /\ runs[cur[w]].owner = w
         /\ runs[cur[w]].status = IF pc[w] = "mark" THEN "claimed" ELSE "running"
         /\ \A v \in Workers : ~Stale(cur[w], observed[v])
         /\ \A v \in Workers \ {w} : LiveLeaseOfOther(cur[w], v, observed[v])
<1>1. cur[w] \in Runs /\ Exists(cur[w])
  BY DEF IInv, TypeInv, TypeOK, HandTypeOK, RowsExist
<1>2. /\ runs[cur[w]].status = IF pc[w] = "mark" THEN "claimed" ELSE "running"
      /\ runs[cur[w]].owner = w
      /\ runs[cur[w]].expires = LeaseOf(w)
  BY DEF IInv, Ownership, Owns
<1>3. IsActive(cur[w])
  BY <1>2 DEF IsActive, Active
<1>4. observed[w] \in Nat /\ now \in Nat /\ LeaseOf(w) \in Nat
  BY LeaseSecondsNat, LeaseEndNat
     DEF IInv, TypeInv, TypeOK, ControlTypeOK, LeaseOf
<1>5. LeaseOf(w) > now
  BY <1>4 DEF IInv, LapseNoted, PastLease
<1>6. \A v \in Workers : observed[v] \in Nat /\ observed[v] <= now
  BY DEF IInv, ClockInv, TypeInv, TypeOK, ControlTypeOK
<1>7. runs[cur[w]].expires # NoTime
  BY <1>2, <1>4, NullsAreNotIds
<1>8. \A v \in Workers : runs[cur[w]].expires > observed[v]
  BY <1>2, <1>4, <1>5, <1>6
<1>9. \A v \in Workers : ~(runs[cur[w]].expires <= observed[v])
  BY <1>2, <1>4, <1>6, <1>8
<1>10. QED
  BY <1>1, <1>2, <1>3, <1>7, <1>8, <1>9 DEF Stale, LiveLeaseOfOther

\* No step touches a row that somebody else's lease protects.
LEMMA OthersRow ==
  ASSUME IInv, ~lapsed, [Next]_vars,
         NEW w \in Workers, Holding(w), ScheduleOf(w) # NoSchedule,
         ~Mark(w), \A o \in {"success", "failed"} : ~Finish(w, o)
  PROVE  runs'[cur[w]] = runs[cur[w]]
<1>t. DbTypeOK /\ ControlTypeOK /\ HandTypeOK
  BY DEF IInv, TypeInv, TypeOK
<1>h. /\ cur[w] \in Runs /\ Exists(cur[w]) /\ IsActive(cur[w])
      /\ runs[cur[w]].owner = w
      /\ \A v \in Workers : ~Stale(cur[w], observed[v])
      /\ \A v \in Workers \ {w} : LiveLeaseOfOther(cur[w], v, observed[v])
  BY Holder
<1>1. ASSUME NEW v \in Workers, Reclaim(v) PROVE runs'[cur[w]] = runs[cur[w]]
  BY <1>1, <1>t, <1>h, ReclaimStay DEF Reclaim, ControlTypeOK
<1>2. ASSUME NEW v \in Workers, NEW r \in Runs, CreateDue(v, r)
      PROVE  runs'[cur[w]] = runs[cur[w]]
  BY <1>2, <1>t, <1>h, CreateRunStay DEF CreateDue
<1>3. ASSUME NEW v \in Workers, Claim(v) PROVE runs'[cur[w]] = runs[cur[w]]
  <2>1. v # w
    BY <1>3 DEF Claim, Holding
  <2>2. cur[v] # cur[w]
    BY <1>3, <1>h, <2>1 DEF Claim, ClaimRun, CanClaim
  <2>3. QED
    BY <1>3, <1>t, <1>h, <2>2, ClaimRunStay, LeaseSecondsNat
       DEF Claim, ControlTypeOK, HandTypeOK
<1>4. ASSUME NEW v \in Workers, Mark(v) PROVE runs'[cur[w]] = runs[cur[w]]
  <2>1. v # w /\ cur[v] \in Runs
    BY <1>4, <1>t DEF Mark, HandTypeOK, Holding
  <2>2. cur[v] # cur[w]
    BY <1>4, <1>h, <2>1 DEF Mark, MarkRunRunning, CanMark
  <2>3. QED
    BY <1>4, <1>t, <1>h, <2>1, <2>2, MarkRunRunningStay DEF Mark
<1>5. ASSUME NEW v \in Workers, NEW o \in {"success", "failed"}, Finish(v, o)
      PROVE  runs'[cur[w]] = runs[cur[w]]
  <2>1. v # w /\ cur[v] \in Runs /\ now \in Nat /\ o \in Terminal /\ Holding(v)
    BY <1>5, <1>t DEF Finish, HandTypeOK, ControlTypeOK, Holding, Terminal
  <2>2. cur[v] # cur[w]
    BY <1>h, <2>1, Holder DEF ScheduleOf
  <2>3. QED
    BY <1>5, <1>t, <1>h, <2>1, <2>2, RequeueRunStay, FinalizeRunStay DEF Finish
<1>6. ASSUME NEW r \in Runs, NEW s \in Schedules \cup {NoSchedule},
             WebQueueRun(r, s)
      PROVE  runs'[cur[w]] = runs[cur[w]]
  BY <1>6, <1>t, <1>h, CreateRunStay DEF WebQueueRun
<1>7. ASSUME NEW c \in Callers, NEW r \in Runs, NEW k, NEW at,
             CallerCreate(c, r, k, at)
      PROVE  runs'[cur[w]] = runs[cur[w]]
  BY <1>7, <1>t, <1>h, CreateRunStay DEF CallerCreate
<1>8. ASSUME NEW c \in Callers, NEW st \in Terminal, CallerFinalize(c, st)
      PROVE  runs'[cur[w]] = runs[cur[w]]
  <2>1. held[c] \in Runs /\ held[c] # cur[w]
    BY <1>8, <1>t DEF CallerFinalize, ControlTypeOK, IInv, RowsExist, ScheduleOf
  <2>2. QED
    BY <1>8, <1>t, <1>h, <2>1, FinalizeRunStay DEF CallerFinalize
<1>9. QED
  BY <1>1, <1>2, <1>3, <1>4, <1>5, <1>6, <1>7, <1>8, RunsSteps

\* Who holds a run after a step held it before, or has just claimed it.
LEMMA HolderSource ==
  ASSUME TypeInv, [Next]_vars, NEW w \in Workers, Holding(w)'
  PROVE  \/ Claim(w)
         \/ Mark(w)
         \/ /\ Holding(w) /\ pc'[w] = pc[w] /\ cur'[w] = cur[w]
            /\ observed'[w] = observed[w]
            /\ ~Mark(w) /\ \A o \in {"success", "failed"} : ~Finish(w, o)
<1>t. TypeOK /\ ControlTypeOK /\ HandTypeOK
  BY DEF TypeInv, TypeOK
<1>1. CASE StepOf(w)
  BY <1>1, <1>t
     DEF Holding, ControlTypeOK, HandTypeOK, StepOf, WorkerStep, Spawn, Crash,
         GoDown, StopRequested, Exit, Begin, Reclaim, ListDue, NotDue, Advance,
         CreateDue, CreateFails, ListClaimable, Take, EndTick, Claim,
         ClaimRefused, Mark, MarkConflict, Finish
<1>2. ASSUME pc'[w] = pc[w], cur'[w] = cur[w], observed'[w] = observed[w]
      PROVE  /\ Holding(w) /\ pc'[w] = pc[w] /\ cur'[w] = cur[w]
             /\ observed'[w] = observed[w]
             /\ ~Mark(w) /\ \A o \in {"success", "failed"} : ~Finish(w, o)
  BY <1>2, <1>t DEF Holding, Mark, Finish, ControlTypeOK
<1>3. ASSUME NEW v \in Workers, v # w, StepOf(v)
      PROVE  pc'[w] = pc[w] /\ cur'[w] = cur[w] /\ observed'[w] = observed[w]
  BY <1>3, <1>t, WorkerFrame
<1>4. ASSUME UNCHANGED localVars
      PROVE  pc'[w] = pc[w] /\ cur'[w] = cur[w] /\ observed'[w] = observed[w]
  BY <1>4 DEF localVars
<1>5. QED
  BY <1>1, <1>2, <1>3, <1>4, NextCases, OtherFrame DEF vars

LEMMA OwnershipStep == IInv /\ [Next]_vars => Ownership'
<1> SUFFICES ASSUME IInv, [Next]_vars, ~lapsed',
                    NEW w \in Workers, Holding(w)'
             PROVE  Owns(w)'
  BY DEF Ownership
<1>t. /\ TypeInv /\ TypeOK /\ DbTypeOK /\ ControlTypeOK /\ HandTypeOK
      /\ RowsExist /\ Ownership
  BY DEF IInv, TypeInv, TypeOK
<1>l. ~lapsed
  BY LapseStep DEF IInv, TypeInv
<1>s. RowsStay
  BY <1>t, RowsStep
<1>1. CASE Claim(w)
  <2>1. /\ cur'[w] = cur[w] /\ cur[w] \in Runs /\ observed'[w] = observed[w]
        /\ observed[w] \in Nat /\ pc'[w] = "mark" /\ Exists(cur[w])
    BY <1>1, <1>t DEF Claim, HandTypeOK, ControlTypeOK, RowsExist
  <2>2. /\ runs'[cur[w]].status = "claimed" /\ runs'[cur[w]].owner = w
        /\ runs'[cur[w]].expires = LeaseEnd(observed[w], LeaseSeconds(cur[w]))
    BY <1>1, <1>t, <2>1, ClaimRunStay, LeaseSecondsNat DEF Claim
  <2>3. runs'[cur[w]].schedule = runs[cur[w]].schedule
    BY <1>s, <2>1 DEF RowsStay
  <2>4. LeaseOf(w)' = LeaseEnd(observed[w], LeaseSeconds(cur[w]))
    BY <2>1, <2>3 DEF LeaseOf, LeaseSeconds
  <2>5. QED
    BY <2>1, <2>2, <2>4 DEF Owns
<1>2. CASE Mark(w)
  <2>1. /\ cur'[w] = cur[w] /\ cur[w] \in Runs /\ observed'[w] = observed[w]
        /\ pc[w] = "mark" /\ pc'[w] = "execute" /\ Holding(w) /\ Exists(cur[w])
    BY <1>2, <1>t DEF Mark, HandTypeOK, ControlTypeOK, RowsExist, Holding
  <2>2. /\ runs'[cur[w]].status = "running"
        /\ runs'[cur[w]].owner = runs[cur[w]].owner
        /\ runs'[cur[w]].expires = runs[cur[w]].expires
    BY <1>2, <1>t, <2>1, MarkRunRunningStay DEF Mark
  <2>3. runs'[cur[w]].schedule = runs[cur[w]].schedule
    BY <1>s, <2>1 DEF RowsStay
  <2>4. LeaseOf(w)' = LeaseOf(w) /\ ScheduleOf(w)' = ScheduleOf(w)
    BY <2>1, <2>3 DEF LeaseOf, LeaseSeconds, ScheduleOf
  <2>5. Owns(w)
    BY <1>l, <1>t, <2>1 DEF Ownership
  <2>6. QED
    BY <2>1, <2>2, <2>4, <2>5 DEF Owns
<1>3. CASE /\ Holding(w) /\ pc'[w] = pc[w] /\ cur'[w] = cur[w]
           /\ observed'[w] = observed[w]
           /\ ~Mark(w) /\ \A o \in {"success", "failed"} : ~Finish(w, o)
  <2>1. Owns(w) /\ cur[w] \in Runs /\ Exists(cur[w])
    BY <1>l, <1>t, <1>3 DEF Ownership, HandTypeOK, RowsExist
  <2>2. ScheduleOf(w) # NoSchedule => runs'[cur[w]] = runs[cur[w]]
    BY <1>l, <1>3, OthersRow
  <2>3. runs'[cur[w]].schedule = runs[cur[w]].schedule
    BY <1>s, <2>1 DEF RowsStay
  <2>4. QED
    BY <1>3, <2>1, <2>2, <2>3, StillOwns
<1>4. QED
  BY <1>t, <1>1, <1>2, <1>3, HolderSource

LEMMA Invariance == Spec => []IInv
<1>1. Init => IInv
  BY InitIInv
<1>2. IInv /\ [Next]_vars => IInv'
  BY TypeInvStep, ClockStep, RowsExistStep, LapseStep, OwnershipStep
     DEF IInv, TypeInv
<1>3. QED
  BY <1>1, <1>2, PTL DEF Spec

-----------------------------------------------------------------------------
(* The theorems that rest on it.                                           *)

LEMMA NoOverlap == IInv => OverlapNeedsLapse
<1> SUFFICES ASSUME IInv, ~lapsed
             PROVE  /\ ~Overlap
                    /\ \A w \in Workers :
                         pc[w] = "execute" /\ ScheduleOf(w) # NoSchedule =>
                           /\ runs[cur[w]].status = "running"
                           /\ runs[cur[w]].owner = w
  BY DEF OverlapNeedsLapse
<1>1. ASSUME NEW w \in Workers, pc[w] = "execute", ScheduleOf(w) # NoSchedule
      PROVE  /\ cur[w] \in Runs /\ IsActive(cur[w])
             /\ runs[cur[w]].status = "running" /\ runs[cur[w]].owner = w
  BY <1>1, Holder DEF Holding
<1>2. ~Overlap
  <2> SUFFICES ASSUME NEW v \in Workers, NEW w \in Workers, v # w,
                      pc[v] = "execute", pc[w] = "execute",
                      ScheduleOf(v) = ScheduleOf(w), ScheduleOf(v) # NoSchedule
               PROVE  FALSE
    BY DEF Overlap
  <2>1. /\ cur[v] \in Runs /\ IsActive(cur[v]) /\ runs[cur[v]].owner = v
        /\ cur[w] \in Runs /\ IsActive(cur[w]) /\ runs[cur[w]].owner = w
    BY <1>1
  <2>2. cur[v] # cur[w]
    BY <2>1
  <2>3. QED
    BY <2>1, <2>2 DEF IInv, TypeInv, DbInv, OneActiveRunPerSchedule, ScheduleOf
<1>3. QED
  BY <1>1, <1>2

\* With any number of workers, clients, crashes and edits, two jobs of one
\* schedule never run at once until some worker has outlived its own lease.
THEOREM SchedulerNoOverlap == Spec => []OverlapNeedsLapse
BY Invariance, NoOverlap, PTL

LEMMA FinishedStep ==
  IInv /\ [Next]_vars =>
    (~lapsed' =>
       \A r \in Runs :
         runs[r].schedule # NoSchedule /\ runs[r].status \in Terminal =>
           runs'[r] = runs[r])
<1> SUFFICES ASSUME IInv, [Next]_vars, ~lapsed', NEW r \in Runs,
                    runs[r].schedule # NoSchedule, runs[r].status \in Terminal
             PROVE  runs'[r] = runs[r]
  OBVIOUS
<1>t. DbTypeOK /\ ControlTypeOK /\ HandTypeOK
  BY DEF IInv, TypeInv, TypeOK
<1>l. ~lapsed
  BY LapseStep DEF IInv, TypeInv
<1>r. /\ Exists(r) /\ ~IsActive(r) /\ runs[r].status \notin Claimable
      /\ runs[r].status # "running" /\ runs[r].status # "claimed"
  BY DEF Exists, IsActive, Active, Claimable, Terminal
<1>1. ASSUME NEW v \in Workers, Reclaim(v) PROVE runs'[r] = runs[r]
  BY <1>1, <1>t, <1>r, ReclaimStay DEF Reclaim, ControlTypeOK, Stale
<1>2. ASSUME NEW v \in Workers, NEW q \in Runs, CreateDue(v, q)
      PROVE  runs'[r] = runs[r]
  BY <1>2, <1>t, <1>r, CreateRunStay DEF CreateDue
<1>3. ASSUME NEW v \in Workers, Claim(v) PROVE runs'[r] = runs[r]
  <2>1. cur[v] # r
    BY <1>3, <1>r DEF Claim, ClaimRun, CanClaim
  <2>2. QED
    BY <1>3, <1>t, <2>1, ClaimRunStay, LeaseSecondsNat
       DEF Claim, ControlTypeOK, HandTypeOK
<1>4. ASSUME NEW v \in Workers, Mark(v) PROVE runs'[r] = runs[r]
  <2>1. cur[v] # r /\ cur[v] \in Runs
    BY <1>4, <1>r, <1>t
       DEF Mark, MarkRunRunning, CanMark, HandTypeOK, Holding
  <2>2. QED
    BY <1>4, <1>t, <2>1, MarkRunRunningStay DEF Mark
<1>5. ASSUME NEW v \in Workers, NEW o \in {"success", "failed"}, Finish(v, o)
      PROVE  runs'[r] = runs[r]
  <2>1. /\ cur[v] \in Runs /\ now \in Nat /\ o \in Terminal /\ Holding(v)
        /\ pc[v] = "execute"
    BY <1>5, <1>t DEF Finish, HandTypeOK, ControlTypeOK, Holding, Terminal
  <2>2. cur[v] # r
    BY <1>l, <1>r, <2>1, Holder DEF ScheduleOf
  <2>3. QED
    BY <1>5, <1>t, <2>1, <2>2, RequeueRunStay, FinalizeRunStay DEF Finish
<1>6. ASSUME NEW q \in Runs, NEW s \in Schedules \cup {NoSchedule},
             WebQueueRun(q, s)
      PROVE  runs'[r] = runs[r]
  BY <1>6, <1>t, <1>r, CreateRunStay DEF WebQueueRun
<1>7. ASSUME NEW c \in Callers, NEW q \in Runs, NEW k, NEW at,
             CallerCreate(c, q, k, at)
      PROVE  runs'[r] = runs[r]
  BY <1>7, <1>t, <1>r, CreateRunStay DEF CallerCreate
<1>8. ASSUME NEW c \in Callers, NEW st \in Terminal, CallerFinalize(c, st)
      PROVE  runs'[r] = runs[r]
  <2>1. held[c] \in Runs /\ held[c] # r
    BY <1>8, <1>t DEF CallerFinalize, ControlTypeOK, IInv, RowsExist
  <2>2. QED
    BY <1>8, <1>t, <2>1, FinalizeRunStay DEF CallerFinalize
<1>9. QED
  BY <1>1, <1>2, <1>3, <1>4, <1>5, <1>6, <1>7, <1>8, RunsSteps

\* The outcome of a scheduled run is final until some worker has outlived its
\* own lease, although finalize_run and requeue_run would overwrite any row.
THEOREM SchedulerFinishedStays == Spec => FinishedStaysFinished
<1>1. IInv /\ [Next]_vars =>
        [~lapsed' =>
           \A r \in Runs :
             runs[r].schedule # NoSchedule /\ runs[r].status \in Terminal =>
               runs'[r] = runs[r]]_vars
  BY FinishedStep
<1>2. QED
  BY <1>1, Invariance, PTL DEF Spec, FinishedStaysFinished

(***************************************************************************)
(* Retries.  Until a lease lapses or a process fails, an active row is in  *)
(* the hands of its owner, who counts its attempts; so a row is queued     *)
(* again only by the worker that claimed it last, and never when its       *)
(* attempts are used up.                                                   *)
(***************************************************************************)
Quiet == ~lapsed /\ faults = 0

HasHand(w, r) ==
  /\ Holding(w) /\ cur[w] = r
  /\ runs[r].owner = w /\ runs[r].expires = LeaseOf(w)
  /\ runs[r].status = IF pc[w] = "mark" THEN "claimed" ELSE "running"

Attempts(r) ==
  Exists(r) =>
    /\ runs[r].attempt <= runs[r].max_attempts
    /\ runs[r].status = "queued" => runs[r].attempt < runs[r].max_attempts

InHand(r) == IsActive(r) => \E w \in Workers : HasHand(w, r)

Tried(w) ==
  Holding(w) => tries[w] = runs[cur[w]].attempt /\ runs[cur[w]].status # "queued"

RetryInv ==
  Quiet => /\ \A r \in Runs : Attempts(r) /\ InHand(r)
           /\ \A w \in Workers : Tried(w)

LEMMA InitRetryInv == Init => RetryInv
<1> SUFFICES ASSUME Init PROVE RetryInv
  OBVIOUS
<1>1. \A r \in Runs : runs[r].status = "absent"
  BY DEF Init, DbInit, AbsentRun
<1>2. \A w \in Workers : ~Holding(w)
  BY DEF Init, Holding
<1> QED BY <1>1, <1>2 DEF RetryInv, Attempts, InHand, Tried, Exists, IsActive, Active

\* Faults are counted, lapses are noted: what is quiet has always been.
LEMMA QuietBefore ==
  ASSUME IInv, [Next]_vars, Quiet'
  PROVE  Quiet /\ faults' = faults
<1>1. ~lapsed
  BY LapseStep DEF IInv, TypeInv, Quiet
<1>2. faults' = faults \/ faults' = faults + 1
  BY DEF Next, WorkerStep, ClientStep, Spawn, Crash, StopRequested, Exit, Begin, Reclaim,
     ListDue, NotDue, Advance, CreateDue, CreateFails, ListClaimable, Take, EndTick, Claim,
     ClaimRefused, Mark, MarkConflict, Finish, WebCreateSchedule, EditRead, EditWrite,
     WebQueueRun, CallerCreate, CallerFinalize, CallerDies, ClockTick, vars
<1>3. faults \in Nat
  BY DEF IInv, TypeInv, TypeOK, ControlTypeOK
<1> QED BY <1>1, <1>2, <1>3 DEF Quiet

\* Nobody sees an active row whose lease is over, nor one without a holder.
LEMMA LeasesLive ==
  ASSUME IInv, RetryInv, Quiet, NEW r \in Runs, IsActive(r)
  PROVE  /\ \A v \in Workers : ~Stale(r, observed[v])
         /\ \A v \in Workers : ~Holding(v) => LiveLeaseOfOther(r, v, observed[v])
<1>1. PICK w \in Workers : HasHand(w, r)
  BY DEF RetryInv, InHand
<1>2. observed[w] \in Nat /\ now \in Nat /\ LeaseOf(w) \in Nat
  BY LeaseSecondsNat, LeaseEndNat DEF IInv, TypeInv, TypeOK, ControlTypeOK, LeaseOf
<1>3. LeaseOf(w) > now
  BY <1>1, <1>2 DEF IInv, LapseNoted, PastLease, HasHand, Quiet
<1>4. \A v \in Workers : observed[v] \in Nat /\ observed[v] <= now
  BY DEF IInv, ClockInv, TypeInv, TypeOK, ControlTypeOK
<1>5. runs[r].expires \in Nat /\ runs[r].expires > now
  BY <1>1, <1>2, <1>3 DEF HasHand
<1>6. runs[r].expires # NoTime
  BY <1>5, NullsAreNotIds
<1>7. \A v \in Workers : runs[r].expires > observed[v] /\ ~(runs[r].expires <= observed[v])
  BY <1>2, <1>4, <1>5
<1> QED BY <1>1, <1>6, <1>7 DEF Stale, LiveLeaseOfOther, HasHand

\* What a worker claims was queued.
LEMMA ClaimsQueued ==
  ASSUME IInv, RetryInv, Quiet, NEW v \in Workers, Claim(v)
  PROVE  cur[v] \in Runs /\ runs[cur[v]].status = "queued" /\ ~Holding(v)
<1>1. cur[v] \in Runs /\ ~Holding(v)
  BY DEF Claim, Holding, IInv, TypeInv, TypeOK, HandTypeOK
<1>2. ~IsActive(cur[v])
  BY <1>1, LeasesLive DEF Claim, ClaimRun, CanClaim
<1> QED BY <1>1, <1>2 DEF Claim, ClaimRun, CanClaim, Claimable, IsActive, Active

\* What one step may do to one row.
Created(r) ==
  /\ ~Exists(r)
  /\ runs'[r].status = "queued" /\ runs'[r].attempt = 0 /\ runs'[r].max_attempts > 0
Finalized(r) ==
  /\ Exists(r)
  /\ runs'[r].status \in Terminal
  /\ runs'[r].attempt = runs[r].attempt /\ runs'[r].max_attempts = runs[r].max_attempts
Requeued(v, r) ==
  /\ Finish(v, "failed") /\ cur[v] = r /\ CanRetry(v)
  /\ runs'[r].status = "queued"
  /\ runs'[r].attempt = runs[r].attempt /\ runs'[r].max_attempts = runs[r].max_attempts

LEMMA RowChange ==
  ASSUME IInv, RetryInv, Quiet, [Next]_vars, NEW r \in Runs
  PROVE  \/ runs'[r] = runs[r] \/ Created(r) \/ Finalized(r)
         \/ \E v \in Workers : cur[v] = r /\ (Claim(v) \/ Mark(v))
         \/ \E v \in Workers : Requeued(v, r)
<1>t. DbTypeOK /\ ControlTypeOK /\ HandTypeOK /\ RowsExist
  BY DEF IInv, TypeInv, TypeOK
<1>c. ASSUME NEW q \in Runs, NEW s, NEW k, NEW at, NEW m \in Nat, m > 0, CreateRun(q, s, k, at, m)
      PROVE  runs'[r] = runs[r] \/ Created(r)
  BY <1>t, <1>c DEF CreateRun, Created, DbTypeOK
<1>f. ASSUME NEW q \in Runs, NEW st \in Terminal, FinalizeRun(q, st)
      PROVE  runs'[r] = runs[r] \/ Finalized(r)
  BY <1>t, <1>f DEF FinalizeRun, Finalized, DbTypeOK, RunRow
<1>m. RetryLimit + 1 \in Nat /\ RetryLimit + 1 > 0
  BY WorkerConstants
<1>1. ASSUME NEW v \in Workers, Reclaim(v) PROVE runs'[r] = runs[r]
  <2>1. ~Stale(r, observed[v])
    BY LeasesLive DEF Stale
  <2> QED BY <1>1, <1>t, <2>1, ReclaimStay DEF Reclaim, ControlTypeOK
<1>2. ASSUME NEW v \in Workers, NEW q \in Runs, CreateDue(v, q)
      PROVE  runs'[r] = runs[r] \/ Created(r)
  BY <1>2, <1>c, <1>m DEF CreateDue
<1>3. ASSUME NEW v \in Workers, Claim(v) PROVE runs'[r] = runs[r] \/ cur[v] = r
  BY <1>3, <1>t, ClaimRunStay, LeaseSecondsNat DEF Claim, ControlTypeOK, HandTypeOK
<1>4. ASSUME NEW v \in Workers, Mark(v) PROVE runs'[r] = runs[r] \/ cur[v] = r
  BY <1>4, <1>t, MarkRunRunningStay DEF Mark, HandTypeOK, Holding
<1>5. ASSUME NEW v \in Workers, NEW o \in {"success", "failed"}, Finish(v, o)
      PROVE  runs'[r] = runs[r] \/ Finalized(r) \/ Requeued(v, r)
  <2>1. cur[v] \in Runs /\ pc[v] = "execute" /\ o \in Terminal
    BY <1>5, <1>t DEF Finish, HandTypeOK, Holding, Terminal
  <2>2. CASE FinalizeRun(cur[v], o)
    BY <2>1, <2>2, <1>f
  <2>3. CASE o = "failed" /\ CanRetry(v) /\ RequeueRun(cur[v], now)
    BY <1>5, <1>t, <2>1, <2>3 DEF RequeueRun, Requeued, DbTypeOK, RunRow
  <2> QED BY <1>5, <2>2, <2>3 DEF Finish
<1>6. ASSUME NEW q \in Runs, NEW s \in Schedules \cup {NoSchedule}, WebQueueRun(q, s)
      PROVE  runs'[r] = runs[r] \/ Created(r)
  <2>1. \E m \in Nat : m > 0 /\ CreateRun(q, s, "manual", now, m)
    BY <1>6, <1>m DEF WebQueueRun
  <2> QED BY <2>1, <1>c
<1>7. ASSUME NEW c \in Callers, NEW q \in Runs, NEW k, NEW at, CallerCreate(c, q, k, at)
      PROVE  runs'[r] = runs[r] \/ Created(r)
  BY <1>7, <1>c DEF CallerCreate
<1>8. ASSUME NEW c \in Callers, NEW st \in Terminal, CallerFinalize(c, st)
      PROVE  runs'[r] = runs[r] \/ Finalized(r)
  BY <1>8, <1>t, <1>f DEF CallerFinalize, ControlTypeOK
<1> QED BY <1>1, <1>2, <1>3, <1>4, <1>5, <1>6, <1>7, <1>8, RunsSteps

\* Only the worker that claimed a run last queues it again.
LEMMA RequeuedOwn ==
  ASSUME IInv, Quiet, NEW v \in Workers, NEW r \in Runs, Requeued(v, r)
  PROVE  /\ Holding(v) /\ IsActive(r)
         /\ \A w \in Workers : Holding(w) /\ cur[w] = r => w = v
<1>1. Holding(v) /\ ScheduleOf(v) # NoSchedule /\ cur[v] = r
  BY DEF Requeued, Finish, Holding, CanRetry, ScheduleOf
<1>2. IsActive(r) /\ runs[r].owner = v
  BY <1>1, Holder DEF Quiet
<1>3. ASSUME NEW w \in Workers, Holding(w), cur[w] = r PROVE w = v
  BY <1>1, <1>2, <1>3, Holder DEF Quiet, ScheduleOf
<1> QED BY <1>1, <1>2, <1>3

LEMMA AttemptsStep ==
  ASSUME IInv, RetryInv, Quiet, [Next]_vars, NEW r \in Runs
  PROVE  Attempts(r)'
<1>t. DbTypeOK /\ RowsExist /\ Attempts(r) /\ HandTypeOK
  BY DEF IInv, TypeInv, TypeOK, RetryInv
<1>n. runs[r].attempt \in Nat /\ runs[r].max_attempts \in Nat
  BY <1>t DEF DbTypeOK, RunRow
<1>1. CASE runs'[r] = runs[r]
  BY <1>1, <1>t DEF Attempts, Exists
<1>2. CASE Created(r)
  <2>1. DbTypeOK'
    BY TypeInvStep DEF IInv, TypeInv, TypeOK
  <2>2. runs'[r].max_attempts \in Nat
    BY <2>1 DEF DbTypeOK, RunRow
  <2> QED BY <1>2, <2>2 DEF Attempts, Created
<1>3. CASE Finalized(r)
  BY <1>3, <1>t DEF Attempts, Finalized, Terminal
<1>4. ASSUME NEW v \in Workers, cur[v] = r, Claim(v) PROVE Attempts(r)'
  <2>1. Exists(r) /\ runs[r].attempt < runs[r].max_attempts
    BY <1>4, <1>t, ClaimsQueued DEF Attempts, Exists
  <2>2. /\ runs'[r].status = "claimed" /\ runs'[r].attempt = Count(runs[r].attempt)
        /\ runs'[r].max_attempts = runs[r].max_attempts
    BY <1>4, <1>t DEF Claim, ClaimRun, DbTypeOK, RunRow
  <2>3. Count(runs[r].attempt) <= runs[r].max_attempts
    BY <1>n, <2>1 DEF Count
  <2> QED BY <2>2, <2>3 DEF Attempts
<1>5. ASSUME NEW v \in Workers, cur[v] = r, Mark(v) PROVE Attempts(r)'
  <2>1. Exists(r)
    BY <1>5 DEF Mark, MarkRunRunning, CanMark, Exists
  <2>2. /\ runs'[r].status = "running" /\ runs'[r].attempt = runs[r].attempt
        /\ runs'[r].max_attempts = runs[r].max_attempts
    BY <1>5, <1>t DEF Mark, MarkRunRunning, DbTypeOK, RunRow
  <2> QED BY <1>t, <2>1, <2>2 DEF Attempts
<1>6. ASSUME NEW v \in Workers, Requeued(v, r) PROVE Attempts(r)'
  <2>1. tries[v] = runs[r].attempt /\ tries[v] < runs[r].max_attempts
    BY <1>6, RequeuedOwn DEF Requeued, CanRetry, RetryInv, Tried
  <2> QED BY <1>6, <1>n, <2>1 DEF Requeued, Attempts
<1> QED BY <1>1, <1>2, <1>3, <1>4, <1>5, <1>6, RowChange

\* A worker lets go of a run only when it writes the outcome, or when it finds
\* that the row is not its own any more.
LEMMA KeepsHolding ==
  ASSUME IInv, [Next]_vars, faults' = faults, NEW w \in Workers, Holding(w)
  PROVE  \/ /\ pc'[w] = pc[w] /\ cur'[w] = cur[w]
            /\ observed'[w] = observed[w] /\ tries'[w] = tries[w]
         \/ Mark(w) \/ MarkConflict(w) \/ \E o \in {"success", "failed"} : Finish(w, o)
<1>t. TypeOK /\ ControlTypeOK /\ HandTypeOK
  BY DEF IInv, TypeInv, TypeOK
<1>1. CASE StepOf(w)
  BY <1>1, <1>t
     DEF Holding, ControlTypeOK, HandTypeOK, StepOf, WorkerStep, Spawn, Crash, StopRequested,
         Exit, Begin, Reclaim, ListDue, NotDue, Advance, CreateDue, CreateFails,
         ListClaimable, Take, EndTick, Claim, ClaimRefused
<1>2. ASSUME NEW v \in Workers, v # w, StepOf(v)
      PROVE  pc'[w] = pc[w] /\ cur'[w] = cur[w] /\ observed'[w] = observed[w]
             /\ tries'[w] = tries[w]
  <2>1. tries'[w] = tries[w]
    BY <1>2, <1>t
       DEF ControlTypeOK, StepOf, WorkerStep, Spawn, Crash, GoDown, StopRequested,
           Exit, Begin, Reclaim, ListDue, NotDue, Advance, CreateDue, CreateFails,
           ListClaimable, Take, EndTick, Claim, ClaimRefused, Mark, MarkConflict, Finish
  <2> QED BY <1>2, <1>t, <2>1, WorkerFrame
<1>3. ASSUME UNCHANGED localVars
      PROVE  pc'[w] = pc[w] /\ cur'[w] = cur[w] /\ observed'[w] = observed[w]
             /\ tries'[w] = tries[w]
  BY <1>3 DEF localVars
<1> QED BY <1>1, <1>2, <1>3, NextCases, OtherFrame DEF vars

LEMMA InHandStep ==
  ASSUME IInv, RetryInv, Quiet, [Next]_vars, faults' = faults, NEW r \in Runs
  PROVE  InHand(r)'
<1> SUFFICES ASSUME IsActive(r)' PROVE \E w \in Workers : HasHand(w, r)'
  BY DEF InHand
<1>t. TypeOK /\ DbTypeOK /\ ControlTypeOK /\ HandTypeOK /\ RowsExist /\ RowsStay
  BY RowsStep DEF IInv, TypeInv, TypeOK
<1>a. runs'[r].status \in Active
  BY DEF IsActive
<1>l. ASSUME NEW w \in Workers, Exists(r), cur[w] = r, cur'[w] = r, observed'[w] = observed[w]
      PROVE  LeaseOf(w)' = LeaseOf(w)
  BY <1>l, <1>t DEF LeaseOf, LeaseSeconds, RowsStay
<1>1. CASE runs'[r] = runs[r]
  <2>1. PICK w \in Workers : HasHand(w, r)
    BY <1>1, <1>a DEF RetryInv, InHand, IsActive
  <2>2. ~Mark(w)
    BY <1>1, <1>t, <2>1, MarkRunRunningStay DEF Mark, HasHand
  <2>3. ~MarkConflict(w)
    BY <2>1 DEF MarkConflict, CanMark, HasHand
  <2>4. ASSUME NEW o \in {"success", "failed"}, Finish(w, o) PROVE FALSE
    <3>1. RequeueRun(r, now) \/ FinalizeRun(r, o)
      BY <2>1, <2>4 DEF Finish, HasHand
    <3>2. runs'[r].status \in {"queued", "success", "failed"}
      BY <1>t, <3>1 DEF RequeueRun, FinalizeRun, DbTypeOK, RunRow
    <3> QED BY <1>a, <3>2 DEF Active
  <2>5. /\ Holding(w) /\ pc'[w] = pc[w] /\ cur'[w] = cur[w]
        /\ observed'[w] = observed[w]
    BY <2>1, <2>2, <2>3, <2>4, KeepsHolding DEF HasHand
  <2>6. LeaseOf(w)' = LeaseOf(w)
    <3>1. Exists(r)
      BY <1>1, <1>a DEF Exists, Active
    <3> QED BY <1>l, <2>1, <2>5, <3>1 DEF HasHand
  <2>7. HasHand(w, r)'
    BY <1>1, <2>1, <2>5, <2>6 DEF HasHand, Holding
  <2> QED BY <2>7
<1>2. CASE Created(r) \/ Finalized(r)
  BY <1>2, <1>a DEF Created, Finalized, Active, Terminal
<1>3. ASSUME NEW v \in Workers, cur[v] = r, Claim(v) PROVE HasHand(v, r)'
  <2>1. /\ cur'[v] = r /\ observed'[v] = observed[v] /\ pc'[v] = "mark"
        /\ Exists(r) /\ observed[v] \in Nat
    BY <1>3, <1>t DEF Claim, ControlTypeOK, RowsExist
  <2>2. /\ runs'[r].status = "claimed" /\ runs'[r].owner = v
        /\ runs'[r].expires = LeaseEnd(observed[v], LeaseSeconds(r))
    BY <1>3, <1>t, <2>1, ClaimRunStay, LeaseSecondsNat DEF Claim
  <2>3. LeaseOf(v)' = LeaseEnd(observed[v], LeaseSeconds(r))
    BY <1>l, <1>3, <2>1 DEF LeaseOf
  <2> QED BY <2>1, <2>2, <2>3 DEF HasHand, Holding
<1>4. ASSUME NEW v \in Workers, cur[v] = r, Mark(v) PROVE HasHand(v, r)'
  <2>1. /\ pc[v] = "mark" /\ pc'[v] = "execute" /\ cur'[v] = r /\ observed'[v] = observed[v]
        /\ runs[r].status = "claimed" /\ runs[r].owner = v
    BY <1>4, <1>t DEF Mark, MarkRunRunning, CanMark, ControlTypeOK
  <2>2. /\ runs'[r].status = "running" /\ runs'[r].owner = v
        /\ runs'[r].expires = runs[r].expires
    BY <1>4, <1>t, <2>1, MarkRunRunningStay DEF Mark
  <2>3. HasHand(v, r)
    BY <2>1 DEF RetryInv, InHand, IsActive, Active, HasHand
  <2>4. LeaseOf(v)' = LeaseOf(v)
    BY <1>l, <1>4, <2>1 DEF Exists
  <2> QED BY <2>1, <2>2, <2>3, <2>4 DEF HasHand, Holding
<1>5. ASSUME NEW v \in Workers, Requeued(v, r) PROVE FALSE
  BY <1>5, <1>a DEF Requeued, Active
<1> QED BY <1>1, <1>2, <1>3, <1>4, <1>5, RowChange

LEMMA TriedStep ==
  ASSUME IInv, RetryInv, Quiet, [Next]_vars, faults' = faults, NEW w \in Workers
  PROVE  Tried(w)'
<1> SUFFICES ASSUME Holding(w)'
             PROVE  tries'[w] = runs'[cur'[w]].attempt /\ runs'[cur'[w]].status # "queued"
  BY DEF Tried
<1>t. TypeOK /\ DbTypeOK /\ ControlTypeOK /\ HandTypeOK /\ RowsExist /\ TypeInv
  BY DEF IInv, TypeInv, TypeOK
<1>1. CASE Claim(w)
  BY <1>1, <1>t, ClaimRunStay, LeaseSecondsNat DEF Claim, ControlTypeOK, HandTypeOK
<1>2. CASE Mark(w)
  <2>1. cur[w] \in Runs /\ Holding(w)
    BY <1>2, <1>t DEF Mark, HandTypeOK, Holding
  <2>2. runs'[cur[w]].status = "running" /\ runs'[cur[w]].attempt = runs[cur[w]].attempt
    BY <1>2, <1>t, <2>1 DEF Mark, MarkRunRunning, DbTypeOK, RunRow
  <2> QED BY <1>2, <2>1, <2>2 DEF Mark, RetryInv, Tried
<1>3. CASE /\ Holding(w) /\ pc'[w] = pc[w] /\ cur'[w] = cur[w]
           /\ observed'[w] = observed[w]
           /\ ~Mark(w) /\ \A o \in {"success", "failed"} : ~Finish(w, o)
  <2> DEFINE r == cur[w]
  <2>1. r \in Runs /\ Exists(r) /\ tries[w] = runs[r].attempt /\ runs[r].status # "queued"
    BY <1>3, <1>t DEF RetryInv, Tried, HandTypeOK, RowsExist
  <2>2. ~MarkConflict(w)
    BY <1>3, <1>t DEF MarkConflict, GoDown, ControlTypeOK
  <2>3. tries'[w] = tries[w]
    BY <1>3, <2>2, KeepsHolding
  <2> HIDE DEF r
  <2>5. ~Created(r)
    BY <2>1 DEF Created
  <2>7. ASSUME NEW v \in Workers, cur[v] = r, Claim(v) PROVE FALSE
    BY <2>1, <2>7, ClaimsQueued
  <2>8. ASSUME NEW v \in Workers, cur[v] = r, Mark(v)
        PROVE  runs'[r].attempt = runs[r].attempt /\ runs'[r].status = "running"
    BY <1>t, <2>1, <2>8 DEF Mark, MarkRunRunning, DbTypeOK, RunRow
  <2>9. ASSUME NEW v \in Workers, Requeued(v, r) PROVE FALSE
    <3>1. w = v
      BY <1>3, <2>1, <2>9, RequeuedOwn DEF r
    <3> QED BY <1>3, <2>9, <3>1 DEF Requeued
  <2>10. runs'[r].attempt = runs[r].attempt /\ runs'[r].status # "queued"
    BY <2>1, <2>5, <2>7, <2>8, <2>9, RowChange DEF Finalized, Terminal
  <2> QED BY <1>3, <2>1, <2>3, <2>10 DEF r
<1> QED BY <1>t, <1>1, <1>2, <1>3, HolderSource

LEMMA RetryStep == IInv /\ RetryInv /\ [Next]_vars => RetryInv'
<1> SUFFICES ASSUME IInv, RetryInv, [Next]_vars, Quiet'
             PROVE  /\ \A r \in Runs : Attempts(r)' /\ InHand(r)'
                    /\ \A w \in Workers : Tried(w)'
  BY DEF RetryInv
<1>1. Quiet /\ faults' = faults
  BY QuietBefore
<1> QED BY <1>1, AttemptsStep, InHandStep, TriedStep

\* A run is tried at most retry_limit + 1 times, however many workers, clients
\* and edits there are, until a lease lapses or a process fails.
THEOREM SchedulerRetriesBounded == Spec => []RetriesBounded
<1>1. Init => IInv /\ RetryInv
  BY InitIInv, InitRetryInv
<1>2. IInv /\ RetryInv /\ [Next]_vars => (IInv /\ RetryInv)'
  BY TypeInvStep, ClockStep, RowsExistStep, LapseStep, OwnershipStep, RetryStep
     DEF IInv, TypeInv
<1>3. RetryInv => RetriesBounded
  BY DEF RetryInv, RetriesBounded, Quiet, Attempts
<1> QED BY <1>1, <1>2, <1>3, PTL DEF Spec

-----------------------------------------------------------------------------
(***************************************************************************)
(* Part 3: due times.  A worker reads a schedule, moves its next_run_at on *)
(* and inserts the run in three separate transactions; what it has read    *)
(* and not inserted yet is in its list `due'.                              *)
(***************************************************************************)

\* The worker has moved s on and not inserted the run yet.
Creating(w, s) == pc[w] = "create" /\ cur[w] = s

\* What a step does to the schedules, to the list of a worker and to its place.
LEMMA ScheduleSteps ==
  ASSUME [Next]_vars
  PROVE  \/ UNCHANGED schedules
         \/ \E s \in Schedules, e \in BOOLEAN, i \in Intervals : WebCreateSchedule(s, e, i)
         \/ \E e \in BOOLEAN, i \in Intervals : EditWrite(e, i)
         \/ \E w \in Workers : \E d \in due[w] : Advance(w, d)
<1>1. ASSUME NEW w \in Workers, StepOf(w)
      PROVE  UNCHANGED schedules \/ \E d \in due[w] : Advance(w, d)
  BY <1>1 DEF StepOf, WorkerStep, Spawn, Crash, StopRequested, Exit, Begin, Reclaim,
     ReclaimStaleLeases, ListDue, NotDue, CreateDue, CreateRun, CreateFails, ListClaimable, Take,
     EndTick, Claim, ClaimRun, ClaimRefused, Mark, MarkRunRunning, MarkConflict, Finish,
     RequeueRun, FinalizeRun, dbVars
<1>2. CASE ClientStep
  BY <1>2 DEF ClientStep, EditRead, WebQueueRun, CallerCreate, CallerFinalize, CallerDies,
     CreateRun, FinalizeRun, dbVars
<1>3. CASE ClockTick \/ UNCHANGED vars
  BY <1>3 DEF ClockTick, vars, dbVars
<1> QED BY <1>1, <1>2, <1>3, NextCases

LEMMA SlotSteps ==
  ASSUME [Next]_vars
  PROVE  UNCHANGED slotOf \/ \E w \in Workers, r \in Runs : CreateDue(w, r)
BY LookSteps

\* The place and the list of a worker v.
StaysPut(v) == pc'[v] = pc[v] /\ cur'[v] = cur[v] /\ due'[v] = due[v]

LEMMA PlaceSteps ==
  ASSUME TypeOK, [Next]_vars, NEW v \in Workers
  PROVE  \/ StaysPut(v)
         \/ StepOf(v)
<1>1. ASSUME NEW w \in Workers \ {v}, StepOf(w) PROVE StaysPut(v)
  BY <1>1 DEF TypeOK, ControlTypeOK, WorkListTypeOK, HandTypeOK, StaysPut, StepOf, WorkerStep,
     Spawn, Crash, GoDown, StopRequested, Exit, Begin, Reclaim, ListDue, NotDue, Advance,
     CreateDue, CreateFails, ListClaimable, Take, EndTick, Claim, ClaimRefused, Mark,
     MarkConflict, Finish
<1>2. CASE ClientStep \/ ClockTick
  BY <1>2, OtherFrame DEF StaysPut, localVars
<1>3. CASE UNCHANGED vars
  BY <1>3 DEF vars, localVars, StaysPut
<1> QED BY <1>1, <1>2, <1>3, NextCases

\* A step of v: the list is read, a record of it is taken, or v leaves the list alone.
LEMMA ListSteps ==
  ASSUME TypeOK, NEW v \in Workers, StepOf(v)
  PROVE  \/ ListDue(v)
         \/ \E d \in due[v] : Advance(v, d)
         \/ \E r \in Runs : CreateDue(v, r)
         \/ CreateFails(v)
         \/ pc'[v] # "create" /\ due'[v] = {}
         \/ \E d \in due[v] : NotDue(v, d)
         \/ StaysPut(v)
         \/ pc[v] \notin {"queue", "create"} /\ pc'[v] # "create" /\ due'[v] = due[v]
BY DEF TypeOK, ControlTypeOK, WorkListTypeOK, HandTypeOK, StaysPut, StepOf, WorkerStep,
   Spawn, Crash, GoDown, StopRequested, Exit, Begin, Reclaim, ListClaimable, Take, EndTick,
   Claim, ClaimRefused, Mark, MarkConflict, Finish

\* Each schedule is in a list once, and only while the list is worked off.
ListFits(w) ==
  /\ due[w] # {} => pc[w] \in {"queue", "create"}
  /\ \A d, e \in due[w] : d.id = e.id => d = e
Lists == \A w \in Workers : ListFits(w)

LEMMA AdvanceList ==
  ASSUME TypeOK, Lists, NEW w \in Workers, NEW d \in due[w], Advance(w, d)
  PROVE  /\ pc[w] = "queue" /\ d \in DueRecord /\ observed[w] \in Nat
         /\ \A e \in due[w] \ {d} : e.id # d.id
         /\ \/ /\ Policy = "catch_up_once" /\ pc'[w] = "create" /\ cur'[w] = d.id
               /\ \E e \in DueRecord : /\ due'[w] = (due[w] \ {d}) \cup {e}
                                       /\ e.id = d.id /\ e.interval = d.interval
                                       /\ e.next = LastDue(d, observed[w])
            \/ /\ Policy # "catch_up_once" /\ pc'[w] = "queue" /\ cur'[w] = cur[w]
               /\ due'[w] = due[w] \ {d}
<1>1. d \in DueRecord /\ observed[w] \in Nat /\ d.next <= observed[w]
  BY DEF TypeOK, ControlTypeOK, WorkListTypeOK, Advance
<1>2. LastDue(d, observed[w]) \in Nat
  BY <1>1, DueDecision
<1>3. \A e \in due[w] \ {d} : e.id # d.id
  BY DEF Lists, ListFits
<1>4. CASE Policy = "catch_up_once"
  <2> DEFINE e == [d EXCEPT !.next = LastDue(d, observed[w])]
  <2>1. /\ pc'[w] = "create" /\ cur'[w] = d.id /\ pc[w] = "queue"
        /\ due'[w] = (due[w] \ {d}) \cup {e}
    BY <1>4 DEF Advance, TypeOK, ControlTypeOK, WorkListTypeOK, HandTypeOK
  <2>2. e \in DueRecord /\ e.id = d.id /\ e.interval = d.interval /\ e.next = LastDue(d, observed[w])
    BY <1>1, <1>2 DEF DueRecord
  <2> HIDE DEF e
  <2> QED BY <1>1, <1>3, <1>4, <2>1, <2>2
<1>5. CASE Policy # "catch_up_once"
  BY <1>1, <1>3, <1>5 DEF Advance, TypeOK, ControlTypeOK, WorkListTypeOK, HandTypeOK
<1> QED BY <1>4, <1>5

LEMMA ListsStep == TypeOK /\ Lists /\ [Next]_vars => Lists'
<1> SUFFICES ASSUME TypeOK, Lists, [Next]_vars, NEW v \in Workers PROVE ListFits(v)'
  BY DEF Lists
<1>0. ListFits(v)
  BY DEF Lists
<1>1. CASE StaysPut(v)
  BY <1>0, <1>1 DEF StaysPut, ListFits
<1>2. CASE ListDue(v)
  BY <1>2 DEF ListDue, ListFits, TypeOK, ControlTypeOK, WorkListTypeOK
<1>3. ASSUME NEW d \in due[v], Advance(v, d) PROVE ListFits(v)'
  BY <1>0, <1>3, AdvanceList DEF ListFits
<1>4. ASSUME NEW r \in Runs, CreateDue(v, r) PROVE ListFits(v)'
  BY <1>0, <1>4 DEF CreateDue, ListFits, TypeOK, ControlTypeOK, WorkListTypeOK
<1>5. CASE CreateFails(v)
  BY <1>0, <1>5 DEF CreateFails, ListFits, TypeOK, ControlTypeOK, WorkListTypeOK
<1>6. CASE due'[v] = {}
  BY <1>6 DEF ListFits
<1>7. ASSUME NEW d \in due[v], NotDue(v, d) PROVE ListFits(v)'
  BY <1>0, <1>7 DEF NotDue, ListFits, TypeOK, ControlTypeOK, WorkListTypeOK
<1>8. CASE pc[v] \notin {"queue", "create"} /\ due'[v] = due[v]
  BY <1>0, <1>8 DEF ListFits
<1> QED BY <1>1, <1>2, <1>3, <1>4, <1>5, <1>6, <1>7, <1>8, PlaceSteps, ListSteps

\* Who is about to insert a run goes on to, unless it does so now, fails or dies.
LEMMA CreatingSteps ==
  ASSUME TypeOK, [Next]_vars, NEW v \in Workers, pc[v] = "create"
  PROVE  \/ StaysPut(v)
         \/ \E r \in Runs : CreateDue(v, r)
         \/ CreateFails(v)
         \/ Crash(v)
<1>1. ASSUME StepOf(v)
      PROVE  \/ StaysPut(v) \/ (\E r \in Runs : CreateDue(v, r)) \/ CreateFails(v) \/ Crash(v)
  BY <1>1 DEF StepOf, WorkerStep, Spawn, StopRequested, Exit, Begin, Reclaim, ListDue, NotDue,
     Advance, ListClaimable, Take, EndTick, Claim, ClaimRefused, Mark, MarkConflict, Finish,
     StaysPut
<1> QED BY <1>1, PlaceSteps

LEMMA InitLists == Init => Lists
BY DEF Init, Lists, ListFits

-----------------------------------------------------------------------------
(* No due time has more runs than the schedule has versions.  A version    *)
(* pays for at most one run of a due time: one that is there, one that the *)
(* worker is about to insert, or one that next_run_at still lets it        *)
(* insert; an edit may bring an old next_run_at back, and pays for it.     *)

OneWorker == \A v, w \in Workers : pc[v] # "down" /\ pc[w] # "down" => v = w

Unmade == \A r \in Runs : ~Exists(r) => slotOf[r] = NoTime

RunsFor(s, t) == {r \in Runs : runs[r].schedule = s /\ slotOf[r] = t}

Pending(s, t) ==
  \E w \in Workers : Creating(w, s) /\ \E d \in due[w] : d.id = s /\ d.next = t

Coming(s, t) ==
  /\ schedules[s].version # 0
  /\ \/ schedules[s].next = NoTime \/ schedules[s].next <= t
     \/ \E w \in Workers : ~Creating(w, s) /\ \E d \in due[w] : d.id = s /\ d.next <= t

SlotFits(s, t) ==
  /\ IsFiniteSet(RunsFor(s, t))
  /\ Cardinality(RunsFor(s, t)) <= schedules[s].version
  /\ Pending(s, t) \/ Coming(s, t) => Cardinality(RunsFor(s, t)) + 1 <= schedules[s].version
  /\ Pending(s, t) /\ Coming(s, t) => Cardinality(RunsFor(s, t)) + 2 <= schedules[s].version

SlotsFit == \A s \in Schedules, t \in Nat : SlotFits(s, t)

SlotInv == Lists /\ OneWorker /\ Unmade /\ SlotsFit

LEMMA OneWorkerStep ==
  ASSUME MaxAlive = 1 PROVE TypeOK /\ OneWorker /\ [Next]_vars => OneWorker'
<1> SUFFICES ASSUME TypeOK, OneWorker, [Next]_vars PROVE OneWorker'
  OBVIOUS
<1>1. ASSUME NEW w \in Workers, StepOf(w)
      PROVE  (pc'[w] # "down" => pc[w] # "down") \/ Alive = {}
  <2>1. CASE Spawn(w)
    <3>1. \A v \in Alive : Alive = {v}
      BY DEF OneWorker, Alive
    <3>2. IsFiniteSet(Alive)
      BY <3>1, FS_EmptySet, FS_Singleton
    <3>3. Cardinality(Alive) \in Nat /\ Cardinality(Alive) < 1
      BY <2>1, <3>2, FS_CardinalityType DEF Spawn
    <3> QED BY <3>2, <3>3, FS_EmptySet
  <2>2. CASE Crash(w) \/ \E why \in {"signal", "parent"} : StopRequested(w, why)
    BY <2>2 DEF Crash, StopRequested
  <2>3. CASE WorkerStep(w)
    BY <2>3 DEF WorkerStep, Exit, Begin, Reclaim, ListDue, NotDue, Advance, CreateDue,
       CreateFails, ListClaimable, Take, EndTick, Claim, ClaimRefused, Mark, MarkConflict, Finish
  <2> QED BY <1>1, <2>1, <2>2, <2>3 DEF StepOf
<1>2. ASSUME NEW w \in Workers, StepOf(w) PROVE OneWorker'
  <2>1. \A v \in Workers \ {w} : pc'[v] = pc[v]
    BY <1>2, WorkerFrame
  <2> QED BY <1>1, <1>2, <2>1 DEF OneWorker, Alive
<1>3. CASE ClientStep \/ ClockTick
  BY <1>3, OtherFrame DEF OneWorker, localVars
<1>4. CASE UNCHANGED vars
  BY <1>4 DEF vars, localVars, OneWorker
<1> QED BY <1>2, <1>3, <1>4, NextCases

LEMMA UnmadeStep == TypeInv /\ Unmade /\ [Next]_vars => Unmade'
<1> SUFFICES ASSUME TypeInv, Unmade, [Next]_vars, NEW r \in Runs, ~Exists(r)' PROVE slotOf'[r] = NoTime
  BY DEF Unmade
<1>1. ~Exists(r)
  BY RowsStep DEF RowsStay
<1>2. ASSUME NEW w \in Workers, NEW q \in Runs, CreateDue(w, q) PROVE slotOf'[r] = slotOf[r]
  <2>1. Exists(q)'
    BY <1>2, CreateRunStay DEF CreateDue, TypeInv, TypeOK
  <2> QED BY <1>2, <2>1 DEF CreateDue, TypeInv, TypeOK, ControlTypeOK
<1> QED BY <1>1, <1>2, SlotSteps DEF Unmade

\* The runs of a due time change only when the worker inserts one for it.
LEMMA SameRuns ==
  ASSUME TypeInv, Unmade, [Next]_vars, NEW s \in Schedules, NEW t \in Nat,
         \A r \in Runs : slotOf'[r] = t <=> slotOf[r] = t
  PROVE  RunsFor(s, t)' = RunsFor(s, t)
<1>1. \A r \in Runs : slotOf[r] = t => Exists(r)
  BY NullsAreNotIds DEF Unmade
<1> QED BY <1>1, RowsStep DEF RunsFor, RowsStay

\* The list of v gets shorter at most, and v begins no insertion.
Lighter(v) ==
  /\ due'[v] \subseteq due[v]
  /\ \A e \in due'[v] : Creating(v, e.id)' <=> Creating(v, e.id)

LEMMA LighterSteps ==
  ASSUME TypeOK, Lists, [Next]_vars, NEW v \in Workers
  PROVE  Lighter(v) \/ ListDue(v) \/ \E d \in due[v] : Advance(v, d)
<1>1. CASE StaysPut(v)
  BY <1>1 DEF StaysPut, Lighter, Creating
<1>2. ASSUME NEW r \in Runs, CreateDue(v, r) PROVE Lighter(v)
  <2>1. PICK d \in due[v] : d.id = cur[v] /\ due'[v] = due[v] \ {d} /\ pc'[v] = "queue"
    BY <1>2 DEF CreateDue, TypeOK, ControlTypeOK, WorkListTypeOK
  <2>2. \A e \in due'[v] : e.id # cur[v]
    BY <2>1 DEF Lists, ListFits
  <2> QED BY <2>1, <2>2 DEF Lighter, Creating
<1>3. CASE CreateFails(v)
  BY <1>3 DEF CreateFails, Lighter, Creating, TypeOK, ControlTypeOK, WorkListTypeOK
<1>4. CASE due'[v] = {}
  BY <1>4 DEF Lighter
<1>5. ASSUME NEW d \in due[v], NotDue(v, d) PROVE Lighter(v)
  BY <1>5 DEF NotDue, Lighter, Creating, TypeOK, ControlTypeOK, WorkListTypeOK
<1>6. CASE pc[v] \notin {"queue", "create"} /\ pc'[v] # "create" /\ due'[v] = due[v]
  BY <1>6 DEF Lighter, Creating
<1> QED BY <1>1, <1>2, <1>3, <1>4, <1>5, <1>6, PlaceSteps, ListSteps

\* Nothing more is coming for t: the room there was is left.
LEMMA RoomLeft ==
  ASSUME TypeOK, NEW s \in Schedules, NEW t \in Nat, SlotFits(s, t),
         RunsFor(s, t)' = RunsFor(s, t),
         schedules'[s].version = schedules[s].version,
         Pending(s, t)' => Pending(s, t) \/ (Coming(s, t) /\ ~Coming(s, t)'),
         Coming(s, t)' => Coming(s, t)
  PROVE  SlotFits(s, t)'
BY DEF SlotFits

\* An edit pays for what the next_run_at that it writes back brings.
LEMMA EditedSlot ==
  ASSUME TypeInv, Unmade, [Next]_vars, NEW s \in Schedules, NEW t \in Nat, SlotFits(s, t),
         UNCHANGED <<localVars, slotOf>>,
         schedules'[s] = schedules[s] \/ schedules'[s].version = schedules[s].version + 1
  PROVE  SlotFits(s, t)'
<1>1. RunsFor(s, t)' = RunsFor(s, t)
  BY SameRuns
<1>2. Pending(s, t)' <=> Pending(s, t)
  BY DEF Pending, Creating, localVars
<1>3. CASE schedules'[s] = schedules[s]
  <2>1. Coming(s, t)' <=> Coming(s, t)
    BY <1>3 DEF Coming, Creating, localVars
  <2> QED BY <1>1, <1>2, <1>3, <2>1 DEF SlotFits
<1>4. CASE schedules'[s].version = schedules[s].version + 1
  <2>1. schedules[s].version \in Nat
    BY DEF TypeInv, TypeOK, DbTypeOK, ScheduleRow
  <2>2. Cardinality(RunsFor(s, t)) \in Nat
    BY FS_CardinalityType DEF SlotFits
  <2> QED BY <1>1, <1>2, <1>4, <2>1, <2>2 DEF SlotFits
<1> QED BY <1>3, <1>4

\* s is moved on: it was due for all that it still is, and for the run that is
\* about to be inserted.
LEMMA AdvancedSlot ==
  ASSUME TypeInv, SlotInv, Lists', OneWorker', [Next]_vars, NEW s \in Schedules, NEW t \in Nat,
         NEW w \in Workers, NEW d \in due[w], Advance(w, d)
  PROVE  SlotFits(s, t)'
<1>t. TypeOK /\ Lists /\ Lists' /\ Unmade
  BY DEF TypeInv, SlotInv
<1>a. /\ pc[w] = "queue" /\ d \in DueRecord /\ d.id \in Schedules
      /\ d.interval \in Nat \ {0} /\ d.next \in Nat /\ observed[w] \in Nat
      /\ d.next <= observed[w] /\ UNCHANGED slotOf
  <2>1. pc[w] = "queue" /\ d \in DueRecord /\ observed[w] \in Nat
    BY <1>t, AdvanceList
  <2>2. d.next <= observed[w] /\ UNCHANGED slotOf
    BY DEF Advance
  <2> QED BY <2>1, <2>2 DEF DueRecord
<1>n. /\ LastDue(d, observed[w]) \in Nat /\ Following(d, observed[w]) \in Nat
      /\ d.next <= LastDue(d, observed[w])
      /\ LastDue(d, observed[w]) < Following(d, observed[w])
  BY <1>a, DueDecision DEF Following
<1>p. /\ schedules[d.id].version # 0
      /\ schedules' = [schedules EXCEPT ![d.id].next = Following(d, observed[w])]
  BY DEF Advance, SetNextRun
<1>1. RunsFor(s, t)' = RunsFor(s, t)
  BY <1>a, <1>t, SameRuns
<1>2. schedules'[s].version = schedules[s].version
  BY <1>p, <1>t DEF TypeOK, DbTypeOK, ScheduleRow
<1>3. pc'[w] # "down" /\ \A v \in Workers \ {w} : due[v] = {} /\ due'[v] = {} /\ pc'[v] = "down"
  <2>1. pc'[w] # "down"
    BY <1>t, AdvanceList
  <2>2. \A v \in Workers \ {w} : pc[v] = "down" /\ pc'[v] = "down"
    BY <1>a, <2>1 DEF OneWorker, SlotInv
  <2> QED BY <1>t, <2>1, <2>2 DEF Lists, ListFits
<1>4. CASE s # d.id
  <2>1. schedules'[s] = schedules[s]
    BY <1>4, <1>p, <1>t DEF TypeOK, DbTypeOK
  <2>2. ~Creating(w, s)' /\ ~Creating(w, s)
    BY <1>4, <1>a, <1>t, AdvanceList DEF Creating
  <2>3. \A e \in due'[w] : e.id = s => e \in due[w]
    BY <1>4, <1>t, AdvanceList
  <2>4. ~Pending(s, t)'
    BY <2>2, <1>3 DEF Pending
  <2>5. Coming(s, t)' => Coming(s, t)
    BY <2>1, <2>2, <2>3, <1>3 DEF Coming
  <2> QED BY <1>1, <1>2, <1>t, <2>4, <2>5, RoomLeft DEF SlotInv, SlotsFit
<1>5. CASE s = d.id
  <2>1. schedules'[s].next = Following(d, observed[w])
    BY <1>5, <1>p, <1>t, <1>a DEF TypeOK, DbTypeOK, ScheduleRow
  <2>2. d.next <= t => Coming(s, t)
    <3>1. ~Creating(w, s)
      BY <1>a DEF Creating
    <3> QED BY <1>5, <1>p, <3>1 DEF Coming
  <2>3. \A e \in due'[w] : e.id = s => Creating(w, s)' /\ e.next = LastDue(d, observed[w])
    BY <1>5, <1>t, AdvanceList DEF Creating
  <2>4. Pending(s, t)' => LastDue(d, observed[w]) = t
    BY <2>3, <1>3 DEF Pending
  <2>5. Coming(s, t)' => Following(d, observed[w]) <= t
    BY <2>1, <2>3, <1>3, <1>n, NullsAreNotIds DEF Coming
  <2>6. Coming(s, t)' => Coming(s, t)
    BY <2>2, <2>5, <1>n, <1>a
  <2>7. Pending(s, t)' => Coming(s, t) /\ ~Coming(s, t)'
    BY <2>2, <2>4, <2>5, <1>n, <1>a
  <2> QED BY <1>1, <1>2, <1>t, <2>6, <2>7, RoomLeft DEF SlotInv, SlotsFit
<1> QED BY <1>4, <1>5

\* The run that was to be inserted is there.
LEMMA CreatedSlot ==
  ASSUME TypeInv, SlotInv, OneWorker', [Next]_vars, NEW s \in Schedules, NEW t \in Nat,
         NEW w \in Workers, NEW r \in Runs, CreateDue(w, r),
         schedules' = schedules, Pending(s, t)' => Pending(s, t), Coming(s, t)' => Coming(s, t)
  PROVE  SlotFits(s, t)'
<1>t. TypeOK /\ Lists /\ Unmade /\ SlotFits(s, t) /\ DbTypeOK
  BY DEF TypeInv, TypeOK, SlotInv, SlotsFit
<1>1. PICK d \in due[w] : d.id = cur[w] /\ slotOf' = [slotOf EXCEPT ![r] = d.next]
  BY DEF CreateDue
<1>2. pc[w] = "create" /\ pc'[w] = "queue"
  BY <1>t DEF CreateDue, TypeOK, ControlTypeOK
<1>3. ~Exists(r) /\ Exists(r)' /\ runs'[r].schedule = cur[w]
  BY <1>t, CreateRunStay DEF CreateDue, CreateRun
<1>4. slotOf[r] = NoTime /\ slotOf'[r] = d.next /\ \A q \in Runs \ {r} : slotOf'[q] = slotOf[q]
  BY <1>t, <1>1, <1>3 DEF Unmade, TypeOK, ControlTypeOK
<1>5. \A q \in Runs \ {r} : slotOf[q] = t => runs'[q].schedule = runs[q].schedule
  BY <1>t, RowsStep, NullsAreNotIds DEF Unmade, RowsStay
<1>6. CASE s = cur[w] /\ t = d.next
  <2>1. RunsFor(s, t)' = RunsFor(s, t) \cup {r}
    BY <1>3, <1>4, <1>5, <1>6 DEF RunsFor
  <2>2. Pending(s, t)
    BY <1>1, <1>2, <1>6 DEF Pending, Creating
  <2>3. ~Pending(s, t)'
    BY <1>2 DEF Pending, Creating, OneWorker
  <2>4. /\ IsFiniteSet(RunsFor(s, t)') /\ Cardinality(RunsFor(s, t)') \in Nat
        /\ Cardinality(RunsFor(s, t)') <= Cardinality(RunsFor(s, t)) + 1
        /\ Cardinality(RunsFor(s, t)) \in Nat
    <3> DEFINE S == RunsFor(s, t)
    <3>1. IsFiniteSet(S)
      BY <1>t DEF SlotFits
    <3> HIDE DEF S
    <3>2. Cardinality(S) \in Nat
      BY <3>1, FS_CardinalityType
    <3>3. IsFiniteSet(S \cup {r})
      BY <3>1, FS_AddElement
    <3>4. Cardinality(S \cup {r}) = IF r \in S THEN Cardinality(S) ELSE Cardinality(S) + 1
      BY <3>1, FS_AddElement
    <3>5. Cardinality(S \cup {r}) \in Nat /\ Cardinality(S \cup {r}) <= Cardinality(S) + 1
      BY <3>2, <3>4
    <3>6. RunsFor(s, t)' = S \cup {r} /\ RunsFor(s, t) = S
      BY <2>1 DEF S
    <3> QED BY <3>2, <3>3, <3>5, <3>6
  <2>5. schedules[s].version \in Nat
    BY <1>t DEF DbTypeOK, ScheduleRow
  <2> QED BY <1>t, <2>2, <2>3, <2>4, <2>5 DEF SlotFits
<1>7. CASE ~(s = cur[w] /\ t = d.next)
  <2>1. RunsFor(s, t)' = RunsFor(s, t)
    BY <1>3, <1>4, <1>5, <1>7, NullsAreNotIds DEF RunsFor
  <2> QED BY <1>t, <2>1, RoomLeft
<1> QED BY <1>6, <1>7

LEMMA SlotsFitStep ==
  TypeInv /\ SlotInv /\ Lists' /\ OneWorker' /\ [Next]_vars => SlotsFit'
<1> SUFFICES ASSUME TypeInv, SlotInv, Lists', OneWorker', [Next]_vars,
                    NEW s \in Schedules, NEW t \in Nat
             PROVE  SlotFits(s, t)'
  BY DEF SlotsFit
<1>t. TypeOK /\ Lists /\ Unmade /\ SlotFits(s, t) /\ schedules \in [Schedules -> ScheduleRow]
  BY DEF TypeInv, TypeOK, DbTypeOK, SlotInv, SlotsFit
<1>1. ASSUME NEW x \in Schedules, NEW e \in BOOLEAN, NEW i \in Intervals, WebCreateSchedule(x, e, i)
      PROVE  SlotFits(s, t)'
  <2>1. schedules'[s] = schedules[s] \/ schedules'[s].version = schedules[s].version + 1
    BY <1>1, <1>t DEF WebCreateSchedule, CreateSchedule
  <2> QED BY <1>1, <1>t, <2>1, EditedSlot DEF WebCreateSchedule
<1>2. ASSUME NEW e \in BOOLEAN, NEW i \in Intervals, EditWrite(e, i)
      PROVE  SlotFits(s, t)'
  <2>1. schedules'[s] = schedules[s] \/ schedules'[s].version = schedules[s].version + 1
    BY <1>2, <1>t DEF EditWrite, UpdateSchedule
  <2> QED BY <1>2, <1>t, <2>1, EditedSlot DEF EditWrite
<1>3. ASSUME NEW w \in Workers, NEW d \in due[w], Advance(w, d)
      PROVE  SlotFits(s, t)'
  BY <1>3, AdvancedSlot
<1>4. CASE UNCHANGED schedules /\ \A v \in Workers : Lighter(v) \/ ListDue(v)
  <2>1. \A v \in Workers : ListDue(v) => ~Creating(v, s)' /\ ~Creating(v, s)
    BY <1>t DEF ListDue, Creating, TypeOK, ControlTypeOK
  <2>2. \A v \in Workers : \A e \in due'[v] :
          ListDue(v) /\ e.id = s /\ e.next <= t => Coming(s, t)
    <3> SUFFICES ASSUME NEW v \in Workers, NEW e \in due'[v], ListDue(v), e.id = s, e.next <= t
                 PROVE  Coming(s, t)
      OBVIOUS
    <3>1. /\ s \in Enabled
          /\ schedules[s].next # NoTime => e.next = schedules[s].next
      BY <1>t DEF ListDue, TypeOK, WorkListTypeOK
    <3> QED BY <3>1 DEF Enabled, Coming
  <2>3. Pending(s, t)' => Pending(s, t)
    BY <1>4, <2>1 DEF Pending, Lighter
  <2>4. Coming(s, t)' => Coming(s, t)
    <3>1. ASSUME NEW v \in Workers, ~Creating(v, s)', NEW e \in due'[v], e.id = s, e.next <= t,
                 schedules[s].version # 0
          PROVE  Coming(s, t)
      <4>1. CASE ListDue(v)
        BY <2>2, <3>1, <4>1
      <4>2. CASE Lighter(v)
        BY <3>1, <4>2 DEF Lighter, Coming
      <4> QED BY <1>4, <4>1, <4>2
    <3> QED BY <1>4, <3>1 DEF Coming
  <2>5. CASE UNCHANGED slotOf
    BY <1>4, <1>t, <2>3, <2>4, <2>5, SameRuns, RoomLeft
  <2>6. ASSUME NEW w \in Workers, NEW r \in Runs, CreateDue(w, r)
        PROVE  SlotFits(s, t)'
    BY <1>4, <2>3, <2>4, <2>6, CreatedSlot
  <2> QED BY <2>5, <2>6, SlotSteps
<1> QED BY <1>1, <1>2, <1>3, <1>4, <1>t, ScheduleSteps, LighterSteps

LEMMA InitSlotInv == Init => SlotInv
<1> SUFFICES ASSUME Init PROVE SlotInv
  OBVIOUS
<1>1. Lists /\ OneWorker /\ Unmade
  BY InitLists DEF Init, OneWorker, Unmade
<1>2. ASSUME NEW s \in Schedules, NEW t \in Nat PROVE SlotFits(s, t)
  <2>1. RunsFor(s, t) = {}
    BY NullsAreNotIds DEF Init, RunsFor
  <2>2. schedules[s].version = 0
    BY DEF Init, DbInit, AbsentSchedule
  <2>3. ~Coming(s, t) /\ ~Pending(s, t)
    BY <2>2 DEF Coming, Pending, Creating, Init
  <2> QED BY <2>1, <2>2, <2>3, FS_EmptySet DEF SlotFits
<1> QED BY <1>1, <1>2 DEF SlotInv, SlotsFit

\* With one worker at a time, as the supervisor runs it: whatever crashes,
\* signals, restarts and failed inserts do, a due time has at most as many runs
\* as its schedule has versions.
THEOREM SchedulerDuplicates ==
  ASSUME MaxAlive = 1 PROVE Spec => []DuplicatesNeedEdits
<1> DEFINE Inv == TypeInv /\ SlotInv
<1>1. Init => Inv
  BY InitTypeOK, InitDbInv, InitSlotInv DEF TypeInv, Init
<1>2. Inv /\ [Next]_vars => Inv'
  <2>1. TypeInv /\ SlotInv /\ [Next]_vars => Lists' /\ OneWorker' /\ Unmade'
    BY ListsStep, OneWorkerStep, UnmadeStep DEF SlotInv, TypeInv
  <2> QED BY <2>1, TypeInvStep, SlotsFitStep DEF SlotInv
<1>3. Inv => DuplicatesNeedEdits
  <2>1. 0 .. Horizon \subseteq Nat
    BY NumbersAreNat
  <2> QED BY <2>1 DEF SlotInv, SlotsFit, SlotFits, RunsFor, DuplicatesNeedEdits
<1> HIDE DEF Inv
<1> QED BY <1>1, <1>2, <1>3, PTL DEF Spec

-----------------------------------------------------------------------------
(* No tick looks in vain.  A due time that was moved over has its run, is  *)
(* about to get it or lost it, and stays so; every next_run_at in the      *)
(* table, in a list or in the hands of an edit is the end of the interval  *)
(* that such a due time begins.                                            *)

Begins(d, s, v) == d \in Served /\ d.id = s /\ d.next + d.interval = v

Follows(s, v) == v # NoTime => \E d \in Served : Begins(d, s, v)

NextServed == \A s \in Schedules : Follows(s, schedules[s].next)
EditServed == edit # NoEdit => Follows(edit.id, edit.next)
ListServed == \A w \in Workers : \A d \in due[w] : d.next > observed[w] => Follows(d.id, d.next)

\* No due time lies after the clock of the tick.
Ticking(w) == pc[w] \notin {"down", "idle"}
ServedPast ==
  \A d \in Served : d.next <= now /\ \A w \in Workers : Ticking(w) => d.next <= observed[w]

LookInv == /\ Lists /\ OneWorker /\ Unmade
           /\ NextServed /\ EditServed /\ ListServed /\ ServedPast /\ DueTimesServed

SlotRecord(r) == [id |-> runs[r].schedule, interval |-> span[r], next |-> slotOf[r]]

LEMMA ServedCases ==
  ASSUME NEW d
  PROVE  d \in Served <=> \/ \E r \in Runs : slotOf[r] # NoTime /\ d = SlotRecord(r)
                          \/ d \in lost
                          \/ \E w \in Workers : d \in Inserting(w)
BY DEF Served, SlotRecord

LEMMA ServedTyped ==
  ASSUME TypeOK, NEW d \in Served
  PROVE  d.next \in Nat /\ d.interval \in Nat
<1>1. \A e \in DueRecord : e.next \in Nat /\ e.interval \in Nat
  BY DEF DueRecord
<1>2. ASSUME NEW r \in Runs, slotOf[r] # NoTime, d = SlotRecord(r)
      PROVE  d.next \in Nat /\ d.interval \in Nat
  BY <1>2 DEF SlotRecord, TypeOK, ControlTypeOK, LookTypeOK
<1>3. CASE d \in lost
  BY <1>1, <1>3 DEF TypeOK, LookTypeOK
<1>4. ASSUME NEW w \in Workers, d \in Inserting(w)
      PROVE  d.next \in Nat /\ d.interval \in Nat
  BY <1>1, <1>4 DEF Inserting, TypeOK, WorkListTypeOK
<1> QED BY <1>2, <1>3, <1>4, ServedCases

\* A run that a due time has keeps its schedule, its due time and its interval.
LEMMA SlotRecordStays ==
  ASSUME TypeInv, Unmade, [Next]_vars, NEW r \in Runs, Exists(r)
  PROVE  slotOf'[r] = slotOf[r] /\ SlotRecord(r)' = SlotRecord(r)
<1>t. TypeOK
  BY DEF TypeInv
<1>1. runs'[r].schedule = runs[r].schedule
  BY RowsStep DEF RowsStay
<1>2. ASSUME NEW w \in Workers, NEW q \in Runs, CreateDue(w, q)
      PROVE  slotOf'[r] = slotOf[r] /\ span'[r] = span[r]
  <2>1. q # r
    BY <1>2 DEF CreateDue, CreateRun
  <2> QED BY <1>t, <1>2, <2>1 DEF CreateDue, TypeOK, ControlTypeOK, LookTypeOK
<1>3. slotOf'[r] = slotOf[r] /\ span'[r] = span[r]
  BY <1>2, LookSteps
<1> QED BY <1>1, <1>3 DEF SlotRecord

\* The run is inserted: it is the one that was about to be.
LEMMA CreatedRecord ==
  ASSUME TypeInv, Lists, NEW w \in Workers, NEW r \in Runs, CreateDue(w, r)
  PROVE  /\ pc'[w] = "queue" /\ ~Exists(r) /\ slotOf'[r] # NoTime
         /\ SlotRecord(r)' \in Inserting(w)
         /\ \A d \in Inserting(w) : d = SlotRecord(r)'
         /\ UNCHANGED lost
<1>t. TypeOK /\ DbTypeOK
  BY DEF TypeInv, TypeOK
<1>1. PICK d \in due[w] : /\ d.id = cur[w]
                          /\ slotOf' = [slotOf EXCEPT ![r] = d.next]
                          /\ span' = [span EXCEPT ![r] = d.interval]
  BY DEF CreateDue
<1>2. /\ pc[w] = "create" /\ pc'[w] = "queue" /\ UNCHANGED lost
      /\ ~Exists(r) /\ runs'[r].schedule = cur[w]
  BY <1>t, CreateRunStay DEF CreateDue, CreateRun, TypeOK, ControlTypeOK
<1>3. slotOf'[r] = d.next /\ span'[r] = d.interval
  BY <1>1, <1>t DEF TypeOK, ControlTypeOK, LookTypeOK
<1>4. d \in DueRecord
  BY <1>t DEF TypeOK, WorkListTypeOK
<1>5. d = [id |-> d.id, interval |-> d.interval, next |-> d.next] /\ d.next \in Nat
  BY <1>4 DEF DueRecord
<1>6. SlotRecord(r)' = d
  BY <1>1, <1>2, <1>3, <1>5 DEF SlotRecord
<1>7. d \in Inserting(w)
  BY <1>1, <1>2 DEF Inserting
<1>8. \A e \in Inserting(w) : e = d
  BY <1>1 DEF Inserting, Lists, ListFits
<1> QED BY <1>2, <1>3, <1>5, <1>6, <1>7, <1>8, NullsAreNotIds

\* What is served stays served.
LEMMA ServedStays ==
  ASSUME TypeInv, Lists, Unmade, [Next]_vars
  PROVE  Served \subseteq Served'
<1> SUFFICES ASSUME NEW d \in Served PROVE d \in Served'
  OBVIOUS
<1>t. TypeOK
  BY DEF TypeInv
<1>c. d \in Served' <=> \/ \E r \in Runs : slotOf'[r] # NoTime /\ d = SlotRecord(r)'
                        \/ d \in lost'
                        \/ \E w \in Workers : d \in Inserting(w)'
  BY DEF Served, SlotRecord
<1>l. lost \subseteq lost'
  <2>1. \A w \in Workers : CreateFails(w) \/ Crash(w) => lost \subseteq lost'
    BY DEF CreateFails, Crash
  <2>2. \A w \in Workers, r \in Runs : CreateDue(w, r) => lost' = lost
    BY DEF CreateDue
  <2> QED BY <2>1, <2>2, LookSteps
<1>1. ASSUME NEW r \in Runs, slotOf[r] # NoTime, d = SlotRecord(r) PROVE d \in Served'
  <2>1. Exists(r)
    BY <1>1 DEF Unmade
  <2>2. slotOf'[r] = slotOf[r] /\ SlotRecord(r)' = SlotRecord(r)
    BY <2>1, SlotRecordStays
  <2> QED BY <1>1, <1>c, <2>2
<1>2. CASE d \in lost
  BY <1>2, <1>c, <1>l
<1>3. ASSUME NEW w \in Workers, d \in Inserting(w) PROVE d \in Served'
  <2>1. CASE StaysPut(w)
    <3>1. Inserting(w)' = Inserting(w)
      BY <2>1 DEF StaysPut, Inserting
    <3> QED BY <1>3, <1>c, <3>1
  <2>2. ASSUME NEW r \in Runs, CreateDue(w, r) PROVE d \in Served'
    BY <1>3, <1>c, <2>2, CreatedRecord
  <2>3. CASE CreateFails(w) \/ Crash(w)
    <3>1. lost' = lost \cup Inserting(w)
      BY <2>3 DEF CreateFails, Crash
    <3> QED BY <1>3, <1>c, <3>1
  <2>4. pc[w] = "create"
    BY <1>3 DEF Inserting
  <2> QED BY <1>t, <2>1, <2>2, <2>3, <2>4, CreatingSteps
<1> QED BY <1>1, <1>2, <1>3, ServedCases

\* Only moving next_run_at on makes a due time served.
LEMMA ServedFrom ==
  ASSUME TypeInv, Lists, Unmade, [Next]_vars, NEW d \in Served'
  PROVE  d \in Served \/ \E w \in Workers : \E e \in due[w] : Advance(w, e) /\ d \in Inserting(w)'
<1> DEFINE New == \E w \in Workers : \E e \in due[w] : Advance(w, e) /\ d \in Inserting(w)'
<1>t. TypeOK
  BY DEF TypeInv
<1>1. ASSUME NEW r \in Runs, slotOf'[r] # NoTime, d = SlotRecord(r)' PROVE d \in Served
  <2>1. CASE Exists(r)
    <3>1. slotOf'[r] = slotOf[r] /\ SlotRecord(r)' = SlotRecord(r)
      BY <2>1, SlotRecordStays
    <3> QED BY <1>1, <3>1, ServedCases
  <2>2. CASE ~Exists(r)
    <3>1. slotOf'[r] # slotOf[r]
      BY <1>1, <2>2 DEF Unmade
    <3>2. PICK w \in Workers, q \in Runs : CreateDue(w, q)
      BY <3>1, SlotSteps
    <3>3. q = r
      BY <1>t, <3>1, <3>2 DEF CreateDue, TypeOK, ControlTypeOK
    <3>4. d \in Inserting(w)
      BY <1>1, <3>2, <3>3, CreatedRecord
    <3> QED BY <3>4, ServedCases
  <2> QED BY <2>1, <2>2
<1>2. CASE d \in lost'
  <2>1. ASSUME NEW w \in Workers, CreateFails(w) \/ Crash(w) PROVE d \in Served
    <3>1. d \in lost \cup Inserting(w)
      BY <1>2, <2>1 DEF CreateFails, Crash
    <3> QED BY <3>1, ServedCases
  <2>2. CASE lost' = lost
    BY <1>2, <2>2, ServedCases
  <2>3. \A w \in Workers, r \in Runs : CreateDue(w, r) => lost' = lost
    BY DEF CreateDue
  <2> QED BY <2>1, <2>2, <2>3, LookSteps
<1>3. ASSUME NEW w \in Workers, d \in Inserting(w)' PROVE d \in Served \/ New
  <2>1. pc'[w] = "create"
    BY <1>3 DEF Inserting
  <2>2. CASE StaysPut(w)
    <3>1. d \in Inserting(w)
      BY <1>3, <2>2 DEF StaysPut, Inserting
    <3> QED BY <3>1, ServedCases
  <2>3. ASSUME NEW e \in due[w], Advance(w, e) PROVE New
    BY <1>3, <2>3
  <2>4. ASSUME StepOf(w), ~StaysPut(w) PROVE \E e \in due[w] : Advance(w, e)
    <3>1. ~ListDue(w) /\ ~CreateFails(w) /\ \A r \in Runs : ~CreateDue(w, r)
      BY <1>t, <2>1 DEF ListDue, CreateFails, CreateDue, TypeOK, ControlTypeOK
    <3>2. \A e \in due[w] : ~NotDue(w, e)
      <4>1. ASSUME NEW e \in due[w], NotDue(w, e) PROVE FALSE
        BY <2>1, <4>1 DEF NotDue
      <4> QED BY <4>1
    <3> QED BY <1>t, <2>1, <2>4, <3>1, <3>2, ListSteps
  <2> QED BY <1>t, <2>2, <2>3, <2>4, PlaceSteps
<1>4. \/ \E r \in Runs : slotOf'[r] # NoTime /\ d = SlotRecord(r)'
      \/ d \in lost'
      \/ \E w \in Workers : d \in Inserting(w)'
  BY DEF Served, SlotRecord
<1> HIDE DEF New
<1>5. d \in Served \/ New
  BY <1>1, <1>2, <1>3, <1>4
<1> QED BY <1>5 DEF New

\* The due time whose run is to be inserted is the one at or before the clock,
\* and next_run_at is the end of its interval.
LEMMA AdvanceServed ==
  ASSUME TypeInv, Lists, Policy = "catch_up_once", NEW w \in Workers, NEW d \in due[w], Advance(w, d)
  PROVE  \E e \in Served' :
           /\ e.id = d.id /\ e.next <= observed[w] /\ observed[w] < e.next + e.interval
           /\ e.next + e.interval = Following(d, observed[w])
           /\ \A x \in Inserting(w)' : x = e
           /\ \A x \in due'[w] : x = e \/ x \in due[w]
<1>t. TypeOK
  BY DEF TypeInv
<1>1. PICK e \in DueRecord :
        /\ pc'[w] = "create" /\ cur'[w] = d.id
        /\ due'[w] = (due[w] \ {d}) \cup {e}
        /\ e.id = d.id /\ e.interval = d.interval
        /\ e.next = LastDue(d, observed[w])
  BY <1>t, AdvanceList
<1>2. d \in DueRecord /\ observed[w] \in Nat /\ d.next <= observed[w]
  BY <1>t DEF TypeOK, WorkListTypeOK, ControlTypeOK, Advance
<1>3. /\ LastDue(d, observed[w]) <= observed[w]
      /\ observed[w] < Following(d, observed[w])
  BY <1>2, DueDecision
<1>4. e.next + e.interval = Following(d, observed[w])
  BY <1>1 DEF Following
<1>5. e \in Inserting(w)' /\ \A x \in Inserting(w)' : x = e
  <2>1. \A x \in due[w] \ {d} : x.id # d.id
    BY <1>t, AdvanceList
  <2> QED BY <1>1, <2>1 DEF Inserting
<1>6. e \in Served'
  BY <1>5 DEF Served
<1> QED BY <1>1, <1>3, <1>4, <1>5, <1>6

\* What begins the interval before a next_run_at does so for ever.
After(s, v) == v # NoTime => \E d \in Served' : d.id = s /\ d.next + d.interval = v

LEMMA FollowsStays ==
  ASSUME TypeInv, Lists, Unmade, [Next]_vars
  PROVE  \A x, v : Follows(x, v) => After(x, v)
BY ServedStays DEF Follows, Begins, After

LEMMA NextServedStep ==
  ASSUME TypeInv, LookInv, Policy = "catch_up_once", [Next]_vars
  PROVE  NextServed' /\ EditServed'
<1>t. /\ TypeOK /\ Lists /\ Unmade /\ NextServed /\ EditServed
      /\ schedules \in [Schedules -> ScheduleRow]
  BY DEF TypeInv, TypeOK, DbTypeOK, LookInv
<1>m. \A x, v : Follows(x, v) => After(x, v)
  BY <1>t, FollowsStays
<1>1. ASSUME NEW s \in Schedules PROVE After(s, schedules'[s].next)
  <2>1. CASE UNCHANGED schedules
    BY <1>t, <1>m, <2>1 DEF NextServed
  <2>2. ASSUME NEW x \in Schedules, NEW e \in BOOLEAN, NEW i \in Intervals, WebCreateSchedule(x, e, i)
        PROVE  After(s, schedules'[s].next)
    <3>1. schedules'[s] = schedules[s] \/ schedules'[s].next = NoTime
      BY <1>t, <2>2 DEF WebCreateSchedule, CreateSchedule
    <3>2. After(s, schedules[s].next)
      BY <1>t, <1>m DEF NextServed
    <3>3. CASE schedules'[s] = schedules[s]
      BY <3>2, <3>3
    <3>4. CASE schedules'[s].next = NoTime
      BY <3>4 DEF After
    <3> QED BY <3>1, <3>3, <3>4
  <2>3. ASSUME NEW e \in BOOLEAN, NEW i \in Intervals, EditWrite(e, i)
        PROVE  After(s, schedules'[s].next)
    <3>1. schedules'[s] = schedules[s] \/ (s = edit.id /\ schedules'[s].next = edit.next)
      BY <1>t, <2>3 DEF EditWrite, UpdateSchedule
    <3>2. After(s, schedules[s].next)
      BY <1>t, <1>m DEF NextServed
    <3>3. After(edit.id, edit.next)
      BY <1>t, <1>m, <2>3 DEF EditServed, EditWrite
    <3>4. CASE schedules'[s] = schedules[s]
      BY <3>2, <3>4
    <3>5. CASE s = edit.id /\ schedules'[s].next = edit.next
      BY <3>3, <3>5
    <3> QED BY <3>1, <3>4, <3>5
  <2>4. ASSUME NEW w \in Workers, NEW d \in due[w], Advance(w, d)
        PROVE  After(s, schedules'[s].next)
    <3>1. /\ schedules[d.id].version # 0
          /\ schedules' = [schedules EXCEPT ![d.id].next = Following(d, observed[w])]
      BY <2>4 DEF Advance, SetNextRun
    <3>2. CASE s # d.id
      <4>1. schedules'[s] = schedules[s]
        BY <1>t, <3>1, <3>2
      <4>2. After(s, schedules[s].next)
        BY <1>t, <1>m DEF NextServed
      <4> QED BY <4>1, <4>2
    <3>3. CASE s = d.id
      <4>1. schedules'[s].next = Following(d, observed[w])
        BY <1>t, <3>1, <3>3 DEF ScheduleRow
      <4>2. PICK e \in Served' : e.id = d.id /\ e.next + e.interval = Following(d, observed[w])
        BY <1>t, <2>4, AdvanceServed
      <4> QED BY <3>3, <4>1, <4>2 DEF After
    <3> QED BY <3>2, <3>3
  <2> QED BY <2>1, <2>2, <2>3, <2>4, ScheduleSteps
<1>2. EditServed'
  <2>1. ASSUME NEW s \in Schedules, EditRead(s) PROVE EditServed'
    <3>1. edit'.id = s /\ edit'.next = schedules[s].next
      BY <2>1 DEF EditRead
    <3>2. After(s, schedules[s].next)
      BY <1>t, <1>m DEF NextServed
    <3> QED BY <3>1, <3>2 DEF EditServed, Follows, Begins, After
  <2>2. CASE edit' = edit
    BY <1>t, <1>m, <2>2 DEF EditServed, Follows, Begins, After
  <2>3. CASE edit' = NoEdit
    BY <2>3 DEF EditServed, NoEdit
  <2>4. edit' = edit \/ edit' = NoEdit \/ \E s \in Schedules : EditRead(s)
    <3>1. CASE ClientStep
      BY <3>1 DEF ClientStep, WebCreateSchedule, EditWrite, WebQueueRun, CallerCreate,
         CallerFinalize, CallerDies, clientVars
    <3>2. CASE ClockTick \/ UNCHANGED vars
      BY <3>2 DEF ClockTick, vars, clientVars
    <3> QED BY <1>t, <3>1, <3>2, WorkerFrame, NextCases
  <2> QED BY <2>1, <2>2, <2>3, <2>4
<1> QED BY <1>1, <1>2 DEF NextServed, Follows, Begins, After

\* The clock of a tick changes only between ticks, when the list is empty.
LEMMA ClockSteps ==
  ASSUME TypeOK, Lists, [Next]_vars, NEW v \in Workers
  PROVE  \/ observed'[v] = observed[v] /\ (Ticking(v)' => Ticking(v))
         \/ ~Ticking(v)' /\ due'[v] = {}
         \/ Begin(v) /\ observed'[v] = now /\ due'[v] = {} /\ now' = now
<1>f. \A x \in {"down", "idle"} : pc[v] = x => due[v] = {}
  BY DEF Lists, ListFits
<1>1. ASSUME StepOf(v)
      PROVE  \/ observed'[v] = observed[v] /\ (Ticking(v)' => Ticking(v))
             \/ ~Ticking(v)' /\ due'[v] = {}
             \/ Begin(v) /\ observed'[v] = now /\ due'[v] = {} /\ now' = now
  <2>1. CASE Begin(v)
    BY <1>f, <2>1 DEF Begin, TypeOK, ControlTypeOK
  <2>2. CASE Spawn(v) \/ Exit(v) \/ Crash(v) \/ MarkConflict(v)
    BY <1>f, <2>2 DEF Spawn, Exit, Crash, MarkConflict, GoDown, Ticking, TypeOK, ControlTypeOK,
       WorkListTypeOK
  <2>3. CASE EndTick(v)
    BY <2>3 DEF EndTick, Ticking, Lists, ListFits, TypeOK, ControlTypeOK
  <2>4. CASE WorkerStep(v) /\ ~Begin(v) /\ ~Exit(v) /\ ~EndTick(v) /\ ~MarkConflict(v)
    BY <2>4 DEF WorkerStep, Reclaim, ListDue, NotDue, Advance, CreateDue, CreateFails,
       ListClaimable, Take, Claim, ClaimRefused, Mark, Finish, Ticking
  <2>5. CASE \E why \in {"signal", "parent"} : StopRequested(v, why)
    BY <2>5 DEF StopRequested, Ticking
  <2> QED BY <1>1, <2>1, <2>2, <2>3, <2>4, <2>5 DEF StepOf
<1>2. ASSUME NEW w \in Workers \ {v}, StepOf(w)
      PROVE  observed'[v] = observed[v] /\ pc'[v] = pc[v]
  BY <1>2, WorkerFrame
<1>3. CASE ClientStep \/ ClockTick \/ UNCHANGED vars
  BY <1>3, OtherFrame DEF vars, localVars, Ticking
<1> QED BY <1>1, <1>2, <1>3, NextCases DEF Ticking

LEMMA ListServedStep ==
  ASSUME TypeInv, LookInv, Policy = "catch_up_once", [Next]_vars
  PROVE  ListServed'
<1> SUFFICES ASSUME NEW v \in Workers, NEW d \in due'[v], d.next > observed'[v]
             PROVE  After(d.id, d.next)
  BY DEF ListServed, Follows, Begins, After
<1>t. TypeOK /\ Lists /\ Unmade /\ NextServed /\ ListServed
  BY DEF TypeInv, LookInv
<1>m. \A x, y : Follows(x, y) => After(x, y)
  BY <1>t, FollowsStays
<1>1. CASE d \in due[v]
  <2>1. observed'[v] = observed[v]
    BY <1>t, ClockSteps
  <2> QED BY <1>1, <1>m, <1>t, <2>1 DEF ListServed
<1>2. CASE ListDue(v)
  <2>1. PICK s \in Schedules : d.id = s /\ (d.next = observed[v] \/ d.next = schedules[s].next)
    BY <1>2, <1>t DEF ListDue, Enabled, TypeOK, WorkListTypeOK
  <2>2. observed'[v] = observed[v] /\ observed[v] \in Nat
    BY <1>2, <1>t DEF ListDue, TypeOK, ControlTypeOK
  <2>3. d.next = schedules[s].next
    BY <2>1, <2>2
  <2> QED BY <1>m, <1>t, <2>1, <2>3 DEF NextServed
<1>3. ASSUME NEW e \in due[v], Advance(v, e), d \notin due[v] PROVE FALSE
  <2>1. d.next <= observed[v]
    BY <1>t, <1>3, AdvanceServed
  <2>2. observed'[v] = observed[v] /\ observed[v] \in Nat
    BY <1>3, <1>t DEF Advance, TypeOK, ControlTypeOK
  <2>3. d \in DueRecord
    <3>1. PICK x \in DueRecord : due'[v] = (due[v] \ {e}) \cup {x}
      BY <1>3, <1>t, AdvanceList
    <3> QED BY <1>3, <3>1
  <2>4. d.next \in Nat
    BY <2>3 DEF DueRecord
  <2> QED BY <2>1, <2>2, <2>4
<1>4. Lighter(v) => d \in due[v]
  BY DEF Lighter
<1> QED BY <1>1, <1>2, <1>3, <1>4, <1>t, LighterSteps

LEMMA ServedPastStep ==
  ASSUME TypeInv, LookInv, ClockInv, OneWorker', Policy = "catch_up_once", [Next]_vars
  PROVE  ServedPast'
<1>t. TypeOK /\ Lists /\ Unmade /\ ServedPast /\ OneWorker /\ now \in Nat
  BY DEF TypeInv, TypeOK, ControlTypeOK, LookInv
<1>n. now' \in Nat /\ now <= now'
  <2>1. CASE ClientStep \/ (\E w \in Workers : StepOf(w)) \/ UNCHANGED vars
    <3>1. now' = now
      <4>1. ClientStep => now' = now
        BY DEF ClientStep, WebCreateSchedule, EditRead, EditWrite, WebQueueRun, CallerCreate,
           CallerFinalize, CallerDies
      <4> QED BY <1>t, <2>1, <4>1, WorkerFrame DEF vars
    <3> QED BY <1>t, <3>1
  <2>2. CASE ClockTick
    BY <1>t, <2>2 DEF ClockTick
  <2> QED BY <2>1, <2>2, NextCases
<1>1. ASSUME NEW d \in Served
      PROVE  d.next <= now' /\ \A w \in Workers : Ticking(w)' => d.next <= observed'[w]
  <2>1. d.next \in Nat /\ d.next <= now
    BY <1>t, ServedTyped DEF ServedPast
  <2>2. ASSUME NEW w \in Workers, Ticking(w)' PROVE d.next <= observed'[w]
    BY <1>t, <2>1, <2>2, ClockSteps DEF ServedPast
  <2> QED BY <1>n, <1>t, <2>1, <2>2
<1>2. ASSUME NEW w \in Workers, NEW e \in due[w], Advance(w, e), NEW d \in Inserting(w)'
      PROVE  d.next <= now' /\ \A v \in Workers : Ticking(v)' => d.next <= observed'[v]
  <2>1. d.next <= observed[w]
    BY <1>2, <1>t, AdvanceServed
  <2>2. d \in DueRecord
    <3>1. PICK x \in DueRecord : due'[w] = (due[w] \ {e}) \cup {x} /\ pc'[w] = "create"
      BY <1>2, <1>t, AdvanceList
    <3>2. d \in due'[w] /\ d.id = cur'[w] /\ cur'[w] = e.id
      BY <1>2, <1>t, AdvanceList DEF Inserting
    <3>3. d \notin due[w] \ {e}
      BY <1>2, <1>t, <3>2, AdvanceList
    <3> QED BY <3>1, <3>2, <3>3
  <2>3. d.next \in Nat /\ observed[w] \in Nat /\ observed[w] <= now /\ observed'[w] = observed[w]
    BY <1>2, <1>t, <2>2 DEF DueRecord, TypeOK, ControlTypeOK, ClockInv, Advance
  <2>4. pc'[w] # "down"
    BY <1>2, <1>t, AdvanceList
  <2>5. \A v \in Workers : Ticking(v)' => v = w
    BY <2>4 DEF OneWorker, Ticking
  <2> QED BY <1>n, <1>t, <2>1, <2>3, <2>5
<1> QED BY <1>1, <1>2, <1>t, ServedFrom DEF ServedPast

LEMMA DueTimesServedStep ==
  ASSUME TypeInv, LookInv, Policy = "catch_up_once", [Next]_vars
  PROVE  DueTimesServed'
<1> DEFINE Fits(s, t) == \E d \in Served' : d.id = s /\ d.next <= t /\ t < d.next + d.interval
<1>t. TypeOK /\ Lists /\ Unmade /\ ListServed /\ ServedPast /\ DueTimesServed
  BY DEF TypeInv, LookInv
<1>m. Served \subseteq Served'
  BY <1>t, ServedStays
<1>o. \A s \in Schedules : looked[s] # NoTime => Fits(s, looked[s])
  BY <1>m, <1>t DEF DueTimesServed
<1>1. ASSUME NEW w \in Workers, NEW d \in due[w], NotDue(w, d) \/ Advance(w, d)
      PROVE  Fits(d.id, observed[w])
  <2>1. CASE NotDue(w, d)
    <3>1. d.next > observed[w] /\ pc[w] = "queue"
      BY <2>1 DEF NotDue
    <3>2. d \in DueRecord /\ d.next \in Nat /\ observed[w] \in Nat
      BY <1>t DEF TypeOK, WorkListTypeOK, ControlTypeOK, DueRecord
    <3>3. PICK e \in Served : e.id = d.id /\ e.next + e.interval = d.next
      BY <1>t, <3>1, <3>2, NullsAreNotIds DEF ListServed, Follows, Begins
    <3>4. e.next <= observed[w]
      BY <1>t, <3>1 DEF ServedPast, Ticking
    <3> QED BY <1>m, <3>1, <3>3, <3>4
  <2>2. CASE Advance(w, d)
    BY <1>t, <2>2, AdvanceServed
  <2> QED BY <1>1, <2>1, <2>2
<1>2. ASSUME NEW w \in Workers, NEW d \in due[w], NotDue(w, d) \/ Advance(w, d),
             NEW s \in Schedules, looked'[s] # NoTime
      PROVE  Fits(s, looked'[s])
  <2>1. looked' = [looked EXCEPT ![d.id] = observed[w]]
    BY <1>2 DEF NotDue, Advance
  <2>2. looked'[s] = IF s = d.id THEN observed[w] ELSE looked[s]
    BY <1>t, <2>1 DEF TypeOK, LookTypeOK
  <2>3. Fits(d.id, observed[w])
    BY <1>1, <1>2
  <2> HIDE DEF Fits
  <2> QED BY <1>2, <1>o, <2>2, <2>3
<1>3. CASE looked' = looked
  BY <1>3, <1>o DEF DueTimesServed
<1>4. \A w \in Workers, r \in Runs : CreateDue(w, r) => looked' = looked
  BY DEF CreateDue
<1> QED BY <1>2, <1>3, <1>4, LookSteps DEF DueTimesServed

\* With one worker at a time and catch_up_once: whatever outages, crashes,
\* signals, restarts and edits there are, a tick that looks at a schedule finds
\* the due time of that moment served.
THEOREM SchedulerDueTimesServed ==
  ASSUME MaxAlive = 1, Policy = "catch_up_once" PROVE Spec => []DueTimesServed
<1> DEFINE Inv == TypeInv /\ ClockInv /\ LookInv
<1>1. Init => Inv
  <2> SUFFICES ASSUME Init PROVE Inv
    OBVIOUS
  <2>1. TypeInv /\ ClockInv
    BY InitIInv DEF IInv
  <2>2. Lists /\ OneWorker /\ Unmade
    BY InitSlotInv DEF SlotInv
  <2>3. Served = {}
    BY DEF Init, Served, Inserting
  <2>4. ListServed /\ ServedPast
    BY <2>3 DEF Init, ListServed, ServedPast
  <2>5. \A s \in Schedules : schedules[s].next = NoTime /\ looked[s] = NoTime
    BY DEF Init, DbInit, AbsentSchedule
  <2>6. NextServed /\ EditServed /\ DueTimesServed
    BY <2>5 DEF Init, NextServed, EditServed, DueTimesServed, Follows
  <2> QED BY <2>1, <2>2, <2>4, <2>6 DEF LookInv
<1>2. Inv /\ [Next]_vars => Inv'
  <2> SUFFICES ASSUME Inv, [Next]_vars PROVE Inv'
    OBVIOUS
  <2>1. TypeInv' /\ ClockInv'
    BY TypeInvStep, ClockStep
  <2>2. Lists' /\ OneWorker' /\ Unmade'
    BY ListsStep, OneWorkerStep, UnmadeStep DEF LookInv, TypeInv
  <2>3. NextServed' /\ EditServed'
    BY NextServedStep
  <2>4. ListServed' /\ DueTimesServed'
    BY ListServedStep, DueTimesServedStep
  <2>5. ServedPast'
    BY <2>2, ServedPastStep
  <2> QED BY <2>1, <2>2, <2>3, <2>4, <2>5 DEF LookInv
<1>3. Inv => DueTimesServed
  BY DEF LookInv
<1> HIDE DEF Inv
<1> QED BY <1>1, <1>2, <1>3, PTL DEF Spec

-----------------------------------------------------------------------------
(* Every step of the worker, of the other clients and of the clock is a    *)
(* step of the most general client of the tables, or leaves them alone.    *)

LEMMA ImplementsStep ==
  ASSUME Times = Nat, RetryLimit < AttemptCap, TypeOK, [Next]_vars
  PROVE  [DbNext]_dbVars
<1> USE NumbersAreNat, WorkerConstants
<1>t. DbTypeOK /\ ControlTypeOK /\ WorkListTypeOK /\ HandTypeOK /\ EditTypeOK
  BY DEF TypeOK
<1>c. 1 \in 1 .. AttemptCap /\ RetryLimit + 1 \in 1 .. AttemptCap
  OBVIOUS
<1>l. \A r : LeaseSeconds(r) \in Timeouts
  BY DEF LeaseSeconds
<1>n. now \in Times /\ \A w \in Workers : observed[w] \in Times
  BY <1>t DEF ControlTypeOK
<1>1. ASSUME NEW w \in Workers, Reclaim(w) PROVE DbNext
  BY <1>1, <1>n DEF Reclaim, DbNext
<1>2. ASSUME NEW w \in Workers, NEW d \in due[w], Advance(w, d) PROVE DbNext
  <2>1. d \in DueRecord /\ observed[w] \in Nat
    BY <1>t DEF WorkListTypeOK, ControlTypeOK
  <2>2. Following(d, observed[w]) \in Times /\ d.id \in Schedules
    BY <1>2, <2>1, DueDecision DEF Advance, DueRecord
  <2> QED BY <1>2, <2>2 DEF Advance, DbNext
<1>3. ASSUME NEW w \in Workers, NEW r \in Runs, CreateDue(w, r) PROVE DbNext
  <2>1. cur[w] \in Schedules
    BY <1>3, <1>t DEF CreateDue, HandTypeOK
  <2>2. CreateRun(r, cur[w], "scheduled", observed[w], RetryLimit + 1)
    BY <1>3 DEF CreateDue
  <2> QED BY <2>1, <2>2, <1>n, <1>c DEF DbNext, Kinds
<1>4. ASSUME NEW w \in Workers, Claim(w) PROVE DbNext
  <2>1. cur[w] \in Runs
    BY <1>4, <1>t DEF Claim, HandTypeOK
  <2>2. ClaimRun(cur[w], w, observed[w], LeaseSeconds(cur[w]))
    BY <1>4 DEF Claim
  <2> QED BY <2>1, <2>2, <1>n, <1>l DEF DbNext
<1>5. ASSUME NEW w \in Workers, Mark(w) PROVE DbNext
  <2>1. cur[w] \in Runs
    BY <1>5, <1>t DEF Mark, HandTypeOK, Holding
  <2> QED BY <1>5, <2>1 DEF Mark, DbNext
<1>6. ASSUME NEW w \in Workers, NEW o \in {"success", "failed"}, Finish(w, o) PROVE DbNext
  <2>1. cur[w] \in Runs /\ o \in Terminal
    BY <1>6, <1>t DEF Finish, HandTypeOK, Holding, Terminal
  <2>2. RequeueRun(cur[w], now) \/ FinalizeRun(cur[w], o)
    BY <1>6 DEF Finish
  <2> QED BY <2>1, <2>2, <1>n DEF DbNext
<1>7. ASSUME NEW w \in Workers, StepOf(w) PROVE [DbNext]_dbVars
  BY <1>1, <1>2, <1>3, <1>4, <1>5, <1>6, <1>7 DEF StepOf, WorkerStep, Spawn, Crash, StopRequested,
     Exit, Begin, ListDue, NotDue, CreateFails, ListClaimable, Take, EndTick, ClaimRefused,
     MarkConflict
<1>8. ASSUME NEW s \in Schedules, NEW e \in BOOLEAN, NEW i \in Intervals, WebCreateSchedule(s, e, i)
      PROVE  DbNext
  BY <1>8 DEF WebCreateSchedule, DbNext
<1>9. ASSUME NEW e \in BOOLEAN, NEW i \in Intervals, EditWrite(e, i) PROVE DbNext
  <2>1. edit \in [id : Schedules, version : Nat, next : Nat \cup {NoTime}]
    BY <1>9, <1>t DEF EditWrite, EditTypeOK
  <2>2. edit.id \in Schedules /\ edit.next \in Times \cup {NoTime}
    BY <2>1
  <2>3. UpdateSchedule(edit.id, schedules[edit.id].version, edit.next, e, i)
    BY <1>9 DEF EditWrite, UpdateSchedule
  <2> QED BY <2>2, <2>3 DEF DbNext
<1>10. ASSUME NEW r \in Runs, NEW s \in Schedules \cup {NoSchedule}, WebQueueRun(r, s) PROVE DbNext
  <2>1. PICK m \in 1 .. AttemptCap : CreateRun(r, s, "manual", now, m)
    BY <1>10, <1>c DEF WebQueueRun
  <2> QED BY <2>1, <1>n DEF DbNext, Kinds
<1>11. ASSUME NEW c \in Callers, NEW r \in Runs, NEW k \in {"manual", "historical"},
              NEW at \in {0, now}, CallerCreate(c, r, k, at)
       PROVE  DbNext
  <2>1. CreateRun(r, NoSchedule, k, at, 1) /\ k \in Kinds /\ at \in Times
    BY <1>11, <1>n DEF CallerCreate, Kinds
  <2> QED BY <2>1, <1>c DEF DbNext
<1>12. ASSUME NEW c \in Callers, NEW st \in Terminal, CallerFinalize(c, st) PROVE DbNext
  <2>1. held[c] \in Runs /\ FinalizeRun(held[c], st)
    BY <1>12, <1>t DEF CallerFinalize, ControlTypeOK
  <2> QED BY <2>1 DEF DbNext
<1>13. CASE ClientStep
  BY <1>8, <1>9, <1>10, <1>11, <1>12, <1>13 DEF ClientStep, EditRead, CallerDies
<1>14. CASE ClockTick \/ UNCHANGED vars
  BY <1>14 DEF ClockTick, vars
<1> QED BY <1>7, <1>13, <1>14, NextCases

\* The worker, the Web application, the CLI and the import together implement
\* the specification of the tables: what part 1 proves of DbSpec holds of every
\* program that uses the tables as they do.
THEOREM WorkerImplementsDb ==
  ASSUME Times = Nat, RetryLimit < AttemptCap PROVE Spec => DbSpec
<1>1. Init => DbInit
  BY DEF Init
<1>2. TypeOK /\ [Next]_vars => [DbNext]_dbVars
  BY ImplementsStep
<1> QED BY <1>1, <1>2, TypeCorrect, PTL DEF Spec, DbSpec
===============================================================================
