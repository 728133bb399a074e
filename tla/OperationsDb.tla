----------------------------- MODULE OperationsDb -----------------------------
(***************************************************************************)
(* The SQLite control plane of the scheduler (services/operations_db.py):  *)
(* the tables `schedules` and `schedule_runs` and every operation that     *)
(* writes them.  One action is one SQLite transaction, which WAL mode and  *)
(* BEGIN IMMEDIATE (or the autocommit of a single statement) make atomic.  *)
(*                                                                         *)
(* DbSpec is the most general client: anybody may call any operation with  *)
(* any arguments at any time.  What DbSpec guarantees, the worker, the Web *)
(* application, the CLI and the history import all get, in any number.     *)
(***************************************************************************)
EXTENDS Integers

CONSTANTS
  Schedules,       \* schedule ids
  Runs,            \* run ids: a pool of rows, each inserted at most once
  Workers,         \* worker ids, the values of lease_owner
  NoSchedule,      \* the NULL schedule_id of an ad-hoc run
  NoWorker,        \* the NULL lease_owner
  NoTime,          \* a NULL timestamp
  Times,           \* the timestamps clocks show and callers pass
  Intervals,       \* the values of interval_seconds
  Timeouts,        \* the lease lengths callers pass
  AttemptCap,      \* bound: the attempt counter stops counting here
  Horizon          \* bound: no lease outlives it

ASSUME NullsAreNotIds ==
  /\ NoSchedule \notin Schedules
  /\ NoWorker \notin Workers
  /\ NoTime \notin Nat

ASSUME NumbersAreNat ==
  /\ Times \subseteq Nat
  /\ Intervals \subseteq Nat \ {0}
  /\ Timeouts \subseteq Nat
  /\ AttemptCap \in Nat
  /\ Horizon \in Nat

VARIABLES
  schedules,       \* table schedules
  runs             \* table schedule_runs

dbVars == <<schedules, runs>>

-----------------------------------------------------------------------------
(* Rows.  A row that has not been inserted has status "absent" (runs) or   *)
(* version 0 (schedules).                                                  *)

Active    == {"claimed", "running"}
Claimable == {"queued", "claimed", "running"}
Terminal  == {"success", "failed", "cancelled", "skipped"}
Kinds     == {"scheduled", "manual", "historical"}


RunRow ==
  [schedule     : Schedules \cup {NoSchedule},
   kind         : Kinds,
   status       : {"absent"} \cup Claimable \cup Terminal,
   attempt      : Nat,
   max_attempts : Nat,
   queued_at    : Nat,
   owner        : Workers \cup {NoWorker},     \* lease_owner
   expires      : Nat \cup {NoTime}]           \* lease_expires_at

ScheduleRow ==
  [enabled  : BOOLEAN,
   interval : Nat \ {0},
   next     : Nat \cup {NoTime},               \* next_run_at
   version  : Nat]

AbsentRun ==
  [schedule |-> NoSchedule, kind |-> "manual", status |-> "absent",
   attempt |-> 0, max_attempts |-> 0, queued_at |-> 0,
   owner |-> NoWorker, expires |-> NoTime]

AbsentSchedule ==
  [enabled |-> FALSE, interval |-> 1, next |-> NoTime, version |-> 0]

Exists(r)   == runs[r].status # "absent"
IsActive(r) == runs[r].status \in Active

DbInit ==
  /\ schedules = [s \in Schedules |-> AbsentSchedule]
  /\ runs = [r \in Runs |-> AbsentRun]

-----------------------------------------------------------------------------
(* Schedules.                                                              *)

CreateSchedule(s, enabled, interval) ==
  /\ schedules[s].version = 0
  /\ schedules' = [schedules EXCEPT ![s] =
       [enabled |-> enabled, interval |-> interval, next |-> NoTime,
        version |-> 1]]
  /\ UNCHANGED runs

\* The transaction of update_schedule.  `next` is the next_run_at that
\* get_schedule returned before the transaction began: it is written back
\* with the other columns, under a check of the version alone.
UpdateSchedule(s, expected, next, enabled, interval) ==
  /\ schedules[s].version # 0
  /\ schedules[s].version = expected
  /\ schedules' = [schedules EXCEPT ![s] =
       [enabled |-> enabled, interval |-> interval, next |-> next,
        version |-> expected + 1]]
  /\ UNCHANGED runs

SetNextRun(s, t) ==
  /\ schedules[s].version # 0
  /\ schedules' = [schedules EXCEPT ![s].next = t]
  /\ UNCHANGED runs

-----------------------------------------------------------------------------
(* Runs.                                                                   *)

CreateRun(r, s, kind, queuedAt, maxAttempts) ==
  /\ ~Exists(r)
  /\ s = NoSchedule \/ (s \in Schedules /\ schedules[s].version # 0)
  /\ runs' = [runs EXCEPT ![r] =
       [schedule |-> s, kind |-> kind, status |-> "queued", attempt |-> 0,
        max_attempts |-> maxAttempts, queued_at |-> queuedAt,
        owner |-> NoWorker, expires |-> NoTime]]
  /\ UNCHANGED schedules

\* The unique index one_active_run_per_schedule would reject r as active.
SlotTaken(r) ==
  /\ runs[r].schedule # NoSchedule
  /\ \E q \in Runs \ {r} : IsActive(q) /\ runs[q].schedule = runs[r].schedule

\* Another worker holds a lease that the caller's clock does not see expired.
LiveLeaseOfOther(r, w, at) ==
  /\ IsActive(r)
  /\ runs[r].expires # NoTime
  /\ runs[r].expires > at
  /\ runs[r].owner # w

\* Mutant of CanClaim: the status is not looked at.
CanClaimFinished(r, w, at) ==
  Exists(r) /\ ~LiveLeaseOfOther(r, w, at) /\ ~SlotTaken(r)

CanClaim(r, w, at) ==
  /\ runs[r].status \in Claimable
  /\ ~LiveLeaseOfOther(r, w, at)
  /\ ~SlotTaken(r)

LeaseEnd(at, lease) == IF at + lease <= Horizon THEN at + lease ELSE Horizon

Count(n) == IF n < AttemptCap THEN n + 1 ELSE n

ClaimRun(r, w, at, lease) ==
  /\ CanClaim(r, w, at)
  /\ runs' = [runs EXCEPT ![r] =
       [@ EXCEPT !.status = "claimed", !.attempt = Count(runs[r].attempt),
                 !.owner = w, !.expires = LeaseEnd(at, lease)]]
  /\ UNCHANGED schedules

CanMark(r, w) == runs[r].status = "claimed" /\ runs[r].owner = w

MarkRunRunning(r, w) ==
  /\ CanMark(r, w)
  /\ runs' = [runs EXCEPT ![r].status = "running"]
  /\ UNCHANGED schedules

\* Mutants of Stale: the lease end is not compared; claimed rows are forgotten.
StaleWhileLeased(r, at) == IsActive(r) /\ runs[r].expires # NoTime

StaleIfRunning(r, at) ==
  /\ runs[r].status = "running"
  /\ runs[r].expires # NoTime
  /\ runs[r].expires <= at

Stale(r, at) ==
  /\ IsActive(r)
  /\ runs[r].expires # NoTime
  /\ runs[r].expires <= at

ReclaimStaleLeases(at) ==
  /\ runs' = [r \in Runs |->
       IF Stale(r, at)
       THEN [runs[r] EXCEPT !.status = "queued", !.owner = NoWorker,
                            !.expires = NoTime]
       ELSE runs[r]]
  /\ UNCHANGED schedules

\* An UPDATE by run_id alone: neither the status nor the owner is looked at.
RequeueRun(r, at) ==
  /\ Exists(r)
  /\ runs' = [runs EXCEPT ![r] =
       [@ EXCEPT !.status = "queued", !.queued_at = at, !.owner = NoWorker,
                 !.expires = NoTime]]
  /\ UNCHANGED schedules

\* An UPDATE by run_id alone, as RequeueRun.
FinalizeRun(r, status) ==
  /\ Exists(r)
  /\ runs' = [runs EXCEPT ![r] =
       [@ EXCEPT !.status = status, !.owner = NoWorker, !.expires = NoTime]]
  /\ UNCHANGED schedules

-----------------------------------------------------------------------------

DbNext ==
  \/ \E s \in Schedules, e \in BOOLEAN, i \in Intervals :
       \/ CreateSchedule(s, e, i)
       \/ \E t \in Times \cup {NoTime} :
            UpdateSchedule(s, schedules[s].version, t, e, i)
  \/ \E s \in Schedules, t \in Times \cup {NoTime} : SetNextRun(s, t)
  \/ \E r \in Runs, s \in Schedules \cup {NoSchedule}, k \in Kinds,
        at \in Times, m \in 1 .. AttemptCap : CreateRun(r, s, k, at, m)
  \/ \E r \in Runs, w \in Workers :
       \/ \E at \in Times, l \in Timeouts : ClaimRun(r, w, at, l)
       \/ MarkRunRunning(r, w)
  \/ \E at \in Times : ReclaimStaleLeases(at)
  \/ \E r \in Runs :
       \/ \E at \in Times : RequeueRun(r, at)
       \/ \E st \in Terminal : FinalizeRun(r, st)

DbSpec == DbInit /\ [][DbNext]_dbVars

-----------------------------------------------------------------------------
(* What the tables guarantee whoever the clients are.                      *)

\* Types of the two tables.
DbTypeOK ==
  /\ schedules \in [Schedules -> ScheduleRow]
  /\ runs \in [Runs -> RunRow]

\* At most one run of a schedule is claimed or running: what the partial
\* unique index one_active_run_per_schedule is there for.
OneActiveRunPerSchedule ==
  \A p, q \in Runs :
    /\ p # q
    /\ IsActive(p) /\ IsActive(q)
    /\ runs[p].schedule = runs[q].schedule
    => runs[p].schedule = NoSchedule

\* A row has an owner and a lease end exactly while it is claimed or running.
\* An active row without a lease end would be stuck: reclaim_stale_leases
\* never selects it, claim_run's lease check is vacuous for it, and the index
\* keeps its schedule's slot taken for ever.
LeaseMatchesStatus ==
  \A r \in Runs :
    /\ IsActive(r) <=> runs[r].owner # NoWorker
    /\ IsActive(r) <=> runs[r].expires # NoTime
===============================================================================
