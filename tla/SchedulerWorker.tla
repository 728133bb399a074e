--------------------------- MODULE SchedulerWorker ---------------------------
(***************************************************************************)
(* The scheduler worker (services/scheduler_worker.py) and the other       *)
(* processes that write the same tables: the Web application (schedule     *)
(* edits, run-now and ad-hoc jobs), `run_job` of the CLI and the import of *)
(* historical jobs.                                                        *)
(*                                                                         *)
(* tick() is not one step: every database call of it is, so workers, time, *)
(* crashes and the other clients interleave between any two of them.  The  *)
(* clock value a tick compares and writes is the one it read on entry.     *)
(***************************************************************************)
EXTENDS OperationsDb, FiniteSets

CONSTANTS
  Callers,       \* processes that insert a run and finalize it themselves
  NoRun,         \* "no run in hand"
  Policy,        \* missed_run_policy: "catch_up_once" or "skip_missed"
  RetryLimit,    \* retry_limit of the schedules
  Timeout,       \* timeout_seconds of the schedules
  DefaultLease,  \* lease_seconds of the worker, for runs without a schedule
  ListLimit,     \* the limit _claimable passes to list_runs
  MaxAlive,      \* how many worker processes may live at once
  MaxFaults,     \* bound: crashes, signals and failed inserts
  MaxVersion,    \* bound: versions of a schedule
  MaxManual      \* bound: runs not created by the scheduler

ASSUME WorkerConstants ==
  /\ NoRun \notin Runs
  /\ Policy \in {"catch_up_once", "skip_missed"}
  /\ RetryLimit \in Nat /\ ListLimit \in Nat
  /\ Timeout \in Timeouts /\ DefaultLease \in Timeouts
  /\ MaxAlive \in Nat /\ MaxFaults \in Nat
  /\ MaxVersion \in Nat /\ MaxManual \in Nat

VARIABLES
  now,           \* the clock all processes read
  pc,            \* where each worker is inside run_forever and tick
  stop,          \* "no", "signal" (SIGTERM, SIGINT) or "parent" (parent lost)
  observed,      \* the clock value the current tick works with
  due,           \* the schedules _queue_due_schedules has still to look at
  todo,          \* the claimable runs the tick has still to look at
  cur,           \* the run in hand
  tries,         \* claimed.attempt
  held,          \* run a caller will finalize
  edit,          \* what update_schedule read before its transaction
  faults,        \* faults so far
  slotOf,        \* history: the due time a scheduled run was created for
  span,          \* history: the interval of its schedule when it was due
  lost,          \* history: due times whose run was never inserted
  looked,        \* history: the clock value of the last look at a schedule
  lapsed         \* history: a worker was past its own lease at some time

localVars  == <<pc, stop, observed, due, todo, cur, tries>>
clientVars == <<held, edit>>
lookVars   == <<span, lost, looked>>
vars == <<dbVars, localVars, clientVars, now, faults, slotOf, lookVars, lapsed>>

NoEdit == [id |-> NoSchedule, version |-> 0, next |-> NoTime]

PCs == {"down", "idle", "reclaim", "list", "queue", "create", "loop",
        "claim", "mark", "execute"}

Init ==
  /\ DbInit
  /\ now = 0
  /\ pc = [w \in Workers |-> "down"]
  /\ stop = [w \in Workers |-> "no"]
  /\ observed = [w \in Workers |-> 0]
  /\ due = [w \in Workers |-> {}]
  /\ todo = [w \in Workers |-> {}]
  /\ cur = [w \in Workers |-> NoRun]
  /\ tries = [w \in Workers |-> 0]
  /\ held = [c \in Callers |-> NoRun]
  /\ edit = NoEdit
  /\ faults = 0
  /\ slotOf = [r \in Runs |-> NoTime]
  /\ span = [r \in Runs |-> 0]
  /\ lost = {}
  /\ looked = [s \in Schedules |-> NoTime]
  /\ lapsed = FALSE

-----------------------------------------------------------------------------
(* Leases as their holders see them.                                       *)

LeaseSeconds(r) ==
  IF runs[r].schedule = NoSchedule THEN DefaultLease ELSE Timeout

LeaseOf(w) == LeaseEnd(observed[w], LeaseSeconds(cur[w]))

\* Some worker is between the claim and the outcome of a run and its lease has
\* run out.
Holding(w) == pc[w] \in {"mark", "execute"}

PastLease == \E w \in Workers : Holding(w) /\ LeaseOf(w) <= now

NoteLapse == lapsed' = (lapsed \/ PastLease')

-----------------------------------------------------------------------------
(* The life of a worker process.                                           *)

Alive == {w \in Workers : pc[w] # "down"}

Spawn(w) ==
  /\ pc[w] = "down"
  /\ Cardinality(Alive) < MaxAlive
  /\ pc' = [pc EXCEPT ![w] = "idle"]
  /\ UNCHANGED <<dbVars, stop, observed, due, todo, cur, tries, clientVars,
                 now, faults, slotOf, lookVars>>
  /\ NoteLapse

\* The due time whose run w is about to insert.
Inserting(w) == {d \in due[w] : pc[w] = "create" /\ d.id = cur[w]}

\* The process is gone, whatever it was doing; its rows stay as they are.
GoDown(w) ==
  /\ pc' = [pc EXCEPT ![w] = "down"]
  /\ stop' = [stop EXCEPT ![w] = "no"]
  /\ observed' = [observed EXCEPT ![w] = 0]
  /\ due' = [due EXCEPT ![w] = {}]
  /\ todo' = [todo EXCEPT ![w] = {}]
  /\ cur' = [cur EXCEPT ![w] = NoRun]
  /\ tries' = [tries EXCEPT ![w] = 0]

\* SIGKILL (the supervisor's last resort), a power cut, or an exception that
\* leaves tick(), such as "database is locked".
Crash(w) ==
  /\ pc[w] # "down"
  /\ faults < MaxFaults
  /\ faults' = faults + 1
  /\ GoDown(w)
  /\ lost' = lost \cup Inserting(w)
  /\ UNCHANGED <<dbVars, clientVars, now, slotOf, span, looked>>
  /\ NoteLapse

\* A signal sets the Event at once; the loss of the parent is seen only by the
\* loop condition of run_forever, between two ticks.
StopRequested(w, why) ==
  /\ pc[w] # "down" /\ stop[w] = "no"
  /\ faults < MaxFaults
  /\ faults' = faults + 1
  /\ stop' = [stop EXCEPT ![w] = why]
  /\ UNCHANGED <<dbVars, pc, observed, due, todo, cur, tries, clientVars, now,
                 slotOf, lookVars>>
  /\ NoteLapse

Exit(w) ==
  /\ pc[w] = "idle" /\ stop[w] # "no"
  /\ GoDown(w)
  /\ UNCHANGED <<dbVars, clientVars, now, faults, slotOf, lookVars>>
  /\ NoteLapse

-----------------------------------------------------------------------------
(* tick(), first half: reclaim stale leases, queue what is due.            *)

Begin(w) ==
  /\ pc[w] = "idle" /\ stop[w] = "no"
  /\ pc' = [pc EXCEPT ![w] = "reclaim"]
  /\ observed' = [observed EXCEPT ![w] = now]
  /\ UNCHANGED <<dbVars, stop, due, todo, cur, tries, clientVars, now, faults,
                 slotOf, lookVars>>
  /\ NoteLapse

Reclaim(w) ==
  /\ pc[w] = "reclaim"
  /\ ReclaimStaleLeases(observed[w])
  /\ pc' = [pc EXCEPT ![w] = "list"]
  /\ UNCHANGED <<stop, observed, due, todo, cur, tries, clientVars, now,
                 faults, slotOf, lookVars>>
  /\ NoteLapse

Enabled == {s \in Schedules : schedules[s].version # 0 /\ schedules[s].enabled}

ListDue(w) ==
  /\ pc[w] = "list"
  /\ due' = [due EXCEPT ![w] =
       {[id |-> s, interval |-> schedules[s].interval,
         next |-> IF schedules[s].next = NoTime THEN observed[w]
                  ELSE schedules[s].next] : s \in Enabled}]
  /\ pc' = [pc EXCEPT ![w] = "queue"]
  /\ UNCHANGED <<dbVars, stop, observed, todo, cur, tries, clientVars, now,
                 faults, slotOf, lookVars>>
  /\ NoteLapse

\* due_decision: the last due time not after `at`, and the one after it.
LastDue(d, at)   == d.next + ((at - d.next) \div d.interval) * d.interval

\* Mutants of Following: the slot that fired stays due; the grid drifts to the
\* clock.
FollowingSame(d, at)     == LastDue(d, at)
FollowingDrift(d, at)    == at + d.interval
Following(d, at) == LastDue(d, at) + d.interval

NotDue(w, d) ==
  /\ pc[w] = "queue" /\ d \in due[w]
  /\ d.next > observed[w]
  /\ due' = [due EXCEPT ![w] = @ \ {d}]
  /\ looked' = [looked EXCEPT ![d.id] = observed[w]]
  /\ UNCHANGED <<dbVars, pc, stop, observed, todo, cur, tries, clientVars, now,
                 faults, slotOf, span, lost>>
  /\ NoteLapse

\* set_schedule_next_run commits before the run is created; under skip_missed
\* no run is created at all.
Advance(w, d) ==
  /\ pc[w] = "queue" /\ d \in due[w]
  /\ d.next <= observed[w]
  /\ SetNextRun(d.id, Following(d, observed[w]))
  /\ IF Policy = "catch_up_once"
     THEN /\ due' = [due EXCEPT ![w] = (@ \ {d}) \cup
                       {[d EXCEPT !.next = LastDue(d, observed[w])]}]
          /\ pc' = [pc EXCEPT ![w] = "create"]
          /\ cur' = [cur EXCEPT ![w] = d.id]
     ELSE /\ due' = [due EXCEPT ![w] = @ \ {d}]
          /\ UNCHANGED <<pc, cur>>
  /\ looked' = [looked EXCEPT ![d.id] = observed[w]]
  /\ UNCHANGED <<stop, observed, todo, tries, clientVars, now, faults, slotOf,
                 span, lost>>
  /\ NoteLapse

CreateDue(w, r) ==
  /\ pc[w] = "create"
  /\ CreateRun(r, cur[w], "scheduled", observed[w], RetryLimit + 1)
  /\ \E d \in due[w] :
       /\ d.id = cur[w]
       /\ due' = [due EXCEPT ![w] = @ \ {d}]
       /\ slotOf' = [slotOf EXCEPT ![r] = d.next]
       /\ span' = [span EXCEPT ![r] = d.interval]
  /\ pc' = [pc EXCEPT ![w] = "queue"]
  /\ cur' = [cur EXCEPT ![w] = NoRun]
  /\ UNCHANGED <<stop, observed, todo, tries, clientVars, now, faults, lost,
                 looked>>
  /\ NoteLapse

\* create_run raised and the exception is swallowed: a locked database, or
\* (bound) the pool of run ids is used up.
CreateFails(w) ==
  /\ pc[w] = "create"
  /\ \/ faults < MaxFaults /\ faults' = faults + 1
     \/ (\A r \in Runs : Exists(r)) /\ UNCHANGED faults
  /\ due' = [due EXCEPT ![w] = {d \in @ : d.id # cur[w]}]
  /\ lost' = lost \cup Inserting(w)
  /\ pc' = [pc EXCEPT ![w] = "queue"]
  /\ cur' = [cur EXCEPT ![w] = NoRun]
  /\ UNCHANGED <<dbVars, stop, observed, todo, tries, clientVars, now, slotOf,
                 span, looked>>
  /\ NoteLapse

-----------------------------------------------------------------------------
(* tick(), second half: claim and execute.                                 *)

\* The rows a listing by queued_at DESC with a LIMIT may return: finished rows
\* count too, and SQLite orders equal timestamps as it likes.
IsListing(L) ==
  LET rows == {r \in Runs : Exists(r)} IN
  /\ L \subseteq rows
  /\ \/ L = rows /\ Cardinality(rows) <= ListLimit
     \/ Cardinality(rows) > ListLimit /\ Cardinality(L) = ListLimit
  /\ \A p \in L, q \in rows \ L : runs[p].queued_at >= runs[q].queued_at

ListClaimable(w) ==
  /\ pc[w] = "queue" /\ due[w] = {}
  /\ \E L \in SUBSET Runs :
       /\ IsListing(L)
       /\ todo' = [todo EXCEPT ![w] =
            {r \in L : /\ runs[r].status = "queued"
                       /\ \/ runs[r].kind = "manual"
                          \/ runs[r].queued_at <= observed[w]}]
  /\ pc' = [pc EXCEPT ![w] = "loop"]
  /\ UNCHANGED <<dbVars, stop, observed, due, cur, tries, clientVars, now,
                 faults, slotOf, lookVars>>
  /\ NoteLapse

Take(w, r) ==
  /\ pc[w] = "loop" /\ stop[w] # "signal"
  /\ r \in todo[w]
  /\ todo' = [todo EXCEPT ![w] = @ \ {r}]
  /\ cur' = [cur EXCEPT ![w] = r]
  /\ pc' = [pc EXCEPT ![w] = "claim"]
  /\ UNCHANGED <<dbVars, stop, observed, due, tries, clientVars, now, faults,
                 slotOf, lookVars>>
  /\ NoteLapse

EndTick(w) ==
  /\ pc[w] = "loop"
  /\ todo[w] = {} \/ stop[w] = "signal"
  /\ todo' = [todo EXCEPT ![w] = {}]
  /\ observed' = [observed EXCEPT ![w] = 0]
  /\ pc' = [pc EXCEPT ![w] = "idle"]
  /\ UNCHANGED <<dbVars, stop, due, cur, tries, clientVars, now,
                 faults, slotOf, lookVars>>
  /\ NoteLapse

\* The lease is counted from the start of the tick, not from the claim.
Claim(w) ==
  /\ pc[w] = "claim"
  /\ ClaimRun(cur[w], w, observed[w], LeaseSeconds(cur[w]))
  /\ tries' = [tries EXCEPT ![w] = runs'[cur[w]].attempt]
  /\ pc' = [pc EXCEPT ![w] = "mark"]
  /\ UNCHANGED <<stop, observed, due, todo, cur, clientVars, now, faults,
                 slotOf, lookVars>>
  /\ NoteLapse

ClaimRefused(w) ==
  /\ pc[w] = "claim"
  /\ ~CanClaim(cur[w], w, observed[w])
  /\ cur' = [cur EXCEPT ![w] = NoRun]
  /\ pc' = [pc EXCEPT ![w] = "loop"]
  /\ UNCHANGED <<dbVars, stop, observed, due, todo, tries, clientVars, now,
                 faults, slotOf, lookVars>>
  /\ NoteLapse

Mark(w) ==
  /\ pc[w] = "mark"
  /\ MarkRunRunning(cur[w], w)
  /\ pc' = [pc EXCEPT ![w] = "execute"]
  /\ UNCHANGED <<stop, observed, due, todo, cur, tries, clientVars, now,
                 faults, slotOf, lookVars>>
  /\ NoteLapse

\* ScheduleConflictError leaves tick() and run_forever: the process dies.
MarkConflict(w) ==
  /\ pc[w] = "mark"
  /\ ~CanMark(cur[w], w)
  /\ GoDown(w)
  /\ UNCHANGED <<dbVars, clientVars, now, faults, slotOf, lookVars>>
  /\ NoteLapse

\* Mutant of CanRetry: one attempt too many.
CanRetryOnceMore(w) ==
  /\ runs[cur[w]].schedule # NoSchedule
  /\ tries[w] <= runs[cur[w]].max_attempts

CanRetry(w) ==
  /\ runs[cur[w]].schedule # NoSchedule
  /\ tries[w] < runs[cur[w]].max_attempts

\* The job has returned or raised.  Its outcome is written with no look at
\* who owns the row by now.
Finish(w, outcome) ==
  /\ pc[w] = "execute"
  /\ IF outcome = "failed" /\ CanRetry(w)
     THEN RequeueRun(cur[w], now)
     ELSE FinalizeRun(cur[w], outcome)
  /\ pc' = [pc EXCEPT ![w] = "loop"]
  /\ cur' = [cur EXCEPT ![w] = NoRun]
  /\ tries' = [tries EXCEPT ![w] = 0]
  /\ UNCHANGED <<stop, observed, due, todo, clientVars, now, faults, slotOf, lookVars>>
  /\ NoteLapse

WorkerStep(w) ==
  \/ Exit(w) \/ Begin(w) \/ Reclaim(w) \/ ListDue(w)
  \/ \E d \in due[w] : NotDue(w, d) \/ Advance(w, d)
  \/ \E r \in Runs : CreateDue(w, r)
  \/ CreateFails(w)
  \/ ListClaimable(w)
  \/ \E r \in todo[w] : Take(w, r)
  \/ EndTick(w) \/ Claim(w) \/ ClaimRefused(w) \/ Mark(w) \/ MarkConflict(w)
  \/ \E o \in {"success", "failed"} : Finish(w, o)

-----------------------------------------------------------------------------
(* The other clients of the tables.                                        *)

WebCreateSchedule(s, enabled, interval) ==
  /\ CreateSchedule(s, enabled, interval)
  /\ UNCHANGED <<localVars, clientVars, now, faults, slotOf, lookVars>>
  /\ NoteLapse

EditRead(s) ==
  /\ edit = NoEdit
  /\ schedules[s].version \in 1 .. MaxVersion - 1
  /\ edit' = [id |-> s, version |-> schedules[s].version,
              next |-> schedules[s].next]
  /\ UNCHANGED <<dbVars, localVars, held, now, faults, slotOf, lookVars>>
  /\ NoteLapse

EditWrite(enabled, interval) ==
  /\ edit # NoEdit
  /\ UpdateSchedule(edit.id, edit.version, edit.next, enabled, interval)
  /\ edit' = NoEdit
  /\ UNCHANGED <<localVars, held, now, faults, slotOf, lookVars>>
  /\ NoteLapse

MoreManual ==
  Cardinality({r \in Runs : Exists(r) /\ runs[r].kind # "scheduled"}) < MaxManual

\* queue_manual_run ("run now") and enqueue_job_request (an ad-hoc job).
WebQueueRun(r, s) ==
  /\ MoreManual
  /\ CreateRun(r, s, "manual", now, IF s = NoSchedule THEN 1 ELSE RetryLimit + 1)
  /\ UNCHANGED <<localVars, clientVars, now, faults, slotOf, lookVars>>
  /\ NoteLapse

\* run_job inserts a queued manual run and then executes it in this process;
\* the history import inserts a queued run dated in the past and then writes
\* its old outcome.
CallerCreate(c, r, kind, at) ==
  /\ held[c] = NoRun /\ MoreManual
  /\ kind = "manual" => at = now
  /\ CreateRun(r, NoSchedule, kind, at, 1)
  /\ held' = [held EXCEPT ![c] = r]
  /\ UNCHANGED <<localVars, edit, now, faults, slotOf, lookVars>>
  /\ NoteLapse

CallerFinalize(c, status) ==
  /\ held[c] # NoRun
  /\ runs[held[c]].kind = "manual" => status \in {"success", "failed"}
  /\ FinalizeRun(held[c], status)
  /\ held' = [held EXCEPT ![c] = NoRun]
  /\ UNCHANGED <<localVars, edit, now, faults, slotOf, lookVars>>
  /\ NoteLapse

CallerDies(c) ==
  /\ held[c] # NoRun
  /\ faults < MaxFaults
  /\ faults' = faults + 1
  /\ held' = [held EXCEPT ![c] = NoRun]
  /\ UNCHANGED <<dbVars, localVars, edit, now, slotOf, lookVars>>
  /\ NoteLapse

ClientStep ==
  \/ \E s \in Schedules, e \in BOOLEAN, i \in Intervals : WebCreateSchedule(s, e, i)
  \/ \E s \in Schedules : EditRead(s)
  \/ \E e \in BOOLEAN, i \in Intervals : EditWrite(e, i)
  \/ \E r \in Runs, s \in Schedules \cup {NoSchedule} : WebQueueRun(r, s)
  \/ \E c \in Callers, r \in Runs, k \in {"manual", "historical"},
        at \in {0, now} : CallerCreate(c, r, k, at)
  \/ \E c \in Callers, st \in Terminal : CallerFinalize(c, st)
  \/ \E c \in Callers : CallerDies(c)

ClockTick ==
  /\ now < Horizon
  /\ now' = now + 1
  /\ UNCHANGED <<dbVars, localVars, clientVars, faults, slotOf, lookVars>>
  /\ NoteLapse

-----------------------------------------------------------------------------

Next ==
  \/ \E w \in Workers :
       \/ WorkerStep(w) \/ Spawn(w) \/ Crash(w)
       \/ \E why \in {"signal", "parent"} : StopRequested(w, why)
  \/ ClientStep
  \/ ClockTick

Spec == Init /\ [][Next]_vars

\* A live worker keeps going and its jobs return; the supervisor replaces a
\* dead worker; time passes.  Nothing is assumed of clients and faults.
Fairness ==
  /\ \A w \in Workers : WF_vars(WorkerStep(w))
  /\ WF_vars(\E w \in Workers : Spawn(w))
  /\ WF_vars(ClockTick)

LiveSpec == Spec /\ Fairness
-----------------------------------------------------------------------------
(* Properties.                                                             *)

DueRecord == [id : Schedules, interval : Nat \ {0}, next : Nat]

ControlTypeOK ==
  /\ now \in Nat
  /\ pc \in [Workers -> PCs]
  /\ stop \in [Workers -> {"no", "signal", "parent"}]
  /\ observed \in [Workers -> Nat]
  /\ tries \in [Workers -> Nat]
  /\ held \in [Callers -> Runs \cup {NoRun}]
  /\ faults \in Nat
  /\ slotOf \in [Runs -> Nat \cup {NoTime}]

LookTypeOK ==
  /\ span \in [Runs -> Nat]
  /\ lost \subseteq DueRecord
  /\ looked \in [Schedules -> Nat \cup {NoTime}]

WorkListTypeOK ==
  /\ due \in [Workers -> SUBSET DueRecord]
  /\ todo \in [Workers -> SUBSET Runs]

HandTypeOK ==
  /\ cur \in [Workers -> Runs \cup Schedules \cup {NoRun}]
  /\ \A w \in Workers :
       /\ pc[w] = "create" => cur[w] \in Schedules
       /\ pc[w] = "claim" \/ Holding(w) => cur[w] \in Runs

EditTypeOK ==
  edit \in {NoEdit} \cup
    [id : Schedules, version : Nat, next : Nat \cup {NoTime}]

\* Types of all variables; in "create" the thing in hand is a schedule, in
\* "claim", "mark" and "execute" it is a run.
TypeOK ==
  /\ DbTypeOK
  /\ ControlTypeOK
  /\ WorkListTypeOK
  /\ HandTypeOK
  /\ EditTypeOK
  /\ LookTypeOK
  /\ lapsed \in BOOLEAN

ScheduleOf(w) == runs[cur[w]].schedule

\* Two workers execute jobs of the same schedule at the same time.
Overlap ==
  \E v, w \in Workers :
    /\ v # w
    /\ pc[v] = "execute" /\ pc[w] = "execute"
    /\ ScheduleOf(v) = ScheduleOf(w)
    /\ ScheduleOf(v) # NoSchedule

\* Whatever the number of live workers, crashes, edits and other clients, two
\* jobs of a schedule run at once, or a worker executes a run that the table
\* does not show as running under its name, only after some worker has been
\* past the end of its own lease.  (scheduler_worker.tick, claim_run,
\* reclaim_stale_leases, finalize_run.)
OverlapNeedsLapse ==
  ~lapsed =>
    /\ ~Overlap
    /\ \A w \in Workers :
         pc[w] = "execute" /\ ScheduleOf(w) # NoSchedule =>
           runs[cur[w]].status = "running" /\ runs[cur[w]].owner = w

\* A finished run of a schedule keeps its outcome: no worker requeues, reruns
\* or refinalizes it, unless some lease has lapsed.  (requeue_run and
\* finalize_run write by run id alone.)
FinishedStaysFinished ==
  [][~lapsed' =>
       \A r \in Runs :
         runs[r].schedule # NoSchedule /\ runs[r].status \in Terminal =>
           runs'[r] = runs[r]]_vars

\* Whatever crashes, signals and restarts of the one live worker do, every
\* further run of a due time costs an edit of the schedule: a due time gets at
\* most as many runs as the schedule has versions.  (_queue_due_schedules,
\* due_decision, update_schedule.)
DuplicatesNeedEdits ==
  \A s \in Schedules, t \in 0 .. Horizon :
    Cardinality({r \in Runs : runs[r].schedule = s /\ slotOf[r] = t})
      <= schedules[s].version

\* The due times that have a run, are about to get it, or lost it to a crash or
\* a failed insert between the commit that moves next_run_at on and the one
\* that inserts the run.
Served ==
  {[id |-> runs[r].schedule, interval |-> span[r], next |-> slotOf[r]] :
     r \in {r \in Runs : slotOf[r] # NoTime}}
  \cup lost \cup UNION {Inserting(w) : w \in Workers}

\* Whenever a tick of the one live worker looks at an enabled schedule, a due
\* time less than an interval ago has its run, is about to get it, or lost it in
\* the window between the two commits.  So under catch_up_once a due time goes
\* without a run only when no tick looked at the schedule before the next one,
\* as in an outage of several intervals, or when a crash or a failing insert
\* hit that window: late ticks, restarts and edits skip nothing else.
\* (_queue_due_schedules, due_decision.)
DueTimesServed ==
  \A s \in Schedules : looked[s] # NoTime =>
    \E d \in Served : /\ d.id = s
                      /\ d.next <= looked[s] /\ looked[s] < d.next + d.interval

\* The attempts of a run stay within retry_limit + 1 as long as no lease has
\* lapsed and nothing has crashed: only a reclaimed run is tried beyond it.
RetriesBounded ==
  ~lapsed /\ faults = 0 =>
    \A r \in Runs : Exists(r) => runs[r].attempt <= runs[r].max_attempts

\* Every run that is queued, or claimed by a process that is gone, is brought
\* to an outcome in the end.
RunsFinish ==
  \A r \in Runs : (runs[r].status \in Claimable) ~> (runs[r].status \in Terminal)
===============================================================================
