-------------------------- MODULE WorkerSupervisor --------------------------
(***************************************************************************)
(* The supervisor that the Web application owns                            *)
(* (services/worker_supervisor.py): one caller thread that starts and      *)
(* stops it, one monitor thread for every start() that got a worker ready, *)
(* and the worker processes.  The threads share the fields of the object;  *)
(* each lock region, each system call and each database call is a step, so *)
(* a stop, a crash and a respawn interleave between any two of them.       *)
(***************************************************************************)
EXTENDS Integers, Sequences, FiniteSets

CONSTANTS
  MaxPids,        \* bound: processes that can be started
  MaxStarts,      \* bound: calls of start(), and of stop()
  Horizon,        \* bound: the last value of time.monotonic()
  MaxFaults,      \* bound: failed system and database calls, slow joins
  MaxRestarts,    \* max_restarts
  RestartWindow   \* restart_window_seconds, in clock units

ASSUME SupervisorConstants ==
  /\ MaxPids \in Nat /\ MaxStarts \in Nat /\ Horizon \in Nat
  /\ MaxFaults \in Nat /\ MaxRestarts \in Nat /\ RestartWindow \in Nat

Pids == 1..MaxPids
NoPid == 0            \* None in self.process
Caller == 0           \* the thread that runs the lifespan
Monitors == 1..MaxStarts
Threads == {Caller} \cup Monitors

VARIABLES
  \* the processes and their rows in worker_state
  child,              \* state of each process
  spawned,            \* how many were started; the newest has this pid
  row,                \* status column of each worker's row, "none" if no row
  latest,             \* the row with the newest heartbeat_at
  \* the fields of the WorkerSupervisor object
  process, shutting_down, ready, restart_times, restart_exhausted, stop_event,
  monitor_thread,
  \* the threads
  pc, hand,           \* where each thread is; its local variable `process`
  now, starts, stops, faults,
  \* history
  granted,            \* when the monitors were granted a restart since start();
                      \* restart_times is kept as the positions it has left of it
  reentered,          \* a start() went past its early return beside a monitor
  stopped             \* the last stop() has returned

childVars == <<child, spawned, row, latest>>
restartVars == <<restart_times, restart_exhausted, granted>>
callVars == <<starts, stops, reentered, stopped, monitor_thread>>
vars == <<childVars, restartVars, callVars, process, shutting_down, ready,
          stop_event, pc, hand, now, faults>>

SpawnPCs == {"popen", "assign", "await", "probe", "setready",
             "terminate", "reap", "discard"}
MonitorPCs == {"none", "wait", "read", "poll", "down", "budget", "mark_failed",
               "write_failed", "ended"}
StopPCs == {"stop_terminate", "stop_reap", "mark", "write", "join", "settle"}
CallerPCs == SpawnPCs \cup StopPCs \cup {"idle"}
PCs == CallerPCs \cup MonitorPCs

Init ==
  /\ child = [p \in Pids |-> "absent"] /\ spawned = 0
  /\ row = [p \in Pids |-> "none"] /\ latest = NoPid
  /\ process = NoPid
  /\ shutting_down = FALSE /\ ready = FALSE /\ stop_event = FALSE
  /\ restart_times = {} /\ restart_exhausted = FALSE /\ granted = <<>>
  /\ monitor_thread = Caller
  /\ pc = [t \in Threads |-> IF t = Caller THEN "idle" ELSE "none"]
  /\ hand = [t \in Threads |-> NoPid]
  /\ now = 0 /\ starts = 0 /\ stops = 0 /\ faults = 0
  /\ reentered = FALSE /\ stopped = FALSE

-----------------------------------------------------------------------------
(* Shared notions.                                                         *)

\* poll() is None; a process that got SIGTERM lives on until it exits.
Lives(p) == p # NoPid /\ child[p] \in {"alive", "termed"}

NoneAlive == \A p \in Pids : ~Lives(p)

Monitoring(m) == pc[m] \notin {"none", "ended"}

Attended == \E m \in Monitors : Monitoring(m)

\* A monitor that has used up its restarts writes to the database while it
\* holds the lock; every other lock region is one step.
LockFree == \A t \in Threads : pc[t] \notin {"mark_failed", "write_failed"}

Goto(t, label) == pc' = [pc EXCEPT ![t] = label]

\* An exception leaves start() or stop(), or ends the monitor thread.
Escape(t) == Goto(t, IF t = Caller THEN "idle" ELSE "ended")

Fault == faults < MaxFaults /\ faults' = faults + 1

-----------------------------------------------------------------------------
(* The worker processes.                                                   *)

\* worker_state() returns the row with the newest heartbeat; both writers of a
\* row put the current time there.
WriteRow(p, status) ==
  /\ row' = [row EXCEPT ![p] = status]
  /\ latest' = p

\* refresh_worker_heartbeat in tick(); a tick goes on after SIGTERM.
Heartbeat(p) ==
  /\ Lives(p)
  /\ WriteRow(p, "ready")
  /\ UNCHANGED <<child, spawned, restartVars, callVars, process, shutting_down,
                 ready, stop_event, pc, hand, now, faults>>

\* run_forever returns: record_worker_stop is an UPDATE, so it does nothing
\* for a worker without a row.
ChildExits(p) ==
  /\ child[p] = "termed"
  /\ child' = [child EXCEPT ![p] = "dead"]
  /\ IF row[p] = "none" THEN UNCHANGED <<row, latest>>
                        ELSE WriteRow(p, "stopped")
  /\ UNCHANGED <<spawned, restartVars, callVars, process, shutting_down, ready,
                 stop_event, pc, hand, now, faults>>

\* SIGKILL from outside, or an exception that leaves tick().
ChildDies(p) ==
  /\ Lives(p)
  /\ child' = [child EXCEPT ![p] = "dead"]
  /\ UNCHANGED <<spawned, row, latest, restartVars, callVars, process,
                 shutting_down, ready, stop_event, pc, hand, now, faults>>

ClockTick ==
  /\ now < Horizon
  /\ now' = now + 1
  /\ UNCHANGED <<childVars, restartVars, callVars, process, shutting_down,
                 ready, stop_event, pc, hand, faults>>

-----------------------------------------------------------------------------
(* start() up to the spawn.                                                *)

StartAgain ==                                              \* the early return
  /\ pc[Caller] = "idle" /\ starts < MaxStarts /\ LockFree
  /\ Lives(process)
  /\ starts' = starts + 1
  /\ UNCHANGED <<childVars, restartVars, stops, reentered, stopped,
                 monitor_thread, process, shutting_down, ready, stop_event, pc,
                 hand, now, faults>>

Start ==
  /\ pc[Caller] = "idle" /\ starts < MaxStarts /\ LockFree
  /\ ~Lives(process)
  /\ shutting_down' = FALSE /\ ready' = FALSE /\ stop_event' = FALSE
  /\ restart_times' = {} /\ restart_exhausted' = FALSE
  /\ granted' = <<>>
  /\ Goto(Caller, "popen")
  /\ starts' = starts + 1
  /\ reentered' = (reentered \/ Attended)
  /\ stopped' = FALSE
  /\ UNCHANGED <<childVars, stops, monitor_thread, process, hand, now, faults>>

-----------------------------------------------------------------------------
(* _spawn_and_wait_ready, run by the caller or by a monitor.               *)

Popen(t) ==
  /\ pc[t] = "popen" /\ spawned < MaxPids
  /\ spawned' = spawned + 1
  /\ child' = [child EXCEPT ![spawned'] = "alive"]
  /\ hand' = [hand EXCEPT ![t] = spawned']
  /\ Goto(t, "assign")
  /\ UNCHANGED <<row, latest, restartVars, callVars, process, shutting_down,
                 ready, stop_event, now, faults>>

\* OSError from Popen: there is no process, and nobody catches it.
PopenFails(t) ==
  /\ pc[t] = "popen"
  /\ Fault
  /\ Escape(t)
  /\ UNCHANGED <<childVars, restartVars, callVars, process, shutting_down,
                 ready, stop_event, hand, now>>

Assign(t) ==
  /\ pc[t] = "assign" /\ LockFree
  /\ process' = hand[t]
  /\ Goto(t, "await")
  /\ UNCHANGED <<childVars, restartVars, callVars, shutting_down, ready,
                 stop_event, hand, now, faults>>

\* Mutant of MayProbe: the loop looks only at its deadline.
MayProbeAlways == TRUE

MayProbe == ~stop_event

\* The loop condition: the deadline is not over and nobody asked to stop.
Await(t) ==
  /\ pc[t] = "await" /\ MayProbe
  /\ Goto(t, "probe")
  /\ UNCHANGED <<childVars, restartVars, callVars, process, shutting_down,
                 ready, stop_event, hand, now, faults>>

\* Mutant of GiveUp: the process that is not ready is left alone.
GiveUpOnly(t) ==
  /\ pc[t] = "await"
  /\ Goto(t, "discard")
  /\ UNCHANGED <<childVars, restartVars, callVars, process, shutting_down,
                 ready, stop_event, hand, now, faults>>

\* The deadline may pass whenever the loop condition is evaluated.
GiveUp(t) ==
  /\ pc[t] = "await"
  /\ Goto(t, "terminate")
  /\ UNCHANGED <<childVars, restartVars, callVars, process, shutting_down,
                 ready, stop_event, hand, now, faults>>

Reported(p) == latest = p /\ row[p] = "ready"

\* worker_state(), then poll(): ready, exited, or once more round the loop.
Probe(t) ==
  /\ pc[t] = "probe"
  /\ \/ Reported(hand[t]) /\ Goto(t, "setready")
     \/ ~Reported(hand[t]) /\ ~Lives(hand[t]) /\ Goto(t, "terminate")
     \/ ~Reported(hand[t]) /\ Lives(hand[t]) /\ Goto(t, "await")
  /\ UNCHANGED <<childVars, restartVars, callVars, process, shutting_down,
                 ready, stop_event, hand, now, faults>>

\* worker_state() raises an sqlite3.Error.  Nobody terminates the child.
ProbeFails(t) ==
  /\ pc[t] = "probe"
  /\ Fault
  /\ Escape(t)
  /\ UNCHANGED <<childVars, restartVars, callVars, process, shutting_down,
                 ready, stop_event, hand, now>>

\* The normal return: a monitor goes back to its loop, start() goes on to
\* create and start its own monitor.
SetReady(t) ==
  /\ pc[t] = "setready" /\ LockFree
  /\ ready' = TRUE
  /\ IF t = Caller
       THEN /\ pc' = [pc EXCEPT ![t] = "idle", ![starts] = "wait"]
            /\ monitor_thread' = starts
       ELSE Goto(t, "wait") /\ UNCHANGED monitor_thread
  /\ UNCHANGED <<childVars, restartVars, starts, stops, reentered, stopped,
                 process, shutting_down, stop_event, hand, now, faults>>

\* _terminate: nothing for a process that has exited, else SIGTERM ...
Terminate(t, from, reaping, after) ==
  /\ pc[t] = from
  /\ \/ ~Lives(hand[t]) /\ Goto(t, after) /\ UNCHANGED child
     \/ /\ Lives(hand[t]) /\ Goto(t, reaping)
        /\ child' = [child EXCEPT ![hand[t]] = "termed"]
  /\ UNCHANGED <<spawned, row, latest, restartVars, callVars, process,
                 shutting_down, ready, stop_event, hand, now, faults>>

\* ... then it waits, and kills when stop_timeout is over.
Reap(t, from, after) ==
  /\ pc[t] = from
  /\ \/ ~Lives(hand[t]) /\ UNCHANGED child
     \/ Lives(hand[t]) /\ child' = [child EXCEPT ![hand[t]] = "dead"]
  /\ Goto(t, after)
  /\ UNCHANGED <<spawned, row, latest, restartVars, callVars, process,
                 shutting_down, ready, stop_event, hand, now, faults>>

\* Mutant of Discard: a monitor returns whenever a respawn fails.
DiscardAndEnd(t) ==
  /\ pc[t] = "discard" /\ LockFree
  /\ ready' = FALSE
  /\ process' = IF process = hand[t] THEN NoPid ELSE process
  /\ Goto(t, IF t = Caller THEN "idle" ELSE "ended")
  /\ UNCHANGED <<childVars, restartVars, callVars, shutting_down, stop_event,
                 hand, now, faults>>

\* The RuntimeError leaves start(); a monitor catches it and returns if the
\* stop event is set.
Discard(t) ==
  /\ pc[t] = "discard" /\ LockFree
  /\ ready' = FALSE
  /\ process' = IF process = hand[t] THEN NoPid ELSE process
  /\ Goto(t, IF t = Caller THEN "idle" ELSE IF stop_event THEN "ended" ELSE "wait")
  /\ UNCHANGED <<childVars, restartVars, callVars, shutting_down, stop_event,
                 hand, now, faults>>

-----------------------------------------------------------------------------
(* _monitor.                                                               *)

\* stop_event.wait(monitor_interval)
Wait(m) ==
  /\ pc[m] = "wait"
  /\ Goto(m, IF stop_event THEN "ended" ELSE "read")
  /\ UNCHANGED <<childVars, restartVars, callVars, process, shutting_down,
                 ready, stop_event, hand, now, faults>>

Read(m) ==
  /\ pc[m] = "read" /\ LockFree
  /\ hand' = [hand EXCEPT ![m] = process]
  /\ Goto(m, IF shutting_down THEN "ended" ELSE "poll")
  /\ UNCHANGED <<childVars, restartVars, callVars, process, shutting_down,
                 ready, stop_event, now, faults>>

Poll(m) ==
  /\ pc[m] = "poll"
  /\ Goto(m, IF Lives(hand[m]) THEN "wait" ELSE "down")
  /\ UNCHANGED <<childVars, restartVars, callVars, process, shutting_down,
                 ready, stop_event, hand, now, faults>>

\* Mutant of Down: the flag of the dead worker stays.
DownStillReady(m) ==
  /\ pc[m] = "down" /\ LockFree
  /\ Goto(m, "budget")
  /\ UNCHANGED <<childVars, restartVars, callVars, process, shutting_down,
                 ready, stop_event, hand, now, faults>>

Down(m) ==
  /\ pc[m] = "down" /\ LockFree
  /\ ready' = FALSE
  /\ Goto(m, "budget")
  /\ UNCHANGED <<childVars, restartVars, callVars, process, shutting_down,
                 stop_event, hand, now, faults>>

\* Mutant of Recent: the window is half open.
RecentOpen(times) == {i \in times : now - granted[i] < RestartWindow}

Recent(times) == {i \in times : now - granted[i] <= RestartWindow}

Restart(m) ==
  /\ pc[m] = "budget" /\ LockFree
  /\ Cardinality(Recent(restart_times)) < MaxRestarts
  /\ granted' = Append(granted, now)
  /\ restart_times' = Recent(restart_times) \cup {Len(granted')}
  /\ Goto(m, "popen")
  /\ UNCHANGED <<childVars, restart_exhausted, callVars, process,
                 shutting_down, ready, stop_event, hand, now, faults>>

Exhaust(m) ==
  /\ pc[m] = "budget" /\ LockFree
  /\ Cardinality(Recent(restart_times)) >= MaxRestarts
  /\ restart_times' = Recent(restart_times)
  /\ restart_exhausted' = TRUE
  /\ Goto(m, IF hand[m] = NoPid THEN "ended" ELSE "mark_failed")
  /\ UNCHANGED <<childVars, granted, callVars, process, shutting_down, ready,
                 stop_event, hand, now, faults>>

\* _mark_worker_state reads the newest row and gives up when it is another's;
\* it then writes by worker_id.
MarkRead(t, from, writing, after) ==
  /\ pc[t] = from
  /\ Goto(t, IF latest = hand[t] THEN writing ELSE after)
  /\ UNCHANGED <<childVars, restartVars, callVars, process, shutting_down,
                 ready, stop_event, hand, now, faults>>

MarkWrite(t, from, status, after) ==
  /\ pc[t] = from
  /\ WriteRow(hand[t], status)
  /\ Goto(t, after)
  /\ UNCHANGED <<child, spawned, restartVars, callVars, process, shutting_down,
                 ready, stop_event, hand, now, faults>>

\* Either call raises an sqlite3.Error; stop() then does not join its monitor.
MarkFails(t) ==
  /\ pc[t] \in {"mark", "write", "mark_failed", "write_failed"}
  /\ Fault
  /\ Escape(t)
  /\ UNCHANGED <<childVars, restartVars, callVars, process, shutting_down,
                 ready, stop_event, hand, now>>

-----------------------------------------------------------------------------
(* stop().                                                                 *)

\* Mutant of Stop: the event is left to the monitor's own check.
StopWithoutEvent ==
  /\ pc[Caller] = "idle" /\ stops < starts /\ LockFree
  /\ shutting_down' = TRUE /\ ready' = FALSE
  /\ hand' = [hand EXCEPT ![Caller] = process]
  /\ Goto(Caller, IF process = NoPid THEN "join" ELSE "stop_terminate")
  /\ stops' = stops + 1
  /\ UNCHANGED <<childVars, restartVars, starts, reentered, stopped,
                 monitor_thread, process, stop_event, now, faults>>

Stop ==
  /\ pc[Caller] = "idle" /\ stops < starts /\ LockFree
  /\ shutting_down' = TRUE /\ ready' = FALSE /\ stop_event' = TRUE
  /\ hand' = [hand EXCEPT ![Caller] = process]
  /\ Goto(Caller, IF process = NoPid THEN "join" ELSE "stop_terminate")
  /\ stops' = stops + 1
  /\ UNCHANGED <<childVars, restartVars, starts, reentered, stopped,
                 monitor_thread, process, now, faults>>

Join ==
  /\ pc[Caller] = "join"
  /\ monitor_thread # Caller => ~Monitoring(monitor_thread)
  /\ Goto(Caller, "settle")
  /\ UNCHANGED <<childVars, restartVars, callVars, process, shutting_down,
                 ready, stop_event, hand, now, faults>>

\* join(timeout=...) gives up on a monitor that is held up for long.
JoinTimesOut ==
  /\ pc[Caller] = "join"
  /\ Fault
  /\ Goto(Caller, "settle")
  /\ UNCHANGED <<childVars, restartVars, callVars, process, shutting_down,
                 ready, stop_event, hand, now>>

Settle ==
  /\ pc[Caller] = "settle" /\ LockFree
  /\ process' = IF process = hand[Caller] \/ ~Lives(process)
                  THEN NoPid ELSE process
  /\ Goto(Caller, "idle")
  /\ stopped' = TRUE
  /\ UNCHANGED <<childVars, restartVars, starts, stops, reentered,
                 monitor_thread, shutting_down, ready, stop_event, hand, now,
                 faults>>

-----------------------------------------------------------------------------

Children == \E p \in Pids : Heartbeat(p) \/ ChildExits(p) \/ ChildDies(p)

\* The steps a thread takes when nothing fails and no deadline passes.
Spawning(t) ==
  \/ Popen(t) \/ Assign(t) \/ Await(t) \/ Probe(t) \/ SetReady(t)
  \/ Terminate(t, "terminate", "reap", "discard")
  \/ Reap(t, "reap", "discard") \/ Discard(t)

MonitorStep(m) ==
  \/ Wait(m) \/ Read(m) \/ Poll(m) \/ Down(m) \/ Restart(m) \/ Exhaust(m)
  \/ MarkRead(m, "mark_failed", "write_failed", "ended")
  \/ MarkWrite(m, "write_failed", "failed", "ended")

StopStep ==
  \/ Terminate(Caller, "stop_terminate", "stop_reap", "mark")
  \/ Reap(Caller, "stop_reap", "mark")
  \/ MarkRead(Caller, "mark", "write", "join")
  \/ MarkWrite(Caller, "write", "stopped", "join")
  \/ Join \/ Settle

Failing(t) == PopenFails(t) \/ ProbeFails(t) \/ MarkFails(t)

Calls == StartAgain \/ Start \/ Stop

Next ==
  \/ Calls \/ StopStep \/ JoinTimesOut
  \/ \E t \in Threads : Spawning(t) \/ GiveUp(t) \/ Failing(t)
  \/ \E m \in Monitors : MonitorStep(m)
  \/ Children \/ ClockTick

Spec == Init /\ [][Next]_vars

\* Every thread keeps running, calls return, and the deadline of the readiness
\* loop, which is a finite number of rounds away, passes at last.  Nothing is
\* assumed of the children, of time or of the caller.
LiveSpec ==
  /\ Spec
  /\ WF_vars(StopStep)
  /\ \A t \in Threads : WF_vars(Spawning(t)) /\ SF_vars(GiveUp(t))
  /\ \A m \in Monitors : WF_vars(MonitorStep(m))

-----------------------------------------------------------------------------
(* Properties.                                                             *)

ChildType ==
  /\ child \in [Pids -> {"absent", "alive", "termed", "dead"}]
  /\ spawned \in 0..MaxPids
  /\ row \in [Pids -> {"none", "ready", "stopped", "failed"}]
  /\ latest \in Pids \cup {NoPid}

FieldType ==
  /\ process \in Pids \cup {NoPid}
  /\ shutting_down \in BOOLEAN /\ ready \in BOOLEAN /\ stop_event \in BOOLEAN
  /\ restart_exhausted \in BOOLEAN
  /\ monitor_thread \in Threads

ThreadType ==
  /\ pc \in [Threads -> PCs] /\ pc[Caller] \in CallerPCs
  /\ \A m \in Monitors : pc[m] \in SpawnPCs \cup MonitorPCs
  /\ hand \in [Threads -> Pids \cup {NoPid}]

CountType ==
  /\ now \in 0..Horizon /\ faults \in 0..MaxFaults
  /\ starts \in 0..MaxStarts /\ stops \in 0..MaxStarts
  /\ reentered \in BOOLEAN /\ stopped \in BOOLEAN

RestartType ==
  granted \in Seq(0..Horizon) /\ restart_times \subseteq DOMAIN granted

\* Every variable has its type; the caller's thread never runs the monitor's
\* loop, a monitor never runs stop().
TypeOK == ChildType /\ FieldType /\ ThreadType /\ CountType /\ RestartType

\* One worker per supervisor: unless start() was called for a dead worker while
\* a monitor was still there, no two children live at the same time, whatever
\* stop(), crashes and respawns do between each other's steps.
AtMostOneChild ==
  ~reentered =>
    \A p, q \in Pids : Lives(p) /\ Lives(q) => p = q

\* When stop() has returned and the monitor has ended, no child is left, even
\* one that the monitor was starting when stop() read self.process.
NoChildAfterStop ==
  (stopped /\ ~reentered /\ ~Attended) => NoneAlive

\* snapshot() says "ready" only of a worker that has reported itself, never of
\* its replacement that has not.
ReadyIsReported ==
  (~reentered /\ Lives(process) /\ ready) => row[process] # "none"

\* Since the last start(), any window holds at most MaxRestarts restarts,
\* although the monitor prunes its list before it counts.
BudgetKept ==
  \A i \in DOMAIN granted :
    i + MaxRestarts \in DOMAIN granted =>
      granted[i + MaxRestarts] - granted[i] > RestartWindow

\* A stop that has begun leaves no process, whether it returns, raises or gives
\* up on its monitor, unless the supervisor is started again.
ShutdownEmpties ==
  (shutting_down /\ ~reentered)
    ~> (NoneAlive \/ ~shutting_down \/ reentered)

\* While a monitor is there, a missing worker is replaced by a ready one, or
\* the restarts are used up, or somebody stops the supervisor; a monitor does
\* not end for any other reason than an exception nobody catches.
AbsenceEnds ==
  (Attended /\ ~Lives(process))
    ~> ((Lives(process) /\ ready) \/ restart_exhausted \/ shutting_down
        \/ (~Attended /\ faults > 0) \/ reentered)

=============================================================================
