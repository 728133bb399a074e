---------------------- MODULE WorkerSupervisorProofs ----------------------
(***************************************************************************)
(* Theorems about WorkerSupervisor, for any number of processes, starts    *)
(* and faults and for any restart policy.                                  *)
(***************************************************************************)
EXTENDS WorkerSupervisor, FiniteSetTheorems, TLAPS

Types == ChildType /\ FieldType /\ ThreadType /\ CountType

\* Pids are handed out in order, so a process that has ended stays ended.
PidsInv ==
  /\ \A p \in Pids : p > spawned => child[p] = "absent"
  /\ \A t \in Threads : hand[t] <= spawned
  /\ process <= spawned
  /\ \A t \in Threads :
       pc[t] \in {"assign", "await", "probe"} => hand[t] # NoPid

\* t may start a process or change self.process on the way to one.
Acting(t) ==
  IF t = Caller THEN pc[t] \in SpawnPCs ELSE Monitoring(t)

OneActor == \A t, u \in Threads : Acting(t) /\ Acting(u) => t = u

\* start() has been called before its thread is inside the spawn.
Counted == pc[Caller] \in SpawnPCs => starts > 0 /\ ~stopped

\* A process that lives is self.process, or its spawner is about to say so.
Seated ==
  \A p \in Pids : Lives(p) =>
    \/ p = process
    \/ \E t \in Threads : pc[t] = "assign" /\ hand[t] = p

\* A thread that will spawn has nobody beside it; one that has spawned has
\* only its own process.
Cleared ==
  \A t \in Threads :
    /\ pc[t] \in {"down", "budget", "popen"} => NoneAlive
    /\ pc[t] = "assign" => \A p \in Pids : Lives(p) => p = hand[t]
    /\ pc[t] \in {"poll", "await", "probe", "setready", "terminate", "reap",
                  "discard"} => process \in {hand[t], NoPid}

Reaped ==
  /\ \A t \in Threads : pc[t] = "discard" => ~Lives(hand[t])
  /\ pc[Caller] \in {"mark", "write", "join", "settle"} => ~Lives(hand[Caller])

\* Once stop() has read self.process, what lives is that process, until it is
\* reaped, or one that a monitor is bound to reap.
Doomed(p) ==
  \E m \in Monitors :
    pc[m] \in {"assign", "await", "terminate", "reap"} /\ hand[m] = p

StopSeen == pc[Caller] \in StopPCs \/ stopped => stop_event

StoppedDoomed == stopped => \A p \in Pids : Lives(p) => Doomed(p)

StoppingDoomed ==
  pc[Caller] \in StopPCs =>
    \A p \in Pids : Lives(p) =>
      \/ pc[Caller] \in {"stop_terminate", "stop_reap"} /\ p = hand[Caller]
      \/ Doomed(p)

Stopping == StopSeen /\ StoppedDoomed /\ StoppingDoomed

\* The ready flag is down while a spawn is under way and goes up only for a
\* process whose row has been seen.
FlagTrue == ready => process = NoPid \/ row[process] # "none"

FlagDown == \A t \in Threads : pc[t] \in SpawnPCs \cup {"budget"} => ~ready

RowSeen ==
  \A t \in Threads :
    pc[t] = "setready" => row[hand[t]] # "none" /\ hand[t] # NoPid

Flagged == FlagTrue /\ FlagDown /\ RowSeen

Inner == OneActor /\ Seated /\ Cleared /\ Reaped /\ Stopping /\ Flagged

IInv == Types /\ PidsInv /\ Counted /\ (~reentered => Inner)

-----------------------------------------------------------------------------

\* Every step keeps the types (those of the restart lists aside).
LEMMA TypesStep ==
  ASSUME Types, Counted, [Next]_vars
  PROVE  Types'
PROOF
<1> USE SupervisorConstants DEF Types, ChildType, FieldType, ThreadType,
      CountType, Pids, Threads, Monitors, NoPid, Caller, childVars,
      restartVars, callVars, Goto, Counted, Lives, PCs, CallerPCs, SpawnPCs,
      MonitorPCs, StopPCs
  <1>1. CASE StartAgain
    BY <1>1 DEF StartAgain
  <1>2. CASE Start
    <2>1. ChildType' BY <1>2 DEF Start, Lives
    <2>2. FieldType' BY <1>2 DEF Start, Lives
    <2>3. ThreadType' BY <1>2 DEF Start
    <2>4. CountType'
      <3>1. starts' \in 0..MaxStarts BY <1>2 DEF Start
      <3>2. reentered' \in BOOLEAN BY ONLY <1>2 DEF Start
      <3>3. QED BY <1>2, <3>1, <3>2 DEF Start
    <2>5. QED BY <2>1, <2>2, <2>3, <2>4 DEF Types
  <1>3. CASE Stop
    <2>1. ChildType' BY <1>3 DEF Stop, Lives
    <2>2. FieldType' BY <1>3 DEF Stop, Lives
    <2>3. ThreadType' BY <1>3 DEF Stop
    <2>4. CountType' BY <1>3 DEF Stop
    <2>5. QED BY <2>1, <2>2, <2>3, <2>4 DEF Types
  <1>4. CASE Terminate(Caller, "stop_terminate", "stop_reap", "mark")
    BY <1>4 DEF Terminate
  <1>5. CASE Reap(Caller, "stop_reap", "mark")
    BY <1>5 DEF Reap
  <1>6. CASE MarkRead(Caller, "mark", "write", "join")
    BY <1>6 DEF MarkRead
  <1>7. CASE MarkWrite(Caller, "write", "stopped", "join")
    BY <1>7 DEF MarkWrite, WriteRow
  <1>8. CASE Join
    BY <1>8 DEF Join
  <1>9. CASE Settle
    BY <1>9 DEF Settle
  <1>10. CASE JoinTimesOut
    BY <1>10 DEF JoinTimesOut, Fault
  <1>11. ASSUME NEW t \in Threads, Popen(t) PROVE Types'
    BY <1>11 DEF Popen
  <1>12. ASSUME NEW t \in Threads, Assign(t) PROVE Types'
    BY <1>12 DEF Assign
  <1>13. ASSUME NEW t \in Threads, Await(t) PROVE Types'
    BY <1>13 DEF Await, MayProbe
  <1>14. ASSUME NEW t \in Threads, Probe(t) PROVE Types'
    <2>1. pc[t] = "probe"
          /\ UNCHANGED <<row, process, ready, stop_event, hand, stopped>>
      BY <1>14 DEF Probe
    <2>2. CASE pc' = [pc EXCEPT ![t] = "setready"] /\ Reported(hand[t])
      BY <1>14, <2>1, <2>2 DEF Probe, Reported
    <2>3. CASE pc' = [pc EXCEPT ![t] = "terminate"]
      BY <1>14, <2>1, <2>3 DEF Probe
    <2>4. CASE pc' = [pc EXCEPT ![t] = "await"]
      BY <1>14, <2>1, <2>4 DEF Probe
    <2>5. QED BY <1>14, <2>2, <2>3, <2>4 DEF Probe
  <1>15. ASSUME NEW t \in Threads, SetReady(t) PROVE Types'
    <2>1. ChildType' BY <1>15 DEF SetReady, Lives
    <2>2. FieldType' BY <1>15 DEF SetReady, Lives
    <2>3. ThreadType' BY SMTT(30), <1>15 DEF SetReady
    <2>4. CountType' BY <1>15 DEF SetReady
    <2>5. QED BY <2>1, <2>2, <2>3, <2>4 DEF Types
  <1>16. ASSUME NEW t \in Threads, Terminate(t, "terminate", "reap", "discard")
       PROVE  Types'
    <2>1. ChildType' BY <1>16 DEF Terminate, Lives
    <2>2. FieldType' BY <1>16 DEF Terminate, Lives
    <2>3. ThreadType'
      <3>1. /\ UNCHANGED hand
            /\ \E x \in {"discard", "reap"} : pc' = [pc EXCEPT ![t] = x]
        BY <1>16 DEF Terminate
      <3>2. QED BY <1>16, <3>1 DEF Terminate
    <2>4. CountType' BY <1>16 DEF Terminate
    <2>5. QED BY <2>1, <2>2, <2>3, <2>4 DEF Types
  <1>17. ASSUME NEW t \in Threads, Reap(t, "reap", "discard") PROVE Types'
    <2>1. ChildType' BY <1>17 DEF Reap, Lives
    <2>2. FieldType' BY <1>17 DEF Reap, Lives
    <2>3. ThreadType' BY <1>17 DEF Reap
    <2>4. CountType' BY <1>17 DEF Reap
    <2>5. QED BY <2>1, <2>2, <2>3, <2>4 DEF Types
  <1>18. ASSUME NEW t \in Threads, Discard(t) PROVE Types'
    <2>1. ChildType' BY <1>18 DEF Discard, Lives
    <2>2. FieldType' BY <1>18 DEF Discard, Lives
    <2>3. ThreadType' BY <1>18 DEF Discard
    <2>4. CountType' BY <1>18 DEF Discard
    <2>5. QED BY <2>1, <2>2, <2>3, <2>4 DEF Types
  <1>19. ASSUME NEW t \in Threads, GiveUp(t) PROVE Types'
    BY <1>19 DEF GiveUp
  <1>20. ASSUME NEW t \in Threads, PopenFails(t) PROVE Types'
    BY <1>20 DEF PopenFails, Fault, Escape
  <1>21. ASSUME NEW t \in Threads, ProbeFails(t) PROVE Types'
    BY <1>21 DEF ProbeFails, Fault, Escape
  <1>22. ASSUME NEW t \in Threads, MarkFails(t) PROVE Types'
    BY <1>22 DEF MarkFails, Fault, Escape
  <1>23. ASSUME NEW m \in Monitors, Wait(m) PROVE Types'
    BY <1>23 DEF Wait
  <1>24. ASSUME NEW m \in Monitors, Read(m) PROVE Types'
    BY <1>24 DEF Read
  <1>25. ASSUME NEW m \in Monitors, Poll(m) PROVE Types'
    BY <1>25 DEF Poll
  <1>26. ASSUME NEW m \in Monitors, Down(m) PROVE Types'
    BY ZenonT(30), <1>26 DEF Down
  <1>27. ASSUME NEW m \in Monitors, Restart(m) PROVE Types'
    BY <1>27 DEF Restart
  <1>28. ASSUME NEW m \in Monitors, Exhaust(m) PROVE Types'
    BY <1>28 DEF Exhaust
  <1>29. ASSUME NEW m \in Monitors,
                MarkRead(m, "mark_failed", "write_failed", "ended")
       PROVE  Types'
    BY <1>29 DEF MarkRead
  <1>30. ASSUME NEW m \in Monitors,
                MarkWrite(m, "write_failed", "failed", "ended")
       PROVE  Types'
    BY ZenonT(30), <1>30 DEF MarkWrite, WriteRow
  <1>31. ASSUME NEW p \in Pids, Heartbeat(p) PROVE Types'
    BY <1>31 DEF Heartbeat, WriteRow
  <1>32. ASSUME NEW p \in Pids, ChildExits(p) PROVE Types'
    BY <1>32 DEF ChildExits, WriteRow
  <1>33. ASSUME NEW p \in Pids, ChildDies(p) PROVE Types'
    BY <1>33 DEF ChildDies
  <1>34. CASE ClockTick
    BY <1>34 DEF ClockTick
  <1>35. CASE UNCHANGED vars
    BY <1>35 DEF vars
<1>36. QED BY <1>1, <1>2, <1>3, <1>4, <1>5, <1>6, <1>7, <1>8, <1>9, <1>10,
      <1>11, <1>12, <1>13, <1>14, <1>15, <1>16, <1>17, <1>18, <1>19, <1>20,
      <1>21, <1>22, <1>23, <1>24, <1>25, <1>26, <1>27, <1>28, <1>29, <1>30,
      <1>31, <1>32, <1>33, <1>34, <1>35 DEF Next, Calls, StopStep, Spawning,
      Failing, MonitorStep, Children

\* Pids are handed out in order.
LEMMA PidsStep ==
  ASSUME Types, PidsInv, [Next]_vars
  PROVE  PidsInv'
PROOF
<1> USE SupervisorConstants DEF Types, ChildType, FieldType, ThreadType,
      CountType, Pids, Threads, Monitors, NoPid, Caller, childVars,
      restartVars, callVars, Goto, PidsInv, Lives
  <1>1. CASE StartAgain
    BY <1>1 DEF StartAgain
  <1>2. CASE Start
    BY <1>2 DEF Start
  <1>3. CASE Stop
    BY <1>3 DEF Stop
  <1>4. CASE Terminate(Caller, "stop_terminate", "stop_reap", "mark")
    BY SMTT(30), <1>4 DEF Terminate
  <1>5. CASE Reap(Caller, "stop_reap", "mark")
    BY <1>5 DEF Reap
  <1>6. CASE MarkRead(Caller, "mark", "write", "join")
    BY <1>6 DEF MarkRead
  <1>7. CASE MarkWrite(Caller, "write", "stopped", "join")
    BY <1>7 DEF MarkWrite, WriteRow
  <1>8. CASE Join
    BY <1>8 DEF Join
  <1>9. CASE Settle
    BY <1>9 DEF Settle
  <1>10. CASE JoinTimesOut
    BY <1>10 DEF JoinTimesOut, Fault
  <1>11. ASSUME NEW t \in Threads, Popen(t) PROVE PidsInv'
    BY <1>11 DEF Popen
  <1>12. ASSUME NEW t \in Threads, Assign(t) PROVE PidsInv'
    BY <1>12 DEF Assign
  <1>13. ASSUME NEW t \in Threads, Await(t) PROVE PidsInv'
    BY <1>13 DEF Await, MayProbe
  <1>14. ASSUME NEW t \in Threads, Probe(t) PROVE PidsInv'
    BY <1>14 DEF Probe, Reported
  <1>15. ASSUME NEW t \in Threads, SetReady(t) PROVE PidsInv'
    BY <1>15 DEF SetReady
  <1>16. ASSUME NEW t \in Threads, Terminate(t, "terminate", "reap", "discard")
       PROVE  PidsInv'
    BY <1>16 DEF Terminate
  <1>17. ASSUME NEW t \in Threads, Reap(t, "reap", "discard") PROVE PidsInv'
    BY <1>17 DEF Reap
  <1>18. ASSUME NEW t \in Threads, Discard(t) PROVE PidsInv'
    BY <1>18 DEF Discard
  <1>19. ASSUME NEW t \in Threads, GiveUp(t) PROVE PidsInv'
    BY <1>19 DEF GiveUp
  <1>20. ASSUME NEW t \in Threads, PopenFails(t) PROVE PidsInv'
    BY <1>20 DEF PopenFails, Fault, Escape
  <1>21. ASSUME NEW t \in Threads, ProbeFails(t) PROVE PidsInv'
    BY <1>21 DEF ProbeFails, Fault, Escape
  <1>22. ASSUME NEW t \in Threads, MarkFails(t) PROVE PidsInv'
    BY <1>22 DEF MarkFails, Fault, Escape
  <1>23. ASSUME NEW m \in Monitors, Wait(m) PROVE PidsInv'
    BY <1>23 DEF Wait
  <1>24. ASSUME NEW m \in Monitors, Read(m) PROVE PidsInv'
    BY <1>24 DEF Read
  <1>25. ASSUME NEW m \in Monitors, Poll(m) PROVE PidsInv'
    BY <1>25 DEF Poll
  <1>26. ASSUME NEW m \in Monitors, Down(m) PROVE PidsInv'
    BY <1>26 DEF Down
  <1>27. ASSUME NEW m \in Monitors, Restart(m) PROVE PidsInv'
    BY <1>27 DEF Restart
  <1>28. ASSUME NEW m \in Monitors, Exhaust(m) PROVE PidsInv'
    BY <1>28 DEF Exhaust
  <1>29. ASSUME NEW m \in Monitors,
                MarkRead(m, "mark_failed", "write_failed", "ended")
       PROVE  PidsInv'
    BY <1>29 DEF MarkRead
  <1>30. ASSUME NEW m \in Monitors,
                MarkWrite(m, "write_failed", "failed", "ended")
       PROVE  PidsInv'
    BY <1>30 DEF MarkWrite, WriteRow
  <1>31. ASSUME NEW p \in Pids, Heartbeat(p) PROVE PidsInv'
    BY <1>31 DEF Heartbeat, WriteRow
  <1>32. ASSUME NEW p \in Pids, ChildExits(p) PROVE PidsInv'
    BY <1>32 DEF ChildExits, WriteRow
  <1>33. ASSUME NEW p \in Pids, ChildDies(p) PROVE PidsInv'
    BY <1>33 DEF ChildDies
  <1>34. CASE ClockTick
    BY <1>34 DEF ClockTick
  <1>35. CASE UNCHANGED vars
    BY <1>35 DEF vars
<1>36. QED BY <1>1, <1>2, <1>3, <1>4, <1>5, <1>6, <1>7, <1>8, <1>9, <1>10,
      <1>11, <1>12, <1>13, <1>14, <1>15, <1>16, <1>17, <1>18, <1>19, <1>20,
      <1>21, <1>22, <1>23, <1>24, <1>25, <1>26, <1>27, <1>28, <1>29, <1>30,
      <1>31, <1>32, <1>33, <1>34, <1>35 DEF Next, Calls, StopStep, Spawning,
      Failing, MonitorStep, Children

\* The caller spawns only inside a counted start() that has not been stopped.
LEMMA CountedStep ==
  ASSUME Types, Counted, [Next]_vars
  PROVE  Counted'
PROOF
<1> USE SupervisorConstants DEF Types, ChildType, FieldType, ThreadType,
      CountType, Pids, Threads, Monitors, NoPid, Caller, childVars,
      restartVars, callVars, Goto, Counted, PCs, CallerPCs, SpawnPCs,
      MonitorPCs, StopPCs
  <1>1. CASE StartAgain
    BY <1>1 DEF StartAgain
  <1>2. CASE Start
    BY <1>2 DEF Start
  <1>3. CASE Stop
    BY <1>3 DEF Stop
  <1>4. CASE Terminate(Caller, "stop_terminate", "stop_reap", "mark")
    BY <1>4 DEF Terminate
  <1>5. CASE Reap(Caller, "stop_reap", "mark")
    BY <1>5 DEF Reap
  <1>6. CASE MarkRead(Caller, "mark", "write", "join")
    BY <1>6 DEF MarkRead
  <1>7. CASE MarkWrite(Caller, "write", "stopped", "join")
    BY <1>7 DEF MarkWrite, WriteRow
  <1>8. CASE Join
    BY <1>8 DEF Join
  <1>9. CASE Settle
    BY <1>9 DEF Settle
  <1>10. CASE JoinTimesOut
    BY <1>10 DEF JoinTimesOut, Fault
  <1>11. ASSUME NEW t \in Threads, Popen(t) PROVE Counted'
    BY <1>11 DEF Popen
  <1>12. ASSUME NEW t \in Threads, Assign(t) PROVE Counted'
    BY <1>12 DEF Assign
  <1>13. ASSUME NEW t \in Threads, Await(t) PROVE Counted'
    BY <1>13 DEF Await, MayProbe
  <1>14. ASSUME NEW t \in Threads, Probe(t) PROVE Counted'
    BY <1>14 DEF Probe, Reported
  <1>15. ASSUME NEW t \in Threads, SetReady(t) PROVE Counted'
    BY <1>15 DEF SetReady
  <1>16. ASSUME NEW t \in Threads, Terminate(t, "terminate", "reap", "discard")
       PROVE  Counted'
    BY <1>16 DEF Terminate
  <1>17. ASSUME NEW t \in Threads, Reap(t, "reap", "discard") PROVE Counted'
    BY <1>17 DEF Reap
  <1>18. ASSUME NEW t \in Threads, Discard(t) PROVE Counted'
    BY <1>18 DEF Discard
  <1>19. ASSUME NEW t \in Threads, GiveUp(t) PROVE Counted'
    BY <1>19 DEF GiveUp
  <1>20. ASSUME NEW t \in Threads, PopenFails(t) PROVE Counted'
    BY <1>20 DEF PopenFails, Fault, Escape
  <1>21. ASSUME NEW t \in Threads, ProbeFails(t) PROVE Counted'
    BY <1>21 DEF ProbeFails, Fault, Escape
  <1>22. ASSUME NEW t \in Threads, MarkFails(t) PROVE Counted'
    BY <1>22 DEF MarkFails, Fault, Escape
  <1>23. ASSUME NEW m \in Monitors, Wait(m) PROVE Counted'
    BY <1>23 DEF Wait
  <1>24. ASSUME NEW m \in Monitors, Read(m) PROVE Counted'
    BY <1>24 DEF Read
  <1>25. ASSUME NEW m \in Monitors, Poll(m) PROVE Counted'
    BY <1>25 DEF Poll
  <1>26. ASSUME NEW m \in Monitors, Down(m) PROVE Counted'
    BY <1>26 DEF Down
  <1>27. ASSUME NEW m \in Monitors, Restart(m) PROVE Counted'
    BY <1>27 DEF Restart
  <1>28. ASSUME NEW m \in Monitors, Exhaust(m) PROVE Counted'
    BY <1>28 DEF Exhaust
  <1>29. ASSUME NEW m \in Monitors,
                MarkRead(m, "mark_failed", "write_failed", "ended")
       PROVE  Counted'
    BY <1>29 DEF MarkRead
  <1>30. ASSUME NEW m \in Monitors,
                MarkWrite(m, "write_failed", "failed", "ended")
       PROVE  Counted'
    BY <1>30 DEF MarkWrite, WriteRow
  <1>31. ASSUME NEW p \in Pids, Heartbeat(p) PROVE Counted'
    BY <1>31 DEF Heartbeat, WriteRow
  <1>32. ASSUME NEW p \in Pids, ChildExits(p) PROVE Counted'
    BY <1>32 DEF ChildExits, WriteRow
  <1>33. ASSUME NEW p \in Pids, ChildDies(p) PROVE Counted'
    BY <1>33 DEF ChildDies
  <1>34. CASE ClockTick
    BY <1>34 DEF ClockTick
  <1>35. CASE UNCHANGED vars
    BY <1>35 DEF vars
<1>36. QED BY <1>1, <1>2, <1>3, <1>4, <1>5, <1>6, <1>7, <1>8, <1>9, <1>10,
      <1>11, <1>12, <1>13, <1>14, <1>15, <1>16, <1>17, <1>18, <1>19, <1>20,
      <1>21, <1>22, <1>23, <1>24, <1>25, <1>26, <1>27, <1>28, <1>29, <1>30,
      <1>31, <1>32, <1>33, <1>34, <1>35 DEF Next, Calls, StopStep, Spawning,
      Failing, MonitorStep, Children

\* At most one thread can start processes.
LEMMA OneActorStep ==
  ASSUME Types, PidsInv, Counted, Inner, ~reentered', [Next]_vars
  PROVE  OneActor'
PROOF
<1> USE SupervisorConstants DEF Types, ChildType, FieldType, ThreadType,
      CountType, Pids, Threads, Monitors, NoPid, Caller, childVars,
      restartVars, callVars, Goto, Counted, CallerPCs, StopPCs, SpawnPCs,
      Inner, OneActor, Acting, Monitoring, Attended
  <1>1. CASE StartAgain
    BY <1>1 DEF StartAgain
  <1>2. CASE Start
    BY <1>2 DEF Start
  <1>3. CASE Stop
    BY <1>3 DEF Stop
  <1>4. CASE Terminate(Caller, "stop_terminate", "stop_reap", "mark")
    <2>1. \A u \in Threads : Acting(u)' => Acting(u)
      BY <1>4 DEF Terminate
    <2>2. QED BY <2>1
  <1>5. CASE Reap(Caller, "stop_reap", "mark")
    BY <1>5 DEF Reap
  <1>6. CASE MarkRead(Caller, "mark", "write", "join")
    BY <1>6 DEF MarkRead
  <1>7. CASE MarkWrite(Caller, "write", "stopped", "join")
    BY <1>7 DEF MarkWrite, WriteRow
  <1>8. CASE Join
    BY <1>8 DEF Join
  <1>9. CASE Settle
    BY <1>9 DEF Settle
  <1>10. CASE JoinTimesOut
    BY <1>10 DEF JoinTimesOut, Fault
  <1>11. ASSUME NEW t \in Threads, Popen(t) PROVE OneActor'
    BY <1>11 DEF Popen
  <1>12. ASSUME NEW t \in Threads, Assign(t) PROVE OneActor'
    BY <1>12 DEF Assign
  <1>13. ASSUME NEW t \in Threads, Await(t) PROVE OneActor'
    BY <1>13 DEF Await, MayProbe
  <1>14. ASSUME NEW t \in Threads, Probe(t) PROVE OneActor'
    <2>1. \A u \in Threads : Acting(u)' => Acting(u)
      BY <1>14 DEF Probe, SpawnPCs
    <2>2. QED BY <2>1
  <1>15. ASSUME NEW t \in Threads, SetReady(t) PROVE OneActor'
    <2>1. CASE t = Caller
      <3>1. starts \in Monitors /\ ~Attended
        BY <1>15, <2>1 DEF SetReady, SpawnPCs
      <3>2. \A u \in Threads : u # starts => ~Acting(u)'
        BY <1>15, <2>1, <3>1 DEF SetReady, SpawnPCs
      <3>3. QED BY <3>2
    <2>2. CASE t # Caller
      <3>1. \A u \in Threads : Acting(u)' => Acting(u)
        BY <1>15, <2>2 DEF SetReady, SpawnPCs
      <3>2. QED BY <3>1
    <2>3. QED BY <2>1, <2>2
  <1>16. ASSUME NEW t \in Threads, Terminate(t, "terminate", "reap", "discard")
       PROVE  OneActor'
    <2>1. \A u \in Threads : Acting(u)' => Acting(u)
      BY <1>16 DEF Terminate
    <2>2. QED BY <2>1
  <1>17. ASSUME NEW t \in Threads, Reap(t, "reap", "discard") PROVE OneActor'
    BY <1>17 DEF Reap
  <1>18. ASSUME NEW t \in Threads, Discard(t) PROVE OneActor'
    BY <1>18 DEF Discard
  <1>19. ASSUME NEW t \in Threads, GiveUp(t) PROVE OneActor'
    BY <1>19 DEF GiveUp
  <1>20. ASSUME NEW t \in Threads, PopenFails(t) PROVE OneActor'
    BY <1>20 DEF PopenFails, Fault, Escape
  <1>21. ASSUME NEW t \in Threads, ProbeFails(t) PROVE OneActor'
    BY <1>21 DEF ProbeFails, Fault, Escape
  <1>22. ASSUME NEW t \in Threads, MarkFails(t) PROVE OneActor'
    BY <1>22 DEF MarkFails, Fault, Escape
  <1>23. ASSUME NEW m \in Monitors, Wait(m) PROVE OneActor'
    BY <1>23 DEF Wait
  <1>24. ASSUME NEW m \in Monitors, Read(m) PROVE OneActor'
    BY <1>24 DEF Read
  <1>25. ASSUME NEW m \in Monitors, Poll(m) PROVE OneActor'
    BY <1>25 DEF Poll
  <1>26. ASSUME NEW m \in Monitors, Down(m) PROVE OneActor'
    BY <1>26 DEF Down
  <1>27. ASSUME NEW m \in Monitors, Restart(m) PROVE OneActor'
    BY <1>27 DEF Restart
  <1>28. ASSUME NEW m \in Monitors, Exhaust(m) PROVE OneActor'
    BY <1>28 DEF Exhaust
  <1>29. ASSUME NEW m \in Monitors,
                MarkRead(m, "mark_failed", "write_failed", "ended")
       PROVE  OneActor'
    BY <1>29 DEF MarkRead
  <1>30. ASSUME NEW m \in Monitors,
                MarkWrite(m, "write_failed", "failed", "ended")
       PROVE  OneActor'
    BY <1>30 DEF MarkWrite, WriteRow
  <1>31. ASSUME NEW p \in Pids, Heartbeat(p) PROVE OneActor'
    BY <1>31 DEF Heartbeat, WriteRow
  <1>32. ASSUME NEW p \in Pids, ChildExits(p) PROVE OneActor'
    BY <1>32 DEF ChildExits, WriteRow
  <1>33. ASSUME NEW p \in Pids, ChildDies(p) PROVE OneActor'
    BY <1>33 DEF ChildDies
  <1>34. CASE ClockTick
    BY <1>34 DEF ClockTick
  <1>35. CASE UNCHANGED vars
    BY <1>35 DEF vars
<1>36. QED BY <1>1, <1>2, <1>3, <1>4, <1>5, <1>6, <1>7, <1>8, <1>9, <1>10,
      <1>11, <1>12, <1>13, <1>14, <1>15, <1>16, <1>17, <1>18, <1>19, <1>20,
      <1>21, <1>22, <1>23, <1>24, <1>25, <1>26, <1>27, <1>28, <1>29, <1>30,
      <1>31, <1>32, <1>33, <1>34, <1>35 DEF Next, Calls, StopStep, Spawning,
      Failing, MonitorStep, Children

\* What OneActor says of the labels.
ActingPCs == SpawnPCs \cup {"poll", "down", "budget"}

Alone ==
  \A t, u \in Threads : pc[t] \in ActingPCs /\ pc[u] \in ActingPCs => t = u

LEMMA ActingAlone ==
  ASSUME Types, OneActor
  PROVE  Alone
PROOF
  <1>1. \A t \in Threads : pc[t] \in ActingPCs => Acting(t)
    BY DEF Types, ThreadType, ActingPCs, Acting, Monitoring, CallerPCs, StopPCs,
           SpawnPCs, Threads, Monitors, Caller
  <1>2. QED BY <1>1 DEF OneActor, Alone

\* A process that lives is self.process, or about to be.
LEMMA SeatedStep ==
  ASSUME Types, PidsInv, Counted, Inner, ~reentered', [Next]_vars
  PROVE  Seated'
PROOF
<1> USE SupervisorConstants DEF Types, ChildType, FieldType, ThreadType,
      CountType, Pids, Threads, Monitors, NoPid, Caller, childVars,
      restartVars, callVars, Goto, SpawnPCs, ActingPCs, Alone, Inner,
      CallerPCs, StopPCs, Lives, NoneAlive, PidsInv, Seated, Reaped, Cleared
  <1> Alone BY ActingAlone DEF Inner
  <1>1. CASE StartAgain
    BY <1>1 DEF StartAgain
  <1>2. CASE Start
    BY <1>2 DEF Start
  <1>3. CASE Stop
    BY <1>3 DEF Stop
  <1>4. CASE Terminate(Caller, "stop_terminate", "stop_reap", "mark")
    <2>1. \A p \in Pids : Lives(p)' <=> Lives(p)
      BY <1>4 DEF Terminate
    <2>2. /\ pc[Caller] = "stop_terminate"
          /\ UNCHANGED <<row, process, ready, stop_event, hand, stopped,
                        spawned>>
      BY <1>4 DEF Terminate
    <2>3. CASE /\ pc' = [pc EXCEPT ![Caller] = "mark"]
               /\ ~Lives(hand[Caller])
      BY <2>1, <2>2, <2>3
    <2>4. CASE pc' = [pc EXCEPT ![Caller] = "stop_reap"]
      BY <2>1, <2>2, <2>4
    <2>5. QED BY <1>4, <2>3, <2>4 DEF Terminate
  <1>5. CASE Reap(Caller, "stop_reap", "mark")
    <2>1. \A p \in Pids : Lives(p)' <=> Lives(p) /\ p # hand[Caller]
      BY <1>5 DEF Reap
    <2>2. /\ pc[Caller] = "stop_reap"
          /\ UNCHANGED <<row, process, ready, stop_event, hand, stopped,
                        spawned>>
      BY <1>5 DEF Reap
    <2>3. pc' = [pc EXCEPT ![Caller] = "mark"]
      BY <1>5 DEF Reap
    <2>4. QED BY <2>1, <2>2, <2>3
  <1>6. CASE MarkRead(Caller, "mark", "write", "join")
    BY <1>6 DEF MarkRead
  <1>7. CASE MarkWrite(Caller, "write", "stopped", "join")
    BY <1>7 DEF MarkWrite, WriteRow
  <1>8. CASE Join
    BY <1>8 DEF Join
  <1>9. CASE Settle
    BY <1>9 DEF Settle
  <1>10. CASE JoinTimesOut
    BY <1>10 DEF JoinTimesOut, Fault
  <1>11. ASSUME NEW t \in Threads, Popen(t) PROVE Seated'
    BY <1>11 DEF Popen
  <1>12. ASSUME NEW t \in Threads, Assign(t) PROVE Seated'
    BY <1>12 DEF Assign
  <1>13. ASSUME NEW t \in Threads, Await(t) PROVE Seated'
    BY <1>13 DEF Await, MayProbe
  <1>14. ASSUME NEW t \in Threads, Probe(t) PROVE Seated'
    BY <1>14 DEF Probe, Reported
  <1>15. ASSUME NEW t \in Threads, SetReady(t) PROVE Seated'
    BY <1>15 DEF SetReady
  <1>16. ASSUME NEW t \in Threads, Terminate(t, "terminate", "reap", "discard")
       PROVE  Seated'
    <2>1. \A p \in Pids : Lives(p)' <=> Lives(p)
      BY <1>16 DEF Terminate
    <2>2. /\ pc[t] = "terminate"
          /\ UNCHANGED <<row, process, ready, stop_event, hand, stopped,
                        spawned>>
      BY <1>16 DEF Terminate
    <2>3. CASE /\ pc' = [pc EXCEPT ![t] = "discard"]
               /\ ~Lives(hand[t])
      BY <2>1, <2>2, <2>3
    <2>4. CASE pc' = [pc EXCEPT ![t] = "reap"]
      BY <2>1, <2>2, <2>4
    <2>5. QED BY <1>16, <2>3, <2>4 DEF Terminate
  <1>17. ASSUME NEW t \in Threads, Reap(t, "reap", "discard") PROVE Seated'
    <2>1. \A p \in Pids : Lives(p)' <=> Lives(p) /\ p # hand[t]
      BY <1>17 DEF Reap
    <2>2. /\ pc[t] = "reap"
          /\ UNCHANGED <<row, process, ready, stop_event, hand, stopped,
                        spawned>>
      BY <1>17 DEF Reap
    <2>3. pc' = [pc EXCEPT ![t] = "discard"]
      BY <1>17 DEF Reap
    <2>4. QED BY <2>1, <2>2, <2>3
  <1>18. ASSUME NEW t \in Threads, Discard(t) PROVE Seated'
    BY <1>18 DEF Discard
  <1>19. ASSUME NEW t \in Threads, GiveUp(t) PROVE Seated'
    BY <1>19 DEF GiveUp
  <1>20. ASSUME NEW t \in Threads, PopenFails(t) PROVE Seated'
    BY <1>20 DEF PopenFails, Fault, Escape
  <1>21. ASSUME NEW t \in Threads, ProbeFails(t) PROVE Seated'
    BY <1>21 DEF ProbeFails, Fault, Escape
  <1>22. ASSUME NEW t \in Threads, MarkFails(t) PROVE Seated'
    BY <1>22 DEF MarkFails, Fault, Escape
  <1>23. ASSUME NEW m \in Monitors, Wait(m) PROVE Seated'
    BY <1>23 DEF Wait
  <1>24. ASSUME NEW m \in Monitors, Read(m) PROVE Seated'
    BY <1>24 DEF Read
  <1>25. ASSUME NEW m \in Monitors, Poll(m) PROVE Seated'
    BY <1>25 DEF Poll
  <1>26. ASSUME NEW m \in Monitors, Down(m) PROVE Seated'
    BY <1>26 DEF Down
  <1>27. ASSUME NEW m \in Monitors, Restart(m) PROVE Seated'
    BY <1>27 DEF Restart
  <1>28. ASSUME NEW m \in Monitors, Exhaust(m) PROVE Seated'
    BY <1>28 DEF Exhaust
  <1>29. ASSUME NEW m \in Monitors,
                MarkRead(m, "mark_failed", "write_failed", "ended")
       PROVE  Seated'
    BY <1>29 DEF MarkRead
  <1>30. ASSUME NEW m \in Monitors,
                MarkWrite(m, "write_failed", "failed", "ended")
       PROVE  Seated'
    BY <1>30 DEF MarkWrite, WriteRow
  <1>31. ASSUME NEW p \in Pids, Heartbeat(p) PROVE Seated'
    BY <1>31 DEF Heartbeat, WriteRow
  <1>32. ASSUME NEW p \in Pids, ChildExits(p) PROVE Seated'
    BY <1>32 DEF ChildExits, WriteRow
  <1>33. ASSUME NEW p \in Pids, ChildDies(p) PROVE Seated'
    BY <1>33 DEF ChildDies
  <1>34. CASE ClockTick
    BY <1>34 DEF ClockTick
  <1>35. CASE UNCHANGED vars
    BY <1>35 DEF vars
<1>36. QED BY <1>1, <1>2, <1>3, <1>4, <1>5, <1>6, <1>7, <1>8, <1>9, <1>10,
      <1>11, <1>12, <1>13, <1>14, <1>15, <1>16, <1>17, <1>18, <1>19, <1>20,
      <1>21, <1>22, <1>23, <1>24, <1>25, <1>26, <1>27, <1>28, <1>29, <1>30,
      <1>31, <1>32, <1>33, <1>34, <1>35 DEF Next, Calls, StopStep, Spawning,
      Failing, MonitorStep, Children

\* _terminate does not return while the process lives.
LEMMA ReapedStep ==
  ASSUME Types, PidsInv, Counted, Inner, ~reentered', [Next]_vars
  PROVE  Reaped'
PROOF
<1> USE SupervisorConstants DEF Types, ChildType, FieldType, ThreadType,
      CountType, Pids, Threads, Monitors, NoPid, Caller, childVars,
      restartVars, callVars, Goto, Inner, StopPCs, CallerPCs, SpawnPCs,
      PidsInv, Reaped, Lives
  <1>1. CASE StartAgain
    BY <1>1 DEF StartAgain
  <1>2. CASE Start
    BY <1>2 DEF Start
  <1>3. CASE Stop
    BY <1>3 DEF Stop
  <1>4. CASE Terminate(Caller, "stop_terminate", "stop_reap", "mark")
    <2>1. \A p \in Pids : Lives(p)' <=> Lives(p)
      BY <1>4 DEF Terminate
    <2>2. /\ pc[Caller] = "stop_terminate"
          /\ UNCHANGED <<row, process, ready, stop_event, hand, stopped,
                        spawned>>
      BY <1>4 DEF Terminate
    <2>3. CASE /\ pc' = [pc EXCEPT ![Caller] = "mark"]
               /\ ~Lives(hand[Caller])
      BY <2>1, <2>2, <2>3
    <2>4. CASE pc' = [pc EXCEPT ![Caller] = "stop_reap"]
      BY <2>1, <2>2, <2>4
    <2>5. QED BY <1>4, <2>3, <2>4 DEF Terminate
  <1>5. CASE Reap(Caller, "stop_reap", "mark")
    <2>1. \A p \in Pids : Lives(p)' <=> Lives(p) /\ p # hand[Caller]
      BY <1>5 DEF Reap
    <2>2. /\ pc[Caller] = "stop_reap"
          /\ UNCHANGED <<row, process, ready, stop_event, hand, stopped,
                        spawned>>
      BY <1>5 DEF Reap
    <2>3. pc' = [pc EXCEPT ![Caller] = "mark"]
      BY <1>5 DEF Reap
    <2>4. QED BY <2>1, <2>2, <2>3
  <1>6. CASE MarkRead(Caller, "mark", "write", "join")
    BY <1>6 DEF MarkRead
  <1>7. CASE MarkWrite(Caller, "write", "stopped", "join")
    BY <1>7 DEF MarkWrite, WriteRow
  <1>8. CASE Join
    BY <1>8 DEF Join
  <1>9. CASE Settle
    BY <1>9 DEF Settle
  <1>10. CASE JoinTimesOut
    BY <1>10 DEF JoinTimesOut, Fault
  <1>11. ASSUME NEW t \in Threads, Popen(t) PROVE Reaped'
    BY <1>11 DEF Popen
  <1>12. ASSUME NEW t \in Threads, Assign(t) PROVE Reaped'
    BY <1>12 DEF Assign
  <1>13. ASSUME NEW t \in Threads, Await(t) PROVE Reaped'
    BY <1>13 DEF Await, MayProbe
  <1>14. ASSUME NEW t \in Threads, Probe(t) PROVE Reaped'
    BY <1>14 DEF Probe, Reported
  <1>15. ASSUME NEW t \in Threads, SetReady(t) PROVE Reaped'
    BY SMTT(30), <1>15 DEF SetReady
  <1>16. ASSUME NEW t \in Threads, Terminate(t, "terminate", "reap", "discard")
       PROVE  Reaped'
    <2>1. \A p \in Pids : Lives(p)' <=> Lives(p)
      BY <1>16 DEF Terminate
    <2>2. /\ pc[t] = "terminate"
          /\ UNCHANGED <<row, process, ready, stop_event, hand, stopped,
                        spawned>>
      BY <1>16 DEF Terminate
    <2>3. CASE /\ pc' = [pc EXCEPT ![t] = "discard"]
               /\ ~Lives(hand[t])
      BY <2>1, <2>2, <2>3
    <2>4. CASE pc' = [pc EXCEPT ![t] = "reap"]
      BY <2>1, <2>2, <2>4
    <2>5. QED BY <1>16, <2>3, <2>4 DEF Terminate
  <1>17. ASSUME NEW t \in Threads, Reap(t, "reap", "discard") PROVE Reaped'
    <2>1. \A p \in Pids : Lives(p)' <=> Lives(p) /\ p # hand[t]
      BY <1>17 DEF Reap
    <2>2. /\ pc[t] = "reap"
          /\ UNCHANGED <<row, process, ready, stop_event, hand, stopped,
                        spawned>>
      BY <1>17 DEF Reap
    <2>3. pc' = [pc EXCEPT ![t] = "discard"]
      BY <1>17 DEF Reap
    <2>4. QED BY <2>1, <2>2, <2>3
  <1>18. ASSUME NEW t \in Threads, Discard(t) PROVE Reaped'
    BY <1>18 DEF Discard
  <1>19. ASSUME NEW t \in Threads, GiveUp(t) PROVE Reaped'
    BY <1>19 DEF GiveUp
  <1>20. ASSUME NEW t \in Threads, PopenFails(t) PROVE Reaped'
    BY <1>20 DEF PopenFails, Fault, Escape
  <1>21. ASSUME NEW t \in Threads, ProbeFails(t) PROVE Reaped'
    BY <1>21 DEF ProbeFails, Fault, Escape
  <1>22. ASSUME NEW t \in Threads, MarkFails(t) PROVE Reaped'
    BY <1>22 DEF MarkFails, Fault, Escape
  <1>23. ASSUME NEW m \in Monitors, Wait(m) PROVE Reaped'
    BY <1>23 DEF Wait
  <1>24. ASSUME NEW m \in Monitors, Read(m) PROVE Reaped'
    BY <1>24 DEF Read
  <1>25. ASSUME NEW m \in Monitors, Poll(m) PROVE Reaped'
    BY <1>25 DEF Poll
  <1>26. ASSUME NEW m \in Monitors, Down(m) PROVE Reaped'
    BY <1>26 DEF Down
  <1>27. ASSUME NEW m \in Monitors, Restart(m) PROVE Reaped'
    BY <1>27 DEF Restart
  <1>28. ASSUME NEW m \in Monitors, Exhaust(m) PROVE Reaped'
    BY <1>28 DEF Exhaust
  <1>29. ASSUME NEW m \in Monitors,
                MarkRead(m, "mark_failed", "write_failed", "ended")
       PROVE  Reaped'
    BY <1>29 DEF MarkRead
  <1>30. ASSUME NEW m \in Monitors,
                MarkWrite(m, "write_failed", "failed", "ended")
       PROVE  Reaped'
    BY <1>30 DEF MarkWrite, WriteRow
  <1>31. ASSUME NEW p \in Pids, Heartbeat(p) PROVE Reaped'
    BY <1>31 DEF Heartbeat, WriteRow
  <1>32. ASSUME NEW p \in Pids, ChildExits(p) PROVE Reaped'
    BY <1>32 DEF ChildExits, WriteRow
  <1>33. ASSUME NEW p \in Pids, ChildDies(p) PROVE Reaped'
    BY <1>33 DEF ChildDies
  <1>34. CASE ClockTick
    BY <1>34 DEF ClockTick
  <1>35. CASE UNCHANGED vars
    BY <1>35 DEF vars
<1>36. QED BY <1>1, <1>2, <1>3, <1>4, <1>5, <1>6, <1>7, <1>8, <1>9, <1>10,
      <1>11, <1>12, <1>13, <1>14, <1>15, <1>16, <1>17, <1>18, <1>19, <1>20,
      <1>21, <1>22, <1>23, <1>24, <1>25, <1>26, <1>27, <1>28, <1>29, <1>30,
      <1>31, <1>32, <1>33, <1>34, <1>35 DEF Next, Calls, StopStep, Spawning,
      Failing, MonitorStep, Children

\* A thread that is about to spawn has no live process beside it.
LEMMA ClearedStep ==
  ASSUME Types, PidsInv, Counted, Inner, ~reentered', [Next]_vars
  PROVE  Cleared'
PROOF
<1> USE SupervisorConstants DEF Types, ChildType, FieldType, ThreadType,
      CountType, Pids, Threads, Monitors, NoPid, Caller, childVars,
      restartVars, callVars, Goto, SpawnPCs, ActingPCs, Alone, Inner,
      CallerPCs, StopPCs, Lives, NoneAlive, PidsInv, Cleared, Seated
  <1> Alone BY ActingAlone DEF Inner
  <1>1. CASE StartAgain
    BY <1>1 DEF StartAgain
  <1>2. CASE Start
    BY <1>2 DEF Start, Attended, Monitoring
  <1>3. CASE Stop
    BY <1>3 DEF Stop
  <1>4. CASE Terminate(Caller, "stop_terminate", "stop_reap", "mark")
    <2>1. \A p \in Pids : Lives(p)' <=> Lives(p)
      BY <1>4 DEF Terminate
    <2>2. /\ pc[Caller] = "stop_terminate"
          /\ UNCHANGED <<row, process, ready, stop_event, hand, stopped,
                        spawned>>
      BY <1>4 DEF Terminate
    <2>3. CASE /\ pc' = [pc EXCEPT ![Caller] = "mark"]
               /\ ~Lives(hand[Caller])
      BY <2>1, <2>2, <2>3
    <2>4. CASE pc' = [pc EXCEPT ![Caller] = "stop_reap"]
      BY <2>1, <2>2, <2>4
    <2>5. QED BY <1>4, <2>3, <2>4 DEF Terminate
  <1>5. CASE Reap(Caller, "stop_reap", "mark")
    <2>1. \A p \in Pids : Lives(p)' <=> Lives(p) /\ p # hand[Caller]
      BY <1>5 DEF Reap
    <2>2. /\ pc[Caller] = "stop_reap"
          /\ UNCHANGED <<row, process, ready, stop_event, hand, stopped,
                        spawned>>
      BY <1>5 DEF Reap
    <2>3. pc' = [pc EXCEPT ![Caller] = "mark"]
      BY <1>5 DEF Reap
    <2>4. QED BY <2>1, <2>2, <2>3
  <1>6. CASE MarkRead(Caller, "mark", "write", "join")
    BY <1>6 DEF MarkRead
  <1>7. CASE MarkWrite(Caller, "write", "stopped", "join")
    BY <1>7 DEF MarkWrite, WriteRow
  <1>8. CASE Join
    BY <1>8 DEF Join
  <1>9. CASE Settle
    BY <1>9 DEF Settle
  <1>10. CASE JoinTimesOut
    BY <1>10 DEF JoinTimesOut, Fault
  <1>11. ASSUME NEW t \in Threads, Popen(t) PROVE Cleared'
    BY <1>11 DEF Popen
  <1>12. ASSUME NEW t \in Threads, Assign(t) PROVE Cleared'
    BY <1>12 DEF Assign
  <1>13. ASSUME NEW t \in Threads, Await(t) PROVE Cleared'
    BY <1>13 DEF Await, MayProbe
  <1>14. ASSUME NEW t \in Threads, Probe(t) PROVE Cleared'
    <2>1. pc[t] = "probe"
          /\ UNCHANGED <<row, process, ready, stop_event, hand, stopped>>
      BY <1>14 DEF Probe
    <2>2. CASE pc' = [pc EXCEPT ![t] = "setready"] /\ Reported(hand[t])
      BY <1>14, <2>1, <2>2 DEF Probe, Reported
    <2>3. CASE pc' = [pc EXCEPT ![t] = "terminate"]
      BY <1>14, <2>1, <2>3 DEF Probe
    <2>4. CASE pc' = [pc EXCEPT ![t] = "await"]
      BY <1>14, <2>1, <2>4 DEF Probe
    <2>5. QED BY <1>14, <2>2, <2>3, <2>4 DEF Probe
  <1>15. ASSUME NEW t \in Threads, SetReady(t) PROVE Cleared'
    <2>1. CASE t = Caller BY SMTT(30), <1>15, <2>1 DEF SetReady
    <2>2. CASE t # Caller BY SMTT(30), <1>15, <2>2 DEF SetReady
    <2>3. QED BY <2>1, <2>2
  <1>16. ASSUME NEW t \in Threads, Terminate(t, "terminate", "reap", "discard")
       PROVE  Cleared'
    <2>1. \A p \in Pids : Lives(p)' <=> Lives(p)
      BY <1>16 DEF Terminate
    <2>2. /\ pc[t] = "terminate"
          /\ UNCHANGED <<row, process, ready, stop_event, hand, stopped,
                        spawned>>
      BY <1>16 DEF Terminate
    <2>3. CASE /\ pc' = [pc EXCEPT ![t] = "discard"]
               /\ ~Lives(hand[t])
      BY <2>1, <2>2, <2>3
    <2>4. CASE pc' = [pc EXCEPT ![t] = "reap"]
      BY <2>1, <2>2, <2>4
    <2>5. QED BY <1>16, <2>3, <2>4 DEF Terminate
  <1>17. ASSUME NEW t \in Threads, Reap(t, "reap", "discard") PROVE Cleared'
    <2>1. \A p \in Pids : Lives(p)' <=> Lives(p) /\ p # hand[t]
      BY <1>17 DEF Reap
    <2>2. /\ pc[t] = "reap"
          /\ UNCHANGED <<row, process, ready, stop_event, hand, stopped,
                        spawned>>
      BY <1>17 DEF Reap
    <2>3. pc' = [pc EXCEPT ![t] = "discard"]
      BY <1>17 DEF Reap
    <2>4. QED BY <2>1, <2>2, <2>3
  <1>18. ASSUME NEW t \in Threads, Discard(t) PROVE Cleared'
    BY <1>18 DEF Discard
  <1>19. ASSUME NEW t \in Threads, GiveUp(t) PROVE Cleared'
    BY <1>19 DEF GiveUp
  <1>20. ASSUME NEW t \in Threads, PopenFails(t) PROVE Cleared'
    BY <1>20 DEF PopenFails, Fault, Escape
  <1>21. ASSUME NEW t \in Threads, ProbeFails(t) PROVE Cleared'
    BY <1>21 DEF ProbeFails, Fault, Escape
  <1>22. ASSUME NEW t \in Threads, MarkFails(t) PROVE Cleared'
    BY <1>22 DEF MarkFails, Fault, Escape
  <1>23. ASSUME NEW m \in Monitors, Wait(m) PROVE Cleared'
    BY <1>23 DEF Wait
  <1>24. ASSUME NEW m \in Monitors, Read(m) PROVE Cleared'
    BY <1>24 DEF Read
  <1>25. ASSUME NEW m \in Monitors, Poll(m) PROVE Cleared'
    BY <1>25 DEF Poll
  <1>26. ASSUME NEW m \in Monitors, Down(m) PROVE Cleared'
    BY <1>26 DEF Down
  <1>27. ASSUME NEW m \in Monitors, Restart(m) PROVE Cleared'
    BY <1>27 DEF Restart
  <1>28. ASSUME NEW m \in Monitors, Exhaust(m) PROVE Cleared'
    BY <1>28 DEF Exhaust
  <1>29. ASSUME NEW m \in Monitors,
                MarkRead(m, "mark_failed", "write_failed", "ended")
       PROVE  Cleared'
    BY <1>29 DEF MarkRead
  <1>30. ASSUME NEW m \in Monitors,
                MarkWrite(m, "write_failed", "failed", "ended")
       PROVE  Cleared'
    BY <1>30 DEF MarkWrite, WriteRow
  <1>31. ASSUME NEW p \in Pids, Heartbeat(p) PROVE Cleared'
    BY <1>31 DEF Heartbeat, WriteRow
  <1>32. ASSUME NEW p \in Pids, ChildExits(p) PROVE Cleared'
    BY <1>32 DEF ChildExits, WriteRow
  <1>33. ASSUME NEW p \in Pids, ChildDies(p) PROVE Cleared'
    BY <1>33 DEF ChildDies
  <1>34. CASE ClockTick
    BY <1>34 DEF ClockTick
  <1>35. CASE UNCHANGED vars
    BY <1>35 DEF vars
<1>36. QED BY <1>1, <1>2, <1>3, <1>4, <1>5, <1>6, <1>7, <1>8, <1>9, <1>10,
      <1>11, <1>12, <1>13, <1>14, <1>15, <1>16, <1>17, <1>18, <1>19, <1>20,
      <1>21, <1>22, <1>23, <1>24, <1>25, <1>26, <1>27, <1>28, <1>29, <1>30,
      <1>31, <1>32, <1>33, <1>34, <1>35 DEF Next, Calls, StopStep, Spawning,
      Failing, MonitorStep, Children

\* After stop() has read self.process, what lives is doomed.
LEMMA StoppingStep ==
  ASSUME Types, PidsInv, Counted, Inner, ~reentered', [Next]_vars
  PROVE  Stopping'
PROOF
<1> USE SupervisorConstants DEF Types, ChildType, FieldType, ThreadType,
      CountType, Pids, Threads, Monitors, NoPid, Caller, childVars,
      restartVars, callVars, Goto, SpawnPCs, StopPCs, CallerPCs, Inner,
      PidsInv, Stopping, StopSeen, StoppedDoomed, StoppingDoomed, Counted,
      Lives, Doomed
  <1>1. CASE StartAgain
    BY <1>1 DEF StartAgain
  <1>2. CASE Start
    BY <1>2 DEF Start
  <1>3. CASE Stop
    BY <1>3 DEF Stop, Seated
  <1>4. CASE Terminate(Caller, "stop_terminate", "stop_reap", "mark")
    <2>1. \A p \in Pids : Lives(p)' <=> Lives(p)
      BY <1>4 DEF Terminate
    <2>2. /\ pc[Caller] = "stop_terminate"
          /\ UNCHANGED <<row, process, ready, stop_event, hand, stopped,
                        spawned>>
      BY <1>4 DEF Terminate
    <2>3. CASE /\ pc' = [pc EXCEPT ![Caller] = "mark"]
               /\ ~Lives(hand[Caller])
      <3>1. StopSeen' BY <2>1, <2>2, <2>3
      <3>2. StoppedDoomed' BY <2>1, <2>2, <2>3
      <3>3. StoppingDoomed' BY <2>1, <2>2, <2>3
      <3>4. QED BY <3>1, <3>2, <3>3
    <2>4. CASE pc' = [pc EXCEPT ![Caller] = "stop_reap"]
      <3>1. StopSeen' BY <2>1, <2>2, <2>4
      <3>2. StoppedDoomed' BY <2>1, <2>2, <2>4
      <3>3. StoppingDoomed' BY <2>1, <2>2, <2>4
      <3>4. QED BY <3>1, <3>2, <3>3
    <2>5. QED BY <1>4, <2>3, <2>4 DEF Terminate
  <1>5. CASE Reap(Caller, "stop_reap", "mark")
    <2>1. \A p \in Pids : Lives(p)' <=> Lives(p) /\ p # hand[Caller]
      BY <1>5 DEF Reap
    <2>2. /\ pc[Caller] = "stop_reap"
          /\ UNCHANGED <<row, process, ready, stop_event, hand, stopped,
                        spawned>>
      BY <1>5 DEF Reap
    <2>3. pc' = [pc EXCEPT ![Caller] = "mark"]
      BY <1>5 DEF Reap
    <2>4. StopSeen' BY <2>1, <2>2, <2>3
    <2>5. StoppedDoomed' BY <2>1, <2>2, <2>3
    <2>6. StoppingDoomed' BY <2>1, <2>2, <2>3
    <2>7. QED BY <2>4, <2>5, <2>6
  <1>6. CASE MarkRead(Caller, "mark", "write", "join")
    BY <1>6 DEF MarkRead
  <1>7. CASE MarkWrite(Caller, "write", "stopped", "join")
    BY <1>7 DEF MarkWrite, WriteRow
  <1>8. CASE Join
    BY <1>8 DEF Join
  <1>9. CASE Settle
    BY <1>9 DEF Settle
  <1>10. CASE JoinTimesOut
    BY <1>10 DEF JoinTimesOut, Fault
  <1>11. ASSUME NEW t \in Threads, Popen(t) PROVE Stopping'
    <2>1. StopSeen' BY <1>11 DEF Popen
    <2>2. StoppedDoomed' BY SMTT(30), <1>11 DEF Popen
    <2>3. StoppingDoomed' BY <1>11 DEF Popen
    <2>4. QED BY <2>1, <2>2, <2>3
  <1>12. ASSUME NEW t \in Threads, Assign(t) PROVE Stopping'
    BY <1>12 DEF Assign
  <1>13. ASSUME NEW t \in Threads, Await(t) PROVE Stopping'
    BY <1>13 DEF Await, MayProbe
  <1>14. ASSUME NEW t \in Threads, Probe(t) PROVE Stopping'
    <2>1. pc[t] = "probe"
          /\ UNCHANGED <<row, process, ready, stop_event, hand, stopped>>
      BY <1>14 DEF Probe
    <2>2. CASE pc' = [pc EXCEPT ![t] = "setready"] /\ Reported(hand[t])
      BY <1>14, <2>1, <2>2 DEF Probe, Reported
    <2>3. CASE pc' = [pc EXCEPT ![t] = "terminate"]
      BY <1>14, <2>1, <2>3 DEF Probe
    <2>4. CASE pc' = [pc EXCEPT ![t] = "await"]
      BY <1>14, <2>1, <2>4 DEF Probe
    <2>5. QED BY <1>14, <2>2, <2>3, <2>4 DEF Probe
  <1>15. ASSUME NEW t \in Threads, SetReady(t) PROVE Stopping'
    <2>1. CASE t = Caller
      <3>1. /\ pc[t] = "setready" /\ starts \in Monitors /\ ready' = TRUE
            /\ pc' = [pc EXCEPT ![Caller] = "idle", ![starts] = "wait"]
            /\ UNCHANGED <<child, row, process, stop_event, hand, stopped>>
        BY <1>15, <2>1 DEF SetReady, Counted
      <3>2. StopSeen' BY <2>1, <3>1
      <3>3. StoppedDoomed' BY <2>1, <3>1
      <3>4. StoppingDoomed' BY <2>1, <3>1
      <3>5. QED BY <3>2, <3>3, <3>4
    <2>2. CASE t # Caller
      <3>1. /\ pc[t] = "setready" /\ ready' = TRUE
            /\ pc' = [pc EXCEPT ![t] = "wait"]
            /\ UNCHANGED <<child, row, process, stop_event, hand, stopped>>
        BY <1>15, <2>2 DEF SetReady
      <3>2. /\ pc[Caller]' = pc[Caller]
            /\ \A p \in Pids : Lives(p)' => Lives(p)
            /\ \A p \in Pids : Doomed(p) => Doomed(p)'
        BY <2>2, <3>1
      <3>3. StopSeen' /\ StoppedDoomed' BY SMTT(30), <2>2, <3>1
      <3>4. StoppingDoomed'
        BY ONLY <3>1, <3>2, Inner
           DEF Inner, Stopping, StoppingDoomed, Pids, Caller
      <3>5. QED BY <3>3, <3>4
    <2>3. QED BY <2>1, <2>2
  <1>16. ASSUME NEW t \in Threads, Terminate(t, "terminate", "reap", "discard")
       PROVE  Stopping'
    <2>1. \A p \in Pids : Lives(p)' <=> Lives(p)
      BY <1>16 DEF Terminate
    <2>2. /\ pc[t] = "terminate"
          /\ UNCHANGED <<row, process, ready, stop_event, hand, stopped,
                        spawned>>
      BY <1>16 DEF Terminate
    <2>3. CASE /\ pc' = [pc EXCEPT ![t] = "discard"]
               /\ ~Lives(hand[t])
      <3>1. StopSeen' BY <2>1, <2>2, <2>3
      <3>2. StoppedDoomed' BY <2>1, <2>2, <2>3
      <3>3. StoppingDoomed' BY <2>1, <2>2, <2>3
      <3>4. QED BY <3>1, <3>2, <3>3
    <2>4. CASE pc' = [pc EXCEPT ![t] = "reap"]
      <3>1. StopSeen' BY <2>1, <2>2, <2>4
      <3>2. StoppedDoomed' BY <2>1, <2>2, <2>4
      <3>3. StoppingDoomed' BY <2>1, <2>2, <2>4
      <3>4. QED BY <3>1, <3>2, <3>3
    <2>5. QED BY <1>16, <2>3, <2>4 DEF Terminate
  <1>17. ASSUME NEW t \in Threads, Reap(t, "reap", "discard") PROVE Stopping'
    <2>1. \A p \in Pids : Lives(p)' <=> Lives(p) /\ p # hand[t]
      BY <1>17 DEF Reap
    <2>2. /\ pc[t] = "reap"
          /\ UNCHANGED <<row, process, ready, stop_event, hand, stopped,
                        spawned>>
      BY <1>17 DEF Reap
    <2>3. pc' = [pc EXCEPT ![t] = "discard"]
      BY <1>17 DEF Reap
    <2>4. StopSeen' BY <2>1, <2>2, <2>3
    <2>5. StoppedDoomed' BY <2>1, <2>2, <2>3
    <2>6. StoppingDoomed' BY <2>1, <2>2, <2>3
    <2>7. QED BY <2>4, <2>5, <2>6
  <1>18. ASSUME NEW t \in Threads, Discard(t) PROVE Stopping'
    <2>1. StopSeen' BY <1>18 DEF Discard
    <2>2. StoppedDoomed' BY <1>18 DEF Discard
    <2>3. StoppingDoomed' BY <1>18 DEF Discard
    <2>4. QED BY <2>1, <2>2, <2>3
  <1>19. ASSUME NEW t \in Threads, GiveUp(t) PROVE Stopping'
    BY <1>19 DEF GiveUp
  <1>20. ASSUME NEW t \in Threads, PopenFails(t) PROVE Stopping'
    BY SMTT(30), <1>20 DEF PopenFails, Fault, Escape
  <1>21. ASSUME NEW t \in Threads, ProbeFails(t) PROVE Stopping'
    BY SMTT(30), <1>21 DEF ProbeFails, Fault, Escape
  <1>22. ASSUME NEW t \in Threads, MarkFails(t) PROVE Stopping'
    <2>1. /\ /\ pc[t] \in {"mark", "write", "mark_failed", "write_failed"}
             /\ \E x \in {"idle", "ended"} : pc' = [pc EXCEPT ![t] = x]
          /\ UNCHANGED <<child, stop_event, hand, stopped>>
      BY <1>22 DEF MarkFails, Fault, Escape, Reaped
    <2>2. StopSeen' BY <2>1
    <2>3. StoppedDoomed' BY <2>1
    <2>4. StoppingDoomed' BY <2>1
    <2>5. QED BY <2>2, <2>3, <2>4
  <1>23. ASSUME NEW m \in Monitors, Wait(m) PROVE Stopping'
    BY SMTT(30), <1>23 DEF Wait
  <1>24. ASSUME NEW m \in Monitors, Read(m) PROVE Stopping'
    BY <1>24 DEF Read
  <1>25. ASSUME NEW m \in Monitors, Poll(m) PROVE Stopping'
    <2>1. /\ pc[m] = "poll"
          /\ \E x \in {"wait", "down"} : pc' = [pc EXCEPT ![m] = x]
          /\ UNCHANGED <<child, stop_event, hand, stopped>>
      BY <1>25 DEF Poll
    <2>2. StopSeen' BY <2>1
    <2>3. StoppedDoomed' BY <2>1
    <2>4. StoppingDoomed' BY <2>1
    <2>5. QED BY <2>2, <2>3, <2>4
  <1>26. ASSUME NEW m \in Monitors, Down(m) PROVE Stopping'
    BY <1>26 DEF Down
  <1>27. ASSUME NEW m \in Monitors, Restart(m) PROVE Stopping'
    <2>1. /\ pc[m] = "budget" /\ pc' = [pc EXCEPT ![m] = "popen"]
          /\ UNCHANGED <<child, stop_event, hand, stopped>>
      BY <1>27 DEF Restart
    <2>2. StopSeen' BY <2>1
    <2>3. StoppedDoomed' BY <2>1
    <2>4. StoppingDoomed' BY <2>1
    <2>5. QED BY <2>2, <2>3, <2>4
  <1>28. ASSUME NEW m \in Monitors, Exhaust(m) PROVE Stopping'
    <2>1. /\ pc[m] = "budget"
          /\ \E x \in {"ended", "mark_failed"} : pc' = [pc EXCEPT ![m] = x]
          /\ UNCHANGED <<child, stop_event, hand, stopped>>
      BY <1>28 DEF Exhaust
    <2>2. StopSeen' BY <2>1
    <2>3. StoppedDoomed' BY <2>1
    <2>4. StoppingDoomed' BY <2>1
    <2>5. QED BY <2>2, <2>3, <2>4
  <1>29. ASSUME NEW m \in Monitors,
                MarkRead(m, "mark_failed", "write_failed", "ended")
       PROVE  Stopping'
    BY SMTT(30), <1>29 DEF MarkRead
  <1>30. ASSUME NEW m \in Monitors,
                MarkWrite(m, "write_failed", "failed", "ended")
       PROVE  Stopping'
    BY <1>30 DEF MarkWrite, WriteRow
  <1>31. ASSUME NEW p \in Pids, Heartbeat(p) PROVE Stopping'
    BY <1>31 DEF Heartbeat, WriteRow
  <1>32. ASSUME NEW p \in Pids, ChildExits(p) PROVE Stopping'
    BY <1>32 DEF ChildExits, WriteRow
  <1>33. ASSUME NEW p \in Pids, ChildDies(p) PROVE Stopping'
    BY <1>33 DEF ChildDies
  <1>34. CASE ClockTick
    BY <1>34 DEF ClockTick
  <1>35. CASE UNCHANGED vars
    BY <1>35 DEF vars
<1>36. QED BY <1>1, <1>2, <1>3, <1>4, <1>5, <1>6, <1>7, <1>8, <1>9, <1>10,
      <1>11, <1>12, <1>13, <1>14, <1>15, <1>16, <1>17, <1>18, <1>19, <1>20,
      <1>21, <1>22, <1>23, <1>24, <1>25, <1>26, <1>27, <1>28, <1>29, <1>30,
      <1>31, <1>32, <1>33, <1>34, <1>35 DEF Next, Calls, StopStep, Spawning,
      Failing, MonitorStep, Children

\* The ready flag follows the row of the process.
LEMMA FlaggedStep ==
  ASSUME Types, PidsInv, Counted, Inner, ~reentered', [Next]_vars
  PROVE  Flagged'
PROOF
<1> USE SupervisorConstants DEF Types, ChildType, FieldType, ThreadType,
      CountType, Pids, Threads, Monitors, NoPid, Caller, childVars,
      restartVars, callVars, Goto, SpawnPCs, ActingPCs, Alone, Inner,
      CallerPCs, StopPCs, PidsInv, Flagged, FlagTrue, FlagDown, RowSeen,
      Cleared
  <1> Alone BY ActingAlone DEF Inner
  <1>1. CASE StartAgain
    BY <1>1 DEF StartAgain
  <1>2. CASE Start
    BY <1>2 DEF Start
  <1>3. CASE Stop
    BY <1>3 DEF Stop
  <1>4. CASE Terminate(Caller, "stop_terminate", "stop_reap", "mark")
    <2>1. /\ pc[Caller] = "stop_terminate"
          /\ UNCHANGED <<row, process, ready, stop_event, hand, stopped,
                        spawned>>
      BY <1>4 DEF Terminate
    <2>2. CASE /\ pc' = [pc EXCEPT ![Caller] = "mark"]
               /\ ~Lives(hand[Caller])
      <3>1. FlagTrue' BY <2>1, <2>2
      <3>2. FlagDown' BY <2>1, <2>2
      <3>3. RowSeen' BY <2>1, <2>2
      <3>4. QED BY <3>1, <3>2, <3>3
    <2>3. CASE pc' = [pc EXCEPT ![Caller] = "stop_reap"]
      <3>1. FlagTrue' BY <2>1, <2>3
      <3>2. FlagDown' BY <2>1, <2>3
      <3>3. RowSeen' BY <2>1, <2>3
      <3>4. QED BY <3>1, <3>2, <3>3
    <2>4. QED BY <1>4, <2>2, <2>3 DEF Terminate
  <1>5. CASE Reap(Caller, "stop_reap", "mark")
    <2>1. /\ pc[Caller] = "stop_reap"
          /\ UNCHANGED <<row, process, ready, stop_event, hand, stopped,
                        spawned>>
      BY <1>5 DEF Reap
    <2>2. pc' = [pc EXCEPT ![Caller] = "mark"]
      BY <1>5 DEF Reap
    <2>3. FlagTrue' BY <2>1, <2>2
    <2>4. FlagDown' BY <2>1, <2>2
    <2>5. RowSeen' BY <2>1, <2>2
    <2>6. QED BY <2>3, <2>4, <2>5
  <1>6. CASE MarkRead(Caller, "mark", "write", "join")
    BY <1>6 DEF MarkRead
  <1>7. CASE MarkWrite(Caller, "write", "stopped", "join")
    BY <1>7 DEF MarkWrite, WriteRow
  <1>8. CASE Join
    BY <1>8 DEF Join
  <1>9. CASE Settle
    BY <1>9 DEF Settle
  <1>10. CASE JoinTimesOut
    BY <1>10 DEF JoinTimesOut, Fault
  <1>11. ASSUME NEW t \in Threads, Popen(t) PROVE Flagged'
    BY <1>11 DEF Popen
  <1>12. ASSUME NEW t \in Threads, Assign(t) PROVE Flagged'
    BY <1>12 DEF Assign
  <1>13. ASSUME NEW t \in Threads, Await(t) PROVE Flagged'
    BY <1>13 DEF Await, MayProbe
  <1>14. ASSUME NEW t \in Threads, Probe(t) PROVE Flagged'
    <2>1. pc[t] = "probe"
          /\ UNCHANGED <<row, process, ready, stop_event, hand, stopped>>
      BY <1>14 DEF Probe
    <2>2. CASE pc' = [pc EXCEPT ![t] = "setready"] /\ Reported(hand[t])
      <3>1. FlagTrue' BY <1>14, <2>1, <2>2 DEF Probe, Reported
      <3>2. FlagDown' BY <1>14, <2>1, <2>2 DEF Probe, Reported
      <3>3. RowSeen' BY <1>14, <2>1, <2>2 DEF Probe, Reported
      <3>4. QED BY <3>1, <3>2, <3>3
    <2>3. CASE pc' = [pc EXCEPT ![t] = "terminate"]
      BY <1>14, <2>1, <2>3 DEF Probe
    <2>4. CASE pc' = [pc EXCEPT ![t] = "await"]
      BY <1>14, <2>1, <2>4 DEF Probe
    <2>5. QED BY <1>14, <2>2, <2>3, <2>4 DEF Probe
  <1>15. ASSUME NEW t \in Threads, SetReady(t) PROVE Flagged'
    <2>1. CASE t = Caller
      <3>1. /\ pc[t] = "setready" /\ starts \in Monitors /\ ready' = TRUE
            /\ pc' = [pc EXCEPT ![Caller] = "idle", ![starts] = "wait"]
            /\ UNCHANGED <<child, row, process, stop_event, hand, stopped>>
        BY <1>15, <2>1 DEF SetReady, Counted
      <3>2. FlagTrue' BY <2>1, <3>1
      <3>3. FlagDown' BY <2>1, <3>1
      <3>4. RowSeen' BY <2>1, <3>1
      <3>5. QED BY <3>2, <3>3, <3>4
    <2>2. CASE t # Caller
      <3>1. /\ pc[t] = "setready" /\ ready' = TRUE
            /\ pc' = [pc EXCEPT ![t] = "wait"]
            /\ UNCHANGED <<child, row, process, stop_event, hand, stopped>>
        BY <1>15, <2>2 DEF SetReady
      <3>2. FlagTrue' BY <2>2, <3>1
      <3>3. FlagDown' BY <2>2, <3>1
      <3>4. RowSeen' BY <2>2, <3>1
      <3>5. QED BY <3>2, <3>3, <3>4
    <2>3. QED BY <2>1, <2>2
  <1>16. ASSUME NEW t \in Threads, Terminate(t, "terminate", "reap", "discard")
       PROVE  Flagged'
    <2>1. /\ pc[t] = "terminate"
          /\ UNCHANGED <<row, process, ready, stop_event, hand, stopped,
                        spawned>>
      BY <1>16 DEF Terminate
    <2>2. CASE /\ pc' = [pc EXCEPT ![t] = "discard"]
               /\ ~Lives(hand[t])
      <3>1. FlagTrue' BY <2>1, <2>2
      <3>2. FlagDown' BY <2>1, <2>2
      <3>3. RowSeen' BY <2>1, <2>2
      <3>4. QED BY <3>1, <3>2, <3>3
    <2>3. CASE pc' = [pc EXCEPT ![t] = "reap"]
      <3>1. FlagTrue' BY <2>1, <2>3
      <3>2. FlagDown' BY <2>1, <2>3
      <3>3. RowSeen' BY <2>1, <2>3
      <3>4. QED BY <3>1, <3>2, <3>3
    <2>4. QED BY <1>16, <2>2, <2>3 DEF Terminate
  <1>17. ASSUME NEW t \in Threads, Reap(t, "reap", "discard") PROVE Flagged'
    <2>1. /\ pc[t] = "reap"
          /\ UNCHANGED <<row, process, ready, stop_event, hand, stopped,
                        spawned>>
      BY <1>17 DEF Reap
    <2>2. pc' = [pc EXCEPT ![t] = "discard"]
      BY <1>17 DEF Reap
    <2>3. FlagTrue' BY <2>1, <2>2
    <2>4. FlagDown' BY <2>1, <2>2
    <2>5. RowSeen' BY <2>1, <2>2
    <2>6. QED BY <2>3, <2>4, <2>5
  <1>18. ASSUME NEW t \in Threads, Discard(t) PROVE Flagged'
    BY <1>18 DEF Discard
  <1>19. ASSUME NEW t \in Threads, GiveUp(t) PROVE Flagged'
    BY <1>19 DEF GiveUp
  <1>20. ASSUME NEW t \in Threads, PopenFails(t) PROVE Flagged'
    BY <1>20 DEF PopenFails, Fault, Escape
  <1>21. ASSUME NEW t \in Threads, ProbeFails(t) PROVE Flagged'
    BY <1>21 DEF ProbeFails, Fault, Escape
  <1>22. ASSUME NEW t \in Threads, MarkFails(t) PROVE Flagged'
    BY <1>22 DEF MarkFails, Fault, Escape
  <1>23. ASSUME NEW m \in Monitors, Wait(m) PROVE Flagged'
    BY <1>23 DEF Wait
  <1>24. ASSUME NEW m \in Monitors, Read(m) PROVE Flagged'
    BY <1>24 DEF Read
  <1>25. ASSUME NEW m \in Monitors, Poll(m) PROVE Flagged'
    BY <1>25 DEF Poll
  <1>26. ASSUME NEW m \in Monitors, Down(m) PROVE Flagged'
    BY <1>26 DEF Down
  <1>27. ASSUME NEW m \in Monitors, Restart(m) PROVE Flagged'
    BY <1>27 DEF Restart
  <1>28. ASSUME NEW m \in Monitors, Exhaust(m) PROVE Flagged'
    BY <1>28 DEF Exhaust
  <1>29. ASSUME NEW m \in Monitors,
                MarkRead(m, "mark_failed", "write_failed", "ended")
       PROVE  Flagged'
    BY <1>29 DEF MarkRead
  <1>30. ASSUME NEW m \in Monitors,
                MarkWrite(m, "write_failed", "failed", "ended")
       PROVE  Flagged'
    BY <1>30 DEF MarkWrite, WriteRow
  <1>31. ASSUME NEW p \in Pids, Heartbeat(p) PROVE Flagged'
    BY <1>31 DEF Heartbeat, WriteRow
  <1>32. ASSUME NEW p \in Pids, ChildExits(p) PROVE Flagged'
    BY <1>32 DEF ChildExits, WriteRow
  <1>33. ASSUME NEW p \in Pids, ChildDies(p) PROVE Flagged'
    BY <1>33 DEF ChildDies
  <1>34. CASE ClockTick
    BY <1>34 DEF ClockTick
  <1>35. CASE UNCHANGED vars
    BY <1>35 DEF vars
<1>36. QED BY <1>1, <1>2, <1>3, <1>4, <1>5, <1>6, <1>7, <1>8, <1>9, <1>10,
      <1>11, <1>12, <1>13, <1>14, <1>15, <1>16, <1>17, <1>18, <1>19, <1>20,
      <1>21, <1>22, <1>23, <1>24, <1>25, <1>26, <1>27, <1>28, <1>29, <1>30,
      <1>31, <1>32, <1>33, <1>34, <1>35 DEF Next, Calls, StopStep, Spawning,
      Failing, MonitorStep, Children

-----------------------------------------------------------------------------

LEMMA IInvInit == Init => IInv
PROOF
  <1> SUFFICES ASSUME Init PROVE IInv
    OBVIOUS
  <1> USE SupervisorConstants DEF Init, Pids, Threads, Monitors, NoPid, Caller
  <1>1. Types
    <2>1. ChildType /\ FieldType
      <3>1. latest \in Pids \cup {NoPid} /\ process \in Pids \cup {NoPid}
        OBVIOUS
      <3>2. child \in [Pids -> {"absent", "alive", "termed", "dead"}]
        OBVIOUS
      <3>3. row \in [Pids -> {"none", "ready", "stopped", "failed"}]
        OBVIOUS
      <3>4. spawned \in 0..MaxPids /\ monitor_thread \in Threads
        OBVIOUS
      <3>5. /\ shutting_down \in BOOLEAN /\ ready \in BOOLEAN
            /\ stop_event \in BOOLEAN /\ restart_exhausted \in BOOLEAN
        BY Zenon
      <3>6. QED BY <3>1, <3>2, <3>3, <3>4, <3>5 DEF ChildType, FieldType
    <2>2. ThreadType
      BY DEF ThreadType, PCs, CallerPCs, SpawnPCs, MonitorPCs, StopPCs
    <2>3. CountType
      <3>1. /\ now \in 0..Horizon /\ faults \in 0..MaxFaults
            /\ starts \in 0..MaxStarts /\ stops \in 0..MaxStarts
        OBVIOUS
      <3>2. reentered \in BOOLEAN /\ stopped \in BOOLEAN
        BY Zenon
      <3>3. QED BY <3>1, <3>2 DEF CountType
    <2>4. QED BY <2>1, <2>2, <2>3 DEF Types
  <1>2. PidsInv /\ Counted
    BY DEF PidsInv, Counted, SpawnPCs
  <1>3. OneActor
    BY DEF OneActor, Acting, Monitoring, SpawnPCs
  <1>4. NoneAlive
    BY DEF NoneAlive, Lives
  <1>5. Seated /\ Cleared /\ Reaped
    BY <1>4 DEF NoneAlive, Seated, Cleared, Reaped, Lives
  <1>6. Stopping
    BY DEF Stopping, StopSeen, StoppedDoomed, StoppingDoomed, StopPCs
  <1>7. Flagged
    BY DEF Flagged, FlagTrue, FlagDown, RowSeen, SpawnPCs
  <1>8. QED BY <1>1, <1>2, <1>3, <1>5, <1>6, <1>7 DEF IInv, Inner

\* The history flag is never lowered.
LEMMA ReenteredStays ==
  ASSUME [Next]_vars, reentered
  PROVE  reentered'
PROOF
  BY DEF Next, vars, Calls, StartAgain, Start, Stop, StopStep, Terminate, Reap,
         MarkRead, MarkWrite, Join, Settle, JoinTimesOut, Spawning, Popen,
         Assign, Await, Probe, SetReady, Discard, GiveUp, Failing, PopenFails,
         ProbeFails, MarkFails, MonitorStep, Wait, Read, Poll, Down, Restart,
         Exhaust, Children, Heartbeat, ChildExits, ChildDies, ClockTick,
         childVars, restartVars, callVars

LEMMA IInvStep == IInv /\ [Next]_vars => IInv'
PROOF
  <1> SUFFICES ASSUME IInv, [Next]_vars PROVE IInv'
    OBVIOUS
  <1>1. Types' /\ PidsInv' /\ Counted'
    BY TypesStep, PidsStep, CountedStep DEF IInv
  <1>2. ASSUME ~reentered' PROVE Inner'
    <2>1. Types /\ PidsInv /\ Counted /\ Inner
      BY <1>2, ReenteredStays DEF IInv
    <2>2. QED
      BY <1>2, <2>1, OneActorStep, SeatedStep, ClearedStep, ReapedStep,
         StoppingStep, FlaggedStep DEF Inner
  <1>3. QED BY <1>1, <1>2 DEF IInv

THEOREM SupervisorInvariant == Spec => []IInv
PROOF
  <1>1. QED BY IInvInit, IInvStep, PTL DEF Spec

\* One worker per supervisor, however starts, stops, crashes and respawns
\* interleave, as long as start() is not called beside a live monitor.
THEOREM OneChild == Spec => []AtMostOneChild
PROOF
  <1>1. IInv => AtMostOneChild
    <2> SUFFICES ASSUME IInv, ~reentered, NEW p \in Pids, NEW q \in Pids,
                        Lives(p), Lives(q)
                 PROVE  p = q
      BY DEF AtMostOneChild
    <2>1. Seated /\ Cleared BY DEF IInv, Inner
    <2>2. CASE \E t \in Threads : pc[t] = "assign"
      BY <2>1, <2>2 DEF Cleared
    <2>3. CASE ~ \E t \in Threads : pc[t] = "assign"
      BY <2>1, <2>3 DEF Seated
    <2>4. QED BY <2>2, <2>3
  <1>2. QED BY <1>1, SupervisorInvariant, PTL

\* After stop() and the end of the monitor no child is left, not even one that
\* was being started when stop() read self.process.
THEOREM StopLeavesNoChild == Spec => []NoChildAfterStop
PROOF
  <1>1. IInv => NoChildAfterStop
    BY DEF IInv, Inner, Stopping, StoppedDoomed, Doomed, NoChildAfterStop,
           NoneAlive, Attended, Monitoring
  <1>2. QED BY <1>1, SupervisorInvariant, PTL

\* snapshot() does not call a replacement ready before it has reported.
THEOREM ReadyOnlyIfReported == Spec => []ReadyIsReported
PROOF
  <1>1. IInv => ReadyIsReported
    BY DEF IInv, Inner, Flagged, FlagTrue, ReadyIsReported, Lives
  <1>2. QED BY <1>1, SupervisorInvariant, PTL

-----------------------------------------------------------------------------
(* The budget of restarts.                                                 *)

\* What the monitors were granted is in order, and what they have dropped is too old to
\* count, now and later.
RestartInv ==
  /\ now \in Nat /\ granted \in Seq(Nat) /\ restart_times \subseteq DOMAIN granted
  /\ \A i, j \in DOMAIN granted : i <= j => granted[i] <= granted[j]
  /\ \A i \in DOMAIN granted : granted[i] <= now
  /\ \A i \in DOMAIN granted \ restart_times : now - granted[i] > RestartWindow
  /\ BudgetKept

RestartVars == <<now, granted, restart_times>>

\* The steps that count restarts or let time pass.
LEMMA RestartSteps ==
  ASSUME [Next]_vars
  PROVE  \/ Start \/ ClockTick \/ UNCHANGED RestartVars
         \/ \E m \in Monitors : Restart(m) \/ Exhaust(m)
PROOF
  BY DEF Next, vars, Calls, StartAgain, Stop, StopStep, Terminate, Reap,
         MarkRead, MarkWrite, Join, Settle, JoinTimesOut, Spawning, Popen,
         Assign, Await, Probe, SetReady, Discard, GiveUp, Failing, PopenFails,
         ProbeFails, MarkFails, MonitorStep, Wait, Read, Poll, Down,
         Children, Heartbeat, ChildExits, ChildDies, RestartVars,
         childVars, restartVars, callVars

\* Before a restart is granted, at most MaxRestarts - 1 of those granted are recent: the
\* one MaxRestarts places back is not.
LEMMA OldEnough ==
  ASSUME RestartInv, Cardinality(Recent(restart_times)) < MaxRestarts,
         NEW i \in DOMAIN granted, i + MaxRestarts = Len(granted) + 1
  PROVE  now - granted[i] > RestartWindow
PROOF
  <1> DEFINE n == Len(granted)
  <1>1. /\ n \in Nat /\ DOMAIN granted = 1 .. n /\ i \in 1 .. n /\ now \in Nat
        /\ MaxRestarts \in Nat /\ RestartWindow \in Nat
        /\ \A j \in 1 .. n : granted[j] \in Nat
    BY SupervisorConstants DEF RestartInv
  <1> SUFFICES ASSUME now - granted[i] <= RestartWindow PROVE FALSE
    BY <1>1
  <1>2. i .. n \subseteq Recent(restart_times)
    <2> SUFFICES ASSUME NEW j \in i .. n PROVE j \in Recent(restart_times)
      OBVIOUS
    <2>1. j \in 1 .. n /\ granted[i] <= granted[j]
      <3>1. j \in 1 .. n /\ i <= j
        BY <1>1
      <3> QED BY <1>1, <3>1 DEF RestartInv
    <2>2. now - granted[j] <= RestartWindow
      BY <1>1, <2>1
    <2>3. j \in restart_times
      <3>1. \A k \in (1 .. n) \ restart_times : now - granted[k] > RestartWindow
        BY <1>1 DEF RestartInv
      <3>2. j \notin restart_times => now - granted[j] > RestartWindow
        BY <2>1, <3>1
      <3>3. granted[j] \in Nat
        BY <1>1, <2>1
      <3> HIDE DEF n
      <3> QED BY <1>1, <2>2, <3>2, <3>3
    <2> QED BY <2>2, <2>3 DEF Recent
  <1>3. IsFiniteSet(Recent(restart_times))
    <2>1. IsFiniteSet(1 .. n)
      BY <1>1, FS_Interval
    <2>2. Recent(restart_times) \subseteq 1 .. n
      BY <1>1 DEF Recent, RestartInv
    <2> QED BY <2>1, <2>2, FS_Subset
  <1>4. Cardinality(i .. n) <= Cardinality(Recent(restart_times))
        /\ Cardinality(Recent(restart_times)) \in Nat
    BY <1>2, <1>3, FS_Subset, FS_CardinalityType
  <1>5. Cardinality(i .. n) = MaxRestarts
    <2>1. i \in Int /\ n \in Int
      BY <1>1
    <2>2. Cardinality(i .. n) = IF i > n THEN 0 ELSE n - i + 1
      BY <2>1, FS_Interval
    <2>3. i <= n /\ n - i + 1 = MaxRestarts
      BY <1>1
    <2> QED BY <2>2, <2>3
  <1> QED BY <1>1, <1>4, <1>5

LEMMA RecentCounted ==
  ASSUME RestartInv PROVE Cardinality(Recent(restart_times)) \in Nat
PROOF
  <1>1. Len(granted) \in Nat /\ DOMAIN granted = 1 .. Len(granted)
    BY DEF RestartInv
  <1>2. Recent(restart_times) \subseteq 1 .. Len(granted)
    BY <1>1 DEF Recent, RestartInv
  <1>3. IsFiniteSet(1 .. Len(granted))
    BY <1>1, FS_Interval
  <1> QED BY <1>2, <1>3, FS_Subset, FS_CardinalityType

LEMMA RestartStep ==
  ASSUME RestartInv, NEW m \in Monitors, Restart(m) PROVE RestartInv'
PROOF
  <1> DEFINE n == Len(granted)
  <1>1. /\ Cardinality(Recent(restart_times)) < MaxRestarts
        /\ granted' = Append(granted, now) /\ now' = now
        /\ restart_times' = Recent(restart_times) \cup {Len(granted')}
    BY DEF Restart
  <1>2. /\ n \in Nat /\ DOMAIN granted = 1 .. n /\ now \in Nat /\ MaxRestarts \in Nat
        /\ RestartWindow \in Nat /\ granted \in Seq(Nat)
        /\ \A j \in 1 .. n : granted[j] \in Nat
    BY SupervisorConstants DEF RestartInv
  <1>3. /\ granted' \in Seq(Nat) /\ Len(granted') = n + 1 /\ DOMAIN granted' = 1 .. n + 1
        /\ granted'[n + 1] = now /\ \A j \in 1 .. n : granted'[j] = granted[j]
    BY <1>1, <1>2
  <1>4. /\ restart_times' \subseteq DOMAIN granted'
        /\ \A j \in DOMAIN granted' \ restart_times' : j \in 1 .. n /\ j \notin Recent(restart_times)
    BY <1>1, <1>2, <1>3 DEF Recent, RestartInv
  <1>5. \A j \in DOMAIN granted : granted[j] <= now
    BY DEF RestartInv
  <1>6. \A i, j \in DOMAIN granted' : i <= j => granted'[i] <= granted'[j]
    <2>1. \A i, j \in 1 .. n : i <= j => granted[i] <= granted[j]
      BY <1>2 DEF RestartInv
    <2> QED BY SMTT(30), <1>2, <1>3, <1>5, <2>1
  <1>7. \A j \in DOMAIN granted' \ restart_times' : now' - granted'[j] > RestartWindow
    <2> SUFFICES ASSUME NEW j \in DOMAIN granted' \ restart_times'
                 PROVE  now - granted[j] > RestartWindow
      BY <1>1, <1>3, <1>4
    <2>1. j \in 1 .. n /\ j \notin Recent(restart_times)
      BY <1>4
    <2>2. CASE j \in restart_times
      BY <1>2, <2>1, <2>2 DEF Recent
    <2>3. CASE j \notin restart_times
      BY <1>2, <2>1, <2>3 DEF RestartInv
    <2> QED BY <2>2, <2>3
  <1>8. BudgetKept'
    <2> SUFFICES ASSUME NEW i \in 1 .. n + 1, i + MaxRestarts \in 1 .. n + 1
                 PROVE  granted'[i + MaxRestarts] - granted'[i] > RestartWindow
      BY <1>3 DEF BudgetKept
    <2>1. MaxRestarts > 0
      BY <1>1, <1>2, RecentCounted
    <2>2. i \in 1 .. n
      BY <1>2, <2>1
    <2>3. CASE i + MaxRestarts = n + 1
      <3>1. now - granted[i] > RestartWindow
        BY <1>1, <1>2, <2>2, <2>3, OldEnough
      <3> QED BY <1>3, <2>2, <2>3, <3>1
    <2>4. CASE i + MaxRestarts \in 1 .. n
      BY <1>2, <1>3, <2>2, <2>4 DEF RestartInv, BudgetKept
    <2> QED BY <1>2, <2>3, <2>4
  <1>9. \A j \in DOMAIN granted' : granted'[j] <= now'
    BY <1>1, <1>2, <1>3, <1>5
  <1> QED BY <1>1, <1>2, <1>3, <1>4, <1>6, <1>7, <1>8, <1>9 DEF RestartInv

LEMMA RestartInvStep == RestartInv /\ [Next]_vars => RestartInv'
PROOF
  <1> SUFFICES ASSUME RestartInv, [Next]_vars PROVE RestartInv'
    OBVIOUS
  <1>1. CASE Start
    <2>1. granted' = <<>> /\ restart_times' = {} /\ now' = now
      BY <1>1 DEF Start
    <2> QED BY <2>1 DEF RestartInv, BudgetKept
  <1>2. CASE ClockTick
    <2>1. granted' = granted /\ restart_times' = restart_times /\ now' = now + 1
      BY <1>2 DEF ClockTick, restartVars
    <2>2. \A j \in DOMAIN granted : granted[j] \in Nat
      BY DEF RestartInv
    <2> QED BY <2>1, <2>2, SupervisorConstants DEF RestartInv, BudgetKept
  <1>3. CASE UNCHANGED RestartVars
    BY <1>3 DEF RestartVars, RestartInv, BudgetKept
  <1>4. ASSUME NEW m \in Monitors, Exhaust(m) PROVE RestartInv'
    <2>1. granted' = granted /\ restart_times' = Recent(restart_times) /\ now' = now
      BY <1>4 DEF Exhaust
    <2>2. \A j \in DOMAIN granted : granted[j] \in Nat
      BY DEF RestartInv
    <2> QED BY <2>1, <2>2, SupervisorConstants DEF RestartInv, BudgetKept, Recent
  <1> QED BY <1>1, <1>2, <1>3, <1>4, RestartSteps, RestartStep

\* Any window holds at most MaxRestarts restarts, although the list is pruned before it is
\* counted and time goes on.
THEOREM RestartsLimited == Spec => []BudgetKept
PROOF
  <1>1. Init => RestartInv
    BY DEF Init, RestartInv, BudgetKept
  <1>2. RestartInv => BudgetKept
    BY DEF RestartInv
  <1> QED BY <1>1, <1>2, RestartInvStep, PTL DEF Spec

=============================================================================
