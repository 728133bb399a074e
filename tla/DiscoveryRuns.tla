--------------------------- MODULE DiscoveryRuns ---------------------------
(***************************************************************************)
(* The table `discovery_runs' as the lock of a channel.  A discovery       *)
(* inserts a running row, asks the channel, and closes the row.  When its  *)
(* process dies the row stays; the next start of any channel reclaims the  *)
(* rows that are older than LOCK_STALE.                                    *)
(*                                                                         *)
(* Time is relative: a row and a process about to start have an age.  Ages *)
(* beyond AgeCap are all stale, so they are not told apart.  Closed rows   *)
(* that nobody works on are used again for new runs.                       *)
(***************************************************************************)
EXTENDS Naturals, FiniteSets

CONSTANTS
  Runs,        \* rows of the table
  Workers,     \* processes: the worker and the command line
  Channels,
  LockStale,   \* age up to which a running row is live
  MaxWait,     \* bound: time from the reading of started_at to the insertion
  Nothing

ASSUME DiscoveryConstants ==
  /\ LockStale \in Nat \ {0} /\ MaxWait \in Nat
  /\ Nothing \notin Runs \cup Channels

VARIABLES
  row,    \* the table
  post    \* what a process is doing: for which channel, with which row

runVars == <<row, post>>

AgeCap == LockStale + MaxWait + 1
Ages == 0 .. AgeCap

RunRows == [channel: Channels \cup {Nothing}, status: {"absent", "running", "succeeded", "failed"},
         age: Ages]
Posts == [pc: {"idle", "starting", "working"}, channel: Channels \cup {Nothing},
          run: Runs \cup {Nothing}, age: Ages]
NoPost == [pc |-> "idle", channel |-> Nothing, run |-> Nothing, age |-> 0]

RunsInit ==
  /\ row = [r \in Runs |-> [channel |-> Nothing, status |-> "absent", age |-> 0]]
  /\ post = [w \in Workers |-> NoPost]

Running(ch) == {r \in Runs : row[r].status = "running" /\ row[r].channel = ch}
Held(r) == \E w \in Workers : post[w].run = r
Free == {r \in Runs : row[r].status # "running" /\ ~Held(r)}

\* run_discovery() reads the clock before it waits for the database.
Begin(w, ch) ==
  /\ post[w].pc = "idle"
  /\ post' = [post EXCEPT ![w] = [NoPost EXCEPT !.pc = "starting", !.channel = ch]]
  /\ UNCHANGED row

\* Mutant of Stale: a row is reclaimed one unit too early.
StaleEarly(w, r) == row[r].status = "running" /\ row[r].age >= post[w].age + LockStale

\* started_at < stale_before, where stale_before is the start of w less LOCK_STALE.
Stale(w, r) == row[r].status = "running" /\ row[r].age > post[w].age + LockStale

\* Mutant of Live: rows that are being reclaimed count, too.
LiveUnreclaimed(w) == Running(post[w].channel)

\* Mutant of Live: nobody looks.
LiveUnread(w) == {}

\* The runs of the channel that are left after reclaiming.
Live(w) == {r \in Running(post[w].channel) : ~Stale(w, r)}

\* One transaction: reclaim the stale rows of all channels, then insert.
Start(w) ==
  /\ post[w].pc = "starting" /\ Live(w) = {} /\ Free # {}
  /\ LET n == CHOOSE r \in Free : TRUE
     IN  /\ row' = [r \in Runs |->
                      IF r = n THEN [channel |-> post[w].channel, status |-> "running",
                                     age |-> post[w].age]
                      ELSE IF Stale(w, r) THEN [row[r] EXCEPT !.status = "failed"]
                      ELSE row[r]]
         /\ post' = [post EXCEPT ![w].pc = "working", ![w].run = n, ![w].age = 0]

\* A live run: everything is rolled back, the reclaimed rows of other channels included.
StartRefused(w) ==
  /\ post[w].pc = "starting" /\ Live(w) # {}
  /\ post' = [post EXCEPT ![w] = NoPost]
  /\ UNCHANGED row

\* Mutant of MayFinish: a late run overwrites what its reclaim has written.
MayFinishLate(r) == TRUE

MayFinish(r) == row[r].status = "running"

Outcomes == {"succeeded", "failed"}

Finish(w) ==
  /\ post[w].pc = "working" /\ MayFinish(post[w].run)
  /\ \E outcome \in Outcomes :
       row' = [row EXCEPT ![post[w].run].status = outcome, ![post[w].run].age = 0]
  /\ post' = [post EXCEPT ![w] = NoPost]

FinishRefused(w) ==
  /\ post[w].pc = "working" /\ ~MayFinish(post[w].run)
  /\ post' = [post EXCEPT ![w] = NoPost]
  /\ UNCHANGED row

\* The process ends, or its last transaction fails: the row stays.
Die(w) ==
  /\ post[w].pc # "idle"
  /\ post' = [post EXCEPT ![w] = NoPost]
  /\ UNCHANGED row

Older(n) == IF n = AgeCap THEN n ELSE n + 1

Tick ==
  /\ \A w \in Workers : post[w].pc = "starting" => post[w].age < MaxWait
  /\ row' = [r \in Runs |-> IF row[r].status = "running" \/ Held(r)
                            THEN [row[r] EXCEPT !.age = Older(@)] ELSE row[r]]
  /\ post' = [w \in Workers |-> IF post[w].pc = "starting"
                                THEN [post[w] EXCEPT !.age = Older(@)] ELSE post[w]]

Step(w) == Start(w) \/ StartRefused(w) \/ Finish(w) \/ FinishRefused(w)

RunsNext ==
  \/ Tick
  \/ \E w \in Workers : Step(w) \/ Die(w) \/ (\E ch \in Channels : Begin(w, ch))

RunsSpec == RunsInit /\ [][RunsNext]_runVars

\* A discovery ends (its requests time out), each channel is scheduled again and
\* again, not every start dies before its transaction, and time passes.
RunsLiveSpec ==
  /\ RunsSpec
  /\ WF_runVars(Tick)
  /\ \A w \in Workers : WF_runVars(Step(w))
  /\ \A ch \in Channels :
       /\ SF_runVars(\E w \in Workers : Begin(w, ch))
       /\ SF_runVars(\E w \in Workers : post[w].channel = ch /\ (Start(w) \/ StartRefused(w)))

(***************************************************************************)
(* Properties.                                                             *)
(***************************************************************************)
\* Type invariant.
RunsTypeOK ==
  /\ row \in [Runs -> RunRows]
  /\ post \in [Workers -> Posts]
  /\ \A w \in Workers : post[w].pc = "working" <=> post[w].run # Nothing

Working(ch) == {w \in Workers : post[w].pc = "working" /\ post[w].channel = ch}

\* The lock: whoever starts, reclaims and finishes, a channel has one running row.
OneRunPerChannel == \A ch \in Channels : Cardinality(Running(ch)) <= 1

\* Two discoveries ask a channel at once only if one of them has worked for longer
\* than LOCK_STALE.
OverlapNeedsStale ==
  \A ch \in Channels : \A v, w \in Working(ch) :
    v # w => row[post[v].run].age > LockStale \/ row[post[w].run].age > LockStale

\* What a reclaim has written about a run stays, although its process still works
\* and will close it.
ReclaimedStays ==
  [][\A w \in Workers :
       post[w].pc = "working" /\ row[post[w].run].status # "running" =>
         row'[post[w].run].status = row[post[w].run].status]_runVars

\* A process that died does not block its channel for ever.
ChannelReopens == \A r \in Runs : row[r].status = "running" ~> row[r].status # "running"
=============================================================================
