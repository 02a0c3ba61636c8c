------------------------- MODULE CaptureHelperProofs -------------------------
(***************************************************************************)
(* Proofs about CaptureHelper, for any number of captures and of processes *)
(* that call the helper, any interleaving of their system calls, and any   *)
(* number of kills, reboots and failing calls.                             *)
(***************************************************************************)
EXTENDS CaptureHelper, TLAPS

\* How a capture's processes and files go together before and after the
\* start of its tcpdump: a path is chosen by one start only until then, and
\* nobody but that start knows of the capture before tcpdump exists.
Spawned ==
    /\ stateFile \in Captures => tcpdump[stateFile] # "none"
    /\ \A i \in Invokers : pc[i] \in BeforeSpawn => tcpdump[job[i]] = "none"
    /\ \A i \in Invokers : pc[i] = "spawn" => job[i] \in partial
    /\ \A i, k \in Invokers :
          (pc[i] \in BeforeSpawn /\ pc[k] \in BeforeSpawn /\ job[i] = job[k]) => i = k
    /\ \A i \in Invokers :
          pc[i] \notin BeforeSpawn \cup {"idle", "clear"} => tcpdump[job[i]] # "none"
    /\ \A c \in Captures : pc[c] # "none" => tcpdump[c] # "none"

\* Whoever finishes a capture has seen its tcpdump gone, and it stays gone.
Finishing ==
    \A a \in Agents : pc[a] \in FinishPoints => tcpdump[JobOf(a)] = "exited"

\* While no fault has happened: no start is cleaning up, every capture that
\* was spawned has or had its file, under one name or the other, and is
\* watched, and until the worker takes one no finalizer misses both names.
FaultFree ==
    /\ EveryCaptureIsWatched
    /\ PublishRaceSafe
    /\ faults = MaxFaults =>
          /\ \A i \in Invokers : pc[i] \notin {"abortState", "abortPartial"}
          /\ \A c \in Captures : tcpdump[c] # "none" => c \in partial \cup published

IInv ==
    /\ TypeOK
    /\ Spawned
    /\ Finishing
    /\ PublishedIsComplete
    /\ FinishedMeansPublished
    /\ FaultFree

-----------------------------------------------------------------------------

LEMMA InitEstablishes == Init => IInv
<1> SUFFICES ASSUME Init PROVE IInv
  OBVIOUS
<1> USE NamesAssumption, OptionsAssumption
    DEF Init, Agents, JobOf, processRunning, InvokerPoints, SupervisorPoints,
        FinishPoints, PublishPoints, BeforeSpawn, AfterSpawn
<1>1. TypeOK
  BY DEF TypeOK
<1>2. Spawned /\ Finishing
  BY DEF Spawned, Finishing
<1>3. PublishedIsComplete /\ FinishedMeansPublished
  BY DEF PublishedIsComplete, FinishedMeansPublished
<1>4. FaultFree
  BY DEF FaultFree, EveryCaptureIsWatched, PublishRaceSafe
<1> QED
  BY <1>1, <1>2, <1>3, <1>4 DEF IInv

\* A start: its first read to the launch of the supervisor.
LEMMA StartSteps ==
    ASSUME IInv, NEW i \in Invokers,
           \/ StartReads(i)
           \/ StartChecks(i)
           \/ StartCreates(i)
           \/ StartSpawns(i)
           \/ SaveTruncates(i)
           \/ SaveWrites(i)
           \/ StartLaunches(i)
    PROVE  IInv'
<1> USE NamesAssumption, OptionsAssumption
    DEF IInv, Agents, JobOf, Goto, Exit, files, processRunning, InvokerPoints,
        SupervisorPoints, FinishPoints, PublishPoints, BeforeSpawn, AfterSpawn
<1>1. CASE StartReads(i)
  <2>1. TypeOK'
    BY <1>1 DEF TypeOK, StartReads, Fresh
  <2>2. Spawned'
    BY <1>1 DEF TypeOK, Spawned, StartReads, Fresh
  <2>3. Finishing' /\ PublishedIsComplete' /\ FinishedMeansPublished'
    BY <1>1
       DEF TypeOK, Finishing, PublishedIsComplete, FinishedMeansPublished,
           StartReads, Fresh
  <2>4. FaultFree'
    BY <1>1
       DEF TypeOK, FaultFree, EveryCaptureIsWatched, PublishRaceSafe, StartReads,
           Fresh
  <2> QED
    BY <2>1, <2>2, <2>3, <2>4
<1>2. CASE StartChecks(i)
  <2>1. TypeOK'
    BY <1>2 DEF TypeOK, StartChecks, Fresh
  <2>2. Spawned'
    BY <1>2 DEF TypeOK, Spawned, StartChecks, Fresh
  <2>3. Finishing' /\ PublishedIsComplete' /\ FinishedMeansPublished'
    BY <1>2
       DEF TypeOK, Finishing, PublishedIsComplete, FinishedMeansPublished,
           StartChecks, Fresh
  <2>4. FaultFree'
    BY <1>2
       DEF TypeOK, FaultFree, EveryCaptureIsWatched, PublishRaceSafe,
           StartChecks, Fresh
  <2> QED
    BY <2>1, <2>2, <2>3, <2>4
<1>3. CASE StartCreates(i)
  <2>1. TypeOK'
    BY <1>3 DEF TypeOK, Spawned, PublishedIsComplete, StartCreates
  <2>2. Spawned'
    BY <1>3 DEF Spawned, StartCreates
  <2>3. Finishing' /\ PublishedIsComplete' /\ FinishedMeansPublished'
    BY <1>3
       DEF Spawned, Finishing, PublishedIsComplete, FinishedMeansPublished,
           StartCreates
  <2>4. FaultFree'
    BY <1>3 DEF FaultFree, EveryCaptureIsWatched, PublishRaceSafe, StartCreates
  <2> QED
    BY <2>1, <2>2, <2>3, <2>4
<1>4. CASE StartSpawns(i)
  <2>1. TypeOK'
    BY <1>4 DEF TypeOK, StartSpawns
  <2>2. Spawned'
    BY <1>4 DEF TypeOK, Spawned, StartSpawns
  <2>3. Finishing' /\ PublishedIsComplete' /\ FinishedMeansPublished'
    BY <1>4
       DEF Spawned, Finishing, PublishedIsComplete, FinishedMeansPublished,
           StartSpawns
  <2>4. FaultFree'
    BY <1>4
       DEF Spawned, FaultFree, EveryCaptureIsWatched, PublishRaceSafe,
           StartSpawns
  <2> QED
    BY <2>1, <2>2, <2>3, <2>4
<1>5. CASE SaveTruncates(i)
  <2>1. TypeOK'
    BY <1>5 DEF TypeOK, SaveTruncates
  <2>2. Spawned'
    BY <1>5 DEF Spawned, SaveTruncates
  <2>3. Finishing' /\ PublishedIsComplete' /\ FinishedMeansPublished'
    BY <1>5 DEF Finishing, PublishedIsComplete, FinishedMeansPublished, SaveTruncates
  <2>4. FaultFree'
    BY <1>5 DEF FaultFree, EveryCaptureIsWatched, PublishRaceSafe, SaveTruncates
  <2> QED
    BY <2>1, <2>2, <2>3, <2>4
<1>6. CASE SaveWrites(i)
  <2>1. TypeOK'
    BY <1>6 DEF TypeOK, SaveWrites
  <2>2. Spawned'
    BY <1>6 DEF Spawned, SaveWrites
  <2>3. Finishing' /\ PublishedIsComplete' /\ FinishedMeansPublished'
    BY <1>6 DEF Finishing, PublishedIsComplete, FinishedMeansPublished, SaveWrites
  <2>4. FaultFree'
    BY <1>6 DEF FaultFree, EveryCaptureIsWatched, PublishRaceSafe, SaveWrites
  <2> QED
    BY <2>1, <2>2, <2>3, <2>4
<1>7. CASE StartLaunches(i)
  <2>1. TypeOK'
    BY <1>7 DEF TypeOK, StartLaunches
  <2>2. Spawned'
    BY <1>7 DEF TypeOK, Spawned, StartLaunches
  <2>3. Finishing' /\ PublishedIsComplete' /\ FinishedMeansPublished'
    BY <1>7
       DEF TypeOK, Finishing, PublishedIsComplete, FinishedMeansPublished,
           StartLaunches
  <2>4. FaultFree'
    BY <1>7
       DEF TypeOK, FaultFree, EveryCaptureIsWatched, PublishRaceSafe,
           StartLaunches
  <2> QED
    BY <2>1, <2>2, <2>3, <2>4
<1> QED
  BY <1>1, <1>2, <1>3, <1>4, <1>5, <1>6, <1>7

\* A start that fails, and the clean-up it does.
LEMMA FailedStartSteps ==
    ASSUME IInv, NEW i \in Invokers,
           \/ SpawnFails(i)
           \/ SaveFails(i)
           \/ LaunchFails(i)
           \/ AbortState(i)
           \/ AbortPartial(i)
    PROVE  IInv'
<1> USE NamesAssumption, OptionsAssumption
    DEF IInv, Agents, JobOf, Goto, Exit, files, processRunning, InvokerPoints,
        SupervisorPoints, FinishPoints, PublishPoints, BeforeSpawn, AfterSpawn
<1>1. CASE SpawnFails(i)
  <2>1. TypeOK'
    BY <1>1 DEF TypeOK, SpawnFails
  <2>2. Spawned'
    BY <1>1 DEF TypeOK, Spawned, SpawnFails
  <2>3. Finishing' /\ PublishedIsComplete' /\ FinishedMeansPublished'
    BY <1>1 DEF Finishing, PublishedIsComplete, FinishedMeansPublished, SpawnFails
  <2>4. FaultFree'
    BY <1>1 DEF TypeOK, FaultFree, EveryCaptureIsWatched, PublishRaceSafe, SpawnFails
  <2> QED
    BY <2>1, <2>2, <2>3, <2>4
<1>2. CASE SaveFails(i)
  <2>1. TypeOK'
    BY <1>2 DEF TypeOK, SaveFails, Signal
  <2>2. Spawned'
    BY <1>2 DEF Spawned, SaveFails, Signal
  <2>3. Finishing' /\ PublishedIsComplete' /\ FinishedMeansPublished'
    BY <1>2
       DEF Finishing, PublishedIsComplete, FinishedMeansPublished, SaveFails,
           Signal
  <2>4. FaultFree'
    BY <1>2
       DEF TypeOK, FaultFree, EveryCaptureIsWatched, PublishRaceSafe, SaveFails,
           Signal
  <2> QED
    BY <2>1, <2>2, <2>3, <2>4
<1>3. CASE LaunchFails(i)
  <2>1. TypeOK'
    BY <1>3 DEF TypeOK, LaunchFails, Signal
  <2>2. Spawned'
    BY <1>3 DEF Spawned, LaunchFails, Signal
  <2>3. Finishing' /\ PublishedIsComplete' /\ FinishedMeansPublished'
    BY <1>3
       DEF Finishing, PublishedIsComplete, FinishedMeansPublished, LaunchFails,
           Signal
  <2>4. FaultFree'
    BY <1>3
       DEF TypeOK, FaultFree, EveryCaptureIsWatched, PublishRaceSafe,
           LaunchFails, Signal
  <2> QED
    BY <2>1, <2>2, <2>3, <2>4
<1>4. CASE AbortState(i)
  <2>1. TypeOK'
    BY <1>4 DEF TypeOK, AbortState, RemoveState
  <2>2. Spawned'
    BY <1>4 DEF Spawned, AbortState, RemoveState
  <2>3. Finishing' /\ PublishedIsComplete' /\ FinishedMeansPublished'
    BY <1>4
       DEF Finishing, PublishedIsComplete, FinishedMeansPublished, AbortState,
           RemoveState
  <2>4. FaultFree'
    BY <1>4
       DEF FaultFree, EveryCaptureIsWatched, PublishRaceSafe, AbortState,
           RemoveState
  <2> QED
    BY <2>1, <2>2, <2>3, <2>4
<1>5. CASE AbortPartial(i)
  <2>1. TypeOK'
    BY <1>5 DEF TypeOK, AbortPartial
  <2>2. Spawned'
    BY <1>5 DEF TypeOK, Spawned, AbortPartial
  <2>3. Finishing' /\ PublishedIsComplete' /\ FinishedMeansPublished'
    BY <1>5 DEF Finishing, PublishedIsComplete, FinishedMeansPublished, AbortPartial
  <2>4. FaultFree'
    BY <1>5 DEF FaultFree, EveryCaptureIsWatched, PublishRaceSafe, AbortPartial
  <2> QED
    BY <2>1, <2>2, <2>3, <2>4
<1> QED
  BY <1>1, <1>2, <1>3, <1>4, <1>5

\* stop and status, up to finishCapture.
LEMMA StopAndStatusSteps ==
    ASSUME IInv, NEW i \in Invokers,
           \/ StopReads(i)
           \/ StopSignals(i)
           \/ StopAwaits(i)
           \/ StatusReads(i)
           \/ StatusProbes(i)
           \/ StatusClears(i)
    PROVE  IInv'
<1> USE NamesAssumption, OptionsAssumption
    DEF IInv, Agents, JobOf, Goto, Exit, files, processRunning, InvokerPoints,
        SupervisorPoints, FinishPoints, PublishPoints, BeforeSpawn, AfterSpawn
<1>1. CASE StopReads(i)
  <2>1. TypeOK'
    BY <1>1 DEF TypeOK, StopReads
  <2>2. Spawned'
    BY <1>1 DEF TypeOK, Spawned, StopReads
  <2>3. Finishing' /\ PublishedIsComplete' /\ FinishedMeansPublished'
    BY <1>1 DEF Finishing, PublishedIsComplete, FinishedMeansPublished, StopReads
  <2>4. FaultFree'
    BY <1>1 DEF FaultFree, EveryCaptureIsWatched, PublishRaceSafe, StopReads
  <2> QED
    BY <2>1, <2>2, <2>3, <2>4
<1>2. CASE StopSignals(i)
  <2>1. TypeOK'
    BY <1>2 DEF TypeOK, StopSignals, Signal
  <2>2. Spawned'
    BY <1>2 DEF Spawned, StopSignals, Signal
  <2>3. Finishing' /\ PublishedIsComplete' /\ FinishedMeansPublished'
    BY <1>2
       DEF Finishing, PublishedIsComplete, FinishedMeansPublished, StopSignals,
           Signal
  <2>4. FaultFree'
    BY <1>2 DEF FaultFree, EveryCaptureIsWatched, PublishRaceSafe, StopSignals, Signal
  <2> QED
    BY <2>1, <2>2, <2>3, <2>4
<1>3. CASE StopAwaits(i)
  <2>1. TypeOK'
    BY <1>3 DEF TypeOK, StopAwaits
  <2>2. Spawned'
    BY <1>3 DEF TypeOK, Spawned, StopAwaits
  <2>3. Finishing' /\ PublishedIsComplete' /\ FinishedMeansPublished'
    BY <1>3
       DEF TypeOK, Spawned, Finishing, PublishedIsComplete,
           FinishedMeansPublished, StopAwaits
  <2>4. FaultFree'
    BY <1>3 DEF TypeOK, FaultFree, EveryCaptureIsWatched, PublishRaceSafe, StopAwaits
  <2> QED
    BY <2>1, <2>2, <2>3, <2>4
<1>4. CASE StatusReads(i)
  <2>1. TypeOK'
    BY <1>4 DEF TypeOK, StatusReads
  <2>2. Spawned'
    BY <1>4 DEF TypeOK, Spawned, StatusReads
  <2>3. Finishing' /\ PublishedIsComplete' /\ FinishedMeansPublished'
    BY <1>4
       DEF TypeOK, Finishing, PublishedIsComplete, FinishedMeansPublished,
           StatusReads
  <2>4. FaultFree'
    BY <1>4 DEF TypeOK, FaultFree, EveryCaptureIsWatched, PublishRaceSafe, StatusReads
  <2> QED
    BY <2>1, <2>2, <2>3, <2>4
<1>5. CASE StatusProbes(i)
  <2>1. TypeOK'
    BY <1>5 DEF TypeOK, StatusProbes
  <2>2. Spawned'
    BY <1>5 DEF TypeOK, Spawned, StatusProbes
  <2>3. Finishing' /\ PublishedIsComplete' /\ FinishedMeansPublished'
    BY <1>5
       DEF TypeOK, Spawned, Finishing, PublishedIsComplete,
           FinishedMeansPublished, StatusProbes
  <2>4. FaultFree'
    BY <1>5
       DEF TypeOK, FaultFree, EveryCaptureIsWatched, PublishRaceSafe,
           StatusProbes
  <2> QED
    BY <2>1, <2>2, <2>3, <2>4
<1>6. CASE StatusClears(i)
  <2>1. TypeOK'
    BY <1>6 DEF TypeOK, StatusClears, RemoveState
  <2>2. Spawned'
    BY <1>6 DEF Spawned, StatusClears, RemoveState
  <2>3. Finishing' /\ PublishedIsComplete' /\ FinishedMeansPublished'
    BY <1>6
       DEF Finishing, PublishedIsComplete, FinishedMeansPublished, StatusClears,
           RemoveState
  <2>4. FaultFree'
    BY <1>6
       DEF FaultFree, EveryCaptureIsWatched, PublishRaceSafe, StatusClears,
           RemoveState
  <2> QED
    BY <2>1, <2>2, <2>3, <2>4
<1> QED
  BY <1>1, <1>2, <1>3, <1>4, <1>5, <1>6

\* The supervisor, up to finishCapture, and what else happens to a capture.
LEMMA SupervisorSteps ==
    ASSUME IInv, NEW c \in Captures,
           \/ SupervisorSeesExit(c)
           \/ SupervisorKills(c)
           \/ SupervisorGivesUp(c)
           \/ TcpdumpExits(c)
           \/ WorkerTakes(c)
    PROVE  IInv'
<1> USE NamesAssumption, OptionsAssumption
    DEF IInv, Agents, JobOf, Goto, Exit, files, processRunning, InvokerPoints,
        SupervisorPoints, FinishPoints, PublishPoints, BeforeSpawn, AfterSpawn
<1>1. CASE SupervisorSeesExit(c)
  <2>1. TypeOK'
    BY <1>1 DEF TypeOK, SupervisorSeesExit
  <2>2. Spawned'
    BY <1>1 DEF Spawned, SupervisorSeesExit
  <2>3. Finishing' /\ PublishedIsComplete' /\ FinishedMeansPublished'
    BY <1>1
       DEF TypeOK, Spawned, Finishing, PublishedIsComplete,
           FinishedMeansPublished, SupervisorSeesExit
  <2>4. FaultFree'
    BY <1>1 DEF FaultFree, EveryCaptureIsWatched, PublishRaceSafe, SupervisorSeesExit
  <2> QED
    BY <2>1, <2>2, <2>3, <2>4
<1>2. CASE SupervisorKills(c)
  <2>1. TypeOK'
    BY <1>2 DEF TypeOK, SupervisorKills, Signal
  <2>2. Spawned'
    BY <1>2 DEF Spawned, SupervisorKills, Signal
  <2>3. Finishing' /\ PublishedIsComplete' /\ FinishedMeansPublished'
    BY <1>2
       DEF Finishing, PublishedIsComplete, FinishedMeansPublished,
           SupervisorKills, Signal
  <2>4. FaultFree'
    BY <1>2
       DEF FaultFree, EveryCaptureIsWatched, PublishRaceSafe, SupervisorKills,
           Signal
  <2> QED
    BY <2>1, <2>2, <2>3, <2>4
<1>3. CASE SupervisorGivesUp(c)
  <2>1. TypeOK'
    BY <1>3 DEF TypeOK, SupervisorGivesUp
  <2>2. Spawned'
    BY <1>3 DEF Spawned, SupervisorGivesUp
  <2>3. Finishing' /\ PublishedIsComplete' /\ FinishedMeansPublished'
    BY <1>3
       DEF Finishing, PublishedIsComplete, FinishedMeansPublished,
           SupervisorGivesUp
  <2>4. FaultFree'
    BY <1>3
       DEF TypeOK, FaultFree, EveryCaptureIsWatched, PublishRaceSafe,
           SupervisorGivesUp
  <2> QED
    BY <2>1, <2>2, <2>3, <2>4
<1>4. CASE TcpdumpExits(c)
  <2>1. TypeOK'
    BY <1>4 DEF TypeOK, TcpdumpExits
  <2>2. Spawned'
    BY <1>4 DEF Spawned, TcpdumpExits
  <2>3. Finishing' /\ PublishedIsComplete' /\ FinishedMeansPublished'
    BY <1>4 DEF Finishing, PublishedIsComplete, FinishedMeansPublished, TcpdumpExits
  <2>4. FaultFree'
    BY <1>4 DEF FaultFree, EveryCaptureIsWatched, PublishRaceSafe, TcpdumpExits
  <2> QED
    BY <2>1, <2>2, <2>3, <2>4
<1>5. CASE WorkerTakes(c)
  <2>1. TypeOK'
    BY <1>5 DEF TypeOK, WorkerTakes
  <2>2. Spawned'
    BY <1>5 DEF Spawned, WorkerTakes
  <2>3. Finishing' /\ PublishedIsComplete' /\ FinishedMeansPublished'
    BY <1>5 DEF Finishing, PublishedIsComplete, FinishedMeansPublished, WorkerTakes
  <2>4. FaultFree'
    <3>1. final' # published'
      BY <1>5 DEF TypeOK, WorkerTakes
    <3> QED
      BY <3>1, <1>5 DEF FaultFree, EveryCaptureIsWatched, PublishRaceSafe, WorkerTakes
  <2> QED
    BY <2>1, <2>2, <2>3, <2>4
<1> QED
  BY <1>1, <1>2, <1>3, <1>4, <1>5

\* finishCapture, whoever runs it, and the death of a helper process.
LEMMA FinishSteps ==
    ASSUME IInv, NEW a \in Agents,
           \/ PublishChecksFinal(a)
           \/ PublishChecksPartial(a)
           \/ PublishRenames(a)
           \/ FinishReadsState(a)
           \/ FinishRemovesState(a)
           \/ HelperKilled(a)
    PROVE  IInv'
<1> USE NamesAssumption, OptionsAssumption
    DEF IInv, Agents, JobOf, Goto, Exit, files, processRunning, InvokerPoints,
        SupervisorPoints, FinishPoints, PublishPoints, BeforeSpawn, AfterSpawn
<1>1. CASE PublishChecksFinal(a)
  <2>1. TypeOK'
    BY <1>1 DEF TypeOK, PublishChecksFinal, PublishDone, PublishError
  <2>2. Spawned'
    BY <1>1 DEF TypeOK, Spawned, PublishChecksFinal, PublishDone, PublishError
  <2>3. Finishing' /\ PublishedIsComplete' /\ FinishedMeansPublished'
    BY <1>1
       DEF TypeOK, Finishing, PublishedIsComplete, FinishedMeansPublished,
           PublishChecksFinal, PublishDone, PublishError
  <2>4. FaultFree'
    BY <1>1
       DEF TypeOK, FaultFree, EveryCaptureIsWatched, PublishRaceSafe,
           PublishChecksFinal, PublishDone, PublishError
  <2> QED
    BY <2>1, <2>2, <2>3, <2>4
<1>2. CASE PublishChecksPartial(a)
  <2>1. TypeOK'
    BY <1>2
       DEF TypeOK, PublishChecksPartial, PublishWithoutPartial, PublishDone,
           PublishError
  <2>2. Spawned'
    BY <1>2
       DEF TypeOK, Spawned, PublishChecksPartial, PublishWithoutPartial,
           PublishDone, PublishError
  <2>3. Finishing' /\ PublishedIsComplete' /\ FinishedMeansPublished'
    BY <1>2
       DEF TypeOK, Finishing, PublishedIsComplete, FinishedMeansPublished,
           PublishChecksPartial, PublishWithoutPartial, PublishDone, PublishError
  <2>4. FaultFree'
    BY <1>2
       DEF TypeOK, Finishing, FaultFree, EveryCaptureIsWatched, PublishRaceSafe,
           PublishChecksPartial, PublishWithoutPartial, PublishDone, PublishError
  <2> QED
    BY <2>1, <2>2, <2>3, <2>4
<1>3. CASE PublishRenames(a)
  <2>1. TypeOK'
    BY <1>3
       DEF TypeOK, PublishRenames, PublishDone, PublishWithoutPartial,
           PublishError
  <2>2. Spawned'
    BY <1>3
       DEF TypeOK, Spawned, PublishRenames, PublishDone, PublishWithoutPartial,
           PublishError
  <2>3. Finishing' /\ PublishedIsComplete' /\ FinishedMeansPublished'
    BY <1>3
       DEF TypeOK, Finishing, PublishedIsComplete, FinishedMeansPublished,
           PublishRenames, PublishDone, PublishWithoutPartial, PublishError
  <2>4. FaultFree'
    BY <1>3
       DEF TypeOK, Finishing, FinishedMeansPublished, FaultFree,
           EveryCaptureIsWatched, PublishRaceSafe, PublishRenames, PublishDone,
           PublishWithoutPartial, PublishError
  <2> QED
    BY <2>1, <2>2, <2>3, <2>4
<1>4. CASE FinishReadsState(a)
  <2>1. TypeOK'
    BY <1>4 DEF TypeOK, FinishReadsState
  <2>2. Spawned'
    BY <1>4 DEF TypeOK, Spawned, FinishReadsState
  <2>3. Finishing' /\ PublishedIsComplete' /\ FinishedMeansPublished'
    BY <1>4
       DEF TypeOK, Finishing, PublishedIsComplete, FinishedMeansPublished,
           FinishReadsState
  <2>4. FaultFree'
    BY <1>4
       DEF TypeOK, Finishing, FinishedMeansPublished, FaultFree,
           EveryCaptureIsWatched, PublishRaceSafe, FinishReadsState
  <2> QED
    BY <2>1, <2>2, <2>3, <2>4
<1>5. CASE FinishRemovesState(a)
  <2>1. TypeOK'
    BY <1>5 DEF TypeOK, FinishRemovesState, RemoveState
  <2>2. Spawned'
    BY <1>5 DEF TypeOK, Spawned, FinishRemovesState, RemoveState
  <2>3. Finishing' /\ PublishedIsComplete' /\ FinishedMeansPublished'
    BY <1>5
       DEF TypeOK, Finishing, PublishedIsComplete, FinishedMeansPublished,
           FinishRemovesState, RemoveState
  <2>4. FaultFree'
    BY <1>5
       DEF Finishing, FinishedMeansPublished, FaultFree, EveryCaptureIsWatched,
           PublishRaceSafe, FinishRemovesState, RemoveState
  <2> QED
    BY <2>1, <2>2, <2>3, <2>4
<1>6. CASE HelperKilled(a)
  <2>1. TypeOK'
    BY <1>6 DEF TypeOK, HelperKilled
  <2>2. Spawned'
    BY <1>6 DEF TypeOK, Spawned, HelperKilled
  <2>3. Finishing' /\ PublishedIsComplete' /\ FinishedMeansPublished'
    BY <1>6
       DEF TypeOK, Finishing, PublishedIsComplete, FinishedMeansPublished,
           HelperKilled
  <2>4. FaultFree'
    BY <1>6
       DEF TypeOK, FaultFree, EveryCaptureIsWatched, PublishRaceSafe,
           HelperKilled
  <2> QED
    BY <2>1, <2>2, <2>3, <2>4
<1> QED
  BY <1>1, <1>2, <1>3, <1>4, <1>5, <1>6

\* A reboot ends every process and leaves the files as they are.
LEMMA RebootStep == ASSUME IInv, Reboot PROVE IInv'
<1> USE NamesAssumption, OptionsAssumption
    DEF IInv, Reboot, Agents, JobOf, processRunning, InvokerPoints, SupervisorPoints,
        FinishPoints, PublishPoints, BeforeSpawn, AfterSpawn
<1>1. TypeOK'
  BY DEF TypeOK
<1>2. Spawned' /\ Finishing'
  BY DEF TypeOK, Spawned, Finishing
<1>3. PublishedIsComplete' /\ FinishedMeansPublished'
  BY DEF TypeOK, PublishedIsComplete, FinishedMeansPublished
<1>4. FaultFree'
  BY DEF TypeOK, FaultFree, EveryCaptureIsWatched, PublishRaceSafe
<1> QED
  BY <1>1, <1>2, <1>3, <1>4

LEMMA StutterStep == ASSUME IInv, UNCHANGED vars PROVE IInv'
BY DEF IInv, vars, TypeOK, Spawned, Finishing, PublishedIsComplete, FinishedMeansPublished,
       FaultFree, EveryCaptureIsWatched, PublishRaceSafe, JobOf, processRunning, Agents

LEMMA StepPreserves == IInv /\ [Next]_vars => IInv'
<1> SUFFICES ASSUME IInv, [Next]_vars PROVE IInv'
  OBVIOUS
<1>1. ASSUME NEW i \in Invokers, Calls(i) \/ Invoker(i) PROVE IInv'
  <2>1. i \in Agents
    BY DEF Agents
  <2>2. CASE Finish(i)
    BY <2>1, <2>2, FinishSteps DEF Finish
  <2>3. CASE Calls(i) \/ Start(i) \/ Abort(i) \/ StopGoes(i) \/ StatusGoes(i)
    BY <2>3, StartSteps, FailedStartSteps, StopAndStatusSteps
       DEF Calls, Start, Abort, StopGoes, StatusGoes
  <2> QED
    BY <1>1, <2>2, <2>3 DEF Invoker
<1>2. ASSUME NEW c \in Captures,
             Supervisor(c) \/ SupervisorKills(c) \/ TcpdumpExits(c) \/ WorkerTakes(c)
      PROVE  IInv'
  <2>1. c \in Agents
    BY DEF Agents
  <2>2. CASE Finish(c)
    BY <2>1, <2>2, FinishSteps DEF Finish
  <2> QED
    BY <1>2, <2>2, SupervisorSteps DEF Supervisor
<1>3. CASE Faults
  BY <1>3, FailedStartSteps, SupervisorSteps, FinishSteps, RebootStep DEF Faults
<1>4. CASE UNCHANGED vars
  BY <1>4, StutterStep
<1> QED
  BY <1>1, <1>2, <1>3, <1>4 DEF Next

LEMMA Inductive == Spec => []IInv
BY InitEstablishes, StepPreserves, PTL DEF Spec

-----------------------------------------------------------------------------

\* The helper's processes and files keep their types.
THEOREM TypeCorrect == Spec => []TypeOK
<1>1. IInv => TypeOK
  BY DEF IInv
<1> QED
  BY <1>1, Inductive, PTL

\* ADR 0005: no capture gets its final name while its tcpdump may still write
\* to it, whatever is interleaved, killed or rebooted.
THEOREM OnlyCompleteCapturesArePublished == Spec => []PublishedIsComplete
<1>1. IInv => PublishedIsComplete
  BY DEF IInv
<1> QED
  BY <1>1, Inductive, PTL

\* A finalizer that reports success has its capture published in full.
THEOREM SuccessMeansPublished == Spec => []FinishedMeansPublished
<1>1. IInv => FinishedMeansPublished
  BY DEF IInv
<1> QED
  BY <1>1, Inductive, PTL

\* Without faults no race, not even one that loses the state file, leaves a
\* running capture, or a partial file, without a process that will end it.
THEOREM CapturesAreWatched == Spec => []EveryCaptureIsWatched
<1>1. IInv => EveryCaptureIsWatched
  BY DEF IInv, FaultFree
<1> QED
  BY <1>1, Inductive, PTL

\* Any number of stops, statuses and supervisors may finish captures at once,
\* and none of them fails for it, until the worker takes a published capture.
THEOREM ConcurrentFinishIsSafe == Spec => []PublishRaceSafe
<1>1. IInv => PublishRaceSafe
  BY DEF IInv, FaultFree
<1> QED
  BY <1>1, Inductive, PTL

-----------------------------------------------------------------------------
(* CaptureHelper implements CaptureOutbox *)

\* A step that disturbs no file, starts and ends no tcpdump is none outside.
LEMMA QuietStep ==
    ASSUME UNCHANGED <<partial, final, published>>,
           \A c \in Captures : /\ tcpdump'[c] = "none" <=> tcpdump[c] = "none"
                               /\ processRunning(c)' <=> processRunning(c)
    PROVE  UNCHANGED [c \in Captures |-> Stage(c)]
BY DEF Stage

LEMMA MoveStep ==
    ASSUME NEW c \in Captures, NEW from, NEW to, Stage(c) \in from, Stage(c)' = to,
           \A d \in Captures : d # c => Stage(d)' = Stage(d)
    PROVE  Outbox!Move(c, from, to)
BY DEF Outbox!Move

\* The steps that change neither the files nor which tcpdump runs.
LEMMA HiddenSteps ==
    ASSUME IInv, NEW a \in Agents,
           \/ a \in Invokers /\ \/ Calls(a) \/ StartChecks(a) \/ SaveTruncates(a) \/ SaveWrites(a)
                                \/ StartLaunches(a) \/ AbortState(a) \/ StopGoes(a) \/ StatusGoes(a)
                                \/ SaveFails(a) \/ LaunchFails(a)
           \/ a \in Captures /\ (SupervisorSeesExit(a) \/ SupervisorKills(a) \/ SupervisorGivesUp(a))
           \/ PublishChecksFinal(a) \/ PublishChecksPartial(a)
           \/ FinishReadsState(a) \/ FinishRemovesState(a) \/ HelperKilled(a)
    PROVE  UNCHANGED [c \in Captures |-> Stage(c)]
<1> USE DEF files
<1>1. UNCHANGED <<partial, final, published>>
  BY DEF Calls, StartReads, StopReads, StatusReads, StartChecks, SaveTruncates, SaveWrites,
         StartLaunches, AbortState, StopGoes, StopSignals, StopAwaits, StatusGoes, StatusClears,
         StatusProbes, SaveFails, LaunchFails, SupervisorSeesExit, SupervisorKills,
         SupervisorGivesUp, PublishChecksFinal, PublishChecksPartial, FinishReadsState,
         FinishRemovesState, HelperKilled
<1>2. tcpdump' = tcpdump \/ \E c : Signal(c)
  BY DEF Calls, StartReads, StopReads, StatusReads, StartChecks, SaveTruncates, SaveWrites,
         StartLaunches, AbortState, StopGoes, StopSignals, StopAwaits, StatusGoes, StatusClears,
         StatusProbes, SaveFails, LaunchFails, SupervisorSeesExit, SupervisorKills,
         SupervisorGivesUp, PublishChecksFinal, PublishChecksPartial, FinishReadsState,
         FinishRemovesState, HelperKilled
<1>3. \A c \in Captures : /\ tcpdump'[c] = "none" <=> tcpdump[c] = "none"
                          /\ processRunning(c)' <=> processRunning(c)
  BY <1>2 DEF Signal, processRunning, IInv, TypeOK
<1> QED
  BY <1>1, <1>3, QuietStep

\* Recordings that end are set apart, all other stages stay.
LEMMA EndStep ==
    ASSUME NEW ended \in SUBSET { c \in Captures : Stage(c) = "recording" },
           \A c \in Captures : Stage(c)' = IF c \in ended THEN "ended" ELSE Stage(c)
    PROVE  Outbox!End
BY DEF Outbox!End

\* The steps that do, and the step of CaptureOutbox each of them is.
LEMMA StartsAreSeen ==
    ASSUME IInv, NEW i \in Invokers, NEW c, c = job[i]
    PROVE  /\ StartCreates(i) \/ SpawnFails(i) => UNCHANGED [d \in Captures |-> Stage(d)]
           /\ StartSpawns(i) => Outbox!Record(c)
           /\ AbortPartial(i) => Outbox!Lose(c) \/ UNCHANGED [d \in Captures |-> Stage(d)]
<1>1. ASSUME StartCreates(i) \/ SpawnFails(i)
      PROVE  UNCHANGED [d \in Captures |-> Stage(d)]
  <2>1. pc[i] \in BeforeSpawn
    BY <1>1 DEF StartCreates, SpawnFails, BeforeSpawn
  <2>2. c \in Captures /\ tcpdump[c] = "none"
    BY <2>1 DEF IInv, TypeOK, Spawned, BeforeSpawn
  <2>3. /\ partial' \in {partial \cup {c}, partial \ {c}}
        /\ UNCHANGED <<tcpdump, published, final>>
    BY <1>1 DEF StartCreates, SpawnFails
  <2>4. \A d \in Captures : Stage(d)' = Stage(d)
    BY <2>2, <2>3 DEF Stage, processRunning
  <2> QED
    BY <2>4
<1>2. ASSUME StartSpawns(i) PROVE Outbox!Record(c)
  <2>1. c \in Captures /\ tcpdump[c] = "none" /\ c \in partial /\ c \notin published
    BY <1>2 DEF StartSpawns, IInv, TypeOK, Spawned, BeforeSpawn
  <2>2. /\ UNCHANGED <<partial, published, final>>
        /\ \A d \in Captures : tcpdump'[d] = IF d = c THEN "running" ELSE tcpdump[d]
    BY <1>2, <2>1 DEF StartSpawns, files, IInv, TypeOK
  <2>3. Stage(c) \in {"unused"} /\ Stage(c)' = "recording"
    BY <2>1, <2>2 DEF Stage, processRunning
  <2>4. \A d \in Captures : d # c => Stage(d)' = Stage(d)
    BY <2>2 DEF Stage, processRunning
  <2> QED
    BY ONLY <2>1, <2>3, <2>4, MoveStep DEF Outbox!Record
<1>3. ASSUME AbortPartial(i)
      PROVE  Outbox!Lose(c) \/ UNCHANGED [d \in Captures |-> Stage(d)]
  <2>1. c \in Captures /\ tcpdump[c] # "none" /\ published \cap partial = {}
    BY <1>3 DEF AbortPartial, IInv, TypeOK, Spawned, BeforeSpawn
  <2>2. partial' = partial \ {c} /\ UNCHANGED <<tcpdump, published, final>>
    BY <1>3 DEF AbortPartial
  <2>3. \A d \in Captures : d # c => Stage(d)' = Stage(d)
    BY <2>2 DEF Stage, processRunning
  <2>4. CASE c \in partial
    <3>1. Stage(c) \in {"recording", "ended"} /\ Stage(c)' = "lost"
      BY <2>1, <2>2, <2>4 DEF Stage, processRunning
    <3> QED
      BY ONLY <2>1, <2>3, <3>1, MoveStep DEF Outbox!Lose
  <2>5. CASE c \notin partial
    <3>1. Stage(c)' = Stage(c)
      BY <2>2, <2>5 DEF Stage, processRunning
    <3> QED
      BY <2>3, <3>1
  <2> QED
    BY <2>4, <2>5
<1> QED
  BY <1>1, <1>2, <1>3

LEMMA PublicationIsSeen ==
    ASSUME IInv, NEW a \in Agents, PublishRenames(a)
    PROVE  \/ JobOf(a) \in Captures /\ Outbox!Publish(JobOf(a))
           \/ UNCHANGED [c \in Captures |-> Stage(c)]
<1>1. CASE JobOf(a) \in partial
  <2>1. JobOf(a) \in Captures
    BY <1>1 DEF IInv, TypeOK
  <2>2. tcpdump[JobOf(a)] = "exited" /\ JobOf(a) \notin published /\ JobOf(a) \notin final
    BY <1>1 DEF PublishRenames, IInv, TypeOK, Finishing, FinishPoints, PublishPoints
  <2>3. /\ partial' = partial \ {JobOf(a)} /\ final' = final \cup {JobOf(a)}
        /\ published' = published \cup {JobOf(a)} /\ tcpdump' = tcpdump
    BY <1>1 DEF PublishRenames, PublishWithoutPartial
  <2>4. Stage(JobOf(a)) = "ended"
    BY <1>1, <2>1, <2>2 DEF Stage, processRunning
  <2>5. \A d \in Captures : Stage(d)' = IF d = JobOf(a) THEN "available" ELSE Stage(d)
    BY <2>1, <2>3 DEF Stage, processRunning
  <2> DEFINE c == JobOf(a)
  <2>6. /\ c \in Captures /\ Stage(c) \in {"ended"}
        /\ \A d \in Captures : Stage(d)' = IF d = c THEN "available" ELSE Stage(d)
    BY <2>1, <2>4, <2>5
  <2> HIDE DEF c
  <2>7. c \in Captures /\ Outbox!Publish(c)
    BY ONLY <2>6 DEF Outbox!Publish, Outbox!Move
  <2> QED
    BY <2>7 DEF c
<1>2. CASE JobOf(a) \notin partial
  BY <1>2 DEF PublishRenames, Stage, processRunning
<1> QED
  BY <1>1, <1>2

LEMMA EndsAreSeen ==
    ASSUME IInv, Reboot \/ \E c \in Captures : TcpdumpExits(c)
    PROVE  Outbox!End
<1> DEFINE ended == { c \in Captures : Stage(c) = "recording" /\ tcpdump'[c] # tcpdump[c] }
<1>1. \A c \in Captures :
          tcpdump'[c] # tcpdump[c] => processRunning(c) /\ tcpdump'[c] = "exited"
  BY DEF Reboot, TcpdumpExits, IInv, TypeOK
<1>2. UNCHANGED <<partial, final, published>>
  BY DEF Reboot, TcpdumpExits, files
<1>3. \A c \in Captures : Stage(c)' = IF c \in ended THEN "ended" ELSE Stage(c)
  BY <1>1, <1>2 DEF Stage, processRunning, IInv, TypeOK
<1> QED
  BY <1>3, EndStep

LEMMA TakingIsSeen ==
    ASSUME IInv, NEW c \in Captures, WorkerTakes(c)
    PROVE  Outbox!Take(c)
<1>1. Stage(c) \in {"available"} /\ Stage(c)' = "taken"
  BY DEF WorkerTakes, Stage, IInv, TypeOK
<1>2. \A d \in Captures : d # c => Stage(d)' = Stage(d)
  BY DEF WorkerTakes, Stage, processRunning
<1> QED
  BY ONLY <1>1, <1>2, MoveStep DEF Outbox!Take

\* Every step of the helper is a step of CaptureOutbox, or none.
LEMMA StepIsSeen ==
    ASSUME IInv, [Next]_vars
    PROVE  [Outbox!Next]_([c \in Captures |-> Stage(c)])
<1> DEFINE Seen == [Outbox!Next]_([c \in Captures |-> Stage(c)])
<1>1. ASSUME NEW i \in Invokers, Calls(i) \/ Invoker(i) \/ SpawnFails(i) \/ SaveFails(i) \/ LaunchFails(i)
      PROVE  Seen
  <2>1. i \in Agents
    BY DEF Agents
  <2>2. CASE StartCreates(i) \/ SpawnFails(i)
    BY <2>2, StartsAreSeen
  <2>3. CASE StartSpawns(i) \/ AbortPartial(i)
    <3>1. job[i] \in Captures
      BY <2>3 DEF StartSpawns, AbortPartial, IInv, TypeOK
    <3>2. Outbox!Record(job[i]) \/ Outbox!Lose(job[i]) \/ UNCHANGED [c \in Captures |-> Stage(c)]
      BY <2>3, StartsAreSeen
    <3> QED
      BY <3>1, <3>2 DEF Outbox!Next
  <2>4. CASE PublishRenames(i)
    BY <2>1, <2>4, PublicationIsSeen DEF Outbox!Next
  <2> QED
    BY <1>1, <2>1, <2>2, <2>3, <2>4, HiddenSteps
       DEF Invoker, Start, Abort, Finish
<1>2. ASSUME NEW c \in Captures,
             \/ Supervisor(c) \/ SupervisorKills(c) \/ SupervisorGivesUp(c)
             \/ TcpdumpExits(c) \/ WorkerTakes(c)
      PROVE  Seen
  <2>1. c \in Agents /\ JobOf(c) = c
    BY DEF Agents, JobOf
  <2>2. CASE TcpdumpExits(c)
    BY <2>2, EndsAreSeen DEF Outbox!Next
  <2>3. CASE WorkerTakes(c)
    BY <2>3, TakingIsSeen DEF Outbox!Next
  <2>4. CASE PublishRenames(c)
    BY <2>1, <2>4, PublicationIsSeen DEF Outbox!Next
  <2> QED
    BY <1>2, <2>1, <2>2, <2>3, <2>4, HiddenSteps DEF Supervisor, Finish
<1>3. ASSUME NEW a \in Agents, HelperKilled(a) PROVE Seen
  BY <1>3, HiddenSteps
<1>4. CASE Reboot
  BY <1>4, EndsAreSeen DEF Outbox!Next
<1>5. CASE UNCHANGED vars
  BY <1>5, QuietStep DEF vars, processRunning
<1> QED
  BY <1>1, <1>2, <1>3, <1>4, <1>5 DEF Next, Faults

LEMMA InitIsSeen == Init => Outbox!Init
BY DEF Init, Outbox!Init, Stage

\* The helper implements CaptureOutbox: whatever its processes race for and
\* however they die, nobody who looks at the published files sees more than
\* captures that appear once, whole, after their recording has ended.
THEOREM HelperImplementsOutbox == Spec => KeepsOutbox
<1>1. Init => Outbox!Init
  BY InitIsSeen
<1>2. IInv /\ [Next]_vars => [Outbox!Next]_([c \in Captures |-> Stage(c)])
  BY StepIsSeen
<1> QED
  BY <1>1, <1>2, Inductive, PTL DEF Spec, KeepsOutbox, Outbox!Spec
=============================================================================
