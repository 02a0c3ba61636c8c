---------------------------- MODULE CaptureHelper ----------------------------
(***************************************************************************)
(* helper/main.go: the root-owned helper that takes captures.  There is no *)
(* daemon: every start, stop and status is a process of its own, started   *)
(* by the menu app or by a user at a shell; a successful start leaves      *)
(* tcpdump and a supervisor process behind.  They share nothing but files  *)
(* and signals: the partial capture of each start, the published capture   *)
(* it is renamed to, and one state file, helper-state.json.  Nothing locks *)
(* these files, so every system call is a step of its own here.            *)
(*                                                                         *)
(* A capture stands for its output path and for its tcpdump process: the   *)
(* menu app names each file after the second of the start, and a pid is    *)
(* not reused while somebody remembers it.                                 *)
(***************************************************************************)
EXTENDS Integers, FiniteSets

CONSTANTS
    Captures,       \* starts that may be made, one output path and pid each
    Invokers,       \* callers of the helper, one process at a time each
    Absent, Torn,   \* state file missing; state file without complete JSON
    WorkerRuns,     \* the worker consumes published captures
    MaxFaults       \* bound: killed helpers, reboots, failing system calls

ASSUME NamesAssumption ==
    /\ Absent \notin Captures /\ Torn \notin Captures /\ Absent # Torn
    /\ Captures \cap Invokers = {}
ASSUME OptionsAssumption == WorkerRuns \in BOOLEAN /\ MaxFaults \in Nat

VARIABLES
    pc,         \* where each helper process is; supervisors go by their capture
    job,        \* the capture each invoker's process works on, or Absent
    tcpdump,    \* each capture's tcpdump process
    partial,    \* captures whose .pcap.partial file exists
    final,      \* captures whose .pcap file exists
    stateFile,  \* what helper-state.json holds
    writers,    \* invokers with the present state file open for writing
    faults,     \* faults that may still happen
    published,  \* history: captures ever renamed to their final name
    failed      \* history: finalizers that died with a publication error

vars == <<pc, job, tcpdump, partial, final, stateFile, writers, faults,
          published, failed>>
files == <<partial, final, stateFile, writers, published>>

Agents == Invokers \cup Captures
JobOf(a) == IF a \in Captures THEN a ELSE job[a]

\* Points of finishCapture, which stop, status and the supervisor all run.
PublishPoints == {"pubFinal", "pubPartial", "pubRename"}
FinishPoints  == PublishPoints \cup {"readSaved", "remove"}

\* Points of startCapture before and after cmd.Start.
BeforeSpawn == {"create", "spawn"}
AfterSpawn  == {"save", "write", "launch", "abortState", "abortPartial"}

InvokerPoints ==
    {"idle", "check", "clear", "probe", "signal", "await"} \cup BeforeSpawn \cup AfterSpawn \cup FinishPoints
SupervisorPoints == {"none", "watch", "kill", "done"} \cup FinishPoints

processRunning(c) == tcpdump[c] \in {"running", "signalled"}

Goto(a, point) == pc' = [pc EXCEPT ![a] = point]
Exit(a) ==
    /\ Goto(a, IF a \in Captures THEN "done" ELSE "idle")
    /\ job' = IF a \in Captures THEN job ELSE [job EXCEPT ![a] = Absent]

Signal(c) ==
    tcpdump' = [tcpdump EXCEPT ![c] = IF @ = "running" THEN "signalled" ELSE @]

\* os.Remove(statePath()): whoever has the file open goes on writing to the
\* removed file.
RemoveState == stateFile' = Absent /\ writers' = {}

-----------------------------------------------------------------------------

Init ==
    /\ pc = [a \in Agents |-> IF a \in Captures THEN "none" ELSE "idle"]
    /\ job = [i \in Invokers |-> Absent]
    /\ tcpdump = [c \in Captures |-> "none"]
    /\ partial = {} /\ final = {} /\ published = {}
    /\ stateFile = Absent /\ writers = {}
    /\ faults = MaxFaults
    /\ failed = {}

(* startCapture *)

\* Mutant: the output path may exist already.
FreshAnyPath(c) == \A i \in Invokers : job[i] # c

Fresh(c) == tcpdump[c] = "none" /\ c \notin partial /\ \A i \in Invokers : job[i] # c

\* A state file that is missing or unreadable counts as no capture.
StartReads(i) ==
    /\ pc[i] = "idle"
    /\ \/ /\ stateFile \in Captures
          /\ Goto(i, "check")
          /\ job' = [job EXCEPT ![i] = stateFile]
       \/ /\ stateFile \notin Captures
          /\ Goto(i, "create")
          /\ \E c \in Captures : Fresh(c) /\ job' = [job EXCEPT ![i] = c]
    /\ UNCHANGED <<tcpdump, files, faults, failed>>

\* "capture is already running" if the process that was read still runs, and
\* "output capture path must not already exist" if no unused path is left.
StartChecks(i) ==
    /\ pc[i] = "check"
    /\ \/ /\ processRunning(job[i]) \/ \A c \in Captures : ~Fresh(c)
          /\ Exit(i)
       \/ /\ ~processRunning(job[i])
          /\ Goto(i, "create")
          /\ \E c \in Captures : Fresh(c) /\ job' = [job EXCEPT ![i] = c]
    /\ UNCHANGED <<tcpdump, files, faults, failed>>

StartCreates(i) ==
    /\ pc[i] = "create"
    /\ partial' = partial \cup {job[i]}
    /\ Goto(i, "spawn")
    /\ UNCHANGED <<job, tcpdump, final, stateFile, writers, published, faults, failed>>

StartSpawns(i) ==
    /\ pc[i] = "spawn"
    /\ tcpdump' = [tcpdump EXCEPT ![job[i]] = "running"]
    /\ Goto(i, "save")
    /\ UNCHANGED <<job, files, faults, failed>>

\* os.WriteFile opens the file with O_TRUNC and writes it in a second call.
SaveTruncates(i) ==
    /\ pc[i] = "save"
    /\ stateFile' = Torn
    /\ writers' = writers \cup {i}
    /\ Goto(i, "write")
    /\ UNCHANGED <<job, tcpdump, partial, final, published, faults, failed>>

\* Written over another start's state, a shorter one leaves its tail behind.
SaveWrites(i) ==
    /\ pc[i] = "write"
    /\ \/ i \in writers /\ stateFile' = job[i]
       \/ i \in writers /\ stateFile # Torn /\ stateFile' = Torn
       \/ i \notin writers /\ stateFile' = stateFile
    /\ writers' = writers \ {i}
    /\ Goto(i, "launch")
    /\ UNCHANGED <<job, tcpdump, partial, final, published, faults, failed>>

\* Mutant: no supervisor for a tcpdump that has ended already.
StartLaunchesIfRunning(i) ==
    /\ pc[i] = "launch"
    /\ pc' = [pc EXCEPT ![i] = "idle",
                       ![job[i]] = IF processRunning(job[i]) THEN "watch" ELSE "done"]
    /\ job' = [job EXCEPT ![i] = Absent]
    /\ UNCHANGED <<tcpdump, files, faults, failed>>

StartLaunches(i) ==
    /\ pc[i] = "launch"
    /\ pc' = [pc EXCEPT ![i] = "idle", ![job[i]] = "watch"]
    /\ job' = [job EXCEPT ![i] = Absent]
    /\ UNCHANGED <<tcpdump, files, faults, failed>>

\* The chown, or tcpdump's start, fails: the partial file is removed.
SpawnFails(i) ==
    /\ pc[i] = "spawn" /\ faults > 0
    /\ faults' = faults - 1
    /\ partial' = partial \ {job[i]}
    /\ Exit(i)
    /\ UNCHANGED <<tcpdump, final, stateFile, writers, published, failed>>

SaveFails(i) ==
    /\ pc[i] \in {"save", "write"} /\ faults > 0
    /\ faults' = faults - 1
    /\ Signal(job[i])
    /\ writers' = writers \ {i}
    /\ Goto(i, "abortPartial")
    /\ UNCHANGED <<job, partial, final, stateFile, published, failed>>

LaunchFails(i) ==
    /\ pc[i] = "launch" /\ faults > 0
    /\ faults' = faults - 1
    /\ Signal(job[i])
    /\ Goto(i, "abortState")
    /\ UNCHANGED <<job, files, failed>>

AbortState(i) ==
    /\ pc[i] = "abortState"
    /\ RemoveState
    /\ Goto(i, "abortPartial")
    /\ UNCHANGED <<job, tcpdump, partial, final, published, faults, failed>>

AbortPartial(i) ==
    /\ pc[i] = "abortPartial"
    /\ partial' = partial \ {job[i]}
    /\ Exit(i)
    /\ UNCHANGED <<tcpdump, final, stateFile, writers, published, faults, failed>>

(* stop and status *)

\* With no state file stop prints "capture is not running" and succeeds;
\* with a torn one it fails.  Neither changes anything.
StopReads(i) ==
    /\ pc[i] = "idle" /\ stateFile \in Captures
    /\ job' = [job EXCEPT ![i] = stateFile]
    /\ Goto(i, "signal")
    /\ UNCHANGED <<tcpdump, files, faults, failed>>

StopSignals(i) ==
    /\ pc[i] = "signal"
    /\ Signal(job[i])
    /\ Goto(i, "await")
    /\ UNCHANGED <<job, files, faults, failed>>

\* Mutant: the outcome of waitForProcessExit is not looked at.
StopAwaitsIgnored(i) ==
    /\ pc[i] = "await"
    /\ Goto(i, "pubFinal") /\ job' = job
    /\ UNCHANGED <<tcpdump, files, faults, failed>>

\* Five seconds for tcpdump to go, or stop is fatal.
StopAwaits(i) ==
    /\ pc[i] = "await"
    /\ \/ ~processRunning(job[i]) /\ Goto(i, "pubFinal") /\ job' = job
       \/ processRunning(job[i]) /\ Exit(i)
    /\ UNCHANGED <<tcpdump, files, faults, failed>>

\* status removes a state file it could not read and finishes a capture that
\* has ended.  It prints a running one, or, past its end, calls stop, which
\* reads the state file anew: that is StopReads.
StatusReads(i) ==
    /\ pc[i] = "idle"
    /\ \/ stateFile \notin Captures /\ Goto(i, "clear") /\ job' = job
       \/ /\ stateFile \in Captures
          /\ Goto(i, "probe")
          /\ job' = [job EXCEPT ![i] = stateFile]
    /\ UNCHANGED <<tcpdump, files, faults, failed>>

StatusProbes(i) ==
    /\ pc[i] = "probe"
    /\ \/ ~processRunning(job[i]) /\ Goto(i, "pubFinal") /\ job' = job
       \/ processRunning(job[i]) /\ Exit(i)
    /\ UNCHANGED <<tcpdump, files, faults, failed>>

StatusClears(i) ==
    /\ pc[i] = "clear"
    /\ RemoveState
    /\ Exit(i)
    /\ UNCHANGED <<tcpdump, partial, final, published, faults, failed>>

(* supervise *)

\* Mutant: a supervisor whose capture is not in the state file gives it up.
SupervisorTrustsState(c) ==
    /\ pc[c] \in {"watch", "kill"} /\ ~processRunning(c)
    /\ Goto(c, IF stateFile = c THEN "pubFinal" ELSE "done")
    /\ UNCHANGED <<job, tcpdump, files, faults, failed>>

SupervisorSeesExit(c) ==
    /\ pc[c] \in {"watch", "kill"} /\ ~processRunning(c)
    /\ Goto(c, "pubFinal")
    /\ UNCHANGED <<job, tcpdump, files, faults, failed>>

\* The deadline, or the 128 MiB of a local capture.
SupervisorKills(c) ==
    /\ pc[c] = "watch" /\ processRunning(c)
    /\ Signal(c)
    /\ Goto(c, "kill")
    /\ UNCHANGED <<job, files, faults, failed>>

\* "capture watchdog could not stop tcpdump".
SupervisorGivesUp(c) ==
    /\ pc[c] = "kill" /\ processRunning(c) /\ faults > 0
    /\ faults' = faults - 1
    /\ Goto(c, "done")
    /\ UNCHANGED <<job, tcpdump, files, failed>>

(* finishCapture, by any agent *)

PublishError(a) == Exit(a) /\ failed' = failed \cup {a}
PublishDone(a)  == Goto(a, "readSaved") /\ UNCHANGED <<job, failed>>

PublishChecksFinal(a) ==
    /\ pc[a] = "pubFinal"
    /\ \/ JobOf(a) \in final /\ JobOf(a) \notin partial /\ PublishDone(a)
       \/ JobOf(a) \in final /\ JobOf(a) \in partial /\ PublishError(a)
       \/ JobOf(a) \notin final /\ Goto(a, "pubPartial") /\ UNCHANGED <<job, failed>>
    /\ UNCHANGED <<tcpdump, files, faults>>

\* Mutant: a partial file that is gone counts as published.
PublishChecksPartialOnly(a) ==
    /\ pc[a] = "pubPartial"
    /\ \/ JobOf(a) \in partial /\ Goto(a, "pubRename") /\ UNCHANGED <<job, failed>>
       \/ JobOf(a) \notin partial /\ PublishDone(a)
    /\ UNCHANGED <<tcpdump, files, faults>>

\* The partial file is gone: fine if the final one is there by now.
PublishWithoutPartial(a) ==
    /\ JobOf(a) \notin partial
    /\ IF JobOf(a) \in final THEN PublishDone(a) ELSE PublishError(a)

PublishChecksPartial(a) ==
    /\ pc[a] = "pubPartial"
    /\ \/ JobOf(a) \in partial /\ Goto(a, "pubRename") /\ UNCHANGED <<job, failed>>
       \/ PublishWithoutPartial(a)
    /\ UNCHANGED <<tcpdump, files, faults>>

\* Mutant: a rename that finds no partial file is an error.
PublishRenamesOnce(a) ==
    /\ pc[a] = "pubRename"
    /\ \/ /\ JobOf(a) \in partial
          /\ partial' = partial \ {JobOf(a)}
          /\ final' = final \cup {JobOf(a)}
          /\ published' = published \cup {JobOf(a)}
          /\ PublishDone(a)
       \/ JobOf(a) \notin partial /\ PublishError(a) /\ UNCHANGED <<partial, final, published>>
    /\ UNCHANGED <<tcpdump, stateFile, writers, faults>>

\* Mutant: the partial file is copied and left behind.
PublishCopies(a) ==
    /\ pc[a] = "pubRename"
    /\ \/ /\ JobOf(a) \in partial
          /\ partial' = partial
          /\ final' = final \cup {JobOf(a)}
          /\ published' = published \cup {JobOf(a)}
          /\ PublishDone(a)
       \/ PublishWithoutPartial(a) /\ UNCHANGED <<partial, final, published>>
    /\ UNCHANGED <<tcpdump, stateFile, writers, faults>>

PublishRenames(a) ==
    /\ pc[a] = "pubRename"
    /\ \/ /\ JobOf(a) \in partial
          /\ partial' = partial \ {JobOf(a)}
          /\ final' = final \cup {JobOf(a)}
          /\ published' = published \cup {JobOf(a)}
          /\ PublishDone(a)
       \/ PublishWithoutPartial(a) /\ UNCHANGED <<partial, final, published>>
    /\ UNCHANGED <<tcpdump, stateFile, writers, faults>>

\* The state file is removed only if it still names this capture ...
FinishReadsState(a) ==
    /\ pc[a] = "readSaved"
    /\ IF stateFile = JobOf(a) THEN Goto(a, "remove") /\ job' = job ELSE Exit(a)
    /\ UNCHANGED <<tcpdump, files, faults, failed>>

\* ... when it was read, which need not be what it names now.
FinishRemovesState(a) ==
    /\ pc[a] = "remove"
    /\ RemoveState
    /\ Exit(a)
    /\ UNCHANGED <<tcpdump, partial, final, published, faults, failed>>

(* The rest of the host *)

\* tcpdump ends by itself (-G seconds -W 1), after a signal, or by failing.
TcpdumpExits(c) ==
    /\ processRunning(c)
    /\ tcpdump' = [tcpdump EXCEPT ![c] = "exited"]
    /\ UNCHANGED <<pc, job, files, faults, failed>>

\* cmd/worker/main.go takes .pcap files only and leaves none in staging.
WorkerTakes(c) ==
    /\ WorkerRuns /\ c \in final
    /\ final' = final \ {c}
    /\ UNCHANGED <<pc, job, tcpdump, partial, stateFile, writers, published, faults, failed>>

HelperKilled(a) ==
    /\ pc[a] \notin {"idle", "none", "done"} /\ faults > 0
    /\ faults' = faults - 1
    /\ writers' = writers \ {a}
    /\ Exit(a)
    /\ UNCHANGED <<tcpdump, partial, final, stateFile, published, failed>>

Reboot ==
    /\ faults > 0
    /\ faults' = faults - 1
    /\ pc' = [a \in Agents |->
                IF a \in Invokers THEN "idle" ELSE IF pc[a] = "none" THEN "none" ELSE "done"]
    /\ job' = [i \in Invokers |-> Absent]
    /\ tcpdump' = [c \in Captures |-> IF processRunning(c) THEN "exited" ELSE tcpdump[c]]
    /\ writers' = {}
    /\ UNCHANGED <<partial, final, stateFile, published, failed>>

-----------------------------------------------------------------------------

Finish(a) ==
    \/ PublishChecksFinal(a) \/ PublishChecksPartial(a) \/ PublishRenames(a)
    \/ FinishReadsState(a) \/ FinishRemovesState(a)

\* What a running invoker does next; calling the helper is up to the caller.
Start(i) == StartChecks(i) \/ StartCreates(i) \/ StartSpawns(i) \/ SaveTruncates(i) \/ SaveWrites(i)
                \/ StartLaunches(i)
Abort(i) == AbortState(i) \/ AbortPartial(i)
StopGoes(i) == StopSignals(i) \/ StopAwaits(i)
StatusGoes(i) == StatusClears(i) \/ StatusProbes(i)
Invoker(i) == Start(i) \/ Abort(i) \/ StopGoes(i) \/ StatusGoes(i) \/ Finish(i)

Calls(i) == StartReads(i) \/ StopReads(i) \/ StatusReads(i)

Supervisor(c) == SupervisorSeesExit(c) \/ Finish(c)

Faults ==
    \/ \E i \in Invokers : SpawnFails(i) \/ SaveFails(i) \/ LaunchFails(i)
    \/ \E c \in Captures : SupervisorGivesUp(c)
    \/ \E a \in Agents : HelperKilled(a)
    \/ Reboot

Next ==
    \/ \E i \in Invokers : Calls(i) \/ Invoker(i)
    \/ \E c \in Captures : Supervisor(c) \/ SupervisorKills(c) \/ TcpdumpExits(c) \/ WorkerTakes(c)
    \/ Faults

Spec == Init /\ [][Next]_vars

\* The operating system schedules every process, and tcpdump does not outlast
\* its -G/-W limit.
FairSpec ==
    /\ Spec
    /\ \A i \in Invokers : WF_vars(Invoker(i))
    /\ \A c \in Captures : WF_vars(Supervisor(c)) /\ WF_vars(TcpdumpExits(c))

-----------------------------------------------------------------------------

\* How far a capture has come, for whoever looks past the state file: what a
\* tcpdump writes to a partial file that was removed is lost.
Stage(c) ==
    IF c \in published THEN IF c \in final THEN "available" ELSE "taken"
    ELSE IF tcpdump[c] = "none" THEN "unused"
    ELSE IF c \notin partial THEN "lost"
    ELSE IF processRunning(c) THEN "recording" ELSE "ended"

Outbox == INSTANCE CaptureOutbox WITH stage <- [c \in Captures |-> Stage(c)]

\* Types of every variable; a capture is never partial and published at once,
\* and the state file is open only in saveState.
TypeOK ==
    /\ pc \in [Agents -> InvokerPoints \cup SupervisorPoints]
    /\ \A i \in Invokers : pc[i] \in InvokerPoints
    /\ \A c \in Captures : pc[c] \in SupervisorPoints
    /\ job \in [Invokers -> Captures \cup {Absent}]
    /\ \A i \in Invokers : job[i] = Absent <=> pc[i] \in {"idle", "clear"}
    /\ tcpdump \in [Captures -> {"none", "running", "signalled", "exited"}]
    /\ partial \subseteq Captures
    /\ final \subseteq published
    /\ published \subseteq Captures \ partial
    /\ stateFile \in Captures \cup {Absent, Torn}
    /\ writers \subseteq { i \in Invokers : pc[i] = "write" }
    /\ faults \in 0..MaxFaults
    /\ failed \subseteq Agents

\* docs/adr/0005-restricted-helper.md:14, "A partially written raw capture
\* cannot cross the worker analysis boundary": a capture has its final name
\* only after its tcpdump has ended, whichever of stop, status and supervisor
\* published it, and whatever was killed, failed or rebooted on the way.
PublishedIsComplete == \A c \in published : tcpdump[c] = "exited"

\* A stop, status or supervisor that gets past publishCapture for a capture,
\* and so may report success and clear the state file, has that capture
\* published, by itself or by a racing finalizer, and none of it is left in
\* the partial file.
FinishedMeansPublished ==
    \A a \in Agents :
        pc[a] \in {"readSaved", "remove"} => JobOf(a) \in published \ partial

\* As long as nothing is killed or fails, every tcpdump that runs has a
\* supervisor that will publish it, or the start that will launch one: losing
\* the state file to a race never leaves a capture nobody will end.
EveryCaptureIsWatched ==
    faults = MaxFaults =>
        \A c \in Captures :
            (processRunning(c) \/ c \in partial) =>
                \/ pc[c] \notin {"none", "done"}
                \/ \E i \in Invokers : job[i] = c /\ pc[i] \in BeforeSpawn \cup AfterSpawn

\* helper/main_test.go:174, TestFinishCaptureIsSafeWhenStopAndSupervisorRace:
\* no finalizer fails because another one was faster, as long as nothing is
\* killed or fails and the worker has not taken a published capture away.
PublishRaceSafe == (faults = MaxFaults /\ final = published) => failed = {}

\* The helper keeps the promise of module CaptureOutbox: under every race, kill,
\* reboot and failing call a capture becomes available once, as a whole, after
\* its recording has ended, and one that a failed start threw away stays so.
KeepsOutbox == Outbox!Spec

\* README.md:175: every capture that is started is published in the end, if
\* nothing is killed and no call fails.
EveryCaptureIsPublished ==
    \A c \in Captures : c \in partial ~> (c \in published \/ faults < MaxFaults)

-----------------------------------------------------------------------------

\* helper/main.go:381 refuses a start with "capture is already running" and
\* README.md:9 promises one channel at a time; the state file this rests on
\* can be removed by the finalizer of an earlier capture.
OneCaptureOnAir == Cardinality({ c \in Captures : processRunning(c) }) <= 1
=============================================================================
