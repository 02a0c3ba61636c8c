------------------------------ MODULE HostBridge ------------------------------
(***************************************************************************)
(* How a capture gets on and off the air.  Dashboard clients and the       *)
(* schedule ticker put commands into the store (internal/api/server.go,    *)
(* cmd/api/main.go, module MemoryStore); the menu app polls one command,   *)
(* runs the helper and reports the result (main.swift, pollHostCommand);   *)
(* the store opens and closes sessions from the results.                   *)
(*                                                                         *)
(* The menu app is one @MainActor: it polls, executes and reports one      *)
(* command at a time, and between its steps the API serves everybody else. *)
(* A start keeps it busy for the whole capture: after the helper has ended *)
(* it reads the helper's pipe to the end of the file (main.swift:160), and *)
(* tcpdump and the supervisor, which inherit that pipe as their standard   *)
(* error (helper/main.go:396, :298), keep it open until they end.  So the  *)
(* result of a start exists only when its capture is over.                 *)
(*                                                                         *)
(* The helper is seen here as what one call of it does to the air; module  *)
(* CaptureHelper opens it up.  The store survives a restart of the API, as *)
(* the PostgreSQL one does when its row is current (module PostgresStore). *)
(***************************************************************************)
EXTENDS MemoryStore

CONSTANTS
    Channels,       \* Wi-Fi channels a start may name
    MaxCommands,    \* bound: commands the store ever queues
    MaxMinute,      \* bound: last minute of the ticker's clock
    MaxFaults       \* bound: lost and late reports, failed stops, app restarts

ASSUME ChannelsAssumption == Channels \subseteq Nat \ {0}
ASSUME BoundsAssumption == MaxCommands \in Nat /\ MaxMinute \in Nat /\ MaxFaults \in Nat

VARIABLES
    up,         \* the API answers
    mem,        \* the API's store
    bridge,     \* the menu app: where it is in its loop, and with what
    late,       \* the report the app no longer waits for and the API has not read
    air,        \* the command whose capture tcpdump is taking, or Nothing
    minute,     \* the minute the ticker sees
    faults,     \* faults that may still happen
    over,       \* history: the commands with a result on its way and a capture that ended
    overdue,    \* history: the commands a report of which was given up as late
    stopped     \* history: the latest stop the helper carried out (its id)

vars == <<up, mem, bridge, late, air, minute, faults, over, overdue, stopped>>

Nothing  == [id |-> 0, action |-> "stop", channel |-> NoChannel, status |-> "completed"]
Idle     == [pc |-> "idle", cmd |-> Nothing, ok |-> FALSE]
NoReport == [cmd |-> Nothing, ok |-> FALSE]

OnAir == air # Nothing

-----------------------------------------------------------------------------

\* cmd/api/main.go:31 seeds the demo data at boot unless told not to.
Init ==
    /\ up = TRUE
    /\ mem \in {NewMemory, SeedDemo(NewMemory)}
    /\ bridge = Idle
    /\ late = NoReport
    /\ air = Nothing
    /\ minute = 0
    /\ faults = MaxFaults
    /\ over = {} /\ overdue = {} /\ stopped = 0

(* The API's clients *)

RequestStart ==
    /\ up /\ mem.seq < MaxCommands
    /\ \E channel \in Channels : mem' = StartCapture(mem, channel)
    /\ UNCHANGED <<up, bridge, late, air, minute, faults, overdue, stopped>>

RequestStartLocal ==
    /\ up /\ mem.seq < MaxCommands
    /\ mem' = StartLocalCapture(mem)
    /\ UNCHANGED <<up, bridge, late, air, minute, faults, overdue, stopped>>

RequestStop ==
    /\ up /\ mem.seq < MaxCommands
    /\ mem' = StopCapture(mem)
    /\ UNCHANGED <<up, bridge, late, air, minute, faults, overdue, stopped>>

\* Both forget the commands and the sessions, whatever is on the air and
\* whatever the menu app is in the middle of.
DemoSeed ==
    /\ up
    /\ mem' = SeedDemo(mem)
    /\ UNCHANGED <<up, bridge, late, air, minute, faults, overdue, stopped>>

DemoReset ==
    /\ up
    /\ mem' = ResetDemo(mem)
    /\ UNCHANGED <<up, bridge, late, air, minute, faults, overdue, stopped>>

(* The ticker of cmd/api/main.go *)

Tick ==
    /\ up /\ mem.seq < MaxCommands
    /\ \E due \in Channels \cup {NoChannel} : mem' = TickSchedules(mem, minute, due)
    /\ UNCHANGED <<up, bridge, late, air, minute, faults, overdue, stopped>>

MinutePasses ==
    /\ minute < MaxMinute
    /\ minute' = minute + 1
    /\ UNCHANGED <<up, mem, bridge, late, air, faults, overdue, stopped>>

(* The API process *)

\* It ends, or the menu app brings the stack down; a request it has not read
\* yet is gone with it.
ApiStops ==
    /\ up /\ up' = FALSE
    /\ late' = NoReport
    /\ UNCHANGED <<mem, bridge, air, minute, faults, overdue, stopped>>

\* The boot seeds the demo data over the commands and sessions of the row,
\* if there is no radio in it.
ApiBoots ==
    /\ ~up /\ up' = TRUE
    /\ mem' \in {mem, SeedDemo(mem)}
    /\ UNCHANGED <<bridge, late, air, minute, faults, overdue, stopped>>

(* The menu app *)

Poll ==
    /\ up /\ bridge = Idle
    /\ NextIndices(mem) # {}
    /\ bridge' = [pc |-> "holding", cmd |-> NextHostCommand(mem), ok |-> FALSE]
    /\ UNCHANGED <<up, mem, late, air, minute, faults, overdue, stopped>>

Reporting(ok) == bridge' = [bridge EXCEPT !.pc = "reporting", !.ok = ok]

\* "capture is already running", or any other reason the helper refuses for:
\* the card is on another channel, the interface or the helper is missing.
StartRefused ==
    /\ Reporting(FALSE)
    /\ UNCHANGED <<air, faults, stopped>>

\* Mutant: the app goes on when the helper has ended, and leaves the capture
\* to itself.
StartSucceedsAtOnce ==
    /\ ~OnAir
    /\ Reporting(TRUE)
    /\ air' = bridge.cmd
    /\ UNCHANGED <<faults, stopped>>

\* The helper has ended, and the app reads on in its pipe.
StartSucceeds ==
    /\ ~OnAir
    /\ bridge' = [bridge EXCEPT !.pc = "reading", !.ok = TRUE]
    /\ air' = bridge.cmd
    /\ UNCHANGED <<faults, stopped>>

\* "capture is not running" is a success too.
StopSucceeds ==
    /\ Reporting(TRUE)
    /\ air' = Nothing
    /\ stopped' = bridge.cmd.id
    /\ UNCHANGED faults

\* The helper is missing, sudo refuses it, the state file cannot be read,
\* tcpdump outlives the five seconds, or it ended and its file could not be
\* published.
StopFails ==
    /\ faults > 0
    /\ faults' = faults - 1
    /\ Reporting(FALSE)
    /\ air' \in {air, Nothing}
    /\ UNCHANGED stopped

Execute ==
    /\ bridge.pc = "holding"
    /\ \/ IsStart(bridge.cmd)  /\ (StartRefused \/ StartSucceeds)
       \/ ~IsStart(bridge.cmd) /\ (StopSucceeds \/ StopFails)
    /\ UNCHANGED <<up, mem, late, minute, overdue>>

\* The end of the file: tcpdump and the supervisor have ended.
ReadToEnd ==
    /\ bridge.pc = "reading" /\ air # bridge.cmd
    /\ Reporting(TRUE)
    /\ UNCHANGED <<up, mem, late, air, minute, faults, overdue, stopped>>

Report ==
    /\ up /\ bridge.pc = "reporting"
    /\ mem' = CompleteHostCommand(mem, bridge.cmd.id, bridge.ok)
    /\ bridge' = Idle
    /\ UNCHANGED <<up, late, air, minute, faults, overdue, stopped>>

\* The POST is tried once and its failure is ignored.
LoseReport ==
    /\ bridge.pc = "reporting"
    /\ IF up THEN faults > 0 /\ faults' = faults - 1 ELSE faults' = faults
    /\ bridge' = Idle
    /\ UNCHANGED <<up, mem, late, air, minute, overdue, stopped>>

\* The POST times out at the app while the API is too slow to read it; the
\* app goes on with its next poll.  Bound: one such report at a time.
GiveUpReport ==
    /\ up /\ bridge.pc = "reporting" /\ late = NoReport
    /\ faults > 0 /\ faults' = faults - 1
    /\ late' = [cmd |-> bridge.cmd, ok |-> bridge.ok]
    /\ overdue' = overdue \cup {bridge.cmd}
    /\ bridge' = Idle
    /\ UNCHANGED <<up, mem, air, minute, stopped>>

\* The API reads a report nobody waits for any more.
LateReport ==
    /\ up /\ late # NoReport
    /\ mem' = CompleteHostCommand(mem, late.cmd.id, late.ok)
    /\ late' = NoReport
    /\ UNCHANGED <<up, bridge, air, minute, faults, overdue, stopped>>

\* "Detener laboratorio" and "Salir" call the helper without a command.  The
\* menu is as blocked as the rest of the app while it reads.
MenuStop ==
    /\ OnAir /\ bridge.pc # "reading"
    /\ air' = Nothing
    /\ UNCHANGED <<up, mem, bridge, late, minute, faults, overdue, stopped>>

\* "Salir" in the middle of a command, and the app is opened again.  It stops
\* the capture only if the status it last read showed a session.  An app that
\* reads can only be forced to quit, and its capture goes on.
AppRestarts ==
    /\ bridge # Idle /\ faults > 0
    /\ faults' = faults - 1
    /\ bridge' = Idle
    /\ \/ air' = air
       \/ bridge.pc # "reading" /\ air' = Nothing
    /\ UNCHANGED <<up, mem, late, minute, overdue, stopped>>

(* The helper *)

\* The time or the size limit is reached, or somebody ends tcpdump at a
\* terminal; nobody tells the API.
CaptureEnds ==
    /\ OnAir
    /\ air' = Nothing
    /\ UNCHANGED <<up, mem, bridge, late, minute, faults, overdue, stopped>>

-----------------------------------------------------------------------------

Clients == RequestStart \/ RequestStartLocal \/ RequestStop \/ DemoSeed \/ DemoReset
Bridge  == Poll \/ Execute \/ ReadToEnd \/ Report \/ LoseReport \/ GiveUpReport

\* A capture is over when another command, or none, takes its place on the air.
Remember ==
    over' = (over \cup (IF OnAir /\ air' # air THEN {air} ELSE {}))
               \cap {bridge'.cmd, late'.cmd}

Next ==
    /\ \/ Clients \/ Tick \/ MinutePasses
       \/ ApiStops \/ ApiBoots \/ LateReport
       \/ Bridge \/ MenuStop \/ AppRestarts
       \/ CaptureEnds
    /\ Remember

Spec == Init /\ [][Next]_vars

\* The poll loop runs for as long as the menu app is open.  A stop takes the
\* helper five seconds at most and a request times out; a start takes as long
\* as its capture, and tcpdump and its supervisor end every capture.
FairSpec == Spec /\ WF_vars(Bridge /\ Remember) /\ WF_vars(CaptureEnds /\ Remember)

-----------------------------------------------------------------------------

Stored(id) == IndicesOf(mem, id) # {}
StatusOf(id) == mem.commands[FirstOf(IndicesOf(mem, id))].status

HasActiveSession == RunningIndices(mem) # {}

\* Types of every variable; the bridge is idle exactly when it holds nothing.
TypeOK ==
    /\ up \in BOOLEAN
    /\ mem \in Stores(Channels)
    /\ bridge \in [pc : {"idle", "holding", "reading", "reporting"},
                   cmd : Commands(Channels) \cup {Nothing}, ok : BOOLEAN]
    /\ bridge.pc = "idle" <=> bridge.cmd = Nothing
    /\ late \in [cmd : Commands(Channels) \cup {Nothing}, ok : BOOLEAN]
    /\ late = NoReport <=> late.cmd = Nothing
    /\ air \in Commands(Channels) \cup {Nothing}
    /\ OnAir => IsStart(air)
    /\ minute \in 0..MaxMinute
    /\ faults \in 0..MaxFaults
    /\ over \subseteq Commands(Channels) \cap {bridge.cmd, late.cmd}
    /\ overdue \subseteq Commands(Channels)
    /\ stopped \in 0..mem.seq

StopOverdue == \E c \in overdue : c.action = "stop"

\* A stop may cancel a start the menu app has already fetched and will still
\* execute.  Then a stop is waiting in the queue, so that capture does not
\* stay on the air; unless it is the late second report of an older stop that
\* cancels the start.
StopFollowsCanceledStart ==
    (bridge # Idle /\ Stored(bridge.cmd.id) /\ StatusOf(bridge.cmd.id) = "canceled")
        => PendingIndices(mem, {"stop"}) # {} \/ StopOverdue

\* The menu app holds a command whose result the store already has only when
\* it had given up the report of that very command, which was read after all:
\* nothing else that is lost, wiped or restarted makes a settled command run.
SettledNotExecuted ==
    (bridge # Idle /\ Stored(bridge.cmd.id) /\ StatusOf(bridge.cmd.id) = "completed")
        => bridge.cmd \in overdue

\* If the store knows the id of a result that is on its way, it is the same
\* command, even when the queue was reset or seeded in between: no result,
\* late or not, is ever booked on another command.
ResultMatchesCommand ==
    \A c \in {bridge.cmd, late.cmd} \ {Nothing} :
        \A i \in IndicesOf(mem, c.id) :
            /\ mem.commands[i].action = c.action
            /\ mem.commands[i].channel = c.channel

\* Once a stop is carried out, no capture asked for before it is on the air,
\* and none comes on the air later: a stop is never undone by an older start
\* that was still queued, lost its report or was fetched before the stop.
StopOutlivesEarlierStarts == OnAir => air.id > stopped

\* GET /status shows a capture only after the fact: a session is opened by the
\* report of a start whose capture was on the air and has ended, whatever was
\* refused, lost, late, wiped or restarted.
SessionsAreOver ==
    [][ Cardinality(RunningIndices(mem')) > Cardinality(RunningIndices(mem))
            => \/ Report /\ bridge.cmd \in over
               \/ LateReport /\ late.cmd \in over ]_vars

\* As long as nothing fails, no stop a client asked for reaches a capture: the
\* app fetches and carries out the stop when the capture has ended by itself.
\* Only an app that was opened again stops one that is on the air.
StopsMeetNoCapture == (bridge.pc = "holding" /\ OnAir) => faults < MaxFaults

\* What has become of the command with this id.
StageIn(m, id) ==
    IF id > m.seq THEN "unused"
    ELSE IF IndicesOf(m, id) = {} THEN "forgotten"
    ELSE LET c == m.commands[FirstOf(IndicesOf(m, id))]
         IN  IF ~IsPending(c) THEN c.status
             ELSE IF IsStart(c) THEN "start" ELSE "stop"

StagesIn(m) == [id \in 1..MaxCommands |-> StageIn(m, id)]

InHand(pcs) == IF bridge.pc \in pcs THEN bridge.cmd.id ELSE 0

Requests == INSTANCE CaptureRequests
    WITH Ids <- 1..MaxCommands, stage <- StagesIn(mem), air <- air.id,
         hand <- InHand({"holding"}), result <- InHand({"reading", "reporting"}),
         late <- late.cmd.id

\* The store and the menu app keep the promise of module CaptureRequests:
\* through every restart, wipe, lost and late report an id is drawn once, only
\* a command that waits is taken up, what is answered stays answered, stops
\* are carried out in order and nothing older than the last one gets on the
\* air.
KeepsRequests == Requests!Spec

\* If the API stays up from some time on, every queued command is sooner or
\* later completed, canceled or wiped by a demo reset or seed: nothing waits
\* in the queue for ever, whatever else is queued and however often the API
\* was gone when a result was to be reported.
EveryCommandSettles ==
    <>[]up => \A id \in 1..MaxCommands :
        (Stored(id) /\ StatusOf(id) = "pending") ~>
            (~Stored(id) \/ StatusOf(id) # "pending")

PendingStop(id) ==
    \E i \in PendingIndices(mem, {"stop"}) : mem.commands[i].id = id

\* A stop is carried out by the helper unless it fails there or the queue is
\* wiped under it, also when its first report is lost.
StopTakesEffect ==
    <>[]up => \A id \in 1..MaxCommands :
        PendingStop(id) ~>
            \/ stopped >= id
            \/ ~Stored(id)
            \/ bridge.pc = "reporting" /\ bridge.cmd.id = id /\ ~bridge.ok

-----------------------------------------------------------------------------

\* config/defaults.yaml:2, max_session_minutes: 120.  A session that nobody
\* stops stays "running" for ever: it is opened when its capture has ended, and
\* nothing else ever reports that end.
SessionEventuallyCloses == <>[]up => (HasActiveSession ~> ~HasActiveSession)
=============================================================================
