---------------------------- MODULE PostgresStore ----------------------------
(***************************************************************************)
(* internal/store/postgres.go: the memory store with a copy in one row of  *)
(* a database.  A call changes the memory under its lock, then takes a     *)
(* snapshot under the lock, then writes the row with no lock at all; the   *)
(* API serves every call on a goroutine of its own.  A restart of the API  *)
(* loads the row and, when it finds no radio in it, seeds the demo data.   *)
(***************************************************************************)
EXTENDS MemoryStore

CONSTANTS
    Clients,    \* concurrent API calls
    Ticker,     \* the schedule ticker's goroutine
    Channels,   \* Wi-Fi channels a start may name
    Reports,    \* reports the worker ingests
    Windows,    \* windows clients submit; each overlaps itself only
    DemoWindow, \* the window SeedDemo installs
    NoRow,      \* the table is empty
    MaxCalls,   \* bound: calls that change the memory
    MaxMinute,  \* bound: last minute of the ticker's clock
    MaxFaults   \* bound: crashes and failing writes

ASSUME NamesAssumption == Ticker \notin Clients
ASSUME WindowsAssumption == DemoWindow \in Windows
ASSUME ChannelsAssumption == Channels \subseteq Nat \ {0}
ASSUME BoundsAssumption == MaxCalls \in Nat /\ MaxMinute \in Nat /\ MaxFaults \in Nat

VARIABLES
    up,         \* the API process runs
    memory,     \* Postgres.memory
    row,        \* the payload of app_state
    call,       \* where each caller is between the change and the answer
    minute,     \* the minute the ticker sees
    calls,      \* calls made so far
    faults,     \* faults that may still happen
    dirty,      \* history: persists overlapped or failed since the last call
                \* that had the store for itself
    held,       \* the command the menu app has fetched, or Nothing
    lost        \* history: a crash lost a change of the memory

vars == <<up, memory, row, call, minute, calls, faults, dirty, held, lost>>
hostVars == <<held, lost>>

Callers == Clients \cup {Ticker}

\* The whole of Memory: the queue, whether there are radios, the windows and
\* the reports, and the minutes (CreatedAt) of the scheduled starts queued.
App == [queue : Stores(Channels), radios : BOOLEAN, windows : SUBSET Windows,
        reports : SUBSET Reports, scheduled : Seq(Nat)]
NewApp == [queue |-> NewMemory, radios |-> FALSE, windows |-> {}, reports |-> {},
           scheduled |-> <<>>]
ASSUME NoRowAssumption == NoRow \notin App

Nothing == [id |-> 0, action |-> "stop", channel |-> NoChannel, status |-> "completed"]

\* Mutant: the id counter is not in the snapshot.
SnapshotWithoutSequence(a) == [a EXCEPT !.queue.seq = 0]
\* Mutant: lastScheduleTick is not in the snapshot.
SnapshotWithoutTick(a) == [a EXCEPT !.queue.lastTick = NeverTicked]

\* Every field of the memory; JSON turns the channel into a float, and argInt
\* turns it back when a command completes.
Snapshot(a) == a

Idle == [pc |-> "idle", payload |-> NoRow, alone |-> FALSE]
Busy == { h \in Callers : call[h] # Idle }

-----------------------------------------------------------------------------

Init ==
    /\ up = FALSE /\ memory = NewApp /\ row = NoRow
    /\ call = [h \in Callers |-> Idle]
    /\ minute = 0 /\ calls = 0 /\ faults = MaxFaults
    /\ dirty = FALSE /\ held = Nothing /\ lost = FALSE

\* The caller has changed the memory to m and now goes on to persist it.
Changes(h, m) ==
    /\ up /\ call[h] = Idle /\ calls < MaxCalls
    /\ memory' = m
    /\ call' = [g \in Callers |->
                  IF g = h THEN [pc |-> "snapshot", payload |-> NoRow, alone |-> Busy = {}]
                           ELSE [call[g] EXCEPT !.alone = FALSE]]
    /\ calls' = calls + 1
    /\ dirty' = (dirty \/ Busy # {})
    /\ UNCHANGED <<up, row, minute, faults, lost>>

Requests(h) ==
    \/ \E channel \in Channels :
          Changes(h, [memory EXCEPT !.queue = StartCapture(memory.queue, channel)])
    \/ Changes(h, [memory EXCEPT !.queue = StartLocalCapture(memory.queue)])
    \/ Changes(h, [memory EXCEPT !.queue = StopCapture(memory.queue)])

(* The menu app: fetches a command, which changes nothing, and reports its *)
(* result, also to an API that has restarted meanwhile.  Reporting can be  *)
(* cut off, and then the command is fetched again.                         *)

Poll ==
    /\ up /\ held = Nothing /\ NextIndices(memory.queue) # {}
    /\ held' = NextHostCommand(memory.queue)
    /\ UNCHANGED <<up, memory, row, call, minute, calls, faults, dirty, lost>>

\* A result for an id the store does not know is refused before persist.
Completes(h) ==
    /\ IndicesOf(memory.queue, held.id) # {}
    /\ \E exit0 \in BOOLEAN :
          Changes(h, [memory EXCEPT
            !.queue = CompleteHostCommand(memory.queue, held.id, exit0)])
    /\ held' = Nothing

LoseReport ==
    /\ held # Nothing /\ held' = Nothing
    /\ UNCHANGED <<up, memory, row, call, minute, calls, faults, dirty, lost>>

\* A window that overlaps an accepted one is refused, before persist.
AddSchedule(h) ==
    \E w \in Windows \ memory.windows :
        Changes(h, [memory EXCEPT !.windows = @ \cup {w}])

AddRadio(h) == Changes(h, [memory EXCEPT !.radios = TRUE])
Ingest(h)   == \E r \in Reports : Changes(h, [memory EXCEPT !.reports = @ \cup {r}])

Seeded(a)    == [NewApp EXCEPT !.queue = SeedDemo(a.queue), !.radios = TRUE,
                                     !.windows = {DemoWindow}]
Wiped(a)     == [NewApp EXCEPT !.queue = ResetDemo(a.queue)]
DemoSeed(h)  == Changes(h, Seeded(memory))
DemoReset(h) == Changes(h, Wiped(memory))

\* Module Scheduler says which window is due, if one is.
DueChannels == IF memory.windows = {} THEN {NoChannel} ELSE Channels \cup {NoChannel}

\* Mutant: the start a tick queues is not written.
TickQuietly ==
    \E due \in DueChannels :
        /\ up /\ call[Ticker] = Idle
        /\ memory' = [memory EXCEPT !.queue = TickSchedules(@, minute, due)]
        /\ UNCHANGED <<up, row, call, minute, calls, faults, dirty, hostVars>>

\* A tick is persisted only if it queued a start.
Tick ==
    \E due \in DueChannels :
        LET ticked == TickSchedules(memory.queue, minute, due)
        IN  \/ /\ ticked.commands # memory.queue.commands
               /\ Changes(Ticker, [memory EXCEPT !.queue = ticked,
                                                 !.scheduled = Append(@, minute)])
               /\ UNCHANGED held
            \/ /\ ticked.commands = memory.queue.commands
               /\ up /\ call[Ticker] = Idle
               /\ memory' = [memory EXCEPT !.queue = ticked]
               /\ UNCHANGED <<up, row, call, minute, calls, faults, dirty, hostVars>>

MinutePasses ==
    /\ minute < MaxMinute
    /\ minute' = minute + 1
    /\ UNCHANGED <<up, memory, row, call, calls, faults, dirty, hostVars>>

(* persist *)

TakesSnapshot(h) ==
    /\ call[h].pc = "snapshot"
    /\ call' = [call EXCEPT ![h].pc = "write", ![h].payload = Snapshot(memory)]
    /\ UNCHANGED <<up, memory, row, minute, calls, faults, dirty, hostVars>>

\* A call that met no other one leaves the row as new as the memory.
Writes(h) ==
    /\ call[h].pc = "write"
    /\ row' = call[h].payload
    /\ call' = [call EXCEPT ![h] = Idle]
    /\ dirty' = (dirty /\ ~call[h].alone)
    /\ UNCHANGED <<up, memory, minute, calls, faults, hostVars>>

\* The statement fails, or it is executed and its answer is lost; most calls
\* ignore the error, and none takes the change of the memory back.
WriteFails(h) ==
    /\ call[h].pc = "write" /\ faults > 0
    /\ row' \in {row, call[h].payload}
    /\ call' = [call EXCEPT ![h] = Idle]
    /\ faults' = faults - 1
    /\ dirty' = TRUE
    /\ UNCHANGED <<up, memory, minute, calls, hostVars>>

(* The process *)

Saved == IF row = NoRow THEN NewApp ELSE row

\* What a restart brings back; the minute of a tick that queued nothing may
\* be missing from the row.
Durable(a) == [a EXCEPT !.queue.lastTick = NeverTicked]
RowIsCurrent == Durable(Saved) = Durable(memory)

\* Mutant: calls of the dead process go on.
CrashKeepsCalls ==
    /\ up /\ faults > 0
    /\ up' = FALSE /\ memory' = NewApp
    /\ faults' = faults - 1
    /\ lost' = (lost \/ ~RowIsCurrent)
    /\ UNCHANGED <<call, row, minute, calls, dirty, held>>

Crash ==
    /\ up /\ faults > 0
    /\ up' = FALSE /\ memory' = NewApp
    /\ call' = [h \in Callers |-> Idle]
    /\ faults' = faults - 1
    /\ lost' = (lost \/ ~RowIsCurrent)
    /\ UNCHANGED <<row, minute, calls, dirty, held>>

\* Mutant: the id counter is restored by counting the commands.
RestoredCount == [Saved EXCEPT !.queue.seq = Len(Saved.queue.commands)]
\* Memory.Restore puts every field back.
Restored == Saved

\* NewPostgres and main, up to the listener: nobody calls before it.
Boot ==
    /\ ~up /\ up' = TRUE
    /\ \/ memory' = Restored /\ row' = row /\ dirty' = FALSE /\ faults' = faults
       \/ /\ ~Restored.radios
          /\ memory' = Seeded(Restored)
          /\ \/ row' = Snapshot(memory') /\ dirty' = FALSE /\ faults' = faults
             \/ /\ faults > 0 /\ faults' = faults - 1
                /\ row' \in {row, Snapshot(memory')} /\ dirty' = TRUE
    /\ UNCHANGED <<call, minute, calls, hostVars>>

-----------------------------------------------------------------------------

Serves(h) ==
    \/ Completes(h)
    \/ /\ Requests(h) \/ AddSchedule(h) \/ AddRadio(h) \/ Ingest(h) \/ DemoSeed(h) \/ DemoReset(h)
       /\ UNCHANGED held
Persists(h) == TakesSnapshot(h) \/ Writes(h) \/ WriteFails(h)

Next ==
    \/ \E h \in Clients : Serves(h)
    \/ \E h \in Callers : Persists(h)
    \/ Tick \/ MinutePasses \/ Poll \/ LoseReport \/ Crash \/ Boot

Spec == Init /\ [][Next]_vars

-----------------------------------------------------------------------------

\* Types of every variable; a process that is down serves nobody.
TypeOK ==
    /\ up \in BOOLEAN /\ dirty \in BOOLEAN
    /\ memory \in App
    /\ row \in App \cup {NoRow}
    /\ call \in [Callers -> [pc : {"idle", "snapshot", "write"},
                             payload : App \cup {NoRow}, alone : BOOLEAN]]
    /\ ~up => Busy = {}
    /\ held \in Commands(Channels) \cup {Nothing} /\ lost \in BOOLEAN
    /\ minute \in 0..MaxMinute /\ calls \in 0..MaxCalls /\ faults \in 0..MaxFaults

\* Whatever was lost in a crash, the ids of the commands in the queue stay
\* distinct: the counter comes back with the commands that drew from it.
UniqueIds ==
    \A i, j \in 1..Len(memory.queue.commands) :
        memory.queue.commands[i].id = memory.queue.commands[j].id => i = j

\* The queue never holds two scheduled starts of one minute, also when the
\* API restarts within it and loads an older row.
OneScheduledStartPerMinute ==
    \A i, j \in 1..Len(memory.scheduled) :
        memory.scheduled[i] = memory.scheduled[j] => i = j

\* The menu app may carry out a command while the API restarts, and may have
\* fetched it before it was in the row.  As long as no crash lost a change,
\* the id it will report is nobody else's: no result is booked on another
\* command, before or after a restart.
HeldIdIsNotReused ==
    ~lost => \A i \in IndicesOf(memory.queue, held.id) :
                /\ memory.queue.commands[i].action = held.action
                /\ memory.queue.commands[i].channel = held.channel

\* Once a call has had the store for itself and its write was answered, the
\* row holds all that the memory holds: it also repairs what overlapping and
\* failing writes left behind before it.
QuietMeansPersisted == (up /\ Busy = {} /\ ~dirty) => RowIsCurrent

-----------------------------------------------------------------------------

\* internal/store/postgres_integration_test.go:27, "state did not survive
\* reconnect": with nobody in the middle of a call and no failure so far, a
\* new instance should find the state of this one.  Two calls that write
\* their snapshots in the other order leave the older one in the row.
AnsweredMeansPersisted == (up /\ Busy = {} /\ faults = MaxFaults) => RowIsCurrent
=============================================================================
