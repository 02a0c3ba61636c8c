# TLA+ models of Duku Net Lab

Duku Net Lab observes one Wi-Fi interface of a Mac for bounded windows. A
dashboard or a schedule asks for a capture, a menu app executes the request
through a root-owned helper, the helper runs `tcpdump`, and a worker filters and
analyses what was captured. These modules model the parts whose correctness
depends on order, timing or failure, check them with TLC on small instances, and
prove with TLAPS, for every size, each safety invariant and action property the
passing runs check, and both refinements.

## The system

| Part | Code | State | Operations | Hard behaviour | Correct when |
| --- | --- | --- | --- | --- | --- |
| Schedules and tick | `internal/store/memory.go`, `cmd/api/main.go` | accepted windows, `automationEnabled`, `lastScheduleTick` | add a window, tick, seed, reset | late, double and missed ticks; windows past midnight | windows are disjoint; at most one start a minute |
| Command queue and sessions | `internal/store/memory.go` | host commands, sessions, id counter | start, start-local, stop, next, complete, seed, reset | clients, ticker and menu app interleave; results come late or never | a stop is not undone; a result reaches its own command; a session is one of a capture that was taken |
| API and event stream | `internal/api/server.go` | event clients with bounded buffers | one handler per request, one stream per tab | one goroutine per request; events dropped at a full buffer; broken streams | no call waits for a dashboard; every change is on its way to each |
| PostgreSQL repository | `internal/store/postgres.go` | the store, and one row with its snapshot | every store operation, load at boot | overlapping writes, failing writes, crash and restart | what was answered survives a restart |
| Menu app | `macos/.../main.swift` | the command being executed | poll, execute, report, stop, quit | main-actor steps interleave at every `await`; a start keeps it busy for its whole capture; reports get lost or late | every command is executed and reported |
| Capture helper | `helper/main.go` | `helper-state.json`, partial and final captures, `tcpdump` and supervisor processes | start, start-local, stop, status, supervise | separate root processes share files without a lock; kills, reboots | only complete captures are published, each of them once; one capture at a time |
| Staging worker | `cmd/worker/main.go`, `internal/analyzer/pcap.go` | staged and retained files | filter or retain, analyse, upload | crash between steps, each step may fail, an upload may never return | a report is ingested at most once; raw files do not stay |
| Retention | `internal/analyzer/retention.go` | retained files | prune by age and size | failing removals, quota between rounds | age and quota hold after a prune |
| Report aggregation | `internal/analyzer/report.go`, `redact.go` | none | parse rows into minute buckets and findings | none | sums are conserved |
| Dashboard | `dashboard/src/` | the data it shows | refresh on every message of the stream | overlapping refreshes of seven requests each, any of which may fail | it ends up showing the present state |
| Harness, router adapter, core library, scripts | `internal/harness`, `internal/router`, `DukuNetLabCore`, `scripts` | none of the above | - | - | - |

How they interact: clients and the ticker call the store; with a database every
changing call writes the whole store into one row. The menu app polls
`GET /host/commands/next`, runs the helper once per command and posts the result,
from which the store opens and closes sessions. The helper leaves `tcpdump` and a
supervisor behind; they and later helper calls share only files and signals. The
worker takes published files out of staging and posts reports to the API. Every
changing call of the API is followed by an event to each open dashboard, which
answers any message of its stream by loading everything again.

## The modules

`Scheduler` - the schedule part of the store. `schedules`, `automation` and
`lastTick` are the fields of `Memory`; `running` says whether a session runs;
`now` is the wall clock, which moves by itself, so that ticks come late, twice in
a minute or never. `AddSchedule`, `SeedDemo`, `ResetDemo` and `TickSchedules` are
the methods; `SessionChanges` is what `CompleteHostCommand` does to `running`.
The tick key is local time, so `ClockGoesBack` makes minutes come again;
`queued` is a history of the starts ticks queued, each with the pass of the clock
it was queued in. The calendar is scaled by
constants (1440 minutes, 7 days and 120 minutes in the code).

`MemoryStore` - the queue and the sessions as pure functions from store to store,
one per method of `Memory`. Each method holds the store's mutex from its first
line to its last, which is what makes one atomic function of it. The shared id
counter counts only commands, because ids are only compared. The window that is
due is a parameter of `TickSchedules`; `Scheduler` decides which one it is.

`HostBridge` - extends `MemoryStore` with the API's clients, the ticker, the menu
app's loop (`idle`, `holding` a command, `reading` the output of a start, `reporting`
a result) and the air (`air` is the command whose capture runs). `runHelper` reads
the helper's pipe to the end of the file (`main.swift:160`), and `tcpdump` and the
supervisor inherit that pipe as their standard error (`helper/main.go:396`,
`:298`); so a start keeps the app `reading` until its capture has ended, and only
then has a result. `LoseReport` is a post that fails, `GiveUpReport` one that
times out at the app while the API has still to read it (`late`), `CaptureEnds`
the natural end, `MenuStop` the menu's own stop, which no command records. The API
may be down (`up`): nothing is polled then and a report is lost; its boot may seed
the demo data. `AppRestarts` is the menu app that quits between fetching a command
and reporting it; one that reads can only be forced to, and leaves its capture
behind. One call of the helper is one step here. `over` (whose captures have ended
while a result is on its way), `overdue` (whose report was given up) and `stopped`
are histories.

`CaptureRequests` - the abstract specification of what the queue and the menu app
promise to whoever asks for a capture or a stop: a request is numbered once and
its answer is final, only a request that waits is taken up, a stop cancels the
starts that wait, stops are carried out in order, and what gets on the air is
younger than the last stop. A result that nobody awaits may still arrive. There is
no queue in it, no polling and no session. `HostBridge` implements it
(`KeepsRequests`); `StageIn` is the mapping.

`PostgresStore` - extends `MemoryStore` with the row, the callers between
change, snapshot and write, and the process that crashes and boots. The menu app
is here too, with the command it `held` while the API restarts. `dirty` and
`lost` are histories: persists overlapped or failed since the last call that ran
alone; a crash lost a change.

`CaptureHelper` - the helper, one step per system call on the shared files. An
invoker runs one helper process at a time (`start`, `stop`, `status`);
a supervisor goes by its capture. A capture stands for its output path and its
`tcpdump`. `stateFile` is `Absent`, `Torn` (truncated or overlaid by two
writers) or names a capture; `writers` have the present file open. `published`
and `failed` are histories. Argument and path checks that look at no shared state
happen before the first step; `probe` and `restore` change none of this state.

`CaptureOutbox` - the abstract specification of what the helper promises to
whoever reads its captures, with neither processes nor files: recorded once,
available only after the recording ended, taken at most once, never back from
lost. `CaptureHelper` implements it (`KeepsOutbox`); `Stage` is the mapping.

`EventStream` - a change of the store on its way to the dashboards. `call` is
where each changing request is between the change and its event; `stream`,
`buffer` and `wire` are one `Server.events` per tab with its channel and its
connection; `load` holds the refreshes a tab has in flight and the answers they
have; `shown` is what it shows and `seen` a history of that. A state of the store
is the set of calls carried out. A row that cannot be written makes two handlers
answer an error without an event (`PersistFails`); one failing request ends a
refresh while the stream stays open (`RefreshFails`), and `missed` is a history of
what that refresh would have read, until the tab starts another; streams break;
and a restart of the API closes every stream and may lose changes.

`StagingWorker` - the worker's rounds and the pruning at the start of each, one
step per system call on the shared files. A name stands for a staged file and the
authorized copy named after it, and may be used again; captures are numbered as
they are published, so a copy says which capture it holds, whether it is `whole`
and how old it is. `pc` is the call the worker makes next; `removeRaw` and
`discardRaw` are the deferred removal of the raw file after a good and a failed
copy. The step `Uploads` is the return of the post: nothing says when, or whether,
it is taken. `reports`, `kept` and `left` are histories of ingested reports, of
removals of raw files that failed and of those of partial copies.

`MCScheduler`, `MCCaptureHelper`, `MCStagingWorker` - windows, symmetry and sizes
for TLC. `SchedulerProofs`, `HostBridgeProofs`,
`HostBridgeRefinement`, `PostgresStoreProofs`, `CaptureHelperProofs`,
`EventStreamProofs`, `StagingWorkerProofs` - the theorems; `MemoryStoreProofs` -
lemmas on the store's methods that those about `HostBridge` and `PostgresStore`
rest on.

A definition that follows a comment `Mutant:` is a plausible mistake. It is part
of no specification; put in the place of the definition after it, it makes a
property of a run fail, which shows that the property depends on that code.

## What TLC checks

| Run | Instance | What it shows |
| --- | --- | --- |
| `scheduler` | day of 6 minutes, week of 2 days, windows up to 3 minutes, 12 candidate windows, at most 2 accepted, minutes 0 to 9, the clock set back by 2 minutes once | `NoSameDayOverlap`, `OneWindowPerMinute`, `OneStartPerMinute`, `SameDayStartsDisjoint` |
| `host_bridge` | a channel and the local host, 4 commands, 2 minutes, any number of API restarts, 1 other fault | `StopFollowsCanceledStart`, `SettledNotExecuted`, `ResultMatchesCommand`, `StopOutlivesEarlierStarts`, `SessionsAreOver`, `StopsMeetNoCapture` |
| `host_bridge_live` | a channel and the local host, 3 commands, 1 minute, API restarts, 1 other fault | `EveryCommandSettles`, `StopTakesEffect`, and the refinement `KeepsRequests` |
| `postgres` | 2 clients and the ticker, 3 changing calls, 2 minutes, 1 fault | `UniqueIds`, `OneScheduledStartPerMinute`, `HeldIdIsNotReused`, `QuietMeansPersisted` |
| `capture_helper` | 2 captures, 2 invokers, the worker, 2 faults | `PublishedIsComplete`, `FinishedMeansPublished`, `PublishRaceSafe`, `EveryCaptureIsWatched`, and the refinement `KeepsOutbox` |
| `capture_helper_live` | 2 captures, 2 invokers, no fault | `EveryCaptureIsPublished` |
| `event_stream` | 1 tab, 2 calls, 2 lists, 2 refreshes at once, buffer and wire of 1, 1 fault | `NoChangeIsForgotten`, `TabsCatchUp`, `CallsReturn` |
| `staging` | a radio and a local-host name, 3 captures of sizes 1, 2, 1, quota 2, age 1, moments 0 to 2, 2 faults | `OnlyAuthorizedIsAnalysed`, `ReportedAtMostOnce`, `RawOutlivesPartialCopy`, `EvictionIsNeeded`, `RetentionIsRestored`, `RawLeavesStaging`, `EveryCaptureIsReported` |

Why the bounds are enough. The candidate windows hold each relation two windows
can have (adjacent, nested, equal, disjoint days, past midnight, disabled) and
each reason to refuse one; nine minutes cross a midnight and reach the second
day. An accepted window and a second one are the pair every property of windows
compares (`scheduler_midnight` accepts three, all of whose starts lie in the day);
a step of two minutes is shorter than the longest window. Four commands are a
start that is held, a stop, a start after it and one more of the ticker; one fault
is a lost or late report, a failed stop or a restart of the menu app, and each
needs only one to matter. A start of the local host names no channel, so one
channel gives two kinds of start, which is all the store tells apart. For the
refinement three commands do: two stops in the wrong order, or two starts and a
stop. Three calls are two that overlap and one that finds them;
a crash or a failing write is one fault. Two captures are an old and a new one,
two invokers with two supervisors give four finalizers, and two faults are a kill
followed by a reboot or a failing call. Three captures over two names are two
kept side by side, which exceed the quota together or not, and a third under a
used name; two faults are a crash or failure and one more on the way back. Tabs
share nothing but the calls, so one tab is enough; two calls fill a buffer of one
and drop an event, two lists can disagree, and two refreshes overtake each other,
one of which may fail.
`MaxCommands`, `MaxCalls`, `MaxMinute`, `Horizon`, `MaxSchedules`, `MaxStepsBack`,
`MaxCaptures`, `MaxFaults` and `WireSize` appear in guards only; the sets
`Captures`, `Candidates` and `Loads` bound the rest. A full `WireSize` is a
connection that takes no more until the tab reads; a tab with every member of
`Loads` in flight leaves its messages on the wire, as the six connections of a
browser make it do.

`OneStartPerMinute` and `SameDayStartsDisjoint` are about the history of ticks,
so they hold through seeds, resets and additions between two ticks; in a repeated
hour they hold for each pass.
`SessionsAreOver` says what `GET /status` can mean while a start is only reported
when its capture has ended: a session appears after the fact, and only of a
capture that really was on the air. `StopsMeetNoCapture` is the other side of it:
a stop is fetched when the app reads no longer, so it finds the air silent unless
the app was opened again, and a dashboard cannot cut a capture short.
`StopFollowsCanceledStart` and `SettledNotExecuted` name the one exception each
that a late report makes. `StopOutlivesEarlierStarts`
rests on two parts of the code together: a stop cancels pending starts when it is
requested, and the menu app holds one command at a time. That stops go first in
the queue makes them overtake what waits; the proof does without it.
`KeepsRequests` says it is the oldest stop that goes first, and relates each step
to the whole past of a command: its stage never goes back, and a start that is
canceled in the hands of the app ends as completed.
`NoChangeIsForgotten` says where a change is while no tab shows it, with no
heartbeat needed. Two kinds of change have to wait for the next message, at the
latest the heartbeat: one whose call was answered with an error, and one that was
to be read by a refresh that failed. `TabsCatchUp` says that the heartbeat does it.
`HeldIdIsNotReused` joins the store and the menu app across a restart.

### Fairness

Safety runs assume none. `HostBridge` assumes weak fairness of the menu app's
loop, which sleeps five seconds and starts again for as long as the app is open
(a stop takes the helper five seconds at most, and a request of the app times out;
a start takes as long as its capture), and of the end of captures, which `-G`,
`-W` and the supervisor's deadline enforce; its liveness is
stated for behaviours in which the API stays up from some time on. `EventStream`
assumes weak fairness of each handler's publication and of each stream's loop
with its ticker of twenty seconds, and nothing of a tab, which a browser may put
to sleep: `TabsCatchUp` is about tabs that are kept running and says so,
`CallsReturn` holds with tabs that never read again. `CaptureHelper`
assumes that the operating system runs every process and that `tcpdump` ends.
`StagingWorker` assumes weak fairness of the worker's loop except for the return
of an upload: a ticker drives the loop and its calls of `tshark` have a timeout,
but the post has none (`http.DefaultClient`). Its liveness is stated for
behaviours in which the uploads return (`UploadsReturn`), which the code leaves to
the API and the network, and in which the worker stays up from some time on,
because nothing restarts it (`compose.yml` names no restart policy). No
client, no ticker, no fault and no signal of the supervisor is assumed to happen.

### Disagreements between the code and what is said of it

| Run | What happens | What is said |
| --- | --- | --- |
| `scheduler_midnight` | a window past midnight and one of the next morning it runs into are both accepted | `memory.go:186` "schedule overlaps an existing window" |
| `host_bridge_closes` | the session of a capture that nobody stops is opened when the capture has ended and runs for ever, and no schedule starts a capture any more | `config/defaults.yaml:2` `max_session_minutes: 120` |
| `postgres_order` | two calls write their snapshots in the wrong order; both are answered and the newer change is not in the row | `postgres_integration_test.go:27` "state did not survive reconnect" |
| `capture_helper_onair` | a slow finalizer removes the state file of the next capture, and a third start is admitted beside it; for the same reason `stop` may say "capture is not running" while one is | `helper/main.go:381` "capture is already running" |

Seen while modelling and not given a run: `ValidateSchedule` accepts any start
minute, and a window outside the day never becomes due; seeding or clearing the
demo data drops real sessions and their commands, though the dashboard says "sin
tocar capturas reales" (`App.tsx:63`), and so does a boot that finds no radio;
after a crash that lost a write, ids are drawn again that the menu app may still
hold, and its result is booked on the new command (`HeldIdIsNotReused` fails
without its premise); in an hour that is repeated a window is started twice; a
refresh reads seven lists at seven moments and an older one may be shown last,
so a tab may show a mixture until the next message, twenty seconds at most; a
window or result whose row could not be written is answered as a conflict (409)
or as not found (404), though the memory has it, and no event is sent;
a scheduled start that meets a pending or running capture is lost for that day;
a start blocks the menu app until its capture has ended, so a stop from the
dashboard comes too late for it, and the menu's own stop cannot be clicked;
an upload that never returns stops the worker's rounds while the worker stays up,
so nothing is pruned and raw captures stay in staging; a refresh that fails is not
repeated, and an older one that succeeds after it takes its banner away;
the worker may take a capture between a finalizer's two looks at it, and `stop`
then exits with an error for a capture that was published (hence the exception in
`PublishRaceSafe`); a raw file whose removal fails is reported once more in every
round until it can be removed.

## What is proved

For every value of the constants that satisfies the modules' assumptions:

- `SchedulerProofs` - every safety invariant of the `scheduler` run
  (`TypeCorrect`, `AcceptedWindowsAreDisjoint`, `FirstMatchIsOnlyMatch`,
  `TickIsOncePerMinute`, `ScheduledStartsAreApart`). The invariants alone are not
  inductive: disjointness says nothing about empty windows, and the history says
  nothing of the next tick. `IInv` adds that accepted windows last a minute or
  more, that queued starts were due, and that the history is ordered by pass and
  strictly by minute within one, and in the present pass ends no later than
  `lastTick`. `OverlapIsSharedMinute` connects the bounds `windowsOverlap`
  compares with the minutes the property speaks of.
- `MemoryStoreProofs` - what each method of the store does, as lemmas on the
  functions of `MemoryStore`. Four relations carry most of it: `Ordered` (ids rise
  along the queue and none is ahead of the counter), `Sound` (a well-typed ordered
  store), `Grows` (old commands are kept and at most pending starts become
  canceled, for a stop that is pending) and `Completed` (what a result changes).
- `HostBridgeProofs` - every safety invariant of the `host_bridge` run
  (`TypeCorrect`, `CanceledStartIsFollowedByStop`, `SettledCommandsAreDropped`,
  `ResultsMatchCommands`, `StopsAreNotUndone`, `StopsComeAfterCaptures`) and its
  action property (`SessionsFollowCaptures`), for any number of channels, commands,
  minutes and faults. None is inductive alone. `Counted` (no id
  in use is ahead of the counter) makes an id in the queue the command in hand or
  nobody's; `HeldInQueue` adds that this command has no result yet unless that
  came late, and that, if it is canceled, a stop is waiting or came late;
  `LateInQueue` says the same of the identity of the command whose report is late;
  `StartsAreYounger` extends `StopOutlivesEarlierStarts` to the starts that are
  pending or in hand, and to the stop in hand; `Outcomes` says where the capture of
  a start is while the app reads, and that it is over once a result is on its way.
- `HostBridgeRefinement` - `BridgeImplementsRequests`. What each method of the
  store does to the stages of the commands is stated once, as an equation between
  functions (`EnqueueIsSeen`, `CancelIsSeen`, `MarkIsSeen`, `WipeIsSeen`), and the
  steps are composed of these. `IInv` is not enough: `StopsInTurn` adds that no
  stop that is pending or in hand is older than the latest one carried out, that
  the one in hand is the oldest of those pending, and that only starts are
  canceled.
- `PostgresStoreProofs` - every safety invariant of the `postgres` run
  (`TypeCorrect`, `IdsAreUnique`, `MinutesStartOnce`, `HeldIdIsKept`,
  `QuietRowIsCurrent`), for any number of callers, calls and faults. A restart
  makes any older copy the store, so `CopiesInOrder` speaks of every copy: the
  memory, the row and the snapshots that are still to be written. `HeldMatches`
  speaks of the queue the next boot will load while the API is down.
  `CallsInOrder` and `CleanIsCurrent` say that a call that is alone stays alone
  until another begins, and that its snapshot is then the memory.
- `CaptureHelperProofs` - every safety invariant of the `capture_helper` run
  (`TypeCorrect`, `OnlyCompleteCapturesArePublished`, `SuccessMeansPublished`,
  `CapturesAreWatched`, `ConcurrentFinishIsSafe`), for any number of captures,
  callers and faults. `IInv` adds `Spawned` (a capture whose `tcpdump` does not
  exist is known only to the start that makes it) and `Finishing` (whoever is in
  `finishCapture` has seen its `tcpdump` gone); `FaultFree` adds that, while
  nothing has failed, a capture with a `tcpdump` has, or had, a file.
  `HelperImplementsOutbox` proves the refinement from the same invariant: every
  step of the helper, its supervisors, the worker and every fault is one step of
  `CaptureOutbox` or leaves all stages alone.
- `EventStreamProofs` - `TypeCorrect` and `ChangesReachTabs`, for any number of
  tabs, calls, lists and refreshes and any sizes and faults.
  `NoChangeIsForgotten` is inductive with the types, because it already says of
  a refresh in flight that it has read nothing that lacks the change: when such a
  refresh is shown, every list has it, and when it fails, `missed` has it.
- `StagingWorkerProofs` - `TypeCorrect`, `CapturesAreReportedOnce`,
  `OnlyAuthorizedCopiesAreAnalysed` and the action properties
  `RawFilesOutlivePartialCopies` and `OnlyNeededCopiesAreEvicted`, for any number
  of names, captures, faults and any sizes and limits. They assume nothing of the
  uploads. `ReportedAtMostOnce` bounds the reports that were made;
  `Counted` also counts those that can still be made, from a file in staging or
  from the copy in hand. It needs `Distinct` (no two files hold one capture),
  `Entries` (what the round has listed is still there) and `Copying` (the copy in
  hand was made of the raw file it replaces). Eviction rests on `OldestIsRemovedFirst`,
  and on the removal stopping as soon as the rest fits the quota.

The assumptions are about constants only: positive calendar lengths, well-formed
candidate windows, distinct names, natural bounds and sizes, and a mark for an
empty table that is no store.

Only model-checked: liveness, because fairness is about enabled actions, which the
prover does not handle: `EveryCommandSettles`, `StopTakesEffect`,
`EveryCaptureIsPublished`, `TabsCatchUp`, `CallsReturn`, `RetentionIsRestored`,
`RawLeavesStaging` and `EveryCaptureIsReported`.

## Abstractions

- The clock of `Scheduler` may be set back; in the other modules it does not step
  back, because nothing they check reads more of it than its minute. A clock that
  jumps forward is a series of missed ticks.
- Output paths and process ids are not reused; the menu app names a file after
  the second of its start.
- In `StagingWorker` a name may be used again, by hand, but no capture is
  published under a name while the worker is handling that name: a capture takes
  at least as long as the helper, and the calls in question follow one another at
  once. A filtered copy is as large as its capture. A round reads the time once,
  so the clock stands still while it prunes.
- `HostBridge` takes the helper at its word: a successful stop leaves nothing on
  the air. It holds one late report at a time, and ends a start of the app with
  the capture: the supervisor holds the pipe for moments longer. `CaptureHelper`
  shows when a stop leaves something running. Its store survives a restart of the
  API, as the row does when it is current; `PostgresStore` says when it is.
- Radios, metrics, devices, findings and router samples are lists that grow until
  they are wiped. `PostgresStore` keeps whether there is a radio, which decides
  the seeding at boot, and the set of ingested reports.
- A row is written or not, and JSON gives back what it was given; `argInt` makes
  up for the one difference it makes, numbers read as floats.

- `EventStream` counts the messages of a stream and not their text, which no
  dashboard reads. Changes are only added: seven lists that each show a set of
  calls, not their fields. Ticks publish nothing and are
  left out: they queue a command, and no list shows commands.

## Not modelled

- Aggregation of a report (`report.go`): a sequential pure function of lines of
  text, without state, concurrency or failure between its steps; its tests reach
  its cases, and a model would repeat it line by line. The content of captures,
  BSSID filters and redaction (`redact.go`) are text work.
- Exports, CORS, the token checks, the status view and the pages of the dashboard:
  input and output, or presentation.
- The choice of the repository in the menu app and the start of the containers:
  they decide whether the loop polls at all, which its fairness assumes.
- `internal/harness`, `internal/router`, the core library and the scripts: no
  state shared with the lab. The tables of `db/init/001_schema.sql`: no code uses
  them.
- Reuse of process ids: nothing in the state file could tell a reused one, so any
  property of it would be about the operating system. A window whose minute no
  tick meets: the code promises nothing about it.

## Plan

1. An abstract specification of the row, a store that is written by one caller at
   a time, which `PostgresStore` implements as long as no two calls overlap, with
   its proof from `CopiesInOrder` and `CleanIsCurrent`.
2. Action properties of the worker beyond `RawOutlivesPartialCopy`, in
   particular what an overwritten name keeps.
