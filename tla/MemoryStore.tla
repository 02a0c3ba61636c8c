----------------------------- MODULE MemoryStore -----------------------------
(***************************************************************************)
(* internal/store/memory.go: the API's in-memory store, as a record and    *)
(* the operations on it.  Each method of *Memory holds the store's mutex   *)
(* from its first line to its last, so each operation here is one atomic   *)
(* function from store to store.                                           *)
(*                                                                         *)
(* Kept: the host commands, the capture sessions, automationEnabled,       *)
(* lastScheduleTick and the id counter.  The id counter is shared with     *)
(* radios, metrics and findings in the code; only the numbers commands     *)
(* draw are counted, because ids are only compared for equality.  Radios,  *)
(* devices and metrics are append-only lists no other operation reads.     *)
(*                                                                         *)
(* Definitions that end in a variant name (ResetDemoFromZero, ...) are     *)
(* plausible mistakes, used to show that the properties detect them.       *)
(***************************************************************************)
EXTENDS Integers, Sequences, FiniteSets

NoChannel == 0          \* start-local and stop carry no channel
NeverTicked == -1       \* lastScheduleTick = ""

StartActions == {"start", "start-local"}
Actions      == StartActions \cup {"stop"}
Statuses     == {"pending", "completed", "canceled"}

Commands(Channels) ==
    [id : Nat \ {0}, action : Actions, channel : Channels \cup {NoChannel}, status : Statuses]

Sessions(Channels) ==
    [origin : {"manual", "local-host", "demo"}, channel : Channels \cup {NoChannel},
     status : {"running", "completed"}]

Stores(Channels) ==
    [commands : Seq(Commands(Channels)), sessions : Seq(Sessions(Channels)),
     automation : BOOLEAN, lastTick : Int, seq : Nat]

NewMemory ==
    [commands |-> <<>>, sessions |-> <<>>, automation |-> FALSE,
     lastTick |-> NeverTicked, seq |-> 0]

-----------------------------------------------------------------------------
(* The command queue *)

IsPending(c) == c.status = "pending"
IsStart(c)   == c.action \in StartActions

PendingIndices(m, actions) ==
    { i \in 1..Len(m.commands) :
        IsPending(m.commands[i]) /\ m.commands[i].action \in actions }

IndicesOf(m, id) == { i \in 1..Len(m.commands) : m.commands[i].id = id }

\* The loops of the store stop at the first match.
FirstOf(indices) == CHOOSE i \in indices : \A j \in indices : i <= j

\* m.id("host") and the append that always follows it.
Enqueue(m, action, channel) ==
    [m EXCEPT !.seq = m.seq + 1,
              !.commands = Append(m.commands,
                  [id |-> m.seq + 1, action |-> action,
                   channel |-> channel, status |-> "pending"])]

\* Mutant: local starts are forgotten.
CancelPendingRadioStarts(m) ==
    [m EXCEPT !.commands =
        [i \in 1..Len(m.commands) |->
            IF i \in PendingIndices(m, {"start"})
              THEN [m.commands[i] EXCEPT !.status = "canceled"]
              ELSE m.commands[i]]]

CancelPendingStarts(m) ==
    [m EXCEPT !.commands =
        [i \in 1..Len(m.commands) |->
            IF i \in PendingIndices(m, StartActions)
              THEN [m.commands[i] EXCEPT !.status = "canceled"]
              ELSE m.commands[i]]]

\* A client's start reuses a start that is already pending, whatever its kind.
RequestedStart(m, action, channel) ==
    IF PendingIndices(m, StartActions) # {} THEN m ELSE Enqueue(m, action, channel)

StartCapture(m, channel) == RequestedStart(m, "start", channel)
StartLocalCapture(m)     == RequestedStart(m, "start-local", NoChannel)

\* Mutant: a stop that could cancel a waiting start is not sent to the host.
StopCaptureOrCancel(m) ==
    IF PendingIndices(m, StartActions) # {}
      THEN CancelPendingStarts(m)
      ELSE Enqueue(m, "stop", NoChannel)

StopCapture(m) == Enqueue(CancelPendingStarts(m), "stop", NoChannel)

\* Mutant: a command that is not canceled is delivered, completed or not.
NextIndicesNotCanceled(m) ==
    LET stops == { i \in 1..Len(m.commands) :
                     m.commands[i].action = "stop" /\ m.commands[i].status # "canceled" }
    IN  IF stops # {} THEN stops ELSE PendingIndices(m, Actions)

\* A pending stop is delivered before every start; {} is ErrNotFound.
NextIndices(m) ==
    LET stops == PendingIndices(m, {"stop"})
    IN  IF stops # {} THEN stops ELSE PendingIndices(m, Actions)

\* Mutant: the newest of the commands that could be next is delivered.
NextHostCommandNewest(m) ==
    m.commands[CHOOSE i \in NextIndices(m) : \A j \in NextIndices(m) : i >= j]

\* Reading the next command changes nothing: it stays pending.
NextHostCommand(m) == m.commands[FirstOf(NextIndices(m))]

-----------------------------------------------------------------------------
(* Sessions *)

IsRunning(s) == s.status = "running"

SessionOf(c) ==
    [origin  |-> IF c.action = "start" THEN "manual" ELSE "local-host",
     channel |-> c.channel, status |-> "running"]

DemoSession == [origin |-> "demo", channel |-> NoChannel, status |-> "completed"]

RunningIndices(m) == { i \in 1..Len(m.sessions) : IsRunning(m.sessions[i]) }

CloseSessions(m) ==
    [m EXCEPT !.sessions =
        [i \in 1..Len(m.sessions) |-> [m.sessions[i] EXCEPT !.status = "completed"]]]

MarkCompleted(m, i) == [m EXCEPT !.commands[i].status = "completed"]

\* Mutant: the result text is not looked at, a failed start opens a session.
CompleteHostCommandAnyResult(m, id, exit0) ==
    IF IndicesOf(m, id) = {} THEN m
    ELSE LET i == FirstOf(IndicesOf(m, id))
             c == m.commands[i]
             marked == MarkCompleted(m, i)
         IN  IF IsStart(c)
               THEN [marked EXCEPT !.sessions = Append(@, SessionOf(c))]
               ELSE CloseSessions(CancelPendingStarts(marked))

\* Mutant: a command that failed stays pending, to be tried again.
CompleteHostCommandRetry(m, id, exit0) ==
    IF IndicesOf(m, id) = {} \/ ~exit0 THEN m
    ELSE LET i == FirstOf(IndicesOf(m, id))
             c == m.commands[i]
             marked == MarkCompleted(m, i)
         IN  IF c.action = "stop" THEN CloseSessions(CancelPendingStarts(marked))
             ELSE [marked EXCEPT !.sessions = Append(@, SessionOf(c))]

\* exit0: the result starts with "exit=0".  A completed stop cancels every
\* pending start and closes every running session without looking at the
\* result; a result overwrites whatever status the command had.
CompleteHostCommand(m, id, exit0) ==
    IF IndicesOf(m, id) = {} THEN m     \* ErrNotFound
    ELSE LET i == FirstOf(IndicesOf(m, id))
             c == m.commands[i]
             marked == MarkCompleted(m, i)
         IN  IF c.action = "stop" THEN CloseSessions(CancelPendingStarts(marked))
             ELSE IF exit0 THEN [marked EXCEPT !.sessions = Append(@, SessionOf(c))]
             ELSE marked

-----------------------------------------------------------------------------
(* Schedules and demo data *)

\* The tick of minute now, with the channel of the first window that is due
\* (NoChannel when none is; module Scheduler says which one that is).  A
\* start that is already pending does not hold the scheduled one back.
TickSchedules(m, now, due) ==
    IF ~m.automation \/ m.lastTick = now THEN m
    ELSE LET ticked == [m EXCEPT !.lastTick = now]
         IN  IF RunningIndices(m) # {} \/ due = NoChannel
               THEN ticked
               ELSE Enqueue(ticked, "start", due)

\* Mutant: seeding starts from a new store and forgets the ids already drawn.
SeedDemoAnew(m) ==
    [NewMemory EXCEPT !.sessions = <<DemoSession>>, !.automation = TRUE]

SeedDemo(m) ==
    [m EXCEPT !.commands = <<>>, !.sessions = <<DemoSession>>, !.automation = TRUE]

\* Mutant: the ids start again after a reset.
ResetDemoFromZero(m) == [m EXCEPT !.commands = <<>>, !.sessions = <<>>, !.seq = 0]

\* The id counter, automationEnabled and lastScheduleTick survive the reset.
ResetDemo(m) == [m EXCEPT !.commands = <<>>, !.sessions = <<>>]
=============================================================================
