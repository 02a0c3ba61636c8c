------------------------- MODULE PostgresStoreProofs -------------------------
(***************************************************************************)
(* Proofs about PostgresStore, for any number of concurrent callers, calls *)
(* and faults.  The safety invariants follow from one inductive invariant: *)
(* every copy of the memory that a crash or a late write may bring back is *)
(* in order, a call that met no other carries the memory to the row, and   *)
(* what is restored knows the command the menu app has in hand.            *)
(***************************************************************************)
EXTENDS PostgresStore, MemoryStoreProofs

\* What the menu app may hold, and where a caller may be.
Held  == Commands(Channels) \cup {Nothing}
Calls == [pc : {"idle", "snapshot", "write"}, payload : App \cup {NoRow}, alone : BOOLEAN]

\* Ids and scheduled minutes are in order, and no minute is ahead of the clock.
InOrder(a) ==
    /\ Ordered(a.queue)
    /\ a.queue.lastTick <= minute
    /\ \A i \in 1..Len(a.scheduled) : a.scheduled[i] <= a.queue.lastTick
    /\ \A i, j \in 1..Len(a.scheduled) : i < j => a.scheduled[i] < a.scheduled[j]

\* Whatever copy a crash or a late write brings back is in order.
CopiesInOrder ==
    /\ InOrder(memory)
    /\ row # NoRow => InOrder(row)
    /\ \A h \in Callers : call[h].pc = "write" => InOrder(call[h].payload)

\* A call between its change and its answer carries a snapshot when it is
\* about to write, and one that is alone met no other call.
CallsInOrder ==
    /\ \A h \in Callers :
          /\ call[h].pc = "idle" => call[h] = Idle
          /\ call[h].pc = "write" => call[h].payload # NoRow
    /\ \A h, g \in Callers : (call[h].alone /\ g # h) => call[g] = Idle
    /\ ~up => Busy = {}

\* A clean store is one whose last change is in the row or in the snapshot of
\* the only call, or is still to be taken by it.
CleanIsCurrent ==
    /\ ~dirty => \A h \in Busy : call[h].alone
    /\ \A h \in Callers :
          (call[h].alone /\ call[h].pc = "write") => Durable(call[h].payload) = Durable(memory)
    /\ QuietMeansPersisted

\* The id of c was drawn, and is in the queue q with c or not at all.
Matches(q, c) ==
    /\ c.id <= q.seq
    /\ \A i \in 1..Len(q.commands) :
          q.commands[i].id = c.id =>
              q.commands[i].action = c.action /\ q.commands[i].channel = c.channel

\* As long as no crash lost a change, the command in hand is in keeping with
\* the queue, or with the queue the next boot brings back.
HeldMatches ==
    /\ ~up => memory.queue.commands = <<>>
    /\ ~lost => Matches(IF up THEN memory.queue ELSE Saved.queue, held)

IInv == TypeOK /\ CopiesInOrder /\ CallsInOrder /\ CleanIsCurrent /\ HeldMatches

-----------------------------------------------------------------------------
(* Types *)

\* The fields of the whole memory; no memory is taken for an empty table.
LEMMA AppFields ==
    ASSUME NEW a \in App
    PROVE  /\ a.queue \in Stores(Channels) /\ a.radios \in BOOLEAN
           /\ a.windows \in SUBSET Windows /\ a.reports \in SUBSET Reports
           /\ a.scheduled \in Seq(Nat) /\ Len(a.scheduled) \in Nat
           /\ \A i \in 1..Len(a.scheduled) : a.scheduled[i] \in Nat
           /\ a.queue.lastTick \in Int /\ a.queue.seq \in Nat
           /\ a # NoRow
<1>1. /\ a.queue \in Stores(Channels) /\ a.radios \in BOOLEAN
      /\ a.windows \in SUBSET Windows /\ a.reports \in SUBSET Reports
      /\ a.scheduled \in Seq(Nat)
  BY DEF App
<1>2. Len(a.scheduled) \in Nat /\ \A i \in 1..Len(a.scheduled) : a.scheduled[i] \in Nat
  BY <1>1
<1>3. a.queue.lastTick \in Int /\ a.queue.seq \in Nat
  BY <1>1, StoreFields
<1> QED
  BY <1>1, <1>2, <1>3, NoRowAssumption

\* A record with fields of the right types is a memory.
LEMMA AppOfFields ==
    ASSUME NEW queue \in Stores(Channels), NEW radios \in BOOLEAN,
           NEW windows \in SUBSET Windows, NEW reports \in SUBSET Reports,
           NEW scheduled \in Seq(Nat)
    PROVE  [queue |-> queue, radios |-> radios, windows |-> windows, reports |-> reports,
            scheduled |-> scheduled] \in App
BY DEF App

\* Changing one field of the memory.
LEMMA WithQueue ==
    ASSUME NEW a \in App, NEW q \in Stores(Channels)
    PROVE  LET b == [a EXCEPT !.queue = q]
           IN  /\ b \in App /\ b.queue = q /\ b.radios = a.radios /\ b.windows = a.windows
               /\ b.reports = a.reports /\ b.scheduled = a.scheduled
BY AppFields DEF App

\* What Seeded makes of a memory.
DemoOver(a, q, windows) == [a EXCEPT !.queue = q, !.radios = TRUE, !.windows = windows]

\* Putting demo data over a memory.
LEMMA WithDemo ==
    ASSUME NEW a \in App, NEW q \in Stores(Channels), NEW windows \in SUBSET Windows
    PROVE  LET b == DemoOver(a, q, windows)
           IN  b \in App /\ b.queue = q /\ b.scheduled = a.scheduled
BY AppFields DEF App, DemoOver

\* Adding a radio, a window or a report leaves the queue as it is.
LEMMA WithOtherField ==
    ASSUME NEW a \in App, NEW windows \in SUBSET Windows, NEW reports \in SUBSET Reports
    PROVE  /\ [a EXCEPT !.radios = TRUE] \in App
           /\ [a EXCEPT !.radios = TRUE].queue = a.queue
           /\ [a EXCEPT !.radios = TRUE].scheduled = a.scheduled
           /\ [a EXCEPT !.windows = windows] \in App
           /\ [a EXCEPT !.windows = windows].queue = a.queue
           /\ [a EXCEPT !.windows = windows].scheduled = a.scheduled
           /\ [a EXCEPT !.reports = reports] \in App
           /\ [a EXCEPT !.reports = reports].queue = a.queue
           /\ [a EXCEPT !.reports = reports].scheduled = a.scheduled
BY AppFields DEF App

\* The fields of a call, also after another one has joined it.
LEMMA CallFields ==
    ASSUME NEW c \in Calls
    PROVE  /\ c.pc \in {"idle", "snapshot", "write"} /\ c.payload \in App \cup {NoRow}
           /\ c.alone \in BOOLEAN
           /\ [c EXCEPT !.alone = FALSE] \in Calls
           /\ [c EXCEPT !.alone = FALSE].pc = c.pc
           /\ [c EXCEPT !.alone = FALSE].payload = c.payload
           /\ ~[c EXCEPT !.alone = FALSE].alone
BY DEF Calls

\* A record with fields of the right types is the state of a call.
LEMMA CallOfFields ==
    ASSUME NEW pc \in {"idle", "snapshot", "write"}, NEW payload \in App \cup {NoRow},
           NEW alone \in BOOLEAN
    PROVE  [pc |-> pc, payload |-> payload, alone |-> alone] \in Calls
BY DEF Calls

\* A caller that is idle is not alone with the store.
LEMMA IdleIsCall ==
    /\ Idle \in Calls /\ Idle.pc = "idle" /\ ~Idle.alone
    /\ [Idle EXCEPT !.alone = FALSE] = Idle
<1>1. NoRow \in App \cup {NoRow} /\ FALSE \in BOOLEAN
  OBVIOUS
<1>2. Idle \in Calls
  BY <1>1, CallOfFields DEF Idle
<1>3. Idle.pc = "idle" /\ ~Idle.alone
  BY DEF Idle
<1>4. ASSUME NEW c \in Calls, ~c.alone
      PROVE  [c EXCEPT !.alone = FALSE] = c
  BY <1>4 DEF Calls
<1> QED
  BY <1>2, <1>3, <1>4

\* TypeOK in terms of Calls and Held, for the provers.
LEMMA TypeOKParts ==
    TypeOK <=>
        /\ up \in BOOLEAN /\ dirty \in BOOLEAN /\ memory \in App /\ row \in App \cup {NoRow}
        /\ call \in [Callers -> Calls] /\ (~up => Busy = {})
        /\ held \in Held /\ lost \in BOOLEAN
        /\ minute \in 0..MaxMinute /\ calls \in 0..MaxCalls /\ faults \in 0..MaxFaults
BY DEF TypeOK, Calls, Held

\* What the menu app holds has a number.
LEMMA HeldFields ==
    ASSUME NEW c \in Held
    PROVE  c.id \in Nat
BY DEF Held, Commands, Nothing

\* What a restart brings back depends on everything but the last tick.
LEMMA DurableParts ==
    ASSUME NEW a \in App, NEW b \in App
    PROVE  Durable(a) = Durable(b) <=>
              /\ a.queue.commands = b.queue.commands /\ a.queue.sessions = b.queue.sessions
              /\ a.queue.automation = b.queue.automation /\ a.queue.seq = b.queue.seq
              /\ a.radios = b.radios /\ a.windows = b.windows
              /\ a.reports = b.reports /\ a.scheduled = b.scheduled
<1> DEFINE Without(q) == [commands |-> q.commands, sessions |-> q.sessions,
                          automation |-> q.automation, lastTick |-> NeverTicked,
                          seq |-> q.seq]
           Kept(c) == [queue |-> Without(c.queue), radios |-> c.radios,
                       windows |-> c.windows, reports |-> c.reports,
                       scheduled |-> c.scheduled]
<1>1. ASSUME NEW q \in Stores(Channels)
      PROVE  [q EXCEPT !.lastTick = NeverTicked] = Without(q)
  BY DEF Stores
<1>2. ASSUME NEW c \in App
      PROVE  Durable(c) = [c EXCEPT !.queue = [c.queue EXCEPT !.lastTick = NeverTicked]]
  BY DEF Durable
<1>3. ASSUME NEW c \in App
      PROVE  Durable(c) = Kept(c)
  <2>1. c.queue \in Stores(Channels)
    BY AppFields
  <2>2. Durable(c) = [c EXCEPT !.queue = Without(c.queue)]
    BY <1>1, <1>2, <2>1
  <2> HIDE DEF Without
  <2> QED
    BY <2>2, AppFields DEF App
<1>4. Kept(a) = Kept(b) <=>
         /\ Without(a.queue) = Without(b.queue)
         /\ a.radios = b.radios /\ a.windows = b.windows
         /\ a.reports = b.reports /\ a.scheduled = b.scheduled
  <2> HIDE DEF Without
  <2> QED
    OBVIOUS
<1>5. Without(a.queue) = Without(b.queue) <=>
         /\ a.queue.commands = b.queue.commands /\ a.queue.sessions = b.queue.sessions
         /\ a.queue.automation = b.queue.automation /\ a.queue.seq = b.queue.seq
  OBVIOUS
<1> QED
  BY <1>3, <1>4, <1>5

-----------------------------------------------------------------------------
(* Copies of the memory *)

\* The memory of a process that has loaded nothing is in order.
LEMMA NewAppIsInOrder ==
    ASSUME TypeOK
    PROVE  /\ NewApp \in App /\ InOrder(NewApp) /\ Sound(NewApp.queue, Channels)
           /\ NewApp.queue = NewMemory /\ NewApp.scheduled = <<>>
<1>1. /\ Sound(NewMemory, Channels) /\ NewMemory \in Stores(Channels)
      /\ NewMemory.lastTick = NeverTicked
  BY NewMemoryIsSound DEF Sound
<1>2. NewApp.queue = NewMemory /\ NewApp.scheduled = <<>>
  BY DEF NewApp
<1>3. /\ FALSE \in BOOLEAN /\ {} \in SUBSET Windows /\ {} \in SUBSET Reports
      /\ <<>> \in Seq(Nat)
  OBVIOUS
<1>4. NewApp \in App
  BY <1>1, <1>3, AppOfFields DEF NewApp
<1>5. NeverTicked <= minute
  BY TypeOKParts DEF NeverTicked
<1>6. InOrder(NewApp)
  BY <1>1, <1>2, <1>5 DEF InOrder, Sound
<1> QED
  BY <1>1, <1>2, <1>4, <1>6

\* What a boot finds in the table is in order.
LEMMA SavedIsInOrder ==
    ASSUME IInv
    PROVE  Saved \in App /\ InOrder(Saved)
BY NewAppIsInOrder, TypeOKParts DEF IInv, CopiesInOrder, Saved

\* Seeding the demo data keeps a memory in order.
LEMMA SeededIsInOrder ==
    ASSUME TypeOK, NEW a \in App, InOrder(a)
    PROVE  /\ Seeded(a) \in App /\ InOrder(Seeded(a)) /\ Wipes(a.queue, Seeded(a).queue)
<1> DEFINE q == SeedDemo(a.queue)
           ws == {DemoWindow}
<1>1. Sound(a.queue, Channels)
  BY AppFields DEF InOrder, Sound
<1>2. /\ Sound(q, Channels) /\ Wipes(a.queue, q) /\ q.lastTick = a.queue.lastTick
      /\ q \in Stores(Channels)
  BY <1>1, SeedDemoWipes DEF Sound
<1>3. ws \in SUBSET Windows /\ NewApp \in App /\ NewApp.scheduled = <<>>
  BY WindowsAssumption, NewAppIsInOrder
<1> HIDE DEF q, ws
<1> DEFINE b == DemoOver(NewApp, q, ws)
<1>4. b \in App /\ b.queue = q /\ b.scheduled = NewApp.scheduled
  BY <1>2, <1>3, WithDemo
<1>5. Seeded(a) = b
  BY DEF Seeded, DemoOver, q, ws
<1> HIDE DEF b
<1>6. Seeded(a) \in App /\ Seeded(a).queue = q /\ Seeded(a).scheduled = <<>>
  BY <1>3, <1>4, <1>5
<1>7. InOrder(Seeded(a))
  BY <1>2, <1>6 DEF InOrder, Sound
<1> QED
  BY <1>2, <1>6, <1>7

\* Resetting the demo data keeps a memory in order.
LEMMA WipedIsInOrder ==
    ASSUME TypeOK, NEW a \in App, InOrder(a)
    PROVE  /\ Wiped(a) \in App /\ InOrder(Wiped(a)) /\ Wipes(a.queue, Wiped(a).queue)
<1> DEFINE q == ResetDemo(a.queue)
<1>1. Sound(a.queue, Channels)
  BY AppFields DEF InOrder, Sound
<1>2. /\ Sound(q, Channels) /\ Wipes(a.queue, q) /\ q.lastTick = a.queue.lastTick
      /\ q \in Stores(Channels)
  BY <1>1, ResetDemoWipes DEF Sound
<1>3. NewApp \in App /\ NewApp.scheduled = <<>>
  BY NewAppIsInOrder
<1> HIDE DEF q
<1>4. Wiped(a) = [NewApp EXCEPT !.queue = q]
  BY DEF Wiped, q
<1>5. Wiped(a) \in App /\ Wiped(a).queue = q /\ Wiped(a).scheduled = <<>>
  BY <1>2, <1>3, <1>4, WithQueue
<1>6. InOrder(Wiped(a))
  BY <1>2, <1>5 DEF InOrder, Sound
<1> QED
  BY <1>2, <1>5, <1>6

\* A step of the queue alone that keeps the last tick keeps the order.
LEMMA QueueStepInOrder ==
    ASSUME NEW a \in App, InOrder(a), NEW q, Sound(q, Channels),
           q.lastTick = a.queue.lastTick
    PROVE  [a EXCEPT !.queue = q] \in App /\ InOrder([a EXCEPT !.queue = q])
BY WithQueue DEF InOrder, Sound

-----------------------------------------------------------------------------
(* The command in hand *)

\* A request or a tick never gives the id in hand to another command.
LEMMA GrowthMatches ==
    ASSUME NEW m \in Stores(Channels), NEW n \in Stores(Channels), Grows(m, n),
           NEW c \in Held, Matches(m, c)
    PROVE  Matches(n, c)
<1>1. c.id \in Nat /\ m.seq \in Nat /\ n.seq \in Nat /\ c.id <= m.seq /\ n.seq >= m.seq
  BY HeldFields, StoreFields DEF Matches, Grows
<1>2. ASSUME NEW i \in 1..Len(n.commands), n.commands[i].id = c.id
      PROVE  n.commands[i].action = c.action /\ n.commands[i].channel = c.channel
  <2>1. i \in 1..Len(m.commands)
    BY <1>1, <1>2, OldIsKept
  <2>2. SameCommand(n.commands[i], m.commands[i])
    BY <2>1 DEF Grows
  <2> QED
    BY <1>2, <2>1, <2>2 DEF Matches, SameCommand
<1> QED
  BY <1>1, <1>2 DEF Matches

\* Neither does a seed or a reset, because the counter is kept.
LEMMA WipeMatches ==
    ASSUME NEW m, NEW n, Wipes(m, n), NEW c, Matches(m, c)
    PROVE  Matches(n, c)
BY DEF Wipes, Matches

\* No command has the id of no command.
LEMMA NothingMatches ==
    ASSUME NEW m \in Stores(Channels)
    PROVE  Matches(m, Nothing)
BY StoreFields DEF Matches, Nothing

-----------------------------------------------------------------------------
(* Steps *)

\* A change of the memory: the caller owes a write, and every other call is
\* no longer alone.
LEMMA ChangePreserves ==
    ASSUME IInv, NEW h \in Callers, NEW m \in App, Changes(h, m), InOrder(m),
           held' \in Held, ~lost => Matches(m.queue, held')
    PROVE  IInv'
<1>1. /\ memory' = m /\ up /\ call[h] = Idle
      /\ calls < MaxCalls /\ calls' = calls + 1
      /\ dirty' = (dirty \/ Busy # {})
      /\ UNCHANGED <<up, row, minute, faults, lost>>
  BY DEF Changes
<1>2. /\ call \in [Callers -> Calls] /\ row \in App \cup {NoRow} /\ dirty \in BOOLEAN
      /\ calls \in 0..MaxCalls /\ up \in BOOLEAN
  BY TypeOKParts DEF IInv
<1>3. call' = [g \in Callers |->
                 IF g = h THEN [pc |-> "snapshot", payload |-> NoRow, alone |-> Busy = {}]
                          ELSE [call[g] EXCEPT !.alone = FALSE]]
  BY DEF Changes
<1>4. /\ call'[h] \in Calls /\ call'[h].pc = "snapshot" /\ call'[h].alone = (Busy = {})
  <2>1. call'[h] = [pc |-> "snapshot", payload |-> NoRow, alone |-> Busy = {}]
    BY <1>3
  <2>2. (Busy = {}) \in BOOLEAN /\ NoRow \in App \cup {NoRow}
    OBVIOUS
  <2>3. [pc |-> "snapshot", payload |-> NoRow, alone |-> Busy = {}] \in Calls
    BY <2>2, CallOfFields
  <2> QED
    BY <2>1, <2>3
<1>5. ASSUME NEW g \in Callers, g # h
      PROVE  /\ call'[g] \in Calls /\ call'[g].pc = call[g].pc
             /\ call'[g].payload = call[g].payload /\ ~call'[g].alone
             /\ call[g] = Idle => call'[g] = Idle
  <2>1. call'[g] = [call[g] EXCEPT !.alone = FALSE]
    BY <1>3, <1>5
  <2> QED
    BY <1>2, <2>1, CallFields, IdleIsCall
<1>6. call' \in [Callers -> Calls]
  BY <1>3, <1>4, <1>5
<1>7. TypeOK'
  <2>1. calls' \in 0..MaxCalls /\ dirty' \in BOOLEAN
    BY <1>1, <1>2, BoundsAssumption
  <2>2. up'
    BY <1>1
  <2> QED
    BY <1>1, <1>6, <2>1, <2>2 DEF IInv, TypeOK, Calls, Held
<1>8. CopiesInOrder'
  <2>1. InOrder(m)' /\ (row # NoRow => InOrder(row)')
    BY <1>1 DEF IInv, CopiesInOrder, InOrder
  <2>2. ASSUME NEW g \in Callers, call'[g].pc = "write"
        PROVE  InOrder(call[g].payload)'
    <3>1. g # h /\ call[g].pc = "write" /\ call'[g].payload = call[g].payload
      BY <1>4, <1>5, <2>2
    <3> QED
      BY <1>1, <3>1 DEF IInv, CopiesInOrder, InOrder
  <2> QED
    BY <1>1, <2>1, <2>2 DEF CopiesInOrder, InOrder
<1>9. CallsInOrder'
  <2>1. ASSUME NEW g \in Callers
        PROVE  /\ call'[g].pc = "idle" => call'[g] = Idle
               /\ call'[g].pc = "write" => call'[g].payload # NoRow
    BY <1>4, <1>5 DEF IInv, CallsInOrder
  <2>2. ASSUME NEW g \in Callers, NEW k \in Callers, call'[g].alone, k # g
        PROVE  call'[k] = Idle
    <3>1. g = h /\ Busy = {}
      BY <1>4, <1>5, <2>2
    <3>2. call[k] = Idle
      BY <3>1 DEF Busy
    <3> QED
      BY <1>5, <2>2, <3>1, <3>2
  <2>3. up'
    BY <1>1
  <2> QED
    BY <2>1, <2>2, <2>3 DEF CallsInOrder
<1>10. CleanIsCurrent'
  <2>1. ASSUME ~dirty', NEW g \in Callers, call'[g] # Idle
        PROVE  call'[g].alone
    <3>1. Busy = {}
      BY <1>1, <2>1
    <3>2. \A k \in Callers : call[k] = Idle
      BY <3>1 DEF Busy
    <3>3. g = h
      BY <1>5, <2>1, <3>2
    <3> QED
      BY <1>4, <3>1, <3>3
  <2>2. ASSUME NEW g \in Callers, call'[g].alone, call'[g].pc = "write"
        PROVE  FALSE
    BY <1>4, <1>5, <2>2
  <2>3. Busy' # {}
    <3>1. call'[h] # Idle
      BY <1>4, IdleIsCall
    <3> QED
      BY <3>1 DEF Busy
  <2> QED
    BY <2>1, <2>2, <2>3 DEF CleanIsCurrent, QuietMeansPersisted, Busy
<1>11. HeldMatches'
  BY <1>1 DEF HeldMatches
<1> QED
  BY <1>7, <1>8, <1>9, <1>10, <1>11 DEF IInv

\* A step that owes no write: the clock, a tick that queues nothing, a poll.
LEMMA QuietPreserves ==
    ASSUME IInv, memory' \in App, Durable(memory') = Durable(memory), InOrder(memory)',
           minute' \in 0..MaxMinute, minute <= minute',
           held' \in Held, ~lost => Matches(IF up THEN memory'.queue ELSE Saved.queue, held'),
           UNCHANGED <<up, row, call, calls, faults, dirty, lost>>
    PROVE  IInv'
<1>1. /\ row \in App \cup {NoRow} /\ call \in [Callers -> Calls] /\ minute \in Int
  BY TypeOKParts DEF IInv
<1>2. ASSUME NEW a \in App, InOrder(a)
      PROVE  InOrder(a)'
  <2>1. a.queue.lastTick \in Int /\ minute' \in Int
    BY <1>2, AppFields
  <2>2. a.queue.lastTick <= minute'
    BY <1>1, <1>2, <2>1 DEF InOrder
  <2> QED
    BY <1>2, <2>2 DEF InOrder
<1>3. TypeOK'
  BY DEF IInv, TypeOK, Busy, Held
<1>4. CopiesInOrder'
  <2>1. row' # NoRow => InOrder(row)'
    BY <1>1, <1>2 DEF IInv, CopiesInOrder, InOrder
  <2>2. ASSUME NEW g \in Callers, call'[g].pc = "write"
        PROVE  InOrder(call[g].payload)'
    <3>1. call[g].payload \in App
      BY <1>1, <2>2, CallFields DEF IInv, CallsInOrder
    <3> QED
      BY <1>2, <2>2, <3>1 DEF IInv, CopiesInOrder, InOrder
  <2> QED
    BY <2>1, <2>2 DEF CopiesInOrder
<1>5. CallsInOrder'
  BY DEF IInv, CallsInOrder, Busy
<1>6. CleanIsCurrent'
  BY DEF IInv, CleanIsCurrent, QuietMeansPersisted, RowIsCurrent, Saved, Busy
<1>7. HeldMatches'
  <2>1. memory'.queue.commands = memory.queue.commands
    BY TypeOKParts, DurableParts DEF IInv
  <2> QED
    BY <2>1 DEF IInv, HeldMatches, Saved
<1> QED
  BY <1>3, <1>4, <1>5, <1>6, <1>7 DEF IInv

\* A snapshot takes the memory as it is, whoever has changed it meanwhile.
LEMMA SnapshotPreserves ==
    ASSUME IInv, NEW h \in Callers, TakesSnapshot(h)
    PROVE  IInv'
<1>1. /\ call \in [Callers -> Calls] /\ memory \in App /\ call[h] \in Calls
      /\ call[h].pc = "snapshot" /\ call[h] # Idle
  BY TypeOKParts, IdleIsCall DEF IInv, TakesSnapshot
<1>2. UNCHANGED <<up, memory, row, minute, calls, faults, dirty, hostVars>>
  BY DEF TakesSnapshot
<1>3. /\ call'[h] \in Calls /\ call'[h].pc = "write" /\ call'[h].payload = memory
      /\ call'[h].alone = call[h].alone
      /\ call' = [call EXCEPT ![h] = call'[h]]
  <2> DEFINE c == [call[h] EXCEPT !.pc = "write", !.payload = memory]
  <2>1. c \in Calls /\ c.pc = "write" /\ c.payload = memory /\ c.alone = call[h].alone
    BY <1>1 DEF Calls
  <2>2. call' = [call EXCEPT ![h] = c]
    BY DEF TakesSnapshot, Snapshot
  <2> HIDE DEF c
  <2> QED
    BY <1>1, <2>1, <2>2
<1>4. \A g \in Callers : g # h => call'[g] = call[g]
  BY <1>1, <1>3
<1>5. call' \in [Callers -> Calls]
  BY <1>1, <1>3
<1>6. memory # NoRow
  BY <1>1, AppFields
<1>7. call'[h] # Idle /\ up
  BY <1>1, <1>3, IdleIsCall DEF IInv, CallsInOrder, Busy
<1>8. TypeOK'
  BY <1>2, <1>5, <1>7 DEF IInv, TypeOK, Calls, Held, hostVars
<1>9. CopiesInOrder'
  BY <1>2, <1>3, <1>4 DEF IInv, CopiesInOrder, InOrder
<1>10. CallsInOrder'
  BY <1>1, <1>2, <1>3, <1>4, <1>6, <1>7 DEF IInv, CallsInOrder
<1>11. CleanIsCurrent'
  <2>1. ASSUME ~dirty', NEW g \in Callers, call'[g] # Idle
        PROVE  call'[g].alone
    BY <1>1, <1>2, <1>3, <1>4, <2>1 DEF IInv, CleanIsCurrent, Busy
  <2>2. ASSUME NEW g \in Callers, call'[g].alone, call'[g].pc = "write"
        PROVE  Durable(call'[g].payload) = Durable(memory')
    <3>1. CASE g = h
      BY <1>2, <1>3, <3>1
    <3>2. CASE g # h
      BY <1>2, <1>4, <2>2, <3>2 DEF IInv, CleanIsCurrent
    <3> QED
      BY <3>1, <3>2
  <2>3. Busy' # {}
    BY <1>7 DEF Busy
  <2> QED
    BY <2>1, <2>2, <2>3 DEF CleanIsCurrent, QuietMeansPersisted, Busy
<1>12. HeldMatches'
  BY <1>2 DEF IInv, HeldMatches, Saved, hostVars
<1> QED
  BY <1>8, <1>9, <1>10, <1>11, <1>12 DEF IInv

\* The end of a call, whatever became of its write.  Only the write of a call
\* that was alone makes the store clean.
LEMMA EndPreserves ==
    ASSUME IInv, NEW h \in Callers, call[h].pc = "write",
           row' \in {row, call[h].payload}, call' = [call EXCEPT ![h] = Idle],
           faults' \in 0..MaxFaults, dirty' \in BOOLEAN,
           ~dirty' => row' = call[h].payload /\ (dirty => call[h].alone),
           UNCHANGED <<up, memory, minute, calls, hostVars>>
    PROVE  IInv'
<1>1. /\ call \in [Callers -> Calls] /\ memory \in App /\ call[h] \in Calls
      /\ call[h] # Idle /\ row \in App \cup {NoRow}
  BY TypeOKParts, IdleIsCall DEF IInv
<1>2. call[h].payload \in App /\ InOrder(call[h].payload) /\ call[h].payload # NoRow
  BY <1>1, CallFields DEF IInv, CallsInOrder, CopiesInOrder
<1>3. call'[h] = Idle /\ \A g \in Callers : g # h => call'[g] = call[g]
  BY <1>1
<1>4. call' \in [Callers -> Calls]
  BY <1>1, IdleIsCall
<1>5. up
  BY <1>1 DEF IInv, CallsInOrder, Busy
<1>6. TypeOK'
  <2>1. row' \in App \cup {NoRow}
    BY <1>1, <1>2
  <2> QED
    BY <1>4, <1>5, <2>1 DEF IInv, TypeOK, Calls, Held, hostVars
<1>7. CopiesInOrder'
  <2>1. row' # NoRow => InOrder(row')
    BY <1>2 DEF IInv, CopiesInOrder
  <2>2. ASSUME NEW g \in Callers, call'[g].pc = "write"
        PROVE  InOrder(call'[g].payload)
    BY <1>3, <2>2, IdleIsCall DEF IInv, CopiesInOrder
  <2> QED
    BY <2>1, <2>2 DEF IInv, CopiesInOrder, InOrder
<1>8. CallsInOrder'
  BY <1>3, <1>5, IdleIsCall DEF IInv, CallsInOrder
<1>9. CleanIsCurrent'
  <2>1. ASSUME NEW g \in Callers, call'[g] # Idle
        PROVE  g # h /\ call'[g] = call[g] /\ call[g] # Idle
    BY <1>3, <2>1
  <2>2. ASSUME ~dirty' PROVE call[h].alone
    BY <1>1, <2>2 DEF IInv, CleanIsCurrent, Busy
  <2>3. ~dirty' => \A g \in Callers : call'[g] = Idle
    BY <1>3, <2>2 DEF IInv, CallsInOrder
  <2>4. ASSUME NEW g \in Callers, call'[g].alone, call'[g].pc = "write"
        PROVE  Durable(call'[g].payload) = Durable(memory')
    BY <1>3, <2>4, IdleIsCall DEF IInv, CleanIsCurrent
  <2>5. ~dirty' => RowIsCurrent'
    <3>1. SUFFICES ASSUME ~dirty' PROVE Durable(Saved') = Durable(memory')
      BY DEF RowIsCurrent
    <3>2. row' = call[h].payload /\ row' # NoRow
      BY <1>2, <3>1
    <3>3. Saved' = call[h].payload
      BY <3>2 DEF Saved
    <3>4. Durable(call[h].payload) = Durable(memory)
      BY <2>2, <3>1 DEF IInv, CleanIsCurrent
    <3> QED
      BY <3>3, <3>4
  <2> QED
    BY <2>3, <2>4, <2>5 DEF CleanIsCurrent, QuietMeansPersisted, Busy
<1>10. HeldMatches'
  BY <1>5 DEF IInv, HeldMatches, hostVars
<1> QED
  BY <1>6, <1>7, <1>8, <1>9, <1>10 DEF IInv

\* A client asks for a start or a stop.
LEMMA RequestPreserves ==
    ASSUME IInv, NEW h \in Callers, Requests(h), UNCHANGED held
    PROVE  IInv'
<1>1. /\ memory \in App /\ InOrder(memory) /\ Sound(memory.queue, Channels)
      /\ memory.queue \in Stores(Channels) /\ held \in Held
  BY TypeOKParts, AppFields DEF IInv, CopiesInOrder, InOrder, Sound
<1>2. ASSUME NEW q, Sound(q, Channels), Grows(memory.queue, q),
             q.lastTick = memory.queue.lastTick,
             Changes(h, [memory EXCEPT !.queue = q])
      PROVE  IInv'
  <2> DEFINE m == [memory EXCEPT !.queue = q]
  <2>1. m \in App /\ InOrder(m)
    BY <1>1, <1>2, QueueStepInOrder
  <2>2. q \in Stores(Channels) /\ m.queue = q
    BY <1>1, <1>2, WithQueue DEF Sound
  <2>3. Changes(h, m)
    BY <1>2
  <2> HIDE DEF m
  <2>4. up
    BY <2>3 DEF Changes
  <2>5. ~lost => Matches(m.queue, held)
    BY <1>1, <1>2, <2>2, <2>4, GrowthMatches DEF IInv, HeldMatches
  <2> QED
    BY <1>1, <2>1, <2>3, <2>5, ChangePreserves
<1>3. /\ NoChannel \in Channels \cup {NoChannel}
      /\ "start" \in StartActions /\ "start-local" \in StartActions
  BY DEF StartActions
<1>4. ASSUME NEW channel \in Channels,
             Changes(h, [memory EXCEPT !.queue = StartCapture(memory.queue, channel)])
      PROVE  IInv'
  <2> DEFINE q == RequestedStart(memory.queue, "start", channel)
  <2>1. /\ Sound(q, Channels) /\ Grows(memory.queue, q)
        /\ q.lastTick = memory.queue.lastTick
    BY <1>1, <1>3, StartRequestGrows
  <2>2. Changes(h, [memory EXCEPT !.queue = q])
    BY <1>4 DEF StartCapture
  <2> HIDE DEF q
  <2> QED
    BY <1>2, <2>1, <2>2
<1>5. CASE Changes(h, [memory EXCEPT !.queue = StartLocalCapture(memory.queue)])
  <2> DEFINE q == RequestedStart(memory.queue, "start-local", NoChannel)
  <2>1. /\ Sound(q, Channels) /\ Grows(memory.queue, q)
        /\ q.lastTick = memory.queue.lastTick
    BY <1>1, <1>3, StartRequestGrows
  <2>2. Changes(h, [memory EXCEPT !.queue = q])
    BY <1>5 DEF StartLocalCapture
  <2> HIDE DEF q
  <2> QED
    BY <1>2, <2>1, <2>2
<1>6. CASE Changes(h, [memory EXCEPT !.queue = StopCapture(memory.queue)])
  <2> DEFINE q == StopCapture(memory.queue)
  <2>1. /\ Sound(q, Channels) /\ Grows(memory.queue, q)
        /\ q.lastTick = memory.queue.lastTick
    BY <1>1, StopRequestGrows
  <2>2. Changes(h, [memory EXCEPT !.queue = q])
    BY <1>6
  <2> HIDE DEF q
  <2> QED
    BY <1>2, <2>1, <2>2
<1> QED
  BY <1>4, <1>5, <1>6 DEF Requests

\* The menu app reports a result, and lets go of the command.
LEMMA CompletionPreserves ==
    ASSUME IInv, NEW h \in Callers, Completes(h)
    PROVE  IInv'
<1>1. /\ memory \in App /\ InOrder(memory) /\ Sound(memory.queue, Channels)
      /\ Nothing \in Held
  BY TypeOKParts, AppFields DEF IInv, CopiesInOrder, InOrder, Sound, Held
<1>2. PICK exit0 \in BOOLEAN :
         Changes(h, [memory EXCEPT !.queue = CompleteHostCommand(memory.queue, held.id, exit0)])
  BY DEF Completes
<1>3. held' = Nothing /\ IndicesOf(memory.queue, held.id) # {}
  BY DEF Completes
<1> DEFINE q == CompleteHostCommand(memory.queue, held.id, exit0)
           m == [memory EXCEPT !.queue = q]
<1>4. /\ Sound(q, Channels)
      /\ \A i \in IndicesOf(memory.queue, held.id) : Completed(memory.queue, q, i, exit0)
  BY <1>1, ResultCompletes
<1>5. Changes(h, m)
  BY <1>2
<1> HIDE DEF q
<1>6. q.lastTick = memory.queue.lastTick
  BY <1>3, <1>4 DEF Completed
<1>7. m \in App /\ InOrder(m)
  BY <1>1, <1>4, <1>6, QueueStepInOrder
<1> HIDE DEF m
<1>8. Matches(m.queue, Nothing)
  BY <1>7, AppFields, NothingMatches
<1> QED
  BY <1>1, <1>3, <1>5, <1>7, <1>8, ChangePreserves

\* Windows, radios and reports leave the queue alone.
LEMMA OtherDataPreserves ==
    ASSUME IInv, NEW h \in Callers, AddSchedule(h) \/ AddRadio(h) \/ Ingest(h), UNCHANGED held
    PROVE  IInv'
<1>1. memory \in App /\ InOrder(memory) /\ held \in Held
  BY TypeOKParts DEF IInv, CopiesInOrder
<1>2. ASSUME NEW m \in App, m.queue = memory.queue, m.scheduled = memory.scheduled,
             Changes(h, m)
      PROVE  IInv'
  <2>1. InOrder(m)
    BY <1>1, <1>2 DEF InOrder
  <2>2. ~lost => Matches(m.queue, held)
    BY <1>2 DEF IInv, HeldMatches, Changes
  <2> QED
    BY <1>1, <1>2, <2>1, <2>2, ChangePreserves
<1>3. memory.windows \in SUBSET Windows /\ memory.reports \in SUBSET Reports
  BY <1>1, AppFields
<1>4. CASE AddSchedule(h)
  <2>1. PICK w \in Windows :
           Changes(h, [memory EXCEPT !.windows = memory.windows \cup {w}])
    BY <1>4 DEF AddSchedule
  <2> DEFINE ws == memory.windows \cup {w}
  <2>2. ws \in SUBSET Windows
    BY <1>3
  <2> HIDE DEF ws
  <2>3. /\ [memory EXCEPT !.windows = ws] \in App
        /\ [memory EXCEPT !.windows = ws].queue = memory.queue
        /\ [memory EXCEPT !.windows = ws].scheduled = memory.scheduled
    BY <1>1, <1>3, <2>2, WithOtherField
  <2> QED
    BY <1>2, <2>1, <2>3 DEF ws
<1>5. CASE AddRadio(h)
  <2>1. Changes(h, [memory EXCEPT !.radios = TRUE])
    BY <1>5 DEF AddRadio
  <2>2. /\ [memory EXCEPT !.radios = TRUE] \in App
        /\ [memory EXCEPT !.radios = TRUE].queue = memory.queue
        /\ [memory EXCEPT !.radios = TRUE].scheduled = memory.scheduled
    BY <1>1, <1>3, WithOtherField
  <2> QED
    BY <1>2, <2>1, <2>2
<1>6. CASE Ingest(h)
  <2>1. PICK r \in Reports :
           Changes(h, [memory EXCEPT !.reports = memory.reports \cup {r}])
    BY <1>6 DEF Ingest
  <2> DEFINE rs == memory.reports \cup {r}
  <2>2. rs \in SUBSET Reports
    BY <1>3
  <2> HIDE DEF rs
  <2>3. /\ [memory EXCEPT !.reports = rs] \in App
        /\ [memory EXCEPT !.reports = rs].queue = memory.queue
        /\ [memory EXCEPT !.reports = rs].scheduled = memory.scheduled
    BY <1>1, <1>3, <2>2, WithOtherField
  <2> QED
    BY <1>2, <2>1, <2>3 DEF rs
<1> QED
  BY <1>4, <1>5, <1>6

\* A client seeds or resets the demo data.
LEMMA DemoPreserves ==
    ASSUME IInv, NEW h \in Callers, DemoSeed(h) \/ DemoReset(h), UNCHANGED held
    PROVE  IInv'
<1>1. memory \in App /\ InOrder(memory) /\ held \in Held /\ TypeOK
  BY TypeOKParts DEF IInv, CopiesInOrder
<1>2. ASSUME NEW m \in App, InOrder(m), Wipes(memory.queue, m.queue), Changes(h, m)
      PROVE  IInv'
  <2>1. ~lost => Matches(m.queue, held)
    BY <1>2, WipeMatches DEF IInv, HeldMatches, Changes
  <2> QED
    BY <1>1, <1>2, <2>1, ChangePreserves
<1>3. CASE DemoSeed(h)
  BY <1>1, <1>2, <1>3, SeededIsInOrder DEF DemoSeed
<1>4. CASE DemoReset(h)
  BY <1>1, <1>2, <1>4, WipedIsInOrder DEF DemoReset
<1> QED
  BY <1>3, <1>4

\* A tick that queues a start does so in a minute no scheduled start has.
LEMMA TickPreserves == ASSUME IInv, Tick PROVE IInv'
<1>1. /\ memory \in App /\ InOrder(memory) /\ Sound(memory.queue, Channels)
      /\ memory.queue \in Stores(Channels) /\ held \in Held
      /\ minute \in 0..MaxMinute /\ minute \in Nat /\ Ticker \in Callers
      /\ call \in [Callers -> Calls]
  BY TypeOKParts, AppFields, BoundsAssumption
     DEF IInv, CopiesInOrder, InOrder, Sound, Callers
<1>2. PICK due \in DueChannels :
         LET ticked == TickSchedules(memory.queue, minute, due)
         IN  \/ /\ ticked.commands # memory.queue.commands
                /\ Changes(Ticker, [memory EXCEPT !.queue = ticked,
                                                  !.scheduled = Append(memory.scheduled, minute)])
                /\ UNCHANGED held
             \/ /\ ticked.commands = memory.queue.commands
                /\ up /\ call[Ticker] = Idle
                /\ memory' = [memory EXCEPT !.queue = ticked]
                /\ UNCHANGED <<up, row, call, minute, calls, faults, dirty, hostVars>>
  BY DEF Tick
<1> DEFINE q == TickSchedules(memory.queue, minute, due)
<1>3. /\ Sound(q, Channels) /\ Grows(memory.queue, q)
      /\ q.lastTick \in {memory.queue.lastTick, minute}
      /\ q.commands # memory.queue.commands =>
            memory.queue.lastTick # minute /\ q.lastTick = minute
      /\ q.commands = memory.queue.commands =>
            q.seq = memory.queue.seq /\ q.automation = memory.queue.automation
  <2>1. due \in Channels \cup {NoChannel} /\ minute \in Int
    BY <1>1 DEF DueChannels
  <2> QED
    BY <1>1, <2>1, TickGrows
<1> HIDE DEF q
<1>4. q \in Stores(Channels) /\ q.lastTick \in Int /\ Ordered(q)
  BY <1>3, StoreFields DEF Sound
<1>5. /\ memory.queue.lastTick \in Int /\ memory.queue.lastTick <= minute
      /\ memory.scheduled \in Seq(Nat) /\ Len(memory.scheduled) \in Nat
      /\ \A i \in 1..Len(memory.scheduled) :
            memory.scheduled[i] \in Nat /\ memory.scheduled[i] <= memory.queue.lastTick
      /\ \A i, j \in 1..Len(memory.scheduled) :
            i < j => memory.scheduled[i] < memory.scheduled[j]
  BY <1>1, AppFields DEF InOrder
<1>6. up /\ (~lost => Matches(q, held))
  <2>1. up
    BY <1>2 DEF Changes
  <2> QED
    BY <1>1, <1>3, <1>4, <2>1, GrowthMatches DEF IInv, HeldMatches
<1>7. CASE /\ q.commands # memory.queue.commands
           /\ Changes(Ticker, [memory EXCEPT !.queue = q,
                                             !.scheduled = Append(memory.scheduled, minute)])
           /\ UNCHANGED held
  <2> DEFINE s == Append(memory.scheduled, minute)
             m == [memory EXCEPT !.queue = q, !.scheduled = s]
  <2>1. /\ s \in Seq(Nat) /\ Len(s) = Len(memory.scheduled) + 1
        /\ \A i \in 1..Len(memory.scheduled) : s[i] = memory.scheduled[i]
        /\ s[Len(memory.scheduled) + 1] = minute
    BY <1>1, <1>5, AppendProperties
  <2> HIDE DEF s
  <2>2. m \in App /\ m.queue = q /\ m.scheduled = s
    BY <1>1, <1>4, <2>1, AppFields DEF App
  <2>3. Changes(Ticker, m)
    BY <1>7 DEF s
  <2> HIDE DEF m
  <2>4. q.lastTick = minute /\ memory.queue.lastTick < minute
    BY <1>1, <1>3, <1>5, <1>7
  <2>5. \A i \in 1..Len(s) : i \in 1..Len(memory.scheduled) \/ i = Len(memory.scheduled) + 1
    BY <1>5, <2>1
  <2>6. \A i \in 1..Len(memory.scheduled) : s[i] < minute
    <3> TAKE i \in 1..Len(memory.scheduled)
    <3>1. /\ s[i] = memory.scheduled[i] /\ memory.scheduled[i] \in Nat
          /\ memory.scheduled[i] <= memory.queue.lastTick
      BY <1>5, <2>1
    <3> QED
      BY <1>1, <1>5, <2>4, <3>1
  <2>7. \A i \in 1..Len(s) : s[i] <= minute
    BY <1>1, <2>1, <2>5, <2>6
  <2>8. \A i, j \in 1..Len(s) : i < j => s[i] < s[j]
    <3> TAKE i, j \in 1..Len(s)
    <3> HAVE i < j
    <3>1. i \in 1..Len(memory.scheduled)
      BY <1>5, <2>1, <2>5
    <3>2. CASE j \in 1..Len(memory.scheduled)
      BY <1>5, <2>1, <3>1, <3>2
    <3>3. CASE j = Len(memory.scheduled) + 1
      BY <2>1, <2>6, <3>1, <3>3
    <3> QED
      BY <2>5, <3>2, <3>3
  <2>9. InOrder(m)
    BY <1>1, <1>4, <2>2, <2>4, <2>7, <2>8 DEF InOrder
  <2> QED
    BY <1>1, <1>6, <1>7, <2>2, <2>3, <2>9, ChangePreserves
<1>8. CASE /\ q.commands = memory.queue.commands
           /\ memory' = [memory EXCEPT !.queue = q]
           /\ UNCHANGED <<up, row, call, minute, calls, faults, dirty, hostVars>>
  <2>1. /\ memory' \in App /\ memory'.queue = q /\ memory'.radios = memory.radios
        /\ memory'.windows = memory.windows /\ memory'.reports = memory.reports
        /\ memory'.scheduled = memory.scheduled
    BY <1>1, <1>4, <1>8, WithQueue
  <2>2. Durable(memory') = Durable(memory)
    <3>1. /\ memory'.queue.commands = memory.queue.commands
          /\ memory'.queue.sessions = memory.queue.sessions
          /\ memory'.queue.automation = memory.queue.automation
          /\ memory'.queue.seq = memory.queue.seq
      BY <1>3, <1>8, <2>1 DEF Grows
    <3> QED
      BY <1>1, <2>1, <3>1, DurableParts
  <2>3. q.lastTick <= minute /\ q.lastTick >= memory.queue.lastTick
    BY <1>1, <1>3, <1>4, <1>5
  <2>4. \A i \in 1..Len(memory.scheduled) : memory.scheduled[i] <= q.lastTick
    BY <1>4, <1>5, <2>3
  <2>5. InOrder(memory)'
    BY <1>4, <1>5, <1>8, <2>1, <2>3, <2>4 DEF InOrder
  <2>6. minute' \in 0..MaxMinute /\ minute <= minute'
    BY <1>1, <1>8
  <2> QED
    BY <1>1, <1>6, <1>8, <2>1, <2>2, <2>5, <2>6, QuietPreserves DEF hostVars
<1> QED
  BY <1>2, <1>7, <1>8 DEF q

\* A crash brings back what the row holds.
LEMMA CrashPreserves == ASSUME IInv, Crash PROVE IInv'
<1>1. /\ TypeOK /\ memory \in App /\ faults \in 0..MaxFaults /\ lost \in BOOLEAN
      /\ Saved \in App
  BY TypeOKParts, SavedIsInOrder DEF IInv
<1>2. /\ ~up' /\ memory' = NewApp /\ call' = [h \in Callers |-> Idle]
      /\ faults > 0 /\ faults' = faults - 1 /\ lost' = (lost \/ ~RowIsCurrent) /\ up
      /\ UNCHANGED <<row, minute, calls, dirty, held>>
  BY DEF Crash
<1>3. NewApp \in App /\ InOrder(NewApp)
  BY <1>1, NewAppIsInOrder
<1>4. Busy' = {} /\ call' \in [Callers -> Calls] /\ \A h \in Callers : call'[h] = Idle
  BY <1>2, IdleIsCall DEF Busy
<1>5. TypeOK'
  <2>1. faults' \in 0..MaxFaults
    BY <1>1, <1>2, BoundsAssumption
  <2>2. lost' \in BOOLEAN /\ up' \in BOOLEAN
    BY DEF Crash
  <2> QED
    BY <1>2, <1>3, <1>4, <2>1, <2>2 DEF IInv, TypeOK, Calls, Held
<1>6. CopiesInOrder'
  <2>1. InOrder(memory)' /\ (row' # NoRow => InOrder(row)')
    BY <1>2, <1>3 DEF IInv, CopiesInOrder, InOrder
  <2> QED
    BY <1>4, <2>1, IdleIsCall DEF CopiesInOrder
<1>7. CallsInOrder'
  BY <1>4, IdleIsCall DEF CallsInOrder
<1>8. CleanIsCurrent'
  BY <1>2, <1>4, IdleIsCall DEF CleanIsCurrent, QuietMeansPersisted
<1>9. HeldMatches'
  <2>1. SUFFICES ASSUME ~lost' PROVE Matches(Saved.queue, held)
    <3>1. memory'.queue.commands = <<>>
      BY <1>2 DEF NewApp, NewMemory
    <3> QED
      BY <1>2, <3>1 DEF HeldMatches, Saved
  <2>2. Durable(Saved) = Durable(memory) /\ Matches(memory.queue, held)
    BY <1>1, <1>2, <2>1 DEF IInv, RowIsCurrent, HeldMatches
  <2>3. /\ Saved.queue.commands = memory.queue.commands
        /\ Saved.queue.seq = memory.queue.seq
    BY <1>1, <2>2, DurableParts
  <2> QED
    BY <2>2, <2>3 DEF Matches
<1> QED
  BY <1>5, <1>6, <1>7, <1>8, <1>9 DEF IInv

\* A boot restores the row, and may put the demo data over it.
LEMMA BootPreserves == ASSUME IInv, Boot PROVE IInv'
<1>1. /\ TypeOK /\ Saved \in App /\ InOrder(Saved) /\ row \in App \cup {NoRow}
      /\ call \in [Callers -> Calls] /\ Busy = {} /\ ~up /\ faults \in 0..MaxFaults
      /\ dirty \in BOOLEAN
  BY TypeOKParts, SavedIsInOrder DEF IInv, Boot
<1>2. /\ Seeded(Saved) \in App /\ InOrder(Seeded(Saved))
      /\ Wipes(Saved.queue, Seeded(Saved).queue)
  BY <1>1, SeededIsInOrder
<1>3. up' /\ up' \in BOOLEAN /\ UNCHANGED <<call, minute, calls, hostVars>>
  BY DEF Boot
<1>4. \/ memory' = Saved /\ row' = row /\ faults' = faults /\ dirty' = FALSE
      \/ /\ memory' = Seeded(Saved)
         /\ \/ row' = memory' /\ dirty' = FALSE /\ faults' = faults
            \/ /\ faults > 0 /\ faults' = faults - 1
               /\ row' \in {row, memory'} /\ dirty' = TRUE
  BY DEF Boot, Restored, Snapshot
<1>5. memory' \in App /\ InOrder(memory') /\ row' \in {row, memory'}
  BY <1>1, <1>2, <1>4
<1>6. \A h \in Callers : call[h] = Idle
  BY <1>1 DEF Busy
<1>7. TypeOK'
  <2>0. dirty' \in BOOLEAN
    BY <1>4
  <2>1. faults' \in 0..MaxFaults
    BY <1>1, <1>4, BoundsAssumption
  <2>2. row' \in App \cup {NoRow}
    BY <1>1, <1>5
  <2> QED
    BY <1>3, <1>5, <2>0, <2>1, <2>2 DEF IInv, TypeOK, Calls, Held, hostVars
<1>8. CopiesInOrder'
  <2>1. row' # NoRow => InOrder(row')
    BY <1>5 DEF IInv, CopiesInOrder
  <2>2. InOrder(memory)' /\ (row' # NoRow => InOrder(row)')
    BY <1>3, <1>5, <2>1 DEF InOrder
  <2> QED
    BY <1>3, <1>6, <2>2, IdleIsCall DEF CopiesInOrder
<1>9. CallsInOrder'
  BY <1>3, <1>6, IdleIsCall DEF CallsInOrder
<1>10. CleanIsCurrent'
  <2>1. ASSUME ~dirty' PROVE Durable(Saved') = Durable(memory')
    <3>1. CASE memory' = Saved /\ row' = row
      <4>1. Saved' = Saved
        BY <3>1 DEF Saved
      <4> QED
        BY <3>1, <4>1
    <3>2. CASE row' = memory'
      <4>1. row' # NoRow
        BY <1>5, <3>2, AppFields
      <4> QED
        BY <3>2, <4>1 DEF Saved
    <3> QED
      BY <1>4, <2>1, <3>1, <3>2
  <2> QED
    BY <1>3, <1>6, <2>1, IdleIsCall
       DEF CleanIsCurrent, QuietMeansPersisted, RowIsCurrent, Busy
<1>11. HeldMatches'
  <2>1. ~lost => Matches(Saved.queue, held)
    BY <1>1 DEF IInv, HeldMatches
  <2>2. ~lost => Matches(memory'.queue, held)
    BY <1>2, <1>4, <2>1, WipeMatches
  <2> QED
    BY <1>3, <2>2 DEF HeldMatches, hostVars
<1> QED
  BY <1>7, <1>8, <1>9, <1>10, <1>11 DEF IInv

-----------------------------------------------------------------------------
(* The inductive invariant *)

\* The invariant holds before the first boot.
LEMMA InitEstablishes == Init => IInv
<1> SUFFICES ASSUME Init PROVE IInv
  OBVIOUS
<1>1. /\ call = [h \in Callers |-> Idle] /\ row = NoRow /\ memory = NewApp /\ ~up
      /\ held = Nothing /\ Nothing \in Held
  BY DEF Init, Held
<1>2. call \in [Callers -> Calls] /\ Busy = {} /\ \A h \in Callers : call[h] = Idle
  BY <1>1, IdleIsCall DEF Busy
<1>3. up \in BOOLEAN /\ dirty \in BOOLEAN /\ lost \in BOOLEAN
  BY DEF Init
<1>4. minute \in 0..MaxMinute /\ calls \in 0..MaxCalls /\ faults \in 0..MaxFaults
  BY BoundsAssumption DEF Init
<1>5. /\ NewApp \in App /\ NewApp.queue = NewMemory /\ NewMemory \in Stores(Channels)
      /\ NewApp.scheduled = <<>>
  <2>1. NewApp.queue = NewMemory /\ NewApp.scheduled = <<>>
    BY DEF NewApp
  <2>2. NewMemory \in Stores(Channels)
    BY NewMemoryIsSound DEF Sound
  <2>3. /\ FALSE \in BOOLEAN /\ {} \in SUBSET Windows /\ {} \in SUBSET Reports
        /\ <<>> \in Seq(Nat)
    OBVIOUS
  <2> QED
    BY <2>1, <2>2, <2>3, AppOfFields DEF NewApp
<1>6. TypeOK
  BY <1>1, <1>2, <1>3, <1>4, <1>5, TypeOKParts
<1>7. InOrder(NewApp)
  BY <1>6, NewAppIsInOrder
<1>8. CopiesInOrder
  BY <1>1, <1>2, <1>7, IdleIsCall DEF CopiesInOrder
<1>9. CallsInOrder
  BY <1>2, IdleIsCall DEF CallsInOrder
<1>10. CleanIsCurrent
  BY <1>1, <1>2, IdleIsCall DEF CleanIsCurrent, QuietMeansPersisted
<1>11. HeldMatches
  BY <1>1, <1>5, NothingMatches DEF HeldMatches, Saved, NewMemory
<1> QED
  BY <1>6, <1>8, <1>9, <1>10, <1>11 DEF IInv

\* Every step preserves the invariant.
LEMMA NextPreserves == IInv /\ [Next]_vars => IInv'
<1> SUFFICES ASSUME IInv, [Next]_vars PROVE IInv'
  OBVIOUS
<1>1. /\ memory \in App /\ InOrder(memory) /\ held \in Held /\ Nothing \in Held
      /\ minute \in 0..MaxMinute /\ faults \in 0..MaxFaults /\ Saved \in App
      /\ call \in [Callers -> Calls]
  BY TypeOKParts, SavedIsInOrder DEF IInv, CopiesInOrder, Held
<1>2. ~lost => Matches(IF up THEN memory.queue ELSE Saved.queue, held)
  BY DEF IInv, HeldMatches
<1>3. ASSUME NEW h \in Clients, Serves(h)
      PROVE  IInv'
  <2>1. h \in Callers
    BY DEF Callers
  <2>2. CASE Completes(h)
    BY <2>1, <2>2, CompletionPreserves
  <2>3. CASE Requests(h) /\ UNCHANGED held
    BY <2>1, <2>3, RequestPreserves
  <2>4. CASE (AddSchedule(h) \/ AddRadio(h) \/ Ingest(h)) /\ UNCHANGED held
    BY <2>1, <2>4, OtherDataPreserves
  <2>5. CASE (DemoSeed(h) \/ DemoReset(h)) /\ UNCHANGED held
    BY <2>1, <2>5, DemoPreserves
  <2> QED
    BY <1>3, <2>2, <2>3, <2>4, <2>5 DEF Serves
<1>4. ASSUME NEW h \in Callers, TakesSnapshot(h)
      PROVE  IInv'
  BY <1>4, SnapshotPreserves
<1>5. ASSUME NEW h \in Callers, Writes(h)
      PROVE  IInv'
  <2>1. /\ call[h].pc = "write" /\ row' = call[h].payload
        /\ call' = [call EXCEPT ![h] = Idle] /\ dirty' = (dirty /\ ~call[h].alone)
        /\ UNCHANGED <<up, memory, minute, calls, faults, hostVars>>
    BY <1>5 DEF Writes
  <2>2. dirty' \in BOOLEAN /\ (~dirty' => (dirty => call[h].alone))
    BY <2>1
  <2>3. faults' \in 0..MaxFaults
    BY <1>1, <2>1
  <2> QED
    BY <1>5, <2>1, <2>2, <2>3, EndPreserves
<1>6. ASSUME NEW h \in Callers, WriteFails(h)
      PROVE  IInv'
  <2>1. /\ call[h].pc = "write" /\ row' \in {row, call[h].payload}
        /\ call' = [call EXCEPT ![h] = Idle] /\ dirty' = TRUE
        /\ faults > 0 /\ faults' = faults - 1
        /\ UNCHANGED <<up, memory, minute, calls, hostVars>>
    BY <1>6 DEF WriteFails
  <2>2. dirty' \in BOOLEAN /\ dirty'
    BY <2>1
  <2>3. faults' \in 0..MaxFaults
    BY <1>1, <2>1, BoundsAssumption
  <2> QED
    BY <1>6, <2>1, <2>2, <2>3, EndPreserves
<1>7. CASE Tick
  BY <1>7, TickPreserves
<1>8. CASE MinutePasses
  <2>1. /\ minute' \in 0..MaxMinute /\ minute <= minute' /\ minute \in Int
    BY <1>1, <1>8, BoundsAssumption DEF MinutePasses
  <2>2. UNCHANGED <<up, memory, row, call, calls, faults, dirty, held, lost>>
    BY <1>8 DEF MinutePasses, hostVars
  <2>3. InOrder(memory)'
    <3>1. memory.queue.lastTick \in Int /\ minute' \in Int
      BY <1>1, <2>1, AppFields
    <3>2. memory.queue.lastTick <= minute'
      BY <1>1, <2>1, <3>1 DEF InOrder
    <3> QED
      BY <1>1, <2>2, <3>2 DEF InOrder
  <2> QED
    BY <1>1, <1>2, <2>1, <2>2, <2>3, QuietPreserves
<1>9. CASE Poll
  <2>1. /\ up /\ NextIndices(memory.queue) # {}
        /\ held' = NextHostCommand(memory.queue)
        /\ UNCHANGED <<up, memory, row, call, minute, calls, faults, dirty, lost>>
    BY <1>9 DEF Poll
  <2>2. memory.queue \in Stores(Channels) /\ Sound(memory.queue, Channels)
    BY <1>1, AppFields DEF InOrder, Sound
  <2>3. PICK k \in 1..Len(memory.queue.commands) : held' = memory.queue.commands[k]
    BY <2>1, <2>2, NextIsPending
  <2>4. held' \in Held /\ held'.id <= memory.queue.seq
    BY <2>2, <2>3, StoreFields DEF Held, Sound, Ordered
  <2>5. IndicesOf(memory.queue, memory.queue.commands[k].id) = {k}
    BY <2>2, FirstOfId
  <2>6. Matches(memory.queue, held')
    BY <2>3, <2>4, <2>5 DEF Matches, IndicesOf
  <2>7. InOrder(memory)' /\ minute <= minute' /\ minute' \in 0..MaxMinute
    BY <1>1, <2>1 DEF InOrder
  <2> QED
    BY <1>1, <2>1, <2>4, <2>6, <2>7, QuietPreserves
<1>10. CASE LoseReport
  <2>1. held' = Nothing /\ UNCHANGED <<up, memory, row, call, minute, calls, faults, dirty, lost>>
    BY <1>10 DEF LoseReport
  <2>2. Matches(IF up THEN memory.queue ELSE Saved.queue, Nothing)
    BY <1>1, AppFields, NothingMatches
  <2>3. InOrder(memory)' /\ minute <= minute' /\ minute' \in 0..MaxMinute
    BY <1>1, <2>1 DEF InOrder
  <2> QED
    BY <1>1, <2>1, <2>2, <2>3, QuietPreserves
<1>11. CASE Crash
  BY <1>11, CrashPreserves
<1>12. CASE Boot
  BY <1>12, BootPreserves
<1>13. CASE UNCHANGED vars
  <2>1. UNCHANGED <<up, memory, row, call, minute, calls, faults, dirty, held, lost>>
    BY <1>13 DEF vars
  <2>2. InOrder(memory)' /\ minute <= minute' /\ minute' \in 0..MaxMinute
    BY <1>1, <2>1 DEF InOrder
  <2> QED
    BY <1>1, <1>2, <2>1, <2>2, QuietPreserves
<1> QED
  BY <1>3, <1>4, <1>5, <1>6, <1>7, <1>8, <1>9, <1>10, <1>11, <1>12, <1>13
     DEF Next, Persists

\* The invariant the properties follow from holds in every reachable state.
THEOREM InductiveInvariant == Spec => []IInv
BY InitEstablishes, NextPreserves, PTL DEF Spec

-----------------------------------------------------------------------------
(* The properties *)

\* Every variable keeps its type, and a process that is down serves nobody.
THEOREM TypeCorrect == Spec => []TypeOK
<1>1. IInv => TypeOK
  BY DEF IInv
<1> QED
  BY <1>1, InductiveInvariant, PTL

\* Crashes, late writes and restarts never make two commands share an id.
THEOREM IdsAreUnique == Spec => []UniqueIds
<1>1. IInv => UniqueIds
  <2> SUFFICES ASSUME IInv, NEW i \in 1..Len(memory.queue.commands),
                      NEW j \in 1..Len(memory.queue.commands),
                      memory.queue.commands[i].id = memory.queue.commands[j].id
               PROVE  i = j
    BY DEF UniqueIds
  <2>1. Sound(memory.queue, Channels)
    BY TypeOKParts, AppFields DEF IInv, CopiesInOrder, InOrder, Sound
  <2>2. IndicesOf(memory.queue, memory.queue.commands[i].id) = {i}
    BY <2>1, FirstOfId
  <2> QED
    BY <2>2 DEF IndicesOf
<1> QED
  BY <1>1, InductiveInvariant, PTL

\* No minute has two scheduled starts, whichever row a restart within it loads.
THEOREM MinutesStartOnce == Spec => []OneScheduledStartPerMinute
<1>1. IInv => OneScheduledStartPerMinute
  <2> SUFFICES ASSUME IInv, NEW i \in 1..Len(memory.scheduled),
                      NEW j \in 1..Len(memory.scheduled),
                      memory.scheduled[i] = memory.scheduled[j]
               PROVE  i = j
    BY DEF OneScheduledStartPerMinute
  <2>1. memory.scheduled[i] \in Nat /\ ~(memory.scheduled[i] < memory.scheduled[i])
    BY TypeOKParts, AppFields DEF IInv
  <2>2. ~(i < j) /\ ~(j < i)
    BY <2>1 DEF IInv, CopiesInOrder, InOrder
  <2> QED
    BY <2>2
<1> QED
  BY <1>1, InductiveInvariant, PTL

\* As long as no crash lost a change, the id in the hands of the menu app is
\* nobody else's, before and after a restart.
THEOREM HeldIdIsKept == Spec => []HeldIdIsNotReused
<1>1. IInv => HeldIdIsNotReused
  <2> SUFFICES ASSUME IInv, ~lost, NEW i \in IndicesOf(memory.queue, held.id)
               PROVE  /\ memory.queue.commands[i].action = held.action
                      /\ memory.queue.commands[i].channel = held.channel
    BY DEF HeldIdIsNotReused
  <2>1. CASE up
    BY <2>1 DEF IInv, HeldMatches, Matches, IndicesOf
  <2>2. CASE ~up
    BY <2>2 DEF IInv, HeldMatches, IndicesOf
  <2> QED
    BY <2>1, <2>2
<1> QED
  BY <1>1, InductiveInvariant, PTL

\* Once a call had the store for itself and its write was answered, the row
\* holds what the memory holds.
THEOREM QuietRowIsCurrent == Spec => []QuietMeansPersisted
<1>1. IInv => QuietMeansPersisted
  BY DEF IInv, CleanIsCurrent
<1> QED
  BY <1>1, InductiveInvariant, PTL
=============================================================================
