-------------------------- MODULE HostBridgeProofs --------------------------
(***************************************************************************)
(* Proofs about HostBridge, for any channels, any number of commands and   *)
(* faults and any clock.  All safety properties follow from one inductive  *)
(* invariant, which says what the store knows of the command the menu app  *)
(* has in hand and of the report nobody waits for, that no start still to  *)
(* be carried out is older than the latest stop, and where the capture of  *)
(* a start is while its result is on its way.                              *)
(***************************************************************************)
EXTENDS HostBridge, MemoryStoreProofs

\* What the menu app may hold, its states, and its reports.
Held    == Commands(Channels) \cup {Nothing}
Bridges == [pc : {"idle", "holding", "reading", "reporting"}, cmd : Held, ok : BOOLEAN]
Reports == [cmd : Held, ok : BOOLEAN]

\* No id in use is ahead of the counter; what the app holds and what it has
\* given up are copies of commands that were pending.
Counted ==
    /\ Ordered(mem)
    /\ bridge.cmd.id <= mem.seq /\ late.cmd.id <= mem.seq /\ air.id <= mem.seq
    /\ bridge.pc = "idle" => bridge = Idle
    /\ bridge # Idle => IsPending(bridge.cmd)
    /\ late # NoReport => IsPending(late.cmd) /\ late.cmd \in overdue

\* The id in hand is in the queue with the command in hand or not at all; if
\* it has its result, that came late, and if it is canceled a stop is waiting
\* or came late.
HeldInQueue ==
    \A i \in 1..Len(mem.commands) :
        (bridge # Idle /\ mem.commands[i].id = bridge.cmd.id) =>
            /\ SameCommand(mem.commands[i], bridge.cmd)
            /\ mem.commands[i].status = "completed" => bridge.cmd \in overdue
            /\ mem.commands[i].status = "canceled" =>
                  \/ \E j \in 1..Len(mem.commands) :
                        IsPending(mem.commands[j]) /\ mem.commands[j].action = "stop"
                  \/ StopOverdue

\* So is the id of the late report.
LateInQueue ==
    \A i \in 1..Len(mem.commands) :
        (late # NoReport /\ mem.commands[i].id = late.cmd.id) =>
            SameCommand(mem.commands[i], late.cmd)

\* No start the bridge may still carry out is older than the latest stop, and
\* none in the queue is older than a stop the bridge has in hand.
StartsAreYounger ==
    /\ \A i \in 1..Len(mem.commands) :
          (IsPending(mem.commands[i]) /\ IsStart(mem.commands[i])) =>
              /\ mem.commands[i].id > stopped
              /\ (bridge.pc = "holding" /\ bridge.cmd.action = "stop") =>
                    mem.commands[i].id > bridge.cmd.id
    /\ (bridge.pc = "holding" /\ IsStart(bridge.cmd)) => bridge.cmd.id > stopped
    /\ StopOutlivesEarlierStarts

\* While the app reads, the capture is on the air or over; the result of a
\* successful start is on its way only when it is over.  A capture the app
\* does not read of outlived the app that started it.
Outcomes ==
    /\ bridge.pc = "reading" =>
          /\ IsStart(bridge.cmd) /\ bridge.ok
          /\ air = bridge.cmd \/ (~OnAir /\ bridge.cmd \in over)
    /\ (bridge.pc = "reporting" /\ IsStart(bridge.cmd) /\ bridge.ok) => bridge.cmd \in over
    /\ (IsStart(late.cmd) /\ late.ok) => late.cmd \in over
    /\ (OnAir /\ bridge.pc # "reading") => faults < MaxFaults

IInv ==
    /\ TypeOK
    /\ Counted
    /\ HeldInQueue
    /\ LateInQueue
    /\ StartsAreYounger
    /\ Outcomes

-----------------------------------------------------------------------------
(* Types *)

\* What the menu app holds has a number, and is either a start or a stop.
LEMMA HeldFields ==
    ASSUME NEW c \in Held
    PROVE  /\ c.id \in Nat /\ c.action \in Actions
           /\ c.action = "stop" <=> ~IsStart(c)
           /\ IsStart(c) => c # Nothing /\ c \in Commands(Channels)
<1>1. ASSUME c \in Commands(Channels) PROVE c.id \in Nat /\ c.action \in Actions
  BY <1>1 DEF Commands
<1>2. c = Nothing => c.id = 0 /\ c.action = "stop"
  BY DEF Nothing
<1>3. c.id \in Nat /\ c.action \in Actions
  BY <1>1, <1>2 DEF Held, Actions
<1>4. c.action = "stop" <=> ~IsStart(c)
  BY <1>3 DEF Actions, StartActions, IsStart
<1>5. IsStart(c) => c # Nothing
  BY <1>2, <1>4
<1> QED
  BY <1>3, <1>4, <1>5 DEF Held

\* The fields of the menu app's state, and of its reports.
LEMMA BridgeFields ==
    ASSUME NEW b \in Bridges
    PROVE  /\ b.pc \in {"idle", "holding", "reading", "reporting"}
           /\ b.cmd \in Held /\ b.ok \in BOOLEAN
BY DEF Bridges

LEMMA ReportFields ==
    ASSUME NEW r \in Reports
    PROVE  r.cmd \in Held /\ r.ok \in BOOLEAN
BY DEF Reports

\* Idle is a state of the menu app, in which it holds nothing, and NoReport
\* is a report of nothing.
LEMMA IdleIsBridge ==
    /\ Idle \in Bridges /\ Idle.pc = "idle" /\ Idle.cmd = Nothing /\ Nothing.id = 0
    /\ Nothing \in Held /\ ~IsStart(Nothing)
    /\ NoReport \in Reports /\ NoReport.cmd = Nothing
<1>1. Nothing \in Held
  BY DEF Held
<1>2. ~IsStart(Nothing)
  BY DEF IsStart, StartActions, Nothing
<1> QED
  BY <1>1, <1>2 DEF Idle, NoReport, Bridges, Reports, Nothing

\* Going on to read or to report keeps the command in hand.
LEMMA GoesOn ==
    ASSUME NEW b \in Bridges, NEW ok \in BOOLEAN, NEW pc \in {"reading", "reporting"}
    PROVE  LET n == [b EXCEPT !.pc = pc, !.ok = ok]
           IN  n \in Bridges /\ n.pc = pc /\ n.cmd = b.cmd /\ n.ok = ok
BY DEF Bridges

\* TypeOK in terms of Bridges, Reports and Held, for the provers.
LEMMA TypeOKParts ==
    TypeOK <=>
        /\ up \in BOOLEAN /\ mem \in Stores(Channels)
        /\ bridge \in Bridges /\ (bridge.pc = "idle" <=> bridge.cmd = Nothing)
        /\ late \in Reports /\ (late = NoReport <=> late.cmd = Nothing)
        /\ air \in Held /\ (OnAir => IsStart(air))
        /\ minute \in 0..MaxMinute /\ faults \in 0..MaxFaults
        /\ over \subseteq Commands(Channels) \cap {bridge.cmd, late.cmd}
        /\ overdue \subseteq Commands(Channels)
        /\ stopped \in 0..mem.seq
BY DEF TypeOK, Bridges, Reports, Held

\* What is remembered of a capture stays so while its result is on its way.
LEMMA RememberedIsTyped ==
    ASSUME IInv, Remember
    PROVE  /\ over' \subseteq Commands(Channels) \cap {bridge'.cmd, late'.cmd}
           /\ \A c \in over : c \in {bridge'.cmd, late'.cmd} => c \in over'
           /\ (OnAir /\ air' # air /\ air \in {bridge'.cmd, late'.cmd}) => air \in over'
<1>1. over \subseteq Commands(Channels) /\ (OnAir => air \in Commands(Channels))
  BY TypeOKParts DEF IInv, Held, OnAir
<1> QED
  BY <1>1 DEF Remember

\* Two copies of a pending command are the same.
LEMMA SameCopies ==
    ASSUME NEW c \in Commands(Channels), NEW d \in Commands(Channels),
           SameCommand(c, d), IsPending(c), IsPending(d)
    PROVE  c = d
BY DEF SameCommand, IsPending, Commands

\* Results are neither before nor after their time when captures only end and
\* the app, if it lets go of its command, had not to read or was restarted.
LEMMA OutcomesKept ==
    ASSUME IInv, Remember, air' \in {air, Nothing}, faults' \in 0..faults,
           \/ bridge' = bridge
           \/ bridge' = Idle /\ (bridge.pc = "reading" => faults' < MaxFaults),
           \/ late' \in {late, NoReport}
           \/ bridge.pc = "reporting" /\ late' = [cmd |-> bridge.cmd, ok |-> bridge.ok]
    PROVE  Outcomes'
<1>1. /\ Idle.pc = "idle" /\ Idle.cmd = Nothing /\ ~IsStart(Nothing)
      /\ NoReport.cmd = Nothing
  BY IdleIsBridge
<1>2. faults \in 0..MaxFaults /\ MaxFaults \in Nat
  BY TypeOKParts, BoundsAssumption DEF IInv
<1>3. OnAir' => OnAir /\ air' = air
  BY DEF OnAir
<1>4. Outcomes
  BY DEF IInv
<1>5. ASSUME bridge'.pc = "reading"
      PROVE  /\ IsStart(bridge'.cmd) /\ bridge'.ok
             /\ air' = bridge'.cmd \/ (~OnAir' /\ bridge'.cmd \in over')
  <2>1. bridge' = bridge
    BY <1>1, <1>5
  <2>2. IsStart(bridge.cmd) /\ bridge.ok
    BY <1>4, <1>5, <2>1 DEF Outcomes
  <2>3. CASE air = bridge.cmd
    <3>1. OnAir
      BY <1>1, <2>2, <2>3 DEF OnAir
    <3> QED
      BY <2>1, <2>2, <2>3, <3>1, RememberedIsTyped DEF OnAir
  <2>4. CASE ~OnAir /\ bridge.cmd \in over
    BY <1>3, <2>1, <2>2, <2>4, RememberedIsTyped
  <2> QED
    BY <1>4, <1>5, <2>1, <2>3, <2>4 DEF Outcomes
<1>6. (bridge'.pc = "reporting" /\ IsStart(bridge'.cmd) /\ bridge'.ok) => bridge'.cmd \in over'
  BY <1>1, <1>4, RememberedIsTyped DEF Outcomes
<1>7. (IsStart(late'.cmd) /\ late'.ok) => late'.cmd \in over'
  BY <1>1, <1>4, RememberedIsTyped DEF Outcomes
<1>8. (OnAir' /\ bridge'.pc # "reading") => faults' < MaxFaults
  BY <1>1, <1>2, <1>3, <1>4 DEF Outcomes
<1> QED
  BY <1>5, <1>6, <1>7, <1>8 DEF Outcomes

-----------------------------------------------------------------------------
(* The queue *)

\* Requests and ticks preserve the invariant, and so does every step that
\* leaves store, bridge and air alone.
LEMMA GrowthPreserves ==
    ASSUME IInv, Sound(mem', Channels), Grows(mem, mem'),
           up' \in BOOLEAN, minute' \in 0..MaxMinute, late' \in {late, NoReport},
           UNCHANGED <<bridge, air, faults, overdue, stopped>>, Remember
    PROVE  IInv'
<1>1. /\ mem \in Stores(Channels) /\ bridge \in Bridges /\ air \in Held
      /\ late \in Reports /\ late' \in Reports /\ stopped \in 0..mem.seq
      /\ bridge.cmd \in Held /\ bridge.cmd.id \in Nat /\ air.id \in Nat
      /\ late.cmd \in Held /\ late.cmd.id \in Nat /\ NoReport.cmd.id = 0
      /\ faults \in 0..MaxFaults
  BY TypeOKParts, BridgeFields, ReportFields, HeldFields, IdleIsBridge DEF IInv
<1>2. mem' \in Stores(Channels) /\ Ordered(mem')
  BY DEF Sound
<1>3. mem.seq \in Nat /\ mem'.seq \in Nat /\ mem.seq <= mem'.seq
  BY <1>1, <1>2, StoreFields DEF Grows
<1>4. TypeOK'
  <2>1. late' = NoReport <=> late'.cmd = Nothing
    BY TypeOKParts, IdleIsBridge DEF IInv
  <2>2. over' \subseteq Commands(Channels) \cap {bridge'.cmd, late'.cmd}
    BY RememberedIsTyped
  <2> QED
    BY <1>1, <1>2, <1>3, <2>1, <2>2 DEF IInv, TypeOK, OnAir, Reports, Held
<1>5. Counted'
  BY <1>1, <1>2, <1>3 DEF IInv, Counted
<1>6. \A i \in 1..Len(mem'.commands) :
         mem'.commands[i].id <= mem.seq => i \in 1..Len(mem.commands)
  BY <1>1, <1>2, OldIsKept
<1>7. HeldInQueue'
  <2>1. SUFFICES ASSUME NEW i \in 1..Len(mem'.commands), bridge # Idle,
                        mem'.commands[i].id = bridge.cmd.id
                 PROVE  /\ SameCommand(mem'.commands[i], bridge.cmd)
                        /\ mem'.commands[i].status = "completed" => bridge.cmd \in overdue
                        /\ mem'.commands[i].status = "canceled" =>
                              \/ \E j \in 1..Len(mem'.commands) :
                                    /\ IsPending(mem'.commands[j])
                                    /\ mem'.commands[j].action = "stop"
                              \/ StopOverdue
    BY DEF HeldInQueue, StopOverdue
  <2>2. i \in 1..Len(mem.commands)
    BY <1>1, <1>6, <2>1 DEF IInv, Counted
  <2>3. SameCommand(mem'.commands[i], mem.commands[i])
    BY <2>2 DEF Grows
  <2>4. /\ SameCommand(mem.commands[i], bridge.cmd)
        /\ mem.commands[i].status = "completed" => bridge.cmd \in overdue
        /\ mem.commands[i].status = "canceled" =>
              \/ \E j \in 1..Len(mem.commands) :
                    IsPending(mem.commands[j]) /\ mem.commands[j].action = "stop"
              \/ StopOverdue
    BY <2>1, <2>2, <2>3 DEF IInv, HeldInQueue, SameCommand
  <2>5. ASSUME NEW j \in 1..Len(mem.commands),
               IsPending(mem.commands[j]), mem.commands[j].action = "stop"
        PROVE  /\ j \in 1..Len(mem'.commands)
               /\ IsPending(mem'.commands[j]) /\ mem'.commands[j].action = "stop"
    <3>1. j \in 1..Len(mem'.commands)
      BY <1>1, <1>2, StoreFields DEF Grows
    <3>2. /\ SameCommand(mem'.commands[j], mem.commands[j])
          /\ \/ mem'.commands[j].status = mem.commands[j].status
             \/ IsStart(mem.commands[j])
      BY DEF Grows
    <3>3. ~IsStart(mem.commands[j])
      BY <2>5 DEF IsStart, StartActions
    <3> QED
      BY <2>5, <3>1, <3>2, <3>3 DEF SameCommand, IsPending
  <2>6. \/ mem'.commands[i].status = mem.commands[i].status
        \/ /\ mem'.commands[i].status = "canceled"
           /\ \E j \in 1..Len(mem'.commands) :
                 IsPending(mem'.commands[j]) /\ mem'.commands[j].action = "stop"
    BY <2>2 DEF Grows
  <2> QED
    BY <2>3, <2>4, <2>5, <2>6 DEF SameCommand
<1>8. StartsAreYounger'
  <2>1. ASSUME NEW i \in 1..Len(mem'.commands),
               IsPending(mem'.commands[i]), IsStart(mem'.commands[i])
        PROVE  /\ mem'.commands[i].id > stopped
               /\ (bridge.pc = "holding" /\ bridge.cmd.action = "stop") =>
                     mem'.commands[i].id > bridge.cmd.id
    <3>0. mem'.commands[i].id \in Nat
      BY <1>2, StoreFields
    <3>1. CASE mem'.commands[i].id <= mem.seq
      <4>1. i \in 1..Len(mem.commands)
        BY <1>6, <3>1
      <4>2. /\ SameCommand(mem'.commands[i], mem.commands[i])
            /\ IsPending(mem.commands[i])
        BY <2>1, <4>1 DEF Grows, IsPending
      <4> QED
        BY <2>1, <4>1, <4>2 DEF IInv, StartsAreYounger, SameCommand, IsStart
    <3>2. CASE mem'.commands[i].id > mem.seq
      <4>1. bridge.cmd.id <= mem.seq /\ stopped <= mem.seq /\ stopped \in Nat
        BY <1>1, <1>3 DEF IInv, Counted
      <4> QED
        BY <1>1, <1>3, <3>0, <3>2, <4>1
    <3> QED
      BY <1>3, <3>0, <3>1, <3>2
  <2> QED
    BY <2>1 DEF IInv, StartsAreYounger, StopOutlivesEarlierStarts, OnAir
<1>9. LateInQueue'
  <2>1. SUFFICES ASSUME NEW i \in 1..Len(mem'.commands), late' # NoReport,
                        mem'.commands[i].id = late'.cmd.id
                 PROVE  SameCommand(mem'.commands[i], late'.cmd)
    BY DEF LateInQueue
  <2>2. late' = late /\ i \in 1..Len(mem.commands)
    BY <1>1, <1>6, <2>1 DEF IInv, Counted
  <2>3. SameCommand(mem'.commands[i], mem.commands[i])
    BY <2>2 DEF Grows
  <2> QED
    BY <2>1, <2>2, <2>3 DEF IInv, LateInQueue, SameCommand
<1>10. Outcomes'
  BY <1>1, OutcomesKept
<1> QED
  BY <1>4, <1>5, <1>7, <1>8, <1>9, <1>10 DEF IInv

\* A seed or a reset empties the queue and closes the sessions.
LEMMA WipePreserves ==
    ASSUME IInv, Sound(mem', Channels), Wipes(mem, mem'), up' \in BOOLEAN,
           UNCHANGED <<bridge, late, air, minute, faults, overdue, stopped>>, Remember
    PROVE  IInv'
<1>1. mem' \in Stores(Channels) /\ Ordered(mem') /\ faults \in 0..MaxFaults
  BY TypeOKParts DEF Sound, IInv
<1>2. mem'.commands = <<>> /\ mem'.seq = mem.seq
  BY DEF Wipes
<1>3. TypeOK'
  <2>1. over' \subseteq Commands(Channels) \cap {bridge'.cmd, late'.cmd}
    BY RememberedIsTyped
  <2> QED
    BY <1>1, <1>2, <2>1 DEF IInv, TypeOK, OnAir
<1>4. Counted'
  BY <1>1, <1>2 DEF IInv, Counted
<1>5. HeldInQueue' /\ LateInQueue'
  BY <1>2 DEF HeldInQueue, LateInQueue
<1>6. StartsAreYounger'
  BY <1>2 DEF IInv, StartsAreYounger, StopOutlivesEarlierStarts, OnAir
<1>7. Outcomes'
  BY <1>1, OutcomesKept
<1> QED
  BY <1>3, <1>4, <1>5, <1>6, <1>7 DEF IInv

-----------------------------------------------------------------------------
(* The menu app and the air *)

\* The command that is fetched is pending; if it is a stop, every pending
\* start is younger, and if it is a start, it is younger than the last stop.
LEMMA PollPreserves == ASSUME IInv, Poll, Remember PROVE IInv'
<1> DEFINE c == NextHostCommand(mem)
<1>1. /\ mem \in Stores(Channels) /\ Ordered(mem) /\ Sound(mem, Channels)
      /\ air \in Held /\ mem.seq \in Nat
  BY TypeOKParts, StoreFields DEF IInv, Counted, Sound
<1>2. bridge = Idle /\ bridge.pc = "idle" /\ mem' = mem
  BY IdleIsBridge DEF Poll
<1>3. PICK k \in 1..Len(mem.commands) : c = mem.commands[k] /\ IsPending(c)
  BY <1>1, NextIsPending DEF Poll
<1> HIDE DEF c
<1>4. /\ bridge' = [pc |-> "holding", cmd |-> c, ok |-> FALSE]
      /\ UNCHANGED <<up, mem, late, air, minute, faults, overdue, stopped>>
  BY DEF Poll, c
<1>5. c \in Commands(Channels) /\ c \in Held /\ c.id \in Nat \ {0} /\ c.id <= mem.seq
  BY <1>1, <1>3, StoreFields DEF Held, Ordered
<1>6. c # Nothing
  BY <1>5 DEF Nothing
<1>7. /\ bridge' \in Bridges /\ bridge'.pc = "holding" /\ bridge'.cmd = c
      /\ bridge' # Idle
  BY <1>4, <1>5, IdleIsBridge DEF Bridges
<1>8. TypeOK'
  <2>1. bridge'.pc = "idle" <=> bridge'.cmd = Nothing
    BY <1>6, <1>7
  <2> QED
    BY <1>4, <1>7, <2>1, RememberedIsTyped DEF IInv, TypeOK, Bridges, Held, OnAir
<1>9. Counted'
  BY <1>1, <1>3, <1>4, <1>5, <1>7 DEF IInv, Counted
<1>10. \A i \in 1..Len(mem.commands) : mem.commands[i].id = c.id => i = k
  <2>1. IndicesOf(mem, c.id) = {k}
    BY <1>1, <1>3, FirstOfId
  <2> QED
    BY <2>1 DEF IndicesOf
<1>11. HeldInQueue'
  BY <1>3, <1>4, <1>7, <1>10 DEF HeldInQueue, SameCommand, IsPending
<1>12. StartsAreYounger'
  <2>1. \A i \in 1..Len(mem.commands) :
           (IsPending(mem.commands[i]) /\ IsStart(mem.commands[i])) =>
               /\ mem.commands[i].id > stopped
               /\ c.action = "stop" => mem.commands[i].id > c.id
    <3>1. ASSUME NEW i \in 1..Len(mem.commands), c.action = "stop",
                 IsPending(mem.commands[i]), IsStart(mem.commands[i])
          PROVE  mem.commands[i].id > c.id
      <4>1. c.id < mem.commands[i].id
        BY <1>1, <1>3, <3>1 DEF Ordered
      <4>2. c.id \in Nat /\ mem.commands[i].id \in Nat
        BY <1>1, <1>5, StoreFields
      <4> QED
        BY <4>1, <4>2
    <3> QED
      BY <3>1 DEF IInv, StartsAreYounger
  <2>2. IsStart(c) => c.id > stopped
    BY <1>3, <2>1
  <2> QED
    BY <1>4, <1>7, <2>1, <2>2
       DEF IInv, StartsAreYounger, StopOutlivesEarlierStarts, OnAir
<1>13. LateInQueue'
  BY <1>4 DEF IInv, LateInQueue
<1>14. Outcomes'
  BY <1>2, <1>4, <1>7, RememberedIsTyped DEF IInv, Outcomes, OnAir
<1> QED
  BY <1>8, <1>9, <1>11, <1>12, <1>13, <1>14 DEF IInv

\* A step that only moves the bridge on from holding, and the air.
LEMMA ExecutionPreserves ==
    ASSUME IInv, bridge.pc = "holding", NEW ok \in BOOLEAN, NEW pc \in {"reading", "reporting"},
           bridge' = [bridge EXCEPT !.pc = pc, !.ok = ok], Remember,
           UNCHANGED <<up, mem, late, minute, overdue>>, faults' \in 0..faults,
           air' \in Held, OnAir' => IsStart(air') /\ air'.id > stopped', air'.id <= mem.seq,
           stopped' \in 0..mem.seq,
           \A i \in 1..Len(mem.commands) :
               (IsPending(mem.commands[i]) /\ IsStart(mem.commands[i])) =>
                   mem.commands[i].id > stopped',
           pc = "reading" => IsStart(bridge.cmd) /\ ok /\ air' = bridge.cmd,
           pc = "reporting" => ~(IsStart(bridge.cmd) /\ ok) /\ air' \in {air, Nothing}
    PROVE  IInv'
<1>1. /\ bridge \in Bridges /\ bridge.cmd \in Held /\ mem.seq \in Nat
      /\ faults \in 0..MaxFaults /\ MaxFaults \in Nat
  BY TypeOKParts, BridgeFields, StoreFields, BoundsAssumption DEF IInv
<1>2. /\ bridge' \in Bridges /\ bridge'.pc = pc
      /\ bridge'.cmd = bridge.cmd /\ bridge'.ok = ok
      /\ bridge'.pc # "idle" /\ bridge'.pc # "holding"
  <2> DEFINE n == [bridge EXCEPT !.pc = pc, !.ok = ok]
  <2>1. n \in Bridges /\ n.pc = pc /\ n.cmd = bridge.cmd /\ n.ok = ok
    BY <1>1 DEF Bridges
  <2>2. bridge' = n
    OBVIOUS
  <2> HIDE DEF n
  <2> QED
    BY <2>1, <2>2
<1>3. bridge # Idle /\ bridge' # Idle
  BY <1>2, IdleIsBridge
<1>4. TypeOK'
  <2>1. bridge'.pc = "idle" <=> bridge'.cmd = Nothing
    BY <1>2 DEF IInv, TypeOK
  <2>2. faults' \in 0..MaxFaults
    BY <1>1
  <2> QED
    BY <1>2, <2>1, <2>2, RememberedIsTyped DEF IInv, TypeOK, Bridges, Held
<1>5. Counted'
  BY <1>2, <1>3 DEF IInv, Counted
<1>6. HeldInQueue' /\ LateInQueue'
  BY <1>2, <1>3 DEF IInv, HeldInQueue, LateInQueue, StopOverdue
<1>7. StartsAreYounger'
  BY <1>2 DEF StartsAreYounger, StopOutlivesEarlierStarts
<1>8. Outcomes'
  <2>1. (IsStart(late.cmd) /\ late.ok) => late.cmd \in over'
    BY RememberedIsTyped DEF IInv, Outcomes
  <2>2. ASSUME pc = "reporting", OnAir' PROVE faults' < MaxFaults
    <3>1. OnAir
      BY <2>2 DEF OnAir
    <3> QED
      BY <1>1, <3>1 DEF IInv, Outcomes
  <2> QED
    BY <1>2, <2>1, <2>2 DEF Outcomes
<1> QED
  BY <1>4, <1>5, <1>6, <1>7, <1>8 DEF IInv

\* The four outcomes of a call of the helper.
LEMMA ExecutePreserves == ASSUME IInv, Execute, Remember PROVE IInv'
<1>1. /\ bridge.pc = "holding" /\ UNCHANGED <<up, mem, late, minute, overdue>>
      /\ bridge.cmd \in Held /\ air \in Held /\ mem.seq \in Nat
      /\ bridge.cmd.id \in Nat /\ bridge.cmd.id <= mem.seq /\ air.id <= mem.seq
      /\ stopped \in 0..mem.seq /\ faults \in 0..MaxFaults
      /\ (OnAir => IsStart(air)) /\ (OnAir => air.id > stopped)
      /\ bridge.cmd.action = "stop" <=> ~IsStart(bridge.cmd)
      /\ Nothing \in Held /\ Nothing.id = 0
  BY TypeOKParts, BridgeFields, HeldFields, StoreFields, IdleIsBridge
     DEF IInv, Counted, Execute, StartsAreYounger, StopOutlivesEarlierStarts
<1>2. \A i \in 1..Len(mem.commands) :
         (IsPending(mem.commands[i]) /\ IsStart(mem.commands[i])) =>
             mem.commands[i].id > stopped
  BY DEF IInv, StartsAreYounger
<1>3. CASE IsStart(bridge.cmd) /\ StartRefused
  <2>1. /\ bridge' = [bridge EXCEPT !.pc = "reporting", !.ok = FALSE]
        /\ air' = air /\ stopped' = stopped /\ faults' \in 0..faults
        /\ OnAir' => OnAir /\ IsStart(air') /\ air'.id > stopped'
    BY <1>1, <1>3 DEF StartRefused, Reporting, OnAir
  <2> QED
    BY <1>1, <1>2, <2>1, ExecutionPreserves
<1>4. CASE IsStart(bridge.cmd) /\ StartSucceeds
  <2>1. bridge.cmd.id > stopped
    BY <1>1, <1>4 DEF IInv, StartsAreYounger
  <2>2. /\ bridge' = [bridge EXCEPT !.pc = "reading", !.ok = TRUE]
        /\ air' = bridge.cmd /\ stopped' = stopped /\ faults' \in 0..faults
    BY <1>1, <1>4 DEF StartSucceeds
  <2> QED
    BY <1>1, <1>2, <1>4, <2>1, <2>2, ExecutionPreserves
<1>5. CASE ~IsStart(bridge.cmd) /\ StopSucceeds
  <2>1. \A i \in 1..Len(mem.commands) :
           (IsPending(mem.commands[i]) /\ IsStart(mem.commands[i])) =>
               mem.commands[i].id > bridge.cmd.id
    BY <1>1, <1>5 DEF IInv, StartsAreYounger
  <2>2. ~OnAir' /\ air' = Nothing /\ air'.id <= mem.seq
    BY <1>1, <1>5 DEF StopSucceeds, OnAir
  <2>3. /\ bridge' = [bridge EXCEPT !.pc = "reporting", !.ok = TRUE]
        /\ stopped' = bridge.cmd.id /\ bridge.cmd.id \in 0..mem.seq /\ faults' \in 0..faults
    BY <1>1, <1>5 DEF StopSucceeds, Reporting
  <2> QED
    BY <1>1, <1>5, <2>1, <2>2, <2>3, ExecutionPreserves
<1>6. CASE ~IsStart(bridge.cmd) /\ StopFails
  <2>1. faults' \in 0..faults
    BY <1>1, <1>6, BoundsAssumption DEF StopFails
  <2>2. air' \in {air, Nothing} /\ (OnAir' => OnAir /\ air' = air) /\ air'.id <= mem.seq
    BY <1>1, <1>6 DEF StopFails, OnAir
  <2> QED
    BY <1>1, <1>2, <1>6, <2>1, <2>2, ExecutionPreserves DEF StopFails, Reporting
<1> QED
  BY <1>3, <1>4, <1>5, <1>6 DEF Execute

\* The capture is over when the app has read to the end.
LEMMA ReadToEndPreserves == ASSUME IInv, ReadToEnd, Remember PROVE IInv'
<1>1. /\ bridge \in Bridges /\ bridge.pc = "reading" /\ air # bridge.cmd
      /\ bridge' = [bridge EXCEPT !.pc = "reporting", !.ok = TRUE]
      /\ UNCHANGED <<up, mem, late, air, minute, faults, overdue, stopped>>
  BY TypeOKParts DEF IInv, ReadToEnd, Reporting
<1>2. /\ bridge' \in Bridges /\ bridge'.pc = "reporting" /\ bridge'.cmd = bridge.cmd
      /\ bridge'.pc # "idle" /\ bridge # Idle /\ bridge' # Idle
  BY <1>1, GoesOn, IdleIsBridge
<1>3. TypeOK'
  BY <1>1, <1>2, RememberedIsTyped DEF IInv, TypeOK, OnAir, Bridges, Held
<1>4. Counted'
  BY <1>1, <1>2 DEF IInv, Counted
<1>5. HeldInQueue' /\ LateInQueue'
  BY <1>1, <1>2 DEF IInv, HeldInQueue, LateInQueue, StopOverdue
<1>6. StartsAreYounger'
  BY <1>1, <1>2 DEF IInv, StartsAreYounger, StopOutlivesEarlierStarts, OnAir
<1>7. Outcomes'
  <2>1. ~OnAir /\ bridge.cmd \in over
    BY <1>1 DEF IInv, Outcomes
  <2> QED
    BY <1>1, <1>2, <2>1, RememberedIsTyped DEF IInv, Outcomes, OnAir
<1> QED
  BY <1>3, <1>4, <1>5, <1>6, <1>7 DEF IInv

\* A command that is dropped without an answer of the store, with or without
\* its capture; its report may still be on its way.
LEMMA LettingGoPreserves ==
    ASSUME IInv, bridge' = Idle, bridge # Idle, air' \in {air, Nothing}, Remember,
           faults' \in 0..faults, bridge.pc = "reading" => faults' < MaxFaults,
           \/ UNCHANGED <<late, overdue>>
           \/ /\ bridge.pc = "reporting" /\ late' = [cmd |-> bridge.cmd, ok |-> bridge.ok]
              /\ overdue' = overdue \cup {bridge.cmd},
           UNCHANGED <<up, mem, minute, stopped>>
    PROVE  IInv'
<1>1. /\ bridge \in Bridges /\ bridge.ok \in BOOLEAN /\ bridge.cmd \in Held
      /\ mem.seq \in Nat /\ air \in Held /\ late \in Reports
      /\ faults \in 0..MaxFaults /\ MaxFaults \in Nat
      /\ bridge.cmd # Nothing /\ bridge.cmd \in Commands(Channels)
  BY TypeOKParts, BridgeFields, StoreFields, BoundsAssumption DEF IInv, Counted, Held
<1>2. /\ bridge' \in Bridges /\ bridge'.pc = "idle" /\ bridge'.cmd = Nothing
      /\ Nothing \in Held /\ Nothing.id <= mem.seq /\ NoReport.cmd = Nothing
  BY <1>1, IdleIsBridge
<1> DEFINE r == [cmd |-> bridge.cmd, ok |-> bridge.ok]
<1>3. r \in Reports /\ r.cmd = bridge.cmd /\ r # NoReport
  BY <1>1, <1>2 DEF Reports
<1> HIDE DEF r
<1>4. late' = late \/ (late' = r /\ bridge.cmd \in overdue')
  BY DEF r
<1>5. TypeOK'
  <2>1. late' \in Reports /\ (late' = NoReport <=> late'.cmd = Nothing)
    BY <1>1, <1>3, <1>4, TypeOKParts DEF IInv
  <2>2. overdue' \subseteq Commands(Channels) /\ faults' \in 0..MaxFaults
    BY <1>1, TypeOKParts DEF IInv
  <2>3. over' \subseteq Commands(Channels) \cap {bridge'.cmd, late'.cmd}
    BY RememberedIsTyped
  <2>4. air' \in Held /\ (OnAir' => IsStart(air'))
    BY <1>1, <1>2, TypeOKParts DEF IInv, OnAir
  <2> QED
    BY <1>2, <2>1, <2>2, <2>3, <2>4 DEF IInv, TypeOK, Bridges, Reports, Held
<1>6. Counted'
  <2>1. IsPending(bridge.cmd) /\ bridge.cmd.id <= mem.seq
    BY DEF IInv, Counted
  <2>2. late' # NoReport => IsPending(late'.cmd) /\ late'.cmd \in overdue'
    BY <1>3, <1>4, <2>1 DEF IInv, Counted
  <2> QED
    BY <1>2, <1>3, <1>4, <2>1, <2>2 DEF IInv, Counted
<1>7. HeldInQueue'
  BY DEF HeldInQueue
<1>8. LateInQueue'
  BY <1>3, <1>4 DEF IInv, LateInQueue, HeldInQueue
<1>9. StartsAreYounger'
  BY <1>2 DEF IInv, StartsAreYounger, StopOutlivesEarlierStarts, OnAir
<1>10. Outcomes'
  BY OutcomesKept
<1> QED
  BY <1>5, <1>6, <1>7, <1>8, <1>9, <1>10 DEF IInv

\* A capture that ends without a result.
LEMMA AirStopsPreserves ==
    ASSUME IInv, air' = Nothing, Remember,
           UNCHANGED <<up, mem, bridge, late, minute, faults, overdue, stopped>>
    PROVE  IInv'
<1>1. mem.seq \in Nat /\ Nothing \in Held /\ Nothing.id <= mem.seq /\ faults \in 0..faults
  BY TypeOKParts, StoreFields, IdleIsBridge DEF IInv
<1>2. TypeOK'
  BY <1>1, RememberedIsTyped DEF IInv, TypeOK, Held, OnAir
<1>3. Counted'
  BY <1>1 DEF IInv, Counted
<1>4. HeldInQueue' /\ LateInQueue'
  BY DEF IInv, HeldInQueue, LateInQueue, StopOverdue
<1>5. StartsAreYounger'
  BY DEF IInv, StartsAreYounger, StopOutlivesEarlierStarts, OnAir
<1>6. Outcomes'
  BY <1>1, OutcomesKept
<1> QED
  BY <1>2, <1>3, <1>4, <1>5, <1>6 DEF IInv

\* The store books a result, also one for a command it has forgotten and one
\* it already had.
LEMMA ResultPreserves ==
    ASSUME IInv, NEW c \in Commands(Channels), NEW ok \in BOOLEAN,
           mem' = CompleteHostCommand(mem, c.id, ok), Remember,
           \A i \in IndicesOf(mem, c.id) : SameCommand(mem.commands[i], c),
           bridge' = Idle \/ (bridge' = bridge /\ IsPending(c) /\ c \in overdue),
           bridge' = Idle => bridge.pc # "reading",
           late' \in {late, NoReport},
           UNCHANGED <<up, air, minute, faults, overdue, stopped>>
    PROVE  IInv'
<1>1. /\ bridge \in Bridges /\ bridge.cmd \in Held /\ late \in Reports
      /\ mem \in Stores(Channels) /\ Sound(mem, Channels) /\ mem.seq \in Nat
      /\ faults \in 0..faults /\ faults \in 0..MaxFaults
  BY TypeOKParts, BridgeFields, StoreFields DEF IInv, Counted, Sound
<1>2. /\ Sound(mem', Channels)
      /\ IndicesOf(mem, c.id) = {} => mem' = mem
      /\ \A i \in IndicesOf(mem, c.id) : Completed(mem, mem', i, ok)
  BY <1>1, ResultCompletes
<1>3. mem' \in Stores(Channels) /\ Ordered(mem') /\ mem'.seq = mem.seq
  BY <1>2 DEF Sound, Completed
<1>4. /\ Idle \in Bridges /\ Idle.pc = "idle" /\ Idle.cmd = Nothing
      /\ Nothing \in Held /\ Nothing.id <= mem.seq
      /\ NoReport \in Reports /\ NoReport.cmd = Nothing
  BY <1>1, IdleIsBridge
<1>5. TypeOK'
  <2>1. bridge' \in Bridges /\ (bridge'.pc = "idle" <=> bridge'.cmd = Nothing)
    BY <1>1, <1>4, TypeOKParts DEF IInv
  <2>2. late' \in Reports /\ (late' = NoReport <=> late'.cmd = Nothing)
    BY <1>1, <1>4, TypeOKParts DEF IInv
  <2>3. over' \subseteq Commands(Channels) \cap {bridge'.cmd, late'.cmd}
    BY RememberedIsTyped
  <2> QED
    BY <1>3, <2>1, <2>2, <2>3 DEF IInv, TypeOK, Bridges, Reports, Held, OnAir
<1>6. Counted'
  BY <1>3, <1>4 DEF IInv, Counted
<1>7. \A j \in 1..Len(mem'.commands) :
         j \in 1..Len(mem.commands) /\ SameCommand(mem'.commands[j], mem.commands[j])
  <2>1. CASE IndicesOf(mem, c.id) = {}
    BY <1>2, <2>1 DEF SameCommand
  <2>2. ASSUME NEW i \in IndicesOf(mem, c.id)
        PROVE  \A j \in 1..Len(mem'.commands) :
                  j \in 1..Len(mem.commands) /\ SameCommand(mem'.commands[j], mem.commands[j])
    BY <1>2 DEF Completed
  <2> QED
    BY <2>1, <2>2
<1>8. HeldInQueue'
  <2>1. SUFFICES ASSUME NEW k \in 1..Len(mem'.commands), bridge' # Idle,
                        mem'.commands[k].id = bridge'.cmd.id
                 PROVE  /\ SameCommand(mem'.commands[k], bridge'.cmd)
                        /\ mem'.commands[k].status = "completed" => bridge'.cmd \in overdue'
                        /\ mem'.commands[k].status = "canceled" =>
                              \/ \E j \in 1..Len(mem'.commands) :
                                    /\ IsPending(mem'.commands[j])
                                    /\ mem'.commands[j].action = "stop"
                              \/ StopOverdue'
    BY DEF HeldInQueue
  <2>2. bridge' = bridge /\ bridge # Idle /\ IsPending(c) /\ c \in overdue
    BY <2>1
  <2>3. k \in 1..Len(mem.commands) /\ mem.commands[k].id = bridge.cmd.id
    BY <1>7, <2>1, <2>2 DEF SameCommand
  <2>4. /\ SameCommand(mem.commands[k], bridge.cmd)
        /\ mem.commands[k].status = "completed" => bridge.cmd \in overdue
        /\ mem.commands[k].status = "canceled" =>
              \/ \E j \in 1..Len(mem.commands) :
                    IsPending(mem.commands[j]) /\ mem.commands[j].action = "stop"
              \/ StopOverdue
    BY <2>2, <2>3 DEF IInv, HeldInQueue
  <2>5. SameCommand(mem'.commands[k], bridge'.cmd)
    BY <1>7, <2>2, <2>4 DEF SameCommand
  <2>6. CASE mem' = mem
    BY <2>2, <2>4, <2>5, <2>6 DEF StopOverdue
  <2>7. ASSUME NEW i \in IndicesOf(mem, c.id)
        PROVE  /\ mem'.commands[k].status = "completed" => bridge.cmd \in overdue
               /\ mem'.commands[k].status = "canceled" =>
                     \/ \E j \in 1..Len(mem'.commands) :
                           IsPending(mem'.commands[j]) /\ mem'.commands[j].action = "stop"
                     \/ StopOverdue
    <3>1. Completed(mem, mem', i, ok) /\ i \in 1..Len(mem.commands) /\ mem.commands[i].id = c.id
      BY <1>2, <2>7 DEF IndicesOf
    <3>2. c.action = "stop" => StopOverdue
      BY <2>2 DEF StopOverdue
    <3>3. CASE k = i
      <4>1. SameCommand(bridge.cmd, c)
        BY <2>4, <3>3 DEF SameCommand
      <4>2. bridge.cmd \in Commands(Channels) /\ IsPending(bridge.cmd)
        BY <1>1, <2>2, TypeOKParts DEF IInv, Counted, Held
      <4>3. bridge.cmd = c
        BY <2>2, <4>1, <4>2, SameCopies
      <4> QED
        BY <2>2, <3>1, <3>3, <4>3 DEF Completed
    <3>4. CASE k # i
      <4>1. \/ mem'.commands[k].status = mem.commands[k].status
            \/ /\ IsStart(mem.commands[k]) /\ IsPending(mem.commands[k])
               /\ mem'.commands[k].status = "canceled"
        BY <2>3, <3>1, <3>4 DEF Completed
      <4>2. CASE c.action = "stop"
        BY <2>4, <3>2, <4>1, <4>2
      <4>3. CASE c.action # "stop"
        <5>1. /\ \A j \in 1..Len(mem.commands) :
                    j # i => mem'.commands[j].status = mem.commands[j].status
          BY <2>7, <3>1, <4>3 DEF Completed, SameCommand
        <5>2. ASSUME NEW j \in 1..Len(mem.commands),
                     IsPending(mem.commands[j]), mem.commands[j].action = "stop"
              PROVE  /\ j \in 1..Len(mem'.commands)
                     /\ IsPending(mem'.commands[j]) /\ mem'.commands[j].action = "stop"
          <6>1. j # i
            BY <2>7, <4>3, <5>2 DEF SameCommand
          <6> QED
            BY <3>1, <5>1, <5>2, <6>1 DEF Completed, SameCommand, IsPending
        <5> QED
          BY <2>3, <2>4, <3>4, <5>1, <5>2
      <4> QED
        BY <4>2, <4>3
    <3> QED
      BY <3>3, <3>4
  <2> QED
    BY <1>2, <2>2, <2>5, <2>6, <2>7 DEF StopOverdue
<1>9. LateInQueue'
  <2>1. SUFFICES ASSUME NEW k \in 1..Len(mem'.commands), late' # NoReport,
                        mem'.commands[k].id = late'.cmd.id
                 PROVE  SameCommand(mem'.commands[k], late'.cmd)
    BY DEF LateInQueue
  <2>2. late' = late
    BY <2>1
  <2> QED
    BY <1>7, <2>1, <2>2 DEF IInv, LateInQueue, SameCommand
<1>10. ASSUME NEW j \in 1..Len(mem'.commands),
              IsPending(mem'.commands[j]), IsStart(mem'.commands[j])
       PROVE  /\ j \in 1..Len(mem.commands) /\ SameCommand(mem'.commands[j], mem.commands[j])
              /\ IsPending(mem.commands[j]) /\ IsStart(mem.commands[j])
  <2>1. CASE mem' = mem
    BY <1>7, <1>10, <2>1
  <2>2. ASSUME NEW i \in IndicesOf(mem, c.id) PROVE IsPending(mem.commands[j])
    <3>1. Completed(mem, mem', i, ok)
      BY <1>2
    <3>2. j \in 1..Len(mem.commands) /\ j # i
      BY <1>10, <3>1 DEF Completed, IsPending
    <3> QED
      BY <1>10, <3>1, <3>2 DEF Completed, IsPending
  <2> QED
    BY <1>2, <1>7, <1>10, <2>1, <2>2 DEF SameCommand, IsStart
<1>11. StartsAreYounger'
  <2>1. bridge'.pc = "holding" => bridge' = bridge
    BY <1>4
  <2>2. StartsAreYounger
    BY DEF IInv
  <2> QED
    BY <1>10, <2>1, <2>2 DEF StartsAreYounger, StopOutlivesEarlierStarts, OnAir, SameCommand
<1>12. Outcomes'
  BY <1>1, OutcomesKept
<1> QED
  BY <1>5, <1>6, <1>8, <1>9, <1>11, <1>12 DEF IInv

\* The report the app waits for, and the one it has given up.
LEMMA ReportPreserves == ASSUME IInv, Report, Remember PROVE IInv'
<1>1. /\ bridge \in Bridges /\ bridge.pc = "reporting" /\ bridge.ok \in BOOLEAN
      /\ bridge # Idle /\ bridge.cmd \in Commands(Channels)
  BY TypeOKParts, BridgeFields, IdleIsBridge DEF IInv, Report, Held
<1>2. \A i \in IndicesOf(mem, bridge.cmd.id) : SameCommand(mem.commands[i], bridge.cmd)
  BY <1>1 DEF IInv, HeldInQueue, IndicesOf
<1> QED
  BY <1>1, <1>2, ResultPreserves DEF Report

LEMMA LateReportPreserves == ASSUME IInv, LateReport, Remember PROVE IInv'
<1>1. /\ late \in Reports /\ late # NoReport /\ late.ok \in BOOLEAN
      /\ late.cmd \in Commands(Channels) /\ IsPending(late.cmd) /\ late.cmd \in overdue
  BY TypeOKParts, ReportFields DEF IInv, LateReport, Held, Counted
<1>2. \A i \in IndicesOf(mem, late.cmd.id) : SameCommand(mem.commands[i], late.cmd)
  BY <1>1 DEF IInv, LateInQueue, IndicesOf
<1>3. bridge' = Idle => bridge.pc # "reading"
  BY IdleIsBridge DEF LateReport
<1> QED
  BY <1>1, <1>2, <1>3, ResultPreserves DEF LateReport

-----------------------------------------------------------------------------
(* The inductive invariant *)

\* The invariant holds when the API has booted, with or without demo data.
LEMMA InitEstablishes == Init => IInv
<1> SUFFICES ASSUME Init PROVE IInv
  OBVIOUS
<1>1. /\ Sound(NewMemory, Channels) /\ NewMemory.commands = <<>>
      /\ NewMemory.sessions = <<>> /\ NewMemory.seq = 0
  BY NewMemoryIsSound
<1>2. RunningIndices(NewMemory) = {}
  BY <1>1 DEF RunningIndices
<1>3. /\ Sound(mem, Channels) /\ mem.commands = <<>> /\ mem.seq = 0
      /\ RunningIndices(mem) = {}
  BY <1>1, <1>2, SeedDemoWipes DEF Init, Wipes
<1>4. /\ bridge = Idle /\ air = Nothing /\ ~OnAir /\ late = NoReport
      /\ NoReport \in Reports /\ NoReport.cmd = Nothing /\ ~IsStart(Nothing)
      /\ Idle \in Bridges /\ Idle.pc = "idle" /\ Idle.cmd = Nothing /\ Nothing.id = 0
      /\ Nothing \in Held
  BY IdleIsBridge DEF Init, OnAir, Held
<1>5. TypeOK
  <2>1. up \in BOOLEAN /\ over = {} /\ overdue = {}
    BY DEF Init
  <2>2. minute \in 0..MaxMinute /\ faults \in 0..MaxFaults /\ stopped \in 0..0
    BY BoundsAssumption DEF Init
  <2> QED
    BY <1>3, <1>4, <2>1, <2>2, TypeOKParts DEF Sound
<1>6. Counted
  BY <1>3, <1>4 DEF Counted, Sound
<1>7. HeldInQueue /\ LateInQueue
  BY <1>4 DEF HeldInQueue, LateInQueue
<1>8. StartsAreYounger
  BY <1>3, <1>4 DEF StartsAreYounger, StopOutlivesEarlierStarts
<1>9. Outcomes
  BY <1>4 DEF Outcomes
<1> QED
  BY <1>5, <1>6, <1>7, <1>8, <1>9 DEF IInv

\* Every step preserves the invariant.
LEMMA NextPreserves == IInv /\ [Next]_vars => IInv'
<1> SUFFICES ASSUME IInv, [Next]_vars PROVE IInv'
  OBVIOUS
<1>0. Remember
  <2>1. CASE UNCHANGED vars
    <3>1. over \subseteq {bridge.cmd, late.cmd}
      BY DEF IInv, TypeOK
    <3> QED
      BY <2>1, <3>1 DEF vars, Remember
  <2> QED
    BY <2>1 DEF Next
<1>1. /\ Sound(mem, Channels) /\ Grows(mem, mem)
      /\ up \in BOOLEAN /\ minute \in 0..MaxMinute /\ faults \in 0..MaxFaults
  BY TypeOKParts, UnchangedGrows DEF IInv, Counted, Sound
<1>2. /\ NoChannel \in Channels \cup {NoChannel}
      /\ "start" \in StartActions /\ "start-local" \in StartActions
  BY DEF StartActions
<1>3. CASE RequestStart
  <2>1. PICK channel \in Channels : mem' = RequestedStart(mem, "start", channel)
    BY <1>3 DEF RequestStart, StartCapture
  <2>2. Sound(mem', Channels) /\ Grows(mem, mem')
    BY <1>1, <1>2, <2>1, StartRequestGrows
  <2> QED
    BY <1>0, <1>1, <1>3, <2>2, GrowthPreserves DEF RequestStart
<1>4. CASE RequestStartLocal
  <2>1. mem' = RequestedStart(mem, "start-local", NoChannel)
    BY <1>4 DEF RequestStartLocal, StartLocalCapture
  <2>2. Sound(mem', Channels) /\ Grows(mem, mem')
    BY <1>1, <1>2, <2>1, StartRequestGrows
  <2> QED
    BY <1>0, <1>1, <1>4, <2>2, GrowthPreserves DEF RequestStartLocal
<1>5. CASE RequestStop
  <2>1. Sound(mem', Channels) /\ Grows(mem, mem')
    BY <1>1, <1>5, StopRequestGrows DEF RequestStop
  <2> QED
    BY <1>0, <1>1, <1>5, <2>1, GrowthPreserves DEF RequestStop
<1>6. CASE DemoSeed
  <2>1. Sound(mem', Channels) /\ Wipes(mem, mem')
    BY <1>1, <1>6, SeedDemoWipes DEF DemoSeed
  <2> QED
    BY <1>0, <1>1, <1>6, <2>1, WipePreserves DEF DemoSeed
<1>7. CASE DemoReset
  <2>1. Sound(mem', Channels) /\ Wipes(mem, mem')
    BY <1>1, <1>7, ResetDemoWipes DEF DemoReset
  <2> QED
    BY <1>0, <1>1, <1>7, <2>1, WipePreserves DEF DemoReset
<1>8. CASE Tick
  <2>1. PICK due \in Channels \cup {NoChannel} : mem' = TickSchedules(mem, minute, due)
    BY <1>8 DEF Tick
  <2>2. minute \in Int
    BY <1>1
  <2>3. Sound(mem', Channels) /\ Grows(mem, mem')
    BY <1>1, <2>1, <2>2, TickGrows
  <2> QED
    BY <1>0, <1>1, <1>8, <2>3, GrowthPreserves DEF Tick
<1>9. CASE MinutePasses
  <2>1. minute' \in 0..MaxMinute /\ mem' = mem
    BY <1>1, <1>9, BoundsAssumption DEF MinutePasses
  <2> QED
    BY <1>0, <1>1, <1>9, <2>1, GrowthPreserves DEF MinutePasses
<1>10. CASE ApiStops
  BY <1>0, <1>1, <1>10, GrowthPreserves DEF ApiStops
<1>11. CASE ApiBoots
  <2>1. CASE mem' = mem
    BY <1>0, <1>1, <1>11, <2>1, GrowthPreserves DEF ApiBoots
  <2>2. CASE mem' = SeedDemo(mem)
    <3>1. Sound(mem', Channels) /\ Wipes(mem, mem')
      BY <1>1, <2>2, SeedDemoWipes
    <3> QED
      BY <1>0, <1>1, <1>11, <3>1, WipePreserves DEF ApiBoots
  <2> QED
    BY <1>11, <2>1, <2>2 DEF ApiBoots
<1>12. CASE Poll
  BY <1>0, <1>12, PollPreserves
<1>13. CASE Execute
  BY <1>0, <1>13, ExecutePreserves
<1>14. CASE ReadToEnd
  BY <1>0, <1>14, ReadToEndPreserves
<1>15. CASE Report
  BY <1>0, <1>15, ReportPreserves
<1>16. CASE LateReport
  BY <1>0, <1>16, LateReportPreserves
<1>17. /\ Idle.pc = "idle" /\ faults \in 0..faults
       /\ faults > 0 => faults - 1 \in 0..faults /\ faults - 1 < MaxFaults
  BY <1>1, IdleIsBridge, BoundsAssumption
<1>18. CASE LoseReport
  <2>1. faults' \in 0..faults /\ bridge # Idle /\ bridge.pc # "reading" /\ air' \in {air, Nothing}
    BY <1>17, <1>18 DEF LoseReport
  <2> QED
    BY <1>0, <1>18, <2>1, LettingGoPreserves DEF LoseReport
<1>19. CASE GiveUpReport
  <2>1. faults' \in 0..faults /\ bridge # Idle /\ bridge.pc # "reading" /\ air' \in {air, Nothing}
    BY <1>17, <1>19 DEF GiveUpReport
  <2> QED
    BY <1>0, <1>19, <2>1, LettingGoPreserves DEF GiveUpReport
<1>20. CASE AppRestarts
  <2>1. faults' \in 0..faults /\ faults' < MaxFaults /\ air' \in {air, Nothing}
    BY <1>17, <1>20 DEF AppRestarts
  <2> QED
    BY <1>0, <1>20, <2>1, LettingGoPreserves DEF AppRestarts
<1>21. CASE MenuStop
  BY <1>0, <1>21, AirStopsPreserves DEF MenuStop
<1>22. CASE CaptureEnds
  BY <1>0, <1>22, AirStopsPreserves DEF CaptureEnds
<1>23. CASE UNCHANGED vars
  BY <1>0, <1>1, <1>23, GrowthPreserves DEF vars
<1> QED
  BY <1>3, <1>4, <1>5, <1>6, <1>7, <1>8, <1>9, <1>10, <1>11, <1>12, <1>13, <1>14,
     <1>15, <1>16, <1>18, <1>19, <1>20, <1>21, <1>22, <1>23 DEF Next, Clients, Bridge

\* The invariant the properties follow from holds in every reachable state.
THEOREM InductiveInvariant == Spec => []IInv
BY InitEstablishes, NextPreserves, PTL DEF Spec

-----------------------------------------------------------------------------
(* The properties *)

\* The queue holds each id once, so the status of a stored id is that of the
\* command the invariant speaks of.
LEMMA StatusOfStored ==
    ASSUME IInv, NEW id, Stored(id)
    PROVE  \E i \in 1..Len(mem.commands) :
              mem.commands[i].id = id /\ StatusOf(id) = mem.commands[i].status
<1>1. Sound(mem, Channels)
  BY TypeOKParts DEF IInv, Counted, Sound
<1>2. PICK i \in 1..Len(mem.commands) : mem.commands[i].id = id
  BY DEF Stored, IndicesOf
<1>3. FirstOf(IndicesOf(mem, id)) = i
  BY <1>1, <1>2, FirstOfId
<1> QED
  BY <1>2, <1>3 DEF StatusOf

\* Every variable keeps its type; the bridge is idle when it holds nothing.
THEOREM TypeCorrect == Spec => []TypeOK
<1>1. IInv => TypeOK
  BY DEF IInv
<1> QED
  BY <1>1, InductiveInvariant, PTL

\* A start that a stop canceled in the hands of the menu app is followed by a
\* stop in the queue, whoever queued what meanwhile, or a stop came late.
THEOREM CanceledStartIsFollowedByStop == Spec => []StopFollowsCanceledStart
<1>1. IInv => StopFollowsCanceledStart
  <2> SUFFICES ASSUME IInv, bridge # Idle, Stored(bridge.cmd.id),
                      StatusOf(bridge.cmd.id) = "canceled"
               PROVE  PendingIndices(mem, {"stop"}) # {} \/ StopOverdue
    BY DEF StopFollowsCanceledStart
  <2>1. PICK i \in 1..Len(mem.commands) :
           mem.commands[i].id = bridge.cmd.id /\ mem.commands[i].status = "canceled"
    BY StatusOfStored
  <2>2. \/ \E j \in 1..Len(mem.commands) :
              IsPending(mem.commands[j]) /\ mem.commands[j].action = "stop"
        \/ StopOverdue
    BY <2>1 DEF IInv, HeldInQueue
  <2> QED
    BY <2>2 DEF PendingIndices
<1> QED
  BY <1>1, InductiveInvariant, PTL

\* A command whose result the store has is carried out again only when that
\* result came late.
THEOREM SettledCommandsAreDropped == Spec => []SettledNotExecuted
<1>1. IInv => SettledNotExecuted
  <2> SUFFICES ASSUME IInv, bridge # Idle, Stored(bridge.cmd.id),
                      StatusOf(bridge.cmd.id) = "completed"
               PROVE  bridge.cmd \in overdue
    BY DEF SettledNotExecuted
  <2>1. PICK i \in 1..Len(mem.commands) :
           mem.commands[i].id = bridge.cmd.id /\ mem.commands[i].status = "completed"
    BY StatusOfStored
  <2> QED
    BY <2>1 DEF IInv, HeldInQueue
<1> QED
  BY <1>1, InductiveInvariant, PTL

\* No result, late or not, is booked on another command, also after a reset or
\* a restart.
THEOREM ResultsMatchCommands == Spec => []ResultMatchesCommand
<1>1. IInv => ResultMatchesCommand
  <2> SUFFICES ASSUME IInv, NEW c \in {bridge.cmd, late.cmd}, c # Nothing,
                      NEW i \in IndicesOf(mem, c.id)
               PROVE  SameCommand(mem.commands[i], c)
    BY DEF ResultMatchesCommand, SameCommand
  <2>1. (c = bridge.cmd => bridge # Idle) /\ (c = late.cmd => late # NoReport)
    BY IdleIsBridge
  <2> QED
    BY <2>1 DEF IInv, HeldInQueue, LateInQueue, IndicesOf
<1> QED
  BY <1>1, InductiveInvariant, PTL

\* What a stop took off the air no older start puts back on it.
THEOREM StopsAreNotUndone == Spec => []StopOutlivesEarlierStarts
<1>1. IInv => StopOutlivesEarlierStarts
  BY DEF IInv, StartsAreYounger
<1> QED
  BY <1>1, InductiveInvariant, PTL

\* As long as nothing failed, a stop that is carried out finds the air silent.
THEOREM StopsComeAfterCaptures == Spec => []StopsMeetNoCapture
<1>1. IInv => StopsMeetNoCapture
  BY DEF IInv, Outcomes, StopsMeetNoCapture
<1> QED
  BY <1>1, InductiveInvariant, PTL

\* A result opens a session only if it is that of a start that succeeded.
LEMMA SessionsAreOpened ==
    ASSUME IInv, NEW c \in Commands(Channels), NEW ok \in BOOLEAN,
           mem' = CompleteHostCommand(mem, c.id, ok),
           \A i \in IndicesOf(mem, c.id) : SameCommand(mem.commands[i], c),
           ~(IsStart(c) /\ ok)
    PROVE  RunningIndices(mem') \in {RunningIndices(mem), {}}
<1>1. Sound(mem, Channels)
  BY TypeOKParts DEF IInv, Counted, Sound
<1>2. CASE IndicesOf(mem, c.id) = {}
  BY <1>1, <1>2, ResultCompletes
<1>3. ASSUME NEW i \in IndicesOf(mem, c.id)
      PROVE  RunningIndices(mem') \in {RunningIndices(mem), {}}
  <2>1. Completed(mem, mem', i, ok) /\ SameCommand(mem.commands[i], c)
    BY <1>1, ResultCompletes
  <2>2. c.action = "stop" <=> ~IsStart(c)
    BY HeldFields DEF Held
  <2>3. CASE c.action = "stop"
    BY <2>1, <2>3 DEF Completed, SameCommand
  <2>4. CASE IsStart(c)
    <3>1. mem'.sessions = mem.sessions
      BY <2>1, <2>4 DEF Completed, SameCommand, IsStart
    <3> QED
      BY <3>1 DEF RunningIndices
  <2> QED
    BY <2>2, <2>3, <2>4
<1> QED
  BY <1>2, <1>3

\* Whatever is refused, lost, late, wiped or restarted, the sessions GET
\* /status shows are those of captures that are over.
THEOREM SessionsFollowCaptures == Spec => SessionsAreOver
<1> DEFINE More == Cardinality(RunningIndices(mem')) > Cardinality(RunningIndices(mem))
<1>1. ASSUME IInv, [Next]_vars
      PROVE  [More => \/ Report /\ bridge.cmd \in over
                      \/ LateReport /\ late.cmd \in over]_vars
  <2> SUFFICES ASSUME Next, More
               PROVE  \/ Report /\ bridge.cmd \in over
                      \/ LateReport /\ late.cmd \in over
    BY <1>1
  <2>1. /\ Sound(mem, Channels) /\ Grows(mem, mem) /\ minute \in Int
        /\ NoChannel \in Channels \cup {NoChannel}
        /\ "start" \in StartActions /\ "start-local" \in StartActions
    BY <1>1, TypeOKParts, UnchangedGrows DEF IInv, Counted, Sound, StartActions
  <2>2. RunningIndices(mem') \notin {RunningIndices(mem), {}}
    <3>1. Cardinality(RunningIndices(mem)) \in Nat /\ Cardinality({}) = 0
      <4>1. Len(mem.sessions) \in Nat
        BY <2>1, StoreFields DEF Sound
      <4>2. IsFiniteSet(1..Len(mem.sessions))
        BY <4>1, FS_Interval
      <4>3. RunningIndices(mem) \subseteq 1..Len(mem.sessions)
        BY DEF RunningIndices
      <4>4. IsFiniteSet(RunningIndices(mem))
        BY <4>2, <4>3, FS_Subset
      <4> QED
        BY <4>4, FS_CardinalityType, FS_EmptySet
    <3> QED
      BY <3>1
  <2>3. ~Grows(mem, mem') /\ ~Wipes(mem, mem') /\ mem' # mem
    BY <2>2 DEF Grows, Wipes, RunningIndices
  <2>4. ~RequestStart /\ ~RequestStartLocal /\ ~RequestStop /\ ~Tick
    BY <2>1, <2>3, StartRequestGrows, StopRequestGrows, TickGrows
       DEF RequestStart, StartCapture, RequestStartLocal, StartLocalCapture, RequestStop, Tick
  <2>5. ~DemoSeed /\ ~DemoReset /\ ~ApiBoots
    BY <2>1, <2>3, SeedDemoWipes, ResetDemoWipes DEF DemoSeed, DemoReset, ApiBoots
  <2>6. /\ ~MinutePasses /\ ~ApiStops /\ ~Poll /\ ~Execute /\ ~ReadToEnd
        /\ ~LoseReport /\ ~GiveUpReport /\ ~MenuStop /\ ~AppRestarts /\ ~CaptureEnds
    BY <2>3 DEF MinutePasses, ApiStops, Poll, Execute, ReadToEnd, LoseReport,
                GiveUpReport, MenuStop, AppRestarts, CaptureEnds
  <2>7. CASE Report
    <3>1. /\ bridge.pc = "reporting" /\ bridge.ok \in BOOLEAN
          /\ bridge # Idle /\ bridge.cmd \in Commands(Channels)
      BY <1>1, <2>7, TypeOKParts, BridgeFields, IdleIsBridge DEF IInv, Report, Held
    <3>2. \A i \in IndicesOf(mem, bridge.cmd.id) : SameCommand(mem.commands[i], bridge.cmd)
      BY <1>1, <3>1 DEF IInv, HeldInQueue, IndicesOf
    <3>3. IsStart(bridge.cmd) /\ bridge.ok
      BY <1>1, <2>2, <2>7, <3>1, <3>2, SessionsAreOpened DEF Report
    <3> QED
      BY <1>1, <2>7, <3>1, <3>3 DEF IInv, Outcomes
  <2>8. CASE LateReport
    <3>1. late # NoReport /\ late.ok \in BOOLEAN /\ late.cmd \in Commands(Channels)
      BY <1>1, <2>8, TypeOKParts, ReportFields DEF IInv, LateReport, Held
    <3>2. \A i \in IndicesOf(mem, late.cmd.id) : SameCommand(mem.commands[i], late.cmd)
      BY <1>1, <3>1 DEF IInv, LateInQueue, IndicesOf
    <3>3. IsStart(late.cmd) /\ late.ok
      BY <1>1, <2>2, <2>8, <3>1, <3>2, SessionsAreOpened DEF LateReport
    <3> QED
      BY <1>1, <2>8, <3>3 DEF IInv, Outcomes
  <2> QED
    BY <2>4, <2>5, <2>6, <2>7, <2>8 DEF Next, Clients, Bridge
<1> QED
  BY <1>1, InductiveInvariant, PTL DEF Spec, SessionsAreOver
=============================================================================
