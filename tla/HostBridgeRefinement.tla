------------------------- MODULE HostBridgeRefinement -------------------------
(***************************************************************************)
(* HostBridge implements CaptureRequests, for any channels, any number of  *)
(* commands and faults and any clock.  First what each method of the store *)
(* does to the stages of the commands, then the invariant that the order   *)
(* of stops adds to IInv, then each step of HostBridge as a step of        *)
(* CaptureRequests.                                                        *)
(***************************************************************************)
EXTENDS HostBridgeProofs

\* The stage of a command that is in the queue.
View(c) ==
    IF ~IsPending(c) THEN c.status
    ELSE IF IsStart(c) THEN "start" ELSE "stop"

\* Stops are carried out in the order of the queue: none that is pending, or
\* in hand, is older than the latest, and none pending is older than the one
\* in hand.  Only starts are ever canceled.
StopsInTurn ==
    /\ mem.seq <= MaxCommands
    /\ \A i \in 1..Len(mem.commands) :
          /\ mem.commands[i].status = "canceled" => IsStart(mem.commands[i])
          /\ (IsPending(mem.commands[i]) /\ mem.commands[i].action = "stop") =>
                /\ mem.commands[i].id >= stopped
                /\ (bridge.pc = "holding" /\ bridge.cmd.action = "stop") =>
                      mem.commands[i].id >= bridge.cmd.id
    /\ (bridge.pc = "holding" /\ bridge.cmd.action = "stop") => bridge.cmd.id >= stopped

RInv == IInv /\ StopsInTurn

-----------------------------------------------------------------------------
(* The stages in one store *)

\* An id of the queue has the stage of its command.
LEMMA StageOfStored ==
    ASSUME NEW m, Sound(m, Channels), NEW i \in 1..Len(m.commands)
    PROVE  StageIn(m, m.commands[i].id) = View(m.commands[i])
<1>1. IndicesOf(m, m.commands[i].id) = {i} /\ FirstOf({i}) = i
  BY FirstOfId
<1>2. ~(m.commands[i].id > m.seq)
  BY StoreFields DEF Sound, Ordered
<1> QED
  BY <1>1, <1>2 DEF StageIn, View

\* Any other id was not drawn yet, or its command was wiped.
LEMMA StageOfOther ==
    ASSUME NEW m, NEW id, \A i \in 1..Len(m.commands) : m.commands[i].id # id
    PROVE  StageIn(m, id) = IF id > m.seq THEN "unused" ELSE "forgotten"
<1>1. IndicesOf(m, id) = {}
  BY DEF IndicesOf
<1> QED
  BY <1>1 DEF StageIn

\* The stage of a command in the queue is one of four.
LEMMA ViewIsStage ==
    ASSUME NEW c \in Commands(Channels)
    PROVE  /\ View(c) \in {"start", "stop", "canceled", "completed"}
           /\ View(c) = "start" <=> IsPending(c) /\ IsStart(c)
           /\ View(c) = "stop" <=> IsPending(c) /\ c.action = "stop"
           /\ View(c) = "canceled" <=> c.status = "canceled"
           /\ View(c) = "completed" <=> c.status = "completed"
<1>1. c.status \in Statuses /\ c.action \in Actions
  BY DEF Commands
<1> QED
  BY <1>1 DEF View, IsPending, IsStart, Statuses, Actions, StartActions

\* An id is unused exactly when it is ahead of the counter.
LEMMA UnusedIsAhead ==
    ASSUME NEW m, Sound(m, Channels), NEW id \in Nat
    PROVE  /\ StageIn(m, id) = "unused" <=> id > m.seq
           /\ StageIn(m, id) = "forgotten" <=>
                 id <= m.seq /\ \A i \in 1..Len(m.commands) : m.commands[i].id # id
<1>0. m.seq \in Nat
  BY StoreFields DEF Sound
<1>1. CASE \A i \in 1..Len(m.commands) : m.commands[i].id # id
  BY <1>0, <1>1, StageOfOther
<1>2. ASSUME NEW i \in 1..Len(m.commands), m.commands[i].id = id
      PROVE  /\ StageIn(m, id) \notin {"unused", "forgotten"}
             /\ id <= m.seq
  <2>1. StageIn(m, id) = View(m.commands[i])
    BY <1>2, StageOfStored
  <2>2. View(m.commands[i]) \in {"start", "stop", "canceled", "completed"}
    BY ViewIsStage, StoreFields DEF Sound
  <2> QED
    BY <1>2, <2>1, <2>2 DEF Sound, Ordered
<1> QED
  BY <1>0, <1>1, <1>2

\* Stages depend on the commands and the counter only.
LEMMA SameQueueSameStages ==
    ASSUME NEW m, NEW n, n.commands = m.commands, n.seq = m.seq
    PROVE  StagesIn(n) = StagesIn(m)
BY DEF StagesIn, StageIn, IndicesOf

\* Two stores that agree on the counter and on the ids of the queue have
\* stages that differ as the commands do.
LEMMA StagesFollowCommands ==
    ASSUME NEW m, Sound(m, Channels), NEW n, Sound(n, Channels),
           n.seq = m.seq, Len(n.commands) = Len(m.commands),
           \A i \in 1..Len(m.commands) : SameCommand(n.commands[i], m.commands[i]),
           NEW id \in Nat
    PROVE  \/ \E i \in 1..Len(m.commands) :
                 /\ m.commands[i].id = id
                 /\ StageIn(m, id) = View(m.commands[i])
                 /\ StageIn(n, id) = View(n.commands[i])
           \/ /\ \A i \in 1..Len(m.commands) : m.commands[i].id # id
              /\ StageIn(m, id) \in {"unused", "forgotten"}
              /\ StageIn(n, id) = StageIn(m, id)
<1>1. CASE \A i \in 1..Len(m.commands) : m.commands[i].id # id
  <2>1. \A i \in 1..Len(n.commands) : n.commands[i].id # id
    BY <1>1 DEF SameCommand
  <2> QED
    BY <1>1, <2>1, StageOfOther
<1>2. ASSUME NEW i \in 1..Len(m.commands), m.commands[i].id = id
      PROVE  StageIn(m, id) = View(m.commands[i]) /\ StageIn(n, id) = View(n.commands[i])
  <2>1. n.commands[i].id = id
    BY <1>2 DEF SameCommand
  <2> QED
    BY <1>2, <2>1, StageOfStored
<1> QED
  BY <1>1, <1>2

-----------------------------------------------------------------------------
(* What the methods of the store do to the stages *)

\* The counter gives out the least unused id.
LEMMA NextIdIsNumbered ==
    ASSUME NEW m, Sound(m, Channels), m.seq < MaxCommands
    PROVE  /\ m.seq + 1 \in 1..MaxCommands
           /\ StagesIn(m)[m.seq + 1] = "unused"
           /\ \A id \in 1..MaxCommands : id < m.seq + 1 => StagesIn(m)[id] # "unused"
<1>1. m.seq \in Nat /\ MaxCommands \in Nat
  BY StoreFields, BoundsAssumption DEF Sound
<1>2. m.seq + 1 \in 1..MaxCommands
  BY <1>1
<1>3. \A id \in 1..MaxCommands : StagesIn(m)[id] = StageIn(m, id)
  BY DEF StagesIn
<1>4. StageIn(m, m.seq + 1) = "unused"
  BY <1>1, UnusedIsAhead
<1>5. \A id \in 1..MaxCommands : id < m.seq + 1 => StageIn(m, id) # "unused"
  BY <1>1, UnusedIsAhead
<1> QED
  BY <1>2, <1>3, <1>4, <1>5

\* A command that is queued waits, and no other command is disturbed.
LEMMA EnqueueIsSeen ==
    ASSUME NEW m, Sound(m, Channels), m.seq < MaxCommands,
           NEW action \in Actions, NEW channel \in Channels \cup {NoChannel},
           action = "stop" => PendingIndices(m, StartActions) = {}
    PROVE  StagesIn(Enqueue(m, action, channel)) =
              [StagesIn(m) EXCEPT ![m.seq + 1] =
                  IF action \in StartActions THEN "start" ELSE "stop"]
<1> DEFINE n == Enqueue(m, action, channel)
           new == [id |-> m.seq + 1, action |-> action, channel |-> channel,
                   status |-> "pending"]
           kind == IF action \in StartActions THEN "start" ELSE "stop"
<1>1. /\ Sound(n, Channels) /\ Len(n.commands) = Len(m.commands) + 1
      /\ \A i \in 1..Len(m.commands) : n.commands[i] = m.commands[i]
      /\ n.commands[Len(n.commands)] = new /\ n.seq = m.seq + 1
  BY EnqueueAppends
<1> HIDE DEF n
<1>2. m.seq \in Nat /\ MaxCommands \in Nat /\ Len(m.commands) \in Nat
  BY StoreFields, BoundsAssumption DEF Sound
<1>3. StageIn(n, m.seq + 1) = kind
  <2>1. View(new) = kind /\ new.id = m.seq + 1
    BY DEF View, IsPending, IsStart
  <2>2. Len(n.commands) \in 1..Len(n.commands)
    BY <1>1, <1>2
  <2> QED
    BY <1>1, <2>1, <2>2, StageOfStored
<1>4. ASSUME NEW id \in 1..MaxCommands, id # m.seq + 1
      PROVE  StageIn(n, id) = StageIn(m, id)
  <2>1. CASE \A i \in 1..Len(m.commands) : m.commands[i].id # id
    <3>1. \A i \in 1..Len(n.commands) : n.commands[i].id # id
      <4> SUFFICES ASSUME NEW i \in 1..Len(n.commands) PROVE n.commands[i].id # id
        OBVIOUS
      <4>1. i \in 1..Len(m.commands) \/ i = Len(n.commands)
        BY <1>1, <1>2
      <4>2. n.commands[Len(n.commands)].id # id
        BY <1>1, <1>4
      <4> QED
        BY <1>1, <2>1, <4>1, <4>2
    <3>2. id > n.seq <=> id > m.seq
      BY <1>1, <1>2, <1>4
    <3> QED
      BY <2>1, <3>1, <3>2, StageOfOther
  <2>2. ASSUME NEW i \in 1..Len(m.commands), m.commands[i].id = id
        PROVE  StageIn(n, id) = StageIn(m, id)
    <3>1. i \in 1..Len(n.commands) /\ n.commands[i] = m.commands[i]
      BY <1>1, <1>2
    <3> QED
      BY <1>1, <2>2, <3>1, StageOfStored
  <2> QED
    BY <2>1, <2>2
<1>5. \A id \in 1..MaxCommands :
         StageIn(n, id) = IF id = m.seq + 1 THEN kind ELSE StageIn(m, id)
  BY <1>3, <1>4
<1>6. StagesIn(n) = [StagesIn(m) EXCEPT ![m.seq + 1] = kind]
  BY <1>5 DEF StagesIn
<1> QED
  BY <1>6 DEF n

\* The starts that wait are canceled, and nothing else is disturbed.
LEMMA CancelIsSeen ==
    ASSUME NEW m, Sound(m, Channels)
    PROVE  StagesIn(CancelPendingStarts(m)) =
              [id \in 1..MaxCommands |->
                  IF StagesIn(m)[id] = "start" THEN "canceled" ELSE StagesIn(m)[id]]
<1> DEFINE n == CancelPendingStarts(m)
<1>1. /\ Sound(n, Channels) /\ Len(n.commands) = Len(m.commands) /\ n.seq = m.seq
      /\ \A i \in 1..Len(m.commands) :
            /\ SameCommand(n.commands[i], m.commands[i])
            /\ n.commands[i].status = IF i \in PendingIndices(m, StartActions)
                                        THEN "canceled" ELSE m.commands[i].status
  BY CancelLeavesNoPendingStart
<1> HIDE DEF n
<1>2. ASSUME NEW i \in 1..Len(m.commands)
      PROVE  View(n.commands[i]) =
                IF View(m.commands[i]) = "start" THEN "canceled" ELSE View(m.commands[i])
  <2>1. View(m.commands[i]) = "start" <=> i \in PendingIndices(m, StartActions)
    BY StoreFields, ViewIsStage DEF Sound, PendingIndices, IsStart
  <2>2. CASE View(m.commands[i]) = "start"
    BY <1>1, <2>1, <2>2 DEF View, IsPending
  <2>3. CASE View(m.commands[i]) # "start"
    BY <1>1, <2>1, <2>3 DEF View, IsPending, IsStart, SameCommand
  <2> QED
    BY <2>2, <2>3
<1>3. \A id \in 1..MaxCommands :
         StageIn(n, id) = IF StageIn(m, id) = "start" THEN "canceled" ELSE StageIn(m, id)
  <2> SUFFICES ASSUME NEW id \in 1..MaxCommands
               PROVE  StageIn(n, id) =
                         IF StageIn(m, id) = "start" THEN "canceled" ELSE StageIn(m, id)
    OBVIOUS
  <2>1. id \in Nat
    OBVIOUS
  <2> QED
    BY <1>1, <1>2, <2>1, StagesFollowCommands
<1>4. StagesIn(n) = [id \in 1..MaxCommands |->
                        IF StagesIn(m)[id] = "start" THEN "canceled" ELSE StagesIn(m)[id]]
  BY <1>3 DEF StagesIn
<1> QED
  BY <1>4 DEF n

\* The command is completed, and nothing else is disturbed.
LEMMA MarkIsSeen ==
    ASSUME NEW m, Sound(m, Channels), NEW i \in 1..Len(m.commands)
    PROVE  StagesIn(MarkCompleted(m, i)) =
              [StagesIn(m) EXCEPT ![m.commands[i].id] = "completed"]
<1> DEFINE n == MarkCompleted(m, i)
           k == m.commands[i].id
<1>1. /\ Sound(n, Channels) /\ Len(n.commands) = Len(m.commands) /\ n.seq = m.seq
      /\ \A j \in 1..Len(m.commands) :
            /\ SameCommand(n.commands[j], m.commands[j])
            /\ n.commands[j].status = IF j = i THEN "completed" ELSE m.commands[j].status
  BY MarkCompletes
<1> HIDE DEF n
<1>2. \A j \in 1..Len(m.commands) : m.commands[j].id = k <=> j = i
  <2>1. IndicesOf(m, k) = {i}
    BY FirstOfId
  <2> QED
    BY <2>1 DEF IndicesOf
<1>3. ASSUME NEW j \in 1..Len(m.commands)
      PROVE  View(n.commands[j]) = IF j = i THEN "completed" ELSE View(m.commands[j])
  BY <1>1 DEF View, IsPending, IsStart, SameCommand
<1>4. \A id \in 1..MaxCommands :
         StageIn(n, id) = IF id = k THEN "completed" ELSE StageIn(m, id)
  <2> SUFFICES ASSUME NEW id \in 1..MaxCommands
               PROVE  StageIn(n, id) = IF id = k THEN "completed" ELSE StageIn(m, id)
    OBVIOUS
  <2>1. id \in Nat
    OBVIOUS
  <2> HIDE DEF k
  <2>2. CASE \A j \in 1..Len(m.commands) : m.commands[j].id # id
    <3>1. id # k
      BY <2>2 DEF k
    <3> QED
      BY <1>1, <2>1, <2>2, <3>1, StagesFollowCommands
  <2>3. ASSUME NEW j \in 1..Len(m.commands), m.commands[j].id = id
        PROVE  StageIn(n, id) = IF id = k THEN "completed" ELSE StageIn(m, id)
    <3>1. n.commands[j].id = id /\ j \in 1..Len(n.commands)
      BY <1>1, <2>3 DEF SameCommand
    <3>2. StageIn(n, id) = View(n.commands[j]) /\ StageIn(m, id) = View(m.commands[j])
      BY <1>1, <2>3, <3>1, StageOfStored
    <3> QED
      BY <1>2, <1>3, <2>3, <3>2
  <2> QED
    BY <2>2, <2>3
<1>5. StagesIn(n) = [StagesIn(m) EXCEPT ![k] = "completed"]
  BY <1>4 DEF StagesIn
<1> QED
  BY <1>5 DEF n

\* Every command that was ever queued is forgotten.
LEMMA WipeIsSeen ==
    ASSUME NEW m, Sound(m, Channels), NEW n, Wipes(m, n)
    PROVE  StagesIn(n) =
              [id \in 1..MaxCommands |->
                  IF StagesIn(m)[id] = "unused" THEN "unused" ELSE "forgotten"]
<1>1. n.commands = <<>> /\ n.seq = m.seq
  BY DEF Wipes
<1>2. ASSUME NEW id \in 1..MaxCommands
      PROVE  StageIn(n, id) = IF StageIn(m, id) = "unused" THEN "unused" ELSE "forgotten"
  <2>1. StageIn(n, id) = IF id > m.seq THEN "unused" ELSE "forgotten"
    BY <1>1, StageOfOther
  <2>2. StageIn(m, id) = "unused" <=> id > m.seq
    BY UnusedIsAhead
  <2> QED
    BY <2>1, <2>2
<1> QED
  BY <1>2 DEF StagesIn

\* A request for a start queues one, or finds one that waits.
LEMMA StartRequestIsSeen ==
    ASSUME NEW m, Sound(m, Channels), m.seq < MaxCommands,
           NEW action \in StartActions, NEW channel \in Channels \cup {NoChannel}
    PROVE  LET n == RequestedStart(m, action, channel)
           IN  /\ n.seq <= MaxCommands
               /\ \/ StagesIn(n) = StagesIn(m)
                  \/ StagesIn(n) = [StagesIn(m) EXCEPT ![m.seq + 1] = "start"]
<1>1. action \in Actions /\ action # "stop" /\ m.seq \in Nat
  BY StoreFields DEF Sound, Actions, StartActions
<1>2. Enqueue(m, action, channel).seq = m.seq + 1
  BY <1>1, EnqueueAppends
<1>3. m.seq <= MaxCommands /\ m.seq + 1 <= MaxCommands
  BY <1>1, BoundsAssumption
<1>4. StagesIn(Enqueue(m, action, channel)) = [StagesIn(m) EXCEPT ![m.seq + 1] = "start"]
  BY <1>1, EnqueueIsSeen
<1> QED
  BY <1>2, <1>3, <1>4 DEF RequestedStart

\* A request for a stop cancels the starts that wait and queues the stop.
LEMMA StopRequestIsSeen ==
    ASSUME NEW m, Sound(m, Channels), m.seq < MaxCommands
    PROVE  LET n == StopCapture(m)
           IN  /\ n.seq <= MaxCommands
               /\ StagesIn(n) =
                     [[id \in 1..MaxCommands |->
                          IF StagesIn(m)[id] = "start" THEN "canceled" ELSE StagesIn(m)[id]]
                      EXCEPT ![m.seq + 1] = "stop"]
<1> DEFINE k == CancelPendingStarts(m)
<1>1. Sound(k, Channels) /\ PendingIndices(k, StartActions) = {} /\ k.seq = m.seq
  BY CancelLeavesNoPendingStart
<1>2. StagesIn(k) = [id \in 1..MaxCommands |->
                        IF StagesIn(m)[id] = "start" THEN "canceled" ELSE StagesIn(m)[id]]
  BY CancelIsSeen
<1> HIDE DEF k
<1>3. "stop" \in Actions /\ "stop" \notin StartActions /\ NoChannel \in Channels \cup {NoChannel}
  BY DEF Actions, StartActions
<1>4. Enqueue(k, "stop", NoChannel).seq = k.seq + 1
  BY <1>1, <1>3, EnqueueAppends
<1>5. StagesIn(Enqueue(k, "stop", NoChannel)) = [StagesIn(k) EXCEPT ![m.seq + 1] = "stop"]
  BY <1>1, <1>3, EnqueueIsSeen
<1>6. m.seq + 1 <= MaxCommands
  BY StoreFields, BoundsAssumption DEF Sound
<1> QED
  BY <1>1, <1>2, <1>4, <1>5, <1>6 DEF StopCapture, k

\* A tick queues a start or does nothing that is seen.
LEMMA TickIsSeen ==
    ASSUME NEW m, Sound(m, Channels), m.seq < MaxCommands,
           NEW now \in Int, NEW due \in Channels \cup {NoChannel}
    PROVE  LET n == TickSchedules(m, now, due)
           IN  /\ n.seq <= MaxCommands
               /\ \/ StagesIn(n) = StagesIn(m)
                  \/ StagesIn(n) = [StagesIn(m) EXCEPT ![m.seq + 1] = "start"]
<1> DEFINE ticked == [m EXCEPT !.lastTick = now]
           n == TickSchedules(m, now, due)
<1>1. Sound(ticked, Channels) /\ ticked.commands = m.commands /\ ticked.seq = m.seq
  BY TickedIsSound
<1>2. n = m \/ n = ticked \/ n = Enqueue(ticked, "start", due)
  BY DEF TickSchedules
<1> HIDE DEF ticked, n
<1>3. StagesIn(ticked) = StagesIn(m)
  BY <1>1, SameQueueSameStages
<1>4. "start" \in Actions /\ "start" \in StartActions /\ "start" # "stop"
  BY DEF Actions, StartActions
<1>5. Enqueue(ticked, "start", due).seq = ticked.seq + 1
  BY <1>1, <1>4, EnqueueAppends
<1>6. StagesIn(Enqueue(ticked, "start", due)) = [StagesIn(m) EXCEPT ![m.seq + 1] = "start"]
  BY <1>1, <1>3, <1>4, EnqueueIsSeen
<1>7. m.seq <= MaxCommands /\ m.seq + 1 <= MaxCommands
  BY StoreFields, BoundsAssumption DEF Sound
<1> QED
  BY <1>1, <1>2, <1>3, <1>5, <1>6, <1>7 DEF n

\* A result completes its command; that of a stop cancels the starts that
\* wait; that of a command that was wiped changes nothing.
LEMMA ResultIsSeen ==
    ASSUME NEW m, Sound(m, Channels), NEW i \in 1..Len(m.commands), NEW exit0 \in BOOLEAN
    PROVE  LET n    == CompleteHostCommand(m, m.commands[i].id, exit0)
               done == [StagesIn(m) EXCEPT ![m.commands[i].id] = "completed"]
           IN  StagesIn(n) =
                  IF m.commands[i].action = "stop"
                    THEN [id \in 1..MaxCommands |->
                             IF done[id] = "start" THEN "canceled" ELSE done[id]]
                    ELSE done
<1> DEFINE c == m.commands[i]
           k == MarkCompleted(m, i)
           x == CancelPendingStarts(k)
           n == CompleteHostCommand(m, c.id, exit0)
           done == [StagesIn(m) EXCEPT ![c.id] = "completed"]
<1>1. IndicesOf(m, c.id) = {i} /\ FirstOf({i}) = i
  BY FirstOfId
<1>2. n = IF c.action = "stop" THEN CloseSessions(x)
          ELSE IF exit0 THEN [k EXCEPT !.sessions = Append(k.sessions, SessionOf(c))]
          ELSE k
  BY <1>1 DEF CompleteHostCommand
<1>3. Sound(k, Channels) /\ StagesIn(k) = done
  BY MarkCompletes, MarkIsSeen
<1> HIDE DEF k, n
<1>4. CASE c.action = "stop"
  <2>1. Sound(x, Channels)
    BY <1>3, CancelLeavesNoPendingStart
  <2>2. StagesIn(x) = [id \in 1..MaxCommands |->
                          IF StagesIn(k)[id] = "start" THEN "canceled" ELSE StagesIn(k)[id]]
    BY <1>3, CancelIsSeen
  <2> HIDE DEF x
  <2>3. StagesIn(CloseSessions(x)) = StagesIn(x)
    BY <2>1, CloseClosesAll, SameQueueSameStages
  <2> QED
    BY <1>2, <1>3, <1>4, <2>2, <2>3 DEF n
<1>5. CASE c.action # "stop"
  <2>1. c \in Commands(Channels)
    BY StoreFields DEF Sound
  <2>2. SessionOf(c) \in Sessions(Channels)
    BY <2>1, SessionOfCommand
  <2> DEFINE o == [k EXCEPT !.sessions = Append(k.sessions, SessionOf(c))]
  <2>3. o.commands = k.commands /\ o.seq = k.seq
    BY <1>3, <2>2, OpeningASession
  <2> HIDE DEF o
  <2>4. StagesIn(o) = StagesIn(k)
    BY <2>3, SameQueueSameStages
  <2>5. n = o \/ n = k
    BY <1>2, <1>5 DEF o
  <2> QED
    BY <1>3, <1>5, <2>4, <2>5 DEF n
<1> QED
  BY <1>4, <1>5

-----------------------------------------------------------------------------
(* The order of stops is kept *)

\* What the steps below read of the invariant.
LEMMA RInvFacts ==
    ASSUME RInv
    PROVE  /\ Sound(mem, Channels) /\ mem \in Stores(Channels) /\ mem.seq \in Nat
           /\ mem.seq <= MaxCommands
           /\ bridge \in Bridges /\ bridge.cmd \in Held /\ bridge.cmd.id \in Nat
           /\ bridge.cmd.id <= mem.seq /\ stopped \in 0..mem.seq
           /\ bridge.cmd.action = "stop" <=> ~IsStart(bridge.cmd)
           /\ air.id \in Nat /\ (OnAir <=> air.id # 0)
<1>1. /\ Sound(mem, Channels) /\ mem \in Stores(Channels) /\ mem.seq \in Nat
      /\ mem.seq <= MaxCommands
      /\ bridge \in Bridges /\ bridge.cmd \in Held /\ bridge.cmd.id \in Nat
      /\ bridge.cmd.id <= mem.seq /\ stopped \in 0..mem.seq
      /\ bridge.cmd.action = "stop" <=> ~IsStart(bridge.cmd)
      /\ air \in Held /\ air.id \in Nat
  BY TypeOKParts, BridgeFields, HeldFields, StoreFields
     DEF RInv, IInv, Counted, Sound, StopsInTurn
<1>2. \A c \in Held : c # Nothing <=> c.id # 0
  BY IdleIsBridge DEF Held, Commands
<1> QED
  BY <1>1, <1>2 DEF OnAir

\* What is known of a command that is held or whose report is late.
Known(c) ==
    /\ c \in Commands(Channels) /\ c.id \in 1..MaxCommands /\ c.id <= mem.seq
    /\ \A i \in IndicesOf(mem, c.id) : SameCommand(mem.commands[i], c)

LEMMA CommandsAreKnown ==
    ASSUME RInv
    PROVE  /\ bridge # Idle => Known(bridge.cmd) /\ bridge.pc # "idle"
           /\ late # NoReport => Known(late.cmd) /\ late.ok \in BOOLEAN
<1>1. MaxCommands \in Nat /\ mem.seq \in Nat /\ mem.seq <= MaxCommands
  BY RInvFacts, BoundsAssumption
<1>2. \A c \in Commands(Channels) : c.id \in Nat \ {0}
  BY DEF Commands
<1>3. bridge # Idle => /\ bridge.cmd \in Commands(Channels) /\ bridge.pc # "idle"
                       /\ bridge.cmd.id <= mem.seq
  BY TypeOKParts, BridgeFields DEF RInv, IInv, Counted, Held
<1>4. late # NoReport => /\ late.cmd \in Commands(Channels) /\ late.ok \in BOOLEAN
                         /\ late.cmd.id <= mem.seq
  BY TypeOKParts, ReportFields DEF RInv, IInv, Counted, Held
<1>5. bridge # Idle =>
         \A i \in IndicesOf(mem, bridge.cmd.id) : SameCommand(mem.commands[i], bridge.cmd)
  BY DEF RInv, IInv, HeldInQueue, IndicesOf
<1>6. late # NoReport =>
         \A i \in IndicesOf(mem, late.cmd.id) : SameCommand(mem.commands[i], late.cmd)
  BY DEF RInv, IInv, LateInQueue, IndicesOf
<1> QED
  BY <1>1, <1>2, <1>3, <1>4, <1>5, <1>6 DEF Known

\* Requests and ticks queue what is younger than all else.
LEMMA GrowthKeepsTurns ==
    ASSUME RInv, Sound(mem', Channels), Grows(mem, mem'), mem'.seq <= MaxCommands,
           UNCHANGED <<bridge, stopped>>
    PROVE  StopsInTurn'
<1>1. /\ mem' \in Stores(Channels) /\ mem.seq \in Nat /\ mem \in Stores(Channels)
      /\ bridge.cmd.id \in Nat /\ bridge.cmd.id <= mem.seq /\ stopped \in 0..mem.seq
  BY RInvFacts DEF Sound
<1>2. ASSUME NEW i \in 1..Len(mem'.commands)
      PROVE  /\ mem'.commands[i].status = "canceled" => IsStart(mem'.commands[i])
             /\ (IsPending(mem'.commands[i]) /\ mem'.commands[i].action = "stop") =>
                   /\ mem'.commands[i].id >= stopped
                   /\ (bridge.pc = "holding" /\ bridge.cmd.action = "stop") =>
                         mem'.commands[i].id >= bridge.cmd.id
  <2>1. CASE i \in 1..Len(mem.commands)
    <3>1. /\ SameCommand(mem'.commands[i], mem.commands[i])
          /\ \/ mem'.commands[i].status = mem.commands[i].status
             \/ IsStart(mem.commands[i]) /\ mem'.commands[i].status = "canceled"
      BY <2>1 DEF Grows
    <3> QED
      BY <2>1, <3>1 DEF RInv, StopsInTurn, SameCommand, IsPending, IsStart
  <2>2. CASE i \notin 1..Len(mem.commands)
    <3>1. i > Len(mem.commands)
      BY <1>1, <2>2, StoreFields
    <3>2. mem'.commands[i].id > mem.seq /\ mem'.commands[i].status = "pending"
      BY <3>1 DEF Grows, IsPending
    <3>3. mem'.commands[i].id \in Nat
      BY <1>1, StoreFields
    <3> QED
      BY <1>1, <3>2, <3>3
  <2> QED
    BY <2>1, <2>2
<1>3. (bridge.pc = "holding" /\ bridge.cmd.action = "stop") => bridge.cmd.id >= stopped
  BY DEF RInv, StopsInTurn
<1> QED
  BY <1>2, <1>3 DEF StopsInTurn

\* Fetching: a stop that is fetched is the first of those that are pending.
LEMMA PollKeepsTurns == ASSUME RInv, Poll PROVE StopsInTurn'
<1> DEFINE c == NextHostCommand(mem)
           next == NextIndices(mem)
           k == FirstOf(next)
<1>1. Sound(mem, Channels) /\ mem \in Stores(Channels) /\ stopped \in 0..mem.seq
  BY RInvFacts
<1>2. next \in SUBSET Nat /\ next # {}
  BY DEF Poll, NextIndices, PendingIndices
<1>3. k \in next /\ \A j \in next : k <= j
  BY <1>2, FirstIsLeast
<1>4. c = mem.commands[k]
  BY DEF NextHostCommand
<1>5. bridge' = [pc |-> "holding", cmd |-> c, ok |-> FALSE] /\ UNCHANGED <<mem, stopped>>
  BY DEF Poll
<1> HIDE DEF c, k
<1>6. k \in 1..Len(mem.commands) /\ IsPending(mem.commands[k])
  BY <1>3 DEF NextIndices, PendingIndices
<1>7. ASSUME c.action = "stop"
      PROVE  /\ c.id >= stopped
             /\ \A i \in 1..Len(mem.commands) :
                   (IsPending(mem.commands[i]) /\ mem.commands[i].action = "stop") =>
                       mem.commands[i].id >= c.id
  <2>1. c.id >= stopped
    BY <1>4, <1>6, <1>7 DEF RInv, StopsInTurn
  <2>2. ASSUME NEW i \in 1..Len(mem.commands),
               IsPending(mem.commands[i]), mem.commands[i].action = "stop"
        PROVE  mem.commands[i].id >= c.id
    <3>1. i \in PendingIndices(mem, {"stop"})
      BY <2>2 DEF PendingIndices
    <3>2. i \in next
      BY <3>1 DEF NextIndices
    <3>3. k = i \/ k < i
      BY <1>3, <1>6, <3>2
    <3>4. k < i => c.id < mem.commands[i].id
      BY <1>1, <1>4, <1>6 DEF Sound, Ordered
    <3>5. mem.commands[i].id \in Nat /\ mem.commands[k].id \in Nat
      BY <1>1, <1>6, StoreFields
    <3> QED
      BY <1>4, <3>3, <3>4, <3>5
  <2> QED
    BY <2>1, <2>2
<1> QED
  BY <1>5, <1>7 DEF RInv, StopsInTurn

\* Carrying out, and leaving off: nothing is held for execution afterwards,
\* and only the stop that was held may have become the latest.
LEMMA ExecutionKeepsTurns ==
    ASSUME RInv, mem' = mem, bridge'.pc # "holding",
           \/ stopped' = stopped
           \/ bridge.pc = "holding" /\ bridge.cmd.action = "stop" /\ stopped' = bridge.cmd.id
    PROVE  StopsInTurn'
BY DEF RInv, StopsInTurn

\* A result leaves no pending command that was not pending before.
LEMMA ResultKeepsTurns ==
    ASSUME RInv, NEW id, NEW ok \in BOOLEAN, mem' = CompleteHostCommand(mem, id, ok),
           bridge' = bridge \/ bridge'.pc # "holding", stopped' = stopped
    PROVE  StopsInTurn'
<1>1. Sound(mem, Channels)
  BY RInvFacts
<1>2. CASE mem' = mem
  BY <1>2 DEF RInv, StopsInTurn
<1>3. ASSUME NEW k \in IndicesOf(mem, id) PROVE StopsInTurn'
  <2>1. Completed(mem, mem', k, ok)
    BY <1>1, ResultCompletes
  <2>2. ASSUME NEW i \in 1..Len(mem'.commands)
        PROVE  /\ mem'.commands[i].status = "canceled" => IsStart(mem'.commands[i])
               /\ (IsPending(mem'.commands[i]) /\ mem'.commands[i].action = "stop") =>
                     /\ mem'.commands[i].id >= stopped
                     /\ (bridge.pc = "holding" /\ bridge.cmd.action = "stop") =>
                           mem'.commands[i].id >= bridge.cmd.id
    <3>1. i \in 1..Len(mem.commands) /\ SameCommand(mem'.commands[i], mem.commands[i])
      BY <2>1 DEF Completed
    <3>2. \/ mem'.commands[i].status = "completed"
          \/ mem'.commands[i].status = mem.commands[i].status
          \/ IsStart(mem.commands[i]) /\ mem'.commands[i].status = "canceled"
      BY <2>1, <3>1 DEF Completed
    <3> QED
      BY <3>1, <3>2 DEF RInv, StopsInTurn, SameCommand, IsPending, IsStart
  <2>3. mem'.seq = mem.seq
    BY <2>1 DEF Completed
  <2> QED
    BY <2>2, <2>3 DEF RInv, StopsInTurn
<1>4. IndicesOf(mem, id) = {} => mem' = mem
  BY <1>1, ResultCompletes
<1> QED
  BY <1>2, <1>3, <1>4

-----------------------------------------------------------------------------
(* The steps of HostBridge as steps of CaptureRequests *)

Seen == [Requests!Next]_(Requests!vars)

\* The stage of a command that was fetched.
LEMMA KnownStage ==
    ASSUME RInv, NEW c, Known(c)
    PROVE  /\ IsStart(c) =>
                 StagesIn(mem)[c.id] \in {"start", "canceled", "completed", "forgotten"}
           /\ ~IsStart(c) => StagesIn(mem)[c.id] \in {"stop", "completed", "forgotten"}
           /\ StagesIn(mem)[c.id] = "forgotten" <=> IndicesOf(mem, c.id) = {}
<1>1. /\ Sound(mem, Channels) /\ c.id \in 1..MaxCommands /\ c.id \in Nat /\ c.id <= mem.seq
      /\ mem.seq \in Nat
  BY RInvFacts DEF Known
<1>2. StagesIn(mem)[c.id] = StageIn(mem, c.id)
  BY <1>1 DEF StagesIn
<1>3. CASE \A i \in 1..Len(mem.commands) : mem.commands[i].id # c.id
  <2>1. StageIn(mem, c.id) = "forgotten"
    BY <1>1, <1>3, StageOfOther
  <2>2. IndicesOf(mem, c.id) = {}
    BY <1>3 DEF IndicesOf
  <2> QED
    BY <1>2, <2>1, <2>2
<1>4. ASSUME NEW i \in 1..Len(mem.commands), mem.commands[i].id = c.id
      PROVE  /\ IsStart(c) => StageIn(mem, c.id) \in {"start", "canceled", "completed"}
             /\ ~IsStart(c) => StageIn(mem, c.id) \in {"stop", "completed"}
             /\ IndicesOf(mem, c.id) # {}
  <2>1. StageIn(mem, c.id) = View(mem.commands[i]) /\ mem.commands[i] \in Commands(Channels)
    BY <1>1, <1>4, StageOfStored, StoreFields DEF Sound
  <2>2. i \in IndicesOf(mem, c.id)
    BY <1>4 DEF IndicesOf
  <2>3. /\ SameCommand(mem.commands[i], c)
        /\ mem.commands[i].status = "canceled" => IsStart(mem.commands[i])
    BY <2>2 DEF Known, RInv, StopsInTurn
  <2>4. mem.commands[i].status \in Statuses
    BY <2>1 DEF Commands
  <2> QED
    BY <2>1, <2>2, <2>3, <2>4 DEF View, IsPending, IsStart, SameCommand, Statuses
<1> QED
  BY <1>2, <1>3, <1>4

\* What a store, a bridge, a late report and an air are seen as.
LEMMA SeenAs ==
    /\ StagesIn(mem)' = StagesIn(mem')
    /\ UNCHANGED Requests!vars <=>
          /\ StagesIn(mem') = StagesIn(mem)
          /\ InHand({"holding"})' = InHand({"holding"})
          /\ air'.id = air.id
          /\ InHand({"reading", "reporting"})' = InHand({"reading", "reporting"})
          /\ late'.cmd.id = late.cmd.id
          /\ stopped' = stopped
<1>1. StagesIn(mem)' = StagesIn(mem')
  BY DEF StagesIn, StageIn
<1> QED
  BY <1>1 DEF Requests!vars

\* A step that queues a start, or nothing.
LEMMA StartRequestStep ==
    ASSUME RInv, mem.seq < MaxCommands, UNCHANGED <<bridge, late, air, stopped>>,
           \/ StagesIn(mem') = StagesIn(mem)
           \/ StagesIn(mem') = [StagesIn(mem) EXCEPT ![mem.seq + 1] = "start"]
    PROVE  Seen
<1> DEFINE id == mem.seq + 1
<1>1. /\ id \in 1..MaxCommands /\ StagesIn(mem)[id] = "unused"
      /\ \A e \in 1..MaxCommands : e < id => StagesIn(mem)[e] # "unused"
  BY RInvFacts, NextIdIsNumbered
<1> HIDE DEF id
<1>2. CASE StagesIn(mem') = [StagesIn(mem) EXCEPT ![id] = "start"]
  <2>1. Requests!Start(id)
    BY <1>1, <1>2, SeenAs DEF Requests!Start, Requests!Numbered, InHand
  <2> QED
    BY <1>1, <2>1 DEF Seen, Requests!Next
<1>3. CASE StagesIn(mem') = StagesIn(mem)
  BY <1>3, SeenAs DEF Seen, InHand
<1> QED
  BY <1>2, <1>3 DEF id

\* A step that queues a stop.
LEMMA StopRequestStep ==
    ASSUME RInv, RequestStop
    PROVE  Requests!Stop(mem.seq + 1) /\ mem.seq + 1 \in 1..MaxCommands
<1> DEFINE id == mem.seq + 1
<1>1. /\ id \in 1..MaxCommands /\ StagesIn(mem)[id] = "unused"
      /\ \A e \in 1..MaxCommands : e < id => StagesIn(mem)[e] # "unused"
  BY RInvFacts, NextIdIsNumbered DEF RequestStop
<1>2. StagesIn(mem') =
         [[i \in 1..MaxCommands |->
              IF StagesIn(mem)[i] = "start" THEN "canceled" ELSE StagesIn(mem)[i]]
          EXCEPT ![id] = "stop"]
  BY RInvFacts, StopRequestIsSeen DEF RequestStop
<1>3. UNCHANGED <<bridge, late, air, stopped>>
  BY DEF RequestStop
<1> HIDE DEF id
<1>4. Requests!Stop(id)
  BY <1>1, <1>2, <1>3, SeenAs
     DEF Requests!Stop, Requests!Numbered, Requests!StartsCanceled, InHand
<1> QED
  BY <1>1, <1>4 DEF id

\* A step that empties the queue.
LEMMA WipeStep ==
    ASSUME RInv, Wipes(mem, mem'), UNCHANGED <<bridge, late, air, stopped>>
    PROVE  Requests!Forget
<1>1. StagesIn(mem') =
         [id \in 1..MaxCommands |->
             IF StagesIn(mem)[id] = "unused" THEN "unused" ELSE "forgotten"]
  BY RInvFacts, WipeIsSeen
<1> QED
  BY <1>1, SeenAs DEF Requests!Forget, InHand

\* A step that takes something off the air, or drops a command or a report.
LEMMA LapseStep ==
    ASSUME RInv, mem' = mem, stopped' = stopped, air' \in {air, Nothing},
           bridge' \in {bridge, Idle}, late' \in {late, NoReport}
    PROVE  Requests!Lapse
<1>1. air'.id \in {air.id, 0} /\ late'.cmd.id \in {late.cmd.id, 0}
  BY IdleIsBridge
<1>2. bridge' = bridge \/ bridge'.pc = "idle"
  BY IdleIsBridge
<1> QED
  BY <1>1, <1>2, SeenAs DEF Requests!Lapse, InHand

\* Fetching takes up a command that waits.
LEMMA PollStep == ASSUME RInv, Poll PROVE Seen
<1> DEFINE c == NextHostCommand(mem)
<1>1. Sound(mem, Channels) /\ mem \in Stores(Channels) /\ mem.seq <= MaxCommands
  BY RInvFacts
<1>2. PICK k \in 1..Len(mem.commands) : c = mem.commands[k] /\ IsPending(c)
  BY <1>1, NextIsPending DEF Poll, Sound
<1> HIDE DEF c
<1>3. c \in Commands(Channels) /\ c.id \in Nat \ {0} /\ c.id <= mem.seq /\ mem.seq \in Nat
  BY <1>1, <1>2, StoreFields DEF Sound, Ordered
<1>4. c.id \in 1..MaxCommands
  BY <1>1, <1>3, BoundsAssumption
<1>5. StagesIn(mem)[c.id] \in {"start", "stop"}
  <2>1. StageIn(mem, c.id) = View(c)
    BY <1>1, <1>2, StageOfStored
  <2> QED
    BY <1>2, <1>4, <2>1 DEF StagesIn, View
<1>6. /\ bridge.pc = "idle" /\ bridge'.pc = "holding" /\ bridge'.cmd = c
      /\ UNCHANGED <<mem, late, air, stopped>>
  BY IdleIsBridge DEF Poll, c
<1>7. Requests!TakeUp(c.id)
  BY <1>5, <1>6, SeenAs DEF Requests!TakeUp, InHand
<1> QED
  BY <1>4, <1>7 DEF Seen, Requests!Next

\* A call of the helper.
LEMMA ExecuteStep == ASSUME RInv, Execute PROVE Seen
<1> DEFINE id == bridge.cmd.id
<1>1. /\ bridge \in Bridges /\ bridge.pc = "holding" /\ bridge # Idle
      /\ mem' = mem /\ late' = late /\ stopped \in Nat
      /\ OnAir <=> air.id # 0
      /\ bridge.cmd.action = "stop" <=> ~IsStart(bridge.cmd)
  BY RInvFacts, IdleIsBridge DEF Execute
<1>2. Known(bridge.cmd) /\ id \in 1..MaxCommands
  BY <1>1, CommandsAreKnown DEF Known
<1>3. ASSUME NEW ok, NEW pc, bridge' = [bridge EXCEPT !.pc = pc, !.ok = ok]
      PROVE  bridge'.pc = pc /\ bridge'.cmd = bridge.cmd
  BY <1>1, <1>3 DEF Bridges
<1>4. CASE IsStart(bridge.cmd) /\ (StartRefused \/ StartSucceeds)
  <2>1. /\ StagesIn(mem)[id] # "stop" /\ id > stopped
        /\ bridge'.pc \in {"reading", "reporting"} /\ bridge'.cmd = bridge.cmd
        /\ stopped' = stopped
        /\ \/ air.id = 0 /\ air'.id = id
           \/ air'.id = air.id
    <3>1. StagesIn(mem)[id] # "stop" /\ id > stopped
      BY <1>1, <1>2, <1>4, KnownStage DEF RInv, IInv, StartsAreYounger
    <3>2. bridge'.pc \in {"reading", "reporting"} /\ bridge'.cmd = bridge.cmd
      BY <1>3, <1>4 DEF StartRefused, StartSucceeds, Reporting
    <3> QED
      BY <1>1, <1>4, <3>1, <3>2 DEF StartRefused, StartSucceeds
  <2>2. Requests!CarryOutStart(id)
    BY <1>1, <2>1, SeenAs DEF Requests!CarryOutStart, InHand
  <2> QED
    BY <1>2, <2>2 DEF Seen, Requests!Next
<1>5. CASE ~IsStart(bridge.cmd) /\ (StopSucceeds \/ StopFails)
  <2>1. /\ StagesIn(mem)[id] \notin {"start", "canceled"} /\ id >= stopped
        /\ bridge'.pc = "reporting" /\ bridge'.cmd = bridge.cmd
        /\ \/ air'.id = 0 /\ stopped' = id
           \/ air'.id \in {air.id, 0} /\ stopped' = stopped
    <3>1. StagesIn(mem)[id] \notin {"start", "canceled"} /\ id >= stopped
      BY <1>1, <1>2, <1>5, KnownStage DEF RInv, StopsInTurn
    <3>2. bridge'.pc = "reporting" /\ bridge'.cmd = bridge.cmd
      BY <1>3, <1>5 DEF StopSucceeds, StopFails, Reporting
    <3> QED
      BY <1>5, <3>1, <3>2, IdleIsBridge DEF StopSucceeds, StopFails
  <2>2. Requests!CarryOutStop(id)
    BY <1>1, <2>1, SeenAs DEF Requests!CarryOutStop, InHand
  <2> QED
    BY <1>2, <2>2 DEF Seen, Requests!Next
<1> QED
  BY <1>4, <1>5 DEF Execute

\* A result that arrives: of a command that waits or was canceled, for the
\* second time, or of one that was wiped.
LEMMA ResultStep ==
    ASSUME RInv, NEW c, Known(c), NEW ok, ok \in BOOLEAN,
           mem' = CompleteHostCommand(mem, c.id, ok)
    PROVE  LET stages   == StagesIn(mem)
               canceled == [i \in 1..MaxCommands |->
                               IF stages[i] = "start" THEN "canceled" ELSE stages[i]]
           IN  \/ /\ stages[c.id] = "stop"
                  /\ StagesIn(mem') = [canceled EXCEPT ![c.id] = "completed"]
               \/ /\ stages[c.id] \in {"start", "canceled"}
                  /\ StagesIn(mem') = [stages EXCEPT ![c.id] = "completed"]
               \/ stages[c.id] = "completed" /\ StagesIn(mem') \in {stages, canceled}
               \/ stages[c.id] = "forgotten" /\ StagesIn(mem') = stages
<1> DEFINE id == c.id
           stages == StagesIn(mem)
           done == [stages EXCEPT ![id] = "completed"]
           Cancel(f) == [i \in 1..MaxCommands |-> IF f[i] = "start" THEN "canceled" ELSE f[i]]
<1>1. Sound(mem, Channels) /\ id \in 1..MaxCommands /\ stages = [i \in 1..MaxCommands |-> stages[i]]
  BY RInvFacts DEF Known, StagesIn
<1>2. c.action = "stop" <=> ~IsStart(c)
  BY HeldFields DEF Known, Held
<1>3. CASE IndicesOf(mem, id) = {}
  <2>1. mem' = mem
    BY <1>1, <1>3, ResultCompletes
  <2>2. stages[id] = "forgotten"
    BY <1>3, KnownStage
  <2> QED
    BY <2>1, <2>2
<1>4. ASSUME NEW i \in IndicesOf(mem, id)
      PROVE  StagesIn(mem') = IF c.action = "stop" THEN Cancel(done) ELSE done
  <2>1. /\ i \in 1..Len(mem.commands) /\ mem.commands[i].id = id
        /\ mem.commands[i].action = c.action
    BY <1>4 DEF IndicesOf, Known, SameCommand
  <2> DEFINE Result(n, k, action) ==
        LET d == [StagesIn(mem) EXCEPT ![k] = "completed"]
        IN  StagesIn(n) = IF action = "stop"
                            THEN [j \in 1..MaxCommands |->
                                     IF d[j] = "start" THEN "canceled" ELSE d[j]]
                            ELSE d
  <2>2. Result(CompleteHostCommand(mem, mem.commands[i].id, ok),
               mem.commands[i].id, mem.commands[i].action)
    <3>1. Sound(mem, Channels) /\ ok \in BOOLEAN /\ i \in 1..Len(mem.commands)
      BY <1>1, <2>1
    <3> HIDE DEF stages, done, Cancel
    <3> QED
      BY ONLY <3>1, ResultIsSeen DEF Result
  <2> HIDE DEF Result
  <2>3. Result(mem', id, c.action)
    BY <2>1, <2>2
  <2> QED
    BY <2>3 DEF Result
<1>5. stages[id] = "stop" => Cancel(done) = [Cancel(stages) EXCEPT ![id] = "completed"]
  BY <1>1
<1>6. stages[id] = "completed" => done = stages
  BY <1>1
<1>7. ASSUME NEW i \in IndicesOf(mem, id)
      PROVE  \/ /\ stages[id] = "stop"
                /\ StagesIn(mem') = [Cancel(stages) EXCEPT ![id] = "completed"]
             \/ stages[id] \in {"start", "canceled"} /\ StagesIn(mem') = done
             \/ stages[id] = "completed" /\ StagesIn(mem') \in {stages, Cancel(stages)}
  <2>1. /\ IsStart(c) => stages[id] \in {"start", "canceled", "completed"}
        /\ ~IsStart(c) => stages[id] \in {"stop", "completed"}
    BY <1>7, KnownStage
  <2>2. StagesIn(mem') = IF c.action = "stop" THEN Cancel(done) ELSE done
    BY <1>4, <1>7
  <2> HIDE DEF done, stages, Cancel
  <2> QED
    BY <1>2, <1>5, <1>6, <2>1, <2>2 DEF done
<1> QED
  BY <1>3, <1>7

\* The result the app waits for.
LEMMA ReportStep == ASSUME RInv, Report PROVE Seen
<1>1. /\ bridge.pc = "reporting" /\ bridge.ok \in BOOLEAN /\ Known(bridge.cmd)
      /\ bridge.cmd.id \in 1..MaxCommands
      /\ mem' = CompleteHostCommand(mem, bridge.cmd.id, bridge.ok)
      /\ bridge'.pc = "idle" /\ UNCHANGED <<late, air, stopped>>
  BY RInvFacts, CommandsAreKnown, BridgeFields, IdleIsBridge DEF Report, Known
<1>2. Requests!Answer(bridge.cmd.id)
  BY <1>1, ResultStep, SeenAs DEF Requests!Answer, Requests!StartsCanceled, InHand
<1> QED
  BY <1>1, <1>2 DEF Seen, Requests!Next

\* The result nobody waits for any more.
LEMMA LateReportStep == ASSUME RInv, LateReport PROVE Seen
<1>1. /\ late.ok \in BOOLEAN /\ Known(late.cmd) /\ late.cmd.id \in 1..MaxCommands
      /\ mem' = CompleteHostCommand(mem, late.cmd.id, late.ok)
      /\ late'.cmd.id = 0 /\ UNCHANGED <<bridge, air, stopped>>
  BY CommandsAreKnown, IdleIsBridge DEF LateReport, Known
<1>2. Requests!Answer(late.cmd.id)
  BY <1>1, ResultStep, SeenAs DEF Requests!Answer, Requests!StartsCanceled, InHand
<1> QED
  BY <1>1, <1>2 DEF Seen, Requests!Next

\* A result that is given up.
LEMMA GiveUpStep == ASSUME RInv, GiveUpReport PROVE Requests!GiveUp
<1>1. /\ bridge.pc = "reporting" /\ late.cmd.id = 0
      /\ late'.cmd = bridge.cmd /\ bridge'.pc = "idle"
      /\ UNCHANGED <<mem, air, stopped>>
  BY IdleIsBridge DEF GiveUpReport
<1> QED
  BY <1>1, SeenAs DEF Requests!GiveUp, InHand

-----------------------------------------------------------------------------
(* The refinement *)

\* At the start nothing was asked for.
LEMMA InitIsSeen == Init => Requests!Init /\ StopsInTurn
<1> SUFFICES ASSUME Init PROVE Requests!Init /\ StopsInTurn
  OBVIOUS
<1>1. Sound(NewMemory, Channels) /\ NewMemory.commands = <<>> /\ NewMemory.seq = 0
  BY NewMemoryIsSound
<1>2. mem.commands = <<>> /\ mem.seq = 0
  BY <1>1, SeedDemoWipes DEF Init, Wipes
<1>3. \A id \in 1..MaxCommands : StageIn(mem, id) = "unused"
  BY <1>2, StageOfOther
<1>4. bridge.pc = "idle" /\ air.id = 0 /\ late.cmd.id = 0 /\ stopped = 0
  BY IdleIsBridge DEF Init
<1> QED
  BY <1>2, <1>3, <1>4, BoundsAssumption DEF Requests!Init, StagesIn, StopsInTurn, InHand

\* Every step keeps the stops in turn and is a step of CaptureRequests.
LEMMA NextIsSeen == RInv /\ [Next]_vars => StopsInTurn' /\ Seen
<1> SUFFICES ASSUME RInv, [Next]_vars PROVE StopsInTurn' /\ Seen
  OBVIOUS
<1>1. /\ Sound(mem, Channels) /\ Grows(mem, mem) /\ mem.seq <= MaxCommands
  BY RInvFacts, UnchangedGrows
<1>2. /\ NoChannel \in Channels \cup {NoChannel}
      /\ "start" \in StartActions /\ "start-local" \in StartActions
  BY DEF StartActions
<1>3. CASE RequestStart
  <2>1. PICK channel \in Channels : mem' = RequestedStart(mem, "start", channel)
    BY <1>3 DEF RequestStart, StartCapture
  <2> QED
    BY <1>1, <1>2, <1>3, <2>1, StartRequestGrows, StartRequestIsSeen, GrowthKeepsTurns,
       StartRequestStep DEF RequestStart
<1>4. CASE RequestStartLocal
  <2>1. mem' = RequestedStart(mem, "start-local", NoChannel)
    BY <1>4 DEF RequestStartLocal, StartLocalCapture
  <2> QED
    BY <1>1, <1>2, <1>4, <2>1, StartRequestGrows, StartRequestIsSeen, GrowthKeepsTurns,
       StartRequestStep DEF RequestStartLocal
<1>5. CASE RequestStop
  <2>1. Sound(mem', Channels) /\ Grows(mem, mem') /\ mem'.seq <= MaxCommands
    BY <1>1, <1>5, StopRequestGrows, StopRequestIsSeen DEF RequestStop
  <2>2. StopsInTurn'
    BY <1>5, <2>1, GrowthKeepsTurns DEF RequestStop
  <2> QED
    BY <1>5, <2>2, StopRequestStep DEF Seen, Requests!Next
<1>6. ASSUME Wipes(mem, mem'), UNCHANGED <<bridge, late, air, stopped>>
      PROVE  StopsInTurn' /\ Seen
  <2>1. StopsInTurn'
    BY <1>6 DEF RInv, StopsInTurn, Wipes
  <2> QED
    BY <1>6, <2>1, WipeStep DEF Seen, Requests!Next
<1>7. CASE DemoSeed \/ DemoReset
  BY <1>1, <1>6, <1>7, SeedDemoWipes, ResetDemoWipes DEF DemoSeed, DemoReset
<1>8. CASE Tick
  <2>1. PICK due \in Channels \cup {NoChannel} : mem' = TickSchedules(mem, minute, due)
    BY <1>8 DEF Tick
  <2>2. minute \in Int
    BY DEF RInv, IInv, TypeOK
  <2> QED
    BY <1>1, <1>8, <2>1, <2>2, TickGrows, TickIsSeen, GrowthKeepsTurns, StartRequestStep
       DEF Tick
<1>9. ASSUME mem' = mem, stopped' = stopped, air' \in {air, Nothing},
             bridge' \in {bridge, Idle}, late' \in {late, NoReport}
      PROVE  StopsInTurn' /\ Seen
  <2>1. bridge' = bridge \/ bridge'.pc # "holding"
    BY <1>9, IdleIsBridge
  <2>2. StopsInTurn'
    BY <1>9, <2>1 DEF RInv, StopsInTurn
  <2> QED
    BY <1>9, <2>2, LapseStep DEF Seen, Requests!Next
<1>10. CASE \/ MinutePasses \/ ApiStops \/ LoseReport \/ AppRestarts
            \/ MenuStop \/ CaptureEnds \/ UNCHANGED vars
  BY <1>9, <1>10
     DEF MinutePasses, ApiStops, LoseReport, AppRestarts, MenuStop, CaptureEnds, vars
<1>11. CASE ApiBoots
  BY <1>1, <1>6, <1>9, <1>11, SeedDemoWipes DEF ApiBoots
<1>12. CASE Poll
  BY <1>12, PollStep, PollKeepsTurns
<1>13. ASSUME NEW ok, NEW pc \in {"reading", "reporting"}, bridge \in Bridges,
              bridge' = [bridge EXCEPT !.pc = pc, !.ok = ok]
       PROVE  bridge'.pc = pc /\ bridge'.cmd = bridge.cmd
  BY <1>13 DEF Bridges
<1>14. CASE Execute
  <2>1. StopsInTurn'
    <3>1. bridge \in Bridges /\ bridge.pc = "holding" /\ mem' = mem
      BY <1>14, RInvFacts DEF Execute
    <3>2. bridge'.pc # "holding"
      BY <1>13, <1>14, <3>1
         DEF Execute, StartRefused, StartSucceeds, StopSucceeds, StopFails, Reporting
    <3>3. bridge.cmd.action = "stop" <=> ~IsStart(bridge.cmd)
      BY RInvFacts
    <3> QED
      BY <1>14, <3>1, <3>2, <3>3, ExecutionKeepsTurns
         DEF Execute, StartRefused, StartSucceeds, StopSucceeds, StopFails
  <2> QED
    BY <1>14, <2>1, ExecuteStep
<1>15. CASE ReadToEnd
  <2>1. /\ bridge.pc = "reading" /\ bridge'.pc = "reporting" /\ bridge'.cmd = bridge.cmd
        /\ UNCHANGED <<mem, late, air, stopped>>
    BY <1>13, <1>15, RInvFacts DEF ReadToEnd, Reporting
  <2>2. UNCHANGED Requests!vars
    BY <2>1, SeenAs DEF InHand
  <2> QED
    BY <2>1, <2>2, ExecutionKeepsTurns DEF Seen
<1>16. CASE Report
  <2>1. /\ bridge.ok \in BOOLEAN /\ bridge'.pc = "idle" /\ stopped' = stopped
        /\ mem' = CompleteHostCommand(mem, bridge.cmd.id, bridge.ok)
    BY <1>16, RInvFacts, BridgeFields, IdleIsBridge DEF Report
  <2>2. StopsInTurn'
    BY <2>1, ResultKeepsTurns
  <2> QED
    BY <1>16, <2>2, ReportStep
<1>17. CASE LateReport
  <2>1. StopsInTurn'
    BY <1>17, CommandsAreKnown, ResultKeepsTurns DEF LateReport
  <2> QED
    BY <1>17, <2>1, LateReportStep
<1>18. CASE GiveUpReport
  <2>1. mem' = mem /\ stopped' = stopped /\ bridge'.pc # "holding"
    BY <1>18, IdleIsBridge DEF GiveUpReport
  <2> QED
    BY <1>18, <2>1, GiveUpStep, ExecutionKeepsTurns DEF Seen, Requests!Next
<1> QED
  BY <1>3, <1>4, <1>5, <1>7, <1>8, <1>10, <1>11, <1>12, <1>14, <1>15, <1>16, <1>17, <1>18
     DEF Next, Clients, Bridge

\* HostBridge implements CaptureRequests: whatever is wiped, lost, restarted
\* or asked for at the wrong moment, each command is numbered once, answered
\* once and not carried out after its answer, and stops are carried out in
\* order and never undone by what is older.
THEOREM BridgeImplementsRequests == Spec => KeepsRequests
<1>1. Init => Requests!Init
  BY InitIsSeen
<1>2. Spec => []RInv
  <2>1. Init => RInv
    BY InitEstablishes, InitIsSeen DEF RInv
  <2>2. RInv /\ [Next]_vars => RInv'
    BY NextPreserves, NextIsSeen DEF RInv
  <2> QED
    BY <2>1, <2>2, PTL DEF Spec
<1>3. RInv /\ [Next]_vars => [Requests!Next]_(Requests!vars)
  BY NextIsSeen DEF Seen
<1> QED
  BY <1>1, <1>2, <1>3, PTL DEF Spec, KeepsRequests, Requests!Spec
=============================================================================
