-------------------------- MODULE MemoryStoreProofs --------------------------
(***************************************************************************)
(* Lemmas about the operations of MemoryStore, for any set of channels and *)
(* queues of any length.  HostBridgeProofs and PostgresStoreProofs rest on *)
(* them.                                                                   *)
(***************************************************************************)
EXTENDS MemoryStore, TLAPS, SequenceTheorems, FiniteSetTheorems

\* Ids are drawn in the order of the queue, from the counter; a pending start
\* is younger than every stop, because a stop cancels the older ones.
Ordered(m) ==
    /\ \A i \in 1..Len(m.commands) : m.commands[i].id <= m.seq
    /\ \A i, j \in 1..Len(m.commands) : i < j => m.commands[i].id < m.commands[j].id
    /\ \A i, j \in 1..Len(m.commands) :
          (IsPending(m.commands[i]) /\ IsStart(m.commands[i]) /\ m.commands[j].action = "stop")
              => m.commands[j].id < m.commands[i].id

Sound(m, Channels) == m \in Stores(Channels) /\ Ordered(m)

SameCommand(c, d) == c.id = d.id /\ c.action = d.action /\ c.channel = d.channel

\* What a request or a tick may do to the queue: append pending commands with
\* new ids, and cancel pending starts if it leaves a pending stop.
Grows(m, n) ==
    /\ n.sessions = m.sessions /\ n.seq >= m.seq
    /\ Len(n.commands) >= Len(m.commands)
    /\ \A i \in 1..Len(m.commands) :
          /\ SameCommand(n.commands[i], m.commands[i])
          /\ \/ n.commands[i].status = m.commands[i].status
             \/ /\ IsPending(m.commands[i]) /\ IsStart(m.commands[i])
                /\ n.commands[i].status = "canceled"
                /\ \E j \in 1..Len(n.commands) :
                      IsPending(n.commands[j]) /\ n.commands[j].action = "stop"
    /\ \A i \in 1..Len(n.commands) :
          i > Len(m.commands) => n.commands[i].id > m.seq /\ IsPending(n.commands[i])

\* What a result may do: it completes the command of index i, and a stop
\* cancels the pending starts and closes the sessions.
Completed(m, n, i, exit0) ==
    /\ n.seq = m.seq /\ n.lastTick = m.lastTick /\ n.automation = m.automation
    /\ Len(n.commands) = Len(m.commands)
    /\ n.commands[i].status = "completed"
    /\ \A j \in 1..Len(m.commands) :
          /\ SameCommand(n.commands[j], m.commands[j])
          /\ j # i => \/ n.commands[j].status = m.commands[j].status
                      \/ /\ m.commands[i].action = "stop"
                         /\ IsStart(m.commands[j]) /\ IsPending(m.commands[j])
                         /\ n.commands[j].status = "canceled"
    /\ m.commands[i].action = "stop" => RunningIndices(n) = {}
    /\ IsStart(m.commands[i]) =>
          n.sessions = IF exit0 THEN Append(m.sessions, SessionOf(m.commands[i]))
                                ELSE m.sessions

\* What a seed or a reset of the demo data leaves.
Wipes(m, n) ==
    n.commands = <<>> /\ n.seq = m.seq /\ RunningIndices(n) = {}

-----------------------------------------------------------------------------

\* The loops of the store find the first match, if there is one.
LEMMA FirstIsLeast ==
    ASSUME NEW indices \in SUBSET Nat, indices # {}
    PROVE  FirstOf(indices) \in indices /\ \A j \in indices : FirstOf(indices) <= j
<1> DEFINE UpTo == { 0..i : i \in indices }
<1>1. UpTo \subseteq FiniteSubsetsOf(Nat)
  <2>1. ASSUME NEW i \in indices
        PROVE  0..i \in SUBSET Nat /\ IsFiniteSet(0..i)
    <3>1. 0 \in Int /\ i \in Int
      OBVIOUS
    <3>2. IsFiniteSet(0..i)
      BY <3>1, FS_Interval
    <3>3. 0..i \in SUBSET Nat
      OBVIOUS
    <3> QED
      BY <3>2, <3>3
  <2>2. ASSUME NEW i \in indices
        PROVE  0..i \in FiniteSubsetsOf(Nat)
    BY <2>1, Zenon DEF FiniteSubsetsOf
  <2> QED
    BY <2>2
<1>2. UpTo # {}
  OBVIOUS
<1>3. PICK least \in UpTo : \A T \in UpTo : ~(<<T, least>> \in StrictSubsetOrdering(Nat))
  BY <1>1, <1>2, FS_StrictSubsetOrderingWellFounded, WFMin
<1>4. PICK i \in indices : least = 0..i
  BY <1>3
<1>5. ASSUME NEW j \in indices, j < i
      PROVE  FALSE
  <2>1. 0..j \in UpTo /\ 0..j \subseteq 0..i /\ 0..j # 0..i
    BY <1>5
  <2>2. 0..j \in SUBSET Nat /\ 0..i \in SUBSET Nat
    OBVIOUS
  <2>3. <<0..j, 0..i>> \in StrictSubsetOrdering(Nat)
    BY <2>1, <2>2, Zenon DEF StrictSubsetOrdering
  <2> QED
    BY <1>3, <1>4, <2>1, <2>3
<1>6. \A j \in indices : i <= j
  BY <1>5
<1> QED
  BY <1>6 DEF FirstOf

\* The fields of a store, for the provers.
LEMMA StoreFields ==
    ASSUME NEW Channels, NEW m \in Stores(Channels)
    PROVE  /\ m = [commands |-> m.commands, sessions |-> m.sessions,
                   automation |-> m.automation, lastTick |-> m.lastTick, seq |-> m.seq]
           /\ m.commands \in Seq(Commands(Channels)) /\ m.sessions \in Seq(Sessions(Channels))
           /\ m.automation \in BOOLEAN /\ m.lastTick \in Int /\ m.seq \in Nat
           /\ Len(m.commands) \in Nat /\ Len(m.sessions) \in Nat
           /\ \A i \in 1..Len(m.commands) :
                 /\ m.commands[i] \in Commands(Channels)
                 /\ m.commands[i].id \in Nat \ {0}
                 /\ m.commands[i].action \in Actions
                 /\ m.commands[i].channel \in Channels \cup {NoChannel}
                 /\ m.commands[i].status \in Statuses
<1>1. /\ m.commands \in Seq(Commands(Channels)) /\ m.sessions \in Seq(Sessions(Channels))
      /\ m.automation \in BOOLEAN /\ m.lastTick \in Int /\ m.seq \in Nat
  BY DEF Stores
<1>2. m = [commands |-> m.commands, sessions |-> m.sessions,
           automation |-> m.automation, lastTick |-> m.lastTick, seq |-> m.seq]
  BY DEF Stores
<1>3. \A i \in 1..Len(m.commands) : m.commands[i] \in Commands(Channels)
  BY <1>1
<1>4. \A c \in Commands(Channels) :
         /\ c.id \in Nat \ {0} /\ c.action \in Actions
         /\ c.channel \in Channels \cup {NoChannel} /\ c.status \in Statuses
  BY DEF Commands
<1> QED
  BY <1>1, <1>2, <1>3, <1>4

\* A record with fields of the right types is a store.
LEMMA StoreOfFields ==
    ASSUME NEW Channels, NEW commands \in Seq(Commands(Channels)),
           NEW sessions \in Seq(Sessions(Channels)), NEW automation \in BOOLEAN,
           NEW lastTick \in Int, NEW seq \in Nat
    PROVE  [commands |-> commands, sessions |-> sessions, automation |-> automation,
            lastTick |-> lastTick, seq |-> seq] \in Stores(Channels)
BY DEF Stores

\* A record with fields of the right types is a command.
LEMMA CommandOfFields ==
    ASSUME NEW Channels, NEW id \in Nat \ {0}, NEW action \in Actions,
           NEW channel \in Channels \cup {NoChannel}, NEW status \in Statuses
    PROVE  [id |-> id, action |-> action, channel |-> channel, status |-> status]
             \in Commands(Channels)
BY DEF Commands

\* Setting the status of a command.
LEMMA CommandWithStatus ==
    ASSUME NEW Channels, NEW c \in Commands(Channels), NEW status \in Statuses
    PROVE  /\ [c EXCEPT !.status = status] \in Commands(Channels)
           /\ SameCommand([c EXCEPT !.status = status], c)
           /\ [c EXCEPT !.status = status].status = status
BY DEF Commands, SameCommand

\* Appending a command with the next id.  A stop is only appended when no
\* start is pending.
LEMMA EnqueueAppends ==
    ASSUME NEW Channels, NEW m, Sound(m, Channels),
           NEW action \in Actions, NEW channel \in Channels \cup {NoChannel},
           action = "stop" => PendingIndices(m, StartActions) = {}
    PROVE  LET n == Enqueue(m, action, channel)
           IN  /\ Sound(n, Channels)
               /\ Len(n.commands) = Len(m.commands) + 1
               /\ \A i \in 1..Len(m.commands) : n.commands[i] = m.commands[i]
               /\ n.commands[Len(n.commands)] =
                     [id |-> m.seq + 1, action |-> action, channel |-> channel,
                      status |-> "pending"]
               /\ n.seq = m.seq + 1 /\ n.sessions = m.sessions
               /\ n.automation = m.automation /\ n.lastTick = m.lastTick
<1> DEFINE c == [id |-> m.seq + 1, action |-> action, channel |-> channel,
                 status |-> "pending"]
           n == Enqueue(m, action, channel)
<1>1. m \in Stores(Channels)
  BY DEF Sound
<1>2. c \in Commands(Channels)
  <2>1. m.seq + 1 \in Nat \ {0} /\ "pending" \in Statuses
    BY <1>1, StoreFields DEF Statuses
  <2> QED
    BY <2>1, CommandOfFields
<1>3. n = [m EXCEPT !.seq = m.seq + 1, !.commands = Append(m.commands, c)]
  BY DEF Enqueue
<1>4. /\ n.commands = Append(m.commands, c) /\ n.seq = m.seq + 1
      /\ n.sessions = m.sessions /\ n.automation = m.automation /\ n.lastTick = m.lastTick
  BY <1>1, <1>3, StoreFields
<1>5. /\ Append(m.commands, c) \in Seq(Commands(Channels))
      /\ Len(Append(m.commands, c)) = Len(m.commands) + 1
      /\ \A i \in 1..Len(m.commands) : Append(m.commands, c)[i] = m.commands[i]
      /\ Append(m.commands, c)[Len(m.commands) + 1] = c
  BY <1>1, <1>2, StoreFields, AppendProperties
<1>6. n \in Stores(Channels)
  <2>1. n = [commands |-> Append(m.commands, c), sessions |-> m.sessions,
             automation |-> m.automation, lastTick |-> m.lastTick, seq |-> m.seq + 1]
    BY <1>1, <1>3, StoreFields
  <2>2. m.seq + 1 \in Nat
    BY <1>1, StoreFields
  <2> HIDE DEF n, c
  <2> QED
    BY <1>1, <1>5, <2>1, <2>2, StoreFields, StoreOfFields
<1>7. Ordered(n)
  <2> HIDE DEF n
  <2> USE DEF Sound, Ordered
  <2>0. \A i \in 1..Len(n.commands) :
           i \in 1..Len(m.commands) \/ i = Len(m.commands) + 1
    BY <1>1, <1>4, <1>5, StoreFields
  <2>1. \A i \in 1..Len(n.commands) : n.commands[i].id <= n.seq
    BY <1>1, <1>4, <1>5, <2>0, StoreFields
  <2>2. \A i, j \in 1..Len(n.commands) : i < j => n.commands[i].id < n.commands[j].id
    BY <1>1, <1>4, <1>5, <2>0, StoreFields
  <2>3. ASSUME NEW i \in 1..Len(n.commands), NEW j \in 1..Len(n.commands),
               IsPending(n.commands[i]), IsStart(n.commands[i]), n.commands[j].action = "stop"
        PROVE  n.commands[j].id < n.commands[i].id
    <3>1. CASE j = Len(m.commands) + 1
      <4>1. action = "stop" /\ i \in 1..Len(m.commands)
        BY <1>4, <1>5, <2>0, <2>3, <3>1 DEF IsStart, StartActions
      <4>2. i \in PendingIndices(m, StartActions)
        BY <1>4, <1>5, <2>3, <4>1 DEF PendingIndices, IsStart
      <4> QED
        BY <4>1, <4>2
    <3>2. CASE j \in 1..Len(m.commands)
      BY <1>1, <1>4, <1>5, <2>0, <2>3, <3>2, StoreFields
    <3> QED
      BY <2>0, <3>1, <3>2
  <2> QED
    BY <2>1, <2>2, <2>3
<1> QED
  BY <1>4, <1>5, <1>6, <1>7 DEF Sound

\* Canceling touches pending starts and nothing else, and leaves none.
LEMMA CancelLeavesNoPendingStart ==
    ASSUME NEW Channels, NEW m, Sound(m, Channels)
    PROVE  LET n == CancelPendingStarts(m)
           IN  /\ Sound(n, Channels)
               /\ Len(n.commands) = Len(m.commands)
               /\ \A i \in 1..Len(m.commands) :
                     /\ SameCommand(n.commands[i], m.commands[i])
                     /\ n.commands[i].status =
                           IF i \in PendingIndices(m, StartActions)
                             THEN "canceled" ELSE m.commands[i].status
               /\ PendingIndices(n, StartActions) = {}
               /\ n.seq = m.seq /\ n.sessions = m.sessions
               /\ n.automation = m.automation /\ n.lastTick = m.lastTick
<1> DEFINE n == CancelPendingStarts(m)
           Canceled(i) == IF i \in PendingIndices(m, StartActions)
                            THEN [m.commands[i] EXCEPT !.status = "canceled"]
                            ELSE m.commands[i]
           cs == [i \in 1..Len(m.commands) |-> Canceled(i)]
<1>1. m \in Stores(Channels)
  BY DEF Sound
<1>2. \A i \in 1..Len(m.commands) : Canceled(i) \in Commands(Channels)
  BY <1>1, StoreFields, CommandWithStatus DEF Statuses
<1>3. cs \in Seq(Commands(Channels)) /\ Len(cs) = Len(m.commands)
  BY <1>1, <1>2, StoreFields
<1>4. \A i \in 1..Len(m.commands) :
         /\ SameCommand(cs[i], m.commands[i])
         /\ cs[i].status = IF i \in PendingIndices(m, StartActions)
                             THEN "canceled" ELSE m.commands[i].status
  BY <1>1, StoreFields, CommandWithStatus DEF Statuses, SameCommand
<1>5. n = [m EXCEPT !.commands = cs]
  BY DEF CancelPendingStarts
<1>6. /\ n.commands = cs /\ n.seq = m.seq /\ n.sessions = m.sessions
      /\ n.automation = m.automation /\ n.lastTick = m.lastTick
  BY <1>1, <1>5, StoreFields
<1>7. n \in Stores(Channels)
  <2>1. n = [commands |-> cs, sessions |-> m.sessions,
             automation |-> m.automation, lastTick |-> m.lastTick, seq |-> m.seq]
    BY <1>1, <1>5, StoreFields
  <2> HIDE DEF n, cs
  <2> QED
    BY <1>1, <1>3, <2>1, StoreFields, StoreOfFields
<1> HIDE DEF n, cs
<1>8. \A i \in 1..Len(n.commands) :
         IsPending(n.commands[i]) => n.commands[i].action \notin StartActions
  BY <1>1, <1>3, <1>4, <1>6, StoreFields DEF PendingIndices, IsPending, SameCommand
<1>9. Ordered(n)
  BY <1>1, <1>3, <1>4, <1>6, <1>8, StoreFields DEF Sound, Ordered, SameCommand, IsStart
<1>10. PendingIndices(n, StartActions) = {}
  BY <1>8 DEF PendingIndices
<1> QED
  BY <1>3, <1>4, <1>6, <1>7, <1>9, <1>10 DEF Sound, n

-----------------------------------------------------------------------------
(* Requests, ticks and demo data *)

\* A request that finds a pending start, or a tick that finds nothing to do.
LEMMA UnchangedGrows ==
    ASSUME NEW Channels, NEW m, Sound(m, Channels)
    PROVE  Grows(m, m)
BY StoreFields DEF Sound, Grows, SameCommand

\* Queueing a start appends it and touches nothing else.
LEMMA EnqueueGrows ==
    ASSUME NEW Channels, NEW m, Sound(m, Channels),
           NEW action \in StartActions, NEW channel \in Channels \cup {NoChannel}
    PROVE  LET n == Enqueue(m, action, channel)
           IN  Sound(n, Channels) /\ Grows(m, n) /\ n.lastTick = m.lastTick
<1> DEFINE n == Enqueue(m, action, channel)
<1>1. action \in Actions /\ action # "stop"
  BY DEF Actions, StartActions
<1>2. /\ Sound(n, Channels)
      /\ Len(n.commands) = Len(m.commands) + 1
      /\ \A i \in 1..Len(m.commands) : n.commands[i] = m.commands[i]
      /\ n.commands[Len(n.commands)] =
            [id |-> m.seq + 1, action |-> action, channel |-> channel, status |-> "pending"]
      /\ n.seq = m.seq + 1 /\ n.sessions = m.sessions /\ n.lastTick = m.lastTick
  BY <1>1, EnqueueAppends
<1> HIDE DEF n
<1>3. \A i \in 1..Len(n.commands) : i > Len(m.commands) => i = Len(n.commands)
  BY <1>2, StoreFields DEF Sound
<1>4. Grows(m, n)
  BY <1>2, <1>3, StoreFields DEF Sound, Grows, SameCommand, IsPending
<1> QED
  BY <1>2, <1>4 DEF n

\* A start is appended, or the one that is pending is reused.
LEMMA StartRequestGrows ==
    ASSUME NEW Channels, NEW m, Sound(m, Channels),
           NEW action \in StartActions, NEW channel \in Channels \cup {NoChannel}
    PROVE  LET n == RequestedStart(m, action, channel)
           IN  Sound(n, Channels) /\ Grows(m, n) /\ n.lastTick = m.lastTick
BY EnqueueGrows, UnchangedGrows DEF RequestedStart

\* A stop is appended, and the pending starts it cancels are older than it.
LEMMA StopRequestGrows ==
    ASSUME NEW Channels, NEW m, Sound(m, Channels)
    PROVE  LET n == StopCapture(m)
           IN  Sound(n, Channels) /\ Grows(m, n) /\ n.lastTick = m.lastTick
<1> DEFINE k == CancelPendingStarts(m)
           n == StopCapture(m)
<1>1. /\ Sound(k, Channels)
      /\ Len(k.commands) = Len(m.commands)
      /\ \A i \in 1..Len(m.commands) :
            /\ SameCommand(k.commands[i], m.commands[i])
            /\ k.commands[i].status =
                  IF i \in PendingIndices(m, StartActions)
                    THEN "canceled" ELSE m.commands[i].status
      /\ PendingIndices(k, StartActions) = {}
      /\ k.seq = m.seq /\ k.sessions = m.sessions /\ k.lastTick = m.lastTick
  BY CancelLeavesNoPendingStart
<1>2. "stop" \in Actions /\ NoChannel \in Channels \cup {NoChannel}
  BY DEF Actions
<1> HIDE DEF k
<1>3. n = Enqueue(k, "stop", NoChannel)
  BY DEF StopCapture, k
<1>4. /\ Sound(n, Channels)
      /\ Len(n.commands) = Len(k.commands) + 1
      /\ \A i \in 1..Len(k.commands) : n.commands[i] = k.commands[i]
      /\ n.commands[Len(n.commands)] =
            [id |-> k.seq + 1, action |-> "stop", channel |-> NoChannel, status |-> "pending"]
      /\ n.seq = k.seq + 1 /\ n.sessions = k.sessions /\ n.lastTick = k.lastTick
  BY <1>1, <1>2, <1>3, EnqueueAppends
<1> HIDE DEF n
<1>5. \A i \in 1..Len(n.commands) : i > Len(m.commands) => i = Len(n.commands)
  BY <1>1, <1>4, StoreFields DEF Sound
<1>6. /\ Len(n.commands) \in 1..Len(n.commands)
      /\ IsPending(n.commands[Len(n.commands)])
      /\ n.commands[Len(n.commands)].action = "stop"
  BY <1>1, <1>4, StoreFields DEF Sound, IsPending
<1>7. \A i \in 1..Len(m.commands) :
         \/ n.commands[i].status = m.commands[i].status
         \/ /\ IsPending(m.commands[i]) /\ IsStart(m.commands[i])
            /\ n.commands[i].status = "canceled"
  BY <1>1, <1>4 DEF PendingIndices, IsStart
<1>8. /\ n.sessions = m.sessions /\ n.seq >= m.seq
      /\ Len(n.commands) >= Len(m.commands)
      /\ \A i \in 1..Len(m.commands) : SameCommand(n.commands[i], m.commands[i])
      /\ \A i \in 1..Len(n.commands) :
            i > Len(m.commands) => n.commands[i].id > m.seq /\ IsPending(n.commands[i])
  BY <1>1, <1>4, <1>5, <1>6, StoreFields DEF Sound
<1>9. Grows(m, n)
  BY <1>6, <1>7, <1>8 DEF Grows
<1> QED
  BY <1>1, <1>4, <1>9 DEF n

\* Noting the minute of a tick touches nothing else.
LEMMA TickedIsSound ==
    ASSUME NEW Channels, NEW m, Sound(m, Channels), NEW now \in Int
    PROVE  LET ticked == [m EXCEPT !.lastTick = now]
           IN  /\ Sound(ticked, Channels)
               /\ ticked.commands = m.commands /\ ticked.sessions = m.sessions
               /\ ticked.seq = m.seq /\ ticked.automation = m.automation
               /\ ticked.lastTick = now
<1> DEFINE ticked == [m EXCEPT !.lastTick = now]
<1>1. m \in Stores(Channels)
  BY DEF Sound
<1>2. /\ ticked.commands = m.commands /\ ticked.sessions = m.sessions
      /\ ticked.seq = m.seq /\ ticked.automation = m.automation /\ ticked.lastTick = now
      /\ ticked = [commands |-> m.commands, sessions |-> m.sessions,
                   automation |-> m.automation, lastTick |-> now, seq |-> m.seq]
  BY <1>1, StoreFields
<1> HIDE DEF ticked
<1>3. ticked \in Stores(Channels)
  BY <1>1, <1>2, StoreFields, StoreOfFields
<1>4. Ordered(ticked)
  BY <1>2 DEF Sound, Ordered
<1> QED
  BY <1>2, <1>3, <1>4 DEF ticked, Sound

\* A tick queues a start only in a minute that is not the last tick's.
LEMMA TickGrows ==
    ASSUME NEW Channels, NEW m, Sound(m, Channels),
           NEW now \in Int, NEW due \in Channels \cup {NoChannel}
    PROVE  LET n == TickSchedules(m, now, due)
           IN  /\ Sound(n, Channels) /\ Grows(m, n)
               /\ n.lastTick \in {m.lastTick, now}
               /\ n.commands # m.commands => m.lastTick # now /\ n.lastTick = now
               /\ n.commands = m.commands =>
                     n.seq = m.seq /\ n.automation = m.automation
<1> DEFINE ticked == [m EXCEPT !.lastTick = now]
           n == TickSchedules(m, now, due)
<1>1. m \in Stores(Channels)
  BY DEF Sound
<1>2. /\ Sound(ticked, Channels)
      /\ ticked.commands = m.commands /\ ticked.sessions = m.sessions
      /\ ticked.seq = m.seq /\ ticked.automation = m.automation /\ ticked.lastTick = now
  BY TickedIsSound
<1> HIDE DEF ticked
<1>3. Sound(ticked, Channels)
  BY <1>2
<1>4. \A k : Grows(ticked, k) => Grows(m, k)
  BY <1>2 DEF Grows
<1>5. CASE n = m
  BY <1>5, UnchangedGrows
<1>6. CASE n = ticked /\ m.lastTick # now
  BY <1>2, <1>3, <1>4, <1>6, UnchangedGrows
<1>7. CASE n = Enqueue(ticked, "start", due) /\ m.lastTick # now
  <2>1. "start" \in StartActions /\ "start" \in Actions /\ "start" # "stop"
    BY DEF StartActions, Actions
  <2>2. Sound(n, Channels) /\ Grows(ticked, n)
    BY <1>3, <1>7, <2>1, EnqueueGrows
  <2>3. n.lastTick = now /\ Len(n.commands) = Len(m.commands) + 1
    <3> DEFINE k == Enqueue(ticked, "start", due)
    <3>1. /\ Len(k.commands) = Len(ticked.commands) + 1
          /\ k.lastTick = ticked.lastTick
      BY <1>3, <2>1, EnqueueAppends
    <3> HIDE DEF k
    <3>2. n = k
      BY <1>7 DEF k
    <3> HIDE DEF n
    <3> QED
      BY <1>2, <3>1, <3>2
  <2>4. n.commands # m.commands
    BY <1>1, <2>3, StoreFields
  <2> QED
    BY <1>4, <1>7, <2>2, <2>3, <2>4
<1>8. n = m \/ (n = ticked /\ m.lastTick # now)
            \/ (n = Enqueue(ticked, "start", due) /\ m.lastTick # now)
  BY DEF TickSchedules, ticked
<1> QED
  BY <1>5, <1>6, <1>7, <1>8

\* A command that is not newer than the counter was in the queue before.
LEMMA OldIsKept ==
    ASSUME NEW Channels, NEW m \in Stores(Channels), NEW n \in Stores(Channels),
           Grows(m, n),
           NEW i \in 1..Len(n.commands), n.commands[i].id <= m.seq
    PROVE  i \in 1..Len(m.commands)
<1>1. n.commands[i].id \in Nat /\ m.seq \in Nat /\ Len(m.commands) \in Nat
  BY StoreFields
<1>2. ~(i > Len(m.commands))
  BY <1>1 DEF Grows
<1> QED
  BY <1>1, <1>2

\* The empty store, and what a seed or a reset leaves of another one.
LEMMA NewMemoryIsSound ==
    ASSUME NEW Channels
    PROVE  /\ Sound(NewMemory, Channels)
           /\ NewMemory.commands = <<>> /\ NewMemory.sessions = <<>>
           /\ NewMemory.seq = 0 /\ NewMemory.lastTick = NeverTicked
<1>1. /\ <<>> \in Seq(Commands(Channels)) /\ <<>> \in Seq(Sessions(Channels))
      /\ NeverTicked \in Int /\ 0 \in Nat
  BY DEF NeverTicked
<1>2. NewMemory \in Stores(Channels)
  BY <1>1, StoreOfFields DEF NewMemory
<1>3. Ordered(NewMemory)
  BY DEF NewMemory, Ordered
<1> QED
  BY <1>2, <1>3 DEF Sound, NewMemory

\* Seeding the demo data empties the queue; the ids go on, and so does the tick.
LEMMA SeedDemoWipes ==
    ASSUME NEW Channels, NEW m, Sound(m, Channels)
    PROVE  /\ Sound(SeedDemo(m), Channels) /\ Wipes(m, SeedDemo(m))
           /\ SeedDemo(m).lastTick = m.lastTick
<1> DEFINE n == SeedDemo(m)
           none == <<>>
           demo == <<DemoSession>>
<1>1. m \in Stores(Channels)
  BY DEF Sound
<1>2. DemoSession \in Sessions(Channels)
  BY DEF DemoSession, Sessions
<1>3. none \in Seq(Commands(Channels)) /\ demo \in Seq(Sessions(Channels))
  BY <1>2
<1> HIDE DEF none, demo
<1>4. n = [m EXCEPT !.commands = none, !.sessions = demo, !.automation = TRUE]
  BY DEF SeedDemo, none, demo
<1> HIDE DEF n
<1>5. /\ n.commands = none /\ n.sessions = demo
      /\ n.seq = m.seq /\ n.lastTick = m.lastTick
  BY <1>1, <1>3, <1>4, StoreFields
<1>6. n \in Stores(Channels)
  BY <1>1, <1>3, <1>4 DEF Stores
<1>7. Ordered(n)
  BY <1>5 DEF Ordered, none
<1>8. RunningIndices(n) = {}
  BY <1>5 DEF RunningIndices, IsRunning, DemoSession, demo
<1> QED
  BY <1>5, <1>6, <1>7, <1>8 DEF n, Sound, Wipes, none

\* Resetting the demo data empties queue and sessions and keeps the ids.
LEMMA ResetDemoWipes ==
    ASSUME NEW Channels, NEW m, Sound(m, Channels)
    PROVE  /\ Sound(ResetDemo(m), Channels) /\ Wipes(m, ResetDemo(m))
           /\ ResetDemo(m).lastTick = m.lastTick
<1> DEFINE n == ResetDemo(m)
           none == <<>>
<1>1. m \in Stores(Channels)
  BY DEF Sound
<1>2. none \in Seq(Commands(Channels)) /\ none \in Seq(Sessions(Channels))
  OBVIOUS
<1> HIDE DEF none
<1>3. n = [m EXCEPT !.commands = none, !.sessions = none]
  BY DEF ResetDemo, none
<1> HIDE DEF n
<1>4. /\ n.commands = none /\ n.sessions = none
      /\ n.seq = m.seq /\ n.lastTick = m.lastTick
  BY <1>1, <1>2, <1>3, StoreFields
<1>5. n \in Stores(Channels)
  BY <1>1, <1>2, <1>3 DEF Stores
<1>6. Ordered(n)
  BY <1>4 DEF Ordered, none
<1>7. RunningIndices(n) = {}
  BY <1>4 DEF RunningIndices, none
<1> QED
  BY <1>4, <1>5, <1>6, <1>7 DEF n, Sound, Wipes, none

-----------------------------------------------------------------------------
(* Results *)

\* Ids are unique, and the search for one finds it.
LEMMA FirstOfId ==
    ASSUME NEW Channels, NEW m, Sound(m, Channels),
           NEW i \in 1..Len(m.commands)
    PROVE  IndicesOf(m, m.commands[i].id) = {i} /\ FirstOf({i}) = i
<1>1. ASSUME NEW j \in 1..Len(m.commands), m.commands[j].id = m.commands[i].id
      PROVE  i = j
  <2>1. m.commands[i].id \in Nat /\ ~(m.commands[i].id < m.commands[i].id)
    BY StoreFields DEF Sound
  <2>2. ~(i < j) /\ ~(j < i)
    BY <1>1, <2>1 DEF Sound, Ordered
  <2> QED
    BY <2>2
<1>2. IndicesOf(m, m.commands[i].id) = {i}
  BY <1>1 DEF IndicesOf
<1>3. {i} \in SUBSET Nat
  OBVIOUS
<1>4. FirstOf({i}) \in {i}
  BY <1>3, FirstIsLeast
<1> QED
  BY <1>2, <1>4

\* The menu app is given a pending command of the queue, unless there is none.
LEMMA NextIsPending ==
    ASSUME NEW Channels, NEW m, Sound(m, Channels), NextIndices(m) # {}
    PROVE  \E i \in 1..Len(m.commands) :
              NextHostCommand(m) = m.commands[i] /\ IsPending(m.commands[i])
<1>1. NextIndices(m) \subseteq { i \in 1..Len(m.commands) : IsPending(m.commands[i]) }
  BY DEF NextIndices, PendingIndices
<1>2. NextIndices(m) \in SUBSET Nat
  BY <1>1
<1>3. FirstOf(NextIndices(m)) \in NextIndices(m)
  BY <1>2, FirstIsLeast
<1> QED
  BY <1>1, <1>3 DEF NextHostCommand

\* A result completes its command and touches no other.
LEMMA MarkCompletes ==
    ASSUME NEW Channels, NEW m, Sound(m, Channels), NEW i \in 1..Len(m.commands)
    PROVE  LET n == MarkCompleted(m, i)
           IN  /\ Sound(n, Channels)
               /\ Len(n.commands) = Len(m.commands)
               /\ \A j \in 1..Len(m.commands) :
                     /\ SameCommand(n.commands[j], m.commands[j])
                     /\ n.commands[j].status =
                           IF j = i THEN "completed" ELSE m.commands[j].status
               /\ n.seq = m.seq /\ n.sessions = m.sessions
               /\ n.automation = m.automation /\ n.lastTick = m.lastTick
<1> DEFINE n == MarkCompleted(m, i)
           c == [m.commands[i] EXCEPT !.status = "completed"]
           cs == [m.commands EXCEPT ![i] = c]
<1>1. m \in Stores(Channels)
  BY DEF Sound
<1>2. /\ c \in Commands(Channels) /\ SameCommand(c, m.commands[i])
      /\ c.status = "completed"
  <2>1. m.commands[i] \in Commands(Channels) /\ "completed" \in Statuses
    BY <1>1, StoreFields DEF Statuses
  <2> QED
    BY <2>1, CommandWithStatus
<1> HIDE DEF c
<1>3. cs \in Seq(Commands(Channels)) /\ Len(cs) = Len(m.commands)
  BY <1>1, <1>2, StoreFields
<1>4. \A j \in 1..Len(m.commands) : cs[j] = IF j = i THEN c ELSE m.commands[j]
  BY <1>1, <1>2, StoreFields
<1>5. \A j \in 1..Len(m.commands) :
         /\ SameCommand(cs[j], m.commands[j])
         /\ cs[j].status = IF j = i THEN "completed" ELSE m.commands[j].status
  BY <1>2, <1>4 DEF SameCommand
<1>6. n = [m EXCEPT !.commands = cs]
  BY DEF MarkCompleted, c
<1> HIDE DEF cs, n
<1>7. /\ n.commands = cs /\ n.seq = m.seq /\ n.sessions = m.sessions
      /\ n.automation = m.automation /\ n.lastTick = m.lastTick
  BY <1>1, <1>3, <1>6, StoreFields
<1>8. n \in Stores(Channels)
  BY <1>1, <1>3, <1>6 DEF Stores
<1>9. \A j \in 1..Len(n.commands) : IsPending(n.commands[j]) => IsPending(m.commands[j])
  BY <1>3, <1>5, <1>7 DEF IsPending
<1>10. Ordered(n)
  BY <1>1, <1>3, <1>5, <1>7, <1>9, StoreFields DEF Sound, Ordered, SameCommand, IsStart
<1> QED
  BY <1>3, <1>5, <1>7, <1>8, <1>10 DEF Sound, n

\* A completed stop leaves no session running.
LEMMA CloseClosesAll ==
    ASSUME NEW Channels, NEW m, Sound(m, Channels)
    PROVE  LET n == CloseSessions(m)
           IN  /\ Sound(n, Channels) /\ n.commands = m.commands /\ n.seq = m.seq
               /\ n.automation = m.automation /\ n.lastTick = m.lastTick
               /\ RunningIndices(n) = {}
<1> DEFINE n == CloseSessions(m)
           Closed(i) == [m.sessions[i] EXCEPT !.status = "completed"]
           ss == [i \in 1..Len(m.sessions) |-> Closed(i)]
<1>1. m \in Stores(Channels)
  BY DEF Sound
<1>2. \A s \in Sessions(Channels) :
         /\ [s EXCEPT !.status = "completed"] \in Sessions(Channels)
         /\ [s EXCEPT !.status = "completed"].status = "completed"
  BY DEF Sessions
<1>3. \A i \in 1..Len(m.sessions) :
         Closed(i) \in Sessions(Channels) /\ Closed(i).status = "completed"
  BY <1>1, <1>2, StoreFields
<1>4. \A i \in 1..Len(m.sessions) : ss[i] \in Sessions(Channels) /\ ss[i].status = "completed"
  BY <1>3
<1>5. n = [m EXCEPT !.sessions = ss]
  BY DEF CloseSessions
<1>6. ss \in Seq(Sessions(Channels)) /\ Len(ss) = Len(m.sessions)
  BY <1>1, <1>3, StoreFields
<1> HIDE DEF ss, n
<1>7. /\ n.sessions = ss /\ n.commands = m.commands /\ n.seq = m.seq
      /\ n.automation = m.automation /\ n.lastTick = m.lastTick
  BY <1>1, <1>5, <1>6, StoreFields
<1>8. n \in Stores(Channels)
  BY <1>1, <1>5, <1>6 DEF Stores
<1>9. Ordered(n)
  BY <1>7 DEF Sound, Ordered
<1>10. RunningIndices(n) = {}
  BY <1>4, <1>6, <1>7 DEF RunningIndices, IsRunning
<1> QED
  BY <1>7, <1>8, <1>9, <1>10 DEF Sound, n

\* A started capture appends its session.
LEMMA OpeningASession ==
    ASSUME NEW Channels, NEW m, Sound(m, Channels), NEW s \in Sessions(Channels)
    PROVE  LET n == [m EXCEPT !.sessions = Append(m.sessions, s)]
           IN  /\ Sound(n, Channels) /\ n.commands = m.commands /\ n.seq = m.seq
               /\ n.automation = m.automation /\ n.lastTick = m.lastTick
               /\ n.sessions = Append(m.sessions, s)
<1> DEFINE ss == Append(m.sessions, s)
           n == [m EXCEPT !.sessions = ss]
<1>1. m \in Stores(Channels)
  BY DEF Sound
<1>2. ss \in Seq(Sessions(Channels))
  BY <1>1, StoreFields, AppendProperties
<1> HIDE DEF ss
<1>3. /\ n.sessions = ss /\ n.commands = m.commands /\ n.seq = m.seq
      /\ n.automation = m.automation /\ n.lastTick = m.lastTick
  BY <1>1, <1>2, StoreFields
<1>4. n \in Stores(Channels)
  BY <1>1, <1>2 DEF Stores
<1>5. Ordered(n)
  BY <1>3 DEF Sound, Ordered
<1> QED
  BY <1>3, <1>4, <1>5 DEF Sound, ss

\* The session of a command is a running one.
LEMMA SessionOfCommand ==
    ASSUME NEW Channels, NEW c \in Commands(Channels)
    PROVE  SessionOf(c) \in Sessions(Channels) /\ IsRunning(SessionOf(c))
BY DEF Commands, Sessions, SessionOf, IsRunning

\* A result for an unknown id changes nothing, any other completes its command.
LEMMA ResultCompletes ==
    ASSUME NEW Channels, NEW m, Sound(m, Channels), NEW id, NEW exit0 \in BOOLEAN
    PROVE  LET n == CompleteHostCommand(m, id, exit0)
           IN  /\ Sound(n, Channels)
               /\ IndicesOf(m, id) = {} => n = m
               /\ \A i \in IndicesOf(m, id) : Completed(m, n, i, exit0)
<1> DEFINE n == CompleteHostCommand(m, id, exit0)
<1>1. CASE IndicesOf(m, id) = {}
  BY <1>1 DEF CompleteHostCommand
<1>2. CASE IndicesOf(m, id) # {}
  <2>1. PICK i \in 1..Len(m.commands) : m.commands[i].id = id
    BY <1>2 DEF IndicesOf
  <2>2. IndicesOf(m, id) = {i} /\ FirstOf(IndicesOf(m, id)) = i
    BY <2>1, FirstOfId
  <2> DEFINE c == m.commands[i]
             k == MarkCompleted(m, i)
             x == CancelPendingStarts(k)
  <2>3. n = IF c.action = "stop" THEN CloseSessions(x)
            ELSE IF exit0 THEN [k EXCEPT !.sessions = Append(k.sessions, SessionOf(c))]
            ELSE k
    BY <2>2 DEF CompleteHostCommand
  <2>4. /\ Sound(k, Channels)
        /\ Len(k.commands) = Len(m.commands)
        /\ \A j \in 1..Len(m.commands) :
              /\ SameCommand(k.commands[j], m.commands[j])
              /\ k.commands[j].status = IF j = i THEN "completed" ELSE m.commands[j].status
        /\ k.seq = m.seq /\ k.sessions = m.sessions
        /\ k.automation = m.automation /\ k.lastTick = m.lastTick
    BY MarkCompletes
  <2> HIDE DEF k, n
  <2>5. c \in Commands(Channels) /\ c.action \in Actions
    BY StoreFields DEF Sound
  <2>6. CASE c.action = "stop"
    <3>1. /\ Sound(x, Channels)
          /\ Len(x.commands) = Len(k.commands)
          /\ \A j \in 1..Len(k.commands) :
                /\ SameCommand(x.commands[j], k.commands[j])
                /\ x.commands[j].status = IF j \in PendingIndices(k, StartActions)
                                            THEN "canceled" ELSE k.commands[j].status
          /\ x.seq = k.seq /\ x.automation = k.automation /\ x.lastTick = k.lastTick
      BY <2>4, CancelLeavesNoPendingStart
    <3> HIDE DEF x
    <3>2. n = CloseSessions(x)
      BY <2>3, <2>6
    <3>3. /\ Sound(n, Channels) /\ n.commands = x.commands /\ n.seq = x.seq
          /\ n.automation = x.automation /\ n.lastTick = x.lastTick
          /\ RunningIndices(n) = {}
      BY <3>1, <3>2, CloseClosesAll
    <3>4. i \notin PendingIndices(k, StartActions)
      BY <2>4 DEF PendingIndices, IsPending
    <3>5. \A j \in 1..Len(m.commands) :
             /\ SameCommand(n.commands[j], m.commands[j])
             /\ j # i => \/ n.commands[j].status = m.commands[j].status
                         \/ /\ IsStart(m.commands[j]) /\ IsPending(m.commands[j])
                            /\ n.commands[j].status = "canceled"
      BY <2>4, <3>1, <3>3 DEF PendingIndices, SameCommand, IsPending, IsStart
    <3>6. n.commands[i].status = "completed"
      BY <2>4, <3>1, <3>3, <3>4
    <3>7. ~IsStart(c)
      BY <2>6 DEF IsStart, StartActions
    <3>8. Completed(m, n, i, exit0)
      BY <2>4, <2>6, <3>1, <3>3, <3>5, <3>6, <3>7 DEF Completed
    <3> QED
      BY <1>2, <2>2, <3>3, <3>8 DEF n
  <2>7. CASE c.action # "stop"
    <3>1. SessionOf(c) \in Sessions(Channels)
      BY <2>5, SessionOfCommand
    <3>2. CASE exit0
      <4>1. n = [k EXCEPT !.sessions = Append(k.sessions, SessionOf(c))]
        BY <2>3, <2>7, <3>2
      <4>2. /\ Sound(n, Channels) /\ n.commands = k.commands /\ n.seq = k.seq
            /\ n.automation = k.automation /\ n.lastTick = k.lastTick
            /\ n.sessions = Append(k.sessions, SessionOf(c))
        BY <2>4, <3>1, <4>1, OpeningASession
      <4>3. Completed(m, n, i, exit0)
        BY <2>4, <2>7, <3>2, <4>2 DEF Completed
      <4> QED
        BY <1>2, <2>2, <4>2, <4>3 DEF n
    <3>3. CASE ~exit0
      <4>1. n = k
        BY <2>3, <2>7, <3>3
      <4>2. Completed(m, n, i, exit0)
        BY <2>4, <2>7, <3>3, <4>1 DEF Completed
      <4> QED
        BY <1>2, <2>2, <2>4, <4>1, <4>2 DEF n
    <3> QED
      BY <3>2, <3>3
  <2> QED
    BY <2>6, <2>7
<1> QED
  BY <1>1, <1>2
=============================================================================
