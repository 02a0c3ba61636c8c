--------------------------- MODULE SchedulerProofs ---------------------------
(***************************************************************************)
(* Proofs about Scheduler, for every calendar, every set of candidate      *)
(* windows and every bound.  The safety invariants follow from one         *)
(* inductive invariant: the types, soundness of the accepted windows, the  *)
(* pairwise disjointness ValidateSchedule establishes, and the order of    *)
(* the queued starts that the lastScheduleTick key establishes.            *)
(***************************************************************************)
EXTENDS Scheduler, TLAPS

\* Every accepted window lasts at least a minute.
AcceptedAreSound ==
    \A i \in 1..Len(schedules) : schedules[i].duration \in 1..MaxDuration

\* Every queued start was due at its minute.
QueuedWereDue ==
    \A i \in 1..Len(queued) :
        /\ Due(queued[i].window, queued[i].at)
        /\ queued[i].window.duration \in 1..MaxDuration

\* The history is strictly ordered by pass of the clock and by minute; once
\* this pass has a start, the last tick was in this pass, at it or after it.
QueuedInOrder ==
    /\ \A i \in 1..Len(queued) :
          /\ queued[i].pass <= stepsBack
          /\ queued[i].pass = stepsBack =>
                /\ queued[i].at <= lastTick
                /\ lastTick <= now
    /\ \A i, j \in 1..Len(queued) :
          i < j => /\ queued[i].pass <= queued[j].pass
                   /\ queued[i].pass = queued[j].pass => queued[i].at < queued[j].at

IInv ==
    /\ TypeOK
    /\ AcceptedAreSound
    /\ NoSameDayOverlap
    /\ QueuedWereDue
    /\ QueuedInOrder

-----------------------------------------------------------------------------

\* The bounds windowsOverlap compares decide exactly whether two windows of
\* positive length share a minute of a day.
LEMMA OverlapIsSharedMinute ==
    ASSUME NEW a \in Window, NEW b \in Window, a.duration >= 1, b.duration >= 1
    PROVE  ~WindowsOverlap(a, b) <=>
             \/ a.days \cap b.days = {}
             \/ Covered(a) \cap Covered(b) = {}
<1> DEFINE Latest == IF a.start < b.start THEN b.start ELSE a.start
<1>1. /\ a.start \in Int /\ a.duration \in Int
      /\ b.start \in Int /\ b.duration \in Int
  BY DEF Window
<1>2. ASSUME a.start < b.start + b.duration, b.start < a.start + a.duration
      PROVE  Latest \in Covered(a) \cap Covered(b)
  BY <1>1, <1>2 DEF Covered
<1>3. ASSUME NEW m \in Covered(a) \cap Covered(b)
      PROVE  /\ a.start < b.start + b.duration
             /\ b.start < a.start + a.duration
  BY <1>1 DEF Covered
<1> QED
  BY <1>2, <1>3 DEF WindowsOverlap

\* Acceptance keeps the list disjoint, in whatever order windows arrive.
LEMMA AcceptKeepsDisjoint ==
    ASSUME IInv, NEW w \in Window, ValidateSchedule(w, schedules),
           schedules' = Append(schedules, w)
    PROVE  AcceptedAreSound' /\ NoSameDayOverlap'
<1>1. schedules \in Seq(Window) /\ AcceptedAreSound /\ NoSameDayOverlap
  BY DEF IInv, TypeOK
<1>2. /\ Len(schedules') = Len(schedules) + 1
      /\ schedules'[Len(schedules) + 1] = w
      /\ \A i \in 1..Len(schedules) : schedules'[i] = schedules[i]
  BY <1>1
<1>3. Len(schedules) \in Nat
  BY <1>1
<1>4. /\ w.duration \in 1..MaxDuration
      /\ \A i \in 1..Len(schedules) : ~WindowsOverlap(w, schedules[i])
  BY DEF ValidateSchedule
<1>5. \A i \in 1..Len(schedules) : schedules[i].duration >= 1
  BY <1>1, CalendarAssumption DEF AcceptedAreSound
<1>6. \A i \in 1..Len(schedules) : schedules[i] \in Window
  BY <1>1
<1>7. ASSUME NEW i \in 1..Len(schedules)
      PROVE  \/ w.days \cap schedules[i].days = {}
             \/ Covered(w) \cap Covered(schedules[i]) = {}
  <2>1. w.duration >= 1 /\ schedules[i].duration >= 1
    BY <1>4, <1>5, CalendarAssumption
  <2> QED
    BY <2>1, <1>4, <1>6, OverlapIsSharedMinute
<1>8. AcceptedAreSound'
  BY <1>1, <1>2, <1>3, <1>4 DEF AcceptedAreSound
<1>9. NoSameDayOverlap'
  <2> SUFFICES ASSUME NEW i \in 1..Len(schedules'), NEW j \in 1..Len(schedules'), i # j
               PROVE  \/ schedules'[i].days \cap schedules'[j].days = {}
                      \/ Covered(schedules'[i]) \cap Covered(schedules'[j]) = {}
    BY DEF NoSameDayOverlap, Covered
  <2>1. CASE i \in 1..Len(schedules) /\ j \in 1..Len(schedules)
    BY <2>1, <1>1, <1>2 DEF NoSameDayOverlap
  <2>2. CASE i \notin 1..Len(schedules)
    <3>1. i = Len(schedules) + 1 /\ j \in 1..Len(schedules)
      BY <2>2, <1>2, <1>3
    <3> QED
      BY <3>1, <1>2, <1>7
  <2>3. CASE j \notin 1..Len(schedules)
    <3>1. j = Len(schedules) + 1 /\ i \in 1..Len(schedules)
      BY <2>3, <1>2, <1>3
    <3> QED
      BY <3>1, <1>2, <1>7
  <2> QED
    BY <2>1, <2>2, <2>3
<1> QED
  BY <1>8, <1>9

\* A list of one window is disjoint, whatever the window.
LEMMA SingletonIsDisjoint ==
    ASSUME NEW w \in Window, w.duration \in 1..MaxDuration, schedules' = <<w>>
    PROVE  schedules' \in Seq(Window) /\ AcceptedAreSound' /\ NoSameDayOverlap'
<1>1. Len(schedules') = 1 /\ schedules'[1] = w
  OBVIOUS
<1> QED
  BY <1>1 DEF AcceptedAreSound, NoSameDayOverlap

-----------------------------------------------------------------------------

LEMMA InitEstablishes == Init => IInv
<1> SUFFICES ASSUME Init PROVE IInv
  OBVIOUS
<1>1. Len(schedules) = 0 /\ Len(queued) = 0
  BY DEF Init
<1>2. TypeOK
  <2>1. schedules \in Seq(Window) /\ queued \in Seq(Start)
    BY DEF Init
  <2>2. lastTick \in Nat \cup {Never} /\ lastTick <= now /\ stepsBack \in 0..MaxStepsBack
    BY BoundsAssumption DEF Init, Never
  <2> QED
    BY <2>1, <2>2 DEF Init, TypeOK
<1> QED
  BY <1>1, <1>2 DEF IInv, AcceptedAreSound, NoSameDayOverlap, QueuedWereDue, QueuedInOrder

\* The recorded minutes are natural numbers, the recorded windows windows.
LEMMA HistoryTypes ==
    ASSUME queued \in Seq(Start)
    PROVE  \A i \in 1..Len(queued) :
             queued[i].at \in Nat /\ queued[i].pass \in Nat /\ queued[i].window \in Window
<1>1. \A i \in 1..Len(queued) : queued[i] \in Start
  OBVIOUS
<1> QED
  BY <1>1 DEF Start

\* What the sessions and the window list do leaves the history of starts in
\* order.
LEMMA HistoryUnchanged ==
    ASSUME IInv, UNCHANGED <<lastTick, clock, queued>>
    PROVE  QueuedWereDue' /\ QueuedInOrder'
BY DEF IInv, QueuedWereDue, QueuedInOrder, Due, MinuteOf, WeekdayOf, clock

\* So does the clock, in whichever direction it is moved: a step back begins
\* a pass that has no start yet.
LEMMA ClockKeepsOrder ==
    ASSUME IInv, Clock \/ ClockGoesBack
    PROVE  TypeOK' /\ QueuedWereDue' /\ QueuedInOrder'
<1>1. /\ now \in Nat /\ stepsBack \in Nat /\ lastTick \in Int
      /\ queued \in Seq(Start) /\ queued' = queued /\ lastTick' = lastTick
  BY BoundsAssumption DEF IInv, TypeOK, Never, Clock, ClockGoesBack
<1>2. \A i \in 1..Len(queued) : queued[i].at \in Nat /\ queued[i].pass \in Nat
  BY <1>1, HistoryTypes
<1>3. QueuedWereDue'
  BY <1>1 DEF IInv, QueuedWereDue, Due, MinuteOf, WeekdayOf
<1>4. CASE Clock
  <2>1. now' = now + 1 /\ stepsBack' = stepsBack
    BY <1>4 DEF Clock
  <2>2. TypeOK'
    BY <1>1, <1>4, <2>1 DEF IInv, TypeOK, Clock
  <2>3. QueuedInOrder'
    BY <1>1, <1>2, <2>1 DEF IInv, QueuedInOrder
  <2> QED
    BY <1>3, <2>2, <2>3
<1>5. CASE ClockGoesBack
  <2>1. now' \in Nat /\ stepsBack' = stepsBack + 1 /\ stepsBack' \in 0..MaxStepsBack
    BY <1>1, <1>5, BoundsAssumption DEF ClockGoesBack
  <2>2. TypeOK'
    BY <1>1, <1>5, <2>1 DEF IInv, TypeOK, ClockGoesBack
  <2>3. QueuedInOrder'
    BY <1>1, <1>2, <2>1 DEF IInv, QueuedInOrder
  <2> QED
    BY <1>3, <2>2, <2>3
<1> QED
  BY <1>4, <1>5

\* A tick queues at most one start, later than all the starts of this pass
\* before it: the key is new, and the tick before it was not in the future.
LEMMA TickKeepsOrder ==
    ASSUME IInv, TickSchedules
    PROVE  queued' \in Seq(Start) /\ QueuedWereDue' /\ QueuedInOrder'
<1>1. /\ schedules \in Seq(Window) /\ queued \in Seq(Start)
      /\ now \in Nat /\ lastTick \in Int /\ lastTick # now /\ lastTick' = now
      /\ stepsBack \in Nat /\ UNCHANGED clock
  BY BoundsAssumption DEF IInv, TypeOK, TickSchedules, Never
<1>0. now' = now /\ stepsBack' = stepsBack
  BY <1>1 DEF clock
<1>2. \A i \in 1..Len(queued) : queued[i].at \in Nat /\ queued[i].pass \in Nat
  BY <1>1, HistoryTypes
<1>3. CASE queued' = queued
  <2>1. QueuedWereDue'
    BY <1>3 DEF IInv, QueuedWereDue, Due, MinuteOf, WeekdayOf
  <2>2. QueuedInOrder'
    BY <1>0, <1>1, <1>2, <1>3 DEF IInv, QueuedInOrder
  <2> QED
    BY <1>1, <1>3, <2>1, <2>2
<1>4. ASSUME NEW i \in 1..Len(schedules), FirstDue(i),
             queued' = Append(queued, [at |-> now, pass |-> stepsBack, window |-> schedules[i]])
      PROVE  queued' \in Seq(Start) /\ QueuedWereDue' /\ QueuedInOrder'
  <2> DEFINE new == [at |-> now, pass |-> stepsBack, window |-> schedules[i]]
  <2>1. new \in Start /\ new.at = now /\ new.pass = stepsBack /\ new.window = schedules[i]
    BY <1>1 DEF Start
  <2>2. /\ queued' \in Seq(Start)
        /\ Len(queued') = Len(queued) + 1 /\ Len(queued) \in Nat
        /\ queued'[Len(queued) + 1] = new
        /\ \A k \in 1..Len(queued) : queued'[k] = queued[k]
    BY <1>1, <1>4, <2>1
  <2>3. Due(new.window, new.at) /\ new.window.duration \in 1..MaxDuration
    BY <1>4, <2>1 DEF FirstDue, IInv, AcceptedAreSound
  <2>4. QueuedWereDue'
    <3> SUFFICES ASSUME NEW k \in 1..Len(queued')
                 PROVE  /\ Due(queued'[k].window, queued'[k].at)
                        /\ queued'[k].window.duration \in 1..MaxDuration
      BY DEF QueuedWereDue, Due, MinuteOf, WeekdayOf
    <3>1. CASE k \in 1..Len(queued)
      BY <3>1, <2>2 DEF IInv, QueuedWereDue
    <3>2. CASE k = Len(queued) + 1
      BY <3>2, <2>2, <2>3
    <3> QED
      BY <3>1, <3>2, <2>2
  <2>5. \A k \in 1..Len(queued) :
           /\ queued[k].pass <= stepsBack
           /\ queued[k].pass = stepsBack => queued[k].at < now
    BY <1>1, <1>2 DEF IInv, QueuedInOrder
  <2>6. \A k \in 1..Len(queued') :
           /\ queued'[k].pass <= stepsBack
           /\ queued'[k].pass = stepsBack => queued'[k].at <= now
    <3> SUFFICES ASSUME NEW k \in 1..Len(queued')
                 PROVE  /\ queued'[k].pass <= stepsBack
                        /\ queued'[k].pass = stepsBack => queued'[k].at <= now
      OBVIOUS
    <3>1. CASE k \in 1..Len(queued)
      BY <3>1, <1>1, <1>2, <2>2, <2>5
    <3>2. CASE k = Len(queued) + 1
      BY <3>2, <1>1, <2>1, <2>2
    <3> QED
      BY <3>1, <3>2, <2>2
  <2>7. \A k, m \in 1..Len(queued') :
           k < m => /\ queued'[k].pass <= queued'[m].pass
                    /\ queued'[k].pass = queued'[m].pass => queued'[k].at < queued'[m].at
    <3> SUFFICES ASSUME NEW k \in 1..Len(queued'), NEW m \in 1..Len(queued'), k < m
                 PROVE  /\ queued'[k].pass <= queued'[m].pass
                        /\ queued'[k].pass = queued'[m].pass =>
                              queued'[k].at < queued'[m].at
      OBVIOUS
    <3>1. k \in 1..Len(queued)
      BY <2>2
    <3>2. CASE m \in 1..Len(queued)
      BY <3>1, <3>2, <2>2 DEF IInv, QueuedInOrder
    <3>3. CASE m = Len(queued) + 1
      BY <3>1, <3>3, <2>1, <2>2, <2>5
    <3> QED
      BY <3>2, <3>3, <2>2
  <2> QED
    BY <1>0, <1>1, <2>2, <2>4, <2>6, <2>7 DEF QueuedInOrder
<1> QED
  BY <1>1, <1>3, <1>4 DEF TickSchedules

LEMMA StepPreserves == IInv /\ [Next]_vars => IInv'
<1> SUFFICES ASSUME IInv, [Next]_vars PROVE IInv'
  OBVIOUS
<1> USE DEF IInv
<1>1. CASE AddSchedule
  <2>1. PICK w \in Candidates : /\ ValidateSchedule(w, schedules)
                                /\ schedules' = Append(schedules, w)
    BY <1>1 DEF AddSchedule
  <2>2. w \in Window
    BY WindowsAssumption
  <2>3. AcceptedAreSound' /\ NoSameDayOverlap'
    BY <2>1, <2>2, AcceptKeepsDisjoint
  <2>4. TypeOK'
    BY <1>1, <2>1, <2>2 DEF TypeOK, AddSchedule, clock
  <2> QED
    BY <1>1, <2>3, <2>4, HistoryUnchanged DEF AddSchedule, clock
<1>2. CASE SeedDemo
  <2>1. schedules' \in Seq(Window) /\ AcceptedAreSound' /\ NoSameDayOverlap'
    BY <1>2, WindowsAssumption, SingletonIsDisjoint DEF SeedDemo
  <2>2. TypeOK'
    BY <1>2, <2>1 DEF SeedDemo, TypeOK, clock
  <2> QED
    BY <1>2, <2>1, <2>2, HistoryUnchanged DEF SeedDemo, clock
<1>3. CASE ResetDemo
  <2>1. schedules' \in Seq(Window) /\ Len(schedules') = 0
    BY <1>3 DEF ResetDemo
  <2>2. TypeOK'
    BY <1>3, <2>1 DEF ResetDemo, TypeOK, clock
  <2>3. AcceptedAreSound' /\ NoSameDayOverlap'
    BY <2>1 DEF AcceptedAreSound, NoSameDayOverlap
  <2> QED
    BY <1>3, <2>2, <2>3, HistoryUnchanged DEF ResetDemo, clock
<1>4. CASE TickSchedules
  <2>1. queued' \in Seq(Start) /\ QueuedWereDue' /\ QueuedInOrder'
    BY <1>4, TickKeepsOrder
  <2>2. TypeOK'
    BY <1>4, <2>1 DEF TickSchedules, TypeOK, Never, clock
  <2>3. AcceptedAreSound' /\ NoSameDayOverlap'
    BY <1>4 DEF TickSchedules, AcceptedAreSound, NoSameDayOverlap, Covered
  <2> QED
    BY <2>1, <2>2, <2>3
<1>5. CASE SessionChanges
  <2>1. TypeOK'
    BY <1>5 DEF SessionChanges, TypeOK, clock
  <2>2. AcceptedAreSound' /\ NoSameDayOverlap'
    BY <1>5 DEF SessionChanges, AcceptedAreSound, NoSameDayOverlap, Covered
  <2> QED
    BY <1>5, <2>1, <2>2, HistoryUnchanged DEF SessionChanges, clock
<1>6. CASE Clock \/ ClockGoesBack
  <2>1. AcceptedAreSound' /\ NoSameDayOverlap'
    BY <1>6 DEF Clock, ClockGoesBack, AcceptedAreSound, NoSameDayOverlap, Covered
  <2> QED
    BY <1>6, <2>1, ClockKeepsOrder
<1>7. CASE UNCHANGED vars
  <2>1. TypeOK'
    BY <1>7 DEF vars, TypeOK, clock
  <2>2. AcceptedAreSound' /\ NoSameDayOverlap'
    BY <1>7 DEF vars, AcceptedAreSound, NoSameDayOverlap, Covered
  <2> QED
    BY <1>7, <2>1, <2>2, HistoryUnchanged DEF vars, clock
<1> QED
  BY <1>1, <1>2, <1>3, <1>4, <1>5, <1>6, <1>7 DEF Next

LEMMA Inductive == Spec => []IInv
BY InitEstablishes, StepPreserves, PTL DEF Spec

-----------------------------------------------------------------------------

\* Scheduler's state keeps its types for every calendar and candidate set.
THEOREM TypeCorrect == Spec => []TypeOK
<1>1. IInv => TypeOK
  BY DEF IInv
<1> QED
  BY <1>1, Inductive, PTL

\* The overlap test of ValidateSchedule does keep accepted windows from ever
\* claiming one minute of one day twice, over every history of additions,
\* seeds and resets.
THEOREM AcceptedWindowsAreDisjoint == Spec => []NoSameDayOverlap
<1>1. IInv => NoSameDayOverlap
  BY DEF IInv
<1> QED
  BY <1>1, Inductive, PTL

\* The first-match loop of TickSchedules loses no window: no minute is the
\* beginning of two of them.
THEOREM FirstMatchIsOnlyMatch == Spec => []OneWindowPerMinute
<1>1. ASSUME IInv PROVE OneWindowPerMinute
  <2> SUFFICES ASSUME NEW t \in 0..Horizon,
                      NEW i \in 1..Len(schedules), NEW j \in 1..Len(schedules),
                      Due(schedules[i], t), Due(schedules[j], t), i # j
               PROVE  FALSE
    BY DEF OneWindowPerMinute
  <2>1. schedules[i] \in Window /\ schedules[j] \in Window
    BY <1>1 DEF IInv, TypeOK
  <2>2. WeekdayOf(t) \in schedules[i].days \cap schedules[j].days
    BY DEF Due
  <2>3. schedules[i].start = schedules[j].start
    BY DEF Due
  <2>4. schedules[i].start \in Covered(schedules[i]) \cap Covered(schedules[j])
    BY <1>1, <2>1, <2>3, CalendarAssumption DEF IInv, AcceptedAreSound, Covered, Window
  <2> QED
    BY <1>1, <2>2, <2>4 DEF IInv, NoSameDayOverlap
<1> QED
  BY <1>1, Inductive, PTL

\* However often TickSchedules is called in a minute, and whatever the clients
\* do in between, it queues at most one start for that minute, and another one
\* only when the clock is set back and passes by it again.
THEOREM TickIsOncePerMinute == Spec => []OneStartPerMinute
<1>1. ASSUME IInv PROVE OneStartPerMinute
  <2>1. \A i \in 1..Len(queued) : queued[i].at \in Nat /\ queued[i].pass \in Nat
    BY <1>1, HistoryTypes DEF IInv, TypeOK
  <2> QED
    BY <1>1, <2>1 DEF IInv, QueuedInOrder, OneStartPerMinute
<1> QED
  BY <1>1, Inductive, PTL

\* A minute of the timeline is its day's first minute plus its minute of the
\* day.
LEMMA DayAndMinute ==
    ASSUME NEW t \in Nat
    PROVE  /\ t \div MinutesPerDay \in Nat
           /\ t = MinutesPerDay * (t \div MinutesPerDay) + MinuteOf(t)
           /\ MinuteOf(t) \in Nat
BY CalendarAssumption DEF MinuteOf

LEMMA SameDayDistance ==
    ASSUME NEW t \in Nat, NEW u \in Nat, t < u,
           t \div MinutesPerDay = u \div MinutesPerDay
    PROVE  /\ u - t = MinuteOf(u) - MinuteOf(t)
           /\ MinuteOf(t) # MinuteOf(u)
<1> DEFINE midnight == MinutesPerDay * (t \div MinutesPerDay)
<1>1. /\ t = midnight + MinuteOf(t) /\ MinuteOf(t) \in Nat
      /\ u = midnight + MinuteOf(u) /\ MinuteOf(u) \in Nat
  BY DayAndMinute
<1>2. MinutesPerDay \in Nat /\ t \div MinutesPerDay \in Nat
  BY DayAndMinute, CalendarAssumption
<1>3. midnight \in Int
  BY <1>2
<1> HIDE DEF midnight
<1> QED
  BY <1>1, <1>3

\* A later point outside an interval lies past its end, shifted or not.
LEMMA LaterOutside ==
    ASSUME NEW s \in Int, NEW e \in Int, NEW d \in Int, d >= 1,
           e \notin s .. (s + d - 1),
           NEW t \in Int, NEW u \in Int, t < u, u - t = e - s
    PROVE  u >= t + d
OBVIOUS

\* No scheduled start falls inside the window of an earlier start of its day.
THEOREM ScheduledStartsAreApart == Spec => []SameDayStartsDisjoint
<1>1. ASSUME IInv PROVE SameDayStartsDisjoint
  <2> SUFFICES ASSUME NEW i \in 1..Len(queued), NEW j \in 1..Len(queued), i < j,
                      queued[i].pass = queued[j].pass,
                      NEW k \in 1..Len(schedules), schedules[k] = queued[i].window,
                      NEW l \in 1..Len(schedules), schedules[l] = queued[j].window,
                      queued[i].at \div MinutesPerDay = queued[j].at \div MinutesPerDay
               PROVE  queued[j].at >= queued[i].at + queued[i].window.duration
    BY DEF SameDayStartsDisjoint
  <2> DEFINE p == queued[i]
             q == queued[j]
  <2>1. /\ p.at \in Nat /\ q.at \in Nat /\ p.at < q.at
        /\ p.window \in Window /\ q.window \in Window
    BY <1>1, HistoryTypes DEF IInv, TypeOK, QueuedInOrder
  <2>2. /\ p.window.start = MinuteOf(p.at) /\ q.window.start = MinuteOf(q.at)
        /\ WeekdayOf(p.at) \in p.window.days /\ WeekdayOf(q.at) \in q.window.days
        /\ p.window.duration \in 1..MaxDuration /\ q.window.duration \in 1..MaxDuration
    <3>1. /\ Due(p.window, p.at) /\ p.window.duration \in 1..MaxDuration
          /\ Due(q.window, q.at) /\ q.window.duration \in 1..MaxDuration
      BY <1>1 DEF IInv, QueuedWereDue
    <3> QED
      BY <3>1 DEF Due
  <2>3. /\ q.at - p.at = MinuteOf(q.at) - MinuteOf(p.at)
        /\ MinuteOf(p.at) # MinuteOf(q.at)
    BY <2>1, SameDayDistance
  <2>4. k # l
    BY <2>2, <2>3
  <2>5. WeekdayOf(p.at) = WeekdayOf(q.at)
    BY DEF WeekdayOf
  <2>6. Covered(p.window) \cap Covered(q.window) = {}
    BY <1>1, <2>2, <2>4, <2>5 DEF IInv, NoSameDayOverlap
  <2> DEFINE u == p.window
             v == q.window
  <2>0. /\ u.start \in Int /\ v.start \in Int
        /\ u.duration \in Int /\ u.duration >= 1
        /\ v.duration \in Int /\ v.duration >= 1
    BY <2>1, <2>2, CalendarAssumption DEF Window
  <2>7. v.start \in Covered(v)
    BY <2>0 DEF Covered
  <2>8. v.start \notin Covered(u)
    BY <2>6, <2>7
  <2>9. q.at - p.at = v.start - u.start
    BY <2>2, <2>3
  <2>10. v.start \notin u.start .. (u.start + u.duration - 1)
    BY <2>8 DEF Covered
  <2>11. p.at \in Int /\ q.at \in Int
    BY <2>1
  <2> HIDE DEF p, q, u, v
  <2>12. q.at >= p.at + u.duration
    BY <2>0, <2>1, <2>9, <2>10, <2>11, LaterOutside
  <2> QED
    BY <2>12 DEF p, q, u
<1> QED
  BY <1>1, Inductive, PTL
=============================================================================
