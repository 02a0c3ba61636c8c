------------------------------ MODULE Scheduler ------------------------------
(***************************************************************************)
(* The recurring capture windows of the store (internal/store/memory.go):  *)
(* AddSchedule accepts a window only when ValidateSchedule finds it sound  *)
(* and disjoint from the accepted ones, and TickSchedules, called once a   *)
(* minute by cmd/api/main.go, queues a start for the first window that     *)
(* begins in the current minute.                                           *)
(*                                                                         *)
(* The calendar is scaled by the constants: the code has 1440 minutes in a *)
(* day, 7 days in a week and windows of at most 120 minutes.  Time is the  *)
(* number of minutes since the first midnight; the clock and the ticks are *)
(* separate steps, because a tick may come late, twice in a minute or not  *)
(* at all (the process sleeps with the Mac).                               *)
(***************************************************************************)
EXTENDS Integers, Sequences, FiniteSets

CONSTANTS
    MinutesPerDay,      \* 1440 in the code
    DaysPerWeek,        \* 7 in the code
    MaxDuration,        \* 120 in the code
    Candidates,         \* the windows clients submit, sound and unsound
    DemoWindow,         \* the window SeedDemo installs
    Horizon,            \* bound: the last minute explored
    StepsBack,          \* minutes the clock may be set back by, 60 in autumn
    MaxStepsBack,       \* bound: times it is
    MaxSchedules        \* bound: windows accepted between two wipes

\* The fields of model.CaptureSchedule the store reads.  A submitted window
\* is any JSON object of this shape: nothing but ValidateSchedule limits it.
Window == [days : SUBSET Int, start : Int, duration : Int,
           rotation : Int, channels : Seq(Int), enabled : BOOLEAN]

ASSUME CalendarAssumption ==
    /\ MinutesPerDay \in Nat \ {0}
    /\ DaysPerWeek \in Nat \ {0}
    /\ MaxDuration \in Nat \ {0}
ASSUME BoundsAssumption ==
    Horizon \in Nat /\ StepsBack \subseteq Nat /\ MaxStepsBack \in Nat /\ MaxSchedules \in Nat
ASSUME WindowsAssumption ==
    /\ Candidates \subseteq Window
    /\ DemoWindow \in Window
    /\ DemoWindow.duration \in 1..MaxDuration

VARIABLES
    schedules,   \* Memory.schedules, in the order of acceptance
    automation,  \* Memory.automationEnabled
    lastTick,    \* Memory.lastScheduleTick; -1 is the empty string
    running,     \* some session of Memory.sessions has Status "running"
    now,         \* the wall clock, in local minutes
    stepsBack,   \* times the clock was set back, as at the end of summer time
    queued       \* history: the starts TickSchedules queued

vars == <<schedules, automation, lastTick, running, now, stepsBack, queued>>
clock == <<now, stepsBack>>

Never == -1

-----------------------------------------------------------------------------

\* The minutes of its day (or of the next one) that a window covers.
Covered(w) == w.start .. (w.start + w.duration - 1)

\* Mutant: one half of the interval test is missing.
WindowsOverlapOneSided(a, b) ==
    /\ a.days \cap b.days # {}
    /\ a.start < b.start + b.duration
    /\ b.start <= a.start

WindowsOverlap(a, b) ==
    /\ a.days \cap b.days # {}
    /\ a.start < b.start + b.duration
    /\ b.start < a.start + a.duration

\* Mutant: the lower bound of the duration is not checked.
ValidateScheduleAnyLength(w, existing) ==
    /\ w.duration <= MaxDuration
    /\ w.rotation >= 1
    /\ w.days # {} /\ w.channels # <<>>
    /\ \A i \in 1..Len(existing) : ~WindowsOverlap(w, existing[i])

ValidateSchedule(w, existing) ==
    /\ w.duration \in 1..MaxDuration
    /\ w.rotation >= 1
    /\ w.days # {} /\ w.channels # <<>>
    /\ \A i \in 1..Len(existing) : ~WindowsOverlap(w, existing[i])

MinuteOf(t)  == t % MinutesPerDay
WeekdayOf(t) == (t \div MinutesPerDay) % DaysPerWeek

\* Mutant: the weekday is not looked at.
DueEveryDay(w, t) ==
    /\ w.enabled
    /\ w.start = MinuteOf(t)
    /\ w.channels # <<>>

\* The windows TickSchedules may queue a start for at time t.
Due(w, t) ==
    /\ w.enabled
    /\ w.start = MinuteOf(t)
    /\ WeekdayOf(t) \in w.days
    /\ w.channels # <<>>

-----------------------------------------------------------------------------

\* NewMemory: no window, automation off, no tick seen.
Init ==
    /\ schedules = <<>>
    /\ automation = FALSE
    /\ lastTick = Never
    /\ running = FALSE
    /\ now = 0
    /\ stepsBack = 0
    /\ queued = <<>>

\* A refused window changes nothing, so only acceptance is a step.
AddSchedule ==
    /\ Len(schedules) < MaxSchedules
    /\ \E w \in Candidates :
          /\ ValidateSchedule(w, schedules)
          /\ schedules' = Append(schedules, w)
    /\ UNCHANGED <<automation, lastTick, running, clock, queued>>

SeedDemo ==
    /\ schedules' = <<DemoWindow>>
    /\ running' = FALSE
    /\ automation' = TRUE
    /\ UNCHANGED <<lastTick, clock, queued>>

\* ResetDemo keeps automationEnabled and lastScheduleTick.
ResetDemo ==
    /\ schedules' = <<>>
    /\ running' = FALSE
    /\ UNCHANGED <<automation, lastTick, clock, queued>>

\* The first window of the list that is due; the loop returns at it.
FirstDue(i) ==
    /\ Due(schedules[i], now)
    /\ \A j \in 1..(i - 1) : ~Due(schedules[j], now)

\* Mutant: a second tick in one minute is not recognised.
TickSchedulesNoKey ==
    /\ automation
    /\ lastTick' = now
    /\ \/ /\ ~running
          /\ \E i \in 1..Len(schedules) :
                /\ FirstDue(i)
                /\ queued' = Append(queued, [at |-> now, pass |-> stepsBack, window |-> schedules[i]])
       \/ /\ running \/ \A i \in 1..Len(schedules) : ~Due(schedules[i], now)
          /\ queued' = queued
    /\ UNCHANGED <<schedules, automation, running, clock>>

\* Mutant: the key is that of the next minute.
TickSchedulesNextKey ==
    /\ automation
    /\ lastTick # now
    /\ lastTick' = now + 1
    /\ \/ /\ ~running
          /\ \E i \in 1..Len(schedules) :
                /\ FirstDue(i)
                /\ queued' = Append(queued, [at |-> now, pass |-> stepsBack, window |-> schedules[i]])
       \/ /\ running \/ \A i \in 1..Len(schedules) : ~Due(schedules[i], now)
          /\ queued' = queued
    /\ UNCHANGED <<schedules, automation, running, clock>>

TickSchedules ==
    /\ automation
    /\ lastTick # now
    /\ lastTick' = now
    /\ \/ /\ ~running
          /\ \E i \in 1..Len(schedules) :
                /\ FirstDue(i)
                /\ queued' = Append(queued, [at |-> now, pass |-> stepsBack, window |-> schedules[i]])
       \/ /\ running \/ \A i \in 1..Len(schedules) : ~Due(schedules[i], now)
          /\ queued' = queued
    /\ UNCHANGED <<schedules, automation, running, clock>>

\* CompleteHostCommand opens a session on a successful start and closes the
\* running ones on a stop; here only whether one is running matters.
SessionChanges ==
    /\ running' = ~running
    /\ UNCHANGED <<schedules, automation, lastTick, clock, queued>>

Clock ==
    /\ now < Horizon
    /\ now' = now + 1
    /\ UNCHANGED <<schedules, automation, lastTick, running, stepsBack, queued>>

\* The local time repeats minutes that have passed.
ClockGoesBack ==
    /\ stepsBack < MaxStepsBack
    /\ \E minutes \in StepsBack : now >= minutes /\ now' = now - minutes
    /\ stepsBack' = stepsBack + 1
    /\ UNCHANGED <<schedules, automation, lastTick, running, queued>>

Next == AddSchedule \/ SeedDemo \/ ResetDemo \/ TickSchedules \/ SessionChanges
        \/ Clock \/ ClockGoesBack

Spec == Init /\ [][Next]_vars

-----------------------------------------------------------------------------

Start == [at : Nat, pass : Nat, window : Window]

\* Every variable keeps its type: a window in the list is well formed, the
\* last tick is in the future only if the clock was set back.
TypeOK ==
    /\ schedules \in Seq(Window)
    /\ automation \in BOOLEAN
    /\ running \in BOOLEAN
    /\ now \in Nat /\ stepsBack \in 0..MaxStepsBack
    /\ lastTick \in Nat \cup {Never}
    /\ stepsBack = 0 => lastTick <= now
    /\ queued \in Seq(Start)

\* Two accepted windows never claim the same minute of the same day.  This is
\* what the overlap test of ValidateSchedule is for, stated on the minutes
\* themselves and not on the bounds the test compares.
NoSameDayOverlap ==
    \A i, j \in 1..Len(schedules) :
        i # j =>
            \/ schedules[i].days \cap schedules[j].days = {}
            \/ Covered(schedules[i]) \cap Covered(schedules[j]) = {}

\* At most one window begins in any minute of any day, so the loop of
\* TickSchedules, which returns at the first match, never passes over a
\* second window that was due in the same minute.
OneWindowPerMinute ==
    \A t \in 0..Horizon : \A i, j \in 1..Len(schedules) :
        Due(schedules[i], t) /\ Due(schedules[j], t) => i = j

\* However the ticks fall, and whatever is seeded, reset or added between
\* two of them, a minute gets at most one scheduled start each time the clock
\* passes by it, also after the clock was set back to before the last tick.
OneStartPerMinute ==
    \A i, j \in 1..Len(queued) :
        queued[i].at = queued[j].at /\ queued[i].pass = queued[j].pass => i = j

\* Two starts queued on one day by windows that are both still accepted are
\* apart by at least the earlier window's duration, unless the clock was set
\* back in between: no scheduled start falls inside a window whose own start
\* was queued before it that day.
SameDayStartsDisjoint ==
    \A i, j \in 1..Len(queued) :
        ( /\ i < j /\ queued[i].pass = queued[j].pass
          /\ \E k \in 1..Len(schedules) : schedules[k] = queued[i].window
          /\ \E k \in 1..Len(schedules) : schedules[k] = queued[j].window
          /\ queued[i].at \div MinutesPerDay = queued[j].at \div MinutesPerDay )
        => queued[j].at >= queued[i].at + queued[i].window.duration

-----------------------------------------------------------------------------

\* The minutes of the week a window really covers: past midnight it runs on
\* into the next day.
WeekMinutes(w) ==
    { (d * MinutesPerDay + m) % (DaysPerWeek * MinutesPerDay) :
        d \in w.days, m \in Covered(w) }

\* memory.go:186 promises to refuse a schedule that "overlaps an existing
\* window".  Stated on the minutes of the week, it does not hold: the test
\* compares start minutes of equal days only, so a window that crosses
\* midnight is not compared with the windows of the next day.
WindowsDisjointInTheWeek ==
    \A i, j \in 1..Len(schedules) :
        i # j => WeekMinutes(schedules[i]) \cap WeekMinutes(schedules[j]) = {}

=============================================================================
