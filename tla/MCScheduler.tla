----------------------------- MODULE MCScheduler -----------------------------
(* Instances of Scheduler for TLC: a day of 6 minutes, a week of 2 days and *)
(* windows of at most 3 minutes.                                            *)
EXTENDS Scheduler

W(days, start, duration) ==
    [days |-> days, start |-> start, duration |-> duration,
     rotation |-> 1, channels |-> <<2>>, enabled |-> TRUE]

\* Adjacent, nested, equal and disjoint windows on one or both days; one that
\* crosses midnight; one that is switched off; one outside the day.
SoundCandidates ==
    { W({0}, 0, 2), W({0}, 2, 1), W({0, 1}, 1, 3), W({1}, 1, 2),
      W({0}, 5, 3), W({1}, 6, 1),
      [W({0, 1}, 2, 2) EXCEPT !.enabled = FALSE] }

\* One window for each reason to refuse: length 0 and too long, no rotation,
\* no day, no channel.
UnsoundCandidates ==
    { W({0}, 3, 0), W({1}, 1, 4), [W({1}, 3, 1) EXCEPT !.rotation = 0],
      W({}, 3, 1), [W({1}, 4, 1) EXCEPT !.channels = <<>>] }

MCCandidates == SoundCandidates \cup UnsoundCandidates

\* Every window begins in its day.
DaytimeCandidates == { w \in MCCandidates : w.start < MinutesPerDay }

MCDemoWindow == W({0, 1}, 3, 2)
=============================================================================
