---------------------------- MODULE CaptureOutbox ----------------------------
(***************************************************************************)
(* What the capture helper (helper/main.go) promises to whoever reads the  *)
(* captures it publishes, without the processes, signals and files it      *)
(* does it with.  A capture is recorded once; it becomes available, whole, *)
(* after its recording has ended; it is taken at most once; and a capture  *)
(* that was lost, or published, never goes back.  CaptureHelper implements *)
(* this specification.                                                     *)
(***************************************************************************)
CONSTANT Captures

VARIABLE stage      \* how far each capture has come

Stages == {"unused", "recording", "ended", "available", "taken", "lost"}

Init == stage = [c \in Captures |-> "unused"]

Move(c, from, to) == stage[c] \in from /\ stage' = [stage EXCEPT ![c] = to]

Record(c)  == Move(c, {"unused"}, "recording")
Publish(c) == Move(c, {"ended"}, "available")
Take(c)    == Move(c, {"available"}, "taken")

\* A start that fails after tcpdump was spawned throws the capture away.
Lose(c) == Move(c, {"recording", "ended"}, "lost")

\* Recordings end one by one, or together when the Mac goes down.
End ==
    \E ended \in SUBSET { c \in Captures : stage[c] = "recording" } :
        stage' = [c \in Captures |-> IF c \in ended THEN "ended" ELSE stage[c]]

Next == End \/ \E c \in Captures : Record(c) \/ Publish(c) \/ Take(c) \/ Lose(c)

Spec == Init /\ [][Next]_stage
=============================================================================
