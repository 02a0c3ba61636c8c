--------------------------- MODULE CaptureRequests ---------------------------
(***************************************************************************)
(* What the API's queue (internal/store/memory.go) and the menu app        *)
(* (main.swift, pollHostCommand) promise together to whoever asks for a    *)
(* capture or a stop, without the queue, the polling and the reports.  A   *)
(* request is numbered once, and once it is answered it stays so.  A stop  *)
(* cancels the starts that wait; only a request that waits is taken up;    *)
(* stops are carried out in the order they were asked for; and whatever is *)
(* put on the air was asked for after the last of them.  A request may be  *)
(* taken up again until its result has arrived.  HostBridge implements     *)
(* this specification.                                                     *)
(***************************************************************************)
EXTENDS Integers

CONSTANT Ids        \* the numbers of requests, drawn in rising order

VARIABLES
    stage,      \* what has become of each request
    hand,       \* the request that was taken up and is not carried out, or 0
    air,        \* the request whose capture is on the air, or 0
    result,     \* the request whose result is awaited, or 0
    late,       \* the request whose result nobody awaits any more, or 0
    stopped     \* the latest stop that was carried out, or 0

vars == <<stage, hand, air, result, late, stopped>>

\* "start" and "stop" are requests that wait for their result.
Stages == {"unused", "start", "stop", "canceled", "completed", "forgotten"}

Init ==
    /\ stage = [id \in Ids |-> "unused"]
    /\ hand = 0 /\ air = 0 /\ result = 0 /\ late = 0 /\ stopped = 0

StartsCanceled ==
    [id \in Ids |-> IF stage[id] = "start" THEN "canceled" ELSE stage[id]]

Numbered(id) ==
    /\ stage[id] = "unused"
    /\ \A earlier \in Ids : earlier < id => stage[earlier] # "unused"

Start(id) ==
    /\ Numbered(id)
    /\ stage' = [stage EXCEPT ![id] = "start"]
    /\ UNCHANGED <<hand, air, result, late, stopped>>

Stop(id) ==
    /\ Numbered(id)
    /\ stage' = [StartsCanceled EXCEPT ![id] = "stop"]
    /\ UNCHANGED <<hand, air, result, late, stopped>>

\* Seeding or clearing the demo data.
Forget ==
    /\ stage' = [id \in Ids |-> IF stage[id] = "unused" THEN "unused" ELSE "forgotten"]
    /\ UNCHANGED <<hand, air, result, late, stopped>>

\* One request at a time, and only one that waits.
TakeUp(id) ==
    /\ hand = 0 /\ result = 0
    /\ stage[id] \in {"start", "stop"}
    /\ hand' = id
    /\ UNCHANGED <<stage, air, result, late, stopped>>

\* What was taken up is carried out, whatever became of it meanwhile.
CarryOutStart(id) ==
    /\ id = hand /\ stage[id] # "stop"
    /\ id > stopped
    /\ hand' = 0 /\ result' = id
    /\ \/ air = 0 /\ air' = id
       \/ air' = air
    /\ UNCHANGED <<stage, late, stopped>>

CarryOutStop(id) ==
    /\ id = hand /\ stage[id] \notin {"start", "canceled"}
    /\ id >= stopped
    /\ hand' = 0 /\ result' = id
    /\ \/ air' = 0 /\ stopped' = id
       \/ air' \in {air, 0} /\ stopped' = stopped
    /\ UNCHANGED <<stage, late>>

\* The second answer to a stop cancels the starts that wait once more.
Answer(id) ==
    /\ \/ stage[id] = "stop" /\ stage' = [StartsCanceled EXCEPT ![id] = "completed"]
       \/ stage[id] \in {"start", "canceled"} /\ stage' = [stage EXCEPT ![id] = "completed"]
       \/ stage[id] = "completed" /\ stage' \in {stage, StartsCanceled}
       \/ stage[id] = "forgotten" /\ stage' = stage
    /\ \/ id = result /\ result' = 0 /\ late' = late
       \/ id = late /\ late' = 0 /\ result' = result
    /\ UNCHANGED <<hand, air, stopped>>

\* The result is no longer awaited, and arrives later or not at all.
GiveUp ==
    /\ late = 0 /\ late' = result /\ result' = 0
    /\ UNCHANGED <<stage, hand, air, stopped>>

\* A capture ends by itself or with the menu app; a result gets lost.
Lapse ==
    /\ air' \in {air, 0} /\ hand' \in {hand, 0}
    /\ result' \in {result, 0} /\ late' \in {late, 0}
    /\ UNCHANGED <<stage, stopped>>

Next ==
    \/ \E id \in Ids : \/ Start(id) \/ Stop(id) \/ TakeUp(id)
                       \/ CarryOutStart(id) \/ CarryOutStop(id) \/ Answer(id)
    \/ Forget
    \/ GiveUp
    \/ Lapse

Spec == Init /\ [][Next]_vars
=============================================================================
