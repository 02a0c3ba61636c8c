----------------------------- MODULE EventStream -----------------------------
(***************************************************************************)
(* How a change of the store reaches the dashboard.  Every handler that    *)
(* changes what the dashboard shows publishes an event afterwards          *)
(* (internal/api/server.go); the event stream of each tab has a bounded    *)
(* buffer, and a full one drops the event; the tab answers every message,  *)
(* whatever it says, with a refresh (App.tsx), which gets the parts of the *)
(* state in separate requests (api.ts); one failing request ends it without *)
(* a trace but a banner.  Refreshes may overlap.                           *)
(*                                                                         *)
(* A state of the store is the set of calls it has carried out.  Only the  *)
(* number of messages counts, because no tab looks into one.  A restart of *)
(* the API may lose changes; module PostgresStore says which.              *)
(***************************************************************************)
EXTENDS Integers

CONSTANTS
    Tabs,           \* dashboards that may be open
    Calls,          \* requests that change what a dashboard shows
    Parts,          \* the lists api.load gets, seven in the code
    Loads,          \* bound: refreshes a tab has in flight at once
    BufferSize,     \* eight in the code
    WireSize,       \* bound: messages on the way to a tab
    MaxFaults       \* bound: broken streams, failing writes and refreshes, restarts

ASSUME SizesAssumption ==
    BufferSize \in Nat \ {0} /\ WireSize \in Nat \ {0} /\ MaxFaults \in Nat
ASSUME PartsAssumption == Parts # {}

VARIABLES
    call,       \* each request: "new", "changed" (the store, no event yet),
                \* "returned", "failed" (in the row), or "lost" in a restart
    stream,     \* each tab's event stream
    buffer,     \* events in the channel of each stream
    wire,       \* messages written to each stream and not yet received
    load,       \* each refresh: the answer, if any, to each of its requests
    shown,      \* what each tab shows
    faults,     \* faults that may still happen
    seen,       \* history: the changes each tab has ever shown, by part
    missed      \* history: the changes a failed refresh of each tab would have
                \* read, until it starts another one

vars == <<call, stream, buffer, wire, load, shown, faults, seen, missed>>
tabVars == <<load, shown, seen, missed>>

Store == { c \in Calls : call[c] \notin {"new", "lost"} }
Nowhere == [p \in Parts |-> {}]
Started == [p \in Parts |-> {}]
Idle == [p \in {} |-> {}]
Unanswered(t, l) == { p \in DOMAIN load[t][l] : load[t][l][p] = {} }

\* The map Server.clients: a stream registers before it greets.
Clients == { t \in Tabs : stream[t] # "closed" }
Closed(t) ==
    /\ stream' = [stream EXCEPT ![t] = "closed"]
    /\ buffer' = [buffer EXCEPT ![t] = 0]
    /\ wire' = [wire EXCEPT ![t] = 0]

Init ==
    /\ call = [c \in Calls |-> "new"]
    /\ stream = [t \in Tabs |-> "closed"]
    /\ buffer = [t \in Tabs |-> 0] /\ wire = [t \in Tabs |-> 0]
    /\ load = [t \in Tabs |-> [l \in Loads |-> Idle]]
    /\ shown = [t \in Tabs |-> Nowhere] /\ seen = shown
    /\ missed = [t \in Tabs |-> {}]
    /\ faults = MaxFaults

-----------------------------------------------------------------------------
(* A handler: the store's method, the answer, publish.  *)

Change(c) ==
    /\ call[c] = "new"
    /\ call' = [call EXCEPT ![c] = "changed"]
    /\ UNCHANGED <<stream, buffer, wire, tabVars, faults>>

\* Mutant: a send without default waits for a full buffer.
PublishBlocks(c) ==
    /\ call[c] = "changed"
    /\ \A t \in Clients : buffer[t] < BufferSize
    /\ call' = [call EXCEPT ![c] = "returned"]
    /\ buffer' = [t \in Tabs |-> IF t \in Clients THEN buffer[t] + 1 ELSE buffer[t]]
    /\ UNCHANGED <<stream, wire, tabVars, faults>>

\* Mutant: a channel without a capacity.
PublishUnbounded(c) ==
    /\ call[c] = "changed"
    /\ call' = [call EXCEPT ![c] = "returned"]
    /\ buffer' = [t \in Tabs |-> IF t \in Clients THEN buffer[t] + 1 ELSE buffer[t]]
    /\ UNCHANGED <<stream, wire, tabVars, faults>>

Publish(c) ==
    /\ call[c] = "changed"
    /\ call' = [call EXCEPT ![c] = "returned"]
    /\ buffer' = [t \in Tabs |->
                    IF t \in Clients /\ buffer[t] < BufferSize THEN buffer[t] + 1 ELSE buffer[t]]
    /\ UNCHANGED <<stream, wire, tabVars, faults>>

\* addSchedule and completeHostCommand answer an error, and publish nothing,
\* when the row cannot be written; the memory keeps the change.
PersistFails(c) ==
    /\ call[c] = "changed" /\ faults > 0
    /\ call' = [call EXCEPT ![c] = "failed"]
    /\ faults' = faults - 1
    /\ UNCHANGED <<stream, buffer, wire, tabVars>>

(* Server.events, one per open stream *)

Connect(t) ==
    /\ stream[t] = "closed"
    /\ stream' = [stream EXCEPT ![t] = "greeting"]
    /\ UNCHANGED <<call, buffer, wire, tabVars, faults>>

Write(t) == wire[t] < WireSize /\ wire' = [wire EXCEPT ![t] = @ + 1]

Greet(t) ==
    /\ stream[t] = "greeting"
    /\ Write(t)
    /\ stream' = [stream EXCEPT ![t] = "open"]
    /\ UNCHANGED <<call, buffer, tabVars, faults>>

Forward(t) ==
    /\ stream[t] = "open" /\ buffer[t] > 0
    /\ Write(t)
    /\ buffer' = [buffer EXCEPT ![t] = @ - 1]
    /\ UNCHANGED <<call, stream, tabVars, faults>>

\* Mutant: the heartbeat is a comment, which no tab takes for a message.
HeartbeatComment(t) ==
    /\ stream[t] = "open" /\ wire[t] < WireSize
    /\ UNCHANGED vars

Heartbeat(t) ==
    /\ stream[t] = "open"
    /\ Write(t)
    /\ UNCHANGED <<call, stream, buffer, tabVars, faults>>

(* The tab *)

Starts(t) ==
    /\ \E l \in Loads : load[t][l] = Idle /\ load' = [load EXCEPT ![t][l] = Started]
    /\ missed' = [missed EXCEPT ![t] = {}]

\* Mutant: a message that comes during a refresh starts no other one.
ReceiveUnlessLoading(t) ==
    /\ wire[t] > 0
    /\ wire' = [wire EXCEPT ![t] = @ - 1]
    /\ IF \E l \in Loads : load[t][l] # Idle
         THEN UNCHANGED <<load, missed>> ELSE Starts(t)
    /\ UNCHANGED <<call, stream, buffer, shown, faults, seen>>

Receive(t) ==
    /\ wire[t] > 0
    /\ wire' = [wire EXCEPT ![t] = @ - 1]
    /\ Starts(t)
    /\ UNCHANGED <<call, stream, buffer, shown, faults, seen>>

\* When the page opens, after a call of its own, or on "Reintentar enlace".
Refresh(t) ==
    /\ Starts(t)
    /\ UNCHANGED <<call, stream, buffer, wire, shown, faults, seen>>

Answer(t, l, p) ==
    /\ p \in Unanswered(t, l)
    /\ load' = [load EXCEPT ![t][l][p] = {Store}]
    /\ UNCHANGED <<call, stream, buffer, wire, shown, faults, seen, missed>>

\* setData, whatever was shown before.
Show(t, l) ==
    /\ load[t][l] # Idle /\ Unanswered(t, l) = {}
    /\ shown' = [shown EXCEPT ![t] = [p \in Parts |-> UNION load[t][l][p]]]
    /\ seen' = [seen EXCEPT ![t] = [p \in Parts |-> @[p] \cup UNION load[t][l][p]]]
    /\ load' = [load EXCEPT ![t][l] = Idle]
    /\ UNCHANGED <<call, stream, buffer, wire, faults, missed>>

(* Faults *)

\* A refresh that has not yet passed by the change of call c.
WillRead(t, l, c) ==
    load[t][l] # Idle /\ \A p \in Parts : \A view \in load[t][l][p] : c \in view

\* One request is answered with an error, or not at all: get throws, and the
\* refresh is given up with what it had got, while the stream stays open.
RefreshFails(t, l) ==
    /\ Unanswered(t, l) # {} /\ faults > 0
    /\ faults' = faults - 1
    /\ load' = [load EXCEPT ![t][l] = Idle]
    /\ missed' = [missed EXCEPT ![t] = @ \cup { c \in Store : WillRead(t, l, c) }]
    /\ UNCHANGED <<call, stream, buffer, wire, shown, seen>>

\* The request of the stream ends; the browser will connect again.
StreamBreaks(t) ==
    /\ stream[t] # "closed" /\ faults > 0
    /\ faults' = faults - 1
    /\ Closed(t)
    /\ UNCHANGED <<call, tabVars>>

\* The API process ends and starts again: events of calls in the middle are
\* never sent, changes that the row does not have are lost, and refreshes
\* with an unanswered request fail.
ApiRestarts ==
    /\ faults > 0
    /\ faults' = faults - 1
    /\ \E gone \in SUBSET Store :
          call' = [c \in Calls |->
                     IF c \in gone THEN "lost"
                     ELSE IF call[c] = "changed" THEN "returned" ELSE call[c]]
    /\ stream' = [t \in Tabs |-> "closed"]
    /\ buffer' = [t \in Tabs |-> 0] /\ wire' = [t \in Tabs |-> 0]
    /\ load' = [t \in Tabs |-> [l \in Loads |->
                  IF Unanswered(t, l) # {} THEN Idle ELSE load[t][l]]]
    /\ UNCHANGED <<shown, seen, missed>>

-----------------------------------------------------------------------------

Server(t) == Greet(t) \/ Forward(t) \/ Heartbeat(t)
Loading(t) == \E l \in Loads : Show(t, l) \/ \E p \in Parts : Answer(t, l, p)
Tab(t) == Connect(t) \/ Receive(t) \/ Loading(t)

Next ==
    \/ \E c \in Calls : Change(c) \/ Publish(c) \/ PersistFails(c)
    \/ \E t \in Tabs : Server(t) \/ Tab(t) \/ Refresh(t) \/ StreamBreaks(t)
    \/ \E t \in Tabs : \E l \in Loads : RefreshFails(t, l)
    \/ ApiRestarts

Spec == Init /\ [][Next]_vars

\* The API runs its handlers, and each stream's loop with its ticker of
\* twenty seconds.  Of a tab nothing is assumed: a browser may put it to
\* sleep, with its stream open.
FairSpec ==
    /\ Spec
    /\ \A c \in Calls : WF_vars(Publish(c))
    /\ \A t \in Tabs : WF_vars(Server(t))

-----------------------------------------------------------------------------

View == [Parts -> SUBSET Calls]

TypeOK ==
    /\ call \in [Calls -> {"new", "changed", "returned", "failed", "lost"}]
    /\ stream \in [Tabs -> {"closed", "greeting", "open"}]
    /\ buffer \in [Tabs -> 0..BufferSize]
    /\ wire \in [Tabs -> 0..WireSize]
    /\ \A t \in Tabs : stream[t] # "open" => wire[t] = 0
    /\ load \in [Tabs -> [Loads -> [Parts -> SUBSET SUBSET Calls] \cup {Idle}]]
    /\ shown \in [Tabs -> View] /\ seen \in [Tabs -> View]
    /\ missed \in [Tabs -> SUBSET Calls]
    /\ faults \in 0..MaxFaults

\* Every change has been on the screen of every tab, in all its parts, or
\* something is on its way there: the handler has yet to publish, a message
\* waits in the buffer or on the wire, the stream will greet, or a refresh
\* will read it.  Events dropped at a full buffer, a handler killed before
\* it publishes, and a broken stream lose nothing.  Two kinds of change wait
\* for the next message, at the latest the heartbeat: one whose call was
\* answered with an error, and one whose refresh failed.
NoChangeIsForgotten ==
    \A t \in Tabs : \A c \in Store :
        \/ \A p \in Parts : c \in seen[t][p]
        \/ call[c] \in {"changed", "failed"}
        \/ stream[t] # "open" \/ buffer[t] > 0 \/ wire[t] > 0
        \/ \E l \in Loads : WillRead(t, l, c)
        \/ c \in missed[t]

\* A tab that is kept running ends up showing the store as it is, also when an
\* older refresh was shown last, a change had no event, the refresh that would
\* have read it failed, or a restart took a change back that was shown already:
\* the heartbeat starts a new refresh.
TabsCatchUp ==
    \A t \in Tabs :
        WF_vars(Tab(t)) => <>[](\A p \in Parts : shown[t][p] = Store)

\* No call waits for a dashboard, not even for one that has stopped reading
\* its stream for ever.
CallsReturn == \A c \in Calls : call[c] = "changed" ~> call[c] # "changed"
=============================================================================
