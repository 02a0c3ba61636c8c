-------------------------- MODULE EventStreamProofs --------------------------
(***************************************************************************)
(* Proofs about EventStream, for any number of tabs, calls, parts and      *)
(* refreshes, any sizes of the buffer and of the connection, and any       *)
(* number of faults.                                                       *)
(***************************************************************************)
EXTENDS EventStream, TLAPS

IInv == TypeOK /\ NoChangeIsForgotten

Answers == [Parts -> SUBSET SUBSET Calls]

\* One change and one tab: what NoChangeIsForgotten says of them.
Remembered(t, c) ==
    \/ \A p \in Parts : c \in seen[t][p]
    \/ call[c] \in {"changed", "failed"}
    \/ stream[t] # "open" \/ buffer[t] > 0 \/ wire[t] > 0
    \/ \E l \in Loads : WillRead(t, l, c)
    \/ c \in missed[t]

-----------------------------------------------------------------------------

\* A refresh that has begun is told from one that has not: there is a part.
LEMMA BegunIsNotIdle == \A f \in Answers : f # Idle
<1> SUFFICES ASSUME NEW f \in Answers, f = Idle PROVE FALSE
  OBVIOUS
<1>1. DOMAIN f = Parts /\ DOMAIN Idle = {}
  BY DEF Answers, Idle
<1> QED
  BY <1>1, PartsAssumption

LEMMA StartedIsBegun == Started \in Answers /\ \A p \in Parts : Started[p] = {}
BY DEF Started, Answers

\* What a refresh in flight looks like.
LEMMA LoadTypes ==
    ASSUME TypeOK, NEW t \in Tabs, NEW l \in Loads
    PROVE  load[t][l] = Idle \/ load[t][l] \in Answers
BY DEF TypeOK, Answers

\* Changing one refresh of one tab to another well-formed value.
LEMMA OneLoadChanges ==
    ASSUME TypeOK, NEW t \in Tabs, NEW l \in Loads, NEW f \in Answers \cup {Idle},
           load' = [load EXCEPT ![t][l] = f]
    PROVE  /\ load' \in [Tabs -> [Loads -> Answers \cup {Idle}]]
           /\ load'[t][l] = f
           /\ \A u \in Tabs, m \in Loads : <<u, m>> # <<t, l>> => load'[u][m] = load[u][m]
BY DEF TypeOK, Answers

LEMMA InitEstablishes == Init => IInv
<1> SUFFICES ASSUME Init PROVE IInv
  OBVIOUS
<1>1. TypeOK
  <2>1. shown \in [Tabs -> View] /\ seen \in [Tabs -> View]
    BY DEF Init, View, Nowhere
  <2>2. buffer \in [Tabs -> 0..BufferSize] /\ wire \in [Tabs -> 0..WireSize]
        /\ faults \in 0..MaxFaults
    BY SizesAssumption DEF Init
  <2> QED
    BY <2>1, <2>2 DEF Init, TypeOK
<1>2. NoChangeIsForgotten
  BY DEF Init, NoChangeIsForgotten, Store
<1> QED
  BY <1>1, <1>2 DEF IInv

-----------------------------------------------------------------------------
(* Types *)

LEMMA HandlersKeepTypes ==
    ASSUME TypeOK, \/ \E c \in Calls : Change(c) \/ Publish(c) \/ PersistFails(c)
                   \/ ApiRestarts
    PROVE  TypeOK'
<1> USE SizesAssumption
<1>1. ASSUME NEW c \in Calls, Change(c) PROVE TypeOK'
  BY <1>1 DEF TypeOK, Change, tabVars, View
<1>2. ASSUME NEW c \in Calls, Publish(c) PROVE TypeOK'
  <2>1. buffer' \in [Tabs -> 0..BufferSize]
    BY <1>2 DEF TypeOK, Publish
  <2> QED
    BY <1>2, <2>1 DEF TypeOK, Publish, tabVars, View
<1>3. ASSUME NEW c \in Calls, PersistFails(c) PROVE TypeOK'
  BY <1>3 DEF TypeOK, PersistFails, tabVars, View
<1>4. CASE ApiRestarts
  <2>1. load' \in [Tabs -> [Loads -> [Parts -> SUBSET SUBSET Calls] \cup {Idle}]]
    BY <1>4 DEF TypeOK, ApiRestarts
  <2>2. call' \in [Calls -> {"new", "changed", "returned", "failed", "lost"}]
    BY <1>4 DEF TypeOK, ApiRestarts
  <2> QED
    BY <1>4, <2>1, <2>2 DEF TypeOK, ApiRestarts, View
<1> QED
  BY <1>1, <1>2, <1>3, <1>4

LEMMA StreamsKeepTypes ==
    ASSUME TypeOK, NEW t \in Tabs, Server(t) \/ Connect(t) \/ StreamBreaks(t)
    PROVE  TypeOK'
<1> USE SizesAssumption DEF TypeOK, tabVars, View
<1>1. CASE Greet(t)
  BY <1>1 DEF Greet, Write
<1>2. CASE Forward(t)
  BY <1>2 DEF Forward, Write
<1>3. CASE Heartbeat(t)
  BY <1>3 DEF Heartbeat, Write
<1>4. CASE Connect(t)
  BY <1>4 DEF Connect
<1>5. CASE StreamBreaks(t)
  BY <1>5 DEF StreamBreaks, Closed
<1> QED
  BY <1>1, <1>2, <1>3, <1>4, <1>5 DEF Server

LEMMA TabsKeepTypes ==
    ASSUME TypeOK, NEW t \in Tabs,
           Receive(t) \/ Refresh(t) \/ Loading(t) \/ \E l \in Loads : RefreshFails(t, l)
    PROVE  TypeOK'
<1>1. ASSUME Starts(t)
      PROVE  load' \in [Tabs -> [Loads -> Answers \cup {Idle}]] /\ missed' \in [Tabs -> SUBSET Calls]
  BY <1>1, OneLoadChanges, StartedIsBegun DEF Starts, TypeOK
<1>2. CASE Receive(t)
  BY <1>1, <1>2, SizesAssumption DEF TypeOK, Receive, View, Answers
<1>3. CASE Refresh(t)
  BY <1>1, <1>3 DEF TypeOK, Refresh, View, Answers
<1>4. ASSUME NEW l \in Loads, NEW p \in Parts, Answer(t, l, p) PROVE TypeOK'
  <2> DEFINE f == [load[t][l] EXCEPT ![p] = {Store}]
  <2>1. f \in Answers
    BY <1>4, LoadTypes DEF Answer, Answers, Store, Unanswered, Idle
  <2>2. load' = [load EXCEPT ![t][l] = f]
    BY <1>4 DEF Answer
  <2>3. load' \in [Tabs -> [Loads -> Answers \cup {Idle}]]
    BY <2>1, <2>2, OneLoadChanges
  <2> QED
    BY <1>4, <2>3 DEF TypeOK, Answer, View, Answers
<1>5. ASSUME NEW l \in Loads, Show(t, l) PROVE TypeOK'
  <2>1. load' \in [Tabs -> [Loads -> Answers \cup {Idle}]]
    BY <1>5, OneLoadChanges DEF Show
  <2>2. [p \in Parts |-> UNION load[t][l][p]] \in View
    BY <1>5, LoadTypes DEF Show, View, Answers
  <2>3. [p \in Parts |-> seen[t][p] \cup UNION load[t][l][p]] \in View
    BY <1>5, LoadTypes DEF Show, View, Answers, TypeOK
  <2>4. shown' \in [Tabs -> View]
    BY <1>5, <2>2 DEF TypeOK, Show
  <2>5. seen' \in [Tabs -> View]
    BY <1>5, <2>3 DEF TypeOK, Show
  <2> QED
    BY <1>5, <2>1, <2>4, <2>5 DEF TypeOK, Show, Answers
<1>6. ASSUME NEW l \in Loads, RefreshFails(t, l) PROVE TypeOK'
  <2>1. load' \in [Tabs -> [Loads -> Answers \cup {Idle}]]
    BY <1>6, OneLoadChanges DEF RefreshFails
  <2>2. missed' \in [Tabs -> SUBSET Calls]
    BY <1>6 DEF RefreshFails, TypeOK, Store
  <2> QED
    BY <1>6, <2>1, <2>2, SizesAssumption DEF TypeOK, RefreshFails, View, Answers
<1> QED
  BY <1>2, <1>3, <1>4, <1>5, <1>6 DEF Loading

-----------------------------------------------------------------------------
(* No change is forgotten *)

\* A handler leaves its own change behind it only with an event in the buffer
\* of every open stream: a full buffer has one already.
LEMMA HandlersRemember ==
    ASSUME IInv, \/ \E c \in Calls : Change(c) \/ Publish(c) \/ PersistFails(c)
                 \/ ApiRestarts,
           NEW t \in Tabs, NEW d \in Store'
    PROVE  Remembered(t, d)'
<1> USE DEF IInv
<1>0. d \in Calls
  BY DEF Store
<1>1. ASSUME NEW c \in Calls, Change(c) PROVE Remembered(t, d)'
  <2>1. CASE d = c
    BY <1>1, <2>1 DEF Change, TypeOK, Remembered
  <2>2. CASE d # c
    <3>1. d \in Store /\ call'[d] = call[d]
      BY <1>0, <1>1, <2>2 DEF Change, TypeOK, Store
    <3> QED
      BY <1>1, <3>1 DEF Change, tabVars, NoChangeIsForgotten, Remembered, WillRead
  <2> QED
    BY <2>1, <2>2
<1>2. ASSUME NEW c \in Calls, Publish(c) PROVE Remembered(t, d)'
  <2>1. CASE stream[t] = "open"
    <3>1. buffer'[t] > 0
      BY <1>2, <2>1, SizesAssumption DEF Publish, Clients, TypeOK
    <3> QED
      BY <3>1 DEF Remembered
  <2>2. CASE stream[t] # "open"
    BY <1>2, <2>2 DEF Publish, Remembered
  <2> QED
    BY <2>1, <2>2
<1>3. ASSUME NEW c \in Calls, PersistFails(c) PROVE Remembered(t, d)'
  <2>1. CASE d = c
    BY <1>3, <2>1 DEF PersistFails, TypeOK, Remembered
  <2>2. CASE d # c
    <3>1. d \in Store /\ call'[d] = call[d]
      BY <1>0, <1>3, <2>2 DEF PersistFails, TypeOK, Store
    <3> QED
      BY <1>3, <3>1 DEF PersistFails, tabVars, NoChangeIsForgotten, Remembered, WillRead
  <2> QED
    BY <2>1, <2>2
<1>4. CASE ApiRestarts
  <2>1. stream'[t] # "open"
    BY <1>4 DEF ApiRestarts
  <2> QED
    BY <2>1 DEF Remembered
<1> QED
  BY <1>1, <1>2, <1>3, <1>4

\* A stream passes an event on as a message, and a new stream begins with one.
LEMMA StreamsRemember ==
    ASSUME IInv, NEW u \in Tabs, Server(u) \/ Connect(u) \/ StreamBreaks(u),
           NEW t \in Tabs, NEW d \in Store'
    PROVE  Remembered(t, d)'
<1>1. UNCHANGED <<call, load, seen, missed>>
  BY DEF Server, Greet, Forward, Heartbeat, Connect, StreamBreaks, tabVars
<1>2. Remembered(t, d)
  BY <1>1 DEF IInv, NoChangeIsForgotten, Remembered, Store
<1>3. CASE t # u
  <2>1. stream'[t] = stream[t] /\ buffer'[t] = buffer[t] /\ wire'[t] = wire[t]
    BY <1>3 DEF IInv, TypeOK, Server, Greet, Forward, Heartbeat, Write, Connect,
                StreamBreaks, Closed
  <2> QED
    BY <1>1, <1>2, <2>1 DEF Remembered, WillRead
<1>4. CASE t = u
  <2>1. stream'[t] # "open" \/ wire'[t] > 0
    BY <1>4 DEF IInv, TypeOK, Server, Greet, Forward, Heartbeat, Write, Connect,
                StreamBreaks, Closed
  <2> QED
    BY <2>1 DEF Remembered
<1> QED
  BY <1>3, <1>4

\* A message becomes a refresh that will read every change there is; a refresh
\* becomes what is shown, or what the tab has missed.
LEMMA TabsRemember ==
    ASSUME IInv, NEW u \in Tabs,
           Receive(u) \/ Refresh(u) \/ Loading(u) \/ \E l \in Loads : RefreshFails(u, l),
           NEW t \in Tabs, NEW d \in Store'
    PROVE  Remembered(t, d)'
<1> USE DEF IInv
<1>0. TypeOK
  OBVIOUS
<1>1. UNCHANGED <<call, stream, buffer>>
  BY DEF Receive, Refresh, Loading, Show, Answer, RefreshFails
<1>2. Remembered(t, d) /\ d \in Store /\ d \in Calls
  BY <1>1 DEF NoChangeIsForgotten, Remembered, Store
<1>3. ASSUME NEW l \in Loads, load[u][l] = Idle, load' = [load EXCEPT ![u][l] = Started]
      PROVE  /\ WillRead(u, l, d)'
             /\ \A m \in Loads : WillRead(t, m, d) => WillRead(t, m, d)'
  <2>1. /\ load'[u][l] = Started
        /\ \A v \in Tabs, m \in Loads : <<v, m>> # <<u, l>> => load'[v][m] = load[v][m]
    BY <1>0, <1>3 DEF TypeOK
  <2> QED
    BY <1>3, <2>1, StartedIsBegun, BegunIsNotIdle DEF WillRead
<1>4. CASE Receive(u)
  <2>1. PICK l \in Loads : load[u][l] = Idle /\ load' = [load EXCEPT ![u][l] = Started]
    BY <1>4 DEF Receive, Starts
  <2>2. CASE t = u
    BY <1>3, <2>1, <2>2 DEF Remembered
  <2>3. CASE t # u
    <3>1. seen' = seen /\ wire'[t] = wire[t] /\ missed'[t] = missed[t]
      BY <1>4, <2>3 DEF Receive, Starts, TypeOK
    <3> QED
      BY <1>1, <1>2, <1>3, <2>1, <3>1 DEF Remembered
  <2> QED
    BY <2>2, <2>3
<1>5. CASE Refresh(u)
  <2>1. PICK l \in Loads : load[u][l] = Idle /\ load' = [load EXCEPT ![u][l] = Started]
    BY <1>5 DEF Refresh, Starts
  <2>2. CASE t = u
    BY <1>3, <2>1, <2>2 DEF Remembered
  <2>3. CASE t # u
    <3>1. seen' = seen /\ wire' = wire /\ missed'[t] = missed[t]
      BY <1>5, <2>3 DEF Refresh, Starts, TypeOK
    <3> QED
      BY <1>1, <1>2, <1>3, <2>1, <3>1 DEF Remembered
  <2> QED
    BY <2>2, <2>3
<1>6. ASSUME NEW l \in Loads, NEW p \in Parts, Answer(u, l, p) PROVE Remembered(t, d)'
  <2> DEFINE f == [load[u][l] EXCEPT ![p] = {Store}]
  <2>1. load[u][l] \in Answers /\ f \in Answers
    BY <1>6, LoadTypes DEF Answer, Answers, Store, Unanswered, Idle
  <2>2. load' = [load EXCEPT ![u][l] = f]
    BY <1>6 DEF Answer
  <2>3. /\ load'[u][l] = f
        /\ \A v \in Tabs, m \in Loads : <<v, m>> # <<u, l>> => load'[v][m] = load[v][m]
    <3> HIDE DEF f
    <3> QED
      BY <1>0, <2>2 DEF TypeOK
  <2>4. \A q \in Parts : f[q] = IF q = p THEN {Store} ELSE load[u][l][q]
    BY <2>1 DEF Answers
  <2>5. f # Idle
    BY <2>1, BegunIsNotIdle
  <2> HIDE DEF f
  <2>6. ASSUME NEW m \in Loads, WillRead(t, m, d) PROVE WillRead(t, m, d)'
    <3>1. CASE <<t, m>> # <<u, l>>
      BY <2>3, <2>6, <3>1 DEF WillRead
    <3>2. CASE <<t, m>> = <<u, l>>
      BY <1>2, <2>3, <2>4, <2>5, <2>6, <3>2 DEF WillRead
    <3> QED
      BY <3>1, <3>2
  <2>7. seen' = seen /\ wire' = wire /\ missed' = missed
    BY <1>6 DEF Answer
  <2> QED
    BY <1>1, <1>2, <2>6, <2>7 DEF Remembered
<1>7. ASSUME NEW l \in Loads, Show(u, l) PROVE Remembered(t, d)'
  <2>1. load[u][l] \in Answers
    BY <1>7, LoadTypes DEF Show
  <2>2. \A v \in Tabs, m \in Loads : <<v, m>> # <<u, l>> => load'[v][m] = load[v][m]
    BY <1>7, OneLoadChanges DEF Show
  <2>3. /\ \A p \in Parts : seen'[u][p] = seen[u][p] \cup UNION load[u][l][p]
        /\ t # u => seen'[t] = seen[t]
    BY <1>7 DEF Show, TypeOK, View
  <2>4. wire' = wire /\ missed' = missed
    BY <1>7 DEF Show
  <2>5. \A p \in Parts : d \in seen[t][p] => d \in seen'[t][p]
    BY <2>3
  <2>6. CASE \E m \in Loads : WillRead(t, m, d) /\ <<t, m>> # <<u, l>>
    BY <2>2, <2>6 DEF Remembered, WillRead
  <2>7. CASE t = u /\ WillRead(u, l, d)
    <3>1. \A p \in Parts : d \in UNION load[u][l][p]
      BY <1>7, <2>1, <2>7 DEF Show, WillRead, Unanswered, Answers
    <3> QED
      BY <2>3, <2>7, <3>1 DEF Remembered
  <2>8. CASE ~ \E m \in Loads : WillRead(t, m, d)
    BY <1>1, <1>2, <2>4, <2>5, <2>8 DEF Remembered
  <2> QED
    BY <2>6, <2>7, <2>8
<1>8. ASSUME NEW l \in Loads, RefreshFails(u, l) PROVE Remembered(t, d)'
  <2>1. \A v \in Tabs, m \in Loads : <<v, m>> # <<u, l>> => load'[v][m] = load[v][m]
    BY <1>8, OneLoadChanges DEF RefreshFails
  <2>2. /\ seen' = seen /\ wire' = wire
        /\ missed[t] \subseteq missed'[t]
        /\ WillRead(u, l, d) => d \in missed'[u]
    BY <1>2, <1>8 DEF RefreshFails, TypeOK
  <2>3. CASE \E m \in Loads : WillRead(t, m, d) /\ <<t, m>> # <<u, l>>
    BY <2>1, <2>3 DEF Remembered, WillRead
  <2>4. CASE t = u /\ WillRead(u, l, d)
    BY <2>2, <2>4 DEF Remembered
  <2>5. CASE ~ \E m \in Loads : WillRead(t, m, d)
    BY <1>1, <1>2, <2>2, <2>5 DEF Remembered
  <2> QED
    BY <2>3, <2>4, <2>5
<1> QED
  BY <1>4, <1>5, <1>6, <1>7, <1>8 DEF Loading

-----------------------------------------------------------------------------

LEMMA StepPreserves == IInv /\ [Next]_vars => IInv'
<1> SUFFICES ASSUME IInv, [Next]_vars PROVE IInv'
  OBVIOUS
<1>0. TypeOK
  BY DEF IInv
<1>1. ASSUME \A t \in Tabs : \A d \in Store' : Remembered(t, d)'
      PROVE  NoChangeIsForgotten'
  BY <1>1 DEF Remembered, NoChangeIsForgotten
<1>2. CASE (\E c \in Calls : Change(c) \/ Publish(c) \/ PersistFails(c)) \/ ApiRestarts
  <2>1. TypeOK'
    BY ONLY <1>0, <1>2, HandlersKeepTypes
  <2>2. \A t \in Tabs : \A d \in Store' : Remembered(t, d)'
    BY <1>2, HandlersRemember
  <2> QED
    BY <1>1, <2>1, <2>2 DEF IInv
<1>3. ASSUME NEW t \in Tabs, Server(t) \/ Connect(t) \/ StreamBreaks(t) PROVE IInv'
  <2>1. TypeOK'
    BY <1>0, <1>3, StreamsKeepTypes
  <2>2. \A u \in Tabs : \A d \in Store' : Remembered(u, d)'
    BY <1>3, StreamsRemember
  <2> QED
    BY <1>1, <2>1, <2>2 DEF IInv
<1>4. ASSUME NEW t \in Tabs,
             Receive(t) \/ Refresh(t) \/ Loading(t) \/ \E l \in Loads : RefreshFails(t, l)
      PROVE  IInv'
  <2>1. TypeOK'
    BY <1>0, <1>4, TabsKeepTypes
  <2>2. \A u \in Tabs : \A d \in Store' : Remembered(u, d)'
    BY <1>4, TabsRemember
  <2> QED
    BY <1>1, <2>1, <2>2 DEF IInv
<1>5. CASE UNCHANGED vars
  <2>1. TypeOK'
    BY <1>0, <1>5 DEF TypeOK, vars, View
  <2>2. NoChangeIsForgotten'
    BY <1>5 DEF IInv, NoChangeIsForgotten, Store, WillRead, vars
  <2> QED
    BY <2>1, <2>2 DEF IInv
<1> QED
  BY <1>2, <1>3, <1>4, <1>5 DEF Next, Tab

LEMMA Inductive == Spec => []IInv
BY InitEstablishes, StepPreserves, PTL DEF Spec

\* Buffers and connections keep within their sizes, and every variable within
\* its type.
THEOREM TypeCorrect == Spec => []TypeOK
<1>1. IInv => TypeOK
  BY DEF IInv
<1> QED
  BY <1>1, Inductive, PTL

\* Whatever is dropped, broken or restarted, a change that was answered as a
\* success has reached every open tab or is on its way there, unless a refresh
\* that would have read it failed and no other one has been started since.
THEOREM ChangesReachTabs == Spec => []NoChangeIsForgotten
<1>1. IInv => NoChangeIsForgotten
  BY DEF IInv
<1> QED
  BY <1>1, Inductive, PTL
=============================================================================
