------------------------- MODULE StagingWorkerProofs -------------------------
(***************************************************************************)
(* Proofs about StagingWorker, for any number of names, captures, crashes  *)
(* and failing calls, any sizes and any limits of the retention.           *)
(***************************************************************************)
EXTENDS StagingWorker, TLAPS

FilterPoints == {"filter", "filtering", "removePartial"}
RawPoints    == FilterPoints \cup {"retain", "discardRaw"}

\* The entries of the round and the one in hand are staged, until the raw
\* file of the latter is removed; each source takes its own way.
Entries ==
    /\ \A n \in listing : staging[n] # Nothing /\ n # current
    /\ pc \in RawPoints => staging[current] # Nothing
    /\ pc \in FilterPoints => current \in RadioNames
    /\ pc = "retain" => current \in LocalNames

\* No two files hold the same capture, and a capture that is not published
\* yet is nowhere.
Distinct ==
    /\ \A n, m \in Names :
          (staging[n] # Nothing /\ staging[m] # Nothing
           /\ staging[n].capture = staging[m].capture) => n = m
    /\ \A n \in Names : staging[n] # Nothing => staging[n].capture <= captures
    /\ \A n \in Names : retained[n] # Nothing => retained[n].capture <= captures
    /\ \A c \in Captures : c > captures => reports[c] = 0 /\ kept[c] = 0

\* What the worker has made of the entry in hand.  A copy that is given up
\* while it is partial is the work of a filter that was refused or of a
\* removal that failed.
Copying ==
    /\ \A n \in LocalNames : retained[n] # Nothing => retained[n].whole
    /\ pc \in {"filtering", "removeRaw", "analyze", "upload"} => retained[current] # Nothing
    /\ (pc \in {"filtering", "removeRaw"} /\ staging[current] # Nothing) =>
          retained[current].capture = staging[current].capture
    /\ pc \in {"removeRaw", "analyze", "upload"} => retained[current].whole
    /\ (pc \in {"analyze", "upload"} /\ staging[current] # Nothing) =>
          kept[retained[current].capture] > 0
    /\ (pc = "discardRaw" /\ retained[current] # Nothing /\ ~retained[current].whole) =>
          ~allowlist \/ staging[current].capture \in left

\* A report of capture c can still be made from its raw file, or from the
\* copy in hand once the raw file has been dealt with.
InStaging(c) == \E n \in Names : Staged(c, n)
InHand(c) ==
    /\ \/ pc \in {"analyze", "upload"}
       \/ pc = "removeRaw" /\ staging[current] = Nothing
    /\ retained[current].capture = c

\* Reports made and reports that can still be made, counted together.
Counted ==
    \A c \in Captures :
        /\ reports[c] <= 1 + kept[c]
        /\ (InStaging(c) \/ InHand(c)) => reports[c] <= kept[c]
        /\ (InStaging(c) /\ InHand(c)) => reports[c] + 1 <= kept[c]

IInv == TypeOK /\ Entries /\ Distinct /\ Copying /\ Counted

-----------------------------------------------------------------------------

\* Only retained files are ever removed by the pruning.
LEMMA PrunableAreNames == Prunable \subseteq Names
BY DEF Prunable, Expired, Oldest, Unexpired, Present

LEMMA InitEstablishes == Init => IInv
<1> SUFFICES ASSUME Init PROVE IInv
  OBVIOUS
<1> USE NamesAssumption, NothingAssumption, BoundsAssumption DEF Init, Captures
<1>1. TypeOK
  <2>1. up \in BOOLEAN /\ allowlist \in BOOLEAN /\ pc \in Points /\ listing \subseteq Names
    BY DEF Points
  <2>2. clock \in 0..Horizon /\ captures \in 0..MaxCaptures /\ faults \in 0..MaxFaults
    OBVIOUS
  <2>3. staging \in [Names -> Raw \cup {Nothing}] /\ retained \in [Names -> Copy \cup {Nothing}]
    OBVIOUS
  <2>4. reports \in [Captures -> Nat] /\ kept \in [Captures -> Nat] /\ left \subseteq Captures
    OBVIOUS
  <2> QED
    BY <2>1, <2>2, <2>3, <2>4 DEF TypeOK
<1>2. Entries /\ Distinct /\ Copying
  BY DEF Entries, Distinct, Copying, RawPoints, FilterPoints, Names
<1>3. Counted
  BY DEF Counted, InStaging, InHand, Staged, Names
<1> QED
  BY <1>1, <1>2, <1>3 DEF IInv

-----------------------------------------------------------------------------

\* What the helpers shared by several actions do.

LEMMA FaultIsBounded == TypeOK /\ Fault => faults' \in 0..MaxFaults
BY BoundsAssumption DEF TypeOK, Fault

LEMMA KeepCounts ==
  ASSUME TypeOK, Keep, current \in Names, staging[current] # Nothing
  PROVE  /\ staging[current].capture \in Captures
         /\ kept' \in [Captures -> Nat]
         /\ \A c \in Captures :
               kept'[c] = IF c = staging[current].capture THEN kept[c] + 1 ELSE kept[c]
<1>1. staging[current].capture \in Captures
  BY DEF TypeOK, Raw
<1> QED
  BY <1>1 DEF TypeOK, Keep

LEMMA ReportedCounts ==
  ASSUME TypeOK, Reported, current \in Names, retained[current] # Nothing
  PROVE  /\ retained[current].capture \in Captures
         /\ reports' \in [Captures -> Nat]
         /\ \A c \in Captures :
               reports'[c] = IF c = retained[current].capture THEN reports[c] + 1 ELSE reports[c]
<1>1. retained[current].capture \in Captures
  BY DEF TypeOK, Copy
<1> QED
  BY <1>1 DEF TypeOK, Reported

LEMMA FilterOpensCopy ==
  ASSUME TypeOK, Entries, FilterOpens
  PROVE  /\ current \in Names
         /\ retained' \in [Names -> Copy \cup {Nothing}]
         /\ retained'[current] # Nothing
         /\ retained'[current].capture = staging[current].capture
         /\ \A n \in Names : n # current => retained'[n] = retained[n]
<1>1. current \in Names /\ staging[current] \in Raw
  BY DEF TypeOK, Entries, RawPoints, FilterPoints, FilterOpens
<1> DEFINE copy == [capture |-> staging[current].capture, modTime |-> clock, whole |-> FALSE]
<1>2. copy \in Copy
  BY <1>1 DEF TypeOK, Raw, Copy
<1>3. copy # Nothing
  BY <1>2, NothingAssumption
<1>4. retained' = [retained EXCEPT ![current] = copy]
  BY DEF FilterOpens
<1> QED
  BY <1>1, <1>2, <1>3, <1>4 DEF TypeOK

LEMMA FilterCompletesCopy ==
  ASSUME TypeOK, Copying, FilterSucceeds
  PROVE  /\ current \in Names
         /\ retained' \in [Names -> Copy \cup {Nothing}]
         /\ retained'[current] # Nothing
         /\ retained'[current].whole
         /\ retained'[current].capture = retained[current].capture
         /\ \A n \in Names : n # current => retained'[n] = retained[n]
<1>1. current \in Names /\ retained[current] \in Copy
  BY DEF TypeOK, Copying, FilterSucceeds
<1> DEFINE copy == [retained[current] EXCEPT !.modTime = clock, !.whole = TRUE]
<1>2. copy \in Copy /\ copy.whole /\ copy.capture = retained[current].capture
  <2>1. clock \in Nat
    BY BoundsAssumption DEF TypeOK
  <2>2. \A file \in Copy, time \in Nat :
           LET new == [file EXCEPT !.modTime = time, !.whole = TRUE]
           IN  new \in Copy /\ new.whole /\ new.capture = file.capture
    BY DEF Copy
  <2> QED
    BY <1>1, <2>1, <2>2
<1>3. copy # Nothing
  BY <1>2, NothingAssumption
<1>4. retained' = [retained EXCEPT ![current] = copy]
  BY <1>1, Zenon DEF FilterSucceeds
<1> QED
  BY <1>1, <1>2, <1>3, <1>4 DEF TypeOK

LEMMA RetainMovesFile ==
  ASSUME TypeOK, Entries, Retains
  PROVE  /\ current \in Names
         /\ retained' \in [Names -> Copy \cup {Nothing}]
         /\ retained'[current] # Nothing
         /\ retained'[current].whole
         /\ retained'[current].capture = staging[current].capture
         /\ \A n \in Names : n # current => retained'[n] = retained[n]
<1>1. current \in Names /\ staging[current] \in Raw
  BY DEF TypeOK, Entries, RawPoints, FilterPoints, Retains
<1> DEFINE copy == [capture |-> staging[current].capture,
                    modTime |-> staging[current].modTime, whole |-> TRUE]
<1>2. copy \in Copy
  BY <1>1 DEF Raw, Copy
<1>3. copy # Nothing
  BY <1>2, NothingAssumption
<1>4. retained' = [retained EXCEPT ![current] = copy]
  BY DEF Retains
<1> QED
  BY <1>1, <1>2, <1>3, <1>4 DEF TypeOK

\* Every step keeps the types.
LEMMA TypeOKStep == IInv /\ Next => TypeOK'
<1> SUFFICES ASSUME IInv, Next PROVE TypeOK'
  OBVIOUS
<1> USE NamesAssumption, NothingAssumption, BoundsAssumption DEF IInv, stayed
<1>1. CASE Prunes
  BY <1>1, PrunableAreNames DEF TypeOK, Prunes, process, world
<1>2. CASE PruneEnds
  BY <1>2 DEF TypeOK, Points, PruneEnds, Goto, world
<1>3. CASE PruneFails
  BY <1>3, FaultIsBounded DEF TypeOK, Points, PruneFails, Goto, world
<1>4. CASE RoundBegins
  BY <1>4 DEF TypeOK, Points, RoundBegins, Goto, world
<1>5. CASE ListsStaging
  BY <1>5 DEF TypeOK, Points, ListsStaging, world
<1>6. CASE ListingFails
  BY <1>6, FaultIsBounded DEF TypeOK, Points, ListingFails, Goto, world
<1>7. CASE TakesEntry
  BY <1>7 DEF TypeOK, Points, TakesEntry, world
<1>8. CASE RoundEnds
  BY <1>8 DEF TypeOK, Points, RoundEnds, Goto, world
<1>9. CASE FilterRefused
  BY <1>9 DEF TypeOK, Points, FilterRefused, Goto, world
<1>10. CASE FilterOpens
  <2>1. retained' \in [Names -> Copy \cup {Nothing}]
    BY <1>10, FilterOpensCopy
  <2> QED
    BY <1>10, <2>1 DEF TypeOK, Points, FilterOpens, Goto, world
<1>11. CASE FilterSucceeds
  <2>1. retained' \in [Names -> Copy \cup {Nothing}]
    BY <1>11, FilterCompletesCopy
  <2> QED
    BY <1>11, <2>1 DEF TypeOK, Points, FilterSucceeds, Goto, world
<1>12. CASE FilterFails
  BY <1>12, FaultIsBounded DEF TypeOK, Points, FilterFails, Goto, world
<1>13. CASE RemovesPartial
  <2>1. current \in Names /\ staging[current].capture \in Captures
    BY <1>13 DEF TypeOK, Entries, RawPoints, FilterPoints, Raw, RemovesPartial
  <2>2. left' \subseteq Captures /\ faults' \in 0..MaxFaults
    BY <1>13, <2>1, FaultIsBounded DEF TypeOK, RemovesPartial
  <2>3. retained' \in [Names -> Copy \cup {Nothing}]
    BY <1>13 DEF TypeOK, RemovesPartial
  <2> QED
    BY <1>13, <2>1, <2>2, <2>3 DEF TypeOK, Points, RemovesPartial, Goto, world
<1>14. CASE RetainRefused
  BY <1>14 DEF TypeOK, Points, RetainRefused, Goto, world
<1>15. CASE Retains
  <2>1. retained' \in [Names -> Copy \cup {Nothing}]
    BY <1>15, RetainMovesFile
  <2> QED
    BY <1>15, <2>1 DEF TypeOK, Points, Retains, Goto, world
<1>16. CASE RetainFails
  BY <1>16, FaultIsBounded DEF TypeOK, Points, RetainFails, Goto, world
<1>17. CASE RemovesRaw
  BY <1>17 DEF TypeOK, Points, RemovesRaw, LeaveFilter, world, Goto, Continue
<1>18. CASE RemoveRawFails
  <2>1. current \in Names
    BY <1>18 DEF TypeOK, RemoveRawFails
  <2>2. kept' \in [Captures -> Nat] /\ faults' \in 0..MaxFaults
    BY <1>18, <2>1, KeepCounts, FaultIsBounded DEF RemoveRawFails
  <2> QED
    BY <1>18, <2>1, <2>2
       DEF TypeOK, Points, RemoveRawFails, LeaveFilter, Goto, Continue, world
<1>19. CASE Analyzes
  BY <1>19 DEF TypeOK, Points, Analyzes, Goto, world
<1>20. CASE AnalysisFails
  BY <1>20, FaultIsBounded DEF TypeOK, Points, AnalysisFails, Continue, world
<1>21. CASE Uploads
  <2>1. current \in Names /\ retained[current] # Nothing
    BY <1>21 DEF TypeOK, Copying, Uploads
  <2>2. reports' \in [Captures -> Nat] /\ faults' \in 0..MaxFaults
    BY <1>21, <2>1, ReportedCounts, FaultIsBounded DEF TypeOK, Uploads
  <2> QED
    BY <1>21, <2>2 DEF TypeOK, Points, Uploads, Continue, world
<1>22. CASE UploadFails
  <2>1. current \in Names /\ retained[current] # Nothing
    BY <1>22 DEF TypeOK, Copying, UploadFails
  <2>2. reports' \in [Captures -> Nat] /\ faults' \in 0..MaxFaults
    BY <1>22, <2>1, ReportedCounts, FaultIsBounded DEF TypeOK, UploadFails
  <2> QED
    BY <1>22, <2>2 DEF TypeOK, Points, UploadFails, Continue, world
<1>23. CASE Crash
  <2>1. faults' \in 0..MaxFaults
    BY <1>23, FaultIsBounded DEF Crash
  <2> QED
    BY <1>23, <2>1 DEF TypeOK, Points, Crash, world
<1>24. CASE Boot
  BY <1>24 DEF TypeOK, Boot, world
<1>25. ASSUME NEW n \in Names, Publish(n) PROVE TypeOK'
  <2>1. captures' \in 0..MaxCaptures /\ captures' \in Captures /\ clock \in Nat
    BY <1>25 DEF TypeOK, Publish, Captures
  <2>2. staging' \in [Names -> Raw \cup {Nothing}]
    BY <1>25, <2>1 DEF TypeOK, Publish, Raw
  <2> QED
    BY <1>25, <2>1, <2>2 DEF TypeOK, Publish, process
<1>26. CASE TimePasses
  BY <1>26 DEF TypeOK, TimePasses, process
<1> QED
  BY <1>1, <1>2, <1>3, <1>4, <1>5, <1>6, <1>7, <1>8, <1>9, <1>10, <1>11, <1>12, <1>13,
     <1>14, <1>15, <1>16, <1>17, <1>18, <1>19, <1>20, <1>21, <1>22, <1>23, <1>24, <1>25,
     <1>26
     DEF Next, Worker, Rounds, Filters, Keeps, Removes, Sends

\* Every step keeps the listed entries staged: only the entry in hand leaves staging.
LEMMA EntriesStep == IInv /\ Next => Entries'
<1> SUFFICES ASSUME IInv, Next PROVE Entries'
  OBVIOUS
<1> USE NamesAssumption, NothingAssumption, BoundsAssumption DEF IInv, stayed
<1>1. CASE Prunes
  BY <1>1, PrunableAreNames DEF Entries, Prunes, process
<1>2. CASE PruneEnds
  BY <1>2 DEF Entries, RawPoints, FilterPoints, PruneEnds, Goto
<1>3. CASE PruneFails
  BY <1>3 DEF Entries, RawPoints, FilterPoints, PruneFails, Goto
<1>4. CASE RoundBegins
  BY <1>4 DEF Entries, RawPoints, FilterPoints, RoundBegins, Goto
<1>5. CASE ListsStaging
  BY <1>5 DEF TypeOK, Entries, RawPoints, FilterPoints, ListsStaging
<1>6. CASE ListingFails
  BY <1>6 DEF Entries, RawPoints, FilterPoints, ListingFails, Goto
<1>7. CASE TakesEntry
  BY <1>7 DEF TypeOK, Entries, FilterPoints, Names, TakesEntry
<1>8. CASE RoundEnds
  BY <1>8 DEF Entries, RawPoints, FilterPoints, RoundEnds, Goto
<1>9. CASE FilterRefused
  BY <1>9 DEF Entries, RawPoints, FilterPoints, FilterRefused, Goto
<1>10. CASE FilterOpens
  BY <1>10 DEF Entries, RawPoints, FilterPoints, FilterOpens, Goto
<1>11. CASE FilterSucceeds
  BY <1>11 DEF Entries, RawPoints, FilterPoints, FilterSucceeds, Goto
<1>12. CASE FilterFails
  BY <1>12 DEF Entries, RawPoints, FilterPoints, FilterFails, Goto
<1>13. CASE RemovesPartial
  BY <1>13 DEF Entries, RawPoints, FilterPoints, RemovesPartial, Goto
<1>14. CASE RetainRefused
  BY <1>14 DEF Entries, RawPoints, FilterPoints, RetainRefused, Goto
<1>15. CASE Retains
  BY <1>15 DEF Entries, RawPoints, FilterPoints, Retains, Goto
<1>16. CASE RetainFails
  BY <1>16 DEF Entries, RawPoints, FilterPoints, RetainFails, Goto
<1>17. CASE RemovesRaw
  BY <1>17
     DEF TypeOK, Entries, RawPoints, FilterPoints, RemovesRaw, LeaveFilter, Goto,
         Continue
<1>18. CASE RemoveRawFails
  BY <1>18
     DEF TypeOK, Entries, RawPoints, FilterPoints, RemoveRawFails, LeaveFilter, Goto,
         Continue
<1>19. CASE Analyzes
  BY <1>19 DEF Entries, RawPoints, FilterPoints, Analyzes, Goto
<1>20. CASE AnalysisFails
  BY <1>20 DEF TypeOK, Entries, RawPoints, FilterPoints, AnalysisFails, Continue
<1>21. CASE Uploads
  BY <1>21 DEF TypeOK, Entries, RawPoints, FilterPoints, Uploads, Continue
<1>22. CASE UploadFails
  BY <1>22 DEF TypeOK, Entries, RawPoints, FilterPoints, UploadFails, Continue
<1>23. CASE Crash
  BY <1>23 DEF Entries, RawPoints, FilterPoints, Crash
<1>24. CASE Boot
  BY <1>24 DEF Entries, Boot
<1>25. ASSUME NEW n \in Names, Publish(n) PROVE Entries'
  BY <1>25 DEF Entries, Publish, process
<1>26. CASE TimePasses
  BY <1>26 DEF Entries, TimePasses, process
<1> QED
  BY <1>1, <1>2, <1>3, <1>4, <1>5, <1>6, <1>7, <1>8, <1>9, <1>10, <1>11, <1>12, <1>13,
     <1>14, <1>15, <1>16, <1>17, <1>18, <1>19, <1>20, <1>21, <1>22, <1>23, <1>24, <1>25,
     <1>26
     DEF Next, Worker, Rounds, Filters, Keeps, Removes, Sends

\* Every step keeps captures apart; only publication makes a new one.
LEMMA DistinctStep == IInv /\ Next => Distinct'
<1> SUFFICES ASSUME IInv, Next PROVE Distinct'
  OBVIOUS
<1> USE NamesAssumption, NothingAssumption, BoundsAssumption DEF IInv, stayed
<1>1. CASE Prunes
  BY <1>1, PrunableAreNames DEF Distinct, Prunes, world
<1>2. CASE PruneEnds
  BY <1>2 DEF Distinct, PruneEnds, world
<1>3. CASE PruneFails
  BY <1>3 DEF Distinct, PruneFails, world
<1>4. CASE RoundBegins
  BY <1>4 DEF Distinct, RoundBegins, world
<1>5. CASE ListsStaging
  BY <1>5 DEF Distinct, ListsStaging, world
<1>6. CASE ListingFails
  BY <1>6 DEF Distinct, ListingFails, world
<1>7. CASE TakesEntry
  BY <1>7 DEF Distinct, TakesEntry, world
<1>8. CASE RoundEnds
  BY <1>8 DEF Distinct, RoundEnds, world
<1>9. CASE FilterRefused
  BY <1>9 DEF Distinct, FilterRefused, world
<1>10. CASE FilterOpens
  BY <1>10 DEF Entries, Distinct, RawPoints, FilterPoints, FilterOpens, world
<1>11. CASE FilterSucceeds
  BY <1>11 DEF TypeOK, Distinct, Copying, FilterSucceeds, world
<1>12. CASE FilterFails
  BY <1>12 DEF Distinct, FilterFails, world
<1>13. CASE RemovesPartial
  <2>1. current \in Names /\ staging[current] # Nothing
    BY <1>13 DEF TypeOK, Entries, RawPoints, FilterPoints, RemovesPartial
  <2>2. /\ UNCHANGED <<staging, captures, reports>>
        /\ \A n \in Names : retained'[n] = retained[n] \/ retained'[n] = Nothing
    BY <1>13, <2>1 DEF TypeOK, RemovesPartial, world
  <2>3. CASE kept' = kept
    BY <2>2, <2>3 DEF Distinct
  <2>4. CASE Keep
    <3>1. staging[current].capture <= captures
      BY <2>1 DEF Distinct
    <3>2. \A c \in Captures : c > captures => c # staging[current].capture
      BY <3>1, <2>1, <2>4, KeepCounts DEF TypeOK, Captures
    <3>3. \A c \in Captures : c > captures => kept'[c] = 0
      BY <3>2, <2>1, <2>4, KeepCounts DEF Distinct
    <3> QED
      BY <2>2, <3>3 DEF Distinct
  <2> QED
    BY <1>13, <2>3, <2>4 DEF RemovesPartial
<1>14. CASE RetainRefused
  BY <1>14 DEF Distinct, RetainRefused, world
<1>15. CASE Retains
  BY <1>15 DEF Entries, Distinct, RawPoints, Retains, world
<1>16. CASE RetainFails
  BY <1>16 DEF Distinct, RetainFails, world
<1>17. CASE RemovesRaw
  BY <1>17 DEF Distinct, RemovesRaw, world
<1>18. CASE RemoveRawFails
  BY <1>18 DEF TypeOK, Distinct, Captures, RemoveRawFails, Keep, world
<1>19. CASE Analyzes
  BY <1>19 DEF Distinct, Analyzes, world
<1>20. CASE AnalysisFails
  BY <1>20 DEF Distinct, AnalysisFails, world
<1>21. CASE Uploads
  BY <1>21 DEF TypeOK, Distinct, Copying, Captures, Uploads, Reported, world
<1>22. CASE UploadFails
  BY <1>22 DEF TypeOK, Distinct, Copying, Captures, UploadFails, Reported, world
<1>23. CASE Crash
  BY <1>23 DEF Distinct, Crash, world
<1>24. CASE Boot
  BY <1>24 DEF Distinct, Boot, world
<1>25. ASSUME NEW n \in Names, Publish(n) PROVE Distinct'
  BY <1>25 DEF TypeOK, Distinct, Raw, Copy, Captures, Publish
<1>26. CASE TimePasses
  BY <1>26 DEF Distinct, TimePasses
<1> QED
  BY <1>1, <1>2, <1>3, <1>4, <1>5, <1>6, <1>7, <1>8, <1>9, <1>10, <1>11, <1>12, <1>13,
     <1>14, <1>15, <1>16, <1>17, <1>18, <1>19, <1>20, <1>21, <1>22, <1>23, <1>24, <1>25,
     <1>26
     DEF Next, Worker, Rounds, Filters, Keeps, Removes, Sends

\* Every step keeps copies tied to the raw file they are made of.
LEMMA CopyingStep == IInv /\ Next => Copying'
<1> SUFFICES ASSUME IInv, Next PROVE Copying'
  OBVIOUS
<1> USE NamesAssumption, NothingAssumption, BoundsAssumption DEF IInv, stayed
<1>1. CASE Prunes
  BY <1>1, PrunableAreNames DEF Copying, Prunes, process
<1>2. CASE PruneEnds
  BY <1>2 DEF Copying, PruneEnds, Goto
<1>3. CASE PruneFails
  BY <1>3 DEF Copying, PruneFails, Goto
<1>4. CASE RoundBegins
  BY <1>4 DEF Copying, RoundBegins, Goto
<1>5. CASE ListsStaging
  BY <1>5 DEF Copying, ListsStaging
<1>6. CASE ListingFails
  BY <1>6 DEF Copying, ListingFails, Goto
<1>7. CASE TakesEntry
  BY <1>7 DEF Copying, TakesEntry
<1>8. CASE RoundEnds
  BY <1>8 DEF Copying, RoundEnds, Goto
<1>9. CASE FilterRefused
  BY <1>9 DEF Copying, FilterRefused, Goto
<1>10. CASE FilterOpens
  <2>1. current \in RadioNames /\ current \in Names
    BY <1>10 DEF Entries, FilterPoints, FilterOpens, Names
  <2>2. \A n \in LocalNames : retained'[n] = retained[n]
    BY <1>10, <2>1, FilterOpensCopy DEF Names
  <2> QED
    BY <1>10, <2>1, <2>2, FilterOpensCopy DEF Copying, FilterOpens, Goto
<1>11. CASE FilterSucceeds
  <2>1. current \in RadioNames /\ current \in Names
    BY <1>11 DEF Entries, FilterPoints, FilterSucceeds, Names
  <2>2. \A n \in LocalNames : retained'[n] = retained[n]
    BY <1>11, <2>1, FilterCompletesCopy DEF Names
  <2> QED
    BY <1>11, <2>1, <2>2, FilterCompletesCopy DEF Copying, FilterSucceeds, Goto
<1>12. CASE FilterFails
  BY <1>12 DEF Copying, FilterFails, Goto
<1>13. CASE RemovesPartial
  <2>1. current \in Names /\ current \in RadioNames /\ staging[current] # Nothing
    BY <1>13 DEF TypeOK, Entries, RawPoints, FilterPoints, RemovesPartial
  <2>2. \A n \in LocalNames : retained'[n] = retained[n]
    BY <1>13, <2>1 DEF TypeOK, RemovesPartial, Names
  <2>3. retained'[current] = Nothing \/ staging[current].capture \in left'
    BY <1>13, <2>1 DEF TypeOK, RemovesPartial
  <2> QED
    BY <1>13, <2>1, <2>2, <2>3 DEF Copying, RemovesPartial, Goto
<1>14. CASE RetainRefused
  BY <1>14 DEF Entries, Copying, RetainRefused, Goto
<1>15. CASE Retains
  <2>1. /\ current \in Names
        /\ \A n \in Names : n # current => retained'[n] = retained[n]
        /\ retained'[current] # Nothing /\ retained'[current].whole
    BY <1>15, RetainMovesFile
  <2>2. staging'[current] = Nothing /\ pc' = "removeRaw" /\ current' = current
    BY <1>15, <2>1 DEF TypeOK, Retains, Goto
  <2>3. \A n \in LocalNames : retained'[n] # Nothing => retained'[n].whole
    BY <2>1 DEF Copying, Names
  <2> QED
    BY <2>1, <2>2, <2>3 DEF Copying
<1>16. CASE RetainFails
  BY <1>16 DEF Entries, Copying, RetainFails, Goto
<1>17. CASE RemovesRaw
  BY <1>17 DEF TypeOK, Copying, RemovesRaw, LeaveFilter, Goto, Continue
<1>18. CASE RemoveRawFails
  <2>1. /\ current \in Names /\ staging[current] # Nothing
        /\ UNCHANGED <<staging, retained, allowlist>>
    BY <1>18 DEF TypeOK, RemoveRawFails, LeaveFilter, Goto, Continue
  <2>2. kept'[staging[current].capture] > 0
    BY <1>18, <2>1, KeepCounts DEF TypeOK, RemoveRawFails
  <2> QED
    BY <1>18, <2>1, <2>2 DEF Copying, RemoveRawFails, LeaveFilter, Goto, Continue
<1>19. CASE Analyzes
  BY <1>19 DEF Copying, Analyzes, Goto
<1>20. CASE AnalysisFails
  BY <1>20 DEF Copying, AnalysisFails, Continue
<1>21. CASE Uploads
  BY <1>21 DEF Copying, Uploads, Continue
<1>22. CASE UploadFails
  BY <1>22 DEF Copying, UploadFails, Continue
<1>23. CASE Crash
  BY <1>23 DEF Copying, Crash
<1>24. CASE Boot
  BY <1>24 DEF TypeOK, Copying, Boot
<1>25. ASSUME NEW n \in Names, Publish(n) PROVE Copying'
  BY <1>25 DEF Copying, Publish, process
<1>26. CASE TimePasses
  BY <1>26 DEF Copying, TimePasses, process
<1> QED
  BY <1>1, <1>2, <1>3, <1>4, <1>5, <1>6, <1>7, <1>8, <1>9, <1>10, <1>11, <1>12, <1>13,
     <1>14, <1>15, <1>16, <1>17, <1>18, <1>19, <1>20, <1>21, <1>22, <1>23, <1>24, <1>25,
     <1>26
     DEF Next, Worker, Rounds, Filters, Keeps, Removes, Sends

\* Every step keeps the count: a removal turns a staged capture into one in
\* hand, an upload one in hand into a report.
LEMMA CountedStep == IInv /\ Next => Counted'
<1> SUFFICES ASSUME IInv, Next PROVE Counted'
  OBVIOUS
<1> USE NamesAssumption, NothingAssumption, BoundsAssumption DEF IInv, stayed
<1>1. CASE Prunes
  BY <1>1, PrunableAreNames DEF Counted, InStaging, InHand, Staged, Prunes, process
<1>2. CASE PruneEnds
  BY <1>2 DEF Counted, InStaging, InHand, Staged, PruneEnds, Goto
<1>3. CASE PruneFails
  BY <1>3 DEF Counted, InStaging, InHand, Staged, PruneFails, Goto
<1>4. CASE RoundBegins
  BY <1>4 DEF Counted, InStaging, InHand, Staged, RoundBegins, Goto
<1>5. CASE ListsStaging
  BY <1>5 DEF Counted, InStaging, InHand, Staged, ListsStaging
<1>6. CASE ListingFails
  BY <1>6 DEF Counted, InStaging, InHand, Staged, ListingFails, Goto
<1>7. CASE TakesEntry
  BY <1>7 DEF Counted, InStaging, InHand, Staged, TakesEntry
<1>8. CASE RoundEnds
  BY <1>8 DEF Counted, InStaging, InHand, Staged, RoundEnds, Goto
<1>9. CASE FilterRefused
  BY <1>9 DEF Counted, InStaging, InHand, Staged, FilterRefused, Goto
<1>10. CASE FilterOpens
  BY <1>10 DEF Counted, InStaging, InHand, Staged, FilterOpens, Goto
<1>11. CASE FilterSucceeds
  BY <1>11
     DEF Entries, Counted, InStaging, InHand, Staged, RawPoints, FilterPoints,
         FilterSucceeds, Goto
<1>12. CASE FilterFails
  BY <1>12 DEF Counted, InStaging, InHand, Staged, FilterFails, Goto
<1>13. CASE RemovesPartial
  <2>1. \A c \in Captures : ~InHand(c)' /\ InStaging(c)' = InStaging(c)
    BY <1>13 DEF RemovesPartial, InHand, InStaging, Staged, Goto
  <2> QED
    BY <1>13, <2>1 DEF Counted, RemovesPartial
<1>14. CASE RetainRefused
  BY <1>14 DEF Counted, InStaging, InHand, Staged, RetainRefused, Goto
<1>15. CASE Retains
  BY <1>15
     DEF TypeOK, Entries, Distinct, Counted, InStaging, InHand, Staged, RawPoints,
         Retains, Goto
<1>16. CASE RetainFails
  BY <1>16 DEF Counted, InStaging, InHand, Staged, RetainFails, Goto
<1>17. CASE RemovesRaw
  <2>1. current \in Names /\ UNCHANGED <<reports, kept, retained>>
    BY <1>17 DEF TypeOK, RemovesRaw
  <2>2. /\ staging'[current] = Nothing
        /\ \A n \in Names : n # current => staging'[n] = staging[n]
    BY <1>17, <2>1 DEF TypeOK, RemovesRaw
  <2>3. ASSUME NEW c \in Captures, InStaging(c)'
        PROVE  InStaging(c) /\ (staging[current] # Nothing => staging[current].capture # c)
    BY <2>1, <2>2, <2>3 DEF InStaging, Staged, Distinct
  <2>4. ASSUME NEW c \in Captures, InHand(c)'
        PROVE  IF staging[current] = Nothing THEN InHand(c) ELSE staging[current].capture = c
    BY <1>17, <2>1, <2>4 DEF RemovesRaw, InHand, LeaveFilter, Goto, Continue, Copying
  <2>5. ASSUME NEW c \in Captures, staging[current] # Nothing, staging[current].capture = c
        PROVE  InStaging(c)
    BY <2>1, <2>5 DEF InStaging, Staged
  <2> QED
    BY <2>1, <2>3, <2>4, <2>5 DEF Counted
<1>18. CASE RemoveRawFails
  <2>1. /\ current \in Names /\ staging[current] # Nothing
        /\ UNCHANGED <<reports, staging, retained>>
    BY <1>18 DEF TypeOK, RemoveRawFails
  <2> DEFINE raw == staging[current].capture
  <2>2. /\ raw \in Captures
        /\ \A c \in Captures : kept'[c] = IF c = raw THEN kept[c] + 1 ELSE kept[c]
    BY <1>18, <2>1, KeepCounts DEF RemoveRawFails
  <2>3. \A c \in Captures : InStaging(c)' = InStaging(c)
    BY <2>1 DEF InStaging, Staged
  <2>4. InStaging(raw)
    BY <2>1 DEF InStaging, Staged
  <2>5. \A c \in Captures : InHand(c)' => c = raw
    BY <1>18, <2>1 DEF RemoveRawFails, InHand, LeaveFilter, Goto, Continue, Copying
  <2>6. ASSUME NEW c \in Captures PROVE reports[c] \in Nat /\ kept[c] \in Nat
    BY DEF TypeOK
  <2> HIDE DEF raw
  <2> QED
    BY <2>1, <2>2, <2>3, <2>4, <2>5, <2>6 DEF Counted
<1>19. CASE Analyzes
  BY <1>19 DEF Counted, InStaging, InHand, Staged, Analyzes, Goto
<1>20. CASE AnalysisFails
  BY <1>20 DEF Counted, InStaging, InHand, Staged, AnalysisFails, Continue
<1>21. CASE Uploads
  BY <1>21 DEF TypeOK, Counted, InStaging, InHand, Staged, Uploads, Continue, Reported
<1>22. CASE UploadFails
  <2>1. /\ current \in Names /\ retained[current] # Nothing
        /\ UNCHANGED <<kept, staging, retained>>
    BY <1>22 DEF TypeOK, Copying, UploadFails
  <2>2. \A c \in Captures : ~InHand(c)' /\ InStaging(c)' = InStaging(c)
    BY <1>22, <2>1 DEF UploadFails, Continue, InHand, InStaging, Staged
  <2>3. \A c \in Captures : c = retained[current].capture => InHand(c)
    BY <1>22 DEF UploadFails, InHand
  <2>4. ASSUME NEW c \in Captures PROVE reports[c] \in Nat /\ kept[c] \in Nat
    BY DEF TypeOK
  <2>5. CASE Reported
    BY <2>1, <2>2, <2>3, <2>4, <2>5, ReportedCounts DEF Counted
  <2>6. CASE reports' = reports
    BY <2>1, <2>2, <2>4, <2>6 DEF Counted
  <2> QED
    BY <1>22, <2>5, <2>6 DEF UploadFails
<1>23. CASE Crash
  BY <1>23 DEF Counted, InStaging, InHand, Staged, Crash
<1>24. CASE Boot
  BY <1>24 DEF Counted, InStaging, InHand, Staged, Boot
<1>25. ASSUME NEW n \in Names, Publish(n) PROVE Counted'
  <2> DEFINE new == captures + 1
  <2>1. /\ new \in Captures /\ n \in Names /\ captures \in Nat
        /\ UNCHANGED <<reports, kept, retained, pc, current>>
        /\ staging'[current] = staging[current] \/ current = Nothing
        /\ \A m \in Names : m # n => staging'[m] = staging[m]
        /\ staging'[n].capture = new
    BY <1>25 DEF TypeOK, Publish, process, Captures
  <2>2. ASSUME NEW c \in Captures, InStaging(c)' PROVE InStaging(c) \/ c = new
    BY <2>1, <2>2 DEF InStaging, Staged
  <2>3. ASSUME NEW c \in Captures, InHand(c)' PROVE InHand(c) /\ c # new
    BY <2>1, <2>3 DEF InHand, TypeOK, Distinct, Copying
  <2>4. reports[new] = 0 /\ kept[new] = 0
    BY <2>1 DEF Distinct
  <2> HIDE DEF new
  <2> QED
    BY <2>1, <2>2, <2>3, <2>4 DEF Counted
<1>26. CASE TimePasses
  BY <1>26 DEF Counted, InStaging, InHand, Staged, TimePasses, process
<1> QED
  BY <1>1, <1>2, <1>3, <1>4, <1>5, <1>6, <1>7, <1>8, <1>9, <1>10, <1>11, <1>12, <1>13,
     <1>14, <1>15, <1>16, <1>17, <1>18, <1>19, <1>20, <1>21, <1>22, <1>23, <1>24, <1>25,
     <1>26
     DEF Next, Worker, Rounds, Filters, Keeps, Removes, Sends

LEMMA StutterStep == IInv /\ UNCHANGED vars => IInv'
BY DEF IInv, vars, TypeOK, Entries, Distinct, Copying, Counted, InStaging, InHand, Staged

LEMMA Preserved == IInv /\ [Next]_vars => IInv'
BY TypeOKStep, EntriesStep, DistinctStep, CopyingStep, CountedStep, StutterStep DEF IInv

LEMMA Invariance == Spec => []IInv
<1>1. Init => IInv
  BY InitEstablishes
<1>2. IInv /\ [Next]_vars => IInv'
  BY Preserved
<1> QED
  BY <1>1, <1>2, PTL DEF Spec

-----------------------------------------------------------------------------

\* The worker's state, its files and its counters stay well-formed, and it
\* holds an entry exactly while it handles one.
THEOREM TypeCorrect == Spec => []TypeOK
<1>1. IInv => TypeOK
  BY DEF IInv
<1> QED
  BY <1>1, Invariance, PTL

\* However often the worker crashes and whichever answers are lost, the API
\* ingests a capture once, and once more for each file that stayed behind.
THEOREM CapturesAreReportedOnce == Spec => []ReportedAtMostOnce
<1>1. IInv => ReportedAtMostOnce
  BY DEF IInv, Counted, ReportedAtMostOnce
<1> QED
  BY <1>1, Invariance, PTL

\* What the worker analyses and uploads is a whole authorized copy, made of a
\* raw file that is gone unless its removal failed.
THEOREM OnlyAuthorizedCopiesAreAnalysed == Spec => []OnlyAuthorizedIsAnalysed
<1>1. IInv => OnlyAuthorizedIsAnalysed
  BY DEF IInv, Copying, OnlyAuthorizedIsAnalysed
<1> QED
  BY <1>1, Invariance, PTL

\* No interrupted filter leads to a partial capture that is given up: the raw
\* file is there until its copy is whole or removed.
THEOREM RawFilesOutlivePartialCopies == Spec => RawOutlivesPartialCopy
<1> DEFINE Step == \A n \in Names :
        (staging[n] # Nothing /\ staging'[n] = Nothing) =>
              \/ retained'[n] = Nothing
              \/ retained'[n].whole
              \/ ~allowlist
              \/ staging[n].capture \in left
<1>1. IInv /\ [Next]_vars => [Step]_vars
  <2> SUFFICES ASSUME IInv, Next, NEW n \in Names, staging[n] # Nothing, staging'[n] = Nothing
               PROVE  \/ retained'[n] = Nothing
                      \/ retained'[n].whole
                      \/ ~allowlist
                      \/ staging[n].capture \in left
    OBVIOUS
  <2>1. CASE Retains
    <3>1. n = current
      BY <2>1 DEF IInv, TypeOK, Retains
    <3> QED
      BY <2>1, <3>1, RetainMovesFile DEF IInv
  <2>2. CASE RemovesRaw
    <3>1. n = current /\ retained' = retained /\ pc \in {"removeRaw", "discardRaw"}
      BY <2>2 DEF IInv, TypeOK, RemovesRaw
    <3> QED
      BY <3>1 DEF IInv, Copying
  <2>3. ASSUME NEW m \in Names, Publish(m) PROVE FALSE
    <3>1. [capture |-> captures', modTime |-> clock] \in Raw
      BY <2>3, BoundsAssumption DEF IInv, TypeOK, Publish, Raw, Captures
    <3> QED
      BY <2>3, <3>1, NothingAssumption DEF IInv, TypeOK, Publish
  <2>4. staging' # staging
    OBVIOUS
  <2> QED
    BY <2>1, <2>2, <2>3, <2>4
       DEF Next, Worker, Rounds, Filters, Keeps, Removes, Sends, Prunes, PruneEnds, PruneFails,
           RoundBegins, ListsStaging, ListingFails, TakesEntry, RoundEnds, FilterRefused,
           FilterOpens, FilterSucceeds, FilterFails, RemovesPartial, RetainRefused, RetainFails,
           RemoveRawFails, Analyzes, AnalysisFails, Uploads, UploadFails, Crash, Boot, TimePasses
<1> QED
  BY <1>1, Invariance, PTL DEF Spec, RawOutlivesPartialCopy

\* What the pruning removes before its age is older than, or as old as, every
\* other copy, and the copies together exceed the quota.
LEMMA OldestIsRemovedFirst ==
    ASSUME TypeOK, NEW n \in Unexpired, n \in Prunable
    PROVE  Used({ m \in Unexpired : retained[m].modTime >= retained[n].modTime }) > MaxBytes
<1>1. Expired = {} /\ Used(Present) > MaxBytes /\ n \in Oldest
  BY DEF Prunable, Unexpired
<1>2. Unexpired = Present
  BY <1>1 DEF Unexpired
<1>3. \A m \in Present : retained[m].modTime \in Nat
  BY DEF TypeOK, Present, Copy
<1>4. \A m \in Unexpired : retained[m].modTime >= retained[n].modTime
  BY <1>1, <1>2, <1>3 DEF Oldest
<1>5. { m \in Unexpired : retained[m].modTime >= retained[n].modTime } = Present
  BY <1>2, <1>4
<1> QED
  BY <1>1, <1>5

\* Retention takes a copy before its age only when the copies no older than
\* it exceed the quota, whatever was removed before it in the same round.
THEOREM OnlyNeededCopiesAreEvicted == Spec => EvictionIsNeeded
<1> DEFINE Step == \A n \in Unexpired :
        (pc = "prune" /\ retained'[n] = Nothing) =>
            Used({ m \in Unexpired : retained[m].modTime >= retained[n].modTime }) > MaxBytes
<1>1. IInv /\ [Next]_vars => [Step]_vars
  <2> SUFFICES ASSUME IInv, Next, NEW n \in Unexpired, pc = "prune", retained'[n] = Nothing
               PROVE  Used({ m \in Unexpired : retained[m].modTime >= retained[n].modTime })
                        > MaxBytes
    OBVIOUS
  <2>1. n \in Names /\ retained[n] # Nothing
    BY DEF Unexpired, Present
  <2>2. CASE Prunes
    <3>1. PICK k \in Prunable : retained' = [retained EXCEPT ![k] = Nothing]
      BY <2>2 DEF Prunes
    <3>2. k = n
      BY <2>1, <3>1 DEF IInv, TypeOK
    <3> QED
      BY <3>1, <3>2, OldestIsRemovedFirst DEF IInv
  <2>3. retained' # retained
    BY <2>1
  <2> QED
    BY <2>2, <2>3
       DEF Next, Worker, Rounds, Filters, Keeps, Removes, Sends, PruneEnds, PruneFails,
           RoundBegins, ListsStaging, ListingFails, TakesEntry, RoundEnds, FilterRefused,
           FilterOpens, FilterSucceeds, FilterFails, RemovesPartial, RetainRefused, Retains,
           RetainFails, RemovesRaw, RemoveRawFails, Analyzes, AnalysisFails, Uploads,
           UploadFails, Crash, Boot, Publish, TimePasses
<1> QED
  BY <1>1, Invariance, PTL DEF Spec, EvictionIsNeeded
=============================================================================
