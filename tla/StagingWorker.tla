---------------------------- MODULE StagingWorker ----------------------------
(***************************************************************************)
(* cmd/worker/main.go with internal/analyzer/pcap.go and retention.go: the *)
(* worker that looks into the staging directory every five seconds, prunes *)
(* what it has retained, and takes each published capture out of staging.  *)
(* A radio capture is filtered by tshark into an authorized copy and then  *)
(* removed, a local-host capture is renamed; the copy is analysed and the  *)
(* report posted to the API.  Every system call that another step depends  *)
(* on is a step of its own, and the process may end between any two.       *)
(*                                                                         *)
(* Captures are numbered as the helper publishes them.  A name stands for  *)
(* a staged file and for the authorized file that is named after it; who   *)
(* calls the helper by hand may use a name again.                          *)
(***************************************************************************)
EXTENDS Integers, FiniteSetsExt

CONSTANTS
    RadioNames,   \* names x.pcap, retained as x.authorized.pcap
    LocalNames,   \* names x.local.pcap, retained as x.local.authorized.pcap
    Nothing,      \* no file; no name
    MaxCaptures,  \* bound: captures the helper publishes
    Size,         \* size of each capture's retained copy
    MaxAge,       \* 72 hours
    MaxBytes,     \* 5 GiB
    Horizon,      \* bound: the last moment of the clock
    MaxFaults     \* bound: failing calls and crashes of the worker

Names    == RadioNames \cup LocalNames
Captures == 1..MaxCaptures

ASSUME NamesAssumption ==
    RadioNames \cap LocalNames = {} /\ IsFiniteSet(Names)
ASSUME BoundsAssumption ==
    MaxCaptures \in Nat /\ Horizon \in Nat /\ MaxFaults \in Nat
ASSUME RetentionAssumption ==
    MaxAge \in Nat /\ MaxBytes \in Nat /\ Size \in [Captures -> Nat]

VARIABLES
    up,         \* the worker process runs
    pc,         \* the call the worker makes next
    listing,    \* entries of this round it has still to take
    current,    \* the entry it works on
    allowlist,  \* its environment names valid authorized BSSIDs
    staging,    \* raw captures by name
    retained,   \* authorized copies by name
    clock,
    captures,   \* captures published so far
    faults,     \* faults that may still happen
    reports,    \* history: how often the API ingested a report of each capture
    kept,       \* history: how often the raw file of each capture could not be removed
    left        \* history: captures whose partial copy could not be removed

vars == <<up, pc, listing, current, allowlist, staging, retained, clock,
          captures, faults, reports, kept, left>>
process == <<up, pc, listing, current, allowlist>>
world   == <<clock, captures>>
stayed  == <<kept, left>>

Raw  == [capture : Captures, modTime : Nat]
Copy == [capture : Captures, modTime : Nat, whole : BOOLEAN]

ASSUME NothingAssumption == Nothing \notin Names \cup Raw \cup Copy

Points == {"idle", "prune", "list", "next", "filter", "filtering", "removePartial",
           "retain", "removeRaw", "discardRaw", "analyze", "upload"}

Goto(point) == pc' = point /\ UNCHANGED <<up, listing, current, allowlist>>

\* continue in the loop of process: on to the next entry.
Continue == pc' = "next" /\ current' = Nothing /\ UNCHANGED <<up, listing, allowlist>>

Fault == faults > 0 /\ faults' = faults - 1
Keep  == kept' = [kept EXCEPT ![staging[current].capture] = @ + 1]

-----------------------------------------------------------------------------

(* PruneAuthorizedPCAP *)

Present == { n \in Names : retained[n] # Nothing }
SizeOf(n) == Size[retained[n].capture]
Used(files) == MapThenSumSet(SizeOf, files)

Expired   == { n \in Present : clock - retained[n].modTime > MaxAge }
Unexpired == Present \ Expired

\* Mutant: the quota removes the newest file first.
NewestFirst ==
    { n \in Unexpired : \A m \in Unexpired : retained[m].modTime <= retained[n].modTime }

\* The front of the files sorted by modification time; the order of files of
\* one time is open.
Oldest ==
    { n \in Unexpired : \A m \in Unexpired : retained[n].modTime <= retained[m].modTime }

\* What is removed next: expired files in the order of the directory, then
\* the oldest ones for as long as the others exceed the quota.
\* Mutant: only files that are expired are removed.
PrunableByAge == Expired
Prunable ==
    IF Expired # {} THEN Expired ELSE IF Used(Present) > MaxBytes THEN Oldest ELSE {}

Prunes ==
    /\ pc = "prune"
    /\ \E n \in Prunable : retained' = [retained EXCEPT ![n] = Nothing]
    /\ UNCHANGED <<process, staging, world, faults, reports, stayed>>

PruneEnds ==
    /\ pc = "prune" /\ Prunable = {}
    /\ Goto("list")
    /\ UNCHANGED <<staging, retained, world, faults, reports, stayed>>

\* An error, of the directory or of one removal, ends the pruning but not
\* the round.
PruneFails ==
    /\ pc = "prune" /\ Fault
    /\ Goto("list")
    /\ UNCHANGED <<staging, retained, world, reports, stayed>>

-----------------------------------------------------------------------------

Init ==
    /\ up = FALSE /\ pc = "idle" /\ listing = {} /\ current = Nothing
    /\ allowlist \in BOOLEAN
    /\ staging = [n \in Names |-> Nothing]
    /\ retained = [n \in Names |-> Nothing]
    /\ clock = 0 /\ captures = 0 /\ faults = MaxFaults
    /\ reports = [c \in Captures |-> 0]
    /\ kept = [c \in Captures |-> 0] /\ left = {}

(* process: one round *)

RoundBegins ==
    /\ up /\ pc = "idle"
    /\ Goto("prune")
    /\ UNCHANGED <<staging, retained, world, faults, reports, stayed>>

ListsStaging ==
    /\ pc = "list"
    /\ listing' = { n \in Names : staging[n] # Nothing }
    /\ pc' = "next"
    /\ UNCHANGED <<up, current, allowlist, staging, retained, world, faults, reports, stayed>>

ListingFails ==
    /\ pc = "list" /\ Fault
    /\ Goto("idle")
    /\ UNCHANGED <<staging, retained, world, reports, stayed>>

TakesEntry ==
    /\ pc = "next"
    /\ \E n \in listing :
          /\ current' = n
          /\ listing' = listing \ {n}
          /\ pc' = IF n \in LocalNames THEN "retain" ELSE "filter"
    /\ UNCHANGED <<up, allowlist, staging, retained, world, faults, reports, stayed>>

RoundEnds ==
    /\ pc = "next" /\ listing = {}
    /\ Goto("idle")
    /\ UNCHANGED <<staging, retained, world, faults, reports, stayed>>

(* FilterAuthorizedPCAP *)

FilterRefused ==
    /\ pc = "filter" /\ ~allowlist
    /\ Goto("discardRaw")
    /\ UNCHANGED <<staging, retained, world, faults, reports, stayed>>

\* tshark -w opens the authorized file, over an older one of the name.
FilterOpens ==
    /\ pc = "filter" /\ allowlist
    /\ retained' = [retained EXCEPT
          ![current] = [capture |-> staging[current].capture, modTime |-> clock, whole |-> FALSE]]
    /\ Goto("filtering")
    /\ UNCHANGED <<staging, world, faults, reports, stayed>>

FilterSucceeds ==
    /\ pc = "filtering"
    /\ retained' = [retained EXCEPT ![current].modTime = clock, ![current].whole = TRUE]
    /\ Goto("removeRaw")
    /\ UNCHANGED <<staging, world, faults, reports, stayed>>

\* Mutant: a filter that fails or runs into its timeout is taken for done.
FilterFailureIgnored ==
    /\ pc = "filtering" \/ (pc = "filter" /\ allowlist)
    /\ Fault
    /\ Goto("removeRaw")
    /\ UNCHANGED <<staging, retained, world, reports, stayed>>

\* tshark does not start, fails, or is killed by the timeout.
FilterFails ==
    /\ pc = "filtering" \/ (pc = "filter" /\ allowlist)
    /\ Fault
    /\ Goto("removePartial")
    /\ UNCHANGED <<staging, retained, world, reports, stayed>>

\* Mutant: what tshark has written stays.
PartialStays ==
    /\ pc = "removePartial"
    /\ Goto("discardRaw")
    /\ UNCHANGED <<staging, retained, world, faults, reports, stayed>>

\* The error of this removal is ignored.
RemovesPartial ==
    /\ pc = "removePartial"
    /\ \/ /\ retained' = [retained EXCEPT ![current] = Nothing]
          /\ UNCHANGED <<faults, left>>
       \/ /\ Fault
          /\ left' = left \cup {staging[current].capture}
          /\ UNCHANGED retained
    /\ Goto("discardRaw")
    /\ UNCHANGED <<staging, world, reports, kept>>

(* RetainLocalHostPCAP *)

RetainRefused ==
    /\ pc = "retain" /\ retained[current] # Nothing
    /\ Goto("discardRaw")
    /\ UNCHANGED <<staging, retained, world, faults, reports, stayed>>

\* A rename keeps the modification time.
Retains ==
    /\ pc = "retain" /\ retained[current] = Nothing
    /\ retained' = [retained EXCEPT
          ![current] = [capture |-> staging[current].capture,
                        modTime |-> staging[current].modTime, whole |-> TRUE]]
    /\ staging' = [staging EXCEPT ![current] = Nothing]
    /\ Goto("removeRaw")
    /\ UNCHANGED <<world, faults, reports, stayed>>

RetainFails ==
    /\ pc = "retain" /\ Fault
    /\ Goto("discardRaw")
    /\ UNCHANGED <<staging, retained, world, reports, stayed>>

(* The deferred os.Remove(RawPath) of both *)

LeaveFilter == IF pc = "removeRaw" THEN Goto("analyze") ELSE Continue

\* Mutant: the raw capture is removed only where a copy was made.
RemovesCopied ==
    /\ pc \in {"removeRaw", "discardRaw"}
    /\ staging' = IF pc = "removeRaw" THEN [staging EXCEPT ![current] = Nothing] ELSE staging
    /\ LeaveFilter
    /\ UNCHANGED <<retained, world, faults, reports, stayed>>

RemovesRaw ==
    /\ pc \in {"removeRaw", "discardRaw"}
    /\ staging' = [staging EXCEPT ![current] = Nothing]
    /\ LeaveFilter
    /\ UNCHANGED <<retained, world, faults, reports, stayed>>

\* Its error is ignored as well; the next round takes the capture again.
RemoveRawFails ==
    /\ pc \in {"removeRaw", "discardRaw"} /\ staging[current] # Nothing /\ Fault
    /\ Keep
    /\ LeaveFilter
    /\ UNCHANGED <<staging, retained, world, reports, left>>

(* AnalyzePCAPWithCoverage and uploadReport *)

\* Mutant: the loop goes on to the next entry after the analysis.
AnalyzesOnly ==
    /\ pc = "analyze"
    /\ Continue
    /\ UNCHANGED <<staging, retained, world, faults, reports, stayed>>

Analyzes ==
    /\ pc = "analyze"
    /\ Goto("upload")
    /\ UNCHANGED <<staging, retained, world, faults, reports, stayed>>

AnalysisFails ==
    /\ pc = "analyze" /\ Fault
    /\ Continue
    /\ UNCHANGED <<staging, retained, world, reports, stayed>>

Reported == reports' = [reports EXCEPT ![retained[current].capture] = @ + 1]

\* The upload has returned; when it does, or whether, is up to the API.
Uploads ==
    /\ pc = "upload"
    /\ Reported
    /\ Continue
    /\ UNCHANGED <<staging, retained, world, faults, stayed>>

\* Mutant: a report whose answer was lost is posted again.
UploadIsRetried ==
    /\ pc = "upload" /\ Fault
    /\ Reported
    /\ UNCHANGED <<process, staging, retained, world, stayed>>

\* The API is not there or refuses, or it ingests and the answer is lost.
UploadFails ==
    /\ pc = "upload" /\ Fault
    /\ Reported \/ reports' = reports
    /\ Continue
    /\ UNCHANGED <<staging, retained, world, stayed>>

(* Around the worker *)

\* Mutant: the entry in hand survives the process.
CrashKeepsEntry ==
    /\ up /\ Fault
    /\ up' = FALSE /\ pc' = "idle" /\ listing' = {}
    /\ UNCHANGED <<current, allowlist, staging, retained, world, reports, stayed>>

Crash ==
    /\ up /\ Fault
    /\ up' = FALSE /\ pc' = "idle" /\ listing' = {} /\ current' = Nothing
    /\ UNCHANGED <<allowlist, staging, retained, world, reports, stayed>>

\* The environment may have been edited since the last start.
Boot ==
    /\ ~up /\ up' = TRUE
    /\ allowlist' \in BOOLEAN
    /\ UNCHANGED <<pc, listing, current, staging, retained, world, faults, reports, stayed>>

\* The helper publishes a capture; it lasts longer than the worker takes from
\* the removal of a file to the end of the call that removes it.
Publish(n) ==
    /\ captures < MaxCaptures /\ staging[n] = Nothing /\ current # n
    /\ captures' = captures + 1
    /\ staging' = [staging EXCEPT ![n] = [capture |-> captures', modTime |-> clock]]
    /\ UNCHANGED <<process, retained, clock, faults, reports, stayed>>

\* A round reads the time once, before it prunes.
TimePasses ==
    /\ clock < Horizon /\ pc # "prune"
    /\ clock' = clock + 1
    /\ UNCHANGED <<process, staging, retained, captures, faults, reports, stayed>>

-----------------------------------------------------------------------------

Filters == FilterRefused \/ FilterOpens \/ FilterSucceeds \/ FilterFails \/ RemovesPartial
Keeps   == RetainRefused \/ Retains \/ RetainFails
Removes == RemovesRaw \/ RemoveRawFails
Sends   == Analyzes \/ AnalysisFails \/ Uploads \/ UploadFails
Rounds  == RoundBegins \/ Prunes \/ PruneEnds \/ PruneFails \/ ListsStaging \/ ListingFails
           \/ TakesEntry \/ RoundEnds

Worker == Rounds \/ Filters \/ Keeps \/ Removes \/ Sends

Next == Worker \/ Crash \/ Boot \/ TimePasses \/ \E n \in Names : Publish(n)

Spec == Init /\ [][Next]_vars

\* The ticker of a running worker fires every five seconds, the listing of a
\* directory ends, and both calls of tshark have a timeout of ninety seconds.
\* The upload has none (http.DefaultClient): it may wait for its answer for
\* ever, and every later round with it.
FairSpec == Spec /\ WF_vars(Worker /\ pc # "upload")

-----------------------------------------------------------------------------

\* Types of every variable; the worker holds an entry exactly between taking
\* it and going on to the next one.
TypeOK ==
    /\ up \in BOOLEAN /\ allowlist \in BOOLEAN
    /\ pc \in Points /\ (~up => pc = "idle")
    /\ listing \subseteq Names
    /\ current \in Names \cup {Nothing}
    /\ (current = Nothing) <=> (pc \in {"idle", "prune", "list", "next"})
    /\ staging \in [Names -> Raw \cup {Nothing}]
    /\ retained \in [Names -> Copy \cup {Nothing}]
    /\ clock \in 0..Horizon /\ captures \in 0..MaxCaptures /\ faults \in 0..MaxFaults
    /\ reports \in [Captures -> Nat] /\ kept \in [Captures -> Nat]
    /\ left \subseteq Captures

\* src/README.md:5, "before deleting the raw files on every path": when a capture
\* is analysed, its copy is whole, and the raw file is gone unless the removal
\* itself failed.  A crash in the middle of the filter does not break this.
OnlyAuthorizedIsAnalysed ==
    pc \in {"analyze", "upload"} =>
        /\ retained[current] # Nothing
        /\ retained[current].whole
        /\ staging[current] # Nothing => kept[retained[current].capture] > 0

\* The API ingests the report of a capture at most once, whatever crashes and
\* whichever answer is lost; one report more for every time the raw file could
\* not be removed and was found again.  (The API itself adds every report it
\* is sent.)
ReportedAtMostOnce == \A c \in Captures : reports[c] <= 1 + kept[c]

\* A raw capture is given up only when its copy is whole or there is none: a
\* filter that a crash interrupted is repeated from the raw file.  The
\* exceptions are a copy that could not be removed, and a worker that was
\* started again without an allowlist.
RawOutlivesPartialCopy ==
    [][\A n \in Names :
          (staging[n] # Nothing /\ staging'[n] = Nothing) =>
              \/ retained'[n] = Nothing
              \/ retained'[n].whole
              \/ ~allowlist
              \/ staging[n].capture \in left]_vars

\* Retention takes a copy before its age only when it and the copies that are
\* no older than it exceed the quota (ADR 0004): never a newer one first, and
\* never more than needed.
EvictionIsNeeded ==
    [][\A n \in Unexpired :
          (pc = "prune" /\ retained'[n] = Nothing) =>
              Used({ m \in Unexpired : retained[m].modTime >= retained[n].modTime }) > MaxBytes]_vars

-----------------------------------------------------------------------------

OverRetained == Expired # {} \/ Used(Present) > MaxBytes

\* No upload waits for its answer for ever: what the properties below assume
\* of the API and the network, and the code does not see to.
UploadsReturn == WF_vars(Uploads \/ UploadFails)
KeepsRunning  == <>[]up /\ UploadsReturn

\* Age and quota are restored after every round that exceeded them, as long
\* as the worker keeps running and its uploads return, also when a removal
\* failed before.
RetentionIsRestored == KeepsRunning => (OverRetained ~> ~OverRetained)

\* config/defaults.yaml:4, raw_staging_retention: no raw capture stays in
\* staging under a running worker whose uploads return, also when they and the
\* other calls on its way return errors.
RawLeavesStaging ==
    KeepsRunning => \A n \in Names : (staging[n] # Nothing) ~> (staging[n] = Nothing)

Staged(c, n) == staging[n] # Nothing /\ staging[n].capture = c

\* As long as nothing fails and every upload returns, the capture in staging
\* is reported in the end, unless no BSSID is allowed or its name has been retained before.
EveryCaptureIsReported ==
    (KeepsRunning /\ [](faults = MaxFaults)) =>
        \A n \in Names, c \in Captures :
            Staged(c, n) ~> \/ reports[c] = 1
                            \/ n \in RadioNames /\ ~allowlist
                            \/ n \in LocalNames /\ retained[n] # Nothing /\ retained[n].capture # c
=============================================================================
