------------------------- MODULE CollectionDiscoveries -------------------------
(***************************************************************************)
(* CollectionOperationsService: explorations of the schedule that are      *)
(* created one after the other, run one at a time, cancelled, and resumed  *)
(* as failed by a server that starts again                                 *)
(* (apps/server/src/collection-operations-service.ts; the files are those  *)
(* of packages/persistence/src/collection-workspace.ts).                   *)
(*                                                                         *)
(* A discovery is the call of create() that makes it.  Of its record the   *)
(* status is kept, of its entries whether they are those of the pages that *)
(* were seen or all of them.                                               *)
(***************************************************************************)
EXTENDS Integers, Sequences, SequencesExt

CONSTANTS
    Discovery,
    MaxFailedSaves,         \* bound of the writes that fail
    MaxDiscoveryCrashes     \* bound of the crashes

VARIABLES
    keyOf,            \* the idempotency key of each call, which does not change
    discoveryDisk,    \* record.json: the status, "none" without the file
    entriesDisk,      \* entries.json: "none", "seen" or "all"
    creation,         \* the calls of create() in their chain, the first one at work
    creating,         \* of each call: "none", "chained", "reading", "saving" or "answered"
    discoveryTasks,   \* the map of tasks, in its order
    discoveryStatus,  \* of each task: the status of its record
    discoveryRuns,    \* of each task: how far run() is
    pagesSeen,        \* the tasks that saw entries on a page
    abortedTasks,     \* the tasks whose controller is aborted
    cancelling,       \* of each task: "none", "saving", "awaiting" or "returned"
    serviceState,     \* "up", "closing", "closed", "down" or "restoring"
    failedSaves, discoveryCrashes
creationVars == <<creation, creating>>
signalVars == <<abortedTasks, cancelling>>
discoveryFiles == <<discoveryDisk, entriesDisk>>
taskVars == <<discoveryTasks, discoveryStatus, discoveryRuns, pagesSeen, signalVars>>
faultVars == <<failedSaves, discoveryCrashes>>
serviceVars == <<discoveryFiles, creationVars, taskVars, serviceState, faultVars>>
discoveryVars == <<keyOf, serviceVars>>

EndedStatus == {"succeeded", "failed", "cancelled"}
FirstDiscovery == CHOOSE d \in Discovery : TRUE
AllDiscoveries(v) == [d \in Discovery |-> v]

DiscoveryInit ==
    /\ keyOf \in {AllDiscoveries(FirstDiscovery), [d \in Discovery |-> d]}
    /\ discoveryDisk = AllDiscoveries("none") /\ entriesDisk = AllDiscoveries("none")
    /\ creation = <<>> /\ creating = AllDiscoveries("none")
    /\ discoveryTasks = <<>>
    /\ discoveryStatus = AllDiscoveries("none") /\ discoveryRuns = AllDiscoveries("none")
    /\ pagesSeen = {} /\ abortedTasks = {} /\ cancelling = AllDiscoveries("none")
    /\ serviceState = "up" /\ failedSaves = 0 /\ discoveryCrashes = 0

Serving == serviceState \in {"up", "closing"}
SaveRecord(d, s) == discoveryDisk' = [discoveryDisk EXCEPT ![d] = s]
SaveFails == failedSaves < MaxFailedSaves /\ failedSaves' = failedSaves + 1
Executes(d, step) == discoveryRuns' = [discoveryRuns EXCEPT ![d] = step]

\* pump(), with the tasks ts and their statuses ss: when none runs, the first that
\* is queued does.
Pumps(ts, ss, es) ==
    LET queued == {i \in 1 .. Len(ts) : ss[ts[i]] = "queued"}
        first == ts[CHOOSE i \in queued : \A n \in queued : i <= n]
    IN IF serviceState # "up" \/ queued = {} \/ \E i \in 1 .. Len(ts) : ss[ts[i]] = "running"
       THEN discoveryStatus' = ss /\ discoveryRuns' = es
       ELSE /\ discoveryStatus' = [ss EXCEPT ![first] = "running"]
            /\ discoveryRuns' = [es EXCEPT ![first] = "begin"]

-----------------------------------------------------------------------------
(* create() *)

CreateDiscovery(d) ==
    /\ Serving /\ creating[d] = "none"
    /\ creation' = Append(creation, d)
    /\ creating' = [creating EXCEPT ![d] = "chained"]
    /\ UNCHANGED <<discoveryFiles, taskVars, serviceState, faultVars>>

AtWork(d, step) == Serving /\ creation # <<>> /\ Head(creation) = d /\ creating[d] = step
CreationAnswers(d) ==
    /\ creation' = Tail(creation)
    /\ creating' = [creating EXCEPT ![d] = "answered"]

\* Its turn comes: no service that closes makes a discovery.
CreationBegins(d) ==
    /\ AtWork(d, "chained")
    /\ IF serviceState = "up"
       THEN creating' = [creating EXCEPT ![d] = "reading"] /\ UNCHANGED creation
       ELSE CreationAnswers(d)
    /\ UNCHANGED <<discoveryFiles, taskVars, serviceState, faultVars>>

\* The record with its key answers it, or refuses it for another range.
HasKey(e, d) == discoveryDisk[e] # "none" /\ keyOf[e] = keyOf[d]
CreationReads(d) ==
    /\ AtWork(d, "reading")
    /\ IF \E e \in Discovery : HasKey(e, d) THEN CreationAnswers(d)
       ELSE creating' = [creating EXCEPT ![d] = "saving"] /\ UNCHANGED creation
    /\ UNCHANGED <<discoveryFiles, taskVars, serviceState, faultVars>>

CreationSaves(d) ==
    /\ AtWork(d, "saving")
    /\ SaveRecord(d, "queued")
    /\ discoveryTasks' = Append(discoveryTasks, d)
    /\ Pumps(discoveryTasks', [discoveryStatus EXCEPT ![d] = "queued"], discoveryRuns)
    /\ CreationAnswers(d)
    /\ UNCHANGED <<entriesDisk, pagesSeen, signalVars, serviceState, faultVars>>
CreationFails(d) ==
    /\ AtWork(d, "saving") /\ SaveFails
    /\ CreationAnswers(d)
    /\ UNCHANGED <<discoveryFiles, taskVars, serviceState, discoveryCrashes>>

-----------------------------------------------------------------------------
(* run() *)

Running(d, step) == Serving /\ discoveryRuns[d] = step

RunBegins(d) ==
    /\ Running(d, "begin")
    /\ SaveRecord(d, discoveryStatus[d]) /\ Executes(d, "explore")
    /\ UNCHANGED <<entriesDisk, creationVars, discoveryTasks, discoveryStatus, pagesSeen,
                   signalVars, serviceState, faultVars>>

\* A page is saved, its entries are added, and the record is saved.
PageSeen(d) ==
    /\ Running(d, "explore")
    /\ pagesSeen' = pagesSeen \cup {d} /\ SaveRecord(d, discoveryStatus[d])
    /\ UNCHANGED <<entriesDisk, creationVars, discoveryTasks, discoveryStatus,
                   discoveryRuns, signalVars, serviceState, faultVars>>

\* discoverRange() ends with all entries, which an abort may come before.
Explored(d) ==
    /\ Running(d, "explore")
    /\ Executes(d, IF d \in abortedTasks THEN "catch" ELSE "entries")
    /\ UNCHANGED <<discoveryFiles, creationVars, discoveryTasks, discoveryStatus,
                   pagesSeen, signalVars, serviceState, faultVars>>
ExplorerThrows(d) ==
    /\ Running(d, "explore")
    /\ Executes(d, "catch")
    /\ UNCHANGED <<discoveryFiles, creationVars, discoveryTasks, discoveryStatus,
                   pagesSeen, signalVars, serviceState, faultVars>>
RunThrows(d) ==
    /\ Serving /\ discoveryRuns[d] \in {"begin", "explore", "entries"} /\ SaveFails
    /\ Executes(d, "catch")
    /\ UNCHANGED <<discoveryFiles, creationVars, discoveryTasks, discoveryStatus,
                   pagesSeen, signalVars, serviceState, discoveryCrashes>>

\* saveEntries(), after which the record in memory has its end.
EntriesSaved(d, entries, s) ==
    /\ entriesDisk' = [entriesDisk EXCEPT ![d] = entries]
    /\ discoveryStatus' = [discoveryStatus EXCEPT ![d] = s]
    /\ Executes(d, "record")
    /\ UNCHANGED <<discoveryDisk, creationVars, discoveryTasks, pagesSeen, signalVars,
                   serviceState, faultVars>>
RunSucceeds(d) == Running(d, "entries") /\ EntriesSaved(d, "all", "succeeded")
RunCatches(d) ==
    /\ Running(d, "catch")
    /\ EntriesSaved(d, IF d \in pagesSeen THEN "seen" ELSE "none",
                    IF d \in abortedTasks THEN "cancelled" ELSE "failed")

\* The last save, and the next discovery.
DiscoveryRunEnds(d) ==
    /\ Running(d, "record")
    /\ SaveRecord(d, discoveryStatus[d])
    /\ Pumps(discoveryTasks, discoveryStatus, [discoveryRuns EXCEPT ![d] = "ended"])
    /\ UNCHANGED <<entriesDisk, creationVars, discoveryTasks, pagesSeen, signalVars,
                   serviceState, faultVars>>

\* What the server has in memory is lost with its process.
ProcessEnds ==
    /\ serviceState' = "down"
    /\ creation' = <<>>
    /\ creating' = [d \in Discovery |-> IF creating[d] = "none" THEN "none" ELSE "answered"]
    /\ discoveryTasks' = <<>>
    /\ discoveryStatus' = AllDiscoveries("none") /\ discoveryRuns' = AllDiscoveries("none")
    /\ pagesSeen' = {} /\ abortedTasks' = {} /\ cancelling' = AllDiscoveries("none")

\* A save of the catch, or the last one, fails: run() rejects.  Nobody handles that
\* but a cancel() that awaits it, and an unhandled rejection ends the process.
RunRejects(d) ==
    /\ Serving /\ discoveryRuns[d] \in {"catch", "record"} /\ SaveFails
    /\ UNCHANGED <<discoveryFiles, discoveryCrashes>>
    /\ \/ /\ cancelling[d] = "awaiting"
          /\ Pumps(discoveryTasks, discoveryStatus, [discoveryRuns EXCEPT ![d] = "rejected"])
          /\ UNCHANGED <<creationVars, discoveryTasks, pagesSeen, signalVars,
                         serviceState>>
       \/ cancelling[d] # "awaiting" /\ ProcessEnds

-----------------------------------------------------------------------------
(* cancel(), close() and restore() *)

InRun(d) == discoveryRuns[d] \notin {"none", "ended", "rejected"}

\* Mutant: a discovery that runs is recorded as cancelled before its run ends.
CancelBeginsAny(ds) ==
    LET open == {d \in ds : discoveryStatus[d] \in {"queued", "running"}}
    IN /\ abortedTasks' = abortedTasks \cup ds
       /\ discoveryStatus' = [d \in Discovery |-> IF d \in open THEN "cancelled" ELSE discoveryStatus[d]]
       /\ cancelling' = [d \in Discovery |-> IF d \in open THEN "saving" ELSE cancelling[d]]

\* The first part of cancel(), for the tasks of ds.
CancelBegins(ds) ==
    /\ abortedTasks' = abortedTasks \cup ds
    /\ discoveryStatus' = [d \in Discovery |->
                     IF d \in ds /\ discoveryStatus[d] = "queued" THEN "cancelled" ELSE discoveryStatus[d]]
    /\ cancelling' = [d \in Discovery |->
                         CASE d \in ds /\ discoveryStatus[d] = "queued" -> "saving"
                           [] d \in ds /\ discoveryStatus[d] # "queued" /\ InRun(d) -> "awaiting"
                           [] OTHER -> cancelling[d]]

CancelDiscovery(d) ==
    /\ Serving /\ Contains(discoveryTasks, d)
    /\ cancelling[d] = "none" /\ discoveryStatus[d] \notin EndedStatus
    /\ CancelBegins({d})
    /\ UNCHANGED <<discoveryFiles, creationVars, discoveryTasks, discoveryRuns, pagesSeen,
                   serviceState, faultVars>>

CancelSaves(d) ==
    /\ Serving /\ cancelling[d] = "saving"
    /\ SaveRecord(d, discoveryStatus[d])
    /\ cancelling' = [cancelling EXCEPT ![d] = "returned"]
    /\ UNCHANGED <<entriesDisk, creationVars, discoveryTasks, discoveryStatus,
                   discoveryRuns, pagesSeen, abortedTasks, serviceState, faultVars>>
CancelRejects(d) ==
    /\ Serving /\ cancelling[d] = "saving" /\ SaveFails
    /\ cancelling' = [cancelling EXCEPT ![d] = "returned"]
    /\ UNCHANGED <<discoveryFiles, creationVars, discoveryTasks, discoveryStatus,
                   discoveryRuns, pagesSeen, abortedTasks, serviceState, discoveryCrashes>>
CancelReturns(d) ==
    /\ Serving /\ cancelling[d] = "awaiting" /\ ~InRun(d)
    /\ cancelling' = [cancelling EXCEPT ![d] = "returned"]
    /\ UNCHANGED <<discoveryFiles, creationVars, discoveryTasks, discoveryStatus,
                   discoveryRuns, pagesSeen, abortedTasks, serviceState, faultVars>>

CloseDiscoveries ==
    /\ serviceState = "up" /\ serviceState' = "closing"
    /\ UNCHANGED <<discoveryFiles, creationVars, taskVars, faultVars>>

\* The chain has ended: every task is cancelled.
CloseCancelsAll ==
    /\ serviceState = "closing" /\ creation = <<>>
    /\ \E i \in 1 .. Len(discoveryTasks) : discoveryTasks[i] \notin abortedTasks
    /\ CancelBegins(ToSet(discoveryTasks))
    /\ UNCHANGED <<discoveryFiles, creationVars, discoveryTasks, discoveryRuns, pagesSeen,
                   serviceState, faultVars>>
CloseEnds ==
    /\ serviceState = "closing" /\ creation = <<>> /\ ToSet(discoveryTasks) \subseteq abortedTasks
    /\ \A d \in Discovery : cancelling[d] \notin {"saving", "awaiting"}
    /\ serviceState' = "closed"
    /\ UNCHANGED <<discoveryFiles, creationVars, taskVars, faultVars>>

DiscoveryCrash ==
    /\ Serving /\ discoveryCrashes < MaxDiscoveryCrashes
    /\ discoveryCrashes' = discoveryCrashes + 1
    /\ ProcessEnds
    /\ UNCHANGED <<discoveryFiles, failedSaves>>

ServiceStarts ==
    /\ serviceState = "down" /\ serviceState' = "restoring"
    /\ UNCHANGED <<discoveryFiles, creationVars, taskVars, faultVars>>

\* A discovery that did not end when the process did has failed.
UnfinishedDiscoveries == {d \in Discovery : discoveryDisk[d] \in {"queued", "running"}}
RestoreDiscovery ==
    /\ serviceState = "restoring"
    /\ \/ \E d \in UnfinishedDiscoveries : SaveRecord(d, "failed") /\ UNCHANGED serviceState
       \/ UnfinishedDiscoveries = {} /\ serviceState' = "up" /\ UNCHANGED discoveryDisk
    /\ UNCHANGED <<entriesDisk, creationVars, taskVars, faultVars>>

-----------------------------------------------------------------------------
Creates(d) == CreationBegins(d) \/ CreationReads(d) \/ CreationSaves(d)
Runs(d) ==
    \/ RunBegins(d) \/ Explored(d) \/ ExplorerThrows(d)
    \/ RunSucceeds(d) \/ RunCatches(d) \/ DiscoveryRunEnds(d)
EndsCancel(d) == CancelSaves(d) \/ CancelReturns(d)

DiscoverySteps ==
    \/ \E d \in Discovery : CreateDiscovery(d) \/ Creates(d) \/ CreationFails(d)
    \/ \E d \in Discovery : Runs(d) \/ PageSeen(d) \/ RunThrows(d) \/ RunRejects(d)
    \/ \E d \in Discovery : CancelDiscovery(d) \/ EndsCancel(d) \/ CancelRejects(d)
    \/ CloseDiscoveries \/ CloseCancelsAll \/ CloseEnds
    \/ DiscoveryCrash \/ ServiceStarts \/ RestoreDiscovery

DiscoveryNext == DiscoverySteps /\ UNCHANGED keyOf

\* Promises settle, the pages of a range are bounded and each has its timeout, and a
\* process that ended is started again.
DiscoveryFairness ==
    WF_serviceVars(\/ \E d \in Discovery : Creates(d) \/ Runs(d) \/ EndsCancel(d)
                   \/ CloseCancelsAll \/ CloseEnds \/ ServiceStarts \/ RestoreDiscovery)
DiscoverySpec == DiscoveryInit /\ [][DiscoveryNext]_discoveryVars /\ DiscoveryFairness

-----------------------------------------------------------------------------
\* One discovery explores at a time, a key names one, and one that succeeded has all
\* its entries on disk.
DiscoveriesHold ==
    /\ \A d, e \in Discovery :
          /\ {discoveryRuns[d], discoveryRuns[e]} \subseteq {"begin", "explore"} => d = e
          /\ discoveryDisk[d] # "none" /\ discoveryDisk[e] # "none" /\ keyOf[d] = keyOf[e]
                => d = e
    /\ \A d \in Discovery : discoveryDisk[d] = "succeeded" => entriesDisk[d] = "all"

\* The end of a discovery stands, whatever is cancelled, crashes or starts later.
DiscoveriesStand ==
    [][\A d \in Discovery : discoveryDisk[d] \in EndedStatus => discoveryDisk'[d] = discoveryDisk[d]
      ]_discoveryDisk

\* In the end every discovery has ended on disk, and every close() has returned, unless
\* the rejection of a run was handled by the call that cancelled it: then the record
\* stays as it was until the server starts again, and those behind it may wait for ever.
\* A cancelled one whose record could not be written waits for that too.
DiscoveriesEnd ==
    <>[](/\ \A d \in Discovery :
               discoveryDisk[d] \in {"queued", "running"}
                  => \/ \E e \in Discovery : discoveryRuns[e] = "rejected"
                     \/ failedSaves > 0 /\ discoveryStatus[d] = "cancelled"
         /\ serviceState # "closing")

=============================================================================
