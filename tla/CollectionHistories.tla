--------------------------- MODULE CollectionHistories ---------------------------
(***************************************************************************)
(* The records of collection jobs as the collection workspace keeps them    *)
(* (packages/persistence/src/collection-workspace.ts): saved while others   *)
(* list them, with one cache and one read in flight that a version guards.  *)
(***************************************************************************)
EXTENDS Naturals, Sequences

CONSTANTS
    RecordedJob,    \* jobs
    Record,         \* calls of saveHistory()
    List,           \* calls of orderedHistories()
    RecordedAs,     \* the job of a save
    NoHistories     \* undefined

ASSUME RecordedAssumption == RecordedAs \in [Record -> RecordedJob]

VARIABLES
    history,        \* the record on disk of a job: a version, 0 for none
    historyCache, historyVersion, historyRead,  \* as in the code
    record,         \* per saveHistory: [step, previous, version, value]
    reads,          \* reads of all the records: [version, left, ended, got]
    list            \* per orderedHistories: [step, read, needs, got]

historyVars == <<history, historyCache, historyVersion, historyRead, record, reads, list>>

EmptyRecords == [j \in RecordedJob |-> 0]
Unrecorded == [step |-> "none", previous |-> NoHistories, version |-> 0, value |-> 0]

HistoriesInit ==
    /\ history = EmptyRecords
    /\ historyCache = NoHistories /\ historyVersion = 0 /\ historyRead = 0
    /\ record = [s \in Record |-> Unrecorded]
    /\ reads = <<>>
    /\ list = [l \in List |-> [step |-> "none", read |-> 0, needs |-> EmptyRecords, got |-> EmptyRecords]]

ForgetHistories ==
    /\ historyVersion' = historyVersion + 1
    /\ historyRead' = 0

RecordBegins(s) ==
    /\ record[s].step = "none"
    /\ \A t \in Record : RecordedAs[t] = RecordedAs[s] => record[t].step \in {"none", "saved", "failed"}
    /\ record' = [record EXCEPT ![s] = [step |-> "writing", previous |-> historyCache,
                     version |-> historyVersion + 1, value |-> historyVersion + 1]]
    /\ ForgetHistories
    /\ historyCache' = NoHistories
    /\ UNCHANGED <<history, reads, list>>

RecordWrites(s) ==
    /\ record[s].step = "writing"
    /\ history' = [history EXCEPT ![RecordedAs[s]] = record[s].value]
    /\ record' = [record EXCEPT ![s].step = "written"]
    /\ UNCHANGED <<historyCache, historyVersion, historyRead, reads, list>>

RecordFails(s) ==
    /\ record[s].step = "writing"
    /\ record' = [record EXCEPT ![s] = [Unrecorded EXCEPT !.step = "failed"]]
    /\ ForgetHistories
    /\ historyCache' = NoHistories
    /\ UNCHANGED <<history, reads, list>>

\* The finally of saveHistory().
RecordEnds(s) ==
    /\ record[s].step = "written"
    /\ record' = [record EXCEPT ![s] = [Unrecorded EXCEPT !.step = "saved", !.value = record[s].value]]
    /\ ForgetHistories
    /\ historyCache' = IF historyVersion = record[s].version /\ record[s].previous # NoHistories
                       THEN [record[s].previous EXCEPT ![RecordedAs[s]] = record[s].value]
                       ELSE NoHistories
    /\ UNCHANGED <<history, reads, list>>

Recorded(j) == {0} \cup {record[s].value : s \in {s \in Record : RecordedAs[s] = j /\ record[s].step = "saved"}}
Latest(vs) == CHOOSE v \in vs : \A w \in vs : w <= v

ListBegins(l) ==
    /\ list[l].step = "none"
    /\ list' = [list EXCEPT ![l].step = "asking", ![l].needs = [j \in RecordedJob |-> Latest(Recorded(j))]]
    /\ UNCHANGED <<history, historyCache, historyVersion, historyRead, record, reads>>

\* orderedHistories(): the cache, the read in flight or a new one.
ListAsks(l) ==
    /\ list[l].step = "asking"
    /\ IF historyCache # NoHistories
       THEN /\ list' = [list EXCEPT ![l].step = "answered", ![l].got = historyCache]
            /\ UNCHANGED <<historyRead, reads>>
       ELSE LET r == IF historyRead # 0 THEN historyRead ELSE Len(reads) + 1
            IN /\ list' = [list EXCEPT ![l].step = "waiting", ![l].read = r]
               /\ historyRead' = r
               /\ reads' = IF r \in DOMAIN reads THEN reads
                           ELSE Append(reads, [version |-> historyVersion, left |-> RecordedJob,
                                              ended |-> FALSE, got |-> EmptyRecords])
    /\ UNCHANGED <<history, historyCache, historyVersion, record>>

\* One record is read after another, each as it is then.
ListFinds(r, j) ==
    /\ r \in DOMAIN reads /\ j \in reads[r].left
    /\ reads' = [reads EXCEPT ![r].left = @ \ {j}, ![r].got[j] = history[j]]
    /\ UNCHANGED <<history, historyCache, historyVersion, historyRead, record, list>>

\* What was read is cached and answered, or everyone who waits for the read
\* asks again when a save has begun or ended since.
ListEnds(r) ==
    /\ r \in DOMAIN reads /\ reads[r].left = {} /\ ~ reads[r].ended
    /\ reads' = [reads EXCEPT ![r].ended = TRUE]
    /\ historyRead' = IF historyRead = r THEN 0 ELSE historyRead
    /\ LET fresh == reads[r].version = historyVersion
       IN /\ historyCache' = IF fresh THEN reads[r].got ELSE historyCache
          /\ list' = [l \in List |->
                IF list[l].step # "waiting" \/ list[l].read # r THEN list[l]
                ELSE IF fresh THEN [list[l] EXCEPT !.step = "answered", !.got = reads[r].got]
                     ELSE [list[l] EXCEPT !.step = "asking"]]
    /\ UNCHANGED <<history, historyVersion, record>>

HistoriesNext ==
    \/ \E s \in Record : RecordBegins(s) \/ RecordWrites(s) \/ RecordFails(s) \/ RecordEnds(s)
    \/ \E l \in List : ListBegins(l) \/ ListAsks(l)
    \/ \E r \in DOMAIN reads : ListEnds(r) \/ \E j \in RecordedJob : ListFinds(r, j)

HistoriesSpec == HistoriesInit /\ [][HistoriesNext]_historyVars

-----------------------------------------------------------------------------
\* With no save under way the cached list has the records of the disk, and no
\* list that is answered is older than a save that had ended when it was asked for.
HistoriesShowDisk ==
    /\ (\A s \in Record : record[s].step \in {"none", "saved", "failed"})
          => historyCache \in {NoHistories, history}
    /\ \A l \in List : list[l].step = "answered" =>
          \A j \in RecordedJob : list[l].needs[j] <= list[l].got[j]

=============================================================================
