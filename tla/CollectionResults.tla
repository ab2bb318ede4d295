---------------------------- MODULE CollectionResults ----------------------------
(***************************************************************************)
(* The results of collection jobs as the collection workspace keeps them    *)
(* (packages/persistence/src/collection-workspace.ts): one file per game,   *)
(* written while others read the job's files, and a cache in front of them  *)
(* that versions, not locks, keep from being stale.                         *)
(***************************************************************************)
EXTENDS Naturals, FiniteSets, SequencesExt

CONSTANTS
    KeptJob,      \* jobs
    Save,         \* calls of saveResult()
    Ask,          \* calls of results()
    JobOf, GameOf,  \* the job and the game of a save
    NoRows,       \* undefined, in the cache
    MaxCachedJobs, MaxCachedRows  \* the 16 jobs and 32 MiB of the cache, in rows

ASSUME KeptAssumption == {MaxCachedJobs, MaxCachedRows} \subseteq Nat \ {0}
ASSUME SaveAssumption == IsFiniteSet(Save) /\ JobOf \in [Save -> KeptJob]

VARIABLES
    kept,        \* the games a job has a result file for
    resultCache, \* the Map resultCache: [job, rows] in order of insertion
    cachedRows,  \* resultBytes
    version,     \* resultVersions
    save,        \* per saveResult: [step, previous, version, written]
    resultRead,  \* the Map resultReads: the read of a job's files in flight, or 0
    fetches,     \* reads of a job's files: [job, version, step, rows], in their order
    ask          \* per results(): [step, job, version, fetch, needs, got]

resultVars == <<kept, resultCache, cachedRows, version, save, resultRead, fetches, ask>>

Unsaved == [step |-> "none", previous |-> NoRows, version |-> 0, written |-> FALSE]

ResultsInit ==
    /\ kept = [j \in KeptJob |-> {}]
    /\ resultCache = <<>> /\ cachedRows = 0
    /\ version = [j \in KeptJob |-> 0]
    /\ save = [s \in Save |-> Unsaved]
    /\ resultRead = [j \in KeptJob |-> 0]
    /\ fetches = <<>>
    /\ ask = [a \in Ask |-> [step |-> "none", job |-> CHOOSE j \in KeptJob : TRUE,
                             version |-> 0, fetch |-> 0, needs |-> {}, got |-> {}]]

\* Map.has(), Map.get() and Map.delete()
Has(j, es) == \E i \in 1 .. Len(es) : es[i].job = j
Place(j, es) == CHOOSE i \in 1 .. Len(es) : es[i].job = j
RowsOf(j, es) == IF Has(j, es) THEN es[Place(j, es)].rows ELSE NoRows
Without(j, es) == IF Has(j, es) THEN RemoveAt(es, Place(j, es)) ELSE es
RowCount(es) == Cardinality(UNION {{es[i].job} \X es[i].rows : i \in 1 .. Len(es)})
CountIn(j, es) == IF Has(j, es) THEN Cardinality(RowsOf(j, es)) ELSE 0
CountOf(j) == CountIn(j, resultCache)

\* The Map without its oldest entries, as many as its limits require.
Trimmed(es) ==
    LET Fits(k) == LET rest == SubSeq(es, k + 1, Len(es))
                   IN Len(rest) <= MaxCachedJobs /\ RowCount(rest) <= MaxCachedRows
        n == CHOOSE k \in 0 .. Len(es) : Fits(k) /\ \A h \in 0 .. k - 1 : ~ Fits(h)
    IN SubSeq(es, n + 1, Len(es))

\* cacheResults(): the Map and its count, after `es` with `count` rows.
CacheResults(j, rows, es, count) ==
    IF Cardinality(rows) > MaxCachedRows
    THEN resultCache' = es /\ cachedRows' = count
    ELSE LET all == Append(Without(j, es), [job |-> j, rows |-> rows])
             grown == count + Cardinality(rows) - CountIn(j, es)
         IN /\ resultCache' = Trimmed(all)
            /\ cachedRows' = grown - (RowCount(all) - RowCount(Trimmed(all)))

\* invalidateResults()
InvalidateResults(j) ==
    /\ version' = [version EXCEPT ![j] = @ + 1]
    /\ resultRead' = [resultRead EXCEPT ![j] = 0]

\* saveResult() up to its first await.
SaveBegins(s) ==
    /\ save[s].step = "none"
    /\ LET j == JobOf[s] IN
       /\ save' = [save EXCEPT ![s] = [step |-> "writing", written |-> FALSE,
                      previous |-> RowsOf(j, resultCache), version |-> version[j] + 1]]
       /\ InvalidateResults(j)
       /\ resultCache' = Without(j, resultCache)
       /\ cachedRows' = cachedRows - CountOf(j)
    /\ UNCHANGED <<kept, fetches, ask>>

\* The file is there; what follows, rememberResult(), may fail and changes no more.
SaveWrites(s) ==
    /\ save[s].step = "writing"
    /\ kept' = [kept EXCEPT ![JobOf[s]] = @ \cup {GameOf[s]}]
    /\ save' = [save EXCEPT ![s].step = "ending", ![s].written = TRUE]
    /\ UNCHANGED <<resultCache, cachedRows, version, resultRead, fetches, ask>>

SaveFails(s) ==
    /\ save[s].step = "writing"
    /\ save' = [save EXCEPT ![s].step = "ending"]
    /\ UNCHANGED <<kept, resultCache, cachedRows, version, resultRead, fetches, ask>>

\* The finally of saveResult().
SaveEnds(s) ==
    /\ save[s].step = "ending"
    /\ save' = [save EXCEPT ![s] = [Unsaved EXCEPT !.step = IF save[s].written THEN "saved" ELSE "failed"]]
    /\ LET j == JobOf[s] IN
       /\ InvalidateResults(j)
       /\ IF save[s].written /\ save[s].version = version[j] /\ save[s].previous # NoRows
          THEN CacheResults(j, save[s].previous \cup {GameOf[s]},
                            Without(j, resultCache), cachedRows - CountOf(j))
          ELSE /\ resultCache' = Without(j, resultCache)
               /\ cachedRows' = cachedRows - CountOf(j)
    /\ UNCHANGED <<kept, fetches, ask>>

\* results(): the answer of the cache, whose entry moves to the end, or a wait
\* for a read that the call starts or joins.
Asks(a, j) ==
    /\ IF Has(j, resultCache)
       THEN /\ ask' = [ask EXCEPT ![a].step = "answered", ![a].got = RowsOf(j, resultCache)]
            /\ resultCache' = Append(Without(j, resultCache), [job |-> j, rows |-> RowsOf(j, resultCache)])
            /\ UNCHANGED <<resultRead, fetches>>
       ELSE LET f == IF resultRead[j] # 0 THEN resultRead[j] ELSE Len(fetches) + 1 IN
            /\ ask' = [ask EXCEPT ![a].step = "waiting", ![a].fetch = f, ![a].version = version[j]]
            /\ resultRead' = [resultRead EXCEPT ![j] = f]
            /\ fetches' = IF f \in DOMAIN fetches THEN fetches
                          ELSE Append(fetches, [job |-> j, version |-> version[j],
                                                step |-> "reading", rows |-> {}])
            /\ UNCHANGED resultCache
    /\ UNCHANGED <<kept, cachedRows, version, save>>

\* What a caller may rely on is what was saved before it asked.
Saved(j) == {GameOf[s] : s \in {s \in Save : JobOf[s] = j /\ save[s].step = "saved"}}

AskBegins(a, j) ==
    /\ ask[a].step = "none"
    /\ ask' = [ask EXCEPT ![a].step = "asking", ![a].job = j, ![a].needs = Saved(j)]
    /\ UNCHANGED <<kept, resultCache, cachedRows, version, save, resultRead, fetches>>

\* The call, or the one it makes again when its version has passed.
AskGoesOn(a) == ask[a].step = "asking" /\ Asks(a, ask[a].job)

\* The files a read finds.
ReadFinds(f) ==
    /\ fetches[f].step = "reading"
    /\ fetches' = [fetches EXCEPT ![f].step = "found", ![f].rows = kept[fetches[f].job]]
    /\ UNCHANGED <<kept, resultCache, cachedRows, version, save, resultRead, ask>>

MayCache(f) == fetches[f].version = version[fetches[f].job]

\* The end of a read, found or failed, in the Map and for those that wait for it.
ReadLeaves(f, how) ==
    /\ fetches' = [fetches EXCEPT ![f] = [@ EXCEPT !.step = "ended", !.rows = {}]]
    /\ resultRead' = [j \in KeptJob |-> IF resultRead[j] = f THEN 0 ELSE resultRead[j]]
    /\ ask' = [a \in Ask |->
          IF ask[a].step # "waiting" \/ ask[a].fetch # f THEN ask[a]
          ELSE IF ask[a].version # version[ask[a].job] THEN [ask[a] EXCEPT !.step = "asking"]
          ELSE [ask[a] EXCEPT !.step = how, !.got = fetches[f].rows]]

ReadEnds(f) ==
    /\ fetches[f].step = "found"
    /\ IF MayCache(f)
       THEN CacheResults(fetches[f].job, fetches[f].rows, resultCache, cachedRows)
       ELSE UNCHANGED <<resultCache, cachedRows>>
    /\ ReadLeaves(f, "answered")
    /\ UNCHANGED <<kept, version, save>>

ReadFails(f) ==
    /\ fetches[f].step = "reading"
    /\ ReadLeaves(f, "failed")
    /\ UNCHANGED <<kept, resultCache, cachedRows, version, save>>

ResultsNext ==
    \/ \E s \in Save : SaveBegins(s) \/ SaveWrites(s) \/ SaveFails(s) \/ SaveEnds(s)
    \/ \E a \in Ask : (\E j \in KeptJob : AskBegins(a, j)) \/ AskGoesOn(a)
    \/ \E f \in DOMAIN fetches : ReadFinds(f) \/ ReadEnds(f) \/ ReadFails(f)

ResultsSpec == ResultsInit /\ [][ResultsNext]_resultVars

-----------------------------------------------------------------------------
\* With no save of a job under way its cached rows are those of its files; no
\* answer lacks what was saved before the question; the rows of the cache are
\* counted and bounded.
ResultsShowDisk ==
    /\ \A j \in KeptJob :
          (\A s \in Save : JobOf[s] = j => save[s].step \in {"none", "saved", "failed"})
          => RowsOf(j, resultCache) \in {NoRows, kept[j]}
    /\ \A a \in Ask : ask[a].step = "answered" => ask[a].needs \subseteq ask[a].got
    /\ cachedRows = RowCount(resultCache) /\ cachedRows <= MaxCachedRows
    /\ Len(resultCache) <= MaxCachedJobs

=============================================================================
