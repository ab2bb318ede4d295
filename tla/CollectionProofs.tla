------------------------------- MODULE CollectionProofs -------------------------------
(*****************************************************************************)
(* Proofs about the collection jobs, for any number of jobs, games, crashes *)
(* and failures.  The first part is about the queues that these and the     *)
(* pools of the server keep.                                                *)
(*****************************************************************************)
EXTENDS CollectionJobs, Integers,
        SequencesExt, SequenceTheorems, FiniteSetTheorems, WellFoundedInduction, TLAPS

(* Queues *)

\* What is in a queue is there once.
Distinct(s) == \A i, k \in 1 .. Len(s) : s[i] = s[k] => i = k

\* An empty queue.
LEMMA NoneQueued == ToSet(<<>>) = {} /\ Distinct(<<>>)
BY DEF ToSet, Distinct

\* The members of a queue are its elements.
LEMMA QueuedAt ==
    ASSUME NEW S, NEW s \in Seq(S)
    PROVE  /\ ToSet(s) = {s[i] : i \in 1 .. Len(s)} /\ ToSet(s) \subseteq S /\ Len(s) \in Nat
           /\ s = <<>> <=> ToSet(s) = {}
           /\ s = <<>> <=> Len(s) = 0
BY EmptySeq DEF ToSet

\* What is put at the end of a queue that does not have it.
LEMMA Enqueued ==
    ASSUME NEW S, NEW s \in Seq(S), NEW e \in S, Distinct(s), e \notin ToSet(s)
    PROVE  /\ Append(s, e) \in Seq(S) /\ Len(Append(s, e)) = Len(s) + 1
           /\ ToSet(Append(s, e)) = ToSet(s) \cup {e}
           /\ Distinct(Append(s, e))
<1>1. /\ Append(s, e) \in Seq(S) /\ Len(Append(s, e)) = Len(s) + 1 /\ Len(s) \in Nat
      /\ \A i \in 1 .. Len(s) : Append(s, e)[i] = s[i]
      /\ Append(s, e)[Len(s) + 1] = e
    BY AppendProperties
<1> DEFINE t == Append(s, e)
<1>2. 1 .. Len(t) = 1 .. Len(s) \cup {Len(s) + 1}
    BY <1>1
<1>s. ToSet(s) = {s[i] : i \in 1 .. Len(s)}
    BY QueuedAt
<1>t. ToSet(t) = {t[i] : i \in 1 .. Len(t)}
    BY <1>1, QueuedAt
<1>u. /\ Len(t) = Len(s) + 1 /\ t[Len(s) + 1] = e
      /\ \A i \in 1 .. Len(s) : t[i] = s[i]
    BY <1>1
<1> HIDE DEF t
<1>3. ToSet(t) = ToSet(s) \cup {e}
    BY <1>u, <1>2, <1>s, <1>t
<1>4. Distinct(t)
  <2>1. \A i \in 1 .. Len(s) : s[i] # e
    BY <1>s
  <2> QED
    BY <1>u, <1>2, <2>1 DEF Distinct
<1> QED
    BY <1>1, <1>3, <1>4 DEF t

\* What is taken from the front of a queue is no longer in it.
LEMMA Dequeued ==
    ASSUME NEW S, NEW s \in Seq(S), s # <<>>, Distinct(s)
    PROVE  /\ Tail(s) \in Seq(S) /\ Len(Tail(s)) = Len(s) - 1 /\ Head(s) \in ToSet(s)
           /\ ToSet(Tail(s)) = ToSet(s) \ {Head(s)}
           /\ Distinct(Tail(s))
<1>1. /\ Tail(s) \in Seq(S) /\ Len(Tail(s)) = Len(s) - 1 /\ Len(s) \in Nat /\ Len(s) > 0
      /\ \A i \in 1 .. Len(s) - 1 : Tail(s)[i] = s[i + 1]
      /\ Head(s) = s[1]
    BY EmptySeq, QueuedAt, HeadTailProperties
<1>s. ToSet(s) = {s[i] : i \in 1 .. Len(s)}
    BY QueuedAt
<1>t. ToSet(Tail(s)) = {Tail(s)[i] : i \in 1 .. Len(s) - 1}
  <2>1. ToSet(Tail(s)) = {Tail(s)[i] : i \in 1 .. Len(Tail(s))}
    BY <1>1, QueuedAt
  <2> QED
    BY <2>1, <1>1
<1>2. ASSUME NEW i \in 1 .. Len(s) - 1 PROVE Tail(s)[i] \in ToSet(s) /\ Tail(s)[i] # Head(s)
  <2>1. i + 1 \in 1 .. Len(s) /\ 1 \in 1 .. Len(s) /\ i + 1 # 1
    BY <1>1
  <2> QED
    BY <2>1, <1>1, <1>s DEF Distinct
<1>4. ASSUME NEW i \in 1 .. Len(s), s[i] # Head(s) PROVE s[i] \in ToSet(Tail(s))
  <2>1. i - 1 \in 1 .. Len(s) - 1 /\ (i - 1) + 1 = i
    BY <1>1, <1>4
  <2> QED
    BY <2>1, <1>1, <1>t
<1>5. Distinct(Tail(s))
  <2>1. ASSUME NEW i \in 1 .. Len(s) - 1, NEW k \in 1 .. Len(s) - 1, Tail(s)[i] = Tail(s)[k] PROVE i = k
    <3>1. i + 1 \in 1 .. Len(s) /\ k + 1 \in 1 .. Len(s) /\ s[i + 1] = s[k + 1]
      BY <1>1, <2>1
    <3>2. i + 1 = k + 1
      BY <3>1 DEF Distinct
    <3> QED
      BY <3>2
  <2> QED
    BY <2>1, <1>1 DEF Distinct
<1>6. Head(s) \in ToSet(s)
  <2>1. 1 \in 1 .. Len(s)
    BY <1>1
  <2> QED
    BY <2>1, <1>1, <1>s
<1>7. ToSet(Tail(s)) = ToSet(s) \ {Head(s)}
  <2>1. ToSet(Tail(s)) \subseteq ToSet(s) \ {Head(s)}
    BY <1>2, <1>t
  <2>2. ToSet(s) \ {Head(s)} \subseteq ToSet(Tail(s))
    BY <1>4, <1>s
  <2> QED
    BY <2>1, <2>2
<1> QED
    BY <1>1, <1>5, <1>6, <1>7

\* Taking the element at a place away moves those behind it up by one.
LEMMA RemovedAt ==
    ASSUME NEW S, NEW s \in Seq(S), NEW i \in 1 .. Len(s)
    PROVE  /\ RemoveAt(s, i) \in Seq(S) /\ Len(RemoveAt(s, i)) = Len(s) - 1 /\ Len(s) \in Nat
           /\ \A k \in 1 .. Len(s) - 1 : RemoveAt(s, i)[k] = IF k < i THEN s[k] ELSE s[k + 1]
<1> DEFINE t == RemoveAt(s, i)
<1>0. Len(s) \in Nat /\ i \in Nat /\ i >= 1 /\ i <= Len(s)
    BY QueuedAt
<1>1. /\ t \in Seq(S) /\ Len(t) = Len(s) - 1
      /\ \A k \in 1 .. Len(s) - 1 : t[k] = IF k < i THEN s[k] ELSE s[k + 1]
  <2>1. SubSeq(s, 1, i - 1) \in Seq(S) /\ Len(SubSeq(s, 1, i - 1)) = i - 1
        /\ \A k \in 1 .. i - 1 : SubSeq(s, 1, i - 1)[k] = s[k]
    BY <1>0, SubSeqProperties
  <2>2. SubSeq(s, i + 1, Len(s)) \in Seq(S) /\ Len(SubSeq(s, i + 1, Len(s))) = Len(s) - i
        /\ \A k \in 1 .. Len(s) - i : SubSeq(s, i + 1, Len(s))[k] = s[i + k]
    BY <1>0, SubSeqProperties
  <2> DEFINE a == SubSeq(s, 1, i - 1)
             b == SubSeq(s, i + 1, Len(s))
  <2>a. t = a \o b
    BY DEF RemoveAt
  <2>b. a \in Seq(S) /\ b \in Seq(S) /\ Len(a) = i - 1 /\ Len(b) = Len(s) - i
    BY <2>1, <2>2
  <2> HIDE DEF a, b, t
  <2>c. /\ a \o b \in Seq(S) /\ Len(a \o b) = Len(a) + Len(b)
        /\ \A k \in 1 .. Len(a) + Len(b) : (a \o b)[k] = IF k <= Len(a) THEN a[k] ELSE b[k - Len(a)]
    BY <2>b, ConcatProperties
  <2>d. (i - 1) + (Len(s) - i) = Len(s) - 1
    BY <1>0
  <2>3. t \in Seq(S) /\ Len(t) = Len(s) - 1
    BY <2>a, <2>b, <2>c, <2>d
  <2>4. ASSUME NEW k \in 1 .. Len(s) - 1 PROVE t[k] = IF k < i THEN s[k] ELSE s[k + 1]
    <3>1. t[k] = IF k <= i - 1 THEN SubSeq(s, 1, i - 1)[k] ELSE SubSeq(s, i + 1, Len(s))[k - (i - 1)]
      BY <2>a, <2>b, <2>c, <2>d DEF a, b
    <3>2. CASE k < i
      BY <1>0, <3>1, <3>2, <2>1
    <3>3. CASE ~ (k < i)
      <4>1. k - (i - 1) \in 1 .. Len(s) - i /\ i + (k - (i - 1)) = k + 1 /\ ~ (k <= i - 1)
        BY <1>0, <3>3
      <4> QED
        BY <4>1, <3>1, <3>3, <2>2
    <3> QED
      BY <3>2, <3>3
  <2> QED
    BY <2>3, <2>4
<1> QED
    BY <1>0, <1>1

\* What is taken out of the middle of a queue is no longer in it.
LEMMA Removed ==
    ASSUME NEW S, NEW s \in Seq(S), NEW i \in 1 .. Len(s), Distinct(s)
    PROVE  /\ RemoveAt(s, i) \in Seq(S) /\ Len(RemoveAt(s, i)) = Len(s) - 1
           /\ ToSet(RemoveAt(s, i)) = ToSet(s) \ {s[i]}
           /\ Distinct(RemoveAt(s, i))
<1> DEFINE t == RemoveAt(s, i)
<1>0. Len(s) \in Nat /\ i \in Nat /\ i >= 1 /\ i <= Len(s)
    BY QueuedAt
<1>1. /\ t \in Seq(S) /\ Len(t) = Len(s) - 1
      /\ \A k \in 1 .. Len(s) - 1 : t[k] = IF k < i THEN s[k] ELSE s[k + 1]
    BY RemovedAt
<1>s. ToSet(s) = {s[k] : k \in 1 .. Len(s)}
    BY QueuedAt
<1>t. ToSet(t) = {t[k] : k \in 1 .. Len(s) - 1}
    BY <1>1, QueuedAt
<1> HIDE DEF t
<1>2. ASSUME NEW k \in 1 .. Len(s), s[k] # s[i] PROVE s[k] \in ToSet(t)
  <2>1. CASE k < i
    BY <2>1, <1>0, <1>1, <1>t
  <2>2. CASE k > i
    <3>1. k - 1 \in 1 .. Len(s) - 1 /\ t[k - 1] = s[k]
      BY <2>2, <1>0, <1>1
    <3> QED
      BY <3>1, <1>t
  <2> QED
    BY <2>1, <2>2, <1>2, <1>0
<1>3. ASSUME NEW k \in 1 .. Len(s) - 1 PROVE t[k] \in ToSet(s) /\ t[k] # s[i]
    BY <1>0, <1>1, <1>s DEF Distinct
<1>4. Distinct(t)
    BY <1>0, <1>1 DEF Distinct
<1>5. ToSet(t) = ToSet(s) \ {s[i]}
  <2>1. ToSet(t) \subseteq ToSet(s) \ {s[i]}
    BY <1>3, <1>t
  <2>2. ToSet(s) \ {s[i]} \subseteq ToSet(t)
    BY <1>2, <1>s
  <2> QED
    BY <2>1, <2>2
<1> QED
    BY <1>1, <1>4, <1>5 DEF t

\* Counting to n.
LEMMA FirstNumbers == \A n \in Nat : IsFiniteSet(1 .. n) /\ Cardinality(1 .. n) = n
BY FS_Interval

\* A sequence has finitely many members, no more than its length.
LEMMA SeqIsFinite ==
    ASSUME NEW S, NEW s \in Seq(S), NEW e
    PROVE  IsFiniteSet(ToSet(s) \cup {e}) /\ Cardinality(ToSet(s) \cup {e}) <= Len(s) + 1
<1>0. Len(s) \in Nat
    OBVIOUS
<1>1. IsFiniteSet(1 .. Len(s)) /\ Cardinality(1 .. Len(s)) = Len(s)
    BY <1>0, FirstNumbers
<1> DEFINE f == [i \in 1 .. Len(s) |-> s[i]]
<1>2. f \in Surjection(1 .. Len(s), ToSet(s))
    BY QueuedAt DEF Surjection
<1>3. IsFiniteSet(ToSet(s)) /\ Cardinality(ToSet(s)) <= Len(s)
    BY <1>1, <1>2, FS_Surjection
<1>4. Cardinality(ToSet(s)) \in Nat
    BY <1>3, FS_CardinalityType
<1>5. /\ IsFiniteSet(ToSet(s) \cup {e})
      /\ Cardinality(ToSet(s) \cup {e}) \in {Cardinality(ToSet(s)), Cardinality(ToSet(s)) + 1}
    BY <1>3, FS_AddElement
<1> QED
    BY <1>0, <1>3, <1>4, <1>5

\* Of some numbers there is a first one.
LEMMA FirstExists ==
    ASSUME NEW T \in SUBSET Nat, T # {}
    PROVE  \E i \in T : \A n \in T : i <= n
<1>1. \E x \in T : \A y \in T : ~ (<<y, x>> \in OpToRel(<, Nat))
    BY NatLessThanWellFounded, WFMin
<1>2. PICK x \in T : \A y \in T : ~ (<<y, x>> \in OpToRel(<, Nat))
    BY <1>1
<1>3. ASSUME NEW y \in T, ~ (x <= y) PROVE FALSE
  <2>1. y < x /\ x \in Nat /\ y \in Nat
    BY <1>3
  <2>2. <<y, x>> \in OpToRel(<, Nat)
    BY <2>1 DEF OpToRel
  <2> QED
    BY <2>2, <1>2
<1> QED
    BY <1>3

-----------------------------------------------------------------------------
(* The collection jobs *)

\* The shapes of the variables.
JobStatus == JobEnded \cup {"none", "queued", "running", "cancelling"}
Snapshot == [status : JobStatus, sequence : Nat, completed : Nat]
JobWrite == [record : Snapshot, of : {"job", "cancel"}]
RunStages == {"journal", "started", "next", "collect", "count"}
JobStages == RunStages \cup {"none", "answered", "selecting", "creating", "cancelling", "interruptQueued",
                             "interrupt", "ending"}
Outcomes == {"none", "collected", "skipped", "interrupted"}
ListedJobs == {jobs[i] : i \in 1 .. Len(jobs)}
CollectionTypes ==
    /\ histories \in [CollectionJob -> Snapshot] /\ snapshots \in [CollectionJob -> Snapshot]
    /\ targets \subseteq CollectionJob /\ journals \subseteq CollectionJob
    /\ results = [j \in CollectionJob |-> results[j]]
    /\ \A j \in CollectionJob : results[j] \in [Games(j) -> Outcomes]
    /\ jobs \in Seq(CollectionJob)
    /\ writes \in [CollectionJob -> Seq(JobWrite)]
    /\ collecting \in [CollectionJob -> JobStages]
    /\ toldEvents \in [CollectionJob -> Nat]

RecordedJobs == {j \in CollectionJob : histories[j] # Unknown}

\* The requests that make jobs: one at a time, none for a key that has a job, and the
\* jobs that are listed are those that are on disk.
CreationsHold ==
    /\ KeyHasOneJob /\ IsFiniteSet(RecordedJobs)
    /\ \A i, j \in Creating : i = j
    /\ \A j \in Creating : \A i \in ListedJobs : CollectionKey[i] # CollectionKey[j]
    /\ \A j \in CollectionJob :
          /\ j \in ListedJobs => histories[j] # Unknown /\ collecting[j] \notin {"selecting", "creating", "answered"}
          /\ manager # "down" /\ histories[j] # Unknown => j \in ListedJobs \/ j \in Creating
    /\ manager = "down" => jobs = <<>> /\ \A j \in CollectionJob : collecting[j] = "none"

\* The status of a job in memory says where its run is.
StatusHolds(j) ==
    LET status == snapshots[j].status
    IN  /\ collecting[j] = "none" /\ manager \notin {"down", "restoring"}
              => status \in JobEnded \cup {"none", "queued"}
        /\ collecting[j] \in {"answered", "selecting"} => snapshots[j] = Unknown
        /\ collecting[j] = "creating" => status = "queued"
        /\ collecting[j] \in RunStages => status \in {"running", "cancelling"}
        /\ collecting[j] \in {"cancelling", "interruptQueued"} => status = "cancelling"
        /\ collecting[j] \in {"interrupt", "ending"} => status \in JobEnded
        /\ collecting[j] = "collect" => Missing(j) # {}

\* What a job has yet to write: the end comes last, after which it is at rest.
WritesHold(j) ==
    LET last == writes[j][Len(writes[j])]
    IN  /\ collecting[j] \in {"none", "answered", "selecting"} => writes[j] = <<>>
        /\ collecting[j] = "none" /\ manager # "down" => histories[j] = snapshots[j]
        /\ collecting[j] \in {"creating", "ending"} =>
              IF writes[j] = <<>> THEN histories[j] = snapshots[j]
              ELSE last = [record |-> snapshots[j], of |-> "job"]
        /\ \A i \in 1 .. Len(writes[j]) :
              /\ writes[j][i].record.status # "none"
              /\ writes[j][i].record.status \in JobEnded => collecting[j] = "ending" /\ i = Len(writes[j])

\* What is on disk of a job, and the count of its games.
CountsHold(j) ==
    /\ histories[j].status \in JobEnded => collecting[j] \in {"none", "ending"}
    /\ collecting[j] \notin {"none", "answered", "selecting", "creating"} => histories[j] # Unknown
    /\ collecting[j] \in {"answered", "selecting"} => histories[j] = Unknown
    /\ histories[j] = Unknown => Cardinality(Done(j)) = 0
    /\ collecting[j] # "none" \/ manager \notin {"down", "restoring"}
          => snapshots[j].completed = Cardinality(Done(j))
    /\ collecting[j] = "ending" /\ j \in targets => Missing(j) = {}
    /\ EndIsComplete(j)
    /\ toldEvents[j] = histories[j].sequence
    /\ j \in journals /\ manager # "down" => collecting[j] \in RunStages \cup {"interrupt", "ending"}

\* What holds of a job.
JobKeeps(j) == StatusHolds(j) /\ WritesHold(j) /\ CountsHold(j)

CollectionInv == CollectionTypes /\ CreationsHold /\ \A j \in CollectionJob : JobKeeps(j)

-----------------------------------------------------------------------------
\* The games of a job are finitely many.
LEMMA DoneIsFinite ==
    ASSUME NEW j \in CollectionJob
    PROVE  IsFiniteSet(Done(j)) /\ Cardinality(Done(j)) \in Nat
<1>1. IsFiniteSet(Games(j))
    BY CollectionAssumption, FirstNumbers DEF Games
<1>2. IsFiniteSet(Done(j))
    BY <1>1, FS_Subset DEF Done
<1> QED
    BY <1>2, FS_CardinalityType

\* The invariant holds of a server that never ran.
LEMMA CollectionStarts == CollectionInit => CollectionInv
<1> SUFFICES ASSUME CollectionInit PROVE CollectionInv
    OBVIOUS
<1> USE DEF CollectionInit
<1>0. /\ Unknown \in Snapshot /\ Unknown.status = "none" /\ Unknown.completed = 0 /\ Unknown.sequence = 0
    BY DEF Unknown, Snapshot, JobStatus, JobEnded
<1>1. CollectionTypes
  <2>1. \A j \in CollectionJob : results[j] \in [Games(j) -> Outcomes]
    BY DEF Outcomes
  <2>2. \A j \in CollectionJob : writes[j] \in Seq(JobWrite)
    OBVIOUS
  <2>3. /\ jobs \in Seq(CollectionJob)
        /\ writes \in [CollectionJob -> Seq(JobWrite)]
        /\ collecting \in [CollectionJob -> JobStages]
    BY <2>2 DEF JobStages
  <2> QED
    BY <1>0, <2>1, <2>3 DEF CollectionTypes
<1>2. CreationsHold
  <2>1. RecordedJobs = {} /\ ListedJobs = {} /\ Creating = {}
    BY DEF RecordedJobs, ListedJobs, Creating
  <2>2. IsFiniteSet(RecordedJobs)
    BY <2>1, FS_EmptySet
  <2> QED
    BY <2>1, <2>2 DEF CreationsHold, KeyHasOneJob, RecordedJobs
<1>3. ASSUME NEW j \in CollectionJob PROVE JobKeeps(j)
  <2>1. Done(j) = {}
    BY DEF Done
  <2>2. Cardinality(Done(j)) = 0
    BY <2>1, FS_EmptySet
  <2>3. StatusHolds(j) /\ WritesHold(j)
    BY <1>0 DEF StatusHolds, WritesHold, RunStages
  <2>4. CountsHold(j)
    BY <1>0, <2>2 DEF CountsHold, EndIsComplete, JobEnded
  <2> QED
    BY <2>3, <2>4 DEF JobKeeps
<1> QED
    BY <1>1, <1>2, <1>3 DEF CollectionInv

\* What no step touches of a job keeps what holds of it.
LEMMA OthersKeep ==
    ASSUME NEW j \in CollectionJob, JobKeeps(j),
           manager' = "down" <=> manager = "down",
           manager' \in {"down", "restoring"} <=> manager \in {"down", "restoring"},
           histories'[j] = histories[j], snapshots'[j] = snapshots[j], writes'[j] = writes[j],
           collecting'[j] = collecting[j], results'[j] = results[j], toldEvents'[j] = toldEvents[j],
           j \in targets' <=> j \in targets, j \in journals' <=> j \in journals
    PROVE  JobKeeps(j)'
<1>1. Done(j)' = Done(j) /\ Missing(j)' = Missing(j)
    BY DEF Done, Missing
<1>2. StatusHolds(j)'
    BY <1>1 DEF JobKeeps, StatusHolds
<1>3. WritesHold(j)'
    BY DEF JobKeeps, WritesHold
<1>4. CountsHold(j)'
    BY <1>1 DEF JobKeeps, CountsHold, EndIsComplete
<1> QED
    BY <1>2, <1>3, <1>4 DEF JobKeeps

\* What makes no job and moves no creation keeps what holds of them.
LEMMA CreationsKeep ==
    ASSUME CreationsHold, UNCHANGED jobs, manager # "down", manager' # "down",
           \A j \in CollectionJob :
              /\ histories'[j] = Unknown <=> histories[j] = Unknown
              /\ collecting'[j] \in {"selecting", "creating", "answered"} => collecting'[j] = collecting[j]
              /\ collecting[j] \in {"selecting", "creating"} => collecting'[j] = collecting[j]
    PROVE  CreationsHold'
<1>1. RecordedJobs' = RecordedJobs /\ ListedJobs' = ListedJobs
    BY DEF RecordedJobs, ListedJobs
<1>2. Creating' = Creating
    BY DEF Creating
<1>3. KeyHasOneJob'
    BY DEF CreationsHold, KeyHasOneJob
<1> QED
    BY <1>1, <1>2, <1>3 DEF CreationsHold

\* A process with a stage that is none of its own is up.
LEMMA StageIsUp ==
    ASSUME CreationsHold, NEW j \in CollectionJob, collecting[j] # "none"
    PROVE  manager # "down"
BY DEF CreationsHold

\* A record that is added to those that are to be written is the last of them, and an
\* end comes last.
LEMMA AddedWrite ==
    ASSUME CollectionTypes, NEW j \in CollectionJob, WritesHold(j), collecting[j] # "ending",
           NEW r \in Snapshot, NEW by \in {"job", "cancel"},
           snapshots'[j] = r, writes'[j] = Append(writes[j], [record |-> r, of |-> by]),
           r.status # "none", r.status \in JobEnded => collecting'[j] = "ending",
           collecting'[j] \notin {"none", "answered", "selecting"},
           collecting'[j] \in {"creating", "ending"} => by = "job"
    PROVE  writes'[j] \in Seq(JobWrite) /\ WritesHold(j)'
<1> DEFINE w == [record |-> r, of |-> by]
<1>1. w \in JobWrite /\ w.record = r
    BY DEF JobWrite
<1>2. writes[j] \in Seq(JobWrite) /\ writes'[j] = Append(writes[j], w)
    BY DEF CollectionTypes
<1>w. w = [record |-> snapshots'[j], of |-> by]
    OBVIOUS
<1> HIDE DEF w
<1>3. /\ writes'[j] \in Seq(JobWrite) /\ Len(writes[j]) \in Nat /\ Len(writes'[j]) = Len(writes[j]) + 1
      /\ writes'[j][Len(writes'[j])] = w
      /\ \A i \in 1 .. Len(writes[j]) : writes'[j][i] = writes[j][i]
    BY <1>1, <1>2, AppendProperties, QueuedAt
<1>4. writes'[j] # <<>>
    BY <1>3, QueuedAt
<1>5. ASSUME NEW i \in 1 .. Len(writes'[j])
      PROVE  /\ writes'[j][i].record.status # "none"
             /\ writes'[j][i].record.status \in JobEnded => collecting'[j] = "ending" /\ i = Len(writes'[j])
  <2>1. CASE i \in 1 .. Len(writes[j])
    BY <1>3, <2>1 DEF WritesHold
  <2>2. CASE i = Len(writes'[j])
    BY <1>1, <1>3, <2>2
  <2> QED
    BY <1>3, <2>1, <2>2
<1>6. WritesHold(j)'
    BY <1>w, <1>3, <1>4, <1>5 DEF WritesHold
<1> QED
    BY <1>3, <1>6

\* What emit() does.
LEMMA EmittedIs ==
    ASSUME CollectionTypes, NEW j \in CollectionJob, NEW s \in Snapshot, NEW by \in {"job", "cancel"},
           Emitted(j, s, by)
    PROVE  /\ snapshots' \in [CollectionJob -> Snapshot] /\ writes' \in [CollectionJob -> Seq(JobWrite)]
           /\ snapshots'[j].status = s.status /\ snapshots'[j].completed = s.completed
           /\ writes'[j] = Append(writes[j], [record |-> snapshots'[j], of |-> by])
           /\ \A i \in CollectionJob \ {j} : snapshots'[i] = snapshots[i] /\ writes'[i] = writes[i]
<1> DEFINE n == [s EXCEPT !.sequence = @ + 1]
           w == [record |-> n, of |-> by]
<1>1. n \in Snapshot /\ n.status = s.status /\ n.completed = s.completed
    BY DEF Snapshot
<1>2. w \in JobWrite
    BY <1>1 DEF JobWrite
<1>3. /\ snapshots' = [snapshots EXCEPT ![j] = n]
      /\ writes' = [writes EXCEPT ![j] = Append(writes[j], w)]
    BY DEF Emitted
<1>4. writes[j] \in Seq(JobWrite)
    BY DEF CollectionTypes
<1> HIDE DEF n
<1>w. w = [record |-> n, of |-> by]
    OBVIOUS
<1> HIDE DEF w
<1>5. Append(writes[j], w) \in Seq(JobWrite)
    BY <1>2, <1>4, AppendProperties
<1>6. snapshots'[j] = n /\ writes'[j] = Append(writes[j], w)
    BY <1>3 DEF CollectionTypes
<1>7. snapshots' \in [CollectionJob -> Snapshot] /\ writes' \in [CollectionJob -> Seq(JobWrite)]
    BY <1>1, <1>3, <1>5 DEF CollectionTypes
<1>8. \A i \in CollectionJob \ {j} : snapshots'[i] = snapshots[i] /\ writes'[i] = writes[i]
    BY <1>3 DEF CollectionTypes
<1> QED
    BY <1>1, <1>w, <1>6, <1>7, <1>8

\* Emitted records keep their order.
LEMMA EmitWrites ==
    ASSUME CollectionTypes, NEW j \in CollectionJob, WritesHold(j), collecting[j] # "ending",
           NEW s \in Snapshot, NEW by \in {"job", "cancel"}, Emitted(j, s, by),
           s.status # "none", s.status \in JobEnded => collecting'[j] = "ending",
           collecting'[j] \notin {"none", "answered", "selecting"},
           collecting'[j] \in {"creating", "ending"} => by = "job"
    PROVE  WritesHold(j)'
<1>1. /\ snapshots'[j] \in Snapshot /\ snapshots'[j].status = s.status
      /\ writes'[j] = Append(writes[j], [record |-> snapshots'[j], of |-> by])
    BY EmittedIs
<1> QED
    BY <1>1, AddedWrite

\* What a step of j must show.
LEMMA JobMoved ==
    ASSUME CollectionInv, NEW j \in CollectionJob, CollectionTypes', CreationsHold', JobKeeps(j)', UNCHANGED manager,
           \A i \in CollectionJob \ {j} :
              /\ histories'[i] = histories[i] /\ snapshots'[i] = snapshots[i] /\ writes'[i] = writes[i]
              /\ collecting'[i] = collecting[i] /\ results'[i] = results[i] /\ toldEvents'[i] = toldEvents[i]
              /\ i \in targets' <=> i \in targets
              /\ i \in journals' <=> i \in journals
    PROVE  CollectionInv'
<1>1. ASSUME NEW i \in CollectionJob, i # j PROVE JobKeeps(i)'
    BY <1>1, OthersKeep DEF CollectionInv
<1> QED
    BY <1>1 DEF CollectionInv

\* The first record of a job is written.
LEMMA PersistStep ==
    ASSUME CollectionInv, NEW j \in CollectionJob, Persist(j)
    PROVE  CollectionInv'
<1>t. CollectionTypes /\ CreationsHold /\ JobKeeps(j)
    BY DEF CollectionInv
<1> DEFINE w == writes[j]
           first == Head(writes[j]).record
<1>1. /\ w \in Seq(JobWrite) /\ w # <<>>
      /\ histories' = [histories EXCEPT ![j] = first] /\ toldEvents' = [toldEvents EXCEPT ![j] = first.sequence]
      /\ writes' = [writes EXCEPT ![j] = Tail(w)]
      /\ UNCHANGED <<targets, results, journals, jobs, snapshots, collecting, manager>>
    BY <1>t DEF Persist, Tells, CollectionTypes
<1>2. /\ Len(w) \in Nat /\ Len(w) > 0 /\ Head(w) = w[1] /\ Tail(w) \in Seq(JobWrite) /\ Len(Tail(w)) = Len(w) - 1
      /\ \A i \in 1 .. Len(w) - 1 : Tail(w)[i] = w[i + 1]
    BY <1>1, EmptySeq, QueuedAt, HeadTailProperties
<1>3. w[1] \in JobWrite
    BY <1>1, <1>2
<1>4. /\ first \in Snapshot /\ first = w[1].record /\ first.status # "none"
      /\ first.status \in JobEnded => collecting[j] = "ending" /\ Len(w) = 1
  <2>1. 1 \in 1 .. Len(w)
    BY <1>2
  <2> QED
    BY <2>1, <1>2, <1>3, <1>t DEF JobWrite, JobKeeps, WritesHold
<1>5. first.sequence \in Nat /\ first # Unknown
    BY <1>4 DEF Snapshot, Unknown
<1>6. collecting[j] \notin {"none", "answered", "selecting"}
    BY <1>1, <1>t DEF JobKeeps, WritesHold
<1>7. manager # "down"
    BY <1>6, <1>t, StageIsUp
<1> HIDE DEF first
<1>8. CollectionTypes'
  <2>1. writes' \in [CollectionJob -> Seq(JobWrite)]
    BY <1>1, <1>2, <1>t DEF CollectionTypes
  <2> HIDE DEF w
  <2> QED
    BY <1>1, <1>4, <1>5, <2>1, <1>t DEF CollectionTypes
<1>9. histories'[j] = first /\ writes'[j] = Tail(w) /\ toldEvents'[j] = first.sequence
    BY <1>1, <1>t DEF CollectionTypes
<1>e. Tail(w) = <<>> <=> Len(Tail(w)) = 0
    BY <1>2, EmptySeq
<1>10. Len(w) = 1 => Tail(w) = <<>>
    BY <1>2, <1>e
<1>11. Len(w) # 1 => Tail(w) # <<>> /\ Tail(w)[Len(Tail(w))] = w[Len(w)]
  <2>0. \A n \in Nat : n > 0 /\ n # 1 => n - 1 \in 1 .. n - 1 /\ (n - 1) + 1 = n
    OBVIOUS
  <2>1. Len(w) # 1 => Len(w) - 1 \in 1 .. Len(w) - 1 /\ (Len(w) - 1) + 1 = Len(w)
    <3>1. Len(w) \in Nat /\ Len(w) > 0
      BY <1>2
    <3> QED
      BY <2>0, <3>1
  <2> QED
    BY <1>2, <1>e, <2>1
<1>12. ASSUME histories[j] # Unknown PROVE CreationsHold'
  <2>1. \A i \in CollectionJob : histories'[i] = Unknown <=> histories[i] = Unknown
    BY <1>1, <1>5, <1>12, <1>t DEF CollectionTypes
  <2>2. CreationsHold'
    BY <2>1, <1>1, <1>7, <1>t, CreationsKeep
  <2> QED
    BY <2>2
<1>13. ASSUME histories[j] = Unknown PROVE CreationsHold'
  <2>1. collecting[j] = "creating" /\ j \in Creating
    BY <1>6, <1>13, <1>t DEF JobKeeps, CountsHold, Creating, CollectionTypes
  <2>2. RecordedJobs' = RecordedJobs \cup {j} /\ ListedJobs' = ListedJobs /\ Creating' = Creating
    BY <1>1, <1>5, <1>t DEF RecordedJobs, ListedJobs, Creating, CollectionTypes
  <2>3. IsFiniteSet(RecordedJobs')
    BY <2>2, <1>t, FS_AddElement DEF CreationsHold
  <2>4. \A i \in CollectionJob : i # j /\ CollectionKey[i] = CollectionKey[j] => histories'[i] = Unknown
    BY <2>1, <1>1, <1>7, <1>t DEF CreationsHold, CollectionTypes
  <2>5. \A i \in CollectionJob \ {j} : histories'[i] = histories[i]
    BY <1>1, <1>t DEF CollectionTypes
  <2>6. KeyHasOneJob'
    BY <2>4, <2>5, <1>t DEF KeyHasOneJob, CreationsHold
  <2>7. \A i \in CollectionJob :
           /\ i \in ListedJobs' => histories'[i] # Unknown /\ collecting'[i] \notin {"selecting", "creating", "answered"}
           /\ histories'[i] # Unknown => i \in ListedJobs' \/ i \in Creating'
    BY <2>1, <2>2, <2>5, <1>1, <1>5, <1>7, <1>9, <1>t DEF CreationsHold
  <2> QED
    BY <2>2, <2>3, <2>6, <2>7, <1>1, <1>7, <1>t DEF CreationsHold
<1>14. CreationsHold'
    BY <1>12, <1>13
<1>15. StatusHolds(j)'
  <2>1. Missing(j)' = Missing(j)
    BY <1>1 DEF Missing
  <2> QED
    BY <2>1, <1>1, <1>t DEF JobKeeps, StatusHolds
<1>16. WritesHold(j)'
  <2>1. ASSUME NEW i \in 1 .. Len(Tail(w))
        PROVE  /\ Tail(w)[i].record.status # "none"
               /\ Tail(w)[i].record.status \in JobEnded => collecting[j] = "ending" /\ i = Len(Tail(w))
    <3>1. i + 1 \in 1 .. Len(w) /\ Tail(w)[i] = w[i + 1]
      BY <1>2
    <3>2. i + 1 = Len(w) => i = Len(Tail(w))
      BY <1>2
    <3> QED
      BY <3>1, <3>2, <1>t DEF JobKeeps, WritesHold
  <2>2. collecting[j] \in {"creating", "ending"} =>
           IF Tail(w) = <<>> THEN first = snapshots[j]
           ELSE Tail(w)[Len(Tail(w))] = [record |-> snapshots[j], of |-> "job"]
    BY <1>1, <1>2, <1>4, <1>10, <1>11, <1>t DEF JobKeeps, WritesHold
  <2> QED
    BY <2>1, <2>2, <1>1, <1>6, <1>9 DEF WritesHold
<1>17. CountsHold(j)'
  <2>1. Done(j)' = Done(j) /\ Missing(j)' = Missing(j)
    BY <1>1 DEF Done, Missing
  <2>2. ASSUME first.status \in JobEnded
        PROVE  collecting[j] = "ending" /\ first = snapshots[j]
    BY <2>2, <1>1, <1>2, <1>4, <1>t DEF JobKeeps, WritesHold
  <2>3. EndIsComplete(j)'
    BY <2>1, <2>2, <1>1, <1>9, <1>t DEF JobKeeps, CountsHold, EndIsComplete
  <2> QED
    BY <2>1, <2>2, <2>3, <1>1, <1>5, <1>6, <1>9, <1>t DEF JobKeeps, CountsHold
<1>18. JobKeeps(j)'
    BY <1>15, <1>16, <1>17 DEF JobKeeps
<1>19. \A i \in CollectionJob \ {j} :
          histories'[i] = histories[i] /\ writes'[i] = writes[i] /\ toldEvents'[i] = toldEvents[i]
    BY <1>1, <1>t DEF CollectionTypes
<1> QED
    BY <1>1, <1>8, <1>14, <1>18, <1>19, JobMoved

\* A run goes on, which is told: from a stage of the loop to another one.
LEMMA RunEmits ==
    ASSUME CollectionInv, NEW j \in CollectionJob, collecting[j] \in RunStages, NEW s \in RunStages,
           Moves(j, s), Emitted(j, snapshots[j], "job"), s = "collect" => Missing(j) # {},
           targets' \in {targets, targets \cup {j}}, journals' \in {journals, journals \cup {j}},
           UNCHANGED <<histories, results, jobs, aborts, closeWaits, manager, toldEvents>>
    PROVE  CollectionInv'
<1>t. CollectionTypes /\ CreationsHold /\ JobKeeps(j)
    BY DEF CollectionInv
<1>1. collecting' = [collecting EXCEPT ![j] = s] /\ collecting'[j] = s
    BY <1>t DEF Moves, CollectionTypes
<1>2. snapshots[j] \in Snapshot /\ snapshots[j].status \in {"running", "cancelling"}
    BY <1>t DEF CollectionTypes, JobKeeps, StatusHolds
<1>3. /\ snapshots' \in [CollectionJob -> Snapshot] /\ writes' \in [CollectionJob -> Seq(JobWrite)]
      /\ snapshots'[j].status = snapshots[j].status /\ snapshots'[j].completed = snapshots[j].completed
      /\ \A i \in CollectionJob \ {j} : snapshots'[i] = snapshots[i] /\ writes'[i] = writes[i]
    BY <1>2, <1>t, EmittedIs
<1>4. s \notin {"none", "answered", "selecting", "creating", "ending"} /\ "running" \notin JobEnded
      /\ "cancelling" \notin JobEnded
    BY DEF RunStages, JobEnded
<1>5. manager # "down"
    BY <1>t, StageIsUp DEF RunStages
<1>6. CollectionTypes'
    BY <1>1, <1>3, <1>t DEF CollectionTypes, JobStages
<1>7. CreationsHold'
    BY <1>1, <1>4, <1>5, <1>t, CreationsKeep DEF RunStages, CollectionTypes
<1>8. Done(j)' = Done(j) /\ Missing(j)' = Missing(j)
    BY DEF Done, Missing
<1>9. StatusHolds(j)'
    BY <1>1, <1>2, <1>3, <1>4, <1>8, <1>t DEF StatusHolds, JobKeeps, RunStages
<1>10. WritesHold(j)'
    BY <1>1, <1>2, <1>4, <1>t, EmitWrites DEF JobKeeps, RunStages
<1>11. CountsHold(j)'
  <2>1. histories[j].status \notin JobEnded /\ histories[j] # Unknown
    BY <1>t DEF JobKeeps, CountsHold, RunStages
  <2> QED
    BY <2>1, <1>1, <1>3, <1>4, <1>5, <1>8, <1>t DEF JobKeeps, CountsHold, EndIsComplete, RunStages
<1>12. JobKeeps(j)'
    BY <1>9, <1>10, <1>11 DEF JobKeeps
<1>13. \A i \in CollectionJob \ {j} : collecting'[i] = collecting[i]
    BY <1>1, <1>t DEF CollectionTypes
<1> QED
    BY <1>3, <1>6, <1>7, <1>12, <1>13, JobMoved

\* A job comes to its end, which is the last record it has to write.
LEMMA EndEmits ==
    ASSUME CollectionInv, NEW j \in CollectionJob,
           collecting[j] \in RunStages \cup {"interrupt", "interruptQueued"},
           NEW t \in Snapshot, t.status \in JobEnded, t.completed = snapshots[j].completed,
           Emitted(j, t, "job"), Moves(j, "ending"), j \in targets => Missing(j) = {},
           UNCHANGED <<collectionDisk, jobs, aborts, closeWaits, manager, toldEvents>>
    PROVE  CollectionInv'
<1>t. CollectionTypes /\ CreationsHold /\ JobKeeps(j)
    BY DEF CollectionInv
<1>0. UNCHANGED <<histories, targets, results, journals>>
    BY DEF collectionDisk
<1>1. collecting' = [collecting EXCEPT ![j] = "ending"] /\ collecting'[j] = "ending"
    BY <1>t DEF Moves, CollectionTypes
<1>2. collecting[j] \notin {"none", "answered", "selecting", "creating", "ending"}
    BY DEF RunStages
<1>3. /\ snapshots' \in [CollectionJob -> Snapshot] /\ writes' \in [CollectionJob -> Seq(JobWrite)]
      /\ snapshots'[j].status \in JobEnded /\ snapshots'[j].completed = snapshots[j].completed
      /\ \A i \in CollectionJob \ {j} : snapshots'[i] = snapshots[i] /\ writes'[i] = writes[i]
    BY <1>t, EmittedIs
<1>4. "none" \notin JobEnded
    BY DEF JobEnded
<1>5. manager # "down"
    BY <1>2, <1>t, StageIsUp
<1>6. CollectionTypes'
    BY <1>0, <1>1, <1>3, <1>t DEF CollectionTypes, JobStages
<1>7. CreationsHold'
    BY <1>0, <1>1, <1>2, <1>5, <1>t, CreationsKeep DEF CollectionTypes
<1>8. Done(j)' = Done(j) /\ Missing(j)' = Missing(j)
    BY <1>0 DEF Done, Missing
<1>9. StatusHolds(j)'
    BY <1>1, <1>3 DEF StatusHolds, RunStages
<1>10. WritesHold(j)'
    BY <1>1, <1>2, <1>4, <1>t, EmitWrites DEF JobKeeps
<1>11. CountsHold(j)'
    BY <1>0, <1>1, <1>2, <1>3, <1>5, <1>8, <1>t DEF JobKeeps, CountsHold, EndIsComplete
<1>12. JobKeeps(j)'
    BY <1>9, <1>10, <1>11 DEF JobKeeps
<1>13. \A i \in CollectionJob \ {j} : collecting'[i] = collecting[i]
    BY <1>1, <1>t DEF CollectionTypes
<1> QED
    BY <1>0, <1>3, <1>6, <1>7, <1>12, <1>13, JobMoved

\* What run() throws: the job has its end, and its games are interrupted.
LEMMA CaughtStep ==
    ASSUME CollectionInv, NEW j \in CollectionJob, collecting[j] \in RunStages, Caught(j),
           UNCHANGED <<collectionDisk, jobs, aborts, closeWaits, manager, toldEvents>>
    PROVE  CollectionInv'
<1>t. CollectionTypes /\ CreationsHold /\ JobKeeps(j)
    BY DEF CollectionInv
<1> DEFINE end == IF j \in aborts THEN "cancelled" ELSE "failed"
<1>0. UNCHANGED <<histories, targets, results, journals, writes>>
    BY DEF collectionDisk, Caught
<1>1. /\ collecting' = [collecting EXCEPT ![j] = "interrupt"]
      /\ snapshots' = [snapshots EXCEPT ![j].status = end] /\ end \in JobEnded
    BY DEF Caught, Moves, JobEnded
<1> HIDE DEF end
<1>2. collecting[j] \notin {"none", "answered", "selecting", "creating", "ending", "interrupt"}
    BY DEF RunStages
<1>3. /\ snapshots' \in [CollectionJob -> Snapshot] /\ collecting'[j] = "interrupt"
      /\ snapshots'[j].status \in JobEnded /\ snapshots'[j].completed = snapshots[j].completed
      /\ \A i \in CollectionJob \ {j} : snapshots'[i] = snapshots[i] /\ collecting'[i] = collecting[i]
    BY <1>1, <1>t DEF CollectionTypes, Snapshot, JobStatus
<1>5. manager # "down"
    BY <1>2, <1>t, StageIsUp
<1>6. CollectionTypes'
    BY <1>0, <1>1, <1>3, <1>t DEF CollectionTypes, JobStages
<1>7. CreationsHold'
    BY <1>0, <1>2, <1>3, <1>5, <1>t, CreationsKeep
<1>8. Done(j)' = Done(j) /\ Missing(j)' = Missing(j)
    BY <1>0 DEF Done, Missing
<1>9. StatusHolds(j)'
    BY <1>3 DEF StatusHolds, RunStages
<1>10. WritesHold(j)'
    BY <1>0, <1>2, <1>3, <1>t DEF JobKeeps, WritesHold
<1>11. CountsHold(j)'
    BY <1>0, <1>2, <1>3, <1>5, <1>8, <1>t DEF JobKeeps, CountsHold, EndIsComplete
<1>12. JobKeeps(j)'
    BY <1>9, <1>10, <1>11 DEF JobKeeps
<1> QED
    BY <1>0, <1>3, <1>6, <1>7, <1>12, JobMoved

\* The first game that is missing is one of the job's.
LEMMA NextIsMissing ==
    ASSUME NEW j \in CollectionJob, Missing(j) # {}
    PROVE  NextMissing(j) \in Missing(j)
<1>1. Missing(j) \in SUBSET Nat
    BY CollectionAssumption DEF Missing, Games
<1>2. \E g \in Missing(j) : \A h \in Missing(j) : g <= h
    BY <1>1, FirstExists
<1> QED
    BY <1>2 DEF NextMissing

\* A game has its result, and is counted.
LEMMA CollectStep ==
    ASSUME CollectionInv, NEW j \in CollectionJob, CollectGame(j)
    PROVE  CollectionInv'
<1>t. CollectionTypes /\ CreationsHold /\ JobKeeps(j)
    BY DEF CollectionInv
<1> DEFINE g == NextMissing(j)
<1>0. /\ collecting[j] = "collect" /\ collecting' = [collecting EXCEPT ![j] = "count"]
      /\ snapshots' = [snapshots EXCEPT ![j].completed = @ + 1]
      /\ UNCHANGED <<histories, targets, journals, jobs, writes, manager, toldEvents>>
    BY DEF CollectGame, Moves
<1>1. PICK outcome \in {"collected", "skipped"} : results' = [results EXCEPT ![j][g] = outcome]
    BY DEF CollectGame
<1>2. g \in Missing(j)
    BY <1>0, <1>t, NextIsMissing DEF JobKeeps, StatusHolds
<1> HIDE DEF g
<1>3. /\ results[j] \in [Games(j) -> Outcomes] /\ g \in Games(j) /\ results[j][g] = "none"
    BY <1>2, <1>t DEF Missing, CollectionTypes
<1>4. results'[j] = [results[j] EXCEPT ![g] = outcome]
      /\ \A i \in CollectionJob \ {j} : results'[i] = results[i]
    BY <1>1, <1>t DEF CollectionTypes
<1>5. Done(j)' = Done(j) \cup {g} /\ g \notin Done(j)
    BY <1>3, <1>4 DEF Done
<1>6. Cardinality(Done(j)') = Cardinality(Done(j)) + 1
    BY <1>5, DoneIsFinite, FS_AddElement
<1>7. /\ snapshots' \in [CollectionJob -> Snapshot] /\ collecting'[j] = "count"
      /\ snapshots'[j].status = snapshots[j].status /\ snapshots'[j].completed = snapshots[j].completed + 1
      /\ \A i \in CollectionJob \ {j} : snapshots'[i] = snapshots[i] /\ collecting'[i] = collecting[i]
  <2> DEFINE c == snapshots[j].completed + 1
  <2>1. c \in Nat /\ snapshots' = [snapshots EXCEPT ![j].completed = c]
    BY <1>0, <1>t DEF CollectionTypes, Snapshot
  <2>2. c = snapshots[j].completed + 1
    OBVIOUS
  <2> HIDE DEF c
  <2>3. /\ snapshots \in [CollectionJob -> Snapshot]
        /\ collecting'[j] = "count" /\ \A i \in CollectionJob \ {j} : collecting'[i] = collecting[i]
    BY <1>0, <1>t DEF CollectionTypes
  <2>4. /\ snapshots' \in [CollectionJob -> Snapshot]
        /\ snapshots'[j].status = snapshots[j].status /\ snapshots'[j].completed = c
    BY <2>1, <2>3 DEF Snapshot
  <2>5. \A i \in CollectionJob \ {j} : snapshots'[i] = snapshots[i]
    BY <2>1, <2>3
  <2> QED
    BY <2>2, <2>3, <2>4, <2>5
<1>8. manager # "down"
    BY <1>0, <1>t, StageIsUp
<1>9. CollectionTypes'
  <2>1. results'[j] \in [Games(j) -> Outcomes]
    BY <1>3, <1>4 DEF Outcomes
  <2>2. results' = [i \in CollectionJob |-> results'[i]]
    BY <1>1, <1>t DEF CollectionTypes
  <2> QED
    BY <2>1, <2>2, <1>0, <1>4, <1>7, <1>t DEF CollectionTypes, JobStages, RunStages
<1>10. CreationsHold'
    BY <1>0, <1>7, <1>8, <1>t, CreationsKeep
<1>11. StatusHolds(j)'
    BY <1>0, <1>7, <1>t DEF JobKeeps, StatusHolds, RunStages
<1>12. WritesHold(j)'
    BY <1>0, <1>7, <1>t DEF JobKeeps, WritesHold
<1>13. CountsHold(j)'
  <2>1. /\ histories[j].status \notin JobEnded /\ histories[j] # Unknown
        /\ snapshots[j].completed = Cardinality(Done(j))
    BY <1>0, <1>t DEF JobKeeps, CountsHold
  <2> QED
    BY <2>1, <1>0, <1>6, <1>7, <1>8, <1>t DEF JobKeeps, CountsHold, EndIsComplete, RunStages
<1>14. JobKeeps(j)'
    BY <1>11, <1>12, <1>13 DEF JobKeeps
<1> QED
    BY <1>0, <1>4, <1>7, <1>9, <1>10, <1>14, JobMoved

\* A game that has no result was interrupted.
LEMMA InterruptStep ==
    ASSUME CollectionInv, NEW j \in CollectionJob, InterruptGame(j)
    PROVE  CollectionInv'
<1>t. CollectionTypes /\ CreationsHold /\ JobKeeps(j)
    BY DEF CollectionInv
<1> DEFINE g == CHOOSE h \in ToInterrupt(j) : TRUE
<1>0. /\ collecting[j] \in {"interrupt", "interruptQueued"} /\ ToInterrupt(j) # {}
      /\ results' = [results EXCEPT ![j][g] = "interrupted"]
      /\ UNCHANGED <<histories, targets, journals, jobs, snapshots, writes, collecting, manager, toldEvents>>
    BY DEF InterruptGame
<1>2. g \in Missing(j)
    BY <1>0 DEF ToInterrupt
<1> HIDE DEF g
<1>3. /\ results[j] \in [Games(j) -> Outcomes] /\ g \in Games(j) /\ results[j][g] = "none"
    BY <1>2, <1>t DEF Missing, CollectionTypes
<1>4. results'[j] = [results[j] EXCEPT ![g] = "interrupted"]
      /\ \A i \in CollectionJob \ {j} : results'[i] = results[i]
    BY <1>0, <1>t DEF CollectionTypes
<1>5. Done(j)' = Done(j)
    BY <1>3, <1>4 DEF Done
<1>8. manager # "down"
    BY <1>0, <1>t, StageIsUp
<1>9. CollectionTypes'
  <2>1. results'[j] \in [Games(j) -> Outcomes]
    BY <1>3, <1>4 DEF Outcomes
  <2>2. results' = [i \in CollectionJob |-> results'[i]]
    BY <1>0, <1>t DEF CollectionTypes
  <2> QED
    BY <2>1, <2>2, <1>0, <1>4, <1>t DEF CollectionTypes
<1>10. CreationsHold'
    BY <1>0, <1>8, <1>t, CreationsKeep
<1>11. StatusHolds(j)'
    BY <1>0, <1>t DEF JobKeeps, StatusHolds, RunStages
<1>12. WritesHold(j)'
    BY <1>0, <1>t DEF JobKeeps, WritesHold
<1>13. CountsHold(j)'
    BY <1>0, <1>5, <1>8, <1>t DEF JobKeeps, CountsHold, EndIsComplete
<1>14. JobKeeps(j)'
    BY <1>11, <1>12, <1>13 DEF JobKeeps
<1> QED
    BY <1>0, <1>4, <1>9, <1>10, <1>14, JobMoved

\* What is still to be written of a job is nothing, when it is told and its last record is its own.
LEMMA ToldIsWritten ==
    ASSUME CollectionTypes, NEW j \in CollectionJob, WritesHold(j), collecting[j] \in {"creating", "ending"}, Told(j)
    PROVE  writes[j] = <<>> /\ histories[j] = snapshots[j]
<1>1. ASSUME writes[j] # <<>> PROVE FALSE
  <2>1. writes[j] \in Seq(JobWrite)
    BY DEF CollectionTypes
  <2>2. Len(writes[j]) \in DOMAIN writes[j]
    BY <1>1, <2>1, EmptySeq
  <2>3. writes[j][Len(writes[j])] = [record |-> snapshots[j], of |-> "job"]
    BY <1>1 DEF WritesHold
  <2> QED
    BY <2>2, <2>3 DEF Told
<1> QED
    BY <1>1 DEF WritesHold

\* The journal of a job goes; a queued job that is cancelled goes on to its games.
LEMMA EndStep ==
    ASSUME CollectionInv, NEW j \in CollectionJob, JobEnds(j) \/ EndQueuedJob(j)
    PROVE  CollectionInv'
<1>t. CollectionTypes /\ CreationsHold /\ JobKeeps(j)
    BY DEF CollectionInv
<1>0. UNCHANGED <<histories, targets, results, jobs, snapshots, writes, manager, toldEvents>>
    BY DEF JobEnds, EndQueuedJob, collectionDisk
<1>1. Done(j)' = Done(j) /\ Missing(j)' = Missing(j)
    BY <1>0 DEF Done, Missing
<1>2. CASE JobEnds(j)
  <2>0. collecting[j] = "ending" /\ Told(j)
    BY <1>2 DEF JobEnds
  <2>1. writes[j] = <<>> /\ histories[j] = snapshots[j]
    BY <2>0, <1>t, ToldIsWritten DEF JobKeeps
  <2>2. /\ collecting' = [collecting EXCEPT ![j] = "none"] /\ journals' = journals \ {j}
    BY <1>2, <2>1 DEF JobEnds, Moves
  <2>3. collecting'[j] = "none" /\ \A i \in CollectionJob \ {j} : collecting'[i] = collecting[i]
    BY <2>2, <1>t DEF CollectionTypes
  <2>4. manager # "down"
    BY <2>0, <1>t, StageIsUp
  <2>5. CollectionTypes'
    BY <1>0, <2>2, <1>t DEF CollectionTypes, JobStages
  <2>6. CreationsHold'
    BY <1>0, <2>0, <2>3, <2>4, <1>t, CreationsKeep
  <2>7. StatusHolds(j)'
    BY <1>0, <2>0, <2>3, <1>t DEF JobKeeps, StatusHolds, RunStages
  <2>8. WritesHold(j)'
    BY <1>0, <2>1, <2>3 DEF WritesHold
  <2>9. CountsHold(j)'
    BY <1>0, <1>1, <2>0, <2>2, <2>3, <2>4, <1>t DEF JobKeeps, CountsHold, EndIsComplete
  <2>10. JobKeeps(j)'
    BY <2>7, <2>8, <2>9 DEF JobKeeps
  <2> QED
    BY <1>0, <2>2, <2>3, <2>5, <2>6, <2>10, JobMoved
<1>3. CASE EndQueuedJob(j)
  <2>0. collecting[j] = "cancelling" /\ collecting' = [collecting EXCEPT ![j] = "interruptQueued"]
        /\ UNCHANGED journals
    BY <1>3 DEF EndQueuedJob, Moves, collectionDisk
  <2>3. collecting'[j] = "interruptQueued" /\ \A i \in CollectionJob \ {j} : collecting'[i] = collecting[i]
    BY <2>0, <1>t DEF CollectionTypes
  <2>4. manager # "down"
    BY <2>0, <1>t, StageIsUp
  <2>5. CollectionTypes'
    BY <1>0, <2>0, <1>t DEF CollectionTypes, JobStages
  <2>6. CreationsHold'
    BY <1>0, <2>0, <2>3, <2>4, <1>t, CreationsKeep
  <2>7. StatusHolds(j)'
    BY <1>0, <2>0, <2>3, <1>t DEF JobKeeps, StatusHolds, RunStages
  <2>8. WritesHold(j)'
    BY <1>0, <2>0, <2>3, <1>t DEF JobKeeps, WritesHold
  <2>9. CountsHold(j)'
    BY <1>0, <1>1, <2>0, <2>3, <2>4, <1>t DEF JobKeeps, CountsHold, EndIsComplete, RunStages
  <2>10. JobKeeps(j)'
    BY <2>7, <2>8, <2>9 DEF JobKeeps
  <2> QED
    BY <1>0, <2>0, <2>3, <2>5, <2>6, <2>10, JobMoved
<1> QED
    BY <1>2, <1>3

-----------------------------------------------------------------------------
(* create() *)

\* A request moves on and makes its first record, or does not.
LEMMA CreateStep ==
    ASSUME CollectionInv, NEW j \in CollectionJob, CreateJob(j) \/ CreateSelects(j)
    PROVE  CollectionInv'
<1>t. CollectionTypes /\ CreationsHold /\ JobKeeps(j)
    BY DEF CollectionInv
<1> DEFINE queued == [Unknown EXCEPT !.status = "queued"]
<1>q. /\ queued \in Snapshot /\ queued.status = "queued" /\ queued.completed = 0
      /\ Unknown.completed = 0 /\ Unknown.status = "none"
    BY DEF Unknown, Snapshot, JobStatus
<1> HIDE DEF queued
<1>0. /\ manager # "down" /\ histories[j] = Unknown /\ snapshots[j] = Unknown /\ writes[j] = <<>>
      /\ j \notin journals
      /\ manager \in {"restoring"} => collecting[j] # "none"
  <2>1. CASE CreateJob(j)
    BY <2>1, <1>t DEF CreateJob, JobKeeps, WritesHold, CountsHold, RunStages
  <2>2. CASE CreateSelects(j)
    <3>1. collecting[j] = "selecting"
      BY <2>2 DEF CreateSelects
    <3>2. manager # "down" /\ snapshots[j] = Unknown /\ writes[j] = <<>>
      BY <3>1, <1>t, StageIsUp DEF JobKeeps, WritesHold, StatusHolds
    <3>3. j \in Creating
      BY <3>1 DEF Creating
    <3>4. j \notin journals
      BY <3>1, <3>2, <1>t DEF JobKeeps, CountsHold, RunStages
    <3>5. histories[j] = Unknown
      BY <3>1, <1>t DEF JobKeeps, CountsHold
    <3> QED
      BY <3>1, <3>2, <3>4, <3>5
  <2> QED
    BY <2>1, <2>2
<1>n. Cardinality(Done(j)) = 0
    BY <1>0, <1>t DEF JobKeeps, CountsHold
\* The creation is at work alone.
<1>a. /\ \A i \in Creating : i = j
      /\ collecting[j] \in {"none", "selecting"}
      /\ j \notin ListedJobs
  <2>1. CASE CreateJob(j)
    BY <2>1, <1>0, <1>t DEF CreateJob, MayCreate, CreationsHold
  <2>2. CASE CreateSelects(j)
    BY <2>2, <1>t DEF CreateSelects, Creating, CreationsHold
  <2> QED
    BY <2>1, <2>2
<1>b. ASSUME NEW s \in {"answered", "selecting", "creating"}, Moves(j, s), targets' \in {targets, targets \cup {j}},
             UNCHANGED <<histories, results, journals, jobs, manager, toldEvents>>,
             s # "answered" => \A i \in ListedJobs : CollectionKey[i] # CollectionKey[j],
             s = "answered" => collecting[j] = "none"
      PROVE  /\ CreationsHold' /\ collecting' \in [CollectionJob -> JobStages] /\ collecting'[j] = s
             /\ \A i \in CollectionJob \ {j} : collecting'[i] = collecting[i]
  <2>1. /\ collecting' = [collecting EXCEPT ![j] = s] /\ collecting'[j] = s
        /\ \A i \in CollectionJob \ {j} : collecting'[i] = collecting[i]
    BY <1>b, <1>t DEF Moves, CollectionTypes
  <2>2. Creating' \subseteq {j} /\ RecordedJobs' = RecordedJobs /\ ListedJobs' = ListedJobs
    BY <1>b, <2>1, <1>a DEF Creating, RecordedJobs, ListedJobs
  <2>3. KeyHasOneJob'
    BY <1>b, <1>t DEF CreationsHold, KeyHasOneJob
  <2>4. s # "answered" => Creating' = {j}
    BY <2>1, <2>2 DEF Creating
  <2>5. s = "answered" => Creating = {}
    BY <1>a, <1>b DEF Creating
  <2>6. \A i \in CollectionJob : histories'[i] # Unknown => i \in ListedJobs' \/ i \in Creating'
    BY <1>b, <2>2, <2>4, <2>5, <1>0, <1>a, <1>t DEF CreationsHold
  <2>7. \A i \in Creating' : \A k \in ListedJobs' : CollectionKey[i] # CollectionKey[k]
    BY <1>b, <2>1, <2>2 DEF Creating
  <2>8. \A i \in CollectionJob : i \in ListedJobs' =>
           histories'[i] # Unknown /\ collecting'[i] \notin {"selecting", "creating", "answered"}
    BY <1>b, <2>1, <2>2, <1>a, <1>t DEF CreationsHold
  <2>9. CreationsHold'
    BY <2>2, <2>3, <2>6, <2>7, <2>8, <1>b, <1>0, <1>t DEF CreationsHold
  <2> QED
    BY <2>1, <2>9, <1>t DEF CollectionTypes, JobStages
\* Without a record.
<1>1. ASSUME NEW s \in {"answered", "selecting"}, Moves(j, s), UNCHANGED <<snapshots, writes, targets>>,
             UNCHANGED <<histories, results, journals, jobs, manager, toldEvents>>,
             s # "answered" => \A i \in ListedJobs : CollectionKey[i] # CollectionKey[j], collecting[j] = "none"
      PROVE  CollectionInv'
  <2>1. /\ CreationsHold' /\ collecting' \in [CollectionJob -> JobStages] /\ collecting'[j] = s
        /\ \A i \in CollectionJob \ {j} : collecting'[i] = collecting[i]
    BY <1>1, <1>b
  <2>2. CollectionTypes'
    BY <1>1, <2>1, <1>t DEF CollectionTypes
  <2>3. Done(j)' = Done(j) /\ Missing(j)' = Missing(j)
    BY <1>1 DEF Done, Missing
  <2>4. StatusHolds(j)'
    BY <1>1, <1>0, <2>1 DEF StatusHolds, RunStages
  <2>5. WritesHold(j)'
    BY <1>1, <1>0, <2>1, <1>t DEF JobKeeps, WritesHold
  <2>6. CountsHold(j)'
    BY <1>1, <1>0, <1>q, <1>n, <2>1, <2>3, <1>t DEF JobKeeps, CountsHold, EndIsComplete, JobEnded
  <2>7. JobKeeps(j)'
    BY <2>4, <2>5, <2>6 DEF JobKeeps
  <2> QED
    BY <1>1, <2>1, <2>2, <2>7, JobMoved
\* With it.
<1>2. ASSUME Moves(j, "creating"), Emitted(j, queued, "job"), targets' \in {targets, targets \cup {j}},
             UNCHANGED <<histories, results, journals, jobs, manager, toldEvents>>,
             \A i \in ListedJobs : CollectionKey[i] # CollectionKey[j]
      PROVE  CollectionInv'
  <2>1. /\ CreationsHold' /\ collecting' \in [CollectionJob -> JobStages] /\ collecting'[j] = "creating"
        /\ \A i \in CollectionJob \ {j} : collecting'[i] = collecting[i]
    BY <1>2, <1>b
  <2>2. /\ snapshots' \in [CollectionJob -> Snapshot] /\ writes' \in [CollectionJob -> Seq(JobWrite)]
        /\ snapshots'[j].status = "queued" /\ snapshots'[j].completed = 0
        /\ \A i \in CollectionJob \ {j} : snapshots'[i] = snapshots[i] /\ writes'[i] = writes[i]
    BY <1>2, <1>q, <1>t, EmittedIs
  <2>3. CollectionTypes'
    BY <1>2, <2>1, <2>2, <1>t DEF CollectionTypes
  <2>4. Done(j)' = Done(j) /\ Missing(j)' = Missing(j)
    BY <1>2 DEF Done, Missing
  <2>5. StatusHolds(j)'
    BY <1>2, <2>1, <2>2 DEF StatusHolds, RunStages
  <2>6. "queued" \notin JobEnded /\ "none" \notin JobEnded
    BY DEF JobEnded
  <2>7. WritesHold(j)'
    BY <1>2, <1>q, <1>a, <2>1, <2>6, <1>t, EmitWrites DEF JobKeeps
  <2>8. CountsHold(j)'
    BY <1>2, <1>0, <1>q, <1>n, <2>1, <2>2, <2>4, <2>6, <1>t DEF JobKeeps, CountsHold, EndIsComplete
  <2>9. JobKeeps(j)'
    BY <2>5, <2>7, <2>8 DEF JobKeeps
  <2> QED
    BY <1>2, <2>1, <2>2, <2>3, <2>9, JobMoved
<1>3. CASE CreateJob(j)
  <2>0. collecting[j] = "none" /\ UNCHANGED <<targets, histories, results, journals, jobs, manager, toldEvents>>
    BY <1>3 DEF CreateJob, collectionDisk
  <2>1. CASE \E i \in 1 .. Len(jobs) : CollectionKey[jobs[i]] = CollectionKey[j]
    BY <1>1, <1>3, <2>0, <2>1 DEF CreateJob
  <2>2. CASE ~ \E i \in 1 .. Len(jobs) : CollectionKey[jobs[i]] = CollectionKey[j]
    <3>1. \A i \in ListedJobs : CollectionKey[i] # CollectionKey[j]
      BY <2>2 DEF ListedJobs
    <3>2. CASE CollectionScope[j] = "selection"
      BY <1>1, <1>3, <2>0, <2>2, <3>1, <3>2 DEF CreateJob
    <3>3. CASE CollectionScope[j] # "selection"
      BY <1>2, <1>3, <2>0, <2>2, <3>1, <3>3 DEF CreateJob, queued
    <3> QED
      BY <3>2, <3>3
  <2> QED
    BY <2>1, <2>2
<1>4. CASE CreateSelects(j)
  <2>1. j \in Creating
    BY <1>4 DEF CreateSelects, Creating
  <2>2. \A i \in ListedJobs : CollectionKey[i] # CollectionKey[j]
    BY <2>1, <1>t DEF CreationsHold
  <2> QED
    BY <1>2, <1>4, <2>2 DEF CreateSelects, queued
<1> QED
    BY <1>3, <1>4

\* The job is in the list, or there is none.
LEMMA CreateEndStep ==
    ASSUME CollectionInv, NEW j \in CollectionJob, CreateEnds(j)
    PROVE  CollectionInv'
<1>t. CollectionTypes /\ CreationsHold /\ JobKeeps(j)
    BY DEF CollectionInv
<1>0. /\ collecting[j] = "creating" /\ collecting' = [collecting EXCEPT ![j] = "none"]
      /\ jobs' = Append(jobs, j)
      /\ UNCHANGED <<histories, targets, results, journals, snapshots, writes, manager, toldEvents>>
    BY DEF CreateEnds, collectionDisk, Moves
<1>1. writes[j] = <<>> /\ histories[j] = snapshots[j]
    BY <1>0, <1>t, ToldIsWritten DEF CreateEnds, JobKeeps
<1>2. manager # "down" /\ j \in Creating
    BY <1>0, <1>t, StageIsUp DEF Creating
<1>3. collecting'[j] = "none" /\ \A i \in CollectionJob \ {j} : collecting'[i] = collecting[i]
    BY <1>0, <1>t DEF CollectionTypes
<1>4. jobs' \in Seq(CollectionJob) /\ ListedJobs' = ListedJobs \cup {j}
  <2>1. /\ jobs \in Seq(CollectionJob) /\ jobs' \in Seq(CollectionJob)
        /\ Len(jobs) \in Nat /\ Len(jobs') = Len(jobs) + 1
        /\ \A i \in 1 .. Len(jobs) : jobs'[i] = jobs[i]
        /\ jobs'[Len(jobs) + 1] = j
    BY <1>0, <1>t, AppendProperties, QueuedAt DEF CollectionTypes
  <2>2. 1 .. Len(jobs') = 1 .. Len(jobs) \cup {Len(jobs) + 1}
    BY <2>1
  <2>3. ListedJobs' = {jobs'[i] : i \in 1 .. Len(jobs')} /\ ListedJobs = {jobs[i] : i \in 1 .. Len(jobs)}
    BY DEF ListedJobs
  <2> QED
    BY <2>1, <2>2, <2>3
<1>5. CollectionTypes'
    BY <1>0, <1>4, <1>t DEF CollectionTypes, JobStages
<1>6. snapshots[j].status = "queued" /\ snapshots[j] # Unknown
    BY <1>0, <1>t DEF JobKeeps, StatusHolds, Unknown
<1>7. CreationsHold'
  <2>1. Creating' = {}
    BY <1>2, <1>3, <1>t DEF Creating, CreationsHold
  <2>2. RecordedJobs' = RecordedJobs
    BY <1>0 DEF RecordedJobs
  <2>3. KeyHasOneJob'
    BY <1>0, <1>t DEF CreationsHold, KeyHasOneJob
  <2>4. \A i \in CollectionJob :
           /\ i \in ListedJobs' => histories'[i] # Unknown /\ collecting'[i] \notin {"selecting", "creating", "answered"}
           /\ histories'[i] # Unknown => i \in ListedJobs'
    BY <1>0, <1>1, <1>2, <1>3, <1>4, <1>6, <1>t DEF CreationsHold
  <2> QED
    BY <2>1, <2>2, <2>3, <2>4, <1>0, <1>2, <1>t DEF CreationsHold
<1>8. Done(j)' = Done(j) /\ Missing(j)' = Missing(j)
    BY <1>0 DEF Done, Missing
<1>9. StatusHolds(j)'
    BY <1>0, <1>3, <1>6 DEF StatusHolds, RunStages
<1>10. WritesHold(j)'
    BY <1>0, <1>1, <1>3, <1>t DEF JobKeeps, WritesHold
<1>11. CountsHold(j)'
    BY <1>0, <1>1, <1>2, <1>3, <1>6, <1>8, <1>t DEF JobKeeps, CountsHold, EndIsComplete, RunStages
<1>12. JobKeeps(j)'
    BY <1>9, <1>10, <1>11 DEF JobKeeps
<1> QED
    BY <1>0, <1>3, <1>5, <1>7, <1>12, JobMoved

\* A creation that is rejected leaves nothing.
LEMMA CreateRejectStep ==
    ASSUME CollectionInv, NEW j \in CollectionJob, CreateRejects(j)
    PROVE  CollectionInv'
<1>t. CollectionTypes /\ CreationsHold /\ JobKeeps(j)
    BY DEF CollectionInv
<1>0. /\ collecting[j] \in {"selecting", "creating"} /\ histories[j] = Unknown
      /\ collecting' = [collecting EXCEPT ![j] = "answered"]
      /\ snapshots' = [snapshots EXCEPT ![j] = Unknown] /\ writes' = [writes EXCEPT ![j] = <<>>]
      /\ UNCHANGED <<histories, targets, results, journals, jobs, manager, toldEvents>>
    BY DEF CreateRejects, collectionDisk, Moves
<1>2. manager # "down" /\ j \in Creating
    BY <1>0, <1>t, StageIsUp DEF Creating
<1>3. /\ collecting'[j] = "answered" /\ snapshots'[j] = Unknown /\ writes'[j] = <<>>
      /\ \A i \in CollectionJob \ {j} :
            collecting'[i] = collecting[i] /\ snapshots'[i] = snapshots[i] /\ writes'[i] = writes[i]
    BY <1>0, <1>t DEF CollectionTypes
<1>4. Unknown \in Snapshot /\ Unknown.completed = 0
    BY DEF Unknown, Snapshot, JobStatus
<1>5. CollectionTypes'
  <2>1. writes' \in [CollectionJob -> Seq(JobWrite)] /\ snapshots' \in [CollectionJob -> Snapshot]
    BY <1>0, <1>4, <1>t DEF CollectionTypes
  <2> QED
    BY <1>0, <2>1, <1>t DEF CollectionTypes, JobStages
<1>7. CreationsHold'
  <2>1. Creating' = {} /\ ListedJobs' = ListedJobs /\ RecordedJobs' = RecordedJobs
    BY <1>0, <1>2, <1>3, <1>t DEF Creating, CreationsHold, ListedJobs, RecordedJobs
  <2>3. KeyHasOneJob'
    BY <1>0, <1>t DEF CreationsHold, KeyHasOneJob
  <2>4. \A i \in CollectionJob :
           /\ i \in ListedJobs' => histories'[i] # Unknown /\ collecting'[i] \notin {"selecting", "creating", "answered"}
           /\ histories'[i] # Unknown => i \in ListedJobs'
    BY <1>0, <1>2, <1>3, <2>1, <1>t DEF CreationsHold
  <2> QED
    BY <2>1, <2>3, <2>4, <1>0, <1>2, <1>t DEF CreationsHold
<1>8. Done(j)' = Done(j) /\ Missing(j)' = Missing(j)
    BY <1>0 DEF Done, Missing
<1>9. StatusHolds(j)'
    BY <1>3 DEF StatusHolds, RunStages
<1>10. WritesHold(j)'
    BY <1>3 DEF WritesHold
<1>11. CountsHold(j)'
    BY <1>0, <1>2, <1>3, <1>4, <1>8, <1>t DEF JobKeeps, CountsHold, EndIsComplete, RunStages, JobEnded, Unknown
<1>12. JobKeeps(j)'
    BY <1>9, <1>10, <1>11 DEF JobKeeps
<1> QED
    BY <1>0, <1>3, <1>5, <1>7, <1>12, JobMoved

-----------------------------------------------------------------------------
(* The jobs that wait *)

\* A job at rest begins: one that is queued runs, and one that restore() finds
\* unfinished fails.
LEMMA RestEnds ==
    ASSUME CollectionInv, NEW j \in ListedJobs, PumpJob(j) \/ RestoreJob(j)
    PROVE  CollectionInv'
<1>0. j \in CollectionJob
    BY DEF CollectionInv, CollectionTypes, ListedJobs
<1>t. CollectionTypes /\ CreationsHold /\ JobKeeps(j)
    BY <1>0 DEF CollectionInv
<1>c. Cardinality(Done(j)) \in Nat
    BY <1>0, DoneIsFinite
<1>1. /\ collecting[j] = "none" /\ manager # "down" /\ snapshots[j].status \notin JobEnded
      /\ UNCHANGED <<histories, targets, results, journals, jobs, writes, manager, toldEvents>>
  <2>1. CASE PumpJob(j)
    <3>1. snapshots[j].status = "queued" /\ manager = "up"
      BY <2>1 DEF PumpJob, Waits
    <3>2. collecting[j] \in {"none", "creating"}
      BY <3>1, <1>0, <1>t DEF JobKeeps, StatusHolds, CollectionTypes, JobStages, RunStages, JobEnded, Unknown
    <3>3. collecting[j] = "none"
      BY <3>2, <1>0, <1>t DEF CreationsHold
    <3> QED
      BY <2>1, <3>1, <3>3 DEF PumpJob, collectionDisk, JobEnded
  <2>2. CASE RestoreJob(j)
    BY <2>2, <1>0 DEF RestoreJob, Unfinished, collectionDisk
  <2> QED
    BY <2>1, <2>2
<1>2. histories[j] = snapshots[j] /\ writes[j] = <<>> /\ histories[j] # Unknown /\ j \notin journals
    BY <1>0, <1>1, <1>t DEF JobKeeps, WritesHold, CountsHold, CreationsHold, RunStages
\* What both make of it.
<1>3. ASSUME NEW s \in {"journal", "interrupt"}, NEW t \in Snapshot,
             collecting' = [collecting EXCEPT ![j] = s], snapshots' = [snapshots EXCEPT ![j] = t],
             t.completed = Cardinality(Done(j)), s = "journal" => t.status = "running",
             s = "interrupt" => t.status \in JobEnded
      PROVE  CollectionInv'
  <2>1. /\ collecting'[j] = s /\ snapshots'[j] = t
        /\ \A i \in CollectionJob \ {j} : collecting'[i] = collecting[i] /\ snapshots'[i] = snapshots[i]
    BY <1>0, <1>3, <1>t DEF CollectionTypes
  <2>2. CollectionTypes'
    BY <1>0, <1>1, <1>3, <1>t DEF CollectionTypes, JobStages, RunStages
  <2>3. CreationsHold'
    BY <1>1, <2>1, <1>t, CreationsKeep
  <2>4. Done(j)' = Done(j) /\ Missing(j)' = Missing(j)
    BY <1>1 DEF Done, Missing
  <2>5. StatusHolds(j)'
    BY <1>3, <2>1 DEF StatusHolds, RunStages
  <2>6. WritesHold(j)'
    BY <1>1, <1>2, <2>1 DEF WritesHold
  <2>7. CountsHold(j)'
    BY <1>0, <1>1, <1>2, <1>3, <2>1, <2>4, <1>t DEF JobKeeps, CountsHold, EndIsComplete
  <2>8. JobKeeps(j)'
    BY <2>5, <2>6, <2>7 DEF JobKeeps
  <2> QED
    BY <1>0, <1>1, <2>1, <2>2, <2>3, <2>8, JobMoved
<1>4. CASE PumpJob(j)
  <2> DEFINE t == [snapshots[j] EXCEPT !.status = "running"]
  <2>1. /\ t \in Snapshot /\ t.status = "running" /\ t.completed = snapshots[j].completed
        /\ snapshots' = [snapshots EXCEPT ![j] = t]
    BY <1>0, <1>4, <1>t DEF PumpJob, CollectionTypes, Snapshot, JobStatus
  <2>2. snapshots[j].completed = Cardinality(Done(j)) /\ collecting' = [collecting EXCEPT ![j] = "journal"]
    BY <1>0, <1>4, <1>t DEF PumpJob, JobKeeps, CountsHold, Moves
  <2> HIDE DEF t
  <2> QED
    BY <1>3, <2>1, <2>2
<1>5. CASE RestoreJob(j)
  <2> DEFINE n == Cardinality(Done(j))
             t == [snapshots[j] EXCEPT !.status = "failed", !.completed = n]
  <2>0. n \in Nat /\ n = Cardinality(Done(j))
        /\ snapshots' = [snapshots EXCEPT ![j].status = "failed", ![j].completed = n]
    BY <1>5, <1>c DEF RestoreJob, CountOfResults
  <2> HIDE DEF n
  <2>1. /\ t \in Snapshot /\ t.status \in JobEnded /\ t.completed = Cardinality(Done(j))
        /\ snapshots' = [snapshots EXCEPT ![j] = t]
    BY <1>0, <2>0, <1>t DEF CollectionTypes, Snapshot, JobStatus, JobEnded
  <2>2. collecting' = [collecting EXCEPT ![j] = "interrupt"]
    BY <1>5 DEF RestoreJob, Moves
  <2> HIDE DEF t
  <2> QED
    BY <1>3, <2>1, <2>2
<1> QED
    BY <1>4, <1>5

\* A record that is marked is a record of the same games.
LEMMA MarkedIsSnapshot ==
    ASSUME NEW s \in Snapshot
    PROVE  LET m == [s EXCEPT !.status = "cancelling", !.sequence = @ + 1]
           IN  m \in Snapshot /\ m.status = "cancelling" /\ m.completed = s.completed
<1>1. "cancelling" \in JobStatus
    BY DEF JobStatus
<1> DEFINE n == s.sequence + 1
           m == [s EXCEPT !.status = "cancelling", !.sequence = n]
<1>2. n \in Nat
    BY DEF Snapshot
<1> HIDE DEF n
<1>3. m \in Snapshot /\ m.status = "cancelling" /\ m.completed = s.completed
    BY <1>1, <1>2 DEF Snapshot
<1> QED
    BY <1>3 DEF n

\* cancel(), of one job or of all that are listed: it marks a job that is queued or runs.
LEMMA CancelsStep ==
    ASSUME CollectionInv, NEW c \in SUBSET ListedJobs, Cancels(c),
           manager \in {"up", "closing"}, manager' \in {"up", "cancelling"},
           UNCHANGED <<collectionDisk, jobs, toldEvents>>
    PROVE  CollectionInv'
<1>t. CollectionTypes /\ CreationsHold /\ \A j \in CollectionJob : JobKeeps(j)
    BY DEF CollectionInv
<1> DEFINE open == {j \in c : snapshots[j].status \in {"queued", "running"}}
           marked(j) == [snapshots[j] EXCEPT !.status = "cancelling", !.sequence = @ + 1]
           by(j) == IF snapshots[j].status = "queued" THEN "job" ELSE "cancel"
<1>0. /\ ListedJobs \subseteq CollectionJob /\ manager # "down" /\ manager' # "down"
      /\ UNCHANGED <<histories, targets, results, journals, jobs, toldEvents>>
    BY <1>t DEF CollectionTypes, ListedJobs, collectionDisk
<1>1. /\ snapshots' = [j \in CollectionJob |-> IF j \in open THEN marked(j) ELSE snapshots[j]]
      /\ writes' = [j \in CollectionJob |->
                       IF j \in open THEN Append(writes[j], [record |-> marked(j), of |-> by(j)]) ELSE writes[j]]
      /\ collecting' = [j \in CollectionJob |->
                           IF j \in open /\ snapshots[j].status = "queued" THEN "cancelling" ELSE collecting[j]]
    BY <1>0 DEF Cancels
<1>2. ASSUME NEW j \in open
      PROVE  /\ marked(j) \in Snapshot /\ marked(j).status = "cancelling"
             /\ marked(j).completed = snapshots[j].completed /\ j \in CollectionJob
  <2>1. j \in CollectionJob
    BY <1>0
  <2>2. snapshots[j] \in Snapshot
    BY <2>1, <1>t DEF CollectionTypes
  <2> QED
    BY <2>1, <2>2, MarkedIsSnapshot
<1>3. \A j \in open : by(j) \in {"job", "cancel"} /\ (by(j) = "job" <=> snapshots[j].status = "queued")
    OBVIOUS
<1>4. \A j \in open : j \in ListedJobs /\ snapshots[j].status \in {"queued", "running"}
    OBVIOUS
<1> HIDE DEF open, marked, by
<1>r. ASSUME NEW j \in open
      PROVE  /\ collecting[j] \in JobStages \ {"selecting", "creating", "answered"} /\ StatusHolds(j)
             /\ manager \notin {"down", "restoring"}
  <2>1. j \in CollectionJob /\ j \in ListedJobs
    BY <1>2, <1>4
  <2>2. collecting[j] \in JobStages
    BY <2>1, <1>t DEF CollectionTypes
  <2>3. collecting[j] \notin {"selecting", "creating", "answered"}
    BY <2>1, <1>t DEF CreationsHold
  <2> QED
    BY <2>1, <2>2, <2>3, <1>t DEF JobKeeps
\* A queued one is at rest.
<1>5. ASSUME NEW j \in open, snapshots[j].status = "queued"
      PROVE  collecting[j] = "none"
    BY <1>5, <1>r DEF StatusHolds, JobStages, RunStages, JobEnded
<1>6. ASSUME NEW j \in open, snapshots[j].status = "running"
      PROVE  collecting[j] \in RunStages
    BY <1>6, <1>r DEF StatusHolds, JobStages, JobEnded
<1>7. ASSUME NEW j \in CollectionJob \ open
      PROVE  JobKeeps(j)'
  <2>1. snapshots'[j] = snapshots[j] /\ writes'[j] = writes[j] /\ collecting'[j] = collecting[j]
    BY <1>1, <1>7
  <2> QED
    BY <2>1, <1>0, <1>t, OthersKeep
<1>8. ASSUME NEW j \in open
      PROVE  JobKeeps(j)' /\ writes'[j] \in Seq(JobWrite)
  <2>0. /\ j \in CollectionJob /\ StatusHolds(j) /\ WritesHold(j) /\ CountsHold(j)
        /\ marked(j) \in Snapshot /\ marked(j).status = "cancelling"
        /\ marked(j).completed = snapshots[j].completed
    BY <1>2, <1>t DEF JobKeeps
  <2>1. /\ snapshots'[j] = marked(j) /\ writes'[j] = Append(writes[j], [record |-> marked(j), of |-> by(j)])
        /\ collecting'[j] = IF snapshots[j].status = "queued" THEN "cancelling" ELSE collecting[j]
    BY <1>1, <2>0
  <2>2. Done(j)' = Done(j) /\ Missing(j)' = Missing(j)
    BY <1>0 DEF Done, Missing
  <2>3. /\ collecting[j] \in RunStages \cup {"none"} /\ collecting'[j] \in RunStages \cup {"cancelling"}
        /\ collecting'[j] = "collect" => collecting[j] = "collect"
    BY <1>4, <1>5, <1>6, <2>1 DEF RunStages
  <2>4. StatusHolds(j)'
    BY <2>0, <2>1, <2>2, <2>3 DEF StatusHolds, RunStages
  <2>5. "cancelling" \notin JobEnded
    BY DEF JobEnded
  <2>6. collecting[j] # "ending" /\ collecting'[j] \notin {"none", "answered", "selecting", "creating", "ending"}
    BY <2>3 DEF RunStages
  <2>7. writes'[j] \in Seq(JobWrite) /\ WritesHold(j)'
    BY <1>3, <1>t, <2>0, <2>1, <2>5, <2>6, AddedWrite
  <2>8. snapshots[j].status \notin JobEnded /\ snapshots[j] # Unknown
    BY <1>4 DEF JobEnded, Unknown
  <2>9. histories[j].status \notin JobEnded /\ histories[j] # Unknown /\ (collecting[j] = "none" => j \notin journals)
    BY <1>0, <2>0, <2>3, <2>8 DEF CountsHold, WritesHold, RunStages
  <2>10. CountsHold(j)'
    <3>1. /\ histories'[j] = histories[j] /\ histories[j].status \notin JobEnded /\ histories[j] # Unknown
          /\ toldEvents'[j] = histories'[j].sequence
      BY <1>0, <2>0, <2>9 DEF CountsHold
    <3>2. snapshots'[j].completed = Cardinality(Done(j))'
      <4>1. snapshots[j].completed = Cardinality(Done(j))
        BY <2>0, <1>r DEF CountsHold
      <4>2. snapshots'[j].completed = snapshots[j].completed
        BY <2>0, <2>1
      <4> QED
        BY <4>1, <4>2, <2>2
    <3>3. EndIsComplete(j)'
      BY <3>1 DEF EndIsComplete, JobEnded
    <3>4. j \in journals' /\ manager' # "down" => collecting'[j] \in RunStages \cup {"interrupt", "ending"}
      <4>1. ASSUME j \in journals
            PROVE  collecting[j] \in RunStages
        BY <4>1, <2>3, <2>9
      <4>2. ASSUME collecting[j] \in RunStages
            PROVE  collecting'[j] = collecting[j]
        BY <4>2, <2>1, <1>5 DEF RunStages
      <4> QED
        BY <4>1, <4>2, <1>0
    <3> QED
      BY <3>1, <3>2, <3>3, <3>4, <2>6 DEF CountsHold
  <2> QED
    BY <2>4, <2>7, <2>10 DEF JobKeeps
<1>9. CollectionTypes'
  <2>1. snapshots' \in [CollectionJob -> Snapshot]
    BY <1>1, <1>2, <1>t DEF CollectionTypes
  <2>2. writes' \in [CollectionJob -> Seq(JobWrite)]
    <3>1. \A j \in CollectionJob : writes'[j] \in Seq(JobWrite)
      BY <1>1, <1>8, <1>t DEF CollectionTypes
    <3> QED
      BY <1>1, <3>1
  <2>3. collecting' \in [CollectionJob -> JobStages]
    BY <1>1, <1>t DEF CollectionTypes, JobStages
  <2> QED
    BY <1>0, <2>1, <2>2, <2>3, <1>t DEF CollectionTypes
<1>10. CreationsHold'
  <2>1. ASSUME NEW j \in CollectionJob
        PROVE  /\ collecting'[j] \in {"selecting", "creating", "answered"} => collecting'[j] = collecting[j]
               /\ collecting[j] \in {"selecting", "creating"} => collecting'[j] = collecting[j]
    BY <1>1, <1>5
  <2> QED
    BY <1>0, <2>1, <1>t, CreationsKeep
<1> QED
    BY <1>7, <1>8, <1>9, <1>10 DEF CollectionInv

-----------------------------------------------------------------------------
(* The process *)

\* What a crash leaves is on disk.
LEMMA CollectionCrashStep ==
    ASSUME CollectionInv, CollectionCrashes
    PROVE  CollectionInv'
<1>t. CollectionTypes /\ CreationsHold /\ \A j \in CollectionJob : JobKeeps(j)
    BY DEF CollectionInv
<1>0. /\ manager' = "down" /\ jobs' = <<>> /\ snapshots' = [j \in CollectionJob |-> Unknown]
      /\ writes' = [j \in CollectionJob |-> <<>>] /\ collecting' = [j \in CollectionJob |-> "none"]
      /\ UNCHANGED <<histories, targets, results, journals, toldEvents>>
    BY DEF CollectionCrashes, collectionDisk
<1>1. Unknown \in Snapshot
    BY DEF Unknown, Snapshot, JobStatus
<1>2. CollectionTypes'
  <2>1. writes' \in [CollectionJob -> Seq(JobWrite)] /\ snapshots' \in [CollectionJob -> Snapshot]
        /\ jobs' \in Seq(CollectionJob) /\ collecting' \in [CollectionJob -> JobStages]
    BY <1>0, <1>1 DEF JobStages
  <2> QED
    BY <1>0, <2>1, <1>t DEF CollectionTypes
<1>3. CreationsHold'
  <2>1. Creating' = {} /\ ListedJobs' = {} /\ RecordedJobs' = RecordedJobs
    BY <1>0 DEF Creating, ListedJobs, RecordedJobs
  <2>2. KeyHasOneJob'
    BY <1>0, <1>t DEF CreationsHold, KeyHasOneJob
  <2> QED
    BY <1>0, <2>1, <2>2, <1>t DEF CreationsHold
<1>4. ASSUME NEW j \in CollectionJob PROVE JobKeeps(j)'
  <2>1. Done(j)' = Done(j) /\ Missing(j)' = Missing(j)
    BY <1>0 DEF Done, Missing
  <2>2. StatusHolds(j)' /\ WritesHold(j)'
    BY <1>0 DEF StatusHolds, WritesHold, RunStages
  <2>3. CountsHold(j)'
    BY <1>0, <2>1, <1>t DEF JobKeeps, CountsHold, EndIsComplete
  <2> QED
    BY <2>2, <2>3 DEF JobKeeps
<1> QED
    BY <1>2, <1>3, <1>4 DEF CollectionInv

\* The sequence of a finite set lists it.
LEMMA SequenceLists ==
    ASSUME NEW S, IsFiniteSet(S)
    PROVE  SetToSeq(S) \in Seq(S) /\ {SetToSeq(S)[i] : i \in 1 .. Len(SetToSeq(S))} = S
<1> DEFINE n == Cardinality(S)
<1>1. n \in Nat
    BY FS_CardinalityType
<1>2. \E f \in [1 .. n -> S] : IsInjective(f)
  <2>1. ExistsBijection(1 .. n, S)
    BY FS_CardinalityType
  <2> QED
    BY <2>1 DEF ExistsBijection, Bijection, Injection, IsInjective
<1>3. SetToSeq(S) \in [1 .. n -> S] /\ IsInjective(SetToSeq(S))
    BY <1>2 DEF SetToSeq
<1>4. SetToSeq(S) \in Seq(S) /\ Len(SetToSeq(S)) = n
    BY <1>1, <1>3
<1>5. SetToSeq(S) \in Injection(1 .. n, S)
    BY <1>3 DEF Injection, IsInjective
<1>6. Cardinality(1 .. n) = n
    BY <1>1, FirstNumbers
<1>7. SetToSeq(S) \in Surjection(1 .. n, S)
    BY <1>5, <1>6, FS_Injection
<1> QED
    BY <1>4, <1>7 DEF Surjection

\* A server that starts lists the jobs on disk, and removes their journals.
LEMMA RestoreBeginStep ==
    ASSUME CollectionInv, RestoreBegins
    PROVE  CollectionInv'
<1>t. CollectionTypes /\ CreationsHold /\ \A j \in CollectionJob : JobKeeps(j)
    BY DEF CollectionInv
<1>0. /\ manager = "down" /\ manager' = "restoring" /\ journals' = {} /\ snapshots' = histories
      /\ jobs' = SetToSeq(RecordedJobs)
      /\ UNCHANGED <<histories, targets, results, writes, collecting, toldEvents>>
    BY DEF RestoreBegins, RecordedJobs
<1>1. jobs' \in Seq(RecordedJobs) /\ ListedJobs' = RecordedJobs
    BY <1>0, <1>t, SequenceLists DEF CreationsHold, ListedJobs
<1>2. \A j \in CollectionJob : collecting[j] = "none"
    BY <1>0, <1>t DEF CreationsHold
<1>3. CollectionTypes'
  <2>1. jobs' \in Seq(CollectionJob)
    BY <1>1 DEF RecordedJobs
  <2> QED
    BY <1>0, <2>1, <1>t DEF CollectionTypes
<1>4. CreationsHold'
  <2>1. Creating' = {} /\ RecordedJobs' = RecordedJobs
    BY <1>0, <1>2 DEF Creating, RecordedJobs
  <2>2. KeyHasOneJob'
    BY <1>0, <1>t DEF CreationsHold, KeyHasOneJob
  <2> QED
    BY <1>0, <1>1, <1>2, <2>1, <2>2, <1>t DEF CreationsHold, RecordedJobs
<1>5. ASSUME NEW j \in CollectionJob PROVE JobKeeps(j)'
  <2>1. Done(j)' = Done(j) /\ Missing(j)' = Missing(j)
    BY <1>0 DEF Done, Missing
  <2>2. StatusHolds(j)' /\ WritesHold(j)'
    BY <1>0, <1>2, <1>t DEF JobKeeps, StatusHolds, WritesHold, RunStages
  <2>3. CountsHold(j)'
    BY <1>0, <1>2, <2>1, <1>t DEF JobKeeps, CountsHold, EndIsComplete
  <2> QED
    BY <2>2, <2>3 DEF JobKeeps
<1> QED
    BY <1>3, <1>4, <1>5 DEF CollectionInv

\* It is up when every job has ended.
LEMMA RestoredStep ==
    ASSUME CollectionInv, Restored
    PROVE  CollectionInv'
<1>t. CollectionTypes /\ CreationsHold /\ \A j \in CollectionJob : JobKeeps(j)
    BY DEF CollectionInv
<1>0. /\ manager = "restoring" /\ manager' = "up" /\ \A j \in CollectionJob : collecting[j] = "none"
      /\ UNCHANGED <<histories, targets, results, journals, jobs, snapshots, writes, collecting, toldEvents>>
    BY DEF Restored, collectionDisk
<1>1. \A j \in ListedJobs : snapshots[j].status \in JobEnded
    BY DEF Restored, Unfinished, ListedJobs
<1>2. CollectionTypes'
    BY <1>0, <1>t DEF CollectionTypes
<1>3. CreationsHold'
    BY <1>0, <1>t, CreationsKeep
<1>4. ASSUME NEW j \in CollectionJob PROVE JobKeeps(j)'
  <2>1. Done(j)' = Done(j) /\ Missing(j)' = Missing(j)
    BY <1>0 DEF Done, Missing
  <2>2. histories[j] = snapshots[j]
    BY <1>0, <1>t DEF JobKeeps, WritesHold
  <2>3. j \in ListedJobs \/ histories[j] = Unknown
    BY <1>0, <1>t DEF CreationsHold, Creating
  <2>4. snapshots[j].status \in JobEnded \cup {"none"} /\ snapshots[j].completed = Cardinality(Done(j))
    BY <1>1, <2>2, <2>3, <1>t DEF JobKeeps, CountsHold, EndIsComplete, Unknown
  <2>5. StatusHolds(j)' /\ WritesHold(j)'
    BY <1>0, <2>2, <2>4, <1>t DEF JobKeeps, StatusHolds, WritesHold, RunStages
  <2>6. CountsHold(j)'
    BY <1>0, <2>1, <2>4, <1>t DEF JobKeeps, CountsHold, EndIsComplete
  <2> QED
    BY <2>5, <2>6 DEF JobKeeps
<1> QED
    BY <1>2, <1>3, <1>4 DEF CollectionInv

\* Steps of the manager alone.
LEMMA ManagerStep ==
    ASSUME CollectionInv,
           UNCHANGED <<histories, targets, results, journals, jobs, snapshots, writes, collecting, toldEvents>>,
           manager' \in {"down", "restoring"} <=> manager \in {"down", "restoring"},
           manager' = "down" <=> manager = "down"
    PROVE  CollectionInv'
<1>t. CollectionTypes /\ CreationsHold /\ \A j \in CollectionJob : JobKeeps(j)
    BY DEF CollectionInv
<1>1. CollectionTypes'
    BY <1>t DEF CollectionTypes
<1>2. CreationsHold'
  <2>1. Creating' = Creating /\ ListedJobs' = ListedJobs /\ RecordedJobs' = RecordedJobs /\ (KeyHasOneJob' <=> KeyHasOneJob)
    BY DEF Creating, ListedJobs, RecordedJobs, KeyHasOneJob
  <2> QED
    BY <2>1, <1>t DEF CreationsHold
<1>3. ASSUME NEW j \in CollectionJob PROVE JobKeeps(j)'
    BY <1>t, OthersKeep
<1> QED
    BY <1>1, <1>2, <1>3 DEF CollectionInv

\* One case per action.
LEMMA CollectionStep == CollectionInv /\ [CollectionNext]_collectionVars => CollectionInv'
<1> SUFFICES ASSUME CollectionInv, [CollectionNext]_collectionVars PROVE CollectionInv'
    OBVIOUS
<1>t. CollectionTypes /\ CreationsHold /\ \A j \in CollectionJob : JobKeeps(j)
    BY DEF CollectionInv
<1>s. \A j \in CollectionJob : snapshots[j] \in Snapshot
    BY <1>t DEF CollectionTypes
<1>1. ASSUME NEW j \in CollectionJob, Persist(j) \/ CreateJob(j) \/ CreateSelects(j) \/ CreateEnds(j) \/ CreateRejects(j)
      PROVE  CollectionInv'
    BY <1>1, PersistStep, CreateStep, CreateEndStep, CreateRejectStep
<1>2. ASSUME NEW j \in CollectionJob, PumpJob(j) \/ RestoreJob(j) PROVE CollectionInv'
  <2>1. j \in ListedJobs
    BY <1>2 DEF PumpJob, RestoreJob, ListedJobs
  <2> QED
    BY <1>2, <2>1, RestEnds
<1>3. ASSUME NEW j \in CollectionJob, JournalJob(j) \/ TargetJob(j) \/ CountGame(j) PROVE CollectionInv'
    BY <1>3, RunEmits DEF JournalJob, TargetJob, CountGame, RunStages, collectionDisk
<1>4. ASSUME NEW j \in CollectionJob, NextGame(j) PROVE CollectionInv'
  <2>1. CASE Missing(j) = {}
    <3> DEFINE t == [snapshots[j] EXCEPT !.status = "succeeded"]
    <3>1. t \in Snapshot /\ t.status \in JobEnded /\ t.completed = snapshots[j].completed
      BY <1>s DEF Snapshot, JobStatus, JobEnded
    <3>2. Emitted(j, t, "job") /\ Moves(j, "ending") /\ collecting[j] = "next"
      BY <1>4, <2>1 DEF NextGame
    <3> HIDE DEF t
    <3> QED
      BY <1>4, <2>1, <3>1, <3>2, EndEmits DEF NextGame, RunStages
  <2>2. CASE Missing(j) # {} /\ j \in aborts
    BY <1>4, <2>2, CaughtStep DEF NextGame, RunStages
  <2>3. CASE Missing(j) # {} /\ j \notin aborts
    BY <1>4, <2>3, RunEmits DEF NextGame, RunStages, collectionDisk
  <2> QED
    BY <2>1, <2>2, <2>3
<1>5. ASSUME NEW j \in CollectionJob, JobThrows(j) PROVE CollectionInv'
    BY <1>5, CaughtStep DEF JobThrows, RunStages
<1>6. ASSUME NEW j \in CollectionJob, CollectGame(j) \/ InterruptGame(j) \/ JobEnds(j) \/ EndQueuedJob(j)
      PROVE  CollectionInv'
    BY <1>6, CollectStep, InterruptStep, EndStep
<1>7. ASSUME NEW j \in CollectionJob, InterruptEnds(j) PROVE CollectionInv'
  <2> DEFINE t == IF collecting[j] = "interrupt" THEN snapshots[j] ELSE [snapshots[j] EXCEPT !.status = "cancelled"]
  <2>1. t \in Snapshot /\ t.status \in JobEnded /\ t.completed = snapshots[j].completed
    BY <1>s, <1>t DEF Snapshot, JobStatus, JobEnded, JobKeeps, StatusHolds
  <2>2. j \in targets => Missing(j) = {}
    BY <1>7 DEF InterruptEnds, ToInterrupt
  <2>3. Emitted(j, t, "job") /\ Moves(j, "ending") /\ collecting[j] \in {"interrupt", "interruptQueued"}
    BY <1>7 DEF InterruptEnds
  <2> HIDE DEF t
  <2> QED
    BY <1>7, <2>1, <2>2, <2>3, EndEmits DEF InterruptEnds
<1>8. ASSUME NEW j \in CollectionJob, CancelJob(j) PROVE CollectionInv'
  <2>1. {j} \in SUBSET ListedJobs
    BY <1>8 DEF CancelJob, ListedJobs
  <2> QED
    BY <1>8, <2>1, CancelsStep DEF CancelJob
<1>9. CASE CloseCancels
    BY <1>9, CancelsStep DEF CloseCancels, ListedJobs
<1>10. CASE CloseCollection \/ CloseLooks \/ CollectionClosed \/ UNCHANGED collectionVars
    BY <1>10, ManagerStep DEF CloseCollection, CloseLooks, CollectionClosed, collectionVars, collectionDisk
<1>11. CASE CollectionCrashes \/ RestoreBegins \/ Restored
    BY <1>11, CollectionCrashStep, RestoreBeginStep, RestoredStep
<1> QED
    BY <1>1, <1>2, <1>3, <1>4, <1>5, <1>6, <1>7, <1>8, <1>9, <1>10, <1>11 DEF CollectionNext, JobStep

\* What is told of a job follows from the invariant.
LEMMA CollectionInvHolds == CollectionInv => CollectionIsTold
<1> SUFFICES ASSUME CollectionInv PROVE CollectionIsTold
    OBVIOUS
<1>t. CollectionTypes /\ CreationsHold /\ \A j \in CollectionJob : JobKeeps(j)
    BY DEF CollectionInv
<1>1. ASSUME NEW j \in CollectionJob PROVE EndIsComplete(j)
    BY <1>t DEF JobKeeps, CountsHold
<1>2. ASSUME NEW j \in CollectionJob PROVE EventsAreOnDisk(j)
  <2>1. toldEvents[j] = histories[j].sequence /\ toldEvents[j] \in Nat
    BY <1>t DEF JobKeeps, CountsHold, CollectionTypes
  <2> QED
    BY <2>1 DEF EventsAreOnDisk
<1>3. ASSUME NEW j \in CollectionJob PROVE RestIsOnDisk(j)
    BY <1>t DEF JobKeeps, WritesHold, CountsHold, RestIsOnDisk, RunStages
<1> QED
    BY <1>1, <1>2, <1>3, <1>t DEF CollectionIsTold, CreationsHold

\* A job that ended has a result for every game it was for and counts those it dealt
\* with, no client has seen an event that is not on disk, a job at rest is on disk as it
\* is in memory, and a key has one job.
THEOREM CollectionTold == CollectionSpec => []CollectionIsTold
BY CollectionStarts, CollectionStep, CollectionInvHolds, PTL DEF CollectionSpec

=============================================================================
