-------------------------------- MODULE WorkersProofs --------------------------------
(*****************************************************************************)
(* Proofs about the pools and the job queues of the server, for any number  *)
(* of requests, calls, tasks, jobs, workers and crashes, and about the lock *)
(* of a workspace, for any number of processes; and that all of it holds    *)
(* where they are checked side by side (MCWorkers).                         *)
(*****************************************************************************)
EXTENDS MCWorkers, CollectionProofs

(* The computation pool *)

\* The requests of the pool.
RowMessage == [of : Request, append : BOOLEAN, complete : BOOLEAN]
RowReply == [of : Request, ok : BOOLEAN]
PoolTypes ==
    /\ outcome \in [Request -> {"none", "waiting", "resolved", "rejected", "refused"}]
    /\ answer \in [Request -> Request \cup {Idle}]
    /\ queue \in Seq(Request) /\ Distinct(queue)
    /\ slots \subseteq Worker /\ ending \subseteq Worker /\ slots \cap ending = {}
    /\ IsFiniteSet(slots)
    /\ job \in [Worker -> Request \cup {Idle}]
    /\ sent \in [Worker -> Nat]
    /\ box \in [Worker -> Seq(RowMessage)]
    /\ partial \in [Worker -> Request \cup {Idle}]
    /\ reply \in [Worker -> Seq(RowReply)]
    /\ pumping \in BOOLEAN /\ closed \in BOOLEAN

\* A request that waits is in the queue or with one worker of the pool, and one that a
\* terminated worker still has does not wait.
PoolPlaced ==
    /\ \A r \in Request : outcome[r] = "waiting" <=> r \in ToSet(queue) \/ \E w \in slots : job[w] = r
    /\ \A v, w \in slots : job[v] # Idle /\ job[v] = job[w] => v = w
    /\ \A w \in slots : job[w] \notin ToSet(queue)
    /\ \A w \in ending : job[w] # Idle => outcome[job[w]] \notin {"none", "waiting"}
    /\ \A r \in Request : outcome[r] = "resolved" => answer[r] = r

PoolLimits ==
    /\ NoIdleWorker
    /\ Cardinality(slots) <= Concurrency
    /\ closed => slots = {} /\ queue = <<>>

\* The k-th message that carries the rows of the request r.
IsMessage(m, r, k) == m.of = r /\ (m.append <=> k > 1) /\ (m.complete <=> k = Chunks[r])

\* What is between the pool and a worker of it: nothing without a request; or its one
\* reply; or those of the sent messages that the worker has not taken, with the request
\* in its hands once it has taken the first.
Taken(w) == sent[w] - Len(box[w])
Quiet(w) == box[w] = <<>> /\ reply[w] = <<>> /\ partial[w] = Idle
Replied(w) ==
    /\ box[w] = <<>> /\ partial[w] = Idle /\ sent[w] = Chunks[job[w]]
    /\ Len(reply[w]) = 1 /\ reply[w][1].of = job[w]
Sending(w) ==
    /\ reply[w] = <<>> /\ sent[w] <= Chunks[job[w]]
    /\ 0 <= Taken(w) /\ Taken(w) < Chunks[job[w]]
    /\ \A k \in 1 .. Len(box[w]) : IsMessage(box[w][k], job[w], Taken(w) + k)
    /\ partial[w] = IF Taken(w) = 0 THEN Idle ELSE job[w]
Flow(w) == IF job[w] = Idle THEN Quiet(w) ELSE Replied(w) \/ Sending(w)

PoolInv == PoolTypes /\ PoolPlaced /\ PoolLimits /\ \A w \in slots : Flow(w)

\* The invariant holds of a new pool.
LEMMA PoolStarts == PoolInit => PoolInv
<1> SUFFICES ASSUME PoolInit PROVE PoolInv
    OBVIOUS
<1> USE DEF PoolInit
<1>1. IsFiniteSet({}) /\ Cardinality({}) = 0
    BY FS_EmptySet
<1>2. ToSet(queue) = {} /\ Distinct(queue)
    BY NoneQueued
<1>3. PoolTypes
  <2>1. outcome \in [Request -> {"none", "waiting", "resolved", "rejected", "refused"}]
        /\ answer \in [Request -> Request \cup {Idle}] /\ job \in [Worker -> Request \cup {Idle}]
        /\ partial \in [Worker -> Request \cup {Idle}]
    OBVIOUS
  <2>2. <<>> \in Seq(RowMessage) /\ <<>> \in Seq(RowReply) /\ queue \in Seq(Request)
    OBVIOUS
  <2>3. box \in [Worker -> Seq(RowMessage)] /\ reply \in [Worker -> Seq(RowReply)]
    BY <2>2
  <2>4. sent \in [Worker -> Nat]
    OBVIOUS
  <2>5. pumping \in BOOLEAN /\ closed \in BOOLEAN
    OBVIOUS
  <2> QED
    BY <1>1, <1>2, <2>1, <2>2, <2>3, <2>4, <2>5 DEF PoolTypes
<1>4. PoolPlaced
    BY <1>2 DEF PoolPlaced
<1>5. PoolLimits
    BY <1>1, PoolLimitAssumption DEF PoolLimits, NoIdleWorker
<1> QED
    BY <1>3, <1>4, <1>5 DEF PoolInv

\* The queue of the pool, as a sequence and as a set.
LEMMA PoolQueueIs ==
    ASSUME PoolTypes
    PROVE  /\ queue = <<>> <=> ToSet(queue) = {}
           /\ ToSet(queue) = {queue[i] : i \in 1 .. Len(queue)}
           /\ ToSet(queue) \subseteq Request /\ Len(queue) \in Nat
           /\ Cardinality(slots) \in Nat /\ Concurrency \in Nat
           /\ Idle \notin ToSet(queue)
BY QueuedAt, FS_CardinalityType, IdleAssumption, PoolLimitAssumption DEF PoolTypes

\* Every step keeps the shapes and the queue.
LEMMA PoolTypesKept == PoolInv /\ [PoolNext]_poolVars => PoolTypes'
<1> SUFFICES ASSUME PoolInv, [PoolNext]_poolVars PROVE PoolTypes'
    OBVIOUS
<1>t. PoolTypes /\ PoolPlaced
    BY DEF PoolInv
<1>q. ToSet(queue) \subseteq Request /\ Idle \notin Request
    BY <1>t, PoolQueueIs, IdleAssumption
<1>s. \A r, how : how \in {"resolved", "rejected"} =>
          Settle(r, how) \in [Request -> {"none", "waiting", "resolved", "rejected", "refused"}]
    BY <1>t DEF PoolTypes, Settle
<1>f. \A w : IsFiniteSet(slots \ {w})
    BY <1>t, FS_RemoveElement DEF PoolTypes
<1>1. ASSUME NEW r \in Request, RunRefused(r) PROVE PoolTypes'
    BY <1>t, <1>1 DEF PoolTypes, RunRefused
<1>2. ASSUME NEW r \in Request, RunQueued(r) PROVE PoolTypes'
  <2>1. r \notin ToSet(queue)
    BY <1>t, <1>2 DEF PoolPlaced, RunQueued
  <2>2. queue' \in Seq(Request) /\ Distinct(queue')
    BY <2>1, <1>t, <1>2, Enqueued DEF PoolTypes, RunQueued
  <2> QED
    BY <1>t, <1>2, <2>2 DEF PoolTypes, RunQueued
<1>3. ASSUME NEW r \in Request, CancelQueued(r) PROVE PoolTypes'
  <2>1. queue' \in Seq(Request) /\ Distinct(queue')
    BY <1>t, <1>3, Removed DEF PoolTypes, CancelQueued
  <2> QED
    BY <1>t, <1>s, <1>3, <2>1 DEF PoolTypes, CancelQueued
<1>4. ASSUME NEW w \in Worker, Drop(w) PROVE PoolTypes'
    BY <1>t, <1>s, <1>f, <1>4 DEF PoolTypes, Drop, Fail
<1>5. ASSUME NEW w \in Worker, Die(w) PROVE PoolTypes'
  <2>1. box' \in [Worker -> Seq(RowMessage)]
    BY <1>t, <1>5 DEF PoolTypes, Die
  <2> QED
    BY <1>t, <1>s, <1>f, <1>5, <2>1 DEF PoolTypes, Die, Fail
<1>6. CASE PumpStops
    BY <1>t, <1>6 DEF PoolTypes, PumpStops
<1>7. ASSUME NEW w \in Worker, PumpAssigns(w) \/ PumpSpawns(w) PROVE PoolTypes'
  <2>0. queue # <<>> /\ queue \in Seq(Request) /\ Distinct(queue)
    BY <1>t, <1>7 DEF PumpAssigns, PumpSpawns, PoolTypes
  <2>a. queue' = Tail(queue) /\ job' = [job EXCEPT ![w] = Head(queue)] /\ sent' = [sent EXCEPT ![w] = 0]
    BY <1>7 DEF PumpAssigns, PumpSpawns, Take
  <2>1. queue' \in Seq(Request) /\ Distinct(queue') /\ Head(queue) \in Request
    BY <2>0, <2>a, <1>q, Dequeued
  <2>2. job' \in [Worker -> Request \cup {Idle}] /\ sent' \in [Worker -> Nat]
    BY <2>1, <2>a, <1>t DEF PoolTypes
  <2>3. CASE PumpAssigns(w)
    BY <1>t, <2>1, <2>2, <2>3 DEF PumpAssigns, PoolTypes
  <2>4. CASE PumpSpawns(w)
    <3>1. IsFiniteSet(slots \cup {w}) /\ w \notin ending
      BY <1>t, <2>4, FS_AddElement DEF PoolTypes, PumpSpawns, Threads
    <3>2. box' \in [Worker -> Seq(RowMessage)] /\ reply' \in [Worker -> Seq(RowReply)]
          /\ partial' \in [Worker -> Request \cup {Idle}]
      BY <1>t, <2>4 DEF PoolTypes, PumpSpawns
    <3> QED
      BY <1>t, <2>1, <2>2, <2>4, <3>1, <3>2 DEF PumpSpawns, PoolTypes
  <2> QED
    BY <2>3, <2>4, <1>7
<1>8. CASE PumpCannotSpawn
  <2>0. queue # <<>> /\ queue \in Seq(Request) /\ Distinct(queue)
    BY <1>t, <1>8 DEF PumpCannotSpawn, PoolTypes
  <2>1. queue' \in Seq(Request) /\ Distinct(queue')
    BY <2>0, <1>8, Dequeued DEF PumpCannotSpawn
  <2> QED
    BY <1>t, <1>s, <1>8, <2>1 DEF PumpCannotSpawn, PoolTypes
<1>9. ASSUME NEW w \in Worker, Send(w) PROVE PoolTypes'
  <2> DEFINE m == [of |-> job[w], append |-> sent[w] > 0, complete |-> sent[w] + 1 = Chunks[job[w]]]
  <2>1. m \in RowMessage
    BY <1>t, <1>9 DEF PoolTypes, Send, RowMessage
  <2>2. box' = [box EXCEPT ![w] = Append(box[w], m)] /\ sent' = [sent EXCEPT ![w] = sent[w] + 1]
    BY <1>9 DEF Send
  <2> HIDE DEF m
  <2>3. box' \in [Worker -> Seq(RowMessage)] /\ sent' \in [Worker -> Nat]
    BY <1>t, <2>1, <2>2 DEF PoolTypes
  <2> QED
    BY <1>t, <1>9, <2>3 DEF PoolTypes, Send
<1>10. ASSUME NEW w \in Worker, Work(w) PROVE PoolTypes'
  <2>1. box[w] \in Seq(RowMessage) /\ box[w] # <<>>
    BY <1>t, <1>10 DEF PoolTypes, Work
  <2>2. Head(box[w]) \in RowMessage /\ Tail(box[w]) \in Seq(RowMessage)
    BY <2>1, HeadTailProperties
  <2>3. Head(box[w]).of \in Request
    BY <2>2 DEF RowMessage
  <2>4. box' \in [Worker -> Seq(RowMessage)] /\ partial' \in [Worker -> Request \cup {Idle}]
    BY <1>t, <1>10, <2>2, <2>3 DEF PoolTypes, Work
  <2>5. \A ok \in BOOLEAN : Append(reply[w], [of |-> Head(box[w]).of, ok |-> ok]) \in Seq(RowReply)
    BY <1>t, <2>3, AppendProperties DEF PoolTypes, RowReply
  <2>6. reply' \in [Worker -> Seq(RowReply)]
    <3>1. \E ok \in BOOLEAN :
             \/ reply' = [reply EXCEPT ![w] = Append(reply[w], [of |-> Head(box[w]).of, ok |-> ok])]
             \/ reply' = [reply EXCEPT ![w] = reply[w]]
      BY <1>10 DEF Work
    <3> QED
      BY <3>1, <1>t, <2>5 DEF PoolTypes
  <2> QED
    BY <1>t, <1>10, <2>4, <2>6 DEF PoolTypes, Work
<1>11. ASSUME NEW w \in Worker, Receive(w) PROVE PoolTypes'
  <2>1. reply[w] \in Seq(RowReply) /\ reply[w] # <<>>
    BY <1>t, <1>11 DEF PoolTypes, Receive
  <2>2. Head(reply[w]).of \in Request /\ Tail(reply[w]) \in Seq(RowReply)
    <3>1. Head(reply[w]) \in RowReply /\ Tail(reply[w]) \in Seq(RowReply)
      BY <2>1, HeadTailProperties
    <3> QED
      BY <3>1 DEF RowReply
  <2>3. reply' \in [Worker -> Seq(RowReply)]
    BY <1>t, <1>11, <2>2 DEF PoolTypes, Receive
  <2>4. UNCHANGED <<queue, sent, box, partial, closed>>
    BY <1>11 DEF Receive
  <2>5. CASE job[w] = Head(reply[w]).of
    <3> DEFINE m == Head(reply[w])
    <3>1. /\ job' = [job EXCEPT ![w] = Idle] /\ pumping' = TRUE /\ UNCHANGED <<slots, ending>>
          /\ outcome' = Settle(m.of, IF m.ok THEN "resolved" ELSE "rejected")
          /\ answer' = answer \/ answer' = [answer EXCEPT ![m.of] = m.of]
      BY <1>11, <2>5 DEF Receive
    <3> HIDE DEF m
    <3>2. outcome' \in [Request -> {"none", "waiting", "resolved", "rejected", "refused"}]
      BY <1>s, <3>1
    <3>3. answer' \in [Request -> Request \cup {Idle}]
      BY <1>t, <3>1, <2>2 DEF PoolTypes, m
    <3> QED
      BY <1>t, <2>3, <2>4, <3>1, <3>2, <3>3 DEF PoolTypes
  <2>6. CASE job[w] # Head(reply[w]).of
    <3>1. /\ UNCHANGED <<job, pumping, answer>>
          /\ \/ UNCHANGED <<slots, outcome, ending>>
             \/ slots' = slots \ {w} /\ outcome' = Settle(job[w], "rejected") /\ ending' = ending \cup {w}
      BY <1>11, <2>6 DEF Receive, Fail
    <3>2. CASE UNCHANGED <<slots, outcome, ending>>
      BY <1>t, <2>3, <2>4, <3>1, <3>2 DEF PoolTypes
    <3>3. CASE slots' = slots \ {w} /\ outcome' = Settle(job[w], "rejected") /\ ending' = ending \cup {w}
      <4>1. outcome' \in [Request -> {"none", "waiting", "resolved", "rejected", "refused"}]
        BY <1>s, <3>3
      <4>2. IsFiniteSet(slots') /\ slots' \subseteq Worker /\ ending' \subseteq Worker /\ slots' \cap ending' = {}
        BY <1>t, <1>f, <3>3 DEF PoolTypes
      <4> QED
        BY <1>t, <2>3, <2>4, <3>1, <4>1, <4>2 DEF PoolTypes
    <3> QED
      BY <3>1, <3>2, <3>3
  <2> QED
    BY <2>5, <2>6
<1>12. ASSUME NEW w \in Worker, Terminated(w) PROVE PoolTypes'
    BY <1>t, <1>12 DEF PoolTypes, Terminated
<1>13. CASE Close
  <2>1. outcome' \in [Request -> {"none", "waiting", "resolved", "rejected", "refused"}]
    BY <1>t, <1>s, <1>13 DEF PoolTypes, Close
  <2> QED
    BY <1>t, <1>13, <2>1, NoneQueued, FS_EmptySet DEF PoolTypes, Close, Threads
<1>14. CASE UNCHANGED poolVars
    BY <1>t, <1>14 DEF PoolTypes, poolVars
<1> QED
    BY <1>1, <1>2, <1>3, <1>4, <1>5, <1>6, <1>7, <1>8, <1>9, <1>10, <1>11, <1>12, <1>13, <1>14 DEF PoolNext, Pump

\* fail() of a slot: who it had is answered, and no one else.
LEMMA FailPlaces ==
    ASSUME PoolTypes, PoolPlaced, NEW w \in slots, Fail(w), UNCHANGED <<queue, answer>>
    PROVE  PoolPlaced'
<1>1. /\ slots' = slots \ {w} /\ ending' = ending \cup {w} /\ job' = job
      /\ outcome' = IF job[w] \in Request /\ outcome[job[w]] = "waiting"
                    THEN [outcome EXCEPT ![job[w]] = "rejected"] ELSE outcome
    BY DEF Fail, Settle
<1>2. \A r \in Request : outcome'[r] = IF r = job[w] /\ outcome[r] = "waiting" THEN "rejected" ELSE outcome[r]
    BY <1>1 DEF PoolTypes
<1>3. w \in Worker /\ job[w] \in Request \cup {Idle} /\ Idle \notin Request /\ (job[w] # Idle => outcome[job[w]] = "waiting")
    BY IdleAssumption DEF PoolTypes, PoolPlaced
<1>4. \A r \in Request : outcome'[r] = "waiting" <=> r \in ToSet(queue) \/ \E v \in slots' : job[v] = r
    BY <1>1, <1>2, <1>3 DEF PoolPlaced
<1>5. \A v \in ending' : job[v] # Idle => outcome'[job[v]] \notin {"none", "waiting"}
    BY <1>1, <1>2, <1>3 DEF PoolPlaced, PoolTypes
<1> QED
    BY <1>1, <1>2, <1>4, <1>5 DEF PoolPlaced

\* Every step keeps a request that is not answered in one place.
LEMMA PoolPlacedKept == PoolInv /\ [PoolNext]_poolVars => PoolPlaced'
<1> SUFFICES ASSUME PoolInv, [PoolNext]_poolVars PROVE PoolPlaced'
    OBVIOUS
<1>t. PoolTypes /\ PoolPlaced
    BY DEF PoolInv
<1>q. ToSet(queue) \subseteq Request /\ Idle \notin Request /\ (queue = <<>> <=> ToSet(queue) = {})
    BY <1>t, PoolQueueIs, IdleAssumption
<1>1. ASSUME NEW r \in Request, RunRefused(r) PROVE PoolPlaced'
  <2>1. outcome' = [outcome EXCEPT ![r] = "refused"] /\ outcome[r] = "none"
        /\ UNCHANGED <<answer, queue, slots, ending, job>>
    BY <1>1 DEF RunRefused
  <2> QED
    BY <1>t, <1>q, <2>1 DEF PoolTypes, PoolPlaced
<1>2. ASSUME NEW r \in Request, RunQueued(r) PROVE PoolPlaced'
  <2>0. r \notin ToSet(queue) /\ \A w \in slots : job[w] # r
    BY <1>t, <1>2 DEF PoolPlaced, RunQueued
  <2>1. outcome' = [outcome EXCEPT ![r] = "waiting"] /\ outcome[r] = "none"
        /\ UNCHANGED <<answer, slots, ending, job>>
    BY <1>2 DEF RunQueued
  <2>2. ToSet(queue') = ToSet(queue) \cup {r}
    BY <2>0, <1>t, <1>2, Enqueued DEF PoolTypes, RunQueued
  <2> QED
    BY <1>t, <1>q, <2>0, <2>1, <2>2 DEF PoolTypes, PoolPlaced
<1>3. ASSUME NEW r \in Request, CancelQueued(r) PROVE PoolPlaced'
  <2>1. outcome' = [outcome EXCEPT ![r] = "rejected"] /\ outcome[r] = "waiting"
        /\ UNCHANGED <<answer, slots, ending, job>>
    BY <1>3 DEF CancelQueued, Settle
  <2>2. ToSet(queue') = ToSet(queue) \ {r} /\ r \in ToSet(queue)
    <3>1. PICK i \in 1 .. Len(queue) : queue[i] = r /\ queue' = RemoveAt(queue, i)
      BY <1>3 DEF CancelQueued
    <3>2. ToSet(RemoveAt(queue, i)) = ToSet(queue) \ {queue[i]}
      BY <1>t, Removed DEF PoolTypes
    <3>3. queue[i] \in ToSet(queue)
      BY <1>t, PoolQueueIs
    <3> QED
      BY <3>1, <3>2, <3>3
  <2> QED
    BY <1>t, <1>q, <2>1, <2>2 DEF PoolTypes, PoolPlaced
<1>4. ASSUME NEW w \in Worker, Drop(w) \/ Die(w) PROVE PoolPlaced'
    BY <1>t, <1>4, FailPlaces DEF Drop, Die
<1>5. CASE PumpStops
    BY <1>t, <1>5 DEF PoolPlaced, PumpStops
<1>6. ASSUME NEW w \in Worker, PumpAssigns(w) \/ PumpSpawns(w) PROVE PoolPlaced'
  <2>0. queue # <<>> /\ queue \in Seq(Request) /\ Distinct(queue)
    BY <1>t, <1>6 DEF PumpAssigns, PumpSpawns, PoolTypes
  <2>a. queue' = Tail(queue) /\ job' = [job EXCEPT ![w] = Head(queue)] /\ UNCHANGED <<outcome, answer, ending>>
        /\ slots' = slots \cup {w} /\ w \notin ending /\ (w \in slots => job[w] = Idle)
    BY <1>t, <1>6 DEF PumpAssigns, PumpSpawns, Take, Free, Threads, PoolTypes
  <2>1. ToSet(queue') = ToSet(queue) \ {Head(queue)} /\ Head(queue) \in ToSet(queue) /\ Head(queue) \in Request
    BY <2>0, <2>a, <1>q, Dequeued
  <2> DEFINE r == Head(queue)
  <2>2. \A v \in Worker : job'[v] = IF v = w THEN r ELSE job[v]
    BY <2>a, <1>t DEF PoolTypes
  <2> HIDE DEF r
  <2>3. \A q \in Request : outcome[q] = "waiting" <=> q \in ToSet(queue') \/ \E v \in slots' : job'[v] = q
    <3>1. ToSet(queue') = ToSet(queue) \ {r} /\ r \in ToSet(queue) /\ r \in Request
      BY <2>1 DEF r
    <3>2. slots \subseteq Worker /\ slots' = slots \cup {w} /\ (w \in slots => job[w] = Idle)
      BY <1>t, <2>a DEF PoolTypes
    <3> QED
      BY <1>t, <1>q, <2>2, <3>1, <3>2 DEF PoolPlaced
  <2>4. \A u, v \in slots' : job'[u] # Idle /\ job'[u] = job'[v] => u = v
    BY <1>t, <2>1, <2>2, <2>a DEF PoolPlaced, PoolTypes, r
  <2>5. \A v \in slots' : job'[v] \notin ToSet(queue')
    BY <1>t, <1>q, <2>1, <2>2, <2>a DEF PoolPlaced, PoolTypes, r
  <2>6. \A v \in ending : job'[v] = job[v]
    BY <1>t, <2>2, <2>a DEF PoolTypes
  <2> QED
    BY <1>t, <2>3, <2>4, <2>5, <2>6, <2>a DEF PoolPlaced
<1>7. CASE PumpCannotSpawn
  <2>0. queue # <<>> /\ queue \in Seq(Request) /\ Distinct(queue)
    BY <1>t, <1>7 DEF PumpCannotSpawn, PoolTypes
  <2>a. queue' = Tail(queue) /\ UNCHANGED <<job, answer, ending, slots>> /\ outcome' = Settle(Head(queue), "rejected")
    BY <1>7 DEF PumpCannotSpawn
  <2>1. ToSet(queue') = ToSet(queue) \ {Head(queue)} /\ Head(queue) \in ToSet(queue) /\ Head(queue) \in Request
    BY <2>0, <2>a, <1>q, Dequeued
  <2> DEFINE r == Head(queue)
  <2>2. outcome' = [outcome EXCEPT ![r] = "rejected"] /\ outcome[r] = "waiting"
    BY <1>t, <2>1, <2>a DEF Settle, PoolPlaced
  <2> HIDE DEF r
  <2> QED
    BY <1>t, <1>q, <2>1, <2>2, <2>a DEF PoolTypes, PoolPlaced, r
<1>8. ASSUME NEW w \in Worker, Send(w) \/ Work(w) PROVE PoolPlaced'
  <2>1. UNCHANGED <<outcome, answer, queue, slots, job, ending>>
    BY <1>8 DEF Send, Work
  <2> QED
    BY <1>t, <2>1 DEF PoolPlaced
<1>9. ASSUME NEW w \in Worker, Receive(w) PROVE PoolPlaced'
  <2> DEFINE m == Head(reply[w])
  <2>0. w \in slots \cup ending /\ queue' = queue
    BY <1>9 DEF Receive, Threads
  <2>1. CASE job[w] = m.of
    <3>0. reply[w] \in Seq(RowReply) /\ reply[w] # <<>>
      BY <1>t, <1>9 DEF PoolTypes, Receive
    <3>1. m.of \in Request
      <4>1. m \in RowReply
        BY <3>0, HeadTailProperties
      <4> QED
        BY <4>1 DEF RowReply
    <3>2. /\ job' = [job EXCEPT ![w] = Idle] /\ UNCHANGED <<slots, ending>>
          /\ outcome' = Settle(m.of, IF m.ok THEN "resolved" ELSE "rejected")
          /\ answer' = IF m.ok /\ outcome[m.of] = "waiting" THEN [answer EXCEPT ![m.of] = m.of] ELSE answer
      BY <1>9, <2>1 DEF Receive
    <3>3. \A v \in Worker : job'[v] = IF v = w THEN Idle ELSE job[v]
      BY <3>2, <1>t DEF PoolTypes
    <3> DEFINE r == job[w]
    <3>4. r \in Request /\ r # Idle /\ r = m.of
      BY <2>1, <3>1, <1>q
    <3> HIDE DEF m, r
    <3>5. \A q \in Request : outcome'[q] = IF q = r /\ outcome[r] = "waiting"
                                            THEN IF m.ok THEN "resolved" ELSE "rejected" ELSE outcome[q]
      BY <3>2, <3>4, <1>t DEF PoolTypes, Settle
    <3>6. \A q \in Request : answer'[q] = IF q = r /\ outcome[r] = "waiting" /\ m.ok THEN r ELSE answer[q]
      BY <3>2, <3>4, <1>t DEF PoolTypes
    <3>7. \A q \in Request : outcome'[q] = "waiting" <=> q \in ToSet(queue) \/ \E v \in slots : job'[v] = q
      <4>0. slots \subseteq Worker /\ w \in Worker /\ slots \cap ending = {}
        BY <1>t DEF PoolTypes
      <4>1. ASSUME NEW q \in Request, q # r
            PROVE  (\E v \in slots : job'[v] = q) <=> \E v \in slots : job[v] = q
        BY <4>0, <4>1, <1>q, <3>3 DEF r
      <4>2. CASE w \in slots
        <5>1. outcome'[r] # "waiting" /\ r \notin ToSet(queue)
          BY <1>t, <3>4, <3>5, <4>2 DEF PoolPlaced, r
        <5>2. \A v \in slots : job'[v] # r
          BY <1>t, <1>q, <3>3, <3>4, <4>0, <4>2 DEF PoolPlaced, r
        <5> QED
          BY <4>1, <5>1, <5>2, <1>t, <3>5 DEF PoolPlaced
      <4>3. CASE w \in ending
        <5>1. outcome[r] # "waiting"
          BY <1>t, <3>4, <4>3 DEF PoolPlaced, r
        <5>2. \A v \in slots : job'[v] = job[v]
          BY <3>3, <4>0, <4>3
        <5> QED
          BY <5>1, <5>2, <1>t, <3>5 DEF PoolPlaced
      <4> QED
        BY <4>2, <4>3, <2>0
    <3>8. \A v \in ending : job'[v] # Idle => outcome'[job'[v]] \notin {"none", "waiting"}
      BY <1>t, <3>3, <3>5 DEF PoolPlaced, PoolTypes
    <3>9. \A v \in slots : job'[v] \notin ToSet(queue)
      BY <1>t, <1>q, <3>3 DEF PoolPlaced, PoolTypes
    <3>10. \A u, v \in slots : job'[u] # Idle /\ job'[u] = job'[v] => u = v
      BY <1>t, <3>3 DEF PoolPlaced, PoolTypes
    <3>11. \A q \in Request : outcome'[q] = "resolved" => answer'[q] = q
      BY <1>t, <3>5, <3>6 DEF PoolPlaced
    <3> QED
      BY <2>0, <3>2, <3>7, <3>8, <3>9, <3>10, <3>11 DEF PoolPlaced
  <2>2. CASE job[w] # m.of /\ w \in slots
    BY <1>t, <1>9, <2>0, <2>2, FailPlaces DEF Receive
  <2>3. CASE job[w] # m.of /\ w \notin slots
    BY <1>t, <1>9, <2>0, <2>3 DEF Receive, PoolPlaced
  <2> QED
    BY <2>1, <2>2, <2>3
<1>10. ASSUME NEW w \in Worker, Terminated(w) PROVE PoolPlaced'
  <2>1. job' = [job EXCEPT ![w] = Idle] /\ ending' = ending \ {w} /\ w \notin slots /\ UNCHANGED <<outcome, answer, queue, slots>>
    BY <1>t, <1>10 DEF Terminated, PoolTypes
  <2>2. \A v \in Worker : v # w => job'[v] = job[v]
    BY <1>t, <2>1 DEF PoolTypes
  <2>3. slots \subseteq Worker /\ ending \subseteq Worker
    BY <1>t DEF PoolTypes
  <2> QED
    BY <1>t, <2>1, <2>2, <2>3 DEF PoolPlaced
<1>11. CASE Close
  <2>1. queue' = <<>> /\ slots' = {} /\ ending' = slots \cup ending /\ UNCHANGED <<answer, job>>
    BY <1>11 DEF Close, Threads
  <2>2. \A r \in Request : outcome'[r] = IF outcome[r] = "waiting" THEN "rejected" ELSE outcome[r]
    <3>1. \A r \in Request : outcome'[r] = IF InQueue(r) \/ \E w \in slots : job[w] = r
                                            THEN Settle(r, "rejected")[r] ELSE outcome[r]
      BY <1>11 DEF Close
    <3>2. \A r \in Request : InQueue(r) <=> r \in ToSet(queue)
      BY <1>t, PoolQueueIs DEF InQueue
    <3>3. \A r \in Request : Settle(r, "rejected")[r] = IF outcome[r] = "waiting" THEN "rejected" ELSE outcome[r]
      BY <1>t DEF Settle, PoolTypes
    <3> QED
      BY <1>t, <3>1, <3>2, <3>3 DEF PoolPlaced
  <2>3. ASSUME NEW w \in slots \cup ending, job[w] # Idle PROVE outcome'[job[w]] \notin {"none", "waiting"}
    <3>1. job[w] \in Request
      BY <1>t, <2>3 DEF PoolTypes
    <3>2. outcome[job[w]] # "none"
      BY <1>t, <2>3, <3>1 DEF PoolPlaced
    <3> QED
      BY <2>2, <3>1, <3>2
  <2> QED
    BY <1>t, <2>1, <2>2, <2>3, NoneQueued DEF PoolPlaced
<1>12. CASE UNCHANGED poolVars
    BY <1>t, <1>12 DEF PoolPlaced, poolVars
<1> QED
    BY <1>1, <1>2, <1>3, <1>4, <1>5, <1>6, <1>7, <1>8, <1>9, <1>10, <1>11, <1>12 DEF PoolNext, Pump

\* fail() of a slot leaves its worker's end to wait for.
LEMMA FailLimits ==
    ASSUME PoolTypes, PoolLimits, NEW w \in slots, Fail(w), UNCHANGED <<queue, closed>>
    PROVE  PoolLimits'
<1>1. slots' = slots \ {w} /\ ending' = ending \cup {w} /\ UNCHANGED <<job, pumping>>
    BY DEF Fail
<1>2. Cardinality(slots') = Cardinality(slots) - 1
    BY <1>1, FS_RemoveElement DEF PoolTypes
<1>3. Free' \subseteq Free
    BY <1>1 DEF Free
<1>4. Cardinality(slots') <= Concurrency
    BY <1>2, PoolQueueIs DEF PoolLimits
<1>5. NoIdleWorker'
    BY <1>1, <1>3 DEF PoolLimits, NoIdleWorker, Turn
<1> QED
    BY <1>1, <1>4, <1>5 DEF PoolLimits

\* Every step keeps within the limits.
LEMMA PoolLimitsKept == PoolInv /\ [PoolNext]_poolVars => PoolLimits'
<1> SUFFICES ASSUME PoolInv, [PoolNext]_poolVars PROVE PoolLimits'
    OBVIOUS
<1>t. PoolTypes /\ PoolLimits
    BY DEF PoolInv
<1>c. Cardinality(slots) \in Nat /\ Concurrency \in Nat
    BY <1>t, PoolQueueIs
<1> USE DEF PoolLimits, NoIdleWorker, Turn
<1>1. ASSUME NEW r \in Request, RunRefused(r) \/ RunQueued(r) PROVE PoolLimits'
    BY <1>t, <1>1 DEF RunRefused, RunQueued, Free
<1>2. ASSUME NEW r \in Request, CancelQueued(r) PROVE PoolLimits'
  <2>1. queue # <<>> /\ UNCHANGED <<slots, job, ending, pumping, closed>>
    BY <1>t, <1>2, QueuedAt DEF CancelQueued, PoolTypes
  <2>2. closed => slots = {} /\ queue = <<>>
    BY <1>t
  <2> QED
    BY <1>t, <2>1, <2>2 DEF Free
<1>3. ASSUME NEW w \in Worker, Drop(w) \/ Die(w) PROVE PoolLimits'
    BY <1>t, <1>3, FailLimits DEF Drop, Die
<1>4. CASE PumpStops
    BY <1>t, <1>c, <1>4 DEF PumpStops, Free
<1>5. ASSUME NEW w \in Worker, PumpAssigns(w) PROVE PoolLimits'
    BY <1>t, <1>5 DEF PumpAssigns
<1>6. ASSUME NEW w \in Worker, PumpSpawns(w) PROVE PoolLimits'
  <2>1. Cardinality(slots') = Cardinality(slots) + 1
    BY <1>t, <1>6, FS_AddElement DEF PoolTypes, PumpSpawns, Threads
  <2> QED
    BY <1>t, <1>c, <1>6, <2>1 DEF PumpSpawns
<1>7. CASE PumpCannotSpawn
    BY <1>t, <1>7 DEF PumpCannotSpawn
<1>8. ASSUME NEW w \in Worker, Send(w) \/ Work(w) PROVE PoolLimits'
  <2>1. UNCHANGED <<queue, slots, job, ending, pumping, closed>>
    BY <1>8 DEF Send, Work
  <2> QED
    BY <1>t, <2>1 DEF Free
<1>9. ASSUME NEW w \in Worker, Receive(w) PROVE PoolLimits'
  <2>0. UNCHANGED <<queue, closed>>
    BY <1>9 DEF Receive
  <2>1. CASE job[w] = Head(reply[w]).of
    BY <1>t, <1>9, <2>0, <2>1 DEF Receive
  <2>2. CASE job[w] # Head(reply[w]).of /\ w \in slots
    BY <1>t, <1>9, <2>0, <2>2, FailLimits DEF Receive
  <2>3. CASE job[w] # Head(reply[w]).of /\ w \notin slots
    <3>1. UNCHANGED <<slots, ending, job, pumping>>
      BY <1>9, <2>3 DEF Receive
    <3> QED
      BY <1>t, <2>0, <3>1 DEF Free
  <2> QED
    BY <2>1, <2>2, <2>3
<1>10. ASSUME NEW w \in Worker, Terminated(w) PROVE PoolLimits'
    BY <1>t, <1>10 DEF Terminated
<1>11. CASE Close
  <2>1. Cardinality({}) = 0
    BY FS_EmptySet
  <2> QED
    BY <1>t, <1>c, <1>11, <2>1 DEF Close
<1>12. CASE UNCHANGED poolVars
    BY <1>t, <1>12 DEF poolVars, Free
<1> QED
    BY <1>1, <1>2, <1>3, <1>4, <1>5, <1>6, <1>7, <1>8, <1>9, <1>10, <1>11, <1>12 DEF PoolNext, Pump

\* What is between the pool and a worker changes with nothing else.
LEMMA FlowStays ==
    ASSUME NEW w, job'[w] = job[w], sent'[w] = sent[w], box'[w] = box[w], partial'[w] = partial[w],
           reply'[w] = reply[w], Flow(w)
    PROVE  Flow(w)'
BY DEF Flow, Quiet, Replied, Sending, Taken, IsMessage

\* Every step keeps what is on its way to a worker and back in order.
LEMMA FlowKept == PoolInv /\ [PoolNext]_poolVars => (\A w \in slots : Flow(w))'
<1> SUFFICES ASSUME PoolInv, [PoolNext]_poolVars, NEW w \in slots' PROVE Flow(w)'
    OBVIOUS
<1>t. PoolTypes /\ \A v \in slots : Flow(v)
    BY DEF PoolInv
<1>q. Idle \notin Request /\ \A r \in Request : Chunks[r] \in Nat \ {0}
    BY IdleAssumption, ChunkAssumption
<1>u. slots' \subseteq slots /\ UNCHANGED <<job, sent, box, partial, reply>> => Flow(w)'
    BY <1>t, FlowStays
<1>v. ASSUME NEW v \in Worker, w # v, w \in slots, \A u \in Worker : u # v =>
                job'[u] = job[u] /\ sent'[u] = sent[u] /\ box'[u] = box[u]
                /\ partial'[u] = partial[u] /\ reply'[u] = reply[u]
      PROVE  Flow(w)'
    BY <1>t, <1>v, FlowStays DEF PoolTypes
<1>1. ASSUME NEW r \in Request, RunRefused(r) \/ RunQueued(r) \/ CancelQueued(r) PROVE Flow(w)'
    BY <1>1, <1>u DEF RunRefused, RunQueued, CancelQueued
<1>2. ASSUME NEW v \in Worker, Drop(v) PROVE Flow(w)'
    BY <1>2, <1>u DEF Drop, Fail
<1>3. ASSUME NEW v \in Worker, Die(v) PROVE Flow(w)'
  <2>1. w # v /\ w \in slots /\ box' = [box EXCEPT ![v] = <<>>] /\ UNCHANGED <<job, sent, partial, reply>>
    BY <1>3 DEF Die, Fail
  <2> QED
    BY <2>1, <1>t, <1>v DEF PoolTypes
<1>4. CASE PumpStops \/ PumpCannotSpawn
    BY <1>4, <1>u DEF PumpStops, PumpCannotSpawn
<1>5. ASSUME NEW v \in Worker, PumpAssigns(v) \/ PumpSpawns(v) PROVE Flow(w)'
  <2>1. /\ job' = [job EXCEPT ![v] = Head(queue)] /\ sent' = [sent EXCEPT ![v] = 0] /\ slots' = slots \cup {v}
        /\ queue # <<>> /\ queue \in Seq(Request)
    BY <1>t, <1>5 DEF PumpAssigns, PumpSpawns, Take, Free, PoolTypes
  <2>2. /\ box' = [box EXCEPT ![v] = <<>>] \/ box' = box
        /\ partial' = [partial EXCEPT ![v] = Idle] \/ partial' = partial
        /\ reply' = [reply EXCEPT ![v] = <<>>] \/ reply' = reply
    BY <1>5 DEF PumpAssigns, PumpSpawns
  <2>3. CASE w # v
    <3>1. w \in slots
      BY <2>1, <2>3
    <3> QED
      BY <2>1, <2>2, <2>3, <3>1, <1>t, <1>v DEF PoolTypes
  <2>4. CASE w = v
    <3>1. box'[v] = <<>> /\ partial'[v] = Idle /\ reply'[v] = <<>>
      <4>1. CASE PumpAssigns(v)
        BY <4>1, <1>t DEF PumpAssigns, Free, Flow, Quiet
      <4>2. CASE PumpSpawns(v)
        BY <4>2, <1>t DEF PumpSpawns, PoolTypes
      <4> QED
        BY <4>1, <4>2, <1>5
    <3>2. job'[v] = Head(queue) /\ sent'[v] = 0 /\ Head(queue) \in Request
      <4>1. Head(queue) \in Request
        BY <2>1, HeadTailProperties
      <4> QED
        BY <2>1, <4>1, <1>t DEF PoolTypes
    <3>a. Len(box'[v]) = 0
      BY <3>1
    <3>3. Taken(v)' = 0 /\ Len(box'[v]) = 0
      BY <3>2, <3>a DEF Taken
    <3>4. Sending(v)'
      BY <3>1, <3>2, <3>3, <1>q DEF Sending
    <3> QED
      BY <2>4, <3>2, <3>4, <1>q DEF Flow
  <2> QED
    BY <2>3, <2>4
<1>6. ASSUME NEW v \in Worker, Send(v) PROVE Flow(w)'
  <2> DEFINE m == [of |-> job[v], append |-> sent[v] > 0, complete |-> sent[v] + 1 = Chunks[job[v]]]
  <2>1. /\ v \in slots /\ job[v] # Idle /\ sent[v] < Chunks[job[v]] /\ slots' = slots
        /\ sent' = [sent EXCEPT ![v] = sent[v] + 1] /\ box' = [box EXCEPT ![v] = Append(box[v], m)]
        /\ UNCHANGED <<job, partial, reply>>
    BY <1>6 DEF Send
  <2>2. CASE w # v
    BY <2>1, <2>2, <1>t, <1>v DEF PoolTypes
  <2>3. CASE w = v
    <3>a. job[v] \in Request /\ sent[v] \in Nat /\ box[v] \in Seq(RowMessage)
      BY <1>t, <2>1 DEF PoolTypes
    <3>b. m \in RowMessage
      BY <3>a DEF RowMessage
    <3>0. job[v] \in Request /\ Chunks[job[v]] \in Nat /\ sent[v] \in Nat /\ box[v] \in Seq(RowMessage) /\ m \in RowMessage
      BY <3>a, <3>b, <1>q
    <3>1. ~ Replied(v)
      BY <2>1, <3>0 DEF Replied
    <3>2. Sending(v)
      BY <1>t, <2>1, <3>1 DEF Flow
    <3>3. IsMessage(m, job[v], sent[v] + 1)
      <4>1. sent[v] > 0 <=> sent[v] + 1 > 1
        BY <3>0
      <4>2. m.of = job[v] /\ m.append = (sent[v] > 0) /\ m.complete = (sent[v] + 1 = Chunks[job[v]])
        OBVIOUS
      <4> HIDE DEF m
      <4> QED
        BY <4>1, <4>2 DEF IsMessage
    <3> HIDE DEF m
    <3>4. /\ Len(Append(box[v], m)) = Len(box[v]) + 1 /\ Len(box[v]) \in Nat
          /\ \A k \in 1 .. Len(box[v]) : Append(box[v], m)[k] = box[v][k]
          /\ Append(box[v], m)[Len(box[v]) + 1] = m
      BY <3>0, AppendProperties
    <3>5. box'[v] = Append(box[v], m) /\ sent'[v] = sent[v] + 1
      BY <1>t, <2>1 DEF PoolTypes
    <3>6. Taken(v)' = Taken(v) /\ Taken(v) + (Len(box[v]) + 1) = sent[v] + 1
      BY <3>0, <3>4, <3>5 DEF Taken
    <3>7. \A k \in 1 .. Len(box'[v]) : IsMessage(box'[v][k], job[v], Taken(v) + k)
      BY <3>2, <3>3, <3>4, <3>5, <3>6 DEF Sending
    <3>8. Sending(v)'
      BY <2>1, <3>0, <3>2, <3>5, <3>6, <3>7 DEF Sending, IsMessage
    <3> QED
      BY <2>1, <2>3, <3>8 DEF Flow
  <2> QED
    BY <2>2, <2>3
<1>8. ASSUME NEW v \in Worker, Receive(v) PROVE Flow(w)'
  <2>0. /\ reply' = [reply EXCEPT ![v] = Tail(reply[v])] /\ reply[v] # <<>> /\ UNCHANGED <<sent, box, partial>>
        /\ slots' \subseteq slots
    BY <1>8 DEF Receive, Fail
  <2>1. job' = job \/ job' = [job EXCEPT ![v] = Idle]
    BY <1>8 DEF Receive, Fail
  <2>2. CASE w # v
    BY <2>0, <2>1, <2>2, <1>t, <1>v DEF PoolTypes
  <2>3. CASE w = v
    <3>1. Replied(v)
      BY <1>t, <2>0, <2>3 DEF Flow, Quiet, Sending
    <3>2. Head(reply[v]).of = job[v] /\ Tail(reply[v]) = <<>>
      <4>1. reply[v] \in Seq(RowReply)
        BY <1>t DEF PoolTypes
      <4>2. Head(reply[v]) = reply[v][1] /\ Tail(reply[v]) \in Seq(RowReply) /\ Len(Tail(reply[v])) = 0
        BY <2>0, <3>1, <4>1, HeadTailProperties DEF Replied
      <4> QED
        BY <3>1, <4>2, EmptySeq DEF Replied
    <3>3. job'[v] = Idle /\ reply'[v] = <<>>
      BY <1>8, <1>t, <2>0, <3>2 DEF Receive, PoolTypes
    <3> QED
      BY <2>0, <2>3, <3>1, <3>3 DEF Flow, Quiet, Replied
  <2> QED
    BY <2>2, <2>3
<1>9. ASSUME NEW v \in Worker, Terminated(v) PROVE Flow(w)'
  <2>1. w # v /\ w \in slots /\ job' = [job EXCEPT ![v] = Idle] /\ UNCHANGED <<sent, box, partial, reply>>
    BY <1>t, <1>9 DEF Terminated, PoolTypes
  <2> QED
    BY <2>1, <1>t, <1>v DEF PoolTypes
<1>10. CASE Close
    BY <1>10 DEF Close
<1>11. CASE UNCHANGED poolVars
    BY <1>11, <1>u DEF poolVars
<1>7. ASSUME NEW v \in Worker, Work(v) PROVE Flow(w)'
  <2> DEFINE m == Head(box[v])
             orphan == m.append /\ partial[v] # m.of
  <2>1. /\ slots' = slots /\ UNCHANGED <<job, sent>> /\ box[v] # <<>> /\ box[v] \in Seq(RowMessage)
        /\ box' = [box EXCEPT ![v] = Tail(box[v])]
        /\ partial' = [partial EXCEPT ![v] = IF orphan THEN partial[v] ELSE IF m.complete THEN Idle ELSE m.of]
        /\ \E ok \in BOOLEAN :
              reply' = [reply EXCEPT ![v] = IF m.complete \/ orphan THEN Append(reply[v], [of |-> m.of, ok |-> ok]) ELSE reply[v]]
    BY <1>7, <1>t DEF Work, PoolTypes
  <2>2. CASE w # v
    BY <2>1, <2>2, <1>t, <1>v DEF PoolTypes
  <2>3. CASE w = v
    <3>0. job[v] \in Request \cup {Idle} /\ sent[v] \in Nat /\ Len(box[v]) \in Nat
      BY <1>t, <2>1 DEF PoolTypes
    <3>1. job[v] # Idle /\ Sending(v) /\ v \in slots
      BY <1>t, <2>1, <2>3 DEF Flow, Quiet, Replied
    <3>2. /\ Len(Tail(box[v])) = Len(box[v]) - 1 /\ Len(box[v]) >= 1
          /\ \A k \in 1 .. Len(box[v]) - 1 : Tail(box[v])[k] = box[v][k + 1]
          /\ m = box[v][1]
      <4>1. Len(box[v]) >= 1
        BY <2>1, <3>0, EmptySeq
      <4> QED
        BY <2>1, <3>0, <4>1, HeadTailProperties
    <3>3. IsMessage(m, job[v], Taken(v) + 1)
      BY <3>0, <3>1, <3>2 DEF Sending
    <3>a. job[v] \in Request /\ Chunks[job[v]] \in Nat /\ Taken(v) \in Nat /\ Taken(v) < Chunks[job[v]]
          /\ sent[v] <= Chunks[job[v]] /\ Taken(v) = sent[v] - Len(box[v])
      BY <3>0, <3>1, <1>q DEF Sending, Taken
    <3>4. ~ orphan
      BY <3>1, <3>3, <3>a DEF IsMessage, Sending
    <3> HIDE DEF m, orphan
    <3>5. /\ box'[v] = Tail(box[v]) /\ partial'[v] = IF m.complete THEN Idle ELSE m.of
          /\ \E ok \in BOOLEAN : reply'[v] = IF m.complete THEN Append(reply[v], [of |-> m.of, ok |-> ok]) ELSE reply[v]
      BY <1>t, <2>1, <3>4 DEF PoolTypes
    <3>6. Taken(v)' = Taken(v) + 1
      BY <3>0, <3>2, <3>5, <2>1 DEF Taken
    <3>7. CASE m.complete
      <4>1. Taken(v) + 1 = Chunks[job[v]] /\ m.of = job[v]
        BY <3>3, <3>7 DEF IsMessage
      <4>2. sent[v] = Chunks[job[v]] /\ Len(Tail(box[v])) = 0
        <5>1. \A c, n, l, k \in Nat : n <= c /\ k = n - l /\ l >= 1 /\ k + 1 = c => n = c /\ l - 1 = 0
          OBVIOUS
        <5>2. Len(Tail(box[v])) = Len(box[v]) - 1 /\ Len(box[v]) >= 1
          BY <3>2
        <5> QED
          BY <5>1, <5>2, <3>0, <3>a, <4>1
      <4>3. Tail(box[v]) = <<>>
        <5>1. Tail(box[v]) \in Seq(RowMessage)
          BY <2>1, HeadTailProperties
        <5> QED
          BY <5>1, <4>2, EmptySeq
      <4>4. reply[v] = <<>>
        BY <3>1 DEF Sending
      <4>5. Len(reply'[v]) = 1 /\ reply'[v][1].of = job[v]
        BY <3>5, <3>7, <4>1, <4>4
      <4>6. Replied(v)'
        BY <2>1, <3>5, <3>7, <4>2, <4>3, <4>5 DEF Replied
      <4> QED
        BY <2>1, <2>3, <3>1, <4>6 DEF Flow
    <3>8. CASE ~ m.complete
      <4>1. Taken(v) + 1 # Chunks[job[v]] /\ m.of = job[v]
        BY <3>3, <3>8 DEF IsMessage
      <4>2. reply'[v] = <<>> /\ partial'[v] = job[v]
        BY <3>1, <3>5, <3>8, <4>1 DEF Sending
      <4>3. ASSUME NEW k \in 1 .. Len(Tail(box[v])) PROVE IsMessage(Tail(box[v])[k], job[v], (Taken(v) + 1) + k)
        <5>1. k + 1 \in 1 .. Len(box[v]) /\ k \in 1 .. Len(box[v]) - 1 /\ Taken(v) + (k + 1) = (Taken(v) + 1) + k
          BY <3>0, <3>2, <3>a
        <5> QED
          BY <3>1, <3>2, <5>1 DEF Sending
      <4>4. Sending(v)'
        <5>1. 0 <= Taken(v)' /\ Taken(v)' < Chunks[job[v]] /\ Taken(v)' # 0
          BY <3>6, <3>a, <4>1
        <5>2. \A k \in 1 .. Len(box'[v]) : IsMessage(box'[v][k], job[v], Taken(v)' + k)
          BY <3>5, <3>6, <4>3
        <5>3. job'[v] = job[v] /\ sent'[v] = sent[v]
          BY <2>1
        <5> QED
          BY <3>a, <4>2, <5>1, <5>2, <5>3 DEF Sending, IsMessage
      <4> QED
        BY <2>1, <2>3, <3>1, <4>4 DEF Flow
    <3> QED
      BY <3>7, <3>8
  <2> QED
    BY <2>2, <2>3
<1> QED
    BY <1>1, <1>2, <1>3, <1>4, <1>5, <1>6, <1>7, <1>8, <1>9, <1>10, <1>11 DEF PoolNext, Pump

\* A request of the pool is in one place until it is answered, with the answer to it, and the
\* pool keeps its limits, for any number of requests, workers and chunks of rows.
THEOREM RequestsKept == PoolSpec => []PoolKeepsRequests
<1>1. ASSUME PoolInv PROVE PoolKeepsRequests
  <2>1. PoolTypes /\ PoolPlaced /\ PoolLimits /\ \A w \in slots : Flow(w)
    BY <1>1 DEF PoolInv
  <2>2. \A r : InQueue(r) <=> r \in ToSet(queue)
    BY <2>1, PoolQueueIs DEF InQueue
  <2>3. Placed
    BY <2>1, <2>2 DEF Placed, PoolPlaced, PoolTypes, Distinct
  <2>4. ASSUME NEW w \in slots, NEW i \in 1 .. Len(reply[w]) PROVE reply[w][i].of = job[w]
    <3>1. CASE reply[w] = <<>>
      BY <3>1
    <3>2. CASE Replied(w)
      <4>1. i = 1
        BY <3>2 DEF Replied
      <4> QED
        BY <3>2, <4>1 DEF Replied
    <3> QED
      BY <2>1, <3>1, <3>2 DEF Flow, Quiet, Sending
  <2> QED
    BY <2>1, <2>3, <2>4 DEF PoolKeepsRequests, PoolPlaced, PoolLimits, RepliesMatch
<1>2. PoolInv /\ [PoolNext]_poolVars => PoolInv'
    BY PoolTypesKept, PoolPlacedKept, PoolLimitsKept, FlowKept DEF PoolInv
<1> QED
    BY PoolStarts, <1>1, <1>2, PTL DEF PoolSpec

-----------------------------------------------------------------------------
(* The pitch clustering *)

\* The clustering calls.
FitTypes ==
    /\ fit \in [Fit -> {"none", "waiting", "resolved", "rejected", "refused"}]
    /\ fitQueue \in Seq(Fit) /\ Distinct(fitQueue)
    /\ active \subseteq Fit /\ IsFiniteSet(active)
    /\ thread \in [Fit -> {"none", "busy", "stopping", "gone"}]
    /\ posted \in [Fit -> {"none", "good", "bad"}]
    /\ fitPumping \in BOOLEAN /\ fitClosed \in BOOLEAN

\* Where a call is, and what its worker may still say.
FitPlaced ==
    /\ \A f \in Fit :
          /\ f \in ToSet(fitQueue) => fit[f] = "waiting" /\ thread[f] = "none"
          /\ fit[f] = "waiting" => f \in ToSet(fitQueue) \/ f \in active
          /\ fit[f] = "none" => thread[f] = "none"
          /\ f \in active <=> thread[f] \in {"busy", "stopping"}
          /\ posted[f] # "none" => thread[f] = "stopping"
          /\ fit[f] = "resolved" => thread[f] = "gone" /\ f \in result \ failure
    /\ timer \subseteq active

FitLimits ==
    /\ Cardinality(active) <= MaxActive
    /\ FitTurn /\ fitQueue # <<>> => Cardinality(active) = MaxActive
    /\ fitClosed => fitQueue = <<>>

FitInv == FitTypes /\ FitPlaced /\ FitLimits

\* The invariant holds before the first call.
LEMMA FitStarts == FitInit => FitInv
<1> SUFFICES ASSUME FitInit PROVE FitInv
    OBVIOUS
<1> USE DEF FitInit
<1>1. IsFiniteSet({}) /\ Cardinality({}) = 0
    BY FS_EmptySet
<1>2. ToSet(fitQueue) = {} /\ Distinct(fitQueue)
    BY NoneQueued
<1>3. FitTypes
  <2>1. /\ fit \in [Fit -> {"none", "waiting", "resolved", "rejected", "refused"}]
        /\ thread \in [Fit -> {"none", "busy", "stopping", "gone"}] /\ posted \in [Fit -> {"none", "good", "bad"}]
        /\ fitQueue \in Seq(Fit)
    OBVIOUS
  <2> QED
    BY <1>1, <1>2, <2>1 DEF FitTypes
<1>4. FitPlaced
    BY <1>2 DEF FitPlaced
<1>5. FitLimits
    BY <1>1, FitLimitAssumption DEF FitLimits
<1> QED
    BY <1>3, <1>4, <1>5 DEF FitInv

\* The queue of the calls, as a sequence and as a set.
LEMMA FitQueueIs ==
    ASSUME FitTypes
    PROVE  /\ fitQueue = <<>> <=> ToSet(fitQueue) = {}
           /\ ToSet(fitQueue) \subseteq Fit /\ Len(fitQueue) \in Nat
           /\ Cardinality(active) \in Nat
BY QueuedAt, FS_CardinalityType DEF FitTypes

\* Every step of the clustering keeps its invariant.
LEMMA FitStep == FitInv /\ [FitNext]_fitVars => FitInv'
<1> SUFFICES ASSUME FitInv, [FitNext]_fitVars PROVE FitInv'
    OBVIOUS
<1>t. FitTypes /\ FitPlaced /\ FitLimits
    BY DEF FitInv
<1>q. /\ fitQueue = <<>> <=> ToSet(fitQueue) = {}
      /\ ToSet(fitQueue) \subseteq Fit /\ Len(fitQueue) \in Nat /\ Cardinality(active) \in Nat
      /\ MaxActive \in Nat
    BY <1>t, FitQueueIs, FitLimitAssumption
<1>e. ToSet(<<>>) = {} /\ Distinct(<<>>)
    BY NoneQueued
<1> USE DEF FitTurn
<1>1. ASSUME NEW f \in Fit, FitRefused(f) PROVE FitInv'
  <2>1. FitTypes'
    BY <1>t, <1>1 DEF FitTypes, FitRefused
  <2>2. FitPlaced'
    BY <1>t, <1>q, <1>1 DEF FitTypes, FitPlaced, FitRefused
  <2>3. FitLimits'
    BY <1>t, <1>1 DEF FitLimits, FitRefused
  <2> QED
    BY <2>1, <2>2, <2>3 DEF FitInv
<1>2. ASSUME NEW f \in Fit, FitQueued(f) PROVE FitInv'
  <2>0. f \notin ToSet(fitQueue)
    BY <1>t, <1>2 DEF FitPlaced, FitQueued
  <2>a. fitQueue' \in Seq(Fit) /\ Distinct(fitQueue') /\ ToSet(fitQueue') = ToSet(fitQueue) \cup {f}
    BY <2>0, <1>t, <1>2, Enqueued DEF FitTypes, FitQueued
  <2>1. FitTypes'
    BY <1>t, <1>2, <2>a DEF FitTypes, FitQueued
  <2>2. FitPlaced'
    BY <1>t, <1>q, <1>2, <2>a DEF FitTypes, FitPlaced, FitQueued
  <2>3. FitLimits'
    BY <1>t, <1>2 DEF FitLimits, FitQueued
  <2> QED
    BY <2>1, <2>2, <2>3 DEF FitInv
<1>3. CASE StartStops
  <2>1. FitTypes'
    BY <1>t, <1>3 DEF FitTypes, StartStops
  <2>2. FitPlaced'
    BY <1>t, <1>3 DEF FitPlaced, StartStops
  <2>3. FitLimits'
    BY <1>t, <1>q, <1>3 DEF FitLimits, StartStops, MayStart
  <2> QED
    BY <2>1, <2>2, <2>3 DEF FitInv
<1>4. CASE Start
  <2> DEFINE f == Head(fitQueue)
  <2>0. fitQueue # <<>> /\ fitQueue \in Seq(Fit) /\ Distinct(fitQueue)
    BY <1>t, <1>4 DEF Start, MayStart, FitTypes
  <2>a. /\ fitQueue' \in Seq(Fit) /\ Distinct(fitQueue')
        /\ ToSet(fitQueue') = ToSet(fitQueue) \ {f} /\ f \in ToSet(fitQueue)
    BY <2>0, <1>4, Dequeued DEF Start
  <2>b. f \in Fit /\ fit[f] = "waiting" /\ thread[f] = "none" /\ f \notin active
    BY <2>a, <1>t, <1>q DEF FitPlaced
  <2>c. /\ active' = active \cup {f} /\ thread' = [thread EXCEPT ![f] = "busy"] /\ timer' = timer \cup {f}
        /\ UNCHANGED <<fit, posted, result, failure, fitPumping, fitClosed>> /\ fitPumping
        /\ ~ fitClosed /\ Cardinality(active) < MaxActive
    BY <1>4 DEF Start, MayStart
  <2>d. IsFiniteSet(active') /\ Cardinality(active') = Cardinality(active) + 1
    BY <2>b, <2>c, <1>t, FS_AddElement DEF FitTypes
  <2> HIDE DEF f
  <2>1. FitTypes'
    BY <1>t, <2>a, <2>b, <2>c, <2>d DEF FitTypes
  <2>2. FitPlaced'
    BY <1>t, <1>q, <2>a, <2>b, <2>c DEF FitTypes, FitPlaced
  <2>3. FitLimits'
    BY <1>t, <1>q, <2>c, <2>d DEF FitLimits
  <2> QED
    BY <2>1, <2>2, <2>3 DEF FitInv
<1>5. CASE CannotStart
  <2> DEFINE f == Head(fitQueue)
  <2>0. fitQueue # <<>> /\ fitQueue \in Seq(Fit) /\ Distinct(fitQueue)
    BY <1>t, <1>5 DEF CannotStart, MayStart, FitTypes
  <2>a. /\ fitQueue' \in Seq(Fit) /\ Distinct(fitQueue')
        /\ ToSet(fitQueue') = ToSet(fitQueue) \ {f} /\ f \in ToSet(fitQueue)
    BY <2>0, <1>5, Dequeued DEF CannotStart
  <2>b. f \in Fit /\ fit[f] = "waiting" /\ thread[f] = "none"
    BY <2>a, <1>t, <1>q DEF FitPlaced
  <2>c. /\ fit' = [fit EXCEPT ![f] = "rejected"]
        /\ UNCHANGED <<active, thread, posted, result, failure, timer, fitPumping, fitClosed>> /\ fitPumping
        /\ ~ fitClosed
    BY <1>5, <2>b, <1>t DEF CannotStart, MayStart, Settled, FitTypes
  <2> HIDE DEF f
  <2>1. FitTypes'
    BY <1>t, <2>a, <2>b, <2>c DEF FitTypes
  <2>2. FitPlaced'
    BY <1>t, <1>q, <2>a, <2>b, <2>c DEF FitTypes, FitPlaced
  <2>3. FitLimits'
    BY <1>t, <1>q, <2>c DEF FitLimits
  <2> QED
    BY <2>1, <2>2, <2>3 DEF FitInv
<1>6. ASSUME NEW f \in Fit, TimedOut(f) \/ Post(f) \/ Break(f) \/ Message(f) PROVE FitInv'
  <2> USE DEF Stop
  <2>1. FitTypes'
    BY <1>t, <1>6 DEF FitTypes, TimedOut, Post, Break, Message
  <2>2. FitPlaced'
    <3>1. CASE TimedOut(f)
      BY <1>t, <3>1 DEF FitTypes, FitPlaced, TimedOut
    <3>2. CASE Post(f)
      BY <1>t, <3>2 DEF FitTypes, FitPlaced, Post
    <3>3. CASE Break(f)
      BY <1>t, <3>3 DEF FitTypes, FitPlaced, Break
    <3>4. CASE Message(f)
      BY <1>t, <3>4 DEF FitTypes, FitPlaced, Message
    <3> QED
      BY <3>1, <3>2, <3>3, <3>4, <1>6
  <2>3. FitLimits'
    BY <1>t, <1>6 DEF FitLimits, TimedOut, Post, Break, Message
  <2> QED
    BY <2>1, <2>2, <2>3 DEF FitInv
<1>7. ASSUME NEW f \in Fit, Exit(f) PROVE FitInv'
  <2>a. active' = active \ {f} /\ IsFiniteSet(active') /\ f \in active /\ Cardinality(active') = Cardinality(active) - 1
    BY <1>t, <1>7, FS_RemoveElement DEF FitTypes, Exit, FitPlaced
  <2>1. FitTypes'
    BY <1>t, <1>7, <2>a DEF FitTypes, Exit, Settled
  <2>2. FitPlaced'
    BY <1>t, <1>7, <2>a DEF FitTypes, FitPlaced, Exit, Settled
  <2>3. FitLimits'
    BY <1>t, <1>q, <1>7, <2>a DEF FitLimits, Exit
  <2> QED
    BY <2>1, <2>2, <2>3 DEF FitInv
<1>8. CASE FitClose
  <2>1. FitTypes'
    BY <1>t, <1>e, <1>8 DEF FitTypes, FitClose
  <2>2. FitPlaced'
    BY <1>t, <1>e, <1>8 DEF FitTypes, FitPlaced, FitClose
  <2>3. FitLimits'
    BY <1>t, <1>8 DEF FitLimits, FitClose
  <2> QED
    BY <2>1, <2>2, <2>3 DEF FitInv
<1>9. CASE UNCHANGED fitVars
  <2>1. FitTypes'
    BY <1>t, <1>9 DEF FitTypes, fitVars
  <2>2. FitPlaced'
    BY <1>t, <1>9 DEF FitPlaced, fitVars
  <2>3. FitLimits'
    BY <1>t, <1>9 DEF FitLimits, fitVars
  <2> QED
    BY <2>1, <2>2, <2>3 DEF FitInv
<1> QED
    BY <1>1, <1>2, <1>3, <1>4, <1>5, <1>6, <1>7, <1>8, <1>9 DEF FitNext, FitPump

\* A clustering call that is not answered waits or has a worker, and nobody waits while a place
\* is free, for any number of calls.
THEOREM FitCallsKept == FitSpec => []FitKeepsCalls
<1>1. ASSUME FitInv PROVE FitKeepsCalls
  <2>1. FitTypes /\ FitPlaced /\ FitLimits
    BY <1>1 DEF FitInv
  <2>2. ToSet(fitQueue) = {fitQueue[i] : i \in 1 .. Len(fitQueue)}
    BY <2>1, QueuedAt DEF FitTypes
  <2>3. active = {f \in Fit : thread[f] \in {"busy", "stopping"}}
    BY <2>1 DEF FitTypes, FitPlaced
  <2>4. \A f \in Fit : fit[f] = "waiting" => (\E i \in 1 .. Len(fitQueue) : fitQueue[i] = f) \/ f \in active
    BY <2>1, <2>2 DEF FitPlaced
  <2> QED
    BY <2>1, <2>3, <2>4 DEF FitPlaced, FitLimits, FitKeepsCalls
<1> QED
    BY FitStarts, FitStep, <1>1, PTL DEF FitSpec

-----------------------------------------------------------------------------
(* The coverage jobs *)

\* The tasks of the coverage.
Task == [key : SourceKey, state : {"preparing", "failed"}]
DistinctKeys(ts) == \A i, n \in 1 .. Len(ts) : ts[i].key = ts[n].key => i = n
Preparing(ts) == {ts[i].key : i \in {n \in 1 .. Len(ts) : ts[n].state = "preparing"}}
Tasks == {ts \in Seq(Task) : DistinctKeys(ts)}

CoverageTypes ==
    /\ tasks \in Tasks
    /\ scopes \in Seq(SourceKey) /\ Distinct(scopes)
    /\ preparing \in SourceKey \cup {0}
    /\ coverageEnds \in {"open", "aborted", "closed"}

CoveragePlaced ==
    /\ coverageEnds = "open" => Preparing(tasks) = ToSet(scopes) \cup ({preparing} \ {0})
    /\ preparing \notin ToSet(scopes) /\ (scopes # <<>> => preparing # 0)
    /\ coverageEnds # "open" => scopes = <<>>
    /\ coverageEnds = "closed" => preparing = 0 /\ tasks = <<>>

CoverageLimits == Len(tasks) <= MaxTasks /\ Len(scopes) <= MaxScopes

CoverageInv == CoverageTypes /\ CoveragePlaced /\ CoverageLimits

\* A task that is gone leaves the others as they are.
LEMMA TaskRemoved ==
    ASSUME NEW ts \in Tasks, NEW at \in 1 .. Len(ts)
    PROVE  /\ RemoveAt(ts, at) \in Tasks /\ Len(RemoveAt(ts, at)) = Len(ts) - 1
           /\ Preparing(RemoveAt(ts, at)) = Preparing(ts) \ {ts[at].key}
<1> DEFINE us == RemoveAt(ts, at)
<1>1. /\ us \in Seq(Task) /\ Len(us) = Len(ts) - 1 /\ Len(ts) \in Nat
      /\ \A k \in 1 .. Len(ts) - 1 : us[k] = IF k < at THEN ts[k] ELSE ts[k + 1]
    BY RemovedAt DEF Tasks
<1>2. at \in Nat /\ at >= 1 /\ at <= Len(ts) /\ DistinctKeys(ts)
    BY <1>1 DEF Tasks
<1> HIDE DEF us
<1>3. DistinctKeys(us)
    BY <1>1, <1>2 DEF DistinctKeys
<1>4. ASSUME NEW k \in 1 .. Len(us), us[k].state = "preparing"
      PROVE  us[k].key \in Preparing(ts) \ {ts[at].key}
  <2>1. \E n \in 1 .. Len(ts) : us[k] = ts[n] /\ n # at
    BY <1>1, <1>2, <1>4
  <2> QED
    BY <2>1, <1>2, <1>4 DEF Preparing, DistinctKeys
<1>5. ASSUME NEW k \in 1 .. Len(ts), ts[k].state = "preparing", k # at
      PROVE  ts[k].key \in Preparing(us)
  <2>1. \E n \in 1 .. Len(us) : us[n] = ts[k]
    <3>1. CASE k < at
      BY <3>1, <1>1, <1>2
    <3>2. CASE k > at
      <4>1. k - 1 \in 1 .. Len(us) /\ us[k - 1] = ts[k]
        BY <3>2, <1>1, <1>2
      <4> QED
        BY <4>1
    <3> QED
      BY <3>1, <3>2, <1>5, <1>2
  <2> QED
    BY <2>1, <1>5 DEF Preparing
<1>6. Preparing(us) = Preparing(ts) \ {ts[at].key}
  <2>1. Preparing(us) \subseteq Preparing(ts) \ {ts[at].key}
    BY <1>4 DEF Preparing
  <2>2. Preparing(ts) \ {ts[at].key} \subseteq Preparing(us)
    BY <1>5 DEF Preparing
  <2> QED
    BY <2>1, <2>2
<1> QED
    BY <1>1, <1>3, <1>6 DEF us, Tasks

\* A list of tasks without the task of a key.
LEMMA TaskDeleted ==
    ASSUME NEW ts \in Tasks, NEW k
    PROVE  /\ Deleted(ts, k) \in Tasks /\ Len(Deleted(ts, k)) <= Len(ts)
           /\ Preparing(Deleted(ts, k)) = Preparing(ts) \ {k}
<1> DEFINE found == {i \in 1 .. Len(ts) : ts[i].key = k}
<1>0. Len(ts) \in Nat
    BY DEF Tasks
<1>1. CASE found = {}
    BY <1>0, <1>1 DEF Deleted, Preparing
<1>2. CASE found # {}
  <2>1. PICK i \in found : Deleted(ts, k) = RemoveAt(ts, i)
    BY <1>2 DEF Deleted
  <2> QED
    BY <1>0, <2>1, TaskRemoved
<1> QED
    BY <1>1, <1>2

\* There is room for one more, as no more are prepared than may wait.
LEMMA RoomIsMade ==
    ASSUME NEW ts \in Tasks, Len(ts) <= MaxTasks, NEW s \in Seq(SourceKey), NEW k,
           Preparing(ts) \subseteq ToSet(s) \cup {k}, Len(s) < MaxScopes
    PROVE  Room(ts) \in Tasks /\ Len(Room(ts)) < MaxTasks /\ Preparing(Room(ts)) = Preparing(ts)
<1> DEFINE failed == {i \in 1 .. Len(ts) : ts[i].state = "failed"}
<1>0. Len(ts) \in Nat /\ ts \in Seq(Task) /\ DistinctKeys(ts) /\ Len(s) \in Nat
    BY DEF Tasks
<1>a. MaxScopes \in Nat /\ MaxTasks \in Nat /\ MaxScopes + 1 < MaxTasks
    BY ScopeAssumption
<1>1. CASE Len(ts) < MaxTasks
    BY <1>1 DEF Room
<1>2. CASE ~ (Len(ts) < MaxTasks)
  <2>1. failed # {}
    <3> SUFFICES ASSUME failed = {} PROVE FALSE
      OBVIOUS
    <3>0. \A i \in 1 .. Len(ts) : ts[i] \in Task /\ ts[i].state # "failed"
      BY <1>0
    <3>1. \A i \in 1 .. Len(ts) : ts[i].state = "preparing"
      BY <3>0 DEF Task
    <3>2. \A i \in 1 .. Len(ts) : ts[i].key \in ToSet(s) \cup {k}
      BY <3>1 DEF Preparing
    <3> DEFINE f == [i \in 1 .. Len(ts) |-> ts[i].key]
    <3>3. f \in [1 .. Len(ts) -> ToSet(s) \cup {k}]
      BY <3>2
    <3>4. IsFiniteSet(ToSet(s) \cup {k}) /\ Cardinality(ToSet(s) \cup {k}) <= Len(s) + 1
      BY SeqIsFinite
    <3>5. IsFiniteSet(1 .. Len(ts)) /\ Cardinality(1 .. Len(ts)) = Len(ts)
      <4>1. Len(ts) \in Nat
        BY <1>0
      <4> QED
        BY <4>1, FirstNumbers
    <3>6. Cardinality(ToSet(s) \cup {k}) < Cardinality(1 .. Len(ts))
      BY <1>0, <1>a, <1>2, <3>4, <3>5, FS_CardinalityType
    <3>7. \E x, y \in 1 .. Len(ts) : x # y /\ f[x] = f[y]
      <4> DEFINE D == 1 .. Len(ts)
                 R == ToSet(s) \cup {k}
      <4>1. IsFiniteSet(D) /\ IsFiniteSet(R) /\ Cardinality(R) < Cardinality(D) /\ f \in [D -> R]
        BY <3>3, <3>4, <3>5, <3>6
      <4> HIDE DEF D, R, f
      <4>2. \E x, y \in D : x # y /\ f[x] = f[y]
        BY <4>1, FS_PigeonHole
      <4> QED
        BY <4>2 DEF D
    <3> QED
      BY <3>7, <1>0 DEF DistinctKeys
  <2>2. \E i \in failed : \A n \in failed : i <= n
    <3>1. failed \subseteq Nat
      OBVIOUS
    <3> QED
      BY <2>1, <3>1, FirstExists
  <2>3. PICK i \in failed : Room(ts) = Deleted(ts, ts[i].key)
    BY <1>2, <2>1, <2>2 DEF Room
  <2>4. ts[i].key \notin Preparing(ts)
    BY <2>3, <1>0 DEF Preparing, DistinctKeys
  <2>5. Deleted(ts, ts[i].key) = RemoveAt(ts, i)
    BY <2>3, <1>0 DEF Deleted, DistinctKeys
  <2>6. /\ RemoveAt(ts, i) \in Tasks /\ Len(RemoveAt(ts, i)) = Len(ts) - 1
        /\ Preparing(RemoveAt(ts, i)) = Preparing(ts) \ {ts[i].key}
    BY <2>3, TaskRemoved
  <2> QED
    BY <2>3, <2>4, <2>5, <2>6, <1>0, <1>a
<1> QED
    BY <1>1, <1>2

\* A list of tasks in which the task of a key is set, in its place or at the end.
LEMMA TaskSet ==
    ASSUME NEW ts \in Tasks, NEW k \in SourceKey
    PROVE  /\ WithTask(ts, k) \in Tasks /\ Len(WithTask(ts, k)) <= Len(ts) + 1
           /\ Preparing(WithTask(ts, k)) = Preparing(ts) \cup {k}
<1> DEFINE new == [key |-> k, state |-> "preparing"]
           us == WithTask(ts, k)
<1>0. Len(ts) \in Nat /\ ts \in Seq(Task) /\ DistinctKeys(ts) /\ new \in Task
    BY DEF Tasks, Task
<1>1. CASE \E i \in 1 .. Len(ts) : ts[i].key = k
  <2>1. us = [i \in 1 .. Len(ts) |-> IF ts[i].key = k THEN new ELSE ts[i]]
    BY <1>1 DEF WithTask
  <2> HIDE DEF new, us
  <2>2. us \in Seq(Task) /\ Len(us) = Len(ts) /\ \A i \in 1 .. Len(ts) : us[i] = IF ts[i].key = k THEN new ELSE ts[i]
    BY <1>0, <2>1
  <2>3. \A i \in 1 .. Len(ts) : us[i].key = ts[i].key /\ us[i].state = IF ts[i].key = k THEN "preparing" ELSE ts[i].state
    BY <2>2 DEF new
  <2>4. DistinctKeys(us)
    BY <1>0, <2>2, <2>3 DEF DistinctKeys
  <2>5. Preparing(us) = Preparing(ts) \cup {k}
    BY <1>1, <2>2, <2>3 DEF Preparing
  <2> QED
    BY <1>0, <2>2, <2>4, <2>5 DEF us, Tasks
<1>2. CASE ~ \E i \in 1 .. Len(ts) : ts[i].key = k
  <2>1. us = Append(ts, new)
    BY <1>2 DEF WithTask
  <2>2. new.key = k /\ new.state = "preparing"
    OBVIOUS
  <2> HIDE DEF new, us
  <2>3. /\ us \in Seq(Task) /\ Len(us) = Len(ts) + 1 /\ us[Len(ts) + 1] = new
        /\ \A i \in 1 .. Len(ts) : us[i] = ts[i]
    BY <1>0, <2>1, AppendProperties
  <2>4. 1 .. Len(us) = 1 .. Len(ts) \cup {Len(ts) + 1}
    BY <1>0, <2>3
  <2>5. DistinctKeys(us)
    BY <1>0, <1>2, <2>2, <2>3, <2>4 DEF DistinctKeys
  <2>6. Preparing(us) = Preparing(ts) \cup {k}
    <3>1. Preparing(us) \subseteq Preparing(ts) \cup {k}
      BY <2>2, <2>3, <2>4 DEF Preparing
    <3>2. Preparing(ts) \cup {k} \subseteq Preparing(us)
      BY <2>2, <2>3, <2>4 DEF Preparing
    <3> QED
      BY <3>1, <3>2
  <2> QED
    BY <1>0, <2>3, <2>5, <2>6 DEF us, Tasks
<1> QED
    BY <1>1, <1>2

\* A task that failed is not prepared any more.
LEMMA TaskFails ==
    ASSUME NEW ts \in Tasks, NEW k
    PROVE  LET us == [i \in 1 .. Len(ts) |-> IF ts[i].key = k THEN [ts[i] EXCEPT !.state = "failed"] ELSE ts[i]]
           IN us \in Tasks /\ Len(us) = Len(ts) /\ Preparing(us) = Preparing(ts) \ {k}
<1> DEFINE us == [i \in 1 .. Len(ts) |-> IF ts[i].key = k THEN [ts[i] EXCEPT !.state = "failed"] ELSE ts[i]]
<1>0. Len(ts) \in Nat /\ ts \in Seq(Task) /\ DistinctKeys(ts)
    BY DEF Tasks
<1>1. \A i \in 1 .. Len(ts) : ts[i] \in Task
    BY <1>0
<1>2. \A i \in 1 .. Len(ts) : us[i] \in Task /\ us[i].key = ts[i].key
                              /\ us[i].state = IF ts[i].key = k THEN "failed" ELSE ts[i].state
    BY <1>1 DEF Task
<1>3. us \in Seq(Task) /\ Len(us) = Len(ts)
    BY <1>0, <1>2
<1> HIDE DEF us
<1>4. DistinctKeys(us)
    BY <1>0, <1>2, <1>3 DEF DistinctKeys
<1>5. Preparing(us) = Preparing(ts) \ {k}
    BY <1>2, <1>3 DEF Preparing
<1> QED
    BY <1>3, <1>4, <1>5 DEF Tasks, us

\* The state of a task is the one its place in the list has.
LEMMA StateIs ==
    ASSUME NEW k, tasks \in Tasks
    PROVE  TaskState(k) = "preparing" <=> k \in Preparing(tasks)
<1>0. Len(tasks) \in Nat /\ tasks \in Seq(Task) /\ DistinctKeys(tasks)
    BY DEF Tasks
<1>1. CASE \E i \in 1 .. Len(tasks) : tasks[i].key = k
  <2>1. PICK i \in 1 .. Len(tasks) : tasks[i].key = k
    BY <1>1
  <2>2. \A n \in 1 .. Len(tasks) : tasks[n].key = k => n = i
    BY <2>1, <1>0 DEF DistinctKeys
  <2>3. (CHOOSE t \in {tasks[n] : n \in 1 .. Len(tasks)} : t.key = k) = tasks[i]
    BY <2>1, <2>2
  <2> QED
    BY <1>1, <2>1, <2>2, <2>3 DEF TaskState, Preparing
<1>2. CASE ~ \E i \in 1 .. Len(tasks) : tasks[i].key = k
    BY <1>2 DEF TaskState, Preparing
<1> QED
    BY <1>1, <1>2

\* The invariant holds of a server that has no task.
LEMMA CoverageStarts == CoverageInit => CoverageInv
<1> SUFFICES ASSUME CoverageInit PROVE CoverageInv
    OBVIOUS
<1> USE NoneQueued DEF CoverageInit
<1>1. tasks \in Tasks /\ Preparing(tasks) = {}
    BY DEF Tasks, DistinctKeys, Preparing
<1>2. CoverageTypes
    BY <1>1 DEF CoverageTypes
<1>3. CoveragePlaced
    BY <1>1 DEF CoveragePlaced
<1>4. CoverageLimits
    BY ScopeAssumption DEF CoverageLimits
<1> QED
    BY <1>2, <1>3, <1>4 DEF CoverageInv

\* Every step of the coverage keeps its invariant.
LEMMA CoverageStep == CoverageInv /\ [CoverageNext]_coverageVars => CoverageInv'
<1> SUFFICES ASSUME CoverageInv, [CoverageNext]_coverageVars PROVE CoverageInv'
    OBVIOUS
<1>t. CoverageTypes /\ CoveragePlaced /\ CoverageLimits
    BY DEF CoverageInv
<1>q. /\ scopes = <<>> <=> ToSet(scopes) = {}
      /\ ToSet(scopes) \subseteq SourceKey /\ Len(scopes) \in Nat /\ Len(tasks) \in Nat
      /\ MaxScopes \in Nat /\ MaxTasks \in Nat /\ 0 \notin SourceKey /\ MaxScopes > 0
    BY <1>t, QueuedAt, ScopeAssumption DEF CoverageTypes, Tasks
<1>1. ASSUME NEW k \in SourceKey, Ensure(k) PROVE CoverageInv'
  <2>0. /\ coverageEnds = "open" /\ coverageEnds' = "open" /\ Len(scopes) < MaxScopes
        /\ tasks' = WithTask(Room(tasks), k) /\ TaskState(k) # "preparing"
    BY <1>1 DEF Ensure
  <2>1. k \notin ToSet(scopes) /\ k # preparing
    BY <1>t, <1>q, <2>0, StateIs DEF CoverageTypes, CoveragePlaced
  <2>2. Preparing(tasks) = ToSet(scopes) \cup ({preparing} \ {0})
    BY <1>t, <2>0 DEF CoveragePlaced
  <2>3. Room(tasks) \in Tasks /\ Len(Room(tasks)) < MaxTasks /\ Preparing(Room(tasks)) = Preparing(tasks)
    BY <1>t, <2>0, <2>2, RoomIsMade DEF CoverageTypes, CoverageLimits
  <2>4. tasks' \in Tasks /\ Len(tasks') <= MaxTasks /\ Preparing(tasks') = Preparing(tasks) \cup {k}
    <3>1. /\ tasks' \in Tasks /\ Len(tasks') <= Len(Room(tasks)) + 1
          /\ Preparing(tasks') = Preparing(Room(tasks)) \cup {k}
      BY <2>0, <2>3, TaskSet
    <3>2. Len(tasks') \in Nat /\ Len(Room(tasks)) \in Nat
      BY <3>1, <2>3 DEF Tasks
    <3> QED
      BY <1>q, <2>3, <3>1, <3>2
  <2> DEFINE q == Append(scopes, k)
  <2>5. q \in Seq(SourceKey) /\ Len(q) = Len(scopes) + 1 /\ ToSet(q) = ToSet(scopes) \cup {k} /\ Distinct(q)
    BY <1>t, <2>1, Enqueued DEF CoverageTypes
  <2>6. CASE preparing # 0
    <3>1. scopes' = q /\ UNCHANGED preparing
      BY <1>1, <2>6 DEF Ensure, PumpScopes
    <3> HIDE DEF q
    <3>2. CoverageTypes'
      BY <1>t, <2>0, <2>4, <2>5, <3>1 DEF CoverageTypes
    <3>3. CoveragePlaced'
      BY <1>t, <2>0, <2>1, <2>2, <2>4, <2>5, <2>6, <3>1 DEF CoveragePlaced
    <3>4. CoverageLimits'
      BY <1>q, <2>0, <2>4, <2>5, <3>1 DEF CoverageLimits
    <3> QED
      BY <3>2, <3>3, <3>4 DEF CoverageInv
  <2>7. CASE preparing = 0
    <3>1. scopes = <<>>
      BY <1>t, <2>7 DEF CoveragePlaced
    <3>2. q = <<k>>
      BY <3>1
    <3>3. scopes' = <<>> /\ preparing' = k
      BY <1>1, <2>0, <2>7, <3>2 DEF Ensure, PumpScopes
    <3>4. CoverageTypes'
      BY <1>t, <2>0, <2>4, <3>3, NoneQueued DEF CoverageTypes
    <3>5. CoveragePlaced'
      BY <1>q, <2>0, <2>2, <2>4, <2>7, <3>1, <3>3, NoneQueued DEF CoveragePlaced
    <3>6. CoverageLimits'
      BY <1>q, <2>4, <3>3 DEF CoverageLimits
    <3> QED
      BY <3>4, <3>5, <3>6 DEF CoverageInv
  <2> QED
    BY <2>6, <2>7
<1>2. CASE Prepares
    BY <1>t, <1>2 DEF Prepares, CoverageInv, CoverageTypes, CoveragePlaced, CoverageLimits
<1>3. CASE Prepared
  <2>1. /\ tasks' \in Tasks /\ Len(tasks') <= MaxTasks /\ Preparing(tasks') = Preparing(tasks) \ {preparing}
        /\ preparing # 0 /\ UNCHANGED coverageEnds
    <3>0. preparing # 0 /\ UNCHANGED coverageEnds /\ tasks \in Tasks
      BY <1>t, <1>3 DEF Prepared, CoverageTypes
    <3>1. CASE prepared = "done"
      <4>1. tasks' = Deleted(tasks, preparing)
        BY <1>3, <3>1 DEF Prepared
      <4>2. /\ tasks' \in Tasks /\ Len(tasks') <= Len(tasks)
            /\ Preparing(tasks') = Preparing(tasks) \ {preparing}
        BY <3>0, <4>1, TaskDeleted
      <4>3. Len(tasks') \in Nat
        BY <4>2 DEF Tasks
      <4> QED
        BY <1>t, <1>q, <3>0, <4>2, <4>3 DEF CoverageLimits
    <3>2. CASE prepared # "done"
      <4>1. tasks' = [i \in 1 .. Len(tasks) |-> IF tasks[i].key = preparing
                                                THEN [tasks[i] EXCEPT !.state = "failed"] ELSE tasks[i]]
        BY <1>3, <3>2 DEF Prepared
      <4>2. /\ tasks' \in Tasks /\ Len(tasks') = Len(tasks)
            /\ Preparing(tasks') = Preparing(tasks) \ {preparing}
        BY <3>0, <4>1, TaskFails
      <4> QED
        BY <1>t, <3>0, <4>2 DEF CoverageLimits
    <3> QED
      BY <3>1, <3>2
  <2>2. CASE scopes = <<>> \/ coverageEnds # "open"
    <3>1. preparing' = 0 /\ UNCHANGED scopes /\ scopes = <<>>
      BY <1>t, <1>3, <2>2 DEF Prepared, CoveragePlaced
    <3>2. ToSet(scopes) = {}
      BY <3>1, NoneQueued
    <3>3. coverageEnds = "closed" => FALSE
      BY <1>t, <2>1 DEF CoveragePlaced
    <3>4. CoveragePlaced'
      BY <1>t, <2>1, <3>1, <3>2, <3>3 DEF CoveragePlaced
    <3> QED
      BY <1>t, <2>1, <3>1, <3>4 DEF CoverageInv, CoverageTypes, CoverageLimits
  <2>3. CASE ~ (scopes = <<>> \/ coverageEnds # "open")
    <3>1. preparing' = Head(scopes) /\ scopes' = Tail(scopes)
      BY <1>3, <2>3 DEF Prepared
    <3>2. /\ Tail(scopes) \in Seq(SourceKey) /\ Len(Tail(scopes)) = Len(scopes) - 1 /\ Head(scopes) \in ToSet(scopes)
          /\ ToSet(Tail(scopes)) = ToSet(scopes) \ {Head(scopes)} /\ Distinct(Tail(scopes))
      BY <1>t, <2>3, Dequeued DEF CoverageTypes
    <3>3. CoverageTypes'
      BY <1>t, <1>q, <2>1, <3>1, <3>2 DEF CoverageTypes
    <3>4. CoveragePlaced'
      BY <1>t, <1>q, <2>1, <2>3, <3>1, <3>2 DEF CoveragePlaced
    <3>5. CoverageLimits'
      BY <1>t, <1>q, <2>1, <3>1, <3>2 DEF CoverageLimits
    <3> QED
      BY <3>3, <3>4, <3>5 DEF CoverageInv
  <2> QED
    BY <2>2, <2>3
<1>4. CASE CoverageCloses
    BY <1>t, <1>q, <1>4, NoneQueued DEF CoverageCloses, CoverageInv, CoverageTypes, CoveragePlaced, CoverageLimits
<1>5. CASE CoverageClosed
  <2>1. <<>> \in Tasks
    BY DEF Tasks, DistinctKeys
  <2>2. tasks' = <<>> /\ UNCHANGED <<scopes, preparing>> /\ preparing = 0 /\ coverageEnds = "aborted" /\ coverageEnds' = "closed"
    BY <1>5 DEF CoverageClosed
  <2>3. CoverageTypes'
    BY <1>t, <2>1, <2>2 DEF CoverageTypes
  <2>4. CoveragePlaced'
    BY <1>t, <2>2 DEF CoveragePlaced
  <2>5. CoverageLimits'
    BY <1>t, <1>q, <2>2 DEF CoverageLimits
  <2> QED
    BY <2>3, <2>4, <2>5 DEF CoverageInv
<1>6. CASE UNCHANGED coverageVars
    BY <1>t, <1>6 DEF coverageVars, CoverageInv, CoverageTypes, CoveragePlaced, CoverageLimits
<1> QED
    BY <1>1, <1>2, <1>3, <1>4, <1>5, <1>6 DEF CoverageNext

\* A task that is being prepared runs or has one place in the queue, a failed one has neither,
\* and there are never too many, for any number of keys.
THEOREM TasksPlaced == CoverageSpec => []TasksArePlaced
<1>1. ASSUME CoverageInv PROVE TasksArePlaced
  <2>1. CoverageTypes /\ CoveragePlaced /\ CoverageLimits
    BY <1>1 DEF CoverageInv
  <2>2. /\ ToSet(scopes) = {scopes[i] : i \in 1 .. Len(scopes)} /\ ToSet(scopes) \subseteq SourceKey
        /\ scopes = <<>> <=> ToSet(scopes) = {}
    BY <2>1, QueuedAt DEF CoverageTypes
  <2>3. \A k \in SourceKey : TaskState(k) = "preparing" <=> k \in Preparing(tasks)
    BY <2>1, StateIs DEF CoverageTypes
  <2>4. ASSUME coverageEnds = "open", NEW k \in SourceKey
        PROVE  TaskState(k) = "preparing" <=> preparing = k \/ \E i \in 1 .. Len(scopes) : scopes[i] = k
    BY <2>1, <2>2, <2>3, <2>4, ScopeAssumption DEF CoveragePlaced
  <2>5. \A i \in 1 .. Len(scopes) : preparing # 0 /\ scopes[i] # preparing
    BY <2>1, <2>2 DEF CoveragePlaced
  <2> QED
    BY <2>1, <2>4, <2>5 DEF TasksArePlaced, CoverageTypes, CoveragePlaced, CoverageLimits, Distinct
<1> QED
    BY CoverageStarts, CoverageStep, <1>1, PTL DEF CoverageSpec

-----------------------------------------------------------------------------
(* The model jobs *)

\* The stages of a job that is at work, and those between the first look at the sources and
\* the model's place on disk.
Fitting == {"training", "checking", "sources", "publishing", "saving"}
OnStep == Fitting \cup {"starting", "stopping"}
AtWorkOn == OnStep \cup {"creating", "step", "stepped", "ending"}

JobState == Ended \cup {"none", "running"}
ModelTypes ==
    /\ journal \in [ModelJob -> JobState]
    /\ latest \in [id : ModelJob \cup {0}, state : JobState]
    /\ current \in [id : ModelJob \cup {0}, state : JobState]
    /\ stage \in AtWorkOn \cup {"idle"} /\ step \in Nat
    /\ fitting \in BOOLEAN /\ aborted \in BOOLEAN
    /\ modelEnds \in {"down", "open", "closing", "closed"}
    /\ sources \in Nat /\ since \in Nat /\ since <= sources
    /\ trained \in [source : Nat, base : Nat]
    /\ published \in [ModelKind -> [source : Nat, base : Nat]]
    /\ lostEnd \subseteq ModelJob

\* The job that is at work.
WorkHolds ==
    /\ stage # "idle" => modelEnds # "down" /\ current.id \in ModelJob
    /\ stage \notin {"idle", "ending"} => current.state = "running"
    /\ stage = "ending" => current.state \in Ended
    /\ fitting => stage \in {"training", "stopping"}

\* The place of its progress.
StepHolds ==
    /\ stage # "idle" => step > 0
    /\ stage \in OnStep \cup {"stepped"} => step <= LastKind

\* Jobs are made in their order, so the one at work is the newest.
Known == Created \cup lostEnd
OrderHolds ==
    /\ \A i \in Known : \A h \in ModelJob : h < i => h \in Known
    /\ stage # "idle" =>
          /\ \A h \in ModelJob : h < current.id => h \in Known
          /\ \A i \in Known : i <= current.id
    /\ stage = "creating" => current.id \notin Known

\* What the journal says of jobs that are not at work.
RunningHolds ==
    \A j \in ModelJob : journal[j] = "running" =>
        \/ j \in lostEnd
        \/ stage # "idle" /\ j = current.id
        \/ modelEnds = "down" /\ \A i \in Created : i <= j

\* The latest job, while none runs.
LatestHolds ==
    stage \in {"idle", "creating"} /\ modelEnds # "down" =>
        /\ latest.state \in Ended \cup {"none"}
        /\ latest.id # 0 =>
              \/ journal[latest.id] = latest.state
              \/ latest.id \in lostEnd /\ latest.state = "failed"

\* The model of a kind is from sources no older than the job, and the last one is trained
\* on the one before it; so is the model that is being trained.
IsFit(k) ==
    /\ published[k].source >= since
    /\ k = LastKind /\ k > 1 => published[k].base = HashOf(k - 1)
TrainedIsFit ==
    /\ trained.source >= since
    /\ step = LastKind /\ step > 1 => trained.base = HashOf(step - 1)
StepsHold ==
    /\ stage # "idle" =>
          \A k \in ModelKind : k < step \/ (stage = "stepped" /\ k = step) => IsFit(k)
    /\ stage = "ending" /\ current.state = "succeeded" => step > LastKind
    /\ stage \in Fitting => TrainedIsFit

ModelInv ==
    /\ ModelTypes /\ WorkHolds /\ StepHolds /\ OrderHolds /\ RunningHolds /\ LatestHolds
    /\ StepsHold

\* The kinds of models are numbered.
LEMMA KindsAreCounted ==
    /\ LastKind \in Nat /\ ModelKind = 1 .. LastKind
    /\ ModelJob = 1 .. Cardinality(ModelJob) /\ Cardinality(ModelJob) \in Nat
    /\ ModelJob \subseteq Nat /\ 0 \notin ModelJob
BY FS_CardinalityType, ModelAssumption DEF ModelAssumption, LastKind

\* Of the jobs that are on disk one is the newest.
LEMMA CreatedHasNewest == Created # {} => Newest \in Created /\ \A i \in Created : i <= Newest
<1> DEFINE Later(j) == {i \in Created : i > j}
           Laters == {Later(j) : j \in Created}
<1> SUFFICES ASSUME Created # {} PROVE \E j \in Created : \A i \in Created : i <= j
    BY DEF Newest
<1>1. IsFiniteSet(Created)
    BY FS_Subset, ModelAssumption DEF ModelAssumption, Created
<1>2. Created \subseteq Nat
    BY KindsAreCounted DEF Created
<1>3. \E x \in Laters : \A y \in Laters : ~ (<<y, x>> \in StrictSubsetOrdering(Created))
  <2>1. IsWellFoundedOn(StrictSubsetOrdering(Created), SUBSET Created)
    BY <1>1, FS_StrictSubsetOrderingWellFounded, FS_FiniteSubsetsOfFinite
  <2>2. Laters # {} /\ Laters \subseteq SUBSET Created
    OBVIOUS
  <2> HIDE DEF Laters
  <2> QED
    BY <2>1, <2>2, WFMin
<1>4. PICK j \in Created : \A i \in Created : ~ (<<Later(i), Later(j)>> \in StrictSubsetOrdering(Created))
    BY <1>3
<1>5. ASSUME NEW i \in Created, ~ (i <= j) PROVE FALSE
  <2>0. i > j /\ i \in Nat /\ j \in Nat
    BY <1>2, <1>5
  <2>a. ASSUME NEW x \in Later(i) PROVE x \in Later(j)
    BY <2>0, <1>2
  <2>b. i \in Later(j) /\ i \notin Later(i)
    BY <2>0
  <2>1. i \in Later(j) /\ i \notin Later(i) /\ Later(i) \subseteq Later(j)
    <3> HIDE DEF Later
    <3> QED
      BY <2>a, <2>b
  <2>2. Later(j) \subseteq Created /\ Later(i) \subseteq Created
    OBVIOUS
  <2> HIDE DEF Later
  <2> QED
    BY <2>1, <2>2, <1>4 DEF StrictSubsetOrdering
<1> QED
    BY <1>5

\* The invariant holds before the first job.
LEMMA ModelStarts == ModelInit => ModelInv
<1> SUFFICES ASSUME ModelInit PROVE ModelInv
    OBVIOUS
<1> USE KindsAreCounted DEF ModelInit
<1>1. ModelTypes
  <2>1. NoJob \in [id : ModelJob \cup {0}, state : JobState] /\ Untrained \in [source : Nat, base : Nat]
    BY DEF NoJob, Untrained, JobState
  <2>2. published \in [ModelKind -> [source : Nat, base : Nat]] /\ journal \in [ModelJob -> JobState]
    BY <2>1 DEF JobState
  <2>3. latest \in [id : ModelJob \cup {0}, state : JobState] /\ current \in [id : ModelJob \cup {0}, state : JobState]
        /\ trained \in [source : Nat, base : Nat]
    BY <2>1
  <2>4. stage \in AtWorkOn \cup {"idle"} /\ fitting \in BOOLEAN /\ aborted \in BOOLEAN
        /\ modelEnds \in {"down", "open", "closing", "closed"} /\ lostEnd \subseteq ModelJob
    OBVIOUS
  <2>5. sources \in Nat /\ since \in Nat /\ since <= sources /\ step \in Nat
    BY SMT
  <2> QED
    BY <2>2, <2>3, <2>4, <2>5 DEF ModelTypes
<1>2. WorkHolds /\ StepHolds
    BY DEF WorkHolds, StepHolds, OnStep, Fitting
<1>3. OrderHolds
    BY DEF OrderHolds, Known, Created
<1>4. RunningHolds /\ LatestHolds
    BY DEF RunningHolds, LatestHolds, NoJob
<1>5. StepsHold
    BY DEF StepsHold, Fitting
<1> QED
    BY <1>1, <1>2, <1>3, <1>4, <1>5 DEF ModelInv

\* Every step keeps the shapes of the variables.
LEMMA ModelTypesKept == ModelInv /\ [ModelNext]_modelVars => ModelTypes'
<1> SUFFICES ASSUME ModelInv, [ModelNext]_modelVars PROVE ModelTypes'
    OBVIOUS
<1> USE KindsAreCounted DEF ModelTypes, AtWorkOn, OnStep, Fitting, modelData
<1>t. ModelTypes /\ WorkHolds /\ StepHolds
    BY DEF ModelInv
<1>s. Ended \subseteq JobState /\ {"running", "none", "failed", "succeeded", "cancelled"} \subseteq JobState
    BY DEF Ended, JobState
<1>n. NoJob \in [id : ModelJob \cup {0}, state : JobState] /\ Untrained \in [source : Nat, base : Nat]
    BY <1>s DEF NoJob, Untrained
<1>1. CASE FitsWritten
    BY <1>t, <1>s, <1>n, <1>1 DEF FitsWritten, WorkHolds
<1>2. CASE CreateWritten
    BY <1>t, <1>s, <1>n, <1>2 DEF CreateWritten, Written, WorkHolds
<1>3. CASE TrainingBegins
  <2>1. step \in Nat /\ step <= LastKind /\ step > 0
    BY <1>t, <1>3 DEF TrainingBegins, Written, StepHolds
  <2>2. trained' \in [source : Nat, base : Nat]
    <3>1. step = LastKind /\ step > 1 => HashOf(step - 1) \in Nat
      BY <1>t, <2>1 DEF HashOf
    <3> QED
      BY <1>t, <2>1, <1>3, <3>1 DEF TrainingBegins
  <2> QED
    BY <1>t, <1>s, <2>2, <1>3 DEF TrainingBegins, Written, WorkHolds, Throws
<1>4. CASE CheckWritten
    BY <1>t, <1>s, <1>n, <1>4 DEF CheckWritten, Written, WorkHolds
<1>5. CASE PublishWritten
    BY <1>t, <1>s, <1>n, <1>5 DEF PublishWritten, Written, WorkHolds
<1>6. CASE StepWritten
    BY <1>t, <1>s, <1>n, <1>6 DEF StepWritten, Written, WorkHolds
<1>7. CASE RunEnds
    BY <1>t, <1>s, <1>n, <1>7 DEF RunEnds, Written, WriteFails, WorkHolds
<1>8. CASE StepBegins
    BY <1>t, <1>s, <1>n, <1>8 DEF StepBegins, Throws
<1>9. CASE TrainingStopped
    BY <1>t, <1>s, <1>n, <1>9 DEF TrainingStopped, Throws
<1>10. CASE SourcesRead
    BY <1>t, <1>s, <1>n, <1>10 DEF SourcesRead, Throws
<1>11. CASE Saves
  <2>1. published' \in [ModelKind -> [source : Nat, base : Nat]]
    BY <1>t, <1>11 DEF Saves
  <2> QED
    BY <1>t, <1>s, <2>1, <1>11 DEF Saves, Throws
<1>12. CASE CreateFails
    BY <1>t, <1>s, <1>n, <1>12 DEF CreateFails, WriteFails, WorkHolds
<1>13. CASE StepFails
    BY <1>t, <1>s, <1>n, <1>13 DEF StepFails, WriteFails, Throws
<1>14. CASE FitsFails
    BY <1>t, <1>s, <1>n, <1>14 DEF FitsFails, WriteFails
<1>15. CASE CloseAborts
    BY <1>t, <1>s, <1>n, <1>15 DEF CloseAborts
<1>16. CASE ModelClosed
    BY <1>t, <1>s, <1>n, <1>16 DEF ModelClosed
<1>17. CASE Cancel
    BY <1>t, <1>s, <1>n, <1>17 DEF Cancel
<1>18. CASE ModelCloses
    BY <1>t, <1>s, <1>n, <1>18 DEF ModelCloses
<1>19. CASE Fits
    BY <1>t, <1>s, <1>n, <1>19 DEF Fits
<1>20. CASE Trained
    BY <1>t, <1>s, <1>n, <1>20 DEF Trained
<1>21. CASE TrainingFails
    BY <1>t, <1>s, <1>n, <1>21 DEF TrainingFails
<1>22. CASE SourcesChange
    BY <1>t, <1>s, <1>n, <1>22 DEF SourcesChange
<1>23. CASE Crash
    BY <1>t, <1>s, <1>n, <1>23 DEF Crash
<1>24. CASE Restart
  <2>1. Created # {} => Newest \in ModelJob
    BY CreatedHasNewest DEF Created
  <2> QED
    BY <1>t, <1>s, <1>n, <1>24, <2>1 DEF Restart
<1>25. ASSUME NEW j \in ModelJob, Create(j) PROVE ModelTypes'
  <2>1. current' \in [id : ModelJob \cup {0}, state : JobState]
    BY <1>s, <1>25 DEF Create
  <2>2. since' \in Nat /\ since' <= sources' /\ step' \in Nat /\ stage' \in AtWorkOn
    BY <1>t, <1>25 DEF Create
  <2>3. aborted' \in BOOLEAN /\ UNCHANGED <<journal, latest, fitting, modelEnds, sources, trained, published, lostEnd>>
    BY <1>25 DEF Create
  <2> QED
    BY <1>t, <2>1, <2>2, <2>3
<1>26. CASE UNCHANGED modelVars
    BY <1>t, <1>26 DEF modelVars
<1> QED
    BY <1>1, <1>2, <1>3, <1>4, <1>5, <1>6, <1>7, <1>8, <1>9, <1>10, <1>11, <1>12, <1>13, <1>14, <1>15, <1>16, <1>17, <1>18, <1>19, <1>20, <1>21, <1>22, <1>23, <1>24, <1>25, <1>26 DEF ModelNext, Commits, Turns

\* Every step keeps what a stage says of the job at work.
LEMMA WorkKept == ModelInv /\ [ModelNext]_modelVars => WorkHolds'
<1> SUFFICES ASSUME ModelInv, [ModelNext]_modelVars PROVE WorkHolds'
    OBVIOUS
<1> USE DEF WorkHolds, Ended
<1>t. ModelTypes /\ WorkHolds
    BY DEF ModelInv
<1> USE DEF ModelTypes
<1>1. CASE FitsWritten
    BY <1>t, <1>1 DEF FitsWritten
<1>2. CASE CreateWritten
    BY <1>t, <1>2 DEF CreateWritten, Written
<1>3. CASE TrainingBegins
    BY <1>t, <1>3 DEF TrainingBegins, Written, Throws
<1>4. CASE CheckWritten
    BY <1>t, <1>4 DEF CheckWritten, Written
<1>5. CASE PublishWritten
    BY <1>t, <1>5 DEF PublishWritten, Written
<1>6. CASE StepWritten
    BY <1>t, <1>6 DEF StepWritten, Written
<1>7. CASE RunEnds
    BY <1>t, <1>7 DEF RunEnds, Written, WriteFails
<1>8. CASE StepBegins
    BY <1>t, <1>8 DEF StepBegins, Throws
<1>9. CASE TrainingStopped
    BY <1>t, <1>9 DEF TrainingStopped, Throws
<1>10. CASE SourcesRead
    BY <1>t, <1>10 DEF SourcesRead, Throws
<1>11. CASE Saves
    BY <1>t, <1>11 DEF Saves, Throws
<1>12. CASE CreateFails
    BY <1>t, <1>12 DEF CreateFails, WriteFails
<1>13. CASE StepFails
    BY <1>t, <1>13 DEF StepFails, WriteFails, Throws
<1>14. CASE FitsFails
    BY <1>t, <1>14 DEF FitsFails, WriteFails
<1>15. CASE CloseAborts
    BY <1>t, <1>15 DEF CloseAborts
<1>16. CASE ModelClosed
    BY <1>t, <1>16 DEF ModelClosed
<1>17. CASE Cancel
    BY <1>t, <1>17 DEF Cancel
<1>18. CASE ModelCloses
    BY <1>t, <1>18 DEF ModelCloses
<1>19. CASE Fits
    BY <1>t, <1>19 DEF Fits
<1>20. CASE Trained
    BY <1>t, <1>20 DEF Trained
<1>21. CASE TrainingFails
    BY <1>t, <1>21 DEF TrainingFails
<1>22. CASE SourcesChange
    BY <1>t, <1>22 DEF SourcesChange
<1>23. CASE Crash
    BY <1>t, <1>23 DEF Crash
<1>24. CASE Restart
    BY <1>t, <1>24 DEF Restart
<1>25. ASSUME NEW j \in ModelJob, Create(j) PROVE WorkHolds'
    BY <1>t, <1>25 DEF Create
<1>26. CASE UNCHANGED modelVars
    BY <1>t, <1>26 DEF modelVars
<1> QED
    BY <1>1, <1>2, <1>3, <1>4, <1>5, <1>6, <1>7, <1>8, <1>9, <1>10, <1>11, <1>12, <1>13, <1>14, <1>15, <1>16, <1>17, <1>18, <1>19, <1>20, <1>21, <1>22, <1>23, <1>24, <1>25, <1>26
    DEF ModelNext, Commits, Turns

\* Every step keeps what is known of the step a job is at.
LEMMA StepKept == ModelInv /\ [ModelNext]_modelVars => StepHolds'
<1> SUFFICES ASSUME ModelInv, [ModelNext]_modelVars PROVE StepHolds'
    OBVIOUS
<1> USE DEF StepHolds, OnStep, Fitting
<1>t. step \in Nat /\ StepHolds
    BY DEF ModelInv, ModelTypes
<1> USE KindsAreCounted
<1>1. CASE FitsWritten
    BY <1>t, <1>1 DEF FitsWritten
<1>2. CASE CreateWritten
    BY <1>t, <1>2 DEF CreateWritten, Written
<1>3. CASE TrainingBegins
    BY <1>t, <1>3 DEF TrainingBegins, Written, Throws
<1>4. CASE CheckWritten
    BY <1>t, <1>4 DEF CheckWritten, Written
<1>5. CASE PublishWritten
    BY <1>t, <1>5 DEF PublishWritten, Written
<1>6. CASE StepWritten
    BY <1>t, <1>6 DEF StepWritten, Written
<1>7. CASE RunEnds
    BY <1>t, <1>7 DEF RunEnds, Written, WriteFails
<1>8. CASE StepBegins
    BY <1>t, <1>8 DEF StepBegins, Throws
<1>9. CASE TrainingStopped
    BY <1>t, <1>9 DEF TrainingStopped, Throws
<1>10. CASE SourcesRead
    BY <1>t, <1>10 DEF SourcesRead, Throws
<1>11. CASE Saves
    BY <1>t, <1>11 DEF Saves, Throws
<1>12. CASE CreateFails
    BY <1>t, <1>12 DEF CreateFails, WriteFails
<1>13. CASE StepFails
    BY <1>t, <1>13 DEF StepFails, WriteFails, Throws
<1>14. CASE FitsFails
    BY <1>t, <1>14 DEF FitsFails, WriteFails
<1>15. CASE CloseAborts
    BY <1>t, <1>15 DEF CloseAborts
<1>16. CASE ModelClosed
    BY <1>t, <1>16 DEF ModelClosed
<1>17. CASE Cancel
    BY <1>t, <1>17 DEF Cancel
<1>18. CASE ModelCloses
    BY <1>t, <1>18 DEF ModelCloses
<1>19. CASE Fits
    BY <1>t, <1>19 DEF Fits
<1>20. CASE Trained
    BY <1>t, <1>20 DEF Trained
<1>21. CASE TrainingFails
    BY <1>t, <1>21 DEF TrainingFails
<1>22. CASE SourcesChange
    BY <1>t, <1>22 DEF SourcesChange
<1>23. CASE Crash
    BY <1>t, <1>23 DEF Crash
<1>24. CASE Restart
    BY <1>t, <1>24 DEF Restart
<1>25. ASSUME NEW j \in ModelJob, Create(j) PROVE StepHolds'
    BY <1>t, <1>25 DEF Create
<1>26. CASE UNCHANGED modelVars
    BY <1>t, <1>26 DEF modelVars
<1> QED
    BY <1>1, <1>2, <1>3, <1>4, <1>5, <1>6, <1>7, <1>8, <1>9, <1>10, <1>11, <1>12, <1>13, <1>14, <1>15, <1>16, <1>17, <1>18, <1>19, <1>20, <1>21, <1>22, <1>23, <1>24, <1>25, <1>26
    DEF ModelNext, Commits, Turns

\* What a step does to the jobs that are known and to the one at work.
KnownStep ==
    /\ stage # "idle" => Known' = Known \/ Known' = Known \cup {current.id}
    /\ stage = "idle" => Known' = Known
    /\ stage = "idle" /\ stage' # "idle" =>
          /\ current'.id \in ModelJob \ Known
          /\ \A h \in ModelJob : h < current'.id => h \in Known
    /\ stage # "idle" /\ stage' # "idle" => current'.id = current.id
    /\ stage' = "creating" /\ stage # "idle" => stage = "creating" /\ Known' = Known

\* What a step does to the jobs that are known.
LEMMA KnownKept ==
    ASSUME ModelInv, [ModelNext]_modelVars
    PROVE  KnownStep
<1> USE DEF KnownStep
<1>t. ModelTypes /\ WorkHolds
    BY DEF ModelInv
<1> USE DEF ModelTypes
<1>1. UNCHANGED <<journal, lostEnd>> => Known' = Known
    BY DEF Known, Created
<1>2. ASSUME NEW s \in JobState \ {"none"}, stage # "idle", journal' = [journal EXCEPT ![current.id] = s]
      PROVE  Created' = Created \cup {current.id}
  <2>1. current.id \in ModelJob
    BY <1>t, <1>2 DEF WorkHolds
  <2>2. \A j \in ModelJob : journal'[j] = IF j = current.id THEN s ELSE journal[j]
    BY <1>t, <1>2
  <2> QED
    BY <2>1, <2>2, <1>2 DEF Created
<1>3. stage # "idle" => current.state \in JobState \ {"none"} /\ "running" \in JobState \ {"none"}
    BY <1>t DEF WorkHolds, JobState, Ended
<1>4. CASE FitsWritten
  <2>1. Created' = Created \cup {current.id}
    BY <1>t, <1>2, <1>3, <1>4 DEF FitsWritten, WorkHolds
  <2> QED
    BY <1>t, <2>1, <1>4 DEF FitsWritten, WorkHolds, Known
<1>5. CASE CreateWritten
  <2>1. Created' = Created \cup {current.id}
    BY <1>2, <1>3, <1>5 DEF CreateWritten, Written
  <2> QED
    BY <2>1, <1>5 DEF CreateWritten, Written, Known
<1>6. CASE TrainingBegins
  <2>1. Created' = Created \cup {current.id}
    BY <1>2, <1>3, <1>6 DEF TrainingBegins, Written
  <2> QED
    BY <1>t, <2>1, <1>6 DEF TrainingBegins, Written, Throws, Known
<1>7. CASE CheckWritten
  <2>1. Created' = Created \cup {current.id}
    BY <1>2, <1>3, <1>7 DEF CheckWritten, Written
  <2> QED
    BY <2>1, <1>7 DEF CheckWritten, Written, Known
<1>8. CASE PublishWritten
  <2>1. Created' = Created \cup {current.id}
    BY <1>2, <1>3, <1>8 DEF PublishWritten, Written
  <2> QED
    BY <2>1, <1>8 DEF PublishWritten, Written, Known
<1>9. CASE StepWritten
  <2>1. Created' = Created \cup {current.id}
    BY <1>2, <1>3, <1>9 DEF StepWritten, Written
  <2> QED
    BY <2>1, <1>9 DEF StepWritten, Written, Known
<1>10. CASE RunEnds
  <2>1. CASE Written("ending") /\ UNCHANGED lostEnd
    <3>1. Created' = Created \cup {current.id}
      BY <1>2, <1>3, <2>1 DEF Written
    <3> QED
      BY <3>1, <2>1, <1>10 DEF RunEnds, Known, Written
  <2>2. CASE WriteFails("ending") /\ lostEnd' = lostEnd \cup {current.id} /\ UNCHANGED journal
    <3>1. Created' = Created
      BY <2>2 DEF Created
    <3> QED
      BY <3>1, <2>2, <1>10 DEF RunEnds, Known, WriteFails
  <2> QED
    BY <2>1, <2>2, <1>10 DEF RunEnds
<1>11. CASE StepBegins
    BY <1>t, <1>1, <1>11 DEF StepBegins, Throws, WorkHolds
<1>12. CASE TrainingStopped
    BY <1>t, <1>1, <1>12 DEF TrainingStopped, Throws, WorkHolds
<1>13. CASE SourcesRead
    BY <1>t, <1>1, <1>13 DEF SourcesRead, Throws, WorkHolds
<1>14. CASE Saves
    BY <1>t, <1>1, <1>14 DEF Saves, Throws, WorkHolds
<1>15. CASE CreateFails
  <2>1. Created' = Created
    BY <1>15 DEF CreateFails, Created
  <2> QED
    BY <2>1, <1>15 DEF CreateFails, WriteFails, Known
<1>16. CASE StepFails
    BY <1>t, <1>1, <1>16 DEF StepFails, WriteFails, Throws, WorkHolds
<1>17. CASE FitsFails
    BY <1>t, <1>1, <1>17 DEF FitsFails, WriteFails, WorkHolds
<1>18. CASE CloseAborts
    BY <1>t, <1>1, <1>18 DEF CloseAborts, WorkHolds
<1>19. CASE ModelClosed
    BY <1>t, <1>1, <1>19 DEF ModelClosed, WorkHolds
<1>20. CASE Cancel
    BY <1>t, <1>1, <1>20 DEF Cancel, WorkHolds
<1>21. CASE ModelCloses
    BY <1>t, <1>1, <1>21 DEF ModelCloses, WorkHolds
<1>22. CASE Fits
    BY <1>t, <1>1, <1>22 DEF Fits, WorkHolds
<1>23. CASE Trained
    BY <1>t, <1>1, <1>23 DEF Trained, WorkHolds
<1>24. CASE TrainingFails
    BY <1>t, <1>1, <1>24 DEF TrainingFails, WorkHolds
<1>25. CASE SourcesChange
    BY <1>t, <1>1, <1>25 DEF SourcesChange, WorkHolds
<1>26. CASE Crash
    BY <1>t, <1>1, <1>26 DEF Crash, WorkHolds
<1>27. CASE Restart
  <2>1. Created # {} => Newest \in Created
    BY CreatedHasNewest
  <2>2. Created' = Created
    BY <2>1, <1>t, <1>27, KindsAreCounted DEF Restart, Created, NoJob
  <2> QED
    BY <2>2, <1>t, <1>27 DEF Restart, Known, WorkHolds
<1>28. ASSUME NEW j \in ModelJob, Create(j) PROVE KnownStep
    BY <1>t, <1>1, <1>28 DEF Create, Known
<1>29. CASE UNCHANGED modelVars
    BY <1>t, <1>1, <1>29 DEF modelVars
<1> QED
    BY <1>4, <1>5, <1>6, <1>7, <1>8, <1>9, <1>10, <1>11, <1>12, <1>13, <1>14, <1>15, <1>16, <1>17, <1>18, <1>19, <1>20, <1>21, <1>22, <1>23, <1>24, <1>25, <1>26, <1>27, <1>28, <1>29 DEF ModelNext, Commits, Turns

\* Every step keeps the order in which a job writes what it says.
LEMMA OrderKept == ModelInv /\ [ModelNext]_modelVars => OrderHolds'
<1> SUFFICES ASSUME ModelInv, [ModelNext]_modelVars PROVE OrderHolds'
    OBVIOUS
<1>1. KnownStep
    BY KnownKept
<1>2. OrderHolds /\ Known \subseteq ModelJob /\ (stage # "idle" => current.id \in ModelJob)
    BY DEF ModelInv, ModelTypes, WorkHolds, Known, Created
<1> HIDE DEF Known
<1>m. \A j \in ModelJob : j \in Nat
    BY KindsAreCounted
<1>3. CASE stage # "idle"
  <2>1. \A i \in Known' : \A h \in ModelJob : h < i => h \in Known'
    BY <1>1, <1>2, <1>3 DEF KnownStep, OrderHolds
  <2>2. stage' # "idle" => \A h \in ModelJob : h < current'.id => h \in Known'
    BY <1>1, <1>2, <1>3 DEF KnownStep, OrderHolds
  <2>3. ASSUME stage' # "idle", NEW i \in Known' PROVE i <= current'.id
    <3>1. current'.id = current.id /\ current.id \in Nat /\ (i \in Known \/ i = current.id)
      BY <1>m, <1>1, <1>2, <1>3, <2>3 DEF KnownStep
    <3>2. i \in Known => i <= current.id
      BY <1>2, <1>3 DEF OrderHolds
    <3> QED
      BY <3>1, <3>2
  <2> QED
    BY <2>1, <2>2, <2>3, <1>1, <1>2, <1>3 DEF KnownStep, OrderHolds
<1>4. CASE stage = "idle"
  <2>1. \A i \in Known' : \A h \in ModelJob : h < i => h \in Known'
    BY <1>1, <1>2, <1>4 DEF KnownStep, OrderHolds
  <2>2. ASSUME stage' # "idle", NEW i \in Known PROVE i <= current'.id
    <3>1. current'.id \in ModelJob \ Known /\ i \in ModelJob
      BY <1>1, <1>2, <1>4, <2>2 DEF KnownStep
    <3>2. ~ (current'.id < i)
      BY <3>1, <1>2 DEF OrderHolds
    <3>3. current'.id \in Nat /\ i \in Nat
      BY <3>1, <1>m
    <3> QED
      BY <3>2, <3>3
  <2> QED
    BY <2>1, <2>2, <1>1, <1>2, <1>4 DEF KnownStep, OrderHolds
<1> QED
    BY <1>3, <1>4

\* Every step keeps one job at work.
LEMMA RunningKept == ModelInv /\ [ModelNext]_modelVars => RunningHolds'
<1> SUFFICES ASSUME ModelInv, [ModelNext]_modelVars PROVE RunningHolds'
    OBVIOUS
<1> USE DEF RunningHolds, ModelTypes
<1>t. ModelTypes /\ WorkHolds /\ OrderHolds /\ RunningHolds
    BY DEF ModelInv
<1>1. CASE FitsWritten
    BY <1>t, <1>1 DEF FitsWritten, WorkHolds
<1>2. CASE CreateWritten
    BY <1>t, <1>2 DEF CreateWritten, Written, WorkHolds
<1>3. CASE TrainingBegins
    BY <1>t, <1>3 DEF TrainingBegins, Written, Throws, WorkHolds
<1>4. CASE CheckWritten
    BY <1>t, <1>4 DEF CheckWritten, Written, WorkHolds
<1>5. CASE PublishWritten
    BY <1>t, <1>5 DEF PublishWritten, Written, WorkHolds
<1>6. CASE StepWritten
    BY <1>t, <1>6 DEF StepWritten, Written, WorkHolds
<1>7. CASE RunEnds
  <2>0. stage' = "idle" /\ stage = "ending" /\ modelEnds # "down" /\ current.id \in ModelJob /\ current.state \in Ended
    BY <1>t, <1>7 DEF RunEnds, Written, WriteFails, WorkHolds
  <2>1. CASE Written("ending") /\ UNCHANGED lostEnd
    <3>1. \A j \in ModelJob : journal'[j] = IF j = current.id THEN current.state ELSE journal[j]
      BY <2>1, <1>t DEF Written
    <3> QED
      BY <2>0, <2>1, <3>1, <1>t DEF Ended
  <2>2. CASE lostEnd' = lostEnd \cup {current.id} /\ UNCHANGED journal
    BY <2>0, <2>2, <1>t
  <2> QED
    BY <2>1, <2>2, <1>7 DEF RunEnds
<1>8. CASE StepBegins
    BY <1>t, <1>8 DEF StepBegins, Throws, WorkHolds
<1>9. CASE TrainingStopped
    BY <1>t, <1>9 DEF TrainingStopped, Throws, WorkHolds
<1>10. CASE SourcesRead
    BY <1>t, <1>10 DEF SourcesRead, Throws, WorkHolds
<1>11. CASE Saves
    BY <1>t, <1>11 DEF Saves, Throws, WorkHolds
<1>12. CASE CreateFails
    BY <1>t, <1>12 DEF CreateFails, WriteFails, WorkHolds
<1>13. CASE StepFails
    BY <1>t, <1>13 DEF StepFails, WriteFails, Throws, WorkHolds
<1>14. CASE FitsFails
    BY <1>t, <1>14 DEF FitsFails, WriteFails, WorkHolds
<1>15. CASE CloseAborts
    BY <1>t, <1>15 DEF CloseAborts, WorkHolds
<1>16. CASE ModelClosed
    BY <1>t, <1>16 DEF ModelClosed, WorkHolds
<1>17. CASE Cancel
    BY <1>t, <1>17 DEF Cancel, WorkHolds
<1>18. CASE ModelCloses
    BY <1>t, <1>18 DEF ModelCloses, WorkHolds
<1>19. CASE Fits
    BY <1>t, <1>19 DEF Fits, WorkHolds
<1>20. CASE Trained
    BY <1>t, <1>20 DEF Trained, WorkHolds
<1>21. CASE TrainingFails
    BY <1>t, <1>21 DEF TrainingFails, WorkHolds
<1>22. CASE SourcesChange
  <2>1. Created' = Created
    BY <1>22 DEF SourcesChange, Created
  <2> QED
    BY <2>1, <1>t, <1>22 DEF SourcesChange, WorkHolds
<1>23. CASE Crash
  <2>1. Created' = Created
    BY <1>23 DEF Crash, Created
  <2>2. stage # "idle" => \A i \in Created : i <= current.id
    BY <1>t DEF OrderHolds, Known
  <2>3. UNCHANGED <<journal, lostEnd>> /\ modelEnds' = "down" /\ modelEnds # "down"
    BY <1>23 DEF Crash
  <2> QED
    BY <2>1, <2>2, <2>3, <1>t
<1>24. CASE Restart
  <2>1. Created # {} => Newest \in Created /\ \A i \in Created : i <= Newest
    BY CreatedHasNewest
  <2>2. \A j \in Created : (\A i \in Created : i <= j) => j = Newest
    <3>1. \A j \in Created : j \in Nat
      BY KindsAreCounted DEF Created
    <3>2. \A m, n \in Nat : m <= n /\ n <= m => m = n
      OBVIOUS
    <3> QED
      BY <2>1, <3>1, <3>2
  <2>3. ASSUME NEW j \in ModelJob, journal'[j] = "running" PROVE j \in lostEnd
    <3>1. journal[j] = "running"
      BY <2>3, <1>t, <1>24 DEF Restart
    <3>2. j \in Created
      BY <3>1 DEF Created
    <3>3. j # Newest
      BY <2>1, <2>3, <3>1, <3>2, <1>t, <1>24, KindsAreCounted DEF Restart
    <3> QED
      BY <3>1, <3>2, <3>3, <2>2, <1>t, <1>24 DEF RunningHolds, Restart, WorkHolds
  <2> QED
    BY <2>3, <1>24 DEF Restart
<1>25. ASSUME NEW j \in ModelJob, Create(j) PROVE RunningHolds'
    BY <1>t, <1>25 DEF Create
<1>26. CASE UNCHANGED modelVars
  <2>1. Created' = Created
    BY <1>26 DEF modelVars, Created
  <2> QED
    BY <2>1, <1>t, <1>26 DEF modelVars
<1> QED
    BY <1>1, <1>2, <1>3, <1>4, <1>5, <1>6, <1>7, <1>8, <1>9, <1>10, <1>11, <1>12, <1>13, <1>14, <1>15, <1>16, <1>17, <1>18, <1>19, <1>20, <1>21, <1>22, <1>23, <1>24, <1>25, <1>26
    DEF ModelNext, Commits, Turns

\* Every step keeps the latest job the one that is shown.
LEMMA LatestKept == ModelInv /\ [ModelNext]_modelVars => LatestHolds'
<1> SUFFICES ASSUME ModelInv, [ModelNext]_modelVars PROVE LatestHolds'
    OBVIOUS
<1> USE DEF LatestHolds, ModelTypes
<1>t. ModelTypes /\ WorkHolds /\ LatestHolds
    BY DEF ModelInv
<1>1. CASE FitsWritten
    BY <1>t, <1>1 DEF FitsWritten, WorkHolds
<1>2. CASE CreateWritten
    BY <1>t, <1>2 DEF CreateWritten, Written, WorkHolds
<1>3. CASE TrainingBegins
    BY <1>t, <1>3 DEF TrainingBegins, Written, Throws, WorkHolds
<1>4. CASE CheckWritten
    BY <1>t, <1>4 DEF CheckWritten, Written, WorkHolds
<1>5. CASE PublishWritten
    BY <1>t, <1>5 DEF PublishWritten, Written, WorkHolds
<1>6. CASE StepWritten
    BY <1>t, <1>6 DEF StepWritten, Written, WorkHolds
<1>7. CASE RunEnds
  <2>0. stage = "ending" /\ current.id \in ModelJob /\ current.state \in Ended
    BY <1>t, <1>7 DEF RunEnds, Written, WriteFails, WorkHolds
  <2>1. CASE Written("ending")
    <3>1. latest' = current /\ journal'[current.id] = current.state
      BY <2>0, <2>1, <1>t DEF Written
    <3> QED
      BY <2>0, <3>1
  <2>2. CASE latest' = [current EXCEPT !.state = "failed"] /\ lostEnd' = lostEnd \cup {current.id}
    <3>1. latest'.id = current.id /\ latest'.state = "failed"
      BY <2>2, <1>t
    <3> QED
      BY <3>1, <2>2 DEF Ended
  <2> QED
    BY <2>1, <2>2, <1>7 DEF RunEnds
<1>8. CASE StepBegins
    BY <1>t, <1>8 DEF StepBegins, Throws, WorkHolds
<1>9. CASE TrainingStopped
    BY <1>t, <1>9 DEF TrainingStopped, Throws, WorkHolds
<1>10. CASE SourcesRead
    BY <1>t, <1>10 DEF SourcesRead, Throws, WorkHolds
<1>11. CASE Saves
    BY <1>t, <1>11 DEF Saves, Throws, WorkHolds
<1>12. CASE CreateFails
    BY <1>t, <1>12 DEF CreateFails, WriteFails, WorkHolds
<1>13. CASE StepFails
    BY <1>t, <1>13 DEF StepFails, WriteFails, Throws, WorkHolds
<1>14. CASE FitsFails
    BY <1>t, <1>14 DEF FitsFails, WriteFails, WorkHolds
<1>15. CASE CloseAborts
    BY <1>t, <1>15 DEF CloseAborts, WorkHolds
<1>16. CASE ModelClosed
    BY <1>t, <1>16 DEF ModelClosed, WorkHolds
<1>17. CASE Cancel
    BY <1>t, <1>17 DEF Cancel, WorkHolds
<1>18. CASE ModelCloses
    BY <1>t, <1>18 DEF ModelCloses, WorkHolds
<1>19. CASE Fits
    BY <1>t, <1>19 DEF Fits, WorkHolds
<1>20. CASE Trained
    BY <1>t, <1>20 DEF Trained, WorkHolds
<1>21. CASE TrainingFails
    BY <1>t, <1>21 DEF TrainingFails, WorkHolds
<1>22. CASE SourcesChange
    BY <1>t, <1>22 DEF SourcesChange, WorkHolds
<1>23. CASE Crash
    BY <1>t, <1>23 DEF Crash, WorkHolds
<1>24. CASE Restart
  <2> DEFINE found == IF Created = {} THEN NoJob ELSE [id |-> Newest, state |-> journal[Newest]]
             put == IF found.state = "running" THEN [found EXCEPT !.state = "failed"] ELSE found
  <2>1. Created # {} => Newest \in ModelJob
    BY CreatedHasNewest DEF Created
  <2>2. latest' = put /\ journal' = [j \in ModelJob |-> IF j = put.id THEN put.state ELSE journal[j]]
    BY <1>24 DEF Restart
  <2>3. CASE Created = {}
    BY <2>2, <2>3 DEF NoJob
  <2>4. CASE Created # {}
    <3>1. put.id = Newest /\ put.state \in Ended \cup {"none"}
      BY <2>1, <2>4, <1>t DEF JobState, Ended
    <3>2. latest'.id = Newest /\ latest'.state = put.state /\ journal'[Newest] = put.state
      BY <2>1, <2>2, <2>4, <3>1
    <3> QED
      BY <3>1, <3>2
  <2> QED
    BY <2>3, <2>4
<1>25. ASSUME NEW j \in ModelJob, Create(j) PROVE LatestHolds'
    BY <1>t, <1>25 DEF Create
<1>26. CASE UNCHANGED modelVars
    BY <1>t, <1>26 DEF modelVars
<1> QED
    BY <1>1, <1>2, <1>3, <1>4, <1>5, <1>6, <1>7, <1>8, <1>9, <1>10, <1>11, <1>12, <1>13, <1>14, <1>15, <1>16, <1>17, <1>18, <1>19, <1>20, <1>21, <1>22, <1>23, <1>24, <1>25, <1>26
    DEF ModelNext, Commits, Turns

\* Every step keeps what the steps before have published.
LEMMA StepsKept == ModelInv /\ [ModelNext]_modelVars => StepsHold'
<1> SUFFICES ASSUME ModelInv, [ModelNext]_modelVars PROVE StepsHold'
    OBVIOUS
<1> USE DEF StepsHold
<1>t. ModelTypes /\ WorkHolds /\ StepHolds /\ StepsHold
    BY DEF ModelInv
<1>u. ModelTypes'
    BY ModelTypesKept
<1>k. LastKind \in Nat /\ ModelKind = 1 .. LastKind
    BY KindsAreCounted
<1>f. UNCHANGED <<published, since>> => \A k \in ModelKind : IsFit(k) => IsFit(k)'
    BY DEF IsFit, HashOf
<1>d. UNCHANGED <<published, since, trained, step>> /\ TrainedIsFit => TrainedIsFit'
    BY DEF TrainedIsFit, HashOf
<1>1. CASE FitsWritten
    BY <1>t, <1>f, <1>d, <1>1 DEF FitsWritten, modelData, Fitting
<1>2. CASE CreateWritten
    BY <1>t, <1>f, <1>d, <1>2 DEF CreateWritten, Written, modelData, Fitting
<1>3. CASE TrainingBegins
  <2>1. trained' = [source |-> sources, base |-> IF step = LastKind /\ step > 1 THEN HashOf(step - 1) ELSE 0]
        => TrainedIsFit'
    BY <1>t, <1>3 DEF TrainingBegins, TrainedIsFit, HashOf, ModelTypes
  <2>2. stage = "starting" /\ UNCHANGED <<published, since, step>>
    BY <1>3 DEF TrainingBegins, Written
  <2>3. CASE aborted
    BY <1>t, <1>f, <2>2, <2>3, <1>3 DEF TrainingBegins, Throws, Fitting, WorkHolds, ModelTypes
  <2>4. CASE ~ aborted
    BY <1>t, <1>f, <2>1, <2>2, <2>4, <1>3 DEF TrainingBegins
  <2> QED
    BY <2>3, <2>4
<1>4. CASE CheckWritten
    BY <1>t, <1>f, <1>d, <1>4 DEF CheckWritten, Written, modelData, Fitting
<1>5. CASE PublishWritten
    BY <1>t, <1>f, <1>d, <1>5 DEF PublishWritten, Written, modelData, Fitting
<1>6. CASE StepWritten
  <2>1. stage = "stepped" /\ stage' = "step" /\ step' = step + 1 /\ UNCHANGED <<published, since>>
    BY <1>6 DEF StepWritten, Written
  <2>2. \A k \in ModelKind : k < step' => k < step \/ k = step
    BY <1>t, <1>k, <2>1 DEF ModelTypes
  <2> QED
    BY <1>t, <1>f, <2>1, <2>2 DEF Fitting
<1>7. CASE RunEnds
    BY <1>7 DEF RunEnds, Fitting
<1>8. CASE StepBegins
  <2>1. stage = "step" /\ UNCHANGED <<published, since, step>>
    BY <1>8 DEF StepBegins, modelData
  <2>2. CASE step > LastKind
    BY <1>t, <1>f, <2>1, <2>2, <1>8 DEF StepBegins, Fitting
  <2>3. CASE ~ (step > LastKind) /\ stage' = "stepped" /\ IsCurrent(step)
    <3>1. IsFit(step)'
      BY <2>1, <2>3, <1>t DEF IsCurrent, IsFit, HashOf, ModelTypes
    <3> QED
      BY <1>t, <1>f, <2>1, <2>3, <3>1 DEF Fitting
  <2>4. CASE stage' = "starting"
    BY <1>t, <1>f, <2>1, <2>4 DEF Fitting
  <2>5. CASE Throws
    BY <1>t, <1>f, <2>1, <2>5 DEF Throws, Fitting, ModelTypes
  <2> QED
    BY <2>2, <2>3, <2>4, <2>5, <1>8 DEF StepBegins
<1>9. CASE TrainingStopped
    BY <1>t, <1>f, <1>d, <1>9 DEF TrainingStopped, Throws, modelData, Fitting
<1>10. CASE SourcesRead
  <2>1. stage = "sources" /\ UNCHANGED <<published, since, trained, step>>
    BY <1>10 DEF SourcesRead, modelData
  <2>2. CASE stage' = "publishing"
    BY <1>t, <1>f, <1>d, <2>1, <2>2 DEF Fitting
  <2>3. CASE Throws
    BY <1>t, <1>f, <2>1, <2>3 DEF Throws, Fitting, ModelTypes
  <2> QED
    BY <2>2, <2>3, <1>10 DEF SourcesRead
<1>11. CASE Saves
  <2>1. stage = "saving" /\ UNCHANGED <<since, step>>
    BY <1>11 DEF Saves
  <2>2. CASE Throws /\ UNCHANGED published
    BY <1>t, <1>f, <2>1, <2>2 DEF Throws, Fitting, ModelTypes
  <2>3. CASE stage' = "stepped" /\ published' = [published EXCEPT ![step] = trained]
    <3>1. step \in ModelKind /\ step \in Nat
      BY <1>t, <1>k, <2>1 DEF StepHolds, OnStep, Fitting, ModelTypes
    <3>2. \A k \in ModelKind : published'[k] = IF k = step THEN trained ELSE published[k]
      BY <1>t, <2>3 DEF ModelTypes
    <3>3. IsFit(step)'
      <4>1. TrainedIsFit
        BY <1>t, <2>1 DEF Fitting
      <4>2. step > 1 => step - 1 \in ModelKind /\ step - 1 # step
        BY <3>1, <1>k
      <4> QED
        BY <4>1, <4>2, <3>1, <3>2, <2>1 DEF TrainedIsFit, IsFit, HashOf
    <3>4. ASSUME NEW k \in ModelKind, k < step PROVE IsFit(k)'
      <4>1. IsFit(k)
        BY <1>t, <2>1, <3>4
      <4>2. k # step /\ (k > 1 => k - 1 \in ModelKind /\ k - 1 # step)
        BY <3>1, <3>4, <1>k
      <4> QED
        BY <4>1, <4>2, <3>2, <2>1 DEF IsFit, HashOf
    <3> QED
      BY <3>3, <3>4, <2>1, <2>3 DEF Fitting
  <2> QED
    BY <2>2, <2>3, <1>11 DEF Saves
<1>12. CASE CreateFails
    BY <1>12 DEF CreateFails, Fitting
<1>13. CASE StepFails
    BY <1>t, <1>f, <1>d, <1>13 DEF StepFails, WriteFails, Throws, modelData, Fitting
<1>14. CASE FitsFails
    BY <1>t, <1>f, <1>d, <1>14 DEF FitsFails, WriteFails, modelData, Fitting
<1>15. CASE CloseAborts
    BY <1>t, <1>f, <1>d, <1>15 DEF CloseAborts, modelData, Fitting
<1>16. CASE ModelClosed
    BY <1>t, <1>f, <1>d, <1>16 DEF ModelClosed, modelData, Fitting
<1>17. CASE Cancel
    BY <1>t, <1>f, <1>d, <1>17 DEF Cancel, modelData, Fitting
<1>18. CASE ModelCloses
    BY <1>t, <1>f, <1>d, <1>18 DEF ModelCloses, modelData, Fitting
<1>19. CASE Fits
    BY <1>t, <1>f, <1>d, <1>19 DEF Fits, modelData, Fitting
<1>20. CASE Trained
    BY <1>t, <1>f, <1>d, <1>20 DEF Trained, modelData, Fitting
<1>21. CASE TrainingFails
    BY <1>t, <1>f, <1>d, <1>21 DEF TrainingFails, modelData, Fitting
<1>22. CASE SourcesChange
    BY <1>t, <1>f, <1>d, <1>22 DEF SourcesChange, modelData, Fitting
<1>23. CASE Crash
    BY <1>23 DEF Crash, Fitting
<1>24. CASE Restart
    BY <1>t, <1>24 DEF Restart, Fitting, WorkHolds
<1>25. ASSUME NEW j \in ModelJob, Create(j) PROVE StepsHold'
    BY <1>k, <1>25 DEF Create, Fitting
<1>26. CASE UNCHANGED modelVars
    BY <1>t, <1>f, <1>d, <1>26 DEF modelVars
<1> QED
    BY <1>1, <1>2, <1>3, <1>4, <1>5, <1>6, <1>7, <1>8, <1>9, <1>10, <1>11, <1>12, <1>13, <1>14, <1>15, <1>16, <1>17, <1>18, <1>19, <1>20, <1>21, <1>22, <1>23, <1>24, <1>25, <1>26
    DEF ModelNext, Commits, Turns

\* The invariant is inductive.
LEMMA ModelInvHolds == ModelSpec => []ModelInv
<1>1. ModelInv /\ [ModelNext]_modelVars => ModelInv'
    BY ModelTypesKept, WorkKept, StepKept, OrderKept, RunningKept, LatestKept, StepsKept DEF ModelInv
<1> QED
    BY ModelStarts, <1>1, PTL DEF ModelSpec

\* Whoever reads a model job that has ended reads its end, and one that succeeded has a model of
\* the sources it began with, for any number of jobs, kinds, crashes and failures.
THEOREM ModelJobsTold == ModelSpec => []ModelJobsAreTold
<1>1. ASSUME ModelInv PROVE EndsAreKept
    BY <1>1 DEF ModelInv, EndsAreKept, WorkHolds, RunningHolds, LatestHolds
<1>2. ASSUME ModelInv PROVE SuccessIsCurrent
  <2>1. SUFFICES ASSUME stage = "ending", current.state = "succeeded" PROVE \A k \in ModelKind : IsFit(k)
    BY DEF SuccessIsCurrent, IsFit
  <2>2. step > LastKind /\ step \in Nat
    BY <1>2, <2>1 DEF ModelInv, StepsHold, ModelTypes
  <2>3. \A k \in ModelKind : k < step
    BY <2>2, KindsAreCounted
  <2> QED
    BY <1>2, <2>1, <2>3 DEF ModelInv, StepsHold
<1> QED
    BY ModelInvHolds, <1>1, <1>2, PTL DEF ModelJobsAreTold

-----------------------------------------------------------------------------
(* The discoveries *)

\* The shapes of the variables.
OpenStatus == {"queued", "running"}
DiscoveryStatus == EndedStatus \cup OpenStatus \cup {"none"}
AtWorkRuns == {"begin", "explore", "entries", "catch"}
DiscoveryRuns == AtWorkRuns \cup {"none", "record", "ended", "rejected"}
DiscoveryTypes ==
    /\ discoveryDisk \in [Discovery -> DiscoveryStatus]
    /\ entriesDisk \in [Discovery -> {"none", "seen", "all"}]
    /\ creation \in Seq(Discovery) /\ Distinct(creation)
    /\ creating \in [Discovery -> {"none", "chained", "reading", "saving", "answered"}]
    /\ discoveryTasks \in Seq(Discovery)
    /\ discoveryStatus \in [Discovery -> DiscoveryStatus]
    /\ discoveryRuns \in [Discovery -> DiscoveryRuns]
    /\ cancelling \in [Discovery -> {"none", "saving", "awaiting", "returned"}]

\* The call of create() that is at work reads and saves alone: none has its key when it
\* saves, and nothing is there of a call that has not saved.
CreationHolds ==
    /\ \A d \in Discovery :
          /\ d \in ToSet(creation) <=> creating[d] \in {"chained", "reading", "saving"}
          /\ creating[d] \in {"reading", "saving"} => Head(creation) = d
          /\ creating[d] # "answered" => discoveryDisk[d] = "none"
          /\ creating[d] = "saving" => \A e \in Discovery : ~HasKey(e, d)
    /\ \A d, e \in Discovery : HasKey(d, e) /\ discoveryDisk[e] # "none" => d = e

\* A run is at work while its record says so in memory, which is so of one of them.
RunsOf(ts, ss, es) ==
    /\ \A d \in Discovery :
          /\ es[d] = "none" => ss[d] \in {"none", "queued", "cancelled"}
          /\ es[d] \in AtWorkRuns => ss[d] = "running"
          /\ es[d] \in {"record", "ended"} => ss[d] \in EndedStatus
          /\ es[d] = "rejected" => ss[d] \in EndedStatus \cup {"running"}
          /\ ss[d] = "running" => d \in ToSet(ts)
    /\ \A d, e \in Discovery : ss[d] = "running" /\ ss[e] = "running" => d = e
RunsHold == RunsOf(discoveryTasks, discoveryStatus, discoveryRuns)

\* What memory says beside what is on disk: a record that is still to be written is open
\* on disk.
DiskOf(ds, entries, ss, es, cs) ==
    \A d \in Discovery :
       /\ ss[d] # "none" => ds[d] # "none"
       /\ ss[d] \in OpenStatus \/ es[d] = "record" \/ cs[d] = "saving" => ds[d] \in OpenStatus
       /\ cs[d] = "saving" => ss[d] = "cancelled" /\ es[d] = "none"
       /\ ss[d] = "succeeded" \/ ds[d] = "succeeded" => entries[d] = "all"
DiskHolds == DiskOf(discoveryDisk, entriesDisk, discoveryStatus, discoveryRuns, cancelling)

\* A server that restores has nothing in its memory yet.
RestoreHolds ==
    serviceState \in {"down", "restoring"} =>
       \A d \in Discovery :
          discoveryStatus[d] = "none" /\ discoveryRuns[d] = "none" /\ cancelling[d] = "none"

DiscoveryInv == DiscoveryTypes /\ CreationHolds /\ RunsHold /\ DiskHolds /\ RestoreHolds

\* The invariant holds of a server that never ran.
LEMMA DiscoveryStarts == DiscoveryInit => DiscoveryInv
<1> SUFFICES ASSUME DiscoveryInit PROVE DiscoveryInv
    OBVIOUS
<1> USE DEF DiscoveryInit, AllDiscoveries
<1>1. ToSet(creation) = {} /\ Distinct(creation)
    BY NoneQueued
<1>2. DiscoveryTypes
    BY <1>1 DEF DiscoveryTypes, DiscoveryStatus, OpenStatus, EndedStatus, DiscoveryRuns, AtWorkRuns
<1>3. CreationHolds
    BY <1>1 DEF CreationHolds, HasKey
<1>4. RunsHold /\ DiskHolds /\ RestoreHolds
    BY DEF RunsHold, RunsOf, DiskHolds, DiskOf, RestoreHolds, OpenStatus, EndedStatus, AtWorkRuns
<1> QED
    BY <1>2, <1>3, <1>4 DEF DiscoveryInv

\* A pump leaves what it is given, or begins one that is queued when none runs.
LEMMA PumpStep ==
    ASSUME NEW ts \in Seq(Discovery), NEW ss, NEW es, Pumps(ts, ss, es)
    PROVE  \/ discoveryStatus' = ss /\ discoveryRuns' = es
           \/ \E f \in ToSet(ts) :
                 /\ serviceState = "up" /\ ss[f] = "queued"
                 /\ \A e \in ToSet(ts) : ss[e] # "running"
                 /\ discoveryStatus' = [ss EXCEPT ![f] = "running"]
                 /\ discoveryRuns' = [es EXCEPT ![f] = "begin"]
<1> DEFINE queued == {i \in 1 .. Len(ts) : ss[ts[i]] = "queued"}
           first == ts[CHOOSE i \in queued : \A n \in queued : i <= n]
<1>1. CASE serviceState # "up" \/ queued = {} \/ \E i \in 1 .. Len(ts) : ss[ts[i]] = "running"
    BY <1>1 DEF Pumps
<1>2. CASE ~ (serviceState # "up" \/ queued = {} \/ \E i \in 1 .. Len(ts) : ss[ts[i]] = "running")
  <2>1. queued \in SUBSET Nat /\ queued # {}
    BY <1>2
  <2>2. \E i \in queued : \A n \in queued : i <= n
    <3> HIDE DEF queued
    <3> QED
      BY <2>1, FirstExists
  <2>3. (CHOOSE i \in queued : \A n \in queued : i <= n) \in queued
    BY <2>2
  <2>4. ToSet(ts) = {ts[i] : i \in 1 .. Len(ts)}
    BY QueuedAt
  <2>5. first \in ToSet(ts) /\ ss[first] = "queued"
    BY <2>3, <2>4
  <2>6. /\ discoveryStatus' = [ss EXCEPT ![first] = "running"]
        /\ discoveryRuns' = [es EXCEPT ![first] = "begin"]
    BY <1>2 DEF Pumps
  <2>7. serviceState = "up" /\ \A e \in ToSet(ts) : ss[e] # "running"
    BY <1>2, <2>4
  <2> HIDE DEF first
  <2> QED
    BY <2>5, <2>6, <2>7
<1> QED
    BY <1>1, <1>2

\* It keeps what holds of the records and the runs it is given.
LEMMA PumpKeeps ==
    ASSUME NEW ts \in Seq(Discovery),
           NEW ss \in [Discovery -> DiscoveryStatus], NEW es \in [Discovery -> DiscoveryRuns],
           NEW ds, NEW entries, NEW cs,
           RunsOf(ts, ss, es), DiskOf(ds, entries, ss, es, cs), Pumps(ts, ss, es)
    PROVE  /\ discoveryStatus' \in [Discovery -> DiscoveryStatus]
           /\ discoveryRuns' \in [Discovery -> DiscoveryRuns]
           /\ RunsOf(ts, discoveryStatus', discoveryRuns')
           /\ DiskOf(ds, entries, discoveryStatus', discoveryRuns', cs)
           /\ \A d \in Discovery : discoveryStatus'[d] = ss[d] \/ serviceState = "up"
           /\ \A d \in Discovery : discoveryRuns'[d] = es[d] \/ serviceState = "up"
<1>1. CASE discoveryStatus' = ss /\ discoveryRuns' = es
    BY <1>1
<1>2. ASSUME NEW f \in ToSet(ts), serviceState = "up", ss[f] = "queued",
             \A e \in ToSet(ts) : ss[e] # "running",
             discoveryStatus' = [ss EXCEPT ![f] = "running"],
             discoveryRuns' = [es EXCEPT ![f] = "begin"]
      PROVE  /\ discoveryStatus' \in [Discovery -> DiscoveryStatus]
             /\ discoveryRuns' \in [Discovery -> DiscoveryRuns]
             /\ RunsOf(ts, discoveryStatus', discoveryRuns')
             /\ DiskOf(ds, entries, discoveryStatus', discoveryRuns', cs)
  <2>1. f \in Discovery
    BY QueuedAt
  <2>2. /\ discoveryStatus' \in [Discovery -> DiscoveryStatus]
        /\ discoveryRuns' \in [Discovery -> DiscoveryRuns]
    BY <1>2, <2>1 DEF DiscoveryStatus, OpenStatus, DiscoveryRuns, AtWorkRuns
  <2>3. RunsOf(ts, discoveryStatus', discoveryRuns')
    BY <1>2, <2>1 DEF RunsOf, AtWorkRuns
  <2>4. DiskOf(ds, entries, discoveryStatus', discoveryRuns', cs)
    BY <1>2, <2>1 DEF DiskOf, OpenStatus
  <2> QED
    BY <2>2, <2>3, <2>4
<1> QED
    BY <1>1, <1>2, PumpStep

\* create(): the chain, what is read and what is saved.
LEMMA CreationStep ==
    ASSUME DiscoveryInv, UNCHANGED keyOf, NEW d \in Discovery,
           CreateDiscovery(d) \/ Creates(d) \/ CreationFails(d)
    PROVE  DiscoveryInv'
<1>t. DiscoveryTypes /\ CreationHolds /\ RunsHold /\ DiskHolds /\ RestoreHolds
    BY DEF DiscoveryInv
<1>q. creation \in Seq(Discovery) /\ Distinct(creation) /\ ToSet(creation) \subseteq Discovery
    BY <1>t, QueuedAt DEF DiscoveryTypes
<1>h. ASSUME creation # <<>>
      PROVE  /\ Tail(creation) \in Seq(Discovery) /\ Distinct(Tail(creation))
             /\ ToSet(Tail(creation)) = ToSet(creation) \ {Head(creation)} /\ Head(creation) \in ToSet(creation)
    BY <1>h, <1>q, Dequeued
\* A call that answers leaves the chain, and a call that waits in it is at its head next.
<1>a. ASSUME creation # <<>>, Head(creation) = d, CreationAnswers(d), UNCHANGED discoveryDisk
      PROVE  CreationHolds' /\ creation' \in Seq(Discovery) /\ Distinct(creation')
             /\ creating' \in [Discovery -> {"none", "chained", "reading", "saving", "answered"}]
    BY <1>a, <1>h, <1>t DEF CreationAnswers, CreationHolds, HasKey, DiscoveryTypes
<1>u. ASSUME UNCHANGED <<discoveryFiles, taskVars, serviceState>>
      PROVE  (RunsHold /\ DiskHolds /\ RestoreHolds)'
    BY <1>u, <1>t DEF RunsHold, DiskHolds, RestoreHolds, discoveryFiles, taskVars, signalVars
<1>1. CASE CreateDiscovery(d)
  <2>1. d \notin ToSet(creation)
    BY <1>1, <1>t DEF CreateDiscovery, CreationHolds
  <2>2. /\ creation' \in Seq(Discovery) /\ Distinct(creation') /\ ToSet(creation') = ToSet(creation) \cup {d}
    BY <1>1, <1>q, <2>1, Enqueued DEF CreateDiscovery
  <2>3. \A e \in Discovery : creating[e] \in {"reading", "saving"} => Head(creation') = Head(creation)
    <3>1. ASSUME creation # <<>> PROVE Head(creation') = Head(creation)
      <4>1. Len(creation) > 0 /\ Len(creation) \in Nat
        BY <3>1, <1>q, QueuedAt
      <4> QED
        BY <1>1, <1>q, <4>1, AppendProperties, HeadTailProperties DEF CreateDiscovery
    <3>2. ToSet(<<>>) = {}
      BY NoneQueued
    <3> QED
      BY <3>1, <3>2, <1>t DEF CreationHolds
  <2>4. DiscoveryTypes'
    BY <1>1, <1>t, <2>2 DEF DiscoveryTypes, CreateDiscovery, discoveryFiles, taskVars, signalVars
  <2>5. CreationHolds'
    BY <1>1, <1>t, <2>2, <2>3 DEF CreationHolds, HasKey, CreateDiscovery, discoveryFiles, DiscoveryTypes
  <2> QED
    BY <1>1, <1>u, <2>4, <2>5 DEF CreateDiscovery, DiscoveryInv
<1>2. CASE CreationBegins(d) \/ CreationReads(d)
  <2>0. /\ creation # <<>> /\ Head(creation) = d /\ creating[d] \in {"chained", "reading"}
        /\ UNCHANGED <<discoveryFiles, taskVars, serviceState>>
    BY <1>2 DEF CreationBegins, CreationReads, AtWork
  <2>1. CASE CreationAnswers(d)
    <3>1. DiscoveryTypes'
      BY <2>0, <2>1, <1>a, <1>t DEF DiscoveryTypes, discoveryFiles, taskVars, signalVars
    <3> QED
      BY <3>1, <2>0, <2>1, <1>a, <1>u DEF DiscoveryInv, discoveryFiles
  <2>2. ASSUME NEW s \in {"reading", "saving"}, UNCHANGED creation,
               creating' = [creating EXCEPT ![d] = s], s = "saving" => \A e \in Discovery : ~HasKey(e, d)
        PROVE  DiscoveryInv'
    <3>1. DiscoveryTypes'
      BY <2>0, <2>2, <1>t DEF DiscoveryTypes, discoveryFiles, taskVars, signalVars
    <3>2. CreationHolds'
      BY <2>0, <2>2, <1>t DEF CreationHolds, HasKey, discoveryFiles, DiscoveryTypes
    <3> QED
      BY <3>1, <3>2, <2>0, <1>u DEF DiscoveryInv
  <2> QED
    BY <1>2, <2>1, <2>2 DEF CreationBegins, CreationReads
<1>3. CASE CreationFails(d)
  <2>0. /\ creation # <<>> /\ Head(creation) = d /\ CreationAnswers(d)
        /\ UNCHANGED <<discoveryFiles, taskVars, serviceState>>
    BY <1>3 DEF CreationFails, AtWork
  <2>1. DiscoveryTypes'
    BY <2>0, <1>a, <1>t DEF DiscoveryTypes, discoveryFiles, taskVars, signalVars
  <2> QED
    BY <2>0, <2>1, <1>a, <1>u DEF DiscoveryInv, discoveryFiles
<1>4. CASE CreationSaves(d)
  <2> DEFINE ss == [discoveryStatus EXCEPT ![d] = "queued"]
             ts == Append(discoveryTasks, d)
  <2>0. /\ creation # <<>> /\ Head(creation) = d /\ creating[d] = "saving" /\ CreationAnswers(d) /\ Serving
        /\ discoveryDisk' = [discoveryDisk EXCEPT ![d] = "queued"] /\ discoveryTasks' = ts
        /\ Pumps(ts, ss, discoveryRuns)
        /\ UNCHANGED <<entriesDisk, cancelling, serviceState>>
    BY <1>4 DEF CreationSaves, AtWork, SaveRecord, signalVars
  <2>1. ts \in Seq(Discovery) /\ ss \in [Discovery -> DiscoveryStatus]
    BY <1>t, AppendProperties DEF DiscoveryTypes, DiscoveryStatus, OpenStatus
  <2>2. ToSet(discoveryTasks) \subseteq ToSet(ts)
    <3>1. /\ Len(discoveryTasks) \in Nat /\ Len(ts) = Len(discoveryTasks) + 1
          /\ \A i \in 1 .. Len(discoveryTasks) : ts[i] = discoveryTasks[i]
      BY <1>t, AppendProperties, QueuedAt DEF DiscoveryTypes
    <3>2. ToSet(discoveryTasks) = {discoveryTasks[i] : i \in 1 .. Len(discoveryTasks)}
      BY <1>t, QueuedAt DEF DiscoveryTypes
    <3>3. ToSet(ts) = {ts[i] : i \in 1 .. Len(ts)}
      BY <2>1, QueuedAt
    <3>4. 1 .. Len(discoveryTasks) \subseteq 1 .. Len(ts)
      BY <3>1
    <3> HIDE DEF ts
    <3> QED
      BY <3>1, <3>2, <3>3, <3>4
  <2>3. /\ discoveryDisk[d] = "none" /\ discoveryStatus[d] = "none" /\ discoveryRuns[d] = "none"
        /\ cancelling[d] # "saving"
    BY <2>0, <1>t DEF CreationHolds, DiskHolds, DiskOf, RunsHold, RunsOf, DiscoveryTypes, DiscoveryRuns,
       AtWorkRuns, EndedStatus, OpenStatus
  <2>4. RunsOf(ts, ss, discoveryRuns)
    BY <2>2, <2>3, <1>t DEF RunsHold, RunsOf, DiscoveryTypes, AtWorkRuns
  <2>5. DiskOf(discoveryDisk', entriesDisk, ss, discoveryRuns, cancelling)
    BY <2>0, <2>3, <1>t DEF DiskHolds, DiskOf, DiscoveryTypes, OpenStatus
  <2> HIDE DEF ss, ts
  <2>6. /\ discoveryStatus' \in [Discovery -> DiscoveryStatus]
        /\ discoveryRuns' \in [Discovery -> DiscoveryRuns]
        /\ RunsOf(ts, discoveryStatus', discoveryRuns')
        /\ DiskOf(discoveryDisk', entriesDisk, discoveryStatus', discoveryRuns', cancelling)
    BY <2>0, <2>1, <2>4, <2>5, <1>t, PumpKeeps DEF DiscoveryTypes
  <2>7. /\ creation' \in Seq(Discovery) /\ Distinct(creation')
        /\ creating' \in [Discovery -> {"none", "chained", "reading", "saving", "answered"}]
        /\ ToSet(creation') = ToSet(creation) \ {d}
        /\ creating' = [creating EXCEPT ![d] = "answered"]
    BY <2>0, <1>h, <1>t DEF CreationAnswers, DiscoveryTypes
  <2>8. DiscoveryTypes'
    BY <1>t, <2>0, <2>1, <2>6, <2>7 DEF DiscoveryTypes, DiscoveryStatus, OpenStatus
  <2>9. CreationHolds'
    BY <1>t, <2>0, <2>7 DEF CreationHolds, HasKey, DiscoveryTypes
  <2>10. (RunsHold /\ DiskHolds /\ RestoreHolds)'
    BY <2>0, <2>6 DEF RunsHold, DiskHolds, RestoreHolds, Serving
  <2> QED
    BY <2>8, <2>9, <2>10 DEF DiscoveryInv
<1> QED
    BY <1>1, <1>2, <1>3, <1>4 DEF Creates

\* What leaves the calls of create() alone keeps what holds of them, as long as no file
\* appears or goes.
LEMMA CreationStays ==
    ASSUME CreationHolds, UNCHANGED <<keyOf, creationVars>>,
           \A d \in Discovery : discoveryDisk'[d] = "none" <=> discoveryDisk[d] = "none"
    PROVE  CreationHolds'
BY DEF CreationHolds, HasKey, creationVars

\* The steps of run().
LEMMA DiscoveryRunStep ==
    ASSUME DiscoveryInv, UNCHANGED keyOf, NEW d \in Discovery,
           Runs(d) \/ PageSeen(d) \/ RunThrows(d) \/ (RunRejects(d) /\ cancelling[d] = "awaiting")
    PROVE  DiscoveryInv'
<1>t. DiscoveryTypes /\ CreationHolds /\ RunsHold /\ DiskHolds /\ RestoreHolds
    BY DEF DiscoveryInv
<1> USE DEF EndedStatus, OpenStatus, DiscoveryStatus, DiscoveryRuns, AtWorkRuns
\* The record is saved as memory has it, while the run goes on.
<1>1. ASSUME discoveryRuns[d] \in {"begin", "explore"}, Serving,
             discoveryDisk' = [discoveryDisk EXCEPT ![d] = discoveryStatus[d]],
             \/ discoveryRuns' = [discoveryRuns EXCEPT ![d] = "explore"] \/ UNCHANGED discoveryRuns,
             UNCHANGED <<entriesDisk, creationVars, discoveryTasks, discoveryStatus, signalVars, serviceState>>
      PROVE  DiscoveryInv'
  <2>1. discoveryStatus[d] = "running" /\ discoveryDisk[d] \in OpenStatus
    BY <1>1, <1>t DEF RunsHold, RunsOf, DiskHolds, DiskOf
  <2>2. DiscoveryTypes'
    BY <1>1, <1>t, <2>1 DEF DiscoveryTypes, creationVars, signalVars
  <2>3. CreationHolds'
    BY <1>1, <1>t, <2>1, CreationStays DEF DiscoveryTypes
  <2>4. RunsHold'
    BY <1>1, <1>t, <2>1 DEF RunsHold, RunsOf, DiscoveryTypes
  <2>5. DiskHolds'
    BY <1>1, <1>t, <2>1 DEF DiskHolds, DiskOf, DiscoveryTypes, signalVars
  <2>6. RestoreHolds'
    BY <1>1 DEF RestoreHolds, Serving
  <2> QED
    BY <2>2, <2>3, <2>4, <2>5, <2>6 DEF DiscoveryInv
\* It comes to its end, or to its catch.
<1>2. ASSUME discoveryRuns[d] \in AtWorkRuns, Serving, NEW s \in {"entries", "catch"},
             discoveryRuns' = [discoveryRuns EXCEPT ![d] = s],
             UNCHANGED <<discoveryFiles, creationVars, discoveryTasks, discoveryStatus, signalVars, serviceState>>
      PROVE  DiscoveryInv'
  <2>1. discoveryStatus[d] = "running"
    BY <1>2, <1>t DEF RunsHold, RunsOf
  <2>2. DiscoveryTypes'
    BY <1>2, <1>t DEF DiscoveryTypes, creationVars, signalVars, discoveryFiles
  <2>3. CreationHolds'
    BY <1>2, <1>t, CreationStays DEF discoveryFiles
  <2>4. RunsHold'
    BY <1>2, <1>t, <2>1 DEF RunsHold, RunsOf, DiscoveryTypes
  <2>5. DiskHolds'
    BY <1>2, <1>t, <2>1 DEF DiskHolds, DiskOf, DiscoveryTypes, signalVars, discoveryFiles
  <2>6. RestoreHolds'
    BY <1>2 DEF RestoreHolds, Serving
  <2> QED
    BY <2>2, <2>3, <2>4, <2>5, <2>6 DEF DiscoveryInv
\* Its entries are saved, and its record in memory has an end.
<1>3. ASSUME NEW entries \in {"none", "seen", "all"}, NEW s \in EndedStatus, EntriesSaved(d, entries, s),
             discoveryRuns[d] \in {"entries", "catch"}, Serving, s = "succeeded" => entries = "all"
      PROVE  DiscoveryInv'
  <2>0. /\ entriesDisk' = [entriesDisk EXCEPT ![d] = entries]
        /\ discoveryStatus' = [discoveryStatus EXCEPT ![d] = s]
        /\ discoveryRuns' = [discoveryRuns EXCEPT ![d] = "record"]
        /\ UNCHANGED <<discoveryDisk, creationVars, discoveryTasks, cancelling, serviceState>>
    BY <1>3 DEF EntriesSaved, Executes, signalVars
  <2>1. discoveryStatus[d] = "running" /\ discoveryDisk[d] \in OpenStatus /\ cancelling[d] # "saving"
    BY <1>3, <1>t DEF RunsHold, RunsOf, DiskHolds, DiskOf
  <2>2. DiscoveryTypes'
    BY <2>0, <1>t DEF DiscoveryTypes, creationVars
  <2>3. CreationHolds'
    BY <2>0, <1>t, CreationStays
  <2>4. RunsHold'
    BY <2>0, <1>t, <2>1 DEF RunsHold, RunsOf, DiscoveryTypes
  <2>5. DiskHolds'
    BY <1>3, <2>0, <1>t, <2>1 DEF DiskHolds, DiskOf, DiscoveryTypes
  <2>6. RestoreHolds'
    BY <1>3, <2>0 DEF RestoreHolds, Serving
  <2> QED
    BY <2>2, <2>3, <2>4, <2>5, <2>6 DEF DiscoveryInv
<1>4. CASE DiscoveryRunEnds(d)
  <2> DEFINE es == [discoveryRuns EXCEPT ![d] = "ended"]
  <2>0. /\ discoveryRuns[d] = "record" /\ Serving
        /\ discoveryDisk' = [discoveryDisk EXCEPT ![d] = discoveryStatus[d]]
        /\ Pumps(discoveryTasks, discoveryStatus, es)
        /\ UNCHANGED <<entriesDisk, creationVars, discoveryTasks, cancelling, serviceState>>
    BY <1>4 DEF DiscoveryRunEnds, Running, SaveRecord, signalVars
  <2>1. discoveryStatus[d] \in EndedStatus /\ discoveryDisk[d] \in OpenStatus /\ cancelling[d] # "saving"
    BY <2>0, <1>t DEF RunsHold, RunsOf, DiskHolds, DiskOf
  <2>2. RunsOf(discoveryTasks, discoveryStatus, es)
    BY <2>0, <2>1, <1>t DEF RunsHold, RunsOf, DiscoveryTypes
  <2>3. DiskOf(discoveryDisk', entriesDisk, discoveryStatus, es, cancelling)
    BY <2>0, <2>1, <1>t DEF DiskHolds, DiskOf, DiscoveryTypes
  <2>4. es \in [Discovery -> DiscoveryRuns]
    BY <1>t DEF DiscoveryTypes
  <2> HIDE DEF es
  <2>5. /\ discoveryStatus' \in [Discovery -> DiscoveryStatus]
        /\ discoveryRuns' \in [Discovery -> DiscoveryRuns]
        /\ RunsOf(discoveryTasks, discoveryStatus', discoveryRuns')
        /\ DiskOf(discoveryDisk', entriesDisk, discoveryStatus', discoveryRuns', cancelling)
    <3>1. /\ discoveryTasks \in Seq(Discovery) /\ discoveryStatus \in [Discovery -> DiscoveryStatus]
      BY <1>t DEF DiscoveryTypes
    <3> QED
      BY <3>1, <2>0, <2>2, <2>3, <2>4, PumpKeeps
  <2>6. DiscoveryTypes'
    BY <2>0, <2>1, <2>5, <1>t DEF DiscoveryTypes, creationVars
  <2>7. CreationHolds'
    BY <2>0, <2>1, <1>t, CreationStays DEF DiscoveryTypes
  <2>8. (RunsHold /\ DiskHolds /\ RestoreHolds)'
    BY <2>0, <2>5 DEF RunsHold, DiskHolds, RestoreHolds, Serving
  <2> QED
    BY <2>6, <2>7, <2>8 DEF DiscoveryInv
<1>5. CASE (RunRejects(d) /\ cancelling[d] = "awaiting")
  <2> DEFINE es == [discoveryRuns EXCEPT ![d] = "rejected"]
  <2>0. /\ discoveryRuns[d] \in {"catch", "record"} /\ Serving
        /\ Pumps(discoveryTasks, discoveryStatus, es)
        /\ UNCHANGED <<discoveryFiles, creationVars, discoveryTasks, cancelling, serviceState>>
    BY <1>5 DEF RunRejects, signalVars
  <2>1. /\ discoveryStatus[d] \in EndedStatus \cup {"running"} /\ discoveryDisk[d] \in OpenStatus
        /\ cancelling[d] # "saving"
    BY <2>0, <1>t, <1>5 DEF RunsHold, RunsOf, DiskHolds, DiskOf
  <2>2. RunsOf(discoveryTasks, discoveryStatus, es)
    BY <2>0, <2>1, <1>t DEF RunsHold, RunsOf, DiscoveryTypes
  <2>3. DiskOf(discoveryDisk, entriesDisk, discoveryStatus, es, cancelling)
    BY <2>0, <2>1, <1>t DEF DiskHolds, DiskOf, DiscoveryTypes
  <2>4. es \in [Discovery -> DiscoveryRuns]
    BY <1>t DEF DiscoveryTypes
  <2> HIDE DEF es
  <2>5. /\ discoveryStatus' \in [Discovery -> DiscoveryStatus]
        /\ discoveryRuns' \in [Discovery -> DiscoveryRuns]
        /\ RunsOf(discoveryTasks, discoveryStatus', discoveryRuns')
        /\ DiskOf(discoveryDisk, entriesDisk, discoveryStatus', discoveryRuns', cancelling)
    <3>1. /\ discoveryTasks \in Seq(Discovery) /\ discoveryStatus \in [Discovery -> DiscoveryStatus]
      BY <1>t DEF DiscoveryTypes
    <3> QED
      BY <3>1, <2>0, <2>2, <2>3, <2>4, PumpKeeps
  <2>6. DiscoveryTypes'
    BY <2>0, <2>5, <1>t DEF DiscoveryTypes, creationVars, discoveryFiles
  <2>7. CreationHolds'
    BY <2>0, <1>t, CreationStays DEF discoveryFiles
  <2>8. (RunsHold /\ DiskHolds /\ RestoreHolds)'
    BY <2>0, <2>5 DEF RunsHold, DiskHolds, RestoreHolds, Serving, discoveryFiles
  <2> QED
    BY <2>6, <2>7, <2>8 DEF DiscoveryInv
<1>6. CASE RunBegins(d) \/ PageSeen(d)
    BY <1>1, <1>6 DEF RunBegins, PageSeen, Running, SaveRecord, Executes
<1>7. CASE Explored(d) \/ ExplorerThrows(d) \/ RunThrows(d)
  <2>1. discoveryRuns[d] \in AtWorkRuns /\ Serving
    BY <1>7 DEF Explored, ExplorerThrows, RunThrows, Running
  <2>2. UNCHANGED <<discoveryFiles, creationVars, discoveryTasks, discoveryStatus, signalVars, serviceState>>
    BY <1>7 DEF Explored, ExplorerThrows, RunThrows
  <2>3. \E s \in {"entries", "catch"} : discoveryRuns' = [discoveryRuns EXCEPT ![d] = s]
    BY <1>7 DEF Explored, ExplorerThrows, RunThrows, Executes
  <2> QED
    BY <1>2, <2>1, <2>2, <2>3
<1>8. CASE RunSucceeds(d)
    BY <1>3, <1>8 DEF RunSucceeds, Running
<1>9. CASE RunCatches(d)
  <2> DEFINE entries == IF d \in pagesSeen THEN "seen" ELSE "none"
             s == IF d \in abortedTasks THEN "cancelled" ELSE "failed"
  <2>1. EntriesSaved(d, entries, s) /\ discoveryRuns[d] = "catch" /\ Serving
    BY <1>9 DEF RunCatches, Running
  <2>2. entries \in {"none", "seen", "all"} /\ s \in EndedStatus /\ s # "succeeded"
    OBVIOUS
  <2> HIDE DEF entries, s
  <2> QED
    BY <1>3, <2>1, <2>2
<1> QED
    BY <1>4, <1>5, <1>6, <1>7, <1>8, <1>9 DEF Runs

\* The process ends: what is on disk stays.
LEMMA ProcessEndStep ==
    ASSUME DiscoveryInv, UNCHANGED <<keyOf, discoveryFiles>>, ProcessEnds
    PROVE  DiscoveryInv'
<1>t. DiscoveryTypes /\ CreationHolds /\ RunsHold /\ DiskHolds /\ RestoreHolds
    BY DEF DiscoveryInv
<1> USE DEF ProcessEnds, AllDiscoveries
<1>e. ToSet(<<>>) = {} /\ Distinct(<<>>)
    BY NoneQueued
<1>1. DiscoveryTypes'
    BY <1>t, <1>e DEF DiscoveryTypes, discoveryFiles, DiscoveryStatus, DiscoveryRuns
<1>2. CreationHolds'
    BY <1>t, <1>e DEF CreationHolds, HasKey, discoveryFiles, DiscoveryTypes
<1>3. (RunsHold /\ RestoreHolds)'
    BY DEF RunsHold, RunsOf, RestoreHolds, EndedStatus, AtWorkRuns
<1>4. DiskHolds'
    BY <1>t DEF DiskHolds, DiskOf, discoveryFiles, OpenStatus
<1> QED
    BY <1>1, <1>2, <1>3, <1>4 DEF DiscoveryInv

\* cancel(), of one task or of all of them.
LEMMA CancelStep ==
    ASSUME DiscoveryInv, UNCHANGED keyOf, NEW ds \in SUBSET Discovery, Serving, CancelBegins(ds),
           UNCHANGED <<discoveryFiles, creationVars, discoveryTasks, discoveryRuns, serviceState>>
    PROVE  DiscoveryInv'
<1>t. DiscoveryTypes /\ CreationHolds /\ RunsHold /\ DiskHolds /\ RestoreHolds
    BY DEF DiscoveryInv
<1> USE DEF EndedStatus, OpenStatus, DiscoveryStatus, DiscoveryRuns, AtWorkRuns
<1>1. DiscoveryTypes'
    BY <1>t DEF DiscoveryTypes, CancelBegins, discoveryFiles, creationVars
<1>2. CreationHolds'
    BY <1>t, CreationStays DEF discoveryFiles
<1>q. ASSUME NEW d \in Discovery, d \in ds, discoveryStatus[d] = "queued"
      PROVE  discoveryRuns[d] = "none"
    BY <1>q, <1>t DEF RunsHold, RunsOf, DiscoveryTypes
<1>3. RunsHold'
    BY <1>t, <1>q DEF RunsHold, RunsOf, DiscoveryTypes, CancelBegins
<1>4. DiskHolds'
    BY <1>t, <1>q DEF DiskHolds, DiskOf, DiscoveryTypes, CancelBegins, discoveryFiles
<1>5. RestoreHolds'
    BY DEF RestoreHolds, Serving
<1> QED
    BY <1>1, <1>2, <1>3, <1>4, <1>5 DEF DiscoveryInv

\* A cancel() that saves the record, fails to, or returns.
LEMMA CancelEndStep ==
    ASSUME DiscoveryInv, UNCHANGED keyOf, NEW d \in Discovery,
           CancelSaves(d) \/ CancelReturns(d) \/ CancelRejects(d)
    PROVE  DiscoveryInv'
<1>t. DiscoveryTypes /\ CreationHolds /\ RunsHold /\ DiskHolds /\ RestoreHolds
    BY DEF DiscoveryInv
<1> USE DEF CancelSaves, CancelReturns, CancelRejects, SaveRecord, discoveryFiles
<1>0. /\ cancelling' = [cancelling EXCEPT ![d] = "returned"] /\ Serving
      /\ UNCHANGED <<entriesDisk, creationVars, discoveryTasks, discoveryStatus, discoveryRuns, serviceState>>
    OBVIOUS
<1>1. \/ UNCHANGED discoveryDisk
      \/ /\ cancelling[d] = "saving" /\ discoveryStatus[d] = "cancelled" /\ discoveryRuns[d] = "none"
         /\ discoveryDisk[d] \in OpenStatus
         /\ discoveryDisk' = [discoveryDisk EXCEPT ![d] = "cancelled"]
    BY <1>t DEF DiskHolds, DiskOf
<1> USE DEF EndedStatus, OpenStatus, DiscoveryStatus, DiscoveryRuns, AtWorkRuns
<1>2. DiscoveryTypes'
    BY <1>t, <1>0, <1>1 DEF DiscoveryTypes, creationVars
<1>3. CreationHolds'
    BY <1>t, <1>0, <1>1, CreationStays DEF DiscoveryTypes
<1>4. RunsHold'
    BY <1>t, <1>0 DEF RunsHold
<1>5. DiskHolds'
    BY <1>t, <1>0, <1>1 DEF DiskHolds, DiskOf, DiscoveryTypes
<1>6. RestoreHolds'
    BY <1>0 DEF RestoreHolds, Serving
<1> QED
    BY <1>2, <1>3, <1>4, <1>5, <1>6 DEF DiscoveryInv

\* A record that did not end when the process did is marked as failed.
LEMMA RestoreStep ==
    ASSUME DiscoveryInv, UNCHANGED keyOf, RestoreDiscovery
    PROVE  DiscoveryInv'
<1>t. DiscoveryTypes /\ CreationHolds /\ RunsHold /\ DiskHolds /\ RestoreHolds
    BY DEF DiscoveryInv
<1>0. serviceState = "restoring" /\ UNCHANGED <<entriesDisk, creationVars, taskVars>>
    BY DEF RestoreDiscovery
<1>1. CASE serviceState' = "up" /\ UNCHANGED discoveryDisk
  <2>1. CreationHolds'
    BY <1>t, <1>0, <1>1, CreationStays
  <2>2. DiscoveryTypes'
    BY <1>t, <1>0, <1>1 DEF DiscoveryTypes, creationVars, taskVars, signalVars
  <2>3. (RunsHold /\ DiskHolds /\ RestoreHolds)'
    BY <1>t, <1>0, <1>1 DEF RunsHold, DiskHolds, RestoreHolds, taskVars, signalVars
  <2> QED
    BY <2>1, <2>2, <2>3 DEF DiscoveryInv
<1>2. ASSUME NEW d \in UnfinishedDiscoveries, SaveRecord(d, "failed"), UNCHANGED serviceState
      PROVE  DiscoveryInv'
  <2> USE DEF UnfinishedDiscoveries, SaveRecord, EndedStatus, OpenStatus, DiscoveryStatus
  <2>1. CreationHolds'
    BY <1>t, <1>0, <1>2, CreationStays DEF DiscoveryTypes
  <2>2. DiscoveryTypes'
    BY <1>t, <1>0, <1>2 DEF DiscoveryTypes, creationVars, taskVars, signalVars
  <2>3. (RunsHold /\ RestoreHolds)'
    BY <1>t, <1>0, <1>2 DEF RunsHold, RestoreHolds, taskVars, signalVars
  <2>4. DiskHolds'
    BY <1>t, <1>0, <1>2 DEF DiskHolds, DiskOf, RestoreHolds, DiscoveryTypes, taskVars, signalVars
  <2> QED
    BY <2>1, <2>2, <2>3, <2>4 DEF DiscoveryInv
<1> QED
    BY <1>1, <1>2 DEF RestoreDiscovery

\* One case per action.
LEMMA DiscoveryStep == DiscoveryInv /\ [DiscoveryNext]_discoveryVars => DiscoveryInv'
<1> SUFFICES ASSUME DiscoveryInv, [DiscoveryNext]_discoveryVars PROVE DiscoveryInv'
    OBVIOUS
<1>t. DiscoveryTypes /\ CreationHolds /\ RunsHold /\ DiskHolds /\ RestoreHolds
    BY DEF DiscoveryInv
<1>1. ASSUME UNCHANGED keyOf, NEW d \in Discovery, CreateDiscovery(d) \/ Creates(d) \/ CreationFails(d)
      PROVE  DiscoveryInv'
    BY <1>1, CreationStep
<1>2. ASSUME UNCHANGED keyOf, NEW d \in Discovery, Runs(d) \/ PageSeen(d) \/ RunThrows(d) \/ RunRejects(d)
      PROVE  DiscoveryInv'
  <2>1. CASE RunRejects(d) /\ cancelling[d] # "awaiting"
    BY <1>2, <2>1, ProcessEndStep DEF RunRejects
  <2>2. CASE ~ (RunRejects(d) /\ cancelling[d] # "awaiting")
    <3>1. Runs(d) \/ PageSeen(d) \/ RunThrows(d) \/ (RunRejects(d) /\ cancelling[d] = "awaiting")
      BY <1>2, <2>2
    <3> QED
      BY <1>2, <3>1, DiscoveryRunStep
  <2> QED
    BY <2>1, <2>2
<1>3. ASSUME UNCHANGED keyOf, NEW d \in Discovery, CancelDiscovery(d) \/ EndsCancel(d) \/ CancelRejects(d)
      PROVE  DiscoveryInv'
  <2>1. CASE CancelDiscovery(d)
    BY <1>3, <2>1, CancelStep DEF CancelDiscovery
  <2> QED
    BY <1>3, <2>1, CancelEndStep DEF EndsCancel
<1>4. ASSUME UNCHANGED keyOf, CloseCancelsAll PROVE DiscoveryInv'
  <2>1. ToSet(discoveryTasks) \in SUBSET Discovery
    BY <1>t, QueuedAt DEF DiscoveryTypes
  <2> QED
    BY <1>4, <2>1, CancelStep DEF CloseCancelsAll, Serving
\* What only the state of the service changes with.
<1>s. ASSUME UNCHANGED <<keyOf, discoveryFiles, creationVars, taskVars>>,
             serviceState' \in {"down", "restoring"} => serviceState \in {"down", "restoring"}
      PROVE  DiscoveryInv'
  <2>1. CreationHolds'
    BY <1>t, <1>s, CreationStays DEF discoveryFiles
  <2>2. DiscoveryTypes'
    BY <1>t, <1>s DEF DiscoveryTypes, discoveryFiles, creationVars, taskVars, signalVars
  <2>3. (RunsHold /\ DiskHolds /\ RestoreHolds)'
    BY <1>t, <1>s DEF RunsHold, DiskHolds, RestoreHolds, discoveryFiles, taskVars, signalVars
  <2> QED
    BY <2>1, <2>2, <2>3 DEF DiscoveryInv
<1>5. CASE UNCHANGED keyOf /\ (CloseDiscoveries \/ CloseEnds \/ ServiceStarts)
    BY <1>5, <1>s DEF CloseDiscoveries, CloseEnds, ServiceStarts
<1>6. CASE UNCHANGED keyOf /\ DiscoveryCrash
    BY <1>6, ProcessEndStep DEF DiscoveryCrash
<1>7. CASE UNCHANGED keyOf /\ RestoreDiscovery
    BY <1>7, RestoreStep
<1>8. CASE UNCHANGED discoveryVars
    BY <1>8, <1>s DEF discoveryVars, serviceVars
<1> QED
    BY <1>1, <1>2, <1>3, <1>4, <1>5, <1>6, <1>7, <1>8 DEF DiscoveryNext, DiscoverySteps

\* What is said of discoveries follows from the invariant.
LEMMA DiscoveryInvHolds == DiscoveryInv => DiscoveriesHold
<1> SUFFICES ASSUME DiscoveryInv PROVE DiscoveriesHold
    OBVIOUS
<1>1. ASSUME NEW d \in Discovery, NEW e \in Discovery, {discoveryRuns[d], discoveryRuns[e]} \subseteq {"begin", "explore"}
      PROVE  d = e
    BY <1>1 DEF DiscoveryInv, RunsHold, RunsOf, AtWorkRuns
<1>2. ASSUME NEW d \in Discovery, NEW e \in Discovery, discoveryDisk[d] # "none", discoveryDisk[e] # "none", keyOf[d] = keyOf[e]
      PROVE  d = e
    BY <1>2 DEF DiscoveryInv, CreationHolds, HasKey
<1>3. ASSUME NEW d \in Discovery, discoveryDisk[d] = "succeeded" PROVE entriesDisk[d] = "all"
    BY <1>3 DEF DiscoveryInv, DiskHolds, DiskOf
<1> QED
    BY <1>1, <1>2, <1>3 DEF DiscoveriesHold

\* One discovery explores at a time, a key names one, and one that succeeded has all its
\* entries on disk.
THEOREM DiscoveriesSound == DiscoverySpec => []DiscoveriesHold
BY DiscoveryStarts, DiscoveryStep, DiscoveryInvHolds, PTL DEF DiscoverySpec

\* What each step may write of the record of a discovery that has ended.
DiscoveryEndsAreKept ==
    \A d \in Discovery : discoveryDisk[d] \in EndedStatus => discoveryDisk'[d] = discoveryDisk[d]

\* No step changes the record of a discovery that has ended.
LEMMA DiscoveryEndStep == DiscoveryInv /\ [DiscoveryNext]_discoveryVars => DiscoveryEndsAreKept
<1> SUFFICES ASSUME DiscoveryInv, [DiscoveryNext]_discoveryVars, UNCHANGED discoveryDisk => DiscoveryEndsAreKept
             PROVE  DiscoveryEndsAreKept
    BY DEF DiscoveryEndsAreKept
<1>t. DiscoveryTypes /\ CreationHolds /\ RunsHold /\ DiskHolds
    BY DEF DiscoveryInv
<1> USE DEF discoveryVars, serviceVars, discoveryFiles
\* A record that a save replaces is none that ended.
<1>w. ASSUME NEW d \in Discovery, NEW s, SaveRecord(d, s), discoveryDisk[d] \notin EndedStatus
      PROVE  DiscoveryEndsAreKept
    BY <1>w, <1>t DEF DiscoveryEndsAreKept, SaveRecord, DiscoveryTypes
<1>1. ASSUME NEW d \in Discovery, CreateDiscovery(d) \/ Creates(d) \/ CreationFails(d) PROVE DiscoveryEndsAreKept
  <2>1. CASE CreationSaves(d)
    <3>1. discoveryDisk[d] = "none"
      BY <1>t, <2>1 DEF CreationHolds, CreationSaves, AtWork
    <3> QED
      BY <1>w, <2>1, <3>1 DEF CreationSaves, EndedStatus
  <2> QED
    BY <1>1, <2>1 DEF CreateDiscovery, Creates, CreationBegins, CreationReads, CreationFails
<1>2. ASSUME NEW d \in Discovery, Runs(d) \/ PageSeen(d) \/ RunThrows(d) \/ RunRejects(d) PROVE DiscoveryEndsAreKept
  <2>1. CASE RunBegins(d) \/ PageSeen(d) \/ DiscoveryRunEnds(d)
    <3>1. discoveryRuns[d] \in AtWorkRuns \cup {"record"} /\ SaveRecord(d, discoveryStatus[d])
      BY <2>1 DEF RunBegins, PageSeen, DiscoveryRunEnds, Running, AtWorkRuns
    <3>2. discoveryDisk[d] \in OpenStatus
      BY <1>t, <3>1 DEF RunsHold, RunsOf, DiskHolds, DiskOf, OpenStatus
    <3> QED
      BY <1>w, <3>1, <3>2 DEF OpenStatus, EndedStatus
  <2> QED
    BY <1>2, <2>1 DEF Runs, Explored, ExplorerThrows, RunThrows, RunSucceeds, RunCatches, EntriesSaved, RunRejects
<1>3. ASSUME NEW d \in Discovery, CancelDiscovery(d) \/ EndsCancel(d) \/ CancelRejects(d) PROVE DiscoveryEndsAreKept
  <2>1. CASE CancelSaves(d)
    <3>1. discoveryDisk[d] \in OpenStatus
      BY <1>t, <2>1 DEF CancelSaves, DiskHolds, DiskOf
    <3> QED
      BY <1>w, <2>1, <3>1 DEF CancelSaves, OpenStatus, EndedStatus
  <2> QED
    BY <1>3, <2>1 DEF CancelDiscovery, EndsCancel, CancelReturns, CancelRejects
<1>4. CASE RestoreDiscovery
    BY <1>w, <1>4 DEF RestoreDiscovery, UnfinishedDiscoveries, EndedStatus
<1>5. CASE CloseDiscoveries \/ CloseCancelsAll \/ CloseEnds \/ DiscoveryCrash \/ ServiceStarts \/ UNCHANGED discoveryVars
    BY <1>5 DEF CloseDiscoveries, CloseCancelsAll, CloseEnds, DiscoveryCrash, ServiceStarts
<1> QED
    BY <1>1, <1>2, <1>3, <1>4, <1>5 DEF DiscoveryNext, DiscoverySteps

\* The end of a discovery stands on disk, whatever is cancelled, crashes or starts later.
THEOREM DiscoveryEndsStand == DiscoverySpec => DiscoveriesStand
<1>1. DiscoveryInv /\ [DiscoveryNext]_discoveryVars
         => [\A d \in Discovery : discoveryDisk[d] \in EndedStatus => discoveryDisk'[d] = discoveryDisk[d]]_discoveryDisk
    BY DiscoveryEndStep DEF DiscoveryEndsAreKept
<1> QED
    BY <1>1, DiscoveryStarts, DiscoveryStep, PTL DEF DiscoverySpec, DiscoveriesStand

-----------------------------------------------------------------------------
(* The HTTP transport *)

\* The shapes of the variables; a timer is whatever its request set it to.
HttpStages == HttpEnds \cup {"new", "queued", "delayed", "sent", "pausing"}
HttpTypes ==
    /\ httpStage \in [HttpRequest -> HttpStages]
    /\ attempt \in [HttpRequest -> Nat]
    /\ httpTimer = [r \in HttpRequest |-> httpTimer[r]]
    /\ isAborted \in [HttpRequest -> BOOLEAN]
    /\ limiter \in Seq(HttpRequest) /\ Distinct(limiter)
    /\ untilNext \in Nat /\ sinceLast \in Nat

\* A request that waits for the limiter is in its queue once, and one that waits for its
\* time holds it: its timer is due with the limiter's.
LimiterHolds ==
    \A r \in HttpRequest :
       /\ httpStage[r] \in {"queued", "delayed"} <=> r \in ToSet(limiter)
       /\ httpStage[r] = "delayed" => Head(limiter) = r /\ httpTimer[r] = untilNext

\* What is left until the next attempt and what went by since the last one are an interval.
TimesHold == untilNext + sinceLast = RequestInterval

\* No request is at an attempt beyond the last one.
AttemptsHold ==
    \A r \in HttpRequest :
       /\ httpStage[r] = "new" => attempt[r] = 0
       /\ httpStage[r] \in {"queued", "delayed", "sent"} => attempt[r] <= MaxAttempts
       /\ httpStage[r] = "pausing" => attempt[r] < MaxAttempts

HttpInv == HttpTypes /\ LimiterHolds /\ TimesHold /\ AttemptsHold

\* The invariant holds before the first request.
LEMMA HttpStarts == HttpInit => HttpInv
<1> SUFFICES ASSUME HttpInit PROVE HttpInv
    OBVIOUS
<1> USE DEF HttpInit
<1>1. ToSet(limiter) = {} /\ Distinct(limiter)
    BY NoneQueued
<1>2. HttpTypes
    BY <1>1, HttpAssumption DEF HttpTypes, HttpStages
<1>3. LimiterHolds
    BY <1>1 DEF LimiterHolds
<1>4. TimesHold /\ AttemptsHold
    BY HttpAssumption DEF TimesHold, AttemptsHold
<1> QED
    BY <1>2, <1>3, <1>4 DEF HttpInv

\* What the limiter is when its holder r passes it on: nobody waits for its time then.
LEMMA LimiterPassed ==
    ASSUME HttpTypes, LimiterHolds, NEW r \in HttpRequest, HoldsLimiter(r)
    PROVE  /\ Tail(limiter) \in Seq(HttpRequest) /\ Distinct(Tail(limiter))
           /\ ToSet(Tail(limiter)) = ToSet(limiter) \ {r} /\ r \in ToSet(limiter)
           /\ \A q \in HttpRequest : httpStage[q] = "delayed" => q = r
BY Dequeued DEF HttpTypes, LimiterHolds, HoldsLimiter

\* An attempt begins for the request that holds the limiter.
LEMMA StartStep ==
    ASSUME HttpInv, NEW r \in HttpRequest, HoldsLimiter(r), httpStage[r] \in {"queued", "delayed"}, StartAttempt(r)
    PROVE  HttpInv'
<1>t. HttpTypes /\ LimiterHolds /\ TimesHold /\ AttemptsHold
    BY DEF HttpInv
<1>l. /\ Tail(limiter) \in Seq(HttpRequest) /\ Distinct(Tail(limiter))
      /\ ToSet(Tail(limiter)) = ToSet(limiter) \ {r} /\ r \in ToSet(limiter)
      /\ \A q \in HttpRequest : httpStage[q] = "delayed" => q = r
    BY <1>t, LimiterPassed
<1> USE DEF StartAttempt, EnterStage, SetTimer
<1>1. HttpTypes'
    BY <1>t, <1>l, HttpAssumption DEF HttpTypes, HttpStages
<1>2. LimiterHolds'
    BY <1>t, <1>l DEF LimiterHolds, HttpTypes
<1>3. TimesHold'
    BY HttpAssumption DEF TimesHold
<1>4. AttemptsHold'
    BY <1>t DEF AttemptsHold, HttpTypes
<1> QED
    BY <1>1, <1>2, <1>3, <1>4 DEF HttpInv

\* It ends before its attempt.
LEMMA GiveUpStep ==
    ASSUME HttpInv, NEW r \in HttpRequest, HoldsLimiter(r), GiveUpTurn(r)
    PROVE  HttpInv'
<1>t. HttpTypes /\ LimiterHolds /\ TimesHold /\ AttemptsHold
    BY DEF HttpInv
<1>l. /\ Tail(limiter) \in Seq(HttpRequest) /\ Distinct(Tail(limiter))
      /\ ToSet(Tail(limiter)) = ToSet(limiter) \ {r} /\ r \in ToSet(limiter)
      /\ \A q \in HttpRequest : httpStage[q] = "delayed" => q = r
    BY <1>t, LimiterPassed
<1> USE DEF GiveUpTurn, EnterStage, SetTimer
<1>1. HttpTypes'
    BY <1>t, <1>l DEF HttpTypes, HttpStages, HttpEnds
<1>2. LimiterHolds'
    BY <1>t, <1>l DEF LimiterHolds, HttpTypes
<1>3. TimesHold'
    BY <1>t DEF TimesHold
<1>4. AttemptsHold'
    BY <1>t DEF AttemptsHold, HttpTypes
<1> QED
    BY <1>1, <1>2, <1>3, <1>4 DEF HttpInv

\* A request outside of the limiter ends or pauses.
LEMMA RequestEndStep ==
    ASSUME HttpInv, NEW r \in HttpRequest, NEW s \in HttpEnds \cup {"pausing"}, NEW units,
           httpStage[r] \in {"sent", "pausing"}, s = "pausing" => attempt[r] < MaxAttempts,
           EnterStage(r, s), SetTimer(r, units), UNCHANGED <<attempt, isAborted, limiter, untilNext, sinceLast>>
    PROVE  HttpInv'
<1>t. HttpTypes /\ LimiterHolds /\ TimesHold /\ AttemptsHold
    BY DEF HttpInv
<1> USE DEF EnterStage, SetTimer
<1>1. HttpTypes'
    BY <1>t DEF HttpTypes, HttpStages, HttpEnds
<1>2. LimiterHolds'
    BY <1>t DEF LimiterHolds, HttpTypes, HttpEnds
<1>3. TimesHold'
    BY <1>t DEF TimesHold
<1>4. AttemptsHold'
    BY <1>t DEF AttemptsHold, HttpTypes, HttpEnds
<1> QED
    BY <1>1, <1>2, <1>3, <1>4 DEF HttpInv

\* What is thrown ends a request or lets it pause, if it has an attempt left.
LEMMA ThrownStep ==
    ASSUME HttpInv, NEW r \in HttpRequest, NEW retryable \in BOOLEAN, httpStage[r] = "sent", Thrown(r, retryable)
    PROVE  HttpInv'
<1>1. CASE isAborted[r] \/ ~retryable \/ attempt[r] = MaxAttempts
    BY <1>1, RequestEndStep DEF Thrown, EndRequest, HttpEnds
<1>2. CASE ~ (isAborted[r] \/ ~retryable \/ attempt[r] = MaxAttempts)
  <2> DEFINE units == BaseBackoff * 2 ^ (attempt[r] - 1)
  <2>1. /\ EnterStage(r, "pausing") /\ SetTimer(r, units)
        /\ UNCHANGED <<attempt, isAborted, limiter, untilNext, sinceLast>>
    BY <1>2 DEF Thrown
  <2> HIDE DEF units
  <2>2. attempt[r] < MaxAttempts
    BY <1>2, HttpAssumption DEF HttpInv, AttemptsHold, HttpTypes
  <2> QED
    BY <2>1, <2>2, RequestEndStep
<1> QED
    BY <1>1, <1>2

\* The next turn of the loop.
LEMMA NextAttemptStep ==
    ASSUME HttpInv, NEW r \in HttpRequest, httpStage[r] \in {"new", "pausing"}, NextAttempt(r)
    PROVE  HttpInv'
<1>t. HttpTypes /\ LimiterHolds /\ TimesHold /\ AttemptsHold
    BY DEF HttpInv
<1> USE DEF NextAttempt, EnterStage, SetTimer
<1>1. r \notin ToSet(limiter)
    BY <1>t DEF LimiterHolds
<1>2. TimesHold'
    BY <1>t DEF TimesHold
<1>3. attempt' \in [HttpRequest -> Nat] /\ attempt'[r] <= MaxAttempts
    BY <1>t, HttpAssumption DEF HttpTypes, AttemptsHold
<1>4. AttemptsHold'
    BY <1>t, <1>3 DEF AttemptsHold, HttpTypes
<1>5. CASE isAborted[r]
  <2>1. HttpTypes'
    BY <1>t, <1>3, <1>5 DEF HttpTypes, HttpStages, HttpEnds
  <2>2. LimiterHolds'
    BY <1>t, <1>1, <1>5 DEF LimiterHolds, HttpTypes
  <2> QED
    BY <1>2, <1>4, <2>1, <2>2 DEF HttpInv
<1>6. CASE ~isAborted[r]
  <2>0. limiter' = Append(limiter, r) /\ limiter \in Seq(HttpRequest) /\ Distinct(limiter)
    BY <1>t, <1>6 DEF HttpTypes
  <2>1. limiter' \in Seq(HttpRequest) /\ Distinct(limiter') /\ ToSet(limiter') = ToSet(limiter) \cup {r}
    BY <2>0, <1>1, Enqueued
  <2>2. ASSUME NEW q \in HttpRequest, httpStage[q] = "delayed" PROVE Head(limiter') = Head(limiter)
    <3>1. q \in ToSet(limiter)
      BY <1>t, <2>2 DEF LimiterHolds
    <3>2. Len(limiter) \in Nat /\ Len(limiter) # 0
      BY <2>0, <3>1, QueuedAt
    <3> QED
      BY <2>0, <2>1, <3>2, AppendProperties, HeadTailProperties
  <2>3. HttpTypes'
    BY <1>t, <1>3, <1>6, <2>1 DEF HttpTypes, HttpStages, HttpEnds
  <2>4. LimiterHolds'
    BY <1>t, <1>6, <2>1, <2>2 DEF LimiterHolds, HttpTypes
  <2> QED
    BY <1>2, <1>4, <2>3, <2>4 DEF HttpInv
<1> QED
    BY <1>5, <1>6 DEF HttpTypes

\* One case per action.
LEMMA HttpStep == HttpInv /\ [HttpNext]_httpVars => HttpInv'
<1> SUFFICES ASSUME HttpInv, [HttpNext]_httpVars PROVE HttpInv'
    OBVIOUS
<1>t. HttpTypes /\ LimiterHolds /\ TimesHold /\ AttemptsHold
    BY DEF HttpInv
<1>1. ASSUME NEW r \in HttpRequest, BeginRequest(r) \/ PauseEnds(r) PROVE HttpInv'
    BY <1>1, NextAttemptStep DEF BeginRequest, PauseEnds
<1>2. ASSUME NEW r \in HttpRequest, AbortRequest(r) PROVE HttpInv'
  <2>1. HttpTypes'
    BY <1>t, <1>2 DEF HttpTypes, AbortRequest
  <2>2. (LimiterHolds /\ TimesHold /\ AttemptsHold)'
    BY <1>t, <1>2 DEF LimiterHolds, TimesHold, AttemptsHold, AbortRequest
  <2> QED
    BY <2>1, <2>2 DEF HttpInv
<1>3. ASSUME NEW r \in HttpRequest, Answered(r) \/ PauseAborted(r) PROVE HttpInv'
    BY <1>3, RequestEndStep DEF Answered, PauseAborted, EndRequest, HttpEnds
<1>4. ASSUME NEW r \in HttpRequest, AttemptFails(r) \/ TimesOut(r) \/ FetchAborted(r) PROVE HttpInv'
    BY <1>4, ThrownStep DEF AttemptFails, TimesOut, FetchAborted
<1>5. ASSUME NEW r \in HttpRequest, TakeTurn(r) PROVE HttpInv'
  <2>1. CASE GiveUpTurn(r)
    BY <1>5, <2>1, GiveUpStep DEF TakeTurn
  <2>2. CASE StartAttempt(r)
    BY <1>5, <2>2, StartStep DEF TakeTurn
  <2>3. CASE WaitTurn(r)
    <3> USE DEF WaitTurn, EnterStage, SetTimer
    <3>1. httpStage[r] = "queued" /\ Head(limiter) = r
      BY <1>5 DEF TakeTurn, HoldsLimiter
    <3>2. HttpTypes'
      BY <1>t, <2>3 DEF HttpTypes, HttpStages
    <3>3. LimiterHolds'
      BY <1>t, <2>3, <3>1 DEF LimiterHolds, HttpTypes
    <3>4. TimesHold'
      BY <1>t, <2>3 DEF TimesHold
    <3>5. AttemptsHold'
      BY <1>t, <2>3, <3>1 DEF AttemptsHold, HttpTypes
    <3> QED
      BY <3>2, <3>3, <3>4, <3>5 DEF HttpInv
  <2> QED
    BY <1>5, <2>1, <2>2, <2>3 DEF TakeTurn
<1>6. ASSUME NEW r \in HttpRequest, DelayEnds(r) \/ DelayAborted(r) PROVE HttpInv'
  <2>1. httpStage[r] = "delayed"
    BY <1>6 DEF DelayEnds, DelayAborted
  <2>2. HoldsLimiter(r)
    BY <2>1, <1>t, QueuedAt DEF LimiterHolds, HoldsLimiter, HttpTypes
  <2> QED
    BY <1>6, <2>1, <2>2, GiveUpStep, StartStep DEF DelayEnds, DelayAborted
<1>7. CASE PassTime
  <2>1. HttpTypes'
    BY <1>t, <1>7, HttpAssumption DEF HttpTypes, PassTime, Sooner
  <2>2. LimiterHolds'
    BY <1>t, <1>7 DEF LimiterHolds, PassTime
  <2>3. TimesHold'
    BY <1>t, <1>7, HttpAssumption DEF TimesHold, PassTime, Sooner, HttpTypes
  <2>4. AttemptsHold'
    BY <1>t, <1>7 DEF AttemptsHold, PassTime
  <2> QED
    BY <2>1, <2>2, <2>3, <2>4 DEF HttpInv
<1>8. CASE UNCHANGED httpVars
    BY <1>8, <1>t DEF httpVars, HttpInv, HttpTypes, LimiterHolds, TimesHold, AttemptsHold
<1> QED
    BY <1>1, <1>2, <1>3, <1>4, <1>5, <1>6, <1>7, <1>8 DEF HttpNext, Proceeds

\* What a step that begins an attempt found.
StartIsSpaced ==
    \A r \in HttpRequest :
       httpStage[r] # "sent" /\ httpStage'[r] = "sent" =>
           sinceLast = RequestInterval /\ ~isAborted[r] /\ attempt[r] <= MaxAttempts

\* An attempt that the limiter starts begins an interval after the last one, and is one it may have.
LEMMA StartFound ==
    ASSUME HttpInv, NEW r \in HttpRequest, httpStage[r] \in {"queued", "delayed"}, ~isAborted[r], untilNext = 0,
           StartAttempt(r)
    PROVE  StartIsSpaced
<1>1. sinceLast = RequestInterval
    BY HttpAssumption DEF HttpInv, TimesHold, HttpTypes
<1>2. attempt[r] <= MaxAttempts
    BY DEF HttpInv, AttemptsHold
<1> QED
    BY <1>1, <1>2 DEF StartIsSpaced, StartAttempt, EnterStage, HttpInv, HttpTypes

\* An attempt that begins is the first in its interval.
LEMMA SpacedStep == HttpInv /\ [HttpNext]_httpVars => StartIsSpaced
<1> SUFFICES ASSUME HttpInv, [HttpNext]_httpVars PROVE StartIsSpaced
    OBVIOUS
<1>t. HttpTypes /\ LimiterHolds
    BY DEF HttpInv
<1>e. ASSUME NEW r \in HttpRequest, NEW s, s # "sent", EnterStage(r, s) PROVE StartIsSpaced
    BY <1>e, <1>t DEF StartIsSpaced, EnterStage, HttpTypes
<1>u. ASSUME UNCHANGED httpStage PROVE StartIsSpaced
    BY <1>u DEF StartIsSpaced
<1>1. ASSUME NEW r \in HttpRequest, BeginRequest(r) \/ PauseEnds(r) \/ AbortRequest(r) PROVE StartIsSpaced
    BY <1>1, <1>e, <1>u DEF BeginRequest, PauseEnds, AbortRequest, NextAttempt
<1>2. ASSUME NEW r \in HttpRequest, NEW retryable \in BOOLEAN, Thrown(r, retryable) PROVE StartIsSpaced
    BY <1>2, <1>e DEF Thrown, EndRequest
<1>3. ASSUME NEW r \in HttpRequest,
             Answered(r) \/ PauseAborted(r) \/ AttemptFails(r) \/ TimesOut(r) \/ FetchAborted(r)
      PROVE  StartIsSpaced
    BY <1>3, <1>2, <1>e DEF Answered, PauseAborted, AttemptFails, TimesOut, FetchAborted, EndRequest
<1>4. ASSUME NEW r \in HttpRequest, TakeTurn(r) PROVE StartIsSpaced
    BY <1>4, <1>e, StartFound DEF TakeTurn, GiveUpTurn, WaitTurn
<1>5. ASSUME NEW r \in HttpRequest, DelayAborted(r) PROVE StartIsSpaced
    BY <1>5, <1>e DEF DelayAborted, GiveUpTurn
<1>6. ASSUME NEW r \in HttpRequest, DelayEnds(r) PROVE StartIsSpaced
  <2>1. untilNext = 0
    BY <1>6, <1>t DEF DelayEnds, LimiterHolds
  <2> QED
    BY <1>6, <2>1, StartFound DEF DelayEnds
<1>7. CASE PassTime \/ UNCHANGED httpVars
    BY <1>7, <1>u DEF PassTime, httpVars
<1> QED
    BY <1>1, <1>3, <1>4, <1>5, <1>6, <1>7 DEF HttpNext, Proceeds

\* The attempts of all requests, retries included, begin at least one interval apart, none
\* of them for a request that was aborted before, and none beyond the last.
THEOREM AttemptsAreSpaced == HttpSpec => StartsAreSpaced
<1>1. HttpInv /\ [HttpNext]_httpVars
         => [\A r \in HttpRequest :
                httpStage[r] # "sent" /\ httpStage'[r] = "sent" =>
                    sinceLast = RequestInterval /\ ~isAborted[r] /\ attempt[r] <= MaxAttempts]_httpVars
    BY SpacedStep DEF StartIsSpaced
<1> QED
    BY <1>1, HttpStarts, HttpStep, PTL DEF HttpSpec, StartsAreSpaced

-----------------------------------------------------------------------------
(* The writer lock *)

LockSteps == {"off", "reading", "moving", "making", "writing", "open", "saving", "removing",
          "closed", "refused", "dead"}
LockHeld == {"writing", "open", "saving", "removing"}

\* The shapes of the variables.
LockTypeOK ==
    /\ locking \in [Process -> LockSteps] /\ existing \in [Process -> Process \cup {NoLock}]
    /\ lockFile # NoLock =>
          \E p \in Process, w \in BOOLEAN : lockFile = [owner |-> p, written |-> w]

\* No two processes that live have one identifier.
PidsDiffer ==
    \A p, q \in Process : p # q /\ Alive(p) /\ Alive(q) => Pid(p) # Pid(q)

\* The lock that is there was made by a process that holds it or died.
OwnerHolds == lockFile # NoLock => locking[lockFile.owner] \in LockHeld \cup {"dead"}

\* A process whose lock is about to be moved, as far as the one that moves it knows, is dead.
SeenDead ==
    \A q \in Process :
       locking[q] = "moving" /\ existing[q] # NoLock => locking[existing[q]] = "dead"

\* A process that holds the lock has it, unless it was overtaken.
HoldersHave ==
    overtaken = {} => \A p \in Process : locking[p] \in LockHeld => HasLock(p)

LockInv == LockTypeOK /\ PidsDiffer /\ OwnerHolds /\ SeenDead /\ HoldersHave

\* The invariant holds of a workspace that nobody opened.
LEMMA LockInitInv == LockInit => LockInv
  BY DEF LockInit, LockInv, LockTypeOK, LockSteps, LockHeld, PidsDiffer, Alive, OwnerHolds, SeenDead,
         HoldersHave, HasLock

\* A lock that a process makes or writes is its own.
LEMMA MadeLock ==
  \A p \in Process : /\ LockOf(p) # NoLock /\ LockOf(p).owner = p
                     /\ [owner |-> p, written |-> TRUE] # NoLock
                     /\ [owner |-> p, written |-> TRUE].owner = p
  BY LockAssumption DEF LockOf

\* What a step of a process p that leaves the lock as it is must show to keep the
\* invariant: it does not begin to hold, to move or to live.
LEMMA QuietStep ==
  ASSUME LockInv, NEW p \in Process, NEW s \in LockSteps, LockMoves(p, s),
         UNCHANGED <<lockFile, existing, overtaken>>,
         Alive(p), s # "moving", s # "off",
         s \in LockHeld => locking[p] \in LockHeld,
         locking[p] \in LockHeld => s \in LockHeld \cup {"dead"} \/ ~HasLock(p)
  PROVE  LockInv'
<1> USE DEF LockInv
<1>1. LockTypeOK'
  BY DEF LockTypeOK, LockMoves
<1>2. PidsDiffer'
  BY DEF PidsDiffer, Alive, LockTypeOK, LockMoves
<1>3. OwnerHolds'
  BY LockAssumption DEF OwnerHolds, LockTypeOK, LockMoves, Alive, LockHeld, HasLock
<1>4. SeenDead'
  BY DEF SeenDead, LockTypeOK, LockMoves, Alive, LockHeld
<1>5. HoldersHave'
  BY DEF HoldersHave, HasLock, LockTypeOK, LockMoves
<1> QED
  BY <1>1, <1>2, <1>3, <1>4, <1>5

\* One case per action.
LEMMA LockStepInv == LockInv /\ [LockNext]_lockVars => LockInv'
<1> SUFFICES ASSUME LockInv, [LockNext]_lockVars PROVE LockInv'
  OBVIOUS
<1>a. ASSUME NEW p \in Process, LockBegins(p) PROVE LockInv'
  <2> USE DEF LockInv
  <2>1. LockTypeOK'
    BY <1>a DEF LockTypeOK, LockBegins, Exclusive, LockMoves, LockOf, LockSteps
  <2>2. PidsDiffer'
    BY <1>a DEF PidsDiffer, Alive, LockTypeOK, LockBegins, LockMoves
  <2>3. OwnerHolds'
    BY <1>a DEF OwnerHolds, LockTypeOK, LockBegins, Exclusive, LockMoves, LockOf, LockHeld
  <2>4. SeenDead'
    BY <1>a DEF SeenDead, LockTypeOK, LockBegins, LockMoves
  <2>5. HoldersHave'
    BY <1>a, MadeLock DEF HoldersHave, HasLock, LockTypeOK, LockBegins, Exclusive, LockMoves, LockHeld
  <2> QED
    BY <2>1, <2>2, <2>3, <2>4, <2>5
<1>b. ASSUME NEW p \in Process, LockWritten(p) PROVE LockInv'
  <2> USE DEF LockInv
  <2>1. LockTypeOK'
    BY <1>b DEF LockTypeOK, LockWritten, HasLock, LockMoves, LockSteps
  <2>2. PidsDiffer'
    BY <1>b DEF PidsDiffer, Alive, LockTypeOK, LockWritten, LockMoves
  <2>3. OwnerHolds' /\ HoldersHave'
    <3>1. lockFile' # NoLock <=> lockFile # NoLock
      BY <1>b, MadeLock DEF LockWritten, HasLock
    <3>2. lockFile # NoLock => lockFile'.owner = lockFile.owner
      BY <1>b, MadeLock DEF LockWritten, HasLock
    <3> QED
      BY <1>b, <3>1, <3>2 DEF OwnerHolds, HoldersHave, HasLock, LockTypeOK, LockWritten, LockMoves,
         LockHeld
  <2>4. SeenDead'
    BY <1>b DEF SeenDead, LockTypeOK, LockWritten, LockMoves
  <2> QED
    BY <2>1, <2>2, <2>3, <2>4
<1>c. ASSUME NEW p \in Process, LockRead(p) PROVE LockInv'
  <2> USE DEF LockInv
  <2>1. LockTypeOK'
    BY <1>c DEF LockTypeOK, LockRead, Refused, LockMoves, LockSteps
  <2>2. PidsDiffer'
    BY <1>c DEF PidsDiffer, Alive, LockTypeOK, LockRead, Refused, LockMoves
  <2>3. OwnerHolds' /\ HoldersHave'
    BY <1>c, LockAssumption DEF OwnerHolds, HoldersHave, HasLock, LockTypeOK, LockRead, Refused,
       LockMoves, LockHeld
  <2>4. SeenDead'
    <3>1. ASSUME lockFile # NoLock, ~OwnerLives(p, lockFile.owner)
          PROVE  locking[lockFile.owner] = "dead"
      BY <1>c, <3>1 DEF OwnerLives, OwnerHolds, PidsDiffer, LockTypeOK, LockRead, Alive, LockHeld
    <3> QED
      BY <1>c, <3>1 DEF SeenDead, LockTypeOK, LockRead, Refused, LockMoves
  <2> QED
    BY <2>1, <2>2, <2>3, <2>4
<1>d. ASSUME NEW p \in Process, LockMoved(p) PROVE LockInv'
  <2> USE DEF LockInv
  <2>1. LockTypeOK'
    BY <1>d DEF LockTypeOK, LockMoved, Refused, LockMoves, LockSteps
  <2>2. PidsDiffer'
    BY <1>d DEF PidsDiffer, Alive, LockTypeOK, LockMoved, Refused, LockMoves
  <2>3. OwnerHolds'
    BY <1>d DEF OwnerHolds, LockMoved, Refused
  <2>4. SeenDead'
    BY <1>d DEF SeenDead, LockTypeOK, LockMoved, Refused, LockMoves
  <2>5. HoldersHave'
    <3>1. CASE lockFile = NoLock
      BY <1>d, <3>1 DEF HoldersHave, HasLock, LockTypeOK, LockMoved, Refused, LockMoves, LockHeld
    <3>2. CASE lockFile # NoLock /\ lockFile.owner = existing[p]
      <4>1. existing[p] # NoLock
        BY <3>2, LockAssumption DEF LockTypeOK
      <4>2. locking[lockFile.owner] = "dead"
        BY <1>d, <3>2, <4>1 DEF SeenDead, LockMoved
      <4> QED
        BY <1>d, <3>2, <4>2 DEF HoldersHave, HasLock, LockTypeOK, LockMoved, LockMoves, LockHeld
    <3>3. CASE lockFile # NoLock /\ lockFile.owner # existing[p]
      BY <1>d, <3>3 DEF HoldersHave, LockMoved
    <3> QED
      BY <3>1, <3>2, <3>3
  <2> QED
    BY <2>1, <2>2, <2>3, <2>4, <2>5
<1>e. ASSUME NEW p \in Process, LockMade(p) PROVE LockInv'
  <2> USE DEF LockInv
  <2>1. LockTypeOK'
    BY <1>e DEF LockTypeOK, LockMade, Exclusive, Refused, LockMoves, LockOf, LockSteps
  <2>2. PidsDiffer'
    BY <1>e DEF PidsDiffer, Alive, LockTypeOK, LockMade, Exclusive, Refused, LockMoves
  <2>3. OwnerHolds'
    BY <1>e DEF OwnerHolds, LockTypeOK, LockMade, Exclusive, Refused, LockMoves, LockOf, LockHeld
  <2>4. SeenDead'
    BY <1>e DEF SeenDead, LockTypeOK, LockMade, Exclusive, Refused, LockMoves
  <2>5. HoldersHave'
    BY <1>e, MadeLock DEF HoldersHave, HasLock, LockTypeOK, LockMade, Exclusive, Refused, LockMoves,
       LockHeld
  <2> QED
    BY <2>1, <2>2, <2>3, <2>4, <2>5
<1>f. ASSUME NEW p \in Process, Verified(p) \/ SaveEnds(p) \/ LockCloses(p) \/ LockDies(p) PROVE LockInv'
  <2>1. Alive(p)
    BY <1>f DEF Verified, SaveEnds, LockCloses, LockDies, Alive
  <2>2. CASE Verified(p)
    BY <2>1, <2>2, QuietStep DEF Verified, LockSteps, LockHeld
  <2>3. CASE SaveEnds(p)
    BY <2>1, <2>3, QuietStep DEF SaveEnds, LockSteps, LockHeld
  <2>4. CASE LockCloses(p)
    <3>1. CASE HasLock(p)
      BY <2>1, <2>4, <3>1, QuietStep DEF LockCloses, LockSteps, LockHeld
    <3>2. CASE ~HasLock(p)
      BY <2>1, <2>4, <3>2, QuietStep DEF LockCloses, LockSteps, LockHeld
    <3> QED
      BY <3>1, <3>2
  <2>5. CASE LockDies(p)
    BY <2>1, <2>5, QuietStep DEF LockDies, LockSteps, LockHeld
  <2> QED
    BY <1>f, <2>2, <2>3, <2>4, <2>5
<1>g. ASSUME NEW p \in Process, LockRemoved(p) PROVE LockInv'
  <2> USE DEF LockInv
  <2>1. LockTypeOK' /\ OwnerHolds'
    BY <1>g DEF LockTypeOK, OwnerHolds, LockRemoved, LockMoves, LockSteps
  <2>2. PidsDiffer'
    BY <1>g DEF PidsDiffer, Alive, LockTypeOK, LockRemoved, LockMoves
  <2>3. SeenDead'
    BY <1>g DEF SeenDead, LockTypeOK, LockRemoved, LockMoves
  <2>4. HoldersHave'
    BY <1>g DEF HoldersHave, HasLock, LockTypeOK, LockRemoved, LockMoves, LockHeld
  <2> QED
    BY <2>1, <2>2, <2>3, <2>4
<1>h. CASE UNCHANGED lockVars
  BY <1>h DEF lockVars, LockInv, LockTypeOK, PidsDiffer, Alive, OwnerHolds, SeenDead, HoldersHave, HasLock
<1> QED
  BY <1>a, <1>b, <1>c, <1>d, <1>e, <1>f, <1>g, <1>h DEF LockNext

\* The invariant says that writers are apart.
LEMMA InvKeepsApart == LockInv => WritersAreApart
  BY DEF LockInv, HoldersHave, WritersAreApart, HasLock, LockHeld

\* No two processes of a host write a workspace at once, whatever starts, dies and takes a
\* lock over, as long as none moves a lock that is not the one it read.
THEOREM OneWriterAtATime == LockSpec => []WritersAreApart
  BY LockInitInv, LockStepInv, InvKeepsApart, PTL DEF LockSpec

-----------------------------------------------------------------------------
(* Side by side *)

\* What they are checked with is a behaviour of each of them.
LEMMA WorkersRunTheirParts ==
    MCSpec => /\ PoolSpec /\ FitSpec /\ CoverageSpec /\ ModelSpec
              /\ DiscoverySpec /\ HttpSpec /\ LockSpec
<1>1. MCInit => /\ PoolInit /\ FitInit /\ CoverageInit /\ ModelInit
                /\ DiscoveryInit /\ HttpInit /\ LockInit
    BY DEF MCInit
<1>2. [MCNext]_MCVars => /\ [PoolNext]_poolVars /\ [FitNext]_fitVars /\ [CoverageNext]_coverageVars
                         /\ [ModelNext]_modelVars
                         /\ [DiscoveryNext]_discoveryVars /\ [HttpNext]_httpVars /\ [LockNext]_lockVars
    BY DEF MCNext, MCVars
<1> QED
    BY <1>1, <1>2, PTL DEF MCSpec, PoolSpec, FitSpec, CoverageSpec, ModelSpec, DiscoverySpec, HttpSpec,
       LockSpec

\* Whatever pools and queues run beside one another, a request, a call and a task are in one
\* place until they are answered, one discovery explores at a time, and one process writes.
THEOREM CallsStayPlaced == MCSpec => []CallsArePlaced
BY WorkersRunTheirParts, RequestsKept, FitCallsKept, TasksPlaced, DiscoveriesSound, OneWriterAtATime, PTL
DEF CallsArePlaced

=============================================================================
