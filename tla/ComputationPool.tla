--------------------------- MODULE ComputationPool ---------------------------
(***************************************************************************)
(* The pool of computation workers (apps/server/src/computation-pool.ts),   *)
(* the sender of row chunks (worker-row-transport.ts) and the message loop  *)
(* of a worker thread (computation-worker.ts).  Requests may be cancelled   *)
(* or time out at any moment, workers may die, and a reply may be under way *)
(* while either happens.                                                    *)
(***************************************************************************)
EXTENDS Naturals, Sequences, FiniteSets, SequencesExt

CONSTANTS
    Request,       \* calls of run()
    Chunks,        \* how many messages the rows of a request take
    Worker,        \* worker threads; the name of one that is gone may be used again
    Concurrency,   \* concurrency
    MaxQueued,     \* maxQueued
    MaxStops,      \* bound of the workers that die or cannot be started
    Idle           \* a worker without a request

ASSUME PoolLimitAssumption == {Concurrency, MaxQueued} \subseteq Nat \ {0}
ASSUME ChunkAssumption == Chunks \in [Request -> Nat \ {0}]
ASSUME IdleAssumption == Idle \notin Request
ASSUME StopAssumption == MaxStops \in Nat

VARIABLES
    outcome,   \* per request: "none", "waiting", "resolved", "rejected" or "refused"
    answer,    \* the request whose reply a request was resolved with
    queue,     \* requests no worker has
    slots,     \* workers the pool counts on
    job,       \* the request of a worker, or Idle
    sent,      \* messages the sender has posted to a worker for its request
    box,       \* messages a worker has not taken: [of, append, complete]
    partial,   \* a worker's variable pending: the request it holds rows of
    reply,     \* replies on their way to the pool
    ending,    \* workers being terminated
    pumping,   \* pump() is running: nothing else is
    closed, stops

poolVars == <<outcome, answer, queue, slots, job, sent, box, partial, reply,
              ending, pumping, closed, stops>>

Settle(r, how) == IF r \in Request /\ outcome[r] = "waiting"
                  THEN [outcome EXCEPT ![r] = how] ELSE outcome
InQueue(r) == \E i \in 1 .. Len(queue) : queue[i] = r
Threads == slots \cup ending
\* pump() is synchronous, and so is what calls it.
Turn == ~ pumping

PoolTypeOK ==
    /\ outcome \in [Request -> {"none", "waiting", "resolved", "rejected", "refused"}]
    /\ answer \in [Request -> Request \cup {Idle}]
    /\ queue \in Seq(Request)
    /\ slots \subseteq Worker /\ ending \subseteq Worker
    /\ job \in [Worker -> Request \cup {Idle}]
    /\ sent \in [Worker -> Nat]
    /\ box \in [Worker -> Seq([of : Request, append : BOOLEAN, complete : BOOLEAN])]
    /\ partial \in [Worker -> Request \cup {Idle}]
    /\ reply \in [Worker -> Seq([of : Request, ok : BOOLEAN])]
    /\ pumping \in BOOLEAN /\ closed \in BOOLEAN /\ stops \in Nat

PoolInit ==
    /\ outcome = [r \in Request |-> "none"]
    /\ answer = [r \in Request |-> Idle]
    /\ queue = <<>> /\ slots = {} /\ ending = {}
    /\ job = [w \in Worker |-> Idle]
    /\ sent = [w \in Worker |-> 0]
    /\ box = [w \in Worker |-> <<>>]
    /\ partial = [w \in Worker |-> Idle]
    /\ reply = [w \in Worker |-> <<>>]
    /\ pumping = FALSE /\ closed = FALSE /\ stops = 0

-----------------------------------------------------------------------------
(* Requests *)

RunRefused(r) ==
    /\ Turn /\ outcome[r] = "none"
    /\ closed \/ Len(queue) >= MaxQueued
    /\ outcome' = [outcome EXCEPT ![r] = "refused"]
    /\ UNCHANGED <<answer, queue, slots, job, sent, box, partial, reply, ending,
                   pumping, closed, stops>>

RunQueued(r) ==
    /\ Turn /\ outcome[r] = "none"
    /\ ~ closed /\ Len(queue) < MaxQueued
    /\ outcome' = [outcome EXCEPT ![r] = "waiting"]
    /\ queue' = Append(queue, r)
    /\ pumping' = TRUE
    /\ UNCHANGED <<answer, slots, job, sent, box, partial, reply, ending, closed, stops>>

\* fail(): the slot is deleted once; its worker is terminated, then pump().
Fail(w) ==
    /\ slots' = slots \ {w}
    /\ outcome' = Settle(job[w], "rejected")
    /\ ending' = ending \cup {w}
    /\ UNCHANGED <<job, pumping>>

\* The signal's listener, for a request that waits and one that runs.
CancelQueued(r) ==
    /\ Turn /\ outcome[r] = "waiting"
    /\ \E i \in 1 .. Len(queue) : queue[i] = r /\ queue' = RemoveAt(queue, i)
    /\ outcome' = Settle(r, "rejected")
    /\ UNCHANGED <<answer, slots, job, sent, box, partial, reply, ending, pumping,
                   closed, stops>>

\* cancel() of a request that runs, the timeout of its slot, or a failure to post.
Drop(w) ==
    /\ Turn /\ w \in slots /\ job[w] # Idle
    /\ Fail(w)
    /\ UNCHANGED <<answer, queue, sent, box, partial, reply, closed, stops>>

\* "error" or "exit" of a worker nobody has terminated.
Die(w) ==
    /\ Turn /\ w \in slots /\ stops < MaxStops
    /\ Fail(w)
    /\ box' = [box EXCEPT ![w] = <<>>]
    /\ stops' = stops + 1
    /\ UNCHANGED <<answer, queue, sent, partial, reply, closed>>

-----------------------------------------------------------------------------
(* pump() *)

Free == {w \in slots : job[w] = Idle}

\* The request at the head of the queue becomes the worker's.
Take(w) ==
    /\ queue' = Tail(queue)
    /\ job' = [job EXCEPT ![w] = Head(queue)]
    /\ sent' = [sent EXCEPT ![w] = 0]

PumpStops ==
    /\ pumping
    /\ \/ closed \/ queue = <<>>
       \/ Free = {} /\ Cardinality(slots) >= Concurrency
    /\ pumping' = FALSE
    /\ UNCHANGED <<outcome, answer, queue, slots, job, sent, box, partial, reply,
                   ending, closed, stops>>

PumpAssigns(w) ==
    /\ pumping /\ ~ closed /\ queue # <<>> /\ w \in Free
    /\ Take(w)
    /\ UNCHANGED <<outcome, answer, slots, box, partial, reply, ending, pumping,
                   closed, stops>>

\* spawn(), and the request that is waiting for it.
PumpSpawns(w) ==
    /\ pumping /\ ~ closed /\ queue # <<>>
    /\ Free = {} /\ Cardinality(slots) < Concurrency
    /\ w \notin Threads
    /\ slots' = slots \cup {w}
    /\ Take(w)
    /\ box' = [box EXCEPT ![w] = <<>>]
    /\ partial' = [partial EXCEPT ![w] = Idle]
    /\ reply' = [reply EXCEPT ![w] = <<>>]
    /\ UNCHANGED <<outcome, answer, ending, pumping, closed, stops>>

\* The constructor of Worker throws, or Worker has no name left: that request
\* fails, the loop goes on.
PumpCannotSpawn ==
    /\ pumping /\ ~ closed /\ queue # <<>>
    /\ Free = {} /\ Cardinality(slots) < Concurrency
    /\ stops < MaxStops \/ Worker \subseteq Threads
    /\ stops' = IF stops < MaxStops THEN stops + 1 ELSE stops
    /\ queue' = Tail(queue)
    /\ outcome' = Settle(Head(queue), "rejected")
    /\ UNCHANGED <<answer, slots, job, sent, box, partial, reply, ending, pumping, closed>>

-----------------------------------------------------------------------------
(* Messages to a worker and back *)

\* One turn of sendWorkerRows, which looks whether the slot still has its request.
Send(w) ==
    /\ Turn /\ w \in slots /\ job[w] # Idle /\ sent[w] < Chunks[job[w]]
    /\ sent' = [sent EXCEPT ![w] = @ + 1]
    /\ box' = [box EXCEPT ![w] = Append(@,
                  [of |-> job[w], append |-> sent[w] > 0,
                   complete |-> sent[w] + 1 = Chunks[job[w]]])]
    /\ UNCHANGED <<outcome, answer, queue, slots, job, partial, reply, ending,
                   pumping, closed, stops>>

\* The worker takes a message: it keeps an incomplete one, answers a complete
\* one, and refuses rows of a request it holds nothing of.
Work(w) ==
    /\ w \in Threads /\ box[w] # <<>>
    /\ LET m == Head(box[w])
           orphan == m.append /\ partial[w] # m.of
       IN /\ box' = [box EXCEPT ![w] = Tail(@)]
          /\ partial' = [partial EXCEPT ![w] = IF orphan THEN @ ELSE IF m.complete THEN Idle ELSE m.of]
          /\ \E ok \in IF orphan THEN {FALSE} ELSE BOOLEAN :
                reply' = [reply EXCEPT ![w] =
                             IF m.complete \/ orphan THEN Append(@, [of |-> m.of, ok |-> ok]) ELSE @]
    /\ UNCHANGED <<outcome, answer, queue, slots, job, sent, ending, pumping, closed, stops>>

\* The "message" listener.  What a worker posted before its termination may
\* still arrive, for a request that has its answer.
Receive(w) ==
    /\ Turn /\ w \in Threads /\ reply[w] # <<>>
    /\ reply' = [reply EXCEPT ![w] = Tail(@)]
    /\ LET m == Head(reply[w]) IN
       IF job[w] = m.of
       THEN /\ job' = [job EXCEPT ![w] = Idle]
            /\ outcome' = Settle(m.of, IF m.ok THEN "resolved" ELSE "rejected")
            /\ answer' = IF m.ok /\ outcome[m.of] = "waiting" THEN [answer EXCEPT ![m.of] = m.of] ELSE answer
            /\ pumping' = TRUE
            /\ UNCHANGED <<slots, ending>>
       ELSE /\ IF w \in slots THEN Fail(w) ELSE UNCHANGED <<slots, outcome, ending, job, pumping>>
            /\ UNCHANGED answer
    /\ UNCHANGED <<queue, sent, box, partial, closed, stops>>

\* The promise of terminate().
Terminated(w) ==
    /\ Turn /\ w \in ending
    /\ ending' = ending \ {w}
    /\ job' = [job EXCEPT ![w] = Idle]
    /\ pumping' = TRUE
    /\ UNCHANGED <<outcome, answer, queue, slots, sent, box, partial, reply, closed, stops>>

\* close() in its first turn: it has a promise of every termination left.
Close ==
    /\ Turn /\ ~ closed
    /\ closed' = TRUE
    /\ queue' = <<>>
    /\ outcome' = [r \in Request |->
          IF InQueue(r) \/ \E w \in slots : job[w] = r THEN Settle(r, "rejected")[r] ELSE outcome[r]]
    /\ slots' = {} /\ ending' = Threads
    /\ UNCHANGED <<answer, job, sent, box, partial, reply, pumping, stops>>

Pump == PumpStops \/ PumpCannotSpawn \/ \E w \in Worker : PumpAssigns(w) \/ PumpSpawns(w)
PoolNext ==
    \/ Close \/ Pump
    \/ \E r \in Request : RunRefused(r) \/ RunQueued(r) \/ CancelQueued(r)
    \/ \E w \in Worker : Drop(w) \/ Die(w) \/ Send(w) \/ Work(w) \/ Receive(w) \/ Terminated(w)

\* Timers fire, terminations end and a worker's replies are delivered.
PoolFairness ==
    /\ WF_poolVars(Pump)
    /\ \A w \in Worker : WF_poolVars(Drop(w)) /\ WF_poolVars(Terminated(w))

PoolSpec == PoolInit /\ [][PoolNext]_poolVars /\ PoolFairness

-----------------------------------------------------------------------------
Waiting == {r \in Request : outcome[r] = "waiting"}

\* A request that is not answered yet is in one place: once in the queue or
\* with one worker.  Cancellation, timeouts, deaths and close() lose none, and
\* give none to two workers.
Placed ==
    /\ \A r \in Request :
          outcome[r] = "waiting" <=> InQueue(r) \/ \E w \in slots : job[w] = r
    /\ \A i, k \in 1 .. Len(queue) : queue[i] = queue[k] => i = k
    /\ \A v, w \in slots : job[v] # Idle /\ job[v] = job[w] => v = w
    /\ \A w \in slots : ~ InQueue(job[w])

\* What is on its way from a worker of the pool answers the request it has, so
\* the pool never meets the "Unexpected computation response" of its own making.
RepliesMatch ==
    \A w \in slots : \A i \in 1 .. Len(reply[w]) : reply[w][i].of = job[w]

\* Outside pump() a request waits only while every worker there may be is busy,
\* or while the end of one is awaited that will call pump() again.
NoIdleWorker ==
    Turn /\ queue # <<>> =>
        /\ Free = {}
        /\ Cardinality(slots) = Concurrency \/ ending # {}

\* Every request is placed once, answered by its own reply, and waits for a reason.
PoolKeepsRequests ==
    /\ Placed /\ RepliesMatch /\ NoIdleWorker
    /\ \A r \in Request : outcome[r] = "resolved" => answer[r] = r
    /\ Cardinality(slots) <= Concurrency
    /\ closed => slots = {} /\ queue = <<>>

\* Every request is answered, though workers hang, die or cannot be started: in the end
\* none of the requests, which are finitely many, waits.
PoolAnswers == <>[](\A r \in Request : outcome[r] # "waiting")

=============================================================================
