------------------------ MODULE PitchClusteringWorkers ------------------------
(***************************************************************************)
(* One worker thread per pitch clustering                                   *)
(* (apps/server/src/pitch-clustering-workers.ts): the timeout, the worker's *)
(* message, its error and its exit are separate events, and only the exit   *)
(* answers the call and gives its place to the next.                        *)
(***************************************************************************)
EXTENDS Naturals, Sequences, FiniteSets

CONSTANTS
    Fit,        \* calls of fit()
    MaxActive,  \* the 2 of pump()
    MaxWaiting  \* the 32 of fit()

ASSUME FitLimitAssumption == {MaxActive, MaxWaiting} \subseteq Nat \ {0}

VARIABLES
    fit,         \* per call: "none", "waiting", "resolved", "rejected" or "refused"
    fitQueue,    \* queue
    active,      \* calls whose worker is in the map
    thread,      \* the worker of a call: "none", "busy", "stopping" or "gone"
    posted,      \* the message of a worker that is on its way: "none", "good" or "bad"
    result, failure,   \* calls with a result, and with a failure
    timer,       \* calls whose timeout is set
    fitPumping,  \* pump() is running
    fitClosed

fitVars == <<fit, fitQueue, active, thread, posted, result, failure, timer, fitPumping, fitClosed>>

FitTurn == ~ fitPumping
Settled(f, how) == [fit EXCEPT ![f] = IF @ = "waiting" THEN how ELSE @]
Stop(f) == thread' = [thread EXCEPT ![f] = IF @ = "busy" THEN "stopping" ELSE @]

FitInit ==
    /\ fit = [f \in Fit |-> "none"]
    /\ fitQueue = <<>> /\ active = {} /\ result = {} /\ failure = {} /\ timer = {}
    /\ thread = [f \in Fit |-> "none"]
    /\ posted = [f \in Fit |-> "none"]
    /\ fitPumping = FALSE /\ fitClosed = FALSE

FitRefused(f) ==
    /\ FitTurn /\ fit[f] = "none"
    /\ fitClosed \/ Len(fitQueue) >= MaxWaiting
    /\ fit' = [fit EXCEPT ![f] = "refused"]
    /\ UNCHANGED <<fitQueue, active, thread, posted, result, failure, timer, fitPumping, fitClosed>>

FitQueued(f) ==
    /\ FitTurn /\ fit[f] = "none"
    /\ ~ fitClosed /\ Len(fitQueue) < MaxWaiting
    /\ fit' = [fit EXCEPT ![f] = "waiting"]
    /\ fitQueue' = Append(fitQueue, f)
    /\ fitPumping' = TRUE
    /\ UNCHANGED <<active, thread, posted, result, failure, timer, fitClosed>>

MayStart == ~ fitClosed /\ Cardinality(active) < MaxActive /\ fitQueue # <<>>

StartStops ==
    /\ fitPumping /\ ~ MayStart
    /\ fitPumping' = FALSE
    /\ UNCHANGED <<fit, fitQueue, active, thread, posted, result, failure, timer, fitClosed>>

Start ==
    /\ fitPumping /\ MayStart
    /\ LET f == Head(fitQueue) IN
       /\ active' = active \cup {f}
       /\ thread' = [thread EXCEPT ![f] = "busy"]
       /\ timer' = timer \cup {f}
    /\ fitQueue' = Tail(fitQueue)
    /\ UNCHANGED <<fit, posted, result, failure, fitPumping, fitClosed>>

\* The constructor of Worker throws.
CannotStart ==
    /\ fitPumping /\ MayStart
    /\ fitQueue' = Tail(fitQueue)
    /\ fit' = Settled(Head(fitQueue), "rejected")
    /\ UNCHANGED <<active, thread, posted, result, failure, timer, fitPumping, fitClosed>>

\* The timeout's callback; a worker that has ended takes no harm from it.
TimedOut(f) ==
    /\ FitTurn /\ f \in timer
    /\ timer' = timer \ {f}
    /\ failure' = failure \cup {f}
    /\ Stop(f)
    /\ UNCHANGED <<fit, fitQueue, active, posted, result, fitPumping, fitClosed>>

\* The thread posts its result and has nothing left to do, or ends with an
\* uncaught error, or with a code of its own.
Post(f) ==
    /\ thread[f] = "busy"
    /\ \E how \in {"good", "bad"} : posted' = [posted EXCEPT ![f] = how]
    /\ Stop(f)
    /\ UNCHANGED <<fit, fitQueue, active, result, failure, timer, fitPumping, fitClosed>>

Break(f) ==
    /\ FitTurn /\ thread[f] = "busy"
    /\ Stop(f)
    /\ \/ failure' = failure \cup {f}
       \/ UNCHANGED failure
    /\ UNCHANGED <<fit, fitQueue, active, posted, result, timer, fitPumping, fitClosed>>

\* The "message" listener.
Message(f) ==
    /\ FitTurn /\ posted[f] # "none"
    /\ posted' = [posted EXCEPT ![f] = "none"]
    /\ \/ posted[f] = "good" /\ result' = result \cup {f} /\ UNCHANGED failure
       \/ posted[f] = "bad" /\ failure' = failure \cup {f} /\ UNCHANGED result
    /\ UNCHANGED <<fit, fitQueue, active, thread, timer, fitPumping, fitClosed>>

\* Mutant: a call is resolved with its result although its time is over.
ExitsLate(f) ==
    /\ FitTurn /\ thread[f] = "stopping" /\ posted[f] = "none"
    /\ thread' = [thread EXCEPT ![f] = "gone"]
    /\ timer' = timer \ {f}
    /\ active' = active \ {f}
    /\ fit' = Settled(f, IF f \notin result THEN "rejected" ELSE "resolved")
    /\ fitPumping' = TRUE
    /\ UNCHANGED <<fitQueue, posted, result, failure, fitClosed>>

\* The "exit" listener, after the messages of the worker.
Exit(f) ==
    /\ FitTurn /\ thread[f] = "stopping" /\ posted[f] = "none"
    /\ thread' = [thread EXCEPT ![f] = "gone"]
    /\ timer' = timer \ {f}
    /\ active' = active \ {f}
    /\ fit' = Settled(f, IF f \in failure \/ f \notin result THEN "rejected" ELSE "resolved")
    /\ fitPumping' = TRUE
    /\ UNCHANGED <<fitQueue, posted, result, failure, fitClosed>>

FitClose ==
    /\ FitTurn /\ ~ fitClosed
    /\ fitClosed' = TRUE
    /\ fitQueue' = <<>>
    /\ fit' = [f \in Fit |-> IF fit[f] = "waiting" THEN "rejected" ELSE fit[f]]
    /\ thread' = [f \in Fit |-> IF f \in active /\ thread[f] = "busy" THEN "stopping" ELSE thread[f]]
    /\ UNCHANGED <<active, posted, result, failure, timer, fitPumping>>

FitPump == StartStops \/ Start \/ CannotStart
FitNext ==
    \/ FitPump \/ FitClose
    \/ \E f \in Fit : \/ FitRefused(f) \/ FitQueued(f) \/ TimedOut(f) \/ Post(f)
                      \/ Break(f) \/ Message(f) \/ Exit(f)

\* Timers fire, messages are delivered and terminated threads end.
FitFairness ==
    /\ WF_fitVars(FitPump)
    /\ \A f \in Fit : WF_fitVars(TimedOut(f)) /\ WF_fitVars(Message(f)) /\ WF_fitVars(Exit(f))

FitSpec == FitInit /\ [][FitNext]_fitVars /\ FitFairness

-----------------------------------------------------------------------------
\* A call that is not answered waits in the queue or has a worker that has not
\* ended; nobody waits while a place is free; the workers of the map are those
\* that live, two at most; no call whose time is over is resolved.
FitKeepsCalls ==
    /\ \A f \in Fit : fit[f] = "waiting" =>
          \/ \E i \in 1 .. Len(fitQueue) : fitQueue[i] = f
          \/ f \in active
    /\ active = {f \in Fit : thread[f] \in {"busy", "stopping"}}
    /\ Cardinality(active) <= MaxActive
    /\ FitTurn /\ fitQueue # <<>> => Cardinality(active) = MaxActive
    /\ timer \subseteq active
    /\ \A f \in Fit : fit[f] = "resolved" => f \in result \ failure

\* Every call is answered: in the end none waits.
FitAnswers == <>[](\A f \in Fit : fit[f] # "waiting")

=============================================================================
