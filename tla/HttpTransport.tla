----------------------------- MODULE HttpTransport -----------------------------
(***************************************************************************)
(* RetryingHttpTransport: requests to a source that are sent one interval  *)
(* apart, give up an attempt after a timeout, are tried again with a       *)
(* growing pause, and may be aborted at any moment                                *)
(* (packages/collection/src/http-transport.ts; the client of Naver is      *)
(* http-client.ts).                                                        *)
(*                                                                         *)
(* Time goes by in units; a timer that is due runs at some later step.     *)
(* Answers are reduced to what the transport does with them.               *)
(***************************************************************************)
EXTENDS Integers, Sequences

CONSTANTS
    HttpRequest,
    MaxAttempts,
    RequestInterval,    \* units between the starts of two attempts
    RequestTimeout,     \* units until an attempt is given up
    BaseBackoff         \* units of the first pause

ASSUME HttpAssumption ==
    {MaxAttempts, RequestInterval, RequestTimeout, BaseBackoff} \subseteq Nat \ {0}

VARIABLES
    httpStage,  \* of each request: what it waits for, or how it ended
    attempt,    \* the attempt it is at
    httpTimer,  \* units until its own timer is due
    isAborted,  \* whether its signal is aborted
    limiter,    \* the requests that wait for the limiter, the first one holding it
    untilNext,  \* units until nextRequestAt
    sinceLast   \* history: units since the last attempt began, at most RequestInterval
httpVars == <<httpStage, attempt, httpTimer, isAborted, limiter, untilNext, sinceLast>>

HttpEnds == {"answered", "failed", "exhausted", "cancelled"}

HttpInit ==
    /\ httpStage = [r \in HttpRequest |-> "new"]
    /\ attempt = [r \in HttpRequest |-> 0]
    /\ httpTimer = [r \in HttpRequest |-> 0]
    /\ isAborted = [r \in HttpRequest |-> FALSE]
    /\ limiter = <<>>
    /\ untilNext = 0 /\ sinceLast = RequestInterval

EnterStage(r, s) == httpStage' = [httpStage EXCEPT ![r] = s]
SetTimer(r, units) == httpTimer' = [httpTimer EXCEPT ![r] = units]

\* The next turn of the loop: an aborted request ends, another one joins the
\* requests that wait for the limiter.
NextAttempt(r) ==
    /\ SetTimer(r, 0)
    /\ attempt' = [attempt EXCEPT ![r] = @ + 1]
    /\ IF isAborted[r] THEN EnterStage(r, "cancelled") /\ UNCHANGED limiter
       ELSE EnterStage(r, "queued") /\ limiter' = Append(limiter, r)
    /\ UNCHANGED <<isAborted, untilNext, sinceLast>>

BeginRequest(r) == httpStage[r] = "new" /\ NextAttempt(r)

HoldsLimiter(r) == limiter # <<>> /\ Head(limiter) = r

\* The limiter is passed on, the time of the next attempt set, and this one begins.
StartAttempt(r) ==
    /\ EnterStage(r, "sent")
    /\ SetTimer(r, RequestTimeout)
    /\ untilNext' = RequestInterval /\ sinceLast' = 0
    /\ limiter' = Tail(limiter)
    /\ UNCHANGED <<attempt, isAborted>>

\* Mutant: an aborted request keeps the limiter.
GiveUpTurnHolding(r) ==
    /\ EnterStage(r, "cancelled")
    /\ SetTimer(r, 0)
    /\ UNCHANGED <<attempt, isAborted, limiter, untilNext, sinceLast>>

GiveUpTurn(r) ==
    /\ EnterStage(r, "cancelled")
    /\ SetTimer(r, 0)
    /\ limiter' = Tail(limiter)
    /\ UNCHANGED <<attempt, isAborted, untilNext, sinceLast>>

\* The requests before it have released the limiter.
WaitTurn(r) ==
    /\ EnterStage(r, "delayed")
    /\ SetTimer(r, untilNext)
    /\ UNCHANGED <<attempt, isAborted, limiter, untilNext, sinceLast>>
TakeTurn(r) ==
    /\ httpStage[r] = "queued" /\ HoldsLimiter(r)
    /\ \/ isAborted[r] /\ GiveUpTurn(r)
       \/ ~isAborted[r] /\ untilNext = 0 /\ StartAttempt(r)
       \/ ~isAborted[r] /\ untilNext > 0 /\ WaitTurn(r)

DelayEnds(r) == httpStage[r] = "delayed" /\ httpTimer[r] = 0 /\ ~isAborted[r] /\ StartAttempt(r)
DelayAborted(r) == httpStage[r] = "delayed" /\ isAborted[r] /\ GiveUpTurn(r)

EndRequest(r, end) ==
    /\ EnterStage(r, end)
    /\ SetTimer(r, 0)
    /\ UNCHANGED <<attempt, isAborted, limiter, untilNext, sinceLast>>

\* The attempt throws: an aborted request is cancelled whatever was thrown, and
\* one that may be tried again pauses, twice as long each time.
Thrown(r, retryable) ==
    CASE isAborted[r] -> EndRequest(r, "cancelled")
      [] ~isAborted[r] /\ ~retryable -> EndRequest(r, "failed")
      [] ~isAborted[r] /\ retryable /\ attempt[r] = MaxAttempts -> EndRequest(r, "exhausted")
      [] OTHER -> /\ EnterStage(r, "pausing")
                  /\ SetTimer(r, BaseBackoff * 2 ^ (attempt[r] - 1))
                  /\ UNCHANGED <<attempt, isAborted, limiter, untilNext, sinceLast>>

\* The source answers well, with an error, or breaks off; or it does not in time.
\* What fetch and the decoder made of it may reach the loop after the abort.
Answered(r) == httpStage[r] = "sent" /\ EndRequest(r, "answered")
AttemptFails(r) == httpStage[r] = "sent" /\ \E retryable \in BOOLEAN : Thrown(r, retryable)
TimesOut(r) == httpStage[r] = "sent" /\ httpTimer[r] = 0 /\ Thrown(r, TRUE)
FetchAborted(r) == httpStage[r] = "sent" /\ isAborted[r] /\ Thrown(r, FALSE)

\* Mutant: another attempt does not wait for the limiter again.
PauseEndsUnlimited(r) ==
    /\ httpStage[r] = "pausing" /\ httpTimer[r] = 0 /\ ~isAborted[r]
    /\ EnterStage(r, "sent") /\ SetTimer(r, RequestTimeout)
    /\ attempt' = [attempt EXCEPT ![r] = @ + 1] /\ sinceLast' = 0
    /\ UNCHANGED <<isAborted, limiter, untilNext>>

PauseEnds(r) == httpStage[r] = "pausing" /\ httpTimer[r] = 0 /\ ~isAborted[r] /\ NextAttempt(r)
PauseAborted(r) == httpStage[r] = "pausing" /\ isAborted[r] /\ EndRequest(r, "cancelled")

\* Whoever made the request aborts its signal.
AbortRequest(r) ==
    /\ httpStage[r] \notin HttpEnds /\ ~isAborted[r]
    /\ isAborted' = [isAborted EXCEPT ![r] = TRUE]
    /\ UNCHANGED <<httpStage, attempt, httpTimer, limiter, untilNext, sinceLast>>

\* A unit of time passes.
Sooner(units) == IF units = 0 THEN 0 ELSE units - 1
PassTime ==
    /\ httpTimer' = [r \in HttpRequest |-> Sooner(httpTimer[r])]
    /\ untilNext' = Sooner(untilNext)
    /\ sinceLast' = IF sinceLast = RequestInterval THEN sinceLast ELSE sinceLast + 1
    /\ UNCHANGED <<httpStage, attempt, isAborted, limiter>>

Proceeds(r) ==
    TakeTurn(r) \/ DelayEnds(r) \/ DelayAborted(r) \/ TimesOut(r) \/ FetchAborted(r)
        \/ PauseEnds(r) \/ PauseAborted(r)

HttpNext ==
    \/ \E r \in HttpRequest : BeginRequest(r) \/ AbortRequest(r)
    \/ \E r \in HttpRequest : Answered(r) \/ AttemptFails(r)
    \/ \E r \in HttpRequest : Proceeds(r)
    \/ PassTime

\* Time goes by and the event loop runs what is due; the source need not answer.
HttpFairness ==
    /\ WF_httpVars(PassTime)
    /\ WF_httpVars(\E r \in HttpRequest : Proceeds(r))
HttpSpec == HttpInit /\ [][HttpNext]_httpVars /\ HttpFairness

----------------------------------------------------------------------------
\* The attempts of all requests, retries included, begin at least one interval
\* apart, none of them for a request that was aborted before, and none beyond the
\* last.
StartsAreSpaced ==
    [][\A r \in HttpRequest :
          httpStage[r] # "sent" /\ httpStage'[r] = "sent" =>
              sinceLast = RequestInterval /\ ~isAborted[r] /\ attempt[r] <= MaxAttempts]_httpVars

\* Every request ends, whatever the source does and whoever aborts, for one that is
\* aborted leaves the limiter to the next: in the end none is under way.
RequestsEnd == <>[](\A r \in HttpRequest : httpStage[r] \in HttpEnds \cup {"new"})

=============================================================================
