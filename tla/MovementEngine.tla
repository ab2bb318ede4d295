---------------------------- MODULE MovementEngine ----------------------------
(***************************************************************************)
(* The movements of one play on copied bases                                *)
(* (packages/game-core/src/compiler/movement-engine.ts): the order they are *)
(* placed in, and what the play makes of outs, bases and runs, or that it   *)
(* is refused as a whole.                                                   *)
(***************************************************************************)
EXTENDS Integers, Sequences, FiniteSets

CONSTANT Nobody   \* an empty base; also what a ledger row leaves undefined

Base == 1 .. 3
NoBases == [b \in Base |-> Nobody]
On(bases) == {b \in Base : bases[b] # Nobody}

\* A movement is a record [runner, from, to, outcome, kind, fourth, pitcher]: `from`
\* is 0 for the batter, `to` is 4 for home, `fourth` is supersedesThirdOut.
IsOut(m) == m.outcome = "out"
LandsOnBase(m) == m.outcome = "safe" /\ m.to # 4
Outs(ms) == Cardinality({i \in DOMAIN ms : IsOut(ms[i])})
BatterOuts(ms) == Cardinality({i \in DOMAIN ms : IsOut(ms[i]) /\ ms[i].from = 0})
Earlier(ms, i) == {j \in 1 .. i - 1 : ms[j].runner = ms[i].runner}

-----------------------------------------------------------------------------
(* orderPlayMovements() *)

\* The movement that clears the base another one goes to.
Clearing(bases, ms, i) ==
    IF ~ LandsOnBase(ms[i]) \/ bases[ms[i].to] = Nobody THEN {}
    ELSE LET held == bases[ms[i].to].runner
             leaving == {j \in DOMAIN ms : ms[j].runner = held /\ ms[j].from = ms[i].to}
         IN IF held = ms[i].runner \/ leaving = {} THEN {}
            ELSE {CHOOSE j \in leaving : \A h \in leaving : j <= h}

Predecessors(bases, ms, i) == Earlier(ms, i) \cup Clearing(bases, ms, i)

Deferred(ms, i) == IF IsOut(ms[i]) /\ Earlier(ms, i) # {} THEN 1 ELSE 0
GoesBefore(ms, i, j) ==
    \/ Deferred(ms, i) < Deferred(ms, j)
    \/ Deferred(ms, i) = Deferred(ms, j) /\ ms[i].from > ms[j].from
    \/ Deferred(ms, i) = Deferred(ms, j) /\ ms[i].from = ms[j].from /\ i < j

\* The positions of `ms` in the order they are placed in; as they are when they
\* wait for each other.
PlacementOrder(bases, ms) ==
    LET chosen[n \in 0 .. Len(ms)] ==
          IF n = 0 THEN <<>>
          ELSE LET sofar == chosen[n - 1]
                   done == {sofar[h] : h \in DOMAIN sofar}
                   ready == {i \in DOMAIN ms \ done : Predecessors(bases, ms, i) \subseteq done}
               IN IF ready = {} THEN sofar
                  ELSE Append(sofar,
                              CHOOSE i \in ready : \A j \in ready \ {i} : GoesBefore(ms, i, j))
        all == chosen[Len(ms)]
    IN IF Len(all) < Len(ms) THEN [i \in DOMAIN ms |-> i] ELSE all

\* The sequence itself; TLC evaluates its elements once.
Evaluated(s) == s \o <<>>

OrderPlayMovements(bases, ms) ==
    LET order == PlacementOrder(bases, ms) IN Evaluated([i \in DOMAIN ms |-> ms[order[i]]])

-----------------------------------------------------------------------------
(* transitionMovements() *)

BaseOf(bases, runner) ==
    LET held == {b \in On(bases) : bases[b].runner = runner}
    IN IF held = {} THEN 0 ELSE CHOOSE b \in held : \A c \in held : c <= b

\* Where the runner of row i is before it.
Position(bases, ms, i) ==
    IF Earlier(ms, i) = {} THEN BaseOf(bases, ms[i].runner)
    ELSE LET m == ms[CHOOSE j \in Earlier(ms, i) : \A h \in Earlier(ms, i) : h <= j]
         IN IF LandsOnBase(m) THEN m.to ELSE 0

\* Arriving safely at the base one was on is not leaving it.
Leaves(m) == m.outcome # "safe" \/ m.to # m.from

OriginsAreSound(bases, ms) ==
    \A i \in DOMAIN ms : ms[i].from # 0 =>
        /\ Position(bases, ms, i) = ms[i].from
        /\ ~ \E j \in Earlier(ms, i) : ms[j].from = ms[i].from /\ Leaves(ms[j])

Vacated(ms) == {ms[i].from : i \in DOMAIN ms} \ {0}
Final(ms) == {i \in DOMAIN ms : \A j \in i + 1 .. Len(ms) : ms[j].runner # ms[i].runner}
Landing(ms) == {i \in Final(ms) : LandsOnBase(ms[i])}

DestinationsAreFree(bases, ms) ==
    \A i \in Landing(ms) :
        /\ bases[ms[i].to] = Nobody \/ ms[i].to \in Vacated(ms)
        /\ \A j \in Landing(ms) \ {i} : ms[j].to # ms[i].to

Placed(bases, ms) ==
    [b \in Base |->
        IF \E i \in Landing(ms) : ms[i].to = b
        THEN LET m == ms[CHOOSE i \in Landing(ms) : ms[i].to = b]
             IN [runner |-> m.runner, pitcher |-> m.pitcher]
        ELSE IF b \in Vacated(ms) THEN Nobody ELSE bases[b]]

\* indexOfThirdOut(): outs no movement names come first; 0 when there is no third.
ThirdOut(ms, outs, anonymous) ==
    LET third == {i \in DOMAIN ms : outs + anonymous + Outs(SubSeq(ms, 1, i)) >= 3}
    IN IF third = {} THEN 0 ELSE CHOOSE i \in third : \A j \in third : i <= j

\* thirdOutCancelsEveryRun()
CancelsEveryRun(m) ==
    m.kind \in {"force", "appeal_force", "batter_runner_before_first", "strikeout"}

StartOf(ms, runner) ==
    ms[CHOOSE i \in DOMAIN ms : ms[i].runner = runner /\ Earlier(ms, i) = {}].from

\* A run counts unless the third out cancels every run, or the runner started
\* behind the one who is out on appeal.
Counts(ms, i, third) ==
    third = 0 \/ (/\ ~ CancelsEveryRun(ms[third])
                  /\ (ms[third].kind = "appeal_time" =>
                         StartOf(ms, ms[i].runner) > StartOf(ms, ms[third].runner)))

Refused == [ok |-> FALSE, outs |-> 0, added |-> 0, bases |-> NoBases, scored |-> {}]

\* `placed` are the movements in the order they are placed in, `ms` in that of the
\* ledger; `direct` is outsRecorded.
TransitionMovements(outs, bases, placed, direct, ms) ==
    LET results == IF direct = Nobody THEN BatterOuts(ms) ELSE direct
        anonymous == results - BatterOuts(ms)
        added == Outs(ms) + anonymous
        natural == ThirdOut(ms, outs, anonymous)
        fourths == {i \in DOMAIN ms : ms[i].fourth}
        ends == outs < 3 /\ outs + added >= 3
        fourth == CHOOSE i \in fourths : TRUE
        third == CASE ~ ends -> 0 [] ends /\ fourths # {} -> fourth [] OTHER -> natural
        final == IF outs + added >= 3 THEN 3 ELSE outs + added
    IN  IF /\ OriginsAreSound(bases, placed)
           /\ results >= BatterOuts(ms)
           /\ ends \/ DestinationsAreFree(bases, placed)
           /\ Cardinality(fourths) <= 1
           /\ fourths # {} => IsOut(ms[fourth]) /\ natural # 0 /\ fourth > natural
           /\ fourths = {} => outs + added <= 3
        THEN [ok |-> TRUE, outs |-> final, added |-> final - outs,
              bases |-> IF final = 3 THEN NoBases ELSE Placed(bases, placed),
              scored |-> {i \in DOMAIN ms : ms[i].outcome = "scored" /\ Counts(ms, i, third)}]
        ELSE Refused

=============================================================================
