------------------------------ MODULE GameCompiler ------------------------------
(***************************************************************************)
(* The compilation of a game's ledger into states, runs and plate           *)
(* appearances (packages/game-core/src: reducer.ts,                         *)
(* compiler/event-transition.ts, compiler/plate-play.ts).  An event whose   *)
(* findings block leaves everything as it was and is no step here; a half   *)
(* that starts before the third out is reported and applied all the same.   *)
(***************************************************************************)
EXTENDS MovementEngine, FiniteSetsExt

CONSTANTS
    Hitters,     \* Hitters[s]: who may bat and run for side s
    Pitchers,    \* Pitchers[s]: who may pitch for side s
    MaxHalves, MaxPitches, MaxChanges, MaxPlays, MaxRows   \* bounds of the ledger

Side == {"away", "home"}

Players(f) == UNION {f[s] : s \in Side}

ASSUME LineupsAssumption ==
    /\ DOMAIN Hitters = Side /\ DOMAIN Pitchers = Side
    /\ \A s \in Side : IsFiniteSet(Hitters[s]) /\ IsFiniteSet(Pitchers[s])
    /\ \A s \in Side : Hitters[s] \subseteq Nat /\ Pitchers[s] \subseteq Nat
    /\ (Hitters["away"] \cup Pitchers["away"]) \cap (Hitters["home"] \cup Pitchers["home"]) = {}
    /\ \A s \in Side : Hitters[s] \cap Pitchers[s] = {}

\* A runner on a base, and a row of a play (see MovementEngine), of such players.
Runner(hitters, pitchers) == [runner : hitters, pitcher : pitchers]
OutKind == {"none", "force", "tag", "appeal_time", "strikeout", "batter_runner_before_first"}
Movement(hitters, pitchers) ==
    [runner : hitters, from : 0 .. 3, to : 1 .. 4, outcome : {"safe", "out", "scored"},
     kind : OutKind, fourth : BOOLEAN, pitcher : pitchers]

\* Undefined is none of them.
ASSUME NobodyAssumption ==
    Nobody \notin Players(Hitters) \cup Players(Pitchers)
                    \cup Runner(Players(Hitters), Players(Pitchers))
                    \cup Movement(Players(Hitters), Players(Pitchers))

VARIABLES
    half,       \* halves started: 0 before the game, odd in the top of an inning
    balls, strikes, outs,
    bases,      \* who is on a base, and the pitcher his run is charged to
    plate,      \* activePlateAppearance; `second` is who batted at the second strike
    mound,      \* activePitchers
    score,
    runsOf,     \* runs in the lines of batters
    chargedTo,  \* runs in the lines of pitchers
    ended,      \* the last entry of plateAppearances
    tally,      \* batters put on in this half, neither out nor home nor run over
    ordered,    \* no play came out otherwise than in the order of its rows
    used        \* what is used of the bounds

gameVars == <<half, balls, strikes, outs, bases, plate, mound, score, runsOf,
              chargedTo, ended, tally, ordered, used>>
linesVars == <<score, runsOf, chargedTo>>

Batting == IF half % 2 = 1 THEN "away" ELSE "home"
Fielding == IF half % 2 = 1 THEN "home" ELSE "away"

\* The players are told apart only by their equality: it is enough that the first
\* one who is free comes next, and the first pitcher of a side pitches first.
Free == {h \in Hitters[Batting] : /\ \A b \in On(bases) : bases[b].runner # h
                                  /\ plate = Nobody \/ plate.batter # h}
NextHitter == CHOOSE h \in Free : \A g \in Free : h <= g

\* Bounds; the ledger ends with the first play that comes after pitches.
Uses(what, most) == used[what] < most /\ used' = [used EXCEPT ![what] = @ + 1]
UsesPlay(rows) ==
    /\ used.rows + Len(rows) <= MaxRows
    /\ used' = [used EXCEPT !.rows = @ + Len(rows),
                            !.plays = IF used.pitches > 0 THEN MaxPlays ELSE @ + 1]

-----------------------------------------------------------------------------
(* applyHalfStart, applyBatterStart, applyPitch, applySubstitution *)

NoPlate == [batter |-> 0, pitcher |-> 0, result |-> "none", second |-> 0]

\* partialPlateAppearance()
Partial == [batter |-> plate.batter, pitcher |-> plate.pitcher, result |-> "partial",
            second |-> plate.second]

HalfStart ==
    /\ half' = half + 1
    /\ balls' = 0 /\ strikes' = 0 /\ outs' = 0 /\ tally' = 0
    /\ bases' = NoBases
    /\ ended' = IF half > 0 /\ plate # Nobody THEN Partial ELSE ended
    /\ plate' = Nobody
    /\ UNCHANGED <<mound, linesVars, ordered, used>>

BatterStart(pitcher) ==
    /\ half > 0 /\ outs < 3 /\ plate = Nobody
    /\ Free # {}
    /\ CASE mound[Fielding] = Nobody ->
              UNCHANGED used /\ \A p \in Pitchers[Fielding] : pitcher <= p
         [] mound[Fielding] = pitcher -> UNCHANGED used
         [] OTHER -> Uses("changes", MaxChanges)
    /\ balls' = 0 /\ strikes' = 0
    /\ mound' = [mound EXCEPT ![Fielding] = pitcher]
    /\ plate' = [batter |-> NextHitter, pitcher |-> pitcher, walkTo |-> Nobody,
                 strikeoutTo |-> Nobody, second |-> Nobody]
    /\ UNCHANGED <<half, outs, bases, linesVars, ended, tally, ordered>>

\* applyPitchCall(): the calls by what they do to the count.
Count(call) ==
    CASE call = "ball" -> <<balls + 1, strikes>>
      [] call = "strike" -> <<balls, strikes + 1>>
      [] call = "foul" -> <<balls, IF strikes < 2 THEN strikes + 1 ELSE strikes>>

Pitch(call) ==
    /\ half > 0 /\ plate # Nobody /\ balls < 4 /\ strikes < 3
    /\ Uses("pitches", MaxPitches)
    /\ balls' = Count(call)[1] /\ strikes' = Count(call)[2]
    /\ plate' = IF strikes' = 2 /\ plate.second = Nobody
                THEN [plate EXCEPT !.second = plate.batter] ELSE plate
    /\ UNCHANGED <<half, outs, bases, mound, linesVars, ended, tally, ordered>>

\* isWalkTransferredToPreviousPitcher()
WalkIsTransferred == (balls = 2 /\ strikes < 2) \/ (balls = 3 /\ strikes < 3)

\* The pitcher of the side in the field.
ChangePitcher(incoming) ==
    /\ half > 0 /\ mound[Fielding] # incoming
    /\ Uses("changes", MaxChanges)
    /\ mound' = [mound EXCEPT ![Fielding] = incoming]
    /\ plate' = IF plate = Nobody THEN Nobody
                ELSE [plate EXCEPT !.pitcher = incoming,
                                   !.walkTo = IF WalkIsTransferred THEN plate.pitcher
                                                                   ELSE incoming]
    /\ UNCHANGED <<half, balls, strikes, outs, bases, linesVars, ended, tally, ordered>>

\* Mutant: the one who comes in takes over the strikes.
StrikeoutToIncoming(incoming) == incoming

\* Whom a strikeout is charged to once `incoming` bats.
StrikeoutTo(incoming) ==
    CASE strikes < 2 -> incoming
      [] strikes >= 2 /\ plate.strikeoutTo = Nobody -> plate.batter
      [] OTHER -> plate.strikeoutTo

\* A substitution, or the header that confirms one.
ChangeBatter ==
    /\ half > 0 /\ plate # Nobody /\ Free # {}
    /\ Uses("changes", MaxChanges)
    /\ plate' = [plate EXCEPT !.batter = NextHitter,
                              !.strikeoutTo = StrikeoutTo(NextHitter)]
    /\ UNCHANGED <<half, balls, strikes, outs, bases, mound, linesVars, ended, tally, ordered>>

ChangeRunner(b) ==
    /\ half > 0 /\ b \in On(bases) /\ Free # {}
    /\ Uses("changes", MaxChanges)
    /\ bases' = [bases EXCEPT ![b].runner = NextHitter]
    /\ UNCHANGED <<half, balls, strikes, outs, plate, mound, linesVars, ended, tally, ordered>>

-----------------------------------------------------------------------------
(* The rows of a play *)

\* A row of a runner at base `from`: safe at one of the bases before home, home, or
\* out on the way to the next.
RowsFrom(runner, from) ==
    LET row(to, outcome, kind, fourth) ==
          [runner |-> runner, from |-> from, to |-> to, outcome |-> outcome,
           kind |-> kind, fourth |-> fourth, pitcher |-> Nobody]
    IN {row(to, "safe", "none", FALSE) : to \in from .. 3}
         \cup {row(4, "scored", "none", FALSE)}
         \cup {row(from + 1, "out", kind, FALSE) : kind \in {"force", "tag", "appeal_time"}}
         \cup {row(from + 1, "out", "appeal_time", TRUE)}

\* `where` are the pairs of a runner and his base.
Rows(where) == UNION {RowsFrom(at[1], at[2]) : at \in where}
After(where, row) ==
    {at \in where : at[1] # row.runner}
      \cup (IF LandsOnBase(row) THEN {<<row.runner, row.to>>} ELSE {})
Runners == {<<bases[b].runner, b>> : b \in On(bases)}

\* explicitMovement(): a runner keeps the pitcher of his row before, or else of the
\* base he left.
Movements(leading, rows, pitcher) ==
    LET ms == leading \o rows
        first(i) == CHOOSE j \in DOMAIN ms : ms[j].runner = ms[i].runner /\ Earlier(ms, j) = {}
        responsible(i) ==
            IF first(i) <= Len(leading) THEN leading[first(i)].pitcher
            ELSE LET base == bases[ms[first(i)].from]
                 IN IF base = Nobody THEN pitcher ELSE base.pitcher
    IN Evaluated([i \in DOMAIN ms |-> [ms[i] EXCEPT !.pitcher = responsible(i)]])

\* A runner without a row whose base another one's row leaves: he is gone.
RunOver(ms) ==
    {b \in On(bases) : /\ b \in Vacated(ms)
                       /\ \A i \in DOMAIN ms : ms[i].runner # bases[b].runner}

\* Those who inherit a pitcher take him along, also when they have no row.
PitcherOf(held, inherits) ==
    IF held.runner \in DOMAIN inherits THEN inherits[held.runner] ELSE held.pitcher
WithPitchers(held, inherits) ==
    [i \in DOMAIN held |->
        IF held[i] = Nobody THEN Nobody
        ELSE [held[i] EXCEPT !.pitcher = PitcherOf(held[i], inherits)]]

\* applyMovementsAtomically(); each \E over one value names it for TLC to evaluate once.
ApplyMovements(movements, direct, put, inherits) ==
    \E ms \in {Evaluated(movements)} :
    \E placed \in {OrderPlayMovements(bases, ms)} :
    \E moved \in {TransitionMovements(outs, bases, placed, direct, ms)} :
        /\ moved.ok
        /\ outs' = moved.outs
        /\ bases' = WithPitchers(moved.bases, inherits)
        /\ score' = [score EXCEPT ![Batting] = @ + Cardinality(moved.scored)]
        /\ runsOf' = [h \in DOMAIN runsOf |->
                        runsOf[h] + Cardinality({i \in moved.scored : ms[i].runner = h})]
        /\ chargedTo' = [p \in DOMAIN chargedTo |->
                           chargedTo[p] + Cardinality({i \in moved.scored : ms[i].pitcher = p})]
        /\ tally' = IF moved.outs = 3 THEN 0
                    ELSE tally + put - Outs(ms) - Cardinality(moved.scored)
                           - Cardinality(RunOver(ms))
        /\ ordered' = (ordered /\ moved = TransitionMovements(outs, bases, ms, direct, ms))

-----------------------------------------------------------------------------
(* applyPlateResultPlay, applyIndependentRunnerPlay *)

\* The results, by what they do: "out" stands for those that put nobody on, "double"
\* for the hits and errors, which put the batter on one base or another.
Results == {"walk", "intentional_walk", "strikeout", "double", "home_run",
            "fielder_choice", "double_play", "out"}

\* requiredBatterDestination(); 0 is out.
RequiredDestination(result) ==
    CASE result \in {"strikeout", "double_play", "out"} -> 0
      [] result = "double" -> 2
      [] result = "home_run" -> 4
      [] OTHER -> 1

\* batterDestination may put a batter on first who would be out.
Destinations(result) ==
    {RequiredDestination(result)}
      \cup (IF result \in {"strikeout", "double_play"} THEN {1} ELSE {})
DirectOuts(result) == IF result = "double_play" THEN {Nobody, 2} ELSE {Nobody}

\* deriveBatterMovement(), defaultOutKind()
BatterMovement(result, destination, pitcher) ==
    [runner |-> plate.batter, from |-> 0, to |-> IF destination = 0 THEN 1 ELSE destination,
     outcome |-> CASE destination = 0 -> "out" [] destination = 4 -> "scored" [] OTHER -> "safe",
     kind |-> CASE destination # 0 -> "none"
                [] destination = 0 /\ result = "strikeout" -> "strikeout"
                [] OTHER -> "batter_runner_before_first",
     fourth |-> FALSE, pitcher |-> pitcher]

\* The last row of a runner of this play; 0 without one.
LastRow(ms, runner) == Max({0} \cup {i \in DOMAIN ms : ms[i].runner = runner})
OutIn(ms, runner) == LastRow(ms, runner) # 0 /\ IsOut(ms[LastRow(ms, runner)])

\* Who takes part in a play, from his base before it (0 for the batter), with the
\* pitcher of his row or his base.
Involved(ms) ==
    {[runner |-> bases[b].runner, origin |-> b, pitcher |-> bases[b].pitcher] : b \in On(bases)}
      \cup {[runner |-> ms[1].runner, origin |-> 0, pitcher |-> ms[1].pitcher]}

\* Mutant: the place of the runner who is out is lost.
SlotsBehind(slots, retired, lead) == Append(slots, retired.pitcher)

\* Where the survivors take over the pitcher of a runner who is out.
SlotsWith(slots, retired, lead) ==
    SubSeq(slots, 1, lead) \o <<retired.pitcher>> \o SubSeq(slots, lead + 1, Len(slots))

ByOrigin(runners) ==
    [i \in 1 .. Cardinality(runners) |->
        CHOOSE r \in runners : Cardinality({q \in runners : q.origin > r.origin}) = i - 1]

\* inheritFielderChoiceResponsibilities(): a runner's pitcher after the play.
Inherited(ms, result, pitcher) ==
    LET survivors == ByOrigin({r \in Involved(ms) : ~ OutIn(ms, r.runner)})
        retired == {r \in Involved(ms) :
                      /\ r.origin > 0
                      /\ OutIn(ms, r.runner)
                      /\ r.pitcher # pitcher
                      /\ result = "fielder_choice" \/ ms[LastRow(ms, r.runner)].kind = "force"}
        lead(r) == Cardinality({i \in DOMAIN survivors : survivors[i].origin > r.origin})
        own(r) == IF LastRow(ms, r.runner) = 0 THEN r.pitcher
                  ELSE ms[LastRow(ms, r.runner)].pitcher
        slots[origin \in 0 .. 3] ==
            IF origin = 0 THEN [i \in DOMAIN survivors |-> own(survivors[i])]
            ELSE LET out == {r \in retired : r.origin = origin}
                 IN IF out = {} THEN slots[origin - 1]
                    ELSE LET r == CHOOSE r \in out : TRUE
                         IN SlotsWith(slots[origin - 1], r, lead(r))
    IN [runner \in {survivors[i].runner : i \in DOMAIN survivors} |->
          slots[3][CHOOSE i \in DOMAIN survivors : survivors[i].runner = runner]]

CountAllows(result) ==
    /\ result = "walk" => balls = 4
    /\ result = "strikeout" => strikes = 3

PlateResult(result, destination, direct, rows) ==
    LET charged == IF result = "strikeout" /\ plate.strikeoutTo # Nobody
                   THEN plate.strikeoutTo ELSE plate.batter
        pitcher == IF result \in {"walk", "intentional_walk"} /\ plate.walkTo # Nobody
                   THEN plate.walkTo ELSE plate.pitcher
    IN  /\ half > 0 /\ plate # Nobody
        /\ CountAllows(result)
        /\ UsesPlay(rows)
        /\ \E named \in {Movements(<<BatterMovement(result, destination, pitcher)>>,
                                   rows, plate.pitcher)} :
           \E inherits \in {IF result \in {"fielder_choice", "double_play"}
                            THEN Inherited(named, result, plate.pitcher) ELSE <<>>} :
             ApplyMovements(WithPitchers(named, inherits), direct, 1, inherits)
        /\ ended' = [batter |-> charged, pitcher |-> pitcher, result |-> result,
                     second |-> plate.second]
        /\ plate' = Nobody /\ balls' = 0 /\ strikes' = 0
        /\ UNCHANGED <<half, mound>>

RunnerPlay(rows) ==
    LET pitcher == IF plate # Nobody THEN plate.pitcher ELSE mound[Fielding]
    IN  /\ half > 0 /\ rows # <<>> /\ pitcher # Nobody
        /\ UsesPlay(rows)
        /\ ApplyMovements(Movements(<<>>, rows, pitcher), 0, 0, <<>>)
        /\ UNCHANGED <<half, balls, strikes, plate, mound, ended>>

-----------------------------------------------------------------------------
GameInit ==
    /\ half = 0 /\ balls = 0 /\ strikes = 0 /\ outs = 0 /\ tally = 0
    /\ bases = NoBases /\ plate = Nobody /\ ended = NoPlate
    /\ mound = [s \in Side |-> Nobody]
    /\ score = [s \in Side |-> 0]
    /\ runsOf = [h \in Players(Hitters) |-> 0]
    /\ chargedTo = [p \in Players(Pitchers) |-> 0]
    /\ ordered = TRUE
    /\ used = [what \in {"pitches", "changes", "plays", "rows"} |-> 0]

\* A bound: the count decides about walks and strikeouts only, so that other plays
\* are enumerated where it is not begun.
FirstPitch == balls = 0 /\ strikes = 0

\* Bounds: the ledger ends with its last play, or where the last half starts.
GameNext ==
    /\ used.plays < MaxPlays /\ half < MaxHalves
    /\ \/ HalfStart
       \/ \E p \in Pitchers[Fielding] : BatterStart(p)
       \/ \E call \in {"ball", "strike", "foul"} : Pitch(call)
       \/ \E p \in Pitchers[Fielding] : ChangePitcher(p)
       \/ ChangeBatter
       \/ \E b \in Base : ChangeRunner(b)
       \/ \E result \in Results, destination \in 0 .. 4, direct \in {Nobody, 2} :
             /\ plate # Nobody
             /\ destination \in Destinations(result) /\ direct \in DirectOuts(result)
             /\ CountAllows(result)
             /\ result \in {"walk", "strikeout"} \/ FirstPitch
             /\ LET at == IF destination \in Base THEN {<<plate.batter, destination>>} ELSE {}
                    play(rows) == PlateResult(result, destination, direct, rows)
                IN  \/ play(<<>>)
                    \/ \E r \in Rows(Runners \cup at) :
                          \/ play(<<r>>)
                          \/ \E s \in Rows(After(Runners \cup at, r)) : play(<<r, s>>)
       \/ /\ FirstPitch
          /\ \E r \in Rows(Runners) :
               \/ RunnerPlay(<<r>>)
               \/ \E s \in Rows(After(Runners, r)) : RunnerPlay(<<r, s>>)

GameSpec == GameInit /\ [][GameNext]_gameVars

-----------------------------------------------------------------------------
(* What the compiled game makes of its ledger *)

\* Whoever came to bat in an unfinished half is on a base, out, or home, unless the
\* row of another one left the base he stood on; nobody is on two bases, and nobody
\* on a base is at bat.
RunnersAreKept ==
    /\ outs < 3 => Cardinality(On(bases)) = tally
    /\ \A b, c \in On(bases) : b # c => bases[b].runner # bases[c].runner
    /\ plate # Nobody => \A b \in On(bases) : bases[b].runner # plate.batter

\* Each run of a side is in the line of one of its batters and of one of the
\* pitchers it was scored on.
RunsAreCharged ==
    \A s \in Side : \A t \in Side \ {s} :
        /\ score[s] = MapThenSumSet(LAMBDA h : runsOf[h], Hitters[s])
        /\ score[s] = MapThenSumSet(LAMBDA p : chargedTo[p], Pitchers[t])

\* A strikeout is charged to the batter who had two strikes, whoever bats at the third.
StrikeoutsAreOwed == ended.result = "strikeout" => ended.batter = ended.second

\* Each play comes out as in the order of its rows: the order the compiler places
\* them in decides about no out, base or run.
OrderDecidesNothing == ordered

\* What a pitcher no longer pitching still owes: his runners, and his runs.
Owed(p) == chargedTo[p] + Cardinality({b \in On(bases) : bases[b].pitcher = p})

\* When a runner is out on a fielder's choice and the batter stays on, the pitchers
\* before owe what they did, as a survivor takes the place of the one who is out
\* (unless another one's row left a base he stood on).
ChoicesKeepWhatIsOwed ==
    [][(/\ plate # Nobody /\ plate' = Nobody /\ ended'.result = "fielder_choice"
        /\ outs' = outs + 1 /\ outs' < 3
        /\ \E b \in On(bases') : bases'[b].runner = plate.batter
        /\ Cardinality(On(bases')) + score'[Batting] = Cardinality(On(bases)) + score[Batting])
       => \A p \in Pitchers[Fielding] \ {plate.pitcher} : Owed(p)' = Owed(p)]_gameVars

=============================================================================
