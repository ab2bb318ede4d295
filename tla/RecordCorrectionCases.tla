------------------------- MODULE RecordCorrectionCases -------------------------
(***************************************************************************)
(* The cases of official record corrections: one notice of one season       *)
(* (packages/persistence/src/record-correction-sources.ts and               *)
(* record-correction-cases.ts) that the service                             *)
(* (apps/server/src/record-correction-service.ts) assesses against the      *)
(* sealed revisions of one game, while the season is imported again, a      *)
(* reviewer decides, a proposal is applied and the game is imported.        *)
(***************************************************************************)
EXTENDS Naturals, Sequences

CONSTANTS
    Assessor,      \* calls of assessNotice() in flight
    MaxContents,   \* bound of the contents the notice can have
    MaxSources,    \* bound of the revisions of the season
    MaxRevisions,  \* bound of the revisions of the game
    MaxVersions    \* bound of the versions of the case

ASSUME CaseAssumption == {MaxContents, MaxSources, MaxRevisions, MaxVersions} \subseteq Nat \ {0}

VARIABLES
    contents,   \* per sealed revision of the season the content (hash) of the notice, 0 when it has none
    case,       \* the row of match_assessments; version 0: there is none
    games,      \* the sealed revisions of the game: what they were made from and which content they satisfy
    toResolve,  \* revisions whose afterImport() has not begun
    assessing,  \* per assessor the locals of assessNotice()
    applying,   \* the locals of applyProposal(); content 0: no call
    raced       \* a write was about another content or revision of the notice: of the properties alone

caseVars == <<contents, case, games, toResolve, assessing, applying, raced>>

Content == 1 .. MaxContents
NoDocument == [base |-> 0, fixes |-> 0]
NoCase == [source |-> 0, version |-> 0, status |-> "none", game |-> 0, candidate |-> 0,
           approved |-> NoDocument, applied |-> 0]
Resting == [stage |-> "idle", imported |-> 0, notice |-> 0, read |-> 0, status |-> "none",
            candidate |-> 0, location |-> 0, version |-> 0]
Decided == {"dismissed", "resolved"}

Season == Len(contents)
Current == Len(games)
InForce == contents[Season]
ContentOfCase == contents[case.source]

\* The join of listCases(): the case is one of the season's current revision.
Listed == case.version # 0 /\ case.source = Season

CasesInit ==
    /\ contents = <<1>>
    /\ case = [NoCase EXCEPT !.source = 1, !.version = 1, !.status = "manual_review"]
    /\ games = <<>> /\ toResolve = {}
    /\ assessing = [a \in Assessor |-> Resting]
    /\ applying = NoDocument
    /\ raced = FALSE

-----------------------------------------------------------------------------
(* importSeason() *)

\* Mutant: the approval of the old content stays.
ReviewedAnewKept(c) == [c EXCEPT !.version = @ + 1, !.status = "manual_review", !.candidate = 0, !.applied = 0]

\* initializeAssessments(): a notice that changed is reviewed anew.
ReviewedAnew(c) ==
    [c EXCEPT !.version = @ + 1, !.status = "manual_review", !.candidate = 0,
              !.approved = NoDocument, !.applied = 0]

Changes(content) == content # 0 /\ ContentOfCase # content

\* A bundle that differs is a new revision, whether or not this notice is what
\* differs; content 0 is a bundle without the notice.
ImportSeason(content) ==
    /\ Season < MaxSources /\ case.version < MaxVersions
    /\ contents' = Append(contents, content)
    /\ LET moved == [case EXCEPT !.source = Season + 1]
       IN  case' = CASE content = 0       -> case
                     [] Changes(content) -> ReviewedAnew(moved)
                     [] OTHER            -> moved
    /\ raced' = (raced /\ ~ Changes(content))
    /\ UNCHANGED <<games, toResolve, assessing, applying>>

-----------------------------------------------------------------------------
(* assessNotice() *)

\* assessSeason(): the notice is read with the list of the cases.
AssessBegins(a) ==
    /\ assessing[a].stage = "idle" /\ Listed
    /\ assessing' = [assessing EXCEPT ![a] = [Resting EXCEPT !.stage = "listed", !.notice = ContentOfCase]]
    /\ UNCHANGED <<contents, case, games, toResolve, applying, raced>>

\* createDraft(): the case was assessed against an older revision of the game.
DraftBegins(a) ==
    /\ assessing[a].stage = "idle"
    /\ case.game \notin {0, Current}
    /\ assessing' = [assessing EXCEPT ![a] = [Resting EXCEPT !.stage = "listed", !.notice = ContentOfCase]]
    /\ UNCHANGED <<contents, case, games, toResolve, applying, raced>>

\* assess() reads where the notice is before its transaction.  That read and the
\* one before it are of different rows, and nothing is decided between them, so
\* they are one step here; a notice that is gone is an error.
Located(a, s, candidate) ==
    IF InForce = 0 THEN Resting
    ELSE [assessing[a] EXCEPT !.stage = "located", !.status = s, !.candidate = candidate, !.location = Season]

\* gameCandidates(), the load of the document and the match of the play.  Only a
\* play that is matched alone is judged, after another look at the revision.
AssessMatches(a) ==
    /\ assessing[a].stage = "listed"
    /\ \E outcome \in IF games = <<>> THEN {Located(a, "unmatched", 0)}
                      ELSE {Located(a, "manual_review", Current),
                            [assessing[a] EXCEPT !.stage = "matched", !.read = Current]} :
          assessing' = [assessing EXCEPT ![a] = outcome]
    /\ UNCHANGED <<contents, case, games, toResolve, applying, raced>>

\* The revision that was matched is not current any more: the call throws.
\* Otherwise the document says whether the correction is in it.
AssessChecks(a) ==
    /\ assessing[a].stage = "matched"
    /\ \E outcome \in IF Current # assessing[a].read THEN {Resting}
                      ELSE IF games[Current].fixes = assessing[a].notice
                      THEN {Located(a, "already_applied", Current)}
                      ELSE {Located(a, s, Current) : s \in {"action_required", "manual_review"}} :
          assessing' = [assessing EXCEPT ![a] = outcome]
    /\ UNCHANGED <<contents, case, games, toResolve, applying, raced>>

\* Mutant: a decision is not looked at.
PreservesNothing(location) == FALSE

Preserves(location) == case.source = location /\ case.status \in Decided

\* The transaction of assess().
AssessWrites(a) ==
    LET call == assessing[a]
    IN  /\ call.stage = "located" /\ case.version < MaxVersions
        /\ case' = [case EXCEPT !.source = call.location, !.version = @ + 1,
                                !.status = IF Preserves(call.location) THEN @ ELSE call.status,
                                !.game = call.read, !.candidate = call.candidate]
        /\ raced' = (raced \/ call.location # case.source \/ call.notice # contents[call.location])
        /\ assessing' = [assessing EXCEPT ![a] =
                            IF call.imported = 0 THEN Resting
                            ELSE [Resting EXCEPT !.stage = "written", !.imported = call.imported]]
        /\ UNCHANGED <<contents, games, toResolve, applying>>

-----------------------------------------------------------------------------
(* The import of the game and afterImport() *)

\* A document is imported on the revision it was made from.  What it corrects is
\* up to the one who edited it.
ImportGame(content) ==
    /\ Current < MaxRevisions
    /\ games' = Append(games, [base |-> Current, fixes |-> content])
    /\ toResolve' = toResolve \cup {Current + 1}
    /\ UNCHANGED <<contents, case, assessing, applying, raced>>

IsApproved(r) ==
    /\ case.game # 0 /\ case.status # "dismissed"
    /\ case.approved # NoDocument /\ case.approved = games[r]

\* markResolvedIfImported()
AfterImport(a, r) ==
    /\ assessing[a].stage = "idle" /\ r \in toResolve
    /\ toResolve' = toResolve \ {r}
    /\ case' = IF IsApproved(r) THEN [case EXCEPT !.status = "resolved", !.applied = r] ELSE case
    /\ assessing' = IF IsApproved(r) THEN assessing
                    ELSE [assessing EXCEPT ![a] = [Resting EXCEPT !.stage = "listing", !.imported = r]]
    /\ UNCHANGED <<contents, games, applying, raced>>

\* afterImport() assesses the open cases of the game that are older than r.
AfterImportLists(a) ==
    /\ assessing[a].stage = "listing"
    /\ assessing' = [assessing EXCEPT ![a] =
          IF /\ Listed /\ case.status \notin Decided
             /\ IF case.game = 0 THEN case.status = "unmatched" ELSE case.game < @.imported
          THEN [@ EXCEPT !.stage = "listed", !.notice = ContentOfCase]
          ELSE Resting]
    /\ UNCHANGED <<contents, case, games, toResolve, applying, raced>>

\* assess() ends with a read of the case, which need not be the one it wrote.
AfterImportReads(a) ==
    /\ assessing[a].stage = "written"
    /\ assessing' = [assessing EXCEPT ![a] =
          IF case.status = "already_applied" /\ case.game = @.imported
          THEN [@ EXCEPT !.stage = "resolving", !.version = case.version]
          ELSE Resting]
    /\ UNCHANGED <<contents, case, games, toResolve, applying, raced>>

\* markResolvedAfterReassessment()
AfterImportResolves(a) ==
    LET call == assessing[a]
    IN  /\ call.stage = "resolving"
        /\ case' = IF /\ case.version = call.version /\ case.game = call.imported
                      /\ case.status = "already_applied"
                   THEN [case EXCEPT !.status = "resolved", !.applied = call.imported]
                   ELSE case
        /\ assessing' = [assessing EXCEPT ![a] = Resting]
        /\ UNCHANGED <<contents, games, toResolve, applying, raced>>

-----------------------------------------------------------------------------
(* The reviewer *)

\* reviewAction() refuses a version of the case that is not the current one.
Decide ==
    /\ case.version # 0
    /\ case' \in {[case EXCEPT !.status = "dismissed"], [case EXCEPT !.status = "manual_review"]}
                 \cup IF case.candidate = 0 THEN {}
                      ELSE {[case EXCEPT !.status = "manual_review", !.game = case.candidate]}
    /\ UNCHANGED <<contents, games, toResolve, assessing, applying, raced>>

\* applyProposal() reads the case; the command of the session makes a document
\* that satisfies the notice it has read.
ApplyBegins ==
    /\ applying = NoDocument /\ case.game # 0
    /\ applying' = [base |-> Current, fixes |-> ContentOfCase]
    /\ UNCHANGED <<contents, case, games, toResolve, assessing, raced>>

\* markProposalApplied() writes to the case as it is then.
ApplyMarks ==
    /\ applying # NoDocument
    /\ case' = [case EXCEPT !.approved = applying]
    /\ raced' = (raced \/ applying.fixes # ContentOfCase)
    /\ applying' = NoDocument
    /\ UNCHANGED <<contents, games, toResolve, assessing>>

-----------------------------------------------------------------------------
CasesNext ==
    \/ \E content \in 0 .. MaxContents : ImportSeason(content) \/ ImportGame(content)
    \/ \E a \in Assessor :
          \/ AssessBegins(a) \/ DraftBegins(a) \/ AssessMatches(a) \/ AssessChecks(a) \/ AssessWrites(a)
          \/ \E r \in 1 .. MaxRevisions : AfterImport(a, r)
          \/ AfterImportLists(a) \/ AfterImportReads(a) \/ AfterImportResolves(a)
    \/ Decide \/ ApplyBegins \/ ApplyMarks

CasesSpec == CasesInit /\ [][CasesNext]_caseVars

-----------------------------------------------------------------------------
(* Properties *)

\* docs/correction.md:455: resolved is recorded only when the approved document is
\* sealed as the current revision and satisfies the state after the correction.
\* The code breaks it: a season that is imported while a notice is assessed or a
\* proposal is applied has the old notice's judgement or approval written to the
\* new one.
ResolvedIsSatisfied == case.status = "resolved" => games[case.applied].fixes = ContentOfCase

\* Every notice in force is in the list of the cases.
IsShown == InForce # 0 => Listed

\* Those races apart, a resolved case is satisfied and a notice in force is shown:
\* neither an approval nor a judgement outlives the notice it was made for.
CasesAreSound == raced \/ (ResolvedIsSatisfied /\ IsShown)

\* A version of the case is about one content of the notice, so a reviewer decides
\* about the content he has seen, and a decision stands until a reviewer takes
\* another one, the notice changes or the game resolves an open case; only an
\* assessment that located the notice in an older revision overwrites it.
DecisionsStand ==
    [][/\ contents'[case'.source] # ContentOfCase => case'.version # case.version
       /\ (case.status \in Decided /\ case'.status # case.status) =>
             \/ Decide
             \/ contents'[case'.source] # ContentOfCase
             \/ \E a \in Assessor : AssessWrites(a) /\ assessing[a].location # case.source]_caseVars

=============================================================================
