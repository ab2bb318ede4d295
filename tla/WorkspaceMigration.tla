--------------------------- MODULE WorkspaceMigration ---------------------------
(***************************************************************************)
(* The migration of a game's files from the layout before the versioned     *)
(* manifest (packages/persistence/src/workspace-migration.ts) beside the    *)
(* server that opens the same workspace.  A run looks at the files, takes   *)
(* the writer lock, lifts a V1 manifest to V2, makes one of the game's old  *)
(* files the current artifact and archives all of them.  It may die at any  *)
(* step, and another run may have looked at the same files.                 *)
(***************************************************************************)
EXTENDS Naturals, FiniteSets

CONSTANTS
    Run,             \* executions of workspace:migrate --apply
    Path,            \* legacy files a game may have, in the order they are archived
    LegacyAuthority, \* staging, quarantine or source_failure, by the path
    LegacyDocument,  \* what is in the document at a path
    LegacyFindings,  \* what is in the findings beside it; "none" without a findings file
    Resolution,      \* the path a run's resolution file selects for the game
    Absent,
    MaxServerSaves, MaxServerStarts   \* bounds

\* What is in an artifact, and an entry of the manifest (CurrentWorkspaceEntry, and
\* its V1).
GameContent ==
    [authority : {"staging"} \cup {LegacyAuthority[p] : p \in Path},
     document : {"edited"} \cup {LegacyDocument[p] : p \in Path},
     findings : {"none"} \cup {LegacyFindings[p] : p \in Path}]
ManifestEntry ==
    [version : 1 .. 2, generation : Nat, content : GameContent,
     stamp : Run \cup {"before", "server"}]

ASSUME MigrationAssumption ==
    /\ Path \subseteq Nat /\ IsFiniteSet(Path)
    /\ Resolution \in [Run -> Path]
    /\ Absent \notin Run \cup {"server"} \cup ManifestEntry /\ "server" \notin Run

VARIABLES
    legacy,      \* the files of the layout before: pairs of a path and a part
    archive,     \* migration-archive: a name and what is in the file
    manifest,    \* current/<game>.json
    artifacts,   \* active/<game>
    upgradeJournals,    \* journals/manifest-upgrade-*
    transitionJournals, \* journals/workspace-*
    writer,      \* who holds .writer.lock
    run,         \* locals of migrateWorkspaceLayout in each run
    server,      \* off, recovering, or on
    saves, starts

migrationVars == <<legacy, archive, manifest, artifacts, upgradeJournals,
                   transitionJournals, writer, run, server, saves, starts>>
serverVars == <<server, saves, starts>>
migrationJournals == <<upgradeJournals, transitionJournals>>

\* The content of an artifact: a document, and findings that may be none.
Holding(path, findings) ==
    [authority |-> LegacyAuthority[path], document |-> LegacyDocument[path],
     findings |-> findings]

Version(version, generation, content, stamp) ==
    [version |-> version, generation |-> generation, content |-> content, stamp |-> stamp]
Artifact(entry) ==
    [generation |-> entry.generation, document |-> entry.content.document,
     findings |-> entry.content.findings]
IsIntact(entry) == Artifact(entry) \in artifacts

Candidates == {p \in Path : <<p, "document">> \in legacy}
FindingsAt(p) == IF <<p, "findings">> \in legacy THEN LegacyFindings[p] ELSE "none"

At(r, step) == run[r].step = step
Step(r, from, to) == At(r, from) /\ run' = [run EXCEPT ![r].step = to]
Locked(r, from, to) == writer = r /\ Step(r, from, to)

-----------------------------------------------------------------------------
(* migrateWorkspaceLayout: before the lock *)

\* scanCurrentManifestUpgrades, scanLegacyCandidates, resolveCandidates: without the lock.
Scan(r) ==
    LET selected == CASE Cardinality(Candidates) = 1 -> Candidates
                      [] Cardinality(Candidates) > 1 -> Candidates \cap {Resolution[r]}
                      [] OTHER -> {}
        broken == manifest # Absent /\ manifest.version = 1 /\ ~ IsIntact(manifest)
    IN  /\ At(r, "idle") /\ server = "off"
        /\ IF broken \/ (Candidates # {} /\ selected = {})
           THEN run' = [run EXCEPT ![r].step = "refused"]
           ELSE run' = [run EXCEPT ![r] =
                          [@ EXCEPT !.step = "scanned", !.selected = selected,
                                    !.discarded = Candidates \ selected,
                                    !.upgrade = IF manifest # Absent /\ manifest.version = 1
                                                THEN manifest ELSE Absent]]
        /\ UNCHANGED <<legacy, archive, manifest, artifacts, migrationJournals, writer, serverVars>>

\* What follows the step of a run that is done with `from`.
AfterUpgrade(r) == IF run[r].selected = {} THEN "unlocking" ELSE "preparing"
AfterLock(r) == IF run[r].upgrade # Absent THEN "noting" ELSE AfterUpgrade(r)

\* acquireWriterLock() refuses while another process is alive.
TakeLock(r) ==
    /\ At(r, "scanned")
    /\ IF writer = Absent
       THEN writer' = r /\ run' = [run EXCEPT ![r].step = AfterLock(r)]
       ELSE UNCHANGED writer /\ run' = [run EXCEPT ![r].step = "refused"]
    /\ UNCHANGED <<legacy, archive, manifest, artifacts, migrationJournals, serverVars>>

-----------------------------------------------------------------------------
(* applyManifestUpgrade *)

Lifted(entry) == [entry EXCEPT !.version = 2]
Upgrade(r) == [previous |-> run[r].upgrade, target |-> Lifted(run[r].upgrade), by |-> r]

NoteUpgrade(r) ==
    /\ Locked(r, "noting", "lifting")
    /\ upgradeJournals' = upgradeJournals \cup {Upgrade(r)}
    /\ UNCHANGED <<legacy, archive, manifest, artifacts, transitionJournals, writer, serverVars>>

LiftManifest(r) ==
    /\ Locked(r, "lifting", "lifted")
    /\ manifest' = Lifted(run[r].upgrade)
    /\ UNCHANGED <<legacy, archive, artifacts, migrationJournals, writer, serverVars>>

ForgetUpgrade(r) ==
    /\ Locked(r, "lifted", AfterUpgrade(r))
    /\ upgradeJournals' = upgradeJournals \ {Upgrade(r)}
    /\ UNCHANGED <<legacy, archive, manifest, artifacts, transitionJournals, writer, serverVars>>

-----------------------------------------------------------------------------
(* migrateCandidate *)

Chosen(r) == CHOOSE p \in run[r].selected : TRUE
MigratedEntry(r) == Version(2, 1, run[r].content, r)
Transition(r) == [previous |-> run[r].existing, target |-> MigratedEntry(r), by |-> r]

\* sameMigrationTarget()
Agrees(r, content) == manifest = Absent \/ (manifest.version = 2 /\ manifest.content = content)

\* prepareCandidate reads the file that the scan saw; the run fails when it is gone
\* or when the game has another current content.
Prepare(r) ==
    LET content == Holding(Chosen(r), FindingsAt(Chosen(r)))
    IN  /\ writer = r /\ At(r, "preparing")
        /\ IF Chosen(r) \in Candidates /\ Agrees(r, content)
           THEN run' = [run EXCEPT ![r].step = "writing", ![r].content = content,
                                   ![r].existing = manifest]
           ELSE run' = [run EXCEPT ![r].step = "unlocking", ![r].failed = TRUE]
        /\ UNCHANGED <<legacy, archive, manifest, artifacts, migrationJournals, writer, serverVars>>

WriteArtifact(r) ==
    /\ Locked(r, "writing", "journaling")
    /\ artifacts' = artifacts \cup {Artifact(MigratedEntry(r))}
    /\ UNCHANGED <<legacy, archive, manifest, migrationJournals, writer, serverVars>>

NoteTransition(r) ==
    /\ Locked(r, "journaling", "pointing")
    /\ transitionJournals' = transitionJournals \cup {Transition(r)}
    /\ UNCHANGED <<legacy, archive, manifest, artifacts, upgradeJournals, writer, serverVars>>

PointManifest(r) ==
    /\ Locked(r, "pointing", "archiving")
    /\ manifest' = MigratedEntry(r)
    /\ UNCHANGED <<legacy, archive, artifacts, migrationJournals, writer, serverVars>>

\* Mutant: the names in the archive tell no contents apart.
MovedAlike(name, p, part, value) ==
    /\ legacy' = legacy \ {<<p, part>>}
    /\ archive' = {f \in archive : f.name[3] # part} \cup {[name |-> name, value |-> value]}

\* moveLegacyFile(): a file of that name in the archive is replaced.
Moved(name, p, part, value) ==
    /\ legacy' = legacy \ {<<p, part>>}
    /\ archive' = IF <<p, part>> \in legacy
                  THEN {f \in archive : f.name # name} \cup {[name |-> name, value |-> value]}
                  ELSE archive

\* archiveLegacyCandidate(): named after the content, document and findings.
ArchiveDocument(r) ==
    /\ Locked(r, "archiving", "archivingFindings")
    /\ Moved(<<"selected", run[r].content, "document">>, Chosen(r), "document",
             LegacyDocument[Chosen(r)])
    /\ UNCHANGED <<manifest, artifacts, migrationJournals, writer, serverVars>>

ArchiveFindings(r) ==
    /\ Locked(r, "archivingFindings", "archived")
    /\ Moved(<<"selected", run[r].content, "findings">>, Chosen(r), "findings",
             LegacyFindings[Chosen(r)])
    /\ UNCHANGED <<manifest, artifacts, migrationJournals, writer, serverVars>>

ForgetTransition(r) ==
    /\ Locked(r, "archived", "discarding")
    /\ transitionJournals' = transitionJournals \ {Transition(r)}
    /\ UNCHANGED <<legacy, archive, manifest, artifacts, upgradeJournals, writer, serverVars>>

-----------------------------------------------------------------------------
(* archiveDiscardedLegacyCandidate *)

NextDiscarded(r) == CHOOSE p \in run[r].discarded : \A q \in run[r].discarded : p <= q

\* Named after the document alone; the run fails when it is gone.
DiscardDocument(r) ==
    /\ writer = r /\ At(r, "discarding")
    /\ IF run[r].discarded = {}
       THEN run' = [run EXCEPT ![r].step = "unlocking"] /\ UNCHANGED <<legacy, archive>>
       ELSE LET p == NextDiscarded(r)
            IN IF p \in Candidates
               THEN /\ run' = [run EXCEPT ![r].step = "discardingFindings"]
                    /\ Moved(<<"discarded", LegacyDocument[p], "document">>, p, "document",
                             LegacyDocument[p])
               ELSE /\ run' = [run EXCEPT ![r].step = "unlocking", ![r].failed = TRUE]
                    /\ UNCHANGED <<legacy, archive>>
    /\ UNCHANGED <<manifest, artifacts, migrationJournals, writer, serverVars>>

DiscardFindings(r) ==
    LET p == NextDiscarded(r)
    IN  /\ writer = r /\ At(r, "discardingFindings")
        /\ run' = [run EXCEPT ![r].step = "discarding", ![r].discarded = @ \ {p}]
        /\ Moved(<<"discarded", LegacyDocument[p], "findings">>, p, "findings",
                 LegacyFindings[p])
        /\ UNCHANGED <<manifest, artifacts, migrationJournals, writer, serverVars>>

Unlock(r) ==
    /\ Locked(r, "unlocking", IF run[r].failed THEN "failed" ELSE "done")
    /\ writer' = Absent
    /\ UNCHANGED <<legacy, archive, manifest, artifacts, migrationJournals, serverVars>>

\* The process of a run dies with the lock, which the next to come takes over.
Die(r) ==
    /\ writer = r
    /\ run' = [run EXCEPT ![r].step = "dead"]
    /\ writer' = Absent
    /\ UNCHANGED <<legacy, archive, manifest, artifacts, migrationJournals, serverVars>>

-----------------------------------------------------------------------------
(* StagingWorkspace.open and a change of the game *)

\* The server is stopped for a migration: a run looks at the files while it is off,
\* and it does not start before the run has the lock.
Open ==
    /\ server = "off" /\ writer = Absent /\ starts < MaxServerStarts
    /\ \A r \in Run : ~ At(r, "scanned")
    /\ server' = "recovering" /\ starts' = starts + 1
    /\ writer' = "server"
    /\ UNCHANGED <<legacy, archive, manifest, artifacts, migrationJournals, run, saves>>

Close ==
    /\ server = "on"
    /\ server' = "off" /\ writer' = Absent
    /\ UNCHANGED <<legacy, archive, manifest, artifacts, migrationJournals, run, saves, starts>>

\* What open() throws at closes the workspace again.
Blocked ==
    /\ server' = "off" /\ writer' = Absent
    /\ UNCHANGED <<manifest, artifacts, migrationJournals>>

\* rollForwardManifestUpgrade()
RecoverUpgrade(j) ==
    /\ server = "recovering"
    /\ IF manifest \in {j.previous, j.target} /\ IsIntact(j.target)
       THEN /\ manifest' = j.target /\ upgradeJournals' = upgradeJournals \ {j}
            /\ UNCHANGED <<artifacts, transitionJournals, writer, server>>
       ELSE Blocked
    /\ UNCHANGED <<legacy, archive, run, saves, starts>>

\* Mutant: the artifact before is moved whatever the target is.
SupersededAlways(j) == IF j.previous = Absent THEN {} ELSE {Artifact(j.previous)}

Superseded(j) ==
    IF j.previous = Absent \/ Artifact(j.previous) = Artifact(j.target) THEN {}
    ELSE {Artifact(j.previous)}

\* rollForwardWorkspaceTransition(): the artifact before goes to superseded.
RecoverTransition(j) ==
    /\ server = "recovering" /\ upgradeJournals = {}
    /\ IF IsIntact(j.target)
       THEN /\ manifest' = j.target /\ transitionJournals' = transitionJournals \ {j}
            /\ artifacts' = artifacts \ Superseded(j)
            /\ UNCHANGED <<upgradeJournals, writer, server>>
       ELSE Blocked
    /\ UNCHANGED <<legacy, archive, run, saves, starts>>

\* assertNoUnmigratedCurrentFiles(), assertWorkspaceIntegrity()
Check ==
    /\ server = "recovering" /\ migrationJournals = <<{}, {}>>
    /\ IF Candidates = {} /\ (manifest = Absent \/ (manifest.version = 2 /\ IsIntact(manifest)))
       THEN server' = "on" /\ UNCHANGED <<manifest, artifacts, migrationJournals, writer>>
       ELSE Blocked
    /\ UNCHANGED <<legacy, archive, run, saves, starts>>

Edited == [authority |-> "staging", document |-> "edited", findings |-> "none"]

\* A save replaces the current artifact by one of the next generation.
SaveEdited ==
    /\ server = "on" /\ manifest # Absent /\ saves < MaxServerSaves
    /\ saves' = saves + 1
    /\ LET next == Version(2, manifest.generation + 1, Edited, "server")
       IN  /\ manifest' = next
           /\ artifacts' = (artifacts \ {Artifact(manifest)}) \cup {Artifact(next)}
    /\ UNCHANGED <<legacy, archive, migrationJournals, writer, run, server, starts>>

-----------------------------------------------------------------------------
NewRun == [step |-> "idle", selected |-> {}, discarded |-> {}, upgrade |-> Absent,
           content |-> Absent, existing |-> Absent, failed |-> FALSE]

\* The layout before, with nothing current, or with the V1 manifest of one of the files.
MigrationInit ==
    /\ \E paths \in SUBSET Path :
         legacy = {<<p, "document">> : p \in paths}
                    \cup {<<p, "findings">> : p \in {q \in paths : LegacyFindings[q] # "none"}}
    /\ \E p \in Path \cup {0}, generation \in 1 .. 2 :
         manifest = IF p = 0 THEN Absent
                    ELSE Version(1, generation, Holding(p, LegacyFindings[p]), "before")
    /\ artifacts = IF manifest = Absent THEN {} ELSE {Artifact(manifest)}
    /\ archive = {} /\ upgradeJournals = {} /\ transitionJournals = {}
    /\ writer = Absent /\ server = "off" /\ saves = 0 /\ starts = 0
    /\ run = [r \in Run |-> NewRun]

RunStep(r) ==
    \/ Scan(r) \/ TakeLock(r)
    \/ NoteUpgrade(r) \/ LiftManifest(r) \/ ForgetUpgrade(r)
    \/ Prepare(r) \/ WriteArtifact(r) \/ NoteTransition(r) \/ PointManifest(r)
    \/ ArchiveDocument(r) \/ ArchiveFindings(r) \/ ForgetTransition(r)
    \/ DiscardDocument(r) \/ DiscardFindings(r) \/ Unlock(r)

MigrationNext ==
    \/ \E r \in Run : RunStep(r) \/ Die(r)
    \/ Open \/ Close \/ Check \/ SaveEdited
    \/ \E j \in upgradeJournals : RecoverUpgrade(j)
    \/ \E j \in transitionJournals : RecoverTransition(j)

MigrationSpec == MigrationInit /\ [][MigrationNext]_migrationVars

-----------------------------------------------------------------------------
(* What a migration leaves *)

\* What is in the files of the layout before and in the archive.
Kept ==
    {<<f[2], IF f[2] = "document" THEN LegacyDocument[f[1]] ELSE LegacyFindings[f[1]]>> : f \in legacy}
      \cup {<<f.name[3], f.value>> : f \in archive}

\* A current manifest names an artifact that is there, wherever runs die; and once a
\* run is done and none has died, the server has nothing left to refuse or repair,
\* whatever another run that had looked at the same files did.
MigrationIsSound ==
    /\ manifest # Absent => IsIntact(manifest)
    /\ (/\ \E r \in Run : At(r, "done")
        /\ \A r \in Run : ~ At(r, "dead")
        /\ writer = Absent) =>
          /\ Candidates = {} /\ migrationJournals = <<{}, {}>>
          /\ manifest = Absent \/ manifest.version = 2

\* Nothing of the layout before is lost, and no step of a run or of the repair
\* replaces the current content of a game, however runs and crashes interleave.
MigrationLosesNothing ==
    [][/\ Kept \subseteq Kept'
       /\ (manifest # Absent /\ saves' = saves) =>
             manifest' # Absent /\ manifest'.content = manifest.content]_migrationVars

=============================================================================
