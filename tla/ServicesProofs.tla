-------------------------------- MODULE ServicesProofs --------------------------------
(*****************************************************************************)
(* What holds of every correction of a ledger, of every case of an official *)
(* record correction and of the jobs that collect them, and of every migration *)
(* of a workspace, of every cache of the server, whatever the ledger, the   *)
(* notices, the requests, the files and their number; and what holds of     *)
(* them, and of the game core (GameProofs), side by side (MCServices).      *)
(*                                                                          *)
(* Links stand on pitches.  The statement is inductive once the shape of    *)
(* the two documents is known: every command but ReplaceEvent and           *)
(* DeleteEvent leaves the kind of a linked row alone, and these two set     *)
(* aside the candidates linked to it.                                       *)
(*                                                                          *)
(* Contexts follow.  The answer of a call compares the candidate of the     *)
(* draft with that of the document the call began with, so what is needed   *)
(* of the steps before it is that no command but a reconciliation writes    *)
(* the plate appearance of a candidate.                                     *)
(*                                                                          *)
(* Cases are sound.  An assessment writes what it has found of documents    *)
(* it read earlier; what it holds of them does not age, for the revisions   *)
(* of a season and of a game are never changed.                             *)
(*                                                                          *)
(* Jobs tell their end.  The loop of a job knows of every season it was     *)
(* given whether it is done, and `changes` what was found in those that     *)
(* are, also in a job that was resumed with the seasons it had left.        *)
(*                                                                          *)
(* Caches hold.  What was read, found or set aside shows the disk as long   *)
(* as its version is that of the cache, unless a save is under way: a save  *)
(* begins and ends with a new version.                                      *)
(*****************************************************************************)
EXTENDS MCServices, GameProofs

(* Corrections of a ledger *)

\* Candidates without what is said of the plate appearance they name, and a
\* document without what is said of the order of its rows.
TrackingShaped(tracking) ==
    /\ tracking = [c \in Tracking |-> [resolution |-> tracking[c].resolution,
                                       plateAppearance |-> tracking[c].plateAppearance]]
    /\ \A c \in Tracking : tracking[c].resolution \in TrackingResolution
Shaped(doc) ==
    /\ doc = [order |-> doc.order, kind |-> doc.kind, tracking |-> doc.tracking]
    /\ doc.kind \in [Row -> RowKind \cup {"none"}]
    /\ TrackingShaped(doc.tracking)

\* A candidate the call has not reconciled names the plate appearance it named before.
OthersKeepTheirs ==
    \A c \in Tracking \ repaired :
        draft.tracking[c].plateAppearance = document.tracking[c].plateAppearance

LedgerInv ==
    /\ Shaped(document) /\ Shaped(draft)
    /\ LinksStandOnPitches
    /\ OthersKeepTheirs

----------------------------------------------------------------------------
\* A link is to a row.
LEMMA LinkToRow ==
    ASSUME NEW resolution \in TrackingResolution, resolution.kind = "linked"
    PROVE  resolution.of \in Row /\ resolution = LinkedTo(resolution.of)
    BY DEF TrackingResolution, Pending, Excluded, LinkedTo, DuplicateOf

\* Setting the candidates of a pitch aside keeps what they name, and leaves no
\* candidate linked to it.
LEMMA SetAside ==
    ASSUME NEW tracking, TrackingShaped(tracking), NEW row \in Row
    PROVE  /\ TrackingShaped(ExcludedFor(tracking, row))
           /\ \A c \in Tracking :
                /\ ExcludedFor(tracking, row)[c].plateAppearance = tracking[c].plateAppearance
                /\ \/ ExcludedFor(tracking, row)[c].resolution = Excluded
                   \/ /\ ExcludedFor(tracking, row)[c].resolution = tracking[c].resolution
                      /\ tracking[c].resolution # LinkedTo(row)
<1> DEFINE linked == {c \in Tracking : tracking[c].resolution = LinkedTo(row)}
           goes(c) == c \in linked \/ \E other \in linked : tracking[c].resolution = DuplicateOf(other)
           aside == ExcludedFor(tracking, row)
<1>1. aside = [c \in Tracking |-> IF goes(c) THEN [tracking[c] EXCEPT !.resolution = Excluded]
                                             ELSE tracking[c]]
    BY DEF ExcludedFor
<1>2. ASSUME NEW c \in Tracking
      PROVE  /\ aside[c] = [resolution |-> aside[c].resolution,
                            plateAppearance |-> aside[c].plateAppearance]
             /\ aside[c].plateAppearance = tracking[c].plateAppearance
             /\ \/ aside[c].resolution = Excluded
                \/ /\ aside[c].resolution = tracking[c].resolution
                   /\ tracking[c].resolution # LinkedTo(row)
  <2>1. tracking[c] = [resolution |-> tracking[c].resolution,
                       plateAppearance |-> tracking[c].plateAppearance]
      BY DEF TrackingShaped
  <2>2. CASE goes(c)
    <3>1. aside[c] = [tracking[c] EXCEPT !.resolution = Excluded]
        BY <1>1, <2>2
    <3> QED BY <2>1, <3>1
  <2>3. CASE ~ goes(c)
    <3>1. aside[c] = tracking[c]
        BY <1>1, <2>3
    <3>2. tracking[c].resolution # LinkedTo(row)
        BY <2>3
    <3> QED BY <2>1, <3>1, <3>2
  <2> QED BY <2>2, <2>3
<1> HIDE DEF aside
<1>3. aside = [c \in Tracking |-> aside[c]]
  <2> QED BY <1>1
<1>4. aside = [c \in Tracking |-> [resolution |-> aside[c].resolution,
                                   plateAppearance |-> aside[c].plateAppearance]]
    BY <1>2, <1>3
<1>5. \A c \in Tracking : aside[c].resolution \in TrackingResolution
    BY <1>2 DEF TrackingShaped, TrackingResolution
<1>6. TrackingShaped(aside)
    BY <1>4, <1>5 DEF TrackingShaped
<1>7. \A c \in Tracking : aside[c].plateAppearance = tracking[c].plateAppearance
    BY <1>2
<1> QED BY <1>2, <1>6, <1>7 DEF aside

\* What a command must show of the draft it makes.
LEMMA CommandKeeps ==
    ASSUME LedgerInv, NEW made, Apply(made), Shaped(made), LinksStand(made),
           repaired \subseteq repaired',
           \A c \in Tracking \ repaired' :
               made.tracking[c].plateAppearance = draft.tracking[c].plateAppearance
    PROVE  LedgerInv'
    BY DEF LedgerInv, Apply, Shaped, LinksStandOnPitches, LinksStand, OthersKeepTheirs

----------------------------------------------------------------------------
\* One step for each command.

LEMMA AddKeeps ==
    ASSUME LedgerInv, NEW row \in Row, NEW kind \in RowKind, NEW next \in Row \cup {Undefined},
           AddEvent(row, kind, next)
    PROVE  LedgerInv'
<1> DEFINE made == [order |-> InsertedBefore(draft.order, row, next),
                    kind |-> [draft.kind EXCEPT ![row] = kind],
                    tracking |-> draft.tracking]
<1>1. Apply(made) /\ repaired' = repaired
    BY DEF AddEvent
<1>2. /\ made = [order |-> made.order, kind |-> made.kind, tracking |-> draft.tracking]
      /\ made.kind = [draft.kind EXCEPT ![row] = kind]
    OBVIOUS
<1>3. Shaped(made)
    BY <1>2 DEF LedgerInv, Shaped
<1>4. LinksStand(made)
  <2> SUFFICES ASSUME NEW c \in Tracking, draft.tracking[c].resolution.kind = "linked"
               PROVE  made.kind[draft.tracking[c].resolution.of] \in PitchKind
      BY <1>2 DEF LinksStand
  <2>1. draft.tracking[c].resolution.of \in Row
      BY LinkToRow DEF LedgerInv, Shaped, TrackingShaped
  <2>2. draft.kind[draft.tracking[c].resolution.of] \in PitchKind
      BY DEF LedgerInv, LinksStandOnPitches, LinksStand
  <2>3. draft.kind[row] = "none"
      BY DEF AddEvent, LedgerRows
  <2> QED BY <1>2, <2>1, <2>2, <2>3 DEF PitchKind, LedgerInv, Shaped
<1> QED BY <1>1, <1>2, <1>3, <1>4, CommandKeeps

LEMMA MoveKeeps ==
    ASSUME LedgerInv, NEW row \in Row, NEW next \in Row \cup {Undefined}, MoveEvent(row, next)
    PROVE  LedgerInv'
<1> DEFINE made == [draft EXCEPT !.order = InsertedBefore(OrderWithout(@, row), row, next)]
<1>1. Apply(made) /\ repaired' = repaired
    BY DEF MoveEvent
<1>2. made = [order |-> made.order, kind |-> draft.kind, tracking |-> draft.tracking]
    BY DEF LedgerInv, Shaped
<1>3. Shaped(made)
    BY <1>2 DEF LedgerInv, Shaped
<1>4. LinksStand(made)
    BY <1>2 DEF LedgerInv, LinksStandOnPitches, LinksStand
<1> QED BY <1>1, <1>2, <1>3, <1>4, CommandKeeps

\* Deleting a row and replacing it give it another kind; the candidates of a
\* pitch that is none afterwards are set aside.
LEMMA RowChangeKeeps ==
    ASSUME LedgerInv, NEW row \in Row, NEW kind \in RowKind \cup {"none"}, NEW made,
           made = [order |-> made.order,
                   kind |-> [draft.kind EXCEPT ![row] = kind],
                   tracking |-> IF draft.kind[row] \in PitchKind /\ kind \notin PitchKind
                                THEN ExcludedFor(draft.tracking, row) ELSE draft.tracking],
           Apply(made), repaired' = repaired
    PROVE  LedgerInv'
<1>1. /\ TrackingShaped(draft.tracking)
      /\ draft.kind \in [Row -> RowKind \cup {"none"}]
    BY DEF LedgerInv, Shaped
<1>2. /\ TrackingShaped(made.tracking)
      /\ \A c \in Tracking :
            /\ made.tracking[c].plateAppearance = draft.tracking[c].plateAppearance
            /\ \/ made.tracking[c].resolution = Excluded
               \/ /\ made.tracking[c].resolution = draft.tracking[c].resolution
                  /\ \/ made.tracking[c].resolution # LinkedTo(row)
                     \/ ~ (draft.kind[row] \in PitchKind /\ kind \notin PitchKind)
  <2>1. CASE draft.kind[row] \in PitchKind /\ kind \notin PitchKind
    <3>1. made.tracking = ExcludedFor(draft.tracking, row)
        BY <2>1
    <3> QED BY <1>1, <3>1, SetAside
  <2>2. CASE ~ (draft.kind[row] \in PitchKind /\ kind \notin PitchKind)
    <3>1. made.tracking = draft.tracking
        BY <2>2
    <3> QED BY <1>1, <2>2, <3>1
  <2> QED BY <2>1, <2>2
<1>3. made.kind = [draft.kind EXCEPT ![row] = kind]
    OBVIOUS
<1>4. Shaped(made)
    BY <1>1, <1>2, <1>3 DEF Shaped
<1>5. LinksStand(made)
  <2> SUFFICES ASSUME NEW c \in Tracking, made.tracking[c].resolution.kind = "linked"
               PROVE  made.kind[made.tracking[c].resolution.of] \in PitchKind
      BY DEF LinksStand
  <2>1. /\ made.tracking[c].resolution = draft.tracking[c].resolution
        /\ \/ made.tracking[c].resolution # LinkedTo(row)
           \/ ~ (draft.kind[row] \in PitchKind /\ kind \notin PitchKind)
      BY <1>2 DEF Excluded
  <2>2. /\ draft.tracking[c].resolution.of \in Row
        /\ draft.tracking[c].resolution = LinkedTo(draft.tracking[c].resolution.of)
      BY <1>1, <2>1, LinkToRow DEF TrackingShaped
  <2>3. draft.kind[draft.tracking[c].resolution.of] \in PitchKind
      BY <2>1 DEF LedgerInv, LinksStandOnPitches, LinksStand
  <2> QED BY <1>1, <1>3, <2>1, <2>2, <2>3
<1> QED BY <1>2, <1>4, <1>5, CommandKeeps

LEMMA DeleteKeeps ==
    ASSUME LedgerInv, NEW row \in Row, DeleteEvent(row)
    PROVE  LedgerInv'
<1> DEFINE made == [order |-> OrderWithout(draft.order, row),
                    kind |-> [draft.kind EXCEPT ![row] = "none"],
                    tracking |-> IF draft.kind[row] \in PitchKind
                                 THEN ExcludedFor(draft.tracking, row) ELSE draft.tracking]
<1>1. Apply(made) /\ repaired' = repaired
    BY DEF DeleteEvent
<1>2. made = [order |-> made.order, kind |-> [draft.kind EXCEPT ![row] = "none"],
              tracking |-> IF draft.kind[row] \in PitchKind /\ "none" \notin PitchKind
                           THEN ExcludedFor(draft.tracking, row) ELSE draft.tracking]
    BY DEF PitchKind
<1> HIDE DEF made
<1> QED BY <1>1, <1>2, RowChangeKeeps

LEMMA ReplaceKeeps ==
    ASSUME LedgerInv, NEW row \in Row, NEW kind \in RowKind, ReplaceEvent(row, kind)
    PROVE  LedgerInv'
<1> DEFINE made == [order |-> draft.order,
                    kind |-> [draft.kind EXCEPT ![row] = kind],
                    tracking |-> IF draft.kind[row] \in PitchKind /\ kind \notin PitchKind
                                 THEN ExcludedFor(draft.tracking, row) ELSE draft.tracking]
<1>1. Apply(made) /\ repaired' = repaired
    BY DEF ReplaceEvent
<1>2. made = [order |-> made.order, kind |-> [draft.kind EXCEPT ![row] = kind],
              tracking |-> IF draft.kind[row] \in PitchKind /\ kind \notin PitchKind
                           THEN ExcludedFor(draft.tracking, row) ELSE draft.tracking]
    OBVIOUS
<1> HIDE DEF made
<1> QED BY <1>1, <1>2, RowChangeKeeps

\* Linking, marking, excluding and unlinking give one candidate a resolution.
LEMMA ResolutionKeeps ==
    ASSUME LedgerInv, NEW c \in Tracking, NEW resolution \in TrackingResolution,
           resolution.kind = "linked" => draft.kind[resolution.of] \in PitchKind,
           Apply([draft EXCEPT !.tracking[c].resolution = resolution]), repaired' = repaired
    PROVE  LedgerInv'
<1> DEFINE changed == [draft.tracking[c] EXCEPT !.resolution = resolution]
           made == [draft EXCEPT !.tracking[c].resolution = resolution]
<1>1. /\ draft = [order |-> draft.order, kind |-> draft.kind, tracking |-> draft.tracking]
      /\ TrackingShaped(draft.tracking)
      /\ draft.kind \in [Row -> RowKind \cup {"none"}]
    BY DEF LedgerInv, Shaped
<1>2. made = [order |-> draft.order, kind |-> draft.kind,
              tracking |-> [draft.tracking EXCEPT ![c] = changed]]
    BY <1>1
<1>3. changed = [resolution |-> resolution,
                 plateAppearance |-> draft.tracking[c].plateAppearance]
  <2>1. draft.tracking[c] = [resolution |-> draft.tracking[c].resolution,
                             plateAppearance |-> draft.tracking[c].plateAppearance]
      BY <1>1 DEF TrackingShaped
  <2> QED BY <2>1
<1>4. Apply(made)
    OBVIOUS
<1> HIDE DEF made, changed
<1>5. \A d \in Tracking : made.tracking[d] = IF d = c THEN changed ELSE draft.tracking[d]
    BY <1>1, <1>2 DEF TrackingShaped
<1>6. TrackingShaped(made.tracking)
    BY <1>1, <1>2, <1>3, <1>5 DEF TrackingShaped
<1>7. Shaped(made)
    BY <1>1, <1>2, <1>6 DEF Shaped
<1>8. LinksStand(made)
  <2> SUFFICES ASSUME NEW d \in Tracking, made.tracking[d].resolution.kind = "linked"
               PROVE  made.kind[made.tracking[d].resolution.of] \in PitchKind
      BY DEF LinksStand
  <2>1. CASE d = c
      BY <1>2, <1>3, <1>5, <2>1
  <2>2. CASE d # c
      BY <1>2, <1>5, <2>2 DEF LedgerInv, LinksStandOnPitches, LinksStand
  <2> QED BY <2>1, <2>2
<1>9. \A d \in Tracking : made.tracking[d].plateAppearance = draft.tracking[d].plateAppearance
    BY <1>3, <1>5
<1> QED BY <1>4, <1>7, <1>8, <1>9, CommandKeeps

\* Naming plate appearances anew changes nothing else of a document.
LEMMA RenamedParts ==
    ASSUME NEW doc, Shaped(doc), NEW some
    PROVE  /\ Shaped(Renamed(doc, some))
           /\ Renamed(doc, some).order = doc.order /\ Renamed(doc, some).kind = doc.kind
           /\ \A c \in Tracking :
                /\ Renamed(doc, some).tracking[c].resolution = doc.tracking[c].resolution
                /\ Renamed(doc, some).tracking[c].plateAppearance
                       = IF c \in some THEN PlayedIn(doc, c) ELSE doc.tracking[c].plateAppearance
<1> DEFINE named == [c \in Tracking |->
                        IF c \in some
                        THEN [doc.tracking[c] EXCEPT !.plateAppearance = PlayedIn(doc, c)]
                        ELSE doc.tracking[c]]
<1>1. Renamed(doc, some) = [order |-> doc.order, kind |-> doc.kind, tracking |-> named]
  <2>1. Renamed(doc, some) = [doc EXCEPT !.tracking = named]
      BY DEF Renamed
  <2>2. doc = [order |-> doc.order, kind |-> doc.kind, tracking |-> doc.tracking]
      BY DEF Shaped
  <2> HIDE DEF named
  <2> QED BY <2>1, <2>2
<1>2. ASSUME NEW c \in Tracking
      PROVE  /\ named[c] = [resolution |-> named[c].resolution,
                            plateAppearance |-> named[c].plateAppearance]
             /\ named[c].resolution = doc.tracking[c].resolution
             /\ named[c].plateAppearance
                  = IF c \in some THEN PlayedIn(doc, c) ELSE doc.tracking[c].plateAppearance
  <2>1. doc.tracking[c] = [resolution |-> doc.tracking[c].resolution,
                           plateAppearance |-> doc.tracking[c].plateAppearance]
      BY DEF Shaped, TrackingShaped
  <2>2. CASE c \in some
    <3>1. named[c] = [doc.tracking[c] EXCEPT !.plateAppearance = PlayedIn(doc, c)]
        BY <2>2
    <3> HIDE DEF named
    <3> QED BY <2>1, <2>2, <3>1
  <2>3. CASE c \notin some
    <3>1. named[c] = doc.tracking[c]
        BY <2>3
    <3> HIDE DEF named
    <3> QED BY <2>1, <2>3, <3>1
  <2> QED BY <2>2, <2>3
<1>3. named = [c \in Tracking |-> named[c]]
    OBVIOUS
<1> HIDE DEF named
<1>4. named = [c \in Tracking |-> [resolution |-> named[c].resolution,
                                   plateAppearance |-> named[c].plateAppearance]]
    BY <1>2, <1>3
<1>5. \A c \in Tracking : named[c].resolution \in TrackingResolution
    BY <1>2 DEF Shaped, TrackingShaped
<1>6. TrackingShaped(named)
    BY <1>4, <1>5 DEF TrackingShaped
<1>7. /\ Renamed(doc, some).order = doc.order /\ Renamed(doc, some).kind = doc.kind
      /\ Renamed(doc, some).tracking = named
    BY <1>1
<1>8. Shaped(Renamed(doc, some))
    BY <1>1, <1>6, <1>7 DEF Shaped
<1> QED BY <1>2, <1>7, <1>8

LEMMA ReconcileKeeps ==
    ASSUME LedgerInv, ReconcileContexts
    PROVE  LedgerInv'
<1> DEFINE made == Renamed(draft, Lost(draft))
<1>1. Apply(made) /\ repaired' = repaired \cup Lost(draft)
    BY DEF ReconcileContexts
<1>2. Shaped(draft) /\ LinksStand(draft)
    BY DEF LedgerInv, LinksStandOnPitches
<1>3. /\ Shaped(made) /\ made.kind = draft.kind
      /\ \A c \in Tracking :
            /\ made.tracking[c].resolution = draft.tracking[c].resolution
            /\ c \notin Lost(draft) =>
                   made.tracking[c].plateAppearance = draft.tracking[c].plateAppearance
    BY <1>2, RenamedParts
<1> HIDE DEF made
<1>4. LinksStand(made)
    BY <1>2, <1>3 DEF LinksStand
<1> QED BY <1>1, <1>3, <1>4, CommandKeeps

LEMMA AnswerKeeps ==
    ASSUME LedgerInv, Answer
    PROVE  LedgerInv'
<1>1. /\ document' = Renamed(draft, Following(document, draft)) /\ draft' = document'
      /\ repaired' = {}
    BY DEF Answer
<1>2. Shaped(draft) /\ LinksStand(draft)
    BY DEF LedgerInv, LinksStandOnPitches
<1>3. /\ Shaped(document') /\ document'.kind = draft.kind
      /\ \A c \in Tracking : document'.tracking[c].resolution = draft.tracking[c].resolution
    BY <1>1, <1>2, RenamedParts
<1>4. LinksStand(document')
    BY <1>2, <1>3 DEF LinksStand
<1> QED BY <1>1, <1>3, <1>4 DEF LedgerInv, Shaped, LinksStandOnPitches, LinksStand, OthersKeepTheirs

LEMMA ThrowKeeps ==
    ASSUME LedgerInv, Throw
    PROVE  LedgerInv'
    BY DEF LedgerInv, Throw, Shaped, LinksStandOnPitches, LinksStand, OthersKeepTheirs

----------------------------------------------------------------------------
LEMMA LedgerInitHolds == LedgerInit => LedgerInv
<1> SUFFICES ASSUME LedgerInit PROVE LedgerInv
    OBVIOUS
<1>1. document \in Document /\ LinksStand(document) /\ draft = document
    BY CollectedAssumption DEF LedgerInit
<1>2. document.tracking \in [Tracking -> Candidate]
    BY <1>1 DEF Document
<1>3. TrackingShaped(document.tracking)
  <2>1. \A c \in Tracking :
            /\ document.tracking[c] = [resolution |-> document.tracking[c].resolution,
                                       plateAppearance |-> document.tracking[c].plateAppearance]
            /\ document.tracking[c].resolution \in TrackingResolution
      BY <1>2 DEF Candidate
  <2> QED BY <1>2, <2>1 DEF TrackingShaped
<1>4. Shaped(document)
    BY <1>1, <1>3 DEF Document, Shaped
<1> QED BY <1>1, <1>4 DEF LedgerInv, LinksStandOnPitches, OthersKeepTheirs

LEMMA LedgerStepKeeps == LedgerInv /\ [LedgerNext]_ledgerVars => LedgerInv'
<1> SUFFICES ASSUME LedgerInv, [LedgerNext]_ledgerVars PROVE LedgerInv'
    OBVIOUS
<1>1. ASSUME NEW row \in Row, NEW kind \in RowKind, NEW next \in Row \cup {Undefined},
             AddEvent(row, kind, next)
      PROVE  LedgerInv'
    BY <1>1, AddKeeps
<1>2. ASSUME NEW row \in Row, DeleteEvent(row) PROVE LedgerInv'
    BY <1>2, DeleteKeeps
<1>3. ASSUME NEW row \in Row, NEW kind \in RowKind, ReplaceEvent(row, kind) PROVE LedgerInv'
    BY <1>3, ReplaceKeeps
<1>4. ASSUME NEW row \in Row, NEW next \in Row \cup {Undefined}, MoveEvent(row, next)
      PROVE  LedgerInv'
    BY <1>4, MoveKeeps
<1>5. ASSUME NEW c \in Tracking, NEW row \in Row, LinkTracking(c, row) PROVE LedgerInv'
  <2>1. LinkedTo(row) \in TrackingResolution /\ LinkedTo(row).of = row
      BY DEF TrackingResolution, LinkedTo
  <2> QED BY <1>5, <2>1, ResolutionKeeps DEF LinkTracking
<1>6. ASSUME NEW c \in Tracking, NEW other \in Tracking, MarkDuplicate(c, other) PROVE LedgerInv'
  <2>1. DuplicateOf(other) \in TrackingResolution /\ DuplicateOf(other).kind # "linked"
      BY DEF TrackingResolution, DuplicateOf
  <2> QED BY <1>6, <2>1, ResolutionKeeps DEF MarkDuplicate
<1>7. ASSUME NEW c \in Tracking, ExcludeTracking(c) PROVE LedgerInv'
  <2>1. Excluded \in TrackingResolution /\ Excluded.kind # "linked"
      BY DEF TrackingResolution, Excluded
  <2> QED BY <1>7, <2>1, ResolutionKeeps DEF ExcludeTracking
<1>8. ASSUME NEW c \in Tracking, UnlinkTracking(c) PROVE LedgerInv'
  <2>1. Pending \in TrackingResolution /\ Pending.kind # "linked"
      BY DEF TrackingResolution, Pending
  <2> QED BY <1>8, <2>1, ResolutionKeeps DEF UnlinkTracking
<1>9. CASE UNCHANGED ledgerVars
    BY <1>9 DEF ledgerVars, LedgerInv, Shaped, LinksStandOnPitches, LinksStand, OthersKeepTheirs
<1> QED BY <1>1, <1>2, <1>3, <1>4, <1>5, <1>6, <1>7, <1>8, <1>9,
           ReconcileKeeps, AnswerKeeps, ThrowKeeps DEF LedgerNext

\* No correction of any ledger leaves a tracking candidate linked to a row that is
\* no pitch (deleteEvent, replaceEvent, excludeTrackingForPitch).
THEOREM LinksAlwaysStand == LedgerSpec => []LinksStandOnPitches
<1>1. LedgerSpec => []LedgerInv
    BY LedgerInitHolds, LedgerStepKeeps, PTL DEF LedgerSpec
<1>2. LedgerInv => LinksStandOnPitches
    BY DEF LedgerInv
<1> QED BY <1>1, <1>2, PTL

----------------------------------------------------------------------------
\* Documents that agree on rows and resolutions agree on where a pitch is thrown.
LEMMA SamePlay ==
    ASSUME NEW one, NEW other, Shaped(one),
           other.order = one.order, other.kind = one.kind,
           \A c \in Tracking : other.tracking[c].resolution = one.tracking[c].resolution,
           NEW c \in Tracking
    PROVE  /\ PitchOf(other.tracking, c) = PitchOf(one.tracking, c)
           /\ PlayedIn(other, c) = PlayedIn(one, c)
<1>1. one.tracking[c].resolution.kind = "duplicate" =>
          one.tracking[c].resolution.of \in Tracking
  <2>1. one.tracking[c].resolution \in TrackingResolution
      BY DEF Shaped, TrackingShaped
  <2> QED BY <2>1 DEF TrackingResolution, Pending, Excluded, LinkedTo, DuplicateOf
<1>2. PitchOf(other.tracking, c) = PitchOf(one.tracking, c)
  <2>1. other.tracking[c].resolution = one.tracking[c].resolution
      OBVIOUS
  <2>2. CASE one.tracking[c].resolution.kind = "duplicate"
    <3>1. other.tracking[one.tracking[c].resolution.of].resolution
            = one.tracking[one.tracking[c].resolution.of].resolution
        BY <1>1, <2>2
    <3> QED BY <2>1, <2>2, <3>1 DEF PitchOf
  <2>3. CASE one.tracking[c].resolution.kind # "duplicate"
      BY <2>1, <2>3 DEF PitchOf
  <2> QED BY <2>2, <2>3
<1> QED BY <1>2 DEF PlayedIn

LEMMA AnswerFollows ==
    ASSUME LedgerInv, Answer, NEW c \in Tracking \ repaired,
           PitchOf(document.tracking, c) = PitchOf(document'.tracking, c),
           PlayedIn(document, c) # Undefined, PlayedIn(document', c) # Undefined,
           document.tracking[c].plateAppearance = PlayedIn(document, c)
    PROVE  document'.tracking[c].plateAppearance = PlayedIn(document', c)
<1> DEFINE some == Following(document, draft)
<1>1. document' = Renamed(draft, some)
    BY DEF Answer
<1>2. Shaped(draft)
    BY DEF LedgerInv
<1> HIDE DEF some
<1>3. /\ document'.order = draft.order /\ document'.kind = draft.kind
      /\ \A d \in Tracking : document'.tracking[d].resolution = draft.tracking[d].resolution
      /\ document'.tracking[c].plateAppearance
            = IF c \in some THEN PlayedIn(draft, c) ELSE draft.tracking[c].plateAppearance
    BY <1>1, <1>2, RenamedParts
<1>4. /\ PitchOf(document'.tracking, c) = PitchOf(draft.tracking, c)
      /\ PlayedIn(document', c) = PlayedIn(draft, c)
    BY <1>2, <1>3, SamePlay
<1>5. draft.tracking[c].plateAppearance = document.tracking[c].plateAppearance
    BY DEF LedgerInv, OthersKeepTheirs
<1>6. c \in some <=> PlayedIn(document, c) # PlayedIn(draft, c)
    BY <1>4, <1>5 DEF some, Following
<1> QED BY <1>3, <1>4, <1>5, <1>6

\* After every correction a candidate names the plate appearance of its pitch, if it
\* did so before and stands for the same pitch (followStableTrackingPlateAppearanceContexts).
THEOREM ContextsAlwaysFollow == LedgerSpec => ContextsFollow
<1>1. LedgerSpec => []LedgerInv
    BY LedgerInitHolds, LedgerStepKeeps, PTL DEF LedgerSpec
<1>2. ASSUME LedgerInv, [LedgerNext]_ledgerVars, NEW c \in Tracking \ repaired,
             PitchOf(document.tracking, c) = PitchOf(document'.tracking, c),
             PlayedIn(document, c) # Undefined, PlayedIn(document', c) # Undefined,
             document.tracking[c].plateAppearance = PlayedIn(document, c)
      PROVE  document'.tracking[c].plateAppearance = PlayedIn(document', c)
  <2>1. CASE Answer
      BY <1>2, <2>1, AnswerFollows
  <2>2. CASE ~ Answer
    <3>1. document' = document
        BY <1>2, <2>2 DEF LedgerNext, ledgerVars, AddEvent, DeleteEvent, ReplaceEvent, MoveEvent,
            LinkTracking, MarkDuplicate, ExcludeTracking, UnlinkTracking, ReconcileContexts,
            Apply, Throw
    <3> QED BY <1>2, <3>1
  <2> QED BY <2>1, <2>2
<1>3. LedgerInv /\ [LedgerNext]_ledgerVars =>
        [calling /\ ~calling' =>
            \A c \in Tracking \ repaired :
                /\ PitchOf(document.tracking, c) = PitchOf(document'.tracking, c)
                /\ PlayedIn(document, c) # Undefined /\ PlayedIn(document', c) # Undefined
                /\ document.tracking[c].plateAppearance = PlayedIn(document, c)
                => document'.tracking[c].plateAppearance = PlayedIn(document', c)]_ledgerVars
    BY <1>2
<1> QED BY <1>1, <1>3, PTL DEF LedgerSpec, ContextsFollow

----------------------------------------------------------------------------
(* Cases of record corrections *)

Status == {"none", "unmatched", "manual_review", "action_required", "already_applied", "dismissed",
           "resolved"}
Stage == {"idle", "listed", "matched", "located", "written", "listing", "resolving"}
GameDocument == [base : Nat, fixes : Nat]

Case == [source : Nat, version : Nat \ {0}, status : Status, game : Nat, candidate : Nat,
         approved : GameDocument, applied : Nat]
Call == [stage : Stage, imported : Nat, notice : Nat, read : Nat, status : Status,
         candidate : Nat, location : Nat, version : Nat]

CaseTypes ==
    /\ contents \in Seq(Nat)
    /\ games \in Seq(GameDocument)
    /\ case \in Case
    /\ case.source \in 1 .. Season
    /\ toResolve \subseteq 1 .. Current
    /\ assessing \in [Assessor -> Call]
    /\ applying \in GameDocument
    /\ raced \in BOOLEAN

\* What an assessment has found of the document it has read.
Judged(call) ==
    /\ call.stage = "matched" => call.read \in 1 .. Current
    /\ call.stage = "located" =>
          /\ call.location \in 1 .. Season
          /\ call.status = "already_applied" =>
                call.read \in 1 .. Current /\ games[call.read].fixes = call.notice
          /\ call.status # "resolved"

\* What the case says is about the notice it is of.
IsAbout ==
    /\ IsShown
    /\ case.approved # NoDocument => case.approved.fixes = ContentOfCase
    /\ case.status = "resolved" =>
          case.applied \in 1 .. Current /\ games[case.applied].fixes = ContentOfCase
    /\ case.status = "already_applied" =>
          case.game \in 1 .. Current /\ games[case.game].fixes = ContentOfCase

CasesInv ==
    /\ CaseTypes
    /\ \A a \in Assessor : Judged(assessing[a])
    /\ raced \/ IsAbout

\* Where the case begins.
LEMMA CasesInitially == CasesInit => CasesInv
<1> SUFFICES ASSUME CasesInit PROVE CasesInv OBVIOUS
<1>1. CaseTypes
  <2>1. contents \in Seq(Nat) /\ Season = 1 /\ games = <<>> /\ games \in Seq(GameDocument)
    BY DEF CasesInit, Season
  <2>2. NoDocument \in GameDocument BY DEF NoDocument, GameDocument
  <2>3. Resting \in Call BY DEF Resting, Call, Stage, Status
  <2>4. case = [source |-> 1, version |-> 1, status |-> "manual_review", game |-> 0,
                candidate |-> 0, approved |-> NoDocument, applied |-> 0]
    BY DEF CasesInit, NoCase
  <2>5. case \in Case /\ case.source \in 1 .. Season
    BY <2>1, <2>2, <2>4 DEF Case, Status
  <2>6. raced \in BOOLEAN /\ toResolve \subseteq 1 .. Current /\ applying \in GameDocument
    BY <2>2 DEF CasesInit
  <2>7. assessing \in [Assessor -> Call]
    BY <2>3 DEF CasesInit
  <2> QED BY <2>1, <2>5, <2>6, <2>7 DEF CaseTypes
<1>2. \A a \in Assessor : Judged(assessing[a])
  BY DEF CasesInit, Judged, Resting
<1>3. IsAbout
  <2>1. case.status = "manual_review" /\ case.approved = NoDocument /\ case.source = 1
        /\ case.version = 1 /\ Season = 1
    BY DEF CasesInit, NoCase, Season
  <2> QED BY <2>1 DEF IsAbout, IsShown, Listed
<1> QED BY <1>1, <1>2, <1>3 DEF CasesInv

\* A season is imported: the notice is gone, says what it said, or says something else.
LEMMA ImportSeasonSound ==
    ASSUME CasesInv, NEW content \in 0 .. MaxContents, ImportSeason(content)
    PROVE  CasesInv'
<1>1. /\ contents' = Append(contents, content) /\ content \in Nat
      /\ UNCHANGED <<games, toResolve, assessing, applying>>
  BY CaseAssumption DEF ImportSeason
<1>2. /\ contents \in Seq(Nat) /\ Season \in Nat /\ Season' = Season + 1
      /\ contents'[Season + 1] = content
      /\ \A s \in 1 .. Season : contents'[s] = contents[s]
  BY <1>1 DEF CasesInv, CaseTypes, Season
<1> DEFINE moved == [case EXCEPT !.source = Season + 1]
<1>3. case \in Case /\ case.source \in 1 .. Season
  BY DEF CasesInv, CaseTypes
<1>m. moved = [source |-> Season + 1, version |-> case.version, status |-> case.status,
               game |-> case.game, candidate |-> case.candidate, approved |-> case.approved,
               applied |-> case.applied]
  BY <1>3 DEF Case
<1> HIDE DEF moved
<1>4. \A a \in Assessor : Judged(assessing[a])'
  BY <1>1, <1>2 DEF CasesInv, Judged, Current
<1>5. CASE content = 0
  <2>1. case' = case /\ raced' = raced BY <1>5, <1>1 DEF ImportSeason, Changes, CasesInv, CaseTypes
  <2>2. CaseTypes' BY <1>1, <1>2, <1>3, <2>1 DEF CasesInv, CaseTypes, Current
  <2>3. ContentOfCase' = ContentOfCase BY <1>2, <1>3, <2>1 DEF ContentOfCase
  <2>4. InForce' = 0 BY <1>2, <1>5 DEF InForce
  <2>5. IsAbout => IsAbout' BY <1>1, <2>1, <2>3, <2>4 DEF IsAbout, IsShown, Current
  <2> QED BY <1>4, <2>1, <2>2, <2>5 DEF CasesInv
<1>6. CASE Changes(content)
  <2>1. case' = ReviewedAnew(moved) /\ raced' = FALSE
    BY <1>6 DEF moved, ImportSeason, Changes
  <2>2. /\ case'.source = Season + 1 /\ case'.version = case.version + 1
        /\ case'.status = "manual_review" /\ case'.game = case.game /\ case'.candidate = 0
        /\ case'.approved = NoDocument /\ case'.applied = 0
        /\ case' \in Case
    <3>1. NoDocument \in GameDocument BY DEF NoDocument, GameDocument
    <3>2. case' = [source |-> Season + 1, version |-> case.version + 1,
                   status |-> "manual_review", game |-> case.game, candidate |-> 0,
                   approved |-> NoDocument, applied |-> 0]
      BY <1>m, <2>1 DEF ReviewedAnew
    <3> QED BY <1>2, <1>3, <3>1, <3>2 DEF Case, Status
  <2>3. CaseTypes'
    <3>1. raced' \in BOOLEAN BY <2>1
    <3>2. contents' \in Seq(Nat) /\ case'.source \in 1 .. Season'
      BY <1>1, <1>2, <2>2 DEF CasesInv, CaseTypes
    <3> QED BY <1>1, <2>2, <3>1, <3>2 DEF CasesInv, CaseTypes, Current
  <2>4. IsAbout' BY <1>2, <1>3, <2>2 DEF IsAbout, IsShown, Listed, Case
  <2> QED BY <1>4, <2>3, <2>4 DEF CasesInv
<1>7. CASE content # 0 /\ ~Changes(content)
  <2>1. case' = moved /\ raced' = raced /\ ContentOfCase = content
    BY <1>7 DEF moved, ImportSeason, Changes, CasesInv, CaseTypes
  <2>2. /\ case'.source = Season + 1 /\ case'.version = case.version
        /\ case'.status = case.status /\ case'.game = case.game
        /\ case'.approved = case.approved /\ case'.applied = case.applied
        /\ case' \in Case
    BY <1>2, <1>3, <1>m, <2>1 DEF Case
  <2>3. CaseTypes' BY <1>1, <1>2, <2>1, <2>2 DEF CasesInv, CaseTypes, Current, Case
  <2>4. ContentOfCase' = ContentOfCase BY <1>2, <2>1, <2>2 DEF ContentOfCase
  <2>5. IsShown' BY <1>2, <1>3, <2>2 DEF IsShown, Listed, Case
  <2>6. IsAbout => IsAbout' BY <1>1, <2>2, <2>4, <2>5 DEF IsAbout, Current
  <2> QED BY <1>4, <2>1, <2>3, <2>6 DEF CasesInv
<1> QED BY <1>5, <1>6, <1>7

\* A step that changes nothing but how far an assessment is.
LEMMA AssessingSound ==
    ASSUME CasesInv, NEW a \in Assessor, NEW call \in Call, Judged(call),
           assessing' = [assessing EXCEPT ![a] = call],
           UNCHANGED <<contents, case, games, applying, raced>>,
           toResolve' \subseteq toResolve
    PROVE  CasesInv'
<1>1. CaseTypes' BY DEF CasesInv, CaseTypes, Call, Season, Current
<1>2. \A b \in Assessor : assessing'[b] = call \/ assessing'[b] = assessing[b]
  BY DEF CasesInv, CaseTypes
<1>3. ASSUME NEW x, Judged(x) PROVE Judged(x)'
  BY <1>3 DEF Judged, Season, Current
<1>4. \A b \in Assessor : Judged(assessing[b])'
  BY <1>2, <1>3 DEF CasesInv, Judged, Season, Current
<1>5. IsAbout => IsAbout'
  BY DEF IsAbout, IsShown, InForce, Listed, ContentOfCase, Season, Current
<1> QED BY <1>1, <1>4, <1>5 DEF CasesInv

\* What the fields of a case and of an assessment are.
LEMMA CallsAndSeasons ==
    ASSUME CasesInv
    PROVE  /\ \A a \in Assessor : assessing[a] \in Call
           /\ case \in Case /\ ContentOfCase \in Nat /\ Season \in Nat \ {0} /\ Current \in Nat
           /\ games # <<>> => Current # 0
<1>1. contents \in Seq(Nat) /\ case.source \in 1 .. Season /\ case \in Case
      /\ games \in Seq(GameDocument) /\ Season \in Nat
  BY DEF CasesInv, CaseTypes, Season
<1>2. contents[case.source] \in Nat BY <1>1 DEF Season
<1>3. Current \in Nat /\ (games # <<>> => Current # 0) BY <1>1 DEF Current
<1> QED BY <1>1, <1>2, <1>3 DEF CasesInv, CaseTypes, ContentOfCase

\* What an assessment has found of its notice is about the revision it has read.
LEMMA LocatedIsJudged ==
    ASSUME CasesInv, NEW a \in Assessor, NEW s \in Status \ {"resolved"}, NEW candidate \in Nat,
           s = "already_applied" =>
               /\ assessing[a].read \in 1 .. Current
               /\ games[assessing[a].read].fixes = assessing[a].notice
    PROVE  Located(a, s, candidate) \in Call /\ Judged(Located(a, s, candidate))
<1>1. assessing[a] \in Call /\ Season \in Nat \ {0} BY CallsAndSeasons
<1> DEFINE call == [assessing[a] EXCEPT !.stage = "located", !.status = s,
                                        !.candidate = candidate, !.location = Season]
<1>2. /\ call \in Call /\ call.stage = "located" /\ call.status = s /\ call.location = Season
      /\ call.read = assessing[a].read /\ call.notice = assessing[a].notice
  BY <1>1 DEF Call, Stage, Status
<1>3. Judged(call)
  <2> HIDE DEF call
  <2> QED BY <1>1, <1>2 DEF Judged
<1>4. Resting \in Call /\ Judged(Resting)
  BY DEF Resting, Call, Stage, Status, Judged
<1> QED BY <1>2, <1>3, <1>4 DEF Located

\* The steps of an assessment up to its transaction.
LEMMA AssessSound ==
    ASSUME CasesInv, NEW a \in Assessor,
           AssessBegins(a) \/ DraftBegins(a) \/ AssessMatches(a) \/ AssessChecks(a)
             \/ AfterImportLists(a) \/ AfterImportReads(a)
    PROVE  CasesInv'
<1> DEFINE Fits(call) == call \in Call /\ Judged(call)
<1>t. /\ assessing[a] \in Call /\ case \in Case /\ ContentOfCase \in Nat /\ Current \in Nat
      /\ games # <<>> => Current # 0
  BY CallsAndSeasons
<1>r. Resting \in Call /\ Fits(Resting)
  BY DEF Resting, Call, Stage, Status, Judged
<1>0. UNCHANGED <<contents, case, games, toResolve, applying, raced>>
  BY DEF AssessBegins, DraftBegins, AssessMatches, AssessChecks, AfterImportLists,
     AfterImportReads
<1>1. SUFFICES \E call : Fits(call) /\ assessing' = [assessing EXCEPT ![a] = call]
  BY <1>0, AssessingSound
<1>2. CASE AssessBegins(a) \/ DraftBegins(a)
  <2> DEFINE call == [Resting EXCEPT !.stage = "listed", !.notice = ContentOfCase]
  <2>1. call \in Call /\ call.stage = "listed"
    BY <1>t DEF Resting, Call, Stage, Status
  <2>2. Fits(call)
    <3> HIDE DEF call
    <3> QED BY <2>1 DEF Judged
  <2> QED BY <1>2, <2>2 DEF AssessBegins, DraftBegins
<1>3. CASE AssessMatches(a)
  <2> DEFINE call == [assessing[a] EXCEPT !.stage = "matched", !.read = Current]
  <2>1. games # <<>> => Fits(call)
    <3>1. call \in Call /\ call.stage = "matched" /\ call.read = Current
      BY <1>t DEF Call, Stage, Status
    <3> HIDE DEF call
    <3> QED BY <1>t, <3>1 DEF Judged
  <2>2. Fits(Located(a, "unmatched", 0)) /\ Fits(Located(a, "manual_review", Current))
    BY <1>t, LocatedIsJudged DEF Status
  <2> HIDE DEF call, Fits
  <2>3. PICK outcome \in IF games = <<>> THEN {Located(a, "unmatched", 0)}
                         ELSE {Located(a, "manual_review", Current), call} :
           assessing' = [assessing EXCEPT ![a] = outcome]
    BY <1>3 DEF AssessMatches, call
  <2> QED BY <2>1, <2>2, <2>3
<1>4. CASE AssessChecks(a)
  <2>1. Fits(Located(a, "action_required", Current)) /\ Fits(Located(a, "manual_review", Current))
    BY <1>t, LocatedIsJudged DEF Status
  <2>2. Current = assessing[a].read /\ games[Current].fixes = assessing[a].notice
           => Fits(Located(a, "already_applied", Current))
    <3>1. assessing[a].read \in 1 .. Current
      BY <1>4 DEF AssessChecks, CasesInv, Judged
    <3> QED BY <1>t, <3>1, LocatedIsJudged DEF Status
  <2> HIDE DEF Fits
  <2>3. PICK outcome \in IF Current # assessing[a].read THEN {Resting}
                         ELSE IF games[Current].fixes = assessing[a].notice
                         THEN {Located(a, "already_applied", Current)}
                         ELSE {Located(a, s, Current) : s \in {"action_required", "manual_review"}} :
           assessing' = [assessing EXCEPT ![a] = outcome]
    BY <1>4 DEF AssessChecks
  <2> QED BY <1>r, <2>1, <2>2, <2>3
<1>5. CASE AfterImportLists(a)
  <2> DEFINE call == [assessing[a] EXCEPT !.stage = "listed", !.notice = ContentOfCase]
  <2>1. call \in Call /\ call.stage = "listed"
    BY <1>t DEF Call, Stage, Status
  <2>2. Fits(call)
    <3> HIDE DEF call
    <3> QED BY <2>1 DEF Judged
  <2>3. assessing' = [assessing EXCEPT ![a] = call] \/ assessing' = [assessing EXCEPT ![a] = Resting]
    BY <1>5 DEF AfterImportLists
  <2> HIDE DEF call, Fits
  <2> QED BY <1>r, <2>2, <2>3
<1>6. CASE AfterImportReads(a)
  <2> DEFINE call == [assessing[a] EXCEPT !.stage = "resolving", !.version = case.version]
  <2>1. call \in Call /\ call.stage = "resolving"
    BY <1>t DEF Call, Stage, Status, Case
  <2>2. Fits(call)
    <3> HIDE DEF call
    <3> QED BY <2>1 DEF Judged
  <2>3. assessing' = [assessing EXCEPT ![a] = call] \/ assessing' = [assessing EXCEPT ![a] = Resting]
    BY <1>6 DEF AfterImportReads
  <2> HIDE DEF call, Fits
  <2> QED BY <1>r, <2>2, <2>3
<1> QED BY <1>2, <1>3, <1>4, <1>5, <1>6

\* A step that changes the case, and perhaps the locals of one assessment, of the
\* same season and the same revisions of the game.
LEMMA CaseSound ==
    ASSUME CasesInv, UNCHANGED <<contents, games>>, toResolve' \subseteq toResolve,
           case' \in Case, case'.source \in 1 .. Season, applying' \in GameDocument,
           raced' \in BOOLEAN, assessing' \in [Assessor -> Call],
           \A b \in Assessor : assessing'[b] = assessing[b] \/ Judged(assessing'[b]),
           raced' \/ IsAbout'
    PROVE  CasesInv'
<1>1. CaseTypes' BY DEF CasesInv, CaseTypes, Season, Current
<1>2. ASSUME NEW b \in Assessor PROVE Judged(assessing[b])'
  BY DEF CasesInv, Judged, Season, Current
<1> QED BY <1>1, <1>2 DEF CasesInv

\* The locals of one assessment go on.
LEMMA OneAssesses ==
    ASSUME CasesInv, NEW a \in Assessor, NEW call \in Call, Judged(call),
           assessing' \in {assessing, [assessing EXCEPT ![a] = call]}
    PROVE  /\ assessing' \in [Assessor -> Call]
           /\ \A b \in Assessor : assessing'[b] = assessing[b] \/ Judged(assessing'[b])
  BY DEF CasesInv, CaseTypes

\* Only a judgement of the notice in its place is written without a race.
LEMMA AssessWritesSound ==
    ASSUME CasesInv, NEW a \in Assessor, AssessWrites(a)
    PROVE  CasesInv'
<1> DEFINE call == assessing[a]
           status == IF Preserves(call.location) THEN case.status ELSE call.status
           rest == IF call.imported = 0 THEN Resting
                   ELSE [Resting EXCEPT !.stage = "written", !.imported = call.imported]
<1>1. /\ call \in Call /\ case \in Case /\ Judged(call) /\ call.stage = "located"
      /\ case.source \in 1 .. Season /\ Season \in Nat
  BY CallsAndSeasons DEF CasesInv, CaseTypes, AssessWrites
<1>2. call.location \in 1 .. Season /\ call.status # "resolved"
  BY <1>1 DEF Judged
<1>3. rest \in Call /\ Judged(rest)
  <2>1. Resting \in Call /\ Resting.stage = "idle" BY DEF Resting, Call, Stage, Status
  <2>2. [Resting EXCEPT !.stage = "written", !.imported = call.imported] \in Call
        /\ [Resting EXCEPT !.stage = "written", !.imported = call.imported].stage = "written"
    BY <1>1 DEF Resting, Call, Stage, Status
  <2>3. rest \in Call /\ rest.stage \in {"idle", "written"} BY <2>1, <2>2
  <2> HIDE DEF rest
  <2> QED BY <2>3 DEF Judged
<1>4. /\ case' = [case EXCEPT !.source = call.location, !.version = @ + 1, !.status = status,
                              !.game = call.read, !.candidate = call.candidate]
      /\ raced' = (raced \/ call.location # case.source \/ call.notice # contents[call.location])
      /\ assessing' = [assessing EXCEPT ![a] = rest]
      /\ UNCHANGED <<contents, games, toResolve, applying>>
  BY <1>1 DEF AssessWrites, Case
<1>5. status \in Status BY <1>1 DEF Case, Call
<1>6. /\ case'.source = call.location /\ case'.version = case.version + 1
      /\ case'.status = status /\ case'.game = call.read
      /\ case'.approved = case.approved /\ case'.applied = case.applied /\ case' \in Case
  <2>1. /\ call.read \in Nat /\ call.candidate \in Nat /\ call.location \in Nat
        /\ case.version \in Nat /\ case.approved \in GameDocument /\ case.applied \in Nat
    BY <1>1, <1>2 DEF Case, Call
  <2> HIDE DEF status, rest, call
  <2>2. case' = [source |-> call.location, version |-> case.version + 1, status |-> status,
                 game |-> call.read, candidate |-> call.candidate,
                 approved |-> case.approved, applied |-> case.applied]
    BY <1>1, <1>4 DEF Case
  <2> QED BY <1>5, <2>1, <2>2 DEF Case
<1>7. raced' \/ IsAbout'
  <2> SUFFICES ASSUME ~raced' PROVE IsAbout' OBVIOUS
  <2>1. ~raced /\ call.location = case.source /\ call.notice = ContentOfCase
    BY <1>4 DEF ContentOfCase
  <2>2. IsAbout BY <2>1 DEF CasesInv
  <2>3. ContentOfCase' = ContentOfCase BY <1>4, <1>6, <2>1 DEF ContentOfCase
  <2>4. IsShown'
    BY <1>1, <1>4, <1>6, <2>1, <2>2 DEF IsAbout, IsShown, Listed, InForce, Season, Case
  <2>5. status = "resolved" => case.status = "resolved"
    BY <1>2
  <2>6. status = "already_applied" => call.status = "already_applied"
    BY DEF Preserves, Decided
  <2>7. status = "already_applied" =>
            call.read \in 1 .. Current /\ games[call.read].fixes = ContentOfCase
    BY <1>1, <2>1, <2>6 DEF Judged
  <2> HIDE DEF status, rest
  <2> QED BY <1>4, <1>6, <2>2, <2>3, <2>4, <2>5, <2>7 DEF IsAbout, Current
<1>8. raced' \in BOOLEAN /\ applying' \in GameDocument
  BY <1>4 DEF CasesInv, CaseTypes
<1> HIDE DEF status, rest
<1>9. /\ assessing' \in [Assessor -> Call]
      /\ \A b \in Assessor : assessing'[b] = assessing[b] \/ Judged(assessing'[b])
  BY <1>3, <1>4, OneAssesses
<1> QED BY <1>2, <1>4, <1>6, <1>7, <1>8, <1>9, CaseSound

\* A game is imported: its revisions before it stay.
LEMMA ImportGameSound ==
    ASSUME CasesInv, NEW content \in 0 .. MaxContents, ImportGame(content)
    PROVE  CasesInv'
<1> DEFINE new == [base |-> Current, fixes |-> content]
<1>1. /\ games' = Append(games, new) /\ toResolve' = toResolve \cup {Current + 1}
      /\ UNCHANGED <<contents, case, assessing, applying, raced>>
  BY DEF ImportGame
<1>2. new \in GameDocument
  BY CallsAndSeasons, CaseAssumption DEF GameDocument
<1>3. /\ games' \in Seq(GameDocument) /\ Current \in Nat /\ Current' = Current + 1
      /\ \A r \in 1 .. Current : games'[r] = games[r]
  <2> HIDE DEF new
  <2> QED BY <1>1, <1>2 DEF CasesInv, CaseTypes, Current
<1>4. CaseTypes'
  <2>1. toResolve' \subseteq 1 .. Current' BY <1>1, <1>3 DEF CasesInv, CaseTypes
  <2> QED BY <1>1, <1>3, <2>1 DEF CasesInv, CaseTypes, Season
<1>s. \A r \in 1 .. Current : r \in 1 .. Current' /\ games'[r] = games[r]
  BY <1>3
<1>5. \A a \in Assessor : Judged(assessing[a])'
  BY <1>1, <1>s DEF CasesInv, Judged, Season
<1>6. IsAbout => IsAbout'
  BY <1>1, <1>s DEF IsAbout, IsShown, InForce, Listed, ContentOfCase, Season
<1> QED BY <1>1, <1>4, <1>5, <1>6 DEF CasesInv

\* A case becomes resolved by its approved document, or by what was judged to satisfy it.
LEMMA ResolvingSound ==
    ASSUME CasesInv, NEW a \in Assessor, NEW r \in Nat, NEW call \in Call, Judged(call),
           raced \/ (r \in 1 .. Current /\ games[r].fixes = ContentOfCase),
           case' = [case EXCEPT !.status = "resolved", !.applied = r],
           assessing' \in {assessing, [assessing EXCEPT ![a] = call]},
           UNCHANGED <<contents, games, applying, raced>>, toResolve' \subseteq toResolve
    PROVE  CasesInv'
<1>1. case \in Case /\ case.source \in 1 .. Season BY DEF CasesInv, CaseTypes
<1>2. /\ case' \in Case /\ case'.source = case.source /\ case'.version = case.version
      /\ case'.status = "resolved" /\ case'.applied = r /\ case'.approved = case.approved
  BY <1>1 DEF Case, Status
<1>3. raced' \in BOOLEAN /\ applying' \in GameDocument BY DEF CasesInv, CaseTypes
<1>4. IsAbout /\ ~raced => IsAbout'
  BY <1>2 DEF IsAbout, IsShown, InForce, Listed, ContentOfCase, Season, Current
<1>5. raced' \/ IsAbout' BY <1>4 DEF CasesInv
<1>6. /\ assessing' \in [Assessor -> Call]
      /\ \A b \in Assessor : assessing'[b] = assessing[b] \/ Judged(assessing'[b])
  BY OneAssesses
<1> QED BY <1>1, <1>2, <1>3, <1>5, <1>6, CaseSound

\* afterImport() begins: the case of the approved document is resolved.
LEMMA AfterImportSound ==
    ASSUME CasesInv, NEW a \in Assessor, NEW r \in 1 .. MaxRevisions, AfterImport(a, r)
    PROVE  CasesInv'
<1>1. /\ r \in toResolve /\ toResolve' = toResolve \ {r} /\ r \in 1 .. Current /\ r \in Nat
      /\ UNCHANGED <<contents, games, applying, raced>>
  BY DEF AfterImport, CasesInv, CaseTypes
<1> DEFINE call == [Resting EXCEPT !.stage = "listing", !.imported = r]
<1>2. call \in Call /\ call.stage = "listing"
  BY <1>1 DEF Resting, Call, Stage, Status
<1>3. Judged(call)
  <2> HIDE DEF call
  <2> QED BY <1>2 DEF Judged
<1>4. CASE IsApproved(r)
  <2>1. raced \/ games[r].fixes = ContentOfCase
    BY <1>4 DEF IsApproved, CasesInv, IsAbout
  <2>2. case' = [case EXCEPT !.status = "resolved", !.applied = r] /\ assessing' = assessing
    BY <1>4 DEF AfterImport
  <2> HIDE DEF call
  <2> QED BY <1>1, <1>2, <1>3, <2>1, <2>2, ResolvingSound
<1>5. CASE ~IsApproved(r)
  <2>1. case' = case /\ assessing' = [assessing EXCEPT ![a] = call]
    BY <1>5 DEF AfterImport
  <2> HIDE DEF call
  <2> QED BY <1>1, <1>2, <1>3, <2>1, AssessingSound
<1> QED BY <1>4, <1>5

\* An assessment of afterImport() resolves what it judged to be satisfied.
LEMMA AfterImportResolvesSound ==
    ASSUME CasesInv, NEW a \in Assessor, AfterImportResolves(a)
    PROVE  CasesInv'
<1> DEFINE call == assessing[a]
           due == /\ case.version = call.version /\ case.game = call.imported
                  /\ case.status = "already_applied"
<1>1. /\ assessing' = [assessing EXCEPT ![a] = Resting]
      /\ UNCHANGED <<contents, games, toResolve, applying, raced>>
  BY DEF AfterImportResolves
<1>2. Resting \in Call /\ Judged(Resting)
  BY DEF Resting, Call, Stage, Status, Judged
<1>3. CASE due
  <2>1. case' = [case EXCEPT !.status = "resolved", !.applied = call.imported]
    BY <1>3 DEF AfterImportResolves
  <2>2. raced \/ (call.imported \in 1 .. Current /\ games[call.imported].fixes = ContentOfCase)
    BY <1>3 DEF CasesInv, IsAbout
  <2>3. call.imported \in Nat BY CallsAndSeasons DEF Call
  <2> QED BY <1>1, <1>2, <2>1, <2>2, <2>3, ResolvingSound
<1>4. CASE ~due
  <2>1. case' = case BY <1>4 DEF AfterImportResolves
  <2> QED BY <1>1, <1>2, <2>1, AssessingSound
<1> QED BY <1>3, <1>4

\* What a reviewer does: he decides, or applies a proposal.
LEMMA ReviewSound ==
    ASSUME CasesInv, Decide \/ ApplyBegins \/ ApplyMarks
    PROVE  CasesInv'
<1>1. case \in Case /\ case.source \in 1 .. Season /\ applying \in GameDocument /\ raced \in BOOLEAN
  BY DEF CasesInv, CaseTypes
<1>2. UNCHANGED <<contents, games, toResolve, assessing>>
  BY DEF Decide, ApplyBegins, ApplyMarks
<1>3. assessing' \in [Assessor -> Call] BY <1>2 DEF CasesInv, CaseTypes
<1>4. CASE Decide
  <2>1. UNCHANGED <<applying, raced>> BY <1>4 DEF Decide
  <2>2. /\ case' \in Case /\ case'.source = case.source /\ case'.version = case.version
        /\ case'.status \in {"dismissed", "manual_review"} /\ case'.approved = case.approved
    BY <1>1, <1>4 DEF Decide, Case, Status
  <2>3. IsAbout => IsAbout'
    BY <1>2, <2>2 DEF IsAbout, IsShown, InForce, Listed, ContentOfCase, Season, Current
  <2> QED BY <1>1, <1>2, <1>3, <2>1, <2>2, <2>3, CaseSound DEF CasesInv
<1>5. CASE ApplyBegins
  <2>1. UNCHANGED <<case, raced>> /\ applying' = [base |-> Current, fixes |-> ContentOfCase]
    BY <1>5 DEF ApplyBegins
  <2>2. applying' \in GameDocument BY <2>1, CallsAndSeasons DEF GameDocument
  <2>3. IsAbout => IsAbout'
    BY <1>2, <2>1 DEF IsAbout, IsShown, InForce, Listed, ContentOfCase, Season, Current
  <2> QED BY <1>1, <1>2, <1>3, <2>1, <2>2, <2>3, CaseSound DEF CasesInv
<1>6. CASE ApplyMarks
  <2>1. /\ case' = [case EXCEPT !.approved = applying] /\ applying' = NoDocument
        /\ raced' = (raced \/ applying.fixes # ContentOfCase)
    BY <1>6 DEF ApplyMarks
  <2>2. /\ case' \in Case /\ case'.source = case.source /\ case'.version = case.version
        /\ case'.status = case.status /\ case'.approved = applying
        /\ case'.applied = case.applied /\ case'.game = case.game
    BY <1>1, <2>1 DEF Case
  <2>3. applying' \in GameDocument BY <2>1 DEF NoDocument, GameDocument
  <2>4. ASSUME ~raced' PROVE IsAbout'
    <3>1. ~raced /\ applying.fixes = ContentOfCase BY <2>1, <2>4
    <3>2. IsAbout BY <3>1 DEF CasesInv
    <3> QED BY <1>2, <2>2, <3>1, <3>2
        DEF IsAbout, IsShown, InForce, Listed, ContentOfCase, Season, Current
  <2>5. raced' \in BOOLEAN BY <1>1, <2>1
  <2> QED BY <1>1, <1>2, <1>3, <2>2, <2>3, <2>4, <2>5, CaseSound
<1> QED BY <1>4, <1>5, <1>6

\* Every step of an assessment, of a reviewer and of an import keeps the invariant.
LEMMA CasesStep == CasesInv /\ [CasesNext]_caseVars => CasesInv'
<1> SUFFICES ASSUME CasesInv, [CasesNext]_caseVars PROVE CasesInv' OBVIOUS
<1>1. CASE UNCHANGED caseVars
  BY <1>1 DEF caseVars, CasesInv, CaseTypes, Judged, IsAbout, IsShown, InForce, Listed,
     ContentOfCase, Season, Current
<1>2. CASE \E content \in 0 .. MaxContents : ImportSeason(content) \/ ImportGame(content)
  BY <1>2, ImportSeasonSound, ImportGameSound
<1>3. ASSUME NEW a \in Assessor,
             AssessBegins(a) \/ DraftBegins(a) \/ AssessMatches(a) \/ AssessChecks(a)
               \/ AssessWrites(a) \/ (\E r \in 1 .. MaxRevisions : AfterImport(a, r))
               \/ AfterImportLists(a) \/ AfterImportReads(a) \/ AfterImportResolves(a)
      PROVE  CasesInv'
  BY <1>3, AssessSound, AssessWritesSound, AfterImportSound, AfterImportResolvesSound
<1>4. CASE Decide \/ ApplyBegins \/ ApplyMarks BY <1>4, ReviewSound
<1> QED BY <1>1, <1>2, <1>3, <1>4 DEF CasesNext

\* So it holds of every case.
LEMMA CasesInvariance == CasesSpec => []CasesInv
  BY CasesInitially, CasesStep, PTL DEF CasesSpec

\* With any number of assessments in flight, however the season and the game are
\* imported and a reviewer decides meanwhile: unless a write was about a notice that has
\* changed, a resolved case is satisfied by the revision it names, and a notice in force
\* is in the list (initializeAssessments, assess, markResolvedIfImported).
THEOREM CasesSound == CasesSpec => []CasesAreSound
<1>1. CasesInv => CasesAreSound
  BY DEF CasesInv, IsAbout, CasesAreSound, ResolvedIsSatisfied
<1> QED BY <1>1, CasesInvariance, PTL

\* A version of a case is about one content of its notice, and a decision is taken
\* back only by a reviewer, by a change of the notice, or by an assessment of an older
\* revision of the season.
THEOREM DecisionsAlwaysStand == CasesSpec => DecisionsStand
<1> DEFINE Stand ==
       /\ contents'[case'.source] # ContentOfCase => case'.version # case.version
       /\ (case.status \in Decided /\ case'.status # case.status) =>
             \/ Decide
             \/ contents'[case'.source] # ContentOfCase
             \/ \E a \in Assessor : AssessWrites(a) /\ assessing[a].location # case.source
<1>1. CasesInv /\ [CasesNext]_caseVars => [Stand]_caseVars
  <2> SUFFICES ASSUME CasesInv, CasesNext PROVE Stand OBVIOUS
  <2>t. /\ case \in Case /\ case.source \in 1 .. Season /\ Season \in Nat
        /\ contents \in Seq(Nat)
    BY CallsAndSeasons DEF CasesInv, CaseTypes
  <2>1. ASSUME NEW content \in 0 .. MaxContents, ImportSeason(content) PROVE Stand
    <3>1. contents' = Append(contents, content) BY <2>1 DEF ImportSeason
    <3>2. /\ contents'[Season + 1] = content
          /\ \A s \in 1 .. Season : contents'[s] = contents[s]
      BY <2>t, <3>1, CaseAssumption DEF Season
    <3> DEFINE moved == [case EXCEPT !.source = Season + 1]
    <3>3. /\ moved.source = Season + 1 /\ moved.version = case.version
          /\ moved.status = case.status /\ moved \in Case
      BY <2>t DEF Case
    <3>4. CASE content = 0
      <4>1. case' = case BY <2>1, <3>4 DEF ImportSeason, Changes
      <4> QED BY <2>t, <3>2, <4>1 DEF ContentOfCase
    <3>5. CASE content # 0 /\ Changes(content)
      <4>1. case' = ReviewedAnew(moved) BY <2>1, <3>5 DEF ImportSeason
      <4> HIDE DEF moved
      <4>2. case'.version = case.version + 1 /\ case'.source = Season + 1
        BY <3>3, <4>1 DEF ReviewedAnew, Case
      <4> QED BY <2>t, <3>2, <3>5, <4>2 DEF Changes, Case
    <3>6. CASE content # 0 /\ ~Changes(content)
      <4>1. case' = moved BY <2>1, <3>6 DEF ImportSeason
      <4> HIDE DEF moved
      <4> QED BY <3>2, <3>3, <3>6, <4>1 DEF Changes
    <3> QED BY <3>4, <3>5, <3>6
  <2>2. ASSUME NEW a \in Assessor, AssessWrites(a) PROVE Stand
    <3> DEFINE call == assessing[a]
    <3>1. /\ contents' = contents
          /\ case' = [case EXCEPT !.source = call.location, !.version = @ + 1,
                         !.status = IF Preserves(call.location) THEN @ ELSE call.status,
                         !.game = call.read, !.candidate = call.candidate]
      BY <2>2 DEF AssessWrites
    <3>2. /\ case'.version = case.version + 1 /\ case'.source = call.location
          /\ Preserves(call.location) => case'.status = case.status
      BY <2>t, <3>1 DEF Case
    <3>3. case'.version # case.version BY <2>t, <3>2 DEF Case
    <3> QED BY <2>2, <3>2, <3>3 DEF Preserves
  <2>3. CASE \E a \in Assessor :
                AssessBegins(a) \/ DraftBegins(a) \/ AssessMatches(a) \/ AssessChecks(a)
                  \/ AfterImportLists(a) \/ AfterImportReads(a)
    <3>1. UNCHANGED <<contents, case>>
      BY <2>3 DEF AssessBegins, DraftBegins, AssessMatches, AssessChecks, AfterImportLists,
         AfterImportReads
    <3> QED BY <3>1 DEF ContentOfCase
  <2>4. CASE ApplyBegins \/ \E content \in 0 .. MaxContents : ImportGame(content)
    <3>1. UNCHANGED <<contents, case>> BY <2>4 DEF ApplyBegins, ImportGame
    <3> QED BY <3>1 DEF ContentOfCase
  <2>5. CASE ApplyMarks \/ \E a \in Assessor :
                (\E r \in 1 .. MaxRevisions : AfterImport(a, r)) \/ AfterImportResolves(a)
    <3>1. contents' = contents
      BY <2>5 DEF ApplyMarks, AfterImport, AfterImportResolves
    <3>2. \/ case' = case \/ case' = [case EXCEPT !.approved = applying]
          \/ /\ case.status # "dismissed"
             /\ \E r : case' = [case EXCEPT !.status = "resolved", !.applied = r]
      BY <2>5 DEF ApplyMarks, AfterImport, AfterImportResolves, IsApproved
    <3>3. /\ case'.source = case.source
          /\ case'.status = case.status \/ (case.status # "dismissed" /\ case'.status = "resolved")
      BY <2>t, <3>2 DEF Case
    <3> QED BY <3>1, <3>3 DEF ContentOfCase, Decided
  <2>6. CASE Decide
    <3>1. contents' = contents /\ case'.source = case.source
      BY <2>t, <2>6 DEF Decide, Case
    <3> QED BY <2>6, <3>1 DEF ContentOfCase
  <2> QED BY <2>1, <2>2, <2>3, <2>4, <2>5, <2>6 DEF CasesNext
<1> QED BY <1>1, CasesInvariance, PTL DEF CasesSpec, DecisionsStand

----------------------------------------------------------------------------
(* Jobs of record corrections *)

Loop == {"starting", "step", "collecting", "assessing", "ending"}
RunOpen == {"queued", "running", "cancelling"}

\* What the loop of a job has left, and what it has found in what it has done.
LoopSound(j) ==
    /\ left[j] \subseteq SeasonsOf[j]
    /\ \A s \in SeasonsOf[j] \ left[j] : seasonRows[j][s] \in SeasonEnded
    /\ changes[j] <=> HasImported(j)
    /\ runStage[j] \in {"starting", "step"} => \A s \in left[j] : seasonRows[j][s] = "queued"
    /\ runStage[j] \in {"collecting", "assessing"} =>
          left[j] # {} /\ \A s \in left[j] \ {Next1(j)} : seasonRows[j][s] = "queued"
    /\ runStage[j] = "collecting" => seasonRows[j][Next1(j)] = "running"
    /\ runStage[j] = "assessing" => seasonRows[j][Next1(j)] \in {"succeeded", "no_change"}
    /\ runStage[j] = "ending" => left[j] = {}

RunSound(j) ==
    /\ runStage[j] \in Running \cup {"created"} => runRows[j] \in RunOpen
    /\ runRows[j] # "none" => \A s \in SeasonsOf[j] : seasonRows[j][s] # "none"
    /\ runStage[j] = "created" => \A s \in SeasonsOf[j] : seasonRows[j][s] = "queued"
    /\ runStage[j] \in Loop => LoopSound(j)
    /\ EndIsTold(j)
SeasonStatus == {"none", "queued", "running"} \cup SeasonEnded
AnySeasons == UNION {[SeasonsOf[j] -> SeasonStatus] : j \in NoticeJob}
RunStatus == RunOpen \cup RunEnded \cup {"none"}
RunStage == Running \cup {"none", "creating", "created", "answered"}

NoticeTypes ==
    /\ runRows \in [NoticeJob -> RunStatus]
    /\ seasonRows \in [NoticeJob -> AnySeasons]
    /\ \A j \in NoticeJob : seasonRows[j] \in [SeasonsOf[j] -> SeasonStatus]
    /\ runStage \in [NoticeJob -> RunStage]
    /\ active \in [NoticeJob -> SUBSET NoticeSeason]
    /\ left \in [NoticeJob -> SUBSET NoticeSeason]
    /\ changes \in [NoticeJob -> BOOLEAN]
\* A server that is down runs nothing.
DownRunsNothing == noticeServer = "down" => \A j \in NoticeJob : runStage[j] = "none"

RunsInv ==
    /\ NoticeTypes /\ DownRunsNothing /\ SeasonsAreApart
    /\ \A j \in NoticeJob : RunSound(j)


----------------------------------------------------------------------------
\* Of some subsets of a finite set, one contains no other.
LEMMA Smallest ==
    ASSUME NEW P, IsFiniteSet(P), NEW F, \A A \in F : A \subseteq P, F # {}
    PROVE  \E A \in F : \A B \in F : B \subseteq A => B = A
<1>0. F \subseteq SUBSET P OBVIOUS
<1>1. IsWellFoundedOn(StrictSubsetOrdering(P), SUBSET P)
  BY FS_StrictSubsetOrderingWellFounded, FS_FiniteSubsetsOfFinite
<1>2. PICK A \in F : \A B \in F : ~(<<B, A>> \in StrictSubsetOrdering(P))
  BY <1>1, <1>0, WFMin
<1> QED BY <1>2 DEF StrictSubsetOrdering

\* Finitely many numbers have a least and a greatest one.
LEMMA Least ==
    ASSUME NEW P \in SUBSET Nat, IsFiniteSet(P), NEW T \in SUBSET P, T # {}
    PROVE  \E p \in T : \A q \in T : p <= q
<1> DEFINE below(p) == {q \in P : q < p}
           F == {below(p) : p \in T}
<1>1. (\A A \in F : A \subseteq P) /\ F # {} OBVIOUS
<1>2. PICK A \in F : \A B \in F : B \subseteq A => B = A
  <2> HIDE DEF F
  <2> QED BY <1>1, Smallest
<1>3. PICK p \in T : A = below(p) OBVIOUS
<1>4. ASSUME NEW q \in T, ~(p <= q) PROVE FALSE
  <2>1. q \in Nat /\ p \in Nat /\ q < p BY <1>4
  <2>2. ASSUME NEW r \in below(q) PROVE r \in below(p)
    <3>1. r \in P /\ r \in Nat /\ r < q OBVIOUS
    <3>2. r < p BY <2>1, <3>1
    <3> QED BY <3>1, <3>2
  <2>3. q \in below(p) /\ q \notin below(q) BY <2>1
  <2> QED BY <1>2, <1>3, <2>2, <2>3
<1> QED BY <1>4


\* The loop of a job takes a season that it has left.
LEMMA NextIsLeft ==
    ASSUME NEW j \in NoticeJob, left[j] \subseteq NoticeSeason, left[j] # {}
    PROVE  Next1(j) \in left[j]
<1>1. \E s \in left[j] : \A t \in left[j] : s <= t
    BY Least, NoticeJobAssumption
<1> QED
    BY <1>1 DEF Next1

\* A job that a step leaves alone stays sound.
LEMMA RunUntouched ==
    ASSUME NEW j \in NoticeJob, RunSound(j),
           runRows'[j] = runRows[j], seasonRows'[j] = seasonRows[j], runStage'[j] = runStage[j],
           left'[j] = left[j], changes'[j] = changes[j]
    PROVE  RunSound(j)'
    BY DEF RunSound, LoopSound, EndIsTold, HasImported, Next1

\* What a job tells of its end rests on its own rows, and one that is open tells nothing.
LEMMA EndKept ==
    ASSUME NEW j \in NoticeJob, EndIsTold(j),
           runRows'[j] = runRows[j], \A s \in SeasonsOf[j] : seasonRows'[j][s] = seasonRows[j][s]
    PROVE  EndIsTold(j)'
<1>1. {seasonRows'[j][s] : s \in SeasonsOf[j]} = {seasonRows[j][s] : s \in SeasonsOf[j]}
    OBVIOUS
<1> QED BY <1>1 DEF EndIsTold

LEMMA OpenTellsNothing ==
    ASSUME NEW j \in NoticeJob, runRows'[j] \notin {"no_change", "succeeded"}
    PROVE  EndIsTold(j)'
    BY DEF EndIsTold

LEMMA EndReached ==
    ASSUME NEW j \in NoticeJob, SeasonsOf[j] # {},
           \A s \in SeasonsOf[j] : seasonRows'[j][s] \in SeasonEnded,
           runRows'[j] = IF HasImported(j)' THEN "succeeded" ELSE "no_change"
    PROVE  EndIsTold(j)'
<1> DEFINE ends == {seasonRows'[j][s] : s \in SeasonsOf[j]}
<1>1. ends \subseteq SeasonEnded /\ ends # {}
    OBVIOUS
<1>2. HasImported(j)' <=> "succeeded" \in ends
    BY DEF HasImported
<1>3. /\ runRows'[j] = "no_change" /\ "failed" \notin ends => ends = {"no_change"}
      /\ runRows'[j] = "succeeded" /\ "failed" \notin ends =>
            "succeeded" \in ends /\ ends \subseteq {"succeeded", "no_change"}
  <2> HIDE DEF ends
  <2> QED BY <1>1, <1>2 DEF SeasonEnded
<1> QED BY <1>3 DEF EndIsTold

\* The rows of the seasons of one job are written.
LEMMA SeasonsRetyped ==
    ASSUME NoticeTypes, NEW j \in NoticeJob, NEW new \in [SeasonsOf[j] -> SeasonStatus],
           seasonRows' = [seasonRows EXCEPT ![j] = new]
    PROVE  /\ seasonRows' \in [NoticeJob -> AnySeasons]
           /\ \A i \in NoticeJob : seasonRows'[i] \in [SeasonsOf[i] -> SeasonStatus]
           /\ seasonRows'[j] = new
           /\ \A i \in NoticeJob \ {j} : seasonRows'[i] = seasonRows[i]
<1>1. new \in AnySeasons
    BY DEF AnySeasons
<1> QED BY <1>1 DEF NoticeTypes

\* Creating a job and launching it.
LEMMA CreatingSound ==
    ASSUME RunsInv, NEW j \in NoticeJob, CreateRun(j) \/ InsertRun(j) \/ LaunchRun(j)
    PROVE  RunsInv'
<1> USE DEF RunsInv, NoticeTypes
<1>1. CASE CreateRun(j)
  <2>1. NoticeTypes' /\ SeasonsAreApart' /\ DownRunsNothing'
      BY <1>1 DEF CreateRun, SeasonsAreApart, DownRunsNothing, RunStage, noticeRows
  <2>2. RunSound(j)'
      BY <1>1, EndKept DEF CreateRun, RunSound, Running, Loop, noticeRows
  <2>3. ASSUME NEW i \in NoticeJob, i # j PROVE RunSound(i)'
      BY <1>1, <2>3, RunUntouched DEF CreateRun, noticeRows
  <2> QED BY <2>1, <2>2, <2>3
<1>2. CASE InsertRun(j)
  <2>1. CASE \E i \in NoticeJob : KeyOf[i] = KeyOf[j] /\ runRows[i] # "none"
    <3>1. NoticeTypes' /\ SeasonsAreApart' /\ DownRunsNothing'
        BY <1>2, <2>1 DEF InsertRun, SeasonsAreApart, DownRunsNothing, RunStage, noticeRows
    <3>2. RunSound(j)'
        BY <1>2, <2>1, EndKept DEF InsertRun, RunSound, Running, Loop, noticeRows
    <3>3. ASSUME NEW i \in NoticeJob, i # j PROVE RunSound(i)'
        BY <1>2, <2>1, <3>3, RunUntouched DEF InsertRun, noticeRows
    <3> QED BY <3>1, <3>2, <3>3
  <2>2. CASE ~ \E i \in NoticeJob : KeyOf[i] = KeyOf[j] /\ runRows[i] # "none"
    <3>1. /\ runStage' = [runStage EXCEPT ![j] = "created"]
          /\ runRows' = [runRows EXCEPT ![j] = "queued"]
          /\ seasonRows' = [seasonRows EXCEPT ![j] = [s \in SeasonsOf[j] |-> "queued"]]
          /\ UNCHANGED <<active, left, changes, noticeServer>>
          /\ runStage[j] = "creating"
        BY <1>2, <2>2 DEF InsertRun
    <3>2. NoticeTypes'
      <4>1. [s \in SeasonsOf[j] |-> "queued"] \in [SeasonsOf[j] -> SeasonStatus]
          BY DEF SeasonStatus
      <4>2. runRows' \in [NoticeJob -> RunStatus] /\ runStage' \in [NoticeJob -> RunStage]
          BY <3>1 DEF RunStatus, RunOpen, RunStage
      <4> QED BY <3>1, <4>1, <4>2, SeasonsRetyped
    <3>3. SeasonsAreApart' /\ DownRunsNothing'
        BY <3>1 DEF SeasonsAreApart, DownRunsNothing
    <3>4. RunSound(j)'
        BY <3>1, OpenTellsNothing DEF RunSound, Running, Loop, RunOpen
    <3>5. ASSUME NEW i \in NoticeJob, i # j PROVE RunSound(i)'
        BY <3>1, <3>5, RunUntouched
    <3> QED BY <3>2, <3>3, <3>4, <3>5
  <2> QED BY <2>1, <2>2
<1>3. CASE LaunchRun(j)
  <2>1. CASE SeasonsOf[j] \cap ActiveSeasons # {}
    <3>1. NoticeTypes' /\ SeasonsAreApart' /\ DownRunsNothing'
        BY <1>3, <2>1 DEF LaunchRun, SeasonsAreApart, DownRunsNothing, RunStage, noticeRows
    <3>2. RunSound(j)'
        BY <1>3, <2>1, EndKept DEF LaunchRun, RunSound, Running, Loop, noticeRows
    <3>3. ASSUME NEW i \in NoticeJob, i # j PROVE RunSound(i)'
        BY <1>3, <2>1, <3>3, RunUntouched DEF LaunchRun, noticeRows
    <3> QED BY <3>1, <3>2, <3>3
  <2>2. CASE SeasonsOf[j] \cap ActiveSeasons = {}
    <3>1. /\ runStage' = [runStage EXCEPT ![j] = "starting"]
          /\ active' = [active EXCEPT ![j] = SeasonsOf[j]]
          /\ left' = [left EXCEPT ![j] = SeasonsOf[j]]
          /\ changes' = [changes EXCEPT ![j] = FALSE]
          /\ UNCHANGED <<runRows, seasonRows, noticeServer>>
          /\ runStage[j] = "created"
        BY <1>3, <2>2 DEF LaunchRun, noticeRows
    <3>2. NoticeTypes'
        BY <3>1, NoticeJobAssumption DEF RunStage, Running
    <3>3. SeasonsAreApart'
        BY <2>2, <3>1 DEF SeasonsAreApart, ActiveSeasons
    <3>4. DownRunsNothing'
        BY <3>1 DEF DownRunsNothing
    <3>5. RunSound(j)'
        BY <3>1, EndKept DEF RunSound, LoopSound, HasImported, Running, Loop
    <3>6. ASSUME NEW i \in NoticeJob, i # j PROVE RunSound(i)'
        BY <3>1, <3>6, RunUntouched
    <3> QED BY <3>2, <3>3, <3>4, <3>5, <3>6
  <2> QED BY <2>1, <2>2
<1> QED BY <1>1, <1>2, <1>3

\* The steps of run().
LEMMA RunningSound ==
    ASSUME RunsInv, NEW j \in NoticeJob,
           StartRun(j) \/ NextSeason(j) \/ ImportRun(j) \/ AssessRun(j) \/ ThrowRun(j)
    PROVE  RunsInv'
<1> USE DEF RunsInv, NoticeTypes
<1>0. RunSound(j) /\ left[j] \subseteq NoticeSeason OBVIOUS
<1>1. CASE StartRun(j)
  <2>1. NoticeTypes' /\ SeasonsAreApart' /\ DownRunsNothing'
      BY <1>1 DEF StartRun, SeasonsAreApart, DownRunsNothing, RunOpen, RunStatus, RunStage, Running
  <2>2. RunSound(j)'
      BY <1>0, <1>1, OpenTellsNothing DEF StartRun, RunSound, LoopSound, HasImported, Running, Loop, RunOpen, Next1
  <2>3. ASSUME NEW i \in NoticeJob, i # j PROVE RunSound(i)'
      BY <1>1, <2>3, RunUntouched DEF StartRun
  <2> QED BY <2>1, <2>2, <2>3
<1>2. CASE NextSeason(j)
  <2>1. CASE left[j] = {} \/ j \in stopped
    <3>1. NoticeTypes' /\ SeasonsAreApart' /\ DownRunsNothing'
        BY <1>2, <2>1 DEF NextSeason, SeasonsAreApart, DownRunsNothing, RunStage, Running
    <3>2. RunSound(j)'
        BY <1>0, <1>2, <2>1, EndKept DEF NextSeason, RunSound, LoopSound, HasImported, Running, Loop
    <3>3. ASSUME NEW i \in NoticeJob, i # j PROVE RunSound(i)'
        BY <1>2, <2>1, <3>3, RunUntouched DEF NextSeason
    <3> QED BY <3>1, <3>2, <3>3
  <2>2. CASE ~ (left[j] = {} \/ j \in stopped)
    <3>1. /\ runStage' = [runStage EXCEPT ![j] = "collecting"]
          /\ seasonRows' = [seasonRows EXCEPT ![j][Next1(j)] = "running"]
          /\ UNCHANGED <<runRows, active, left, changes, noticeServer>>
          /\ runStage[j] = "step" /\ left[j] # {}
        BY <1>2, <2>2 DEF NextSeason
    <3>2. LoopSound(j)
        BY <1>0, <3>1 DEF RunSound, Loop
    <3>3. Next1(j) \in left[j] /\ Next1(j)' = Next1(j) /\ Next1(j) \in SeasonsOf[j]
        BY <1>0, <3>1, <3>2, NextIsLeft DEF Next1, LoopSound
    <3>5. /\ NoticeTypes'
          /\ seasonRows'[j][Next1(j)] = "running"
          /\ \A s \in SeasonsOf[j] \ {Next1(j)} : seasonRows'[j][s] = seasonRows[j][s]
          /\ \A i \in NoticeJob \ {j} : seasonRows'[i] = seasonRows[i]
      <4> DEFINE new == [seasonRows[j] EXCEPT ![Next1(j)] = "running"]
      <4>1. seasonRows' = [seasonRows EXCEPT ![j] = new]
          BY <3>1
      <4>2. runStage' \in [NoticeJob -> RunStage]
          BY <3>1 DEF RunStage, Running
      <4>3. new \in [SeasonsOf[j] -> SeasonStatus]
          BY DEF SeasonStatus
      <4>4. new[Next1(j)] = "running" /\ \A s \in SeasonsOf[j] \ {Next1(j)} : new[s] = seasonRows[j][s]
          BY <3>3
      <4> HIDE DEF new
      <4> QED BY <3>1, <4>1, <4>2, <4>3, <4>4, SeasonsRetyped
    <3>6. SeasonsAreApart' /\ DownRunsNothing'
        BY <3>1 DEF SeasonsAreApart, DownRunsNothing
    <3>7. LoopSound(j)'
        BY <3>1, <3>2, <3>3, <3>5 DEF LoopSound, HasImported
    <3>8. RunSound(j)'
        BY <1>0, <3>1, <3>3, <3>5, <3>7, OpenTellsNothing DEF RunSound, Running, Loop, RunOpen
    <3>9. ASSUME NEW i \in NoticeJob, i # j PROVE RunSound(i)'
        BY <3>1, <3>5, <3>9, RunUntouched
    <3> QED BY <3>5, <3>6, <3>8, <3>9
  <2> QED BY <2>1, <2>2
<1>3. CASE ImportRun(j)
  <2>1. PICK changed \in BOOLEAN :
            /\ seasonRows' = [seasonRows EXCEPT ![j][Next1(j)] = IF changed THEN "succeeded" ELSE "no_change"]
            /\ changes' = [changes EXCEPT ![j] = @ \/ changed]
            /\ \/ runStage' = [runStage EXCEPT ![j] = "assessing"] /\ UNCHANGED left
               \/ /\ runStage' = [runStage EXCEPT ![j] = "step"]
                  /\ left' = [left EXCEPT ![j] = @ \ {Next1(j)}]
      BY <1>3 DEF ImportRun
  <2>2. runStage[j] = "collecting" /\ UNCHANGED <<runRows, active, noticeServer>>
      BY <1>3 DEF ImportRun
  <2>3. LoopSound(j)
      BY <1>0, <2>2 DEF RunSound, Loop
  <2>4. Next1(j) \in left[j] /\ Next1(j) \in SeasonsOf[j]
      BY <1>0, <2>2, <2>3, NextIsLeft DEF LoopSound
  <2>5. /\ seasonRows' \in [NoticeJob -> AnySeasons]
        /\ \A i \in NoticeJob : seasonRows'[i] \in [SeasonsOf[i] -> SeasonStatus]
        /\ seasonRows'[j][Next1(j)] = IF changed THEN "succeeded" ELSE "no_change"
        /\ \A s \in SeasonsOf[j] \ {Next1(j)} : seasonRows'[j][s] = seasonRows[j][s]
        /\ \A i \in NoticeJob \ {j} : seasonRows'[i] = seasonRows[i]
    <3> DEFINE new == [seasonRows[j] EXCEPT ![Next1(j)] = IF changed THEN "succeeded" ELSE "no_change"]
    <3>1. new \in [SeasonsOf[j] -> SeasonStatus]
        BY DEF SeasonStatus, SeasonEnded
    <3>2. seasonRows' = [seasonRows EXCEPT ![j] = new]
        BY <2>1
    <3>3. /\ new[Next1(j)] = IF changed THEN "succeeded" ELSE "no_change"
          /\ \A s \in SeasonsOf[j] \ {Next1(j)} : new[s] = seasonRows[j][s]
        BY <2>4
    <3> HIDE DEF new
    <3> QED BY <3>1, <3>2, <3>3, SeasonsRetyped
  <2>6. NoticeTypes'
    <3>1. runStage' \in [NoticeJob -> RunStage] /\ left' \in [NoticeJob -> SUBSET NoticeSeason]
        BY <2>1 DEF Running, RunStage
    <3>2. changes' \in [NoticeJob -> BOOLEAN]
        BY <2>1
    <3> QED BY <2>2, <2>5, <3>1, <3>2
  <2>7. SeasonsAreApart' /\ DownRunsNothing'
      BY <2>1, <2>2 DEF SeasonsAreApart, DownRunsNothing
  <2>8. seasonRows[j][Next1(j)] = "running"
      BY <2>2, <2>3 DEF LoopSound
  <2>9. changes'[j] <=> HasImported(j)'
    <3>1. changes'[j] <=> (changes[j] \/ changed)
        BY <2>1
    <3>2. changes[j] <=> \E s \in SeasonsOf[j] \ {Next1(j)} : seasonRows[j][s] = "succeeded"
        BY <2>3, <2>8 DEF LoopSound, HasImported
    <3>3. HasImported(j)' <=> \/ changed
                              \/ \E s \in SeasonsOf[j] \ {Next1(j)} : seasonRows[j][s] = "succeeded"
        BY <2>4, <2>5 DEF HasImported
    <3> QED BY <3>1, <3>2, <3>3
  <2>10. LoopSound(j)'
    <3>1. CASE runStage' = [runStage EXCEPT ![j] = "assessing"] /\ UNCHANGED left
      <4>1. runStage'[j] = "assessing" /\ left'[j] = left[j] /\ Next1(j)' = Next1(j)
          BY <3>1 DEF Next1
      <4> QED BY <2>2, <2>3, <2>4, <2>5, <2>9, <4>1 DEF LoopSound
    <3>2. CASE /\ runStage' = [runStage EXCEPT ![j] = "step"]
               /\ left' = [left EXCEPT ![j] = @ \ {Next1(j)}]
      <4>1. runStage'[j] = "step" /\ left'[j] = left[j] \ {Next1(j)}
          BY <3>2
      <4> QED BY <2>2, <2>3, <2>4, <2>5, <2>9, <4>1 DEF LoopSound, SeasonEnded
    <3> QED BY <2>1, <3>1, <3>2
  <2>11. runStage'[j] \in {"assessing", "step"}
      BY <2>1
  <2>12. RunSound(j)'
    <3>1. runRows'[j] \in RunOpen /\ \A s \in SeasonsOf[j] : seasonRows[j][s] # "none"
        BY <1>0, <2>2 DEF RunSound, Running, RunOpen
    <3>2. \A s \in SeasonsOf[j] : seasonRows'[j][s] # "none"
        BY <2>5, <3>1
    <3> QED BY <2>10, <2>11, <3>1, <3>2, OpenTellsNothing DEF RunSound, RunOpen
  <2>13. ASSUME NEW i \in NoticeJob, i # j PROVE RunSound(i)'
      BY <2>1, <2>2, <2>5, <2>13, RunUntouched
  <2> QED BY <2>6, <2>7, <2>12, <2>13
<1>4. CASE AssessRun(j)
  <2>1. /\ left' = [left EXCEPT ![j] = @ \ {Next1(j)}]
        /\ runStage' = [runStage EXCEPT ![j] = "step"]
        /\ UNCHANGED <<runRows, seasonRows, active, changes, noticeServer>>
        /\ runStage[j] = "assessing"
      BY <1>4 DEF AssessRun
  <2>2. LoopSound(j)
      BY <1>0, <2>1 DEF RunSound, Loop
  <2>3. NoticeTypes' /\ SeasonsAreApart' /\ DownRunsNothing'
      BY <2>1 DEF SeasonsAreApart, DownRunsNothing, RunStage, Running
  <2>4. LoopSound(j)'
      BY <2>1, <2>2 DEF LoopSound, HasImported, SeasonEnded
  <2>5. RunSound(j)'
      BY <1>0, <2>1, <2>4, EndKept DEF RunSound, Running, Loop
  <2>6. ASSUME NEW i \in NoticeJob, i # j PROVE RunSound(i)'
      BY <2>1, <2>6, RunUntouched
  <2> QED BY <2>3, <2>5, <2>6
<1>5. CASE ThrowRun(j)
  <2>1. NoticeTypes' /\ SeasonsAreApart' /\ DownRunsNothing'
      BY <1>5 DEF ThrowRun, SeasonsAreApart, DownRunsNothing, RunStage, Running, noticeRows
  <2>2. RunSound(j)'
      BY <1>0, <1>5, EndKept DEF ThrowRun, RunSound, Running, Loop, noticeRows
  <2>3. ASSUME NEW i \in NoticeJob, i # j PROVE RunSound(i)'
      BY <1>5, <2>3, RunUntouched DEF ThrowRun, noticeRows
  <2> QED BY <2>1, <2>2, <2>3
<1> QED BY <1>1, <1>2, <1>3, <1>4, <1>5

\* The ends of run().
LEMMA EndingSound ==
    ASSUME RunsInv, NEW j \in NoticeJob, EndRun(j) \/ CatchRun(j) \/ FailRun(j)
    PROVE  RunsInv'
<1> USE DEF RunsInv, NoticeTypes
<1>0. RunSound(j) OBVIOUS
<1>1. CASE EndRun(j)
  <2>1. /\ runRows' = [runRows EXCEPT ![j] = IF changes[j] THEN "succeeded" ELSE "no_change"]
        /\ runStage' = [runStage EXCEPT ![j] = "none"]
        /\ active' = [active EXCEPT ![j] = {}]
        /\ UNCHANGED <<seasonRows, left, changes, noticeServer>>
        /\ runStage[j] = "ending"
      BY <1>1 DEF EndRun, Released
  <2>2. LoopSound(j)
      BY <1>0, <2>1 DEF RunSound, Loop
  <2>3. NoticeTypes'
      BY <2>1 DEF RunEnded, RunStatus, RunStage
  <2>4. SeasonsAreApart' /\ DownRunsNothing'
      BY <2>1 DEF SeasonsAreApart, DownRunsNothing
  <2>5. /\ \A s \in SeasonsOf[j] : seasonRows[j][s] \in SeasonEnded
        /\ changes[j] <=> HasImported(j)
      BY <2>1, <2>2 DEF LoopSound
  <2>6. SeasonsOf[j] # {}
      BY NoticeJobAssumption
  <2>7. EndIsTold(j)'
      BY <2>1, <2>5, <2>6, EndReached DEF HasImported
  <2>8. RunSound(j)'
      BY <1>0, <2>1, <2>5, <2>7 DEF RunSound, Running, Loop, SeasonEnded
  <2>9. ASSUME NEW i \in NoticeJob, i # j PROVE RunSound(i)'
      BY <2>1, <2>9, RunUntouched
  <2> QED BY <2>3, <2>4, <2>8, <2>9
<1>2. CASE CatchRun(j)
  <2>1. /\ seasonRows' = [seasonRows EXCEPT ![j] =
                             [s \in SeasonsOf[j] |-> IF s \in CurrentSeasons(j) THEN "failed" ELSE @[s]]]
        /\ runStage' = [runStage EXCEPT ![j] = IF j \in stopped THEN "cancelled" ELSE "failing"]
        /\ UNCHANGED <<runRows, active, left, changes, noticeServer>>
        /\ runStage[j] = "catching"
      BY <1>2 DEF CatchRun
  <2>2. /\ \A s \in SeasonsOf[j] : seasonRows'[j][s] \in {"failed", seasonRows[j][s]}
        /\ \A i \in NoticeJob \ {j} : seasonRows'[i] = seasonRows[i]
        /\ NoticeTypes'
    <3> DEFINE new == [s \in SeasonsOf[j] |-> IF s \in CurrentSeasons(j) THEN "failed" ELSE seasonRows[j][s]]
    <3>1. seasonRows' = [seasonRows EXCEPT ![j] = new]
        BY <2>1
    <3>2. new \in [SeasonsOf[j] -> SeasonStatus] /\ \A s \in SeasonsOf[j] : new[s] \in {"failed", seasonRows[j][s]}
        BY DEF SeasonStatus, SeasonEnded
    <3>3. runStage' \in [NoticeJob -> RunStage]
        BY <2>1 DEF RunStage, Running
    <3> HIDE DEF new
    <3> QED BY <2>1, <3>1, <3>2, <3>3, SeasonsRetyped
  <2>3. NoticeTypes'
      BY <2>2
  <2>4. SeasonsAreApart' /\ DownRunsNothing'
      BY <2>1 DEF SeasonsAreApart, DownRunsNothing
  <2>5. runRows[j] \in RunOpen
      BY <1>0, <2>1 DEF RunSound, Running
  <2>6. RunSound(j)'
      BY <1>0, <2>1, <2>2, <2>5, OpenTellsNothing DEF RunSound, Running, Loop, RunOpen
  <2>7. ASSUME NEW i \in NoticeJob, i # j PROVE RunSound(i)'
      BY <2>1, <2>2, <2>7, RunUntouched
  <2> QED BY <2>3, <2>4, <2>6, <2>7
<1>3. CASE FailRun(j)
  <2>1. /\ runRows' = [runRows EXCEPT ![j] = IF runStage[j] = "failing" THEN "failed" ELSE "cancelled"]
        /\ runStage' = [runStage EXCEPT ![j] = "none"]
        /\ active' = [active EXCEPT ![j] = {}]
        /\ UNCHANGED <<seasonRows, left, changes, noticeServer>>
        /\ runStage[j] \in {"failing", "cancelled"}
      BY <1>3 DEF FailRun, Released
  <2>2. NoticeTypes'
      BY <2>1 DEF RunEnded, RunStatus, RunStage
  <2>3. SeasonsAreApart' /\ DownRunsNothing'
      BY <2>1 DEF SeasonsAreApart, DownRunsNothing
  <2>4. RunSound(j)'
      BY <1>0, <2>1, OpenTellsNothing DEF RunSound, Running, Loop, RunOpen
  <2>5. ASSUME NEW i \in NoticeJob, i # j PROVE RunSound(i)'
      BY <2>1, <2>5, RunUntouched
  <2> QED BY <2>2, <2>3, <2>4, <2>5
<1> QED BY <1>1, <1>2, <1>3

\* cancel() and close().
LEMMA CancellingSound ==
    ASSUME RunsInv, NEW j \in NoticeJob, CancelRun(j) \/ MarkCancelled(j) \/ AbortRun(j)
    PROVE  RunsInv'
<1> USE DEF RunsInv, NoticeTypes
<1>0. RunSound(j) OBVIOUS
<1>1. CASE CancelRun(j) \/ AbortRun(j)
  <2>1. UNCHANGED <<runRows, seasonRows, runStage, active, left, changes, noticeServer>>
      BY <1>1 DEF CancelRun, AbortRun, noticeRows
  <2>2. NoticeTypes' /\ SeasonsAreApart' /\ DownRunsNothing'
      BY <2>1 DEF SeasonsAreApart, DownRunsNothing
  <2>3. ASSUME NEW i \in NoticeJob PROVE RunSound(i)'
      BY <2>1, RunUntouched
  <2> QED BY <2>2, <2>3
<1>2. CASE MarkCancelled(j)
  <2>1. /\ runRows' = [runRows EXCEPT ![j] = IF MayBeCancelled(@) THEN "cancelling" ELSE @]
        /\ UNCHANGED <<seasonRows, runStage, active, left, changes, noticeServer>>
      BY <1>2 DEF MarkCancelled
  <2>2. NoticeTypes'
      BY <2>1 DEF RunOpen, RunStatus
  <2>3. SeasonsAreApart' /\ DownRunsNothing'
      BY <2>1 DEF SeasonsAreApart, DownRunsNothing
  <2>4. RunSound(j)'
      BY <1>0, <2>1, EndKept, OpenTellsNothing DEF RunSound, LoopSound, HasImported, RunOpen, MayBeCancelled, Next1
  <2>5. ASSUME NEW i \in NoticeJob, i # j PROVE RunSound(i)'
      BY <2>1, <2>5, RunUntouched
  <2> QED BY <2>2, <2>3, <2>4, <2>5
<1> QED BY <1>1, <1>2

\* A crash keeps the rows.
LEMMA CrashSound ==
    ASSUME RunsInv, CrashRuns
    PROVE  RunsInv'
<1> USE DEF RunsInv, NoticeTypes
<1>1. /\ runStage' = [j \in NoticeJob |-> "none"]
      /\ active' = [j \in NoticeJob |-> {}] /\ left' = active'
      /\ changes' = [j \in NoticeJob |-> FALSE]
      /\ UNCHANGED <<runRows, seasonRows>>
    BY DEF CrashRuns, noticeRows
<1>2. NoticeTypes'
    BY <1>1 DEF RunStage
<1>3. SeasonsAreApart' /\ DownRunsNothing'
    BY <1>1 DEF SeasonsAreApart, DownRunsNothing
<1>4. ASSUME NEW j \in NoticeJob PROVE RunSound(j)'
    BY <1>1, EndKept DEF RunSound, Running, Loop
<1> QED BY <1>2, <1>3, <1>4

\* What start() makes of the rows, and the runs it launches.
LEMMA RestartSound ==
    ASSUME RunsInv, RestartRuns
    PROVE  RunsInv'
<1> USE DEF RunsInv, NoticeTypes
<1> DEFINE EndsAs(j) == CASE j \in Interrupted \ Resumed -> IF HasImported(j) THEN "succeeded" ELSE "no_change"
                          [] runRows[j] = "cancelling" -> "cancelled"
                          [] OTHER -> runRows[j]
           GoesOnAs(j, s) == IF j \in Interrupted /\ seasonRows[j][s] = "running" THEN "queued"
                           ELSE seasonRows[j][s]
<1>1. /\ runRows' = [j \in NoticeJob |-> EndsAs(j)]
      /\ seasonRows' = [j \in NoticeJob |-> [s \in SeasonsOf[j] |-> GoesOnAs(j, s)]]
      /\ noticeServer' # "down"
      /\ \A j \in NoticeJob : runStage[j] = "none"
    BY DEF RestartRuns, DownRunsNothing
<1>2. ASSUME NEW j \in NoticeJob
      PROVE  /\ runRows'[j] = EndsAs(j)
             /\ \A s \in SeasonsOf[j] : seasonRows'[j][s] = GoesOnAs(j, s)
    BY <1>1
<1>3. ASSUME NEW j \in NoticeJob
      PROVE  /\ j \in Interrupted <=> runRows[j] \in {"queued", "running"}
             /\ j \in Resumed <=> j \in Interrupted /\ SeasonsLeft(j) # {}
    BY DEF Interrupted, Resumed
<1>4. ASSUME NEW j \in NoticeJob
      PROVE  EndsAs(j) \in RunStatus
    BY <1>3 DEF RunStatus, RunOpen, RunEnded
<1>5. ASSUME NEW j \in NoticeJob, NEW s \in SeasonsOf[j]
      PROVE  /\ GoesOnAs(j, s) \in SeasonStatus
             /\ GoesOnAs(j, s) = "none" => seasonRows[j][s] = "none"
    BY DEF SeasonStatus
<1>9. /\ runRows' \in [NoticeJob -> RunStatus]
      /\ seasonRows' \in [NoticeJob -> AnySeasons]
      /\ \A j \in NoticeJob : seasonRows'[j] \in [SeasonsOf[j] -> SeasonStatus]
  <2> HIDE DEF EndsAs, GoesOnAs
  <2>1. runRows' \in [NoticeJob -> RunStatus]
      BY <1>1, <1>4
  <2>2. \A j \in NoticeJob : seasonRows'[j] \in [SeasonsOf[j] -> SeasonStatus]
      BY <1>1, <1>5
  <2>3. seasonRows' \in [NoticeJob -> AnySeasons]
      BY <1>1, <2>2 DEF AnySeasons
  <2> QED BY <2>1, <2>2, <2>3
<1>6. ASSUME NEW j \in NoticeJob
      PROVE  /\ runRows'[j] # "none" => \A s \in SeasonsOf[j] : seasonRows'[j][s] # "none"
             /\ EndIsTold(j)'
  <2>1. RunSound(j) OBVIOUS
  <2>2. runRows'[j] # "none" => \A s \in SeasonsOf[j] : seasonRows'[j][s] # "none"
    <3> HIDE DEF EndsAs, GoesOnAs
    <3> SUFFICES ASSUME runRows'[j] # "none", NEW s \in SeasonsOf[j] PROVE seasonRows'[j][s] # "none"
        OBVIOUS
    <3>1. runRows[j] # "none"
      <4>1. EndsAs(j) # "none"
          BY <1>2
      <4>2. EndsAs(j) = "none" \/ runRows[j] # "none"
        <5> USE DEF EndsAs
        <5> QED BY <1>3
      <4> QED BY <4>1, <4>2
    <3>2. seasonRows[j][s] # "none"
        BY <2>1, <3>1 DEF RunSound
    <3> QED BY <1>2, <1>5, <3>2
  <2>3. CASE j \in Interrupted \ Resumed
    <3>1. \A s \in SeasonsOf[j] : seasonRows[j][s] \in SeasonEnded
      <4> SUFFICES ASSUME NEW s \in SeasonsOf[j] PROVE seasonRows[j][s] \in SeasonEnded
          OBVIOUS
      <4>1. seasonRows[j][s] # "none"
          BY <1>3, <2>1, <2>3 DEF RunSound
      <4>2. s \notin SeasonsLeft(j)
          BY <1>3, <2>3
      <4> QED BY <4>1, <4>2 DEF SeasonsLeft, SeasonStatus
    <3>2. \A s \in SeasonsOf[j] : seasonRows'[j][s] = seasonRows[j][s]
        BY <1>2, <3>1 DEF SeasonEnded
    <3>3. runRows'[j] = IF HasImported(j) THEN "succeeded" ELSE "no_change"
      <4>1. EndsAs(j) = IF HasImported(j) THEN "succeeded" ELSE "no_change"
          BY <1>3, <2>3
      <4> HIDE DEF EndsAs
      <4> QED BY <1>2, <4>1
    <3>4. SeasonsOf[j] # {}
        BY NoticeJobAssumption
    <3>5. HasImported(j)' <=> HasImported(j)
        BY <3>2 DEF HasImported
    <3> QED BY <2>2, <3>1, <3>2, <3>3, <3>4, <3>5, EndReached
  <2>4. CASE j \notin Interrupted \ Resumed
    <3>1. runRows'[j] \in {"no_change", "succeeded"} => runRows'[j] = runRows[j] /\ j \notin Interrupted
        BY <1>2, <1>3, <2>4
    <3>2. j \notin Interrupted => \A s \in SeasonsOf[j] : seasonRows'[j][s] = seasonRows[j][s]
        BY <1>2
    <3> QED BY <2>1, <2>2, <3>1, <3>2, EndKept, OpenTellsNothing DEF RunSound
  <2> QED BY <2>3, <2>4
<1>7. CASE UNCHANGED <<runStage, active, left, changes>>
  <2>1. NoticeTypes'
      BY <1>9, <1>7
  <2>2. SeasonsAreApart' /\ DownRunsNothing'
      BY <1>1, <1>7 DEF SeasonsAreApart, DownRunsNothing
  <2>3. ASSUME NEW j \in NoticeJob PROVE RunSound(j)'
      BY <1>1, <1>6, <1>7 DEF RunSound, Running, Loop
  <2> QED BY <2>1, <2>2, <2>3
<1>8. CASE ~ UNCHANGED <<runStage, active, left, changes>>
  <2>1. /\ runStage' = [j \in NoticeJob |-> IF j \in Resumed THEN "starting" ELSE "none"]
        /\ active' = [j \in NoticeJob |-> IF j \in Resumed THEN SeasonsLeft(j) ELSE {}]
        /\ left' = active'
        /\ changes' = [j \in NoticeJob |-> j \in Resumed /\ HadChanges(j)]
        /\ \A i, j \in Resumed : i # j => SeasonsLeft(i) \cap SeasonsLeft(j) = {}
      BY <1>8 DEF RestartRuns
  <2>2. \A j \in NoticeJob : SeasonsLeft(j) \subseteq NoticeSeason /\ SeasonsLeft(j) \subseteq SeasonsOf[j]
      BY NoticeJobAssumption DEF SeasonsLeft
  <2>3. NoticeTypes'
    <3>1. /\ runStage' \in [NoticeJob -> RunStage]
          /\ changes' \in [NoticeJob -> BOOLEAN]
        BY <2>1 DEF RunStage, Running, HadChanges, HasImported
    <3>2. active' \in [NoticeJob -> SUBSET NoticeSeason]
        BY <2>1, <2>2
    <3> QED BY <1>9, <2>1, <3>1, <3>2
  <2>4. SeasonsAreApart'
      BY <2>1 DEF SeasonsAreApart
  <2>5. DownRunsNothing'
      BY <1>1 DEF DownRunsNothing
  <2>6. ASSUME NEW j \in NoticeJob PROVE RunSound(j)'
    <3>1. CASE j \in Resumed
      <4>1. /\ runStage'[j] = "starting" /\ left'[j] = SeasonsLeft(j)
            /\ changes'[j] <=> HasImported(j)
          BY <2>1, <3>1 DEF HadChanges
      <4>2. runRows[j] \in {"queued", "running"} /\ runRows'[j] = runRows[j]
          BY <1>2, <1>3, <3>1
      <4>3. \A s \in SeasonsOf[j] :
              /\ seasonRows[j][s] \in {"queued", "running"} => seasonRows'[j][s] = "queued"
              /\ seasonRows[j][s] \notin {"queued", "running"} => seasonRows'[j][s] = seasonRows[j][s]
          BY <1>2, <1>3, <3>1
      <4>4. \A s \in SeasonsOf[j] : seasonRows[j][s] # "none"
          BY <4>2 DEF RunSound
      <4>5. changes'[j] <=> HasImported(j)'
          BY <4>1, <4>3 DEF HasImported
      <4>6. LoopSound(j)'
        <5>1. \A s \in SeasonsOf[j] :
                IF s \in left'[j] THEN seasonRows'[j][s] = "queued" ELSE seasonRows'[j][s] \in SeasonEnded
          <6> SUFFICES ASSUME NEW s \in SeasonsOf[j]
                       PROVE  IF s \in left'[j] THEN seasonRows'[j][s] = "queued"
                              ELSE seasonRows'[j][s] \in SeasonEnded
              OBVIOUS
          <6>1. s \in left'[j] <=> seasonRows[j][s] \in {"queued", "running"}
              BY <4>1 DEF SeasonsLeft
          <6>2. seasonRows[j][s] \in SeasonStatus /\ seasonRows[j][s] # "none"
              BY <4>4
          <6> QED BY <4>3, <6>1, <6>2 DEF SeasonStatus
        <5>2. left'[j] \subseteq SeasonsOf[j]
            BY <2>2, <4>1
        <5> QED BY <4>1, <4>5, <5>1, <5>2 DEF LoopSound
      <4> QED BY <1>6, <4>1, <4>2, <4>6 DEF RunSound, RunOpen
    <3>2. CASE j \notin Resumed
      <4>1. runStage'[j] = "none"
          BY <2>1, <3>2
      <4> QED BY <1>6, <4>1 DEF RunSound, Running, Loop
    <3> QED BY <3>1, <3>2
  <2> QED BY <2>3, <2>4, <2>5, <2>6
<1> QED BY <1>7, <1>8

\* Where the jobs begin.
LEMMA RunsInitially == NoticeJobsInit => RunsInv
<1> SUFFICES ASSUME NoticeJobsInit PROVE RunsInv
    OBVIOUS
<1>1. NoticeTypes
  <2>1. \A j \in NoticeJob : seasonRows[j] \in [SeasonsOf[j] -> SeasonStatus]
      BY DEF NoticeJobsInit, SeasonStatus
  <2>2. seasonRows \in [NoticeJob -> AnySeasons]
      BY <2>1 DEF NoticeJobsInit, AnySeasons
  <2> QED BY <2>1, <2>2 DEF NoticeJobsInit, NoticeTypes, RunStatus, RunStage
<1>3. SeasonsAreApart /\ DownRunsNothing
    BY DEF NoticeJobsInit, SeasonsAreApart, DownRunsNothing
<1>2. ASSUME NEW j \in NoticeJob PROVE RunSound(j)
    BY DEF NoticeJobsInit, RunSound, EndIsTold, Running, Loop
<1> QED BY <1>1, <1>2, <1>3 DEF RunsInv

\* Every step keeps the invariant.
LEMMA RunsStep == RunsInv /\ [NoticeJobsNext]_noticeVars => RunsInv'
<1> SUFFICES ASSUME RunsInv, [NoticeJobsNext]_noticeVars PROVE RunsInv'
    OBVIOUS
<1>1. CASE UNCHANGED <<runRows, seasonRows, runStage, active, left, changes>> /\ noticeServer' # "down"
  <2>1. NoticeTypes' /\ SeasonsAreApart' /\ DownRunsNothing'
      BY <1>1 DEF RunsInv, NoticeTypes, SeasonsAreApart, DownRunsNothing
  <2>2. ASSUME NEW j \in NoticeJob PROVE RunSound(j)'
      BY <1>1, RunUntouched DEF RunsInv
  <2> QED BY <2>1, <2>2 DEF RunsInv
<1>2. CASE UNCHANGED noticeVars
  <2>1. NoticeTypes' /\ SeasonsAreApart' /\ DownRunsNothing'
      BY <1>2 DEF RunsInv, NoticeTypes, SeasonsAreApart, DownRunsNothing, noticeVars, noticeRows, noticeLocals
  <2>2. ASSUME NEW j \in NoticeJob PROVE RunSound(j)'
      BY <1>2, RunUntouched DEF RunsInv, noticeVars, noticeRows, noticeLocals
  <2> QED BY <2>1, <2>2 DEF RunsInv
<1>3. CASE CloseRuns \/ RunsClosed
    BY <1>1, <1>3 DEF CloseRuns, RunsClosed, noticeRows, noticeLocals
<1>4. CASE \E j \in NoticeJob :
              \/ CreateRun(j) \/ InsertRun(j) \/ LaunchRun(j) \/ StartRun(j) \/ NextSeason(j)
              \/ ImportRun(j) \/ AssessRun(j) \/ EndRun(j) \/ ThrowRun(j) \/ CatchRun(j) \/ FailRun(j)
              \/ CancelRun(j) \/ MarkCancelled(j) \/ AbortRun(j)
    BY <1>4, CreatingSound, RunningSound, EndingSound, CancellingSound
<1>5. CASE CrashRuns
    BY <1>5, CrashSound
<1>6. CASE RestartRuns
    BY <1>6, RestartSound
<1> QED BY <1>2, <1>3, <1>4, <1>5, <1>6 DEF NoticeJobsNext

\* So it holds of every job.
LEMMA RunsInvariance == NoticeJobsSpec => []RunsInv
<1> QED BY RunsInitially, RunsStep, PTL DEF NoticeJobsSpec

\* Two jobs never collect one season at once, and the status a job of record
\* corrections ends with says what became of its seasons, also when it was
\* interrupted, cancelled or resumed in between (record-correction-job-manager.ts).
THEOREM NoticesTold == NoticeJobsSpec => []NoticeJobsAreTold
<1>1. RunsInv => NoticeJobsAreTold
    BY DEF RunsInv, NoticeJobsAreTold, RunSound
<1> QED BY <1>1, RunsInvariance, PTL

\* No late cancellation, restart or second request changes the row of a job that
\* has ended.
THEOREM EndedStays == NoticeJobsSpec => EndedRunsStay
<1> DEFINE Stays == \A j \in NoticeJob : runRows[j] \in RunEnded => runRows'[j] = runRows[j]
<1>1. RunsInv /\ [NoticeJobsNext]_noticeVars => [Stays]_noticeVars
  <2> SUFFICES ASSUME RunsInv, NoticeJobsNext PROVE Stays
      OBVIOUS
  <2> USE DEF RunsInv, NoticeTypes
  <2>1. CASE runRows' = runRows
      BY <2>1
  <2>2. ASSUME NEW j \in NoticeJob, InsertRun(j) \/ StartRun(j) \/ EndRun(j) \/ FailRun(j) \/ MarkCancelled(j)
        PROVE  Stays
    <3>1. RunSound(j) OBVIOUS
    <3>2. runRows[j] \in RunEnded => runRows'[j] = runRows[j]
        BY <2>2, <3>1 DEF InsertRun, StartRun, EndRun, FailRun, MarkCancelled, MayBeCancelled, RunSound,
                         Running, RunEnded, RunOpen, noticeRows
    <3>3. \A i \in NoticeJob \ {j} : runRows'[i] = runRows[i]
        BY <2>2 DEF InsertRun, StartRun, EndRun, FailRun, MarkCancelled, noticeRows
    <3> QED BY <3>2, <3>3
  <2>3. CASE RestartRuns
    <3>1. ASSUME NEW j \in NoticeJob, runRows[j] \in RunEnded PROVE runRows'[j] = runRows[j]
        BY <2>3, <3>1 DEF RestartRuns, Interrupted, RunEnded
    <3> QED BY <3>1
  <2>4. ASSUME NEW j \in NoticeJob,
               \/ CreateRun(j) \/ LaunchRun(j) \/ NextSeason(j) \/ ImportRun(j) \/ AssessRun(j)
               \/ ThrowRun(j) \/ CatchRun(j) \/ CancelRun(j) \/ AbortRun(j)
        PROVE  runRows' = runRows
      BY <2>4 DEF CreateRun, LaunchRun, NextSeason, ImportRun, AssessRun, ThrowRun, CatchRun, CancelRun,
                  AbortRun, noticeRows
  <2>5. CASE CloseRuns \/ RunsClosed \/ CrashRuns
      BY <2>5 DEF CloseRuns, RunsClosed, CrashRuns, noticeRows
  <2> QED BY <2>1, <2>2, <2>3, <2>4, <2>5 DEF NoticeJobsNext
<1> QED BY <1>1, RunsInvariance, PTL DEF NoticeJobsSpec, EndedRunsStay

-----------------------------------------------------------------------------
(* The migration *)

\* Where a run is: it looks for the lock, holds it up to the manifest it lifts, holds it
\* afterwards, or has come to its end.
Lifting == {"noting", "lifting"}
Writing == {"writing", "journaling", "pointing"}
Archiving == {"archiving", "archivingFindings", "archived"}
Discarding == {"discarding", "discardingFindings"}
Locking == Lifting \cup {"lifted", "preparing"} \cup Writing \cup Archiving \cup Discarding \cup {"unlocking"}
RunSteps == Locking \cup {"idle", "refused", "scanned", "done", "failed", "dead"}

RunState ==
    [step : RunSteps, selected : SUBSET Path, discarded : SUBSET Path,
     upgrade : ManifestEntry \cup {Absent}, content : GameContent \cup {Absent},
     existing : ManifestEntry \cup {Absent}, failed : BOOLEAN]

\* Everything that is on disk, and who has the lock.
MigrationTypes ==
    /\ legacy \subseteq Path \X {"document", "findings"}
    /\ manifest \in ManifestEntry \cup {Absent}
    /\ run \in [Run -> RunState]
    /\ server \in {"off", "recovering", "on"}
    /\ writer \in Run \cup {Absent, "server"}
    /\ writer = "server" <=> server # "off"

\* Once it is not of the first version, a manifest never is again.
NotOld == manifest = Absent \/ manifest.version = 2

\* A run has the lock from one step to the other.
KeepsLock(r) ==
    /\ run[r].step \in Locking => writer = r
    /\ run[r].step = "scanned" => server = "off"

\* What a run knows of the manifest it is to lift, until it has done so.
KnowsUpgrade(r) ==
    /\ run[r].step \in Lifting \cup {"scanned"} /\ run[r].upgrade # Absent =>
          /\ IsIntact(run[r].upgrade)
          /\ manifest # Absent /\ manifest.content = run[r].upgrade.content
    /\ run[r].step \in Lifting \cup {"lifted"} => run[r].upgrade # Absent
    /\ run[r].step = "scanned" /\ run[r].upgrade = Absent => NotOld
    /\ run[r].step \in (Locking \ Lifting) \cup {"done"} => NotOld

\* The file a run has selected and those it discards are all there are, and they get fewer.
KnowsFiles(r) ==
    /\ run[r].step \in Lifting \cup Writing \cup {"scanned", "lifted", "preparing", "archiving"} =>
          /\ Candidates \subseteq run[r].selected \cup run[r].discarded
          /\ run[r].selected = {} => run[r].discarded = {}
    /\ run[r].step \in Lifting \cup Writing \cup Archiving \cup {"scanned", "lifted", "preparing"} =>
          \A p \in run[r].selected : run[r].selected = {p}
    /\ run[r].step \in Writing \cup Archiving \cup {"preparing"} => run[r].selected # {}
    /\ run[r].step \in {"archivingFindings", "archived", "discarding"} => Candidates \subseteq run[r].discarded
    /\ run[r].step = "discardingFindings" =>
          run[r].discarded # {} /\ Candidates \subseteq run[r].discarded \ {NextDiscarded(r)}
    /\ run[r].step = "done" \/ (run[r].step = "unlocking" /\ ~ run[r].failed) => Candidates = {}

\* What a run has read of the file it has selected, and what it makes of it.
KnowsContent(r) ==
    /\ run[r].step \in Writing \cup {"archiving", "archivingFindings"} =>
          /\ run[r].content \in GameContent
          /\ run[r].content.document = LegacyDocument[Chosen(r)]
          /\ <<Chosen(r), "findings">> \in legacy => run[r].content.findings = LegacyFindings[Chosen(r)]
    /\ run[r].step \in Writing => manifest = Absent \/ manifest.content = run[r].content
    /\ run[r].step \in {"journaling", "pointing"} => IsIntact(MigratedEntry(r))

RunHolds(r) == KeepsLock(r) /\ KnowsUpgrade(r) /\ KnowsFiles(r) /\ KnowsContent(r)

\* A journal is there while its run has the lock, or is left by one that died.
UpgradeHolds(j) ==
    /\ j.previous \in ManifestEntry /\ j.target = Lifted(j.previous) /\ j.by \in Run
    /\ \/ run[j.by].step \in {"lifting", "lifted"} /\ j = Upgrade(j.by)
       \/ run[j.by].step = "dead"
TransitionHolds(j) ==
    /\ j.target \in ManifestEntry /\ j.target.version = 2 /\ j.by \in Run
    /\ \/ run[j.by].step \in {"pointing"} \cup Archiving /\ j = Transition(j.by)
       \/ run[j.by].step = "dead"
JournalsHold ==
    /\ \A j \in upgradeJournals : UpgradeHolds(j)
    /\ \A j \in transitionJournals : TransitionHolds(j)
    /\ server = "on" => upgradeJournals = {} /\ transitionJournals = {}

MigrationInv ==
    /\ MigrationTypes /\ JournalsHold
    /\ manifest # Absent => IsIntact(manifest)
    /\ \A r \in Run : RunHolds(r)

\* A file no resolution selects.
LeftOut(p) == p \in Path /\ \A r \in Run : p # Resolution[r]

\* All runs are given the same choice, and the findings of the files it leaves out are told
\* apart by their documents, as the names in the archive are.
OneResolution == \A r, q \in Run : Resolution[r] = Resolution[q]
FindingsTold ==
    \A p, q \in Path : LeftOut(p) /\ LeftOut(q) /\ LegacyDocument[p] = LegacyDocument[q]
                            => LegacyFindings[p] = LegacyFindings[q]

\* The file that is selected: the only one, or the one the resolution names.
Selectable(p) == p \in Candidates /\ (Candidates = {p} \/ \E r \in Run : p = Resolution[r])

\* Nothing is archived before the manifest is there, and until then all that was read of
\* the files, and noted in a journal, is what is in the one to select.
ContentsAgree ==
    /\ \A r \in Run : run[r].step \in Archiving \cup Discarding => manifest # Absent
    /\ \A j \in transitionJournals : manifest # Absent => manifest.content = j.target.content
    /\ manifest = Absent =>
          /\ \A r \in Run : \A p \in run[r].selected : Selectable(p)
          /\ \A r \in Run : run[r].step \in Writing =>
                run[r].content = Holding(Chosen(r), FindingsAt(Chosen(r)))
          /\ \A j \in transitionJournals : \E p \in Path :
                Selectable(p) /\ j.target.content = Holding(p, FindingsAt(p))

\* The name of a file in the archive tells what is in it.
Archived(f) ==
    \/ \E c \in GameContent : f = [name |-> <<"selected", c, "document">>, value |-> c.document]
    \/ \E c \in GameContent : f = [name |-> <<"selected", c, "findings">>, value |-> c.findings]
    \/ \E p \in Path : f = [name |-> <<"discarded", LegacyDocument[p], "document">>, value |-> LegacyDocument[p]]
    \/ \E p \in Path : LeftOut(p)
             /\ f = [name |-> <<"discarded", LegacyDocument[p], "findings">>, value |-> LegacyFindings[p]]
ArchiveTold ==
    /\ \A f \in archive : Archived(f)
    /\ \A r \in Run : \A p \in run[r].discarded : LeftOut(p)

LossInv == MigrationInv /\ ContentsAgree /\ ArchiveTold /\ saves \in Nat

-----------------------------------------------------------------------------
\* The files to be discarded are taken in their order.
LEMMA NextIsDiscarded ==
    ASSUME NEW r \in Run, run[r].discarded \subseteq Path, run[r].discarded # {}
    PROVE  NextDiscarded(r) \in run[r].discarded
<1>1. \E p \in run[r].discarded : \A q \in run[r].discarded : p <= q
    BY Least, MigrationAssumption
<1> QED BY <1>1 DEF NextDiscarded

\* A run writes where it is, and nothing else of what it knows.
LEMMA StepWrites ==
    ASSUME MigrationTypes, NEW r \in Run, NEW to \in RunSteps, run' = [run EXCEPT ![r].step = to]
    PROVE  /\ run' \in [Run -> RunState]
           /\ run'[r].step = to /\ run'[r].selected = run[r].selected /\ run'[r].failed = run[r].failed
           /\ run'[r].discarded = run[r].discarded /\ run'[r].upgrade = run[r].upgrade
           /\ run'[r].content = run[r].content /\ run'[r].existing = run[r].existing
           /\ \A q \in Run \ {r} : run'[q] = run[q]
           /\ Chosen(r)' = Chosen(r) /\ NextDiscarded(r)' = NextDiscarded(r)
           /\ Upgrade(r)' = Upgrade(r) /\ MigratedEntry(r)' = MigratedEntry(r) /\ Transition(r)' = Transition(r)
<1>1. run \in [Run -> RunState]
    BY DEF MigrationTypes
<1>2. /\ run' \in [Run -> RunState]
      /\ run'[r].step = to /\ run'[r].selected = run[r].selected /\ run'[r].failed = run[r].failed
      /\ run'[r].discarded = run[r].discarded /\ run'[r].upgrade = run[r].upgrade
      /\ run'[r].content = run[r].content /\ run'[r].existing = run[r].existing
      /\ \A q \in Run \ {r} : run'[q] = run[q]
    BY <1>1 DEF RunState
<1> QED BY <1>2 DEF Chosen, NextDiscarded, Upgrade, MigratedEntry, Transition

\* What is said of a run that does not move.  While it has the lock, or looks for it,
\* no artifact goes, and nobody else writes the manifest of a game with other content.
LEMMA OthersHold ==
    ASSUME MigrationInv, NEW q \in Run, run'[q] = run[q],
           legacy' \subseteq legacy,
           NotOld => NotOld',
           run[q].step \in Locking => UNCHANGED <<manifest, writer>> /\ artifacts \subseteq artifacts',
           run[q].step = "scanned" =>
               /\ server' = "off" /\ artifacts \subseteq artifacts'
               /\ manifest # Absent => manifest' # Absent /\ manifest'.content = manifest.content
    PROVE  RunHolds(q)'
<1>1. RunHolds(q)
    BY DEF MigrationInv
<1>2. /\ Chosen(q)' = Chosen(q) /\ NextDiscarded(q)' = NextDiscarded(q)
      /\ MigratedEntry(q)' = MigratedEntry(q)
    BY DEF Chosen, NextDiscarded, MigratedEntry
<1>3. Candidates' \subseteq Candidates
    BY DEF Candidates
<1>4. KeepsLock(q)'
    BY <1>1 DEF RunHolds, KeepsLock, Locking, Lifting, Writing, Archiving, Discarding
<1>5. KnowsUpgrade(q)'
    BY <1>1 DEF RunHolds, KnowsUpgrade, IsIntact, Artifact, Locking, Lifting, Writing, Archiving, Discarding
<1>6. KnowsFiles(q)'
    BY <1>1, <1>2, <1>3 DEF RunHolds, KnowsFiles
<1>7. KnowsContent(q)'
    BY <1>1, <1>2 DEF RunHolds, KnowsContent, IsIntact, Artifact, Locking, Lifting, Writing, Archiving, Discarding
<1> QED BY <1>4, <1>5, <1>6, <1>7 DEF RunHolds

\* No two runs have the lock.
LEMMA OneHasLock ==
    ASSUME MigrationInv, NEW r \in Run, writer = r, NEW q \in Run \ {r}
    PROVE  run[q].step \notin Locking
    BY DEF MigrationInv, RunHolds, KeepsLock

\* An artifact is told by its generation and content.
LEMMA ArtifactOfLifted ==
    ASSUME NEW e \in ManifestEntry
    PROVE  /\ Lifted(e) \in ManifestEntry /\ Lifted(e).version = 2 /\ Lifted(e).content = e.content
           /\ Artifact(Lifted(e)) = Artifact(e)
    BY DEF ManifestEntry, Lifted, Artifact

\* What is said of everything else when a run moves.
LEMMA RunMoves ==
    ASSUME MigrationInv, NEW r \in Run,
           run' \in [Run -> RunState], \A q \in Run \ {r} : run'[q] = run[q],
           legacy' \subseteq legacy, artifacts \subseteq artifacts', UNCHANGED server,
           manifest' \in ManifestEntry \cup {Absent}, manifest' # Absent => IsIntact(manifest)',
           manifest # Absent => manifest' # Absent /\ manifest'.content = manifest.content,
           NotOld => NotOld',
           \/ UNCHANGED <<manifest, writer>>
           \/ writer \in {r, Absent} /\ writer' \in {r, Absent},
           RunHolds(r)',
           \A j \in upgradeJournals' : j.by = r => UpgradeHolds(j)',
           \A j \in upgradeJournals' : j.by # r => j \in upgradeJournals,
           \A j \in transitionJournals' : j.by = r => TransitionHolds(j)',
           \A j \in transitionJournals' : j.by # r => j \in transitionJournals,
           server = "on" => UNCHANGED <<upgradeJournals, transitionJournals>>
    PROVE  MigrationInv'
<1>1. MigrationTypes /\ JournalsHold
    BY DEF MigrationInv
<1>2. MigrationTypes'
    BY <1>1, MigrationAssumption DEF MigrationTypes
<1>3. ASSUME NEW q \in Run, q # r PROVE RunHolds(q)'
  <2>1. run[q].step \in Locking => UNCHANGED <<manifest, writer>>
      BY <1>3, MigrationAssumption DEF MigrationInv, RunHolds, KeepsLock
  <2>2. run[q].step = "scanned" => server' = "off"
      BY DEF MigrationInv, RunHolds, KeepsLock
  <2> QED BY <1>3, <2>1, <2>2, OthersHold
<1>4. ASSUME NEW j \in upgradeJournals' PROVE UpgradeHolds(j)'
  <2>1. CASE j.by # r
    <3>1. UpgradeHolds(j)
        BY <1>1, <2>1 DEF JournalsHold
    <3>2. run'[j.by] = run[j.by]
        BY <2>1, <3>1 DEF UpgradeHolds
    <3> QED BY <3>1, <3>2 DEF UpgradeHolds, Upgrade
  <2> QED BY <2>1
<1>5. ASSUME NEW j \in transitionJournals' PROVE TransitionHolds(j)'
  <2>1. CASE j.by # r
    <3>1. TransitionHolds(j)
        BY <1>1, <2>1 DEF JournalsHold
    <3>2. run'[j.by] = run[j.by]
        BY <2>1, <3>1 DEF TransitionHolds
    <3> QED BY <3>1, <3>2 DEF TransitionHolds, Transition, MigratedEntry
  <2> QED BY <2>1
<1>6. JournalsHold'
    BY <1>1, <1>4, <1>5 DEF JournalsHold
<1> QED BY <1>2, <1>3, <1>6 DEF MigrationInv

\* A run without a journal of its own leaves those of the others.
LEMMA NoJournals ==
    ASSUME MigrationInv, NEW r \in Run,
           run[r].step \notin {"lifting", "lifted", "pointing", "dead"} \cup Archiving
    PROVE  /\ \A j \in upgradeJournals : j.by # r
           /\ \A j \in transitionJournals : j.by # r
    BY DEF MigrationInv, JournalsHold, UpgradeHolds, TransitionHolds

-----------------------------------------------------------------------------
\* A run looks at the files while the server is off.
LEMMA ScanHolds ==
    ASSUME MigrationInv, NEW r \in Run, Scan(r)
    PROVE  MigrationInv'
<1> DEFINE selected == CASE Cardinality(Candidates) = 1 -> Candidates
                         [] Cardinality(Candidates) > 1 -> Candidates \cap {Resolution[r]}
                         [] OTHER -> {}
           broken == manifest # Absent /\ manifest.version = 1 /\ ~ IsIntact(manifest)
           upgrade == IF manifest # Absent /\ manifest.version = 1 THEN manifest ELSE Absent
<1>1. /\ At(r, "idle") /\ server = "off"
      /\ UNCHANGED <<legacy, manifest, artifacts, upgradeJournals, transitionJournals, writer, server>>
    BY DEF Scan, migrationJournals, serverVars
<1>2. MigrationTypes /\ RunHolds(r)
    BY DEF MigrationInv
<1>3. Candidates \subseteq Path /\ IsFiniteSet(Candidates)
    BY MigrationAssumption, FS_Subset DEF Candidates
<1>4. /\ selected \subseteq Candidates
      /\ \A p \in selected : selected = {p}
  <2>1. CASE Cardinality(Candidates) = 1
    <3>1. \E p : Candidates = {p}
        BY <1>3, <2>1, FS_Singleton
    <3> QED BY <2>1, <3>1
  <2>2. CASE Cardinality(Candidates) # 1
      BY <2>2
  <2> QED BY <2>1, <2>2
<1>5. MigrationTypes' /\ RunHolds(r)' /\ \A q \in Run \ {r} : run'[q] = run[q]
  <2>1. CASE run' = [run EXCEPT ![r].step = "refused"]
    <3>1. "refused" \in RunSteps
        BY DEF RunSteps
    <3>2. run' \in [Run -> RunState] /\ run'[r].step = "refused" /\ \A q \in Run \ {r} : run'[q] = run[q]
        BY <1>2, <2>1, <3>1, StepWrites
    <3> QED BY <1>1, <1>2, <3>2 DEF MigrationTypes, RunHolds, KeepsLock, KnowsUpgrade, KnowsFiles, KnowsContent,
                                Locking, Lifting, Writing, Archiving, Discarding
  <2>2. CASE /\ ~ broken /\ (Candidates # {} => selected # {})
             /\ run' = [run EXCEPT ![r] = [@ EXCEPT !.step = "scanned", !.selected = selected,
                                             !.discarded = Candidates \ selected, !.upgrade = upgrade]]
    <3>1. upgrade \in ManifestEntry \cup {Absent}
        BY <1>2 DEF MigrationTypes
    <3>2. selected \subseteq Path
        BY <1>3, <1>4
    <3> HIDE DEF selected, upgrade, broken
    <3>3. /\ run'[r].step = "scanned" /\ run'[r].selected = selected
          /\ run'[r].discarded = Candidates \ selected /\ run'[r].upgrade = upgrade
          /\ run' \in [Run -> RunState]
          /\ \A q \in Run \ {r} : run'[q] = run[q]
        BY <1>2, <1>3, <2>2, <3>1, <3>2 DEF MigrationTypes, RunState, RunSteps
    <3>4. MigrationTypes'
        BY <1>1, <1>2, <3>3 DEF MigrationTypes
    <3>5. KeepsLock(r)'
        BY <1>1, <3>3 DEF KeepsLock, Locking, Lifting, Writing, Archiving, Discarding
    <3>6. KnowsUpgrade(r)'
      <4>1. upgrade # Absent => upgrade = manifest /\ IsIntact(manifest)
          BY <2>2 DEF broken, upgrade
      <4>2. upgrade = Absent => NotOld
          BY <1>2, MigrationAssumption DEF upgrade, NotOld, MigrationTypes, ManifestEntry
      <4> QED BY <1>1, <3>3, <4>1, <4>2
              DEF KnowsUpgrade, IsIntact, NotOld, Locking, Lifting, Writing, Archiving, Discarding
    <3>7. KnowsFiles(r)'
      <4>1. Candidates' = Candidates
          BY <1>1 DEF Candidates
      <4>2. Candidates \subseteq selected \cup (Candidates \ selected)
          OBVIOUS
      <4> QED BY <1>4, <2>2, <3>3, <4>1 DEF KnowsFiles, Locking, Lifting, Writing, Archiving, Discarding
    <3>8. KnowsContent(r)'
        BY <3>3 DEF KnowsContent, Writing
    <3> QED BY <3>3, <3>4, <3>5, <3>6, <3>7, <3>8 DEF RunHolds
  <2> QED BY <2>1, <2>2 DEF Scan
<1>6. run[r].step = "idle"
    BY <1>1 DEF At
<1>7. NotOld => NotOld'
    BY <1>1 DEF NotOld
<1>8. manifest' # Absent => IsIntact(manifest)'
    BY <1>1 DEF MigrationInv, IsIntact
<1> QED BY <1>1, <1>5, <1>6, <1>7, <1>8, NoJournals, RunMoves DEF MigrationTypes, Archiving

\* A run finds the lock free, or is refused.
LEMMA TakeLockHolds ==
    ASSUME MigrationInv, NEW r \in Run, TakeLock(r)
    PROVE  MigrationInv'
<1> DEFINE to == IF writer = Absent THEN AfterLock(r) ELSE "refused"
<1>1. /\ run[r].step = "scanned" /\ run' = [run EXCEPT ![r].step = to]
      /\ IF writer = Absent THEN writer' = r ELSE UNCHANGED writer
      /\ UNCHANGED <<legacy, manifest, artifacts, upgradeJournals, transitionJournals, server>>
    BY DEF TakeLock, At, migrationJournals, serverVars
<1>2. MigrationTypes /\ RunHolds(r)
    BY DEF MigrationInv
<1>3. /\ to \in {"noting", "preparing", "unlocking", "refused"}
      /\ writer # Absent => to = "refused"
      /\ writer = Absent => /\ to = "noting" <=> run[r].upgrade # Absent
                            /\ to = "preparing" => run[r].selected # {}
                            /\ to = "unlocking" => run[r].selected = {}
                            /\ to # "refused"
    BY DEF AfterLock, AfterUpgrade
<1> HIDE DEF to
<1>4. to \in RunSteps
    BY <1>3 DEF RunSteps, Locking, Lifting
<1>5. /\ run' \in [Run -> RunState] /\ \A q \in Run \ {r} : run'[q] = run[q]
      /\ run'[r].step = to /\ run'[r].selected = run[r].selected /\ run'[r].failed = run[r].failed
      /\ run'[r].discarded = run[r].discarded /\ run'[r].upgrade = run[r].upgrade
    BY <1>1, <1>2, <1>4, StepWrites
<1>6. KeepsLock(r)'
    BY <1>1, <1>3, <1>5 DEF KeepsLock, Locking, Lifting, Writing, Archiving, Discarding
<1>7. KnowsUpgrade(r)'
    BY <1>1, <1>2, <1>3, <1>5
       DEF RunHolds, KnowsUpgrade, NotOld, IsIntact, Locking, Lifting, Writing, Archiving, Discarding
<1>8. KnowsFiles(r)'
  <2>1. Candidates' = Candidates
      BY <1>1 DEF Candidates
  <2> QED BY <1>1, <1>2, <1>3, <1>5, <2>1 DEF RunHolds, KnowsFiles, Locking, Lifting, Writing, Archiving, Discarding
<1>9. KnowsContent(r)'
    BY <1>3, <1>5 DEF KnowsContent, Writing
<1>10. RunHolds(r)' /\ (NotOld => NotOld') /\ (manifest' # Absent => IsIntact(manifest)')
    BY <1>1, <1>6, <1>7, <1>8, <1>9 DEF RunHolds, NotOld, MigrationInv, IsIntact
<1> QED BY <1>1, <1>2, <1>5, <1>10, NoJournals, RunMoves DEF MigrationTypes, Archiving

\* A journal of a manifest upgrade is written, and goes when the manifest is.
LEMMA UpgradeHeld ==
    ASSUME MigrationInv, NEW r \in Run, NoteUpgrade(r) \/ LiftManifest(r) \/ ForgetUpgrade(r)
    PROVE  MigrationInv'
<1> DEFINE to == run'[r].step
<1>1. MigrationTypes /\ RunHolds(r)
    BY DEF MigrationInv
<1>2. /\ writer = r /\ UNCHANGED <<legacy, artifacts, transitionJournals, writer, server>>
      /\ run[r].step \in {"noting", "lifting", "lifted"}
    BY DEF NoteUpgrade, LiftManifest, ForgetUpgrade, Locked, Step, At, migrationJournals, serverVars
<1>3. run[r].upgrade \in ManifestEntry
    BY <1>1, <1>2 DEF RunHolds, KnowsUpgrade, Lifting, MigrationTypes, RunState
<1>4. \A j \in transitionJournals : j.by # r
    BY <1>2 DEF MigrationInv, JournalsHold, TransitionHolds, Archiving
<1>5. /\ \A j \in upgradeJournals : j.by = r => j = Upgrade(r) /\ run[r].step # "noting"
    BY <1>2 DEF MigrationInv, JournalsHold, UpgradeHolds
<1>6. Candidates' = Candidates
    BY <1>2 DEF Candidates
<1>7. server = "off"
    BY <1>1, <1>2, MigrationAssumption DEF MigrationTypes
<1>8. CASE NoteUpgrade(r)
  <2>1. /\ run' = [run EXCEPT ![r].step = "lifting"] /\ run[r].step = "noting"
        /\ upgradeJournals' = upgradeJournals \cup {Upgrade(r)} /\ manifest' = manifest
      BY <1>8 DEF NoteUpgrade, Locked, Step, At
  <2>2. /\ run' \in [Run -> RunState] /\ \A q \in Run \ {r} : run'[q] = run[q]
        /\ run'[r].step = "lifting" /\ run'[r].selected = run[r].selected
        /\ run'[r].discarded = run[r].discarded /\ run'[r].upgrade = run[r].upgrade
        /\ Upgrade(r)' = Upgrade(r)
      BY <1>1, <2>1, StepWrites DEF RunSteps, Locking, Lifting
  <2>3. RunHolds(r)'
      BY <1>1, <1>2, <1>6, <2>1, <2>2 DEF RunHolds, KeepsLock, KnowsUpgrade, KnowsFiles, KnowsContent, IsIntact,
                                          Locking, Lifting, Writing, Archiving, Discarding
  <2>4. UpgradeHolds(Upgrade(r))'
      BY <1>3, <2>2 DEF UpgradeHolds, Upgrade
  <2>5. \A j \in upgradeJournals' : j.by = r => j = Upgrade(r)
      BY <1>5, <2>1
  <2>6. \A j \in upgradeJournals' : j.by # r => j \in upgradeJournals
      BY <2>1 DEF Upgrade
  <2>7. (NotOld => NotOld') /\ (manifest' # Absent => IsIntact(manifest)')
      BY <1>2, <2>1 DEF NotOld, MigrationInv, IsIntact
  <2> QED BY <1>1, <1>2, <1>4, <1>7, <2>1, <2>2, <2>3, <2>4, <2>5, <2>6, <2>7, RunMoves DEF MigrationTypes
<1>9. CASE LiftManifest(r)
  <2>1. /\ run' = [run EXCEPT ![r].step = "lifted"] /\ run[r].step = "lifting"
        /\ upgradeJournals' = upgradeJournals /\ manifest' = Lifted(run[r].upgrade)
      BY <1>9 DEF LiftManifest, Locked, Step, At, migrationJournals
  <2>2. /\ run' \in [Run -> RunState] /\ \A q \in Run \ {r} : run'[q] = run[q]
        /\ run'[r].step = "lifted" /\ run'[r].selected = run[r].selected
        /\ run'[r].discarded = run[r].discarded /\ run'[r].upgrade = run[r].upgrade
        /\ Upgrade(r)' = Upgrade(r)
      BY <1>1, <2>1, StepWrites DEF RunSteps, Locking
  <2>3. /\ manifest' \in ManifestEntry /\ manifest'.version = 2
        /\ manifest'.content = run[r].upgrade.content
        /\ Artifact(manifest)' = Artifact(run[r].upgrade)
      BY <1>3, <2>1, ArtifactOfLifted DEF Artifact
  <2>4. /\ IsIntact(run[r].upgrade)
        /\ manifest # Absent => manifest.content = run[r].upgrade.content
      BY <1>1, <1>2, <1>3, <2>1, MigrationAssumption DEF RunHolds, KnowsUpgrade, Lifting
  <2>5. NotOld' /\ IsIntact(manifest)'
      BY <1>2, <2>3, <2>4 DEF NotOld, IsIntact
  <2>6. RunHolds(r)'
      BY <1>1, <1>2, <1>6, <2>1, <2>2, <2>5 DEF RunHolds, KeepsLock, KnowsUpgrade, KnowsFiles, KnowsContent, IsIntact,
                                          Locking, Lifting, Writing, Archiving, Discarding
  <2>7. \A j \in upgradeJournals' : j.by = r => UpgradeHolds(j)'
      BY <1>3, <1>5, <2>1, <2>2 DEF UpgradeHolds, Upgrade
  <2> QED BY <1>1, <1>2, <1>4, <1>7, <2>1, <2>2, <2>3, <2>4, <2>5, <2>6, <2>7, MigrationAssumption, RunMoves
          DEF MigrationTypes
<1>10. CASE ForgetUpgrade(r)
  <2>1. /\ run' = [run EXCEPT ![r].step = AfterUpgrade(r)] /\ run[r].step = "lifted"
        /\ upgradeJournals' = upgradeJournals \ {Upgrade(r)} /\ manifest' = manifest
      BY <1>10 DEF ForgetUpgrade, Locked, Step, At
  <2>2. /\ AfterUpgrade(r) \in {"preparing", "unlocking"}
        /\ AfterUpgrade(r) = "unlocking" <=> run[r].selected = {}
      BY DEF AfterUpgrade
  <2>3. /\ run' \in [Run -> RunState] /\ \A q \in Run \ {r} : run'[q] = run[q]
        /\ run'[r].step = AfterUpgrade(r) /\ run'[r].selected = run[r].selected
        /\ run'[r].discarded = run[r].discarded /\ run'[r].upgrade = run[r].upgrade
    <3>1. AfterUpgrade(r) \in RunSteps
        BY <2>2 DEF RunSteps, Locking
    <3> HIDE DEF AfterUpgrade
    <3> QED BY <1>1, <2>1, <3>1, StepWrites
  <2>4. RunHolds(r)'
      BY <1>1, <1>2, <1>6, <2>1, <2>2, <2>3
         DEF RunHolds, KeepsLock, KnowsUpgrade, KnowsFiles, KnowsContent, IsIntact, NotOld,
             Locking, Lifting, Writing, Archiving, Discarding
  <2>5. \A j \in upgradeJournals' : j.by # r
      BY <1>5, <2>1
  <2>6. (NotOld => NotOld') /\ (manifest' # Absent => IsIntact(manifest)')
      BY <1>2, <2>1 DEF NotOld, MigrationInv, IsIntact
  <2> QED BY <1>1, <1>2, <1>4, <1>7, <2>1, <2>3, <2>4, <2>5, <2>6, RunMoves DEF MigrationTypes
<1> QED BY <1>8, <1>9, <1>10

\* What a run reads under the lock agrees with what is current, or the run fails.
LEMMA PrepareHolds ==
    ASSUME MigrationInv, NEW r \in Run, Prepare(r)
    PROVE  MigrationInv'
<1> DEFINE content == Holding(Chosen(r), FindingsAt(Chosen(r)))
<1>1. MigrationTypes /\ RunHolds(r) /\ run \in [Run -> RunState]
    BY DEF MigrationInv, MigrationTypes
<1>2. /\ writer = r /\ run[r].step = "preparing"
      /\ UNCHANGED <<legacy, manifest, artifacts, upgradeJournals, transitionJournals, writer, server>>
    BY DEF Prepare, At, migrationJournals, serverVars
<1>3. server = "off"
    BY <1>1, <1>2, MigrationAssumption DEF MigrationTypes
<1>4. Candidates' = Candidates
    BY <1>2 DEF Candidates
<1>5. /\ run' \in [Run -> RunState] /\ \A q \in Run \ {r} : run'[q] = run[q]
      /\ RunHolds(r)'
  <2>1. CASE /\ Chosen(r) \in Candidates /\ Agrees(r, content)
             /\ run' = [run EXCEPT ![r].step = "writing", ![r].content = content, ![r].existing = manifest]
    <3>1. content \in GameContent /\ content.document = LegacyDocument[Chosen(r)]
          /\ (<<Chosen(r), "findings">> \in legacy => content.findings = LegacyFindings[Chosen(r)])
      <4>1. Chosen(r) \in Path
          BY <2>1 DEF Candidates
      <4> QED BY <4>1 DEF Holding, GameContent, FindingsAt
    <3>2. manifest = Absent \/ manifest.content = content
        BY <2>1 DEF Agrees
    <3> HIDE DEF content
    <3>3. /\ run' \in [Run -> RunState] /\ \A q \in Run \ {r} : run'[q] = run[q]
          /\ run'[r].step = "writing" /\ run'[r].content = content /\ run'[r].selected = run[r].selected
          /\ run'[r].discarded = run[r].discarded /\ run'[r].upgrade = run[r].upgrade
          /\ Chosen(r)' = Chosen(r)
      <4>1. "writing" \in RunSteps
          BY DEF RunSteps, Locking, Writing
      <4>2. manifest \in ManifestEntry \cup {Absent}
          BY <1>1 DEF MigrationTypes
      <4>3. /\ run' \in [Run -> RunState] /\ \A q \in Run \ {r} : run'[q] = run[q]
            /\ run'[r].step = "writing" /\ run'[r].content = content /\ run'[r].selected = run[r].selected
            /\ run'[r].discarded = run[r].discarded /\ run'[r].upgrade = run[r].upgrade
          BY <1>1, <2>1, <3>1, <4>1, <4>2 DEF RunState
      <4> QED BY <4>3 DEF Chosen
    <3>4. KeepsLock(r)' /\ KnowsUpgrade(r)'
        BY <1>1, <1>2, <3>3 DEF RunHolds, KeepsLock, KnowsUpgrade, NotOld, Locking, Lifting, Writing, Archiving, Discarding
    <3>5. KnowsFiles(r)'
        BY <1>1, <1>2, <1>4, <3>3 DEF RunHolds, KnowsFiles, Lifting, Writing, Archiving
    <3>6. KnowsContent(r)'
        BY <1>2, <3>1, <3>2, <3>3 DEF KnowsContent, Writing
    <3> QED BY <3>3, <3>4, <3>5, <3>6 DEF RunHolds
  <2>2. CASE run' = [run EXCEPT ![r].step = "unlocking", ![r].failed = TRUE]
    <3>1. "unlocking" \in RunSteps
        BY DEF RunSteps, Locking
    <3>2. /\ run' \in [Run -> RunState] /\ \A q \in Run \ {r} : run'[q] = run[q]
          /\ run'[r].step = "unlocking" /\ run'[r].failed = TRUE
        BY <1>1, <2>2, <3>1 DEF RunState
    <3>3. RunHolds(r)'
        BY <1>1, <1>2, <3>2 DEF RunHolds, KeepsLock, KnowsUpgrade, KnowsFiles, KnowsContent, NotOld,
                                Locking, Lifting, Writing, Archiving, Discarding
    <3> QED BY <3>2, <3>3
  <2> QED BY <2>1, <2>2 DEF Prepare
<1>6. (NotOld => NotOld') /\ (manifest' # Absent => IsIntact(manifest)')
    BY <1>2 DEF NotOld, MigrationInv, IsIntact
<1> QED BY <1>1, <1>2, <1>3, <1>5, <1>6, NoJournals, RunMoves DEF MigrationTypes, Archiving

\* A run writes the artifact, notes where the manifest goes, and points it there.
LEMMA RunsWriteTheirs ==
    ASSUME MigrationInv, NEW r \in Run, WriteArtifact(r) \/ NoteTransition(r) \/ PointManifest(r)
    PROVE  MigrationInv'
<1>1. MigrationTypes /\ RunHolds(r)
    BY DEF MigrationInv
<1>2. /\ writer = r /\ UNCHANGED <<legacy, upgradeJournals, writer, server>>
      /\ run[r].step \in Writing
    BY DEF WriteArtifact, NoteTransition, PointManifest, Locked, Step, At, migrationJournals, serverVars, Writing
<1>3. run[r].content \in GameContent /\ (manifest # Absent => manifest.content = run[r].content)
    BY <1>1, <1>2 DEF RunHolds, KnowsContent
<1>4. /\ MigratedEntry(r) \in ManifestEntry /\ MigratedEntry(r).version = 2
      /\ MigratedEntry(r).content = run[r].content
    BY <1>3 DEF MigratedEntry, Version, ManifestEntry
<1>5. \A j \in upgradeJournals : j.by # r
    BY <1>2 DEF MigrationInv, JournalsHold, UpgradeHolds, Writing
<1>6. \A j \in transitionJournals : j.by = r => j = Transition(r) /\ run[r].step = "pointing"
    BY <1>2 DEF MigrationInv, JournalsHold, TransitionHolds, Writing, Archiving
<1>7. server = "off"
    BY <1>1, <1>2, MigrationAssumption DEF MigrationTypes
<1>8. Candidates' = Candidates
    BY <1>2 DEF Candidates
<1>9. CASE WriteArtifact(r)
  <2>1. /\ run' = [run EXCEPT ![r].step = "journaling"] /\ run[r].step = "writing"
        /\ artifacts' = artifacts \cup {Artifact(MigratedEntry(r))}
        /\ UNCHANGED <<manifest, transitionJournals>>
      BY <1>9 DEF WriteArtifact, Locked, Step, At, migrationJournals
  <2>2. /\ run' \in [Run -> RunState] /\ \A q \in Run \ {r} : run'[q] = run[q]
        /\ run'[r].step = "journaling" /\ run'[r].selected = run[r].selected
        /\ run'[r].discarded = run[r].discarded /\ run'[r].upgrade = run[r].upgrade
        /\ run'[r].content = run[r].content
        /\ Chosen(r)' = Chosen(r) /\ MigratedEntry(r)' = MigratedEntry(r)
      BY <1>1, <2>1, StepWrites DEF RunSteps, Locking, Writing
  <2>3. IsIntact(MigratedEntry(r))'
      BY <2>1, <2>2 DEF IsIntact, Artifact
  <2>4. RunHolds(r)'
      BY <1>1, <1>2, <1>8, <2>1, <2>2, <2>3
         DEF RunHolds, KeepsLock, KnowsUpgrade, KnowsFiles, KnowsContent, NotOld,
             Locking, Lifting, Writing, Archiving, Discarding
  <2>5. (NotOld => NotOld') /\ (manifest' # Absent => IsIntact(manifest)')
      BY <2>1 DEF NotOld, MigrationInv, IsIntact, Artifact
  <2>6. \A j \in transitionJournals : j.by # r
      BY <1>6, <2>1
  <2> QED BY <1>1, <1>2, <1>5, <1>7, <2>1, <2>2, <2>4, <2>5, <2>6, RunMoves DEF MigrationTypes
<1>10. CASE NoteTransition(r)
  <2>1. /\ run' = [run EXCEPT ![r].step = "pointing"] /\ run[r].step = "journaling"
        /\ transitionJournals' = transitionJournals \cup {Transition(r)}
        /\ UNCHANGED <<manifest, artifacts>>
      BY <1>10 DEF NoteTransition, Locked, Step, At
  <2>2. /\ run' \in [Run -> RunState] /\ \A q \in Run \ {r} : run'[q] = run[q]
        /\ run'[r].step = "pointing" /\ run'[r].selected = run[r].selected
        /\ run'[r].discarded = run[r].discarded /\ run'[r].upgrade = run[r].upgrade
        /\ run'[r].content = run[r].content
        /\ Chosen(r)' = Chosen(r) /\ MigratedEntry(r)' = MigratedEntry(r) /\ Transition(r)' = Transition(r)
      BY <1>1, <2>1, StepWrites DEF RunSteps, Locking, Writing
  <2>3. RunHolds(r)'
      BY <1>1, <1>2, <1>8, <2>1, <2>2
         DEF RunHolds, KeepsLock, KnowsUpgrade, KnowsFiles, KnowsContent, NotOld, IsIntact, Artifact,
             Locking, Lifting, Writing, Archiving, Discarding
  <2>4. TransitionHolds(Transition(r))'
      BY <1>4, <2>2 DEF TransitionHolds, Transition
  <2>5. \A j \in transitionJournals' : IF j.by = r THEN j = Transition(r) ELSE j \in transitionJournals
      BY <1>6, <2>1 DEF Transition
  <2>6. (NotOld => NotOld') /\ (manifest' # Absent => IsIntact(manifest)')
      BY <2>1 DEF NotOld, MigrationInv, IsIntact
  <2> QED BY <1>1, <1>2, <1>5, <1>7, <2>1, <2>2, <2>3, <2>4, <2>5, <2>6, RunMoves DEF MigrationTypes
<1>11. CASE PointManifest(r)
  <2>1. /\ run' = [run EXCEPT ![r].step = "archiving"] /\ run[r].step = "pointing"
        /\ manifest' = MigratedEntry(r)
        /\ UNCHANGED <<artifacts, transitionJournals>>
      BY <1>11 DEF PointManifest, Locked, Step, At, migrationJournals
  <2>2. /\ run' \in [Run -> RunState] /\ \A q \in Run \ {r} : run'[q] = run[q]
        /\ run'[r].step = "archiving" /\ run'[r].selected = run[r].selected
        /\ run'[r].discarded = run[r].discarded /\ run'[r].upgrade = run[r].upgrade
        /\ run'[r].content = run[r].content
        /\ Chosen(r)' = Chosen(r) /\ MigratedEntry(r)' = MigratedEntry(r) /\ Transition(r)' = Transition(r)
      BY <1>1, <2>1, StepWrites DEF RunSteps, Locking, Archiving
  <2>3. NotOld' /\ IsIntact(manifest)'
      BY <1>1, <1>4, <2>1 DEF NotOld, RunHolds, KnowsContent, IsIntact
  <2>4. RunHolds(r)'
      BY <1>1, <1>2, <1>8, <2>1, <2>2, <2>3
         DEF RunHolds, KeepsLock, KnowsUpgrade, KnowsFiles, KnowsContent,
             Locking, Lifting, Writing, Archiving, Discarding
  <2>5. \A j \in transitionJournals' : j.by = r => TransitionHolds(j)'
    <3>1. ASSUME NEW j \in transitionJournals, j.by = r PROVE TransitionHolds(j)'
      <4>1. TransitionHolds(j) /\ j = Transition(r)
          BY <1>6, <3>1 DEF MigrationInv, JournalsHold
      <4> QED BY <2>2, <3>1, <4>1 DEF TransitionHolds, Archiving
    <3> QED BY <2>1, <3>1
  <2>6. manifest' \in ManifestEntry /\ manifest' # Absent
        /\ (manifest # Absent => manifest'.content = manifest.content)
      BY <1>3, <1>4, <2>1, MigrationAssumption
  <2> QED BY <1>1, <1>2, <1>5, <1>7, <2>1, <2>2, <2>3, <2>4, <2>5, <2>6, RunMoves DEF MigrationTypes
<1> QED BY <1>9, <1>10, <1>11

\* A moved file is no longer in the layout before.
LEMMA MovedAway ==
    ASSUME NEW name, NEW p \in Path, NEW piece \in {"document", "findings"}, NEW value, Moved(name, p, piece, value)
    PROVE  /\ legacy' \subseteq legacy
           /\ Candidates' \subseteq Candidates
           /\ piece = "document" => Candidates' = Candidates \ {p}
    BY DEF Moved, Candidates

\* A run archives what it has selected, and then forgets the journal.
LEMMA ArchivesHold ==
    ASSUME MigrationInv, NEW r \in Run, ArchiveDocument(r) \/ ArchiveFindings(r) \/ ForgetTransition(r)
    PROVE  MigrationInv'
<1>1. MigrationTypes /\ RunHolds(r)
    BY DEF MigrationInv
<1>2. /\ writer = r /\ UNCHANGED <<manifest, artifacts, upgradeJournals, writer, server>>
      /\ run[r].step \in Archiving
    BY DEF ArchiveDocument, ArchiveFindings, ForgetTransition, Locked, Step, At, migrationJournals, serverVars, Archiving
<1>3. run[r].selected = {Chosen(r)} /\ Chosen(r) \in Path
  <2>1. run[r].selected # {} /\ \A p \in run[r].selected : run[r].selected = {p}
      BY <1>1, <1>2 DEF RunHolds, KnowsFiles
  <2>2. run[r].selected \subseteq Path
      BY <1>1 DEF MigrationTypes, RunState
  <2> QED BY <2>1, <2>2 DEF Chosen
<1>4. \A j \in upgradeJournals : j.by # r
    BY <1>2 DEF MigrationInv, JournalsHold, UpgradeHolds, Archiving
<1>5. \A j \in transitionJournals : j.by = r => TransitionHolds(j) /\ j = Transition(r)
    BY <1>2 DEF MigrationInv, JournalsHold, TransitionHolds, Archiving
<1>6. server = "off"
    BY <1>1, <1>2, MigrationAssumption DEF MigrationTypes
<1>7. (NotOld => NotOld') /\ (manifest' # Absent => IsIntact(manifest)')
    BY <1>2 DEF NotOld, MigrationInv, IsIntact
<1>8. ASSUME NEW to \in Archiving, run' = [run EXCEPT ![r].step = to], UNCHANGED transitionJournals
      PROVE  \A j \in transitionJournals' : j.by = r => TransitionHolds(j)'
  <2>1. "archiving" \in RunSteps /\ to \in RunSteps
      BY <1>8 DEF RunSteps, Locking, Archiving
  <2>2. run'[r].step = to /\ Transition(r)' = Transition(r)
      BY <1>1, <1>8, <2>1, StepWrites
  <2> QED BY <1>5, <1>8, <2>2 DEF TransitionHolds
<1>9. CASE ArchiveDocument(r)
  <2>1. /\ run' = [run EXCEPT ![r].step = "archivingFindings"] /\ run[r].step = "archiving"
        /\ legacy' \subseteq legacy /\ Candidates' = Candidates \ {Chosen(r)}
        /\ UNCHANGED transitionJournals
      BY <1>3, <1>9, MovedAway DEF ArchiveDocument, Locked, Step, At, migrationJournals
  <2>2. /\ run' \in [Run -> RunState] /\ \A q \in Run \ {r} : run'[q] = run[q]
        /\ run'[r].step = "archivingFindings" /\ run'[r].selected = run[r].selected
        /\ run'[r].discarded = run[r].discarded /\ run'[r].upgrade = run[r].upgrade
        /\ run'[r].content = run[r].content /\ Chosen(r)' = Chosen(r)
      BY <1>1, <2>1, StepWrites DEF RunSteps, Locking, Archiving
  <2>3. Candidates \subseteq run[r].selected \cup run[r].discarded
      BY <1>1, <2>1 DEF RunHolds, KnowsFiles
  <2>4. KeepsLock(r)' /\ KnowsUpgrade(r)' /\ KnowsContent(r)'
      BY <1>1, <1>2, <2>1, <2>2
         DEF RunHolds, KeepsLock, KnowsUpgrade, KnowsContent, NotOld, Locking, Lifting, Writing, Archiving, Discarding
  <2>5. KnowsFiles(r)'
      BY <1>1, <1>3, <2>1, <2>2, <2>3 DEF RunHolds, KnowsFiles, Lifting, Writing, Archiving
  <2>6. RunHolds(r)'
      BY <2>4, <2>5 DEF RunHolds
  <2> QED BY <1>1, <1>2, <1>4, <1>6, <1>7, <1>8, <2>1, <2>2, <2>6, RunMoves DEF MigrationTypes, Archiving
<1>10. CASE ArchiveFindings(r)
  <2>1. /\ run' = [run EXCEPT ![r].step = "archived"] /\ run[r].step = "archivingFindings"
        /\ legacy' \subseteq legacy /\ Candidates' \subseteq Candidates
        /\ UNCHANGED transitionJournals
      BY <1>3, <1>10, MovedAway DEF ArchiveFindings, Locked, Step, At, migrationJournals
  <2>2. /\ run' \in [Run -> RunState] /\ \A q \in Run \ {r} : run'[q] = run[q]
        /\ run'[r].step = "archived" /\ run'[r].selected = run[r].selected
        /\ run'[r].discarded = run[r].discarded /\ run'[r].upgrade = run[r].upgrade
      BY <1>1, <2>1, StepWrites DEF RunSteps, Locking, Archiving
  <2>3. RunHolds(r)'
      BY <1>1, <1>2, <2>1, <2>2
         DEF RunHolds, KeepsLock, KnowsUpgrade, KnowsFiles, KnowsContent, NotOld,
             Locking, Lifting, Writing, Archiving, Discarding
  <2> QED BY <1>1, <1>2, <1>4, <1>6, <1>7, <1>8, <2>1, <2>2, <2>3, RunMoves DEF MigrationTypes, Archiving
<1>11. CASE ForgetTransition(r)
  <2>1. /\ run' = [run EXCEPT ![r].step = "discarding"] /\ run[r].step = "archived"
        /\ transitionJournals' = transitionJournals \ {Transition(r)}
        /\ UNCHANGED legacy
      BY <1>11 DEF ForgetTransition, Locked, Step, At
  <2>2. /\ run' \in [Run -> RunState] /\ \A q \in Run \ {r} : run'[q] = run[q]
        /\ run'[r].step = "discarding" /\ run'[r].selected = run[r].selected
        /\ run'[r].discarded = run[r].discarded /\ run'[r].upgrade = run[r].upgrade
      BY <1>1, <2>1, StepWrites DEF RunSteps, Locking, Discarding
  <2>3. Candidates' = Candidates
      BY <2>1 DEF Candidates
  <2>4. RunHolds(r)'
      BY <1>1, <1>2, <2>1, <2>2, <2>3
         DEF RunHolds, KeepsLock, KnowsUpgrade, KnowsFiles, KnowsContent, NotOld,
             Locking, Lifting, Writing, Archiving, Discarding
  <2>5. \A j \in transitionJournals' : j.by # r
      BY <1>5, <2>1
  <2> QED BY <1>1, <1>2, <1>4, <1>6, <1>7, <2>1, <2>2, <2>4, <2>5, RunMoves DEF MigrationTypes
<1> QED BY <1>9, <1>10, <1>11

\* The files a run does not select go one by one, as far as they are still there.
LEMMA DiscardsHold ==
    ASSUME MigrationInv, NEW r \in Run, DiscardDocument(r) \/ DiscardFindings(r)
    PROVE  MigrationInv'
<1> DEFINE p == NextDiscarded(r)
<1>1. MigrationTypes /\ RunHolds(r) /\ run \in [Run -> RunState]
    BY DEF MigrationInv, MigrationTypes
<1>2. /\ writer = r
      /\ UNCHANGED <<manifest, artifacts, upgradeJournals, transitionJournals, writer, server>>
      /\ run[r].step \in Discarding
    BY DEF DiscardDocument, DiscardFindings, At, migrationJournals, serverVars, Discarding
<1>3. server = "off"
    BY <1>1, <1>2, MigrationAssumption DEF MigrationTypes
<1>4. (NotOld => NotOld') /\ (manifest' # Absent => IsIntact(manifest)')
    BY <1>2 DEF NotOld, MigrationInv, IsIntact
<1>5. run[r].discarded # {} => p \in run[r].discarded /\ p \in Path
  <2>1. run[r].discarded \subseteq Path
      BY <1>1 DEF RunState
  <2> QED BY <2>1, NextIsDiscarded
<1>6. {"unlocking", "discarding", "discardingFindings"} \subseteq RunSteps
    BY DEF RunSteps, Locking, Discarding
<1>7. /\ legacy' \subseteq legacy /\ run' \in [Run -> RunState] /\ \A q \in Run \ {r} : run'[q] = run[q]
      /\ RunHolds(r)'
  <2>1. CASE run[r].step = "discarding" /\ run[r].discarded = {} /\ run' = [run EXCEPT ![r].step = "unlocking"]
             /\ UNCHANGED legacy
    <3>1. /\ run' \in [Run -> RunState] /\ \A q \in Run \ {r} : run'[q] = run[q]
          /\ run'[r].step = "unlocking"
        BY <1>1, <1>6, <2>1, StepWrites
    <3>2. Candidates = {} /\ Candidates' = Candidates
        BY <1>1, <2>1 DEF RunHolds, KnowsFiles, Candidates
    <3>3. RunHolds(r)'
        BY <1>1, <1>2, <2>1, <3>1, <3>2
           DEF RunHolds, KeepsLock, KnowsUpgrade, KnowsFiles, KnowsContent, NotOld,
               Locking, Lifting, Writing, Archiving, Discarding
    <3> QED BY <2>1, <3>1, <3>3
  <2>2. CASE /\ run[r].step = "discarding" /\ run[r].discarded # {} /\ p \in Candidates
             /\ run' = [run EXCEPT ![r].step = "discardingFindings"]
             /\ Moved(<<"discarded", LegacyDocument[p], "document">>, p, "document", LegacyDocument[p])
    <3>1. /\ run' \in [Run -> RunState] /\ \A q \in Run \ {r} : run'[q] = run[q]
          /\ run'[r].step = "discardingFindings" /\ run'[r].discarded = run[r].discarded
          /\ NextDiscarded(r)' = p
        BY <1>1, <1>6, <2>2, StepWrites
    <3>2. legacy' \subseteq legacy /\ Candidates' = Candidates \ {p}
        BY <1>5, <2>2, MovedAway
    <3>3. Candidates \subseteq run[r].discarded
        BY <1>1, <2>2 DEF RunHolds, KnowsFiles
    <3>4. RunHolds(r)'
        BY <1>1, <1>2, <2>2, <3>1, <3>2, <3>3
           DEF RunHolds, KeepsLock, KnowsUpgrade, KnowsFiles, KnowsContent, NotOld,
               Locking, Lifting, Writing, Archiving, Discarding
    <3> QED BY <3>1, <3>2, <3>4
  <2>3. CASE /\ run[r].step = "discarding" /\ UNCHANGED legacy
             /\ run' = [run EXCEPT ![r].step = "unlocking", ![r].failed = TRUE]
    <3>1. /\ run' \in [Run -> RunState] /\ \A q \in Run \ {r} : run'[q] = run[q]
          /\ run'[r].step = "unlocking" /\ run'[r].failed = TRUE
        BY <1>1, <1>6, <2>3 DEF RunState
    <3>2. RunHolds(r)'
        BY <1>1, <1>2, <2>3, <3>1
           DEF RunHolds, KeepsLock, KnowsUpgrade, KnowsFiles, KnowsContent, NotOld,
               Locking, Lifting, Writing, Archiving, Discarding
    <3> QED BY <2>3, <3>1, <3>2
  <2>4. CASE DiscardFindings(r)
    <3>1. /\ run[r].step = "discardingFindings"
          /\ run' = [run EXCEPT ![r].step = "discarding", ![r].discarded = @ \ {p}]
          /\ Moved(<<"discarded", LegacyDocument[p], "findings">>, p, "findings", LegacyFindings[p])
        BY <2>4 DEF DiscardFindings, At
    <3>2. run[r].discarded # {} /\ Candidates \subseteq run[r].discarded \ {p}
        BY <1>1, <3>1 DEF RunHolds, KnowsFiles
    <3>3. legacy' \subseteq legacy /\ Candidates' \subseteq Candidates
        BY <1>5, <3>1, <3>2, MovedAway
    <3> HIDE DEF p
    <3>4. /\ run' \in [Run -> RunState] /\ \A q \in Run \ {r} : run'[q] = run[q]
          /\ run'[r].step = "discarding" /\ run'[r].discarded = run[r].discarded \ {p}
        BY <1>1, <1>6, <3>1 DEF RunState
    <3>5. RunHolds(r)'
        BY <1>1, <1>2, <3>1, <3>2, <3>3, <3>4
           DEF RunHolds, KeepsLock, KnowsUpgrade, KnowsFiles, KnowsContent, NotOld,
               Locking, Lifting, Writing, Archiving, Discarding
    <3> QED BY <3>3, <3>4, <3>5
  <2> QED BY <2>1, <2>2, <2>3, <2>4 DEF DiscardDocument, At
<1>8. run[r].step \notin {"lifting", "lifted", "pointing", "dead"} \cup Archiving
    BY <1>2 DEF Discarding, Archiving
<1> QED BY <1>1, <1>2, <1>3, <1>4, <1>7, <1>8, NoJournals, RunMoves DEF MigrationTypes

\* A run gives the lock back, with its journals gone, or dies and leaves them.
LEMMA EndsHold ==
    ASSUME MigrationInv, NEW r \in Run, Unlock(r) \/ Die(r)
    PROVE  MigrationInv'
<1> DEFINE to == IF Unlock(r) THEN IF run[r].failed THEN "failed" ELSE "done" ELSE "dead"
<1>1. MigrationTypes /\ RunHolds(r)
    BY DEF MigrationInv
<1>2. /\ writer = r /\ writer' = Absent /\ run' = [run EXCEPT ![r].step = to]
      /\ UNCHANGED <<legacy, manifest, artifacts, upgradeJournals, transitionJournals, server>>
    BY DEF Unlock, Die, Locked, Step, migrationJournals, serverVars
<1>3. to \in {"failed", "done", "dead"} /\ (to = "done" => run[r].step = "unlocking" /\ ~ run[r].failed)
      /\ (to # "dead" => run[r].step = "unlocking")
    BY DEF Unlock, Locked, Step, At
<1> HIDE DEF to
<1>4. server = "off"
    BY <1>1, <1>2, MigrationAssumption DEF MigrationTypes
<1>5. /\ run' \in [Run -> RunState] /\ \A q \in Run \ {r} : run'[q] = run[q]
      /\ run'[r].step = to
    BY <1>1, <1>2, <1>3, StepWrites DEF RunSteps
<1>6. Candidates' = Candidates
    BY <1>2 DEF Candidates
<1>7. RunHolds(r)'
    BY <1>1, <1>2, <1>3, <1>5, <1>6
       DEF RunHolds, KeepsLock, KnowsUpgrade, KnowsFiles, KnowsContent, NotOld,
           Locking, Lifting, Writing, Archiving, Discarding
<1>8. (NotOld => NotOld') /\ (manifest' # Absent => IsIntact(manifest)')
    BY <1>2 DEF NotOld, MigrationInv, IsIntact
<1>9. ASSUME to = "dead"
      PROVE  /\ \A j \in upgradeJournals : j.by = r => UpgradeHolds(j)'
             /\ \A j \in transitionJournals : j.by = r => TransitionHolds(j)'
    BY <1>5, <1>9 DEF MigrationInv, JournalsHold, UpgradeHolds, TransitionHolds
<1>10. ASSUME to # "dead"
       PROVE  /\ \A j \in upgradeJournals : j.by # r
              /\ \A j \in transitionJournals : j.by # r
    BY <1>3, <1>10, NoJournals DEF Archiving
<1> QED BY <1>1, <1>2, <1>4, <1>5, <1>7, <1>8, <1>9, <1>10, RunMoves DEF MigrationTypes

-----------------------------------------------------------------------------
\* The server does not run while a run looks at the files or has the lock.
LEMMA ServerAlone ==
    ASSUME MigrationInv, NEW q \in Run, server # "off"
    PROVE  run[q].step \notin Locking /\ run[q].step # "scanned" /\ writer = "server"
    BY MigrationAssumption DEF MigrationInv, MigrationTypes, RunHolds, KeepsLock

\* What is said of the runs and the journals when the server moves.
LEMMA ServerMoves ==
    ASSUME MigrationInv, server # "off", UNCHANGED <<legacy, run>>,
           server' \in {"off", "recovering", "on"}, writer' = IF server' = "off" THEN Absent ELSE writer,
           manifest' \in ManifestEntry \cup {Absent}, manifest' # Absent => IsIntact(manifest)',
           NotOld => NotOld',
           upgradeJournals' \subseteq upgradeJournals, transitionJournals' \subseteq transitionJournals,
           server' = "on" => upgradeJournals' = {} /\ transitionJournals' = {}
    PROVE  MigrationInv'
<1>1. MigrationTypes /\ JournalsHold
    BY DEF MigrationInv
<1>2. writer = "server"
    BY <1>1 DEF MigrationTypes
<1>3. MigrationTypes'
    BY <1>1, <1>2, MigrationAssumption DEF MigrationTypes
<1>4. JournalsHold'
    BY <1>1 DEF JournalsHold, UpgradeHolds, TransitionHolds, Upgrade, Transition, MigratedEntry
<1>5. ASSUME NEW q \in Run PROVE RunHolds(q)'
    BY ServerAlone, OthersHold
<1> QED BY <1>3, <1>4, <1>5 DEF MigrationInv

\* The server opens the workspace when nobody else is at it.
LEMMA OpenHolds ==
    ASSUME MigrationInv, Open
    PROVE  MigrationInv'
<1>1. /\ writer = Absent /\ server' = "recovering" /\ writer' = "server"
      /\ \A r \in Run : run[r].step # "scanned"
      /\ UNCHANGED <<legacy, manifest, artifacts, upgradeJournals, transitionJournals, run>>
    BY DEF Open, At, migrationJournals
<1>2. MigrationTypes' /\ (NotOld => NotOld')
    BY <1>1 DEF MigrationInv, MigrationTypes, NotOld
<1>3. JournalsHold'
    BY <1>1 DEF MigrationInv, JournalsHold, UpgradeHolds, TransitionHolds, Upgrade, Transition, MigratedEntry
<1>4. ASSUME NEW q \in Run PROVE RunHolds(q)'
  <2>1. run[q].step \notin Locking
      BY <1>1, MigrationAssumption DEF MigrationInv, RunHolds, KeepsLock
  <2> QED BY <1>1, <1>2, <2>1, OthersHold
<1>5. manifest' # Absent => IsIntact(manifest)'
    BY <1>1 DEF MigrationInv, IsIntact
<1> QED BY <1>2, <1>3, <1>4, <1>5 DEF MigrationInv

\* A step of a workspace that is open, or is being opened.
LEMMA ServerHolds ==
    ASSUME MigrationInv,
           \/ Close \/ Check \/ SaveEdited
           \/ \E j \in upgradeJournals : RecoverUpgrade(j)
           \/ \E j \in transitionJournals : RecoverTransition(j)
    PROVE  MigrationInv'
<1>1. MigrationTypes /\ JournalsHold /\ (manifest # Absent => IsIntact(manifest))
    BY DEF MigrationInv
<1>2. CASE Close \/ Check
  <2>1. /\ server # "off" /\ UNCHANGED <<legacy, run, manifest, artifacts, upgradeJournals, transitionJournals>>
        /\ server' \in {"off", "recovering", "on"} /\ writer' = IF server' = "off" THEN Absent ELSE writer
        /\ server' = "on" => upgradeJournals = {} /\ transitionJournals = {}
      BY <1>2 DEF Close, Check, Blocked, migrationJournals
  <2>2. (NotOld => NotOld') /\ (manifest' # Absent => IsIntact(manifest)')
      BY <1>1, <2>1 DEF NotOld, IsIntact
  <2> QED BY <1>1, <2>1, <2>2, ServerMoves DEF MigrationTypes
<1>3. CASE SaveEdited
  <2> DEFINE next == Version(2, manifest.generation + 1, Edited, "server")
  <2>1. /\ server = "on" /\ manifest # Absent /\ manifest' = next
        /\ artifacts' = (artifacts \ {Artifact(manifest)}) \cup {Artifact(next)}
        /\ UNCHANGED <<legacy, run, upgradeJournals, transitionJournals, writer, server>>
      BY <1>3 DEF SaveEdited, migrationJournals
  <2>2. next \in ManifestEntry /\ next.version = 2
      BY <1>1, <2>1 DEF MigrationTypes, ManifestEntry, Version, Edited, GameContent
  <2>3. NotOld' /\ IsIntact(manifest)'
      BY <2>1, <2>2 DEF NotOld, IsIntact, Artifact
  <2> QED BY <1>1, <2>1, <2>2, <2>3, ServerMoves DEF JournalsHold
<1>4. ASSUME NEW j \in upgradeJournals, RecoverUpgrade(j) PROVE MigrationInv'
  <2>1. j.previous \in ManifestEntry /\ j.target = Lifted(j.previous)
      BY <1>1 DEF JournalsHold, UpgradeHolds
  <2>2. /\ j.target \in ManifestEntry /\ j.target.version = 2
      BY <2>1, ArtifactOfLifted
  <2>3. /\ server = "recovering" /\ UNCHANGED <<legacy, run, artifacts, transitionJournals>>
        /\ \/ /\ IsIntact(j.target) /\ manifest' = j.target /\ upgradeJournals' = upgradeJournals \ {j}
              /\ UNCHANGED <<writer, server>>
           \/ server' = "off" /\ writer' = Absent /\ UNCHANGED <<manifest, upgradeJournals>>
      BY <1>4 DEF RecoverUpgrade, Blocked, migrationJournals
  <2>4. /\ manifest' \in ManifestEntry \cup {Absent}
        /\ (NotOld => NotOld') /\ (manifest' # Absent => IsIntact(manifest)')
      BY <1>1, <2>2, <2>3 DEF NotOld, IsIntact, MigrationTypes
  <2> QED BY <2>3, <2>4, ServerMoves
<1>5. ASSUME NEW j \in transitionJournals, RecoverTransition(j) PROVE MigrationInv'
  <2>1. j.target \in ManifestEntry /\ j.target.version = 2
      BY <1>1 DEF JournalsHold, TransitionHolds
  <2>2. /\ server = "recovering" /\ UNCHANGED <<legacy, run, upgradeJournals>>
        /\ \/ /\ IsIntact(j.target) /\ manifest' = j.target /\ transitionJournals' = transitionJournals \ {j}
              /\ artifacts' = artifacts \ Superseded(j)
              /\ UNCHANGED <<writer, server>>
           \/ server' = "off" /\ writer' = Absent /\ UNCHANGED <<manifest, artifacts, transitionJournals>>
      BY <1>5 DEF RecoverTransition, Blocked, migrationJournals
  <2>3. Artifact(j.target) \notin Superseded(j)
      BY DEF Superseded
  <2>4. /\ manifest' \in ManifestEntry \cup {Absent}
        /\ (NotOld => NotOld') /\ (manifest' # Absent => IsIntact(manifest)')
      BY <1>1, <2>1, <2>2, <2>3 DEF NotOld, IsIntact, MigrationTypes
  <2> QED BY <2>2, <2>4, ServerMoves
<1> QED BY <1>2, <1>3, <1>4, <1>5

\* The layout before has at most one manifest, of the first version, and no run has begun.
LEMMA InitHolds ==
    ASSUME MigrationInit
    PROVE  MigrationInv
<1>1. /\ run = [r \in Run |-> NewRun] /\ writer = Absent /\ server = "off"
      /\ upgradeJournals = {} /\ transitionJournals = {}
      /\ artifacts = IF manifest = Absent THEN {} ELSE {Artifact(manifest)}
    BY DEF MigrationInit
<1>2. legacy \subseteq Path \X {"document", "findings"}
    BY DEF MigrationInit
<1>3. manifest \in ManifestEntry \cup {Absent}
  <2>1. PICK p \in Path \cup {0} : \E number \in 1 .. 2 :
             manifest = IF p = 0 THEN Absent
                        ELSE Version(1, number, Holding(p, LegacyFindings[p]), "before")
      BY DEF MigrationInit
  <2>2. CASE p # 0
    <3>1. PICK number \in 1 .. 2 : manifest = Version(1, number, Holding(p, LegacyFindings[p]), "before")
        BY <2>1, <2>2
    <3>2. p \in Path
        BY <2>2
    <3> QED BY <3>1, <3>2 DEF Version, Holding, ManifestEntry, GameContent
  <2> QED BY <2>1, <2>2
<1>4. NewRun \in RunState /\ NewRun.step = "idle"
    BY DEF NewRun, RunState, RunSteps
<1>5. MigrationTypes
    BY <1>1, <1>2, <1>3, <1>4, MigrationAssumption DEF MigrationTypes
<1>6. ASSUME NEW r \in Run PROVE RunHolds(r)
  <2>1. run[r].step = "idle"
      BY <1>1, <1>4
  <2> QED BY <2>1 DEF RunHolds, KeepsLock, KnowsUpgrade, KnowsFiles, KnowsContent,
                      Locking, Lifting, Writing, Archiving, Discarding
<1>7. JournalsHold /\ (manifest # Absent => IsIntact(manifest))
    BY <1>1 DEF JournalsHold, IsIntact
<1> QED BY <1>5, <1>6, <1>7 DEF MigrationInv

\* Every step keeps what is said of the migration.
LEMMA MigrationStays == MigrationInv /\ [MigrationNext]_migrationVars => MigrationInv'
<1> SUFFICES ASSUME MigrationInv, [MigrationNext]_migrationVars PROVE MigrationInv'
    OBVIOUS
<1>1. CASE UNCHANGED migrationVars
  <2>1. /\ UNCHANGED <<legacy, manifest, artifacts, upgradeJournals, transitionJournals, writer, run, server>>
        /\ NotOld => NotOld'
      BY <1>1 DEF migrationVars, NotOld
  <2>2. MigrationTypes' /\ (manifest' # Absent => IsIntact(manifest)')
      BY <2>1 DEF MigrationInv, MigrationTypes, IsIntact
  <2>3. JournalsHold'
      BY <2>1 DEF MigrationInv, JournalsHold, UpgradeHolds, TransitionHolds, Upgrade, Transition, MigratedEntry
  <2>4. ASSUME NEW q \in Run PROVE RunHolds(q)'
    <3>1. run[q].step = "scanned" => server = "off"
        BY DEF MigrationInv, RunHolds, KeepsLock
    <3> QED BY <2>1, <3>1, OthersHold
  <2> QED BY <2>2, <2>3, <2>4 DEF MigrationInv
<1>2. ASSUME NEW r \in Run, RunStep(r) \/ Die(r) PROVE MigrationInv'
    BY <1>2, ScanHolds, TakeLockHolds, UpgradeHeld, PrepareHolds, RunsWriteTheirs, ArchivesHold, DiscardsHold, EndsHold
       DEF RunStep
<1> QED BY <1>1, <1>2, OpenHolds, ServerHolds DEF MigrationNext

\* What is said of the migration holds in every state.
LEMMA MigrationHolds == MigrationSpec => []MigrationInv
    BY InitHolds, MigrationStays, PTL DEF MigrationSpec

\* A current manifest names an artifact that is there, wherever runs and the server die; and
\* once a run is done and none has died, no file of the layout before and no journal is left
\* for the server to refuse or repair (migrateWorkspaceLayout, StagingWorkspace.open).
THEOREM MigrationSound == MigrationSpec => []MigrationIsSound
<1>1. MigrationInv => MigrationIsSound
  <2> SUFFICES ASSUME MigrationInv PROVE MigrationIsSound
      OBVIOUS
  <2>1. manifest # Absent => IsIntact(manifest)
      BY DEF MigrationInv
  <2>2. ASSUME NEW r \in Run, run[r].step = "done", \A q \in Run : run[q].step # "dead", writer = Absent
        PROVE  /\ Candidates = {} /\ migrationJournals = <<{}, {}>>
               /\ manifest = Absent \/ manifest.version = 2
    <3>1. Candidates = {} /\ NotOld
        BY <2>2 DEF MigrationInv, RunHolds, KnowsFiles, KnowsUpgrade
    <3>2. \A q \in Run : run[q].step \notin Locking
        BY <2>2, MigrationAssumption DEF MigrationInv, RunHolds, KeepsLock
    <3>3. upgradeJournals = {} /\ transitionJournals = {}
        BY <2>2, <3>2 DEF MigrationInv, JournalsHold, UpgradeHolds, TransitionHolds, Locking, Lifting, Writing, Archiving
    <3> QED BY <3>1, <3>3 DEF NotOld, migrationJournals
  <2> QED BY <2>1, <2>2 DEF MigrationIsSound, At
<1> QED BY <1>1, MigrationHolds, PTL

-----------------------------------------------------------------------------
\* What a run finds to select and to leave out.
LEMMA ScanSelects ==
    ASSUME MigrationInv, NEW r \in Run, Scan(r)
    PROVE  /\ \A q \in Run \ {r} : run'[q] = run[q]
           /\ run'[r].content = run[r].content /\ run'[r].step \in {"refused", "scanned"}
           /\ \/ run'[r].selected = run[r].selected /\ run'[r].discarded = run[r].discarded
              \/ /\ \A p \in run'[r].selected : Selectable(p)
                 /\ \A p \in run'[r].discarded : p \in Path /\ p # Resolution[r]
<1> DEFINE selected == CASE Cardinality(Candidates) = 1 -> Candidates
                         [] Cardinality(Candidates) > 1 -> Candidates \cap {Resolution[r]}
                         [] OTHER -> {}
           broken == manifest # Absent /\ manifest.version = 1 /\ ~ IsIntact(manifest)
           upgrade == IF manifest # Absent /\ manifest.version = 1 THEN manifest ELSE Absent
<1>1. run \in [Run -> RunState]
    BY DEF MigrationInv, MigrationTypes
<1>2. Candidates \subseteq Path /\ IsFiniteSet(Candidates)
    BY MigrationAssumption, FS_Subset DEF Candidates
<1>3. CASE run' = [run EXCEPT ![r].step = "refused"]
    BY <1>1, <1>3 DEF RunState
<1>4. CASE /\ ~ broken /\ (Candidates # {} => selected # {})
           /\ run' = [run EXCEPT ![r] = [@ EXCEPT !.step = "scanned", !.selected = selected,
                                           !.discarded = Candidates \ selected, !.upgrade = upgrade]]
  <2>1. /\ \A p \in selected : Selectable(p)
        /\ \A p \in Candidates \ selected : p \in Path /\ p # Resolution[r]
    <3>1. CASE Cardinality(Candidates) = 1
      <4>1. \E p : Candidates = {p}
          BY <1>2, <3>1, FS_Singleton
      <4> QED BY <3>1, <4>1 DEF Selectable
    <3>2. CASE Cardinality(Candidates) > 1 /\ Cardinality(Candidates) # 1
        BY <1>2, <3>2 DEF Selectable
    <3>3. CASE ~(Cardinality(Candidates) > 1) /\ Cardinality(Candidates) # 1
        BY <1>4, <3>3
    <3> QED BY <3>1, <3>2, <3>3
  <2> HIDE DEF selected, upgrade, broken
  <2>2. /\ run'[r].step = "scanned" /\ run'[r].selected = selected
        /\ run'[r].discarded = Candidates \ selected /\ run'[r].content = run[r].content
        /\ \A q \in Run \ {r} : run'[q] = run[q]
      BY <1>1, <1>4 DEF RunState
  <2> QED BY <2>1, <2>2
<1> QED BY <1>3, <1>4 DEF Scan

\* With one choice for all there is one file to select.
LEMMA OneSelectable ==
    ASSUME OneResolution, NEW p, NEW q, Selectable(p), Selectable(q)
    PROVE  p = q
    BY DEF Selectable, OneResolution

\* What a run has in its hands once it has selected a file.
LEMMA ChosenIsSelected ==
    ASSUME MigrationInv, NEW r \in Run, run[r].step \in Writing \cup Archiving \cup {"preparing"}
    PROVE  Chosen(r) \in run[r].selected /\ Chosen(r) \in Path
<1>1. run[r].selected # {} /\ run[r].selected \subseteq Path
    BY DEF MigrationInv, MigrationTypes, RunState, RunHolds, KnowsFiles
<1> QED BY <1>1 DEF Chosen

\* The steps of a run by what they write.
LEMMA RunWrites ==
    ASSUME MigrationInv, NEW r \in Run, RunStep(r) \/ Die(r)
    PROVE  /\ UNCHANGED <<server, saves>>
           /\ \A q \in Run \ {r} : run'[q] = run[q]
           /\ Scan(r) \/ (/\ run'[r].selected = run[r].selected
                          /\ run'[r].discarded \subseteq run[r].discarded)
           /\ Prepare(r) \/ run'[r].content = run[r].content
           /\ run'[r].step \in Writing => run[r].step \in Writing \cup {"preparing"}
           /\ run'[r].step \in Writing /\ run[r].step = "preparing" => Prepare(r)
           /\ run'[r].step \in Archiving \cup Discarding =>
                 run[r].step \in Archiving \cup Discarding \/ PointManifest(r)
           /\ LiftManifest(r) \/ PointManifest(r) \/ UNCHANGED manifest
           /\ NoteTransition(r) \/ transitionJournals' \subseteq transitionJournals
           /\ run[r].step \in Archiving \cup Discarding \/ UNCHANGED <<legacy, archive>>
<1>1. run \in [Run -> RunState]
    BY DEF MigrationInv, MigrationTypes
<1>2. CASE Scan(r)
    BY <1>2, ScanSelects DEF Scan, migrationJournals, serverVars, Writing, Archiving, Discarding
<1>3. ASSUME NEW to, run' = [run EXCEPT ![r].step = to]
      PROVE  /\ \A q \in Run \ {r} : run'[q] = run[q]
             /\ run'[r].step = to /\ run'[r].selected = run[r].selected
             /\ run'[r].discarded = run[r].discarded /\ run'[r].content = run[r].content
    BY <1>1, <1>3 DEF RunState
<1>4. CASE TakeLock(r)
  <2>1. PICK to \in {"noting", "preparing", "unlocking", "refused"} : run' = [run EXCEPT ![r].step = to]
      BY <1>4 DEF TakeLock, AfterLock, AfterUpgrade
  <2> QED BY <1>3, <1>4, <2>1 DEF TakeLock, migrationJournals, serverVars, Writing, Archiving, Discarding
<1>5. CASE NoteUpgrade(r)
  <2>1. run' = [run EXCEPT ![r].step = "lifting"]
      BY <1>5 DEF NoteUpgrade, Locked, Step
  <2> QED BY <1>3, <1>5, <2>1 DEF NoteUpgrade, serverVars, Writing, Archiving, Discarding
<1>6. CASE LiftManifest(r)
  <2>1. run' = [run EXCEPT ![r].step = "lifted"]
      BY <1>6 DEF LiftManifest, Locked, Step
  <2> QED BY <1>3, <1>6, <2>1 DEF LiftManifest, migrationJournals, serverVars, Writing, Archiving, Discarding
<1>7. CASE ForgetUpgrade(r)
  <2>1. PICK to \in {"preparing", "unlocking"} : run' = [run EXCEPT ![r].step = to]
      BY <1>7 DEF ForgetUpgrade, Locked, Step, AfterUpgrade
  <2> QED BY <1>3, <1>7, <2>1 DEF ForgetUpgrade, serverVars, Writing, Archiving, Discarding
<1>8. CASE Prepare(r)
  <2>1. /\ \A q \in Run \ {r} : run'[q] = run[q]
        /\ run'[r].step \in {"writing", "unlocking"} /\ run'[r].selected = run[r].selected
        /\ run'[r].discarded = run[r].discarded
      BY <1>1, <1>8 DEF Prepare, RunState
  <2>2. run[r].step = "preparing" /\ UNCHANGED <<server, saves, manifest, transitionJournals, legacy, archive>>
      BY <1>8 DEF Prepare, At, migrationJournals, serverVars
  <2> QED BY <1>8, <2>1, <2>2 DEF Writing, Archiving, Discarding
<1>9. CASE WriteArtifact(r)
  <2>1. run' = [run EXCEPT ![r].step = "journaling"] /\ run[r].step = "writing"
      BY <1>9 DEF WriteArtifact, Locked, Step, At
  <2> QED BY <1>3, <1>9, <2>1 DEF WriteArtifact, migrationJournals, serverVars, Writing, Archiving, Discarding
<1>10. CASE NoteTransition(r)
  <2>1. run' = [run EXCEPT ![r].step = "pointing"] /\ run[r].step = "journaling"
      BY <1>10 DEF NoteTransition, Locked, Step, At
  <2> QED BY <1>3, <1>10, <2>1 DEF NoteTransition, serverVars, Writing, Archiving, Discarding
<1>11. CASE PointManifest(r)
  <2>1. run' = [run EXCEPT ![r].step = "archiving"] /\ run[r].step = "pointing"
      BY <1>11 DEF PointManifest, Locked, Step, At
  <2> QED BY <1>3, <1>11, <2>1 DEF PointManifest, migrationJournals, serverVars, Writing, Archiving, Discarding
<1>12. CASE ArchiveDocument(r) \/ ArchiveFindings(r)
  <2>1. PICK to \in {"archivingFindings", "archived"} : run' = [run EXCEPT ![r].step = to]
      BY <1>12 DEF ArchiveDocument, ArchiveFindings, Locked, Step, At
  <2>2. /\ run[r].step \in Archiving
        /\ UNCHANGED <<server, saves, manifest, transitionJournals>>
      BY <1>12 DEF ArchiveDocument, ArchiveFindings, Locked, Step, At, migrationJournals, serverVars, Archiving
  <2> QED BY <1>3, <2>1, <2>2 DEF Writing, Archiving, Discarding
<1>13. CASE ForgetTransition(r)
  <2>1. run' = [run EXCEPT ![r].step = "discarding"] /\ run[r].step = "archived"
      BY <1>13 DEF ForgetTransition, Locked, Step, At
  <2> QED BY <1>3, <1>13, <2>1 DEF ForgetTransition, serverVars, Writing, Archiving, Discarding
<1>14. CASE DiscardDocument(r)
  <2>1. /\ \A q \in Run \ {r} : run'[q] = run[q]
        /\ run'[r].step \in {"unlocking", "discardingFindings"} /\ run'[r].selected = run[r].selected
        /\ run'[r].discarded = run[r].discarded /\ run'[r].content = run[r].content
      BY <1>1, <1>14 DEF DiscardDocument, RunState
  <2>2. run[r].step = "discarding" /\ UNCHANGED <<server, saves, manifest, transitionJournals>>
      BY <1>14 DEF DiscardDocument, At, migrationJournals, serverVars
  <2> QED BY <2>1, <2>2 DEF Writing, Archiving, Discarding
<1>15. CASE DiscardFindings(r)
  <2>1. /\ run' = [run EXCEPT ![r].step = "discarding", ![r].discarded = @ \ {NextDiscarded(r)}]
        /\ run[r].step = "discardingFindings" /\ UNCHANGED <<server, saves, manifest, transitionJournals>>
      BY <1>15 DEF DiscardFindings, At, migrationJournals, serverVars
  <2>2. /\ \A q \in Run \ {r} : run'[q] = run[q]
        /\ run'[r].step = "discarding" /\ run'[r].selected = run[r].selected
        /\ run'[r].discarded \subseteq run[r].discarded /\ run'[r].content = run[r].content
      BY <1>1, <2>1 DEF RunState
  <2> QED BY <2>1, <2>2 DEF Writing, Archiving, Discarding
<1>16. CASE Unlock(r) \/ Die(r)
  <2>1. PICK to \in {"failed", "done", "dead"} : run' = [run EXCEPT ![r].step = to]
      BY <1>16 DEF Unlock, Die, Locked, Step
  <2>2. UNCHANGED <<server, saves, manifest, transitionJournals, legacy, archive>>
      BY <1>16 DEF Unlock, Die, migrationJournals, serverVars
  <2> QED BY <1>3, <2>1, <2>2 DEF Writing, Archiving, Discarding
<1> QED BY <1>2, <1>4, <1>5, <1>6, <1>7, <1>8, <1>9, <1>10, <1>11, <1>12, <1>13, <1>14, <1>15, <1>16 DEF RunStep

\* A run gives the manifest the content it has.
LEMMA RunKeepsContent ==
    ASSUME MigrationInv, NEW r \in Run, LiftManifest(r) \/ PointManifest(r)
    PROVE  /\ LiftManifest(r) => manifest # Absent
           /\ PointManifest(r) => manifest'.content = run[r].content
           /\ manifest' # Absent
           /\ manifest # Absent => manifest'.content = manifest.content
<1>1. MigrationTypes /\ RunHolds(r)
    BY DEF MigrationInv
<1>2. CASE LiftManifest(r)
  <2>1. run[r].step = "lifting" /\ manifest' = Lifted(run[r].upgrade)
      BY <1>2 DEF LiftManifest, Locked, Step, At
  <2>2. /\ run[r].upgrade # Absent /\ manifest # Absent /\ manifest.content = run[r].upgrade.content
      BY <1>1, <2>1 DEF RunHolds, KnowsUpgrade, Lifting
  <2>3. run[r].upgrade \in ManifestEntry
      BY <1>1, <2>2 DEF MigrationTypes, RunState
  <2>4. manifest' \in ManifestEntry /\ manifest'.content = manifest.content
      BY <2>1, <2>2, <2>3, ArtifactOfLifted
  <2>5. ~ PointManifest(r)
      BY <2>1 DEF PointManifest, Locked, Step, At
  <2> QED BY <2>2, <2>4, <2>5, MigrationAssumption
<1>3. CASE PointManifest(r)
  <2>1. run[r].step = "pointing" /\ manifest' = MigratedEntry(r)
      BY <1>3 DEF PointManifest, Locked, Step, At
  <2>2. run[r].content \in GameContent /\ (manifest # Absent => manifest.content = run[r].content)
      BY <1>1, <2>1 DEF RunHolds, KnowsContent, Writing
  <2>3. MigratedEntry(r) \in ManifestEntry /\ MigratedEntry(r).content = run[r].content
      BY <2>2 DEF MigratedEntry, Version, ManifestEntry
  <2>4. ~ LiftManifest(r)
      BY <2>1 DEF LiftManifest, Locked, Step, At
  <2> QED BY <2>1, <2>2, <2>3, <2>4, MigrationAssumption
<1> QED BY <1>2, <1>3

\* A step of the server by what it writes.
LEMMA ServerWrites ==
    ASSUME MigrationInv, saves \in Nat,
           \/ Open \/ Close \/ Check \/ SaveEdited
           \/ \E j \in upgradeJournals : RecoverUpgrade(j)
           \/ \E j \in transitionJournals : RecoverTransition(j)
    PROVE  /\ UNCHANGED <<legacy, archive, run>> /\ saves' \in Nat
           /\ transitionJournals' \subseteq transitionJournals
           /\ \/ UNCHANGED manifest
              \/ /\ manifest # Absent /\ manifest' # Absent
                 /\ saves' = saves => manifest'.content = manifest.content
                 /\ saves' # saves => transitionJournals = {}
              \/ \E j \in transitionJournals : manifest' = j.target /\ manifest' # Absent /\ saves' = saves
<1>1. MigrationTypes /\ JournalsHold
    BY DEF MigrationInv
<1>2. CASE Open \/ Close \/ Check
    BY <1>2 DEF Open, Close, Check, Blocked, migrationJournals
<1>3. CASE SaveEdited
  <2>1. /\ manifest # Absent /\ server = "on" /\ saves' = saves + 1
        /\ manifest' = Version(2, manifest.generation + 1, Edited, "server")
        /\ UNCHANGED <<legacy, archive, run, transitionJournals>>
      BY <1>3 DEF SaveEdited, migrationJournals
  <2>2. manifest' \in ManifestEntry
      BY <1>1, <2>1 DEF MigrationTypes, ManifestEntry, Version, Edited, GameContent
  <2>3. transitionJournals = {}
      BY <1>1, <2>1 DEF JournalsHold
  <2>4. saves' # saves => transitionJournals = {}
      BY <2>3
  <2>5. saves' # saves /\ saves' \in Nat
      BY <2>1
  <2> QED BY <2>1, <2>2, <2>3, <2>5, MigrationAssumption
<1>4. ASSUME NEW j \in upgradeJournals, RecoverUpgrade(j)
      PROVE  /\ UNCHANGED <<legacy, archive, run, transitionJournals, saves>>
             /\ \/ UNCHANGED manifest
                \/ /\ manifest # Absent /\ manifest' # Absent
                   /\ manifest'.content = manifest.content
  <2>1. j.previous \in ManifestEntry /\ j.target = Lifted(j.previous)
      BY <1>1 DEF JournalsHold, UpgradeHolds
  <2>2. j.target \in ManifestEntry /\ j.target.content = j.previous.content
      BY <2>1, ArtifactOfLifted
  <2>3. /\ UNCHANGED <<legacy, archive, run, transitionJournals, saves>>
        /\ UNCHANGED manifest \/ (manifest \in {j.previous, j.target} /\ manifest' = j.target)
      BY <1>4 DEF RecoverUpgrade, Blocked, migrationJournals
  <2> QED BY <2>1, <2>2, <2>3, MigrationAssumption
<1>5. ASSUME NEW j \in transitionJournals, RecoverTransition(j)
      PROVE  /\ UNCHANGED <<legacy, archive, run, saves>> /\ transitionJournals' \subseteq transitionJournals
             /\ UNCHANGED manifest \/ (manifest' = j.target /\ manifest' # Absent)
  <2>1. j.target \in ManifestEntry
      BY <1>1 DEF JournalsHold, TransitionHolds
  <2> QED BY <1>5, <2>1, MigrationAssumption DEF RecoverTransition, Blocked, migrationJournals
<1> QED BY <1>2, <1>3, <1>4, <1>5

\* While there is no manifest, what was read and noted is what is in the file to select.
LEMMA RunAgrees ==
    ASSUME OneResolution, MigrationInv, ContentsAgree, NEW r \in Run, RunStep(r) \/ Die(r)
    PROVE  ContentsAgree'
<1>1. /\ \A q \in Run \ {r} : run'[q] = run[q]
      /\ Scan(r) \/ run'[r].selected = run[r].selected
      /\ Prepare(r) \/ run'[r].content = run[r].content
      /\ run'[r].step \in Writing => run[r].step \in Writing \cup {"preparing"}
      /\ run'[r].step \in Writing /\ run[r].step = "preparing" => Prepare(r)
      /\ run'[r].step \in Archiving \cup Discarding => run[r].step \in Archiving \cup Discarding \/ PointManifest(r)
      /\ LiftManifest(r) \/ PointManifest(r) \/ UNCHANGED manifest
      /\ NoteTransition(r) \/ transitionJournals' \subseteq transitionJournals
      /\ run[r].step \in Archiving \cup Discarding \/ UNCHANGED legacy
    BY RunWrites
<1>2. manifest # Absent => manifest' # Absent /\ manifest'.content = manifest.content
    BY <1>1, RunKeepsContent
<1>3. \A q \in Run : run'[q].step \in Archiving \cup Discarding => manifest' # Absent
    BY <1>1, <1>2, RunKeepsContent DEF ContentsAgree
<1>4. ASSUME NoteTransition(r)
      PROVE  /\ transitionJournals' = transitionJournals \cup {Transition(r)}
             /\ Transition(r).target.content = run[r].content /\ run[r].step \in Writing
             /\ UNCHANGED manifest
             /\ manifest # Absent => manifest.content = run[r].content
  <2>1. /\ transitionJournals' = transitionJournals \cup {Transition(r)} /\ run[r].step = "journaling"
        /\ UNCHANGED manifest
      BY <1>4 DEF NoteTransition, Locked, Step, At
  <2> QED BY <2>1 DEF Transition, MigratedEntry, Version, Writing, MigrationInv, RunHolds, KnowsContent
<1>5. CASE manifest # Absent
  <2>1. ASSUME NEW j \in transitionJournals' PROVE manifest'.content = j.target.content
      BY <1>1, <1>2, <1>4, <1>5, <2>1 DEF ContentsAgree
  <2> QED BY <1>2, <1>3, <1>5, <2>1 DEF ContentsAgree
<1>6. ASSUME manifest = Absent, NEW q \in Run, run[q].step \in Writing
      PROVE  /\ Selectable(Chosen(q)) /\ Chosen(q) \in Path
             /\ run[q].content = Holding(Chosen(q), FindingsAt(Chosen(q)))
    BY <1>6, ChosenIsSelected DEF ContentsAgree
<1>7. CASE manifest = Absent /\ manifest' = Absent
  <2>1. /\ UNCHANGED legacy /\ ~ LiftManifest(r) /\ ~ PointManifest(r)
        /\ \A p : Selectable(p) <=> Selectable(p)'
        /\ \A p : FindingsAt(p)' = FindingsAt(p)
    <3>1. UNCHANGED legacy /\ ~ LiftManifest(r) /\ ~ PointManifest(r)
        BY <1>1, <1>7, RunKeepsContent DEF ContentsAgree
    <3> QED BY <3>1 DEF Selectable, Candidates, FindingsAt
  <2>2. ASSUME NEW q \in Run, NEW p \in run'[q].selected PROVE Selectable(p)'
    <3>1. CASE run'[q].selected = run[q].selected
        BY <1>7, <2>1, <2>2, <3>1 DEF ContentsAgree
    <3>2. CASE run'[q].selected # run[q].selected
      <4>1. q = r /\ Scan(r)
          BY <1>1, <3>2
      <4>2. Selectable(p)
          BY <2>2, <3>2, <4>1, ScanSelects
      <4> QED BY <2>1, <4>2
    <3> QED BY <3>1, <3>2
  <2>3. ASSUME NEW q \in Run, run'[q].step \in Writing
        PROVE  run'[q].content = Holding(Chosen(q), FindingsAt(Chosen(q)))'
    <3>1. CASE q = r /\ Prepare(r)
      <4>1. /\ run' = [run EXCEPT ![r].step = "writing", ![r].content = Holding(Chosen(r), FindingsAt(Chosen(r))),
                                 ![r].existing = manifest]
            \/ run' = [run EXCEPT ![r].step = "unlocking", ![r].failed = TRUE]
          BY <3>1 DEF Prepare
      <4>2. run \in [Run -> RunState]
          BY DEF MigrationInv, MigrationTypes
      <4>3. /\ run'[r].selected = run[r].selected
            /\ run'[r].content = Holding(Chosen(r), FindingsAt(Chosen(r)))
        <5>1. CASE run' = [run EXCEPT ![r].step = "unlocking", ![r].failed = TRUE]
          <6>1. run'[r].step = "unlocking"
              BY <4>2, <5>1 DEF RunState
          <6> QED BY <2>3, <3>1, <6>1 DEF Writing
        <5> DEFINE content == Holding(Chosen(r), FindingsAt(Chosen(r)))
        <5>2. CASE run' = [run EXCEPT ![r].step = "writing", ![r].content = content, ![r].existing = manifest]
          <6>1. run'[r].selected = run[r].selected /\ run'[r].content = content
            <7> HIDE DEF content
            <7> QED BY <4>2, <5>2 DEF RunState
          <6> QED BY <6>1
        <5> QED BY <4>1, <5>1, <5>2
      <4> QED BY <2>1, <3>1, <4>3 DEF Chosen, FindingsAt, Holding
    <3>2. CASE ~(q = r /\ Prepare(r))
      <4>1. run[q].step \in Writing /\ run'[q].content = run[q].content /\ run'[q].selected = run[q].selected
        <5>1. CASE q = r
          <6>1. run[r].step \in Writing
              BY <1>1, <2>3, <3>2, <5>1
          <6>2. ~ Scan(r)
              BY <6>1 DEF Scan, At, Writing
          <6> QED BY <1>1, <3>2, <5>1, <6>1, <6>2
        <5> QED BY <1>1, <2>3, <5>1
      <4>2. run[q].content = Holding(Chosen(q), FindingsAt(Chosen(q)))
          BY <1>6, <1>7, <4>1
      <4> QED BY <2>1, <4>1, <4>2 DEF Chosen, FindingsAt, Holding
    <3> QED BY <3>1, <3>2
  <2>4. ASSUME NEW j \in transitionJournals'
        PROVE  \E p \in Path : Selectable(p)' /\ j.target.content = Holding(p, FindingsAt(p))'
    <3>1. \E p \in Path : Selectable(p) /\ j.target.content = Holding(p, FindingsAt(p))
      <4>1. CASE j \in transitionJournals
          BY <1>7, <4>1 DEF ContentsAgree
      <4>2. CASE NoteTransition(r) /\ j = Transition(r)
          BY <1>4, <1>6, <1>7, <4>2
      <4> QED BY <1>1, <1>4, <4>1, <4>2
    <3> QED BY <2>1, <3>1 DEF FindingsAt, Holding
  <2> QED BY <1>3, <1>7, <2>2, <2>3, <2>4 DEF ContentsAgree
<1>8. CASE manifest = Absent /\ manifest' # Absent
  <2>1. PointManifest(r) /\ manifest'.content = run[r].content
      BY <1>1, <1>8, RunKeepsContent
  <2>2. run[r].step \in Writing /\ UNCHANGED transitionJournals
      BY <2>1 DEF PointManifest, Locked, Step, At, migrationJournals, Writing
  <2>3. ASSUME NEW j \in transitionJournals PROVE manifest'.content = j.target.content
    <3>1. PICK p \in Path : Selectable(p) /\ j.target.content = Holding(p, FindingsAt(p))
        BY <1>8 DEF ContentsAgree
    <3> QED BY <1>6, <1>8, <2>1, <2>2, <3>1, OneSelectable
  <2> QED BY <1>3, <1>8, <2>2, <2>3 DEF ContentsAgree
<1> QED BY <1>5, <1>7, <1>8

\* The repair brings back what all the journals say.
LEMMA ServerAgrees ==
    ASSUME OneResolution, MigrationInv, ContentsAgree, saves \in Nat,
           \/ Open \/ Close \/ Check \/ SaveEdited
           \/ \E j \in upgradeJournals : RecoverUpgrade(j)
           \/ \E j \in transitionJournals : RecoverTransition(j)
    PROVE  ContentsAgree' /\ (manifest # Absent /\ saves' = saves =>
                                 manifest' # Absent /\ manifest'.content = manifest.content)
<1>1. /\ UNCHANGED <<legacy, archive, run>>
      /\ transitionJournals' \subseteq transitionJournals
      /\ \/ UNCHANGED manifest
         \/ /\ manifest # Absent /\ manifest' # Absent
            /\ saves' = saves => manifest'.content = manifest.content
            /\ saves' # saves => transitionJournals = {}
         \/ \E j \in transitionJournals : manifest' = j.target /\ manifest' # Absent /\ saves' = saves
    BY ServerWrites
<1>2. /\ \A p : Selectable(p) <=> Selectable(p)'
      /\ \A p : FindingsAt(p)' = FindingsAt(p)
      /\ \A r \in Run : Chosen(r)' = Chosen(r)
    BY <1>1 DEF Selectable, Candidates, FindingsAt, Chosen
<1>3. manifest # Absent => manifest' # Absent
    BY <1>1
<1>4. CASE UNCHANGED manifest
  <2>1. ASSUME manifest = Absent, NEW r \in Run
        PROVE  /\ \A p \in run'[r].selected : Selectable(p)'
               /\ run'[r].step \in Writing => run'[r].content = Holding(Chosen(r), FindingsAt(Chosen(r)))'
    <3>1. \A p \in run'[r].selected : Selectable(p)'
        BY <1>1, <1>2, <2>1 DEF ContentsAgree
    <3>2. run'[r].step \in Writing => run'[r].content = Holding(Chosen(r), FindingsAt(Chosen(r)))'
        BY <1>1, <2>1 DEF ContentsAgree, FindingsAt, Holding, Chosen
    <3> QED BY <3>1, <3>2
  <2>4. ASSUME manifest = Absent, NEW j \in transitionJournals
        PROVE  \E p \in Path : Selectable(p)' /\ j.target.content = Holding(p, FindingsAt(p))'
    <3>1. PICK p \in Path : Selectable(p) /\ j.target.content = Holding(p, FindingsAt(p))
        BY <2>4 DEF ContentsAgree
    <3>2. j.target.content = Holding(p, FindingsAt(p))'
        BY <1>1, <3>1 DEF FindingsAt, Holding
    <3> QED BY <1>2, <3>1, <3>2
  <2>2. \A j \in transitionJournals' : manifest' # Absent => manifest'.content = j.target.content
      BY <1>1, <1>4 DEF ContentsAgree
  <2>3. \A r \in Run : run'[r].step \in Archiving \cup Discarding => manifest' # Absent
      BY <1>1, <1>3 DEF ContentsAgree
  <2> QED BY <1>1, <1>4, <2>1, <2>2, <2>3, <2>4 DEF ContentsAgree
<1>5. CASE /\ manifest # Absent /\ manifest' # Absent
           /\ saves' = saves => manifest'.content = manifest.content
           /\ saves' # saves => transitionJournals = {}
    BY <1>1, <1>5 DEF ContentsAgree
<1>6. CASE \E j \in transitionJournals : manifest' = j.target /\ manifest' # Absent /\ saves' = saves
  <2>1. PICK j \in transitionJournals : manifest' = j.target /\ manifest' # Absent
      BY <1>6
  <2>2. ASSUME NEW i \in transitionJournals PROVE i.target.content = j.target.content
    <3>1. CASE manifest # Absent
        BY <3>1 DEF ContentsAgree
    <3>2. CASE manifest = Absent
      <4>1. PICK p \in Path : Selectable(p) /\ j.target.content = Holding(p, FindingsAt(p))
          BY <3>2 DEF ContentsAgree
      <4>2. PICK q \in Path : Selectable(q) /\ i.target.content = Holding(q, FindingsAt(q))
          BY <3>2 DEF ContentsAgree
      <4> QED BY <4>1, <4>2, OneSelectable
    <3> QED BY <3>1, <3>2
  <2>3. manifest # Absent => manifest.content = j.target.content
      BY DEF ContentsAgree
  <2>4. \A i \in transitionJournals' : manifest'.content = i.target.content
      BY <1>1, <2>1, <2>2
  <2>5. ContentsAgree'
      BY <1>1, <2>1, <2>4 DEF ContentsAgree
  <2> QED BY <2>1, <2>3, <2>5
<1> QED BY <1>1, <1>4, <1>5, <1>6

-----------------------------------------------------------------------------
\* The name of a file in the archive tells what is in it.
LEMMA NamesTell ==
    ASSUME FindingsTold, NEW f, Archived(f)
    PROVE  /\ \A c : f.name = <<"selected", c, "document">> => f.value = c.document
           /\ \A c : f.name = <<"selected", c, "findings">> => f.value = c.findings
           /\ \A d : f.name = <<"discarded", d, "document">> => f.value = d
           /\ \A p : LeftOut(p) /\ f.name = <<"discarded", LegacyDocument[p], "findings">> => f.value = LegacyFindings[p]
<1>1. ASSUME NEW c \in GameContent, f = [name |-> <<"selected", c, "document">>, value |-> c.document]
      PROVE  /\ \A d : f.name = <<"selected", d, "document">> => f.value = d.document
             /\ f.name[1] = "selected" /\ f.name[3] = "document"
    BY <1>1
<1>2. ASSUME NEW c \in GameContent, f = [name |-> <<"selected", c, "findings">>, value |-> c.findings]
      PROVE  /\ \A d : f.name = <<"selected", d, "findings">> => f.value = d.findings
             /\ f.name[1] = "selected" /\ f.name[3] = "findings"
    BY <1>2
<1>3. ASSUME NEW p \in Path,
             f = [name |-> <<"discarded", LegacyDocument[p], "document">>, value |-> LegacyDocument[p]]
      PROVE  /\ \A d : f.name = <<"discarded", d, "document">> => f.value = d
             /\ f.name[1] = "discarded" /\ f.name[3] = "document"
    BY <1>3
<1>4. ASSUME NEW p \in Path, LeftOut(p),
             f = [name |-> <<"discarded", LegacyDocument[p], "findings">>, value |-> LegacyFindings[p]]
      PROVE  /\ \A q : LeftOut(q) /\ f.name = <<"discarded", LegacyDocument[q], "findings">> => f.value = LegacyFindings[q]
             /\ f.name[1] = "discarded" /\ f.name[3] = "findings"
  <2>1. ASSUME NEW q, LeftOut(q), f.name = <<"discarded", LegacyDocument[q], "findings">>
        PROVE  f.value = LegacyFindings[q]
    <3>1. LegacyDocument[p] = LegacyDocument[q]
        BY <1>4, <2>1
    <3>2. q \in Path
        BY <2>1 DEF LeftOut
    <3> QED BY <1>4, <2>1, <3>1, <3>2 DEF FindingsTold
  <2> QED BY <1>4, <2>1
<1>5. \A d : <<"selected", d, "document">>[1] = "selected" /\ <<"selected", d, "document">>[3] = "document"
    OBVIOUS
<1>6. \A d : <<"selected", d, "findings">>[1] = "selected" /\ <<"selected", d, "findings">>[3] = "findings"
    OBVIOUS
<1>7. \A d : <<"discarded", d, "document">>[1] = "discarded" /\ <<"discarded", d, "document">>[3] = "document"
    OBVIOUS
<1>8. \A d : <<"discarded", d, "findings">>[1] = "discarded" /\ <<"discarded", d, "findings">>[3] = "findings"
    OBVIOUS
<1>9. CASE \E c \in GameContent : f = [name |-> <<"selected", c, "document">>, value |-> c.document]
    BY <1>1, <1>5, <1>6, <1>7, <1>8, <1>9
<1>10. CASE \E c \in GameContent : f = [name |-> <<"selected", c, "findings">>, value |-> c.findings]
    BY <1>2, <1>5, <1>6, <1>7, <1>8, <1>10
<1>11. CASE \E p \in Path : f = [name |-> <<"discarded", LegacyDocument[p], "document">>, value |-> LegacyDocument[p]]
    BY <1>3, <1>5, <1>6, <1>7, <1>8, <1>11
<1>12. CASE \E p \in Path : LeftOut(p)
             /\ f = [name |-> <<"discarded", LegacyDocument[p], "findings">>, value |-> LegacyFindings[p]]
    BY <1>4, <1>5, <1>6, <1>7, <1>8, <1>12
<1> QED BY <1>9, <1>10, <1>11, <1>12 DEF Archived

\* A file that moves under a name of its own loses nothing.
LEMMA MovedKeeps ==
    ASSUME NEW name, NEW p, NEW piece, NEW value, Moved(name, p, piece, value), name[3] = piece,
           <<p, piece>> \in legacy =>
               /\ value = IF piece = "document" THEN LegacyDocument[p] ELSE LegacyFindings[p]
               /\ \A f \in archive : f.name = name => f.value = value
    PROVE  /\ Kept \subseteq Kept'
           /\ \A f \in archive' : f \in archive \/ (f = [name |-> name, value |-> value] /\ <<p, piece>> \in legacy)
<1> DEFINE what(f) == <<f[2], IF f[2] = "document" THEN LegacyDocument[f[1]] ELSE LegacyFindings[f[1]]>>
           file == [name |-> name, value |-> value]
<1>1. /\ legacy' = legacy \ {<<p, piece>>}
      /\ <<p, piece>> \in legacy => archive' = {f \in archive : f.name # name} \cup {file}
      /\ <<p, piece>> \notin legacy => archive' = archive
    BY DEF Moved
<1>2. <<p, piece>> \in legacy => what(<<p, piece>>) = <<file.name[3], file.value>>
    OBVIOUS
<1>3. Kept = {what(f) : f \in legacy} \cup {<<f.name[3], f.value>> : f \in archive}
    BY DEF Kept
<1>4. Kept' = {what(f) : f \in legacy'} \cup {<<f.name[3], f.value>> : f \in archive'}
    BY DEF Kept
<1>5. file.name = name /\ file.value = value
    OBVIOUS
<1> HIDE DEF what, file
<1>6. ASSUME NEW f \in legacy PROVE what(f) \in Kept'
  <2>1. CASE f = <<p, piece>>
    <3>1. file \in archive'
        BY <1>1, <2>1
    <3> QED BY <1>2, <1>4, <2>1, <3>1
  <2>2. CASE f # <<p, piece>>
      BY <1>1, <1>4, <2>2
  <2> QED BY <2>1, <2>2
<1>7. ASSUME NEW f \in archive PROVE <<f.name[3], f.value>> \in Kept'
  <2>1. CASE f \in archive'
      BY <1>4, <2>1
  <2>2. CASE f \notin archive'
    <3>1. <<p, piece>> \in legacy /\ f.name = name /\ f.value = value /\ file \in archive'
        BY <1>1, <2>2
    <3> QED BY <1>4, <1>5, <3>1
  <2> QED BY <2>1, <2>2
<1>8. Kept \subseteq Kept'
    BY <1>3, <1>6, <1>7
<1>9. \A f \in archive' : f \in archive \/ (f = file /\ <<p, piece>> \in legacy)
    BY <1>1
<1> QED BY <1>8, <1>9 DEF file

\* What is said of the archive when it is written to.
LEMMA ArchivesTell ==
    ASSUME FindingsTold, MigrationInv, ArchiveTold, NEW r \in Run,
           ArchiveDocument(r) \/ ArchiveFindings(r) \/ DiscardDocument(r) \/ DiscardFindings(r)
    PROVE  Kept \subseteq Kept' /\ \A f \in archive' : Archived(f)
<1> DEFINE c == run[r].content
           p == Chosen(r)
           q == NextDiscarded(r)
<1>1. \A f \in archive : Archived(f)
    BY DEF ArchiveTold
<1>2. CASE ArchiveDocument(r)
  <2>1. run[r].step = "archiving" /\ Moved(<<"selected", c, "document">>, p, "document", LegacyDocument[p])
      BY <1>2 DEF ArchiveDocument, Locked, Step, At
  <2>2. c \in GameContent /\ c.document = LegacyDocument[p]
      BY <2>1 DEF MigrationInv, RunHolds, KnowsContent
  <2>3. \A f \in archive : f.name = <<"selected", c, "document">> => f.value = LegacyDocument[p]
      BY <1>1, <2>2, NamesTell
  <2>4. /\ Kept \subseteq Kept'
        /\ \A f \in archive' : f \in archive \/ f = [name |-> <<"selected", c, "document">>, value |-> c.document]
    <3> HIDE DEF c, p
    <3>1. <<"selected", c, "document">>[3] = "document"
        OBVIOUS
    <3> QED BY <2>1, <2>2, <2>3, <3>1, MovedKeeps
  <2> QED BY <1>1, <2>2, <2>4 DEF Archived
<1>3. CASE ArchiveFindings(r)
  <2>1. run[r].step = "archivingFindings"
        /\ Moved(<<"selected", c, "findings">>, p, "findings", LegacyFindings[p])
      BY <1>3 DEF ArchiveFindings, Locked, Step, At
  <2>2. c \in GameContent /\ (<<p, "findings">> \in legacy => c.findings = LegacyFindings[p])
      BY <2>1 DEF MigrationInv, RunHolds, KnowsContent
  <2>3. <<p, "findings">> \in legacy =>
            \A f \in archive : f.name = <<"selected", c, "findings">> => f.value = LegacyFindings[p]
      BY <1>1, <2>2, NamesTell
  <2>4. /\ Kept \subseteq Kept'
        /\ \A f \in archive' : f \in archive \/ f = [name |-> <<"selected", c, "findings">>, value |-> c.findings]
    <3> HIDE DEF c, p
    <3>1. <<"selected", c, "findings">>[3] = "findings"
        OBVIOUS
    <3> QED BY <2>1, <2>2, <2>3, <3>1, MovedKeeps
  <2> QED BY <1>1, <2>2, <2>4 DEF Archived
<1>4. run[r].discarded # {} => q \in Path /\ LeftOut(q)
  <2>1. run[r].discarded \subseteq Path
      BY DEF MigrationInv, MigrationTypes, RunState
  <2> QED BY <2>1, NextIsDiscarded DEF ArchiveTold
<1>5. CASE DiscardDocument(r)
  <2>1. \/ UNCHANGED <<legacy, archive>>
        \/ /\ run[r].discarded # {}
           /\ Moved(<<"discarded", LegacyDocument[q], "document">>, q, "document", LegacyDocument[q])
      BY <1>5 DEF DiscardDocument
  <2>2. CASE UNCHANGED <<legacy, archive>>
      BY <1>1, <2>2 DEF Kept
  <2>3. CASE /\ run[r].discarded # {}
             /\ Moved(<<"discarded", LegacyDocument[q], "document">>, q, "document", LegacyDocument[q])
    <3>1. \A f \in archive : f.name = <<"discarded", LegacyDocument[q], "document">> => f.value = LegacyDocument[q]
        BY <1>1, NamesTell
    <3>2. /\ Kept \subseteq Kept'
          /\ \A f \in archive' : f \in archive \/ f = [name |-> <<"discarded", LegacyDocument[q], "document">>,
                                                    value |-> LegacyDocument[q]]
      <4> HIDE DEF q
      <4>1. <<"discarded", LegacyDocument[q], "document">>[3] = "document"
          OBVIOUS
      <4> QED BY <2>3, <3>1, <4>1, MovedKeeps
    <3> QED BY <1>1, <1>4, <2>3, <3>2 DEF Archived
  <2> QED BY <2>1, <2>2, <2>3
<1>6. CASE DiscardFindings(r)
  <2>1. /\ run[r].step = "discardingFindings"
        /\ Moved(<<"discarded", LegacyDocument[q], "findings">>, q, "findings", LegacyFindings[q])
      BY <1>6 DEF DiscardFindings, At
  <2>2. run[r].discarded # {}
      BY <2>1 DEF MigrationInv, RunHolds, KnowsFiles
  <2>3. \A f \in archive : f.name = <<"discarded", LegacyDocument[q], "findings">> => f.value = LegacyFindings[q]
      BY <1>1, <1>4, <2>2, NamesTell
  <2>4. /\ Kept \subseteq Kept'
        /\ \A f \in archive' : f \in archive \/ f = [name |-> <<"discarded", LegacyDocument[q], "findings">>,
                                                  value |-> LegacyFindings[q]]
    <3> HIDE DEF q
    <3>1. <<"discarded", LegacyDocument[q], "findings">>[3] = "findings"
        OBVIOUS
    <3> QED BY <2>1, <2>3, <3>1, MovedKeeps
  <2> QED BY <1>1, <1>4, <2>2, <2>4 DEF Archived
<1> QED BY <1>2, <1>3, <1>5, <1>6

\* What a run leaves out no resolution selects.
LEMMA RunTells ==
    ASSUME OneResolution, FindingsTold, MigrationInv, ArchiveTold, NEW r \in Run, RunStep(r) \/ Die(r)
    PROVE  ArchiveTold' /\ Kept \subseteq Kept'
<1>1. /\ \A q \in Run \ {r} : run'[q] = run[q]
      /\ Scan(r) \/ run'[r].discarded \subseteq run[r].discarded
      /\ run[r].step \in Archiving \cup Discarding \/ UNCHANGED <<legacy, archive>>
    BY RunWrites
<1>2. ASSUME NEW q \in Run, NEW p \in run'[q].discarded PROVE LeftOut(p)
  <2>1. CASE q = r /\ Scan(r)
    <3>1. CASE run'[r].discarded = run[r].discarded
        BY <1>2, <2>1, <3>1 DEF ArchiveTold
    <3>2. CASE \A z \in run'[r].discarded : z \in Path /\ z # Resolution[r]
        BY <1>2, <2>1, <3>2 DEF LeftOut, OneResolution
    <3> QED BY <2>1, <3>1, <3>2, ScanSelects
  <2>2. CASE ~(q = r /\ Scan(r))
    <3>1. p \in run[q].discarded
        BY <1>1, <1>2, <2>2
    <3> QED BY <3>1 DEF ArchiveTold
  <2> QED BY <2>1, <2>2
<1>3. Kept \subseteq Kept' /\ \A f \in archive' : Archived(f)
  <2>1. CASE UNCHANGED <<legacy, archive>>
      BY <2>1 DEF Kept, ArchiveTold
  <2>2. CASE ArchiveDocument(r) \/ ArchiveFindings(r) \/ DiscardDocument(r) \/ DiscardFindings(r)
      BY <2>2, ArchivesTell
  <2>3. CASE ~(ArchiveDocument(r) \/ ArchiveFindings(r) \/ DiscardDocument(r) \/ DiscardFindings(r))
    <3>1. UNCHANGED <<legacy, archive>>
        BY <1>1, <2>3 DEF RunStep, Die, Scan, TakeLock, NoteUpgrade, LiftManifest, ForgetUpgrade, Prepare,
           WriteArtifact, NoteTransition, PointManifest, ForgetTransition, Unlock
    <3> QED BY <2>1, <3>1
  <2> QED BY <2>2, <2>3
<1>4. \A f \in archive' : Archived(f)'
    BY <1>3 DEF Archived, LeftOut
<1>5. \A q \in Run : \A p \in run'[q].discarded : LeftOut(p)'
    BY <1>2 DEF LeftOut
<1> QED BY <1>3, <1>4, <1>5 DEF ArchiveTold

\* The invariant of what is kept, and what every step keeps.
LEMMA LossHolds ==
    ASSUME OneResolution, FindingsTold
    PROVE  /\ MigrationInit => LossInv
           /\ LossInv /\ [MigrationNext]_migrationVars => LossInv'
           /\ LossInv /\ MigrationNext =>
                 /\ Kept \subseteq Kept'
                 /\ manifest # Absent /\ saves' = saves =>
                       manifest' # Absent /\ manifest'.content = manifest.content
<1>1. ASSUME MigrationInit PROVE LossInv
  <2>1. /\ run = [r \in Run |-> NewRun] /\ archive = {} /\ transitionJournals = {} /\ saves = 0
      BY <1>1 DEF MigrationInit
  <2>2. \A r \in Run : run[r].step = "idle" /\ run[r].selected = {} /\ run[r].discarded = {}
      BY <2>1 DEF NewRun
  <2>3. ContentsAgree
      BY <2>1, <2>2 DEF ContentsAgree, Writing, Archiving, Discarding
  <2>4. ArchiveTold
      BY <2>1, <2>2 DEF ArchiveTold
  <2> QED BY <1>1, <2>1, <2>3, <2>4, InitHolds DEF LossInv
<1>2. ASSUME LossInv, MigrationNext
      PROVE  /\ ContentsAgree' /\ ArchiveTold' /\ saves' \in Nat
             /\ Kept \subseteq Kept'
             /\ manifest # Absent /\ saves' = saves =>
                   manifest' # Absent /\ manifest'.content = manifest.content
  <2>1. MigrationInv /\ ContentsAgree /\ ArchiveTold /\ saves \in Nat
      BY <1>2 DEF LossInv
  <2>2. ASSUME NEW r \in Run, RunStep(r) \/ Die(r)
        PROVE  /\ ContentsAgree' /\ ArchiveTold' /\ saves' \in Nat /\ Kept \subseteq Kept'
               /\ manifest # Absent => manifest' # Absent /\ manifest'.content = manifest.content
    <3>1. UNCHANGED saves /\ (LiftManifest(r) \/ PointManifest(r) \/ UNCHANGED manifest)
        BY <2>1, <2>2, RunWrites
    <3>2. ContentsAgree' /\ ArchiveTold' /\ Kept \subseteq Kept'
        BY <2>1, <2>2, RunAgrees, RunTells
    <3> QED BY <2>1, <3>1, <3>2, RunKeepsContent
  <2>3. ASSUME \/ Open \/ Close \/ Check \/ SaveEdited
               \/ \E j \in upgradeJournals : RecoverUpgrade(j)
               \/ \E j \in transitionJournals : RecoverTransition(j)
        PROVE  /\ ContentsAgree' /\ ArchiveTold' /\ saves' \in Nat /\ Kept \subseteq Kept'
               /\ manifest # Absent /\ saves' = saves =>
                     manifest' # Absent /\ manifest'.content = manifest.content
    <3>1. UNCHANGED <<legacy, archive, run>> /\ saves' \in Nat
        BY <2>1, <2>3, ServerWrites
    <3>2. ArchiveTold' /\ Kept \subseteq Kept'
        BY <2>1, <3>1 DEF ArchiveTold, Archived, LeftOut, Kept
    <3> QED BY <2>1, <2>3, <3>1, <3>2, ServerAgrees
  <2> QED BY <1>2, <2>2, <2>3 DEF MigrationNext
<1>3. ASSUME LossInv, UNCHANGED migrationVars PROVE ContentsAgree' /\ ArchiveTold' /\ saves' \in Nat
  <2>1. UNCHANGED <<legacy, archive, run, transitionJournals, manifest, saves>>
      BY <1>3 DEF migrationVars
  <2>2. /\ \A p : Selectable(p) <=> Selectable(p)'
        /\ \A p : Holding(p, FindingsAt(p))' = Holding(p, FindingsAt(p))
        /\ \A r \in Run : Holding(Chosen(r), FindingsAt(Chosen(r)))' = Holding(Chosen(r), FindingsAt(Chosen(r)))
      BY <2>1 DEF Selectable, Candidates, FindingsAt, Holding, Chosen
  <2>3. ContentsAgree'
      BY <1>3, <2>1, <2>2 DEF LossInv, ContentsAgree
  <2>4. ArchiveTold' /\ saves' \in Nat
      BY <1>3, <2>1 DEF LossInv, ArchiveTold, Archived, LeftOut
  <2> QED BY <2>3, <2>4
<1>4. LossInv /\ [MigrationNext]_migrationVars => MigrationInv'
    BY MigrationStays DEF LossInv
<1> QED BY <1>1, <1>2, <1>3, <1>4 DEF LossInv

\* No step of any run, of the server or of its repair replaces the current content of a game,
\* and everything that was in the layout before stays in it or in the archive, for any number
\* of runs, files and crashes.  The runs are given one choice, and two files that it leaves
\* out do not have one document and different findings: the archive names them alike
\* (archiveDiscardedLegacyCandidate), and TLC finds both hypotheses needed.
THEOREM NothingIsLost ==
    ASSUME OneResolution, FindingsTold
    PROVE  MigrationSpec => MigrationLosesNothing
<1>1. MigrationInit => LossInv
    BY LossHolds
<1>2. LossInv /\ [MigrationNext]_migrationVars => LossInv'
    BY LossHolds
<1>3. LossInv /\ [MigrationNext]_migrationVars =>
        [/\ Kept \subseteq Kept'
         /\ (manifest # Absent /\ saves' = saves) =>
               manifest' # Absent /\ manifest'.content = manifest.content]_migrationVars
    BY LossHolds
<1> QED BY <1>1, <1>2, <1>3, PTL DEF MigrationSpec, MigrationLosesNothing

-----------------------------------------------------------------------------
(* The index of the games *)

\* The shapes of the variables.
CallSteps == {"none", "asking", "waiting", "answered", "failed"}
CatalogVersions == [CatalogGame -> Nat]
CatalogTypes ==
    /\ stored \in CatalogVersions /\ transitions \in CatalogVersions /\ chained \in CatalogVersions /\ items \in CatalogVersions
    /\ dirtyAt \in CatalogVersions /\ batch \in CatalogVersions /\ opened \in CatalogVersions
    /\ catalogGeneration \in Nat /\ refreshing \in BOOLEAN /\ batchFailed \in BOOLEAN
    /\ catalogCall \in [CatalogCall -> [step : CallSteps, needs : CatalogVersions, got : CatalogVersions]]

\* What a read in flight began with was never newer than the index.
GenerationsHold ==
    \A g \in CatalogGame : dirtyAt[g] <= catalogGeneration /\ batch[g] <= catalogGeneration

\* A read of a game that nothing has made stale since it began has found what is on disk,
\* unless a transition is at work; so has the index.
IsOpened(g) == batch[g] # 0 /\ batch[g] = dirtyAt[g] /\ opened[g] # NotRead
ReadsHold ==
    \A g \in CatalogGame : chained[g] = 0 =>
        /\ IsOpened(g) => opened[g] = stored[g]
        /\ dirtyAt[g] = 0 => items[g] = stored[g]

\* What a call needs is on disk, and in whatever is not stale.
NeedsHold ==
    \A c \in CatalogCall, g \in CatalogGame :
       LET call == catalogCall[c]
       IN  /\ call.step \in {"asking", "waiting"} =>
                 /\ call.needs[g] <= stored[g]
                 /\ IsOpened(g) => call.needs[g] <= opened[g]
                 /\ dirtyAt[g] = 0 => call.needs[g] <= items[g]
           /\ call.step = "answered" => call.needs[g] <= call.got[g]

CatalogInv == CatalogTypes /\ GenerationsHold /\ ReadsHold /\ NeedsHold

\* The invariant holds of an index that was never asked.
LEMMA CatalogStarts == CatalogInit => CatalogInv
<1> SUFFICES ASSUME CatalogInit PROVE CatalogInv
    OBVIOUS
<1> USE DEF CatalogInit, Nothing, NoBatch
<1>0. NotRead \in Nat
    BY CatalogAssumption DEF NotRead
<1>1. CatalogTypes
    BY <1>0 DEF CatalogTypes, CatalogVersions, CallSteps
<1> QED
    BY <1>1 DEF CatalogInv, GenerationsHold, ReadsHold, NeedsHold, IsOpened

\* What no call notices: games other than g are as they were, and of g holds what a
\* call needs of it.
LEMMA CatalogStep == CatalogInv /\ [CatalogNext]_catalogVars => CatalogInv'
<1> SUFFICES ASSUME CatalogInv, [CatalogNext]_catalogVars PROVE CatalogInv'
    OBVIOUS
<1> USE DEF CatalogInv
<1>0. NotRead \in Nat
    BY CatalogAssumption DEF NotRead
<1> USE DEF CatalogVersions
<1>1. ASSUME NEW g \in CatalogGame, TransitionBegins(g) PROVE CatalogInv'
  <2> USE <1>1 DEF TransitionBegins, Invalidate
  <2>1. CatalogTypes'
    BY DEF CatalogTypes
  <2>2. /\ dirtyAt' = [dirtyAt EXCEPT ![g] = catalogGeneration + 1]
        /\ ~ (batch[g] = dirtyAt'[g]) /\ dirtyAt'[g] # 0
    BY DEF CatalogTypes, GenerationsHold
  <2>3. GenerationsHold'
    BY DEF CatalogTypes, GenerationsHold
  <2>4. ReadsHold'
    BY <2>2 DEF CatalogTypes, ReadsHold, IsOpened
  <2>5. NeedsHold'
    BY <2>2 DEF CatalogTypes, NeedsHold, IsOpened
  <2> QED
    BY <2>1, <2>3, <2>4, <2>5
<1>2. ASSUME NEW g \in CatalogGame, TransitionCommits(g) PROVE CatalogInv'
  <2> USE <1>2 DEF TransitionCommits
  <2>1. CatalogTypes' /\ GenerationsHold'
    BY DEF CatalogTypes, GenerationsHold
  <2>2. /\ chained[g] # 0 /\ stored[g] <= stored'[g] /\ stored'[g] \in Nat
        /\ \A h \in CatalogGame : h # g => stored'[h] = stored[h]
    BY DEF CatalogTypes
  <2>3. ReadsHold'
    BY <2>2 DEF CatalogTypes, ReadsHold, IsOpened
  <2>4. NeedsHold'
    <3> SUFFICES ASSUME NEW c \in CatalogCall, NEW h \in CatalogGame, catalogCall[c].step \in {"asking", "waiting"}
                 PROVE  catalogCall[c].needs[h] <= stored'[h]
        BY DEF NeedsHold, IsOpened
    <3>1. catalogCall[c].needs[h] <= stored[h] /\ catalogCall[c].needs[h] \in Nat /\ stored[h] \in Nat
      BY DEF NeedsHold, CatalogTypes
    <3> QED
      BY <2>2, <3>1
  <2> QED
    BY <2>1, <2>3, <2>4
<1>3. ASSUME NEW g \in CatalogGame, TransitionEnds(g) PROVE CatalogInv'
  <2> USE <1>3 DEF TransitionEnds, Invalidate
  <2>1. CatalogTypes'
    BY DEF CatalogTypes
  <2>2. /\ dirtyAt' = [dirtyAt EXCEPT ![g] = catalogGeneration + 1]
        /\ ~ (batch[g] = dirtyAt'[g]) /\ dirtyAt'[g] # 0
        /\ \A h \in CatalogGame : h # g => chained'[h] = chained[h] /\ dirtyAt'[h] = dirtyAt[h]
    BY DEF CatalogTypes, GenerationsHold
  <2>3. GenerationsHold'
    BY DEF CatalogTypes, GenerationsHold
  <2>4. ReadsHold'
    BY <2>2 DEF ReadsHold, IsOpened
  <2>5. NeedsHold'
    BY <2>2 DEF NeedsHold, IsOpened
  <2> QED
    BY <2>1, <2>3, <2>4, <2>5
<1>4. ASSUME BatchBegins PROVE CatalogInv'
  <2>1. PICK gs \in SUBSET Dirty :
           batch' = [g \in CatalogGame |-> IF g \in gs THEN dirtyAt[g] ELSE 0]
    BY <1>4 DEF BatchBegins
  <2>2. opened' = [g \in CatalogGame |-> NotRead]
        /\ UNCHANGED <<stored, transitions, chained, items, dirtyAt, catalogGeneration,
                       refreshing, batchFailed, catalogCall>>
    BY <1>4 DEF BatchBegins
  <2>3. CatalogTypes' /\ GenerationsHold'
    BY <1>0, <2>1, <2>2 DEF CatalogTypes, GenerationsHold
  <2>4. \A g \in CatalogGame : ~ IsOpened(g)'
    BY <2>2 DEF IsOpened, NotRead
  <2> QED
    BY <2>2, <2>3, <2>4 DEF ReadsHold, NeedsHold
<1>5. ASSUME NEW g \in CatalogGame, Opens(g) PROVE CatalogInv'
  <2>1. /\ opened' = [opened EXCEPT ![g] = stored[g]]
        /\ UNCHANGED <<stored, transitions, chained, items, dirtyAt, catalogGeneration, refreshing, batch,
                       batchFailed, catalogCall>>
    BY <1>5 DEF Opens
  <2>2. CatalogTypes' /\ GenerationsHold'
    BY <2>1 DEF CatalogTypes, GenerationsHold
  <2>3. \A h \in CatalogGame : opened'[h] = stored[h] \/ opened'[h] = opened[h]
    BY <2>1 DEF CatalogTypes
  <2> QED
    BY <2>1, <2>2, <2>3 DEF ReadsHold, NeedsHold, IsOpened, NotRead
<1>6. ASSUME NEW g \in CatalogGame, Lands(g) PROVE CatalogInv'
  <2>1. CatalogTypes' /\ GenerationsHold'
    BY <1>6 DEF Lands, CatalogTypes, GenerationsHold
  <2>2. /\ UNCHANGED <<stored, chained, opened, catalogCall>>
        /\ batch' = [batch EXCEPT ![g] = 0]
        /\ \A h \in CatalogGame :
              \/ items'[h] = items[h] /\ dirtyAt'[h] = dirtyAt[h]
              \/ IsOpened(h) /\ items'[h] = opened[h]
    BY <1>6 DEF Lands, CatalogTypes, IsOpened, Reading
  <2>3. \A h \in CatalogGame : IsOpened(h)' => IsOpened(h)
    BY <1>6, <2>2 DEF Lands, CatalogTypes, IsOpened, NotRead
  <2> QED
    BY <2>1, <2>2, <2>3 DEF ReadsHold, NeedsHold
<1>7. ASSUME NEW g \in CatalogGame, LoadThrows(g) PROVE CatalogInv'
  <2>1. /\ batch' = [batch EXCEPT ![g] = 0]
        /\ UNCHANGED <<stored, chained, items, dirtyAt, opened, catalogCall>>
    BY <1>7 DEF LoadThrows
  <2>2. CatalogTypes' /\ GenerationsHold'
    BY <1>7 DEF LoadThrows, CatalogTypes, GenerationsHold
  <2>3. \A h \in CatalogGame : IsOpened(h)' => IsOpened(h)
    BY <2>1 DEF CatalogTypes, IsOpened, NotRead
  <2> QED
    BY <2>1, <2>2, <2>3 DEF ReadsHold, NeedsHold
<1>8. ASSUME RefreshFails PROVE CatalogInv'
  <2>1. /\ UNCHANGED <<stored, transitions, chained, items, dirtyAt, catalogGeneration, batch, opened>>
        /\ refreshing' \in BOOLEAN /\ batchFailed' \in BOOLEAN
        /\ \A c \in CatalogCall :
              /\ catalogCall'[c].needs = catalogCall[c].needs /\ catalogCall'[c].got = catalogCall[c].got
              /\ catalogCall'[c].step = catalogCall[c].step \/ catalogCall'[c].step = "failed"
    BY <1>8 DEF RefreshFails, CatalogTypes
  <2>2. catalogCall' \in [CatalogCall -> [step : CallSteps, needs : CatalogVersions, got : CatalogVersions]]
    BY <1>8 DEF RefreshFails, CatalogTypes, CallSteps
  <2>3. CatalogTypes' /\ GenerationsHold'
    BY <2>1, <2>2 DEF CatalogTypes, GenerationsHold
  <2> QED
    BY <2>1, <2>3 DEF ReadsHold, NeedsHold, IsOpened, NotRead
<1>9. ASSUME RefreshEnds PROVE CatalogInv'
    BY <1>9 DEF RefreshEnds, CatalogTypes, GenerationsHold, ReadsHold, NeedsHold, IsOpened, NotRead
<1>10. ASSUME NEW c \in CatalogCall, SnapshotCalled(c) PROVE CatalogInv'
  <2> DEFINE needs == [g \in CatalogGame |-> IF chained[g] = 0 THEN stored[g] ELSE 0]
  <2>1. /\ catalogCall' = [catalogCall EXCEPT ![c] = [step |-> "asking", needs |-> needs, got |-> Nothing]]
        /\ UNCHANGED <<stored, transitions, chained, items, dirtyAt, catalogGeneration,
                       refreshing, batch, opened, batchFailed>>
    BY <1>10 DEF SnapshotCalled
  <2>2. needs \in CatalogVersions /\ Nothing \in CatalogVersions
    BY DEF CatalogTypes, Nothing
  <2>3. CatalogTypes' /\ GenerationsHold' /\ ReadsHold'
    BY <2>1, <2>2 DEF CatalogTypes, GenerationsHold, ReadsHold, IsOpened, CallSteps, NotRead
  <2>4. ASSUME NEW g \in CatalogGame
        PROVE  /\ needs[g] <= stored[g] /\ (IsOpened(g) => needs[g] <= opened[g])
               /\ (dirtyAt[g] = 0 => needs[g] <= items[g])
    BY DEF ReadsHold, CatalogTypes
  <2>5. \A d \in CatalogCall : catalogCall'[d] = IF d = c THEN [step |-> "asking", needs |-> needs, got |-> Nothing]
                                                   ELSE catalogCall[d]
    BY <2>1 DEF CatalogTypes
  <2>6. \A g \in CatalogGame : IsOpened(g)' = IsOpened(g)
    BY <2>1 DEF IsOpened, NotRead
  <2> HIDE DEF needs
  <2>7. NeedsHold'
    <3> SUFFICES ASSUME NEW d \in CatalogCall, NEW g \in CatalogGame
                 PROVE  LET call == catalogCall'[d]
                        IN  /\ call.step \in {"asking", "waiting"} =>
                                  /\ call.needs[g] <= stored[g]
                                  /\ IsOpened(g) => call.needs[g] <= opened[g]
                                  /\ dirtyAt[g] = 0 => call.needs[g] <= items[g]
                            /\ call.step = "answered" => call.needs[g] <= call.got[g]
      BY <2>1, <2>6 DEF NeedsHold
    <3>1. CASE d = c
      BY <2>4, <2>5, <3>1
    <3>2. CASE d # c
      BY <2>5, <3>2 DEF NeedsHold
    <3> QED
      BY <3>1, <3>2
  <2> QED
    BY <2>3, <2>7
<1>11. ASSUME NEW c \in CatalogCall, SnapshotWaits(c) PROVE CatalogInv'
  <2>1. /\ UNCHANGED <<stored, transitions, chained, items, dirtyAt, catalogGeneration, batch, opened, batchFailed>>
        /\ refreshing' \in BOOLEAN
        /\ \A d \in CatalogCall :
              /\ catalogCall'[d].needs = catalogCall[d].needs /\ catalogCall'[d].got = catalogCall[d].got
              /\ \/ catalogCall'[d].step = catalogCall[d].step
                 \/ catalogCall'[d].step = "waiting" /\ catalogCall[d].step \in {"asking", "waiting"}
    BY <1>11 DEF SnapshotWaits, CatalogTypes
  <2>2. catalogCall' \in [CatalogCall -> [step : CallSteps, needs : CatalogVersions, got : CatalogVersions]]
    BY <1>11 DEF SnapshotWaits, CatalogTypes, CallSteps
  <2>3. CatalogTypes' /\ GenerationsHold'
    BY <2>1, <2>2 DEF CatalogTypes, GenerationsHold
  <2> QED
    BY <2>1, <2>3 DEF ReadsHold, NeedsHold, IsOpened, NotRead
<1>12. ASSUME NEW c \in CatalogCall, SnapshotAnswers(c) PROVE CatalogInv'
  <2>1. /\ UNCHANGED <<stored, transitions, chained, items, dirtyAt, catalogGeneration, refreshing, batch, opened,
                       batchFailed>>
        /\ catalogCall' = [catalogCall EXCEPT ![c].step = "answered", ![c].got = items]
        /\ Dirty = {} /\ catalogCall[c].step \in {"asking", "waiting"}
    BY <1>12 DEF SnapshotAnswers
  <2>2. CatalogTypes' /\ GenerationsHold'
    BY <2>1 DEF CatalogTypes, GenerationsHold, CallSteps
  <2>3. \A g \in CatalogGame : dirtyAt[g] = 0
    BY <2>1 DEF Dirty
  <2>4. \A d \in CatalogCall :
           /\ catalogCall'[d].needs = catalogCall[d].needs
           /\ \/ catalogCall'[d] = catalogCall[d]
              \/ /\ catalogCall'[d].step = "answered" /\ catalogCall'[d].got = items
                 /\ catalogCall[d].step \in {"asking", "waiting"}
    BY <2>1 DEF CatalogTypes
  <2> QED
    BY <2>1, <2>2, <2>3, <2>4 DEF ReadsHold, NeedsHold, IsOpened, NotRead
<1>13. ASSUME UNCHANGED catalogVars PROVE CatalogInv'
    BY <1>13 DEF catalogVars, CatalogTypes, GenerationsHold, ReadsHold, NeedsHold, IsOpened, NotRead
<1> QED
    BY <1>1, <1>2, <1>3, <1>4, <1>5, <1>6, <1>7, <1>8, <1>9, <1>10, <1>11, <1>12, <1>13 DEF CatalogNext

\* What the index says follows from the invariant.
LEMMA CatalogInvHolds == CatalogInv => CatalogIsCurrent
BY DEF CatalogInv, ReadsHold, NeedsHold, CatalogIsCurrent

\* Once a game's transitions have ended and it is not dirty the index has what is on disk, and no
\* answer is older than a transition that had ended when the call was made, for any number of
\* games, calls and transitions.
THEOREM CatalogCurrent == CatalogSpec => []CatalogIsCurrent
BY CatalogStarts, CatalogStep, CatalogInvHolds, PTL DEF CatalogSpec

-----------------------------------------------------------------------------
(* Counts and ends *)

\* Finitely many numbers have a greatest one.
LEMMA Greatest ==
    ASSUME NEW P \in SUBSET Nat, IsFiniteSet(P), NEW T \in SUBSET P, T # {}
    PROVE  \E p \in T : \A q \in T : q <= p
<1> DEFINE above(p) == {q \in P : p < q}
           F == {above(p) : p \in T}
<1>1. (\A A \in F : A \subseteq P) /\ F # {} OBVIOUS
<1>2. PICK A \in F : \A B \in F : B \subseteq A => B = A
  <2> HIDE DEF F
  <2> QED BY <1>1, Smallest
<1>3. PICK p \in T : A = above(p) OBVIOUS
<1>4. ASSUME NEW q \in T, ~(q <= p) PROVE FALSE
  <2>1. q \in Nat /\ p \in Nat /\ p < q BY <1>4
  <2>2. ASSUME NEW r \in above(q) PROVE r \in above(p)
    <3>1. r \in P /\ r \in Nat /\ q < r OBVIOUS
    <3>2. p < r BY <2>1, <3>1
    <3> QED BY <3>1, <3>2
  <2>3. q \in above(p) /\ q \notin above(q) BY <2>1
  <2> QED BY <1>2, <1>3, <2>2, <2>3
<1> QED BY <1>4

\* What is in one of two parts is counted once.
LEMMA PartsCounted ==
    ASSUME NEW A, IsFiniteSet(A), NEW B, IsFiniteSet(B), A \cap B = {}
    PROVE  /\ IsFiniteSet(A \cup B) /\ Cardinality(A \cup B) = Cardinality(A) + Cardinality(B)
           /\ Cardinality(A) \in Nat /\ Cardinality(B) \in Nat
<1>1. Cardinality(A \cap B) = 0
    BY FS_EmptySet
<1>2. Cardinality(A) \in Nat /\ Cardinality(B) \in Nat
    BY FS_CardinalityType
<1>3. /\ IsFiniteSet(A \cup B)
      /\ Cardinality(A \cup B) = Cardinality(A) + Cardinality(B) - Cardinality(A \cap B)
    BY FS_Union
<1> QED
    BY <1>1, <1>2, <1>3

\* What is marked with a name is counted as before.
LEMMA MarkedCounted ==
    ASSUME NEW k, NEW B, IsFiniteSet(B)
    PROVE  IsFiniteSet({k} \X B) /\ Cardinality({k} \X B) = Cardinality(B) /\ Cardinality(B) \in Nat
<1>1. IsFiniteSet({k}) /\ Cardinality({k}) = 1
    BY FS_Singleton
<1>2. Cardinality(B) \in Nat
    BY FS_CardinalityType
<1>3. IsFiniteSet({k} \X B) /\ Cardinality({k} \X B) = Cardinality({k}) * Cardinality(B)
    BY <1>1, FS_Product
<1> QED
    BY <1>1, <1>2, <1>3

\* Finitely many finite parts are finitely many.
LEMMA GatheredFinite ==
    ASSUME NEW D, IsFiniteSet(D), NEW f, DOMAIN f = D, \A d \in D : IsFiniteSet(f[d])
    PROVE  IsFiniteSet(UNION {f[d] : d \in D})
<1> DEFINE R == {f[d] : d \in D}
           g == [d \in D |-> f[d]]
<1>1. g \in Surjection(D, R)
    BY DEF Surjection
<1>2. IsFiniteSet(R)
    BY <1>1, FS_Surjection
<1>3. \A T \in R : IsFiniteSet(T)
    OBVIOUS
<1> HIDE DEF R
<1>4. IsFiniteSet(UNION R)
    BY <1>2, <1>3, FS_UNION
<1> QED
    BY <1>4 DEF R

\* The end of a sequence.
LEMMA EndOf ==
    ASSUME NEW S, NEW s \in Seq(S), NEW n \in 0 .. Len(s)
    PROVE  /\ SubSeq(s, n + 1, Len(s)) \in Seq(S) /\ Len(SubSeq(s, n + 1, Len(s))) = Len(s) - n
           /\ Len(s) \in Nat
           /\ \A i \in 1 .. Len(s) - n : SubSeq(s, n + 1, Len(s))[i] = s[n + i]
<1>1. Len(s) \in Nat /\ n \in Nat /\ n + 1 \in Int /\ Len(s) \in Int /\ n <= Len(s)
    OBVIOUS
<1>2. \A i \in n + 1 .. Len(s) : s[i] \in S
    BY <1>1
<1>3. /\ SubSeq(s, n + 1, Len(s)) \in Seq(S)
      /\ Len(SubSeq(s, n + 1, Len(s))) = IF n + 1 <= Len(s) THEN Len(s) - (n + 1) + 1 ELSE 0
      /\ \A i \in 1 .. Len(s) - (n + 1) + 1 : SubSeq(s, n + 1, Len(s))[i] = s[n + 1 + i - 1]
    BY <1>1, <1>2, SubSeqProperties
<1>4. Len(s) - (n + 1) + 1 = Len(s) - n /\ (~ (n + 1 <= Len(s)) => Len(s) - n = 0)
    BY <1>1
<1>5. \A i \in 1 .. Len(s) - n : n + 1 + i - 1 = n + i
    BY <1>1
<1> QED
    BY <1>1, <1>3, <1>4, <1>5

-----------------------------------------------------------------------------
(* The records of collection jobs *)

\* The shapes of the variables.
HistoryValues == [RecordedJob -> Nat]
RecordUnderWay == {"writing", "written"}
HistoryRead == [version : Nat, left : SUBSET RecordedJob, ended : BOOLEAN, got : HistoryValues]
HistoryTypes ==
    /\ history \in HistoryValues /\ historyCache \in HistoryValues \cup {NoHistories}
    /\ historyVersion \in Nat /\ historyRead \in Nat
    /\ record \in [Record -> [step : RecordUnderWay \cup {"none", "saved", "failed"},
                              previous : HistoryValues \cup {NoHistories}, version : Nat, value : Nat]]
    /\ reads \in Seq(HistoryRead)
    /\ list \in [List -> [step : {"none", "asking", "waiting", "answered"}, read : Nat,
                          needs : HistoryValues, got : HistoryValues]]

\* The saves of a job come one after the other, each with a greater value.
SavesHold ==
    /\ \A j \in RecordedJob : history[j] <= historyVersion
    /\ \A s \in Record :
          /\ record[s].value <= historyVersion /\ record[s].version <= historyVersion
          /\ record[s].step = "writing" => history[RecordedAs[s]] < record[s].value
          /\ record[s].step = "written" => history[RecordedAs[s]] = record[s].value
          /\ record[s].step = "saved" => record[s].value <= history[RecordedAs[s]]
    /\ \A s, t \in Record :
          RecordedAs[s] = RecordedAs[t] /\ record[s].step \in RecordUnderWay /\ record[t].step \in RecordUnderWay => s = t

\* A list shows a job when it has the record on disk, or a save of the job is under way,
\* and is no older than a save of it that has ended.
RecordAway(j) == \E s \in Record : RecordedAs[s] = j /\ record[s].step \in RecordUnderWay
ShowsJob(f, j) ==
    /\ ~ RecordAway(j) => f[j] = history[j]
    /\ \A v \in Recorded(j) : v <= f[j]

\* What was cached, and what was read or set aside since the last save began or ended,
\* shows every job.
CacheShows == historyCache # NoHistories => \A j \in RecordedJob : ShowsJob(historyCache, j)
PreviousShow ==
    \A s \in Record :
       record[s].step \in RecordUnderWay /\ record[s].version = historyVersion /\ record[s].previous # NoHistories
       => \A j \in RecordedJob : ShowsJob(record[s].previous, j)
ReadsShow ==
    \A r \in 1 .. Len(reads) :
       /\ reads[r].version <= historyVersion
       /\ reads[r].version = historyVersion => \A j \in RecordedJob \ reads[r].left : ShowsJob(reads[r].got, j)

\* What is needed of a list was saved.
ListsHold ==
    \A l \in List, j \in RecordedJob :
       /\ list[l].step \in {"asking", "waiting"} => list[l].needs[j] \in Recorded(j)
       /\ list[l].step = "answered" => list[l].needs[j] <= list[l].got[j]

HistoriesInv == HistoryTypes /\ SavesHold /\ CacheShows /\ PreviousShow /\ ReadsShow /\ ListsHold

\* The invariant holds before the first save.
LEMMA HistoriesStart == HistoriesInit => HistoriesInv
<1> SUFFICES ASSUME HistoriesInit PROVE HistoriesInv
    OBVIOUS
<1> USE DEF HistoriesInit, EmptyRecords, Unrecorded
<1>1. HistoryTypes
    BY DEF HistoryTypes, HistoryValues, RecordUnderWay
<1>2. SavesHold
    BY RecordedAssumption DEF SavesHold, RecordUnderWay
<1>3. CacheShows /\ PreviousShow /\ ListsHold
    BY DEF CacheShows, PreviousShow, ListsHold, RecordUnderWay
<1>4. ReadsShow
    BY DEF ReadsShow
<1> QED
    BY <1>1, <1>2, <1>3, <1>4 DEF HistoriesInv

\* The values that a job has, and the greatest of them.
LEMMA RecordedIs ==
    ASSUME HistoryTypes, SavesHold, NEW j \in RecordedJob
    PROVE  /\ Recorded(j) \subseteq 0 .. historyVersion /\ Latest(Recorded(j)) \in Recorded(j)
           /\ \A v \in Recorded(j) : v <= history[j]
<1>1. Recorded(j) \subseteq 0 .. historyVersion /\ 0 \in Recorded(j)
    BY DEF HistoryTypes, SavesHold, Recorded
<1>2. IsFiniteSet(0 .. historyVersion)
    BY FS_Interval DEF HistoryTypes
<1>3. \E p \in Recorded(j) : \A q \in Recorded(j) : q <= p
  <2> HIDE DEF Recorded
  <2>1. 0 .. historyVersion \in SUBSET Nat
    OBVIOUS
  <2> QED
    BY <1>1, <1>2, <2>1, Greatest
<1>4. \A v \in Recorded(j) : v <= history[j]
    BY DEF HistoryTypes, SavesHold, Recorded, HistoryValues
<1> QED
    BY <1>1, <1>3, <1>4 DEF Latest

\* A save begins or ends: what is read, or was set aside, is of an older version.
LEMMA RecordTurns ==
    ASSUME HistoriesInv, historyVersion' = historyVersion + 1, UNCHANGED <<history, reads, list>>,
           HistoryTypes', SavesHold', CacheShows',
           \A j \in RecordedJob : Recorded(j) \subseteq Recorded(j)',
           NEW s \in Record, \A t \in Record \ {s} : record'[t] = record[t],
           record'[s].step \in RecordUnderWay /\ record'[s].previous # NoHistories
               => \A j \in RecordedJob : ShowsJob(record[s].previous, j)'
    PROVE  HistoriesInv'
<1>1. PreviousShow'
  <2>1. ASSUME NEW t \in Record, record'[t].version = historyVersion + 1
        PROVE  t = s
    <3>1. record[t].version <= historyVersion /\ record[t].version \in Nat /\ historyVersion \in Nat
      BY DEF HistoriesInv, SavesHold, HistoryTypes
    <3>2. record[t].version # historyVersion + 1
      BY <3>1
    <3> QED
      BY <2>1, <3>2
  <2> QED
    BY <2>1 DEF PreviousShow
<1>2. ReadsShow'
  <2> SUFFICES ASSUME NEW r \in 1 .. Len(reads)
               PROVE  reads[r].version <= historyVersion + 1 /\ reads[r].version # historyVersion + 1
    BY DEF ReadsShow
  <2>1. reads[r].version <= historyVersion /\ reads[r].version \in Nat /\ historyVersion \in Nat
    <3>1. reads \in Seq(HistoryRead) /\ historyVersion \in Nat /\ reads[r].version <= historyVersion
      BY DEF HistoriesInv, ReadsShow, HistoryTypes
    <3>2. reads[r] \in HistoryRead
      BY <3>1
    <3> QED
      BY <3>1, <3>2 DEF HistoryRead
  <2> QED
    BY <2>1
<1>3. ListsHold'
    BY DEF HistoriesInv, ListsHold
<1> QED
    BY <1>1, <1>2, <1>3 DEF HistoriesInv

\* A save begins.
LEMMA RecordBeginsStep ==
    ASSUME HistoriesInv, NEW s \in Record, RecordBegins(s)
    PROVE  HistoriesInv'
<1> DEFINE own == [step |-> "writing", previous |-> historyCache, version |-> historyVersion + 1,
                   value |-> historyVersion + 1]
<1>t. HistoryTypes /\ SavesHold /\ CacheShows
    BY DEF HistoriesInv
<1>1. /\ record[s].step = "none" /\ record' = [record EXCEPT ![s] = own]
      /\ historyVersion' = historyVersion + 1 /\ historyRead' = 0 /\ historyCache' = NoHistories
      /\ UNCHANGED <<history, reads, list>>
      /\ \A t \in Record : RecordedAs[t] = RecordedAs[s] => record[t].step \in {"none", "saved", "failed"}
    BY DEF RecordBegins, ForgetHistories
<1>2. HistoryTypes'
    BY <1>t, <1>1 DEF HistoryTypes, RecordUnderWay
<1>3. /\ record'[s] = own /\ own.step = "writing" /\ own.value = historyVersion + 1
      /\ own.version = historyVersion + 1 /\ own.previous = historyCache
      /\ \A t \in Record \ {s} : record'[t] = record[t]
    BY <1>t, <1>1 DEF HistoryTypes
<1> HIDE DEF own
<1>4. SavesHold'
  <2>1. \A t \in Record : RecordedAs[t] = RecordedAs[s] => record[t].step \notin RecordUnderWay
    BY <1>1 DEF RecordUnderWay
  <2>2. RecordedAs[s] \in RecordedJob /\ history[RecordedAs[s]] < historyVersion + 1
    BY <1>t, RecordedAssumption DEF SavesHold, HistoryTypes, HistoryValues
  <2>3. \A j \in RecordedJob : history'[j] <= historyVersion'
    BY <1>t, <1>1 DEF SavesHold, HistoryTypes, HistoryValues
  <2>4. ASSUME NEW t \in Record
        PROVE  /\ record'[t].value <= historyVersion' /\ record'[t].version <= historyVersion'
               /\ record'[t].step = "writing" => history'[RecordedAs[t]] < record'[t].value
               /\ record'[t].step = "written" => history'[RecordedAs[t]] = record'[t].value
               /\ record'[t].step = "saved" => record'[t].value <= history'[RecordedAs[t]]
    <3>1. CASE t = s
      BY <1>1, <1>3, <2>2, <3>1, <1>t DEF HistoryTypes
    <3>2. CASE t # s
      BY <1>1, <1>3, <3>2, <1>t DEF HistoryTypes, SavesHold
    <3> QED
      BY <3>1, <3>2
  <2> QED
    BY <1>3, <2>1, <2>3, <2>4, <1>t DEF SavesHold
<1>5. CacheShows'
    BY <1>1 DEF CacheShows
<1>6. \A j \in RecordedJob : Recorded(j)' = Recorded(j)
    BY <1>1, <1>3 DEF Recorded
<1>7. ASSUME record'[s].previous # NoHistories, NEW j \in RecordedJob
      PROVE  ShowsJob(record[s].previous, j)'
  <2>1. ShowsJob(historyCache, j) /\ record'[s].previous = historyCache
    BY <1>3, <1>7, <1>t DEF CacheShows
  <2>2. RecordAway(j) => RecordAway(j)'
    BY <1>1, <1>3 DEF RecordAway, RecordUnderWay
  <2> QED
    BY <1>1, <1>6, <2>1, <2>2 DEF ShowsJob
<1> QED
    BY <1>1, <1>2, <1>3, <1>4, <1>5, <1>6, <1>7, RecordTurns

\* A save has written the record.
LEMMA RecordWritesStep ==
    ASSUME HistoriesInv, NEW s \in Record, RecordWrites(s)
    PROVE  HistoriesInv'
<1>t. /\ HistoryTypes /\ SavesHold /\ CacheShows /\ PreviousShow /\ ReadsShow /\ ListsHold
      /\ RecordedAs[s] \in RecordedJob
    BY RecordedAssumption DEF HistoriesInv
<1>1. /\ record[s].step = "writing" /\ record' = [record EXCEPT ![s].step = "written"]
      /\ history' = [history EXCEPT ![RecordedAs[s]] = record[s].value]
      /\ UNCHANGED <<historyCache, historyVersion, historyRead, reads, list>>
    BY DEF RecordWrites
<1>2. HistoryTypes'
    BY <1>t, <1>1 DEF HistoryTypes, RecordUnderWay, HistoryValues
<1>3. /\ \A t \in Record : /\ record'[t].value = record[t].value /\ record'[t].version = record[t].version
                           /\ record'[t].previous = record[t].previous
                           /\ t # s => record'[t].step = record[t].step
                           /\ record'[t].step \in RecordUnderWay <=> record[t].step \in RecordUnderWay
      /\ record'[s].step = "written" /\ history'[RecordedAs[s]] = record[s].value
      /\ \A j \in RecordedJob : j # RecordedAs[s] => history'[j] = history[j]
    BY <1>t, <1>1 DEF HistoryTypes, RecordUnderWay, HistoryValues
<1>4. SavesHold'
  <2>1. \A t \in Record : RecordedAs[t] = RecordedAs[s] /\ record[t].step \in RecordUnderWay => t = s
    BY <1>t, <1>1 DEF SavesHold, RecordUnderWay
  <2>2. \A j \in RecordedJob : history'[j] <= historyVersion'
    BY <1>t, <1>1, <1>3 DEF SavesHold
  <2>3. history[RecordedAs[s]] < record[s].value /\ record[s].value \in Nat /\ history[RecordedAs[s]] \in Nat
    BY <1>t, <1>1 DEF SavesHold, HistoryTypes, HistoryValues
  <2>4. ASSUME NEW t \in Record
        PROVE  /\ record'[t].value <= historyVersion' /\ record'[t].version <= historyVersion'
               /\ record'[t].step = "writing" => history'[RecordedAs[t]] < record'[t].value
               /\ record'[t].step = "written" => history'[RecordedAs[t]] = record'[t].value
               /\ record'[t].step = "saved" => record'[t].value <= history'[RecordedAs[t]]
    <3>0. RecordedAs[t] \in RecordedJob /\ record[t].value \in Nat
      BY <1>t, RecordedAssumption DEF HistoryTypes
    <3>1. CASE t = s
      BY <1>1, <1>3, <1>t, <3>1 DEF SavesHold
    <3>2. CASE t # s /\ RecordedAs[t] # RecordedAs[s]
      BY <1>1, <1>3, <3>0, <3>2, <1>t DEF SavesHold
    <3>3. CASE t # s /\ RecordedAs[t] = RecordedAs[s]
      <4>1. record'[t].step \notin RecordUnderWay /\ record'[t].step = record[t].step
        BY <1>3, <2>1, <3>3
      <4>2. record[t].step = "saved" => record[t].value <= history[RecordedAs[s]]
        BY <1>t, <3>3 DEF SavesHold
      <4> QED
        BY <1>1, <1>3, <1>t, <2>3, <3>0, <3>3, <4>1, <4>2 DEF SavesHold, RecordUnderWay
    <3> QED
      BY <3>1, <3>2, <3>3
  <2> QED
    BY <1>3, <2>2, <2>4, <1>t DEF SavesHold
<1>5. ASSUME NEW j \in RecordedJob
      PROVE  /\ RecordAway(j)' <=> RecordAway(j)
             /\ Recorded(j)' = Recorded(j)
             /\ ~ RecordAway(j) => history'[j] = history[j]
  <2>1. Recorded(j)' = Recorded(j)
    BY <1>1, <1>3 DEF Recorded
  <2>2. ~ RecordAway(j) => j # RecordedAs[s]
    BY <1>1 DEF RecordAway, RecordUnderWay
  <2> QED
    BY <1>3, <2>1, <2>2 DEF RecordAway
<1>6. CacheShows'
    BY <1>t, <1>1, <1>5 DEF CacheShows, ShowsJob
<1>7. PreviousShow'
    BY <1>t, <1>1, <1>3, <1>5 DEF PreviousShow, ShowsJob
<1>8. ReadsShow'
    BY <1>t, <1>1, <1>5 DEF ReadsShow, ShowsJob
<1>9. ListsHold'
    BY <1>t, <1>1, <1>5 DEF ListsHold
<1> QED
    BY <1>2, <1>4, <1>6, <1>7, <1>8, <1>9 DEF HistoriesInv

\* A save could not write the record.
LEMMA RecordFailsStep ==
    ASSUME HistoriesInv, NEW s \in Record, RecordFails(s)
    PROVE  HistoriesInv'
<1> DEFINE own == [Unrecorded EXCEPT !.step = "failed"]
<1>t. HistoryTypes /\ SavesHold
    BY DEF HistoriesInv
<1>1. /\ record[s].step = "writing" /\ record' = [record EXCEPT ![s] = own]
      /\ historyVersion' = historyVersion + 1 /\ historyRead' = 0 /\ historyCache' = NoHistories
      /\ UNCHANGED <<history, reads, list>>
    BY DEF RecordFails, ForgetHistories
<1>o. own.step = "failed" /\ own.version = 0 /\ own.value = 0 /\ own.previous = NoHistories
      /\ own = [step |-> "failed", previous |-> NoHistories, version |-> 0, value |-> 0]
    BY DEF Unrecorded
<1> HIDE DEF own
<1>2. HistoryTypes'
    BY <1>t, <1>1, <1>o DEF HistoryTypes
<1>3. record'[s] = own /\ \A t \in Record \ {s} : record'[t] = record[t]
    BY <1>t, <1>1 DEF HistoryTypes
<1>4. SavesHold'
  <2>1. \A j \in RecordedJob : history'[j] <= historyVersion'
    BY <1>t, <1>1 DEF SavesHold, HistoryTypes, HistoryValues
  <2>2. ASSUME NEW t \in Record
        PROVE  /\ record'[t].value <= historyVersion' /\ record'[t].version <= historyVersion'
               /\ record'[t].step = "writing" => history'[RecordedAs[t]] < record'[t].value
               /\ record'[t].step = "written" => history'[RecordedAs[t]] = record'[t].value
               /\ record'[t].step = "saved" => record'[t].value <= history'[RecordedAs[t]]
    BY <1>1, <1>3, <1>o, <1>t DEF HistoryTypes, SavesHold
  <2> QED
    BY <1>3, <1>o, <2>1, <2>2, <1>t DEF SavesHold, RecordUnderWay
<1>5. CacheShows'
    BY <1>1 DEF CacheShows
<1>6. \A j \in RecordedJob : Recorded(j) \subseteq Recorded(j)'
    BY <1>1, <1>3 DEF Recorded
<1>7. record'[s].step \notin RecordUnderWay
    BY <1>3, <1>o DEF RecordUnderWay
<1> QED
    BY <1>1, <1>2, <1>3, <1>4, <1>5, <1>6, <1>7, RecordTurns

\* A save ends, and what it had set aside is cached with its record.
LEMMA RecordEndsStep ==
    ASSUME HistoriesInv, NEW s \in Record, RecordEnds(s)
    PROVE  HistoriesInv'
<1> DEFINE own == [Unrecorded EXCEPT !.step = "saved", !.value = record[s].value]
           cached == [record[s].previous EXCEPT ![RecordedAs[s]] = record[s].value]
<1>t. /\ HistoryTypes /\ SavesHold /\ PreviousShow
      /\ RecordedAs[s] \in RecordedJob /\ record[s].value \in Nat
    BY RecordedAssumption DEF HistoriesInv, HistoryTypes
<1>1. /\ record[s].step = "written" /\ record' = [record EXCEPT ![s] = own]
      /\ historyVersion' = historyVersion + 1 /\ historyRead' = 0
      /\ historyCache' = IF historyVersion = record[s].version /\ record[s].previous # NoHistories
                         THEN cached ELSE NoHistories
      /\ UNCHANGED <<history, reads, list>>
    BY DEF RecordEnds, ForgetHistories
<1>o. own.step = "saved" /\ own.version = 0 /\ own.value = record[s].value /\ own.previous = NoHistories
      /\ own = [step |-> "saved", previous |-> NoHistories, version |-> 0, value |-> record[s].value]
  <2> DEFINE n == record[s].value
             saved == [Unrecorded EXCEPT !.step = "saved"]
  <2>1. saved = [step |-> "saved", previous |-> NoHistories, version |-> 0, value |-> 0]
    BY DEF Unrecorded
  <2>2. own = [saved EXCEPT !.value = n]
    BY DEF Unrecorded
  <2> HIDE DEF n, saved, own
  <2>3. own = [step |-> "saved", previous |-> NoHistories, version |-> 0, value |-> n]
    BY <2>1, <2>2
  <2> QED
    BY <2>3 DEF n
<1>c. record[s].previous # NoHistories =>
          /\ cached \in HistoryValues /\ cached[RecordedAs[s]] = record[s].value
          /\ \A j \in RecordedJob : j # RecordedAs[s] => cached[j] = record[s].previous[j]
    BY <1>t DEF HistoryTypes, HistoryValues
<1> HIDE DEF own, cached
<1>2. HistoryTypes'
    BY <1>t, <1>1, <1>o, <1>c DEF HistoryTypes
<1>3. record'[s] = own /\ \A t \in Record \ {s} : record'[t] = record[t]
    BY <1>t, <1>1 DEF HistoryTypes
<1>4. SavesHold'
  <2>1. \A j \in RecordedJob : history'[j] <= historyVersion'
    BY <1>t, <1>1 DEF SavesHold, HistoryTypes, HistoryValues
  <2>0. history[RecordedAs[s]] = record[s].value /\ record[s].value <= historyVersion
    BY <1>1, <1>t DEF SavesHold
  <2>2. ASSUME NEW t \in Record
        PROVE  /\ record'[t].value <= historyVersion' /\ record'[t].version <= historyVersion'
               /\ record'[t].step = "writing" => history'[RecordedAs[t]] < record'[t].value
               /\ record'[t].step = "written" => history'[RecordedAs[t]] = record'[t].value
               /\ record'[t].step = "saved" => record'[t].value <= history'[RecordedAs[t]]
    <3>1. CASE t = s
      BY <1>1, <1>3, <1>o, <2>0, <3>1, <1>t DEF HistoryTypes
    <3>2. CASE t # s
      BY <1>1, <1>3, <3>2, <1>t DEF HistoryTypes, SavesHold
    <3> QED
      BY <3>1, <3>2
  <2> QED
    BY <1>3, <1>o, <2>1, <2>2, <1>t DEF SavesHold, RecordUnderWay
<1>5. ASSUME NEW j \in RecordedJob
      PROVE  /\ Recorded(j) \subseteq Recorded(j)'
             /\ Recorded(j)' \subseteq Recorded(j) \cup (IF j = RecordedAs[s] THEN {record[s].value} ELSE {})
  <2>1. \A t \in Record : RecordedAs[t] = j /\ record[t].step = "saved" =>
           record'[t].step = "saved" /\ record'[t].value = record[t].value
    BY <1>1, <1>3
  <2>2. \A t \in Record : RecordedAs[t] = j /\ record'[t].step = "saved" =>
           \/ record[t].step = "saved" /\ record'[t].value = record[t].value
           \/ t = s /\ record'[t].value = record[s].value
    BY <1>1, <1>3, <1>o
  <2> QED
    BY <2>1, <2>2 DEF Recorded
<1>6. CacheShows'
  <2> SUFFICES ASSUME historyCache' # NoHistories, NEW j \in RecordedJob
               PROVE  /\ ~ RecordAway(j)' => historyCache'[j] = history'[j]
                      /\ \A v \in Recorded(j)' : v <= historyCache'[j]
    BY DEF CacheShows, ShowsJob
  <2>1. /\ historyCache' = cached /\ record[s].previous # NoHistories
        /\ \A i \in RecordedJob : ShowsJob(record[s].previous, i)
    BY <1>1, <1>t DEF PreviousShow, RecordUnderWay
  <2>2. CASE j = RecordedAs[s]
    <3>1. cached[j] = history[j] /\ history[j] = record[s].value
      BY <1>1, <1>c, <1>t, <2>1, <2>2 DEF SavesHold
    <3>2. \A v \in Recorded(j) : v <= history[j]
      BY <1>t, RecordedIs
    <3>3. \A v \in Recorded(j)' : v \in Recorded(j) \/ v = record[s].value
      BY <1>5, <2>2
    <3> QED
      BY <1>1, <1>t, <2>1, <3>1, <3>2, <3>3
  <2>3. CASE j # RecordedAs[s]
    <3>1. cached[j] = record[s].previous[j] /\ Recorded(j)' \subseteq Recorded(j)
      BY <1>c, <1>5, <2>1, <2>3
    <3>2. RecordAway(j) => RecordAway(j)'
      BY <1>3, <2>3 DEF RecordAway
    <3> QED
      BY <1>1, <2>1, <3>1, <3>2 DEF ShowsJob
  <2> QED
    BY <2>2, <2>3
<1>7. record'[s].step \notin RecordUnderWay
    BY <1>3, <1>o DEF RecordUnderWay
<1> QED
    BY <1>1, <1>2, <1>3, <1>4, <1>5, <1>6, <1>7, RecordTurns

\* A caller asks for the records.
LEMMA ListBeginsStep ==
    ASSUME HistoriesInv, NEW l \in List, ListBegins(l)
    PROVE  HistoriesInv'
<1> DEFINE needs == [j \in RecordedJob |-> Latest(Recorded(j))]
<1>t. HistoryTypes /\ SavesHold /\ CacheShows /\ PreviousShow /\ ReadsShow /\ ListsHold
    BY DEF HistoriesInv
<1>1. /\ list[l].step = "none" /\ list' = [list EXCEPT ![l].step = "asking", ![l].needs = needs]
      /\ UNCHANGED <<history, historyCache, historyVersion, historyRead, record, reads>>
    BY DEF ListBegins
<1>2. \A j \in RecordedJob : Latest(Recorded(j)) \in Recorded(j) /\ Latest(Recorded(j)) \in Nat
    BY <1>t, RecordedIs DEF HistoryTypes
<1>3. needs \in HistoryValues /\ \A j \in RecordedJob : needs[j] \in Recorded(j)
    BY <1>2 DEF HistoryValues
<1> HIDE DEF needs
<1>4. HistoryTypes'
    BY <1>t, <1>1, <1>3 DEF HistoryTypes
<1>5. /\ SavesHold' /\ CacheShows' /\ PreviousShow' /\ ReadsShow'
      /\ \A j \in RecordedJob : Recorded(j)' = Recorded(j)
    BY <1>t, <1>1 DEF SavesHold, CacheShows, PreviousShow, ReadsShow, ShowsJob, RecordAway, Recorded
<1>6. \A m \in List : /\ m # l => list'[m] = list[m]
                      /\ list'[l].step = "asking" /\ list'[l].needs = needs
    BY <1>t, <1>1 DEF HistoryTypes
<1>7. ListsHold'
    BY <1>t, <1>3, <1>5, <1>6 DEF ListsHold
<1> QED
    BY <1>4, <1>5, <1>7 DEF HistoriesInv

\* It is answered from the cache, or waits for a read.
LEMMA ListAsksStep ==
    ASSUME HistoriesInv, NEW l \in List, ListAsks(l)
    PROVE  HistoriesInv'
<1>t. HistoryTypes /\ SavesHold /\ CacheShows /\ PreviousShow /\ ReadsShow /\ ListsHold
    BY DEF HistoriesInv
<1>1. list[l].step = "asking" /\ UNCHANGED <<history, historyCache, historyVersion, record>>
    BY DEF ListAsks
<1>2. SavesHold' /\ CacheShows' /\ PreviousShow' /\ \A j \in RecordedJob : Recorded(j)' = Recorded(j)
    BY <1>t, <1>1 DEF SavesHold, CacheShows, PreviousShow, ShowsJob, RecordAway, Recorded
<1>3. CASE historyCache # NoHistories
  <2>1. /\ list' = [list EXCEPT ![l].step = "answered", ![l].got = historyCache]
        /\ UNCHANGED <<historyRead, reads>>
    BY <1>3 DEF ListAsks
  <2>2. HistoryTypes'
    BY <1>t, <1>1, <1>3, <2>1 DEF HistoryTypes
  <2>3. ReadsShow'
    BY <1>t, <1>1, <2>1 DEF ReadsShow, ShowsJob, RecordAway, Recorded
  <2>4. \A m \in List : /\ m # l => list'[m] = list[m]
                        /\ list'[l].step = "answered" /\ list'[l].needs = list[l].needs
                        /\ list'[l].got = historyCache
    BY <1>t, <2>1 DEF HistoryTypes
  <2>5. \A j \in RecordedJob : list[l].needs[j] \in Recorded(j) /\ list[l].needs[j] <= historyCache[j]
    BY <1>t, <1>1, <1>3 DEF ListsHold, CacheShows, ShowsJob
  <2>6. ListsHold'
    BY <1>t, <1>2, <2>4, <2>5 DEF ListsHold
  <2> QED
    BY <1>2, <2>2, <2>3, <2>6 DEF HistoriesInv
<1>4. CASE historyCache = NoHistories
  <2> DEFINE r == IF historyRead # 0 THEN historyRead ELSE Len(reads) + 1
             begun == [version |-> historyVersion, left |-> RecordedJob, ended |-> FALSE, got |-> EmptyRecords]
  <2>1. /\ list' = [list EXCEPT ![l].step = "waiting", ![l].read = r] /\ historyRead' = r
        /\ reads' = IF r \in DOMAIN reads THEN reads ELSE Append(reads, begun)
    BY <1>4 DEF ListAsks
  <2>0. r \in Nat /\ reads \in Seq(HistoryRead)
    BY <1>t DEF HistoryTypes
  <2>b. begun \in HistoryRead /\ begun.version = historyVersion /\ begun.left = RecordedJob
    BY <1>t DEF HistoryTypes, HistoryRead, EmptyRecords, HistoryValues
  <2> HIDE DEF r, begun
  <2>2. reads' \in Seq(HistoryRead)
    BY <2>0, <2>1, <2>b, AppendProperties
  <2>3. HistoryTypes'
    BY <1>t, <1>1, <2>0, <2>1, <2>2 DEF HistoryTypes
  <2>4. ReadsShow'
    <3>1. CASE reads' = reads
      BY <1>t, <1>1, <3>1 DEF ReadsShow, ShowsJob, RecordAway, Recorded
    <3>2. CASE reads' = Append(reads, begun)
      <4>1. /\ Len(reads') = Len(reads) + 1 /\ Len(reads) \in Nat /\ reads'[Len(reads) + 1] = begun
            /\ \A i \in 1 .. Len(reads) : reads'[i] = reads[i]
        BY <2>0, <2>b, <3>2, AppendProperties
      <4>2. \A i \in 1 .. Len(reads') : i \in 1 .. Len(reads) \/ i = Len(reads) + 1
        BY <4>1
      <4>3. historyVersion <= historyVersion
        BY <1>t DEF HistoryTypes
      <4> QED
        BY <1>t, <1>1, <2>b, <4>1, <4>2, <4>3 DEF ReadsShow, ShowsJob, RecordAway, Recorded
    <3> QED
      BY <2>1, <3>1, <3>2
  <2>5. \A m \in List : /\ m # l => list'[m] = list[m]
                        /\ list'[l].step = "waiting" /\ list'[l].needs = list[l].needs
    BY <1>t, <2>1 DEF HistoryTypes
  <2>6. ListsHold'
    BY <1>t, <1>1, <1>2, <2>5 DEF ListsHold
  <2> QED
    BY <1>2, <2>3, <2>4, <2>6 DEF HistoriesInv
<1> QED
    BY <1>3, <1>4

\* A record is read.
LEMMA ListFindsStep ==
    ASSUME HistoriesInv, NEW r \in DOMAIN reads, NEW j \in RecordedJob, ListFinds(r, j)
    PROVE  HistoriesInv'
<1>t. HistoryTypes /\ SavesHold /\ CacheShows /\ PreviousShow /\ ReadsShow /\ ListsHold
    BY DEF HistoriesInv
<1>1. /\ reads' = [reads EXCEPT ![r].left = @ \ {j}, ![r].got[j] = history[j]]
      /\ UNCHANGED <<history, historyCache, historyVersion, historyRead, record, list>>
    BY DEF ListFinds
<1>2. SavesHold' /\ CacheShows' /\ PreviousShow' /\ ListsHold'
    BY <1>t, <1>1 DEF SavesHold, CacheShows, PreviousShow, ListsHold, ShowsJob, RecordAway, Recorded
<1> DEFINE found == [reads[r] EXCEPT !.left = @ \ {j}, !.got[j] = history[j]]
<1>3. reads \in Seq(HistoryRead) /\ reads[r] \in HistoryRead /\ r \in 1 .. Len(reads) /\ history[j] \in Nat
    BY <1>t DEF HistoryTypes, HistoryValues
<1>4. found \in HistoryRead /\ found.version = reads[r].version /\ found.left = reads[r].left \ {j}
      /\ found.got[j] = history[j] /\ \A i \in RecordedJob : i # j => found.got[i] = reads[r].got[i]
    BY <1>3 DEF HistoryRead, HistoryValues
<1>5. reads' = [reads EXCEPT ![r] = found]
    BY <1>1, <1>3
<1> HIDE DEF found
<1>6. reads' \in Seq(HistoryRead) /\ Len(reads') = Len(reads)
      /\ reads'[r] = found /\ \A i \in 1 .. Len(reads) : i # r => reads'[i] = reads[i]
    BY <1>3, <1>4, <1>5, ExceptSeq
<1>7. HistoryTypes'
    BY <1>t, <1>1, <1>6 DEF HistoryTypes
<1>8. ShowsJob(found.got, j)
    BY <1>t, <1>4, RecordedIs DEF ShowsJob
<1>9. ASSUME NEW i \in RecordedJob
      PROVE  Recorded(i)' = Recorded(i) /\ (RecordAway(i)' <=> RecordAway(i)) /\ history'[i] = history[i]
    BY <1>1 DEF RecordAway, Recorded
<1>10. ASSUME NEW q \in 1 .. Len(reads)
       PROVE  /\ reads'[q].version = reads[q].version
              /\ reads[q].version = historyVersion
                    => \A i \in RecordedJob \ reads'[q].left : ShowsJob(reads[q].got, i)'
  <2>1. reads[q].version = historyVersion => \A i \in RecordedJob \ reads[q].left : ShowsJob(reads[q].got, i)
    BY <1>t DEF ReadsShow
  <2>2. CASE q # r
    <3>1. reads'[q] = reads[q]
      BY <1>6, <2>2
    <3> QED
      BY <1>9, <2>1, <3>1 DEF ShowsJob
  <2>3. CASE q = r
    <3>1. reads'[q] = found
      BY <1>6, <2>3
    <3>2. ASSUME reads[q].version = historyVersion, NEW i \in RecordedJob \ found.left
          PROVE  ShowsJob(found.got, i)
      <4>1. CASE i = j
        BY <1>8, <4>1
      <4>2. CASE i # j
        BY <1>4, <2>1, <2>3, <3>2, <4>2 DEF ShowsJob
      <4> QED
        BY <4>1, <4>2
    <3> QED
      BY <1>4, <1>9, <2>3, <3>1, <3>2 DEF ShowsJob
  <2> QED
    BY <2>2, <2>3
<1>11. ReadsShow'
  <2>1. Len(reads') = Len(reads) /\ historyVersion' = historyVersion
    BY <1>1, <1>6
  <2>2. \A q \in 1 .. Len(reads) : reads[q].version <= historyVersion
    BY <1>t DEF ReadsShow
  <2> QED
    BY <1>10, <2>1, <2>2 DEF ReadsShow
<1> QED
    BY <1>2, <1>7, <1>11 DEF HistoriesInv

\* A read of the records ends.
LEMMA ListEndsStep ==
    ASSUME HistoriesInv, NEW r \in DOMAIN reads, ListEnds(r)
    PROVE  HistoriesInv'
<1>t. HistoryTypes /\ SavesHold /\ CacheShows /\ PreviousShow /\ ReadsShow /\ ListsHold
    BY DEF HistoriesInv
<1> DEFINE fresh == reads[r].version = historyVersion
           over == [reads[r] EXCEPT !.ended = TRUE]
<1>1. /\ reads[r].left = {} /\ reads' = [reads EXCEPT ![r].ended = TRUE]
      /\ historyRead' = IF historyRead = r THEN 0 ELSE historyRead
      /\ historyCache' = IF fresh THEN reads[r].got ELSE historyCache
      /\ list' = [l \in List |->
                    IF list[l].step # "waiting" \/ list[l].read # r THEN list[l]
                    ELSE IF fresh THEN [list[l] EXCEPT !.step = "answered", !.got = reads[r].got]
                    ELSE [list[l] EXCEPT !.step = "asking"]]
      /\ UNCHANGED <<history, historyVersion, record>>
    BY DEF ListEnds
<1>3. /\ reads \in Seq(HistoryRead) /\ reads[r] \in HistoryRead /\ r \in 1 .. Len(reads)
      /\ reads[r].got \in HistoryValues
  <2>1. reads \in Seq(HistoryRead) /\ r \in 1 .. Len(reads)
    BY <1>t DEF HistoryTypes
  <2>2. reads[r] \in HistoryRead
    BY <2>1
  <2> QED
    BY <2>1, <2>2 DEF HistoryRead
<1>4. over \in HistoryRead /\ over.version = reads[r].version /\ over.left = reads[r].left
      /\ over.got = reads[r].got /\ reads' = [reads EXCEPT ![r] = over]
    BY <1>1, <1>3 DEF HistoryRead
<1> HIDE DEF over
<1>5. reads' \in Seq(HistoryRead) /\ Len(reads') = Len(reads)
      /\ reads'[r] = over /\ \A i \in 1 .. Len(reads) : i # r => reads'[i] = reads[i]
    BY <1>3, <1>4, ExceptSeq
<1>6. fresh => \A j \in RecordedJob : ShowsJob(reads[r].got, j)
    BY <1>t, <1>1, <1>3 DEF ReadsShow
<1>7. /\ SavesHold' /\ PreviousShow' /\ \A j \in RecordedJob : Recorded(j)' = Recorded(j)
      /\ \A j \in RecordedJob : (RecordAway(j)' <=> RecordAway(j)) /\ history'[j] = history[j]
  <2>1. UNCHANGED <<history, historyVersion, record>>
    BY <1>1
  <2>2. SavesHold'
    BY <1>t, <2>1 DEF SavesHold
  <2>3. PreviousShow'
    BY <1>t, <2>1 DEF PreviousShow, ShowsJob, RecordAway, Recorded
  <2>4. ASSUME NEW j \in RecordedJob
        PROVE  Recorded(j)' = Recorded(j) /\ (RecordAway(j)' <=> RecordAway(j)) /\ history'[j] = history[j]
    BY <2>1 DEF RecordAway, Recorded
  <2> QED
    BY <2>2, <2>3, <2>4
<1>8. CacheShows'
    BY <1>t, <1>1, <1>6, <1>7 DEF CacheShows, ShowsJob
<1>9. ReadsShow'
  <2>1. historyVersion' = historyVersion
    BY <1>1
  <2>2. ASSUME NEW q \in 1 .. Len(reads)
        PROVE  reads'[q].version = reads[q].version /\ reads'[q].left = reads[q].left
               /\ reads'[q].got = reads[q].got
    BY <1>4, <1>5
  <2>3. ASSUME NEW q \in 1 .. Len(reads), NEW j \in RecordedJob, ShowsJob(reads[q].got, j)
        PROVE  ShowsJob(reads[q].got, j)'
    BY <1>7, <2>2, <2>3 DEF ShowsJob
  <2>4. ASSUME NEW q \in 1 .. Len(reads)
        PROVE  /\ reads'[q].version <= historyVersion'
               /\ reads'[q].version = historyVersion'
                     => \A j \in RecordedJob \ reads'[q].left : ShowsJob(reads[q].got, j)
    BY <1>t, <2>1, <2>2 DEF ReadsShow
  <2> QED
    BY <1>5, <2>3, <2>4 DEF ReadsShow
<1>10. ASSUME NEW l \in List
       PROVE  /\ list'[l] \in [step : {"none", "asking", "waiting", "answered"}, read : Nat,
                               needs : HistoryValues, got : HistoryValues]
              /\ list'[l].needs = list[l].needs
              /\ \/ list'[l] = list[l]
                 \/ list[l].step = "waiting" /\ list'[l].step = "asking"
                 \/ fresh /\ list[l].step = "waiting" /\ list'[l].step = "answered" /\ list'[l].got = reads[r].got
  <2>1. list[l] \in [step : {"none", "asking", "waiting", "answered"}, read : Nat, needs : HistoryValues, got : HistoryValues]
    BY <1>t DEF HistoryTypes
  <2>2. list'[l] = IF list[l].step # "waiting" \/ list[l].read # r THEN list[l]
                   ELSE IF fresh THEN [list[l] EXCEPT !.step = "answered", !.got = reads[r].got]
                   ELSE [list[l] EXCEPT !.step = "asking"]
    BY <1>1
  <2> HIDE DEF fresh
  <2> QED
    BY <1>3, <2>1, <2>2
<1>11. HistoryTypes'
  <2>1. list' \in [List -> [step : {"none", "asking", "waiting", "answered"}, read : Nat, needs : HistoryValues, got : HistoryValues]]
    BY <1>1, <1>10
  <2>2. historyCache' \in HistoryValues \cup {NoHistories} /\ historyRead' \in Nat
    BY <1>t, <1>1, <1>3 DEF HistoryTypes
  <2> QED
    BY <1>t, <1>1, <1>5, <2>1, <2>2 DEF HistoryTypes
<1>12. ListsHold'
  <2> SUFFICES ASSUME NEW l \in List, NEW j \in RecordedJob
               PROVE  /\ list'[l].step \in {"asking", "waiting"} => list'[l].needs[j] \in Recorded(j)
                      /\ list'[l].step = "answered" => list'[l].needs[j] <= list'[l].got[j]
    BY <1>7 DEF ListsHold
  <2>1. CASE list'[l] = list[l]
    BY <1>t, <2>1 DEF ListsHold
  <2>2. CASE list[l].step = "waiting" /\ list'[l].step = "asking"
    BY <1>t, <1>10, <2>2 DEF ListsHold
  <2>3. CASE fresh /\ list[l].step = "waiting" /\ list'[l].step = "answered" /\ list'[l].got = reads[r].got
    <3>1. list[l].needs[j] \in Recorded(j) /\ ShowsJob(reads[r].got, j)
      BY <1>t, <1>6, <2>3 DEF ListsHold
    <3> QED
      BY <1>10, <2>3, <3>1 DEF ShowsJob
  <2> QED
    BY <1>10, <2>1, <2>2, <2>3
<1> QED
    BY <1>7, <1>8, <1>9, <1>11, <1>12 DEF HistoriesInv

\* Every step keeps the invariant.
LEMMA HistoriesStep == HistoriesInv /\ [HistoriesNext]_historyVars => HistoriesInv'
<1> SUFFICES ASSUME HistoriesInv, [HistoriesNext]_historyVars PROVE HistoriesInv'
    OBVIOUS
<1>1. ASSUME NEW s \in Record, RecordBegins(s) \/ RecordWrites(s) \/ RecordFails(s) \/ RecordEnds(s)
      PROVE  HistoriesInv'
    BY <1>1, RecordBeginsStep, RecordWritesStep, RecordFailsStep, RecordEndsStep
<1>2. ASSUME NEW l \in List, ListBegins(l) \/ ListAsks(l) PROVE HistoriesInv'
    BY <1>2, ListBeginsStep, ListAsksStep
<1>3. ASSUME NEW r \in DOMAIN reads, ListEnds(r) \/ \E j \in RecordedJob : ListFinds(r, j) PROVE HistoriesInv'
    BY <1>3, ListEndsStep, ListFindsStep
<1>4. ASSUME UNCHANGED historyVars PROVE HistoriesInv'
  <2>1. HistoryTypes' /\ SavesHold' /\ ListsHold'
    BY <1>4 DEF HistoriesInv, historyVars, HistoryTypes, SavesHold, ListsHold, Recorded
  <2>2. CacheShows' /\ PreviousShow' /\ ReadsShow'
    BY <1>4 DEF HistoriesInv, historyVars, CacheShows, PreviousShow, ReadsShow, ShowsJob, RecordAway, Recorded
  <2> QED
    BY <2>1, <2>2 DEF HistoriesInv
<1> QED
    BY <1>1, <1>2, <1>3, <1>4 DEF HistoriesNext

\* What a list shows follows from the invariant.
LEMMA HistoriesInvHolds == HistoriesInv => HistoriesShowDisk
<1> SUFFICES ASSUME HistoriesInv PROVE HistoriesShowDisk
    OBVIOUS
<1>1. ASSUME \A s \in Record : record[s].step \in {"none", "saved", "failed"}, historyCache # NoHistories
      PROVE  historyCache = history
  <2>1. \A j \in RecordedJob : historyCache[j] = history[j]
    BY <1>1 DEF HistoriesInv, CacheShows, ShowsJob, RecordAway, RecordUnderWay
  <2>2. history \in HistoryValues /\ historyCache \in HistoryValues
    BY <1>1 DEF HistoriesInv, HistoryTypes
  <2> QED
    BY <2>1, <2>2 DEF HistoryValues
<1>2. \A l \in List : list[l].step = "answered" => \A j \in RecordedJob : list[l].needs[j] <= list[l].got[j]
    BY DEF HistoriesInv, ListsHold
<1> QED
    BY <1>1, <1>2 DEF HistoriesShowDisk

\* The cached list is the disk's while no save is under way, and no list that is answered is older than a
\* save that had ended when it was asked for, for any number of saves, failures, reads and lists.
THEOREM HistoriesShown == HistoriesSpec => []HistoriesShowDisk
BY HistoriesStart, HistoriesStep, HistoriesInvHolds, PTL DEF HistoriesSpec

-----------------------------------------------------------------------------
(* The results of collection jobs *)

\* The shapes of the variables.
KeptRows == SUBSET {GameOf[s] : s \in Save}
KeptEntry == [job : KeptJob, rows : KeptRows]
KeptRead == [job : KeptJob, version : Nat, step : {"reading", "found", "ended"}, rows : KeptRows]
AnyJob == CHOOSE j \in KeptJob : TRUE
KeptAsk == [step : {"none", "asking", "waiting", "answered", "failed"},
            job : KeptJob \cup {AnyJob}, version : Nat, fetch : Nat, needs : KeptRows, got : KeptRows]
ResultTypes ==
    /\ kept \in [KeptJob -> KeptRows] /\ version \in [KeptJob -> Nat]
    /\ resultCache \in Seq(KeptEntry)
    /\ save \in [Save -> [step : {"none", "writing", "ending", "saved", "failed"},
                          previous : KeptRows \cup {NoRows}, version : Nat, written : BOOLEAN]]
    /\ resultRead \in [KeptJob -> Nat] /\ fetches \in Seq(KeptRead)
    /\ ask \in [Ask -> KeptAsk]

\* A job has one entry, and the entries are counted and bounded.
OneEach(es) == \A i, k \in 1 .. Len(es) : es[i].job = es[k].job => i = k
MapHolds ==
    /\ OneEach(resultCache) /\ cachedRows = RowCount(resultCache)
    /\ cachedRows <= MaxCachedRows /\ Len(resultCache) <= MaxCachedJobs

\* What was saved is on disk, and the versions of the saves are not ahead.
SavesKept ==
    \A s \in Save :
       /\ save[s].version <= version[JobOf[s]]
       /\ save[s].step = "writing" => ~ save[s].written
       /\ save[s].written \/ save[s].step = "saved" => GameOf[s] \in kept[JobOf[s]]

\* Rows are fresh when they have what was saved, and are those of the disk unless
\* a save of the job is under way.
InSaving == {"writing", "ending"}
Saving(j) == \E s \in Save : JobOf[s] = j /\ save[s].step \in InSaving
FreshRows(rows, j) == Saved(j) \subseteq rows /\ (~ Saving(j) => rows = kept[j])

\* What is cached, what was found, and what was set aside since the last save of the
\* job began or ended, is fresh.
CacheFresh == \A e \in ToSet(resultCache) : FreshRows(e.rows, e.job)
FetchesFresh ==
    \A f \in 1 .. Len(fetches) :
       /\ fetches[f].version <= version[fetches[f].job]
       /\ fetches[f].step = "found" /\ MayCache(f) => FreshRows(fetches[f].rows, fetches[f].job)
Added(s) == IF save[s].written THEN {GameOf[s]} ELSE {}
Alone(s) == \A t \in Save \ {s} : JobOf[t] = JobOf[s] => save[t].step \notin InSaving
PreviousFresh ==
    \A s \in Save :
       save[s].step \in InSaving /\ save[s].version = version[JobOf[s]] /\ save[s].previous # NoRows
       => /\ Saved(JobOf[s]) \subseteq save[s].previous
          /\ Alone(s) => kept[JobOf[s]] = save[s].previous \cup Added(s)

\* The read that callers join is one of the job as it is now; who waits for a read
\* waits for one of its job, and what a caller needs was saved.
JoinedIsNew ==
    \A j \in KeptJob : resultRead[j] # 0 =>
       /\ resultRead[j] \in 1 .. Len(fetches)
       /\ fetches[resultRead[j]].job = j /\ fetches[resultRead[j]].version = version[j]
AsksHold ==
    \A a \in Ask :
       /\ ask[a].step \in {"asking", "waiting"} => ask[a].job \in KeptJob /\ ask[a].needs \subseteq Saved(ask[a].job)
       /\ ask[a].step = "waiting" =>
             /\ ask[a].fetch \in 1 .. Len(fetches)
             /\ fetches[ask[a].fetch].job = ask[a].job /\ fetches[ask[a].fetch].version = ask[a].version
       /\ ask[a].step = "answered" => ask[a].needs \subseteq ask[a].got

ResultsInv ==
    ResultTypes /\ MapHolds /\ SavesKept /\ CacheFresh /\ FetchesFresh /\ PreviousFresh /\ JoinedIsNew /\ AsksHold

\* The rows of some entries.
RowsIn(S) == UNION {{e.job} \X e.rows : e \in S}

\* The rows of an entry are finitely many.
LEMMA RowsAreFinite == \A rows \in KeptRows : IsFiniteSet(rows)
<1>1. IsFiniteSet({GameOf[s] : s \in Save})
  <2> DEFINE f == [s \in Save |-> GameOf[s]]
  <2>1. f \in Surjection(Save, {GameOf[s] : s \in Save})
    BY DEF Surjection
  <2> QED
    BY <2>1, SaveAssumption, FS_Surjection
<1> QED
    BY <1>1, FS_Subset DEF KeptRows

\* The count of some entries is that of their rows.
LEMMA RowsCounted ==
    ASSUME NEW es \in Seq(KeptEntry)
    PROVE  /\ RowCount(es) = Cardinality(RowsIn(ToSet(es))) /\ RowCount(es) \in Nat
           /\ IsFiniteSet(RowsIn(ToSet(es)))
<1> DEFINE f == [i \in 1 .. Len(es) |-> {es[i].job} \X es[i].rows]
<1>1. Len(es) \in Nat /\ ToSet(es) = {es[i] : i \in 1 .. Len(es)}
    BY QueuedAt
<1>2. ASSUME NEW i \in 1 .. Len(es) PROVE IsFiniteSet(f[i])
  <2>0. es[i] \in KeptEntry
    OBVIOUS
  <2>1. es[i].rows \in KeptRows
    BY <2>0 DEF KeptEntry
  <2>2. IsFiniteSet({es[i].job} \X es[i].rows)
    BY <2>1, RowsAreFinite, MarkedCounted
  <2> QED
    BY <2>2
<1>3. UNION {f[i] : i \in 1 .. Len(es)} = UNION {{es[i].job} \X es[i].rows : i \in 1 .. Len(es)}
    OBVIOUS
<1>4. RowsIn(ToSet(es)) = UNION {{es[i].job} \X es[i].rows : i \in 1 .. Len(es)}
    BY <1>1 DEF RowsIn
<1>5. IsFiniteSet(1 .. Len(es)) /\ DOMAIN f = 1 .. Len(es)
    BY <1>1, FS_Interval
<1> HIDE DEF f
<1>6. IsFiniteSet(UNION {f[i] : i \in 1 .. Len(es)})
    BY <1>2, <1>5, GatheredFinite
<1> QED
    BY <1>3, <1>4, <1>6, FS_CardinalityType DEF RowCount

\* One entry more.
LEMMA EntryAdded ==
    ASSUME NEW es \in Seq(KeptEntry), OneEach(es), NEW e \in KeptEntry, ~ Has(e.job, es)
    PROVE  /\ Append(es, e) \in Seq(KeptEntry) /\ Len(Append(es, e)) = Len(es) + 1
           /\ ToSet(Append(es, e)) = ToSet(es) \cup {e} /\ OneEach(Append(es, e))
           /\ RowCount(Append(es, e)) = RowCount(es) + Cardinality(e.rows)
<1>1. /\ Append(es, e) \in Seq(KeptEntry) /\ Len(Append(es, e)) = Len(es) + 1 /\ Len(es) \in Nat
      /\ \A i \in 1 .. Len(es) : Append(es, e)[i] = es[i]
      /\ Append(es, e)[Len(es) + 1] = e
    BY AppendProperties
<1> DEFINE all == Append(es, e)
<1>2. /\ all \in Seq(KeptEntry) /\ Len(all) = Len(es) + 1 /\ all[Len(es) + 1] = e
      /\ \A i \in 1 .. Len(es) : all[i] = es[i]
    BY <1>1
<1> HIDE DEF all
<1>3. \A i \in 1 .. Len(all) : i \in 1 .. Len(es) \/ i = Len(es) + 1
    BY <1>1, <1>2
<1>4. OneEach(all)
    BY <1>2, <1>3 DEF OneEach, Has
<1>5. ToSet(all) = {all[i] : i \in 1 .. Len(all)} /\ ToSet(es) = {es[i] : i \in 1 .. Len(es)}
    BY <1>2, QueuedAt
<1>6. ToSet(all) = ToSet(es) \cup {e}
    BY <1>1, <1>2, <1>3, <1>5
<1>7. RowsIn(ToSet(all)) = RowsIn(ToSet(es)) \cup ({e.job} \X e.rows)
    BY <1>6 DEF RowsIn
<1>8. RowsIn(ToSet(es)) \cap ({e.job} \X e.rows) = {}
    BY <1>5 DEF RowsIn, Has
<1>9. e.rows \in KeptRows
    BY DEF KeptEntry
<1>10. IsFiniteSet({e.job} \X e.rows) /\ Cardinality({e.job} \X e.rows) = Cardinality(e.rows)
    BY <1>9, RowsAreFinite, MarkedCounted
<1>11. RowCount(all) = RowCount(es) + Cardinality(e.rows)
  <2>1. IsFiniteSet(RowsIn(ToSet(es))) /\ RowCount(es) = Cardinality(RowsIn(ToSet(es)))
        /\ RowCount(all) = Cardinality(RowsIn(ToSet(all)))
    BY <1>2, RowsCounted
  <2> DEFINE A == RowsIn(ToSet(es))
             B == {e.job} \X e.rows
  <2>2. IsFiniteSet(A) /\ IsFiniteSet(B) /\ A \cap B = {}
    BY <2>1, <1>8, <1>10
  <2> HIDE DEF A, B
  <2>3. Cardinality(A \cup B) = Cardinality(A) + Cardinality(B)
    BY <2>2, PartsCounted
  <2> QED
    BY <2>1, <2>3, <1>7, <1>10 DEF A, B
<1> QED
    BY <1>2, <1>4, <1>6, <1>11 DEF all

\* An entry less.
LEMMA EntryLess ==
    ASSUME NEW es \in Seq(KeptEntry), OneEach(es), NEW j
    PROVE  /\ Without(j, es) \in Seq(KeptEntry) /\ OneEach(Without(j, es)) /\ ~ Has(j, Without(j, es))
           /\ Len(Without(j, es)) <= Len(es) /\ Len(Without(j, es)) \in Nat
           /\ ToSet(Without(j, es)) = {e \in ToSet(es) : e.job # j}
           /\ RowCount(Without(j, es)) = RowCount(es) - CountIn(j, es)
           /\ Has(j, es) => /\ [job |-> j, rows |-> RowsOf(j, es)] \in ToSet(es)
                            /\ Len(Without(j, es)) = Len(es) - 1
<1>1. Len(es) \in Nat /\ ToSet(es) = {es[i] : i \in 1 .. Len(es)}
    BY QueuedAt
<1>2. CASE ~ Has(j, es)
  <2>1. ToSet(es) = {e \in ToSet(es) : e.job # j}
    BY <1>1, <1>2 DEF Has
  <2>2. RowCount(es) \in Nat
    BY RowsCounted
  <2> QED
    BY <1>1, <1>2, <2>1, <2>2 DEF Without, CountIn
<1>3. CASE Has(j, es)
  <2> DEFINE n == Place(j, es)
             t == RemoveAt(es, n)
  <2>1. n \in 1 .. Len(es) /\ es[n].job = j
    BY <1>3 DEF Has, Place
  <2>2. Without(j, es) = t /\ RowsOf(j, es) = es[n].rows
    BY <1>3 DEF Without, RowsOf
  <2>0. es[n] \in KeptEntry
    BY <2>1
  <2>3. es[n].rows \in KeptRows /\ es[n] = [job |-> j, rows |-> es[n].rows]
    BY <2>0, <2>1 DEF KeptEntry
  <2> HIDE DEF n, t
  <2>4. Distinct(es)
    BY DEF OneEach, Distinct
  <2>5. /\ t \in Seq(KeptEntry) /\ Len(t) = Len(es) - 1 /\ ToSet(t) = ToSet(es) \ {es[n]}
    BY <2>1, <2>4, Removed DEF t
  <2>6. \A k \in 1 .. Len(es) - 1 : t[k] = IF k < n THEN es[k] ELSE es[k + 1]
    BY <2>1, RemovedAt DEF t
  <2>7. OneEach(t)
    BY <1>1, <2>1, <2>5, <2>6 DEF OneEach
  <2>8. ToSet(t) = {t[k] : k \in 1 .. Len(t)}
    BY <2>5, QueuedAt
  <2>9. ToSet(t) = {e \in ToSet(es) : e.job # j}
    BY <1>1, <2>1, <2>5 DEF OneEach
  <2>10. ~ Has(j, t)
    BY <2>8, <2>9 DEF Has
  <2>11. RowCount(t) = RowCount(es) - CountIn(j, es)
    <3> DEFINE A == RowsIn(ToSet(t))
               B == {j} \X es[n].rows
    <3>1. RowsIn(ToSet(es)) = A \cup B
      BY <1>1, <2>1, <2>3, <2>5 DEF RowsIn
    <3>2. A \cap B = {}
      BY <2>9 DEF RowsIn
    <3>3. IsFiniteSet(A) /\ RowCount(t) = Cardinality(A) /\ RowCount(es) = Cardinality(A \cup B)
      BY <3>1, <2>5, RowsCounted
    <3>4. IsFiniteSet(B) /\ Cardinality(B) = CountIn(j, es)
      BY <1>3, <2>2, <2>3, RowsAreFinite, MarkedCounted DEF CountIn
    <3> HIDE DEF A, B
    <3>5. Cardinality(A \cup B) = Cardinality(A) + Cardinality(B) /\ Cardinality(A) \in Nat /\ Cardinality(B) \in Nat
      BY <3>2, <3>3, <3>4, PartsCounted
    <3> QED
      BY <3>3, <3>4, <3>5
  <2>12. [job |-> j, rows |-> RowsOf(j, es)] \in ToSet(es)
    BY <1>1, <2>1, <2>2, <2>3
  <2> QED
    BY <1>1, <2>1, <2>2, <2>5, <2>7, <2>9, <2>10, <2>11, <2>12
<1> QED
    BY <1>2, <1>3

\* The oldest entries go until the limits hold.
LEMMA TrimmedFits ==
    ASSUME NEW es \in Seq(KeptEntry), OneEach(es)
    PROVE  /\ Trimmed(es) \in Seq(KeptEntry) /\ OneEach(Trimmed(es)) /\ ToSet(Trimmed(es)) \subseteq ToSet(es)
           /\ Len(Trimmed(es)) <= MaxCachedJobs /\ RowCount(Trimmed(es)) <= MaxCachedRows
<1> DEFINE rest(k) == SubSeq(es, k + 1, Len(es))
           Fits(k) == Len(rest(k)) <= MaxCachedJobs /\ RowCount(rest(k)) <= MaxCachedRows
           n == CHOOSE k \in 0 .. Len(es) : Fits(k) /\ \A h \in 0 .. k - 1 : ~ Fits(h)
           T == {k \in 0 .. Len(es) : Fits(k)}
<1>1. Len(es) \in Nat /\ ToSet(es) = {es[i] : i \in 1 .. Len(es)}
    BY QueuedAt
<1>2. Fits(Len(es))
  <2>1. rest(Len(es)) \in Seq(KeptEntry) /\ Len(rest(Len(es))) = 0
    BY <1>1, EndOf
  <2>2. rest(Len(es)) = <<>>
    BY <2>1, EmptySeq
  <2>3. RowsIn(ToSet(<<>>)) = {} /\ <<>> \in Seq(KeptEntry)
    BY NoneQueued DEF RowsIn
  <2>4. RowCount(<<>>) = 0
    BY <2>3, RowsCounted, FS_EmptySet
  <2>5. 0 <= MaxCachedJobs /\ 0 <= MaxCachedRows
    BY KeptAssumption
  <2>6. Len(rest(Len(es))) <= MaxCachedJobs
    BY <2>1, <2>5
  <2>7. RowCount(rest(Len(es))) <= MaxCachedRows
    <3>1. RowCount(rest(Len(es))) = 0
      BY <2>2, <2>4
    <3> QED
      BY <2>5, <3>1
  <2> QED
    BY <2>6, <2>7
<1>3. n \in 0 .. Len(es) /\ Fits(n)
  <2> HIDE DEF Fits
  <2>1. T \in SUBSET Nat /\ T # {}
    BY <1>1, <1>2
  <2>2. PICK k \in T : \A m \in T : k <= m
    <3> HIDE DEF T
    <3> QED
      BY <2>1, FirstExists
  <2>3. \A h \in 0 .. k - 1 : ~ Fits(h)
    <3> SUFFICES ASSUME NEW h \in 0 .. k - 1, Fits(h) PROVE FALSE
      OBVIOUS
    <3>1. h \in T /\ h < k
      BY <1>1
    <3> QED
      BY <2>2, <3>1
  <2> QED
    BY <2>2, <2>3
<1>4. Trimmed(es) = rest(n)
    BY DEF Trimmed
<1> HIDE DEF n
<1>5. /\ rest(n) \in Seq(KeptEntry) /\ Len(rest(n)) = Len(es) - n
      /\ \A i \in 1 .. Len(es) - n : rest(n)[i] = es[n + i]
    BY <1>3, EndOf
<1>6. Len(rest(n)) <= MaxCachedJobs /\ RowCount(rest(n)) <= MaxCachedRows
    BY <1>3
<1> DEFINE t == rest(n)
<1>7. /\ t \in Seq(KeptEntry) /\ Len(t) = Len(es) - n
      /\ \A i \in 1 .. Len(es) - n : t[i] = es[n + i]
    BY <1>5
<1> HIDE DEF t, Fits
<1>8. \A i \in 1 .. Len(t) : n + i \in 1 .. Len(es) /\ t[i] = es[n + i]
    BY <1>1, <1>3, <1>7
<1>9. OneEach(t)
  <2> SUFFICES ASSUME NEW i \in 1 .. Len(t), NEW k \in 1 .. Len(t), t[i].job = t[k].job PROVE i = k
    BY DEF OneEach
  <2>1. n + i = n + k
    BY <1>8 DEF OneEach
  <2> QED
    BY <1>1, <1>3, <1>7, <2>1
<1>10. ToSet(t) \subseteq ToSet(es)
  <2>1. ToSet(t) = {t[i] : i \in 1 .. Len(t)}
    BY <1>7, QueuedAt
  <2> QED
    BY <1>1, <1>8, <2>1
<1> QED
    BY <1>4, <1>6, <1>7, <1>9, <1>10 DEF t

\* The invariant holds before the first call.
LEMMA ResultsStart == ResultsInit => ResultsInv
<1> SUFFICES ASSUME ResultsInit PROVE ResultsInv
    OBVIOUS
<1> USE DEF ResultsInit, Unsaved
<1>1. ResultTypes
    BY DEF ResultTypes, KeptRows, AnyJob, KeptAsk
<1>2. MapHolds
  <2>1. RowsIn(ToSet(<<>>)) = {} /\ <<>> \in Seq(KeptEntry) /\ Len(<<>>) = 0
    BY NoneQueued DEF RowsIn
  <2>2. RowCount(<<>>) = 0
    BY <2>1, RowsCounted, FS_EmptySet
  <2>3. 0 <= MaxCachedJobs /\ 0 <= MaxCachedRows
    BY KeptAssumption
  <2> QED
    BY <2>1, <2>2, <2>3 DEF MapHolds, OneEach
<1>3. SavesKept /\ PreviousFresh /\ JoinedIsNew /\ AsksHold
    BY SaveAssumption DEF SavesKept, PreviousFresh, JoinedIsNew, AsksHold, InSaving
<1>4. CacheFresh /\ FetchesFresh
    BY NoneQueued DEF CacheFresh, FetchesFresh
<1> QED
    BY <1>1, <1>2, <1>3, <1>4 DEF ResultsInv

\* A step of a save leaves the other jobs alone.
LEMMA OthersStay ==
    ASSUME NEW s \in Save, \A t \in Save \ {s} : save'[t] = save[t],
           NEW j \in KeptJob, j # JobOf[s], kept'[j] = kept[j]
    PROVE  /\ Saved(j)' = Saved(j) /\ (Saving(j)' <=> Saving(j))
           /\ \A rows : FreshRows(rows, j) => FreshRows(rows, j)'
<1>1. Saved(j)' = Saved(j)
    BY DEF Saved
<1>2. Saving(j)' <=> Saving(j)
    BY DEF Saving
<1>3. ASSUME NEW rows, FreshRows(rows, j) PROVE FreshRows(rows, j)'
    BY <1>1, <1>2, <1>3 DEF FreshRows
<1> QED
    BY <1>1, <1>2, <1>3

\* A step that leaves the saves and the files alone.
LEMMA FreshStays ==
    ASSUME UNCHANGED <<kept, save>>, NEW j
    PROVE  Saved(j)' = Saved(j) /\ \A rows : FreshRows(rows, j) => FreshRows(rows, j)'
<1>1. Saved(j)' = Saved(j) /\ (Saving(j)' <=> Saving(j)) /\ kept'[j] = kept[j]
    BY DEF Saved, Saving
<1>2. ASSUME NEW rows, FreshRows(rows, j) PROVE FreshRows(rows, j)'
    BY <1>1, <1>2 DEF FreshRows
<1> QED
    BY <1>1, <1>2

\* A save of a job begins or ends: what was found or set aside for the job is of an older version.
LEMMA SaveTurns ==
    ASSUME ResultsInv, NEW s \in Save, \A t \in Save \ {s} : save'[t] = save[t], InvalidateResults(JobOf[s]),
           UNCHANGED <<kept, fetches, ask>>,
           ResultTypes', MapHolds', SavesKept', CacheFresh', Saved(JobOf[s]) \subseteq Saved(JobOf[s])',
           save'[s].step \in InSaving /\ save'[s].previous # NoRows
               => /\ Saved(JobOf[s])' \subseteq save'[s].previous
                  /\ Alone(s)' => kept[JobOf[s]] = save'[s].previous \cup Added(s)'
    PROVE  ResultsInv'
<1>t. ResultTypes /\ SavesKept /\ FetchesFresh /\ PreviousFresh /\ JoinedIsNew /\ AsksHold
    BY DEF ResultsInv
<1> DEFINE j == JobOf[s]
<1>1. j \in KeptJob
    BY SaveAssumption
<1>2. /\ version[j] \in Nat /\ version'[j] = version[j] + 1
      /\ \A i \in KeptJob : i # j => version'[i] = version[i] /\ resultRead'[i] = resultRead[i]
      /\ resultRead'[j] = 0 /\ \A i \in KeptJob : version[i] \in Nat
    BY <1>t, <1>1 DEF ResultTypes, InvalidateResults
<1>3. ASSUME NEW i \in KeptJob, i # j
      PROVE  Saved(i)' = Saved(i) /\ \A rows : FreshRows(rows, i) => FreshRows(rows, i)'
    BY <1>3, OthersStay
<1> HIDE DEF j
<1>4. ASSUME NEW f \in 1 .. Len(fetches)
      PROVE  /\ fetches[f].version <= version'[fetches[f].job]
             /\ fetches[f].step = "found" /\ MayCache(f)' => FreshRows(fetches[f].rows, fetches[f].job)'
  <2>0. fetches[f] \in KeptRead
    BY <1>t DEF ResultTypes
  <2>1. fetches[f].job \in KeptJob /\ fetches[f].version \in Nat
    BY <2>0 DEF KeptRead
  <2>2. /\ fetches[f].version <= version[fetches[f].job]
        /\ fetches[f].step = "found" /\ MayCache(f) => FreshRows(fetches[f].rows, fetches[f].job)
    BY <1>t DEF FetchesFresh
  <2>3. CASE fetches[f].job = j
    BY <1>2, <2>1, <2>2, <2>3 DEF MayCache
  <2>4. CASE fetches[f].job # j
    <3>1. MayCache(f)' <=> MayCache(f)
      BY <1>2, <2>1, <2>4 DEF MayCache
    <3>2. \A rows : FreshRows(rows, fetches[f].job) => FreshRows(rows, fetches[f].job)'
      BY <1>3, <2>1, <2>4
    <3> QED
      BY <1>2, <2>1, <2>2, <2>4, <3>1, <3>2
  <2> QED
    BY <2>3, <2>4
<1>5. FetchesFresh'
    BY <1>4 DEF FetchesFresh, MayCache
<1>6. PreviousFresh'
  <2> SUFFICES ASSUME NEW t \in Save, save'[t].step \in InSaving, save'[t].version = version'[JobOf[t]],
                      save'[t].previous # NoRows
               PROVE  /\ Saved(JobOf[t])' \subseteq save'[t].previous
                      /\ Alone(t)' => kept'[JobOf[t]] = save'[t].previous \cup Added(t)'
    BY DEF PreviousFresh
  <2>1. CASE t = s
    BY <2>1
  <2>2. CASE t # s /\ JobOf[t] = j
    <3>1. save'[t] = save[t] /\ save[t].version <= version[j] /\ save[t].version \in Nat
      BY <1>t, <2>2 DEF SavesKept, ResultTypes
    <3> QED
      BY <1>2, <2>2, <3>1
  <2>3. CASE JobOf[t] # j
    <3>1. JobOf[t] \in KeptJob /\ save'[t] = save[t] /\ version'[JobOf[t]] = version[JobOf[t]]
      BY <1>2, <2>3, SaveAssumption DEF j
    <3>2. Alone(t)' => Alone(t)
      BY <2>3 DEF Alone, j
    <3>3. Added(t)' = Added(t) /\ Saved(JobOf[t])' = Saved(JobOf[t])
      BY <1>3, <2>3, <3>1 DEF Added
    <3> QED
      BY <1>t, <3>1, <3>2, <3>3 DEF PreviousFresh
  <2> QED
    BY <2>1, <2>2, <2>3
<1>7. JoinedIsNew'
    BY <1>t, <1>2 DEF JoinedIsNew
<1>8. AsksHold'
  <2>1. \A i \in KeptJob : Saved(i) \subseteq Saved(i)'
    BY <1>3 DEF j
  <2> QED
    BY <1>t, <2>1 DEF AsksHold
<1> QED
    BY <1>5, <1>6, <1>7, <1>8 DEF ResultsInv

\* A save begins.
LEMMA SaveBeginsHolds ==
    ASSUME ResultsInv, NEW s \in Save, SaveBegins(s)
    PROVE  ResultsInv'
<1>t. ResultTypes /\ MapHolds /\ SavesKept /\ CacheFresh
    BY DEF ResultsInv
<1> DEFINE j == JobOf[s]
           begun == [step |-> "writing", written |-> FALSE,
                     previous |-> RowsOf(j, resultCache), version |-> version[j] + 1]
<1>1. /\ save[s].step = "none" /\ save' = [save EXCEPT ![s] = begun] /\ InvalidateResults(j)
      /\ resultCache' = Without(j, resultCache) /\ cachedRows' = cachedRows - CountOf(j)
      /\ UNCHANGED <<kept, fetches, ask>>
    BY DEF SaveBegins
<1>2. j \in KeptJob /\ version[j] \in Nat /\ version'[j] = version[j] + 1
      /\ \A i \in KeptJob : i # j => version'[i] = version[i]
    BY <1>t, <1>1, SaveAssumption DEF ResultTypes, InvalidateResults
<1>3. /\ Without(j, resultCache) \in Seq(KeptEntry) /\ OneEach(Without(j, resultCache))
      /\ Len(Without(j, resultCache)) <= Len(resultCache) /\ Len(Without(j, resultCache)) \in Nat
      /\ ToSet(Without(j, resultCache)) = {e \in ToSet(resultCache) : e.job # j}
      /\ RowCount(Without(j, resultCache)) = RowCount(resultCache) - CountIn(j, resultCache)
      /\ Has(j, resultCache) => [job |-> j, rows |-> RowsOf(j, resultCache)] \in ToSet(resultCache)
    BY <1>t, EntryLess DEF ResultTypes, MapHolds
<1>4. RowsOf(j, resultCache) # NoRows => Has(j, resultCache)
    BY DEF RowsOf
<1>5. Has(j, resultCache) => RowsOf(j, resultCache) \in KeptRows
  <2>1. ToSet(resultCache) \subseteq KeptEntry
    BY <1>t, QueuedAt DEF ResultTypes
  <2> QED
    BY <1>3, <2>1 DEF KeptEntry
<1>6. begun \in [step : {"none", "writing", "ending", "saved", "failed"},
                 previous : KeptRows \cup {NoRows}, version : Nat, written : BOOLEAN]
    BY <1>2, <1>4, <1>5
<1>s. /\ save'[s] = begun /\ begun.step = "writing" /\ ~ begun.written /\ begun.version = version[j] + 1
      /\ begun.previous = RowsOf(j, resultCache) /\ \A t \in Save \ {s} : save'[t] = save[t]
    BY <1>t, <1>1 DEF ResultTypes
<1> HIDE DEF j, begun
<1>7. ResultTypes'
  <2>1. version' \in [KeptJob -> Nat] /\ resultRead' \in [KeptJob -> Nat]
    BY <1>t, <1>1, <1>2 DEF ResultTypes, InvalidateResults
  <2> QED
    BY <1>t, <1>1, <1>3, <1>6, <2>1 DEF ResultTypes
<1>8. MapHolds'
  <2>1. CountOf(j) = CountIn(j, resultCache)
    BY DEF CountOf
  <2>2. RowCount(resultCache) \in Nat /\ RowCount(Without(j, resultCache)) \in Nat /\ CountIn(j, resultCache) \in Nat
    <3>1. RowCount(resultCache) \in Nat /\ RowCount(Without(j, resultCache)) \in Nat
      BY <1>t, <1>3, RowsCounted DEF ResultTypes
    <3>2. Has(j, resultCache) => Cardinality(RowsOf(j, resultCache)) \in Nat
      BY <1>5, RowsAreFinite, FS_CardinalityType
    <3> QED
      BY <3>1, <3>2 DEF CountIn
  <2>3. MaxCachedJobs \in Nat /\ MaxCachedRows \in Nat /\ Len(resultCache) \in Nat
    BY <1>t, KeptAssumption DEF ResultTypes
  <2>4. OneEach(resultCache')
    BY <1>1, <1>3
  <2> QED
    BY <1>t, <1>1, <1>3, <2>1, <2>2, <2>3, <2>4 DEF MapHolds, OneEach
<1>9. Saved(j)' = Saved(j)
    BY <1>1, <1>s DEF Saved
<1>10. SavesKept'
  <2>1. \A t \in Save : save[t].version \in Nat /\ JobOf[t] \in KeptJob
    BY <1>t, SaveAssumption DEF ResultTypes
  <2>2. \A i \in KeptJob : version[i] \in Nat /\ version'[i] \in Nat /\ version[i] <= version'[i]
    BY <1>t, <1>2 DEF ResultTypes
  <2>3. ASSUME NEW t \in Save, t # s PROVE save'[t] = save[t] /\ save'[t].version <= version'[JobOf[t]]
    BY <1>t, <1>s, <2>1, <2>2, <2>3 DEF SavesKept
  <2>4. save'[s].version <= version'[JobOf[s]]
    BY <1>s, <1>2, <2>2 DEF j
  <2> QED
    BY <1>t, <1>1, <1>s, <2>3, <2>4 DEF SavesKept
<1>11. CacheFresh'
  <2> SUFFICES ASSUME NEW e \in ToSet(resultCache'), e \in ToSet(resultCache), e.job # j
               PROVE  FreshRows(e.rows, e.job)'
    BY <1>1, <1>3 DEF CacheFresh
  <2>1. e.job \in KeptJob
    <3>1. ToSet(resultCache) \subseteq KeptEntry
      BY <1>t, QueuedAt DEF ResultTypes
    <3> QED
      BY <3>1 DEF KeptEntry
  <2>2. FreshRows(e.rows, e.job)
    BY <1>t DEF CacheFresh
  <2>3. kept'[e.job] = kept[e.job]
    BY <1>1
  <2> QED
    BY <1>s, <2>1, <2>2, <2>3, OthersStay DEF j
<1>12. ASSUME begun.previous # NoRows
       PROVE  Saved(j) \subseteq begun.previous /\ (Alone(s)' => kept[j] = begun.previous \cup Added(s)')
  <2>1. Has(j, resultCache) /\ [job |-> j, rows |-> begun.previous] \in ToSet(resultCache)
    BY <1>3, <1>4, <1>s, <1>12
  <2>2. FreshRows(begun.previous, j)
    BY <1>t, <2>1 DEF CacheFresh
  <2>3. Added(s)' = {}
    BY <1>s DEF Added
  <2>4. Alone(s)' => ~ Saving(j)
    BY <1>1, <1>s DEF Alone, Saving, InSaving, j
  <2> QED
    BY <2>2, <2>3, <2>4 DEF FreshRows
<1> QED
  <2>1. InvalidateResults(JobOf[s]) /\ UNCHANGED <<kept, fetches, ask>>
    BY <1>1 DEF j
  <2>2. Saved(JobOf[s]) \subseteq Saved(JobOf[s])'
    BY <1>9 DEF j
  <2>3. save'[s].step \in InSaving /\ save'[s].previous # NoRows
               => /\ Saved(JobOf[s])' \subseteq save'[s].previous
                  /\ Alone(s)' => kept[JobOf[s]] = save'[s].previous \cup Added(s)'
    BY <1>s, <1>9, <1>12 DEF j
  <2> QED
    BY <1>s, <1>7, <1>8, <1>10, <1>11, <2>1, <2>2, <2>3, SaveTurns

\* A file was written, or was not.
LEMMA SavePasses ==
    ASSUME ResultsInv, NEW s \in Save, save[s].step = "writing", NEW w \in BOOLEAN,
           save' = [save EXCEPT ![s] = [save[s] EXCEPT !.step = "ending", !.written = w]],
           kept' = [kept EXCEPT ![JobOf[s]] = @ \cup (IF w THEN {GameOf[s]} ELSE {})],
           UNCHANGED <<resultCache, cachedRows, version, resultRead, fetches, ask>>
    PROVE  ResultsInv'
<1>t. ResultTypes /\ MapHolds /\ SavesKept /\ CacheFresh /\ FetchesFresh /\ PreviousFresh /\ JoinedIsNew /\ AsksHold
    BY DEF ResultsInv
<1> DEFINE j == JobOf[s]
           g == IF w THEN {GameOf[s]} ELSE {}
<1>1. j \in KeptJob /\ g \subseteq {GameOf[t] : t \in Save}
    BY SaveAssumption
<1>2. /\ save'[s].step = "ending" /\ save'[s].written = w /\ save'[s].previous = save[s].previous
      /\ save'[s].version = save[s].version /\ \A t \in Save \ {s} : save'[t] = save[t]
      /\ save'[s] \in [step : {"none", "writing", "ending", "saved", "failed"},
                       previous : KeptRows \cup {NoRows}, version : Nat, written : BOOLEAN]
    BY <1>t DEF ResultTypes
<1>3. kept'[j] = kept[j] \cup g /\ \A i \in KeptJob : i # j => kept'[i] = kept[i]
    BY <1>t, <1>1 DEF ResultTypes
<1>g. w => GameOf[s] \in g
    OBVIOUS
<1>4. ResultTypes'
  <2>1. kept[j] \cup g \in KeptRows
    BY <1>t, <1>1 DEF ResultTypes, KeptRows
  <2>2. kept' \in [KeptJob -> KeptRows]
    BY <1>t, <1>1, <1>3, <2>1 DEF ResultTypes
  <2>3. save' \in [Save -> [step : {"none", "writing", "ending", "saved", "failed"},
                            previous : KeptRows \cup {NoRows}, version : Nat, written : BOOLEAN]]
    BY <1>t, <1>2 DEF ResultTypes
  <2> QED
    BY <1>t, <2>2, <2>3 DEF ResultTypes
<1>5. MapHolds' /\ JoinedIsNew'
  <2>1. MapHolds'
    BY <1>t DEF MapHolds
  <2>2. JoinedIsNew'
    BY <1>t DEF JoinedIsNew
  <2> QED
    BY <2>1, <2>2
<1>a. Added(s)' = g /\ Added(s) = {}
    BY <1>t, <1>2 DEF Added, SavesKept
<1>6. SavesKept'
  <2>1. ASSUME NEW t \in Save, t # s
        PROVE  /\ save'[t].version <= version[JobOf[t]]
               /\ save'[t].step = "writing" => ~ save'[t].written
               /\ save'[t].written \/ save'[t].step = "saved" => GameOf[t] \in kept'[JobOf[t]]
    <3>1. JobOf[t] \in KeptJob
      BY SaveAssumption
    <3>2. kept[JobOf[t]] \subseteq kept'[JobOf[t]]
      BY <1>3, <3>1
    <3> QED
      BY <1>t, <1>2, <2>1, <3>2 DEF SavesKept
  <2>2. /\ save'[s].version <= version[j] /\ save'[s].step # "writing"
        /\ save'[s].written \/ save'[s].step = "saved" => GameOf[s] \in kept'[j]
    BY <1>t, <1>2, <1>3, <1>g DEF SavesKept
  <2> QED
    BY <2>1, <2>2 DEF SavesKept
<1>7. Saved(j)' = Saved(j)
  <2> HIDE DEF j
  <2> QED
    BY <1>2 DEF Saved
<1>8. Saving(j)'
    BY <1>2 DEF Saving, InSaving
<1>9. ASSUME NEW i \in KeptJob, NEW rows, FreshRows(rows, i) PROVE FreshRows(rows, i)'
  <2>1. CASE i = j
    BY <1>7, <1>8, <1>9, <2>1 DEF FreshRows
  <2>2. CASE i # j
    BY <1>2, <1>3, <1>9, <2>2, OthersStay
  <2> QED
    BY <2>1, <2>2
<1>10. \A i \in KeptJob : Saved(i)' = Saved(i)
    BY <1>2, <1>3, <1>7, OthersStay
<1> HIDE DEF j, g
<1>11. CacheFresh'
  <2>1. ASSUME NEW e \in ToSet(resultCache) PROVE FreshRows(e.rows, e.job)'
    <3>1. ToSet(resultCache) \subseteq KeptEntry
      BY <1>t, QueuedAt DEF ResultTypes
    <3>2. e.job \in KeptJob
      BY <3>1 DEF KeptEntry
    <3>3. FreshRows(e.rows, e.job)
      BY <1>t DEF CacheFresh
    <3> QED
      BY <1>9, <3>2, <3>3
  <2> QED
    BY <2>1 DEF CacheFresh
<1>12. FetchesFresh'
  <2>1. ASSUME NEW f \in 1 .. Len(fetches), fetches[f].step = "found", MayCache(f)
        PROVE  FreshRows(fetches[f].rows, fetches[f].job)'
    <3>0. fetches[f] \in KeptRead
      BY <1>t DEF ResultTypes
    <3>1. fetches[f].job \in KeptJob
      BY <3>0 DEF KeptRead
    <3>2. FreshRows(fetches[f].rows, fetches[f].job)
      BY <1>t, <2>1 DEF FetchesFresh
    <3> QED
      BY <1>9, <3>1, <3>2
  <2> QED
    BY <1>t, <2>1 DEF FetchesFresh, MayCache
<1>13. PreviousFresh'
  <2> SUFFICES ASSUME NEW t \in Save, save'[t].step \in InSaving, save'[t].version = version'[JobOf[t]],
                      save'[t].previous # NoRows
               PROVE  /\ Saved(JobOf[t])' \subseteq save'[t].previous
                      /\ Alone(t)' => kept'[JobOf[t]] = save'[t].previous \cup Added(t)'
    BY DEF PreviousFresh
  <2>0. JobOf[t] \in KeptJob
    BY SaveAssumption
  <2>1. save[t].step \in InSaving /\ save[t].version = version[JobOf[t]] /\ save[t].previous # NoRows
        /\ save'[t].previous = save[t].previous
    BY <1>2 DEF InSaving
  <2>2. /\ Saved(JobOf[t]) \subseteq save[t].previous
        /\ Alone(t) => kept[JobOf[t]] = save[t].previous \cup Added(t)
    BY <1>t, <2>1 DEF PreviousFresh
  <2>3. Saved(JobOf[t])' \subseteq save'[t].previous
    BY <1>10, <2>0, <2>1, <2>2
  <2>4. CASE t = s
    <3>1. Alone(s)' => Alone(s)
      BY <1>2 DEF Alone
    <3>2. Alone(s) => kept'[j] = save'[s].previous \cup Added(s)'
      BY <1>3, <1>a, <2>1, <2>2, <2>4 DEF j
    <3> QED
      BY <2>3, <2>4, <3>1, <3>2 DEF j
  <2>5. CASE t # s /\ JobOf[t] = j
    <3>1. ~ Alone(t)'
      BY <1>2, <2>5 DEF Alone, InSaving, j
    <3> QED
      BY <2>3, <3>1
  <2>6. CASE t # s /\ JobOf[t] # j
    <3>1. Alone(t)' => Alone(t)
      BY <1>2, <2>6 DEF Alone, j
    <3>2. Added(t)' = Added(t)
      BY <1>2, <2>6 DEF Added
    <3> QED
      BY <1>3, <2>0, <2>1, <2>2, <2>3, <2>6, <3>1, <3>2
  <2> QED
    BY <2>4, <2>5, <2>6
<1>14. AsksHold'
    BY <1>t, <1>10 DEF AsksHold
<1> QED
    BY <1>4, <1>5, <1>6, <1>11, <1>12, <1>13, <1>14 DEF ResultsInv

\* What is cached fits the limits, and nothing else is added.
LEMMA CachedFits ==
    ASSUME NEW j \in KeptJob, NEW rows \in KeptRows, NEW es \in Seq(KeptEntry), OneEach(es),
           Len(es) <= MaxCachedJobs, RowCount(es) <= MaxCachedRows, CacheResults(j, rows, es, RowCount(es))
    PROVE  /\ resultCache' \in Seq(KeptEntry) /\ OneEach(resultCache') /\ cachedRows' = RowCount(resultCache')
           /\ RowCount(resultCache') <= MaxCachedRows /\ Len(resultCache') <= MaxCachedJobs
           /\ \A e \in ToSet(resultCache') : e \in ToSet(es) \/ (e.job = j /\ e.rows = rows)
<1>1. CASE Cardinality(rows) > MaxCachedRows
  <2>1. resultCache' = es /\ cachedRows' = RowCount(es)
    BY <1>1 DEF CacheResults
  <2> QED
    BY <2>1
<1>2. CASE ~ (Cardinality(rows) > MaxCachedRows)
  <2> DEFINE others == Without(j, es)
             e == [job |-> j, rows |-> rows]
             all == Append(others, e)
             last == Trimmed(all)
  <2> DEFINE grown == RowCount(es) + Cardinality(rows) - CountIn(j, es)
  <2>0. /\ resultCache' = last
        /\ cachedRows' = grown - (RowCount(all) - RowCount(last))
    BY <1>2, Zenon DEF CacheResults
  <2>1. grown = RowCount(es) + Cardinality(rows) - CountIn(j, es)
    OBVIOUS
  <2> HIDE DEF grown
  <2>2. /\ others \in Seq(KeptEntry) /\ OneEach(others) /\ ~ Has(j, others)
        /\ ToSet(others) \subseteq ToSet(es) /\ RowCount(others) = RowCount(es) - CountIn(j, es)
    BY EntryLess
  <2>3. e \in KeptEntry /\ e.job = j /\ e.rows = rows
    BY DEF KeptEntry
  <2> HIDE DEF others, e, last
  <2>4. /\ all \in Seq(KeptEntry) /\ OneEach(all) /\ ToSet(all) = ToSet(others) \cup {e}
        /\ RowCount(all) = RowCount(others) + Cardinality(rows)
    BY <2>2, <2>3, EntryAdded
  <2> HIDE DEF all
  <2>5. /\ last \in Seq(KeptEntry) /\ OneEach(last) /\ ToSet(last) \subseteq ToSet(all)
        /\ Len(last) <= MaxCachedJobs /\ RowCount(last) <= MaxCachedRows
    BY <2>4, TrimmedFits DEF last
  <2>6. /\ RowCount(last) \in Nat /\ RowCount(others) \in Nat /\ RowCount(es) \in Nat /\ Cardinality(rows) \in Nat
    BY <2>2, <2>5, RowsCounted, RowsAreFinite, FS_CardinalityType
  <2>7. CountIn(j, es) \in Nat
    <3>1. Has(j, es) => RowsOf(j, es) \in KeptRows
      <4>1. Has(j, es) => [job |-> j, rows |-> RowsOf(j, es)] \in ToSet(es)
        BY EntryLess
      <4>2. ToSet(es) \subseteq KeptEntry
        BY QueuedAt
      <4> QED
        BY <4>1, <4>2 DEF KeptEntry
    <3> QED
      BY <3>1, RowsAreFinite, FS_CardinalityType DEF CountIn
  <2>8. cachedRows' = RowCount(last)
    BY <2>0, <2>1, <2>2, <2>4, <2>6, <2>7
  <2> QED
    BY <2>0, <2>2, <2>3, <2>4, <2>5, <2>8
<1> QED
    BY <1>1, <1>2

\* A save ends, and what it had set aside is cached with its row.
LEMMA SaveEndsHolds ==
    ASSUME ResultsInv, NEW s \in Save, SaveEnds(s)
    PROVE  ResultsInv'
<1>t. ResultTypes /\ MapHolds /\ SavesKept /\ CacheFresh /\ PreviousFresh
    BY DEF ResultsInv
<1> DEFINE j == JobOf[s]
           over == [Unsaved EXCEPT !.step = IF save[s].written THEN "saved" ELSE "failed"]
           others == Without(j, resultCache)
           known == save[s].written /\ save[s].version = version[j] /\ save[s].previous # NoRows
           rows == save[s].previous \cup {GameOf[s]}
<1>1. /\ save[s].step = "ending" /\ save' = [save EXCEPT ![s] = over] /\ InvalidateResults(j)
      /\ IF known
         THEN CacheResults(j, rows, others, cachedRows - CountOf(j))
         ELSE resultCache' = others /\ cachedRows' = cachedRows - CountOf(j)
      /\ UNCHANGED <<kept, fetches, ask>>
    BY DEF SaveEnds
<1>2. j \in KeptJob /\ version[j] \in Nat /\ version'[j] = version[j] + 1
      /\ \A i \in KeptJob : i # j => version'[i] = version[i]
    BY <1>t, <1>1, SaveAssumption DEF ResultTypes, InvalidateResults
<1>3. /\ others \in Seq(KeptEntry) /\ OneEach(others)
      /\ Len(others) <= Len(resultCache) /\ Len(others) \in Nat
      /\ ToSet(others) = {e \in ToSet(resultCache) : e.job # j}
      /\ RowCount(others) = RowCount(resultCache) - CountIn(j, resultCache)
      /\ Has(j, resultCache) => [job |-> j, rows |-> RowsOf(j, resultCache)] \in ToSet(resultCache)
    BY <1>t, EntryLess DEF ResultTypes, MapHolds
<1>4. CountOf(j) = CountIn(j, resultCache) /\ cachedRows = RowCount(resultCache)
    BY <1>t DEF CountOf, MapHolds
<1>5. /\ RowCount(resultCache) \in Nat /\ RowCount(others) \in Nat /\ CountIn(j, resultCache) \in Nat
      /\ cachedRows - CountOf(j) = RowCount(others)
  <2>1. RowCount(resultCache) \in Nat /\ RowCount(others) \in Nat
    BY <1>t, <1>3, RowsCounted DEF ResultTypes
  <2>2. Has(j, resultCache) => RowsOf(j, resultCache) \in KeptRows
    <3>1. ToSet(resultCache) \subseteq KeptEntry
      BY <1>t, QueuedAt DEF ResultTypes
    <3> QED
      BY <1>3, <3>1 DEF KeptEntry
  <2>3. Has(j, resultCache) => Cardinality(RowsOf(j, resultCache)) \in Nat
    BY <2>2, RowsAreFinite, FS_CardinalityType
  <2>4. CountIn(j, resultCache) \in Nat
    BY <2>3 DEF CountIn
  <2> QED
    BY <1>3, <1>4, <2>1, <2>4
<1>6. Len(others) <= MaxCachedJobs /\ RowCount(others) <= MaxCachedRows
  <2>1. MaxCachedJobs \in Nat /\ MaxCachedRows \in Nat /\ Len(resultCache) \in Nat
        /\ Len(resultCache) <= MaxCachedJobs /\ cachedRows <= MaxCachedRows
    BY <1>t, KeptAssumption DEF ResultTypes, MapHolds
  <2> QED
    BY <1>3, <1>4, <1>5, <2>1
<1>7. rows \in KeptRows \/ ~ known
  <2>1. known => save[s].previous \in KeptRows
    BY <1>t DEF ResultTypes
  <2> QED
    BY <2>1 DEF KeptRows
<1>s. /\ save'[s] = over /\ over.step \in {"saved", "failed"} /\ (over.step = "saved" <=> save[s].written)
      /\ over.version = 0 /\ ~ over.written /\ over.previous = NoRows
      /\ over \in [step : {"none", "writing", "ending", "saved", "failed"},
                   previous : KeptRows \cup {NoRows}, version : Nat, written : BOOLEAN]
      /\ \A t \in Save \ {s} : save'[t] = save[t]
    BY <1>t, <1>1 DEF ResultTypes, Unsaved
<1> HIDE DEF j, over, others, known, rows
<1>8. /\ resultCache' \in Seq(KeptEntry) /\ OneEach(resultCache') /\ cachedRows' = RowCount(resultCache')
      /\ RowCount(resultCache') <= MaxCachedRows /\ Len(resultCache') <= MaxCachedJobs
      /\ \A e \in ToSet(resultCache') : e \in ToSet(others) \/ (known /\ e.job = j /\ e.rows = rows)
  <2>1. CASE known
    <3>1. CacheResults(j, rows, others, RowCount(others)) /\ rows \in KeptRows
      BY <1>1, <1>5, <1>7, <2>1
    <3>2. /\ resultCache' \in Seq(KeptEntry) /\ OneEach(resultCache') /\ cachedRows' = RowCount(resultCache')
          /\ RowCount(resultCache') <= MaxCachedRows /\ Len(resultCache') <= MaxCachedJobs
          /\ \A e \in ToSet(resultCache') : e \in ToSet(others) \/ (e.job = j /\ e.rows = rows)
      BY <1>2, <1>3, <1>6, <3>1, CachedFits
    <3> QED
      BY <2>1, <3>2
  <2>2. CASE ~ known
    BY <1>1, <1>3, <1>5, <1>6, <2>2
  <2> QED
    BY <2>1, <2>2
<1>9. ResultTypes'
  <2>1. version' \in [KeptJob -> Nat] /\ resultRead' \in [KeptJob -> Nat]
    BY <1>t, <1>1, <1>2 DEF ResultTypes, InvalidateResults
  <2> QED
    BY <1>t, <1>1, <1>8, <1>s, <2>1 DEF ResultTypes
<1>10. MapHolds'
    BY <1>8 DEF MapHolds, OneEach
<1>11. Saved(j)' = Saved(j) \cup (IF save[s].written THEN {GameOf[s]} ELSE {})
    BY <1>1, <1>s DEF Saved, j
<1>12. SavesKept'
  <2>1. \A t \in Save : save[t].version \in Nat /\ JobOf[t] \in KeptJob
    BY <1>t, SaveAssumption DEF ResultTypes
  <2>2. \A i \in KeptJob : version[i] \in Nat /\ version'[i] \in Nat /\ version[i] <= version'[i]
    BY <1>t, <1>2 DEF ResultTypes
  <2>3. ASSUME NEW t \in Save, t # s PROVE save'[t] = save[t] /\ save'[t].version <= version'[JobOf[t]]
    BY <1>t, <1>s, <2>1, <2>2, <2>3 DEF SavesKept
  <2>4. save'[s].version <= version'[JobOf[s]]
    BY <1>s, <1>2, <2>2 DEF j
  <2> QED
    BY <1>t, <1>1, <1>s, <2>3, <2>4 DEF SavesKept
<1>13. CacheFresh'
  <2> SUFFICES ASSUME NEW e \in ToSet(resultCache')
               PROVE  FreshRows(e.rows, e.job)'
    BY DEF CacheFresh
  <2>1. CASE e \in ToSet(others)
    <3>1. e \in ToSet(resultCache) /\ e.job # j
      BY <1>3, <2>1
    <3>2. e.job \in KeptJob
      <4>1. ToSet(resultCache) \subseteq KeptEntry
        BY <1>t, QueuedAt DEF ResultTypes
      <4> QED
        BY <3>1, <4>1 DEF KeptEntry
    <3>3. FreshRows(e.rows, e.job)
      BY <1>t, <3>1 DEF CacheFresh
    <3>4. kept'[e.job] = kept[e.job]
      BY <1>1
    <3> QED
      BY <1>s, <3>1, <3>2, <3>3, <3>4, OthersStay DEF j
  <2>2. CASE known /\ e.job = j /\ e.rows = rows
    <3>1. save[s].step \in InSaving /\ save[s].version = version[JobOf[s]] /\ save[s].previous # NoRows
          /\ save[s].written
      BY <1>1, <2>2 DEF known, j, InSaving
    <3>2. /\ Saved(j) \subseteq save[s].previous
          /\ Alone(s) => kept[j] = save[s].previous \cup {GameOf[s]}
      BY <1>t, <3>1 DEF PreviousFresh, Added, j
    <3>3. Saved(j)' \subseteq rows
      BY <1>11, <3>2 DEF rows
    <3>4. ~ Saving(j)' => Alone(s)
      BY <1>s DEF Saving, Alone, j
    <3>5. ~ Saving(j)' => rows = kept'[j]
      BY <1>1, <3>2, <3>4 DEF rows
    <3> QED
      BY <2>2, <3>3, <3>5 DEF FreshRows
  <2> QED
    BY <1>8, <2>1, <2>2
<1> QED
  <2>1. InvalidateResults(JobOf[s]) /\ UNCHANGED <<kept, fetches, ask>>
    BY <1>1 DEF j
  <2>2. Saved(JobOf[s]) \subseteq Saved(JobOf[s])'
    BY <1>11 DEF j
  <2>3. save'[s].step \notin InSaving
    BY <1>s DEF InSaving
  <2> QED
    BY <1>s, <1>9, <1>10, <1>12, <1>13, <2>1, <2>2, <2>3, SaveTurns

\* A caller asks for the results of a job.
LEMMA AskBeginsHolds ==
    ASSUME ResultsInv, NEW a \in Ask, NEW j \in KeptJob, AskBegins(a, j)
    PROVE  ResultsInv'
<1>t. ResultTypes /\ MapHolds /\ SavesKept /\ CacheFresh /\ FetchesFresh /\ PreviousFresh /\ JoinedIsNew /\ AsksHold
    BY DEF ResultsInv
<1>1. /\ ask' = [ask EXCEPT ![a].step = "asking", ![a].job = j, ![a].needs = Saved(j)]
      /\ UNCHANGED <<kept, resultCache, cachedRows, version, save, resultRead, fetches>>
    BY DEF AskBegins
<1>2. Saved(j) \in KeptRows
    BY DEF Saved, KeptRows
<1>3. ResultTypes'
  <2>1. ask \in [Ask -> KeptAsk]
    BY <1>t DEF ResultTypes
  <2>2. [ask[a] EXCEPT !.step = "asking", !.job = j, !.needs = Saved(j)] \in KeptAsk
    BY <1>2, <2>1 DEF KeptAsk
  <2>3. ask' = [ask EXCEPT ![a] = [ask[a] EXCEPT !.step = "asking", !.job = j, !.needs = Saved(j)]]
    BY <1>1, <2>1
  <2>4. ask' \in [Ask -> KeptAsk]
    BY <2>1, <2>2, <2>3
  <2> QED
    BY <1>t, <1>1, <2>4 DEF ResultTypes
<1>4. MapHolds' /\ SavesKept'
    BY <1>t, <1>1 DEF MapHolds, SavesKept
<1>5. \A i : Saved(i)' = Saved(i) /\ \A rows : FreshRows(rows, i) => FreshRows(rows, i)'
    BY <1>1, FreshStays
<1>6. CacheFresh' /\ FetchesFresh'
  <2>1. CacheFresh'
    BY <1>t, <1>1, <1>5 DEF CacheFresh
  <2>2. FetchesFresh'
    BY <1>t, <1>1, <1>5 DEF FetchesFresh, MayCache
  <2> QED
    BY <2>1, <2>2
<1>7. PreviousFresh' /\ JoinedIsNew'
  <2>1. PreviousFresh'
    BY <1>t, <1>1, <1>5 DEF PreviousFresh, Alone, Added
  <2>2. JoinedIsNew'
    BY <1>t, <1>1 DEF JoinedIsNew
  <2> QED
    BY <2>1, <2>2
<1>8. /\ ask'[a].step = "asking" /\ ask'[a].job = j /\ ask'[a].needs = Saved(j)
      /\ \A b \in Ask : b # a => ask'[b] = ask[b]
    BY <1>t, <1>1 DEF ResultTypes, KeptAsk
<1>9. AsksHold'
    BY <1>t, <1>1, <1>5, <1>8 DEF AsksHold
<1> QED
    BY <1>3, <1>4, <1>6, <1>7, <1>9 DEF ResultsInv

\* It is answered from the cache, or waits for a read.
LEMMA AskGoesOnHolds ==
    ASSUME ResultsInv, NEW a \in Ask, AskGoesOn(a)
    PROVE  ResultsInv'
<1>t. ResultTypes /\ MapHolds /\ SavesKept /\ CacheFresh /\ FetchesFresh /\ PreviousFresh /\ JoinedIsNew /\ AsksHold
    BY DEF ResultsInv
<1> DEFINE j == ask[a].job
<1>1. /\ ask[a].step = "asking" /\ j \in KeptJob /\ ask[a].needs \subseteq Saved(j)
      /\ UNCHANGED <<kept, cachedRows, version, save>> /\ Asks(a, j)
    BY <1>t DEF AskGoesOn, Asks, AsksHold
<1> HIDE DEF j
<1>2. \A i : Saved(i)' = Saved(i) /\ \A rows : FreshRows(rows, i) => FreshRows(rows, i)'
    BY <1>1, FreshStays
<1>3. PreviousFresh' /\ SavesKept'
    BY <1>t, <1>1, <1>2 DEF PreviousFresh, Alone, Added, SavesKept
<1>4. CASE Has(j, resultCache)
  <2> DEFINE rows == RowsOf(j, resultCache)
             others == Without(j, resultCache)
             e == [job |-> j, rows |-> rows]
             all == Append(others, e)
  <2>1. /\ ask' = [ask EXCEPT ![a].step = "answered", ![a].got = rows]
        /\ resultCache' = all /\ UNCHANGED <<resultRead, fetches>>
    BY <1>1, <1>4, Zenon DEF Asks
  <2>2. /\ others \in Seq(KeptEntry) /\ OneEach(others) /\ ~ Has(j, others)
        /\ Len(others) = Len(resultCache) - 1 /\ Len(others) \in Nat
        /\ ToSet(others) \subseteq ToSet(resultCache)
        /\ RowCount(others) = RowCount(resultCache) - CountIn(j, resultCache)
        /\ e \in ToSet(resultCache)
    BY <1>t, <1>4, EntryLess DEF ResultTypes, MapHolds
  <2>3. e \in KeptEntry /\ e.job = j /\ e.rows = rows /\ rows \in KeptRows
    <3>1. ToSet(resultCache) \subseteq KeptEntry
      BY <1>t, QueuedAt DEF ResultTypes
    <3> QED
      BY <2>2, <3>1 DEF KeptEntry
  <2>4. CountIn(j, resultCache) = Cardinality(rows) /\ Cardinality(rows) \in Nat
    BY <1>4, <2>3, RowsAreFinite, FS_CardinalityType DEF CountIn
  <2> HIDE DEF rows, others, e
  <2>5. /\ all \in Seq(KeptEntry) /\ OneEach(all) /\ ToSet(all) = ToSet(others) \cup {e}
        /\ Len(all) = Len(others) + 1 /\ RowCount(all) = RowCount(others) + Cardinality(rows)
    BY <2>2, <2>3, EntryAdded
  <2> HIDE DEF all
  <2>6. RowCount(all) = RowCount(resultCache) /\ Len(all) = Len(resultCache) /\ ToSet(all) \subseteq ToSet(resultCache)
    <3>1. RowCount(resultCache) \in Nat /\ Len(resultCache) \in Nat
      BY <1>t, RowsCounted DEF ResultTypes
    <3> QED
      BY <2>2, <2>4, <2>5, <3>1
  <2>7. ResultTypes'
    BY <1>t, <1>1, <2>1, <2>3, <2>5 DEF ResultTypes, KeptAsk
  <2>8. MapHolds'
    BY <1>t, <1>1, <2>1, <2>5, <2>6 DEF MapHolds, OneEach
  <2>9. CacheFresh'
    BY <1>t, <1>2, <2>1, <2>6 DEF CacheFresh
  <2>10. FetchesFresh' /\ JoinedIsNew'
    <3>1. FetchesFresh'
      BY <1>t, <1>1, <1>2, <2>1 DEF FetchesFresh, MayCache
    <3>2. JoinedIsNew'
      BY <1>t, <1>1, <2>1 DEF JoinedIsNew
    <3> QED
      BY <3>1, <3>2
  <2>11. Saved(j) \subseteq rows
    BY <1>t, <2>2, <2>3 DEF CacheFresh, FreshRows
  <2>12. /\ ask'[a].step = "answered" /\ ask'[a].got = rows /\ ask'[a].needs = ask[a].needs
         /\ \A b \in Ask : b # a => ask'[b] = ask[b]
    BY <1>t, <2>1 DEF ResultTypes, KeptAsk
  <2>13. AsksHold'
    BY <1>t, <1>1, <1>2, <2>1, <2>11, <2>12 DEF AsksHold
  <2> QED
    BY <1>3, <2>7, <2>8, <2>9, <2>10, <2>13 DEF ResultsInv
<1>5. CASE ~ Has(j, resultCache)
  <2> DEFINE f == IF resultRead[j] # 0 THEN resultRead[j] ELSE Len(fetches) + 1
             begun == [job |-> j, version |-> version[j], step |-> "reading", rows |-> {}]
  <2>1. /\ ask' = [ask EXCEPT ![a].step = "waiting", ![a].fetch = f, ![a].version = version[j]]
        /\ resultRead' = [resultRead EXCEPT ![j] = f]
        /\ fetches' = IF f \in DOMAIN fetches THEN fetches ELSE Append(fetches, begun)
        /\ resultCache' = resultCache
    BY <1>1, <1>5 DEF Asks
  <2>2. fetches \in Seq(KeptRead) /\ Len(fetches) \in Nat /\ DOMAIN fetches = 1 .. Len(fetches)
    BY <1>t DEF ResultTypes
  <2>3. begun \in KeptRead /\ begun.job = j /\ begun.version = version[j] /\ begun.step = "reading"
        /\ version[j] \in Nat /\ begun.version <= version[j]
    BY <1>t, <1>1 DEF ResultTypes, KeptRead, KeptRows
  <2>4. \/ /\ f \in 1 .. Len(fetches) /\ fetches' = fetches
           /\ fetches[f].job = j /\ fetches[f].version = version[j]
        \/ f = Len(fetches) + 1 /\ fetches' = Append(fetches, begun)
    <3>1. CASE resultRead[j] # 0
      BY <1>t, <1>1, <2>1, <2>2, <3>1 DEF JoinedIsNew
    <3>2. CASE resultRead[j] = 0
      <4>1. f = Len(fetches) + 1 /\ f \notin DOMAIN fetches
        BY <2>2, <3>2
      <4> QED
        BY <2>1, <4>1
    <3> QED
      BY <3>1, <3>2
  <2> HIDE DEF f, begun
  <2>5. /\ fetches' \in Seq(KeptRead) /\ Len(fetches') \in Nat /\ Len(fetches) <= Len(fetches')
        /\ f \in 1 .. Len(fetches') /\ fetches'[f].job = j /\ fetches'[f].version = version[j]
        /\ \A i \in 1 .. Len(fetches) : fetches'[i] = fetches[i]
        /\ \A i \in 1 .. Len(fetches') : i \in 1 .. Len(fetches) \/ fetches'[i] = begun
    <3>1. CASE /\ f \in 1 .. Len(fetches) /\ fetches' = fetches
               /\ fetches[f].job = j /\ fetches[f].version = version[j]
      <4>1. Len(fetches) <= Len(fetches) /\ fetches' = fetches
        BY <2>2, <3>1
      <4> QED
        BY <2>2, <3>1, <4>1
    <3>2. CASE f = Len(fetches) + 1 /\ fetches' = Append(fetches, begun)
      <4>1. /\ fetches' \in Seq(KeptRead) /\ Len(fetches') = Len(fetches) + 1
            /\ fetches'[f] = begun /\ \A i \in 1 .. Len(fetches) : fetches'[i] = fetches[i]
        BY <2>2, <2>3, <3>2, AppendProperties
      <4> QED
        BY <2>2, <2>3, <3>2, <4>1
    <3> QED
      BY <2>4, <3>1, <3>2
  <2>6. f \in Nat
    BY <2>5
  <2>7. ResultTypes'
    <3>1. ask \in [Ask -> KeptAsk] /\ resultRead \in [KeptJob -> Nat]
      BY <1>t DEF ResultTypes
    <3>2. [ask[a] EXCEPT !.step = "waiting", !.fetch = f, !.version = version[j]] \in KeptAsk
      BY <2>3, <2>6, <3>1 DEF KeptAsk
    <3>3. ask' = [ask EXCEPT ![a] = [ask[a] EXCEPT !.step = "waiting", !.fetch = f, !.version = version[j]]]
      BY <2>1, <3>1
    <3>4. ask' \in [Ask -> KeptAsk]
      BY <3>1, <3>2, <3>3
    <3>5. resultRead' \in [KeptJob -> Nat]
      BY <2>1, <2>6, <3>1
    <3> QED
      BY <1>t, <1>1, <2>1, <2>5, <3>4, <3>5 DEF ResultTypes
  <2>8. MapHolds' /\ CacheFresh'
    <3>1. MapHolds'
      BY <1>t, <1>1, <2>1 DEF MapHolds
    <3>2. CacheFresh'
      BY <1>t, <1>2, <2>1 DEF CacheFresh
    <3> QED
      BY <3>1, <3>2
  <2>9. FetchesFresh'
    <3>1. ASSUME NEW i \in 1 .. Len(fetches')
          PROVE  /\ fetches'[i].version <= version'[fetches'[i].job]
                 /\ fetches'[i].step = "found" /\ fetches'[i].version = version'[fetches'[i].job]
                       => FreshRows(fetches[i].rows, fetches[i].job)'
      <4>1. CASE i \in 1 .. Len(fetches)
        <5>1. fetches'[i] = fetches[i] /\ version' = version
          BY <1>1, <2>5, <4>1
        <5>2. FreshRows(fetches[i].rows, fetches[i].job) => FreshRows(fetches[i].rows, fetches[i].job)'
          BY <1>1, <5>1 DEF FreshRows, Saved, Saving
        <5> QED
          BY <1>t, <4>1, <5>1, <5>2 DEF FetchesFresh, MayCache
      <4>2. CASE fetches'[i] = begun
        BY <1>1, <2>3, <4>2
      <4> QED
        BY <2>5, <4>1, <4>2
    <3> QED
      BY <3>1 DEF FetchesFresh, MayCache
  <2>10. JoinedIsNew'
    <3>1. resultRead'[j] = f /\ \A i \in KeptJob : i # j => resultRead'[i] = resultRead[i]
      BY <1>t, <1>1, <2>1 DEF ResultTypes
    <3>2. ASSUME NEW i \in KeptJob, resultRead'[i] # 0
          PROVE  /\ resultRead'[i] \in 1 .. Len(fetches')
                 /\ fetches'[resultRead'[i]].job = i /\ fetches'[resultRead'[i]].version = version'[i]
      <4>1. CASE i = j
        BY <1>1, <2>5, <3>1, <4>1
      <4>2. CASE i # j
        <5>1. resultRead'[i] = resultRead[i] /\ resultRead[i] \in 1 .. Len(fetches)
              /\ fetches[resultRead[i]].job = i /\ fetches[resultRead[i]].version = version[i]
          BY <1>t, <3>1, <3>2, <4>2 DEF JoinedIsNew
        <5>2. fetches'[resultRead[i]] = fetches[resultRead[i]] /\ resultRead[i] \in 1 .. Len(fetches')
          BY <2>2, <2>5, <5>1
        <5> QED
          BY <1>1, <5>1, <5>2
      <4> QED
        BY <4>1, <4>2
    <3> QED
      BY <3>2 DEF JoinedIsNew
  <2>11. /\ ask'[a].step = "waiting" /\ ask'[a].fetch = f /\ ask'[a].version = version[j]
         /\ ask'[a].job = j /\ ask'[a].needs = ask[a].needs
         /\ \A b \in Ask : b # a => ask'[b] = ask[b]
    BY <1>t, <2>1 DEF ResultTypes, KeptAsk, j
  <2>12. ASSUME NEW b \in Ask
         PROVE  /\ ask'[b].step \in {"asking", "waiting"}
                      => ask'[b].job \in KeptJob /\ ask'[b].needs \subseteq Saved(ask[b].job)'
                /\ ask'[b].step = "waiting" =>
                      /\ ask'[b].fetch \in 1 .. Len(fetches')
                      /\ fetches'[ask'[b].fetch].job = ask'[b].job
                      /\ fetches'[ask'[b].fetch].version = ask'[b].version
                /\ ask'[b].step = "answered" => ask'[b].needs \subseteq ask'[b].got
    <3>0. \A i : Saved(i)' = Saved(i)
      BY <1>2
    <3>1. CASE b = a
      <4>1. Saved(ask[b].job)' = Saved(j)
        BY <1>1, <2>11, <3>1 DEF Saved
      <4> QED
        BY <1>1, <2>5, <2>11, <3>1, <4>1
    <3>2. CASE b # a
      <4>1. ask'[b] = ask[b]
        BY <2>11, <3>2
      <4>2. Saved(ask[b].job)' = Saved(ask[b].job)
        BY <1>1, <4>1 DEF Saved
      <4>3. ask[b].step = "waiting" =>
               ask[b].fetch \in 1 .. Len(fetches') /\ fetches'[ask[b].fetch] = fetches[ask[b].fetch]
        BY <1>t, <2>2, <2>5 DEF AsksHold
      <4> QED
        BY <1>t, <4>1, <4>2, <4>3 DEF AsksHold
    <3> QED
      BY <3>1, <3>2
  <2>13. AsksHold'
    BY <2>12 DEF AsksHold
  <2> QED
    BY <1>3, <2>7, <2>8, <2>9, <2>10, <2>13 DEF ResultsInv
<1> QED
    BY <1>4, <1>5

\* The files of a job are read.
LEMMA ReadFindsHolds ==
    ASSUME ResultsInv, NEW f \in DOMAIN fetches, ReadFinds(f)
    PROVE  ResultsInv'
<1>t. ResultTypes /\ MapHolds /\ SavesKept /\ CacheFresh /\ FetchesFresh /\ PreviousFresh /\ JoinedIsNew /\ AsksHold
    BY DEF ResultsInv
<1> DEFINE found == [fetches[f] EXCEPT !.step = "found", !.rows = kept[fetches[f].job]]
<1>1. fetches \in Seq(KeptRead) /\ f \in 1 .. Len(fetches)
    BY <1>t DEF ResultTypes
<1>2. fetches[f] \in KeptRead
    BY <1>1
<1>3. /\ fetches' = [fetches EXCEPT ![f] = found]
      /\ UNCHANGED <<kept, resultCache, cachedRows, version, save, resultRead, ask>>
    BY <1>1, <1>2 DEF ReadFinds, KeptRead
<1>4. /\ found \in KeptRead /\ found.job = fetches[f].job /\ found.version = fetches[f].version
      /\ found.job \in KeptJob /\ found.rows = kept[found.job]
    BY <1>t, <1>2 DEF ResultTypes, KeptRead
<1> HIDE DEF found
<1>5. /\ fetches' \in Seq(KeptRead) /\ Len(fetches') = Len(fetches) /\ fetches'[f] = found
      /\ \A i \in 1 .. Len(fetches) : i # f => fetches'[i] = fetches[i]
    BY <1>1, <1>3, <1>4, ExceptSeq
<1>6. ResultTypes' /\ MapHolds' /\ SavesKept'
  <2>1. ResultTypes'
    BY <1>t, <1>3, <1>5 DEF ResultTypes
  <2>2. MapHolds' /\ SavesKept'
    BY <1>t, <1>3 DEF MapHolds, SavesKept
  <2> QED
    BY <2>1, <2>2
<1>7. \A i : Saved(i)' = Saved(i) /\ \A rows : FreshRows(rows, i) => FreshRows(rows, i)'
    BY <1>3, FreshStays
<1>8. CacheFresh' /\ PreviousFresh'
  <2>1. CacheFresh'
    BY <1>t, <1>3, <1>7 DEF CacheFresh
  <2>2. PreviousFresh'
    BY <1>t, <1>3, <1>7 DEF PreviousFresh, Alone, Added
  <2> QED
    BY <2>1, <2>2
<1>9. FreshRows(found.rows, found.job)
    BY <1>t, <1>4 DEF FreshRows, Saved, SavesKept
<1>10. FetchesFresh'
  <2>1. ASSUME NEW i \in 1 .. Len(fetches)
        PROVE  /\ fetches'[i].version <= version'[fetches'[i].job]
               /\ fetches'[i].step = "found" /\ fetches'[i].version = version'[fetches'[i].job]
                     => FreshRows(fetches[i].rows, fetches[i].job)'
    <3>1. CASE i # f
      <4>1. fetches'[i] = fetches[i] /\ version' = version
        BY <1>3, <1>5, <3>1
      <4>2. FreshRows(fetches[i].rows, fetches[i].job) => FreshRows(fetches[i].rows, fetches[i].job)'
        BY <1>3, <4>1 DEF FreshRows, Saved, Saving
      <4> QED
        BY <1>t, <4>1, <4>2 DEF FetchesFresh, MayCache
    <3>2. CASE i = f
      <4>1. fetches'[i] = found /\ version' = version
        BY <1>3, <1>5, <3>2
      <4>2. FreshRows(fetches[i].rows, fetches[i].job)'
        BY <1>3, <1>9, <4>1 DEF FreshRows, Saved, Saving
      <4> QED
        BY <1>t, <1>1, <1>4, <3>2, <4>1, <4>2 DEF FetchesFresh
    <3> QED
      BY <3>1, <3>2
  <2> QED
    BY <1>5, <2>1 DEF FetchesFresh, MayCache
<1>11. \A i \in 1 .. Len(fetches) : fetches'[i].job = fetches[i].job /\ fetches'[i].version = fetches[i].version
    BY <1>4, <1>5
<1>12. JoinedIsNew' /\ AsksHold'
  <2>1. JoinedIsNew'
    BY <1>t, <1>3, <1>5, <1>11 DEF JoinedIsNew
  <2>2. AsksHold'
    BY <1>t, <1>3, <1>5, <1>7, <1>11 DEF AsksHold
  <2> QED
    BY <2>1, <2>2
<1> QED
    BY <1>6, <1>8, <1>10, <1>12 DEF ResultsInv

\* A read ends, for the Map and for those who wait.
LEMMA ReadLeavesHolds ==
    ASSUME ResultsInv, NEW f \in DOMAIN fetches, NEW how \in {"answered", "failed"}, ReadLeaves(f, how),
           how = "answered" => fetches[f].step = "found", UNCHANGED <<kept, version, save>>
    PROVE  /\ fetches' \in Seq(KeptRead) /\ resultRead' \in [KeptJob -> Nat] /\ ask' \in [Ask -> KeptAsk]
           /\ FetchesFresh' /\ JoinedIsNew' /\ AsksHold'
<1>t. ResultTypes /\ FetchesFresh /\ JoinedIsNew /\ AsksHold
    BY DEF ResultsInv
<1> DEFINE over == [fetches[f] EXCEPT !.step = "ended", !.rows = {}]
<1>1. fetches \in Seq(KeptRead) /\ f \in 1 .. Len(fetches) /\ ask \in [Ask -> KeptAsk]
    BY <1>t DEF ResultTypes
<1>2. fetches[f] \in KeptRead
    BY <1>1
<1>3. /\ fetches' = [fetches EXCEPT ![f] = over]
      /\ resultRead' = [j \in KeptJob |-> IF resultRead[j] = f THEN 0 ELSE resultRead[j]]
      /\ ask' = [a \in Ask |->
             IF ask[a].step # "waiting" \/ ask[a].fetch # f THEN ask[a]
             ELSE IF ask[a].version # version[ask[a].job] THEN [ask[a] EXCEPT !.step = "asking"]
             ELSE [ask[a] EXCEPT !.step = how, !.got = fetches[f].rows]]
    BY DEF ReadLeaves
<1>4. /\ over \in KeptRead /\ over.job = fetches[f].job /\ over.version = fetches[f].version
      /\ over.step = "ended" /\ fetches[f].rows \in KeptRows
    BY <1>2 DEF KeptRead, KeptRows
<1> HIDE DEF over
<1>5. /\ fetches' \in Seq(KeptRead) /\ Len(fetches') = Len(fetches) /\ fetches'[f] = over
      /\ \A i \in 1 .. Len(fetches) : i # f => fetches'[i] = fetches[i]
  <2>1. fetches \in Seq(KeptRead) /\ f \in 1 .. Len(fetches) /\ over \in KeptRead
        /\ fetches' = [fetches EXCEPT ![f] = over]
    BY <1>1, <1>3, <1>4
  <2> QED
    BY <2>1, ExceptSeq
<1>6. \A i \in 1 .. Len(fetches) : fetches'[i].job = fetches[i].job /\ fetches'[i].version = fetches[i].version
    BY <1>4, <1>5
<1>7. resultRead' \in [KeptJob -> Nat] /\ \A j \in KeptJob : resultRead'[j] # 0 => resultRead'[j] = resultRead[j]
    BY <1>t, <1>3 DEF ResultTypes
<1>8. FetchesFresh'
  <2>1. ASSUME NEW i \in 1 .. Len(fetches)
        PROVE  /\ fetches'[i].version <= version'[fetches'[i].job]
               /\ fetches'[i].step = "found" /\ fetches'[i].version = version'[fetches'[i].job]
                     => FreshRows(fetches[i].rows, fetches[i].job)'
    <3>1. CASE i # f
      <4>1. fetches'[i] = fetches[i] /\ version' = version
        BY <1>5, <3>1
      <4>2. FreshRows(fetches[i].rows, fetches[i].job) => FreshRows(fetches[i].rows, fetches[i].job)'
        BY <4>1 DEF FreshRows, Saved, Saving
      <4> QED
        BY <1>t, <4>1, <4>2 DEF FetchesFresh, MayCache
    <3>2. CASE i = f
      BY <1>t, <1>4, <1>5, <1>6, <3>2 DEF FetchesFresh
    <3> QED
      BY <3>1, <3>2
  <2> QED
    BY <1>5, <2>1 DEF FetchesFresh, MayCache
<1>9. JoinedIsNew'
    BY <1>t, <1>5, <1>6, <1>7 DEF JoinedIsNew
<1>10. \A i : Saved(i)' = Saved(i)
    BY FreshStays
<1>11. ASSUME NEW a \in Ask
       PROVE  /\ ask'[a] \in KeptAsk /\ ask'[a].job = ask[a].job /\ ask'[a].needs = ask[a].needs
              /\ \/ ask'[a] = ask[a]
                 \/ ask[a].step = "waiting" /\ ask'[a].step = "asking"
                 \/ ask[a].step = "waiting" /\ ask'[a].step = "failed"
                 \/ /\ ask[a].step = "waiting" /\ ask'[a].step = "answered" /\ ask[a].fetch = f
                    /\ ask[a].version = version[ask[a].job] /\ fetches[f].step = "found"
                    /\ ask'[a].got = fetches[f].rows
  <2>1. ask[a] \in KeptAsk
    BY <1>1
  <2>2. ask'[a] = IF ask[a].step # "waiting" \/ ask[a].fetch # f THEN ask[a]
                  ELSE IF ask[a].version # version[ask[a].job] THEN [ask[a] EXCEPT !.step = "asking"]
                  ELSE [ask[a] EXCEPT !.step = how, !.got = fetches[f].rows]
    BY <1>3
  <2> QED
    BY <1>4, <2>1, <2>2 DEF KeptAsk
<1>12. ask' \in [Ask -> KeptAsk]
  <2>1. ask' = [a \in Ask |-> ask'[a]]
    BY <1>3
  <2> QED
    BY <1>11, <2>1
<1>13. ASSUME NEW a \in Ask
       PROVE  /\ ask'[a].step \in {"asking", "waiting"} => ask'[a].job \in KeptJob /\ ask'[a].needs \subseteq Saved(ask[a].job)
              /\ ask'[a].step = "waiting" =>
                    /\ ask'[a].fetch \in 1 .. Len(fetches')
                    /\ fetches'[ask'[a].fetch].job = ask'[a].job
                    /\ fetches'[ask'[a].fetch].version = ask'[a].version
              /\ ask'[a].step = "answered" => ask'[a].needs \subseteq ask'[a].got
  <2>1. CASE ask'[a] = ask[a]
    BY <1>t, <1>5, <1>6, <2>1 DEF AsksHold
  <2>2. CASE ask[a].step = "waiting" /\ ask'[a].step = "asking"
    BY <1>t, <1>11, <2>2 DEF AsksHold
  <2>3. CASE ask[a].step = "waiting" /\ ask'[a].step = "failed"
    BY <2>3
  <2>4. CASE /\ ask[a].step = "waiting" /\ ask'[a].step = "answered" /\ ask[a].fetch = f
             /\ ask[a].version = version[ask[a].job] /\ fetches[f].step = "found"
             /\ ask'[a].got = fetches[f].rows
    <3>1. /\ ask[a].needs \subseteq Saved(ask[a].job)
          /\ fetches[f].job = ask[a].job /\ fetches[f].version = ask[a].version
      BY <1>t, <2>4 DEF AsksHold
    <3>2. FreshRows(fetches[f].rows, fetches[f].job)
      BY <1>t, <1>1, <2>4, <3>1 DEF FetchesFresh, MayCache
    <3> QED
      BY <1>11, <2>4, <3>1, <3>2 DEF FreshRows
  <2> QED
    BY <1>11, <2>1, <2>2, <2>3, <2>4
<1>14. AsksHold'
  <2>1. ASSUME NEW a \in Ask PROVE Saved(ask[a].job)' = Saved(ask[a].job)
    BY <1>11 DEF Saved
  <2> QED
    BY <1>13, <2>1 DEF AsksHold
<1> QED
    BY <1>5, <1>7, <1>8, <1>9, <1>12, <1>14

\* A read ends.
LEMMA ReadEndsHolds ==
    ASSUME ResultsInv, NEW f \in DOMAIN fetches, ReadEnds(f) \/ ReadFails(f)
    PROVE  ResultsInv'
<1>t. ResultTypes /\ MapHolds /\ SavesKept /\ CacheFresh /\ FetchesFresh /\ PreviousFresh
    BY DEF ResultsInv
<1>1. UNCHANGED <<kept, version, save>>
    BY DEF ReadEnds, ReadFails
<1>2. /\ fetches' \in Seq(KeptRead) /\ resultRead' \in [KeptJob -> Nat] /\ ask' \in [Ask -> KeptAsk]
      /\ FetchesFresh' /\ JoinedIsNew' /\ AsksHold'
  <2>1. CASE ReadEnds(f)
    BY <1>1, <2>1, ReadLeavesHolds DEF ReadEnds
  <2>2. CASE ReadFails(f)
    BY <1>1, <2>2, ReadLeavesHolds DEF ReadFails
  <2> QED
    BY <2>1, <2>2
<1>3. \A i : Saved(i)' = Saved(i) /\ \A rows : FreshRows(rows, i) => FreshRows(rows, i)'
    BY <1>1, FreshStays
<1>4. SavesKept' /\ PreviousFresh'
  <2>1. SavesKept'
    BY <1>t, <1>1 DEF SavesKept
  <2>2. PreviousFresh'
    BY <1>t, <1>1, <1>3 DEF PreviousFresh, Alone, Added
  <2> QED
    BY <2>1, <2>2
<1>5. /\ resultCache' \in Seq(KeptEntry) /\ OneEach(resultCache') /\ cachedRows' = RowCount(resultCache')
      /\ RowCount(resultCache') <= MaxCachedRows /\ Len(resultCache') <= MaxCachedJobs
      /\ \A e \in ToSet(resultCache') : e \in ToSet(resultCache) \/ FreshRows(e.rows, e.job)
  <2>0. /\ resultCache \in Seq(KeptEntry) /\ OneEach(resultCache) /\ cachedRows = RowCount(resultCache)
        /\ RowCount(resultCache) <= MaxCachedRows /\ Len(resultCache) <= MaxCachedJobs
    BY <1>t DEF ResultTypes, MapHolds
  <2>1. CASE UNCHANGED <<resultCache, cachedRows>>
    BY <2>0, <2>1
  <2>2. CASE fetches[f].step = "found" /\ MayCache(f)
             /\ CacheResults(fetches[f].job, fetches[f].rows, resultCache, cachedRows)
    <3>0. f \in 1 .. Len(fetches) /\ fetches \in Seq(KeptRead)
      BY <1>t DEF ResultTypes
    <3>1. fetches[f] \in KeptRead
      BY <3>0
    <3>2. fetches[f].job \in KeptJob /\ fetches[f].rows \in KeptRows
      BY <3>1 DEF KeptRead
    <3>3. CacheResults(fetches[f].job, fetches[f].rows, resultCache, RowCount(resultCache))
      BY <2>0, <2>2
    <3>4. /\ resultCache' \in Seq(KeptEntry) /\ OneEach(resultCache') /\ cachedRows' = RowCount(resultCache')
          /\ RowCount(resultCache') <= MaxCachedRows /\ Len(resultCache') <= MaxCachedJobs
          /\ \A e \in ToSet(resultCache') :
                e \in ToSet(resultCache) \/ (e.job = fetches[f].job /\ e.rows = fetches[f].rows)
      BY <2>0, <3>2, <3>3, CachedFits
    <3>5. FreshRows(fetches[f].rows, fetches[f].job)
      BY <1>t, <2>2, <3>0 DEF FetchesFresh
    <3> QED
      BY <3>4, <3>5
  <2> QED
    BY <2>1, <2>2 DEF ReadEnds, ReadFails
<1>6. ResultTypes' /\ MapHolds'
  <2>1. ResultTypes'
    BY <1>t, <1>1, <1>2, <1>5 DEF ResultTypes
  <2>2. MapHolds'
    BY <1>5 DEF MapHolds, OneEach
  <2> QED
    BY <2>1, <2>2
<1>7. CacheFresh'
  <2>1. ASSUME NEW e \in ToSet(resultCache') PROVE FreshRows(e.rows, e.job)'
    <3>1. FreshRows(e.rows, e.job)
      BY <1>t, <1>5 DEF CacheFresh
    <3> QED
      BY <1>3, <3>1
  <2> QED
    BY <2>1 DEF CacheFresh
<1> QED
    BY <1>2, <1>4, <1>6, <1>7 DEF ResultsInv

\* Every step keeps the invariant.
LEMMA ResultsStep == ResultsInv /\ [ResultsNext]_resultVars => ResultsInv'
<1> SUFFICES ASSUME ResultsInv, [ResultsNext]_resultVars PROVE ResultsInv'
    OBVIOUS
<1>1. ASSUME NEW s \in Save, SaveBegins(s) PROVE ResultsInv'
    BY <1>1, SaveBeginsHolds
<1>2. ASSUME NEW s \in Save, SaveWrites(s) PROVE ResultsInv'
  <2>1. save[s].step = "writing" /\ save \in [Save -> [step : {"none", "writing", "ending", "saved", "failed"},
                          previous : KeptRows \cup {NoRows}, version : Nat, written : BOOLEAN]]
    BY <1>2 DEF SaveWrites, ResultsInv, ResultTypes
  <2>2. save' = [save EXCEPT ![s] = [save[s] EXCEPT !.step = "ending", !.written = TRUE]]
    BY <1>2, <2>1 DEF SaveWrites
  <2>3. kept' = [kept EXCEPT ![JobOf[s]] = @ \cup (IF TRUE THEN {GameOf[s]} ELSE {})]
    BY <1>2 DEF SaveWrites
  <2>4. UNCHANGED <<resultCache, cachedRows, version, resultRead, fetches, ask>>
    BY <1>2 DEF SaveWrites
  <2> QED
    BY <2>1, <2>2, <2>3, <2>4, SavePasses
<1>3. ASSUME NEW s \in Save, SaveFails(s) PROVE ResultsInv'
  <2>1. save[s].step = "writing" /\ save \in [Save -> [step : {"none", "writing", "ending", "saved", "failed"},
                          previous : KeptRows \cup {NoRows}, version : Nat, written : BOOLEAN]]
        /\ kept \in [KeptJob -> KeptRows] /\ ~ save[s].written /\ save[s].written \in BOOLEAN
    BY <1>3 DEF SaveFails, ResultsInv, ResultTypes, SavesKept
  <2>2. save' = [save EXCEPT ![s] = [save[s] EXCEPT !.step = "ending", !.written = FALSE]]
    <3>1. [save[s] EXCEPT !.step = "ending"] = [save[s] EXCEPT !.step = "ending", !.written = FALSE]
      BY <2>1
    <3>2. save' = [save EXCEPT ![s] = [save[s] EXCEPT !.step = "ending"]]
      BY <1>3, <2>1 DEF SaveFails
    <3> QED
      BY <3>1, <3>2
  <2>3. kept' = [kept EXCEPT ![JobOf[s]] = @ \cup (IF FALSE THEN {GameOf[s]} ELSE {})]
    BY <1>3, <2>1 DEF SaveFails
  <2>4. UNCHANGED <<resultCache, cachedRows, version, resultRead, fetches, ask>>
    BY <1>3 DEF SaveFails
  <2> QED
    BY <2>1, <2>2, <2>3, <2>4, SavePasses
<1>4. ASSUME NEW s \in Save, SaveEnds(s) PROVE ResultsInv'
    BY <1>4, SaveEndsHolds
<1>5. ASSUME NEW a \in Ask, NEW j \in KeptJob, AskBegins(a, j) PROVE ResultsInv'
    BY <1>5, AskBeginsHolds
<1>6. ASSUME NEW a \in Ask, AskGoesOn(a) PROVE ResultsInv'
    BY <1>6, AskGoesOnHolds
<1>7. ASSUME NEW f \in DOMAIN fetches, ReadFinds(f) \/ ReadEnds(f) \/ ReadFails(f) PROVE ResultsInv'
    BY <1>7, ReadFindsHolds, ReadEndsHolds
<1>8. CASE UNCHANGED resultVars
  <2> USE <1>8 DEF resultVars
  <2>1. ResultTypes' /\ MapHolds' /\ SavesKept'
    BY DEF ResultsInv, ResultTypes, MapHolds, SavesKept
  <2>2. CacheFresh' /\ FetchesFresh'
    BY DEF ResultsInv, CacheFresh, FetchesFresh, MayCache, FreshRows, Saved, Saving
  <2>3. PreviousFresh' /\ JoinedIsNew' /\ AsksHold'
    BY DEF ResultsInv, PreviousFresh, Alone, Added, JoinedIsNew, AsksHold, Saved
  <2> QED
    BY <2>1, <2>2, <2>3 DEF ResultsInv
<1> QED
    BY <1>1, <1>2, <1>3, <1>4, <1>5, <1>6, <1>7, <1>8 DEF ResultsNext

\* The invariant says what is promised.
LEMMA ResultsInvShows == ResultsInv => ResultsShowDisk
<1> SUFFICES ASSUME ResultsInv PROVE ResultsShowDisk
    OBVIOUS
<1>t. ResultTypes /\ MapHolds /\ CacheFresh /\ AsksHold
    BY DEF ResultsInv
<1>1. ASSUME NEW j \in KeptJob, \A s \in Save : JobOf[s] = j => save[s].step \in {"none", "saved", "failed"}
      PROVE  RowsOf(j, resultCache) \in {NoRows, kept[j]}
  <2>1. ~ Saving(j)
    BY <1>1 DEF Saving, InSaving
  <2>2. CASE Has(j, resultCache)
    <3>1. [job |-> j, rows |-> RowsOf(j, resultCache)] \in ToSet(resultCache)
      BY <1>t, <2>2, EntryLess DEF ResultTypes, MapHolds
    <3> QED
      BY <1>t, <2>1, <3>1 DEF CacheFresh, FreshRows
  <2>3. CASE ~ Has(j, resultCache)
    BY <2>3 DEF RowsOf
  <2> QED
    BY <2>2, <2>3
<1> QED
    BY <1>t, <1>1 DEF ResultsShowDisk, MapHolds, AsksHold

\* With no save of a job under way its cached rows are those of its files, no answer
\* lacks what was saved before the question, and the rows are counted and bounded.
THEOREM ResultsShown == ResultsSpec => []ResultsShowDisk
<1>1. ResultsInit => ResultsInv
    BY ResultsStart
<1>2. ResultsInv /\ [ResultsNext]_resultVars => ResultsInv'
    BY ResultsStep
<1>3. ResultsInv => ResultsShowDisk
    BY ResultsInvShows
<1> QED
    BY <1>1, <1>2, <1>3, PTL DEF ResultsSpec

-----------------------------------------------------------------------------
(* The cache of reads *)

\* The shapes of the variables.
ReadEntry == [key : Key, bytes : Nat, touchedAt : Nat, load : Nat]
ReadLoad == [key : Key, generation : Nat, step : {"loading", "settling", "settled"}]
CacheTypes ==
    /\ entries \in Seq(ReadEntry) /\ loads \in Seq(ReadLoad) /\ inFlight \in [Key -> Nat]
    /\ generation \in Nat /\ bytes \in Nat /\ clock \in Nat

\* A key has one entry, and the entries are in the order they were touched.
InOrder(es) ==
    \A i, k \in 1 .. Len(es) :
       /\ es[i].key = es[k].key => i = k
       /\ i < k => es[i].touchedAt <= es[k].touchedAt
EntriesHold ==
    /\ InOrder(entries) /\ bytes = BytesOf(entries) /\ bytes <= MaxBytes /\ Len(entries) <= MaxEntries
    /\ \A e \in ToSet(entries) :
          e.touchedAt <= clock /\ e.load \in 1 .. Len(loads) /\ loads[e.load].generation = generation

\* A load of this generation that has not ended is the one in flight for its key,
\* which has no entry; a key has one load per generation that has not ended.
IsLoading(l) == l \in 1 .. Len(loads) /\ loads[l].step = "loading"
LoadsHold ==
    /\ \A l \in 1 .. Len(loads) :
          /\ loads[l].generation <= generation
          /\ IsLoading(l) /\ loads[l].generation = generation
                => /\ inFlight[loads[l].key] = l
                   /\ \A e \in ToSet(entries) : e.key # loads[l].key
    /\ \A l, m \in 1 .. Len(loads) :
          /\ loads[l].key = loads[m].key /\ loads[l].generation = loads[m].generation
          /\ IsLoading(l) /\ IsLoading(m)
          => l = m

CacheInv == CacheTypes /\ EntriesHold /\ LoadsHold

\* The bytes of some entries.
BytesIn(S) == UNION {{e.key} \X (1 .. e.bytes) : e \in S}

\* The count of some entries is that of their bytes.
LEMMA BytesCounted ==
    ASSUME NEW es \in Seq(ReadEntry)
    PROVE  /\ BytesOf(es) = Cardinality(BytesIn(ToSet(es))) /\ BytesOf(es) \in Nat
           /\ IsFiniteSet(BytesIn(ToSet(es)))
<1> DEFINE f == [i \in 1 .. Len(es) |-> {es[i].key} \X (1 .. es[i].bytes)]
<1>1. Len(es) \in Nat /\ ToSet(es) = {es[i] : i \in 1 .. Len(es)}
    BY QueuedAt
<1>2. ASSUME NEW i \in 1 .. Len(es) PROVE IsFiniteSet(f[i])
  <2>0. es[i] \in ReadEntry
    OBVIOUS
  <2>1. es[i].bytes \in Nat
    BY <2>0 DEF ReadEntry
  <2>3. IsFiniteSet(1 .. es[i].bytes)
    BY <2>1, FirstNumbers
  <2>2. IsFiniteSet({es[i].key} \X (1 .. es[i].bytes))
    BY <2>3, MarkedCounted
  <2> QED
    BY <2>2
<1>3. UNION {f[i] : i \in 1 .. Len(es)} = UNION {{es[i].key} \X (1 .. es[i].bytes) : i \in 1 .. Len(es)}
    OBVIOUS
<1>4. BytesIn(ToSet(es)) = UNION {{es[i].key} \X (1 .. es[i].bytes) : i \in 1 .. Len(es)}
    BY <1>1 DEF BytesIn
<1>5. IsFiniteSet(1 .. Len(es)) /\ DOMAIN f = 1 .. Len(es)
    BY <1>1, FS_Interval
<1> HIDE DEF f
<1>6. IsFiniteSet(UNION {f[i] : i \in 1 .. Len(es)})
    BY <1>2, <1>5, GatheredFinite
<1> QED
    BY <1>3, <1>4, <1>6, FS_CardinalityType DEF BytesOf

\* The bytes of an entry.
LEMMA EntryBytes ==
    ASSUME NEW e \in ReadEntry
    PROVE  /\ IsFiniteSet({e.key} \X (1 .. e.bytes)) /\ Cardinality({e.key} \X (1 .. e.bytes)) = e.bytes
           /\ e.bytes \in Nat
<1>1. e.bytes \in Nat
    BY DEF ReadEntry
<1>2. IsFiniteSet(1 .. e.bytes) /\ Cardinality(1 .. e.bytes) = e.bytes
    BY <1>1, FirstNumbers
<1> QED
    BY <1>1, <1>2, MarkedCounted

\* An entry that is newer than the others.
LEMMA EntryAppended ==
    ASSUME NEW es \in Seq(ReadEntry), InOrder(es), NEW e \in ReadEntry,
           \A d \in ToSet(es) : d.key # e.key /\ d.touchedAt <= e.touchedAt
    PROVE  /\ Append(es, e) \in Seq(ReadEntry) /\ Len(Append(es, e)) = Len(es) + 1
           /\ ToSet(Append(es, e)) = ToSet(es) \cup {e} /\ InOrder(Append(es, e))
           /\ BytesOf(Append(es, e)) = BytesOf(es) + e.bytes
<1>1. /\ Append(es, e) \in Seq(ReadEntry) /\ Len(Append(es, e)) = Len(es) + 1 /\ Len(es) \in Nat
      /\ \A i \in 1 .. Len(es) : Append(es, e)[i] = es[i]
      /\ Append(es, e)[Len(es) + 1] = e
    BY AppendProperties
<1> DEFINE all == Append(es, e)
<1>2. /\ all \in Seq(ReadEntry) /\ Len(all) = Len(es) + 1 /\ all[Len(es) + 1] = e
      /\ \A i \in 1 .. Len(es) : all[i] = es[i]
    BY <1>1
<1> HIDE DEF all
<1>3. \A i \in 1 .. Len(all) : i \in 1 .. Len(es) \/ i = Len(es) + 1
    BY <1>1, <1>2
<1>5. ToSet(all) = {all[i] : i \in 1 .. Len(all)} /\ ToSet(es) = {es[i] : i \in 1 .. Len(es)}
    BY <1>2, QueuedAt
<1>6. ToSet(all) = ToSet(es) \cup {e}
    BY <1>1, <1>2, <1>3, <1>5
<1>4. InOrder(all)
  <2>1. \A i \in 1 .. Len(es) : es[i].key # e.key /\ es[i].touchedAt <= e.touchedAt
    BY <1>5
  <2>2. ASSUME NEW i \in 1 .. Len(all), NEW k \in 1 .. Len(all)
        PROVE  (all[i].key = all[k].key => i = k) /\ (i < k => all[i].touchedAt <= all[k].touchedAt)
    <3>1. CASE i \in 1 .. Len(es) /\ k \in 1 .. Len(es)
      BY <1>2, <3>1 DEF InOrder
    <3>2. CASE i = Len(es) + 1 \/ k = Len(es) + 1
      BY <1>1, <1>2, <1>3, <2>1, <3>2
    <3> QED
      BY <1>3, <3>1, <3>2
  <2> QED
    BY <2>2 DEF InOrder
<1>11. BytesOf(all) = BytesOf(es) + e.bytes
  <2> DEFINE A == BytesIn(ToSet(es))
             B == {e.key} \X (1 .. e.bytes)
  <2>1. BytesIn(ToSet(all)) = A \cup B
    BY <1>6 DEF BytesIn
  <2>2. A \cap B = {}
    BY <1>5 DEF BytesIn
  <2>3. IsFiniteSet(A) /\ BytesOf(es) = Cardinality(A) /\ BytesOf(all) = Cardinality(A \cup B)
    BY <1>2, <2>1, BytesCounted
  <2>4. IsFiniteSet(B) /\ Cardinality(B) = e.bytes
    BY EntryBytes
  <2> HIDE DEF A, B
  <2>5. Cardinality(A \cup B) = Cardinality(A) + Cardinality(B)
    BY <2>2, <2>3, <2>4, PartsCounted
  <2> QED
    BY <2>3, <2>4, <2>5
<1> QED
    BY <1>2, <1>4, <1>6, <1>11 DEF all

\* The entries without that of a key.
LEMMA OtherEntriesHold ==
    ASSUME entries \in Seq(ReadEntry), InOrder(entries), NEW k
    PROVE  /\ Others(k) \in Seq(ReadEntry) /\ InOrder(Others(k))
           /\ Len(Others(k)) \in Nat /\ Len(Others(k)) <= Len(entries)
           /\ ToSet(Others(k)) = {e \in ToSet(entries) : e.key # k}
           /\ BytesOf(Others(k)) = IF Cached(k) THEN BytesOf(entries) - EntryOf(k).bytes ELSE BytesOf(entries)
           /\ Cached(k) => /\ EntryOf(k) \in ToSet(entries) /\ EntryOf(k) \in ReadEntry /\ EntryOf(k).key = k
                           /\ Len(Others(k)) = Len(entries) - 1
<1>1. Len(entries) \in Nat /\ ToSet(entries) = {entries[i] : i \in 1 .. Len(entries)}
    BY QueuedAt
<1>2. CASE ~ Cached(k)
  <2>1. ToSet(entries) = {e \in ToSet(entries) : e.key # k}
    BY <1>1, <1>2 DEF Cached
  <2> QED
    BY <1>1, <1>2, <2>1 DEF Others
<1>3. CASE Cached(k)
  <2> DEFINE n == PlaceOf(k)
             t == RemoveAt(entries, n)
  <2>1. n \in 1 .. Len(entries) /\ entries[n].key = k
    BY <1>3 DEF Cached, PlaceOf
  <2>2. Others(k) = t /\ EntryOf(k) = entries[n]
    BY <1>3 DEF Others, EntryOf
  <2>3. entries[n] \in ReadEntry
    BY <2>1
  <2> HIDE DEF n, t
  <2>4. Distinct(entries)
    BY DEF InOrder, Distinct
  <2>5. /\ t \in Seq(ReadEntry) /\ Len(t) = Len(entries) - 1 /\ ToSet(t) = ToSet(entries) \ {entries[n]}
    BY <2>1, <2>4, Removed DEF t
  <2>6. \A i \in 1 .. Len(entries) - 1 : t[i] = IF i < n THEN entries[i] ELSE entries[i + 1]
    BY <2>1, RemovedAt DEF t
  <2>7. InOrder(t)
    <3>1. ASSUME NEW i \in 1 .. Len(t), NEW m \in 1 .. Len(t)
          PROVE  (t[i].key = t[m].key => i = m) /\ (i < m => t[i].touchedAt <= t[m].touchedAt)
      <4> DEFINE p == IF i < n THEN i ELSE i + 1
                 q == IF m < n THEN m ELSE m + 1
      <4>1. p \in 1 .. Len(entries) /\ q \in 1 .. Len(entries) /\ (p = q => i = m) /\ (i < m => p < q)
        BY <1>1, <2>1, <2>5
      <4>2. t[i] = entries[p] /\ t[m] = entries[q]
        BY <1>1, <2>1, <2>5, <2>6
      <4> HIDE DEF p, q
      <4> QED
        BY <4>1, <4>2 DEF InOrder
    <3> QED
      BY <3>1 DEF InOrder
  <2>8. ToSet(t) = {t[i] : i \in 1 .. Len(t)}
    BY <2>5, QueuedAt
  <2>9. ToSet(t) = {e \in ToSet(entries) : e.key # k}
    BY <1>1, <2>1, <2>5 DEF InOrder
  <2>11. BytesOf(t) = BytesOf(entries) - entries[n].bytes
    <3> DEFINE A == BytesIn(ToSet(t))
               B == {k} \X (1 .. entries[n].bytes)
    <3>1. BytesIn(ToSet(entries)) = A \cup B
      BY <1>1, <2>1, <2>5 DEF BytesIn
    <3>2. A \cap B = {}
      BY <2>9 DEF BytesIn
    <3>3. IsFiniteSet(A) /\ BytesOf(t) = Cardinality(A) /\ BytesOf(entries) = Cardinality(A \cup B)
      BY <3>1, <2>5, BytesCounted
    <3>4. IsFiniteSet(B) /\ Cardinality(B) = entries[n].bytes
      BY <2>1, <2>3, EntryBytes
    <3> HIDE DEF A, B
    <3>5. Cardinality(A \cup B) = Cardinality(A) + Cardinality(B) /\ Cardinality(A) \in Nat /\ Cardinality(B) \in Nat
      BY <3>2, <3>3, <3>4, PartsCounted
    <3> QED
      BY <3>3, <3>4, <3>5
  <2> QED
    BY <1>1, <1>3, <2>1, <2>2, <2>3, <2>5, <2>7, <2>9, <2>11
<1> QED
    BY <1>2, <1>3

\* The oldest entries go until the limits hold.
LEMMA EvictedFits ==
    ASSUME NEW es \in Seq(ReadEntry), InOrder(es)
    PROVE  /\ Evicted(es) \in Seq(ReadEntry) /\ InOrder(Evicted(es)) /\ ToSet(Evicted(es)) \subseteq ToSet(es)
           /\ BytesOf(Evicted(es)) <= MaxBytes /\ Len(Evicted(es)) <= MaxEntries
<1> DEFINE rest(i) == SubSeq(es, i + 1, Len(es))
           Fits(r) == BytesOf(r) <= MaxBytes /\ Len(r) <= MaxEntries
           n == CHOOSE i \in 0 .. Len(es) : Fits(rest(i)) /\ \A h \in 0 .. i - 1 : ~ Fits(rest(h))
           T == {i \in 0 .. Len(es) : Fits(rest(i))}
<1>1. Len(es) \in Nat /\ ToSet(es) = {es[i] : i \in 1 .. Len(es)}
    BY QueuedAt
<1>2. Fits(rest(Len(es)))
  <2>1. rest(Len(es)) \in Seq(ReadEntry) /\ Len(rest(Len(es))) = 0
    BY <1>1, EndOf
  <2>2. rest(Len(es)) = <<>>
    BY <2>1, EmptySeq
  <2>3. BytesIn(ToSet(<<>>)) = {} /\ <<>> \in Seq(ReadEntry)
    BY NoneQueued DEF BytesIn
  <2>4. BytesOf(<<>>) = 0
    BY <2>3, BytesCounted, FS_EmptySet
  <2>5. 0 <= MaxBytes /\ 0 <= MaxEntries
    BY CacheLimitAssumption
  <2>6. Len(rest(Len(es))) <= MaxEntries
    BY <2>1, <2>5
  <2>7. BytesOf(rest(Len(es))) <= MaxBytes
    <3>1. BytesOf(rest(Len(es))) = 0
      BY <2>2, <2>4
    <3> QED
      BY <2>5, <3>1
  <2> QED
    BY <2>6, <2>7
<1>3. n \in 0 .. Len(es) /\ Fits(rest(n))
  <2> HIDE DEF Fits
  <2>1. T \in SUBSET Nat /\ T # {}
    BY <1>1, <1>2
  <2>2. PICK k \in T : \A m \in T : k <= m
    <3> HIDE DEF T
    <3> QED
      BY <2>1, FirstExists
  <2>3. \A h \in 0 .. k - 1 : ~ Fits(rest(h))
    <3> SUFFICES ASSUME NEW h \in 0 .. k - 1, Fits(rest(h)) PROVE FALSE
      OBVIOUS
    <3>1. h \in T /\ h < k
      BY <1>1
    <3> QED
      BY <2>2, <3>1
  <2> QED
    BY <2>2, <2>3
<1>4. Evicted(es) = rest(n)
    BY DEF Evicted
<1> HIDE DEF n
<1> DEFINE t == rest(n)
<1>5. /\ t \in Seq(ReadEntry) /\ Len(t) = Len(es) - n
      /\ \A i \in 1 .. Len(es) - n : t[i] = es[n + i]
    BY <1>3, EndOf
<1>6. BytesOf(t) <= MaxBytes /\ Len(t) <= MaxEntries
    BY <1>3
<1> HIDE DEF t, Fits
<1>8. \A i \in 1 .. Len(t) : n + i \in 1 .. Len(es) /\ t[i] = es[n + i]
    BY <1>1, <1>3, <1>5
<1>9. InOrder(t)
  <2>1. ASSUME NEW i \in 1 .. Len(t), NEW k \in 1 .. Len(t)
        PROVE  (t[i].key = t[k].key => i = k) /\ (i < k => t[i].touchedAt <= t[k].touchedAt)
    <3>1. n + i \in 1 .. Len(es) /\ t[i] = es[n + i] /\ n + k \in 1 .. Len(es) /\ t[k] = es[n + k]
      BY <1>8
    <3>2. (n + i = n + k => i = k) /\ (i < k => n + i < n + k)
      BY <1>1, <1>3
    <3> QED
      BY <3>1, <3>2 DEF InOrder
  <2> QED
    BY <2>1 DEF InOrder
<1>10. ToSet(t) \subseteq ToSet(es)
  <2>1. ToSet(t) = {t[i] : i \in 1 .. Len(t)}
    BY <1>5, QueuedAt
  <2> QED
    BY <1>1, <1>8, <2>1
<1> QED
    BY <1>4, <1>5, <1>6, <1>9, <1>10 DEF t

\* The invariant holds of an empty cache.
LEMMA CacheStarts == CacheInit => CacheInv
<1> SUFFICES ASSUME CacheInit PROVE CacheInv
    OBVIOUS
<1> USE DEF CacheInit, NoLoad
<1>1. CacheTypes
    BY DEF CacheTypes
<1>2. EntriesHold
  <2>1. BytesIn(ToSet(<<>>)) = {} /\ <<>> \in Seq(ReadEntry) /\ Len(<<>>) = 0 /\ ToSet(<<>>) = {}
    BY NoneQueued DEF BytesIn
  <2>2. BytesOf(<<>>) = 0
    BY <2>1, BytesCounted, FS_EmptySet
  <2>3. 0 <= MaxBytes /\ 0 <= MaxEntries
    BY CacheLimitAssumption
  <2> QED
    BY <2>1, <2>2, <2>3 DEF EntriesHold, InOrder
<1>3. LoadsHold
    BY DEF LoadsHold
<1> QED
    BY <1>1, <1>2, <1>3 DEF CacheInv

\* A hit.
LEMMA HitHolds ==
    ASSUME CacheInv, NEW k \in Key, Hit(k)
    PROVE  CacheInv'
<1>t. CacheTypes /\ EntriesHold /\ LoadsHold
    BY DEF CacheInv
<1> DEFINE touched == [EntryOf(k) EXCEPT !.touchedAt = clock]
           all == Append(Others(k), touched)
<1>1. /\ Cached(k) /\ entries' = all /\ UNCHANGED <<inFlight, loads, generation, bytes, clock>>
    BY DEF Hit, IsFresh
<1>2. /\ Others(k) \in Seq(ReadEntry) /\ InOrder(Others(k)) /\ Len(Others(k)) = Len(entries) - 1
      /\ ToSet(Others(k)) = {e \in ToSet(entries) : e.key # k}
      /\ BytesOf(Others(k)) = BytesOf(entries) - EntryOf(k).bytes
      /\ EntryOf(k) \in ToSet(entries) /\ EntryOf(k) \in ReadEntry /\ EntryOf(k).key = k
    BY <1>t, <1>1, OtherEntriesHold DEF CacheTypes, EntriesHold
<1>3. /\ touched \in ReadEntry /\ touched.key = k /\ touched.touchedAt = clock
      /\ touched.bytes = EntryOf(k).bytes /\ touched.load = EntryOf(k).load
    BY <1>t, <1>2 DEF ReadEntry, CacheTypes
<1> HIDE DEF touched
<1>4. \A d \in ToSet(Others(k)) : d.key # touched.key /\ d.touchedAt <= touched.touchedAt
    BY <1>t, <1>2, <1>3 DEF EntriesHold
<1>5. /\ all \in Seq(ReadEntry) /\ Len(all) = Len(Others(k)) + 1
      /\ ToSet(all) = ToSet(Others(k)) \cup {touched} /\ InOrder(all)
      /\ BytesOf(all) = BytesOf(Others(k)) + touched.bytes
    BY <1>2, <1>3, <1>4, EntryAppended
<1> HIDE DEF all
<1>6. BytesOf(all) = BytesOf(entries) /\ Len(all) = Len(entries)
  <2>1. BytesOf(entries) \in Nat /\ Len(entries) \in Nat /\ touched.bytes \in Nat
    <3>1. BytesOf(entries) \in Nat /\ Len(entries) \in Nat
      BY <1>t, BytesCounted DEF CacheTypes
    <3> QED
      BY <1>3, <3>1 DEF ReadEntry
  <2> QED
    BY <1>2, <1>3, <1>5, <2>1
<1>7. CacheTypes'
    BY <1>t, <1>1, <1>5 DEF CacheTypes
<1>8. EntriesHold'
  <2>1. \A e \in ToSet(all) :
           e.touchedAt <= clock /\ e.load \in 1 .. Len(loads) /\ loads[e.load].generation = generation
    <3>1. clock <= clock
      BY <1>t DEF CacheTypes
    <3> QED
      BY <1>t, <1>2, <1>3, <1>5, <3>1 DEF EntriesHold
  <2>2. InOrder(entries)'
    BY <1>1, <1>5 DEF InOrder
  <2> QED
    BY <1>t, <1>1, <1>6, <2>1, <2>2 DEF EntriesHold, BytesOf
<1>9. \A e \in ToSet(all) : \E d \in ToSet(entries) : d.key = e.key
    BY <1>2, <1>3, <1>5
<1>10. LoadsHold'
    BY <1>t, <1>1, <1>9 DEF LoadsHold, IsLoading
<1> QED
    BY <1>7, <1>8, <1>10 DEF CacheInv

\* An entry is removed.
LEMMA RemovedHolds ==
    ASSUME CacheInv, NEW k \in Key, RemoveEntry(k), UNCHANGED <<clock, generation>>
    PROVE  /\ entries' \in Seq(ReadEntry) /\ bytes' \in Nat /\ InOrder(entries')
           /\ bytes' = BytesOf(entries') /\ bytes' <= MaxBytes /\ Len(entries') <= MaxEntries
           /\ ToSet(entries') = {e \in ToSet(entries) : e.key # k}
<1>t. CacheTypes /\ EntriesHold
    BY DEF CacheInv
<1>1. /\ Others(k) \in Seq(ReadEntry) /\ InOrder(Others(k))
      /\ Len(Others(k)) \in Nat /\ Len(Others(k)) <= Len(entries)
      /\ ToSet(Others(k)) = {e \in ToSet(entries) : e.key # k}
      /\ BytesOf(Others(k)) = IF Cached(k) THEN BytesOf(entries) - EntryOf(k).bytes ELSE BytesOf(entries)
      /\ Cached(k) => EntryOf(k).bytes \in Nat
    BY <1>t, OtherEntriesHold DEF CacheTypes, EntriesHold, ReadEntry
<1>2. entries' = Others(k) /\ bytes' = BytesOf(Others(k))
    BY <1>t, <1>1 DEF RemoveEntry, EntriesHold
<1>3. BytesOf(Others(k)) \in Nat /\ BytesOf(entries) \in Nat /\ Len(entries) \in Nat
      /\ MaxBytes \in Nat /\ MaxEntries \in Nat
    BY <1>t, <1>1, BytesCounted, CacheLimitAssumption DEF CacheTypes
<1>4. BytesOf(Others(k)) <= BytesOf(entries)
    BY <1>1, <1>3
<1>5. bytes' <= MaxBytes /\ Len(entries') <= MaxEntries
    BY <1>t, <1>1, <1>2, <1>3, <1>4 DEF EntriesHold
<1> QED
    BY <1>1, <1>2, <1>3, <1>5

\* A miss, or an entry that is too old.
LEMMA MissHolds ==
    ASSUME CacheInv, NEW k \in Key, Miss(k) \/ Expire(k)
    PROVE  CacheInv'
<1>t. CacheTypes /\ EntriesHold /\ LoadsHold
    BY DEF CacheInv
<1> DEFINE begun == [key |-> k, generation |-> generation, step |-> "loading"]
<1>1. /\ RemoveEntry(k) /\ UNCHANGED <<generation, clock>>
      /\ \/ UNCHANGED <<inFlight, loads>>
         \/ /\ inFlight[k] = NoLoad /\ inFlight' = [inFlight EXCEPT ![k] = Len(loads) + 1]
            /\ loads' = Append(loads, begun)
    BY DEF Miss, Expire
<1>2. /\ entries' \in Seq(ReadEntry) /\ bytes' \in Nat /\ InOrder(entries')
      /\ bytes' = BytesOf(entries') /\ bytes' <= MaxBytes /\ Len(entries') <= MaxEntries
      /\ ToSet(entries') = {e \in ToSet(entries) : e.key # k}
    BY <1>1, RemovedHolds
<1>3. InOrder(entries)' /\ (bytes = BytesOf(entries))'
    BY <1>2 DEF InOrder, BytesOf
<1>4. CASE UNCHANGED <<inFlight, loads>>
  <2>1. CacheTypes'
    BY <1>t, <1>1, <1>2, <1>4 DEF CacheTypes
  <2>2. EntriesHold'
    BY <1>t, <1>1, <1>2, <1>3, <1>4 DEF EntriesHold
  <2>3. LoadsHold'
    BY <1>t, <1>1, <1>2, <1>4 DEF LoadsHold, IsLoading
  <2> QED
    BY <2>1, <2>2, <2>3 DEF CacheInv
<1>5. CASE /\ inFlight[k] = NoLoad /\ inFlight' = [inFlight EXCEPT ![k] = Len(loads) + 1]
           /\ loads' = Append(loads, begun)
  <2>1. begun \in ReadLoad /\ begun.key = k /\ begun.generation = generation /\ begun.step = "loading"
        /\ loads \in Seq(ReadLoad) /\ generation <= generation
    BY <1>t DEF CacheTypes, ReadLoad
  <2> HIDE DEF begun
  <2>2. /\ loads' \in Seq(ReadLoad) /\ Len(loads') = Len(loads) + 1 /\ loads'[Len(loads) + 1] = begun
        /\ \A i \in 1 .. Len(loads) : loads'[i] = loads[i]
    BY <1>5, <2>1, AppendProperties
  <2>n. Len(loads) \in Nat
    BY <2>1
  <2>3. \A i \in 1 .. Len(loads') : i \in 1 .. Len(loads) \/ i = Len(loads) + 1
    BY <2>n, <2>2
  <2>4. /\ inFlight' \in [Key -> Nat] /\ inFlight'[k] = Len(loads) + 1
        /\ \A j \in Key : j # k => inFlight'[j] = inFlight[j]
    BY <1>t, <1>5, <2>n DEF CacheTypes
  <2>5. CacheTypes'
    BY <1>t, <1>1, <1>2, <2>2, <2>4 DEF CacheTypes
  <2>6. EntriesHold'
    <3>1. ASSUME NEW e \in ToSet(entries')
          PROVE  e.touchedAt <= clock' /\ e.load \in 1 .. Len(loads') /\ loads'[e.load].generation = generation'
      <4>1. e.touchedAt <= clock /\ e.load \in 1 .. Len(loads) /\ loads[e.load].generation = generation
        BY <1>t, <1>2 DEF EntriesHold
      <4> QED
        BY <1>1, <2>n, <2>2, <4>1
    <3> QED
      BY <1>2, <1>3, <3>1 DEF EntriesHold
  <2>7. \A l \in 1 .. Len(loads) : loads[l].step = "loading" /\ loads[l].generation = generation => loads[l].key # k
    BY <1>t, <1>5, <2>n DEF LoadsHold, IsLoading, NoLoad
  <2>8. ASSUME NEW l \in 1 .. Len(loads')
        PROVE  /\ loads'[l].generation <= generation
               /\ loads'[l].step = "loading" /\ loads'[l].generation = generation
                     => /\ inFlight'[loads'[l].key] = l
                        /\ \A e \in ToSet(entries') : e.key # loads'[l].key
    <3>1. CASE l \in 1 .. Len(loads)
      <4>0. loads[l] \in ReadLoad
        BY <2>1, <3>1
      <4>1. loads'[l] = loads[l] /\ loads[l].key \in Key
        BY <2>2, <3>1, <4>0 DEF ReadLoad
      <4> QED
        BY <1>t, <1>2, <2>4, <2>7, <3>1, <4>1 DEF LoadsHold, IsLoading
    <3>2. CASE l = Len(loads) + 1
      BY <1>2, <2>1, <2>2, <2>4, <3>2
    <3> QED
      BY <2>3, <3>1, <3>2
  <2>9. ASSUME NEW l \in 1 .. Len(loads'), NEW m \in 1 .. Len(loads'),
               loads'[l].key = loads'[m].key, loads'[l].generation = loads'[m].generation,
               loads'[l].step = "loading", loads'[m].step = "loading"
        PROVE  l = m
    <3>1. CASE l \in 1 .. Len(loads) /\ m \in 1 .. Len(loads)
      BY <1>t, <2>2, <2>9, <3>1 DEF LoadsHold, IsLoading
    <3>2. CASE l = Len(loads) + 1 /\ m \in 1 .. Len(loads)
      BY <2>1, <2>2, <2>7, <2>9, <3>2
    <3>3. CASE m = Len(loads) + 1 /\ l \in 1 .. Len(loads)
      BY <2>1, <2>2, <2>7, <2>9, <3>3
    <3> QED
      BY <2>3, <3>1, <3>2, <3>3
  <2>10. LoadsHold'
    BY <1>1, <2>8, <2>9 DEF LoadsHold, IsLoading
  <2> QED
    BY <2>5, <2>6, <2>10 DEF CacheInv
<1> QED
    BY <1>1, <1>4, <1>5

\* A load ends: the others stay as they are.
LEMMA LoadSettles ==
    ASSUME loads \in Seq(ReadLoad), NEW l \in 1 .. Len(loads), NEW to \in {"settling", "settled"},
           loads' = [loads EXCEPT ![l].step = to]
    PROVE  /\ loads' \in Seq(ReadLoad) /\ Len(loads') = Len(loads) /\ loads'[l].step = to
           /\ \A m \in 1 .. Len(loads) :
                 /\ loads'[m].key = loads[m].key /\ loads'[m].generation = loads[m].generation
                 /\ m # l => loads'[m] = loads[m]
<1> DEFINE over == [loads[l] EXCEPT !.step = to]
<1>1. loads[l] \in ReadLoad
    OBVIOUS
<1>2. /\ over \in ReadLoad /\ over.key = loads[l].key /\ over.generation = loads[l].generation
      /\ over.step = to
    BY <1>1 DEF ReadLoad
<1>3. loads' = [loads EXCEPT ![l] = over]
    OBVIOUS
<1> HIDE DEF over
<1>4. /\ loads' \in Seq(ReadLoad) /\ Len(loads') = Len(loads) /\ loads'[l] = over
      /\ \A i \in 1 .. Len(loads) : i # l => loads'[i] = loads[i]
    BY <1>2, <1>3, ExceptSeq
<1> QED
    BY <1>2, <1>4

\* What is in flight stays so, but for the load that ends.
LEMMA LoadsStay ==
    ASSUME CacheInv, NEW l \in 1 .. Len(loads), NEW to \in {"settling", "settled"},
           loads' = [loads EXCEPT ![l].step = to], UNCHANGED generation,
           \A k \in Key : inFlight'[k] = inFlight[k] \/ inFlight[k] = l,
           \A e \in ToSet(entries') : e \in ToSet(entries) \/ (loads[l].generation = generation
                                         /\ IsLoading(l) /\ e.key = loads[l].key)
    PROVE  LoadsHold'
<1>t. CacheTypes /\ LoadsHold
    BY DEF CacheInv
<1>1. /\ loads \in Seq(ReadLoad) /\ loads' \in Seq(ReadLoad) /\ Len(loads') = Len(loads) /\ loads'[l].step = to
      /\ \A m \in 1 .. Len(loads) :
            /\ loads'[m].key = loads[m].key /\ loads'[m].generation = loads[m].generation
            /\ m # l => loads'[m] = loads[m]
    BY <1>t, LoadSettles DEF CacheTypes
<1>2. ASSUME NEW m \in 1 .. Len(loads), IsLoading(m)' PROVE IsLoading(m) /\ m # l
    BY <1>1, <1>2 DEF IsLoading
<1>3. ASSUME NEW m \in 1 .. Len(loads)
      PROVE  /\ loads'[m].generation <= generation'
             /\ IsLoading(m)' /\ loads'[m].generation = generation'
                   => /\ inFlight'[loads'[m].key] = m
                      /\ \A e \in ToSet(entries') : e.key # loads'[m].key
  <2>0. loads[m] \in ReadLoad
    BY <1>1
  <2>1. loads[m].key \in Key
    BY <2>0 DEF ReadLoad
  <2>2. CASE IsLoading(m)' /\ loads[m].generation = generation
    <3>1. IsLoading(m) /\ m # l /\ inFlight[loads[m].key] = m
          /\ \A e \in ToSet(entries) : e.key # loads[m].key
      BY <1>t, <1>2, <2>2 DEF LoadsHold
    <3>2. inFlight'[loads[m].key] = m
      BY <2>1, <3>1
    <3>3. ASSUME NEW e \in ToSet(entries'), e.key = loads[m].key PROVE FALSE
      <4>1. loads[l].generation = generation /\ IsLoading(l) /\ loads[l].key = loads[m].key
        BY <3>1, <3>3
      <4> QED
        BY <1>t, <2>2, <3>1, <4>1 DEF LoadsHold
    <3> QED
      BY <1>t, <1>1, <3>2, <3>3 DEF LoadsHold
  <2>3. CASE ~ (IsLoading(m)' /\ loads[m].generation = generation)
    BY <1>t, <1>1, <2>3 DEF LoadsHold
  <2> QED
    BY <2>2, <2>3
<1>4. ASSUME NEW m \in 1 .. Len(loads), NEW n \in 1 .. Len(loads),
             loads'[m].key = loads'[n].key, loads'[m].generation = loads'[n].generation,
             IsLoading(m)', IsLoading(n)'
      PROVE  m = n
  <2>1. IsLoading(m) /\ IsLoading(n)
    BY <1>2, <1>4
  <2> QED
    BY <1>t, <1>1, <1>4, <2>1 DEF LoadsHold
<1> QED
    BY <1>1, <1>3, <1>4 DEF LoadsHold

\* Entries that stay keep what is said of them.
LEMMA EntriesStay ==
    ASSUME CacheInv, NEW l \in 1 .. Len(loads), NEW to \in {"settling", "settled"},
           loads' = [loads EXCEPT ![l].step = to], UNCHANGED <<generation, clock, entries, bytes>>
    PROVE  EntriesHold'
<1>t. CacheTypes /\ EntriesHold
    BY DEF CacheInv
<1>1. /\ Len(loads') = Len(loads)
      /\ \A m \in 1 .. Len(loads) : loads'[m].generation = loads[m].generation
    BY <1>t, LoadSettles DEF CacheTypes
<1> QED
    BY <1>t, <1>1 DEF EntriesHold, InOrder, BytesOf

\* The value of a load, kept or not.
LEMMA LoadedHolds ==
    ASSUME CacheInv, NEW l \in Load, Loaded(l)
    PROVE  CacheInv'
<1>t. CacheTypes /\ EntriesHold /\ LoadsHold
    BY DEF CacheInv
<1>1. /\ l \in 1 .. Len(loads) /\ IsLoading(l) /\ loads' = [loads EXCEPT ![l].step = "settling"]
      /\ UNCHANGED <<inFlight, generation, clock>>
  <2>1. l \in Nat \ {0} /\ Len(loads) \in Nat /\ l <= Len(loads)
    BY <1>t, CacheLimitAssumption DEF Loaded, CacheTypes
  <2>2. l \in 1 .. Len(loads)
    BY <2>1
  <2> QED
    BY <2>2 DEF Loaded, IsLoading
<1>2. /\ loads \in Seq(ReadLoad) /\ loads' \in Seq(ReadLoad) /\ Len(loads') = Len(loads)
      /\ \A m \in 1 .. Len(loads) : loads'[m].generation = loads[m].generation
    BY <1>t, <1>1, LoadSettles DEF CacheTypes
<1>3. CASE UNCHANGED <<entries, bytes>>
  <2>1. CacheTypes'
    BY <1>t, <1>1, <1>2, <1>3 DEF CacheTypes
  <2>2. EntriesHold' /\ LoadsHold'
    BY <1>1, <1>3, EntriesStay, LoadsStay
  <2> QED
    BY <2>1, <2>2 DEF CacheInv
<1>4. ASSUME NEW size \in Size, MayKeep(l, size),
             LET all == Set(entries, [key |-> loads[l].key, bytes |-> size, touchedAt |-> clock, load |-> l])
                 rested == Evicted(all)
             IN entries' = rested /\ bytes' = bytes + size - (BytesOf(all) - BytesOf(rested))
      PROVE  CacheInv'
  <2> DEFINE e == [key |-> loads[l].key, bytes |-> size, touchedAt |-> clock, load |-> l]
             all == Set(entries, e)
             rest == Evicted(all)
  <2>1. /\ entries' = rest /\ bytes' = bytes + size - (BytesOf(all) - BytesOf(rest))
        /\ loads[l].generation = generation
    BY <1>4 DEF MayKeep
  <2>0. loads[l] \in ReadLoad
    BY <1>1, <1>2
  <2>2. /\ e \in ReadEntry /\ e.key = loads[l].key /\ e.bytes = size /\ e.touchedAt = clock /\ e.load = l
        /\ size \in Nat
    BY <1>t, <1>1, <2>0, CacheLimitAssumption DEF ReadEntry, ReadLoad, CacheTypes
  <2> HIDE DEF e
  <2>3. \A d \in ToSet(entries) : d.key # e.key /\ d.touchedAt <= e.touchedAt
    BY <1>t, <1>1, <2>1, <2>2 DEF EntriesHold, LoadsHold
  <2>4. all = Append(entries, e)
    <3>1. \A i \in 1 .. Len(entries) : entries[i] \in ToSet(entries)
      BY <1>t, QueuedAt DEF CacheTypes
    <3> QED
      BY <2>3, <3>1 DEF Set
  <2> HIDE DEF all
  <2>5. /\ all \in Seq(ReadEntry) /\ ToSet(all) = ToSet(entries) \cup {e} /\ InOrder(all)
        /\ BytesOf(all) = BytesOf(entries) + size
    BY <1>t, <2>2, <2>3, <2>4, EntryAppended DEF CacheTypes, EntriesHold
  <2>6. /\ rest \in Seq(ReadEntry) /\ InOrder(rest) /\ ToSet(rest) \subseteq ToSet(all)
        /\ BytesOf(rest) <= MaxBytes /\ Len(rest) <= MaxEntries
    BY <2>5, EvictedFits
  <2> HIDE DEF rest
  <2>7. bytes' = BytesOf(rest) /\ BytesOf(rest) \in Nat
    <3>1. BytesOf(rest) \in Nat /\ BytesOf(entries) \in Nat /\ bytes = BytesOf(entries)
      BY <1>t, <2>6, BytesCounted DEF CacheTypes, EntriesHold
    <3> QED
      BY <2>1, <2>2, <2>5, <3>1
  <2>8. CacheTypes'
    BY <1>t, <1>1, <1>2, <2>1, <2>6, <2>7 DEF CacheTypes
  <2>9. EntriesHold'
    <3>1. ASSUME NEW d \in ToSet(rest)
          PROVE  d.touchedAt <= clock' /\ d.load \in 1 .. Len(loads') /\ loads'[d.load].generation = generation'
      <4>1. d.touchedAt <= clock /\ d.load \in 1 .. Len(loads) /\ loads[d.load].generation = generation
        <5>1. clock <= clock
          BY <1>t DEF CacheTypes
        <5> QED
          BY <1>t, <1>1, <2>1, <2>2, <2>5, <2>6, <5>1 DEF EntriesHold
      <4> QED
        BY <1>1, <1>2, <4>1
    <3>2. InOrder(entries)' /\ (bytes = BytesOf(entries))'
      BY <2>1, <2>6, <2>7 DEF InOrder, BytesOf
    <3> QED
      BY <2>1, <2>6, <2>7, <3>1, <3>2 DEF EntriesHold
  <2>10. LoadsHold'
    <3>1. \A d \in ToSet(entries') : d \in ToSet(entries) \/ (loads[l].generation = generation
                                         /\ IsLoading(l) /\ d.key = loads[l].key)
      BY <1>1, <2>1, <2>2, <2>5, <2>6
    <3> QED
      BY <1>1, <3>1, LoadsStay
  <2> QED
    BY <2>8, <2>9, <2>10 DEF CacheInv
<1> QED
    BY <1>3, <1>4 DEF Loaded

\* A load fails, or is no longer pending.
LEMMA SettlesHolds ==
    ASSUME CacheInv, NEW l \in Load, LoadFails(l) \/ Settles(l)
    PROVE  CacheInv'
<1>t. CacheTypes /\ EntriesHold /\ LoadsHold
    BY DEF CacheInv
<1>1. l \in 1 .. Len(loads)
  <2>1. l \in Nat \ {0} /\ Len(loads) \in Nat /\ l <= Len(loads)
    BY <1>t, CacheLimitAssumption DEF LoadFails, Settles, CacheTypes
  <2> QED
    BY <2>1
<1>0. loads[l] \in ReadLoad
    BY <1>t, <1>1 DEF CacheTypes
<1>2. PICK to \in {"settling", "settled"} : loads' = [loads EXCEPT ![l].step = to]
    BY DEF LoadFails, Settles
<1>3. /\ UNCHANGED <<entries, generation, bytes, clock>> /\ inFlight' \in [Key -> Nat]
      /\ \A k \in Key : inFlight'[k] = inFlight[k] \/ inFlight[k] = l
  <2>1. inFlight' = inFlight \/ (inFlight[loads[l].key] = l /\ inFlight' = [inFlight EXCEPT ![loads[l].key] = 0])
    BY DEF LoadFails, Settles, NoLoad
  <2>2. loads[l].key \in Key /\ inFlight \in [Key -> Nat]
    BY <1>t, <1>0 DEF ReadLoad, CacheTypes
  <2>3. inFlight' \in [Key -> Nat] /\ \A k \in Key : inFlight'[k] = inFlight[k] \/ inFlight[k] = l
    BY <2>1, <2>2
  <2> QED
    BY <2>3 DEF LoadFails, Settles
<1>4. loads' \in Seq(ReadLoad)
    BY <1>t, <1>1, <1>2, LoadSettles DEF CacheTypes
<1>5. CacheTypes'
    BY <1>t, <1>3, <1>4 DEF CacheTypes
<1>6. EntriesHold' /\ LoadsHold'
    BY <1>1, <1>2, <1>3, EntriesStay, LoadsStay
<1> QED
    BY <1>5, <1>6 DEF CacheInv

\* The cache is cleared.
LEMMA ClearHolds ==
    ASSUME CacheInv, Clear
    PROVE  CacheInv'
<1>t. CacheTypes /\ LoadsHold
    BY DEF CacheInv
<1>1. /\ generation' = generation + 1 /\ entries' = <<>> /\ bytes' = 0
      /\ inFlight' = [k \in Key |-> 0] /\ UNCHANGED <<loads, clock>>
    BY DEF Clear, NoLoad
<1>2. BytesIn(ToSet(<<>>)) = {} /\ <<>> \in Seq(ReadEntry) /\ Len(<<>>) = 0 /\ ToSet(<<>>) = {}
    BY NoneQueued DEF BytesIn
<1>3. BytesOf(<<>>) = 0
    BY <1>2, BytesCounted, FS_EmptySet
<1>4. 0 <= MaxBytes /\ 0 <= MaxEntries
    BY CacheLimitAssumption
<1>5. CacheTypes'
    BY <1>t, <1>1, <1>2 DEF CacheTypes
<1>6. EntriesHold'
    BY <1>1, <1>2, <1>3, <1>4 DEF EntriesHold, InOrder, BytesOf
<1>7. LoadsHold'
  <2>1. ASSUME NEW l \in 1 .. Len(loads)
        PROVE  loads[l].generation <= generation' /\ loads[l].generation # generation'
    <3>0. loads[l] \in ReadLoad
      BY <1>t DEF CacheTypes
    <3>1. loads[l].generation <= generation /\ loads[l].generation \in Nat /\ generation \in Nat
      BY <1>t, <3>0 DEF LoadsHold, CacheTypes, ReadLoad
    <3> QED
      BY <1>1, <3>1
  <2> QED
    BY <1>t, <1>1, <2>1 DEF LoadsHold, IsLoading
<1> QED
    BY <1>5, <1>6, <1>7 DEF CacheInv

\* Every step keeps the invariant.
LEMMA CacheStep == CacheInv /\ [CacheNext]_cacheVars => CacheInv'
<1> SUFFICES ASSUME CacheInv, [CacheNext]_cacheVars PROVE CacheInv'
    OBVIOUS
<1>1. CASE Clear
    BY <1>1, ClearHolds
<1>2. CASE Tick
  <2>1. clock' = clock + 1 /\ UNCHANGED <<entries, inFlight, loads, generation, bytes>>
    BY <1>2 DEF Tick
  <2>2. CacheTypes'
    BY <2>1 DEF CacheInv, CacheTypes
  <2>3. EntriesHold'
    <3>1. ASSUME NEW e \in ToSet(entries) PROVE e.touchedAt <= clock + 1
      <4>1. ToSet(entries) \subseteq ReadEntry
        BY QueuedAt DEF CacheInv, CacheTypes
      <4>2. e.touchedAt \in Nat /\ e.touchedAt <= clock /\ clock \in Nat
        BY <4>1 DEF CacheInv, EntriesHold, CacheTypes, ReadEntry
      <4> QED
        BY <4>2
    <3> QED
      BY <2>1, <3>1 DEF CacheInv, EntriesHold, InOrder, BytesOf
  <2>4. LoadsHold'
    BY <2>1 DEF CacheInv, LoadsHold, IsLoading
  <2> QED
    BY <2>2, <2>3, <2>4 DEF CacheInv
<1>3. ASSUME NEW k \in Key, Hit(k) PROVE CacheInv'
    BY <1>3, HitHolds
<1>4. ASSUME NEW k \in Key, Miss(k) \/ Expire(k) PROVE CacheInv'
    BY <1>4, MissHolds
<1>5. ASSUME NEW l \in Load, Loaded(l) PROVE CacheInv'
    BY <1>5, LoadedHolds
<1>6. ASSUME NEW l \in Load, LoadFails(l) \/ Settles(l) PROVE CacheInv'
    BY <1>6, SettlesHolds
<1>7. CASE UNCHANGED cacheVars
  <2> USE <1>7 DEF cacheVars
  <2>1. CacheTypes' /\ EntriesHold'
    BY DEF CacheInv, CacheTypes, EntriesHold, InOrder, BytesOf
  <2>2. LoadsHold'
    BY DEF CacheInv, LoadsHold, IsLoading
  <2> QED
    BY <2>1, <2>2 DEF CacheInv
<1> QED
    BY <1>1, <1>2, <1>3, <1>4, <1>5, <1>6, <1>7 DEF CacheNext

\* The invariant says what is promised.
LEMMA CacheInvBounds == CacheInv => CacheIsBounded
<1> SUFFICES ASSUME CacheInv PROVE CacheIsBounded
    OBVIOUS
<1>t. CacheTypes /\ EntriesHold /\ LoadsHold
    BY DEF CacheInv
<1>1. \A i \in 1 .. Len(entries) : loads[entries[i].load].generation = generation
  <2>1. \A i \in 1 .. Len(entries) : entries[i] \in ToSet(entries)
    BY <1>t, QueuedAt DEF CacheTypes
  <2> QED
    BY <1>t, <2>1 DEF EntriesHold
<1> QED
    BY <1>t, <1>1 DEF CacheIsBounded, EntriesHold, InOrder, LoadsHold, IsLoading

\* The cache counts its bytes and keeps both limits, evicts the oldest first, loads a
\* key once per generation and keeps nothing whose load began before clear().
THEOREM CacheBounded == CacheSpec => []CacheIsBounded
<1>1. CacheInit => CacheInv
    BY CacheStarts
<1>2. CacheInv /\ [CacheNext]_cacheVars => CacheInv'
    BY CacheStep
<1>3. CacheInv => CacheIsBounded
    BY CacheInvBounds
<1> QED
    BY <1>1, <1>2, <1>3, PTL DEF CacheSpec

-----------------------------------------------------------------------------
(* Side by side *)

\* What they are checked with is a behaviour of each of them.
LEMMA ServicesRunTheirParts ==
    MCSpec => /\ CollectionInit /\ [][CollectionNext]_collectionVars /\ NoticeJobsSpec /\ CasesSpec
              /\ CacheSpec /\ CatalogSpec /\ ResultsSpec /\ HistoriesSpec /\ GameSpec
<1>1. MCInit => /\ CollectionInit /\ NoticeJobsInit /\ CasesInit
                /\ CacheInit /\ CatalogInit /\ ResultsInit /\ HistoriesInit /\ GameInit
    BY DEF MCInit
<1>2. [MCNext]_<<part, allVars>> =>
          /\ [CollectionNext]_collectionVars /\ [NoticeJobsNext]_noticeVars /\ [CasesNext]_caseVars
          /\ [CacheNext]_cacheVars /\ [CatalogNext]_catalogVars
          /\ [ResultsNext]_resultVars /\ [HistoriesNext]_historyVars /\ [GameNext]_gameVars
    BY DEF MCNext, allVars
<1> QED
    BY <1>1, <1>2, PTL DEF MCSpec, NoticeJobsSpec, CasesSpec, CacheSpec, CatalogSpec, ResultsSpec,
                           HistoriesSpec, GameSpec

\* Jobs that collect games and jobs that collect notices tell what became of them, whatever
\* runs beside them.
THEOREM JobsAlwaysTold == MCSpec => []JobsAreTold
<1>1. CollectionInit /\ [][CollectionNext]_collectionVars => []CollectionIsTold
    BY CollectionStarts, CollectionStep, CollectionInvHolds, PTL
<1> QED
    BY <1>1, ServicesRunTheirParts, NoticesTold, PTL DEF JobsAreTold

\* How a run of notices ended and what a reviewer decided are not taken back, whatever runs
\* beside them.
THEOREM EndsAlwaysStand == MCSpec => EndsStand
BY ServicesRunTheirParts, EndedStays, DecisionsAlwaysStand, PTL DEF EndsStand

\* The caches of the server keep their bounds and show what is on disk, whatever runs beside
\* them.
THEOREM CachesAlwaysHold == MCSpec => []CachesHold
BY ServicesRunTheirParts, CacheBounded, CatalogCurrent, ResultsShown, HistoriesShown, PTL DEF CachesHold

\* What the compiler makes of every ledger is accounted for, whatever runs beside it.
THEOREM GameAlwaysKept == MCSpec => []GameIsKept
BY ServicesRunTheirParts, GameKept, PTL DEF GameIsKept

\* When a runner is out on a fielder's choice and the batter stays on, the pitchers before
\* owe what they did, whatever runs beside it.
THEOREM ChoicesAlwaysKept == MCSpec => ChoicesKeepWhatIsOwed
BY ServicesRunTheirParts, ChoicesKept, PTL

=============================================================================
