--------------------------- MODULE LedgerCorrections ---------------------------
(***************************************************************************)
(* The commands that correct the ledger of one game (packages/correction). *)
(* A call applies a command, or a batch of them, to a draft of the         *)
(* document and gives the draft back only when all of them apply; then the *)
(* tracking candidates follow the plate appearances of their pitches.      *)
(*                                                                         *)
(* A document keeps the order of its rows, the kind of each row ("none":   *)
(* there is no such row) and the tracking candidates.  Of a candidate the  *)
(* model keeps its resolution and the plate appearance it names.  What the *)
(* compiler says of a pitch is reduced to the plate appearance it is       *)
(* thrown in.  The values of rosters, official records and observations    *)
(* are left out, and so are the commands that only replace one of them.    *)
(***************************************************************************)
EXTENDS Integers, Sequences, FiniteSets

CONSTANTS
    Row,            \* the ids of the rows, those of rows not added yet too
    Tracking,       \* the ids of the tracking candidates
    Collected,      \* the documents the collection writes
    Undefined,        \* no row and no candidate (undefined or null)
    MaxCommands     \* bound: the commands of one behaviour

PitchKind == {"pitch", "no_pitch"}
RowKind == PitchKind \cup {"batter_start", "plate_result"}

Pending == [kind |-> "pending", of |-> Undefined]
Excluded == [kind |-> "excluded", of |-> Undefined]
LinkedTo(row) == [kind |-> "linked", of |-> row]
DuplicateOf(other) == [kind |-> "duplicate", of |-> other]

TrackingResolution ==
    {Pending, Excluded} \cup {LinkedTo(row) : row \in Row}
        \cup {DuplicateOf(other) : other \in Tracking}
Candidate == [resolution : TrackingResolution, plateAppearance : Row \cup {Undefined}]

Document ==
    [order : Seq(Row),
     kind : [Row -> RowKind \cup {"none"}],
     tracking : [Tracking -> Candidate]]

LedgerRows(doc) == {row \in Row : doc.kind[row] # "none"}

\* Every link is to a row of the ledger that is a pitch.
LinksStand(doc) ==
    \A c \in Tracking :
        doc.tracking[c].resolution.kind = "linked" =>
            doc.kind[doc.tracking[c].resolution.of] \in PitchKind

\* What the commands refuse to make of a document: a candidate that is a duplicate of itself.
NoSelfDuplicate(doc) == \A c \in Tracking : doc.tracking[c].resolution # DuplicateOf(c)

ASSUME TrackingAssumption == Undefined \notin Row /\ Undefined \notin Tracking
ASSUME CollectedAssumption ==
    /\ Collected \subseteq Document
    /\ \A doc \in Collected : LinksStand(doc) /\ NoSelfDuplicate(doc)

VARIABLES
    document,   \* the document of the last call that was answered
    draft,      \* the document the commands of this call have made so far
    calling,    \* whether a call is applying its commands
    commands,   \* how many commands were applied so far
    repaired    \* history: the candidates this call has reconciled
ledgerVars == <<document, draft, calling, commands, repaired>>

----------------------------------------------------------------------------
\* The plate appearance a pitch is thrown in: the first batter's row since the
\* last result, whose id the compiler gives to the plate appearance.
PlateAppearanceOf(order, kind, pitch) ==
    LET kindAt(i) == kind[order[i]]
        at == CHOOSE i \in DOMAIN order : order[i] = pitch
        opening == {i \in 1 .. at : /\ kindAt(i) = "batter_start"
                                    /\ \A j \in i .. at : kindAt(j) # "plate_result"}
    IN IF opening = {} THEN Undefined
       ELSE order[CHOOSE i \in opening : \A j \in opening : i <= j]

\* The pitch a candidate stands for, itself or as a duplicate of one that is linked.
PitchOf(tracking, c) ==
    LET own == tracking[c].resolution
        other == IF own.kind = "duplicate" THEN tracking[own.of].resolution ELSE own
    IN IF other.kind = "linked" THEN other.of ELSE Undefined

\* The plate appearance of the actual pitch a candidate stands for, Undefined without one.
PlayedIn(doc, c) ==
    LET pitch == PitchOf(doc.tracking, c)
    IN IF pitch # Undefined /\ doc.kind[pitch] = "pitch"
       THEN PlateAppearanceOf(doc.order, doc.kind, pitch) ELSE Undefined

\* Some candidates take the plate appearance their pitch has in a document.
Renamed(doc, some) ==
    [doc EXCEPT !.tracking =
        [c \in Tracking |->
            IF c \in some THEN [doc.tracking[c] EXCEPT !.plateAppearance = PlayedIn(doc, c)]
            ELSE doc.tracking[c]]]

\* Mutant: only the candidates that are linked themselves follow.
FollowingLinked(before, after) ==
    {c \in Tracking :
        /\ after.tracking[c].resolution.kind = "linked"
        /\ PitchOf(before.tracking, c) = PitchOf(after.tracking, c)
        /\ PlayedIn(before, c) # Undefined /\ PlayedIn(after, c) # Undefined
        /\ before.tracking[c].plateAppearance = PlayedIn(before, c)
        /\ after.tracking[c].plateAppearance = before.tracking[c].plateAppearance}
\* The candidates that named the plate appearance of their pitch before a call,
\* and name it still although their pitch has moved to another.
Following(before, after) ==
    {c \in Tracking :
        /\ PitchOf(before.tracking, c) = PitchOf(after.tracking, c)
        /\ PlayedIn(before, c) # Undefined /\ PlayedIn(after, c) # Undefined
        /\ before.tracking[c].plateAppearance = PlayedIn(before, c)
        /\ after.tracking[c].plateAppearance = before.tracking[c].plateAppearance
        /\ PlayedIn(before, c) # PlayedIn(after, c)}

\* The candidates that stand for a pitch that goes are set aside, with their duplicates.
ExcludedFor(tracking, pitch) ==
    LET linked == {c \in Tracking : tracking[c].resolution = LinkedTo(pitch)}
    IN [c \in Tracking |->
           IF c \in linked \/ \E other \in linked : tracking[c].resolution = DuplicateOf(other)
           THEN [tracking[c] EXCEPT !.resolution = Excluded]
           ELSE tracking[c]]

\* A row at its place: before another, or at the end of the ledger.
InsertedBefore(order, row, next) ==
    IF next = Undefined THEN Append(order, row)
    ELSE LET at == CHOOSE i \in DOMAIN order : order[i] = next
         IN SubSeq(order, 1, at - 1) \o <<row>> \o SubSeq(order, at, Len(order))
OrderWithout(order, row) == SelectSeq(order, LAMBDA other : other # row)

----------------------------------------------------------------------------
LedgerInit ==
    /\ document \in Collected
    /\ draft = document
    /\ calling = FALSE /\ commands = 0 /\ repaired = {}

\* A command of the call makes the draft `made`.
Apply(made) ==
    /\ commands < MaxCommands
    /\ draft' = made
    /\ calling' = TRUE
    /\ commands' = commands + 1
    /\ UNCHANGED document

\* A row written by hand is new.
AddEvent(row, kind, next) ==
    /\ row \notin LedgerRows(draft) /\ next \in LedgerRows(draft) \cup {Undefined}
    /\ Apply([order |-> InsertedBefore(draft.order, row, next),
              kind |-> [draft.kind EXCEPT ![row] = kind],
              tracking |-> draft.tracking])
    /\ UNCHANGED repaired

DeleteEvent(row) ==
    /\ row \in LedgerRows(draft)
    /\ Apply([order |-> OrderWithout(draft.order, row),
              kind |-> [draft.kind EXCEPT ![row] = "none"],
              tracking |-> IF draft.kind[row] \in PitchKind
                           THEN ExcludedFor(draft.tracking, row) ELSE draft.tracking])
    /\ UNCHANGED repaired

\* Mutant: a pitch that becomes another row keeps its candidates.
ReplaceEventAlone(row, kind) ==
    /\ row \in LedgerRows(draft)
    /\ Apply([draft EXCEPT !.kind[row] = kind])
    /\ UNCHANGED repaired
\* The row keeps its id and its place.
ReplaceEvent(row, kind) ==
    /\ row \in LedgerRows(draft)
    /\ Apply([order |-> draft.order,
              kind |-> [draft.kind EXCEPT ![row] = kind],
              tracking |-> IF draft.kind[row] \in PitchKind /\ kind \notin PitchKind
                           THEN ExcludedFor(draft.tracking, row) ELSE draft.tracking])
    /\ UNCHANGED repaired

MoveEvent(row, next) ==
    /\ row \in LedgerRows(draft) /\ next \in (LedgerRows(draft) \cup {Undefined}) \ {row}
    /\ Apply([draft EXCEPT !.order = InsertedBefore(OrderWithout(@, row), row, next)])
    /\ UNCHANGED repaired

LinkTracking(c, row) ==
    /\ draft.kind[row] \in PitchKind
    /\ Apply([draft EXCEPT !.tracking[c].resolution = LinkedTo(row)])
    /\ UNCHANGED repaired

MarkDuplicate(c, other) ==
    /\ c # other
    /\ Apply([draft EXCEPT !.tracking[c].resolution = DuplicateOf(other)])
    /\ UNCHANGED repaired

ExcludeTracking(c) ==
    Apply([draft EXCEPT !.tracking[c].resolution = Excluded]) /\ UNCHANGED repaired

UnlinkTracking(c) ==
    Apply([draft EXCEPT !.tracking[c].resolution = Pending]) /\ UNCHANGED repaired

\* The candidates whose plate appearance is gone and whose pitch has one: a
\* duplicate only when it names what its representative names.
Lost(doc) ==
    {c \in Tracking :
        /\ doc.tracking[c].plateAppearance \notin LedgerRows(doc) \cup {Undefined}
        /\ PlayedIn(doc, c) # Undefined
        /\ doc.tracking[c].resolution.kind = "duplicate" =>
            doc.tracking[c].plateAppearance =
                doc.tracking[doc.tracking[c].resolution.of].plateAppearance}
ReconcileContexts ==
    /\ Lost(draft) # {}
    /\ Apply(Renamed(draft, Lost(draft)))
    /\ repaired' = repaired \cup Lost(draft)

\* The call is answered with the draft, its candidates following their pitches.
Answer ==
    /\ calling
    /\ document' = Renamed(draft, Following(document, draft))
    /\ draft' = document'
    /\ calling' = FALSE /\ repaired' = {}
    /\ UNCHANGED commands

\* A command that does not apply throws, and with it all that the call did.
Throw ==
    /\ calling
    /\ draft' = document
    /\ calling' = FALSE /\ repaired' = {}
    /\ UNCHANGED <<document, commands>>

LedgerNext ==
    \/ \E row \in Row, kind \in RowKind, next \in Row \cup {Undefined} : AddEvent(row, kind, next)
    \/ \E row \in Row : DeleteEvent(row)
    \/ \E row \in Row, kind \in RowKind : ReplaceEvent(row, kind)
    \/ \E row \in Row, next \in Row \cup {Undefined} : MoveEvent(row, next)
    \/ \E c \in Tracking, row \in Row : LinkTracking(c, row)
    \/ \E c, other \in Tracking : MarkDuplicate(c, other)
    \/ \E c \in Tracking : ExcludeTracking(c)
    \/ \E c \in Tracking : UnlinkTracking(c)
    \/ ReconcileContexts
    \/ Answer
    \/ Throw

LedgerSpec == LedgerInit /\ [][LedgerNext]_ledgerVars

----------------------------------------------------------------------------
\* No command and no batch leaves a tracking candidate linked to a row that is
\* gone or is no pitch any more: the projection would attach the measured flight
\* of the ball to nothing.
LinksStandOnPitches == LinksStand(document) /\ LinksStand(draft)

\* Edits of other rows move a pitch to another plate appearance.  A candidate that
\* named the plate appearance of its pitch, and still stands for that pitch, names
\* it after the call too, its duplicates included; only a batch that reconciles
\* contexts and goes on to move rows may leave one behind.
ContextsFollow ==
    [][calling /\ ~calling' =>
          \A c \in Tracking \ repaired :
              /\ PitchOf(document.tracking, c) = PitchOf(document'.tracking, c)
              /\ PlayedIn(document, c) # Undefined /\ PlayedIn(document', c) # Undefined
              /\ document.tracking[c].plateAppearance = PlayedIn(document, c)
              => document'.tracking[c].plateAppearance = PlayedIn(document', c)]_ledgerVars

=============================================================================
