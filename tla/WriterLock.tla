------------------------------- MODULE WriterLock -------------------------------
(***************************************************************************)
(* The lock file that one process at a time writes a workspace under       *)
(* (acquireWriterLock of packages/persistence/src/workspace-files.ts, with *)
(* open(), close() and verifyLock() of staging-workspace.ts).              *)
(*                                                                         *)
(* The processes are of one host; a process that starts later may have the *)
(* identifier of one that died, as in a container that starts again.       *)
(***************************************************************************)
EXTENDS Naturals, FiniteSets

CONSTANTS
    Process,
    Pid(_),         \* the identifier the system gives it
    NoLock

ASSUME LockAssumption ==
    NoLock \notin Process
    /\ \A p \in Process, w \in BOOLEAN : [owner |-> p, written |-> w] # NoLock

VARIABLES
    lockFile,   \* .writer.lock: NoLock, or the process that made it and whether its text is there
    locking,    \* of each process: how far acquireWriterLock() is, and what became of it
    existing,   \* of each process: the owner it read
    overtaken   \* history: the processes whose lock was moved by one that had read another
lockVars == <<lockFile, locking, existing, overtaken>>

LockInit ==
    /\ lockFile = NoLock /\ overtaken = {}
    /\ locking = [p \in Process |-> "off"] /\ existing = [p \in Process |-> NoLock]

LockMoves(p, step) == locking' = [locking EXCEPT ![p] = step]
Alive(p) == locking[p] \notin {"off", "dead", "refused", "closed"}
LockOf(p) == [owner |-> p, written |-> FALSE]
HasLock(p) == lockFile # NoLock /\ lockFile.owner = p
Refused(p) == LockMoves(p, "refused") /\ UNCHANGED lockFile

\* open(lockPath, "wx"): the file is made, or there is one.
Exclusive(p) == lockFile = NoLock /\ lockFile' = LockOf(p)

LockBegins(p) ==
    /\ locking[p] = "off" /\ \A q \in Process : Alive(q) => Pid(q) # Pid(p)
    /\ \/ Exclusive(p) /\ LockMoves(p, "writing")
       \/ lockFile # NoLock /\ LockMoves(p, "reading") /\ UNCHANGED lockFile
    /\ UNCHANGED <<existing, overtaken>>

\* Its text is written, to a file that another process may have moved away.
LockWritten(p) ==
    /\ locking[p] = "writing"
    /\ lockFile' = IF HasLock(p) THEN [owner |-> p, written |-> TRUE] ELSE lockFile
    /\ LockMoves(p, "open")
    /\ UNCHANGED <<existing, overtaken>>

\* A process with the identifier of the owner is alive, and it is not this one.
OwnerLives(p, o) == Pid(o) # Pid(p) /\ \E q \in Process : Alive(q) /\ Pid(q) = Pid(o)

\* What is there is read: a file without its text is no lock, and refuses.
LockRead(p) ==
    /\ locking[p] = "reading"
    /\ \/ /\ lockFile = NoLock
          /\ LockMoves(p, "moving") /\ existing' = [existing EXCEPT ![p] = NoLock]
          /\ UNCHANGED lockFile
       \/ /\ lockFile # NoLock /\ ~lockFile.written
          /\ Refused(p) /\ UNCHANGED existing
       \/ /\ lockFile # NoLock /\ lockFile.written /\ OwnerLives(p, lockFile.owner)
          /\ Refused(p) /\ UNCHANGED existing
       \/ /\ lockFile # NoLock /\ lockFile.written /\ ~OwnerLives(p, lockFile.owner)
          /\ LockMoves(p, "moving")
          /\ existing' = [existing EXCEPT ![p] = lockFile.owner]
          /\ UNCHANGED lockFile
    /\ UNCHANGED overtaken

\* rename(): it moves whatever lock is there by now.
LockMoved(p) ==
    /\ locking[p] = "moving" /\ UNCHANGED existing
    /\ \/ lockFile = NoLock /\ Refused(p) /\ UNCHANGED overtaken
       \/ /\ lockFile # NoLock
          /\ lockFile' = NoLock /\ LockMoves(p, "making")
          /\ overtaken' = IF lockFile.owner = existing[p] THEN overtaken
                          ELSE overtaken \cup {lockFile.owner}

LockMade(p) ==
    /\ locking[p] = "making" /\ UNCHANGED <<existing, overtaken>>
    /\ \/ Exclusive(p) /\ LockMoves(p, "writing")
       \/ lockFile # NoLock /\ Refused(p)

\* verifyLock() before a write: a process that lost its lock writes no more.
Verified(p) ==
    /\ locking[p] = "open" /\ HasLock(p) /\ LockMoves(p, "saving")
    /\ UNCHANGED <<lockFile, existing, overtaken>>
SaveEnds(p) ==
    /\ locking[p] = "saving" /\ LockMoves(p, "open")
    /\ UNCHANGED <<lockFile, existing, overtaken>>

\* close() reads the lock and removes it when it is its own.
LockCloses(p) ==
    /\ locking[p] = "open"
    /\ LockMoves(p, IF HasLock(p) THEN "removing" ELSE "closed")
    /\ UNCHANGED <<lockFile, existing, overtaken>>
LockRemoved(p) ==
    /\ locking[p] = "removing" /\ LockMoves(p, "closed")
    /\ lockFile' = NoLock
    /\ UNCHANGED <<existing, overtaken>>

LockDies(p) ==
    /\ Alive(p) /\ LockMoves(p, "dead")
    /\ UNCHANGED <<lockFile, existing, overtaken>>

LockNext ==
    \E p \in Process :
       \/ LockBegins(p) \/ LockWritten(p) \/ LockRead(p) \/ LockMoved(p) \/ LockMade(p)
       \/ Verified(p) \/ SaveEnds(p) \/ LockCloses(p) \/ LockRemoved(p) \/ LockDies(p)
LockSpec == LockInit /\ [][LockNext]_lockVars

-----------------------------------------------------------------------------
\* No two processes write at once, nor does a process write whose lock is not there,
\* unless one that took over the lock of a dead process moved the lock of another that
\* had done so before it.
WritersAreApart ==
    overtaken = {} =>
       \A p \in Process : locking[p] \in {"open", "saving", "removing"} =>
          /\ HasLock(p)
          /\ \A q \in Process \ {p} : locking[q] \notin {"open", "saving", "removing"}

=============================================================================
