------------------------------ MODULE IndexLock ------------------------------
(***************************************************************************)
(* The lock files (index.lock, stdio.lock, projects.lock, daemon.lock): an *)
(* operating-system lock on an open descriptor, a payload that names the   *)
(* owner, and a file that the owner removes when it releases.  Every action *)
(* is one system call or a run of them that no other process can tell apart *)
(* from one.  internal/lock/lock.go, flock_unix.go, flock_windows.go       *)
(***************************************************************************)
EXTENDS Naturals

CONSTANTS
  Procs,           \* lock objects: one per process, or goroutine, that contends
  Inodes,          \* files the path may come to name, reused once forgotten
  Nil,
  UnlinkWhileOpen  \* TRUE: a file others have open can be removed (Unix);
                   \* FALSE: os.Remove then fails (Windows sharing rules)

ASSUME LockAssumption ==
  /\ Nil \notin Procs \cup Inodes
  /\ UnlinkWhileOpen \in BOOLEAN

VARIABLES
  path,     \* the inode the lock path names, or Nil
  fd,       \* fd[p]: the inode p has open, or Nil
  flock,    \* flock[i]: whose descriptor has the OS lock on i, or Nil
  payload,  \* payload[i]: the owner written into i, or Nil when empty
  pc        \* pc[p]: where p is in TryAcquire, ReclaimStale or Release

lockVars == <<path, fd, flock, payload, pc>>

States == {"idle",
           "reclaimOpen", "reclaimLocked",   \* inside ReclaimStale
           "acquiring", "opened", "locked",  \* inside TryAcquire
           "held",
           "unlocked", "removing"}           \* inside Release

LockInit ==
  /\ path = Nil
  /\ fd = [p \in Procs |-> Nil]
  /\ flock = [i \in Inodes |-> Nil]
  /\ payload = [i \in Inodes |-> Nil]
  /\ pc = [p \in Procs |-> "idle"]

Goto(p, next) == pc' = [pc EXCEPT ![p] = next]

\* An inode that neither the path nor a descriptor refers to.
Fresh(i) == i # path /\ \A p \in Procs : fd[p] # i

-----------------------------------------------------------------------------
\* TryAcquire first tries to reclaim; so does ReclaimStale on its own, called
\* at startup and by RecoverStalledProgress, which then stops.

\* os.Stat and os.OpenFile without O_CREATE.
ReclaimOpens(p) ==
  /\ pc[p] = "idle" /\ path # Nil
  /\ fd' = [fd EXCEPT ![p] = path]
  /\ Goto(p, "reclaimOpen")
  /\ UNCHANGED <<path, flock, payload>>

NothingToReclaim(p) ==
  /\ pc[p] = "idle" /\ path = Nil
  /\ Goto(p, "acquiring")
  /\ UNCHANGED <<path, fd, flock, payload>>

Closed(p) == fd' = [fd EXCEPT ![p] = Nil]

\* Someone holds it: ReclaimStale returns false, TryAcquire goes on.
ReclaimRefused(p) ==
  /\ pc[p] = "reclaimOpen" /\ flock[fd[p]] # Nil
  /\ Closed(p)
  /\ \E next \in {"idle", "acquiring"} : Goto(p, next)
  /\ UNCHANGED <<path, flock, payload>>

\* The OS lock was free: the file is emptied, not removed.
ReclaimTruncates(p) ==
  /\ pc[p] = "reclaimOpen" /\ flock[fd[p]] = Nil
  /\ flock' = [flock EXCEPT ![fd[p]] = p]
  /\ payload' = [payload EXCEPT ![fd[p]] = Nil]
  /\ Goto(p, "reclaimLocked")
  /\ UNCHANGED <<path, fd>>

ReclaimEnds(p) ==
  /\ pc[p] = "reclaimLocked"
  /\ flock' = [flock EXCEPT ![fd[p]] = Nil]
  /\ Closed(p)
  /\ \E next \in {"idle", "acquiring"} : Goto(p, next)
  /\ UNCHANGED <<path, payload>>

-----------------------------------------------------------------------------
\* The rest of TryAcquire.

\* os.OpenFile with O_CREATE: the file the path names, or a new one.
OpenExisting(p) ==
  /\ pc[p] = "acquiring" /\ path # Nil
  /\ fd' = [fd EXCEPT ![p] = path]
  /\ Goto(p, "opened")
  /\ UNCHANGED <<path, flock, payload>>

OpenCreates(p) ==
  /\ pc[p] = "acquiring" /\ path = Nil
  /\ \E i \in Inodes :
       /\ Fresh(i)
       /\ path' = i
       /\ fd' = [fd EXCEPT ![p] = i]
       /\ payload' = [payload EXCEPT ![i] = Nil]
  /\ Goto(p, "opened")
  /\ UNCHANGED flock

Refused(p) ==
  /\ pc[p] = "opened" /\ flock[fd[p]] # Nil
  /\ Closed(p)
  /\ Goto(p, "idle")
  /\ UNCHANGED <<path, flock, payload>>

\* Slip: an answer other than success is taken for one.
TakesLockRegardless(p) ==
  /\ pc[p] = "opened"
  /\ flock' = [flock EXCEPT ![fd[p]] = p]
  /\ Goto(p, "locked")
  /\ UNCHANGED <<path, fd, payload>>

TakesLock(p) ==
  /\ pc[p] = "opened" /\ flock[fd[p]] = Nil
  /\ flock' = [flock EXCEPT ![fd[p]] = p]
  /\ Goto(p, "locked")
  /\ UNCHANGED <<path, fd, payload>>

\* writeAndKeep
WritesPayload(p) ==
  /\ pc[p] = "locked"
  /\ payload' = [payload EXCEPT ![fd[p]] = p]
  /\ Goto(p, "held")
  /\ UNCHANGED <<path, fd, flock>>

-----------------------------------------------------------------------------
\* Release

Unlocks(p) ==
  /\ pc[p] = "held"
  /\ flock' = [flock EXCEPT ![fd[p]] = Nil]
  /\ Closed(p)
  /\ Goto(p, "unlocked")
  /\ UNCHANGED <<path, payload>>

\* The file is looked at by name: it is left alone when it is gone, when it
\* carries another owner, or (Windows) when a flock's lock keeps it from being
\* read.
ReadsOwner(p) ==
  LET mineStill == /\ path # Nil
                   /\ payload[path] = p
                   /\ UnlinkWhileOpen \/ flock[path] = Nil
  IN
  /\ pc[p] = "unlocked"
  /\ Goto(p, IF mineStill THEN "removing" ELSE "idle")
  /\ UNCHANGED <<path, fd, flock, payload>>

\* Slip: a file that is open is removed on every system.
RemovableAnyway == TRUE

\* Whether os.Remove of the lock path succeeds.
Removable == UnlinkWhileOpen \/ \A q \in Procs : fd[q] # path

Unlinks(p) ==
  /\ pc[p] = "removing"
  /\ path' = IF Removable THEN Nil ELSE path
  /\ Goto(p, "idle")
  /\ UNCHANGED <<fd, flock, payload>>

-----------------------------------------------------------------------------
\* The process dies: its descriptors are closed and its OS locks released; what
\* it wrote stays and matches nobody's payload any more.
Dies(p) ==
  /\ pc[p] # "idle"
  /\ Closed(p)
  /\ flock' = [i \in Inodes |-> IF flock[i] = p THEN Nil ELSE flock[i]]
  /\ payload' = [i \in Inodes |-> IF payload[i] = p THEN Nil ELSE payload[i]]
  /\ Goto(p, "idle")
  /\ UNCHANGED path

Acquiring(p) ==
  \/ ReclaimOpens(p) \/ NothingToReclaim(p) \/ ReclaimRefused(p)
  \/ ReclaimTruncates(p) \/ ReclaimEnds(p)
  \/ OpenExisting(p) \/ OpenCreates(p) \/ Refused(p)
  \/ TakesLock(p) \/ WritesPayload(p)

Releasing(p) == Unlocks(p) \/ ReadsOwner(p) \/ Unlinks(p)

LockNext == \E p \in Procs : Acquiring(p) \/ Releasing(p) \/ Dies(p)

LockSpec == LockInit /\ [][LockNext]_lockVars

-----------------------------------------------------------------------------
\* Properties.

LockTypeOK ==
  /\ path \in Inodes \cup {Nil}
  /\ fd \in [Procs -> Inodes \cup {Nil}]
  /\ flock \in [Inodes -> Procs \cup {Nil}]
  /\ payload \in [Inodes -> Procs \cup {Nil}]
  /\ pc \in [Procs -> States]

\* Processes that believe they have the lock: TryAcquire took the OS lock.
Owners == {p \in Procs : pc[p] \in {"locked", "held"}}

\* Lock "is an exclusive cross-process index lock file" (lock.go:18).
MutualExclusion == \A p, q \in Owners : p = q

\* Where open files cannot be removed the lock path keeps naming the file that
\* is locked, so that whoever comes next contends for the same one.
HeldFileIsNamed == \A p \in Owners : fd[p] = path

\* The lock file implements an exclusive lock.
Mutex == INSTANCE ExclusiveLock WITH owners <- Owners
MutexSpec == Mutex!Spec

\* The inductive invariant.
LockInv ==
  /\ LockTypeOK
  /\ \A p \in Procs : pc[p] \in {"idle", "acquiring", "unlocked", "removing"} <=> fd[p] = Nil
  /\ \A p \in Procs : fd[p] # Nil => fd[p] = path
  /\ \A p \in Procs : pc[p] \in {"reclaimLocked", "locked", "held"} => flock[fd[p]] = p
=============================================================================
