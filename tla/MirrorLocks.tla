---------------------------- MODULE MirrorLocks ----------------------------
(***************************************************************************)
(* The lock file <root>/locks/<key>.lock of one Idempotency Key, as the    *)
(* processes of several `syntroph` commands use it: MirrorLocks.Acquire,   *)
(* MirrorLock.Release and MirrorLocks.ClearOrphan of storage/recovery.go,  *)
(* called by ManagedMirror.run and by `sync recovery --clear-lock`.        *)
(* Every file-system call is a step of its own; between two of them other  *)
(* processes act and the process may crash.                                *)
(*                                                                         *)
(* An acquisition makes a new file and a new random OwnerID, so the OwnerID *)
(* names the file: `path` is the file now reachable under the lock's name, *)
(* and `written` the files that hold their owner record. A file that was   *)
(* unlinked keeps its creator, which goes on writing to it.                *)
(***************************************************************************)

CONSTANTS
  Proc,         \* process identifiers (PIDs)
  OwnerId,      \* the random identifiers acquisitions draw
  None,
  Mirrorers,    \* the processes that may run a command which mirrors the diary
  Clearers      \* the processes that may run `sync recovery --clear-lock`

ASSUME ConstantsAssumption ==
  /\ None \notin OwnerId \cup Proc
  /\ Mirrorers \cup Clearers \subseteq Proc

VARIABLES
  path,      \* the file under the lock's name, or None
  written,   \* the files whose owner record is complete
  pid,       \* the PID in the owner record, None for an OwnerID not yet drawn
  pc,        \* what the process is about to do; "dead" when there is none
  own,       \* the OwnerID of the acquisition the process is in, or None
  seen,      \* the OwnerID that ClearOrphan read, or None
  robbed     \* (history) the acquisitions whose file was removed on another's account

vars == <<path, written, pid, pc, own, seen, robbed>>
files == <<path, written, pid, robbed>>

Used == {o \in OwnerId : pid[o] # None}
Alive(p) == pc[p] # "dead"

\* The acquisition of an OwnerID is over, in whatever way it ended.
Abandoned(o) == o \in Used /\ \A p \in Proc : own[p] # o

Init ==
  /\ path = None
  /\ written = {}
  /\ pid = [o \in OwnerId |-> None]
  /\ pc = [p \in Proc |-> "idle"]
  /\ own = [p \in Proc |-> None]
  /\ seen = [p \in Proc |-> None]
  /\ robbed = {}

\* os.Remove of the lock's name, on the account of acquisition o, with no look
\* at what is there.
RemoveFor(o) ==
  /\ path' = None
  /\ robbed' = robbed \cup ({path} \ {o, None})
  /\ UNCHANGED <<written, pid>>

\* The call of p returns, with whatever result: it has nothing left to do.
Return(p) ==
  /\ pc' = [pc EXCEPT ![p] = "idle"]
  /\ own' = [own EXCEPT ![p] = None]
  /\ seen' = [seen EXCEPT ![p] = None]

GoTo(p, l) ==
  /\ pc' = [pc EXCEPT ![p] = l]
  /\ UNCHANGED seen

-----------------------------------------------------------------------------
(* Faulty variants: what the properties below are there to catch. *)

\* Acquire hands out a lock that does not know its own record.
CreateForgetsOwner(p) ==
  /\ pc[p] = "idle"
  /\ path = None
  /\ \E o \in OwnerId \ Used : path' = o /\ pid' = [pid EXCEPT ![o] = p]
  /\ GoTo(p, "write")
  /\ UNCHANGED <<written, own, robbed>>

\* OpenFile without O_EXCL.
CreateShared(p) ==
  /\ pc[p] = "idle"
  /\ \E o \in OwnerId \ Used :
       path' = o /\ pid' = [pid EXCEPT ![o] = p] /\ own' = [own EXCEPT ![p] = o]
  /\ GoTo(p, "write")
  /\ UNCHANGED <<written, robbed>>

\* Acquire takes an unreadable lock for debris and removes it.
ReadExistingSweeps(p) ==
  /\ pc[p] = "contended"
  /\ path' = IF path \in written THEN path ELSE None
  /\ Return(p)
  /\ UNCHANGED <<written, pid, robbed>>

\* Acquire waits until the lock's name is free.
ReadExistingWaits(p) ==
  /\ pc[p] = "contended"
  /\ path = None
  /\ Return(p)
  /\ UNCHANGED files

\* ClearOrphan does not look whether the owner lives.
ProbeSkipped(p) ==
  pc[p] = "probe" /\ GoTo(p, "remove") /\ UNCHANGED <<files, own>>

\* A PID that does not answer counts as alive.
ProbeTrusting(p) ==
  pc[p] = "probe" /\ Return(p) /\ UNCHANGED files

-----------------------------------------------------------------------------
(* Acquire *)

\* OpenFile(O_CREATE|O_EXCL) makes the file, still empty.
Create(p) ==
  /\ pc[p] = "idle"
  /\ p \in Mirrorers
  /\ path = None
  /\ \E o \in OwnerId \ Used :
       /\ path' = o
       /\ pid' = [pid EXCEPT ![o] = p]
       /\ own' = [own EXCEPT ![p] = o]
  /\ GoTo(p, "write")
  /\ UNCHANGED <<written, robbed>>

\* OpenFile finds a file there: Acquire goes on to read who made it.
FindExisting(p) ==
  /\ pc[p] = "idle"
  /\ p \in Mirrorers
  /\ path # None
  /\ GoTo(p, "contended")
  /\ UNCHANGED <<files, own>>

\* The record is written and synced: Acquire returns the lock, and
\* ManagedMirror.run starts the remote effect.
Write(p) ==
  /\ pc[p] = "write"
  /\ written' = written \cup {own[p]}
  /\ GoTo(p, "effect")
  /\ UNCHANGED <<path, pid, own, robbed>>

\* Write, Sync or Close fails: Acquire removes whatever has the lock's name.
WriteFails(p) ==
  /\ pc[p] = "write"
  /\ RemoveFor(own[p])
  /\ Return(p)

\* readLockOwner of an existing lock: only a complete record makes the
\* contention known as such; an empty file, or one that is gone by now, makes
\* the attempt fail like any other error.
ReadExisting(p) ==
  /\ pc[p] = "contended"
  /\ Return(p)
  /\ UNCHANGED files

-----------------------------------------------------------------------------
(* The remote effect ends, and the deferred Release runs. *)

EndEffect(p) ==
  /\ pc[p] = "effect"
  /\ GoTo(p, "release")
  /\ UNCHANGED <<files, own>>

\* Release reads the file and compares OwnerIDs ...
CheckOwner(p) ==
  /\ pc[p] = "release"
  /\ IF path = own[p]
     THEN GoTo(p, "unlink") /\ UNCHANGED own
     ELSE Return(p)
  /\ UNCHANGED files

\* ... and then removes what now has the lock's name.
Unlink(p) ==
  /\ pc[p] = "unlink"
  /\ RemoveFor(own[p])
  /\ Return(p)

-----------------------------------------------------------------------------
(* ClearOrphan *)

\* Reads the owner. A missing file is a success; an unreadable one an error.
ReadOwner(p) ==
  /\ pc[p] = "idle"
  /\ p \in Clearers
  /\ IF path \in written
     THEN /\ pc' = [pc EXCEPT ![p] = "probe"]
          /\ seen' = [seen EXCEPT ![p] = path]
          /\ UNCHANGED own
     ELSE Return(p)
  /\ UNCHANGED files

\* Signal 0 to the recorded PID, which another process may have by now.
Probe(p) ==
  /\ pc[p] = "probe"
  /\ IF Alive(pid[seen[p]])
     THEN Return(p)
     ELSE GoTo(p, "remove") /\ UNCHANGED own
  /\ UNCHANGED files

\* The lock's name is removed, with no second look at what is there; a name that
\* has gone is an error.
Remove(p) ==
  /\ pc[p] = "remove"
  /\ RemoveFor(seen[p])
  /\ Return(p)

-----------------------------------------------------------------------------
(* The operating system: processes end at any point, and PIDs are reused. *)

Die(p) ==
  /\ Alive(p)
  /\ pc' = [pc EXCEPT ![p] = "dead"]
  /\ own' = [own EXCEPT ![p] = None]
  /\ seen' = [seen EXCEPT ![p] = None]
  /\ UNCHANGED files

Start(p) ==
  /\ ~Alive(p)
  /\ GoTo(p, "idle")
  /\ UNCHANGED <<files, own>>

-----------------------------------------------------------------------------

\* The steps of a call that is under way; none of them waits for another process.
Step(p) ==
  \/ Write(p) \/ WriteFails(p) \/ ReadExisting(p)
  \/ EndEffect(p) \/ CheckOwner(p) \/ Unlink(p)
  \/ Probe(p) \/ Remove(p)

Next ==
  \E p \in Proc :
    \/ Create(p) \/ FindExisting(p) \/ Write(p) \/ WriteFails(p) \/ ReadExisting(p)
    \/ EndEffect(p) \/ CheckOwner(p) \/ Unlink(p)
    \/ ReadOwner(p) \/ Probe(p) \/ Remove(p)
    \/ Die(p) \/ Start(p)

Spec == Init /\ [][Next]_vars

\* A live process runs on. Operators repeat `--clear-lock` as the Recovery View
\* advises for as long as an orphan is there, from whichever process, and not
\* every repetition crashes.
FairSpec ==
  /\ Spec
  /\ \A p \in Proc : WF_vars(Step(p))
  /\ WF_vars(\E p \in Clearers : Start(p))
  /\ SF_vars(\E p \in Clearers : ReadOwner(p))
  /\ SF_vars(\E p \in Clearers : Probe(p))
  /\ SF_vars(\E p \in Clearers : Remove(p))

-----------------------------------------------------------------------------
(* Properties *)

\* Every variable keeps the shape its declaration describes.
TypeOK ==
  /\ path \in OwnerId \cup {None}
  /\ written \subseteq OwnerId
  /\ pid \in [OwnerId -> Proc \cup {None}]
  /\ pc \in [Proc -> {"idle", "write", "contended", "effect", "release", "unlink",
                      "probe", "remove", "dead"}]
  /\ own \in [Proc -> OwnerId \cup {None}]
  /\ seen \in [Proc -> OwnerId \cup {None}]
  /\ robbed \subseteq OwnerId

\* Two commands run the remote effect of one diary at the same time only if one
\* of them was robbed of its lock: what O_EXCL, the comparison of Release and the
\* probe of ClearOrphan are for (storage/recovery.go:176-266).
MutualExclusion ==
  \A p, q \in Proc :
    pc[p] = "effect" /\ pc[q] = "effect" => p = q \/ {own[p], own[q]} \cap robbed # {}

\* A command that ran the effect and was not robbed still finds its own lock when
\* Release compares OwnerIDs and when it removes the file, whatever files came
\* and went meanwhile.
ReleasesItsOwn ==
  \A p \in Proc : pc[p] \in {"release", "unlink"} /\ own[p] \notin robbed => path = own[p]

\* "refuses to preempt a live or unverifiable owner" (storage/recovery.go:246),
\* as far as the code keeps it: the owner that ClearOrphan read is over when it
\* comes to remove the file, and the file of a running call is only ever removed
\* by a clear-lock whose orphan has been removed before it, or by a call that has
\* been robbed itself.
PreemptsOnlyInRaces ==
  [][/\ \A p \in Proc : pc[p] = "remove" /\ pc'[p] = "idle" => Abandoned(seen[p])
     /\ robbed' # robbed =>
          \E p \in Proc : \/ pc[p] = "remove" /\ path # seen[p]
                          \/ pc[p] \in {"write", "unlink"} /\ own[p] \in robbed]_vars

\* The acquisitions that run the remote effect, those that are over, and those
\* on whose account a clear-lock or a release is about to remove the file.
Running == {own[p] : p \in {q \in Proc : pc[q] = "effect"}}
Gone == {o \in OwnerId : Abandoned(o)}
Judged == {seen[p] : p \in {q \in Proc : pc[q] = "remove"}}
            \cup {own[p] : p \in {q \in Proc : pc[q] = "unlink"}}

\* The lock files do what a Mirror Lock promises: every step of the protocol is
\* a step of MirrorOwnership or leaves the ownership as it is.
Ownership ==
  INSTANCE MirrorOwnership WITH
    Attempt <- OwnerId,
    holders <- {path} \ {None},
    running <- Running,
    gone <- Gone,
    judged <- Judged

ImplementsOwnership == Ownership!Spec

\* No call waits for a lock: each one that starts returns, or its process ends.
CallsReturn ==
  \A p \in Proc : pc[p] \notin {"idle", "dead"} ~> pc[p] \in {"idle", "dead"}

\* A lock file with a complete record whose owner's process is gone; no step puts
\* one orphan directly in the place of another.
Orphan == path \in written /\ Abandoned(path) /\ ~Alive(pid[path])

\* An orphan is removed in the end, unless its PID comes back to life in another
\* process.
OrphanCleared == Orphan ~> ~Orphan

=============================================================================
