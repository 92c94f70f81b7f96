---------------------------- MODULE ManagedMirror ----------------------------
(***************************************************************************)
(* ManagedMirror of storage/recovery.go: what every provider's mirror of a  *)
(* Session Diary has around it. A call takes the Mirror Lock of the diary's *)
(* key, loads the Remote Binding, runs the provider's operation against the *)
(* remote, keeps a conflict as a snapshot and the result as the binding,    *)
(* and releases the lock.                                                   *)
(*                                                                         *)
(* A call is a sequence of steps, one for each request and each durable    *)
(* local write, so that edits, other processes and crashes come between    *)
(* them. The Mirror Lock is the ownership that MirrorLocks is proved to    *)
(* implement, as long as no clear-lock is overtaken and robs a live owner; *)
(* the binding file is read and written only under it, so loading it is    *)
(* part of taking the lock.                                                *)
(*                                                                         *)
(* IssuesMirror and WikiMirror extend this module with the remote side and *)
(* the provider's steps. The actions here say nothing of the remote: the    *)
(* providers add that it is left alone.                                    *)
(***************************************************************************)

EXTENDS Naturals, Sequences

CONSTANTS
  Proc,           \* the processes, and the renderings of the diary they make
  None,
  MaxEdits,       \* bound on human edits
  MaxFaults       \* bound on failed requests, failed writes and crashes

ASSUME ManagedAssumption ==
  /\ None \notin Proc
  /\ {"orphan", "empty"} \cap (Proc \cup {None}) = {}
  /\ {MaxEdits, MaxFaults} \subseteq Nat

VARIABLES
  binding,   \* the revision in the Remote Binding, or None
  snapshots, \* the revisions that a Conflict Snapshot was written for
  blanks,    \* those of them whose snapshot is an empty file
  lock,      \* the process that holds the Mirror Lock; "orphan", of one that has
             \* ended; "empty", a file without a record; or None
  at,        \* the next step of the process's call
  op,        \* what it was called for
  local,     \* the text of the diary it was called with
  observed,  \* the revision that a resolution was decided on
  got,       \* the remote revision it has read
  result,    \* its MirrorResult
  edits, faults

evidence == <<snapshots, blanks>>
store == <<binding, evidence, lock>>
request == <<op, local, observed>>
bounds == <<edits, faults>>
managedVars == <<binding, snapshots, blanks, lock, at, op, local, observed, got, result,
                 edits, faults>>

States == {"mirrored", "conflict", "pending", "prerequisite"}
\* "bare": without the remote content that the revision is of.
NoResult == [state |-> "pending", rev |-> None, busy |-> FALSE, unverified |-> FALSE,
             bare |-> FALSE]
Resolutions == {"keep_local", "keep_remote"}

ManagedInit ==
  /\ binding = None /\ snapshots = {} /\ blanks = {} /\ lock = None
  /\ at = [p \in Proc |-> "idle"]
  /\ op = [p \in Proc |-> "mirror"]
  /\ local = [p \in Proc |-> p]
  /\ observed = [p \in Proc |-> None]
  /\ got = [p \in Proc |-> None]
  /\ result = [p \in Proc |-> NoResult]
  /\ edits = 0 /\ faults = 0

Goto(p, step) == at' = [at EXCEPT ![p] = step]

Fault == faults < MaxFaults /\ faults' = faults + 1 /\ UNCHANGED edits

\* The provider's operation ends; run goes on to keep what has to be kept, or
\* gives the result back.
Finish(p, r) ==
  /\ result' = [result EXCEPT ![p] = r]
  /\ Goto(p, CASE r.state = "mirrored" -> "bind" [] r.state = "conflict" -> "snapshot"
               [] OTHER -> "release")

\* ... with state s and revision r.
End(p, s, r) == Finish(p, [NoResult EXCEPT !.state = s, !.rev = r])

\* ... with a remote object whose identity could not be verified.
EndUnverified(p, s, r) ==
  Finish(p, [NoResult EXCEPT !.state = s, !.rev = r, !.unverified = TRUE])

\* ... with a revision whose content is not in the result.
EndBare(p, s, r) ==
  Finish(p, [NoResult EXCEPT !.state = s, !.rev = r, !.bare = TRUE])

-----------------------------------------------------------------------------
(* Faulty variants: what the properties are there to catch. *)

\* A lock that is held does not stop anybody.
TakeLockShared(p, step) ==
  /\ at[p] = "acquire"
  /\ lock' = p
  /\ Goto(p, step)
  /\ UNCHANGED <<binding, evidence, request, got, result, bounds>>

\* A conflict is reported without keeping its evidence.
WriteSnapshotSkipped(p) ==
  /\ at[p] = "snapshot"
  /\ Goto(p, "bind")
  /\ UNCHANGED <<store, request, got, result, bounds>>

\* The lock stays when the effect has failed.
ReleaseOnSuccess(p) ==
  /\ at[p] = "release"
  /\ lock' = IF result[p].state = "pending" THEN lock ELSE None
  /\ Goto(p, "done")
  /\ UNCHANGED <<binding, evidence, request, got, result, bounds>>

-----------------------------------------------------------------------------
(* Taking the lock *)

\* A command starts a call for the text t.
Call(p, what, t, revision) ==
  /\ at[p] = "idle"
  /\ Goto(p, "acquire")
  /\ op' = [op EXCEPT ![p] = what]
  /\ local' = [local EXCEPT ![p] = t]
  /\ observed' = [observed EXCEPT ![p] = revision]
  /\ UNCHANGED <<store, got, result, bounds>>

\* The lock is taken and the binding loaded; the provider's first step follows.
TakeLock(p, step) ==
  /\ at[p] = "acquire"
  /\ lock = None
  /\ lock' = p
  /\ Goto(p, step)
  /\ UNCHANGED <<binding, evidence, request, got, result, bounds>>

\* The lock is taken by another: its record can be read, or not (yet).
Contended(p) ==
  /\ at[p] = "acquire"
  /\ lock # None
  /\ \E b \in BOOLEAN :
       /\ b => lock # "empty"
       /\ result' = [result EXCEPT ![p] = [NoResult EXCEPT !.busy = b]]
  /\ Goto(p, "done")
  /\ UNCHANGED <<store, request, got, bounds>>

\* The lock file cannot be made.
AcquireFails(p) ==
  /\ at[p] = "acquire"
  /\ lock = None
  /\ Fault
  /\ Goto(p, "done")
  /\ UNCHANGED <<store, request, got, result>>

-----------------------------------------------------------------------------
(* Keeping the result *)

\* The snapshot of a revision is the file that was written last.
Keep(r) ==
  /\ snapshots' = snapshots \cup {r.rev}
  /\ blanks' = IF r.bare THEN blanks \cup {r.rev} ELSE blanks \ {r.rev}

\* The remote content of a conflict; nothing is bound to an object whose
\* identity is not verified.
WriteSnapshot(p) ==
  /\ at[p] = "snapshot"
  /\ Keep(result[p])
  /\ Goto(p, IF result[p].unverified THEN "release" ELSE "bind")
  /\ UNCHANGED <<binding, lock, request, got, result, bounds>>

SaveBinding(p) ==
  /\ at[p] = "bind"
  /\ binding' = result[p].rev
  /\ Goto(p, "release")
  /\ UNCHANGED <<evidence, lock, request, got, result, bounds>>

\* A snapshot or a binding that is not written, or not seen to be written: the
\* file was renamed into place and its directory could not be synced. The
\* mirror is left pending.
KeepFails(p) ==
  /\ Fault
  /\ \/ at[p] = "snapshot" /\ (Keep(result[p]) \/ UNCHANGED evidence) /\ UNCHANGED binding
     \/ at[p] = "bind" /\ binding' \in {binding, result[p].rev} /\ UNCHANGED evidence
  /\ End(p, "pending", result[p].rev)
  /\ UNCHANGED <<lock, request, got>>

Release(p) ==
  /\ at[p] = "release"
  /\ lock' = None
  /\ Goto(p, "done")
  /\ UNCHANGED <<binding, evidence, request, got, result, bounds>>

\* The steps of a call that are the same for every provider.
ManagedStep(p) ==
  \/ Contended(p) \/ AcquireFails(p)
  \/ WriteSnapshot(p) \/ SaveBinding(p) \/ KeepFails(p) \/ Release(p)

-----------------------------------------------------------------------------
(* What happens around the calls *)

\* The caller has the result and the call is over.
Return(p) ==
  /\ at' = [at EXCEPT ![p] = "idle"]
  /\ op' = [op EXCEPT ![p] = "mirror"]
  /\ local' = [local EXCEPT ![p] = p]
  /\ observed' = [observed EXCEPT ![p] = None]
  /\ got' = [got EXCEPT ![p] = None]
  /\ result' = [result EXCEPT ![p] = NoResult]

\* The process ends between two steps, or between making the lock file and
\* writing its record; what is durable stays, its lock too.
Die(p) ==
  /\ Fault
  /\ Return(p)
  /\ \/ lock' = IF lock = p THEN "orphan" ELSE lock
     \/ at[p] = "acquire" /\ lock = None /\ lock' = "empty"
  /\ UNCHANGED <<binding, evidence>>

\* `sync recovery --clear-lock`: the owner of the lock was seen not to live. A
\* file without a record names no owner and is left. (Look and removal are one
\* step here; what may come between them is in MirrorLocks.)
ClearLock ==
  /\ lock = "orphan"
  /\ lock' = None
  /\ UNCHANGED <<binding, evidence, at, request, got, result, bounds>>
=============================================================================
