---------------------------- MODULE SkillCatalog ----------------------------
(***************************************************************************)
(* The Skill Catalog of one repository, as several `syntroph skill sync`   *)
(* and `skill recovery --clear-orphan` commands use it: Catalog.Sync of    *)
(* adapters/skillfilesystem/catalog.go, and acquireSyncLock, Release and   *)
(* RecoverOrphanedSync of sync_recovery.go. Every change of the catalog's  *)
(* directory is a step of its own; between two of them sources are edited, *)
(* other commands act, a step may fail and the process may crash.          *)
(*                                                                         *)
(* A store object is a package at a version of its source, which is what   *)
(* the package hash tells apart. A lock, a candidate and a staging         *)
(* directory are known by the OwnerID they hold or are named after: their  *)
(* owner records are complete before they get their names, and never       *)
(* change.                                                                 *)
(***************************************************************************)
EXTENDS Naturals

CONSTANTS
  Proc,         \* process identifiers (PIDs)
  OwnerId,      \* the random identifiers synchronisations draw
  Package,      \* the declared packages
  MaxVersion,   \* bound on the versions of a package's source
  Broken,       \* the versions that fail validation
  None,
  Syncers,      \* the processes that may run `skill sync`
  Recoverers,   \* the processes that may run `skill recovery --clear-orphan`
  MaxFaults     \* bound on crashes and on recoveries that fail

ASSUME ConstantsAssumption ==
  /\ None \notin OwnerId \cup Proc
  /\ MaxVersion \in Nat /\ MaxVersion > 0 /\ MaxFaults \in Nat
  /\ Syncers \cup Recoverers \subseteq Proc

VARIABLES
  source,      \* the version of every package in the Skill Sources
  store,       \* store objects: "absent", "partial" or "complete"
  index,       \* the active index: the version of every package, 0 before any
  lock,        \* the OwnerID in sync.lock, or None
  candidates,  \* the OwnerIDs of the lock candidates
  staging,     \* staging directories: "none", "bare", or "owned" by owner.json
  pid,         \* the PID in an owner record, None for an OwnerID not yet drawn
  at,          \* the next step of the process's command; "dead" without process
  id,          \* the OwnerID its synchronisation drew, or its recovery found
  summary,     \* the versions its synchronisation has loaded, 0 for none
  object,      \* the object it is about to publish, or None
  seen,        \* the candidates its recovery has found and not yet removed
  faults,
  publisher,   \* (history) the OwnerID that published the active index, or None
  robbed       \* (history) the OwnerIDs whose lock was removed on another's account

catalog == <<store, index, lock, candidates, staging>>
work == <<summary, object>>
history == <<publisher, robbed>>
vars == <<source, store, index, lock, candidates, staging, pid, at, id, summary,
          object, seen, faults, publisher, robbed>>

Version == 1..MaxVersion
Object == Package \X Version
Nothing == [k \in Package |-> 0]

\* The entries of an index that are Ready; the others are Unsupported.
Ready(idx) == {<<k, idx[k]>> : k \in {j \in Package : idx[j] # 0 /\ idx[j] \notin Broken}}

Used == {o \in OwnerId : pid[o] # None}
Alive(p) == at[p] # "dead"

\* Steps of a synchronisation: about the lock, with it, and past its work.
Taking == {"link", "drop_candidate"}
Working == {"make_staging", "own_staging", "load", "publish_object", "publish"}
Leaving == {"cleanup", "check", "unlink"}
Sweeping == {"sweep", "sweep_candidates", "recheck", "reunlink"}
Recovering == {"inspect"} \cup Sweeping

\* The OwnerID belongs to a synchronisation under way.
Active(o) == \E p \in Proc : id[p] = o /\ at[p] \in Taking \cup Working \cup Leaving

Init ==
  /\ source = [k \in Package |-> 1]
  /\ store = [x \in Object |-> "absent"]
  /\ index = Nothing
  /\ lock = None /\ candidates = {}
  /\ staging = [o \in OwnerId |-> "none"]
  /\ pid = [o \in OwnerId |-> None]
  /\ at = [p \in Proc |-> "idle"]
  /\ id = [p \in Proc |-> None]
  /\ summary = [p \in Proc |-> Nothing]
  /\ object = [p \in Proc |-> None]
  /\ seen = [p \in Proc |-> {}]
  /\ faults = 0
  /\ publisher = None /\ robbed = {}

Goto(p, step) == at' = [at EXCEPT ![p] = step]

\* The command ends, and nothing is left of it but what is in the directory.
Leave(p, step) ==
  /\ Goto(p, step)
  /\ id' = [id EXCEPT ![p] = None]
  /\ summary' = [summary EXCEPT ![p] = Nothing]
  /\ object' = [object EXCEPT ![p] = None]
  /\ seen' = [seen EXCEPT ![p] = {}]

Return(p) == Leave(p, "idle")

\* Sync is about to return: its deferred clean-up and Release run.
EndWork(p) ==
  /\ Goto(p, "cleanup")
  /\ summary' = [summary EXCEPT ![p] = Nothing]
  /\ object' = [object EXCEPT ![p] = None]

Fault == faults < MaxFaults /\ faults' = faults + 1

-----------------------------------------------------------------------------
(* Faulty variants: what the properties below are there to catch. *)

\* The candidate is renamed over the lock instead of linked to it.
LinkRenames(p) ==
  /\ at[p] = "link"
  /\ lock' = id[p]
  /\ Goto(p, "drop_candidate")
  /\ UNCHANGED <<source, store, index, candidates, staging, pid, id, work, seen, faults, history>>

\* Objects are written in place.
LoadInPlace(p) ==
  /\ at[p] = "load"
  /\ \E k \in {j \in Package : summary[p][j] = 0} :
       LET x == <<k, source[k]>>
           new == source[k] \notin Broken /\ store[x] = "absent"
       IN /\ summary' = [summary EXCEPT ![p][k] = source[k]]
          /\ IF new THEN /\ Goto(p, "publish_object")
                         /\ object' = [object EXCEPT ![p] = x]
                         /\ store' = [store EXCEPT ![x] = "partial"]
             ELSE UNCHANGED <<at, object, store>>
  /\ UNCHANGED <<source, index, lock, candidates, staging, pid, id, seen, faults, history>>

\* The lock is released although the staging directory is still there.
CleanFailsReleasing(p) ==
  /\ at[p] = "cleanup"
  /\ Goto(p, "check")
  /\ UNCHANGED <<source, catalog, pid, id, work, seen, faults, history>>

\* Recovery does not look whether owners live.
ProbeSkipped(p) ==
  /\ at[p] = "inspect"
  /\ IF lock # None \/ seen[p] # {}
     THEN /\ id' = [id EXCEPT ![p] = lock]
          /\ Goto(p, "sweep")
          /\ UNCHANGED <<work, seen>>
     ELSE Return(p)
  /\ UNCHANGED <<source, catalog, pid, faults, history>>

\* Recovery takes a lock that is not there for an empty owner record.
ProbeZero(p) ==
  /\ at[p] = "inspect"
  /\ id' = [id EXCEPT ![p] = IF lock = None THEN "" ELSE lock]
  /\ Goto(p, "sweep")
  /\ UNCHANGED <<source, catalog, pid, work, seen, faults, history>>

\* Recovery insists on the staging directory's owner record.
SweepStagingStrict(p) ==
  /\ at[p] = "sweep"
  /\ IF id[p] # None /\ staging[id[p]] # "owned"
     THEN Return(p) /\ UNCHANGED staging
     ELSE /\ staging' = [o \in OwnerId |-> IF o = id[p] THEN "none" ELSE staging[o]]
          /\ Goto(p, "sweep_candidates")
          /\ UNCHANGED <<id, work, seen>>
  /\ UNCHANGED <<source, store, index, lock, candidates, pid, faults, history>>

-----------------------------------------------------------------------------
(* acquireSyncLock *)

\* The owner record is written, synced and linked to the candidate's name.
MakeCandidate(p) ==
  /\ at[p] = "idle"
  /\ p \in Syncers
  /\ \E o \in OwnerId \ Used :
       /\ candidates' = candidates \cup {o}
       /\ pid' = [pid EXCEPT ![o] = p]
       /\ id' = [id EXCEPT ![p] = o]
  /\ Goto(p, "link")
  /\ UNCHANGED <<source, store, index, lock, staging, work, seen, faults, history>>

\* The candidate is linked to sync.lock, which must not exist.
Link(p) ==
  /\ at[p] = "link"
  /\ lock = None
  /\ lock' = id[p]
  /\ Goto(p, "drop_candidate")
  /\ UNCHANGED <<source, store, index, candidates, staging, pid, id, work, seen, faults, history>>

\* There is a lock, or an error: the synchronisation gives up, and removes its
\* candidate if it can.
LinkFails(p) ==
  /\ at[p] = "link"
  /\ candidates' \in {candidates, candidates \ {id[p]}}
  /\ Return(p)
  /\ UNCHANGED <<source, store, index, lock, staging, pid, faults, history>>

\* The candidate's name is removed; an error after that releases the lock.
DropCandidate(p) ==
  /\ at[p] = "drop_candidate"
  /\ candidates' = candidates \ {id[p]}
  /\ \/ Goto(p, "make_staging")
     \/ Goto(p, "check")
  /\ UNCHANGED <<source, store, index, lock, staging, pid, id, work, seen, faults, history>>

-----------------------------------------------------------------------------
(* Sync, with the lock *)

MakeStaging(p) ==
  /\ at[p] = "make_staging"
  /\ \/ /\ staging' = [staging EXCEPT ![id[p]] = "bare"]
        /\ Goto(p, "own_staging")
     \/ Goto(p, "check") /\ UNCHANGED staging
  /\ UNCHANGED <<source, store, index, lock, candidates, pid, id, work, seen, faults, history>>

OwnStaging(p) ==
  /\ at[p] = "own_staging"
  /\ staging' = [staging EXCEPT ![id[p]] = "owned"]
  /\ Goto(p, "load")
  /\ UNCHANGED <<source, store, index, lock, candidates, pid, id, work, seen, faults, history>>

\* loadPackage: the source is read and hashed; an object that is valid and not
\* yet in the store is written completely in the staging directory.
LoadPackage(p) ==
  /\ at[p] = "load"
  /\ \E k \in {j \in Package : summary[p][j] = 0} :
       LET x == <<k, source[k]>>
           new == source[k] \notin Broken /\ store[x] = "absent"
       IN /\ summary' = [summary EXCEPT ![p][k] = source[k]]
          /\ IF new THEN /\ Goto(p, "publish_object")
                         /\ object' = [object EXCEPT ![p] = x]
             ELSE UNCHANGED <<at, object>>
  /\ UNCHANGED <<source, catalog, pid, id, seen, faults, history>>

\* The staged directory is renamed into the store; a directory that is already
\* there makes the rename fail.
PublishObject(p) ==
  /\ at[p] = "publish_object"
  /\ store[object[p]] # "complete"
  /\ store' = [store EXCEPT ![object[p]] = "complete"]
  /\ object' = [object EXCEPT ![p] = None]
  /\ Goto(p, "load")
  /\ UNCHANGED <<source, index, lock, candidates, staging, pid, id, summary, seen, faults, history>>

\* All packages are loaded, the index is staged, and verifyStagedIndex reads the
\* record of every Ready entry from the store, which only grows.
StageIndex(p) ==
  /\ at[p] = "load"
  /\ \A k \in Package : summary[p][k] # 0
  /\ \A x \in Ready(summary[p]) : store[x] # "absent"
  /\ Goto(p, "publish")
  /\ UNCHANGED <<source, catalog, pid, id, work, seen, faults, history>>

PublishIndex(p) ==
  /\ at[p] = "publish"
  /\ index' = summary[p]
  /\ publisher' = id[p]
  /\ EndWork(p)
  /\ UNCHANGED <<source, store, lock, candidates, staging, pid, id, seen, faults, robbed>>

\* Any of these steps may fail, or the context is done.
SyncFails(p) ==
  /\ at[p] \in {"own_staging", "load", "publish_object", "publish"}
  /\ EndWork(p)
  /\ UNCHANGED <<source, catalog, pid, id, seen, faults, history>>

CleanStaging(p) ==
  /\ at[p] = "cleanup"
  /\ staging' = [staging EXCEPT ![id[p]] = "none"]
  /\ Goto(p, "check")
  /\ UNCHANGED <<source, store, index, lock, candidates, pid, id, work, seen, faults, history>>

\* RemoveAll fails, perhaps half-way: the lock stays.
CleanFails(p) ==
  /\ at[p] = "cleanup"
  /\ \/ UNCHANGED staging
     \/ staging' = [staging EXCEPT ![id[p]] = "bare"]
  /\ Return(p)
  /\ UNCHANGED <<source, store, index, lock, candidates, pid, faults, history>>

-----------------------------------------------------------------------------
(* Release, by a synchronisation or by a recovery *)

CheckOwner(p) ==
  /\ at[p] \in {"check", "recheck"}
  /\ IF lock = id[p]
     THEN /\ Goto(p, IF at[p] = "check" THEN "unlink" ELSE "reunlink")
          /\ UNCHANGED <<id, work, seen>>
     ELSE Return(p)
  /\ UNCHANGED <<source, catalog, pid, faults, history>>

\* The lock's name is removed with no second look at what is there.
Unlink(p) ==
  /\ at[p] \in {"unlink", "reunlink"}
  /\ lock' = None
  /\ robbed' = robbed \cup ({lock} \ {id[p], None})
  /\ Return(p)
  /\ UNCHANGED <<source, store, index, candidates, staging, pid, faults, publisher>>

\* The lock cannot be read or removed and stays. (For a recovery: RecoveryFails.)
ReleaseFails(p) ==
  /\ at[p] \in {"check", "unlink"}
  /\ Return(p)
  /\ UNCHANGED <<source, catalog, pid, faults, history>>

-----------------------------------------------------------------------------
(* RecoverOrphanedSync *)

DiscoverCandidates(p) ==
  /\ at[p] = "idle"
  /\ p \in Recoverers
  /\ seen' = [seen EXCEPT ![p] = candidates]
  /\ Goto(p, "inspect")
  /\ UNCHANGED <<source, catalog, pid, id, work, faults, history>>

\* The lock's owner is read, and every recorded process must be dead. (A process
\* found dead later than its record was read left nothing that the comparison of
\* Release would not tell apart, so the reads and the probes are one step.)
ProbeOwners(p) ==
  /\ at[p] = "inspect"
  /\ IF /\ lock # None \/ seen[p] # {}
        /\ \A o \in seen[p] \cup ({lock} \ {None}) : ~Alive(pid[o])
     THEN /\ id' = [id EXCEPT ![p] = lock]
          /\ Goto(p, "sweep")
          /\ UNCHANGED <<work, seen>>
     ELSE Return(p)
  /\ UNCHANGED <<source, catalog, pid, faults, history>>

\* The owner's staging directory goes, with or without its owner record.
SweepStaging(p) ==
  /\ at[p] = "sweep"
  /\ staging' = [o \in OwnerId |-> IF o = id[p] THEN "none" ELSE staging[o]]
  /\ Goto(p, "sweep_candidates")
  /\ UNCHANGED <<source, store, index, lock, candidates, pid, id, work, seen, faults, history>>

SweepCandidate(p) ==
  /\ at[p] = "sweep_candidates"
  /\ \E o \in seen[p] :
       /\ candidates' = candidates \ {o}
       /\ seen' = [seen EXCEPT ![p] = @ \ {o}]
  /\ UNCHANGED <<source, store, index, lock, staging, pid, at, id, work, faults, history>>

\* All candidates are gone; the lock is released if there was one.
CandidatesSwept(p) ==
  /\ at[p] = "sweep_candidates"
  /\ seen[p] = {}
  /\ IF id[p] = None THEN Return(p) ELSE Goto(p, "recheck") /\ UNCHANGED <<id, work, seen>>
  /\ UNCHANGED <<source, catalog, pid, faults, history>>

RecoveryFails(p) ==
  /\ at[p] \in Recovering
  /\ Fault
  /\ Return(p)
  /\ UNCHANGED <<source, catalog, pid, history>>

-----------------------------------------------------------------------------
(* The surroundings: edits of the sources, and processes *)

EditSource ==
  /\ \E k \in Package :
       source[k] < MaxVersion /\ source' = [source EXCEPT ![k] = @ + 1]
  /\ UNCHANGED <<catalog, pid, at, id, work, seen, faults, history>>

Die(p) ==
  /\ Alive(p)
  /\ Fault
  /\ Leave(p, "dead")
  /\ UNCHANGED <<source, catalog, pid, history>>

Start(p) ==
  /\ ~Alive(p)
  /\ Goto(p, "idle")
  /\ UNCHANGED <<source, catalog, pid, id, work, seen, faults, history>>

SyncStep(p) ==
  \/ Link(p) \/ LinkFails(p) \/ DropCandidate(p)
  \/ MakeStaging(p) \/ OwnStaging(p) \/ LoadPackage(p) \/ PublishObject(p)
  \/ StageIndex(p) \/ PublishIndex(p) \/ SyncFails(p)
  \/ CleanStaging(p) \/ CleanFails(p) \/ CheckOwner(p) \/ Unlink(p)
  \/ ReleaseFails(p)

RecoveryStep(p) ==
  \/ ProbeOwners(p) \/ SweepStaging(p) \/ SweepCandidate(p) \/ CandidatesSwept(p)

Next ==
  \/ \E p \in Proc :
       \/ MakeCandidate(p) \/ SyncStep(p)
       \/ DiscoverCandidates(p) \/ RecoveryStep(p) \/ RecoveryFails(p)
       \/ Die(p) \/ Start(p)
  \/ EditSource

Spec == Init /\ [][Next]_vars

\* A synchronisation under way goes on and waits for nobody, and operators repeat
\* the recovery that a refused synchronisation asks for.
FairSpec ==
  /\ Spec
  /\ \A p \in Syncers : WF_vars(SyncStep(p))
  /\ WF_vars(\E p \in Recoverers :
                \/ Start(p) \/ DiscoverCandidates(p) \/ RecoveryStep(p)
                \/ CheckOwner(p) \/ Unlink(p))

-----------------------------------------------------------------------------
(* Properties *)

TypeOK ==
  /\ source \in [Package -> Version]
  /\ store \in [Object -> {"absent", "partial", "complete"}]
  /\ index \in [Package -> 0..MaxVersion]
  /\ lock \in OwnerId \cup {None}
  /\ candidates \subseteq OwnerId
  /\ staging \in [OwnerId -> {"none", "bare", "owned"}]
  /\ pid \in [OwnerId -> Proc \cup {None}]
  /\ at \in [Proc -> {"idle", "dead"} \cup Taking \cup Working \cup Leaving \cup Recovering]
  /\ id \in [Proc -> OwnerId \cup {None}]
  /\ summary \in [Proc -> [Package -> 0..MaxVersion]]
  /\ object \in [Proc -> Object \cup {None}]
  /\ seen \in [Proc -> SUBSET OwnerId]
  /\ faults \in 0..MaxFaults
  /\ publisher \in OwnerId \cup {None}
  /\ robbed \subseteq OwnerId

\* Whatever crashes and whatever else runs, readers of the active index find
\* every Ready entry complete in the store (Sync, catalog.go:223-247; "a crash
\* cannot expose a partial catalog", docs/specs/0003:34).
IndexComplete == \A x \in Ready(index) : store[x] = "complete"

\* A synchronisation never publishes an older version of a package than the one
\* that is published ("concurrent writers cannot publish competing indexes",
\* docs/specs/0003:36), unless one of the two publishers lost the lock to a
\* recovery that compared it before somebody else removed its orphan.
IndexAdvances ==
  [][\/ \A k \in Package : index'[k] >= index[k]
     \/ {publisher, publisher'} \cap robbed # {}]_index

\* Whatever a synchronisation leaves in the staging area, the lock still names
\* it, so that recovery can find it (Sync's deferred cleanup, catalog.go:156-162,
\* and the order of RecoverOrphanedSync), unless its lock was taken from it.
StagingIsReachable ==
  \A o \in OwnerId : staging[o] # "none" => lock = o \/ o \in robbed

\* The lock of the catalog keeps the promise of an ownership, across crashes,
\* recoveries that overlap and reuse of PIDs: who does the work of a
\* synchronisation owns the lock or was robbed of it, and a lock is only removed
\* on the account of a synchronisation that is past its work.
Abandoned(o) == o \in Used /\ ~Active(o)

Ownership ==
  INSTANCE MirrorOwnership WITH
    Attempt <- OwnerId,
    holders <- {lock} \ {None},
    running <- {id[p] : p \in {q \in Proc : at[q] \in Working}},
    gone <- {o \in OwnerId : Abandoned(o)},
    judged <- {id[p] : p \in {q \in Proc : at[q] \in {"unlink", "reunlink"}}}

ImplementsOwnership == Ownership!Spec

\* What a synchronisation has left is removed in the end, unless its lock was
\* taken from it, or the PID of one that left something is in use again
\* (RecoverOrphanedSync).
LeftOver(o) ==
  /\ lock = o \/ o \in candidates \/ staging[o] # "none"
  /\ ~Active(o)

OrphansRecovered ==
  \A o \in OwnerId :
    LeftOver(o) ~> \/ ~LeftOver(o) \/ o \in robbed
                   \/ \E c \in OwnerId : LeftOver(c) /\ Alive(pid[c])
=============================================================================
