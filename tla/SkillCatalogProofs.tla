------------------------- MODULE SkillCatalogProofs -------------------------
(***************************************************************************)
(* Theorems about the Skill Catalog, for any processes, OwnerIDs, packages *)
(* and versions, any versions that fail validation and any number of       *)
(* faults, with synchronisations and recoveries that overlap in any way.   *)
(* A recovery compares the lock's OwnerID and removes the lock in two      *)
(* steps, so what rests on the lock holds up to the synchronisations that  *)
(* were robbed of it; that the active index is complete does not rest on   *)
(* the lock.                                                               *)
(***************************************************************************)
EXTENDS SkillCatalog, TLAPS

Steps == {"idle", "dead"} \cup Taking \cup Working \cup Leaving \cup Recovering

\* The steps with the lock; before anything is loaded; with nothing staged.
Holding == {"drop_candidate"} \cup Working \cup Leaving
Fresh == {"idle", "dead"} \cup Taking \cup {"make_staging", "own_staging"}
Clean == Taking \cup {"make_staging", "check", "unlink"}

\* Objects appear whole, and an index is published once its objects are there.
StoreInv ==
  /\ \A x \in Object : store[x] # "partial"
  /\ \A p \in Proc :
       at[p] = "publish" => \A x \in Ready(summary[p]) : store[x] = "complete"
  /\ IndexComplete

\* The OwnerID of a synchronisation is its own.
IdInv ==
  \A p \in Proc :
    at[p] \in Taking \cup Working \cup Leaving => id[p] \in OwnerId /\ pid[id[p]] = p

\* Somebody made the lock, and who has taken it still finds its own or was robbed;
\* a lock that was removed does not come back.
LockInv ==
  /\ lock # None => lock \in Used
  /\ \A o \in robbed : o \in Used /\ lock # o
  /\ \A p \in Proc : at[p] \in Holding => lock = id[p] \/ id[p] \in robbed
  /\ \A p \in Proc : at[p] = "link" => id[p] \notin robbed /\ lock # id[p]

\* After the probe the synchronisation that a recovery found is over, for good.
RecoveryInv ==
  /\ \A p \in Proc : at[p] \in Sweeping /\ id[p] # None => Abandoned(id[p])
  /\ \A p \in Proc : at[p] \in {"recheck", "reunlink"} => id[p] # None

\* A lock is only released on the account of an owner with nothing staged.
StagingInv ==
  /\ StagingIsReachable
  /\ \A p \in Proc : at[p] \in Clean => staging[id[p]] = "none"
  /\ \A p \in Proc :
       at[p] \in Sweeping \ {"sweep"} /\ id[p] # None => staging[id[p]] = "none"

\* What a synchronisation has loaded is no older than what is published, which
\* only changes by its own hand while it works, or by a robbed one's.
IndexInv ==
  /\ \A k \in Package : index[k] <= source[k]
  /\ \A p \in Proc, k \in Package : summary[p][k] <= source[k]
  /\ \A p \in Proc : at[p] \in Fresh => summary[p] = Nothing
  /\ \A p \in Proc :
       at[p] = "publish" => \A k \in Package : summary[p][k] # 0
  /\ \A p \in Proc, k \in Package :
       at[p] \in Working /\ summary[p][k] # 0
         => index[k] <= summary[p][k] \/ {id[p], publisher} \cap robbed # {}

IInv == TypeOK /\ IdInv /\ LockInv /\ RecoveryInv /\ StagingInv /\ IndexInv

-----------------------------------------------------------------------------

\* A command that ends leaves its variables typed.
LEMMA LeaveType ==
  ASSUME TypeOK, NEW p \in Proc, NEW step \in {"idle", "dead"}, Leave(p, step)
  PROVE  /\ at' \in [Proc -> Steps]
         /\ id' \in [Proc -> OwnerId \cup {None}]
         /\ summary' \in [Proc -> [Package -> 0..MaxVersion]]
         /\ object' \in [Proc -> Object \cup {None}]
         /\ seen' \in [Proc -> SUBSET OwnerId]
<1>1. Nothing \in [Package -> 0..MaxVersion]
  BY ConstantsAssumption DEF Nothing
<1>2. step \in Steps
  BY DEF Steps
<1>3. at \in [Proc -> Steps]
  BY DEF TypeOK, Steps
<1>4. QED
  BY <1>1, <1>2, <1>3 DEF TypeOK, Leave, Goto

\* So does a synchronisation whose work ends.
LEMMA EndWorkType ==
  ASSUME TypeOK, NEW p \in Proc, EndWork(p)
  PROVE  /\ at' \in [Proc -> Steps]
         /\ summary' \in [Proc -> [Package -> 0..MaxVersion]]
         /\ object' \in [Proc -> Object \cup {None}]
<1>1. Nothing \in [Package -> 0..MaxVersion]
  BY ConstantsAssumption DEF Nothing
<1>2. at \in [Proc -> Steps] /\ "cleanup" \in Steps
  BY DEF TypeOK, Steps, Leaving
<1>3. QED
  BY <1>1, <1>2 DEF TypeOK, EndWork, Goto

\* Every step keeps the shape of the variables.
LEMMA TypeStep ==
  TypeOK /\ [Next]_vars => TypeOK'
<1> SUFFICES ASSUME TypeOK, [Next]_vars PROVE TypeOK'
  OBVIOUS
<1> USE ConstantsAssumption
    DEF TypeOK, Goto, Steps, catalog, work, history, Fault, Taking, Working, Leaving,
        Sweeping, Recovering
<1>1. ASSUME NEW p \in Proc, MakeCandidate(p) PROVE TypeOK'
  <2>1. PICK o \in OwnerId \ Used : /\ candidates' = candidates \cup {o}
                                    /\ pid' = [pid EXCEPT ![o] = p]
                                    /\ id' = [id EXCEPT ![p] = o]
    BY <1>1 DEF MakeCandidate
  <2>2. /\ candidates' \subseteq OwnerId
        /\ pid' \in [OwnerId -> Proc \cup {None}]
        /\ id' \in [Proc -> OwnerId \cup {None}]
    BY <2>1
  <2>3. QED
    BY <1>1, <2>2 DEF MakeCandidate
<1>2. ASSUME NEW p \in Proc, Link(p) PROVE TypeOK'
  BY <1>2 DEF Link
<1>3. ASSUME NEW p \in Proc, LinkFails(p) PROVE TypeOK'
  BY <1>3, LeaveType DEF LinkFails, Return
<1>4. ASSUME NEW p \in Proc, DropCandidate(p) PROVE TypeOK'
  <2>1. at' \in [Proc -> Steps] /\ candidates' \subseteq OwnerId
    BY <1>4 DEF DropCandidate
  <2>2. QED
    BY <1>4, <2>1 DEF DropCandidate
<1>5. ASSUME NEW p \in Proc, MakeStaging(p) PROVE TypeOK'
  <2>1. at' \in [Proc -> Steps]
    <3>1. \E step \in Steps : at' = [at EXCEPT ![p] = step]
      BY <1>5 DEF MakeStaging
    <3>2. QED
      BY <3>1
  <2>2. staging' \in [OwnerId -> {"none", "bare", "owned"}]
    BY <1>5 DEF MakeStaging
  <2>3. QED
    BY <1>5, <2>1, <2>2 DEF MakeStaging
<1>6. ASSUME NEW p \in Proc, OwnStaging(p) PROVE TypeOK'
  BY <1>6 DEF OwnStaging
<1>7. ASSUME NEW p \in Proc, LoadPackage(p) PROVE TypeOK'
  <2>1. PICK k \in Package :
          /\ summary' = [summary EXCEPT ![p][k] = source[k]]
          /\ \/ /\ Goto(p, "publish_object")
                /\ object' = [object EXCEPT ![p] = <<k, source[k]>>]
             \/ UNCHANGED <<at, object>>
    BY <1>7 DEF LoadPackage
  <2>2. source[k] \in 0..MaxVersion /\ <<k, source[k]>> \in Object
    BY DEF Object, Version
  <2>3. summary' \in [Proc -> [Package -> 0..MaxVersion]]
    BY <2>1, <2>2
  <2>4. object' \in [Proc -> Object \cup {None}]
    <3>1. CASE UNCHANGED object
      BY <3>1
    <3>2. CASE object' = [object EXCEPT ![p] = <<k, source[k]>>]
      <4>1. PICK x \in Object : x = <<k, source[k]>>
        BY <2>2
      <4>2. object' = [object EXCEPT ![p] = x]
        BY <3>2, <4>1
      <4>3. QED
        BY <4>2
    <3>3. QED
      BY <2>1, <3>1, <3>2
  <2>5. at' \in [Proc -> Steps]
    BY <2>1
  <2>6. QED
    BY <1>7, <2>3, <2>4, <2>5 DEF LoadPackage
<1>8. ASSUME NEW p \in Proc, PublishObject(p) PROVE TypeOK'
  BY <1>8 DEF PublishObject, Object
<1>9. ASSUME NEW p \in Proc, StageIndex(p) PROVE TypeOK'
  BY <1>9 DEF StageIndex
<1>10. ASSUME NEW p \in Proc, PublishIndex(p) PROVE TypeOK'
  BY <1>10, EndWorkType DEF PublishIndex
<1>11. ASSUME NEW p \in Proc, SyncFails(p) PROVE TypeOK'
  BY <1>11, EndWorkType DEF SyncFails
<1>12. ASSUME NEW p \in Proc, CleanStaging(p) PROVE TypeOK'
  BY <1>12 DEF CleanStaging
<1>13. ASSUME NEW p \in Proc, CleanFails(p) PROVE TypeOK'
  <2>1. staging' \in [OwnerId -> {"none", "bare", "owned"}]
    BY <1>13 DEF CleanFails
  <2>2. QED
    BY <1>13, <2>1, LeaveType DEF CleanFails, Return
<1>14. ASSUME NEW p \in Proc, CheckOwner(p) PROVE TypeOK'
  BY <1>14, LeaveType DEF CheckOwner, Return
<1>15. ASSUME NEW p \in Proc, Unlink(p) PROVE TypeOK'
  BY <1>15, LeaveType DEF Unlink, Return
<1>16. ASSUME NEW p \in Proc, ReleaseFails(p) PROVE TypeOK'
  BY <1>16, LeaveType DEF ReleaseFails, Return
<1>17. ASSUME NEW p \in Proc, DiscoverCandidates(p) PROVE TypeOK'
  BY <1>17 DEF DiscoverCandidates
<1>18. ASSUME NEW p \in Proc, ProbeOwners(p) PROVE TypeOK'
  <2>1. CASE Return(p)
    BY <1>18, <2>1, LeaveType DEF ProbeOwners, Return
  <2>2. CASE Goto(p, "sweep") /\ id' = [id EXCEPT ![p] = lock] /\ UNCHANGED <<work, seen>>
    BY <1>18, <2>2 DEF ProbeOwners
  <2>3. QED
    BY <1>18, <2>1, <2>2 DEF ProbeOwners
<1>19. ASSUME NEW p \in Proc, SweepStaging(p) PROVE TypeOK'
  BY <1>19 DEF SweepStaging
<1>20. ASSUME NEW p \in Proc, SweepCandidate(p) PROVE TypeOK'
  BY <1>20 DEF SweepCandidate
<1>21. ASSUME NEW p \in Proc, CandidatesSwept(p) PROVE TypeOK'
  BY <1>21, LeaveType DEF CandidatesSwept, Return
<1>22. ASSUME NEW p \in Proc, RecoveryFails(p) PROVE TypeOK'
  BY <1>22, LeaveType DEF RecoveryFails, Return
<1>23. ASSUME NEW p \in Proc, Die(p) PROVE TypeOK'
  BY <1>23, LeaveType DEF Die
<1>24. ASSUME NEW p \in Proc, Start(p) PROVE TypeOK'
  BY <1>24 DEF Start
<1>25. CASE EditSource
  BY <1>25 DEF EditSource, Version
<1>26. CASE UNCHANGED vars
  BY <1>26 DEF vars
<1>27. QED
  BY <1>1, <1>2, <1>3, <1>4, <1>5, <1>6, <1>7, <1>8, <1>9, <1>10, <1>11, <1>12,
     <1>13, <1>14, <1>15, <1>16, <1>17, <1>18, <1>19, <1>20, <1>21, <1>22,
     <1>23, <1>24, <1>25, <1>26
     DEF Next, SyncStep, RecoveryStep

\* Only PublishObject changes the store, in one step, and only PublishIndex the
\* index, after StageIndex has found the objects.
LEMMA StoreStep ==
  TypeOK /\ StoreInv /\ [Next]_vars => StoreInv'
<1> SUFFICES ASSUME TypeOK, StoreInv, [Next]_vars PROVE StoreInv'
  OBVIOUS
<1> USE ConstantsAssumption
    DEF TypeOK, Goto, Leave, Return, EndWork, catalog, work, history, Taking,
        Working, Leaving, Sweeping, Recovering, StoreInv, IndexComplete, Ready,
        Object,
        Version
<1>1. ASSUME NEW p \in Proc, MakeCandidate(p) PROVE StoreInv'
  BY <1>1 DEF MakeCandidate
<1>2. ASSUME NEW p \in Proc, Link(p) PROVE StoreInv'
  BY <1>2 DEF Link
<1>3. ASSUME NEW p \in Proc, LinkFails(p) PROVE StoreInv'
  BY <1>3 DEF LinkFails
<1>4. ASSUME NEW p \in Proc, DropCandidate(p) PROVE StoreInv'
  <2>1. CASE Goto(p, "make_staging")
    BY <1>4, <2>1 DEF DropCandidate
  <2>2. CASE Goto(p, "check")
    BY <1>4, <2>2 DEF DropCandidate
  <2>3. QED
    BY <1>4, <2>1, <2>2 DEF DropCandidate
<1>5. ASSUME NEW p \in Proc, MakeStaging(p) PROVE StoreInv'
  <2>1. CASE Goto(p, "own_staging")
    BY <1>5, <2>1 DEF MakeStaging
  <2>2. CASE Goto(p, "check")
    BY <1>5, <2>2 DEF MakeStaging
  <2>3. QED
    BY <1>5, <2>1, <2>2 DEF MakeStaging
<1>6. ASSUME NEW p \in Proc, OwnStaging(p) PROVE StoreInv'
  BY <1>6 DEF OwnStaging
<1>7. ASSUME NEW p \in Proc, LoadPackage(p) PROVE StoreInv'
  BY <1>7 DEF LoadPackage
<1>8. ASSUME NEW p \in Proc, PublishObject(p) PROVE StoreInv'
  BY <1>8 DEF PublishObject
<1>9. ASSUME NEW p \in Proc, StageIndex(p) PROVE StoreInv'
  BY <1>9 DEF StageIndex
<1>10. ASSUME NEW p \in Proc, PublishIndex(p) PROVE StoreInv'
  BY <1>10 DEF PublishIndex
<1>11. ASSUME NEW p \in Proc, SyncFails(p) PROVE StoreInv'
  BY <1>11 DEF SyncFails
<1>12. ASSUME NEW p \in Proc, CleanStaging(p) PROVE StoreInv'
  BY <1>12 DEF CleanStaging
<1>13. ASSUME NEW p \in Proc, CleanFails(p) PROVE StoreInv'
  BY <1>13 DEF CleanFails
<1>14. ASSUME NEW p \in Proc, CheckOwner(p) PROVE StoreInv'
  <2>1. at[p] \in {"check", "recheck"} /\ UNCHANGED <<source, catalog, pid, history>>
    BY <1>14 DEF CheckOwner
  <2>2. CASE Return(p)
    BY <2>1, <2>2
  <2>3. CASE /\ lock = id[p]
             /\ Goto(p, IF at[p] = "check" THEN "unlink" ELSE "reunlink")
             /\ UNCHANGED <<id, work, seen>>
    BY <2>1, <2>3
  <2>4. QED
    BY <1>14, <2>2, <2>3 DEF CheckOwner
<1>15. ASSUME NEW p \in Proc, Unlink(p) PROVE StoreInv'
  BY <1>15 DEF Unlink
<1>16. ASSUME NEW p \in Proc, ReleaseFails(p) PROVE StoreInv'
  BY <1>16 DEF ReleaseFails
<1>17. ASSUME NEW p \in Proc, DiscoverCandidates(p) PROVE StoreInv'
  BY <1>17 DEF DiscoverCandidates
<1>18. ASSUME NEW p \in Proc, ProbeOwners(p) PROVE StoreInv'
  <2>1. at[p] \in {"inspect"} /\ UNCHANGED <<source, catalog, pid, history>>
    BY <1>18 DEF ProbeOwners
  <2>2. CASE Return(p)
    BY <2>1, <2>2
  <2>3. CASE /\ (\A o \in seen[p] \cup ({lock} \ {None}) : ~Alive(pid[o]))
             /\ id' = [id EXCEPT ![p] = lock]
             /\ Goto(p, "sweep")
             /\ UNCHANGED <<work, seen>>
    BY <2>1, <2>3
  <2>4. QED
    BY <1>18, <2>2, <2>3 DEF ProbeOwners
<1>19. ASSUME NEW p \in Proc, SweepStaging(p) PROVE StoreInv'
  BY <1>19 DEF SweepStaging
<1>20. ASSUME NEW p \in Proc, SweepCandidate(p) PROVE StoreInv'
  BY <1>20 DEF SweepCandidate
<1>21. ASSUME NEW p \in Proc, CandidatesSwept(p) PROVE StoreInv'
  <2>1. at[p] \in {"sweep_candidates"} /\ UNCHANGED <<source, catalog, pid, history>>
    BY <1>21 DEF CandidatesSwept
  <2>2. CASE Return(p)
    BY <2>1, <2>2
  <2>3. CASE id[p] # None /\ Goto(p, "recheck") /\ UNCHANGED <<id, work, seen>>
    BY <2>1, <2>3
  <2>4. QED
    BY <1>21, <2>2, <2>3 DEF CandidatesSwept
<1>22. ASSUME NEW p \in Proc, RecoveryFails(p) PROVE StoreInv'
  BY <1>22 DEF RecoveryFails
<1>23. ASSUME NEW p \in Proc, Die(p) PROVE StoreInv'
  BY <1>23 DEF Die
<1>24. ASSUME NEW p \in Proc, Start(p) PROVE StoreInv'
  BY <1>24 DEF Start
<1>25. CASE EditSource
  BY <1>25 DEF EditSource
<1>26. CASE UNCHANGED vars
  BY <1>26 DEF vars
<1>27. QED
  BY <1>1, <1>2, <1>3, <1>4, <1>5, <1>6, <1>7, <1>8, <1>9, <1>10, <1>11, <1>12,
     <1>13, <1>14, <1>15, <1>16, <1>17, <1>18, <1>19, <1>20, <1>21, <1>22,
     <1>23, <1>24, <1>25, <1>26
     DEF Next, SyncStep, RecoveryStep

\* A synchronisation draws an OwnerID that nobody has drawn before.
LEMMA IdStep ==
  TypeOK /\ IdInv /\ [Next]_vars => IdInv'
<1> SUFFICES ASSUME TypeOK, IdInv, [Next]_vars PROVE IdInv'
  OBVIOUS
<1> USE ConstantsAssumption
    DEF TypeOK, Goto, Leave, Return, EndWork, catalog, work, history, Taking,
        Working, Leaving, Sweeping, Recovering, IdInv
<1>1. ASSUME NEW p \in Proc, MakeCandidate(p) PROVE IdInv'
  BY <1>1 DEF MakeCandidate, Used
<1>2. ASSUME NEW p \in Proc, Link(p) PROVE IdInv'
  BY <1>2 DEF Link
<1>3. ASSUME NEW p \in Proc, LinkFails(p) PROVE IdInv'
  BY <1>3 DEF LinkFails
<1>4. ASSUME NEW p \in Proc, DropCandidate(p) PROVE IdInv'
  <2>1. CASE Goto(p, "make_staging")
    BY <1>4, <2>1 DEF DropCandidate
  <2>2. CASE Goto(p, "check")
    BY <1>4, <2>2 DEF DropCandidate
  <2>3. QED
    BY <1>4, <2>1, <2>2 DEF DropCandidate
<1>5. ASSUME NEW p \in Proc, MakeStaging(p) PROVE IdInv'
  <2>1. CASE Goto(p, "own_staging")
    BY <1>5, <2>1 DEF MakeStaging
  <2>2. CASE Goto(p, "check")
    BY <1>5, <2>2 DEF MakeStaging
  <2>3. QED
    BY <1>5, <2>1, <2>2 DEF MakeStaging
<1>6. ASSUME NEW p \in Proc, OwnStaging(p) PROVE IdInv'
  BY <1>6 DEF OwnStaging
<1>7. ASSUME NEW p \in Proc, LoadPackage(p) PROVE IdInv'
  BY <1>7 DEF LoadPackage
<1>8. ASSUME NEW p \in Proc, PublishObject(p) PROVE IdInv'
  BY <1>8 DEF PublishObject
<1>9. ASSUME NEW p \in Proc, StageIndex(p) PROVE IdInv'
  BY <1>9 DEF StageIndex
<1>10. ASSUME NEW p \in Proc, PublishIndex(p) PROVE IdInv'
  BY <1>10 DEF PublishIndex
<1>11. ASSUME NEW p \in Proc, SyncFails(p) PROVE IdInv'
  BY <1>11 DEF SyncFails
<1>12. ASSUME NEW p \in Proc, CleanStaging(p) PROVE IdInv'
  BY <1>12 DEF CleanStaging
<1>13. ASSUME NEW p \in Proc, CleanFails(p) PROVE IdInv'
  BY <1>13 DEF CleanFails
<1>14. ASSUME NEW p \in Proc, CheckOwner(p) PROVE IdInv'
  <2>1. at[p] \in {"check", "recheck"} /\ UNCHANGED <<source, catalog, pid, history>>
    BY <1>14 DEF CheckOwner
  <2>2. CASE Return(p)
    BY <2>1, <2>2
  <2>3. CASE /\ lock = id[p]
             /\ Goto(p, IF at[p] = "check" THEN "unlink" ELSE "reunlink")
             /\ UNCHANGED <<id, work, seen>>
    BY <2>1, <2>3
  <2>4. QED
    BY <1>14, <2>2, <2>3 DEF CheckOwner
<1>15. ASSUME NEW p \in Proc, Unlink(p) PROVE IdInv'
  BY <1>15 DEF Unlink
<1>16. ASSUME NEW p \in Proc, ReleaseFails(p) PROVE IdInv'
  BY <1>16 DEF ReleaseFails
<1>17. ASSUME NEW p \in Proc, DiscoverCandidates(p) PROVE IdInv'
  BY <1>17 DEF DiscoverCandidates
<1>18. ASSUME NEW p \in Proc, ProbeOwners(p) PROVE IdInv'
  <2>1. at[p] \in {"inspect"} /\ UNCHANGED <<source, catalog, pid, history>>
    BY <1>18 DEF ProbeOwners
  <2>2. CASE Return(p)
    BY <2>1, <2>2
  <2>3. CASE /\ (\A o \in seen[p] \cup ({lock} \ {None}) : ~Alive(pid[o]))
             /\ id' = [id EXCEPT ![p] = lock]
             /\ Goto(p, "sweep")
             /\ UNCHANGED <<work, seen>>
    BY <2>1, <2>3
  <2>4. QED
    BY <1>18, <2>2, <2>3 DEF ProbeOwners
<1>19. ASSUME NEW p \in Proc, SweepStaging(p) PROVE IdInv'
  BY <1>19 DEF SweepStaging
<1>20. ASSUME NEW p \in Proc, SweepCandidate(p) PROVE IdInv'
  BY <1>20 DEF SweepCandidate
<1>21. ASSUME NEW p \in Proc, CandidatesSwept(p) PROVE IdInv'
  <2>1. at[p] \in {"sweep_candidates"} /\ UNCHANGED <<source, catalog, pid, history>>
    BY <1>21 DEF CandidatesSwept
  <2>2. CASE Return(p)
    BY <2>1, <2>2
  <2>3. CASE id[p] # None /\ Goto(p, "recheck") /\ UNCHANGED <<id, work, seen>>
    BY <2>1, <2>3
  <2>4. QED
    BY <1>21, <2>2, <2>3 DEF CandidatesSwept
<1>22. ASSUME NEW p \in Proc, RecoveryFails(p) PROVE IdInv'
  BY <1>22 DEF RecoveryFails
<1>23. ASSUME NEW p \in Proc, Die(p) PROVE IdInv'
  BY <1>23 DEF Die
<1>24. ASSUME NEW p \in Proc, Start(p) PROVE IdInv'
  BY <1>24 DEF Start, Alive
<1>25. CASE EditSource
  BY <1>25 DEF EditSource
<1>26. CASE UNCHANGED vars
  BY <1>26 DEF vars
<1>27. QED
  BY <1>1, <1>2, <1>3, <1>4, <1>5, <1>6, <1>7, <1>8, <1>9, <1>10, <1>11, <1>12,
     <1>13, <1>14, <1>15, <1>16, <1>17, <1>18, <1>19, <1>20, <1>21, <1>22,
     <1>23, <1>24, <1>25, <1>26
     DEF Next, SyncStep, RecoveryStep

\* Linking needs a free name; unlinking is done by an owner, or by a recovery whose
\* orphan is over, and robs whoever else is there.
LEMMA LockStep ==
  TypeOK /\ IdInv /\ LockInv /\ RecoveryInv /\ [Next]_vars => LockInv'
<1> SUFFICES ASSUME TypeOK, IdInv, LockInv, RecoveryInv, [Next]_vars PROVE LockInv'
  OBVIOUS
<1> USE ConstantsAssumption
    DEF TypeOK, Goto, Leave, Return, EndWork, catalog, work, history, Taking,
        Working, Leaving, Sweeping, Recovering, IdInv, LockInv, RecoveryInv,
        Holding, Used,
        Abandoned, Active
<1>1. ASSUME NEW p \in Proc, MakeCandidate(p) PROVE LockInv'
  BY <1>1 DEF MakeCandidate
<1>2. ASSUME NEW p \in Proc, Link(p) PROVE LockInv'
  BY <1>2 DEF Link
<1>3. ASSUME NEW p \in Proc, LinkFails(p) PROVE LockInv'
  BY <1>3 DEF LinkFails
<1>4. ASSUME NEW p \in Proc, DropCandidate(p) PROVE LockInv'
  <2>1. CASE Goto(p, "make_staging")
    BY <1>4, <2>1 DEF DropCandidate
  <2>2. CASE Goto(p, "check")
    BY <1>4, <2>2 DEF DropCandidate
  <2>3. QED
    BY <1>4, <2>1, <2>2 DEF DropCandidate
<1>5. ASSUME NEW p \in Proc, MakeStaging(p) PROVE LockInv'
  <2>1. CASE Goto(p, "own_staging")
    BY <1>5, <2>1 DEF MakeStaging
  <2>2. CASE Goto(p, "check")
    BY <1>5, <2>2 DEF MakeStaging
  <2>3. QED
    BY <1>5, <2>1, <2>2 DEF MakeStaging
<1>6. ASSUME NEW p \in Proc, OwnStaging(p) PROVE LockInv'
  BY <1>6 DEF OwnStaging
<1>7. ASSUME NEW p \in Proc, LoadPackage(p) PROVE LockInv'
  BY <1>7 DEF LoadPackage
<1>8. ASSUME NEW p \in Proc, PublishObject(p) PROVE LockInv'
  BY <1>8 DEF PublishObject
<1>9. ASSUME NEW p \in Proc, StageIndex(p) PROVE LockInv'
  BY <1>9 DEF StageIndex
<1>10. ASSUME NEW p \in Proc, PublishIndex(p) PROVE LockInv'
  BY <1>10 DEF PublishIndex
<1>11. ASSUME NEW p \in Proc, SyncFails(p) PROVE LockInv'
  BY <1>11 DEF SyncFails
<1>12. ASSUME NEW p \in Proc, CleanStaging(p) PROVE LockInv'
  BY <1>12 DEF CleanStaging
<1>13. ASSUME NEW p \in Proc, CleanFails(p) PROVE LockInv'
  BY <1>13 DEF CleanFails
<1>14. ASSUME NEW p \in Proc, CheckOwner(p) PROVE LockInv'
  <2>1. at[p] \in {"check", "recheck"} /\ UNCHANGED <<source, catalog, pid, history>>
    BY <1>14 DEF CheckOwner
  <2>2. CASE Return(p)
    BY <2>1, <2>2
  <2>3. CASE /\ lock = id[p]
             /\ Goto(p, IF at[p] = "check" THEN "unlink" ELSE "reunlink")
             /\ UNCHANGED <<id, work, seen>>
    BY <2>1, <2>3
  <2>4. QED
    BY <1>14, <2>2, <2>3 DEF CheckOwner
<1>15. ASSUME NEW p \in Proc, Unlink(p) PROVE LockInv'
  BY <1>15 DEF Unlink
<1>16. ASSUME NEW p \in Proc, ReleaseFails(p) PROVE LockInv'
  BY <1>16 DEF ReleaseFails
<1>17. ASSUME NEW p \in Proc, DiscoverCandidates(p) PROVE LockInv'
  BY <1>17 DEF DiscoverCandidates
<1>18. ASSUME NEW p \in Proc, ProbeOwners(p) PROVE LockInv'
  <2>1. at[p] \in {"inspect"} /\ UNCHANGED <<source, catalog, pid, history>>
    BY <1>18 DEF ProbeOwners
  <2>2. CASE Return(p)
    BY <2>1, <2>2
  <2>3. CASE /\ (\A o \in seen[p] \cup ({lock} \ {None}) : ~Alive(pid[o]))
             /\ id' = [id EXCEPT ![p] = lock]
             /\ Goto(p, "sweep")
             /\ UNCHANGED <<work, seen>>
    BY <2>1, <2>3
  <2>4. QED
    BY <1>18, <2>2, <2>3 DEF ProbeOwners
<1>19. ASSUME NEW p \in Proc, SweepStaging(p) PROVE LockInv'
  BY <1>19 DEF SweepStaging
<1>20. ASSUME NEW p \in Proc, SweepCandidate(p) PROVE LockInv'
  BY <1>20 DEF SweepCandidate
<1>21. ASSUME NEW p \in Proc, CandidatesSwept(p) PROVE LockInv'
  <2>1. at[p] \in {"sweep_candidates"} /\ UNCHANGED <<source, catalog, pid, history>>
    BY <1>21 DEF CandidatesSwept
  <2>2. CASE Return(p)
    BY <2>1, <2>2
  <2>3. CASE id[p] # None /\ Goto(p, "recheck") /\ UNCHANGED <<id, work, seen>>
    BY <2>1, <2>3
  <2>4. QED
    BY <1>21, <2>2, <2>3 DEF CandidatesSwept
<1>22. ASSUME NEW p \in Proc, RecoveryFails(p) PROVE LockInv'
  BY <1>22 DEF RecoveryFails
<1>23. ASSUME NEW p \in Proc, Die(p) PROVE LockInv'
  BY <1>23 DEF Die
<1>24. ASSUME NEW p \in Proc, Start(p) PROVE LockInv'
  BY <1>24 DEF Start
<1>25. CASE EditSource
  BY <1>25 DEF EditSource
<1>26. CASE UNCHANGED vars
  BY <1>26 DEF vars
<1>27. QED
  BY <1>1, <1>2, <1>3, <1>4, <1>5, <1>6, <1>7, <1>8, <1>9, <1>10, <1>11, <1>12,
     <1>13, <1>14, <1>15, <1>16, <1>17, <1>18, <1>19, <1>20, <1>21, <1>22,
     <1>23, <1>24, <1>25, <1>26
     DEF Next, SyncStep, RecoveryStep

\* An OwnerID that was abandoned is never used again.
LEMMA RecoveryInvStep ==
  TypeOK /\ IdInv /\ LockInv /\ RecoveryInv /\ [Next]_vars => RecoveryInv'
<1> SUFFICES ASSUME TypeOK, IdInv, LockInv, RecoveryInv, [Next]_vars
             PROVE  RecoveryInv'
  OBVIOUS
<1> USE ConstantsAssumption
    DEF TypeOK, Goto, Leave, Return, EndWork, catalog, work, history, Taking,
        Working, Leaving, Sweeping, Recovering, IdInv, LockInv, RecoveryInv, Used,
        Abandoned,
        Active, Alive
<1>1. ASSUME NEW p \in Proc, MakeCandidate(p) PROVE RecoveryInv'
  BY <1>1 DEF MakeCandidate
<1>2. ASSUME NEW p \in Proc, Link(p) PROVE RecoveryInv'
  BY <1>2 DEF Link
<1>3. ASSUME NEW p \in Proc, LinkFails(p) PROVE RecoveryInv'
  BY <1>3 DEF LinkFails
<1>4. ASSUME NEW p \in Proc, DropCandidate(p) PROVE RecoveryInv'
  <2>1. CASE Goto(p, "make_staging")
    BY <1>4, <2>1 DEF DropCandidate
  <2>2. CASE Goto(p, "check")
    BY <1>4, <2>2 DEF DropCandidate
  <2>3. QED
    BY <1>4, <2>1, <2>2 DEF DropCandidate
<1>5. ASSUME NEW p \in Proc, MakeStaging(p) PROVE RecoveryInv'
  <2>1. CASE Goto(p, "own_staging")
    BY <1>5, <2>1 DEF MakeStaging
  <2>2. CASE Goto(p, "check")
    BY <1>5, <2>2 DEF MakeStaging
  <2>3. QED
    BY <1>5, <2>1, <2>2 DEF MakeStaging
<1>6. ASSUME NEW p \in Proc, OwnStaging(p) PROVE RecoveryInv'
  BY <1>6 DEF OwnStaging
<1>7. ASSUME NEW p \in Proc, LoadPackage(p) PROVE RecoveryInv'
  BY <1>7 DEF LoadPackage
<1>8. ASSUME NEW p \in Proc, PublishObject(p) PROVE RecoveryInv'
  BY <1>8 DEF PublishObject
<1>9. ASSUME NEW p \in Proc, StageIndex(p) PROVE RecoveryInv'
  BY <1>9 DEF StageIndex
<1>10. ASSUME NEW p \in Proc, PublishIndex(p) PROVE RecoveryInv'
  BY <1>10 DEF PublishIndex
<1>11. ASSUME NEW p \in Proc, SyncFails(p) PROVE RecoveryInv'
  BY <1>11 DEF SyncFails
<1>12. ASSUME NEW p \in Proc, CleanStaging(p) PROVE RecoveryInv'
  BY <1>12 DEF CleanStaging
<1>13. ASSUME NEW p \in Proc, CleanFails(p) PROVE RecoveryInv'
  BY <1>13 DEF CleanFails
<1>14. ASSUME NEW p \in Proc, CheckOwner(p) PROVE RecoveryInv'
  <2>1. at[p] \in {"check", "recheck"} /\ UNCHANGED <<source, catalog, pid, history>>
    BY <1>14 DEF CheckOwner
  <2>2. CASE Return(p)
    BY <2>1, <2>2
  <2>3. CASE /\ lock = id[p]
             /\ Goto(p, IF at[p] = "check" THEN "unlink" ELSE "reunlink")
             /\ UNCHANGED <<id, work, seen>>
    BY <2>1, <2>3
  <2>4. QED
    BY <1>14, <2>2, <2>3 DEF CheckOwner
<1>15. ASSUME NEW p \in Proc, Unlink(p) PROVE RecoveryInv'
  BY <1>15 DEF Unlink
<1>16. ASSUME NEW p \in Proc, ReleaseFails(p) PROVE RecoveryInv'
  BY <1>16 DEF ReleaseFails
<1>17. ASSUME NEW p \in Proc, DiscoverCandidates(p) PROVE RecoveryInv'
  BY <1>17 DEF DiscoverCandidates
<1>18. ASSUME NEW p \in Proc, ProbeOwners(p) PROVE RecoveryInv'
  <2>1. at[p] \in {"inspect"} /\ UNCHANGED <<source, catalog, pid, history>>
    BY <1>18 DEF ProbeOwners
  <2>2. CASE Return(p)
    BY <2>1, <2>2
  <2>3. CASE /\ (\A o \in seen[p] \cup ({lock} \ {None}) : ~Alive(pid[o]))
             /\ id' = [id EXCEPT ![p] = lock]
             /\ Goto(p, "sweep")
             /\ UNCHANGED <<work, seen>>
    BY <2>1, <2>3
  <2>4. QED
    BY <1>18, <2>2, <2>3 DEF ProbeOwners
<1>19. ASSUME NEW p \in Proc, SweepStaging(p) PROVE RecoveryInv'
  BY <1>19 DEF SweepStaging
<1>20. ASSUME NEW p \in Proc, SweepCandidate(p) PROVE RecoveryInv'
  BY <1>20 DEF SweepCandidate
<1>21. ASSUME NEW p \in Proc, CandidatesSwept(p) PROVE RecoveryInv'
  <2>1. at[p] \in {"sweep_candidates"} /\ UNCHANGED <<source, catalog, pid, history>>
    BY <1>21 DEF CandidatesSwept
  <2>2. CASE Return(p)
    BY <2>1, <2>2
  <2>3. CASE id[p] # None /\ Goto(p, "recheck") /\ UNCHANGED <<id, work, seen>>
    BY <2>1, <2>3
  <2>4. QED
    BY <1>21, <2>2, <2>3 DEF CandidatesSwept
<1>22. ASSUME NEW p \in Proc, RecoveryFails(p) PROVE RecoveryInv'
  BY <1>22 DEF RecoveryFails
<1>23. ASSUME NEW p \in Proc, Die(p) PROVE RecoveryInv'
  BY <1>23 DEF Die
<1>24. ASSUME NEW p \in Proc, Start(p) PROVE RecoveryInv'
  BY <1>24 DEF Start
<1>25. CASE EditSource
  BY <1>25 DEF EditSource
<1>26. CASE UNCHANGED vars
  BY <1>26 DEF vars
<1>27. QED
  BY <1>1, <1>2, <1>3, <1>4, <1>5, <1>6, <1>7, <1>8, <1>9, <1>10, <1>11, <1>12,
     <1>13, <1>14, <1>15, <1>16, <1>17, <1>18, <1>19, <1>20, <1>21, <1>22,
     <1>23, <1>24, <1>25, <1>26
     DEF Next, SyncStep, RecoveryStep

\* Only a synchronisation that has had the lock stages, under its own OwnerID.
LEMMA StagingStep ==
  TypeOK /\ IdInv /\ LockInv /\ RecoveryInv /\ StagingInv /\ [Next]_vars => StagingInv'
<1> SUFFICES ASSUME TypeOK, IdInv, LockInv, RecoveryInv, StagingInv, [Next]_vars
             PROVE  StagingInv'
  OBVIOUS
<1> USE ConstantsAssumption
    DEF TypeOK, Goto, Leave, Return, EndWork, catalog, work, history, Taking,
        Working, Leaving, Sweeping, Recovering, IdInv, LockInv, RecoveryInv,
        StagingInv,
        StagingIsReachable, Clean, Holding, Used, Abandoned, Active
<1>1. ASSUME NEW p \in Proc, MakeCandidate(p) PROVE StagingInv'
  BY <1>1 DEF MakeCandidate
<1>2. ASSUME NEW p \in Proc, Link(p) PROVE StagingInv'
  BY <1>2 DEF Link
<1>3. ASSUME NEW p \in Proc, LinkFails(p) PROVE StagingInv'
  BY <1>3 DEF LinkFails
<1>4. ASSUME NEW p \in Proc, DropCandidate(p) PROVE StagingInv'
  <2>1. CASE Goto(p, "make_staging")
    BY <1>4, <2>1 DEF DropCandidate
  <2>2. CASE Goto(p, "check")
    BY <1>4, <2>2 DEF DropCandidate
  <2>3. QED
    BY <1>4, <2>1, <2>2 DEF DropCandidate
<1>5. ASSUME NEW p \in Proc, MakeStaging(p) PROVE StagingInv'
  <2>1. CASE Goto(p, "own_staging")
    BY <1>5, <2>1 DEF MakeStaging
  <2>2. CASE Goto(p, "check")
    BY <1>5, <2>2 DEF MakeStaging
  <2>3. QED
    BY <1>5, <2>1, <2>2 DEF MakeStaging
<1>6. ASSUME NEW p \in Proc, OwnStaging(p) PROVE StagingInv'
  BY <1>6 DEF OwnStaging
<1>7. ASSUME NEW p \in Proc, LoadPackage(p) PROVE StagingInv'
  BY <1>7 DEF LoadPackage
<1>8. ASSUME NEW p \in Proc, PublishObject(p) PROVE StagingInv'
  BY <1>8 DEF PublishObject
<1>9. ASSUME NEW p \in Proc, StageIndex(p) PROVE StagingInv'
  BY <1>9 DEF StageIndex
<1>10. ASSUME NEW p \in Proc, PublishIndex(p) PROVE StagingInv'
  BY <1>10 DEF PublishIndex
<1>11. ASSUME NEW p \in Proc, SyncFails(p) PROVE StagingInv'
  BY <1>11 DEF SyncFails
<1>12. ASSUME NEW p \in Proc, CleanStaging(p) PROVE StagingInv'
  BY <1>12 DEF CleanStaging
<1>13. ASSUME NEW p \in Proc, CleanFails(p) PROVE StagingInv'
  BY <1>13 DEF CleanFails
<1>14. ASSUME NEW p \in Proc, CheckOwner(p) PROVE StagingInv'
  <2>1. at[p] \in {"check", "recheck"} /\ UNCHANGED <<source, catalog, pid, history>>
    BY <1>14 DEF CheckOwner
  <2>2. CASE Return(p)
    BY <2>1, <2>2
  <2>3. CASE /\ lock = id[p]
             /\ Goto(p, IF at[p] = "check" THEN "unlink" ELSE "reunlink")
             /\ UNCHANGED <<id, work, seen>>
    BY <2>1, <2>3
  <2>4. QED
    BY <1>14, <2>2, <2>3 DEF CheckOwner
<1>15. ASSUME NEW p \in Proc, Unlink(p) PROVE StagingInv'
  BY <1>15 DEF Unlink
<1>16. ASSUME NEW p \in Proc, ReleaseFails(p) PROVE StagingInv'
  BY <1>16 DEF ReleaseFails
<1>17. ASSUME NEW p \in Proc, DiscoverCandidates(p) PROVE StagingInv'
  BY <1>17 DEF DiscoverCandidates
<1>18. ASSUME NEW p \in Proc, ProbeOwners(p) PROVE StagingInv'
  <2>1. at[p] \in {"inspect"} /\ UNCHANGED <<source, catalog, pid, history>>
    BY <1>18 DEF ProbeOwners
  <2>2. CASE Return(p)
    BY <2>1, <2>2
  <2>3. CASE /\ (\A o \in seen[p] \cup ({lock} \ {None}) : ~Alive(pid[o]))
             /\ id' = [id EXCEPT ![p] = lock]
             /\ Goto(p, "sweep")
             /\ UNCHANGED <<work, seen>>
    BY <2>1, <2>3
  <2>4. QED
    BY <1>18, <2>2, <2>3 DEF ProbeOwners
<1>19. ASSUME NEW p \in Proc, SweepStaging(p) PROVE StagingInv'
  BY <1>19 DEF SweepStaging
<1>20. ASSUME NEW p \in Proc, SweepCandidate(p) PROVE StagingInv'
  BY <1>20 DEF SweepCandidate
<1>21. ASSUME NEW p \in Proc, CandidatesSwept(p) PROVE StagingInv'
  <2>1. at[p] \in {"sweep_candidates"} /\ UNCHANGED <<source, catalog, pid, history>>
    BY <1>21 DEF CandidatesSwept
  <2>2. CASE Return(p)
    BY <2>1, <2>2
  <2>3. CASE id[p] # None /\ Goto(p, "recheck") /\ UNCHANGED <<id, work, seen>>
    BY <2>1, <2>3
  <2>4. QED
    BY <1>21, <2>2, <2>3 DEF CandidatesSwept
<1>22. ASSUME NEW p \in Proc, RecoveryFails(p) PROVE StagingInv'
  BY <1>22 DEF RecoveryFails
<1>23. ASSUME NEW p \in Proc, Die(p) PROVE StagingInv'
  BY <1>23 DEF Die
<1>24. ASSUME NEW p \in Proc, Start(p) PROVE StagingInv'
  BY <1>24 DEF Start
<1>25. CASE EditSource
  BY <1>25 DEF EditSource
<1>26. CASE UNCHANGED vars
  BY <1>26 DEF vars
<1>27. QED
  BY <1>1, <1>2, <1>3, <1>4, <1>5, <1>6, <1>7, <1>8, <1>9, <1>10, <1>11, <1>12,
     <1>13, <1>14, <1>15, <1>16, <1>17, <1>18, <1>19, <1>20, <1>21, <1>22,
     <1>23, <1>24, <1>25, <1>26
     DEF Next, SyncStep, RecoveryStep

\* Of two synchronisations at work at most one has the lock, so only a robbed one
\* publishes beside another.
LEMMA IndexStep ==
  TypeOK /\ IdInv /\ LockInv /\ IndexInv /\ [Next]_vars => IndexInv'
<1> SUFFICES ASSUME TypeOK, IdInv, LockInv, IndexInv, [Next]_vars PROVE IndexInv'
  OBVIOUS
<1> USE ConstantsAssumption
    DEF TypeOK, Goto, Leave, Return, EndWork, catalog, work, history, Taking,
        Working, Leaving, Sweeping, Recovering, IdInv, LockInv, IndexInv, Holding,
        Fresh,
        Nothing, Version
<1>1. ASSUME NEW p \in Proc, MakeCandidate(p) PROVE IndexInv'
  BY <1>1 DEF MakeCandidate
<1>2. ASSUME NEW p \in Proc, Link(p) PROVE IndexInv'
  BY <1>2 DEF Link
<1>3. ASSUME NEW p \in Proc, LinkFails(p) PROVE IndexInv'
  BY <1>3 DEF LinkFails
<1>4. ASSUME NEW p \in Proc, DropCandidate(p) PROVE IndexInv'
  <2>1. CASE Goto(p, "make_staging")
    BY <1>4, <2>1 DEF DropCandidate
  <2>2. CASE Goto(p, "check")
    BY <1>4, <2>2 DEF DropCandidate
  <2>3. QED
    BY <1>4, <2>1, <2>2 DEF DropCandidate
<1>5. ASSUME NEW p \in Proc, MakeStaging(p) PROVE IndexInv'
  <2>1. CASE Goto(p, "own_staging")
    BY <1>5, <2>1 DEF MakeStaging
  <2>2. CASE Goto(p, "check")
    BY <1>5, <2>2 DEF MakeStaging
  <2>3. QED
    BY <1>5, <2>1, <2>2 DEF MakeStaging
<1>6. ASSUME NEW p \in Proc, OwnStaging(p) PROVE IndexInv'
  BY <1>6 DEF OwnStaging
<1>7. ASSUME NEW p \in Proc, LoadPackage(p) PROVE IndexInv'
  BY <1>7 DEF LoadPackage
<1>8. ASSUME NEW p \in Proc, PublishObject(p) PROVE IndexInv'
  BY <1>8 DEF PublishObject
<1>9. ASSUME NEW p \in Proc, StageIndex(p) PROVE IndexInv'
  BY <1>9 DEF StageIndex
<1>10. ASSUME NEW p \in Proc, PublishIndex(p) PROVE IndexInv'
  <2>1. \A q \in Proc \ {p} : at[q] \in Working => id[q] \in robbed \/ id[p] \in robbed
    <3> SUFFICES ASSUME NEW q \in Proc \ {p}, at[q] \in Working
                 PROVE  id[q] \in robbed \/ id[p] \in robbed
      OBVIOUS
    <3>1. at[p] \in Working
      BY <1>10 DEF PublishIndex
    <3>2. pid[id[p]] = p /\ pid[id[q]] = q
      BY <3>1
    <3>3. /\ lock = id[p] \/ id[p] \in robbed
          /\ lock = id[q] \/ id[q] \in robbed
      BY <3>1
    <3>4. QED
      BY <3>2, <3>3
  <2>2. \A q \in Proc, k \in Package :
          (at[q] \in Working /\ summary[q][k] # 0
             => index[k] <= summary[q][k] \/ {id[q], publisher} \cap robbed # {})'
    <3> SUFFICES ASSUME NEW q \in Proc, at'[q] \in Working
                 PROVE  ({id[q], publisher} \cap robbed # {})'
      OBVIOUS
    <3>1. q # p /\ at[q] \in Working
      BY <1>10 DEF PublishIndex
    <3>2. QED
      BY <1>10, <2>1, <3>1 DEF PublishIndex
  <2>3. /\ \A k \in Package : index'[k] <= source'[k]
        /\ \A q \in Proc, k \in Package : summary'[q][k] <= source'[k]
    BY <1>10 DEF PublishIndex
  <2>4. QED
    BY <1>10, <2>2, <2>3 DEF PublishIndex
<1>11. ASSUME NEW p \in Proc, SyncFails(p) PROVE IndexInv'
  BY <1>11 DEF SyncFails
<1>12. ASSUME NEW p \in Proc, CleanStaging(p) PROVE IndexInv'
  BY <1>12 DEF CleanStaging
<1>13. ASSUME NEW p \in Proc, CleanFails(p) PROVE IndexInv'
  BY <1>13 DEF CleanFails
<1>14. ASSUME NEW p \in Proc, CheckOwner(p) PROVE IndexInv'
  <2>1. at[p] \in {"check", "recheck"} /\ UNCHANGED <<source, catalog, pid, history>>
    BY <1>14 DEF CheckOwner
  <2>2. CASE Return(p)
    BY <2>1, <2>2
  <2>3. CASE /\ lock = id[p]
             /\ Goto(p, IF at[p] = "check" THEN "unlink" ELSE "reunlink")
             /\ UNCHANGED <<id, work, seen>>
    BY <2>1, <2>3
  <2>4. QED
    BY <1>14, <2>2, <2>3 DEF CheckOwner
<1>15. ASSUME NEW p \in Proc, Unlink(p) PROVE IndexInv'
  BY <1>15 DEF Unlink
<1>16. ASSUME NEW p \in Proc, ReleaseFails(p) PROVE IndexInv'
  BY <1>16 DEF ReleaseFails
<1>17. ASSUME NEW p \in Proc, DiscoverCandidates(p) PROVE IndexInv'
  BY <1>17 DEF DiscoverCandidates
<1>18. ASSUME NEW p \in Proc, ProbeOwners(p) PROVE IndexInv'
  <2>1. at[p] \in {"inspect"} /\ UNCHANGED <<source, catalog, pid, history>>
    BY <1>18 DEF ProbeOwners
  <2>2. CASE Return(p)
    BY <2>1, <2>2
  <2>3. CASE /\ (\A o \in seen[p] \cup ({lock} \ {None}) : ~Alive(pid[o]))
             /\ id' = [id EXCEPT ![p] = lock]
             /\ Goto(p, "sweep")
             /\ UNCHANGED <<work, seen>>
    BY <2>1, <2>3
  <2>4. QED
    BY <1>18, <2>2, <2>3 DEF ProbeOwners
<1>19. ASSUME NEW p \in Proc, SweepStaging(p) PROVE IndexInv'
  BY <1>19 DEF SweepStaging
<1>20. ASSUME NEW p \in Proc, SweepCandidate(p) PROVE IndexInv'
  BY <1>20 DEF SweepCandidate
<1>21. ASSUME NEW p \in Proc, CandidatesSwept(p) PROVE IndexInv'
  <2>1. at[p] \in {"sweep_candidates"} /\ UNCHANGED <<source, catalog, pid, history>>
    BY <1>21 DEF CandidatesSwept
  <2>2. CASE Return(p)
    BY <2>1, <2>2
  <2>3. CASE id[p] # None /\ Goto(p, "recheck") /\ UNCHANGED <<id, work, seen>>
    BY <2>1, <2>3
  <2>4. QED
    BY <1>21, <2>2, <2>3 DEF CandidatesSwept
<1>22. ASSUME NEW p \in Proc, RecoveryFails(p) PROVE IndexInv'
  BY <1>22 DEF RecoveryFails
<1>23. ASSUME NEW p \in Proc, Die(p) PROVE IndexInv'
  BY <1>23 DEF Die
<1>24. ASSUME NEW p \in Proc, Start(p) PROVE IndexInv'
  BY <1>24 DEF Start, Alive
<1>25. CASE EditSource
  BY <1>25 DEF EditSource
<1>26. CASE UNCHANGED vars
  BY <1>26 DEF vars
<1>27. QED
  BY <1>1, <1>2, <1>3, <1>4, <1>5, <1>6, <1>7, <1>8, <1>9, <1>10, <1>11, <1>12,
     <1>13, <1>14, <1>15, <1>16, <1>17, <1>18, <1>19, <1>20, <1>21, <1>22,
     <1>23, <1>24, <1>25, <1>26
     DEF Next, SyncStep, RecoveryStep

-----------------------------------------------------------------------------

\* Every variable keeps the shape its declaration describes, whatever the
\* operators do.
THEOREM TypeCorrect == Spec => []TypeOK
<1>1. Init => TypeOK
  BY ConstantsAssumption DEF Init, TypeOK, Nothing, Version
<1>2. TypeOK /\ [Next]_vars => TypeOK'
  BY TypeStep
<1>3. QED
  BY <1>1, <1>2, PTL DEF Spec

\* Readers of the active index find every Ready entry complete in the store,
\* whatever crashes, and even when recoveries race.
THEOREM IndexIsComplete == Spec => []IndexComplete
<1>1. Init => TypeOK /\ StoreInv
  <2>1. Init => TypeOK
    BY ConstantsAssumption DEF Init, TypeOK, Nothing, Version
  <2>2. Init => StoreInv
    BY DEF Init, StoreInv, IndexComplete, Ready, Nothing
  <2>3. QED
    BY <2>1, <2>2
<1>2. TypeOK /\ StoreInv /\ [Next]_vars => (TypeOK /\ StoreInv)'
  BY TypeStep, StoreStep
<1>3. StoreInv => IndexComplete
  BY DEF StoreInv
<1>4. QED
  BY <1>1, <1>2, <1>3, PTL DEF Spec

\* The inductive invariant of the lock, whatever the operators do.
THEOREM LockInvariant == Spec => []IInv
<1>1. Init => IInv
  <2> SUFFICES ASSUME Init PROVE IInv
    OBVIOUS
  <2>1. TypeOK
    BY ConstantsAssumption DEF Init, TypeOK, Nothing, Version
  <2>2. IdInv /\ LockInv /\ RecoveryInv
    BY DEF Init, IdInv, LockInv, RecoveryInv, Holding, Taking, Working, Leaving,
           Sweeping, Recovering
  <2>3. StagingInv
    BY DEF Init, StagingInv, StagingIsReachable, Clean, Taking, Sweeping
  <2>4. IndexInv
    BY ConstantsAssumption
    DEF Init, IndexInv, Nothing, Fresh, Taking, Working
  <2>5. QED
    BY <2>1, <2>2, <2>3, <2>4 DEF IInv
<1>2. IInv /\ [Next]_vars => IInv'
  BY TypeStep, IdStep, LockStep, RecoveryInvStep, StagingStep, IndexStep DEF IInv
<1>3. QED
  BY <1>1, <1>2, PTL DEF Spec

\* What a synchronisation leaves in the staging area, the lock still names, unless
\* it was robbed of the lock.
THEOREM StagingStaysReachable == Spec => []StagingIsReachable
<1>1. IInv => StagingIsReachable
  BY DEF IInv, StagingInv
<1>2. QED
  BY <1>1, LockInvariant, PTL

\* No synchronisation publishes an older version of a package than is published,
\* unless it or the one that published before it was robbed of the lock.
THEOREM IndexOnlyAdvances == Spec => IndexAdvances
<1>1. IInv /\ [Next]_vars =>
        [\/ \A k \in Package : index'[k] >= index[k]
         \/ {publisher, publisher'} \cap robbed # {}]_index
  <2> SUFFICES ASSUME IInv, [Next]_vars, index' # index,
                      {publisher, publisher'} \cap robbed = {},
                      NEW k \in Package
               PROVE  index'[k] >= index[k]
    OBVIOUS
  <2> USE DEF catalog
  <2>1. PICK p \in Proc : PublishIndex(p)
    BY DEF Next, vars, SyncStep, RecoveryStep, MakeCandidate, Link, LinkFails,
      DropCandidate, MakeStaging, OwnStaging, LoadPackage, PublishObject,
      StageIndex, SyncFails, CleanStaging, CleanFails, CheckOwner, Unlink,
      ReleaseFails, DiscoverCandidates, ProbeOwners, SweepStaging, SweepCandidate,
      CandidatesSwept, RecoveryFails, EditSource, Die, Start
  <2>2. summary[p][k] # 0 /\ publisher' = id[p]
    BY <2>1 DEF PublishIndex, IInv, IndexInv
  <2>3. index[k] <= summary[p][k]
    BY <2>1, <2>2 DEF PublishIndex, IInv, IndexInv, Working
  <2>4. summary[p][k] \in Nat /\ index[k] \in Nat
    BY ConstantsAssumption DEF IInv, TypeOK
  <2>5. QED
    BY <2>1, <2>3, <2>4 DEF PublishIndex
<1>2. QED
  BY <1>1, LockInvariant, PTL DEF Spec, IndexAdvances

-----------------------------------------------------------------------------
(* The refinement: what each step does to the ownership. *)

\* A step of the catalog, seen through the refinement mapping: linking takes,
\* giving up and crashing leave, the end of the work ends, the comparisons judge,
\* unlinking removes, and all else leaves the ownership alone.
LEMMA RefineStep ==
  IInv /\ [Next]_vars => [Ownership!Next]_Ownership!vars
<1> SUFFICES ASSUME IInv, [Next]_vars
             PROVE Ownership!Next \/ UNCHANGED Ownership!vars
  BY DEF Ownership!Next, Ownership!vars
<1> USE ConstantsAssumption
    DEF IInv, TypeOK, IdInv, LockInv, RecoveryInv, Holding, Goto, Leave, Return,
        EndWork, catalog, work, history, Taking, Working, Leaving, Sweeping,
        Recovering, Abandoned, Active, Used
<1>1. ASSUME NEW p \in Proc, MakeCandidate(p) PROVE UNCHANGED Ownership!vars
  BY <1>1 DEF MakeCandidate, Ownership!vars
<1>2. ASSUME NEW p \in Proc, Link(p) PROVE Ownership!Next
  <2>1. PICK o \in OwnerId : o = id[p]
    BY <1>2 DEF Link
  <2>2. Ownership!Take(o)
    BY <1>2, <2>1 DEF Link, Ownership!Take
  <2>3. QED
    BY <2>2 DEF Ownership!Next
<1>3. ASSUME NEW p \in Proc, LinkFails(p) PROVE Ownership!Next
  <2>1. PICK o \in OwnerId : o = id[p]
    BY <1>3 DEF LinkFails
  <2>2. Ownership!Leave(o)
    BY <1>3, <2>1 DEF LinkFails, Ownership!Leave
  <2>3. QED
    BY <2>2 DEF Ownership!Next
<1>4. ASSUME NEW p \in Proc, DropCandidate(p)
      PROVE Ownership!Next \/ UNCHANGED Ownership!vars
  <2>1. CASE Goto(p, "make_staging")
    <3>1. PICK o \in OwnerId : o = id[p]
      BY <1>4, <2>1 DEF DropCandidate
    <3>2. Ownership!Begin(o)
      BY <1>4, <2>1, <3>1 DEF DropCandidate, Ownership!Begin
    <3>3. QED
      BY <3>2 DEF Ownership!Next
  <2>2. CASE Goto(p, "check")
    BY <1>4, <2>2 DEF DropCandidate, Ownership!vars
  <2>3. QED
    BY <1>4, <2>1, <2>2 DEF DropCandidate
<1>5. ASSUME NEW p \in Proc, MakeStaging(p)
      PROVE Ownership!Next \/ UNCHANGED Ownership!vars
  <2>1. CASE Goto(p, "check")
    <3>1. PICK o \in OwnerId : o = id[p]
      BY <1>5, <2>1 DEF MakeStaging
    <3>2. Ownership!End(o)
      BY <1>5, <2>1, <3>1 DEF MakeStaging, Ownership!End
    <3>3. QED
      BY <3>2 DEF Ownership!Next
  <2>2. CASE Goto(p, "own_staging")
    BY <1>5, <2>2 DEF MakeStaging, Ownership!vars
  <2>3. QED
    BY <1>5, <2>1, <2>2 DEF MakeStaging
<1>6. ASSUME NEW p \in Proc, OwnStaging(p) PROVE UNCHANGED Ownership!vars
  BY <1>6 DEF OwnStaging, Ownership!vars
<1>7. ASSUME NEW p \in Proc, LoadPackage(p) PROVE UNCHANGED Ownership!vars
  BY <1>7 DEF LoadPackage, Ownership!vars
<1>8. ASSUME NEW p \in Proc, PublishObject(p) PROVE UNCHANGED Ownership!vars
  BY <1>8 DEF PublishObject, Ownership!vars
<1>9. ASSUME NEW p \in Proc, StageIndex(p) PROVE UNCHANGED Ownership!vars
  BY <1>9 DEF StageIndex, Ownership!vars
<1>10. ASSUME NEW p \in Proc, PublishIndex(p) PROVE Ownership!Next
  <2>1. PICK o \in OwnerId : o = id[p]
    BY <1>10 DEF PublishIndex
  <2>2. Ownership!End(o)
    BY <1>10, <2>1 DEF PublishIndex, Ownership!End
  <2>3. QED
    BY <2>2 DEF Ownership!Next
<1>11. ASSUME NEW p \in Proc, SyncFails(p) PROVE Ownership!Next
  <2>1. PICK o \in OwnerId : o = id[p]
    BY <1>11 DEF SyncFails
  <2>2. Ownership!End(o)
    BY <1>11, <2>1 DEF SyncFails, Ownership!End
  <2>3. QED
    BY <2>2 DEF Ownership!Next
<1>12. ASSUME NEW p \in Proc, CleanStaging(p) PROVE UNCHANGED Ownership!vars
  BY <1>12 DEF CleanStaging, Ownership!vars
<1>13. ASSUME NEW p \in Proc, CleanFails(p) PROVE Ownership!Next
  <2>1. PICK o \in OwnerId : o = id[p]
    BY <1>13 DEF CleanFails
  <2>2. Ownership!Leave(o)
    BY <1>13, <2>1 DEF CleanFails, Ownership!Leave
  <2>3. QED
    BY <2>2 DEF Ownership!Next
<1>14. ASSUME NEW p \in Proc, CheckOwner(p)
      PROVE Ownership!Next \/ UNCHANGED Ownership!vars
  <2>1. at[p] \in {"check", "recheck"} /\ UNCHANGED <<catalog, pid, history>>
    BY <1>14 DEF CheckOwner
  <2>2. PICK o \in OwnerId : o = id[p]
    BY <2>1
  <2>3. CASE lock = id[p]
    <3>1. UNCHANGED id /\ Goto(p, IF at[p] = "check" THEN "unlink" ELSE "reunlink")
      BY <1>14, <2>3 DEF CheckOwner
    <3>2. Ownership!Judge(o)
      BY <2>1, <2>2, <2>3, <3>1 DEF Ownership!Judge
    <3>3. QED
      BY <3>2 DEF Ownership!Next
  <2>4. CASE lock # id[p] /\ at[p] = "check"
    <3>1. Return(p)
      BY <1>14, <2>4 DEF CheckOwner
    <3>2. Ownership!Leave(o)
      BY <2>1, <2>2, <2>4, <3>1 DEF Ownership!Leave
    <3>3. QED
      BY <3>2 DEF Ownership!Next
  <2>5. CASE lock # id[p] /\ at[p] = "recheck"
    <3>1. Return(p)
      BY <1>14, <2>5 DEF CheckOwner
    <3>2. QED
      BY <2>1, <2>2, <2>5, <3>1 DEF Ownership!vars
  <2>6. QED
    BY <2>1, <2>3, <2>4, <2>5
<1>15. ASSUME NEW p \in Proc, Unlink(p) PROVE Ownership!Next
  <2>1. PICK o \in OwnerId : o = id[p]
    BY <1>15 DEF Unlink
  <2>2. Ownership!Remove(o)
    BY <1>15, <2>1 DEF Unlink, Ownership!Remove
  <2>3. QED
    BY <2>2 DEF Ownership!Next
<1>16. ASSUME NEW p \in Proc, ReleaseFails(p) PROVE Ownership!Next
  <2>1. PICK o \in OwnerId : o = id[p]
    BY <1>16 DEF ReleaseFails
  <2>2. Ownership!Leave(o)
    BY <1>16, <2>1 DEF ReleaseFails, Ownership!Leave
  <2>3. QED
    BY <2>2 DEF Ownership!Next
<1>17. ASSUME NEW p \in Proc, DiscoverCandidates(p) PROVE UNCHANGED Ownership!vars
  BY <1>17 DEF DiscoverCandidates, Ownership!vars
<1>18. ASSUME NEW p \in Proc, ProbeOwners(p) PROVE UNCHANGED Ownership!vars
  <2>1. at[p] = "inspect" /\ UNCHANGED <<catalog, pid, history>>
    BY <1>18 DEF ProbeOwners
  <2>2. CASE Return(p)
    BY <2>1, <2>2 DEF Ownership!vars
  <2>3. CASE id' = [id EXCEPT ![p] = lock] /\ Goto(p, "sweep")
    BY <2>1, <2>3 DEF Ownership!vars
  <2>4. QED
    BY <1>18, <2>2, <2>3 DEF ProbeOwners
<1>19. ASSUME NEW p \in Proc, SweepStaging(p) PROVE UNCHANGED Ownership!vars
  BY <1>19 DEF SweepStaging, Ownership!vars
<1>20. ASSUME NEW p \in Proc, SweepCandidate(p) PROVE UNCHANGED Ownership!vars
  BY <1>20 DEF SweepCandidate, Ownership!vars
<1>21. ASSUME NEW p \in Proc, CandidatesSwept(p) PROVE UNCHANGED Ownership!vars
  BY <1>21 DEF CandidatesSwept, Ownership!vars
<1>22. ASSUME NEW p \in Proc, RecoveryFails(p)
      PROVE Ownership!Next \/ UNCHANGED Ownership!vars
  <2>1. CASE at[p] = "reunlink"
    <3>1. PICK o \in OwnerId : o = id[p]
      BY <1>22, <2>1
    <3>2. {id[q] : q \in {r \in Proc : at[r] \in {"unlink", "reunlink"}}}'
            \in {{id[q] : q \in {r \in Proc : at[r] \in {"unlink", "reunlink"}}},
                 {id[q] : q \in {r \in Proc : at[r] \in {"unlink", "reunlink"}}} \ {o}}
      BY <1>22, <2>1, <3>1 DEF RecoveryFails
    <3>3. Ownership!Recant(o) \/ UNCHANGED Ownership!vars
      BY <1>22, <2>1, <3>1, <3>2 DEF RecoveryFails, Ownership!Recant, Ownership!vars
    <3>4. QED
      BY <3>3 DEF Ownership!Next
  <2>2. CASE at[p] \notin Taking \cup Working \cup Leaving \cup {"reunlink"}
    BY <1>22, <2>2 DEF RecoveryFails, Ownership!vars
  <2>3. QED
    BY <1>22, <2>1, <2>2 DEF RecoveryFails
<1>23. ASSUME NEW p \in Proc, Die(p)
      PROVE Ownership!Next \/ UNCHANGED Ownership!vars
  <2>1. CASE at[p] \in Taking \cup Working \cup Leaving
    <3>1. PICK o \in OwnerId : o = id[p]
      BY <1>23, <2>1 DEF Die
    <3>2. Ownership!Leave(o)
      BY <1>23, <2>1, <3>1 DEF Die, Ownership!Leave
    <3>3. QED
      BY <3>2 DEF Ownership!Next
  <2>2. CASE at[p] = "reunlink"
    <3>1. PICK o \in OwnerId : o = id[p]
      BY <1>23, <2>2
    <3>2. {id[q] : q \in {r \in Proc : at[r] \in {"unlink", "reunlink"}}}'
            \in {{id[q] : q \in {r \in Proc : at[r] \in {"unlink", "reunlink"}}},
                 {id[q] : q \in {r \in Proc : at[r] \in {"unlink", "reunlink"}}} \ {o}}
      BY <1>23, <2>2, <3>1 DEF Die
    <3>3. Ownership!Recant(o) \/ UNCHANGED Ownership!vars
      BY <1>23, <2>2, <3>1, <3>2 DEF Die, Ownership!Recant, Ownership!vars
    <3>4. QED
      BY <3>3 DEF Ownership!Next
  <2>3. CASE at[p] \notin Taking \cup Working \cup Leaving \cup {"reunlink"}
    BY <1>23, <2>3 DEF Die, Ownership!vars
  <2>4. QED
    BY <1>23, <2>1, <2>2, <2>3 DEF Die
<1>24. ASSUME NEW p \in Proc, Start(p) PROVE UNCHANGED Ownership!vars
  BY <1>24 DEF Start, Ownership!vars, Alive
<1>25. CASE EditSource
  BY <1>25 DEF EditSource, Ownership!vars
<1>26. CASE UNCHANGED vars
  BY <1>26 DEF vars, Ownership!vars
<1>27. QED
  BY <1>1, <1>2, <1>3, <1>4, <1>5, <1>6, <1>7, <1>8, <1>9, <1>10, <1>11, <1>12,
     <1>13, <1>14, <1>15, <1>16, <1>17, <1>18, <1>19, <1>20, <1>21, <1>22,
     <1>23, <1>24, <1>25, <1>26
     DEF Next, SyncStep, RecoveryStep

\* The lock of the catalog keeps the promise of an ownership.
THEOREM CatalogImplementsOwnership == Spec => ImplementsOwnership
<1>1. Init => Ownership!Init
  BY ConstantsAssumption
  DEF Init, Ownership!Init, Abandoned, Active, Used, Working
<1>2. IInv /\ [Next]_vars => [Ownership!Next]_Ownership!vars
  BY RefineStep
<1>3. QED
  BY <1>1, <1>2, LockInvariant, PTL DEF Spec, ImplementsOwnership, Ownership!Spec

=============================================================================
