------------------------- MODULE MirrorLocksProofs -------------------------
(***************************************************************************)
(* Theorems about the lock files, for any set of processes and acquisitions*)
(* and whichever of them take the key and clear orphans side by side. What *)
(* the code promises is stated up to the acquisitions that were robbed;    *)
(* PreemptsOnlyInRaces says who can rob.                                   *)
(***************************************************************************)
EXTENDS MirrorLocks, TLAPS

Holding == {"write", "effect", "release", "unlink"}

\* An acquisition under way knows the file of its own making, and only it does.
OwnInv ==
  /\ \A p \in Proc : own[p] # None <=> pc[p] \in Holding
  /\ \A p \in Proc : own[p] # None => pid[own[p]] = p

\* The file under the lock's name was made by some acquisition. A holder finds
\* its own there or was robbed, and a file that was removed does not come back.
PathInv ==
  /\ path # None => pid[path] # None
  /\ \A p \in Proc : pc[p] \in Holding => path = own[p] \/ own[p] \in robbed
  /\ \A o \in written : pid[o] # None
  /\ \A o \in robbed : pid[o] # None /\ path # o

\* A clear has read a complete record, and once it has found the recorded process
\* dead the acquisition is over for good, whoever has the PID then.
ClearInv ==
  /\ \A p \in Proc : pc[p] \in {"probe", "remove"} => seen[p] \in written
  /\ \A p \in Proc : pc[p] = "remove" => Abandoned(seen[p])

IInv == TypeOK /\ OwnInv /\ PathInv /\ ClearInv

-----------------------------------------------------------------------------

\* Every step keeps the shape of the variables, provided a call that holds a
\* file knows which one (OwnInv).
LEMMA TypeStep == TypeOK /\ OwnInv /\ [Next]_vars => TypeOK'
<1> SUFFICES ASSUME TypeOK, OwnInv, [Next]_vars PROVE TypeOK'
  OBVIOUS
<1> USE ConstantsAssumption DEF TypeOK, OwnInv, Holding, GoTo, Return, RemoveFor, files
<1>1. ASSUME NEW p \in Proc, Create(p) PROVE TypeOK'
  BY <1>1 DEF Create, Used
<1>2. ASSUME NEW p \in Proc, FindExisting(p) PROVE TypeOK'
  BY <1>2 DEF FindExisting
<1>3. ASSUME NEW p \in Proc, Write(p) PROVE TypeOK'
  BY <1>3 DEF Write
<1>4. ASSUME NEW p \in Proc, WriteFails(p) PROVE TypeOK'
  BY <1>4 DEF WriteFails
<1>5. ASSUME NEW p \in Proc, ReadExisting(p) PROVE TypeOK'
  BY <1>5 DEF ReadExisting
<1>6. ASSUME NEW p \in Proc, EndEffect(p) PROVE TypeOK'
  BY <1>6 DEF EndEffect
<1>7. ASSUME NEW p \in Proc, CheckOwner(p) PROVE TypeOK'
  BY <1>7 DEF CheckOwner
<1>8. ASSUME NEW p \in Proc, Unlink(p) PROVE TypeOK'
  BY <1>8 DEF Unlink
<1>9. ASSUME NEW p \in Proc, ReadOwner(p) PROVE TypeOK'
  BY <1>9 DEF ReadOwner
<1>10. ASSUME NEW p \in Proc, Probe(p) PROVE TypeOK'
  BY <1>10 DEF Probe
<1>11. ASSUME NEW p \in Proc, Remove(p) PROVE TypeOK'
  BY <1>11 DEF Remove
<1>12. ASSUME NEW p \in Proc, Die(p) PROVE TypeOK'
  BY <1>12 DEF Die
<1>13. ASSUME NEW p \in Proc, Start(p) PROVE TypeOK'
  BY <1>13 DEF Start
<1>14. CASE UNCHANGED vars
  BY <1>14 DEF vars, Abandoned, Used
<1>15. QED
  BY <1>1, <1>2, <1>3, <1>4, <1>5, <1>6, <1>7, <1>8, <1>9, <1>10, <1>11, <1>12,
     <1>13, <1>14 DEF Next

\* A step gives a call a file only with an OwnerID nobody has drawn before.
LEMMA OwnStep == TypeOK /\ OwnInv /\ [Next]_vars => OwnInv'
<1> SUFFICES ASSUME TypeOK, OwnInv, [Next]_vars PROVE OwnInv'
  OBVIOUS
<1> USE ConstantsAssumption DEF TypeOK, OwnInv, Holding, GoTo, Return, RemoveFor, files
<1>1. ASSUME NEW p \in Proc, Create(p) PROVE OwnInv'
  BY <1>1 DEF Create, Used
<1>2. ASSUME NEW p \in Proc, FindExisting(p) PROVE OwnInv'
  BY <1>2 DEF FindExisting
<1>3. ASSUME NEW p \in Proc, Write(p) PROVE OwnInv'
  BY <1>3 DEF Write
<1>4. ASSUME NEW p \in Proc, WriteFails(p) PROVE OwnInv'
  BY <1>4 DEF WriteFails
<1>5. ASSUME NEW p \in Proc, ReadExisting(p) PROVE OwnInv'
  BY <1>5 DEF ReadExisting
<1>6. ASSUME NEW p \in Proc, EndEffect(p) PROVE OwnInv'
  BY <1>6 DEF EndEffect
<1>7. ASSUME NEW p \in Proc, CheckOwner(p) PROVE OwnInv'
  BY <1>7 DEF CheckOwner
<1>8. ASSUME NEW p \in Proc, Unlink(p) PROVE OwnInv'
  BY <1>8 DEF Unlink
<1>9. ASSUME NEW p \in Proc, ReadOwner(p) PROVE OwnInv'
  BY <1>9 DEF ReadOwner
<1>10. ASSUME NEW p \in Proc, Probe(p) PROVE OwnInv'
  BY <1>10 DEF Probe
<1>11. ASSUME NEW p \in Proc, Remove(p) PROVE OwnInv'
  BY <1>11 DEF Remove
<1>12. ASSUME NEW p \in Proc, Die(p) PROVE OwnInv'
  BY <1>12 DEF Die
<1>13. ASSUME NEW p \in Proc, Start(p) PROVE OwnInv'
  BY <1>13 DEF Start, Alive
<1>14. CASE UNCHANGED vars
  BY <1>14 DEF vars, Abandoned, Used
<1>15. QED
  BY <1>1, <1>2, <1>3, <1>4, <1>5, <1>6, <1>7, <1>8, <1>9, <1>10, <1>11, <1>12,
     <1>13, <1>14 DEF Next

\* Whoever removes the lock's name robs the acquisition whose file is there,
\* unless it is its own.
LEMMA PathStep == TypeOK /\ OwnInv /\ PathInv /\ ClearInv /\ [Next]_vars => PathInv'
<1> SUFFICES ASSUME TypeOK, OwnInv, PathInv, ClearInv, [Next]_vars PROVE PathInv'
  OBVIOUS
<1> USE ConstantsAssumption DEF TypeOK, OwnInv, PathInv, Holding, GoTo, Return, RemoveFor, files
<1>1. ASSUME NEW p \in Proc, Create(p) PROVE PathInv'
  BY <1>1 DEF Create, Used
<1>2. ASSUME NEW p \in Proc, FindExisting(p) PROVE PathInv'
  BY <1>2 DEF FindExisting
<1>3. ASSUME NEW p \in Proc, Write(p) PROVE PathInv'
  BY <1>3 DEF Write
<1>4. ASSUME NEW p \in Proc, WriteFails(p) PROVE PathInv'
  BY <1>4 DEF WriteFails
<1>5. ASSUME NEW p \in Proc, ReadExisting(p) PROVE PathInv'
  BY <1>5 DEF ReadExisting
<1>6. ASSUME NEW p \in Proc, EndEffect(p) PROVE PathInv'
  BY <1>6 DEF EndEffect
<1>7. ASSUME NEW p \in Proc, CheckOwner(p) PROVE PathInv'
  BY <1>7 DEF CheckOwner
<1>8. ASSUME NEW p \in Proc, Unlink(p) PROVE PathInv'
  BY <1>8 DEF Unlink
<1>9. ASSUME NEW p \in Proc, ReadOwner(p) PROVE PathInv'
  BY <1>9 DEF ReadOwner
<1>10. ASSUME NEW p \in Proc, Probe(p) PROVE PathInv'
  BY <1>10 DEF Probe
<1>11. ASSUME NEW p \in Proc, Remove(p) PROVE PathInv'
  BY <1>11 DEF Remove, ClearInv, Abandoned
<1>12. ASSUME NEW p \in Proc, Die(p) PROVE PathInv'
  BY <1>12 DEF Die
<1>13. ASSUME NEW p \in Proc, Start(p) PROVE PathInv'
  BY <1>13 DEF Start, Alive
<1>14. CASE UNCHANGED vars
  BY <1>14 DEF vars, Abandoned, Used
<1>15. QED
  BY <1>1, <1>2, <1>3, <1>4, <1>5, <1>6, <1>7, <1>8, <1>9, <1>10, <1>11, <1>12,
     <1>13, <1>14 DEF Next

\* An OwnerID is drawn once, so an acquisition that is over stays over.
LEMMA ClearStep == TypeOK /\ OwnInv /\ PathInv /\ ClearInv /\ [Next]_vars => ClearInv'
<1> SUFFICES ASSUME TypeOK, OwnInv, PathInv, ClearInv, [Next]_vars PROVE ClearInv'
  OBVIOUS
<1> USE ConstantsAssumption DEF TypeOK, OwnInv, PathInv, ClearInv, Holding, GoTo, Return, RemoveFor, files, Abandoned, Used
<1>1. ASSUME NEW p \in Proc, Create(p) PROVE ClearInv'
  BY <1>1 DEF Create
<1>2. ASSUME NEW p \in Proc, FindExisting(p) PROVE ClearInv'
  BY <1>2 DEF FindExisting
<1>3. ASSUME NEW p \in Proc, Write(p) PROVE ClearInv'
  BY <1>3 DEF Write
<1>4. ASSUME NEW p \in Proc, WriteFails(p) PROVE ClearInv'
  BY <1>4 DEF WriteFails
<1>5. ASSUME NEW p \in Proc, ReadExisting(p) PROVE ClearInv'
  BY <1>5 DEF ReadExisting
<1>6. ASSUME NEW p \in Proc, EndEffect(p) PROVE ClearInv'
  BY <1>6 DEF EndEffect
<1>7. ASSUME NEW p \in Proc, CheckOwner(p) PROVE ClearInv'
  BY <1>7 DEF CheckOwner
<1>8. ASSUME NEW p \in Proc, Unlink(p) PROVE ClearInv'
  BY <1>8 DEF Unlink
<1>9. ASSUME NEW p \in Proc, ReadOwner(p) PROVE ClearInv'
  BY <1>9 DEF ReadOwner
<1>10. ASSUME NEW p \in Proc, Probe(p) PROVE ClearInv'
  BY <1>10 DEF Probe, Alive
<1>11. ASSUME NEW p \in Proc, Remove(p) PROVE ClearInv'
  BY <1>11 DEF Remove
<1>12. ASSUME NEW p \in Proc, Die(p) PROVE ClearInv'
  BY <1>12 DEF Die, Alive
<1>13. ASSUME NEW p \in Proc, Start(p) PROVE ClearInv'
  BY <1>13 DEF Start, Alive
<1>14. CASE UNCHANGED vars
  BY <1>14 DEF vars, Abandoned, Used
<1>15. QED
  BY <1>1, <1>2, <1>3, <1>4, <1>5, <1>6, <1>7, <1>8, <1>9, <1>10, <1>11, <1>12,
     <1>13, <1>14 DEF Next

\* The inductive invariant of the protocol, whatever the operators do.
THEOREM Invariant == Spec => []IInv
<1>1. Init => IInv
  BY ConstantsAssumption DEF Init, IInv, TypeOK, OwnInv, PathInv, ClearInv, Holding
<1>2. IInv /\ [Next]_vars => IInv'
  BY TypeStep, OwnStep, PathStep, ClearStep DEF IInv
<1>3. QED
  BY <1>1, <1>2, PTL DEF Spec

\* Every variable keeps the shape its declaration describes.
THEOREM TypeCorrect == Spec => []TypeOK
<1>1. IInv => TypeOK
  BY DEF IInv
<1>2. QED
  BY <1>1, Invariant, PTL

\* Two commands run the remote effect of one diary at the same time only if one
\* of them was robbed of its lock.
THEOREM EffectIsExclusive == Spec => []MutualExclusion
<1>1. IInv => MutualExclusion
  BY ConstantsAssumption
  DEF IInv, TypeOK, OwnInv, PathInv, Holding, MutualExclusion
<1>2. QED
  BY <1>1, Invariant, PTL

\* Release finds its own lock, and removes no other, unless the command was robbed.
THEOREM ReleaseIsOwn == Spec => []ReleasesItsOwn
<1>1. IInv => ReleasesItsOwn
  BY DEF IInv, PathInv, Holding, ReleasesItsOwn
<1>2. QED
  BY <1>1, Invariant, PTL

\* A clear removes the file on the account of an acquisition that is over; the
\* file of another is lost only to a clear whose orphan went before it, or to a
\* call that lost its own file that way.
THEOREM ClearIsSafe == Spec => PreemptsOnlyInRaces
<1> DEFINE Safe ==
      /\ \A p \in Proc : pc[p] = "remove" /\ pc'[p] = "idle" => Abandoned(seen[p])
      /\ robbed' # robbed =>
           \E p \in Proc : \/ pc[p] = "remove" /\ path # seen[p]
                           \/ pc[p] \in {"write", "unlink"} /\ own[p] \in robbed
<1>1. IInv /\ [Next]_vars => [Safe]_vars
  <2> SUFFICES ASSUME IInv, Next PROVE Safe
    OBVIOUS
  <2>1. \A p \in Proc : pc[p] = "remove" => Abandoned(seen[p])
    BY DEF IInv, ClearInv
  <2>2. PICK p \in Proc :
          \/ Create(p) \/ FindExisting(p) \/ Write(p) \/ WriteFails(p) \/ ReadExisting(p)
          \/ EndEffect(p) \/ CheckOwner(p) \/ Unlink(p)
          \/ ReadOwner(p) \/ Probe(p) \/ Remove(p)
          \/ Die(p) \/ Start(p)
    BY DEF Next
  <2>3. CASE WriteFails(p) \/ Unlink(p)
    BY <2>1, <2>3 DEF IInv, PathInv, Holding, WriteFails, Unlink, RemoveFor
  <2>4. CASE Remove(p)
    BY <2>1, <2>4 DEF Remove, RemoveFor
  <2>5. CASE ~(WriteFails(p) \/ Unlink(p) \/ Remove(p))
    <3>1. robbed' = robbed
      BY <2>2, <2>5 DEF Create, FindExisting, Write, ReadExisting, EndEffect, CheckOwner,
                        ReadOwner, Probe, Die, Start, files
    <3>2. QED
      BY <2>1, <3>1
  <2>6. QED
    BY <2>3, <2>4, <2>5
<1>2. QED
  BY <1>1, Invariant, PTL DEF Spec, PreemptsOnlyInRaces

-----------------------------------------------------------------------------
(* The refinement: what each step does to the ownership. *)

\* A step of the lock file protocol, seen through the refinement mapping.
LEMMA RefineStep == IInv /\ [Next]_vars => [Ownership!Next]_Ownership!vars
<1> SUFFICES ASSUME IInv, [Next]_vars
             PROVE Ownership!Next \/ UNCHANGED Ownership!vars
  BY DEF Ownership!Next, Ownership!vars
<1> USE ConstantsAssumption
    DEF IInv, TypeOK, OwnInv, PathInv, ClearInv, Holding, GoTo, Return, files
<1> USE DEF Running, Gone, Judged, Abandoned, Used
<1>1. ASSUME NEW p \in Proc, Create(p) PROVE Ownership!Next
  <2>1. PICK o \in OwnerId \ Used : path' = o /\ pid' = [pid EXCEPT ![o] = p]
                                   /\ own' = [own EXCEPT ![p] = o]
    BY <1>1 DEF Create
  <2>2. Ownership!Take(o)
    BY <1>1, <2>1 DEF Create, Ownership!Take
  <2>3. QED
    BY <2>2 DEF Ownership!Next
<1>2. ASSUME NEW p \in Proc, FindExisting(p) PROVE UNCHANGED Ownership!vars
  BY <1>2 DEF FindExisting, Ownership!vars
<1>3. ASSUME NEW p \in Proc, Write(p) PROVE Ownership!Next
  <2>1. PICK o \in OwnerId : o = own[p]
    BY <1>3 DEF Write
  <2>2. Ownership!Begin(o)
    BY <1>3, <2>1 DEF Write, Ownership!Begin
  <2>3. QED
    BY <2>2 DEF Ownership!Next
<1>4. ASSUME NEW p \in Proc, WriteFails(p) PROVE Ownership!Next
  <2>1. PICK o \in OwnerId : o = own[p]
    BY <1>4 DEF WriteFails
  <2>2. Ownership!Remove(o)
    BY <1>4, <2>1 DEF WriteFails, RemoveFor, Ownership!Remove
  <2>3. QED
    BY <2>2 DEF Ownership!Next
<1>5. ASSUME NEW p \in Proc, ReadExisting(p) PROVE UNCHANGED Ownership!vars
  BY <1>5 DEF ReadExisting, Ownership!vars
<1>6. ASSUME NEW p \in Proc, EndEffect(p) PROVE Ownership!Next
  <2>1. PICK o \in OwnerId : o = own[p]
    BY <1>6 DEF EndEffect
  <2>2. Ownership!End(o)
    BY <1>6, <2>1 DEF EndEffect, Ownership!End
  <2>3. QED
    BY <2>2 DEF Ownership!Next
<1>7. ASSUME NEW p \in Proc, CheckOwner(p) PROVE Ownership!Next
  <2>1. PICK o \in OwnerId : o = own[p]
    BY <1>7 DEF CheckOwner
  <2>2. CASE path = own[p]
    <3>1. Ownership!Judge(o)
      BY <1>7, <2>1, <2>2 DEF CheckOwner, Ownership!Judge
    <3>2. QED
      BY <3>1 DEF Ownership!Next
  <2>3. CASE path # own[p]
    <3>1. Ownership!Leave(o)
      BY <1>7, <2>1, <2>3 DEF CheckOwner, Ownership!Leave
    <3>2. QED
      BY <3>1 DEF Ownership!Next
  <2>4. QED
    BY <2>2, <2>3
<1>8. ASSUME NEW p \in Proc, Unlink(p) PROVE Ownership!Next
  <2>1. PICK o \in OwnerId : o = own[p]
    BY <1>8 DEF Unlink
  <2>2. Ownership!Remove(o)
    BY <1>8, <2>1 DEF Unlink, RemoveFor, Ownership!Remove
  <2>3. QED
    BY <2>2 DEF Ownership!Next
<1>9. ASSUME NEW p \in Proc, ReadOwner(p) PROVE UNCHANGED Ownership!vars
  BY <1>9 DEF ReadOwner, Ownership!vars
<1>10. ASSUME NEW p \in Proc, Probe(p) PROVE Ownership!Next \/ UNCHANGED Ownership!vars
  <2>1. CASE Alive(pid[seen[p]])
    BY <1>10, <2>1 DEF Probe, Ownership!vars
  <2>2. CASE ~Alive(pid[seen[p]])
    <3>1. PICK o \in OwnerId : o = seen[p]
      BY <1>10 DEF Probe
    <3>2. Abandoned(o)
      BY <1>10, <2>2, <3>1 DEF Probe, Alive
    <3>3. Ownership!Judge(o)
      BY <1>10, <2>2, <3>1, <3>2 DEF Probe, Ownership!Judge
    <3>4. QED
      BY <3>3 DEF Ownership!Next
  <2>3. QED
    BY <2>1, <2>2
<1>11. ASSUME NEW p \in Proc, Remove(p) PROVE Ownership!Next
  <2>1. PICK o \in OwnerId : o = seen[p]
    BY <1>11 DEF Remove
  <2>2. Ownership!Remove(o)
    BY <1>11, <2>1 DEF Remove, RemoveFor, Ownership!Remove
  <2>3. QED
    BY <2>2 DEF Ownership!Next
<1>12. ASSUME NEW p \in Proc, Die(p) PROVE Ownership!Next \/ UNCHANGED Ownership!vars
  <2>1. CASE own[p] # None
    <3>1. PICK o \in OwnerId : o = own[p]
      BY <2>1
    <3>2. Ownership!Leave(o)
      BY <1>12, <2>1, <3>1 DEF Die, Ownership!Leave
    <3>3. QED
      BY <3>2 DEF Ownership!Next
  <2>2. CASE own[p] = None /\ pc[p] = "remove"
    <3>1. PICK o \in OwnerId : o = seen[p]
      BY <2>2
    <3>2. Judged' \in {Judged, Judged \ {o}}
      BY <1>12, <2>2, <3>1 DEF Die
    <3>3. Ownership!Recant(o) \/ UNCHANGED Ownership!vars
      BY <1>12, <2>2, <3>1, <3>2 DEF Die, Ownership!Recant, Ownership!vars
    <3>4. QED
      BY <3>3 DEF Ownership!Next
  <2>3. CASE own[p] = None /\ pc[p] # "remove"
    BY <1>12, <2>3 DEF Die, Ownership!vars
  <2>4. QED
    BY <2>1, <2>2, <2>3
<1>13. ASSUME NEW p \in Proc, Start(p) PROVE UNCHANGED Ownership!vars
  BY <1>13 DEF Start, Alive, Ownership!vars
<1>14. CASE UNCHANGED vars
  BY <1>14 DEF vars, Ownership!vars
<1>15. QED
  BY <1>1, <1>2, <1>3, <1>4, <1>5, <1>6, <1>7, <1>8, <1>9, <1>10, <1>11, <1>12,
     <1>13, <1>14 DEF Next

\* The lock files do what a Mirror Lock promises.
THEOREM LocksImplementOwnership == Spec => ImplementsOwnership
<1>1. Init => Ownership!Init
  BY ConstantsAssumption DEF Init, Ownership!Init, Running, Gone, Judged, Abandoned, Used
<1>2. IInv /\ [Next]_vars => [Ownership!Next]_Ownership!vars
  BY RefineStep
<1>3. QED
  BY <1>1, <1>2, Invariant, PTL DEF Spec, ImplementsOwnership, Ownership!Spec

=============================================================================
