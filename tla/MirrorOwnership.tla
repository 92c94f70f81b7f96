-------------------------- MODULE MirrorOwnership --------------------------
(***************************************************************************)
(* What a Mirror Lock promises, as docs/adr/0024 and CONTEXT.md put it: of *)
(* all the attempts to mirror one diary at most one owns the diary's key;  *)
(* only the owner runs the remote effect; and the ownership ends when the  *)
(* owner gives it up or, once the owner is gone, by explicit recovery.     *)
(*                                                                         *)
(* The implementations look before they remove a lock, and remove whatever *)
(* is there then. So ownership is removed on the account of an attempt     *)
(* that was judged to be past its effect, and may hit one that has taken   *)
(* the key since: that attempt is robbed. Which attempts are robbed is a   *)
(* history variable; what can still be relied on is stated in its terms.   *)
(*                                                                         *)
(* MirrorLocks, the lock-file protocol of storage/recovery.go, and the     *)
(* lock of the Skill Catalog (SkillCatalog) implement this specification.  *)
(***************************************************************************)
EXTENDS TLAPS

CONSTANT Attempt   \* acquisitions of the lock, each with an OwnerID of its own

VARIABLES
  holders,   \* the attempt that owns the key, as a set of at most one
  running,   \* the attempts that are running the remote effect
  gone,      \* the attempts that will never act again
  judged,    \* the attempts on whose account somebody is about to remove the key
  robbed     \* the attempts whose ownership was removed on another's account

vars == <<holders, running, gone, judged, robbed>>

Init ==
  /\ holders = {} /\ running = {} /\ gone = {}
  /\ judged = {} /\ robbed = {}

Take(a) ==
  /\ holders = {}
  /\ a \notin gone
  /\ holders' = {a}
  /\ UNCHANGED <<running, gone, judged, robbed>>

\* An attempt that was robbed does not notice.
Begin(a) ==
  /\ a \in (holders \cup robbed) \ (gone \cup judged)
  /\ running' = running \cup {a}
  /\ UNCHANGED <<holders, gone, judged, robbed>>

End(a) ==
  /\ a \in running
  /\ running' = running \ {a}
  /\ UNCHANGED <<holders, gone, judged, robbed>>

\* An attempt is found to be gone, or finds itself the owner and is past its effect.
Judge(a) ==
  /\ a \in gone \cup (holders \ running)
  /\ judged' = judged \cup {a}
  /\ UNCHANGED <<holders, running, gone, robbed>>

\* Whoever was about to remove the key does not come to it.
Recant(a) ==
  /\ judged' = judged \ {a}
  /\ UNCHANGED <<holders, running, gone, robbed>>

\* The key is taken from whoever has it, on the account of an attempt that was
\* judged, or of one that gives up before its effect; that attempt is over.
Remove(a) ==
  /\ \/ a \in judged
     \/ a \in (holders \cup robbed) \ (running \cup gone)
  /\ holders' = {}
  /\ robbed' = robbed \cup (holders \ {a})
  /\ gone' = gone \cup {a}
  /\ judged' \in {judged, judged \ {a}}
  /\ UNCHANGED running

\* An attempt ends, or its process does; what it owns stays behind.
Leave(a) ==
  /\ a \notin gone
  /\ running' = running \ {a}
  /\ gone' = gone \cup {a}
  /\ judged' = judged \ {a}
  /\ UNCHANGED <<holders, robbed>>

Next ==
  \E a \in Attempt :
    \/ Take(a) \/ Begin(a) \/ End(a) \/ Judge(a) \/ Recant(a) \/ Remove(a) \/ Leave(a)

Spec == Init /\ [][Next]_vars

-----------------------------------------------------------------------------

\* Whoever runs the remote effect owns the key, unless it has been robbed, and
\* at most one attempt owns it.
Exclusive ==
  /\ running \subseteq holders \cup robbed
  /\ \A a, b \in holders : a = b

\* Exclusion survives every removal: one on the account of an attempt that is
\* past its effect takes the key from no attempt that runs it, but for those it
\* robs. (The promise that both lock files are shown to keep.)
THEOREM OwnershipIsExclusive == Spec => []Exclusive
<1> DEFINE Inv == /\ Exclusive
                  /\ running \cap (gone \cup judged) = {}
                  /\ judged \subseteq holders \cup gone \cup robbed
<1>1. Init => Inv
  BY DEF Init, Exclusive
<1>2. Inv /\ [Next]_vars => Inv'
  <2> SUFFICES ASSUME Inv, [Next]_vars PROVE Inv'
    OBVIOUS
  <2> USE DEF Exclusive
  <2>1. ASSUME NEW a \in Attempt, Take(a) PROVE Inv'
    BY <2>1 DEF Take
  <2>2. ASSUME NEW a \in Attempt, Begin(a) PROVE Inv'
    BY <2>2 DEF Begin
  <2>3. ASSUME NEW a \in Attempt, End(a) PROVE Inv'
    BY <2>3 DEF End
  <2>4. ASSUME NEW a \in Attempt, Judge(a) PROVE Inv'
    BY <2>4 DEF Judge
  <2>5. ASSUME NEW a \in Attempt, Recant(a) PROVE Inv'
    BY <2>5 DEF Recant
  <2>6. ASSUME NEW a \in Attempt, Remove(a) PROVE Inv'
    BY <2>6 DEF Remove
  <2>7. ASSUME NEW a \in Attempt, Leave(a) PROVE Inv'
    BY <2>7 DEF Leave
  <2>8. CASE UNCHANGED vars
    BY <2>8 DEF vars
  <2>9. QED
    BY <2>1, <2>2, <2>3, <2>4, <2>5, <2>6, <2>7, <2>8 DEF Next
<1>3. Inv => Exclusive
  OBVIOUS
<1>4. QED
  BY <1>1, <1>2, <1>3, PTL DEF Spec

=============================================================================
