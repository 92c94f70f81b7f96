--------------------------- MODULE MirrorObligation ---------------------------
(***************************************************************************)
(* What the storage side promises of one closed session, whatever the      *)
(* provider (docs/adr/0004, 0018, 0022 and 0024): the diary is recorded     *)
(* locally first; remote effects belong to an obligation that the journal  *)
(* shows already; the Remote Binding names one remote object and keeps     *)
(* naming it; an obligation ends with a binding, or is disputed with the   *)
(* evidence at hand. StorageSync (GitHub Issues) and WikiSync (GitHub      *)
(* Wiki) are shown to keep this promise.                                   *)
(***************************************************************************)

CONSTANTS
  Objects,   \* the remote objects that may come to mirror the diary
  Strangers, \* the evidence of objects that do not show to be the diary's
  None

VARIABLES
  recorded,  \* the diary as the journal has it, or None
  stage,     \* of the obligation: "none", "due", "disputed" or "settled"
  grounds,   \* the evidence that a disputed obligation is disputed on, or None
  effects,   \* the remote objects made for the diary
  bound,     \* the remote object in the Remote Binding, as a set of at most one
  kept       \* the evidence kept locally

vars == <<recorded, stage, grounds, effects, bound, kept>>

Init ==
  /\ recorded = None /\ grounds = None
  /\ stage = "none"
  /\ effects = {} /\ bound = {} /\ kept = {}

\* There is an obligation: the journal says so.
Obliged == stage # "none"

-----------------------------------------------------------------------------
(* The journal *)

\* The first diary that is closed is the one that is mirrored.
Record ==
  /\ recorded = None
  /\ recorded' # None
  /\ UNCHANGED <<stage, grounds, effects, bound, kept>>

\* The obligation begins, or is due again.
Owe ==
  /\ recorded # None
  /\ stage' = "due" /\ grounds' = None
  /\ UNCHANGED <<recorded, effects, bound, kept>>

Settle ==
  /\ Obliged
  /\ bound # {}
  /\ stage' = "settled" /\ grounds' = None
  /\ UNCHANGED <<recorded, effects, bound, kept>>

\* The evidence is kept before it is pointed at; an object that is not bound
\* is disputed only if it is not shown to be the diary's.
Dispute ==
  /\ Obliged
  /\ \E e \in kept :
       /\ bound # {} \/ e \in Strangers
       /\ stage' = "disputed" /\ grounds' = e
  /\ UNCHANGED <<recorded, effects, bound, kept>>

-----------------------------------------------------------------------------
(* The remote effects, and what is kept of them *)

Affect ==
  /\ Obliged
  /\ \E o \in Objects : effects' = effects \cup {o}
  /\ UNCHANGED <<recorded, stage, grounds, bound, kept>>

\* The first binding names an object that was made for the diary, or one that
\* evidence is kept of; later ones name the same object.
Bind ==
  /\ Obliged
  /\ \E o \in Objects :
       /\ bound \subseteq {o}
       /\ o \in effects \/ kept # {}
       /\ bound' = {o}
  /\ UNCHANGED <<recorded, stage, grounds, effects, kept>>

Keep ==
  /\ Obliged
  /\ kept \subseteq kept'
  /\ UNCHANGED <<recorded, stage, grounds, effects, bound>>

Next == Record \/ Owe \/ Settle \/ Dispute \/ Affect \/ Bind \/ Keep

Spec == Init /\ [][Next]_vars

-----------------------------------------------------------------------------
(* What can be relied on *)

\* Whoever reads the journal may believe it: what is settled is bound, what is
\* disputed has its evidence, and what was done was owed (what `sync recovery`
\* lists, core/recovery.go:94-101, is all that a user has to look at).
Honest ==
  /\ Obliged => recorded # None
  /\ effects # {} \/ bound # {} \/ kept # {} => Obliged
  /\ stage = "settled" => bound # {}
  /\ stage = "disputed" => grounds \in kept /\ (bound = {} => grounds \in Strangers)
=============================================================================
