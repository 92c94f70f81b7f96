------------------------------ MODULE WikiSync ------------------------------
(***************************************************************************)
(* The storage side of a saga over a GitHub Wiki: the commands of          *)
(* StorageCommands, the mirror of WikiMirror, and the people at the Wiki.   *)
(***************************************************************************)

EXTENDS StorageCommands, WikiMirror

vars == <<mirrorVars, commandVars>>

Init == MirrorInit /\ CommandInit

-----------------------------------------------------------------------------
(* The system *)

\* What a running command does next.
Continue(p) ==
  \/ CallStep(p) /\ UNCHANGED commandVars
  \/ CommandStep(p) /\ UNCHANGED commits

Next ==
  \/ \E p \in Proc : Continue(p) \/ (Begin(p) /\ UNCHANGED commits)
  \/ (FirstPage \/ Edit) /\ UNCHANGED commandVars
  \/ ClearLock /\ UNCHANGED <<commits, commandVars>>

Spec == Init /\ [][Next]_vars

-----------------------------------------------------------------------------
(* The promise of MirrorObligation, over the diary's page *)

Made == IF \E n \in DOMAIN commits : commits[n].by # None THEN {"page"} ELSE {}
Bound == IF binding = None THEN {} ELSE {"page"}

Promise ==
  INSTANCE MirrorObligation WITH
    Objects <- {"page"}, Strangers <- {r \in Revision : ~Marked(r.text)},
    recorded <- view.closed, stage <- Stage, grounds <- Grounds,
    effects <- Made, bound <- Bound, kept <- snapshots

-----------------------------------------------------------------------------
(* Properties *)

TypeOK ==
  /\ commits \in Seq([text : Pages, by : Proc \cup {None}])
  /\ binding \in Revision \cup {None}
  /\ snapshots \subseteq Revision /\ blanks = {}
  /\ lock \in Proc \cup {"orphan", "empty", None}
  /\ at \in [Proc -> {"idle", "acquire", "clone", "push", "refresh", "snapshot", "bind",
                      "release", "done"}]
  /\ op \in [Proc -> {"mirror", "recover"} \cup Resolutions]
  /\ local \in [Proc -> Proc]
  /\ observed \in [Proc -> Revision \cup {None}]
  /\ got \in [Proc -> Revision \cup {None}]
  /\ result \in [Proc -> [state : States, rev : Revision \cup {None}, busy : BOOLEAN,
                      unverified : BOOLEAN, bare : {FALSE}]]
  /\ edits \in 0..MaxEdits /\ faults \in 0..MaxFaults
  /\ CommandsTyped
  /\ view.storage \in [state : States, rev : Revision \cup {None}] \cup {None}

\* What people wrote into the page is replaced only after it was kept as a
\* snapshot at that very head, whoever pushes in between (the comparison with
\* the observed head, wiki.go:228, and the fast-forward push, wiki.go:268).
ReplacesOnlyKept ==
  \A n \in 2..Tip :
    commits[n].by \in Proc /\ commits[n-1].text # None => Revise(n-1) \in snapshots

\* A journaled conflict can be displayed and resolved: its remote content is
\* kept, and the mirror is bound unless the page's identity is not verified
\* (run, storage/recovery.go:385-403).
ConflictHasEvidence ==
  Listed("conflict") => /\ view.storage.rev \in snapshots
                        /\ binding = None => ~Marked(view.storage.rev.text)

\* Every step is a step of MirrorObligation: intent before effect, binding
\* before success, evidence before conflict (session.go:343,
\* storage/recovery.go:363-403, recovery.go:73-90).
ImplementsObligation == Promise!Spec

\* The binding never goes back to an earlier head, although several processes
\* clone, compare and save (the lock around the whole call).
BindingAdvances ==
  [][binding # None => binding' # None /\ binding'.head >= binding.head]_binding

\* A page without the diary's marker is bound by nothing but a resolution: no
\* mirror, retry or lost race takes a stranger's page for the diary
\* (UnverifiedIdentity, wiki.go:220 and storage/recovery.go:391).
StrangersStayUnbound ==
  [][binding' # None /\ ~Marked(binding'.text)
       => \E p \in Proc : at[p] = "bind" /\ op[p] \in Resolutions]_binding
=============================================================================
