----------------------------- MODULE StorageSync -----------------------------
(***************************************************************************)
(* The storage side of a saga over GitHub Issues: the commands of          *)
(* StorageCommands, the mirror of IssuesMirror, and the edits of people.    *)
(***************************************************************************)

EXTENDS StorageCommands, IssuesMirror

vars == <<mirrorVars, commandVars>>

Init == MirrorInit /\ CommandInit

-----------------------------------------------------------------------------
(* The system *)

\* What a running command does next.
Continue(p) ==
  \/ CallStep(p) /\ UNCHANGED commandVars
  \/ CommandStep(p) /\ UNCHANGED remote

Next ==
  \/ \E p \in Proc : Continue(p) \/ (Begin(p) /\ UNCHANGED remote)
  \/ Edit /\ UNCHANGED commandVars
  \/ ClearLock /\ UNCHANGED <<remote, commandVars>>

Spec == Init /\ [][Next]_vars

\* A running command goes on; somebody retries while a retry is due, and
\* clears the lock that a crash has left.
Fairness ==
  /\ \A p \in Proc : WF_vars(Continue(p))
  /\ WF_vars(\E p \in Proc : Retry(p) /\ UNCHANGED remote)
  /\ WF_vars(ClearLock /\ UNCHANGED <<remote, commandVars>>)

FairSpec == Spec /\ Fairness

-----------------------------------------------------------------------------
(* The promise of MirrorObligation, over Issues *)

Made == DOMAIN issues
Bound == IF binding = None THEN {} ELSE {IssueOf(binding)}

Promise ==
  INSTANCE MirrorObligation WITH
    Objects <- 1..MaxIssues, Strangers <- {},
    recorded <- view.closed, stage <- Stage, grounds <- Grounds,
    effects <- Made, bound <- Bound, kept <- snapshots

-----------------------------------------------------------------------------
(* Properties *)

TypeOK ==
  /\ issues \in Seq([text : Text, open : BOOLEAN, ver : Nat])
  /\ comments \in Seq([text : Text, issue : 1..MaxIssues, pred : Revision, ver : Nat])
  /\ binding \in Revision \cup {None}
  /\ resent \subseteq Proc \X Revision
  /\ snapshots \subseteq Revision /\ blanks \subseteq snapshots
  /\ lock \in Proc \cup {"orphan", "empty", None}
  /\ at \in [Proc -> {"idle", "acquire", "read_issue", "read_comment", "read_predecessor",
                      "scan", "create", "provisional", "close", "close_unbound",
                      "find_correction", "correct", "snapshot", "bind", "release", "done"}]
  /\ op \in [Proc -> {"mirror", "recover"} \cup Resolutions]
  /\ local \in [Proc -> Proc]
  /\ observed \in [Proc -> Revision \cup {None}]
  /\ got \in [Proc -> Revision \cup {None}]
  /\ result \in [Proc -> [state : States, rev : Revision \cup {None}, busy : BOOLEAN,
                      unverified : BOOLEAN, bare : BOOLEAN]]
  /\ edits \in 0..MaxEdits /\ faults \in 0..MaxFaults
  /\ CommandsTyped
  /\ view \in [closed : Proc \cup {None},
               storage : [state : States, rev : Revision \cup {None}] \cup {None},
               settled : BOOLEAN]

\* Whatever crashes, a remote Issue never exists that the journal does not
\* account for: the saga is listed for recovery, or it is settled and bound to
\* an Issue (the intent before the first effect, core/session.go:343-344).
EffectsAreAccountedFor ==
  issues # <<>> => /\ view.storage # None
                   /\ view.settled => binding # None

\* There is a snapshot of r, and it shows what people have written.
Kept(r) == r \in snapshots /\ (r.text \in Edits => r \notin blanks)

\* A journaled conflict can be resolved: there is a snapshot of the remote
\* version it was found on, with its content whenever people have written that,
\* and the mirror is bound (run, storage/recovery.go:385-403).
ConflictHasEvidence == Listed("conflict") => Kept(view.storage.rev) /\ binding # None

\* A correction supersedes only a remote version that there is a snapshot of,
\* and what people have written only once it was kept and displayed, however
\* the remote changed while the user decided (resolve,
\* issues_semantics.go:127-133).
CorrectionsSupersedeKept == \A c \in DOMAIN comments : Kept(comments[c].pred)

\* A keep-local that is delivered again after a crash takes the correction it
\* left over: two corrections of one version say the same only if people have
\* made them so, or the transport has sent that correction again (findCorrection,
\* rest.go:375-377; the retries of request, rest.go:445-491).
CorrectionsAreUnique ==
  \A c, d \in DOMAIN comments :
    /\ comments[c].pred = comments[d].pred
    /\ comments[c].text = comments[d].text
    /\ comments[c].text \in Proc
    => c = d \/ <<comments[c].text, comments[c].pred>> \in resent

\* The Remote Binding never comes to name another Issue, whoever writes it.
BindingKeepsIdentity ==
  [][binding # None => binding' # None /\ IssueOf(binding)' = IssueOf(binding)]_binding

\* Without a fault the diary has one Issue, and each fault adds at most one: a
\* duplicate needs a lost answer, a binding that is not written or a crash of its
\* own, however many processes close and retry (the lock and the provisional
\* binding, issues_semantics.go:70-83 and storage/recovery.go:363-378).
DuplicatesCostFaults == Len(issues) <= 1 + faults

\* Every step is a step of MirrorObligation: intent before effect, binding
\* before success, evidence before conflict, and one identity (session.go:343,
\* storage/recovery.go:363-403, recovery.go:73-90).
ImplementsObligation == Promise!Spec

\* An obligation that is listed for retry comes to be settled or a conflict, if
\* it is retried and orphaned locks are cleared; unless a crash has left the key
\* with an empty lock file, which ClearOrphan refuses (recovery.go:259-261).
ObligationsSettle ==
  Retryable ~> (view.settled \/ Listed("conflict") \/ lock = "empty")

\* The diary has a single Remote Mirror.
OneIssue == Len(issues) <= 1

\* A listed conflict is settled only by `sync resolve`.
ConflictsSettleExplicitly ==
  [][Listed("conflict") /\ view'.settled => \E p \in Proc : ResolveOutcome(p)]_view
=============================================================================
