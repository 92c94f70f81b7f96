---------------------------- MODULE IssuesMirror ----------------------------
(***************************************************************************)
(* The mirror of one Session Diary as a GitHub Issue: ManagedMirror around *)
(* issueSemantics of adapters/githubissues, for the processes that call it *)
(* with the same Idempotency Key, and the human edits on the remote side.  *)
(*                                                                         *)
(* A text stands for the Session Diary as one process rendered it (the     *)
(* rendering contains created_at) or for what an edit made of it. A Remote *)
(* Revision is the object's kind, number, version (updated_at) and text    *)
(* (its hash).                                                             *)
(***************************************************************************)

EXTENDS ManagedMirror

CONSTANTS
  Edits,          \* the texts that edits leave; "unmarked" has no diary marker
  CommentTouches, \* whether a new comment advances its Issue's updated_at
  Reposts,        \* whether the transport sends a create request again that was
                  \* answered as a transient failure (REST), or does not (MCP)
  MaxIssues, MaxComments  \* bounds on the remote objects

ASSUME ConstantsAssumption ==
  /\ None \notin Edits
  /\ Proc \cap Edits = {}
  /\ CommentTouches \in BOOLEAN /\ Reposts \in BOOLEAN
  /\ {MaxIssues, MaxComments} \subseteq Nat

VARIABLES
  issues,    \* the Issues created for the key: text, open, version
  comments,  \* the Remote Corrections: text, Issue, predecessor, version
  resent     \* the text and predecessor of the corrections that were sent again

remote == <<issues, comments, resent>>
mirrorVars == <<issues, comments, resent, managedVars>>

Text == Proc \cup Edits
IssueRev == [kind : {"issue"}, id : 1..MaxIssues, ver : Nat, text : Text]
CommentRev == [kind : {"comment"}, id : 1..MaxComments, ver : Nat, text : Text]
Revision == IssueRev \cup CommentRev

ASSUME RevisionAssumption ==
  None \notin Revision \cup [state : States, rev : Revision \cup {None}]

IssueRevision(i) ==
  [kind |-> "issue", id |-> i, ver |-> issues[i].ver, text |-> issues[i].text]
CommentRevision(c) ==
  [kind |-> "comment", id |-> c, ver |-> comments[c].ver, text |-> comments[c].text]
Current(r) == IF r.kind = "issue" THEN IssueRevision(r.id) ELSE CommentRevision(r.id)

\* The Issue of a revision: the RemoteID that a binding has beside it.
IssueOf(r) == IF r.kind = "issue" THEN r.id ELSE comments[r.id].issue

\* The Issues that findMarked lists: closed, labelled, with the diary marker.
FindMarked == {i \in DOMAIN issues : ~issues[i].open /\ issues[i].text # "unmarked"}

MirrorInit == ManagedInit /\ issues = <<>> /\ comments = <<>> /\ resent = {}

\* Where the binding sends a call: to its object, or without one to the scan
\* (explicit recovery only), a new Issue, or back.
Route(p) ==
  CASE binding # None -> IF binding.kind = "issue" THEN "read_issue" ELSE "read_comment"
    [] binding = None /\ op[p] = "recover" -> "scan"
    [] binding = None /\ op[p] = "mirror" -> "create"
    [] OTHER -> "release"

\* finishExisting: an Issue that was found holds the diary, or conflicts.
FinishExisting(p, r) ==
  CASE r.text # local[p] -> End(p, "conflict", r) /\ UNCHANGED got
    [] r.text = local[p] /\ issues[r.id].open ->
         Goto(p, "close") /\ got' = [got EXCEPT ![p] = r] /\ UNCHANGED result
    [] OTHER -> End(p, "mirrored", r) /\ UNCHANGED got

\* Faulty variant: a resolution acts on what it finds now, not on what was displayed.
ResolveUnobserved(p, r) ==
  IF op[p] = "keep_remote" \/ r.text = local[p]
  THEN End(p, "mirrored", r) /\ UNCHANGED got
  ELSE Goto(p, "find_correction") /\ got' = [got EXCEPT ![p] = r] /\ UNCHANGED result

\* What resolve does with the effective remote revision r.
Resolve(p, r) ==
  CASE r # observed[p] -> End(p, "conflict", r) /\ UNCHANGED got
    [] r = observed[p] /\ (op[p] = "keep_remote" \/ r.text = local[p]) ->
         End(p, "mirrored", r) /\ UNCHANGED got
    [] OTHER ->
         Goto(p, "find_correction") /\ got' = [got EXCEPT ![p] = r] /\ UNCHANGED result

\* What a call does with the effective remote revision r of a bound mirror.
Effective(p, r) ==
  IF op[p] \in Resolutions
  THEN Resolve(p, r)
  ELSE End(p, IF r.text = local[p] THEN "mirrored" ELSE "conflict", r) /\ UNCHANGED got

-----------------------------------------------------------------------------
(* Faulty variants: what the properties are there to catch. *)

\* keep-local always writes a new correction.
FindCorrectionNever(p) ==
  /\ at[p] = "find_correction"
  /\ Goto(p, "correct")
  /\ UNCHANGED <<remote, store, request, got, result, bounds>>

-----------------------------------------------------------------------------
(* Reading the remote *)

\* The lock is taken; the binding decides the way to the remote.
Acquire(p) == TakeLock(p, Route(p)) /\ UNCHANGED remote

\* getIssue of the bound Issue.
ReadIssue(p) ==
  /\ at[p] = "read_issue"
  /\ LET r == IssueRevision(binding.id)
     IN IF op[p] \in Resolutions THEN Effective(p, r) ELSE FinishExisting(p, r)
  /\ UNCHANGED <<remote, store, request, bounds>>

\* getComment of the bound correction: an edited one is what the remote says;
\* an intact one counts only while its predecessor stands.
ReadComment(p) ==
  /\ at[p] = "read_comment"
  /\ LET r == CommentRevision(binding.id)
     IN IF r.text \in Edits
        THEN Effective(p, r)
        ELSE Goto(p, "read_predecessor") /\ got' = [got EXCEPT ![p] = r] /\ UNCHANGED result
  /\ UNCHANGED <<remote, store, request, bounds>>

ReadPredecessor(p) ==
  /\ at[p] = "read_predecessor"
  /\ LET pred == comments[got[p].id].pred
     IN Effective(p, IF Current(pred) = pred THEN got[p] ELSE Current(pred))
  /\ UNCHANGED <<remote, store, request, bounds>>

\* findMarked, by explicit recovery of an unbound mirror only.
Scan(p) ==
  /\ at[p] = "scan"
  /\ IF FindMarked = {}
     THEN Goto(p, "create") /\ UNCHANGED <<got, result>>
     ELSE \E i \in FindMarked : FinishExisting(p, IssueRevision(i))
  /\ UNCHANGED <<remote, store, request, bounds>>

-----------------------------------------------------------------------------
(* Remote effects *)

NewIssue(p) ==
  /\ Len(issues) < MaxIssues
  /\ issues' = Append(issues, [text |-> local[p], open |-> TRUE, ver |-> 0])

\* ensureLabels and createIssue.
CreateIssue(p) ==
  /\ at[p] = "create"
  /\ NewIssue(p)
  /\ got' = [got EXCEPT ![p] = [kind |-> "issue", id |-> Len(issues) + 1,
                                ver |-> 0, text |-> local[p]]]
  /\ Goto(p, "provisional")
  /\ UNCHANGED <<comments, resent, store, request, result, bounds>>

\* The Issue exists but the request is seen to fail; on a status that counts
\* as transient it may be sent again.
CreateIssueLost(p) ==
  /\ at[p] = "create"
  /\ NewIssue(p)
  /\ Fault
  /\ \/ End(p, "pending", None)
     \/ Reposts /\ UNCHANGED <<at, result>>
  /\ UNCHANGED <<comments, resent, store, request, got>>

\* The provisional binding; if it is not seen to be written the call goes on
\* without it.
SaveProvisional(p) ==
  /\ at[p] = "provisional"
  /\ \/ binding' = got[p] /\ Goto(p, "close") /\ UNCHANGED bounds
     \/ Fault /\ Goto(p, "close_unbound") /\ binding' \in {binding, got[p]}
  /\ UNCHANGED <<remote, evidence, lock, request, got, result>>

Closed(i) == issues' = [issues EXCEPT ![i].open = FALSE, ![i].ver = @ + 1]

\* closeIssue: the revision in the answer is bound, its body is not compared.
CloseIssue(p) ==
  /\ at[p] \in {"close", "close_unbound"}
  /\ Closed(got[p].id)
  /\ LET i == issues[got[p].id]
         r == [got[p] EXCEPT !.ver = i.ver + 1, !.text = i.text]
     IN End(p, IF at[p] = "close" THEN "mirrored" ELSE "pending", r)
  /\ UNCHANGED <<comments, resent, store, request, got, bounds>>

CloseIssueLost(p) ==
  /\ at[p] \in {"close", "close_unbound"}
  /\ Closed(got[p].id)
  /\ Fault
  /\ End(p, "pending", got[p])
  /\ UNCHANGED <<comments, resent, store, request, got>>

\* A correction that an interrupted keep-local left behind is taken over.
FindCorrection(p) ==
  /\ at[p] = "find_correction"
  /\ LET Left == {c \in DOMAIN comments : comments[c].issue = IssueOf(binding)
                    /\ comments[c].text = local[p] /\ comments[c].pred = got[p]}
     IN IF Left = {}
        THEN Goto(p, "correct") /\ UNCHANGED result
        ELSE \E c \in Left : End(p, "mirrored", CommentRevision(c))
  /\ UNCHANGED <<remote, store, request, got, bounds>>

NewCorrection(p) ==
  /\ Len(comments) < MaxComments
  /\ comments' = Append(comments, [text |-> local[p], issue |-> IssueOf(binding),
                                   pred |-> got[p], ver |-> 0])
  /\ issues' = IF CommentTouches THEN [issues EXCEPT ![IssueOf(binding)].ver = @ + 1]
               ELSE issues

CreateCorrection(p) ==
  /\ at[p] = "correct"
  /\ NewCorrection(p)
  /\ End(p, "mirrored", [kind |-> "comment", id |-> Len(comments) + 1,
                         ver |-> 0, text |-> local[p]])
  /\ UNCHANGED <<resent, store, request, got, bounds>>

CreateCorrectionLost(p) ==
  /\ at[p] = "correct"
  /\ NewCorrection(p)
  /\ Fault
  /\ \/ End(p, "pending", None) /\ UNCHANGED resent
     \/ /\ Reposts
        /\ resent' = resent \cup {<<local[p], got[p]>>}
        /\ UNCHANGED <<at, result>>
  /\ UNCHANGED <<store, request, got>>

\* A request has no effect: transient failure, or a missing prerequisite.
RequestFails(p) ==
  /\ at[p] \in {"read_issue", "read_comment", "read_predecessor", "scan", "create",
                "close", "close_unbound", "find_correction", "correct"}
  /\ Fault
  /\ \E s \in {"pending", "prerequisite"} : End(p, s, None)
  /\ UNCHANGED <<remote, store, request, got>>

\* A mutation, or the list of comments, is answered with status 409: that is a
\* conflict on the revision read last. resolve has put its content into the
\* result; where an Issue is closed nobody has.
Refused(p) ==
  /\ Fault
  /\ \/ at[p] \in {"find_correction", "correct"} /\ End(p, "conflict", got[p])
     \/ at[p] \in {"close", "close_unbound"} /\ EndBare(p, "conflict", got[p])
  /\ UNCHANGED <<remote, store, request, got>>

-----------------------------------------------------------------------------
Edit ==
  /\ edits < MaxEdits
  /\ edits' = edits + 1
  /\ \E t \in Edits :
       \/ \E i \in DOMAIN issues :
            issues' = [issues EXCEPT ![i].text = t, ![i].ver = @ + 1] /\ UNCHANGED comments
       \/ \E c \in DOMAIN comments :
            comments' = [comments EXCEPT ![c].text = t, ![c].ver = @ + 1] /\ UNCHANGED issues
  /\ UNCHANGED <<resent, store, at, request, got, result, faults>>

\* One step of a call on its own.
CallStep(p) ==
  \/ Acquire(p)
  \/ ReadIssue(p) \/ ReadComment(p) \/ ReadPredecessor(p) \/ Scan(p)
  \/ CreateIssue(p) \/ CreateIssueLost(p) \/ SaveProvisional(p)
  \/ CloseIssue(p) \/ CloseIssueLost(p)
  \/ FindCorrection(p) \/ CreateCorrection(p) \/ CreateCorrectionLost(p)
  \/ RequestFails(p) \/ Refused(p)
  \/ ManagedStep(p) /\ UNCHANGED remote
=============================================================================
