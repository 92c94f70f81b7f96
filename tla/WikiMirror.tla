----------------------------- MODULE WikiMirror -----------------------------
(***************************************************************************)
(* The mirror of one Session Diary as a page of a GitHub Wiki: the managed *)
(* mirror around Provider.apply of adapters/githubwiki/wiki.go. Every       *)
(* operation clones the Wiki's git repository, compares the diary's page   *)
(* at the head it has cloned and, if there is something to write, commits  *)
(* and pushes it.                                                          *)
(*                                                                         *)
(* `commits` is the history of the branch: the text of the diary's page    *)
(* (None: no page) and who pushed it (None: people). A Remote Revision     *)
(* git:<sha> is a commit's number; together with the remote content that a *)
(* result carries beside it, it is a revision here.                        *)
(***************************************************************************)

EXTENDS ManagedMirror

CONSTANT Edits  \* the texts that people leave; "unmarked" has no binding marker

ASSUME WikiAssumption ==
  /\ None \notin Edits /\ Proc \cap Edits = {}
  /\ "unmarked" \notin Proc \cup {None}

VARIABLE commits

mirrorVars == <<commits, managedVars>>

Pages == Proc \cup Edits \cup {None}
Revision == [head : Nat \ {0}, text : Pages]

ASSUME RevisionAssumption ==
  None \notin Revision \cup [state : States, rev : Revision \cup {None}]

Tip == Len(commits)
Revise(n) == [head |-> n, text |-> commits[n].text]

\* hasExactFrontmatterMarker
Marked(text) == text # "unmarked"

\* What apply is called for. Mirror becomes Create or MirrorBound, by whether
\* there is a binding.
Mode(p) == CASE op[p] = "mirror" -> IF binding = None THEN "create" ELSE "bound"
             [] OTHER -> op[p]

\* The Wiki may have no first page yet.
MirrorInit ==
  /\ ManagedInit
  /\ commits \in {<<>>, <<[text |-> None, by |-> None]>>}

PushTo(text, by) == commits' = Append(commits, [text |-> text, by |-> by])

-----------------------------------------------------------------------------
(* Faulty variants: what the properties are there to catch. *)

\* The push replaces what the branch has become.
PushForced(p) ==
  /\ at[p] = "push"
  /\ PushTo(local[p], p)
  /\ End(p, "mirrored", [head |-> Tip + 1, text |-> local[p]])
  /\ UNCHANGED <<store, request, got, bounds>>

\* The marker of a page that differs is not looked at.
ComparePageTrusting(p, r) ==
  IF Mode(p) = "create"
  THEN EndUnverified(p, "pending", r)
  ELSE End(p, IF r.text = local[p] THEN "mirrored" ELSE "conflict", r)

-----------------------------------------------------------------------------
(* The comparison with the head that was cloned *)

\* A decision holds for the head that was displayed, and for a page only.
CompareDecision(p, r) ==
  CASE r.head # observed[p].head -> End(p, "conflict", r)
    [] r.head = observed[p].head /\ r.text = None ->
         End(p, IF op[p] = "keep_remote" THEN "conflict" ELSE "pending", r)
    [] r.head = observed[p].head /\ r.text # None
         /\ (op[p] = "keep_remote" \/ r.text = local[p]) -> End(p, "mirrored", r)
    [] OTHER -> Goto(p, "push") /\ UNCHANGED result

\* Without a decision a page has to be the diary, and it counts as found only
\* if there was a binding or by explicit recovery.
ComparePage(p, r) ==
  CASE Mode(p) = "create" -> EndUnverified(p, "pending", r)
    [] Mode(p) # "create" /\ ~Marked(r.text) -> EndUnverified(p, "conflict", r)
    [] OTHER -> End(p, IF r.text = local[p] THEN "mirrored" ELSE "conflict", r)

Compare(p, r) ==
  CASE op[p] \in Resolutions -> CompareDecision(p, r)
    [] op[p] \notin Resolutions /\ r.text # None -> ComparePage(p, r)
    [] OTHER -> Goto(p, "push") /\ UNCHANGED result

-----------------------------------------------------------------------------
(* The steps of a call *)

Acquire(p) == TakeLock(p, "clone") /\ UNCHANGED commits

\* clone, fetch and reset to the remote head, up to the comparison.
Clone(p) ==
  /\ at[p] = "clone"
  /\ commits # <<>>
  /\ got' = [got EXCEPT ![p] = Revise(Tip)]
  /\ Compare(p, Revise(Tip))
  /\ UNCHANGED <<commits, store, request, bounds>>

\* There is no head: the Wiki has to be initialised by its users.
CloneEmpty(p) ==
  /\ at[p] = "clone"
  /\ commits = <<>>
  /\ End(p, "prerequisite", None)
  /\ UNCHANGED <<commits, store, request, got, bounds>>

\* The commit is pushed if the branch is where it was cloned, fast-forward only.
Push(p) ==
  /\ at[p] = "push"
  /\ Tip = got[p].head
  /\ PushTo(local[p], p)
  /\ End(p, "mirrored", [head |-> Tip + 1, text |-> local[p]])
  /\ UNCHANGED <<store, request, got, bounds>>

\* The push has its effect and is seen to fail.
PushLost(p) ==
  /\ at[p] = "push"
  /\ Tip = got[p].head
  /\ PushTo(local[p], p)
  /\ Fault
  /\ \E s \in {"pending", "prerequisite"} : End(p, s, got[p])
  /\ UNCHANGED <<store, request, got>>

PushRejected(p) ==
  /\ at[p] = "push"
  /\ Tip # got[p].head
  /\ Goto(p, "refresh")
  /\ UNCHANGED <<commits, store, request, got, result, bounds>>

\* refreshConflict: the new head with its page. If it has none, the content
\* read before stays in the result.
Refresh(p) ==
  /\ at[p] = "refresh"
  /\ LET page == commits[Tip].text
         r == [head |-> Tip, text |-> IF page = None THEN got[p].text ELSE page]
     IN IF Marked(page) THEN End(p, "conflict", r) ELSE EndUnverified(p, "conflict", r)
  /\ UNCHANGED <<commits, store, request, got, bounds>>

\* The fetch fails: the conflict is reported on the head that was cloned.
RefreshFails(p) ==
  /\ at[p] = "refresh"
  /\ Fault
  /\ End(p, "conflict", got[p])
  /\ UNCHANGED <<commits, store, request, got>>

\* git, the network or the disk fails without an effect; or no author is known.
GitFails(p) ==
  /\ at[p] \in {"clone", "push"}
  /\ Fault
  /\ \E s \in {"pending", "prerequisite"} : End(p, s, got[p])
  /\ UNCHANGED <<commits, store, request, got>>

CallStep(p) ==
  \/ Acquire(p) \/ Clone(p) \/ CloneEmpty(p)
  \/ Push(p) \/ PushLost(p) \/ PushRejected(p)
  \/ Refresh(p) \/ RefreshFails(p) \/ GitFails(p)
  \/ ManagedStep(p) /\ UNCHANGED commits

-----------------------------------------------------------------------------
(* The people at the Wiki: its first page; the diary's page written, edited or *)
(* removed; or another page. *)

FirstPage ==
  /\ commits = <<>>
  /\ PushTo(None, None)
  /\ UNCHANGED managedVars

Edit ==
  /\ commits # <<>>
  /\ edits < MaxEdits
  /\ edits' = edits + 1
  /\ \E t \in Edits \cup {None, commits[Tip].text} : PushTo(t, None)
  /\ UNCHANGED <<store, at, request, got, result, faults>>
=============================================================================
