--------------------------- MODULE StorageSyncProofs ---------------------------
(***************************************************************************)
(* The safety properties of StorageSync for any processes, texts and       *)
(* bounds.                                                                 *)
(*                                                                         *)
(* Remote objects are never removed and never change their Issue, so what  *)
(* is known of them (Known) and which of them belong to one Issue (Akin)   *)
(* only grows. A call holds revisions in memory that are known and belong   *)
(* to the Issue that the mirror is bound to (CallInv). What it decided on  *)
(* still counts when it writes because it has the Mirror Lock all the      *)
(* while (LockInv), and because no edit says what a process says (Unsaid). *)
(***************************************************************************)

EXTENDS StorageSync, SequenceTheorems, TLAPS

Steps == {"idle", "acquire", "read_issue", "read_comment", "read_predecessor", "scan", "create",
          "provisional", "close", "close_unbound", "find_correction", "correct", "snapshot",
          "bind", "release", "done"}
Operations == {"mirror", "recover"} \cup Resolutions
Results == [state : States, rev : Revision \cup {None}, busy : BOOLEAN, unverified : BOOLEAN,
            bare : BOOLEAN]
Obligations == [state : States, rev : Revision \cup {None}]
Views == [closed : Proc \cup {None}, storage : Obligations \cup {None}, settled : BOOLEAN]
Commands == {"idle", "save", "rename", "publish", "intent", "mirror", "unready", "retry",
             "shutdown", "resolve"}
Issue == [text : Text, open : BOOLEAN, ver : Nat]
Comment == [text : Text, issue : 1 .. MaxIssues, pred : Revision, ver : Nat]

RemoteShapes ==
  /\ issues \in Seq(Issue) /\ Len(issues) <= MaxIssues
  /\ comments \in Seq(Comment) /\ Len(comments) <= MaxComments
  /\ \A c \in 1 .. Len(comments) : comments[c].issue \in 1 .. Len(issues)
  /\ resent \subseteq Proc \X Revision
StoreShapes ==
  /\ binding \in Revision \cup {None}
  /\ snapshots \subseteq Revision
  /\ blanks \subseteq snapshots /\ \A r \in blanks : r.text \in Proc
  /\ lock \in Proc \cup {"orphan", "empty", None}
CallShapes ==
  /\ at \in [Proc -> Steps] /\ op \in [Proc -> Operations] /\ local \in [Proc -> Proc]
  /\ observed \in [Proc -> Revision \cup {None}]
  /\ got \in [Proc -> Revision \cup {None}]
  /\ result \in [Proc -> Results]
CommandShapes ==
  /\ diary \in Proc \cup {None} /\ view \in Views /\ cmd \in [Proc -> Commands]
Counted == edits \in 0 .. MaxEdits /\ faults \in 0 .. MaxFaults
Shapes == RemoteShapes /\ StoreShapes /\ CallShapes /\ CommandShapes /\ Counted

\* Only the holder of the lock is between acquiring and releasing it.
LockInv == \A p \in Proc : at[p] \notin {"idle", "acquire", "done"} => lock = p

\* The revisions of objects that exist; those of one Issue; and what no
\* correction of a revision says, unless it was sent again.
Known == {r \in Revision :
  IF r.kind = "issue" THEN r.id \in 1 .. Len(issues) ELSE r.id \in 1 .. Len(comments)}
Akin == {x \in Known \X Known : IssueOf(x[1]) = IssueOf(x[2])}
Unsaid == {x \in Proc \X Revision :
  \/ x \in resent
  \/ \A c \in 1 .. Len(comments) : comments[c].pred = x[2] => comments[c].text # x[1]}

CallInv(p) ==
  /\ at[p] \in {"idle", "acquire"} => result[p] = NoResult
  /\ at[p] # "idle" => view.storage # None
  /\ op[p] \in Resolutions => observed[p] \in snapshots
  /\ got[p] # None => got[p] \in Known
  /\ at[p] = "read_issue" => binding # None /\ binding.kind = "issue"
  /\ at[p] = "read_comment" => binding # None /\ binding.kind = "comment"
  /\ at[p] = "read_predecessor" => got[p].kind = "comment" /\ <<got[p], binding>> \in Akin
  /\ at[p] \in {"scan", "create", "provisional"} => binding = None
  /\ at[p] \in {"provisional", "close", "close_unbound"} =>
       got[p] \in Known /\ got[p].kind = "issue" /\ got[p].text \in Proc
  /\ at[p] = "close_unbound" /\ binding # None => <<got[p], binding>> \in Akin
  /\ at[p] \in {"close", "find_correction", "correct"} => <<got[p], binding>> \in Akin
  /\ at[p] \in {"find_correction", "correct"} => got[p] \in snapshots
  /\ at[p] = "correct" => <<local[p], got[p]>> \in Unsaid
  /\ result[p].rev # None => result[p].rev \in Known
  /\ ~result[p].unverified
  /\ result[p].bare => result[p].rev # None /\ result[p].rev.text \in Proc
  /\ at[p] \in {"snapshot", "bind"} =>
       result[p].rev # None /\ (binding # None => <<result[p].rev, binding>> \in Akin)
  /\ result[p].state = "conflict" => result[p].rev # None
  /\ at[p] \in {"bind", "release", "done"} /\ result[p].state = "conflict"
       => result[p].rev \in snapshots
  /\ at[p] \in {"release", "done"} /\ result[p].state \in {"conflict", "mirrored"} => binding # None

CommentsInv ==
  /\ \A c \in 1 .. Len(comments) :
       /\ comments[c].pred \in Known /\ comments[c].pred \in snapshots
       /\ IssueOf(comments[c].pred) = comments[c].issue
  /\ CorrectionsAreUnique
Evident == Listed("conflict") => view.storage.rev \in snapshots /\ binding # None
JournalInv ==
  /\ EffectsAreAccountedFor
  /\ Evident
  /\ view.settled => binding # None
StoreInv ==
  /\ snapshots \subseteq Known
  /\ binding # None => binding \in Known
  /\ CommentsInv
  /\ JournalInv

IInv == Shapes /\ LockInv /\ (\A p \in Proc : CallInv(p)) /\ StoreInv

-----------------------------------------------------------------------------
(* What the parts of a step do *)

\* The end of a provider's operation.
Ended(p, s, r, b) ==
  /\ result' = [result EXCEPT ![p] =
                  [state |-> s, rev |-> r, busy |-> FALSE, unverified |-> FALSE, bare |-> b]]
  /\ at' = [at EXCEPT ![p] = IF s = "mirrored" THEN "bind"
                             ELSE IF s = "conflict" THEN "snapshot" ELSE "release"]

\* End, as the assignments it stands for.
LEMMA EndEnds == ASSUME NEW p, NEW s, NEW r, End(p, s, r) PROVE Ended(p, s, r, FALSE)
<1>1. PICK e : e = [NoResult EXCEPT !.state = s, !.rev = r]
  OBVIOUS
<1>2. e = [state |-> s, rev |-> r, busy |-> FALSE, unverified |-> FALSE, bare |-> FALSE] /\ e.state = s
  BY <1>1 DEF NoResult
<1>3. result' = [result EXCEPT ![p] = e]
  BY <1>1 DEF End, Finish
<1>4. at' = [at EXCEPT ![p] = CASE e.state = "mirrored" -> "bind"
                                [] e.state = "conflict" -> "snapshot" [] OTHER -> "release"]
  BY <1>1 DEF End, Finish, Goto
<1>5. (CASE e.state = "mirrored" -> "bind" [] e.state = "conflict" -> "snapshot" [] OTHER -> "release")
        = IF s = "mirrored" THEN "bind" ELSE IF s = "conflict" THEN "snapshot" ELSE "release"
  BY <1>2
<1>6. QED
  BY <1>2, <1>3, <1>4, <1>5 DEF Ended

\* ... and of an operation whose result has no content.
LEMMA EndBareEnds == ASSUME NEW p, NEW s, NEW r, EndBare(p, s, r) PROVE Ended(p, s, r, TRUE)
<1>1. PICK e : e = [NoResult EXCEPT !.state = s, !.rev = r, !.bare = TRUE]
  OBVIOUS
<1>2. e = [state |-> s, rev |-> r, busy |-> FALSE, unverified |-> FALSE, bare |-> TRUE] /\ e.state = s
  BY <1>1 DEF NoResult
<1>3. result' = [result EXCEPT ![p] = e]
  BY <1>1 DEF EndBare, Finish
<1>4. at' = [at EXCEPT ![p] = CASE e.state = "mirrored" -> "bind"
                                [] e.state = "conflict" -> "snapshot" [] OTHER -> "release"]
  BY <1>1 DEF EndBare, Finish, Goto
<1>5. (CASE e.state = "mirrored" -> "bind" [] e.state = "conflict" -> "snapshot" [] OTHER -> "release")
        = IF s = "mirrored" THEN "bind" ELSE IF s = "conflict" THEN "snapshot" ELSE "release"
  BY <1>2
<1>6. QED
  BY <1>2, <1>3, <1>4, <1>5 DEF Ended

\* The end of an operation keeps the types and leaves the other processes alone.
LEMMA EndedShapes ==
  ASSUME Shapes, NEW p \in Proc, NEW s \in States, NEW r \in Revision \cup {None},
         NEW b \in BOOLEAN, Ended(p, s, r, b)
  PROVE  /\ at' \in [Proc -> Steps] /\ result' \in [Proc -> Results]
         /\ result'[p] = [state |-> s, rev |-> r, busy |-> FALSE, unverified |-> FALSE, bare |-> b]
         /\ at'[p] = IF s = "mirrored" THEN "bind"
                     ELSE IF s = "conflict" THEN "snapshot" ELSE "release"
         /\ \A q \in Proc : q # p => result'[q] = result[q] /\ at'[q] = at[q]
<1>1. [state |-> s, rev |-> r, busy |-> FALSE, unverified |-> FALSE, bare |-> b] \in Results
  BY DEF Results
<1>2. QED
  BY <1>1 DEF Ended, Shapes, CallShapes, Steps

\* What the steps of a command do to the mirror: nothing but counting a fault,
\* the begin or the end of a call, or the end of the process.
Counts == edits' = edits /\ faults' \in {faults, faults + 1} /\ (faults' # faults => faults < MaxFaults)
Idles == UNCHANGED <<store, at, request, got, result>> /\ Counts
Calls(p) ==
  /\ view'.storage # None
  /\ \E what \in Operations, t \in Proc, r \in snapshots \cup {None} :
       Call(p, what, t, r) /\ (what \in Resolutions => r \in snapshots)
Returns(p) == at[p] = "done" /\ Return(p) /\ UNCHANGED <<store, bounds>>

\* ... and to what recovery sees: nothing, an intent, or the result.
Intends == /\ view'.storage \in Obligations /\ view'.storage.state # "conflict"
           /\ view'.storage # None /\ ~view'.settled
Shows(r) == /\ view'.storage = Carried(r) /\ view'.storage # None
            /\ view'.settled => r.state = "mirrored"
Journals(p) ==
  \/ view'.storage = view.storage /\ view'.settled = view.settled
  \/ Intends
  \/ at[p] = "done" /\ Shows(result[p])

\* Journaling a result shows recovery that result.
LEMMA ViewsOfResults ==
  ASSUME Shapes, NEW r \in Results,
         \/ JournalResult(r)
         \/ r.state = "mirrored" /\ Journal("storage.sync.resolved", Carried(r))
  PROVE  view' \in Views /\ Shows(r)
<1>1. PICK c : c = Carried(r)
  OBVIOUS
<1>2. c \in Obligations /\ c # None /\ r.state \in States
  BY <1>1, RevisionAssumption DEF Carried, Results, Obligations
<1>3. view \in Views
  BY DEF Shapes, CommandShapes
<1>4. \/ view' = [view EXCEPT !.storage = c, !.settled = TRUE] /\ r.state = "mirrored"
      \/ view' = [view EXCEPT !.storage = c, !.settled = FALSE]
  BY <1>1 DEF JournalResult, Journal, Observe, StorageEventType
<1>5. view' \in Views /\ view'.storage = c /\ (view'.settled => r.state = "mirrored")
  BY <1>2, <1>3, <1>4 DEF Views
<1>6. QED
  BY <1>1, <1>2, <1>5 DEF Shows

\* Journaling an intent or a missing prerequisite shows recovery no conflict.
LEMMA ViewsOfIntents ==
  ASSUME Shapes, NEW s \in {"pending", "prerequisite"},
         NEW type \in {"storage.sync.requested", "storage.sync.pending", "storage.prerequisite.missing"},
         Journal(type, Obligation(s))
  PROVE  view' \in Views /\ Intends
<1>1. PICK o : o = Obligation(s)
  OBVIOUS
<1>2. o \in Obligations /\ o.state # "conflict" /\ o # None
  BY <1>1, RevisionAssumption DEF Obligation, Obligations, States
<1>3. view' = [view EXCEPT !.storage = o, !.settled = FALSE] /\ view \in Views
  BY <1>1 DEF Journal, Observe, Shapes, CommandShapes
<1>4. QED
  BY <1>2, <1>3 DEF Views, Intends

\* The commands, seen from the mirror.
LEMMA CommandKinds ==
  ASSUME Shapes, NEW p \in Proc, CommandStep(p) \/ Begin(p)
  PROVE  /\ Idles \/ Calls(p) \/ Returns(p) \/ Die(p)
         /\ CommandShapes' /\ Journals(p)
<1>a. /\ view \in Views /\ diary \in Proc \cup {None} /\ cmd \in [Proc -> Commands]
      /\ result[p] \in Results
  BY DEF Shapes, CommandShapes, CallShapes
<1> DEFINE Same == (Idles \/ Calls(p) \/ Returns(p) \/ Die(p)) /\ CommandShapes' /\ Journals(p)
<1> USE DEF Then, During, Done
<1>1. ASSUME FindDiary(p) PROVE Same
  <2>1. Idles /\ view' = view
    BY <1>1 DEF FindDiary, Idles, Counts, managedVars, store, evidence, request, bounds
  <2>2. diary' \in Proc \cup {None} /\ cmd' \in [Proc -> Commands]
    BY <1>1, <1>a DEF FindDiary, Commands
  <2>3. QED
    BY <1>a, <2>1, <2>2 DEF CommandShapes, Journals
<1>2. ASSUME SaveDiary(p) PROVE Same
  <2>1. Idles /\ view' = view
    BY <1>2 DEF SaveDiary, Idles, Counts, managedVars, store, evidence, request, bounds
  <2>2. diary' \in Proc \cup {None} /\ cmd' \in [Proc -> Commands]
    BY <1>2, <1>a DEF SaveDiary, Commands
  <2>3. QED
    BY <1>a, <2>1, <2>2 DEF CommandShapes, Journals
<1>3. ASSUME RenameDiary(p) PROVE Same
  <2>1. Idles /\ view' = view
    BY <1>3 DEF RenameDiary, Idles, Counts, managedVars, store, evidence, request, bounds
  <2>2. diary' \in Proc \cup {None} /\ cmd' \in [Proc -> Commands]
    BY <1>3, <1>a DEF RenameDiary, Commands
  <2>3. QED
    BY <1>a, <2>1, <2>2 DEF CommandShapes, Journals
<1>4. ASSUME Publish(p) PROVE Same
  <2>1. Idles /\ diary' = diary
    BY <1>4 DEF Publish, Idles, Counts, managedVars, store, evidence, request, bounds
  <2>2. cmd' \in [Proc -> Commands]
    BY <1>4, <1>a DEF Publish, Commands
  <2>3. view' \in {view, [view EXCEPT !.closed = p]}
    BY <1>4 DEF Publish, Journal, Observe
  <2>4. view' \in Views /\ view'.storage = view.storage /\ view'.settled = view.settled
    BY <1>a, <2>3 DEF Views
  <2>5. QED
    BY <1>a, <2>1, <2>2, <2>4 DEF CommandShapes, Journals
<1>5. ASSUME RequestStorage(p) PROVE Same
  <2>1. view' \in Views /\ Intends
    BY <1>5, ViewsOfIntents DEF RequestStorage
  <2>2. Calls(p) \/ Idles
    <3>1. CASE Call(p, "mirror", p, None)
      BY <2>1, <3>1 DEF Calls, Operations, Resolutions, Intends
    <3>2. CASE UNCHANGED managedVars
      BY <3>2 DEF Idles, Counts, managedVars, store, evidence, request
    <3>3. QED
      BY <1>5, <3>1, <3>2 DEF RequestStorage
  <2>3. diary' = diary /\ cmd' \in [Proc -> Commands]
    BY <1>5, <1>a DEF RequestStorage, Commands
  <2>4. QED
    BY <1>a, <2>1, <2>2, <2>3 DEF CommandShapes, Journals
<1>6. ASSUME PrerequisiteMissing(p) PROVE Same
  <2>1. view' \in Views /\ Intends
    BY <1>6, ViewsOfIntents DEF PrerequisiteMissing
  <2>2. Idles
    BY <1>6 DEF PrerequisiteMissing, Idles, Counts, managedVars, store, evidence, request
  <2>3. diary' = diary /\ cmd' \in [Proc -> Commands]
    BY <1>6, <1>a DEF PrerequisiteMissing, Commands
  <2>4. QED
    BY <1>a, <2>1, <2>2, <2>3 DEF CommandShapes, Journals
<1>7. ASSUME CloseOutcome(p) PROVE Same
  <2>1. Returns(p)
    BY <1>7 DEF CloseOutcome, Returns
  <2>2. view' \in Views /\ Journals(p)
    <3>1. CASE view' = view
      BY <1>a, <3>1 DEF Journals
    <3>2. CASE \/ JournalResult(result[p])
               \/ /\ result[p].state = "mirrored"
                  /\ Journal("storage.sync.resolved", Carried(result[p]))
      BY <1>7, <1>a, <3>2, ViewsOfResults DEF Journals, CloseOutcome
    <3>3. QED
      BY <1>7, <3>1, <3>2 DEF CloseOutcome
  <2>3. diary' = diary /\ cmd' \in [Proc -> Commands]
    BY <1>7, <1>a DEF CloseOutcome, Commands
  <2>4. QED
    BY <1>a, <2>1, <2>2, <2>3 DEF CommandShapes
<1>8. ASSUME RetryOutcome(p) PROVE Same
  <2>1. Returns(p)
    BY <1>8 DEF RetryOutcome, Returns
  <2>2. view' \in Views /\ Journals(p)
    <3>1. CASE view' = view
      BY <1>a, <3>1 DEF Journals
    <3>2. CASE \/ JournalResult(result[p])
               \/ /\ result[p].state = "mirrored"
                  /\ Journal("storage.sync.resolved", Carried(result[p]))
      BY <1>8, <1>a, <3>2, ViewsOfResults DEF Journals, RetryOutcome
    <3>3. QED
      BY <1>8, <3>1, <3>2 DEF RetryOutcome
  <2>3. diary' = diary /\ cmd' \in [Proc -> Commands]
    BY <1>8, <1>a DEF RetryOutcome, Commands
  <2>4. QED
    BY <1>a, <2>1, <2>2, <2>3 DEF CommandShapes
<1>9. ASSUME ResolveOutcome(p) PROVE Same
  <2>1. Returns(p)
    BY <1>9 DEF ResolveOutcome, Returns
  <2>2. view' \in Views /\ Journals(p)
    <3>1. CASE view' = view
      BY <1>a, <3>1 DEF Journals
    <3>2. CASE \/ JournalResult(result[p])
               \/ /\ result[p].state = "mirrored"
                  /\ Journal("storage.sync.resolved", Carried(result[p]))
      BY <1>9, <1>a, <3>2, ViewsOfResults DEF Journals, ResolveOutcome
    <3>3. QED
      BY <1>9, <3>1, <3>2 DEF ResolveOutcome
  <2>3. diary' = diary /\ cmd' \in [Proc -> Commands]
    BY <1>9, <1>a DEF ResolveOutcome, Commands
  <2>4. QED
    BY <1>a, <2>1, <2>2, <2>3 DEF CommandShapes
<1>10. ASSUME Shutdown(p) PROVE Same
  <2>1. Idles
    BY <1>10 DEF Shutdown, Idles, Counts, Fault, bounds
  <2>2. view' \in Views /\ Journals(p)
    <3>1. CASE view' = view
      BY <1>a, <3>1 DEF Journals
    <3>2. CASE Journal("storage.sync.pending", Obligation("pending"))
      BY <3>2, ViewsOfIntents DEF Journals
    <3>3. QED
      BY <1>10, <3>1, <3>2 DEF Shutdown
  <2>3. diary' = diary /\ cmd' \in [Proc -> Commands]
    BY <1>10, <1>a DEF Shutdown, Commands
  <2>4. QED
    BY <1>a, <2>1, <2>2, <2>3 DEF CommandShapes
<1>11. ASSUME Retry(p) PROVE Same
  <2>1. Calls(p)
    <3>1. /\ Call(p, "recover", view.closed, None) /\ view.closed \in Proc
          /\ view.storage # None /\ view' = view
      BY <1>11, <1>a DEF Retry, Retryable, Listed, Views
    <3>2. QED
      BY <3>1 DEF Calls, Operations, Resolutions
  <2>2. UNCHANGED <<view, diary>> /\ cmd' \in [Proc -> Commands]
    BY <1>11, <1>a DEF Retry, Commands
  <2>3. QED
    BY <1>a, <2>1, <2>2 DEF CommandShapes, Journals
<1>12. ASSUME Crash(p) PROVE Same
  <2>1. UNCHANGED <<view, diary>> /\ cmd' \in [Proc -> Commands] /\ Die(p)
    BY <1>12, <1>a DEF Crash, Commands
  <2>2. QED
    BY <1>a, <2>1 DEF CommandShapes, Journals
<1>13. ASSUME NEW choice \in Resolutions, Decide(p, choice) PROVE Same
  <2>1. Calls(p)
    <3>1. /\ Call(p, choice, view.closed, view.storage.rev)
          /\ view.closed \in Proc /\ view.storage.rev \in snapshots
          /\ view.storage # None /\ view' = view
      BY <1>13, <1>a DEF Decide, Listed, Views
    <3>2. QED
      BY <3>1 DEF Calls, Operations
  <2>2. UNCHANGED <<view, diary>> /\ cmd' \in [Proc -> Commands]
    BY <1>13, <1>a DEF Decide, Commands
  <2>3. QED
    BY <1>a, <2>1, <2>2 DEF CommandShapes, Journals
<1> QED
  BY <1>1, <1>2, <1>3, <1>4, <1>5, <1>6, <1>7, <1>8, <1>9, <1>10, <1>11, <1>12, <1>13
  DEF CommandStep, Begin


-----------------------------------------------------------------------------
(* What stays *)

\* Objects stay, with what identifies them; only people change what was said.
Grows ==
  /\ resent \subseteq resent' /\ Len(issues') >= Len(issues) /\ Len(comments') >= Len(comments)
  /\ \A c \in 1 .. Len(comments) :
       /\ comments'[c].issue = comments[c].issue /\ comments'[c].pred = comments[c].pred
       /\ comments'[c].text \in {comments[c].text} \cup Edits

\* An object stays with its Issue.
LEMMA IssueOfStays == ASSUME Grows, NEW r \in Known PROVE IssueOf(r)' = IssueOf(r)
<1>1. CASE r.kind = "issue"
  BY <1>1 DEF IssueOf
<1>2. CASE r.kind # "issue"
  <2>1. r.id \in 1 .. Len(comments)
    BY <1>2 DEF Known
  <2>2. QED
    BY <1>2, <2>1 DEF IssueOf, Grows
<1>3. QED
  BY <1>1, <1>2

\* What was known stays known, and of one Issue.
LEMMA KnownStays ==
  ASSUME Shapes, RemoteShapes', Grows PROVE Known \subseteq Known' /\ Akin \subseteq Akin'
<1>1. /\ Len(issues) \in Nat /\ Len(issues') \in Nat
      /\ Len(comments) \in Nat /\ Len(comments') \in Nat
  BY LenProperties DEF Shapes, RemoteShapes
<1>2. ASSUME NEW r \in Known PROVE r \in Known' /\ IssueOf(r)' = IssueOf(r)
  BY <1>1, IssueOfStays DEF Known, Grows
<1>3. ASSUME NEW x \in Akin PROVE x \in Akin'
  <2>1. x \in Known \X Known /\ IssueOf(x[1]) = IssueOf(x[2])
    BY DEF Akin
  <2>2. PICK r \in Known, s \in Known : x = <<r, s>>
    BY <2>1
  <2>3. r \in Known' /\ s \in Known' /\ IssueOf(r)' = IssueOf(s)'
    BY <1>2, <2>1, <2>2
  <2>4. QED
    BY <2>2, <2>3 DEF Akin
<1>4. QED
  BY <1>2, <1>3

\* If nothing is written, what is known is the same.
LEMMA QuietRemote ==
  ASSUME UNCHANGED remote PROVE Known' = Known /\ Akin' = Akin /\ Unsaid' = Unsaid
  BY DEF remote, Known, Akin, Unsaid, IssueOf

\* An edit says nothing that a process says.
LEMMA UnsaidStays ==
  ASSUME Shapes, Grows, Len(comments') = Len(comments) PROVE Unsaid \subseteq Unsaid'
<1>1. ASSUME NEW x \in Unsaid PROVE x \in Unsaid'
  <2>1. x \in Proc \X Revision /\ x[1] \in Proc
    BY DEF Unsaid
  <2>2. ASSUME x \notin resent, NEW c \in 1 .. Len(comments'), comments'[c].pred = x[2]
        PROVE  comments'[c].text # x[1]
    <3>1. c \in 1 .. Len(comments) /\ comments[c].pred = x[2]
      BY <2>2 DEF Grows
    <3>2. comments[c].text # x[1]
      BY <2>2, <3>1 DEF Unsaid
    <3>3. QED
      BY <2>1, <3>1, <3>2, ConstantsAssumption DEF Grows
  <2>3. QED
    BY <2>1, <2>2 DEF Unsaid, Grows
<1>2. QED
  BY <1>1

\* The remote changes, and nothing durable here: what is kept stays true.
LEMMA StoreStays ==
  ASSUME Shapes, StoreInv, RemoteShapes', Grows, Len(comments') = Len(comments),
         UNCHANGED <<binding, snapshots, view>>, issues' # <<>> => view.storage # None
  PROVE  StoreInv'
<1>1. Known \subseteq Known'
  BY KnownStays
<1>2. snapshots' \subseteq Known' /\ (binding' # None => binding' \in Known')
  BY <1>1 DEF StoreInv
<1>3. ASSUME NEW c \in 1 .. Len(comments')
      PROVE  /\ comments'[c].pred \in Known' /\ comments'[c].pred \in snapshots'
             /\ IssueOf(comments[c].pred)' = comments'[c].issue
  <2>1. /\ c \in 1 .. Len(comments) /\ comments'[c].pred = comments[c].pred
        /\ comments'[c].issue = comments[c].issue
    BY <1>3 DEF Grows
  <2>2. PICK r : r = comments[c].pred
    OBVIOUS
  <2>3. r \in Known /\ r \in snapshots /\ IssueOf(r) = comments[c].issue
    BY <2>1, <2>2 DEF StoreInv, CommentsInv
  <2>4. IssueOf(r)' = IssueOf(r)
    BY <2>3 DEF Known, IssueOf, Grows
  <2>5. IssueOf(comments[c].pred)' = IssueOf(r)'
    BY <2>1, <2>2 DEF IssueOf
  <2>6. QED
    BY <1>1, <2>1, <2>2, <2>3, <2>4, <2>5
<1>4. CorrectionsAreUnique'
  <2> SUFFICES ASSUME NEW c \in 1 .. Len(comments'), NEW d \in 1 .. Len(comments'),
                      comments'[c].pred = comments'[d].pred, comments'[c].text = comments'[d].text,
                      comments'[c].text \in Proc
               PROVE  c = d \/ <<comments'[c].text, comments'[c].pred>> \in resent'
    BY LenProperties DEF CorrectionsAreUnique, Shapes, RemoteShapes
  <2>1. c \in 1 .. Len(comments) /\ d \in 1 .. Len(comments)
    OBVIOUS
  <2>2. comments'[c].text = comments[c].text /\ comments'[d].text = comments[d].text
    BY <2>1, ConstantsAssumption DEF Grows
  <2>3. comments'[c].pred = comments[c].pred /\ comments'[d].pred = comments[d].pred
    BY <2>1 DEF Grows
  <2>4. \A i, j \in 1 .. Len(comments) :
          comments[i].pred = comments[j].pred /\ comments[i].text = comments[j].text
            /\ comments[i].text \in Proc
          => i = j \/ <<comments[i].text, comments[i].pred>> \in resent
    BY LenProperties DEF StoreInv, CommentsInv, CorrectionsAreUnique, Shapes, RemoteShapes
  <2>5. QED
    BY <2>1, <2>2, <2>3, <2>4 DEF Grows
<1>5. JournalInv'
  BY DEF StoreInv, JournalInv, EffectsAreAccountedFor, Evident, Listed
<1>6. QED
  BY <1>2, <1>3, <1>4, <1>5 DEF StoreInv, CommentsInv

-----------------------------------------------------------------------------
(* The shape of a step *)

Free == {"idle", "acquire", "done"}

\* A process that does not move keeps what it knows.
LEMMA OthersKeep ==
  ASSUME Shapes, NEW q \in Proc, CallInv(q),
         Known \subseteq Known', Akin \subseteq Akin', snapshots \subseteq snapshots',
         Unsaid \subseteq Unsaid' \/ at[q] \in Free,
         binding' = binding \/ (binding' # None /\ at[q] \in Free),
         view.storage # None => view'.storage # None,
         at'[q] = at[q], op'[q] = op[q], local'[q] = local[q], observed'[q] = observed[q],
         got'[q] = got[q], result'[q] = result[q]
  PROVE  CallInv(q)'
  BY DEF CallInv, Free

\* A step of the process p, apart from what it does itself.
LEMMA ProcessStep ==
  ASSUME IInv, NEW p \in Proc, Shapes', CallInv(p)', LockInv', StoreInv',
         Known \subseteq Known', Akin \subseteq Akin', snapshots \subseteq snapshots',
         view.storage # None => view'.storage # None,
         \A q \in Proc : q # p =>
           /\ at'[q] = at[q] /\ op'[q] = op[q] /\ local'[q] = local[q]
           /\ observed'[q] = observed[q] /\ got'[q] = got[q] /\ result'[q] = result[q]
           /\ Unsaid \subseteq Unsaid' \/ at[q] \in Free
           /\ binding' = binding \/ (binding' # None /\ at[q] \in Free)
  PROVE  IInv'
<1>1. ASSUME NEW q \in Proc, q # p PROVE CallInv(q)'
  BY <1>1, OthersKeep DEF IInv
<1>2. QED
  BY <1>1 DEF IInv

\* ... that holds the lock and leaves what is kept here alone.
LEMMA HolderStep ==
  ASSUME IInv, NEW p \in Proc, at[p] \notin Free, RemoteShapes', Grows, StoreInv',
         UNCHANGED <<store, request, commandVars>>, Counted', CallInv(p)',
         at' \in [Proc -> Steps], result' \in [Proc -> Results],
         got' \in [Proc -> Revision \cup {None}],
         \A q \in Proc : q # p => at'[q] = at[q] /\ got'[q] = got[q] /\ result'[q] = result[q]
  PROVE  IInv'
<1> USE DEF store, evidence, request, commandVars
<1>1. Shapes'
  BY DEF IInv, Shapes, StoreShapes, CallShapes, CommandShapes
<1>2. \A q \in Proc : q # p => at[q] \in Free
  BY DEF IInv, LockInv, Free
<1>3. LockInv'
  BY <1>2 DEF IInv, LockInv, Free
<1>4. Known \subseteq Known' /\ Akin \subseteq Akin'
  BY KnownStays DEF IInv
<1>5. \A q \in Proc : q # p =>
           /\ at'[q] = at[q] /\ op'[q] = op[q] /\ local'[q] = local[q]
           /\ observed'[q] = observed[q] /\ got'[q] = got[q] /\ result'[q] = result[q]
           /\ Unsaid \subseteq Unsaid' \/ at[q] \in Free
           /\ binding' = binding \/ (binding' # None /\ at[q] \in Free)
  BY <1>2
<1>6. snapshots \subseteq snapshots' /\ (view.storage # None => view'.storage # None)
  OBVIOUS
<1>7. QED
  BY <1>1, <1>3, <1>4, <1>5, <1>6, ProcessStep

\* A call ends the provider's operation with what it knows.
LEMMA EndStep ==
  ASSUME IInv, NEW p \in Proc, at[p] \notin Free, RemoteShapes', Grows, StoreInv',
         UNCHANGED <<store, request, got, commandVars>>, Counted',
         NEW s \in States, NEW r \in Revision \cup {None}, NEW b \in BOOLEAN,
         Ended(p, s, r, b), b => r # None /\ r.text \in Proc,
         r # None => r \in Known',
         s \in {"mirrored", "conflict"} =>
           r # None /\ (binding # None => <<r, binding>> \in Akin')
  PROVE  IInv'
<1> USE DEF store, evidence, request, commandVars
<1>a. Shapes /\ CallInv(p)
  BY DEF IInv
<1>1. /\ at' \in [Proc -> Steps] /\ result' \in [Proc -> Results]
      /\ result'[p] = [state |-> s, rev |-> r, busy |-> FALSE, unverified |-> FALSE, bare |-> b]
      /\ at'[p] = IF s = "mirrored" THEN "bind"
                  ELSE IF s = "conflict" THEN "snapshot" ELSE "release"
      /\ \A q \in Proc : q # p => result'[q] = result[q] /\ at'[q] = at[q]
  BY <1>a, EndedShapes
<1>2. result'[p].state = s /\ result'[p].rev = r /\ ~result'[p].unverified /\ result'[p].bare = b
  BY <1>1
<1>3. Known \subseteq Known' /\ view'.storage # None
  BY <1>a, KnownStays DEF CallInv, Free
<1>4. CallInv(p)'
  BY <1>a, <1>1, <1>2, <1>3 DEF CallInv
<1>5. QED
  BY <1>a, <1>1, <1>4, HolderStep DEF Shapes, CallShapes

\* Nothing is written at the remote.
LEMMA RemoteQuiet ==
  ASSUME IInv, NEW p \in Proc, at[p] \notin Free, UNCHANGED <<remote, binding, snapshots, view>>
  PROVE  RemoteShapes' /\ Grows /\ StoreInv' /\ Known' = Known /\ Akin' = Akin /\ Unsaid' = Unsaid
<1>1. RemoteShapes' /\ UNCHANGED <<issues, comments, resent>>
  BY DEF remote, IInv, Shapes, RemoteShapes
<1>2. Len(issues) \in Nat /\ Len(comments) \in Nat
  BY LenProperties DEF IInv, Shapes, RemoteShapes
<1>3. Grows /\ Len(comments') = Len(comments)
  BY <1>1, <1>2 DEF Grows
<1>4. view.storage # None
  BY DEF IInv, CallInv, Free
<1>5. StoreInv'
  BY <1>1, <1>3, <1>4, StoreStays DEF IInv
<1>6. QED
  BY <1>1, <1>3, <1>5, QuietRemote

\* A call has read and ends.
LEMMA ReadEnds ==
  ASSUME IInv, NEW p \in Proc, at[p] \notin Free,
         UNCHANGED <<remote, store, request, got, commandVars>>, Counted',
         NEW s \in States, NEW r \in Revision \cup {None}, NEW b \in BOOLEAN,
         Ended(p, s, r, b), b => r # None /\ r.text \in Proc,
         r # None => r \in Known,
         s \in {"mirrored", "conflict"} =>
           r # None /\ (binding # None => <<r, binding>> \in Akin)
  PROVE  IInv'
<1>1. RemoteShapes' /\ Grows /\ StoreInv' /\ Known' = Known /\ Akin' = Akin
  BY RemoteQuiet DEF store, evidence, commandVars
<1>2. QED
  BY <1>1, EndStep

\* A call has read and goes on.
LEMMA ReadGoesOn ==
  ASSUME IInv, NEW p \in Proc, at[p] \notin Free, NEW step \in Steps, Goto(p, step),
         UNCHANGED <<remote, store, request, result, commandVars>>, Counted',
         got' \in [Proc -> Revision \cup {None}], \A q \in Proc : q # p => got'[q] = got[q],
         at'[p] = step => CallInv(p)'
  PROVE  IInv'
<1>1. RemoteShapes' /\ Grows /\ StoreInv'
  BY RemoteQuiet DEF store, evidence, commandVars
<1>2. /\ at' \in [Proc -> Steps] /\ at'[p] = step /\ result' \in [Proc -> Results]
      /\ \A q \in Proc : q # p => at'[q] = at[q] /\ result'[q] = result[q]
  BY DEF Goto, IInv, Shapes, CallShapes
<1>3. QED
  BY <1>1, <1>2, HolderStep

-----------------------------------------------------------------------------
(* Reading the remote *)

\* The revision of an object that exists is known, and of its Issue.
LEMMA RevisionsAreKnown ==
  ASSUME Shapes
  PROVE  /\ \A i \in 1 .. Len(issues) :
              IssueRevision(i) \in Known /\ IssueRevision(i).kind = "issue" /\ IssueRevision(i).id = i
         /\ \A c \in 1 .. Len(comments) :
              /\ CommentRevision(c) \in Known /\ CommentRevision(c).kind = "comment"
              /\ CommentRevision(c).id = c
<1>1. ASSUME NEW i \in 1 .. Len(issues)
      PROVE  IssueRevision(i) \in Known /\ IssueRevision(i).kind = "issue" /\ IssueRevision(i).id = i
  <2>1. issues[i] \in Issue /\ i \in 1 .. MaxIssues
    BY ElementOfSeq, LenProperties, ConstantsAssumption DEF Shapes, RemoteShapes
  <2>2. PICK r : r = IssueRevision(i)
    OBVIOUS
  <2>3. r \in Revision /\ r.kind = "issue" /\ r.id = i
    BY <2>1, <2>2 DEF IssueRevision, Issue, IssueRev, Revision
  <2>4. QED
    BY <2>2, <2>3 DEF Known
<1>2. ASSUME NEW c \in 1 .. Len(comments)
      PROVE  /\ CommentRevision(c) \in Known /\ CommentRevision(c).kind = "comment"
             /\ CommentRevision(c).id = c
  <2>1. comments[c] \in Comment /\ c \in 1 .. MaxComments
    BY ElementOfSeq, LenProperties, ConstantsAssumption DEF Shapes, RemoteShapes
  <2>2. PICK r : r = CommentRevision(c)
    OBVIOUS
  <2>3. r \in Revision /\ r.kind = "comment" /\ r.id = c
    BY <2>1, <2>2 DEF CommentRevision, Comment, CommentRev, Revision
  <2>4. QED
    BY <2>2, <2>3 DEF Known
<1>3. QED
  BY <1>1, <1>2

\* What is there now of a known revision's object.
LEMMA CurrentIsKnown ==
  ASSUME Shapes, NEW r \in Known
  PROVE  Current(r) \in Known /\ IssueOf(Current(r)) = IssueOf(r)
<1>1. CASE r.kind = "issue"
  BY <1>1, RevisionsAreKnown DEF Known, Current, IssueOf
<1>2. CASE r.kind # "issue"
  BY <1>2, RevisionsAreKnown DEF Known, Current, IssueOf
<1>3. QED
  BY <1>1, <1>2

\* A bound mirror is compared, or resolved, with a revision of its Issue.
LEMMA EffectiveStep ==
  ASSUME IInv, NEW p \in Proc, at[p] \notin Free, NEW r, Effective(p, r), <<r, binding>> \in Akin,
         UNCHANGED <<remote, store, request, bounds, commandVars>>
  PROVE  IInv'
<1>a. Shapes /\ CallInv(p) /\ StoreInv
  BY DEF IInv
<1>b. r \in Known /\ r \in Revision /\ r # None /\ binding # None
  BY RevisionAssumption DEF Akin, Known
<1>c. Counted'
  BY <1>a DEF Shapes, Counted, bounds
<1>1. ASSUME NEW s \in States, End(p, s, r), UNCHANGED got PROVE IInv'
  BY <1>1, <1>b, <1>c, EndEnds, ReadEnds
<1>2. ASSUME r = observed[p], op[p] \in Resolutions, Goto(p, "find_correction"),
             got' = [got EXCEPT ![p] = r], UNCHANGED result
      PROVE  IInv'
  <2>1. /\ got' \in [Proc -> Revision \cup {None}] /\ got'[p] = r
        /\ \A q \in Proc : q # p => got'[q] = got[q]
    BY <1>2, <1>a, <1>b DEF Shapes, CallShapes
  <2>2. r \in snapshots
    BY <1>2, <1>a DEF CallInv
  <2>3. ASSUME at'[p] = "find_correction" PROVE CallInv(p)'
    <3>1. UNCHANGED <<op, observed, local, result, binding, snapshots, view>>
      BY <1>2 DEF store, evidence, request, commandVars
    <3>2. Known' = Known /\ Akin' = Akin
      BY QuietRemote
    <3>3. QED
      BY <1>a, <1>b, <2>1, <2>2, <2>3, <3>1, <3>2 DEF CallInv, Free
  <2>4. QED
    BY <1>2, <1>c, <2>1, <2>3, ReadGoesOn DEF Steps
<1>3. QED
  BY <1>1, <1>2 DEF Effective, Resolve, States

\* An Issue that was found is the diary, is closed first, or conflicts.
LEMMA FinishStep ==
  ASSUME IInv, NEW p \in Proc, at[p] \notin Free, NEW r, FinishExisting(p, r), r \in Known,
         r.kind = "issue", binding # None => <<r, binding>> \in Akin,
         issues[r.id].open => binding # None,
         UNCHANGED <<remote, store, request, bounds, commandVars>>
  PROVE  IInv'
<1>a. Shapes /\ CallInv(p) /\ StoreInv
  BY DEF IInv
<1>b. r \in Known /\ r \in Revision /\ r # None
  BY RevisionAssumption DEF Known
<1>c. Counted'
  BY <1>a DEF Shapes, Counted, bounds
<1>1. ASSUME NEW s \in States, End(p, s, r), UNCHANGED got PROVE IInv'
  BY <1>1, <1>b, <1>c, EndEnds, ReadEnds
<1>2. ASSUME Goto(p, "close"), got' = [got EXCEPT ![p] = r], UNCHANGED result, binding # None,
             r.text = local[p]
      PROVE  IInv'
  <2>a. r.text \in Proc
    BY <1>2, <1>a DEF Shapes, CallShapes
  <2>1. /\ got' \in [Proc -> Revision \cup {None}] /\ got'[p] = r
        /\ \A q \in Proc : q # p => got'[q] = got[q]
    BY <1>2, <1>a, <1>b DEF Shapes, CallShapes
  <2>2. ASSUME at'[p] = "close" PROVE CallInv(p)'
    <3>1. UNCHANGED <<op, observed, local, result, binding, snapshots, view>>
      BY <1>2 DEF store, evidence, request, commandVars
    <3>2. Known' = Known /\ Akin' = Akin
      BY QuietRemote
    <3>3. QED
      BY <1>a, <1>b, <1>2, <2>a, <2>1, <2>2, <3>1, <3>2 DEF CallInv, Free
  <2>3. QED
    BY <1>2, <1>c, <2>1, <2>2, ReadGoesOn DEF Steps
<1>3. QED
  BY <1>1, <1>2 DEF FinishExisting, States

\* getIssue.
LEMMA ReadIssueStep == ASSUME IInv, NEW p \in Proc, ReadIssue(p), UNCHANGED commandVars PROVE IInv'
<1>1. /\ Shapes /\ binding \in Known /\ binding # None /\ binding.kind = "issue"
      /\ at[p] = "read_issue" /\ at[p] \notin Free
  BY DEF IInv, StoreInv, CallInv, ReadIssue, Free
<1>2. PICK r : r = IssueRevision(binding.id)
  OBVIOUS
<1>3. r \in Known /\ r.kind = "issue" /\ r.id = binding.id
  BY <1>1, <1>2, RevisionsAreKnown DEF Known
<1>4. <<r, binding>> \in Akin
  BY <1>1, <1>3 DEF Akin, IssueOf
<1>5. /\ IF op[p] \in Resolutions THEN Effective(p, r) ELSE FinishExisting(p, r)
      /\ UNCHANGED <<remote, store, request, bounds>>
  BY <1>2 DEF ReadIssue
<1>6. QED
  BY <1>1, <1>3, <1>4, <1>5, EffectiveStep, FinishStep

\* getComment.
LEMMA ReadCommentStep ==
  ASSUME IInv, NEW p \in Proc, ReadComment(p), UNCHANGED commandVars PROVE IInv'
<1>1. /\ Shapes /\ CallInv(p) /\ binding \in Known /\ binding # None /\ binding.kind = "comment"
      /\ at[p] = "read_comment" /\ at[p] \notin Free
  BY DEF IInv, StoreInv, CallInv, ReadComment, Free
<1>2. PICK r : r = CommentRevision(binding.id)
  OBVIOUS
<1>3. r \in Known /\ r \in Revision /\ r.kind = "comment" /\ r.id = binding.id
  BY <1>1, <1>2, RevisionsAreKnown DEF Known
<1>4. <<r, binding>> \in Akin
  BY <1>1, <1>3 DEF Akin, IssueOf
<1>5. UNCHANGED <<remote, store, request, bounds>>
  BY DEF ReadComment
<1>6. CASE Effective(p, r)
  BY <1>1, <1>4, <1>5, <1>6, EffectiveStep
<1>7. CASE Goto(p, "read_predecessor") /\ got' = [got EXCEPT ![p] = r] /\ UNCHANGED result
  <2>1. /\ got' \in [Proc -> Revision \cup {None}] /\ got'[p] = r
        /\ \A q \in Proc : q # p => got'[q] = got[q]
    BY <1>7, <1>1, <1>3 DEF Shapes, CallShapes
  <2>2. ASSUME at'[p] = "read_predecessor" PROVE CallInv(p)'
    <3>1. UNCHANGED <<op, observed, local, result, binding, snapshots, view>>
      BY <1>5, <1>7 DEF store, evidence, request, commandVars
    <3>2. Known' = Known /\ Akin' = Akin
      BY <1>5, QuietRemote
    <3>3. QED
      BY <1>1, <1>3, <1>4, <2>1, <2>2, <3>1, <3>2 DEF CallInv, Free
  <2>3. Counted'
    BY <1>1, <1>5 DEF Shapes, Counted, bounds
  <2>4. QED
    BY <1>1, <1>5, <1>7, <2>1, <2>2, <2>3, ReadGoesOn DEF Steps
<1>8. QED
  BY <1>2, <1>6, <1>7 DEF ReadComment

\* The predecessor of an intact correction.
LEMMA ReadPredecessorStep ==
  ASSUME IInv, NEW p \in Proc, ReadPredecessor(p), UNCHANGED commandVars PROVE IInv'
<1>1. /\ Shapes /\ StoreInv /\ at[p] \notin Free
      /\ got[p].kind = "comment" /\ <<got[p], binding>> \in Akin
      /\ UNCHANGED <<remote, store, request, bounds>>
  BY DEF IInv, CallInv, ReadPredecessor, Free
<1>2. got[p] \in Known /\ binding \in Known /\ IssueOf(got[p]) = IssueOf(binding)
  BY <1>1 DEF Akin
<1>3. got[p].id \in 1 .. Len(comments) /\ IssueOf(got[p]) = comments[got[p].id].issue
  BY <1>1, <1>2 DEF Known, IssueOf
<1>4. PICK pred : pred = comments[got[p].id].pred
  OBVIOUS
<1>5. pred \in Known /\ IssueOf(pred) = IssueOf(binding)
  BY <1>1, <1>2, <1>3, <1>4 DEF StoreInv, CommentsInv
<1>6. Current(pred) \in Known /\ IssueOf(Current(pred)) = IssueOf(binding)
  BY <1>1, <1>5, CurrentIsKnown
<1>7. <<Current(pred), binding>> \in Akin
  BY <1>2, <1>6 DEF Akin
<1>8. Effective(p, got[p]) \/ Effective(p, Current(pred))
  BY <1>4 DEF ReadPredecessor
<1>9. QED
  BY <1>1, <1>7, <1>8, EffectiveStep

\* findMarked.
LEMMA ScanStep == ASSUME IInv, NEW p \in Proc, Scan(p), UNCHANGED commandVars PROVE IInv'
<1>1. /\ Shapes /\ CallInv(p) /\ binding = None /\ at[p] = "scan" /\ at[p] \notin Free
      /\ UNCHANGED <<remote, store, request, bounds>>
  BY DEF IInv, CallInv, Scan, Free
<1>2. ASSUME NEW i \in FindMarked, FinishExisting(p, IssueRevision(i)) PROVE IInv'
  <2>1. i \in 1 .. Len(issues) /\ ~issues[i].open
    BY <1>1, LenProperties DEF FindMarked, Shapes, RemoteShapes
  <2>2. PICK r : r = IssueRevision(i)
    OBVIOUS
  <2>3. r \in Known /\ r.kind = "issue" /\ r.id = i
    BY <1>1, <2>1, <2>2, RevisionsAreKnown
  <2>4. QED
    BY <1>1, <1>2, <2>1, <2>2, <2>3, FinishStep
<1>3. CASE Goto(p, "create") /\ UNCHANGED <<got, result>>
  <2>1. ASSUME at'[p] = "create" PROVE CallInv(p)'
    <3>1. UNCHANGED <<op, observed, local, result, got, binding, snapshots, view>>
      BY <1>1, <1>3 DEF store, evidence, request, commandVars
    <3>2. Known' = Known /\ Akin' = Akin
      BY <1>1, QuietRemote
    <3>3. QED
      BY <1>1, <2>1, <3>1, <3>2 DEF CallInv
  <2>2. Counted' /\ got \in [Proc -> Revision \cup {None}]
    BY <1>1 DEF Shapes, Counted, CallShapes, bounds
  <2>3. QED
    BY <1>1, <1>3, <2>1, <2>2, ReadGoesOn DEF Steps
<1>4. QED
  BY <1>2, <1>3 DEF Scan

-----------------------------------------------------------------------------
(* Remote effects *)

\* One more Issue.
LEMMA IssuesGrow ==
  ASSUME IInv, NEW p \in Proc, at[p] # "idle", NewIssue(p),
         UNCHANGED <<comments, resent, binding, snapshots, view>>
  PROVE  /\ RemoteShapes' /\ Grows /\ StoreInv' /\ Unsaid' = Unsaid
         /\ [kind |-> "issue", id |-> Len(issues) + 1, ver |-> 0, text |-> local[p]] \in Known'
<1>a. Shapes /\ StoreInv /\ view.storage # None /\ local[p] \in Text
  BY DEF IInv, CallInv, Shapes, CallShapes, Text
<1>1. PICK e : e = [text |-> local[p], open |-> TRUE, ver |-> 0]
  OBVIOUS
<1>2. e \in Issue /\ issues' = Append(issues, e) /\ Len(issues) < MaxIssues
  BY <1>1, <1>a DEF Issue, NewIssue
<1>3. issues' \in Seq(Issue) /\ Len(issues') = Len(issues) + 1 /\ Len(issues) \in Nat
  BY <1>2, <1>a, AppendProperties, LenProperties DEF Shapes, RemoteShapes
<1>4. RemoteShapes'
  BY <1>2, <1>3, <1>a, ConstantsAssumption DEF Shapes, RemoteShapes
<1>5. Grows /\ Len(comments') = Len(comments)
  BY <1>3, <1>a, LenProperties DEF Grows, Shapes, RemoteShapes
<1>6. StoreInv'
  BY <1>4, <1>5, <1>a, StoreStays
<1>7. PICK r : r = [kind |-> "issue", id |-> Len(issues) + 1, ver |-> 0, text |-> local[p]]
  OBVIOUS
<1>8. r \in Revision /\ r.kind = "issue" /\ r.id = Len(issues) + 1
  BY <1>2, <1>3, <1>7, <1>a, ConstantsAssumption DEF Revision, IssueRev
<1>9. r \in Known'
  BY <1>3, <1>8 DEF Known
<1>10. QED
  BY <1>4, <1>5, <1>6, <1>7, <1>9 DEF Unsaid

\* createIssue.
LEMMA CreateIssueStep ==
  ASSUME IInv, NEW p \in Proc, CreateIssue(p), UNCHANGED commandVars PROVE IInv'
<1>a. /\ Shapes /\ CallInv(p) /\ at[p] = "create" /\ at[p] \notin Free /\ binding = None
      /\ UNCHANGED <<comments, resent, store, request, result, bounds>> /\ local[p] \in Proc
  BY DEF IInv, CallInv, CreateIssue, Free, Shapes, CallShapes
<1>1. PICK r : r = [kind |-> "issue", id |-> Len(issues) + 1, ver |-> 0, text |-> local[p]]
  OBVIOUS
<1>2. RemoteShapes' /\ Grows /\ StoreInv' /\ r \in Known'
  BY <1>1, <1>a, IssuesGrow DEF CreateIssue, store, evidence, commandVars
<1>3. r \in Revision /\ r.kind = "issue" /\ r # None /\ r.text \in Proc
  BY <1>1, <1>2, <1>a, RevisionAssumption DEF Known
<1>4. got' = [got EXCEPT ![p] = r] /\ at' = [at EXCEPT ![p] = "provisional"]
  BY <1>1 DEF CreateIssue, Goto
<1>5. /\ got' \in [Proc -> Revision \cup {None}] /\ got'[p] = r
      /\ at' \in [Proc -> Steps] /\ at'[p] = "provisional"
      /\ \A q \in Proc : q # p => got'[q] = got[q] /\ at'[q] = at[q]
  BY <1>3, <1>4, <1>a DEF Shapes, CallShapes, Steps
<1>6. Known \subseteq Known' /\ UNCHANGED <<op, observed, local, result, binding, snapshots, view>>
  BY <1>2, <1>a, KnownStays DEF store, evidence, request, commandVars
<1>7. CallInv(p)'
  BY <1>a, <1>2, <1>3, <1>5, <1>6 DEF CallInv
<1>8. Counted' /\ result' \in [Proc -> Results]
  BY <1>a DEF Shapes, Counted, CallShapes, bounds
<1>9. QED
  BY <1>a, <1>2, <1>5, <1>7, <1>8, HolderStep

\* The Issue is made and the request is seen to fail, or is sent again.
LEMMA CreateIssueLostStep ==
  ASSUME IInv, NEW p \in Proc, CreateIssueLost(p), UNCHANGED commandVars PROVE IInv'
<1>a. /\ Shapes /\ CallInv(p) /\ at[p] = "create" /\ at[p] \notin Free /\ binding = None
      /\ UNCHANGED <<comments, resent, store, request, got>> /\ Fault
  BY DEF IInv, CallInv, CreateIssueLost, Free
<1>1. RemoteShapes' /\ Grows /\ StoreInv' /\ Unsaid' = Unsaid
  BY <1>a, IssuesGrow DEF CreateIssueLost, store, evidence, commandVars
<1>2. Counted'
  BY <1>a, ManagedAssumption DEF Shapes, Counted, Fault
<1>3. CASE End(p, "pending", None)
  BY <1>1, <1>2, <1>3, <1>a, EndEnds, EndStep DEF States
<1>4. CASE UNCHANGED <<at, result>>
  <2>1. Known \subseteq Known' /\ UNCHANGED <<op, observed, local, binding, snapshots, view>>
    BY <1>1, <1>a, KnownStays DEF store, evidence, request, commandVars
  <2>2. CallInv(p)'
    BY <1>4, <1>a, <2>1 DEF CallInv
  <2>3. QED
    BY <1>1, <1>2, <1>4, <1>a, <2>2, HolderStep DEF Shapes, CallShapes
<1>5. QED
  BY <1>3, <1>4 DEF CreateIssueLost

\* closeIssue.
LEMMA IssueCloses ==
  ASSUME IInv, NEW p \in Proc, at[p] # "idle", NEW i \in 1 .. Len(issues), Closed(i),
         UNCHANGED <<comments, resent, binding, snapshots, view>>
  PROVE  RemoteShapes' /\ Grows /\ StoreInv'
<1>a. Shapes /\ StoreInv /\ view.storage # None /\ issues[i] \in Issue
  BY ElementOfSeq DEF IInv, CallInv, Shapes, RemoteShapes
<1>1. PICK e : e = [issues[i] EXCEPT !.open = FALSE, !.ver = @ + 1]
  OBVIOUS
<1>2. e \in Issue
  <2>1. issues[i].ver + 1 \in Nat
    BY <1>a DEF Issue
  <2>2. PICK v \in Nat : v = issues[i].ver + 1
    BY <2>1
  <2>3. e = [issues[i] EXCEPT !.open = FALSE, !.ver = v]
    BY <1>1, <2>2
  <2>4. QED
    BY <1>a, <2>3 DEF Issue
<1>3. issues' = [issues EXCEPT ![i] = e]
  BY <1>1 DEF Closed
<1>4. issues' \in Seq(Issue) /\ Len(issues') = Len(issues)
  BY <1>2, <1>3, <1>a, ExceptSeq DEF Shapes, RemoteShapes
<1>5. RemoteShapes'
  BY <1>4, <1>a DEF Shapes, RemoteShapes
<1>6. Grows /\ Len(comments') = Len(comments)
  BY <1>4, <1>a, LenProperties DEF Grows, Shapes, RemoteShapes
<1>7. QED
  BY <1>5, <1>6, <1>a, StoreStays

\* The Issue is closed, whether or not the call learns of it.
LEMMA CloseSteps ==
  ASSUME IInv, NEW p \in Proc, CloseIssue(p) \/ CloseIssueLost(p), UNCHANGED commandVars PROVE IInv'
<1>a. /\ Shapes /\ CallInv(p) /\ at[p] \in {"close", "close_unbound"} /\ at[p] \notin Free
      /\ UNCHANGED <<comments, resent, store, request, got>> /\ Closed(got[p].id)
  BY DEF IInv, CloseIssue, CloseIssueLost, Free
<1>b. /\ got[p] \in Known /\ got[p] \in Revision /\ got[p].kind = "issue" /\ got[p] # None
      /\ got[p].id \in 1 .. Len(issues)
  BY <1>a, RevisionAssumption DEF CallInv, Known
<1>1. RemoteShapes' /\ Grows /\ StoreInv'
  BY <1>a, <1>b, IssueCloses DEF store, evidence, commandVars
<1>2. Known \subseteq Known' /\ Akin \subseteq Akin'
  BY <1>1, <1>a, KnownStays
<1>3. Counted'
  BY <1>a, ManagedAssumption DEF CloseIssue, CloseIssueLost, Fault, Shapes, Counted, bounds
<1>4. CASE CloseIssueLost(p)
  <2>1. Ended(p, "pending", got[p], FALSE)
    BY <1>4, EndEnds DEF CloseIssueLost
  <2>2. QED
    BY <1>1, <1>2, <1>3, <1>a, <1>b, <2>1, EndStep DEF States
<1>5. CASE CloseIssue(p)
  <2>1. PICK i : i = issues[got[p].id]
    OBVIOUS
  <2>2. i \in Issue
    BY <1>a, <1>b, <2>1, ElementOfSeq DEF Shapes, RemoteShapes
  <2>3. PICK r : r = [got[p] EXCEPT !.ver = i.ver + 1, !.text = i.text]
    OBVIOUS
  <2>4. r \in Revision /\ r.kind = "issue" /\ r.id = got[p].id
    <3>1. PICK v \in Nat, t \in Text : v = i.ver + 1 /\ t = i.text
      BY <2>2 DEF Issue
    <3>2. r = [got[p] EXCEPT !.ver = v, !.text = t]
      BY <2>3, <3>1
    <3>3. got[p] \in IssueRev
      BY <1>b DEF Revision, IssueRev, CommentRev
    <3>4. r \in IssueRev /\ r.id = got[p].id
      BY <3>2, <3>3 DEF IssueRev
    <3>5. QED
      BY <3>4 DEF Revision, IssueRev
  <2>5. r \in Known' /\ r \in Known /\ r # None
    BY <1>b, <1>2, <2>4, RevisionAssumption DEF Known, Grows
  <2>6. at[p] = "close" => <<r, binding>> \in Akin'
    <3>1. at[p] = "close" => <<got[p], binding>> \in Akin
      BY <1>a DEF CallInv
    <3>2. at[p] = "close" => <<r, binding>> \in Akin
      BY <1>b, <2>4, <2>5, <3>1 DEF Akin, IssueOf
    <3>3. QED
      BY <1>2, <3>2
  <2>7. Ended(p, IF at[p] = "close" THEN "mirrored" ELSE "pending", r, FALSE)
    BY <1>5, <2>1, <2>3, EndEnds DEF CloseIssue
  <2>8. CASE at[p] = "close"
    BY <1>1, <1>3, <1>a, <2>4, <2>5, <2>6, <2>7, <2>8, EndStep DEF States
  <2>9. CASE at[p] # "close"
    BY <1>1, <1>3, <1>a, <2>4, <2>5, <2>7, <2>9, EndStep DEF States
  <2>10. QED
    BY <2>8, <2>9
<1>6. QED
  BY <1>4, <1>5

\* The Issue of what is known exists.
LEMMA IssueOfKnown == ASSUME Shapes, NEW r \in Known PROVE IssueOf(r) \in 1 .. Len(issues)
  BY DEF Shapes, RemoteShapes, Known, IssueOf

\* One more correction: it supersedes what was kept, and nothing else says so.
LEMMA CommentsGrow ==
  ASSUME IInv, NEW p \in Proc, at[p] = "correct", NewCorrection(p),
         UNCHANGED <<binding, snapshots, view>>,
         resent \subseteq resent', resent' \subseteq Proc \X Revision,
         NEW r, r = [kind |-> "comment", id |-> Len(comments) + 1, ver |-> 0, text |-> local[p]]
  PROVE  RemoteShapes' /\ Grows /\ StoreInv' /\ r \in Known' /\ <<r, binding>> \in Akin'
<1>a. /\ Shapes /\ StoreInv /\ view.storage # None /\ local[p] \in Text /\ local[p] \in Proc
      /\ <<got[p], binding>> \in Akin /\ got[p] \in snapshots /\ <<local[p], got[p]>> \in Unsaid
  BY DEF IInv, CallInv, Shapes, CallShapes, Text
<1>b. got[p] \in Known /\ got[p] \in Revision /\ binding \in Known /\ IssueOf(got[p]) = IssueOf(binding)
  BY <1>a DEF Akin, Known
<1>1. PICK n : n = IssueOf(binding)
  OBVIOUS
<1>2. n \in 1 .. Len(issues) /\ n \in 1 .. MaxIssues /\ IssueOf(got[p]) = n
  BY <1>1, <1>a, <1>b, IssueOfKnown, ConstantsAssumption, LenProperties DEF Shapes, RemoteShapes
<1>3. issues' \in Seq(Issue) /\ Len(issues') = Len(issues)
  <2>1. CASE CommentTouches
    <3>1. issues[n] \in Issue
      BY <1>2, <1>a, ElementOfSeq DEF Shapes, RemoteShapes
    <3>2. PICK v \in Nat : v = issues[n].ver + 1
      BY <3>1 DEF Issue
    <3>3. PICK e : e = [issues[n] EXCEPT !.ver = v]
      OBVIOUS
    <3>4. e \in Issue
      BY <3>1, <3>3 DEF Issue
    <3>5. issues' = [issues EXCEPT ![n] = e]
      BY <2>1, <1>1, <3>2, <3>3 DEF NewCorrection
    <3>6. QED
      BY <1>2, <1>a, <3>4, <3>5, ExceptSeq DEF Shapes, RemoteShapes
  <2>2. CASE ~CommentTouches
    BY <2>2, <1>a DEF NewCorrection, Shapes, RemoteShapes
  <2>3. QED
    BY <2>1, <2>2
<1>4. PICK e : e = [text |-> local[p], issue |-> n, pred |-> got[p], ver |-> 0]
  OBVIOUS
<1>5. e \in Comment
  BY <1>2, <1>4, <1>a, <1>b DEF Comment
<1>6. comments' = Append(comments, e) /\ Len(comments) < MaxComments
  BY <1>1, <1>4 DEF NewCorrection
<1>7. /\ comments' \in Seq(Comment) /\ Len(comments') = Len(comments) + 1 /\ Len(comments) \in Nat
      /\ \A c \in 1 .. Len(comments) : comments'[c] = comments[c]
      /\ comments'[Len(comments) + 1] = e
  BY <1>5, <1>6, <1>a, AppendProperties, LenProperties DEF Shapes, RemoteShapes
<1>8. RemoteShapes'
  <2>1. Len(comments') <= MaxComments
    BY <1>6, <1>7, ConstantsAssumption
  <2>2. ASSUME NEW c \in 1 .. Len(comments') PROVE comments'[c].issue \in 1 .. Len(issues')
    <3>1. CASE c \in 1 .. Len(comments)
      BY <1>3, <1>7, <1>a, <3>1 DEF Shapes, RemoteShapes
    <3>2. CASE c = Len(comments) + 1
      BY <1>2, <1>3, <1>4, <1>7, <3>2
    <3>3. QED
      BY <1>7, <3>1, <3>2
  <2>3. QED
    BY <1>3, <1>7, <1>a, <2>1, <2>2 DEF Shapes, RemoteShapes
<1>9. Grows
  BY <1>3, <1>7, <1>a, LenProperties DEF Grows, Shapes, RemoteShapes
<1>10. Known \subseteq Known' /\ Akin \subseteq Akin'
  BY <1>8, <1>9, <1>a, KnownStays
<1>11. r \in Known'
  <2>1. r \in Revision /\ r.kind = "comment" /\ r.id = Len(comments) + 1
    BY <1>6, <1>7, <1>a, ConstantsAssumption DEF Revision, CommentRev
  <2>2. QED
    BY <1>7, <2>1 DEF Known
<1>12. IssueOf(binding)' = n /\ IssueOf(r)' = n
  <2>1. IssueOf(binding)' = n
    BY <1>1, <1>7, <1>b DEF IssueOf, Known
  <2>2. r.kind = "comment" /\ r.id = Len(comments) + 1 /\ e.issue = n
    BY <1>4
  <2>3. QED
    BY <1>7, <2>1, <2>2 DEF IssueOf
<1>13. ASSUME NEW c \in 1 .. Len(comments')
       PROVE  /\ comments'[c].pred \in Known' /\ comments'[c].pred \in snapshots'
              /\ IssueOf(comments[c].pred)' = comments'[c].issue
  <2>1. CASE c \in 1 .. Len(comments)
    <3>1. PICK q : q = comments[c].pred
      OBVIOUS
    <3>2. q \in Known /\ q \in snapshots /\ IssueOf(q) = comments[c].issue
      BY <2>1, <3>1, <1>a DEF StoreInv, CommentsInv
    <3>3. IssueOf(q)' = IssueOf(q)
      BY <1>9, <3>2 DEF Known, IssueOf, Grows
    <3>4. comments'[c] = comments[c]
      BY <1>7, <2>1
    <3>5. IssueOf(comments[c].pred)' = IssueOf(q)'
      BY <3>1, <3>4 DEF IssueOf
    <3>6. QED
      BY <1>10, <3>1, <3>2, <3>3, <3>4, <3>5
  <2>2. CASE c = Len(comments) + 1
    <3>1. comments'[c].pred = got[p] /\ comments'[c].issue = n
      BY <1>4, <1>7, <2>2
    <3>2. IssueOf(comments[c].pred)' = IF got[p].kind = "issue" THEN got[p].id ELSE comments'[got[p].id].issue
      BY <3>1 DEF IssueOf
    <3>3. IssueOf(got[p]) = IF got[p].kind = "issue" THEN got[p].id ELSE comments'[got[p].id].issue
      BY <1>7, <1>b DEF IssueOf, Known
    <3>4. got[p] \in Known' /\ got[p] \in snapshots'
      BY <1>10, <1>a, <1>b
    <3>5. QED
      BY <1>2, <3>1, <3>2, <3>3, <3>4
  <2>3. QED
    BY <1>7, <2>1, <2>2
<1>14. CorrectionsAreUnique'
  <2>1. \A i, j \in 1 .. Len(comments) :
          comments[i].pred = comments[j].pred /\ comments[i].text = comments[j].text
            /\ comments[i].text \in Proc
          => i = j \/ <<comments[i].text, comments[i].pred>> \in resent'
    BY <1>a, LenProperties DEF StoreInv, CommentsInv, CorrectionsAreUnique, Shapes, RemoteShapes
  <2>2. \/ <<local[p], got[p]>> \in resent'
        \/ \A i \in 1 .. Len(comments) : comments[i].pred = got[p] => comments[i].text # local[p]
    BY <1>a DEF Unsaid
  <2>3. e.text = local[p] /\ e.pred = got[p]
    BY <1>4
  <2> SUFFICES ASSUME NEW c \in 1 .. Len(comments'), NEW d \in 1 .. Len(comments'),
                      comments'[c].pred = comments'[d].pred, comments'[c].text = comments'[d].text,
                      comments'[c].text \in Proc
               PROVE  c = d \/ <<comments'[c].text, comments'[c].pred>> \in resent'
    BY <1>7, LenProperties DEF CorrectionsAreUnique
  <2>4. CASE c \in 1 .. Len(comments) /\ d \in 1 .. Len(comments)
    BY <1>7, <2>1, <2>4
  <2>5. CASE c \in 1 .. Len(comments) /\ d = Len(comments) + 1
    BY <1>7, <2>2, <2>3, <2>5
  <2>6. CASE d \in 1 .. Len(comments) /\ c = Len(comments) + 1
    BY <1>7, <2>2, <2>3, <2>6
  <2>7. QED
    BY <1>7, <2>4, <2>5, <2>6
<1>15. JournalInv'
  BY <1>a DEF StoreInv, JournalInv, EffectsAreAccountedFor, Evident, Listed
<1>16. snapshots' \subseteq Known' /\ (binding' # None => binding' \in Known')
  BY <1>10, <1>a DEF StoreInv
<1>17. StoreInv'
  BY <1>13, <1>14, <1>15, <1>16 DEF StoreInv, CommentsInv
<1>18. <<r, binding>> \in Akin'
  BY <1>10, <1>11, <1>12, <1>b DEF Akin
<1>19. QED
  BY <1>8, <1>9, <1>11, <1>17, <1>18

\* A correction of an interrupted keep-local is taken over, or will be made.
LEMMA FindCorrectionStep ==
  ASSUME IInv, NEW p \in Proc, FindCorrection(p), UNCHANGED commandVars PROVE IInv'
<1>a. /\ Shapes /\ CallInv(p) /\ StoreInv /\ at[p] = "find_correction" /\ at[p] \notin Free
      /\ UNCHANGED <<remote, store, request, got, bounds>>
      /\ <<got[p], binding>> \in Akin /\ local[p] \in Proc
  BY DEF IInv, CallInv, FindCorrection, Free, Shapes, CallShapes
<1>b. got[p] \in Known /\ got[p] \in Revision /\ binding \in Known /\ IssueOf(got[p]) = IssueOf(binding)
  BY <1>a DEF Akin, Known
<1>c. Counted' /\ DOMAIN comments = 1 .. Len(comments)
  BY <1>a, LenProperties DEF Shapes, Counted, RemoteShapes, bounds
<1>1. ASSUME NEW c \in 1 .. Len(comments), comments[c].issue = IssueOf(binding),
             End(p, "mirrored", CommentRevision(c))
      PROVE  IInv'
  <2>1. PICK r : r = CommentRevision(c)
    OBVIOUS
  <2>2. r \in Known /\ r.kind = "comment" /\ r.id = c
    BY <1>a, <2>1, RevisionsAreKnown
  <2>3. r \in Revision /\ r # None /\ <<r, binding>> \in Akin
    BY <1>1, <1>b, <2>2, RevisionAssumption DEF Akin, Known, IssueOf
  <2>4. Ended(p, "mirrored", r, FALSE)
    BY <1>1, <2>1, EndEnds
  <2>5. QED
    BY <1>a, <1>c, <2>2, <2>3, <2>4, ReadEnds DEF States
<1>2. ASSUME Goto(p, "correct"), UNCHANGED result,
             \A c \in 1 .. Len(comments) :
               ~(comments[c].issue = IssueOf(binding) /\ comments[c].text = local[p]
                 /\ comments[c].pred = got[p])
      PROVE  IInv'
  <2>1. ASSUME NEW c \in 1 .. Len(comments), comments[c].pred = got[p]
        PROVE  comments[c].text # local[p]
    <3>1. comments[c].issue = IssueOf(binding)
      BY <1>a, <1>b, <2>1 DEF StoreInv, CommentsInv
    <3>2. QED
      BY <1>2, <2>1, <3>1
  <2>2. <<local[p], got[p]>> \in Unsaid
    BY <1>a, <1>b, <2>1 DEF Unsaid
  <2>3. ASSUME at'[p] = "correct" PROVE CallInv(p)'
    <3>1. UNCHANGED <<op, observed, local, got, result, binding, snapshots, view>>
      BY <1>2, <1>a DEF store, evidence, request, commandVars
    <3>2. Known' = Known /\ Akin' = Akin /\ Unsaid' = Unsaid
      BY <1>a, QuietRemote
    <3>3. QED
      BY <1>a, <2>2, <2>3, <3>1, <3>2 DEF CallInv
  <2>4. QED
    BY <1>2, <1>a, <1>c, <2>3, ReadGoesOn DEF Steps, Shapes, CallShapes
<1>3. PICK Left : Left = {c \in DOMAIN comments : comments[c].issue = IssueOf(binding)
                            /\ comments[c].text = local[p] /\ comments[c].pred = got[p]}
  OBVIOUS
<1>4. IF Left = {} THEN Goto(p, "correct") /\ UNCHANGED result
      ELSE \E c \in Left : End(p, "mirrored", CommentRevision(c))
  BY <1>3 DEF FindCorrection
<1>5. CASE Left = {}
  BY <1>2, <1>3, <1>4, <1>5, <1>c
<1>6. CASE Left # {}
  BY <1>1, <1>3, <1>4, <1>6, <1>c
<1>7. QED
  BY <1>5, <1>6

\* The correction is made, whether or not the call learns of it.
LEMMA CorrectSteps ==
  ASSUME IInv, NEW p \in Proc, CreateCorrection(p) \/ CreateCorrectionLost(p), UNCHANGED commandVars
  PROVE  IInv'
<1>a. /\ Shapes /\ CallInv(p) /\ at[p] = "correct" /\ at[p] \notin Free /\ NewCorrection(p)
      /\ UNCHANGED <<store, request, got>> /\ local[p] \in Proc
      /\ resent' \in {resent, resent \cup {<<local[p], got[p]>>}}
  BY DEF IInv, CreateCorrection, CreateCorrectionLost, Free, Shapes, CallShapes
<1>b. resent \subseteq resent' /\ resent' \subseteq Proc \X Revision
  BY <1>a DEF Shapes, RemoteShapes, CallInv, Unsaid
<1>1. PICK r : r = [kind |-> "comment", id |-> Len(comments) + 1, ver |-> 0, text |-> local[p]]
  OBVIOUS
<1>2. RemoteShapes' /\ Grows /\ StoreInv' /\ r \in Known' /\ <<r, binding>> \in Akin'
  BY <1>1, <1>a, <1>b, CommentsGrow DEF store, evidence, commandVars
<1>3. r \in Revision /\ r # None
  BY <1>2, RevisionAssumption DEF Known
<1>4. Counted'
  BY <1>a, ManagedAssumption DEF CreateCorrection, CreateCorrectionLost, Fault, Shapes, Counted, bounds
<1>5. CASE CreateCorrection(p)
  <2>1. Ended(p, "mirrored", r, FALSE)
    BY <1>1, <1>5, EndEnds DEF CreateCorrection
  <2>2. QED
    BY <1>a, <1>2, <1>3, <1>4, <2>1, EndStep DEF States
<1>6. CASE CreateCorrectionLost(p) /\ End(p, "pending", None)
  BY <1>a, <1>2, <1>4, <1>6, EndEnds, EndStep DEF States
<1>7. CASE resent' = resent \cup {<<local[p], got[p]>>} /\ UNCHANGED <<at, result>>
  <2>1. Known \subseteq Known' /\ Akin \subseteq Akin'
    BY <1>2, <1>a, KnownStays
  <2>a. <<local[p], got[p]>> \in Unsaid'
    BY <1>7, <1>a DEF CallInv, Unsaid
  <2>2. CallInv(p)'
    BY <1>7, <1>a, <2>1, <2>a DEF CallInv, store, evidence, request, commandVars
  <2>3. QED
    BY <1>2, <1>4, <1>7, <1>a, <2>2, HolderStep DEF Shapes, CallShapes
<1>8. QED
  BY <1>5, <1>6, <1>7 DEF CreateCorrectionLost

\* A request has no effect, or is refused.
LEMMA FailureSteps ==
  ASSUME IInv, NEW p \in Proc, RequestFails(p) \/ Refused(p), UNCHANGED commandVars
  PROVE  IInv'
<1>a. /\ Shapes /\ CallInv(p) /\ at[p] \notin Free /\ Fault
      /\ UNCHANGED <<remote, store, request, got>>
  BY DEF IInv, RequestFails, Refused, Free
<1>b. Counted'
  BY <1>a, ManagedAssumption DEF Fault, Shapes, Counted
<1>1. CASE RequestFails(p)
  <2>1. PICK s \in {"pending", "prerequisite"} : Ended(p, s, None, FALSE)
    BY <1>1, EndEnds DEF RequestFails
  <2>2. QED
    BY <1>a, <1>b, <2>1, ReadEnds DEF States
<1>2. CASE Refused(p)
  <2>1. got[p] \in Known /\ (binding # None => <<got[p], binding>> \in Akin)
    BY <1>2, <1>a DEF Refused, CallInv, Akin
  <2>2. got[p] \in Revision /\ got[p] # None
    BY <2>1, RevisionAssumption DEF Known
  <2>3. CASE End(p, "conflict", got[p])
    <3>1. Ended(p, "conflict", got[p], FALSE)
      BY <2>3, EndEnds
    <3>2. QED
      BY <1>a, <1>b, <2>1, <2>2, <3>1, ReadEnds DEF States
  <2>4. CASE at[p] \in {"close", "close_unbound"} /\ EndBare(p, "conflict", got[p])
    <3>1. Ended(p, "conflict", got[p], TRUE)
      BY <2>4, EndBareEnds
    <3>2. got[p].text \in Proc
      BY <1>a, <2>4 DEF CallInv
    <3>3. QED
      BY <1>a, <1>b, <2>1, <2>2, <3>1, <3>2, ReadEnds DEF States
  <2>5. QED
    BY <1>2, <2>3, <2>4 DEF Refused
<1>3. QED
  BY <1>1, <1>2

-----------------------------------------------------------------------------
(* The managed mirror around the provider's steps *)

\* The lock is taken: nobody else is between taking and releasing it.
LEMMA AcquireStep == ASSUME IInv, NEW p \in Proc, Acquire(p), UNCHANGED commandVars PROVE IInv'
<1> USE DEF request, bounds, commandVars
<1>a. /\ Shapes /\ CallInv(p) /\ StoreInv /\ LockInv /\ at[p] = "acquire" /\ result[p] = NoResult
      /\ lock = None /\ lock' = p
      /\ UNCHANGED <<remote, binding, snapshots, blanks, request, got, result, bounds>>
  BY DEF IInv, CallInv, Acquire, TakeLock, evidence
<1>1. PICK step : step = Route(p)
  OBVIOUS
<1>2. /\ step \in {"read_issue", "read_comment", "scan", "create", "release"}
      /\ step = "read_issue" => binding # None /\ binding.kind = "issue"
      /\ step = "read_comment" => binding # None /\ binding.kind = "comment"
      /\ step \in {"scan", "create"} => binding = None
  BY <1>1, <1>a DEF Route, Shapes, StoreShapes, Revision, IssueRev, CommentRev
<1>3. /\ at' \in [Proc -> Steps] /\ at'[p] = step /\ \A q \in Proc : q # p => at'[q] = at[q]
  BY <1>1, <1>2, <1>a DEF Acquire, TakeLock, Goto, Shapes, CallShapes, Steps
<1>4. Shapes' /\ Known' = Known /\ Akin' = Akin /\ Unsaid' = Unsaid
  BY <1>3, <1>a, QuietRemote
  DEF Shapes, RemoteShapes, StoreShapes, CallShapes, CommandShapes, Counted, remote
<1>5. LockInv'
  BY <1>3, <1>a, ManagedAssumption DEF LockInv
<1>6. CallInv(p)'
  BY <1>2, <1>3, <1>4, <1>a DEF CallInv, NoResult
<1>7. StoreInv'
  BY <1>4, <1>a
  DEF StoreInv, CommentsInv, CorrectionsAreUnique, JournalInv, EffectsAreAccountedFor,
      Evident, Listed, remote, IssueOf
<1>8. \A q \in Proc : q # p =>
           /\ at'[q] = at[q] /\ op'[q] = op[q] /\ local'[q] = local[q]
           /\ observed'[q] = observed[q] /\ got'[q] = got[q] /\ result'[q] = result[q]
           /\ Unsaid \subseteq Unsaid' \/ at[q] \in Free
           /\ binding' = binding \/ (binding' # None /\ at[q] \in Free)
  BY <1>3, <1>4, <1>a
<1>9. snapshots \subseteq snapshots' /\ (view.storage # None => view'.storage # None)
  BY <1>a
<1>10. QED
  BY <1>4, <1>5, <1>6, <1>7, <1>8, <1>9, ProcessStep

\* Without the lock the call is over.
LEMMA LocklessStep ==
  ASSUME IInv, NEW p \in Proc, Contended(p) \/ AcquireFails(p), UNCHANGED <<remote, commandVars>>
  PROVE  IInv'
<1> USE DEF Contended, AcquireFails, Fault, Goto, store, evidence, request, bounds, commandVars
<1>a. Shapes /\ CallInv(p) /\ StoreInv /\ LockInv /\ at[p] = "acquire" /\ result[p] = NoResult
  BY DEF IInv, CallInv
<1>1. PICK e \in Results : /\ result' = [result EXCEPT ![p] = e]
                          /\ e.state = "pending" /\ e.rev = None /\ ~e.unverified /\ ~e.bare
  <2>1. \A b \in BOOLEAN : [NoResult EXCEPT !.busy = b] \in
          {e \in Results : e.state = "pending" /\ e.rev = None /\ ~e.unverified /\ ~e.bare}
    BY DEF NoResult, Results, States
  <2>2. NoResult \in {e \in Results : e.state = "pending" /\ e.rev = None /\ ~e.unverified /\ ~e.bare}
    BY DEF NoResult, Results, States
  <2>3. CASE Contended(p)
    BY <2>1, <2>3
  <2>4. CASE AcquireFails(p)
    BY <1>a, <2>2, <2>4 DEF Shapes, CallShapes
  <2>5. QED
    BY <2>3, <2>4
<1>2. /\ result' \in [Proc -> Results] /\ result'[p] = e
      /\ \A q \in Proc : q # p => result'[q] = result[q]
  BY <1>1, <1>a DEF Shapes, CallShapes
<1>3. /\ at' \in [Proc -> Steps] /\ at'[p] = "done" /\ \A q \in Proc : q # p => at'[q] = at[q]
  BY <1>a DEF Shapes, CallShapes, Steps
<1>4. Shapes' /\ Known' = Known /\ Akin' = Akin /\ Unsaid' = Unsaid
  BY <1>2, <1>3, <1>a, ManagedAssumption, QuietRemote
  DEF Shapes, RemoteShapes, StoreShapes, CallShapes, CommandShapes, Counted, remote
<1>5. CallInv(p)'
  BY <1>1, <1>2, <1>3, <1>4, <1>a DEF CallInv
<1>6. LockInv'
  BY <1>3, <1>a DEF LockInv
<1>7. StoreInv'
  BY <1>4, <1>a
  DEF StoreInv, CommentsInv, CorrectionsAreUnique, JournalInv, EffectsAreAccountedFor,
      Evident, Listed, remote, IssueOf
<1>8. \A q \in Proc : q # p =>
           /\ at'[q] = at[q] /\ op'[q] = op[q] /\ local'[q] = local[q]
           /\ observed'[q] = observed[q] /\ got'[q] = got[q] /\ result'[q] = result[q]
           /\ Unsaid \subseteq Unsaid' \/ at[q] \in Free
           /\ binding' = binding \/ (binding' # None /\ at[q] \in Free)
  BY <1>2, <1>3, <1>4
<1>9. snapshots \subseteq snapshots' /\ (view.storage # None => view'.storage # None)
  OBVIOUS
<1>10. QED
  BY <1>4, <1>5, <1>6, <1>7, <1>8, <1>9, ProcessStep

\* The holder of the lock keeps what it has found, or gives the lock back.
LEMMA KeepStep ==
  ASSUME IInv, NEW p \in Proc, at[p] \notin Free, UNCHANGED <<remote, request, got, commandVars>>,
         Counted', at' \in [Proc -> Steps], result' \in [Proc -> Results],
         \A q \in Proc : q # p => at'[q] = at[q] /\ result'[q] = result[q],
         binding' \in Revision \cup {None}, binding' # None => binding' \in Known,
         binding' = binding \/ binding' # None,
         snapshots \subseteq snapshots', snapshots' \subseteq Known,
         blanks' \subseteq snapshots', \A r \in blanks' : r.text \in Proc,
         lock' = lock \/ (lock' = None /\ at'[p] = "done"), CallInv(p)'
  PROVE  IInv'
<1> USE DEF request, commandVars, remote
<1>a. Shapes /\ StoreInv /\ LockInv /\ view.storage # None
  BY DEF IInv, CallInv, Free
<1>1. \A q \in Proc : q # p => at[q] \in Free
  BY <1>a DEF LockInv, Free
<1>2. Known' = Known /\ Akin' = Akin /\ Unsaid' = Unsaid
  BY QuietRemote
<1>3. snapshots' \subseteq Revision
  BY DEF Known
<1>4. Shapes'
  BY <1>3, <1>a DEF Shapes, RemoteShapes, StoreShapes, CallShapes, CommandShapes
<1>5. LockInv'
  BY <1>1, <1>a DEF LockInv, Free
<1>6. CommentsInv'
  BY <1>2, <1>a DEF StoreInv, CommentsInv, CorrectionsAreUnique, IssueOf
<1>7. JournalInv'
  BY <1>a DEF StoreInv, JournalInv, EffectsAreAccountedFor, Evident, Listed
<1>8. StoreInv'
  BY <1>2, <1>6, <1>7 DEF StoreInv
<1>9. \A q \in Proc : q # p =>
           /\ at'[q] = at[q] /\ op'[q] = op[q] /\ local'[q] = local[q]
           /\ observed'[q] = observed[q] /\ got'[q] = got[q] /\ result'[q] = result[q]
           /\ Unsaid \subseteq Unsaid' \/ at[q] \in Free
           /\ binding' = binding \/ (binding' # None /\ at[q] \in Free)
  BY <1>1
<1>10. QED
  BY <1>2, <1>4, <1>5, <1>8, <1>9, <1>a, ProcessStep

\* The call of p goes to a step.
LEMMA GoesTo ==
  ASSUME Shapes, NEW p \in Proc, NEW step \in Steps, Goto(p, step)
  PROVE  at' \in [Proc -> Steps] /\ at'[p] = step /\ \A q \in Proc : q # p => at'[q] = at[q]
  BY DEF Goto, Shapes, CallShapes

\* What is kept of a conflict: only what a process says is kept empty.
LEMMA KeepsEvidence ==
  ASSUME IInv, NEW p \in Proc, at[p] = "snapshot", Keep(result[p])
  PROVE  /\ snapshots \subseteq snapshots' /\ snapshots' \subseteq Known
         /\ result[p].rev \in snapshots' /\ blanks' \subseteq snapshots'
         /\ \A r \in blanks' : r.text \in Proc
<1>1. PICK r : r = result[p].rev
  OBVIOUS
<1>2. r \in Known /\ (result[p].bare => r.text \in Proc)
  BY <1>1 DEF IInv, CallInv
<1>3. /\ snapshots' = snapshots \cup {r}
      /\ blanks' = IF result[p].bare THEN blanks \cup {r} ELSE blanks \ {r}
  BY <1>1 DEF Keep
<1>4. snapshots \subseteq Known /\ blanks \subseteq snapshots /\ \A x \in blanks : x.text \in Proc
  BY DEF IInv, StoreInv, Shapes, StoreShapes
<1>5. QED
  BY <1>1, <1>2, <1>3, <1>4

\* The evidence of a conflict, the binding, and the release.
LEMMA KeepSteps ==
  ASSUME IInv, NEW p \in Proc, WriteSnapshot(p) \/ SaveBinding(p) \/ Release(p),
         UNCHANGED <<remote, commandVars>>
  PROVE  IInv'
<1>a. /\ Shapes /\ CallInv(p) /\ StoreInv /\ UNCHANGED <<request, got, result, bounds>>
      /\ result \in [Proc -> Results]
  BY DEF IInv, WriteSnapshot, SaveBinding, Release, Shapes, CallShapes
<1>b. /\ Known' = Known /\ Akin' = Akin /\ Unsaid' = Unsaid /\ UNCHANGED <<view, diary, cmd>>
      /\ Counted'
  BY <1>a, QuietRemote DEF commandVars, bounds, Shapes, Counted
<1>c. /\ binding \in Revision \cup {None} /\ snapshots \subseteq Known
      /\ binding # None => binding \in Known
      /\ blanks \subseteq snapshots /\ \A r \in blanks : r.text \in Proc
  BY <1>a DEF StoreInv, Shapes, StoreShapes
<1>1. CASE WriteSnapshot(p)
  <2>1. /\ at[p] = "snapshot" /\ Goto(p, "bind") /\ Keep(result[p]) /\ UNCHANGED <<binding, lock>>
    BY <1>1, <1>a DEF WriteSnapshot, CallInv
  <2>2. /\ at' \in [Proc -> Steps] /\ at'[p] = "bind" /\ \A q \in Proc : q # p => at'[q] = at[q]
    BY <1>a, <2>1, GoesTo DEF Steps
  <2>3. /\ snapshots \subseteq snapshots' /\ snapshots' \subseteq Known
        /\ result[p].rev \in snapshots' /\ blanks' \subseteq snapshots'
        /\ \A r \in blanks' : r.text \in Proc
    BY <2>1, KeepsEvidence
  <2>4. CallInv(p)'
    BY <1>a, <1>b, <2>1, <2>2, <2>3 DEF CallInv, request
  <2>5. QED
    BY <1>a, <1>b, <1>c, <2>1, <2>2, <2>3, <2>4, KeepStep DEF Free
<1>2. CASE SaveBinding(p)
  <2>1. /\ at[p] = "bind" /\ result[p].rev \in Known /\ result[p].rev # None
        /\ Goto(p, "release") /\ binding' = result[p].rev
        /\ UNCHANGED <<snapshots, blanks, lock>>
    BY <1>2, <1>a DEF SaveBinding, CallInv, evidence
  <2>2. /\ at' \in [Proc -> Steps] /\ at'[p] = "release" /\ \A q \in Proc : q # p => at'[q] = at[q]
    BY <1>a, <2>1, GoesTo DEF Steps
  <2>3. CallInv(p)'
    BY <1>a, <1>b, <2>1, <2>2 DEF CallInv, request
  <2>4. result[p].rev \in Revision
    BY <2>1 DEF Known
  <2>5. QED
    BY <1>a, <1>b, <1>c, <2>1, <2>2, <2>3, <2>4, KeepStep DEF Free
<1>3. CASE Release(p)
  <2>1. /\ at[p] = "release" /\ Goto(p, "done") /\ lock' = None
        /\ UNCHANGED <<binding, snapshots, blanks>>
    BY <1>3 DEF Release, evidence
  <2>2. /\ at' \in [Proc -> Steps] /\ at'[p] = "done" /\ \A q \in Proc : q # p => at'[q] = at[q]
    BY <1>a, <2>1, GoesTo DEF Steps
  <2>3. CallInv(p)'
    BY <1>a, <1>b, <2>1, <2>2 DEF CallInv, request
  <2>4. QED
    BY <1>a, <1>b, <1>c, <2>1, <2>2, <2>3, KeepStep DEF Free
<1>4. QED
  BY <1>1, <1>2, <1>3

\* The evidence or the binding is not written, or not seen to be.
LEMMA KeepFailsStep ==
  ASSUME IInv, NEW p \in Proc, KeepFails(p), UNCHANGED <<remote, commandVars>> PROVE IInv'
<1>a. /\ Shapes /\ CallInv(p) /\ StoreInv /\ at[p] \in {"snapshot", "bind"} /\ at[p] \notin Free
      /\ Fault /\ End(p, "pending", result[p].rev) /\ UNCHANGED <<lock, request, got>>
  BY DEF IInv, KeepFails, Free
<1>b. /\ Known' = Known /\ Akin' = Akin /\ Unsaid' = Unsaid /\ UNCHANGED <<view, diary, cmd>>
      /\ Counted'
  BY <1>a, ManagedAssumption, QuietRemote DEF commandVars, Fault, Shapes, Counted
<1>c. /\ binding \in Revision \cup {None} /\ snapshots \subseteq Known
      /\ binding # None => binding \in Known
      /\ blanks \subseteq snapshots /\ \A r \in blanks : r.text \in Proc
  BY <1>a DEF StoreInv, Shapes, StoreShapes
<1>d. result[p].rev \in Known /\ result[p].rev \in Revision /\ result[p].rev # None
  BY <1>a, RevisionAssumption DEF CallInv, Known
<1>1. /\ at' \in [Proc -> Steps] /\ result' \in [Proc -> Results] /\ at'[p] = "release"
      /\ result'[p] = [state |-> "pending", rev |-> result[p].rev, busy |-> FALSE,
                       unverified |-> FALSE, bare |-> FALSE]
      /\ \A q \in Proc : q # p => result'[q] = result[q] /\ at'[q] = at[q]
  BY <1>a, <1>d, EndEnds, EndedShapes DEF States
<1>2. /\ snapshots \subseteq snapshots' /\ snapshots' \subseteq Known
      /\ blanks' \subseteq snapshots' /\ \A r \in blanks' : r.text \in Proc
  <2>1. CASE at[p] = "snapshot" /\ Keep(result[p])
    BY <2>1, KeepsEvidence
  <2>2. CASE UNCHANGED evidence
    BY <1>c, <2>2 DEF evidence
  <2>3. QED
    BY <2>1, <2>2 DEF KeepFails
<1>3. binding' \in {binding, result[p].rev}
  BY DEF KeepFails
<1>4. result'[p].state = "pending" /\ result'[p].rev \in Known /\ ~result'[p].bare
      /\ ~result'[p].unverified
  BY <1>1, <1>d
<1>5. CallInv(p)'
  BY <1>a, <1>b, <1>1, <1>2, <1>4 DEF CallInv, request
<1>6. QED
  BY <1>a, <1>b, <1>c, <1>d, <1>1, <1>2, <1>3, <1>5, KeepStep

\* The provisional binding names the Issue that was made; without it the call
\* goes on all the same.
LEMMA SaveProvisionalStep ==
  ASSUME IInv, NEW p \in Proc, SaveProvisional(p), UNCHANGED commandVars PROVE IInv'
<1>a. /\ Shapes /\ CallInv(p) /\ StoreInv /\ at[p] = "provisional" /\ at[p] \notin Free
      /\ binding = None /\ got[p] \in Known /\ got[p].kind = "issue" /\ got[p].text \in Proc
      /\ UNCHANGED <<remote, snapshots, blanks, lock, request, got, result>>
      /\ result \in [Proc -> Results]
  BY DEF IInv, SaveProvisional, Free, CallInv, evidence, Shapes, CallShapes
<1>b. Known' = Known /\ Akin' = Akin /\ Unsaid' = Unsaid /\ UNCHANGED <<view, diary, cmd>>
  BY <1>a, QuietRemote DEF commandVars
<1>c. /\ got[p] \in Revision /\ got[p] # None /\ snapshots \subseteq Known
      /\ blanks \subseteq snapshots /\ \A r \in blanks : r.text \in Proc
  BY <1>a, RevisionAssumption DEF Known, StoreInv, Shapes, StoreShapes
<1>d. Counted'
  BY <1>a, ManagedAssumption DEF SaveProvisional, Fault, Shapes, Counted, bounds
<1>e. <<got[p], got[p]>> \in Akin
  BY <1>a DEF Akin
<1>1. PICK step \in {"close", "close_unbound"} :
        /\ Goto(p, step) /\ binding' \in {None, got[p]} /\ (step = "close" => binding' = got[p])
  BY <1>a DEF SaveProvisional
<1>2. /\ at' \in [Proc -> Steps] /\ at'[p] = step /\ \A q \in Proc : q # p => at'[q] = at[q]
  BY <1>a, <1>1, GoesTo DEF Steps
<1>3. CallInv(p)'
  BY <1>1, <1>2, <1>a, <1>b, <1>c, <1>e DEF CallInv, request
<1>4. QED
  BY <1>1, <1>2, <1>3, <1>a, <1>b, <1>c, <1>d, KeepStep

\* Any step of a call.
LEMMA CallsKeep ==
  ASSUME IInv, NEW p \in Proc, CallStep(p), UNCHANGED commandVars PROVE IInv'
<1>1. CASE ReadIssue(p) \/ ReadComment(p) \/ ReadPredecessor(p) \/ Scan(p)
  BY <1>1, ReadIssueStep, ReadCommentStep, ReadPredecessorStep, ScanStep
<1>2. CASE CreateIssue(p) \/ CreateIssueLost(p) \/ SaveProvisional(p)
  BY <1>2, CreateIssueStep, CreateIssueLostStep, SaveProvisionalStep
<1>3. CASE CloseIssue(p) \/ CloseIssueLost(p) \/ FindCorrection(p)
  BY <1>3, CloseSteps, FindCorrectionStep
<1>4. CASE CreateCorrection(p) \/ CreateCorrectionLost(p)
  BY <1>4, CorrectSteps
<1>5. CASE RequestFails(p) \/ Refused(p)
  BY <1>5, FailureSteps
<1>6. CASE Acquire(p)
  BY <1>6, AcquireStep
<1>7. CASE (Contended(p) \/ AcquireFails(p)) /\ UNCHANGED remote
  BY <1>7, LocklessStep
<1>8. CASE (WriteSnapshot(p) \/ SaveBinding(p) \/ KeepFails(p) \/ Release(p)) /\ UNCHANGED remote
  BY <1>8, KeepSteps, KeepFailsStep
<1>9. QED
  BY <1>1, <1>2, <1>3, <1>4, <1>5, <1>6, <1>7, <1>8 DEF CallStep, ManagedStep

-----------------------------------------------------------------------------
(* The commands, the people and the whole *)

\* The journal only lists a conflict whose evidence is kept, and only settles
\* what is bound.
LEMMA ViewStep ==
  ASSUME Shapes, StoreInv, NEW p \in Proc, CallInv(p), Journals(p),
         UNCHANGED <<remote, snapshots, binding>>
  PROVE  StoreInv' /\ (view.storage # None => view'.storage # None)
<1>1. JournalInv' /\ (view.storage # None => view'.storage # None)
  <2>1. CASE view'.storage = view.storage /\ view'.settled = view.settled
    BY <2>1 DEF StoreInv, JournalInv, EffectsAreAccountedFor, Evident, Listed, remote
  <2>2. CASE Intends
    BY <2>2 DEF Intends, JournalInv, EffectsAreAccountedFor, Evident, Listed
  <2>3. CASE at[p] = "done" /\ Shows(result[p])
    <3>1. Carried(result[p]).state = result[p].state
      BY DEF Carried
    <3>2. result[p].state = "conflict" => Carried(result[p]).rev = result[p].rev
      BY DEF Carried
    <3>3. QED
      BY <2>3, <3>1, <3>2
      DEF CallInv, Shows, JournalInv, EffectsAreAccountedFor, Evident, Listed
  <2>4. QED
    BY <2>1, <2>2, <2>3 DEF Journals
<1>2. Known' = Known
  BY QuietRemote
<1>3. CommentsInv'
  BY <1>2 DEF StoreInv, CommentsInv, CorrectionsAreUnique, IssueOf, remote
<1>4. QED
  BY <1>1, <1>2, <1>3 DEF StoreInv

\* A command, or what begins or ends one.
LEMMA CommandsKeep ==
  ASSUME IInv, NEW p \in Proc, CommandStep(p) \/ Begin(p), UNCHANGED remote PROVE IInv'
<1>a. Shapes /\ CallInv(p) /\ StoreInv /\ LockInv
  BY DEF IInv
<1>b. (Idles \/ Calls(p) \/ Returns(p) \/ Die(p)) /\ CommandShapes' /\ Journals(p)
  BY <1>a, CommandKinds
<1>c. Known' = Known /\ Akin' = Akin /\ Unsaid' = Unsaid
  BY QuietRemote
<1>d. RemoteShapes'
  BY <1>a DEF remote, Shapes, RemoteShapes
<1>1. CASE Idles
  <2>1. UNCHANGED <<store, at, request, got, result>> /\ Counted'
    BY <1>1, <1>a, ManagedAssumption DEF Idles, Counts, Shapes, Counted
  <2>2. StoreInv' /\ (view.storage # None => view'.storage # None)
    BY <1>a, <1>b, <2>1, ViewStep DEF store, evidence
  <2>3. Shapes' /\ LockInv' /\ CallInv(p)'
    BY <1>a, <1>b, <1>c, <1>d, <2>1, <2>2
    DEF store, evidence, request, Shapes, StoreShapes, CallShapes, LockInv, CallInv
  <2>4. QED
    BY <1>c, <2>1, <2>2, <2>3, ProcessStep DEF store, evidence, request
<1>2. CASE Calls(p)
  <2>1. PICK what \in Operations, t \in Proc, r \in snapshots \cup {None} :
          Call(p, what, t, r) /\ (what \in Resolutions => r \in snapshots)
    BY <1>2 DEF Calls
  <2>2. /\ at[p] = "idle" /\ at' = [at EXCEPT ![p] = "acquire"] /\ op' = [op EXCEPT ![p] = what]
        /\ local' = [local EXCEPT ![p] = t] /\ observed' = [observed EXCEPT ![p] = r]
        /\ UNCHANGED <<binding, snapshots, blanks, lock, got, result, edits, faults>>
    BY <2>1 DEF Call, Goto, store, evidence, bounds
  <2>3. r \in Revision \cup {None} /\ view'.storage # None
    BY <1>2, <1>a DEF Calls, Shapes, StoreShapes
  <2>4. Shapes'
    BY <1>a, <1>b, <1>d, <2>2, <2>3 DEF Shapes, StoreShapes, CallShapes, Counted, Steps
  <2>5. /\ at'[p] = "acquire" /\ op'[p] = what /\ observed'[p] = r
        /\ \A q \in Proc : q # p =>
             /\ at'[q] = at[q] /\ op'[q] = op[q] /\ observed'[q] = observed[q]
             /\ local'[q] = local[q]
    BY <1>a, <2>2 DEF Shapes, CallShapes
  <2>6. CallInv(p)'
    BY <1>a, <1>c, <2>1, <2>2, <2>3, <2>5 DEF CallInv, NoResult
  <2>7. LockInv'
    BY <1>a, <2>2, <2>5 DEF LockInv
  <2>8. StoreInv'
    BY <1>a, <1>b, <2>2, ViewStep
  <2>9. QED
    BY <1>c, <2>2, <2>3, <2>4, <2>5, <2>6, <2>7, <2>8, ProcessStep
<1>3. ASSUME Return(p), UNCHANGED <<binding, snapshots, blanks>>, Counted',
             lock' \in Proc \cup {"orphan", "empty", None}, \A q \in Proc : q # p /\ lock = q => lock' = q
      PROVE  IInv'
  <2>1. NoResult \in Results
    BY DEF NoResult, Results, States
  <2>2. Shapes'
    BY <1>a, <1>b, <1>d, <1>3, <2>1
    DEF Return, Shapes, StoreShapes, CallShapes, Steps, Operations
  <2>3. /\ at'[p] = "idle" /\ op'[p] = "mirror" /\ observed'[p] = None /\ got'[p] = None
        /\ result'[p] = NoResult
        /\ \A q \in Proc : q # p =>
             /\ at'[q] = at[q] /\ op'[q] = op[q] /\ observed'[q] = observed[q]
             /\ local'[q] = local[q] /\ got'[q] = got[q] /\ result'[q] = result[q]
    BY <1>a, <1>3 DEF Return, Shapes, CallShapes
  <2>4. CallInv(p)'
    BY <2>3 DEF CallInv, NoResult, Resolutions
  <2>5. LockInv'
    BY <1>a, <1>3, <2>3 DEF LockInv
  <2>6. StoreInv' /\ (view.storage # None => view'.storage # None)
    BY <1>a, <1>b, <1>3, ViewStep
  <2>7. QED
    BY <1>c, <1>3, <2>2, <2>3, <2>4, <2>5, <2>6, ProcessStep
<1>4. CASE Returns(p)
  BY <1>3, <1>4, <1>a DEF Returns, store, evidence, bounds, Shapes, StoreShapes, Counted
<1>5. CASE Die(p)
  <2>1. Return(p) /\ UNCHANGED <<binding, snapshots, blanks>>
    BY <1>5 DEF Die, evidence
  <2>2. lock' \in {lock, "orphan", "empty"} /\ \A q \in Proc : q # p /\ lock = q => lock' = q
    BY <1>5, ManagedAssumption DEF Die
  <2>3. Counted'
    BY <1>5, <1>a, ManagedAssumption DEF Die, Fault, Shapes, Counted
  <2>4. lock \in Proc \cup {"orphan", "empty", None}
    BY <1>a DEF Shapes, StoreShapes
  <2>5. QED
    BY <1>3, <2>1, <2>2, <2>3, <2>4
<1>6. QED
  BY <1>b, <1>1, <1>2, <1>4, <1>5

\* People edit an Issue or a correction.
LEMMA EditChanges ==
  ASSUME Shapes, Edit
  PROVE  RemoteShapes' /\ Grows /\ Len(comments') = Len(comments) /\ Len(issues') = Len(issues)
<1>a. /\ issues \in Seq(Issue) /\ comments \in Seq(Comment)
      /\ DOMAIN issues = 1 .. Len(issues) /\ DOMAIN comments = 1 .. Len(comments)
      /\ Len(issues) \in Nat /\ Len(comments) \in Nat
  BY LenProperties DEF Shapes, RemoteShapes
<1>1. PICK t \in Edits :
       \/ \E i \in DOMAIN issues :
            issues' = [issues EXCEPT ![i].text = t, ![i].ver = @ + 1] /\ UNCHANGED comments
       \/ \E c \in DOMAIN comments :
            comments' = [comments EXCEPT ![c].text = t, ![c].ver = @ + 1] /\ UNCHANGED issues
  BY DEF Edit
<1>t. t \in Text /\ resent' = resent
  BY DEF Text, Edit
<1>2. ASSUME NEW i \in DOMAIN issues, UNCHANGED comments,
             issues' = [issues EXCEPT ![i].text = t, ![i].ver = @ + 1]
      PROVE  RemoteShapes' /\ Grows /\ Len(comments') = Len(comments) /\ Len(issues') = Len(issues)
  <2>1. issues[i] \in Issue /\ i \in 1 .. Len(issues)
    BY <1>a, ElementOfSeq
  <2>2. PICK v \in Nat : v = issues[i].ver + 1
    BY <2>1 DEF Issue
  <2>3. PICK e : e = [issues[i] EXCEPT !.text = t, !.ver = v]
    OBVIOUS
  <2>4. e \in Issue
    BY <1>t, <2>1, <2>3 DEF Issue
  <2>5. issues' = [issues EXCEPT ![i] = e]
    BY <1>2, <2>2, <2>3
  <2>6. issues' \in Seq(Issue) /\ Len(issues') = Len(issues)
    BY <1>a, <2>1, <2>4, <2>5, ExceptSeq
  <2>7. QED
    BY <1>2, <1>a, <1>t, <2>6 DEF Shapes, RemoteShapes, Grows
<1>3. ASSUME NEW c \in DOMAIN comments, UNCHANGED issues,
             comments' = [comments EXCEPT ![c].text = t, ![c].ver = @ + 1]
      PROVE  RemoteShapes' /\ Grows /\ Len(comments') = Len(comments) /\ Len(issues') = Len(issues)
  <2>1. comments[c] \in Comment /\ c \in 1 .. Len(comments)
    BY <1>a, ElementOfSeq
  <2>2. PICK v \in Nat : v = comments[c].ver + 1
    BY <2>1 DEF Comment
  <2>3. PICK e : e = [comments[c] EXCEPT !.text = t, !.ver = v]
    OBVIOUS
  <2>4. e \in Comment /\ e.text = t /\ e.issue = comments[c].issue /\ e.pred = comments[c].pred
    BY <1>t, <2>1, <2>3 DEF Comment
  <2>5. comments' = [comments EXCEPT ![c] = e]
    BY <1>3, <2>2, <2>3
  <2>6. comments' \in Seq(Comment) /\ Len(comments') = Len(comments)
    BY <1>a, <2>1, <2>4, <2>5, ExceptSeq
  <2>7. \A d \in 1 .. Len(comments) : comments'[d] = IF d = c THEN e ELSE comments[d]
    BY <1>a, <2>1, <2>5
  <2>8. \A d \in 1 .. Len(comments) :
          /\ comments'[d].issue = comments[d].issue /\ comments'[d].pred = comments[d].pred
          /\ comments'[d].text \in {comments[d].text} \cup Edits
    BY <2>4, <2>7
  <2>9. Grows
    BY <1>3, <1>a, <1>t, <2>6, <2>8 DEF Grows
  <2>10. RemoteShapes'
    BY <1>3, <1>a, <1>t, <2>6, <2>8 DEF Shapes, RemoteShapes
  <2>11. QED
    BY <1>3, <2>6, <2>9, <2>10
<1>4. QED
  BY <1>1, <1>2, <1>3

\* An edit leaves everything true that is kept or held.
LEMMA EditKeeps == ASSUME IInv, Edit, UNCHANGED commandVars PROVE IInv'
<1> USE DEF store, evidence, request, commandVars
<1>a. Shapes /\ StoreInv /\ LockInv
  BY DEF IInv
<1>1. /\ RemoteShapes' /\ Grows /\ Len(comments') = Len(comments) /\ Len(issues') = Len(issues)
      /\ UNCHANGED <<store, at, request, got, result>> /\ Counted'
  <2>1. /\ UNCHANGED <<store, at, request, got, result, faults>>
        /\ edits < MaxEdits /\ edits' = edits + 1
    BY DEF Edit
  <2>2. Counted'
    BY <1>a, <2>1, ManagedAssumption DEF Shapes, Counted
  <2>3. QED
    BY <1>a, <2>1, <2>2, EditChanges
<1>2. issues' # <<>> => view.storage # None
  <2>1. issues # <<>> => view.storage # None
    BY <1>a DEF StoreInv, JournalInv, EffectsAreAccountedFor
  <2>2. issues' # <<>> => issues # <<>>
    BY <1>1, <1>a, EmptySeq DEF Shapes, RemoteShapes
  <2>3. QED
    BY <2>1, <2>2
<1>3. StoreInv'
  BY <1>1, <1>2, <1>a, StoreStays
<1>4. Known \subseteq Known' /\ Akin \subseteq Akin' /\ Unsaid \subseteq Unsaid'
  BY <1>1, <1>a, KnownStays, UnsaidStays
<1>5. Shapes' /\ LockInv'
  BY <1>1, <1>a DEF Shapes, StoreShapes, CallShapes, CommandShapes, LockInv
<1>6. ASSUME NEW q \in Proc PROVE CallInv(q)'
  BY <1>1, <1>4, <1>a, OthersKeep DEF IInv
<1>7. QED
  BY <1>3, <1>5, <1>6 DEF IInv

\* A user clears a lock whose owner is gone; or nothing happens.
LEMMA ClearLockKeeps ==
  ASSUME IInv, ClearLock \/ UNCHANGED managedVars, UNCHANGED <<remote, commandVars>> PROVE IInv'
<1>a. Shapes /\ StoreInv /\ LockInv
  BY DEF IInv
<1>1. /\ UNCHANGED <<binding, snapshots, blanks, at, op, local, observed, got, result, edits,
                     faults, issues, comments, resent, diary, view, cmd>>
      /\ lock' = lock \/ (lock = "orphan" /\ lock' = None)
  BY DEF ClearLock, managedVars, evidence, remote, commandVars, request, bounds
<1>2. Shapes'
  BY <1>1, <1>a DEF Shapes, RemoteShapes, StoreShapes, CallShapes, CommandShapes, Counted
<1>3. LockInv'
  BY <1>1, <1>a, ManagedAssumption DEF LockInv
<1>4. Known' = Known /\ Akin' = Akin /\ Unsaid' = Unsaid
  BY QuietRemote
<1>5. StoreInv'
  BY <1>1, <1>4, <1>a
  DEF StoreInv, CommentsInv, CorrectionsAreUnique, JournalInv, EffectsAreAccountedFor,
      Evident, Listed, IssueOf
<1>6. ASSUME NEW q \in Proc PROVE CallInv(q)'
  BY <1>1, <1>4, <1>a, OthersKeep DEF IInv
<1>7. QED
  BY <1>2, <1>3, <1>5, <1>6 DEF IInv

\* A saga begins with nothing said, kept or mirrored.
LEMMA InitInv == ASSUME Init PROVE IInv
<1> USE DEF Init, MirrorInit, ManagedInit, CommandInit
<1>1. NoResult \in Results /\ EmptyView \in Views
  BY DEF NoResult, Results, States, EmptyView, Views
<1>2. issues \in Seq(Issue) /\ comments \in Seq(Comment) /\ Len(issues) = 0 /\ Len(comments) = 0
  OBVIOUS
<1>3. Shapes
  BY <1>1, <1>2, ManagedAssumption, ConstantsAssumption
  DEF Shapes, RemoteShapes, StoreShapes, CallShapes, CommandShapes, Counted, Steps, Operations,
      Commands
<1>4. \A p \in Proc : CallInv(p)
  BY DEF CallInv, NoResult, Resolutions
<1>5. CorrectionsAreUnique
  BY DEF CorrectionsAreUnique
<1>6. StoreInv
  BY <1>2, <1>5
  DEF StoreInv, CommentsInv, JournalInv, EffectsAreAccountedFor, Evident, Listed,
      EmptyView
<1>7. LockInv
  BY DEF LockInv
<1>8. QED
  BY <1>3, <1>4, <1>6, <1>7 DEF IInv

\* Every step keeps the invariant.
LEMMA StepKeeps == ASSUME IInv, [Next]_vars PROVE IInv'
<1>1. ASSUME NEW p \in Proc, Continue(p) \/ (Begin(p) /\ UNCHANGED remote) PROVE IInv'
  BY <1>1, CallsKeep, CommandsKeep DEF Continue
<1>2. CASE Edit /\ UNCHANGED commandVars
  BY <1>2, EditKeeps
<1>3. CASE (ClearLock \/ UNCHANGED managedVars) /\ UNCHANGED <<remote, commandVars>>
  BY <1>3, ClearLockKeeps
<1>4. CASE UNCHANGED vars
  BY <1>3, <1>4 DEF vars, mirrorVars, managedVars, remote
<1>5. QED
  BY <1>1, <1>2, <1>3, <1>4 DEF Next

-----------------------------------------------------------------------------
(* The theorems *)

\* The inductive invariant holds always.
THEOREM Invariant == Spec => []IInv
<1>1. Init => IInv
  BY InitInv
<1>2. IInv /\ [Next]_vars => IInv'
  BY StepKeeps
<1>3. QED
  BY <1>1, <1>2, PTL DEF Spec

\* Every variable keeps its type.
THEOREM TypeCorrect == Spec => []TypeOK
<1>1. IInv => TypeOK
  <2> SUFFICES ASSUME IInv PROVE TypeOK
    OBVIOUS
  <2>1. CommandsTyped /\ view \in Views
    BY DEF IInv, Shapes, CommandShapes, Views, Commands, CommandsTyped
  <2>2. at \in [Proc -> Steps] /\ op \in [Proc -> Operations] /\ result \in [Proc -> Results]
    BY DEF IInv, Shapes, CallShapes
  <2>3. issues \in Seq(Issue) /\ comments \in Seq(Comment) /\ resent \subseteq Proc \X Revision
    BY DEF IInv, Shapes, RemoteShapes
  <2>4. QED
    BY <2>1, <2>2, <2>3
    DEF IInv, Shapes, StoreShapes, CallShapes, Counted, Steps, Operations, Results, Views,
        Obligations, Issue, Comment, TypeOK
<1>2. QED
  BY <1>1, Invariant, PTL

\* No remote Issue is forgotten by the journal (core/session.go:343-344).
THEOREM EffectsAreRemembered == Spec => []EffectsAreAccountedFor
<1>1. IInv => EffectsAreAccountedFor
  BY DEF IInv, StoreInv, JournalInv
<1>2. QED
  BY <1>1, Invariant, PTL

\* An empty snapshot hides nothing that people have written.
LEMMA KeptIfWritten == ASSUME IInv PROVE \A r \in snapshots : Kept(r)
  BY ConstantsAssumption DEF IInv, Shapes, StoreShapes, Kept

\* A journaled conflict can be resolved (run, storage/recovery.go:385-403).
THEOREM ConflictsAreEvident == Spec => []ConflictHasEvidence
<1>1. IInv => ConflictHasEvidence
  BY KeptIfWritten DEF IInv, StoreInv, JournalInv, Evident, ConflictHasEvidence
<1>2. QED
  BY <1>1, Invariant, PTL

\* A correction supersedes what was kept (resolve, issues_semantics.go:127-133).
THEOREM CorrectionsAreDecided == Spec => []CorrectionsSupersedeKept
<1>1. IInv => CorrectionsSupersedeKept
  BY LenProperties, KeptIfWritten
  DEF IInv, Shapes, RemoteShapes, StoreInv, CommentsInv, CorrectionsSupersedeKept
<1>2. QED
  BY <1>1, Invariant, PTL

\* Two corrections of one version say the same only if people made them so or
\* the transport has sent that correction again: no crash, retry or
\* interleaving repeats one (findCorrection, rest.go:375-377).
THEOREM CorrectionsAreTakenOver == Spec => []CorrectionsAreUnique
<1>1. IInv => CorrectionsAreUnique
  BY DEF IInv, StoreInv, CommentsInv
<1>2. QED
  BY <1>1, Invariant, PTL

\* The result becomes the binding, or its evidence is kept.
Saves(p) == /\ at[p] = "bind" /\ binding' = result[p].rev
            /\ UNCHANGED <<remote, snapshots>>
Keeps(p) == /\ at[p] = "snapshot" /\ snapshots \subseteq snapshots'
            /\ UNCHANGED <<remote, binding>>

\* The binding is written by the end of a call, or for the Issue that was
\* just made.
LEMMA BindingIsSaved ==
  ASSUME IInv, [Next]_vars, binding' # binding
  PROVE  \E p \in Proc : SaveProvisional(p) \/ Saves(p)
<1>1. ASSUME NEW p \in Proc, CallStep(p)
      PROVE  SaveProvisional(p) \/ Saves(p)
  BY <1>1
  DEF CallStep, ManagedStep, Acquire, TakeLock, ReadIssue, ReadComment, ReadPredecessor, Scan,
      CreateIssue, CreateIssueLost, CloseIssue, CloseIssueLost, FindCorrection, CreateCorrection,
      CreateCorrectionLost, RequestFails, Refused, Contended, AcquireFails, WriteSnapshot,
      SaveBinding, KeepFails, Release, Saves, store, evidence
<1>2. ASSUME NEW p \in Proc, CommandStep(p) \/ Begin(p) PROVE FALSE
  <2>1. Idles \/ Calls(p) \/ Returns(p) \/ Die(p)
    BY <1>2, CommandKinds DEF IInv
  <2>2. QED
    BY <2>1 DEF Idles, Calls, Call, Returns, Die, store, evidence
<1>3. CASE Edit \/ ClearLock \/ UNCHANGED vars
  BY <1>3 DEF Edit, ClearLock, vars, mirrorVars, managedVars, store, evidence
<1>4. QED
  BY <1>1, <1>2, <1>3 DEF Next, Continue

\* The binding never comes to name another Issue (run, storage/recovery.go:363).
THEOREM BindingIsFaithful == Spec => BindingKeepsIdentity
<1>1. ASSUME IInv, [Next]_vars, binding' # binding, binding # None
      PROVE  binding' # None /\ IssueOf(binding)' = IssueOf(binding)
  <2>1. PICK p \in Proc : SaveProvisional(p) \/ Saves(p)
    BY <1>1, BindingIsSaved
  <2>2. CallInv(p)
    BY <1>1 DEF IInv
  <2>3. at[p] = "bind" /\ UNCHANGED remote /\ binding' = result[p].rev
    BY <1>1, <2>1, <2>2 DEF SaveProvisional, Saves, CallInv
  <2>4. binding' = result[p].rev
    BY <2>3
  <2>5. binding' # None /\ <<binding', binding>> \in Akin
    BY <1>1, <2>2, <2>3 DEF CallInv
  <2>6. IssueOf(result[p].rev) = IssueOf(binding)
    BY <2>4, <2>5 DEF Akin
  <2>7. IssueOf(binding)' = IssueOf(result[p].rev)
    BY <2>3, <2>4 DEF IssueOf, remote
  <2>8. QED
    BY <2>5, <2>6, <2>7
<1>2. IInv /\ [Next]_vars =>
        [binding # None => binding' # None /\ IssueOf(binding)' = IssueOf(binding)]_binding
  BY <1>1
<1>3. QED
  BY <1>2, Invariant, PTL DEF Spec, BindingKeepsIdentity

-----------------------------------------------------------------------------
(* What a step does to the Issues, the binding and the snapshots *)

\* A call that has begun belongs to an obligation.
LEMMA CallsAreObliged ==
  ASSUME IInv, NEW p \in Proc, at[p] # "idle" PROVE Stage # "none" /\ view.storage # None
<1>1. view.storage # None
  BY DEF IInv, CallInv
<1>2. QED
  BY <1>1 DEF Stage

\* Nothing is made and nothing is saved.
Rests == /\ Len(issues') = Len(issues) /\ Grows /\ RemoteShapes'
         /\ binding' = binding /\ snapshots' = snapshots

\* One Issue more.
Makes(p) == /\ CreateIssue(p) \/ CreateIssueLost(p)
            /\ at[p] = "create" /\ NewIssue(p)
            /\ UNCHANGED <<comments, binding, snapshots>>

\* The steps of a call: an Issue is made, the binding or a snapshot is written,
\* or neither.
LEMMA CallKinds ==
  ASSUME IInv, NEW p \in Proc, CallStep(p), UNCHANGED commandVars
  PROVE  /\ at[p] # "idle"
         /\ Rests \/ Makes(p) \/ SaveProvisional(p) \/ Saves(p) \/ Keeps(p)
<1>a. Shapes /\ CallInv(p) /\ Len(issues) \in Nat /\ Len(comments) \in Nat
  BY LenProperties DEF IInv, Shapes, RemoteShapes
<1>1. ASSUME UNCHANGED <<remote, binding, snapshots>> PROVE Rests
  BY <1>1, <1>a DEF remote, Rests, Grows, Shapes, RemoteShapes
<1>2. CASE Acquire(p)
  BY <1>1, <1>2 DEF Acquire, TakeLock, evidence
<1>3. CASE ReadIssue(p) \/ ReadComment(p) \/ ReadPredecessor(p) \/ Scan(p) \/ FindCorrection(p)
           \/ RequestFails(p) \/ Refused(p)
  BY <1>1, <1>3
  DEF ReadIssue, ReadComment, ReadPredecessor, Scan, FindCorrection, RequestFails, Refused, store, evidence
<1>4. CASE CreateIssue(p) \/ CreateIssueLost(p)
  BY <1>4 DEF CreateIssue, CreateIssueLost, Makes, store, evidence
<1>5. CASE CloseIssue(p) \/ CloseIssueLost(p)
  <2>1. /\ at[p] \in {"close", "close_unbound"} /\ Closed(got[p].id)
        /\ UNCHANGED <<comments, resent, binding, snapshots>>
    BY <1>5 DEF CloseIssue, CloseIssueLost, store, evidence
  <2>2. got[p].id \in 1 .. Len(issues)
    BY <2>1, <1>a DEF CallInv, Known
  <2>3. RemoteShapes' /\ Grows
    BY <2>1, <2>2, IssueCloses DEF commandVars
  <2>4. Len(issues') = Len(issues)
    <3>1. DOMAIN issues' = DOMAIN issues
      BY <2>1 DEF Closed
    <3>2. QED
      BY <2>3, <3>1, <1>a, LenProperties DEF Shapes, RemoteShapes
  <2>5. QED
    BY <2>1, <2>3, <2>4 DEF Rests
<1>6. CASE CreateCorrection(p) \/ CreateCorrectionLost(p)
  <2>1. /\ at[p] = "correct" /\ NewCorrection(p) /\ UNCHANGED <<binding, snapshots>>
        /\ resent' \in {resent, resent \cup {<<local[p], got[p]>>}}
    BY <1>6 DEF CreateCorrection, CreateCorrectionLost, store, evidence
  <2>a. resent \subseteq resent' /\ resent' \subseteq Proc \X Revision
    BY <2>1, <1>a DEF Shapes, RemoteShapes, CallInv, Unsaid
  <2>2. RemoteShapes' /\ Grows
    BY <2>1, <2>a, CommentsGrow DEF commandVars
  <2>3. Len(issues') = Len(issues)
    <3>1. DOMAIN issues' = DOMAIN issues
      BY <2>1 DEF NewCorrection
    <3>2. QED
      BY <2>2, <3>1, <1>a, LenProperties DEF Shapes, RemoteShapes
  <2>4. QED
    BY <2>1, <2>2, <2>3 DEF Rests
<1>7. CASE ManagedStep(p) /\ UNCHANGED remote
  <2>1. CASE Contended(p) \/ AcquireFails(p) \/ Release(p)
    BY <1>1, <1>7, <2>1 DEF Contended, AcquireFails, Release, store, evidence
  <2>2. CASE SaveBinding(p) \/ WriteSnapshot(p)
    BY <1>7, <2>2 DEF SaveBinding, WriteSnapshot, Saves, Keeps, Keep, evidence
  <2>3. CASE KeepFails(p)
    BY <1>1, <1>7, <2>3 DEF KeepFails, Saves, Keeps, Keep, evidence
  <2>4. QED
    BY <1>7, <2>1, <2>2, <2>3 DEF ManagedStep
<1>8. CASE SaveProvisional(p)
  BY <1>8 DEF SaveProvisional
<1>9. QED
  BY <1>2, <1>3, <1>4, <1>5, <1>6, <1>7, <1>8 DEF CallStep

-----------------------------------------------------------------------------
(* The promise of MirrorObligation: the steps of a call *)

\* Objects that rest leave the promise as it is, but for the journal.
LEMMA RestsPromise ==
  ASSUME Shapes, StoreInv, Rests PROVE UNCHANGED <<Made, Bound, snapshots>>
<1>1. Made' = Made
  BY LenProperties DEF Rests, Made, Shapes, RemoteShapes
<1>2. Bound' = Bound
  <2>1. CASE binding = None
    BY <2>1 DEF Rests, Bound
  <2>2. CASE binding # None
    <3>1. PICK r : r = binding
      OBVIOUS
    <3>2. r \in Known /\ binding' = r /\ r # None
      BY <2>2, <3>1 DEF StoreInv, Rests
    <3>3. IssueOf(r)' = IssueOf(r)
      BY <3>2, IssueOfStays DEF Rests
    <3>4. IssueOf(binding)' = IssueOf(r)'
      BY <3>2 DEF IssueOf
    <3>5. QED
      BY <3>1, <3>2, <3>3, <3>4 DEF Bound
  <2>3. QED
    BY <2>1, <2>2
<1>3. QED
  BY <1>1, <1>2 DEF Rests

\* If the journal is left alone, so are the obligation and its grounds.
LEMMA StageStays ==
  ASSUME view' = view PROVE Stage' = Stage /\ Grounds' = Grounds
  BY DEF Stage, Grounds, Listed

\* A new Issue is an effect of the obligation.
LEMMA MakesPromise ==
  ASSUME IInv, NEW p \in Proc, Makes(p), view' = view PROVE Promise!Affect
<1>a. /\ Shapes /\ CallInv(p) /\ at[p] = "create" /\ NewIssue(p)
      /\ UNCHANGED <<comments, binding, snapshots>>
  BY DEF IInv, Makes
<1>1. Stage # "none" /\ Stage' = Stage /\ Grounds' = Grounds
  BY <1>a, CallsAreObliged, StageStays
<1>2. binding = None /\ Bound' = Bound
  BY <1>a DEF CallInv, Bound
<1>3. PICK e : e = [text |-> local[p], open |-> TRUE, ver |-> 0]
  OBVIOUS
<1>4. e \in Issue /\ issues' = Append(issues, e) /\ Len(issues) < MaxIssues
  BY <1>3, <1>a DEF Issue, NewIssue, Shapes, CallShapes, Text
<1>5. /\ Len(issues') = Len(issues) + 1 /\ Len(issues) \in Nat
      /\ Made = 1 .. Len(issues) /\ Made' = 1 .. Len(issues')
  BY <1>4, <1>a, AppendProperties, LenProperties DEF Shapes, RemoteShapes, Made
<1>6. Made' = Made \cup {Len(issues) + 1} /\ Len(issues) + 1 \in 1 .. MaxIssues
  BY <1>4, <1>5, ConstantsAssumption
<1>7. QED
  BY <1>1, <1>2, <1>6, <1>a DEF Promise!Affect, Promise!Obliged

\* Whatever a call saves names the Issue that is bound, or one that was made.
LEMMA BindsPromise ==
  ASSUME IInv, NEW p \in Proc, view' = view, UNCHANGED <<remote, snapshots>>,
         NEW r \in Known, binding' = r, at[p] # "idle",
         binding # None => <<r, binding>> \in Akin
  PROVE  Promise!Bind
<1>1. Stage # "none" /\ Stage' = Stage /\ Grounds' = Grounds /\ Shapes
  BY CallsAreObliged, StageStays DEF IInv
<1>2. Made' = Made /\ Made = 1 .. Len(issues)
  BY <1>1, LenProperties DEF remote, Made, Shapes, RemoteShapes
<1>3. PICK o : o = IssueOf(r)
  OBVIOUS
<1>4. o \in Made /\ o \in 1 .. MaxIssues
  BY <1>1, <1>2, <1>3, IssueOfKnown, LenProperties, ConstantsAssumption
  DEF Shapes, RemoteShapes
<1>5. Bound' = {o}
  BY <1>3, RevisionAssumption DEF Bound, Known, IssueOf, remote
<1>6. Bound \subseteq {o}
  BY <1>3 DEF Bound, Akin
<1>7. QED
  BY <1>1, <1>2, <1>4, <1>5, <1>6 DEF Promise!Bind, Promise!Obliged

\* A step of a call is a step of the promise, or none.
LEMMA CallsPromise ==
  ASSUME IInv, NEW p \in Proc, CallStep(p), UNCHANGED commandVars
  PROVE  [Promise!Next]_(Promise!vars)
<1>a. Shapes /\ CallInv(p) /\ StoreInv /\ view' = view
  BY DEF IInv, commandVars
<1>b. /\ at[p] # "idle"
      /\ Rests \/ Makes(p) \/ SaveProvisional(p) \/ Saves(p) \/ Keeps(p)
  BY CallKinds
<1>c. Stage # "none" /\ Stage' = Stage /\ Grounds' = Grounds
  BY <1>a, <1>b, CallsAreObliged, StageStays
<1>1. CASE Rests
  BY <1>1, <1>a, <1>c, RestsPromise DEF Promise!vars
<1>2. CASE Makes(p)
  BY <1>2, <1>a, MakesPromise DEF Promise!Next
<1>3. CASE SaveProvisional(p)
  <2>1. /\ UNCHANGED <<remote, snapshots>> /\ binding = None /\ got[p] \in Known
        /\ binding' \in {got[p], binding}
    BY <1>3, <1>a DEF SaveProvisional, CallInv, evidence
  <2>2. CASE binding' = got[p]
    BY <1>a, <1>b, <2>1, <2>2, BindsPromise DEF Promise!Next
  <2>3. CASE binding' = binding
    BY <1>a, <1>c, <2>1, <2>3 DEF Promise!vars, Made, Bound, remote
  <2>4. QED
    BY <2>1, <2>2, <2>3
<1>4. CASE Saves(p)
  <2>1. PICK r : r = result[p].rev
    OBVIOUS
  <2>2. r \in Known /\ (binding # None => <<r, binding>> \in Akin)
    BY <1>4, <1>a, <2>1 DEF Saves, CallInv
  <2>3. binding' = r /\ UNCHANGED <<remote, snapshots>>
    BY <1>4, <2>1 DEF Saves
  <2>4. QED
    BY <1>4, <1>a, <1>b, <2>2, <2>3, BindsPromise DEF Promise!Next
<1>5. CASE Keeps(p)
  <2>1. binding' = binding /\ snapshots \subseteq snapshots' /\ UNCHANGED remote
    BY <1>5 DEF Keeps
  <2>2. Made' = Made /\ Bound' = Bound
    BY <2>1 DEF Made, Bound, remote, IssueOf
  <2>3. QED
    BY <1>a, <1>c, <2>1, <2>2 DEF Promise!Next, Promise!Keep, Promise!Obliged
<1>6. QED
  BY <1>b, <1>1, <1>2, <1>3, <1>4, <1>5

-----------------------------------------------------------------------------
(* The promise of MirrorObligation: the journal *)

\* The session is closed before the journal owes a mirror, and the commands
\* that are about to owe one, or to go on with it, follow that order.
SagaInv ==
  /\ view.storage # None => view.closed # None
  /\ \A p \in Proc :
       /\ cmd[p] = "intent" => view.closed # None
       /\ cmd[p] \in {"unready", "shutdown"} => view.storage # None

\* A storage event leaves the diary that was closed as it is.
LEMMA StorageEvents ==
  ASSUME Shapes, NEW c, c # None,
         \/ Journal("storage.sync.requested", c)
         \/ Journal("storage.sync.pending", c)
         \/ Journal("storage.sync.conflict", c)
         \/ Journal("storage.prerequisite.missing", c)
         \/ Journal("storage.sync.succeeded", c)
         \/ Journal("storage.sync.resolved", c)
  PROVE  view'.closed = view.closed /\ view'.storage # None
<1>1. view \in Views
  BY DEF Shapes, CommandShapes
<1>2. view' \in {[view EXCEPT !.storage = c, !.settled = TRUE],
               [view EXCEPT !.storage = c, !.settled = FALSE]}
  BY DEF Journal, Observe
<1>3. QED
  BY <1>1, <1>2 DEF Views

\* So does a result.
LEMMA ResultEvents ==
  ASSUME Shapes, NEW r \in Results,
         JournalResult(r) \/ Journal("storage.sync.resolved", Carried(r))
  PROVE  view'.closed = view.closed /\ view'.storage # None
<1>1. PICK c : c = Carried(r)
  OBVIOUS
<1>2. c # None
  <2>1. c \in Obligations
    BY <1>1 DEF Carried, Results, Obligations
  <2>2. QED
    BY <2>1, RevisionAssumption DEF Obligations
<1>3. \/ Journal("storage.sync.pending", c)
      \/ Journal("storage.sync.conflict", c)
      \/ Journal("storage.prerequisite.missing", c)
      \/ Journal("storage.sync.succeeded", c)
      \/ Journal("storage.sync.resolved", c)
  BY <1>1 DEF JournalResult, StorageEventType
<1>4. QED
  BY <1>2, <1>3, StorageEvents

\* What a command does to the journal: nothing, the diary, or an event about
\* the storage of a session that is closed; and what it does next follows.
LEMMA SagaSteps ==
  ASSUME IInv, SagaInv, NEW p \in Proc, CommandStep(p) \/ Begin(p)
  PROVE  /\ SagaInv'
         /\ \/ view' = view
            \/ Publish(p)
            \/ view'.closed = view.closed /\ view.closed # None
<1> DEFINE Kind == \/ view' = view
                   \/ Publish(p)
                   \/ view'.closed = view.closed /\ view.closed # None
<1>a. /\ Shapes /\ cmd \in [Proc -> Commands] /\ result[p] \in Results /\ view \in Views
      /\ at[p] # "idle" => view.storage # None
  BY DEF IInv, CallInv, Shapes, CommandShapes, CallShapes
<1>b. view.storage # None => view.closed # None
  BY DEF SagaInv
<1>g. ASSUME NEW step, Then(p, step), view.closed # None => view'.closed # None,
             view.storage # None => view'.storage # None,
             view'.storage # None => view'.closed # None,
             step = "intent" => view'.closed # None,
             step \in {"unready", "shutdown"} => view'.storage # None
      PROVE  SagaInv'
  <2>1. cmd'[p] = step /\ \A q \in Proc : q # p => cmd'[q] = cmd[q]
    BY <1>a, <1>g DEF Then
  <2>2. QED
    BY <1>g, <2>1 DEF SagaInv
<1>h. ASSUME NEW step, Then(p, step), view' = view, step \notin {"intent", "unready", "shutdown"}
      PROVE  SagaInv' /\ Kind
  BY <1>b, <1>g, <1>h
<1>i. ASSUME NEW step, Then(p, step), view'.closed = view.closed, view.closed # None,
             view'.storage # None
      PROVE  SagaInv' /\ Kind
  BY <1>g, <1>i
<1>j. None # Obligation("pending") /\ None # Obligation("prerequisite")
  <2>1. Obligation("pending") \in Obligations /\ Obligation("prerequisite") \in Obligations
    BY DEF Obligation, Obligations, States
  <2>2. QED
    BY <2>1, RevisionAssumption DEF Obligations
<1>1. CASE FindDiary(p) \/ SaveDiary(p) \/ RenameDiary(p) \/ Crash(p)
  <2>1. view' = view /\ (Then(p, "save") \/ Then(p, "rename") \/ Then(p, "publish")
                         \/ Then(p, "idle"))
    BY <1>1 DEF FindDiary, SaveDiary, RenameDiary, Crash
  <2>2. QED
    BY <1>h, <2>1
<1>2. CASE Publish(p)
  <2>1. view' \in {view, [view EXCEPT !.closed = p]} /\ (view.closed = None => view' # view)
    BY <1>2, <1>a, ManagedAssumption DEF Publish, Journal, Observe, Views
  <2>2. view'.closed # None /\ view'.storage = view.storage
    BY <1>a, <2>1, ManagedAssumption DEF Views
  <2>3. QED
    BY <1>2, <1>b, <1>g, <2>2 DEF Publish
<1>3. CASE RequestStorage(p)
  <2>1. view.closed # None /\ (Then(p, "mirror") \/ Then(p, "unready"))
    BY <1>3 DEF RequestStorage, During, SagaInv
  <2>2. view'.closed = view.closed /\ view'.storage # None
    BY <1>3, <1>a, <1>j, StorageEvents DEF RequestStorage
  <2>3. QED
    BY <1>i, <2>1, <2>2
<1>4. CASE PrerequisiteMissing(p)
  <2>1. view.closed # None /\ Then(p, "idle")
    BY <1>4, <1>b DEF PrerequisiteMissing, During, SagaInv
  <2>2. view'.closed = view.closed /\ view'.storage # None
    BY <1>4, <1>a, <1>j, StorageEvents DEF PrerequisiteMissing
  <2>3. QED
    BY <1>i, <2>1, <2>2
<1>5. CASE CloseOutcome(p) \/ RetryOutcome(p) \/ ResolveOutcome(p)
  <2>1. at[p] = "done" /\ (Then(p, "idle") \/ Then(p, "shutdown"))
    BY <1>5 DEF CloseOutcome, RetryOutcome, ResolveOutcome, Done
  <2>2. view.storage # None /\ view.closed # None
    BY <1>a, <1>b, <2>1
  <2>3. CASE view' = view
    BY <1>i, <2>1, <2>2, <2>3
  <2>4. CASE JournalResult(result[p]) \/ Journal("storage.sync.resolved", Carried(result[p]))
    <3>1. view'.closed = view.closed /\ view'.storage # None
      BY <1>a, <2>4, ResultEvents
    <3>2. QED
      BY <1>i, <2>1, <2>2, <3>1
  <2>5. QED
    BY <1>5, <2>3, <2>4 DEF CloseOutcome, RetryOutcome, ResolveOutcome
<1>6. CASE Shutdown(p)
  <2>1. view.storage # None /\ view.closed # None /\ Then(p, "idle")
    BY <1>6, <1>b DEF Shutdown, During, SagaInv
  <2>2. CASE view' = view
    BY <1>i, <2>1, <2>2
  <2>3. CASE Journal("storage.sync.pending", Obligation("pending"))
    <3>1. view'.closed = view.closed /\ view'.storage # None
      BY <1>a, <1>j, <2>3, StorageEvents
    <3>2. QED
      BY <1>i, <2>1, <3>1
  <2>4. QED
    BY <1>6, <2>2, <2>3 DEF Shutdown
<1>7. CASE Retry(p) \/ \E choice \in Resolutions : Decide(p, choice)
  <2>1. view' = view /\ (Then(p, "retry") \/ Then(p, "resolve"))
    BY <1>7 DEF Retry, Decide
  <2>2. QED
    BY <1>h, <2>1
<1>8. QED
  BY <1>1, <1>2, <1>3, <1>4, <1>5, <1>6, <1>7 DEF CommandStep, Begin

\* What a command journals is a step of the promise: the diary, an obligation
\* of a session that is closed, or the outcome of a call, with what it rests on.
LEMMA JournalsPromise ==
  ASSUME IInv, SagaInv, NEW p \in Proc, CommandStep(p) \/ Begin(p),
         UNCHANGED <<Made, Bound, snapshots>>
  PROVE  [Promise!Next]_(Promise!vars)
<1>a. Shapes /\ CallInv(p) /\ view \in Views /\ result[p] \in Results
  BY DEF IInv, Shapes, CommandShapes, CallShapes
<1>b. Journals(p) /\ view' \in Views
  BY <1>a, CommandKinds DEF CommandShapes
<1>c. view' = view \/ Publish(p) \/ (view'.closed = view.closed /\ view.closed # None)
  BY SagaSteps
<1>1. CASE view' = view
  BY <1>1, StageStays DEF Promise!vars
<1>2. CASE Publish(p)
  <2>1. view' = view \/ (view.closed = None /\ view' = [view EXCEPT !.closed = p])
    BY <1>2 DEF Publish, Journal, Observe
  <2>2. CASE view.closed = None /\ view' = [view EXCEPT !.closed = p]
    <3>1. view'.closed # None /\ view'.storage = view.storage /\ view'.settled = view.settled
      BY <1>a, <2>2, ManagedAssumption DEF Views
    <3>2. Stage' = Stage /\ Grounds' = Grounds
      BY <3>1 DEF Stage, Grounds, Listed
    <3>3. QED
      BY <2>2, <3>1, <3>2 DEF Promise!Next, Promise!Record
  <2>3. QED
    BY <1>1, <2>1, <2>2
<1>3. ASSUME view'.closed = view.closed, view.closed # None PROVE [Promise!Next]_(Promise!vars)
  <2>1. CASE view'.storage = view.storage /\ view'.settled = view.settled
    <3>1. Stage' = Stage /\ Grounds' = Grounds
      BY <2>1 DEF Stage, Grounds, Listed
    <3>2. QED
      BY <1>3, <3>1 DEF Promise!vars
  <2>2. ASSUME view'.storage # None, ~view'.settled, view'.storage.state # "conflict"
        PROVE  Promise!Owe
    <3>1. Stage' = "due" /\ Grounds' = None
      BY <2>2 DEF Stage, Grounds, Listed
    <3>2. QED
      BY <1>3, <3>1 DEF Promise!Owe
  <2>3. CASE Intends
    BY <2>2, <2>3 DEF Intends, Promise!Next
  <2>4. CASE at[p] = "done" /\ Shows(result[p])
    <3>1. /\ view'.storage # None /\ view'.storage.state = result[p].state
          /\ view'.settled => result[p].state = "mirrored"
          /\ result[p].state = "conflict" => view'.storage.rev = result[p].rev
      BY <2>4 DEF Shows, Carried
    <3>2. Stage # "none" /\ (binding # None => Bound # {})
      BY <2>4, CallsAreObliged DEF Bound
    <3>3. CASE view'.settled
      <4>1. binding # None
        BY <1>a, <2>4, <3>1, <3>3 DEF CallInv
      <4>2. Stage' = "settled" /\ Grounds' = None
        BY <3>1, <3>3 DEF Stage, Grounds, Listed
      <4>3. QED
        BY <1>3, <3>2, <4>1, <4>2 DEF Promise!Next, Promise!Settle, Promise!Obliged
    <3>4. CASE ~view'.settled /\ result[p].state = "conflict"
      <4>1. binding # None /\ result[p].rev \in snapshots
        BY <1>a, <2>4, <3>4 DEF CallInv
      <4>2. Stage' = "disputed" /\ Grounds' = result[p].rev
        BY <3>1, <3>4 DEF Stage, Grounds, Listed
      <4>3. QED
        BY <1>3, <3>2, <4>1, <4>2 DEF Promise!Next, Promise!Dispute, Promise!Obliged
    <3>5. CASE ~view'.settled /\ result[p].state # "conflict"
      BY <2>2, <3>1, <3>5 DEF Promise!Next
    <3>6. QED
      BY <3>3, <3>4, <3>5
  <2>5. QED
    BY <1>b, <2>1, <2>3, <2>4 DEF Journals
<1>4. QED
  BY <1>c, <1>1, <1>2, <1>3

\* Every step of the system is a step of the promise, and keeps the order in
\* which sessions are closed and owed.
LEMMA StepPromises ==
  ASSUME IInv, SagaInv, [Next]_vars PROVE SagaInv' /\ [Promise!Next]_(Promise!vars)
<1>a. Shapes /\ StoreInv
  BY DEF IInv
<1>1. ASSUME UNCHANGED commandVars PROVE SagaInv'
  BY <1>1 DEF SagaInv, commandVars
<1>2. ASSUME UNCHANGED commandVars, UNCHANGED <<Made, Bound, snapshots>>
      PROVE  [Promise!Next]_(Promise!vars)
  BY <1>2, StageStays DEF commandVars, Promise!vars
<1>3. ASSUME UNCHANGED <<remote, binding, snapshots>> PROVE UNCHANGED <<Made, Bound, snapshots>>
  BY <1>3 DEF remote, Made, Bound, IssueOf
<1>4. ASSUME NEW p \in Proc, Continue(p) \/ (Begin(p) /\ UNCHANGED remote)
      PROVE  SagaInv' /\ [Promise!Next]_(Promise!vars)
  <2>1. CASE CallStep(p) /\ UNCHANGED commandVars
    BY <1>1, <2>1, CallsPromise
  <2>2. CASE (CommandStep(p) \/ Begin(p)) /\ UNCHANGED remote
    <3>1. Idles \/ Calls(p) \/ Returns(p) \/ Die(p)
      BY <1>a, <2>2, CommandKinds
    <3>2. UNCHANGED <<binding, snapshots>>
      BY <3>1 DEF Idles, Calls, Call, Returns, Die, store, evidence
    <3>3. UNCHANGED <<Made, Bound, snapshots>>
      BY <1>3, <2>2, <3>2
    <3>4. QED
      BY <2>2, <3>3, SagaSteps, JournalsPromise
  <2>3. QED
    BY <1>4, <2>1, <2>2 DEF Continue
<1>5. CASE Edit /\ UNCHANGED commandVars
  <2>1. Rests
    <3>1. UNCHANGED <<binding, snapshots>>
      BY <1>5 DEF Edit, store, evidence
    <3>2. QED
      BY <1>5, <1>a, <3>1, EditChanges DEF Rests
  <2>2. QED
    BY <1>1, <1>2, <1>5, <1>a, <2>1, RestsPromise
<1>6. CASE ClearLock /\ UNCHANGED <<remote, commandVars>>
  BY <1>1, <1>2, <1>3, <1>6 DEF ClearLock, evidence
<1>7. CASE UNCHANGED vars
  BY <1>1, <1>2, <1>3, <1>7 DEF vars, mirrorVars, managedVars, remote
<1>8. QED
  BY <1>4, <1>5, <1>6, <1>7 DEF Next

\* The storage side of a session over GitHub Issues keeps the promise of
\* MirrorObligation: intent before effect, binding before success, evidence
\* before conflict, and one identity (session.go:343,
\* storage/recovery.go:363-403, recovery.go:73-90).
THEOREM IssuesKeepThePromise == Spec => ImplementsObligation
<1>1. Init => SagaInv /\ Promise!Init
  <2> SUFFICES ASSUME Init PROVE SagaInv /\ Promise!Init
    OBVIOUS
  <2>1. /\ view.closed = None /\ view.storage = None /\ \A p \in Proc : cmd[p] = "idle"
        /\ binding = None /\ snapshots = {} /\ issues = <<>>
    BY DEF Init, MirrorInit, ManagedInit, CommandInit, EmptyView
  <2>2. SagaInv
    BY <2>1 DEF SagaInv
  <2>3. Stage = "none" /\ Bound = {} /\ Made = {}
    <3>1. Stage = "none"
      BY <2>1 DEF Stage, Listed
    <3>2. Made = {}
      BY <2>1 DEF Made
    <3>3. QED
      BY <2>1, <3>1, <3>2 DEF Bound
  <2>4. Grounds = None
    BY <2>3 DEF Grounds
  <2>5. QED
    BY <2>1, <2>2, <2>3, <2>4 DEF Promise!Init
<1>2. IInv /\ SagaInv /\ [Next]_vars => SagaInv' /\ [Promise!Next]_(Promise!vars)
  BY StepPromises
<1>3. QED
  BY <1>1, <1>2, Invariant, PTL DEF Spec, ImplementsObligation, Promise!Spec

\* The journal can be believed (InspectRecovery, core/recovery.go:94-101): what
\* it shows as settled is bound, what it shows as disputed has its evidence, and
\* nothing was done that it does not show.
THEOREM JournalIsHonest == Spec => []Promise!Honest
<1>1. Promise!Init => Promise!Honest
  BY DEF Promise!Init, Promise!Honest, Promise!Obliged
<1>2. Promise!Honest /\ [Promise!Next]_(Promise!vars) => Promise!Honest'
  <2> SUFFICES ASSUME Promise!Honest, [Promise!Next]_(Promise!vars) PROVE Promise!Honest'
    OBVIOUS
  <2> USE DEF Promise!Honest, Promise!Obliged
  <2>1. CASE Promise!Record \/ Promise!Owe \/ Promise!Settle
    BY <2>1 DEF Promise!Record, Promise!Owe, Promise!Settle
  <2>2. CASE Promise!Dispute
    BY <2>2 DEF Promise!Dispute
  <2>3. CASE Promise!Affect \/ Promise!Bind \/ Promise!Keep
    BY <2>3 DEF Promise!Affect, Promise!Bind, Promise!Keep
  <2>4. CASE UNCHANGED Promise!vars
    BY <2>4 DEF Promise!vars
  <2>5. QED
    BY <2>1, <2>2, <2>3, <2>4 DEF Promise!Next
<1>3. QED
  BY <1>1, <1>2, IssuesKeepThePromise, PTL DEF ImplementsObligation, Promise!Spec

-----------------------------------------------------------------------------
(* Duplicates *)

\* An Issue that no fault accounts for is bound, or it is the last one and its
\* maker is about to bind it.
Covered == binding # None \/ \E p \in Proc : at[p] = "provisional"
CostInv == Len(issues) <= faults \/ (Covered /\ Len(issues) <= faults + 1)

\* The step of a call moves only this call, and what is left to be bound is
\* bound next, unless a fault comes in between.
LEMMA CallMoves ==
  ASSUME IInv, NEW p \in Proc, CallStep(p)
  PROVE  /\ \A q \in Proc : q # p => at'[q] = at[q]
         /\ faults' \in {faults, faults + 1}
         /\ at[p] = "provisional" => SaveProvisional(p)
<1> DEFINE Moves == \A q \in Proc : q # p => at'[q] = at[q]
<1>a. at \in [Proc -> Steps]
  BY DEF IInv, Shapes, CallShapes
<1>1. ASSUME NEW s, Goto(p, s) PROVE Moves
  BY <1>a, <1>1 DEF Goto
<1>2. ASSUME NEW s, NEW r, End(p, s, r) \/ EndBare(p, s, r) PROVE Moves
  BY <1>1, <1>2 DEF End, EndBare, Finish
<1>3. ASSUME NEW r, Effective(p, r) PROVE Moves
  BY <1>1, <1>2, <1>3 DEF Effective, Resolve
<1>4. ASSUME NEW r, FinishExisting(p, r) PROVE Moves
  BY <1>1, <1>2, <1>4 DEF FinishExisting
<1>5. CASE Acquire(p) \/ ReadIssue(p) \/ ReadComment(p) \/ ReadPredecessor(p) \/ Scan(p)
  <2>1. Moves
    BY <1>1, <1>3, <1>4, <1>5
    DEF Acquire, TakeLock, ReadIssue, ReadComment, ReadPredecessor, Scan
  <2>2. at[p] # "provisional" /\ faults' = faults
    BY <1>5 DEF Acquire, TakeLock, ReadIssue, ReadComment, ReadPredecessor, Scan, bounds
  <2>3. QED
    BY <2>1, <2>2
<1>6. CASE CreateIssue(p) \/ CreateIssueLost(p) \/ SaveProvisional(p)
  <2>1. Moves
    BY <1>1, <1>2, <1>6 DEF CreateIssue, CreateIssueLost, SaveProvisional
  <2>2. faults' \in {faults, faults + 1}
    BY <1>6 DEF CreateIssue, CreateIssueLost, SaveProvisional, Fault, bounds
  <2>3. at[p] = "provisional" => SaveProvisional(p)
    BY <1>6 DEF CreateIssue, CreateIssueLost
  <2>4. QED
    BY <2>1, <2>2, <2>3
<1>7. CASE CloseIssue(p) \/ CloseIssueLost(p) \/ FindCorrection(p) \/ CreateCorrection(p)
           \/ CreateCorrectionLost(p)
  <2>1. Moves
    BY <1>1, <1>2, <1>7
    DEF CloseIssue, CloseIssueLost, FindCorrection, CreateCorrection, CreateCorrectionLost
  <2>2. at[p] # "provisional" /\ faults' \in {faults, faults + 1}
    BY <1>7
    DEF CloseIssue, CloseIssueLost, FindCorrection, CreateCorrection, CreateCorrectionLost,
        Fault, bounds
  <2>3. QED
    BY <2>1, <2>2
<1>8. CASE RequestFails(p) \/ Refused(p) \/ ManagedStep(p)
  <2>1. Moves
    BY <1>1, <1>2, <1>8
    DEF RequestFails, Refused, ManagedStep, Contended, AcquireFails, WriteSnapshot, SaveBinding,
        KeepFails, Release
  <2>2. at[p] # "provisional" /\ faults' \in {faults, faults + 1}
    BY <1>8
    DEF RequestFails, Refused, ManagedStep, Contended, AcquireFails, WriteSnapshot, SaveBinding,
        KeepFails, Release, Fault, bounds
  <2>3. QED
    BY <2>1, <2>2
<1>9. QED
  BY <1>5, <1>6, <1>7, <1>8 DEF CallStep

\* No Issue is made: the account is kept if a fault is added to it, or if what
\* was covered stays so.
LEMMA CostStays ==
  ASSUME Shapes, CostInv, Len(issues') = Len(issues), faults' \in {faults, faults + 1},
         faults' = faults /\ Covered => Covered'
  PROVE  CostInv'
<1>1. Len(issues) \in Nat /\ faults \in Nat
  BY LenProperties DEF Shapes, RemoteShapes, Counted
<1>2. QED
  BY <1>1 DEF CostInv

\* The steps of a call keep the account.
LEMMA CallsCost ==
  ASSUME IInv, CostInv, NEW p \in Proc, CallStep(p), UNCHANGED commandVars PROVE CostInv'
<1>a. /\ Shapes /\ LockInv /\ CallInv(p) /\ Len(issues) \in Nat /\ faults \in Nat
      /\ at \in [Proc -> Steps]
  BY LenProperties DEF IInv, Shapes, RemoteShapes, CallShapes, Counted
<1>b. /\ \A q \in Proc : q # p => at'[q] = at[q]
      /\ faults' \in {faults, faults + 1}
      /\ at[p] = "provisional" => SaveProvisional(p)
  BY CallMoves
<1>1. ASSUME at[p] = "create", NewIssue(p)
      PROVE  Len(issues') = Len(issues) + 1 /\ Len(issues) <= faults
  <2>1. binding = None /\ \A q \in Proc : at[q] # "provisional"
    BY <1>1, <1>a DEF CallInv, LockInv
  <2>2. PICK e : e = [text |-> local[p], open |-> TRUE, ver |-> 0]
    OBVIOUS
  <2>3. e \in Issue /\ issues' = Append(issues, e)
    BY <1>1, <1>a, <2>2 DEF Issue, NewIssue, Shapes, CallShapes, Text
  <2>4. QED
    BY <1>a, <2>1, <2>3, AppendProperties DEF CostInv, Covered, Shapes, RemoteShapes
<1>2. CASE CreateIssue(p)
  <2>1. at'[p] = "provisional"
    BY <1>2, <1>a DEF CreateIssue, Goto
  <2>2. Len(issues') <= faults' + 1
    BY <1>1, <1>2, <1>a DEF CreateIssue, bounds
  <2>3. QED
    BY <2>1, <2>2 DEF CostInv, Covered
<1>3. CASE CreateIssueLost(p)
  <2>1. Len(issues') <= faults'
    BY <1>1, <1>3, <1>a DEF CreateIssueLost, Fault
  <2>2. QED
    BY <2>1 DEF CostInv
<1>4. CASE SaveProvisional(p)
  <2>1. issues' = issues /\ got[p] # None
    BY <1>4, <1>a, RevisionAssumption DEF SaveProvisional, remote, CallInv, Known
  <2>2. binding' # None \/ faults' # faults
    BY <1>4, <1>a, <2>1 DEF SaveProvisional, Fault
  <2>3. QED
    BY <1>a, <1>b, <2>1, <2>2, CostStays DEF Covered
<1>5. CASE Saves(p)
  <2>1. binding' # None
    BY <1>5, <1>a DEF Saves, CallInv
  <2>2. QED
    BY <1>5, <1>a, <1>b, <2>1, CostStays DEF Saves, Covered, remote
<1>6. ASSUME Len(issues') = Len(issues), binding' = binding PROVE CostInv'
  <2>1. CASE SaveProvisional(p)
    BY <1>4, <2>1
  <2>2. CASE ~SaveProvisional(p)
    <3>1. Covered => Covered'
      BY <1>6, <1>b, <2>2 DEF Covered
    <3>2. QED
      BY <1>6, <1>a, <1>b, <3>1, CostStays
  <2>3. QED
    BY <2>1, <2>2
<1>7. CASE CreateIssue(p) \/ CreateIssueLost(p)
  BY <1>2, <1>3, <1>7
<1>8. QED
  <2>1. Rests \/ Makes(p) \/ SaveProvisional(p) \/ Saves(p) \/ Keeps(p)
    BY CallKinds
  <2>2. CASE Rests
    BY <1>6, <2>2 DEF Rests
  <2>3. CASE Makes(p)
    BY <1>7, <2>3 DEF Makes
  <2>4. CASE Keeps(p)
    BY <1>6, <2>4 DEF Keeps, remote
  <2>5. QED
    BY <1>4, <1>5, <2>1, <2>2, <2>3, <2>4

\* Every step keeps the account.
LEMMA StepCosts == ASSUME IInv, CostInv, [Next]_vars PROVE CostInv'
<1>a. Shapes /\ faults \in Nat
  BY DEF IInv, Shapes, Counted
<1>1. ASSUME Len(issues') = Len(issues), UNCHANGED <<binding, at>>, faults' \in {faults, faults + 1}
      PROVE  CostInv'
  BY <1>1, <1>a, CostStays DEF Covered
<1>2. ASSUME NEW p \in Proc, CommandStep(p) \/ Begin(p), UNCHANGED remote PROVE CostInv'
  <2>1. Idles \/ Calls(p) \/ Returns(p) \/ Die(p)
    BY <1>2, <1>a, CommandKinds
  <2>2. CASE Idles
    BY <1>1, <1>2, <2>2 DEF Idles, Counts, store, evidence, remote
  <2>3. CASE Calls(p) \/ Returns(p)
    <3>1. at[p] # "provisional" /\ UNCHANGED <<binding, faults>>
      BY <2>3 DEF Calls, Call, Returns, store, evidence, bounds
    <3>2. \A q \in Proc : q # p => at'[q] = at[q]
      BY <2>3 DEF Calls, Call, Goto, Returns, Return, IInv, Shapes, CallShapes
    <3>3. Covered => Covered'
      BY <3>1, <3>2 DEF Covered
    <3>4. QED
      BY <1>2, <1>a, <3>1, <3>3, CostStays DEF remote
  <2>4. CASE Die(p)
    BY <1>2, <1>a, <2>4, CostStays DEF Die, Fault, remote
  <2>5. QED
    BY <2>1, <2>2, <2>3, <2>4
<1>3. CASE Edit /\ UNCHANGED commandVars
  <2>1. Len(issues') = Len(issues)
    BY <1>3, <1>a, EditChanges
  <2>2. QED
    BY <1>1, <1>3, <2>1, <1>a DEF Edit, store, evidence
<1>4. CASE ClearLock /\ UNCHANGED <<remote, commandVars>>
  BY <1>1, <1>4, <1>a DEF ClearLock, remote, bounds
<1>5. CASE UNCHANGED vars
  BY <1>1, <1>5, <1>a DEF vars, mirrorVars, managedVars
<1>6. ASSUME NEW p \in Proc, Continue(p) \/ (Begin(p) /\ UNCHANGED remote) PROVE CostInv'
  BY <1>2, <1>6, CallsCost DEF Continue
<1>7. QED
  BY <1>3, <1>4, <1>5, <1>6 DEF Next

\* Each fault adds at most one Issue to the one that the diary has (the lock and
\* the provisional binding, issues_semantics.go:70-83, storage/recovery.go:363-378).
THEOREM DuplicatesAreCounted == Spec => []DuplicatesCostFaults
<1>1. Init => CostInv
  BY DEF Init, MirrorInit, ManagedInit, CostInv
<1>2. IInv /\ CostInv /\ [Next]_vars => CostInv'
  BY StepCosts
<1>3. IInv /\ CostInv => DuplicatesCostFaults
  <2> SUFFICES ASSUME IInv, CostInv PROVE DuplicatesCostFaults
    OBVIOUS
  <2>1. Len(issues) \in Nat /\ faults \in Nat
    BY LenProperties DEF IInv, Shapes, RemoteShapes, Counted
  <2>2. QED
    BY <2>1 DEF CostInv, DuplicatesCostFaults
<1>4. QED
  BY <1>1, <1>2, <1>3, Invariant, PTL DEF Spec

\* So duplicates come from faults alone: no interleaving of closes, retries,
\* resolutions and edits makes a second Issue (issues_semantics.go:70-83).
THEOREM FaultsAloneDuplicate == MaxFaults = 0 => (Spec => []OneIssue)
<1>1. ASSUME MaxFaults = 0 PROVE Spec => []OneIssue
  <2>1. IInv /\ DuplicatesCostFaults => OneIssue
    <3> SUFFICES ASSUME IInv, DuplicatesCostFaults PROVE OneIssue
      OBVIOUS
    <3>1. Len(issues) \in Nat /\ faults = 0
      BY <1>1, LenProperties DEF IInv, Shapes, RemoteShapes, Counted
    <3>2. QED
      BY <3>1 DEF DuplicatesCostFaults, OneIssue
  <2>2. QED
    BY <2>1, Invariant, DuplicatesAreCounted, PTL
<1>2. QED
  BY <1>1

-----------------------------------------------------------------------------
(* The lock is given back *)

\* A process has the lock only in the middle of a call: LockInv the other way
\* round.
HolderInv == \A p \in Proc : lock = p => at[p] \notin Free

\* A call that has the lock keeps it until it releases it.
LEMMA CallHolds == ASSUME IInv, HolderInv, NEW p \in Proc, CallStep(p) PROVE HolderInv'
<1>a. at \in [Proc -> Steps]
  BY DEF IInv, Shapes, CallShapes
<1>b. \A q \in Proc : q # p => at'[q] = at[q]
  BY CallMoves
<1>c. ASSUME lock' = lock, lock = p => at'[p] \notin Free PROVE HolderInv'
  BY <1>b, <1>c DEF HolderInv
<1>1. ASSUME NEW s \in Steps \ Free, Goto(p, s) PROVE at'[p] \notin Free
  BY <1>a, <1>1 DEF Goto
<1>2. ASSUME NEW s, NEW r, End(p, s, r) \/ EndBare(p, s, r) PROVE at'[p] \notin Free
  <2>1. at'[p] \in {"bind", "snapshot", "release"}
    BY <1>a, <1>2, EndEnds, EndBareEnds DEF Ended
  <2>2. QED
    BY <2>1 DEF Free
<1>3. ASSUME NEW r, Effective(p, r) PROVE at'[p] \notin Free
  <2>1. CASE Goto(p, "find_correction")
    BY <1>1, <2>1 DEF Steps, Free
  <2>2. CASE \E s \in States : End(p, s, r)
    BY <1>2, <2>2
  <2>3. QED
    BY <1>3, <2>1, <2>2 DEF Effective, Resolve, States
<1>4. ASSUME NEW r, FinishExisting(p, r) PROVE at'[p] \notin Free
  <2>1. CASE Goto(p, "close")
    BY <1>1, <2>1 DEF Steps, Free
  <2>2. CASE \E s \in States : End(p, s, r)
    BY <1>2, <2>2
  <2>3. QED
    BY <1>4, <2>1, <2>2 DEF FinishExisting, States
<1>5. CASE Acquire(p)
  <2>1. Goto(p, Route(p)) /\ Route(p) \in Steps \ Free /\ lock' = p
    BY <1>5 DEF Acquire, TakeLock, Route, Steps, Free
  <2>2. at'[p] \notin Free
    BY <1>1, <2>1
  <2>3. QED
    BY <2>1, <2>2 DEF HolderInv
<1>6. CASE Release(p)
  BY <1>6, ManagedAssumption DEF Release, HolderInv
<1>7. CASE Contended(p) \/ AcquireFails(p)
  <2>1. lock' = lock /\ at[p] = "acquire"
    BY <1>7 DEF Contended, AcquireFails, store, evidence
  <2>2. QED
    BY <1>c, <2>1 DEF HolderInv, Free
<1>8. CASE ReadIssue(p) \/ ReadPredecessor(p)
  <2>1. lock' = lock /\ \E r : Effective(p, r) \/ FinishExisting(p, r)
    BY <1>8 DEF ReadIssue, ReadPredecessor, store, evidence
  <2>2. QED
    BY <1>c, <1>3, <1>4, <2>1
<1>9. CASE ReadComment(p) \/ Scan(p)
  <2>1. /\ lock' = lock
        /\ \/ \E r : Effective(p, r) \/ FinishExisting(p, r)
           \/ Goto(p, "read_predecessor") \/ Goto(p, "create")
    BY <1>9 DEF ReadComment, Scan, store, evidence
  <2>2. QED
    BY <1>c, <1>1, <1>3, <1>4, <2>1 DEF Steps, Free
<1>10. CASE CreateIssue(p) \/ CreateIssueLost(p) \/ SaveProvisional(p) \/ CloseIssue(p)
            \/ CloseIssueLost(p)
  <2>1. /\ lock' = lock
        /\ \/ \E s, r : End(p, s, r)
           \/ Goto(p, "provisional") \/ Goto(p, "close") \/ Goto(p, "close_unbound")
           \/ at' = at /\ at[p] = "create"
    BY <1>10 DEF CreateIssue, CreateIssueLost, SaveProvisional, CloseIssue, CloseIssueLost, store, evidence
  <2>2. QED
    BY <1>c, <1>1, <1>2, <2>1 DEF Steps, Free
<1>11. CASE FindCorrection(p) \/ CreateCorrection(p) \/ CreateCorrectionLost(p) \/ RequestFails(p)
            \/ Refused(p)
  <2>1. /\ lock' = lock
        /\ \/ \E s, r : End(p, s, r) \/ EndBare(p, s, r)
           \/ Goto(p, "correct")
           \/ at' = at /\ at[p] = "correct"
    BY <1>11
    DEF FindCorrection, CreateCorrection, CreateCorrectionLost, RequestFails, Refused, store, evidence
  <2>2. QED
    BY <1>c, <1>1, <1>2, <2>1 DEF Steps, Free
<1>12. CASE WriteSnapshot(p) \/ SaveBinding(p) \/ KeepFails(p)
  <2>1. /\ lock' = lock
        /\ \/ \E s, r : End(p, s, r)
           \/ Goto(p, "release") \/ Goto(p, "bind")
    BY <1>12 DEF WriteSnapshot, SaveBinding, KeepFails, store, evidence
  <2>2. QED
    BY <1>c, <1>1, <1>2, <2>1 DEF Steps, Free
<1>13. QED
  BY <1>5, <1>6, <1>7, <1>8, <1>9, <1>10, <1>11, <1>12 DEF CallStep, ManagedStep

\* Every step keeps it: a process that dies in a call leaves an orphan.
LEMMA StepHolds == ASSUME IInv, HolderInv, [Next]_vars PROVE HolderInv'
<1>a. Shapes /\ at \in [Proc -> Steps]
  BY DEF IInv, Shapes, CallShapes
<1>1. ASSUME UNCHANGED <<lock, at>> PROVE HolderInv'
  BY <1>1 DEF HolderInv
<1>2. ASSUME NEW p \in Proc, CommandStep(p) \/ Begin(p) PROVE HolderInv'
  <2>1. Idles \/ Calls(p) \/ Returns(p) \/ Die(p)
    BY <1>2, <1>a, CommandKinds
  <2>2. CASE Idles
    BY <1>1, <2>2 DEF Idles, store, evidence
  <2>3. CASE Calls(p) \/ Returns(p)
    <3>1. at[p] \in Free /\ lock' = lock
      BY <2>3 DEF Calls, Call, Returns, store, evidence, Free
    <3>2. \A q \in Proc : q # p => at'[q] = at[q]
      BY <2>3, <1>a DEF Calls, Call, Goto, Returns, Return
    <3>3. QED
      BY <3>1, <3>2 DEF HolderInv
  <2>4. CASE Die(p)
    <3>1. lock' # p /\ (lock' \in Proc => lock' = lock)
      BY <2>4, ManagedAssumption DEF Die
    <3>2. \A q \in Proc : q # p => at'[q] = at[q]
      BY <2>4, <1>a DEF Die, Return
    <3>3. QED
      BY <3>1, <3>2 DEF HolderInv
  <2>5. QED
    BY <2>1, <2>2, <2>3, <2>4
<1>3. CASE Edit \/ UNCHANGED vars
  BY <1>1, <1>3 DEF Edit, store, evidence, vars, mirrorVars, managedVars
<1>4. CASE ClearLock
  BY <1>4, ManagedAssumption DEF ClearLock, HolderInv
<1>5. ASSUME NEW p \in Proc, Continue(p) \/ (Begin(p) /\ UNCHANGED remote) PROVE HolderInv'
  BY <1>2, <1>5, CallHolds DEF Continue
<1>6. QED
  BY <1>3, <1>4, <1>5 DEF Next

\* No way out of a call leaves the key locked by a process that lives: who has
\* the lock is in the middle of its call, and nobody else is (the deferred
\* Release, storage/recovery.go:382).
THEOREM KeysAreGivenBack ==
  Spec => [](\A p \in Proc : lock = p <=> at[p] \notin {"idle", "acquire", "done"})
<1>1. Init => HolderInv
  BY ManagedAssumption DEF Init, MirrorInit, ManagedInit, HolderInv
<1>2. IInv /\ HolderInv /\ [Next]_vars => HolderInv'
  BY StepHolds
<1>3. IInv /\ HolderInv => \A p \in Proc : lock = p <=> at[p] \notin {"idle", "acquire", "done"}
  BY DEF IInv, LockInv, HolderInv, Free
<1>4. QED
  BY <1>1, <1>2, <1>3, Invariant, PTL DEF Spec
=============================================================================
