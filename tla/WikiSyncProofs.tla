---------------------------- MODULE WikiSyncProofs ----------------------------
(***************************************************************************)
(* The safety properties of WikiSync for any processes, texts and bounds.   *)
(*                                                                         *)
(* The branch only grows, so a revision that was its head once stays one    *)
(* (Heads), and what was said truthfully of a head stays true (Faithful).   *)
(* Whatever a call holds in memory is of these two kinds (CallInv); what it *)
(* decides on the way from the clone to the binding holds because it has    *)
(* the Mirror Lock all the while (LockInv).                                 *)
(***************************************************************************)

EXTENDS WikiSync, SequenceTheorems, TLAPS

Steps == {"idle", "acquire", "clone", "push", "refresh", "snapshot", "bind", "release", "done"}
Operations == {"mirror", "recover"} \cup Resolutions
Results == [state : States, rev : Revision \cup {None}, busy : BOOLEAN, unverified : BOOLEAN,
            bare : {FALSE}]
Obligations == [state : States, rev : Revision \cup {None}]
Views == [closed : Proc \cup {None}, storage : Obligations \cup {None}, settled : BOOLEAN]
Commands == {"idle", "save", "rename", "publish", "intent", "mirror", "unready", "retry",
             "shutdown", "resolve"}

RemoteShapes ==
  /\ commits \in Seq([text : Pages, by : Proc \cup {None}])
  /\ binding \in Revision \cup {None}
  /\ snapshots \subseteq Revision /\ blanks = {}
  /\ lock \in Proc \cup {"orphan", "empty", None}
CallShapes ==
  /\ at \in [Proc -> Steps] /\ op \in [Proc -> Operations] /\ local \in [Proc -> Proc]
  /\ observed \in [Proc -> Revision \cup {None}]
  /\ got \in [Proc -> Revision \cup {None}]
  /\ result \in [Proc -> Results]
CommandShapes ==
  /\ diary \in Proc \cup {None} /\ view \in Views /\ cmd \in [Proc -> Commands]
Counted == edits \in 0 .. MaxEdits /\ faults \in 0 .. MaxFaults

\* Only the holder of the lock is between acquiring and releasing it.
LockInv == \A p \in Proc : at[p] \notin {"idle", "acquire", "done"} => lock = p

\* The heads that the branch has had, with their pages, and what may be said
\* of them: a page that was there, or anything where there was none.
Heads == {r \in Revision : r.head \in 1 .. Tip /\ r.text = commits[r.head].text}
Faithful == {r \in Revision :
  r.head \in 1 .. Tip /\ (commits[r.head].text # None => r.text = commits[r.head].text)}

CallInv(p) ==
  /\ at[p] \in {"idle", "acquire"} => result[p] = NoResult
  /\ op[p] \in Resolutions => observed[p] \in snapshots
  /\ got[p] # None => got[p] \in Heads
  /\ at[p] \in {"push", "refresh"} =>
       got[p] # None /\ (got[p].text # None => op[p] \in Resolutions /\ got[p] \in snapshots)
  /\ result[p].rev # None => result[p].rev \in Faithful
  /\ at[p] \in {"snapshot", "bind"} => result[p].rev # None
  /\ at[p] = "bind" => ~result[p].unverified
  /\ at[p] \in {"snapshot", "bind"} /\ op[p] \notin Resolutions /\ ~result[p].unverified
       => Marked(result[p].rev.text)
  /\ result[p].state = "conflict" => result[p].rev # None
  /\ result[p].state = "conflict" /\ result[p].unverified => ~Marked(result[p].rev.text)
  /\ at[p] \in {"bind", "release", "done"} /\ result[p].state = "conflict"
       => result[p].rev \in snapshots
  /\ at[p] \in {"release", "done"} /\ result[p].state = "conflict"
       => binding # None \/ ~Marked(result[p].rev.text)
  /\ at[p] \in {"push", "refresh"} /\ binding # None => binding.head <= got[p].head
  /\ at[p] \in {"snapshot", "bind"} /\ binding # None => binding.head <= result[p].rev.head

StoreInv ==
  /\ snapshots \subseteq Faithful
  /\ binding # None => binding \in Faithful
  /\ ReplacesOnlyKept
  /\ ConflictHasEvidence

Shapes == RemoteShapes /\ CallShapes /\ CommandShapes /\ Counted
IInv == Shapes /\ LockInv /\ (\A p \in Proc : CallInv(p)) /\ StoreInv

-----------------------------------------------------------------------------
(* What the parts of a step do *)

\* The end of a provider's operation.
Ended(p, s, r, u) ==
  /\ result' = [result EXCEPT ![p] = [state |-> s, rev |-> r, busy |-> FALSE, unverified |-> u,
                                       bare |-> FALSE]]
  /\ at' = [at EXCEPT ![p] = IF s = "mirrored" THEN "bind"
                             ELSE IF s = "conflict" THEN "snapshot" ELSE "release"]

\* End, as the assignments it stands for.
LEMMA EndEnds == ASSUME NEW p, NEW s, NEW r, End(p, s, r) PROVE Ended(p, s, r, FALSE)
<1>1. PICK e : e = [NoResult EXCEPT !.state = s, !.rev = r]
  OBVIOUS
<1>2. e = [state |-> s, rev |-> r, busy |-> FALSE, unverified |-> FALSE, bare |-> FALSE] /\ e.state = s
  BY <1>1 DEF NoResult
<1>3. result' = [result EXCEPT ![p] = e]
  BY <1>1 DEF End, Finish
<1>4. at' = [at EXCEPT ![p] = CASE e.state = "mirrored" -> "bind"
                                [] e.state = "conflict" -> "snapshot" [] OTHER -> "release"]
  BY <1>1 DEF End, Finish, Goto
<1>5. (CASE e.state = "mirrored" -> "bind" [] e.state = "conflict" -> "snapshot" [] OTHER -> "release")
        = IF s = "mirrored" THEN "bind" ELSE IF s = "conflict" THEN "snapshot" ELSE "release"
  BY <1>2
<1>6. QED
  BY <1>2, <1>3, <1>4, <1>5 DEF Ended

\* ... and EndUnverified.
LEMMA EndUnverifiedEnds == ASSUME NEW p, NEW s, NEW r, EndUnverified(p, s, r) PROVE Ended(p, s, r, TRUE)
<1>1. PICK e : e = [NoResult EXCEPT !.state = s, !.rev = r, !.unverified = TRUE]
  OBVIOUS
<1>2. e = [state |-> s, rev |-> r, busy |-> FALSE, unverified |-> TRUE, bare |-> FALSE] /\ e.state = s
  BY <1>1 DEF NoResult
<1>3. result' = [result EXCEPT ![p] = e]
  BY <1>1 DEF EndUnverified, Finish
<1>4. at' = [at EXCEPT ![p] = CASE e.state = "mirrored" -> "bind"
                                [] e.state = "conflict" -> "snapshot" [] OTHER -> "release"]
  BY <1>1 DEF EndUnverified, Finish, Goto
<1>5. (CASE e.state = "mirrored" -> "bind" [] e.state = "conflict" -> "snapshot" [] OTHER -> "release")
        = IF s = "mirrored" THEN "bind" ELSE IF s = "conflict" THEN "snapshot" ELSE "release"
  BY <1>2
<1>6. QED
  BY <1>2, <1>3, <1>4, <1>5 DEF Ended

\* The end of an operation keeps the types and leaves the other processes alone.
LEMMA EndedShapes ==
  ASSUME Shapes, NEW p \in Proc, NEW s \in States, NEW r \in Revision \cup {None},
         NEW u \in BOOLEAN, Ended(p, s, r, u)
  PROVE  /\ at' \in [Proc -> Steps] /\ result' \in [Proc -> Results]
         /\ result'[p] = [state |-> s, rev |-> r, busy |-> FALSE, unverified |-> u,
                          bare |-> FALSE]
         /\ at'[p] = IF s = "mirrored" THEN "bind"
                     ELSE IF s = "conflict" THEN "snapshot" ELSE "release"
         /\ \A q \in Proc : q # p => result'[q] = result[q] /\ at'[q] = at[q]
<1>1. [state |-> s, rev |-> r, busy |-> FALSE, unverified |-> u, bare |-> FALSE] \in Results
  BY DEF Results
<1>2. QED
  BY <1>1 DEF Ended, Shapes, CallShapes, Steps

\* What the steps of a command do to the mirror: nothing but counting a fault,
\* the begin or the end of a call, or the end of the process.
Counts == edits' = edits /\ faults' \in {faults, faults + 1} /\ (faults' # faults => faults < MaxFaults)
Idles == UNCHANGED <<store, at, request, got, result>> /\ Counts
Calls(p) ==
  /\ view'.storage # None
  /\ \E what \in Operations, t \in Proc, r \in snapshots \cup {None} :
       Call(p, what, t, r) /\ (what \in Resolutions => r \in snapshots)
Returns(p) == at[p] = "done" /\ Return(p) /\ UNCHANGED <<store, bounds>>

\* ... and to what recovery sees: nothing, an intent, or the result.
Intends == /\ view'.storage \in Obligations /\ view'.storage.state # "conflict"
           /\ view'.storage # None /\ ~view'.settled
Shows(r) == /\ view'.storage = Carried(r) /\ view'.storage # None
            /\ view'.settled => r.state = "mirrored"
Journals(p) ==
  \/ view'.storage = view.storage /\ view'.settled = view.settled
  \/ Intends
  \/ at[p] = "done" /\ Shows(result[p])

\* Journaling a result shows recovery that result.
LEMMA ViewsOfResults ==
  ASSUME Shapes, NEW r \in Results,
         \/ JournalResult(r)
         \/ r.state = "mirrored" /\ Journal("storage.sync.resolved", Carried(r))
  PROVE  view' \in Views /\ Shows(r)
<1>1. PICK c : c = Carried(r)
  OBVIOUS
<1>2. c \in Obligations /\ c # None /\ r.state \in States
  BY <1>1, RevisionAssumption DEF Carried, Results, Obligations
<1>3. view \in Views
  BY DEF Shapes, CommandShapes
<1>4. \/ view' = [view EXCEPT !.storage = c, !.settled = TRUE] /\ r.state = "mirrored"
      \/ view' = [view EXCEPT !.storage = c, !.settled = FALSE]
  BY <1>1 DEF JournalResult, Journal, Observe, StorageEventType
<1>5. view' \in Views /\ view'.storage = c /\ (view'.settled => r.state = "mirrored")
  BY <1>2, <1>3, <1>4 DEF Views
<1>6. QED
  BY <1>1, <1>2, <1>5 DEF Shows

\* Journaling an intent or a missing prerequisite shows recovery no conflict.
LEMMA ViewsOfIntents ==
  ASSUME Shapes, NEW s \in {"pending", "prerequisite"},
         NEW type \in {"storage.sync.requested", "storage.sync.pending", "storage.prerequisite.missing"},
         Journal(type, Obligation(s))
  PROVE  view' \in Views /\ Intends
<1>1. PICK o : o = Obligation(s)
  OBVIOUS
<1>2. o \in Obligations /\ o.state # "conflict" /\ o # None
  BY <1>1, RevisionAssumption DEF Obligation, Obligations, States
<1>3. view' = [view EXCEPT !.storage = o, !.settled = FALSE] /\ view \in Views
  BY <1>1 DEF Journal, Observe, Shapes, CommandShapes
<1>4. QED
  BY <1>2, <1>3 DEF Views, Intends

\* The commands, seen from the mirror.
LEMMA CommandKinds ==
  ASSUME Shapes, NEW p \in Proc, CommandStep(p) \/ Begin(p)
  PROVE  /\ Idles \/ Calls(p) \/ Returns(p) \/ Die(p)
         /\ CommandShapes' /\ Journals(p)
<1>a. /\ view \in Views /\ diary \in Proc \cup {None} /\ cmd \in [Proc -> Commands]
      /\ result[p] \in Results
  BY DEF Shapes, CommandShapes, CallShapes
<1> DEFINE Same == (Idles \/ Calls(p) \/ Returns(p) \/ Die(p)) /\ CommandShapes' /\ Journals(p)
<1> USE DEF Then, During, Done
<1>1. ASSUME FindDiary(p) PROVE Same
  <2>1. Idles /\ view' = view
    BY <1>1 DEF FindDiary, Idles, Counts, managedVars, store, evidence, request, bounds
  <2>2. diary' \in Proc \cup {None} /\ cmd' \in [Proc -> Commands]
    BY <1>1, <1>a DEF FindDiary, Commands
  <2>3. QED
    BY <1>a, <2>1, <2>2 DEF CommandShapes, Journals
<1>2. ASSUME SaveDiary(p) PROVE Same
  <2>1. Idles /\ view' = view
    BY <1>2 DEF SaveDiary, Idles, Counts, managedVars, store, evidence, request, bounds
  <2>2. diary' \in Proc \cup {None} /\ cmd' \in [Proc -> Commands]
    BY <1>2, <1>a DEF SaveDiary, Commands
  <2>3. QED
    BY <1>a, <2>1, <2>2 DEF CommandShapes, Journals
<1>3. ASSUME RenameDiary(p) PROVE Same
  <2>1. Idles /\ view' = view
    BY <1>3 DEF RenameDiary, Idles, Counts, managedVars, store, evidence, request, bounds
  <2>2. diary' \in Proc \cup {None} /\ cmd' \in [Proc -> Commands]
    BY <1>3, <1>a DEF RenameDiary, Commands
  <2>3. QED
    BY <1>a, <2>1, <2>2 DEF CommandShapes, Journals
<1>4. ASSUME Publish(p) PROVE Same
  <2>1. Idles /\ diary' = diary
    BY <1>4 DEF Publish, Idles, Counts, managedVars, store, evidence, request, bounds
  <2>2. cmd' \in [Proc -> Commands]
    BY <1>4, <1>a DEF Publish, Commands
  <2>3. view' \in {view, [view EXCEPT !.closed = p]}
    BY <1>4 DEF Publish, Journal, Observe
  <2>4. view' \in Views /\ view'.storage = view.storage /\ view'.settled = view.settled
    BY <1>a, <2>3 DEF Views
  <2>5. QED
    BY <1>a, <2>1, <2>2, <2>4 DEF CommandShapes, Journals
<1>5. ASSUME RequestStorage(p) PROVE Same
  <2>1. view' \in Views /\ Intends
    BY <1>5, ViewsOfIntents DEF RequestStorage
  <2>2. Calls(p) \/ Idles
    <3>1. CASE Call(p, "mirror", p, None)
      BY <2>1, <3>1 DEF Calls, Operations, Resolutions, Intends
    <3>2. CASE UNCHANGED managedVars
      BY <3>2 DEF Idles, Counts, managedVars, store, evidence, request
    <3>3. QED
      BY <1>5, <3>1, <3>2 DEF RequestStorage
  <2>3. diary' = diary /\ cmd' \in [Proc -> Commands]
    BY <1>5, <1>a DEF RequestStorage, Commands
  <2>4. QED
    BY <1>a, <2>1, <2>2, <2>3 DEF CommandShapes, Journals
<1>6. ASSUME PrerequisiteMissing(p) PROVE Same
  <2>1. view' \in Views /\ Intends
    BY <1>6, ViewsOfIntents DEF PrerequisiteMissing
  <2>2. Idles
    BY <1>6 DEF PrerequisiteMissing, Idles, Counts, managedVars, store, evidence, request
  <2>3. diary' = diary /\ cmd' \in [Proc -> Commands]
    BY <1>6, <1>a DEF PrerequisiteMissing, Commands
  <2>4. QED
    BY <1>a, <2>1, <2>2, <2>3 DEF CommandShapes, Journals
<1>7. ASSUME CloseOutcome(p) PROVE Same
  <2>1. Returns(p)
    BY <1>7 DEF CloseOutcome, Returns
  <2>2. view' \in Views /\ Journals(p)
    <3>1. CASE view' = view
      BY <1>a, <3>1 DEF Journals
    <3>2. CASE \/ JournalResult(result[p])
               \/ /\ result[p].state = "mirrored"
                  /\ Journal("storage.sync.resolved", Carried(result[p]))
      BY <1>7, <1>a, <3>2, ViewsOfResults DEF Journals, CloseOutcome
    <3>3. QED
      BY <1>7, <3>1, <3>2 DEF CloseOutcome
  <2>3. diary' = diary /\ cmd' \in [Proc -> Commands]
    BY <1>7, <1>a DEF CloseOutcome, Commands
  <2>4. QED
    BY <1>a, <2>1, <2>2, <2>3 DEF CommandShapes
<1>8. ASSUME RetryOutcome(p) PROVE Same
  <2>1. Returns(p)
    BY <1>8 DEF RetryOutcome, Returns
  <2>2. view' \in Views /\ Journals(p)
    <3>1. CASE view' = view
      BY <1>a, <3>1 DEF Journals
    <3>2. CASE \/ JournalResult(result[p])
               \/ /\ result[p].state = "mirrored"
                  /\ Journal("storage.sync.resolved", Carried(result[p]))
      BY <1>8, <1>a, <3>2, ViewsOfResults DEF Journals, RetryOutcome
    <3>3. QED
      BY <1>8, <3>1, <3>2 DEF RetryOutcome
  <2>3. diary' = diary /\ cmd' \in [Proc -> Commands]
    BY <1>8, <1>a DEF RetryOutcome, Commands
  <2>4. QED
    BY <1>a, <2>1, <2>2, <2>3 DEF CommandShapes
<1>9. ASSUME ResolveOutcome(p) PROVE Same
  <2>1. Returns(p)
    BY <1>9 DEF ResolveOutcome, Returns
  <2>2. view' \in Views /\ Journals(p)
    <3>1. CASE view' = view
      BY <1>a, <3>1 DEF Journals
    <3>2. CASE \/ JournalResult(result[p])
               \/ /\ result[p].state = "mirrored"
                  /\ Journal("storage.sync.resolved", Carried(result[p]))
      BY <1>9, <1>a, <3>2, ViewsOfResults DEF Journals, ResolveOutcome
    <3>3. QED
      BY <1>9, <3>1, <3>2 DEF ResolveOutcome
  <2>3. diary' = diary /\ cmd' \in [Proc -> Commands]
    BY <1>9, <1>a DEF ResolveOutcome, Commands
  <2>4. QED
    BY <1>a, <2>1, <2>2, <2>3 DEF CommandShapes
<1>10. ASSUME Shutdown(p) PROVE Same
  <2>1. Idles
    BY <1>10 DEF Shutdown, Idles, Counts, Fault, bounds
  <2>2. view' \in Views /\ Journals(p)
    <3>1. CASE view' = view
      BY <1>a, <3>1 DEF Journals
    <3>2. CASE Journal("storage.sync.pending", Obligation("pending"))
      BY <3>2, ViewsOfIntents DEF Journals
    <3>3. QED
      BY <1>10, <3>1, <3>2 DEF Shutdown
  <2>3. diary' = diary /\ cmd' \in [Proc -> Commands]
    BY <1>10, <1>a DEF Shutdown, Commands
  <2>4. QED
    BY <1>a, <2>1, <2>2, <2>3 DEF CommandShapes
<1>11. ASSUME Retry(p) PROVE Same
  <2>1. Calls(p)
    <3>1. /\ Call(p, "recover", view.closed, None) /\ view.closed \in Proc
          /\ view.storage # None /\ view' = view
      BY <1>11, <1>a DEF Retry, Retryable, Listed, Views
    <3>2. QED
      BY <3>1 DEF Calls, Operations, Resolutions
  <2>2. UNCHANGED <<view, diary>> /\ cmd' \in [Proc -> Commands]
    BY <1>11, <1>a DEF Retry, Commands
  <2>3. QED
    BY <1>a, <2>1, <2>2 DEF CommandShapes, Journals
<1>12. ASSUME Crash(p) PROVE Same
  <2>1. UNCHANGED <<view, diary>> /\ cmd' \in [Proc -> Commands] /\ Die(p)
    BY <1>12, <1>a DEF Crash, Commands
  <2>2. QED
    BY <1>a, <2>1 DEF CommandShapes, Journals
<1>13. ASSUME NEW choice \in Resolutions, Decide(p, choice) PROVE Same
  <2>1. Calls(p)
    <3>1. /\ Call(p, choice, view.closed, view.storage.rev)
          /\ view.closed \in Proc /\ view.storage.rev \in snapshots
          /\ view.storage # None /\ view' = view
      BY <1>13, <1>a DEF Decide, Listed, Views
    <3>2. QED
      BY <3>1 DEF Calls, Operations
  <2>2. UNCHANGED <<view, diary>> /\ cmd' \in [Proc -> Commands]
    BY <1>13, <1>a DEF Decide, Commands
  <2>3. QED
    BY <1>a, <2>1, <2>2 DEF CommandShapes, Journals
<1> QED
  BY <1>1, <1>2, <1>3, <1>4, <1>5, <1>6, <1>7, <1>8, <1>9, <1>10, <1>11, <1>12, <1>13
  DEF CommandStep, Begin


-----------------------------------------------------------------------------
(* What stays *)

\* The branch with one more commit.
LEMMA BranchGrows ==
  ASSUME Shapes, NEW text \in Pages, NEW by \in Proc \cup {None}, PushTo(text, by)
  PROVE  /\ commits' \in Seq([text : Pages, by : Proc \cup {None}])
         /\ Tip \in Nat /\ Tip' = Tip + 1
         /\ \A n \in 1 .. Tip : commits'[n] = commits[n]
         /\ commits'[Tip + 1] = [text |-> text, by |-> by]
<1>1. commits \in Seq([text : Pages, by : Proc \cup {None}])
  BY DEF Shapes, RemoteShapes
<1>2. PICK c : c = [text |-> text, by |-> by]
  OBVIOUS
<1>3. c \in [text : Pages, by : Proc \cup {None}]
  BY <1>2
<1>4. commits' = Append(commits, c)
  BY <1>2 DEF PushTo
<1>5. QED
  BY <1>1, <1>2, <1>3, <1>4, AppendProperties, LenProperties DEF Tip

\* Heads stay heads, and what was true of them stays true.
LEMMA HeadsStay ==
  ASSUME Shapes, Tip' >= Tip, Tip' \in Nat, \A n \in 1 .. Tip : commits'[n] = commits[n]
  PROVE  Heads \subseteq Heads' /\ Faithful \subseteq Faithful'
<1>1. Tip \in Nat
  BY LenProperties DEF Shapes, RemoteShapes, Tip
<1>2. 1 .. Tip \subseteq 1 .. Tip'
  BY <1>1
<1>3. QED
  BY <1>2 DEF Heads, Faithful

\* What was pushed is the head.
LEMMA NewHead ==
  ASSUME Shapes, NEW text \in Pages, NEW by \in Proc \cup {None}, PushTo(text, by)
  PROVE  [head |-> Tip + 1, text |-> text] \in Heads'
<1>1. PICK r : r = [head |-> Tip + 1, text |-> text]
  OBVIOUS
<1>2. Tip \in Nat /\ Tip' = Tip + 1 /\ commits'[Tip + 1] = [text |-> text, by |-> by]
  BY BranchGrows
<1>3. r \in Revision /\ r.head \in 1 .. Tip' /\ r.text = commits'[r.head].text
  BY <1>1, <1>2 DEF Revision
<1>4. QED
  BY <1>1, <1>3 DEF Heads

\* A head with its page is a faithful account of it.
LEMMA HeadsAreFaithful == Heads \subseteq Faithful
  BY DEF Heads, Faithful

\* What a clone reads is the head with its page.
LEMMA TipIsHead ==
  ASSUME Shapes, commits # <<>>
  PROVE  Revise(Tip) \in Heads /\ Revise(Tip).text = commits[Tip].text /\ Revise(Tip).head = Tip /\ Tip \in Nat
<1>1. Tip \in Nat /\ Tip # 0
  BY LenProperties, EmptySeq DEF Shapes, RemoteShapes, Tip
<1>2. commits \in Seq([text : Pages, by : Proc \cup {None}]) /\ Tip \in 1 .. Len(commits)
  BY <1>1 DEF Shapes, RemoteShapes, Tip
<1>3. commits[Tip] \in [text : Pages, by : Proc \cup {None}]
  BY <1>2, ElementOfSeq
<1>4. PICK r : r = Revise(Tip)
  OBVIOUS
<1>5. r \in Revision /\ r.head = Tip /\ r.text = commits[Tip].text
  BY <1>1, <1>3, <1>4 DEF Revise, Revision
<1>6. QED
  BY <1>1, <1>4, <1>5 DEF Heads

\* A process that does not move keeps what it knows.
LEMMA OthersKeep ==
  ASSUME Shapes, NEW q \in Proc, CallInv(q),
         Heads \subseteq Heads', Faithful \subseteq Faithful', snapshots \subseteq snapshots',
         at'[q] = at[q], op'[q] = op[q], observed'[q] = observed[q], got'[q] = got[q],
         result'[q] = result[q],
         binding' = binding \/ (binding' # None /\ at[q] \in {"idle", "acquire", "done"})
  PROVE  CallInv(q)'
  BY DEF CallInv

\* Nothing durable has changed.
LEMMA StoreKept ==
  ASSUME StoreInv, UNCHANGED <<commits, snapshots, binding, view>> PROVE StoreInv'
  BY DEF StoreInv, Faithful, ReplacesOnlyKept, ConflictHasEvidence, Listed, Tip, Revise

\* The holder of the lock goes on, or somebody does what needs no lock.
LEMMA LockKept ==
  ASSUME Shapes, LockInv, NEW p \in Proc, UNCHANGED lock, \A q \in Proc : q # p => at'[q] = at[q],
         at'[p] \in {"idle", "acquire", "done"} \/ at[p] \notin {"idle", "acquire", "done"}
  PROVE  LockInv'
  BY DEF LockInv

\* A step of the process p, apart from what it does itself.
LEMMA ProcessStep ==
  ASSUME IInv, NEW p \in Proc, Shapes', CallInv(p)', LockInv', StoreInv',
         Heads \subseteq Heads', Faithful \subseteq Faithful', snapshots \subseteq snapshots',
         \A q \in Proc : q # p =>
           /\ at'[q] = at[q] /\ op'[q] = op[q] /\ observed'[q] = observed[q]
           /\ got'[q] = got[q] /\ result'[q] = result[q]
           /\ binding' = binding \/ (binding' # None /\ at[q] \in {"idle", "acquire", "done"})
  PROVE  IInv'
<1>1. ASSUME NEW q \in Proc, q # p PROVE CallInv(q)'
  BY <1>1, OthersKeep DEF IInv
<1>2. QED
  BY <1>1 DEF IInv

\* ... that only changes what p has in memory.
LEMMA QuietStep ==
  ASSUME IInv, NEW p \in Proc, Shapes', CallInv(p)',
         UNCHANGED <<commits, snapshots, binding, view, lock>>,
         \A q \in Proc : q # p => /\ at'[q] = at[q] /\ op'[q] = op[q] /\ observed'[q] = observed[q]
                                  /\ got'[q] = got[q] /\ result'[q] = result[q],
         at'[p] \in {"idle", "acquire", "done"} \/ at[p] \notin {"idle", "acquire", "done"}
  PROVE  IInv'
<1>1. Heads \subseteq Heads' /\ Faithful \subseteq Faithful'
  BY DEF Heads, Faithful, Tip
<1>2. LockInv'
  BY LockKept DEF IInv
<1>3. StoreInv'
  BY StoreKept DEF IInv
<1>4. snapshots \subseteq snapshots'
  OBVIOUS
<1>5. \A q \in Proc : q # p =>
        /\ at'[q] = at[q] /\ op'[q] = op[q] /\ observed'[q] = observed[q]
        /\ got'[q] = got[q] /\ result'[q] = result[q]
        /\ binding' = binding \/ (binding' # None /\ at[q] \in {"idle", "acquire", "done"})
  OBVIOUS
<1>6. QED
  BY <1>1, <1>2, <1>3, <1>4, <1>5, ProcessStep, Zenon

\* What a call has to show when the provider's operation ends.
LEMMA CallEnds ==
  ASSUME Shapes, NEW p \in Proc, NEW s \in States, NEW r \in Revision \cup {None}, NEW u \in BOOLEAN,
         Ended(p, s, r, u), UNCHANGED <<op, observed, binding, snapshots>>, CallInv(p),
         got'[p] # None => got'[p] \in Heads',
         r # None => r \in Faithful',
         s \in {"mirrored", "conflict"} =>
           /\ r # None /\ (binding # None => binding.head <= r.head)
           /\ op[p] \notin Resolutions /\ ~u => Marked(r.text),
         s = "conflict" /\ u => ~Marked(r.text),
         s = "mirrored" => ~u
  PROVE  CallInv(p)'
<1>1. /\ result'[p] = [state |-> s, rev |-> r, busy |-> FALSE, unverified |-> u, bare |-> FALSE]
      /\ at'[p] = IF s = "mirrored" THEN "bind" ELSE IF s = "conflict" THEN "snapshot" ELSE "release"
  BY EndedShapes
<1>2. result'[p].state = s /\ result'[p].rev = r /\ result'[p].unverified = u
  BY <1>1
<1>3. op'[p] = op[p] /\ observed'[p] = observed[p] /\ binding' = binding /\ snapshots' = snapshots
  OBVIOUS
<1>4. CASE s = "mirrored"
  BY <1>1, <1>2, <1>3, <1>4 DEF CallInv
<1>5. CASE s = "conflict"
  BY <1>1, <1>2, <1>3, <1>5 DEF CallInv
<1>6. CASE s \notin {"mirrored", "conflict"}
  BY <1>1, <1>2, <1>3, <1>6 DEF CallInv
<1>7. QED
  BY <1>4, <1>5, <1>6

-----------------------------------------------------------------------------
(* The steps of a call *)

\* A call has ended a provider's operation without an effect.
LEMMA EndingStep ==
  ASSUME IInv, NEW p \in Proc, NEW s \in States, NEW r \in Revision \cup {None}, NEW u \in BOOLEAN,
         Ended(p, s, r, u), UNCHANGED <<commits, store, request, commandVars>>, Counted',
         got' \in [Proc -> Revision \cup {None}], \A q \in Proc : q # p => got'[q] = got[q],
         got'[p] # None => got'[p] \in Heads, CallInv(p)',
         at[p] \notin {"idle", "acquire", "done"}
  PROVE  IInv'
<1>a. Shapes
  BY DEF IInv
<1>1. /\ at' \in [Proc -> Steps] /\ result' \in [Proc -> Results]
      /\ \A q \in Proc : q # p => result'[q] = result[q] /\ at'[q] = at[q]
  BY <1>a, EndedShapes, ZenonT(30)
<1>2. Shapes'
  BY <1>1 DEF IInv, Shapes, RemoteShapes, CallShapes, CommandShapes, Counted, store, evidence, request, commandVars
<1>3. QED
  BY <1>1, <1>2, QuietStep DEF store, evidence, request, commandVars

\* The lock is taken: nobody else is between taking and releasing it.
LEMMA AcquireStep == ASSUME IInv, NEW p \in Proc, Acquire(p), UNCHANGED commandVars PROVE IInv'
<1> USE DEF Acquire, TakeLock, Goto, evidence, request, bounds, commandVars
<1>1. Shapes'
  BY DEF IInv, Shapes, RemoteShapes, CallShapes, CommandShapes, Counted, Steps
<1>2. at'[p] = "clone" /\ \A q \in Proc : q # p => at'[q] = at[q]
  BY DEF IInv, Shapes, CallShapes
<1>3. LockInv'
  BY <1>2, ManagedAssumption DEF IInv, LockInv
<1>4. CallInv(p)'
  BY <1>2 DEF IInv, CallInv, NoResult, Heads, Faithful, Tip
<1>5. StoreInv'
  BY StoreKept DEF IInv
<1>6. Heads \subseteq Heads' /\ Faithful \subseteq Faithful'
  BY DEF Heads, Faithful, Tip
<1>7. snapshots \subseteq snapshots'
  OBVIOUS
<1>8. \A q \in Proc : q # p =>
        /\ at'[q] = at[q] /\ op'[q] = op[q] /\ observed'[q] = observed[q]
        /\ got'[q] = got[q] /\ result'[q] = result[q]
        /\ binding' = binding \/ (binding' # None /\ at[q] \in {"idle", "acquire", "done"})
  BY <1>2
<1>9. QED
  BY <1>1, <1>3, <1>4, <1>5, <1>6, <1>7, <1>8, ProcessStep, Zenon

\* The clone and the comparison with the head it has read.
LEMMA CloneStep == ASSUME IInv, NEW p \in Proc, Clone(p), UNCHANGED commandVars PROVE IInv'
<1>a. Shapes /\ CallInv(p) /\ StoreInv /\ at[p] = "clone"
  BY DEF IInv, Clone
<1>1. PICK r : r = Revise(Tip)
  OBVIOUS
<1>2. r \in Heads /\ r.text = commits[Tip].text /\ r.head = Tip /\ Tip \in Nat
  BY <1>1, <1>a, TipIsHead DEF Clone
<1>3. r \in Revision /\ r # None
  BY <1>2, RevisionAssumption DEF Heads
<1>4. /\ got' = [got EXCEPT ![p] = r] /\ Compare(p, r)
      /\ UNCHANGED <<commits, store, request, bounds, commandVars>>
  BY <1>1 DEF Clone
<1>5. /\ got' \in [Proc -> Revision \cup {None}] /\ got'[p] = r
      /\ \A q \in Proc : q # p => got'[q] = got[q]
  BY <1>3, <1>4, <1>a DEF Shapes, CallShapes
<1>6. binding # None => binding.head <= r.head
  BY <1>2, <1>a DEF StoreInv, Faithful
<1>7. r \in Heads' /\ r \in Faithful'
  BY <1>2, <1>4, HeadsAreFaithful DEF Heads, Faithful, Tip
<1>8. Counted'
  BY <1>4, <1>a DEF Shapes, Counted, bounds
<1>9. ASSUME NEW s \in States, NEW u \in BOOLEAN, Ended(p, s, r, u),
             s \in {"mirrored", "conflict"} /\ op[p] \notin Resolutions /\ ~u => Marked(r.text),
             s = "conflict" /\ u => ~Marked(r.text),
             s = "mirrored" => ~u
      PROVE  IInv'
  <2>1. UNCHANGED <<op, observed, binding, snapshots>>
    BY <1>4 DEF store, evidence, request
  <2>2. CallInv(p)'
    BY <1>3, <1>5, <1>6, <1>7, <1>9, <1>a, <2>1, CallEnds
  <2>3. QED
    BY <1>2, <1>3, <1>4, <1>5, <1>8, <1>9, <1>a, <2>2, EndingStep
<1>10. ASSUME Goto(p, "push"), UNCHANGED result, r.text # None => op[p] \in Resolutions /\ r \in snapshots
       PROVE  IInv'
  <2>1. /\ at' \in [Proc -> Steps] /\ at'[p] = "push" /\ \A q \in Proc : q # p => at'[q] = at[q]
    BY <1>10, <1>a DEF Goto, Shapes, CallShapes, Steps
  <2>2. UNCHANGED <<op, observed, binding, snapshots, blanks, lock, view, local, commits, diary,
                    cmd, result>>
    BY <1>4, <1>10 DEF store, evidence, request, commandVars
  <2>3. Shapes'
    BY <1>a, <1>5, <1>8, <2>1, <2>2
    DEF Shapes, RemoteShapes, CallShapes, CommandShapes
  <2>4. result'[p].rev # None => result'[p].rev \in Faithful'
    BY <1>a, <2>2 DEF CallInv, Faithful, Tip
  <2>5. CallInv(p)'
    BY <1>a, <1>3, <1>5, <1>6, <1>7, <1>10, <2>1, <2>2, <2>4 DEF CallInv
  <2>6. QED
    BY <1>a, <1>5, <2>1, <2>2, <2>3, <2>5, QuietStep
<1>11. CASE op[p] \in Resolutions
  <2>1. CompareDecision(p, r)
    BY <1>4, <1>11 DEF Compare
  <2>2. CASE \E s \in States : End(p, s, r)
    BY <1>3, <1>9, <1>11, <2>2, EndEnds
  <2>3. CASE /\ r.head = observed[p].head /\ r.text # None
             /\ Goto(p, "push") /\ UNCHANGED result
    <3>1. observed[p] \in Faithful /\ observed[p] \in snapshots
      BY <1>a, <1>11 DEF CallInv, StoreInv
    <3>2. observed[p].text = r.text
      BY <1>2, <2>3, <3>1 DEF Faithful
    <3>3. observed[p] \in Revision
      BY <3>1 DEF Faithful
    <3>4. observed[p] = r
      BY <1>3, <2>3, <3>2, <3>3 DEF Revision
    <3>5. QED
      BY <1>10, <1>11, <2>3, <3>1, <3>4
  <2>4. QED
    BY <2>1, <2>2, <2>3 DEF CompareDecision, States
<1>12. CASE op[p] \notin Resolutions /\ r.text # None
  <2>1. ComparePage(p, r)
    BY <1>4, <1>12 DEF Compare
  <2>2. CASE EndUnverified(p, "pending", r)
    BY <1>9, <2>2, EndUnverifiedEnds DEF States
  <2>3. CASE ~Marked(r.text) /\ EndUnverified(p, "conflict", r)
    BY <1>9, <2>3, EndUnverifiedEnds DEF States
  <2>4. CASE Marked(r.text) /\ \E s \in {"mirrored", "conflict"} : End(p, s, r)
    BY <1>9, <2>4, EndEnds DEF States
  <2>5. QED
    BY <2>1, <2>2, <2>3, <2>4 DEF ComparePage
<1>13. CASE op[p] \notin Resolutions /\ r.text = None
  BY <1>4, <1>10, <1>13 DEF Compare
<1>14. QED
  BY <1>11, <1>12, <1>13

\* What GitFails, RefreshFails and Refresh have in common: the call ends with
\* what it has read.
LEMMA GitStep ==
  ASSUME IInv, NEW p \in Proc,
         CloneEmpty(p) \/ GitFails(p) \/ RefreshFails(p), UNCHANGED commandVars
  PROVE  IInv'
<1>a. Shapes /\ CallInv(p) /\ StoreInv
  BY DEF IInv
<1>b. /\ UNCHANGED <<commits, store, request, got>> /\ (UNCHANGED bounds \/ Fault)
      /\ at[p] \in {"clone", "push", "refresh"}
  BY DEF CloneEmpty, GitFails, RefreshFails
<1>1. /\ UNCHANGED <<commits, store, request, got>> /\ Counted'
      /\ at[p] \in {"clone", "push", "refresh"}
  BY <1>a, <1>b, ManagedAssumption DEF Fault, Shapes, Counted, bounds
<1>2. PICK s \in States, r \in {None, got[p]} :
        Ended(p, s, r, FALSE) /\ (s = "conflict" => r = got[p] /\ at[p] = "refresh") /\ s # "mirrored"
  BY EndEnds DEF CloneEmpty, GitFails, RefreshFails, States
<1>3. got[p] \in Revision \cup {None}
  BY <1>a DEF Shapes, CallShapes
<1>4. Heads' = Heads /\ Faithful' = Faithful
  BY <1>1 DEF Heads, Faithful, Tip
<1>5. r # None => r \in Faithful
  BY <1>2, <1>a, HeadsAreFaithful DEF CallInv
<1>6. s = "conflict" =>
        /\ r # None /\ (binding # None => binding.head <= r.head)
        /\ op[p] \notin Resolutions => Marked(r.text)
  BY <1>2, <1>a, WikiAssumption DEF CallInv, Marked
<1>7. UNCHANGED <<op, observed, binding, snapshots, got>>
  BY <1>1 DEF store, evidence, request
<1>8. CallInv(p)'
  BY <1>a, <1>2, <1>3, <1>4, <1>5, <1>6, <1>7, CallEnds DEF CallInv
<1>9. QED
  BY <1>1, <1>2, <1>3, <1>a, <1>8, EndingStep DEF CallInv, Shapes, CallShapes

\* A lost race becomes a conflict at the new head.
LEMMA RefreshStep == ASSUME IInv, NEW p \in Proc, Refresh(p), UNCHANGED commandVars PROVE IInv'
<1>a. Shapes /\ CallInv(p) /\ StoreInv /\ at[p] = "refresh"
  BY DEF IInv, Refresh
<1>1. PICK page : page = commits[Tip].text
  OBVIOUS
<1>2. PICK r : r = [head |-> Tip, text |-> IF page = None THEN got[p].text ELSE page]
  OBVIOUS
<1>3. got[p] \in Heads /\ got[p] # None
  BY <1>a DEF CallInv
<1>4. commits # <<>> /\ Tip \in Nat \ {0}
  <2>1. Tip \in Nat /\ Tip # 0
    BY <1>a, <1>3, LenProperties DEF Heads, Shapes, RemoteShapes, Tip
  <2>2. QED
    BY <2>1, EmptySeq DEF Tip
<1>5. page = Revise(Tip).text /\ Revise(Tip) \in Heads
  BY <1>1, <1>4, <1>a, TipIsHead
<1>6. page \in Pages /\ got[p].text \in Pages
  BY <1>3, <1>5 DEF Heads, Revision
<1>7. r \in Revision /\ r.head = Tip /\ r.text = IF page = None THEN got[p].text ELSE page
  BY <1>2, <1>4, <1>6 DEF Revision
<1>8. r \in Faithful /\ r # None
  BY <1>1, <1>4, <1>7, RevisionAssumption DEF Faithful
<1>9. binding # None => binding.head <= r.head
  BY <1>7, <1>a DEF StoreInv, Faithful
<1>10. UNCHANGED <<commits, store, request, got, commandVars>> /\ Counted'
  BY <1>a DEF Refresh, Shapes, Counted, bounds
<1>11. r \in Faithful' /\ Heads' = Heads
  BY <1>8, <1>10 DEF Faithful, Heads, Tip
<1>12. UNCHANGED <<op, observed, binding, snapshots, got>>
  BY <1>10 DEF store, evidence, request
<1>13. ASSUME NEW u \in BOOLEAN, Ended(p, "conflict", r, u),
              op[p] \notin Resolutions /\ ~u => Marked(r.text), u => ~Marked(r.text)
       PROVE  IInv'
  <2>1. CallInv(p)'
    BY <1>a, <1>3, <1>7, <1>8, <1>9, <1>11, <1>12, <1>13, CallEnds DEF States
  <2>2. QED
    BY <1>a, <1>3, <1>7, <1>10, <1>12, <1>13, <2>1, EndingStep DEF States, Shapes, CallShapes
<1>14. op[p] \notin Resolutions => got[p].text = None
  BY <1>a DEF CallInv
<1>15. CASE Marked(page) /\ End(p, "conflict", r)
  <2>1. op[p] \notin Resolutions => Marked(r.text)
    BY <1>7, <1>14, <1>15, WikiAssumption DEF Marked
  <2>2. QED
    BY <1>13, <1>15, <2>1, EndEnds
<1>16. CASE ~Marked(page) /\ EndUnverified(p, "conflict", r)
  <2>1. ~Marked(r.text)
    BY <1>7, <1>16, WikiAssumption DEF Marked
  <2>2. QED
    BY <1>13, <1>16, <2>1, EndUnverifiedEnds
<1>17. QED
  BY <1>1, <1>2, <1>15, <1>16 DEF Refresh

\* The branch has moved since the clone.
LEMMA PushRejectedStep ==
  ASSUME IInv, NEW p \in Proc, PushRejected(p), UNCHANGED commandVars PROVE IInv'
<1> USE DEF PushRejected, Goto, store, evidence, request, bounds, commandVars
<1>1. Shapes'
  BY DEF IInv, Shapes, RemoteShapes, CallShapes, CommandShapes, Counted, Steps
<1>2. at'[p] = "refresh" /\ \A q \in Proc : q # p => at'[q] = at[q]
  BY DEF IInv, Shapes, CallShapes
<1>3. CallInv(p)'
  BY <1>2 DEF IInv, CallInv, Heads, Faithful, Tip
<1>4. QED
  BY <1>1, <1>2, <1>3, QuietStep

\* Without the lock the call is over.
LEMMA LocklessStep ==
  ASSUME IInv, NEW p \in Proc, Contended(p) \/ AcquireFails(p), UNCHANGED <<commits, commandVars>>
  PROVE  IInv'
<1> USE DEF Contended, AcquireFails, Fault, Goto, store, evidence, request, bounds, commandVars
<1>a. Shapes /\ CallInv(p) /\ at[p] = "acquire" /\ result[p] = NoResult
  BY DEF IInv, CallInv
<1>1. PICK e \in Results : /\ result' = [result EXCEPT ![p] = e]
                          /\ e.state = "pending" /\ e.rev = None
  <2>1. \A b \in BOOLEAN : [NoResult EXCEPT !.busy = b] \in
          {e \in Results : e.state = "pending" /\ e.rev = None}
    BY DEF NoResult, Results, States
  <2>2. NoResult \in {e \in Results : e.state = "pending" /\ e.rev = None}
    BY DEF NoResult, Results, States
  <2>3. CASE Contended(p)
    BY <2>1, <2>3
  <2>4. CASE AcquireFails(p)
    BY <1>a, <2>2, <2>4 DEF Shapes, CallShapes
  <2>5. QED
    BY <2>3, <2>4
<1>4. /\ result' \in [Proc -> Results] /\ result'[p] = e
      /\ \A q \in Proc : q # p => result'[q] = result[q]
  BY <1>1, <1>a DEF Shapes, CallShapes
<1>5. /\ at' \in [Proc -> Steps] /\ at'[p] = "done" /\ \A q \in Proc : q # p => at'[q] = at[q]
  BY <1>a DEF Shapes, CallShapes, Steps
<1>6. Shapes'
  BY <1>4, <1>5, <1>a, ManagedAssumption DEF Shapes, RemoteShapes, CallShapes, CommandShapes, Counted
<1>7. CallInv(p)'
  BY <1>1, <1>4, <1>5, <1>a DEF CallInv, Heads, Faithful, Tip
<1>8. QED
  BY <1>4, <1>5, <1>6, <1>7, QuietStep

\* The evidence of a conflict is kept.
LEMMA WriteSnapshotStep ==
  ASSUME IInv, NEW p \in Proc, WriteSnapshot(p), UNCHANGED <<commits, commandVars>> PROVE IInv'
<1> USE DEF WriteSnapshot, Keep, Goto, request, bounds, commandVars
<1>a. Shapes /\ CallInv(p) /\ StoreInv /\ LockInv /\ at[p] = "snapshot"
  BY DEF IInv
<1>1. result[p].rev \in Revision /\ result[p].rev \in Faithful
  BY <1>a DEF CallInv, Faithful
<1>2. Heads' = Heads /\ Faithful' = Faithful
  BY DEF Heads, Faithful, Tip
<1>3. /\ at' \in [Proc -> Steps] /\ \A q \in Proc : q # p => at'[q] = at[q]
      /\ at'[p] = IF result[p].unverified THEN "release" ELSE "bind"
  BY <1>a DEF Shapes, CallShapes, Steps
<1>4. /\ snapshots' = snapshots \cup {result[p].rev} /\ snapshots' \subseteq Revision
      /\ blanks' = {}
  BY <1>1, <1>a DEF Shapes, RemoteShapes, CallShapes, Results
<1>5. Shapes'
  BY <1>3, <1>4, <1>a DEF Shapes, RemoteShapes, CallShapes, CommandShapes, Counted
<1>6. CallInv(p)'
  BY <1>2, <1>3, <1>4, <1>a DEF CallInv
<1>7. LockInv'
  BY <1>3, <1>a, LockKept
<1>8. StoreInv'
  BY <1>1, <1>2, <1>4, <1>a DEF StoreInv, ReplacesOnlyKept, ConflictHasEvidence, Listed, Tip, Revise
<1>9. \A q \in Proc : q # p =>
        /\ at'[q] = at[q] /\ op'[q] = op[q] /\ observed'[q] = observed[q]
        /\ got'[q] = got[q] /\ result'[q] = result[q]
        /\ binding' = binding \/ (binding' # None /\ at[q] \in {"idle", "acquire", "done"})
  BY <1>3
<1>10. snapshots \subseteq snapshots'
  BY <1>4
<1>11. QED
  BY <1>2, <1>5, <1>6, <1>7, <1>8, <1>9, <1>10, ProcessStep

\* The binding is written, under the lock.
LEMMA SaveBindingStep ==
  ASSUME IInv, NEW p \in Proc, SaveBinding(p), UNCHANGED <<commits, commandVars>> PROVE IInv'
<1> USE DEF SaveBinding, Goto, evidence, request, bounds, commandVars
<1>a. Shapes /\ CallInv(p) /\ StoreInv /\ LockInv /\ at[p] = "bind"
  BY DEF IInv
<1>1. binding' = result[p].rev /\ result[p].rev \in Faithful /\ binding' # None /\ binding' \in Revision
  BY <1>a DEF CallInv, Faithful
<1>2. Heads' = Heads /\ Faithful' = Faithful
  BY DEF Heads, Faithful, Tip
<1>3. /\ at' \in [Proc -> Steps] /\ \A q \in Proc : q # p => at'[q] = at[q]
      /\ at'[p] = "release"
  BY <1>a DEF Shapes, CallShapes, Steps
<1>4. Shapes'
  BY <1>1, <1>3, <1>a DEF Shapes, RemoteShapes, CallShapes, CommandShapes, Counted
<1>5. CallInv(p)'
  BY <1>1, <1>2, <1>3, <1>a DEF CallInv
<1>6. LockInv'
  BY <1>3, <1>a, LockKept
<1>7. StoreInv'
  BY <1>1, <1>2, <1>a DEF StoreInv, ReplacesOnlyKept, ConflictHasEvidence, Listed, Tip, Revise
<1>8. \A q \in Proc : q # p => at[q] \in {"idle", "acquire", "done"}
  BY <1>a DEF LockInv
<1>9. \A q \in Proc : q # p =>
        /\ at'[q] = at[q] /\ op'[q] = op[q] /\ observed'[q] = observed[q]
        /\ got'[q] = got[q] /\ result'[q] = result[q]
        /\ binding' = binding \/ (binding' # None /\ at[q] \in {"idle", "acquire", "done"})
  BY <1>1, <1>3, <1>8
<1>10. QED
  BY <1>2, <1>4, <1>5, <1>6, <1>7, <1>9, ProcessStep

\* The evidence or the binding is not written, or not seen to be.
LEMMA KeepFailsStep ==
  ASSUME IInv, NEW p \in Proc, KeepFails(p), UNCHANGED <<commits, commandVars>> PROVE IInv'
<1>a. /\ Shapes /\ CallInv(p) /\ StoreInv /\ LockInv /\ at[p] \in {"snapshot", "bind"}
      /\ Fault /\ End(p, "pending", result[p].rev)
      /\ UNCHANGED <<commits, view, diary, cmd, lock, op, local, observed, got>>
  BY DEF IInv, KeepFails, commandVars, request
<1>1. result[p].rev \in Faithful /\ result[p].rev \in Revision /\ result[p].rev # None
  BY <1>a, RevisionAssumption DEF CallInv, Faithful
<1>2. Heads' = Heads /\ Faithful' = Faithful
  BY <1>a DEF Heads, Faithful, Tip
<1>3. Ended(p, "pending", result[p].rev, FALSE)
  BY <1>a, EndEnds
<1>4. /\ at' \in [Proc -> Steps] /\ result' \in [Proc -> Results] /\ at'[p] = "release"
      /\ result'[p] = [state |-> "pending", rev |-> result[p].rev, busy |-> FALSE,
                       unverified |-> FALSE, bare |-> FALSE]
      /\ \A q \in Proc : q # p => result'[q] = result[q] /\ at'[q] = at[q]
  BY <1>a, <1>1, <1>3, EndedShapes DEF States
<1>5. result'[p].state = "pending" /\ result'[p].rev \in Faithful
  BY <1>1, <1>4
<1>6. snapshots' \in {snapshots, snapshots \cup {result[p].rev}} /\ blanks' = {}
  BY <1>a DEF KeepFails, Keep, evidence, Shapes, RemoteShapes, CallShapes, Results
<1>7. binding' \in {binding, result[p].rev}
  BY DEF KeepFails
<1>8. Counted'
  BY <1>a, ManagedAssumption DEF Fault, Shapes, Counted
<1>9. Shapes'
  BY <1>a, <1>1, <1>4, <1>6, <1>7, <1>8 DEF Shapes, RemoteShapes, CallShapes, CommandShapes
<1>10. CallInv(p)'
  BY <1>a, <1>2, <1>4, <1>5, <1>6 DEF CallInv
<1>11. LockInv'
  BY <1>a, <1>4, LockKept
<1>12. StoreInv'
  BY <1>1, <1>2, <1>6, <1>7, <1>a
  DEF StoreInv, ReplacesOnlyKept, ConflictHasEvidence, Listed, Tip, Revise
<1>13. \A q \in Proc : q # p => at[q] \in {"idle", "acquire", "done"}
  BY <1>a DEF LockInv
<1>14. \A q \in Proc : q # p =>
        /\ at'[q] = at[q] /\ op'[q] = op[q] /\ observed'[q] = observed[q]
        /\ got'[q] = got[q] /\ result'[q] = result[q]
        /\ binding' = binding \/ (binding' # None /\ at[q] \in {"idle", "acquire", "done"})
  BY <1>a, <1>1, <1>4, <1>7, <1>13
<1>15. QED
  BY <1>2, <1>6, <1>9, <1>10, <1>11, <1>12, <1>14, ProcessStep

\* The lock is given back.
LEMMA ReleaseStep ==
  ASSUME IInv, NEW p \in Proc, Release(p), UNCHANGED <<commits, commandVars>> PROVE IInv'
<1> USE DEF Release, Goto, evidence, request, bounds, commandVars
<1>a. Shapes /\ CallInv(p) /\ StoreInv /\ LockInv /\ at[p] = "release"
  BY DEF IInv
<1>1. Heads' = Heads /\ Faithful' = Faithful
  BY DEF Heads, Faithful, Tip
<1>2. /\ at' \in [Proc -> Steps] /\ at'[p] = "done" /\ \A q \in Proc : q # p => at'[q] = at[q]
  BY <1>a DEF Shapes, CallShapes, Steps
<1>3. Shapes'
  BY <1>2, <1>a DEF Shapes, RemoteShapes, CallShapes, CommandShapes, Counted
<1>4. CallInv(p)'
  BY <1>1, <1>2, <1>a DEF CallInv
<1>5. LockInv'
  BY <1>2, <1>a DEF LockInv
<1>6. StoreInv'
  BY <1>a, StoreKept
<1>7. \A q \in Proc : q # p =>
        /\ at'[q] = at[q] /\ op'[q] = op[q] /\ observed'[q] = observed[q]
        /\ got'[q] = got[q] /\ result'[q] = result[q]
        /\ binding' = binding \/ (binding' # None /\ at[q] \in {"idle", "acquire", "done"})
  BY <1>2
<1>8. QED
  BY <1>1, <1>3, <1>4, <1>5, <1>6, <1>7, ProcessStep

\* The branch takes one more commit; a process only replaces what was kept.
LEMMA StorePushed ==
  ASSUME Shapes, StoreInv, NEW text \in Pages, NEW by \in Proc \cup {None}, PushTo(text, by),
         UNCHANGED <<snapshots, binding, view>>,
         by \in Proc /\ Tip # 0 /\ commits[Tip].text # None => Revise(Tip) \in snapshots
  PROVE  StoreInv' /\ Heads \subseteq Heads' /\ Faithful \subseteq Faithful'
<1>1. /\ Tip \in Nat /\ Tip' = Tip + 1 /\ \A n \in 1 .. Tip : commits'[n] = commits[n]
      /\ commits'[Tip + 1] = [text |-> text, by |-> by]
  BY BranchGrows
<1>2. Heads \subseteq Heads' /\ Faithful \subseteq Faithful'
  BY <1>1, HeadsStay
<1>3. ReplacesOnlyKept'
  <2> SUFFICES ASSUME NEW n \in 2 .. Tip + 1, commits'[n].by \in Proc, commits'[n-1].text # None
               PROVE  [head |-> n-1, text |-> commits'[n-1].text] \in snapshots
    BY <1>1 DEF ReplacesOnlyKept, Revise
  <2>1. n - 1 \in 1 .. Tip /\ commits'[n-1] = commits[n-1]
    BY <1>1
  <2>2. CASE n = Tip + 1
    <3>1. n - 1 = Tip /\ Tip # 0
      BY <1>1, <2>1, <2>2
    <3>2. commits'[n].by = by
      BY <1>1, <2>2
    <3>3. QED
      BY <2>1, <3>1, <3>2 DEF Revise
  <2>3. CASE n # Tip + 1
    <3>1. n \in 2 .. Tip /\ commits'[n] = commits[n]
      BY <1>1, <2>3
    <3>2. QED
      BY <2>1, <3>1 DEF StoreInv, ReplacesOnlyKept, Revise
  <2>4. QED
    BY <2>2, <2>3
<1>4. ConflictHasEvidence'
  BY DEF StoreInv, ConflictHasEvidence, Listed
<1>5. QED
  BY <1>2, <1>3, <1>4 DEF StoreInv

\* The diary arrives on the branch, whether or not the call learns of it.
LEMMA PushSteps ==
  ASSUME IInv, NEW p \in Proc, Push(p) \/ PushLost(p), UNCHANGED commandVars PROVE IInv'
<1>a. Shapes /\ CallInv(p) /\ StoreInv /\ LockInv /\ at[p] = "push"
  BY DEF IInv, Push, PushLost
<1>b. /\ PushTo(local[p], p) /\ Tip = got[p].head /\ UNCHANGED <<store, request, got>>
      /\ local[p] \in Proc /\ local[p] \in Pages
  BY <1>a DEF Push, PushLost, Shapes, CallShapes, Pages
<1>1. got[p] \in Heads /\ got[p] # None /\ got[p] \in Revision
  BY <1>a DEF CallInv, Heads
<1>2. /\ Tip \in Nat /\ Tip' = Tip + 1 /\ \A n \in 1 .. Tip : commits'[n] = commits[n]
      /\ commits' \in Seq([text : Pages, by : Proc \cup {None}])
  BY <1>a, <1>b, BranchGrows
<1>3. commits[Tip].text # None => Revise(Tip) \in snapshots
  <2>1. Revise(Tip) = got[p]
    BY <1>1, <1>b DEF Revise, Heads, Revision
  <2>2. QED
    BY <1>a, <1>1, <1>b, <2>1 DEF CallInv, Heads
<1>4. StoreInv' /\ Heads \subseteq Heads' /\ Faithful \subseteq Faithful'
  BY <1>3, <1>a, <1>b, StorePushed DEF store, evidence, commandVars
<1>5. PICK r : r = [head |-> Tip + 1, text |-> local[p]]
  OBVIOUS
<1>6. r \in Heads' /\ r \in Revision /\ r # None /\ r.head = Tip + 1 /\ r.text = local[p]
  <2>1. r \in Heads'
    BY <1>5, <1>a, <1>b, NewHead
  <2>2. r \in Revision
    BY <1>5, <1>b, <1>2 DEF Revision
  <2>3. QED
    BY <1>5, <2>1, <2>2, RevisionAssumption
<1>7. r \in Faithful' /\ got[p] \in Faithful'
  BY <1>1, <1>4, <1>6, HeadsAreFaithful DEF Heads, Faithful
<1>8. binding # None => binding.head <= r.head
  <2>1. binding # None => binding.head \in Nat /\ binding.head <= Tip
    BY <1>a, <1>b DEF StoreInv, Faithful, CallInv
  <2>2. QED
    BY <1>2, <1>6, <2>1
<1>9. Marked(r.text)
  BY <1>6, <1>b, WikiAssumption DEF Marked
<1>10. PICK s \in States, v \in {r, got[p]} :
         Ended(p, s, v, FALSE) /\ (s \in {"mirrored", "conflict"} => v = r /\ s = "mirrored")
  <2>1. CASE Push(p)
    <3>1. Ended(p, "mirrored", r, FALSE)
      BY <2>1, <1>5, EndEnds DEF Push
    <3>2. QED
      BY <3>1 DEF States
  <2>2. CASE PushLost(p)
    <3>1. \E s \in {"pending", "prerequisite"} : Ended(p, s, got[p], FALSE)
      BY <2>2, EndEnds DEF PushLost
    <3>2. QED
      BY <3>1 DEF States
  <2>3. QED
    BY <2>1, <2>2
<1>11. v \in Revision /\ v # None /\ v \in Faithful'
  BY <1>1, <1>6, <1>7
<1>12. UNCHANGED <<op, observed, binding, snapshots, got>> /\ got'[p] \in Heads'
  BY <1>1, <1>4, <1>b DEF store, evidence, request
<1>13. CallInv(p)'
  BY <1>a, <1>8, <1>9, <1>10, <1>11, <1>12, CallEnds
<1>14. /\ at' \in [Proc -> Steps] /\ result' \in [Proc -> Results]
       /\ \A q \in Proc : q # p => result'[q] = result[q] /\ at'[q] = at[q]
  BY <1>a, <1>10, <1>11, EndedShapes
<1>15. Counted'
  BY <1>a, ManagedAssumption DEF Push, PushLost, Fault, Shapes, Counted, bounds
<1>16. Shapes'
  BY <1>a, <1>b, <1>2, <1>14, <1>15
  DEF Shapes, RemoteShapes, CallShapes, CommandShapes, store, evidence, request, commandVars
<1>17. LockInv'
  BY <1>a, <1>b, <1>14, LockKept DEF store, evidence
<1>18. \A q \in Proc : q # p =>
         /\ at'[q] = at[q] /\ op'[q] = op[q] /\ observed'[q] = observed[q]
         /\ got'[q] = got[q] /\ result'[q] = result[q]
         /\ binding' = binding \/ (binding' # None /\ at[q] \in {"idle", "acquire", "done"})
  BY <1>12, <1>14
<1>19. snapshots \subseteq snapshots'
  BY <1>12
<1>20. QED
  BY <1>4, <1>13, <1>16, <1>17, <1>18, <1>19, ProcessStep

-----------------------------------------------------------------------------
(* The commands, the people and the whole *)

\* The journal only lists a conflict whose evidence is kept.
LEMMA ViewStep ==
  ASSUME Shapes, StoreInv, NEW p \in Proc, CallInv(p), Journals(p),
         UNCHANGED <<commits, snapshots, binding>>
  PROVE  StoreInv'
<1>1. ConflictHasEvidence'
  <2>1. CASE view'.storage = view.storage /\ view'.settled = view.settled
    BY <2>1 DEF StoreInv, ConflictHasEvidence, Listed
  <2>2. CASE view'.storage \in Obligations /\ view'.storage.state # "conflict"
    BY <2>2 DEF ConflictHasEvidence, Listed
  <2>3. CASE at[p] = "done" /\ view'.storage = Carried(result[p])
    <3>1. Carried(result[p]).state = result[p].state
      BY DEF Carried
    <3>2. result[p].state = "conflict" => Carried(result[p]).rev = result[p].rev
      BY DEF Carried
    <3>3. QED
      BY <2>3, <3>1, <3>2 DEF CallInv, ConflictHasEvidence, Listed
  <2>4. QED
    BY <2>1, <2>2, <2>3 DEF Journals, Intends, Shows
<1>2. QED
  BY <1>1 DEF StoreInv, Faithful, ReplacesOnlyKept, Tip, Revise

\* A command, or what begins or ends one.
LEMMA CommandsKeep ==
  ASSUME IInv, NEW p \in Proc, CommandStep(p) \/ Begin(p), UNCHANGED commits PROVE IInv'
<1>a. Shapes /\ CallInv(p) /\ StoreInv /\ LockInv
  BY DEF IInv
<1>b. (Idles \/ Calls(p) \/ Returns(p) \/ Die(p)) /\ CommandShapes' /\ Journals(p)
  BY <1>a, CommandKinds
<1>c. Heads' = Heads /\ Faithful' = Faithful
  BY DEF Heads, Faithful, Tip
<1>1. CASE Idles
  <2>1. UNCHANGED <<store, at, request, got, result>> /\ Counted'
    BY <1>1, <1>a, ManagedAssumption DEF Idles, Counts, Shapes, Counted
  <2>2. Shapes' /\ LockInv' /\ StoreInv' /\ CallInv(p)'
    BY <1>a, <1>b, <1>c, <2>1, ViewStep
    DEF store, evidence, request, Shapes, RemoteShapes, CallShapes, LockInv, CallInv
  <2>3. QED
    BY <1>c, <2>1, <2>2, ProcessStep DEF store, evidence, request
<1>2. CASE Calls(p)
  <2>1. PICK what \in Operations, t \in Proc, r \in snapshots \cup {None} :
          Call(p, what, t, r) /\ (what \in Resolutions => r \in snapshots)
    BY <1>2 DEF Calls
  <2>2. /\ at[p] = "idle" /\ at' = [at EXCEPT ![p] = "acquire"] /\ op' = [op EXCEPT ![p] = what]
        /\ local' = [local EXCEPT ![p] = t] /\ observed' = [observed EXCEPT ![p] = r]
        /\ UNCHANGED <<binding, snapshots, blanks, lock, got, result, edits, faults>>
    BY <2>1 DEF Call, Goto, store, evidence, bounds
  <2>3. r \in Revision \cup {None}
    BY <1>a DEF Shapes, RemoteShapes
  <2>4. Shapes'
    BY <1>a, <1>b, <2>2, <2>3 DEF Shapes, RemoteShapes, CallShapes, Counted, Steps
  <2>5. /\ at'[p] = "acquire" /\ op'[p] = what /\ observed'[p] = r
        /\ \A q \in Proc : q # p => at'[q] = at[q] /\ op'[q] = op[q] /\ observed'[q] = observed[q]
    BY <1>a, <2>2 DEF Shapes, CallShapes
  <2>6. CallInv(p)'
    BY <1>a, <1>c, <2>1, <2>2, <2>5 DEF CallInv, NoResult
  <2>7. LockInv' /\ StoreInv'
    BY <1>a, <1>b, <2>2, <2>5, ViewStep DEF LockInv
  <2>8. QED
    BY <1>c, <2>2, <2>4, <2>5, <2>6, <2>7, ProcessStep
<1>3. ASSUME Return(p), UNCHANGED <<binding, snapshots, blanks>>, Counted',
             lock' \in Proc \cup {"orphan", "empty", None}, \A q \in Proc : q # p /\ lock = q => lock' = q
      PROVE  IInv'
  <2>1. NoResult \in Results
    BY DEF NoResult, Results, States
  <2>2. Shapes'
    BY <1>a, <1>b, <1>3, <2>1
    DEF Return, Shapes, RemoteShapes, CallShapes, Steps, Operations
  <2>3. /\ at'[p] = "idle" /\ op'[p] = "mirror" /\ observed'[p] = None /\ got'[p] = None
        /\ result'[p] = NoResult
        /\ \A q \in Proc : q # p =>
             /\ at'[q] = at[q] /\ op'[q] = op[q] /\ observed'[q] = observed[q]
             /\ got'[q] = got[q] /\ result'[q] = result[q]
    BY <1>a, <1>3 DEF Return, Shapes, CallShapes
  <2>4. CallInv(p)'
    BY <2>3 DEF CallInv, NoResult, Resolutions
  <2>5. LockInv'
    BY <1>a, <1>3, <2>3 DEF LockInv
  <2>6. StoreInv'
    BY <1>a, <1>b, <1>3, ViewStep
  <2>7. QED
    BY <1>c, <1>3, <2>2, <2>3, <2>4, <2>5, <2>6, ProcessStep
<1>4. CASE Returns(p)
  BY <1>3, <1>4, <1>a DEF Returns, store, evidence, bounds, Shapes, RemoteShapes, Counted
<1>5. CASE Die(p)
  <2>1. Return(p) /\ UNCHANGED <<binding, snapshots, blanks>>
    BY <1>5 DEF Die, evidence
  <2>2. lock' \in {lock, "orphan", "empty"} /\ \A q \in Proc : q # p /\ lock = q => lock' = q
    BY <1>5, ManagedAssumption DEF Die
  <2>3. Counted'
    BY <1>5, <1>a, ManagedAssumption DEF Die, Fault, Shapes, Counted
  <2>4. lock \in Proc \cup {"orphan", "empty", None}
    BY <1>a DEF Shapes, RemoteShapes
  <2>5. QED
    BY <1>3, <2>1, <2>2, <2>3, <2>4
<1>6. QED
  BY <1>b, <1>1, <1>2, <1>4, <1>5

\* People write into the Wiki.
LEMMA PeopleKeep == ASSUME IInv, FirstPage \/ Edit, UNCHANGED commandVars PROVE IInv'
<1>a. Shapes /\ StoreInv /\ LockInv
  BY DEF IInv
<1>1. /\ UNCHANGED <<store, at, request, got, result>> /\ Counted'
  BY <1>a, ManagedAssumption
  DEF FirstPage, Edit, managedVars, store, evidence, request, Shapes, Counted
<1>2. \E text \in Pages : PushTo(text, None)
  <2>1. CASE FirstPage
    BY <2>1 DEF FirstPage, Pages
  <2>2. CASE Edit
    <3>1. commits[Tip].text \in Pages
      BY <1>a, <2>2, TipIsHead DEF Edit, Heads, Revision
    <3>2. QED
      BY <2>2, <3>1 DEF Edit, Pages
  <2>3. QED
    BY <2>1, <2>2
<1>3. PICK text \in Pages : PushTo(text, None)
  BY <1>2
<1>4. commits' \in Seq([text : Pages, by : Proc \cup {None}])
  BY <1>3, <1>a, BranchGrows
<1>5. StoreInv' /\ Heads \subseteq Heads' /\ Faithful \subseteq Faithful'
  BY <1>1, <1>3, <1>a, ManagedAssumption, StorePushed DEF store, evidence, commandVars
<1>6. Shapes' /\ LockInv'
  BY <1>1, <1>4, <1>a
  DEF store, evidence, request, commandVars, Shapes, RemoteShapes, CallShapes, CommandShapes, LockInv
<1>7. ASSUME NEW q \in Proc PROVE CallInv(q)'
  BY <1>1, <1>5, <1>a, OthersKeep DEF IInv, store, evidence, request
<1>8. QED
  BY <1>5, <1>6, <1>7 DEF IInv

\* A user clears a lock whose owner is gone.
LEMMA ClearLockKeeps == ASSUME IInv, ClearLock, UNCHANGED <<commits, commandVars>> PROVE IInv'
<1>a. Shapes /\ StoreInv /\ LockInv
  BY DEF IInv
<1>1. /\ UNCHANGED <<binding, snapshots, blanks, at, request, got, result, bounds, commits,
                     commandVars>>
      /\ lock = "orphan" /\ lock' = None
  BY DEF ClearLock, evidence
<1>2. Shapes'
  BY <1>1, <1>a DEF request, bounds, commandVars, Shapes, RemoteShapes, CallShapes, CommandShapes, Counted
<1>3. LockInv'
  BY <1>1, <1>a, ManagedAssumption DEF LockInv
<1>4. StoreInv'
  BY <1>1, <1>a, StoreKept DEF commandVars
<1>5. Heads \subseteq Heads' /\ Faithful \subseteq Faithful'
  BY <1>1 DEF Heads, Faithful, Tip
<1>6. ASSUME NEW q \in Proc PROVE CallInv(q)'
  BY <1>1, <1>5, <1>a, OthersKeep DEF IInv, request
<1>7. QED
  BY <1>2, <1>3, <1>4, <1>6 DEF IInv

\* Any step of a call.
LEMMA CallsKeep ==
  ASSUME IInv, NEW p \in Proc, CallStep(p), UNCHANGED commandVars PROVE IInv'
<1>1. CASE Push(p) \/ PushLost(p)
  BY <1>1, PushSteps
<1>2. CASE CloneEmpty(p) \/ GitFails(p) \/ RefreshFails(p)
  BY <1>2, GitStep
<1>3. CASE Acquire(p) \/ Clone(p) \/ PushRejected(p) \/ Refresh(p)
  BY <1>3, AcquireStep, CloneStep, PushRejectedStep, RefreshStep
<1>4. CASE (Contended(p) \/ AcquireFails(p)) /\ UNCHANGED commits
  BY <1>4, LocklessStep
<1>5. CASE /\ WriteSnapshot(p) \/ SaveBinding(p) \/ KeepFails(p) \/ Release(p)
           /\ UNCHANGED commits
  BY <1>5, WriteSnapshotStep, SaveBindingStep, KeepFailsStep, ReleaseStep
<1>6. QED
  BY <1>1, <1>2, <1>3, <1>4, <1>5 DEF CallStep, ManagedStep

-----------------------------------------------------------------------------
(* The theorems *)

\* A saga begins with nothing said or kept.
LEMMA InitInv == ASSUME Init PROVE IInv
<1> USE DEF Init, MirrorInit, ManagedInit, CommandInit
<1>1. commits \in Seq([text : Pages, by : Proc \cup {None}])
  <2>1. PICK c : c = [text |-> None, by |-> None]
    OBVIOUS
  <2>2. c \in [text : Pages, by : Proc \cup {None}] /\ commits \in {<<>>, <<c>>}
    BY <2>1 DEF Pages
  <2>3. <<>> \in Seq([text : Pages, by : Proc \cup {None}])
    OBVIOUS
  <2>4. <<c>> \in Seq([text : Pages, by : Proc \cup {None}])
    BY <2>2
  <2>5. QED
    BY <2>2, <2>3, <2>4
<1>2. NoResult \in Results /\ EmptyView \in Views
  BY DEF NoResult, Results, States, EmptyView, Views
<1>3. Shapes
  BY <1>1, <1>2, ManagedAssumption
  DEF Shapes, RemoteShapes, CallShapes, CommandShapes, Counted, Steps, Operations, Commands
<1>4. \A p \in Proc : CallInv(p)
  BY DEF CallInv, NoResult, Resolutions
<1>5. ReplacesOnlyKept
  <2>1. ASSUME NEW n \in 2 .. Tip PROVE commits[n-1].text = None
    <3>1. PICK c : c = [text |-> None, by |-> None]
      OBVIOUS
    <3>2. commits \in {<<>>, <<c>>} /\ c.text = None
      BY <3>1
    <3>3. Tip \in {0, 1}
      BY <3>2 DEF Tip
    <3>4. QED
      BY <3>3
  <2>2. QED
    BY <2>1 DEF ReplacesOnlyKept
<1>6. StoreInv
  BY <1>5 DEF StoreInv, ConflictHasEvidence, Listed, EmptyView
<1>7. LockInv
  BY DEF LockInv
<1>8. QED
  BY <1>3, <1>4, <1>6, <1>7 DEF IInv

\* Every step keeps the invariant.
LEMMA StepKeeps == ASSUME IInv, [Next]_vars PROVE IInv'
<1>1. ASSUME NEW p \in Proc, Continue(p) \/ (Begin(p) /\ UNCHANGED commits) PROVE IInv'
  BY <1>1, CallsKeep, CommandsKeep DEF Continue
<1>2. CASE (FirstPage \/ Edit) /\ UNCHANGED commandVars
  BY <1>2, PeopleKeep
<1>3. CASE ClearLock /\ UNCHANGED <<commits, commandVars>>
  BY <1>3, ClearLockKeeps
<1>4. CASE UNCHANGED vars
  <2>1. UNCHANGED <<commits, binding, snapshots, blanks, lock, at, op, local, observed, got,
                    result, edits, faults, diary, view, cmd>>
    BY <1>4 DEF vars, mirrorVars, managedVars, commandVars
  <2>2. Shapes' /\ LockInv'
    BY <2>1 DEF IInv, Shapes, RemoteShapes, CallShapes, CommandShapes, Counted, LockInv
  <2>3. StoreInv'
    BY <2>1, StoreKept DEF IInv
  <2>4. Heads \subseteq Heads' /\ Faithful \subseteq Faithful'
    BY <2>1 DEF Heads, Faithful, Tip
  <2>5. ASSUME NEW q \in Proc PROVE CallInv(q)'
    BY <2>1, <2>4, OthersKeep DEF IInv
  <2>6. QED
    BY <2>2, <2>3, <2>5 DEF IInv
<1>5. QED
  BY <1>1, <1>2, <1>3, <1>4 DEF Next

\* The inductive invariant holds always.
THEOREM Invariant == Spec => []IInv
<1>1. Init => IInv
  BY InitInv
<1>2. IInv /\ [Next]_vars => IInv'
  BY StepKeeps
<1>3. QED
  BY <1>1, <1>2, PTL DEF Spec

\* Every variable keeps its type.
THEOREM TypeCorrect == Spec => []TypeOK
<1>1. IInv => TypeOK
  <2> SUFFICES ASSUME IInv PROVE TypeOK
    OBVIOUS
  <2>1. CommandsTyped /\ view.storage \in Obligations \cup {None}
    BY DEF IInv, Shapes, CommandShapes, Views, Commands, CommandsTyped
  <2>2. at \in [Proc -> Steps] /\ op \in [Proc -> Operations] /\ result \in [Proc -> Results]
    BY DEF IInv, Shapes, CallShapes
  <2>3. QED
    BY <2>1, <2>2
    DEF IInv, Shapes, RemoteShapes, CallShapes, Counted, Steps, Operations, Results, Obligations, TypeOK
<1>2. QED
  BY <1>1, Invariant, PTL

\* What people wrote is replaced only after it was kept (apply, wiki.go:228).
THEOREM EditsAreKept == Spec => []ReplacesOnlyKept
<1>1. IInv => ReplacesOnlyKept
  BY DEF IInv, StoreInv
<1>2. QED
  BY <1>1, Invariant, PTL

\* A journaled conflict has its evidence (run, storage/recovery.go:385).
THEOREM ConflictsAreEvident == Spec => []ConflictHasEvidence
<1>1. IInv => ConflictHasEvidence
  BY DEF IInv, StoreInv
<1>2. QED
  BY <1>1, Invariant, PTL

\* The binding becomes the revision of the result, whether or not that is seen.
Saves(p) == at[p] = "bind" /\ binding' = result[p].rev

\* The binding is written by a step of a call that has got that far, and by
\* nothing else.
LEMMA BindingIsSaved ==
  ASSUME IInv, [Next]_vars, binding' # binding
  PROVE  \E p \in Proc : Saves(p)
<1>1. ASSUME NEW p \in Proc, CallStep(p) PROVE Saves(p)
  BY <1>1
  DEF CallStep, ManagedStep, Acquire, TakeLock, Clone, CloneEmpty, Push, PushLost, PushRejected,
      Refresh, RefreshFails, GitFails, Contended, AcquireFails, WriteSnapshot, SaveBinding,
      KeepFails, Release, Saves, store, evidence
<1>2. ASSUME NEW p \in Proc, CommandStep(p) \/ Begin(p) PROVE FALSE
  <2>1. Idles \/ Calls(p) \/ Returns(p) \/ Die(p)
    BY <1>2, CommandKinds DEF IInv
  <2>2. QED
    BY <2>1 DEF Idles, Calls, Call, Returns, Die, store, evidence
<1>3. CASE FirstPage \/ Edit \/ ClearLock \/ UNCHANGED vars
  BY <1>3 DEF FirstPage, Edit, ClearLock, vars, mirrorVars, managedVars, store, evidence
<1>4. QED
  BY <1>1, <1>2, <1>3 DEF Next, Continue

\* The binding never goes back to an earlier head (run, storage/recovery.go:363).
THEOREM BindingGoesForward == Spec => BindingAdvances
<1>1. ASSUME IInv, [Next]_vars, binding' # binding, binding # None
      PROVE  binding' # None /\ binding'.head >= binding.head
  <2>1. PICK p \in Proc : Saves(p)
    BY <1>1, BindingIsSaved
  <2>2. CallInv(p) /\ at[p] = "bind" /\ binding' = result[p].rev
    BY <1>1, <2>1 DEF IInv, Saves
  <2>3. binding' \in Faithful /\ binding \in Faithful /\ binding' # None
    BY <1>1, <2>2 DEF CallInv, IInv, StoreInv
  <2>4. binding.head <= binding'.head
    BY <1>1, <2>2 DEF CallInv
  <2>5. binding.head \in Nat /\ binding'.head \in Nat
    BY <2>3 DEF Faithful
  <2>6. QED
    BY <2>3, <2>4, <2>5
<1>2. IInv /\ [Next]_vars =>
        [binding # None => binding' # None /\ binding'.head >= binding.head]_binding
  BY <1>1
<1>3. QED
  BY <1>2, Invariant, PTL DEF Spec, BindingAdvances

\* A page without the marker is bound by a resolution only (wiki.go:220).
THEOREM StrangersAreLeftAlone == Spec => StrangersStayUnbound
<1>1. ASSUME IInv, [Next]_vars, binding' # binding, binding' # None, ~Marked(binding'.text)
      PROVE  \E p \in Proc : at[p] = "bind" /\ op[p] \in Resolutions
  <2>1. PICK p \in Proc : Saves(p)
    BY <1>1, BindingIsSaved
  <2>2. CallInv(p) /\ at[p] = "bind" /\ binding' = result[p].rev
    BY <1>1, <2>1 DEF IInv, Saves
  <2>3. op[p] \in Resolutions
    BY <1>1, <2>2 DEF CallInv
  <2>4. QED
    BY <2>2, <2>3
<1>2. IInv /\ [Next]_vars =>
        [binding' # None /\ ~Marked(binding'.text)
           => \E p \in Proc : at[p] = "bind" /\ op[p] \in Resolutions]_binding
  BY <1>1
<1>3. QED
  BY <1>2, Invariant, PTL DEF Spec, StrangersStayUnbound

-----------------------------------------------------------------------------
(* The promise of MirrorObligation: the journal *)

\* The session is closed before the journal owes a mirror, and the commands
\* that are about to owe one, or to go on with it, follow that order.
SagaInv ==
  /\ view.storage # None => view.closed # None
  /\ \A p \in Proc :
       /\ cmd[p] = "intent" => view.closed # None
       /\ cmd[p] \in {"unready", "shutdown"} => view.storage # None

\* A storage event leaves the diary that was closed as it is.
LEMMA StorageEvents ==
  ASSUME Shapes, NEW c, c # None,
         \/ Journal("storage.sync.requested", c)
         \/ Journal("storage.sync.pending", c)
         \/ Journal("storage.sync.conflict", c)
         \/ Journal("storage.prerequisite.missing", c)
         \/ Journal("storage.sync.succeeded", c)
         \/ Journal("storage.sync.resolved", c)
  PROVE  view'.closed = view.closed /\ view'.storage # None
<1>1. view \in Views
  BY DEF Shapes, CommandShapes
<1>2. view' \in {[view EXCEPT !.storage = c, !.settled = TRUE],
               [view EXCEPT !.storage = c, !.settled = FALSE]}
  BY DEF Journal, Observe
<1>3. QED
  BY <1>1, <1>2 DEF Views

\* So does a result.
LEMMA ResultEvents ==
  ASSUME Shapes, NEW r \in Results,
         JournalResult(r) \/ Journal("storage.sync.resolved", Carried(r))
  PROVE  view'.closed = view.closed /\ view'.storage # None
<1>1. PICK c : c = Carried(r)
  OBVIOUS
<1>2. c # None
  <2>1. c \in Obligations
    BY <1>1 DEF Carried, Results, Obligations
  <2>2. QED
    BY <2>1, RevisionAssumption DEF Obligations
<1>3. \/ Journal("storage.sync.pending", c)
      \/ Journal("storage.sync.conflict", c)
      \/ Journal("storage.prerequisite.missing", c)
      \/ Journal("storage.sync.succeeded", c)
      \/ Journal("storage.sync.resolved", c)
  BY <1>1 DEF JournalResult, StorageEventType
<1>4. QED
  BY <1>2, <1>3, StorageEvents

\* What a command does to the journal: nothing, the diary, or an event about
\* the storage of a session that is closed; and what it does next follows.
LEMMA SagaSteps ==
  ASSUME IInv, SagaInv, NEW p \in Proc, at[p] # "idle" => view.storage # None,
         CommandStep(p) \/ Begin(p)
  PROVE  /\ SagaInv'
         /\ \/ view' = view
            \/ Publish(p)
            \/ view'.closed = view.closed /\ view.closed # None
<1> DEFINE Kind == \/ view' = view
                   \/ Publish(p)
                   \/ view'.closed = view.closed /\ view.closed # None
<1>a. /\ Shapes /\ cmd \in [Proc -> Commands] /\ result[p] \in Results /\ view \in Views
      /\ at[p] # "idle" => view.storage # None
  BY DEF IInv, Shapes, CommandShapes, CallShapes
<1>b. view.storage # None => view.closed # None
  BY DEF SagaInv
<1>g. ASSUME NEW step, Then(p, step), view.closed # None => view'.closed # None,
             view.storage # None => view'.storage # None,
             view'.storage # None => view'.closed # None,
             step = "intent" => view'.closed # None,
             step \in {"unready", "shutdown"} => view'.storage # None
      PROVE  SagaInv'
  <2>1. cmd'[p] = step /\ \A q \in Proc : q # p => cmd'[q] = cmd[q]
    BY <1>a, <1>g DEF Then
  <2>2. QED
    BY <1>g, <2>1 DEF SagaInv
<1>h. ASSUME NEW step, Then(p, step), view' = view, step \notin {"intent", "unready", "shutdown"}
      PROVE  SagaInv' /\ Kind
  BY <1>b, <1>g, <1>h
<1>i. ASSUME NEW step, Then(p, step), view'.closed = view.closed, view.closed # None,
             view'.storage # None
      PROVE  SagaInv' /\ Kind
  BY <1>g, <1>i
<1>j. None # Obligation("pending") /\ None # Obligation("prerequisite")
  <2>1. Obligation("pending") \in Obligations /\ Obligation("prerequisite") \in Obligations
    BY DEF Obligation, Obligations, States
  <2>2. QED
    BY <2>1, RevisionAssumption DEF Obligations
<1>1. CASE FindDiary(p) \/ SaveDiary(p) \/ RenameDiary(p) \/ Crash(p)
  <2>1. view' = view /\ (Then(p, "save") \/ Then(p, "rename") \/ Then(p, "publish")
                         \/ Then(p, "idle"))
    BY <1>1 DEF FindDiary, SaveDiary, RenameDiary, Crash
  <2>2. QED
    BY <1>h, <2>1
<1>2. CASE Publish(p)
  <2>1. view' \in {view, [view EXCEPT !.closed = p]} /\ (view.closed = None => view' # view)
    BY <1>2, <1>a, ManagedAssumption DEF Publish, Journal, Observe, Views
  <2>2. view'.closed # None /\ view'.storage = view.storage
    BY <1>a, <2>1, ManagedAssumption DEF Views
  <2>3. QED
    BY <1>2, <1>b, <1>g, <2>2 DEF Publish
<1>3. CASE RequestStorage(p)
  <2>1. view.closed # None /\ (Then(p, "mirror") \/ Then(p, "unready"))
    BY <1>3 DEF RequestStorage, During, SagaInv
  <2>2. view'.closed = view.closed /\ view'.storage # None
    BY <1>3, <1>a, <1>j, StorageEvents DEF RequestStorage
  <2>3. QED
    BY <1>i, <2>1, <2>2
<1>4. CASE PrerequisiteMissing(p)
  <2>1. view.closed # None /\ Then(p, "idle")
    BY <1>4, <1>b DEF PrerequisiteMissing, During, SagaInv
  <2>2. view'.closed = view.closed /\ view'.storage # None
    BY <1>4, <1>a, <1>j, StorageEvents DEF PrerequisiteMissing
  <2>3. QED
    BY <1>i, <2>1, <2>2
<1>5. CASE CloseOutcome(p) \/ RetryOutcome(p) \/ ResolveOutcome(p)
  <2>1. at[p] = "done" /\ (Then(p, "idle") \/ Then(p, "shutdown"))
    BY <1>5 DEF CloseOutcome, RetryOutcome, ResolveOutcome, Done
  <2>2. view.storage # None /\ view.closed # None
    BY <1>a, <1>b, <2>1
  <2>3. CASE view' = view
    BY <1>i, <2>1, <2>2, <2>3
  <2>4. CASE JournalResult(result[p]) \/ Journal("storage.sync.resolved", Carried(result[p]))
    <3>1. view'.closed = view.closed /\ view'.storage # None
      BY <1>a, <2>4, ResultEvents
    <3>2. QED
      BY <1>i, <2>1, <2>2, <3>1
  <2>5. QED
    BY <1>5, <2>3, <2>4 DEF CloseOutcome, RetryOutcome, ResolveOutcome
<1>6. CASE Shutdown(p)
  <2>1. view.storage # None /\ view.closed # None /\ Then(p, "idle")
    BY <1>6, <1>b DEF Shutdown, During, SagaInv
  <2>2. CASE view' = view
    BY <1>i, <2>1, <2>2
  <2>3. CASE Journal("storage.sync.pending", Obligation("pending"))
    <3>1. view'.closed = view.closed /\ view'.storage # None
      BY <1>a, <1>j, <2>3, StorageEvents
    <3>2. QED
      BY <1>i, <2>1, <3>1
  <2>4. QED
    BY <1>6, <2>2, <2>3 DEF Shutdown
<1>7. CASE Retry(p) \/ \E choice \in Resolutions : Decide(p, choice)
  <2>1. view' = view /\ (Then(p, "retry") \/ Then(p, "resolve"))
    BY <1>7 DEF Retry, Decide
  <2>2. QED
    BY <1>h, <2>1
<1>8. QED
  BY <1>1, <1>2, <1>3, <1>4, <1>5, <1>6, <1>7 DEF CommandStep, Begin

-----------------------------------------------------------------------------
(* The promise of MirrorObligation: the steps of a call *)

\* A call belongs to an obligation; what it binds was pushed for the diary, or
\* is kept; and when it reports success the mirror is bound.
DeliverInv(p) ==
  /\ at[p] # "idle" => view.storage # None
  /\ at[p] = "bind" => Made # {} \/ snapshots # {}
  /\ at[p] = "snapshot" => result[p].state = "conflict"
  /\ at[p] \in {"release", "done"} /\ result[p].state = "mirrored" => binding # None

\* Nobody but a process says what a process says.
PageInv == \A n \in 1 .. Tip : commits[n].text \in Proc => Made # {}

PromiseInv ==
  /\ SagaInv
  /\ \A p \in Proc : DeliverInv(p)
  /\ view.settled => binding # None
  /\ PageInv

\* What has been pushed stays pushed.
LEMMA MadeStays ==
  ASSUME Shapes, NEW text \in Pages, NEW by \in Proc \cup {None}, PushTo(text, by)
  PROVE  /\ Made' = IF by # None THEN {"page"} ELSE Made
         /\ Made \subseteq Made'
         /\ PageInv /\ (text \in Proc => Made' # {}) => PageInv'
<1>1. /\ commits' \in Seq([text : Pages, by : Proc \cup {None}])
      /\ Tip \in Nat /\ Tip' = Tip + 1 /\ \A n \in 1 .. Tip : commits'[n] = commits[n]
      /\ commits'[Tip + 1] = [text |-> text, by |-> by]
  BY BranchGrows
<1>2. DOMAIN commits = 1 .. Tip /\ DOMAIN commits' = 1 .. Tip'
  BY <1>1, LenProperties DEF Shapes, RemoteShapes, Tip
<1>3. commits'[Tip + 1].text = text /\ commits'[Tip + 1].by = by
  BY <1>1
<1>4. 1 .. Tip' = (1 .. Tip) \cup {Tip + 1}
  BY <1>1
<1>5. (\E n \in DOMAIN commits' : commits'[n].by # None)
        <=> (by # None \/ \E n \in DOMAIN commits : commits[n].by # None)
  BY <1>1, <1>2, <1>3, <1>4
<1>6. Made' = (IF by # None THEN {"page"} ELSE Made) /\ Made \subseteq Made'
  BY <1>5 DEF Made
<1>7. ASSUME PageInv, text \in Proc => Made' # {} PROVE PageInv'
  <2>1. ASSUME NEW n \in 1 .. Tip', commits'[n].text \in Proc PROVE Made' # {}
    <3>1. CASE n = Tip + 1
      BY <1>3, <1>7, <2>1, <3>1
    <3>2. CASE n \in 1 .. Tip
      BY <1>1, <1>6, <1>7, <2>1, <3>2 DEF PageInv
    <3>3. QED
      BY <1>4, <3>1, <3>2
  <2>2. QED
    BY <2>1 DEF PageInv
<1>8. QED
  BY <1>6, <1>7

\* The end of an operation, for the process and for the others.
LEMMA EndedMoves ==
  ASSUME Shapes, NEW p \in Proc, NEW s, NEW r, NEW u, Ended(p, s, r, u)
  PROVE  /\ at'[p] = IF s = "mirrored" THEN "bind" ELSE IF s = "conflict" THEN "snapshot" ELSE "release"
         /\ result'[p].state = s
         /\ \A q \in Proc : q # p => result'[q] = result[q] /\ at'[q] = at[q]
  BY DEF Ended, Shapes, CallShapes

\* Nothing is pushed or saved; success is reported of what was pushed or kept.
Rests(p) ==
  /\ UNCHANGED <<commits, binding, snapshots>>
  /\ at'[p] = "bind" => Made # {} \/ snapshots # {}
  /\ at'[p] = "snapshot" => result'[p].state = "conflict"
  /\ at'[p] \in {"release", "done"} /\ result'[p].state = "mirrored" =>
       at[p] = "release" /\ result' = result

\* The diary is pushed.
Pushes(p) ==
  /\ PushTo(local[p], p) /\ UNCHANGED <<binding, snapshots>>
  /\ at'[p] \in {"bind", "release"}
  /\ at'[p] = "release" => result'[p].state # "mirrored"

\* The evidence is kept, whether or not that is seen.
Keeps(p) ==
  /\ at[p] = "snapshot" /\ at'[p] \in {"release", "bind"}
  /\ snapshots' = snapshots \cup {result[p].rev} /\ UNCHANGED <<commits, binding>>
  /\ at'[p] = "release" => result'[p].state # "mirrored"

\* The binding is written, whether or not that is seen.
Binds(p) == Saves(p) /\ at'[p] = "release" /\ UNCHANGED <<commits, snapshots>>

\* An operation that ends without a push.
LEMMA EndingRests ==
  ASSUME Shapes, NEW p \in Proc, NEW s, NEW r, NEW u, Ended(p, s, r, u),
         UNCHANGED <<commits, binding, snapshots>>,
         s = "mirrored" => Made # {} \/ snapshots # {}
  PROVE  Rests(p) /\ \A q \in Proc : q # p => result'[q] = result[q] /\ at'[q] = at[q]
<1>1. /\ at'[p] = IF s = "mirrored" THEN "bind" ELSE IF s = "conflict" THEN "snapshot" ELSE "release"
      /\ result'[p].state = s
      /\ \A q \in Proc : q # p => result'[q] = result[q] /\ at'[q] = at[q]
  BY EndedMoves
<1>2. at'[p] \in {"release", "done"} => s # "mirrored"
  BY <1>1
<1>3. QED
  BY <1>1, <1>2 DEF Rests

\* A step of a call without an effect.
LEMMA RestingSteps ==
  ASSUME IInv, NEW p \in Proc, DeliverInv(p), PageInv,
         \/ Acquire(p) \/ Clone(p) \/ CloneEmpty(p) \/ PushRejected(p) \/ Refresh(p)
         \/ RefreshFails(p) \/ GitFails(p)
         \/ UNCHANGED commits /\ (Contended(p) \/ AcquireFails(p) \/ Release(p))
  PROVE  /\ at[p] # "idle" /\ Rests(p)
         /\ \A q \in Proc : q # p => result'[q] = result[q] /\ at'[q] = at[q]
<1> DEFINE Rest == Rests(p) /\ \A q \in Proc : q # p => result'[q] = result[q] /\ at'[q] = at[q]
<1>a. Shapes /\ CallInv(p) /\ at \in [Proc -> Steps] /\ result \in [Proc -> Results]
  BY DEF IInv, Shapes, CallShapes
<1>b. at[p] # "idle" /\ UNCHANGED <<commits, binding, snapshots>>
  BY DEF Acquire, TakeLock, Clone, CloneEmpty, PushRejected, Refresh, RefreshFails, GitFails,
         Contended, AcquireFails, Release, store, evidence
<1>1. CASE Acquire(p)
  BY <1>1, <1>a, <1>b DEF Acquire, TakeLock, Goto, Rests
<1>2. CASE PushRejected(p)
  BY <1>2, <1>a, <1>b DEF PushRejected, Goto, Rests
<1>3. CASE Release(p)
  BY <1>3, <1>a, <1>b DEF Release, Goto, Rests
<1>4. CASE AcquireFails(p)
  <2>1. at[p] = "acquire" /\ result' = result /\ at' = [at EXCEPT ![p] = "done"]
    BY <1>4 DEF AcquireFails, Goto
  <2>2. result[p].state # "mirrored"
    BY <1>a, <2>1 DEF CallInv, NoResult
  <2>3. QED
    BY <1>a, <1>b, <2>1, <2>2 DEF Rests
<1>5. CASE Contended(p)
  <2>1. at' = [at EXCEPT ![p] = "done"]
    BY <1>5 DEF Contended, Goto
  <2>2. PICK busy \in BOOLEAN : result' = [result EXCEPT ![p] = [NoResult EXCEPT !.busy = busy]]
    BY <1>5 DEF Contended
  <2>3. result'[p].state # "mirrored"
    BY <1>a, <2>2 DEF NoResult
  <2>4. QED
    BY <1>a, <1>b, <2>1, <2>2, <2>3 DEF Rests
<1>6. CASE CloneEmpty(p) \/ GitFails(p) \/ RefreshFails(p)
  <2>1. PICK s \in {"pending", "prerequisite", "conflict"}, r \in {None, got[p]} :
          Ended(p, s, r, FALSE)
    BY <1>6, EndEnds DEF CloneEmpty, GitFails, RefreshFails
  <2>2. QED
    BY <1>a, <1>b, <2>1, EndingRests
<1>7. CASE Refresh(p)
  <2>1. PICK u \in BOOLEAN : \E r : Ended(p, "conflict", r, u)
    <3>1. \E r : End(p, "conflict", r) \/ EndUnverified(p, "conflict", r)
      BY <1>7 DEF Refresh
    <3>2. QED
      BY <3>1, EndEnds, EndUnverifiedEnds
  <2>2. QED
    BY <1>a, <1>b, <2>1, EndingRests
<1>8. CASE Clone(p)
  <2>1. PICK r : r = Revise(Tip)
    OBVIOUS
  <2>2. r.text = commits[Tip].text /\ Tip \in 1 .. Tip /\ Compare(p, r)
    BY <1>8, <1>a, <2>1, TipIsHead DEF Clone, Heads
  <2>3. CASE Goto(p, "push") /\ UNCHANGED result
    BY <1>a, <1>b, <2>3 DEF Goto, Rests
  <2>4. CASE \E s \in {"pending", "conflict"} : End(p, s, r) \/ EndUnverified(p, s, r)
    BY <1>a, <1>b, <2>4, EndEnds, EndUnverifiedEnds, EndingRests
  <2>5. CASE End(p, "mirrored", r) /\ (op[p] \in Resolutions \/ r.text = local[p])
    <3>1. CASE op[p] \in Resolutions
      <4>1. snapshots # {}
        BY <1>a, <3>1 DEF CallInv
      <4>2. QED
        BY <1>a, <1>b, <2>5, <4>1, EndEnds, EndingRests
    <3>2. CASE r.text = local[p]
      <4>1. r.text \in Proc
        BY <1>a, <3>2 DEF Shapes, CallShapes
      <4>2. Made # {}
        BY <2>2, <4>1 DEF PageInv
      <4>3. QED
        BY <1>a, <1>b, <2>5, <4>2, EndEnds, EndingRests
    <3>3. QED
      BY <2>5, <3>1, <3>2
  <2>6. CASE op[p] \in Resolutions
    BY <2>2, <2>3, <2>4, <2>5, <2>6 DEF Compare, CompareDecision
  <2>7. CASE op[p] \notin Resolutions
    BY <2>2, <2>3, <2>4, <2>5, <2>7 DEF Compare, ComparePage
  <2>8. QED
    BY <2>6, <2>7
<1>9. QED
  BY <1>b, <1>1, <1>2, <1>3, <1>4, <1>5, <1>6, <1>7, <1>8

\* The steps of a call: nothing is written, the diary is pushed, or the binding
\* or a snapshot is written.
LEMMA CallKinds ==
  ASSUME IInv, NEW p \in Proc, DeliverInv(p), PageInv, CallStep(p), UNCHANGED commandVars
  PROVE  /\ at[p] # "idle"
         /\ \A q \in Proc : q # p => result'[q] = result[q] /\ at'[q] = at[q]
         /\ Rests(p) \/ Pushes(p) \/ Binds(p) \/ Keeps(p)
<1>a. Shapes /\ CallInv(p) /\ at \in [Proc -> Steps] /\ result \in [Proc -> Results]
  BY DEF IInv, Shapes, CallShapes
<1>1. CASE Push(p) \/ PushLost(p)
  <2>1. at[p] = "push" /\ PushTo(local[p], p) /\ UNCHANGED <<binding, snapshots>>
    BY <1>1 DEF Push, PushLost, store, evidence
  <2>2. PICK s \in {"mirrored", "pending", "prerequisite"} : \E r : Ended(p, s, r, FALSE)
    <3>1. \E s \in {"mirrored", "pending", "prerequisite"} : \E r : End(p, s, r)
      BY <1>1 DEF Push, PushLost
    <3>2. QED
      BY <3>1, EndEnds
  <2>3. /\ at'[p] = IF s = "mirrored" THEN "bind" ELSE "release"
        /\ result'[p].state = s
        /\ \A q \in Proc : q # p => result'[q] = result[q] /\ at'[q] = at[q]
    BY <1>a, <2>2, EndedMoves
  <2>4. QED
    BY <2>1, <2>3 DEF Pushes
<1>2. CASE UNCHANGED commits /\ SaveBinding(p)
  BY <1>2, <1>a DEF SaveBinding, Goto, Binds, Saves, evidence
<1>3. CASE UNCHANGED commits /\ WriteSnapshot(p)
  <2>1. at[p] = "snapshot" /\ result[p].state = "conflict" /\ result' = result
    BY <1>3 DEF WriteSnapshot, DeliverInv
  <2>2. QED
    BY <1>3, <1>a, <2>1 DEF WriteSnapshot, Keep, Goto, Keeps
<1>4. CASE UNCHANGED commits /\ KeepFails(p)
  <2>1. PICK s \in {"pending"}, r \in {result[p].rev} :
          Ended(p, s, r, FALSE) /\ at[p] \in {"snapshot", "bind"}
    BY <1>4, EndEnds DEF KeepFails
  <2>2. /\ at'[p] = "release" /\ result'[p].state = "pending"
        /\ \A q \in Proc : q # p => result'[q] = result[q] /\ at'[q] = at[q]
    BY <1>a, <2>1, EndedMoves
  <2>3. CASE UNCHANGED <<binding, snapshots>>
    BY <1>4, <2>1, <2>2, <2>3 DEF Rests
  <2>4. CASE at[p] = "snapshot" /\ Keep(result[p]) /\ UNCHANGED binding
    BY <1>4, <2>2, <2>4 DEF Keep, Keeps
  <2>5. CASE Saves(p) /\ UNCHANGED snapshots
    BY <1>4, <2>2, <2>5 DEF Binds, Saves
  <2>6. QED
    BY <1>4, <2>1, <2>2, <2>3, <2>4, <2>5 DEF KeepFails, Saves, evidence
<1>5. QED
  BY <1>1, <1>2, <1>3, <1>4, RestingSteps DEF CallStep, ManagedStep

\* If the journal is left alone, so are the obligation and its grounds.
LEMMA StageStays ==
  ASSUME view' = view PROVE Stage' = Stage /\ Grounds' = Grounds
  BY DEF Stage, Grounds, Listed

\* What was promised of a process that does not move stays promised.
LEMMA OthersDeliver ==
  ASSUME NEW q \in Proc, DeliverInv(q), at'[q] = at[q], result'[q] = result[q],
         Made # {} => Made' # {}, snapshots \subseteq snapshots',
         binding # None => binding' # None, view.storage # None => view'.storage # None
  PROVE  DeliverInv(q)'
  BY DEF DeliverInv

\* A step of a call is a step of the promise, or none, and keeps what it rests on.
LEMMA CallsPromise ==
  ASSUME IInv, PromiseInv, NEW p \in Proc, CallStep(p), UNCHANGED commandVars
  PROVE  PromiseInv' /\ [Promise!Next]_(Promise!vars)
<1>a. /\ Shapes /\ CallInv(p) /\ DeliverInv(p) /\ PageInv /\ SagaInv
      /\ UNCHANGED <<view, cmd, diary>>
  BY DEF IInv, PromiseInv, commandVars
<1>b. /\ at[p] # "idle"
      /\ \A q \in Proc : q # p => result'[q] = result[q] /\ at'[q] = at[q]
      /\ Rests(p) \/ Pushes(p) \/ Binds(p) \/ Keeps(p)
  BY <1>a, CallKinds
<1>c. /\ view.storage # None /\ Stage # "none" /\ Stage' = Stage /\ Grounds' = Grounds
  BY <1>a, <1>b, StageStays DEF DeliverInv, Stage
<1>g. ASSUME Made # {} => Made' # {}, snapshots \subseteq snapshots',
             binding # None => binding' # None, DeliverInv(p)', PageInv'
      PROVE  PromiseInv'
  <2>1. \A q \in Proc : DeliverInv(q)'
    BY <1>a, <1>b, <1>g, OthersDeliver DEF PromiseInv
  <2>2. SagaInv' /\ (view'.settled => binding' # None)
    BY <1>a, <1>g DEF PromiseInv, SagaInv
  <2>3. QED
    BY <1>g, <2>1, <2>2 DEF PromiseInv
<1>1. CASE Rests(p)
  <2>1. UNCHANGED <<commits, binding, snapshots, Made, Bound>>
    BY <1>1 DEF Rests, Made, Bound
  <2>2. DeliverInv(p)'
    BY <1>1, <1>a, <1>c, <2>1 DEF Rests, DeliverInv
  <2>3. PageInv'
    BY <1>a, <2>1 DEF PageInv, Tip
  <2>4. PromiseInv'
    BY <1>g, <2>1, <2>2, <2>3
  <2>5. QED
    BY <1>a, <1>c, <2>1, <2>4 DEF Promise!vars
<1>2. CASE Pushes(p)
  <2>1. PushTo(local[p], p) /\ UNCHANGED <<binding, snapshots>> /\ local[p] \in Pages /\ p # None
    BY <1>2, <1>a, ManagedAssumption DEF Pushes, Shapes, CallShapes, Pages
  <2>2. Made' = {"page"} /\ Bound' = Bound /\ PageInv'
    BY <1>a, <2>1, MadeStays DEF Bound
  <2>3. DeliverInv(p)'
    BY <1>2, <1>a, <1>c, <2>2 DEF Pushes, DeliverInv
  <2>4. PromiseInv'
    BY <1>g, <2>1, <2>2, <2>3
  <2>5. Made' = Made \cup {"page"}
    BY <2>2 DEF Made
  <2>6. Promise!Affect
    BY <1>a, <1>c, <2>1, <2>2, <2>5 DEF Promise!Affect, Promise!Obliged
  <2>7. QED
    BY <2>4, <2>6 DEF Promise!Next
<1>3. CASE Binds(p)
  <2>1. /\ binding' # None /\ snapshots' = snapshots /\ Made' = Made
        /\ at[p] = "bind" /\ at'[p] = "release" /\ commits' = commits
    BY <1>3, <1>a DEF Binds, Saves, CallInv, Made
  <2>2. DeliverInv(p)' /\ PageInv'
    BY <1>3, <1>a, <1>c, <2>1 DEF DeliverInv, PageInv, Tip
  <2>3. PromiseInv'
    BY <1>g, <2>1, <2>2
  <2>4. Bound \subseteq {"page"} /\ Bound' = {"page"}
    BY <2>1 DEF Bound
  <2>5. "page" \in Made \/ snapshots # {}
    BY <1>a, <2>1 DEF DeliverInv, Made
  <2>6. Promise!Bind
    BY <1>a, <1>c, <2>1, <2>4, <2>5 DEF Promise!Bind, Promise!Obliged
  <2>7. QED
    BY <2>3, <2>6 DEF Promise!Next
<1>4. CASE Keeps(p)
  <2>1. /\ binding' = binding /\ snapshots' = snapshots \cup {result[p].rev} /\ Made' = Made
        /\ at[p] = "snapshot" /\ at'[p] \in {"release", "bind"} /\ commits' = commits
        /\ Bound' = Bound
    BY <1>4, <1>a DEF Keeps, Made, Bound
  <2>2. DeliverInv(p)' /\ PageInv'
    BY <1>4, <1>a, <1>c, <2>1 DEF Keeps, DeliverInv, PageInv, Tip
  <2>3. PromiseInv'
    BY <1>g, <2>1, <2>2
  <2>4. Promise!Keep
    BY <1>a, <1>c, <2>1 DEF Promise!Keep, Promise!Obliged
  <2>5. QED
    BY <2>3, <2>4 DEF Promise!Next
<1>5. QED
  BY <1>b, <1>1, <1>2, <1>3, <1>4

-----------------------------------------------------------------------------
(* The promise of MirrorObligation: the commands and the whole *)

\* What a command journals is a step of the promise: the diary, an obligation
\* of a session that is closed, or the outcome of a call, with what it rests on.
LEMMA JournalsPromise ==
  ASSUME IInv, SagaInv, NEW p \in Proc, DeliverInv(p), CommandStep(p) \/ Begin(p),
         UNCHANGED <<Made, Bound, snapshots>>
  PROVE  [Promise!Next]_(Promise!vars)
<1>a. Shapes /\ CallInv(p) /\ view \in Views /\ result[p] \in Results
  BY DEF IInv, Shapes, CommandShapes, CallShapes
<1>b. Journals(p) /\ view' \in Views
  BY <1>a, CommandKinds DEF CommandShapes
<1>c. view' = view \/ Publish(p) \/ (view'.closed = view.closed /\ view.closed # None)
  BY SagaSteps DEF DeliverInv
<1>1. CASE view' = view
  BY <1>1, StageStays DEF Promise!vars
<1>2. CASE Publish(p)
  <2>1. view' = view \/ (view.closed = None /\ view' = [view EXCEPT !.closed = p])
    BY <1>2 DEF Publish, Journal, Observe
  <2>2. CASE view.closed = None /\ view' = [view EXCEPT !.closed = p]
    <3>1. view'.closed # None /\ view'.storage = view.storage /\ view'.settled = view.settled
      BY <1>a, <2>2, ManagedAssumption DEF Views
    <3>2. Stage' = Stage /\ Grounds' = Grounds
      BY <3>1 DEF Stage, Grounds, Listed
    <3>3. QED
      BY <2>2, <3>1, <3>2 DEF Promise!Next, Promise!Record
  <2>3. QED
    BY <1>1, <2>1, <2>2
<1>3. ASSUME view'.closed = view.closed, view.closed # None PROVE [Promise!Next]_(Promise!vars)
  <2>1. CASE view'.storage = view.storage /\ view'.settled = view.settled
    <3>1. Stage' = Stage /\ Grounds' = Grounds
      BY <2>1 DEF Stage, Grounds, Listed
    <3>2. QED
      BY <1>3, <3>1 DEF Promise!vars
  <2>2. ASSUME view'.storage # None, ~view'.settled, view'.storage.state # "conflict"
        PROVE  Promise!Owe
    <3>1. Stage' = "due" /\ Grounds' = None
      BY <2>2 DEF Stage, Grounds, Listed
    <3>2. QED
      BY <1>3, <3>1 DEF Promise!Owe
  <2>3. CASE Intends
    BY <2>2, <2>3 DEF Intends, Promise!Next
  <2>4. CASE at[p] = "done" /\ Shows(result[p])
    <3>1. /\ view'.storage # None /\ view'.storage.state = result[p].state
          /\ view'.settled => result[p].state = "mirrored"
          /\ result[p].state = "conflict" => view'.storage.rev = result[p].rev
      BY <2>4 DEF Shows, Carried
    <3>2. Stage # "none" /\ (binding # None => Bound # {})
      BY <2>4 DEF DeliverInv, Stage, Bound
    <3>3. CASE view'.settled
      <4>1. binding # None
        BY <2>4, <3>1, <3>3 DEF DeliverInv
      <4>2. Stage' = "settled" /\ Grounds' = None
        BY <3>1, <3>3 DEF Stage, Grounds, Listed
      <4>3. QED
        BY <1>3, <3>2, <4>1, <4>2 DEF Promise!Next, Promise!Settle, Promise!Obliged
    <3>4. CASE ~view'.settled /\ result[p].state = "conflict"
      <4>1. /\ result[p].rev \in snapshots /\ result[p].rev \in Revision
            /\ binding # None \/ ~Marked(result[p].rev.text)
        BY <1>a, <2>4, <3>4 DEF CallInv, Shapes, RemoteShapes
      <4>2. Stage' = "disputed" /\ Grounds' = result[p].rev
        BY <3>1, <3>4 DEF Stage, Grounds, Listed
      <4>3. QED
        BY <1>3, <3>2, <4>1, <4>2 DEF Promise!Next, Promise!Dispute, Promise!Obliged
    <3>5. CASE ~view'.settled /\ result[p].state # "conflict"
      BY <2>2, <3>1, <3>5 DEF Promise!Next
    <3>6. QED
      BY <3>3, <3>4, <3>5
  <2>5. QED
    BY <1>b, <2>1, <2>3, <2>4 DEF Journals
<1>4. QED
  BY <1>c, <1>1, <1>2, <1>3

\* A command keeps what the promise rests on.
LEMMA CommandsDeliver ==
  ASSUME IInv, PromiseInv, NEW p \in Proc, CommandStep(p) \/ Begin(p), UNCHANGED commits
  PROVE  PromiseInv' /\ [Promise!Next]_(Promise!vars)
<1>a. /\ Shapes /\ CallInv(p) /\ DeliverInv(p) /\ PageInv /\ SagaInv
      /\ at \in [Proc -> Steps] /\ result \in [Proc -> Results]
  BY DEF IInv, PromiseInv, Shapes, CallShapes
<1>b. (Idles \/ Calls(p) \/ Returns(p) \/ Die(p)) /\ Journals(p)
  BY <1>a, CommandKinds
<1>1. UNCHANGED <<binding, snapshots>>
  BY <1>b DEF Idles, Calls, Call, Returns, Die, store, evidence
<1>2. UNCHANGED <<Made, Bound>> /\ PageInv'
  BY <1>1, <1>a DEF Made, Bound, PageInv, Tip
<1>3. SagaInv'
  BY <1>a, SagaSteps DEF DeliverInv
<1>4. view.storage # None => view'.storage # None
  BY <1>b DEF Journals, Intends, Shows
<1>5. view'.settled => binding # None
  BY <1>a, <1>b DEF Journals, Intends, Shows, PromiseInv, DeliverInv
<1>6. \A q \in Proc : q # p => at'[q] = at[q] /\ result'[q] = result[q]
  BY <1>a, <1>b DEF Idles, Calls, Call, Goto, Returns, Return, Die
<1>7. DeliverInv(p)'
  <2>1. CASE Idles
    BY <1>1, <1>2, <1>4, <1>a, <2>1 DEF Idles, DeliverInv
  <2>2. CASE Calls(p)
    <3>1. at'[p] = "acquire" /\ view'.storage # None
      BY <1>a, <2>2 DEF Calls, Call, Goto
    <3>2. QED
      BY <3>1 DEF DeliverInv
  <2>3. CASE Returns(p) \/ Die(p)
    <3>1. at'[p] = "idle"
      BY <1>a, <2>3 DEF Returns, Die, Return
    <3>2. QED
      BY <3>1 DEF DeliverInv
  <2>4. QED
    BY <1>b, <2>1, <2>2, <2>3
<1>8. \A q \in Proc : DeliverInv(q)'
  BY <1>1, <1>2, <1>4, <1>6, <1>7, OthersDeliver DEF PromiseInv
<1>9. PromiseInv'
  BY <1>1, <1>2, <1>3, <1>5, <1>8 DEF PromiseInv
<1>10. QED
  BY <1>1, <1>2, <1>9, <1>a, JournalsPromise

\* Every step of the system is a step of the promise, and keeps what it rests on.
LEMMA StepPromises ==
  ASSUME IInv, PromiseInv, [Next]_vars PROVE PromiseInv' /\ [Promise!Next]_(Promise!vars)
<1>a. Shapes /\ PageInv /\ SagaInv
  BY DEF IInv, PromiseInv
<1>1. ASSUME UNCHANGED <<view, cmd, at, result, binding, snapshots, Made>>, PageInv'
      PROVE  PromiseInv' /\ [Promise!Next]_(Promise!vars)
  <2>1. Bound' = Bound /\ Stage' = Stage /\ Grounds' = Grounds
    BY <1>1, StageStays DEF Bound
  <2>2. \A q \in Proc : DeliverInv(q)'
    BY <1>1, OthersDeliver DEF PromiseInv
  <2>3. SagaInv' /\ (view'.settled => binding' # None)
    BY <1>1, <1>a DEF SagaInv, PromiseInv
  <2>4. QED
    BY <1>1, <2>1, <2>2, <2>3 DEF PromiseInv, Promise!vars
<1>2. ASSUME NEW p \in Proc, Continue(p) \/ (Begin(p) /\ UNCHANGED commits)
      PROVE  PromiseInv' /\ [Promise!Next]_(Promise!vars)
  BY <1>2, CallsPromise, CommandsDeliver DEF Continue
<1>3. CASE (FirstPage \/ Edit) /\ UNCHANGED commandVars
  <2>1. UNCHANGED <<view, cmd, at, result, binding, snapshots>>
    BY <1>3 DEF FirstPage, Edit, store, evidence, managedVars, commandVars
  <2>2. PICK text \in Edits \cup {None, commits[Tip].text} :
          PushTo(text, None) /\ (commits = <<>> => text = None)
    BY <1>3 DEF FirstPage, Edit
  <2>3. text \in Pages /\ (text \in Proc => Made # {})
    <3>1. CASE commits = <<>>
      BY <2>2, <3>1, ManagedAssumption DEF Pages
    <3>2. CASE commits # <<>>
      <4>1. Revise(Tip) \in Heads /\ Revise(Tip).text = commits[Tip].text
        BY <1>a, <3>2, TipIsHead
      <4>2. commits[Tip].text \in Pages /\ Tip \in 1 .. Tip
        BY <4>1 DEF Heads, Revision, Revise
      <4>3. QED
        BY <1>a, <2>2, <4>2, WikiAssumption, ManagedAssumption DEF PageInv, Pages
    <3>3. QED
      BY <3>1, <3>2
  <2>4. Made' = Made /\ PageInv'
    BY <1>a, <2>2, <2>3, MadeStays
  <2>5. QED
    BY <1>1, <2>1, <2>4
<1>4. CASE ClearLock /\ UNCHANGED <<commits, commandVars>>
  BY <1>1, <1>4, <1>a DEF ClearLock, evidence, commandVars, Made, PageInv, Tip
<1>5. CASE UNCHANGED vars
  BY <1>1, <1>5, <1>a DEF vars, mirrorVars, managedVars, commandVars, Made, PageInv, Tip
<1>6. QED
  BY <1>2, <1>3, <1>4, <1>5 DEF Next

\* The storage side of a session over a GitHub Wiki keeps the promise of
\* MirrorObligation (session.go:343, storage/recovery.go:363-403,
\* recovery.go:73-90).
THEOREM WikiKeepsThePromise == Spec => ImplementsObligation
<1>1. Init => PromiseInv /\ Promise!Init
  <2> SUFFICES ASSUME Init PROVE PromiseInv /\ Promise!Init
    OBVIOUS
  <2>1. /\ view.closed = None /\ view.storage = None /\ view.settled = FALSE
        /\ \A p \in Proc : cmd[p] = "idle" /\ at[p] = "idle"
        /\ binding = None /\ snapshots = {}
        /\ commits \in {<<>>, <<[text |-> None, by |-> None]>>}
    BY DEF Init, MirrorInit, ManagedInit, CommandInit, EmptyView
  <2>2. SagaInv /\ \A p \in Proc : DeliverInv(p)
    BY <2>1 DEF SagaInv, DeliverInv
  <2>3. \A n \in DOMAIN commits : commits[n].text = None /\ commits[n].by = None
    BY <2>1
  <2>4. Made = {} /\ PageInv
    BY <2>1, <2>3, ManagedAssumption, LenProperties DEF Made, PageInv, Tip
  <2>5. Stage = "none" /\ Bound = {}
    BY <2>1 DEF Stage, Bound, Listed
  <2>6. Grounds = None
    BY <2>5 DEF Grounds
  <2>7. QED
    BY <2>1, <2>2, <2>4, <2>5, <2>6 DEF PromiseInv, Promise!Init
<1>2. IInv /\ PromiseInv /\ [Next]_vars => PromiseInv' /\ [Promise!Next]_(Promise!vars)
  BY StepPromises
<1>3. QED
  BY <1>1, <1>2, Invariant, PTL DEF Spec, ImplementsObligation, Promise!Spec

\* The journal can be believed (InspectRecovery, core/recovery.go:94-101): what
\* it shows as settled is bound, what it shows as disputed has its evidence, and
\* nothing was done that it does not show.
THEOREM JournalIsHonest == Spec => []Promise!Honest
<1>1. Promise!Init => Promise!Honest
  BY DEF Promise!Init, Promise!Honest, Promise!Obliged
<1>2. Promise!Honest /\ [Promise!Next]_(Promise!vars) => Promise!Honest'
  <2> SUFFICES ASSUME Promise!Honest, [Promise!Next]_(Promise!vars) PROVE Promise!Honest'
    OBVIOUS
  <2> USE DEF Promise!Honest, Promise!Obliged
  <2>1. CASE Promise!Record \/ Promise!Owe \/ Promise!Settle
    BY <2>1 DEF Promise!Record, Promise!Owe, Promise!Settle
  <2>2. CASE Promise!Dispute
    BY <2>2 DEF Promise!Dispute
  <2>3. CASE Promise!Affect \/ Promise!Bind \/ Promise!Keep
    BY <2>3 DEF Promise!Affect, Promise!Bind, Promise!Keep
  <2>4. CASE UNCHANGED Promise!vars
    BY <2>4 DEF Promise!vars
  <2>5. QED
    BY <2>1, <2>2, <2>3, <2>4 DEF Promise!Next
<1>3. QED
  BY <1>1, <1>2, WikiKeepsThePromise, PTL DEF ImplementsObligation, Promise!Spec

-----------------------------------------------------------------------------
(* The lock is given back *)

\* A process has the lock only in the middle of a call: LockInv the other way
\* round.
Free == {"idle", "acquire", "done"}
HolderInv == \A p \in Proc : lock = p => at[p] \notin Free

\* A call that has the lock keeps it until it releases it.
LEMMA CallHolds == ASSUME IInv, HolderInv, NEW p \in Proc, CallStep(p) PROVE HolderInv'
<1> DEFINE Goes == \E s \in Steps \ Free : at' = [at EXCEPT ![p] = s]
<1>a. at \in [Proc -> Steps]
  BY DEF IInv, Shapes, CallShapes
<1>1. ASSUME NEW s, NEW r, End(p, s, r) \/ EndUnverified(p, s, r) PROVE Goes
  <2>1. at' = [at EXCEPT ![p] = IF s = "mirrored" THEN "bind"
                                ELSE IF s = "conflict" THEN "snapshot" ELSE "release"]
    BY <1>1, EndEnds, EndUnverifiedEnds DEF Ended
  <2>2. {"bind", "snapshot", "release"} \subseteq Steps \ Free
    BY DEF Steps, Free
  <2>3. QED
    BY <2>1, <2>2
<1>2. ASSUME NEW s \in {"clone", "push", "refresh", "bind", "release"}, Goto(p, s) PROVE Goes
  BY <1>2 DEF Goto, Steps, Free
<1>3. ASSUME Goes, lock' \in {lock, p} PROVE HolderInv'
  BY <1>a, <1>3 DEF HolderInv
<1>4. CASE Acquire(p)
  BY <1>2, <1>3, <1>4 DEF Acquire, TakeLock
<1>5. CASE Clone(p)
  <2>1. PICK r : Compare(p, r)
    BY <1>5 DEF Clone
  <2>2. Goto(p, "push") \/ \E s, x : End(p, s, x) \/ EndUnverified(p, s, x)
    BY <2>1 DEF Compare, CompareDecision, ComparePage
  <2>3. QED
    BY <1>1, <1>2, <1>3, <1>5, <2>2 DEF Clone, store, evidence
<1>6. CASE CloneEmpty(p) \/ Push(p) \/ PushLost(p) \/ PushRejected(p)
  <2>1. /\ lock' = lock
        /\ Goto(p, "refresh") \/ \E s, x : End(p, s, x)
    BY <1>6 DEF CloneEmpty, Push, PushLost, PushRejected, store, evidence
  <2>2. QED
    BY <1>1, <1>2, <1>3, <2>1
<1>7. CASE Refresh(p) \/ RefreshFails(p) \/ GitFails(p)
  <2>1. lock' = lock /\ \E s, x : End(p, s, x) \/ EndUnverified(p, s, x)
    BY <1>7 DEF Refresh, RefreshFails, GitFails, store, evidence
  <2>2. QED
    BY <1>1, <1>3, <2>1
<1>8. CASE WriteSnapshot(p) \/ SaveBinding(p) \/ KeepFails(p)
  <2>1. /\ lock' = lock
        /\ Goto(p, "release") \/ Goto(p, "bind") \/ \E s, x : End(p, s, x)
    BY <1>8 DEF WriteSnapshot, SaveBinding, KeepFails, store, evidence
  <2>2. QED
    BY <1>1, <1>2, <1>3, <2>1
<1>9. CASE Contended(p) \/ AcquireFails(p)
  <2>1. lock' = lock /\ lock # p /\ \A q \in Proc : q # p => at'[q] = at[q]
    BY <1>9, <1>a DEF Contended, AcquireFails, store, evidence, HolderInv, Free, Goto
  <2>2. QED
    BY <2>1 DEF HolderInv
<1>10. CASE Release(p)
  BY <1>10, ManagedAssumption DEF Release, HolderInv
<1>11. QED
  BY <1>4, <1>5, <1>6, <1>7, <1>8, <1>9, <1>10 DEF CallStep, ManagedStep

\* Every step keeps it: a process that dies in a call leaves an orphan.
LEMMA StepHolds == ASSUME IInv, HolderInv, [Next]_vars PROVE HolderInv'
<1>a. Shapes /\ at \in [Proc -> Steps]
  BY DEF IInv, Shapes, CallShapes
<1>1. ASSUME UNCHANGED <<lock, at>> PROVE HolderInv'
  BY <1>1 DEF HolderInv
<1>2. ASSUME NEW p \in Proc, CommandStep(p) \/ Begin(p) PROVE HolderInv'
  <2>1. Idles \/ Calls(p) \/ Returns(p) \/ Die(p)
    BY <1>2, <1>a, CommandKinds
  <2>2. CASE Idles
    BY <1>1, <2>2 DEF Idles, store, evidence
  <2>3. CASE Calls(p) \/ Returns(p)
    <3>1. at[p] \in Free /\ lock' = lock
      BY <2>3 DEF Calls, Call, Returns, store, evidence, Free
    <3>2. \A q \in Proc : q # p => at'[q] = at[q]
      BY <2>3, <1>a DEF Calls, Call, Goto, Returns, Return
    <3>3. QED
      BY <3>1, <3>2 DEF HolderInv
  <2>4. CASE Die(p)
    <3>1. lock' # p /\ (lock' \in Proc => lock' = lock)
      BY <2>4, ManagedAssumption DEF Die
    <3>2. \A q \in Proc : q # p => at'[q] = at[q]
      BY <2>4, <1>a DEF Die, Return
    <3>3. QED
      BY <3>1, <3>2 DEF HolderInv
  <2>5. QED
    BY <2>1, <2>2, <2>3, <2>4
<1>3. CASE Edit \/ FirstPage \/ UNCHANGED vars
  <2>1. CASE Edit
    BY <1>1, <2>1 DEF Edit, store, evidence
  <2>2. CASE UNCHANGED managedVars
    BY <1>1, <2>2 DEF managedVars
  <2>3. QED
    BY <1>3, <2>1, <2>2 DEF FirstPage, vars, mirrorVars
<1>4. CASE ClearLock
  BY <1>4, ManagedAssumption DEF ClearLock, HolderInv
<1>5. ASSUME NEW p \in Proc, Continue(p) \/ (Begin(p) /\ UNCHANGED commits) PROVE HolderInv'
  BY <1>2, <1>5, CallHolds DEF Continue
<1>6. QED
  BY <1>3, <1>4, <1>5 DEF Next

\* No way out of a call, a failed clone, a lost push or a refreshed conflict,
\* leaves the key locked by a process that lives: who has the lock is in the
\* middle of its call, and nobody else is (the deferred Release,
\* storage/recovery.go:382).
THEOREM KeysAreGivenBack ==
  Spec => [](\A p \in Proc : lock = p <=> at[p] \notin {"idle", "acquire", "done"})
<1>1. Init => HolderInv
  BY ManagedAssumption DEF Init, MirrorInit, ManagedInit, HolderInv
<1>2. IInv /\ HolderInv /\ [Next]_vars => HolderInv'
  BY StepHolds
<1>3. IInv /\ HolderInv => \A p \in Proc : lock = p <=> at[p] \notin {"idle", "acquire", "done"}
  BY DEF IInv, LockInv, HolderInv, Free
<1>4. QED
  BY <1>1, <1>2, <1>3, Invariant, PTL DEF Spec
=============================================================================
