--------------------------- MODULE SkillInvocations ---------------------------
(***************************************************************************)
(* Skill Invocations, from `skill prepare` to the Session Diary.            *)
(*                                                                         *)
(* SkillPreparer (core/skill_journal.go) journals a preparation around the *)
(* Skill Port: the request, the attempt, and the bundle or the failure, all *)
(* in the saga that the invocation owns. The runtime that is given the      *)
(* bundle uses it and declares a Skill Invocation Record in the artifact of *)
(* its session. Session close (core/session.go, core/skill_invocation.go)   *)
(* holds the record against the saga, keeps it in the Session Diary and     *)
(* links the saga to the diary.                                             *)
(*                                                                         *)
(* Preparations and closes are processes of their own; a preparation that   *)
(* names an invocation that is already there is a technical replay. The     *)
(* catalog may be synchronised in between, appends may fail and processes   *)
(* may end between any two steps.                                           *)
(*                                                                         *)
(* A package is its version (its hash), 0 stands for a catalog without a    *)
(* ready package of that name. A session declares one record. Its diary is  *)
(* known by its artifact, hence by the record. Of the arguments it matters  *)
(* how they are written and read: see Journaled and Normalized.             *)
(***************************************************************************)

EXTENDS Naturals, Sequences, FiniteSets

CONSTANTS
  Preparers, Closers, \* processes
  Invocations,        \* invocation identifiers
  Arguments,          \* some of "none", "text", "number"
  MaxVersion,         \* bound on the versions of the package
  MaxSyncs,           \* bound on the synchronisations of the catalog
  MaxFaults           \* bound on failed appends and crashes

ASSUME SkillAssumption ==
  /\ Preparers \cap Closers = {}
  /\ Arguments \subseteq {"none", "text", "number"}
  /\ {MaxVersion, MaxSyncs, MaxFaults} \subseteq Nat

VARIABLES
  index,     \* the version that the catalog's index names
  saga,      \* of each invocation: the records in its journal segment
  at,        \* the next step of each process
  request,   \* what a preparation was called with
  prepared,  \* what the port made of it
  known,     \* the preparer that a Catalog keeps: its index and its bundles
  delivered, \* the bundles that runtimes were given
  record,    \* the record in the artifact that a close was called with
  accepted,  \* the record as the close has reconciled it
  diaries,   \* the records in the memory store
  syncs, faults

prepareVars == <<request, prepared, known, delivered>>
closeVars == <<record, accepted, diaries>>
vars == <<index, saga, at, request, prepared, known, delivered, record, accepted,
          diaries, syncs, faults>>

Proc == Preparers \cup Closers
Versions == 1 .. MaxVersion
Outcomes == {"succeeded", "failed"}

Bundle(i, v, a) == [id |-> i, version |-> v, arguments |-> a]
Bundles == [id : Invocations, version : Versions, arguments : Arguments]
Records == [bundle : Bundles, outcome : Outcomes]

\* Records of a saga; an attempt or a failure is without a bundle, a link has
\* the diary it points back to.
Entry(type, b) == [type |-> type, about |-> b]
NoBundle == [id |-> "none"]
NoRecord == [bundle |-> NoBundle, outcome |-> "failed"]

\* Arguments that went through the journal are decoded into float64 numbers,
\* those of a record into json.Number.
Journaled(a) == IF a = "number" THEN "float64" ELSE a
Normalized(a) == IF a = "number" THEN "json.Number" ELSE a

Init ==
  /\ index \in 0 .. MaxVersion
  /\ saga = [i \in Invocations |-> <<>>]
  /\ at = [p \in Proc |-> "idle"]
  /\ request = [p \in Preparers |-> NoBundle]
  /\ prepared = [p \in Preparers |-> NoBundle]
  /\ known = [index |-> 0, bundles |-> {}]
  /\ delivered = {}
  /\ record = [c \in Closers |-> NoRecord]
  /\ accepted = [c \in Closers |-> "none"]
  /\ diaries = {}
  /\ syncs = 0 /\ faults = 0

Goto(p, step) == at' = [at EXCEPT ![p] = step]

\* The process is over, what it had in memory is gone.
PrepareOver(p) ==
  /\ Goto(p, "done")
  /\ request' = [request EXCEPT ![p] = NoBundle]
  /\ prepared' = [prepared EXCEPT ![p] = NoBundle]
CloseOver(c) ==
  /\ Goto(c, "done")
  /\ record' = [record EXCEPT ![c] = NoRecord]
  /\ accepted' = [accepted EXCEPT ![c] = "none"]

Journal(i, type, about) == saga' = [saga EXCEPT ![i] = Append(@, Entry(type, about))]
Fault == faults < MaxFaults /\ faults' = faults + 1

-----------------------------------------------------------------------------
(* The local evidence for an invocation *)

Has(i, type) == \E k \in DOMAIN saga[i] : saga[i][k].type = type

\* The last preparation gives the identity, any failed one the outcome.
Identity(i) ==
  LET last == CHOOSE k \in DOMAIN saga[i] :
                /\ saga[i][k].type = "skill.prepared"
                /\ \A l \in DOMAIN saga[i] : saga[i][l].type = "skill.prepared" => l <= k
  IN saga[i][last].about

\* Faulty variant: only the outcome is compared with the saga.
ContradictsOutcomeOnly(i, r) ==
  Has(i, "skill.prepare-failed") /\ r.outcome # "failed"

Contradicts(i, r) ==
  \/ /\ Has(i, "skill.prepared")
     /\ \/ Identity(i).version # r.bundle.version
        \/ Journaled(Identity(i).arguments) # Normalized(r.bundle.arguments)
  \/ Has(i, "skill.prepare-failed") /\ r.outcome # "failed"

\* "rejected", or the provenance of the record.
Verdict(i, r) ==
  CASE ~Has(i, "skill.prepared") /\ ~Has(i, "skill.prepare-failed") -> "runtime-declared"
    [] Contradicts(i, r) -> "rejected"
    [] OTHER -> "journal-verified"

-----------------------------------------------------------------------------
(* Faulty variants: what the properties are there to catch. *)

\* The port runs although the request could not be journaled.
RequestIgnored(p) ==
  /\ at[p] = "request"
  /\ Goto(p, "port")
  /\ UNCHANGED <<index, saga, prepareVars, closeVars, syncs, faults>>

\* The saga is linked before the diary is there.
ReconcileThenLink(c) ==
  /\ at[c] = "reconcile"
  /\ accepted' = [accepted EXCEPT ![c] = Verdict(record[c].bundle.id, record[c])]
  /\ Goto(c, IF accepted'[c] = "rejected" THEN "rejected" ELSE "link")
  /\ UNCHANGED <<index, saga, prepareVars, record, diaries, syncs, faults>>

\* Another bundle under a known identifier is made all the same.
ConflictsNever(b) == FALSE

\* A catalog without a ready package makes a bundle all the same.
PortPrepareUnready(p) ==
  /\ at[p] = "port"
  /\ Goto(p, "attempt")
  /\ prepared' = [prepared EXCEPT ![p] = Bundle(request[p].id, index, request[p].arguments)]
  /\ UNCHANGED <<index, saga, request, known, delivered, closeVars, syncs, faults>>

-----------------------------------------------------------------------------
(* skill prepare *)

\* A new invocation or, with an identifier that is there, a technical replay.
Begin(p) ==
  /\ at[p] = "idle"
  /\ \E i \in Invocations, a \in Arguments :
       request' = [request EXCEPT ![p] = [id |-> i, arguments |-> a]]
  /\ Goto(p, "request")
  /\ UNCHANGED <<index, saga, prepared, known, delivered, closeVars, syncs, faults>>

JournalRequest(p) ==
  /\ at[p] = "request"
  /\ Journal(request[p].id, "skill.prepare-requested", request[p])
  /\ Goto(p, "port")
  /\ UNCHANGED <<index, prepareVars, closeVars, syncs, faults>>

\* The catalog's preparer knows another bundle by that identifier.
Conflicts(b) == \E other \in known.bundles : other.id = b.id /\ other # b

\* Catalog.Prepare. A Catalog keeps its preparer, with the bundles it has made,
\* as long as its index stays the same; every CLI command has a Catalog of its
\* own.
PortPrepare(p) ==
  /\ at[p] = "port"
  /\ Goto(p, "attempt")
  /\ LET b == Bundle(request[p].id, index, request[p].arguments) IN
     \/ /\ prepared' = [prepared EXCEPT ![p] = IF index = 0 THEN NoBundle ELSE b]
        /\ UNCHANGED known
     \/ /\ known.index = index /\ index # 0
        /\ prepared' = [prepared EXCEPT ![p] = IF Conflicts(b) THEN NoBundle ELSE b]
        /\ known' = [known EXCEPT !.bundles = IF Conflicts(b) THEN @ ELSE @ \cup {b}]
     \/ /\ known.index # index
        /\ prepared' = [prepared EXCEPT ![p] = IF index = 0 THEN NoBundle ELSE b]
        /\ known' = [index |-> index, bundles |-> IF index = 0 THEN {} ELSE {b}]
  /\ UNCHANGED <<index, saga, request, delivered, closeVars, syncs, faults>>

JournalAttempt(p) ==
  /\ at[p] = "attempt"
  /\ Journal(request[p].id,
             IF prepared[p] = NoBundle THEN "attempt-failed" ELSE "attempt-succeeded",
             NoBundle)
  /\ Goto(p, "outcome")
  /\ UNCHANGED <<index, prepareVars, closeVars, syncs, faults>>

JournalPrepared(p) ==
  /\ at[p] = "outcome" /\ prepared[p] # NoBundle
  /\ Journal(request[p].id, "skill.prepared", prepared[p])
  /\ delivered' = delivered \cup {prepared[p]}
  /\ PrepareOver(p)
  /\ UNCHANGED <<index, known, closeVars, syncs, faults>>

JournalPrepareFailed(p) ==
  /\ at[p] = "outcome" /\ prepared[p] = NoBundle
  /\ Journal(request[p].id, "skill.prepare-failed", NoBundle)
  /\ PrepareOver(p)
  /\ UNCHANGED <<index, known, delivered, closeVars, syncs, faults>>

\* A failed append ends the preparation without a bundle, as a crash does.
PrepareEnds(p) ==
  /\ at[p] \in {"request", "port", "attempt", "outcome"}
  /\ Fault
  /\ PrepareOver(p)
  /\ UNCHANGED <<index, saga, known, delivered, closeVars, syncs>>

-----------------------------------------------------------------------------
(* session close *)

\* The runtime declares what it did with a bundle of its own, or something
\* else; another machine's journal may know more. A close that finds the diary
\* of its artifact returns it and does nothing.
Close(c) ==
  /\ at[c] = "idle"
  /\ \E r \in Records :
       /\ ~\E d \in diaries : d.record = r
       /\ record' = [record EXCEPT ![c] = r]
  /\ Goto(c, "reconcile")
  /\ UNCHANGED <<index, saga, prepareVars, accepted, diaries, syncs, faults>>

Reconcile(c) ==
  /\ at[c] = "reconcile"
  /\ accepted' = [accepted EXCEPT ![c] = Verdict(record[c].bundle.id, record[c])]
  /\ Goto(c, IF accepted'[c] = "rejected" THEN "rejected" ELSE "save")
  /\ UNCHANGED <<index, saga, prepareVars, record, diaries, syncs, faults>>

\* SaveDiary takes a diary that is there for its own, or renames its own into
\* place, over one that has come in between.
SaveDiary(c) ==
  /\ at[c] = "save"
  /\ Goto(c, IF \E d \in diaries : d.record = record[c] THEN "link" ELSE "rename")
  /\ UNCHANGED <<index, saga, prepareVars, closeVars, syncs, faults>>

RenameDiary(c) ==
  /\ at[c] = "rename"
  /\ diaries' = {d \in diaries : d.record # record[c]}
                  \cup {[record |-> record[c], provenance |-> accepted[c]]}
  /\ Goto(c, "link")
  /\ UNCHANGED <<index, saga, prepareVars, record, accepted, syncs, faults>>

\* After session.closed is journaled, the saga of the invocation is linked.
Link(c) ==
  /\ at[c] = "link"
  /\ Journal(record[c].bundle.id, "skill.invocation-linked", record[c])
  /\ CloseOver(c)
  /\ UNCHANGED <<index, prepareVars, diaries, syncs, faults>>

CloseEnds(c) ==
  /\ at[c] \in {"reconcile", "save", "rename", "link"}
  /\ Fault
  /\ CloseOver(c)
  /\ UNCHANGED <<index, saga, prepareVars, diaries, syncs>>

-----------------------------------------------------------------------------
\* A synchronisation publishes another index (SkillCatalog).
Sync ==
  /\ syncs < MaxSyncs /\ syncs' = syncs + 1
  /\ index' \in (0 .. MaxVersion) \ {index}
  /\ UNCHANGED <<saga, at, prepareVars, closeVars, faults>>

PrepareStep(p) ==
  \/ Begin(p) \/ JournalRequest(p) \/ PortPrepare(p) \/ JournalAttempt(p)
  \/ JournalPrepared(p) \/ JournalPrepareFailed(p) \/ PrepareEnds(p)

CloseStep(c) ==
  \/ Close(c) \/ Reconcile(c) \/ SaveDiary(c) \/ RenameDiary(c) \/ Link(c) \/ CloseEnds(c)

Next ==
  \/ \E p \in Preparers : PrepareStep(p)
  \/ \E c \in Closers : CloseStep(c)
  \/ Sync

Spec == Init /\ [][Next]_vars

-----------------------------------------------------------------------------
(* A saga has records of its own invocation only, a bundle was made of a
   version there is, and the memory store has one diary for an artifact. *)
TypeOK ==
  /\ index \in 0 .. MaxVersion
  /\ \A i \in Invocations : \A k \in DOMAIN saga[i] :
       saga[i][k].type = "skill.prepared" =>
         saga[i][k].about \in Bundles /\ saga[i][k].about.id = i
  /\ prepared \in [Preparers -> Bundles \cup {NoBundle}]
  /\ delivered \subseteq Bundles
  /\ \A d, e \in diaries : d.record = e.record => d = e
  /\ accepted \in [Closers -> {"none", "rejected", "runtime-declared", "journal-verified"}]

(* A bundle reaches a runtime only after the journal has the request, the
   attempt and the bundle itself, in that order: what a runtime may do with it
   can be explained whatever fails later, and replays that run beside it do not
   stand in for its own records. *)
DeliveredIsExplained ==
  \A b \in delivered : \E j, k, l \in DOMAIN saga[b.id] :
    /\ j < k /\ k < l
    /\ saga[b.id][j].type = "skill.prepare-requested"
    /\ saga[b.id][j].about.arguments = b.arguments
    /\ saga[b.id][k].type = "attempt-succeeded"
    /\ saga[b.id][l] = Entry("skill.prepared", b)

(* A record that the diary calls journal-verified agrees with a preparation in
   its saga, package and arguments, or is the record of a failure that the saga
   knows: divergent provenance is never silently accepted, whatever replays run
   while the session closes. *)
VerifiedHasEvidence ==
  \A d \in diaries : d.provenance = "journal-verified" =>
    LET b == d.record.bundle IN
    \/ \E k \in DOMAIN saga[b.id] : saga[b.id][k] = Entry("skill.prepared", b)
    \/ Has(b.id, "skill.prepare-failed") /\ d.record.outcome = "failed"

(* The link in a saga leads to a diary that is in the memory store and has the
   record of that very invocation. *)
LinksLeadToDiaries ==
  \A i \in Invocations : \A k \in DOMAIN saga[i] :
    saga[i][k].type = "skill.invocation-linked" =>
      \E d \in diaries : d.record = saga[i][k].about /\ d.record.bundle.id = i

(* One Catalog gives no two bundles the same invocation identifier while its
   index stays the same, however its callers interleave. *)
ReplaysReturnTheirBundle ==
  \A b, c \in known.bundles : b.id = c.id => b = c

(* A record whose fields agree with the bundle that the runtime was given, and
   that ended well, is not rejected for a contradiction. *)
FaithfulRecordsPass ==
  \A c \in Closers : at[c] = "rejected" => record[c].bundle \notin delivered
=============================================================================
