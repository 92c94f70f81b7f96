------------------------------ MODULE GraphSync ------------------------------
(***************************************************************************)
(* The graph side of session close and of `sync retry --graph`: the         *)
(* LocalGraphPort of core/graph.go, resolveCodeReferences of                *)
(* core/session.go and retryGraph of cmd/syntroph/main.go.                  *)
(*                                                                         *)
(* A close resolves the code references of its artifact in the active       *)
(* snapshot and publishes the resolution as the next active snapshot, in    *)
(* two steps: the snapshot's file, then the pointer. Then it saves and      *)
(* journals the diary, with the graph state that it came to. A retry does   *)
(* the same for a diary whose graph state is pending. Closes, retries and   *)
(* the tool that exports graphs from the code run side by side; reading     *)
(* and publishing may fail, and processes may end between any two steps.    *)
(*                                                                         *)
(* A snapshot is addressed by the hash of its content: here the content is  *)
(* its own address. A code reference is its name, its confidence and the    *)
(* snapshot that it was resolved in; a path, a symbol and a kind are one    *)
(* name. There is one repository. Every session is closed once.             *)
(***************************************************************************)

EXTENDS Naturals

CONSTANTS
  Sessions,    \* the sessions, and the processes that close them
  Retriers,    \* the processes that retry
  Commits,
  Names,       \* what code references name
  None,
  MaxExports,  \* bound on the graphs that are exported
  MaxRetries,  \* bound on retries
  MaxFaults    \* bound on failed reads and writes and on crashes

ASSUME GraphAssumption ==
  /\ Sessions \cap Retriers = {}
  /\ {MaxExports, MaxRetries, MaxFaults} \subseteq Nat

VARIABLES
  code,      \* what a graph of each commit has
  snapshots, \* the snapshots in the store
  active,    \* the snapshot that the pointer names, or None
  at,        \* the next step of each process
  draft,     \* the diary that it is about
  job,       \* the session of each retry
  memory,    \* the diaries in the memory store
  closed,    \* the diaries that session.closed has journaled
  attempted, \* the last graph-retry attempt in each saga
  exports, retries, faults

graph == <<snapshots, active>>
journal == <<closed, attempted>>
bounds == <<exports, retries, faults>>
vars == <<code, snapshots, active, at, draft, job, memory, closed, attempted, exports,
          retries, faults>>

Proc == Sessions \cup Retriers
PendingStates == {"GraphResolutionPending", "GraphSyncPending"}

Snapshot(c, references) == [commit |-> c, references |-> references]
Reference(n, confidence, in) == [name |-> n, confidence |-> confidence, in |-> in]
Diary(c, references, in, state) ==
  [commit |-> c, references |-> references, in |-> in, state |-> state]
NoDiary == Diary(None, {}, None, "none")

\* What the exporting tool publishes for a commit.
Graph(c) == Snapshot(c, {Reference(n, "none", None) : n \in code[c]})

Init ==
  /\ code \in [Commits -> SUBSET Names]
  /\ snapshots = {} /\ active = None
  /\ at = [p \in Proc |-> "idle"]
  /\ draft = [p \in Proc |-> NoDiary]
  /\ job = [p \in Retriers |-> None]
  /\ memory = [s \in Sessions |-> NoDiary]
  /\ closed = [s \in Sessions |-> NoDiary]
  /\ attempted = [s \in Sessions |-> "none"]
  /\ exports = 0 /\ retries = 0 /\ faults = 0

Goto(p, step) == at' = [at EXCEPT ![p] = step]
Fault == faults < MaxFaults /\ faults' = faults + 1 /\ UNCHANGED <<exports, retries>>

\* Faulty: a snapshot of another commit will do.
UsableStale(c) == active # None /\ active \in snapshots

\* activeSnapshot, and the check that it is of the commit.
Usable(c) == active # None /\ active \in snapshots /\ active.commit = c

\* Resolve of the port fails: there is no such snapshot, or a read of it fails.
Unreadable(c) == (~Usable(c) /\ UNCHANGED bounds) \/ Fault

\* LocalGraphPort.Resolve: a reference that is found keeps its confidence.
Resolved(references, in) ==
  {Reference(r.name,
             IF \E found \in in.references : found.name = r.name
               THEN r.confidence ELSE "unresolved",
             in) : r \in references}

Unresolved(references) == {Reference(r.name, "unresolved", None) : r \in references}

\* The resolution, as the snapshot that is published next.
Resolution(d) == Snapshot(d.commit, d.references)

\* InspectRecovery: the graph obligation of a saga.
Pending(s) == closed[s].state \in PendingStates

-----------------------------------------------------------------------------
(* Faulty variants: what the properties are there to catch. *)

\* The pointer is written before the snapshot's file.
StoreSnapshotLast(p) ==
  /\ at[p] = "store"
  /\ active' = Resolution(draft[p])
  /\ Goto(p, "activate")
  /\ UNCHANGED <<code, snapshots, draft, job, memory, journal, bounds>>

\* A failure to publish is not noticed.
PublishFailsUnnoticed(p) ==
  /\ at[p] \in {"store", "activate"}
  /\ Fault
  /\ Goto(p, IF p \in Sessions THEN "save" ELSE "attempt")
  /\ UNCHANGED <<code, graph, draft, job, memory, journal>>

\* A retry takes any saga, settled or not.
RetryAnything(p) ==
  /\ at[p] = "idle" /\ retries < MaxRetries
  /\ retries' = retries + 1
  /\ \E s \in Sessions :
       /\ closed[s].state # "none"
       /\ job' = [job EXCEPT ![p] = s]
       /\ draft' = [draft EXCEPT ![p] = closed[s]]
  /\ Goto(p, "retry")
  /\ UNCHANGED <<code, graph, memory, journal, exports, faults>>

-----------------------------------------------------------------------------
(* session close *)

\* validateArtifact: references are authoritative unless they say otherwise.
Close(s) ==
  /\ at[s] = "idle"
  /\ \E c \in Commits, names \in SUBSET Names :
       draft' = [draft EXCEPT ![s] =
                  Diary(c, {Reference(n, "authoritative", None) : n \in names}, None, "none")]
  /\ Goto(s, "resolve")
  /\ UNCHANGED <<code, graph, job, memory, journal, bounds>>

\* Without a usable snapshot, or when it cannot be read, the references are
\* kept as unresolved; without a port (the directory of the graph cannot be
\* made) they are kept as they are.
Resolve(s) ==
  /\ at[s] = "resolve"
  /\ LET d == draft[s] IN
     \/ /\ Usable(d.commit)
        /\ draft' = [draft EXCEPT ![s] =
                      Diary(d.commit, Resolved(d.references, active), active, "ready")]
        /\ Goto(s, "store") /\ UNCHANGED bounds
     \/ /\ Unreadable(d.commit)
        /\ draft' = [draft EXCEPT ![s] =
                      Diary(d.commit, Unresolved(d.references), None,
                            "GraphResolutionPending")]
        /\ Goto(s, "save")
     \/ /\ Fault
        /\ draft' = [draft EXCEPT ![s] =
                      Diary(d.commit, d.references, None, "GraphResolutionPending")]
        /\ Goto(s, "save")
  /\ UNCHANGED <<code, graph, job, memory, journal>>

SaveDiary(s) ==
  /\ at[s] = "save"
  /\ memory' = [memory EXCEPT ![s] = draft[s]]
  /\ Goto(s, "journal")
  /\ UNCHANGED <<code, graph, draft, job, journal, bounds>>

Publish(s) ==
  /\ at[s] = "journal"
  /\ closed' = [closed EXCEPT ![s] = draft[s]]
  /\ draft' = [draft EXCEPT ![s] = NoDiary]
  /\ Goto(s, "done")
  /\ UNCHANGED <<code, graph, job, memory, attempted, bounds>>

-----------------------------------------------------------------------------
(* LocalGraphPort.Publish *)

StoreSnapshot(p) ==
  /\ at[p] = "store"
  /\ snapshots' = snapshots \cup {Resolution(draft[p])}
  /\ Goto(p, "activate")
  /\ UNCHANGED <<code, active, draft, job, memory, journal, bounds>>

Activate(p) ==
  /\ at[p] = "activate"
  /\ active' = Resolution(draft[p])
  /\ Goto(p, IF p \in Sessions THEN "save" ELSE "attempt")
  /\ UNCHANGED <<code, snapshots, draft, job, memory, journal, bounds>>

PublishFails(p) ==
  /\ at[p] \in {"store", "activate"}
  /\ Fault
  /\ draft' = [draft EXCEPT ![p].state = "GraphSyncPending"]
  /\ Goto(p, IF p \in Sessions THEN "save" ELSE "attempt")
  /\ UNCHANGED <<code, graph, job, memory, journal>>

-----------------------------------------------------------------------------
(* sync retry --graph *)

\* The diary of a pending item is read from the journal.
Retry(p) ==
  /\ at[p] = "idle" /\ retries < MaxRetries
  /\ retries' = retries + 1
  /\ \E s \in Sessions :
       /\ Pending(s)
       /\ job' = [job EXCEPT ![p] = s]
       /\ draft' = [draft EXCEPT ![p] = closed[s]]
  /\ Goto(p, "retry")
  /\ UNCHANGED <<code, graph, memory, journal, exports, faults>>

RetryResolve(p) ==
  /\ at[p] = "retry"
  /\ LET d == draft[p] IN
     \/ /\ Usable(d.commit)
        /\ draft' = [draft EXCEPT ![p] =
                      Diary(d.commit, Resolved(d.references, active), active, "ready")]
        /\ Goto(p, "store") /\ UNCHANGED bounds
     \/ /\ Unreadable(d.commit)
        /\ Goto(p, "attempt") /\ UNCHANGED draft
  /\ UNCHANGED <<code, graph, job, memory, journal>>

\* The attempt is journaled; the diary and its graph state stay as they are.
JournalAttempt(p) ==
  /\ at[p] = "attempt"
  /\ attempted' = [attempted EXCEPT ![job[p]] =
                    IF draft[p].state = "ready" THEN "succeeded" ELSE "failed"]
  /\ job' = [job EXCEPT ![p] = None]
  /\ draft' = [draft EXCEPT ![p] = NoDiary]
  /\ Goto(p, "idle")
  /\ UNCHANGED <<code, graph, memory, closed, bounds>>

-----------------------------------------------------------------------------
(* What else happens *)

Crash(p) ==
  /\ at[p] \notin {"idle", "done"}
  /\ Fault
  /\ draft' = [draft EXCEPT ![p] = NoDiary]
  /\ IF p \in Sessions
       THEN Goto(p, "done") /\ UNCHANGED job
       ELSE Goto(p, "idle") /\ job' = [job EXCEPT ![p] = None]
  /\ UNCHANGED <<code, graph, memory, journal>>

\* A tool pushes the graph of a commit.
Export(c) ==
  /\ exports < MaxExports /\ exports' = exports + 1
  /\ snapshots' = snapshots \cup {Graph(c)}
  /\ active' = Graph(c)
  /\ UNCHANGED <<code, at, draft, job, memory, journal, retries, faults>>

CloseStep(s) == Close(s) \/ Resolve(s) \/ SaveDiary(s) \/ Publish(s)
RetryStep(p) == Retry(p) \/ RetryResolve(p) \/ JournalAttempt(p)

Next ==
  \/ \E s \in Sessions : CloseStep(s)
  \/ \E p \in Retriers : RetryStep(p)
  \/ \E p \in Proc : StoreSnapshot(p) \/ Activate(p) \/ PublishFails(p) \/ Crash(p)
  \/ \E c \in Commits : Export(c)

Spec == Init /\ [][Next]_vars

-----------------------------------------------------------------------------
(* Every variable keeps its shape, a process at work has a diary to work on, and
   only the sagas that are listed are retried. *)
TypeOK ==
  /\ code \in [Commits -> SUBSET Names]
  /\ \A p \in Proc :
       at[p] \in {"idle", "resolve", "save", "journal", "done", "store", "activate",
                  "retry", "attempt"}
  /\ job \in [Retriers -> Sessions \cup {None}]
  /\ \A p \in Retriers : at[p] # "idle" => job[p] \in Sessions
  /\ \A s \in Sessions : attempted[s] # "none" => Pending(s)
  /\ exports \in 0 .. MaxExports /\ retries \in 0 .. MaxRetries /\ faults \in 0 .. MaxFaults

(* Whatever crashes between the file and the pointer, and whoever else
   publishes, the active pointer names a snapshot that is in the store: the
   last valid graph stays usable (core/graph.go, Publish). *)
ActiveIsStored == active # None => active \in snapshots

(* A diary retains the snapshot that resolved its references, although the
   active one changes between its resolution and its saving: the snapshot is in
   the store and of the diary's commit, and a reference that is not marked as
   unresolved is in it. *)
ProvenanceHolds ==
  \A d \in {memory[s] : s \in Sessions} : d.in # None =>
    /\ d.in \in snapshots /\ d.in.commit = d.commit
    /\ \A r \in d.references :
         /\ r.in = d.in
         /\ r.confidence # "unresolved" => \E found \in d.in.references : found.name = r.name

(* A diary whose graph state is ready was pushed: its resolution is in the
   store, else it is journaled as pending and listed for retry. *)
ReadyIsPublished ==
  \A s \in Sessions : closed[s].state = "ready" => Resolution(closed[s]) \in snapshots

(* "Explicit references ... remain authoritative when found" (core/graph.go:30-31):
   a reference that a diary calls authoritative is in the graph of its commit. *)
ConfidenceIsEarned ==
  \A s \in Sessions : \A r \in memory[s].references :
    r.confidence = "authoritative" => r.name \in code[memory[s].commit]
=============================================================================
