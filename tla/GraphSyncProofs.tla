--------------------------- MODULE GraphSyncProofs ---------------------------
(***************************************************************************)
(* The properties of GraphSync for any sessions, retriers, commits, names   *)
(* and bounds.                                                              *)
(*                                                                         *)
(* What a diary promises is established in the draft that a process has in  *)
(* memory and kept through the steps that follow: a draft retains the       *)
(* snapshot that it was resolved in (DraftInv), its resolution is stored    *)
(* when the pointer is about to be written and when the diary says ready    *)
(* (PublishInv), and a saga that is retried stays pending, as its session   *)
(* is over (JobInv). Nothing removes a snapshot, so all of it is stable.    *)
(***************************************************************************)

EXTENDS GraphSync, TLAPS

Steps == {"idle", "resolve", "save", "journal", "done", "store", "activate", "retry", "attempt"}

IsDiary(d) == d = Diary(d.commit, d.references, d.in, d.state)

Shapes ==
  /\ code \in [Commits -> SUBSET Names]
  /\ at \in [Proc -> Steps]
  /\ DOMAIN draft = Proc /\ \A p \in Proc : IsDiary(draft[p])
  /\ job \in [Retriers -> Sessions \cup {None}]
  /\ DOMAIN memory = Sessions
  /\ DOMAIN closed = Sessions /\ \A s \in Sessions : IsDiary(closed[s])
  /\ DOMAIN attempted = Sessions
  /\ exports \in 0 .. MaxExports /\ retries \in 0 .. MaxRetries /\ faults \in 0 .. MaxFaults

\* The provenance of one diary, given the snapshots in the store.
Retains(d, store) == d.in # None =>
  /\ d.in \in store /\ d.in.commit = d.commit
  /\ \A r \in d.references :
       /\ r.in = d.in
       /\ r.confidence # "unresolved" => \E found \in d.in.references : found.name = r.name

DraftInv ==
  /\ \A p \in Proc : Retains(draft[p], snapshots)
  /\ \A s \in Sessions : Retains(memory[s], snapshots) /\ Retains(closed[s], snapshots)

PublishInv ==
  /\ \A p \in Proc : at[p] = "activate" => Resolution(draft[p]) \in snapshots
  /\ \A s \in Sessions :
       /\ at[s] \in {"save", "journal"} /\ draft[s].state = "ready"
            => Resolution(draft[s]) \in snapshots
       /\ closed[s].state = "ready" => Resolution(closed[s]) \in snapshots

JobInv ==
  /\ \A s \in Sessions :
       /\ at[s] # "done" => ~Pending(s)
       /\ attempted[s] # "none" => Pending(s)
  /\ \A p \in Retriers : at[p] # "idle" => job[p] \in Sessions /\ Pending(job[p])

IInv == Shapes /\ ActiveIsStored /\ DraftInv /\ PublishInv /\ JobInv

-----------------------------------------------------------------------------
\* A fresh draft promises nothing.
LEMMA NothingInv == IsDiary(NoDiary) /\ Retains(NoDiary, {}) /\ NoDiary.state = "none"
  BY DEF IsDiary, Retains, NoDiary, Diary

\* The drafts begin empty, and nothing is published.
LEMMA InitInv == Init => IInv
<1> SUFFICES ASSUME Init PROVE IInv
  OBVIOUS
<1> USE GraphAssumption, NothingInv DEF Init, Proc
<1>1. Shapes
  BY DEF Shapes, Steps
<1>2. ActiveIsStored
  BY DEF ActiveIsStored
<1>3. DraftInv
  BY DEF DraftInv
<1>4. PublishInv
  BY DEF PublishInv
<1>5. JobInv
  BY DEF JobInv, Pending, PendingStates
<1>6. QED
  BY <1>1, <1>2, <1>3, <1>4, <1>5 DEF IInv

\* The shapes of the variables.
LEMMA ShapesStep == IInv /\ [Next]_vars => Shapes'
<1> SUFFICES ASSUME IInv, [Next]_vars PROVE Shapes'
  OBVIOUS
<1> USE GraphAssumption DEF IInv, Shapes, IsDiary, Diary, NoDiary, Steps, Proc, Goto, graph, journal, bounds
<1>1. ASSUME NEW s \in Sessions, Close(s) PROVE Shapes'
  <2>1. PICK c \in Commits, names \in SUBSET Names :
          draft' = [draft EXCEPT ![s] =
                     Diary(c, {Reference(n, "authoritative", None) : n \in names}, None, "none")]
    BY <1>1 DEF Close
  <2>2. \A p \in Proc : IsDiary(draft'[p])
    BY <2>1
  <2>3. QED
    BY <1>1, <2>1, <2>2 DEF Close
<1>2. ASSUME NEW s \in Sessions, Resolve(s) PROVE Shapes'
  <2>1. DOMAIN draft' = Proc /\ \A q \in Proc : IsDiary(draft'[q])
    BY <1>2 DEF Resolve
  <2>2. at' \in [Proc -> Steps]
    BY <1>2 DEF Resolve
  <2>3. UNCHANGED bounds \/ Fault
    BY <1>2 DEF Resolve, Unreadable
  <2>4. exports' \in 0 .. MaxExports /\ retries' \in 0 .. MaxRetries /\ faults' \in 0 .. MaxFaults
    BY <2>3 DEF Fault
  <2>5. QED
    BY <1>2, <2>1, <2>2, <2>4 DEF Resolve
<1>3. ASSUME NEW s \in Sessions, SaveDiary(s) PROVE Shapes'
  BY <1>3 DEF SaveDiary
<1>4. ASSUME NEW s \in Sessions, Publish(s) PROVE Shapes'
  BY <1>4 DEF Publish
<1>5. ASSUME NEW p \in Retriers, Retry(p) PROVE Shapes'
  BY <1>5 DEF Retry
<1>6. ASSUME NEW p \in Retriers, RetryResolve(p) PROVE Shapes'
  <2>1. DOMAIN draft' = Proc /\ \A q \in Proc : IsDiary(draft'[q])
    BY <1>6 DEF RetryResolve
  <2>2. at' \in [Proc -> Steps]
    BY <1>6 DEF RetryResolve
  <2>3. UNCHANGED bounds \/ Fault
    BY <1>6 DEF RetryResolve, Unreadable
  <2>4. exports' \in 0 .. MaxExports /\ retries' \in 0 .. MaxRetries /\ faults' \in 0 .. MaxFaults
    BY <2>3 DEF Fault
  <2>5. QED
    BY <1>6, <2>1, <2>2, <2>4 DEF RetryResolve
<1>7. ASSUME NEW p \in Retriers, JournalAttempt(p) PROVE Shapes'
  BY <1>7 DEF JournalAttempt
<1>8. ASSUME NEW p \in Proc, StoreSnapshot(p) PROVE Shapes'
  BY <1>8 DEF StoreSnapshot
<1>9. ASSUME NEW p \in Proc, Activate(p) PROVE Shapes'
  BY <1>9 DEF Activate
<1>10. ASSUME NEW p \in Proc, PublishFails(p) PROVE Shapes'
  <2>1. draft'[p] = [draft[p] EXCEPT !.state = "GraphSyncPending"]
    BY <1>10 DEF PublishFails
  <2>2. IsDiary(draft'[p])
    BY <2>1
  <2>3. \A q \in Proc : q # p => draft'[q] = draft[q]
    BY <1>10 DEF PublishFails
  <2>4. faults' \in 0 .. MaxFaults
    BY <1>10 DEF PublishFails, Fault
  <2>5. DOMAIN draft' = Proc /\ at' \in [Proc -> Steps]
    BY <1>10 DEF PublishFails
  <2>6. QED
    BY <1>10, <2>2, <2>3, <2>4, <2>5 DEF PublishFails, Fault
<1>11. ASSUME NEW p \in Proc, Crash(p) PROVE Shapes'
  <2>1. faults' \in 0 .. MaxFaults
    BY <1>11 DEF Crash, Fault
  <2>2. DOMAIN draft' = Proc /\ \A q \in Proc : IsDiary(draft'[q])
    BY <1>11 DEF Crash
  <2>3. at' \in [Proc -> Steps] /\ job' \in [Retriers -> Sessions \cup {None}]
    BY <1>11 DEF Crash
  <2>4. QED
    BY <1>11, <2>1, <2>2, <2>3 DEF Crash, Fault
<1>12. ASSUME NEW c \in Commits, Export(c) PROVE Shapes'
  BY <1>12 DEF Export
<1>13. CASE UNCHANGED vars
  BY <1>13 DEF vars
<1>14. QED
  BY <1>1, <1>2, <1>3, <1>4, <1>5, <1>6, <1>7, <1>8, <1>9, <1>10, <1>11, <1>12, <1>13
  DEF Next, CloseStep, RetryStep

\* Nothing leaves the store, and the pointer is written after the file.
LEMMA ActiveStep == IInv /\ [Next]_vars => ActiveIsStored' /\ snapshots \subseteq snapshots'
<1> SUFFICES ASSUME IInv, [Next]_vars PROVE ActiveIsStored' /\ snapshots \subseteq snapshots'
  OBVIOUS
<1> USE DEF IInv, ActiveIsStored, PublishInv, Proc, graph
<1>1. ASSUME NEW s \in Sessions, Close(s) PROVE ActiveIsStored' /\ snapshots \subseteq snapshots'
  BY <1>1 DEF Close
<1>2. ASSUME NEW s \in Sessions, Resolve(s) PROVE ActiveIsStored' /\ snapshots \subseteq snapshots'
  BY <1>2 DEF Resolve
<1>3. ASSUME NEW s \in Sessions, SaveDiary(s) PROVE ActiveIsStored' /\ snapshots \subseteq snapshots'
  BY <1>3 DEF SaveDiary
<1>4. ASSUME NEW s \in Sessions, Publish(s) PROVE ActiveIsStored' /\ snapshots \subseteq snapshots'
  BY <1>4 DEF Publish
<1>5. ASSUME NEW p \in Retriers, Retry(p) PROVE ActiveIsStored' /\ snapshots \subseteq snapshots'
  BY <1>5 DEF Retry
<1>6. ASSUME NEW p \in Retriers, RetryResolve(p) PROVE ActiveIsStored' /\ snapshots \subseteq snapshots'
  BY <1>6 DEF RetryResolve
<1>7. ASSUME NEW p \in Retriers, JournalAttempt(p) PROVE ActiveIsStored' /\ snapshots \subseteq snapshots'
  BY <1>7 DEF JournalAttempt
<1>8. ASSUME NEW p \in Proc, StoreSnapshot(p) PROVE ActiveIsStored' /\ snapshots \subseteq snapshots'
  BY <1>8 DEF StoreSnapshot
<1>9. ASSUME NEW p \in Proc, Activate(p) PROVE ActiveIsStored' /\ snapshots \subseteq snapshots'
  BY <1>9 DEF Activate
<1>10. ASSUME NEW p \in Proc, PublishFails(p) PROVE ActiveIsStored' /\ snapshots \subseteq snapshots'
  BY <1>10 DEF PublishFails
<1>11. ASSUME NEW p \in Proc, Crash(p) PROVE ActiveIsStored' /\ snapshots \subseteq snapshots'
  BY <1>11 DEF Crash
<1>12. ASSUME NEW c \in Commits, Export(c) PROVE ActiveIsStored' /\ snapshots \subseteq snapshots'
  BY <1>12 DEF Export
<1>13. CASE UNCHANGED vars
  BY <1>13 DEF vars
<1>14. QED
  BY <1>1, <1>2, <1>3, <1>4, <1>5, <1>6, <1>7, <1>8, <1>9, <1>10, <1>11, <1>12, <1>13
  DEF Next, CloseStep, RetryStep

\* What a diary retains stays so, as nothing leaves the store.
LEMMA RetainsStable ==
  ASSUME NEW d, NEW A, NEW B, A \subseteq B, Retains(d, A) PROVE Retains(d, B)
  BY DEF Retains

\* A resolution in the active snapshot is of its commit and marks what it did not find.
LEMMA ResolvedProvenance ==
  ASSUME NEW d, Usable(d.commit), ActiveIsStored
  PROVE  Retains(Diary(d.commit, Resolved(d.references, active), active, "ready"), snapshots)
<1> DEFINE e == Diary(d.commit, Resolved(d.references, active), active, "ready")
<1>1. e.in = active /\ e.commit = d.commit /\ e.references = Resolved(d.references, active)
  BY DEF Diary
<1>2. active \in snapshots /\ active.commit = d.commit
  BY DEF Usable
<1>3. ASSUME NEW r \in Resolved(d.references, active)
      PROVE  /\ r.in = active
             /\ r.confidence # "unresolved" =>
                  \E found \in active.references : found.name = r.name
  <2>1. PICK q \in d.references :
          r = Reference(q.name,
                        IF \E found \in active.references : found.name = q.name
                          THEN q.confidence ELSE "unresolved",
                        active)
    BY <1>3 DEF Resolved
  <2>2. r.in = active /\ r.name = q.name
    BY <2>1 DEF Reference
  <2>3. (~ \E found \in active.references : found.name = q.name) => r.confidence = "unresolved"
    BY <2>1 DEF Reference
  <2>4. QED
    BY <2>2, <2>3
<1>4. QED
  BY <1>1, <1>2, <1>3 DEF Retains

\* A draft without a snapshot promises nothing.
LEMMA Unpromised ==
  ASSUME NEW c, NEW refs, NEW state, NEW store PROVE Retains(Diary(c, refs, None, state), store)
  BY DEF Retains, Diary

\* The diaries and drafts retain the snapshot that they were resolved in.
LEMMA DraftStep == IInv /\ [Next]_vars => DraftInv'
<1> SUFFICES ASSUME IInv, [Next]_vars PROVE DraftInv'
  OBVIOUS
<1>a. snapshots \subseteq snapshots'
  BY ActiveStep
<1>b. /\ \A p \in Proc : Retains(draft[p], snapshots')
      /\ \A s \in Sessions : Retains(memory[s], snapshots') /\ Retains(closed[s], snapshots')
  BY <1>a, RetainsStable DEF IInv, DraftInv
<1> USE <1>b, GraphAssumption DEF IInv, Shapes, DraftInv, Proc, graph, journal
<1>1. ASSUME NEW s \in Sessions, Close(s) PROVE DraftInv'
  <2>1. PICK c \in Commits, names \in SUBSET Names :
          draft' = [draft EXCEPT ![s] =
                     Diary(c, {Reference(n, "authoritative", None) : n \in names}, None, "none")]
    BY <1>1 DEF Close
  <2>2. Retains(draft'[s], snapshots)
    BY <2>1, Unpromised
  <2>3. QED
    BY <1>1, <2>1, <2>2 DEF Close
<1>2. ASSUME NEW s \in Sessions, Resolve(s) PROVE DraftInv'
  <2>1. CASE /\ Usable(draft[s].commit)
             /\ draft' = [draft EXCEPT ![s] =
                  Diary(draft[s].commit, Resolved(draft[s].references, active), active, "ready")]
    <3>1. Retains(draft'[s], snapshots)
      BY <2>1, ResolvedProvenance
    <3>2. QED
      BY <1>2, <2>1, <3>1 DEF Resolve
  <2>2. ASSUME NEW refs,
               draft' = [draft EXCEPT ![s] =
                  Diary(draft[s].commit, refs, None, "GraphResolutionPending")]
        PROVE  DraftInv'
    <3>1. Retains(draft'[s], snapshots)
      BY <2>2, Unpromised
    <3>2. QED
      BY <1>2, <2>2, <3>1 DEF Resolve
  <2>3. QED
    BY <1>2, <2>1, <2>2 DEF Resolve
<1>3. ASSUME NEW s \in Sessions, SaveDiary(s) PROVE DraftInv'
  BY <1>3 DEF SaveDiary
<1>4. ASSUME NEW s \in Sessions, Publish(s) PROVE DraftInv'
  <2>1. Retains(draft'[s], snapshots)
    BY <1>4, NothingInv, RetainsStable DEF Publish
  <2>2. QED
    BY <1>4, <2>1 DEF Publish
<1>5. ASSUME NEW p \in Retriers, Retry(p) PROVE DraftInv'
  BY <1>5 DEF Retry
<1>6. ASSUME NEW p \in Retriers, RetryResolve(p) PROVE DraftInv'
  <2>1. CASE /\ Usable(draft[p].commit)
             /\ draft' = [draft EXCEPT ![p] =
                  Diary(draft[p].commit, Resolved(draft[p].references, active), active, "ready")]
    <3>1. Retains(draft'[p], snapshots)
      BY <2>1, ResolvedProvenance
    <3>2. QED
      BY <1>6, <2>1, <3>1 DEF RetryResolve
  <2>2. CASE UNCHANGED draft
    BY <1>6, <2>2 DEF RetryResolve
  <2>3. QED
    BY <1>6, <2>1, <2>2 DEF RetryResolve
<1>7. ASSUME NEW p \in Retriers, JournalAttempt(p) PROVE DraftInv'
  <2>1. Retains(draft'[p], snapshots)
    BY <1>7, NothingInv, RetainsStable DEF JournalAttempt
  <2>2. QED
    BY <1>7, <2>1 DEF JournalAttempt
<1>8. ASSUME NEW p \in Proc, StoreSnapshot(p) PROVE DraftInv'
  BY <1>8 DEF StoreSnapshot
<1>9. ASSUME NEW p \in Proc, Activate(p) PROVE DraftInv'
  BY <1>9 DEF Activate
<1>10. ASSUME NEW p \in Proc, PublishFails(p) PROVE DraftInv'
  <2>1. draft'[p] = [draft[p] EXCEPT !.state = "GraphSyncPending"]
    BY <1>10 DEF PublishFails
  <2>2. IsDiary(draft[p])
    OBVIOUS
  <2>3. Retains(draft'[p], snapshots)
    BY <2>1, <2>2 DEF Retains, IsDiary, Diary
  <2>4. QED
    BY <1>10, <2>3 DEF PublishFails
<1>11. ASSUME NEW p \in Proc, Crash(p) PROVE DraftInv'
  <2>1. Retains(draft'[p], snapshots)
    BY <1>11, NothingInv, RetainsStable DEF Crash
  <2>2. QED
    BY <1>11, <2>1 DEF Crash
<1>12. ASSUME NEW c \in Commits, Export(c) PROVE DraftInv'
  BY <1>12 DEF Export
<1>13. CASE UNCHANGED vars
  BY <1>13 DEF vars
<1>14. QED
  BY <1>1, <1>2, <1>3, <1>4, <1>5, <1>6, <1>7, <1>8, <1>9, <1>10, <1>11, <1>12, <1>13
  DEF Next, CloseStep, RetryStep

\* What is ready, or about to become active, is in the store.
LEMMA PublishStep == IInv /\ [Next]_vars => PublishInv'
<1> SUFFICES ASSUME IInv, [Next]_vars PROVE PublishInv'
  OBVIOUS
<1> USE GraphAssumption, NothingInv, ActiveStep DEF IInv, Shapes, PublishInv, Proc, graph, journal, Goto
<1>1. ASSUME NEW s \in Sessions, Close(s) PROVE PublishInv'
  BY <1>1 DEF Close
<1>2. ASSUME NEW s \in Sessions, Resolve(s) PROVE PublishInv'
  <2>1. at'[s] \in {"store", "save"} /\ \A q \in Proc : q # s => at'[q] = at[q] /\ draft'[q] = draft[q]
    BY <1>2 DEF Resolve
  <2>2. at'[s] = "save" => draft'[s].state = "GraphResolutionPending"
    BY <1>2 DEF Resolve, Diary
  <2>3. snapshots' = snapshots /\ closed' = closed
    BY <1>2 DEF Resolve
  <2>4. QED
    BY <2>1, <2>2, <2>3
<1>3. ASSUME NEW s \in Sessions, SaveDiary(s) PROVE PublishInv'
  BY <1>3 DEF SaveDiary
<1>4. ASSUME NEW s \in Sessions, Publish(s) PROVE PublishInv'
  BY <1>4 DEF Publish
<1>5. ASSUME NEW p \in Retriers, Retry(p) PROVE PublishInv'
  <2>1. PICK s \in Sessions : Pending(s) /\ draft' = [draft EXCEPT ![p] = closed[s]]
    BY <1>5 DEF Retry
  <2>2. QED
    BY <1>5, <2>1 DEF Retry
<1>6. ASSUME NEW p \in Retriers, RetryResolve(p) PROVE PublishInv'
  <2>1. at'[p] \in {"store", "attempt"} /\ \A q \in Proc : q # p => at'[q] = at[q] /\ draft'[q] = draft[q]
    BY <1>6 DEF RetryResolve
  <2>2. snapshots' = snapshots /\ closed' = closed
    BY <1>6 DEF RetryResolve
  <2>3. QED
    BY <2>1, <2>2
<1>7. ASSUME NEW p \in Retriers, JournalAttempt(p) PROVE PublishInv'
  BY <1>7 DEF JournalAttempt
<1>8. ASSUME NEW p \in Proc, StoreSnapshot(p) PROVE PublishInv'
  BY <1>8 DEF StoreSnapshot
<1>9. ASSUME NEW p \in Proc, Activate(p) PROVE PublishInv'
  BY <1>9 DEF Activate
<1>10. ASSUME NEW p \in Proc, PublishFails(p) PROVE PublishInv'
  <2>1. IsDiary(draft[p])
    OBVIOUS
  <2>2. draft'[p] = [draft[p] EXCEPT !.state = "GraphSyncPending"]
    BY <1>10 DEF PublishFails
  <2>3. draft'[p].state = "GraphSyncPending"
    BY <2>1, <2>2 DEF IsDiary, Diary
  <2>4. at'[p] \in {"save", "attempt"} /\ \A q \in Proc : q # p => at'[q] = at[q] /\ draft'[q] = draft[q]
    BY <1>10 DEF PublishFails
  <2>5. snapshots' = snapshots /\ closed' = closed
    BY <1>10 DEF PublishFails
  <2>6. QED
    BY <2>3, <2>4, <2>5
<1>11. ASSUME NEW p \in Proc, Crash(p) PROVE PublishInv'
  <2>1. at'[p] \in {"done", "idle"} /\ \A q \in Proc : q # p => at'[q] = at[q] /\ draft'[q] = draft[q]
    BY <1>11 DEF Crash
  <2>2. snapshots' = snapshots /\ closed' = closed
    BY <1>11 DEF Crash
  <2>3. QED
    BY <2>1, <2>2
<1>12. ASSUME NEW c \in Commits, Export(c) PROVE PublishInv'
  BY <1>12 DEF Export
<1>13. CASE UNCHANGED vars
  BY <1>13 DEF vars
<1>14. QED
  BY <1>1, <1>2, <1>3, <1>4, <1>5, <1>6, <1>7, <1>8, <1>9, <1>10, <1>11, <1>12, <1>13
  DEF Next, CloseStep, RetryStep

\* A saga that is retried is pending: its session is over, and nothing else
\* writes what session.closed has said.
LEMMA JobStep == IInv /\ [Next]_vars => JobInv'
<1> SUFFICES ASSUME IInv, [Next]_vars PROVE JobInv'
  OBVIOUS
<1> USE GraphAssumption DEF IInv, Shapes, JobInv, Proc, graph, journal, Goto, Pending
<1>1. ASSUME NEW s \in Sessions, Close(s) PROVE JobInv'
  BY <1>1 DEF Close
<1>2. ASSUME NEW s \in Sessions, Resolve(s) PROVE JobInv'
  BY <1>2 DEF Resolve
<1>3. ASSUME NEW s \in Sessions, SaveDiary(s) PROVE JobInv'
  BY <1>3 DEF SaveDiary
<1>4. ASSUME NEW s \in Sessions, Publish(s) PROVE JobInv'
  BY <1>4 DEF Publish
<1>5. ASSUME NEW p \in Retriers, Retry(p) PROVE JobInv'
  <2>1. PICK s \in Sessions : Pending(s) /\ job' = [job EXCEPT ![p] = s]
    BY <1>5 DEF Retry
  <2>2. job'[p] = s /\ \A q \in Retriers : q # p => job'[q] = job[q]
    BY <2>1
  <2>3. \A q \in Proc : q # p => at'[q] = at[q]
    BY <1>5 DEF Retry
  <2>4. closed' = closed /\ attempted' = attempted
    BY <1>5 DEF Retry
  <2>5. QED
    BY <2>1, <2>2, <2>3, <2>4
<1>6. ASSUME NEW p \in Retriers, RetryResolve(p) PROVE JobInv'
  BY <1>6 DEF RetryResolve
<1>7. ASSUME NEW p \in Retriers, JournalAttempt(p) PROVE JobInv'
  <2>1. job[p] \in Sessions /\ Pending(job[p])
    BY <1>7 DEF JournalAttempt
  <2>2. \A s \in Sessions : s # job[p] => attempted'[s] = attempted[s]
    BY <1>7 DEF JournalAttempt
  <2>3. at'[p] = "idle" /\ \A q \in Proc : q # p => at'[q] = at[q]
    BY <1>7 DEF JournalAttempt
  <2>4. \A q \in Retriers : q # p => job'[q] = job[q]
    BY <1>7 DEF JournalAttempt
  <2>5. closed' = closed
    BY <1>7 DEF JournalAttempt
  <2>6. QED
    BY <2>1, <2>2, <2>3, <2>4, <2>5
<1>8. ASSUME NEW p \in Proc, StoreSnapshot(p) PROVE JobInv'
  BY <1>8 DEF StoreSnapshot
<1>9. ASSUME NEW p \in Proc, Activate(p) PROVE JobInv'
  BY <1>9 DEF Activate
<1>10. ASSUME NEW p \in Proc, PublishFails(p) PROVE JobInv'
  BY <1>10 DEF PublishFails
<1>11. ASSUME NEW p \in Proc, Crash(p) PROVE JobInv'
  <2>1. at'[p] \in {"done", "idle"} /\ \A q \in Proc : q # p => at'[q] = at[q]
    BY <1>11 DEF Crash
  <2>2. p \in Sessions => at'[p] = "done" /\ job' = job
    BY <1>11 DEF Crash
  <2>3. p \in Retriers => at'[p] = "idle" /\ \A q \in Retriers : q # p => job'[q] = job[q]
    BY <1>11 DEF Crash
  <2>4. closed' = closed /\ attempted' = attempted
    BY <1>11 DEF Crash
  <2>5. QED
    BY <2>1, <2>2, <2>3, <2>4
<1>12. ASSUME NEW c \in Commits, Export(c) PROVE JobInv'
  BY <1>12 DEF Export
<1>13. CASE UNCHANGED vars
  BY <1>13 DEF vars
<1>14. QED
  BY <1>1, <1>2, <1>3, <1>4, <1>5, <1>6, <1>7, <1>8, <1>9, <1>10, <1>11, <1>12, <1>13
  DEF Next, CloseStep, RetryStep

-----------------------------------------------------------------------------
\* The inductive invariant of closes, retries and exports (core/graph.go,
\* core/session.go, cmd/syntroph/main.go).
THEOREM Invariant == Spec => []IInv
<1>1. IInv /\ [Next]_vars => IInv'
  BY ShapesStep, ActiveStep, DraftStep, PublishStep, JobStep DEF IInv
<1>2. QED
  BY InitInv, <1>1, PTL DEF Spec

\* The variables keep their shapes, and only sagas that are listed are retried
\* (retry, cmd/syntroph/main.go).
THEOREM TypeCorrect == Spec => []TypeOK
<1>1. IInv => TypeOK
  BY DEF IInv, Shapes, JobInv, TypeOK, Steps, Proc
<1>2. QED
  BY Invariant, <1>1, PTL

\* The active pointer names a stored snapshot, whatever fails and whoever else
\* publishes (LocalGraphPort.Publish, core/graph.go).
THEOREM ActiveStaysStored == Spec => []ActiveIsStored
  BY Invariant, PTL DEF IInv

\* Diaries retain the snapshot of their commit that resolved their references
\* (resolveCodeReferences, core/session.go).
THEOREM DiariesKeepProvenance == Spec => []ProvenanceHolds
<1>1. IInv => ProvenanceHolds
  BY DEF IInv, DraftInv, Retains, ProvenanceHolds
<1>2. QED
  BY Invariant, <1>1, PTL

\* A diary that is journaled as ready was pushed (resolveCodeReferences,
\* core/session.go).
THEOREM ReadyWasPublished == Spec => []ReadyIsPublished
<1>1. IInv => ReadyIsPublished
  BY DEF IInv, PublishInv, ReadyIsPublished
<1>2. QED
  BY Invariant, <1>1, PTL
=============================================================================
