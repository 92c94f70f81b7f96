------------------------ MODULE SkillInvocationsProofs ------------------------
(***************************************************************************)
(* The properties of SkillInvocations for any processes, invocations,       *)
(* packages and bounds.                                                     *)
(*                                                                         *)
(* Journals only grow, so what a saga once says it says for ever: the sets  *)
(* below, of the requests, bundles and records that the sagas vouch for,    *)
(* never lose a member (VouchersStay). A preparation has journaled what its *)
(* step supposes (PreparationsInv), and a close has found the evidence that *)
(* its verdict names (ClosesInv).                                           *)
(***************************************************************************)

EXTENDS SkillInvocations, SequenceTheorems, WellFoundedInduction, TLAPS

Requests == [id : Invocations, arguments : Arguments]
Types == {"skill.prepare-requested", "attempt-failed", "attempt-succeeded", "skill.prepared",
          "skill.prepare-failed", "skill.invocation-linked"}
Entries == [type : Types, about : Requests \cup Bundles \cup {NoBundle} \cup Records]

Shapes ==
  /\ index \in 0 .. MaxVersion
  /\ saga \in [Invocations -> Seq(Entries)]
  /\ at \in [Proc -> {"idle", "request", "port", "attempt", "outcome",
                      "reconcile", "rejected", "save", "rename", "link", "done"}]
  /\ request \in [Preparers -> Requests \cup {NoBundle}]
  /\ prepared \in [Preparers -> Bundles \cup {NoBundle}]
  /\ known \in [index : 0 .. MaxVersion, bundles : SUBSET Bundles]
  /\ delivered \subseteq Bundles
  /\ record \in [Closers -> Records \cup {NoRecord}]
  /\ accepted \in [Closers -> {"none", "rejected", "runtime-declared", "journal-verified"}]
  /\ diaries \subseteq [record : Records,
                        provenance : {"none", "rejected", "runtime-declared", "journal-verified"}]

\* What the sagas vouch for.
Requested == {q \in Requests : \E j \in DOMAIN saga[q.id] :
  /\ saga[q.id][j].type = "skill.prepare-requested"
  /\ saga[q.id][j].about.arguments = q.arguments}

Attempted == {q \in Requests : \E j, k \in DOMAIN saga[q.id] :
  /\ j < k
  /\ saga[q.id][j].type = "skill.prepare-requested"
  /\ saga[q.id][j].about.arguments = q.arguments
  /\ saga[q.id][k].type = "attempt-succeeded"}

Explained == {b \in Bundles : \E j, k, l \in DOMAIN saga[b.id] :
  /\ j < k /\ k < l
  /\ saga[b.id][j].type = "skill.prepare-requested"
  /\ saga[b.id][j].about.arguments = b.arguments
  /\ saga[b.id][k].type = "attempt-succeeded"
  /\ saga[b.id][l] = Entry("skill.prepared", b)}

Evident == {r \in Records :
  \/ \E k \in DOMAIN saga[r.bundle.id] :
       saga[r.bundle.id][k] = Entry("skill.prepared", r.bundle)
  \/ Has(r.bundle.id, "skill.prepare-failed") /\ r.outcome = "failed"}

Kept == {d.record : d \in diaries}

PreparationsInv ==
  \A p \in Preparers :
    /\ at[p] \in {"request", "port", "attempt", "outcome"} => request[p] \in Requests
    /\ prepared[p] # NoBundle => /\ at[p] \in {"attempt", "outcome"}
                                 /\ prepared[p].id = request[p].id
                                 /\ prepared[p].arguments = request[p].arguments
    /\ at[p] \in {"port", "attempt", "outcome"} => request[p] \in Requested
    /\ at[p] = "outcome" /\ prepared[p] # NoBundle => request[p] \in Attempted

ClosesInv ==
  \A c \in Closers :
    /\ at[c] \in {"reconcile", "save", "rename", "link"} => record[c] \in Records
    /\ accepted[c] # "none" => at[c] \in {"save", "rename", "link", "rejected"}
    /\ accepted[c] = "journal-verified" => record[c] \in Evident
    /\ at[c] = "link" => record[c] \in Kept

SagasInv ==
  \A i \in Invocations : \A k \in DOMAIN saga[i] :
    /\ saga[i][k].type = "skill.prepared" => saga[i][k].about \in Bundles /\ saga[i][k].about.id = i
    /\ saga[i][k].type = "skill.invocation-linked" =>
         saga[i][k].about \in Kept /\ saga[i][k].about.bundle.id = i

DiariesInv ==
  /\ \A d, e \in diaries : d.record = e.record => d = e
  /\ \A d \in diaries : d.provenance = "journal-verified" => d.record \in Evident

IInv ==
  /\ Shapes /\ PreparationsInv /\ ClosesInv /\ SagasInv /\ DiariesInv
  /\ delivered \subseteq Explained
  /\ ReplaysReturnTheirBundle

-----------------------------------------------------------------------------
\* The records of a saga after one was appended.
LEMMA JournalGrows ==
  ASSUME Shapes, NEW i \in Invocations, NEW type, NEW about,
         Entry(type, about) \in Entries, Journal(i, type, about)
  PROVE  /\ saga' \in [Invocations -> Seq(Entries)]
         /\ \A j \in Invocations : \A k \in DOMAIN saga[j] :
              k \in DOMAIN saga'[j] /\ saga'[j][k] = saga[j][k] /\ k \in Nat
         /\ \A j \in Invocations : \A k \in DOMAIN saga'[j] :
              \/ k \in DOMAIN saga[j] /\ saga'[j][k] = saga[j][k]
              \/ j = i /\ saga'[j][k] = Entry(type, about)
         /\ \E n \in DOMAIN saga'[i] :
              /\ saga'[i][n] = Entry(type, about)
              /\ \A k \in DOMAIN saga[i] : k < n
<1>1. \A j \in Invocations : saga[j] \in Seq(Entries)
  BY DEF Shapes
<1>2. \A j \in Invocations : Len(saga[j]) \in Nat /\ DOMAIN saga[j] = 1 .. Len(saga[j])
  BY <1>1, LenProperties
<1>3. PICK s : s = Append(saga[i], Entry(type, about))
  OBVIOUS
<1>4. /\ s \in Seq(Entries) /\ Len(s) = Len(saga[i]) + 1
      /\ \A k \in 1 .. Len(saga[i]) : s[k] = saga[i][k]
      /\ s[Len(saga[i]) + 1] = Entry(type, about)
  BY <1>1, <1>3, AppendProperties
<1>5. DOMAIN s = 1 .. Len(saga[i]) + 1
  BY <1>4, LenProperties
<1>6. saga' = [saga EXCEPT ![i] = s]
  BY <1>3 DEF Journal
<1>7. saga' \in [Invocations -> Seq(Entries)]
  BY <1>4, <1>6 DEF Shapes
<1>8. saga'[i] = s /\ \A j \in Invocations : j # i => saga'[j] = saga[j]
  BY <1>6 DEF Shapes
<1>9. \A k \in DOMAIN s : k \in DOMAIN saga[i] \/ k = Len(saga[i]) + 1
  BY <1>2, <1>5
<1>10. Len(saga[i]) + 1 \in DOMAIN s /\ \A k \in DOMAIN saga[i] : k < Len(saga[i]) + 1 /\ k \in DOMAIN s
  BY <1>2, <1>5
<1>11. \A j \in Invocations : \A k \in DOMAIN saga[j] : k \in Nat
  BY <1>2
<1>12. QED
  BY <1>2, <1>4, <1>7, <1>8, <1>9, <1>10, <1>11

\* Journals are append-only.
Grown == \A j \in Invocations : \A k \in DOMAIN saga[j] :
           k \in DOMAIN saga'[j] /\ saga'[j][k] = saga[j][k]

\* ... so nothing that they vouch for is lost.
LEMMA VouchersStay ==
  ASSUME Grown
  PROVE  /\ Requested \subseteq Requested' /\ Attempted \subseteq Attempted'
         /\ Explained \subseteq Explained' /\ Evident \subseteq Evident'
<1>1. Requested \subseteq Requested'
  BY DEF Grown, Requested, Requests
<1>2. ASSUME NEW q \in Attempted PROVE q \in Attempted'
  <2>1. q \in Requests /\ q.id \in Invocations
    BY DEF Attempted, Requests
  <2>2. PICK j \in DOMAIN saga[q.id], k \in DOMAIN saga[q.id] :
          /\ j < k
          /\ saga[q.id][j].type = "skill.prepare-requested"
          /\ saga[q.id][j].about.arguments = q.arguments
          /\ saga[q.id][k].type = "attempt-succeeded"
    BY DEF Attempted
  <2>3. /\ j \in DOMAIN saga'[q.id] /\ saga'[q.id][j] = saga[q.id][j]
        /\ k \in DOMAIN saga'[q.id] /\ saga'[q.id][k] = saga[q.id][k]
    BY <2>1 DEF Grown
  <2>4. QED
    BY <2>1, <2>2, <2>3 DEF Attempted
<1>3. ASSUME NEW b \in Explained PROVE b \in Explained'
  <2>1. b \in Bundles /\ b.id \in Invocations
    BY DEF Explained, Bundles
  <2>2. PICK j, k, l \in DOMAIN saga[b.id] :
          /\ j < k /\ k < l
          /\ saga[b.id][j].type = "skill.prepare-requested"
          /\ saga[b.id][j].about.arguments = b.arguments
          /\ saga[b.id][k].type = "attempt-succeeded"
          /\ saga[b.id][l] = Entry("skill.prepared", b)
    BY DEF Explained
  <2>3. /\ j \in DOMAIN saga'[b.id] /\ saga'[b.id][j] = saga[b.id][j]
        /\ k \in DOMAIN saga'[b.id] /\ saga'[b.id][k] = saga[b.id][k]
        /\ l \in DOMAIN saga'[b.id] /\ saga'[b.id][l] = saga[b.id][l]
    BY <2>1 DEF Grown
  <2>4. /\ j < k /\ k < l
        /\ saga'[b.id][j].type = "skill.prepare-requested"
        /\ saga'[b.id][j].about.arguments = b.arguments
        /\ saga'[b.id][k].type = "attempt-succeeded"
        /\ saga'[b.id][l] = Entry("skill.prepared", b)
    BY <2>2, <2>3
  <2>5. j \in DOMAIN saga'[b.id] /\ k \in DOMAIN saga'[b.id] /\ l \in DOMAIN saga'[b.id]
    BY <2>3
  <2>6. QED
    BY <2>1, <2>4, <2>5, Zenon DEF Explained
<1>4. Evident \subseteq Evident'
  <2>1. \A i \in Invocations : Has(i, "skill.prepare-failed") => Has(i, "skill.prepare-failed")'
    BY DEF Grown, Has
  <2>2. \A r \in Records : r.bundle \in Bundles /\ r.bundle.id \in Invocations
    BY DEF Records, Bundles
  <2>3. QED
    BY <2>1, <2>2 DEF Grown, Evident
<1>5. QED
  BY <1>1, <1>2, <1>3, <1>4

\* A saga that has a preparation has a last one.
LEMMA LastPreparation ==
  ASSUME Shapes, NEW i \in Invocations, Has(i, "skill.prepared")
  PROVE  \E k \in DOMAIN saga[i] :
           saga[i][k].type = "skill.prepared" /\ saga[i][k].about = Identity(i)
<1> DEFINE Found(k) == /\ saga[i][k].type = "skill.prepared"
                       /\ \A l \in DOMAIN saga[i] : saga[i][l].type = "skill.prepared" => l <= k
<1>1. Len(saga[i]) \in Nat /\ DOMAIN saga[i] = 1 .. Len(saga[i])
  BY LenProperties DEF Shapes
<1>2. PICK n : n = Len(saga[i])
  OBVIOUS
<1>3. PICK T : T = {m \in Nat : n - m \in DOMAIN saga[i] /\ saga[i][n - m].type = "skill.prepared"}
  OBVIOUS
<1>4. T # {} /\ T \subseteq Nat
  <2>1. PICK k \in DOMAIN saga[i] : saga[i][k].type = "skill.prepared"
    BY DEF Has
  <2>2. k \in Nat /\ n \in Nat /\ k <= n
    BY <1>1, <1>2
  <2>3. n - k \in Nat /\ n - (n - k) = k
    BY <2>2
  <2>4. QED
    BY <1>3, <2>1, <2>3
<1>5. PICK m \in T : \A o \in T : ~(<<o, m>> \in OpToRel(<, Nat))
  BY <1>4, NatLessThanWellFounded, WFMin
<1>6. \A o \in T : ~(o < m)
  BY <1>4, <1>5 DEF OpToRel
<1>7. n - m \in DOMAIN saga[i] /\ saga[i][n - m].type = "skill.prepared"
  BY <1>3
<1>8. ASSUME NEW l \in DOMAIN saga[i], saga[i][l].type = "skill.prepared" PROVE l <= n - m
  <2>1. l \in Nat /\ n \in Nat /\ l <= n /\ m \in Nat
    BY <1>1, <1>2, <1>4
  <2>2. n - l \in Nat /\ n - (n - l) = l
    BY <2>1
  <2>3. n - l \in T
    BY <1>3, <1>8, <2>2
  <2>4. ~(n - l < m)
    BY <1>6, <2>3
  <2>5. QED
    BY <2>1, <2>4
<1>9. Found(n - m)
  BY <1>7, <1>8
<1>10. PICK last : last = CHOOSE k \in DOMAIN saga[i] : Found(k)
  OBVIOUS
<1>11. last \in DOMAIN saga[i] /\ Found(last)
  BY <1>7, <1>9, <1>10
<1>12. Identity(i) = saga[i][last].about
  BY <1>10 DEF Identity
<1>13. QED
  BY <1>11, <1>12

\* A record that the reconciliation verifies agrees with its saga.
LEMMA VerdictIsEvident ==
  ASSUME Shapes, SagasInv, NEW r \in Records, Verdict(r.bundle.id, r) = "journal-verified"
  PROVE  r \in Evident
<1>1. r.bundle \in Bundles /\ r.bundle.id \in Invocations
  BY DEF Records, Bundles
<1>2. ~Contradicts(r.bundle.id, r) /\
      (Has(r.bundle.id, "skill.prepared") \/ Has(r.bundle.id, "skill.prepare-failed"))
  BY DEF Verdict
<1>3. CASE Has(r.bundle.id, "skill.prepared")
  <2>1. PICK k \in DOMAIN saga[r.bundle.id] :
          /\ saga[r.bundle.id][k].type = "skill.prepared"
          /\ saga[r.bundle.id][k].about = Identity(r.bundle.id)
    BY <1>1, <1>3, LastPreparation
  <2>2. PICK b : b = Identity(r.bundle.id)
    OBVIOUS
  <2>3. b \in Bundles /\ b.id = r.bundle.id
    BY <1>1, <2>1, <2>2 DEF SagasInv
  <2>4. b.version = r.bundle.version /\ Journaled(b.arguments) = Normalized(r.bundle.arguments)
    BY <1>2, <1>3, <2>2 DEF Contradicts
  <2>5. b.arguments \in Arguments /\ r.bundle.arguments \in Arguments
    BY <1>1, <2>3 DEF Bundles
  <2>6. b.arguments = r.bundle.arguments
    BY <2>4, <2>5, SkillAssumption DEF Journaled, Normalized
  <2>7. b = r.bundle
    BY <1>1, <2>3, <2>4, <2>6 DEF Bundles
  <2>8. saga[r.bundle.id] \in Seq(Entries)
    BY <1>1 DEF Shapes
  <2>9. saga[r.bundle.id][k] \in Entries
    BY <2>8, ElementOfSeq, LenProperties
  <2>10. saga[r.bundle.id][k] = Entry("skill.prepared", r.bundle)
    BY <2>1, <2>2, <2>7, <2>9 DEF Entries, Entry
  <2>11. QED
    BY <2>10 DEF Evident
<1>4. CASE Has(r.bundle.id, "skill.prepare-failed")
  <2>1. r.outcome = "failed"
    BY <1>2, <1>4 DEF Contradicts
  <2>2. QED
    BY <1>4, <2>1 DEF Evident
<1>5. QED
  BY <1>2, <1>3, <1>4

\* What the preparations and closes append are records.
LEMMA WhatIsJournaled ==
  ASSUME NEW type \in Types, NEW about \in Requests \cup Bundles \cup {NoBundle} \cup Records
  PROVE  Entry(type, about) \in Entries
  BY DEF Entry, Entries

\* The journals grow in every step.
LEMMA SagasGrow == IInv /\ [Next]_vars => Grown
<1> SUFFICES ASSUME IInv, [Next]_vars PROVE Grown
  OBVIOUS
<1>a. Shapes
  BY DEF IInv
<1>1. ASSUME NEW p \in Preparers, Begin(p) PROVE Grown
  BY <1>1 DEF Begin, Grown, prepareVars, closeVars
<1>2. ASSUME NEW p \in Preparers, JournalRequest(p) PROVE Grown
  <2>1. request[p].id \in Invocations
    BY <1>2 DEF IInv, PreparationsInv, JournalRequest, Requests
  <2>2. Journal(request[p].id, "skill.prepare-requested", request[p])
    BY <1>2 DEF JournalRequest
  <2>3. Entry("skill.prepare-requested", request[p]) \in Entries
    BY <1>2, <1>a, WhatIsJournaled DEF Types, IInv, PreparationsInv, Shapes, JournalRequest
  <2>4. QED
    BY <1>a, <2>1, <2>2, <2>3, JournalGrows DEF Grown
<1>3. ASSUME NEW p \in Preparers, PortPrepare(p) PROVE Grown
  BY <1>3 DEF PortPrepare, Grown, prepareVars, closeVars
<1>4. ASSUME NEW p \in Preparers, JournalAttempt(p) PROVE Grown
  <2>1. request[p].id \in Invocations
    BY <1>4 DEF IInv, PreparationsInv, JournalAttempt, Requests
  <2>2. PICK type \in {"attempt-failed", "attempt-succeeded"} :
          Journal(request[p].id, type, NoBundle)
    BY <1>4 DEF JournalAttempt
  <2>3. Entry(type, NoBundle) \in Entries
    BY <1>a, WhatIsJournaled DEF Types
  <2>4. QED
    BY <1>a, <2>1, <2>2, <2>3, JournalGrows DEF Grown
<1>5. ASSUME NEW p \in Preparers, JournalPrepared(p) PROVE Grown
  <2>1. request[p].id \in Invocations
    BY <1>5 DEF IInv, PreparationsInv, JournalPrepared, Requests
  <2>2. Journal(request[p].id, "skill.prepared", prepared[p])
    BY <1>5 DEF JournalPrepared
  <2>3. Entry("skill.prepared", prepared[p]) \in Entries
    BY <1>5, <1>a, WhatIsJournaled DEF Types, IInv, PreparationsInv, Shapes, JournalPrepared
  <2>4. QED
    BY <1>a, <2>1, <2>2, <2>3, JournalGrows DEF Grown
<1>6. ASSUME NEW p \in Preparers, JournalPrepareFailed(p) PROVE Grown
  <2>1. request[p].id \in Invocations
    BY <1>6 DEF IInv, PreparationsInv, JournalPrepareFailed, Requests
  <2>2. Journal(request[p].id, "skill.prepare-failed", NoBundle)
    BY <1>6 DEF JournalPrepareFailed
  <2>3. Entry("skill.prepare-failed", NoBundle) \in Entries
    BY <1>6, <1>a, WhatIsJournaled DEF Types, IInv, PreparationsInv, Shapes, JournalPrepareFailed
  <2>4. QED
    BY <1>a, <2>1, <2>2, <2>3, JournalGrows DEF Grown
<1>7. ASSUME NEW p \in Preparers, PrepareEnds(p) PROVE Grown
  BY <1>7 DEF PrepareEnds, Grown, prepareVars, closeVars
<1>8. ASSUME NEW c \in Closers, Close(c) PROVE Grown
  BY <1>8 DEF Close, Grown, prepareVars, closeVars
<1>9. ASSUME NEW c \in Closers, Reconcile(c) PROVE Grown
  BY <1>9 DEF Reconcile, Grown, prepareVars, closeVars
<1>10. ASSUME NEW c \in Closers, SaveDiary(c) PROVE Grown
  BY <1>10 DEF SaveDiary, Grown, prepareVars, closeVars
<1>11. ASSUME NEW c \in Closers, RenameDiary(c) PROVE Grown
  BY <1>11 DEF RenameDiary, Grown, prepareVars, closeVars
<1>12. ASSUME NEW c \in Closers, Link(c) PROVE Grown
  <2>1. record[c].bundle.id \in Invocations
    BY <1>12 DEF IInv, ClosesInv, Link, Records, Bundles
  <2>2. Journal(record[c].bundle.id, "skill.invocation-linked", record[c])
    BY <1>12 DEF Link
  <2>3. Entry("skill.invocation-linked", record[c]) \in Entries
    BY <1>12, <1>a, WhatIsJournaled DEF Types, IInv, ClosesInv, Shapes, Link
  <2>4. QED
    BY <1>a, <2>1, <2>2, <2>3, JournalGrows DEF Grown
<1>13. ASSUME NEW c \in Closers, CloseEnds(c) PROVE Grown
  BY <1>13 DEF CloseEnds, Grown, prepareVars, closeVars
<1>14. CASE Sync
  BY <1>14 DEF Sync, Grown, prepareVars, closeVars
<1>15. CASE UNCHANGED vars
  BY <1>15 DEF vars, Grown
<1> QED
  BY <1>1, <1>2, <1>3, <1>4, <1>5, <1>6, <1>7, <1>8,
     <1>9, <1>10, <1>11, <1>12, <1>13, <1>14, <1>15
  DEF Next, PrepareStep, CloseStep

\* Diaries are replaced by diaries of the same record.
LEMMA KeptStays == IInv /\ [Next]_vars => Kept \subseteq Kept'
<1> SUFFICES ASSUME IInv, [Next]_vars PROVE Kept \subseteq Kept'
  OBVIOUS
<1>1. ASSUME NEW p \in Preparers, Begin(p) PROVE Kept \subseteq Kept'
  BY <1>1 DEF Begin, Kept, closeVars
<1>2. ASSUME NEW p \in Preparers, JournalRequest(p) PROVE Kept \subseteq Kept'
  BY <1>2 DEF JournalRequest, Kept, closeVars
<1>3. ASSUME NEW p \in Preparers, PortPrepare(p) PROVE Kept \subseteq Kept'
  BY <1>3 DEF PortPrepare, Kept, closeVars
<1>4. ASSUME NEW p \in Preparers, JournalAttempt(p) PROVE Kept \subseteq Kept'
  BY <1>4 DEF JournalAttempt, Kept, closeVars
<1>5. ASSUME NEW p \in Preparers, JournalPrepared(p) PROVE Kept \subseteq Kept'
  BY <1>5 DEF JournalPrepared, Kept, closeVars
<1>6. ASSUME NEW p \in Preparers, JournalPrepareFailed(p) PROVE Kept \subseteq Kept'
  BY <1>6 DEF JournalPrepareFailed, Kept, closeVars
<1>7. ASSUME NEW p \in Preparers, PrepareEnds(p) PROVE Kept \subseteq Kept'
  BY <1>7 DEF PrepareEnds, Kept, closeVars
<1>8. ASSUME NEW c \in Closers, Close(c) PROVE Kept \subseteq Kept'
  BY <1>8 DEF Close, Kept, closeVars
<1>9. ASSUME NEW c \in Closers, Reconcile(c) PROVE Kept \subseteq Kept'
  BY <1>9 DEF Reconcile, Kept, closeVars
<1>10. ASSUME NEW c \in Closers, SaveDiary(c) PROVE Kept \subseteq Kept'
  BY <1>10 DEF SaveDiary, Kept, closeVars
<1>11. ASSUME NEW c \in Closers, RenameDiary(c) PROVE Kept \subseteq Kept'
  <2>1. diaries' = {d \in diaries : d.record # record[c]}
                     \cup {[record |-> record[c], provenance |-> accepted[c]]}
    BY <1>11 DEF RenameDiary
  <2>2. ASSUME NEW d \in diaries PROVE \E e \in diaries' : e.record = d.record
    <3>1. CASE d.record = record[c]
      <4>1. [record |-> record[c], provenance |-> accepted[c]] \in diaries'
        BY <2>1
      <4>2. QED
        BY <3>1, <4>1
    <3>2. CASE d.record # record[c]
      BY <2>1, <3>2
    <3>3. QED
      BY <3>1, <3>2
  <2>3. QED
    BY <2>2 DEF Kept
<1>12. ASSUME NEW c \in Closers, Link(c) PROVE Kept \subseteq Kept'
  BY <1>12 DEF Link, Kept, closeVars
<1>13. ASSUME NEW c \in Closers, CloseEnds(c) PROVE Kept \subseteq Kept'
  BY <1>13 DEF CloseEnds, Kept, closeVars
<1>14. CASE Sync
  BY <1>14 DEF Sync, Kept, closeVars
<1>15. CASE UNCHANGED vars
  BY <1>15 DEF vars, Kept
<1> QED
  BY <1>1, <1>2, <1>3, <1>4, <1>5, <1>6, <1>7, <1>8,
     <1>9, <1>10, <1>11, <1>12, <1>13, <1>14, <1>15
  DEF Next, PrepareStep, CloseStep

\* In the beginning nothing is promised.
LEMMA InitInv == Init => IInv
<1> SUFFICES ASSUME Init PROVE IInv
  OBVIOUS
<1>1. Shapes
  BY SkillAssumption, EmptySeq DEF Init, Shapes
<1>2. PreparationsInv /\ ClosesInv
  BY SkillAssumption DEF Init, PreparationsInv, ClosesInv, Proc
<1>3. SagasInv /\ DiariesInv /\ delivered \subseteq Explained /\ ReplaysReturnTheirBundle
  BY DEF Init, SagasInv, DiariesInv, ReplaysReturnTheirBundle
<1>4. QED
  BY <1>1, <1>2, <1>3 DEF IInv

\* The shapes of the variables.
LEMMA ShapesStep == IInv /\ [Next]_vars => Shapes'
<1> SUFFICES ASSUME IInv, [Next]_vars PROVE Shapes'
  OBVIOUS
<1>a. Shapes /\ PreparationsInv /\ ClosesInv /\ delivered \subseteq Explained
  BY DEF IInv
<1> USE SkillAssumption DEF prepareVars, closeVars, Goto, PrepareOver, CloseOver, Proc
<1>1. ASSUME NEW p \in Preparers, Begin(p) PROVE Shapes'
  <2>1. PICK i \in Invocations, a \in Arguments :
          request' = [request EXCEPT ![p] = [id |-> i, arguments |-> a]]
    BY <1>1 DEF Begin
  <2>2. [id |-> i, arguments |-> a] \in Requests
    BY DEF Requests
  <2>3. request' \in [Preparers -> Requests \cup {NoBundle}]
    BY <1>a, <2>1, <2>2 DEF Shapes
  <2>4. QED
    BY <1>1, <1>a, <2>3 DEF Begin, Shapes
<1>2. ASSUME NEW p \in Preparers, JournalRequest(p) PROVE Shapes'
  <2>1. saga' \in [Invocations -> Seq(Entries)]
    <3>1. request[p].id \in Invocations
      BY <1>2, <1>a DEF PreparationsInv, JournalRequest, Requests, Records, Bundles
    <3>2. Entry("skill.prepare-requested", request[p]) \in Entries
      BY <1>2, <1>a, WhatIsJournaled DEF Types, Shapes, PreparationsInv, JournalRequest
    <3>3. QED
      <4>1. Journal(request[p].id, "skill.prepare-requested", request[p])
        BY <1>2 DEF JournalRequest
      <4>2. Shapes
        BY <1>a
      <4>3. QED
        BY <3>1, <3>2, <4>1, <4>2, JournalGrows
  <2>2. QED
    BY <1>2, <1>a, <2>1 DEF JournalRequest, Shapes
<1>3. ASSUME NEW p \in Preparers, PortPrepare(p) PROVE Shapes'
  <2>1. PICK b : b = Bundle(request[p].id, index, request[p].arguments)
    OBVIOUS
  <2>2. index # 0 => b \in Bundles
    <3>1. request[p] \in Requests /\ index \in 0 .. MaxVersion
      BY <1>3, <1>a DEF PortPrepare, PreparationsInv, Shapes
    <3>2. QED
      BY <2>1, <3>1 DEF Requests, Bundle, Bundles, Versions
  <2>3. prepared' \in [Preparers -> Bundles \cup {NoBundle}]
    BY <1>3, <1>a, <2>1, <2>2 DEF PortPrepare, Shapes
  <2>4. known' \in [index : 0 .. MaxVersion, bundles : SUBSET Bundles]
    <3>1. known \in [index : 0 .. MaxVersion, bundles : SUBSET Bundles] /\ index \in 0 .. MaxVersion
      BY <1>a DEF Shapes
    <3>2. \/ known' = known
          \/ index # 0 /\ known' = [known EXCEPT !.bundles = known.bundles \cup {b}]
          \/ known' = [index |-> index, bundles |-> IF index = 0 THEN {} ELSE {b}]
      BY <1>3, <2>1, <3>1 DEF PortPrepare
    <3>3. QED
      BY <2>2, <3>1, <3>2
  <2>5. QED
    BY <1>3, <1>a, <2>3, <2>4 DEF PortPrepare, Shapes
<1>4. ASSUME NEW p \in Preparers, JournalAttempt(p) PROVE Shapes'
  <2>1. saga' \in [Invocations -> Seq(Entries)]
    <3>0. PICK T \in {"attempt-failed", "attempt-succeeded"} : Journal(request[p].id, T, NoBundle)
      BY <1>4 DEF JournalAttempt
    <3>1. request[p].id \in Invocations
      BY <1>4, <1>a DEF PreparationsInv, JournalAttempt, Requests, Records, Bundles
    <3>2. Entry(T, NoBundle) \in Entries
      BY <1>4, <1>a, WhatIsJournaled DEF Types, Shapes, PreparationsInv, JournalAttempt
    <3>3. QED
      BY <1>a, <3>0, <3>1, <3>2, JournalGrows
  <2>2. QED
    BY <1>4, <1>a, <2>1 DEF JournalAttempt, Shapes
<1>5. ASSUME NEW p \in Preparers, JournalPrepared(p) PROVE Shapes'
  <2>1. saga' \in [Invocations -> Seq(Entries)]
    <3>1. request[p].id \in Invocations
      BY <1>5, <1>a DEF PreparationsInv, JournalPrepared, Requests, Records, Bundles
    <3>2. Entry("skill.prepared", prepared[p]) \in Entries
      BY <1>5, <1>a, WhatIsJournaled DEF Types, Shapes, PreparationsInv, JournalPrepared
    <3>3. QED
      <4>1. Journal(request[p].id, "skill.prepared", prepared[p])
        BY <1>5 DEF JournalPrepared
      <4>2. Shapes
        BY <1>a
      <4>3. QED
        BY <3>1, <3>2, <4>1, <4>2, JournalGrows
  <2>2. QED
    BY <1>5, <1>a, <2>1 DEF JournalPrepared, Shapes
<1>6. ASSUME NEW p \in Preparers, JournalPrepareFailed(p) PROVE Shapes'
  <2>1. saga' \in [Invocations -> Seq(Entries)]
    <3>1. request[p].id \in Invocations
      BY <1>6, <1>a DEF PreparationsInv, JournalPrepareFailed, Requests, Records, Bundles
    <3>2. Entry("skill.prepare-failed", NoBundle) \in Entries
      BY <1>6, <1>a, WhatIsJournaled DEF Types, Shapes, PreparationsInv, JournalPrepareFailed
    <3>3. QED
      <4>1. Journal(request[p].id, "skill.prepare-failed", NoBundle)
        BY <1>6 DEF JournalPrepareFailed
      <4>2. Shapes
        BY <1>a
      <4>3. QED
        BY <3>1, <3>2, <4>1, <4>2, JournalGrows
  <2>2. QED
    BY <1>6, <1>a, <2>1 DEF JournalPrepareFailed, Shapes
<1>7. ASSUME NEW p \in Preparers, PrepareEnds(p) PROVE Shapes'
  BY <1>7, <1>a DEF PrepareEnds, Shapes
<1>8. ASSUME NEW c \in Closers, Close(c) PROVE Shapes'
  BY <1>8, <1>a DEF Close, Shapes
<1>9. ASSUME NEW c \in Closers, Reconcile(c) PROVE Shapes'
  <2>1. accepted' \in [Closers -> {"none", "rejected", "runtime-declared", "journal-verified"}]
    BY <1>9, <1>a DEF Reconcile, Shapes, Verdict
  <2>2. at' \in [Proc -> {"idle", "request", "port", "attempt", "outcome",
                          "reconcile", "rejected", "save", "rename", "link", "done"}]
    BY <1>9, <1>a DEF Reconcile, Shapes
  <2>3. QED
    BY <1>9, <1>a, <2>1, <2>2 DEF Reconcile, Shapes
<1>10. ASSUME NEW c \in Closers, SaveDiary(c) PROVE Shapes'
  BY <1>10, <1>a DEF SaveDiary, Shapes
<1>11. ASSUME NEW c \in Closers, RenameDiary(c) PROVE Shapes'
  <2>1. record[c] \in Records
    BY <1>11, <1>a DEF RenameDiary, ClosesInv
  <2>2. [record |-> record[c], provenance |-> accepted[c]] \in
          [record : Records, provenance : {"none", "rejected", "runtime-declared", "journal-verified"}]
    BY <1>a, <2>1 DEF Shapes
  <2>3. QED
    BY <1>11, <1>a, <2>2 DEF RenameDiary, Shapes
<1>12. ASSUME NEW c \in Closers, Link(c) PROVE Shapes'
  <2>1. saga' \in [Invocations -> Seq(Entries)]
    <3>1. record[c].bundle.id \in Invocations
      BY <1>12, <1>a DEF ClosesInv, Link, Requests, Records, Bundles
    <3>2. Entry("skill.invocation-linked", record[c]) \in Entries
      BY <1>12, <1>a, WhatIsJournaled DEF Types, Shapes, ClosesInv, Link
    <3>3. QED
      <4>1. Journal(record[c].bundle.id, "skill.invocation-linked", record[c])
        BY <1>12 DEF Link
      <4>2. Shapes
        BY <1>a
      <4>3. QED
        BY <3>1, <3>2, <4>1, <4>2, JournalGrows
  <2>2. QED
    BY <1>12, <1>a, <2>1 DEF Link, Shapes
<1>13. ASSUME NEW c \in Closers, CloseEnds(c) PROVE Shapes'
  BY <1>13, <1>a DEF CloseEnds, Shapes
<1>14. CASE Sync
  BY <1>14, <1>a DEF Sync, Shapes
<1>15. CASE UNCHANGED vars
  BY <1>15, <1>a DEF vars, Shapes
<1> QED
  BY <1>1, <1>2, <1>3, <1>4, <1>5, <1>6, <1>7, <1>8,
     <1>9, <1>10, <1>11, <1>12, <1>13, <1>14, <1>15
  DEF Next, PrepareStep, CloseStep

\* A preparation has journaled what its step supposes.
LEMMA PreparationsStep == IInv /\ [Next]_vars => PreparationsInv'
<1> SUFFICES ASSUME IInv, [Next]_vars PROVE PreparationsInv'
  OBVIOUS
<1>a. Shapes /\ PreparationsInv /\ ClosesInv /\ SagasInv /\ DiariesInv /\ delivered \subseteq Explained
  BY DEF IInv
<1>b. /\ Requested \subseteq Requested' /\ Attempted \subseteq Attempted'
      /\ Explained \subseteq Explained' /\ Evident \subseteq Evident' /\ Kept \subseteq Kept'
  BY SagasGrow, VouchersStay, KeptStays
<1> USE SkillAssumption DEF prepareVars, closeVars, Goto, PrepareOver, CloseOver, Proc
<1>1. ASSUME NEW p \in Preparers, Begin(p) PROVE PreparationsInv'
  <2>1. PICK i \in Invocations, a \in Arguments :
          request' = [request EXCEPT ![p] = [id |-> i, arguments |-> a]]
    BY <1>1 DEF Begin
  <2>2. [id |-> i, arguments |-> a] \in Requests
    BY DEF Requests
  <2>3. request'[p] \in Requests /\ \A x \in Preparers : x # p => request'[x] = request[x]
    BY <1>a, <2>1, <2>2 DEF Shapes
  <2>4. prepared[p] = NoBundle
    BY <1>1, <1>a DEF Begin, PreparationsInv
  <2>5. QED
    BY <1>1, <1>a, <1>b, <2>3, <2>4 DEF Begin, PreparationsInv, Shapes
<1>2. ASSUME NEW p \in Preparers, JournalRequest(p) PROVE PreparationsInv'
  <2>1. request[p] \in Requests /\ request[p].id \in Invocations
    BY <1>2, <1>a DEF JournalRequest, PreparationsInv, Requests
  <2>2. Entry("skill.prepare-requested", request[p]) \in Entries
    BY <2>1, WhatIsJournaled DEF Types
  <2>3. \E n \in DOMAIN saga'[request[p].id] :
          saga'[request[p].id][n] = Entry("skill.prepare-requested", request[p])
    <3>1. Journal(request[p].id, "skill.prepare-requested", request[p])
      BY <1>2 DEF JournalRequest
    <3>2. Shapes
      BY <1>a
    <3>3. QED
      BY <2>1, <2>2, <3>1, <3>2, JournalGrows
  <2>4. request[p] \in Requested'
    BY <2>1, <2>3 DEF Requested, Entry
  <2>5. QED
    BY <1>2, <1>a, <1>b, <2>4 DEF JournalRequest, PreparationsInv, Shapes
<1>3. ASSUME NEW p \in Preparers, PortPrepare(p) PROVE PreparationsInv'
  <2>1. PICK b : b = Bundle(request[p].id, index, request[p].arguments)
    OBVIOUS
  <2>2. b.id = request[p].id /\ b.arguments = request[p].arguments
    BY <2>1 DEF Bundle
  <2>3. prepared'[p] \in {NoBundle, b} /\ \A x \in Preparers : x # p => prepared'[x] = prepared[x]
    BY <1>3, <1>a, <2>1 DEF PortPrepare, Shapes
  <2>4. /\ at'[p] = "attempt" /\ \A x \in Preparers : x # p => at'[x] = at[x]
        /\ request' = request
    BY <1>3, <1>a DEF PortPrepare, Shapes
  <2>5. QED
    BY <1>3, <1>a, <1>b, <2>2, <2>3, <2>4 DEF PortPrepare, PreparationsInv
<1>4. ASSUME NEW p \in Preparers, JournalAttempt(p) PROVE PreparationsInv'
  <2>1. request[p] \in Requests /\ request[p].id \in Invocations /\ request[p] \in Requested
    BY <1>4, <1>a DEF JournalAttempt, PreparationsInv, Requests
  <2>2. ASSUME prepared[p] # NoBundle PROVE request[p] \in Attempted'
    <3>1. Journal(request[p].id, "attempt-succeeded", NoBundle)
      BY <1>4, <2>2 DEF JournalAttempt
    <3>2. Entry("attempt-succeeded", NoBundle) \in Entries
      BY WhatIsJournaled DEF Types
    <3>3. PICK n \in DOMAIN saga'[request[p].id] :
            /\ saga'[request[p].id][n] = Entry("attempt-succeeded", NoBundle)
            /\ \A k \in DOMAIN saga[request[p].id] : k < n
      BY <1>a, <2>1, <3>1, <3>2, JournalGrows
    <3>4. PICK j \in DOMAIN saga[request[p].id] :
            /\ saga[request[p].id][j].type = "skill.prepare-requested"
            /\ saga[request[p].id][j].about.arguments = request[p].arguments
      BY <2>1 DEF Requested
    <3>5. j \in DOMAIN saga'[request[p].id] /\ saga'[request[p].id][j] = saga[request[p].id][j]
      BY <2>1, SagasGrow DEF Grown
    <3>6. /\ j < n /\ saga'[request[p].id][n].type = "attempt-succeeded"
          /\ saga'[request[p].id][j].type = "skill.prepare-requested"
          /\ saga'[request[p].id][j].about.arguments = request[p].arguments
      <4>1. saga'[request[p].id][n].type = "attempt-succeeded"
        BY <3>3 DEF Entry
      <4>2. j < n
        BY <3>3
      <4>3. QED
        BY <3>4, <3>5, <4>1, <4>2
    <3>7. QED
      BY <2>1, <3>3, <3>5, <3>6, Zenon DEF Attempted
  <2>3. QED
    BY <1>4, <1>a, <1>b, <2>2 DEF JournalAttempt, PreparationsInv, Shapes
<1>5. ASSUME NEW p \in Preparers, JournalPrepared(p) PROVE PreparationsInv'
  BY <1>5, <1>a, <1>b DEF JournalPrepared, PreparationsInv, Shapes
<1>6. ASSUME NEW p \in Preparers, JournalPrepareFailed(p) PROVE PreparationsInv'
  BY <1>6, <1>a, <1>b DEF JournalPrepareFailed, PreparationsInv, Shapes
<1>7. ASSUME NEW p \in Preparers, PrepareEnds(p) PROVE PreparationsInv'
  BY <1>7, <1>a, <1>b DEF PrepareEnds, PreparationsInv, Shapes
<1>8. ASSUME NEW c \in Closers, Close(c) PROVE PreparationsInv'
  BY <1>8, <1>a, <1>b DEF Close, PreparationsInv, Shapes
<1>9. ASSUME NEW c \in Closers, Reconcile(c) PROVE PreparationsInv'
  BY <1>9, <1>a, <1>b DEF Reconcile, PreparationsInv, Shapes
<1>10. ASSUME NEW c \in Closers, SaveDiary(c) PROVE PreparationsInv'
  BY <1>10, <1>a, <1>b DEF SaveDiary, PreparationsInv, Shapes
<1>11. ASSUME NEW c \in Closers, RenameDiary(c) PROVE PreparationsInv'
  BY <1>11, <1>a, <1>b DEF RenameDiary, PreparationsInv, Shapes
<1>12. ASSUME NEW c \in Closers, Link(c) PROVE PreparationsInv'
  BY <1>12, <1>a, <1>b DEF Link, PreparationsInv, Shapes
<1>13. ASSUME NEW c \in Closers, CloseEnds(c) PROVE PreparationsInv'
  BY <1>13, <1>a, <1>b DEF CloseEnds, PreparationsInv, Shapes
<1>14. CASE Sync
  BY <1>14, <1>a, <1>b DEF Sync, PreparationsInv, Shapes
<1>15. CASE UNCHANGED vars
  BY <1>15, <1>a, <1>b DEF vars, PreparationsInv
<1> QED
  BY <1>1, <1>2, <1>3, <1>4, <1>5, <1>6, <1>7, <1>8,
     <1>9, <1>10, <1>11, <1>12, <1>13, <1>14, <1>15
  DEF Next, PrepareStep, CloseStep

\* A close has found the evidence that its verdict names.
LEMMA ClosesStep == IInv /\ [Next]_vars => ClosesInv'
<1> SUFFICES ASSUME IInv, [Next]_vars PROVE ClosesInv'
  OBVIOUS
<1>a. Shapes /\ PreparationsInv /\ ClosesInv /\ SagasInv /\ DiariesInv /\ delivered \subseteq Explained
  BY DEF IInv
<1>b. /\ Requested \subseteq Requested' /\ Attempted \subseteq Attempted'
      /\ Explained \subseteq Explained' /\ Evident \subseteq Evident' /\ Kept \subseteq Kept'
  BY SagasGrow, VouchersStay, KeptStays
<1> USE SkillAssumption DEF prepareVars, closeVars, Goto, PrepareOver, CloseOver, Proc
<1>1. ASSUME NEW p \in Preparers, Begin(p) PROVE ClosesInv'
  BY <1>1, <1>a, <1>b DEF Begin, ClosesInv, Shapes
<1>2. ASSUME NEW p \in Preparers, JournalRequest(p) PROVE ClosesInv'
  BY <1>2, <1>a, <1>b DEF JournalRequest, ClosesInv, Shapes
<1>3. ASSUME NEW p \in Preparers, PortPrepare(p) PROVE ClosesInv'
  BY <1>3, <1>a, <1>b DEF PortPrepare, ClosesInv, Shapes
<1>4. ASSUME NEW p \in Preparers, JournalAttempt(p) PROVE ClosesInv'
  BY <1>4, <1>a, <1>b DEF JournalAttempt, ClosesInv, Shapes
<1>5. ASSUME NEW p \in Preparers, JournalPrepared(p) PROVE ClosesInv'
  BY <1>5, <1>a, <1>b DEF JournalPrepared, ClosesInv, Shapes
<1>6. ASSUME NEW p \in Preparers, JournalPrepareFailed(p) PROVE ClosesInv'
  BY <1>6, <1>a, <1>b DEF JournalPrepareFailed, ClosesInv, Shapes
<1>7. ASSUME NEW p \in Preparers, PrepareEnds(p) PROVE ClosesInv'
  BY <1>7, <1>a, <1>b DEF PrepareEnds, ClosesInv, Shapes
<1>8. ASSUME NEW c \in Closers, Close(c) PROVE ClosesInv'
  <2>1. PICK r \in Records : record' = [record EXCEPT ![c] = r]
    BY <1>8 DEF Close
  <2>2. record'[c] \in Records /\ \A x \in Closers : x # c => record'[x] = record[x]
    BY <1>a, <2>1 DEF Shapes
  <2>3. accepted[c] = "none"
    BY <1>8, <1>a DEF Close, ClosesInv
  <2>4. QED
    BY <1>8, <1>a, <1>b, <2>2, <2>3 DEF Close, ClosesInv, Shapes
<1>9. ASSUME NEW c \in Closers, Reconcile(c) PROVE ClosesInv'
  <2>1. record[c] \in Records
    BY <1>9, <1>a DEF Reconcile, ClosesInv
  <2>2. accepted'[c] = Verdict(record[c].bundle.id, record[c])
    BY <1>9, <1>a DEF Reconcile, Shapes
  <2>3. accepted'[c] = "journal-verified" => record[c] \in Evident'
    BY <1>a, <1>b, <2>1, <2>2, VerdictIsEvident
  <2>4. /\ \A x \in Closers : x # c => accepted'[x] = accepted[x] /\ at'[x] = at[x]
        /\ at'[c] \in {"rejected", "save"} /\ record' = record
    BY <1>9, <1>a DEF Reconcile, Shapes
  <2>5. QED
    BY <1>a, <1>b, <2>1, <2>3, <2>4 DEF ClosesInv
<1>10. ASSUME NEW c \in Closers, SaveDiary(c) PROVE ClosesInv'
  <2>1. at'[c] = "link" => record[c] \in Kept
    BY <1>10, <1>a DEF SaveDiary, Shapes, Kept
  <2>2. QED
    BY <1>10, <1>a, <1>b, <2>1 DEF SaveDiary, ClosesInv, Shapes
<1>11. ASSUME NEW c \in Closers, RenameDiary(c) PROVE ClosesInv'
  <2>1. [record |-> record[c], provenance |-> accepted[c]] \in diaries'
    BY <1>11 DEF RenameDiary
  <2>2. record[c] \in Kept'
    BY <2>1 DEF Kept
  <2>3. QED
    BY <1>11, <1>a, <1>b, <2>2 DEF RenameDiary, ClosesInv, Shapes
<1>12. ASSUME NEW c \in Closers, Link(c) PROVE ClosesInv'
  BY <1>12, <1>a, <1>b DEF Link, ClosesInv, Shapes
<1>13. ASSUME NEW c \in Closers, CloseEnds(c) PROVE ClosesInv'
  BY <1>13, <1>a, <1>b DEF CloseEnds, ClosesInv, Shapes
<1>14. CASE Sync
  BY <1>14, <1>a, <1>b DEF Sync, ClosesInv, Shapes
<1>15. CASE UNCHANGED vars
  BY <1>15, <1>a, <1>b DEF vars, ClosesInv
<1> QED
  BY <1>1, <1>2, <1>3, <1>4, <1>5, <1>6, <1>7, <1>8,
     <1>9, <1>10, <1>11, <1>12, <1>13, <1>14, <1>15
  DEF Next, PrepareStep, CloseStep

\* Bundles and links in a saga are those of its invocation.
LEMMA SagasStep == IInv /\ [Next]_vars => SagasInv'
<1> SUFFICES ASSUME IInv, [Next]_vars PROVE SagasInv'
  OBVIOUS
<1>a. Shapes /\ PreparationsInv /\ ClosesInv /\ SagasInv /\ DiariesInv /\ delivered \subseteq Explained
  BY DEF IInv
<1>b. /\ Requested \subseteq Requested' /\ Attempted \subseteq Attempted'
      /\ Explained \subseteq Explained' /\ Evident \subseteq Evident' /\ Kept \subseteq Kept'
  BY SagasGrow, VouchersStay, KeptStays
<1> USE SkillAssumption DEF prepareVars, closeVars, Goto, PrepareOver, CloseOver, Proc
<1>1. ASSUME NEW p \in Preparers, Begin(p) PROVE SagasInv'
  BY <1>1, <1>a, <1>b DEF Begin, SagasInv
<1>2. ASSUME NEW p \in Preparers, JournalRequest(p) PROVE SagasInv'
  <2>1. request[p].id \in Invocations
    BY <1>2, <1>a DEF PreparationsInv, JournalRequest, Requests, Records, Bundles, Shapes
  <2>2. Entry("skill.prepare-requested", request[p]) \in Entries
    BY <1>2, <1>a, WhatIsJournaled DEF Types, Shapes, PreparationsInv, JournalRequest
  <2>3. \A j \in Invocations : \A k \in DOMAIN saga'[j] :
          \/ k \in DOMAIN saga[j] /\ saga'[j][k] = saga[j][k]
          \/ j = request[p].id /\ saga'[j][k] = Entry("skill.prepare-requested", request[p])
    <3>1. Journal(request[p].id, "skill.prepare-requested", request[p])
      BY <1>2 DEF JournalRequest
    <3>2. Shapes
      BY <1>a
    <3>3. QED
      BY <2>1, <2>2, <3>1, <3>2, JournalGrows
  <2>4. QED
    BY <1>a, <1>b, <2>1, <2>3 DEF SagasInv, Entry
<1>3. ASSUME NEW p \in Preparers, PortPrepare(p) PROVE SagasInv'
  BY <1>3, <1>a, <1>b DEF PortPrepare, SagasInv
<1>4. ASSUME NEW p \in Preparers, JournalAttempt(p) PROVE SagasInv'
  <2>0. PICK T \in {"attempt-failed", "attempt-succeeded"} : Journal(request[p].id, T, NoBundle)
    BY <1>4 DEF JournalAttempt
  <2>1. request[p].id \in Invocations
    BY <1>4, <1>a DEF PreparationsInv, JournalAttempt, Requests, Records, Bundles, Shapes
  <2>2. Entry(T, NoBundle) \in Entries
    BY <1>4, <1>a, WhatIsJournaled DEF Types, Shapes, PreparationsInv, JournalAttempt
  <2>3. \A j \in Invocations : \A k \in DOMAIN saga'[j] :
          \/ k \in DOMAIN saga[j] /\ saga'[j][k] = saga[j][k]
          \/ j = request[p].id /\ saga'[j][k] = Entry(T, NoBundle)
    BY <1>a, <2>0, <2>1, <2>2, JournalGrows
  <2>4. QED
    BY <1>a, <1>b, <2>0, <2>1, <2>3 DEF SagasInv, Entry
<1>5. ASSUME NEW p \in Preparers, JournalPrepared(p) PROVE SagasInv'
  <2>1. request[p].id \in Invocations /\ prepared[p] \in Bundles /\ prepared[p].id = request[p].id
    BY <1>5, <1>a DEF PreparationsInv, JournalPrepared, Requests, Records, Bundles, Shapes
  <2>2. Entry("skill.prepared", prepared[p]) \in Entries
    BY <1>5, <1>a, WhatIsJournaled DEF Types, Shapes, PreparationsInv, JournalPrepared
  <2>3. \A j \in Invocations : \A k \in DOMAIN saga'[j] :
          \/ k \in DOMAIN saga[j] /\ saga'[j][k] = saga[j][k]
          \/ j = request[p].id /\ saga'[j][k] = Entry("skill.prepared", prepared[p])
    <3>1. Journal(request[p].id, "skill.prepared", prepared[p])
      BY <1>5 DEF JournalPrepared
    <3>2. Shapes
      BY <1>a
    <3>3. QED
      BY <2>1, <2>2, <3>1, <3>2, JournalGrows
  <2>4. QED
    BY <1>a, <1>b, <2>1, <2>3 DEF SagasInv, Entry
<1>6. ASSUME NEW p \in Preparers, JournalPrepareFailed(p) PROVE SagasInv'
  <2>1. request[p].id \in Invocations
    BY <1>6, <1>a DEF PreparationsInv, JournalPrepareFailed, Requests, Records, Bundles, Shapes
  <2>2. Entry("skill.prepare-failed", NoBundle) \in Entries
    BY <1>6, <1>a, WhatIsJournaled DEF Types, Shapes, PreparationsInv, JournalPrepareFailed
  <2>3. \A j \in Invocations : \A k \in DOMAIN saga'[j] :
          \/ k \in DOMAIN saga[j] /\ saga'[j][k] = saga[j][k]
          \/ j = request[p].id /\ saga'[j][k] = Entry("skill.prepare-failed", NoBundle)
    <3>1. Journal(request[p].id, "skill.prepare-failed", NoBundle)
      BY <1>6 DEF JournalPrepareFailed
    <3>2. Shapes
      BY <1>a
    <3>3. QED
      BY <2>1, <2>2, <3>1, <3>2, JournalGrows
  <2>4. QED
    BY <1>a, <1>b, <2>1, <2>3 DEF SagasInv, Entry
<1>7. ASSUME NEW p \in Preparers, PrepareEnds(p) PROVE SagasInv'
  BY <1>7, <1>a, <1>b DEF PrepareEnds, SagasInv
<1>8. ASSUME NEW c \in Closers, Close(c) PROVE SagasInv'
  BY <1>8, <1>a, <1>b DEF Close, SagasInv
<1>9. ASSUME NEW c \in Closers, Reconcile(c) PROVE SagasInv'
  BY <1>9, <1>a, <1>b DEF Reconcile, SagasInv
<1>10. ASSUME NEW c \in Closers, SaveDiary(c) PROVE SagasInv'
  BY <1>10, <1>a, <1>b DEF SaveDiary, SagasInv
<1>11. ASSUME NEW c \in Closers, RenameDiary(c) PROVE SagasInv'
  BY <1>11, <1>a, <1>b DEF RenameDiary, SagasInv
<1>12. ASSUME NEW c \in Closers, Link(c) PROVE SagasInv'
  <2>1. record[c].bundle.id \in Invocations /\ record[c] \in Kept
    BY <1>12, <1>a DEF ClosesInv, Link, Requests, Records, Bundles, Shapes
  <2>2. Entry("skill.invocation-linked", record[c]) \in Entries
    BY <1>12, <1>a, WhatIsJournaled DEF Types, Shapes, ClosesInv, Link
  <2>3. \A j \in Invocations : \A k \in DOMAIN saga'[j] :
          \/ k \in DOMAIN saga[j] /\ saga'[j][k] = saga[j][k]
          \/ j = record[c].bundle.id /\ saga'[j][k] = Entry("skill.invocation-linked", record[c])
    <3>1. Journal(record[c].bundle.id, "skill.invocation-linked", record[c])
      BY <1>12 DEF Link
    <3>2. Shapes
      BY <1>a
    <3>3. QED
      BY <2>1, <2>2, <3>1, <3>2, JournalGrows
  <2>4. QED
    BY <1>a, <1>b, <2>1, <2>3 DEF SagasInv, Entry
<1>13. ASSUME NEW c \in Closers, CloseEnds(c) PROVE SagasInv'
  BY <1>13, <1>a, <1>b DEF CloseEnds, SagasInv
<1>14. CASE Sync
  BY <1>14, <1>a, <1>b DEF Sync, SagasInv
<1>15. CASE UNCHANGED vars
  BY <1>15, <1>a, <1>b DEF vars, SagasInv
<1> QED
  BY <1>1, <1>2, <1>3, <1>4, <1>5, <1>6, <1>7, <1>8,
     <1>9, <1>10, <1>11, <1>12, <1>13, <1>14, <1>15
  DEF Next, PrepareStep, CloseStep

\* One diary for an artifact, with the evidence that it names.
LEMMA DiariesStep == IInv /\ [Next]_vars => DiariesInv'
<1> SUFFICES ASSUME IInv, [Next]_vars PROVE DiariesInv'
  OBVIOUS
<1>a. Shapes /\ PreparationsInv /\ ClosesInv /\ SagasInv /\ DiariesInv /\ delivered \subseteq Explained
  BY DEF IInv
<1>b. /\ Requested \subseteq Requested' /\ Attempted \subseteq Attempted'
      /\ Explained \subseteq Explained' /\ Evident \subseteq Evident' /\ Kept \subseteq Kept'
  BY SagasGrow, VouchersStay, KeptStays
<1> USE SkillAssumption DEF prepareVars, closeVars, Goto, PrepareOver, CloseOver, Proc
<1>1. ASSUME NEW p \in Preparers, Begin(p) PROVE DiariesInv'
  BY <1>1, <1>a, <1>b DEF Begin, DiariesInv
<1>2. ASSUME NEW p \in Preparers, JournalRequest(p) PROVE DiariesInv'
  BY <1>2, <1>a, <1>b DEF JournalRequest, DiariesInv
<1>3. ASSUME NEW p \in Preparers, PortPrepare(p) PROVE DiariesInv'
  BY <1>3, <1>a, <1>b DEF PortPrepare, DiariesInv
<1>4. ASSUME NEW p \in Preparers, JournalAttempt(p) PROVE DiariesInv'
  BY <1>4, <1>a, <1>b DEF JournalAttempt, DiariesInv
<1>5. ASSUME NEW p \in Preparers, JournalPrepared(p) PROVE DiariesInv'
  BY <1>5, <1>a, <1>b DEF JournalPrepared, DiariesInv
<1>6. ASSUME NEW p \in Preparers, JournalPrepareFailed(p) PROVE DiariesInv'
  BY <1>6, <1>a, <1>b DEF JournalPrepareFailed, DiariesInv
<1>7. ASSUME NEW p \in Preparers, PrepareEnds(p) PROVE DiariesInv'
  BY <1>7, <1>a, <1>b DEF PrepareEnds, DiariesInv
<1>8. ASSUME NEW c \in Closers, Close(c) PROVE DiariesInv'
  BY <1>8, <1>a, <1>b DEF Close, DiariesInv
<1>9. ASSUME NEW c \in Closers, Reconcile(c) PROVE DiariesInv'
  BY <1>9, <1>a, <1>b DEF Reconcile, DiariesInv
<1>10. ASSUME NEW c \in Closers, SaveDiary(c) PROVE DiariesInv'
  BY <1>10, <1>a, <1>b DEF SaveDiary, DiariesInv
<1>11. ASSUME NEW c \in Closers, RenameDiary(c) PROVE DiariesInv'
  <2>1. diaries' = {d \in diaries : d.record # record[c]}
                     \cup {[record |-> record[c], provenance |-> accepted[c]]}
    BY <1>11 DEF RenameDiary
  <2>2. accepted[c] = "journal-verified" => record[c] \in Evident'
    BY <1>a, <1>b DEF ClosesInv
  <2>3. QED
    BY <1>a, <1>b, <2>1, <2>2 DEF DiariesInv
<1>12. ASSUME NEW c \in Closers, Link(c) PROVE DiariesInv'
  BY <1>12, <1>a, <1>b DEF Link, DiariesInv
<1>13. ASSUME NEW c \in Closers, CloseEnds(c) PROVE DiariesInv'
  BY <1>13, <1>a, <1>b DEF CloseEnds, DiariesInv
<1>14. CASE Sync
  BY <1>14, <1>a, <1>b DEF Sync, DiariesInv
<1>15. CASE UNCHANGED vars
  BY <1>15, <1>a, <1>b DEF vars, DiariesInv
<1> QED
  BY <1>1, <1>2, <1>3, <1>4, <1>5, <1>6, <1>7, <1>8,
     <1>9, <1>10, <1>11, <1>12, <1>13, <1>14, <1>15
  DEF Next, PrepareStep, CloseStep

\* A bundle is delivered when its saga has it, its attempt and its request.
LEMMA DeliveredStep == IInv /\ [Next]_vars => (delivered \subseteq Explained)'
<1> SUFFICES ASSUME IInv, [Next]_vars PROVE delivered' \subseteq Explained'
  OBVIOUS
<1>a. Shapes /\ PreparationsInv /\ ClosesInv /\ SagasInv /\ DiariesInv /\ delivered \subseteq Explained
  BY DEF IInv
<1>b. /\ Requested \subseteq Requested' /\ Attempted \subseteq Attempted'
      /\ Explained \subseteq Explained' /\ Evident \subseteq Evident' /\ Kept \subseteq Kept'
  BY SagasGrow, VouchersStay, KeptStays
<1> USE SkillAssumption DEF prepareVars, closeVars, Goto, PrepareOver, CloseOver, Proc
<1>1. ASSUME NEW p \in Preparers, Begin(p) PROVE delivered' \subseteq Explained'
  BY <1>1, <1>a, <1>b DEF Begin
<1>2. ASSUME NEW p \in Preparers, JournalRequest(p) PROVE delivered' \subseteq Explained'
  BY <1>2, <1>a, <1>b DEF JournalRequest
<1>3. ASSUME NEW p \in Preparers, PortPrepare(p) PROVE delivered' \subseteq Explained'
  BY <1>3, <1>a, <1>b DEF PortPrepare
<1>4. ASSUME NEW p \in Preparers, JournalAttempt(p) PROVE delivered' \subseteq Explained'
  BY <1>4, <1>a, <1>b DEF JournalAttempt
<1>5. ASSUME NEW p \in Preparers, JournalPrepared(p) PROVE delivered' \subseteq Explained'
  <2>1. /\ request[p] \in Attempted /\ request[p].id \in Invocations
        /\ prepared[p] \in Bundles
        /\ prepared[p].id = request[p].id /\ prepared[p].arguments = request[p].arguments
    BY <1>5, <1>a DEF JournalPrepared, PreparationsInv, Requests, Shapes
  <2>2. Entry("skill.prepared", prepared[p]) \in Entries
    BY <2>1, WhatIsJournaled DEF Types
  <2>3. PICK b : b = prepared[p]
    OBVIOUS
  <2>4. PICK n \in DOMAIN saga'[b.id] :
          saga'[b.id][n] = Entry("skill.prepared", b) /\ \A k \in DOMAIN saga[b.id] : k < n
    <3>1. Journal(request[p].id, "skill.prepared", prepared[p])
      BY <1>5 DEF JournalPrepared
    <3>2. Journal(b.id, "skill.prepared", b) /\ b.id \in Invocations
          /\ Entry("skill.prepared", b) \in Entries
      BY <2>1, <2>2, <2>3, <3>1
    <3>3. Shapes
      BY <1>a
    <3>4. QED
      BY <3>2, <3>3, JournalGrows
  <2>5. PICK j, k \in DOMAIN saga[b.id] :
          /\ j < k
          /\ saga[b.id][j].type = "skill.prepare-requested"
          /\ saga[b.id][j].about.arguments = b.arguments
          /\ saga[b.id][k].type = "attempt-succeeded"
    BY <2>1, <2>3 DEF Attempted
  <2>6. /\ j \in DOMAIN saga'[b.id] /\ saga'[b.id][j] = saga[b.id][j]
        /\ k \in DOMAIN saga'[b.id] /\ saga'[b.id][k] = saga[b.id][k]
    BY <2>1, <2>3, SagasGrow DEF Grown
  <2>7. /\ j < k /\ k < n
        /\ saga'[b.id][j].type = "skill.prepare-requested"
        /\ saga'[b.id][j].about.arguments = b.arguments
        /\ saga'[b.id][k].type = "attempt-succeeded"
        /\ saga'[b.id][n] = Entry("skill.prepared", b)
    BY <2>4, <2>5, <2>6
  <2>8. b \in Explained'
    BY <2>1, <2>3, <2>4, <2>6, <2>7, Zenon DEF Explained
  <2>9. QED
    BY <1>5, <1>a, <1>b, <2>3, <2>8 DEF JournalPrepared
<1>6. ASSUME NEW p \in Preparers, JournalPrepareFailed(p) PROVE delivered' \subseteq Explained'
  BY <1>6, <1>a, <1>b DEF JournalPrepareFailed
<1>7. ASSUME NEW p \in Preparers, PrepareEnds(p) PROVE delivered' \subseteq Explained'
  BY <1>7, <1>a, <1>b DEF PrepareEnds
<1>8. ASSUME NEW c \in Closers, Close(c) PROVE delivered' \subseteq Explained'
  BY <1>8, <1>a, <1>b DEF Close
<1>9. ASSUME NEW c \in Closers, Reconcile(c) PROVE delivered' \subseteq Explained'
  BY <1>9, <1>a, <1>b DEF Reconcile
<1>10. ASSUME NEW c \in Closers, SaveDiary(c) PROVE delivered' \subseteq Explained'
  BY <1>10, <1>a, <1>b DEF SaveDiary
<1>11. ASSUME NEW c \in Closers, RenameDiary(c) PROVE delivered' \subseteq Explained'
  BY <1>11, <1>a, <1>b DEF RenameDiary
<1>12. ASSUME NEW c \in Closers, Link(c) PROVE delivered' \subseteq Explained'
  BY <1>12, <1>a, <1>b DEF Link
<1>13. ASSUME NEW c \in Closers, CloseEnds(c) PROVE delivered' \subseteq Explained'
  BY <1>13, <1>a, <1>b DEF CloseEnds
<1>14. CASE Sync
  BY <1>14, <1>a, <1>b DEF Sync
<1>15. CASE UNCHANGED vars
  BY <1>15, <1>a, <1>b DEF vars
<1> QED
  BY <1>1, <1>2, <1>3, <1>4, <1>5, <1>6, <1>7, <1>8,
     <1>9, <1>10, <1>11, <1>12, <1>13, <1>14, <1>15
  DEF Next, PrepareStep, CloseStep

\* A Catalog adds no bundle beside another one of its invocation.
LEMMA ReplaysStep == IInv /\ [Next]_vars => ReplaysReturnTheirBundle'
<1> SUFFICES ASSUME IInv, [Next]_vars PROVE ReplaysReturnTheirBundle'
  OBVIOUS
<1>a. ReplaysReturnTheirBundle /\ known \in [index : 0 .. MaxVersion, bundles : SUBSET Bundles]
  BY DEF IInv, Shapes
<1> USE DEF prepareVars, closeVars
<1>1. ASSUME NEW p \in Preparers, Begin(p) PROVE ReplaysReturnTheirBundle'
  BY <1>1, <1>a DEF Begin, ReplaysReturnTheirBundle
<1>2. ASSUME NEW p \in Preparers, JournalRequest(p) PROVE ReplaysReturnTheirBundle'
  BY <1>2, <1>a DEF JournalRequest, ReplaysReturnTheirBundle
<1>3. ASSUME NEW p \in Preparers, PortPrepare(p) PROVE ReplaysReturnTheirBundle'
  <2>1. PICK b : b = Bundle(request[p].id, index, request[p].arguments)
    OBVIOUS
  <2>2. \/ known' = known
        \/ ~Conflicts(b) /\ known' = [known EXCEPT !.bundles = known.bundles \cup {b}]
        \/ known' = [index |-> index, bundles |-> IF index = 0 THEN {} ELSE {b}]
    BY <1>3, <1>a, <2>1 DEF PortPrepare
  <2>3. \/ known'.bundles = known.bundles
        \/ ~Conflicts(b) /\ known'.bundles = known.bundles \cup {b}
        \/ known'.bundles \subseteq {b}
    BY <1>a, <2>2
  <2>4. QED
    BY <1>a, <2>3 DEF ReplaysReturnTheirBundle, Conflicts
<1>4. ASSUME NEW p \in Preparers, JournalAttempt(p) PROVE ReplaysReturnTheirBundle'
  BY <1>4, <1>a DEF JournalAttempt, ReplaysReturnTheirBundle
<1>5. ASSUME NEW p \in Preparers, JournalPrepared(p) PROVE ReplaysReturnTheirBundle'
  BY <1>5, <1>a DEF JournalPrepared, ReplaysReturnTheirBundle
<1>6. ASSUME NEW p \in Preparers, JournalPrepareFailed(p) PROVE ReplaysReturnTheirBundle'
  BY <1>6, <1>a DEF JournalPrepareFailed, ReplaysReturnTheirBundle
<1>7. ASSUME NEW p \in Preparers, PrepareEnds(p) PROVE ReplaysReturnTheirBundle'
  BY <1>7, <1>a DEF PrepareEnds, ReplaysReturnTheirBundle
<1>8. ASSUME NEW c \in Closers, Close(c) PROVE ReplaysReturnTheirBundle'
  BY <1>8, <1>a DEF Close, ReplaysReturnTheirBundle
<1>9. ASSUME NEW c \in Closers, Reconcile(c) PROVE ReplaysReturnTheirBundle'
  BY <1>9, <1>a DEF Reconcile, ReplaysReturnTheirBundle
<1>10. ASSUME NEW c \in Closers, SaveDiary(c) PROVE ReplaysReturnTheirBundle'
  BY <1>10, <1>a DEF SaveDiary, ReplaysReturnTheirBundle
<1>11. ASSUME NEW c \in Closers, RenameDiary(c) PROVE ReplaysReturnTheirBundle'
  BY <1>11, <1>a DEF RenameDiary, ReplaysReturnTheirBundle
<1>12. ASSUME NEW c \in Closers, Link(c) PROVE ReplaysReturnTheirBundle'
  BY <1>12, <1>a DEF Link, ReplaysReturnTheirBundle
<1>13. ASSUME NEW c \in Closers, CloseEnds(c) PROVE ReplaysReturnTheirBundle'
  BY <1>13, <1>a DEF CloseEnds, ReplaysReturnTheirBundle
<1>14. CASE Sync
  BY <1>14, <1>a DEF Sync, ReplaysReturnTheirBundle
<1>15. CASE UNCHANGED vars
  BY <1>15, <1>a DEF vars, ReplaysReturnTheirBundle
<1> QED
  BY <1>1, <1>2, <1>3, <1>4, <1>5, <1>6, <1>7, <1>8,
     <1>9, <1>10, <1>11, <1>12, <1>13, <1>14, <1>15
  DEF Next, PrepareStep, CloseStep

-----------------------------------------------------------------------------
\* The inductive invariant of preparations and closes (core/skill_journal.go,
\* core/skill_invocation.go).
THEOREM Invariant == Spec => []IInv
<1>1. IInv /\ [Next]_vars => IInv'
  BY ShapesStep, PreparationsStep, ClosesStep, SagasStep, DiariesStep, DeliveredStep, ReplaysStep DEF IInv
<1>2. QED
  BY InitInv, <1>1, PTL DEF Spec

\* Sagas hold records of their own invocation, the store one diary for an artifact.
THEOREM TypeCorrect == Spec => []TypeOK
<1>1. IInv => TypeOK
  BY DEF IInv, Shapes, SagasInv, DiariesInv, TypeOK
<1>2. QED
  BY Invariant, <1>1, PTL

\* A bundle is in the hands of a runtime only after the journal explains it
\* (SkillPreparer.Prepare, core/skill_journal.go).
THEOREM DeliveriesAreExplained == Spec => []DeliveredIsExplained
<1>1. IInv => DeliveredIsExplained
  BY DEF IInv, Explained, DeliveredIsExplained
<1>2. QED
  BY Invariant, <1>1, PTL

\* A diary says journal-verified only of a record that its saga agrees with
\* (reconcileSkillInvocations, core/skill_invocation.go).
THEOREM VerificationIsEvident == Spec => []VerifiedHasEvidence
<1>1. IInv => VerifiedHasEvidence
  BY DEF IInv, DiariesInv, Evident, VerifiedHasEvidence
<1>2. QED
  BY Invariant, <1>1, PTL

\* A linked saga leads to the diary of its own invocation.
THEOREM LinksAreSound == Spec => []LinksLeadToDiaries
<1>1. IInv => LinksLeadToDiaries
  BY DEF IInv, SagasInv, Kept, LinksLeadToDiaries
<1>2. QED
  BY Invariant, <1>1, PTL

\* One Catalog gives no two bundles one invocation identifier.
THEOREM ReplaysAreStable == Spec => []ReplaysReturnTheirBundle
<1>1. IInv => ReplaysReturnTheirBundle
  BY DEF IInv
<1>2. QED
  BY Invariant, <1>1, PTL
=============================================================================
