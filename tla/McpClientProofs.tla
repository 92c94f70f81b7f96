--------------------------- MODULE McpClientProofs ---------------------------
(***************************************************************************)
(* The safety properties of McpClient for any bounds and capacities.        *)
(*                                                                         *)
(* Four facts carry them. A child that lives belongs to the client that the *)
(* caller is using or closing (LifeInv). The caller calls tools only when   *)
(* the provider is ready, and negotiates only when it is not (StageInv).    *)
(* Every message under way has an identifier that was given out, and the    *)
(* last one given out belongs to the call under way (MessageInv). What is   *)
(* recorded as answered was answered by the child of its era                *)
(* (NegotiationInv).                                                        *)
(***************************************************************************)

EXTENDS McpClient, SequenceTheorems, TLAPS

Steps == {"idle", "start", "restart", "discover", "initialize", "initialized", "list", "tool",
          "write", "wait", "cancel", "finish", "abandon", "close", "reap", "reset"}
Messages == [id : Nat, method : Methods \cup {"notice", "garbage"}, era : Nat]
Live(e) == proc[e] \in {"running", "dead"}

\* The messages that may be under way when n identifiers have been given out,
\* the last one to the call c.
Fine(n, c) == {m \in Messages : m.id <= n /\ (m.id = n /\ n # 0 => m = c)}

Shapes ==
  /\ command \in BOOLEAN /\ started \in BOOLEAN /\ closed \in BOOLEAN
  /\ prepared \in {"no", "ready", "failed"}
  /\ at \in Steps /\ after \in {"none", "over", "failed", "reset"}
  /\ era \in 0 .. MaxEra /\ channels \in {0, era} /\ readError \in 0 .. era
  /\ nextID \in Nat /\ call \in Messages
  /\ loop \in [Eras -> {"none", "reading", "holding", "failing", "ended", "stuck", "gone"}]
  /\ \A e \in Eras : loop[e] # "none" => e <= era
  /\ proc \in [Eras -> {"none", "running", "dead", "reaped"}]
  /\ held \in [Eras -> Messages]
  /\ operations \in Nat

StageInv ==
  /\ at \in {"write", "wait"} => call.id = nextID /\ nextID # 0 /\ call.era = era
  /\ at \in {"write", "wait", "cancel", "initialized"} => call.method \in Methods
  /\ \/ at \in {"discover", "initialize", "initialized", "list", "write", "wait", "cancel"}
     \/ prepared = "ready"
     => era # 0
  /\ at = "initialized" => call.method = "initialize"
  /\ at = "cancel" => call.method \in {"list", "tool"}
  /\ \/ at \in {"tool", "finish"}
     \/ at \in {"write", "wait", "cancel"} /\ call.method = "tool"
     => prepared = "ready"
  /\ \/ at \in {"start", "restart", "discover", "initialize", "initialized", "list",
                "abandon", "reset"}
     \/ at \in {"write", "wait", "cancel"} /\ call.method # "tool"
     \/ at \in {"close", "reap"} /\ after = "reset"
     => prepared = "no"

LifeInv ==
  /\ \A e \in Eras : Live(e) =>
       /\ e = era /\ started /\ channels = era
       /\ closed => at = "reap"
       /\ at \notin {"start", "restart", "reset"}
       /\ at = "idle" => command /\ prepared = "ready"
  /\ at = "reap" => era # 0
  /\ at \in {"start", "restart"} => ~closed

\* Whatever is under way, and still of use to somebody, is in S.
Within(S) ==
  /\ responses \in Seq(S)
  /\ requests \in [Eras -> Seq(S)] /\ stdout \in [Eras -> Seq(S)]
  /\ asked \in [Eras -> SUBSET S]
  /\ \A e \in Eras :
       /\ loop[e] = "holding" => held[e] \in S
       /\ ~Live(e) => requests[e] = <<>> /\ asked[e] = {}

MessageInv == Within(Fine(nextID, call))

RoomInv ==
  /\ Len(responses) <= Capacity
  /\ \A e \in Eras : Len(requests[e]) <= StdinPipe /\ Len(stdout[e]) <= StdoutPipe
  /\ channels = 0 => responses = <<>> /\ readError = 0

Negotiated == \E handshake \in {"discover", "initialize"} : <<era, handshake>> \in answered

NegotiationInv ==
  /\ \/ at \in {"initialized", "list"}
     \/ at \in {"write", "wait", "cancel"} /\ call.method = "list"
     => Negotiated
  /\ prepared = "ready" => Negotiated /\ <<era, "list">> \in answered

IInv == Shapes /\ StageInv /\ LifeInv /\ MessageInv /\ RoomInv /\ NegotiationInv

-----------------------------------------------------------------------------
\* Nothing is started and nothing is under way.
LEMMA InitInv == Init => IInv
<1> SUFFICES ASSUME Init PROVE IInv
  OBVIOUS
<1> USE McpAssumption DEF Init
<1>1. Notice \in Messages
  BY DEF Notice, Messages, Methods
<1>2. Shapes
  <2>1. held \in [Eras -> Messages] /\ call \in Messages
    BY <1>1
  <2>2. era \in 0 .. MaxEra /\ readError \in 0 .. era
    OBVIOUS
  <2>3. command \in BOOLEAN /\ started \in BOOLEAN /\ closed \in BOOLEAN
    OBVIOUS
  <2>4. /\ loop \in [Eras -> {"none", "reading", "holding", "failing", "ended", "stuck", "gone"}]
        /\ proc \in [Eras -> {"none", "running", "dead", "reaped"}]
        /\ \A e \in Eras : loop[e] = "none"
    OBVIOUS
  <2>5. QED
    BY <2>1, <2>2, <2>3, <2>4 DEF Shapes, Steps
<1>3. StageInv /\ NegotiationInv
  BY DEF StageInv, NegotiationInv
<1>4. LifeInv /\ MessageInv /\ RoomInv
  BY EmptySeq DEF LifeInv, MessageInv, Within, RoomInv, Live
<1>5. QED
  BY <1>2, <1>3, <1>4 DEF IInv

\* The shapes of the variables.
LEMMA ShapesStep == IInv /\ [Next]_vars => Shapes'
<1> SUFFICES ASSUME IInv, [Next]_vars PROVE Shapes'
  OBVIOUS
<1> USE McpAssumption DEF IInv, Shapes, Steps, Eras, provider, client, inbox, loops, children, caller, Goto
<1>1. ASSUME BeginCommand PROVE Shapes'
  BY <1>1 DEF BeginCommand
<1>2. ASSUME Operate PROVE Shapes'
  <2>1. CASE prepared = "no"
    <3>1. loop' = [e \in Eras |-> IF loop[e] = "none" THEN "none" ELSE "gone"]
      BY <1>2, <2>1 DEF Operate
    <3>2. UNCHANGED <<command, prepared, call, held, proc, era>> /\ operations' = operations + 1
      BY <1>2, <2>1 DEF Operate
    <3>3. /\ started' = FALSE /\ closed' = FALSE /\ channels' = 0 /\ nextID' = 0 /\ readError' = 0
          /\ at' = "start" /\ after' = after
      BY <1>2, <2>1 DEF Operate
    <3>4. /\ loop' \in [Eras -> {"none", "reading", "holding", "failing", "ended", "stuck", "gone"}]
          /\ \A e \in Eras : loop'[e] # "none" => e <= era
      BY <3>1
    <3>5. operations' \in Nat /\ readError' \in 0 .. era' /\ channels' \in {0, era'} /\ nextID' \in Nat
      BY <3>2, <3>3
    <3>6. command' \in BOOLEAN /\ started' \in BOOLEAN /\ closed' \in BOOLEAN
      BY <3>2, <3>3
    <3>7. QED
      BY <3>2, <3>3, <3>4, <3>5, <3>6
  <2>2. CASE prepared # "no"
    BY <1>2, <2>2 DEF Operate
  <2>3. QED
    BY <2>1, <2>2
<1>3. ASSUME EndCommand PROVE Shapes'
  BY <1>3 DEF EndCommand, Close
<1>4. ASSUME Finish PROVE Shapes'
  BY <1>4 DEF Finish, Close
<1>5. ASSUME Abandon PROVE Shapes'
  BY <1>5 DEF Abandon, Close
<1>6. ASSUME Start PROVE Shapes'
  BY <1>6 DEF Start
<1>7. ASSUME StartFails PROVE Shapes'
  BY <1>7 DEF StartFails
<1>8. ASSUME CloseStdin PROVE Shapes'
  BY <1>8 DEF CloseStdin, Closed
<1>9. ASSUME Reap PROVE Shapes'
  BY <1>9 DEF Reap, Closed
<1>10. ASSUME Reset PROVE Shapes'
  <2>1. PICK blocked \in SUBSET Eras :
          loop' = [e \in Eras |-> IF e \in blocked THEN "stuck" ELSE loop[e]]
               /\ \A e \in blocked : loop[e] = "holding"
    BY <1>10 DEF Reset
  <2>2. /\ loop' \in [Eras -> {"none", "reading", "holding", "failing", "ended", "stuck", "gone"}]
        /\ \A e \in Eras : loop'[e] # "none" => e <= era
    BY <2>1
  <2>3. readError' \in 0 .. era' /\ channels' \in {0, era'}
    BY <1>10 DEF Reset
  <2>4. command' \in BOOLEAN /\ started' \in BOOLEAN /\ closed' \in BOOLEAN
    BY <1>10 DEF Reset
  <2>5. QED
    BY <1>10, <2>2, <2>3, <2>4 DEF Reset
<1>11. ASSUME NEW m \in Methods, Send(m) PROVE Shapes'
  <2>1. call' \in Messages
    BY <1>11 DEF Send, Request, Messages
  <2>2. QED
    BY <1>11, <2>1 DEF Send
<1>12. ASSUME Write PROVE Shapes'
  BY <1>12 DEF Write, PutLine
<1>13. ASSUME WriteFails PROVE Shapes'
  BY <1>13 DEF WriteFails, Failed
<1>14. ASSUME Receive PROVE Shapes'
  BY <1>14 DEF Receive, Failed, Succeeded
<1>15. ASSUME ReceiveError PROVE Shapes'
  BY <1>15 DEF ReceiveError, Failed
<1>16. ASSUME TimeOut PROVE Shapes'
  BY <1>16 DEF TimeOut, Close
<1>17. ASSUME Notify PROVE Shapes'
  BY <1>17 DEF Notify, PutLine, Failed
<1>18. ASSUME NEW e \in Eras, Read(e) PROVE Shapes'
  <2>1. loop'[e] \in {"holding", "failing"} /\ \A x \in Eras : x # e => loop'[x] = loop[x]
    BY <1>18 DEF Read
  <2>2. held' \in [Eras -> Messages]
    <3>1. CASE held' = held
      BY <3>1
    <3>2. CASE held' # held
      <4>1. held' = [held EXCEPT ![e] = Head(stdout[e])] /\ stdout[e] # <<>>
        BY <1>18, <3>2 DEF Read
      <4>2. Head(stdout[e]) \in Messages
        <5>1. stdout[e] \in Seq(Fine(nextID, call))
          BY DEF MessageInv, Within
        <5>2. Head(stdout[e]) \in Fine(nextID, call)
          BY <4>1, <5>1, HeadTailProperties
        <5>3. QED
          BY <5>2 DEF Fine
      <4>3. QED
        BY <4>1, <4>2
    <3>3. QED
      BY <3>1, <3>2
  <2>3. loop' \in [Eras -> {"none", "reading", "holding", "failing", "ended", "stuck", "gone"}]
    BY <1>18 DEF Read
  <2>4. QED
    BY <1>18, <2>1, <2>2, <2>3 DEF Read
<1>19. ASSUME NEW e \in Eras, Deliver(e) PROVE Shapes'
  BY <1>19, SMTT(30) DEF Deliver
<1>20. ASSUME NEW e \in Eras, DeliverError(e) PROVE Shapes'
  BY <1>20 DEF DeliverError
<1>21. ASSUME NEW e \in Eras, Take(e) PROVE Shapes'
  BY <1>21 DEF Take
<1>22. ASSUME NEW e \in Eras, Answer(e) PROVE Shapes'
  BY <1>22 DEF Answer
<1>23. ASSUME NEW e \in Eras, Chatter(e) PROVE Shapes'
  BY <1>23 DEF Chatter
<1>24. ASSUME NEW e \in Eras, Exit(e) PROVE Shapes'
  BY <1>24 DEF Exit
<1>25. CASE UNCHANGED vars
  BY <1>25 DEF vars
<1>26. QED
  BY <1>1, <1>2, <1>3, <1>4, <1>5, <1>6, <1>7, <1>8, <1>9, <1>10, <1>11, <1>12, <1>13,
     <1>14, <1>15, <1>16, <1>17, <1>18, <1>19, <1>20, <1>21, <1>22, <1>23, <1>24, <1>25
  DEF Next, CallerStep

\* The caller calls tools when it is ready and negotiates when it is not.
LEMMA StageStep == IInv /\ [Next]_vars => StageInv'
<1> SUFFICES ASSUME IInv, [Next]_vars PROVE StageInv'
  OBVIOUS
<1> USE McpAssumption DEF IInv, Shapes, StageInv, provider, client, inbox, loops, children, caller, Goto
<1>1. ASSUME BeginCommand PROVE StageInv'
  BY <1>1 DEF BeginCommand
<1>2. ASSUME Operate PROVE StageInv'
  BY <1>2 DEF Operate
<1>3. ASSUME EndCommand PROVE StageInv'
  BY <1>3 DEF EndCommand, Close
<1>4. ASSUME Finish PROVE StageInv'
  BY <1>4 DEF Finish, Close
<1>5. ASSUME Abandon PROVE StageInv'
  BY <1>5 DEF Abandon, Close
<1>6. ASSUME Start PROVE StageInv'
  BY <1>6 DEF Start
<1>7. ASSUME StartFails PROVE StageInv'
  BY <1>7 DEF StartFails
<1>8. ASSUME CloseStdin PROVE StageInv'
  BY <1>8 DEF CloseStdin, Closed
<1>9. ASSUME Reap PROVE StageInv'
  BY <1>9 DEF Reap, Closed
<1>10. ASSUME Reset PROVE StageInv'
  BY <1>10 DEF Reset
<1>11. ASSUME NEW m \in Methods, Send(m) PROVE StageInv'
  <2>1. call' = [id |-> nextID + 1, method |-> m, era |-> era]
    BY <1>11 DEF Send, Request
  <2>2. at' = "write" /\ nextID' = nextID + 1 /\ era' = era /\ prepared' = prepared /\ at = m
    BY <1>11 DEF Send
  <2>3. m \in {"discover", "initialize", "list", "tool"}
    BY DEF Methods
  <2>4. QED
    BY <2>1, <2>2, <2>3
<1>12. ASSUME Write PROVE StageInv'
  BY <1>12 DEF Write, PutLine
<1>13. ASSUME WriteFails PROVE StageInv'
  BY <1>13 DEF WriteFails, Failed
<1>14. ASSUME Receive PROVE StageInv'
  <2>1. UNCHANGED <<call, nextID, era>> /\ call.method \in Methods /\ at = "wait"
    BY <1>14 DEF Receive
  <2>2. CASE at' = "wait" /\ prepared' = prepared /\ after' = after
    BY <2>1, <2>2
  <2>3. CASE \E step \in Succeeded(call.method) :
               at' = step /\ after' = after /\ prepared' = IF step = "tool" THEN "ready" ELSE prepared
    <3>1. PICK step \in Succeeded(call.method) :
               at' = step /\ after' = after /\ prepared' = IF step = "tool" THEN "ready" ELSE prepared
      BY <2>3
    <3>2. CASE call.method = "discover"
      BY <2>1, <3>1, <3>2 DEF Succeeded
    <3>3. CASE call.method = "initialize"
      BY <2>1, <3>1, <3>3 DEF Succeeded
    <3>4. CASE call.method = "list"
      BY <2>1, <3>1, <3>4 DEF Succeeded
    <3>5. CASE call.method = "tool"
      BY <2>1, <3>1, <3>5 DEF Succeeded
    <3>6. QED
      BY <2>1, <3>2, <3>3, <3>4, <3>5 DEF Methods
  <2>4. CASE call.method \in {"list", "tool"} /\ at' = call.method /\ prepared' = prepared
    BY <2>1, <2>4
  <2>5. CASE at' = Failed(call.method) /\ prepared' = prepared
    BY <2>1, <2>5 DEF Failed, Methods
  <2>6. QED
    BY <1>14, <2>2, <2>3, <2>4, <2>5 DEF Receive
<1>15. ASSUME ReceiveError PROVE StageInv'
  BY <1>15 DEF ReceiveError, Failed
<1>16. ASSUME TimeOut PROVE StageInv'
  <2>1. UNCHANGED <<prepared, call, nextID, era>> /\ at = "wait" /\ call.method \in Methods
    BY <1>16 DEF TimeOut
  <2>2. CASE call.method = "discover"
    BY <1>16, <2>1, <2>2 DEF TimeOut, Close
  <2>3. CASE call.method = "initialize"
    BY <1>16, <2>1, <2>3 DEF TimeOut
  <2>4. CASE call.method \in {"list", "tool"}
    <3>1. at' = "cancel" /\ after' = after
      BY <1>16, <2>4 DEF TimeOut
    <3>2. QED
      BY <2>1, <2>4, <3>1
  <2>5. QED
    BY <2>1, <2>2, <2>3, <2>4 DEF Methods
<1>17. ASSUME Notify PROVE StageInv'
  BY <1>17 DEF Notify, PutLine, Failed
<1>18. ASSUME NEW e \in Eras, Read(e) PROVE StageInv'
  BY <1>18 DEF Read
<1>19. ASSUME NEW e \in Eras, Deliver(e) PROVE StageInv'
  BY <1>19 DEF Deliver
<1>20. ASSUME NEW e \in Eras, DeliverError(e) PROVE StageInv'
  BY <1>20 DEF DeliverError
<1>21. ASSUME NEW e \in Eras, Take(e) PROVE StageInv'
  BY <1>21 DEF Take
<1>22. ASSUME NEW e \in Eras, Answer(e) PROVE StageInv'
  BY <1>22 DEF Answer
<1>23. ASSUME NEW e \in Eras, Chatter(e) PROVE StageInv'
  BY <1>23 DEF Chatter
<1>24. ASSUME NEW e \in Eras, Exit(e) PROVE StageInv'
  BY <1>24 DEF Exit
<1>25. CASE UNCHANGED vars
  BY <1>25 DEF vars
<1>26. QED
  BY <1>1, <1>2, <1>3, <1>4, <1>5, <1>6, <1>7, <1>8, <1>9, <1>10, <1>11, <1>12, <1>13,
     <1>14, <1>15, <1>16, <1>17, <1>18, <1>19, <1>20, <1>21, <1>22, <1>23, <1>24, <1>25
  DEF Next, CallerStep

\* A child that lives is the one in use.
LEMMA LifeStep == IInv /\ [Next]_vars => LifeInv'
<1> SUFFICES ASSUME IInv, [Next]_vars PROVE LifeInv'
  OBVIOUS
<1> USE McpAssumption DEF IInv, Shapes, StageInv, LifeInv, Live, Eras, provider, client, inbox, loops, children, caller, Goto
<1>1. ASSUME BeginCommand PROVE LifeInv'
  BY <1>1 DEF BeginCommand
<1>2. ASSUME Operate PROVE LifeInv'
  BY <1>2 DEF Operate
<1>3. ASSUME EndCommand PROVE LifeInv'
  BY <1>3 DEF EndCommand, Close
<1>4. ASSUME Finish PROVE LifeInv'
  BY <1>4 DEF Finish, Close
<1>5. ASSUME Abandon PROVE LifeInv'
  BY <1>5 DEF Abandon, Close
<1>6. ASSUME Start PROVE LifeInv'
  BY <1>6 DEF Start
<1>7. ASSUME StartFails PROVE LifeInv'
  BY <1>7 DEF StartFails
<1>8. ASSUME CloseStdin PROVE LifeInv'
  BY <1>8 DEF CloseStdin, Closed
<1>9. ASSUME Reap PROVE LifeInv'
  BY <1>9 DEF Reap, Closed
<1>10. ASSUME Reset PROVE LifeInv'
  BY <1>10 DEF Reset
<1>11. ASSUME NEW m \in Methods, Send(m) PROVE LifeInv'
  <2>1. at' = "write" /\ at = m /\ UNCHANGED <<started, closed, era, channels, proc>>
    BY <1>11 DEF Send
  <2>2. m \in {"discover", "initialize", "list", "tool"}
    BY DEF Methods
  <2>3. QED
    BY <2>1, <2>2
<1>12. ASSUME Write PROVE LifeInv'
  BY <1>12 DEF Write, PutLine
<1>13. ASSUME WriteFails PROVE LifeInv'
  BY <1>13 DEF WriteFails, Failed
<1>14. ASSUME Receive PROVE LifeInv'
  BY <1>14 DEF Receive, Failed, Succeeded
<1>15. ASSUME ReceiveError PROVE LifeInv'
  BY <1>15 DEF ReceiveError, Failed
<1>16. ASSUME TimeOut PROVE LifeInv'
  BY <1>16 DEF TimeOut, Close
<1>17. ASSUME Notify PROVE LifeInv'
  BY <1>17 DEF Notify, PutLine, Failed
<1>18. ASSUME NEW e \in Eras, Read(e) PROVE LifeInv'
  BY <1>18 DEF Read
<1>19. ASSUME NEW e \in Eras, Deliver(e) PROVE LifeInv'
  BY <1>19 DEF Deliver
<1>20. ASSUME NEW e \in Eras, DeliverError(e) PROVE LifeInv'
  BY <1>20 DEF DeliverError
<1>21. ASSUME NEW e \in Eras, Take(e) PROVE LifeInv'
  BY <1>21 DEF Take
<1>22. ASSUME NEW e \in Eras, Answer(e) PROVE LifeInv'
  BY <1>22 DEF Answer
<1>23. ASSUME NEW e \in Eras, Chatter(e) PROVE LifeInv'
  BY <1>23 DEF Chatter
<1>24. ASSUME NEW e \in Eras, Exit(e) PROVE LifeInv'
  BY <1>24 DEF Exit
<1>25. CASE UNCHANGED vars
  BY <1>25 DEF vars
<1>26. QED
  BY <1>1, <1>2, <1>3, <1>4, <1>5, <1>6, <1>7, <1>8, <1>9, <1>10, <1>11, <1>12, <1>13,
     <1>14, <1>15, <1>16, <1>17, <1>18, <1>19, <1>20, <1>21, <1>22, <1>23, <1>24, <1>25
  DEF Next, CallerStep

\* A message that has a smaller identifier, or none, is fine for the next call.
LEMMA FineGrows == ASSUME NEW n \in Nat, NEW c, NEW d PROVE Fine(n, c) \subseteq Fine(n + 1, d)
  BY DEF Fine, Messages

\* Messages that answer nothing are fine for every call.
LEMMA NoAnswerIsFine ==
  ASSUME NEW n \in Nat, NEW c PROVE Notice \in Fine(n, c) /\ Garbage \in Fine(n, c)
<1>1. Notice \in Messages /\ Notice.id = 0
  BY DEF Notice, Messages
<1>2. Garbage \in Messages /\ Garbage.id = 0
  BY DEF Garbage, Messages
<1>3. QED
  BY <1>1, <1>2 DEF Fine

\* Sequences over a set are sequences over a larger one.
LEMMA SeqGrows == ASSUME NEW A, NEW B, A \subseteq B PROVE Seq(A) \subseteq Seq(B)
<1> SUFFICES ASSUME NEW s \in Seq(A) PROVE s \in Seq(B)
  OBVIOUS
<1>1. Len(s) \in Nat /\ s \in [1 .. Len(s) -> A]
  BY LenProperties
<1>2. s \in [1 .. Len(s) -> B]
  BY <1>1
<1>3. QED
  BY <1>1, <1>2

\* What the scanner has in its buffer: a part of what was there.
LEMMA PrefixProperties ==
  ASSUME NEW S, NEW s \in Seq(S), NEW n \in 0 .. Len(s)
  PROVE  SubSeq(s, 1, n) \in Seq(S) /\ Len(SubSeq(s, 1, n)) <= Len(s)
<1>1. Len(s) \in Nat /\ \A i \in 1 .. n : s[i] \in S
  BY LenProperties, ElementOfSeq
<1>2. SubSeq(s, 1, n) \in Seq(S) /\ Len(SubSeq(s, 1, n)) = n
  BY <1>1, SubSeqProperties
<1>3. QED
  BY <1>1, <1>2

\* No step brings in a message that is not in S, if the lines of the caller
\* and those that answer nothing are.
LEMMA WithinStep ==
  ASSUME NEW S, Shapes, Within(S), [Next]_vars, {Notice, Garbage} \subseteq S,
         at = "write" => call \in S,
         at \in {"write", "initialized", "cancel"} => era \in Eras,
         at = "reap" => era \in Eras
  PROVE  Within(S)'
<1>a. /\ responses \in Seq(S) /\ requests \in [Eras -> Seq(S)] /\ stdout \in [Eras -> Seq(S)]
      /\ asked \in [Eras -> SUBSET S]
      /\ \A e \in Eras : loop[e] = "holding" => held[e] \in S
      /\ \A e \in Eras : ~Live(e) => requests[e] = <<>> /\ asked[e] = {}
  BY DEF Within
<1>b. /\ loop \in [Eras -> {"none", "reading", "holding", "failing", "ended", "stuck", "gone"}]
      /\ proc \in [Eras -> {"none", "running", "dead", "reaped"}]
      /\ held \in [Eras -> Messages] /\ era \in Nat
  BY McpAssumption DEF Shapes
<1>c. <<>> \in Seq(S)
  BY EmptySeq
<1> USE DEF provider, client, inbox, loops, children, caller, Goto, Close
<1>1. ASSUME BeginCommand PROVE Within(S)'
  <2>1. UNCHANGED <<responses, requests, stdout, asked, loop, held, proc>>
    BY <1>1 DEF BeginCommand
  <2>2. QED
    BY <1>a, <2>1 DEF Within, Live
<1>2. ASSUME EndCommand PROVE Within(S)'
  <2>1. UNCHANGED <<responses, requests, stdout, asked, loop, held, proc>>
    BY <1>2 DEF EndCommand
  <2>2. QED
    BY <1>a, <2>1 DEF Within, Live
<1>3. ASSUME Finish PROVE Within(S)'
  <2>1. UNCHANGED <<responses, requests, stdout, asked, loop, held, proc>>
    BY <1>3 DEF Finish
  <2>2. QED
    BY <1>a, <2>1 DEF Within, Live
<1>4. ASSUME Abandon PROVE Within(S)'
  <2>1. UNCHANGED <<responses, requests, stdout, asked, loop, held, proc>>
    BY <1>4 DEF Abandon
  <2>2. QED
    BY <1>a, <2>1 DEF Within, Live
<1>5. ASSUME StartFails PROVE Within(S)'
  <2>1. UNCHANGED <<responses, requests, stdout, asked, loop, held, proc>>
    BY <1>5 DEF StartFails
  <2>2. QED
    BY <1>a, <2>1 DEF Within, Live
<1>6. ASSUME CloseStdin PROVE Within(S)'
  <2>1. UNCHANGED <<responses, requests, stdout, asked, loop, held, proc>>
    BY <1>6 DEF CloseStdin
  <2>2. QED
    BY <1>a, <2>1 DEF Within, Live
<1>7. ASSUME WriteFails PROVE Within(S)'
  <2>1. UNCHANGED <<responses, requests, stdout, asked, loop, held, proc>>
    BY <1>7 DEF WriteFails
  <2>2. QED
    BY <1>a, <2>1 DEF Within, Live
<1>8. ASSUME ReceiveError PROVE Within(S)'
  <2>1. UNCHANGED <<responses, requests, stdout, asked, loop, held, proc>>
    BY <1>8 DEF ReceiveError
  <2>2. QED
    BY <1>a, <2>1 DEF Within, Live
<1>9. ASSUME TimeOut PROVE Within(S)'
  <2>1. UNCHANGED <<responses, requests, stdout, asked, loop, held, proc>>
    BY <1>9 DEF TimeOut
  <2>2. QED
    BY <1>a, <2>1 DEF Within, Live
<1>10. ASSUME Operate PROVE Within(S)'
  <2>1. /\ UNCHANGED <<requests, asked, proc>> /\ responses' \in {<<>>, responses}
        /\ stdout' \in {stdout, [e \in Eras |-> <<>>]}
    BY <1>10 DEF Operate
  <2>2. \A e \in Eras : loop'[e] = "holding" => loop[e] = "holding" /\ held'[e] = held[e]
    BY <1>10 DEF Operate
  <2>3. QED
    BY <1>a, <1>c, <2>1, <2>2 DEF Within, Live
<1>11. ASSUME Start PROVE Within(S)'
  <2>1. proc' = [proc EXCEPT ![era + 1] = "running"] /\ loop' = [loop EXCEPT ![era + 1] = "reading"]
    BY <1>11 DEF Start
  <2>2. responses' = <<>> /\ UNCHANGED <<held, requests, asked, stdout>>
    BY <1>11 DEF Start
  <2>3. \A e \in Eras : (loop'[e] = "holding" => loop[e] = "holding") /\ (~Live(e)' => ~Live(e))
    BY <1>b, <2>1 DEF Live
  <2>4. QED
    BY <1>a, <1>c, <2>2, <2>3 DEF Within
<1>12. ASSUME Reap PROVE Within(S)'
  <2>1. /\ proc' = [proc EXCEPT ![era] = "reaped"]
        /\ requests' = [requests EXCEPT ![era] = <<>>] /\ asked' = [asked EXCEPT ![era] = {}]
        /\ UNCHANGED <<loop, held, responses>>
    BY <1>12 DEF Reap
  <2>2. era \in Eras
    BY <1>12 DEF Reap
  <2>a. PICK buffered \in 0 .. Len(stdout[era]) :
          stdout' = [stdout EXCEPT ![era] = SubSeq(stdout[era], 1, buffered)]
    BY <1>12 DEF Reap
  <2>b. SubSeq(stdout[era], 1, buffered) \in Seq(S)
    BY <1>a, <2>2, PrefixProperties
  <2>3. /\ requests' \in [Eras -> Seq(S)] /\ stdout' \in [Eras -> Seq(S)]
        /\ asked' \in [Eras -> SUBSET S]
    BY <1>a, <1>c, <2>1, <2>a, <2>b
  <2>4. \A e \in Eras : ~Live(e)' => requests'[e] = <<>> /\ asked'[e] = {}
    BY <1>a, <1>b, <2>1, <2>2 DEF Live
  <2>5. QED
    BY <1>a, <2>1, <2>3, <2>4 DEF Within
<1>13. ASSUME Reset PROVE Within(S)'
  <2>1. responses' = <<>> /\ UNCHANGED <<held, requests, asked, stdout, proc>>
    BY <1>13 DEF Reset
  <2>2. \A e \in Eras : loop'[e] = "holding" => loop[e] = "holding"
    BY <1>13 DEF Reset
  <2>3. QED
    BY <1>a, <1>c, <2>1, <2>2 DEF Within, Live
<1>14. ASSUME NEW m \in Methods, Send(m) PROVE Within(S)'
  <2>1. UNCHANGED <<responses, requests, stdout, asked, loop, held, proc>>
    BY <1>14 DEF Send
  <2>2. QED
    BY <1>a, <2>1 DEF Within, Live
<1>15. ASSUME Write PROVE Within(S)'
  <2>1. era \in Eras /\ call \in S
    BY <1>15 DEF Write
  <2>2. /\ requests' = [requests EXCEPT ![era] = Append(requests[era], call)] /\ proc[era] = "running"
        /\ UNCHANGED <<loop, held, responses, asked, stdout, proc>>
    BY <1>15 DEF Write, PutLine
  <2>3. Append(requests[era], call) \in Seq(S)
    BY <1>a, <2>1, AppendProperties
  <2>4. requests' \in [Eras -> Seq(S)]
    BY <1>a, <2>2, <2>3
  <2>5. \A e \in Eras : ~Live(e)' => ~Live(e) /\ requests'[e] = requests[e]
    BY <1>a, <2>2 DEF Live
  <2>6. QED
    BY <1>a, <2>2, <2>4, <2>5 DEF Within
<1>16. ASSUME Notify PROVE Within(S)'
  <2>1. era \in Eras /\ Notice \in S
    BY <1>16 DEF Notify
  <2>2. /\ requests' = [requests EXCEPT ![era] = Append(requests[era], Notice)] /\ proc[era] = "running"
        /\ UNCHANGED <<loop, held, responses, asked, stdout, proc>>
    BY <1>16 DEF Notify, PutLine
  <2>3. Append(requests[era], Notice) \in Seq(S)
    BY <1>a, <2>1, AppendProperties
  <2>4. requests' \in [Eras -> Seq(S)]
    BY <1>a, <2>2, <2>3
  <2>5. \A e \in Eras : ~Live(e)' => ~Live(e) /\ requests'[e] = requests[e]
    BY <1>a, <2>2 DEF Live
  <2>6. QED
    BY <1>a, <2>2, <2>4, <2>5 DEF Within
<1>17. ASSUME Receive PROVE Within(S)'
  <2>1. /\ responses' = Tail(responses) /\ responses # <<>>
        /\ UNCHANGED <<loop, held, requests, asked, stdout, proc>>
    BY <1>17 DEF Receive
  <2>2. Tail(responses) \in Seq(S)
    BY <1>a, <2>1, HeadTailProperties
  <2>3. QED
    BY <1>a, <2>1, <2>2 DEF Within, Live
<1>18. ASSUME NEW e \in Eras, Read(e) PROVE Within(S)'
  <2>1. UNCHANGED <<responses, requests, asked, proc>>
    BY <1>18 DEF Read
  <2>2. CASE stdout[e] # <<>> /\ stdout' = [stdout EXCEPT ![e] = Tail(stdout[e])]
    <3>1. Head(stdout[e]) \in S /\ Tail(stdout[e]) \in Seq(S)
      BY <1>a, <2>2, HeadTailProperties
    <3>2. stdout' \in [Eras -> Seq(S)]
      BY <1>a, <2>2, <3>1
    <3>3. \A f \in Eras : loop'[f] = "holding" =>
            \/ loop[f] = "holding" /\ held'[f] = held[f]
            \/ held'[f] = Head(stdout[e])
      BY <1>18, <1>b, <2>2 DEF Read
    <3>4. QED
      BY <1>a, <2>1, <3>1, <3>2, <3>3 DEF Within, Live
  <2>3. CASE loop' = [loop EXCEPT ![e] = "failing"] /\ UNCHANGED <<held, stdout>>
    BY <1>a, <1>b, <2>1, <2>3 DEF Within, Live
  <2>4. QED
    BY <1>18, <2>2, <2>3 DEF Read
<1>19. ASSUME NEW e \in Eras, Deliver(e) PROVE Within(S)'
  <2>1. /\ UNCHANGED <<held, requests, stdout, asked, proc>>
        /\ loop' = [loop EXCEPT ![e] = "stuck"] \/ loop' = [loop EXCEPT ![e] = "reading"]
        /\ responses' = responses \/ responses' = Append(responses, held[e])
        /\ loop[e] = "holding"
    BY <1>19 DEF Deliver
  <2>2. Append(responses, held[e]) \in Seq(S)
    BY <1>a, <2>1, AppendProperties
  <2>3. \A f \in Eras : loop'[f] = "holding" => loop[f] = "holding"
    BY <1>b, <2>1
  <2>4. QED
    BY <1>a, <2>1, <2>2, <2>3 DEF Within, Live
<1>20. ASSUME NEW e \in Eras, DeliverError(e) PROVE Within(S)'
  <2>1. /\ UNCHANGED <<responses, held, requests, stdout, asked, proc>>
        /\ loop' = [loop EXCEPT ![e] = "ended"]
    BY <1>20 DEF DeliverError
  <2>2. \A f \in Eras : loop'[f] = "holding" => loop[f] = "holding"
    BY <1>b, <2>1
  <2>3. QED
    BY <1>a, <2>1, <2>2 DEF Within, Live
<1>21. ASSUME NEW e \in Eras, Take(e) PROVE Within(S)'
  <2>1. /\ proc[e] = "running" /\ requests[e] # <<>>
        /\ requests' = [requests EXCEPT ![e] = Tail(requests[e])]
        /\ asked' = [asked EXCEPT ![e] = asked[e] \cup ({Head(requests[e])} \ {Notice})]
        /\ UNCHANGED <<responses, loop, held, stdout, proc>>
    BY <1>21 DEF Take
  <2>2. Head(requests[e]) \in S /\ Tail(requests[e]) \in Seq(S)
    BY <1>a, <2>1, HeadTailProperties
  <2>3. requests' \in [Eras -> Seq(S)]
    BY <1>a, <2>1, <2>2
  <2>4. asked' \in [Eras -> SUBSET S]
    BY <1>a, <2>1, <2>2
  <2>5. \A f \in Eras : ~Live(f)' => ~Live(f) /\ requests'[f] = requests[f] /\ asked'[f] = asked[f]
    BY <1>a, <2>1 DEF Live
  <2>6. QED
    BY <1>a, <2>1, <2>3, <2>4, <2>5 DEF Within
<1>22. ASSUME NEW e \in Eras, Answer(e) PROVE Within(S)'
  <2>1. PICK r \in asked[e] :
          /\ stdout' = [stdout EXCEPT ![e] = Append(stdout[e], r)]
          /\ asked' = [asked EXCEPT ![e] = asked[e] \ {r}] \/ asked' = asked
    BY <1>22 DEF Answer
  <2>2. proc[e] = "running" /\ UNCHANGED <<responses, loop, held, requests, proc>>
    BY <1>22 DEF Answer
  <2>3. Append(stdout[e], r) \in Seq(S)
    BY <1>a, AppendProperties
  <2>4. stdout' \in [Eras -> Seq(S)]
    BY <1>a, <2>1, <2>3
  <2>5. asked' \in [Eras -> SUBSET S]
    BY <1>a, <2>1
  <2>6. \A f \in Eras : ~Live(f)' => ~Live(f) /\ asked'[f] = asked[f]
    BY <1>a, <2>1, <2>2 DEF Live
  <2>7. QED
    BY <1>a, <2>2, <2>4, <2>5, <2>6 DEF Within
<1>23. ASSUME NEW e \in Eras, Chatter(e) PROVE Within(S)'
  <2>1. PICK line \in {Notice, Garbage} : stdout' = [stdout EXCEPT ![e] = Append(stdout[e], line)]
    BY <1>23 DEF Chatter
  <2>2. proc[e] = "running" /\ UNCHANGED <<responses, loop, held, requests, asked, proc>>
    BY <1>23 DEF Chatter
  <2>3. Append(stdout[e], line) \in Seq(S)
    BY <1>a, AppendProperties
  <2>4. stdout' \in [Eras -> Seq(S)]
    BY <1>a, <2>1, <2>3
  <2>5. \A f \in Eras : ~Live(f)' => ~Live(f)
    BY <1>a, <2>1, <2>2 DEF Live
  <2>6. QED
    BY <1>a, <2>2, <2>4, <2>5 DEF Within
<1>24. ASSUME NEW e \in Eras, Exit(e) PROVE Within(S)'
  <2>1. /\ proc[e] = "running" /\ proc' = [proc EXCEPT ![e] = "dead"]
        /\ requests' = [requests EXCEPT ![e] = <<>>] /\ asked' = [asked EXCEPT ![e] = {}]
        /\ UNCHANGED <<responses, loop, held, stdout>>
    BY <1>24 DEF Exit
  <2>2. requests' \in [Eras -> Seq(S)] /\ asked' \in [Eras -> SUBSET S]
    BY <1>a, <1>c, <2>1
  <2>3. \A f \in Eras : ~Live(f)' => ~Live(f) /\ requests'[f] = requests[f] /\ asked'[f] = asked[f]
    BY <1>a, <1>b, <2>1 DEF Live
  <2>4. QED
    BY <1>a, <2>1, <2>2, <2>3 DEF Within
<1>25. CASE UNCHANGED vars
  BY <1>a, <1>25 DEF vars, Within, Live
<1> QED
  BY <1>1, <1>2, <1>3, <1>4, <1>5, <1>6, <1>7, <1>8, <1>9, <1>10, <1>11, <1>12, <1>13,
     <1>14, <1>15, <1>16, <1>17, <1>18, <1>19, <1>20, <1>21, <1>22, <1>23, <1>24, <1>25
  DEF Next, CallerStep

\* A step keeps the messages under way among those that may be: identifiers are
\* only given out, but for a client that has no message yet.
LEMMA MessageStep == IInv /\ [Next]_vars => MessageInv'
<1> SUFFICES ASSUME IInv, [Next]_vars PROVE MessageInv'
  OBVIOUS
<1>1. PICK S : S = Fine(nextID, call)
  OBVIOUS
<1>2. nextID \in Nat /\ call \in Messages /\ era \in 0 .. MaxEra
  BY DEF IInv, Shapes
<1>3. /\ at \in {"write", "initialized", "cancel", "reap"} => era \in Eras
      /\ at = "write" => call \in S
  BY <1>1, <1>2, McpAssumption DEF IInv, StageInv, LifeInv, Eras, Fine
<1>4. {Notice, Garbage} \subseteq S
  BY <1>1, <1>2, NoAnswerIsFine
<1>5. Within(S)'
  BY <1>1, <1>3, <1>4, WithinStep DEF IInv, MessageInv
<1>6. CASE UNCHANGED <<nextID, call>>
  <2>1. S = Fine(nextID', call')
    BY <1>1, <1>6
  <2>2. QED
    BY <1>5, <2>1 DEF MessageInv, Within
<1>7. ASSUME NEW m \in Methods, Send(m) PROVE MessageInv'
  <2>1. S \subseteq Fine(nextID', call')
    BY <1>1, <1>2, <1>7, FineGrows DEF Send
  <2>2. Seq(S) \subseteq Seq(Fine(nextID', call'))
    BY <2>1, SeqGrows
  <2>3. QED
    BY <1>5, <2>1, <2>2 DEF MessageInv, Within
<1>8. ASSUME Operate PROVE MessageInv'
  <2>1. CASE prepared = "no"
    <3>1. \A e \in Eras : ~Live(e)
      BY <1>8, <2>1 DEF Operate, IInv, LifeInv
    <3>2. /\ responses' = <<>> /\ UNCHANGED proc
          /\ \A e \in Eras : loop'[e] # "holding"
          /\ stdout' = [e \in Eras |-> <<>>]
      BY <1>8, <2>1 DEF Operate
    <3>3. \A e \in Eras : requests'[e] = <<>> /\ asked'[e] = {} /\ stdout'[e] = <<>>
      BY <1>5, <3>1, <3>2 DEF Within, Live
    <3>4. <<>> \in Seq(Fine(nextID', call'))
      BY EmptySeq
    <3>5. /\ requests' \in [Eras -> Seq(Fine(nextID', call'))]
          /\ stdout' \in [Eras -> Seq(Fine(nextID', call'))]
          /\ asked' \in [Eras -> SUBSET Fine(nextID', call')]
      BY <1>5, <3>3, <3>4 DEF Within
    <3>6. QED
      BY <3>2, <3>3, <3>4, <3>5 DEF MessageInv, Within
  <2>2. CASE prepared # "no"
    BY <1>6, <1>8, <2>2 DEF Operate, client
  <2>3. QED
    BY <2>1, <2>2
<1>9. UNCHANGED <<nextID, call>> \/ Operate \/ \E m \in Methods : Send(m)
  BY DEF Next, CallerStep, vars, client, loops, children, caller, BeginCommand, EndCommand, Finish,
     Abandon, Start, StartFails, CloseStdin, Reap, Reset, Write, WriteFails, Receive, ReceiveError,
     TimeOut, Notify, Read, Deliver, DeliverError, Take, Answer, Chatter, Exit
<1>10. QED
  BY <1>6, <1>7, <1>8, <1>9

\* Channels and pipes hold what they can hold.
LEMMA RoomStep == IInv /\ [Next]_vars => RoomInv'
<1> SUFFICES ASSUME IInv, [Next]_vars PROVE RoomInv'
  OBVIOUS
<1> USE McpAssumption DEF IInv, Shapes, MessageInv, RoomInv, provider, client, inbox, loops, children, caller, Goto
<1>1. ASSUME BeginCommand PROVE RoomInv'
  BY <1>1 DEF BeginCommand
<1>2. ASSUME Operate PROVE RoomInv'
  <2>1. Len(<<>>) = 0
    BY EmptySeq
  <2>2. /\ UNCHANGED <<requests, channels, responses, readError, stdout>>
        \/ /\ UNCHANGED requests /\ responses' = <<>> /\ readError' = 0
           /\ stdout' = [e \in Eras |-> <<>>]
    BY <1>2 DEF Operate
  <2>3. QED
    BY <2>1, <2>2
<1>3. ASSUME EndCommand PROVE RoomInv'
  BY <1>3 DEF EndCommand, Close
<1>4. ASSUME Finish PROVE RoomInv'
  BY <1>4 DEF Finish, Close
<1>5. ASSUME Abandon PROVE RoomInv'
  BY <1>5 DEF Abandon, Close
<1>6. ASSUME Start PROVE RoomInv'
  <2>1. responses' = <<>> /\ readError' = 0 /\ UNCHANGED <<requests, stdout>> /\ Len(<<>>) = 0
    BY <1>6, EmptySeq DEF Start
  <2>2. QED
    BY <2>1
<1>7. ASSUME StartFails PROVE RoomInv'
  BY <1>7 DEF StartFails
<1>8. ASSUME CloseStdin PROVE RoomInv'
  BY <1>8 DEF CloseStdin, Closed
<1>9. ASSUME Reap PROVE RoomInv'
  <2>1. /\ UNCHANGED <<responses, channels, readError>>
        /\ requests' = [requests EXCEPT ![era] = <<>>] /\ Len(<<>>) = 0
    BY <1>9, EmptySeq DEF Reap, Closed
  <2>2. PICK buffered \in 0 .. Len(stdout[era]) :
          stdout' = [stdout EXCEPT ![era] = SubSeq(stdout[era], 1, buffered)]
    BY <1>9 DEF Reap
  <2>3. era \in Eras
    BY <1>9 DEF Reap, LifeInv, Eras
  <2>4. stdout \in [Eras -> Seq(Fine(nextID, call))] /\ requests \in [Eras -> Seq(Fine(nextID, call))]
    BY DEF Within
  <2>5. Len(SubSeq(stdout[era], 1, buffered)) <= Len(stdout[era]) /\ Len(stdout[era]) \in Nat
        /\ SubSeq(stdout[era], 1, buffered) \in Seq(Fine(nextID, call))
    BY <2>3, <2>4, PrefixProperties, LenProperties
  <2>6. Len(SubSeq(stdout[era], 1, buffered)) \in Nat
    BY <2>5, LenProperties
  <2>7. \A e \in Eras : Len(stdout'[e]) <= StdoutPipe
    BY <2>2, <2>3, <2>4, <2>5, <2>6
  <2>8. \A e \in Eras : Len(requests'[e]) <= StdinPipe
    BY <2>1, <2>3, <2>4
  <2>9. QED
    BY <2>1, <2>7, <2>8
<1>10. ASSUME Reset PROVE RoomInv'
  BY <1>10 DEF Reset
<1>11. ASSUME NEW m \in Methods, Send(m) PROVE RoomInv'
  BY <1>11 DEF Send, Request
<1>12. ASSUME Write PROVE RoomInv'
  BY <1>12 DEF Write, PutLine
<1>13. ASSUME WriteFails PROVE RoomInv'
  BY <1>13 DEF WriteFails, Failed
<1>14. ASSUME Receive PROVE RoomInv'
  BY <1>14 DEF Receive, Failed, Succeeded
<1>15. ASSUME ReceiveError PROVE RoomInv'
  BY <1>15 DEF ReceiveError, Failed
<1>16. ASSUME TimeOut PROVE RoomInv'
  BY <1>16 DEF TimeOut, Close
<1>17. ASSUME Notify PROVE RoomInv'
  BY <1>17 DEF Notify, PutLine, Failed
<1>18. ASSUME NEW e \in Eras, Read(e) PROVE RoomInv'
  <2>1. UNCHANGED <<responses, channels, readError, requests>>
    BY <1>18 DEF Read
  <2>2. stdout \in [Eras -> Seq(Fine(nextID, call))]
    BY DEF MessageInv, Within
  <2>3. CASE stdout' = stdout
    BY <2>1, <2>3
  <2>4. CASE stdout[e] # <<>> /\ stdout' = [stdout EXCEPT ![e] = Tail(stdout[e])]
    <3>1. Len(Tail(stdout[e])) <= StdoutPipe
      <4>1. stdout[e] \in Seq(Fine(nextID, call))
        BY <2>2
      <4>2. Len(stdout[e]) \in Nat /\ Len(Tail(stdout[e])) = Len(stdout[e]) - 1
        BY <2>4, <4>1, HeadTailProperties, LenProperties
      <4>3. QED
        BY <4>2
    <3>2. \A x \in Eras : Len(stdout'[x]) <= StdoutPipe
      BY <2>2, <2>4, <3>1
    <3>3. QED
      BY <2>1, <3>2
  <2>5. QED
    BY <1>18, <2>3, <2>4 DEF Read
<1>19. ASSUME NEW e \in Eras, Deliver(e) PROVE RoomInv'
  BY <1>19 DEF Deliver
<1>20. ASSUME NEW e \in Eras, DeliverError(e) PROVE RoomInv'
  BY <1>20 DEF DeliverError
<1>21. ASSUME NEW e \in Eras, Take(e) PROVE RoomInv'
  BY <1>21 DEF Take
<1>22. ASSUME NEW e \in Eras, Answer(e) PROVE RoomInv'
  BY <1>22 DEF Answer
<1>23. ASSUME NEW e \in Eras, Chatter(e) PROVE RoomInv'
  BY <1>23 DEF Chatter
<1>24. ASSUME NEW e \in Eras, Exit(e) PROVE RoomInv'
  BY <1>24 DEF Exit
<1>25. CASE UNCHANGED vars
  BY <1>25 DEF vars
<1>26. QED
  BY <1>1, <1>2, <1>3, <1>4, <1>5, <1>6, <1>7, <1>8, <1>9, <1>10, <1>11, <1>12, <1>13,
     <1>14, <1>15, <1>16, <1>17, <1>18, <1>19, <1>20, <1>21, <1>22, <1>23, <1>24, <1>25
  DEF Next, CallerStep

\* The child of the era has answered what the stage of the caller supposes.
LEMMA NegotiationStep == IInv /\ [Next]_vars => NegotiationInv'
<1> SUFFICES ASSUME IInv, [Next]_vars PROVE NegotiationInv'
  OBVIOUS
<1> USE McpAssumption DEF IInv, Shapes, NegotiationInv, Negotiated, provider, client, inbox, loops, children, caller, Goto
<1>1. ASSUME BeginCommand PROVE NegotiationInv'
  BY <1>1 DEF BeginCommand
<1>2. ASSUME Operate PROVE NegotiationInv'
  BY <1>2 DEF Operate
<1>3. ASSUME EndCommand PROVE NegotiationInv'
  BY <1>3 DEF EndCommand, Close
<1>4. ASSUME Finish PROVE NegotiationInv'
  BY <1>4 DEF Finish, Close
<1>5. ASSUME Abandon PROVE NegotiationInv'
  BY <1>5 DEF Abandon, Close
<1>6. ASSUME Start PROVE NegotiationInv'
  BY <1>6 DEF Start, StageInv
<1>7. ASSUME StartFails PROVE NegotiationInv'
  BY <1>7 DEF StartFails
<1>8. ASSUME CloseStdin PROVE NegotiationInv'
  BY <1>8 DEF CloseStdin, Closed
<1>9. ASSUME Reap PROVE NegotiationInv'
  BY <1>9 DEF Reap, Closed
<1>10. ASSUME Reset PROVE NegotiationInv'
  BY <1>10 DEF Reset
<1>11. ASSUME NEW m \in Methods, Send(m) PROVE NegotiationInv'
  BY <1>11 DEF Send, Request
<1>12. ASSUME Write PROVE NegotiationInv'
  BY <1>12 DEF Write, PutLine
<1>13. ASSUME WriteFails PROVE NegotiationInv'
  BY <1>13 DEF WriteFails, Failed
<1>14. ASSUME Receive PROVE NegotiationInv'
  <2>1. Head(responses) \in Fine(nextID, call)
    BY <1>14, HeadTailProperties DEF Receive, MessageInv, Within
  <2>2. UNCHANGED <<call, nextID, era>> /\ at = "wait" /\ call.era = era /\ call.id = nextID /\ nextID # 0
    BY <1>14 DEF Receive, StageInv
  <2>3. Head(responses).id = call.id => Head(responses) = call
    BY <2>1, <2>2 DEF Fine
  <2>4. CASE at' = "wait" /\ prepared' = prepared /\ answered' = answered
    BY <2>2, <2>4 DEF Negotiated
  <2>5. CASE /\ answered' = answered \cup {<<era, call.method>>}
             /\ \E step \in Succeeded(call.method) :
                  at' = step /\ prepared' = IF step = "tool" THEN "ready" ELSE prepared
    <3>1. PICK step \in Succeeded(call.method) :
               at' = step /\ prepared' = IF step = "tool" THEN "ready" ELSE prepared
      BY <2>5
    <3>2. CASE call.method = "discover"
      BY <2>2, <2>5, <3>1, <3>2 DEF Succeeded, Negotiated
    <3>3. CASE call.method = "initialize"
      BY <2>2, <2>5, <3>1, <3>3 DEF Succeeded, Negotiated
    <3>4. CASE call.method = "list"
      BY <2>2, <2>5, <3>1, <3>4 DEF Succeeded, Negotiated
    <3>5. CASE call.method = "tool"
      BY <2>2, <2>5, <3>1, <3>5 DEF Succeeded, Negotiated
    <3>6. QED
      BY <2>2, <3>2, <3>3, <3>4, <3>5 DEF StageInv, Methods
  <2>6. CASE /\ answered' = answered \cup {<<era, call.method>>}
             /\ call.method \in {"list", "tool"} /\ at' = call.method /\ prepared' = prepared
    BY <2>2, <2>6 DEF Negotiated, StageInv
  <2>7. CASE at' = Failed(call.method) /\ prepared' = prepared /\ answered' = answered
    BY <2>2, <2>7 DEF Failed, Negotiated, StageInv, Methods
  <2>8. QED
    BY <1>14, <2>2, <2>3, <2>4, <2>5, <2>6, <2>7 DEF Receive
<1>15. ASSUME ReceiveError PROVE NegotiationInv'
  BY <1>15 DEF ReceiveError, Failed
<1>16. ASSUME TimeOut PROVE NegotiationInv'
  BY <1>16 DEF TimeOut, Close
<1>17. ASSUME Notify PROVE NegotiationInv'
  BY <1>17 DEF Notify, PutLine, Failed
<1>18. ASSUME NEW e \in Eras, Read(e) PROVE NegotiationInv'
  BY <1>18 DEF Read
<1>19. ASSUME NEW e \in Eras, Deliver(e) PROVE NegotiationInv'
  BY <1>19 DEF Deliver
<1>20. ASSUME NEW e \in Eras, DeliverError(e) PROVE NegotiationInv'
  BY <1>20 DEF DeliverError
<1>21. ASSUME NEW e \in Eras, Take(e) PROVE NegotiationInv'
  BY <1>21 DEF Take
<1>22. ASSUME NEW e \in Eras, Answer(e) PROVE NegotiationInv'
  BY <1>22 DEF Answer
<1>23. ASSUME NEW e \in Eras, Chatter(e) PROVE NegotiationInv'
  BY <1>23 DEF Chatter
<1>24. ASSUME NEW e \in Eras, Exit(e) PROVE NegotiationInv'
  BY <1>24 DEF Exit
<1>25. CASE UNCHANGED vars
  BY <1>25 DEF vars
<1>26. QED
  BY <1>1, <1>2, <1>3, <1>4, <1>5, <1>6, <1>7, <1>8, <1>9, <1>10, <1>11, <1>12, <1>13,
     <1>14, <1>15, <1>16, <1>17, <1>18, <1>19, <1>20, <1>21, <1>22, <1>23, <1>24, <1>25
  DEF Next, CallerStep

-----------------------------------------------------------------------------
\* The inductive invariant of the provider, its client and the children
\* (mcp.go, mcp_client.go).
THEOREM Invariant == Spec => []IInv
<1>1. IInv /\ [Next]_vars => IInv'
  BY ShapesStep, StageStep, LifeStep, MessageStep, RoomStep, NegotiationStep DEF IInv
<1>2. QED
  BY InitInv, <1>1, PTL DEF Spec

\* Channels and pipes hold what they can hold, and only channels that exist hold
\* a message or an error (Start and reset, mcp_client.go).
THEOREM TypeCorrect == Spec => []TypeOK
<1>1. IInv => TypeOK
  BY DEF IInv, Shapes, RoomInv, TypeOK
<1>2. QED
  BY Invariant, <1>1, PTL

\* An answer under the identifier that call waits for answers that request
\* (call, mcp_client.go:320-324).
THEOREM AnswersAreMatched == Spec => []AnswersMatch
<1>1. ASSUME IInv, NEW i \in DOMAIN responses, at \in {"write", "wait"}, responses[i].id = call.id
      PROVE  responses[i] = call
  <2>1. responses[i] \in Fine(nextID, call)
    BY <1>1, LenProperties, ElementOfSeq DEF IInv, MessageInv, Within
  <2>2. QED
    BY <1>1, <2>1 DEF IInv, StageInv, Fine
<1>2. IInv => AnswersMatch
  BY <1>1 DEF AnswersMatch
<1>3. QED
  BY Invariant, <1>2, PTL

\* Tools are called in children that were negotiated with (prepare, mcp.go).
THEOREM EffectsAreNegotiated == Spec => []EffectsNegotiated
<1>1. IInv => EffectsNegotiated
  BY DEF IInv, StageInv, NegotiationInv, Negotiated, EffectsNegotiated
<1>2. QED
  BY Invariant, <1>1, PTL

\* No child outlives the operation or the command it was started for (Close and
\* its callers).
THEOREM ChildrenAreReaped == Spec => []ChildrenReaped
<1>1. IInv => ChildrenReaped
  BY DEF IInv, LifeInv, Live, ChildrenReaped
<1>2. QED
  BY Invariant, <1>1, PTL
=============================================================================
