------------------------------ MODULE McpClient ------------------------------
(***************************************************************************)
(* The MCP transport of GitHub Issues: MCPProvider (mcp.go) and the stdio   *)
(* client under it (mcp_client.go). An operation of the provider needs a    *)
(* negotiated child process. Outside of a command it starts and closes one  *)
(* of its own; between BeginCommand and EndCommand all operations share it, *)
(* or share its failure to negotiate.                                       *)
(*                                                                         *)
(* The processes of the system are the calling goroutine (at), one read    *)
(* loop for each child that was started, and the children themselves, which *)
(* take requests, answer them in any order, twice or never, write other     *)
(* messages or what is not a message at all, and exit when they like. A     *)
(* child is known by its era, its number among those that were started.     *)
(*                                                                         *)
(* What is in a message is left out: an answer is the request it answers,   *)
(* and what the caller makes of it (a result, a JSON-RPC error, an          *)
(* unsuitable version, another page) is chosen freely. Time is left out: a  *)
(* deadline may pass at any moment of a wait.                               *)
(***************************************************************************)

EXTENDS Naturals, Sequences

CONSTANTS
  MaxEra,      \* bound on the children that are started
  Operations,  \* bound on the operations of the provider
  Again,       \* bound on the requests after which one more page or tool is explored
  MaxNoise,    \* bound on messages that answer nothing
  Capacity,    \* the channel of responses holds so many (16 in the code)
  StdinPipe,   \* so many requests fit into a pipe that is not read
  StdoutPipe   \* the same for the lines of a child

ASSUME McpAssumption ==
  /\ {MaxEra, Operations, Again, MaxNoise, StdinPipe} \subseteq Nat
  /\ {Capacity, StdoutPipe} \subseteq Nat \ {0}

VARIABLES
  command,    \* commandRun: the provider is between BeginCommand and EndCommand
  prepared,   \* "no", "ready" or "failed"
  at,         \* the next step of the caller, "idle" between operations
  after,      \* what follows when the client is closed
  started,    \* c.cmd is set
  closed,     \* the client is closed
  era,        \* the child that was started last
  channels,   \* the child that c.stdin and the channels were made for, or 0
  nextID,
  call,       \* the request under way
  responses,  \* the channel of responses
  readError,  \* the child whose error is in readErrors, or 0
  answered,   \* the handshake so far: methods that a child has answered
  loop,       \* the read loop of each child
  held,       \* the message it has read and not sent on yet
  proc,       \* each child: "none", "running", "dead" or "reaped"
  requests,   \* its stdin
  asked,      \* the requests that it has taken
  stdout,     \* its stdout
  operations, noise

provider == <<command, prepared, operations>>
client == <<started, closed, era, channels, nextID>>
inbox == <<responses, readError>>
loops == <<loop, held>>
children == <<proc, requests, asked, stdout, noise>>
vars == <<command, prepared, at, after, started, closed, era, channels, nextID, call,
          responses, readError, answered, loop, held, proc, requests, asked, stdout,
          operations, noise>>

Eras == 1 .. MaxEra
Methods == {"discover", "initialize", "list", "tool"}
Request(m) == [id |-> nextID + 1, method |-> m, era |-> era]

\* Messages without an id that anybody waits for: a notification that the
\* client has sent, one that it gets, and a line that is no message.
Notice == [id |-> 0, method |-> "notice", era |-> 0]
Garbage == [id |-> 0, method |-> "garbage", era |-> 0]

Init ==
  /\ command = FALSE /\ prepared = "no" /\ at = "idle" /\ after = "none"
  /\ started = FALSE /\ closed = FALSE /\ era = 0 /\ channels = 0 /\ nextID = 0
  /\ call = Notice /\ responses = <<>> /\ readError = 0 /\ answered = {}
  /\ loop = [e \in Eras |-> "none"] /\ held = [e \in Eras |-> Notice]
  /\ proc = [e \in Eras |-> "none"]
  /\ requests = [e \in Eras |-> <<>>] /\ asked = [e \in Eras |-> {}]
  /\ stdout = [e \in Eras |-> <<>>]
  /\ operations = 0 /\ noise = 0

Close(next) == at' = "close" /\ after' = next
Goto(step) == at' = step /\ UNCHANGED after

-----------------------------------------------------------------------------
(* Faulty variants: what the properties are there to catch. *)

\* reset also starts the identifiers anew.
ResetForgetsIDs ==
  /\ at = "reset"
  /\ started' = FALSE /\ closed' = FALSE /\ channels' = 0 /\ nextID' = 0
  /\ responses' = <<>> /\ readError' = 0
  /\ Goto("restart")
  /\ UNCHANGED <<provider, era, call, answered, loops, children>>

\* After a restart the caller goes on where the old child would have been.
StartRenegotiatesNothing ==
  /\ at \in {"start", "restart"} /\ era < MaxEra
  /\ era' = era + 1 /\ started' = TRUE /\ channels' = era'
  /\ responses' = <<>> /\ readError' = 0
  /\ proc' = [proc EXCEPT ![era'] = "running"]
  /\ loop' = [loop EXCEPT ![era'] = "reading"]
  /\ Goto(IF at = "start" THEN "discover" ELSE "list")
  /\ UNCHANGED <<provider, closed, nextID, call, answered, held, requests, asked, stdout, noise>>

\* A child that could not be negotiated with is left alone.
AbandonOpen ==
  /\ at = "abandon"
  /\ prepared' = IF command THEN "failed" ELSE "no"
  /\ Goto("idle")
  /\ UNCHANGED <<command, operations, client, call, inbox, answered, loops, children>>

\* Only the discovery has a deadline.
TimeOutDiscovery ==
  /\ at = "wait" /\ call.method = "discover"
  /\ Close("reset")
  /\ UNCHANGED <<provider, client, call, inbox, answered, loops, children>>

\* The read loop does not wait for room in the channel.
DeliverAlways(e) ==
  /\ loop[e] = "holding"
  /\ loop' = [loop EXCEPT ![e] = "reading"]
  /\ responses' = Append(responses, held[e])
  /\ UNCHANGED <<provider, at, after, client, call, readError, answered, held, children>>

-----------------------------------------------------------------------------
(* The provider *)

BeginCommand ==
  /\ at = "idle" /\ ~command /\ operations < Operations
  /\ command' = TRUE
  /\ UNCHANGED <<prepared, at, after, client, call, inbox, answered, loops, children, operations>>

\* prepare: a new client, the one that is ready, or the failure that the
\* command has already met. What read loops of older clients still do reaches
\* nobody.
Operate ==
  /\ at = "idle" /\ operations < Operations
  /\ operations' = operations + 1
  /\ \/ /\ prepared = "no" /\ era < MaxEra
        /\ started' = FALSE /\ closed' = FALSE /\ channels' = 0 /\ nextID' = 0
        /\ responses' = <<>> /\ readError' = 0 /\ answered' = {}
        /\ loop' = [e \in Eras |-> IF loop[e] = "none" THEN "none" ELSE "gone"]
        /\ stdout' = [e \in Eras |-> <<>>]
        /\ Goto("start")
        /\ UNCHANGED <<era, held>>
     \/ /\ prepared = "ready"
        /\ Goto("tool")
        /\ UNCHANGED <<client, inbox, answered, loops, stdout>>
     \/ /\ prepared = "failed"
        /\ UNCHANGED <<at, after, client, inbox, answered, loops, stdout>>
  /\ UNCHANGED <<command, prepared, call, proc, requests, asked, noise>>

\* The operation is over; a client of its own is closed with it.
Finish ==
  /\ at = "finish"
  /\ IF command THEN Goto("idle") ELSE Close("over")
  /\ UNCHANGED <<provider, client, call, inbox, answered, loops, children>>

\* Negotiation or validation has failed.
Abandon ==
  /\ at = "abandon"
  /\ Close("failed")
  /\ UNCHANGED <<provider, client, call, inbox, answered, loops, children>>

EndCommand ==
  /\ at = "idle" /\ command
  /\ command' = FALSE
  /\ IF prepared = "ready"
       THEN Close("over") /\ UNCHANGED prepared
       ELSE prepared' = "no" /\ UNCHANGED <<at, after>>
  /\ UNCHANGED <<operations, client, call, inbox, answered, loops, children>>

-----------------------------------------------------------------------------
(* Start, Close and reset *)

Start ==
  /\ at \in {"start", "restart"} /\ era < MaxEra
  /\ era' = era + 1 /\ started' = TRUE /\ channels' = era'
  /\ responses' = <<>> /\ readError' = 0
  /\ proc' = [proc EXCEPT ![era'] = "running"]
  /\ loop' = [loop EXCEPT ![era'] = "reading"]
  /\ Goto(IF at = "start" THEN "discover" ELSE "initialize")
  /\ UNCHANGED <<provider, closed, nextID, call, answered, held, requests, asked, stdout, noise>>

\* The command cannot be run: there is a c.cmd and no process.
StartFails ==
  /\ at \in {"start", "restart"}
  /\ started' = TRUE
  /\ Goto("abandon")
  /\ UNCHANGED <<provider, closed, era, channels, nextID, call, inbox, answered, loops, children>>

\* What the callers of Close do next.
Closed ==
  /\ prepared' = CASE after = "failed" /\ command -> "failed"
                   [] after = "reset" -> prepared
                   [] OTHER -> "no"
  /\ at' = IF after = "reset" THEN "reset" ELSE "idle"
  /\ after' = "none"

\* Closing stdin asks the child to exit. There may be no child to wait for.
CloseStdin ==
  /\ at = "close"
  /\ closed' = (closed \/ started)
  /\ IF started /\ ~closed /\ channels # 0
       THEN Goto("reap") /\ UNCHANGED prepared
       ELSE Closed
  /\ UNCHANGED <<command, operations, started, era, channels, nextID, call, inbox, answered,
                 loops, children>>

\* Wait: the child has exited or is killed when it takes too long. What it had
\* written is gone with its pipe, but for the lines that the scanner of the read
\* loop has in its buffer already.
Reap ==
  /\ at = "reap"
  /\ proc' = [proc EXCEPT ![era] = "reaped"]
  /\ requests' = [requests EXCEPT ![era] = <<>>]
  /\ asked' = [asked EXCEPT ![era] = {}]
  /\ \E buffered \in 0 .. Len(stdout[era]) :
       stdout' = [stdout EXCEPT ![era] = SubSeq(@, 1, buffered)]
  /\ Closed
  /\ UNCHANGED <<command, operations, client, call, inbox, answered, loops, noise>>

\* A read loop that waits for room in the old channel waits for ever.
Reset ==
  /\ at = "reset"
  /\ started' = FALSE /\ closed' = FALSE /\ channels' = 0
  /\ responses' = <<>> /\ readError' = 0
  /\ \E blocked \in SUBSET {e \in Eras : loop[e] = "holding" /\ Len(responses) = Capacity} :
       loop' = [e \in Eras |-> IF e \in blocked THEN "stuck" ELSE loop[e]]
  /\ Goto("restart")
  /\ UNCHANGED <<provider, era, nextID, call, answered, held, children>>

-----------------------------------------------------------------------------
(* A call *)

\* What follows a call that has failed, other than by its deadline.
Failed(m) ==
  CASE m = "discover" -> "initialize" [] m = "tool" -> "finish" [] OTHER -> "abandon"

\* What may follow an answer: success and the ways in which it may not do.
Succeeded(m) ==
  CASE m = "discover" -> {"list", "abandon"}
    [] m = "initialize" -> {"initialized", "abandon"}
    [] m = "list" -> {"tool", "abandon"}
    [] OTHER -> {"finish"}

Send(m) ==
  /\ at = m
  /\ nextID' = nextID + 1
  /\ call' = Request(m)
  /\ Goto("write")
  /\ UNCHANGED <<provider, started, closed, era, channels, inbox, answered, loops, children>>

\* The pipe takes the line as soon as it has room; no deadline ends the write.
PutLine(line) ==
  /\ proc[era] = "running" /\ Len(requests[era]) < StdinPipe
  /\ requests' = [requests EXCEPT ![era] = Append(@, line)]

Write ==
  /\ at = "write"
  /\ PutLine(call)
  /\ Goto("wait")
  /\ UNCHANGED <<provider, client, call, inbox, answered, loops, proc, asked, stdout, noise>>

\* The pipe of a child that is no more; the notifications of the caller as well.
WriteFails ==
  /\ at \in {"write", "initialized", "cancel"}
  /\ proc[era] # "running"
  /\ Goto(Failed(call.method))
  /\ UNCHANGED <<provider, client, call, inbox, answered, loops, children>>

\* The next message of the channel: the answer, or one to pass over. A child
\* is ready when its tools are validated.
Receive ==
  /\ at = "wait" /\ responses # <<>>
  /\ responses' = Tail(responses)
  /\ LET line == Head(responses) IN
     \/ /\ line.id # call.id
        /\ UNCHANGED <<prepared, at, after, answered>>
     \/ /\ line.id = call.id
        /\ \/ \E step \in Succeeded(call.method) :
                /\ Goto(step)
                /\ prepared' = IF step = "tool" THEN "ready" ELSE prepared
           \/ /\ call.method \in {"list", "tool"} /\ nextID < Again
              /\ Goto(call.method) /\ UNCHANGED prepared
        /\ answered' = answered \cup {<<line.era, line.method>>}
     \/ /\ line.id = call.id                      \* a JSON-RPC error
        /\ Goto(Failed(call.method))
        /\ UNCHANGED <<prepared, answered>>
  /\ UNCHANGED <<command, operations, client, call, readError, loops, children>>

\* The read loop has ended.
ReceiveError ==
  /\ at = "wait" /\ readError # 0
  /\ readError' = 0
  /\ Goto(Failed(call.method))
  /\ UNCHANGED <<provider, client, call, responses, answered, loops, children>>

\* The deadline: a discovery restarts the child, a listing or a tool call is
\* cancelled.
TimeOut ==
  /\ at = "wait"
  /\ CASE call.method = "discover" -> Close("reset")
       [] call.method = "initialize" -> Goto("abandon")
       [] OTHER -> Goto("cancel")
  /\ UNCHANGED <<provider, client, call, inbox, answered, loops, children>>

\* notifications/initialized and notifications/cancelled.
Notify ==
  /\ at \in {"initialized", "cancel"}
  /\ PutLine(Notice)
  /\ Goto(IF at = "initialized" THEN "list" ELSE Failed(call.method))
  /\ UNCHANGED <<provider, client, call, inbox, answered, loops, proc, asked, stdout, noise>>

-----------------------------------------------------------------------------
(* The read loops *)

\* A line is read, or the end of the pipe, which Wait may have closed.
Read(e) ==
  /\ loop[e] = "reading"
  /\ \/ /\ stdout[e] # <<>>
        /\ stdout' = [stdout EXCEPT ![e] = Tail(@)]
        /\ IF Head(stdout[e]) = Garbage
             THEN loop' = [loop EXCEPT ![e] = "failing"] /\ UNCHANGED held
             ELSE /\ loop' = [loop EXCEPT ![e] = "holding"]
                  /\ held' = [held EXCEPT ![e] = Head(stdout[e])]
     \/ /\ stdout[e] = <<>> /\ proc[e] \in {"dead", "reaped"}
        /\ loop' = [loop EXCEPT ![e] = "failing"]
        /\ UNCHANGED <<held, stdout>>
  /\ UNCHANGED <<provider, at, after, client, call, inbox, answered, proc, requests, asked, noise>>

\* The message goes to the channel that c.responses is now; to none for ever.
Deliver(e) ==
  /\ loop[e] = "holding"
  /\ IF channels = 0
       THEN loop' = [loop EXCEPT ![e] = "stuck"] /\ UNCHANGED responses
       ELSE /\ Len(responses) < Capacity
            /\ responses' = Append(responses, held[e])
            /\ loop' = [loop EXCEPT ![e] = "reading"]
  /\ UNCHANGED <<provider, at, after, client, call, readError, answered, held, children>>

\* sendReadError drops what the channel of one error cannot take.
DeliverError(e) ==
  /\ loop[e] = "failing"
  /\ loop' = [loop EXCEPT ![e] = "ended"]
  /\ readError' = IF channels # 0 /\ readError = 0 THEN e ELSE readError
  /\ UNCHANGED <<provider, at, after, client, call, responses, answered, held, children>>

-----------------------------------------------------------------------------
(* The children *)

caller == <<provider, at, after, client, call, inbox, answered, loops>>

Take(e) ==
  /\ proc[e] = "running" /\ requests[e] # <<>>
  /\ requests' = [requests EXCEPT ![e] = Tail(@)]
  /\ asked' = [asked EXCEPT ![e] = @ \cup ({Head(requests[e])} \ {Notice})]
  /\ UNCHANGED <<caller, proc, stdout, noise>>

\* An answer, for once or with the chance of a second one.
Answer(e) ==
  /\ proc[e] = "running" /\ Len(stdout[e]) < StdoutPipe
  /\ \E r \in asked[e] :
       /\ stdout' = [stdout EXCEPT ![e] = Append(@, r)]
       /\ \/ asked' = [asked EXCEPT ![e] = @ \ {r}] /\ UNCHANGED noise
          \/ noise < MaxNoise /\ noise' = noise + 1 /\ UNCHANGED asked
  /\ UNCHANGED <<caller, proc, requests>>

Chatter(e) ==
  /\ proc[e] = "running" /\ Len(stdout[e]) < StdoutPipe
  /\ noise < MaxNoise
  /\ noise' = noise + 1
  /\ \E line \in {Notice, Garbage} : stdout' = [stdout EXCEPT ![e] = Append(@, line)]
  /\ UNCHANGED <<caller, proc, requests, asked>>

Exit(e) ==
  /\ proc[e] = "running"
  /\ proc' = [proc EXCEPT ![e] = "dead"]
  /\ requests' = [requests EXCEPT ![e] = <<>>]
  /\ asked' = [asked EXCEPT ![e] = {}]
  /\ UNCHANGED <<caller, stdout, noise>>

-----------------------------------------------------------------------------
CallerStep ==
  \/ Finish \/ Abandon \/ Start \/ StartFails \/ CloseStdin \/ Reap \/ Reset
  \/ \E m \in Methods : Send(m)
  \/ Write \/ WriteFails \/ Receive \/ ReceiveError \/ TimeOut \/ Notify

Next ==
  \/ BeginCommand \/ Operate \/ EndCommand \/ CallerStep
  \/ \E e \in Eras : \/ Read(e) \/ Deliver(e) \/ DeliverError(e)
                     \/ Take(e) \/ Answer(e) \/ Chatter(e) \/ Exit(e)

Spec == Init /\ [][Next]_vars

\* The goroutine of the caller runs and deadlines pass. A child that runs
\* reads what it is sent; it need not answer, nor exit.
Fairness ==
  /\ WF_vars(CallerStep)
  /\ WF_vars(TimeOut)
  /\ \A e \in Eras : WF_vars(Take(e))

FairSpec == Spec /\ Fairness

-----------------------------------------------------------------------------
(* The channel and the pipes hold what they can hold, and a message or an
   error only waits in channels that exist. *)
TypeOK ==
  /\ {command, started, closed} \subseteq BOOLEAN
  /\ prepared \in {"no", "ready", "failed"}
  /\ era \in 0 .. MaxEra /\ channels \in {0, era} /\ readError \in 0 .. era
  /\ Len(responses) <= Capacity
  /\ \A e \in Eras : Len(requests[e]) <= StdinPipe /\ Len(stdout[e]) <= StdoutPipe
  /\ channels = 0 => responses = <<>> /\ readError = 0

(* Whatever a late, repeated or reordered message of this child or of the one
   before it, a message under the identifier that call waits for answers that
   very request: identifiers are not used again in the life of a client, not
   even by reset. *)
AnswersMatch ==
  \A i \in DOMAIN responses :
    at \in {"write", "wait"} /\ responses[i].id = call.id => responses[i] = call

(* No tool is called in a child that has not itself been negotiated with and
   listed its tools, whatever became of the child before it. *)
EffectsNegotiated ==
  at \in {"write", "wait"} /\ call.method = "tool" =>
    \E handshake \in {"discover", "initialize"} :
      {<<era, handshake>>, <<era, "list">>} \subseteq answered

(* A child lives for one command or one operation and there is one at a time:
   each is waited for, killed if need be, on every path out of its use. *)
ChildrenReaped ==
  \A e \in Eras : proc[e] \in {"running", "dead"} =>
    e = era /\ (at = "idle" => command /\ prepared = "ready")

(* An operation does not stay anywhere: whatever the children answer, if they
   read their input or exit, it ends or sends one more request. How many there
   are is up to the children: nothing bounds the pages of a listing (ListTools,
   mcp_client.go:244-265; listComments and findMarked, mcp.go:371-415). *)
RequestsReturn ==
  at \notin {"idle"} \cup Methods ~> at \in {"idle"} \cup Methods
=============================================================================
