---------------------------- MODULE McpTransport ----------------------------
(***************************************************************************)
(* The MCP server between its clients and the store: the stdio loop and    *)
(* the HTTP handler of internal/mcp/transport.go, Dispatch and toolsCall   *)
(* of protocol.go, and the process around them (cmd/server/main.go).       *)
(*                                                                         *)
(* The client may send any message at any time without waiting for an      *)
(* answer, and the same message again.  Executors and schedulers decide    *)
(* the accepted calls; all they do here is what ExecutionContract lets     *)
(* them do.                                                                *)
(***************************************************************************)
EXTENDS Integers, Sequences

CONSTANTS
  Messages,     \* what clients send
  Tools,        \* the registered tools
  Results,      \* what tools return
  None,         \* no params, no name, no key, no arguments, no result, no reply
  MaxMessages,  \* bound: messages sent
  MaxRepeats    \* bound: calls sent beyond them, each again after an answer or its loss

\* The params of tools/call; None for params that are no callParams object.
Params == [name : Tools \cup {None, "unregistered"}, namespace : {None, "default", "other"},
           key : {None, "K"}, args : {None, "{}", "x", "y"}]

\* text: blank, garbled (not a Request object), large (over the 1 MiB HTTP
\* reads), oversize (over the 4 MiB a stdio line may have) or plain.
Message == [text : {"blank", "garbled", "large", "oversize", "plain"}, jsonrpc : {"1.0", "2.0"},
            id : BOOLEAN, method : {"initialize", "tools/list", "tools/call", "ping", "other"},
            params : Params \cup {None}]

ASSUME TransportAssumption ==
  /\ Messages \subseteq Message
  /\ Tools \subseteq {"read", "write"}
  /\ Results \cap {None, "accepted", "open", "failed"} = {}
  /\ MaxMessages \in Nat
  /\ MaxRepeats \in Nat

codeParseError == -32700
codeInvalidRequest == -32600
codeMethodNotFound == -32601
codeInvalidParams == -32602
codeInternalError == -32603

-----------------------------------------------------------------------------
(* Which execution a call is for.                                            *)

\* The text of the arguments, not their value, is hashed with the name.
hashKey(name, args) == <<"auto", name, args>>

\* Variant of idempotencyKey that hashes the arguments of every call.
idempotencyKeyHashed(p) == hashKey(p.name, p.args)

\* The key of the client, or the hash when it gives none.
idempotencyKey(p) == IF p.key # None THEN <<"client", p.key>> ELSE hashKey(p.name, p.args)

namespace(p) == IF p.namespace = None THEN "default" ELSE p.namespace

\* The UNIQUE (namespace, tool_name, idempotency_key) of executions.
Tuple(p) == <<namespace(p), p.name, idempotencyKey(p)>>

\* Submit stores {} for arguments that are not there.
Value(args) == IF args = None THEN "{}" ELSE args

\* The params are a callParams object with a name.
Named(p) == p # None /\ p.name # None

\* It is the name of a tool.
Registered(p) == p # None /\ p.name \in Tools

IsCall(m) == m.method = "tools/call" /\ Registered(m.params)

-----------------------------------------------------------------------------
VARIABLES
  mode,     \* stdio or http (MCP_TRANSPORT)
  server,   \* up, stopping (stdio after a signal) or down
  rows,     \* the executions, by their tuple
  sent,     \* per message: what it says, where it is and the reply to it
  written   \* the numbers of the messages answered, in the order of the answers

vars == <<mode, server, rows, sent, written>>

Init ==
  /\ mode \in {"stdio", "http"}
  /\ server = "up"
  /\ rows = << >>
  /\ sent = << >>
  /\ written = << >>

\* The result of a Response (code 0), or its error.
Reply(code, execution, status) == [code |-> code, execution |-> execution, status |-> status]
fail(code) == Reply(code, None, None)
ok == Reply(0, None, None)

\* Dispatch returns a reply, or None, for message i.
Returns(i, reply) == sent' = [sent EXCEPT ![i].at = "served", ![i].reply = reply]

-----------------------------------------------------------------------------
(* Dispatch.                                                                 *)

\* Submit inserts the row when there is none with the tuple.
Insert(p) ==
  /\ Tuple(p) \notin DOMAIN rows
  /\ rows' = [t \in DOMAIN rows \cup {Tuple(p)} |->
                IF t \in DOMAIN rows THEN rows[t]
                ELSE [args |-> Value(p.args), status |-> "open", result |-> None]]

SubmitNew(i, p) == Insert(p) /\ Returns(i, Reply(0, Tuple(p), "accepted"))

\* Submit finds the row: the answer tells its status, or its result.
SubmitDuplicate(i, p) ==
  /\ Tuple(p) \in DOMAIN rows
  /\ LET row == rows[Tuple(p)]
     IN Returns(i, Reply(0, Tuple(p), IF row.status = "completed" THEN row.result ELSE row.status))
  /\ UNCHANGED rows

\* Variant of SubmitErrs that answers before it knows what COMMIT said.
SubmitErrsUnheard(i, p) ==
  /\ UNCHANGED rows \/ (server = "up" /\ Insert(p))
  /\ Returns(i, Reply(0, Tuple(p), "accepted"))

\* The store errs, before the COMMIT or after it: the call may stand.
SubmitErrs(i, p) ==
  /\ UNCHANGED rows \/ (server = "up" /\ Insert(p))
  /\ Returns(i, fail(codeInternalError))

\* Params that are no callParams, or name nothing, are refused at once; whether a
\* tool is registered only the store can tell.  After a signal the context is done
\* and the store only errs.
toolsCall(i, p) ==
  \/ ~Named(p) /\ Returns(i, fail(codeInvalidParams)) /\ UNCHANGED rows
  \/ /\ Named(p) /\ ~Registered(p)
     /\ \/ server = "up" /\ Returns(i, fail(codeInvalidParams))
        \/ Returns(i, fail(codeInternalError))
     /\ UNCHANGED rows
  \/ /\ Registered(p)
     /\ \/ server = "up" /\ (SubmitNew(i, p) \/ SubmitDuplicate(i, p))
        \/ SubmitErrs(i, p)

toolsList(i) ==
  /\ \/ server = "up" /\ Returns(i, ok)
     \/ Returns(i, fail(codeInternalError))
  /\ UNCHANGED rows

\* Variant of Dispatch that serves a notification before it drops the answer.
DispatchNotifications(i) ==
  LET m == sent[i].message
  IN \/ m.method = "tools/call" /\ toolsCall(i, m.params)
     \/ m.method # "tools/call" /\ Returns(i, IF m.id THEN ok ELSE None) /\ UNCHANGED rows

\* Notifications take no response and are not looked at.
Dispatch(i) ==
  LET m == sent[i].message
  IN \/ ~m.id /\ Returns(i, None) /\ UNCHANGED rows
     \/ m.id /\ m.method \in {"initialize", "ping"} /\ Returns(i, ok) /\ UNCHANGED rows
     \/ m.id /\ m.method = "tools/list" /\ toolsList(i)
     \/ m.id /\ m.method = "tools/call" /\ toolsCall(i, m.params)
     \/ m.id /\ m.method = "other" /\ Returns(i, fail(codeMethodNotFound)) /\ UNCHANGED rows

-----------------------------------------------------------------------------
(* The transports.                                                           *)

Waiting == {i \in DOMAIN sent : sent[i].at = "waiting"}

\* Variant of Turn in which stdio handles every line in a goroutine of its own.
TurnOfAny(i) == i \in Waiting

\* ServeStdio reads a line when the one before is done with; over HTTP every
\* message is handled by itself.
Turn(i) ==
  /\ i \in Waiting
  /\ mode = "stdio" => \A j \in 1 .. i - 1 : sent[j].at \notin {"waiting", "served"}

\* Blank lines are skipped.
SkipLine(i) ==
  /\ mode = "stdio" /\ Turn(i)
  /\ sent[i].message.text = "blank"
  /\ sent' = [sent EXCEPT ![i].at = "done"]
  /\ UNCHANGED <<mode, server, rows, written>>

\* bufio.ErrTooLong: Scan ends, and the process with it.
LineTooLong(i) ==
  /\ mode = "stdio" /\ Turn(i)
  /\ sent[i].message.text = "oversize"
  /\ server' = "down"
  /\ sent' = [j \in DOMAIN sent |-> IF sent[j].at = "done" THEN sent[j] ELSE [sent[j] EXCEPT !.at = "lost"]]
  /\ UNCHANGED <<mode, rows, written>>

\* json.Unmarshal fails, over HTTP also for what LimitReader has cut off.
ParseError(i) ==
  /\ Turn(i)
  /\ sent[i].message.text \in IF mode = "stdio" THEN {"garbled"} ELSE {"blank", "garbled", "large", "oversize"}
  /\ Returns(i, fail(codeParseError))
  /\ UNCHANGED <<mode, server, rows, written>>

\* Only HTTPHandler looks at jsonrpc.
InvalidRequest(i) ==
  /\ mode = "http" /\ Turn(i)
  /\ sent[i].message.text = "plain" /\ sent[i].message.jsonrpc # "2.0"
  /\ Returns(i, fail(codeInvalidRequest))
  /\ UNCHANGED <<mode, server, rows, written>>

Serve(i) ==
  /\ Turn(i)
  /\ \/ mode = "stdio" /\ sent[i].message.text \in {"plain", "large"}
     \/ mode = "http" /\ sent[i].message.text = "plain" /\ sent[i].message.jsonrpc = "2.0"
  /\ Dispatch(i)
  /\ UNCHANGED <<mode, server, written>>

\* Variant of Write that drops a line which is no result.
WriteResults(i) ==
  /\ sent[i].at = "served"
  /\ sent' = [sent EXCEPT ![i].at = "done"]
  /\ written' = IF sent[i].reply = None \/ sent[i].reply.code # 0 THEN written ELSE Append(written, i)
  /\ UNCHANGED <<mode, server, rows>>

\* writeLine or writeJSONRPC; 202 and nothing else for a notification.
Write(i) ==
  /\ sent[i].at = "served"
  /\ sent' = [sent EXCEPT ![i].at = "done"]
  /\ written' = IF sent[i].reply = None THEN written ELSE Append(written, i)
  /\ UNCHANGED <<mode, server, rows>>

-----------------------------------------------------------------------------
(* The clients, the rest of the system, and failures.                        *)

Send(m) ==
  /\ server # "down"
  /\ \/ Len(sent) < MaxMessages
     \/ /\ Len(sent) < MaxMessages + MaxRepeats
        /\ IsCall(m) /\ \E i \in DOMAIN sent : sent[i].message = m /\ sent[i].at \in {"done", "lost"}
  /\ sent' = Append(sent, [message |-> m, at |-> "waiting", reply |-> None])
  /\ UNCHANGED <<mode, server, rows, written>>

\* Variant of Decide that stores the result of a failed attempt.
DecideKeepsResult(t) ==
  /\ rows[t].status = "open"
  /\ \E r \in Results, status \in {"completed", "failed"} :
       rows' = [rows EXCEPT ![t].status = status, ![t].result = r]
  /\ UNCHANGED <<mode, server, sent, written>>

\* Variant of Decide by an executor that has lost its lease.
DecideAgain(t) ==
  /\ \/ \E r \in Results : rows' = [rows EXCEPT ![t].status = "completed", ![t].result = r]
     \/ rows' = [rows EXCEPT ![t].status = "failed", ![t].result = None]
  /\ UNCHANGED <<mode, server, sent, written>>

\* An executor or the scheduler ends an execution.
Decide(t) ==
  /\ rows[t].status = "open"
  /\ \/ \E r \in Results : rows' = [rows EXCEPT ![t].status = "completed", ![t].result = r]
     \/ rows' = [rows EXCEPT ![t].status = "failed"]
  /\ UNCHANGED <<mode, server, sent, written>>

\* The connection of one HTTP request is lost with its answer.
ConnectionLost(i) ==
  /\ mode = "http"
  /\ sent[i].at \in {"waiting", "served"}
  /\ sent' = [sent EXCEPT ![i].at = "lost"]
  /\ UNCHANGED <<mode, server, rows, written>>

\* SIGINT or SIGTERM: the HTTP server closes every connection; the stdio loop
\* reads on under a context that is done.
Signal ==
  /\ server = "up"
  /\ server' = IF mode = "http" THEN "down" ELSE "stopping"
  /\ sent' = [j \in DOMAIN sent |->
                IF mode = "http" /\ sent[j].at # "done" THEN [sent[j] EXCEPT !.at = "lost"] ELSE sent[j]]
  /\ UNCHANGED <<mode, rows, written>>

Crash ==
  /\ server # "down"
  /\ server' = "down"
  /\ sent' = [j \in DOMAIN sent |-> IF sent[j].at = "done" THEN sent[j] ELSE [sent[j] EXCEPT !.at = "lost"]]
  /\ UNCHANGED <<mode, rows, written>>

\* A new process, over the same database.
Restart ==
  /\ server = "down"
  /\ server' = "up"
  /\ UNCHANGED <<mode, rows, sent, written>>

Next ==
  \/ \E m \in Messages : Send(m)
  \/ \E i \in DOMAIN sent :
       \/ SkipLine(i) \/ LineTooLong(i) \/ ParseError(i) \/ InvalidRequest(i)
       \/ Serve(i) \/ Write(i)
       \/ ConnectionLost(i)
  \/ \E t \in DOMAIN rows : Decide(t)
  \/ Signal \/ Crash \/ Restart

Spec == Init /\ [][Next]_vars

\* The loop and the handlers run on; nothing is said of clients and failures.
FairSpec ==
  /\ Spec
  /\ \A i \in 1 .. MaxMessages + MaxRepeats :
       WF_vars(i \in DOMAIN sent /\ (SkipLine(i) \/ LineTooLong(i) \/ ParseError(i) \/ InvalidRequest(i)
                                     \/ Serve(i) \/ Write(i)))

-----------------------------------------------------------------------------
TypeOK ==
  /\ mode \in {"stdio", "http"}
  /\ server \in {"up", "stopping", "down"}
  /\ \A t \in DOMAIN rows :
       /\ rows[t].status \in {"open", "completed", "failed"}
       /\ rows[t].result \in IF rows[t].status = "completed" THEN Results ELSE {None}
  /\ \A i \in DOMAIN sent :
       /\ sent[i].message \in Messages
       /\ sent[i].at \in {"waiting", "served", "done", "lost"}
       /\ sent[i].reply # None => sent[i].reply.code \in {0, codeParseError, codeInvalidRequest,
            codeMethodNotFound, codeInvalidParams, codeInternalError}
  /\ \A n \in DOMAIN written : written[n] \in DOMAIN sent

\* A stdio client that pipelines its requests gets the answers in their order,
\* whatever was malformed, slow or refused in between.
AnswersInOrder ==
  mode = "stdio" => \A m, n \in DOMAIN written : m < n => written[m] < written[n]

\* README 1: the call is persisted before its client is answered: whatever
\* names an execution, over crashes and errors of the store, names a row.
AnswersArePersisted ==
  \A i \in DOMAIN sent :
    (sent[i].reply # None /\ sent[i].reply.execution # None) => sent[i].reply.execution \in DOMAIN rows

\* A message that asks for a call: with an id, and readable in this mode.
AsksFor(m, t) ==
  /\ IsCall(m) /\ m.id /\ Tuple(m.params) = t
  /\ m.text = "plain" \/ (m.text = "large" /\ mode = "stdio")
  /\ mode = "http" => m.jsonrpc = "2.0"

\* Nothing is executed that no client asked for: a notification, an unreadable
\* message or an unknown tool leaves no execution behind, and what is stored
\* are the arguments of a request for it.
OnlyAskedFor ==
  \A t \in DOMAIN rows :
    \E i \in DOMAIN sent :
      AsksFor(sent[i].message, t) /\ rows[t].args = Value(sent[i].message.params.args)

\* The client means the same call again: its own key, or the same arguments.
SameCall(p, q) ==
  /\ p.name = q.name /\ namespace(p) = namespace(q)
  /\ p.key = q.key /\ (p.key = None => p.args = q.args)

\* README 6: over lost answers, restarts and concurrent requests, one of the
\* answers to a call and its repetitions says accepted, and all of them that
\* carry a result or a failure agree on it.
RepeatedCallsAgree ==
  \A i, j \in DOMAIN sent :
    LET m == sent[i].message
        n == sent[j].message
        x == sent[i].reply
        y == sent[j].reply
    IN (i # j /\ IsCall(m) /\ IsCall(n) /\ SameCall(m.params, n.params)
        /\ x # None /\ y # None /\ x.execution # None /\ y.execution # None) =>
         /\ x.execution = y.execution
         /\ x.status = "accepted" => y.status # "accepted"
         /\ (x.status \in Results \cup {"failed"} /\ y.status \in Results \cup {"failed"}) => x.status = y.status

\* Every readable request is answered, or its connection or process is lost:
\* nothing before it on the line, and no error, leaves a client waiting.
EveryRequestAnswered ==
  \A i \in 1 .. MaxMessages + MaxRepeats :
    (i \in DOMAIN sent /\ sent[i].message.id /\ sent[i].message.text = "plain")
      ~> (i \in DOMAIN sent /\ (sent[i].at = "lost" \/ \E n \in DOMAIN written : written[n] = i))
=============================================================================
