--------------------------- MODULE MCMcpTransport ---------------------------
(***************************************************************************)
(* Instances of McpTransport for TLC: the messages clients send.           *)
(***************************************************************************)
EXTENDS McpTransport

Text(text) == [text |-> text, jsonrpc |-> "2.0", id |-> TRUE, method |-> "ping", params |-> None]
Plain(method) == [Text("plain") EXCEPT !.method = method]
Call(key, args) ==
  [Plain("tools/call") EXCEPT
     !.params = [name |-> "write", namespace |-> None, key |-> key, args |-> args]]

\* Each thing that can be wrong with a message, and a call.
MCUnruly ==
  {Text("blank"), Text("garbled"), Text("oversize"),
   Plain("other"), [Plain("ping") EXCEPT !.jsonrpc = "1.0"], Plain("tools/list"), Plain("tools/call"),
   [Call("K", "x") EXCEPT !.params.name = "unregistered"],
   [Call("K", "x") EXCEPT !.id = FALSE],
   Call("K", "x")}

\* A call that is the same as that one, and one that is not.
MCCalls == {[Call("K", "y") EXCEPT !.params.namespace = "default"], Call(None, "x")}

MCMessages == MCUnruly \cup MCCalls
=============================================================================
