------------------------- MODULE McpTransportProofs -------------------------
(***************************************************************************)
(* For any messages, tools and results: what McpTransport says of answers  *)
(* and executions, over every interleaving of requests, lost connections,  *)
(* store errors, signals, crashes and restarts.                            *)
(***************************************************************************)
EXTENDS McpTransport, SequenceTheorems, TLAPS

Places == {"waiting", "served", "done", "lost"}

Tuples == {Tuple(m.params) : m \in {n \in Messages : Registered(n.params)}}

Statuses == {None, "accepted", "open", "failed"} \cup Results

Replies == {None} \cup [code : Int, execution : {None} \cup Tuples, status : Statuses]

Entry == [message : Messages, at : Places, reply : Replies]

SentType ==
  /\ sent \in Seq(Entry)
  /\ written \in Seq(Nat)
  /\ DOMAIN rows \subseteq Tuples
  /\ \A t \in DOMAIN rows :
       /\ DOMAIN rows[t] = {"args", "status", "result"}
       /\ rows[t].status \in {"open", "completed", "failed"}
       /\ rows[t].status = "completed" => rows[t].result \in Results

\* The reply to message i names an execution.
Names(i) == sent[i].reply # None /\ sent[i].reply.execution # None

\* Such a reply names the execution that the message asked for, and what it says
\* of its end is what the row says.
ReplyTrue(i) ==
  Names(i) =>
    LET reply == sent[i].reply
    IN /\ AsksFor(sent[i].message, reply.execution)
       /\ reply.execution \in DOMAIN rows
       /\ reply.status \in Results =>
            rows[reply.execution].status = "completed" /\ rows[reply.execution].result = reply.status
       /\ reply.status = "failed" => rows[reply.execution].status = "failed"

RepliesTrue == \A i \in DOMAIN sent : ReplyTrue(i)

AcceptedOnce ==
  \A i, j \in DOMAIN sent :
    (i # j /\ Names(i) /\ Names(j) /\ sent[i].reply.status = "accepted" /\ sent[j].reply.status = "accepted")
      => sent[i].reply.execution # sent[j].reply.execution

RepliesInv == RepliesTrue /\ AcceptedOnce /\ OnlyAskedFor

\* Where the stdio loop is: behind a line that is not done with, nothing was
\* looked at, and only what is done with was answered.
LoopInv ==
  mode = "stdio" =>
    /\ \A i, j \in DOMAIN sent : (i < j /\ sent[i].at \in {"waiting", "served"}) => sent[j].at = "waiting"
    /\ \A n \in DOMAIN written : written[n] \in DOMAIN sent /\ sent[written[n]].at = "done"

TransportInv == SentType /\ RepliesInv /\ LoopInv /\ AnswersInOrder

-----------------------------------------------------------------------------
(* How a step changes the messages.                                        *)

\* Message i is at another place, with another reply; nothing else changes.
Becomes(i, at, reply) ==
  /\ DOMAIN sent' = DOMAIN sent
  /\ sent'[i] = [message |-> sent[i].message, at |-> at, reply |-> reply]
  /\ \A j \in DOMAIN sent \ {i} : sent'[j] = sent[j]

\* What has as many entries as a list of messages is one.
LEMMA SameLength ==
  ASSUME NEW f \in Seq(Entry), NEW g \in [DOMAIN f -> Entry]
  PROVE  g \in Seq(Entry)
<1>1. DOMAIN f = 1..Len(f) /\ Len(f) \in Nat
  OBVIOUS
<1>2. QED
  BY <1>1, SeqDef

\* Dispatch returns a reply: the message is served.
LEMMA ReturnsBecomes ==
  ASSUME SentType, NEW i \in DOMAIN sent, NEW reply \in Replies, Returns(i, reply)
  PROVE  sent' \in Seq(Entry) /\ Becomes(i, "served", reply)
<1>1. sent[i] \in Entry
  BY DEF SentType
<1>2. DOMAIN sent' = DOMAIN sent /\ \A j \in DOMAIN sent \ {i} : sent'[j] = sent[j]
  BY DEF Returns
<1>3. sent'[i] = [message |-> sent[i].message, at |-> "served", reply |-> reply]
  BY <1>1 DEF Returns, Entry
<1>4. sent'[i] \in Entry
  BY <1>1, <1>3 DEF Entry, Places
<1>5. sent' \in [DOMAIN sent -> Entry]
  BY <1>2, <1>4 DEF SentType, Returns
<1>6. sent' \in Seq(Entry)
  BY <1>5, SameLength DEF SentType
<1> QED
  BY <1>2, <1>3, <1>6 DEF Becomes

\* A message goes to another place and keeps its reply.
LEMMA MovesBecomes ==
  ASSUME SentType, NEW i \in DOMAIN sent, NEW at \in Places, sent' = [sent EXCEPT ![i].at = at]
  PROVE  sent' \in Seq(Entry) /\ Becomes(i, at, sent[i].reply)
<1>1. sent[i] \in Entry
  BY DEF SentType
<1>2. DOMAIN sent' = DOMAIN sent /\ \A j \in DOMAIN sent \ {i} : sent'[j] = sent[j]
  OBVIOUS
<1>3. sent'[i] = [message |-> sent[i].message, at |-> at, reply |-> sent[i].reply]
  BY <1>1 DEF Entry
<1>4. sent'[i] \in Entry
  BY <1>1, <1>3 DEF Entry
<1>5. sent' \in Seq(Entry)
  BY <1>2, <1>4 DEF SentType
<1> QED
  BY <1>2, <1>3, <1>5 DEF Becomes

\* A step that changes no row, no message and no reply, except to one that names
\* no execution.
Quiet ==
  /\ rows' = rows /\ mode' = mode
  /\ DOMAIN sent \subseteq DOMAIN sent'
  /\ \A j \in DOMAIN sent : sent'[j].message = sent[j].message
  /\ \A j \in DOMAIN sent' :
       \/ j \in DOMAIN sent /\ sent'[j].reply = sent[j].reply
       \/ sent'[j].reply = None
       \/ sent'[j].reply.execution = None

\* Such a step keeps what is known of the replies.
LEMMA QuietStep ==
  ASSUME RepliesInv, Quiet
  PROVE  RepliesInv'
<1>1. \A j \in DOMAIN sent' : Names(j)' =>
        j \in DOMAIN sent /\ Names(j) /\ sent'[j].reply = sent[j].reply /\ sent'[j].message = sent[j].message
  BY DEF Quiet, Names
<1>2. RepliesTrue'
  BY <1>1 DEF RepliesInv, RepliesTrue, ReplyTrue, Quiet, AsksFor
<1>3. AcceptedOnce'
  BY <1>1 DEF RepliesInv, AcceptedOnce
<1>4. OnlyAskedFor'
  BY DEF RepliesInv, OnlyAskedFor, Quiet, AsksFor
<1> QED
  BY <1>2, <1>3, <1>4 DEF RepliesInv

\* A message that was sent is one of Messages; a call of a registered tool has a
\* tuple.
LEMMA SentMessage ==
  ASSUME SentType, NEW i \in DOMAIN sent
  PROVE  /\ sent[i].message \in Messages
         /\ Registered(sent[i].message.params) => Tuple(sent[i].message.params) \in Tuples
<1>1. sent[i] \in Entry
  BY DEF SentType
<1>2. sent[i].message \in Messages
  BY <1>1 DEF Entry
<1> QED
  BY <1>2 DEF Tuples

\* A message that changes place, and takes a reply that names no execution or
\* keeps the one it has, is no more than that.
LEMMA BecomesQuiet ==
  ASSUME SentType, RepliesInv, NEW i \in DOMAIN sent, NEW at, NEW reply, Becomes(i, at, reply),
         rows' = rows, mode' = mode,
         reply = sent[i].reply \/ reply = None \/ reply.execution = None
  PROVE  RepliesInv'
<1>1. Quiet
  BY DEF Quiet, Becomes
<1> QED
  BY <1>1, QuietStep

\* The message whose turn it is goes on: the loop is where it was, or further.
LEMMA TurnKeepsLoop ==
  ASSUME SentType, LoopInv, AnswersInOrder, NEW i \in DOMAIN sent, NEW at, NEW reply,
         Becomes(i, at, reply), mode' = mode, written' = written,
         mode = "stdio" => Turn(i) /\ at \notin {"waiting"}
  PROVE  LoopInv' /\ AnswersInOrder'
<1>1. AnswersInOrder'
  BY DEF AnswersInOrder
<1>2. LoopInv'
  <2> SUFFICES ASSUME mode = "stdio" PROVE LoopInv'
    BY DEF LoopInv
  <2>1. DOMAIN sent' = DOMAIN sent /\ DOMAIN sent = 1..Len(sent) /\ Len(sent) \in Nat
    BY DEF Becomes, SentType
  <2>2. sent[i].at = "waiting" /\ \A j \in 1 .. i - 1 : sent[j].at \notin {"waiting", "served"}
    BY DEF Turn, Waiting
  <2>3. sent'[i].at = at /\ \A j \in DOMAIN sent \ {i} : sent'[j] = sent[j]
    BY DEF Becomes
  <2>4. ASSUME NEW a \in DOMAIN sent, NEW b \in DOMAIN sent, a < b, sent'[a].at \in {"waiting", "served"}
        PROVE  sent'[b].at = "waiting"
    <3>1. b # i
      BY <2>1, <2>2, <2>3, <2>4
    <3>2. sent[a].at \in {"waiting", "served"}
      BY <2>2, <2>3, <2>4
    <3> QED
      BY <2>3, <2>4, <3>1, <3>2 DEF LoopInv
  <2>5. \A n \in DOMAIN written : written[n] \in DOMAIN sent /\ sent'[written[n]].at = "done"
    BY <2>2, <2>3 DEF LoopInv
  <2> QED
    BY <2>1, <2>4, <2>5 DEF LoopInv
<1> QED
  BY <1>1, <1>2

\* Replies that name no execution.
LEMMA PlainReplies ==
  /\ None \in Replies /\ ok \in Replies /\ ok.execution = None
  /\ \A code \in {codeParseError, codeInvalidRequest, codeMethodNotFound, codeInvalidParams, codeInternalError} :
       fail(code) \in Replies /\ fail(code).execution = None
BY DEF Replies, Statuses, ok, fail, Reply, codeParseError, codeInvalidRequest, codeMethodNotFound,
   codeInvalidParams, codeInternalError

\* The turn of message i, answered by a reply that names no execution.
LEMMA AnsweredPlainly ==
  ASSUME TransportInv, NEW i \in DOMAIN sent, Turn(i), NEW reply \in Replies,
         reply = None \/ reply.execution = None,
         Returns(i, reply), rows' = rows, mode' = mode, written' = written
  PROVE  TransportInv'
<1>1. SentType /\ RepliesInv /\ LoopInv /\ AnswersInOrder
  BY DEF TransportInv
<1>2. sent' \in Seq(Entry) /\ Becomes(i, "served", reply)
  BY <1>1, ReturnsBecomes
<1>3. SentType'
  BY <1>1, <1>2 DEF SentType
<1> QED
  BY <1>1, <1>2, <1>3, BecomesQuiet, TurnKeepsLoop DEF TransportInv

\* Message i changes its place only.
LEMMA MovedOn ==
  ASSUME TransportInv, NEW i \in DOMAIN sent, NEW at \in Places \ {"waiting"}, mode = "stdio" => Turn(i),
         sent' = [sent EXCEPT ![i].at = at], rows' = rows, mode' = mode, written' = written
  PROVE  TransportInv'
<1>1. SentType /\ RepliesInv /\ LoopInv /\ AnswersInOrder
  BY DEF TransportInv
<1>2. sent' \in Seq(Entry) /\ Becomes(i, at, sent[i].reply)
  BY <1>1, MovesBecomes
<1>3. SentType'
  BY <1>1, <1>2 DEF SentType
<1> QED
  BY <1>1, <1>2, <1>3, BecomesQuiet, TurnKeepsLoop DEF TransportInv

-----------------------------------------------------------------------------
(* Submit.                                                                 *)

\* The row is inserted and the client is told so, or told of an error.
LEMMA InsertKeeps ==
  ASSUME SentType, RepliesInv, NEW i \in DOMAIN sent, NEW reply \in Replies,
         AsksFor(sent[i].message, Tuple(sent[i].message.params)),
         Insert(sent[i].message.params), mode' = mode,
         Becomes(i, "served", reply),
         \/ reply.execution = None
         \/ reply.execution = Tuple(sent[i].message.params) /\ reply.status = "accepted"
  PROVE  RepliesInv'
<1> DEFINE t == Tuple(sent[i].message.params)
           p == sent[i].message.params
<1>1. /\ t \notin DOMAIN rows
      /\ DOMAIN rows' = DOMAIN rows \cup {t}
      /\ \A u \in DOMAIN rows : rows'[u] = rows[u]
      /\ rows'[t].args = Value(p.args)
  BY DEF Insert
<1>2. AsksFor(sent[i].message, t)
  OBVIOUS
<1>3. "accepted" \notin Results
  BY TransportAssumption
<1> HIDE DEF t
<1>4. /\ DOMAIN sent' = DOMAIN sent
      /\ \A j \in DOMAIN sent : sent'[j].message = sent[j].message
      /\ \A j \in DOMAIN sent \ {i} : sent'[j] = sent[j]
      /\ sent'[i].reply = reply
  BY DEF Becomes
<1>5. reply.execution = None \/ (reply.execution = t /\ reply.status = "accepted")
  BY DEF t
<1>6. \A j \in DOMAIN sent : Names(j)' => (j # i /\ Names(j)) \/ (j = i /\ reply.execution = t /\ reply.status = "accepted")
  BY <1>4, <1>5 DEF Names
<1>7. RepliesTrue'
  <2> SUFFICES ASSUME NEW j \in DOMAIN sent PROVE ReplyTrue(j)'
    BY <1>4 DEF RepliesTrue
  <2>1. CASE j = i
    BY <1>1, <1>2, <1>3, <1>4, <1>6, <2>1 DEF AsksFor, ReplyTrue
  <2>2. CASE j # i
    BY <1>1, <1>4, <1>6, <2>2 DEF AsksFor, RepliesInv, RepliesTrue, ReplyTrue
  <2> QED
    BY <2>1, <2>2
<1>8. AcceptedOnce'
  BY <1>1, <1>4, <1>6 DEF RepliesInv, RepliesTrue, ReplyTrue, AcceptedOnce
<1>9. OnlyAskedFor'
  <2> SUFFICES ASSUME NEW u \in DOMAIN rows'
               PROVE  (\E j \in DOMAIN sent :
                         AsksFor(sent[j].message, u) /\ rows[u].args = Value(sent[j].message.params.args))'
    BY DEF OnlyAskedFor
  <2>1. CASE u = t
    BY <1>1, <1>2, <1>4, <2>1 DEF AsksFor
  <2>2. CASE u # t
    BY <1>1, <1>4, <2>2 DEF AsksFor, RepliesInv, OnlyAskedFor
  <2> QED
    BY <2>1, <2>2
<1> QED
  BY <1>7, <1>8, <1>9 DEF RepliesInv

\* The row was there: the client is told its status, or its result.
LEMMA DuplicateKeeps ==
  ASSUME SentType, RepliesInv, NEW i \in DOMAIN sent, NEW reply \in Replies,
         AsksFor(sent[i].message, Tuple(sent[i].message.params)),
         Tuple(sent[i].message.params) \in DOMAIN rows, rows' = rows, mode' = mode,
         Becomes(i, "served", reply),
         reply.execution = Tuple(sent[i].message.params),
         reply.status = IF rows[reply.execution].status = "completed"
                        THEN rows[reply.execution].result ELSE rows[reply.execution].status
  PROVE  RepliesInv'
<1> DEFINE t == Tuple(sent[i].message.params)
<1>1. AsksFor(sent[i].message, t) /\ t \in DOMAIN rows /\ reply.execution = t
  OBVIOUS
<1>2. reply.status = IF rows[t].status = "completed" THEN rows[t].result ELSE rows[t].status
  OBVIOUS
<1> HIDE DEF t
<1>3. /\ DOMAIN sent' = DOMAIN sent
      /\ \A j \in DOMAIN sent : sent'[j].message = sent[j].message
      /\ \A j \in DOMAIN sent \ {i} : sent'[j] = sent[j]
      /\ sent'[i].reply = reply
  BY DEF Becomes
<1>4. /\ reply.status # "accepted"
      /\ reply.status \in Results => rows[t].status = "completed" /\ rows[t].result = reply.status
      /\ reply.status = "failed" => rows[t].status = "failed"
  BY <1>1, <1>2, TransportAssumption DEF SentType
<1>5. RepliesTrue'
  <2> SUFFICES ASSUME NEW j \in DOMAIN sent PROVE ReplyTrue(j)'
    BY <1>3 DEF RepliesTrue
  <2>1. CASE j = i
    BY <1>1, <1>3, <1>4, <2>1 DEF AsksFor, ReplyTrue
  <2>2. CASE j # i
    BY <1>3, <2>2 DEF AsksFor, RepliesInv, RepliesTrue, ReplyTrue, Names
  <2> QED
    BY <2>1, <2>2
<1>6. AcceptedOnce'
  BY <1>3, <1>4 DEF RepliesInv, AcceptedOnce, Names
<1>7. OnlyAskedFor'
  BY <1>3 DEF RepliesInv, OnlyAskedFor, AsksFor
<1> QED
  BY <1>5, <1>6, <1>7 DEF RepliesInv

\* An inserted row has the type of a row, and a tuple that was asked for.
LEMMA InsertType ==
  ASSUME SentType, NEW i \in DOMAIN sent, Registered(sent[i].message.params), Insert(sent[i].message.params),
         sent' \in Seq(Entry), written' = written
  PROVE  SentType' /\ Tuple(sent[i].message.params) \in Tuples
<1>2. Tuple(sent[i].message.params) \in Tuples
  BY SentMessage
<1> DEFINE t == Tuple(sent[i].message.params)
           row == [args |-> Value(sent[i].message.params.args), status |-> "open", result |-> None]
<1>3. /\ DOMAIN rows' = DOMAIN rows \cup {t}
      /\ \A u \in DOMAIN rows : rows'[u] = rows[u]
      /\ rows'[t] = row
  BY DEF Insert
<1> HIDE DEF t
<1>4. t \in Tuples
  BY <1>2 DEF t
<1>5. DOMAIN row = {"args", "status", "result"} /\ row.status = "open"
  OBVIOUS
<1> HIDE DEF row
<1>6. SentType'
  BY <1>3, <1>4, <1>5 DEF SentType
<1> QED
  BY <1>2, <1>6

-----------------------------------------------------------------------------
(* The steps.                                                              *)

\* tools/call, of a registered tool or not, with the store erring or not.
LEMMA ToolsCallPreserves ==
  ASSUME TransportInv, NEW i \in DOMAIN sent, Turn(i), toolsCall(i, sent[i].message.params),
         Registered(sent[i].message.params) =>
           AsksFor(sent[i].message, Tuple(sent[i].message.params)),
         mode' = mode, written' = written
  PROVE  TransportInv'
<1> DEFINE p == sent[i].message.params
<1>1. SentType /\ RepliesInv /\ LoopInv /\ AnswersInOrder
  BY DEF TransportInv
<1>2. fail(codeInvalidParams) \in Replies /\ fail(codeInvalidParams).execution = None
      /\ fail(codeInternalError) \in Replies /\ fail(codeInternalError).execution = None
  BY PlainReplies
<1>3. CASE /\ Returns(i, fail(codeInvalidParams)) \/ Returns(i, fail(codeInternalError))
           /\ UNCHANGED rows
  BY <1>2, <1>3, AnsweredPlainly
<1>4. CASE Registered(p) /\ SubmitNew(i, p)
  <2> DEFINE reply == Reply(0, Tuple(p), "accepted")
  <2>1. Tuple(p) \in Tuples
    BY <1>1, <1>4, SentMessage
  <2>2. reply \in Replies /\ reply.execution = Tuple(p) /\ reply.status = "accepted"
    BY <2>1 DEF Reply, Replies, Statuses
  <2>3. Returns(i, reply) /\ Insert(p)
    BY <1>4 DEF SubmitNew
  <2> HIDE DEF reply
  <2>4. sent' \in Seq(Entry) /\ Becomes(i, "served", reply)
    BY <1>1, <2>2, <2>3, ReturnsBecomes
  <2>5. SentType'
    BY <1>1, <1>4, <2>3, <2>4, InsertType
  <2>6. RepliesInv'
    BY <1>1, <1>4, <2>2, <2>3, <2>4, InsertKeeps
  <2>7. LoopInv' /\ AnswersInOrder'
    BY <1>1, <2>4, TurnKeepsLoop
  <2> QED
    BY <2>5, <2>6, <2>7 DEF TransportInv
<1>5. CASE Registered(p) /\ SubmitDuplicate(i, p)
  <2> DEFINE row == rows[Tuple(p)]
             reply == Reply(0, Tuple(p), IF row.status = "completed" THEN row.result ELSE row.status)
  <2>1. Tuple(p) \in DOMAIN rows /\ Tuple(p) \in Tuples /\ rows' = rows /\ Returns(i, reply)
    BY <1>1, <1>5 DEF SubmitDuplicate, SentType
  <2>2. /\ reply.execution = Tuple(p)
        /\ reply.status = IF row.status = "completed" THEN row.result ELSE row.status
    BY DEF Reply
  <2>3. (IF row.status = "completed" THEN row.result ELSE row.status) \in Statuses
    BY <1>1, <2>1 DEF SentType, Statuses
  <2>4. reply \in Replies
    BY <2>1, <2>3 DEF Reply, Replies
  <2> HIDE DEF reply
  <2>5. sent' \in Seq(Entry) /\ Becomes(i, "served", reply)
    BY <1>1, <2>1, <2>4, ReturnsBecomes
  <2>6. SentType'
    BY <1>1, <2>1, <2>5 DEF SentType
  <2>7. RepliesInv'
    BY <1>1, <1>5, <2>1, <2>2, <2>4, <2>5, DuplicateKeeps
  <2>8. LoopInv' /\ AnswersInOrder'
    BY <1>1, <2>5, TurnKeepsLoop
  <2> QED
    BY <2>6, <2>7, <2>8 DEF TransportInv
<1>6. CASE Registered(p) /\ SubmitErrs(i, p)
  <2>1. CASE UNCHANGED rows
    BY <1>2, <1>6, <2>1, AnsweredPlainly DEF SubmitErrs
  <2>2. CASE Insert(p)
    <3>1. sent' \in Seq(Entry) /\ Becomes(i, "served", fail(codeInternalError))
      BY <1>1, <1>2, <1>6, ReturnsBecomes DEF SubmitErrs
    <3>2. SentType'
      BY <1>1, <1>6, <2>2, <3>1, InsertType
    <3>3. RepliesInv'
      BY <1>1, <1>2, <1>6, <2>2, <3>1, InsertKeeps
    <3>4. LoopInv' /\ AnswersInOrder'
      BY <1>1, <3>1, TurnKeepsLoop
    <3> QED
      BY <3>2, <3>3, <3>4 DEF TransportInv
  <2> QED
    BY <1>6, <2>1, <2>2 DEF SubmitErrs
<1> QED
  BY <1>3, <1>4, <1>5, <1>6 DEF toolsCall

\* Dispatch, method by method.
LEMMA ServePreserves ==
  ASSUME TransportInv, NEW i \in DOMAIN sent, Serve(i)
  PROVE  TransportInv'
<1> DEFINE m == sent[i].message
<1>1. Turn(i) /\ mode' = mode /\ written' = written /\ Dispatch(i)
  BY DEF Serve
<1>2. CASE ~m.id /\ Returns(i, None) /\ UNCHANGED rows
  BY <1>1, <1>2, PlainReplies, AnsweredPlainly
<1>3. CASE m.id /\ m.method \in {"initialize", "ping"} /\ Returns(i, ok) /\ UNCHANGED rows
  BY <1>1, <1>3, PlainReplies, AnsweredPlainly
<1>4. CASE m.id /\ m.method = "tools/list" /\ toolsList(i)
  BY <1>1, <1>4, PlainReplies, AnsweredPlainly DEF toolsList
<1>5. CASE m.id /\ m.method = "tools/call" /\ toolsCall(i, m.params)
  <2>1. Registered(m.params) => AsksFor(m, Tuple(m.params))
    BY <1>5 DEF Serve, AsksFor, IsCall
  <2> QED
    BY <1>1, <1>5, <2>1, ToolsCallPreserves
<1>6. CASE m.id /\ m.method = "other" /\ Returns(i, fail(codeMethodNotFound)) /\ UNCHANGED rows
  BY <1>1, <1>6, PlainReplies, AnsweredPlainly
<1> QED
  BY <1>1, <1>2, <1>3, <1>4, <1>5, <1>6 DEF Dispatch

\* The answer goes out: it is the last of those before it on the line.
LEMMA WritePreserves ==
  ASSUME TransportInv, NEW i \in DOMAIN sent, Write(i)
  PROVE  TransportInv'
<1>1. SentType /\ RepliesInv /\ LoopInv /\ AnswersInOrder
  BY DEF TransportInv
<1>2. /\ sent[i].at = "served" /\ sent' = [sent EXCEPT ![i].at = "done"]
      /\ mode' = mode /\ rows' = rows
      /\ written' = written \/ written' = Append(written, i)
  BY DEF Write
<1>3. sent' \in Seq(Entry) /\ Becomes(i, "done", sent[i].reply)
  BY <1>1, <1>2, MovesBecomes DEF Places
<1>4. DOMAIN sent = 1..Len(sent) /\ Len(sent) \in Nat /\ written \in Seq(Nat)
  BY <1>1 DEF SentType
<1>5. SentType'
  <2>1. i \in Nat
    BY <1>4
  <2>2. Append(written, i) \in Seq(Nat)
    BY <1>4, <2>1
  <2>3. written' \in Seq(Nat)
    BY <1>2, <1>4, <2>2, Zenon
  <2> QED
    BY <1>1, <1>2, <1>3, <2>3 DEF SentType
<1>6. RepliesInv'
  BY <1>1, <1>2, <1>3, BecomesQuiet
<1>7. /\ DOMAIN sent' = DOMAIN sent /\ sent'[i].at = "done"
      /\ \A j \in DOMAIN sent \ {i} : sent'[j] = sent[j]
  BY <1>3 DEF Becomes
<1>8. DOMAIN written = 1..Len(written) /\ Len(written) \in Nat
  BY <1>4
<1>9. \/ written' = written
      \/ /\ DOMAIN written' = 1 .. Len(written) + 1
         /\ \A n \in 1..Len(written) : written'[n] = written[n]
         /\ written'[Len(written) + 1] = i
  BY <1>2, <1>4
<1>10. LoopInv'
  <2> SUFFICES ASSUME mode = "stdio" PROVE LoopInv'
    BY <1>2 DEF LoopInv
  <2>1. \A a, b \in DOMAIN sent' : (a < b /\ sent'[a].at \in {"waiting", "served"}) => sent'[b].at = "waiting"
    BY <1>1, <1>2, <1>7 DEF LoopInv
  <2>2. \A n \in DOMAIN written' : written'[n] \in DOMAIN sent' /\ sent'[written'[n]].at = "done"
    BY <1>1, <1>7, <1>8, <1>9 DEF LoopInv
  <2> QED
    BY <2>1, <2>2 DEF LoopInv
<1>11. AnswersInOrder'
  <2> SUFFICES ASSUME mode = "stdio", written' # written PROVE AnswersInOrder'
    BY <1>1, <1>2 DEF AnswersInOrder
  <2>1. \A n \in 1..Len(written) : written[n] < i
    BY <1>1, <1>2, <1>4, <1>8 DEF LoopInv
  <2> QED
    BY <1>1, <1>8, <1>9, <2>1 DEF AnswersInOrder
<1> QED
  BY <1>5, <1>6, <1>10, <1>11 DEF TransportInv

\* Everything that is not done with is lost.
LEMMA AllLost ==
  ASSUME TransportInv, rows' = rows, mode' = mode, written' = written,
         sent' = [j \in DOMAIN sent |-> IF sent[j].at = "done" THEN sent[j] ELSE [sent[j] EXCEPT !.at = "lost"]]
  PROVE  TransportInv'
<1>1. SentType /\ RepliesInv /\ LoopInv /\ AnswersInOrder
  BY DEF TransportInv
<1>2. ASSUME NEW j \in DOMAIN sent
      PROVE  /\ sent'[j] \in Entry
             /\ sent'[j].message = sent[j].message /\ sent'[j].reply = sent[j].reply
             /\ sent'[j].at \in {"done", "lost"}
             /\ sent[j].at = "done" => sent'[j].at = "done"
  <2>1. sent[j] \in Entry
    BY <1>1 DEF SentType
  <2> QED
    BY <2>1 DEF Entry, Places
<1>3. DOMAIN sent' = DOMAIN sent /\ sent' \in [DOMAIN sent -> Entry]
  BY <1>2
<1>4. sent' \in Seq(Entry)
  BY <1>1, <1>3, SameLength DEF SentType
<1>5. SentType'
  BY <1>1, <1>4 DEF SentType
<1>6. RepliesInv'
  <2>1. Quiet
    BY <1>2, <1>3 DEF Quiet
  <2> QED
    BY <1>1, <2>1, QuietStep
<1>7. LoopInv' /\ AnswersInOrder'
  BY <1>1, <1>2, <1>3 DEF LoopInv, AnswersInOrder
<1> QED
  BY <1>5, <1>6, <1>7 DEF TransportInv

\* The processes stop and start, and nothing else happens.
LEMMA OnlyServer ==
  ASSUME TransportInv, rows' = rows, mode' = mode, written' = written, sent' = sent
  PROVE  TransportInv'
<1>1. SentType' /\ LoopInv' /\ AnswersInOrder'
  BY DEF TransportInv, SentType, LoopInv, AnswersInOrder
<1>2. Quiet
  BY DEF Quiet
<1> QED
  BY <1>1, <1>2, QuietStep DEF TransportInv

\* A client sends: the message waits behind all others.
LEMMA SendPreserves ==
  ASSUME TransportInv, NEW m \in Messages, Send(m)
  PROVE  TransportInv'
<1>1. SentType /\ RepliesInv /\ LoopInv /\ AnswersInOrder
  BY DEF TransportInv
<1> DEFINE entry == [message |-> m, at |-> "waiting", reply |-> None]
<1>2. entry \in Entry
  BY DEF Entry, Places, Replies
<1>3. /\ sent' = Append(sent, entry) /\ mode' = mode /\ rows' = rows /\ written' = written
      /\ sent \in Seq(Entry)
  BY <1>1 DEF Send, SentType
<1>4. entry.at = "waiting" /\ entry.reply = None
  OBVIOUS
<1> HIDE DEF entry
<1>5. /\ sent' \in Seq(Entry)
      /\ DOMAIN sent = 1..Len(sent) /\ Len(sent) \in Nat
      /\ DOMAIN sent' = 1 .. Len(sent) + 1
      /\ \A j \in 1..Len(sent) : sent'[j] = sent[j]
      /\ sent'[Len(sent) + 1] = entry
  BY <1>2, <1>3
<1>6. SentType'
  BY <1>1, <1>3, <1>5 DEF SentType
<1>7. RepliesInv'
  <2>1. Quiet
    BY <1>3, <1>4, <1>5 DEF Quiet
  <2> QED
    BY <1>1, <2>1, QuietStep
<1>8. LoopInv' /\ AnswersInOrder'
  BY <1>1, <1>3, <1>4, <1>5 DEF LoopInv, AnswersInOrder
<1> QED
  BY <1>6, <1>7, <1>8 DEF TransportInv

\* An execution ends: no row that had ended changes.
LEMMA DecidePreserves ==
  ASSUME TransportInv, NEW t \in DOMAIN rows, Decide(t)
  PROVE  TransportInv'
<1>1. SentType /\ RepliesInv /\ LoopInv /\ AnswersInOrder
  BY DEF TransportInv
<1>2. /\ mode' = mode /\ sent' = sent /\ written' = written
      /\ rows[t].status = "open" /\ DOMAIN rows[t] = {"args", "status", "result"}
  BY <1>1 DEF Decide, SentType
<1>3. /\ DOMAIN rows' = DOMAIN rows
      /\ \A u \in DOMAIN rows \ {t} : rows'[u] = rows[u]
  BY DEF Decide
<1>4. /\ DOMAIN rows'[t] = {"args", "status", "result"}
      /\ rows'[t].args = rows[t].args
      /\ \/ rows'[t].status = "completed" /\ rows'[t].result \in Results
         \/ rows'[t].status = "failed"
  <2>1. ASSUME NEW r \in Results, rows' = [rows EXCEPT ![t].status = "completed", ![t].result = r]
        PROVE  /\ DOMAIN rows'[t] = {"args", "status", "result"} /\ rows'[t].args = rows[t].args
               /\ rows'[t].status = "completed" /\ rows'[t].result \in Results
    BY <1>2, <2>1
  <2>2. CASE rows' = [rows EXCEPT ![t].status = "failed"]
    BY <1>2, <2>2
  <2> QED
    BY <2>1, <2>2 DEF Decide
<1>5. SentType'
  BY <1>1, <1>2, <1>3, <1>4 DEF SentType
<1>6. RepliesTrue'
  BY <1>1, <1>2, <1>3, <1>4 DEF RepliesInv, RepliesTrue, ReplyTrue, Names, AsksFor
<1>7. AcceptedOnce'
  BY <1>1, <1>2 DEF RepliesInv, AcceptedOnce, Names
<1>8. OnlyAskedFor'
  BY <1>1, <1>2, <1>3, <1>4 DEF RepliesInv, OnlyAskedFor, AsksFor
<1>9. LoopInv' /\ AnswersInOrder'
  BY <1>1, <1>2 DEF LoopInv, AnswersInOrder
<1> QED
  BY <1>5, <1>6, <1>7, <1>8, <1>9 DEF TransportInv, RepliesInv

-----------------------------------------------------------------------------
(* The theorems.                                                           *)

\* Nothing was sent, stored or answered.
LEMMA TransportInit == Init => TransportInv
<1> SUFFICES ASSUME Init PROVE TransportInv
  OBVIOUS
<1>1. rows = << >> /\ sent = << >> /\ written = << >>
  BY DEF Init
<1>2. DOMAIN rows = {} /\ DOMAIN sent = {} /\ DOMAIN written = {} /\ sent \in Seq(Entry) /\ written \in Seq(Nat)
  BY <1>1
<1> QED
  BY <1>2 DEF TransportInv, SentType, RepliesInv, RepliesTrue, AcceptedOnce, OnlyAskedFor, LoopInv, AnswersInOrder

\* Every step of a transport, a client, the database or the process keeps the
\* invariant.
LEMMA TransportNext == TransportInv /\ [Next]_vars => TransportInv'
<1> SUFFICES ASSUME TransportInv, [Next]_vars PROVE TransportInv'
  OBVIOUS
<1>1. ASSUME NEW m \in Messages, Send(m) PROVE TransportInv'
  BY <1>1, SendPreserves
<1>2. ASSUME NEW i \in DOMAIN sent, SkipLine(i) \/ ConnectionLost(i) PROVE TransportInv'
  <2>1. CASE SkipLine(i)
    BY <2>1, MovedOn DEF SkipLine, Places
  <2>2. CASE ConnectionLost(i)
    BY <2>2, MovedOn DEF ConnectionLost, Places
  <2> QED
    BY <1>2, <2>1, <2>2
<1>3. ASSUME NEW i \in DOMAIN sent, ParseError(i) \/ InvalidRequest(i) PROVE TransportInv'
  BY <1>3, PlainReplies, AnsweredPlainly DEF ParseError, InvalidRequest
<1>4. ASSUME NEW i \in DOMAIN sent, Serve(i) PROVE TransportInv'
  BY <1>4, ServePreserves
<1>5. ASSUME NEW i \in DOMAIN sent, Write(i) PROVE TransportInv'
  BY <1>5, WritePreserves
<1>6. ASSUME NEW i \in DOMAIN sent, LineTooLong(i) PROVE TransportInv'
  BY <1>6, AllLost DEF LineTooLong
<1>7. ASSUME NEW t \in DOMAIN rows, Decide(t) PROVE TransportInv'
  BY <1>7, DecidePreserves
<1>8. CASE Signal
  <2>1. SentType
    BY DEF TransportInv
  <2>2. CASE mode = "http"
    <3>1. sent' = [j \in DOMAIN sent |-> IF sent[j].at = "done" THEN sent[j] ELSE [sent[j] EXCEPT !.at = "lost"]]
      BY <1>8, <2>2 DEF Signal
    <3> QED
      BY <1>8, <3>1, AllLost DEF Signal
  <2>3. CASE mode # "http"
    <3>1. sent' = [j \in DOMAIN sent |-> sent[j]]
      BY <1>8, <2>3 DEF Signal
    <3>2. sent' = sent
      BY <2>1, <3>1 DEF SentType
    <3> QED
      BY <1>8, <3>2, OnlyServer DEF Signal
  <2> QED
    BY <2>2, <2>3
<1>9. CASE Crash
  BY <1>9, AllLost DEF Crash
<1>10. CASE Restart \/ UNCHANGED vars
  BY <1>10, OnlyServer DEF Restart, vars
<1> QED
  BY <1>1, <1>2, <1>3, <1>4, <1>5, <1>6, <1>7, <1>8, <1>9, <1>10 DEF Next

\* The invariant behind the four theorems below.
LEMMA TransportHolds == Spec => []TransportInv
BY TransportInit, TransportNext, PTL DEF Spec

\* The codes of a Response: a result, or one of the errors of protocol.go.
Codes == {0, codeParseError, codeInvalidRequest, codeMethodNotFound, codeInvalidParams, codeInternalError}

\* What TypeOK says beyond SentType.
RowsTyped == \A t \in DOMAIN rows : rows[t].result \in IF rows[t].status = "completed" THEN Results ELSE {None}
CodesTyped == \A i \in DOMAIN sent : sent[i].reply # None => sent[i].reply.code \in Codes
WrittenTyped == \A n \in DOMAIN written : written[n] \in DOMAIN sent
RestTyped ==
  mode \in {"stdio", "http"} /\ server \in {"up", "stopping", "down"} /\ RowsTyped /\ CodesTyped /\ WrittenTyped

\* The two are TypeOK.
LEMMA TypedParts == SentType /\ RestTyped => TypeOK
<1> SUFFICES ASSUME SentType, RestTyped PROVE TypeOK
  OBVIOUS
<1>1. \A i \in DOMAIN sent : sent[i].message \in Messages /\ sent[i].at \in Places
  <2> SUFFICES ASSUME NEW i \in DOMAIN sent PROVE sent[i].message \in Messages /\ sent[i].at \in Places
    OBVIOUS
  <2>1. sent[i] \in Entry
    BY DEF SentType
  <2> QED
    BY <2>1 DEF Entry
<1> QED
  BY <1>1 DEF SentType, RestTyped, RowsTyped, CodesTyped, WrittenTyped, TypeOK, Codes, Places

\* Every reply that Dispatch returns has one of the codes.
LEMMA ServeCodes ==
  ASSUME SentType, NEW i \in DOMAIN sent, Serve(i) \/ ParseError(i) \/ InvalidRequest(i)
  PROVE  \E reply : Returns(i, reply) /\ (reply # None => reply.code \in Codes)
<1>1. ASSUME NEW code \in Codes, Returns(i, fail(code))
      PROVE  \E reply : Returns(i, reply) /\ (reply # None => reply.code \in Codes)
  BY <1>1 DEF fail, Reply
<1>2. ASSUME NEW execution, NEW status, Returns(i, Reply(0, execution, status))
      PROVE  \E reply : Returns(i, reply) /\ (reply # None => reply.code \in Codes)
  BY <1>2 DEF Reply, Codes
<1>3. ASSUME Returns(i, ok) PROVE \E reply : Returns(i, reply) /\ (reply # None => reply.code \in Codes)
  BY <1>2, <1>3 DEF ok
<1>4. /\ codeParseError \in Codes /\ codeInvalidRequest \in Codes /\ codeMethodNotFound \in Codes
      /\ codeInvalidParams \in Codes /\ codeInternalError \in Codes
  BY DEF Codes
<1>5. CASE ParseError(i) \/ InvalidRequest(i)
  BY <1>1, <1>4, <1>5 DEF ParseError, InvalidRequest
<1>6. ASSUME toolsCall(i, sent[i].message.params)
      PROVE  \E reply : Returns(i, reply) /\ (reply # None => reply.code \in Codes)
  BY <1>1, <1>2, <1>4, <1>6 DEF toolsCall, SubmitNew, SubmitDuplicate, SubmitErrs
<1>7. ASSUME toolsList(i) PROVE \E reply : Returns(i, reply) /\ (reply # None => reply.code \in Codes)
  BY <1>1, <1>3, <1>4, <1>7 DEF toolsList
<1>8. CASE Serve(i)
  BY <1>1, <1>3, <1>4, <1>6, <1>7, <1>8 DEF Serve, Dispatch
<1> QED
  BY <1>5, <1>8

\* A step gives a message no reply, or one with a code.
LEMMA StepCodes ==
  ASSUME SentType, CodesTyped, [Next]_vars
  PROVE  CodesTyped' /\ DOMAIN sent \subseteq DOMAIN sent'
<1>0. \A j \in DOMAIN sent : sent[j] \in Entry
  BY DEF SentType
<1>1. ASSUME DOMAIN sent' = DOMAIN sent, \A j \in DOMAIN sent : sent'[j].reply = sent[j].reply
      PROVE  CodesTyped' /\ DOMAIN sent \subseteq DOMAIN sent'
  BY <1>1 DEF CodesTyped
<1>2. ASSUME NEW m \in Messages, Send(m) PROVE CodesTyped' /\ DOMAIN sent \subseteq DOMAIN sent'
  <2> DEFINE entry == [message |-> m, at |-> "waiting", reply |-> None]
  <2>1. sent' = Append(sent, entry) /\ entry.reply = None /\ sent \in Seq(Entry)
    BY <1>2 DEF Send, SentType
  <2> HIDE DEF entry
  <2>2. /\ DOMAIN sent = 1..Len(sent) /\ Len(sent) \in Nat
        /\ DOMAIN sent' = 1 .. Len(sent) + 1
        /\ \A j \in 1..Len(sent) : sent'[j] = sent[j]
        /\ sent'[Len(sent) + 1].reply = None
    BY <2>1
  <2> QED
    BY <2>2 DEF CodesTyped
<1>3. ASSUME NEW i \in DOMAIN sent, Serve(i) \/ ParseError(i) \/ InvalidRequest(i)
      PROVE  CodesTyped' /\ DOMAIN sent \subseteq DOMAIN sent'
  <2>1. PICK reply : Returns(i, reply) /\ (reply # None => reply.code \in Codes)
    BY <1>3, ServeCodes
  <2>2. DOMAIN sent' = DOMAIN sent /\ \A j \in DOMAIN sent \ {i} : sent'[j] = sent[j]
    BY <2>1 DEF Returns
  <2>3. sent'[i].reply = reply
    BY <1>0, <2>1 DEF Returns, Entry
  <2> QED
    BY <2>1, <2>2, <2>3 DEF CodesTyped
<1>4. ASSUME NEW i \in DOMAIN sent, NEW at, sent' = [sent EXCEPT ![i].at = at]
      PROVE  CodesTyped' /\ DOMAIN sent \subseteq DOMAIN sent'
  <2>1. \A j \in DOMAIN sent : sent'[j].reply = sent[j].reply
    BY <1>0, <1>4 DEF Entry
  <2> QED
    BY <1>1, <1>4, <2>1
<1>5. ASSUME NEW i \in DOMAIN sent, SkipLine(i) \/ ConnectionLost(i) \/ Write(i)
      PROVE  CodesTyped' /\ DOMAIN sent \subseteq DOMAIN sent'
  BY <1>4, <1>5 DEF SkipLine, ConnectionLost, Write
<1>6. ASSUME NEW i \in DOMAIN sent, LineTooLong(i) PROVE CodesTyped' /\ DOMAIN sent \subseteq DOMAIN sent'
  <2>1. \A j \in DOMAIN sent : sent'[j].reply = sent[j].reply
    BY <1>0, <1>6 DEF LineTooLong, Entry
  <2> QED
    BY <1>1, <1>6, <2>1 DEF LineTooLong
<1>7. CASE Signal \/ Crash
  <2>1. \A j \in DOMAIN sent : sent'[j].reply = sent[j].reply
    BY <1>0, <1>7 DEF Signal, Crash, Entry
  <2> QED
    BY <1>1, <1>7, <2>1 DEF Signal, Crash
<1>8. CASE sent' = sent
  BY <1>1, <1>8
<1> QED
  BY <1>2, <1>3, <1>5, <1>6, <1>7, <1>8 DEF Next, vars, Decide, Restart

\* A row that is there has a result when it is completed, and none before.
LEMMA StepRows ==
  ASSUME SentType, RowsTyped, [Next]_vars
  PROVE  RowsTyped'
<1>1. ASSUME rows' = rows PROVE RowsTyped'
  BY <1>1 DEF RowsTyped
<1>2. ASSUME NEW p, Insert(p) PROVE RowsTyped'
  <2> DEFINE row == [args |-> Value(p.args), status |-> "open", result |-> None]
  <2>1. row.status = "open" /\ row.result = None
    OBVIOUS
  <2> HIDE DEF row
  <2>2. \A t \in DOMAIN rows' : (t \in DOMAIN rows /\ rows'[t] = rows[t]) \/ rows'[t] = row
    BY <1>2 DEF Insert, row
  <2> QED
    BY <2>1, <2>2 DEF RowsTyped
<1>3. ASSUME NEW i \in DOMAIN sent, Serve(i) PROVE RowsTyped'
  BY <1>1, <1>2, <1>3 DEF Serve, Dispatch, toolsList, toolsCall, SubmitNew, SubmitDuplicate, SubmitErrs
<1>4. ASSUME NEW t \in DOMAIN rows, Decide(t) PROVE RowsTyped'
  <2>1. rows[t].status = "open" /\ rows[t].result = None /\ DOMAIN rows[t] = {"args", "status", "result"}
    BY <1>4 DEF Decide, SentType, RowsTyped
  <2>2. DOMAIN rows' = DOMAIN rows /\ \A u \in DOMAIN rows \ {t} : rows'[u] = rows[u]
    BY <1>4 DEF Decide
  <2>3. ASSUME NEW r \in Results, rows' = [rows EXCEPT ![t].status = "completed", ![t].result = r]
        PROVE  RowsTyped'
    <3>1. rows'[t].status = "completed" /\ rows'[t].result = r
      BY <2>1, <2>3
    <3> QED
      BY <2>2, <3>1 DEF RowsTyped
  <2>4. CASE rows' = [rows EXCEPT ![t].status = "failed"]
    <3>1. rows'[t].status = "failed" /\ rows'[t].result = None
      BY <2>1, <2>4
    <3> QED
      BY <2>2, <3>1 DEF RowsTyped
  <2> QED
    BY <1>4, <2>3, <2>4 DEF Decide
<1> QED
  BY <1>1, <1>3, <1>4 DEF Next, vars, Send, SkipLine, LineTooLong, ParseError, InvalidRequest, Write, ConnectionLost,
     Signal, Crash, Restart

\* Only messages that were sent are answered.
LEMMA StepWritten ==
  ASSUME SentType, WrittenTyped, DOMAIN sent \subseteq DOMAIN sent', [Next]_vars
  PROVE  WrittenTyped'
<1>1. CASE written' = written
  BY <1>1 DEF WrittenTyped
<1>2. ASSUME NEW i \in DOMAIN sent, written' = Append(written, i) PROVE WrittenTyped'
  <2>1. /\ DOMAIN written = 1..Len(written) /\ DOMAIN written' = 1 .. Len(written) + 1
        /\ \A n \in 1..Len(written) : written'[n] = written[n]
        /\ written'[Len(written) + 1] = i /\ Len(written) \in Nat
    BY <1>2 DEF SentType
  <2> QED
    BY <2>1 DEF WrittenTyped
<1> QED
  BY <1>1, <1>2 DEF Next, vars, Send, Serve, Decide, SkipLine, LineTooLong, ParseError, InvalidRequest, Write,
     ConnectionLost, Signal, Crash, Restart

\* Messages, replies, rows and answers have the values the Go types allow.
THEOREM TransportTypeCorrect == Spec => []TypeOK
<1>1. Init => RestTyped
  BY DEF Init, RestTyped, RowsTyped, CodesTyped, WrittenTyped
<1>2. TransportInv /\ RestTyped /\ [Next]_vars => RestTyped'
  <2> SUFFICES ASSUME TransportInv, RestTyped, [Next]_vars PROVE RestTyped'
    OBVIOUS
  <2>1. SentType
    BY DEF TransportInv
  <2>2. CodesTyped' /\ RowsTyped' /\ WrittenTyped'
    BY <2>1, StepCodes, StepRows, StepWritten DEF RestTyped
  <2>3. mode' = mode /\ server' \in {"up", "stopping", "down"}
    BY DEF RestTyped, Next, vars, Send, Serve, Decide, SkipLine, LineTooLong, ParseError, InvalidRequest, Write,
       ConnectionLost, Signal, Crash, Restart
  <2> QED
    BY <2>2, <2>3 DEF RestTyped
<1>3. TransportInv /\ RestTyped => TypeOK
  BY TypedParts DEF TransportInv
<1> QED
  BY <1>1, <1>2, <1>3, TransportHolds, PTL DEF Spec

\* ServeStdio answers pipelined requests in the order of their lines.
THEOREM AnswersComeInOrder == Spec => []AnswersInOrder
<1>1. TransportInv => AnswersInOrder
  BY DEF TransportInv
<1> QED
  BY <1>1, TransportHolds, PTL

\* README 1: toolsCall answers with an execution only after its row is there.
THEOREM AnswersStayPersisted == Spec => []AnswersArePersisted
<1>1. TransportInv => AnswersArePersisted
  BY DEF TransportInv, RepliesInv, RepliesTrue, ReplyTrue, Names, AnswersArePersisted
<1> QED
  BY <1>1, TransportHolds, PTL

\* Dispatch submits nothing that was not asked for by a request.
THEOREM NothingUnasked == Spec => []OnlyAskedFor
<1>1. TransportInv => OnlyAskedFor
  BY DEF TransportInv, RepliesInv
<1> QED
  BY <1>1, TransportHolds, PTL

\* README 6: one of the answers to a call says accepted, and all that tell how it
\* ended tell the same.
THEOREM RepetitionsAgree == Spec => []RepeatedCallsAgree
<1>1. ASSUME NEW p, NEW q, SameCall(p, q) PROVE Tuple(p) = Tuple(q)
  BY <1>1 DEF SameCall, Tuple, idempotencyKey, hashKey
<1>2. TransportInv => RepeatedCallsAgree
  <2> SUFFICES ASSUME TransportInv, NEW i \in DOMAIN sent, NEW j \in DOMAIN sent, i # j,
                      SameCall(sent[i].message.params, sent[j].message.params), Names(i), Names(j)
               PROVE  LET x == sent[i].reply
                          y == sent[j].reply
                      IN /\ x.execution = y.execution
                         /\ x.status = "accepted" => y.status # "accepted"
                         /\ (x.status \in Results \cup {"failed"} /\ y.status \in Results \cup {"failed"})
                              => x.status = y.status
    BY DEF RepeatedCallsAgree, Names
  <2>1. ReplyTrue(i) /\ ReplyTrue(j)
    BY DEF TransportInv, RepliesInv, RepliesTrue
  <2>2. sent[i].reply.execution = sent[j].reply.execution
    BY <1>1, <2>1 DEF ReplyTrue, AsksFor
  <2>3. ~(sent[i].reply.status = "accepted" /\ sent[j].reply.status = "accepted")
    BY <2>2 DEF TransportInv, RepliesInv, AcceptedOnce
  <2>4. (sent[i].reply.status \in Results \cup {"failed"} /\ sent[j].reply.status \in Results \cup {"failed"})
          => sent[i].reply.status = sent[j].reply.status
    BY <2>1, <2>2, TransportAssumption DEF ReplyTrue
  <2> QED
    BY <2>2, <2>3, <2>4
<1> QED
  BY <1>2, TransportHolds, PTL
=============================================================================
