---------------------------- MODULE Conversation ----------------------------
(***************************************************************************)
(* Conversations in Redis and the chat that writes them.  A WebSocket      *)
(* connection has one goroutine: it reads a message, serves it to the end  *)
(* (retrieve, find or create the conversation, stream the answer, save     *)
(* it) and only then reads the next one.  Archive and delete requests run  *)
(* beside it.  Every Redis command is a step of its own; a transaction is  *)
(* one step.                                                               *)
(***************************************************************************)
EXTENDS Integers, Sequences, SequencesExt, FiniteSets

CONSTANTS
    User,
    Connection,    \* WebSocket connections, each opened once
    UserOf,        \* the user of a connection
    Request,       \* goroutines that serve archive and delete requests
    Keep,          \* messages kept per conversation, 20 in the code
    MaxChunks,     \* bound: chunks of a streamed answer
    MaxAsk,        \* bound: questions
    Faulty,        \* the calls that may fail
    CanCrash       \* whether the server may crash

ASSUME ConversationAssumption ==
    /\ User # {} /\ UserOf \in [Connection -> User]
    /\ Keep \in Nat /\ Keep % 2 = 0 /\ MaxChunks \in Nat /\ MaxAsk \in Nat
    /\ CanCrash \in BOOLEAN

Ask == 1 .. MaxAsk

(* A conversation is named by the question that created it, as its id by   *)
(* the user and the nanosecond.  The empty id is what a failed creation    *)
(* leaves behind.                                                          *)
Conv == Ask
NoConv == 0

NoMeta == [archived |-> FALSE]

VARIABLES
    meta,      \* conversation_meta:{id}: archived and count, or NoMeta
    listed,    \* user:{id}:conversations
    history,   \* conversation:{id}: messages with their role and question
    owner,     \* the user in the id of a conversation
    asked,     \* number of questions sent
    inbox,     \* messages a connection has received and not yet read
    stopFlag,  \* stopFlags of the handler
    conn,      \* what the goroutine of a connection does
    rest,      \* what an archive or delete request does
    outcome    \* history variable: the completions sent for a question

redisVars == <<meta, listed, history>>
clientVars == <<owner, asked>>
conversationVars == <<meta, listed, history, owner, asked, inbox, stopFlag,
                      conn, rest, outcome>>

MayFail(call) == call \in Faulty

AskPc == {"retrieve", "exists", "setMeta", "addToList", "load", "stream"}
SavePc == {"readHistory", "writeHistory", "touchRead", "touchWrite", "touchList"}

Listening == [pc |-> "idle", ask |-> 0, id |-> NoConv, left |-> 0, text |-> FALSE,
              cut |-> FALSE, base |-> <<>>, seen |-> NoMeta]

NoRequest == [pc |-> "idle", user |-> CHOOSE u \in User : TRUE, id |-> NoConv,
              seen |-> NoMeta]

ConversationInit ==
    /\ meta = [v \in 0 .. MaxAsk |-> NoMeta]
    /\ listed = [u \in User |-> {}]
    /\ history = [v \in 0 .. MaxAsk |-> <<>>]
    /\ owner = [v \in Conv |-> CHOOSE u \in User : TRUE]
    /\ asked = 0
    /\ inbox = [c \in Connection |-> <<>>]
    /\ stopFlag = [c \in Connection |-> FALSE]
    /\ conn = [c \in Connection |-> Listening]
    /\ rest = [r \in Request |-> NoRequest]
    /\ outcome = [k \in Ask |-> <<>>]

At(c, pc) == conn[c].pc = pc
Goto(c, pc) == conn' = [conn EXCEPT ![c].pc = pc]
(* The last question is kept to say which answer a stop was meant for.     *)
Listen(c) == conn' = [conn EXCEPT ![c] = [Listening EXCEPT !.ask = conn[c].ask]]
Exists(v) == meta[v] # NoMeta

-----------------------------------------------------------------------------
(* The client: a question for one of the conversations of its list or for  *)
(* a new one, and a stop while an answer is awaited.                       *)
SendQuestion(c, v) ==
    /\ asked < MaxAsk
    /\ ~At(c, "closed")
    /\ v = NoConv \/ v \in listed[UserOf[c]]
    /\ asked' = asked + 1
    /\ owner' = [owner EXCEPT ![asked + 1] = UserOf[c]]
    /\ inbox' = [inbox EXCEPT ![c] =
                    Append(@, [type |-> "ask", ask |-> asked + 1, id |-> v])]
    /\ UNCHANGED <<redisVars, stopFlag, conn, rest, outcome>>

SendStop(c) ==
    /\ conn[c].pc \in AskPc
    /\ inbox[c] = <<>>
    /\ inbox' = [inbox EXCEPT ![c] = <<[type |-> "stop"]>>]
    /\ UNCHANGED <<redisVars, clientVars, stopFlag, conn, rest, outcome>>

-----------------------------------------------------------------------------
(* Handle.  The goroutine reads the next message when it is idle only.     *)
Reads(c, type) ==
    /\ At(c, "idle")
    /\ inbox[c] # <<>>
    /\ Head(inbox[c]).type = type
    /\ inbox' = [inbox EXCEPT ![c] = Tail(@)]

ReadStop(c) ==
    /\ Reads(c, "stop")
    /\ stopFlag' = [stopFlag EXCEPT ![c] = TRUE]
    /\ UNCHANGED <<redisVars, clientVars, conn, rest, outcome>>

(* Mutant: the flag of an earlier stop is not cleared.                     *)
ReadQuestionFlagKept(c) ==
    /\ Reads(c, "ask")
    /\ conn' = [conn EXCEPT ![c] = [Listening EXCEPT !.pc = "retrieve",
                   !.ask = Head(inbox[c]).ask, !.id = Head(inbox[c]).id]]
    /\ UNCHANGED <<redisVars, clientVars, stopFlag, rest, outcome>>

ReadQuestion(c) ==
    /\ Reads(c, "ask")
    /\ stopFlag' = [stopFlag EXCEPT ![c] = FALSE]
    /\ conn' = [conn EXCEPT ![c] = [Listening EXCEPT !.pc = "retrieve",
                   !.ask = Head(inbox[c]).ask, !.id = Head(inbox[c]).id]]
    /\ UNCHANGED <<redisVars, clientVars, rest, outcome>>

(* The loop ends: the client is gone, or the question failed.  Nobody      *)
(* reads the rest of the inbox.                                            *)
Close(c) ==
    /\ conn' = [conn EXCEPT ![c] = [Listening EXCEPT !.pc = "closed"]]
    /\ inbox' = [inbox EXCEPT ![c] = <<>>]

Disconnect(c) ==
    /\ At(c, "idle")
    /\ Close(c)
    /\ UNCHANGED <<redisVars, clientVars, stopFlag, rest, outcome>>

Completes(c, result) == outcome' = [outcome EXCEPT ![conn[c].ask] = Append(@, result)]

(* Any error of StreamResponse: the handler reports it, sends a completion *)
(* of its own and closes the connection.                                   *)
Refuse(c) ==
    /\ Completes(c, "error")
    /\ Close(c)
    /\ UNCHANGED <<redisVars, clientVars, stopFlag, rest>>

-----------------------------------------------------------------------------
(* StreamResponse.                                                         *)
(* A message without a conversation needs one; one whose conversation is   *)
(* gone, or cannot be looked up, gets a new one.                           *)
Retrieve(c) ==
    /\ At(c, "retrieve")
    /\ \/ /\ Goto(c, IF conn[c].id = NoConv THEN "setMeta" ELSE "exists")
          /\ UNCHANGED <<redisVars, clientVars, inbox, stopFlag, rest, outcome>>
       \/ MayFail("Retrieve") /\ Refuse(c)

ConversationExists(c) ==
    /\ At(c, "exists")
    /\ \/ Exists(conn[c].id) /\ Goto(c, "load")
       \/ /\ ~Exists(conn[c].id) \/ MayFail("Exists")
          /\ conn' = [conn EXCEPT ![c].pc = "setMeta", ![c].id = NoConv]
    /\ UNCHANGED <<redisVars, clientVars, inbox, stopFlag, rest, outcome>>

(* CreateConversation is two commands.  An error of either is logged and   *)
(* the chat goes on with the empty id.                                     *)
SetMeta(c) ==
    /\ At(c, "setMeta")
    /\ \/ /\ meta' = [meta EXCEPT ![conn[c].ask] = [archived |-> FALSE, count |-> 0]]
          /\ Goto(c, "addToList")
       \/ MayFail("Create") /\ Goto(c, "load") /\ UNCHANGED meta
    /\ UNCHANGED <<listed, history, clientVars, inbox, stopFlag, rest, outcome>>

AddToList(c) ==
    /\ At(c, "addToList")
    /\ \/ /\ listed' = [listed EXCEPT ![UserOf[c]] = @ \cup {conn[c].ask}]
          /\ conn' = [conn EXCEPT ![c].pc = "load", ![c].id = conn[c].ask]
       \/ MayFail("Create") /\ Goto(c, "load") /\ UNCHANGED listed
    /\ UNCHANGED <<meta, history, clientVars, inbox, stopFlag, rest, outcome>>

(* The history goes into the prompt, or nothing if it cannot be read; the  *)
(* model then answers in any number of chunks.                             *)
Load(c) ==
    /\ At(c, "load")
    /\ \E n \in 0 .. MaxChunks :
          conn' = [conn EXCEPT ![c].pc = "stream", ![c].left = n]
    /\ UNCHANGED <<redisVars, clientVars, inbox, stopFlag, rest, outcome>>

(* A chunk is added to the answer and sent, or skipped when stopped.       *)
Chunk(c) ==
    /\ At(c, "stream")
    /\ conn[c].left > 0
    /\ conn' = [conn EXCEPT ![c].left = @ - 1, ![c].text = @ \/ ~stopFlag[c],
                            ![c].cut = @ \/ stopFlag[c]]
    /\ UNCHANGED <<redisVars, clientVars, inbox, stopFlag, rest, outcome>>

(* Mutant: what was streamed before the error is saved.                    *)
StreamErrorSaved(c) ==
    /\ At(c, "stream")
    /\ MayFail("Stream")
    /\ Completes(c, "error")
    /\ Goto(c, "readHistory")
    /\ UNCHANGED <<redisVars, clientVars, inbox, stopFlag, rest>>

(* Mutant: a stream that failed is started again, any number of times.     *)
StreamErrorRetried(c) ==
    /\ At(c, "stream")
    /\ MayFail("Stream")
    /\ Goto(c, "load")
    /\ UNCHANGED <<redisVars, clientVars, inbox, stopFlag, rest, outcome>>

StreamError(c) == At(c, "stream") /\ MayFail("Stream") /\ Refuse(c)

(* The completion is sent before the answer is saved; an empty answer is   *)
(* not saved.                                                              *)
Complete(c) ==
    /\ At(c, "stream")
    /\ conn[c].left = 0
    /\ Completes(c, IF conn[c].cut THEN "cut" ELSE "whole")
    /\ IF conn[c].text THEN Goto(c, "readHistory") ELSE Listen(c)
    /\ UNCHANGED <<redisVars, clientVars, inbox, stopFlag, rest>>

-----------------------------------------------------------------------------
(* Mutant: the error of saving is returned to the handler.                 *)
SaveErrorReturned(c) ==
    /\ conn[c].pc \in SavePc
    /\ MayFail("Save")
    /\ Refuse(c)

(* addMessageToConversation.  An error ends it and is logged only.         *)
SaveFails(c) ==
    /\ conn[c].pc \in SavePc
    /\ MayFail("Save")
    /\ Listen(c)
    /\ UNCHANGED <<redisVars, clientVars, inbox, stopFlag, rest, outcome>>

ReadHistory(c) ==
    /\ At(c, "readHistory")
    /\ conn' = [conn EXCEPT ![c].pc = "writeHistory", ![c].base = history[conn[c].id]]
    /\ UNCHANGED <<redisVars, clientVars, inbox, stopFlag, rest, outcome>>

Exchange(k) == <<[role |-> "user", ask |-> k], [role |-> "assistant", ask |-> k]>>

(* Mutant: one message too few is kept.                                    *)
LastMessagesOneShort(h) ==
    IF Len(h) > Keep THEN SubSeq(h, Len(h) - Keep + 2, Len(h)) ELSE h

LastMessages(h) == IF Len(h) > Keep THEN SubSeq(h, Len(h) - Keep + 1, Len(h)) ELSE h

UpdateConversationHistory(c) ==
    /\ At(c, "writeHistory")
    /\ history' = [history EXCEPT ![conn[c].id] =
                      LastMessages(conn[c].base \o Exchange(conn[c].ask))]
    /\ Goto(c, "touchRead")
    /\ UNCHANGED <<meta, listed, clientVars, inbox, stopFlag, rest, outcome>>

(* TouchConversation: the metadata is read, changed and written back; the  *)
(* count is that of the messages before the oldest are dropped.            *)
TouchRead(c) ==
    /\ At(c, "touchRead")
    /\ IF Exists(conn[c].id)
       THEN conn' = [conn EXCEPT ![c].pc = "touchWrite", ![c].seen = meta[conn[c].id]]
       ELSE Listen(c)
    /\ UNCHANGED <<redisVars, clientVars, inbox, stopFlag, rest, outcome>>

TouchWrite(c) ==
    /\ At(c, "touchWrite")
    /\ meta' = [meta EXCEPT ![conn[c].id] =
                   [conn[c].seen EXCEPT !.count = Len(conn[c].base) + 2]]
    /\ Goto(c, "touchList")
    /\ UNCHANGED <<listed, history, clientVars, inbox, stopFlag, rest, outcome>>

TouchList(c) ==
    /\ At(c, "touchList")
    /\ listed' = [listed EXCEPT ![UserOf[c]] = @ \cup {conn[c].id}]
    /\ Listen(c)
    /\ UNCHANGED <<meta, history, clientVars, inbox, stopFlag, rest, outcome>>

-----------------------------------------------------------------------------
(* ArchiveConversation and DeleteConversation.  The metadata is read and   *)
(* checked; the write comes later and by then may overwrite, or delete,    *)
(* something else.                                                         *)
MayChange(r, u, v) == rest[r].pc = "idle" /\ Exists(v) /\ owner[v] = u

Works(r, pc, u, v) ==
    rest' = [rest EXCEPT ![r] = [pc |-> pc, user |-> u, id |-> v, seen |-> meta[v]]]

Answers(r) == rest' = [rest EXCEPT ![r] = NoRequest]

ArchiveConversation(r, u, v) ==
    /\ MayChange(r, u, v)
    /\ ~meta[v].archived
    /\ Works(r, "archive", u, v)
    /\ UNCHANGED <<redisVars, clientVars, inbox, stopFlag, conn, outcome>>

SetArchived(r) ==
    /\ rest[r].pc = "archive"
    /\ \/ meta' = [meta EXCEPT ![rest[r].id] = [rest[r].seen EXCEPT !.archived = TRUE]]
       \/ MayFail("Archive") /\ UNCHANGED meta
    /\ Answers(r)
    /\ UNCHANGED <<listed, history, clientVars, inbox, stopFlag, conn, outcome>>

DeleteConversation(r, u, v) ==
    /\ MayChange(r, u, v)
    /\ meta[v].archived
    /\ Works(r, "delete", u, v)
    /\ UNCHANGED <<redisVars, clientVars, inbox, stopFlag, conn, outcome>>

(* One transaction: the list entry, the metadata and the history.          *)
DeleteKeys(r) ==
    LET v == rest[r].id IN
    /\ rest[r].pc = "delete"
    /\ \/ /\ listed' = [listed EXCEPT ![rest[r].user] = @ \ {v}]
          /\ meta' = [meta EXCEPT ![v] = NoMeta]
          /\ history' = [history EXCEPT ![v] = <<>>]
       \/ MayFail("Delete") /\ UNCHANGED redisVars
    /\ Answers(r)
    /\ UNCHANGED <<clientVars, inbox, stopFlag, conn, outcome>>

(* Redis, and what the clients know, survive the server.                   *)
ServerCrash ==
    /\ CanCrash
    /\ \E c \in Connection : ~At(c, "closed")
    /\ conn' = [c \in Connection |-> [Listening EXCEPT !.pc = "closed"]]
    /\ inbox' = [c \in Connection |-> <<>>]
    /\ rest' = [r \in Request |-> NoRequest]
    /\ UNCHANGED <<redisVars, clientVars, stopFlag, outcome>>

Handle(c) ==
    \/ ReadStop(c) \/ ReadQuestion(c)
    \/ Retrieve(c) \/ ConversationExists(c) \/ SetMeta(c) \/ AddToList(c)
    \/ Load(c) \/ Chunk(c) \/ StreamError(c) \/ Complete(c)
    \/ SaveFails(c) \/ ReadHistory(c) \/ UpdateConversationHistory(c)
    \/ TouchRead(c) \/ TouchWrite(c) \/ TouchList(c)

Client(c) == SendStop(c) \/ Disconnect(c) \/ \E v \in 0 .. MaxAsk : SendQuestion(c, v)

Serve(r) ==
    \/ SetArchived(r) \/ DeleteKeys(r)
    \/ \E u \in User, v \in Conv : ArchiveConversation(r, u, v) \/ DeleteConversation(r, u, v)

ConversationNext ==
    \/ \E c \in Connection : Handle(c) \/ Client(c)
    \/ \E r \in Request : Serve(r)
    \/ ServerCrash

ConversationSpec == ConversationInit /\ [][ConversationNext]_conversationVars

(* What the code guarantees by itself: the goroutine of a connection goes  *)
(* on, and its Redis commands come back, or fail, within the timeouts that *)
(* go-redis sets by default.  The retrieval asks MySQL and Elasticsearch   *)
(* without a deadline, and the stream of the model has none by design once *)
(* its header has arrived: neither is assumed to return.                   *)
Goes(c) ==
    \/ ReadStop(c) \/ ReadQuestion(c) \/ ConversationExists(c)
    \/ SetMeta(c) \/ AddToList(c) \/ Load(c)
    \/ SaveFails(c) \/ ReadHistory(c) \/ UpdateConversationHistory(c)
    \/ TouchRead(c) \/ TouchWrite(c) \/ TouchList(c)

FairConversationSpec ==
    ConversationSpec /\ \A c \in Connection : WF_conversationVars(Goes(c))

-----------------------------------------------------------------------------
(* However saves interleave, overwrite each other, fail or are cut off by  *)
(* a crash, a history is a sequence of questions, each followed by its own *)
(* answer, of at most Keep messages and none of them twice: the client's   *)
(* list is made from it as it is, and the prompt from its last messages.   *)
HistoryPaired ==
    \A v \in 0 .. MaxAsk :
        LET h == history[v] IN
        /\ Len(h) <= Keep
        /\ \A i \in DOMAIN h : h[i].role = IF i % 2 = 1 THEN "user" ELSE "assistant"
        /\ \A i, j \in DOMAIN h :
              h[i].ask = h[j].ask <=> (i + 1) \div 2 = (j + 1) \div 2

(* The client gets exactly one completion for each question that its       *)
(* connection has served, whichever of the two places sends it and         *)
(* whatever fails afterwards.                                              *)
OneCompletion ==
    /\ \A k \in Ask : Len(outcome[k]) <= 1
    /\ \A c \in Connection :
          conn[c].ask # 0 /\ conn[c].pc \in SavePc \cup {"idle"} =>
              Len(outcome[conn[c].ask]) = 1

(* Only answers that the client was told are complete get into a history:  *)
(* neither one that failed half way nor one still being streamed.          *)
SavedCompleted ==
    \A v \in 0 .. MaxAsk : \A m \in Range(history[v]) :
        outcome[m.ask] \in {<<"whole">>, <<"cut">>}

(* A stop that arrives too late, after its answer, never cuts the answer   *)
(* to the next question.                                                   *)
NoLateCut == \A k \in Ask : "cut" \notin Range(outcome[k])

(* Every question a connection begins to serve is answered or refused, and *)
(* its client told so, unless the retrieval or the stream of the model     *)
(* hangs: then that connection serves nothing any more, not even a stop.   *)
QuestionsEnd ==
    \A c \in Connection :
        []<>~At(c, "retrieve") /\ []<>~At(c, "stream") =>
            (conn[c].pc \in AskPc ~> conn[c].pc \notin AskPc)

(* Stated by the code: the reply to a stop, "the response has stopped", is *)
(* sent for an answer that was stopped, not for one that ended by itself.  *)
StopStops ==
    [][\A c \in Connection : ReadStop(c) => outcome[conn[c].ask] = <<"cut">>]_conversationVars
=============================================================================
