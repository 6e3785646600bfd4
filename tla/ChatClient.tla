----------------------------- MODULE ChatClient -----------------------------
(***************************************************************************)
(* The chat page: its store and its input box against a server that        *)
(* answers over a WebSocket.  Sending, selecting and removing a            *)
(* conversation each await a request, frames come in between, and a frame  *)
(* says nothing of the question it answers: it goes to the last message    *)
(* that is shown.  A request is served in the step of its reply; the       *)
(* server answers the messages of a socket one after the other.            *)
(***************************************************************************)
EXTENDS Filters, SequencesExt

CONSTANTS
    MaxConversation, \* bound: conversations of the user
    MaxQuestion,     \* bound: questions asked
    MaxPending,      \* bound: selections, removals and reloads under way, each
    MaxSends,        \* bound: runs of handleSend that send
    MaxFrames,       \* bound: chunks of an answer
    Text             \* contents of a chunk

ASSUME ChatClientAssumption ==
    /\ MaxConversation \in Nat \ {0} /\ MaxQuestion \in Nat /\ MaxSends \in Nat
    /\ MaxPending \in Nat /\ MaxFrames \in Nat

New == 0
Conversation == 1 .. MaxConversation
Question == 1 .. MaxQuestion

VARIABLES
    conversationId, \* the conversation shown, or New
    messages,       \* its list
    conversations,  \* the list of conversations, newest first
    typed,          \* the input is not empty
    sends,          \* runs of handleSend that await connect
    entered,        \* runs of handleSend that got there, so far
    selections,     \* requests of selectConversation
    removals,       \* requests that archive a conversation
    loads,          \* requests of loadConversations that nobody awaits
    questions,      \* questions asked so far
    wsData,         \* the last frame
    frames,         \* frames on their way
    queries,        \* questions and stops on their way, and whether their socket is open
    order,          \* server: the conversations that are not archived, newest first
    history,        \* server: the questions answered in each
    created         \* server: the conversations there have been

chatPage == <<conversationId, messages, typed, questions>>
chatSends == <<sends, entered>>
chatRequests == <<chatSends, selections, removals, loads>>
chatServer == <<order, history, created>>
chatVars == <<chatPage, chatRequests, conversations, wsData, frames, queries, chatServer>>

Message(role, q, status, empty) == [role |-> role, question |-> q, status |-> status, empty |-> empty]

History(c) ==
    [i \in 1 .. 2 * Len(history[c]) |->
        Message(IF i % 2 = 1 THEN "user" ELSE "assistant", history[c][(i + 1) \div 2], "none", FALSE)]

Without(c) == Filtered(order, {i \in DOMAIN order : order[i] # c})
Latest == IF messages = <<>> THEN Message("none", 0, "none", TRUE) ELSE Last(messages)
IsSending == Latest.role = "assistant" /\ Latest.status \in {"loading", "pending"}
SetLatest(m) == Front(messages) \o <<m>>
----------------------------------------------------------------------------
Type ==
    /\ ~typed /\ questions < MaxQuestion
    /\ typed' = TRUE
    /\ UNCHANGED <<conversationId, messages, questions, chatRequests, conversations, wsData,
                   frames, queries, chatServer>>

Sending(kind, q) == [kind |-> kind, question |-> q, conversation |-> conversationId, open |-> TRUE]

(* handleSend while an answer is shown as coming: the server reads the     *)
(* stop when it has sent the whole answer.                                 *)
Stop ==
    /\ IsSending
    /\ messages' = IF Latest.empty THEN Front(messages)
                   ELSE SetLatest([Latest EXCEPT !.status = "finished"])
    /\ queries' = Append(queries, Sending("stop", 0))
    /\ UNCHANGED <<conversationId, typed, questions, chatRequests, conversations, wsData, frames,
                   chatServer>>

(* wsOpen closes the socket that was open: what is on it gets lost, and    *)
(* the answers to what was sent on it.                                     *)
Reopen ==
    /\ frames' = <<>>
    /\ queries' = [i \in DOMAIN queries |-> [queries[i] EXCEPT !.open = FALSE]]

(* handleSend otherwise, up to its await.                                  *)
Enter ==
    /\ ~IsSending /\ (typed \/ sends > 0)
    /\ entered < MaxSends /\ entered' = entered + 1
    /\ sends' = sends + 1
    /\ Reopen
    /\ UNCHANGED <<chatPage, selections, removals, loads, conversations, wsData, chatServer>>

(* The page is left and opened again: it connects.  The store stays.       *)
MountPage ==
    /\ entered < MaxSends /\ entered' = entered + 1
    /\ loads < MaxPending /\ loads' = loads + 1
    /\ Reopen
    /\ UNCHANGED <<chatPage, sends, selections, removals, conversations, wsData, chatServer>>

KeepTyped ==    \* mutant: the input is emptied by the runs that find it empty only
    /\ sends > 0 /\ sends' = sends - 1 /\ UNCHANGED entered
    /\ UNCHANGED conversations
    /\ messages' = messages \o <<Message("user", questions + 1, "none", ~typed),
                                 Message("assistant", questions + 1, "pending", TRUE)>>
    /\ queries' = Append(queries, Sending("ask", IF typed THEN questions + 1 ELSE 0))
    /\ UNCHANGED <<conversationId, typed, questions, selections, removals, loads, wsData, frames, chatServer>>

(* The rest of handleSend: the input as it is by now, which an earlier run *)
(* may have emptied.                                                       *)
Send ==
    /\ sends > 0 /\ sends' = sends - 1 /\ UNCHANGED entered
    /\ \/ conversations' = order
       \/ UNCHANGED conversations
    /\ LET q == IF typed THEN questions + 1 ELSE 0
       IN  /\ messages' = messages \o <<Message("user", q, "none", ~typed),
                                        Message("assistant", q, "pending", TRUE)>>
           /\ queries' = Append(queries, Sending("ask", q))
           /\ questions' = IF typed THEN questions + 1 ELSE questions
    /\ typed' = FALSE
    /\ UNCHANGED <<conversationId, selections, removals, loads, wsData, frames, chatServer>>

(* The watch of wsData: a frame equal to the one before does not trigger   *)
(* it (those of other types have a time), and with an empty list it fails  *)
(* before it has changed anything.                                         *)
Completed(f) == f.type = "completion" /\ Latest.status # "error"

ReceiveFrame ==
    /\ frames # <<>>
    /\ LET f == Head(frames)
           quiet == (f = wsData /\ f.type \in {"chunk", "error"}) \/ messages = <<>>
           jump == ~quiet /\ Completed(f) /\ conversationId = New /\ conversations # <<>>
       IN  /\ frames' = Tail(frames) /\ wsData' = f
           /\ messages' =
                IF quiet THEN messages
                ELSE IF Completed(f) THEN SetLatest([Latest EXCEPT !.status = "finished"])
                ELSE IF f.type = "error" THEN SetLatest([Latest EXCEPT !.status = "error"])
                ELSE IF f.type = "chunk" THEN SetLatest([Latest EXCEPT !.status = "loading", !.empty = FALSE])
                ELSE messages
           /\ loads' = IF ~quiet /\ Completed(f) /\ loads < MaxPending THEN loads + 1 ELSE loads
           /\ conversationId' = IF jump THEN conversations[1] ELSE conversationId
           /\ selections' = IF jump THEN selections \cup {conversations[1]} ELSE selections
    /\ UNCHANGED <<typed, questions, chatSends, removals, conversations, queries, chatServer>>

LoadConversations ==
    /\ loads > 0 /\ loads' = loads - 1
    /\ conversations' = order \/ UNCHANGED conversations
    /\ UNCHANGED <<chatPage, chatSends, selections, removals, wsData, frames, queries, chatServer>>

SelectConversation(c) ==
    /\ c \in ToSet(conversations) /\ Cardinality(selections) < MaxPending
    /\ conversationId' = c
    /\ selections' = selections \cup {c}
    /\ UNCHANGED <<messages, typed, questions, chatSends, removals, loads, conversations, wsData, frames,
                   queries, chatServer>>

SelectReply(c) ==
    /\ selections' = selections \ {c}
    /\ messages' = History(c) \/ UNCHANGED messages
    /\ UNCHANGED <<conversationId, typed, questions, chatSends, removals, loads, conversations, wsData,
                   frames, queries, chatServer>>

NewConversation ==
    /\ conversationId' = New /\ messages' = <<>>
    /\ UNCHANGED <<typed, questions, chatRequests, conversations, wsData, frames, queries, chatServer>>

(* archiveConversation.                                                    *)
RemoveConversation(c) ==
    /\ c \in ToSet(conversations) /\ removals = {}
    /\ removals' = {c}
    /\ UNCHANGED <<chatPage, chatSends, selections, loads, conversations, wsData, frames, queries, chatServer>>

RemoveReply(c) ==
    /\ removals' = removals \ {c}
    /\ \/ /\ order' = Without(c)
          /\ loads' = IF loads < MaxPending THEN loads + 1 ELSE loads
          /\ IF conversationId = c
             THEN conversationId' = New /\ messages' = <<>>
             ELSE UNCHANGED <<conversationId, messages>>
       \/ UNCHANGED <<order, loads, conversationId, messages>>
    /\ UNCHANGED <<typed, questions, chatSends, selections, conversations, wsData, frames, queries, history, created>>
----------------------------------------------------------------------------
(* The server: an answer of chunks and a completion; or, when something    *)
(* fails before or after the conversation is there, an error before it.    *)
(* The empty message of a second Enter is a question in a conversation of  *)
(* its own, of which the page knows nothing.                               *)
Frame(type, text) == [type |-> type, text |-> text]

AnswerTo(failing, n) ==
    {[i \in 1 .. n |-> Frame("chunk", t[i])]
     \o (IF failing THEN <<Frame("error", "")>> ELSE <<>>)
     \o <<Frame("completion", "")>> : t \in [1 .. n -> Text]}

Fresh == Conversation \ created

(* A socket closed by the page loses what has not been read from it, and   *)
(* one the server closes after a failure as well.                          *)
Received(i, failing, a) ==
    LET rest == RemoveAt(queries, i)
    IN  IF queries[i].open
        THEN /\ frames' = frames \o a
             /\ queries' = IF failing THEN Filtered(rest, {j \in DOMAIN rest : ~rest[j].open}) ELSE rest
        ELSE queries' = rest /\ UNCHANGED frames

Serve(i) ==
    /\ i \in DOMAIN queries /\ queries[i].kind = "ask"
    /\ queries[i].open => \A j \in 1 .. i - 1 : ~queries[j].open
    /\ \E failing \in BOOLEAN, n \in 0 .. MaxFrames, c \in Conversation :
           /\ IF queries[i].conversation = New \/ queries[i].question = 0
              THEN c \in Fresh ELSE c = queries[i].conversation
           /\ \E a \in AnswerTo(failing, n) : Received(i, failing, a)
           /\ IF failing \/ n = 0 THEN UNCHANGED history
              ELSE history' = [history EXCEPT ![c] = Append(@, queries[i].question)]
           /\ \/ /\ IF c \in Fresh \/ (history' # history /\ c \in ToSet(order))
                    THEN order' = <<c>> \o Without(c) ELSE UNCHANGED order
                 /\ created' = created \cup {c}
              \/ failing /\ n = 0 /\ UNCHANGED <<order, created>>
    /\ UNCHANGED <<chatPage, chatRequests, conversations, wsData>>

ServeStop(i) ==
    /\ i \in DOMAIN queries /\ queries[i].kind = "stop"
    /\ queries[i].open => \A j \in 1 .. i - 1 : ~queries[j].open
    /\ Received(i, FALSE, <<Frame("stop", "")>>)
    /\ UNCHANGED <<chatPage, chatRequests, conversations, wsData, chatServer>>

Lost(i) ==
    /\ i \in DOMAIN queries /\ ~queries[i].open
    /\ queries' = RemoveAt(queries, i)
    /\ UNCHANGED <<chatPage, chatRequests, conversations, wsData, frames, chatServer>>

ChatInit ==
    /\ conversationId = New /\ messages = <<>> /\ typed = FALSE /\ questions = 0
    /\ sends = 0 /\ entered = 0 /\ selections = {} /\ removals = {} /\ loads = 0
    /\ order \in {<<>>, <<1>>} /\ conversations = order /\ queries = <<>> /\ frames = <<>>
    /\ wsData = Frame("none", "")
    /\ history = [c \in Conversation |-> IF c \in ToSet(order) THEN <<0>> ELSE <<>>]
    /\ created = ToSet(order)

ChatNext ==
    \/ Type \/ Stop \/ Enter \/ Send \/ ReceiveFrame \/ LoadConversations \/ NewConversation
    \/ MountPage
    \/ \E i \in DOMAIN queries : Serve(i) \/ ServeStop(i) \/ Lost(i)
    \/ \E c \in Conversation : SelectConversation(c) \/ RemoveConversation(c)
    \/ \E c \in selections : SelectReply(c)
    \/ \E c \in removals : RemoveReply(c)

ChatSpec == ChatInit /\ [][ChatNext]_chatVars
----------------------------------------------------------------------------
ChatTypeOK ==
    /\ conversationId \in Conversation \cup {New}
    /\ IsInjective(conversations) /\ IsInjective(order)
    /\ \A i \in DOMAIN messages : messages[i].question \in Question \cup {0}
    /\ sends <= MaxSends /\ loads <= MaxPending /\ questions <= MaxQuestion

(* handleSend empties the input in the same step as it sends it: Enter may *)
(* be pressed again while the socket is being opened, and no question is   *)
(* asked twice for it, in one conversation or in two.                      *)
QuestionSentOnce ==
    \A q \in Question :
        Cardinality({i \in DOMAIN queries : queries[i].question = q})
        + Cardinality({p \in Conversation \X (1 .. MaxQuestion + MaxSends) :
                           p[2] \in DOMAIN history[p[1]] /\ history[p[1]][p[2]] = q}) <= 1
=============================================================================
