-------------------------- MODULE ConversationProofs --------------------------
(***************************************************************************)
(* Theorems about Conversation for any number of users, connections,       *)
(* archive and delete requests and questions, any even number of messages  *)
(* kept, any set of failing calls, with or without crashes.                *)
(***************************************************************************)
EXTENDS Conversation, SequenceTheorems, TLAPS

-----------------------------------------------------------------------------
(* Types.                                                                  *)
Meta == [archived : BOOLEAN] \cup [archived : BOOLEAN, count : Nat]
Message == [role : {"user", "assistant"}, ask : 0 .. MaxAsk]
Incoming == [type : {"ask"}, ask : Ask, id : 0 .. MaxAsk] \cup [type : {"stop"}]
Goroutine == [pc : AskPc \cup SavePc \cup {"idle", "closed"}, ask : 0 .. MaxAsk,
              id : 0 .. MaxAsk, left : Nat, text : BOOLEAN, cut : BOOLEAN,
              base : Seq(Message), seen : Meta]
Work == [pc : {"idle", "archive", "delete"}, user : User, id : 0 .. MaxAsk, seen : Meta]

ConversationTypeOK ==
    /\ meta \in [0 .. MaxAsk -> Meta]
    /\ listed \in [User -> SUBSET (0 .. MaxAsk)]
    /\ history \in [0 .. MaxAsk -> Seq(Message)]
    /\ owner \in [Conv -> User] /\ asked \in 0 .. MaxAsk
    /\ inbox \in [Connection -> Seq(Incoming)]
    /\ stopFlag \in [Connection -> BOOLEAN]
    /\ conn \in [Connection -> Goroutine]
    /\ rest \in [Request -> Work]
    /\ outcome \in [Ask -> Seq({"whole", "cut", "error"})]

LEMMA RestingTyped ==
    /\ Listening \in Goroutine /\ NoRequest \in Work /\ NoMeta \in Meta
    /\ \A k \in 0 .. MaxAsk : [Listening EXCEPT !.ask = k] \in Goroutine
    /\ [Listening EXCEPT !.pc = "closed"] \in Goroutine
  <1>1. MaxAsk \in Nat /\ NoMeta \in Meta /\ <<>> \in Seq(Message)
    BY ConversationAssumption DEF NoMeta, Meta
  <1>2. 0 \in 0 .. MaxAsk /\ NoConv \in 0 .. MaxAsk
    BY <1>1 DEF NoConv
  <1>3. Listening \in Goroutine
    BY <1>1, <1>2 DEF Listening, Goroutine
  <1>4. NoRequest \in Work
    BY <1>1, <1>2, ConversationAssumption DEF NoRequest, Work
  <1> QED
    BY <1>1, <1>3, <1>4 DEF Goroutine

LEMMA ConversationTypeInit == ConversationInit => ConversationTypeOK
  <1> SUFFICES ASSUME ConversationInit PROVE ConversationTypeOK
    OBVIOUS
  <1>1. /\ meta \in [0 .. MaxAsk -> Meta] /\ conn \in [Connection -> Goroutine]
        /\ rest \in [Request -> Work]
    BY RestingTyped DEF ConversationInit
  <1>2. /\ history \in [0 .. MaxAsk -> Seq(Message)]
        /\ inbox \in [Connection -> Seq(Incoming)]
        /\ outcome \in [Ask -> Seq({"whole", "cut", "error"})]
    BY DEF ConversationInit
  <1>3. owner \in [Conv -> User] /\ asked \in 0 .. MaxAsk
    BY ConversationAssumption DEF ConversationInit
  <1>4. listed \in [User -> SUBSET (0 .. MaxAsk)] /\ stopFlag \in [Connection -> BOOLEAN]
    BY DEF ConversationInit
  <1> QED
    BY <1>1, <1>2, <1>3, <1>4 DEF ConversationTypeOK

(* What a step of goroutine c does to itself, with the type of the result. *)
LEMMA MovedTyped ==
    ASSUME conn \in [Connection -> Goroutine], NEW c \in Connection,
           NEW pc \in AskPc \cup SavePc
    PROVE  /\ \A v \in 0 .. MaxAsk : conn' = [conn EXCEPT ![c].pc = pc, ![c].id = v]
                                         => conn' \in [Connection -> Goroutine]
           /\ \A n \in Nat : conn' = [conn EXCEPT ![c].pc = pc, ![c].left = n]
                                 => conn' \in [Connection -> Goroutine]
           /\ \A h \in Seq(Message) : conn' = [conn EXCEPT ![c].pc = pc, ![c].base = h]
                                          => conn' \in [Connection -> Goroutine]
           /\ \A m \in Meta : conn' = [conn EXCEPT ![c].pc = pc, ![c].seen = m]
                                  => conn' \in [Connection -> Goroutine]
  <1>1. ASSUME NEW v \in 0 .. MaxAsk, conn' = [conn EXCEPT ![c].pc = pc, ![c].id = v]
        PROVE  conn' \in [Connection -> Goroutine]
    <2> DEFINE next == [conn[c] EXCEPT !.pc = pc, !.id = v]
    <2>1. next \in Goroutine
      BY DEF Goroutine
    <2>2. conn' = [conn EXCEPT ![c] = next]
      BY <1>1
    <2> HIDE DEF next
    <2> QED
      BY <2>1, <2>2
  <1>2. ASSUME NEW n \in Nat, conn' = [conn EXCEPT ![c].pc = pc, ![c].left = n]
        PROVE  conn' \in [Connection -> Goroutine]
    <2> DEFINE next == [conn[c] EXCEPT !.pc = pc, !.left = n]
    <2>1. next \in Goroutine
      BY DEF Goroutine
    <2>2. conn' = [conn EXCEPT ![c] = next]
      BY <1>2
    <2> HIDE DEF next
    <2> QED
      BY <2>1, <2>2
  <1>3. ASSUME NEW h \in Seq(Message), conn' = [conn EXCEPT ![c].pc = pc, ![c].base = h]
        PROVE  conn' \in [Connection -> Goroutine]
    <2> DEFINE next == [conn[c] EXCEPT !.pc = pc, !.base = h]
    <2>1. next \in Goroutine
      BY DEF Goroutine
    <2>2. conn' = [conn EXCEPT ![c] = next]
      BY <1>3
    <2> HIDE DEF next
    <2> QED
      BY <2>1, <2>2
  <1>4. ASSUME NEW m \in Meta, conn' = [conn EXCEPT ![c].pc = pc, ![c].seen = m]
        PROVE  conn' \in [Connection -> Goroutine]
    <2> DEFINE next == [conn[c] EXCEPT !.pc = pc, !.seen = m]
    <2>1. next \in Goroutine
      BY DEF Goroutine
    <2>2. conn' = [conn EXCEPT ![c] = next]
      BY <1>4
    <2> HIDE DEF next
    <2> QED
      BY <2>1, <2>2
  <1> QED
    BY <1>1, <1>2, <1>3, <1>4

LEMMA ChunkTyped ==
    ASSUME conn \in [Connection -> Goroutine], stopFlag \in [Connection -> BOOLEAN],
           NEW c \in Connection, NEW n \in Nat
    PROVE  conn' = [conn EXCEPT ![c].left = n, ![c].text = @ \/ ~stopFlag[c],
                                ![c].cut = @ \/ stopFlag[c]]
               => conn' \in [Connection -> Goroutine]
  <1>1. PICK sent \in BOOLEAN : sent = (conn[c].text \/ ~stopFlag[c])
    OBVIOUS
  <1>2. PICK skipped \in BOOLEAN : skipped = (conn[c].cut \/ stopFlag[c])
    BY DEF Goroutine
  <1> DEFINE next == [conn[c] EXCEPT !.left = n, !.text = sent, !.cut = skipped]
  <1>3. next \in Goroutine
    <2>1. conn[c] \in Goroutine
      OBVIOUS
    <2> QED
      BY <2>1 DEF Goroutine
  <1>4. ASSUME conn' = [conn EXCEPT ![c].left = n, ![c].text = @ \/ ~stopFlag[c],
                                    ![c].cut = @ \/ stopFlag[c]]
        PROVE  conn' = [conn EXCEPT ![c] = next]
    <2>1. conn' = [conn EXCEPT ![c].left = n, ![c].text = sent, ![c].cut = skipped]
      BY <1>1, <1>2, <1>4
    <2> QED
      BY <2>1
  <1> HIDE DEF next
  <1> QED
    BY <1>3, <1>4

LEMMA GotoTyped ==
    ASSUME ConversationTypeOK, NEW c \in Connection,
           NEW pc \in AskPc \cup SavePc \cup {"idle", "closed"}, Goto(c, pc)
    PROVE  conn' \in [Connection -> Goroutine]
  <1> DEFINE next == [conn[c] EXCEPT !.pc = pc]
  <1>1. next \in Goroutine
    BY DEF ConversationTypeOK, Goroutine
  <1>2. conn \in [Connection -> Goroutine] /\ conn' = [conn EXCEPT ![c] = next]
    BY DEF ConversationTypeOK, Goto
  <1> HIDE DEF next
  <1> QED
    BY <1>1, <1>2

LEMMA ListenTyped ==
    ASSUME ConversationTypeOK, NEW c \in Connection, Listen(c)
    PROVE  conn' \in [Connection -> Goroutine]
  <1>1. conn[c].ask \in 0 .. MaxAsk
    BY DEF ConversationTypeOK, Goroutine
  <1>2. PICK k \in 0 .. MaxAsk : k = conn[c].ask
    BY <1>1
  <1>3. conn' = [conn EXCEPT ![c] = [Listening EXCEPT !.ask = k]]
    BY <1>2 DEF Listen
  <1> QED
    BY <1>3, RestingTyped DEF ConversationTypeOK

LEMMA RefuseTyped ==
    ASSUME ConversationTypeOK, NEW c \in Connection, Refuse(c)
    PROVE  ConversationTypeOK'
  <1>1. conn' \in [Connection -> Goroutine] /\ inbox' \in [Connection -> Seq(Incoming)]
    BY RestingTyped DEF Refuse, Close, ConversationTypeOK
  <1>2. outcome' \in [Ask -> Seq({"whole", "cut", "error"})]
    <2>1. \A h \in Seq({"whole", "cut", "error"}) :
             Append(h, "error") \in Seq({"whole", "cut", "error"})
      OBVIOUS
    <2>2. outcome' = [outcome EXCEPT ![conn[c].ask] = Append(@, "error")]
      BY DEF Refuse, Completes
    <2> QED
      BY <2>1, <2>2 DEF ConversationTypeOK
  <1> QED
    BY <1>1, <1>2 DEF Refuse, ConversationTypeOK, redisVars, clientVars

LEMMA ClientTyped ==
    ASSUME ConversationTypeOK, NEW c \in Connection, Client(c)
    PROVE  ConversationTypeOK'
  <1>1. CASE SendStop(c)
    <2>1. <<[type |-> "stop"]>> \in Seq(Incoming)
      BY DEF Incoming
    <2>2. inbox' = [inbox EXCEPT ![c] = <<[type |-> "stop"]>>]
      BY <1>1 DEF SendStop
    <2> DEFINE stop == <<[type |-> "stop"]>>
    <2> HIDE DEF stop
    <2>3. inbox' \in [Connection -> Seq(Incoming)]
      BY <2>1, <2>2 DEF ConversationTypeOK, stop
    <2> QED
      BY <1>1, <2>3 DEF SendStop, ConversationTypeOK, redisVars, clientVars
  <1>2. CASE Disconnect(c)
    BY <1>2, RestingTyped DEF Disconnect, Close, ConversationTypeOK, redisVars, clientVars
  <1>3. ASSUME NEW v \in 0 .. MaxAsk, SendQuestion(c, v) PROVE ConversationTypeOK'
    <2> DEFINE new == [type |-> "ask", ask |-> asked + 1, id |-> v]
    <2>1. new \in Incoming /\ asked + 1 \in 0 .. MaxAsk /\ asked + 1 \in Conv
      BY <1>3, ConversationAssumption
         DEF SendQuestion, ConversationTypeOK, Incoming, Ask, Conv
    <2>2. inbox' = [inbox EXCEPT ![c] = Append(@, new)]
      BY <1>3 DEF SendQuestion
    <2> HIDE DEF new
    <2>3. inbox' \in [Connection -> Seq(Incoming)]
      BY <2>1, <2>2 DEF ConversationTypeOK
    <2>4. owner' \in [Conv -> User] /\ asked' \in 0 .. MaxAsk
      BY <1>3, <2>1, ConversationAssumption DEF SendQuestion, ConversationTypeOK
    <2> QED
      BY <1>3, <2>3, <2>4 DEF SendQuestion, ConversationTypeOK, redisVars
  <1> QED
    BY <1>1, <1>2, <1>3 DEF Client

LEMMA ReadTyped ==
    ASSUME ConversationTypeOK, NEW c \in Connection, ReadStop(c) \/ ReadQuestion(c)
    PROVE  ConversationTypeOK'
  <1>1. inbox[c] \in Seq(Incoming) /\ inbox[c] # <<>>
    BY DEF ReadStop, ReadQuestion, Reads, ConversationTypeOK
  <1>2. Head(inbox[c]) \in Incoming /\ Tail(inbox[c]) \in Seq(Incoming)
    BY <1>1
  <1>3. inbox' \in [Connection -> Seq(Incoming)] /\ stopFlag' \in [Connection -> BOOLEAN]
    <2>1. inbox' = [inbox EXCEPT ![c] = Tail(@)]
      BY DEF ReadStop, ReadQuestion, Reads
    <2> QED
      BY <1>2, <2>1 DEF ReadStop, ReadQuestion, ConversationTypeOK
  <1>4. conn' \in [Connection -> Goroutine]
    <2>1. CASE ReadStop(c)
      BY <2>1 DEF ReadStop, ConversationTypeOK
    <2>2. CASE ReadQuestion(c)
      <3> DEFINE m == Head(inbox[c])
                 next == [Listening EXCEPT !.pc = "retrieve", !.ask = m.ask, !.id = m.id]
      <3>1. m.ask \in 0 .. MaxAsk /\ m.id \in 0 .. MaxAsk
        BY <1>2, <2>2 DEF ReadQuestion, Reads, Incoming, Ask
      <3> HIDE DEF m
      <3>2. next \in Goroutine
        BY <3>1, RestingTyped DEF Goroutine, AskPc
      <3>3. conn' = [conn EXCEPT ![c] = next]
        BY <2>2 DEF ReadQuestion, m
      <3> HIDE DEF next
      <3> QED
        BY <3>2, <3>3 DEF ConversationTypeOK
    <2> QED
      BY <2>1, <2>2
  <1> QED
    BY <1>3, <1>4 DEF ReadStop, ReadQuestion, ConversationTypeOK, redisVars, clientVars

LEMMA StreamTyped ==
    ASSUME ConversationTypeOK, NEW c \in Connection,
           \/ Retrieve(c) \/ ConversationExists(c) \/ SetMeta(c) \/ AddToList(c)
           \/ Load(c) \/ Chunk(c) \/ StreamError(c) \/ Complete(c)
    PROVE  ConversationTypeOK'
  <1> USE DEF ConversationTypeOK, redisVars, clientVars
  <1>0. conn[c] \in Goroutine
    OBVIOUS
  <1>1. CASE Refuse(c)
    BY <1>1, RefuseTyped
  <1>2. CASE Retrieve(c) /\ ~Refuse(c)
    BY <1>2, GotoTyped DEF Retrieve, AskPc
  <1>3. CASE ConversationExists(c)
    <2>1. CASE Goto(c, "load")
      BY <1>3, <2>1, GotoTyped DEF ConversationExists, AskPc
    <2>2. CASE conn' = [conn EXCEPT ![c].pc = "setMeta", ![c].id = NoConv]
      <3>1. conn' \in [Connection -> Goroutine]
        <4>1. NoConv \in 0 .. MaxAsk
          BY ConversationAssumption DEF NoConv
        <4> QED
          BY <2>2, <4>1, MovedTyped DEF AskPc
      <3> QED
        BY <1>3, <3>1 DEF ConversationExists
    <2> QED
      BY <1>3, <2>1, <2>2 DEF ConversationExists
  <1>4. CASE SetMeta(c)
    <2>1. meta' \in [0 .. MaxAsk -> Meta]
      <3> DEFINE new == [archived |-> FALSE, count |-> 0]
      <3>1. new \in Meta
        BY DEF Meta
      <3>2. meta' = meta \/ meta' = [meta EXCEPT ![conn[c].ask] = new]
        BY <1>4 DEF SetMeta
      <3> HIDE DEF new
      <3> QED
        BY <3>1, <3>2
    <2>2. conn' \in [Connection -> Goroutine]
      BY <1>4, GotoTyped DEF SetMeta, AskPc
    <2> QED
      BY <1>4, <2>1, <2>2 DEF SetMeta
  <1>5. CASE AddToList(c)
    <2>0. conn[c].ask \in 0 .. MaxAsk
      BY <1>0 DEF Goroutine
    <2>1. CASE Goto(c, "load") /\ UNCHANGED listed
      BY <1>5, <2>1, GotoTyped DEF AddToList, AskPc
    <2>2. CASE /\ listed' = [listed EXCEPT ![UserOf[c]] = @ \cup {conn[c].ask}]
               /\ conn' = [conn EXCEPT ![c].pc = "load", ![c].id = conn[c].ask]
      <3>1. conn' \in [Connection -> Goroutine]
        BY <2>0, <2>2, MovedTyped DEF AskPc
      <3>2. listed' \in [User -> SUBSET (0 .. MaxAsk)]
        BY <2>0, <2>2
      <3> QED
        BY <1>5, <3>1, <3>2 DEF AddToList
    <2> QED
      BY <1>5, <2>1, <2>2 DEF AddToList
  <1>6. CASE Load(c)
    <2>1. PICK n \in 0 .. MaxChunks : conn' = [conn EXCEPT ![c].pc = "stream", ![c].left = n]
      BY <1>6 DEF Load
    <2>2. n \in Nat
      BY ConversationAssumption
    <2>3. conn' \in [Connection -> Goroutine]
      BY <2>1, <2>2, MovedTyped DEF AskPc
    <2> QED
      BY <1>6, <2>3 DEF Load
  <1>7. CASE Chunk(c)
    <2>1. conn[c].left > 0 /\ conn[c].left \in Nat
      BY <1>0, <1>7 DEF Chunk, Goroutine
    <2>2. PICK n \in Nat : n = conn[c].left - 1
      BY <2>1
    <2>3. conn' = [conn EXCEPT ![c].left = n, ![c].text = @ \/ ~stopFlag[c],
                               ![c].cut = @ \/ stopFlag[c]]
      BY <1>7, <2>2 DEF Chunk
    <2>4. conn' \in [Connection -> Goroutine]
      BY <2>3, ChunkTyped
    <2> QED
      BY <1>7, <2>4 DEF Chunk
  <1>8. CASE Complete(c)
    <2>1. conn' \in [Connection -> Goroutine]
      BY <1>8, GotoTyped, ListenTyped DEF Complete, SavePc
    <2>2. outcome' \in [Ask -> Seq({"whole", "cut", "error"})]
      <3>1. \A h \in Seq({"whole", "cut", "error"}), r \in {"whole", "cut"} :
               Append(h, r) \in Seq({"whole", "cut", "error"})
        OBVIOUS
      <3>2. PICK r \in {"whole", "cut"} :
                 outcome' = [outcome EXCEPT ![conn[c].ask] = Append(@, r)]
        BY <1>8 DEF Complete, Completes
      <3> QED
        BY <3>1, <3>2
    <2> QED
      BY <1>8, <2>1, <2>2 DEF Complete
  <1> QED
    BY <1>1, <1>2, <1>3, <1>4, <1>5, <1>6, <1>7, <1>8 DEF StreamError

LEMMA LastMessagesTyped ==
    ASSUME NEW h \in Seq(Message) PROVE LastMessages(h) \in Seq(Message)
  <1>1. \A i \in Len(h) - Keep + 1 .. Len(h) : Len(h) > Keep => h[i] \in Message
    BY ConversationAssumption
  <1>2. Len(h) - Keep + 1 \in Int /\ Len(h) \in Int
    BY ConversationAssumption
  <1>3. Len(h) > Keep => SubSeq(h, Len(h) - Keep + 1, Len(h)) \in Seq(Message)
    BY <1>1, <1>2, SubSeqProperties
  <1> QED
    BY <1>3 DEF LastMessages

LEMMA ExchangeTyped ==
    ASSUME NEW k \in 0 .. MaxAsk
    PROVE  /\ Exchange(k) \in Seq(Message) /\ Len(Exchange(k)) = 2
           /\ Exchange(k)[1].role = "user" /\ Exchange(k)[2].role = "assistant"
           /\ Exchange(k)[1].ask = k /\ Exchange(k)[2].ask = k
  BY DEF Exchange, Message

LEMMA SaveTyped ==
    ASSUME ConversationTypeOK, NEW c \in Connection,
           \/ SaveFails(c) \/ ReadHistory(c) \/ UpdateConversationHistory(c)
           \/ TouchRead(c) \/ TouchWrite(c) \/ TouchList(c)
    PROVE  ConversationTypeOK'
  <1> USE DEF ConversationTypeOK, redisVars, clientVars
  <1>0. /\ conn[c] \in Goroutine /\ conn[c].id \in 0 .. MaxAsk /\ conn[c].seen \in Meta
        /\ conn[c].base \in Seq(Message) /\ conn[c].ask \in 0 .. MaxAsk
    BY DEF Goroutine
  <1>1. CASE SaveFails(c)
    BY <1>1, ListenTyped DEF SaveFails
  <1>2. CASE ReadHistory(c)
    <2>1. history[conn[c].id] \in Seq(Message)
      BY <1>0
    <2>2. conn' \in [Connection -> Goroutine]
      BY <1>2, <2>1, MovedTyped DEF ReadHistory, SavePc
    <2> QED
      BY <1>2, <2>2 DEF ReadHistory
  <1>3. CASE UpdateConversationHistory(c)
    <2> DEFINE new == LastMessages(conn[c].base \o Exchange(conn[c].ask))
    <2>1. new \in Seq(Message)
      BY <1>0, ExchangeTyped, ConcatProperties, LastMessagesTyped
    <2>2. history' = [history EXCEPT ![conn[c].id] = new]
      BY <1>3 DEF UpdateConversationHistory
    <2> HIDE DEF new
    <2>3. history' \in [0 .. MaxAsk -> Seq(Message)]
      BY <2>1, <2>2
    <2>4. conn' \in [Connection -> Goroutine]
      BY <1>3, GotoTyped DEF UpdateConversationHistory, SavePc
    <2> QED
      BY <1>3, <2>3, <2>4 DEF UpdateConversationHistory
  <1>4. CASE TouchRead(c)
    <2>1. meta[conn[c].id] \in Meta
      BY <1>0
    <2>2. conn' \in [Connection -> Goroutine]
      BY <1>4, <2>1, ListenTyped, MovedTyped DEF TouchRead, SavePc
    <2> QED
      BY <1>4, <2>2 DEF TouchRead
  <1>5. CASE TouchWrite(c)
    <2> DEFINE new == [conn[c].seen EXCEPT !.count = Len(conn[c].base) + 2]
    <2>1. new \in Meta
      <3>1. Len(conn[c].base) + 2 \in Nat
        BY <1>0
      <3> QED
        BY <1>0, <3>1 DEF Meta
    <2>2. meta' = [meta EXCEPT ![conn[c].id] = new]
      BY <1>5 DEF TouchWrite
    <2> HIDE DEF new
    <2>3. meta' \in [0 .. MaxAsk -> Meta]
      BY <2>1, <2>2
    <2>4. conn' \in [Connection -> Goroutine]
      BY <1>5, GotoTyped DEF TouchWrite, SavePc
    <2> QED
      BY <1>5, <2>3, <2>4 DEF TouchWrite
  <1>6. CASE TouchList(c)
    <2>1. conn' \in [Connection -> Goroutine]
      BY <1>6, ListenTyped DEF TouchList
    <2>2. listed' \in [User -> SUBSET (0 .. MaxAsk)]
      BY <1>0, <1>6 DEF TouchList
    <2> QED
      BY <1>6, <2>1, <2>2 DEF TouchList
  <1> QED
    BY <1>1, <1>2, <1>3, <1>4, <1>5, <1>6

LEMMA RestTyped ==
    ASSUME ConversationTypeOK, NEW r \in Request, Serve(r)
    PROVE  ConversationTypeOK'
  <1> USE DEF ConversationTypeOK, redisVars, clientVars
  <1>0. /\ rest[r] \in Work /\ rest[r].id \in 0 .. MaxAsk /\ rest[r].seen \in Meta
    BY DEF Work
  <1>1. Answers(r) => rest' \in [Request -> Work]
    BY RestingTyped DEF Answers
  <1>2. CASE SetArchived(r)
    <2> DEFINE new == [rest[r].seen EXCEPT !.archived = TRUE]
    <2>1. new \in Meta
      BY <1>0 DEF Meta
    <2>2. meta' = meta \/ meta' = [meta EXCEPT ![rest[r].id] = new]
      BY <1>2 DEF SetArchived
    <2> HIDE DEF new
    <2>3. meta' \in [0 .. MaxAsk -> Meta]
      BY <2>1, <2>2
    <2> QED
      BY <1>1, <1>2, <2>3 DEF SetArchived
  <1>3. CASE DeleteKeys(r)
    <2>1. <<>> \in Seq(Message) /\ NoMeta \in Meta
      BY RestingTyped
    <2>2. /\ meta' \in [0 .. MaxAsk -> Meta] /\ history' \in [0 .. MaxAsk -> Seq(Message)]
          /\ listed' \in [User -> SUBSET (0 .. MaxAsk)]
      <3>1. CASE UNCHANGED redisVars
        BY <3>1
      <3>2. CASE /\ listed' = [listed EXCEPT ![rest[r].user] = @ \ {rest[r].id}]
                 /\ meta' = [meta EXCEPT ![rest[r].id] = NoMeta]
                 /\ history' = [history EXCEPT ![rest[r].id] = <<>>]
        BY <2>1, <3>2
      <3> QED
        BY <1>3, <3>1, <3>2 DEF DeleteKeys
    <2> QED
      BY <1>1, <1>3, <2>2 DEF DeleteKeys
  <1>4. ASSUME NEW u \in User, NEW v \in Conv,
               ArchiveConversation(r, u, v) \/ DeleteConversation(r, u, v)
        PROVE  ConversationTypeOK'
    <2>1. meta[v] \in Meta /\ v \in 0 .. MaxAsk
      BY DEF Conv, Ask
    <2>2. \E pc \in {"archive", "delete"} : Works(r, pc, u, v)
      BY <1>4 DEF ArchiveConversation, DeleteConversation
    <2>3. rest' \in [Request -> Work]
      BY <2>1, <2>2 DEF Works, Work
    <2> QED
      BY <1>4, <2>3 DEF ArchiveConversation, DeleteConversation
  <1> QED
    BY <1>2, <1>3, <1>4 DEF Serve

LEMMA ConversationTypeStep ==
    ConversationTypeOK /\ [ConversationNext]_conversationVars => ConversationTypeOK'
  <1> SUFFICES ASSUME ConversationTypeOK, [ConversationNext]_conversationVars
               PROVE  ConversationTypeOK'
    OBVIOUS
  <1>1. ASSUME NEW c \in Connection, Handle(c) PROVE ConversationTypeOK'
    BY <1>1, ReadTyped, StreamTyped, SaveTyped DEF Handle
  <1>2. CASE ServerCrash
    <2>1. /\ conn' \in [Connection -> Goroutine] /\ inbox' \in [Connection -> Seq(Incoming)]
          /\ rest' \in [Request -> Work]
      BY <1>2, RestingTyped DEF ServerCrash
    <2> QED
      BY <1>2, <2>1 DEF ServerCrash, ConversationTypeOK, redisVars, clientVars
  <1>3. CASE UNCHANGED conversationVars
    BY <1>3 DEF conversationVars, ConversationTypeOK
  <1> QED
    BY <1>1, <1>2, <1>3, ClientTyped, RestTyped DEF ConversationNext

(* Every Redis key, message, goroutine and request keeps its shape.        *)
THEOREM ConversationTypeCorrect == ConversationSpec => []ConversationTypeOK
  BY ConversationTypeInit, ConversationTypeStep, PTL DEF ConversationSpec

-----------------------------------------------------------------------------
(* Histories.  A sequence of whole exchanges, no question twice.           *)
AsksOf(h) == {h[i].ask : i \in 1 .. Len(h)}

Paired(h) ==
    /\ Len(h) % 2 = 0
    /\ \A i \in 1 .. Len(h) : h[i].role = IF i % 2 = 1 THEN "user" ELSE "assistant"
    /\ \A i, j \in 1 .. Len(h) : h[i].ask = h[j].ask <=> (i + 1) \div 2 = (j + 1) \div 2

Exchanges(h) == Paired(h) /\ Len(h) <= Keep

LEMMA Halves ==
    /\ \A i \in Nat : /\ (i + 2) % 2 = i % 2 /\ (i + 1) \div 2 \in Nat
                      /\ (i + 2 + 1) \div 2 = (i + 1) \div 2 + 1
    /\ \A n \in Nat : n % 2 = 0 =>
          /\ (n + 1) % 2 = 1 /\ (n + 2) % 2 = 0
          /\ (n + 1 + 1) \div 2 = n \div 2 + 1 /\ (n + 2 + 1) \div 2 = n \div 2 + 1
          /\ \A i \in 1 .. n : (i + 1) \div 2 <= n \div 2
    /\ \A m, n \in Nat : n % 2 = 0 /\ m % 2 = 0 /\ m <= n /\ m + 2 > n => m = n
  OBVIOUS

LEMMA ExchangeAppended ==
    ASSUME NEW h \in Seq(Message), Paired(h), NEW k \in 0 .. MaxAsk, k \notin AsksOf(h)
    PROVE  /\ h \o Exchange(k) \in Seq(Message)
           /\ Len(h \o Exchange(k)) = Len(h) + 2
           /\ Paired(h \o Exchange(k))
           /\ AsksOf(h \o Exchange(k)) \subseteq AsksOf(h) \cup {k}
  <1> DEFINE n == Len(h)
             e == Exchange(k)
             g == h \o e
  <1>1. n \in Nat /\ n % 2 = 0
    BY DEF Paired
  <1>2. /\ e \in Seq(Message) /\ Len(e) = 2 /\ e[1].role = "user" /\ e[2].role = "assistant"
        /\ e[1].ask = k /\ e[2].ask = k
    BY ExchangeTyped
  <1> HIDE DEF e
  <1>3. /\ g \in Seq(Message) /\ Len(g) = n + 2
        /\ \A i \in 1 .. n : g[i] = h[i]
        /\ g[n + 1] = e[1] /\ g[n + 2] = e[2]
    <2>1. /\ g \in Seq(Message) /\ Len(g) = Len(h) + Len(e)
          /\ \A i \in 1 .. Len(h) + Len(e) : g[i] = IF i <= Len(h) THEN h[i] ELSE e[i - Len(h)]
      BY <1>2, ConcatProperties
    <2>2. n \in Nat /\ Len(h) = n
      BY <1>1
    <2> HIDE DEF g, n
    <2>3. \A i \in 1 .. n + 2 : g[i] = IF i <= n THEN h[i] ELSE e[i - n]
      BY <1>2, <2>1, <2>2
    <2>4. g[n + 1] = e[1] /\ g[n + 2] = e[2]
      BY <2>2, <2>3
    <2> QED
      BY <1>2, <2>1, <2>2, <2>3, <2>4
  <1> HIDE DEF g, n
  <1>4. \A i \in 1 .. n + 2 : i \in 1 .. n \/ i = n + 1 \/ i = n + 2
    BY <1>1
  <1>5. \A i \in 1 .. n : h[i].ask # k
    BY DEF AsksOf, n
  <1>6. \A i \in 1 .. n + 2 : g[i].role = IF i % 2 = 1 THEN "user" ELSE "assistant"
    <2>1. (n + 1) % 2 = 1 /\ (n + 2) % 2 = 0
      BY <1>1, Halves
    <2>2. \A i \in 1 .. n : h[i].role = IF i % 2 = 1 THEN "user" ELSE "assistant"
      BY DEF Paired, n
    <2>3. g[n + 1].role = "user" /\ g[n + 2].role = "assistant"
      BY <1>2, <1>3
    <2>4. \A i \in 1 .. n : g[i].role = h[i].role
      BY <1>3
    <2> QED
      BY <1>1, <1>4, <2>1, <2>2, <2>3, <2>4
  <1>7. ASSUME NEW i \in 1 .. n + 2, NEW j \in 1 .. n + 2
        PROVE  g[i].ask = g[j].ask <=> (i + 1) \div 2 = (j + 1) \div 2
    <2>1. /\ (n + 1 + 1) \div 2 = n \div 2 + 1 /\ (n + 2 + 1) \div 2 = n \div 2 + 1
          /\ \A x \in 1 .. n : (x + 1) \div 2 <= n \div 2
          /\ n \div 2 \in Nat /\ \A x \in 1 .. n : (x + 1) \div 2 \in Nat
      BY <1>1, Halves
    <2>2. CASE i \in 1 .. n /\ j \in 1 .. n
      BY <1>3, <2>2 DEF Paired, n
    <2>3. CASE i \in 1 .. n /\ (j = n + 1 \/ j = n + 2)
      <3>1. g[i].ask # k /\ g[j].ask = k
        BY <1>2, <1>3, <1>5, <2>3
      <3>2. (i + 1) \div 2 <= n \div 2 /\ (j + 1) \div 2 = n \div 2 + 1
        BY <2>1, <2>3
      <3> QED
        BY <2>1, <2>3, <3>1, <3>2
    <2>4. CASE j \in 1 .. n /\ (i = n + 1 \/ i = n + 2)
      <3>1. g[j].ask # k /\ g[i].ask = k
        BY <1>2, <1>3, <1>5, <2>4
      <3>2. (j + 1) \div 2 <= n \div 2 /\ (i + 1) \div 2 = n \div 2 + 1
        BY <2>1, <2>4
      <3> QED
        BY <2>1, <2>4, <3>1, <3>2
    <2>5. CASE (i = n + 1 \/ i = n + 2) /\ (j = n + 1 \/ j = n + 2)
      BY <1>2, <1>3, <2>1, <2>5
    <2> QED
      BY <1>4, <2>2, <2>3, <2>4, <2>5
  <1>8. AsksOf(g) \subseteq AsksOf(h) \cup {k}
    BY <1>2, <1>3, <1>4 DEF AsksOf, n
  <1>9. Paired(g)
    <2>1. (n + 2) % 2 = 0
      BY <1>1, Halves
    <2> QED
      BY <1>3, <1>6, <1>7, <2>1 DEF Paired
  <1> QED
    BY <1>3, <1>8, <1>9 DEF g, e, n

(* Keep is even: dropping the oldest messages drops a whole exchange.      *)
LEMMA ExchangeKept ==
    ASSUME NEW h \in Seq(Message), Exchanges(h), NEW k \in 0 .. MaxAsk, k \notin AsksOf(h)
    PROVE  /\ Exchanges(LastMessages(h \o Exchange(k)))
           /\ AsksOf(LastMessages(h \o Exchange(k))) \subseteq AsksOf(h) \cup {k}
  <1> DEFINE g == h \o Exchange(k)
             n == Len(h)
  <1>1. /\ g \in Seq(Message) /\ Len(g) = n + 2 /\ n \in Nat
        /\ Paired(g) /\ AsksOf(g) \subseteq AsksOf(h) \cup {k}
    BY ExchangeAppended DEF Exchanges
  <1>2. n <= Keep /\ n % 2 = 0 /\ Keep \in Nat /\ Keep % 2 = 0
    BY ConversationAssumption DEF Exchanges, Paired
  <1> HIDE DEF g, n
  <1>3. CASE Len(g) <= Keep
    <2>1. LastMessages(g) = g
      BY <1>1, <1>2, <1>3 DEF LastMessages
    <2> QED
      BY <1>1, <1>3, <2>1 DEF Exchanges, g
  <1>4. CASE ~(Len(g) <= Keep)
    <2>1. n = Keep
      BY <1>1, <1>2, <1>4, Halves
    <2> DEFINE s == SubSeq(g, 3, n + 2)
    <2>2. LastMessages(g) = s
      BY <1>1, <1>2, <1>4, <2>1 DEF LastMessages
    <2>3. Len(s) = n /\ \A i \in 1 .. n : s[i] = g[i + 2]
      <3>1. \A i \in 3 .. n + 2 : g[i] \in Message
        BY <1>1
      <3>2. /\ Len(s) = IF 3 <= n + 2 THEN n + 2 - 3 + 1 ELSE 0
            /\ \A i \in 1 .. n + 2 - 3 + 1 : s[i] = g[3 + i - 1]
        BY <1>1, <3>1, SubSeqProperties
      <3> HIDE DEF s
      <3> QED
        BY <1>1, <3>2
    <2> HIDE DEF s
    <2>4. \A i \in 1 .. n : i + 2 \in 1 .. n + 2 /\ i \in Nat
      BY <1>1
    <2>5. ASSUME NEW i \in 1 .. n
          PROVE  s[i].role = IF i % 2 = 1 THEN "user" ELSE "assistant"
      BY <1>1, <2>3, <2>4, Halves DEF Paired
    <2>6. ASSUME NEW i \in 1 .. n, NEW j \in 1 .. n
          PROVE  s[i].ask = s[j].ask <=> (i + 1) \div 2 = (j + 1) \div 2
      <3>1. s[i].ask = s[j].ask <=> (i + 2 + 1) \div 2 = (j + 2 + 1) \div 2
        BY <1>1, <2>3, <2>4 DEF Paired
      <3>2. /\ (i + 2 + 1) \div 2 = (i + 1) \div 2 + 1 /\ (i + 1) \div 2 \in Nat
            /\ (j + 2 + 1) \div 2 = (j + 1) \div 2 + 1 /\ (j + 1) \div 2 \in Nat
        BY <2>4, Halves
      <3> QED
        BY <3>1, <3>2
    <2>7. Exchanges(s)
      BY <1>2, <2>1, <2>3, <2>5, <2>6 DEF Exchanges, Paired
    <2>8. AsksOf(s) \subseteq AsksOf(g)
      BY <1>1, <2>3, <2>4 DEF AsksOf
    <2> QED
      BY <1>1, <2>2, <2>7, <2>8 DEF g
  <1> QED
    BY <1>3, <1>4

LEMMA EmptyHistory == Exchanges(<<>>) /\ AsksOf(<<>>) = {}
  BY ConversationAssumption DEF Exchanges, Paired, AsksOf

-----------------------------------------------------------------------------
(* The invariant.  A question is unread in one inbox, then held by one     *)
(* goroutine, and only then in histories: it has no completion while it is *)
(* unread or being answered, "whole" while it is being saved, and no copy  *)
(* of its exchange exists before its own goroutine has written it.         *)
AsksIn(q) == {i \in 1 .. Len(q) : q[i].type = "ask"}
Waits(k) == \E c \in Connection : \E i \in AsksIn(inbox[c]) : inbox[c][i].ask = k

Copied == (UNION {AsksOf(history[v]) : v \in 0 .. MaxAsk})
          \cup (UNION {AsksOf(conn[c].base) : c \in Connection})

OutcomesOK ==
    \A k \in Ask : /\ outcome[k] \in {<<>>, <<"whole">>, <<"error">>}
                   /\ k > asked => outcome[k] = <<>>

WaitingOK ==
    \A k \in Ask : Waits(k) =>
        /\ k \in 1 .. asked /\ outcome[k] = <<>>
        /\ \A d \in Connection : conn[d].ask # k

WaitingOnce ==
    \A c, d \in Connection : \A i \in AsksIn(inbox[c]), j \in AsksIn(inbox[d]) :
        inbox[c][i].ask = inbox[d][j].ask => c = d /\ i = j

ConnOK(c) ==
    /\ conn[c].ask \in 0 .. asked
    /\ conn[c].pc \in AskPc =>
          /\ conn[c].ask # 0 /\ outcome[conn[c].ask] = <<>>
          /\ ~stopFlag[c] /\ ~conn[c].cut
    /\ conn[c].pc \in SavePc => conn[c].ask # 0 /\ outcome[conn[c].ask] = <<"whole">>
    /\ conn[c].pc = "idle" /\ conn[c].ask # 0 => outcome[conn[c].ask] # <<>>

ServedOnce ==
    \A c, d \in Connection : conn[c].ask # 0 /\ conn[c].ask = conn[d].ask => c = d

HistoriesOK ==
    /\ \A v \in 0 .. MaxAsk : Exchanges(history[v])
    /\ \A c \in Connection : Exchanges(conn[c].base)

Unwritten == {"readHistory", "writeHistory"}

CopiedOK ==
    \A k \in Copied :
        /\ k \in Ask /\ outcome[k] = <<"whole">>
        /\ \A c \in Connection : conn[c].ask = k => conn[c].pc \notin Unwritten

ChatInv ==
    /\ OutcomesOK
    /\ WaitingOK
    /\ WaitingOnce
    /\ \A c \in Connection : ConnOK(c)
    /\ ServedOnce
    /\ HistoriesOK
    /\ CopiedOK

LEMMA ChatInit == ConversationInit => ChatInv
  <1> SUFFICES ASSUME ConversationInit PROVE ChatInv
    OBVIOUS
  <1>1. OutcomesOK /\ asked = 0
    BY DEF ConversationInit, OutcomesOK
  <1>2. \A c \in Connection : /\ conn[c].ask = 0 /\ conn[c].pc = "idle"
                              /\ conn[c].base = <<>> /\ AsksIn(inbox[c]) = {}
    BY DEF ConversationInit, Listening, AsksIn
  <1>3. WaitingOK /\ WaitingOnce /\ ServedOnce
    BY <1>2 DEF WaitingOK, WaitingOnce, ServedOnce, Waits
  <1>4. \A c \in Connection : ConnOK(c)
    BY <1>1, <1>2 DEF ConnOK, AskPc, SavePc
  <1>5. HistoriesOK /\ Copied = {}
    BY <1>2, EmptyHistory DEF ConversationInit, HistoriesOK, Copied
  <1> QED
    BY <1>1, <1>3, <1>4, <1>5 DEF ChatInv, CopiedOK

-----------------------------------------------------------------------------
(* Frames.  A step of connection c that answers nothing and reads nothing: *)
(* the exchange of its own question may get into a history, but then the   *)
(* answer is complete and the goroutine is past the write.                 *)
LEMMA ConnFrame ==
    ASSUME ConversationTypeOK, ChatInv, NEW c \in Connection,
           UNCHANGED <<inbox, stopFlag, outcome, asked>>,
           \A x \in Connection \ {c} : conn'[x] = conn[x],
           conn'[c].ask = conn[c].ask, ConnOK(c)', HistoriesOK',
           conn'[c].pc \in Unwritten => conn[c].pc \in Unwritten \cup AskPc,
           \A k \in Copied' \ Copied :
               k = conn[c].ask /\ conn[c].pc \in SavePc /\ conn'[c].pc \notin Unwritten
    PROVE  ChatInv'
  <1>1. OutcomesOK' /\ WaitingOnce'
    BY DEF ChatInv, OutcomesOK, WaitingOnce
  <1>2. \A x \in Connection : conn'[x].ask = conn[x].ask
    OBVIOUS
  <1>3. WaitingOK' /\ ServedOnce'
    BY <1>2 DEF ChatInv, WaitingOK, Waits, ServedOnce
  <1>4. \A x \in Connection : ConnOK(x)'
    BY DEF ChatInv, ConnOK
  <1>5. CopiedOK'
    <2>1. ASSUME NEW k \in Copied, NEW x \in Connection, conn'[x].ask = k
          PROVE  /\ k \in Ask /\ outcome[k] = <<"whole">>
                 /\ conn'[x].pc \notin Unwritten
      <3>1. /\ k \in Ask /\ outcome[k] = <<"whole">> /\ conn[x].ask = k
            /\ conn[x].pc \notin Unwritten
        BY <1>2, <2>1 DEF ChatInv, CopiedOK
      <3>2. conn[x].pc \notin AskPc
        BY <3>1 DEF ChatInv, ConnOK
      <3> QED
        BY <3>1, <3>2
    <2>2. ASSUME NEW k \in Copied' \ Copied, NEW x \in Connection, conn'[x].ask = k
          PROVE  conn'[x].pc \notin Unwritten
      <3>1. conn[c].ask # 0 /\ conn[x].ask = conn[c].ask
        BY <1>2, <2>2 DEF ChatInv, ConnOK
      <3>2. x = c
        BY <3>1 DEF ChatInv, ServedOnce
      <3> QED
        BY <2>2, <3>2
    <2>3. \A k \in Copied' : k \in Ask /\ outcome[k] = <<"whole">>
      <3>1. \A k \in Copied : k \in Ask /\ outcome[k] = <<"whole">>
        BY DEF ChatInv, CopiedOK
      <3>2. conn[c].pc \in SavePc => conn[c].ask \in Ask /\ outcome[conn[c].ask] = <<"whole">>
        <4>1. asked \in 0 .. MaxAsk /\ MaxAsk \in Nat /\ ConnOK(c)
          BY ConversationAssumption DEF ConversationTypeOK, ChatInv
        <4> QED
          BY <4>1 DEF ConnOK, Ask
      <3> QED
        BY <3>1, <3>2
    <2> QED
      BY <2>1, <2>2, <2>3 DEF CopiedOK
  <1> QED
    BY <1>1, <1>3, <1>4, <1>5 DEF ChatInv

(* Nothing is copied but what a history already held.                      *)
LEMMA NothingCopied ==
    ASSUME NEW c \in Connection, UNCHANGED history, HistoriesOK,
           \A x \in Connection \ {c} : conn'[x] = conn[x],
           \/ conn'[c].base = conn[c].base \/ conn'[c].base = <<>>
           \/ \E v \in 0 .. MaxAsk : conn'[c].base = history[v]
    PROVE  Copied' \subseteq Copied /\ HistoriesOK'
  <1>1. ASSUME NEW k \in AsksOf(conn'[c].base) PROVE k \in Copied
    BY <1>1, EmptyHistory DEF Copied
  <1>2. Copied' \subseteq Copied
    <2>1. \A x \in Connection : AsksOf(conn'[x].base) \subseteq Copied
      BY <1>1 DEF Copied
    <2> QED
      BY <2>1 DEF Copied
  <1>3. HistoriesOK'
    BY EmptyHistory DEF HistoriesOK
  <1> QED
    BY <1>2, <1>3

(* The messages of an inbox after a read, a stop or a close.               *)
LEMMA InboxFrame ==
    ASSUME ConversationTypeOK, WaitingOnce, NEW c \in Connection,
           \A x \in Connection \ {c} : inbox'[x] = inbox[x],
           \/ AsksIn(inbox'[c]) = {} \/ inbox'[c] = inbox[c]
           \/ inbox[c] # <<>> /\ inbox'[c] = Tail(inbox[c])
    PROVE  /\ WaitingOnce' /\ \A k \in Ask : Waits(k)' => Waits(k)
           /\ \A k \in Ask : /\ inbox[c] # <<>> /\ inbox'[c] = Tail(inbox[c])
                            /\ Head(inbox[c]).type = "ask" /\ Head(inbox[c]).ask = k
                                => ~Waits(k)'
  <1>0. inbox[c] \in Seq(Incoming)
    BY DEF ConversationTypeOK
  <1>1. PICK n \in {0, 1} : \A i \in AsksIn(inbox'[c]) :
                i + n \in AsksIn(inbox[c]) /\ inbox'[c][i] = inbox[c][i + n]
    <2>1. CASE AsksIn(inbox'[c]) = {}
      BY <2>1
    <2>2. CASE inbox'[c] = inbox[c]
      <3>1. \A i \in AsksIn(inbox[c]) : i + 0 = i
        BY DEF AsksIn
      <3> QED
        BY <2>2, <3>1
    <2>3. CASE inbox[c] # <<>> /\ inbox'[c] = Tail(inbox[c])
      <3>1. /\ Len(inbox'[c]) = Len(inbox[c]) - 1 /\ Len(inbox[c]) \in Nat
            /\ \A i \in 1 .. Len(inbox'[c]) : inbox'[c][i] = inbox[c][i + 1]
        BY <1>0, <2>3, HeadTailProperties
      <3> QED
        BY <3>1 DEF AsksIn
    <2> QED
      BY <2>1, <2>2, <2>3
  <1>2. ASSUME NEW x \in Connection, NEW i \in AsksIn(inbox'[x])
        PROVE  \E m \in {0, 1} : /\ m = IF x = c THEN n ELSE 0
                                 /\ i + m \in AsksIn(inbox[x])
                                 /\ inbox'[x][i] = inbox[x][i + m]
    <2>1. CASE x = c
      BY <1>1, <2>1
    <2>2. CASE x # c
      <3>1. inbox'[x] = inbox[x] /\ i + 0 = i
        BY <1>2, <2>2 DEF AsksIn
      <3> QED
        BY <1>2, <2>2, <3>1
    <2> QED
      BY <2>1, <2>2
  <1>3. WaitingOnce'
    <2> SUFFICES ASSUME NEW x \in Connection, NEW y \in Connection,
                        NEW i \in AsksIn(inbox'[x]), NEW j \in AsksIn(inbox'[y]),
                        inbox'[x][i].ask = inbox'[y][j].ask
                 PROVE  x = y /\ i = j
      BY DEF WaitingOnce, AsksIn
    <2>1. PICK m \in {0, 1} : /\ m = IF x = c THEN n ELSE 0
                              /\ i + m \in AsksIn(inbox[x])
                              /\ inbox'[x][i] = inbox[x][i + m]
      BY <1>2
    <2>2. PICK l \in {0, 1} : /\ l = IF y = c THEN n ELSE 0
                              /\ j + l \in AsksIn(inbox[y])
                              /\ inbox'[y][j] = inbox[y][j + l]
      BY <1>2
    <2>3. x = y /\ i + m = j + l
      BY <2>1, <2>2 DEF WaitingOnce
    <2>4. i \in Nat /\ j \in Nat
      BY DEF AsksIn
    <2> QED
      BY <2>1, <2>2, <2>3, <2>4
  <1>4. ASSUME NEW k \in Ask, Waits(k)' PROVE Waits(k)
    <2>1. PICK x \in Connection : \E i \in AsksIn(inbox'[x]) : inbox'[x][i].ask = k
      BY <1>4 DEF Waits, AsksIn
    <2> QED
      BY <1>2, <2>1 DEF Waits
  <1>5. ASSUME NEW k \in Ask, inbox[c] # <<>>, inbox'[c] = Tail(inbox[c]),
               Head(inbox[c]).type = "ask", Head(inbox[c]).ask = k, Waits(k)'
        PROVE  FALSE
    <2>1. /\ Head(inbox[c]) = inbox[c][1] /\ 1 \in AsksIn(inbox[c])
          /\ Len(inbox'[c]) = Len(inbox[c]) - 1 /\ Len(inbox[c]) \in Nat
          /\ \A i \in 1 .. Len(inbox'[c]) : inbox'[c][i] = inbox[c][i + 1]
      BY <1>0, <1>5, HeadTailProperties DEF AsksIn
    <2>2. PICK x \in Connection : \E i \in AsksIn(inbox'[x]) : inbox'[x][i].ask = k
      BY <1>5 DEF Waits, AsksIn
    <2>3. CASE x = c
      <3>1. PICK i \in AsksIn(inbox'[c]) : inbox'[c][i].ask = k
        BY <2>2, <2>3
      <3>2. i \in 1 .. Len(inbox'[c]) /\ inbox'[c][i].type = "ask"
        BY DEF AsksIn
      <3>3. i + 1 \in AsksIn(inbox[c]) /\ inbox[c][i + 1].ask = k /\ i + 1 # 1
        BY <2>1, <3>1, <3>2 DEF AsksIn
      <3> QED
        BY <1>5, <2>1, <3>3 DEF WaitingOnce
    <2>4. CASE x # c
      BY <1>5, <2>1, <2>2, <2>4 DEF WaitingOnce
    <2> QED
      BY <2>3, <2>4
  <1> QED
    BY <1>3, <1>4, <1>5

(* A step that answers the question of connection c, or refuses it.        *)
LEMMA OutcomeFrame ==
    ASSUME ConversationTypeOK, ChatInv, NEW c \in Connection, conn[c].pc \in AskPc,
           NEW r \in {"whole", "error"}, Completes(c, r),
           UNCHANGED <<history, asked, stopFlag>>,
           \A x \in Connection \ {c} : conn'[x] = conn[x] /\ inbox'[x] = inbox[x],
           inbox'[c] = inbox[c] \/ inbox'[c] = <<>>,
           conn'[c].ask = conn[c].ask \/ conn'[c].ask = 0,
           conn'[c].base = conn[c].base \/ conn'[c].base = <<>>,
           outcome'[conn[c].ask] = <<r>> => ConnOK(c)'
    PROVE  ChatInv'
  <1> DEFINE k0 == conn[c].ask
  <1>0. k0 \in Ask /\ k0 <= asked /\ outcome[k0] = <<>> /\ asked \in Nat
    <2>1. ConnOK(c) /\ asked \in 0 .. MaxAsk /\ MaxAsk \in Nat
      BY ConversationAssumption DEF ChatInv, ConversationTypeOK
    <2> QED
      BY <2>1 DEF ConnOK, Ask
  <1>1. \A k \in Ask : outcome'[k] = IF k = k0 THEN <<r>> ELSE outcome[k]
    <2>1. Append(<<>>, r) = <<r>>
      OBVIOUS
    <2>2. outcome' = [outcome EXCEPT ![k0] = Append(outcome[k0], r)]
      BY DEF Completes
    <2> HIDE DEF k0
    <2> QED
      BY <1>0, <2>1, <2>2 DEF ConversationTypeOK
  <1> HIDE DEF k0
  <1>2. OutcomesOK'
    <2>1. ASSUME NEW k \in Ask
          PROVE  /\ outcome'[k] \in {<<>>, <<"whole">>, <<"error">>}
                 /\ k > asked => outcome'[k] = <<>>
      <3>1. /\ outcome[k] \in {<<>>, <<"whole">>, <<"error">>}
            /\ k > asked => outcome[k] = <<>>
        BY DEF ChatInv, OutcomesOK
      <3>2. CASE k = k0
        <4>1. outcome'[k] = <<r>>
          BY <1>0, <1>1, <3>2
        <4>2. ~(k > asked)
          BY <1>0, <3>2 DEF Ask
        <4> QED
          BY <4>1, <4>2
      <3>3. CASE k # k0
        BY <1>1, <3>1, <3>3
      <3> QED
        BY <3>2, <3>3
    <2> QED
      BY <2>1 DEF OutcomesOK
  <1>3. WaitingOnce' /\ \A k \in Ask : Waits(k)' => Waits(k)
    <2>1. AsksIn(<<>>) = {}
      BY DEF AsksIn
    <2> QED
      BY <2>1, InboxFrame DEF ChatInv
  <1>4. WaitingOK'
    <2>1. ASSUME NEW k \in Ask, Waits(k)
          PROVE  /\ k \in 1 .. asked /\ k # k0 /\ outcome[k] = <<>>
                 /\ \A d \in Connection : conn'[d].ask # k
      <3>1. k \in 1 .. asked /\ outcome[k] = <<>> /\ \A d \in Connection : conn[d].ask # k
        BY <2>1 DEF ChatInv, WaitingOK
      <3> QED
        BY <1>0, <3>1 DEF k0
    <2> QED
      BY <1>1, <1>3, <2>1 DEF WaitingOK
  <1>5. ASSUME NEW x \in Connection \ {c} PROVE ConnOK(x)'
    <2>1. ConnOK(x) /\ conn'[x] = conn[x]
      BY DEF ChatInv
    <2>2. conn[x].ask # k0
      BY <1>0 DEF ChatInv, ServedOnce, k0, Ask
    <2>3. conn[x].ask # 0 => conn[x].ask \in Ask
      <3>1. conn[x].ask \in 0 .. asked /\ asked \in 0 .. MaxAsk /\ MaxAsk \in Nat
        BY <2>1, ConversationAssumption DEF ConnOK, ConversationTypeOK
      <3> QED
        BY <3>1 DEF Ask
    <2>4. conn[x].ask # 0 => outcome'[conn[x].ask] = outcome[conn[x].ask]
      BY <1>1, <2>2, <2>3
    <2> QED
      BY <2>1, <2>4 DEF ConnOK
  <1>6. \A x \in Connection : ConnOK(x)'
    BY <1>0, <1>1, <1>5 DEF k0
  <1>7. ServedOnce'
    BY DEF ChatInv, ServedOnce
  <1>8. Copied' \subseteq Copied /\ HistoriesOK'
    BY NothingCopied DEF ChatInv
  <1>9. CopiedOK'
    <2>1. ASSUME NEW k \in Copied
          PROVE  /\ k \in Ask /\ k # k0 /\ outcome[k] = <<"whole">>
                 /\ \A x \in Connection : conn'[x].ask = k => conn'[x].pc \notin Unwritten
      <3>1. /\ k \in Ask /\ outcome[k] = <<"whole">>
            /\ \A x \in Connection : conn[x].ask = k => conn[x].pc \notin Unwritten
        BY <2>1 DEF ChatInv, CopiedOK
      <3>2. k # k0
        <4>1. <<"whole">> # <<>>
          OBVIOUS
        <4> QED
          BY <1>0, <3>1, <4>1
      <3> QED
        BY <3>1, <3>2 DEF k0, Ask
    <2> QED
      BY <1>1, <1>8, <2>1 DEF CopiedOK
  <1> QED
    BY <1>2, <1>3, <1>4, <1>6, <1>7, <1>8, <1>9 DEF ChatInv

-----------------------------------------------------------------------------
(* The steps of a connection.                                              *)
LEMMA RefuseInv ==
    ASSUME ConversationTypeOK, ChatInv, NEW c \in Connection, conn[c].pc \in AskPc, Refuse(c)
    PROVE  ChatInv'
  <1>1. /\ conn'[c].pc = "closed" /\ conn'[c].ask = 0 /\ conn'[c].base = <<>>
        /\ inbox'[c] = <<>>
        /\ \A x \in Connection \ {c} : conn'[x] = conn[x] /\ inbox'[x] = inbox[x]
    BY DEF Refuse, Close, Listening, ConversationTypeOK
  <1>2. Completes(c, "error") /\ UNCHANGED <<history, asked, stopFlag>>
    BY DEF Refuse, redisVars, clientVars
  <1>3. ConnOK(c)'
    BY <1>1, <1>2 DEF ConnOK, AskPc, SavePc, ConversationTypeOK
  <1> QED
    BY <1>1, <1>2, <1>3, OutcomeFrame

LEMMA CompleteInv ==
    ASSUME ConversationTypeOK, ChatInv, NEW c \in Connection, Complete(c)
    PROVE  ChatInv'
  <1>1. /\ conn[c].pc = "stream" /\ conn[c].pc \in AskPc /\ ConnOK(c)
        /\ UNCHANGED <<history, asked, stopFlag, inbox>>
    BY DEF Complete, At, AskPc, ChatInv, redisVars, clientVars
  <1>2. Completes(c, "whole")
    BY <1>1 DEF Complete, ConnOK
  <1>3. /\ conn'[c].ask = conn[c].ask
        /\ conn'[c].pc \in {"readHistory", "idle"}
        /\ conn'[c].base = conn[c].base \/ conn'[c].base = <<>>
        /\ \A x \in Connection \ {c} : conn'[x] = conn[x]
    <2>1. CASE Goto(c, "readHistory")
      BY <2>1 DEF Goto, ConversationTypeOK, Goroutine
    <2>2. CASE Listen(c)
      BY <2>2 DEF Listen, Listening, ConversationTypeOK
    <2> QED
      BY <2>1, <2>2 DEF Complete
  <1>4. ASSUME outcome'[conn[c].ask] = <<"whole">> PROVE ConnOK(c)'
    <2>1. <<"whole">> # <<>>
      OBVIOUS
    <2> QED
      BY <1>1, <1>3, <1>4, <2>1 DEF ConnOK, AskPc, SavePc
  <1> QED
    BY <1>1, <1>2, <1>3, <1>4, OutcomeFrame

(* Steps on the way to the answer.                                         *)
LEMMA AskStepInv ==
    ASSUME ConversationTypeOK, ChatInv, NEW c \in Connection,
           \/ Retrieve(c) \/ ConversationExists(c) \/ SetMeta(c) \/ AddToList(c)
           \/ Load(c) \/ Chunk(c) \/ StreamError(c)
    PROVE  ChatInv'
  <1>1. CASE Refuse(c)
    <2>1. conn[c].pc \in AskPc
      BY DEF Retrieve, ConversationExists, SetMeta, AddToList, Load, Chunk, StreamError,
             At, AskPc
    <2> QED
      BY <1>1, <2>1, RefuseInv
  <1>2. CASE ~Refuse(c)
    <2>0. ConnOK(c) /\ conn[c] \in Goroutine
      BY DEF ChatInv, ConversationTypeOK
    <2>1. /\ UNCHANGED <<inbox, stopFlag, outcome, asked, history>>
          /\ conn[c].pc \in AskPc
      BY <1>2 DEF Retrieve, ConversationExists, SetMeta, AddToList, Load, Chunk, StreamError,
                  At, AskPc, redisVars, clientVars
    <2>2. /\ conn'[c].pc \in AskPc /\ conn'[c].ask = conn[c].ask
          /\ conn'[c].base = conn[c].base /\ ~conn'[c].cut
          /\ \A x \in Connection \ {c} : conn'[x] = conn[x]
      <3>0. ~conn[c].cut /\ ~stopFlag[c]
        BY <2>0, <2>1 DEF ConnOK
      <3>1. ASSUME NEW pc \in AskPc, Goto(c, pc)
            PROVE  /\ conn'[c].pc \in AskPc /\ conn'[c].ask = conn[c].ask
                   /\ conn'[c].base = conn[c].base /\ ~conn'[c].cut
                   /\ \A x \in Connection \ {c} : conn'[x] = conn[x]
        BY <2>0, <3>0, <3>1 DEF Goto, ConversationTypeOK, Goroutine
      <3>2. CASE Retrieve(c) \/ SetMeta(c)
        BY <1>2, <3>1, <3>2 DEF Retrieve, SetMeta, AskPc
      <3>3. CASE ConversationExists(c) \/ AddToList(c)
        <4>1. \/ Goto(c, "load")
              \/ \E v : conn' = [conn EXCEPT ![c].pc = "setMeta", ![c].id = v]
              \/ \E v : conn' = [conn EXCEPT ![c].pc = "load", ![c].id = v]
          BY <3>3 DEF ConversationExists, AddToList
        <4>2. ASSUME NEW v, NEW pc \in AskPc, conn' = [conn EXCEPT ![c].pc = pc, ![c].id = v]
              PROVE  /\ conn'[c].pc \in AskPc /\ conn'[c].ask = conn[c].ask
                     /\ conn'[c].base = conn[c].base /\ ~conn'[c].cut
                     /\ \A x \in Connection \ {c} : conn'[x] = conn[x]
          BY <2>0, <3>0, <4>2 DEF ConversationTypeOK, Goroutine
        <4> QED
          BY <3>1, <4>1, <4>2 DEF AskPc
      <3>4. CASE Load(c)
        <4>1. PICK n : conn' = [conn EXCEPT ![c].pc = "stream", ![c].left = n]
          BY <3>4 DEF Load
        <4> QED
          BY <2>0, <3>0, <4>1 DEF ConversationTypeOK, Goroutine, AskPc
      <3>5. CASE Chunk(c)
        <4>1. PICK n, t : conn' = [conn EXCEPT ![c].left = n, ![c].text = t,
                                               ![c].cut = @ \/ stopFlag[c]]
          BY <3>5 DEF Chunk
        <4>2. conn'[c].cut = (conn[c].cut \/ stopFlag[c])
          BY <2>0, <4>1 DEF ConversationTypeOK, Goroutine
        <4> QED
          BY <2>0, <2>1, <3>0, <4>1, <4>2 DEF ConversationTypeOK, Goroutine
      <3> QED
        BY <1>2, <3>2, <3>3, <3>4, <3>5 DEF StreamError
    <2>3. ConnOK(c)'
      BY <2>0, <2>1, <2>2 DEF ConnOK, AskPc, SavePc
    <2>4. Copied' \subseteq Copied /\ HistoriesOK'
      BY <2>1, <2>2, NothingCopied DEF ChatInv
    <2>5. conn'[c].pc \notin Unwritten
      BY <2>2 DEF AskPc, Unwritten
    <2> QED
      BY <2>1, <2>2, <2>3, <2>4, <2>5, ConnFrame
  <1> QED
    BY <1>1, <1>2

(* Steps of saving an answer: only the write puts anything into a history, *)
(* its own exchange after the messages it read before.                     *)
LEMMA SaveStepInv ==
    ASSUME ConversationTypeOK, ChatInv, NEW c \in Connection,
           \/ SaveFails(c) \/ ReadHistory(c) \/ TouchRead(c) \/ TouchWrite(c)
           \/ TouchList(c)
    PROVE  ChatInv'
  <1>0. ConnOK(c) /\ conn[c] \in Goroutine /\ conn[c].id \in 0 .. MaxAsk
    BY DEF ChatInv, ConversationTypeOK, Goroutine
  <1>1. /\ UNCHANGED <<inbox, stopFlag, outcome, asked, history>>
        /\ conn[c].pc \in SavePc /\ outcome[conn[c].ask] = <<"whole">> /\ conn[c].ask # 0
    BY <1>0 DEF SaveFails, ReadHistory, TouchRead, TouchWrite, TouchList, At, SavePc,
                redisVars, clientVars, ConnOK
  <1>2. /\ conn'[c].ask = conn[c].ask
        /\ \A x \in Connection \ {c} : conn'[x] = conn[x]
        /\ conn'[c].pc \in SavePc \cup {"idle"}
        /\ conn'[c].pc \in Unwritten => conn[c].pc \in Unwritten
        /\ \/ conn'[c].base = conn[c].base \/ conn'[c].base = <<>>
           \/ \E v \in 0 .. MaxAsk : conn'[c].base = history[v]
    <2> USE DEF ConversationTypeOK, Goroutine, SavePc, Unwritten
    <2>1. CASE Listen(c)
      BY <1>0, <2>1 DEF Listen, Listening
    <2>2. CASE ReadHistory(c)
      BY <1>0, <2>2 DEF ReadHistory, At
    <2>3. ASSUME NEW m, conn' = [conn EXCEPT ![c].pc = "touchWrite", ![c].seen = m]
          PROVE  /\ conn'[c].ask = conn[c].ask /\ conn'[c].pc = "touchWrite"
                 /\ \A x \in Connection \ {c} : conn'[x] = conn[x]
                 /\ conn'[c].base = conn[c].base
      BY <1>0, <2>3
    <2>4. CASE Goto(c, "touchList")
      BY <1>0, <2>4 DEF Goto
    <2> QED
      BY <2>1, <2>2, <2>3, <2>4 DEF SaveFails, TouchRead, TouchWrite, TouchList
  <1>3. ConnOK(c)'
    <2>1. <<"whole">> # <<>>
      OBVIOUS
    <2> QED
      BY <1>0, <1>1, <1>2, <2>1 DEF ConnOK, AskPc, SavePc
  <1>4. Copied' \subseteq Copied /\ HistoriesOK'
    BY <1>1, <1>2, NothingCopied DEF ChatInv
  <1> QED
    BY <1>1, <1>2, <1>3, <1>4, ConnFrame

LEMMA WriteInv ==
    ASSUME ConversationTypeOK, ChatInv, NEW c \in Connection, UpdateConversationHistory(c)
    PROVE  ChatInv'
  <1> DEFINE k == conn[c].ask
             new == LastMessages(conn[c].base \o Exchange(k))
  <1>0. /\ ConnOK(c) /\ conn[c] \in Goroutine /\ conn[c].id \in 0 .. MaxAsk
        /\ k \in 0 .. MaxAsk /\ conn[c].base \in Seq(Message)
        /\ conn[c].pc = "writeHistory"
    BY DEF ChatInv, ConversationTypeOK, Goroutine, UpdateConversationHistory, At
  <1>1. /\ UNCHANGED <<inbox, stopFlag, outcome, asked>>
        /\ history' = [history EXCEPT ![conn[c].id] = new] /\ Goto(c, "touchRead")
        /\ conn[c].pc \in SavePc /\ outcome[k] = <<"whole">> /\ k # 0
    BY <1>0 DEF UpdateConversationHistory, SavePc, clientVars, ConnOK
  <1>2. k \notin AsksOf(conn[c].base)
    BY <1>0 DEF ChatInv, CopiedOK, Copied, Unwritten
  <1>3. Exchanges(new) /\ AsksOf(new) \subseteq AsksOf(conn[c].base) \cup {k}
    BY <1>0, <1>2, ExchangeKept DEF ChatInv, HistoriesOK
  <1> HIDE DEF new, k
  <1>4. \A v \in 0 .. MaxAsk : history'[v] = new \/ history'[v] = history[v]
    BY <1>1 DEF ConversationTypeOK
  <1>5. /\ conn'[c].pc = "touchRead" /\ conn'[c].ask = k /\ conn'[c].base = conn[c].base
        /\ \A x \in Connection \ {c} : conn'[x] = conn[x]
        /\ \A x \in Connection : conn'[x].base = conn[x].base
    BY <1>0, <1>1 DEF Goto, ConversationTypeOK, Goroutine, k
  <1>6. Copied' \subseteq Copied \cup {k}
    <2>1. \A v \in 0 .. MaxAsk : AsksOf(history'[v]) \subseteq Copied \cup {k}
      BY <1>3, <1>4 DEF Copied
    <2>2. \A x \in Connection : AsksOf(conn'[x].base) \subseteq Copied
      BY <1>5 DEF Copied
    <2> QED
      BY <2>1, <2>2 DEF Copied
  <1>7. HistoriesOK'
    BY <1>3, <1>4, <1>5 DEF ChatInv, HistoriesOK
  <1>8. ConnOK(c)'
    BY <1>0, <1>1, <1>5 DEF ConnOK, AskPc, SavePc, k
  <1>9. conn'[c].pc \notin Unwritten
    BY <1>5 DEF Unwritten
  <1> QED
    BY <1>1, <1>5, <1>6, <1>7, <1>8, <1>9, ConnFrame DEF k

-----------------------------------------------------------------------------
(* The steps that read and fill the inbox.                                 *)
LEMMA ReadStopInv ==
    ASSUME ConversationTypeOK, ChatInv, NEW c \in Connection, ReadStop(c)
    PROVE  ChatInv'
  <1>1. /\ UNCHANGED <<conn, history, outcome, asked>> /\ conn[c].pc = "idle"
        /\ inbox[c] # <<>> /\ inbox'[c] = Tail(inbox[c])
        /\ \A x \in Connection \ {c} : inbox'[x] = inbox[x] /\ stopFlag'[x] = stopFlag[x]
    BY DEF ReadStop, Reads, At, ConversationTypeOK, redisVars, clientVars
  <1>2. WaitingOnce' /\ \A k \in Ask : Waits(k)' => Waits(k)
    BY <1>1, InboxFrame DEF ChatInv
  <1>3. OutcomesOK' /\ WaitingOK' /\ ServedOnce' /\ HistoriesOK' /\ CopiedOK'
    BY <1>1, <1>2 DEF ChatInv, OutcomesOK, WaitingOK, ServedOnce, HistoriesOK, CopiedOK, Copied
  <1>4. \A x \in Connection : ConnOK(x)'
    BY <1>1 DEF ChatInv, ConnOK, AskPc
  <1> QED
    BY <1>2, <1>3, <1>4 DEF ChatInv

LEMMA ReadQuestionInv ==
    ASSUME ConversationTypeOK, ChatInv, NEW c \in Connection, ReadQuestion(c)
    PROVE  ChatInv'
  <1> DEFINE m == Head(inbox[c])
             k == m.ask
  <1>1. /\ UNCHANGED <<history, outcome, asked>>
        /\ inbox[c] # <<>> /\ inbox'[c] = Tail(inbox[c]) /\ m.type = "ask"
        /\ stopFlag'[c] = FALSE
        /\ conn' = [conn EXCEPT ![c] = [Listening EXCEPT !.pc = "retrieve",
                                            !.ask = k, !.id = m.id]]
        /\ \A x \in Connection \ {c} : inbox'[x] = inbox[x] /\ stopFlag'[x] = stopFlag[x]
    BY DEF ReadQuestion, Reads, At, ConversationTypeOK, redisVars, clientVars
  <1>2. /\ conn'[c].pc = "retrieve" /\ conn'[c].ask = k /\ conn'[c].base = <<>>
        /\ ~conn'[c].cut /\ \A x \in Connection \ {c} : conn'[x] = conn[x]
    BY <1>1 DEF ConversationTypeOK, Listening
  <1>3. k \in Ask /\ Waits(k)
    <2>1. inbox[c] \in Seq(Incoming)
      BY DEF ConversationTypeOK
    <2>2. /\ m \in Incoming /\ 1 \in 1 .. Len(inbox[c]) /\ m = inbox[c][1]
      BY <1>1, <2>1
    <2>3. k \in Ask
      BY <1>1, <2>2 DEF Incoming
    <2> QED
      BY <1>1, <2>2, <2>3 DEF Waits, AsksIn
  <1>4. k \in 1 .. asked /\ outcome[k] = <<>> /\ \A d \in Connection : conn[d].ask # k
    BY <1>3 DEF ChatInv, WaitingOK
  <1>5. WaitingOnce' /\ \A j \in Ask : Waits(j)' => Waits(j)
    BY <1>1, InboxFrame DEF ChatInv
  <1>6. PICK j \in Ask : j = k
    BY <1>3
  <1>7. ~Waits(j)'
    BY <1>1, <1>6, InboxFrame DEF ChatInv
  <1> HIDE DEF m, k
  <1>8. WaitingOK'
    BY <1>1, <1>2, <1>5, <1>6, <1>7 DEF ChatInv, WaitingOK
  <1>9. \A x \in Connection : ConnOK(x)'
    <2>1. ConnOK(c)'
      <3>1. k \in 0 .. asked /\ k # 0
        BY <1>4 DEF ConversationTypeOK
      <3> QED
        BY <1>1, <1>2, <1>4, <3>1 DEF ConnOK, AskPc, SavePc
    <2>2. ASSUME NEW x \in Connection \ {c} PROVE ConnOK(x)'
      BY <1>1, <1>2 DEF ChatInv, ConnOK
    <2> QED
      BY <2>1, <2>2
  <1>10. ServedOnce'
    BY <1>2, <1>4 DEF ChatInv, ServedOnce
  <1>11. Copied' \subseteq Copied /\ HistoriesOK'
    BY <1>1, <1>2, NothingCopied DEF ChatInv
  <1>12. CopiedOK'
    BY <1>1, <1>2, <1>11 DEF ChatInv, CopiedOK, Unwritten
  <1>13. OutcomesOK'
    BY <1>1 DEF ChatInv, OutcomesOK
  <1> QED
    BY <1>5, <1>8, <1>9, <1>10, <1>11, <1>12, <1>13 DEF ChatInv

LEMMA DisconnectInv ==
    ASSUME ConversationTypeOK, ChatInv, NEW c \in Connection, Disconnect(c)
    PROVE  ChatInv'
  <1>1. /\ UNCHANGED <<history, outcome, asked, stopFlag>>
        /\ conn'[c].pc = "closed" /\ conn'[c].ask = 0 /\ conn'[c].base = <<>>
        /\ inbox'[c] = <<>>
        /\ \A x \in Connection \ {c} : conn'[x] = conn[x] /\ inbox'[x] = inbox[x]
    BY DEF Disconnect, Close, Listening, ConversationTypeOK, redisVars, clientVars
  <1>2. WaitingOnce' /\ \A k \in Ask : Waits(k)' => Waits(k)
    <2>1. AsksIn(<<>>) = {}
      BY DEF AsksIn
    <2> QED
      BY <1>1, <2>1, InboxFrame DEF ChatInv
  <1>3. WaitingOK'
    BY <1>1, <1>2 DEF ChatInv, WaitingOK, Ask
  <1>4. \A x \in Connection : ConnOK(x)'
    <2>1. 0 \in 0 .. asked
      BY ConversationAssumption DEF ConversationTypeOK
    <2>2. ConnOK(c)'
      BY <1>1, <2>1 DEF ConnOK, AskPc, SavePc
    <2>3. ASSUME NEW x \in Connection \ {c} PROVE ConnOK(x)'
      BY <1>1 DEF ChatInv, ConnOK
    <2> QED
      BY <2>2, <2>3
  <1>5. ServedOnce' /\ OutcomesOK'
    BY <1>1 DEF ChatInv, ServedOnce, OutcomesOK
  <1>6. Copied' \subseteq Copied /\ HistoriesOK'
    BY <1>1, NothingCopied DEF ChatInv
  <1>7. CopiedOK'
    BY <1>1, <1>6 DEF ChatInv, CopiedOK, Ask, Unwritten
  <1> QED
    BY <1>2, <1>3, <1>4, <1>5, <1>6, <1>7 DEF ChatInv

LEMMA SendStopInv ==
    ASSUME ConversationTypeOK, ChatInv, NEW c \in Connection, SendStop(c)
    PROVE  ChatInv'
  <1>1. /\ UNCHANGED <<conn, history, outcome, asked, stopFlag>>
        /\ inbox'[c] = <<[type |-> "stop"]>>
        /\ \A x \in Connection \ {c} : inbox'[x] = inbox[x]
    BY DEF SendStop, ConversationTypeOK, redisVars, clientVars
  <1>2. WaitingOnce' /\ \A k \in Ask : Waits(k)' => Waits(k)
    <2>1. AsksIn(<<[type |-> "stop"]>>) = {}
      BY DEF AsksIn
    <2> QED
      BY <1>1, <2>1, InboxFrame DEF ChatInv
  <1>3. OutcomesOK' /\ WaitingOK' /\ ServedOnce' /\ HistoriesOK' /\ CopiedOK'
    BY <1>1, <1>2 DEF ChatInv, OutcomesOK, WaitingOK, ServedOnce, HistoriesOK, CopiedOK, Copied
  <1>4. \A x \in Connection : ConnOK(x)'
    BY <1>1 DEF ChatInv, ConnOK
  <1> QED
    BY <1>2, <1>3, <1>4 DEF ChatInv

(* The question that is sent is new: nobody waits for it, serves it or     *)
(* completed it.                                                           *)
LEMMA SendQuestionInv ==
    ASSUME ConversationTypeOK, ChatInv, NEW c \in Connection, NEW v \in 0 .. MaxAsk,
           SendQuestion(c, v)
    PROVE  ChatInv'
  <1> DEFINE n == asked + 1
             new == [type |-> "ask", ask |-> n, id |-> v]
  <1>1. /\ UNCHANGED <<conn, history, outcome, stopFlag>> /\ asked' = n
        /\ inbox' = [inbox EXCEPT ![c] = Append(@, new)]
    BY DEF SendQuestion, redisVars
  <1>2. n \in Ask /\ n \in Nat /\ asked \in Nat /\ asked \in 0 .. MaxAsk
    BY ConversationAssumption DEF SendQuestion, ConversationTypeOK, Ask
  <1>3. /\ outcome[n] = <<>> /\ ~Waits(n) /\ \A d \in Connection : conn[d].ask # n
    <2>1. n > asked /\ n \notin 0 .. asked /\ n \notin 1 .. asked
      BY <1>2
    <2>2. outcome[n] = <<>> /\ ~Waits(n)
      BY <1>2, <2>1 DEF ChatInv, OutcomesOK, WaitingOK
    <2>3. \A d \in Connection : conn[d].ask \in 0 .. asked
      BY DEF ChatInv, ConnOK
    <2> QED
      BY <2>1, <2>2, <2>3
  <1>4. /\ new.type = "ask" /\ new.ask = n
        /\ \A x \in Connection : x # c => inbox'[x] = inbox[x]
        /\ inbox[c] \in Seq(Incoming) /\ inbox'[c] = Append(inbox[c], new)
    BY <1>1 DEF ConversationTypeOK
  <1> HIDE DEF new
  <1>5. ASSUME NEW x \in Connection, NEW i \in AsksIn(inbox'[x])
        PROVE  \/ i \in AsksIn(inbox[x]) /\ inbox'[x][i] = inbox[x][i]
               \/ x = c /\ i = Len(inbox[c]) + 1 /\ inbox'[x][i].ask = n
    <2>1. CASE x = c
      <3>1. /\ Len(inbox'[c]) = Len(inbox[c]) + 1 /\ Len(inbox[c]) \in Nat
            /\ \A j \in 1 .. Len(inbox[c]) : inbox'[c][j] = inbox[c][j]
            /\ inbox'[c][Len(inbox[c]) + 1] = new
        BY <1>4
      <3>2. i \in 1 .. Len(inbox[c]) + 1 /\ inbox'[c][i].type = "ask"
        BY <1>5, <2>1, <3>1 DEF AsksIn
      <3>3. CASE i = Len(inbox[c]) + 1
        BY <1>4, <2>1, <3>1, <3>3
      <3>4. CASE i # Len(inbox[c]) + 1
        <4>1. i \in 1 .. Len(inbox[c])
          BY <3>1, <3>2, <3>4
        <4> QED
          BY <2>1, <3>1, <3>2, <4>1 DEF AsksIn
      <3> QED
        BY <3>3, <3>4
    <2>2. CASE x # c
      BY <1>4, <1>5, <2>2
    <2> QED
      BY <2>1, <2>2
  <1>6. ASSUME NEW x \in Connection, NEW i \in AsksIn(inbox[x])
        PROVE  inbox[x][i].ask # n
    BY <1>3, <1>6 DEF Waits
  <1>7. WaitingOnce'
    <2> SUFFICES ASSUME NEW x \in Connection, NEW y \in Connection,
                        NEW i \in AsksIn(inbox'[x]), NEW j \in AsksIn(inbox'[y]),
                        inbox'[x][i].ask = inbox'[y][j].ask
                 PROVE  x = y /\ i = j
      BY DEF WaitingOnce, AsksIn
    <2> QED
      BY <1>5, <1>6 DEF ChatInv, WaitingOnce
  <1>8. ASSUME NEW k \in Ask, Waits(k)' PROVE Waits(k) \/ k = n
    <2>1. PICK x \in Connection : \E i \in AsksIn(inbox'[x]) : inbox'[x][i].ask = k
      BY <1>8 DEF Waits, AsksIn
    <2>2. PICK i \in AsksIn(inbox'[x]) : inbox'[x][i].ask = k
      BY <2>1
    <2> QED
      BY <1>5, <2>2 DEF Waits
  <1>9. \A k \in Int : k \in 0 .. asked => k \in 0 .. n
    BY <1>2
  <1>10. WaitingOK'
    <2>1. ASSUME NEW k \in Ask, Waits(k)'
          PROVE  k \in 1 .. n /\ outcome[k] = <<>> /\ \A d \in Connection : conn[d].ask # k
      <3>1. CASE k = n
        BY <1>2, <1>3, <3>1
      <3>2. CASE Waits(k)
        BY <1>2, <3>2 DEF ChatInv, WaitingOK
      <3> QED
        BY <1>8, <2>1, <3>1, <3>2
    <2> QED
      BY <1>1, <2>1 DEF WaitingOK
  <1>11. \A x \in Connection : ConnOK(x)'
    <2> SUFFICES ASSUME NEW x \in Connection PROVE ConnOK(x)'
      OBVIOUS
    <2>1. ConnOK(x) /\ conn[x].ask \in 0 .. n
      BY <1>2 DEF ChatInv, ConnOK
    <2> QED
      BY <1>1, <2>1 DEF ConnOK
  <1>12. OutcomesOK'
    BY <1>1, <1>2 DEF ChatInv, OutcomesOK, Ask
  <1>13. ServedOnce' /\ HistoriesOK' /\ CopiedOK'
    BY <1>1 DEF ChatInv, ServedOnce, HistoriesOK, CopiedOK, Copied
  <1> QED
    BY <1>7, <1>10, <1>11, <1>12, <1>13 DEF ChatInv

(* Archive and delete requests: a history is kept or emptied.              *)
LEMMA ServeInv ==
    ASSUME ConversationTypeOK, ChatInv, NEW r \in Request, Serve(r)
    PROVE  ChatInv'
  <1>1. /\ UNCHANGED <<conn, inbox, outcome, stopFlag, asked>>
        /\ \A v \in 0 .. MaxAsk : history'[v] = history[v] \/ history'[v] = <<>>
    BY DEF Serve, SetArchived, DeleteKeys, ArchiveConversation, DeleteConversation,
           redisVars, clientVars, ConversationTypeOK
  <1>2. OutcomesOK' /\ WaitingOK' /\ WaitingOnce' /\ ServedOnce'
    BY <1>1 DEF ChatInv, OutcomesOK, WaitingOK, Waits, WaitingOnce, ServedOnce
  <1>3. \A x \in Connection : ConnOK(x)'
    BY <1>1 DEF ChatInv, ConnOK
  <1>4. HistoriesOK'
    BY <1>1, EmptyHistory DEF ChatInv, HistoriesOK
  <1>5. Copied' \subseteq Copied
    <2>1. \A v \in 0 .. MaxAsk : AsksOf(history'[v]) \subseteq Copied
      BY <1>1, EmptyHistory DEF Copied
    <2>2. \A x \in Connection : AsksOf(conn'[x].base) \subseteq Copied
      BY <1>1 DEF Copied
    <2> QED
      BY <2>1, <2>2 DEF Copied
  <1>6. CopiedOK'
    BY <1>1, <1>5 DEF ChatInv, CopiedOK
  <1> QED
    BY <1>2, <1>3, <1>4, <1>6 DEF ChatInv

(* After a crash nobody serves and nothing waits.                          *)
LEMMA ServerCrashInv ==
    ASSUME ConversationTypeOK, ChatInv, ServerCrash
    PROVE  ChatInv'
  <1>1. /\ UNCHANGED <<history, outcome, asked>>
        /\ \A x \in Connection : /\ conn'[x].pc = "closed" /\ conn'[x].ask = 0
                                 /\ conn'[x].base = <<>> /\ inbox'[x] = <<>>
    BY DEF ServerCrash, redisVars, clientVars, Listening
  <1>2. \A x \in Connection : AsksIn(inbox'[x]) = {}
    BY <1>1 DEF AsksIn
  <1>3. OutcomesOK' /\ WaitingOK' /\ WaitingOnce' /\ ServedOnce'
    BY <1>1, <1>2 DEF ChatInv, OutcomesOK, WaitingOK, Waits, WaitingOnce, ServedOnce
  <1>4. \A x \in Connection : ConnOK(x)'
    <2>1. 0 \in 0 .. asked
      BY ConversationAssumption DEF ConversationTypeOK
    <2> QED
      BY <1>1, <2>1 DEF ConnOK, AskPc, SavePc
  <1>5. HistoriesOK'
    BY <1>1, EmptyHistory DEF ChatInv, HistoriesOK
  <1>6. Copied' \subseteq Copied
    <2>1. \A v \in 0 .. MaxAsk : AsksOf(history'[v]) \subseteq Copied
      BY <1>1 DEF Copied
    <2>2. \A x \in Connection : AsksOf(conn'[x].base) \subseteq Copied
      BY <1>1, EmptyHistory
    <2> QED
      BY <2>1, <2>2 DEF Copied
  <1>7. CopiedOK'
    <2> SUFFICES ASSUME NEW k \in Copied'
                 PROVE  /\ k \in Ask /\ outcome'[k] = <<"whole">>
                        /\ \A x \in Connection : conn'[x].ask = k => conn'[x].pc \notin Unwritten
      BY DEF CopiedOK
    <2>1. k \in Ask /\ outcome[k] = <<"whole">>
      BY <1>6 DEF ChatInv, CopiedOK
    <2> QED
      BY <1>1, <2>1 DEF Unwritten
  <1> QED
    BY <1>3, <1>4, <1>5, <1>7 DEF ChatInv

LEMMA ChatStep ==
    ConversationTypeOK /\ ChatInv /\ [ConversationNext]_conversationVars => ChatInv'
  <1> SUFFICES ASSUME ConversationTypeOK, ChatInv, [ConversationNext]_conversationVars
               PROVE  ChatInv'
    OBVIOUS
  <1>1. ASSUME NEW c \in Connection, Handle(c) PROVE ChatInv'
    BY <1>1, ReadStopInv, ReadQuestionInv, AskStepInv, RefuseInv, CompleteInv, SaveStepInv,
       WriteInv DEF Handle
  <1>2. ASSUME NEW c \in Connection, Client(c) PROVE ChatInv'
    BY <1>2, SendStopInv, DisconnectInv, SendQuestionInv DEF Client
  <1>3. CASE UNCHANGED conversationVars
    <2>1. UNCHANGED <<conn, inbox, outcome, stopFlag, asked, history>>
      BY <1>3 DEF conversationVars
    <2>2. \A x \in Connection : ConnOK(x)'
      BY <2>1 DEF ChatInv, ConnOK
    <2> QED
      BY <2>1, <2>2 DEF ChatInv, OutcomesOK, WaitingOK, Waits, WaitingOnce, ServedOnce,
                        HistoriesOK, CopiedOK, Copied
  <1> QED
    BY <1>1, <1>2, <1>3, ServeInv, ServerCrashInv DEF ConversationNext

(* Each question is unread, served or completed, in one place, and in the  *)
(* histories only once its answer was completed.                           *)
THEOREM QuestionsFollowed == ConversationSpec => [](ConversationTypeOK /\ ChatInv)
  BY ConversationTypeInit, ConversationTypeStep, ChatInit, ChatStep, PTL DEF ConversationSpec

-----------------------------------------------------------------------------
(* However saves interleave, are lost or fail, a history stays a sequence  *)
(* of at most Keep messages, questions each with its own answer, none of   *)
(* them twice.                                                             *)
THEOREM HistoriesStayPaired == ConversationSpec => []HistoryPaired
  <1>1. ConversationTypeOK /\ ChatInv => HistoryPaired
    <2> SUFFICES ASSUME ConversationTypeOK, ChatInv, NEW v \in 0 .. MaxAsk
                 PROVE  LET h == history[v] IN
                        /\ Len(h) <= Keep
                        /\ \A i \in DOMAIN h : h[i].role = IF i % 2 = 1 THEN "user" ELSE "assistant"
                        /\ \A i, j \in DOMAIN h :
                              h[i].ask = h[j].ask <=> (i + 1) \div 2 = (j + 1) \div 2
      BY DEF HistoryPaired
    <2>1. Exchanges(history[v]) /\ DOMAIN history[v] = 1 .. Len(history[v])
      BY DEF ChatInv, HistoriesOK, ConversationTypeOK
    <2> QED
      BY <2>1 DEF Exchanges, Paired
  <1> QED
    BY <1>1, QuestionsFollowed, PTL

(* A question is completed at most once, and exactly once when its         *)
(* connection has served it, whatever fails afterwards.                    *)
THEOREM QuestionsCompletedOnce == ConversationSpec => []OneCompletion
  <1>1. ConversationTypeOK /\ ChatInv => OneCompletion
    <2> SUFFICES ASSUME ConversationTypeOK, ChatInv PROVE OneCompletion
      OBVIOUS
    <2>1. Len(<<>>) = 0 /\ Len(<<"whole">>) = 1 /\ Len(<<"error">>) = 1
      OBVIOUS
    <2>2. \A k \in Ask : Len(outcome[k]) <= 1 /\ (outcome[k] # <<>> => Len(outcome[k]) = 1)
      <3> SUFFICES ASSUME NEW k \in Ask
                   PROVE  Len(outcome[k]) <= 1 /\ (outcome[k] # <<>> => Len(outcome[k]) = 1)
        OBVIOUS
      <3>1. outcome[k] = <<>> \/ outcome[k] = <<"whole">> \/ outcome[k] = <<"error">>
        BY DEF ChatInv, OutcomesOK
      <3>2. CASE outcome[k] = <<>>
        <4>1. Len(outcome[k]) = 0
          BY <3>2
        <4> QED
          BY <3>2, <4>1
      <3>3. CASE outcome[k] # <<>>
        <4>1. Len(outcome[k]) = 1
          BY <2>1, <3>1, <3>3, Zenon
        <4> QED
          BY <4>1
      <3> QED
        BY <3>2, <3>3
    <2>3. ASSUME NEW c \in Connection, conn[c].ask # 0, conn[c].pc \in SavePc \cup {"idle"}
          PROVE  Len(outcome[conn[c].ask]) = 1
      <3>1. ConnOK(c) /\ asked \in 0 .. MaxAsk /\ MaxAsk \in Nat
        BY ConversationAssumption DEF ChatInv, ConversationTypeOK
      <3>2. conn[c].ask \in Ask
        BY <2>3, <3>1 DEF ConnOK, Ask
      <3>3. <<"whole">> # <<>>
        OBVIOUS
      <3>4. outcome[conn[c].ask] # <<>>
        BY <2>3, <3>1, <3>3 DEF ConnOK
      <3> QED
        BY <2>2, <3>2, <3>4
    <2> QED
      BY <2>2, <2>3 DEF OneCompletion
  <1> QED
    BY <1>1, QuestionsFollowed, PTL

(* A history holds only answers the client was told are complete.          *)
THEOREM SavedAreCompleted == ConversationSpec => []SavedCompleted
  <1>1. ConversationTypeOK /\ ChatInv => SavedCompleted
    <2> SUFFICES ASSUME ConversationTypeOK, ChatInv, NEW v \in 0 .. MaxAsk,
                        NEW m \in Range(history[v])
                 PROVE  outcome[m.ask] \in {<<"whole">>, <<"cut">>}
      BY DEF SavedCompleted
    <2>1. DOMAIN history[v] = 1 .. Len(history[v])
      BY DEF ConversationTypeOK
    <2>2. PICK i \in 1 .. Len(history[v]) : m = history[v][i]
      BY <2>1 DEF Range
    <2>3. m.ask \in Copied
      BY <2>2 DEF Copied, AsksOf
    <2> QED
      BY <2>3 DEF ChatInv, CopiedOK
  <1> QED
    BY <1>1, QuestionsFollowed, PTL

(* A stop is read only between two answers and the flag is cleared with    *)
(* the next question: no answer is ever cut.                               *)
THEOREM StopsNeverCut == ConversationSpec => []NoLateCut
  <1>1. ConversationTypeOK /\ ChatInv => NoLateCut
    <2> SUFFICES ASSUME ConversationTypeOK, ChatInv, NEW k \in Ask
                 PROVE  "cut" \notin Range(outcome[k])
      BY DEF NoLateCut
    <2>1. /\ "cut" \notin Range(<<>>) /\ "cut" \notin Range(<<"whole">>)
          /\ "cut" \notin Range(<<"error">>)
      BY DEF Range
    <2> QED
      BY <2>1 DEF ChatInv, OutcomesOK
  <1> QED
    BY <1>1, QuestionsFollowed, PTL
=============================================================================
