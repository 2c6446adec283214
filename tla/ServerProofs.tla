---------------------------- MODULE ServerProofs ----------------------------
(***************************************************************************)
(* What Server promises, for every number of connections and every bound:  *)
(* types, the database that a client made, and what a client reads from    *)
(* its connection.                                                         *)
(***************************************************************************)
EXTENDS Server, FiniteSetTheorems, TLAPS

(* TypeOK says nothing of the domains of the functions                     *)
Shapes ==
  /\ to_server \in [Conns -> Seq(Message)]
  /\ to_client \in [Conns -> Seq(Piece)]
  /\ closed \in [Conns -> SUBSET Ends]
  /\ handler \in [Conns -> Places]
  /\ stream \in [Conns -> Stream]
  /\ sending \in [Conns -> [Threads -> Pong \union {NoPong}]]
  /\ asked \in [Conns -> 0 .. MaxAsked]

Databases ==
  /\ sessions \subseteq Conns
  /\ attached \subseteq sessions
  /\ db \in OnDisk
  /\ made \in BOOLEAN /\ running \in BOOLEAN

TypeInv == Shapes /\ Databases

-----------------------------------------------------------------------------
(* Types                                                                   *)

(* The bounds are numbers: zero is in their ranges                         *)
LEMMA Bounds ==
  /\ MaxAsked \in Nat /\ MaxUnread \in Nat /\ MaxChunks \in Nat
  /\ NoConn \notin Conns
  /\ 0 \in 0 .. MaxAsked /\ 0 \in 0 .. MaxChunks
  BY ServerAssumption

(* A started server is well typed                                          *)
LEMMA TypeInit == Init => TypeInv
<1> SUFFICES ASSUME Init PROVE TypeInv
  OBVIOUS
<1>1. NoStream \in Stream
  BY Bounds DEF NoStream, Stream
<1>2. Shapes
  BY <1>1, Bounds DEF Init, Shapes, Places
<1>3. Databases
  BY DEF Init, Databases
<1> QED BY <1>2, <1>3 DEF TypeInv

(* send keeps the types of what the client gets, and the process does not  *)
(* come back                                                               *)
LEMMA DeliverTypes ==
  ASSUME TypeInv, NEW c \in Conns, NEW pieces \in Seq(Piece), Deliver(c, pieces)
  PROVE  /\ to_client' \in [Conns -> Seq(Piece)]
         /\ running' \in BOOLEAN
         /\ IF "client" \in closed[c]
              THEN to_client' = to_client
              ELSE to_client'[c] = to_client[c] \o pieces
         /\ \A d \in Conns \ {c} : to_client'[d] = to_client[d]
<1>1. to_client \in [Conns -> Seq(Piece)] /\ running \in BOOLEAN
  BY DEF TypeInv, Shapes, Databases
<1>2. to_client[c] \o pieces \in Seq(Piece)
  BY <1>1
<1> QED BY <1>1, <1>2 DEF Deliver

(* An answer is two pieces                                                 *)
LEMMA AnswerPieces ==
  ASSUME NEW err \in Codes, NEW request \in 0 .. MaxAsked
  PROVE  /\ Length(err, request) \in Piece /\ Body(err, request) \in Piece
         /\ <<Length(err, request), Body(err, request)>> \in Seq(Piece)
  BY DEF Length, Body, Piece

(* The message that is read is one, and what is left are messages; what    *)
(* parse makes of it is one too, and its type tells whether it was         *)
(* malformed                                                               *)
LEMMA HeadTypes ==
  ASSUME TypeInv, NEW c \in Conns, Incoming(c), Received(c)
  PROVE  /\ Head(to_server[c]) \in Message
         /\ Parse(Head(to_server[c])) \in Message
         /\ Parse(Head(to_server[c])).type # "CLOSE"
              => Parse(Head(to_server[c])) = Head(to_server[c])
         /\ Parse(Head(to_server[c])).request \in {0, Head(to_server[c]).request}
         /\ to_server[c] \in Seq(Message) /\ to_server[c] # <<>>
         /\ to_server' \in [Conns -> Seq(Message)]
         /\ to_server'[c] = Tail(to_server[c])
         /\ \A d \in Conns \ {c} : to_server'[d] = to_server[d]
<1>1. to_server \in [Conns -> Seq(Message)] /\ to_server[c] \in Seq(Message) /\ to_server[c] # <<>>
  BY DEF TypeInv, Shapes, Incoming
<1>2. Head(to_server[c]) \in Message /\ Tail(to_server[c]) \in Seq(Message)
  BY <1>1
<1>3. [type |-> "CLOSE", request |-> 0, session |-> NoConn] \in Message
  BY Bounds DEF Message, Requests
<1>4. /\ to_server' \in [Conns -> Seq(Message)]
      /\ to_server'[c] = Tail(to_server[c])
      /\ \A d \in Conns \ {c} : to_server'[d] = to_server[d]
  BY <1>1, <1>2 DEF Received
<1> QED BY <1>1, <1>2, <1>3, <1>4 DEF Parse

-----------------------------------------------------------------------------
(* What an action does to the connections                                  *)

(* Nothing of connection c changes, except that it may lose its reader     *)
Kept(c) ==
  /\ to_server'[c] = to_server[c] /\ to_client'[c] = to_client[c]
  /\ "client" \in closed'[c] <=> "client" \in closed[c]
  /\ handler'[c] = handler[c]
  /\ stream'[c] = stream[c] /\ sending'[c] = sending[c]
  /\ asked'[c] = asked[c]

Elsewhere(c) == \A d \in Conns \ {c} : Kept(d)

(* The pieces reach the client, unless it has gone                         *)
Delivers(c, pieces) ==
  to_client'[c] = IF "client" \in closed[c] THEN to_client[c] ELSE to_client[c] \o pieces

(* The handler takes a message and answers it, or the null request         *)
Answers(c) ==
  /\ {handler[c], handler'[c]} \subseteq Places \ {"streaming"}
  /\ to_server[c] # <<>> /\ to_server'[c] = Tail(to_server[c])
  /\ stream'[c] = stream[c] /\ sending'[c] = sending[c] /\ asked'[c] = asked[c]
  /\ "client" \in closed'[c] <=> "client" \in closed[c]
  /\ \E err \in {"SUCCESS"} \union ErrorCodes : \E r \in {0, Head(to_server[c]).request} :
       Delivers(c, <<Length(err, r), Body(err, r)>>)

(* The handler takes a query and starts the threads that send its result   *)
Begins(c) ==
  /\ handler[c] # "streaming" /\ handler'[c] = "streaming"
  /\ to_server[c] # <<>> /\ to_server'[c] = Tail(to_server[c])
  /\ to_client'[c] = to_client[c] /\ closed'[c] = closed[c]
  /\ sending'[c] = sending[c] /\ asked'[c] = asked[c]
  /\ stream'[c].request = Head(to_server[c]).request
  /\ stream'[c].cancelled = FALSE /\ stream'[c].cancel = 0
  /\ stream'[c].streamer = "starting" /\ stream'[c].canceller = "receiving"

(* The handler takes a message or none, and answers nothing                *)
Silent(c) ==
  /\ {handler[c], handler'[c]} \subseteq Places \ {"streaming"}
  /\ \/ to_server'[c] = to_server[c]
     \/ to_server[c] # <<>> /\ to_server'[c] = Tail(to_server[c])
  /\ to_client'[c] = to_client[c]
  /\ stream'[c] = stream[c] /\ sending'[c] = sending[c] /\ asked'[c] = asked[c]
  /\ "client" \in closed'[c] <=> "client" \in closed[c]

(* The server closes a connection, or does not: the client's end stays     *)
LEMMA ServerCloses ==
  ASSUME TypeInv, NEW c \in Conns,
         closed' = closed \/ closed' = [closed EXCEPT ![c] = @ \union {"server"}]
  PROVE  /\ closed' \in [Conns -> SUBSET Ends]
         /\ "client" \in closed'[c] <=> "client" \in closed[c]
         /\ \A d \in Conns \ {c} : closed'[d] = closed[d]
<1>1. closed \in [Conns -> SUBSET Ends]
  BY DEF TypeInv, Shapes
<1>2. closed[c] \union {"server"} \in SUBSET Ends
  BY <1>1 DEF Ends
<1>3. CASE closed' = closed
  BY <1>1, <1>3
<1>4. CASE closed' = [closed EXCEPT ![c] = @ \union {"server"}]
  <2>1. closed' \in [Conns -> SUBSET Ends]
    BY <1>1, <1>2, <1>4
  <2>2. closed'[c] = closed[c] \union {"server"}
    BY <1>1, <1>4
  <2>3. \A d \in Conns \ {c} : closed'[d] = closed[d]
    BY <1>1, <1>4
  <2> QED BY <2>1, <2>2, <2>3
<1> QED BY <1>3, <1>4

(* An answer of the handler changes nothing else of a connection but where *)
(* the handler is and whether the server has closed it                     *)
LEMMA AnswerDoes ==
  ASSUME TypeInv, NEW c \in Conns, Incoming(c), Received(c), handler[c] \in {"ping", "loop"},
         NEW h \in Places \ {"streaming"}, handler' = [handler EXCEPT ![c] = h],
         closed' = closed \/ closed' = [closed EXCEPT ![c] = @ \union {"server"}],
         NEW err \in {"SUCCESS"} \union ErrorCodes, NEW r \in {0, Head(to_server[c]).request},
         Answer(c, err, r), UNCHANGED <<stream, sending, asked>>
  PROVE  Shapes' /\ running' \in BOOLEAN /\ Elsewhere(c) /\ Answers(c)
<1>1. r \in 0 .. MaxAsked
  BY HeadTypes, Bounds DEF Message
<1>2. <<Length(err, r), Body(err, r)>> \in Seq(Piece)
  BY <1>1, AnswerPieces DEF Codes
<1>3. /\ to_client' \in [Conns -> Seq(Piece)] /\ running' \in BOOLEAN
      /\ Delivers(c, <<Length(err, r), Body(err, r)>>)
      /\ \A d \in Conns \ {c} : to_client'[d] = to_client[d]
  BY <1>2, DeliverTypes DEF Answer, Delivers
<1>4. /\ closed' \in [Conns -> SUBSET Ends]
      /\ "client" \in closed'[c] <=> "client" \in closed[c]
      /\ \A d \in Conns \ {c} : closed'[d] = closed[d]
  BY ServerCloses
<1>5. /\ handler' \in [Conns -> Places]
      /\ {handler[c], handler'[c]} \subseteq Places \ {"streaming"}
      /\ \A d \in Conns \ {c} : handler'[d] = handler[d]
  BY DEF TypeInv, Shapes, Places
<1>6. /\ to_server[c] # <<>>
      /\ to_server' \in [Conns -> Seq(Message)]
      /\ to_server'[c] = Tail(to_server[c])
      /\ \A d \in Conns \ {c} : to_server'[d] = to_server[d]
  BY HeadTypes
<1>7. Shapes'
  BY <1>3, <1>4, <1>5, <1>6 DEF TypeInv, Shapes
<1>8. Elsewhere(c)
  BY <1>3, <1>4, <1>5, <1>6 DEF Elsewhere, Kept
<1>9. Answers(c)
  BY <1>3, <1>4, <1>5, <1>6 DEF Answers
<1> QED BY <1>3, <1>7, <1>8, <1>9

(* handle_client reads a first message: the session is made, or refused    *)
LEMMA AcceptPingDoes ==
  ASSUME TypeInv, NEW c \in Conns, AcceptPing(c)
  PROVE  TypeInv' /\ Elsewhere(c) /\ Answers(c)
<1> DEFINE m == Parse(Head(to_server[c]))
<1>1. /\ Incoming(c) /\ Received(c) /\ handler[c] = "ping"
      /\ UNCHANGED <<attached, db, made, stream, sending, asked>>
  BY DEF AcceptPing
<1>2. m.request \in {0, Head(to_server[c]).request}
  BY <1>1, HeadTypes
<1>3. /\ "loop" \in Places \ {"streaming"} /\ "done" \in Places \ {"streaming"}
      /\ "PROTOCOL_VIOLATION" \in ErrorCodes
  BY DEF Places, ErrorCodes
<1>4. CASE m.type = "PING"
  <2>1. Answer(c, "SUCCESS", m.request) /\ sessions' = sessions \union {c}
        /\ handler' = [handler EXCEPT ![c] = "loop"] /\ closed' = closed
    BY <1>4 DEF AcceptPing
  <2>2. Shapes' /\ running' \in BOOLEAN /\ Elsewhere(c) /\ Answers(c)
    BY <1>1, <1>2, <1>3, <2>1, AnswerDoes
  <2> QED BY <1>1, <2>1, <2>2 DEF TypeInv, Databases
<1>5. CASE m.type # "PING"
  <2>1. /\ Answer(c, "PROTOCOL_VIOLATION", 0) /\ sessions' = sessions
        /\ handler' = [handler EXCEPT ![c] = "done"]
        /\ closed' = [closed EXCEPT ![c] = @ \union {"server"}]
    BY <1>5 DEF AcceptPing
  <2>2. Shapes' /\ running' \in BOOLEAN /\ Elsewhere(c) /\ Answers(c)
    BY <1>1, <1>3, <2>1, AnswerDoes
  <2> QED BY <1>1, <2>1, <2>2 DEF TypeInv, Databases
<1> QED BY <1>4, <1>5

(* send_pong_and_stop answers                                              *)
LEMMA PongAndStopDoes ==
  ASSUME TypeInv, NEW c \in Conns, Incoming(c), Received(c), handler[c] = "loop",
         NEW err \in ErrorCodes, NEW r \in {0, Head(to_server[c]).request},
         PongAndStop(c, err, r), UNCHANGED <<stream, sending, asked>>
  PROVE  Shapes' /\ running' \in BOOLEAN /\ Elsewhere(c) /\ Answers(c)
<1>1. "leaving" \in Places \ {"streaming"}
  BY DEF Places
<1> QED BY <1>1, AnswerDoes DEF PongAndStop

(* The guard of handle_message's branches                                  *)
LEMMA LoopDoes ==
  ASSUME TypeInv, NEW c \in Conns, NEW types, Loop(c, types)
  PROVE  /\ running /\ Incoming(c) /\ Received(c) /\ handler[c] = "loop"
         /\ Parse(Head(to_server[c])).request \in {0, Head(to_server[c]).request}
         /\ Head(to_server[c]).request \in 0 .. MaxAsked
         /\ "CLOSE" \notin types => Head(to_server[c]).type \in types
  BY HeadTypes DEF Loop, Message

(* handle_message refuses a message, or a session                          *)
LEMMA RefuseDoes ==
  ASSUME TypeInv, NEW c \in Conns, RefuseMessage(c) \/ RefuseSession(c)
  PROVE  TypeInv' /\ Elsewhere(c) /\ Answers(c)
<1>1. "PROTOCOL_VIOLATION" \in ErrorCodes /\ "UNINITIALIZED_SESSION" \in ErrorCodes
  BY DEF ErrorCodes
<1>2. UNCHANGED <<sessions, attached, db, made, stream, sending, asked>>
  BY DEF RefuseMessage, RefuseSession, databases
<1>3. Shapes' /\ running' \in BOOLEAN /\ Elsewhere(c) /\ Answers(c)
  <2>1. CASE RefuseMessage(c)
    BY <1>1, <1>2, <2>1, LoopDoes, PongAndStopDoes DEF RefuseMessage
  <2>2. CASE RefuseSession(c)
    BY <1>1, <1>2, <2>2, LoopDoes, PongAndStopDoes DEF RefuseSession
  <2> QED BY <2>1, <2>2
<1> QED BY <1>2, <1>3 DEF TypeInv, Databases

(* set_db_instance keeps the types                                         *)
LEMMA SetDbInstanceTypes ==
  ASSUME TypeInv, NEW x \in sessions, SetDbInstance(x)
  PROVE  db' \in OnDisk /\ attached' \subseteq sessions /\ attached' # {}
  BY DEF SetDbInstance, Directory, TypeInv, Databases, OnDisk

(* CREATE_DB and ATTACH_DB are answered                                    *)
LEMMA HandleDbDoes ==
  ASSUME TypeInv, NEW c \in Conns, HandleDb(c)
  PROVE  TypeInv' /\ Elsewhere(c) /\ Answers(c)
<1> DEFINE m == Head(to_server[c])
           opens == m.type = "CREATE_DB" \/ db = "attachable"
           err == IF opens THEN "SQL_ERROR" ELSE "DB_NOT_EXISTS"
<1>1. /\ Incoming(c) /\ Received(c) /\ handler[c] = "loop"
      /\ m.session \in sessions
      /\ UNCHANGED <<sessions, stream, sending, asked>>
  BY LoopDoes DEF HandleDb
<1>2. "loop" \in Places \ {"streaming"} /\ err \in ErrorCodes
  BY DEF Places, ErrorCodes
<1>3. CASE /\ SetDbInstance(m.session) /\ Answer(c, "SUCCESS", m.request)
           /\ made' = (made \/ m.type = "CREATE_DB") /\ UNCHANGED <<closed, handler>>
  <2>1. handler' = [handler EXCEPT ![c] = "loop"]
    BY <1>1, <1>3 DEF TypeInv, Shapes
  <2>2. Shapes' /\ running' \in BOOLEAN /\ Elsewhere(c) /\ Answers(c)
    BY <1>1, <1>2, <1>3, <2>1, AnswerDoes
  <2>3. db' \in OnDisk /\ attached' \subseteq sessions
    BY <1>1, <1>3, SetDbInstanceTypes
  <2> QED BY <1>1, <1>3, <2>2, <2>3 DEF TypeInv, Databases
<1>4. CASE /\ PongAndStop(c, err, m.request)
           /\ \/ opens /\ SetDbInstance(m.session)
              \/ db' \in {db, IF opens THEN Directory ELSE db} /\ UNCHANGED attached
           /\ UNCHANGED made
  <2>1. Shapes' /\ running' \in BOOLEAN /\ Elsewhere(c) /\ Answers(c)
    BY <1>1, <1>2, <1>4, PongAndStopDoes
  <2>2. db' \in OnDisk /\ attached' \subseteq sessions
    BY <1>1, <1>4, SetDbInstanceTypes DEF Directory, TypeInv, Databases, OnDisk
  <2> QED BY <1>1, <1>4, <2>1, <2>2 DEF TypeInv, Databases
<1> QED BY <1>3, <1>4 DEF HandleDb

(* handle_stream starts                                                    *)
LEMMA BeginStreamDoes ==
  ASSUME TypeInv, NEW c \in Conns, Incoming(c), Received(c), handler[c] = "loop",
         NEW sizes \in SUBSET (0 .. MaxChunks), BeginStream(c, Head(to_server[c]).request, sizes),
         UNCHANGED <<sending, asked>>
  PROVE  Shapes' /\ running' = running /\ Elsewhere(c) /\ Begins(c)
<1> DEFINE r == Head(to_server[c]).request
<1>1. r \in 0 .. MaxAsked
  BY HeadTypes DEF Message
<1>2. PICK chunks \in sizes :
        stream' = [stream EXCEPT ![c] =
          [NoStream EXCEPT !.request = r, !.left = chunks,
                           !.streamer = "starting", !.canceller = "receiving"]]
  BY DEF BeginStream
<1> DEFINE x == [NoStream EXCEPT !.request = r, !.left = chunks,
                                 !.streamer = "starting", !.canceller = "receiving"]
<1>3. /\ x \in Stream
      /\ x.request = r /\ x.cancelled = FALSE /\ x.cancel = 0
      /\ x.streamer = "starting" /\ x.canceller = "receiving"
  BY <1>1, Bounds DEF NoStream, Stream
<1>4. /\ stream' \in [Conns -> Stream] /\ stream'[c] = x
      /\ \A d \in Conns \ {c} : stream'[d] = stream[d]
  <2> HIDE DEF x
  <2>1. stream' = [stream EXCEPT ![c] = x]
    BY <1>2 DEF x
  <2> QED BY <1>3, <2>1 DEF TypeInv, Shapes
<1>5. /\ handler' \in [Conns -> Places] /\ handler'[c] = "streaming"
      /\ \A d \in Conns \ {c} : handler'[d] = handler[d]
  BY DEF BeginStream, TypeInv, Shapes, Places
<1>6. UNCHANGED <<to_client, closed, running>>
  BY DEF BeginStream
<1> HIDE DEF x
<1>7. Shapes' /\ running' = running
  BY <1>4, <1>5, <1>6, HeadTypes DEF TypeInv, Shapes
<1>8. Elsewhere(c)
  BY <1>4, <1>5, <1>6, HeadTypes DEF Elsewhere, Kept
<1>9. Begins(c)
  BY <1>3, <1>4, <1>5, <1>6, HeadTypes DEF Begins
<1> QED BY <1>7, <1>8, <1>9

(* A query that never returns is not answered                              *)
LEMMA NeverReturnsDoes ==
  ASSUME TypeInv, NEW c \in Conns, Incoming(c), Received(c), handler[c] = "loop", NeverReturns(c),
         UNCHANGED <<stream, sending, asked>>
  PROVE  Shapes' /\ running' \in BOOLEAN /\ Elsewhere(c) /\ Silent(c)
<1>1. closed' = closed /\ to_client' = to_client /\ running' \in BOOLEAN
  BY DEF NeverReturns, TypeInv, Databases
<1>2. /\ handler' \in [Conns -> Places]
      /\ {handler[c], handler'[c]} \subseteq Places \ {"streaming"}
      /\ \A d \in Conns \ {c} : handler'[d] = handler[d]
  BY DEF NeverReturns, TypeInv, Shapes, Places
<1>3. /\ to_server' \in [Conns -> Seq(Message)]
      /\ to_server[c] # <<>> /\ to_server'[c] = Tail(to_server[c])
      /\ \A d \in Conns \ {c} : to_server'[d] = to_server[d]
  BY HeadTypes
<1>4. Shapes'
  BY <1>1, <1>2, <1>3 DEF TypeInv, Shapes
<1>5. Elsewhere(c)
  BY <1>1, <1>2, <1>3 DEF Elsewhere, Kept
<1>6. Silent(c)
  BY <1>1, <1>2, <1>3 DEF Silent
<1> QED BY <1>1, <1>4, <1>5, <1>6

(* A query is answered with an error or with a stream, or never returns    *)
LEMMA HandleQueryDoes ==
  ASSUME TypeInv, NEW c \in Conns, HandleQuery(c)
  PROVE  TypeInv' /\ Elsewhere(c) /\ (Answers(c) \/ Begins(c) \/ Silent(c))
<1> DEFINE m == Head(to_server[c])
<1>1. /\ Incoming(c) /\ Received(c) /\ handler[c] = "loop"
      /\ UNCHANGED <<sessions, attached, sending, asked>>
  BY LoopDoes DEF HandleQuery
<1>2. "SQL_ERROR" \in ErrorCodes
  BY DEF ErrorCodes
<1>3. CASE BeginStream(c, m.request, 0 .. MaxChunks) /\ UNCHANGED <<db, made>>
  <2>1. Shapes' /\ running' = running /\ Elsewhere(c) /\ Begins(c)
    BY <1>1, <1>3, BeginStreamDoes
  <2> QED BY <1>1, <1>3, <2>1 DEF TypeInv, Databases
<1>4. CASE BeginStream(c, m.request, {0}) /\ db' = "attachable" /\ made' = TRUE
  <2>1. {0} \in SUBSET (0 .. MaxChunks)
    BY Bounds
  <2>2. Shapes' /\ running' = running /\ Elsewhere(c) /\ Begins(c)
    BY <1>1, <1>4, <2>1, BeginStreamDoes
  <2> QED BY <1>1, <1>4, <2>2 DEF TypeInv, Databases, OnDisk
<1>5. CASE PongAndStop(c, "SQL_ERROR", m.request) /\ db' \in {db, Directory} /\ UNCHANGED <<stream, made>>
  <2>1. Shapes' /\ running' \in BOOLEAN /\ Elsewhere(c) /\ Answers(c)
    BY <1>1, <1>2, <1>5, PongAndStopDoes
  <2> QED BY <1>1, <1>5, <2>1 DEF TypeInv, Databases, Directory, OnDisk
<1>6. CASE NeverReturns(c) /\ UNCHANGED <<db, made, stream>>
  <2>1. Shapes' /\ running' \in BOOLEAN /\ Elsewhere(c) /\ Silent(c)
    BY <1>1, <1>6, NeverReturnsDoes
  <2> QED BY <1>1, <1>6, <2>1 DEF TypeInv, Databases
<1> QED BY <1>3, <1>4, <1>5, <1>6 DEF HandleQuery

(* The handler goes on without an answer                                   *)
LEMMA SilentDoes ==
  ASSUME TypeInv, NEW c \in Conns, handler[c] \in Places \ {"streaming"},
         NEW h \in Places \ {"streaming"}, handler' = [handler EXCEPT ![c] = h],
         closed' = [closed EXCEPT ![c] = @ \union {"server"}],
         to_server' = to_server \/ (Incoming(c) /\ Received(c)),
         UNCHANGED <<to_client, stream, sending, asked>>
  PROVE  Shapes' /\ Elsewhere(c) /\ Silent(c)
<1>1. /\ closed' \in [Conns -> SUBSET Ends]
      /\ "client" \in closed'[c] <=> "client" \in closed[c]
      /\ \A d \in Conns \ {c} : closed'[d] = closed[d]
  BY ServerCloses
<1>2. /\ handler' \in [Conns -> Places]
      /\ {handler[c], handler'[c]} \subseteq Places \ {"streaming"}
      /\ \A d \in Conns \ {c} : handler'[d] = handler[d]
  BY DEF TypeInv, Shapes
<1>3. /\ to_server' \in [Conns -> Seq(Message)]
      /\ \/ to_server'[c] = to_server[c]
         \/ to_server[c] # <<>> /\ to_server'[c] = Tail(to_server[c])
      /\ \A d \in Conns \ {c} : to_server'[d] = to_server[d]
  BY HeadTypes DEF TypeInv, Shapes
<1>4. Shapes'
  BY <1>1, <1>2, <1>3 DEF TypeInv, Shapes
<1>5. Elsewhere(c)
  BY <1>1, <1>2, <1>3 DEF Elsewhere, Kept
<1>6. Silent(c)
  BY <1>1, <1>2, <1>3 DEF Silent
<1> QED BY <1>4, <1>5, <1>6

(* A session is closed, the connection is lost, or handle_client ends      *)
LEMMA LeavingDoes ==
  ASSUME TypeInv, NEW c \in Conns, HandleClose(c) \/ Disconnect(c) \/ Leave(c)
  PROVE  TypeInv' /\ Elsewhere(c) /\ Silent(c)
<1>1. "leaving" \in Places \ {"streaming"} /\ "done" \in Places \ {"streaming"}
      /\ "loop" \in Places \ {"streaming"} /\ "ping" \in Places \ {"streaming"}
  BY DEF Places
<1>2. Shapes' /\ Elsewhere(c) /\ Silent(c)
  <2>1. CASE HandleClose(c)
    BY <1>1, <2>1, LoopDoes, SilentDoes DEF HandleClose
  <2>2. CASE Disconnect(c)
    <3>1. /\ handler[c] \in Places \ {"streaming"}
          /\ \E h \in Places \ {"streaming"} : handler' = [handler EXCEPT ![c] = h]
      BY <1>1, <2>2 DEF Disconnect
    <3> QED BY <2>2, <3>1, SilentDoes DEF Disconnect
  <2>3. CASE Leave(c)
    BY <1>1, <2>3, SilentDoes DEF Leave
  <2> QED BY <2>1, <2>2, <2>3
<1>3. Databases'
  <2>1. CASE HandleClose(c)
    BY <2>1 DEF HandleClose, Destroy, OnDisk, TypeInv, Databases
  <2>2. CASE Disconnect(c)
    BY <2>2 DEF Disconnect, databases, TypeInv, Databases
  <2>3. CASE Leave(c)
    BY <2>3 DEF Leave, Destroy, OnDisk, TypeInv, Databases
  <2> QED BY <2>1, <2>2, <2>3
<1> QED BY <1>2, <1>3 DEF TypeInv

(* In a stream, only its threads do something                              *)
Streaming(c) ==
  /\ handler[c] = "streaming" /\ handler'[c] = "streaming"
  /\ closed'[c] = closed[c] /\ asked'[c] = asked[c]

(* A thread sends the length of a message, its body is to follow           *)
Sends(c, t, err, request) ==
  /\ Streaming(c) /\ to_server'[c] = to_server[c]
  /\ Delivers(c, <<Length(err, request)>>)
  /\ sending'[c] = [sending[c] EXCEPT ![t] = [err |-> err, request |-> request]]

StreamerSends(c, from, err, to) ==
  /\ Sends(c, "streamer", err, stream[c].request)
  /\ stream[c].streamer = from /\ sending[c]["streamer"] = NoPong
  /\ stream'[c] = [stream[c] EXCEPT !.streamer = to]

CancellerSends(c) ==
  /\ Sends(c, "canceller", "SUCCESS", stream[c].cancel)
  /\ stream[c].canceller = "answering"
  /\ stream'[c] = [stream[c] EXCEPT !.canceller = "done"]

(* A thread sends the body of its message                                  *)
Finishes(c, t) ==
  /\ Streaming(c) /\ to_server'[c] = to_server[c] /\ stream'[c] = stream[c]
  /\ sending[c][t] # NoPong
  /\ Delivers(c, <<Body(sending[c][t].err, sending[c][t].request)>>)
  /\ sending'[c] = [sending[c] EXCEPT ![t] = NoPong]

(* The streamer looks for a chunk                                          *)
Looks(c) ==
  /\ Streaming(c) /\ to_server'[c] = to_server[c]
  /\ to_client'[c] = to_client[c] /\ sending'[c] = sending[c]
  /\ stream[c].streamer = "looping" /\ sending[c]["streamer"] = NoPong
  /\ \/ ~stream[c].cancelled
        /\ stream'[c] = [stream[c] EXCEPT !.streamer = "has_chunk", !.left = stream[c].left - 1]
     \/ stream'[c] = [stream[c] EXCEPT !.streamer = "ending"]

(* The canceller takes a CANCEL_STREAM, or returns                         *)
Takes(c) ==
  /\ Streaming(c)
  /\ to_client'[c] = to_client[c] /\ sending'[c] = sending[c]
  /\ stream[c].canceller = "receiving"
  /\ \/ /\ to_server[c] # <<>> /\ to_server'[c] = Tail(to_server[c])
        /\ \/ stream'[c] = [stream[c] EXCEPT !.cancelled = TRUE, !.canceller = "answering",
                                             !.cancel = Head(to_server[c]).request]
           \/ stream'[c] = [stream[c] EXCEPT !.canceller = "done"]
     \/ /\ to_server'[c] = to_server[c]
        /\ stream'[c] = [stream[c] EXCEPT !.cancelled = TRUE, !.stop = TRUE, !.canceller = "done"]

(* Both threads have returned                                              *)
Joins(c) ==
  /\ handler[c] = "streaming" /\ handler'[c] \in Places \ {"streaming"}
  /\ to_server'[c] = to_server[c] /\ to_client'[c] = to_client[c]
  /\ closed'[c] = closed[c] /\ asked'[c] = asked[c] /\ sending'[c] = sending[c]
  /\ stream[c].streamer = "done" /\ \A t \in Threads : sending[c][t] = NoPong
  /\ stream'[c] = NoStream

(* One entry of the table of streams changes                               *)
LEMMA StreamChanges ==
  ASSUME TypeInv, NEW c \in Conns, NEW x \in Stream, stream' = [stream EXCEPT ![c] = x]
  PROVE  /\ stream' \in [Conns -> Stream] /\ stream'[c] = x
         /\ \A d \in Conns \ {c} : stream'[d] = stream[d]
  BY DEF TypeInv, Shapes

(* send_message in a thread: what it changes                               *)
LEMMA BeginSendDoes ==
  ASSUME TypeInv, NEW c \in Conns, NEW t \in Threads, NEW err \in Codes,
         NEW r \in 0 .. MaxAsked, BeginSend(c, t, err, r), InStream(c),
         UNCHANGED <<to_server, closed, handler, asked>>
  PROVE  /\ to_client' \in [Conns -> Seq(Piece)] /\ running' \in BOOLEAN
         /\ sending' \in [Conns -> [Threads -> Pong \union {NoPong}]]
         /\ Sends(c, t, err, r)
         /\ \A d \in Conns \ {c} : to_client'[d] = to_client[d] /\ sending'[d] = sending[d]
<1>1. <<Length(err, r)>> \in Seq(Piece)
  BY AnswerPieces
<1>2. /\ to_client' \in [Conns -> Seq(Piece)] /\ running' \in BOOLEAN
      /\ Delivers(c, <<Length(err, r)>>)
      /\ \A d \in Conns \ {c} : to_client'[d] = to_client[d]
  BY <1>1, DeliverTypes DEF BeginSend, Delivers
<1> DEFINE p == [err |-> err, request |-> r]
<1>3. p \in Pong
  BY DEF Pong
<1>4. sending' = [sending EXCEPT ![c][t] = p]
  BY DEF BeginSend
<1>5. sending \in [Conns -> [Threads -> Pong \union {NoPong}]]
  BY DEF TypeInv, Shapes
<1> HIDE DEF p
<1>6. sending' \in [Conns -> [Threads -> Pong \union {NoPong}]]
  BY <1>3, <1>4, <1>5
<1>7. /\ sending'[c] = [sending[c] EXCEPT ![t] = p]
      /\ \A d \in Conns \ {c} : sending'[d] = sending[d]
  BY <1>4, <1>5
<1> USE DEF p
<1> QED BY <1>2, <1>6, <1>7 DEF Sends, Streaming, InStream

(* The streamer sends                                                      *)
LEMMA StreamerSendsDoes ==
  ASSUME TypeInv, NEW c \in Conns, StreamStart(c) \/ StreamChunk(c) \/ StreamEnd(c)
  PROVE  /\ TypeInv' /\ Elsewhere(c)
         /\ \/ StreamerSends(c, "starting", "START_STREAM", "looping")
            \/ StreamerSends(c, "has_chunk", "STREAM_CHUNK", "looping")
            \/ StreamerSends(c, "ending", "END_STREAM", "done")
<1>1. PICK from, err, to :
        /\ \/ from = "starting" /\ err = "START_STREAM" /\ to = "looping"
           \/ from = "has_chunk" /\ err = "STREAM_CHUNK" /\ to = "looping"
           \/ from = "ending" /\ err = "END_STREAM" /\ to = "done"
        /\ Streams(c, from)
        /\ BeginSend(c, "streamer", err, stream[c].request)
        /\ stream' = [stream EXCEPT ![c].streamer = to]
        /\ UNCHANGED <<to_server, closed, handler, sessions, attached, db, made, asked>>
  BY DEF StreamStart, StreamChunk, StreamEnd, databases
<1>2. stream[c] \in Stream /\ stream[c].request \in 0 .. MaxAsked
  BY DEF TypeInv, Shapes, Stream
<1>3. "streamer" \in Threads /\ err \in Codes /\ to \in {"looping", "done"}
  BY <1>1 DEF Threads, Codes
<1>4. /\ to_client' \in [Conns -> Seq(Piece)] /\ running' \in BOOLEAN
      /\ sending' \in [Conns -> [Threads -> Pong \union {NoPong}]]
      /\ Sends(c, "streamer", err, stream[c].request)
      /\ \A d \in Conns \ {c} : to_client'[d] = to_client[d] /\ sending'[d] = sending[d]
  BY <1>1, <1>2, <1>3, BeginSendDoes DEF Streams
<1> DEFINE x == [stream[c] EXCEPT !.streamer = to]
<1>5. x \in Stream
  BY <1>2, <1>3 DEF Stream
<1>6. stream' = [stream EXCEPT ![c] = x]
  BY <1>1
<1> HIDE DEF x
<1>7. /\ stream' \in [Conns -> Stream] /\ stream'[c] = x
      /\ \A d \in Conns \ {c} : stream'[d] = stream[d]
  BY <1>5, <1>6, StreamChanges
<1>8. StreamerSends(c, from, err, to)
  BY <1>1, <1>4, <1>7 DEF StreamerSends, Streams, x
<1>9. TypeInv'
  BY <1>1, <1>4, <1>7 DEF TypeInv, Shapes, Databases
<1>10. Elsewhere(c)
  BY <1>1, <1>4, <1>7 DEF Elsewhere, Kept
<1> QED BY <1>1, <1>8, <1>9, <1>10

(* The canceller sends                                                     *)
LEMMA CancelAnswersDoes ==
  ASSUME TypeInv, NEW c \in Conns, CancelAnswers(c)
  PROVE  TypeInv' /\ Elsewhere(c) /\ CancellerSends(c)
<1>1. /\ InStream(c) /\ stream[c].canceller = "answering"
      /\ BeginSend(c, "canceller", "SUCCESS", stream[c].cancel)
      /\ stream' = [stream EXCEPT ![c].canceller = "done"]
      /\ UNCHANGED <<to_server, closed, handler, sessions, attached, db, made, asked>>
  BY DEF CancelAnswers, databases
<1>2. stream[c] \in Stream /\ stream[c].cancel \in 0 .. MaxAsked
  BY DEF TypeInv, Shapes, Stream
<1>3. "canceller" \in Threads /\ "SUCCESS" \in Codes
  BY DEF Threads, Codes
<1>4. /\ to_client' \in [Conns -> Seq(Piece)] /\ running' \in BOOLEAN
      /\ sending' \in [Conns -> [Threads -> Pong \union {NoPong}]]
      /\ Sends(c, "canceller", "SUCCESS", stream[c].cancel)
      /\ \A d \in Conns \ {c} : to_client'[d] = to_client[d] /\ sending'[d] = sending[d]
  BY <1>1, <1>2, <1>3, BeginSendDoes
<1> DEFINE x == [stream[c] EXCEPT !.canceller = "done"]
<1>5. x \in Stream
  BY <1>2 DEF Stream
<1>6. stream' = [stream EXCEPT ![c] = x]
  BY <1>1
<1> HIDE DEF x
<1>7. /\ stream' \in [Conns -> Stream] /\ stream'[c] = x
      /\ \A d \in Conns \ {c} : stream'[d] = stream[d]
  BY <1>5, <1>6, StreamChanges
<1>8. CancellerSends(c)
  BY <1>1, <1>4, <1>7 DEF CancellerSends, x
<1>9. TypeInv'
  BY <1>1, <1>4, <1>7 DEF TypeInv, Shapes, Databases
<1>10. Elsewhere(c)
  BY <1>1, <1>4, <1>7 DEF Elsewhere, Kept
<1> QED BY <1>8, <1>9, <1>10

(* A thread sends a body                                                   *)
LEMMA FinishSendDoes ==
  ASSUME TypeInv, NEW c \in Conns, NEW t \in Threads, FinishSend(c, t)
  PROVE  TypeInv' /\ Elsewhere(c) /\ Finishes(c, t)
<1> DEFINE p == sending[c][t]
<1>1. /\ InStream(c) /\ p # NoPong
      /\ Deliver(c, <<Body(p.err, p.request)>>)
      /\ sending' = [sending EXCEPT ![c][t] = NoPong]
      /\ UNCHANGED <<to_server, closed, handler, sessions, attached, db, made, stream, asked>>
  BY DEF FinishSend, databases
<1>2. sending \in [Conns -> [Threads -> Pong \union {NoPong}]]
  BY DEF TypeInv, Shapes
<1>3. p \in Pong
  BY <1>1, <1>2
<1>4. <<Body(p.err, p.request)>> \in Seq(Piece)
  <2>1. p.err \in Codes /\ p.request \in 0 .. MaxAsked
    BY <1>3 DEF Pong
  <2> QED BY <2>1, AnswerPieces
<1>5. /\ to_client' \in [Conns -> Seq(Piece)] /\ running' \in BOOLEAN
      /\ Delivers(c, <<Body(p.err, p.request)>>)
      /\ \A d \in Conns \ {c} : to_client'[d] = to_client[d]
  BY <1>1, <1>4, DeliverTypes DEF Delivers
<1>6. sending' \in [Conns -> [Threads -> Pong \union {NoPong}]]
  BY <1>1, <1>2
<1>7. /\ sending'[c] = [sending[c] EXCEPT ![t] = NoPong]
      /\ \A d \in Conns \ {c} : sending'[d] = sending[d]
  BY <1>1, <1>2
<1>8. TypeInv'
  BY <1>1, <1>5, <1>6 DEF TypeInv, Shapes, Databases
<1>9. Elsewhere(c)
  BY <1>1, <1>5, <1>7 DEF Elsewhere, Kept
<1>10. Finishes(c, t)
  BY <1>1, <1>5, <1>7 DEF Finishes, Streaming, InStream
<1> QED BY <1>8, <1>9, <1>10

(* The streamer looks for a chunk, or finds that the executor fails        *)
LEMMA StreamLoopDoes ==
  ASSUME TypeInv, NEW c \in Conns, StreamLoop(c) \/ StreamThrows(c)
  PROVE  TypeInv' /\ Elsewhere(c) /\ (Looks(c) \/ Kept(c))
<1>1. stream[c] \in Stream /\ stream \in [Conns -> Stream]
  BY DEF TypeInv, Shapes
<1>2. CASE StreamLoop(c)
  <2>1. /\ InStream(c) /\ stream[c].streamer = "looping" /\ sending[c]["streamer"] = NoPong
        /\ UNCHANGED <<to_server, to_client, closed, handler, sessions, attached, db, made,
                       sending, running, asked>>
    BY <1>2 DEF StreamLoop, Streams, databases
  <2> DEFINE x == IF MoreChunks(c)
                    THEN [stream[c] EXCEPT !.streamer = "has_chunk", !.left = stream[c].left - 1]
                    ELSE [stream[c] EXCEPT !.streamer = "ending"]
  <2>2. stream' = [stream EXCEPT ![c] = x]
    BY <1>1, <1>2 DEF StreamLoop
  <2>3. x \in Stream
    <3>1. CASE MoreChunks(c)
      <4>1. stream[c].left - 1 \in 0 .. MaxChunks
        BY <1>1, <3>1, Bounds DEF Stream, MoreChunks
      <4> QED BY <1>1, <3>1, <4>1 DEF Stream
    <3>2. CASE ~MoreChunks(c)
      BY <1>1, <3>2 DEF Stream
    <3> QED BY <3>1, <3>2
  <2> HIDE DEF x
  <2>4. /\ stream' \in [Conns -> Stream] /\ stream'[c] = x
        /\ \A d \in Conns \ {c} : stream'[d] = stream[d]
    BY <2>2, <2>3, StreamChanges
  <2>5. Looks(c)
    BY <2>1, <2>4 DEF Looks, Streaming, InStream, MoreChunks, x
  <2>6. TypeInv'
    BY <2>1, <2>4 DEF TypeInv, Shapes, Databases
  <2>7. Elsewhere(c)
    BY <2>1, <2>4 DEF Elsewhere, Kept
  <2> QED BY <2>5, <2>6, <2>7
<1>3. CASE StreamThrows(c)
  BY <1>3 DEF StreamThrows, databases, TypeInv, Shapes, Databases, Elsewhere, Kept
<1> QED BY <1>2, <1>3

(* The canceller takes a message, or finds the connection lost             *)
LEMMA CancelDoes ==
  ASSUME TypeInv, NEW c \in Conns, CancelReceives(c) \/ CancelDisconnects(c)
  PROVE  TypeInv' /\ Elsewhere(c) /\ Takes(c)
<1>1. stream[c] \in Stream /\ stream \in [Conns -> Stream]
  BY DEF TypeInv, Shapes
<1>2. CASE CancelReceives(c)
  <2> DEFINE m == Parse(Head(to_server[c]))
  <2>1. /\ InStream(c) /\ stream[c].canceller = "receiving" /\ Incoming(c) /\ Received(c)
        /\ UNCHANGED <<to_client, closed, handler, sessions, attached, db, made,
                       sending, running, asked>>
    BY <1>2 DEF CancelReceives, databases
  <2> DEFINE x == IF m.type = "CANCEL_STREAM" /\ m.session = c
                    THEN [stream[c] EXCEPT !.cancelled = TRUE, !.canceller = "answering",
                                           !.cancel = m.request]
                    ELSE [stream[c] EXCEPT !.canceller = "done"]
  <2>2. stream' = [stream EXCEPT ![c] = x]
    BY <1>1, <1>2 DEF CancelReceives
  <2>3. m \in Message /\ m.request \in 0 .. MaxAsked
        /\ (m.type # "CLOSE" => m = Head(to_server[c]))
    BY <2>1, HeadTypes DEF Message
  <2>4. x \in Stream
    <3> HIDE DEF m
    <3> QED BY <1>1, <2>3 DEF Stream
  <2>5. \/ x = [stream[c] EXCEPT !.cancelled = TRUE, !.canceller = "answering",
                                 !.cancel = Head(to_server[c]).request]
        \/ x = [stream[c] EXCEPT !.canceller = "done"]
    BY <2>3
  <2> HIDE DEF x
  <2>6. /\ stream' \in [Conns -> Stream] /\ stream'[c] = x
        /\ \A d \in Conns \ {c} : stream'[d] = stream[d]
    BY <2>2, <2>4, StreamChanges
  <2>7. Takes(c)
    BY <2>1, <2>5, <2>6, HeadTypes DEF Takes, Streaming, InStream
  <2>8. TypeInv'
    BY <2>1, <2>6, HeadTypes DEF TypeInv, Shapes, Databases
  <2>9. Elsewhere(c)
    BY <2>1, <2>6, HeadTypes DEF Elsewhere, Kept
  <2> QED BY <2>7, <2>8, <2>9
<1>3. CASE CancelDisconnects(c)
  <2>1. /\ InStream(c) /\ stream[c].canceller = "receiving"
        /\ UNCHANGED <<to_server, to_client, closed, handler, sessions, attached, db, made,
                       sending, running, asked>>
    BY <1>3 DEF CancelDisconnects, databases
  <2> DEFINE x == [stream[c] EXCEPT !.cancelled = TRUE, !.stop = TRUE, !.canceller = "done"]
  <2>2. stream' = [stream EXCEPT ![c] = x]
    BY <1>1, <1>3 DEF CancelDisconnects
  <2>3. x \in Stream
    BY <1>1 DEF Stream
  <2> HIDE DEF x
  <2>4. /\ stream' \in [Conns -> Stream] /\ stream'[c] = x
        /\ \A d \in Conns \ {c} : stream'[d] = stream[d]
    BY <2>2, <2>3, StreamChanges
  <2>5. Takes(c)
    BY <2>1, <2>4 DEF Takes, Streaming, InStream, x
  <2>6. TypeInv'
    BY <2>1, <2>4 DEF TypeInv, Shapes, Databases
  <2>7. Elsewhere(c)
    BY <2>1, <2>4 DEF Elsewhere, Kept
  <2> QED BY <2>5, <2>6, <2>7
<1> QED BY <1>2, <1>3

(* Both threads have returned: the handler goes on                         *)
LEMMA EndStreamDoes ==
  ASSUME TypeInv, NEW c \in Conns, EndStream(c)
  PROVE  TypeInv' /\ Elsewhere(c) /\ Joins(c)
<1>1. /\ InStream(c) /\ Joined(c)
      /\ handler' = [handler EXCEPT ![c] = IF stream[c].stop THEN "leaving" ELSE "loop"]
      /\ stream' = [stream EXCEPT ![c] = NoStream]
      /\ UNCHANGED <<to_server, to_client, closed, sessions, attached, db, made, sending,
                     running, asked>>
  BY DEF EndStream, databases
<1>2. NoStream \in Stream
  BY Bounds DEF NoStream, Stream
<1>3. /\ stream' \in [Conns -> Stream] /\ stream'[c] = NoStream
      /\ \A d \in Conns \ {c} : stream'[d] = stream[d]
  BY <1>1, <1>2, StreamChanges
<1>4. /\ handler' \in [Conns -> Places] /\ handler'[c] \in Places \ {"streaming"}
      /\ \A d \in Conns \ {c} : handler'[d] = handler[d]
  BY <1>1 DEF TypeInv, Shapes, Places
<1>5. TypeInv'
  BY <1>1, <1>3, <1>4 DEF TypeInv, Shapes, Databases
<1>6. Elsewhere(c)
  BY <1>1, <1>3, <1>4 DEF Elsewhere, Kept
<1>7. Joins(c)
  BY <1>1, <1>3, <1>4 DEF Joins, InStream, Joined
<1> QED BY <1>5, <1>6, <1>7

(* The client sends a message with the next number                         *)
Asks(c) ==
  /\ to_client'[c] = to_client[c] /\ closed'[c] = closed[c] /\ handler'[c] = handler[c]
  /\ stream'[c] = stream[c] /\ sending'[c] = sending[c]
  /\ asked'[c] = asked[c] + 1
  /\ \E m \in Message : m.request = asked[c] + 1 /\ to_server'[c] = Append(to_server[c], m)

(* The client closes, and the last of what it sent is lost                 *)
Goes(c) ==
  /\ to_client'[c] = to_client[c] /\ handler'[c] = handler[c]
  /\ stream'[c] = stream[c] /\ sending'[c] = sending[c] /\ asked'[c] = asked[c]
  /\ "client" \in closed'[c]
  /\ \E n \in 0 .. Len(to_server[c]) : to_server'[c] = SubSeq(to_server[c], 1, n)

(* A client sends a message                                                *)
LEMMA AskDoes ==
  ASSUME TypeInv, NEW c \in Conns, NEW type \in Requests, Ask(c, type)
  PROVE  TypeInv' /\ Elsewhere(c) /\ Asks(c)
<1> DEFINE m == [type |-> type, request |-> asked[c] + 1, session |-> SessionOf(c)]
<1>1. asked[c] \in 0 .. MaxAsked /\ asked[c] < MaxAsked /\ asked \in [Conns -> 0 .. MaxAsked]
      /\ to_server \in [Conns -> Seq(Message)] /\ to_server[c] \in Seq(Message)
  BY DEF TypeInv, Shapes, Ask
<1>2. asked[c] + 1 \in 0 .. MaxAsked
  BY <1>1, Bounds
<1>3. m \in Message /\ m.request = asked[c] + 1
  BY <1>2 DEF Message, SessionOf
<1>4. /\ asked' = [asked EXCEPT ![c] = asked[c] + 1]
      /\ to_server' = [to_server EXCEPT ![c] = Append(to_server[c], m)]
      /\ UNCHANGED <<to_client, closed, handler, sessions, attached, db, made, stream, sending,
                     running>>
  BY DEF Ask, databases
<1> HIDE DEF m
<1>5. Append(to_server[c], m) \in Seq(Message)
  BY <1>1, <1>3
<1>6. /\ to_server' \in [Conns -> Seq(Message)] /\ to_server'[c] = Append(to_server[c], m)
      /\ \A d \in Conns \ {c} : to_server'[d] = to_server[d]
  BY <1>1, <1>4, <1>5
<1>7. /\ asked' \in [Conns -> 0 .. MaxAsked] /\ asked'[c] = asked[c] + 1
      /\ \A d \in Conns \ {c} : asked'[d] = asked[d]
  BY <1>1, <1>2, <1>4
<1>8. TypeInv'
  BY <1>4, <1>6, <1>7 DEF TypeInv, Shapes, Databases
<1>9. Elsewhere(c)
  BY <1>4, <1>6, <1>7 DEF Elsewhere, Kept
<1>10. Asks(c)
  BY <1>3, <1>4, <1>6, <1>7 DEF Asks
<1> QED BY <1>8, <1>9, <1>10

(* A client goes away                                                      *)
LEMMA GoAwayDoes ==
  ASSUME TypeInv, NEW c \in Conns, GoAway(c)
  PROVE  TypeInv' /\ Elsewhere(c) /\ Goes(c)
<1>1. PICK n \in 0 .. Len(to_server[c]) :
        to_server' = [to_server EXCEPT ![c] = SubSeq(to_server[c], 1, n)]
  BY DEF GoAway
<1>2. /\ closed' = [closed EXCEPT ![c] = closed[c] \union {"client"}]
      /\ UNCHANGED <<to_client, handler, sessions, attached, db, made, stream, sending,
                     running, asked>>
  BY DEF GoAway, databases
<1>3. /\ to_server \in [Conns -> Seq(Message)] /\ to_server[c] \in Seq(Message)
      /\ closed \in [Conns -> SUBSET Ends]
  BY DEF TypeInv, Shapes
<1>4. SubSeq(to_server[c], 1, n) \in Seq(Message)
  BY <1>3
<1>5. closed[c] \union {"client"} \in SUBSET Ends
  BY <1>3 DEF Ends
<1>6. /\ to_server' \in [Conns -> Seq(Message)] /\ to_server'[c] = SubSeq(to_server[c], 1, n)
      /\ \A d \in Conns \ {c} : to_server'[d] = to_server[d]
  BY <1>1, <1>3, <1>4
<1>7. /\ closed' \in [Conns -> SUBSET Ends]
      /\ closed'[c] = closed[c] \union {"client"}
      /\ \A d \in Conns \ {c} : closed'[d] = closed[d]
  BY <1>2, <1>3, <1>5
<1>8. TypeInv'
  BY <1>2, <1>6, <1>7 DEF TypeInv, Shapes, Databases
<1>9. Elsewhere(c)
  BY <1>2, <1>6, <1>7 DEF Elsewhere, Kept
<1>10. Goes(c)
  BY <1>2, <1>6, <1>7 DEF Goes
<1> QED BY <1>8, <1>9, <1>10

(* A client stops reading                                                  *)
LEMMA StopReadingDoes ==
  ASSUME TypeInv, NEW c \in Conns, StopReading(c)
  PROVE  TypeInv' /\ Elsewhere(c) /\ Kept(c)
<1>1. /\ closed' = [closed EXCEPT ![c] = closed[c] \union {"reader"}]
      /\ UNCHANGED <<to_server, to_client, handler, sessions, attached, db, made, stream, sending,
                     running, asked>>
  BY DEF StopReading, databases
<1>2. closed \in [Conns -> SUBSET Ends] /\ closed[c] \union {"reader"} \in SUBSET Ends
  BY DEF TypeInv, Shapes, Ends
<1>3. /\ closed' \in [Conns -> SUBSET Ends]
      /\ closed'[c] = closed[c] \union {"reader"}
      /\ \A d \in Conns \ {c} : closed'[d] = closed[d]
  BY <1>1, <1>2
<1>4. TypeInv'
  BY <1>1, <1>3 DEF TypeInv, Shapes, Databases
<1>5. Elsewhere(c)
  BY <1>1, <1>3 DEF Elsewhere, Kept
<1>6. Kept(c)
  BY <1>1, <1>3 DEF Kept
<1> QED BY <1>4, <1>5, <1>6

(* All that a step can do to a connection                                  *)
Does(c) ==
  \/ Answers(c) \/ Begins(c) \/ Silent(c) \/ Joins(c)
  \/ StreamerSends(c, "starting", "START_STREAM", "looping")
  \/ StreamerSends(c, "has_chunk", "STREAM_CHUNK", "looping")
  \/ StreamerSends(c, "ending", "END_STREAM", "done")
  \/ CancellerSends(c)
  \/ \E t \in Threads : Finishes(c, t)
  \/ Looks(c) \/ Takes(c) \/ Asks(c) \/ Goes(c)
  \/ Kept(c)

(* Every step keeps the types and is a step of one connection              *)
LEMMA StepDoes ==
  ASSUME TypeInv, [Next]_vars
  PROVE  TypeInv' /\ ((\A c \in Conns : Kept(c)) \/ \E c \in Conns : Elsewhere(c) /\ Does(c))
<1>1. CASE UNCHANGED vars
  BY <1>1 DEF vars, databases, TypeInv, Shapes, Databases, Kept
<1>2. ASSUME NEW c \in Conns, HandlerStep(c)
      PROVE  TypeInv' /\ Elsewhere(c) /\ Does(c)
  BY <1>2, AcceptPingDoes, RefuseDoes, HandleDbDoes, HandleQueryDoes, LeavingDoes, EndStreamDoes
  DEF HandlerStep, Does
<1>3. "streamer" \in Threads /\ "canceller" \in Threads
  BY DEF Threads
<1>4. ASSUME NEW c \in Conns, StreamerStep(c)
      PROVE  TypeInv' /\ Elsewhere(c) /\ Does(c)
  BY <1>3, <1>4, StreamerSendsDoes, StreamLoopDoes, FinishSendDoes DEF StreamerStep, Does
<1>5. ASSUME NEW c \in Conns, CancellerStep(c)
      PROVE  TypeInv' /\ Elsewhere(c) /\ Does(c)
  BY <1>3, <1>5, CancelDoes, CancelAnswersDoes, FinishSendDoes DEF CancellerStep, Does
<1>6. ASSUME NEW c \in Conns, (\E type \in Requests : Ask(c, type)) \/ StopReading(c) \/ GoAway(c)
      PROVE  TypeInv' /\ Elsewhere(c) /\ Does(c)
  BY <1>6, AskDoes, StopReadingDoes, GoAwayDoes DEF Does
<1> QED
  BY <1>1, <1>2, <1>4, <1>5, <1>6 DEF Next, ServerNext, ClientNext

(* The threads of the server and the clients keep TypeOK                   *)
THEOREM TypesKept == Spec => []TypeOK
<1>1. TypeInv /\ [Next]_vars => TypeInv'
  BY StepDoes
<1>2. TypeInv => TypeOK
  BY DEF TypeInv, Shapes, Databases, TypeOK
<1> QED BY TypeInit, <1>1, <1>2, PTL DEF Spec

-----------------------------------------------------------------------------
(* The database                                                            *)

(* An engine lets go of the database, which leaves its configuration file  *)
LEMMA DestroyKeeps ==
  ASSUME DatabaseKept, NEW x, attached' = attached \ {x}, Destroy({x}), UNCHANGED <<made, running>>
  PROVE  DatabaseKept'
<1>1. CASE x \in attached
  BY <1>1 DEF DatabaseKept, Destroy
<1>2. CASE x \notin attached
  <2>1. attached' = attached /\ db' = db
    BY <1>2 DEF Destroy
  <2> QED BY <2>1 DEF DatabaseKept
<1> QED BY <1>1, <1>2

(* No step of the handler of a connection loses the database               *)
LEMMA HandlerKeeps ==
  ASSUME TypeInv, DatabaseKept, NEW c \in Conns, HandlerStep(c)
  PROVE  DatabaseKept'
<1>1. CASE AcceptPing(c) \/ RefuseMessage(c) \/ RefuseSession(c) \/ Disconnect(c) \/ EndStream(c)
  <2>1. running /\ UNCHANGED <<attached, db, made>>
    BY <1>1 DEF AcceptPing, RefuseMessage, RefuseSession, Disconnect, EndStream, databases, Loop,
                InStream
  <2> QED BY <2>1 DEF DatabaseKept
<1>2. CASE HandleDb(c)
  <2>1. running /\ Head(to_server[c]).session \in sessions
    BY <1>2 DEF HandleDb, Loop
  <2>2. CASE SetDbInstance(Head(to_server[c]).session)
    BY <2>2 DEF SetDbInstance, DatabaseKept
  <2>3. CASE ~SetDbInstance(Head(to_server[c]).session)
    <3>1. UNCHANGED <<attached, made>> /\ db' \in {db, Directory}
      BY <1>2, <2>3 DEF HandleDb
    <3> QED BY <2>1, <3>1 DEF DatabaseKept, Directory
  <2> QED BY <2>2, <2>3
<1>3. CASE HandleQuery(c)
  <2>1. running /\ UNCHANGED attached
    BY <1>3 DEF HandleQuery, Loop, NeverReturns
  <2>2. (UNCHANGED made /\ db' \in {db, Directory}) \/ db' = "attachable"
    BY <1>3 DEF HandleQuery
  <2> QED BY <2>1, <2>2 DEF DatabaseKept, Directory
<1>4. CASE HandleClose(c)
  BY <1>4, DestroyKeeps DEF HandleClose
<1>5. CASE Leave(c)
  BY <1>5, DestroyKeeps DEF Leave
<1> QED BY <1>1, <1>2, <1>3, <1>4, <1>5 DEF HandlerStep

(* A database that a client made stays open or can be attached, whatever   *)
(* the sessions do                                                         *)
THEOREM DatabaseStays == Spec => []DatabaseKept
<1>1. Init => DatabaseKept
  BY DEF Init, DatabaseKept
<1>2. ASSUME TypeInv, DatabaseKept, [Next]_vars
      PROVE  TypeInv' /\ DatabaseKept'
  <2>1. TypeInv'
    BY <1>2, StepDoes
  <2>2. CASE UNCHANGED vars
    BY <1>2, <2>2, <2>1 DEF vars, databases, DatabaseKept
  <2>3. CASE \E c \in Conns : HandlerStep(c)
    BY <1>2, <2>3, <2>1, HandlerKeeps
  <2>4. CASE \E c \in Conns : StreamerStep(c) \/ CancellerStep(c)
    <3>1. running /\ UNCHANGED <<attached, db, made>>
      BY <2>4 DEF StreamerStep, CancellerStep, StreamStart, StreamLoop, StreamThrows, StreamChunk,
                  StreamEnd, FinishSend, CancelReceives, CancelDisconnects, CancelAnswers,
                  Streams, InStream, databases
    <3> QED BY <1>2, <2>1, <3>1 DEF DatabaseKept
  <2>5. CASE ClientNext
    <3>1. UNCHANGED <<running, attached, db, made>>
      BY <2>5 DEF ClientNext, Ask, StopReading, GoAway, databases
    <3> QED BY <1>2, <2>1, <3>1 DEF DatabaseKept
  <2> QED BY <1>2, <2>2, <2>3, <2>4, <2>5 DEF Next, ServerNext
<1> QED BY TypeInit, <1>1, <1>2, PTL DEF Spec

-----------------------------------------------------------------------------
(* What a client reads                                                     *)

(* The i-th piece of s begins a message of one of the kinds                *)
Says(s, i, errs) == s[i].part = "length" /\ s[i].err \in errs

(* Pieces i and j of s are about one request of the client                 *)
Same(s, i, j) == s[i].request = s[j].request /\ s[i].request # 0

OneFinal(s) ==
  \A i, j \in 1 .. Len(s) :
    Says(s, i, Final) /\ Says(s, j, Final) /\ Same(s, i, j) => i = j

OneStart(s) ==
  \A i, j \in 1 .. Len(s) :
    Says(s, i, {"START_STREAM"}) /\ Says(s, j, {"START_STREAM"}) /\ Same(s, i, j) => i = j

Framed(s) ==
  /\ \A i \in 1 .. Len(s) :
       Says(s, i, {"STREAM_CHUNK", "END_STREAM"}) /\ s[i].request # 0 =>
         \E j \in 1 .. i - 1 : Says(s, j, {"START_STREAM"}) /\ Same(s, i, j)
  /\ \A i, e \in 1 .. Len(s) :
       Says(s, i, {"STREAM_CHUNK"}) /\ Says(s, e, {"END_STREAM"}) /\ Same(s, i, e) => i < e

(* The stream that begins at piece i ends at piece n or before             *)
Ended(s, i, n) == \E e \in 1 .. n : Says(s, e, {"END_STREAM"}) /\ Same(s, i, e)

NoOverlap(s) ==
  \A i, j \in 1 .. Len(s) :
    (/\ Says(s, i, {"START_STREAM"}) /\ Says(s, j, {"START_STREAM"})
     /\ 0 \notin {s[i].request, s[j].request} /\ i < j) => Ended(s, i, j - 1)

(* No two chunks of a stream follow the answer to a later request          *)
OneLate(s) ==
  \A k, i, j \in 1 .. Len(s) :
    (/\ Says(s, k, {"SUCCESS"}) /\ Says(s, i, {"STREAM_CHUNK"}) /\ Says(s, j, {"STREAM_CHUNK"})
     /\ Same(s, i, j) /\ s[i].request < s[k].request /\ k < i /\ k < j) => i = j

Orderly(s) == OneFinal(s) /\ OneStart(s) /\ Framed(s) /\ NoOverlap(s) /\ OneLate(s)

(* Every stream has ended, except for the one of request r                 *)
AllEnded(s, r) ==
  \A i \in 1 .. Len(s) :
    Says(s, i, {"START_STREAM"}) /\ s[i].request \notin {0, r} => Ended(s, i, Len(s))

(* No piece is about request r                                             *)
Untouched(s, r) == \A i \in 1 .. Len(s) : s[i].request # r

Sent(s, errs, r) == \E i \in 1 .. Len(s) : Says(s, i, errs) /\ s[i].request = r

(* No chunk of request r follows the answer to a later request             *)
NoLate(s, r) ==
  \A k \in 1 .. Len(s) : Says(s, k, {"SUCCESS"}) /\ r < s[k].request =>
    \A i \in k .. Len(s) : Says(s, i, {"STREAM_CHUNK"}) => s[i].request # r

(* A piece that may be sent next                                           *)
Fits(s, p) ==
  p.part = "length" /\ p.request # 0 =>
    /\ p.err \in Final => ~Sent(s, Final, p.request)
    /\ p.err \in {"STREAM_CHUNK", "END_STREAM"} => Sent(s, {"START_STREAM"}, p.request)
    /\ p.err = "START_STREAM" => ~Sent(s, {"START_STREAM"}, p.request) /\ AllEnded(s, 0)
                                 /\ Untouched(s, p.request)
    /\ p.err = "STREAM_CHUNK" => ~Sent(s, Final, p.request) /\ NoLate(s, p.request)

(* What one more piece at the end leaves alone                             *)
LEMMA Appended ==
  ASSUME NEW s \in Seq(Piece), NEW p \in Piece
  PROVE  /\ Append(s, p) \in Seq(Piece) /\ Len(s) \in Nat /\ Len(Append(s, p)) = Len(s) + 1
         /\ \A i \in 1 .. Len(s) : Append(s, p)[i] = s[i] /\ s[i] \in Piece
         /\ Append(s, p)[Len(s) + 1] = p
         /\ \A i \in 1 .. Len(s) : \A errs : Says(Append(s, p), i, errs) <=> Says(s, i, errs)
         /\ \A errs : Says(Append(s, p), Len(s) + 1, errs) <=> (p.part = "length" /\ p.err \in errs)
         /\ s \o <<p>> = Append(s, p)
  BY DEF Says

(* The order of the answers is kept by a piece that fits                   *)
LEMMA OrderlyAppend ==
  ASSUME NEW s \in Seq(Piece), NEW p \in Piece, Orderly(s), Fits(s, p)
  PROVE  Orderly(Append(s, p))
<1> DEFINE t == Append(s, p)
           n == Len(s) + 1
<1>1. /\ t \in Seq(Piece) /\ Len(s) \in Nat /\ Len(t) = n /\ n \in Nat
      /\ \A i \in 1 .. Len(s) : t[i] = s[i] /\ s[i] \in Piece
      /\ t[n] = p
      /\ \A i \in 1 .. Len(s) : \A errs : Says(t, i, errs) <=> Says(s, i, errs)
      /\ \A errs : Says(t, n, errs) <=> (p.part = "length" /\ p.err \in errs)
  BY Appended
<1>2. \A i \in 1 .. Len(t) : i \in 1 .. Len(s) \/ i = n
  BY <1>1
<1>a. "END_STREAM" \in Final /\ "SUCCESS" \in Final
  BY DEF Final
<1> HIDE DEF t, n
<1>3. OneFinal(t)
  BY <1>1, <1>2 DEF OneFinal, Orderly, Same, Fits, Sent
<1>4. OneStart(t)
  BY <1>1, <1>2 DEF OneStart, Orderly, Same, Fits, Sent
<1>5. Framed(t)
  <2>1. ASSUME NEW i \in 1 .. Len(t), Says(t, i, {"STREAM_CHUNK", "END_STREAM"}), t[i].request # 0
        PROVE  \E j \in 1 .. i - 1 : Says(t, j, {"START_STREAM"}) /\ Same(t, i, j)
    <3>1. CASE i \in 1 .. Len(s)
      <4>1. PICK j \in 1 .. i - 1 : Says(s, j, {"START_STREAM"}) /\ Same(s, i, j)
        BY <1>1, <2>1, <3>1 DEF Orderly, Framed
      <4> QED BY <1>1, <3>1, <4>1 DEF Same
    <3>2. CASE i = n
      <4>1. p.part = "length" /\ p.err \in {"STREAM_CHUNK", "END_STREAM"} /\ p.request # 0
        BY <1>1, <2>1, <3>2
      <4>2. PICK j \in 1 .. Len(s) : Says(s, j, {"START_STREAM"}) /\ s[j].request = p.request
        BY <4>1 DEF Fits, Sent
      <4> QED BY <1>1, <3>2, <4>1, <4>2 DEF Same, n
    <3> QED BY <1>2, <3>1, <3>2
  <2>2. ASSUME NEW i \in 1 .. Len(t), NEW e \in 1 .. Len(t),
               Says(t, i, {"STREAM_CHUNK"}), Says(t, e, {"END_STREAM"}), Same(t, i, e)
        PROVE  i < e
    <3>1. CASE i \in 1 .. Len(s) /\ e \in 1 .. Len(s)
      BY <1>1, <2>2, <3>1 DEF Orderly, Framed, Same
    <3>2. CASE i \in 1 .. Len(s) /\ e = n
      BY <3>2, <1>1 DEF n
    <3>3. CASE i = n /\ e \in 1 .. Len(s)
      <4>1. p.part = "length" /\ p.err = "STREAM_CHUNK" /\ p.request # 0 /\ s[e].request = p.request
            /\ Says(s, e, {"END_STREAM"})
        BY <1>1, <2>2, <3>3 DEF Same
      <4>2. Says(s, e, Final)
        BY <4>1, <1>a DEF Says
      <4> QED BY <3>3, <4>1, <4>2 DEF Fits, Sent
    <3>4. CASE i = n /\ e = n
      BY <1>1, <2>2, <3>4
    <3> QED BY <1>2, <3>1, <3>2, <3>3, <3>4
  <2> QED BY <2>1, <2>2 DEF Framed
<1>6. NoOverlap(t)
  <2> SUFFICES ASSUME NEW i \in 1 .. Len(t), NEW j \in 1 .. Len(t),
                      Says(t, i, {"START_STREAM"}), Says(t, j, {"START_STREAM"}),
                      t[i].request # 0, t[j].request # 0, i < j
               PROVE  Ended(t, i, j - 1)
    BY DEF NoOverlap
  <2>1. i \in 1 .. Len(s)
    BY <1>1 DEF n
  <2>2. CASE j \in 1 .. Len(s)
    <3>1. PICK e \in 1 .. j - 1 : Says(s, e, {"END_STREAM"}) /\ Same(s, i, e)
      BY <1>1, <2>1, <2>2 DEF Orderly, NoOverlap, Ended
    <3> QED BY <1>1, <2>1, <2>2, <3>1 DEF Ended, Same
  <2>3. CASE j = n
    <3>1. p.part = "length" /\ p.err = "START_STREAM" /\ p.request # 0
      BY <1>1, <2>3
    <3>2. PICK e \in 1 .. Len(s) : Says(s, e, {"END_STREAM"}) /\ Same(s, i, e)
      BY <1>1, <2>1, <3>1 DEF Fits, AllEnded, Ended
    <3> QED BY <1>1, <2>1, <2>3, <3>2 DEF Ended, Same, n
  <2> QED BY <1>2, <2>2, <2>3
<1>7. OneLate(t)
  <2> SUFFICES ASSUME NEW k \in 1 .. Len(t), NEW i \in 1 .. Len(t), NEW j \in 1 .. Len(t),
                      Says(t, k, {"SUCCESS"}),
                      Says(t, i, {"STREAM_CHUNK"}), Says(t, j, {"STREAM_CHUNK"}),
                      Same(t, i, j), t[i].request < t[k].request, k < i, k < j, i < j
               PROVE  FALSE
    <3>1. OneLate(t) \/ \E k, i, j \in 1 .. Len(t) :
            /\ Says(t, k, {"SUCCESS"})
            /\ Says(t, i, {"STREAM_CHUNK"}) /\ Says(t, j, {"STREAM_CHUNK"})
            /\ Same(t, i, j) /\ t[i].request < t[k].request /\ k < i /\ k < j /\ i # j
      BY DEF OneLate
    <3>2. \A i, j \in 1 .. Len(t) : Same(t, i, j) => Same(t, j, i) /\ t[i].request = t[j].request
      BY DEF Same
    <3>3. \A i, j \in 1 .. Len(t) : i # j => i < j \/ j < i
      BY <1>1
    <3> QED BY <3>1, <3>2, <3>3
  <2>1. k \in 1 .. Len(s) /\ i \in 1 .. Len(s)
    BY <1>1 DEF n
  <2>2. CASE j \in 1 .. Len(s)
    BY <1>1, <2>1, <2>2 DEF Orderly, OneLate, Same
  <2>3. CASE j = n
    <3>1. /\ p.part = "length" /\ p.err = "STREAM_CHUNK" /\ p.request # 0
          /\ s[i].request = p.request /\ p.request < s[k].request
          /\ Says(s, k, {"SUCCESS"}) /\ Says(s, i, {"STREAM_CHUNK"})
      BY <1>1, <2>1, <2>3 DEF Same
    <3>2. i \in k .. Len(s)
      BY <1>1, <2>1
    <3> QED BY <2>1, <3>1, <3>2 DEF Fits, NoLate
  <2> QED BY <1>2, <2>2, <2>3
<1> QED BY <1>3, <1>4, <1>5, <1>6, <1>7 DEF Orderly, t

(* An answer to a request later than r has been sent                       *)
Passed(s, r) == \E k \in 1 .. Len(s) : Says(s, k, {"SUCCESS"}) /\ r < s[k].request

(* How one more piece changes what can be said of the pieces               *)
LEMMA AppendFacts ==
  ASSUME NEW s \in Seq(Piece), NEW p \in Piece, NEW r \in Nat
  PROVE  LET t == Append(s, p)
         IN  /\ Untouched(t, r) <=> Untouched(s, r) /\ p.request # r
             /\ \A errs : Sent(t, errs, r) <=>
                  Sent(s, errs, r) \/ (p.part = "length" /\ p.err \in errs /\ p.request = r)
             /\ Passed(t, r) <=>
                  Passed(s, r) \/ (p.part = "length" /\ p.err = "SUCCESS" /\ r < p.request)
             /\ AllEnded(s, r) /\ ~(p.part = "length" /\ p.err = "START_STREAM" /\ p.request # r)
                  => AllEnded(t, r)
             /\ AllEnded(s, r) /\ p.part = "length" /\ p.err = "END_STREAM" /\ p.request = r
                  => AllEnded(t, 0)
             /\ NoLate(s, r) /\ ~(p.part = "length" /\ p.err = "STREAM_CHUNK") => NoLate(t, r)
<1> DEFINE t == Append(s, p)
           n == Len(s) + 1
<1>1. /\ t \in Seq(Piece) /\ Len(s) \in Nat /\ Len(t) = n /\ n \in Nat
      /\ \A i \in 1 .. Len(s) : t[i] = s[i] /\ s[i] \in Piece
      /\ t[n] = p
      /\ \A i \in 1 .. Len(s) : \A errs : Says(t, i, errs) <=> Says(s, i, errs)
      /\ \A errs : Says(t, n, errs) <=> (p.part = "length" /\ p.err \in errs)
  BY Appended
<1>2. /\ \A i \in 1 .. Len(t) : i \in 1 .. Len(s) \/ i = n
      /\ \A i \in 1 .. Len(s) : i \in 1 .. Len(t)
      /\ n \in 1 .. Len(t)
  BY <1>1
<1> HIDE DEF t, n
<1>3. Untouched(t, r) <=> Untouched(s, r) /\ p.request # r
  BY <1>1, <1>2 DEF Untouched
<1>4. \A errs : Sent(t, errs, r) <=>
        Sent(s, errs, r) \/ (p.part = "length" /\ p.err \in errs /\ p.request = r)
  BY <1>1, <1>2 DEF Sent
<1>5. Passed(t, r) <=> Passed(s, r) \/ (p.part = "length" /\ p.err = "SUCCESS" /\ r < p.request)
  BY <1>1, <1>2 DEF Passed
<1>6. ASSUME AllEnded(s, r), ~(p.part = "length" /\ p.err = "START_STREAM" /\ p.request # r)
      PROVE  AllEnded(t, r)
  <2> SUFFICES ASSUME NEW i \in 1 .. Len(t), Says(t, i, {"START_STREAM"}), t[i].request \notin {0, r}
               PROVE  Ended(t, i, Len(t))
    BY DEF AllEnded
  <2>1. i \in 1 .. Len(s)
    BY <1>1, <1>2, <1>6
  <2>2. PICK e \in 1 .. Len(s) : Says(s, e, {"END_STREAM"}) /\ Same(s, i, e)
    BY <1>1, <1>6, <2>1 DEF AllEnded, Ended
  <2> QED BY <1>1, <1>2, <2>1, <2>2 DEF Ended, Same
<1>7. ASSUME AllEnded(s, r), p.part = "length", p.err = "END_STREAM", p.request = r
      PROVE  AllEnded(t, 0)
  <2> SUFFICES ASSUME NEW i \in 1 .. Len(t), Says(t, i, {"START_STREAM"}), t[i].request # 0
               PROVE  Ended(t, i, Len(t))
    BY DEF AllEnded
  <2>1. i \in 1 .. Len(s)
    BY <1>1, <1>2, <1>7
  <2>2. CASE t[i].request = r
    BY <1>1, <1>2, <1>7, <2>1, <2>2 DEF Ended, Same
  <2>3. CASE t[i].request # r
    <3>1. PICK e \in 1 .. Len(s) : Says(s, e, {"END_STREAM"}) /\ Same(s, i, e)
      BY <1>1, <1>7, <2>1, <2>3 DEF AllEnded, Ended
    <3> QED BY <1>1, <1>2, <2>1, <3>1 DEF Ended, Same
  <2> QED BY <2>2, <2>3
<1>8. ASSUME NoLate(s, r), ~(p.part = "length" /\ p.err = "STREAM_CHUNK")
      PROVE  NoLate(t, r)
  <2> SUFFICES ASSUME NEW k \in 1 .. Len(t), Says(t, k, {"SUCCESS"}), r < t[k].request,
                      NEW i \in k .. Len(t), Says(t, i, {"STREAM_CHUNK"})
               PROVE  t[i].request # r
    BY DEF NoLate
  <2>1. i \in 1 .. Len(t)
    BY <1>1
  <2>2. i \in 1 .. Len(s)
    BY <1>1, <1>2, <1>8, <2>1
  <2>3. k \in 1 .. Len(s) /\ i \in k .. Len(s)
    BY <1>1, <2>2 DEF n
  <2> QED BY <1>1, <1>8, <2>2, <2>3 DEF NoLate
<1> QED BY <1>3, <1>4, <1>5, <1>6, <1>7, <1>8 DEF t

(* Before an answer to a later request, no chunk is late                   *)
LEMMA NotPassed ==
  ASSUME NEW s, NEW r, ~Passed(s, r)
  PROVE  NoLate(s, r)
  BY DEF Passed, NoLate

-----------------------------------------------------------------------------
(* Whole messages                                                          *)

Whole(s) ==
  \A i \in 1 .. Len(s) :
    /\ i % 2 = 1 <=> s[i].part = "length"
    /\ i % 2 = 0 => s[i] = [s[i - 1] EXCEPT !.part = "body"]

(* An answer to request q of the first n ones was sent while a stream of an*)
(* earlier request was                                                     *)
Mix(s, n) ==
  \E q \in 1 .. n : \E r \in 1 .. q - 1 :
    /\ Sent(s, {"START_STREAM"}, r)
    /\ \E k \in 1 .. Len(s) :
         /\ Says(s, k, {"SUCCESS"}) /\ s[k].request = q
         /\ \A e \in 1 .. Len(s) : Says(s, e, {"END_STREAM"}) /\ s[e].request = r => k <= e + 1

(* A length at the end of whole messages                                   *)
LEMMA WholeLength ==
  ASSUME NEW s \in Seq(Piece), NEW p \in Piece, Whole(s), Len(s) % 2 = 0, p.part = "length"
  PROVE  Whole(Append(s, p)) /\ Len(Append(s, p)) % 2 = 1
<1>1. /\ Len(s) \in Nat /\ Len(Append(s, p)) = Len(s) + 1
      /\ \A i \in 1 .. Len(s) : Append(s, p)[i] = s[i]
      /\ Append(s, p)[Len(s) + 1] = p
  BY Appended
<1>2. (Len(s) + 1) % 2 = 1
  BY <1>1
<1>3. ASSUME NEW i \in 1 .. Len(s) + 1
      PROVE  /\ i % 2 = 1 <=> Append(s, p)[i].part = "length"
             /\ i % 2 = 0 => Append(s, p)[i] = [Append(s, p)[i - 1] EXCEPT !.part = "body"]
  <2>1. CASE i = Len(s) + 1
    BY <1>1, <1>2, <2>1
  <2>2. CASE i \in 1 .. Len(s)
    <3>1. i % 2 = 0 => i - 1 \in 1 .. Len(s)
      BY <1>1, <2>2
    <3> QED BY <1>1, <2>2, <3>1 DEF Whole
  <2> QED BY <1>1, <2>1, <2>2
<1> QED BY <1>1, <1>2, <1>3 DEF Whole

(* A body after its length                                                 *)
LEMMA WholeBody ==
  ASSUME NEW s \in Seq(Piece), NEW err \in Codes, NEW r \in 0 .. MaxAsked,
         Whole(s), Len(s) % 2 = 1, s[Len(s)] = Length(err, r)
  PROVE  Whole(Append(s, Body(err, r))) /\ Len(Append(s, Body(err, r))) % 2 = 0
<1> DEFINE p == Body(err, r)
<1>1. /\ Len(s) \in Nat /\ Len(Append(s, p)) = Len(s) + 1
      /\ \A i \in 1 .. Len(s) : Append(s, p)[i] = s[i]
      /\ Append(s, p)[Len(s) + 1] = p
  BY Appended, AnswerPieces
<1>2. (Len(s) + 1) % 2 = 0 /\ (Len(s) + 1) - 1 = Len(s) /\ Len(s) \in 1 .. Len(s)
  BY <1>1
<1>3. p = [Length(err, r) EXCEPT !.part = "body"] /\ p.part # "length"
  BY DEF Length, Body
<1> HIDE DEF p
<1>4. ASSUME NEW i \in 1 .. Len(s) + 1
      PROVE  /\ i % 2 = 1 <=> Append(s, p)[i].part = "length"
             /\ i % 2 = 0 => Append(s, p)[i] = [Append(s, p)[i - 1] EXCEPT !.part = "body"]
  <2>1. CASE i = Len(s) + 1
    BY <1>1, <1>2, <1>3, <2>1
  <2>2. CASE i \in 1 .. Len(s)
    <3>1. i % 2 = 0 => i - 1 \in 1 .. Len(s)
      BY <1>1, <2>2
    <3> QED BY <1>1, <2>2, <3>1 DEF Whole
  <2> QED BY <1>1, <2>1, <2>2
<1> QED BY <1>1, <1>2, <1>4 DEF Whole, p

(* Messages that are mixed stay so                                         *)
LEMMA MixStays ==
  ASSUME NEW s \in Seq(Piece), NEW p \in Piece, NEW n \in Nat, Mix(s, n)
  PROVE  Mix(Append(s, p), n) /\ Mix(s, n + 1)
<1>0. PICK q \in 1 .. n : \E r \in 1 .. q - 1 :
        /\ Sent(s, {"START_STREAM"}, r)
        /\ \E k \in 1 .. Len(s) :
             /\ Says(s, k, {"SUCCESS"}) /\ s[k].request = q
             /\ \A e \in 1 .. Len(s) : Says(s, e, {"END_STREAM"}) /\ s[e].request = r => k <= e + 1
  BY DEF Mix
<1>1. PICK r \in 1 .. q - 1 :
        /\ Sent(s, {"START_STREAM"}, r)
        /\ \E k \in 1 .. Len(s) :
             /\ Says(s, k, {"SUCCESS"}) /\ s[k].request = q
             /\ \A e \in 1 .. Len(s) : Says(s, e, {"END_STREAM"}) /\ s[e].request = r => k <= e + 1
  BY <1>0
<1>2. PICK k \in 1 .. Len(s) :
        /\ Says(s, k, {"SUCCESS"}) /\ s[k].request = q
        /\ \A e \in 1 .. Len(s) : Says(s, e, {"END_STREAM"}) /\ s[e].request = r => k <= e + 1
  BY <1>1
<1> DEFINE t == Append(s, p)
<1>3. Mix(t, n)
  <2>1. /\ Len(s) \in Nat /\ Len(t) = Len(s) + 1
        /\ \A i \in 1 .. Len(s) : t[i] = s[i]
        /\ \A i \in 1 .. Len(s) : \A errs : Says(t, i, errs) <=> Says(s, i, errs)
    BY Appended
  <2>2. Sent(t, {"START_STREAM"}, r)
    BY <1>1, AppendFacts
  <2> HIDE DEF t
  <2>3. k \in 1 .. Len(t) /\ Says(t, k, {"SUCCESS"}) /\ t[k].request = q
    BY <1>2, <2>1
  <2>4. \A e \in 1 .. Len(t) : Says(t, e, {"END_STREAM"}) /\ t[e].request = r => k <= e + 1
    <3> SUFFICES ASSUME NEW e \in 1 .. Len(t), Says(t, e, {"END_STREAM"}), t[e].request = r
                 PROVE  k <= e + 1
      OBVIOUS
    <3>1. CASE e \in 1 .. Len(s)
      BY <1>2, <2>1, <3>1
    <3>2. CASE e = Len(s) + 1
      BY <2>1, <3>2
    <3> QED BY <2>1, <3>1, <3>2
  <2> QED BY <2>2, <2>3, <2>4 DEF Mix
<1>4. Mix(s, n + 1)
  <2>1. q \in 1 .. n + 1
    OBVIOUS
  <2> QED BY <1>1, <2>1 DEF Mix
<1> QED BY <1>3, <1>4

-----------------------------------------------------------------------------
(* The invariant of a connection                                           *)

(* Request r is not later than the n that were asked, and before those that*)
(* the server has not read                                                 *)
Old(r, ts, n) == r <= n /\ \A i \in 1 .. Len(ts) : r < ts[i].request

Pending(ts, n) ==
  /\ \A i \in 1 .. Len(ts) : ts[i].request \in 1 .. n
  /\ \A i, j \in 1 .. Len(ts) : i < j => ts[i].request < ts[j].request

(* Requests are handled in the order of their numbers                      *)
Numbered(ts, s, st, n) ==
  /\ Pending(ts, n)
  /\ \A i \in 1 .. Len(s) : Old(s[i].request, ts, n)
  /\ Old(st.request, ts, n) /\ Old(st.cancel, ts, n)

(* The threads of handle_stream, and the messages that they are sending    *)
Threaded(h, st, sd) ==
  /\ h # "streaming" => st = NoStream /\ \A t \in Threads : sd[t] = NoPong
  /\ h = "streaming" =>
       /\ st.request # 0
       /\ st.canceller = "answering" => st.cancelled /\ st.request < st.cancel
       /\ sd["streamer"] # NoPong =>
            /\ sd["streamer"].request = st.request
            /\ \/ st.streamer = "looping"
               \/ st.streamer = "done" /\ sd["streamer"].err = "END_STREAM"
       /\ sd["canceller"] # NoPong =>
            /\ sd["canceller"].request = st.cancel /\ sd["canceller"].err = "SUCCESS"
            /\ st.canceller = "done" /\ st.request < st.cancel

(* What a client that is there has been sent, by where the threads are     *)
SentSoFar(s, st, sd) ==
  /\ st.streamer \in {"starting", "done"} => AllEnded(s, 0)
  /\ st.streamer = "starting" => Untouched(s, st.request)
  /\ st.streamer \in {"looping", "has_chunk", "ending"} =>
       /\ Sent(s, {"START_STREAM"}, st.request) /\ ~Sent(s, Final, st.request)
       /\ AllEnded(s, st.request)
  /\ st.canceller = "answering" => Untouched(s, st.cancel)
  /\ st.request # 0 /\ Passed(s, st.request) => st.cancelled
  /\ st.request # 0 /\ st.streamer = "has_chunk" => NoLate(s, st.request)
  /\ sd["canceller"] # NoPong => Sent(s, {"SUCCESS"}, st.cancel)

(* At most one message has lost its body so far                            *)
OneOpen(s, sd) ==
  /\ (\A t \in Threads : sd[t] = NoPong) => Len(s) % 2 = 0
  /\ \A t \in Threads : sd[t] # NoPong =>
       /\ Len(s) % 2 = 1 /\ s[Len(s)] = Length(sd[t].err, sd[t].request)
       /\ \A u \in Threads \ {t} : sd[u] = NoPong

Here(c) == "client" \notin closed[c]

FrameInv(c) ==
  ~Mix(to_client[c], asked[c]) =>
    Whole(to_client[c]) /\ (Here(c) => OneOpen(to_client[c], sending[c]))

Conn(c) ==
  /\ Orderly(to_client[c])
  /\ Numbered(to_server[c], to_client[c], stream[c], asked[c])
  /\ Threaded(handler[c], stream[c], sending[c])
  /\ Here(c) => SentSoFar(to_client[c], stream[c], sending[c])
  /\ FrameInv(c)

ServerInv == TypeInv /\ \A c \in Conns : Conn(c)

(* The types of what belongs to a connection                               *)
LEMMA ConnTypes ==
  ASSUME TypeInv, NEW c \in Conns
  PROVE  /\ to_server[c] \in Seq(Message) /\ to_client[c] \in Seq(Piece)
         /\ stream[c] \in Stream /\ sending[c] \in [Threads -> Pong \union {NoPong}]
         /\ asked[c] \in 0 .. MaxAsked /\ asked[c] \in Nat
         /\ stream[c].request \in 0 .. MaxAsked /\ stream[c].cancel \in 0 .. MaxAsked
         /\ stream[c].request \in Nat /\ stream[c].cancel \in Nat
         /\ "streamer" \in Threads /\ "canceller" \in Threads
  BY Bounds DEF TypeInv, Shapes, Stream, Threads

(* A connection where nothing happens                                      *)
LEMMA KeptConn ==
  ASSUME NEW c, Conn(c), Kept(c)
  PROVE  Conn(c)'
<1>1. Here(c)' <=> Here(c)
  BY DEF Kept, Here
<1>2. FrameInv(c)'
  BY <1>1 DEF Conn, Kept, FrameInv
<1> QED BY <1>1, <1>2 DEF Conn, Kept

(* Taking the first message: its request is new, and then old              *)
LEMMA NumberedTail ==
  ASSUME NEW ts \in Seq(Message), ts # <<>>, NEW s \in Seq(Piece), NEW st \in Stream, NEW n \in Nat,
         Numbered(ts, s, st, n)
  PROVE  LET r == Head(ts).request
         IN  /\ r \in 1 .. n /\ r \in 0 .. MaxAsked /\ Untouched(s, r)
             /\ st.request < r /\ st.cancel < r
             /\ Old(r, Tail(ts), n) /\ Old(0, Tail(ts), n)
             /\ Numbered(Tail(ts), s, st, n)
<1> DEFINE r == Head(ts).request
           tl == Tail(ts)
<1>1. /\ Len(ts) \in Nat /\ 1 \in 1 .. Len(ts) /\ ts[1] = Head(ts)
      /\ Len(tl) \in Nat /\ Len(tl) = Len(ts) - 1
      /\ \A i \in 1 .. Len(tl) : i + 1 \in 1 .. Len(ts) /\ tl[i] = ts[i + 1] /\ 1 < i + 1
      /\ \A i \in 1 .. Len(ts) : ts[i] \in Message
      /\ \A i \in 1 .. Len(s) : s[i] \in Piece
  OBVIOUS
<1>2. \A i \in 1 .. Len(ts) : ts[i].request \in 0 .. MaxAsked
  BY <1>1 DEF Message
<1>3. \A i \in 1 .. Len(s) : s[i].request \in Nat
  BY <1>1, Bounds DEF Piece
<1>4. st.request \in Nat /\ st.cancel \in Nat
  BY Bounds DEF Stream
<1> HIDE DEF tl
<1>5. r \in 1 .. n /\ r \in 0 .. MaxAsked
  BY <1>1, <1>2 DEF Numbered, Pending
<1>6. Untouched(s, r) /\ st.request < r /\ st.cancel < r
  BY <1>1, <1>3, <1>4, <1>5 DEF Numbered, Old, Untouched
<1>7. Old(r, tl, n) /\ Old(0, tl, n)
  <2>1. \A i \in 1 .. Len(tl) : ts[1].request < tl[i].request /\ tl[i].request \in 1 .. n
    BY <1>1 DEF Numbered, Pending
  <2>2. 0 <= n /\ r <= n
    BY <1>5
  <2> QED BY <1>1, <2>1, <2>2 DEF Old
<1>8. ASSUME NEW x, Old(x, ts, n)
      PROVE  Old(x, tl, n)
  BY <1>1, <1>8 DEF Old
<1>9. Pending(tl, n)
  <2>1. \A i, j \in 1 .. Len(tl) : i < j => i + 1 < j + 1
    BY <1>1
  <2> QED BY <1>1, <2>1 DEF Numbered, Pending
<1>10. Numbered(tl, s, st, n)
  BY <1>8, <1>9 DEF Numbered
<1> QED BY <1>5, <1>6, <1>7, <1>10 DEF tl

(* Sending a piece about an old request                                    *)
LEMMA NumberedAppend ==
  ASSUME NEW ts, NEW s \in Seq(Piece), NEW st, NEW n, NEW p \in Piece,
         Numbered(ts, s, st, n), Old(p.request, ts, n)
  PROVE  Numbered(ts, Append(s, p), st, n)
<1>1. /\ Len(s) \in Nat /\ Len(Append(s, p)) = Len(s) + 1
      /\ \A i \in 1 .. Len(s) : Append(s, p)[i] = s[i]
      /\ Append(s, p)[Len(s) + 1] = p
  BY Appended
<1>2. \A i \in 1 .. Len(Append(s, p)) : i \in 1 .. Len(s) \/ i = Len(s) + 1
  BY <1>1
<1> QED BY <1>1, <1>2 DEF Numbered

(* A client sends the next request                                         *)
LEMMA NumberedAsk ==
  ASSUME NEW ts \in Seq(Message), NEW s \in Seq(Piece), NEW st \in Stream, NEW n \in Nat,
         NEW m \in Message, m.request = n + 1, Numbered(ts, s, st, n)
  PROVE  Numbered(Append(ts, m), s, st, n + 1)
<1> DEFINE t == Append(ts, m)
<1>1. /\ Len(ts) \in Nat /\ Len(t) = Len(ts) + 1
      /\ \A i \in 1 .. Len(ts) : t[i] = ts[i]
      /\ t[Len(ts) + 1] = m
  OBVIOUS
<1>2. \A i \in 1 .. Len(t) : i \in 1 .. Len(ts) \/ i = Len(ts) + 1
  BY <1>1
<1> HIDE DEF t
<1>3. \A i \in 1 .. Len(ts) : t[i].request \in 1 .. n
  BY <1>1 DEF Numbered, Pending
<1>4. Pending(t, n + 1)
  <2>1. \A i \in 1 .. Len(t) : t[i].request \in 1 .. n + 1
    BY <1>1, <1>2, <1>3
  <2>2. \A i, j \in 1 .. Len(t) : i < j => t[i].request < t[j].request
    <3> SUFFICES ASSUME NEW i \in 1 .. Len(t), NEW j \in 1 .. Len(t), i < j
                 PROVE  t[i].request < t[j].request
      OBVIOUS
    <3>1. i \in 1 .. Len(ts)
      BY <1>1
    <3>2. CASE j \in 1 .. Len(ts)
      BY <1>1, <3>1, <3>2 DEF Numbered, Pending
    <3>3. CASE j = Len(ts) + 1
      BY <1>1, <1>3, <3>1, <3>3
    <3> QED BY <1>2, <3>2, <3>3
  <2> QED BY <2>1, <2>2 DEF Pending
<1>5. ASSUME NEW x \in Nat, Old(x, ts, n)
      PROVE  Old(x, t, n + 1)
  BY <1>1, <1>2, <1>5 DEF Old
<1>6. \A i \in 1 .. Len(s) : s[i].request \in Nat
  <2>1. \A i \in 1 .. Len(s) : s[i] \in Piece
    OBVIOUS
  <2> QED BY <2>1, Bounds DEF Piece
<1>7. st.request \in Nat /\ st.cancel \in Nat
  BY Bounds DEF Stream
<1> QED BY <1>4, <1>5, <1>6, <1>7 DEF Numbered, t

(* What a client sent last is lost                                         *)
LEMMA NumberedLost ==
  ASSUME NEW ts \in Seq(Message), NEW k \in 0 .. Len(ts), NEW s, NEW st, NEW n,
         Numbered(ts, s, st, n)
  PROVE  Numbered(SubSeq(ts, 1, k), s, st, n)
<1>1. /\ Len(SubSeq(ts, 1, k)) = k
      /\ \A i \in 1 .. k : SubSeq(ts, 1, k)[i] = ts[i] /\ i \in 1 .. Len(ts)
  OBVIOUS
<1>2. Pending(SubSeq(ts, 1, k), n)
  BY <1>1 DEF Numbered, Pending
<1>3. ASSUME NEW x, Old(x, ts, n)
      PROVE  Old(x, SubSeq(ts, 1, k), n)
  BY <1>1, <1>3 DEF Old
<1> QED BY <1>2, <1>3 DEF Numbered

(* A message is not the absence of one                                     *)
LEMMA PongIsOne ==
  ASSUME NEW err, NEW r
  PROVE  [err |-> err, request |-> r] # NoPong
  BY DEF NoPong

(* What NoStream says                                                      *)
LEMMA NoStreamIs ==
  /\ NoStream.streamer = "done" /\ NoStream.canceller = "done"
  /\ NoStream.request = 0 /\ NoStream.cancel = 0
  BY DEF NoStream

(* The handler goes on without an answer                                   *)
LEMMA SilentConn ==
  ASSUME TypeInv, NEW c \in Conns, Conn(c), Silent(c)
  PROVE  Conn(c)'
<1>1. Numbered(to_server'[c], to_client[c], stream[c], asked[c])
  BY ConnTypes, NumberedTail DEF Silent, Conn
<1>2. Threaded(handler'[c], stream[c], sending[c])
  BY DEF Silent, Conn, Threaded
<1>3. Here(c)' <=> Here(c)
  BY DEF Silent, Here
<1> QED BY <1>1, <1>2, <1>3 DEF Silent, Conn, FrameInv

(* A stream begins: its request is new                                     *)
LEMMA BeginsConn ==
  ASSUME TypeInv, TypeInv', NEW c \in Conns, Conn(c), Begins(c)
  PROVE  Conn(c)'
<1> DEFINE st == stream'[c]
           r == Head(to_server[c]).request
<1>1. /\ r \in 1 .. asked[c] /\ Untouched(to_client[c], r)
      /\ Old(r, Tail(to_server[c]), asked[c]) /\ Old(0, Tail(to_server[c]), asked[c])
      /\ Numbered(Tail(to_server[c]), to_client[c], stream[c], asked[c])
      /\ \A i \in 1 .. Len(to_client[c]) : to_client[c][i].request < r
  <2>1. \A i \in 1 .. Len(to_client[c]) : to_client[c][i].request < r
    BY ConnTypes DEF Begins, Conn, Numbered, Old
  <2> QED BY <2>1, ConnTypes, NumberedTail DEF Begins, Conn
<1>2. /\ st.request = r /\ r # 0 /\ st.cancel = 0 /\ ~st.cancelled
      /\ st.streamer = "starting" /\ st.canceller = "receiving"
  BY <1>1, ConnTypes DEF Begins
<1>3. Numbered(to_server'[c], to_client[c], st, asked[c])
  BY <1>1, <1>2 DEF Begins, Numbered
<1>4. stream[c] = NoStream /\ \A t \in Threads : sending[c][t] = NoPong
  BY DEF Begins, Conn, Threaded
<1>5. Threaded(handler'[c], st, sending[c])
  BY <1>2, <1>4, ConnTypes DEF Threaded, Begins
<1>6. Here(c)' <=> Here(c)
  BY DEF Begins, Here
<1>7. ASSUME Here(c) PROVE SentSoFar(to_client[c], st, sending[c])
  <2>1. AllEnded(to_client[c], 0)
    BY <1>4, <1>7, NoStreamIs DEF Conn, SentSoFar
  <2>2. ~Passed(to_client[c], r)
    <3>1. \A i \in 1 .. Len(to_client[c]) : to_client[c][i] \in Piece
      BY ConnTypes
    <3>2. \A i \in 1 .. Len(to_client[c]) : to_client[c][i].request \in Nat
      BY <3>1, Bounds DEF Piece
    <3> QED BY <1>1, <3>2, ConnTypes DEF Passed
  <2> QED BY <1>1, <1>2, <1>4, <2>1, <2>2, ConnTypes DEF SentSoFar
<1> QED BY <1>3, <1>5, <1>6, <1>7 DEF Begins, Conn, FrameInv

(* A stream ends                                                           *)
LEMMA JoinsConn ==
  ASSUME TypeInv, NEW c \in Conns, Conn(c), Joins(c)
  PROVE  Conn(c)'
<1>1. Old(0, to_server[c], asked[c])
  <2>1. \A i \in 1 .. Len(to_server[c]) : to_server[c][i].request \in 1 .. asked[c]
    BY DEF Conn, Numbered, Pending
  <2> QED BY <2>1, ConnTypes DEF Old
<1>2. Numbered(to_server[c], to_client[c], NoStream, asked[c])
  BY <1>1, NoStreamIs DEF Conn, Numbered
<1>3. Threaded(handler'[c], NoStream, sending[c])
  BY DEF Joins, Threaded
<1>4. Here(c)' <=> Here(c)
  BY DEF Joins, Here
<1>5. ASSUME Here(c) PROVE SentSoFar(to_client[c], NoStream, sending[c])
  BY <1>5, NoStreamIs, ConnTypes DEF Joins, Conn, SentSoFar
<1> QED BY <1>2, <1>3, <1>4, <1>5 DEF Joins, Conn, FrameInv

(* The streamer looks for a chunk: if it finds one, nothing was cancelled  *)
LEMMA LooksConn ==
  ASSUME TypeInv, NEW c \in Conns, Conn(c), Looks(c)
  PROVE  Conn(c)'
<1> DEFINE st == stream[c]
           sn == stream'[c]
<1>1. /\ sn.request = st.request /\ sn.cancel = st.cancel /\ sn.canceller = st.canceller
      /\ sn.cancelled = st.cancelled
      /\ sn.streamer = "ending" \/ (sn.streamer = "has_chunk" /\ ~st.cancelled)
  BY ConnTypes DEF Looks, Stream
<1>2. st.streamer = "looping" /\ sending[c]["streamer"] = NoPong /\ sending'[c] = sending[c]
      /\ handler[c] = "streaming" /\ handler'[c] = "streaming" /\ to_client'[c] = to_client[c]
      /\ to_server'[c] = to_server[c] /\ asked'[c] = asked[c]
  BY DEF Looks, Streaming
<1> HIDE DEF sn, st
<1>3. Numbered(to_server[c], to_client[c], sn, asked[c])
  BY <1>1 DEF Conn, Numbered, st
<1>4. Threaded(handler'[c], sn, sending[c])
  BY <1>1, <1>2 DEF Conn, Threaded, st
<1>5. Here(c)' <=> Here(c)
  BY DEF Looks, Streaming, Here
<1>6. ASSUME Here(c) PROVE SentSoFar(to_client[c], sn, sending[c])
  BY <1>1, <1>2, <1>6, NotPassed DEF Conn, SentSoFar, st
<1> QED BY <1>2, <1>3, <1>4, <1>5, <1>6 DEF Conn, FrameInv, sn

(* The canceller takes a message: its request is new                       *)
LEMMA TakesConn ==
  ASSUME TypeInv, NEW c \in Conns, Conn(c), Takes(c)
  PROVE  Conn(c)'
<1> DEFINE st == stream[c]
           sn == stream'[c]
           r == Head(to_server[c]).request
<1>1. /\ handler[c] = "streaming" /\ handler'[c] = "streaming"
      /\ to_client'[c] = to_client[c] /\ sending'[c] = sending[c] /\ asked'[c] = asked[c]
      /\ st.canceller = "receiving"
  BY DEF Takes, Streaming
<1>2. Here(c)' <=> Here(c)
  BY DEF Takes, Streaming, Here
<1>3. sending[c]["canceller"] = NoPong
  BY <1>1 DEF Conn, Threaded
<1>4. sn.request = st.request /\ sn.streamer = st.streamer /\ (st.cancelled => sn.cancelled)
  BY ConnTypes DEF Takes, Stream
<1>5. CASE sn.canceller = "done" /\ sn.cancel = st.cancel
  <2>1. Numbered(to_server'[c], to_client[c], st, asked[c])
    BY ConnTypes, NumberedTail DEF Takes, Conn
  <2>2. Numbered(to_server'[c], to_client[c], sn, asked[c])
    BY <1>4, <1>5, <2>1 DEF Numbered
  <2>3. Threaded(handler'[c], sn, sending[c])
    BY <1>1, <1>3, <1>4, <1>5 DEF Conn, Threaded
  <2>4. ASSUME Here(c) PROVE SentSoFar(to_client[c], sn, sending[c])
    BY <1>3, <1>4, <1>5, <2>4 DEF Conn, SentSoFar
  <2> QED BY <1>1, <1>2, <2>2, <2>3, <2>4 DEF Conn, FrameInv
<1>6. CASE /\ to_server[c] # <<>> /\ to_server'[c] = Tail(to_server[c])
           /\ sn.canceller = "answering" /\ sn.cancel = r /\ sn.cancelled
  <2>1. /\ Numbered(Tail(to_server[c]), to_client[c], st, asked[c])
        /\ Old(r, Tail(to_server[c]), asked[c]) /\ Untouched(to_client[c], r) /\ st.request < r
    BY <1>6, ConnTypes, NumberedTail DEF Conn
  <2>2. Numbered(to_server'[c], to_client[c], sn, asked[c])
    BY <1>4, <1>6, <2>1 DEF Numbered
  <2>3. Threaded(handler'[c], sn, sending[c])
    BY <1>1, <1>3, <1>4, <1>6, <2>1 DEF Conn, Threaded
  <2>4. ASSUME Here(c) PROVE SentSoFar(to_client[c], sn, sending[c])
    BY <1>3, <1>4, <1>6, <2>1, <2>4 DEF Conn, SentSoFar
  <2> QED BY <1>1, <1>2, <2>2, <2>3, <2>4 DEF Conn, FrameInv
<1>7. \/ sn.canceller = "done" /\ sn.cancel = st.cancel
      \/ /\ to_server[c] # <<>> /\ to_server'[c] = Tail(to_server[c])
         /\ sn.canceller = "answering" /\ sn.cancel = r /\ sn.cancelled
  BY ConnTypes DEF Takes, Stream
<1> QED BY <1>5, <1>6, <1>7

(* The client sends a message, or goes away                                *)
LEMMA ClientConn ==
  ASSUME TypeInv, NEW c \in Conns, Conn(c), Asks(c) \/ Goes(c)
  PROVE  Conn(c)'
<1>1. /\ to_client'[c] = to_client[c] /\ handler'[c] = handler[c]
      /\ stream'[c] = stream[c] /\ sending'[c] = sending[c]
      /\ Here(c)' => Here(c)
  BY DEF Asks, Goes, Here
<1>2. Numbered(to_server'[c], to_client[c], stream[c], asked'[c])
  <2>1. CASE Asks(c)
    BY <2>1, ConnTypes, NumberedAsk DEF Asks, Conn
  <2>2. CASE Goes(c)
    BY <2>2, ConnTypes, NumberedLost DEF Goes, Conn
  <2> QED BY <2>1, <2>2
<1>3. Mix(to_client[c], asked[c]) => Mix(to_client[c], asked'[c])
  <2>1. asked'[c] \in {asked[c], asked[c] + 1}
    BY DEF Asks, Goes
  <2>2. Mix(to_client[c], asked[c]) => Mix(to_client[c], asked[c] + 1)
    <3>1. Length("SUCCESS", 0) \in Piece
      BY Bounds, AnswerPieces DEF Codes
    <3> QED BY <3>1, ConnTypes, MixStays
  <2> QED BY <2>1, <2>2
<1> QED BY <1>1, <1>2, <1>3 DEF Conn, FrameInv

(* The handler answers a new request, or the null one, with two pieces     *)
LEMMA AnswersConn ==
  ASSUME TypeInv, NEW c \in Conns, Conn(c), Answers(c)
  PROVE  Conn(c)'
<1> DEFINE s == to_client[c]
           tl == Tail(to_server[c])
           n == asked[c]
<1>1. /\ to_server[c] # <<>> /\ to_server'[c] = tl
      /\ stream'[c] = stream[c] /\ sending'[c] = sending[c] /\ asked'[c] = n
      /\ handler[c] # "streaming" /\ handler'[c] # "streaming"
      /\ Here(c)' <=> Here(c)
  BY DEF Answers, Here
<1>2. stream[c] = NoStream /\ \A t \in Threads : sending[c][t] = NoPong
  BY <1>1 DEF Conn, Threaded
<1>3. PICK err \in {"SUCCESS"} \union ErrorCodes, r \in {0, Head(to_server[c]).request} :
        Delivers(c, <<Length(err, r), Body(err, r)>>)
  BY DEF Answers
<1>4. /\ r \in 0 .. MaxAsked
      /\ r # 0 => Untouched(s, r)
      /\ Old(r, tl, n) /\ Numbered(tl, s, stream[c], n)
  BY <1>1, <1>3, ConnTypes, NumberedTail, Bounds DEF Conn
<1>5. Threaded(handler'[c], stream[c], sending[c])
  BY <1>1, <1>2 DEF Threaded
<1>6. CASE ~Here(c)
  <2>1. to_client'[c] = s
    BY <1>3, <1>6 DEF Delivers, Here
  <2> QED BY <1>1, <1>4, <1>5, <1>6, <2>1 DEF Conn, FrameInv
<1>7. CASE Here(c)
  <2> DEFINE l == Length(err, r)
             b == Body(err, r)
             s1 == Append(s, l)
             s2 == Append(s1, b)
  <2>1. /\ l \in Piece /\ b \in Piece
        /\ l.part = "length" /\ b.part = "body" /\ l.request = r /\ b.request = r /\ l.err = err
        /\ s \in Seq(Piece) /\ s1 \in Seq(Piece) /\ s2 \in Seq(Piece)
    <3>1. err \in Codes
      BY <1>3 DEF Codes
    <3>2. l \in Piece /\ b \in Piece
      BY <1>4, <3>1, AnswerPieces
    <3>3. l.part = "length" /\ b.part = "body" /\ l.request = r /\ b.request = r /\ l.err = err
      BY DEF Length, Body
    <3> QED BY <3>2, <3>3, ConnTypes, Appended
  <2>2. to_client'[c] = s2
    <3>1. to_client'[c] = s \o <<l, b>>
      BY <1>3, <1>7 DEF Delivers, Here
    <3>2. s \o <<l, b>> = s2
      <4> HIDE DEF l, b
      <4> QED BY <2>1
    <3> QED BY <3>1, <3>2
  <2>3. err \notin {"START_STREAM", "STREAM_CHUNK", "END_STREAM"} /\ err \in Final
    BY DEF ErrorCodes, Final
  <2> HIDE DEF l, b, s1, s2
  <2>4. Orderly(s2)
    <3>1. Fits(s, l)
      BY <1>4, <2>1, <2>3 DEF Fits, Untouched, Sent
    <3>2. Orderly(s1)
      BY <2>1, <3>1, OrderlyAppend DEF Conn, s1
    <3>3. Fits(s1, b)
      BY <2>1 DEF Fits
    <3> QED BY <2>1, <3>2, <3>3, OrderlyAppend DEF s2
  <2>5. Numbered(tl, s2, stream[c], n)
    BY <1>4, <2>1, NumberedAppend DEF s1, s2
  <2>6. SentSoFar(s2, stream[c], sending[c])
    <3>1. AllEnded(s, 0)
      BY <1>2, <1>7, NoStreamIs DEF Conn, SentSoFar
    <3>2. AllEnded(s1, 0)
      BY <2>1, <2>3, <3>1, AppendFacts DEF s1
    <3>3. AllEnded(s2, 0)
      BY <2>1, <3>2, AppendFacts DEF s2
    <3> QED BY <1>2, <3>3, NoStreamIs, ConnTypes DEF SentSoFar
  <2>7. ASSUME ~Mix(s2, n)
        PROVE  Whole(s2) /\ OneOpen(s2, sending[c])
    <3>1. ~Mix(s, n)
      BY <2>1, <2>7, ConnTypes, MixStays DEF s1, s2
    <3>2. Whole(s) /\ Len(s) % 2 = 0
      BY <1>2, <1>7, <3>1 DEF Conn, FrameInv, OneOpen
    <3>3. Whole(s1) /\ Len(s1) % 2 = 1
      BY <2>1, <3>2, WholeLength DEF s1
    <3>4. s1[Len(s1)] = Length(err, r)
      BY <2>1, Appended DEF s1, l
    <3>5. Whole(s2) /\ Len(s2) % 2 = 0
      BY <1>3, <1>4, <2>1, <3>3, <3>4, WholeBody DEF s2, b, Codes
    <3> QED BY <1>2, <3>5 DEF OneOpen
  <2> QED BY <1>1, <1>5, <2>2, <2>4, <2>5, <2>6, <2>7 DEF Conn, FrameInv
<1> QED BY <1>6, <1>7

(* An answer that is sent while the stream of an earlier request is not    *)
(* over mixes the messages                                                 *)
LEMMA MixesNow ==
  ASSUME NEW s \in Seq(Piece), NEW n \in Nat, NEW q \in 1 .. n, NEW r \in 1 .. q - 1,
         Sent(s, {"START_STREAM"}, r), Sent(s, {"SUCCESS"}, q),
         \A e \in 1 .. Len(s) : Says(s, e, {"END_STREAM"}) /\ s[e].request = r => Len(s) <= e + 1
  PROVE  Mix(s, n)
<1>1. PICK k \in 1 .. Len(s) : Says(s, k, {"SUCCESS"}) /\ s[k].request = q
  BY DEF Sent
<1>2. \A e \in 1 .. Len(s) : Says(s, e, {"END_STREAM"}) /\ s[e].request = r => k <= e + 1
  OBVIOUS
<1> QED BY <1>1, <1>2 DEF Mix

(* The end of a stream that has no final answer is the last piece, if any  *)
LEMMA LastEnd ==
  ASSUME NEW s \in Seq(Piece), NEW p \in Piece, NEW r \in Nat, ~Sent(s, Final, r)
  PROVE  LET t == Append(s, p)
         IN  \A e \in 1 .. Len(t) :
               Says(t, e, {"END_STREAM"}) /\ t[e].request = r => Len(t) <= e + 1
<1> DEFINE t == Append(s, p)
<1>1. /\ Len(s) \in Nat /\ Len(t) = Len(s) + 1
      /\ \A i \in 1 .. Len(s) : t[i] = s[i]
      /\ \A i \in 1 .. Len(s) : \A errs : Says(t, i, errs) <=> Says(s, i, errs)
  BY Appended
<1> HIDE DEF t
<1> SUFFICES ASSUME NEW e \in 1 .. Len(t), Says(t, e, {"END_STREAM"}), t[e].request = r
             PROVE  Len(t) <= e + 1
  BY DEF t
<1>2. CASE e \in 1 .. Len(s)
  <2>1. Says(s, e, Final) /\ s[e].request = r
    BY <1>1, <1>2 DEF Says, Final
  <2> QED BY <1>2, <2>1 DEF Sent
<1>3. CASE e = Len(s) + 1
  BY <1>1, <1>3
<1> QED BY <1>1, <1>2, <1>3

(* The streamer sends the length of a message                              *)
LEMMA StreamerSendsConn ==
  ASSUME TypeInv, NEW c \in Conns, Conn(c), NEW from, NEW err, NEW to,
         \/ from = "starting" /\ err = "START_STREAM" /\ to = "looping"
         \/ from = "has_chunk" /\ err = "STREAM_CHUNK" /\ to = "looping"
         \/ from = "ending" /\ err = "END_STREAM" /\ to = "done",
         StreamerSends(c, from, err, to)
  PROVE  Conn(c)'
<1> DEFINE s == to_client[c]
           st == stream[c]
           sn == stream'[c]
           sd == sending[c]
           sm == sending'[c]
           r == stream[c].request
           p == Length(err, r)
           n == asked[c]
<1>1. /\ to_server'[c] = to_server[c] /\ asked'[c] = n
      /\ handler[c] = "streaming" /\ handler'[c] = "streaming"
      /\ Here(c)' <=> Here(c)
      /\ st.streamer = from /\ sd["streamer"] = NoPong
      /\ Delivers(c, <<p>>)
  BY DEF StreamerSends, Sends, Streaming, Here
<1>2. /\ sn.request = r /\ sn.cancel = st.cancel /\ sn.canceller = st.canceller
      /\ sn.cancelled = st.cancelled /\ sn.streamer = to
  BY ConnTypes DEF StreamerSends, Stream
<1>3. /\ sm["streamer"] = [err |-> err, request |-> r] /\ sm["streamer"] # NoPong
      /\ sm["canceller"] = sd["canceller"]
  BY ConnTypes, PongIsOne DEF StreamerSends, Sends
<1>4. r \in Nat /\ r # 0 /\ r \in 0 .. MaxAsked
  BY <1>1, ConnTypes DEF Conn, Threaded
<1>5. err \in Codes /\ p \in Piece /\ p.part = "length" /\ p.err = err /\ p.request = r
  <2>1. err \in Codes
    BY DEF Codes
  <2> QED BY <1>4, <2>1, AnswerPieces DEF Length
<1>6. Numbered(to_server[c], s, sn, n) /\ Old(r, to_server[c], n)
  BY <1>2 DEF Conn, Numbered
<1>7. Threaded(handler'[c], sn, sm)
  BY <1>1, <1>2, <1>3, <1>4 DEF Conn, Threaded
<1>8. CASE ~Here(c)
  <2>1. to_client'[c] = s
    BY <1>1, <1>8 DEF Delivers, Here
  <2> QED BY <1>1, <1>6, <1>7, <1>8, <2>1 DEF Conn, FrameInv
<1>9. CASE Here(c)
  <2> DEFINE t == Append(s, p)
  <2>1. s \in Seq(Piece) /\ t \in Seq(Piece) /\ to_client'[c] = t
    BY <1>1, <1>5, <1>9, ConnTypes, Appended DEF Delivers, Here
  <2>2. SentSoFar(s, st, sd)
    BY <1>9 DEF Conn
  <2>3. /\ from = "starting" => Untouched(s, r) /\ AllEnded(s, 0)
        /\ from # "starting" => Sent(s, {"START_STREAM"}, r) /\ AllEnded(s, r)
        /\ ~Sent(s, Final, r)
        /\ from = "has_chunk" => NoLate(s, r)
    <3>1. Untouched(s, r) => ~Sent(s, Final, r)
      BY DEF Untouched, Sent
    <3> QED BY <1>1, <1>4, <2>2, <3>1 DEF SentSoFar
  <2> HIDE DEF t, p
  <2>4. Orderly(t)
    <3>1. Untouched(s, r) => ~Sent(s, {"START_STREAM"}, r)
      BY DEF Untouched, Sent
    <3>2. Fits(s, p)
      BY <1>5, <2>3, <3>1 DEF Fits, Final, ErrorCodes
    <3> QED BY <1>5, <2>1, <3>2, OrderlyAppend DEF Conn, t
  <2>5. Numbered(to_server[c], t, sn, n)
    BY <1>5, <1>6, <2>1, NumberedAppend DEF t
  <2>6. SentSoFar(t, sn, sm)
    <3>1. /\ to = "looping" => Sent(t, {"START_STREAM"}, r) /\ ~Sent(t, Final, r) /\ AllEnded(t, r)
          /\ to = "done" => AllEnded(t, 0)
      <4>1. "START_STREAM" \notin Final /\ "STREAM_CHUNK" \notin Final
        BY DEF Final, ErrorCodes
      <4>2. AllEnded(s, 0) => AllEnded(s, r)
        BY DEF AllEnded
      <4> QED BY <1>4, <1>5, <2>1, <2>3, <4>1, <4>2, AppendFacts DEF t
    <3>2. st.canceller = "answering" => Untouched(t, st.cancel)
      <4>1. st.canceller = "answering" => r # st.cancel
        BY <1>1, ConnTypes DEF Conn, Threaded
      <4> QED BY <1>5, <2>1, <2>2, <4>1, ConnTypes, AppendFacts DEF t, SentSoFar
    <3>3. Passed(t, r) => st.cancelled
      BY <1>4, <1>5, <2>1, <2>2, AppendFacts DEF t, SentSoFar
    <3>4. sm["canceller"] # NoPong => Sent(t, {"SUCCESS"}, st.cancel)
      BY <1>3, <1>5, <2>1, <2>2, ConnTypes, AppendFacts DEF t, SentSoFar
    <3> QED BY <1>2, <3>1, <3>2, <3>3, <3>4 DEF SentSoFar
  <2>7. ASSUME ~Mix(t, n)
        PROVE  Whole(t) /\ OneOpen(t, sm)
    <3>1. ~Mix(s, n)
      BY <1>5, <2>1, <2>7, ConnTypes, MixStays DEF t
    <3>2. Whole(s) /\ OneOpen(s, sd)
      BY <1>9, <3>1 DEF Conn, FrameInv
    <3>3. sd["canceller"] = NoPong
      <4> SUFFICES ASSUME sd["canceller"] # NoPong PROVE FALSE
        OBVIOUS
      <4>1. r < st.cancel /\ Sent(s, {"SUCCESS"}, st.cancel) /\ st.cancel <= n
        BY <1>1, <2>2 DEF Conn, Threaded, SentSoFar, Numbered, Old
      <4>2. st.cancel \in 1 .. n /\ r \in 1 .. st.cancel - 1
        BY <1>4, <4>1, ConnTypes
      <4>3. Sent(t, {"SUCCESS"}, st.cancel) /\ Sent(t, {"START_STREAM"}, r)
        BY <1>4, <1>5, <2>1, <2>3, <4>1, ConnTypes, AppendFacts DEF t
      <4>4. \A e \in 1 .. Len(t) :
              Says(t, e, {"END_STREAM"}) /\ t[e].request = r => Len(t) <= e + 1
        BY <1>4, <1>5, <2>1, <2>3, LastEnd DEF t
      <4> QED BY <2>1, <2>7, <4>2, <4>3, <4>4, ConnTypes, MixesNow
    <3>4. \A u \in Threads : u = "streamer" \/ u = "canceller"
      BY DEF Threads
    <3>5. Len(s) % 2 = 0
      BY <1>1, <3>2, <3>3, <3>4 DEF OneOpen
    <3>6. Whole(t) /\ Len(t) % 2 = 1
      BY <1>5, <2>1, <3>2, <3>5, WholeLength DEF t
    <3>7. t[Len(t)] = p
      BY <1>5, <2>1, Appended DEF t
    <3>8. sm["streamer"].err = err /\ sm["streamer"].request = r
      BY <1>3
    <3>9. OneOpen(t, sm)
      BY <1>3, <3>3, <3>4, <3>6, <3>7, <3>8, ConnTypes DEF OneOpen, p
    <3> QED BY <3>6, <3>9
  <2> QED BY <1>1, <1>7, <2>1, <2>4, <2>5, <2>6, <2>7 DEF Conn, FrameInv
<1> QED BY <1>8, <1>9

(* The canceller sends the length of its answer                            *)
LEMMA CancellerSendsConn ==
  ASSUME TypeInv, NEW c \in Conns, Conn(c), CancellerSends(c)
  PROVE  Conn(c)'
<1> DEFINE s == to_client[c]
           st == stream[c]
           sn == stream'[c]
           sd == sending[c]
           sm == sending'[c]
           r == stream[c].request
           q == stream[c].cancel
           p == Length("SUCCESS", q)
           n == asked[c]
<1>1. /\ to_server'[c] = to_server[c] /\ asked'[c] = n
      /\ handler[c] = "streaming" /\ handler'[c] = "streaming"
      /\ Here(c)' <=> Here(c)
      /\ st.canceller = "answering"
      /\ Delivers(c, <<p>>)
  BY DEF CancellerSends, Sends, Streaming, Here
<1>2. /\ sn.request = r /\ sn.cancel = q /\ sn.canceller = "done"
      /\ sn.cancelled = st.cancelled /\ sn.streamer = st.streamer
  BY ConnTypes DEF CancellerSends, Stream
<1>3. /\ sm["canceller"] = [err |-> "SUCCESS", request |-> q] /\ sm["canceller"] # NoPong
      /\ sm["streamer"] = sd["streamer"]
  BY ConnTypes, PongIsOne DEF CancellerSends, Sends
<1>4. /\ r \in Nat /\ r # 0 /\ q \in Nat /\ q \in 0 .. MaxAsked /\ r < q
      /\ st.cancelled /\ sd["canceller"] = NoPong
  BY <1>1, ConnTypes DEF Conn, Threaded
<1>5. p \in Piece /\ p.part = "length" /\ p.err = "SUCCESS" /\ p.request = q
  <2>1. "SUCCESS" \in Codes
    BY DEF Codes
  <2> QED BY <1>4, <2>1, AnswerPieces DEF Length
<1>6. Numbered(to_server[c], s, sn, n) /\ Old(q, to_server[c], n)
  BY <1>2 DEF Conn, Numbered
<1>7. Threaded(handler'[c], sn, sm)
  BY <1>1, <1>2, <1>3, <1>4 DEF Conn, Threaded
<1>8. CASE ~Here(c)
  <2>1. to_client'[c] = s
    BY <1>1, <1>8 DEF Delivers, Here
  <2> QED BY <1>1, <1>6, <1>7, <1>8, <2>1 DEF Conn, FrameInv
<1>9. CASE Here(c)
  <2> DEFINE t == Append(s, p)
  <2>1. s \in Seq(Piece) /\ t \in Seq(Piece) /\ to_client'[c] = t
    BY <1>1, <1>5, <1>9, ConnTypes, Appended DEF Delivers, Here
  <2>2. SentSoFar(s, st, sd) /\ Untouched(s, q)
    BY <1>1, <1>9 DEF Conn, SentSoFar
  <2> HIDE DEF t, p
  <2>3. Orderly(t)
    <3>1. Fits(s, p)
      BY <1>5, <2>2 DEF Fits, Untouched, Sent
    <3> QED BY <1>5, <2>1, <3>1, OrderlyAppend DEF Conn, t
  <2>4. Numbered(to_server[c], t, sn, n)
    BY <1>5, <1>6, <2>1, NumberedAppend DEF t
  <2>5. SentSoFar(t, sn, sm)
    <3>1. /\ AllEnded(s, 0) => AllEnded(t, 0)
          /\ AllEnded(s, r) => AllEnded(t, r)
      BY <1>4, <1>5, <2>1, AppendFacts DEF t
    <3>2. /\ Untouched(s, r) => Untouched(t, r)
          /\ Sent(s, {"START_STREAM"}, r) => Sent(t, {"START_STREAM"}, r)
          /\ Sent(t, Final, r) => Sent(s, Final, r)
          /\ NoLate(s, r) => NoLate(t, r)
      BY <1>4, <1>5, <2>1, AppendFacts DEF t
    <3>3. Sent(t, {"SUCCESS"}, q)
      BY <1>4, <1>5, <2>1, AppendFacts DEF t
    <3> QED BY <1>2, <1>4, <2>2, <3>1, <3>2, <3>3 DEF SentSoFar
  <2>6. ASSUME ~Mix(t, n)
        PROVE  Whole(t) /\ OneOpen(t, sm)
    <3>1. ~Mix(s, n)
      BY <1>5, <2>1, <2>6, ConnTypes, MixStays DEF t
    <3>2. Whole(s) /\ OneOpen(s, sd)
      BY <1>9, <3>1 DEF Conn, FrameInv
    <3>3. sd["streamer"] = NoPong
      <4> SUFFICES ASSUME sd["streamer"] # NoPong PROVE FALSE
        OBVIOUS
      <4>1. q \in 1 .. n /\ r \in 1 .. q - 1
        BY <1>4, <1>6, ConnTypes DEF Old
      <4>2. Sent(t, {"SUCCESS"}, q)
        BY <1>4, <1>5, <2>1, AppendFacts DEF t
      <4>3. CASE st.streamer = "looping"
        <5>1. Sent(s, {"START_STREAM"}, r) /\ ~Sent(s, Final, r)
          BY <2>2, <4>3 DEF SentSoFar
        <5>2. Sent(t, {"START_STREAM"}, r)
          BY <1>4, <1>5, <2>1, <5>1, AppendFacts DEF t
        <5>3. \A e \in 1 .. Len(t) :
                Says(t, e, {"END_STREAM"}) /\ t[e].request = r => Len(t) <= e + 1
          BY <1>4, <1>5, <2>1, <5>1, LastEnd DEF t
        <5> QED BY <2>1, <2>6, <4>1, <4>2, <5>2, <5>3, ConnTypes, MixesNow
      <4>4. CASE sd["streamer"].request = r /\ sd["streamer"].err = "END_STREAM"
        <5>1. /\ Len(s) \in Nat /\ Len(t) = Len(s) + 1
              /\ \A i \in 1 .. Len(s) : t[i] = s[i]
              /\ \A i \in 1 .. Len(s) : \A errs : Says(t, i, errs) <=> Says(s, i, errs)
              /\ \A errs : Says(t, Len(s) + 1, errs) <=> (p.part = "length" /\ p.err \in errs)
          BY <1>5, <2>1, Appended DEF t
        <5>2. Len(s) \in 1 .. Len(s) /\ s[Len(s)] = Length("END_STREAM", r)
          <6>1. /\ Len(s) % 2 = 1
                /\ s[Len(s)] = Length(sd["streamer"].err, sd["streamer"].request)
            BY <3>2, ConnTypes DEF OneOpen
          <6>2. Len(s) # 0
            <7>1. \A k \in Nat : k % 2 = 1 => k # 0
              OBVIOUS
            <7> QED BY <5>1, <6>1, <7>1
          <6> QED BY <4>4, <5>1, <6>1, <6>2
        <5>3. Says(s, Len(s), {"END_STREAM"}) /\ Says(s, Len(s), Final) /\ s[Len(s)].request = r
          BY <5>2 DEF Says, Length, Final
        <5>4. Sent(s, {"START_STREAM"}, r)
          <6>1. Says(s, Len(s), {"STREAM_CHUNK", "END_STREAM"})
            BY <5>3 DEF Says
          <6>2. PICK j \in 1 .. Len(s) - 1 : Says(s, j, {"START_STREAM"}) /\ Same(s, Len(s), j)
            BY <1>4, <5>2, <5>3, <6>1 DEF Conn, Orderly, Framed
          <6>3. j \in 1 .. Len(s) /\ s[j].request = r
            BY <5>1, <5>3, <6>2 DEF Same
          <6> QED BY <6>2, <6>3 DEF Sent
        <5>5. Sent(t, {"START_STREAM"}, r)
          BY <1>4, <1>5, <2>1, <5>4, AppendFacts DEF t
        <5>6. ASSUME NEW e \in 1 .. Len(t), Says(t, e, {"END_STREAM"}), t[e].request = r
              PROVE  Len(t) <= e + 1
          <6>1. e \in 1 .. Len(s)
            BY <1>5, <5>1, <5>6
          <6>2. Says(s, e, Final) /\ Same(s, e, Len(s))
            BY <1>4, <5>1, <5>3, <5>6, <6>1 DEF Says, Final, Same
          <6>3. e = Len(s)
            BY <5>2, <5>3, <6>1, <6>2 DEF Conn, Orderly, OneFinal
          <6> QED BY <5>1, <6>3
        <5> QED BY <2>1, <2>6, <4>1, <4>2, <5>5, <5>6, ConnTypes, MixesNow
      <4> QED BY <1>1, <4>3, <4>4 DEF Conn, Threaded
    <3>4. \A u \in Threads : u = "streamer" \/ u = "canceller"
      BY DEF Threads
    <3>5. Len(s) % 2 = 0
      BY <1>4, <3>2, <3>3, <3>4 DEF OneOpen
    <3>6. Whole(t) /\ Len(t) % 2 = 1
      BY <1>5, <2>1, <3>2, <3>5, WholeLength DEF t
    <3>7. t[Len(t)] = p
      BY <1>5, <2>1, Appended DEF t
    <3>8. sm["canceller"].err = "SUCCESS" /\ sm["canceller"].request = q
      BY <1>3
    <3>9. OneOpen(t, sm)
      BY <1>3, <3>3, <3>4, <3>6, <3>7, <3>8, ConnTypes DEF OneOpen, p
    <3> QED BY <3>6, <3>9
  <2> QED BY <1>1, <1>7, <2>1, <2>3, <2>4, <2>5, <2>6 DEF Conn, FrameInv
<1> QED BY <1>8, <1>9

(* A thread sends the body of its message                                  *)
LEMMA FinishesConn ==
  ASSUME TypeInv, NEW c \in Conns, Conn(c), NEW t \in Threads, Finishes(c, t)
  PROVE  Conn(c)'
<1> DEFINE s == to_client[c]
           st == stream[c]
           sd == sending[c]
           sm == sending'[c]
           err == sending[c][t].err
           r == sending[c][t].request
           p == Body(err, r)
           n == asked[c]
<1>1. /\ to_server'[c] = to_server[c] /\ asked'[c] = n /\ stream'[c] = st
      /\ handler[c] = "streaming" /\ handler'[c] = "streaming"
      /\ Here(c)' <=> Here(c)
      /\ sd[t] # NoPong
      /\ Delivers(c, <<p>>)
  BY DEF Finishes, Streaming, Here
<1>2. sm[t] = NoPong /\ \A u \in Threads \ {t} : sm[u] = sd[u]
  BY ConnTypes DEF Finishes
<1>3. t = "streamer" \/ t = "canceller"
  BY DEF Threads
<1>4. err \in Codes /\ r \in 0 .. MaxAsked
  <2>1. sd[t] \in Pong
    BY <1>1, ConnTypes
  <2> QED BY <2>1 DEF Pong
<1>5. p \in Piece /\ p.part = "body" /\ p.request = r
  BY <1>4, AnswerPieces DEF Body
<1>6. /\ r \in {st.request, st.cancel}
      /\ st.canceller = "answering" => r # st.cancel
      /\ st.streamer = "starting" => r # st.request
  BY <1>1, <1>3, ConnTypes DEF Conn, Threaded
<1>7. Threaded(handler'[c], st, sm)
  BY <1>1, <1>2, <1>3, ConnTypes DEF Conn, Threaded
<1>8. CASE ~Here(c)
  <2>1. to_client'[c] = s
    BY <1>1, <1>8 DEF Delivers, Here
  <2> QED BY <1>1, <1>7, <1>8, <2>1 DEF Conn, FrameInv
<1>9. CASE Here(c)
  <2> DEFINE x == Append(s, p)
  <2>1. s \in Seq(Piece) /\ x \in Seq(Piece) /\ to_client'[c] = x
    BY <1>1, <1>5, <1>9, ConnTypes, Appended DEF Delivers, Here
  <2> HIDE DEF x, p, r, err
  <2>2. Orderly(x)
    <3>1. Fits(s, p)
      BY <1>5 DEF Fits
    <3> QED BY <1>5, <2>1, <3>1, OrderlyAppend DEF Conn, x
  <2>3. Numbered(to_server[c], x, st, n)
    <3>1. Old(p.request, to_server[c], n)
      BY <1>5, <1>6 DEF Conn, Numbered
    <3> QED BY <1>5, <2>1, <3>1, NumberedAppend DEF Conn, x
  <2>4. SentSoFar(x, st, sm)
    <3>1. ASSUME NEW i \in Nat
          PROVE  /\ Untouched(s, i) /\ r # i => Untouched(x, i)
                 /\ \A errs : Sent(x, errs, i) <=> Sent(s, errs, i)
                 /\ Passed(x, i) <=> Passed(s, i)
                 /\ AllEnded(s, i) => AllEnded(x, i)
                 /\ NoLate(s, i) => NoLate(x, i)
      BY <1>5, <2>1, <3>1, AppendFacts DEF x
    <3>2. sm["canceller"] # NoPong => sd["canceller"] # NoPong
      BY <1>2, ConnTypes
    <3>3. SentSoFar(s, st, sd)
      BY <1>9 DEF Conn
    <3> QED BY <1>6, <3>1, <3>2, <3>3, ConnTypes DEF SentSoFar
  <2>5. ASSUME ~Mix(x, n)
        PROVE  Whole(x) /\ OneOpen(x, sm)
    <3>1. ~Mix(s, n)
      BY <1>5, <2>1, <2>5, ConnTypes, MixStays DEF x
    <3>2. Whole(s) /\ OneOpen(s, sd)
      BY <1>9, <3>1 DEF Conn, FrameInv
    <3>3. /\ Len(s) % 2 = 1 /\ s[Len(s)] = Length(err, r)
          /\ \A u \in Threads \ {t} : sd[u] = NoPong
      BY <1>1, <3>2 DEF OneOpen, err, r
    <3>4. Whole(x) /\ Len(x) % 2 = 0
      BY <1>4, <2>1, <3>2, <3>3, WholeBody DEF x, p
    <3>5. \A u \in Threads : sm[u] = NoPong
      BY <1>2, <3>3
    <3> QED BY <3>4, <3>5 DEF OneOpen
  <2> QED BY <1>1, <1>7, <2>1, <2>2, <2>3, <2>4, <2>5 DEF Conn, FrameInv
<1> QED BY <1>8, <1>9

-----------------------------------------------------------------------------
(* The invariant, and what follows from it                                 *)

(* No connection has been used when the server starts                      *)
LEMMA ServerInit == Init => ServerInv
<1> SUFFICES ASSUME Init, NEW c \in Conns PROVE Conn(c)
  BY TypeInit DEF ServerInv
<1>1. /\ to_server[c] = <<>> /\ to_client[c] = <<>> /\ handler[c] = "ping"
      /\ stream[c] = NoStream /\ asked[c] = 0
      /\ sending[c] = [t \in Threads |-> NoPong]
  BY DEF Init
<1>2. Orderly(<<>>) /\ AllEnded(<<>>, 0) /\ Whole(<<>>)
  BY DEF Orderly, OneFinal, OneStart, Framed, NoOverlap, OneLate, AllEnded, Whole
<1>3. Numbered(<<>>, <<>>, NoStream, 0)
  BY NoStreamIs DEF Numbered, Pending, Old
<1>4. \A t \in Threads : sending[c][t] = NoPong
  BY <1>1
<1>5. Threaded("ping", NoStream, sending[c])
  BY <1>4 DEF Threaded
<1>6. SentSoFar(<<>>, NoStream, sending[c])
  <2>1. sending[c]["canceller"] = NoPong
    BY <1>4 DEF Threads
  <2> QED BY <1>2, <2>1, NoStreamIs DEF SentSoFar
<1>7. OneOpen(<<>>, sending[c])
  BY <1>4 DEF OneOpen
<1> QED BY <1>1, <1>2, <1>3, <1>5, <1>6, <1>7 DEF Conn, FrameInv

(* A step of a thread or of a client keeps what holds of every connection  *)
LEMMA ServerStep ==
  ASSUME ServerInv, [Next]_vars
  PROVE  ServerInv'
<1>1. TypeInv /\ TypeInv' /\ \A c \in Conns : Conn(c)
  BY StepDoes DEF ServerInv
<1>2. CASE \A c \in Conns : Kept(c)
  BY <1>1, <1>2, KeptConn DEF ServerInv
<1>3. CASE \E c \in Conns : Elsewhere(c) /\ Does(c)
  <2>1. PICK c \in Conns : Elsewhere(c) /\ Does(c)
    BY <1>3
  <2>2. ASSUME NEW d \in Conns \ {c} PROVE Conn(d)'
    BY <1>1, <2>1, KeptConn DEF Elsewhere
  <2>3. Conn(c)'
    <3>1. CASE Answers(c) \/ Begins(c) \/ Silent(c) \/ Joins(c)
      BY <1>1, <3>1, AnswersConn, BeginsConn, SilentConn, JoinsConn
    <3>2. CASE \/ StreamerSends(c, "starting", "START_STREAM", "looping")
               \/ StreamerSends(c, "has_chunk", "STREAM_CHUNK", "looping")
               \/ StreamerSends(c, "ending", "END_STREAM", "done")
      BY <1>1, <3>2, StreamerSendsConn
    <3>3. CASE CancellerSends(c) \/ \E t \in Threads : Finishes(c, t)
      BY <1>1, <3>3, CancellerSendsConn, FinishesConn
    <3>4. CASE Looks(c) \/ Takes(c) \/ Asks(c) \/ Goes(c) \/ Kept(c)
      BY <1>1, <3>4, LooksConn, TakesConn, ClientConn, KeptConn
    <3> QED BY <2>1, <3>1, <3>2, <3>3, <3>4 DEF Does
  <2> QED BY <1>1, <2>2, <2>3 DEF ServerInv
<1> QED BY <1>2, <1>3, StepDoes DEF ServerInv

(* ServerInv holds in every state that the server reaches                  *)
LEMMA ServerAlways == Spec => []ServerInv
<1>1. ServerInv /\ [Next]_vars => ServerInv'
  BY ServerStep
<1> QED BY ServerInit, <1>1, PTL DEF Spec

(* A set whose elements are all the same has one at most                   *)
LEMMA AtMostOne ==
  ASSUME NEW S, \A i, j \in S : i = j
  PROVE  Cardinality(S) <= 1
<1>1. CASE S = {}
  BY <1>1, FS_EmptySet
<1>2. CASE S # {}
  <2>1. PICK i : i \in S
    BY <1>2
  <2>2. S = {i}
    BY <2>1
  <2>3. Cardinality({i}) = 1
    BY FS_Singleton
  <2> QED BY <2>2, <2>3
<1> QED BY <1>1, <1>2

(* What At collects                                                        *)
LEMMA AtIs ==
  ASSUME TypeInv, NEW c \in Conns, NEW errs, NEW r
  PROVE  /\ Len(to_client[c]) \in Nat
         /\ \A i : i \in At(c, errs, r) <=>
              /\ i \in 1 .. Len(to_client[c])
              /\ Says(to_client[c], i, errs) /\ to_client[c][i].request = r
<1>1. to_client[c] \in Seq(Piece)
  BY ConnTypes
<1>2. DOMAIN to_client[c] = 1 .. Len(to_client[c]) /\ Len(to_client[c]) \in Nat
  BY <1>1
<1> QED BY <1>2 DEF At, Says

(* A client can tell its answers apart, whatever it asks and however the   *)
(* threads of the server interleave                                        *)
THEOREM AnswersOrdered == Spec => []AnswersInOrder
<1>1. ASSUME ServerInv PROVE AnswersInOrder
  <2> SUFFICES ASSUME NEW c \in Conns, NEW r \in 1 .. asked[c]
               PROVE  LET starts == At(c, {"START_STREAM"}, r)
                          chunks == At(c, {"STREAM_CHUNK"}, r)
                          ends == At(c, {"END_STREAM"}, r)
                      IN  /\ Cardinality(At(c, Final, r)) <= 1
                          /\ Cardinality(starts) <= 1
                          /\ \A i \in chunks \union ends : \E s \in starts : s < i
                          /\ \A i \in chunks : \A e \in ends : i < e
                          /\ \A q \in 1 .. asked[c] \ {r} : \A s \in starts :
                               \A t \in At(c, {"START_STREAM"}, q) :
                                 s < t => \E e \in ends : e < t
    BY DEF AnswersInOrder
  <2> DEFINE p == to_client[c]
             starts == At(c, {"START_STREAM"}, r)
             chunks == At(c, {"STREAM_CHUNK"}, r)
             ends == At(c, {"END_STREAM"}, r)
  <2>1. TypeInv /\ Orderly(p) /\ r # 0 /\ Len(p) \in Nat
    BY <1>1, ConnTypes, AtIs DEF ServerInv, Conn
  <2>2. Cardinality(At(c, Final, r)) <= 1
    <3>1. \A i, j \in At(c, Final, r) : i = j
      BY <2>1, AtIs DEF Orderly, OneFinal, Same
    <3> QED BY <3>1, AtMostOne
  <2>3. Cardinality(starts) <= 1
    <3>1. \A i, j \in starts : i = j
      BY <2>1, AtIs DEF Orderly, OneStart, Same
    <3> QED BY <3>1, AtMostOne
  <2>4. ASSUME NEW i \in chunks \union ends
        PROVE  \E s \in starts : s < i
    <3>1. i \in 1 .. Len(p) /\ p[i].request = r /\ Says(p, i, {"STREAM_CHUNK", "END_STREAM"})
      BY <2>1, AtIs DEF Says
    <3>2. PICK j \in 1 .. i - 1 : Says(p, j, {"START_STREAM"}) /\ Same(p, i, j)
      BY <2>1, <3>1 DEF Orderly, Framed
    <3>3. j \in starts /\ j < i
      BY <2>1, <3>1, <3>2, AtIs DEF Same
    <3> QED BY <3>3
  <2>5. \A i \in chunks : \A e \in ends : i < e
    BY <2>1, AtIs DEF Orderly, Framed, Same
  <2>6. ASSUME NEW q \in 1 .. asked[c] \ {r}, NEW s \in starts, NEW t \in At(c, {"START_STREAM"}, q),
               s < t
        PROVE  \E e \in ends : e < t
    <3>1. /\ s \in 1 .. Len(p) /\ p[s].request = r /\ Says(p, s, {"START_STREAM"})
          /\ t \in 1 .. Len(p) /\ p[t].request = q /\ Says(p, t, {"START_STREAM"}) /\ q # 0
      BY <2>1, AtIs, ConnTypes
    <3>2. PICK e \in 1 .. t - 1 : Says(p, e, {"END_STREAM"}) /\ Same(p, s, e)
      BY <2>1, <2>6, <3>1 DEF Orderly, NoOverlap, Ended
    <3>3. e \in ends /\ e < t
      BY <2>1, <3>1, <3>2, AtIs DEF Same
    <3> QED BY <3>3
  <2> QED BY <2>2, <2>3, <2>4, <2>5, <2>6
<1> QED BY ServerAlways, <1>1, PTL

(* As long as no CANCEL_STREAM is answered during a stream, the pieces are *)
(* whole messages                                                          *)
THEOREM MessagesWhole == Spec => []FramesWhole
<1>1. ASSUME ServerInv PROVE FramesWhole
  <2> SUFFICES ASSUME NEW c \in Conns, ~Mixed(c)
               PROVE  \A i \in DOMAIN to_client[c] :
                        LET p == to_client[c][i]
                        IN  /\ i % 2 = 1 <=> p.part = "length"
                            /\ i % 2 = 0 => p = [to_client[c][i - 1] EXCEPT !.part = "body"]
    BY DEF FramesWhole
  <2>1. TypeInv /\ to_client[c] \in Seq(Piece) /\ asked[c] \in Nat
    BY <1>1, ConnTypes DEF ServerInv
  <2>2. ASSUME Mix(to_client[c], asked[c]) PROVE Mixed(c)
    <3>1. PICK q \in 1 .. asked[c] : \E r \in 1 .. q - 1 :
            /\ Sent(to_client[c], {"START_STREAM"}, r)
            /\ \E k \in 1 .. Len(to_client[c]) :
                 /\ Says(to_client[c], k, {"SUCCESS"}) /\ to_client[c][k].request = q
                 /\ \A e \in 1 .. Len(to_client[c]) :
                      Says(to_client[c], e, {"END_STREAM"}) /\ to_client[c][e].request = r
                        => k <= e + 1
      BY <2>2 DEF Mix
    <3>2. PICK r \in 1 .. q - 1 :
            /\ Sent(to_client[c], {"START_STREAM"}, r)
            /\ \E k \in 1 .. Len(to_client[c]) :
                 /\ Says(to_client[c], k, {"SUCCESS"}) /\ to_client[c][k].request = q
                 /\ \A e \in 1 .. Len(to_client[c]) :
                      Says(to_client[c], e, {"END_STREAM"}) /\ to_client[c][e].request = r
                        => k <= e + 1
      BY <3>1
    <3>3. At(c, {"START_STREAM"}, r) # {}
      BY <2>1, <3>2, AtIs DEF Sent
    <3>4. \E k \in At(c, {"SUCCESS"}, q) : \A e \in At(c, {"END_STREAM"}, r) : k <= e + 1
      <4>1. PICK k \in 1 .. Len(to_client[c]) :
              /\ Says(to_client[c], k, {"SUCCESS"}) /\ to_client[c][k].request = q
              /\ \A e \in 1 .. Len(to_client[c]) :
                   Says(to_client[c], e, {"END_STREAM"}) /\ to_client[c][e].request = r
                     => k <= e + 1
        BY <3>2
      <4>2. k \in At(c, {"SUCCESS"}, q)
        BY <2>1, <4>1, AtIs
      <4>3. \A e \in At(c, {"END_STREAM"}, r) : k <= e + 1
        BY <2>1, <4>1, AtIs
      <4> QED BY <4>2, <4>3
    <3> QED BY <3>3, <3>4 DEF Mixed
  <2>3. Whole(to_client[c])
    BY <1>1, <2>2 DEF ServerInv, Conn, FrameInv
  <2>4. DOMAIN to_client[c] = 1 .. Len(to_client[c])
    BY <2>1
  <2> QED BY <2>3, <2>4 DEF Whole
<1> QED BY ServerAlways, <1>1, PTL

(* A stream that was cancelled sends one more chunk at most                *)
THEOREM CancelBounded == Spec => []CancelBound
<1>1. ASSUME ServerInv PROVE CancelBound
  <2> SUFFICES ASSUME NEW c \in Conns, NEW q \in 1 .. asked[c], NEW r \in 1 .. q - 1,
                      NEW k \in At(c, {"SUCCESS"}, q)
               PROVE  Cardinality({i \in At(c, {"STREAM_CHUNK"}, r) : k < i}) <= 1
    BY DEF CancelBound
  <2>1. TypeInv /\ OneLate(to_client[c]) /\ r # 0 /\ r < q
    BY <1>1, ConnTypes DEF ServerInv, Conn, Orderly
  <2>2. \A i, j \in {i \in At(c, {"STREAM_CHUNK"}, r) : k < i} : i = j
    BY <2>1, AtIs DEF OneLate, Same
  <2> QED BY <2>2, AtMostOne
<1> QED BY ServerAlways, <1>1, PTL
=============================================================================
