------------------------------- MODULE Server -------------------------------
(***************************************************************************)
(* NetServer (network/server.cpp): one thread per connection that answers  *)
(* messages one after the other, and two more threads while the result of  *)
(* a query is sent: one sends it, the other one reads the connection for a *)
(* CANCEL_STREAM.  Clients send what they like, when they like.            *)
(*                                                                         *)
(* A connection is a pair of queues.  What is sent to the client stays in  *)
(* its queue, so that it is also the history of the answers; a message is  *)
(* two pieces, its length and its body, because send_message calls send()  *)
(* twice.  The session id is the connection: UUIDs differ, and clients use *)
(* their own.  Of the database, only where it is attached and whether its  *)
(* configuration file exists is kept; what a query does is in Storage and  *)
(* Index.                                                                  *)
(***************************************************************************)
EXTENDS Naturals, Sequences, FiniteSets

CONSTANTS
  Conns,      \* connections
  NoConn,     \* the null UUID
  MaxAsked,   \* bound on the messages that a client sends
  MaxUnread,  \* bound on the messages of a client that the server has not read
  MaxChunks   \* bound on the chunks of a result

ASSUME ServerAssumption ==
  /\ NoConn \notin Conns
  /\ {MaxAsked, MaxUnread, MaxChunks} \subseteq Nat

Requests == {"PING", "PONG", "QUERY", "CREATE_DB", "ATTACH_DB", "CANCEL_STREAM", "CLOSE",
             "MALFORMED", "TOO_LONG"}
ErrorCodes == {"PROTOCOL_VIOLATION", "DB_NOT_EXISTS", "SQL_ERROR", "UNINITIALIZED_SESSION"}
Codes == {"SUCCESS", "START_STREAM", "STREAM_CHUNK", "END_STREAM"} \union ErrorCodes

Message == [type : Requests, request : 0 .. MaxAsked, session : Conns \union {NoConn}]
Pong == [err : Codes, request : 0 .. MaxAsked]
Piece == [part : {"length", "body"}, err : Codes, request : 0 .. MaxAsked]

VARIABLES
  to_server,   \* per connection, messages on their way
  to_client,   \* per connection, the pieces sent to it
  closed,      \* per connection, who has closed it, and "reader" if nobody reads answers
  handler,     \* per connection, where handle_client is
  sessions,    \* sessions_: the connections whose engine is there
  attached,    \* those whose engine has a database
  db,          \* what there is of the database on disk
  made,        \* history: a client made the database
  stream,      \* per connection, the variables of handle_stream
  sending,     \* per connection and thread, a message whose body is to be sent
  running,     \* FALSE once the process was terminated
  asked        \* per connection, the number of messages its client sent

databases == <<sessions, attached, db, made>>
vars == <<to_server, to_client, closed, handler, databases, stream, sending, running, asked>>

Ends == {"client", "server", "reader"}
Places == {"ping", "loop", "streaming", "hung", "leaving", "done"}
Threads == {"streamer", "canceller"}

(* `left` chunks of the result of `request` are still to be sent           *)
Stream == [request : 0 .. MaxAsked, left : 0 .. MaxChunks, cancelled : BOOLEAN, stop : BOOLEAN,
           streamer : {"starting", "looping", "has_chunk", "ending", "done"},
           canceller : {"receiving", "answering", "done"}, cancel : 0 .. MaxAsked]

NoStream == [request |-> 0, left |-> 0, cancelled |-> FALSE, stop |-> FALSE,
             streamer |-> "done", canceller |-> "done", cancel |-> 0]
NoPong == <<>>

(* `directory`: without a configuration file, which attach_db needs        *)
OnDisk == {"none", "directory", "attachable"}

(* start: connections are accepted, each gets a thread                     *)
Init ==
  /\ to_server = [c \in Conns |-> <<>>]
  /\ to_client = [c \in Conns |-> <<>>]
  /\ closed = [c \in Conns |-> {}]
  /\ handler = [c \in Conns |-> "ping"]
  /\ sessions = {} /\ attached = {} /\ db \in OnDisk /\ made = FALSE
  /\ stream = [c \in Conns |-> NoStream]
  /\ sending = [c \in Conns |-> [t \in Threads |-> NoPong]]
  /\ running = TRUE
  /\ asked = [c \in Conns |-> 0]

-----------------------------------------------------------------------------
(* Sockets                                                                 *)

Length(err, request) == [part |-> "length", err |-> err, request |-> request]
Body(err, request) == [part |-> "body", err |-> err, request |-> request]

(* send blocks, without a timeout, while the client keeps the connection   *)
(* open and no longer reads                                                *)
CanSend(c) == "client" \in closed[c] \/ "reader" \notin closed[c]

(* send: to a connection that the client has closed, it is lost, or the    *)
(* send fails.  A failed send ends the process: SIGPIPE has its default    *)
(* action, and no thread catches what send_message throws.                 *)
Deliver(c, pieces) ==
  /\ CanSend(c)
  /\ IF "client" \in closed[c]
       THEN running' \in BOOLEAN /\ UNCHANGED to_client
       ELSE to_client' = [to_client EXCEPT ![c] = @ \o pieces] /\ UNCHANGED running

Answer(c, err, request) == Deliver(c, <<Length(err, request), Body(err, request)>>)

(* receive_message: the next message, or nothing once the client has closed*)
(* and all that it sent has been read, or when the length is over          *)
(* MAX_INCOMING_LEN                                                        *)
Incoming(c) == to_server[c] # <<>> /\ Head(to_server[c]).type # "TOO_LONG"
Disconnected(c) ==
  IF to_server[c] = <<>> THEN "client" \in closed[c] ELSE Head(to_server[c]).type = "TOO_LONG"
Received(c) == to_server' = [to_server EXCEPT ![c] = Tail(@)]

(* parse: what cannot be read is a CLOSE of no session                     *)
Parse(m) ==
  IF m.type = "MALFORMED" THEN [type |-> "CLOSE", request |-> 0, session |-> NoConn] ELSE m

-----------------------------------------------------------------------------
(* Engines                                                                 *)

(* ~StdDbInstance, for the sessions whose engine lets go of its instance:  *)
(* nothing else writes the configuration file                              *)
Destroy(ss) == db' = IF ss \intersect attached # {} THEN "attachable" ELSE db

(* the constructor of StdDbInstance                                        *)
Directory == IF db = "none" THEN "directory" ELSE db

(* set_db_instance, with an instance that the constructor has made         *)
SetDbInstance(s) ==
  /\ db' = IF s \in attached THEN "attachable" ELSE Directory
  /\ attached' = attached \union {s}

-----------------------------------------------------------------------------
(* handle_client and handle_message.  No other thread of the server uses   *)
(* the connection, or changes its session, during one of these.            *)

(* the first message has to be a PING; it makes the session                *)
AcceptPing(c) ==
  LET m == Parse(Head(to_server[c]))
  IN  /\ running /\ handler[c] = "ping" /\ Incoming(c)
      /\ Received(c)
      /\ IF m.type = "PING"
           THEN /\ sessions' = sessions \union {c}
                /\ Answer(c, "SUCCESS", m.request)
                /\ handler' = [handler EXCEPT ![c] = "loop"]
                /\ UNCHANGED closed
           ELSE /\ Answer(c, "PROTOCOL_VIOLATION", 0)
                /\ closed' = [closed EXCEPT ![c] = @ \union {"server"}]
                /\ handler' = [handler EXCEPT ![c] = "done"]
                /\ UNCHANGED sessions
      /\ UNCHANGED <<attached, db, made, stream, sending, asked>>

(* a mutant: the connection is closed without an answer                    *)
StopOnly(c, err, request) ==
  /\ closed' = [closed EXCEPT ![c] = @ \union {"server"}]
  /\ handler' = [handler EXCEPT ![c] = "leaving"]
  /\ UNCHANGED <<to_client, running>>

(* send_pong_and_stop                                                      *)
PongAndStop(c, err, request) ==
  /\ Answer(c, err, request)
  /\ closed' = [closed EXCEPT ![c] = @ \union {"server"}]
  /\ handler' = [handler EXCEPT ![c] = "leaving"]

Loop(c, types) ==
  LET m == Parse(Head(to_server[c]))
  IN  /\ running /\ handler[c] = "loop" /\ Incoming(c)
      /\ m.type \in types
      /\ Received(c)

(* a PING, a PONG or a CANCEL_STREAM with no stream                        *)
RefuseMessage(c) ==
  /\ Loop(c, {"PING", "PONG", "CANCEL_STREAM"})
  /\ PongAndStop(c, "PROTOCOL_VIOLATION", Head(to_server[c]).request)
  /\ UNCHANGED <<databases, stream, sending, asked>>

(* get_session fails                                                       *)
RefuseSession(c) ==
  LET m == Parse(Head(to_server[c]))
  IN  /\ Loop(c, {"QUERY", "CREATE_DB", "ATTACH_DB", "CLOSE"})
      /\ m.session \notin sessions
      /\ PongAndStop(c, "UNINITIALIZED_SESSION", m.request)
      /\ UNCHANGED <<databases, stream, sending, asked>>

(* handle_create_db_message, handle_attach_db_message: create_db opens a   *)
(* database that exists.  Either may fail on a file, before or after       *)
(* set_db_instance took the new instance.                                  *)
HandleDb(c) ==
  LET m == Head(to_server[c])
      opens == m.type = "CREATE_DB" \/ db = "attachable"
  IN  /\ Loop(c, {"CREATE_DB", "ATTACH_DB"})
      /\ m.session \in sessions
      /\ \/ /\ opens
            /\ SetDbInstance(m.session)
            /\ made' = (made \/ m.type = "CREATE_DB")
            /\ Answer(c, "SUCCESS", m.request)
            /\ UNCHANGED <<closed, handler>>
         \/ /\ PongAndStop(c, IF opens THEN "SQL_ERROR" ELSE "DB_NOT_EXISTS", m.request)
            /\ \/ opens /\ SetDbInstance(m.session)
               \/ db' \in {db, IF opens THEN Directory ELSE db} /\ UNCHANGED attached
            /\ UNCHANGED made
      /\ UNCHANGED <<sessions, stream, sending, asked>>

(* the start of handle_stream                                              *)
BeginStream(c, request, sizes) ==
  /\ \E chunks \in sizes :
       stream' = [stream EXCEPT ![c] =
         [NoStream EXCEPT !.request = request, !.left = chunks,
                          !.streamer = "starting", !.canceller = "receiving"]]
  /\ handler' = [handler EXCEPT ![c] = "streaming"]
  /\ UNCHANGED <<to_client, closed, running>>

(* execute_query does not return: the lexer stays for ever at a character  *)
(* it does not know, before anything asks for a database, or the process   *)
(* dies of the freed rows that update_row reads                            *)
NeverReturns(c) ==
  /\ \/ handler' = [handler EXCEPT ![c] = "hung"] /\ UNCHANGED running
     \/ running' = FALSE /\ Head(to_server[c]).session \in attached /\ UNCHANGED handler
  /\ UNCHANGED <<to_client, closed>>

(* handle_query_message up to the start of the two threads of              *)
(* handle_stream, or an error, or a query that never returns.  Without a   *)
(* database only CREATE DATABASE succeeds: it opens and closes an          *)
(* instance, if there is no directory.                                     *)
HandleQuery(c) ==
  LET m == Head(to_server[c])
  IN  /\ Loop(c, {"QUERY"})
      /\ m.session \in sessions
      /\ \/ /\ m.session \in attached
            /\ BeginStream(c, m.request, 0 .. MaxChunks)
            /\ UNCHANGED <<db, made>>
         \/ /\ db = "none"
            /\ BeginStream(c, m.request, {0})
            /\ db' = "attachable" /\ made' = TRUE
         \/ /\ PongAndStop(c, "SQL_ERROR", m.request)
            /\ db' \in {db, Directory}
            /\ UNCHANGED <<stream, made>>
         \/ NeverReturns(c) /\ UNCHANGED <<db, made, stream>>
      /\ UNCHANGED <<sessions, attached, sending, asked>>

(* handle_close_message: no answer                                         *)
HandleClose(c) ==
  LET m == Parse(Head(to_server[c]))
  IN  /\ Loop(c, {"CLOSE"})
      /\ m.session \in sessions
      /\ sessions' = sessions \ {m.session} /\ attached' = attached \ {m.session}
      /\ Destroy({m.session})
      /\ closed' = [closed EXCEPT ![c] = @ \union {"server"}]
      /\ handler' = [handler EXCEPT ![c] = "leaving"]
      /\ UNCHANGED <<to_client, made, stream, sending, running, asked>>

(* receive_message returned nothing                                        *)
Disconnect(c) ==
  /\ running /\ handler[c] \in {"ping", "loop"} /\ Disconnected(c)
  /\ closed' = [closed EXCEPT ![c] = @ \union {"server"}]
  /\ handler' = [handler EXCEPT ![c] = IF @ = "ping" THEN "done" ELSE "leaving"]
  /\ UNCHANGED <<to_server, to_client, databases, stream, sending, running, asked>>

(* a mutant: the session stays                                             *)
LeaveSession(c) ==
  /\ running /\ handler[c] = "leaving"
  /\ attached' = attached \ {c} /\ Destroy({c})
  /\ closed' = [closed EXCEPT ![c] = @ \union {"server"}]
  /\ handler' = [handler EXCEPT ![c] = "done"]
  /\ UNCHANGED <<to_server, to_client, sessions, made, stream, sending, running, asked>>

(* a mutant: the configuration file is not written when the session ends   *)
LeaveUnwritten(c) ==
  /\ running /\ handler[c] = "leaving"
  /\ sessions' = sessions \ {c} /\ attached' = attached \ {c}
  /\ closed' = [closed EXCEPT ![c] = @ \union {"server"}]
  /\ handler' = [handler EXCEPT ![c] = "done"]
  /\ UNCHANGED <<to_server, to_client, db, made, stream, sending, running, asked>>

(* the end of handle_client, which destroys the engine                     *)
Leave(c) ==
  /\ running /\ handler[c] = "leaving"
  /\ sessions' = sessions \ {c} /\ attached' = attached \ {c} /\ Destroy({c})
  /\ closed' = [closed EXCEPT ![c] = @ \union {"server"}]
  /\ handler' = [handler EXCEPT ![c] = "done"]
  /\ UNCHANGED <<to_server, to_client, made, stream, sending, running, asked>>

-----------------------------------------------------------------------------
(* handle_stream: the threads cancel_thread and stream_thread              *)

InStream(c) == running /\ handler[c] = "streaming"

(* send_message in one of the two threads: the length, later the body      *)
BeginSend(c, t, err, request) ==
  /\ Deliver(c, <<Length(err, request)>>)
  /\ sending' = [sending EXCEPT ![c][t] = [err |-> err, request |-> request]]

FinishSend(c, t) ==
  /\ InStream(c)
  /\ sending[c][t] # NoPong
  /\ Deliver(c, <<Body(sending[c][t].err, sending[c][t].request)>>)
  /\ sending' = [sending EXCEPT ![c][t] = NoPong]
  /\ UNCHANGED <<to_server, closed, handler, databases, stream, asked>>

Streams(c, place) ==
  InStream(c) /\ stream[c].streamer = place /\ sending[c]["streamer"] = NoPong

StreamStart(c) ==
  /\ Streams(c, "starting")
  /\ BeginSend(c, "streamer", "START_STREAM", stream[c].request)
  /\ stream' = [stream EXCEPT ![c].streamer = "looping"]
  /\ UNCHANGED <<to_server, closed, handler, databases, asked>>

(* a mutant: next_chunk returns TRUE without rows                          *)
MoreChunksWithoutRows(c) == ~stream[c].cancelled

(* a mutant: the condition of the loop does not look at cancelled          *)
MoreChunksUncancelled(c) == stream[c].left > 0

(* the condition of the loop: not cancelled, and next_chunk has rows       *)
MoreChunks(c) == ~stream[c].cancelled /\ stream[c].left > 0

(* a mutant: a cancelled stream returns without END_STREAM                 *)
StreamLoopReturns(c) ==
  /\ Streams(c, "looping")
  /\ stream' = [stream EXCEPT ![c] =
       IF MoreChunks(c) THEN [@ EXCEPT !.streamer = "has_chunk", !.left = stream[c].left - 1]
                        ELSE [@ EXCEPT !.streamer = IF @ = "looping" /\ stream[c].cancelled
                                                      THEN "done" ELSE "ending"]]
  /\ UNCHANGED <<to_server, to_client, closed, handler, databases, sending, running, asked>>

StreamLoop(c) ==
  /\ Streams(c, "looping")
  /\ stream' = [stream EXCEPT ![c] =
       IF MoreChunks(c) THEN [@ EXCEPT !.streamer = "has_chunk", !.left = stream[c].left - 1]
                        ELSE [@ EXCEPT !.streamer = "ending"]]
  /\ UNCHANGED <<to_server, to_client, closed, handler, databases, sending, running, asked>>

(* the executor of a streamed result fails in next_chunk: no thread catches*)
(* it                                                                      *)
StreamThrows(c) ==
  /\ Streams(c, "looping") /\ MoreChunks(c)
  /\ running' = FALSE
  /\ UNCHANGED <<to_server, to_client, closed, handler, databases, stream, sending, asked>>

StreamChunk(c) ==
  /\ Streams(c, "has_chunk")
  /\ BeginSend(c, "streamer", "STREAM_CHUNK", stream[c].request)
  /\ stream' = [stream EXCEPT ![c].streamer = "looping"]
  /\ UNCHANGED <<to_server, closed, handler, databases, asked>>

StreamEnd(c) ==
  /\ Streams(c, "ending")
  /\ BeginSend(c, "streamer", "END_STREAM", stream[c].request)
  /\ stream' = [stream EXCEPT ![c].streamer = "done"]
  /\ UNCHANGED <<to_server, closed, handler, databases, asked>>

(* the reader takes one message, whatever it is; one that is not a         *)
(* CANCEL_STREAM of this session is dropped                                *)
CancelReceives(c) ==
  LET m == Parse(Head(to_server[c]))
  IN  /\ InStream(c) /\ stream[c].canceller = "receiving" /\ Incoming(c)
      /\ Received(c)
      /\ stream' = [stream EXCEPT ![c] =
           IF m.type = "CANCEL_STREAM" /\ m.session = c
             THEN [@ EXCEPT !.cancelled = TRUE, !.canceller = "answering", !.cancel = m.request]
             ELSE [@ EXCEPT !.canceller = "done"]]
      /\ UNCHANGED <<to_client, closed, handler, databases, sending, running, asked>>

(* receive_message returned nothing                                        *)
CancelDisconnects(c) ==
  /\ InStream(c) /\ stream[c].canceller = "receiving" /\ Disconnected(c)
  /\ stream' = [stream EXCEPT ![c].cancelled = TRUE, ![c].stop = TRUE, ![c].canceller = "done"]
  /\ UNCHANGED <<to_server, to_client, closed, handler, databases, sending, running, asked>>

CancelAnswers(c) ==
  /\ InStream(c) /\ stream[c].canceller = "answering"
  /\ BeginSend(c, "canceller", "SUCCESS", stream[c].cancel)
  /\ stream' = [stream EXCEPT ![c].canceller = "done"]
  /\ UNCHANGED <<to_server, closed, handler, databases, asked>>

(* a mutant: the stream thread is not waited for                           *)
JoinedByCanceller(c) ==
  stream[c].canceller = "done" /\ sending[c]["canceller"] = NoPong

(* both threads have returned                                              *)
Joined(c) ==
  /\ stream[c].canceller = "done" /\ stream[c].streamer = "done"
  /\ \A t \in Threads : sending[c][t] = NoPong

EndStream(c) ==
  /\ InStream(c) /\ Joined(c)
  /\ handler' = [handler EXCEPT ![c] = IF stream[c].stop THEN "leaving" ELSE "loop"]
  /\ stream' = [stream EXCEPT ![c] = NoStream]
  /\ UNCHANGED <<to_server, to_client, closed, databases, sending, running, asked>>

HandlerStep(c) ==
  \/ AcceptPing(c) \/ RefuseMessage(c) \/ RefuseSession(c) \/ HandleDb(c) \/ HandleQuery(c)
  \/ HandleClose(c) \/ Disconnect(c) \/ Leave(c) \/ EndStream(c)
StreamerStep(c) ==
  \/ StreamStart(c) \/ StreamLoop(c) \/ StreamThrows(c) \/ StreamChunk(c) \/ StreamEnd(c)
  \/ FinishSend(c, "streamer")
CancellerStep(c) ==
  \/ CancelReceives(c) \/ CancelDisconnects(c) \/ CancelAnswers(c)
  \/ FinishSend(c, "canceller")

ServerNext == \E c \in Conns : HandlerStep(c) \/ StreamerStep(c) \/ CancellerStep(c)

-----------------------------------------------------------------------------
(* Clients                                                                 *)

(* a client knows its session from the answer to its PING                  *)
SessionOf(c) == IF to_client[c] = <<>> THEN NoConn ELSE c

(* what is sent after the server has closed is never read                  *)
Ask(c, type) ==
  /\ closed[c] \subseteq {"reader"}
  /\ Len(to_server[c]) < MaxUnread
  /\ asked[c] < MaxAsked
  /\ asked' = [asked EXCEPT ![c] = @ + 1]
  /\ to_server' = [to_server EXCEPT ![c] =
       Append(@, [type |-> type, request |-> asked[c] + 1, session |-> SessionOf(c)])]
  /\ UNCHANGED <<to_client, closed, handler, databases, stream, sending, running>>

(* a client goes away; what it sent last may be lost                       *)
GoAway(c) ==
  /\ "client" \notin closed[c]
  /\ closed' = [closed EXCEPT ![c] = @ \union {"client"}]
  /\ \E n \in 0 .. Len(to_server[c]) :
       to_server' = [to_server EXCEPT ![c] = SubSeq(@, 1, n)]
  /\ UNCHANGED <<to_client, handler, databases, stream, sending, running, asked>>

(* a client no longer reads what it is sent, and the buffers are full      *)
StopReading(c) ==
  /\ closed[c] = {}
  /\ closed' = [closed EXCEPT ![c] = @ \union {"reader"}]
  /\ UNCHANGED <<to_server, to_client, handler, databases, stream, sending, running, asked>>

ClientNext ==
  \E c \in Conns : (\E type \in Requests : Ask(c, type)) \/ StopReading(c) \/ GoAway(c)

Next == ServerNext \/ ClientNext

Spec == Init /\ [][Next]_vars

(* every thread of a running server goes on when it can; clients need not  *)
FairSpec ==
  /\ Spec
  /\ \A c \in Conns : /\ WF_vars(HandlerStep(c))
                      /\ WF_vars(StreamerStep(c))
                      /\ WF_vars(CancellerStep(c))

-----------------------------------------------------------------------------
(* Properties                                                              *)

(* Types                                                                   *)
TypeOK ==
  /\ \A c \in Conns :
       /\ to_server[c] \in Seq(Message)
       /\ to_client[c] \in Seq(Piece)
       /\ closed[c] \subseteq Ends
       /\ handler[c] \in Places
       /\ stream[c] \in Stream
       /\ \A t \in Threads : sending[c][t] \in Pong \union {NoPong}
       /\ asked[c] \in 0 .. MaxAsked
  /\ sessions \subseteq Conns
  /\ attached \subseteq sessions
  /\ db \in OnDisk
  /\ {made, running} \subseteq BOOLEAN

(* positions of the messages of the given kinds for a request              *)
At(c, errs, request) ==
  {i \in DOMAIN to_client[c] : LET p == to_client[c][i]
                               IN  p.part = "length" /\ p.err \in errs /\ p.request = request}

Final == {"SUCCESS", "END_STREAM"} \union ErrorCodes

(* A client can tell its answers apart: every request gets one final answer*)
(* at most, a stream is START_STREAM, chunks, END_STREAM in this order, and*)
(* no two streams of a connection overlap.                                 *)
AnswersInOrder ==
  \A c \in Conns : \A r \in 1 .. asked[c] :
    LET starts == At(c, {"START_STREAM"}, r)
        chunks == At(c, {"STREAM_CHUNK"}, r)
        ends == At(c, {"END_STREAM"}, r)
    IN  /\ Cardinality(At(c, Final, r)) <= 1
        /\ Cardinality(starts) <= 1
        /\ \A i \in chunks \union ends : \E s \in starts : s < i
        /\ \A i \in chunks : \A e \in ends : i < e
        /\ \A q \in 1 .. asked[c] \ {r} : \A s \in starts : \A t \in At(c, {"START_STREAM"}, q) :
             s < t => \E e \in ends : e < t

(* The pieces of a connection are whole messages, except for one that is   *)
(* being sent, as long as no CANCEL_STREAM is answered while a stream is   *)
(* sent: send_mutex is held for the chunks only, so that answer and the    *)
(* messages of the stream can be mixed.                                    *)
Mixed(c) ==
  \E q \in 1 .. asked[c] : \E r \in 1 .. q - 1 :
    /\ At(c, {"START_STREAM"}, r) # {}
    /\ \E k \in At(c, {"SUCCESS"}, q) : \A e \in At(c, {"END_STREAM"}, r) : k <= e + 1
FramesWhole ==
  \A c \in Conns :
    ~Mixed(c) =>
      \A i \in DOMAIN to_client[c] :
        LET p == to_client[c][i]
        IN  /\ i % 2 = 1 <=> p.part = "length"
            /\ i % 2 = 0 => p = [to_client[c][i - 1] EXCEPT !.part = "body"]

(* Once a CANCEL_STREAM was answered, the stream sends one more chunk at   *)
(* most: the one that was past the test of `cancelled`.                    *)
CancelBound ==
  \A c \in Conns : \A q \in 1 .. asked[c] : \A r \in 1 .. q - 1 :
    \A k \in At(c, {"SUCCESS"}, q) :
      Cardinality({i \in At(c, {"STREAM_CHUNK"}, r) : k < i}) <= 1

(* A database that a client was told is there stays reachable while the    *)
(* process runs: an engine has it open, or ATTACH_DB finds its             *)
(* configuration file.                                                     *)
DatabaseKept == running /\ made => db = "attachable" \/ attached # {}

(* Every message that reaches the message loop is answered in the end (a   *)
(* QUERY by END_STREAM or an error), unless it is a CLOSE, the client goes *)
(* away or stops reading, execute_query never returns (the lexer does not  *)
(* get past a character it does not know) or the process ends.  Messages   *)
(* that the reader of a stream takes do not reach the loop.                *)
Served ==
  \A c \in Conns : \A r \in 1 .. MaxAsked :
    (/\ handler[c] = "loop" /\ Incoming(c)
     /\ Head(to_server[c]).request = r /\ Head(to_server[c]).type \notin {"CLOSE", "MALFORMED"})
      ~> \/ At(c, Final, r) # {}
         \/ closed[c] \intersect {"client", "reader"} # {}
         \/ handler[c] = "hung" \/ ~running

(* A client that went away leaves nothing behind: its session ends, also   *)
(* when a thread was blocked in a send to it, unless a query of it hangs   *)
(* in the lexer or the process ends.                                       *)
SessionEnds ==
  \A c \in Conns :
    "client" \in closed[c] ~> c \notin sessions \/ handler[c] = "hung" \/ ~running
=============================================================================
