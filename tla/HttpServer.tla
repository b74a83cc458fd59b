----------------------------- MODULE HttpServer -----------------------------
(***************************************************************************)
(* src/src/HttpServer.cpp: one connection of an HttpServer, from the       *)
(* session that TcpServer hands it to its end, and the next one.  The      *)
(* callbacks of a session exclude each other and its close (callbackMutex_ *)
(* of ClientSession); the request timer calls back in another thread.      *)
(*                                                                         *)
(* up and down hold what is in flight to the server and from it. TcpServer *)
(* hands over what arrived in pieces of any size.  Static files are in     *)
(* HttpStaticFile.                                                         *)
(***************************************************************************)
EXTENDS HttpMessage

CONSTANTS
    maxRequestSize,
    CompactBytes,     \* 4096 in compactClientBufferLocked()
    RequestTimeout,   \* whether requestTimeout_ is not 0
    Handlers,         \* the methods and paths with a handler of their own
    StaticPrefixes,   \* the paths served from files
    DefaultHandler,   \* whether there is one
    Replies,          \* what handlers answer: [status, headers, body]; Text stands for
                      \* a text about the request
    Method,           \* the methods tryStringToMethod() knows
    MaxSessions,      \* bound on the connections
    Requests,         \* what a peer sends: [head, body, wellFormed]
    MaxRequests       \* bound on the requests of one connection

VARIABLES
    s,     \* the session, the ClientState of the server, and the thread in it
    up, down,
    sh     \* history of the connection: the requests sent and dispatched, the
           \* answers, whether a buffer was dropped

Text == [k |-> "text"]

serverVars == <<s, up, down, sh>>

NoClient == [known |-> FALSE, buffer |-> <<>>, bufferOffset |-> 0, processing |-> FALSE]

NoHistory == [sent |-> <<>>, dispatched |-> <<>>, answers |-> <<>>, dropped |-> FALSE]

ServerInit ==
    /\ s = [running |-> TRUE, session |-> "none", sessions |-> 0, client |-> NoClient,
            timer |-> "off", late |-> 0, pc |-> "idle", parsed |-> <<>>]
    /\ up = <<>> /\ down = <<>>
    /\ sh = NoHistory

-----------------------------------------------------------------------------
(* The buffer of a client, and its timer.                                  *)

MakeBufferedView(client) == Drop(client.buffer, client.bufferOffset)

CompactClientBuffer(client) ==
    IF client.bufferOffset = 0 THEN client
    ELSE IF client.bufferOffset >= Len(client.buffer)
         THEN [client EXCEPT !.buffer = <<>>, !.bufferOffset = 0]
    ELSE IF client.bufferOffset < CompactBytes /\ client.bufferOffset * 2 < Len(client.buffer)
         THEN client
    ELSE [client EXCEPT !.buffer = MakeBufferedView(client), !.bufferOffset = 0]

ArmRequestTimer(timer) == IF RequestTimeout THEN "armed" ELSE timer

-----------------------------------------------------------------------------
(* Requests.                                                               *)

\* shouldKeepAlive()
ShouldKeepAlive(head) ==
    IF ContainsToken(head, "Connection", "close") THEN FALSE
    ELSE ContainsToken(head, "Connection", "keep-alive") \/ head.version = "HTTP/1.1"

NoRequest == [found |-> FALSE]

\* makeErrorRequest()
ErrorRequest(consumed, status) ==
    [found |-> TRUE, consumed |-> consumed, keepAlive |-> FALSE, status |-> status]

\* buildRequest()
BuildRequest(head, body) ==
    [head |-> head,
     body |-> IF ContainsToken(head, "Transfer-Encoding", "chunked") THEN ParseChunked(body)
                                                                     ELSE body]

\* The size of the body, as the head tells.
BodySize(raw, head) ==
    IF ContainsToken(head, "Transfer-Encoding", "chunked")
    THEN GetChunkedMessageSize(Drop(raw, 2), FALSE)
    ELSE IF Has(head, "Content-Length") THEN GetHeader(head, "Content-Length") ELSE 0

\* The request with a body of this size.
Extracted(raw, head, size) ==
    IF ContainsToken(head, "Transfer-Encoding", "chunked") /\ size = Malformed
    THEN ErrorRequest(Len(raw), 400)
    ELSE IF size = Incomplete \/ Len(raw) < 2 + size THEN NoRequest
    ELSE IF head.method \notin Method THEN ErrorRequest(2 + size, 501)
    ELSE [found |-> TRUE, consumed |-> 2 + size, keepAlive |-> ShouldKeepAlive(head),
          status |-> 200, request |-> BuildRequest(head, SubSeq(raw, 3, 2 + size))]

TryExtractRequest(raw) ==
    IF Find(raw, "end", 0) = 0 THEN NoRequest
    ELSE IF ~ParseHead(raw) THEN ErrorRequest(Len(raw), 400)
    ELSE Extracted(raw, raw[1], BodySize(raw, raw[1]))

\* dispatchRequest(): the handler of the route, the files under the longest prefix, the
\* default handler, or none.  A path is the sequence of its segments.
DispatchRequest(request) ==
    LET files == {prefix \in StaticPrefixes : IsPrefix(prefix, request.head.path)} IN
    IF \/ <<request.head.method, request.head.path>> \in Handlers
       \/ files # {} \/ DefaultHandler
    THEN Replies
    ELSE {[status |-> 404, headers |-> <<>>, body |-> <<Text>>]}

\* finalizeResponse() and buildResponse(): the units of the answer to request id.
FinalizeResponse(id, method, keepAlive, reply) ==
    LET connection == [name |-> "Connection",
                       value |-> {IF keepAlive THEN "keep-alive" ELSE "close"}]
        length == [name |-> "Content-Length", value |-> Len(reply.body)]
        headers == Append(reply.headers, connection)
        head == [k |-> "head", line |-> "valid", id |-> id, status |-> reply.status,
                 headers |-> IF method = "HEAD" /\ Named(headers, "Content-Length") = {}
                             THEN Append(headers, length) ELSE headers]
    IN  IF method = "HEAD" THEN <<head, End>>
        ELSE BuildMessage(head, [i \in DOMAIN reply.body |->
                 IF reply.body[i] = Text THEN Data(id) ELSE reply.body[i]])

-----------------------------------------------------------------------------
(* The callbacks of TcpServer.                                             *)

HandleClientConnected ==
    /\ s.running /\ s.session \in {"none", "closed"} /\ s.sessions < MaxSessions
    /\ s' = [s EXCEPT !.session = "open", !.sessions = @ + 1,
                      !.client = [NoClient EXCEPT !.known = TRUE], !.timer = "off"]
    /\ up' = <<>> /\ down' = <<>>
    /\ sh' = NoHistory

\* The end of a session: handleClientDisconnected() erases the client and its timer.
\* What was not yet sent is lost.
Closed(server) == [server EXCEPT !.session = "closed", !.client = NoClient, !.timer = "off",
                                 !.pc = "idle", !.parsed = <<>>]
Abort == \E n \in 0..Len(down) : down' = SubSeq(down, 1, n)

HandleDataReceived(n) ==
    /\ s.pc = "idle" /\ s.session \in {"open", "closing"} /\ s.client.known
    /\ n \in 1..Len(up)
    /\ up' = Drop(up, n)
    /\ LET compact == CompactClientBuffer(s.client) IN
       s' = [s EXCEPT
                !.client = [compact EXCEPT !.buffer = @ \o SubSeq(up, 1, n), !.processing = TRUE],
                !.timer = ArmRequestTimer(@),
                !.pc = IF s.client.processing THEN "idle" ELSE "extract"]
    /\ UNCHANGED <<down, sh>>

\* The server after it has looked at its buffer: at a request, or none.
Taken(parsed) ==
    LET rest == CompactClientBuffer([s.client EXCEPT !.bufferOffset = @ + parsed.consumed]) IN
    IF parsed.found
    THEN [s EXCEPT !.pc = "respond", !.parsed = parsed, !.client = rest,
                   !.timer = IF MakeBufferedView(rest) = <<>> THEN "off" ELSE ArmRequestTimer(@)]
    ELSE [s EXCEPT !.pc = "idle", !.client.processing = FALSE]

\* The part of processBufferedRequests() under clientsMutex_.
ProcessBufferedRequests ==
    /\ s.pc = "extract"
    /\ LET view == MakeBufferedView(s.client)
           dropped == Len(view) > maxRequestSize
       IN  /\ s' = IF dropped
                   THEN [s EXCEPT !.pc = "respond", !.parsed = ErrorRequest(Len(view), 413),
                                  !.timer = "off", !.client = [NoClient EXCEPT !.known = TRUE]]
                   ELSE Taken(TryExtractRequest(view))
           /\ sh' = [sh EXCEPT !.dropped = @ \/ dropped]
    /\ UNCHANGED <<up, down>>

\* The part without the mutex: the request is handled and its answer sent, or the
\* session fails.
Respond ==
    /\ s.pc = "respond"
    /\ LET handled == s.parsed.status = 200
           id == IF handled THEN s.parsed.request.head.id ELSE 0
           method == IF handled THEN s.parsed.request.head.method ELSE "GET"
           replies == IF handled THEN DispatchRequest(s.parsed.request)
                      ELSE {[status |-> s.parsed.status, headers |-> <<>>, body |-> <<Text>>]}
       IN  \E reply \in replies :
           /\ sh' = [sh EXCEPT !.dispatched =
                         IF handled THEN Append(@, s.parsed.request) ELSE @,
                     !.answers = Append(@, reply.status)]
           /\ \/ /\ down' = down \o FinalizeResponse(id, method, s.parsed.keepAlive, reply)
                 /\ s' = [s EXCEPT !.pc = IF s.parsed.keepAlive THEN "extract" ELSE "idle",
                                   !.session = IF s.parsed.keepAlive THEN @ ELSE "closing",
                                   !.parsed = <<>>]
              \/ s' = Closed(s) /\ Abort
    /\ UNCHANGED up

-----------------------------------------------------------------------------
(* The request timer, the end of the session, stop() and start().          *)

TimerCallsBack ==
    /\ s.timer = "armed"
    /\ s' = [s EXCEPT !.timer = "off", !.late = s.sessions]
    /\ UNCHANGED <<up, down, sh>>

\* The callback disconnects the client, whatever has happened since.
TimerDisconnects ==
    /\ s.late # 0 /\ s.pc = "idle"
    /\ IF s.session \in {"open", "closing"} /\ s.late = s.sessions
       THEN s' = [Closed(s) EXCEPT !.late = 0] /\ Abort
       ELSE s' = [s EXCEPT !.late = 0] /\ UNCHANGED down
    /\ UNCHANGED <<up, sh>>

\* closeClientAfterPendingWrites(), once all is written.
Flushed ==
    /\ s.session = "closing" /\ s.pc = "idle"
    /\ s' = Closed(s)
    /\ UNCHANGED <<up, down, sh>>

\* The peer has gone and the session notices it.
PeerGone ==
    /\ s.session \in {"open", "closing"} /\ s.pc = "idle"
    /\ s' = Closed(s) /\ Abort
    /\ UNCHANGED <<up, sh>>

\* stop() closes the sessions; the table of clients is empty already.
Stop ==
    /\ s.running /\ s.pc = "idle"
    /\ s' = [(IF s.session \in {"open", "closing"} THEN Closed(s) ELSE s) EXCEPT !.running = FALSE]
    /\ Abort
    /\ UNCHANGED <<up, sh>>

Start ==
    /\ ~s.running
    /\ s' = [s EXCEPT !.running = TRUE]
    /\ UNCHANGED <<up, down, sh>>

ServerSteps ==
    \/ ProcessBufferedRequests \/ Respond \/ TimerCallsBack \/ TimerDisconnects \/ Flushed

-----------------------------------------------------------------------------
(* A peer that does not wait for the answers to its requests.              *)

PeerSends ==
    /\ Len(sh.sent) < MaxRequests /\ s.session \in {"open", "closing"}
    /\ \E r \in Requests :
           LET head == [r.head EXCEPT !.id = Len(sh.sent) + 1] IN
           /\ up' = up \o (IF r.chunked THEN <<head, End>> \o r.body
                                        ELSE BuildMessage(head, r.body))
           /\ sh' = [sh EXCEPT !.sent = Append(@, [r EXCEPT !.head = head])]
    /\ UNCHANGED <<s, down>>

ServerNext ==
    \/ PeerSends \/ HandleClientConnected \/ ServerSteps \/ PeerGone \/ Stop \/ Start
    \/ \E n \in 1..Len(up) : HandleDataReceived(n)

ServerSpec == ServerInit /\ [][ServerNext]_serverVars

-----------------------------------------------------------------------------
\* However the stream is cut into pieces, processBufferedRequests() hands the
\* handlers the requests that were sent, in their order and with their bodies, and
\* none of what follows a request that it has refused; unless it had to drop a
\* buffer longer than maxRequestSize_, it leaves none out and refuses only what is
\* not well formed.
RequestsInOrder ==
    /\ \E sent \in [DOMAIN sh.dispatched -> DOMAIN sh.sent] :
           \A i \in DOMAIN sh.dispatched :
               LET r == sh.sent[sent[i]] IN
               /\ r.wellFormed /\ r.head.id = sh.dispatched[i].head.id
               /\ sh.dispatched[i].body = IF r.chunked THEN ParseChunked(r.body) ELSE r.body
               /\ i > 1 => sent[i - 1] < sent[i]
               /\ ~sh.dropped => sent[i] = i
    /\ \A i \in DOMAIN sh.answers :
           sh.answers[i] \in {400, 501} /\ ~sh.dropped =>
               i = Len(sh.answers) /\ ~sh.sent[i].wellFormed

\* No request waits for one that is never sent: when the server is not at work on
\* an open session, its buffer holds no whole request, and what it holds of one is
\* timed.
NoneStuck ==
    s.pc = "idle" /\ s.session = "open" =>
        LET view == MakeBufferedView(s.client) IN
        /\ ~TryExtractRequest(view).found /\ Len(view) <= maxRequestSize
        /\ view # <<>> /\ RequestTimeout => s.timer = "armed" \/ s.late = s.sessions

\* The requests of a connection: answered in order, and none left behind.
ServedInOrder == RequestsInOrder /\ NoneStuck

=============================================================================
