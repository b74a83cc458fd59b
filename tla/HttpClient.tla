----------------------------- MODULE HttpClient -----------------------------
(***************************************************************************)
(* src/src/HttpClient.cpp: requests, streamed or not, their answers,       *)
(* redirects and time-outs.  The class has no lock of its own, so that the *)
(* application has to keep its calls apart from each other; the callbacks  *)
(* of TcpClient exclude each other.  A handler is one step, a function     *)
(* from the members before to the members after: what an application does  *)
(* in a callback, with which a handler ends, it does in a step of its own. *)
(*                                                                         *)
(* The members, in c, hold with them the state of tcpClient_, what was     *)
(* sent in the step, and the history of answers.                           *)
(***************************************************************************)
EXTENDS HttpMessage

CONSTANTS
    MaxCalls,       \* bound on the requests
    MaxConnects,    \* bound on the calls of connect()
    Asked,          \* the requests: [method, body, streaming, timeout]
    maxRedirects,
    DefaultTimeout  \* requestTimeout_ as the application set it, 0 for none

VARIABLES c, up, down

NoStream == [parsed |-> FALSE, noBody |-> FALSE, chunked |-> FALSE, length |-> -1,
             received |-> 0, head |-> <<>>]

ClientInit ==
    /\ \E proxy \in BOOLEAN :
       c = [tcp |-> "closed", connected |-> FALSE, awaiting |-> FALSE, replay |-> FALSE,
            streaming |-> FALSE, stream |-> NoStream, buffer |-> <<>>, timer |-> FALSE, late |-> FALSE,
            requestTimeout |-> DefaultTimeout, override |-> -1, redirects |-> 0,
            url |-> "http", proxy |-> proxy, callback |-> 0, streamCallback |-> 0,
            pending |-> [id |-> 0, method |-> "GET", body |-> <<>>],
            sent |-> <<>>, calls |-> 0, connects |-> 0, lost |-> {},
            asked |-> [id \in 1..MaxCalls |-> "GET"],
            answers |-> [id \in 1..MaxCalls |-> <<>>],
            streamed |-> [id \in 1..MaxCalls |-> <<>>]]
    /\ up = <<>> /\ down = <<>>

-----------------------------------------------------------------------------
(* Callbacks, the timer, and tcpClient_.                                   *)

Failure == [status |-> 0, id |-> 0, body |-> <<>>]

\* responseCallback_(), which stays set, and streamCompleteCallback_().
Answer(m, id, response) ==
    IF id = 0 THEN m ELSE [m EXCEPT !.answers[id] = Append(@, response)]

StopRequestTimer(m) == [m EXCEPT !.timer = FALSE]

StartRequestTimer(m) ==
    IF m.requestTimeout = 0 THEN StopRequestTimer(m) ELSE [m EXCEPT !.timer = TRUE]

RestoreRequestTimeoutOverride(m) ==
    IF m.override = -1 THEN m
    ELSE [m EXCEPT !.requestTimeout = m.override, !.override = -1]

\* tcpClient_.disconnect() while awaitingResponse_ is false: handleDisconnect() only
\* stops the timer.
Disconnected(m) ==
    [StopRequestTimer(m) EXCEPT !.tcp = "closed", !.connected = FALSE]

-----------------------------------------------------------------------------
(* Requests.                                                               *)

\* buildClientRequest()
BuildClientRequest(request) ==
    BuildMessage([k |-> "head", line |-> "valid", id |-> request.id, method |-> request.method,
                  version |-> "HTTP/1.1", path |-> <<"a">>, headers |-> <<>>], request.body)

\* sendPendingRequest().  Nobody is told when it fails.
SendPendingRequest(m) ==
    IF ~m.connected THEN [m EXCEPT !.lost = @ \cup {m.pending.id}]
    ELSE StartRequestTimer([m EXCEPT !.awaiting = TRUE, !.buffer = <<>>,
             !.asked[m.pending.id] = m.pending.method, !.sent = BuildClientRequest(m.pending)])

\* connectToParsedUrl().  An HTTPS proxy is refused, and nobody else is told.
ConnectToParsedUrl(m, replay) ==
    LET clear == [m EXCEPT !.replay = replay, !.buffer = <<>>, !.connected = FALSE] IN
    IF m.proxy /\ m.url = "https"
    THEN [clear EXCEPT !.lost = @ \cup (IF replay THEN {m.pending.id} ELSE {})]
    ELSE [clear EXCEPT !.tcp = "connecting"]

-----------------------------------------------------------------------------
(* Responses.                                                              *)

NoBody(method, status) == method = "HEAD" \/ status \in 100..199 \cup {204, 304}
IsInterim(status) == status \in 100..199 \ {101}

\* The size of what follows a head, and whether it is chunked.
Framing(raw, head, method, closed) ==
    IF NoBody(method, head.status) THEN [chunked |-> FALSE, size |-> 0]
    ELSE IF Has(head, "Content-Length")
         THEN [chunked |-> FALSE, size |-> GetHeader(head, "Content-Length")]
    ELSE IF ContainsToken(head, "Transfer-Encoding", "chunked")
         THEN [chunked |-> TRUE, size |-> GetChunkedMessageSize(Drop(raw, 2), TRUE)]
    ELSE [chunked |-> FALSE, size |-> IF closed THEN Len(raw) - 2 ELSE Incomplete]

\* What is found with this framing; rest is what is left of the buffer.
Extracted(raw, f) ==
    IF f.size = Incomplete \/ (f.chunked /\ f.size = Malformed) \/ Len(raw) < 2 + f.size
    THEN [found |-> FALSE, rest |-> raw]
    ELSE [found |-> TRUE, rest |-> Drop(raw, 2 + f.size), head |-> raw[1],
          response |-> [status |-> raw[1].status, id |-> raw[1].id,
                        body |-> LET body == SubSeq(raw, 3, 2 + f.size) IN
                                 IF f.chunked THEN ParseChunked(body) ELSE body]]

\* tryExtractResponseViewFromRaw()
TryExtractResponse(raw, method, closed) ==
    IF ~ParseHead(raw) THEN [found |-> FALSE, rest |-> raw]
    ELSE Extracted(raw, Framing(raw, raw[1], method, closed))

\* The buffer after the interim responses, which have no body.
SkipInterim(buffer) ==
    LET From[o \in 0..Len(buffer)] ==
            LET raw == Drop(buffer, o) IN
            IF ParseHead(raw) /\ IsInterim(raw[1].status) THEN From[o + 2] ELSE raw
    IN  From[0]

\* tryConsumeBufferedResponse(): the response after the interim ones, and what is left.
TryConsumeBufferedResponse(buffer, method, closed) ==
    TryExtractResponse(SkipInterim(buffer), method, closed)

\* prepareRedirectRequest()
PrepareRedirectRequest(m, status) ==
    IF status = 303 \/ (status \in {301, 302} /\ m.pending.method \notin {"GET", "HEAD"})
    THEN [m EXCEPT !.pending.method = "GET", !.pending.body = <<>>] ELSE m

IsRedirect(status) == status \in {301, 302, 303, 307, 308}

\* resolveRedirect(): of a URL, the endpoint.
ResolveRedirect(head) == GetHeader(head, "Location")

HandleResponse(m, x) ==
    LET stopped == StopRequestTimer(m)
        location == ResolveRedirect(x.head)
        redirected == PrepareRedirectRequest([stopped EXCEPT !.redirects = @ + 1], x.head.status)
    IN  IF /\ IsRedirect(x.head.status)
           /\ m.redirects < maxRedirects /\ Has(x.head, "Location")
        THEN IF location # m.url
             THEN ConnectToParsedUrl([Disconnected(redirected) EXCEPT !.streaming = FALSE,
                                         !.url = location], TRUE)
             ELSE SendPendingRequest(redirected)
        ELSE Answer(RestoreRequestTimeoutOverride(stopped), m.callback, x.response)

-----------------------------------------------------------------------------
(* Streamed responses.                                                     *)

StreamEnds(m) == [RestoreRequestTimeoutOverride(StopRequestTimer(m)) EXCEPT
                     !.awaiting = FALSE, !.streaming = FALSE, !.stream = NoStream, !.buffer = <<>>]

CompleteStreamingResponse(m) ==
    Answer(StreamEnds(m), m.streamCallback,
           [status |-> m.stream.head.status, id |-> m.stream.head.id, body |-> <<>>])

CompleteStreamingWithStatus(m) == Answer(StreamEnds(m), m.streamCallback, Failure)

\* deliverStreamingChunk(); the data callback refuses, and the stream is cancelled.
Deliver(m, data) == [m EXCEPT !.streamed[m.streamCallback] = @ \o data]
Refused(m, data) == Disconnected(CompleteStreamingWithStatus(Deliver(m, data)))

\* parseStreamingHeaders(): the buffer after the head, and whether there was one.
ParseStreamingHeaders(m, closed) ==
    LET From[o \in 0..Len(m.buffer)] ==
            LET raw == Drop(m.buffer, o)
                head == raw[1]
                chunked == ContainsToken(head, "Transfer-Encoding", "chunked")
            IN  IF Find(raw, "end", 0) = 0
                THEN IF closed THEN CompleteStreamingWithStatus(m) ELSE [m EXCEPT !.buffer = raw]
                ELSE IF ~ParseHead(raw) THEN CompleteStreamingWithStatus(m)
                ELSE IF IsInterim(head.status) THEN From[o + 2]
                ELSE [m EXCEPT !.buffer = Drop(raw, 2),
                         !.stream = [parsed |-> TRUE, head |-> head, chunked |-> chunked,
                                     noBody |-> NoBody(m.pending.method, head.status),
                                     length |-> IF ~chunked /\ Has(head, "Content-Length")
                                                THEN GetHeader(head, "Content-Length") ELSE -1,
                                     received |-> 0]]
    IN  IF m.stream.parsed THEN m ELSE From[0]

\* consumeStreamingChunkedBody()
ConsumeStreamingChunkedBody(m, accept) ==
    LET buffer == m.buffer
        From[o \in 0..Len(buffer)] ==
            LET lineEnd == Find(buffer, "crlf", o)
                size == buffer[o + 1].n
                chunk == SubSeq(buffer, lineEnd + 1, lineEnd + size)
                so == [m EXCEPT !.buffer = Drop(buffer, o)]
                last == LastChunk(buffer, lineEnd, TRUE)
                bad == [data |-> <<>>, m |-> Disconnected(CompleteStreamingWithStatus(m))]
            IN  IF lineEnd = 0 THEN [data |-> <<>>, m |-> so]
                ELSE IF lineEnd # o + 2 \/ buffer[o + 1].k # "size" THEN bad
                ELSE IF size = 0
                     THEN IF last = Incomplete THEN [data |-> <<>>, m |-> so]
                          ELSE IF last = Malformed THEN bad
                          ELSE [data |-> <<>>, m |-> CompleteStreamingResponse(m)]
                ELSE IF Len(buffer) <= lineEnd + size THEN [data |-> <<>>, m |-> so]
                ELSE IF buffer[lineEnd + size + 1] # Crlf THEN bad
                ELSE IF ~accept THEN [bad EXCEPT !.data = chunk]
                ELSE LET rest == From[lineEnd + size + 1]
                     IN  [rest EXCEPT !.data = chunk \o @]
        end == From[0]
    IN  Deliver(end.m, end.data)

\* consumeStreamingFixedLengthBody()
ConsumeStreamingFixedLengthBody(m, accept) ==
    LET n == Min({m.stream.length - m.stream.received, Len(m.buffer)})
        data == SubSeq(m.buffer, 1, n)
        on == [Deliver(m, data) EXCEPT !.stream.received = @ + n, !.buffer = Drop(@, n)]
    IN  IF m.stream.received >= m.stream.length THEN CompleteStreamingResponse(m)
        ELSE IF n = 0 THEN m
        ELSE IF ~accept THEN Refused(m, data)
        ELSE IF on.stream.received >= on.stream.length THEN CompleteStreamingResponse(on) ELSE on

\* The body of a streamed response, in the form that its head tells.
ConsumeStreamingBody(m, closed, accept) ==
    LET all == [Deliver(m, m.buffer) EXCEPT !.buffer = <<>>] IN
    IF ~m.streaming \/ ~m.stream.parsed THEN m
    ELSE IF m.stream.noBody THEN CompleteStreamingResponse(m)
    ELSE IF m.stream.chunked THEN ConsumeStreamingChunkedBody(m, accept)
    ELSE IF m.stream.length # -1 THEN ConsumeStreamingFixedLengthBody(m, accept)
    ELSE IF m.buffer # <<>> /\ ~accept THEN Refused(m, m.buffer)
    ELSE IF closed THEN CompleteStreamingResponse(all) ELSE all

HandleStreamingDataReceived(m, closed, accept) ==
    ConsumeStreamingBody(ParseStreamingHeaders(m, closed), closed, accept)

-----------------------------------------------------------------------------
(* The handlers.                                                           *)

Becomes(m) ==
    /\ c' = [m EXCEPT !.sent = <<>>]
    /\ up' = up \o m.sent

\* handleError(), which handleTransportFailure() calls before it closes.  The callback of
\* a request that was answered is called again; id -1 tells these answers.
Errored(m) ==
    LET stopped == RestoreRequestTimeoutOverride(StopRequestTimer(m)) IN
    IF m.streaming THEN CompleteStreamingWithStatus(m)
    ELSE IF m.callback = 0 THEN stopped
    ELSE Answer([stopped EXCEPT !.awaiting = FALSE, !.buffer = <<>>], m.callback,
                [Failure EXCEPT !.id = IF m.awaiting THEN 0 ELSE -1])

\* handleConnect(): with an error, if handleTransportFailure() ends the attempt.
HandleConnect(success, error) ==
    LET failed == [StopRequestTimer(c) EXCEPT !.tcp = "closed", !.connected = FALSE,
                                              !.awaiting = FALSE, !.replay = FALSE]
        told == Answer(failed, IF c.replay THEN c.callback ELSE 0, Failure)
        done == [c EXCEPT !.tcp = "open", !.connected = TRUE, !.replay = FALSE]
    IN  /\ c.tcp = "connecting"
        /\ Becomes(IF success THEN IF c.replay THEN SendPendingRequest(done) ELSE done
                   ELSE IF error THEN Errored(told) ELSE told)
        /\ UNCHANGED down

\* What tryConsumeBufferedResponse() has found, or not.
HandleBuffered(m, x) ==
    IF x.found THEN HandleResponse([m EXCEPT !.awaiting = FALSE, !.buffer = x.rest], x)
    ELSE [m EXCEPT !.buffer = x.rest]

HandleDataReceived(n) ==
    /\ c.tcp = "open" /\ n \in 1..Len(down)
    /\ down' = Drop(down, n)
    /\ LET m == [c EXCEPT !.buffer = @ \o SubSeq(down, 1, n)] IN
       \E accept \in BOOLEAN :
           Becomes(IF c.streaming THEN HandleStreamingDataReceived(m, FALSE, accept)
                   ELSE HandleBuffered(m, TryConsumeBufferedResponse(m.buffer, m.pending.method, FALSE)))

\* handleDisconnect()
HandleDisconnect(m, accept) ==
    LET closed == Disconnected(m)
        EndStream(k) == IF k.awaiting THEN CompleteStreamingWithStatus(k) ELSE k
        EndResponse(x) ==
            IF x.found THEN HandleBuffered(closed, x)
            ELSE Answer([closed EXCEPT !.awaiting = FALSE, !.buffer = <<>>], m.callback, Failure)
    IN  IF ~m.awaiting THEN closed
        ELSE IF m.streaming THEN EndStream(HandleStreamingDataReceived(closed, TRUE, accept))
        ELSE EndResponse(TryConsumeBufferedResponse(m.buffer, m.pending.method, TRUE))

\* The peer has closed, and all that it sent was read.
PeerClosed ==
    /\ c.tcp \in {"open", "failed"}
    /\ \E accept \in BOOLEAN : Becomes(HandleDisconnect(c, accept))
    /\ UNCHANGED down

HandleError ==
    /\ c.tcp = "open"
    /\ Becomes(Errored([c EXCEPT !.tcp = "failed"]))
    /\ UNCHANGED down

\* The request timer calls back, in a thread of its own: that it is stopped from now
\* on changes nothing.
TimerCallsBack ==
    /\ c.timer
    /\ c' = [c EXCEPT !.timer = FALSE, !.late = TRUE]
    /\ UNCHANGED <<up, down>>

\* Mutation of Cancelled: the connection is kept for the next request.
CancelledOnly(m) ==
    LET stopped == StopRequestTimer([m EXCEPT !.awaiting = FALSE, !.buffer = <<>>]) IN
    IF m.streaming THEN CompleteStreamingWithStatus(stopped)
    ELSE Answer(RestoreRequestTimeoutOverride(stopped), m.callback, Failure)

\* cancelRequest(), and the callback of the timer.
Cancelled(m) ==
    LET closed == Disconnected([m EXCEPT !.awaiting = FALSE, !.buffer = <<>>]) IN
    IF m.streaming THEN CompleteStreamingWithStatus(closed)
    ELSE Answer(RestoreRequestTimeoutOverride(closed), m.callback, Failure)

TimerRuns ==
    /\ c.late
    /\ LET m == [c EXCEPT !.late = FALSE] IN Becomes(IF m.awaiting THEN Cancelled(m) ELSE m)
    /\ UNCHANGED down

CancelRequest == c.awaiting /\ Becomes(Cancelled(c)) /\ UNCHANGED down

\* disconnect(), which has handleDisconnect() answer a request.  Of an attempt to connect
\* it makes one that fails.
Disconnect ==
    /\ c.tcp \in {"open", "failed"}
    /\ Becomes([HandleDisconnect(c, TRUE) EXCEPT !.awaiting = FALSE, !.streaming = FALSE,
                                                 !.connected = FALSE, !.buffer = <<>>])
    /\ UNCHANGED down

Connect ==
    /\ c.tcp = "closed" /\ c.connects < MaxConnects
    /\ Becomes(ConnectToParsedUrl([c EXCEPT !.redirects = 0, !.url = "http",
                                            !.connects = @ + 1], FALSE))
    /\ UNCHANGED down

\* sendRequest() and sendStreamingRequest(), and the forms that take an HttpClientRequest
\* with a time-out of its own.
Request(r) ==
    /\ c.calls < MaxCalls /\ c.connected /\ ~c.awaiting
    /\ LET id == c.calls + 1
           m == [c EXCEPT !.calls = id,
                          !.pending = [id |-> id, method |-> r.method, body |-> r.body],
                          !.callback = IF r.streaming THEN 0 ELSE id,
                          !.streamCallback = IF r.streaming THEN id ELSE @,
                          !.streaming = @ \/ r.streaming,
                          !.stream = IF r.streaming THEN NoStream ELSE @,
                          !.requestTimeout = IF r.timeout = 0 THEN @ ELSE r.timeout]
       IN  Becomes([SendPendingRequest(m) EXCEPT
                       !.override = IF r.timeout = 0 THEN @ ELSE c.requestTimeout])
    /\ UNCHANGED down

ClientSteps == HandleError \/ TimerCallsBack \/ TimerRuns

Calls == (\E r \in Asked : Request(r)) \/ CancelRequest \/ Disconnect \/ Connect

=============================================================================
