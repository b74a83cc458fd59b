---------------------------- MODULE MCProtocols -----------------------------
(* HTTP exchanges, the static files of a server and WebSocket exchanges: a *)
(* behaviour is one of these.  Requests, replies, files and frames of      *)
(* every form.                                                             *)
EXTENDS HttpExchange

CONSTANTS
    Threads, Directory, Canonical, Sizes, CacheLimits, FileRequests, MaxWrites,
    ShortLimit, Base, LongBytes, MaskKey, kMaxClientBufferSize, ServerProtocols,
    ClientProtocols, MaxConnections, Payloads, MaxSent, MaxPings, PeerFrames, PeerReplies

VARIABLES f, ws, wc, wconn, wmode, which

F == INSTANCE HttpStaticFile
W == INSTANCE WebSocketExchange
P == INSTANCE WebSocketProtocol

AllVars == <<vars, f, ws, wc, wconn, wmode, which>>

AllInit ==
    /\ which \in {"http", "files", "websocket"}
    /\ Init /\ (which # "http" => mode = "peer")
    /\ F!FilesInit
    /\ W!WsInit /\ (which # "websocket" => wmode = "messages")

AllNext ==
    /\ UNCHANGED which
    /\ \/ which = "http" /\ Next /\ UNCHANGED <<f, ws, wc, wconn, wmode>>
       \/ which = "files" /\ F!FilesNext /\ UNCHANGED <<vars, ws, wc, wconn, wmode>>
       \/ which = "websocket" /\ W!WsNext /\ UNCHANGED <<s, sh, c, conn, mode, f>>

Interchangeable == Permutations(Threads)

AllSpec == AllInit /\ [][AllNext]_AllVars

\* A static file is never served stale: a body is of one version, not older than the
\* file was when the request came, and a 304 goes only to who has one as new.
FilesFresh == which = "files" => F!FilesFresh

\* The message callbacks of the WebSocket server and client are given the messages of
\* the other side whole, once and in order, however the stream is cut into reads.
MessagesExact == which = "websocket" => W!MessagesExact

\* A WebSocket is opened and closed as the callbacks of both sides tell: in order, once,
\* and nobody waits for a callback that cannot come any more.
OpenedAndClosed == which = "websocket" => W!OpenedAndClosed

-----------------------------------------------------------------------------
Header(name, value) == <<[name |-> name, value |-> value]>>
Chunked == Header("Transfer-Encoding", {"chunked"})
RequestHead(method, headers) ==
    [k |-> "head", line |-> "valid", id |-> 0, method |-> method, version |-> "HTTP/1.1",
     path |-> <<"a">>, headers |-> headers]
Plain(head, body) == [head |-> head, body |-> body, chunked |-> FALSE, wellFormed |-> TRUE]
Piece == <<Data(0), Crlf>>

RequestSet == {
    Plain(RequestHead("GET", <<>>), Piece),
    Plain(RequestHead("GET", Header("Connection", {"close"})), <<>>),
    [Plain(RequestHead("GET", Chunked), BuildChunked(Piece)) EXCEPT !.chunked = TRUE],
    [Plain(RequestHead("GET", Chunked), <<SizeLine(1), Crlf, Data(0), Data(0)>>) EXCEPT
        !.chunked = TRUE, !.wellFormed = FALSE],
    [Plain(RequestHead("GET", Chunked \o Header("Content-Length", 2)), Piece) EXCEPT !.wellFormed = FALSE],
    [Plain(RequestHead("BREW", <<>>), <<>>) EXCEPT !.wellFormed = FALSE] }

Reply(status, headers, body, text) ==
    [status |-> status, headers |-> headers, body |-> body, text |-> text, framed |-> TRUE]
Location(url) == Header("Location", url)
Page == <<Text, Crlf>>

ReplySet == {
    Reply(200, <<>>, Page, Page),
    Reply(201, Chunked, BuildChunked(Page), Page),
    Reply(302, Location("http"), <<Text>>, <<Text>>),
    Reply(307, Location("https"), <<>>, <<>>)}

StatusHead(status, headers) ==
    [k |-> "head", line |-> "valid", id |-> 0, status |-> status, headers |-> headers]
Script(status, units, text, framed) ==
    [units |-> units, status |-> status, text |-> text, framed |-> framed, close |-> ~framed]

ScriptSet == {
    Script(200, <<StatusHead(100, <<>>), End>> \o BuildMessage(StatusHead(200, <<>>), Page), Page, TRUE),
    Script(201, <<StatusHead(201, Chunked), End, SizeLine(2), Crlf>> \o Page
                    \o <<Crlf, SizeLine(0), Crlf, Trailer, Crlf, Crlf>>, Page, TRUE),
    Script(204, <<StatusHead(204, <<>>), End>>, <<>>, TRUE),
    Script(203, <<StatusHead(203, <<>>), End>> \o Page, Page, FALSE),
    Script(303, <<StatusHead(303, Location("http")), End>>, <<>>, FALSE),
    Script(307, BuildMessage(StatusHead(307, Location("https")), <<Crlf>>), <<Crlf>>, TRUE)}

Ask(method, body, streaming, timeout) ==
    [method |-> method, body |-> body, streaming |-> streaming, timeout |-> timeout]
AskSet == {Ask("POST", <<Crlf>>, FALSE, 0), Ask("HEAD", <<>>, FALSE, 2), Ask("GET", <<>>, TRUE, 0)}

MethodSet == {"GET", "HEAD", "POST"}
Routes == {<<"GET", <<"a">>>>}

-----------------------------------------------------------------------------
Get(path) == [path |-> path, method |-> "GET", kind |-> "none", from |-> -1, to |-> -1,
              any |-> FALSE, tags |-> {}, since |-> -1]
Ranged(from, to) == [Get("in") EXCEPT !.kind = "range", !.from = from, !.to = to]
CanonicalPaths == "in" :> <<"d", "a">> @@ "out" :> <<"b">> @@ "none" :> <<>>
Dir == <<"d">>
FileAsks == {
    Get("in"), Get("out"), Get("none"),
    [Get("in") EXCEPT !.tags = {<<1, 1>>}], [Get("in") EXCEPT !.since = 2],
    Ranged(-1, 1), [Ranged(1, 5) EXCEPT !.method = "HEAD"],
    [Ranged(2, 1) EXCEPT !.kind = "bad"]}

-----------------------------------------------------------------------------
Protocols == <<"chat">>
Key == <<5, 9>>
Upgrade13 == P!HandshakeRequest(0, {"chat"})
Frame(values) == P!Bytes(values)

\* A head without the headers, frames of two parts, of an unknown opcode, with a length
\* that is not the shortest, with one that overflows, one that is too large, a close
\* frame with a bad code, and one that is right.
PeerFrameSet ==
    {<<[Upgrade13[1] EXCEPT !.upgrade = FALSE], End>>}
    \cup {Upgrade13 \o frame : frame \in {
            Frame(<<1, 0>>), Frame(<<131, 0>>), Frame(<<129, 3, 0, 1, 7>>),
            Frame(<<130, 4, 2, 2, 2>>), Frame(<<136, 2, 0, 1>>),
            Frame(<<129, 3, 2, 2, 7, 7, 7, 7, 7, 7, 7, 7>>), Frame(<<136, 0>>) \o Frame(<<137, 1, 7>>),
            P!EncodeFrame("binary", <<3>>, FALSE) \o P!EncodeFrame("pong", <<>>, TRUE) }}

Agreed == P!HandshakeResponse(0, "chat")
PeerReplySet ==
    {P!HandshakeRejection, Frame(<<129, 0>>) \o Agreed, P!HandshakeResponse(0, "other")}
    \cup {Agreed \o frame : frame \in {
            P!EncodeFrame("text", <<1>>, TRUE), Frame(<<1, 0>>),
            P!EncodeCloseFrame(1001, FALSE) \o P!EncodeFrame("text", <<1>>, FALSE)
                \o P!EncodeCloseFrame(1001, FALSE),
            P!EncodeFrame("ping", <<1>>, FALSE) \o P!EncodeFrame("text", <<1>>, FALSE) }}
=============================================================================
