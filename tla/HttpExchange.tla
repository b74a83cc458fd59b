---------------------------- MODULE HttpExchange ----------------------------
(***************************************************************************)
(* An HttpServer and who is connected to it: a peer that does not wait for *)
(* answers, or an HttpClient; and an HttpClient that is connected to a     *)
(* server that answers in forms HttpServer does not use.                   *)
(***************************************************************************)
EXTENDS HttpServer

CONSTANTS MaxCalls, MaxConnects, Asked, maxRedirects, DefaultTimeout,
          Scripts   \* answers of the other server: [units, status, text, framed, close]

VARIABLES
    c,      \* the client
    conn,   \* the session it is connected to
    mode    \* "peer", "client" or "script"

C == INSTANCE HttpClient

vars == <<serverVars, c, conn, mode>>

Init ==
    /\ ServerInit /\ C!ClientInit /\ conn = 0
    /\ mode \in {"peer", "client", "script"}
    /\ c.proxy = (mode = "script")

-----------------------------------------------------------------------------

Accept ==
    /\ c.tcp = "connecting" /\ conn = s.sessions
    /\ HandleClientConnected /\ UNCHANGED <<c, conn>>

\* A request that the client sends in a step is one of those sent.
Sends ==
    LET request == [head |-> up'[Len(up) + 1], body |-> Drop(up', Len(up) + 2),
                    chunked |-> FALSE, wellFormed |-> TRUE]
    IN  sh' = IF up' = up THEN sh ELSE [sh EXCEPT !.sent = Append(@, request)]

Connected ==
    /\ \/ conn < s.sessions /\ C!HandleConnect(TRUE, FALSE)
       \/ \E error \in BOOLEAN : C!HandleConnect(FALSE, error)
    /\ Sends /\ conn' = s.sessions /\ UNCHANGED s

Gone ==
    /\ c.tcp = "closed" \/ (c.tcp = "connecting" /\ conn = s.sessions)
    /\ PeerGone /\ UNCHANGED <<c, conn>>

EndOfStream ==
    /\ c.tcp = "open" => down = <<>> /\ s.session = "closed"
    /\ C!PeerClosed /\ Sends /\ UNCHANGED <<s, conn>>

\* The other server has read a request, and answers.
ScriptAnswers ==
    /\ mode = "script" /\ s.session = "open" /\ up # <<>>
    /\ up' = <<>>
    /\ \E script \in Scripts :
           /\ down' = down \o [i \in DOMAIN script.units |->
                                  IF script.units[i].k = "head"
                                  THEN [script.units[i] EXCEPT !.id = up[1].id]
                                  ELSE IF script.units[i] = Text THEN Data(up[1].id)
                                  ELSE script.units[i]]
           /\ s' = [s EXCEPT !.session = IF script.close THEN "closing" ELSE @]
    /\ UNCHANGED <<c, conn, sh>>

\* The streams between client and server come whole: peer and other server have them
\* cut into pieces.
Pieces(stream) == IF mode = "client" THEN {Len(stream)} ELSE 1..Len(stream)

Next ==
    /\ UNCHANGED mode
    /\ \/ mode = "peer" /\ ServerNext /\ UNCHANGED <<c, conn>>
       \/ mode = "client" /\ (ServerSteps \/ \E n \in Pieces(up) : HandleDataReceived(n)) /\ UNCHANGED <<c, conn>>
       \/ mode # "peer" /\ (Accept \/ Connected \/ Gone \/ EndOfStream)
       \/ /\ mode # "peer"
          /\ C!ClientSteps \/ C!Calls \/ \E n \in Pieces(down) : C!HandleDataReceived(n)
          /\ Sends /\ UNCHANGED <<s, conn>>
       \/ mode = "script" /\ (ScriptAnswers \/ (Flushed /\ UNCHANGED <<c, conn>>))

Spec == Init /\ [][Next]_vars

-----------------------------------------------------------------------------
\* What an answer with a status says about request id, in the forms it may have.
Texts(id, replies) == {[i \in DOMAIN r.text |-> IF r.text[i] = Text THEN Data(id) ELSE r.text[i]] :
                          r \in replies}
Whole(id, status) ==
    LET replies == {r \in Replies \cup Scripts : r.status = status}
        cut == Texts(id, {r \in replies : ~r.framed})
    IN  Texts(id, replies)
            \cup UNION {{SubSeq(text, 1, n) : n \in 0..Len(text)} : text \in cut}
            \cup (IF c.asked[id] = "HEAD" THEN {<<>>} ELSE {})

\* The answer to a request is the server's answer to that request, whole and from
\* nobody else's, streamed or not, and there is one: however responses are framed
\* and cut, and whatever timers, disconnects and redirects come between.  Only an
\* error of the transport calls the callback of a request again.
AnswerIsOwn ==
    \A id \in 1..c.calls :
        LET answers == SelectSeq(c.answers[id], LAMBDA a : a.id # -1) IN
        /\ Len(answers) <= 1
        /\ \A i \in DOMAIN answers :
               answers[i].status # 0 =>
                   /\ answers[i].id = id
                   /\ answers[i].body \o c.streamed[id] \in Whole(id, answers[i].status)
        /\ \E text \in Texts(id, Replies \cup Scripts) : IsPrefix(c.streamed[id], text)

\* A request is answered: or it awaits its answer on a connection, under the timer if
\* it has a time-out; or it is to be sent again over the connection that a redirect
\* has it make.  It can be lost when a redirect cannot be followed.
RequestsAnswered ==
    \A id \in 1..c.calls :
        \/ c.answers[id] # <<>> \/ id \in c.lost
        \/ /\ id = c.pending.id
           /\ \/ /\ c.awaiting /\ c.tcp \in {"open", "failed"}
                 /\ c.requestTimeout # 0 => c.timer \/ c.late
              \/ c.replay /\ c.tcp = "connecting"

\* The callback of a request: its own answer, and one.
AnsweredOnce == AnswerIsOwn /\ RequestsAnswered

=============================================================================
