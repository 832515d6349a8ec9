--------------------------- MODULE CommandSession ---------------------------
(***************************************************************************)
(* Lab8/client.c and Lab8/server.c: one client, and the thread that serves *)
(* it (handle_client), over a TCP connection.                              *)
(*                                                                         *)
(* Nothing marks the end of an answer: the client reads until it sees an   *)
(* empty line alone, a "BYE", the end of the stream, or five seconds of    *)
(* silence.  The connection keeps no boundaries.  What has been written    *)
(* and not read is a sequence of pieces: one dprintf of the server, or one *)
(* write of the client.  A read takes one or more of them, and a read of   *)
(* the client, which holds MAX_BUFFER - 1 bytes, may end within a piece.   *)
(*                                                                         *)
(* A write to a connection the peer has closed is lost, and is answered by *)
(* a reset sooner or later.  A write that meets a reset is lost, or raises *)
(* SIGPIPE, which neither program handles and which ends the process.      *)
(***************************************************************************)
EXTENDS Integers, Sequences

CONSTANT MaxRequests \* bound: lines the user enters, or a file holds, in all

ASSUME SessionAssumption == MaxRequests \in Nat

VARIABLES
  client,  \* connect, reading (in read_server_response), prompt, newline (to be
           \* written), closed; killed: SIGPIPE, interrupted: any other signal
  request, \* how many lines it has sent
  inFile,  \* it takes its lines from a file (process_file)
  quits,   \* its last line will make it leave the loop of main
  server,  \* accept, read, answer, closed; stopped: SIGINT, killed: SIGPIPE
  serving, reply, leaves, \* the request being answered, the pieces of the answer
                          \* not yet written, and whether the thread ends then
  c2s, s2c,               \* written and not yet read, in either direction
  toServer, toClient,     \* what a write meets: open, closed, reset
  ahead    \* history: the client has gone on with an answer outstanding

clientVars == <<client, request, inFile, quits>>
serverVars == <<server, serving, reply, leaves>>
vars == <<clientVars, serverVars, c2s, s2c, toServer, toClient, ahead>>

\* "QUITE" stands for a word that is unknown to the server, but starts with QUIT.
Commands == {"ECHO", "INFO", "CD", "LIST", "QUIT", "QUITE"}

\* The newline of a line, which is a write of its own.
Newline == "newline"

\* Mutant of Listing: the blank line comes first.
ListingBlankFirst ==
  {<<"empty">>, <<"empty", "text">>, <<"empty", "text", "text">>,
   <<"empty", "text", "bye">>, <<"text">>}

\* handle_list: the entries and a blank line, or an error.
Listing ==
  {<<"empty">>, <<"text", "empty">>, <<"text", "text", "empty">>,
   <<"text", "bye", "empty">>, <<"text">>}

\* INFO_MESSAGE, or "Unknown command".
Message == {<<"text">>}

\* The pieces a command is answered with: "bye" contains BYE, be it the text of
\* an ECHO or the name of a file; "empty" is a newline alone.  CD without an
\* argument is not answered.
Answers(cmd) ==
  CASE cmd = "LIST" -> Listing
    [] cmd = "CD"   -> {<< >>, <<"empty">>}
    [] cmd = "ECHO" -> {<<"text">>, <<"bye">>, <<"empty">>}
    [] cmd = "QUIT" -> {<<"bye">>}
    [] OTHER        -> Message

Init ==
  /\ client = "connect" /\ request = 0 /\ inFile = FALSE /\ quits = FALSE
  /\ server = "accept" /\ serving = 0 /\ reply = << >> /\ leaves = FALSE
  /\ c2s = << >> /\ s2c = << >>
  /\ toServer = "open" /\ toClient = "open"
  /\ ahead = FALSE

\* The command lines on their way to the server.
Lines == {i \in 1..Len(c2s) : c2s[i].cmd # Newline}

\* The server has, or will have, something more to write.
Outstanding ==
  Lines # {} \/ reply # << >> \/ server = "accept"

ServerGone == server \in {"closed", "stopped", "killed"}

(***************************************************************************)
(* server.c.  handle_client answers the first command of what one read     *)
(* gives it, which need not have its newline yet; other commands in the    *)
(* same read are not looked at.                                            *)
(***************************************************************************)
Accept ==
  /\ server = "accept" /\ client # "connect"
  /\ server' = "answer" /\ reply' \in Message
  /\ UNCHANGED <<clientVars, serving, leaves, c2s, s2c, toServer, toClient, ahead>>

Serve ==
  /\ server = "read"
  /\ \E first \in Lines :
       /\ \A i \in 1..(first - 1) : i \notin Lines
       /\ \E n \in first..Len(c2s) : c2s' = SubSeq(c2s, n + 1, Len(c2s))
       /\ serving' = c2s[first].req
       /\ reply' \in Answers(c2s[first].cmd)
       /\ leaves' = (c2s[first].cmd = "QUIT")
  /\ server' = "answer"
  /\ UNCHANGED <<clientVars, s2c, toServer, toClient, ahead>>

\* A read that gives newlines only.
Skip ==
  /\ server = "read"
  /\ \E n \in 1..Len(c2s) :
       /\ \A i \in 1..n : i \notin Lines
       /\ c2s' = SubSeq(c2s, n + 1, Len(c2s))
  /\ UNCHANGED <<clientVars, serverVars, s2c, toServer, toClient, ahead>>

\* One dprintf.
Write ==
  /\ server = "answer" /\ reply # << >>
  /\ reply' = Tail(reply)
  /\ IF toClient = "open"
       THEN s2c' = Append(s2c, [kind |-> Head(reply), req |-> serving]) /\ toClient' = toClient
       ELSE s2c' = s2c /\ toClient' \in {toClient, "reset"}
  /\ UNCHANGED <<clientVars, server, serving, leaves, c2s, toServer, ahead>>

Answered ==
  /\ server = "answer" /\ reply = << >> /\ ~leaves
  /\ server' = "read"
  /\ UNCHANGED <<clientVars, serving, reply, leaves, c2s, s2c, toServer, toClient, ahead>>

\* The thread or the process is over; a socket closed with data unread in it
\* resets the connection.
ServerCloses(label) ==
  /\ server' = label
  /\ toServer' = IF c2s # << >> THEN "reset" ELSE "closed"
  /\ c2s' = << >> /\ reply' = << >>
  /\ UNCHANGED <<clientVars, serving, leaves, s2c, toClient, ahead>>

\* Mutant of Close: the end of the stream does not end the loop.
CloseAfterQuit ==
  /\ server = "answer" /\ reply = << >> /\ leaves
  /\ ServerCloses("closed")

Close ==
  /\ \/ server = "answer" /\ reply = << >> /\ leaves
     \/ server = "read" /\ c2s = << >> /\ toClient # "open"
  /\ ServerCloses("closed")

ServerSigPipe ==
  /\ server = "answer" /\ reply # << >> /\ toClient = "reset"
  /\ ServerCloses("killed")

SigInt == ~ServerGone /\ ServerCloses("stopped")

(***************************************************************************)
(* client.c.                                                               *)
(***************************************************************************)
Connect ==
  /\ client = "connect"
  /\ client' \in {"reading", "closed"}
  /\ toClient' = IF client' = "closed" THEN "closed" ELSE "open"
  /\ UNCHANGED <<request, inFile, quits, serverVars, c2s, s2c, toServer, ahead>>

\* One write, after which the client goes on at label.
ClientWrites(piece, label) ==
  \/ /\ client' = label
     /\ IF toServer = "open"
          THEN c2s' = Append(c2s, piece) /\ toServer' = toServer
          ELSE c2s' = c2s /\ toServer' \in {toServer, "reset"}
  \/ toServer = "reset" /\ client' = "killed" /\ UNCHANGED <<c2s, toServer>>

\* A QUIT in a file is sent like any other line.
SendLine(cmd) ==
  /\ client = "prompt" /\ request < MaxRequests
  /\ request' = request + 1
  /\ quits' = (~inFile /\ cmd \in {"QUIT", "QUITE"})
  /\ ClientWrites([cmd |-> cmd, req |-> request'], "newline")
  /\ UNCHANGED <<inFile, serverVars, s2c, toClient, ahead>>

\* Mutant of SendNewline: the client does not wait for the answer.
SendNewlineOnly ==
  /\ client = "newline"
  /\ ClientWrites([cmd |-> Newline, req |-> request], "prompt")
  /\ UNCHANGED <<request, inFile, quits, serverVars, s2c, toClient, ahead>>

SendNewline ==
  /\ client = "newline"
  /\ ClientWrites([cmd |-> Newline, req |-> request], "reading")
  /\ UNCHANGED <<request, inFile, quits, serverVars, s2c, toClient, ahead>>

\* read_server_response returns, having left rest unread.
Return(rest) ==
  /\ client' = IF quits THEN "closed" ELSE "prompt"
  /\ toClient' = IF ~quits THEN toClient ELSE IF rest # << >> THEN "reset" ELSE "closed"
  /\ ahead' = (ahead \/ rest # << >> \/ Outstanding)

\* Whether the first n pieces hold a BYE.
ByeIn(n) == \E i \in 1..n : s2c[i].kind = "bye"

\* What a read that ends within a piece has seen of it, and leaves: "cut" is the
\* newline at its end alone.
Cuts(kind) ==
  CASE kind = "text" -> [bye : {FALSE}, rest : {"text", "cut"}]
    [] kind = "bye"  -> [bye : {FALSE}, rest : {"text", "bye"}]
                          \cup [bye : {TRUE}, rest : {"text", "bye", "cut"}]
    [] OTHER         -> {}

\* A newline that comes alone ends the loop, and so does a BYE with a newline.
ReadWhole ==
  \E n \in 1..Len(s2c) :
    /\ s2c' = SubSeq(s2c, n + 1, Len(s2c))
    /\ IF ByeIn(n) \/ (n = 1 /\ s2c[1].kind \in {"empty", "cut"})
         THEN Return(s2c')
         ELSE UNCHANGED <<client, toClient, ahead>>

ReadCut ==
  \E n \in 0..(Len(s2c) - 1) : \E cut \in Cuts(s2c[n + 1].kind) :
    /\ s2c' = [SubSeq(s2c, n + 1, Len(s2c)) EXCEPT ![1].kind = cut.rest]
    /\ IF n > 0 /\ (ByeIn(n) \/ cut.bye)
         THEN Return(s2c')
         ELSE UNCHANGED <<client, toClient, ahead>>

Read ==
  /\ client = "reading" /\ (ReadWhole \/ ReadCut)
  /\ UNCHANGED <<request, inFile, quits, serverVars, c2s, toServer>>

\* select finds nothing for five seconds, or read finds the end of the stream.
Timeout ==
  /\ client = "reading" /\ s2c = << >>
  /\ Return(s2c)
  /\ UNCHANGED <<request, inFile, quits, serverVars, c2s, s2c, toServer>>

\* '@file', and the end of that file.
File ==
  /\ client = "prompt" /\ inFile' = ~inFile
  /\ UNCHANGED <<client, request, quits, serverVars, c2s, s2c, toServer, toClient, ahead>>

\* The process is over; see ServerCloses.
ClientCloses(label) ==
  /\ client' = label
  /\ toClient' = IF s2c # << >> THEN "reset" ELSE "closed"
  /\ UNCHANGED <<request, inFile, quits, serverVars, c2s, s2c, toServer, ahead>>

\* The end of the input.
Leave == client = "prompt" /\ ~inFile /\ ClientCloses("closed")

\* Control-C, which client.c does not handle.
Interrupt ==
  client \in {"connect", "reading", "prompt", "newline"} /\ ClientCloses("interrupted")

ServerStep == Accept \/ Serve \/ Skip \/ Write \/ Answered \/ Close \/ ServerSigPipe
ClientStep == Connect \/ SendNewline \/ Read \/ Timeout

Next ==
  \/ ServerStep \/ ClientStep \/ SigInt
  \/ (\E cmd \in Commands : SendLine(cmd)) \/ File \/ Leave \/ Interrupt

\* Both programs go on when they can, and time passes.  The user need not type.
FairSpec == Init /\ [][Next]_vars /\ WF_vars(ServerStep) /\ WF_vars(ClientStep)

-------------------------------------------------------------------------------
Kinds == {"text", "bye", "empty", "cut"}
Numbers == 0..MaxRequests
Ways == {"open", "closed", "reset"}

\* The state of the two programs and the connection.
TypeOK ==
  /\ client \in {"connect", "reading", "prompt", "newline", "closed", "killed", "interrupted"}
  /\ server \in {"accept", "read", "answer", "closed", "stopped", "killed"}
  /\ {request, serving} \subseteq Numbers /\ {inFile, quits, leaves, ahead} \subseteq BOOLEAN
  /\ reply \in Seq(Kinds)
  /\ c2s \in Seq([cmd : Commands \cup {Newline}, req : Numbers])
  /\ s2c \in Seq([kind : Kinds, req : Numbers])
  /\ {toServer, toClient} \subseteq Ways

\* As long as the client has not run ahead of the server, what it prints answers
\* the line it has just sent, no command is left unread behind another one, and at
\* the prompt every line has been executed.  A write of the server that meets a
\* reset ends it with every session in it (server.c:101, SIGPIPE): then the client
\* was ended by a signal, and had neither left nor lost its connection.
InStep ==
  ~ahead => /\ \A i \in 1..Len(s2c) : s2c[i].req = request
            /\ reply # << >> => serving = request
            /\ \A i, j \in Lines : i = j
            /\ client = "prompt" => serving = request \/ toServer # "open"
            /\ server = "killed" => client = "interrupted"

\* The client runs ahead in three ways only: silence for five seconds before the
\* answer is complete; a BYE in a listing; and a listing of which a read has taken
\* all but the newline of an entry, so that the next one may find that newline
\* alone (client.c:37, 48).  The empty answer of CD and the empty line of LIST,
\* which are there "for synchronization" (server.c:154), never cause it.
Synchronized ==
  [][ahead' /\ ~ahead =>
       \/ s2c = << >> \/ \E i \in 1..Len(s2c) : s2c[i].kind = "bye"
       \/ s2c[1].kind = "cut"]_vars

\* No thread is left behind by a client that is gone.
HandlerEnds ==
  client \in {"closed", "killed", "interrupted"} ~> ServerGone \/ server = "accept"
==============================================================================
