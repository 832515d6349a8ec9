------------------------------ MODULE Lab8_proof ------------------------------
(***************************************************************************)
(* Theorems about the two modules of Lab8.  CommandSession, for sessions   *)
(* of any length: as long as the client has not run ahead, the two         *)
(* programs are in step, what makes the client run ahead, and that no      *)
(* handler waits for a client that is gone.                                *)
(* SessionServer, for any number of clients and descriptors: nobody closes *)
(* the socket of another.                                                  *)
(***************************************************************************)
EXTENDS CommandSession, SessionServer, FiniteSetTheorems, SequenceTheorems, TLAPS

(***************************************************************************)
(* CommandSession: client and server in step.                              *)
(***************************************************************************)
Line  == [cmd : Commands \cup {Newline}, req : Nat]
Piece == [kind : Kinds, req : Nat]

Shapes ==
  /\ request \in Nat /\ serving \in Nat
  /\ reply \in Seq(Kinds)
  /\ c2s \in Seq(Line)
  /\ s2c \in Seq(Piece)
  /\ toClient \in Ways

\* Before the connection, and at the prompt, nothing is on its way but newlines.
Quiet == s2c = << >> /\ Lines = {} /\ reply = << >>

Idle ==
  /\ client = "connect" => Quiet /\ request = 0
  /\ client = "prompt" => Quiet /\ server # "accept"
  /\ server = "accept" => s2c = << >> /\ Lines = {} /\ request = 0 /\ serving = 0

\* A line on its way to the server is the last one sent, and nothing answers it yet.
OneLine ==
  /\ \A i, j \in Lines : i = j
  /\ \A i \in Lines : c2s[i].req = request
  /\ Lines # {} => s2c = << >> /\ reply = << >>
  /\ Lines = {} /\ client \in {"connect", "newline", "reading", "prompt"} =>
       serving = request \/ toServer # "open"

\* Every piece answers the last line sent.
OneAnswer ==
  /\ \A i \in 1..Len(s2c) : s2c[i].req = request
  /\ reply # << >> => serving = request

\* An empty line is the last piece of an answer.
EmptyLast ==
  /\ \A i \in 1..Len(reply) - 1 : reply[i] # "empty"
  /\ \A i \in 1..Len(s2c) : s2c[i].kind = "empty" => i = Len(s2c) /\ reply = << >>

\* A client that has closed the connection of its own accord did so when at most the
\* greeting was still to be written: that causes the reset, and meets none.
OneWrite ==
  /\ client = "closed" => Lines = {} /\ Len(reply) <= 1
  /\ toClient # "open" => client \in {"closed", "interrupted"}
  /\ toClient = "reset" => client = "interrupted" \/ (reply = << >> /\ server # "accept")
  /\ server = "killed" => client = "interrupted"

Together == Idle /\ OneLine /\ OneAnswer /\ EmptyLast /\ OneWrite

IInv == Shapes /\ (~ahead => Together)

\* What the server may answer.
LEMMA AnswerShapes ==
  ASSUME NEW cmd \in Commands, NEW a \in Answers(cmd) \cup Message
  PROVE  a \in Seq(Kinds) /\ \A i \in 1..Len(a) - 1 : a[i] # "empty"
  <1>1. a \in {<< >>, <<"text">>, <<"bye">>, <<"empty">>, <<"text", "empty">>,
               <<"text", "text", "empty">>, <<"text", "bye", "empty">>}
    BY DEF Answers, Message, Listing, Commands
  <1>2. CASE a = << >>
    BY <1>2
  <1>3. CASE a \in {<<"text">>, <<"bye">>, <<"empty">>}
    <2>1. PICK kind \in Kinds : a = <<kind>>
      BY <1>3 DEF Kinds
    <2> QED
      BY <2>1
  <1>4. CASE a = <<"text", "empty">>
    BY <1>4 DEF Kinds
  <1>5. ASSUME NEW kind \in {"text", "bye"}, a = <<"text", kind, "empty">>
        PROVE  a \in Seq(Kinds) /\ \A i \in 1..Len(a) - 1 : a[i] # "empty"
    <2>1. "text" \in Kinds /\ kind \in Kinds /\ "empty" \in Kinds
      BY DEF Kinds
    <2>2. a \in Seq(Kinds)
      BY <1>5, <2>1
    <2>3. Len(a) = 3 /\ a[1] = "text" /\ a[2] = kind
      BY <1>5
    <2>4. ASSUME NEW i \in 1..Len(a) - 1 PROVE a[i] # "empty"
      <3>1. i = 1 \/ i = 2
        BY <2>3
      <3> QED
        BY <2>3, <3>1
    <2> QED
      BY <2>2, <2>4
  <1> QED
    BY <1>1, <1>2, <1>3, <1>4, <1>5

LEMMA InitInv == Init => IInv
  BY DEF Init, IInv, Shapes, Lines, Together, Idle, Quiet, OneLine, OneAnswer, EmptyLast, OneWrite, Ways

\* What is left of s when n pieces of it have been read.
LEMMA RestOf ==
  ASSUME NEW S, NEW s \in Seq(S), NEW n \in 0..Len(s)
  PROVE  LET rest == SubSeq(s, n + 1, Len(s)) IN
           /\ rest \in Seq(S) /\ Len(rest) = Len(s) - n
           /\ \A i \in 1..Len(rest) : rest[i] = s[n + i]
  <1> DEFINE l == Len(s)
  <1> DEFINE rest == SubSeq(s, n + 1, l)
  <1>1. l \in Nat /\ n \in 0..l
    OBVIOUS
  <1>2. \A i \in n+1..l : s[i] \in S
    OBVIOUS
  <1> HIDE DEF l
  <1>3. /\ rest \in Seq(S) /\ Len(rest) = IF n + 1 <= l THEN l - (n + 1) + 1 ELSE 0
        /\ \A i \in 1..l-(n+1)+1 : rest[i] = s[(n + 1) + i - 1]
    <2>1. n + 1 \in Int /\ l \in Int
      BY <1>1
    <2> QED
      BY <1>2, <2>1, SubSeqProperties
  <1> HIDE DEF rest
  <1>4. Len(rest) = l - n
    BY <1>1, <1>3
  <1>5. ASSUME NEW i \in 1..Len(rest) PROVE rest[i] = s[n + i]
    <2>1. i \in 1..l-(n+1)+1 /\ (n + 1) + i - 1 = n + i
      BY <1>1, <1>4
    <2> QED
      BY <1>3, <2>1
  <1> QED
    BY <1>3, <1>4, <1>5 DEF rest, l

\* The command lines a read leaves, and those there are after a write.
LEMMA LinesLeft ==
  ASSUME c2s \in Seq(Line), NEW n \in 1..Len(c2s), c2s' = SubSeq(c2s, n + 1, Len(c2s))
  PROVE  /\ c2s' \in Seq(Line)
         /\ \A i \in Lines' : n + i \in Lines /\ i \in Nat /\ c2s'[i] = c2s[n + i]
         /\ \A j \in Lines : j > n => j - n \in Lines'
  <1>1. /\ c2s' \in Seq(Line) /\ Len(c2s') = Len(c2s) - n /\ Len(c2s) \in Nat
        /\ \A i \in 1..Len(c2s') : c2s'[i] = c2s[n + i]
    BY RestOf
  <1>2. ASSUME NEW i \in Lines' PROVE n + i \in Lines /\ i \in Nat /\ c2s'[i] = c2s[n + i]
    BY <1>1 DEF Lines
  <1>3. ASSUME NEW j \in Lines, j > n PROVE j - n \in Lines'
    <2>1. j - n \in 1..Len(c2s') /\ n + (j - n) = j
      BY <1>1, <1>3 DEF Lines
    <2> QED
      BY <1>1, <2>1 DEF Lines
  <1> QED
    BY <1>1, <1>2, <1>3

LEMMA LineAdded ==
  ASSUME c2s \in Seq(Line), NEW piece \in Line, c2s' = Append(c2s, piece)
  PROVE  /\ c2s' \in Seq(Line) /\ \A i \in Lines : c2s'[i] = c2s[i]
         /\ c2s'[Len(c2s) + 1] = piece
         /\ Lines' = IF piece.cmd = Newline THEN Lines ELSE Lines \cup {Len(c2s) + 1}
  <1>1. /\ c2s' \in Seq(Line) /\ Len(c2s') = Len(c2s) + 1 /\ Len(c2s) \in Nat
        /\ c2s'[Len(c2s) + 1] = piece
        /\ \A i \in 1..Len(c2s) : c2s'[i] = c2s[i]
    OBVIOUS
  <1> QED
    BY <1>1 DEF Lines

(***************************************************************************)
(* The steps of the server.                                                *)
(***************************************************************************)
LEMMA AcceptInv == IInv /\ Accept => IInv'
  <1> SUFFICES ASSUME IInv, Accept PROVE IInv'
    OBVIOUS
  <1>1. Len(reply') = 1 /\ reply' \in Seq(Kinds)
    <2>1. reply' = <<"text">> /\ reply' \in Message
      BY DEF Accept, Message
    <2> QED
      BY <2>1, AnswerShapes DEF Commands
  <1>2. /\ server = "accept" /\ server' = "answer" /\ client # "connect"
        /\ UNCHANGED <<client, request, serving, c2s, s2c, toServer, toClient, ahead>>
        /\ Lines' = Lines
    BY DEF Accept, clientVars, Lines
  <1>3. Shapes'
    BY <1>1, <1>2 DEF IInv, Shapes
  <1>4. ~ahead => Together'
    BY <1>1, <1>2 DEF IInv, Shapes, Together, Idle, Quiet, OneLine, OneAnswer, EmptyLast, OneWrite
  <1> QED
    BY <1>2, <1>3, <1>4 DEF IInv

LEMMA ServeInv == IInv /\ Serve => IInv'
  <1> SUFFICES ASSUME IInv, Serve PROVE IInv'
    OBVIOUS
  <1>0. c2s \in Seq(Line) /\ Len(c2s) \in Nat
    BY DEF IInv, Shapes
  <1>1. PICK first \in Lines :
          /\ \E n \in first..Len(c2s) : c2s' = SubSeq(c2s, n + 1, Len(c2s))
          /\ serving' = c2s[first].req /\ reply' \in Answers(c2s[first].cmd)
    BY DEF Serve
  <1>2. PICK n \in first..Len(c2s) : c2s' = SubSeq(c2s, n + 1, Len(c2s))
    BY <1>1
  <1>3. first \in 1..Len(c2s) /\ n \in 1..Len(c2s) /\ first <= n
    BY <1>0 DEF Lines
  <1>4. c2s[first].cmd \in Commands /\ c2s[first].req \in Nat
    <2>1. c2s[first] \in Line /\ c2s[first].cmd # Newline
      BY <1>0, <1>3 DEF Lines
    <2> QED
      BY <2>1 DEF Line
  <1>5. /\ server = "read" /\ server' = "answer"
        /\ UNCHANGED <<client, request, s2c, toServer, toClient, ahead>>
    BY DEF Serve, clientVars
  <1>6. reply' \in Seq(Kinds) /\ \A i \in 1..Len(reply') - 1 : reply'[i] # "empty"
    BY <1>1, <1>4, AnswerShapes
  <1>7. c2s' \in Seq(Line) /\ \A i \in Lines' : n + i \in Lines /\ i \in 1..Len(c2s')
    BY <1>0, <1>2, <1>3, LinesLeft DEF Lines
  <1>8. Shapes'
    BY <1>1, <1>4, <1>5, <1>6, <1>7 DEF IInv, Shapes
  <1>9. ASSUME ~ahead PROVE Together'
    <2>1. Lines' = {}
      <3>1. ASSUME NEW i \in Lines' PROVE FALSE
        <4>1. n + i = first
          BY <1>7, <1>9, <3>1 DEF IInv, Together, OneLine
        <4> QED
          BY <1>3, <1>7, <3>1, <4>1
      <3> QED
        BY <3>1
    <2>2. s2c = << >> /\ client \notin {"connect", "prompt", "closed"} /\ serving' = request
      BY <1>1, <1>9 DEF IInv, Together, Idle, Quiet, OneLine, OneWrite
    <2>3. Idle' /\ OneLine' /\ OneAnswer'
      BY <1>5, <2>1, <2>2 DEF Idle, Quiet, OneLine, OneAnswer
    <2>4. EmptyLast'
      BY <1>5, <1>6, <2>2 DEF EmptyLast
    <2>5. OneWrite'
      BY <1>5, <1>9, <2>2 DEF IInv, Together, OneWrite
    <2> QED
      BY <2>3, <2>4, <2>5 DEF Together
  <1> QED
    BY <1>5, <1>8, <1>9 DEF IInv

LEMMA SkipInv == IInv /\ Skip => IInv'
  <1> SUFFICES ASSUME IInv, Skip PROVE IInv'
    OBVIOUS
  <1>1. PICK n \in 1..Len(c2s) :
          (\A i \in 1..n : i \notin Lines) /\ c2s' = SubSeq(c2s, n + 1, Len(c2s))
    BY DEF Skip
  <1>2. /\ c2s' \in Seq(Line)
        /\ \A i \in Lines' : n + i \in Lines /\ i \in Nat /\ c2s'[i] = c2s[n + i]
        /\ \A j \in Lines : j > n => j - n \in Lines'
    BY <1>1, LinesLeft DEF IInv, Shapes
  <1>3. \A j \in Lines : j \in Nat /\ j >= 1
    BY DEF Lines, IInv, Shapes
  <1>4. Lines' = {} <=> Lines = {}
    BY <1>1, <1>2, <1>3
  <1>5. UNCHANGED <<client, request, server, serving, reply, s2c, toServer, toClient, ahead>>
    BY DEF Skip, clientVars, serverVars
  <1>6. Shapes'
    BY <1>2, <1>5 DEF IInv, Shapes
  <1>7. ASSUME ~ahead PROVE Together'
    <2>1. \A i, j \in Lines' : i = j /\ c2s'[i].req = request
      BY <1>2, <1>7 DEF IInv, Together, OneLine
    <2>2. OneLine'
      BY <1>4, <1>5, <1>7, <2>1 DEF IInv, Together, OneLine
    <2> QED
      BY <1>4, <1>5, <1>7, <2>2
         DEF IInv, Together, Idle, Quiet, OneAnswer, EmptyLast, OneWrite
  <1> QED
    BY <1>5, <1>6, <1>7 DEF IInv

LEMMA WriteInv == IInv /\ Write => IInv'
  <1> SUFFICES ASSUME IInv, Write PROVE IInv'
    OBVIOUS
  <1>1. /\ server = "answer" /\ reply # << >> /\ reply' = Tail(reply)
        /\ UNCHANGED <<client, request, server, serving, c2s, toServer, ahead>>
        /\ Lines' = Lines
    BY DEF Write, clientVars, Lines
  <1>2. /\ reply \in Seq(Kinds) /\ reply' \in Seq(Kinds) /\ Len(reply') = Len(reply) - 1
        /\ Head(reply) \in Kinds /\ Head(reply) = reply[1]
        /\ \A i \in 1..Len(reply') : reply'[i] = reply[i + 1]
        /\ Len(reply) \in Nat
    BY <1>1 DEF IInv, Shapes
  <1>3. ASSUME ~ahead
        PROVE  /\ Lines = {} /\ serving = request /\ client \notin {"connect", "prompt"}
               /\ \A i \in 1..Len(reply') - 1 : reply'[i] # "empty"
               /\ \A i \in 1..Len(s2c) : s2c[i].kind # "empty"
    <2>1. Lines = {} /\ serving = request /\ client \notin {"connect", "prompt"}
      BY <1>1, <1>3 DEF IInv, Together, Idle, Quiet, OneLine, OneAnswer
    <2>2. \A i \in 1..Len(reply) - 1 : reply[i] # "empty"
      BY <1>3 DEF IInv, Together, EmptyLast
    <2>3. \A i \in 1..Len(reply') - 1 : reply'[i] # "empty"
      BY <1>2, <2>2
    <2>4. \A i \in 1..Len(s2c) : s2c[i].kind # "empty"
      BY <1>1, <1>3 DEF IInv, Together, EmptyLast
    <2> QED
      BY <2>1, <2>3, <2>4
  <1>4. CASE toClient = "open"
    <2> DEFINE piece == [kind |-> Head(reply), req |-> serving]
    <2>1. s2c' = Append(s2c, piece) /\ toClient' = "open"
      BY <1>4 DEF Write
    <2>2. piece \in Piece /\ piece.kind = reply[1] /\ piece.req = serving
      BY <1>2 DEF IInv, Shapes, Piece
    <2> HIDE DEF piece
    <2>3. /\ s2c' \in Seq(Piece) /\ Len(s2c') = Len(s2c) + 1
          /\ s2c'[Len(s2c) + 1] = piece
          /\ \A i \in 1..Len(s2c) : s2c'[i] = s2c[i]
          /\ Len(s2c) \in Nat
      BY <2>1, <2>2 DEF IInv, Shapes
    <2>4. Shapes'
      BY <1>1, <1>2, <2>1, <2>3 DEF IInv, Shapes, Ways
    <2>5. ASSUME ~ahead PROVE Together'
      <3>1. Idle' /\ OneLine' /\ OneWrite'
        BY <1>1, <1>2, <1>3, <2>1, <2>5 DEF IInv, Together, Idle, OneLine, OneWrite
      <3>2. OneAnswer'
        BY <1>1, <1>3, <2>2, <2>3, <2>5 DEF IInv, Together, OneAnswer
      <3>3. ASSUME NEW i \in 1..Len(s2c'), s2c'[i].kind = "empty"
            PROVE  i = Len(s2c') /\ reply' = << >>
        <4>1. i = Len(s2c) + 1 /\ reply[1] = "empty"
          BY <1>3, <2>2, <2>3, <2>5, <3>3
        <4>2. Len(reply) = 1
          BY <1>1, <1>2, <2>5, <4>1 DEF IInv, Together, EmptyLast
        <4> QED
          BY <1>2, <2>3, <4>1, <4>2
      <3> QED
        BY <1>3, <2>5, <3>1, <3>2, <3>3 DEF Together, EmptyLast
    <2> QED
      BY <1>1, <2>4, <2>5 DEF IInv
  <1>5. CASE toClient # "open"
    <2>1. s2c' = s2c /\ toClient' \in {toClient, "reset"}
      BY <1>5 DEF Write
    <2>2. Shapes'
      BY <1>1, <1>2, <2>1 DEF IInv, Shapes, Ways
    <2>3. ASSUME ~ahead PROVE Together'
      <3>1. client \in {"closed", "interrupted"} /\ (client = "closed" => Len(reply) <= 1)
        BY <1>5, <2>3 DEF IInv, Together, OneWrite
      <3>2. client = "closed" => reply' = << >>
        BY <1>1, <1>2, <3>1
      <3>3. Idle' /\ OneLine'
        BY <1>1, <1>3, <2>1, <2>3, <3>1 DEF Idle, OneLine
      <3>4. OneWrite'
        BY <1>1, <1>2, <1>3, <2>1, <2>3, <3>1, <3>2 DEF OneWrite
      <3>5. OneAnswer' /\ EmptyLast'
        BY <1>1, <1>3, <2>1, <2>3 DEF IInv, Together, OneAnswer, EmptyLast
      <3> QED
        BY <3>3, <3>4, <3>5 DEF Together
    <2> QED
      BY <1>1, <2>2, <2>3 DEF IInv
  <1> QED
    BY <1>4, <1>5

\* The thread goes back to reading, or is over.
LEMMA ServerEndsInv ==
  IInv /\ (Answered \/ Close \/ ServerSigPipe \/ SigInt) => IInv'
  <1> SUFFICES ASSUME IInv, Answered \/ Close \/ ServerSigPipe \/ SigInt PROVE IInv'
    OBVIOUS
  <1>1. CASE Answered
    BY <1>1 DEF Answered, clientVars, IInv, Shapes, Lines, Together, Idle, Quiet, OneLine,
       OneAnswer, EmptyLast, OneWrite
  <1>2. ASSUME NEW label \in {"closed", "stopped", "killed"}, ServerCloses(label),
               label = "killed" /\ ~ahead => client = "interrupted"
        PROVE  IInv'
    <2>1. /\ server' = label /\ toServer' # "open" /\ c2s' = << >> /\ reply' = << >>
          /\ UNCHANGED <<client, request, serving, s2c, toClient, ahead>>
          /\ Lines' = {}
      BY <1>2 DEF ServerCloses, clientVars, Lines
    <2>2. Shapes'
      BY <2>1 DEF IInv, Shapes
    <2>3. ~ahead => Together'
      BY <1>2, <2>1 DEF IInv, Shapes, Together, Idle, Quiet, OneLine, OneAnswer, EmptyLast, OneWrite
    <2> QED
      BY <2>1, <2>2, <2>3 DEF IInv
  <1>3. CASE ServerSigPipe
    <2>1. ~ahead => client = "interrupted"
      BY <1>3 DEF ServerSigPipe, IInv, Together, OneWrite
    <2> QED
      BY <1>2, <1>3, <2>1 DEF ServerSigPipe
  <1> QED
    BY <1>1, <1>2, <1>3 DEF Close, SigInt

(***************************************************************************)
(* The steps of the client.                                                *)
(***************************************************************************)
LEMMA ConnectInv == IInv /\ Connect => IInv'
  <1> SUFFICES ASSUME IInv, Connect PROVE IInv'
    OBVIOUS
  <1>1. /\ client = "connect" /\ client' \in {"reading", "closed"}
        /\ toClient' = IF client' = "closed" THEN "closed" ELSE "open"
        /\ UNCHANGED <<request, server, serving, reply, c2s, s2c, toServer, ahead>>
        /\ Lines' = Lines
    BY DEF Connect, serverVars, Lines
  <1>2. Shapes'
    BY <1>1 DEF IInv, Shapes, Ways
  <1>3. ASSUME ~ahead PROVE Together'
    <2>1. Quiet /\ request = 0
      BY <1>1, <1>3 DEF IInv, Together, Idle
    <2> QED
      BY <1>1, <1>3, <2>1
         DEF IInv, Together, Idle, Quiet, OneLine, OneAnswer, EmptyLast, OneWrite
  <1> QED
    BY <1>1, <1>2, <1>3 DEF IInv

\* A write of the client arrives, or finds the connection closed.
LEMMA ClientWriteCases ==
  ASSUME NEW piece, NEW label, ClientWrites(piece, label)
  PROVE  /\ client' \in {label, "killed"}
         /\ \/ c2s' = Append(c2s, piece) /\ toServer' = toServer
            \/ c2s' = c2s /\ toServer # "open" /\ toServer' # "open"
  BY DEF ClientWrites

LEMMA SendLineInv == ASSUME IInv, NEW cmd \in Commands, SendLine(cmd) PROVE IInv'
  <1> DEFINE line == [cmd |-> cmd, req |-> request + 1]
  <1>1. /\ client = "prompt" /\ request' = request + 1 /\ ClientWrites(line, "newline")
        /\ UNCHANGED <<server, serving, reply, s2c, toClient, ahead>>
    BY DEF SendLine, serverVars
  <1>2. request + 1 \in Nat /\ line \in Line /\ line.req = request + 1 /\ line.cmd # Newline
    BY DEF IInv, Shapes, Line, Commands, Newline
  <1> HIDE DEF line
  <1>3. /\ client' \in {"newline", "killed"}
        /\ \/ c2s' = Append(c2s, line) /\ toServer' = toServer
           \/ c2s' = c2s /\ toServer # "open" /\ toServer' # "open"
    BY <1>1, ClientWriteCases
  <1>4. c2s' \in Seq(Line)
    BY <1>2, <1>3 DEF IInv, Shapes
  <1>5. Shapes'
    BY <1>1, <1>2, <1>4 DEF IInv, Shapes
  <1>6. ASSUME ~ahead PROVE Together'
    <2>1. Quiet /\ server # "accept" /\ toClient = "open" /\ server # "killed"
      BY <1>1, <1>6 DEF IInv, Together, Idle, OneWrite
    <2>2. Idle' /\ OneAnswer' /\ EmptyLast' /\ OneWrite'
      BY <1>1, <1>3, <2>1 DEF Quiet, Idle, OneAnswer, EmptyLast, OneWrite
    <2>3. CASE c2s' = Append(c2s, line)
      <3>1. Lines' = {Len(c2s) + 1} /\ c2s'[Len(c2s) + 1] = line
        BY <1>2, <2>1, <2>3, LineAdded DEF Quiet, IInv, Shapes
      <3> QED
        BY <1>1, <1>2, <2>1, <2>2, <3>1 DEF Quiet, OneLine, Together
    <2>4. CASE c2s' = c2s /\ toServer' # "open"
      <3>1. Lines' = {}
        BY <2>1, <2>4 DEF Quiet, Lines
      <3> QED
        BY <2>2, <2>4, <3>1 DEF OneLine, Together
    <2> QED
      BY <1>3, <2>3, <2>4
  <1> QED
    BY <1>1, <1>5, <1>6 DEF IInv

LEMMA SendNewlineInv == IInv /\ SendNewline => IInv'
  <1> SUFFICES ASSUME IInv, SendNewline PROVE IInv'
    OBVIOUS
  <1> DEFINE line == [cmd |-> Newline, req |-> request]
  <1>1. /\ client = "newline" /\ ClientWrites(line, "reading")
        /\ UNCHANGED <<request, server, serving, reply, s2c, toClient, ahead>>
    BY DEF SendNewline, serverVars
  <1>2. line \in Line /\ line.cmd = Newline
    BY DEF IInv, Shapes, Line
  <1> HIDE DEF line
  <1>3. /\ client' \in {"reading", "killed"}
        /\ \/ c2s' = Append(c2s, line) /\ toServer' = toServer
           \/ c2s' = c2s /\ toServer # "open" /\ toServer' # "open"
    BY <1>1, ClientWriteCases
  <1>4. c2s' \in Seq(Line) /\ Lines' = Lines /\ \A i \in Lines : c2s'[i] = c2s[i]
    <2>1. CASE c2s' = Append(c2s, line)
      BY <1>2, <2>1, LineAdded DEF IInv, Shapes
    <2>2. CASE c2s' = c2s
      BY <2>2 DEF IInv, Shapes, Lines
    <2> QED
      BY <1>3, <2>1, <2>2
  <1>5. Shapes'
    BY <1>1, <1>4 DEF IInv, Shapes
  <1>6. ASSUME ~ahead PROVE Together'
    <2>1. OneLine'
      BY <1>1, <1>3, <1>4, <1>6 DEF IInv, Together, OneLine
    <2>2. Idle' /\ OneWrite'
      BY <1>1, <1>3, <1>4, <1>6 DEF IInv, Together, Idle, Quiet, OneWrite
    <2>3. OneAnswer' /\ EmptyLast'
      BY <1>1, <1>6 DEF IInv, Together, OneAnswer, EmptyLast
    <2> QED
      BY <2>1, <2>2, <2>3 DEF Together
  <1> QED
    BY <1>1, <1>5, <1>6 DEF IInv

\* After a return that does not make the client run ahead, nothing is on its way.
LEMMA ReturnInv ==
  ASSUME IInv, NEW rest \in Seq(Piece), client = "reading", s2c' = rest, Return(rest),
         UNCHANGED <<request, server, serving, reply, leaves, c2s, toServer>>
  PROVE  IInv'
  <1>1. /\ client' \in {"prompt", "closed"}
        /\ toClient' = toClient \/ (client' = "closed" /\ toClient' \in {"reset", "closed"})
        /\ client' = "closed" /\ rest = << >> => toClient' = "closed"
        /\ ahead' <=> (ahead \/ rest # << >> \/ Outstanding)
    BY DEF Return
  <1>2. Shapes'
    BY <1>1 DEF IInv, Shapes, Ways
  <1>3. ASSUME ~ahead' PROVE Together'
    <2>1. /\ ~ahead /\ rest = << >> /\ Lines = {} /\ reply = << >> /\ server # "accept"
          /\ Lines' = Lines
      BY <1>1, <1>3 DEF Outstanding, Lines
    <2>2. Together
      BY <2>1 DEF IInv
    <2>3. server # "killed" /\ toClient = "open" /\ (serving = request \/ toServer # "open")
      BY <2>1, <2>2 DEF Together, OneWrite, OneLine
    <2>4. Idle' /\ OneLine' /\ OneWrite'
      BY <1>1, <2>1, <2>3 DEF Idle, Quiet, OneLine, OneWrite
    <2>5. OneAnswer' /\ EmptyLast'
      BY <2>1 DEF OneAnswer, EmptyLast
    <2> QED
      BY <2>4, <2>5 DEF Together
  <1> QED
    BY <1>2, <1>3 DEF IInv

\* A read that ends within a piece leaves no empty line, and has seen a BYE only
\* where there is one.
LEMMA CutFacts ==
  ASSUME NEW kind \in Kinds, NEW cut \in Cuts(kind)
  PROVE  cut.rest \in Kinds \ {"empty"} /\ (cut.bye => kind = "bye")
  BY DEF Cuts, Kinds

\* Every piece that a read leaves is one that was there, or the end of one.
LEMMA Unread ==
  ASSUME IInv, ReadWhole \/ ReadCut
  PROVE  /\ s2c # << >> /\ s2c' \in Seq(Piece)
         /\ Return(s2c') \/ UNCHANGED <<client, toClient, ahead>>
         /\ \A i \in 1..Len(s2c') : \E j \in 1..Len(s2c) :
              /\ s2c'[i].req = s2c[j].req
              /\ s2c'[i].kind = "empty" =>
                   s2c[j].kind = "empty" /\ (j = Len(s2c) => i = Len(s2c'))
  <1>1. s2c \in Seq(Piece) /\ Len(s2c) \in Nat
    BY DEF IInv, Shapes
  <1>2. CASE ReadWhole
    <2>1. PICK n \in 1..Len(s2c) :
            /\ s2c' = SubSeq(s2c, n + 1, Len(s2c))
            /\ Return(s2c') \/ UNCHANGED <<client, toClient, ahead>>
      BY <1>2 DEF ReadWhole
    <2>2. /\ s2c' \in Seq(Piece) /\ Len(s2c') = Len(s2c) - n
          /\ \A i \in 1..Len(s2c') : s2c'[i] = s2c[n + i]
      BY <1>1, <2>1, RestOf
    <2>3. ASSUME NEW i \in 1..Len(s2c')
          PROVE  /\ n + i \in 1..Len(s2c) /\ s2c'[i] = s2c[n + i]
                 /\ n + i = Len(s2c) => i = Len(s2c')
      BY <1>1, <2>2
    <2>4. s2c # << >>
      BY <1>1, <2>1
    <2>5. ASSUME NEW i \in 1..Len(s2c')
          PROVE  \E j \in 1..Len(s2c) :
                   /\ s2c'[i].req = s2c[j].req
                   /\ s2c'[i].kind = "empty" =>
                        s2c[j].kind = "empty" /\ (j = Len(s2c) => i = Len(s2c'))
      BY <2>3
    <2> QED
      BY <2>1, <2>2, <2>4, <2>5
  <1>3. CASE ReadCut
    <2> DEFINE l == Len(s2c)
    <2>1. PICK n \in 0..(l - 1) : \E cut \in Cuts(s2c[n + 1].kind) :
            /\ s2c' = [SubSeq(s2c, n + 1, l) EXCEPT ![1].kind = cut.rest]
            /\ Return(s2c') \/ UNCHANGED <<client, toClient, ahead>>
      BY <1>3 DEF ReadCut
    <2>2. PICK cut \in Cuts(s2c[n + 1].kind) :
            /\ s2c' = [SubSeq(s2c, n + 1, l) EXCEPT ![1].kind = cut.rest]
            /\ Return(s2c') \/ UNCHANGED <<client, toClient, ahead>>
      BY <2>1
    <2> DEFINE rest == SubSeq(s2c, n + 1, l)
    <2> DEFINE end == [rest[1] EXCEPT !.kind = cut.rest]
    <2>3. l \in Nat /\ n + 1 \in 1..l /\ n \in 0..l
      BY <1>1
    <2>4. /\ rest \in Seq(Piece) /\ Len(rest) = l - n
          /\ \A i \in 1..Len(rest) : rest[i] = s2c[n + i]
      BY <1>1, <2>3, RestOf
    <2>5. s2c' = [rest EXCEPT ![1] = end]
      BY <2>2
    <2> HIDE DEF l, rest
    <2>6. 1 \in 1..Len(rest) /\ rest[1] = s2c[n + 1]
      BY <2>3, <2>4
    <2>7. s2c[n + 1] \in Piece
      BY <1>1, <2>3 DEF l
    <2>8. cut.rest \in Kinds \ {"empty"}
      BY <2>7, CutFacts DEF Piece
    <2>9. end \in Piece /\ end.req = s2c[n + 1].req /\ end.kind # "empty"
      BY <2>6, <2>7, <2>8 DEF Piece
    <2> HIDE DEF end
    <2>10. /\ s2c' \in Seq(Piece) /\ Len(s2c') = Len(rest)
           /\ \A i \in 1..Len(rest) : s2c'[i] = IF i = 1 THEN end ELSE rest[i]
      BY <2>4, <2>5, <2>6, <2>9, ExceptSeq
    <2>11. ASSUME NEW i \in 1..Len(s2c')
           PROVE  /\ n + i \in 1..l /\ s2c'[i].req = s2c[n + i].req
                  /\ s2c'[i].kind = "empty" => s2c[n + i].kind = "empty"
                  /\ n + i = l => i = Len(s2c')
      <3>1. i \in 1..(l - n) /\ n + i \in 1..l /\ rest[i] = s2c[n + i]
        BY <2>3, <2>4, <2>10
      <3>2. (n + i = l => i = Len(s2c')) /\ s2c'[i] = IF i = 1 THEN end ELSE rest[i]
        BY <2>3, <2>4, <2>10, <3>1
      <3> QED
        BY <2>9, <3>1, <3>2
    <2>12. s2c # << >>
      BY <1>1, <2>3 DEF l
    <2> QED
      BY <2>2, <2>10, <2>11, <2>12 DEF l
  <1> QED
    BY <1>2, <1>3

LEMMA ReadInv == IInv /\ Read => IInv'
  <1> SUFFICES ASSUME IInv, Read PROVE IInv'
    OBVIOUS
  <1>1. /\ client = "reading" /\ (ReadWhole \/ ReadCut) /\ Lines' = Lines
        /\ UNCHANGED <<request, server, serving, reply, leaves, c2s, toServer>>
    BY DEF Read, serverVars, Lines
  <1>2. /\ s2c # << >> /\ s2c' \in Seq(Piece)
        /\ Return(s2c') \/ UNCHANGED <<client, toClient, ahead>>
        /\ \A i \in 1..Len(s2c') : \E j \in 1..Len(s2c) :
             /\ s2c'[i].req = s2c[j].req
             /\ s2c'[i].kind = "empty" =>
                  s2c[j].kind = "empty" /\ (j = Len(s2c) => i = Len(s2c'))
    BY <1>1, Unread
  <1>3. CASE Return(s2c')
    BY <1>1, <1>2, <1>3, ReturnInv
  <1>4. CASE UNCHANGED <<client, toClient, ahead>>
    <2>1. Shapes'
      BY <1>1, <1>2, <1>4 DEF IInv, Shapes
    <2>2. ASSUME ~ahead PROVE Together'
      <3>1. Lines = {} /\ server # "accept"
        BY <1>2, <2>2 DEF IInv, Together, Idle, OneLine
      <3>2. Idle' /\ OneLine' /\ OneWrite'
        BY <1>1, <1>4, <2>2, <3>1 DEF IInv, Together, Idle, OneLine, OneWrite
      <3>3. ASSUME NEW i \in 1..Len(s2c')
            PROVE  /\ s2c'[i].req = request
                   /\ s2c'[i].kind = "empty" => i = Len(s2c') /\ reply = << >>
        <4>1. PICK j \in 1..Len(s2c) :
                /\ s2c'[i].req = s2c[j].req
                /\ s2c'[i].kind = "empty" =>
                     s2c[j].kind = "empty" /\ (j = Len(s2c) => i = Len(s2c'))
          BY <1>2
        <4>2. /\ s2c[j].req = request
              /\ s2c[j].kind = "empty" => j = Len(s2c) /\ reply = << >>
          BY <2>2 DEF IInv, Together, OneAnswer, EmptyLast
        <4> QED
          BY <4>1, <4>2
      <3>4. OneAnswer' /\ EmptyLast'
        BY <1>1, <2>2, <3>3 DEF IInv, Together, OneAnswer, EmptyLast
      <3> QED
        BY <3>2, <3>4 DEF Together
    <2> QED
      BY <1>4, <2>1, <2>2 DEF IInv
  <1> QED
    BY <1>2, <1>3, <1>4

LEMMA QuietClientInv == IInv /\ (Timeout \/ File \/ Leave \/ Interrupt) => IInv'
  <1> SUFFICES ASSUME IInv, Timeout \/ File \/ Leave \/ Interrupt PROVE IInv'
    OBVIOUS
  <1>1. CASE Timeout
    <2>1. s2c \in Seq(Piece) /\ s2c' = s2c
      BY <1>1 DEF Timeout, IInv, Shapes
    <2> QED
      BY <1>1, <2>1, ReturnInv DEF Timeout, serverVars
  <1>2. CASE File
    BY <1>2 DEF File, serverVars, IInv, Shapes, Lines, Together, Idle, Quiet, OneLine, OneAnswer,
       EmptyLast, OneWrite
  <1>3. ASSUME NEW label \in {"closed", "interrupted"}, ClientCloses(label),
               label = "closed" => client = "prompt"
        PROVE  IInv'
    <2>1. /\ client' = label /\ toClient' = IF s2c # << >> THEN "reset" ELSE "closed"
          /\ UNCHANGED <<request, server, serving, reply, c2s, s2c, toServer, ahead>>
          /\ Lines' = Lines
      BY <1>3 DEF ClientCloses, serverVars, Lines
    <2>2. Shapes'
      BY <2>1 DEF IInv, Shapes, Ways
    <2>3. ASSUME ~ahead PROVE Together'
      <3>1. Together
        BY <2>3 DEF IInv
      <3>2. Idle' /\ OneLine'
        BY <2>1, <3>1 DEF Together, Idle, OneLine
      <3>3. label = "closed" => Quiet /\ toClient' = "closed" /\ server # "killed"
        BY <1>3, <2>1, <3>1 DEF Together, Idle, Quiet, OneWrite
      <3>4. OneWrite'
        BY <2>1, <3>1, <3>3 DEF Together, Quiet, OneWrite
      <3>5. OneAnswer' /\ EmptyLast'
        BY <2>1, <3>1 DEF Together, OneAnswer, EmptyLast
      <3> QED
        BY <3>2, <3>4, <3>5 DEF Together
    <2> QED
      BY <2>1, <2>2, <2>3 DEF IInv
  <1> QED
    BY <1>1, <1>2, <1>3 DEF Leave, Interrupt

LEMMA NextInv == IInv /\ [Next]_vars => IInv'
  <1> SUFFICES ASSUME IInv, [Next]_vars PROVE IInv'
    OBVIOUS
  <1>1. CASE UNCHANGED vars
    BY <1>1 DEF vars, clientVars, serverVars, IInv, Shapes, Lines, Together, Idle, Quiet, OneLine,
       OneAnswer, EmptyLast, OneWrite
  <1> QED
    BY <1>1, AcceptInv, ServeInv, SkipInv, WriteInv, ServerEndsInv, ConnectInv, SendLineInv,
       SendNewlineInv, ReadInv, QuietClientInv DEF Next, ServerStep, ClientStep

THEOREM InvHolds == FairSpec => []IInv
  BY InitInv, NextInv, PTL DEF FairSpec

\* As long as the client has not run ahead, what it prints answers the line it has
\* just sent, every line it sends is executed, and the server is ended by SIGPIPE
\* only when a signal has ended the client (Lab8/server.c:117 to 161).
THEOREM InStepHolds == FairSpec => []InStep
  <1>1. IInv => InStep
    <2> SUFFICES ASSUME IInv, ~ahead, Together PROVE InStep
      BY DEF IInv, InStep
    <2>1. client = "prompt" => serving = request \/ toServer # "open"
      BY DEF Together, Idle, Quiet, OneLine
    <2> QED
      BY <2>1 DEF Together, OneLine, OneAnswer, OneWrite, InStep
  <1> QED
    BY <1>1, InvHolds, PTL

\* Only five seconds of silence, a BYE in an answer, or an answer that a read has cut
\* before a newline make the client go on with an answer outstanding: the newline
\* that is sent for synchronization never does (Lab8/server.c:154), however the
\* pieces of answers are joined and cut by the reads.
THEOREM SynchronizedHolds == FairSpec => Synchronized
  <1> DEFINE Excused ==
        s2c = << >> \/ (\E i \in 1..Len(s2c) : s2c[i].kind = "bye") \/ s2c[1].kind = "cut"
  <1>1. IInv /\ [Next]_vars => [ahead' /\ ~ahead => Excused]_vars
    <2> SUFFICES ASSUME IInv, Next, ahead', ~ahead PROVE Excused
      BY DEF vars
    <2>1. Read \/ Timeout
      BY DEF Next, ServerStep, Accept, Serve, Skip, Write, Answered, Close, ServerSigPipe, SigInt,
         ServerCloses, ClientStep, Connect, SendLine, SendNewline, File, ClientCloses, Leave,
         Interrupt
    <2>2. CASE Timeout
      BY <2>2 DEF Timeout
    <2>3. s2c \in Seq(Piece) /\ Len(s2c) \in Nat /\ Together
      BY DEF IInv, Shapes
    <2>4. CASE ReadWhole
      <3>1. PICK n \in 1..Len(s2c) :
              /\ s2c' = SubSeq(s2c, n + 1, Len(s2c)) /\ Return(s2c')
              /\ ByeIn(n) \/ (n = 1 /\ s2c[1].kind \in {"empty", "cut"})
        BY <2>4 DEF ReadWhole
      <3>2. CASE ByeIn(n)
        BY <2>3, <3>2 DEF ByeIn
      <3>3. CASE n = 1 /\ s2c[1].kind = "empty"
        <4>1. Len(s2c) = 1 /\ reply = << >>
          BY <2>3, <3>3 DEF Together, EmptyLast
        <4>2. Lines = {} /\ server # "accept"
          BY <2>3, <4>1 DEF Together, Idle, OneLine
        <4>3. s2c' = << >>
          BY <2>3, <3>1, <3>3, <4>1
        <4> QED
          BY <3>1, <4>1, <4>2, <4>3 DEF Return, Outstanding
      <3> QED
        BY <3>1, <3>2, <3>3
    <2>5. CASE ReadCut
      <3>1. PICK n \in 0..(Len(s2c) - 1) : \E cut \in Cuts(s2c[n + 1].kind) : ByeIn(n) \/ cut.bye
        BY <2>5 DEF ReadCut
      <3>2. n + 1 \in 1..Len(s2c) /\ s2c[n + 1] \in Piece
        BY <2>3
      <3>3. CASE ByeIn(n)
        BY <2>3, <3>3 DEF ByeIn
      <3>4. CASE s2c[n + 1].kind = "bye"
        BY <3>2, <3>4
      <3> QED
        BY <3>1, <3>2, <3>3, <3>4, CutFacts DEF Piece
    <2> QED
      BY <2>1, <2>2, <2>4, <2>5 DEF Read
  <1> QED
    BY <1>1, InvHolds, PTL DEF FairSpec, Synchronized

(***************************************************************************)
(* A handler whose client is gone is never left waiting: it has a write to *)
(* make, or a read that returns a command or the end of the stream.        *)
(***************************************************************************)
GoneInv ==
  /\ server \in {"accept", "read", "answer"} \/ ServerGone
  /\ toServer # "open" => ServerGone
  /\ client \in {"closed", "interrupted"} => toClient # "open"
  /\ client = "killed" => ServerGone

HandlerFree ==
  client \in {"closed", "killed", "interrupted"} /\ ~ServerGone /\ server # "accept"
    => server = "answer" \/ (server = "read" /\ (c2s # << >> \/ toClient # "open"))

LEMMA GoneNext == GoneInv /\ [Next]_vars => GoneInv'
  <1> SUFFICES ASSUME GoneInv, [Next]_vars PROVE GoneInv'
    OBVIOUS
  <1> USE DEF GoneInv, ServerGone
  <1>1. CASE UNCHANGED vars
    BY <1>1 DEF vars, clientVars, serverVars
  <1>2. CASE Accept \/ Serve \/ Skip \/ Answered
    BY <1>2 DEF Accept, Serve, Skip, Answered, clientVars, serverVars
  <1>3. CASE Write
    BY <1>3 DEF Write, clientVars
  <1>4. CASE Close \/ ServerSigPipe \/ SigInt
    BY <1>4 DEF Close, ServerSigPipe, SigInt, ServerCloses, clientVars
  <1>5. CASE Connect
    BY <1>5 DEF Connect, serverVars
  <1>6. CASE Read \/ Timeout
    BY <1>6 DEF Read, ReadWhole, ReadCut, Timeout, Return, serverVars
  <1>7. CASE SendNewline \/ \E cmd \in Commands : SendLine(cmd)
    BY <1>7 DEF SendNewline, SendLine, ClientWrites, serverVars
  <1>8. CASE File \/ Leave \/ Interrupt
    BY <1>8 DEF File, Leave, Interrupt, ClientCloses, serverVars
  <1> QED
    BY <1>1, <1>2, <1>3, <1>4, <1>5, <1>6, <1>7, <1>8 DEF Next, ServerStep, ClientStep

\* Whenever and however the client ends, by a signal too, and however far the two
\* programs have come apart by then, the thread that serves it is not blocked in a
\* read for good: handle_client can go on to the end of its loop.
THEOREM HandlersFree == FairSpec => []HandlerFree
  <1>1. Init => GoneInv
    BY DEF Init, GoneInv, ServerGone
  <1>2. GoneInv => HandlerFree
    BY DEF GoneInv, HandlerFree, ServerGone
  <1> QED
    BY <1>1, <1>2, GoneNext, PTL DEF FairSpec

\* A set of naturals has a least element.  (The induction theorems of the library
\* cannot be instantiated; this follows from a well-founded ordering without them.)
LEMMA LeastElement ==
  ASSUME NEW S \in SUBSET Nat, S # {}
  PROVE  \E m \in S : \A k \in S : m <= k
  <1> DEFINE Below == {0..k : k \in S}
  <1> DEFINE R == StrictSubsetOrdering(Nat)
  <1>1. /\ \A k \in S : 0..k \in SUBSET Nat /\ IsFiniteSet(0..k)
        /\ Below \subseteq FiniteSubsetsOf(Nat) /\ Below # {}
    <2>1. \A k \in S : 0..k \in SUBSET Nat /\ IsFiniteSet(0..k)
      BY FS_Interval
    <2> QED
      BY <2>1 DEF FiniteSubsetsOf
  <1>2. PICK b \in Below : \A a \in Below : ~(<<a, b>> \in R)
    <2> HIDE DEF Below, R
    <2>1. IsWellFoundedOn(R, FiniteSubsetsOf(Nat))
      BY FS_StrictSubsetOrderingWellFounded DEF R
    <2> QED
      BY <1>1, <2>1, WFMin
  <1>3. PICK m \in S : b = 0..m
    OBVIOUS
  <1>4. ASSUME NEW k \in S, k < m PROVE FALSE
    <2>1. 0..k \in Below /\ 0..k \subseteq 0..m /\ m \in 0..m /\ m \notin 0..k
      BY <1>4
    <2>2. <<0..k, 0..m>> \in R
      <3>1. 0..k # 0..m /\ 0..k \in SUBSET Nat /\ 0..m \in SUBSET Nat
        BY <2>1
      <3> QED
        BY <2>1, <3>1 DEF StrictSubsetOrdering
    <2> QED
      BY <1>2, <1>3, <2>1, <2>2
  <1> QED
    BY <1>4

(***************************************************************************)
(* SessionServer: who has which descriptor.                                *)
(***************************************************************************)
SessionLabels ==
  {"none", "welcome", "read", "log", "logging", "answer", "listing", "leave",
   "leaving", "close", "over"}

Owners == Clients \cup {Nobody, Listener, Dir}

ServerShapes ==
  /\ pc \in [Clients -> SessionLabels]
  /\ open \in [Descriptors -> Owners]
  /\ sock \in [Clients -> Descriptors] /\ dir \in [Clients -> Descriptors]
  /\ queued \in Seq(Clients)
  /\ accepting \in Clients \cup {Nobody}
  /\ main \in {"log", "logging", "create"} => accepting \in Clients

\* A client is once in the backlog, or has just been accepted, or has a thread.
OnePlace ==
  /\ \A i, j \in 1..Len(queued) : queued[i] = queued[j] => i = j
  /\ \A i \in 1..Len(queued) : pc[queued[i]] = "none" /\ accepting # queued[i]
  /\ accepting \in Clients => pc[accepting] = "none"

\* c has a socket that has not been closed.
HasSocket(c) == accepting = c \/ pc[c] \notin {"none", "over"}

\* A socket is never the number of the listener, which is closed more than once.
SocketsApart == \A c \in Clients : HasSocket(c) => sock[c] # server_sock /\ open[sock[c]] = c

\* A directory has a number of its own, except that of the listener, which main or
\* the handler may have closed under one directory and given to another.
DirsApart ==
  \A c \in Clients : pc[c] = "listing" /\ dir[c] # server_sock =>
    /\ open[dir[c]] = Dir
    /\ \A d \in Clients \ {c} : pc[d] = "listing" => dir[d] # dir[c]

DescriptorInv == ServerShapes /\ OnePlace /\ SocketsApart /\ DirsApart

LEMMA LowestUnused == Unused # {} => Lowest \in Unused
  <1> SUFFICES ASSUME Unused # {} PROVE Lowest \in Unused
    OBVIOUS
  <1>1. Unused \in SUBSET Nat
    BY ServerAssumption DEF Unused, Descriptors
  <1>2. \E m \in Unused : \A k \in Unused : m <= k
    BY <1>1, LeastElement
  <1> QED
    BY <1>2 DEF Lowest, Min

LEMMA InitDescriptors == ServerInit => DescriptorInv
  <1> SUFFICES ASSUME ServerInit PROVE DescriptorInv
    OBVIOUS
  <1>1. 0 \in Descriptors /\ Nobody \notin Clients
    BY ServerAssumption DEF Descriptors
  <1>2. ServerShapes
    BY <1>1 DEF ServerInit, ServerShapes, SessionLabels, Owners, server_sock
  <1>3. OnePlace /\ SocketsApart /\ DirsApart
    BY <1>1 DEF ServerInit, OnePlace, SocketsApart, HasSocket, DirsApart
  <1> QED
    BY <1>2, <1>3 DEF DescriptorInv

\* A step that touches no descriptor, starts or ends no session, and leaves the
\* backlog alone.
LEMMA KeepsDescriptors ==
  ASSUME DescriptorInv, UNCHANGED <<accepting, open, sock, dir, queued>>,
         main' \in {"log", "logging", "create"} => main \in {"log", "logging", "create"},
         pc' \in [Clients -> SessionLabels],
         \A c \in Clients : /\ HasSocket(c)' => HasSocket(c)
                            /\ pc'[c] = "listing" => pc[c] = "listing"
                            /\ pc[c] = "none" => pc'[c] = "none"
  PROVE  DescriptorInv'
  <1>1. ServerShapes'
    BY DEF DescriptorInv, ServerShapes
  <1>2. \A i \in 1..Len(queued) : queued[i] \in Clients
    BY DEF DescriptorInv, ServerShapes
  <1>3. OnePlace'
    BY <1>2 DEF DescriptorInv, OnePlace
  <1>4. SocketsApart' /\ DirsApart'
    BY DEF DescriptorInv, SocketsApart, DirsApart
  <1> QED
    BY <1>1, <1>3, <1>4 DEF DescriptorInv

\* Closing the number of the listener takes it from a directory at most.
LEMMA ClosesListener ==
  ASSUME DescriptorInv, open' = [open EXCEPT ![server_sock] = Nobody],
         UNCHANGED <<accepting, pc, sock, dir, queued>>,
         main' \in {"log", "logging", "create"} => main' = main
  PROVE  DescriptorInv'
  <1>1. ServerShapes'
    BY DEF DescriptorInv, ServerShapes, Owners
  <1>2. OnePlace'
    BY DEF DescriptorInv, OnePlace
  <1>3. \A d \in Descriptors \ {server_sock} : open'[d] = open[d]
    BY DEF DescriptorInv, ServerShapes
  <1>4. SocketsApart'
    BY <1>3 DEF DescriptorInv, SocketsApart, HasSocket, ServerShapes
  <1>5. DirsApart'
    BY <1>3 DEF DescriptorInv, DirsApart, ServerShapes
  <1> QED
    BY <1>1, <1>2, <1>4, <1>5 DEF DescriptorInv

LEMMA ConnectKeeps ==
  ASSUME DescriptorInv, NEW c \in Clients, ClientConnects(c) PROVE DescriptorInv'
  <1>1. /\ queued' = Append(queued, c) /\ pc[c] = "none" /\ accepting # c
        /\ c \notin Backlog
        /\ UNCHANGED <<main, accepting, pc, open, sock, dir>>
    BY DEF ClientConnects, mainVars
  <1>2. \A i \in 1..Len(queued) : queued[i] # c
    BY <1>1 DEF Backlog, ToSet, DescriptorInv, ServerShapes
  <1>3. ServerShapes'
    BY <1>1 DEF DescriptorInv, ServerShapes
  <1>4. OnePlace'
    <2>1. /\ Len(queued') = Len(queued) + 1 /\ Len(queued) \in Nat
          /\ queued'[Len(queued) + 1] = c
          /\ \A i \in 1..Len(queued) : queued'[i] = queued[i]
      BY <1>1 DEF DescriptorInv, ServerShapes
    <2> QED
      BY <1>1, <1>2, <2>1 DEF DescriptorInv, OnePlace
  <1>5. SocketsApart' /\ DirsApart'
    BY <1>1 DEF DescriptorInv, SocketsApart, HasSocket, DirsApart
  <1> QED
    BY <1>3, <1>4, <1>5 DEF DescriptorInv

LEMMA AcceptKeeps ==
  ASSUME DescriptorInv, AcceptClient PROVE DescriptorInv'
  <1> DEFINE c == Head(queued)
  <1>1. /\ queued # << >> /\ Unused # {} /\ open[server_sock] = Listener
        /\ accepting' = c /\ queued' = Tail(queued)
        /\ sock' = [sock EXCEPT ![c] = Lowest] /\ open' = [open EXCEPT ![Lowest] = c]
        /\ UNCHANGED <<pc, dir>>
    BY DEF AcceptClient
  <1>2. /\ Len(queued) \in Nat /\ Len(queued) >= 1 /\ c = queued[1] /\ c \in Clients
        /\ Tail(queued) \in Seq(Clients) /\ Len(Tail(queued)) = Len(queued) - 1
        /\ \A i \in 1..Len(queued)-1 : Tail(queued)[i] = queued[i + 1]
    BY <1>1 DEF DescriptorInv, ServerShapes
  <1>3. /\ Lowest \in Descriptors /\ open[Lowest] = Nobody /\ Lowest # server_sock
        /\ Nobody \notin Clients /\ Dir \notin Clients /\ Nobody # Dir
    BY <1>1, LowestUnused, ServerAssumption DEF Unused
  <1> HIDE DEF c
  <1>4. ServerShapes'
    BY <1>1, <1>2, <1>3 DEF DescriptorInv, ServerShapes, Owners
  <1>5. pc[c] = "none"
    BY <1>2 DEF DescriptorInv, OnePlace
  <1>6. OnePlace'
    <2>1. \A i, j \in 1..Len(queued') : queued'[i] = queued'[j] => i = j
      BY <1>1, <1>2 DEF DescriptorInv, OnePlace
    <2>2. \A i \in 1..Len(queued') : pc'[queued'[i]] = "none" /\ c # queued'[i]
      BY <1>1, <1>2 DEF DescriptorInv, OnePlace
    <2> QED
      BY <1>1, <1>5, <2>1, <2>2 DEF OnePlace
  <1>7. /\ sock'[c] = Lowest /\ open'[Lowest] = c
        /\ \A d \in Clients \ {c} : sock'[d] = sock[d]
        /\ \A d \in Descriptors \ {Lowest} : open'[d] = open[d]
    BY <1>1, <1>2, <1>3 DEF DescriptorInv, ServerShapes
  <1>8. SocketsApart'
    <2> SUFFICES ASSUME NEW d \in Clients, HasSocket(d)'
                 PROVE  sock'[d] # server_sock /\ open'[sock'[d]] = d
      BY DEF SocketsApart
    <2>1. CASE d = c
      BY <1>3, <1>7, <2>1
    <2>2. CASE d # c
      <3>1. HasSocket(d)
        BY <1>1, <2>2 DEF HasSocket
      <3>2. sock[d] # server_sock /\ open[sock[d]] = d /\ sock[d] \in Descriptors
        BY <3>1 DEF DescriptorInv, SocketsApart, ServerShapes
      <3> QED
        BY <1>3, <1>7, <2>2, <3>2
    <2> QED
      BY <2>1, <2>2
  <1>9. DirsApart'
    BY <1>1, <1>3, <1>7 DEF DescriptorInv, DirsApart, ServerShapes
  <1> QED
    BY <1>4, <1>6, <1>8, <1>9 DEF DescriptorInv

LEMMA CreateKeeps ==
  ASSUME DescriptorInv, Create PROVE DescriptorInv'
  <1>1. /\ accepting \in Clients /\ pc' = [pc EXCEPT ![accepting] = "welcome"]
        /\ accepting' = Nobody /\ main' = "test" /\ UNCHANGED <<open, sock, dir, queued>>
    BY DEF Create, MainGoes, DescriptorInv, ServerShapes, peerVars
  <1>2. ServerShapes'
    BY <1>1 DEF DescriptorInv, ServerShapes, SessionLabels
  <1>3. /\ \A d \in Clients \ {accepting} : pc'[d] = pc[d]
        /\ pc'[accepting] = "welcome" /\ Nobody \notin Clients
        /\ \A i \in 1..Len(queued) : queued[i] \in Clients
    BY <1>1, ServerAssumption DEF DescriptorInv, ServerShapes
  <1>4. OnePlace'
    BY <1>1, <1>3 DEF DescriptorInv, OnePlace
  <1>5. SocketsApart' /\ DirsApart'
    BY <1>1, <1>3 DEF DescriptorInv, SocketsApart, HasSocket, DirsApart
  <1> QED
    BY <1>2, <1>4, <1>5 DEF DescriptorInv

\* The owner closes its socket, and has none then.
LEMMA ClosesSocket ==
  ASSUME DescriptorInv, NEW c \in Clients, HasSocket(c), ~HasSocket(c)',
         open' = [open EXCEPT ![sock[c]] = Nobody],
         UNCHANGED <<sock, dir, queued>>,
         accepting' = accepting \/ accepting' = Nobody,
         main' \in {"log", "logging", "create"} => main' = main /\ accepting' = accepting,
         pc' \in [Clients -> SessionLabels],
         pc[c] = "none" => pc'[c] = "none",
         pc'[c] # "listing",
         \A d \in Clients \ {c} : pc'[d] = pc[d]
  PROVE  DescriptorInv'
  <1>1. ServerShapes'
    BY DEF DescriptorInv, ServerShapes, Owners
  <1>2. Nobody \notin Clients /\ \A i \in 1..Len(queued) : queued[i] \in Clients
    BY ServerAssumption DEF DescriptorInv, ServerShapes
  <1>3. OnePlace'
    BY <1>2 DEF DescriptorInv, OnePlace
  <1>4. /\ sock[c] \in Descriptors /\ open[sock[c]] = c /\ sock[c] # server_sock
        /\ Dir # c
        /\ \A d \in Descriptors \ {sock[c]} : open'[d] = open[d]
    BY ServerAssumption DEF DescriptorInv, SocketsApart, ServerShapes
  <1>5. SocketsApart'
    <2> SUFFICES ASSUME NEW d \in Clients, HasSocket(d)'
                 PROVE  sock[d] # server_sock /\ open'[sock[d]] = d
      BY DEF SocketsApart
    <2>1. d # c /\ HasSocket(d)
      BY <1>2 DEF HasSocket
    <2>2. sock[d] \in Descriptors /\ open[sock[d]] = d /\ sock[d] # server_sock
      BY <2>1 DEF DescriptorInv, SocketsApart, ServerShapes
    <2> QED
      BY <1>4, <2>1, <2>2
  <1>6. DirsApart'
    BY <1>4 DEF DescriptorInv, DirsApart, ServerShapes
  <1> QED
    BY <1>1, <1>3, <1>5, <1>6 DEF DescriptorInv

LEMMA OpenDirKeeps ==
  ASSUME DescriptorInv, NEW c \in Clients, OpenDir(c) PROVE DescriptorInv'
  <1>1. /\ pc[c] = "answer" /\ pc' = [pc EXCEPT ![c] = "listing"]
        /\ dir' = [dir EXCEPT ![c] = Lowest] /\ open' = [open EXCEPT ![Lowest] = Dir]
        /\ Lowest \in Descriptors /\ open[Lowest] = Nobody
        /\ Nobody \notin Clients /\ Dir \notin Clients /\ Nobody # Dir
        /\ UNCHANGED <<main, accepting, sock, queued>>
    BY LowestUnused, ServerAssumption DEF OpenDir, Goes, Unused, mainVars, peerVars
  <1>2. ServerShapes'
    BY <1>1 DEF DescriptorInv, ServerShapes, SessionLabels, Owners
  <1>3. /\ pc'[c] = "listing" /\ dir'[c] = Lowest /\ open'[Lowest] = Dir
        /\ \A d \in Clients \ {c} : pc'[d] = pc[d] /\ dir'[d] = dir[d]
        /\ \A d \in Descriptors \ {Lowest} : open'[d] = open[d]
        /\ \A i \in 1..Len(queued) : queued[i] \in Clients
    BY <1>1 DEF DescriptorInv, ServerShapes
  <1>4. OnePlace'
    BY <1>1, <1>3 DEF DescriptorInv, OnePlace
  <1>5. SocketsApart'
    <2> SUFFICES ASSUME NEW d \in Clients, HasSocket(d)'
                 PROVE  sock[d] # server_sock /\ open'[sock[d]] = d
      BY <1>1 DEF SocketsApart
    <2>1. HasSocket(d)
      BY <1>1, <1>3 DEF HasSocket
    <2>2. sock[d] \in Descriptors /\ open[sock[d]] = d /\ sock[d] # server_sock
      BY <2>1 DEF DescriptorInv, SocketsApart, ServerShapes
    <2> QED
      BY <1>1, <1>3, <2>2
  <1>6. DirsApart'
    <2> SUFFICES ASSUME NEW d \in Clients, pc'[d] = "listing", dir'[d] # server_sock
                 PROVE  /\ open'[dir'[d]] = Dir
                        /\ \A e \in Clients \ {d} : pc'[e] = "listing" => dir'[e] # dir'[d]
      BY DEF DirsApart
    <2>1. \A e \in Clients \ {c} : pc[e] = "listing" /\ dir[e] # server_sock =>
            /\ dir[e] \in Descriptors /\ open[dir[e]] = Dir /\ dir[e] # Lowest
            /\ \A f \in Clients \ {e} : pc[f] = "listing" => dir[f] # dir[e]
      BY <1>1 DEF DescriptorInv, DirsApart, ServerShapes
    <2>2. CASE d = c
      BY <1>3, <2>1, <2>2
    <2>3. CASE d # c
      BY <1>3, <2>1, <2>3
    <2> QED
      BY <2>2, <2>3
  <1> QED
    BY <1>2, <1>4, <1>5, <1>6 DEF DescriptorInv

LEMMA CloseDirKeeps ==
  ASSUME DescriptorInv, NEW c \in Clients, CloseDir(c) PROVE DescriptorInv'
  <1>1. /\ pc[c] = "listing" /\ pc' = [pc EXCEPT ![c] = "read"]
        /\ open' = [open EXCEPT ![dir[c]] = Nobody]
        /\ UNCHANGED <<main, accepting, sock, dir, queued>>
        /\ Dir \notin Clients
    BY ServerAssumption DEF CloseDir, Goes, mainVars, peerVars
  <1>2. ServerShapes'
    BY <1>1 DEF DescriptorInv, ServerShapes, SessionLabels, Owners
  <1>3. /\ pc'[c] = "read" /\ \A d \in Clients \ {c} : pc'[d] = pc[d]
        /\ \A d \in Descriptors \ {dir[c]} : open'[d] = open[d]
        /\ \A i \in 1..Len(queued) : queued[i] \in Clients
        /\ dir[c] = server_sock \/ open[dir[c]] = Dir
    BY <1>1 DEF DescriptorInv, ServerShapes, DirsApart
  <1>4. OnePlace'
    BY <1>1, <1>3 DEF DescriptorInv, OnePlace
  <1>5. SocketsApart'
    <2> SUFFICES ASSUME NEW d \in Clients, HasSocket(d)'
                 PROVE  sock[d] # server_sock /\ open'[sock[d]] = d
      BY <1>1 DEF SocketsApart
    <2>1. HasSocket(d)
      BY <1>1, <1>3 DEF HasSocket
    <2>2. sock[d] \in Descriptors /\ open[sock[d]] = d /\ sock[d] # server_sock
      BY <2>1 DEF DescriptorInv, SocketsApart, ServerShapes
    <2> QED
      BY <1>1, <1>3, <2>2
  <1>6. DirsApart'
    BY <1>1, <1>3 DEF DescriptorInv, DirsApart, ServerShapes
  <1> QED
    BY <1>2, <1>4, <1>5, <1>6 DEF DescriptorInv

LEMMA NextDescriptors == DescriptorInv /\ [ServerNext]_processVars => DescriptorInv'
  <1> SUFFICES ASSUME DescriptorInv, [ServerNext]_processVars PROVE DescriptorInv'
    OBVIOUS
  <1> USE DEF mainVars, peerVars
  <1>1. CASE TestRunning \/ AcceptFails \/ MainLocks \/ MainUnlocks \/ MainReturns
    <2>1. /\ UNCHANGED <<accepting, pc, open, sock, dir, queued>>
          /\ main' \in {"log", "logging", "create"} => main \in {"log", "logging", "create"}
      BY <1>1 DEF TestRunning, AcceptFails, MainLocks, MainUnlocks, MainReturns, MainGoes
    <2> QED
      BY <2>1, KeepsDescriptors DEF HasSocket, DescriptorInv, ServerShapes
  <1>2. CASE CreateFails
    <2>1. /\ accepting \in Clients /\ accepting' = Nobody /\ main' = "test"
          /\ open' = [open EXCEPT ![sock[accepting]] = Nobody]
          /\ UNCHANGED <<pc, sock, dir, queued>>
          /\ pc[accepting] = "none" /\ Nobody \notin Clients
      BY <1>2, ServerAssumption
         DEF CreateFails, MainGoes, DescriptorInv, ServerShapes, OnePlace
    <2>2. HasSocket(accepting) /\ ~(Nobody = accepting \/ pc'[accepting] \notin {"none", "over"})
      BY <2>1 DEF HasSocket
    <2> QED
      BY <2>1, <2>2, ClosesSocket DEF HasSocket, DescriptorInv, ServerShapes
  <1>3. CASE CloseListener \/ signal_handler
    <2>1. /\ open' = [open EXCEPT ![server_sock] = Nobody]
          /\ UNCHANGED <<accepting, pc, sock, dir, queued>>
          /\ main' = main \/ main' = "returned"
      BY <1>3 DEF CloseListener, signal_handler, MainGoes
    <2> QED
      BY <2>1, ClosesListener
  <1>4. ASSUME NEW c \in Clients,
               Welcome(c) \/ Command(c) \/ Lock(c) \/ Unlock(c) \/ Answer(c) \/ SigPipe(c)
                 \/ ClientLeaves(c)
        PROVE  DescriptorInv'
    <2>1. /\ UNCHANGED <<main, accepting, open, sock, dir, queued>>
          /\ \/ pc' = pc
             \/ /\ pc[c] \notin {"none", "over", "listing"}
                /\ \E label \in SessionLabels \ {"none", "over", "listing"} :
                     pc' = [pc EXCEPT ![c] = label]
      BY <1>4 DEF Welcome, Command, Lock, Unlock, Answer, SigPipe, ClientLeaves, Goes,
                  SessionLabels
    <2>2. /\ pc' \in [Clients -> SessionLabels]
          /\ \A d \in Clients :
               \/ pc'[d] = pc[d]
               \/ pc[d] \notin {"none", "over"} /\ pc'[d] \notin {"none", "over", "listing"}
      BY <2>1 DEF DescriptorInv, ServerShapes
    <2> QED
      BY <2>1, <2>2, KeepsDescriptors DEF HasSocket
  <1>5. ASSUME NEW c \in Clients, CloseSession(c) PROVE DescriptorInv'
    <2>1. /\ pc[c] = "close" /\ pc' = [pc EXCEPT ![c] = "over"]
          /\ open' = [open EXCEPT ![sock[c]] = Nobody]
          /\ UNCHANGED <<main, accepting, sock, dir, queued>>
      BY <1>5 DEF CloseSession, Goes
    <2>2. /\ accepting # c /\ pc'[c] = "over" /\ \A d \in Clients \ {c} : pc'[d] = pc[d]
          /\ pc' \in [Clients -> SessionLabels]
      BY <2>1 DEF DescriptorInv, OnePlace, ServerShapes, SessionLabels
    <2> QED
      BY <2>1, <2>2, ClosesSocket DEF HasSocket
  <1>6. CASE UNCHANGED processVars
    BY <1>6, KeepsDescriptors DEF processVars, HasSocket, DescriptorInv, ServerShapes
  <1> QED
    BY <1>1, <1>2, <1>3, <1>4, <1>5, <1>6, AcceptKeeps, CreateKeeps, ConnectKeeps,
       OpenDirKeeps, CloseDirKeeps DEF ServerNext, MainStep, SessionStep

\* Every socket, directory and listener has its number to itself as far as it needs,
\* for any number of clients and descriptors (Lab8/server.c:18 to 29 and 209 to 245).
THEOREM DescriptorsHold == ServerSpec => []DescriptorInv
  BY InitDescriptors, NextDescriptors, PTL DEF ServerSpec

\* The socket of a client that is being accepted or served is closed by nobody else,
\* although SIGINT and the end of main close the listener's number a second time
\* when a directory may have it already (Lab8/server.c:27 and 241).
THEOREM SocketsHold == ServerSpec => []SocketsOwned
  <1>1. DescriptorInv => SocketsOwned
    BY DEF DescriptorInv, SocketsApart, HasSocket, SocketsOwned
  <1> QED
    BY <1>1, DescriptorsHold, PTL
================================================================================
