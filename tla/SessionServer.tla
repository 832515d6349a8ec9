---------------------------- MODULE SessionServer ----------------------------
(***************************************************************************)
(* Lab8/server.c with several clients: the main thread accepts them and    *)
(* gives each a thread; SIGINT ends the server by closing the listening    *)
(* socket under accept.  What client and server say to each other is in    *)
(* CommandSession; here a session only takes and gives back what it shares *)
(* with the others: log_mutex and the descriptors of the process.          *)
(*                                                                         *)
(* A descriptor is a number.  accept and opendir get the lowest one that   *)
(* is free, and whoever closes a number closes whatever has it by then.    *)
(***************************************************************************)
EXTENDS Integers, SequencesExt

CONSTANTS
  Clients,
  Nobody,    \* who has a free descriptor, or log_mutex when it is free
  MAX_FD     \* the highest descriptor the process may open

\* What else may have a descriptor, or log_mutex; the number of the listener.
Listener == "listener"
Dir      == "dir"
Main     == "main"
server_sock == 0

ASSUME ServerAssumption ==
  /\ Clients \cap {Nobody, Listener, Dir, Main} = {}
  /\ Nobody \notin {Listener, Dir, Main}
  /\ MAX_FD \in Nat

VARIABLES
  process,   \* up, exited: main has returned, killed
  running,
  main,      \* test, accept, log, logging, create, bye, sayingBye, close, returned
  accepting, \* the client main has accepted and not yet given a thread
  pc,        \* where the thread of each client is; none: there is none, over
  open,      \* who has each descriptor
  sock, dir, \* the descriptors a thread takes for its socket and its directory
  log_mutex,
  queued,    \* clients in the backlog of the listener, oldest first
  left       \* clients that have closed their end

mainVars   == <<process, running, main, accepting>>
peerVars == <<queued, left>>
processVars == <<mainVars, pc, open, sock, dir, log_mutex, peerVars>>

Descriptors == 0..MAX_FD
Unused == {d \in Descriptors : open[d] = Nobody}
Lowest == Min(Unused)
Backlog == ToSet(queued)

ServerInit ==
  /\ process = "up" /\ running = TRUE /\ main = "test" /\ accepting = Nobody
  /\ pc = [c \in Clients |-> "none"]
  /\ open = [d \in Descriptors |-> IF d = server_sock THEN Listener ELSE Nobody]
  /\ sock = [c \in Clients |-> server_sock] /\ dir = [c \in Clients |-> server_sock]
  /\ log_mutex = Nobody
  /\ queued = << >> /\ left = {}

(***************************************************************************)
(* The clients.                                                            *)
(***************************************************************************)
ClientConnects(c) ==
  /\ c \notin Backlog /\ pc[c] = "none" /\ accepting # c /\ c \notin left
  /\ open[server_sock] = Listener
  /\ queued' = Append(queued, c)
  /\ UNCHANGED <<mainVars, pc, open, sock, dir, log_mutex, left>>

ClientLeaves(c) ==
  /\ c \notin left /\ (c \in Backlog \/ accepting = c \/ pc[c] # "none")
  /\ left' = left \cup {c}
  /\ UNCHANGED <<mainVars, pc, open, sock, dir, log_mutex, queued>>

(***************************************************************************)
(* The main thread.                                                        *)
(***************************************************************************)
MainGoes(from, to) == main = from /\ main' = to

TestRunning ==
  /\ MainGoes("test", IF running THEN "accept" ELSE "bye")
  /\ UNCHANGED <<process, running, accepting, pc, open, sock, dir, log_mutex, peerVars>>

AcceptClient ==
  /\ MainGoes("accept", "log")
  /\ open[server_sock] = Listener /\ queued # << >> /\ Unused # {}
  /\ accepting' = Head(queued) /\ queued' = Tail(queued)
  /\ sock' = [sock EXCEPT ![Head(queued)] = Lowest]
  /\ open' = [open EXCEPT ![Lowest] = Head(queued)]
  /\ UNCHANGED <<process, running, pc, dir, log_mutex, left>>

\* No descriptor is free, or the listener is closed, perhaps while accept waits
\* (the handler is installed to restart it).
AcceptFails ==
  /\ Unused = {} \/ open[server_sock] # Listener
  /\ MainGoes("accept", IF running THEN "test" ELSE "bye")
  /\ UNCHANGED <<process, running, accepting, pc, open, sock, dir, log_mutex, peerVars>>

\* log_message: "New client connected", and "Server shutting down".
MainLocks ==
  /\ MainGoes("log", "logging") \/ MainGoes("bye", "sayingBye")
  /\ log_mutex = Nobody /\ log_mutex' = Main
  /\ UNCHANGED <<process, running, accepting, pc, open, sock, dir, peerVars>>

MainUnlocks ==
  /\ MainGoes("logging", "create") \/ MainGoes("sayingBye", "close")
  /\ log_mutex' = Nobody
  /\ UNCHANGED <<process, running, accepting, pc, open, sock, dir, peerVars>>

Create ==
  /\ MainGoes("create", "test")
  /\ pc' = [pc EXCEPT ![accepting] = "welcome"]
  /\ accepting' = Nobody
  /\ UNCHANGED <<process, running, open, sock, dir, log_mutex, peerVars>>

\* Mutant of CreateFails: the client's socket stays open.
CreateFailsOpen ==
  /\ MainGoes("create", "test")
  /\ accepting' = Nobody
  /\ process' \in {"up", "killed"}
  /\ UNCHANGED <<running, pc, open, sock, dir, log_mutex, peerVars>>

\* pthread_detach follows also when pthread_create has failed; the thread it is
\* given is then not set, and the process may crash of it.
CreateFails ==
  /\ MainGoes("create", "test")
  /\ open' = [open EXCEPT ![sock[accepting]] = Nobody]
  /\ accepting' = Nobody
  /\ process' \in {"up", "killed"}
  /\ UNCHANGED <<running, pc, sock, dir, log_mutex, peerVars>>

CloseListener ==
  /\ MainGoes("close", "returned")
  /\ open' = [open EXCEPT ![server_sock] = Nobody]
  /\ UNCHANGED <<process, running, accepting, pc, sock, dir, log_mutex, peerVars>>

\* main returns, and every session with it.
MainReturns ==
  /\ main = "returned" /\ process' = "exited"
  /\ UNCHANGED <<running, main, accepting, pc, open, sock, dir, log_mutex, peerVars>>

\* Mutant of signal_handler: the handler leaves the listening socket alone.
FlagOnly ==
  /\ running' = FALSE
  /\ UNCHANGED <<process, main, accepting, pc, open, sock, dir, log_mutex, peerVars>>

\* signal_handler, which interrupts the main thread anywhere, any number of times.
signal_handler ==
  /\ running' = FALSE
  /\ open' = [open EXCEPT ![server_sock] = Nobody]
  /\ UNCHANGED <<process, main, accepting, pc, sock, dir, log_mutex, peerVars>>

(***************************************************************************)
(* handle_client.                                                          *)
(***************************************************************************)
Goes(c, from, to) == pc[c] = from /\ pc' = [pc EXCEPT ![c] = to]

Welcome(c) ==
  /\ Goes(c, "welcome", "read")
  /\ UNCHANGED <<mainVars, open, sock, dir, log_mutex, peerVars>>

\* A command, or the end of the stream.
Command(c) ==
  /\ \/ c \notin left /\ Goes(c, "read", "log")
     \/ c \in left /\ Goes(c, "read", "leave")
  /\ UNCHANGED <<mainVars, open, sock, dir, log_mutex, peerVars>>

\* log_message: "Received command", and "Client disconnected".
Lock(c) ==
  /\ Goes(c, "log", "logging") \/ Goes(c, "leave", "leaving")
  /\ log_mutex = Nobody /\ log_mutex' = c
  /\ UNCHANGED <<mainVars, open, sock, dir, peerVars>>

Unlock(c) ==
  /\ Goes(c, "logging", "answer") \/ Goes(c, "leaving", "close")
  /\ log_mutex' = Nobody
  /\ UNCHANGED <<mainVars, open, sock, dir, peerVars>>

\* Every command but LIST; QUIT ends the session.
Answer(c) ==
  /\ Goes(c, "answer", "read") \/ Goes(c, "answer", "leave")
  /\ UNCHANGED <<mainVars, open, sock, dir, log_mutex, peerVars>>

\* LIST.  Without a free descriptor it is answered by an error, like any other.
OpenDir(c) ==
  /\ Goes(c, "answer", "listing")
  /\ Unused # {}
  /\ dir' = [dir EXCEPT ![c] = Lowest] /\ open' = [open EXCEPT ![Lowest] = Dir]
  /\ UNCHANGED <<mainVars, sock, log_mutex, peerVars>>

CloseDir(c) ==
  /\ Goes(c, "listing", "read")
  /\ open' = [open EXCEPT ![dir[c]] = Nobody]
  /\ UNCHANGED <<mainVars, sock, dir, log_mutex, peerVars>>

\* Mutant of CloseSession: the socket is closed where QUIT is handled too.
CloseSessionTwice(c) ==
  /\ Goes(c, "close", "close") \/ Goes(c, "close", "over")
  /\ open' = [open EXCEPT ![sock[c]] = Nobody]
  /\ UNCHANGED <<mainVars, sock, dir, log_mutex, peerVars>>

CloseSession(c) ==
  /\ Goes(c, "close", "over")
  /\ open' = [open EXCEPT ![sock[c]] = Nobody]
  /\ UNCHANGED <<mainVars, sock, dir, log_mutex, peerVars>>

\* A write to a client that has left may raise SIGPIPE.
SigPipe(c) ==
  /\ c \in left /\ pc[c] \in {"welcome", "answer", "listing"}
  /\ process' = "killed"
  /\ UNCHANGED <<running, main, accepting, pc, open, sock, dir, log_mutex, peerVars>>

MainStep ==
  /\ process = "up"
  /\ \/ TestRunning \/ AcceptClient \/ AcceptFails
     \/ MainLocks \/ MainUnlocks \/ Create \/ CreateFails \/ CloseListener \/ MainReturns

SessionStep(c) ==
  /\ process = "up"
  /\ \/ Welcome(c) \/ Command(c) \/ Lock(c) \/ Unlock(c) \/ Answer(c)
     \/ OpenDir(c) \/ CloseDir(c) \/ CloseSession(c) \/ SigPipe(c)

ServerNext ==
  \/ MainStep
  \/ \E c \in Clients : SessionStep(c)
  \/ process = "up" /\ (signal_handler \/ \E c \in Clients : ClientConnects(c) \/ ClientLeaves(c))

(***************************************************************************)
(* The main thread runs; it gets log_mutex in the end, because a session   *)
(* that gives it back reads from its client before it asks again.  A       *)
(* thread that has the mutex prints one line and gives it back.  Nothing   *)
(* else is required of a session, whose client may read its answers, or    *)
(* say something, when it likes.                                           *)
(***************************************************************************)
ServerSpec ==
  /\ ServerInit /\ [][ServerNext]_processVars
  /\ SF_processVars(MainStep)
  /\ \A c \in Clients : WF_processVars(process = "up" /\ Unlock(c))

-------------------------------------------------------------------------------
\* The socket of a session is closed by nobody but itself.  The handler and the
\* end of main close the number of the listener once more when a directory may
\* have it already (lines 27 and 241): it is never a socket's, for nobody is
\* accepted once that number is free.
SocketsOwned ==
  \A c \in Clients : accepting = c \/ pc[c] \notin {"none", "over"} => open[sock[c]] = c

\* A client that connects gets a thread, or sees its connection closed, unless
\* the server is ending or out of descriptors (lines 218 to 237).
Served ==
  \A c \in Clients :
    c \in Backlog
      ~> \/ pc[c] # "none"
         \/ c \notin Backlog /\ \A d \in Descriptors : open[d] # c
         \/ ~running \/ process # "up" \/ Unused = {}

\* SIGINT ends the server wherever it finds the main thread, although accept is
\* restarted after a signal and the flag may be set just after it was tested.
ShutdownEnds == ~running ~> process # "up"
==============================================================================
