------------------------------- MODULE Server --------------------------------
(***************************************************************************)
(* The life cycle of the coordinator's server (coordinator.cpp: bind,      *)
(* shutdown, the destructor, the accept thread and the connection threads) *)
(* and of a program around it: nf-coordinator, which sleeps until          *)
(* running() is false, or one that embeds the coordinator and calls        *)
(* shutdown when it likes (apps/proof).                                    *)
(*                                                                         *)
(* What a frame does besides Shutdown's is module Coordinator's, and when  *)
(* a frame is malformed FrameStream's; here any connection may send one.   *)
(* Controller connections have no thread and are Coordinator's too.        *)
(***************************************************************************)
CONSTANTS
  Client, \* connections peers may make, each once
  NoConn  \* accept has returned none

ASSUME ServerConstants == NoConn \notin Client

VARIABLES
  running,   \* running_
  listening, \* is the listening socket open?
  acceptor,  \* the next step of accept_thread_
  taken,     \* the connection accept returned, while it has no thread
  peer,      \* of each connection: what its peer sees
  handler,   \* the next step of its thread
  conns,     \* the keys of conns_
  root,      \* the next step of the program's main thread
  frameSeen  \* has a Shutdown frame been handled? (history)

acceptVars == <<acceptor, taken>>
serverVars == <<running, listening, acceptVars, peer, handler, conns, root, frameSeen>>

(* The process runs until main returns or std::terminate ends it: because  *)
(* a joinable std::thread is destroyed (aborted) or because an exception   *)
(* leaves a connection's thread (thrown).                                  *)
Ended == root \in {"exited", "aborted", "thrown"}

ServerInit ==
  /\ running = FALSE
  /\ listening = FALSE
  /\ acceptor = "none"
  /\ taken = NoConn
  /\ peer = [c \in Client |-> "none"]
  /\ handler = [c \in Client |-> "none"]
  /\ conns = {}
  /\ root = "bind"
  /\ frameSeen = FALSE

-----------------------------------------------------------------------------
(* bind: the socket listens, running_ is set, the accept thread starts. *)
Bind ==
  /\ root = "bind"
  /\ listening' = TRUE
  /\ running' = TRUE
  /\ acceptor' = "test"
  /\ root' = "serving"
  /\ UNCHANGED <<taken, peer, handler, conns, frameSeen>>

(* The accept thread: while (running_) accept ... *)
TestRunning ==
  /\ ~Ended /\ acceptor = "test"
  /\ acceptor' = IF running THEN "accept" ELSE "ended"
  /\ UNCHANGED <<running, listening, taken, peer, handler, conns, root, frameSeen>>

AcceptReturns(c) ==
  /\ ~Ended /\ acceptor = "accept" /\ listening
  /\ peer[c] = "pending"
  /\ peer' = [peer EXCEPT ![c] = "up"]
  /\ acceptor' = "spawn"
  /\ taken' = c
  /\ UNCHANGED <<running, listening, handler, conns, root, frameSeen>>

(* ... which fails once the socket is closed. *)
AcceptFails ==
  /\ ~Ended /\ acceptor = "accept" /\ ~listening
  /\ acceptor' = IF running THEN "test" ELSE "ended"
  /\ UNCHANGED <<running, listening, taken, peer, handler, conns, root, frameSeen>>

(* The connection gets its ConnState{} and its handler, whatever running_   *)
(* has become since.                                                       *)
Spawn ==
  /\ ~Ended /\ acceptor = "spawn"
  /\ conns' = conns \cup {taken}
  /\ handler' = [handler EXCEPT ![taken] = "recv"]
  /\ taken' = NoConn
  /\ acceptor' = "test"
  /\ UNCHANGED <<running, listening, peer, root, frameSeen>>

-----------------------------------------------------------------------------
(* A connection's thread does not look at running_: it leaves its loop     *)
(* when the peer is gone, or by an exception.  Of the well-formed frames   *)
(* only Shutdown changes anything here.                                    *)
HandleShutdown(c) ==
  /\ ~Ended /\ handler[c] = "recv"
  /\ peer[c] = "up"
  /\ running' = FALSE
  /\ frameSeen' = TRUE
  /\ UNCHANGED <<listening, acceptVars, peer, handler, conns, root>>

(* The decoder throws ProtocolError; nothing in the thread catches it. *)
DecodeThrows(c) ==
  /\ ~Ended /\ handler[c] = "recv"
  /\ peer[c] = "up"
  /\ root' = "thrown"
  /\ UNCHANGED <<running, listening, acceptVars, peer, handler, conns, frameSeen>>

Lose(c) ==
  /\ ~Ended /\ handler[c] = "recv"
  /\ peer[c] = "down"
  /\ handler' = [handler EXCEPT ![c] = "erase"]
  /\ UNCHANGED <<running, listening, acceptVars, peer, conns, root, frameSeen>>

Erase(c) ==
  /\ ~Ended /\ handler[c] = "erase"
  /\ conns' = conns \ {c}
  /\ handler' = [handler EXCEPT ![c] = "ended"]
  /\ UNCHANGED <<running, listening, acceptVars, peer, root, frameSeen>>

(* Peers: connections queue up at the listening socket from the moment it  *)
(* is open; closing it resets those not accepted yet.                      *)
Arrive(c) ==
  /\ ~Ended /\ listening
  /\ peer[c] = "none"
  /\ peer' = [peer EXCEPT ![c] = "pending"]
  /\ UNCHANGED <<running, listening, acceptVars, handler, conns, root, frameSeen>>

Leave(c) ==
  /\ ~Ended
  /\ peer[c] = "up"
  /\ peer' = [peer EXCEPT ![c] = "down"]
  /\ UNCHANGED <<running, listening, acceptVars, handler, conns, root, frameSeen>>

-----------------------------------------------------------------------------
(* nf-coordinator's loop ends; or the embedding program has served enough. *)
StopServing ==
  /\ root = "serving"
  /\ root' = "shutdown"
  /\ UNCHANGED <<running, listening, acceptVars, peer, handler, conns, frameSeen>>

(* Faulty variant: a server found running is taken for one already down. *)
ExchangeInverted ==
  /\ root = "shutdown"
  /\ running' = FALSE
  /\ root' = IF running THEN "skipped" ELSE "close"
  /\ UNCHANGED <<listening, acceptVars, peer, handler, conns, frameSeen>>

(* shutdown: if (!running_.exchange(false)) return; *)
Exchange ==
  /\ root = "shutdown"
  /\ running' = FALSE
  /\ root' = IF running THEN "close" ELSE "skipped"
  /\ UNCHANGED <<listening, acceptVars, peer, handler, conns, frameSeen>>

(* Faulty variant: the listening socket is left open. *)
CloseListenerForgotten ==
  /\ root = "close"
  /\ root' = "join_accept"
  /\ UNCHANGED <<running, listening, acceptVars, peer, handler, conns, frameSeen>>

CloseListener ==
  /\ root = "close"
  /\ listening' = FALSE
  /\ peer' = [c \in Client |-> IF peer[c] = "pending" THEN "down" ELSE peer[c]]
  /\ root' = "join_accept"
  /\ UNCHANGED <<running, acceptVars, handler, conns, frameSeen>>

(* Faulty variant: the accept thread is not waited for. *)
JoinAcceptorLater ==
  /\ root = "join_accept"
  /\ root' = "join_conns"
  /\ UNCHANGED <<running, listening, acceptVars, peer, handler, conns, frameSeen>>

JoinAcceptor ==
  /\ root = "join_accept" /\ acceptor = "ended"
  /\ acceptor' = "joined"
  /\ root' = "join_conns"
  /\ UNCHANGED <<running, listening, taken, peer, handler, conns, frameSeen>>

(* The loop over conn_threads_: every connection thread there is. *)
JoinConnections ==
  /\ root = "join_conns"
  /\ \A c \in Client : handler[c] \in {"none", "ended"}
  /\ handler' = [c \in Client |-> IF handler[c] = "ended" THEN "joined" ELSE "none"]
  /\ root' = "stopped"
  /\ UNCHANGED <<running, listening, acceptVars, peer, conns, frameSeen>>

(* ~Coordinator: shutdown returns at once; then the members, and with a    *)
(* std::thread that is still joinable std::terminate.                      *)
Joinable ==
  \/ acceptor \notin {"none", "joined"}
  \/ \E c \in Client : handler[c] \notin {"none", "joined"}

Destroy ==
  /\ root \in {"stopped", "skipped"}
  /\ root' = IF Joinable THEN "aborted" ELSE "exited"
  /\ UNCHANGED <<running, listening, acceptVars, peer, handler, conns, frameSeen>>

-----------------------------------------------------------------------------
AcceptStep == TestRunning \/ AcceptFails \/ Spawn \/ \E c \in Client : AcceptReturns(c)

RootStep ==
  Bind \/ StopServing \/ Exchange \/ CloseListener \/ JoinAcceptor
  \/ JoinConnections \/ Destroy

ServerNext ==
  \/ RootStep \/ AcceptStep
  \/ \E c \in Client : \/ HandleShutdown(c) \/ DecodeThrows(c) \/ Lose(c) \/ Erase(c)
                       \/ Arrive(c) \/ Leave(c)

ServerSpec == ServerInit /\ [][ServerNext]_serverVars

(* The threads run; main runs once shutdown is called; and every peer      *)
(* leaves in the end, which the code relies on: no receive has a timeout,  *)
(* and apps/proof kills its workers "so their connection threads unblock". *)
FairServerSpec ==
  /\ ServerSpec
  /\ WF_serverVars(AcceptStep)
  /\ WF_serverVars(Exchange \/ CloseListener \/ JoinAcceptor \/ JoinConnections \/ Destroy)
  /\ \A c \in Client : WF_serverVars(Lose(c) \/ Erase(c)) /\ WF_serverVars(Leave(c))

-----------------------------------------------------------------------------
(* The variables hold what their C++ types allow; a thread exists exactly  *)
(* for the connections accept has returned, and a table entry exactly for  *)
(* the threads that have not erased theirs.                                *)
ServerTypeOK ==
  /\ running \in BOOLEAN /\ listening \in BOOLEAN /\ frameSeen \in BOOLEAN
  /\ acceptor \in {"none", "test", "accept", "spawn", "ended", "joined"}
  /\ taken \in Client \cup {NoConn}
  /\ peer \in [Client -> {"none", "pending", "up", "down"}]
  /\ handler \in [Client -> {"none", "recv", "erase", "ended", "joined"}]
  /\ root \in {"bind", "serving", "shutdown", "close", "join_accept", "join_conns",
               "stopped", "skipped", "exited", "aborted", "thrown"}
  /\ conns = {c \in Client : handler[c] \in {"recv", "erase"}}

(* Once shutdown has stopped the server, nothing of it is left and nothing *)
(* comes back: no thread runs or will be started, no connection is open or *)
(* half accepted, and conns_ is empty.  A connection accepted while        *)
(* running_ was being cleared is the case to worry about.                  *)
StoppedForGood ==
  root \in {"stopped", "exited"} =>
    /\ acceptor = "joined" /\ taken = NoConn
    /\ \A c \in Client : handler[c] \in {"none", "joined"} /\ peer[c] \in {"none", "down"}
    /\ conns = {}

(* The coordinator is destroyed with a joinable thread only if a Shutdown  *)
(* frame was handled, which clears running_ and so turns shutdown into an  *)
(* early return: a program that stops the server itself has every thread   *)
(* joined first.  (A malformed frame ends the process before any of this.) *)
AbortNeedsFrame == root = "aborted" => frameSeen

(* shutdown, once it has begun to close, always ends, as long as the peers *)
(* leave; unless one of them still sends a malformed frame, in which case  *)
(* the process ends first.                                                 *)
ShutdownEnds == root = "close" ~> root \in {"exited", "thrown"}
=============================================================================
