---------------------------- MODULE CommandServer ----------------------------
(***************************************************************************)
(* The command server: one thread that accepts a client, answers its       *)
(* request and accepts the next, and stop(), which the supervisor calls.   *)
(*                                                                         *)
(* g_listen is what the two threads share; the socket itself is listening  *)
(* or closed whatever g_listen says. A client is the request it will send  *)
(* if it sends any; the poke of stop() is "silent", it never does.         *)
(***************************************************************************)
EXTENDS Integers, Sequences

CONSTANTS
  MaxClients        \* bound: clients that ever connect

ASSUME ServerAssumption == MaxClients \in Nat

VARIABLES
  g_running, g_unload,
  g_listen,         \* the listening socket is known
  socket,           \* "none", "listening", "closed"
  backlog, clients,
  spc, request,     \* the server's thread
  joinable,
  stopping          \* how far stop() is

serverVars == <<g_running, g_unload, g_listen, socket, backlog, clients, spc, request, joinable, stopping>>

Requests == {"call", "unload", "silent"}
ServerSteps == {"none", "open", "known", "test", "accept", "receive", "handle", "close", "closed", "failing", "ended"}
InHandler == spc \in {"receive", "handle"}

ServerTypeOK ==
  /\ {g_running, g_unload, g_listen, joinable} \subseteq BOOLEAN
  /\ socket \in {"none", "listening", "closed"}
  /\ backlog \in Seq(Requests)
  /\ clients \in 0..MaxClients
  /\ spc \in ServerSteps /\ request \in Requests
  /\ stopping \in {"no", "look", "poke", "forget", "closing", "join", "stopped"}

ServerInit ==
  /\ g_running = FALSE /\ g_unload = FALSE /\ g_listen = FALSE /\ socket = "none"
  /\ backlog = <<>> /\ clients = 0
  /\ spc = "none" /\ request = "silent" /\ joinable = FALSE
  /\ stopping = "no"

-----------------------------------------------------------------------------
(* start: TRUE as soon as there is a thread *)

start ==
  /\ spc = "none" /\ ~g_running
  /\ g_running' = TRUE /\ spc' = "open" /\ joinable' = TRUE
  /\ UNCHANGED <<g_unload, g_listen, socket, backlog, clients, request, stopping>>

\* No thread: g_running goes back, and start says so.
StartFails == spc = "none" /\ UNCHANGED serverVars

-----------------------------------------------------------------------------
(* The server's thread *)

SStep(from, to) == spc = from /\ spc' = to

Listen ==
  /\ SStep("open", "known")
  /\ socket' = "listening"
  /\ UNCHANGED <<g_running, g_unload, g_listen, backlog, clients, request, joinable, stopping>>

\* Winsock, the socket, the port or the backlog is refused; then the thread returns.
ListenFails ==
  /\ SStep("open", "failing")
  /\ g_running' = FALSE
  /\ UNCHANGED <<g_unload, g_listen, socket, backlog, clients, request, joinable, stopping>>

Known ==
  /\ SStep("known", "test")
  /\ g_listen' = TRUE
  /\ UNCHANGED <<g_running, g_unload, socket, backlog, clients, request, joinable, stopping>>

TestRunning ==
  /\ SStep("test", IF g_running THEN "accept" ELSE "close")
  /\ UNCHANGED <<g_running, g_unload, g_listen, socket, backlog, clients, request, joinable, stopping>>

accept ==
  /\ SStep("accept", "receive")
  /\ socket = "listening" /\ backlog # <<>>
  /\ request' = Head(backlog) /\ backlog' = Tail(backlog)
  /\ UNCHANGED <<g_running, g_unload, g_listen, socket, clients, joinable, stopping>>

\* The socket was closed under accept: the loop ends, or asks again.
AcceptFails ==
  /\ socket # "listening"
  /\ SStep("accept", IF g_running THEN "test" ELSE "close")
  /\ UNCHANGED <<g_running, g_unload, g_listen, socket, backlog, clients, request, joinable, stopping>>

\* Three seconds without a byte, or the client is gone: nothing is handled.
receive ==
  /\ spc = "receive"
  /\ \/ request # "silent" /\ spc' = "handle"
     \/ spc' = "test"
  /\ UNCHANGED <<g_running, g_unload, g_listen, socket, backlog, clients, request, joinable, stopping>>

\* The answer is sent first, then the latch is set.
handle_client ==
  /\ SStep("handle", "test")
  /\ g_unload' = (g_unload \/ request = "unload")
  /\ UNCHANGED <<g_running, g_listen, socket, backlog, clients, request, joinable, stopping>>

CloseListener ==
  /\ SStep("close", "closed")
  /\ socket' = "closed" /\ backlog' = <<>>
  /\ UNCHANGED <<g_running, g_unload, g_listen, clients, request, joinable, stopping>>

ServerEnds ==
  /\ spc \in {"closed", "failing"} /\ spc' = "ended"
  /\ g_listen' = FALSE
  /\ UNCHANGED <<g_running, g_unload, socket, backlog, clients, request, joinable, stopping>>

server_loop ==
  \/ Listen \/ ListenFails \/ Known \/ TestRunning \/ accept \/ AcceptFails
  \/ receive \/ handle_client \/ CloseListener \/ ServerEnds

Connect ==
  /\ socket = "listening" /\ clients < MaxClients
  /\ clients' = clients + 1
  /\ \E r \in {"call", "unload"} : backlog' = Append(backlog, r)
  /\ UNCHANGED <<g_running, g_unload, g_listen, socket, spc, request, joinable, stopping>>

-----------------------------------------------------------------------------
(* stop *)

serverThread == <<clients, spc, request>>
Stopping(from, to) == stopping = from /\ stopping' = to

stop ==
  /\ Stopping("no", IF g_running THEN "look" ELSE "stopped")
  /\ g_running' = FALSE
  /\ UNCHANGED <<g_unload, g_listen, socket, backlog, serverThread, joinable>>

Look ==
  /\ Stopping("look", IF g_listen THEN "poke" ELSE "join")
  /\ UNCHANGED <<g_running, g_unload, g_listen, socket, backlog, serverThread, joinable>>

\* Fault: the listening socket is neither poked nor closed.
Poke_Skipped ==
  /\ Stopping("poke", "join")
  /\ UNCHANGED <<g_running, g_unload, g_listen, socket, backlog, serverThread, joinable>>

\* A connection to itself wakes accept, while somebody listens.
Poke ==
  /\ Stopping("poke", "forget")
  /\ backlog' = IF socket = "listening" THEN Append(backlog, "silent") ELSE backlog
  /\ UNCHANGED <<g_running, g_unload, g_listen, socket, serverThread, joinable>>

Forget ==
  /\ Stopping("forget", "closing")
  /\ g_listen' = FALSE
  /\ UNCHANGED <<g_running, g_unload, socket, backlog, serverThread, joinable>>

CloseDoomed ==
  /\ Stopping("closing", "join")
  /\ socket' = "closed" /\ backlog' = <<>>
  /\ UNCHANGED <<g_running, g_unload, g_listen, serverThread, joinable>>

join ==
  /\ Stopping("join", "stopped")
  /\ joinable => spc = "ended"
  /\ joinable' = FALSE
  /\ UNCHANGED <<g_running, g_unload, g_listen, socket, backlog, serverThread>>

StopStep == Look \/ Poke \/ Forget \/ CloseDoomed \/ join
=============================================================================
