---------------------------- MODULE ServerSocket ----------------------------
(***************************************************************************)
(* Server processes and the unix socket they share (internal/server/       *)
(* server.go): Listen clears a stale socket, binds and restricts it; Serve *)
(* attaches to tmux, serves until it is stopped and removes the socket.    *)
(*                                                                         *)
(* Every one of these steps names the socket by its path, so what it acts  *)
(* on is whatever is there at that moment.  A Server is one process: a     *)
(* restart is another Server.                                              *)
(***************************************************************************)
EXTENDS Naturals, FiniteSets

CONSTANTS
  Servers,       \* the processes of a run
  InitServing    \* those that serve already, at most one

ASSUME ServerAssumption ==
  /\ InitServing \subseteq Servers /\ \A s, t \in InitServing : s = t
  /\ Servers \cap {"none", "stale", "file"} = {}

VARIABLES
  path,       \* what is at the socket path: "none", the "stale" socket of an
              \*   earlier crash, a user's "file", or the Server that bound it
  pc,         \* the step a Server takes next
  listening,  \* Servers whose listening descriptor is open
  overlap     \* history: a Server started while another was starting or stopping

socketVars == <<path, pc, listening, overlap>>

Starting == {"stat", "probe", "remove", "bind", "listen", "chmod"}
Stopping == {"close", "drain", "cleanup"}
Gone     == {"ended", "refused", "crashed"}

SocketInit ==
  /\ path \in IF InitServing = {} THEN {"none", "stale", "file"} ELSE InitServing
  /\ pc = [s \in Servers |-> IF s \in InitServing THEN "serving" ELSE "off"]
  /\ listening = InitServing
  /\ overlap = FALSE

\* What a connect to the path finds.
Answers == path \in listening

\* Server s moves on; a start that meets another Server in transit is noted.
Moves(s, next) ==
  /\ pc' = [pc EXCEPT ![s] = next]
  /\ overlap' = (overlap \/ \E t, u \in Servers : /\ t # u /\ pc'[t] \in Starting
                                                 /\ pc'[u] \in Starting \cup Stopping)

-----------------------------------------------------------------------------
(***************************************************************************)
(* Listen: listenUnix and clearStaleSocket.                                *)
(***************************************************************************)
StartServer(s) ==
  /\ pc[s] = "off" /\ Moves(s, "stat")
  /\ UNCHANGED <<path, listening>>

\* Lstat: nothing there, something that is not a socket, or a socket to probe.
Lstat(s) ==
  /\ pc[s] = "stat"
  /\ Moves(s, CASE path = "none" -> "bind" [] path = "file" -> "refused" [] OTHER -> "probe")
  /\ UNCHANGED <<path, listening>>

ProbeSkipped(s) ==   \* mutant: a live socket is taken for a stale one
  /\ pc[s] = "probe" /\ Moves(s, "remove")
  /\ UNCHANGED <<path, listening>>

Probe(s) ==
  /\ pc[s] = "probe"
  /\ Moves(s, IF Answers THEN "refused" ELSE "remove")
  /\ UNCHANGED <<path, listening>>

RemoveStale(s) ==
  /\ pc[s] = "remove"
  /\ Moves(s, IF path = "none" THEN "refused" ELSE "bind")
  /\ path' = "none"
  /\ UNCHANGED listening

\* net.Listen binds, then listens: in between a connect is refused.
Bind(s) ==
  /\ pc[s] = "bind"
  /\ Moves(s, IF path = "none" THEN "listen" ELSE "refused")
  /\ path' = IF path = "none" THEN s ELSE path
  /\ UNCHANGED listening

ListenFd(s) ==
  /\ pc[s] = "listen" /\ Moves(s, "chmod")
  /\ listening' = listening \cup {s}
  /\ UNCHANGED path

\* Closing a listener unlinks its path first, whoever is bound there.
Chmod(s) ==
  /\ pc[s] = "chmod"
  /\ IF path = "none"
     THEN Moves(s, "refused") /\ listening' = listening \ {s}
     ELSE Moves(s, "bound") /\ UNCHANGED listening
  /\ UNCHANGED path

-----------------------------------------------------------------------------
(***************************************************************************)
(* Serve.                                                                  *)
(***************************************************************************)
\* attachWatcher, then grpcServer.Serve.
Attached(s) ==
  /\ pc[s] = "bound" /\ Moves(s, "serving")
  /\ UNCHANGED <<path, listening>>

\* The deferred removal runs; the listener is left to the end of the process.
AttachFails(s) ==
  /\ pc[s] = "bound" /\ Moves(s, "cleanup")
  /\ UNCHANGED <<path, listening>>

\* The context ends, before or while it serves: GracefulStop.
StopServer(s) ==
  /\ pc[s] \in {"bound", "serving"} /\ Moves(s, "close")
  /\ UNCHANGED <<path, listening>>

CloseListener(s) ==
  /\ pc[s] = "close" /\ Moves(s, "drain")
  /\ path' = "none"
  /\ listening' = listening \ {s}

\* The calls in flight have ended and the watcher is torn down.
Drained(s) ==
  /\ pc[s] = "drain" /\ Moves(s, "cleanup")
  /\ UNCHANGED <<path, listening>>

Cleanup(s) ==
  /\ pc[s] = "cleanup" /\ Moves(s, "ended")
  /\ path' = "none"
  /\ listening' = listening \ {s}

CrashServer(s) ==
  /\ pc[s] \notin Gone \cup {"off"} /\ Moves(s, "crashed")
  /\ listening' = listening \ {s}
  /\ UNCHANGED path

ServerSteps(s) ==
  \/ Lstat(s) \/ Probe(s) \/ RemoveStale(s) \/ Bind(s) \/ ListenFd(s) \/ Chmod(s)
  \/ Attached(s) \/ AttachFails(s) \/ CloseListener(s) \/ Drained(s) \/ Cleanup(s)

SocketNext == \E s \in Servers : StartServer(s) \/ StopServer(s) \/ CrashServer(s) \/ ServerSteps(s)

SocketSpec == SocketInit /\ [][SocketNext]_socketVars

-----------------------------------------------------------------------------
(***************************************************************************)
(* Properties.                                                             *)
(***************************************************************************)
\* Listen has returned and nobody has stopped the Server.
Up(s) == pc[s] \in {"bound", "serving"}

\* Once Listen has returned, the socket accepts connections until the Server
\* is stopped.
UpIsReachable == \A s \in Servers : Up(s) => path = s

\* A Server that is up loses its socket only where a start overlapped another
\* Server's start or stop: any other start finds it alive and refuses, and
\* whatever an earlier one left behind, by a crash too, is in nobody's way.
LostOnlyToOverlap == overlap \/ UpIsReachable
=============================================================================
