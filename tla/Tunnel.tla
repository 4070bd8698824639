------------------------------- MODULE Tunnel -------------------------------
(***************************************************************************)
(* A Client reaching a Server over SSH (internal/client/ssh.go,            *)
(* internal/sshx, internal/cli/proxy.go), composed with the Servers of the *)
(* Host and their socket.                                                  *)
(*                                                                         *)
(* DialSSH opens one SSH connection and a gRPC channel that dials over it: *)
(* a streamlocal channel to the socket or, once that was refused, the      *)
(* stdio of a remote `shevet _proxy`.  gRPC, the SSH library and sshd are  *)
(* external.  The link to the Host works, with an sshd that answers; falls *)
(* silent, so that nothing arrives any more and nobody is told; or breaks, *)
(* which both ends notice.  What is said over a connection is abstracted   *)
(* to which Server it reaches.                                             *)
(***************************************************************************)
EXTENDS ServerSocket

CONSTANTS
  StreamLocal,   \* sshd allows streamlocal forwarding
  Silences,      \* the link and the ssh-agent may fall silent
  Proxies,       \* bound: proxy processes on the Host at a time
  Nobody

ASSUME TunnelAssumption ==
  /\ StreamLocal \in BOOLEAN /\ Silences \in BOOLEAN /\ Nobody \notin Servers \cup Proxies
  /\ Servers \cap Proxies = {}

VARIABLES
  link,        \* the network connection to the Host: "works" | "silent" | "broken"
  ctxDone,     \* the caller's context ended
  cpc,         \* DialSSH and the life of its Client
  ssh,         \* the SSH connection: "none" | "tcp" | "open" | "closed"
  \* the gRPC channel and its dialer, sshTransport
  dialing,     \* a dial under way: "no" | "streamlocal" | "command"
  streamLocalDown,
  conn,        \* the net.Conn in use: the Server reached by streamlocal, or a proxy
  lastConn,    \* the latest one, used or not
  diagnosing,  \* the proxy whose exit the failed probe waits for
  \* the proxy processes
  proxy        \* each one's phase, Server, and whether its stdin is open

clientVars == <<ctxDone, cpc, ssh, diagnosing>>
grpcVars == <<dialing, streamLocalDown, conn, lastConn>>
vars == <<socketVars, link, clientVars, grpcVars, proxy>>

NoProxy == [phase |-> "none", to |-> Nobody, stdin |-> FALSE]

Init ==
  /\ SocketInit
  /\ link = "works" /\ ctxDone = FALSE
  /\ cpc = "resolve" /\ ssh = "none" /\ diagnosing = Nobody
  /\ dialing = "no" /\ streamLocalDown = FALSE
  /\ conn = Nobody /\ lastConn = Nobody
  /\ proxy = [p \in Proxies |-> NoProxy]

-----------------------------------------------------------------------------
(***************************************************************************)
(* The environment (external).                                             *)
(***************************************************************************)
CloseStdin(ps) == [p \in Proxies |-> IF p \in ps THEN [proxy[p] EXCEPT !.stdin = FALSE] ELSE proxy[p]]

\* What the Client closes, the Host learns unless the link is silent.
ClientCloses(ps) == IF link = "silent" THEN proxy ELSE CloseStdin(ps)

\* sshd hangs up on the commands of a connection that broke.
LinkBreaks ==
  /\ link # "broken" /\ link' = "broken"
  /\ proxy' = CloseStdin(Proxies)
  /\ UNCHANGED <<socketVars, clientVars, grpcVars>>

LinkSilent ==
  /\ Silences /\ link = "works" /\ link' = "silent"
  /\ UNCHANGED <<socketVars, clientVars, grpcVars, proxy>>

ContextEnds ==
  /\ ~ctxDone /\ ctxDone' = TRUE
  /\ UNCHANGED <<socketVars, link, cpc, ssh, diagnosing, grpcVars, proxy>>

-----------------------------------------------------------------------------
(***************************************************************************)
(* DialSSH.                                                                *)
(***************************************************************************)
Returns(outcome, sshAfter) ==
  /\ cpc' = outcome /\ ssh' = sshAfter
  /\ UNCHANGED <<ctxDone, diagnosing>>

\* ssh -G, and the refusal of hosts behind a proxy.
ResolveConfig ==
  /\ cpc = "resolve"
  /\ \/ Returns("auth", "none")
     \/ Returns("failed", "none")
  /\ UNCHANGED <<socketVars, link, grpcVars, proxy>>

\* The ssh-agent is asked for its keys, and later to sign with one: it may be
\* waiting for its user.  No context and no timeout bounds either.
AgentHangs ==
  /\ Silences /\ cpc \in {"auth", "sign"}
  /\ Returns("stuck", ssh)
  /\ UNCHANGED <<socketVars, link, grpcVars, proxy>>

\* Without an agent, or when it refuses, the identity files have to do.
AuthMethods ==
  /\ cpc = "auth" /\ Returns("connect", "none")
  /\ UNCHANGED <<socketVars, link, grpcVars, proxy>>

ConnectTCP ==
  /\ cpc = "connect"
  /\ \/ link = "works" /\ ~ctxDone /\ Returns("handshake", "tcp")
     \/ Returns("failed", "none")
  /\ UNCHANGED <<socketVars, link, grpcVars, proxy>>

HandshakeUnwatched ==   \* mutant: the end of the context does not close the socket
  /\ cpc = "handshake" /\ link # "silent"
  /\ (link = "works" /\ Returns("home", "open")) \/ Returns("failed", "closed")
  /\ UNCHANGED <<socketVars, link, grpcVars, proxy>>

\* The timeout of the configuration is that of ssh.Dial's connect: only the
\* link and the context end a handshake.  A context that ends late in it closes
\* the socket under a connection that is returned all the same.
Authenticates ==
  \/ link = "works" /\ Returns("home", "open") /\ UNCHANGED link
  \/ link = "works" /\ ctxDone /\ Returns("home", "open") /\ link' = "broken"
  \/ (link # "silent" \/ ctxDone) /\ Returns("failed", "closed") /\ UNCHANGED link

Handshake ==
  /\ cpc = "handshake"
  /\ Authenticates \/ (link = "works" /\ Returns("sign", ssh) /\ UNCHANGED link)
  /\ UNCHANGED <<socketVars, grpcVars, proxy>>

\* The rest of a handshake that had the agent sign.
Signed ==
  /\ cpc = "sign" /\ Authenticates
  /\ UNCHANGED <<socketVars, grpcVars, proxy>>

\* newSSHTransport and the gRPC client.  The end of the context only asks the
\* far end to close the session.
RemoteHome ==
  /\ cpc = "home" /\ link # "silent"
  /\ \/ link = "works" /\ Returns("probe", "open")
     \/ Returns("failed", "closed")
  /\ UNCHANGED <<socketVars, link, grpcVars, proxy>>

\* The Server a connection ends at, if its process still holds it.
Reached(c) == IF c \in Proxies THEN proxy[c].to ELSE c

Connected == link = "works" /\ conn # Nobody /\ Reached(conn) \in Servers /\ pc[Reached(conn)] = "serving"

ProbeAnswered ==
  /\ cpc = "probe" /\ Connected
  /\ cpc' = "up"
  /\ UNCHANGED <<socketVars, link, ctxDone, ssh, diagnosing, grpcVars, proxy>>

\* The call fails with the first attempt that does, or times out.
ProbeFails ==
  /\ cpc = "probe"
  /\ cpc' = "diagnose" /\ diagnosing' = lastConn
  /\ UNCHANGED <<socketVars, link, ctxDone, ssh, grpcVars, proxy>>

\* Close: the gRPC channel, then the SSH connection under it.
CloseClient(outcome) ==
  /\ cpc' = outcome /\ ssh' = "closed"
  /\ conn' = Nobody /\ diagnosing' = Nobody
  /\ proxy' = ClientCloses(Proxies)
  /\ UNCHANGED <<socketVars, link, ctxDone, dialing, streamLocalDown, lastConn>>

\* cmdConn.Err waits for the remote command to end.
RemoteEnded ==
  diagnosing \in Proxies =>
    link = "broken" \/ (link = "works" /\ proxy[diagnosing].phase = "exited")

Diagnose == cpc = "diagnose" /\ RemoteEnded /\ CloseClient("failed")

\* The dashboard ends.
Disconnect == cpc = "up" /\ CloseClient("closed")

-----------------------------------------------------------------------------
(***************************************************************************)
(* sshTransport.dial, called by gRPC whenever it has no connection.        *)
(***************************************************************************)
GrpcOpen == cpc \in {"probe", "diagnose", "up"}

DialBegins ==
  /\ GrpcOpen /\ conn = Nobody /\ dialing = "no"
  /\ dialing' = IF streamLocalDown THEN "command" ELSE "streamlocal"
  /\ UNCHANGED <<socketVars, link, clientVars, streamLocalDown, conn, lastConn, proxy>>

DialFails ==
  /\ dialing # "no" /\ (link = "broken" \/ ssh = "closed")
  /\ dialing' = "no"
  /\ UNCHANGED <<socketVars, link, clientVars, streamLocalDown, conn, lastConn, proxy>>

Remember(c) == conn' = c /\ lastConn' = c

DialStreamLocal ==
  /\ dialing = "streamlocal" /\ link = "works" /\ ssh = "open"
  /\ IF StreamLocal /\ Answers
     THEN dialing' = "no" /\ Remember(path) /\ UNCHANGED streamLocalDown
     ELSE dialing' = "command" /\ streamLocalDown' = TRUE /\ UNCHANGED <<conn, lastConn>>
  /\ UNCHANGED <<socketVars, link, clientVars, proxy>>

\* A proxy nobody refers to any more makes room for another.
Free(p) == proxy[p].phase \in {"none", "exited"} /\ p \notin {conn, lastConn, diagnosing}

DialCommand ==
  /\ dialing = "command" /\ link = "works" /\ ssh = "open"
  /\ \E p \in Proxies :
       /\ Free(p)
       /\ proxy' = [proxy EXCEPT ![p] = [phase |-> "started", to |-> Nobody, stdin |-> TRUE]]
       /\ dialing' = "no" /\ Remember(p)
  /\ UNCHANGED <<socketVars, link, clientVars, streamLocalDown>>

\* The Server's process still holds the connection.
Holds(s) == pc[s] \notin {"cleanup", "ended", "crashed", "refused"}

DroppedQuietly(c) == link = "broken" \/ (link = "works" /\ c \in Servers /\ ~Holds(c))   \* mutant: the exit of a proxy is not read

\* gRPC reads the end of the connection.
Dropped(c) ==
  \/ link = "broken"
  \/ link = "works" /\ IF c \in Proxies THEN proxy[c].phase = "exited" ELSE ~Holds(c)

\* No preface comes within gRPC's 20 s, or the Server says that it stops.
\* A proxy starts well within that time.
Stalled(c) == Reached(c) \in Servers /\ pc[Reached(c)] # "serving"

ConnLost ==
  /\ conn # Nobody
  /\ Dropped(conn) \/ Stalled(conn)
  /\ conn' = Nobody
  /\ proxy' = ClientCloses({conn} \cap Proxies)
  /\ UNCHANGED <<socketVars, link, clientVars, dialing, streamLocalDown, lastConn>>

-----------------------------------------------------------------------------
(***************************************************************************)
(* runProxy on the Host.                                                   *)
(***************************************************************************)
Phase(p, phase, to) == proxy' = [proxy EXCEPT ![p].phase = phase, ![p].to = to]

Exits(p) == Phase(p, "exited", Nobody)

ProxyDials(p) ==
  /\ proxy[p].phase = "started"
  /\ IF Answers THEN Phase(p, "pumping", path) ELSE Exits(p)
  /\ UNCHANGED <<socketVars, link, clientVars, grpcVars>>

HalfCloseNever(p) == FALSE   \* mutant: the end of stdin is not passed on

\* The end of stdin is passed on as a half-close.
HalfClose(p) ==
  /\ proxy[p].phase = "pumping" /\ ~proxy[p].stdin
  /\ Phase(p, "closing", proxy[p].to)
  /\ UNCHANGED <<socketVars, link, clientVars, grpcVars>>

\* The Server closes: it is gone, or serves and reads the half-close.
ProxyEnds(p) ==
  /\ \/ proxy[p].phase \in {"pumping", "closing"} /\ ~Holds(proxy[p].to)
     \/ proxy[p].phase = "closing" /\ pc[proxy[p].to] = "serving"
  /\ Exits(p)
  /\ UNCHANGED <<socketVars, link, clientVars, grpcVars>>

-----------------------------------------------------------------------------
Environment == (SocketNext /\ UNCHANGED <<link, clientVars, grpcVars, proxy>>) \/ LinkBreaks \/ LinkSilent \/ ContextEnds \/ AgentHangs

DialSSH == \/ ResolveConfig \/ AuthMethods \/ ConnectTCP \/ Handshake \/ Signed \/ RemoteHome
           \/ ProbeAnswered \/ ProbeFails \/ Diagnose

Dialer == DialBegins \/ DialFails \/ DialStreamLocal \/ DialCommand \/ ConnLost

ProxyRuns(p) == ProxyDials(p) \/ HalfClose(p) \/ ProxyEnds(p)

Next == Environment \/ DialSSH \/ Disconnect \/ Dialer \/ \E p \in Proxies : ProxyRuns(p)

Spec == Init /\ [][Next]_vars

(***************************************************************************)
(* Fairness.  DialSSH goes on, by a timeout where its guards say so; gRPC  *)
(* keeps dialling and notices a closed connection; proxies run; a Server   *)
(* that has started goes on, and one that stops ends.  Nothing obliges the *)
(* link to break, a context to end or the dashboard to quit.               *)
(***************************************************************************)
Fairness ==
  /\ WF_vars(DialSSH) /\ WF_vars(Dialer)
  /\ \A p \in Proxies : WF_vars(ProxyRuns(p))
  /\ \A s \in Servers : WF_vars(ServerSteps(s) /\ UNCHANGED <<link, clientVars, grpcVars, proxy>>)

FairSpec == Spec /\ Fairness

-----------------------------------------------------------------------------
(***************************************************************************)
(* Properties.                                                             *)
(***************************************************************************)
Over == cpc \in {"failed", "closed"}

\* DialSSH returns, whatever breaks.
DialReturns == <>(cpc = "up" \/ Over)

\* A wait that no timeout ends: for an ssh-agent that does not answer, in the
\* diagnosis of a proxy that is doing its work or cannot be heard, in a handshake
\* or a command with a Host that is silent.
LeftWaiting ==
  \/ /\ cpc = "diagnose" /\ diagnosing \in Proxies
     /\ link = "silent" \/ (link = "works" /\ proxy[diagnosing].phase = "pumping")
  \/ link = "silent" /\ (cpc = "home" \/ (cpc \in {"handshake", "sign"} /\ ~ctxDone))
  \/ cpc = "stuck"

\* DialSSH returns, whatever breaks and however its context ends, unless one of
\* those four waits has begun and never ends.
DialReturnsUnlessLeft == <>(cpc = "up" \/ Over) \/ <>[]LeftWaiting

\* After DialSSH has returned an error, and after Close, the SSH connection and
\* its streams are closed, and no proxy is left behind on a Host that hears of it.
LeavesNothing ==
  Over ~> /\ ssh \in {"none", "closed"} /\ conn = Nobody
          /\ link = "silent" \/ \A p \in Proxies : proxy[p].phase \in {"none", "exited"}

\* A connected Client gets back to a Server that is up, also across restarts
\* and whether or not sshd forwards sockets.
Reconnects ==
  <>[](cpc = "up" /\ link = "works" /\ path \in Servers /\ pc[path] = "serving") => <>[]Connected
=============================================================================
