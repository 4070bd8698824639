---------------------------- MODULE TunnelProofs ----------------------------
(***************************************************************************)
(* Theorems about the Servers that share a socket, for any number of them, *)
(* alone and below a Client that reaches them over SSH.                    *)
(***************************************************************************)
EXTENDS Tunnel, TLAPS

Steps == {"off", "bound", "serving"} \cup Starting \cup Stopping \cup Gone

\* The type invariant of the Servers.
SocketTypeOK ==
  /\ path \in Servers \cup {"none", "stale", "file"}
  /\ pc \in [Servers -> Steps] /\ listening \subseteq Servers /\ overlap \in BOOLEAN

\* A Server on its way up has no company of Servers on their way up or down.
Alone == \A t, u \in Servers : t # u /\ pc[t] \in Starting => pc[u] \notin Starting \cup Stopping

\* Who listens, or is about to, is the one bound at the path.
Bound == \A s \in Servers :
  /\ pc[s] \in {"listen", "chmod"} \/ Up(s) => path = s
  /\ pc[s] = "chmod" \/ Up(s) => s \in listening

\* A start that is past its probe found nobody up, and nobody comes up beside a
\* Server that stops.
NobodyUp == \A s, u \in Servers :
  pc[s] \in {"remove", "bind", "listen", "chmod"} \cup Stopping => ~Up(u)

SocketInv == SocketTypeOK /\ (overlap \/ (Alone /\ Bound /\ NobodyUp))

USE DEF Starting, Stopping, Gone, Steps, Up

\* SocketInv holds at first.
LEMMA SocketInvInit == SocketInit => SocketInv
<1> SUFFICES ASSUME SocketInit PROVE SocketInv
  OBVIOUS
<1>1. SocketTypeOK
  BY ServerAssumption DEF SocketInit, SocketTypeOK
<1>2. \A s \in Servers : Up(s) => s \in InitServing
  BY DEF SocketInit
<1>3. \A s \in Servers : pc[s] \in {"off", "serving"}
  BY DEF SocketInit
<1>4. \A s \in InitServing : path = s
  BY ServerAssumption DEF SocketInit
<1> QED
  BY <1>1, <1>2, <1>3, <1>4 DEF SocketInit, SocketInv, Alone, Bound, NobodyUp

\* A step of one Server keeps SocketInv.
LEMMA SocketInvStep == SocketInv /\ [SocketNext]_socketVars => SocketInv'
<1> SUFFICES ASSUME SocketInv, [SocketNext]_socketVars PROVE SocketInv'
  OBVIOUS
<1> USE ServerAssumption
<1>1. CASE UNCHANGED socketVars
  BY <1>1 DEF SocketInv, SocketTypeOK, Alone, Bound, NobodyUp, socketVars
<1>2. ASSUME NEW s \in Servers,
             StartServer(s) \/ StopServer(s) \/ CrashServer(s) \/ ServerSteps(s)
      PROVE  SocketInv'
  <2>1. PICK next \in Steps : Moves(s, next)
    BY <1>2 DEF StartServer, StopServer, CrashServer, ServerSteps, Lstat, Probe, RemoveStale,
                Bind, ListenFd, Chmod, Attached, AttachFails, CloseListener, Drained, Cleanup
  <2>2. SocketTypeOK'
    BY <1>2, <2>1 DEF SocketInv, SocketTypeOK, Moves,
         StartServer, StopServer, CrashServer, ServerSteps, Lstat, Probe, RemoveStale,
         Bind, ListenFd, Chmod, Attached, AttachFails, CloseListener, Drained, Cleanup
  <2>3. CASE overlap'
    BY <2>2, <2>3 DEF SocketInv
  <2>4. CASE ~overlap'
    <3>1. Alone'
      BY <2>1, <2>4 DEF Moves, Alone
    <3>2. SocketTypeOK /\ Alone /\ Bound /\ NobodyUp
      BY <2>1, <2>4 DEF SocketInv, Moves
    <3>3. pc' = [pc EXCEPT ![s] = next] /\ pc \in [Servers -> Steps]
      BY <2>1, <3>2 DEF Moves, SocketTypeOK
    <3> SUFFICES Bound' /\ NobodyUp'
      BY <2>2, <3>1 DEF SocketInv
    <3> USE <3>1, <3>2, <3>3 DEF SocketTypeOK
    <3>4. CASE StartServer(s)
      BY <3>4 DEF StartServer, Moves, Alone, Bound, NobodyUp
    <3>5. CASE StopServer(s)
      BY <3>5 DEF StopServer, Moves, Alone, Bound, NobodyUp
    <3>6. CASE CrashServer(s)
      BY <3>6 DEF CrashServer, Moves, Alone, Bound, NobodyUp
    <3>7. CASE Lstat(s)
      BY <3>7 DEF Lstat, Moves, Alone, Bound, NobodyUp
    <3>8. CASE Probe(s)
      BY <3>8 DEF Probe, Moves, Alone, Bound, NobodyUp, Answers
    <3>9. CASE RemoveStale(s)
      BY <3>9 DEF RemoveStale, Moves, Alone, Bound, NobodyUp
    <3>10. CASE Bind(s)
      BY <3>10 DEF Bind, Moves, Alone, Bound, NobodyUp
    <3>11. CASE ListenFd(s)
      BY <3>11 DEF ListenFd, Moves, Alone, Bound, NobodyUp
    <3>12. CASE Chmod(s)
      BY <3>12 DEF Chmod, Moves, Alone, Bound, NobodyUp
    <3>13. CASE Attached(s)
      BY <3>13 DEF Attached, Moves, Alone, Bound, NobodyUp
    <3>14. CASE AttachFails(s)
      BY <3>14 DEF AttachFails, Moves, Alone, Bound, NobodyUp
    <3>15. CASE CloseListener(s)
      BY <3>15 DEF CloseListener, Moves, Alone, Bound, NobodyUp
    <3>16. CASE Drained(s)
      BY <3>16 DEF Drained, Moves, Alone, Bound, NobodyUp
    <3>17. CASE Cleanup(s)
      BY <3>17 DEF Cleanup, Moves, Alone, Bound, NobodyUp
    <3> QED
      BY <1>2, <3>4, <3>5, <3>6, <3>7, <3>8, <3>9, <3>10, <3>11, <3>12, <3>13, <3>14, <3>15, <3>16, <3>17 DEF ServerSteps
  <2> QED
    BY <2>3, <2>4
<1> QED
  BY <1>1, <1>2 DEF SocketNext

\* So the invariant always holds.
LEMMA SocketInvHolds == SocketSpec => []SocketInv
<1> QED
  BY SocketInvInit, SocketInvStep, PTL DEF SocketSpec

\* Of any number of Servers, one whose Listen has returned keeps its socket
\* until it is stopped, as long as no start overlaps another Server's start or
\* stop: clearStaleSocket never takes a live socket for a stale one, and neither
\* a crash nor a cleanup is in a successor's way.
THEOREM SocketIsKept == SocketSpec => []LostOnlyToOverlap
<1>1. SocketInv => LostOnlyToOverlap
  BY DEF SocketInv, Bound, LostOnlyToOverlap, UpIsReachable
<1> QED
  BY <1>1, SocketInvHolds, PTL

-----------------------------------------------------------------------------
(***************************************************************************)
(* Clients do nothing to the Servers but connect to them.                  *)
(***************************************************************************)
LEMMA TunnelIsPassive == [Next]_vars => [SocketNext]_socketVars
<1> SUFFICES ASSUME [Next]_vars PROVE [SocketNext]_socketVars
  OBVIOUS
<1>1. CASE UNCHANGED vars
  BY <1>1 DEF vars
<1>2. CASE Environment
  BY <1>2 DEF Environment, LinkBreaks, LinkSilent, ContextEnds, AgentHangs, Returns
<1>3. CASE DialSSH \/ Disconnect
  BY <1>3 DEF DialSSH, ResolveConfig, AuthMethods, ConnectTCP, Handshake, Signed, RemoteHome,
              ProbeAnswered, ProbeFails, Diagnose, Disconnect, CloseClient
<1>4. CASE Dialer
  BY <1>4 DEF Dialer, DialBegins, DialFails, DialStreamLocal, DialCommand, ConnLost
<1>5. CASE \E p \in Proxies : ProxyRuns(p)
  BY <1>5 DEF ProxyRuns, ProxyDials, HalfClose, ProxyEnds
<1> QED
  BY <1>1, <1>2, <1>3, <1>4, <1>5 DEF Next

\* With a Client that dials, loses and closes its connections over SSH, the
\* Servers run as they do without it, and keep their sockets.
THEOREM SocketIsKeptBelowTunnel == Spec => SocketSpec /\ []LostOnlyToOverlap
<1>1. Init => SocketInit
  BY DEF Init
<1>2. Spec => SocketSpec
  BY <1>1, TunnelIsPassive, PTL DEF Spec, SocketSpec
<1> QED
  BY <1>2, SocketIsKept
=============================================================================
