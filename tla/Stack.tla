------------------------------- MODULE Stack -------------------------------
(***************************************************************************)
(* One connection of a group call: native.Stack, the ICE agent below it,    *)
(* the PeerConnection that wraps it and the factory's monitor, which polls  *)
(* it every second.  Connect assigns the layers one by one while Close,     *)
(* called by the user or by the monitor, takes down the topmost it sees;    *)
(* the agent reports its states from a goroutine of its own, in order, and  *)
(* the streamers and the monitor send through the tracks all the while.     *)
(***************************************************************************)
EXTENDS SendPath, Naturals, Sequences

CONSTANTS
  Users,       \* goroutines, besides the monitor's, that call PeerConnection.Close
  Patience,    \* polls the watchdog waits (iceCheckingTimeout)
  MaxReports   \* bound: changes of state the agent reports

ASSUME StackAssumption ==
  /\ Watchdog \notin Users
  /\ Patience \in Nat /\ MaxReports \in Nat

Closers == Users \cup {Watchdog}

VARIABLES
  state,               \* s.state
  closed, once,        \* s.closed; closeOnce: "new", "busy" or "over"
  pc,                  \* each closer's place in PeerConnection.Close
  connect,             \* Connect's place, or "ok" or "error" once returned
  layers,              \* the fields Connect has assigned, topmost last
  attached,            \* the tracks have their write stream
  drain,               \* the drain goroutine: "none", "running", "ended"
  cancellable, cancelled, \* drainCancel is set; drainCtx is cancelled
  iceShut,             \* the onceCloseConn has been closed
  agent, met,          \* the agent's state; it has been connected
  releases,            \* how often the agent was closed
  reports,             \* its reports that are not delivered yet
  reported,            \* how many it has made
  registered, stopped, \* the monitor watches the stack; it was stopped
  checking             \* polls since checkingNs, or 0 when it is unset

closeVars == <<closed, once, pc>>
setupVars == <<layers, attached, cancellable>>
agentVars == <<agent, met, releases, reports, reported>>
watchVars == <<registered, stopped, checking>>
vars == <<state, closeVars, connect, setupVars, drain, cancelled, iceShut,
          agentVars, watchVars, sendVars>>

Init ==
  /\ state = "Connecting"
  /\ closed = FALSE /\ once = "new" /\ pc = [c \in Closers |-> "idle"]
  /\ connect = "idle" /\ layers = {} /\ attached = FALSE
  /\ drain = "none" /\ cancellable = FALSE /\ cancelled = FALSE /\ iceShut = FALSE
  /\ agent = "new" /\ met = FALSE /\ releases = 0 /\ reports = <<>> /\ reported = 0
  /\ registered = TRUE /\ stopped = FALSE /\ checking = 0
  /\ SendInit

(***************************************************************************)
(* The ICE agent                                                           *)
(***************************************************************************)
AgentBecomes(next) ==
  /\ agent' = next
  /\ reports' = Append(reports, next)
  /\ reported' = reported + 1

AgentMoves ==
  /\ reported < MaxReports
  /\ \/ agent \in {"checking", "disconnected"} /\ AgentBecomes("connected") /\ met' = TRUE
     \/ agent = "connected" /\ AgentBecomes("disconnected") /\ UNCHANGED met
     \/ agent \in {"checking", "disconnected"} /\ AgentBecomes("failed") /\ UNCHANGED met
  /\ UNCHANGED <<state, closeVars, connect, setupVars, drain, cancelled, iceShut,
                 releases, watchVars, sendVars>>

CloseAgent ==
  /\ releases' = releases + 1
  /\ agent' = "closed"
  /\ reports' = IF agent = "closed" THEN reports ELSE Append(reports, "closed")
  /\ UNCHANGED <<met, reported>>

CloseIce ==    \* onceCloseConn.Close
  IF iceShut THEN UNCHANGED <<iceShut, agentVars>>
  ELSE iceShut' = TRUE /\ CloseAgent

AgentGone == agent = "closed"

StateOf(report) ==
  CASE report = "disconnected" -> "Disconnected"
    [] report = "failed" -> "Failed"
    [] report = "closed" -> "Closed"
    [] OTHER -> state

onAgentState ==
  /\ reports # <<>>
  /\ reports' = Tail(reports)
  /\ state' = StateOf(Head(reports))
  /\ UNCHANGED <<closeVars, connect, setupVars, drain, cancelled, iceShut, agent, met,
                 releases, reported, watchVars, sendVars>>

(***************************************************************************)
(* Connect.  ICE waits without a limit: PeerConnection passes a context     *)
(* that never ends.  A handshake that fails, at the latest after ten        *)
(* seconds, closes the connection below it from DTLS's own goroutine.       *)
(***************************************************************************)
ConnectStart ==    \* the remote parameters may not parse
  /\ connect = "idle"
  /\ connect' \in IF closed THEN {"error"} ELSE {"delay", "error"}
  /\ UNCHANGED <<state, closeVars, setupVars, drain, cancelled, iceShut, agentVars,
                 watchVars, sendVars>>

Dial ==
  /\ connect = "delay"
  /\ IF AgentGone THEN connect' = "error" /\ UNCHANGED agent
     ELSE connect' = "accept" /\ agent' = "checking"
  /\ UNCHANGED <<state, closeVars, setupVars, drain, cancelled, iceShut, met, releases,
                 reports, reported, watchVars, sendVars>>

Accept ==
  /\ connect = "accept"
  /\ \/ met /\ connect' = "conn"
     \/ AgentGone /\ connect' = "error"
  /\ UNCHANGED <<state, closeVars, setupVars, drain, cancelled, iceShut, agentVars,
                 watchVars, sendVars>>

Assign(layer, from, to) ==
  /\ connect = from /\ connect' = to
  /\ layers' = layers \cup {layer}
  /\ UNCHANGED <<state, closeVars, attached, cancellable, drain, cancelled, iceShut,
                 agentVars, watchVars, sendVars>>

NoServer ==
  /\ connect = "server" /\ connect' = "error"
  /\ UNCHANGED <<state, closeVars, setupVars, drain, cancelled, iceShut, agentVars,
                 watchVars, sendVars>>

HandshakeDone ==
  /\ connect = "handshake"
  /\ agent = "connected" /\ ~iceShut
  /\ connect' = "keys"
  /\ UNCHANGED <<state, closeVars, setupVars, drain, cancelled, iceShut, agentVars,
                 watchVars, sendVars>>

HandshakeFails ==
  /\ connect = "handshake"
  /\ connect' = "error"
  /\ CloseIce
  /\ UNCHANGED <<state, closeVars, setupVars, drain, cancelled, watchVars, sendVars>>

NoKeys ==
  /\ connect = "keys" /\ connect' = "error"
  /\ UNCHANGED <<state, closeVars, setupVars, drain, cancelled, iceShut, agentVars,
                 watchVars, sendVars>>

Attach ==
  /\ connect = "attach" /\ connect' = "drain"
  /\ attached' = TRUE
  /\ UNCHANGED <<state, closeVars, layers, cancellable, drain, cancelled, iceShut,
                 agentVars, watchVars, sendVars>>

StartDrain ==
  /\ connect = "drain" /\ connect' = "up"
  /\ cancellable' = TRUE /\ drain' = "running"
  /\ UNCHANGED <<state, closeVars, layers, attached, cancelled, iceShut, agentVars,
                 watchVars, sendVars>>

ConnectDone ==
  /\ connect = "up" /\ connect' = "ok"
  /\ state' = "Connected"
  /\ UNCHANGED <<closeVars, setupVars, drain, cancelled, iceShut, agentVars, watchVars,
                 sendVars>>

ConnectStep ==
  \/ ConnectStart \/ Dial \/ Accept
  \/ Assign("iceConn", "conn", "wrap")
  \/ Assign("iceOnce", "wrap", "server")
  \/ Assign("dtlsConn", "server", "handshake") \/ NoServer
  \/ HandshakeDone \/ HandshakeFails
  \/ Assign("srtpCtx", "keys", "attach") \/ NoKeys
  \/ Attach \/ StartDrain \/ ConnectDone

(***************************************************************************)
(* drainInbound: a read lasts at most a second, and ends the goroutine when *)
(* the connection is closed.                                                *)
(***************************************************************************)
ReadError == AgentGone

DrainEnd ==
  /\ drain = "running"
  /\ cancelled \/ ReadError
  /\ drain' = "ended"
  /\ UNCHANGED <<state, closeVars, connect, setupVars, cancelled, iceShut, agentVars,
                 watchVars, sendVars>>

(***************************************************************************)
(* PeerConnection.Close and Stack.Close                                    *)
(***************************************************************************)
Go(c, from, to) == pc[c] = from /\ pc' = [pc EXCEPT ![c] = to]

Unregister(c) ==
  /\ Go(c, "unregister", "close")
  /\ registered' = FALSE
  /\ UNCHANGED <<state, closed, once, connect, setupVars, drain, cancelled, iceShut,
                 agentVars, stopped, checking, sendVars>>

UserCloses(c) ==
  /\ c \in Users /\ Go(c, "idle", "unregister")
  /\ UNCHANGED <<state, closed, once, connect, setupVars, drain, cancelled, iceShut,
                 agentVars, watchVars, sendVars>>

CloseStart(c) ==
  /\ IF once = "new"
     THEN /\ Go(c, "close", "layers")
          /\ once' = "busy" /\ closed' = TRUE
          /\ cancelled' = (cancelled \/ cancellable)
     ELSE /\ once = "over" /\ Go(c, "close", "returned")
          /\ UNCHANGED <<once, closed, cancelled>>
  /\ UNCHANGED <<state, connect, setupVars, drain, iceShut, agentVars, watchVars,
                 sendVars>>

Topmost_NoAgent ==
  IF layers \cap {"dtlsConn", "iceOnce"} # {} THEN CloseIce
  ELSE IF "iceConn" \in layers THEN CloseAgent /\ UNCHANGED iceShut
  ELSE UNCHANGED <<iceShut, agentVars>>

Topmost ==
  IF layers \cap {"dtlsConn", "iceOnce"} # {} THEN CloseIce
  ELSE CloseAgent /\ UNCHANGED iceShut

CloseLayers_StillInside(c) ==
  /\ Go(c, "layers", "transition")
  /\ Topmost
  /\ UNCHANGED <<state, closed, once, connect, setupVars, drain, cancelled, watchVars,
                 sendVars>>

CloseLayers(c) ==
  /\ Go(c, "layers", "transition")
  /\ Topmost
  /\ once' = "over"
  /\ UNCHANGED <<state, closed, connect, setupVars, drain, cancelled, watchVars,
                 sendVars>>

CloseDone(c) ==
  /\ \E next \in {"returned", "close"} : Go(c, "transition", next)    \* from its callback
  /\ state' = "Closed"
  /\ UNCHANGED <<closed, once, connect, setupVars, drain, cancelled, iceShut, agentVars,
                 watchVars, sendVars>>

CloseStep(c) == Unregister(c) \/ CloseStart(c) \/ CloseLayers(c) \/ CloseDone(c)

(***************************************************************************)
(* The monitor                                                             *)
(***************************************************************************)
Since(polls) == IF polls <= Patience THEN polls + 1 ELSE polls

\* A pass of the monitor over one of the stacks it found registered.  Every
\* second poll of a connected call sends a padding packet; which ones is left open.
Tick ==
  /\ registered /\ ~stopped /\ pc[Watchdog] = "idle" /\ sending[Watchdog] = "idle"
  /\ IF state = "Connected"
     THEN /\ checking' = 0 /\ UNCHANGED pc
          /\ \/ UNCHANGED sendVars
             \/ attached /\ writePackets(Watchdog)
     ELSE /\ IF checking > Patience THEN Go(Watchdog, "idle", "unregister") /\ UNCHANGED checking
             ELSE checking' = Since(checking) /\ UNCHANGED pc
          /\ UNCHANGED sendVars
  /\ UNCHANGED <<state, closed, once, connect, setupVars, drain, cancelled, iceShut,
                 agentVars, registered, stopped>>

StopMonitor ==
  /\ ~stopped /\ stopped' = TRUE
  /\ UNCHANGED <<state, closeVars, connect, setupVars, drain, cancelled, iceShut,
                 agentVars, registered, checking, sendVars>>

(***************************************************************************)
(* Packets: a streamer's loop sends when it has a frame, before the tracks  *)
(* have their write stream to no effect.                                    *)
(***************************************************************************)
WriteSample(s) ==
  /\ attached /\ writePackets(s)
  /\ UNCHANGED <<state, closeVars, connect, setupVars, drain, cancelled, iceShut,
                 agentVars, watchVars>>

WriteRTP(s) ==
  /\ Send(s, {"iceConn", "srtpCtx"} \subseteq layers)
  /\ UNCHANGED <<state, closeVars, connect, setupVars, drain, cancelled, iceShut,
                 agentVars, watchVars>>

Next ==
  \/ AgentMoves \/ onAgentState \/ ConnectStep \/ DrainEnd \/ Tick \/ StopMonitor
  \/ \E c \in Closers : UserCloses(c) \/ CloseStep(c)
  \/ \E s \in {AudioLoop, VideoLoop} : WriteSample(s)
  \/ \E s \in Senders : WriteRTP(s)

Spec == Init /\ [][Next]_vars

(***************************************************************************)
(* Goroutines run and timers fire; the agent need not connect, nor the user *)
(* call Connect or Close.                                                   *)
(***************************************************************************)
Fairness ==
  /\ WF_vars(onAgentState) /\ WF_vars(DrainEnd) /\ WF_vars(Tick)
  /\ WF_vars(connect # "idle" /\ ConnectStep)
  /\ \A c \in Closers : WF_vars(CloseStep(c))
  /\ \A s \in Senders : WF_vars(WriteRTP(s))

FairSpec == Spec /\ Fairness

TypeOK ==
  /\ state \in {"Connecting", "Connected", "Disconnected", "Failed", "Closed"}
  /\ closed \in BOOLEAN /\ once \in {"new", "busy", "over"}
  /\ pc \in [Closers -> {"idle", "unregister", "close", "layers", "transition", "returned"}]
  /\ connect \in {"idle", "delay", "accept", "conn", "wrap", "server", "handshake", "keys",
                  "attach", "drain", "up", "ok", "error"}
  /\ layers \subseteq {"iceConn", "iceOnce", "dtlsConn", "srtpCtx"} /\ attached \in BOOLEAN
  /\ drain \in {"none", "running", "ended"}
  /\ cancellable \in BOOLEAN /\ cancelled \in BOOLEAN /\ iceShut \in BOOLEAN
  /\ agent \in {"new", "checking", "connected", "disconnected", "failed", "closed"}
  /\ met \in BOOLEAN /\ releases \in Nat
  /\ reports \in Seq({"connected", "disconnected", "failed", "closed"})
  /\ reported \in 0 .. MaxReports
  /\ registered \in BOOLEAN /\ stopped \in BOOLEAN /\ checking \in 0 .. Patience + 1
  /\ SendTypeOK

(***************************************************************************)
(* Whatever Connect had assigned when Close looked, the agent, its sockets  *)
(* and its goroutines are released when Close is through its layers.        *)
(***************************************************************************)
CloseReleases == once = "over" => releases > 0

(***************************************************************************)
(* A packet is encrypted only when the whole connection is there, and goes  *)
(* out whole, whoever else sends and whoever closes (stack.go:517-520,      *)
(* track.go:39-46).                                                         *)
(***************************************************************************)
SendsAreWhole ==
  /\ DatagramsWhole
  /\ \A s \in Senders : sending[s] # "idle" => {"iceConn", "srtpCtx"} \subseteq layers

(***************************************************************************)
(* A stack that never gets Connected is closed in the end, by the monitor   *)
(* if by no one else, unless the monitor is stopped (keepalive.go:30-32).   *)
(***************************************************************************)
StuckIsClosed == <>(state = "Connected" \/ closed \/ stopped)

(***************************************************************************)
(* No drain goroutine outlives Close: neither one that Connect starts after *)
(* it, when the cancel function was not there for Close to call.            *)
(***************************************************************************)
DrainEnds == closed ~> [](drain # "running")

(***************************************************************************)
(* Connect returns, although ICE has no time limit of its own, while the    *)
(* monitor runs; and Close returns, from inside a state callback too.       *)
(***************************************************************************)
NothingStuck ==
  /\ StuckIsClosed /\ DrainEnds
  /\ connect # "idle" ~> (connect \in {"ok", "error"} \/ stopped)
  /\ \A c \in Closers : pc[c] = "unregister" ~> pc[c] = "returned"

(***************************************************************************)
(* The monitor closes no connection that works.  (It does: see README.)     *)
(***************************************************************************)
Works == connect = "ok" /\ agent = "connected"
SparesWorking == [][pc[Watchdog] = "idle" /\ pc'[Watchdog] # "idle" => ~Works]_vars
=============================================================================
