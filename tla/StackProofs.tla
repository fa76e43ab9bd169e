----------------------------- MODULE StackProofs -----------------------------
(***************************************************************************)
(* Proofs about SendPath.tla and Stack.tla, for any users, patience of the  *)
(* watchdog and number of reports.  A packet is whole because each buffer   *)
(* belongs to who holds its mutex, and a sender finds the whole connection  *)
(* because Connect attaches the tracks last.                                *)
(***************************************************************************)
EXTENDS Stack, TLAPS

\* A sender's buffers are its own while it needs them.
LockInv ==
  \A s \in Senders :
    /\ sending[s] # "idle" => writeMu[TrackOf(s)] = s /\ absSendBuf[TrackOf(s)] = s
    /\ sending[s] = "encrypted" => srtpMu = s /\ encryptBuf = <<s, s>>

\* Connect assigns the connection and the keys before it attaches the tracks.
Whole == {"iceConn", "srtpCtx"} \subseteq layers

AttachInv ==
  /\ connect \in {"wrap", "server", "handshake", "keys", "attach", "drain", "up", "ok"} =>
       "iceConn" \in layers
  /\ connect \in {"attach", "drain", "up", "ok"} => "srtpCtx" \in layers
  /\ attached => Whole
  /\ \A s \in Senders : sending[s] # "idle" => Whole

\* The wrapper is shut by closing the agent, and Close is over when it is.
ReleaseInv ==
  /\ iceShut => releases > 0
  /\ once = "over" => releases > 0

IInv == TypeOK /\ LockInv /\ AttachInv /\ ReleaseInv

-----------------------------------------------------------------------------
\* A new stack has no layers, and nobody sends.
LEMMA Initially == Init => IInv
<1> SUFFICES ASSUME Init PROVE IInv
  OBVIOUS
<1> USE StackAssumption, SendAssumption DEF Init, SendInit
<1>1. TypeOK
  <2>1. SendTypeOK
    BY DEF SendTypeOK
  <2>2. /\ reports \in Seq({"connected", "disconnected", "failed", "closed"})
        /\ reported \in 0 .. MaxReports /\ checking \in 0 .. Patience + 1 /\ releases \in Nat
    OBVIOUS
  <2> QED
    BY <2>1, <2>2 DEF TypeOK
<1>2. LockInv /\ AttachInv /\ ReleaseInv
  BY DEF LockInv, AttachInv, ReleaseInv, Whole
<1> QED
  BY <1>1, <1>2 DEF IInv

\* A sender stamps a buffer whose mutex nobody holds.
LEMMA StampLocks ==
  ASSUME SendTypeOK, LockInv, NEW s \in Senders, writePackets(s)
  PROVE  SendTypeOK' /\ LockInv'
<1>1. TrackOf(s) \in Tracks /\ \A r \in Senders : TrackOf(r) \in Tracks
  BY DEF TrackOf, Tracks
<1>2. SendTypeOK'
  BY <1>1 DEF writePackets, SendTypeOK
<1>3. ASSUME NEW r \in Senders
      PROVE  /\ sending'[r] # "idle" => writeMu'[TrackOf(r)] = r /\ absSendBuf'[TrackOf(r)] = r
             /\ sending'[r] = "encrypted" => srtpMu' = r /\ encryptBuf' = <<r, r>>
  <2>1. CASE r = s
    BY <1>1, <2>1 DEF writePackets, SendTypeOK
  <2>2. CASE r # s
    <3>1. sending'[r] = sending[r] /\ srtpMu' = srtpMu /\ encryptBuf' = encryptBuf
      BY <2>2 DEF writePackets, SendTypeOK
    <3>2. sending[r] # "idle" => TrackOf(r) # TrackOf(s)
      BY SendAssumption DEF writePackets, LockInv, Senders
    <3> QED
      BY <1>1, <3>1, <3>2 DEF writePackets, SendTypeOK, LockInv
  <2> QED
    BY <2>1, <2>2
<1> QED
  BY <1>2, <1>3 DEF LockInv

\* Encryption takes the second buffer under the second mutex; the write gives both back.
LEMMA SendLocks ==
  ASSUME SendTypeOK, LockInv, NEW s \in Senders, NEW ready, Send(s, ready)
  PROVE  SendTypeOK' /\ LockInv'
<1>1. TrackOf(s) \in Tracks /\ \A r \in Senders : TrackOf(r) \in Tracks
  BY DEF TrackOf, Tracks
<1>2. sending[s] # "idle"
  BY DEF Send, Encrypt, Write
<1>3. SendTypeOK'
  BY <1>1 DEF Send, Encrypt, Write, Unlock, SendTypeOK
<1>4. ASSUME NEW r \in Senders
      PROVE  /\ sending'[r] # "idle" => writeMu'[TrackOf(r)] = r /\ absSendBuf'[TrackOf(r)] = r
             /\ sending'[r] = "encrypted" => srtpMu' = r /\ encryptBuf' = <<r, r>>
  <2>1. CASE r = s
    <3>1. CASE Encrypt(s, ready)
      BY <1>1, <2>1, <3>1 DEF Encrypt, Unlock, SendTypeOK, LockInv
    <3>2. CASE Write(s)
      BY <2>1, <3>2 DEF Write, Unlock, SendTypeOK
    <3> QED
      BY <3>1, <3>2 DEF Send
  <2>2. CASE r # s
    <3>1. sending'[r] = sending[r]
      BY <2>2 DEF Send, Encrypt, Write, Unlock, SendTypeOK
    <3>2. sending[r] # "idle" => TrackOf(r) # TrackOf(s)
      BY <1>2, <2>2 DEF LockInv
    <3>3. sending[r] # "idle" => writeMu'[TrackOf(r)] = r /\ absSendBuf'[TrackOf(r)] = r
      BY <1>1, <3>2 DEF Send, Encrypt, Write, Unlock, SendTypeOK, LockInv
    <3>4. sending[r] = "encrypted" => srtpMu' = r /\ encryptBuf' = <<r, r>>
      BY <2>2, SendAssumption DEF Send, Encrypt, Write, Unlock, BufferFree, LockInv, Senders
    <3> QED
      BY <3>1, <3>3, <3>4
  <2> QED
    BY <2>1, <2>2
<1> QED
  BY <1>3, <1>4 DEF LockInv

\* The mutexes are taken and given back by the senders only.
LEMMA LockStep ==
  ASSUME SendTypeOK, LockInv, [Next]_vars
  PROVE  (SendTypeOK' /\ LockInv')
<1> USE StackAssumption, SendAssumption DEF vars, closeVars, setupVars, agentVars, watchVars
<1>1. CASE AgentMoves
  BY <1>1 DEF AgentMoves, AgentBecomes, sendVars, SendTypeOK, LockInv
<1>2. CASE onAgentState
  BY <1>2 DEF onAgentState, StateOf, sendVars, SendTypeOK, LockInv
<1>3. CASE ConnectStart
  BY <1>3 DEF ConnectStart, sendVars, SendTypeOK, LockInv
<1>4. CASE Dial
  BY <1>4 DEF Dial, AgentGone, sendVars, SendTypeOK, LockInv
<1>5. CASE Accept
  BY <1>5 DEF Accept, AgentGone, sendVars, SendTypeOK, LockInv
<1>6. CASE Assign("iceConn", "conn", "wrap")
  BY <1>6 DEF Assign, sendVars, SendTypeOK, LockInv
<1>7. CASE Assign("iceOnce", "wrap", "server")
  BY <1>7 DEF Assign, sendVars, SendTypeOK, LockInv
<1>8. CASE Assign("dtlsConn", "server", "handshake")
  BY <1>8 DEF Assign, sendVars, SendTypeOK, LockInv
<1>9. CASE HandshakeDone
  BY <1>9 DEF HandshakeDone, sendVars, SendTypeOK, LockInv
<1>10. CASE HandshakeFails
  BY <1>10 DEF HandshakeFails, CloseIce, CloseAgent, sendVars, SendTypeOK, LockInv
<1>11. CASE Assign("srtpCtx", "keys", "attach")
  BY <1>11 DEF Assign, sendVars, SendTypeOK, LockInv
<1>12. CASE NoServer \/ NoKeys
  BY <1>12 DEF NoServer, NoKeys, sendVars, SendTypeOK, LockInv
<1>13. CASE Attach
  BY <1>13 DEF Attach, sendVars, SendTypeOK, LockInv
<1>14. CASE StartDrain
  BY <1>14 DEF StartDrain, sendVars, SendTypeOK, LockInv
<1>15. CASE ConnectDone
  BY <1>15 DEF ConnectDone, sendVars, SendTypeOK, LockInv
<1>16. CASE DrainEnd
  BY <1>16 DEF DrainEnd, sendVars, SendTypeOK, LockInv
<1>17. CASE StopMonitor
  BY <1>17 DEF StopMonitor, sendVars, SendTypeOK, LockInv
<1>18. ASSUME NEW c \in Closers, UserCloses(c) PROVE (SendTypeOK' /\ LockInv')
  BY <1>18 DEF UserCloses, Go, sendVars, SendTypeOK, LockInv
<1>19. ASSUME NEW c \in Closers, Unregister(c) PROVE (SendTypeOK' /\ LockInv')
  BY <1>19 DEF Unregister, Go, sendVars, SendTypeOK, LockInv
<1>20. ASSUME NEW c \in Closers, CloseStart(c) PROVE (SendTypeOK' /\ LockInv')
  BY <1>20 DEF CloseStart, Go, sendVars, SendTypeOK, LockInv
<1>21. ASSUME NEW c \in Closers, CloseLayers(c) PROVE (SendTypeOK' /\ LockInv')
  BY <1>21 DEF CloseLayers, Topmost, CloseIce, CloseAgent, Go, sendVars, SendTypeOK, LockInv
<1>22. ASSUME NEW c \in Closers, CloseDone(c) PROVE (SendTypeOK' /\ LockInv')
  BY <1>22 DEF CloseDone, Go, sendVars, SendTypeOK, LockInv
<1>23. CASE Tick
  BY <1>23, StampLocks DEF Tick, sendVars, SendTypeOK, LockInv, Senders
<1>24. ASSUME NEW s \in Senders, WriteSample(s) PROVE (SendTypeOK' /\ LockInv')
  BY <1>24, StampLocks DEF WriteSample
<1>25. ASSUME NEW s \in Senders, WriteRTP(s) PROVE (SendTypeOK' /\ LockInv')
  BY <1>25, SendLocks DEF WriteRTP
<1>26. CASE UNCHANGED vars
  BY <1>26 DEF sendVars, SendTypeOK, LockInv
<1> QED
  BY <1>1, <1>2, <1>3, <1>4, <1>5, <1>6, <1>7, <1>8, <1>9, <1>10, <1>11, <1>12, <1>13,
     <1>14, <1>15, <1>16, <1>17, <1>18, <1>19, <1>20, <1>21, <1>22, <1>23, <1>24, <1>25,
     <1>26
  DEF Next, ConnectStep, CloseStep, Senders

\* Connect assigns the tracks' write stream after all they need, and nothing is unassigned.
LEMMA AttachStep ==
  ASSUME TypeOK, AttachInv, [Next]_vars
  PROVE  AttachInv'
<1> USE StackAssumption, SendAssumption DEF vars, closeVars, setupVars, agentVars, watchVars
<1>1. CASE AgentMoves
  BY <1>1 DEF AgentMoves, AgentBecomes, sendVars, AttachInv, Whole
<1>2. CASE onAgentState
  BY <1>2 DEF onAgentState, StateOf, sendVars, AttachInv, Whole
<1>3. CASE ConnectStart
  BY <1>3 DEF ConnectStart, sendVars, AttachInv, Whole
<1>4. CASE Dial
  BY <1>4 DEF Dial, AgentGone, sendVars, AttachInv, Whole
<1>5. CASE Accept
  BY <1>5 DEF Accept, AgentGone, sendVars, AttachInv, Whole
<1>6. CASE Assign("iceConn", "conn", "wrap")
  BY <1>6 DEF Assign, sendVars, AttachInv, Whole
<1>7. CASE Assign("iceOnce", "wrap", "server")
  BY <1>7 DEF Assign, sendVars, AttachInv, Whole
<1>8. CASE Assign("dtlsConn", "server", "handshake")
  BY <1>8 DEF Assign, sendVars, AttachInv, Whole
<1>9. CASE HandshakeDone
  BY <1>9 DEF HandshakeDone, sendVars, AttachInv, Whole
<1>10. CASE HandshakeFails
  BY <1>10 DEF HandshakeFails, CloseIce, CloseAgent, sendVars, AttachInv, Whole
<1>11. CASE Assign("srtpCtx", "keys", "attach")
  BY <1>11 DEF Assign, sendVars, AttachInv, Whole
<1>12. CASE NoServer \/ NoKeys
  BY <1>12 DEF NoServer, NoKeys, sendVars, AttachInv, Whole
<1>13. CASE Attach
  BY <1>13 DEF Attach, sendVars, AttachInv, Whole
<1>14. CASE StartDrain
  BY <1>14 DEF StartDrain, sendVars, AttachInv, Whole
<1>15. CASE ConnectDone
  BY <1>15 DEF ConnectDone, sendVars, AttachInv, Whole
<1>16. CASE DrainEnd
  BY <1>16 DEF DrainEnd, sendVars, AttachInv, Whole
<1>17. CASE StopMonitor
  BY <1>17 DEF StopMonitor, sendVars, AttachInv, Whole
<1>18. ASSUME NEW c \in Closers, UserCloses(c) PROVE AttachInv'
  BY <1>18 DEF UserCloses, Go, sendVars, AttachInv, Whole
<1>19. ASSUME NEW c \in Closers, Unregister(c) PROVE AttachInv'
  BY <1>19 DEF Unregister, Go, sendVars, AttachInv, Whole
<1>20. ASSUME NEW c \in Closers, CloseStart(c) PROVE AttachInv'
  BY <1>20 DEF CloseStart, Go, sendVars, AttachInv, Whole
<1>21. ASSUME NEW c \in Closers, CloseLayers(c) PROVE AttachInv'
  BY <1>21 DEF CloseLayers, Topmost, CloseIce, CloseAgent, Go, sendVars, AttachInv, Whole
<1>22. ASSUME NEW c \in Closers, CloseDone(c) PROVE AttachInv'
  BY <1>22 DEF CloseDone, Go, sendVars, AttachInv, Whole
<1>23. CASE Tick
  BY <1>23 DEF Tick, Go, writePackets, sendVars, SendTypeOK, TypeOK, AttachInv, Whole
<1>24. ASSUME NEW s \in Senders, WriteSample(s) PROVE AttachInv'
  BY <1>24 DEF WriteSample, writePackets, SendTypeOK, TypeOK, AttachInv, Whole
<1>25. ASSUME NEW s \in Senders, WriteRTP(s) PROVE AttachInv'
  BY <1>25 DEF WriteRTP, Send, Encrypt, Write, Unlock, SendTypeOK, TypeOK, AttachInv, Whole
<1>26. CASE UNCHANGED vars
  BY <1>26 DEF sendVars, AttachInv, Whole
<1> QED
  BY <1>1, <1>2, <1>3, <1>4, <1>5, <1>6, <1>7, <1>8, <1>9, <1>10, <1>11, <1>12, <1>13,
     <1>14, <1>15, <1>16, <1>17, <1>18, <1>19, <1>20, <1>21, <1>22, <1>23, <1>24, <1>25,
     <1>26
  DEF Next, ConnectStep, CloseStep, Senders

\* Whoever closes the agent, it stays closed.
LEMMA ReleaseStep ==
  ASSUME TypeOK, ReleaseInv, [Next]_vars
  PROVE  ReleaseInv'
<1> USE StackAssumption, SendAssumption DEF vars, closeVars, setupVars, agentVars, watchVars
<1>1. CASE AgentMoves
  BY <1>1 DEF AgentMoves, AgentBecomes, TypeOK, ReleaseInv
<1>2. CASE onAgentState
  BY <1>2 DEF onAgentState, StateOf, TypeOK, ReleaseInv
<1>3. CASE ConnectStart
  BY <1>3 DEF ConnectStart, TypeOK, ReleaseInv
<1>4. CASE Dial
  BY <1>4 DEF Dial, AgentGone, TypeOK, ReleaseInv
<1>5. CASE Accept
  BY <1>5 DEF Accept, AgentGone, TypeOK, ReleaseInv
<1>6. CASE Assign("iceConn", "conn", "wrap")
  BY <1>6 DEF Assign, TypeOK, ReleaseInv
<1>7. CASE Assign("iceOnce", "wrap", "server")
  BY <1>7 DEF Assign, TypeOK, ReleaseInv
<1>8. CASE Assign("dtlsConn", "server", "handshake")
  BY <1>8 DEF Assign, TypeOK, ReleaseInv
<1>9. CASE HandshakeDone
  BY <1>9 DEF HandshakeDone, TypeOK, ReleaseInv
<1>10. CASE HandshakeFails
  BY <1>10 DEF HandshakeFails, CloseIce, CloseAgent, TypeOK, ReleaseInv
<1>11. CASE Assign("srtpCtx", "keys", "attach")
  BY <1>11 DEF Assign, TypeOK, ReleaseInv
<1>12. CASE NoServer \/ NoKeys
  BY <1>12 DEF NoServer, NoKeys, TypeOK, ReleaseInv
<1>13. CASE Attach
  BY <1>13 DEF Attach, TypeOK, ReleaseInv
<1>14. CASE StartDrain
  BY <1>14 DEF StartDrain, TypeOK, ReleaseInv
<1>15. CASE ConnectDone
  BY <1>15 DEF ConnectDone, TypeOK, ReleaseInv
<1>16. CASE DrainEnd
  BY <1>16 DEF DrainEnd, TypeOK, ReleaseInv
<1>17. CASE StopMonitor
  BY <1>17 DEF StopMonitor, TypeOK, ReleaseInv
<1>18. ASSUME NEW c \in Closers, UserCloses(c) PROVE ReleaseInv'
  BY <1>18 DEF UserCloses, Go, TypeOK, ReleaseInv
<1>19. ASSUME NEW c \in Closers, Unregister(c) PROVE ReleaseInv'
  BY <1>19 DEF Unregister, Go, TypeOK, ReleaseInv
<1>20. ASSUME NEW c \in Closers, CloseStart(c) PROVE ReleaseInv'
  BY <1>20 DEF CloseStart, Go, TypeOK, ReleaseInv
<1>21. ASSUME NEW c \in Closers, CloseLayers(c) PROVE ReleaseInv'
  BY <1>21 DEF CloseLayers, Topmost, CloseIce, CloseAgent, Go, TypeOK, ReleaseInv
<1>22. ASSUME NEW c \in Closers, CloseDone(c) PROVE ReleaseInv'
  BY <1>22 DEF CloseDone, Go, TypeOK, ReleaseInv
<1>23. CASE Tick
  BY <1>23 DEF Tick, ReleaseInv
<1>24. ASSUME NEW s \in Senders, WriteSample(s) PROVE ReleaseInv'
  BY <1>24 DEF WriteSample, ReleaseInv
<1>25. ASSUME NEW s \in Senders, WriteRTP(s) PROVE ReleaseInv'
  BY <1>25 DEF WriteRTP, ReleaseInv
<1>26. CASE UNCHANGED vars
  BY <1>26 DEF TypeOK, ReleaseInv
<1> QED
  BY <1>1, <1>2, <1>3, <1>4, <1>5, <1>6, <1>7, <1>8, <1>9, <1>10, <1>11, <1>12, <1>13,
     <1>14, <1>15, <1>16, <1>17, <1>18, <1>19, <1>20, <1>21, <1>22, <1>23, <1>24, <1>25,
     <1>26
  DEF Next, ConnectStep, CloseStep, Senders

\* Closing the agent, through its wrapper or not, keeps the agent's types.
AgentTypes ==
  /\ iceShut \in BOOLEAN /\ met \in BOOLEAN /\ releases \in Nat
  /\ agent \in {"new", "checking", "connected", "disconnected", "failed", "closed"}
  /\ reports \in Seq({"connected", "disconnected", "failed", "closed"})
  /\ reported \in 0 .. MaxReports

LEMMA CloseTypes ==
  ASSUME TypeOK, CloseIce \/ (CloseAgent /\ UNCHANGED iceShut)
  PROVE  AgentTypes'
<1> USE DEF agentVars, TypeOK, AgentTypes
<1>1. CASE iceShut /\ UNCHANGED <<iceShut, agentVars>>
  BY <1>1
<1>2. CASE CloseAgent /\ iceShut' \in BOOLEAN
  <2>1. reports' \in Seq({"connected", "disconnected", "failed", "closed"})
    BY <1>2 DEF CloseAgent
  <2> QED
    BY <1>2, <2>1 DEF CloseAgent
<1> QED
  BY <1>1, <1>2 DEF CloseIce

\* No step leaves the types.
LEMMA TypeStep ==
  ASSUME TypeOK, SendTypeOK', [Next]_vars
  PROVE  TypeOK'
<1> USE StackAssumption, SendAssumption DEF vars, closeVars, setupVars, agentVars, watchVars
<1>1. CASE AgentMoves
  <2>1. /\ agent' \in {"connected", "disconnected", "failed"}
        /\ reports' = Append(reports, agent')
        /\ reported < MaxReports /\ reported' = reported + 1
    BY <1>1 DEF AgentMoves, AgentBecomes
  <2>2. reports' \in Seq({"connected", "disconnected", "failed", "closed"})
    BY <2>1 DEF TypeOK
  <2>3. reported' \in 0 .. MaxReports
    BY <2>1 DEF TypeOK
  <2>4. met' \in BOOLEAN
    BY <1>1 DEF AgentMoves, TypeOK
  <2> QED
    BY <1>1, <2>1, <2>2, <2>3, <2>4 DEF AgentMoves, TypeOK
<1>2. CASE onAgentState
  <2>1. /\ Head(reports) \in {"connected", "disconnected", "failed", "closed"}
        /\ reports' \in Seq({"connected", "disconnected", "failed", "closed"})
    BY <1>2 DEF onAgentState, TypeOK
  <2>2. state' \in {"Connecting", "Connected", "Disconnected", "Failed", "Closed"}
    BY <1>2, <2>1 DEF onAgentState, StateOf, TypeOK
  <2> QED
    BY <1>2, <2>1, <2>2 DEF onAgentState, TypeOK
<1>3. CASE ConnectStart
  BY <1>3 DEF ConnectStart, TypeOK
<1>4. CASE Dial
  BY <1>4 DEF Dial, AgentGone, TypeOK
<1>5. CASE Accept
  BY <1>5 DEF Accept, AgentGone, TypeOK
<1>6. CASE Assign("iceConn", "conn", "wrap")
  BY <1>6 DEF Assign, TypeOK
<1>7. CASE Assign("iceOnce", "wrap", "server")
  BY <1>7 DEF Assign, TypeOK
<1>8. CASE Assign("dtlsConn", "server", "handshake")
  BY <1>8 DEF Assign, TypeOK
<1>9. CASE HandshakeDone
  BY <1>9 DEF HandshakeDone, TypeOK
<1>10. CASE HandshakeFails
  <2>1. AgentTypes'
    BY <1>10, CloseTypes DEF HandshakeFails
  <2> QED
    BY <1>10, <2>1 DEF HandshakeFails, AgentTypes, TypeOK
<1>11. CASE Assign("srtpCtx", "keys", "attach")
  BY <1>11 DEF Assign, TypeOK
<1>12. CASE NoServer \/ NoKeys
  <2>1. CASE NoServer
    BY <2>1 DEF NoServer, TypeOK
  <2>2. CASE NoKeys
    BY <2>2 DEF NoKeys, TypeOK
  <2> QED
    BY <1>12, <2>1, <2>2
<1>13. CASE Attach
  BY <1>13 DEF Attach, TypeOK
<1>14. CASE StartDrain
  BY <1>14 DEF StartDrain, TypeOK
<1>15. CASE ConnectDone
  BY <1>15 DEF ConnectDone, TypeOK
<1>16. CASE DrainEnd
  BY <1>16 DEF DrainEnd, TypeOK
<1>17. CASE StopMonitor
  BY <1>17 DEF StopMonitor, TypeOK
<1>18. ASSUME NEW c \in Closers, UserCloses(c) PROVE TypeOK'
  <2>1. pc' \in [Closers -> {"idle", "unregister", "close", "layers", "transition", "returned"}]
    BY <1>18 DEF UserCloses, Go, TypeOK
  <2> QED
    BY <1>18, <2>1 DEF UserCloses, TypeOK
<1>19. ASSUME NEW c \in Closers, Unregister(c) PROVE TypeOK'
  <2>1. pc' \in [Closers -> {"idle", "unregister", "close", "layers", "transition", "returned"}]
    BY <1>19 DEF Unregister, Go, TypeOK
  <2>2. /\ registered' \in BOOLEAN
        /\ UNCHANGED <<state, closed, once, connect, setupVars, drain, cancelled, iceShut,
                       agentVars, stopped, checking, sendVars>>
    BY <1>19 DEF Unregister
  <2>3. stopped' \in BOOLEAN /\ checking' \in 0 .. Patience + 1
    BY <2>2 DEF TypeOK
  <2> QED
    BY <2>1, <2>2, <2>3 DEF TypeOK
<1>20. ASSUME NEW c \in Closers, CloseStart(c) PROVE TypeOK'
  <2>1. pc' \in [Closers -> {"idle", "unregister", "close", "layers", "transition", "returned"}]
    BY <1>20 DEF CloseStart, Go, TypeOK
  <2>2. closed' \in BOOLEAN /\ once' \in {"new", "busy", "over"} /\ cancelled' \in BOOLEAN
    BY <1>20 DEF CloseStart, TypeOK
  <2>3. UNCHANGED <<state, connect, setupVars, drain, iceShut, agentVars, watchVars, sendVars>>
    BY <1>20 DEF CloseStart
  <2> QED
    BY <2>1, <2>2, <2>3 DEF TypeOK
<1>21. ASSUME NEW c \in Closers, CloseLayers(c) PROVE TypeOK'
  <2>1. AgentTypes'
    BY <1>21, CloseTypes DEF CloseLayers, Topmost
  <2>2. pc' \in [Closers -> {"idle", "unregister", "close", "layers", "transition", "returned"}]
    BY <1>21 DEF CloseLayers, Go, TypeOK
  <2>3. /\ once' = "over"
        /\ UNCHANGED <<state, closed, connect, setupVars, drain, cancelled, watchVars, sendVars>>
    BY <1>21 DEF CloseLayers
  <2> QED
    BY <2>1, <2>2, <2>3 DEF AgentTypes, TypeOK
<1>22. ASSUME NEW c \in Closers, CloseDone(c) PROVE TypeOK'
  <2>1. pc' \in [Closers -> {"idle", "unregister", "close", "layers", "transition", "returned"}]
    BY <1>22 DEF CloseDone, Go, TypeOK
  <2> QED
    BY <1>22, <2>1 DEF CloseDone, TypeOK
<1>23. CASE Tick
  <2>1. pc' \in [Closers -> {"idle", "unregister", "close", "layers", "transition", "returned"}]
    BY <1>23 DEF Tick, Go, TypeOK
  <2>2. checking' \in 0 .. Patience + 1
    BY <1>23 DEF Tick, Since, TypeOK
  <2> QED
    BY <1>23, <2>1, <2>2 DEF Tick, TypeOK
<1>24. ASSUME NEW s \in Senders, WriteSample(s) PROVE TypeOK'
  BY <1>24 DEF WriteSample, TypeOK
<1>25. ASSUME NEW s \in Senders, WriteRTP(s) PROVE TypeOK'
  BY <1>25 DEF WriteRTP, TypeOK
<1>26. CASE UNCHANGED vars
  BY <1>26 DEF TypeOK
<1> QED
  BY <1>1, <1>2, <1>3, <1>4, <1>5, <1>6, <1>7, <1>8, <1>9, <1>10, <1>11, <1>12, <1>13,
     <1>14, <1>15, <1>16, <1>17, <1>18, <1>19, <1>20, <1>21, <1>22, <1>23, <1>24, <1>25,
     <1>26
  DEF Next, ConnectStep, CloseStep, Senders

LEMMA Invariance == Spec => []IInv
<1>1. IInv /\ [Next]_vars => IInv'
  <2>1. ASSUME IInv, [Next]_vars PROVE SendTypeOK' /\ LockInv'
    BY <2>1, LockStep DEF IInv, TypeOK
  <2> QED
    BY <2>1, AttachStep, ReleaseStep, TypeStep DEF IInv
<1> QED
  BY <1>1, Initially, PTL DEF Spec

-----------------------------------------------------------------------------
\* Every variable keeps its type, those of the send path included.
THEOREM TypeCorrect == Spec => []TypeOK
BY Invariance, PTL DEF IInv

\* Whatever Connect had assigned when Close came by, and whoever else closed, the ICE
\* agent is closed when Close is through (stack.go:393-410).
THEOREM CloseAlwaysReleases == Spec => []CloseReleases
<1>1. IInv => CloseReleases
  BY DEF IInv, ReleaseInv, CloseReleases
<1> QED
  BY <1>1, Invariance, PTL

\* However many users close, and whenever, packets are encrypted with the keys in
\* place and written whole (stack.go:514-543, track.go:138-167).
THEOREM PacketsAreWhole == Spec => []SendsAreWhole
<1>1. IInv => SendsAreWhole
  BY DEF IInv, LockInv, AttachInv, Whole, SendsAreWhole, DatagramsWhole
<1> QED
  BY <1>1, Invariance, PTL
=============================================================================
