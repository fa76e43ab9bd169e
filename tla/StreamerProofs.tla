--------------------------- MODULE StreamerProofs ---------------------------
(***************************************************************************)
(* Proofs about Streamer.tla, for any callers, frame length and time-outs. *)
(* Each part of the invariant is preserved by itself, or with the parts    *)
(* before it; there is one step per action.                                *)
(***************************************************************************)
EXTENDS Streamer, TLAPS

\* A sample past the gate was let through while it was open, and SetPaused clears
\* the count when it shuts it.
LateBound ==
  /\ late <= 1
  /\ ~pausedGate => late = 0
  /\ pc \in {"passed", "pace", "read", "write"} => late = 0

\* The pacing deadline is at least the media time handed on since the loop woke,
\* and is at most a frame ahead of the clock; only a sleeping loop is ahead.
Pacing ==
  /\ wokeAt <= now
  /\ pc = "idle" => played = 0
  /\ next <= now + Frame
  /\ pc \notin {"sleep", "fire", "exit", "done"} => next <= now
  /\ played = 0 \/ wokeAt + played <= next
  /\ pc \in {"read", "write"} => wokeAt + played <= next

\* The first Stop closes the source before any Stop waits for the loop.
StopOrder ==
  /\ once = "done" => srcClosed
  /\ \A c \in Callers : cpc[c] = "join" => once = "done"
  /\ StoppedIsQuiet

IInv == TypeOK /\ NoLostWakeup /\ LateBound /\ Pacing /\ StopOrder

-----------------------------------------------------------------------------
\* NewStreamer leaves an open gate, an empty token channel and a loop not yet run.
LEMMA Initially == Init => IInv
<1> SUFFICES ASSUME Init PROVE IInv
  OBVIOUS
<1> USE DEF Init
<1>1. TypeOK
  BY DEF TypeOK, AtGate
<1>2. NoLostWakeup /\ LateBound
  BY DEF NoLostWakeup, LateBound
<1>3. Pacing
  BY StreamerAssumption DEF Pacing
<1>4. StopOrder
  BY DEF StopOrder, StoppedIsQuiet
<1> QED
  BY <1>1, <1>2, <1>3, <1>4 DEF IInv

\* No step of a caller, of the loop or of the timer leaves the types.
LEMMA TypeStep ==
  ASSUME TypeOK, [Next]_vars
  PROVE  TypeOK'
<1> DEFINE Goal == TypeOK'
<1> USE StreamerAssumption DEF vars, gateVars, endVars, timerVars, paceVars
<1>1. ASSUME NEW c \in Callers, SetPausedTrue(c) PROVE Goal
  BY <1>1 DEF SetPausedTrue, TypeOK, AtGate
<1>2. ASSUME NEW c \in Callers, SetPausedFalse(c) PROVE Goal
  BY <1>2 DEF SetPausedFalse, CallerAt, TypeOK, AtGate
<1>3. ASSUME NEW c \in Callers, Wake(c) PROVE Goal
  BY <1>3 DEF Wake, CallerAt, Token, TypeOK, AtGate
<1>4. ASSUME NEW c \in Callers, StopCancel(c) PROVE Goal
  BY <1>4 DEF StopCancel, CallerAt, TypeOK, AtGate
<1>5. ASSUME NEW c \in Callers, StopClose(c) PROVE Goal
  BY <1>5 DEF StopClose, CallerAt, TypeOK, AtGate
<1>6. ASSUME NEW c \in Callers, StopAgain(c) PROVE Goal
  BY <1>6 DEF StopAgain, CallerAt, TypeOK, AtGate
<1>7. ASSUME NEW c \in Callers, StopJoin(c) PROVE Goal
  BY <1>7 DEF StopJoin, CallerAt, Done, TypeOK, AtGate
<1>8. CASE CheckContext
  BY <1>8 DEF CheckContext, LoopAt, TypeOK, AtGate
<1>9. CASE GateLoad
  BY <1>9 DEF GateLoad, LoopAt, GateShut, TypeOK, AtGate
<1>10. CASE GateDrain
  BY <1>10 DEF GateDrain, LoopAt, TypeOK, AtGate
<1>11. CASE GateLoop
  BY <1>11 DEF GateLoop, LoopAt, GateShut, TypeOK, AtGate
<1>12. CASE GateWoken
  BY <1>12 DEF GateWoken, LoopAt, TypeOK, AtGate
<1>13. CASE GateCancelled
  BY <1>13 DEF GateCancelled, LoopAt, Woken, TypeOK, AtGate
<1>14. CASE GateReturn
  BY <1>14 DEF GateReturn, LoopAt, TypeOK, AtGate
<1>15. CASE Pace
  BY <1>15 DEF Pace, LoopAt, Later, StallAt, TypeOK, AtGate
<1>16. CASE Write
  <2>1. pc' \in {"sleep", "top"} /\ next' \in Nat
    BY <1>16 DEF Write, TypeOK
  <2>2. played' \in Nat /\ late' \in Nat
    BY <1>16 DEF Write, TypeOK
  <2> QED
    BY <1>16, <2>1, <2>2 DEF Write, TypeOK, AtGate
<1>17. CASE WriteFails
  BY <1>17 DEF WriteFails, LoopAt, TypeOK, AtGate
<1>18. CASE FireEnd
  BY <1>18 DEF FireEnd, LoopAt, TypeOK, AtGate
<1>19. CASE CloseDone
  BY <1>19 DEF CloseDone, LoopAt, TypeOK, AtGate
<1>20. CASE Start
  BY <1>20 DEF Start, LoopAt, TypeOK, AtGate
<1>21. CASE ReadSample
  BY <1>21 DEF ReadSample, LoopAt, TypeOK, AtGate
<1>22. CASE ReadFails
  BY <1>22 DEF ReadFails, LoopAt, TypeOK, AtGate
<1>23. CASE Sleep
  BY <1>23 DEF Sleep, TypeOK, AtGate
<1>24. CASE StallFires
  BY <1>24 DEF StallFires, Expired, TypeOK, AtGate
<1>25. CASE StallCloses
  BY <1>25 DEF StallCloses, TypeOK, AtGate
<1>26. CASE Tick
  BY <1>26 DEF Tick, TypeOK, AtGate
<1>27. CASE UNCHANGED vars
  BY <1>27 DEF vars, TypeOK, AtGate
<1> QED
  BY <1>1, <1>2, <1>3, <1>4, <1>5, <1>6, <1>7, <1>8, <1>9, <1>10,
     <1>11, <1>12, <1>13, <1>14, <1>15, <1>16, <1>17, <1>18, <1>19,
     <1>20, <1>21, <1>22, <1>23, <1>24, <1>25, <1>26, <1>27
     DEF Next, Caller, LoopStep

\* The gate opens only with a SetPaused on its way to send the token, and the
\* loop comes to wait only by finding the gate shut.
LEMMA WakeStep ==
  ASSUME TypeOK, NoLostWakeup, [Next]_vars
  PROVE  NoLostWakeup'
<1> DEFINE Goal == NoLostWakeup'
<1> USE StreamerAssumption DEF vars, gateVars, endVars, timerVars, paceVars
<1>1. ASSUME NEW c \in Callers, SetPausedTrue(c) PROVE Goal
  BY <1>1 DEF SetPausedTrue, TypeOK, NoLostWakeup
<1>2. ASSUME NEW c \in Callers, SetPausedFalse(c) PROVE Goal
  BY <1>2 DEF SetPausedFalse, CallerAt, TypeOK, NoLostWakeup
<1>3. ASSUME NEW c \in Callers, Wake(c) PROVE Goal
  BY <1>3 DEF Wake, CallerAt, Token, TypeOK, NoLostWakeup
<1>4. ASSUME NEW c \in Callers, StopCancel(c) PROVE Goal
  BY <1>4 DEF StopCancel, CallerAt, TypeOK, NoLostWakeup
<1>5. ASSUME NEW c \in Callers, StopClose(c) PROVE Goal
  BY <1>5 DEF StopClose, CallerAt, TypeOK, NoLostWakeup
<1>6. ASSUME NEW c \in Callers, StopAgain(c) PROVE Goal
  BY <1>6 DEF StopAgain, CallerAt, TypeOK, NoLostWakeup
<1>7. ASSUME NEW c \in Callers, StopJoin(c) PROVE Goal
  BY <1>7 DEF StopJoin, CallerAt, Done, TypeOK, NoLostWakeup
<1>8. CASE CheckContext
  BY <1>8 DEF CheckContext, LoopAt, TypeOK, NoLostWakeup
<1>9. CASE GateLoad
  BY <1>9 DEF GateLoad, LoopAt, GateShut, TypeOK, NoLostWakeup
<1>10. CASE GateDrain
  BY <1>10 DEF GateDrain, LoopAt, TypeOK, NoLostWakeup
<1>11. CASE GateLoop
  BY <1>11 DEF GateLoop, LoopAt, GateShut, TypeOK, NoLostWakeup
<1>12. CASE GateWoken
  BY <1>12 DEF GateWoken, LoopAt, TypeOK, NoLostWakeup
<1>13. CASE GateCancelled
  BY <1>13 DEF GateCancelled, LoopAt, Woken, TypeOK, NoLostWakeup
<1>14. CASE GateReturn
  BY <1>14 DEF GateReturn, LoopAt, TypeOK, NoLostWakeup
<1>15. CASE Pace
  BY <1>15 DEF Pace, LoopAt, Later, StallAt, TypeOK, NoLostWakeup
<1>16. CASE Write
  BY <1>16 DEF Write, TypeOK, NoLostWakeup
<1>17. CASE WriteFails
  BY <1>17 DEF WriteFails, LoopAt, TypeOK, NoLostWakeup
<1>18. CASE FireEnd
  BY <1>18 DEF FireEnd, LoopAt, TypeOK, NoLostWakeup
<1>19. CASE CloseDone
  BY <1>19 DEF CloseDone, LoopAt, TypeOK, NoLostWakeup
<1>20. CASE Start
  BY <1>20 DEF Start, LoopAt, TypeOK, NoLostWakeup
<1>21. CASE ReadSample
  BY <1>21 DEF ReadSample, LoopAt, TypeOK, NoLostWakeup
<1>22. CASE ReadFails
  BY <1>22 DEF ReadFails, LoopAt, TypeOK, NoLostWakeup
<1>23. CASE Sleep
  BY <1>23 DEF Sleep, TypeOK, NoLostWakeup
<1>24. CASE StallFires
  BY <1>24 DEF StallFires, Expired, TypeOK, NoLostWakeup
<1>25. CASE StallCloses
  BY <1>25 DEF StallCloses, TypeOK, NoLostWakeup
<1>26. CASE Tick
  BY <1>26 DEF Tick, TypeOK, NoLostWakeup
<1>27. CASE UNCHANGED vars
  BY <1>27 DEF vars, TypeOK, NoLostWakeup
<1> QED
  BY <1>1, <1>2, <1>3, <1>4, <1>5, <1>6, <1>7, <1>8, <1>9, <1>10,
     <1>11, <1>12, <1>13, <1>14, <1>15, <1>16, <1>17, <1>18, <1>19,
     <1>20, <1>21, <1>22, <1>23, <1>24, <1>25, <1>26, <1>27
     DEF Next, Caller, LoopStep

\* Only a write under a shut gate counts, and none can follow without a pass
\* through the gate, which the shut gate refuses.
LEMMA LateStep ==
  ASSUME TypeOK, LateBound, [Next]_vars
  PROVE  LateBound'
<1> DEFINE Goal == LateBound'
<1> USE StreamerAssumption DEF vars, gateVars, endVars, timerVars, paceVars
<1>1. ASSUME NEW c \in Callers, SetPausedTrue(c) PROVE Goal
  BY <1>1 DEF SetPausedTrue, TypeOK, LateBound
<1>2. ASSUME NEW c \in Callers, SetPausedFalse(c) PROVE Goal
  BY <1>2 DEF SetPausedFalse, CallerAt, TypeOK, LateBound
<1>3. ASSUME NEW c \in Callers, Wake(c) PROVE Goal
  BY <1>3 DEF Wake, CallerAt, Token, TypeOK, LateBound
<1>4. ASSUME NEW c \in Callers, StopCancel(c) PROVE Goal
  BY <1>4 DEF StopCancel, CallerAt, TypeOK, LateBound
<1>5. ASSUME NEW c \in Callers, StopClose(c) PROVE Goal
  BY <1>5 DEF StopClose, CallerAt, TypeOK, LateBound
<1>6. ASSUME NEW c \in Callers, StopAgain(c) PROVE Goal
  BY <1>6 DEF StopAgain, CallerAt, TypeOK, LateBound
<1>7. ASSUME NEW c \in Callers, StopJoin(c) PROVE Goal
  BY <1>7 DEF StopJoin, CallerAt, Done, TypeOK, LateBound
<1>8. CASE CheckContext
  BY <1>8 DEF CheckContext, LoopAt, TypeOK, LateBound
<1>9. CASE GateLoad
  BY <1>9 DEF GateLoad, LoopAt, GateShut, TypeOK, LateBound
<1>10. CASE GateDrain
  BY <1>10 DEF GateDrain, LoopAt, TypeOK, LateBound
<1>11. CASE GateLoop
  BY <1>11 DEF GateLoop, LoopAt, GateShut, TypeOK, LateBound
<1>12. CASE GateWoken
  BY <1>12 DEF GateWoken, LoopAt, TypeOK, LateBound
<1>13. CASE GateCancelled
  BY <1>13 DEF GateCancelled, LoopAt, Woken, TypeOK, LateBound
<1>14. CASE GateReturn
  BY <1>14 DEF GateReturn, LoopAt, TypeOK, LateBound
<1>15. CASE Pace
  BY <1>15 DEF Pace, LoopAt, Later, StallAt, TypeOK, LateBound
<1>16. CASE Write
  BY <1>16 DEF Write, TypeOK, LateBound
<1>17. CASE WriteFails
  BY <1>17 DEF WriteFails, LoopAt, TypeOK, LateBound
<1>18. CASE FireEnd
  BY <1>18 DEF FireEnd, LoopAt, TypeOK, LateBound
<1>19. CASE CloseDone
  BY <1>19 DEF CloseDone, LoopAt, TypeOK, LateBound
<1>20. CASE Start
  BY <1>20 DEF Start, LoopAt, TypeOK, LateBound
<1>21. CASE ReadSample
  BY <1>21 DEF ReadSample, LoopAt, TypeOK, LateBound
<1>22. CASE ReadFails
  BY <1>22 DEF ReadFails, LoopAt, TypeOK, LateBound
<1>23. CASE Sleep
  BY <1>23 DEF Sleep, TypeOK, LateBound
<1>24. CASE StallFires
  BY <1>24 DEF StallFires, Expired, TypeOK, LateBound
<1>25. CASE StallCloses
  BY <1>25 DEF StallCloses, TypeOK, LateBound
<1>26. CASE Tick
  BY <1>26 DEF Tick, TypeOK, LateBound
<1>27. CASE UNCHANGED vars
  BY <1>27 DEF vars, TypeOK, LateBound
<1> QED
  BY <1>1, <1>2, <1>3, <1>4, <1>5, <1>6, <1>7, <1>8, <1>9, <1>10,
     <1>11, <1>12, <1>13, <1>14, <1>15, <1>16, <1>17, <1>18, <1>19,
     <1>20, <1>21, <1>22, <1>23, <1>24, <1>25, <1>26, <1>27
     DEF Next, Caller, LoopStep

\* A write advances the deadline by as much as the media time; a sleep ends no
\* earlier than the deadline, and the deadline is moved only forward.
LEMMA PaceStep ==
  ASSUME TypeOK, Pacing, [Next]_vars
  PROVE  Pacing'
<1> DEFINE Goal == Pacing'
<1> USE StreamerAssumption DEF vars, gateVars, endVars, timerVars, paceVars
<1>1. ASSUME NEW c \in Callers, SetPausedTrue(c) PROVE Goal
  BY <1>1 DEF SetPausedTrue, TypeOK, AtGate, Pacing
<1>2. ASSUME NEW c \in Callers, SetPausedFalse(c) PROVE Goal
  BY <1>2 DEF SetPausedFalse, CallerAt, TypeOK, AtGate, Pacing
<1>3. ASSUME NEW c \in Callers, Wake(c) PROVE Goal
  BY <1>3 DEF Wake, CallerAt, Token, TypeOK, AtGate, Pacing
<1>4. ASSUME NEW c \in Callers, StopCancel(c) PROVE Goal
  BY <1>4 DEF StopCancel, CallerAt, TypeOK, AtGate, Pacing
<1>5. ASSUME NEW c \in Callers, StopClose(c) PROVE Goal
  BY <1>5 DEF StopClose, CallerAt, TypeOK, AtGate, Pacing
<1>6. ASSUME NEW c \in Callers, StopAgain(c) PROVE Goal
  BY <1>6 DEF StopAgain, CallerAt, TypeOK, AtGate, Pacing
<1>7. ASSUME NEW c \in Callers, StopJoin(c) PROVE Goal
  BY <1>7 DEF StopJoin, CallerAt, Done, TypeOK, AtGate, Pacing
<1>8. CASE CheckContext
  BY <1>8 DEF CheckContext, LoopAt, TypeOK, AtGate, Pacing
<1>9. CASE GateLoad
  BY <1>9 DEF GateLoad, LoopAt, GateShut, TypeOK, AtGate, Pacing
<1>10. CASE GateDrain
  BY <1>10 DEF GateDrain, LoopAt, TypeOK, AtGate, Pacing
<1>11. CASE GateLoop
  BY <1>11 DEF GateLoop, LoopAt, GateShut, TypeOK, AtGate, Pacing
<1>12. CASE GateWoken
  BY <1>12 DEF GateWoken, LoopAt, TypeOK, AtGate, Pacing
<1>13. CASE GateCancelled
  BY <1>13 DEF GateCancelled, LoopAt, Woken, TypeOK, AtGate, Pacing
<1>14. CASE GateReturn
  BY <1>14 DEF GateReturn, LoopAt, TypeOK, AtGate, Pacing
<1>15. CASE Pace
  BY <1>15 DEF Pace, LoopAt, Later, StallAt, TypeOK, AtGate, Pacing
<1>16. CASE Write
  BY <1>16 DEF Write, TypeOK, AtGate, Pacing
<1>17. CASE WriteFails
  BY <1>17 DEF WriteFails, LoopAt, TypeOK, AtGate, Pacing
<1>18. CASE FireEnd
  BY <1>18 DEF FireEnd, LoopAt, TypeOK, AtGate, Pacing
<1>19. CASE CloseDone
  BY <1>19 DEF CloseDone, LoopAt, TypeOK, AtGate, Pacing
<1>20. CASE Start
  BY <1>20 DEF Start, LoopAt, TypeOK, AtGate, Pacing
<1>21. CASE ReadSample
  BY <1>21 DEF ReadSample, LoopAt, TypeOK, AtGate, Pacing
<1>22. CASE ReadFails
  BY <1>22 DEF ReadFails, LoopAt, TypeOK, AtGate, Pacing
<1>23. CASE Sleep
  BY <1>23 DEF Sleep, TypeOK, AtGate, Pacing
<1>24. CASE StallFires
  BY <1>24 DEF StallFires, Expired, TypeOK, AtGate, Pacing
<1>25. CASE StallCloses
  BY <1>25 DEF StallCloses, TypeOK, AtGate, Pacing
<1>26. CASE Tick
  BY <1>26 DEF Tick, TypeOK, AtGate, Pacing
<1>27. CASE UNCHANGED vars
  BY <1>27 DEF vars, TypeOK, AtGate, Pacing
<1> QED
  BY <1>1, <1>2, <1>3, <1>4, <1>5, <1>6, <1>7, <1>8, <1>9, <1>10,
     <1>11, <1>12, <1>13, <1>14, <1>15, <1>16, <1>17, <1>18, <1>19,
     <1>20, <1>21, <1>22, <1>23, <1>24, <1>25, <1>26, <1>27
     DEF Next, Caller, LoopStep

\* Only the loop's own last step lets a Stop that waits for it return.
LEMMA StopStep ==
  ASSUME TypeOK, StopOrder, [Next]_vars
  PROVE  StopOrder'
<1> DEFINE Goal == StopOrder'
<1> USE StreamerAssumption DEF vars, gateVars, endVars, timerVars, paceVars
<1>1. ASSUME NEW c \in Callers, SetPausedTrue(c) PROVE Goal
  BY <1>1 DEF SetPausedTrue, TypeOK, StopOrder, StoppedIsQuiet
<1>2. ASSUME NEW c \in Callers, SetPausedFalse(c) PROVE Goal
  BY <1>2 DEF SetPausedFalse, CallerAt, TypeOK, StopOrder, StoppedIsQuiet
<1>3. ASSUME NEW c \in Callers, Wake(c) PROVE Goal
  BY <1>3 DEF Wake, CallerAt, Token, TypeOK, StopOrder, StoppedIsQuiet
<1>4. ASSUME NEW c \in Callers, StopCancel(c) PROVE Goal
  BY <1>4 DEF StopCancel, CallerAt, TypeOK, StopOrder, StoppedIsQuiet
<1>5. ASSUME NEW c \in Callers, StopClose(c) PROVE Goal
  BY <1>5 DEF StopClose, CallerAt, TypeOK, StopOrder, StoppedIsQuiet
<1>6. ASSUME NEW c \in Callers, StopAgain(c) PROVE Goal
  BY <1>6 DEF StopAgain, CallerAt, TypeOK, StopOrder, StoppedIsQuiet
<1>7. ASSUME NEW c \in Callers, StopJoin(c) PROVE Goal
  BY <1>7 DEF StopJoin, CallerAt, Done, TypeOK, StopOrder, StoppedIsQuiet
<1>8. CASE CheckContext
  BY <1>8 DEF CheckContext, LoopAt, TypeOK, StopOrder, StoppedIsQuiet
<1>9. CASE GateLoad
  BY <1>9 DEF GateLoad, LoopAt, GateShut, TypeOK, StopOrder, StoppedIsQuiet
<1>10. CASE GateDrain
  BY <1>10 DEF GateDrain, LoopAt, TypeOK, StopOrder, StoppedIsQuiet
<1>11. CASE GateLoop
  BY <1>11 DEF GateLoop, LoopAt, GateShut, TypeOK, StopOrder, StoppedIsQuiet
<1>12. CASE GateWoken
  BY <1>12 DEF GateWoken, LoopAt, TypeOK, StopOrder, StoppedIsQuiet
<1>13. CASE GateCancelled
  BY <1>13 DEF GateCancelled, LoopAt, Woken, TypeOK, StopOrder, StoppedIsQuiet
<1>14. CASE GateReturn
  BY <1>14 DEF GateReturn, LoopAt, TypeOK, StopOrder, StoppedIsQuiet
<1>15. CASE Pace
  BY <1>15 DEF Pace, LoopAt, Later, StallAt, TypeOK, StopOrder, StoppedIsQuiet
<1>16. CASE Write
  BY <1>16 DEF Write, TypeOK, StopOrder, StoppedIsQuiet
<1>17. CASE WriteFails
  BY <1>17 DEF WriteFails, LoopAt, TypeOK, StopOrder, StoppedIsQuiet
<1>18. CASE FireEnd
  BY <1>18 DEF FireEnd, LoopAt, TypeOK, StopOrder, StoppedIsQuiet
<1>19. CASE CloseDone
  BY <1>19 DEF CloseDone, LoopAt, TypeOK, StopOrder, StoppedIsQuiet
<1>20. CASE Start
  BY <1>20 DEF Start, LoopAt, TypeOK, StopOrder, StoppedIsQuiet
<1>21. CASE ReadSample
  BY <1>21 DEF ReadSample, LoopAt, TypeOK, StopOrder, StoppedIsQuiet
<1>22. CASE ReadFails
  BY <1>22 DEF ReadFails, LoopAt, TypeOK, StopOrder, StoppedIsQuiet
<1>23. CASE Sleep
  BY <1>23 DEF Sleep, TypeOK, StopOrder, StoppedIsQuiet
<1>24. CASE StallFires
  BY <1>24 DEF StallFires, Expired, TypeOK, StopOrder, StoppedIsQuiet
<1>25. CASE StallCloses
  BY <1>25 DEF StallCloses, TypeOK, StopOrder, StoppedIsQuiet
<1>26. CASE Tick
  BY <1>26 DEF Tick, TypeOK, StopOrder, StoppedIsQuiet
<1>27. CASE UNCHANGED vars
  BY <1>27 DEF vars, TypeOK, StopOrder, StoppedIsQuiet
<1> QED
  BY <1>1, <1>2, <1>3, <1>4, <1>5, <1>6, <1>7, <1>8, <1>9, <1>10,
     <1>11, <1>12, <1>13, <1>14, <1>15, <1>16, <1>17, <1>18, <1>19,
     <1>20, <1>21, <1>22, <1>23, <1>24, <1>25, <1>26, <1>27
     DEF Next, Caller, LoopStep

\* The parts of the invariant hold in every state of every behaviour.
THEOREM Invariant == Spec => []IInv
<1>1. IInv /\ [Next]_vars => IInv'
  BY TypeStep, WakeStep, LateStep, PaceStep, StopStep DEF IInv
<1> QED
  BY <1>1, Initially, PTL DEF Spec

-----------------------------------------------------------------------------
(* The theorems.                                                           *)

\* Types, for any callers and bounds.
THEOREM StreamerTypes == Spec => []TypeOK
<1>1. IInv => TypeOK
  BY DEF IInv
<1> QED
  BY <1>1, Invariant, PTL

\* A loop that waits at an open gate is about to be woken.
THEOREM WakeupsKept == Spec => []NoLostWakeup
<1>1. IInv => NoLostWakeup
  BY DEF IInv
<1> QED
  BY <1>1, Invariant, PTL

\* While the gate is shut at most one sample more is handed on.
THEOREM PausesTakeHold == Spec => []PauseTakesHold
<1>1. IInv => PauseTakesHold
  BY DEF IInv, LateBound, PauseTakesHold
<1> QED
  BY <1>1, Invariant, PTL

\* The media time handed on since the loop woke exceeds real time by at most a
\* frame, whatever the source, the scheduler and the callers do.
THEOREM PacedInRealTime == Spec => []RealTimePace
<1>1. IInv => RealTimePace
  BY StreamerAssumption DEF IInv, TypeOK, Pacing, RealTimePace
<1> QED
  BY <1>1, Invariant, PTL

\* When a Stop has returned the loop is over and its source closed.
THEOREM StopsAreQuiet == Spec => []StoppedIsQuiet
<1>1. IInv => StoppedIsQuiet
  BY DEF IInv, StopOrder
<1> QED
  BY <1>1, Invariant, PTL

-----------------------------------------------------------------------------
(* The refinement.                                                         *)

\* A new streamer is a run loop not yet started, its gate open.
LEMMA LoopInitially == Init => Loop!Init
  BY DEF Init, Loop!Init, placeOfLoop

\* Every step of the streamer is a step of the RunLoop or leaves it alone.
LEMMA LoopSteps ==
  ASSUME TypeOK, [Next]_vars
  PROVE  [Loop!Next]_(Loop!loopVars)
<1> DEFINE Goal == [Loop!Next]_(Loop!loopVars)
<1> USE DEF vars, gateVars, endVars, timerVars, paceVars, TypeOK, AtGate, placeOfLoop
<1> USE DEF Loop!Next, Loop!Start, Loop!SetPaused, Loop!Hold, Loop!Release, Loop!Exit
<1> USE DEF Loop!End, Loop!Cancel, Loop!loopVars
<1>1. ASSUME NEW c \in Callers, SetPausedTrue(c) PROVE Goal
  BY <1>1 DEF SetPausedTrue
<1>2. ASSUME NEW c \in Callers, SetPausedFalse(c) PROVE Goal
  BY <1>2 DEF SetPausedFalse, CallerAt
<1>3. ASSUME NEW c \in Callers, Wake(c) PROVE Goal
  BY <1>3 DEF Wake, CallerAt, Token
<1>4. ASSUME NEW c \in Callers, StopCancel(c) PROVE Goal
  BY <1>4 DEF StopCancel, CallerAt
<1>5. ASSUME NEW c \in Callers, StopClose(c) PROVE Goal
  BY <1>5 DEF StopClose, CallerAt
<1>6. ASSUME NEW c \in Callers, StopAgain(c) PROVE Goal
  BY <1>6 DEF StopAgain, CallerAt
<1>7. ASSUME NEW c \in Callers, StopJoin(c) PROVE Goal
  BY <1>7 DEF StopJoin, CallerAt, Done
<1>8. CASE CheckContext
  BY <1>8 DEF CheckContext, LoopAt
<1>9. CASE GateLoad
  BY <1>9 DEF GateLoad, LoopAt, GateShut
<1>10. CASE GateDrain
  BY <1>10 DEF GateDrain, LoopAt
<1>11. CASE GateLoop
  BY <1>11 DEF GateLoop, LoopAt, GateShut
<1>12. CASE GateWoken
  BY <1>12 DEF GateWoken, LoopAt
<1>13. CASE GateCancelled
  BY <1>13 DEF GateCancelled, LoopAt, Woken
<1>14. CASE GateReturn
  BY <1>14 DEF GateReturn, LoopAt
<1>15. CASE Pace
  BY <1>15 DEF Pace, LoopAt, Later, StallAt
<1>16. CASE Write
  BY <1>16 DEF Write
<1>17. CASE WriteFails
  BY <1>17 DEF WriteFails, LoopAt
<1>18. CASE FireEnd
  BY <1>18 DEF FireEnd, LoopAt
<1>19. CASE CloseDone
  BY <1>19 DEF CloseDone, LoopAt
<1>20. CASE Start
  BY <1>20 DEF Start, LoopAt
<1>21. CASE ReadSample
  BY <1>21 DEF ReadSample, LoopAt
<1>22. CASE ReadFails
  BY <1>22 DEF ReadFails, LoopAt
<1>23. CASE Sleep
  BY <1>23 DEF Sleep
<1>24. CASE StallFires
  BY <1>24 DEF StallFires, Expired
<1>25. CASE StallCloses
  BY <1>25 DEF StallCloses
<1>26. CASE Tick
  BY <1>26 DEF Tick
<1>27. CASE UNCHANGED vars
  BY <1>27 DEF vars
<1> QED
  BY <1>1, <1>2, <1>3, <1>4, <1>5, <1>6, <1>7, <1>8, <1>9, <1>10,
     <1>11, <1>12, <1>13, <1>14, <1>15, <1>16, <1>17, <1>18, <1>19,
     <1>20, <1>21, <1>22, <1>23, <1>24, <1>25, <1>26, <1>27
     DEF Next, Caller, LoopStep

\* The streamer is the run loop that its call relies on.
THEOREM RunLoopImplemented == Spec => ImplementsRunLoop
<1>1. TypeOK /\ [Next]_vars => [Loop!Next]_(Loop!loopVars)
  BY LoopSteps
<1> QED
  BY <1>1, LoopInitially, StreamerTypes, PTL DEF Spec, ImplementsRunLoop, Loop!Spec

=============================================================================
