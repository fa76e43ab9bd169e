--------------------------- MODULE GroupCallProofs ---------------------------
(***************************************************************************)
(* Theorems about GroupCall, for every set of goroutines, every source and *)
(* every bound.                                                            *)
(***************************************************************************)
EXTENDS GroupCall, TLAPS

-----------------------------------------------------------------------------
(* The invariant's parts.                                                  *)

\* Which operation may be at which place.
PlaceOK ==
  \A t \in Procs :
    /\ pc[t] = "idle" <=> op[t] = "none"
    /\ pc[t] = "lock" => op[t] \in Toggles \cup {"SeekBy", "SetSource", "Stop"}
    /\ pc[t] \in {"gate", "wait"} => op[t] = "SetSource"
    /\ pc[t] = "stop" => op[t] \in {"SetSource", "SeekBy", "Underflow", "Stop", "Down"}
    /\ pc[t] = "return" => op[t] \in {"SetSource", "SeekBy", "Stop"}

\* What a call in progress carries.
CallOK ==
  \A t \in Procs :
    /\ op[t] \notin {"none", "Down"} => call[t] \in 1 .. calls
    /\ op[t] = "SetSource" => callSrc[t] \in Sources
    /\ op[t] = "SeekBy" /\ pc[t] = "stop" => src \in Sources

\* g.mu is held by the goroutine that is stopping streamers, and by no other.
MutexOK == \A t \in Procs : pc[t] = "stop" <=> mu = t

\* The dispatcher's goroutine is in the API only inside a callback; what it
\* does in a tear-down counts as an operation of its own.
ReentryOK ==
  /\ dpc \notin {"callback", "downstop"} => pc[Disp] = "idle"
  /\ \A t \in Procs : op[t] = "Down" <=> (t = Disp /\ dpc = "downstop")
  /\ dpc = "downstop" => pc[Disp] = "stop"

Control == PlaceOK /\ CallOK /\ MutexOK /\ ReentryOK

-----------------------------------------------------------------------------
(* Type correctness.                                                       *)

\* Submit keeps a queue of closures, whichever closure it drops.
LEMMA SubmittedType ==
  ASSUME NEW q \in Seq(Closures), NEW f \in Closures
  PROVE  Submitted(q, f) \in Seq(Closures)
BY ConstantsAssumption DEF Submitted

\* The closures the code submits are closures.
LEMMA ClosureTypes ==
  /\ \A s \in Strs : EndFn(s) \in Closures
  /\ DownFn \in Closures
  /\ \A s \in NetStates : ConnFn(s) \in Closures
  /\ \A m \in MediaStates : UpgradeFn(m) \in Closures
BY DEF Closures, EndFn, DownFn, ConnFn, UpgradeFn

\* MediaState.VideoStopped is a Boolean whatever the call's legs.
LEMMA MediaStateType ==
  ASSUME NEW m \in BOOLEAN, NEW p \in BOOLEAN, NEW v
  PROVE  MediaState(m, p, v) \in MediaStates
BY DEF MediaState, MediaStates

\* A call that returns without having held g.mu keeps the invariant.
LEMMA EarlyReturnControl ==
  ASSUME TypeOK, Control, NEW t \in Procs, pc[t] \notin {"idle", "stop"},
         Return(t), UNCHANGED <<mu, dpc, src>>
  PROVE  Control'
<1> USE ConstantsAssumption DEF TypeOK, ProcTypes, LockTypes, DispTypes, Procs, Return
<1>1. PlaceOK' BY DEF Control, PlaceOK, Ops, Places
<1>2. CallOK' BY DEF Control, CallOK
<1>3. MutexOK' BY DEF Control, MutexOK
<1>4. ReentryOK' BY DEF Control, ReentryOK, PlaceOK
<1> QED BY <1>1, <1>2, <1>3, <1>4 DEF Control

\* Each action keeps the places, locals and the lock in agreement.
LEMMA ControlStep ==
  ASSUME TypeOK, Control, [Next]_vars
  PROVE  Control'
<1> USE ConstantsAssumption DEF TypeOK, ProcTypes, LockTypes, DispTypes, Procs
<1>1. ASSUME NEW t \in Procs, EnterOp(t) PROVE Control'
  BY <1>1 DEF EnterOp, Enter, MayCall, Toggles, Control, PlaceOK, CallOK,
    MutexOK, ReentryOK, lockVars, netVars, strVars, procVars, dispVars
<1>2. ASSUME NEW t \in Procs, SetSourceOpen(t) PROVE Control'
  BY <1>2 DEF SetSourceOpen, Enter, MayCall, MovedTo, SetMuted, StrsOf,
    Control, PlaceOK, CallOK, MutexOK, ReentryOK, lockVars, netVars, strVars,
    procVars, dispVars
<1>3. ASSUME NEW t \in Procs, StopEnter(t) PROVE Control'
  BY <1>3 DEF StopEnter, Enter, MayCall, Control, PlaceOK, CallOK, MutexOK,
    ReentryOK, lockVars, netVars, strVars, procVars, dispVars
<1>4. ASSUME NEW t \in Procs, Pause(t) PROVE Control'
  BY <1>4 DEF Pause, Locks, Return, SetPaused, fireUpgrade, Control, PlaceOK,
    CallOK, MutexOK, ReentryOK, lockVars, netVars, strVars, procVars, dispVars
<1>5. ASSUME NEW t \in Procs, Resume(t) PROVE Control'
  BY <1>5 DEF Resume, Locks, Return, SetPaused, SetMuted, Started, MovedTo,
    StrsOf, Install, startLocked, fireUpgrade, Control, PlaceOK, CallOK,
    MutexOK, ReentryOK, lockVars, netVars, strVars, procVars, dispVars
<1>6. ASSUME NEW t \in Procs, Mute(t) PROVE Control'
  BY <1>6 DEF Mute, Locks, Return, SetMuted, fireUpgrade, Control, PlaceOK,
    CallOK, MutexOK, ReentryOK, lockVars, netVars, strVars, procVars, dispVars
<1>7. ASSUME NEW t \in Procs, Unmute(t) PROVE Control'
  BY <1>7 DEF Unmute, Locks, Return, SetMuted, fireUpgrade, Control, PlaceOK,
    CallOK, MutexOK, ReentryOK, lockVars, netVars, strVars, procVars, dispVars
<1>8. ASSUME NEW t \in Procs, CancelStreamer(t) PROVE Control'
  BY <1>8 DEF CancelStreamer, StopNext, Control, PlaceOK, CallOK, MutexOK,
    ReentryOK, lockVars, netVars, strVars, procVars, dispVars
<1>9. ASSUME NEW t \in Procs, JoinStreamer(t) PROVE Control'
  BY <1>9 DEF JoinStreamer, StopNext, Control, PlaceOK, CallOK, MutexOK,
    ReentryOK, lockVars, netVars, strVars, procVars, dispVars
<1>10. ASSUME NEW t \in Procs, SetSourceGate(t) PROVE Control'
  <2>1. /\ pc[t] \in {"gate", "wait"} /\ UNCHANGED <<mu, lockVars, dispVars>>
        /\ GoTo(t, "lock") \/ GoTo(t, "wait") \/ Return(t)
    BY <1>10 DEF SetSourceGate, GiveUp
  <2>2. CASE GoTo(t, "lock") \/ GoTo(t, "wait")
    BY <2>1, <2>2 DEF GoTo, Control, PlaceOK, CallOK, MutexOK, ReentryOK, lockVars, dispVars
  <2>3. CASE Return(t)
    BY <2>1, <2>3, EarlyReturnControl DEF lockVars, dispVars
  <2> QED
    BY <2>1, <2>2, <2>3
<1>11. ASSUME NEW t \in Procs, SetSourceLock(t) PROVE Control'
  <2>1. /\ Locks(t, "SetSource") /\ UNCHANGED <<lockVars, dispVars>>
        /\ \/ Return(t) /\ UNCHANGED mu
           \/ GoTo(t, "stop") /\ mu' = t
    BY <1>11 DEF SetSourceLock, GiveUp
  <2>2. CASE Return(t) /\ UNCHANGED mu
    BY <2>1, <2>2, EarlyReturnControl DEF lockVars, dispVars, Locks
  <2>3. CASE GoTo(t, "stop") /\ mu' = t
    BY <2>1, <2>3 DEF Locks, GoTo, Control, PlaceOK, CallOK, MutexOK, ReentryOK, lockVars, dispVars
  <2> QED
    BY <2>1, <2>2, <2>3
<1>12. ASSUME NEW t \in Procs, SetSourceInstall(t) PROVE Control'
  BY <1>12 DEF SetSourceInstall, AllStopped, Started, MovedTo, StrsOf,
    SetPaused, Install, BuiltLegs, GoTo, Control, PlaceOK, CallOK, MutexOK,
    ReentryOK, lockVars, netVars, strVars, procVars, dispVars
<1>13. ASSUME NEW t \in Procs, SwitchDone(t) PROVE Control'
  BY <1>13 DEF SwitchDone, Return, Control, PlaceOK, CallOK, MutexOK,
    ReentryOK, lockVars, netVars, strVars, procVars, dispVars
<1>14. ASSUME NEW t \in Procs, SeekLock(t) PROVE Control'
  BY <1>14 DEF SeekLock, Locks, Return, Control, PlaceOK, CallOK, MutexOK,
    ReentryOK, lockVars, netVars, strVars, procVars, dispVars
<1>15. ASSUME NEW t \in Procs, SeekUnderflow(t) PROVE Control'
  BY <1>15 DEF SeekUnderflow, AllStopped, Return, Control, PlaceOK, CallOK,
    MutexOK, ReentryOK, lockVars, netVars, strVars, procVars, dispVars
<1>16. ASSUME NEW t \in Procs, SeekRestart(t) PROVE Control'
  BY <1>16 DEF SeekRestart, AllStopped, GoTo, SetPaused, SetMuted, Started,
    MovedTo, StrsOf, Install, startLocked, Control, PlaceOK, CallOK, MutexOK,
    ReentryOK, lockVars, netVars, strVars, procVars, dispVars
<1>17. ASSUME NEW t \in Procs, StopLock(t) PROVE Control'
  BY <1>17 DEF StopLock, Locks, GoTo, Control, PlaceOK, CallOK, MutexOK,
    ReentryOK, lockVars, netVars, strVars, procVars, dispVars
<1>18. ASSUME NEW t \in Procs, StopReset(t) PROVE Control'
  BY <1>18 DEF StopReset, AllStopped, GoTo, Control, PlaceOK, CallOK, MutexOK,
    ReentryOK, lockVars, netVars, strVars, procVars, dispVars
<1>19. ASSUME NEW t \in Procs, StopReturn(t) PROVE Control'
  BY <1>19 DEF StopReturn, Return, Reports, Control, PlaceOK, CallOK, MutexOK,
    ReentryOK, lockVars, netVars, strVars, procVars, dispVars
<1>20. ASSUME NEW s \in Strs, StreamerHold(s) PROVE Control'
  BY <1>20 DEF StreamerHold, Control, PlaceOK, CallOK, MutexOK, ReentryOK,
    lockVars, netVars, strVars, procVars, dispVars
<1>21. ASSUME NEW s \in Strs, StreamerRelease(s) PROVE Control'
  BY <1>21 DEF StreamerRelease, Control, PlaceOK, CallOK, MutexOK, ReentryOK,
    lockVars, netVars, strVars, procVars, dispVars
<1>22. ASSUME NEW s \in Strs, StreamerExit(s) PROVE Control'
  BY <1>22 DEF StreamerExit, Woken, Control, PlaceOK, CallOK, MutexOK,
    ReentryOK, lockVars, netVars, strVars, procVars, dispVars
<1>23. ASSUME NEW s \in Strs, StreamerEnding(s) PROVE Control'
  BY <1>23 DEF StreamerEnding, Control, PlaceOK, CallOK, MutexOK, ReentryOK,
    lockVars, netVars, strVars, procVars, dispVars
<1>24. ASSUME NEW s \in Strs, StreamerSubmit(s) PROVE Control'
  BY <1>24 DEF StreamerSubmit, Control, PlaceOK, CallOK, MutexOK, ReentryOK,
    lockVars, netVars, strVars, procVars, dispVars
<1>25. CASE Take
  BY <1>25 DEF Take, Control, PlaceOK, CallOK, MutexOK, ReentryOK, lockVars,
    netVars, strVars, procVars, dispVars
<1>26. CASE EndCheck
  BY <1>26 DEF EndCheck, Control, PlaceOK, CallOK, MutexOK, ReentryOK,
    lockVars, netVars, strVars, procVars, dispVars
<1>27. CASE EndLocked
  BY <1>27 DEF EndLocked, Stale, SiblingOf, Install, Control, PlaceOK, CallOK,
    MutexOK, ReentryOK, lockVars, netVars, strVars, procVars, dispVars
<1>28. CASE StopSibling
  BY <1>28 DEF StopSibling, Joined, Control, PlaceOK, CallOK, MutexOK,
    ReentryOK, lockVars, netVars, strVars, procVars, dispVars
<1>29. CASE CallbackReturn
  BY <1>29 DEF CallbackReturn, Control, PlaceOK, CallOK, MutexOK, ReentryOK,
    lockVars, netVars, strVars, procVars, dispVars
<1>30. CASE DownLock
  BY <1>30 DEF DownLock, Control, PlaceOK, CallOK, MutexOK, ReentryOK,
    lockVars, netVars, strVars, procVars, dispVars
<1>31. CASE DownDone
  BY <1>31 DEF DownDone, AllStopped, Return, Control, PlaceOK, CallOK,
    MutexOK, ReentryOK, lockVars, netVars, strVars, procVars, dispVars
<1>32. CASE NetChange
  BY <1>32 DEF NetChange, Reports, Control, PlaceOK, CallOK, MutexOK,
    ReentryOK, lockVars, netVars, strVars, procVars, dispVars
<1>33. CASE UNCHANGED vars
  BY <1>33 DEF vars, Control, PlaceOK, CallOK, MutexOK, ReentryOK, lockVars,
    netVars, strVars, procVars, dispVars
<1> QED
  BY <1>1, <1>2, <1>3, <1>4, <1>5, <1>6, <1>7, <1>8, <1>9, <1>10, <1>11,
    <1>12, <1>13, <1>14, <1>15, <1>16, <1>17, <1>18, <1>19, <1>20, <1>21,
    <1>22, <1>23, <1>24, <1>25, <1>26, <1>27, <1>28, <1>29, <1>30, <1>31,
    <1>32, <1>33 DEF Next, Continue, Streamer, Dispatcher

\* SetPaused on some streamers leaves a Boolean gate for each.
LEMMA SetPausedType ==
  ASSUME StrTypes, NEW S, NEW b \in BOOLEAN
  PROVE  SetPaused(S, b) \in [Strs -> BOOLEAN]
BY DEF StrTypes, SetPaused

\* SetMuted on some streamers leaves a Boolean for each.
LEMMA SetMutedType ==
  ASSUME StrTypes, NEW S, NEW b \in BOOLEAN
  PROVE  SetMuted(S, b) \in [Strs -> BOOLEAN]
BY DEF StrTypes, SetMuted

\* Starting some streamers leaves every streamer at a place of its run loop.
LEMMA StartedType ==
  ASSUME StrTypes, NEW S, NEW b \in BOOLEAN
  PROVE  Started(S, b) \in [Strs -> {"none", "built", "run", "held", "ending",
                                     "submit", "done"}]
BY DEF StrTypes, MovedTo, Started

\* startLocked keeps the types of the fields and of the streamers it touches.
LEMMA StartLockedTypes ==
  ASSUME LockTypes, StrTypes,
         NEW c \in Cycles, NEW legs \in SUBSET Legs, NEW p \in BOOLEAN,
         NEW kept \in Cycles \cup {None}, NEW stillOpen \in SUBSET Cycles,
         startLocked(c, legs, p, kept, stillOpen)
  PROVE  /\ cur' \in [Legs -> Cycles \cup {None}] /\ streams' \in Cycles \cup {None}
         /\ endedOnce' \in BOOLEAN /\ had' \in SUBSET Legs
         /\ StrTypes'
<1>1. CASE legs # {}
  <2>1. /\ cur' = Install(c, legs) /\ streams' = c /\ open' = stillOpen \cup {c}
        /\ strPc' = Started(StrsOf(c, legs), p)
        /\ gate' = SetPaused(StrsOf(c, legs), p)
        /\ strMuted' = SetMuted(StrsOf(c, legs \cap {"audio"}), muted)
        /\ endedOnce' = FALSE /\ had' = legs /\ cancelled' = cancelled
    BY <1>1 DEF startLocked
  <2>2. muted \in BOOLEAN
    BY DEF LockTypes
  <2>3. /\ strPc' \in [Strs -> {"none", "built", "run", "held", "ending", "submit", "done"}]
        /\ gate' \in [Strs -> BOOLEAN] /\ strMuted' \in [Strs -> BOOLEAN]
    BY <2>1, <2>2, SetPausedType, SetMutedType, StartedType
  <2>4. StrTypes'
    BY <2>1, <2>3 DEF StrTypes
  <2> QED
    BY <2>1, <2>4 DEF Install
<1>2. CASE legs = {}
  BY <1>2 DEF startLocked, StrTypes, LockTypes, strVars
<1> QED
  BY <1>1, <1>2

\* The cycle a goroutine at the lock or in its section may open.
LEMMA CallTypes ==
  ASSUME ProcTypes, Control, NEW t \in Procs, op[t] \notin {"none", "Down"}
  PROVE  call[t] \in Cycles
BY ConstantsAssumption DEF ProcTypes, Control, CallOK, Cycles

\* A source opens with audio, video, both or neither.
LEMMA OutcomeTypes ==
  ASSUME NEW s \in Sources, NEW legs \in Outcomes[s]
  PROVE  legs \in SUBSET Legs
BY ConstantsAssumption

\* The source Resume and SeekBy reopen exists.
LEMMA ResumeStarts ==
  ASSUME TypeOK, Control, NEW t \in Procs, Resume(t), src # Nil,
         NEW legs \in Outcomes[src], startLocked(call[t], legs, FALSE, streams, open)
  PROVE  /\ cur' \in [Legs -> Cycles \cup {None}] /\ streams' \in Cycles \cup {None}
         /\ endedOnce' \in BOOLEAN /\ had' \in SUBSET Legs
         /\ StrTypes'
<1>1. call[t] \in Cycles
  BY CallTypes DEF TypeOK, Resume, Locks
<1>2. legs \in SUBSET Legs
  BY OutcomeTypes DEF TypeOK, LockTypes
<1>3. streams \in Cycles \cup {None} /\ open \in SUBSET Cycles
  BY DEF TypeOK, LockTypes, StrTypes
<1> QED
  BY <1>1, <1>2, <1>3, StartLockedTypes DEF TypeOK

\* SeekBy, restarting, keeps the types of what it touches.
LEMMA SeekRestarts ==
  ASSUME TypeOK, Control, NEW t \in Procs, SeekRestart(t)
  PROVE  /\ cur' \in [Legs -> Cycles \cup {None}] /\ streams' \in Cycles \cup {None}
         /\ endedOnce' \in BOOLEAN /\ had' \in SUBSET Legs
         /\ StrTypes'
<1>1. call[t] \in Cycles
  BY CallTypes DEF TypeOK, SeekRestart, AllStopped
<1>2. src \in Sources
  BY DEF SeekRestart, AllStopped, Control, CallOK
<1>3. PICK legs \in Outcomes[src] : startLocked(call[t], legs, paused, None, open \ {streams})
  BY DEF SeekRestart
<1>4. legs \in SUBSET Legs
  BY <1>2, OutcomeTypes
<1>5. paused \in BOOLEAN /\ open \ {streams} \in SUBSET Cycles
  BY DEF TypeOK, LockTypes, StrTypes
<1> QED
  BY <1>1, <1>3, <1>4, <1>5, StartLockedTypes DEF TypeOK

\* The fields under g.mu keep their types.
LEMMA LockTypesStep ==
  ASSUME TypeOK, LockTypes, StrTypes, ProcTypes, Control, [Next]_vars
  PROVE  LockTypes'
<1>1. ASSUME NEW t \in Procs, EnterOp(t) PROVE LockTypes'
  BY <1>1 DEF EnterOp, LockTypes, lockVars, netVars, strVars, procVars,
    dispVars
<1>2. ASSUME NEW t \in Procs, SetSourceOpen(t) PROVE LockTypes'
  BY <1>2 DEF SetSourceOpen, LockTypes, lockVars, netVars, strVars, procVars,
    dispVars
<1>3. ASSUME NEW t \in Procs, StopEnter(t) PROVE LockTypes'
  BY <1>3 DEF StopEnter, LockTypes, lockVars, netVars, strVars, procVars,
    dispVars
<1>4. ASSUME NEW t \in Procs, Pause(t) PROVE LockTypes'
  BY <1>4 DEF Pause, LockTypes, lockVars, netVars, strVars, procVars, dispVars
<1>5. ASSUME NEW t \in Procs, Resume(t) PROVE LockTypes'
  <2>1. ASSUME src # Nil,
               NEW legs \in Outcomes[src], startLocked(call[t], legs, FALSE, streams, open)
        PROVE  LockTypes'
    <3>1. UNCHANGED <<mu, src, muted>> /\ paused' \in {paused, FALSE}
      BY <1>5 DEF Resume, lockVars
    <3> QED
      BY <1>5, <2>1, <3>1, ResumeStarts DEF LockTypes
  <2>2. CASE UNCHANGED <<lockVars, strVars, open>>
    BY <2>2, <1>5 DEF Resume, LockTypes, lockVars
  <2>3. CASE paused' = FALSE /\ UNCHANGED <<src, cur, streams, muted, endedOnce, had>>
    BY <2>3, <1>5 DEF Resume, LockTypes
  <2> QED
    BY <1>5, <2>1, <2>2, <2>3 DEF Resume
<1>6. ASSUME NEW t \in Procs, Mute(t) PROVE LockTypes'
  BY <1>6 DEF Mute, LockTypes, lockVars, netVars, strVars, procVars, dispVars
<1>7. ASSUME NEW t \in Procs, Unmute(t) PROVE LockTypes'
  BY <1>7 DEF Unmute, LockTypes, lockVars, netVars, strVars, procVars,
    dispVars
<1>8. ASSUME NEW t \in Procs, CancelStreamer(t) PROVE LockTypes'
  BY <1>8 DEF CancelStreamer, LockTypes, lockVars, netVars, strVars, procVars,
    dispVars
<1>9. ASSUME NEW t \in Procs, JoinStreamer(t) PROVE LockTypes'
  BY <1>9 DEF JoinStreamer, StopNext, Legs, LockTypes, lockVars, netVars,
    strVars, procVars, dispVars
<1>10. ASSUME NEW t \in Procs, SetSourceGate(t) PROVE LockTypes'
  BY <1>10 DEF SetSourceGate, LockTypes, lockVars, netVars, strVars, procVars,
    dispVars
<1>11. ASSUME NEW t \in Procs, SetSourceLock(t) PROVE LockTypes'
  BY <1>11 DEF SetSourceLock, Procs, LockTypes, lockVars, netVars, strVars,
    procVars, dispVars
<1>12. ASSUME NEW t \in Procs, SetSourceInstall(t) PROVE LockTypes'
  <2>1. call[t] \in Cycles /\ callSrc[t] \in Sources
    BY <1>12, CallTypes DEF SetSourceInstall, AllStopped, Control, CallOK
  <2>2. BuiltLegs(call[t]) \in SUBSET Legs
    BY DEF BuiltLegs
  <2> QED
    BY <1>12, <2>1, <2>2 DEF SetSourceInstall, LockTypes, Install
<1>13. ASSUME NEW t \in Procs, SwitchDone(t) PROVE LockTypes'
  BY <1>13 DEF SwitchDone, LockTypes, lockVars, netVars, strVars, procVars,
    dispVars
<1>14. ASSUME NEW t \in Procs, SeekLock(t) PROVE LockTypes'
  BY <1>14 DEF SeekLock, Procs, LockTypes, lockVars, netVars, strVars,
    procVars, dispVars
<1>15. ASSUME NEW t \in Procs, SeekUnderflow(t) PROVE LockTypes'
  BY <1>15 DEF SeekUnderflow, LockTypes, lockVars, netVars, strVars, procVars,
    dispVars
<1>16. ASSUME NEW t \in Procs, SeekRestart(t) PROVE LockTypes'
  BY <1>16, SeekRestarts DEF SeekRestart, LockTypes
<1>17. ASSUME NEW t \in Procs, StopLock(t) PROVE LockTypes'
  BY <1>17 DEF StopLock, LockTypes, lockVars, netVars, strVars, procVars,
    dispVars
<1>18. ASSUME NEW t \in Procs, StopReset(t) PROVE LockTypes'
  BY <1>18 DEF StopReset, LockTypes, lockVars, netVars, strVars, procVars,
    dispVars
<1>19. ASSUME NEW t \in Procs, StopReturn(t) PROVE LockTypes'
  BY <1>19 DEF StopReturn, LockTypes, lockVars, netVars, strVars, procVars,
    dispVars
<1>20. ASSUME NEW s \in Strs, StreamerHold(s) PROVE LockTypes'
  BY <1>20 DEF StreamerHold, LockTypes, lockVars, netVars, strVars, procVars,
    dispVars
<1>21. ASSUME NEW s \in Strs, StreamerRelease(s) PROVE LockTypes'
  BY <1>21 DEF StreamerRelease, LockTypes, lockVars, netVars, strVars,
    procVars, dispVars
<1>22. ASSUME NEW s \in Strs, StreamerExit(s) PROVE LockTypes'
  BY <1>22 DEF StreamerExit, LockTypes, lockVars, netVars, strVars, procVars,
    dispVars
<1>23. ASSUME NEW s \in Strs, StreamerEnding(s) PROVE LockTypes'
  BY <1>23 DEF StreamerEnding, LockTypes, lockVars, netVars, strVars,
    procVars, dispVars
<1>24. ASSUME NEW s \in Strs, StreamerSubmit(s) PROVE LockTypes'
  BY <1>24 DEF StreamerSubmit, LockTypes, lockVars, netVars, strVars,
    procVars, dispVars
<1>25. CASE Take
  BY <1>25 DEF Take, LockTypes, lockVars, netVars, strVars, procVars, dispVars
<1>26. CASE EndCheck
  BY <1>26 DEF EndCheck, LockTypes, lockVars, netVars, strVars, procVars,
    dispVars
<1>27. CASE EndLocked
  BY <1>27 DEF EndLocked, Install, LockTypes, lockVars, netVars, strVars,
    procVars, dispVars
<1>28. CASE StopSibling
  BY <1>28 DEF StopSibling, LockTypes, lockVars, netVars, strVars, procVars,
    dispVars
<1>29. CASE CallbackReturn
  BY <1>29 DEF CallbackReturn, LockTypes, lockVars, netVars, strVars,
    procVars, dispVars
<1>30. CASE DownLock
  BY <1>30 DEF DownLock, Procs, LockTypes, lockVars, netVars, strVars,
    procVars, dispVars
<1>31. CASE DownDone
  BY <1>31 DEF DownDone, LockTypes, lockVars, netVars, strVars, procVars,
    dispVars
<1>32. CASE NetChange
  BY <1>32 DEF NetChange, LockTypes, lockVars, netVars, strVars, procVars,
    dispVars
<1>33. CASE UNCHANGED vars
  BY <1>33 DEF vars, LockTypes, lockVars, netVars, strVars, procVars, dispVars
<1> QED
  BY <1>1, <1>2, <1>3, <1>4, <1>5, <1>6, <1>7, <1>8, <1>9, <1>10, <1>11,
    <1>12, <1>13, <1>14, <1>15, <1>16, <1>17, <1>18, <1>19, <1>20, <1>21,
    <1>22, <1>23, <1>24, <1>25, <1>26, <1>27, <1>28, <1>29, <1>30, <1>31,
    <1>32, <1>33 DEF Next, Continue, Streamer, Dispatcher

\* The atomics and the connection state keep their types.
LEMMA FlagTypesStep ==
  ASSUME FlagTypes, [Next]_vars
  PROVE  FlagTypes'
<1>1. ASSUME NEW t \in Procs, EnterOp(t) PROVE FlagTypes'
  BY <1>1 DEF EnterOp, FlagTypes, lockVars, netVars, strVars, procVars,
    dispVars
<1>2. ASSUME NEW t \in Procs, SetSourceOpen(t) PROVE FlagTypes'
  BY <1>2 DEF SetSourceOpen, FlagTypes, lockVars, netVars, strVars, procVars,
    dispVars
<1>3. ASSUME NEW t \in Procs, StopEnter(t) PROVE FlagTypes'
  BY <1>3 DEF StopEnter, FlagTypes, lockVars, netVars, strVars, procVars,
    dispVars
<1>4. ASSUME NEW t \in Procs, Pause(t) PROVE FlagTypes'
  BY <1>4 DEF Pause, FlagTypes, lockVars, netVars, strVars, procVars, dispVars
<1>5. ASSUME NEW t \in Procs, Resume(t) PROVE FlagTypes'
  BY <1>5 DEF Resume, FlagTypes, lockVars, netVars, strVars, procVars,
    dispVars
<1>6. ASSUME NEW t \in Procs, Mute(t) PROVE FlagTypes'
  BY <1>6 DEF Mute, FlagTypes, lockVars, netVars, strVars, procVars, dispVars
<1>7. ASSUME NEW t \in Procs, Unmute(t) PROVE FlagTypes'
  BY <1>7 DEF Unmute, FlagTypes, lockVars, netVars, strVars, procVars,
    dispVars
<1>8. ASSUME NEW t \in Procs, CancelStreamer(t) PROVE FlagTypes'
  BY <1>8 DEF CancelStreamer, FlagTypes, lockVars, netVars, strVars, procVars,
    dispVars
<1>9. ASSUME NEW t \in Procs, JoinStreamer(t) PROVE FlagTypes'
  BY <1>9 DEF JoinStreamer, FlagTypes, lockVars, netVars, strVars, procVars,
    dispVars
<1>10. ASSUME NEW t \in Procs, SetSourceGate(t) PROVE FlagTypes'
  BY <1>10 DEF SetSourceGate, FlagTypes, lockVars, netVars, strVars, procVars,
    dispVars
<1>11. ASSUME NEW t \in Procs, SetSourceLock(t) PROVE FlagTypes'
  BY <1>11 DEF SetSourceLock, FlagTypes, lockVars, netVars, strVars, procVars,
    dispVars
<1>12. ASSUME NEW t \in Procs, SetSourceInstall(t) PROVE FlagTypes'
  BY <1>12 DEF SetSourceInstall, FlagTypes, lockVars, netVars, strVars,
    procVars, dispVars
<1>13. ASSUME NEW t \in Procs, SwitchDone(t) PROVE FlagTypes'
  BY <1>13 DEF SwitchDone, FlagTypes, lockVars, netVars, strVars, procVars,
    dispVars
<1>14. ASSUME NEW t \in Procs, SeekLock(t) PROVE FlagTypes'
  BY <1>14 DEF SeekLock, FlagTypes, lockVars, netVars, strVars, procVars,
    dispVars
<1>15. ASSUME NEW t \in Procs, SeekUnderflow(t) PROVE FlagTypes'
  BY <1>15 DEF SeekUnderflow, FlagTypes, lockVars, netVars, strVars, procVars,
    dispVars
<1>16. ASSUME NEW t \in Procs, SeekRestart(t) PROVE FlagTypes'
  BY <1>16 DEF SeekRestart, FlagTypes, lockVars, netVars, strVars, procVars,
    dispVars
<1>17. ASSUME NEW t \in Procs, StopLock(t) PROVE FlagTypes'
  BY <1>17 DEF StopLock, FlagTypes, lockVars, netVars, strVars, procVars,
    dispVars
<1>18. ASSUME NEW t \in Procs, StopReset(t) PROVE FlagTypes'
  BY <1>18 DEF StopReset, FlagTypes, lockVars, netVars, strVars, procVars,
    dispVars
<1>19. ASSUME NEW t \in Procs, StopReturn(t) PROVE FlagTypes'
  BY <1>19 DEF StopReturn, Reports, NetStates, FlagTypes, lockVars, netVars,
    strVars, procVars, dispVars
<1>20. ASSUME NEW s \in Strs, StreamerHold(s) PROVE FlagTypes'
  BY <1>20 DEF StreamerHold, FlagTypes, lockVars, netVars, strVars, procVars,
    dispVars
<1>21. ASSUME NEW s \in Strs, StreamerRelease(s) PROVE FlagTypes'
  BY <1>21 DEF StreamerRelease, FlagTypes, lockVars, netVars, strVars,
    procVars, dispVars
<1>22. ASSUME NEW s \in Strs, StreamerExit(s) PROVE FlagTypes'
  BY <1>22 DEF StreamerExit, FlagTypes, lockVars, netVars, strVars, procVars,
    dispVars
<1>23. ASSUME NEW s \in Strs, StreamerEnding(s) PROVE FlagTypes'
  BY <1>23 DEF StreamerEnding, FlagTypes, lockVars, netVars, strVars,
    procVars, dispVars
<1>24. ASSUME NEW s \in Strs, StreamerSubmit(s) PROVE FlagTypes'
  BY <1>24 DEF StreamerSubmit, FlagTypes, lockVars, netVars, strVars,
    procVars, dispVars
<1>25. CASE Take
  BY <1>25 DEF Take, FlagTypes, lockVars, netVars, strVars, procVars, dispVars
<1>26. CASE EndCheck
  BY <1>26 DEF EndCheck, FlagTypes, lockVars, netVars, strVars, procVars,
    dispVars
<1>27. CASE EndLocked
  BY <1>27 DEF EndLocked, FlagTypes, lockVars, netVars, strVars, procVars,
    dispVars
<1>28. CASE StopSibling
  BY <1>28 DEF StopSibling, FlagTypes, lockVars, netVars, strVars, procVars,
    dispVars
<1>29. CASE CallbackReturn
  BY <1>29 DEF CallbackReturn, FlagTypes, lockVars, netVars, strVars,
    procVars, dispVars
<1>30. CASE DownLock
  BY <1>30 DEF DownLock, FlagTypes, lockVars, netVars, strVars, procVars,
    dispVars
<1>31. CASE DownDone
  BY <1>31 DEF DownDone, FlagTypes, lockVars, netVars, strVars, procVars,
    dispVars
<1>32. CASE NetChange
  BY <1>32, ConstantsAssumption DEF NetChange, Reports, NetStates, FlagTypes,
    lockVars, netVars, strVars, procVars, dispVars
<1>33. CASE UNCHANGED vars
  BY <1>33 DEF vars, FlagTypes, lockVars, netVars, strVars, procVars, dispVars
<1> QED
  BY <1>1, <1>2, <1>3, <1>4, <1>5, <1>6, <1>7, <1>8, <1>9, <1>10, <1>11,
    <1>12, <1>13, <1>14, <1>15, <1>16, <1>17, <1>18, <1>19, <1>20, <1>21,
    <1>22, <1>23, <1>24, <1>25, <1>26, <1>27, <1>28, <1>29, <1>30, <1>31,
    <1>32, <1>33 DEF Next, Continue, Streamer, Dispatcher

\* The streamers' variables keep their types.
LEMMA StrTypesStep ==
  ASSUME TypeOK, LockTypes, StrTypes, ProcTypes, Control, [Next]_vars
  PROVE  StrTypes'
<1>1. ASSUME NEW t \in Procs, EnterOp(t) PROVE StrTypes'
  BY <1>1 DEF EnterOp, StrTypes, lockVars, netVars, strVars, procVars,
    dispVars
<1>2. ASSUME NEW t \in Procs, SetSourceOpen(t) PROVE StrTypes'
  <2>1. calls + 1 \in Cycles /\ muted \in BOOLEAN
    BY <1>2, ConstantsAssumption DEF SetSourceOpen, Enter, MayCall, ProcTypes, LockTypes, Cycles
  <2> QED
    BY <1>2, <2>1 DEF SetSourceOpen, StrTypes, MovedTo, SetMuted
<1>3. ASSUME NEW t \in Procs, StopEnter(t) PROVE StrTypes'
  BY <1>3 DEF StopEnter, StrTypes, lockVars, netVars, strVars, procVars,
    dispVars
<1>4. ASSUME NEW t \in Procs, Pause(t) PROVE StrTypes'
  BY <1>4 DEF Pause, SetPaused, StrTypes, lockVars, netVars, strVars,
    procVars, dispVars
<1>5. ASSUME NEW t \in Procs, Resume(t) PROVE StrTypes'
  <2>1. ASSUME src # Nil,
               NEW legs \in Outcomes[src], startLocked(call[t], legs, FALSE, streams, open)
        PROVE  StrTypes'
    BY <1>5, <2>1, ResumeStarts
  <2>2. CASE UNCHANGED <<lockVars, strVars, open>>
    BY <2>2 DEF StrTypes, strVars
  <2>3. CASE gate' = SetPaused(Installed, FALSE) /\ UNCHANGED <<strPc, strMuted, cancelled, open>>
    BY <2>3, SetPausedType DEF StrTypes
  <2> QED
    BY <1>5, <2>1, <2>2, <2>3 DEF Resume
<1>6. ASSUME NEW t \in Procs, Mute(t) PROVE StrTypes'
  BY <1>6 DEF Mute, SetMuted, StrTypes, lockVars, netVars, strVars, procVars,
    dispVars
<1>7. ASSUME NEW t \in Procs, Unmute(t) PROVE StrTypes'
  BY <1>7 DEF Unmute, SetMuted, StrTypes, lockVars, netVars, strVars,
    procVars, dispVars
<1>8. ASSUME NEW t \in Procs, CancelStreamer(t) PROVE StrTypes'
  <2>1. <<cur[StopNext], StopNext>> \in Strs
    BY <1>8 DEF CancelStreamer, StopNext, Installed, LockTypes, Strs, Legs, None
  <2> QED
    BY <1>8, <2>1 DEF CancelStreamer, StrTypes
<1>9. ASSUME NEW t \in Procs, JoinStreamer(t) PROVE StrTypes'
  BY <1>9 DEF JoinStreamer, StrTypes, lockVars, netVars, strVars, procVars,
    dispVars
<1>10. ASSUME NEW t \in Procs, SetSourceGate(t) PROVE StrTypes'
  BY <1>10 DEF SetSourceGate, GiveUp, StrTypes, lockVars, netVars, strVars,
    procVars, dispVars
<1>11. ASSUME NEW t \in Procs, SetSourceLock(t) PROVE StrTypes'
  BY <1>11 DEF SetSourceLock, GiveUp, StrTypes, lockVars, netVars, strVars,
    procVars, dispVars
<1>12. ASSUME NEW t \in Procs, SetSourceInstall(t) PROVE StrTypes'
  <2>1. paused \in BOOLEAN
    BY DEF LockTypes
  <2> QED
    BY <1>12, <2>1, SetPausedType, StartedType DEF SetSourceInstall, StrTypes
<1>13. ASSUME NEW t \in Procs, SwitchDone(t) PROVE StrTypes'
  BY <1>13 DEF SwitchDone, StrTypes, lockVars, netVars, strVars, procVars,
    dispVars
<1>14. ASSUME NEW t \in Procs, SeekLock(t) PROVE StrTypes'
  BY <1>14 DEF SeekLock, StrTypes, lockVars, netVars, strVars, procVars,
    dispVars
<1>15. ASSUME NEW t \in Procs, SeekUnderflow(t) PROVE StrTypes'
  BY <1>15 DEF SeekUnderflow, StrTypes, lockVars, netVars, strVars, procVars,
    dispVars
<1>16. ASSUME NEW t \in Procs, SeekRestart(t) PROVE StrTypes'
  BY <1>16, SeekRestarts
<1>17. ASSUME NEW t \in Procs, StopLock(t) PROVE StrTypes'
  BY <1>17 DEF StopLock, StrTypes, lockVars, netVars, strVars, procVars,
    dispVars
<1>18. ASSUME NEW t \in Procs, StopReset(t) PROVE StrTypes'
  BY <1>18 DEF StopReset, StrTypes, lockVars, netVars, strVars, procVars,
    dispVars
<1>19. ASSUME NEW t \in Procs, StopReturn(t) PROVE StrTypes'
  BY <1>19 DEF StopReturn, StrTypes, lockVars, netVars, strVars, procVars,
    dispVars
<1>20. ASSUME NEW s \in Strs, StreamerHold(s) PROVE StrTypes'
  BY <1>20 DEF StreamerHold, StrTypes, lockVars, netVars, strVars, procVars,
    dispVars
<1>21. ASSUME NEW s \in Strs, StreamerRelease(s) PROVE StrTypes'
  BY <1>21 DEF StreamerRelease, StrTypes, lockVars, netVars, strVars,
    procVars, dispVars
<1>22. ASSUME NEW s \in Strs, StreamerExit(s) PROVE StrTypes'
  BY <1>22 DEF StreamerExit, StrTypes, lockVars, netVars, strVars, procVars,
    dispVars
<1>23. ASSUME NEW s \in Strs, StreamerEnding(s) PROVE StrTypes'
  BY <1>23 DEF StreamerEnding, StrTypes, lockVars, netVars, strVars, procVars,
    dispVars
<1>24. ASSUME NEW s \in Strs, StreamerSubmit(s) PROVE StrTypes'
  BY <1>24 DEF StreamerSubmit, StrTypes, lockVars, netVars, strVars, procVars,
    dispVars
<1>25. CASE Take
  BY <1>25 DEF Take, StrTypes, lockVars, netVars, strVars, procVars, dispVars
<1>26. CASE EndCheck
  BY <1>26 DEF EndCheck, StrTypes, lockVars, netVars, strVars, procVars,
    dispVars
<1>27. CASE EndLocked
  BY <1>27 DEF EndLocked, StrTypes, lockVars, netVars, strVars, procVars,
    dispVars
<1>28. CASE StopSibling
  <2>1. sibling \in SUBSET Strs
    BY DEF TypeOK, DispTypes
  <2> QED
    BY <1>28, <2>1 DEF StopSibling, StrTypes
<1>29. CASE CallbackReturn
  BY <1>29 DEF CallbackReturn, StrTypes, lockVars, netVars, strVars, procVars,
    dispVars
<1>30. CASE DownLock
  BY <1>30 DEF DownLock, StrTypes, lockVars, netVars, strVars, procVars,
    dispVars
<1>31. CASE DownDone
  BY <1>31 DEF DownDone, StrTypes, lockVars, netVars, strVars, procVars,
    dispVars
<1>32. CASE NetChange
  BY <1>32 DEF NetChange, StrTypes, lockVars, netVars, strVars, procVars,
    dispVars
<1>33. CASE UNCHANGED vars
  BY <1>33 DEF vars, StrTypes, lockVars, netVars, strVars, procVars, dispVars
<1> QED
  BY <1>1, <1>2, <1>3, <1>4, <1>5, <1>6, <1>7, <1>8, <1>9, <1>10, <1>11,
    <1>12, <1>13, <1>14, <1>15, <1>16, <1>17, <1>18, <1>19, <1>20, <1>21,
    <1>22, <1>23, <1>24, <1>25, <1>26, <1>27, <1>28, <1>29, <1>30, <1>31,
    <1>32, <1>33 DEF Next, Continue, Streamer, Dispatcher

\* The goroutines' places and locals keep their types.
LEMMA ProcTypesStep ==
  ASSUME TypeOK, LockTypes, StrTypes, ProcTypes, Control, [Next]_vars
  PROVE  ProcTypes'
<1>1. ASSUME NEW t \in Procs, EnterOp(t) PROVE ProcTypes'
  <2>1. PICK o \in Toggles \cup {"SeekBy"} : Enter(t, o, "lock")
    BY <1>1 DEF EnterOp
  <2>2. calls + 1 \in Cycles /\ calls + 1 \in 0 .. MaxCalls
    BY <2>1, ConstantsAssumption DEF Enter, MayCall, ProcTypes, Cycles
  <2> QED
    BY <1>1, <2>1, <2>2 DEF EnterOp, Enter, ProcTypes, Toggles, Ops, Places
<1>2. ASSUME NEW t \in Procs, SetSourceOpen(t) PROVE ProcTypes'
  <2>1. PICK s \in Sources : callSrc' = [callSrc EXCEPT ![t] = s]
    BY <1>2 DEF SetSourceOpen
  <2>2. Enter(t, "SetSource", "gate")
    BY <1>2 DEF SetSourceOpen
  <2>3. calls + 1 \in Cycles /\ calls + 1 \in 0 .. MaxCalls
    BY <2>2, ConstantsAssumption DEF Enter, MayCall, ProcTypes, Cycles
  <2> QED
    BY <2>1, <2>2, <2>3 DEF Enter, ProcTypes, Ops, Places
<1>3. ASSUME NEW t \in Procs, StopEnter(t) PROVE ProcTypes'
  <2>1. calls + 1 \in Cycles /\ calls + 1 \in 0 .. MaxCalls
    BY <1>3, ConstantsAssumption DEF StopEnter, Enter, MayCall, ProcTypes, Cycles
  <2> QED
    BY <1>3, <2>1 DEF StopEnter, Enter, ProcTypes, Ops, Places
<1>4. ASSUME NEW t \in Procs, Pause(t) PROVE ProcTypes'
  BY <1>4 DEF Pause, Return, Ops, Places, ProcTypes, lockVars, netVars,
    strVars, procVars, dispVars
<1>5. ASSUME NEW t \in Procs, Resume(t) PROVE ProcTypes'
  BY <1>5 DEF Resume, Return, Ops, Places, ProcTypes, lockVars, netVars,
    strVars, procVars, dispVars
<1>6. ASSUME NEW t \in Procs, Mute(t) PROVE ProcTypes'
  BY <1>6 DEF Mute, Return, Ops, Places, ProcTypes, lockVars, netVars,
    strVars, procVars, dispVars
<1>7. ASSUME NEW t \in Procs, Unmute(t) PROVE ProcTypes'
  BY <1>7 DEF Unmute, Return, Ops, Places, ProcTypes, lockVars, netVars,
    strVars, procVars, dispVars
<1>8. ASSUME NEW t \in Procs, CancelStreamer(t) PROVE ProcTypes'
  BY <1>8 DEF CancelStreamer, ProcTypes, lockVars, netVars, strVars, procVars,
    dispVars
<1>9. ASSUME NEW t \in Procs, JoinStreamer(t) PROVE ProcTypes'
  BY <1>9 DEF JoinStreamer, ProcTypes, lockVars, netVars, strVars, procVars,
    dispVars
<1>10. ASSUME NEW t \in Procs, SetSourceGate(t) PROVE ProcTypes'
  <2>1. Return(t) \/ GoTo(t, "lock") \/ GoTo(t, "wait")
    BY <1>10 DEF SetSourceGate, GiveUp
  <2> QED
    BY <2>1 DEF Return, GoTo, ProcTypes, Places, Ops
<1>11. ASSUME NEW t \in Procs, SetSourceLock(t) PROVE ProcTypes'
  <2>1. Return(t) \/ GoTo(t, "stop")
    BY <1>11 DEF SetSourceLock, GiveUp
  <2> QED
    BY <2>1 DEF Return, GoTo, ProcTypes, Places, Ops
<1>12. ASSUME NEW t \in Procs, SetSourceInstall(t) PROVE ProcTypes'
  BY <1>12 DEF SetSourceInstall, GoTo, Ops, Places, ProcTypes, lockVars,
    netVars, strVars, procVars, dispVars
<1>13. ASSUME NEW t \in Procs, SwitchDone(t) PROVE ProcTypes'
  BY <1>13 DEF SwitchDone, Return, Ops, Places, ProcTypes, lockVars, netVars,
    strVars, procVars, dispVars
<1>14. ASSUME NEW t \in Procs, SeekLock(t) PROVE ProcTypes'
  <2>1. CASE Return(t)
    BY <2>1 DEF Return, ProcTypes, Places, Ops
  <2>2. CASE /\ pc' = [pc EXCEPT ![t] = "stop"]
             /\ op' = op \/ op' = [op EXCEPT ![t] = "Underflow"]
             /\ UNCHANGED <<calls, call, callSrc>>
    BY <2>2 DEF ProcTypes, Places, Ops
  <2> QED
    BY <1>14, <2>1, <2>2 DEF SeekLock
<1>15. ASSUME NEW t \in Procs, SeekUnderflow(t) PROVE ProcTypes'
  BY <1>15 DEF SeekUnderflow, Return, Ops, Places, ProcTypes, lockVars,
    netVars, strVars, procVars, dispVars
<1>16. ASSUME NEW t \in Procs, SeekRestart(t) PROVE ProcTypes'
  BY <1>16 DEF SeekRestart, GoTo, Ops, Places, ProcTypes, lockVars, netVars,
    strVars, procVars, dispVars
<1>17. ASSUME NEW t \in Procs, StopLock(t) PROVE ProcTypes'
  BY <1>17 DEF StopLock, GoTo, Ops, Places, ProcTypes, lockVars, netVars,
    strVars, procVars, dispVars
<1>18. ASSUME NEW t \in Procs, StopReset(t) PROVE ProcTypes'
  BY <1>18 DEF StopReset, GoTo, Ops, Places, ProcTypes, lockVars, netVars,
    strVars, procVars, dispVars
<1>19. ASSUME NEW t \in Procs, StopReturn(t) PROVE ProcTypes'
  BY <1>19 DEF StopReturn, Return, Ops, Places, ProcTypes, lockVars, netVars,
    strVars, procVars, dispVars
<1>20. ASSUME NEW s \in Strs, StreamerHold(s) PROVE ProcTypes'
  BY <1>20 DEF StreamerHold, ProcTypes, lockVars, netVars, strVars, procVars,
    dispVars
<1>21. ASSUME NEW s \in Strs, StreamerRelease(s) PROVE ProcTypes'
  BY <1>21 DEF StreamerRelease, ProcTypes, lockVars, netVars, strVars,
    procVars, dispVars
<1>22. ASSUME NEW s \in Strs, StreamerExit(s) PROVE ProcTypes'
  BY <1>22 DEF StreamerExit, ProcTypes, lockVars, netVars, strVars, procVars,
    dispVars
<1>23. ASSUME NEW s \in Strs, StreamerEnding(s) PROVE ProcTypes'
  BY <1>23 DEF StreamerEnding, ProcTypes, lockVars, netVars, strVars,
    procVars, dispVars
<1>24. ASSUME NEW s \in Strs, StreamerSubmit(s) PROVE ProcTypes'
  BY <1>24 DEF StreamerSubmit, ProcTypes, lockVars, netVars, strVars,
    procVars, dispVars
<1>25. CASE Take
  BY <1>25 DEF Take, ProcTypes, lockVars, netVars, strVars, procVars, dispVars
<1>26. CASE EndCheck
  BY <1>26 DEF EndCheck, ProcTypes, lockVars, netVars, strVars, procVars,
    dispVars
<1>27. CASE EndLocked
  BY <1>27 DEF EndLocked, ProcTypes, lockVars, netVars, strVars, procVars,
    dispVars
<1>28. CASE StopSibling
  BY <1>28 DEF StopSibling, ProcTypes, lockVars, netVars, strVars, procVars,
    dispVars
<1>29. CASE CallbackReturn
  BY <1>29 DEF CallbackReturn, ProcTypes, lockVars, netVars, strVars,
    procVars, dispVars
<1>30. CASE DownLock
  BY <1>30 DEF DownLock, Ops, Places, ProcTypes, lockVars, netVars, strVars,
    procVars, dispVars
<1>31. CASE DownDone
  BY <1>31 DEF DownDone, Return, Ops, Places, ProcTypes, lockVars, netVars,
    strVars, procVars, dispVars
<1>32. CASE NetChange
  BY <1>32 DEF NetChange, ProcTypes, lockVars, netVars, strVars, procVars,
    dispVars
<1>33. CASE UNCHANGED vars
  BY <1>33 DEF vars, ProcTypes, lockVars, netVars, strVars, procVars, dispVars
<1> QED
  BY <1>1, <1>2, <1>3, <1>4, <1>5, <1>6, <1>7, <1>8, <1>9, <1>10, <1>11,
    <1>12, <1>13, <1>14, <1>15, <1>16, <1>17, <1>18, <1>19, <1>20, <1>21,
    <1>22, <1>23, <1>24, <1>25, <1>26, <1>27, <1>28, <1>29, <1>30, <1>31,
    <1>32, <1>33 DEF Next, Continue, Streamer, Dispatcher

-----------------------------------------------------------------------------
(* The dispatcher.                                                         *)

\* Only the dispatcher's own steps touch its place and locals.
LEMMA DispFrame ==
  ASSUME [Next]_vars, ~Dispatcher
  PROVE  UNCHANGED dispVars
<1>1. ASSUME NEW t \in Procs, EnterOp(t) \/ SetSourceOpen(t) \/ StopEnter(t)
      PROVE  UNCHANGED dispVars
  BY <1>1 DEF EnterOp, SetSourceOpen, StopEnter
<1>2. ASSUME NEW t \in Procs, Continue(t) PROVE UNCHANGED dispVars
  <2>1. CASE Pause(t) \/ Resume(t) \/ Mute(t) \/ Unmute(t)
    BY <2>1 DEF Pause, Resume, Mute, Unmute
  <2>2. CASE CancelStreamer(t) \/ JoinStreamer(t)
    BY <2>2 DEF CancelStreamer, JoinStreamer
  <2>3. CASE SetSourceGate(t) \/ SetSourceLock(t) \/ SetSourceInstall(t) \/ SwitchDone(t)
    BY <2>3 DEF SetSourceGate, SetSourceLock, SetSourceInstall, SwitchDone
  <2>4. CASE SeekLock(t) \/ SeekUnderflow(t) \/ SeekRestart(t)
    BY <2>4 DEF SeekLock, SeekUnderflow, SeekRestart
  <2>5. CASE StopLock(t) \/ StopReset(t) \/ StopReturn(t)
    BY <2>5 DEF StopLock, StopReset, StopReturn
  <2> QED
    BY <1>2, <2>1, <2>2, <2>3, <2>4, <2>5 DEF Continue
<1>3. ASSUME NEW s \in Strs, Streamer(s) PROVE UNCHANGED dispVars
  BY <1>3 DEF Streamer, StreamerHold, StreamerRelease, StreamerExit, StreamerEnding,
    StreamerSubmit
<1>4. CASE NetChange
  BY <1>4 DEF NetChange
<1>5. CASE UNCHANGED vars
  BY <1>5 DEF vars
<1> QED
  BY <1>1, <1>2, <1>3, <1>4, <1>5 DEF Next

\* The closure whose streamer ended stays at hand until its sibling is stopped.
FnOK == dpc \in {"end", "endlock", "sibling"} => fn.kind = "end"

\* The closure that the dispatcher is running stays a closure.
LEMMA FnStep ==
  ASSUME FnOK, [Next]_vars
  PROVE  FnOK'
<1>1. CASE ~Dispatcher
  BY <1>1, DispFrame DEF FnOK, dispVars
<1>2. CASE Take
  BY <1>2 DEF Take, FnOK
<1>3. CASE EndCheck \/ EndLocked
  BY <1>3 DEF EndCheck, EndLocked, FnOK
<1>4. CASE StopSibling \/ CallbackReturn \/ DownLock
  BY <1>4 DEF StopSibling, CallbackReturn, DownLock, FnOK
<1>5. CASE DownDone
  BY <1>5 DEF DownDone, FnOK
<1> QED
  BY <1>1, <1>2, <1>3, <1>4, <1>5 DEF Dispatcher

\* Reporting a media state keeps a queue of closures.
LEMMA UpgradeType ==
  ASSUME TypeOK, NEW m \in BOOLEAN, NEW p \in BOOLEAN, NEW v, fireUpgrade(MediaState(m, p, v))
  PROVE  queue' \in Seq(Closures)
BY MediaStateType, SubmittedType, ClosureTypes DEF fireUpgrade, TypeOK, DispTypes

\* Reporting a connection state, and the tear-down with it, keep a queue of
\* closures.
LEMMA ReportsType ==
  ASSUME TypeOK, NEW s \in NetStates, Reports(s)
  PROVE  queue' \in Seq(Closures)
<1>1. /\ queue \in Seq(Closures) /\ DownFn \in Closures /\ ConnFn(s) \in Closures
  BY ClosureTypes DEF TypeOK, DispTypes
<1>2. Submitted(queue, DownFn) \in Seq(Closures)
  BY <1>1, SubmittedType
<1>3. /\ Submitted(queue, ConnFn(s)) \in Seq(Closures)
      /\ Submitted(Submitted(queue, DownFn), ConnFn(s)) \in Seq(Closures)
  BY <1>1, <1>2, SubmittedType
<1> QED
  BY <1>1, <1>3 DEF Reports

\* Whatever is submitted is a closure.
LEMMA QueueStep ==
  ASSUME TypeOK, [Next]_vars
  PROVE  queue' \in Seq(Closures)
<1>0. /\ queue \in Seq(Closures)
      /\ muted \in BOOLEAN /\ paused \in BOOLEAN
  BY DEF TypeOK, DispTypes, LockTypes
<1>1. ASSUME NEW t \in Procs, EnterOp(t) \/ SetSourceOpen(t) \/ StopEnter(t)
      PROVE  queue' = queue
  BY <1>1 DEF EnterOp, SetSourceOpen, StopEnter
<1>2. ASSUME NEW t \in Procs, Continue(t) PROVE queue' \in Seq(Closures)
  <2>1. CASE Pause(t)
    BY <2>1, <1>0, UpgradeType DEF Pause
  <2>2. CASE Resume(t)
    BY <2>2, <1>0, UpgradeType DEF Resume
  <2>3. CASE Mute(t)
    BY <2>3, <1>0, UpgradeType DEF Mute
  <2>4. CASE Unmute(t)
    BY <2>4, <1>0, UpgradeType DEF Unmute
  <2>5. CASE CancelStreamer(t) \/ JoinStreamer(t) \/ SetSourceGate(t) \/ SetSourceLock(t)
    BY <2>5, <1>0 DEF CancelStreamer, JoinStreamer, SetSourceGate, SetSourceLock
  <2>6. CASE SetSourceInstall(t) \/ SwitchDone(t) \/ SeekLock(t) \/ SeekUnderflow(t)
    BY <2>6, <1>0 DEF SetSourceInstall, SwitchDone, SeekLock, SeekUnderflow
  <2>7. CASE SeekRestart(t) \/ StopLock(t) \/ StopReset(t)
    BY <2>7, <1>0 DEF SeekRestart, StopLock, StopReset
  <2>8. CASE StopReturn(t)
    BY <2>8, <1>0, ReportsType DEF StopReturn, NetStates
  <2> QED
    BY <1>2, <2>1, <2>2, <2>3, <2>4, <2>5, <2>6, <2>7, <2>8 DEF Continue
<1>3. ASSUME NEW s \in Strs, Streamer(s) PROVE queue' \in Seq(Closures)
  <2>1. CASE StreamerSubmit(s)
    BY <2>1, <1>0, SubmittedType, ClosureTypes DEF StreamerSubmit
  <2> QED
    BY <1>3, <2>1, <1>0 DEF Streamer, StreamerHold, StreamerRelease, StreamerExit, StreamerEnding
<1>4. CASE Dispatcher
  <2>1. CASE Take
    BY <2>1, <1>0 DEF Take
  <2>2. CASE DownDone
    <3>1. UpgradeFn(currentState) \in Closures
      BY <1>0, MediaStateType, ClosureTypes DEF currentState
    <3> QED
      BY <2>2, <3>1, <1>0, SubmittedType DEF DownDone
  <2> QED
    BY <1>4, <2>1, <2>2, <1>0 DEF Dispatcher, EndCheck, EndLocked, StopSibling, CallbackReturn,
      DownLock
<1>5. CASE NetChange
  <2>1. PICK s \in Reported : Reports(s)
    BY <1>5 DEF NetChange
  <2> QED
    BY <2>1, ReportsType, ConstantsAssumption DEF NetStates
<1>6. CASE UNCHANGED vars
  BY <1>6, <1>0 DEF vars
<1> QED
  BY <1>0, <1>1, <1>2, <1>3, <1>4, <1>5, <1>6 DEF Next

\* What handleStreamerEnd reports are events.
LEMMA EndEventsType ==
  ASSUME NEW c \in Cycles, NEW legs \in SUBSET Legs
  PROVE  EndEvents(c, legs) \in Seq(Events)
<1>1. \A l \in Legs : [kind |-> "ended", cycle |-> c, leg |-> l] \in Events
  BY DEF Events
<1>2. [kind |-> "ended", cycle |-> c, leg |-> "video"] \in Events
  BY <1>1 DEF Legs
<1>3. [kind |-> "ended", cycle |-> c, leg |-> "audio"] \in Events
  BY <1>1 DEF Legs
<1> QED
  BY <1>2, <1>3 DEF EndEvents

\* One event, or none, is a sequence of events.
LEMMA SingletonType ==
  ASSUME NEW e \in Events
  PROVE  <<e>> \in Seq(Events) /\ <<>> \in Seq(Events)
OBVIOUS

\* The dispatcher's variables keep their types.
LEMMA DispTypesStep ==
  ASSUME TypeOK, FnOK, [Next]_vars
  PROVE  DispTypes'
<1>1. queue' \in Seq(Closures)
  BY QueueStep
<1>2. CASE ~Dispatcher
  BY <1>1, <1>2, DispFrame DEF TypeOK, DispTypes, dispVars
<1>3. CASE Take
  <2>1. fn' \in Closures
    BY <1>3 DEF Take, TypeOK, DispTypes
  <2>2. dpc' \in {"end", "down", "callback"} /\ todo' \in {<<fn'>>, <<>>}
    BY <1>3 DEF Take
  <2>3. todo' \in Seq(Events)
    <3>1. fn' \in Events
      BY <2>1 DEF Events
    <3>2. <<fn'>> \in Seq(Events) /\ <<>> \in Seq(Events)
      BY <3>1, SingletonType
    <3> QED
      BY <2>2, <3>2
  <2>4. fn'.kind = "upgrade" => fn'.state \in MediaStates
    BY <2>1 DEF Closures, DownFn
  <2>5. mirror' \in MediaStates
    BY <1>3, <2>4 DEF Take, TypeOK, DispTypes
  <2> QED
    BY <1>1, <1>3, <2>1, <2>2, <2>3, <2>5 DEF Take, TypeOK, DispTypes
<1>4. CASE EndCheck
  BY <1>1, <1>4 DEF EndCheck, TypeOK, DispTypes
<1>5. CASE EndLocked
  <2>1. CASE UNCHANGED <<sibling, todo>> /\ dpc' = "idle" /\ fn' = NoFn
    BY <1>1, <1>5, <2>1 DEF EndLocked, TypeOK, DispTypes
  <2>2. CASE /\ sibling' = SiblingOf(fn.str) /\ todo' = EndEvents(fn.str[1], had)
             /\ dpc' = "sibling" /\ UNCHANGED fn
    <3>1. fn.kind = "end" /\ fn \in Closures \cup {NoFn}
      BY <1>5 DEF EndLocked, FnOK, TypeOK, DispTypes
    <3>2. fn.str \in Strs
      BY <3>1 DEF Closures, DownFn, NoFn
    <3>3. fn.str[1] \in Cycles /\ had \in SUBSET Legs
      BY <3>2 DEF Strs, TypeOK, LockTypes
    <3>4. todo' \in Seq(Events)
      BY <2>2, <3>3, EndEventsType
    <3>5. sibling' \in SUBSET Strs
      BY <2>2 DEF SiblingOf, Installed
    <3> QED
      BY <1>1, <1>5, <2>2, <3>4, <3>5 DEF EndLocked, TypeOK, DispTypes
  <2> QED
    BY <1>5, <2>1, <2>2 DEF EndLocked
<1>6. CASE StopSibling
  BY <1>1, <1>6 DEF StopSibling, TypeOK, DispTypes
<1>7. CASE CallbackReturn
  <2>1. todo \in Seq(Events)
    BY DEF TypeOK, DispTypes
  <2>2. todo' \in Seq(Events)
    <3>1. Len(todo) > 0 /\ todo' = Tail(todo)
      BY <1>7 DEF CallbackReturn
    <3>2. todo # <<>>
      BY <3>1
    <3> QED
      BY <2>1, <3>1, <3>2
  <2>3. /\ UNCHANGED <<sibling, prev, mirror>>
        /\ UNCHANGED <<dpc, fn>> \/ (dpc' = "idle" /\ fn' = NoFn)
    BY <1>7 DEF CallbackReturn
  <2> QED
    BY <1>1, <2>2, <2>3 DEF TypeOK, DispTypes
<1>8. CASE DownLock
  BY <1>1, <1>8, ConstantsAssumption DEF DownLock, TypeOK, DispTypes, LockTypes, Legs
<1>9. CASE DownDone
  BY <1>1, <1>9 DEF DownDone, TypeOK, DispTypes
<1> QED
  BY <1>2, <1>3, <1>4, <1>5, <1>6, <1>7, <1>8, <1>9 DEF Dispatcher

-----------------------------------------------------------------------------
(* Type correctness, with the control invariant it needs.                  *)

Base == TypeOK /\ Control /\ FnOK

\* NewGroupCall establishes the types and the agreement of places and lock.
LEMMA BaseInit == Init => Base
<1> SUFFICES ASSUME Init PROVE Base
  OBVIOUS
<1>1. LockTypes
  BY DEF Init, LockTypes
<1>2. FlagTypes
  BY DEF Init, FlagTypes, NetStates
<1>3. StrTypes
  BY DEF Init, StrTypes
<1>4. ProcTypes
  BY ConstantsAssumption DEF Init, ProcTypes, Places, Ops
<1>5. DispTypes
  <2>1. mirror \in MediaStates
    BY MediaStateType DEF Init
  <2>2. queue \in Seq(Closures) /\ todo \in Seq(Events)
    BY DEF Init
  <2>3. fn \in Closures \cup {NoFn} /\ sibling \in SUBSET Strs /\ prev \in Cycles \cup {None}
        /\ dpc = "idle"
    BY DEF Init
  <2> QED
    BY <2>1, <2>2, <2>3 DEF DispTypes
<1>6. Control
  BY ConstantsAssumption DEF Init, Control, PlaceOK, CallOK, MutexOK, ReentryOK, Procs
<1>7. FnOK
  BY DEF Init, FnOK
<1> QED
  BY <1>1, <1>2, <1>3, <1>4, <1>5, <1>6, <1>7 DEF Base, TypeOK

\* Every step keeps them.
LEMMA BaseStep == Base /\ [Next]_vars => Base'
<1> SUFFICES ASSUME Base, [Next]_vars PROVE Base'
  OBVIOUS
<1>1. LockTypes' /\ FlagTypes' /\ StrTypes' /\ ProcTypes'
  BY LockTypesStep, FlagTypesStep, StrTypesStep, ProcTypesStep DEF Base, TypeOK
<1>2. DispTypes' /\ FnOK'
  BY DispTypesStep, FnStep DEF Base
<1>3. Control'
  BY ControlStep DEF Base
<1> QED
  BY <1>1, <1>2, <1>3 DEF Base, TypeOK

\* They hold in every state.
LEMMA BaseInvariant == Spec => []Base
BY BaseInit, BaseStep, PTL DEF Spec

\* Every variable keeps its type, for every set of goroutines and sources.
THEOREM TypeCorrect == Spec => []TypeOK
BY BaseInvariant, PTL DEF Base

\* g.mu is the property of the one goroutine that is stopping streamers, and the
\* dispatcher is inside the API only while it runs a callback or a tear-down.
THEOREM MutualExclusion == Spec => [](MutexOK /\ ReentryOK)
BY BaseInvariant, PTL DEF Base, Control

-----------------------------------------------------------------------------
(* No streamer runs before the connection was up.                          *)

\* Before the first Connected, nothing has been installed, and a SetSource has
\* not come further than its wait.
Early ==
  /\ netState = "Connected" => wasConnected
  /\ ~wasConnected =>
       /\ src = Nil
       /\ \A s \in Strs : s \notin Running
       /\ \A t \in Procs : op[t] = "SetSource" => pc[t] \in {"gate", "wait"}

\* The handshake is complete once the connection was Connected, and remains so.
LEMMA NetStep ==
  ASSUME netState = "Connected" => wasConnected, [Next]_vars
  PROVE  /\ netState' = "Connected" => wasConnected'
         /\ wasConnected => wasConnected'
<1>1. CASE UNCHANGED netVars
  BY <1>1 DEF netVars
<1>2. ASSUME NEW s \in NetStates, Reports(s)
      PROVE  (netState' = "Connected" => wasConnected') /\ (wasConnected => wasConnected')
  BY <1>2 DEF Reports
<1>3. ASSUME NEW t \in Procs, StopReturn(t)
      PROVE  UNCHANGED netVars \/ Reports("Closed")
  BY <1>3 DEF StopReturn
<1>4. ASSUME NetChange PROVE \E s \in NetStates : Reports(s)
  BY <1>4, ConstantsAssumption DEF NetChange, NetStates
<1>5. CASE Dispatcher
  BY <1>1, <1>5 DEF Dispatcher, Take, EndCheck, EndLocked, StopSibling, CallbackReturn, DownLock,
    DownDone
<1>6. ASSUME NEW s \in Strs, Streamer(s) PROVE UNCHANGED netVars
  BY <1>6 DEF Streamer, StreamerHold, StreamerRelease, StreamerExit, StreamerEnding,
    StreamerSubmit
<1>7. ASSUME NEW t \in Procs, EnterOp(t) \/ SetSourceOpen(t) \/ StopEnter(t)
      PROVE  UNCHANGED netVars
  BY <1>7 DEF EnterOp, SetSourceOpen, StopEnter
<1>8. ASSUME NEW t \in Procs, Continue(t), ~StopReturn(t) PROVE UNCHANGED netVars
  BY <1>8 DEF Continue, Pause, Resume, Mute, Unmute, CancelStreamer, JoinStreamer, SetSourceGate,
    SetSourceLock, SetSourceInstall, SwitchDone, SeekLock, SeekUnderflow, SeekRestart, StopLock,
    StopReset
<1>9. "Closed" \in NetStates
  BY DEF NetStates
<1> QED
  BY <1>1, <1>2, <1>3, <1>4, <1>5, <1>6, <1>7, <1>8, <1>9 DEF Next, vars, netVars

\* No step starts a run loop before the handshake is complete.
LEMMA EarlyStep ==
  ASSUME Base, Early, [Next]_vars
  PROVE  Early'
<1>1. /\ netState' = "Connected" => wasConnected'
      /\ wasConnected => wasConnected'
  BY NetStep DEF Early
<1> SUFFICES ASSUME ~wasConnected
             PROVE  /\ src' = Nil
                    /\ \A s \in Strs : s \notin Running'
                    /\ \A t \in Procs : op'[t] = "SetSource" => pc'[t] \in {"gate", "wait"}
  BY <1>1 DEF Early
<1>2. /\ src = Nil /\ netState # "Connected"
      /\ \A s \in Strs : s \notin Running
      /\ \A t \in Procs : op[t] = "SetSource" => pc[t] \in {"gate", "wait"}
      /\ src \notin Sources /\ src \notin Seekable
  BY ConstantsAssumption DEF Early
<1>3. pc \in [Procs -> Places] /\ op \in [Procs -> Ops]
  BY DEF Base, TypeOK, ProcTypes
<1> DEFINE Quiet(p) == \A s \in Strs : p[s] \notin {"run", "held", "ending", "submit"}
<1> DEFINE Waiting == \A t \in Procs : op'[t] = "SetSource" => pc'[t] \in {"gate", "wait"}
<1>4. strPc \in [Strs -> {"none", "built", "run", "held", "ending", "submit", "done"}] /\ Quiet(strPc)
  BY <1>2 DEF Running, Base, TypeOK, StrTypes
<1>5. SUFFICES src' = Nil /\ Quiet(strPc') /\ Waiting
  BY DEF Running
<1>6. ASSUME NEW t \in Procs, EnterOp(t) PROVE src' = Nil /\ Quiet(strPc') /\ Waiting
  BY <1>2, <1>3, <1>4, <1>6 DEF EnterOp, Enter, Toggles, lockVars, strVars
<1>7. ASSUME NEW t \in Procs, SetSourceOpen(t) PROVE src' = Nil /\ Quiet(strPc') /\ Waiting
  <2>1. PICK S : strPc' = MovedTo(S, "built")
    BY <1>7 DEF SetSourceOpen
  <2>2. Quiet(strPc')
    BY <1>4, <2>1 DEF MovedTo
  <2>3. Waiting
    BY <1>2, <1>3, <1>7 DEF SetSourceOpen, Enter
  <2> QED
    BY <1>2, <1>7, <2>2, <2>3 DEF SetSourceOpen, lockVars
<1>8. ASSUME NEW t \in Procs, StopEnter(t) PROVE src' = Nil /\ Quiet(strPc') /\ Waiting
  BY <1>2, <1>3, <1>4, <1>8 DEF StopEnter, Enter, lockVars, strVars
<1>9. ASSUME NEW t \in Procs, Pause(t) \/ Resume(t) \/ Mute(t) \/ Unmute(t)
      PROVE  src' = Nil /\ Quiet(strPc') /\ Waiting
  <2>1. UNCHANGED <<src, strPc>>
    BY <1>2, <1>9 DEF Pause, Resume, Mute, Unmute, lockVars, strVars
  <2>2. Waiting
    BY <1>2, <1>3, <1>9 DEF Pause, Resume, Mute, Unmute, Return
  <2> QED
    BY <1>2, <1>4, <2>1, <2>2
<1>10. ASSUME NEW t \in Procs, CancelStreamer(t) \/ JoinStreamer(t)
       PROVE  src' = Nil /\ Quiet(strPc') /\ Waiting
  BY <1>2, <1>4, <1>10 DEF CancelStreamer, JoinStreamer, lockVars, strVars, procVars
<1>11. ASSUME NEW t \in Procs, SetSourceGate(t) PROVE src' = Nil /\ Quiet(strPc') /\ Waiting
  <2>1. (Return(t) \/ GoTo(t, "wait")) /\ UNCHANGED <<src, strPc>>
    BY <1>2, <1>11 DEF SetSourceGate, GateOpen, GiveUp, lockVars, strVars
  <2> QED
    BY <1>2, <1>3, <1>4, <2>1 DEF Return, GoTo
<1>12. ASSUME NEW t \in Procs,
              SetSourceLock(t) \/ SetSourceInstall(t) \/ SeekRestart(t)
       PROVE  FALSE
  BY <1>2, <1>12 DEF SetSourceLock, Locks, SetSourceInstall, SeekRestart, AllStopped, Base, Control,
    CallOK
<1>13. ASSUME NEW t \in Procs, SwitchDone(t) \/ SeekLock(t) \/ SeekUnderflow(t)
       PROVE  src' = Nil /\ Quiet(strPc') /\ Waiting
  <2>1. UNCHANGED <<src, strPc>>
    BY <1>13 DEF SwitchDone, SeekLock, SeekUnderflow, lockVars, strVars
  <2>2. Waiting
    BY <1>2, <1>3, <1>13 DEF SwitchDone, SeekLock, SeekUnderflow, Return, GoTo, Locks
  <2> QED
    BY <1>2, <1>4, <2>1, <2>2
<1>14. ASSUME NEW t \in Procs, StopLock(t) \/ StopReset(t) \/ StopReturn(t)
       PROVE  src' = Nil /\ Quiet(strPc') /\ Waiting
  <2>1. src' = Nil /\ UNCHANGED strPc
    BY <1>2, <1>14 DEF StopLock, StopReset, StopReturn, lockVars, strVars
  <2>2. Waiting
    BY <1>2, <1>3, <1>14 DEF StopLock, StopReset, StopReturn, Return, GoTo, Locks, AllStopped
  <2> QED
    BY <1>4, <2>1, <2>2
<1>15. ASSUME NEW s \in Strs, Streamer(s) PROVE FALSE
  BY <1>4, <1>15 DEF Streamer, StreamerHold, StreamerRelease, StreamerExit, StreamerEnding,
    StreamerSubmit
<1>16. CASE Dispatcher
  <2>1. UNCHANGED <<src, strPc>>
    BY <1>16 DEF Dispatcher, Take, EndCheck, EndLocked, StopSibling, CallbackReturn, DownLock,
      DownDone, lockVars, strVars
  <2>2. Waiting
    BY <1>2, <1>3, <1>16 DEF Dispatcher, Take, EndCheck, EndLocked, StopSibling, CallbackReturn,
      DownLock, DownDone, procVars, Return
  <2> QED
    BY <1>2, <1>4, <2>1, <2>2
<1>17. CASE NetChange
  BY <1>2, <1>4, <1>17 DEF NetChange, lockVars, strVars, procVars
<1>18. CASE UNCHANGED vars
  BY <1>2, <1>4, <1>18 DEF vars, lockVars, strVars, procVars
<1> QED
  BY <1>6, <1>7, <1>8, <1>9, <1>10, <1>11, <1>12, <1>13, <1>14, <1>15, <1>16, <1>17, <1>18
    DEF Next, Continue

\* No streamer runs before the connection was up: SetSource's wait, and every
\* restart being of a source a SetSource installed, leave no way around it.
THEOREM NoEarlyStartHolds == Spec => []NoEarlyStart
<1>1. Init => Early
  BY DEF Init, Early, Running
<1>2. Base /\ Early /\ [Next]_vars => Early'
  BY EarlyStep
<1>3. Early => NoEarlyStart
  BY DEF Early, NoEarlyStart, Running
<1> QED
  BY <1>1, <1>2, <1>3, BaseInvariant, PTL DEF Spec

-----------------------------------------------------------------------------
(* The gates of the installed streamers follow g.paused.                   *)

\* Pause and Resume set every installed gate, and what is installed is gated as
\* g.paused says at that time: no step in between lets them differ.
GatesAgree == \A s \in Installed : gate[s] = paused

\* After startLocked, as after SetSource's installation, the installed streamers
\* are the ones whose gates were just set.
LEMMA InstalledByInstall ==
  ASSUME NEW c \in Cycles, NEW legs \in SUBSET Legs, cur' = Install(c, legs)
  PROVE  Installed' = StrsOf(c, legs)
<1>1. None \notin Cycles
  BY ConstantsAssumption DEF Cycles, None
<1>2. ASSUME NEW s \in Strs PROVE cur'[s[2]] = s[1] <=> s \in StrsOf(c, legs)
  <2>1. /\ s[1] \in Cycles /\ s[2] \in Legs /\ s = <<s[1], s[2]>>
    BY DEF Strs
  <2>2. cur'[s[2]] = IF s[2] \in legs THEN c ELSE None
    BY <2>1 DEF Install
  <2>3. s \in StrsOf(c, legs) <=> s[1] = c /\ s[2] \in legs
    BY <2>1 DEF StrsOf
  <2> QED
    BY <1>1, <2>1, <2>2, <2>3
<1>3. StrsOf(c, legs) \subseteq Strs
  BY DEF StrsOf, Strs
<1> QED
  BY <1>2, <1>3 DEF Installed

\* Streamers installed alone, with their gates set as asked, agree with the
\* call.
LEMMA GatesAfterInstall ==
  ASSUME NEW c \in Cycles, NEW legs \in SUBSET Legs, NEW p \in BOOLEAN,
         cur' = Install(c, legs), gate' = SetPaused(StrsOf(c, legs), p), paused' = p
  PROVE  GatesAgree'
<1>1. Installed' = StrsOf(c, legs)
  BY InstalledByInstall
<1>2. \A s \in Strs : s \in StrsOf(c, legs) => gate'[s] = p
  BY DEF SetPaused
<1>3. \A s \in StrsOf(c, legs) : s \in Strs
  BY DEF StrsOf, Strs
<1> QED
  BY <1>1, <1>2, <1>3 DEF GatesAgree

\* A restart of the source, by Resume or by SeekBy, that is past the failure of
\* the opening either installs gated streamers or leaves everything in place.
LEMMA GatesAfterStart ==
  ASSUME GatesAgree, NEW c \in Cycles, NEW legs \in SUBSET Legs, NEW p \in BOOLEAN, NEW kept,
         NEW stillOpen, startLocked(c, legs, p, kept, stillOpen), paused' = p, Installed = {}
  PROVE  GatesAgree'
<1>1. CASE legs # {}
  BY <1>1, GatesAfterInstall DEF startLocked
<1>2. CASE legs = {}
  <2>1. UNCHANGED cur
    BY <1>2 DEF startLocked
  <2> QED
    BY <2>1 DEF GatesAgree, Installed
<1> QED
  BY <1>1, <1>2

\* Each action keeps the gates of the installed streamers in agreement with the
\* call.
LEMMA GatesStep ==
  ASSUME Base, GatesAgree, [Next]_vars
  PROVE  GatesAgree'
<1>0. /\ gate \in [Strs -> BOOLEAN] /\ paused \in BOOLEAN
      /\ \A s \in Installed : s \in Strs
  BY DEF Base, TypeOK, StrTypes, LockTypes, Installed
<1>1. CASE UNCHANGED <<cur, gate, paused>>
  BY <1>1 DEF GatesAgree, Installed
<1>2. ASSUME NEW p \in BOOLEAN, UNCHANGED cur, gate' = SetPaused(Installed, p), paused' = p
      PROVE  GatesAgree'
  <2>1. Installed' = Installed
    BY <1>2 DEF Installed
  <2> QED
    BY <1>0, <1>2, <2>1 DEF GatesAgree, SetPaused
<1>3. CASE UNCHANGED <<gate, paused>> /\ \A l \in Legs : cur'[l] \in {cur[l], None}
  <2>1. None \notin Cycles
    BY ConstantsAssumption DEF Cycles, None
  <2>2. \A s \in Strs : s[1] \in Cycles /\ s[2] \in Legs
    BY DEF Strs
  <2> QED
    BY <1>3, <2>1, <2>2 DEF GatesAgree, Installed
<1>4. CASE Installed = {} /\ UNCHANGED cur
  BY <1>4 DEF GatesAgree, Installed
<1>5. ASSUME NEW t \in Procs, EnterOp(t) \/ SetSourceOpen(t) \/ StopEnter(t)
      PROVE  UNCHANGED <<cur, gate, paused>>
  BY <1>5 DEF EnterOp, SetSourceOpen, StopEnter, lockVars, strVars
<1>6. ASSUME NEW t \in Procs, Pause(t) PROVE GatesAgree'
  BY <1>1, <1>2, <1>6 DEF Pause
<1>7. ASSUME NEW t \in Procs, Resume(t) PROVE GatesAgree'
  <2>1. CASE \/ UNCHANGED <<lockVars, strVars>>
             \/ paused' = FALSE /\ gate' = SetPaused(Installed, FALSE) /\ UNCHANGED cur
    BY <1>1, <1>2, <2>1 DEF lockVars, strVars
  <2>2. ASSUME paused' = FALSE, Installed = {}, src # Nil, NEW legs \in Outcomes[src],
               startLocked(call[t], legs, FALSE, streams, open)
        PROVE  GatesAgree'
    <3>1. call[t] \in Cycles
      BY <1>7, CallTypes DEF Base, TypeOK, Resume, Locks
    <3>2. legs \in SUBSET Legs
      BY <2>2, OutcomeTypes DEF Base, TypeOK, LockTypes
    <3> QED
      BY <2>2, <3>1, <3>2, GatesAfterStart
  <2> QED
    BY <1>7, <2>1, <2>2 DEF Resume
<1>8. ASSUME NEW t \in Procs, Mute(t) \/ Unmute(t) \/ CancelStreamer(t)
      PROVE  UNCHANGED <<cur, gate, paused>>
  BY <1>8 DEF Mute, Unmute, CancelStreamer, lockVars
<1>9. ASSUME NEW t \in Procs, JoinStreamer(t) PROVE GatesAgree'
  <2>1. cur \in [Legs -> Cycles \cup {None}]
    BY DEF Base, TypeOK, LockTypes
  <2> QED
    BY <1>3, <1>9, <2>1 DEF JoinStreamer, strVars
<1>10. ASSUME NEW t \in Procs,
              SetSourceGate(t) \/ SetSourceLock(t) \/ SwitchDone(t) \/ SeekLock(t) \/ StopLock(t)
       PROVE  UNCHANGED <<cur, gate, paused>>
  BY <1>10 DEF SetSourceGate, SetSourceLock, SwitchDone, SeekLock, StopLock, lockVars, strVars
<1>11. ASSUME NEW t \in Procs, SetSourceInstall(t) PROVE GatesAgree'
  <2>1. call[t] \in Cycles
    BY <1>11, CallTypes DEF Base, TypeOK, SetSourceInstall, AllStopped
  <2>2. BuiltLegs(call[t]) \in SUBSET Legs
    BY DEF BuiltLegs
  <2> QED
    BY <1>0, <1>11, <2>1, <2>2, GatesAfterInstall DEF SetSourceInstall
<1>12. ASSUME NEW t \in Procs, SeekUnderflow(t) \/ StopReset(t) PROVE GatesAgree'
  BY <1>4, <1>12 DEF SeekUnderflow, StopReset, AllStopped
<1>13. ASSUME NEW t \in Procs, SeekRestart(t) PROVE GatesAgree'
  <2>1. call[t] \in Cycles
    BY <1>13, CallTypes DEF Base, TypeOK, SeekRestart, AllStopped
  <2>2. src \in Sources /\ Installed = {} /\ paused' = paused
    BY <1>13 DEF SeekRestart, AllStopped, Base, Control, CallOK
  <2>3. PICK legs \in Outcomes[src] :
          startLocked(call[t], legs, paused, None, open \ {streams})
    BY <1>13 DEF SeekRestart
  <2>4. legs \in SUBSET Legs
    BY <2>2, OutcomeTypes
  <2> QED
    BY <1>0, <2>1, <2>2, <2>3, <2>4, GatesAfterStart
<1>14. ASSUME NEW t \in Procs, StopReturn(t) PROVE UNCHANGED <<cur, gate, paused>>
  BY <1>14 DEF StopReturn, lockVars, strVars
<1>15. ASSUME NEW s \in Strs, Streamer(s) PROVE UNCHANGED <<cur, gate, paused>>
  BY <1>15 DEF Streamer, StreamerHold, StreamerRelease, StreamerExit, StreamerEnding,
    StreamerSubmit, lockVars
<1>16. CASE EndLocked
  BY <1>1, <1>3, <1>16 DEF EndLocked, Install, strVars
<1>17. CASE Dispatcher /\ ~EndLocked
  BY <1>1, <1>17 DEF Dispatcher, Take, EndCheck, StopSibling, CallbackReturn, DownLock, DownDone,
    lockVars, strVars
<1>18. CASE NetChange \/ UNCHANGED vars
  BY <1>1, <1>18 DEF NetChange, vars, lockVars, strVars
<1> QED
  BY <1>1, <1>5, <1>6, <1>7, <1>8, <1>9, <1>10, <1>11, <1>12, <1>13, <1>14, <1>15, <1>16, <1>17,
    <1>18 DEF Next, Continue

\* However Pause and Resume meet a source being prepared, reopened or replaced,
\* every installed streamer is gated as the call is paused.
THEOREM PauseAgreesHolds == Spec => []PauseAgrees
<1>1. Init => GatesAgree
  BY ConstantsAssumption DEF Init, GatesAgree, Installed, Strs, Cycles, None
<1>2. Base /\ GatesAgree /\ [Next]_vars => GatesAgree'
  BY GatesStep
<1>3. GatesAgree => PauseAgrees
  BY DEF GatesAgree, PauseAgrees
<1> QED
  BY <1>1, <1>2, <1>3, BaseInvariant, PTL DEF Spec
-----------------------------------------------------------------------------
(* Stop is final.                                                          *)

\* After Stop's section nothing is left, and no other section that could install
\* something is under way; before it, a Stop is still to come.
Final ==
  closed /\ ~StopPending =>
    /\ src = Nil /\ streams = None /\ Installed = {}
    /\ \A t \in Procs : pc[t] = "stop" => op[t] = "Down"

\* Only its section ends a pending Stop.
LEMMA PendingStays ==
  ASSUME Base, StopPending, [Next]_vars, \A t \in Procs : ~StopReset(t)
  PROVE  StopPending'
<1>0. pc \in [Procs -> Places] /\ op \in [Procs -> Ops]
  BY DEF Base, TypeOK, ProcTypes
<1>1. PICK w \in Procs : op[w] = "Stop" /\ pc[w] \in {"lock", "stop"}
  BY DEF StopPending
<1> SUFFICES op'[w] = "Stop" /\ pc'[w] \in {"lock", "stop"}
  BY DEF StopPending
<1>2. CASE UNCHANGED <<pc, op>>
  BY <1>1, <1>2
<1>3. ASSUME NEW t \in Procs, EnterOp(t) \/ SetSourceOpen(t) \/ StopEnter(t)
      PROVE  op'[w] = "Stop" /\ pc'[w] \in {"lock", "stop"}
  <2>1. pc[t] = "idle" /\ \E o, p : op' = [op EXCEPT ![t] = o] /\ pc' = [pc EXCEPT ![t] = p]
    BY <1>3 DEF EnterOp, SetSourceOpen, StopEnter, Enter, MayCall
  <2> QED
    BY <1>0, <1>1, <2>1
<1>4. ASSUME NEW t \in Procs, op[t] # "Stop" \/ pc[t] = "return",
             (\E p : GoTo(t, p)) \/ Return(t)
      PROVE  op'[w] = "Stop" /\ pc'[w] \in {"lock", "stop"}
  BY <1>0, <1>1, <1>4 DEF GoTo, Return
<1>5. ASSUME NEW t \in Procs, Continue(t)
      PROVE  op'[w] = "Stop" /\ pc'[w] \in {"lock", "stop"}
  <2>1. CASE Pause(t) \/ Resume(t) \/ Mute(t) \/ Unmute(t)
    BY <1>4, <2>1 DEF Pause, Resume, Mute, Unmute, Locks
  <2>2. CASE CancelStreamer(t) \/ JoinStreamer(t)
    BY <1>2, <2>2 DEF CancelStreamer, JoinStreamer, procVars
  <2>3. CASE SetSourceGate(t) \/ SetSourceLock(t)
    <3>1. op[t] = "SetSource" /\ (Return(t) \/ \E p : GoTo(t, p))
      BY <2>3 DEF SetSourceGate, SetSourceLock, GiveUp, Locks, Base, Control, PlaceOK
    <3> QED
      BY <1>4, <3>1
  <2>4. CASE SetSourceInstall(t) \/ SwitchDone(t)
    BY <1>4, <2>4 DEF SetSourceInstall, SwitchDone, AllStopped
  <2>5. CASE SeekLock(t)
    <3>1. /\ op[t] = "SeekBy" /\ pc[t] = "lock"
          /\ \E o, p : op' = [op EXCEPT ![t] = o] /\ pc' = [pc EXCEPT ![t] = p]
      BY <1>0, <2>5 DEF SeekLock, Locks, Return
    <3> QED
      BY <1>0, <1>1, <3>1
  <2>6. CASE SeekUnderflow(t) \/ SeekRestart(t)
    BY <1>4, <2>6 DEF SeekUnderflow, SeekRestart, AllStopped
  <2>7. CASE StopLock(t)
    BY <1>0, <1>1, <2>7 DEF StopLock, GoTo
  <2>8. CASE StopReturn(t)
    BY <1>4, <2>8 DEF StopReturn
  <2> QED
    BY <1>5, <2>1, <2>2, <2>3, <2>4, <2>5, <2>6, <2>7, <2>8 DEF Continue
<1>6. ASSUME NEW s \in Strs, Streamer(s) PROVE UNCHANGED <<pc, op>>
  BY <1>6 DEF Streamer, StreamerHold, StreamerRelease, StreamerExit, StreamerEnding,
    StreamerSubmit, procVars
<1>7. CASE Take \/ EndCheck \/ EndLocked \/ StopSibling \/ CallbackReturn
  BY <1>2, <1>7 DEF Take, EndCheck, EndLocked, StopSibling, CallbackReturn, procVars
<1>8. CASE DownLock
  <2>1. /\ op[Disp] = "none" /\ Disp \in Procs
        /\ op' = [op EXCEPT ![Disp] = "Down"] /\ pc' = [pc EXCEPT ![Disp] = "stop"]
    BY <1>8 DEF DownLock, Base, Control, ReentryOK, PlaceOK, Procs
  <2> QED
    BY <1>0, <1>1, <2>1
<1>9. CASE DownDone
  BY <1>4, <1>9 DEF DownDone, AllStopped, Procs
<1>10. CASE NetChange \/ UNCHANGED vars
  BY <1>2, <1>10 DEF NetChange, vars, procVars
<1> QED
  BY <1>2, <1>3, <1>5, <1>6, <1>7, <1>8, <1>9, <1>10 DEF Next, Dispatcher

\* No step undoes what Stop's section left.
LEMMA FinalStep ==
  ASSUME Base, Final, [Next]_vars
  PROVE  Final'
<1>0. /\ pc \in [Procs -> Places] /\ op \in [Procs -> Ops]
      /\ cur \in [Legs -> Cycles \cup {None}]
  BY DEF Base, TypeOK, ProcTypes, LockTypes
<1> DEFINE Empty == /\ src = Nil /\ streams = None /\ Installed = {}
                    /\ \A t \in Procs : pc[t] = "stop" => op[t] = "Down"
<1>1. ASSUME NEW t \in Procs, StopReset(t) PROVE Final'
  <2>1. src' = Nil /\ streams' = None /\ Installed' = {}
    BY <1>1 DEF StopReset, AllStopped, Installed
  <2>2. \A u \in Procs : pc'[u] # "stop"
    BY <1>0, <1>1 DEF StopReset, AllStopped, GoTo, Base, Control, MutexOK
  <2> QED
    BY <2>1, <2>2 DEF Final
<1>2. ASSUME NEW t \in Procs, StopEnter(t) PROVE Final'
  BY <1>0, <1>2 DEF StopEnter, Enter, Final, StopPending
<1>3. SUFFICES ASSUME closed', ~StopPending', \A t \in Procs : ~StopReset(t) /\ ~StopEnter(t)
               PROVE  Empty'
  BY <1>1, <1>2 DEF Final
<1>4. ~StopPending
  BY <1>3, PendingStays
<1>5. UNCHANGED closed
  <2>1. ASSUME NEW t \in Procs, EnterOp(t) \/ SetSourceOpen(t) \/ Continue(t) PROVE UNCHANGED closed
    BY <1>3, <2>1 DEF EnterOp, SetSourceOpen, Continue, Pause, Resume, Mute, Unmute,
      CancelStreamer, JoinStreamer, SetSourceGate, SetSourceLock, SetSourceInstall, SwitchDone,
      SeekLock, SeekUnderflow, SeekRestart, StopLock, StopReturn
  <2>2. ASSUME NEW s \in Strs, Streamer(s) PROVE UNCHANGED closed
    BY <2>2 DEF Streamer, StreamerHold, StreamerRelease, StreamerExit, StreamerEnding,
      StreamerSubmit
  <2>3. CASE Dispatcher
    BY <2>3 DEF Dispatcher, Take, EndCheck, EndLocked, StopSibling, CallbackReturn, DownLock,
      DownDone
  <2>4. CASE NetChange \/ UNCHANGED vars
    BY <2>4 DEF NetChange, vars
  <2> QED
    BY <1>3, <2>1, <2>2, <2>3, <2>4 DEF Next
<1>6. closed /\ Empty /\ src \notin Sources /\ src \notin Seekable
  BY <1>3, <1>4, <1>5, ConstantsAssumption DEF Final
<1>7. CASE UNCHANGED <<src, streams, cur, pc, op>>
  BY <1>6, <1>7 DEF Installed
<1>8. ASSUME NEW t \in Procs, UNCHANGED <<src, streams, cur>>,
             GoTo(t, "lock") \/ GoTo(t, "wait") \/ GoTo(t, "return") \/ Return(t)
      PROVE  Empty'
  BY <1>0, <1>6, <1>8 DEF Installed, GoTo, Return
<1>9. ASSUME NEW t \in Procs, EnterOp(t) \/ SetSourceOpen(t) PROVE FALSE
  BY <1>6, <1>9 DEF EnterOp, SetSourceOpen, Enter, MayCall
<1>10. ASSUME NEW t \in Procs, Pause(t) \/ Resume(t) \/ Mute(t) \/ Unmute(t) PROVE Empty'
  BY <1>6, <1>8, <1>10 DEF Pause, Resume, Mute, Unmute, lockVars
<1>11. ASSUME NEW t \in Procs, CancelStreamer(t) \/ JoinStreamer(t) PROVE FALSE
  BY <1>6, <1>11 DEF CancelStreamer, JoinStreamer
<1>12. ASSUME NEW t \in Procs, SetSourceGate(t) PROVE Empty'
  BY <1>8, <1>12 DEF SetSourceGate, GiveUp, lockVars
<1>13. ASSUME NEW t \in Procs, SetSourceLock(t) PROVE Empty'
  BY <1>6, <1>8, <1>13 DEF SetSourceLock, Recheck, GiveUp, lockVars
<1>14. ASSUME NEW t \in Procs,
              SetSourceInstall(t) \/ SeekUnderflow(t) \/ SeekRestart(t)
       PROVE  FALSE
  BY <1>6, <1>14 DEF SetSourceInstall, SeekUnderflow, SeekRestart, AllStopped
<1>15. ASSUME NEW t \in Procs, SwitchDone(t) \/ StopReturn(t) PROVE Empty'
  BY <1>8, <1>15 DEF SwitchDone, StopReturn, lockVars
<1>16. ASSUME NEW t \in Procs, SeekLock(t) PROVE Empty'
  BY <1>6, <1>8, <1>16 DEF SeekLock, lockVars
<1>17. ASSUME NEW t \in Procs, StopLock(t) PROVE FALSE
  BY <1>4, <1>17 DEF StopLock, Locks, StopPending
<1>18. ASSUME NEW s \in Strs, Streamer(s) PROVE Empty'
  BY <1>7, <1>18 DEF Streamer, StreamerHold, StreamerRelease, StreamerExit, StreamerEnding,
    StreamerSubmit, lockVars, procVars
<1>19. CASE Take \/ EndCheck \/ StopSibling \/ CallbackReturn
  BY <1>7, <1>19 DEF Take, EndCheck, StopSibling, CallbackReturn, lockVars, procVars
<1>20. CASE EndLocked
  <2>1. Installed' = {}
    <3>1. \A l \in Legs : cur'[l] \in {cur[l], None}
      BY <1>20 DEF EndLocked, Install
    <3>2. None \notin Cycles /\ \A s \in Strs : s[1] \in Cycles /\ s[2] \in Legs
      BY ConstantsAssumption DEF Cycles, None, Strs
    <3> QED
      BY <1>6, <3>1, <3>2 DEF Installed
  <2> QED
    BY <1>6, <1>20, <2>1 DEF EndLocked, procVars
<1>21. CASE DownLock
  <2>1. /\ UNCHANGED <<src, streams, cur>> /\ Disp \in Procs
        /\ op' = [op EXCEPT ![Disp] = "Down"] /\ pc' = [pc EXCEPT ![Disp] = "stop"]
    BY <1>21 DEF DownLock, lockVars, Procs
  <2> QED
    BY <1>0, <1>6, <2>1 DEF Installed
<1>22. CASE DownDone
  <2>1. /\ src' = Nil /\ streams' = None /\ UNCHANGED cur /\ Disp \in Procs /\ Return(Disp)
    BY <1>6, <1>22 DEF DownDone, Procs
  <2> QED
    BY <1>0, <1>6, <2>1 DEF Installed, Return
<1>23. CASE NetChange \/ UNCHANGED vars
  BY <1>7, <1>23 DEF NetChange, vars, lockVars, procVars
<1> QED
  BY <1>3, <1>9, <1>10, <1>11, <1>12, <1>13, <1>14, <1>15, <1>16, <1>17, <1>18, <1>19, <1>20,
    <1>21, <1>22, <1>23 DEF Next, Continue, Dispatcher

-----------------------------------------------------------------------------
(* Each call's streamers are its own, and start at most once.              *)

\* A call that may still start the streamers named after it.
ToStart(t) == op[t] \in {"SetSource", "Resume", "SeekBy"} /\ pc[t] # "return"

Unstarted(p) == p \in {"none", "built"}

\* Calls in progress have different numbers, a number not given out yet names no
\* streamer, and the streamers of a call that may still start them did not run.
Fresh ==
  /\ \A t \in Procs : call[t] \in 0 .. calls
  /\ \A t, u \in Procs : t # u /\ call[t] # None => call[t] # call[u]
  /\ \A s \in Strs : s[1] > calls => strPc[s] = "none"
  /\ \A t \in Procs : \A s \in Strs :
       ToStart(t) /\ call[t] = s[1] => Unstarted(strPc[s])

\* A step that gives out no number keeps Fresh if a streamer that did not run is
\* left alone, or started by its own call, which then has nothing more to start.
LEMMA FreshKept ==
  ASSUME Base, Fresh, UNCHANGED calls,
         \A t \in Procs : call'[t] = call[t] \/ (call'[t] = None /\ ~ToStart(t)'),
         \A t \in Procs : ToStart(t)' => ToStart(t),
         \A s \in Strs :
           \/ ~Unstarted(strPc[s])
           \/ strPc'[s] = strPc[s]
           \/ \E t \in Procs : ToStart(t) /\ call[t] = s[1] /\ ~ToStart(t)',
         \A s \in Strs : ~Unstarted(strPc[s]) => ~Unstarted(strPc'[s])
  PROVE  Fresh'
<1>1. calls \in Nat /\ \A t \in Procs : call[t] \in Nat /\ call[t] <= calls
  BY ConstantsAssumption DEF Base, TypeOK, ProcTypes, Fresh
<1>2. \A s \in Strs : s[1] \in Nat \ {0}
  BY ConstantsAssumption DEF Strs, Cycles
<1>3. \A t \in Procs : call'[t] \in 0 .. calls'
  BY <1>1 DEF Fresh, None
<1>4. \A t, u \in Procs : t # u /\ call'[t] # None => call'[t] # call'[u]
  BY DEF Fresh
<1>5. ASSUME NEW s \in Strs, s[1] > calls' PROVE strPc'[s] = "none"
  <2>1. strPc[s] = "none"
    BY <1>5 DEF Fresh
  <2>2. \A t \in Procs : call[t] # s[1]
    BY <1>1, <1>2, <1>5
  <2> QED
    BY <2>1, <2>2 DEF Unstarted
<1>6. ASSUME NEW t \in Procs, NEW s \in Strs, ToStart(t)', call'[t] = s[1]
      PROVE  Unstarted(strPc'[s])
  <2>1. ToStart(t) /\ call[t] = s[1]
    BY <1>6
  <2>2. Unstarted(strPc[s])
    BY <2>1 DEF Fresh
  <2>3. \A u \in Procs : u # t => call[u] # s[1]
    BY <1>2, <2>1 DEF Fresh, None
  <2>4. strPc'[s] = strPc[s]
    BY <1>6, <2>2, <2>3
  <2> QED
    BY <2>2, <2>4
<1> QED
  BY <1>3, <1>4, <1>5, <1>6 DEF Fresh

\* A step by which a new call begins.
LEMMA FreshEntered ==
  ASSUME Base, Fresh, NEW t \in Procs, NEW o, NEW p, Enter(t, o, p),
         \A s \in Strs : strPc'[s] = strPc[s] \/ (s[1] = calls + 1 /\ strPc'[s] = "built")
  PROVE  Fresh'
<1>1. /\ calls \in Nat /\ calls' = calls + 1
      /\ \A u \in Procs : call[u] \in Nat /\ call[u] <= calls
      /\ \A u \in Procs : call'[u] = IF u = t THEN calls + 1 ELSE call[u]
  BY ConstantsAssumption DEF Base, TypeOK, ProcTypes, Fresh, Enter
<1>2. \A s \in Strs : s[1] \in Nat
  BY ConstantsAssumption DEF Strs, Cycles
<1>3. \A u \in Procs : u # t => op'[u] = op[u] /\ pc'[u] = pc[u]
  BY DEF Enter, Base, TypeOK, ProcTypes
<1>4. \A u \in Procs : call'[u] \in 0 .. calls'
  BY <1>1
<1>5. \A u, w \in Procs : u # w /\ call'[u] # None => call'[u] # call'[w]
  BY <1>1 DEF Fresh
<1>6. ASSUME NEW s \in Strs, s[1] > calls' PROVE strPc'[s] = "none"
  BY <1>1, <1>2, <1>6 DEF Fresh
<1>7. ASSUME NEW u \in Procs, NEW s \in Strs, ToStart(u)', call'[u] = s[1]
      PROVE  Unstarted(strPc'[s])
  <2>1. CASE u = t
    <3>1. s[1] > calls
      BY <1>1, <1>7, <2>1
    <3> QED
      BY <3>1 DEF Fresh, Unstarted
  <2>2. CASE u # t
    <3>1. ToStart(u) /\ call[u] = s[1]
      BY <1>1, <1>3, <1>7, <2>2 DEF ToStart
    <3>2. s[1] # calls + 1
      BY <1>1, <3>1
    <3> QED
      BY <3>1, <3>2 DEF Fresh
  <2> QED
    BY <2>1, <2>2
<1> QED
  BY <1>4, <1>5, <1>6, <1>7 DEF Fresh

\* What the calls do to their own place.
LEMMA ReturnPlaces ==
  ASSUME Base, NEW t \in Procs, Return(t)
  PROVE  /\ UNCHANGED calls
         /\ \A u \in Procs : call'[u] = call[u] \/ (call'[u] = None /\ ~ToStart(u)')
         /\ \A u \in Procs : ToStart(u)' => ToStart(u)
         /\ ~ToStart(t)'
BY DEF Return, ToStart, Base, TypeOK, ProcTypes

\* A goroutine that moves on within its call has no more to start than before.
LEMMA GoToPlaces ==
  ASSUME Base, NEW t \in Procs, NEW p, GoTo(t, p), pc[t] # "return"
  PROVE  /\ UNCHANGED calls
         /\ \A u \in Procs : call'[u] = call[u]
         /\ \A u \in Procs : ToStart(u)' => ToStart(u)
         /\ p = "return" => ~ToStart(t)'
BY DEF GoTo, ToStart, Base, TypeOK, ProcTypes

\* A call that starts streamers starts those named after it.
LEMMA StartedByOwner ==
  ASSUME NEW c \in Cycles, NEW legs \in SUBSET Legs, NEW p \in BOOLEAN, StrTypes,
         strPc' = Started(StrsOf(c, legs), p)
  PROVE  /\ \A s \in Strs : s[1] # c => strPc'[s] = strPc[s]
         /\ \A s \in Strs : strPc'[s] = strPc[s] \/ (s[1] = c /\ strPc'[s] \in {"run", "held"})
BY DEF StrTypes, Started, MovedTo, StrsOf, Strs

\* Starting the streamers of one's own cycle keeps all cycles fresh or started
\* by their owner.
LEMMA FreshStarted ==
  ASSUME Base, Fresh, NEW t \in Procs, ToStart(t), ~ToStart(t)', UNCHANGED calls,
         \A u \in Procs : call'[u] = call[u] \/ (call'[u] = None /\ ~ToStart(u)'),
         \A u \in Procs : ToStart(u)' => ToStart(u),
         \A s \in Strs : strPc'[s] = strPc[s] \/ (s[1] = call[t] /\ strPc'[s] \in {"run", "held"})
  PROVE  Fresh' /\ \A s \in Strs : ~Unstarted(strPc[s]) => strPc'[s] = strPc[s]
<1>1. \A s \in Strs : ~Unstarted(strPc[s]) => strPc'[s] = strPc[s]
  BY DEF Fresh
<1>2. \A s \in Strs :
           \/ ~Unstarted(strPc[s])
           \/ strPc'[s] = strPc[s]
           \/ \E u \in Procs : ToStart(u) /\ call[u] = s[1] /\ ~ToStart(u)'
  OBVIOUS
<1> QED
  BY <1>1, <1>2, FreshKept

\* Resume starts streamers of its own cycle only.
LEMMA ResumeStartsOwn ==
  ASSUME Base, NEW t \in Procs, Resume(t)
  PROVE  \A s \in Strs :
           strPc'[s] = strPc[s] \/ (s[1] = call[t] /\ strPc'[s] \in {"run", "held"})
<1>1. ASSUME NEW legs \in Outcomes[src], src # Nil,
             startLocked(call[t], legs, FALSE, streams, open)
      PROVE  \A s \in Strs :
               strPc'[s] = strPc[s] \/ (s[1] = call[t] /\ strPc'[s] \in {"run", "held"})
  <2>1. call[t] \in Cycles
    BY CallTypes DEF Base, TypeOK, Resume, Locks
  <2>2. legs \in SUBSET Legs
    BY <1>1, OutcomeTypes DEF Base, TypeOK, LockTypes
  <2>3. CASE legs # {}
    BY <1>1, <2>1, <2>2, <2>3, StartedByOwner DEF startLocked, Base, TypeOK
  <2>4. CASE legs = {}
    BY <1>1, <2>4 DEF startLocked, strVars
  <2> QED
    BY <2>3, <2>4
<1> QED
  BY <1>1 DEF Resume, strVars

\* SeekBy starts streamers of its own cycle only.
LEMMA SeekStartsOwn ==
  ASSUME Base, NEW t \in Procs, SeekRestart(t)
  PROVE  \A s \in Strs :
           strPc'[s] = strPc[s] \/ (s[1] = call[t] /\ strPc'[s] \in {"run", "held"})
<1>1. call[t] \in Cycles
  BY CallTypes DEF Base, TypeOK, SeekRestart, AllStopped
<1>2. src \in Sources /\ paused \in BOOLEAN
  BY DEF SeekRestart, AllStopped, Base, TypeOK, LockTypes, Control, CallOK
<1>3. PICK legs \in Outcomes[src] : startLocked(call[t], legs, paused, None, open \ {streams})
  BY DEF SeekRestart
<1>4. legs \in SUBSET Legs
  BY <1>2, OutcomeTypes
<1>5. CASE legs # {}
  BY <1>1, <1>2, <1>3, <1>4, <1>5, StartedByOwner DEF startLocked, Base, TypeOK
<1>6. CASE legs = {}
  BY <1>3, <1>6 DEF startLocked, strVars
<1> QED
  BY <1>5, <1>6

\* SetSource starts streamers of its own cycle only.
LEMMA InstallStartsOwn ==
  ASSUME Base, NEW t \in Procs, SetSourceInstall(t)
  PROVE  \A s \in Strs :
           strPc'[s] = strPc[s] \/ (s[1] = call[t] /\ strPc'[s] \in {"run", "held"})
<1>1. call[t] \in Cycles
  BY CallTypes DEF Base, TypeOK, SetSourceInstall, AllStopped
<1>2. BuiltLegs(call[t]) \in SUBSET Legs /\ paused \in BOOLEAN
  BY DEF BuiltLegs, Base, TypeOK, LockTypes
<1> QED
  BY <1>1, <1>2, StartedByOwner DEF SetSourceInstall, Base, TypeOK

DoneStays == \A s \in Strs : strPc[s] = "done" => strPc'[s] = "done"

\* No step reuses a cycle, or restarts a run loop that has finished.
LEMMA FreshStep ==
  ASSUME Base, Fresh, [Next]_vars
  PROVE  Fresh' /\ DoneStays
<1>1. ASSUME UNCHANGED <<calls, call, op, pc, strPc>> PROVE Fresh' /\ DoneStays
  BY <1>1 DEF Fresh, ToStart, Unstarted, DoneStays
<1>2. ASSUME NEW t \in Procs, UNCHANGED strPc,
             Return(t) \/ (pc[t] # "return" /\ \E p : GoTo(t, p))
      PROVE  Fresh' /\ DoneStays
  <2>1. /\ UNCHANGED calls
        /\ \A u \in Procs : call'[u] = call[u] \/ (call'[u] = None /\ ~ToStart(u)')
        /\ \A u \in Procs : ToStart(u)' => ToStart(u)
    BY <1>2, ReturnPlaces, GoToPlaces
  <2>2. \A s \in Strs : strPc'[s] = strPc[s]
    BY <1>2
  <2> QED
    BY <2>1, <2>2, FreshKept DEF DoneStays
<1>3. ASSUME NEW t \in Procs, NEW o, NEW p, Enter(t, o, p), UNCHANGED strPc
      PROVE  Fresh' /\ DoneStays
  BY <1>3, FreshEntered DEF DoneStays
<1>4. ASSUME NEW t \in Procs, EnterOp(t) \/ StopEnter(t) PROVE Fresh' /\ DoneStays
  BY <1>3, <1>4 DEF EnterOp, StopEnter, strVars
<1>5. ASSUME NEW t \in Procs, SetSourceOpen(t) PROVE Fresh' /\ DoneStays
  <2>1. PICK s \in Sources : \E legs \in Outcomes[s] \ {{}} :
          Enter(t, "SetSource", "gate") /\ strPc' = MovedTo(StrsOf(calls + 1, legs), "built")
    BY <1>5 DEF SetSourceOpen
  <2>2. PICK legs \in Outcomes[s] \ {{}} :
          Enter(t, "SetSource", "gate") /\ strPc' = MovedTo(StrsOf(calls + 1, legs), "built")
    BY <2>1
  <2>3. \A r \in Strs : strPc'[r] = strPc[r] \/ (r[1] = calls + 1 /\ strPc'[r] = "built")
    BY <2>2 DEF MovedTo, StrsOf, Strs
  <2>4. Fresh'
    BY <2>2, <2>3, FreshEntered
  <2>5. \A r \in Strs : r[1] = calls + 1 => strPc[r] = "none"
    BY ConstantsAssumption DEF Fresh, Base, TypeOK, ProcTypes
  <2>6. DoneStays
    BY <2>3, <2>5 DEF DoneStays
  <2> QED
    BY <2>4, <2>6
<1>6. ASSUME NEW t \in Procs, ToStart(t), ~ToStart(t)',
             Return(t) \/ (pc[t] # "return" /\ \E p : GoTo(t, p)),
             \A s \in Strs :
               strPc'[s] = strPc[s] \/ (s[1] = call[t] /\ strPc'[s] \in {"run", "held"})
      PROVE  Fresh' /\ DoneStays
  <2>1. /\ UNCHANGED calls
        /\ \A u \in Procs : call'[u] = call[u] \/ (call'[u] = None /\ ~ToStart(u)')
        /\ \A u \in Procs : ToStart(u)' => ToStart(u)
    BY <1>6, ReturnPlaces, GoToPlaces
  <2> QED
    BY <1>6, <2>1, FreshStarted DEF DoneStays, Unstarted
<1>7. ASSUME NEW t \in Procs, Continue(t) PROVE Fresh' /\ DoneStays
  <2>1. CASE Pause(t) \/ Mute(t) \/ Unmute(t)
    BY <1>2, <2>1 DEF Pause, Mute, Unmute
  <2>2. CASE Resume(t)
    <3>1. ToStart(t) /\ Return(t) /\ ~ToStart(t)'
      BY <2>2, ReturnPlaces DEF Resume, Locks, ToStart
    <3> QED
      BY <1>6, <2>2, <3>1, ResumeStartsOwn
  <2>3. CASE CancelStreamer(t) \/ JoinStreamer(t)
    BY <1>1, <2>3 DEF CancelStreamer, JoinStreamer, strVars, procVars
  <2>4. CASE SetSourceGate(t) \/ SetSourceLock(t)
    BY <1>2, <2>4 DEF SetSourceGate, SetSourceLock, GiveUp, Locks, strVars
  <2>5. CASE SetSourceInstall(t)
    <3>1. ToStart(t) /\ GoTo(t, "return") /\ pc[t] # "return" /\ ~ToStart(t)'
      BY <2>5, GoToPlaces DEF SetSourceInstall, AllStopped, ToStart
    <3> QED
      BY <1>6, <2>5, <3>1, InstallStartsOwn
  <2>6. CASE SwitchDone(t) \/ SeekUnderflow(t) \/ StopReturn(t)
    BY <1>2, <2>6 DEF SwitchDone, SeekUnderflow, StopReturn, strVars
  <2>7. CASE SeekLock(t)
    <3>1. CASE Return(t)
      BY <1>2, <2>7, <3>1 DEF SeekLock, strVars
    <3>2. CASE ~Return(t)
      <4>1. /\ UNCHANGED <<calls, call, strPc>>
            /\ pc' = [pc EXCEPT ![t] = "stop"]
            /\ op' = op \/ op' = [op EXCEPT ![t] = "Underflow"]
            /\ pc[t] = "lock"
        BY <2>7, <3>2 DEF SeekLock, Locks, strVars
      <4>2. \A u \in Procs : ToStart(u)' => ToStart(u)
        BY <4>1 DEF ToStart, Base, TypeOK, ProcTypes
      <4> QED
        BY <4>1, <4>2, FreshKept DEF DoneStays
    <3> QED
      BY <3>1, <3>2
  <2>8. CASE SeekRestart(t)
    <3>1. ToStart(t) /\ GoTo(t, "return") /\ pc[t] # "return" /\ ~ToStart(t)'
      BY <2>8, GoToPlaces DEF SeekRestart, AllStopped, ToStart
    <3> QED
      BY <1>6, <2>8, <3>1, SeekStartsOwn
  <2>9. CASE StopLock(t) \/ StopReset(t)
    BY <1>2, <2>9 DEF StopLock, StopReset, AllStopped, Locks, strVars
  <2> QED
    BY <1>7, <2>1, <2>2, <2>3, <2>4, <2>5, <2>6, <2>7, <2>8, <2>9 DEF Continue
<1>8. ASSUME NEW s \in Strs, Streamer(s) PROVE Fresh' /\ DoneStays
  <2>1. /\ \A r \in Strs : r # s => strPc'[r] = strPc[r]
        /\ strPc[s] \in {"run", "held", "ending", "submit"} /\ ~Unstarted(strPc'[s])
        /\ UNCHANGED <<calls, call, op, pc>>
    BY <1>8 DEF Streamer, StreamerHold, StreamerRelease, StreamerExit, StreamerEnding,
      StreamerSubmit, Unstarted, procVars, Base, TypeOK, StrTypes
  <2>2. DoneStays
    BY <2>1 DEF DoneStays
  <2>3. \A t \in Procs : ToStart(t)' => ToStart(t)
    BY <2>1 DEF ToStart
  <2>4. \A r \in Strs : ~Unstarted(strPc[r]) \/ strPc'[r] = strPc[r]
    BY <2>1 DEF Unstarted
  <2>5. \A r \in Strs : ~Unstarted(strPc[r]) => ~Unstarted(strPc'[r])
    BY <2>1
  <2> QED
    BY <2>1, <2>2, <2>3, <2>4, <2>5, FreshKept
<1>9. CASE Take \/ EndCheck \/ EndLocked \/ StopSibling \/ CallbackReturn
  BY <1>1, <1>9 DEF Take, EndCheck, EndLocked, StopSibling, CallbackReturn, strVars, procVars
<1>10. CASE DownLock
  <2>1. /\ UNCHANGED <<calls, call, strPc>> /\ Disp \in Procs
        /\ op' = [op EXCEPT ![Disp] = "Down"] /\ pc' = [pc EXCEPT ![Disp] = "stop"]
    BY <1>10 DEF DownLock, strVars, Procs
  <2>2. \A t \in Procs : ToStart(t)' => ToStart(t)
    BY <2>1 DEF ToStart, Base, TypeOK, ProcTypes
  <2> QED
    BY <2>1, <2>2, FreshKept DEF DoneStays
<1>11. CASE DownDone
  BY <1>2, <1>11 DEF DownDone, strVars, Procs
<1>12. CASE NetChange \/ UNCHANGED vars
  BY <1>1, <1>12 DEF NetChange, vars, strVars, procVars
<1> QED
  BY <1>4, <1>5, <1>7, <1>8, <1>9, <1>10, <1>11, <1>12 DEF Next, Dispatcher

-----------------------------------------------------------------------------
(* Every running loop can be reached.                                      *)

\* The streamer of an end that was submitted has finished.
Ended(p, f) == f.kind = "end" => f.str \in Strs /\ p[f.str] = "done"
AllEnded(p, q) == \A i \in 1 .. Len(q) : Ended(p, q[i])

EndsDone ==
  /\ AllEnded(strPc, queue)
  /\ dpc \in {"end", "endlock"} => Ended(strPc, fn)

\* After a Submit the queue holds the new closure and what it held before, no
\* more.
LEMMA SubmittedElements ==
  ASSUME NEW q \in Seq(Closures), NEW f \in Closures, NEW i \in 1 .. Len(Submitted(q, f))
  PROVE  Submitted(q, f)[i] = f \/ \E j \in 1 .. Len(q) : Submitted(q, f)[i] = q[j]
<1>1. CASE Len(q) < QCap
  BY <1>1 DEF Submitted
<1>2. CASE Len(q) >= QCap
  <2>1. q # <<>>
    BY <1>2, ConstantsAssumption
  <2>2. /\ Tail(q) \in Seq(Closures) /\ Len(Tail(q)) = Len(q) - 1
        /\ \A j \in 1 .. Len(Tail(q)) : Tail(q)[j] = q[j + 1]
    BY <2>1
  <2>3. Submitted(q, f) = Append(Tail(q), f)
    BY <1>2, ConstantsAssumption DEF Submitted
  <2>4. i \in 1 .. Len(q)
    BY <2>2, <2>3
  <2>5. CASE i = Len(q)
    BY <2>2, <2>3, <2>5
  <2>6. CASE i # Len(q)
    <3>1. Len(q) \in Nat /\ i \in Nat /\ 1 <= i /\ i <= Len(q)
      BY <2>4
    <3>2. i + 1 <= Len(q) /\ i <= Len(q) - 1 /\ 1 <= i + 1 /\ i + 1 \in Nat
      BY <3>1, <2>6
    <3>3. i \in 1 .. Len(Tail(q)) /\ i + 1 \in 1 .. Len(q)
      BY <3>1, <3>2, <2>2
    <3>4. Append(Tail(q), f)[i] = q[i + 1]
      BY <2>2, <3>3
    <3> QED
      BY <2>3, <3>3, <3>4
  <2> QED
    BY <2>5, <2>6
<1> QED
  BY <1>1, <1>2, ConstantsAssumption

\* Submitting a closure that is not the end of a running streamer is harmless.
LEMMA EndsSubmitted ==
  ASSUME NEW q \in Seq(Closures), NEW f \in Closures, NEW p, AllEnded(p, q), Ended(p, f)
  PROVE  AllEnded(p, Submitted(q, f))
BY SubmittedElements DEF AllEnded

\* A run loop that has ended stays so, and so do the ends reported of it.
LEMMA EndedKept ==
  ASSUME DoneStays, NEW q \in Seq(Closures), AllEnded(strPc, q)
  PROVE  AllEnded(strPc', q)
BY DEF AllEnded, Ended, DoneStays

\* Notifications and tear-downs are no ends.
LEMMA NoEnds ==
  ASSUME NEW p
  PROVE  /\ Ended(p, DownFn) /\ Ended(p, NoFn)
         /\ \A s : Ended(p, ConnFn(s))
         /\ \A m : Ended(p, UpgradeFn(m))
BY DEF Ended, DownFn, NoFn, ConnFn, UpgradeFn

\* Reporting a media state adds no end.
LEMMA EndsUpgraded ==
  ASSUME Base, AllEnded(strPc', queue), NEW m \in BOOLEAN, NEW p \in BOOLEAN, NEW v,
         fireUpgrade(MediaState(m, p, v))
  PROVE  AllEnded(strPc', queue')
<1>1. queue \in Seq(Closures) /\ UpgradeFn(MediaState(m, p, v)) \in Closures
  BY MediaStateType, ClosureTypes DEF Base, TypeOK, DispTypes
<1>2. AllEnded(strPc', Submitted(queue, UpgradeFn(MediaState(m, p, v))))
  BY <1>1, NoEnds, EndsSubmitted
<1> QED
  BY <1>2 DEF fireUpgrade

\* Reporting a connection state adds no end.
LEMMA EndsReported ==
  ASSUME Base, AllEnded(strPc', queue), NEW s \in NetStates, Reports(s)
  PROVE  AllEnded(strPc', queue')
<1>1. queue \in Seq(Closures) /\ DownFn \in Closures /\ ConnFn(s) \in Closures
  BY ClosureTypes DEF Base, TypeOK, DispTypes
<1>2. Submitted(queue, DownFn) \in Seq(Closures) /\ AllEnded(strPc', Submitted(queue, DownFn))
  BY <1>1, NoEnds, EndsSubmitted, SubmittedType
<1>3. /\ AllEnded(strPc', Submitted(queue, ConnFn(s)))
      /\ AllEnded(strPc', Submitted(Submitted(queue, DownFn), ConnFn(s)))
  BY <1>1, <1>2, NoEnds, EndsSubmitted
<1> QED
  BY <1>1, <1>3 DEF Reports

\* An end is queued only by a run loop on its way out.
LEMMA EndsDoneStep ==
  ASSUME Base, Fresh, EndsDone, [Next]_vars
  PROVE  EndsDone'
<1>0. /\ queue \in Seq(Closures) /\ muted \in BOOLEAN /\ paused \in BOOLEAN
      /\ strPc \in [Strs -> {"none", "built", "run", "held", "ending", "submit", "done"}]
  BY DEF Base, TypeOK, DispTypes, LockTypes, StrTypes
<1>1. DoneStays
  BY FreshStep
<1>2. AllEnded(strPc', queue)
  BY <1>0, <1>1, EndedKept DEF EndsDone
<1>3. AllEnded(strPc', queue')
  <2>1. CASE UNCHANGED queue
    BY <1>2, <2>1
  <2>2. ASSUME NEW t \in Procs, EnterOp(t) \/ SetSourceOpen(t) \/ StopEnter(t)
        PROVE  UNCHANGED queue
    BY <2>2 DEF EnterOp, SetSourceOpen, StopEnter
  <2>3. ASSUME NEW t \in Procs, Continue(t) PROVE AllEnded(strPc', queue')
    <3>1. CASE Pause(t) \/ Mute(t) \/ Unmute(t) \/ Resume(t)
      <4>1. UNCHANGED queue \/ \E v : \E m, p \in BOOLEAN : fireUpgrade(MediaState(m, p, v))
        BY <1>0, <3>1 DEF Pause, Mute, Unmute, Resume
      <4> QED
        BY <1>2, <2>1, <4>1, EndsUpgraded
    <3>2. CASE StopReturn(t)
      BY <1>2, <2>1, <3>2, EndsReported DEF StopReturn, NetStates
    <3> QED
      BY <2>1, <2>3, <3>1, <3>2 DEF Continue, CancelStreamer, JoinStreamer, SetSourceGate,
        SetSourceLock, SetSourceInstall, SwitchDone, SeekLock, SeekUnderflow, SeekRestart,
        StopLock, StopReset
  <2>4. ASSUME NEW s \in Strs, Streamer(s) PROVE AllEnded(strPc', queue')
    <3>1. CASE StreamerSubmit(s)
      <4>1. EndFn(s) \in Closures /\ queue' = Submitted(queue, EndFn(s))
        BY <3>1, ClosureTypes DEF StreamerSubmit
      <4>2. Ended(strPc', EndFn(s))
        BY <1>0, <3>1 DEF StreamerSubmit, Ended, EndFn
      <4> QED
        BY <1>0, <1>2, <4>1, <4>2, EndsSubmitted
    <3> QED
      BY <2>1, <2>4, <3>1 DEF Streamer, StreamerHold, StreamerRelease, StreamerExit,
        StreamerEnding
  <2>5. CASE Take
    <3>1. queue # <<>> /\ queue' = Tail(queue)
      BY <2>5 DEF Take
    <3>2. \A i \in 1 .. Len(queue') : queue'[i] = queue[i + 1] /\ i + 1 \in 1 .. Len(queue)
      BY <1>0, <3>1
    <3> QED
      BY <1>2, <3>2 DEF AllEnded
  <2>6. CASE DownDone
    <3>1. UpgradeFn(currentState) \in Closures
      BY <1>0, MediaStateType, ClosureTypes DEF currentState
    <3> QED
      BY <1>0, <1>2, <2>1, <2>6, <3>1, NoEnds, EndsSubmitted DEF DownDone
  <2>7. CASE EndCheck \/ EndLocked \/ StopSibling \/ CallbackReturn \/ DownLock
    BY <2>1, <2>7 DEF EndCheck, EndLocked, StopSibling, CallbackReturn, DownLock
  <2>8. CASE NetChange
    <3>1. PICK s \in Reported : Reports(s)
      BY <2>8 DEF NetChange
    <3> QED
      BY <1>2, <3>1, EndsReported, ConstantsAssumption DEF NetStates
  <2>9. CASE UNCHANGED vars
    BY <2>1, <2>9 DEF vars
  <2> QED
    BY <2>1, <2>2, <2>3, <2>4, <2>5, <2>6, <2>7, <2>8, <2>9 DEF Next, Dispatcher
<1>4. dpc' \in {"end", "endlock"} => Ended(strPc', fn')
  <2>1. CASE Take
    <3>1. queue # <<>> /\ fn' = Head(queue)
      BY <2>1 DEF Take
    <3>2. fn' = queue[1] /\ 1 \in 1 .. Len(queue)
      BY <1>0, <3>1
    <3> QED
      BY <1>2, <3>2 DEF AllEnded
  <2>2. CASE dpc' \in {"end", "endlock"} /\ dpc \in {"end", "endlock"} /\ UNCHANGED fn
    BY <1>1, <2>2 DEF EndsDone, Ended, DoneStays
  <2>3. CASE ~Dispatcher
    BY <2>2, <2>3, DispFrame DEF dispVars
  <2>4. CASE EndCheck \/ EndLocked \/ StopSibling \/ CallbackReturn
    BY <2>2, <2>4 DEF EndCheck, EndLocked, StopSibling, CallbackReturn
  <2>5. CASE DownLock \/ DownDone
    BY <2>5 DEF DownLock, DownDone
  <2> QED
    BY <2>1, <2>3, <2>4, <2>5 DEF Dispatcher
<1> QED
  BY <1>3, <1>4 DEF EndsDone

\* The sibling is remembered only while it is being stopped; a running loop is
\* installed, or is that sibling.
Reach ==
  /\ dpc # "sibling" => sibling = {}
  /\ NoOrphanStreamer

\* Starting streamers when none is installed leaves the old running ones where
\* they were, beside the new ones.
LEMMA ReachStarted ==
  ASSUME NoOrphanStreamer, UNCHANGED sibling, Installed = {},
         NEW c \in Cycles, NEW legs \in SUBSET Legs, cur' = Install(c, legs),
         \A s \in Strs : s \notin StrsOf(c, legs) => strPc'[s] = strPc[s]
  PROVE  NoOrphanStreamer'
<1>1. Installed' = StrsOf(c, legs)
  BY InstalledByInstall
<1>2. \A s \in Strs : s \in Running => s \in sibling
  BY DEF NoOrphanStreamer
<1>3. ASSUME NEW s \in Running' PROVE s \in Installed' \cup sibling'
  <2>1. s \in Strs
    BY DEF Running
  <2>2. CASE s \notin StrsOf(c, legs)
    BY <1>2, <2>1, <2>2 DEF Running
  <2> QED
    BY <1>1, <2>2
<1> QED
  BY <1>3 DEF NoOrphanStreamer

\* With nothing installed before, what startLocked starts is what it installs.
LEMMA ReachRestarted ==
  ASSUME NoOrphanStreamer, UNCHANGED sibling, Installed = {},
         NEW c \in Cycles, NEW legs \in SUBSET Legs, NEW p, NEW kept, NEW stillOpen,
         startLocked(c, legs, p, kept, stillOpen)
  PROVE  NoOrphanStreamer'
<1>1. CASE legs # {}
  BY <1>1, ReachStarted DEF startLocked, Started, MovedTo
<1>2. CASE legs = {}
  BY <1>2 DEF startLocked, strVars, NoOrphanStreamer, Running, Installed
<1> QED
  BY <1>1, <1>2

\* No step takes a running streamer off the call without stopping it, but the
\* first end, which keeps its sibling at hand.
LEMMA ReachStep ==
  ASSUME Base, Reach, EndsDone, [Next]_vars
  PROVE  Reach'
<1>0. /\ strPc \in [Strs -> {"none", "built", "run", "held", "ending", "submit", "done"}]
      /\ cur \in [Legs -> Cycles \cup {None}]
  BY DEF Base, TypeOK, StrTypes, LockTypes
<1>1. NoOrphanStreamer /\ (dpc # "sibling" => sibling = {})
  BY DEF Reach
<1>2. dpc' # "sibling" => sibling' = {}
  <2>1. CASE ~Dispatcher
    BY <1>1, <2>1, DispFrame DEF dispVars
  <2>2. CASE Dispatcher
    <3>1. CASE Take \/ EndCheck \/ CallbackReturn \/ DownLock \/ DownDone
      <4>1. dpc # "sibling" /\ UNCHANGED sibling
        BY <3>1 DEF Take, EndCheck, CallbackReturn, DownLock, DownDone, AllStopped, Base, Control,
          ReentryOK, PlaceOK, Procs
      <4> QED
        BY <1>1, <4>1
    <3>2. CASE EndLocked \/ StopSibling
      BY <1>1, <3>2 DEF EndLocked, StopSibling
    <3> QED
      BY <2>2, <3>1, <3>2 DEF Dispatcher
  <2> QED
    BY <2>1, <2>2
<1> SUFFICES NoOrphanStreamer'
  BY <1>2 DEF Reach
<1>3. CASE UNCHANGED <<cur, sibling>> /\ \A s \in Strs : s \in Running' => s \in Running
  BY <1>1, <1>3 DEF NoOrphanStreamer, Running, Installed
<1>4. CASE UNCHANGED <<cur, sibling, strPc>>
  BY <1>3, <1>4 DEF Running
<1>5. ASSUME ~Dispatcher PROVE UNCHANGED sibling
  BY <1>5, DispFrame DEF dispVars
<1>6. ASSUME NEW t \in Procs, EnterOp(t) \/ StopEnter(t) PROVE NoOrphanStreamer'
  BY <1>4, <1>6 DEF EnterOp, StopEnter, lockVars, strVars, dispVars
<1>7. ASSUME NEW t \in Procs, SetSourceOpen(t) PROVE NoOrphanStreamer'
  <2>1. PICK S : strPc' = MovedTo(S, "built")
    BY <1>7 DEF SetSourceOpen
  <2>2. \A s \in Strs : s \in Running' => s \in Running
    BY <2>1 DEF MovedTo, Running
  <2> QED
    BY <1>3, <1>7, <2>2 DEF SetSourceOpen, lockVars, dispVars
<1>8. ASSUME NEW t \in Procs, Continue(t), UNCHANGED sibling PROVE NoOrphanStreamer'
  <2>1. CASE Pause(t) \/ Mute(t) \/ Unmute(t) \/ CancelStreamer(t)
    BY <1>4, <1>8, <2>1 DEF Pause, Mute, Unmute, CancelStreamer, lockVars
  <2>2. CASE Resume(t)
    <3>1. CASE UNCHANGED <<cur, strPc>>
      BY <1>4, <1>8, <3>1
    <3>2. ASSUME Installed = {}, src # Nil, NEW legs \in Outcomes[src],
                 startLocked(call[t], legs, FALSE, streams, open)
          PROVE  NoOrphanStreamer'
      <4>1. call[t] \in Cycles
        BY <2>2, CallTypes DEF Base, TypeOK, Resume, Locks
      <4>2. legs \in SUBSET Legs
        BY <3>2, OutcomeTypes DEF Base, TypeOK, LockTypes
      <4> QED
        BY <1>1, <1>8, <3>2, <4>1, <4>2, ReachRestarted
    <3> QED
      BY <2>2, <3>1, <3>2 DEF Resume, lockVars, strVars
  <2>3. CASE JoinStreamer(t)
    <3> DEFINE j == <<cur[StopNext], StopNext>>
    <3>1. /\ strPc[j] = "done" /\ cur' = [cur EXCEPT ![StopNext] = None]
          /\ UNCHANGED strPc
      BY <2>3 DEF JoinStreamer, strVars
    <3>2. \A s \in Strs : s = <<s[1], s[2]>> /\ s[2] \in Legs
      BY DEF Strs
    <3>3. ASSUME NEW s \in Strs, s \in Running PROVE s \in Installed' \cup sibling'
      <4>1. s # j
        BY <3>1, <3>3 DEF Running
      <4>2. s \in Installed \cup sibling
        BY <1>1, <3>3 DEF NoOrphanStreamer
      <4>3. s \in Installed => s[2] # StopNext
        BY <3>2, <4>1 DEF Installed
      <4>4. s \in Installed => s \in Installed'
        BY <1>0, <3>1, <3>2, <4>3 DEF Installed
      <4> QED
        BY <1>8, <4>2, <4>4
    <3> QED
      BY <3>1, <3>3 DEF NoOrphanStreamer, Running
  <2>4. CASE SetSourceGate(t) \/ SetSourceLock(t) \/ SwitchDone(t) \/ SeekLock(t)
    BY <1>4, <1>8, <2>4 DEF SetSourceGate, SetSourceLock, SwitchDone, SeekLock, lockVars, strVars
  <2>5. CASE SetSourceInstall(t)
    <3>1. call[t] \in Cycles /\ BuiltLegs(call[t]) \in SUBSET Legs
      BY <2>5, CallTypes DEF Base, TypeOK, SetSourceInstall, AllStopped, BuiltLegs
    <3>2. /\ Installed = {} /\ cur' = Install(call[t], BuiltLegs(call[t]))
          /\ strPc' = Started(StrsOf(call[t], BuiltLegs(call[t])), paused)
      BY <2>5 DEF SetSourceInstall, AllStopped
    <3>3. \A s \in Strs :
            s \notin StrsOf(call[t], BuiltLegs(call[t])) => strPc'[s] = strPc[s]
      BY <3>2 DEF Started, MovedTo
    <3> QED
      BY <1>1, <1>8, <3>1, <3>2, <3>3, ReachStarted
  <2>6. CASE SeekRestart(t)
    <3>1. call[t] \in Cycles
      BY <2>6, CallTypes DEF Base, TypeOK, SeekRestart, AllStopped
    <3>2. src \in Sources /\ Installed = {}
      BY <2>6 DEF SeekRestart, AllStopped, Base, Control, CallOK
    <3>3. PICK legs \in Outcomes[src] :
            startLocked(call[t], legs, paused, None, open \ {streams})
      BY <2>6 DEF SeekRestart
    <3>4. legs \in SUBSET Legs
      BY <3>2, OutcomeTypes
    <3> QED
      BY <1>1, <1>8, <3>1, <3>2, <3>3, <3>4, ReachRestarted
  <2>7. CASE SeekUnderflow(t) \/ StopLock(t) \/ StopReset(t) \/ StopReturn(t)
    BY <1>4, <1>8, <2>7 DEF SeekUnderflow, StopLock, StopReset, StopReturn, lockVars, strVars
  <2> QED
    BY <1>8, <2>1, <2>2, <2>3, <2>4, <2>5, <2>6, <2>7 DEF Continue
<1>9. ASSUME NEW s \in Strs, Streamer(s) PROVE NoOrphanStreamer'
  <2>1. /\ s \in Running /\ \A r \in Strs : r # s => strPc'[r] = strPc[r]
        /\ UNCHANGED <<cur, sibling>>
    BY <1>0, <1>9 DEF Streamer, StreamerHold, StreamerRelease, StreamerExit, StreamerEnding,
      StreamerSubmit, Running, lockVars, dispVars
  <2>2. \A r \in Strs : r \in Running' => r \in Running
    BY <2>1 DEF Running
  <2> QED
    BY <1>3, <2>1, <2>2
<1>10. CASE Take \/ EndCheck \/ CallbackReturn \/ DownLock \/ DownDone
  BY <1>4, <1>10 DEF Take, EndCheck, CallbackReturn, DownLock, DownDone, lockVars, strVars
<1>11. CASE EndLocked
  <2>1. CASE UNCHANGED <<cur, sibling>>
    BY <1>4, <1>11, <2>1 DEF EndLocked, strVars
  <2>2. CASE ~Stale(fn.str) /\ sibling' = SiblingOf(fn.str)
    <3>1. /\ fn.str \in Strs /\ strPc[fn.str] = "done" /\ sibling = {}
      BY <1>1, <1>11 DEF EndLocked, EndsDone, Ended, Base, FnOK
    <3>2. \A s \in Strs : s = <<s[1], s[2]>> /\ s[1] # None
      BY ConstantsAssumption DEF Strs, Cycles, None
    <3>3. ASSUME NEW s \in Strs, s \in Running PROVE s \in sibling'
      <4>1. s \in Installed /\ s # fn.str
        BY <1>1, <3>1, <3>3 DEF NoOrphanStreamer, Running
      <4>2. s[2] # fn.str[2]
        BY <2>2, <3>1, <3>2, <4>1 DEF Stale, Installed
      <4> QED
        BY <2>2, <4>1, <4>2 DEF SiblingOf
    <3>4. UNCHANGED strPc
      BY <1>11 DEF EndLocked, strVars
    <3> QED
      BY <3>3, <3>4 DEF NoOrphanStreamer, Running
  <2> QED
    BY <1>11, <2>1, <2>2 DEF EndLocked
<1>12. CASE StopSibling
  <2>1. UNCHANGED <<cur, strPc>> /\ (UNCHANGED sibling \/ (sibling' = {} /\ Joined(sibling)))
    BY <1>12 DEF StopSibling, lockVars
  <2>2. Joined(sibling) => \A s \in sibling : s \notin Running
    BY DEF Joined, Running
  <2> QED
    BY <1>1, <1>4, <2>1, <2>2 DEF NoOrphanStreamer, Running, Installed
<1>13. CASE NetChange \/ UNCHANGED vars
  BY <1>4, <1>13 DEF NetChange, vars, lockVars, strVars, dispVars
<1>14. ASSUME NEW t \in Procs, Continue(t), Dispatcher PROVE NoOrphanStreamer'
  BY <1>5, <1>8, <1>10, <1>11, <1>12, <1>14 DEF Dispatcher
<1> QED
  BY <1>5, <1>6, <1>7, <1>8, <1>9, <1>10, <1>11, <1>12, <1>13, <1>14 DEF Next, Dispatcher

Safe == Base /\ Fresh /\ EndsDone /\ Reach /\ Final

\* The parts of Safe hold together: each relies on the ones before it.
LEMMA SafeInvariant == Spec => []Safe
<1>1. Init => Fresh /\ EndsDone /\ Reach /\ Final
  <2> SUFFICES ASSUME Init PROVE Fresh /\ EndsDone /\ Reach /\ Final
    OBVIOUS
  <2>1. Fresh
    BY ConstantsAssumption DEF Init, Fresh, ToStart, None
  <2>2. EndsDone
    BY DEF Init, EndsDone, AllEnded
  <2>3. Reach
    BY DEF Init, Reach, NoOrphanStreamer, Running
  <2>4. Final
    BY DEF Init, Final
  <2> QED
    BY <2>1, <2>2, <2>3, <2>4
<1>2. Safe /\ [Next]_vars => Safe'
  <2> SUFFICES ASSUME Safe, [Next]_vars PROVE Safe'
    OBVIOUS
  <2>1. Base' /\ Fresh'
    BY BaseStep, FreshStep DEF Safe
  <2>2. EndsDone' /\ Reach'
    BY EndsDoneStep, ReachStep DEF Safe
  <2>3. Final'
    BY FinalStep DEF Safe
  <2> QED
    BY <2>1, <2>2, <2>3 DEF Safe
<1>3. Init => Safe
  BY <1>1, BaseInit DEF Safe
<1> QED
  BY <1>2, <1>3, PTL DEF Spec

\* Every run loop that has not finished is installed, or is the sibling the
\* dispatcher is stopping: none is ever lost to Pause, Mute and Stop.
THEOREM NoOrphanStreamerHolds == Spec => []NoOrphanStreamer
BY SafeInvariant, PTL DEF Safe, Reach

\* Stop is final: once its section has run, a SetSource, Resume or SeekBy that
\* was under way can no longer install anything.
THEOREM StopIsFinalHolds == Spec => []StopIsFinal
<1>1. Safe => StopIsFinal
  BY DEF Safe, Final, Reach, StopIsFinal, NoOrphanStreamer
<1> QED
  BY <1>1, SafeInvariant, PTL

-----------------------------------------------------------------------------
(* What one step may do to the calls and to the streamers.                 *)

\* A call that may start streamers goes on under its number, or has just been
\* given the next one.
LEMMA CallStep ==
  ASSUME Base, [Next]_vars
  PROVE  /\ calls' \in {calls, calls + 1}
         /\ \A t \in Procs : ToStart(t)' =>
              \/ ToStart(t) /\ call'[t] = call[t] /\ op'[t] = op[t]
              \/ /\ call'[t] = calls + 1 /\ calls' = calls + 1
                 /\ op'[t] = "SetSource" => SetSourceOpen(t)
<1> DEFINE Goal == /\ calls' \in {calls, calls + 1}
                   /\ \A t \in Procs : ToStart(t)' =>
                        \/ ToStart(t) /\ call'[t] = call[t] /\ op'[t] = op[t]
                        \/ /\ call'[t] = calls + 1 /\ calls' = calls + 1
                           /\ op'[t] = "SetSource" => SetSourceOpen(t)
<1> SUFFICES Goal
  OBVIOUS
<1> USE DEF Base, TypeOK, ProcTypes
<1>1. CASE UNCHANGED <<calls, pc, op, call>>
  BY <1>1 DEF ToStart
<1>2. ASSUME NEW t \in Procs, Return(t) PROVE Goal
  BY <1>2 DEF Return, ToStart
<1>3. ASSUME NEW t \in Procs, NEW p, GoTo(t, p), pc[t] # "return" PROVE Goal
  BY <1>3 DEF GoTo, ToStart
<1>4. ASSUME NEW t \in Procs, NEW o, NEW p, Enter(t, o, p), o = "SetSource" => SetSourceOpen(t)
      PROVE  Goal
  BY <1>4 DEF Enter, ToStart
<1>5. ASSUME NEW t \in Procs, EnterOp(t) \/ SetSourceOpen(t) \/ StopEnter(t) PROVE Goal
  <2>1. CASE EnterOp(t)
    <3>1. PICK o \in Toggles \cup {"SeekBy"} : Enter(t, o, "lock")
      BY <2>1 DEF EnterOp
    <3> QED
      BY <1>4, <3>1 DEF Toggles
  <2>2. CASE SetSourceOpen(t)
    <3>1. Enter(t, "SetSource", "gate")
      BY <2>2 DEF SetSourceOpen
    <3> QED
      BY <1>4, <2>2, <3>1
  <2>3. CASE StopEnter(t)
    BY <1>4, <2>3 DEF StopEnter
  <2> QED
    BY <1>5, <2>1, <2>2, <2>3
<1>6. ASSUME NEW t \in Procs, Continue(t) PROVE Goal
  <2>1. CASE UNCHANGED <<calls, pc, op, call>>
    BY <1>1, <2>1
  <2>2. CASE Return(t) \/ (pc[t] # "return" /\ \E p : GoTo(t, p))
    BY <1>2, <1>3, <2>2
  <2>3. CASE SeekLock(t) /\ ~Return(t)
    <3>1. /\ UNCHANGED <<calls, call>> /\ pc[t] = "lock" /\ op[t] = "SeekBy"
          /\ pc' = [pc EXCEPT ![t] = "stop"]
          /\ op' = op \/ op' = [op EXCEPT ![t] = "Underflow"]
      BY <2>3 DEF SeekLock, Locks
    <3> QED
      BY <3>1 DEF ToStart
  <2> QED
    BY <1>6, <2>1, <2>2, <2>3 DEF Continue, Pause, Resume, Mute, Unmute, CancelStreamer,
      JoinStreamer, SetSourceGate, SetSourceLock, SetSourceInstall, SwitchDone, SeekLock,
      SeekUnderflow, SeekRestart, StopLock, StopReset, StopReturn, GiveUp, Locks, AllStopped,
      procVars
<1>7. ASSUME NEW s \in Strs, Streamer(s) PROVE Goal
  BY <1>1, <1>7 DEF Streamer, StreamerHold, StreamerRelease, StreamerExit, StreamerEnding,
    StreamerSubmit, procVars
<1>8. CASE Take \/ EndCheck \/ EndLocked \/ StopSibling \/ CallbackReturn
  BY <1>1, <1>8 DEF Take, EndCheck, EndLocked, StopSibling, CallbackReturn, procVars
<1>9. CASE DownLock
  BY <1>9 DEF DownLock, ToStart, Procs
<1>10. CASE DownDone
  BY <1>2, <1>10 DEF DownDone, Procs
<1>11. CASE NetChange \/ UNCHANGED vars
  BY <1>1, <1>11 DEF NetChange, vars, procVars
<1> QED
  BY <1>5, <1>6, <1>7, <1>8, <1>9, <1>10, <1>11 DEF Next, Dispatcher

Alive == {"run", "held", "ending", "submit"}

\* How a streamer may move: it is built for a call that has just got its number,
\* started by the call it belongs to, or runs on; one that is done stays so.
StreamerMoves(s) ==
  \/ strPc'[s] = strPc[s]
  \/ strPc[s] = "none" /\ strPc'[s] = "built" /\ s[1] = calls + 1
  \/ /\ Unstarted(strPc[s]) /\ strPc'[s] \in {"run", "held"}
     /\ \E t \in Procs : ToStart(t) /\ ~ToStart(t)' /\ call[t] = s[1]
  \/ strPc[s] \in Alive /\ strPc'[s] \in Alive \cup {"done"}

\* Every step moves every streamer in one of these ways.
LEMMA StreamerStep ==
  ASSUME Base, Fresh, [Next]_vars
  PROVE  \A s \in Strs : StreamerMoves(s)
<1>0. strPc \in [Strs -> {"none", "built", "run", "held", "ending", "submit", "done"}]
  BY DEF Base, TypeOK, StrTypes
<1>1. CASE UNCHANGED strPc
  BY <1>1 DEF StreamerMoves
<1>2. ASSUME NEW t \in Procs, ToStart(t), ~ToStart(t)',
             \A s \in Strs :
               strPc'[s] = strPc[s] \/ (s[1] = call[t] /\ strPc'[s] \in {"run", "held"})
      PROVE  \A s \in Strs : StreamerMoves(s)
  BY <1>2 DEF StreamerMoves, Fresh
<1>3. ASSUME NEW t \in Procs, EnterOp(t) \/ StopEnter(t) PROVE UNCHANGED strPc
  BY <1>3 DEF EnterOp, StopEnter, strVars
<1>4. ASSUME NEW t \in Procs, SetSourceOpen(t) PROVE \A s \in Strs : StreamerMoves(s)
  <2>1. PICK legs : strPc' = MovedTo(StrsOf(calls + 1, legs), "built")
    BY <1>4 DEF SetSourceOpen
  <2>2. \A s \in Strs : s[1] = calls + 1 => strPc[s] = "none"
    BY ConstantsAssumption DEF Fresh, Base, TypeOK, ProcTypes
  <2>3. \A s \in Strs : strPc'[s] = strPc[s] \/ (s[1] = calls + 1 /\ strPc'[s] = "built")
    BY <2>1 DEF MovedTo, StrsOf, Strs
  <2> QED
    BY <2>2, <2>3 DEF StreamerMoves
<1>5. ASSUME NEW t \in Procs, Continue(t) PROVE \A s \in Strs : StreamerMoves(s)
  <2>1. CASE Resume(t)
    <3>1. ToStart(t) /\ Return(t) /\ ~ToStart(t)'
      BY <2>1, ReturnPlaces DEF Resume, Locks, ToStart
    <3> QED
      BY <1>2, <2>1, <3>1, ResumeStartsOwn
  <2>2. CASE SetSourceInstall(t)
    <3>1. ToStart(t) /\ GoTo(t, "return") /\ pc[t] # "return" /\ ~ToStart(t)'
      BY <2>2, GoToPlaces DEF SetSourceInstall, AllStopped, ToStart
    <3> QED
      BY <1>2, <2>2, <3>1, InstallStartsOwn
  <2>3. CASE SeekRestart(t)
    <3>1. ToStart(t) /\ GoTo(t, "return") /\ pc[t] # "return" /\ ~ToStart(t)'
      BY <2>3, GoToPlaces DEF SeekRestart, AllStopped, ToStart
    <3> QED
      BY <1>2, <2>3, <3>1, SeekStartsOwn
  <2>4. CASE ~Resume(t) /\ ~SetSourceInstall(t) /\ ~SeekRestart(t)
    BY <1>1, <1>5, <2>4 DEF Continue, Pause, Mute, Unmute, CancelStreamer, JoinStreamer,
      SetSourceGate, SetSourceLock, SwitchDone, SeekLock, SeekUnderflow, StopLock, StopReset,
      StopReturn, strVars
  <2> QED
    BY <2>1, <2>2, <2>3, <2>4
<1>6. ASSUME NEW s \in Strs, Streamer(s) PROVE \A r \in Strs : StreamerMoves(r)
  <2>1. /\ \A r \in Strs : r # s => strPc'[r] = strPc[r]
        /\ strPc[s] \in Alive /\ strPc'[s] \in Alive \cup {"done"}
    BY <1>0, <1>6 DEF Streamer, StreamerHold, StreamerRelease, StreamerExit, StreamerEnding,
      StreamerSubmit, Alive
  <2> QED
    BY <2>1 DEF StreamerMoves
<1>7. CASE Dispatcher
  BY <1>1, <1>7 DEF Dispatcher, Take, EndCheck, EndLocked, StopSibling, CallbackReturn, DownLock,
    DownDone, strVars
<1>8. CASE NetChange \/ UNCHANGED vars
  BY <1>1, <1>8 DEF NetChange, vars, strVars
<1> QED
  BY <1>3, <1>4, <1>5, <1>6, <1>7, <1>8, <1>1 DEF Next

-----------------------------------------------------------------------------
(* OnStreamEnd comes after the streamers of its source are quiet.          *)

\* A SetSource on its way has something to install, so the call's legs are known
\* once a streamer ran, and a callback always has an event to tell.
HasLegs ==
  /\ had = {} => \A s \in Strs : Unstarted(strPc[s])
  /\ \A t \in Procs : op[t] = "SetSource" /\ pc[t] # "return" => BuiltLegs(call[t]) # {}
  /\ dpc \in {"sibling", "callback"} => todo # <<>>

\* A number under which nothing can be started any more.
Spent(c) == c \in 1 .. calls /\ \A t \in Procs : ToStart(t) => call[t] # c

\* What is still to be told of an end is about streamers none of which can start
\* any more, and none of which runs but the sibling.
Quiet ==
  \A i \in 1 .. Len(todo) : todo[i].kind = "ended" =>
    /\ Spent(todo[i].cycle)
    /\ \A l \in Legs : <<todo[i].cycle, l>> \in Running => <<todo[i].cycle, l>> \in sibling

\* The events of an end name its cycle; with a leg known there is one.
LEMMA EndEventsCycle ==
  ASSUME NEW c \in Cycles, NEW legs \in SUBSET Legs
  PROVE  /\ \A i \in 1 .. Len(EndEvents(c, legs)) : EndEvents(c, legs)[i].cycle = c
         /\ legs # {} => EndEvents(c, legs) # <<>>
<1> DEFINE v == [kind |-> "ended", cycle |-> c, leg |-> "video"]
           a == [kind |-> "ended", cycle |-> c, leg |-> "audio"]
<1>1. v \in Events /\ a \in Events /\ v.cycle = c /\ a.cycle = c
  BY DEF Events, Legs
<1> DEFINE first == IF "video" \in legs THEN <<v>> ELSE <<>>
           second == IF "audio" \in legs THEN <<a>> ELSE <<>>
<1>2. EndEvents(c, legs) = first \o second
  BY DEF EndEvents
<1>3. /\ first \in Seq(Events) /\ second \in Seq(Events)
      /\ \A i \in 1 .. Len(first) : first[i] = v
      /\ \A i \in 1 .. Len(second) : second[i] = a
      /\ "video" \in legs => Len(first) = 1
      /\ "audio" \in legs => Len(second) = 1
  <2> HIDE DEF v, a
  <2>1. /\ <<v>> \in Seq(Events) /\ <<a>> \in Seq(Events) /\ <<>> \in Seq(Events)
        /\ Len(<<v>>) = 1 /\ Len(<<a>>) = 1
        /\ \A i \in 1 .. Len(<<v>>) : <<v>>[i] = v
        /\ \A i \in 1 .. Len(<<a>>) : <<a>>[i] = a
        /\ 1 .. Len(<<>>) = {}
    <3>1. <<v>> \in Seq(Events) /\ <<a>> \in Seq(Events) /\ <<>> \in Seq(Events)
      BY <1>1
    <3>2. Len(<<v>>) = 1 /\ Len(<<a>>) = 1 /\ <<v>>[1] = v /\ <<a>>[1] = a
      OBVIOUS
    <3>3. 1 .. Len(<<>>) = {}
      OBVIOUS
    <3>4. (\A i \in 1 .. Len(<<v>>) : i = 1) /\ \A i \in 1 .. Len(<<a>>) : i = 1
      BY <3>2
    <3> QED
      BY <3>1, <3>2, <3>3, <3>4
  <2>2. CASE "video" \in legs
    <3>1. first = <<v>>
      BY <2>2
    <3>2. CASE "audio" \in legs
      <4>1. second = <<a>>
        BY <3>2
      <4> QED
        BY <2>1, <3>1, <4>1
    <3>3. CASE "audio" \notin legs
      <4>1. second = <<>>
        BY <3>3
      <4> QED
        BY <2>1, <3>1, <3>3, <4>1
    <3> QED
      BY <3>2, <3>3
  <2>3. CASE "video" \notin legs
    <3>1. first = <<>>
      BY <2>3
    <3>2. CASE "audio" \in legs
      <4>1. second = <<a>>
        BY <3>2
      <4> QED
        BY <2>1, <2>3, <3>1, <4>1
    <3>3. CASE "audio" \notin legs
      <4>1. second = <<>>
        BY <3>3
      <4> QED
        BY <2>1, <2>3, <3>1, <3>3, <4>1
    <3> QED
      BY <3>2, <3>3
  <2> QED
    BY <2>2, <2>3
<1> HIDE DEF v, a, first, second
<1>4. /\ Len(first \o second) = Len(first) + Len(second)
      /\ Len(first) \in Nat /\ Len(second) \in Nat
      /\ \A i \in 1 .. Len(first \o second) :
           \/ i \in 1 .. Len(first) /\ (first \o second)[i] = first[i]
           \/ i - Len(first) \in 1 .. Len(second) /\ (first \o second)[i] = second[i - Len(first)]
  BY <1>3
<1>5. legs # {} => Len(first \o second) > 0
  <2>1. legs # {} => "audio" \in legs \/ "video" \in legs
    BY DEF Legs
  <2> QED
    BY <1>3, <1>4, <2>1
<1>6. legs # {} => first \o second # <<>>
  BY <1>3, <1>5
<1> QED
  BY <1>1, <1>2, <1>3, <1>4, <1>6

\* startLocked notes the legs of what it starts.
LEMMA StartedLegs ==
  ASSUME NEW c, NEW legs, NEW p, NEW kept, NEW stillOpen,
         startLocked(c, legs, p, kept, stillOpen)
  PROVE  had' # {} \/ UNCHANGED <<had, strPc>>
BY DEF startLocked, strVars

\* A step that starts a streamer leaves a leg known; no step forgets the legs.
LEMMA LegsStep ==
  ASSUME Base, HasLegs, [Next]_vars
  PROVE  \/ had' # {}
         \/ /\ UNCHANGED had
            /\ \A s \in Strs : \/ strPc'[s] = strPc[s] \/ strPc'[s] = "built"
                               \/ strPc[s] \in Alive
<1> DEFINE Goal == \/ had' # {}
                   \/ /\ UNCHANGED had
                      /\ \A s \in Strs : \/ strPc'[s] = strPc[s] \/ strPc'[s] = "built"
                                         \/ strPc[s] \in Alive
<1> SUFFICES Goal
  OBVIOUS
<1>1. CASE UNCHANGED <<had, strPc>>
  BY <1>1
<1>2. ASSUME NEW t \in Procs, EnterOp(t) \/ StopEnter(t) PROVE Goal
  BY <1>1, <1>2 DEF EnterOp, StopEnter, lockVars, strVars
<1>3. ASSUME NEW t \in Procs, SetSourceOpen(t) PROVE Goal
  <2>1. PICK S : strPc' = MovedTo(S, "built")
    BY <1>3 DEF SetSourceOpen
  <2> QED
    BY <1>3, <2>1 DEF SetSourceOpen, MovedTo, lockVars
<1>4. ASSUME NEW t \in Procs, Continue(t) PROVE Goal
  <2>1. CASE Resume(t)
    <3>1. \/ UNCHANGED <<had, strPc>>
          \/ \E legs \in Outcomes[src] : startLocked(call[t], legs, FALSE, streams, open)
      BY <2>1 DEF Resume, lockVars, strVars
    <3> QED
      BY <1>1, <3>1, StartedLegs
  <2>2. CASE SeekRestart(t)
    <3>1. \E legs \in Outcomes[src] : startLocked(call[t], legs, paused, None, open \ {streams})
      BY <2>2 DEF SeekRestart
    <3> QED
      BY <1>1, <3>1, StartedLegs
  <2>3. CASE SetSourceInstall(t)
    BY <2>3 DEF SetSourceInstall, AllStopped, HasLegs
  <2>4. CASE ~Resume(t) /\ ~SetSourceInstall(t) /\ ~SeekRestart(t)
    BY <1>1, <1>4, <2>4 DEF Continue, Pause, Mute, Unmute, CancelStreamer, JoinStreamer,
      SetSourceGate, SetSourceLock, SwitchDone, SeekLock, SeekUnderflow, StopLock, StopReset,
      StopReturn, lockVars, strVars
  <2> QED
    BY <2>1, <2>2, <2>3, <2>4
<1>5. ASSUME NEW s \in Strs, Streamer(s) PROVE Goal
  <2>1. /\ \A r \in Strs : r # s => strPc'[r] = strPc[r]
        /\ strPc[s] \in Alive /\ UNCHANGED had
    BY <1>5 DEF Streamer, StreamerHold, StreamerRelease, StreamerExit, StreamerEnding,
      StreamerSubmit, Alive, Base, TypeOK, StrTypes, lockVars
  <2> QED
    BY <2>1
<1>6. CASE Dispatcher
  BY <1>1, <1>6 DEF Dispatcher, Take, EndCheck, EndLocked, StopSibling, CallbackReturn, DownLock,
    DownDone, lockVars, strVars
<1>7. CASE NetChange \/ UNCHANGED vars
  BY <1>1, <1>7 DEF NetChange, vars, lockVars, strVars
<1> QED
  BY <1>2, <1>3, <1>4, <1>5, <1>6, <1>7 DEF Next

\* The events an end leaves to be told, and the streamers that may still run.
LEMMA EndLockedEvents ==
  ASSUME Base, Fresh, EndsDone, Reach, HasLegs, EndLocked, dpc' = "sibling"
  PROVE  /\ fn.str \in Strs /\ strPc[fn.str] = "done" /\ todo' = EndEvents(fn.str[1], had)
         /\ had # {} /\ had \in SUBSET Legs
         /\ Spent(fn.str[1])
         /\ \A l \in Legs : <<fn.str[1], l>> \in Running => <<fn.str[1], l>> \in sibling'
<1>1. /\ fn.str \in Strs /\ strPc[fn.str] = "done" /\ sibling = {} /\ had \in SUBSET Legs
      /\ ~Stale(fn.str) /\ sibling' = SiblingOf(fn.str) /\ todo' = EndEvents(fn.str[1], had)
  BY DEF EndLocked, EndsDone, Ended, Base, FnOK, Reach, TypeOK, LockTypes
<1>2. had # {}
  BY <1>1 DEF HasLegs, Unstarted
<1>3. Spent(fn.str[1])
  <2>1. fn.str[1] \in 1 .. MaxCalls /\ ~(fn.str[1] > calls)
    BY <1>1 DEF Fresh, Strs, Cycles
  <2>2. fn.str[1] \in 1 .. calls
    BY <2>1, ConstantsAssumption DEF Base, TypeOK, ProcTypes
  <2> QED
    BY <1>1, <2>2 DEF Spent, Fresh, Unstarted
<1>4. ASSUME NEW l \in Legs, <<fn.str[1], l>> \in Running PROVE <<fn.str[1], l>> \in sibling'
  <2>1. <<fn.str[1], l>> \in Installed
    BY <1>1, <1>4 DEF Reach, NoOrphanStreamer
  <2>2. fn.str = <<fn.str[1], fn.str[2]>>
    BY <1>1 DEF Strs
  <2>3. <<fn.str[1], l>> # fn.str
    BY <1>1, <1>4 DEF Running
  <2> QED
    BY <1>1, <2>1, <2>2, <2>3 DEF SiblingOf
<1> QED
  BY <1>1, <1>2, <1>3, <1>4

\* HasLegs holds on.
LEMMA HasLegsStep ==
  ASSUME Base, Fresh, EndsDone, Reach, HasLegs, [Next]_vars
  PROVE  HasLegs'
<1>0. strPc \in [Strs -> {"none", "built", "run", "held", "ending", "submit", "done"}]
  BY DEF Base, TypeOK, StrTypes
<1>1. ASSUME had' = {} PROVE \A s \in Strs : Unstarted(strPc'[s])
  BY <1>1, LegsStep DEF HasLegs, Unstarted, Alive
<1>2. ASSUME NEW t \in Procs, op'[t] = "SetSource", pc'[t] # "return"
      PROVE  BuiltLegs(call[t])' # {}
  <2>1. \A s \in Strs : strPc[s] # "none" => strPc'[s] # "none"
    BY StreamerStep DEF StreamerMoves, Alive
  <2>2. CASE ToStart(t) /\ call'[t] = call[t] /\ op[t] = "SetSource"
    <3>1. BuiltLegs(call[t]) # {} /\ call[t] \in Cycles
      BY <2>2, CallTypes DEF HasLegs, ToStart, Base, TypeOK
    <3> QED
      BY <2>1, <2>2, <3>1 DEF BuiltLegs, Strs
  <2>3. CASE SetSourceOpen(t) /\ call'[t] = calls + 1
    <3>1. PICK s \in Sources : \E legs \in Outcomes[s] \ {{}} :
            strPc' = MovedTo(StrsOf(calls + 1, legs), "built")
      BY <2>3 DEF SetSourceOpen
    <3>2. PICK legs \in Outcomes[s] \ {{}} : strPc' = MovedTo(StrsOf(calls + 1, legs), "built")
      BY <3>1
    <3>3. legs \in SUBSET Legs /\ legs # {}
      BY <3>2, OutcomeTypes
    <3>4. calls + 1 \in Cycles
      BY <2>3, ConstantsAssumption DEF SetSourceOpen, Enter, MayCall, Base, TypeOK, ProcTypes, Cycles
    <3>5. \A l \in legs : strPc'[<<calls + 1, l>>] = "built"
      BY <3>2, <3>3, <3>4 DEF MovedTo, StrsOf, Strs
    <3> QED
      BY <2>3, <3>3, <3>5 DEF BuiltLegs
  <2> QED
    BY <1>2, <2>2, <2>3, CallStep DEF ToStart
<1>3. ASSUME dpc' \in {"sibling", "callback"} PROVE todo' # <<>>
  <2>1. CASE ~Dispatcher
    BY <1>3, <2>1, DispFrame DEF dispVars, HasLegs
  <2>2. CASE Take
    BY <1>3, <2>2 DEF Take
  <2>3. CASE EndLocked
    <3>1. dpc' = "sibling"
      BY <1>3, <2>3 DEF EndLocked
    <3>2. todo' = EndEvents(fn.str[1], had) /\ had # {} /\ had \in SUBSET Legs /\ fn.str[1] \in Cycles
      BY <2>3, <3>1, EndLockedEvents DEF Strs
    <3> QED
      BY <3>2, EndEventsCycle
  <2>4. CASE StopSibling
    BY <2>4 DEF StopSibling, HasLegs
  <2>5. CASE CallbackReturn
    <3>1. todo \in Seq(Events) /\ Len(todo) > 1 /\ todo' = Tail(todo)
      BY <1>3, <2>5 DEF CallbackReturn, Base, TypeOK, DispTypes
    <3>2. Len(Tail(todo)) = Len(todo) - 1 /\ Len(todo) \in Nat
      BY <3>1
    <3>3. Len(todo') > 0
      BY <3>1, <3>2
    <3> QED
      BY <3>3
  <2>6. CASE EndCheck \/ DownLock \/ DownDone
    BY <1>3, <2>6 DEF EndCheck, DownLock, DownDone
  <2> QED
    BY <2>1, <2>2, <2>3, <2>4, <2>5, <2>6 DEF Dispatcher
<1> QED
  BY <1>1, <1>2, <1>3 DEF HasLegs

\* Nothing a spent number names starts any more, and one that is spent stays so.
LEMMA SpentStays ==
  ASSUME Base, Fresh, [Next]_vars
  PROVE  \A c : Spent(c) =>
           /\ c \in 1 .. calls' /\ \A t \in Procs : ToStart(t)' => call'[t] # c
           /\ \A l \in Legs : <<c, l>> \in Running' => <<c, l>> \in Running
<1> SUFFICES ASSUME NEW c, Spent(c)
             PROVE  /\ c \in 1 .. calls' /\ \A t \in Procs : ToStart(t)' => call'[t] # c
                    /\ \A l \in Legs : <<c, l>> \in Running' => <<c, l>> \in Running
  OBVIOUS
<1>0. calls \in Nat /\ c \in 1 .. calls
  BY ConstantsAssumption DEF Base, TypeOK, ProcTypes, Spent
<1>1. c \in 1 .. calls'
  BY <1>0, CallStep
<1>2. ASSUME NEW t \in Procs, ToStart(t)' PROVE call'[t] # c
  BY <1>0, <1>2, CallStep DEF Spent
<1>3. ASSUME NEW l \in Legs, <<c, l>> \in Running' PROVE <<c, l>> \in Running
  <2>1. <<c, l>> \in Strs /\ <<c, l>>[1] = c /\ strPc'[<<c, l>>] \in Alive
    BY <1>3 DEF Running, Alive
  <2>2. StreamerMoves(<<c, l>>)
    BY <2>1, StreamerStep
  <2>3. ~\E t \in Procs : ToStart(t) /\ call[t] = c
    BY DEF Spent
  <2> QED
    BY <2>1, <2>2, <2>3 DEF StreamerMoves, Running, Alive
<1> QED
  BY <1>1, <1>2, <1>3

\* No step lets a streamer of an end still to be told run on, but the sibling.
LEMMA QuietStep ==
  ASSUME Base, Fresh, EndsDone, Reach, HasLegs, Quiet, [Next]_vars
  PROVE  Quiet'
<1>0. /\ todo \in Seq(Events) /\ todo' \in Seq(Events)
      /\ strPc \in [Strs -> {"none", "built", "run", "held", "ending", "submit", "done"}]
  BY BaseStep DEF Base, TypeOK, DispTypes, StrTypes
<1>1. ASSUME NEW i \in 1 .. Len(todo), todo[i].kind = "ended"
      PROVE  /\ todo[i].cycle \in 1 .. calls'
             /\ \A t \in Procs : ToStart(t)' => call'[t] # todo[i].cycle
             /\ \A l \in Legs : <<todo[i].cycle, l>> \in Running' =>
                  <<todo[i].cycle, l>> \in Running /\ <<todo[i].cycle, l>> \in sibling
  BY <1>1, SpentStays DEF Quiet
<1>2. ASSUME \A i \in 1 .. Len(todo') : \/ todo'[i].kind # "ended"
                                       \/ \E j \in 1 .. Len(todo) : todo'[i] = todo[j],
             \A s \in sibling : s \in sibling' \/ s \notin Running'
      PROVE  Quiet'
  BY <1>1, <1>2 DEF Quiet, Spent
<1>3. CASE UNCHANGED <<todo, sibling>>
  BY <1>2, <1>3
<1>4. CASE ~Dispatcher
  BY <1>3, <1>4, DispFrame DEF dispVars
<1>5. CASE Take
  <2>1. fn' \in Closures /\ fn'.kind # "ended" /\ UNCHANGED sibling
    <3>1. fn' \in Closures
      BY <1>0, <1>5 DEF Take, Base, TypeOK, DispTypes
    <3> QED
      BY <1>5, <3>1 DEF Take, Closures, DownFn
  <2>2. todo' = <<fn'>> \/ todo' = <<>>
    BY <1>5 DEF Take
  <2>3. \A i \in 1 .. Len(todo') : todo'[i].kind # "ended"
    <3>1. CASE todo' = <<fn'>>
      BY <2>1, <3>1
    <3>2. CASE todo' = <<>>
      BY <3>2
    <3> QED
      BY <2>2, <3>1, <3>2
  <2> QED
    BY <1>2, <2>1, <2>3
<1>6. CASE EndLocked
  <2>1. CASE dpc' = "sibling"
    <3>1. /\ fn.str \in Strs /\ todo' = EndEvents(fn.str[1], had)
          /\ had \in SUBSET Legs
          /\ Spent(fn.str[1])
          /\ \A l \in Legs : <<fn.str[1], l>> \in Running => <<fn.str[1], l>> \in sibling'
      BY <1>6, <2>1, EndLockedEvents
    <3>2. \A i \in 1 .. Len(todo') : todo'[i].cycle = fn.str[1]
      BY <3>1, EndEventsCycle DEF Strs
    <3>3. /\ fn.str[1] \in 1 .. calls'
          /\ \A t \in Procs : ToStart(t)' => call'[t] # fn.str[1]
          /\ \A l \in Legs : <<fn.str[1], l>> \in Running' => <<fn.str[1], l>> \in Running
      BY <3>1, SpentStays
    <3> QED
      BY <3>1, <3>2, <3>3 DEF Quiet, Spent
  <2>2. CASE dpc' # "sibling"
    BY <1>3, <1>6, <2>2 DEF EndLocked
  <2> QED
    BY <2>1, <2>2
<1>7. CASE StopSibling
  <2>1. UNCHANGED <<todo, strPc>> /\ (UNCHANGED sibling \/ Joined(sibling))
    BY <1>7 DEF StopSibling, strVars
  <2>2. Joined(sibling) => \A s \in sibling : s \notin Running'
    BY <2>1 DEF Joined, Running
  <2> QED
    BY <1>2, <2>1, <2>2
<1>8. CASE CallbackReturn
  <2>1. todo' = Tail(todo) /\ UNCHANGED sibling /\ todo # <<>>
    BY <1>8 DEF CallbackReturn, HasLegs
  <2>2. \A i \in 1 .. Len(todo') : i + 1 \in 1 .. Len(todo) /\ todo'[i] = todo[i + 1]
    BY <1>0, <2>1
  <2> QED
    BY <1>2, <2>1, <2>2
<1>9. CASE EndCheck \/ DownLock \/ DownDone
  BY <1>3, <1>9 DEF EndCheck, DownLock, DownDone
<1> QED
  BY <1>4, <1>5, <1>6, <1>7, <1>8, <1>9 DEF Dispatcher

\* HasLegs and Quiet hold, on top of what the safety invariant says.
LEMMA QuietInvariant == Spec => [](HasLegs /\ Quiet)
<1>1. Init => HasLegs /\ Quiet
  <2> SUFFICES ASSUME Init PROVE HasLegs /\ Quiet
    OBVIOUS
  <2>1. HasLegs
    BY DEF Init, HasLegs, Unstarted
  <2>2. 1 .. Len(todo) = {}
    BY DEF Init
  <2> QED
    BY <2>1, <2>2 DEF Quiet
<1>2. Safe /\ HasLegs /\ Quiet /\ [Next]_vars => HasLegs' /\ Quiet'
  BY HasLegsStep, QuietStep DEF Safe
<1> QED
  BY <1>1, <1>2, SafeInvariant, PTL DEF Spec

\* When OnStreamEnd runs for a source, no streamer of it is still running, and
\* none will run again: the user may release the source.
THEOREM EndAfterQuietHolds == Spec => []EndAfterQuiet
<1>1. Safe /\ HasLegs /\ Quiet => EndAfterQuiet
  <2> SUFFICES ASSUME Safe, HasLegs, Quiet, dpc = "callback", Head(todo).kind = "ended"
               PROVE  \A l \in Legs : <<Head(todo).cycle, l>> \notin Running
    BY DEF EndAfterQuiet
  <2>1. todo \in Seq(Events) /\ todo # <<>> /\ sibling = {}
    BY DEF Safe, Base, TypeOK, DispTypes, HasLegs, Reach
  <2>2. Head(todo) = todo[1] /\ 1 \in 1 .. Len(todo)
    BY <2>1
  <2> QED
    BY <2>1, <2>2 DEF Quiet
<1> QED
  BY <1>1, SafeInvariant, QuietInvariant, PTL

-----------------------------------------------------------------------------
(* What the call takes of a streamer is a RunLoop.                         *)

\* A streamer that was not started is neither on the call nor being stopped.
Ready == \A s \in Installed \cup sibling : ~Unstarted(strPc[s])

\* Streamers a call has just started are ready to be installed.
LEMMA StartedReady ==
  ASSUME NEW c \in Cycles, NEW legs \in SUBSET Legs, NEW p \in BOOLEAN, cur' = Install(c, legs),
         strPc' = Started(StrsOf(c, legs), p)
  PROVE  \A s \in Installed' : ~Unstarted(strPc'[s])
<1>1. Installed' = StrsOf(c, legs)
  BY InstalledByInstall
<1>2. \A s \in StrsOf(c, legs) : strPc'[s] = IF p THEN "held" ELSE "run"
  BY DEF StrsOf, Strs, Started, MovedTo
<1> QED
  BY <1>1, <1>2 DEF Unstarted

\* No step puts a streamer on the call before it starts it.
LEMMA ReadyStep ==
  ASSUME Base, Fresh, Ready, [Next]_vars
  PROVE  Ready'
<1>0. \A s \in Strs : ~Unstarted(strPc[s]) => ~Unstarted(strPc'[s])
  BY StreamerStep DEF StreamerMoves, Unstarted, Alive
<1>1. TypeOK /\ Control /\ Installed \subseteq Strs /\ sibling \subseteq Strs
  BY DEF Base, TypeOK, DispTypes, Installed
<1>2. ASSUME Installed' \cup sibling' \subseteq Installed \cup sibling PROVE Ready'
  BY <1>0, <1>1, <1>2 DEF Ready
<1>3. CASE UNCHANGED <<cur, sibling>>
  BY <1>2, <1>3 DEF Installed
<1>4. ASSUME UNCHANGED sibling, \A s \in Installed' : ~Unstarted(strPc'[s]) PROVE Ready'
  BY <1>0, <1>1, <1>4 DEF Ready
<1>5. ASSUME NEW c \in Cycles, NEW legs \in SUBSET Legs, NEW p \in BOOLEAN, NEW kept,
             NEW stillOpen, startLocked(c, legs, p, kept, stillOpen), UNCHANGED sibling
      PROVE  Ready'
  <2>1. CASE legs # {}
    BY <1>4, <1>5, <2>1, StartedReady DEF startLocked
  <2>2. CASE legs = {}
    BY <1>3, <1>5, <2>2 DEF startLocked
  <2> QED
    BY <2>1, <2>2
<1>6. ASSUME NEW t \in Procs, EnterOp(t) \/ SetSourceOpen(t) \/ StopEnter(t) PROVE Ready'
  BY <1>3, <1>6 DEF EnterOp, SetSourceOpen, StopEnter, lockVars, dispVars
<1>7. ASSUME NEW t \in Procs, Continue(t) PROVE Ready'
  <2>1. CASE Resume(t)
    <3>1. UNCHANGED sibling
      BY <2>1 DEF Resume, dispVars
    <3>2. CASE UNCHANGED cur
      BY <1>3, <3>1, <3>2
    <3>3. CASE cur' # cur
      <4>1. /\ src # Nil
            /\ \E legs \in Outcomes[src] : startLocked(call[t], legs, FALSE, streams, open)
        BY <2>1, <3>3 DEF Resume, lockVars
      <4>2. PICK legs \in Outcomes[src] : startLocked(call[t], legs, FALSE, streams, open)
        BY <4>1
      <4>3. legs \in SUBSET Legs /\ call[t] \in Cycles
        BY <1>1, <2>1, <4>1, <4>2, CallTypes, OutcomeTypes DEF Resume, Locks, TypeOK, LockTypes
      <4> QED
        BY <1>5, <3>1, <4>2, <4>3
    <3> QED
      BY <3>2, <3>3
  <2>2. CASE SeekRestart(t)
    <3>1. /\ pc[t] = "stop" /\ op[t] = "SeekBy" /\ UNCHANGED sibling
          /\ \E legs \in Outcomes[src] : startLocked(call[t], legs, paused, None, open \ {streams})
      BY <2>2 DEF SeekRestart, AllStopped, dispVars
    <3>2. PICK legs \in Outcomes[src] : startLocked(call[t], legs, paused, None, open \ {streams})
      BY <3>1
    <3>3. src \in Sources /\ call[t] \in Cycles /\ paused \in BOOLEAN
      BY <1>1, <3>1, CallTypes DEF Control, CallOK, TypeOK, LockTypes
    <3> QED
      BY <1>5, <3>1, <3>2, <3>3, OutcomeTypes
  <2>3. CASE SetSourceInstall(t)
    <3>1. /\ cur' = Install(call[t], BuiltLegs(call[t])) /\ UNCHANGED sibling
          /\ strPc' = Started(StrsOf(call[t], BuiltLegs(call[t])), paused)
      BY <2>3 DEF SetSourceInstall, dispVars
    <3>2. call[t] \in Cycles /\ paused \in BOOLEAN /\ BuiltLegs(call[t]) \in SUBSET Legs
      BY <1>1, <2>3, CallTypes DEF SetSourceInstall, AllStopped, TypeOK, LockTypes, BuiltLegs
    <3> QED
      BY <1>4, <3>1, <3>2, StartedReady
  <2>4. CASE JoinStreamer(t)
    <3>1. UNCHANGED sibling /\ \A l \in Legs : cur'[l] \in {cur[l], None}
      BY <1>1, <2>4 DEF JoinStreamer, dispVars, TypeOK, LockTypes
    <3>2. None \notin Cycles
      BY ConstantsAssumption DEF None, Cycles
    <3>3. Installed' \subseteq Installed
      BY <3>1, <3>2 DEF Installed, Strs
    <3> QED
      BY <1>2, <3>1, <3>3
  <2>5. CASE ~Resume(t) /\ ~SetSourceInstall(t) /\ ~SeekRestart(t) /\ ~JoinStreamer(t)
    BY <1>3, <1>7, <2>5 DEF Continue, Pause, Mute, Unmute, CancelStreamer,
      SetSourceGate, SetSourceLock, SwitchDone, SeekLock, SeekUnderflow, StopLock, StopReset,
      StopReturn, lockVars, dispVars
  <2> QED
    BY <2>1, <2>2, <2>3, <2>4, <2>5
<1>8. ASSUME NEW s \in Strs, Streamer(s) PROVE Ready'
  BY <1>3, <1>8 DEF Streamer, StreamerHold, StreamerRelease, StreamerExit, StreamerEnding,
    StreamerSubmit, lockVars, dispVars
<1>9. CASE EndLocked
  <2>1. \/ UNCHANGED <<cur, sibling>>
        \/ sibling' = SiblingOf(fn.str) /\ cur' = Install(None, {})
    BY <1>9 DEF EndLocked
  <2>2. CASE sibling' = SiblingOf(fn.str) /\ cur' = Install(None, {})
    <3>1. None \notin Cycles
      BY ConstantsAssumption DEF None, Cycles
    <3>2. Installed' = {} /\ sibling' \subseteq Installed
      BY <2>2, <3>1 DEF Installed, Install, SiblingOf, Strs
    <3> QED
      BY <1>2, <3>2
  <2> QED
    BY <1>3, <2>1, <2>2
<1>10. CASE StopSibling
  <2>1. UNCHANGED cur /\ sibling' \in {sibling, {}}
    BY <1>10 DEF StopSibling, lockVars
  <2> QED
    BY <1>2, <2>1 DEF Installed
<1>11. CASE Take \/ EndCheck \/ CallbackReturn \/ DownLock \/ DownDone
  BY <1>3, <1>11 DEF Take, EndCheck, CallbackReturn, DownLock, DownDone, lockVars
<1>12. CASE NetChange \/ UNCHANGED vars
  BY <1>3, <1>12 DEF NetChange, vars, lockVars, dispVars
<1> QED
  BY <1>6, <1>7, <1>8, <1>9, <1>10, <1>11, <1>12 DEF Next, Dispatcher

\* The steps a RunLoop's owner takes, as they show in this module's variables.
Untouched(s) ==
  /\ strPc'[s] = strPc[s] \/ (Unstarted(strPc[s]) /\ Unstarted(strPc'[s]))
  /\ gate'[s] = gate[s]
  /\ s \in cancelled' <=> s \in cancelled

Gated(s) == strPc'[s] = strPc[s] /\ gate'[s] \in BOOLEAN /\ (s \in cancelled' <=> s \in cancelled)

Begun(s, p) ==
  /\ Unstarted(strPc[s])
  /\ strPc'[s] = IF p THEN "held" ELSE "run"
  /\ gate'[s] = p
  /\ s \in cancelled' <=> s \in cancelled

LoopMove(s) == [Loop(s)!Next]_(Loop(s)!loopVars)

LEMMA UntouchedMove == ASSUME NEW s \in Strs, Untouched(s) PROVE LoopMove(s)
BY DEF Untouched, Unstarted, LoopMove, Loop!loopVars, placeOf

LEMMA GatedMove == ASSUME NEW s \in Strs, Gated(s) PROVE LoopMove(s)
BY DEF Gated, LoopMove, Loop!Next, Loop!SetPaused, placeOf

LEMMA BegunMove == ASSUME NEW s \in Strs, NEW p \in BOOLEAN, Begun(s, p) PROVE LoopMove(s)
BY DEF Begun, Unstarted, LoopMove, Loop!Next, Loop!Start, placeOf

LEMMA CancelMove ==
  ASSUME StrTypes, NEW s \in Strs, ~Unstarted(strPc[s]), strPc'[s] = strPc[s],
         gate'[s] = gate[s], s \in cancelled'
  PROVE  LoopMove(s)
BY DEF StrTypes, Unstarted, LoopMove, Loop!Next, Loop!Cancel, placeOf

\* Stopping streamers that were started is a Cancel of each.
LEMMA CancelMoves ==
  ASSUME StrTypes, UNCHANGED <<strPc, gate>>, NEW S, \A s \in S : ~Unstarted(strPc[s]),
         cancelled' = cancelled \cup S
  PROVE  \A s \in Strs : LoopMove(s)
<1> SUFFICES ASSUME NEW s \in Strs PROVE LoopMove(s)
  OBVIOUS
<1>1. CASE s \in S
  BY <1>1, CancelMove
<1>2. CASE s \notin S
  BY <1>2, UntouchedMove DEF Untouched
<1> QED
  BY <1>1, <1>2

\* Starting the streamers of a cycle that did not run is a Start of each.
LEMMA StartMoves ==
  ASSUME NEW c \in Cycles, NEW legs \in SUBSET Legs, NEW p \in BOOLEAN,
         \A l \in legs : Unstarted(strPc[<<c, l>>]),
         strPc' = Started(StrsOf(c, legs), p), gate' = SetPaused(StrsOf(c, legs), p),
         UNCHANGED cancelled
  PROVE  \A s \in Strs : LoopMove(s)
<1> SUFFICES ASSUME NEW s \in Strs PROVE LoopMove(s)
  OBVIOUS
<1>1. CASE s \in StrsOf(c, legs)
  <2>1. Begun(s, p)
    BY <1>1 DEF Begun, StrsOf, Started, MovedTo, SetPaused
  <2> QED
    BY <2>1, BegunMove
<1>2. CASE s \notin StrsOf(c, legs)
  <2>1. Untouched(s)
    BY <1>2 DEF Untouched, Started, MovedTo, SetPaused
  <2> QED
    BY <2>1, UntouchedMove
<1> QED
  BY <1>1, <1>2

\* A call that opens its source again starts streamers that never ran.
LEMMA StartedMoves ==
  ASSUME Fresh, NEW t \in Procs, ToStart(t), call[t] \in Cycles, NEW legs \in SUBSET Legs,
         NEW p \in BOOLEAN, NEW kept, NEW stillOpen, startLocked(call[t], legs, p, kept, stillOpen)
  PROVE  \A s \in Strs : LoopMove(s)
<1>1. CASE legs # {}
  <2>1. \A l \in legs : Unstarted(strPc[<<call[t], l>>])
    BY DEF Fresh, Strs
  <2> QED
    BY <1>1, <2>1, StartMoves DEF startLocked
<1>2. CASE legs = {}
  BY <1>2, UntouchedMove DEF startLocked, strVars, Untouched
<1> QED
  BY <1>1, <1>2

\* Every step is, for every streamer, a step of its RunLoop or none.
LEMMA LoopSteps ==
  ASSUME Base, Fresh, Ready, [Next]_vars
  PROVE  \A s \in Strs : LoopMove(s)
<1> DEFINE Goal == \A s \in Strs : LoopMove(s)
<1>0. TypeOK /\ Control /\ StrTypes
  BY DEF Base, TypeOK
<1>1. CASE UNCHANGED <<strPc, gate, cancelled>>
  BY <1>1, UntouchedMove DEF Untouched
<1>2. ASSUME NEW S, NEW p \in BOOLEAN, gate' = SetPaused(S, p), UNCHANGED <<strPc, cancelled>>
      PROVE  Goal
  <2>1. \A s \in Strs : Gated(s)
    BY <1>0, <1>2 DEF Gated, SetPaused, StrTypes
  <2> QED
    BY <2>1, GatedMove
<1>3. ASSUME NEW t \in Procs, EnterOp(t) \/ StopEnter(t) PROVE Goal
  BY <1>1, <1>3 DEF EnterOp, StopEnter, strVars
<1>4. ASSUME NEW t \in Procs, SetSourceOpen(t) PROVE Goal
  <2>1. PICK legs : strPc' = MovedTo(StrsOf(calls + 1, legs), "built")
    BY <1>4 DEF SetSourceOpen
  <2>2. \A s \in Strs : s[1] = calls + 1 => strPc[s] = "none"
    BY <1>0, ConstantsAssumption DEF Fresh, TypeOK, ProcTypes
  <2>3. UNCHANGED <<gate, cancelled>>
    BY <1>4 DEF SetSourceOpen
  <2>4. \A s \in Strs : Untouched(s)
    BY <2>1, <2>2, <2>3 DEF MovedTo, StrsOf, Strs, Untouched, Unstarted
  <2> QED
    BY <2>4, UntouchedMove
<1>5. ASSUME NEW t \in Procs, Continue(t) PROVE Goal
  <2>1. CASE Pause(t)
    <3>1. UNCHANGED <<strPc, cancelled>> /\ (UNCHANGED gate \/ gate' = SetPaused(Installed, TRUE))
      BY <2>1 DEF Pause
    <3> QED
      BY <1>1, <1>2, <3>1
  <2>2. CASE Resume(t)
    <3>1. \/ UNCHANGED <<strPc, gate, cancelled>>
          \/ gate' = SetPaused(Installed, FALSE) /\ UNCHANGED <<strPc, cancelled>>
          \/ /\ src # Nil
             /\ \E legs \in Outcomes[src] : startLocked(call[t], legs, FALSE, streams, open)
      BY <2>2 DEF Resume, strVars
    <3>2. ToStart(t) /\ call[t] \in Cycles
      BY <1>0, <2>2, CallTypes DEF Resume, Locks, ToStart, TypeOK
    <3>3. ASSUME NEW legs \in Outcomes[src], src # Nil,
                 startLocked(call[t], legs, FALSE, streams, open)
          PROVE  Goal
      <4>1. legs \in SUBSET Legs
        BY <1>0, <3>3, OutcomeTypes DEF TypeOK, LockTypes
      <4> QED
        BY <3>2, <3>3, <4>1, StartedMoves
    <3> QED
      BY <1>1, <1>2, <3>1, <3>3
  <2>3. CASE SeekRestart(t)
    <3>1. /\ pc[t] = "stop" /\ op[t] = "SeekBy"
          /\ \E legs \in Outcomes[src] : startLocked(call[t], legs, paused, None, open \ {streams})
      BY <2>3 DEF SeekRestart, AllStopped
    <3>2. PICK legs \in Outcomes[src] : startLocked(call[t], legs, paused, None, open \ {streams})
      BY <3>1
    <3>3. src \in Sources /\ call[t] \in Cycles /\ paused \in BOOLEAN /\ ToStart(t)
      BY <1>0, <3>1, CallTypes DEF Control, CallOK, TypeOK, LockTypes, ToStart
    <3> QED
      BY <3>2, <3>3, OutcomeTypes, StartedMoves
  <2>4. CASE SetSourceInstall(t)
    <3>1. /\ strPc' = Started(StrsOf(call[t], BuiltLegs(call[t])), paused)
          /\ gate' = SetPaused(StrsOf(call[t], BuiltLegs(call[t])), paused)
          /\ UNCHANGED cancelled /\ ToStart(t)
      BY <2>4 DEF SetSourceInstall, AllStopped, ToStart
    <3>2. call[t] \in Cycles /\ paused \in BOOLEAN /\ BuiltLegs(call[t]) \in SUBSET Legs
      BY <1>0, <2>4, CallTypes DEF SetSourceInstall, AllStopped, TypeOK, LockTypes, BuiltLegs
    <3>3. \A l \in Legs : Unstarted(strPc[<<call[t], l>>])
      BY <3>1, <3>2 DEF Fresh, Strs
    <3> QED
      BY <3>1, <3>2, <3>3, StartMoves
  <2>5. CASE CancelStreamer(t)
    <3>1. /\ cancelled' = cancelled \cup {<<cur[StopNext], StopNext>>}
          /\ UNCHANGED <<strPc, gate>> /\ Installed # {}
      BY <2>5 DEF CancelStreamer
    <3>2. <<cur[StopNext], StopNext>> \in Installed
      BY <1>0, <3>1 DEF StopNext, Installed, Strs, TypeOK, LockTypes, Legs
    <3> QED
      BY <1>0, <3>1, <3>2, CancelMoves DEF Ready
  <2>6. CASE Mute(t) \/ Unmute(t)
    BY <1>1, <2>6 DEF Mute, Unmute
  <2>7. CASE JoinStreamer(t) \/ SetSourceGate(t) \/ SetSourceLock(t) \/ SwitchDone(t)
             \/ SeekLock(t) \/ SeekUnderflow(t) \/ StopLock(t) \/ StopReset(t) \/ StopReturn(t)
    BY <1>1, <2>7 DEF JoinStreamer, SetSourceGate, SetSourceLock, SwitchDone, SeekLock,
      SeekUnderflow, StopLock, StopReset, StopReturn, strVars
  <2> QED
    BY <1>5, <2>1, <2>2, <2>3, <2>4, <2>5, <2>6, <2>7 DEF Continue
<1>6. ASSUME NEW r \in Strs, Streamer(r) PROVE Goal
  <2>1. UNCHANGED <<gate, cancelled>> /\ \A s \in Strs : s # r => strPc'[s] = strPc[s]
    BY <1>0, <1>6 DEF Streamer, StreamerHold, StreamerRelease, StreamerExit, StreamerEnding,
      StreamerSubmit, StrTypes
  <2>2. \/ strPc[r] = "run" /\ gate[r] /\ strPc'[r] = "held"
        \/ strPc[r] = "held" /\ ~gate[r] /\ strPc'[r] = "run"
        \/ (strPc[r] = "run" \/ (strPc[r] = "held" /\ r \in cancelled)) /\ strPc'[r] = "ending"
        \/ strPc[r] = "ending" /\ strPc'[r] \in {"submit", "done"}
        \/ strPc[r] = "submit" /\ strPc'[r] = "done"
    BY <1>0, <1>6 DEF Streamer, StreamerHold, StreamerRelease, StreamerExit, StreamerEnding,
      StreamerSubmit, Woken, StrTypes
  <2>3. LoopMove(r)
    BY <2>1, <2>2 DEF LoopMove, Loop!Next, Loop!Hold, Loop!Release, Loop!Exit, Loop!End,
      Loop!loopVars, placeOf
  <2>4. \A s \in Strs : s # r => LoopMove(s)
    BY <2>1, UntouchedMove DEF Untouched
  <2> QED
    BY <2>3, <2>4
<1>7. CASE StopSibling
  BY <1>0, <1>1, <1>7, CancelMoves DEF StopSibling, Ready
<1>8. CASE Take \/ EndCheck \/ EndLocked \/ CallbackReturn \/ DownLock \/ DownDone
  BY <1>1, <1>8 DEF Take, EndCheck, EndLocked, CallbackReturn, DownLock, DownDone, strVars
<1>9. CASE NetChange \/ UNCHANGED vars
  BY <1>1, <1>9 DEF NetChange, vars, strVars
<1> QED
  BY <1>3, <1>4, <1>5, <1>6, <1>7, <1>8, <1>9 DEF Next, Dispatcher

\* The call relies on nothing of its streamers but that each is a RunLoop, which
\* Streamer.tla is: it starts one once, never sees it come back, and stops only
\* what it started.
THEOREM StreamersAreRunLoopsHolds == Spec => StreamersAreRunLoops
<1>1. Init => Ready /\ \A s \in Strs : Loop(s)!Init
  <2> SUFFICES ASSUME Init PROVE Ready /\ \A s \in Strs : Loop(s)!Init
    OBVIOUS
  <2>1. Ready
    BY ConstantsAssumption DEF Init, Ready, Installed, Strs, Cycles, None
  <2>2. \A s \in Strs : Loop(s)!Init
    BY DEF Init, Loop!Init, placeOf
  <2> QED
    BY <2>1, <2>2
<1>2. Safe /\ Ready /\ [Next]_vars => Ready'
  BY ReadyStep DEF Safe
<1>3. Safe /\ Ready /\ [Next]_vars => [\A s \in Strs : [Loop(s)!Next]_(Loop(s)!loopVars)]_vars
  BY LoopSteps DEF Safe, LoopMove
<1> QED
  BY <1>1, <1>2, <1>3, SafeInvariant, PTL DEF Spec, StreamersAreRunLoops

-----------------------------------------------------------------------------
(* What the call has when no one is changing it, and what a late end of a  *)
(* replaced source takes from it.                                          *)

\* With g.mu free the call has all the streamers `had` speaks of, from one
\* source, or none; and in the latter case it has Streams only after a natural
\* end, which leaves them.
Whole ==
  mu = Nil =>
    /\ \E c \in Cycles \cup {None} : cur = Install(c, had)
    /\ Installed = {} /\ streams # None => endedOnce

\* No streamer is installed: the call has the streamers of no source.
LEMMA NoneAlike ==
  ASSUME TypeOK, Installed = {}, NEW L
  PROVE  cur = Install(None, L)
<1>1. \A l \in Legs : cur[l] \in Cycles => <<cur[l], l>> \in Installed
  BY DEF Installed, Strs
<1>2. cur \in [Legs -> Cycles \cup {None}]
  BY DEF TypeOK, LockTypes
<1> QED
  BY <1>1, <1>2 DEF Install

\* Installing a source that has a leg leaves the call with streamers.
LEMMA WholeInstalled ==
  ASSUME NEW c \in Cycles, NEW legs \in SUBSET Legs, legs # {},
         cur' = Install(c, legs), had' = legs
  PROVE  Whole'
<1>1. Installed' = StrsOf(c, legs)
  BY InstalledByInstall
<1>2. Installed' # {}
  <2>1. PICK l \in legs : TRUE
    OBVIOUS
  <2>2. <<c, l>> \in StrsOf(c, legs)
    BY <2>1 DEF StrsOf
  <2> QED
    BY <1>1, <2>2
<1> QED
  BY <1>2 DEF Whole

\* A section that stopped every streamer and lets go of the Streams, or keeps
\* them after a natural end, leaves the call with no source.
LEMMA WholeEmptied ==
  ASSUME TypeOK, Installed = {}, UNCHANGED cur, streams' = None \/ endedOnce'
  PROVE  Whole'
<1>1. cur' = Install(None, had')
  BY NoneAlike
<1> QED
  BY <1>1 DEF Whole

\* startLocked installs all the legs of its cycle, or leaves the call without.
LEMMA WholeStarted ==
  ASSUME TypeOK, Installed = {}, NEW c \in Cycles, NEW legs \in SUBSET Legs, NEW p,
         NEW kept, NEW stillOpen, startLocked(c, legs, p, kept, stillOpen),
         kept = None \/ endedOnce
  PROVE  Whole'
<1>1. CASE legs # {}
  BY <1>1, WholeInstalled DEF startLocked
<1>2. CASE legs = {}
  BY <1>2, WholeEmptied DEF startLocked
<1> QED
  BY <1>1, <1>2

\* No step installs or removes half of a source, and only a natural end leaves
\* the Streams of what it removes.
LEMMA WholeStep ==
  ASSUME Base, HasLegs, Whole, [Next]_vars
  PROVE  Whole'
<1>0. TypeOK /\ Control
  BY DEF Base
<1>1. CASE UNCHANGED <<mu, cur, had, streams, endedOnce>>
  BY <1>1 DEF Whole, Installed
<1>2. ASSUME NEW t \in Procs, mu' = t PROVE Whole'
  BY <1>2, ConstantsAssumption DEF Whole, Procs
<1>3. ASSUME NEW t \in Procs, EnterOp(t) \/ SetSourceOpen(t) \/ StopEnter(t) PROVE Whole'
  BY <1>1, <1>3 DEF EnterOp, SetSourceOpen, StopEnter, lockVars
<1>4. ASSUME NEW t \in Procs, Continue(t) PROVE Whole'
  <2>1. CASE Pause(t) \/ Mute(t) \/ Unmute(t)
    BY <1>1, <2>1 DEF Pause, Mute, Unmute
  <2>2. CASE Resume(t)
    <3>1. CASE UNCHANGED <<cur, had, streams, endedOnce>>
      BY <1>1, <2>2, <3>1 DEF Resume
    <3>2. CASE ~UNCHANGED <<cur, had, streams, endedOnce>>
      <4>1. /\ mu = Nil /\ src # Nil /\ Installed = {} /\ op[t] = "Resume"
            /\ \E legs \in Outcomes[src] : startLocked(call[t], legs, FALSE, streams, open)
        BY <2>2, <3>2 DEF Resume, Locks, lockVars
      <4>2. PICK legs \in Outcomes[src] : startLocked(call[t], legs, FALSE, streams, open)
        BY <4>1
      <4>3. src \in Sources /\ call[t] \in Cycles
        BY <1>0, <4>1, CallTypes DEF TypeOK, LockTypes
      <4>4. legs \in SUBSET Legs
        BY <4>3, OutcomeTypes
      <4>5. streams = None \/ endedOnce
        BY <4>1 DEF Whole
      <4> QED
        BY <1>0, <4>1, <4>2, <4>3, <4>4, <4>5, WholeStarted
    <3> QED
      BY <3>1, <3>2
  <2>3. CASE SetSourceInstall(t)
    <3>1. /\ op[t] = "SetSource" /\ pc[t] = "stop"
          /\ cur' = Install(call[t], BuiltLegs(call[t])) /\ had' = BuiltLegs(call[t])
      BY <2>3 DEF SetSourceInstall, AllStopped
    <3>2. call[t] \in Cycles /\ BuiltLegs(call[t]) # {} /\ BuiltLegs(call[t]) \in SUBSET Legs
      BY <1>0, <3>1, CallTypes DEF TypeOK, HasLegs, BuiltLegs
    <3> QED
      BY <3>1, <3>2, WholeInstalled
  <2>4. CASE SeekRestart(t)
    <3>1. /\ Installed = {} /\ pc[t] = "stop" /\ op[t] = "SeekBy"
          /\ \E legs \in Outcomes[src] : startLocked(call[t], legs, paused, None, open \ {streams})
      BY <2>4 DEF SeekRestart, AllStopped
    <3>2. PICK legs \in Outcomes[src] : startLocked(call[t], legs, paused, None, open \ {streams})
      BY <3>1
    <3>3. src \in Sources /\ call[t] \in Cycles
      BY <1>0, <3>1, CallTypes DEF Control, CallOK, TypeOK
    <3>4. legs \in SUBSET Legs
      BY <3>3, OutcomeTypes
    <3> QED
      BY <1>0, <3>1, <3>2, <3>3, <3>4, WholeStarted
  <2>5. CASE CancelStreamer(t) \/ SetSourceGate(t) \/ SwitchDone(t) \/ StopReturn(t)
    BY <1>1, <2>5 DEF CancelStreamer, SetSourceGate, SwitchDone, StopReturn, lockVars
  <2>6. CASE JoinStreamer(t)
    BY <1>0, <1>2, <2>6 DEF JoinStreamer, Control, MutexOK
  <2>7. CASE SetSourceLock(t) \/ SeekLock(t) \/ StopLock(t)
    <3>1. UNCHANGED lockVars /\ (UNCHANGED mu \/ mu' = t)
      BY <2>7 DEF SetSourceLock, SeekLock, StopLock
    <3> QED
      BY <1>1, <1>2, <3>1 DEF lockVars
  <2>8. CASE SeekUnderflow(t) \/ StopReset(t)
    BY <1>0, <2>8, WholeEmptied DEF SeekUnderflow, StopReset, AllStopped
  <2> QED
    BY <1>4, <2>1, <2>2, <2>3, <2>4, <2>5, <2>6, <2>7, <2>8 DEF Continue
<1>5. ASSUME NEW s \in Strs, Streamer(s) PROVE Whole'
  BY <1>1, <1>5 DEF Streamer, StreamerHold, StreamerRelease, StreamerExit, StreamerEnding,
    StreamerSubmit, lockVars
<1>6. CASE EndLocked
  <2>1. \/ UNCHANGED <<mu, cur, had, streams, endedOnce>>
        \/ endedOnce' = TRUE /\ cur' = Install(None, {})
    BY <1>6 DEF EndLocked
  <2>2. Install(None, {}) = Install(None, had')
    BY DEF Install
  <2> QED
    BY <1>1, <2>1, <2>2 DEF Whole
<1>7. CASE Take \/ EndCheck \/ StopSibling \/ CallbackReturn
  BY <1>1, <1>7 DEF Take, EndCheck, StopSibling, CallbackReturn, lockVars
<1>8. CASE DownLock
  BY <1>2, <1>8 DEF DownLock, Procs
<1>9. CASE DownDone
  BY <1>0, <1>9, WholeEmptied DEF DownDone, AllStopped
<1>10. CASE NetChange \/ UNCHANGED vars
  BY <1>1, <1>10 DEF NetChange, vars, lockVars
<1> QED
  BY <1>3, <1>4, <1>5, <1>6, <1>7, <1>8, <1>9, <1>10 DEF Next, Dispatcher

\* The call is whole whenever g.mu is free.
LEMMA WholeInvariant == Spec => []Whole
<1>1. Init => Whole
  BY DEF Init, Whole, Install, None
<1>2. Safe /\ HasLegs /\ Whole /\ [Next]_vars => Whole'
  BY WholeStep DEF Safe
<1> QED
  BY <1>1, <1>2, SafeInvariant, QuietInvariant, PTL DEF Spec

\* An end that is dispatched after its source was replaced takes no streamer off
\* the call, whatever legs the sources have, unless the new source came up
\* without the leg that ended.
THEOREM StaleEndHarmlessHolds == Spec => StaleEndHarmless
<1>1. Safe /\ Whole
        => [EndLocked /\ cur' # cur => fn.str \in Installed \/ fn.str[2] \notin had]_vars
  <2> SUFFICES ASSUME Safe, Whole, EndLocked, cur' # cur, fn.str[2] \in had
               PROVE  fn.str \in Installed
    OBVIOUS
  <2>1. /\ fn.str \in Strs /\ ~Stale(fn.str)
        /\ mu = Nil /\ cur' = Install(None, {})
    BY DEF EndLocked, Safe, EndsDone, Ended, Base, FnOK
  <2>2. PICK c \in Cycles \cup {None} : cur = Install(c, had)
    BY <2>1 DEF Whole
  <2>3. fn.str[2] \in Legs
    BY <2>1 DEF Strs
  <2>4. c # None
    BY <2>1, <2>2 DEF Install
  <2>5. cur[fn.str[2]] = c
    BY <2>2, <2>3 DEF Install
  <2> QED
    BY <2>1, <2>4, <2>5 DEF Stale, Installed
<1> QED
  BY <1>1, SafeInvariant, WholeInvariant, PTL DEF Spec, StaleEndHarmless

-----------------------------------------------------------------------------
(* No Streams is forgotten.                                                *)

\* t opened the Streams of cycle c and has not come to its end with them.
Holds(t, c) == op[t] = "SetSource" /\ pc[t] # "return" /\ call[t] = c

\* What Resume does that no other step does.
Replays(c) == c = streams /\ endedOnce /\ \E t \in Procs : Resume(t)

\* The Streams that are open after the step and were accounted for before it,
\* or are new, are accounted for, but for those a Resume forgets.
KeepsAccount == \A c \in open' : (c \in open => Accounted(c)) => Accounted(c)' \/ Replays(c)

\* A step of one goroutine keeps the account if it closes the call's Streams
\* before it replaces them, and its own unless it installs them.
LEMMA AccountedKept ==
  ASSUME NEW t \in Procs,
         \A u \in Procs \ {t} : op'[u] = op[u] /\ pc'[u] = pc[u] /\ call'[u] = call[u],
         \A c \in open' :
           \/ c = streams' \/ Holds(t, c)'
           \/ c \in open /\ (c = streams => streams' = streams) /\ ~Holds(t, c)
  PROVE  KeepsAccount
<1> SUFFICES ASSUME NEW c \in open', c \in open => Accounted(c) PROVE Accounted(c)'
  BY DEF KeepsAccount
<1>1. CASE c = streams' \/ Holds(t, c)'
  BY <1>1 DEF Accounted, Holds
<1>2. CASE c \in open /\ (c = streams => streams' = streams) /\ ~Holds(t, c)
  <2>1. CASE c = streams
    BY <1>2, <2>1 DEF Accounted
  <2>2. CASE c # streams
    <3>1. PICK u \in Procs : Holds(u, c)
      BY <1>2, <2>2 DEF Accounted, Holds
    <3>2. u # t
      BY <1>2, <3>1
    <3> QED
      BY <3>1, <3>2 DEF Holds, Accounted
  <2> QED
    BY <2>1, <2>2
<1> QED
  BY <1>1, <1>2

\* A Resume that starts the source again forgets the call's Streams, which it
\* finds only after a natural end; what a SetSource holds stays held.
LEMMA ResumeAccounted ==
  ASSUME Base, Whole, NEW t \in Procs, Resume(t)
  PROVE  KeepsAccount
<1> USE DEF Base, TypeOK, ProcTypes
<1>1. op[t] = "Resume" /\ Return(t) /\ mu = Nil
  BY DEF Resume, Locks
<1>2. \A u \in Procs \ {t} : op'[u] = op[u] /\ pc'[u] = pc[u] /\ call'[u] = call[u]
  BY <1>1 DEF Return
<1>3. CASE UNCHANGED <<open, streams>>
  BY <1>1, <1>2, <1>3, AccountedKept DEF Holds
<1>4. CASE ~UNCHANGED <<open, streams>>
  <2>1. /\ Installed = {}
        /\ \E legs \in Outcomes[src] : startLocked(call[t], legs, FALSE, streams, open)
    BY <1>4 DEF Resume, lockVars
  <2>2. \A c \in open' : c = streams' \/ c \in open
    BY <2>1 DEF startLocked
  <2> SUFFICES ASSUME NEW c \in open', c \in open => Accounted(c), c # streams', ~Replays(c)
               PROVE  Accounted(c)'
    <3>1. \A c : c = streams' => Accounted(c)'
      BY DEF Accounted
    <3> QED
      BY <3>1 DEF KeepsAccount
  <2>3. c \in open /\ c # streams
    <3>1. c # None
      BY <2>2, ConstantsAssumption DEF StrTypes, Cycles, None
    <3>2. c = streams => endedOnce
      BY <1>1, <2>1, <3>1 DEF Whole
    <3> QED
      BY <2>2, <3>2 DEF Replays
  <2>4. PICK u \in Procs : Holds(u, c)
    BY <2>3 DEF Accounted, Holds
  <2>5. u # t
    BY <1>1, <2>4 DEF Holds
  <2> QED
    BY <1>2, <2>4, <2>5 DEF Holds, Accounted
<1> QED
  BY <1>3, <1>4

\* No other step forgets anything.
LEMMA AccountedStep ==
  ASSUME Base, Whole, [Next]_vars
  PROVE  KeepsAccount
<1> USE DEF Base, TypeOK, ProcTypes
<1>1. CASE UNCHANGED <<open, streams, op, pc, call>>
  BY <1>1 DEF KeepsAccount, Accounted, Holds
<1>2. ASSUME NEW t \in Procs, Return(t) \/ (\E p : GoTo(t, p)) \/ (\E o, p : Enter(t, o, p))
                                \/ (\E o : op' = [op EXCEPT ![t] = o] /\ pc' = [pc EXCEPT ![t] = "stop"]
                                           /\ UNCHANGED call)
      PROVE  \A u \in Procs \ {t} : op'[u] = op[u] /\ pc'[u] = pc[u] /\ call'[u] = call[u]
  BY <1>2 DEF Return, GoTo, Enter
<1>3. ASSUME NEW t \in Procs, op[t] # "SetSource", UNCHANGED <<open, streams>>,
             \A u \in Procs \ {t} : op'[u] = op[u] /\ pc'[u] = pc[u] /\ call'[u] = call[u]
      PROVE  KeepsAccount
  BY <1>3, AccountedKept DEF Holds
<1>4. ASSUME NEW t \in Procs, op[t] # "SetSource", open' = open \ {streams},
             \A u \in Procs \ {t} : op'[u] = op[u] /\ pc'[u] = pc[u] /\ call'[u] = call[u]
      PROVE  KeepsAccount
  BY <1>4, AccountedKept DEF Holds
<1>5. ASSUME NEW t \in Procs, EnterOp(t) \/ StopEnter(t) PROVE KeepsAccount
  <2>1. (\E o, p : Enter(t, o, p)) /\ pc[t] = "idle" /\ UNCHANGED <<open, streams>>
    BY <1>5 DEF EnterOp, StopEnter, Enter, MayCall, lockVars
  <2>2. op[t] = "none"
    BY <2>1 DEF Control, PlaceOK
  <2> QED
    BY <1>2, <1>3, <2>1, <2>2
<1>6. ASSUME NEW t \in Procs, SetSourceOpen(t) PROVE KeepsAccount
  <2>1. /\ Enter(t, "SetSource", "gate") /\ pc[t] = "idle" /\ UNCHANGED streams
        /\ open' = open \cup {calls + 1}
    BY <1>6 DEF SetSourceOpen, Enter, MayCall, lockVars
  <2>2. op[t] = "none" /\ op'[t] = "SetSource" /\ pc'[t] = "gate" /\ call'[t] = calls + 1
    BY <2>1 DEF Enter, Control, PlaceOK
  <2>3. \A c \in open' : Holds(t, c)' \/ (c \in open /\ ~Holds(t, c))
    BY <2>1, <2>2 DEF Holds
  <2> QED
    BY <1>2, <2>1, <2>3, AccountedKept
<1>7. ASSUME NEW t \in Procs, Continue(t) PROVE KeepsAccount
  <2>0. CASE Resume(t)
    BY <2>0, ResumeAccounted
  <2>1. CASE Pause(t) \/ Mute(t) \/ Unmute(t) \/ SeekLock(t) \/ StopLock(t) \/ StopReturn(t)
    <3>1. op[t] # "SetSource" /\ UNCHANGED <<open, streams>>
      BY <2>1 DEF Pause, Mute, Unmute, SeekLock, StopLock, StopReturn, Locks, lockVars
    <3>2. CASE Return(t) \/ \E p : GoTo(t, p)
      BY <1>2, <1>3, <3>1, <3>2
    <3>3. CASE SeekLock(t) /\ ~Return(t)
      <4>1. UNCHANGED call /\ pc' = [pc EXCEPT ![t] = "stop"]
            /\ (op' = op \/ op' = [op EXCEPT ![t] = "Underflow"])
        BY <3>3 DEF SeekLock
      <4>2. \A u \in Procs \ {t} : op'[u] = op[u] /\ pc'[u] = pc[u] /\ call'[u] = call[u]
        BY <4>1
      <4> QED
        BY <1>3, <3>1, <4>2
    <3> QED
      BY <2>1, <3>2, <3>3 DEF Pause, Mute, Unmute, StopLock, StopReturn
  <2>2. CASE CancelStreamer(t) \/ JoinStreamer(t)
    BY <1>1, <2>2 DEF CancelStreamer, JoinStreamer, lockVars, procVars
  <2>3. CASE SetSourceGate(t) \/ SetSourceLock(t)
    <3>1. op[t] = "SetSource" /\ pc[t] # "return" /\ UNCHANGED streams
      BY <2>3 DEF SetSourceGate, SetSourceLock, Locks, Control, PlaceOK, lockVars
    <3>2. CASE GiveUp(t)
      <4>1. \A c \in open' : c \in open /\ ~Holds(t, c)
        BY <3>2 DEF GiveUp, Holds
      <4> QED
        BY <1>2, <3>1, <3>2, <4>1, AccountedKept DEF GiveUp
    <3>3. ASSUME NEW p \in {"lock", "wait", "stop"}, GoTo(t, p), UNCHANGED open
          PROVE  KeepsAccount
      <4>1. op'[t] = "SetSource" /\ pc'[t] # "return" /\ call'[t] = call[t]
        BY <3>1, <3>3 DEF GoTo
      <4>2. \A c \in open' : Holds(t, c)' \/ (c \in open /\ ~Holds(t, c))
        BY <3>1, <3>3, <4>1 DEF Holds
      <4> QED
        BY <1>2, <3>1, <3>3, <4>2, AccountedKept
    <3> QED
      BY <2>3, <3>2, <3>3 DEF SetSourceGate, SetSourceLock
  <2>4. CASE SetSourceInstall(t)
    <3>1. /\ GoTo(t, "return") /\ streams' = call[t] /\ open' = open \ {streams}
      BY <2>4 DEF SetSourceInstall
    <3>2. \A c \in open' : c = streams' \/ (c \in open /\ c # streams /\ ~Holds(t, c))
      BY <3>1 DEF Holds
    <3> QED
      BY <1>2, <3>1, <3>2, AccountedKept
  <2>5. CASE SwitchDone(t)
    <3>1. pc[t] = "return" /\ UNCHANGED <<open, streams>> /\ Return(t)
      BY <2>5 DEF SwitchDone, lockVars
    <3>2. \A c \in open' : c \in open /\ ~Holds(t, c)
      BY <3>1 DEF Holds
    <3> QED
      BY <1>2, <3>1, <3>2, AccountedKept
  <2>6. CASE SeekUnderflow(t) \/ StopReset(t)
    BY <1>2, <1>4, <2>6 DEF SeekUnderflow, StopReset, AllStopped
  <2>7. CASE SeekRestart(t)
    <3>1. PICK legs : startLocked(call[t], legs, paused, None, open \ {streams})
      BY <2>7 DEF SeekRestart
    <3>2. op[t] # "SetSource" /\ GoTo(t, "return")
      BY <2>7 DEF SeekRestart, AllStopped
    <3>3. \A c \in open' : c = streams' \/ (c \in open /\ c # streams)
      BY <3>1 DEF startLocked
    <3> QED
      BY <1>2, <3>2, <3>3, AccountedKept DEF Holds
  <2> QED
    BY <1>7, <2>0, <2>1, <2>2, <2>3, <2>4, <2>5, <2>6, <2>7 DEF Continue
<1>8. ASSUME NEW s \in Strs, Streamer(s) PROVE KeepsAccount
  BY <1>1, <1>8 DEF Streamer, StreamerHold, StreamerRelease, StreamerExit, StreamerEnding,
    StreamerSubmit, lockVars, procVars
<1>9. CASE Take \/ EndCheck \/ EndLocked \/ StopSibling \/ CallbackReturn
  BY <1>1, <1>9 DEF Take, EndCheck, EndLocked, StopSibling, CallbackReturn, lockVars, procVars
<1>10. CASE DownLock
  <2>1. /\ Disp \in Procs /\ op[Disp] # "SetSource" /\ UNCHANGED <<open, streams, call>>
        /\ op' = [op EXCEPT ![Disp] = "Down"] /\ pc' = [pc EXCEPT ![Disp] = "stop"]
    BY <1>10 DEF DownLock, Control, ReentryOK, PlaceOK, Procs, lockVars
  <2> QED
    BY <1>2, <1>3, <2>1
<1>11. CASE DownDone
  BY <1>2, <1>4, <1>11 DEF DownDone, AllStopped, Procs
<1>12. CASE NetChange \/ UNCHANGED vars
  BY <1>1, <1>12 DEF NetChange, vars, lockVars, procVars
<1> QED
  BY <1>5, <1>6, <1>7, <1>8, <1>9, <1>10, <1>11, <1>12 DEF Next, Dispatcher

\* Whatever is called, no step forgets Streams that are open: each is the call's,
\* or belongs to a SetSource that still closes or installs it, except that Resume
\* forgets those of a source that came to its end.
THEOREM StreamsAccountedHolds == Spec => StreamsAccounted
<1>1. Base /\ Whole /\ [Next]_vars => [KeepsAccount]_vars
  BY AccountedStep
<1> QED
  BY <1>1, BaseInvariant, WholeInvariant, PTL DEF Spec, StreamsAccounted, KeepsAccount, Replays

-----------------------------------------------------------------------------
(* What the user is told converges to what is.                             *)

\* A media state with the mute and pause bits m and p.
Shows(state, m, p) == state.muted = m /\ state.silent = (m \/ p)

LastUpgrade(q, i) ==
  q[i].kind = "upgrade" /\ \A j \in 1 .. Len(q) : j > i => q[j].kind # "upgrade"

\* The last upgrade in the queue, or what the user heard if there is none, shows
\* the bits.
Told(q, heard, m, p) ==
  /\ (\A i \in 1 .. Len(q) : q[i].kind # "upgrade") => Shows(heard, m, p)
  /\ \A i \in 1 .. Len(q) : LastUpgrade(q, i) => Shows(q[i].state, m, p)

\* Until the call is closed, the user has been told or will be.
Mirrored ==
  /\ \A t \in Procs : op[t] = "Stop" => closed
  /\ ~closed => Told(queue, mirror, muted, paused)

\* The buffer takes another closure without giving one up.
HasRoom == Len(queue) < QCap

\* The elements of a queue a closure was added to.
LEMMA AppendElements ==
  ASSUME NEW q \in Seq(Closures), NEW f \in Closures
  PROVE  /\ Append(q, f) \in Seq(Closures) /\ Len(Append(q, f)) = Len(q) + 1
         /\ Append(q, f)[Len(q) + 1] = f
         /\ \A i \in 1 .. Len(q) : Append(q, f)[i] = q[i]
         /\ Len(q) \in Nat
OBVIOUS

\* An upgrade with the bits is the last one.
LEMMA ToldUpgrade ==
  ASSUME NEW q \in Seq(Closures), NEW f \in Closures, NEW heard, NEW m, NEW p,
         f.kind = "upgrade", Shows(f.state, m, p)
  PROVE  Told(Append(q, f), heard, m, p)
<1> DEFINE r == Append(q, f)
<1>1. /\ Len(r) = Len(q) + 1 /\ r[Len(q) + 1] = f /\ Len(q) \in Nat
      /\ \A i \in 1 .. Len(q) : r[i] = q[i]
  BY AppendElements
<1> HIDE DEF r
<1>2. Len(r) \in 1 .. Len(r) /\ r[Len(r)].kind = "upgrade"
  BY <1>1
<1>3. ASSUME NEW i \in 1 .. Len(r), LastUpgrade(r, i) PROVE Shows(r[i].state, m, p)
  <2>1. i = Len(r)
    BY <1>1, <1>2, <1>3 DEF LastUpgrade
  <2> QED
    BY <1>1, <2>1
<1> QED
  BY <1>2, <1>3 DEF Told, r

\* Anything else changes nothing about it.
LEMMA ToldOther ==
  ASSUME NEW q \in Seq(Closures), NEW f \in Closures, NEW heard, NEW m, NEW p,
         f.kind # "upgrade", Told(q, heard, m, p)
  PROVE  Told(Append(q, f), heard, m, p)
<1> DEFINE r == Append(q, f)
<1>1. /\ Len(r) = Len(q) + 1 /\ r[Len(q) + 1] = f /\ Len(q) \in Nat
      /\ \A i \in 1 .. Len(q) : r[i] = q[i]
  BY AppendElements
<1> HIDE DEF r
<1>2. \A i \in 1 .. Len(q) : i \in 1 .. Len(r)
  BY <1>1
<1>3. (\A i \in 1 .. Len(r) : r[i].kind # "upgrade") => Shows(heard, m, p)
  BY <1>1, <1>2 DEF Told
<1>4. ASSUME NEW i \in 1 .. Len(r), LastUpgrade(r, i) PROVE Shows(r[i].state, m, p)
  <2>1. i \in 1 .. Len(q)
    BY <1>1, <1>4 DEF LastUpgrade
  <2>2. LastUpgrade(q, i)
    BY <1>1, <1>2, <1>4, <2>1 DEF LastUpgrade
  <2> QED
    BY <1>1, <2>1, <2>2 DEF Told
<1> QED
  BY <1>3, <1>4 DEF Told, r

\* The dispatcher takes the oldest closure; an upgrade is what the user hears.
LEMMA ToldTail ==
  ASSUME NEW q \in Seq(Closures), q # <<>>, NEW heard, NEW m, NEW p, Told(q, heard, m, p)
  PROVE  Told(Tail(q), IF Head(q).kind = "upgrade" THEN Head(q).state ELSE heard, m, p)
<1> DEFINE r == Tail(q)
<1>1. /\ Len(r) = Len(q) - 1 /\ Len(q) \in Nat \ {0} /\ Head(q) = q[1]
      /\ \A i \in 1 .. Len(r) : r[i] = q[i + 1]
  OBVIOUS
<1> HIDE DEF r
<1>2. \A i \in 1 .. Len(r) : i + 1 \in 1 .. Len(q)
  BY <1>1
<1>3. \A j \in 1 .. Len(q) : j = 1 \/ (j - 1 \in 1 .. Len(r) /\ q[j] = r[j - 1])
  BY <1>1
<1>4. ASSUME \A i \in 1 .. Len(r) : r[i].kind # "upgrade"
      PROVE  Shows(IF Head(q).kind = "upgrade" THEN Head(q).state ELSE heard, m, p)
  <2>1. CASE Head(q).kind = "upgrade"
    <3>1. 1 \in 1 .. Len(q) /\ LastUpgrade(q, 1)
      BY <1>1, <1>3, <1>4, <2>1 DEF LastUpgrade
    <3> QED
      BY <1>1, <2>1, <3>1 DEF Told
  <2>2. CASE Head(q).kind # "upgrade"
    BY <1>1, <1>3, <1>4, <2>2 DEF Told
  <2> QED
    BY <2>1, <2>2
<1>5. ASSUME NEW i \in 1 .. Len(r), LastUpgrade(r, i) PROVE Shows(r[i].state, m, p)
  <2>1. i \in Nat /\ i + 1 \in 1 .. Len(q) /\ r[i] = q[i + 1]
    BY <1>1, <1>2
  <2>2. \A j \in 1 .. Len(q) : j > i + 1 => q[j].kind # "upgrade"
    <3> SUFFICES ASSUME NEW j \in 1 .. Len(q), j > i + 1 PROVE q[j].kind # "upgrade"
      OBVIOUS
    <3>1. j - 1 \in 1 .. Len(r) /\ q[j] = r[j - 1] /\ j - 1 > i
      BY <1>1, <1>3, <2>1
    <3> QED
      BY <1>5, <3>1 DEF LastUpgrade
  <2>3. LastUpgrade(q, i + 1)
    BY <1>5, <2>1, <2>2 DEF LastUpgrade
  <2> QED
    BY <2>1, <2>3 DEF Told
<1> QED
  BY <1>4, <1>5 DEF Told, r

\* fireUpgradeIfChangedLocked is silent only when neither bit shows a change.
LEMMA ToldChange ==
  ASSUME queue \in Seq(Closures), queue' \in Seq(Closures), HasRoom,
         muted \in BOOLEAN, paused \in BOOLEAN, mirror \in MediaStates,
         NEW m \in BOOLEAN, NEW p \in BOOLEAN, NEW v,
         fireUpgrade(MediaState(m, p, v)), Told(queue, mirror, muted, paused)
  PROVE  Told(queue', mirror, m, p)
<1> DEFINE next == MediaState(m, p, v)
<1>1. Shows(next, m, p) /\ next.muted = m /\ next.silent = (m \/ p)
  BY DEF Shows, MediaState
<1>2. CASE next = currentState
  <2>1. currentState.muted = muted /\ currentState.silent = (muted \/ paused)
    BY DEF currentState, MediaState
  <2>2. m = muted /\ (m \/ p) = (muted \/ paused)
    BY <1>1, <1>2, <2>1
  <2>3. queue' = queue
    BY <1>2 DEF fireUpgrade
  <2> QED
    BY <2>2, <2>3 DEF Told, Shows
<1>3. CASE next # currentState
  <2>1. queue' = Append(queue, UpgradeFn(next))
    BY <1>3 DEF fireUpgrade, Submitted, HasRoom
  <2>2. UpgradeFn(next) \in Closures /\ UpgradeFn(next).kind = "upgrade"
        /\ UpgradeFn(next).state = next
    BY MediaStateType, ClosureTypes DEF UpgradeFn
  <2> QED
    BY <1>1, <2>1, <2>2, ToldUpgrade
<1> QED
  BY <1>2, <1>3

\* `closed` is never reset, and is set as Stop is called.
LEMMA ClosedStep ==
  ASSUME Base, [Next]_vars
  PROVE  /\ closed => closed'
         /\ \A t \in Procs : op'[t] = "Stop" => op[t] = "Stop" \/ closed'
<1> USE DEF Base, TypeOK, ProcTypes
<1>1. ASSUME UNCHANGED <<closed, op>>
      PROVE  /\ closed => closed'
             /\ \A t \in Procs : op'[t] = "Stop" => op[t] = "Stop" \/ closed'
  BY <1>1
<1>2. ASSUME NEW t \in Procs, UNCHANGED closed,
             \/ Return(t) \/ (\E p : GoTo(t, p)) \/ op' = op
             \/ op' = [op EXCEPT ![t] = "Underflow"] \/ op' = [op EXCEPT ![t] = "Down"]
             \/ \E o, p : Enter(t, o, p) /\ o # "Stop"
      PROVE  /\ closed => closed'
             /\ \A u \in Procs : op'[u] = "Stop" => op[u] = "Stop" \/ closed'
  BY <1>2 DEF Return, GoTo, Enter
<1>3. ASSUME NEW t \in Procs, EnterOp(t) \/ SetSourceOpen(t) \/ StopEnter(t)
      PROVE  /\ closed => closed'
             /\ \A u \in Procs : op'[u] = "Stop" => op[u] = "Stop" \/ closed'
  <2>1. CASE EnterOp(t) \/ SetSourceOpen(t)
    <3>1. UNCHANGED closed /\ \E o, p : Enter(t, o, p) /\ o # "Stop"
      <4>1. ASSUME EnterOp(t) PROVE \E o, p : Enter(t, o, p) /\ o # "Stop"
        <5>1. PICK o \in Toggles \cup {"SeekBy"} : Enter(t, o, "lock")
          BY <4>1 DEF EnterOp
        <5> QED
          BY <5>1 DEF Toggles
      <4>2. ASSUME SetSourceOpen(t) PROVE \E o, p : Enter(t, o, p) /\ o # "Stop"
        <5>1. Enter(t, "SetSource", "gate")
          BY <4>2 DEF SetSourceOpen
        <5> QED
          BY <5>1
      <4> QED
        BY <2>1, <4>1, <4>2 DEF EnterOp, SetSourceOpen
    <3> QED
      BY <1>2, <3>1
  <2>2. CASE StopEnter(t)
    BY <2>2 DEF StopEnter
  <2> QED
    BY <1>3, <2>1, <2>2
<1>4. ASSUME NEW t \in Procs, Continue(t)
      PROVE  /\ closed => closed'
             /\ \A u \in Procs : op'[u] = "Stop" => op[u] = "Stop" \/ closed'
  <2>1. UNCHANGED closed
    BY <1>4 DEF Continue, Pause, Resume, Mute, Unmute, CancelStreamer, JoinStreamer,
      SetSourceGate, SetSourceLock, SetSourceInstall, SwitchDone, SeekLock, SeekUnderflow,
      SeekRestart, StopLock, StopReset, StopReturn
  <2>2. \/ Return(t) \/ (\E p : GoTo(t, p)) \/ op' = op
        \/ op' = [op EXCEPT ![t] = "Underflow"]
    BY <1>4 DEF Continue, Pause, Resume, Mute, Unmute, CancelStreamer, JoinStreamer,
      SetSourceGate, SetSourceLock, SetSourceInstall, SwitchDone, SeekLock, SeekUnderflow,
      SeekRestart, StopLock, StopReset, StopReturn, GiveUp, procVars
  <2> QED
    BY <1>2, <2>1, <2>2
<1>5. ASSUME NEW s \in Strs, Streamer(s) PROVE UNCHANGED <<closed, op>>
  BY <1>5 DEF Streamer, StreamerHold, StreamerRelease, StreamerExit, StreamerEnding,
    StreamerSubmit, procVars
<1>6. CASE Dispatcher
  <2>1. CASE DownLock \/ DownDone
    BY <1>2, <2>1 DEF DownLock, DownDone, Procs
  <2>2. CASE ~DownLock /\ ~DownDone
    BY <1>1, <1>6, <2>2 DEF Dispatcher, Take, EndCheck, EndLocked, StopSibling, CallbackReturn,
      procVars
  <2> QED
    BY <2>1, <2>2
<1>7. CASE NetChange \/ UNCHANGED vars
  BY <1>1, <1>7 DEF NetChange, vars, procVars
<1> QED
  BY <1>1, <1>3, <1>4, <1>5, <1>6, <1>7 DEF Next

\* Reporting a connection state, with room for both closures, tells nothing about
\* the bits.
LEMMA ToldReported ==
  ASSUME queue \in Seq(Closures), HasRoom, HasRoom', NEW s \in NetStates, Reports(s),
         NEW heard, NEW m, NEW p, Told(queue, heard, m, p)
  PROVE  Told(queue', heard, m, p)
<1>1. /\ DownFn \in Closures /\ ConnFn(s) \in Closures
      /\ DownFn.kind # "upgrade" /\ ConnFn(s).kind # "upgrade"
  BY ClosureTypes DEF DownFn, ConnFn
<1> DEFINE q == Append(queue, DownFn)
<1>2. Submitted(queue, DownFn) = q /\ Submitted(queue, ConnFn(s)) = Append(queue, ConnFn(s))
  BY DEF Submitted, HasRoom
<1>3. q \in Seq(Closures) /\ Len(q) \in Nat /\ Told(q, heard, m, p)
  BY <1>1, ToldOther
<1> HIDE DEF q
<1>4. CASE queue' = Submitted(q, ConnFn(s))
  <2>1. CASE Len(q) < QCap
    BY <1>1, <1>3, <1>4, <2>1, ToldOther DEF Submitted
  <2>2. CASE ~(Len(q) < QCap)
    <3>1. q # <<>> /\ queue' = Append(Tail(q), ConnFn(s))
      BY <1>4, <2>2, ConstantsAssumption DEF Submitted
    <3>2. Len(queue') = Len(q)
      BY <1>1, <1>3, <3>1
    <3> QED
      BY <2>2, <3>2 DEF HasRoom
  <2> QED
    BY <2>1, <2>2
<1>5. CASE queue' = queue \/ queue' = Submitted(queue, ConnFn(s))
  BY <1>1, <1>2, <1>5, ToldOther
<1> QED
  BY <1>2, <1>4, <1>5 DEF Reports

\* Every change of the bits is told, in the order of the changes, while the
\* buffer gives no closure up.
LEMMA MirroredStep ==
  ASSUME Base, Mirrored, HasRoom, HasRoom', [Next]_vars
  PROVE  Mirrored'
<1>0. /\ queue \in Seq(Closures) /\ muted \in BOOLEAN /\ paused \in BOOLEAN /\ mirror \in MediaStates
      /\ queue' \in Seq(Closures)
  BY BaseStep DEF Base, TypeOK, DispTypes, LockTypes
<1>1. /\ closed => closed'
      /\ \A t \in Procs : op'[t] = "Stop" => closed'
  BY ClosedStep DEF Mirrored
<1> SUFFICES ASSUME ~closed' PROVE Told(queue', mirror', muted', paused')
  BY <1>1 DEF Mirrored
<1>2. Told(queue, mirror, muted, paused) /\ ~closed
  BY <1>1 DEF Mirrored
<1>3. CASE UNCHANGED <<queue, mirror, muted, paused>>
  BY <1>2, <1>3
<1>4. ASSUME NEW f \in Closures, f.kind # "upgrade", queue' = Submitted(queue, f),
             UNCHANGED <<mirror, muted, paused>>
      PROVE  Told(queue', mirror', muted', paused')
  BY <1>0, <1>2, <1>4, ToldOther DEF Submitted, HasRoom
<1>5. ASSUME NEW t \in Procs, EnterOp(t) \/ SetSourceOpen(t) \/ StopEnter(t)
      PROVE  UNCHANGED <<queue, mirror, muted, paused>>
  BY <1>5 DEF EnterOp, SetSourceOpen, StopEnter, lockVars, dispVars
<1>6. ASSUME NEW t \in Procs, Continue(t) PROVE Told(queue', mirror', muted', paused')
  <2>1. CASE Pause(t) \/ Mute(t) \/ Unmute(t) \/ Resume(t)
    <3>1. \/ UNCHANGED <<queue, mirror, muted, paused>>
          \/ /\ mirror' = mirror /\ muted' \in BOOLEAN /\ paused' \in BOOLEAN
             /\ \E v : fireUpgrade(MediaState(muted', paused', v))
      BY <1>0, <2>1 DEF Pause, Mute, Unmute, Resume, lockVars, dispVars
    <3> QED
      BY <1>0, <1>2, <1>3, <3>1, ToldChange
  <2>2. CASE StopReset(t)
    BY <1>1, <2>2 DEF StopReset, AllStopped, Mirrored
  <2>3. CASE StopReturn(t)
    BY <1>2, <1>1, <2>3 DEF StopReturn, Mirrored
  <2>4. CASE CancelStreamer(t) \/ JoinStreamer(t) \/ SetSourceGate(t) \/ SetSourceLock(t)
             \/ SetSourceInstall(t) \/ SwitchDone(t) \/ SeekLock(t) \/ SeekUnderflow(t)
             \/ SeekRestart(t) \/ StopLock(t)
    BY <1>3, <2>4 DEF CancelStreamer, JoinStreamer, SetSourceGate, SetSourceLock,
      SetSourceInstall, SwitchDone, SeekLock, SeekUnderflow, SeekRestart, StopLock, lockVars,
      dispVars
  <2> QED
    BY <1>6, <2>1, <2>2, <2>3, <2>4 DEF Continue
<1>7. ASSUME NEW s \in Strs, Streamer(s) PROVE Told(queue', mirror', muted', paused')
  <2>1. UNCHANGED <<mirror, muted, paused>>
        /\ (UNCHANGED queue \/ queue' = Submitted(queue, EndFn(s)))
    BY <1>7 DEF Streamer, StreamerHold, StreamerRelease, StreamerExit, StreamerEnding,
      StreamerSubmit, lockVars, dispVars
  <2>2. EndFn(s) \in Closures /\ EndFn(s).kind # "upgrade"
    BY ClosureTypes DEF EndFn
  <2> QED
    BY <1>3, <1>4, <2>1, <2>2
<1>8. CASE Take
  <2>1. /\ queue # <<>> /\ queue' = Tail(queue) /\ UNCHANGED <<muted, paused>>
        /\ mirror' = IF Head(queue).kind = "upgrade" THEN Head(queue).state ELSE mirror
    BY <1>8 DEF Take, lockVars
  <2> QED
    BY <1>0, <1>2, <2>1, ToldTail
<1>9. CASE DownDone
  <2>1. /\ UNCHANGED <<mirror, muted, paused>>
        /\ UNCHANGED queue \/ queue' = Submitted(queue, UpgradeFn(currentState))
    BY <1>9 DEF DownDone
  <2>2. /\ UpgradeFn(currentState) \in Closures /\ UpgradeFn(currentState).kind = "upgrade"
        /\ Shows(UpgradeFn(currentState).state, muted, paused)
    BY <1>0, MediaStateType, ClosureTypes DEF currentState, UpgradeFn, Shows, MediaState
  <2> QED
    BY <1>0, <1>3, <2>1, <2>2, ToldUpgrade DEF Submitted, HasRoom
<1>10. CASE EndCheck \/ EndLocked \/ StopSibling \/ CallbackReturn \/ DownLock
  BY <1>3, <1>10 DEF EndCheck, EndLocked, StopSibling, CallbackReturn, DownLock, lockVars
<1>11. CASE NetChange
  <2>1. PICK s \in Reported : Reports(s)
    BY <1>11 DEF NetChange
  <2>2. s \in NetStates /\ UNCHANGED <<mirror, muted, paused>>
    BY <1>11, ConstantsAssumption DEF NetChange, NetStates, lockVars, dispVars
  <2> QED
    BY <1>0, <1>2, <2>1, <2>2, ToldReported
<1>12. CASE UNCHANGED vars
  BY <1>3, <1>12 DEF vars, lockVars, dispVars
<1> QED
  BY <1>3, <1>5, <1>6, <1>7, <1>8, <1>9, <1>10, <1>11, <1>12 DEF Next, Dispatcher

\* While the dispatcher's buffer gives up no closure, the mute and pause bits the
\* user last heard of, with no OnUpgrade on its way, are those of the call,
\* however Pause, Resume, Mute, Unmute, ends and a dying connection interleave.
THEOREM MirrorConvergesHolds == Spec /\ []HasRoom => []MirrorConverges
<1>1. Init => Mirrored
  <2> SUFFICES ASSUME Init PROVE Mirrored
    OBVIOUS
  <2>1. queue = <<>> /\ mirror = MediaState(FALSE, FALSE, None) /\ muted = FALSE /\ paused = FALSE
        /\ \A t \in Procs : op[t] = "none"
    BY DEF Init
  <2>2. Shows(mirror, muted, paused)
    BY <2>1 DEF Shows, MediaState
  <2>3. 1 .. Len(queue) = {}
    BY <2>1
  <2>4. Told(queue, mirror, muted, paused)
    BY <2>2, <2>3 DEF Told
  <2> QED
    BY <2>1, <2>4 DEF Mirrored
<1>2. Base /\ Mirrored /\ HasRoom /\ HasRoom' /\ [Next]_vars => Mirrored'
  BY MirroredStep
<1>3. Mirrored => MirrorConverges
  BY DEF Mirrored, Told, Shows, MirrorConverges, NoUpgradeDue
<1> QED
  BY <1>1, <1>2, <1>3, BaseInvariant, PTL DEF Spec

=============================================================================
