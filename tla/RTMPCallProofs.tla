--------------------------- MODULE RTMPCallProofs ---------------------------
(***************************************************************************)
(* Proofs about RTMPCall.tla, for any callers and bounds.  The mutex keeps  *)
(* one goroutine between the kill of a process and its successor's hook, so *)
(* a process that is not done with is the call's or, for the moment between *)
(* its start and its hook, the newest; the rest follows from there.         *)
(***************************************************************************)
EXTENDS RTMPCall, TLAPS

Inside == {"stop", "restart", "reset", "start", "hook"}

\* Who is inside a section has the mutex; only a call that is not paused starts,
\* and only one that is closed is stopped.
MuInv ==
  /\ \A t \in Threads : pc[t] \in Inside <=> mu = t
  /\ \A t \in Threads : pc[t] \in {"restart", "start", "hook"} => ~paused
  /\ \A t \in Threads : pc[t] \in {"start", "hook"} => cmd = None
  /\ \A t \in Threads : pc[t] \in {"stopping", "reset"} => closed

\* A process that was started and is not done with is the call's, or has no hook yet.
ProcInv ==
  /\ \A p \in Procs :
       p > started => proc[p] = "none" /\ p \notin killed /\ cut[p] = "no"
  /\ cmd <= started
  /\ \A t \in Threads :
       pc[t] = "hook" => started > 0 /\ started \notin killed /\ cut[started] = "no"
  /\ \A p \in Procs :
       \/ proc[p] \in {"none", "done"} \/ p = cmd
       \/ p = started /\ \E t \in Threads : pc[t] = "hook"

\* A process that a seek kills has lost its hook while it still ran.
SeekInv ==
  /\ \A p \in Procs : cut[p] = "seek" => p \notin hook /\ proc[p] # "reporting"
  /\ SeekIsSilent

\* Where the position is while nobody is inside, and at each place inside.
PosInv ==
  hasSrc /\ ~lost =>
    /\ mu = Nil /\ paused => resumeMs = pos
    /\ mu = Nil /\ ~paused =>
         cmd # None /\ proc[cmd] = "running" /\ cmd \notin killed /\ since = pos
    /\ \A t \in Threads :
         /\ pc[t] \in {"stop", "restart", "start", "hook"} => resumeMs = pos
         /\ pc[t] = "stop" => paused
         /\ pc[t] = "hook" => proc[started] = "running"

IInv == TypeOK /\ MuInv /\ ProcInv /\ SeekInv /\ StopIsFinal /\ PosInv /\ UpgradesAgree

-----------------------------------------------------------------------------
\* A new call has no source and no process.
LEMMA Initially == Init => IInv
<1> SUFFICES ASSUME Init PROVE IInv
  OBVIOUS
<1> USE RTMPAssumption DEF Init, Procs, None
<1>1. TypeOK
  <2>1. /\ resumeMs \in Nat /\ since \in Nat /\ pos \in Nat /\ started \in 0 .. MaxProcs
    OBVIOUS
  <2>2. told \in [muted : BOOLEAN, silent : BOOLEAN]
    BY DEF MediaState
  <2> QED
    BY <2>1, <2>2 DEF TypeOK
<1>2. MuInv /\ ProcInv
  BY DEF MuInv, ProcInv, Inside
<1>3. SeekInv /\ StopIsFinal /\ PosInv /\ UpgradesAgree
  BY DEF SeekInv, SeekIsSilent, StopIsFinal, Stopped, PosInv, UpgradesAgree
<1> QED
  BY <1>1, <1>2, <1>3 DEF IInv

\* The mutex is taken by whoever enters a section and given back by whoever leaves.
LEMMA MuStep ==
  ASSUME TypeOK, MuInv, [Next]_vars
  PROVE  MuInv'
<1> USE RTMPAssumption DEF vars, callVars, placeVars, procVars, Procs, None,
         TypeOK, MuInv, Inside
<1>1. ASSUME NEW t \in Threads, Enter(t) PROVE MuInv'
  BY <1>1 DEF Enter, At, GoTo
<1>2. ASSUME NEW t \in Threads, StopEnter(t) PROVE MuInv'
  BY <1>2 DEF StopEnter, At, GoTo
<1>3. ASSUME NEW t \in Threads, notSupportedToggle(t) PROVE MuInv'
  BY <1>3 DEF notSupportedToggle, fireUpgrade, MediaState, At
<1>4. ASSUME NEW t \in Threads, SetSource(t) PROVE MuInv'
  BY <1>4 DEF SetSource, Locks, At, GoTo, Kill, Playing
<1>5. ASSUME NEW t \in Threads, Pause(t) PROVE MuInv'
  BY <1>5 DEF Pause, Locks, At, GoTo, Kill, Playing, fireUpgrade, MediaState
<1>6. ASSUME NEW t \in Threads, Resume(t) PROVE MuInv'
  BY <1>6 DEF Resume, Locks, At, GoTo, fireUpgrade, MediaState
<1>7. ASSUME NEW t \in Threads, ReturnAtOnce(t) PROVE MuInv'
  BY <1>7 DEF ReturnAtOnce, Locks, At, GoTo
<1>8. ASSUME NEW t \in Threads, SeekUnderflow(t) PROVE MuInv'
  BY <1>8 DEF SeekUnderflow, Locks, At, GoTo, Kill, Playing
<1>9. ASSUME NEW t \in Threads, SeekRestart(t) PROVE MuInv'
  BY <1>9 DEF SeekRestart, Locks, At, GoTo, Kill, Playing, Unhooked
<1>10. ASSUME NEW t \in Threads, Stop(t) PROVE MuInv'
  BY <1>10 DEF Stop, At, GoTo, Kill, Playing
<1>11. ASSUME NEW t \in Threads, JoinReturn(t) PROVE MuInv'
  BY <1>11 DEF JoinReturn, Joined, At, GoTo
<1>12. ASSUME NEW t \in Threads, StopReturn(t) PROVE MuInv'
  BY <1>12 DEF StopReturn, Joined, Reset, At, GoTo
<1>13. ASSUME NEW t \in Threads, JoinRestart(t) PROVE MuInv'
  BY <1>13 DEF JoinRestart, Joined, At, GoTo
<1>14. ASSUME NEW t \in Threads, SpawnNothing(t) PROVE MuInv'
  BY <1>14 DEF SpawnNothing, At, GoTo
<1>15. ASSUME NEW t \in Threads, Spawn(t) PROVE MuInv'
  BY <1>15 DEF Spawn, At, GoTo
<1>16. ASSUME NEW t \in Threads, SetHook(t) PROVE MuInv'
  BY <1>16 DEF SetHook, StartedAt, At, GoTo
<1>17. ASSUME NEW p \in Procs, Exit(p) PROVE MuInv'
  BY <1>17 DEF Exit
<1>18. ASSUME NEW p \in Procs, Reap(p) PROVE MuInv'
  BY <1>18 DEF Reap
<1>19. ASSUME NEW p \in Procs, ReapSilently(p) PROVE MuInv'
  BY <1>19 DEF ReapSilently, Finish
<1>20. ASSUME NEW p \in Procs, Report(p) PROVE MuInv'
  BY <1>20 DEF Report, Finish
<1>21. CASE Tick
  BY <1>21 DEF Tick, Playing
<1>22. CASE UNCHANGED vars
  BY <1>22
<1> QED
  BY <1>1, <1>2, <1>3, <1>4, <1>5, <1>6, <1>7, <1>8, <1>9, <1>10, <1>11, <1>12, <1>13,
     <1>14, <1>15, <1>16, <1>17, <1>18, <1>19, <1>20, <1>21, <1>22
  DEF Next, Section, Rest, ReapStep

\* Only a goroutine with the mutex, and no process, starts one.
LEMMA ProcStep ==
  ASSUME TypeOK, MuInv, ProcInv, [Next]_vars
  PROVE  ProcInv'
<1> USE RTMPAssumption DEF vars, callVars, placeVars, procVars, Procs, None,
         TypeOK, MuInv, Inside, ProcInv
<1>1. ASSUME NEW t \in Threads, Enter(t) PROVE ProcInv'
  BY <1>1 DEF Enter, At, GoTo
<1>2. ASSUME NEW t \in Threads, StopEnter(t) PROVE ProcInv'
  BY <1>2 DEF StopEnter, At, GoTo
<1>3. ASSUME NEW t \in Threads, notSupportedToggle(t) PROVE ProcInv'
  BY <1>3 DEF notSupportedToggle, fireUpgrade, MediaState, At
<1>4. ASSUME NEW t \in Threads, SetSource(t) PROVE ProcInv'
  BY <1>4 DEF SetSource, Locks, At, GoTo, Kill, Playing
<1>5. ASSUME NEW t \in Threads, Pause(t) PROVE ProcInv'
  BY <1>5 DEF Pause, Locks, At, GoTo, Kill, Playing, fireUpgrade, MediaState
<1>6. ASSUME NEW t \in Threads, Resume(t) PROVE ProcInv'
  BY <1>6 DEF Resume, Locks, At, GoTo, fireUpgrade, MediaState
<1>7. ASSUME NEW t \in Threads, ReturnAtOnce(t) PROVE ProcInv'
  BY <1>7 DEF ReturnAtOnce, Locks, At, GoTo
<1>8. ASSUME NEW t \in Threads, SeekUnderflow(t) PROVE ProcInv'
  BY <1>8 DEF SeekUnderflow, Locks, At, GoTo, Kill, Playing
<1>9. ASSUME NEW t \in Threads, SeekRestart(t) PROVE ProcInv'
  BY <1>9 DEF SeekRestart, Locks, At, GoTo, Kill, Playing, Unhooked
<1>10. ASSUME NEW t \in Threads, Stop(t) PROVE ProcInv'
  BY <1>10 DEF Stop, At, GoTo, Kill, Playing
<1>11. ASSUME NEW t \in Threads, JoinReturn(t) PROVE ProcInv'
  BY <1>11 DEF JoinReturn, Joined, At, GoTo
<1>12. ASSUME NEW t \in Threads, StopReturn(t) PROVE ProcInv'
  BY <1>12 DEF StopReturn, Joined, Reset, At, GoTo
<1>13. ASSUME NEW t \in Threads, JoinRestart(t) PROVE ProcInv'
  BY <1>13 DEF JoinRestart, Joined, At, GoTo
<1>14. ASSUME NEW t \in Threads, SpawnNothing(t) PROVE ProcInv'
  BY <1>14 DEF SpawnNothing, At, GoTo
<1>15. ASSUME NEW t \in Threads, Spawn(t) PROVE ProcInv'
  BY <1>15 DEF Spawn, At, GoTo
<1>16. ASSUME NEW t \in Threads, SetHook(t) PROVE ProcInv'
  BY <1>16 DEF SetHook, StartedAt, At, GoTo
<1>17. ASSUME NEW p \in Procs, Exit(p) PROVE ProcInv'
  BY <1>17 DEF Exit
<1>18. ASSUME NEW p \in Procs, Reap(p) PROVE ProcInv'
  BY <1>18 DEF Reap
<1>19. ASSUME NEW p \in Procs, ReapSilently(p) PROVE ProcInv'
  BY <1>19 DEF ReapSilently, Finish
<1>20. ASSUME NEW p \in Procs, Report(p) PROVE ProcInv'
  BY <1>20 DEF Report, Finish
<1>21. CASE Tick
  BY <1>21 DEF Tick, Playing
<1>22. CASE UNCHANGED vars
  BY <1>22
<1> QED
  BY <1>1, <1>2, <1>3, <1>4, <1>5, <1>6, <1>7, <1>8, <1>9, <1>10, <1>11, <1>12, <1>13,
     <1>14, <1>15, <1>16, <1>17, <1>18, <1>19, <1>20, <1>21, <1>22
  DEF Next, Section, Rest, ReapStep

\* A hook that is gone does not come back.
LEMMA SeekStep ==
  ASSUME TypeOK, MuInv, ProcInv, SeekInv, [Next]_vars
  PROVE  SeekInv'
<1> USE RTMPAssumption DEF vars, callVars, placeVars, procVars, Procs, None,
         TypeOK, MuInv, Inside, ProcInv, SeekInv, SeekIsSilent
<1>1. ASSUME NEW t \in Threads, Enter(t) PROVE SeekInv'
  BY <1>1 DEF Enter, At, GoTo
<1>2. ASSUME NEW t \in Threads, StopEnter(t) PROVE SeekInv'
  BY <1>2 DEF StopEnter, At, GoTo
<1>3. ASSUME NEW t \in Threads, notSupportedToggle(t) PROVE SeekInv'
  BY <1>3 DEF notSupportedToggle, fireUpgrade, MediaState, At
<1>4. ASSUME NEW t \in Threads, SetSource(t) PROVE SeekInv'
  BY <1>4 DEF SetSource, Locks, At, GoTo, Kill, Playing
<1>5. ASSUME NEW t \in Threads, Pause(t) PROVE SeekInv'
  BY <1>5 DEF Pause, Locks, At, GoTo, Kill, Playing, fireUpgrade, MediaState
<1>6. ASSUME NEW t \in Threads, Resume(t) PROVE SeekInv'
  BY <1>6 DEF Resume, Locks, At, GoTo, fireUpgrade, MediaState
<1>7. ASSUME NEW t \in Threads, ReturnAtOnce(t) PROVE SeekInv'
  BY <1>7 DEF ReturnAtOnce, Locks, At, GoTo
<1>8. ASSUME NEW t \in Threads, SeekUnderflow(t) PROVE SeekInv'
  BY <1>8 DEF SeekUnderflow, Locks, At, GoTo, Kill, Playing
<1>9. ASSUME NEW t \in Threads, SeekRestart(t) PROVE SeekInv'
  BY <1>9 DEF SeekRestart, Locks, At, GoTo, Kill, Playing, Unhooked
<1>10. ASSUME NEW t \in Threads, Stop(t) PROVE SeekInv'
  BY <1>10 DEF Stop, At, GoTo, Kill, Playing
<1>11. ASSUME NEW t \in Threads, JoinReturn(t) PROVE SeekInv'
  BY <1>11 DEF JoinReturn, Joined, At, GoTo
<1>12. ASSUME NEW t \in Threads, StopReturn(t) PROVE SeekInv'
  BY <1>12 DEF StopReturn, Joined, Reset, At, GoTo
<1>13. ASSUME NEW t \in Threads, JoinRestart(t) PROVE SeekInv'
  BY <1>13 DEF JoinRestart, Joined, At, GoTo
<1>14. ASSUME NEW t \in Threads, SpawnNothing(t) PROVE SeekInv'
  BY <1>14 DEF SpawnNothing, At, GoTo
<1>15. ASSUME NEW t \in Threads, Spawn(t) PROVE SeekInv'
  BY <1>15 DEF Spawn, At, GoTo
<1>16. ASSUME NEW t \in Threads, SetHook(t) PROVE SeekInv'
  BY <1>16 DEF SetHook, StartedAt, At, GoTo
<1>17. ASSUME NEW p \in Procs, Exit(p) PROVE SeekInv'
  BY <1>17 DEF Exit
<1>18. ASSUME NEW p \in Procs, Reap(p) PROVE SeekInv'
  BY <1>18 DEF Reap
<1>19. ASSUME NEW p \in Procs, ReapSilently(p) PROVE SeekInv'
  BY <1>19 DEF ReapSilently, Finish
<1>20. ASSUME NEW p \in Procs, Report(p) PROVE SeekInv'
  BY <1>20 DEF Report, Finish
<1>21. CASE Tick
  BY <1>21 DEF Tick, Playing
<1>22. CASE UNCHANGED vars
  BY <1>22
<1> QED
  BY <1>1, <1>2, <1>3, <1>4, <1>5, <1>6, <1>7, <1>8, <1>9, <1>10, <1>11, <1>12, <1>13,
     <1>14, <1>15, <1>16, <1>17, <1>18, <1>19, <1>20, <1>21, <1>22
  DEF Next, Section, Rest, ReapStep

\* Nothing starts without a source, and only SetSource brings one.
LEMMA StopStep ==
  ASSUME TypeOK, MuInv, ProcInv, StopIsFinal, [Next]_vars
  PROVE  StopIsFinal'
<1> USE RTMPAssumption DEF vars, callVars, placeVars, procVars, Procs, None,
         TypeOK, MuInv, Inside, ProcInv, StopIsFinal, Stopped
<1>1. ASSUME NEW t \in Threads, Enter(t) PROVE StopIsFinal'
  BY <1>1 DEF Enter, At, GoTo
<1>2. ASSUME NEW t \in Threads, StopEnter(t) PROVE StopIsFinal'
  BY <1>2 DEF StopEnter, At, GoTo
<1>3. ASSUME NEW t \in Threads, notSupportedToggle(t) PROVE StopIsFinal'
  BY <1>3 DEF notSupportedToggle, fireUpgrade, MediaState, At
<1>4. ASSUME NEW t \in Threads, SetSource(t) PROVE StopIsFinal'
  BY <1>4 DEF SetSource, Locks, At, GoTo, Kill, Playing
<1>5. ASSUME NEW t \in Threads, Pause(t) PROVE StopIsFinal'
  BY <1>5 DEF Pause, Locks, At, GoTo, Kill, Playing, fireUpgrade, MediaState
<1>6. ASSUME NEW t \in Threads, Resume(t) PROVE StopIsFinal'
  BY <1>6 DEF Resume, Locks, At, GoTo, fireUpgrade, MediaState
<1>7. ASSUME NEW t \in Threads, ReturnAtOnce(t) PROVE StopIsFinal'
  BY <1>7 DEF ReturnAtOnce, Locks, At, GoTo
<1>8. ASSUME NEW t \in Threads, SeekUnderflow(t) PROVE StopIsFinal'
  BY <1>8 DEF SeekUnderflow, Locks, At, GoTo, Kill, Playing
<1>9. ASSUME NEW t \in Threads, SeekRestart(t) PROVE StopIsFinal'
  BY <1>9 DEF SeekRestart, Locks, At, GoTo, Kill, Playing, Unhooked
<1>10. ASSUME NEW t \in Threads, Stop(t) PROVE StopIsFinal'
  BY <1>10 DEF Stop, At, GoTo, Kill, Playing
<1>11. ASSUME NEW t \in Threads, JoinReturn(t) PROVE StopIsFinal'
  BY <1>11 DEF JoinReturn, Joined, At, GoTo
<1>12. ASSUME NEW t \in Threads, StopReturn(t) PROVE StopIsFinal'
  BY <1>12 DEF StopReturn, Joined, Reset, At, GoTo
<1>13. ASSUME NEW t \in Threads, JoinRestart(t) PROVE StopIsFinal'
  BY <1>13 DEF JoinRestart, Joined, At, GoTo
<1>14. ASSUME NEW t \in Threads, SpawnNothing(t) PROVE StopIsFinal'
  BY <1>14 DEF SpawnNothing, At, GoTo
<1>15. ASSUME NEW t \in Threads, Spawn(t) PROVE StopIsFinal'
  BY <1>15 DEF Spawn, At, GoTo
<1>16. ASSUME NEW t \in Threads, SetHook(t) PROVE StopIsFinal'
  BY <1>16 DEF SetHook, StartedAt, At, GoTo
<1>17. ASSUME NEW p \in Procs, Exit(p) PROVE StopIsFinal'
  BY <1>17 DEF Exit
<1>18. ASSUME NEW p \in Procs, Reap(p) PROVE StopIsFinal'
  BY <1>18 DEF Reap
<1>19. ASSUME NEW p \in Procs, ReapSilently(p) PROVE StopIsFinal'
  BY <1>19 DEF ReapSilently, Finish
<1>20. ASSUME NEW p \in Procs, Report(p) PROVE StopIsFinal'
  BY <1>20 DEF Report, Finish
<1>21. CASE Tick
  BY <1>21 DEF Tick, Playing
<1>22. CASE UNCHANGED vars
  BY <1>22
<1> QED
  BY <1>1, <1>2, <1>3, <1>4, <1>5, <1>6, <1>7, <1>8, <1>9, <1>10, <1>11, <1>12, <1>13,
     <1>14, <1>15, <1>16, <1>17, <1>18, <1>19, <1>20, <1>21, <1>22
  DEF Next, Section, Rest, ReapStep

\* The offsets follow the position.
LEMMA PosStep ==
  ASSUME TypeOK, MuInv, ProcInv, PosInv, [Next]_vars
  PROVE  PosInv'
<1> USE RTMPAssumption DEF vars, callVars, placeVars, procVars, Procs, None,
         TypeOK, MuInv, Inside, ProcInv, PosInv
<1>1. ASSUME NEW t \in Threads, Enter(t) PROVE PosInv'
  BY <1>1 DEF Enter, At, GoTo
<1>2. ASSUME NEW t \in Threads, StopEnter(t) PROVE PosInv'
  BY <1>2 DEF StopEnter, At, GoTo
<1>3. ASSUME NEW t \in Threads, notSupportedToggle(t) PROVE PosInv'
  BY <1>3 DEF notSupportedToggle, fireUpgrade, MediaState, At
<1>4. ASSUME NEW t \in Threads, SetSource(t) PROVE PosInv'
  BY <1>4 DEF SetSource, Locks, At, GoTo, Kill, Playing
<1>5. ASSUME NEW t \in Threads, Pause(t) PROVE PosInv'
  BY <1>5 DEF Pause, Locks, At, GoTo, Kill, Playing, fireUpgrade, MediaState
<1>6. ASSUME NEW t \in Threads, Resume(t) PROVE PosInv'
  BY <1>6 DEF Resume, Locks, At, GoTo, fireUpgrade, MediaState
<1>7. ASSUME NEW t \in Threads, ReturnAtOnce(t) PROVE PosInv'
  BY <1>7 DEF ReturnAtOnce, Locks, At, GoTo
<1>8. ASSUME NEW t \in Threads, SeekUnderflow(t) PROVE PosInv'
  BY <1>8 DEF SeekUnderflow, Locks, At, GoTo, Kill, Playing
<1>9. ASSUME NEW t \in Threads, SeekRestart(t) PROVE PosInv'
  BY <1>9 DEF SeekRestart, Locks, At, GoTo, Kill, Playing, Unhooked
<1>10. ASSUME NEW t \in Threads, Stop(t) PROVE PosInv'
  BY <1>10 DEF Stop, At, GoTo, Kill, Playing
<1>11. ASSUME NEW t \in Threads, JoinReturn(t) PROVE PosInv'
  BY <1>11 DEF JoinReturn, Joined, At, GoTo
<1>12. ASSUME NEW t \in Threads, StopReturn(t) PROVE PosInv'
  BY <1>12 DEF StopReturn, Joined, Reset, At, GoTo
<1>13. ASSUME NEW t \in Threads, JoinRestart(t) PROVE PosInv'
  BY <1>13 DEF JoinRestart, Joined, At, GoTo
<1>14. ASSUME NEW t \in Threads, SpawnNothing(t) PROVE PosInv'
  BY <1>14 DEF SpawnNothing, At, GoTo
<1>15. ASSUME NEW t \in Threads, Spawn(t) PROVE PosInv'
  BY <1>15 DEF Spawn, At, GoTo
<1>16. ASSUME NEW t \in Threads, SetHook(t) PROVE PosInv'
  BY <1>16 DEF SetHook, StartedAt, At, GoTo
<1>17. ASSUME NEW p \in Procs, Exit(p) PROVE PosInv'
  <2>1. CASE p \notin killed
    BY <1>17, <2>1 DEF Exit, PosInv, TypeOK
  <2>2. CASE p \in killed
    <3>1. hasSrc' = hasSrc /\ lost' = lost /\ proc' = [proc EXCEPT ![p] = "exited"]
      BY <1>17, <2>2 DEF Exit, TypeOK
    <3>2. UNCHANGED <<mu, paused, cmd, resumeMs, since, pos, pc, killed, started>>
      BY <1>17 DEF Exit
    <3>3. \A q \in Procs \ {p} : proc'[q] = proc[q]
      BY <3>1 DEF TypeOK
    <3>4. \A t \in Threads : pc[t] = "hook" => started \in Procs \ {p}
      BY <2>2 DEF ProcInv, TypeOK
    <3>5. hasSrc /\ ~lost /\ mu = Nil /\ ~paused => cmd \in Procs \ {p}
      BY <2>2 DEF PosInv, TypeOK
    <3> QED
      BY <3>1, <3>2, <3>3, <3>4, <3>5 DEF PosInv
  <2> QED
    BY <2>1, <2>2
<1>18. ASSUME NEW p \in Procs, Reap(p) PROVE PosInv'
  BY <1>18 DEF Reap
<1>19. ASSUME NEW p \in Procs, ReapSilently(p) PROVE PosInv'
  BY <1>19 DEF ReapSilently, Finish
<1>20. ASSUME NEW p \in Procs, Report(p) PROVE PosInv'
  BY <1>20 DEF Report, Finish
<1>21. CASE Tick
  BY <1>21 DEF Tick, Playing
<1>22. CASE UNCHANGED vars
  BY <1>22
<1> QED
  BY <1>1, <1>2, <1>3, <1>4, <1>5, <1>6, <1>7, <1>8, <1>9, <1>10, <1>11, <1>12, <1>13,
     <1>14, <1>15, <1>16, <1>17, <1>18, <1>19, <1>20, <1>21, <1>22
  DEF Next, Section, Rest, ReapStep

\* Whatever changes the state tells it, but for Stop.
LEMMA UpgradeStep ==
  ASSUME TypeOK, MuInv, UpgradesAgree, [Next]_vars
  PROVE  UpgradesAgree'
<1> USE RTMPAssumption DEF vars, callVars, placeVars, procVars, Procs, None,
         TypeOK, MuInv, UpgradesAgree, MediaState
<1>1. ASSUME NEW t \in Threads, Enter(t) PROVE UpgradesAgree'
  BY <1>1 DEF Enter, At, GoTo
<1>2. ASSUME NEW t \in Threads, StopEnter(t) PROVE UpgradesAgree'
  BY <1>2 DEF StopEnter, At, GoTo
<1>3. ASSUME NEW t \in Threads, notSupportedToggle(t) PROVE UpgradesAgree'
  BY <1>3 DEF notSupportedToggle, fireUpgrade, MediaState, At
<1>4. ASSUME NEW t \in Threads, SetSource(t) PROVE UpgradesAgree'
  BY <1>4 DEF SetSource, Locks, At, GoTo, Kill, Playing
<1>5. ASSUME NEW t \in Threads, Pause(t) PROVE UpgradesAgree'
  BY <1>5 DEF Pause, Locks, At, GoTo, Kill, Playing, fireUpgrade, MediaState
<1>6. ASSUME NEW t \in Threads, Resume(t) PROVE UpgradesAgree'
  BY <1>6 DEF Resume, Locks, At, GoTo, fireUpgrade, MediaState
<1>7. ASSUME NEW t \in Threads, ReturnAtOnce(t) PROVE UpgradesAgree'
  BY <1>7 DEF ReturnAtOnce, Locks, At, GoTo
<1>8. ASSUME NEW t \in Threads, SeekUnderflow(t) PROVE UpgradesAgree'
  BY <1>8 DEF SeekUnderflow, Locks, At, GoTo, Kill, Playing
<1>9. ASSUME NEW t \in Threads, SeekRestart(t) PROVE UpgradesAgree'
  BY <1>9 DEF SeekRestart, Locks, At, GoTo, Kill, Playing, Unhooked
<1>10. ASSUME NEW t \in Threads, Stop(t) PROVE UpgradesAgree'
  BY <1>10 DEF Stop, At, GoTo, Kill, Playing
<1>11. ASSUME NEW t \in Threads, JoinReturn(t) PROVE UpgradesAgree'
  BY <1>11 DEF JoinReturn, Joined, At, GoTo
<1>12. ASSUME NEW t \in Threads, StopReturn(t) PROVE UpgradesAgree'
  BY <1>12 DEF StopReturn, Joined, Reset, At, GoTo
<1>13. ASSUME NEW t \in Threads, JoinRestart(t) PROVE UpgradesAgree'
  BY <1>13 DEF JoinRestart, Joined, At, GoTo
<1>14. ASSUME NEW t \in Threads, SpawnNothing(t) PROVE UpgradesAgree'
  BY <1>14 DEF SpawnNothing, At, GoTo
<1>15. ASSUME NEW t \in Threads, Spawn(t) PROVE UpgradesAgree'
  BY <1>15 DEF Spawn, At, GoTo
<1>16. ASSUME NEW t \in Threads, SetHook(t) PROVE UpgradesAgree'
  BY <1>16 DEF SetHook, StartedAt, At, GoTo
<1>17. ASSUME NEW p \in Procs, Exit(p) PROVE UpgradesAgree'
  BY <1>17 DEF Exit
<1>18. ASSUME NEW p \in Procs, Reap(p) PROVE UpgradesAgree'
  BY <1>18 DEF Reap
<1>19. ASSUME NEW p \in Procs, ReapSilently(p) PROVE UpgradesAgree'
  BY <1>19 DEF ReapSilently, Finish
<1>20. ASSUME NEW p \in Procs, Report(p) PROVE UpgradesAgree'
  BY <1>20 DEF Report, Finish
<1>21. CASE Tick
  BY <1>21 DEF Tick, Playing
<1>22. CASE UNCHANGED vars
  BY <1>22
<1> QED
  BY <1>1, <1>2, <1>3, <1>4, <1>5, <1>6, <1>7, <1>8, <1>9, <1>10, <1>11, <1>12, <1>13,
     <1>14, <1>15, <1>16, <1>17, <1>18, <1>19, <1>20, <1>21, <1>22
  DEF Next, Section, Rest, ReapStep

\* No step leaves the types.
LEMMA TypeStep ==
  ASSUME TypeOK, MuInv, ProcInv, [Next]_vars
  PROVE  TypeOK'
<1> USE RTMPAssumption DEF vars, callVars, placeVars, procVars, Procs, None,
         TypeOK, MuInv, Inside
<1>1. ASSUME NEW t \in Threads, Enter(t) PROVE TypeOK'
  BY <1>1 DEF Enter, At, GoTo
<1>2. ASSUME NEW t \in Threads, StopEnter(t) PROVE TypeOK'
  BY <1>2 DEF StopEnter, At, GoTo
<1>3. ASSUME NEW t \in Threads, notSupportedToggle(t) PROVE TypeOK'
  BY <1>3 DEF notSupportedToggle, fireUpgrade, MediaState, At
<1>4. ASSUME NEW t \in Threads, SetSource(t) PROVE TypeOK'
  BY <1>4 DEF SetSource, Locks, At, GoTo, Kill, Playing
<1>5. ASSUME NEW t \in Threads, Pause(t) PROVE TypeOK'
  BY <1>5 DEF Pause, Locks, At, GoTo, Kill, Playing, fireUpgrade, MediaState
<1>6. ASSUME NEW t \in Threads, Resume(t) PROVE TypeOK'
  BY <1>6 DEF Resume, Locks, At, GoTo, fireUpgrade, MediaState
<1>7. ASSUME NEW t \in Threads, ReturnAtOnce(t) PROVE TypeOK'
  BY <1>7 DEF ReturnAtOnce, Locks, At, GoTo
<1>8. ASSUME NEW t \in Threads, SeekUnderflow(t) PROVE TypeOK'
  BY <1>8 DEF SeekUnderflow, Locks, At, GoTo, Kill, Playing
<1>9. ASSUME NEW t \in Threads, SeekRestart(t) PROVE TypeOK'
  <2>1. pc' \in [Threads -> {"idle", "lock", "stopping", "stop", "restart", "reset",
                             "start", "hook"}]
    BY <1>9 DEF SeekRestart, Locks, At, GoTo, TypeOK
  <2>2. resumeMs' \in Nat /\ pos' \in Nat
    BY <1>9 DEF SeekRestart, Underflows, Position, Deltas, TypeOK
  <2>3. killed' \in SUBSET Procs /\ hook' \in SUBSET Procs
        /\ cut' \in [Procs -> {"no", "source", "pause", "underflow", "seek", "stop"}]
    BY <1>9 DEF SeekRestart, Unhooked, Kill, TypeOK
  <2> QED
    BY <1>9, <2>1, <2>2, <2>3 DEF SeekRestart, Locks, Kill, TypeOK
<1>10. ASSUME NEW t \in Threads, Stop(t) PROVE TypeOK'
  BY <1>10 DEF Stop, At, GoTo, Kill, Playing
<1>11. ASSUME NEW t \in Threads, JoinReturn(t) PROVE TypeOK'
  BY <1>11 DEF JoinReturn, Joined, At, GoTo
<1>12. ASSUME NEW t \in Threads, StopReturn(t) PROVE TypeOK'
  BY <1>12 DEF StopReturn, Joined, Reset, At, GoTo
<1>13. ASSUME NEW t \in Threads, JoinRestart(t) PROVE TypeOK'
  BY <1>13 DEF JoinRestart, Joined, At, GoTo
<1>14. ASSUME NEW t \in Threads, SpawnNothing(t) PROVE TypeOK'
  BY <1>14 DEF SpawnNothing, At, GoTo
<1>15. ASSUME NEW t \in Threads, Spawn(t) PROVE TypeOK'
  BY <1>15 DEF Spawn, At, GoTo
<1>16. ASSUME NEW t \in Threads, SetHook(t) PROVE TypeOK'
  <2>1. pc' \in [Threads -> {"idle", "lock", "stopping", "stop", "restart", "reset",
                             "start", "hook"}]
    BY <1>16 DEF SetHook, At, GoTo, TypeOK
  <2>2. ~paused /\ started \in Procs
    BY <1>16 DEF SetHook, At, MuInv, ProcInv, TypeOK
  <2>3. hook' \in SUBSET Procs /\ cmd' \in Procs /\ since' \in Nat
    BY <1>16, <2>2 DEF SetHook, StartedAt, TypeOK
  <2> QED
    BY <1>16, <2>1, <2>2, <2>3 DEF SetHook, TypeOK
<1>17. ASSUME NEW p \in Procs, Exit(p) PROVE TypeOK'
  BY <1>17 DEF Exit
<1>18. ASSUME NEW p \in Procs, Reap(p) PROVE TypeOK'
  BY <1>18 DEF Reap
<1>19. ASSUME NEW p \in Procs, ReapSilently(p) PROVE TypeOK'
  BY <1>19 DEF ReapSilently, Finish
<1>20. ASSUME NEW p \in Procs, Report(p) PROVE TypeOK'
  BY <1>20 DEF Report, Finish
<1>21. CASE Tick
  BY <1>21 DEF Tick, Playing
<1>22. CASE UNCHANGED vars
  BY <1>22
<1> QED
  BY <1>1, <1>2, <1>3, <1>4, <1>5, <1>6, <1>7, <1>8, <1>9, <1>10, <1>11, <1>12, <1>13,
     <1>14, <1>15, <1>16, <1>17, <1>18, <1>19, <1>20, <1>21, <1>22
  DEF Next, Section, Rest, ReapStep

LEMMA Invariance == Spec => []IInv
<1>1. IInv /\ [Next]_vars => IInv'
  BY MuStep, ProcStep, SeekStep, StopStep, PosStep, UpgradeStep, TypeStep
  DEF IInv
<1> QED
  BY <1>1, Initially, PTL DEF Spec

-----------------------------------------------------------------------------
\* Every variable keeps its type, and a paused call has no process.
THEOREM TypeCorrect == Spec => []TypeOK
BY Invariance, PTL DEF IInv

\* Two processes never push at once, for any callers (rtmp_call.go, spawnLocked and
\* stopFFmpegLocked under r.mu).
THEOREM OnePusherAlways == Spec => []OnePusher
<1>1. IInv => OnePusher
  BY DEF IInv, MuInv, ProcInv, TypeOK, None, Procs, OnePusher
<1> QED
  BY <1>1, Invariance, PTL

\* The process that a seek replaces is never reported (rtmp_call.go, SetOnExit(nil)).
THEOREM SeekIsAlwaysSilent == Spec => []SeekIsSilent
<1>1. IInv => SeekIsSilent
  BY DEF IInv, SeekInv
<1> QED
  BY <1>1, Invariance, PTL

\* Until the call is stopped the user was last told the state it is in (rtmp_call.go,
\* fireUpgradeIfChangedLocked and all that call it).
THEOREM UpgradesAlwaysAgree == Spec => []UpgradesAgree
BY Invariance, PTL DEF IInv

\* Once Stop has returned nothing is left of the call, unless a SetSource that found
\* it open comes after (rtmp_call.go, Stop).
THEOREM StopIsAlwaysFinal == Spec => []StopIsFinal
BY Invariance, PTL DEF IInv

\* The offsets the code computes are what was heard, for sources of any length
\* (rtmp_call.go, Pause, Resume, SeekBy and spawnLocked).
THEOREM PositionIsKept == Spec => []PositionKept
<1>1. IInv => PositionKept
  BY DEF IInv, PosInv, PositionKept
<1> QED
  BY <1>1, Invariance, PTL
=============================================================================
