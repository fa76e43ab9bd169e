------------------------------ MODULE RTMPCall ------------------------------
(***************************************************************************)
(* instances.RTMPCall: one ffmpeg process at a time pushes the source to    *)
(* the RTMP URL.  The API holds r.mu over whole operations, the wait for a  *)
(* killed process included; what races it are Stop's flag, the `closed`     *)
(* tests made before the lock, the processes, and the reap goroutine of     *)
(* each process, which reads the exit hook and reports the end.             *)
(*                                                                         *)
(* The clock is coarse: it does not tick inside a section of r.mu.  `pos`   *)
(* is where the listener is in the source; the code has no such variable,   *)
(* and computes its offsets from startedAt instead.                         *)
(***************************************************************************)
EXTENDS Integers

CONSTANTS
  Threads,    \* the goroutines that call the API
  MaxProcs,   \* bound: ffmpeg processes started
  MaxPos,     \* bound: the offset that time and forward seeks may reach
  Centuries,  \* how long ago time.Time{} is
  Nil         \* no goroutine

ASSUME RTMPAssumption ==
  /\ Nil \notin Threads
  /\ MaxProcs \in Nat /\ MaxPos \in Nat
  /\ Centuries \in Nat /\ Centuries > MaxPos

None == 0
Procs == 1 .. MaxProcs

VARIABLES
  closed, mu,          \* r.closed; who holds r.mu
  paused, muted,       \* r.paused, r.muted
  hasSrc,              \* r.srcPath # nil
  cmd,                 \* r.cmd: a process, or None
  resumeMs, since,     \* r.resumeMs; how long ago r.startedAt is
  pc,                  \* each goroutine's place
  proc,                \* "none", "running", "exited", "reporting" or "done"
  killed, hook,        \* its context is cancelled; onExit is set
  started,             \* the processes started so far
  pos, lost,           \* the true position; playback ended or failed to start
  cut,                 \* why a process was killed while it ran, or "no"
  reported,            \* `cut` of the processes reported by an OnStreamEnd
  told,                \* the state last submitted as OnUpgrade
  revived              \* a SetSource ran after Stop

callVars == <<paused, muted, hasSrc>>
placeVars == <<resumeMs, since, pos, lost>>
procVars == <<proc, killed, hook, started, cut, reported>>
vars == <<closed, mu, callVars, cmd, placeVars, pc, procVars, told, revived>>

MediaState == [muted |-> muted, silent |-> muted \/ paused]

Init ==
  /\ closed = FALSE /\ mu = Nil
  /\ paused = FALSE /\ muted = FALSE /\ hasSrc = FALSE /\ cmd = None
  /\ resumeMs = 0 /\ since = Centuries /\ pos = 0 /\ lost = FALSE
  /\ pc = [t \in Threads |-> "idle"]
  /\ proc = [p \in Procs |-> "none"] /\ killed = {} /\ hook = {} /\ started = 0
  /\ cut = [p \in Procs |-> "no"] /\ reported = {}
  /\ told = MediaState /\ revived = FALSE

-----------------------------------------------------------------------------
At(t, p) == pc[t] = p
GoTo(t, p) == pc' = [pc EXCEPT ![t] = p]

\* Stop has returned.
Stopped == closed /\ \A t \in Threads : pc[t] \notin {"stopping", "reset"}

\* SetSource, Pause, Resume and SeekBy begin by finding the call open.  Which
\* of them it is shows when it has r.mu.
Enter(t) ==
  /\ At(t, "idle") /\ ~closed
  /\ GoTo(t, "lock")
  /\ UNCHANGED <<closed, mu, callVars, cmd, placeVars, procVars, told, revived>>

\* Stop's CompareAndSwap lets one call through.
StopEnter(t) ==
  /\ At(t, "idle") /\ ~closed
  /\ closed' = TRUE
  /\ GoTo(t, "stopping")
  /\ UNCHANGED <<mu, callVars, cmd, placeVars, procVars, told, revived>>

Playing == cmd # None /\ proc[cmd] = "running" /\ cmd \notin killed

\* stopFFmpegLocked cancels the process, for a reason we note; the join follows.
Kill(why) ==
  /\ killed' = IF cmd = None THEN killed ELSE killed \cup {cmd}
  /\ cut' = IF Playing THEN [cut EXCEPT ![cmd] = why] ELSE cut
  /\ UNCHANGED <<proc, started, reported>>

\* fireUpgradeIfChangedLocked.  All its calls are made under r.mu.
fireUpgrade == told' = IF MediaState' # MediaState THEN MediaState' ELSE told

Locks(t) == At(t, "lock") /\ mu = Nil

-----------------------------------------------------------------------------
(* The sections of r.mu, up to the join of the old process.                *)

SetSource(t) ==
  /\ Locks(t)
  /\ mu' = t /\ GoTo(t, IF paused THEN "stop" ELSE "restart")
  /\ Kill("source") /\ UNCHANGED hook
  /\ hasSrc' = TRUE /\ resumeMs' = 0 /\ pos' = 0 /\ lost' = FALSE
  /\ revived' = (revived \/ Stopped)
  /\ UNCHANGED <<closed, paused, muted, cmd, since, told>>

Pause(t) ==
  /\ Locks(t) /\ ~paused
  /\ mu' = t /\ GoTo(t, "stop")
  /\ paused' = TRUE /\ resumeMs' = since
  /\ Kill("pause") /\ UNCHANGED hook
  /\ UNCHANGED <<closed, muted, hasSrc, cmd, since, pos, lost, revived>>
  /\ fireUpgrade

Resume(t) ==
  /\ Locks(t) /\ paused
  /\ mu' = t /\ GoTo(t, "start")
  /\ paused' = FALSE
  /\ UNCHANGED <<closed, muted, hasSrc, cmd, placeVars, procVars, revived>>
  /\ fireUpgrade

\* Mute and Unmute do not test `closed`; asked for what is so already they do nothing.
notSupportedToggle(t) ==
  /\ At(t, "idle") /\ mu = Nil
  /\ muted' = ~muted
  /\ UNCHANGED <<closed, mu, paused, hasSrc, cmd, placeVars, pc, procVars, revived>>
  /\ fireUpgrade

\* Pause when paused, Resume when not, SeekBy without a source (or SetSource
\* with a source that has no path, before the lock).
ReturnAtOnce(t) ==
  /\ Locks(t)
  /\ GoTo(t, "idle")
  /\ UNCHANGED <<closed, mu, callVars, cmd, placeVars, procVars, told, revived>>

Position == IF paused THEN resumeMs ELSE IF cmd # None THEN since ELSE 0

Deltas == {-1, 1}

Underflows(d) == Position + d < 0

\* Below zero the process is stopped with its hook, which reports the end.
SeekUnderflow(t) ==
  /\ Locks(t) /\ hasSrc
  /\ \E d \in Deltas : Underflows(d)
  /\ mu' = t /\ GoTo(t, "stop")
  /\ Kill("underflow") /\ UNCHANGED hook
  /\ resumeMs' = 0 /\ pos' = 0 /\ lost' = TRUE
  /\ UNCHANGED <<closed, callVars, cmd, since, told, revived>>

Unhooked_NotYet == hook
\* SetOnExit(nil)
Unhooked == hook \ {cmd}

SeekRestart(t) ==
  /\ Locks(t) /\ hasSrc
  /\ \E d \in Deltas :
       /\ ~Underflows(d) /\ (d > 0 => Position + d <= MaxPos)
       /\ resumeMs' = Position + d /\ pos' = Position + d
  /\ lost' = FALSE
  /\ mu' = t /\ GoTo(t, IF paused THEN "stop" ELSE "restart")
  /\ hook' = Unhooked
  /\ Kill("seek")
  /\ UNCHANGED <<closed, callVars, cmd, since, told, revived>>

Stop(t) ==
  /\ At(t, "stopping") /\ mu = Nil
  /\ mu' = t /\ GoTo(t, "reset")
  /\ Kill("stop") /\ UNCHANGED hook
  /\ UNCHANGED <<closed, callVars, cmd, placeVars, told, revived>>

-----------------------------------------------------------------------------
(* The join, and the new process.                                          *)

Joined_NotAwaited == TRUE
\* ShellReader.Close returns when the process is reaped and its hook has run.
Joined == cmd # None => proc[cmd] = "done"

Reset_SourceKept == hasSrc' = hasSrc /\ paused' = paused /\ muted' = FALSE /\ resumeMs' = 0
Reset == hasSrc' = FALSE /\ paused' = FALSE /\ muted' = FALSE /\ resumeMs' = 0

JoinReturn(t) ==
  /\ At(t, "stop") /\ Joined
  /\ cmd' = None /\ mu' = Nil /\ GoTo(t, "idle")
  /\ UNCHANGED <<closed, callVars, placeVars, procVars, told, revived>>

StopReturn(t) ==
  /\ At(t, "reset") /\ Joined
  /\ cmd' = None /\ mu' = Nil /\ GoTo(t, "idle")
  /\ Reset
  /\ UNCHANGED <<closed, since, pos, lost, procVars, told, revived>>

JoinRestart(t) ==
  /\ At(t, "restart") /\ Joined
  /\ cmd' = None /\ GoTo(t, "start")
  /\ UNCHANGED <<closed, mu, callVars, placeVars, procVars, told, revived>>

\* spawnLocked: no source, or NewShellReader fails ...
SpawnNothing(t) ==
  /\ At(t, "start")
  /\ lost' = (lost \/ hasSrc)
  /\ mu' = Nil /\ GoTo(t, "idle")
  /\ UNCHANGED <<closed, callVars, cmd, resumeMs, since, pos, procVars, told, revived>>

\* ... or the process runs ...
Spawn(t) ==
  /\ At(t, "start") /\ hasSrc /\ started < MaxProcs
  /\ started' = started + 1
  /\ proc' = [proc EXCEPT ![started + 1] = "running"]
  /\ GoTo(t, "hook")
  /\ UNCHANGED <<closed, mu, callVars, cmd, placeVars, killed, hook, cut, reported, told,
                 revived>>

StartedAt_NoOffset == 0
\* time.Now less the offset
StartedAt == resumeMs

\* ... and is given its hook, if it lives to see it.
SetHook(t) ==
  /\ At(t, "hook")
  /\ hook' = hook \cup {started}
  /\ cmd' = started /\ since' = StartedAt
  /\ mu' = Nil /\ GoTo(t, "idle")
  /\ UNCHANGED <<closed, callVars, resumeMs, pos, lost, proc, killed, started, cut, reported,
                 told, revived>>

Section(t) ==
  \/ SetSource(t) \/ Pause(t) \/ Resume(t) \/ ReturnAtOnce(t)
  \/ SeekUnderflow(t) \/ SeekRestart(t) \/ Stop(t)

Rest(t) ==
  \/ JoinReturn(t) \/ StopReturn(t) \/ JoinRestart(t)
  \/ SpawnNothing(t) \/ Spawn(t) \/ SetHook(t)

-----------------------------------------------------------------------------
(* The processes and their reap goroutines.                                *)

\* The process ends: killed, at the end of its input, by an error, or because
\* the context SetSource was given is cancelled.
Exit(p) ==
  /\ proc[p] = "running"
  /\ proc' = [proc EXCEPT ![p] = "exited"]
  /\ lost' = (lost \/ p \notin killed)
  /\ UNCHANGED <<closed, mu, callVars, cmd, resumeMs, since, pos, pc, killed, hook,
                 started, cut, reported, told, revived>>

\* The process is done with, its hook has run and doneCh is closed.
Finish(p) ==
  /\ proc' = [proc EXCEPT ![p] = "done"]
  /\ killed' = killed \ {p} /\ hook' = hook \ {p} /\ cut' = [cut EXCEPT ![p] = "no"]
  /\ UNCHANGED <<closed, mu, callVars, cmd, placeVars, pc, started, told, revived>>

\* reap reads the hook, and the hook tests `closed`.
Reap(p) ==
  /\ proc[p] = "exited" /\ p \in hook /\ ~closed
  /\ proc' = [proc EXCEPT ![p] = "reporting"]
  /\ UNCHANGED <<closed, mu, callVars, cmd, placeVars, pc, killed, hook, started, cut,
                 reported, told, revived>>

ReapSilently(p) ==
  /\ proc[p] = "exited" /\ (p \notin hook \/ closed)
  /\ Finish(p)
  /\ UNCHANGED reported

MayReport_Locked == mu = Nil
\* The hook only submits: it needs no lock.
MayReport == TRUE

Report(p) ==
  /\ proc[p] = "reporting"
  /\ MayReport
  /\ Finish(p)
  /\ reported' = reported \cup {cut[p]}

ReapStep(p) == Reap(p) \/ ReapSilently(p) \/ Report(p)

Tick ==
  /\ since < MaxPos /\ mu = Nil
  /\ since' = since + 1
  /\ pos' = IF Playing THEN pos + 1 ELSE pos
  /\ UNCHANGED <<closed, mu, callVars, cmd, resumeMs, lost, pc, procVars, told, revived>>

Next ==
  \/ \E t \in Threads :
       Enter(t) \/ StopEnter(t) \/ notSupportedToggle(t) \/ Section(t) \/ Rest(t)
  \/ \E p \in Procs : Exit(p) \/ ReapStep(p)
  \/ Tick

Spec == Init /\ [][Next]_vars

\* sync.Mutex hands itself over to a starving waiter; a killed process dies.
Fairness ==
  /\ \A t \in Threads : SF_vars(Section(t)) /\ WF_vars(Rest(t))
  /\ \A p \in Procs : WF_vars(p \in killed /\ Exit(p)) /\ WF_vars(ReapStep(p))

FairSpec == Spec /\ Fairness

-----------------------------------------------------------------------------
(* Properties.                                                             *)

\* Every variable has its type; a paused call has no process.
TypeOK ==
  /\ closed \in BOOLEAN /\ mu \in Threads \cup {Nil}
  /\ paused \in BOOLEAN /\ muted \in BOOLEAN /\ hasSrc \in BOOLEAN
  /\ cmd \in Procs \cup {None}
  /\ resumeMs \in Nat /\ since \in Nat /\ pos \in Nat /\ lost \in BOOLEAN
  /\ pc \in [Threads -> {"idle", "lock", "stopping", "stop", "restart", "reset", "start",
                         "hook"}]
  /\ proc \in [Procs -> {"none", "running", "exited", "reporting", "done"}]
  /\ killed \in SUBSET Procs /\ hook \in SUBSET Procs /\ started \in 0 .. MaxProcs
  /\ cut \in [Procs -> {"no", "source", "pause", "underflow", "seek", "stop"}]
  /\ reported \in SUBSET {"no", "source", "pause", "underflow", "seek", "stop"}
  /\ (mu = Nil /\ paused => cmd = None)
  /\ told \in [muted : BOOLEAN, silent : BOOLEAN] /\ revived \in BOOLEAN

\* Two processes never push to the RTMP URL at once, whatever operations
\* follow each other: a new one is only started when the last is reaped.
OnePusher == \A p, q \in Procs : proc[p] = "running" /\ proc[q] = "running" => p = q

\* After Stop has returned nothing runs, is reported or has a source, although
\* operations that found the call open are still to run; but SetSource is one
\* of those (revived).
StopIsFinal ==
  Stopped /\ ~revived => ~hasSrc /\ \A p \in Procs : proc[p] \in {"none", "done"}

\* The process that a seek replaces is not reported as ended.
SeekIsSilent == "seek" \notin reported

\* While a source plays or is paused, the code knows where: what Pause stores
\* and Resume starts from is what was heard, across seeks, pauses and sources.
PositionKept ==
  mu = Nil /\ hasSrc /\ ~lost =>
    IF paused THEN resumeMs = pos ELSE cmd # None /\ since = pos

\* The user was last told the state the call is in, until it is stopped.
UpgradesAgree == ~closed => told = MediaState

\* Every call returns: Close waits, under r.mu, for a reap goroutine whose hook
\* must not wait for r.mu.
CallsReturn == \A t \in Threads : pc[t] \in {"lock", "stopping"} ~> At(t, "idle")

\* README.md: "Manual Stop / SetSource don't fire", and OnStreamEnd is for the
\* end of the input or a crash: no process we killed, but for an underflow, is
\* reported.
CutsAreSilent == reported \subseteq {"no", "underflow"}

=============================================================================
