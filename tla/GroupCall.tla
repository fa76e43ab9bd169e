------------------------------ MODULE GroupCall ------------------------------
(***************************************************************************)
(* The WebRTC call instance of one chat (instances/group_call.go) with the *)
(* two streamers it drives (media/streamer.go), seen from the outside, and *)
(* the closures it hands to the shared dispatcher goroutine.               *)
(*                                                                         *)
(* Three kinds of goroutine meet here: the API goroutines (Threads), which *)
(* call SetSource, Pause, Resume, Mute, Unmute, SeekBy and Stop; one run   *)
(* loop per streamer; and the dispatcher (Disp), which runs the queued     *)
(* closures one at a time and, inside a user callback, may call the API    *)
(* itself.  A critical section of g.mu is one step when nothing outside    *)
(* can observe its middle; the sections that stop streamers are split,     *)
(* because Streamer.Stop waits for a run loop that reads `closed` and      *)
(* `switching` without the lock and submits to the dispatcher.             *)
(*                                                                         *)
(* A source that is opened gets the number of the API call that opened it; *)
(* that number, the "cycle", names the Streams it returned, and with a leg *)
(* it names a Streamer.  Positions in the media and error values are left  *)
(* out: whether a seek underflows, what a source yields and when it ends   *)
(* are choices of the environment.                                         *)
(***************************************************************************)
EXTENDS Naturals, Sequences, FiniteSets

CONSTANTS
  Threads,   \* the goroutines that call the API
  Disp,      \* the dispatcher's goroutine
  Sources,   \* the media.Source values the callers have
  Outcomes,  \* the sets of playable legs that opening each source may yield
  Seekable,  \* the sources that implement media.SeekableSource
  Api,       \* bound: the API operations that are called
  Reported,  \* bound: the states the peer connection takes by itself
  Nil,       \* the nil source, and the owner of a free lock
  MaxCalls,  \* bound: API calls made in one behaviour
  QCap       \* the dispatcher's buffer size

Legs == {"audio", "video"}

ASSUME ConstantsAssumption ==
  /\ Disp \notin Threads /\ Nil \notin Threads \cup {Disp} \cup Sources
  /\ Outcomes \in [Sources -> SUBSET SUBSET Legs]
  /\ Seekable \subseteq Sources
  /\ Api \subseteq {"SetSource", "Pause", "Resume", "Mute", "Unmute", "SeekBy", "Stop"}
  /\ Reported \subseteq {"Connected", "Disconnected", "Failed", "Closed"}
  /\ MaxCalls \in Nat
  /\ QCap \in Nat \ {0}

Procs == Threads \cup {Disp}
None == 0                        \* a nil *Streamer or *Streams
Cycles == 1 .. MaxCalls
Strs == Cycles \X Legs

VARIABLES
  mu,            \* g.mu: its writer, or Nil
  src, cur, streams, paused, muted, endedOnce, had,   \* fields under g.mu
  closed, switching,                                  \* g's atomics
  netState, wasConnected,        \* last state the peer connection reported
  strPc,         \* where each streamer's run loop is
  gate,          \* Streamer.pausedGate
  strMuted,      \* Streamer.muted
  cancelled,     \* the streamers whose Stop has been called
  open,          \* the cycles whose Streams have not been closed
  calls,         \* number of API calls made so far
  pc, op, call, callSrc,         \* each goroutine's place and locals
  queue,         \* Dispatcher.ch
  dpc, fn, todo, sibling, prev,  \* the dispatcher's place and locals
  mirror         \* the MediaState the last OnUpgrade told the user

lockVars == <<src, cur, streams, paused, muted, endedOnce, had>>
netVars == <<netState, wasConnected>>
strVars == <<strPc, gate, strMuted, cancelled>>
procVars == <<calls, pc, op, call, callSrc>>
dispVars == <<dpc, fn, todo, sibling, prev, mirror>>
vars == <<mu, lockVars, closed, switching, netVars, strVars, open, procVars,
          queue, dispVars>>

-----------------------------------------------------------------------------
(* The dispatcher's queue, and the MediaState it mirrors.                  *)

\* Dispatcher.Submit: a full buffer gives up its oldest closure.
Submitted(q, f) == IF Len(q) < QCap THEN Append(q, f) ELSE Append(Tail(q), f)

EndFn(s) == [kind |-> "end", str |-> s]
DownFn == [kind |-> "down"]
NoFn == [kind |-> "none"]          \* the dispatcher waits for a closure
ConnFn(s) == [kind |-> "conn", net |-> s]
UpgradeFn(m) == [kind |-> "upgrade", state |-> m]

MediaState(m, p, v) ==
  [muted |-> m, silent |-> m \/ p, videoStopped |-> v = None]

currentState == MediaState(muted, paused, cur["video"])

fireUpgrade_PauseBitForgotten(next) ==
  queue' = IF next.muted = muted THEN queue ELSE Submitted(queue, UpgradeFn(next))

\* fireUpgradeIfChangedLocked: only a state that differs is submitted.
fireUpgrade(next) ==
  queue' = IF next = currentState THEN queue ELSE Submitted(queue, UpgradeFn(next))

-----------------------------------------------------------------------------
(* Streamers and the calls that act on them.                               *)

StrsOf(c, legs) == {c} \X legs
Installed == {s \in Strs : cur[s[2]] = s[1]}
BuiltLegs(c) == {l \in Legs : strPc[<<c, l>>] # "none"}

Install(c, legs) == [l \in Legs |-> IF l \in legs THEN c ELSE None]

SetPaused_NeverClears(S, p) == [s \in Strs |-> gate[s] \/ (s \in S /\ p)]
SetPaused(S, p) == [s \in Strs |-> IF s \in S THEN p ELSE gate[s]]
SetMuted(S, m) == [s \in Strs |-> IF s \in S THEN m ELSE strMuted[s]]
MovedTo(S, p) == [s \in Strs |-> IF s \in S THEN p ELSE strPc[s]]

\* Streamer.Start: a loop whose gate is shut never gets past it.
Started(S, p) == MovedTo(S, IF p THEN "held" ELSE "run")

\* startLocked: open the source again and start what it yields.  "legs" are
\* those whose header parsed; with none, either opening failed, and g.streams
\* stays what it was (kept), or nothing was playable, and it is cleared.
startLocked(c, legs, p, kept, stillOpen) ==
  \/ /\ legs # {}
     /\ cur' = Install(c, legs)
     /\ streams' = c
     /\ open' = stillOpen \cup {c}
     /\ strPc' = Started(StrsOf(c, legs), p)
     /\ gate' = SetPaused(StrsOf(c, legs), p)
     /\ strMuted' = SetMuted(StrsOf(c, legs \cap {"audio"}), muted)
     /\ endedOnce' = FALSE
     /\ had' = legs
     /\ UNCHANGED cancelled
  \/ /\ legs = {}
     /\ streams' \in {kept, None}
     /\ open' = stillOpen
     /\ UNCHANGED <<cur, endedOnce, had, strVars>>

-----------------------------------------------------------------------------
Init ==
  /\ mu = Nil
  /\ src = Nil /\ cur = [l \in Legs |-> None] /\ streams = None
  /\ paused = FALSE /\ muted = FALSE /\ endedOnce = FALSE /\ had = {}
  /\ closed = FALSE /\ switching = FALSE
  /\ netState = "Connecting" /\ wasConnected = FALSE
  /\ strPc = [s \in Strs |-> "none"]
  /\ gate = [s \in Strs |-> FALSE] /\ strMuted = [s \in Strs |-> FALSE]
  /\ cancelled = {} /\ open = {}
  /\ calls = 0
  /\ pc = [t \in Procs |-> "idle"] /\ op = [t \in Procs |-> "none"]
  /\ call = [t \in Procs |-> None] /\ callSrc = [t \in Procs |-> Nil]
  /\ queue = <<>>
  /\ dpc = "idle" /\ fn = NoFn /\ todo = <<>> /\ sibling = {} /\ prev = None
  /\ mirror = MediaState(FALSE, FALSE, None)

-----------------------------------------------------------------------------
(* Calling the API.  The dispatcher's goroutine calls it only from a user  *)
(* callback.  A call that finds `closed` set returns ErrClosed (Stop: nil) *)
(* and changes nothing, so only calls that pass that test are steps.       *)

MayCall(t) ==
  /\ pc[t] = "idle" /\ ~closed /\ calls < MaxCalls
  /\ t = Disp => dpc = "callback"

Enter(t, o, p) ==
  /\ MayCall(t) /\ o \in Api
  /\ calls' = calls + 1
  /\ call' = [call EXCEPT ![t] = calls + 1]
  /\ op' = [op EXCEPT ![t] = o]
  /\ pc' = [pc EXCEPT ![t] = p]

GoTo(t, p) ==
  /\ pc' = [pc EXCEPT ![t] = p]
  /\ UNCHANGED <<calls, op, call, callSrc>>

\* The call returns, and its locals with it.
Return(t) ==
  /\ pc' = [pc EXCEPT ![t] = "idle"]
  /\ op' = [op EXCEPT ![t] = "none"]
  /\ call' = [call EXCEPT ![t] = None]
  /\ callSrc' = [callSrc EXCEPT ![t] = Nil]
  /\ UNCHANGED calls

\* At the Lock() of operation o, with g.mu free.
Locks(t, o) == pc[t] = "lock" /\ op[t] = o /\ mu = Nil

Toggles == {"Pause", "Resume", "Mute", "Unmute"}

EnterOp(t) ==
  /\ \E o \in Toggles \cup {"SeekBy"} : Enter(t, o, "lock")
  /\ UNCHANGED <<mu, lockVars, closed, switching, netVars, strVars, open, callSrc,
                 queue, dispVars>>

Pause(t) ==
  /\ Locks(t, "Pause")
  /\ Return(t)
  /\ \/ /\ paused
        /\ UNCHANGED <<paused, gate, queue>>
     \/ /\ ~paused
        /\ paused' = TRUE
        /\ gate' = SetPaused(Installed, TRUE)
        /\ fireUpgrade(MediaState(muted, TRUE, cur["video"]))
  /\ UNCHANGED <<mu, src, cur, streams, muted, endedOnce, had, closed, switching,
                 netVars, strPc, strMuted, cancelled, open, dispVars>>

\* Resume opens the gates of installed streamers; with a source and no
\* streamers it starts the source again.
Resume(t) ==
  /\ Locks(t, "Resume")
  /\ Return(t)
  /\ \/ /\ ~paused
        /\ UNCHANGED <<lockVars, strVars, open, queue>>
     \/ /\ paused
        /\ Installed # {} \/ src = Nil
        /\ paused' = FALSE
        /\ gate' = SetPaused(Installed, FALSE)
        /\ fireUpgrade(MediaState(muted, FALSE, cur["video"]))
        /\ UNCHANGED <<src, cur, streams, muted, endedOnce, had, strPc, strMuted,
                       cancelled, open>>
     \/ /\ paused
        /\ Installed = {} /\ src # Nil
        /\ paused' = FALSE
        /\ \E legs \in Outcomes[src] :
             startLocked(call[t], legs, FALSE, streams, open)
        /\ fireUpgrade(MediaState(muted, FALSE, cur'["video"]))
        /\ UNCHANGED <<src, muted>>
  /\ UNCHANGED <<mu, closed, switching, netVars, dispVars>>

Mute(t) ==
  /\ Locks(t, "Mute")
  /\ Return(t)
  /\ \/ /\ muted
        /\ UNCHANGED <<muted, strMuted, queue>>
     \/ /\ ~muted
        /\ muted' = TRUE
        /\ strMuted' = SetMuted(Installed \cap StrsOf(cur["audio"], {"audio"}), TRUE)
        /\ fireUpgrade(MediaState(TRUE, paused, cur["video"]))
  /\ UNCHANGED <<mu, src, cur, streams, paused, endedOnce, had, closed, switching,
                 netVars, strPc, gate, cancelled, open, dispVars>>

Unmute(t) ==
  /\ Locks(t, "Unmute")
  /\ Return(t)
  /\ \/ /\ ~muted
        /\ UNCHANGED <<muted, strMuted, queue>>
     \/ /\ muted
        /\ muted' = FALSE
        /\ strMuted' = SetMuted(Installed \cap StrsOf(cur["audio"], {"audio"}), FALSE)
        /\ fireUpgrade(MediaState(FALSE, paused, cur["video"]))
  /\ UNCHANGED <<mu, src, cur, streams, paused, endedOnce, had, closed, switching,
                 netVars, strPc, gate, cancelled, open, dispVars>>

-----------------------------------------------------------------------------
(* stopStreamersLocked, by the goroutine that holds g.mu: audio first, each *)
(* leg cancelled and then waited for.  What follows it, closing g.streams   *)
(* included, is the last step of the section it is called from.             *)

StopNext == IF cur["audio"] # None THEN "audio" ELSE "video"

CancelStreamer(t) ==
  /\ pc[t] = "stop" /\ Installed # {}
  /\ <<cur[StopNext], StopNext>> \notin cancelled
  /\ cancelled' = cancelled \cup {<<cur[StopNext], StopNext>>}
  /\ UNCHANGED <<mu, lockVars, closed, switching, netVars, strPc, gate, strMuted,
                 open, procVars, queue, dispVars>>

JoinStreamer(t) ==
  /\ pc[t] = "stop" /\ Installed # {}
  /\ <<cur[StopNext], StopNext>> \in cancelled
  /\ strPc[<<cur[StopNext], StopNext>>] = "done"
  /\ cur' = [cur EXCEPT ![StopNext] = None]
  /\ UNCHANGED <<mu, src, streams, paused, muted, endedOnce, had, closed, switching,
                 netVars, strVars, open, procVars, queue, dispVars>>

AllStopped(t, o) == pc[t] = "stop" /\ op[t] = o /\ Installed = {}

-----------------------------------------------------------------------------
(* SetSource.                                                              *)

\* Snapshot of muted, then prepareStreamers outside the lock.  Nothing
\* playable is an error, and what was opened is closed again.
SetSourceOpen(t) ==
  /\ mu = Nil
  /\ \E s \in Sources : \E legs \in Outcomes[s] \ {{}} :
       LET new == StrsOf(calls + 1, legs) IN
       /\ Enter(t, "SetSource", "gate")
       /\ callSrc' = [callSrc EXCEPT ![t] = s]
       /\ strPc' = MovedTo(new, "built")
       /\ strMuted' = SetMuted(StrsOf(calls + 1, legs \cap {"audio"}), muted)
       /\ open' = open \cup {calls + 1}
  /\ UNCHANGED <<mu, lockVars, closed, switching, netVars, gate, cancelled, queue,
                 dispVars>>

GiveUp_StreamsKept(t) == UNCHANGED open /\ Return(t)

\* An error return closes the prepared streams.
GiveUp(t) == open' = open \ {call[t]} /\ Return(t)

GateOpen_AnyReport == netState # "Connecting"
GateOpen == netState = "Connected"

\* The wait for the connection.  A timeout ends it, even if the connection comes
\* up as the timer fires; so does a connection that comes up, or fails.
SetSourceGate(t) ==
  /\ pc[t] \in {"gate", "wait"}
  /\ \/ GateOpen /\ GoTo(t, "lock") /\ UNCHANGED open
     \/ pc[t] = "gate" /\ ~GateOpen /\ GoTo(t, "wait") /\ UNCHANGED open
     \/ pc[t] = "wait" /\ GiveUp(t)
  /\ UNCHANGED <<mu, lockVars, closed, switching, netVars, strVars, queue, dispVars>>

Recheck_Dropped == TRUE

\* The call was not stopped while the source was being prepared.
Recheck == ~closed

SetSourceLock(t) ==
  /\ Locks(t, "SetSource")
  /\ \/ /\ ~Recheck
        /\ GiveUp(t)
        /\ UNCHANGED <<mu, switching>>
     \/ /\ Recheck
        /\ mu' = t
        /\ switching' = TRUE
        /\ GoTo(t, "stop")
        /\ UNCHANGED open
  /\ UNCHANGED <<lockVars, closed, netVars, strVars, queue, dispVars>>

SetSourceInstall(t) ==
  /\ AllStopped(t, "SetSource")
  /\ LET new == StrsOf(call[t], BuiltLegs(call[t])) IN
       /\ strPc' = Started(new, paused)
       /\ gate' = SetPaused(new, paused)
  /\ src' = callSrc[t]
  /\ cur' = Install(call[t], BuiltLegs(call[t]))
  /\ had' = BuiltLegs(call[t])
  /\ endedOnce' = FALSE
  /\ streams' = call[t]
  /\ open' = open \ {streams}
  /\ mu' = Nil
  /\ GoTo(t, "return")
  /\ UNCHANGED <<paused, muted, closed, switching, netVars, strMuted, cancelled,
                 queue, dispVars>>

\* The deferred switching.Store(false) of SetSource and SeekBy.
SwitchDone(t) ==
  /\ pc[t] = "return" /\ op[t] \in {"SetSource", "SeekBy"}
  /\ switching' = FALSE
  /\ Return(t)
  /\ UNCHANGED <<mu, lockVars, closed, netVars, strVars, open, queue, dispVars>>

-----------------------------------------------------------------------------
(* SeekBy.  No source, a source that cannot seek and a zero delta return   *)
(* at once; a target below zero only stops the streamers; any other target *)
(* stops them with `switching` set and starts the source there.            *)

SeekLock(t) ==
  /\ Locks(t, "SeekBy")
  /\ \/ /\ Return(t)
        /\ UNCHANGED <<mu, switching>>
     \/ /\ src \in Seekable
        /\ mu' = t
        /\ pc' = [pc EXCEPT ![t] = "stop"]
        /\ \/ op' = [op EXCEPT ![t] = "Underflow"] /\ UNCHANGED switching
           \/ op' = op /\ switching' = TRUE
        /\ UNCHANGED <<calls, call, callSrc>>
  /\ UNCHANGED <<lockVars, closed, netVars, strVars, open, queue, dispVars>>

SeekUnderflow(t) ==
  /\ AllStopped(t, "Underflow")
  /\ streams' = None /\ open' = open \ {streams}
  /\ mu' = Nil
  /\ Return(t)
  /\ UNCHANGED <<src, cur, paused, muted, endedOnce, had, closed, switching, netVars,
                 strVars, queue, dispVars>>

SeekRestart(t) ==
  /\ AllStopped(t, "SeekBy")
  /\ \E legs \in Outcomes[src] :
       startLocked(call[t], legs, paused, None, open \ {streams})
  /\ mu' = Nil
  /\ GoTo(t, "return")
  /\ UNCHANGED <<src, paused, muted, closed, switching, netVars, queue, dispVars>>

-----------------------------------------------------------------------------
(* Stop, and the states the peer connection reports.                       *)

StopEnter(t) ==
  /\ Enter(t, "Stop", "lock")
  /\ closed' = TRUE
  /\ UNCHANGED <<mu, lockVars, switching, netVars, strVars, open, callSrc, queue,
                 dispVars>>

StopLock(t) ==
  /\ Locks(t, "Stop")
  /\ mu' = t
  /\ GoTo(t, "stop")
  /\ UNCHANGED <<lockVars, closed, switching, netVars, strVars, open, queue, dispVars>>

StopReset(t) ==
  /\ AllStopped(t, "Stop")
  /\ streams' = None /\ open' = open \ {streams}
  /\ src' = Nil /\ paused' = FALSE /\ muted' = FALSE
  /\ mu' = Nil
  /\ GoTo(t, "return")
  /\ UNCHANGED <<cur, endedOnce, had, closed, switching, netVars, strVars, queue,
                 dispVars>>

\* The state callback NewGroupCall registers: store the state, and submit
\* the tear-down of a dead connection before the user's notification.
Reports(s) ==
  /\ netState' = s
  /\ wasConnected' = (wasConnected \/ s = "Connected")
  /\ queue' = CASE s = "Disconnected" -> queue
                [] s = "Connected" -> Submitted(queue, ConnFn(s))
                [] OTHER -> Submitted(Submitted(queue, DownFn), ConnFn(s))

\* Stop's g.pc.Close(), which reports Closed unless that was reported before.
StopReturn(t) ==
  /\ pc[t] = "return" /\ op[t] = "Stop"
  /\ Return(t)
  /\ IF netState = "Closed" THEN UNCHANGED <<netVars, queue>> ELSE Reports("Closed")
  /\ UNCHANGED <<mu, lockVars, closed, switching, strVars, open, dispVars>>

\* The states native.Stack goes through by itself: Connected once, when the
\* handshake ends (the ICE agent may have dropped or failed by then); Closed also
\* when the monitor gives the connection up.
NetChange ==
  /\ netState # "Closed"
  /\ \E s \in Reported \ {netState} :
       /\ s = "Connected" => ~wasConnected
       /\ netState = "Failed" => s \in {"Connected", "Closed"}
       /\ Reports(s)
  /\ UNCHANGED <<mu, lockVars, closed, switching, strVars, open, procVars, dispVars>>

-----------------------------------------------------------------------------
(* A streamer's run loop, and handleStreamerEnd on its goroutine.  "run" is *)
(* anywhere in the loop but at the gate, "held" is blocked at the gate.     *)

StreamerHold(s) ==
  /\ strPc[s] = "run" /\ gate[s]
  /\ strPc' = [strPc EXCEPT ![s] = "held"]
  /\ UNCHANGED <<mu, lockVars, closed, switching, netVars, gate, strMuted, cancelled,
                 open, procVars, queue, dispVars>>

StreamerRelease(s) ==
  /\ strPc[s] = "held" /\ ~gate[s]
  /\ strPc' = [strPc EXCEPT ![s] = "run"]
  /\ UNCHANGED <<mu, lockVars, closed, switching, netVars, gate, strMuted, cancelled,
                 open, procVars, queue, dispVars>>

Woken_OnlyByResume(s) == FALSE
Woken_Always(s) == TRUE

\* A cancelled context gets a streamer out of the gate.
Woken(s) == s \in cancelled

\* Out of the loop: end of file, an error, a stalled read or a cancelled
\* context; at the gate only the latter.
StreamerExit(s) ==
  /\ strPc[s] = "run" \/ (strPc[s] = "held" /\ Woken(s))
  /\ strPc' = [strPc EXCEPT ![s] = "ending"]
  /\ UNCHANGED <<mu, lockVars, closed, switching, netVars, gate, strMuted, cancelled,
                 open, procVars, queue, dispVars>>

\* The two loads of handleStreamerEnd.
StreamerEnding(s) ==
  /\ strPc[s] = "ending"
  /\ strPc' = [strPc EXCEPT ![s] = IF closed \/ switching THEN "done" ELSE "submit"]
  /\ UNCHANGED <<mu, lockVars, closed, switching, netVars, gate, strMuted, cancelled,
                 open, procVars, queue, dispVars>>

StreamerSubmit(s) ==
  /\ strPc[s] = "submit"
  /\ strPc' = [strPc EXCEPT ![s] = "done"]
  /\ queue' = Submitted(queue, EndFn(s))
  /\ UNCHANGED <<mu, lockVars, closed, switching, netVars, gate, strMuted, cancelled,
                 open, procVars, dispVars>>

Streamer(s) ==
  \/ StreamerHold(s) \/ StreamerRelease(s) \/ StreamerExit(s)
  \/ StreamerEnding(s) \/ StreamerSubmit(s)

-----------------------------------------------------------------------------
(* The dispatcher's goroutine.                                             *)

\* Take the next closure; a notification goes straight to the user.
Take ==
  /\ dpc = "idle" /\ queue # <<>>
  /\ queue' = Tail(queue)
  /\ fn' = Head(queue)
  /\ dpc' = CASE fn'.kind = "end" -> "end"
              [] fn'.kind = "down" -> "down"
              [] OTHER -> "callback"
  /\ todo' = IF dpc' = "callback" THEN <<fn'>> ELSE <<>>
  /\ mirror' = IF fn'.kind = "upgrade" THEN fn'.state ELSE mirror
  /\ UNCHANGED <<mu, lockVars, closed, switching, netVars, strVars, open, procVars,
                 sibling, prev>>

EndCheck ==
  /\ dpc = "end"
  /\ \/ (closed \/ switching) /\ dpc' = "idle" /\ fn' = NoFn
     \/ ~(closed \/ switching) /\ dpc' = "endlock" /\ UNCHANGED fn
  /\ UNCHANGED <<mu, lockVars, closed, switching, netVars, strVars, open, procVars,
                 queue, todo, sibling, prev, mirror>>

Stale_NotTested(s) == FALSE

\* The leg's field holds another streamer (isStale).
Stale(s) == cur[s[2]] # None /\ cur[s[2]] # s[1]

EndEvents(c, legs) ==
  (IF "video" \in legs THEN <<[kind |-> "ended", cycle |-> c, leg |-> "video"]>> ELSE <<>>)
    \o (IF "audio" \in legs THEN <<[kind |-> "ended", cycle |-> c, leg |-> "audio"]>> ELSE <<>>)

SiblingOf_Forgotten(s) == {}
SiblingOf(s) == {r \in Installed : r[2] # s[2]}

\* The first leg to end takes both fields and remembers the other streamer;
\* g.streams stays.
EndLocked ==
  /\ dpc = "endlock" /\ mu = Nil
  /\ \/ /\ Stale(fn.str) \/ endedOnce
        /\ dpc' = "idle" /\ fn' = NoFn
        /\ UNCHANGED <<cur, endedOnce, sibling, todo>>
     \/ /\ ~Stale(fn.str) /\ ~endedOnce
        /\ endedOnce' = TRUE
        /\ sibling' = SiblingOf(fn.str)
        /\ cur' = Install(None, {})
        /\ todo' = EndEvents(fn.str[1], had)
        /\ dpc' = "sibling"
        /\ UNCHANGED fn
  /\ UNCHANGED <<mu, src, streams, paused, muted, had, closed, switching, netVars,
                 strVars, open, procVars, queue, prev, mirror>>

Joined_NotAwaited(S) == TRUE
Joined(S) == \A s \in S : strPc[s] = "done"

\* Stop the other streamer, outside the lock, then tell the user.
StopSibling ==
  /\ dpc = "sibling"
  /\ \/ /\ sibling \subseteq cancelled /\ Joined(sibling)
        /\ sibling' = {}
        /\ dpc' = "callback"
        /\ UNCHANGED cancelled
     \/ /\ ~(sibling \subseteq cancelled)
        /\ cancelled' = cancelled \cup sibling
        /\ UNCHANGED <<sibling, dpc>>
  /\ UNCHANGED <<mu, lockVars, closed, switching, netVars, strPc, gate, strMuted, open,
                 procVars, queue, fn, todo, prev, mirror>>

\* A user callback returns once the API call it made, if any, has.
CallbackReturn ==
  /\ dpc = "callback" /\ pc[Disp] = "idle"
  /\ todo' = Tail(todo)
  /\ \/ Len(todo) > 1 /\ UNCHANGED <<dpc, fn>>
     \/ Len(todo) = 1 /\ dpc' = "idle" /\ fn' = NoFn
  /\ UNCHANGED <<mu, lockVars, closed, switching, netVars, strVars, open, procVars,
                 queue, sibling, prev, mirror>>

\* The tear-down submitted when the connection fails or closes.
DownLock ==
  /\ dpc = "down" /\ mu = Nil
  /\ mu' = Disp
  /\ prev' = cur["video"]
  /\ dpc' = "downstop"
  /\ pc' = [pc EXCEPT ![Disp] = "stop"]
  /\ op' = [op EXCEPT ![Disp] = "Down"]
  /\ UNCHANGED <<lockVars, closed, switching, netVars, strVars, open, calls, call,
                 callSrc, queue, fn, todo, sibling, mirror>>

DownDone ==
  /\ AllStopped(Disp, "Down")
  /\ streams' = None /\ open' = open \ {streams}
  /\ queue' = IF prev # None THEN Submitted(queue, UpgradeFn(currentState)) ELSE queue
  /\ mu' = Nil
  /\ Return(Disp)
  /\ dpc' = "idle" /\ fn' = NoFn /\ prev' = None
  /\ UNCHANGED <<src, cur, paused, muted, endedOnce, had, closed, switching, netVars,
                 strVars, todo, sibling, mirror>>

Dispatcher ==
  Take \/ EndCheck \/ EndLocked \/ StopSibling \/ CallbackReturn \/ DownLock \/ DownDone

-----------------------------------------------------------------------------
\* What a goroutine does without being asked again once it made a call.
Continue(t) ==
  \/ Pause(t) \/ Resume(t) \/ Mute(t) \/ Unmute(t)
  \/ CancelStreamer(t) \/ JoinStreamer(t)
  \/ SetSourceGate(t) \/ SetSourceLock(t) \/ SetSourceInstall(t) \/ SwitchDone(t)
  \/ SeekLock(t) \/ SeekUnderflow(t) \/ SeekRestart(t)
  \/ StopLock(t) \/ StopReset(t) \/ StopReturn(t)

Next ==
  \/ \E t \in Procs :
       EnterOp(t) \/ SetSourceOpen(t) \/ StopEnter(t) \/ Continue(t)
  \/ \E s \in Strs : Streamer(s)
  \/ Dispatcher
  \/ NetChange

Spec == Init /\ [][Next]_vars

\* Goroutines that can run do; g.mu is not withheld for ever from one that
\* waits for it (sync.RWMutex); a user callback returns; the environment owes
\* nothing: no call, no end of file and no connection need come.
Fairness ==
  /\ \A t \in Procs : SF_vars(Continue(t))
  /\ \A s \in Strs :
       /\ WF_vars(s \in cancelled /\ StreamerExit(s))
       /\ WF_vars(StreamerRelease(s) \/ StreamerEnding(s) \/ StreamerSubmit(s))
  /\ SF_vars(Dispatcher)

FairSpec == Spec /\ Fairness

-----------------------------------------------------------------------------
(* Properties.                                                             *)

Places == {"idle", "lock", "gate", "wait", "stop", "return"}
Ops == Toggles \cup {"none", "SeekBy", "Underflow", "SetSource", "Stop", "Down"}
NetStates == {"Connecting", "Connected", "Disconnected", "Failed", "Closed"}
MediaStates == [muted : BOOLEAN, silent : BOOLEAN, videoStopped : BOOLEAN]
Closures ==
  [kind : {"end"}, str : Strs] \cup {DownFn} \cup [kind : {"conn"}, net : NetStates]
    \cup [kind : {"upgrade"}, state : MediaStates]
Events == Closures \cup [kind : {"ended"}, cycle : Cycles, leg : Legs]

LockTypes ==
  /\ mu \in Procs \cup {Nil}
  /\ src \in Sources \cup {Nil}
  /\ cur \in [Legs -> Cycles \cup {None}] /\ streams \in Cycles \cup {None}
  /\ paused \in BOOLEAN /\ muted \in BOOLEAN /\ endedOnce \in BOOLEAN
  /\ had \in SUBSET Legs
FlagTypes ==
  /\ closed \in BOOLEAN /\ switching \in BOOLEAN
  /\ netState \in NetStates /\ wasConnected \in BOOLEAN
StrTypes ==
  /\ strPc \in [Strs -> {"none", "built", "run", "held", "ending", "submit", "done"}]
  /\ gate \in [Strs -> BOOLEAN] /\ strMuted \in [Strs -> BOOLEAN]
  /\ cancelled \in SUBSET Strs /\ open \in SUBSET Cycles
ProcTypes ==
  /\ calls \in 0 .. MaxCalls
  /\ pc \in [Procs -> Places] /\ op \in [Procs -> Ops]
  /\ call \in [Procs -> Cycles \cup {None}] /\ callSrc \in [Procs -> Sources \cup {Nil}]
DispTypes ==
  /\ queue \in Seq(Closures)
  /\ dpc \in {"idle", "end", "endlock", "sibling", "callback", "down", "downstop"}
  /\ fn \in Closures \cup {NoFn} /\ todo \in Seq(Events) /\ sibling \in SUBSET Strs
  /\ prev \in Cycles \cup {None}
  /\ mirror \in MediaStates

\* Every variable has its type.
TypeOK == LockTypes /\ FlagTypes /\ StrTypes /\ ProcTypes /\ DispTypes

Running == {s \in Strs : strPc[s] \in {"run", "held", "ending", "submit"}}

\* Every run loop that has not finished can be reached: it is installed in the
\* call, or it is the sibling the dispatcher is about to stop.  One that were
\* neither could never be paused, muted or stopped again.
NoOrphanStreamer == Running \subseteq Installed \cup sibling

StopPending == \E t \in Procs : op[t] = "Stop" /\ pc[t] \in {"lock", "stop"}

\* Stop is final.  Once its section has run, whatever calls were already past
\* their `closed` test when it began, the call holds no source, no streamer and
\* no streams, and the only run loop left is a sibling the dispatcher stops.
StopIsFinal ==
  closed /\ ~StopPending =>
    /\ src = Nil /\ streams = None /\ Installed = {}
    /\ Running \subseteq sibling

\* With g.mu free, the gates of the installed streamers agree with g.paused,
\* however Pause and Resume met a source being prepared or reopened.
PauseAgrees ==
  mu = Nil => \A s \in Installed : gate[s] = paused

\* When OnStreamEnd runs for a cycle, no streamer of it is still running.
EndAfterQuiet ==
  dpc = "callback" /\ Head(todo).kind = "ended" =>
    \A l \in Legs : <<Head(todo).cycle, l>> \notin Running

\* The mute and pause bits the user last heard of, when no newer OnUpgrade is on
\* its way, are those of the call: upgrades are submitted under g.mu, so they
\* arrive in the order of the changes.  (Stop resets both bits silently, and a
\* full buffer may lose an upgrade.)
NoUpgradeDue == \A i \in 1 .. Len(queue) : queue[i].kind # "upgrade"
MirrorConverges ==
  ~closed /\ NoUpgradeDue =>
    mirror.muted = muted /\ mirror.silent = (muted \/ paused)

\* A dispatched end takes streamers off the call only if the one that ended is
\* among them: a late end of a replaced source leaves every new source that came
\* up with that leg.  (If the new one has no such leg, the field is nil, which
\* isStale takes for "not replaced", and the new source is taken off.)
StaleEndHarmless ==
  [][EndLocked /\ cur' # cur => fn.str \in Installed \/ fn.str[2] \notin had]_vars

\* The Streams of cycle c are the call's, or a SetSource has yet to install or
\* close them.
Accounted(c) ==
  c = streams \/ \E t \in Procs : op[t] = "SetSource" /\ pc[t] # "return" /\ call[t] = c

\* No step forgets Streams that are open, new ones included, but for those of a
\* source that came to its end and is started again by Resume.
StreamsAccounted ==
  [][\A c \in open' : (c \in open => Accounted(c))
       => Accounted(c)' \/ (c = streams /\ endedOnce /\ \E t \in Procs : Resume(t))]_vars

\* No streamer runs before the connection was up: what it sent would be lost.
NoEarlyStart == Running # {} => wasConnected

\* Every call returns, calls made inside callbacks included.
CallsReturn == \A t \in Procs : pc[t] # "idle" ~> pc[t] = "idle"

\* Whatever Stop meets, every run loop ends and every Streams is closed.
StopQuiets == closed ~> [](Running = {} /\ open = {})

-----------------------------------------------------------------------------
(* The streamers as Streamer.tla implements them.                          *)

placeOf(s) ==
  CASE strPc[s] \in {"none", "built"} -> "idle"
    [] strPc[s] \in {"ending", "submit"} -> "ending"
    [] OTHER -> strPc[s]

Loop(s) == INSTANCE RunLoop WITH
  place <- placeOf(s), gate <- gate[s], cancelled <- s \in cancelled

\* The call takes nothing of a streamer but what a RunLoop does: it starts one
\* once, cancels only one that was started, and never sees it come back.
StreamersAreRunLoops ==
  /\ \A s \in Strs : Loop(s)!Init
  /\ [][\A s \in Strs : [Loop(s)!Next]_(Loop(s)!loopVars)]_vars

-----------------------------------------------------------------------------
(* Statements of the repository that the code does not keep.               *)

\* README "Mute silences the audio track": with g.mu free, the installed audio
\* streamer is muted if the call is.
MuteAgrees ==
  mu = Nil => \A s \in Installed : s[2] = "audio" => strMuted[s] = muted

\* OnStreamEnd reports a track that ends by itself: an installed streamer that
\* finished unasked does not stay installed for ever.
EndsAreHeard ==
  \A s \in Strs :
    s \in Installed /\ strPc[s] = "done" /\ s \notin cancelled ~> s \notin Installed

=============================================================================
