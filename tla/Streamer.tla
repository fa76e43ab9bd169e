------------------------------ MODULE Streamer ------------------------------
(***************************************************************************)
(* One media.Streamer (media/streamer.go): its run loop, the goroutines    *)
(* that call SetPaused and Stop, the timer that bounds a read, and the     *)
(* clock it paces samples by.                                              *)
(*                                                                         *)
(* A step of the loop makes at most one access to what it shares with the  *)
(* callers: pausedGate, the one-token channel `resume`, the context and the *)
(* source.  Muting only decides whether a sample is written, the clock runs *)
(* on either way, so it is left out; a sample is a Frame of media time.    *)
(***************************************************************************)
EXTENDS Naturals

CONSTANTS
  Callers,   \* the goroutines that call SetPaused and Stop
  Frame,     \* the media time of one sample
  Stall,     \* stallTimeout
  Lag,       \* the lag beyond which the pacing clock is reset (100 ms)
  MaxTime    \* bound: the clock stops here

ASSUME StreamerAssumption ==
  Frame \in Nat \ {0} /\ Stall \in Nat \ {0} /\ Lag \in Nat /\ MaxTime \in Nat

VARIABLES
  pc,           \* where the run loop is
  pausedGate,
  resume,       \* TRUE when the channel holds its token
  ctxDone, srcClosed,
  once,         \* Streamer.once: "new", "busy" or "done"
  cpc,          \* where each caller is
  returned,     \* some Stop has returned
  now, next,    \* the clock, and the loop's pacing deadline
  armed, deadline, stalling,  \* the stall timer, and its callback under way
  wokeAt, played,  \* when the loop started or last left the gate; media time since
  late          \* samples handed on since the gate was shut

gateVars == <<pausedGate, resume>>
endVars == <<ctxDone, srcClosed, once, cpc, returned>>
timerVars == <<armed, deadline, stalling>>
paceVars == <<next, wokeAt, played, late>>
vars == <<pc, gateVars, endVars, now, timerVars, paceVars>>

AtGate == {"drain", "for", "wait"}

Init ==
  /\ pc = "idle" /\ pausedGate = FALSE /\ resume = FALSE
  /\ ctxDone = FALSE /\ srcClosed = FALSE /\ once = "new"
  /\ cpc = [c \in Callers |-> "idle"] /\ returned = FALSE
  /\ now = 0 /\ next = 0
  /\ armed = FALSE /\ deadline = 0 /\ stalling = FALSE
  /\ wokeAt = 0 /\ played = 0 /\ late = 0

-----------------------------------------------------------------------------
(* The callers.                                                            *)

CallerAt(c, from, to) == cpc[c] = from /\ cpc' = [cpc EXCEPT ![c] = to]

SetPausedTrue(c) ==
  /\ cpc[c] = "idle"
  /\ pausedGate' = TRUE
  /\ late' = IF pausedGate THEN late ELSE 0
  /\ UNCHANGED <<pc, resume, endVars, now, timerVars, next, wokeAt, played>>

\* The CompareAndSwap; a gate that is open already needs no wake.
SetPausedFalse(c) ==
  /\ CallerAt(c, "idle", "wake")
  /\ pausedGate /\ pausedGate' = FALSE
  /\ late' = 0
  /\ UNCHANGED <<pc, resume, ctxDone, srcClosed, once, returned, now, timerVars,
                 next, wokeAt, played>>

Token_NeverSent == resume
Token == TRUE

\* The token is sent, or there is one already.
Wake(c) ==
  /\ CallerAt(c, "wake", "idle")
  /\ resume' = Token
  /\ UNCHANGED <<pc, pausedGate, ctxDone, srcClosed, once, returned, now, timerVars,
                 paceVars>>

\* Stop, inside once.Do: cancel the context, then close the source.
StopCancel(c) ==
  /\ CallerAt(c, "idle", "close")
  /\ pc # "idle" /\ once = "new"
  /\ once' = "busy" /\ ctxDone' = TRUE
  /\ UNCHANGED <<pc, gateVars, srcClosed, returned, now, timerVars, paceVars>>

StopClose(c) ==
  /\ CallerAt(c, "close", "join")
  /\ once' = "done" /\ srcClosed' = TRUE
  /\ UNCHANGED <<pc, gateVars, ctxDone, returned, now, timerVars, paceVars>>

\* A later Stop finds once.Do over.
StopAgain(c) ==
  /\ CallerAt(c, "idle", "join")
  /\ once = "done"
  /\ UNCHANGED <<pc, gateVars, ctxDone, srcClosed, once, returned, now, timerVars,
                 paceVars>>

Done_NotAwaited == TRUE
Done == pc = "done"

StopJoin(c) ==
  /\ CallerAt(c, "join", "idle")
  /\ Done
  /\ returned' = TRUE
  /\ UNCHANGED <<pc, gateVars, ctxDone, srcClosed, once, now, timerVars, paceVars>>

Caller(c) ==
  \/ SetPausedTrue(c) \/ SetPausedFalse(c) \/ Wake(c)
  \/ StopCancel(c) \/ StopClose(c) \/ StopAgain(c) \/ StopJoin(c)

-----------------------------------------------------------------------------
(* The run loop.                                                           *)

LoopAt(from, to) == pc = from /\ pc' = to

Start ==
  /\ LoopAt("idle", "top")
  /\ next' = now /\ wokeAt' = now
  /\ UNCHANGED <<gateVars, endVars, now, timerVars, played, late>>

CheckContext ==
  /\ LoopAt("top", IF ctxDone THEN "fire" ELSE "gate")
  /\ UNCHANGED <<gateVars, endVars, now, timerVars, paceVars>>

GateShut_UnlessToken == pausedGate /\ ~resume
GateShut == pausedGate

GateLoad ==
  /\ LoopAt("gate", IF GateShut THEN "drain" ELSE "passed")
  /\ UNCHANGED <<gateVars, endVars, now, timerVars, paceVars>>

\* A token left from an earlier cycle is dropped.
GateDrain ==
  /\ LoopAt("drain", "for")
  /\ resume' = FALSE
  /\ UNCHANGED <<pausedGate, endVars, now, timerVars, paceVars>>

GateLoop ==
  /\ LoopAt("for", IF GateShut THEN "wait" ELSE "passed")
  /\ IF GateShut THEN UNCHANGED <<wokeAt, played>> ELSE wokeAt' = now /\ played' = 0
  /\ UNCHANGED <<gateVars, endVars, now, timerVars, next, late>>

GateWoken ==
  /\ LoopAt("wait", "for")
  /\ resume /\ resume' = FALSE
  /\ UNCHANGED <<pausedGate, endVars, now, timerVars, paceVars>>

Woken_OnlyByToken == FALSE
Woken_Always == TRUE

\* The gate's select has a second case.
Woken == ctxDone

GateCancelled ==
  /\ LoopAt("wait", "fire")
  /\ Woken
  /\ UNCHANGED <<gateVars, endVars, now, timerVars, paceVars>>

\* The gate reports whether the context is still alive.
GateReturn ==
  /\ LoopAt("passed", IF ctxDone THEN "fire" ELSE "pace")
  /\ UNCHANGED <<gateVars, endVars, now, timerVars, paceVars>>

Later_NotMoved(t, d) == d
Later(t, d) == IF t > d THEN t ELSE d

StallAt == now + Stall

\* Time spent held or reading is not caught up with; the stall timer is reset.
Pace ==
  /\ LoopAt("pace", "read")
  /\ next' = Later(now, next)
  /\ armed' = TRUE /\ deadline' = StallAt
  /\ UNCHANGED <<gateVars, endVars, now, stalling, wokeAt, played, late>>

\* src.Next gives a sample.  The timer's Stop comes with the next step.
ReadSample ==
  /\ LoopAt("read", "write")
  /\ UNCHANGED <<gateVars, endVars, now, timerVars, paceVars>>

\* End of file, an error, or a source closed from outside.
ReadFails ==
  /\ LoopAt("read", "fire")
  /\ armed' = FALSE
  /\ UNCHANGED <<gateVars, endVars, now, deadline, stalling, paceVars>>

\* Hand the sample on and decide when the next one is due.
Write ==
  /\ pc = "write"
  /\ armed' = FALSE
  /\ LET due == next + Frame IN
       /\ next' = IF due + Lag < now THEN now ELSE due
       /\ pc' = IF due > now THEN "sleep" ELSE "top"
  /\ played' = played + Frame
  /\ late' = IF pausedGate THEN late + 1 ELSE 0
  /\ UNCHANGED <<gateVars, endVars, now, deadline, stalling, wokeAt>>

WriteFails ==
  /\ LoopAt("write", "fire")
  /\ armed' = FALSE
  /\ UNCHANGED <<gateVars, endVars, now, deadline, stalling, paceVars>>

Sleep ==
  /\ pc = "sleep"
  /\ \/ now >= next /\ pc' = "top"
     \/ ctxDone /\ pc' = "fire"
  /\ UNCHANGED <<gateVars, endVars, now, timerVars, paceVars>>

\* fireEnd calls onEnd; the deferred close(done) follows.
FireEnd ==
  /\ LoopAt("fire", "exit")
  /\ UNCHANGED <<gateVars, endVars, now, timerVars, paceVars>>

CloseDone ==
  /\ LoopAt("exit", "done")
  /\ UNCHANGED <<gateVars, endVars, now, timerVars, paceVars>>

\* The steps the loop takes without waiting for anyone.
LoopStep ==
  \/ CheckContext \/ GateLoad \/ GateDrain \/ GateLoop \/ GateWoken \/ GateCancelled
  \/ GateReturn \/ Pace \/ Write \/ WriteFails \/ FireEnd \/ CloseDone

-----------------------------------------------------------------------------
(* The stall timer, whose callback closes the source, and the clock.       *)

Expired == armed /\ now >= deadline

StallFires ==
  /\ Expired
  /\ armed' = FALSE /\ stalling' = TRUE
  /\ UNCHANGED <<pc, gateVars, endVars, now, deadline, paceVars>>

StallCloses ==
  /\ stalling /\ stalling' = FALSE
  /\ srcClosed' = TRUE
  /\ UNCHANGED <<pc, gateVars, ctxDone, once, cpc, returned, now, armed, deadline,
                 paceVars>>

Tick ==
  /\ now < MaxTime
  /\ now' = now + 1
  /\ UNCHANGED <<pc, gateVars, endVars, timerVars, paceVars>>

-----------------------------------------------------------------------------
Next ==
  \/ \E c \in Callers : Caller(c)
  \/ Start \/ LoopStep \/ ReadSample \/ ReadFails \/ Sleep
  \/ StallFires \/ StallCloses \/ Tick

Spec == Init /\ [][Next]_vars

\* Goroutines that can run do.  A read returns only if the source is closed, for
\* an ffmpeg stuck on its input never does; no caller need call anything.
Fairness ==
  /\ \A c \in Callers : WF_vars(Wake(c) \/ StopClose(c) \/ StopJoin(c))
  /\ WF_vars(LoopStep) /\ SF_vars(GateCancelled)
  /\ WF_vars(srcClosed /\ ReadFails)
  /\ WF_vars(ctxDone /\ Sleep)
  /\ WF_vars(StallFires) /\ WF_vars(StallCloses)

FairSpec == Spec /\ Fairness

-----------------------------------------------------------------------------
(* Properties.                                                             *)

\* Every variable has its type.
TypeOK ==
  /\ pc \in AtGate \cup {"idle", "top", "gate", "passed", "pace", "read", "write",
                         "sleep", "fire", "exit", "done"}
  /\ pausedGate \in BOOLEAN /\ resume \in BOOLEAN
  /\ ctxDone \in BOOLEAN /\ srcClosed \in BOOLEAN /\ once \in {"new", "busy", "done"}
  /\ cpc \in [Callers -> {"idle", "wake", "close", "join"}] /\ returned \in BOOLEAN
  /\ now \in Nat /\ next \in Nat
  /\ armed \in BOOLEAN /\ deadline \in Nat /\ stalling \in BOOLEAN
  /\ wokeAt \in Nat /\ played \in Nat /\ late \in Nat

\* No wake-up is lost: a loop that waits at a gate which is open has a token to
\* take, or a SetPaused that is about to send one.  The drain of an old token and
\* the test of the gate are what could break it.
NoLostWakeup ==
  pc = "wait" /\ ~pausedGate => resume \/ \E c \in Callers : cpc[c] = "wake"

\* A pause takes hold: while the gate is shut, at most the one sample that was
\* past it is handed on.
PauseTakesHold == pausedGate => late <= 1

\* Samples are handed on at real-time pace, from the start and again from each
\* resume: the second of media that piled up in the pipe is not let out at once.
RealTimePace == played <= (now - wokeAt) + Frame

\* Once a Stop has returned the loop is over and the source is closed, so nothing
\* is written to the track that the next streamer writes to.
StoppedIsQuiet == returned => pc = "done" /\ srcClosed

\* An open gate lets the loop go, unless it is shut again.
GateOpens == pc \in AtGate /\ ~pausedGate ~> pc \notin AtGate \/ pausedGate

\* Stop returns, whatever the loop was doing: paused, asleep or stuck in a read.
StopReturns == \A c \in Callers : cpc[c] \in {"close", "join"} ~> cpc[c] = "idle"

\* A read that has lasted stallTimeout ends.
StallEnds == pc = "read" /\ now >= deadline ~> pc # "read"

\* Nothing keeps a streamer for ever: not its gate, its source, nor its pace.
NeverStuck == GateOpens /\ StopReturns /\ StallEnds

-----------------------------------------------------------------------------
(* The loop as its call sees it.                                           *)

placeOfLoop ==
  IF pc = "idle" THEN "idle"
  ELSE IF pc \in AtGate THEN "held"
  ELSE IF pc \in {"fire", "exit"} THEN "ending"
  ELSE IF pc = "done" THEN "done"
  ELSE "run"

Loop == INSTANCE RunLoop WITH
  place <- placeOfLoop, gate <- pausedGate, cancelled <- ctxDone

\* The streamer is the run loop a call relies on.
ImplementsRunLoop == Loop!Spec

=============================================================================
