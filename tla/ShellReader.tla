---------------------------- MODULE ShellReader ----------------------------
(***************************************************************************)
(* io.ShellReader: an ffmpeg process, the pipe its output comes through,    *)
(* the ring that keeps the tail of its stderr, the goroutine that reaps it, *)
(* one goroutine that reads and any number that close.  The process writes, *)
(* closes its output and ends as it likes; a read that meets the end of the *)
(* pipe waits a little for the reaper, so that it returns ffmpeg's error    *)
(* and not a bare end of file.  A panic inside reap is left out.            *)
(***************************************************************************)
EXTENDS RingBuffer

CONSTANTS
  Closers,     \* the goroutines that call Close
  PipeSize,    \* what the kernel's pipe buffers
  MaxOutput,   \* bound: bytes the process writes to stdout
  MaxStderr    \* bound: bytes it writes to stderr

ASSUME ShellAssumption ==
  /\ PipeSize \in Nat \ {0} /\ MaxOutput \in Nat /\ MaxStderr \in Nat

VARIABLES
  child, code,      \* "running", "quiet" (its stdout closed) or "exited"; its
                    \* exit code, -1 after a signal
  output, buffered, \* bytes written to stdout, and still in the pipe
  cancelled, shut,  \* the context is cancelled; r.stdout is closed
  once,             \* waitOnce: "new", "half" or "over"
  waitErr,          \* "nil", "crashed" or "canceled"
  reaper,           \* its place: "wait", "hook", "close" or "done" (doneCh)
  onExit, told,     \* the hook is set; what it was called with
  got, reader,      \* bytes read; "reading", "draining" or "ended"
  late, result,     \* the drain timed out; the error Read returned
  pc                \* each closer: "idle", "closing", "waiting", "returned"

stderrVars == <<ring, written>>
childVars == <<child, code, output, stderrVars>>
readVars == <<got, reader, late, result>>
reapVars == <<waitErr, reaper, told>>
closeVars == <<shut, once, pc>>
vars == <<childVars, buffered, cancelled, reapVars, onExit, readVars, closeVars>>

Init ==
  /\ ring = NewRing /\ written = 0
  /\ child = "running" /\ code = 0 /\ output = 0 /\ buffered = 0
  /\ cancelled = FALSE /\ shut = FALSE /\ once = "new"
  /\ waitErr = "nil" /\ reaper = "wait" /\ onExit = FALSE /\ told = "unset"
  /\ got = 0 /\ reader = "reading" /\ late = FALSE /\ result = "none"
  /\ pc = [c \in Closers |-> "idle"]

(***************************************************************************)
(* The process                                                             *)
(***************************************************************************)
WriteStdout ==
  /\ child = "running" /\ output < MaxOutput /\ buffered < PipeSize
  /\ output' = output + 1 /\ buffered' = buffered + 1
  /\ UNCHANGED <<child, code, stderrVars, cancelled, reapVars, onExit, readVars, closeVars>>

WriteStderr(n) ==
  /\ child # "exited" /\ written + n <= MaxStderr
  /\ WriteBytes(n)
  /\ UNCHANGED <<child, code, output, buffered, cancelled, reapVars, onExit, readVars, closeVars>>

CloseOutput ==
  /\ child = "running" /\ child' = "quiet"
  /\ UNCHANGED <<code, output, stderrVars, buffered, cancelled, reapVars, onExit, readVars,
                 closeVars>>

Die(c) ==
  /\ child # "exited"
  /\ child' = "exited" /\ code' = c
  /\ UNCHANGED <<output, stderrVars, buffered, cancelled, reapVars, onExit, readVars, closeVars>>

Exit == \E c \in {0, 1, -1} : Die(c)

Kill == cancelled /\ Die(-1)    \* exec.CommandContext's own goroutine

(***************************************************************************)
(* reap.  Wait returns once the process and the copy of its stderr have     *)
(* ended; after a good exit it may still report the cancellation.           *)
(***************************************************************************)
Silent == code = -1 /\ Snapshot(ring) = <<>>

WaitReturns_ClosesPipe ==
  /\ reaper = "wait" /\ child = "exited"
  /\ waitErr' = IF code = 0 \/ Silent THEN "nil" ELSE "crashed"
  /\ reaper' = "hook" /\ buffered' = 0
  /\ UNCHANGED <<childVars, cancelled, told, onExit, readVars, closeVars>>

WaitReturns ==
  /\ reaper = "wait" /\ child = "exited"
  /\ waitErr' \in IF code # 0 THEN {IF Silent THEN "nil" ELSE "crashed"}
                  ELSE IF cancelled THEN {"nil", "canceled"} ELSE {"nil"}
  /\ reaper' = "hook"
  /\ UNCHANGED <<childVars, buffered, cancelled, told, onExit, readVars, closeVars>>

RunHook ==
  /\ reaper = "hook"
  /\ told' = IF onExit THEN waitErr ELSE "unset"
  /\ reaper' = "close"
  /\ UNCHANGED <<childVars, buffered, cancelled, waitErr, onExit, readVars, closeVars>>

CloseDone ==
  /\ reaper = "close"
  /\ reaper' = "done"
  /\ UNCHANGED <<childVars, buffered, cancelled, waitErr, told, onExit, readVars, closeVars>>

SetOnExit ==
  /\ ~onExit /\ onExit' = TRUE
  /\ UNCHANGED <<childVars, buffered, cancelled, reapVars, readVars, closeVars>>

(***************************************************************************)
(* Read                                                                    *)
(***************************************************************************)
ReadByte ==
  /\ reader = "reading" /\ ~shut /\ buffered > 0
  /\ buffered' = buffered - 1 /\ got' = got + 1
  /\ UNCHANGED <<childVars, cancelled, reapVars, onExit, reader, late, result, closeVars>>

ReadError ==
  /\ reader = "reading"
  /\ shut \/ (child # "running" /\ buffered = 0)
  /\ reader' = "draining"
  /\ UNCHANGED <<childVars, buffered, cancelled, reapVars, onExit, got, late, result, closeVars>>

ReadReturns_AtOnce(timedOut) ==
  /\ reader = "draining"
  /\ reader' = "ended" /\ late' = FALSE
  /\ result' = IF waitErr # "nil" THEN waitErr ELSE "EOF"
  /\ UNCHANGED <<childVars, buffered, cancelled, reapVars, onExit, got, closeVars>>

ReadReturns(timedOut) ==
  /\ reader = "draining"
  /\ timedOut \/ reaper = "done"
  /\ reader' = "ended" /\ late' = timedOut
  /\ result' = IF waitErr # "nil" THEN waitErr ELSE "EOF"
  /\ UNCHANGED <<childVars, buffered, cancelled, reapVars, onExit, got, closeVars>>

(***************************************************************************)
(* Close, and a cancellation of the parent context                         *)
(***************************************************************************)
Close_NotCancelled(c) ==
  /\ pc[c] = "idle"
  /\ IF once = "new"
     THEN once' = "half" /\ pc' = [pc EXCEPT ![c] = "closing"]
     ELSE pc' = [pc EXCEPT ![c] = "waiting"] /\ UNCHANGED once
  /\ UNCHANGED <<childVars, buffered, cancelled, reapVars, onExit, readVars, shut>>

Close(c) ==
  /\ pc[c] = "idle"
  /\ IF once = "new"
     THEN /\ once' = "half" /\ cancelled' = TRUE
          /\ pc' = [pc EXCEPT ![c] = "closing"]
     ELSE /\ pc' = [pc EXCEPT ![c] = "waiting"]
          /\ UNCHANGED <<once, cancelled>>
  /\ UNCHANGED <<childVars, buffered, reapVars, onExit, readVars, shut>>

CloseStdout(c) ==
  /\ pc[c] = "closing"
  /\ shut' = TRUE /\ once' = "over" /\ pc' = [pc EXCEPT ![c] = "waiting"]
  /\ UNCHANGED <<childVars, buffered, cancelled, reapVars, onExit, readVars>>

CloseReturn(c) ==
  /\ pc[c] = "waiting" /\ once = "over" /\ reaper = "done"
  /\ pc' = [pc EXCEPT ![c] = "returned"]
  /\ UNCHANGED <<childVars, buffered, cancelled, reapVars, onExit, readVars, shut, once>>

CancelParent ==
  /\ ~cancelled /\ cancelled' = TRUE
  /\ UNCHANGED <<childVars, buffered, reapVars, onExit, readVars, closeVars>>

Reap == WaitReturns \/ RunHook \/ CloseDone
Read == ReadByte \/ ReadError \/ \E timedOut \in BOOLEAN : ReadReturns(timedOut)

Next ==
  \/ WriteStdout \/ (\E n \in 1 .. MaxStderr : WriteStderr(n)) \/ CloseOutput
  \/ Exit \/ Kill
  \/ Reap \/ SetOnExit \/ Read \/ CancelParent
  \/ \E c \in Closers : Close(c) \/ CloseStdout(c) \/ CloseReturn(c)

Spec == Init /\ [][Next]_vars

(***************************************************************************)
(* The operating system kills what is told to die, and every goroutine that *)
(* can run does.  The process need not end by itself, nor anyone close it.  *)
(***************************************************************************)
Fairness ==
  /\ WF_vars(Kill) /\ WF_vars(Reap) /\ WF_vars(Read)
  /\ \A c \in Closers : WF_vars(CloseStdout(c) \/ CloseReturn(c))

FairSpec == Spec /\ Fairness

TypeOK ==
  /\ ring \in [buf : [Cells -> 0 .. MaxStderr], head : Cells, full : BOOLEAN]
  /\ written \in 0 .. MaxStderr
  /\ child \in {"running", "quiet", "exited"} /\ code \in {-1, 0, 1}
  /\ output \in 0 .. MaxOutput /\ buffered \in 0 .. PipeSize /\ got \in 0 .. MaxOutput
  /\ cancelled \in BOOLEAN /\ shut \in BOOLEAN /\ once \in {"new", "half", "over"}
  /\ waitErr \in {"nil", "crashed", "canceled"}
  /\ told \in {"unset", "nil", "crashed", "canceled"}
  /\ reaper \in {"wait", "hook", "close", "done"} /\ onExit \in BOOLEAN
  /\ reader \in {"reading", "draining", "ended"} /\ late \in BOOLEAN
  /\ result \in {"none", "EOF", "crashed", "canceled"}
  /\ pc \in [Closers -> {"idle", "closing", "waiting", "returned"}]

(***************************************************************************)
(* A reader that met the end of the stream without a Close has every byte   *)
(* the process wrote, although the process was reaped while the last of     *)
(* them were still in the pipe (comment of ShellReader, lines 33-39).       *)
(***************************************************************************)
NothingLost == reader # "reading" /\ ~shut => got = output

(***************************************************************************)
(* Unless it ran out of patience, a reader is told that ffmpeg failed: by   *)
(* an exit code, or by a signal after it had written to stderr.  Only a     *)
(* process that fell silently, or well, ends in a plain end of file.        *)
(***************************************************************************)
DiagnosisKept ==
  reader = "ended" /\ ~late =>
    /\ result = "crashed" <=> (code = 1 \/ (code = -1 /\ written > 0))
    /\ result = "canceled" => cancelled

(***************************************************************************)
(* Every Close returns, a Close by another goroutine and a reader in its    *)
(* way included, and a Close frees the reader too.                          *)
(***************************************************************************)
CloseReturns ==
  /\ \A c \in Closers : pc[c] # "idle" ~> pc[c] = "returned"
  /\ shut ~> reader = "ended"

=============================================================================
