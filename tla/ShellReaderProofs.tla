-------------------------- MODULE ShellReaderProofs --------------------------
(***************************************************************************)
(* Proofs about RingBuffer.tla and ShellReader.tla, for every size of ring, *)
(* of pipe and of output, however the process cuts its writes.  The ring's  *)
(* invariant says which byte is in which cell; that the snapshot is the     *)
(* tail, and that its emptiness tells a silent process, follow from it.     *)
(***************************************************************************)
EXTENDS ShellReader, TLAPS

\* Up to head the ring holds the newest bytes, and from head on, once it has been
\* full, the ones Capacity before them.
RingInv ==
  /\ written \in Nat
  /\ ring \in [buf : [Cells -> 0 .. written], head : Cells, full : BOOLEAN]
  /\ ~ring.full => ring.head = written
  /\ ring.full => written >= Capacity
  /\ \A i \in Cells : i < ring.head => ring.buf[i] = written - ring.head + i + 1
  /\ ring.full => \A i \in Cells :
       i >= ring.head => ring.buf[i] = written - Capacity - ring.head + i + 1

-----------------------------------------------------------------------------
\* Where a write that is shorter than the ring leaves head.
LEMMA Around ==
  ASSUME NEW h \in Nat, NEW n \in Nat, h < Capacity, n < Capacity
  PROVE  (h + n) % Capacity = IF h + n < Capacity THEN h + n ELSE h + n - Capacity
BY CapacityAssumption, SMTT(30)

\* An empty ring holds no byte.
LEMMA RingStart == ring = NewRing /\ written = 0 => RingInv
BY CapacityAssumption DEF RingInv, NewRing, Cells

\* A write longer than the ring replaces all of it.
LEMMA OverwriteStep ==
  ASSUME RingInv, NEW n \in Nat, n >= Capacity, WriteBytes(n)
  PROVE  RingInv'
<1> USE CapacityAssumption DEF Cells
<1>1. /\ NextBytes(n) # <<>> /\ Len(NextBytes(n)) = n
      /\ \A i \in 1 .. n : NextBytes(n)[i] = written + i
  BY DEF NextBytes, RingInv
<1>2. ring' = Overwritten(ring, NextBytes(n)) /\ written' = written + n
  BY <1>1 DEF WriteBytes, WriteTo
<1> QED
  BY <1>1, <1>2 DEF Overwritten, RingInv

\* A shorter write goes on where the last one ended.
LEMMA WrapStep ==
  ASSUME RingInv, NEW n \in Nat \ {0}, n < Capacity, WriteBytes(n)
  PROVE  RingInv'
<1> DEFINE C == Capacity  w == written  h == ring.head  B == ring.buf
           p == NextBytes(n)
           end == IF h + n < C THEN h + n ELSE h + n - C
           A == [i \in Cells |-> Stored(ring, p, i)]
<1>1. /\ C \in Nat \ {0} /\ Cells = 0 .. C - 1 /\ n < C
      /\ w \in Nat /\ h \in Nat /\ h < C /\ ring.full \in BOOLEAN
  BY CapacityAssumption DEF RingInv, Cells
<1>2. /\ \A i \in 0 .. C - 1 : B[i] \in Nat /\ B[i] <= w
      /\ ~ring.full => h = w
      /\ ring.full => w >= C
      /\ \A i \in 0 .. C - 1 : i < h => B[i] = w - h + i + 1
      /\ ring.full => \A i \in 0 .. C - 1 : i >= h => B[i] = w - C - h + i + 1
  BY <1>1 DEF RingInv
<1>3. (h + n) % C = end
  BY <1>1, Around
<1>4. p # <<>> /\ Len(p) = n /\ \A i \in 1 .. n : p[i] = w + i
  BY <1>1 DEF NextBytes
<1> HIDE DEF p
<1>5. \A i : Stored(ring, p, i) = IF h <= i /\ i < h + n THEN p[i - h + 1]
                                  ELSE IF i < h + n - C THEN p[C - h + i + 1]
                                  ELSE B[i]
  BY <1>4, Zenon DEF Stored
<1>6. ring' = Wrapped(ring, p) /\ written' = w + n
  BY <1>1, <1>4 DEF WriteBytes, WriteTo, p
<1>7. ring' = [buf |-> A, head |-> end, full |-> ring.full \/ end < n]
  BY <1>3, <1>4, <1>6, Zenon DEF Wrapped
<1>8. ring'.buf = A /\ ring'.head = end /\ (ring'.full <=> ring.full \/ end < n)
  BY <1>7, Zenon
<1> HIDE DEF C, w, h, B
<1>9. end \in Nat /\ end < C
  BY <1>1
<1>10. ASSUME NEW i \in 0 .. C - 1
       PROVE  A[i] = IF h <= i /\ i < h + n THEN w + i - h + 1
                     ELSE IF i < h + n - C THEN w + C - h + i + 1
                     ELSE B[i]
  <2>1. h <= i /\ i < h + n => i - h + 1 \in 1 .. n
    BY <1>1
  <2>2. i < h + n - C => C - h + i + 1 \in 1 .. n
    BY <1>1
  <2>3. h <= i /\ i < h + n => p[i - h + 1] = w + i - h + 1
    BY <1>1, <1>4, <2>1
  <2>4. i < h + n - C => p[C - h + i + 1] = w + C - h + i + 1
    BY <1>1, <1>4, <2>2
  <2>5. A[i] = Stored(ring, p, i)
    BY <1>1
  <2> QED
    BY <1>5, <2>3, <2>4, <2>5
<1>11. \A i \in 0 .. C - 1 : A[i] \in 0 .. w + n
  BY <1>1, <1>2, <1>10
<1>12. A = [i \in Cells |-> A[i]]
  OBVIOUS
<1> HIDE DEF A, end
<1>13. A \in [Cells -> 0 .. w + n] /\ (ring.full \/ end < n) \in BOOLEAN
  BY <1>1, <1>11, <1>12
<1>14. /\ written' \in Nat
       /\ ring' \in [buf : [Cells -> 0 .. written'], head : Cells, full : BOOLEAN]
  BY <1>1, <1>6, <1>7, <1>9, <1>13
<1>15. CASE h + n < C
  <2>1. end = h + n
    BY <1>15 DEF end
  <2>2. /\ ~ring'.full => end = w + n
        /\ ring'.full => w + n >= C
    BY <1>1, <1>2, <1>8, <2>1
  <2>3. ASSUME NEW i \in 0 .. C - 1, i < end
        PROVE  A[i] = w + n - end + i + 1
    BY <1>1, <1>2, <1>10, <1>15, <2>1, <2>3
  <2>4. ASSUME ring'.full, NEW i \in 0 .. C - 1, i >= end
        PROVE  A[i] = w + n - C - end + i + 1
    BY <1>1, <1>2, <1>8, <1>10, <1>15, <2>1, <2>4
  <2>5. ASSUME NEW i \in Cells, i < ring'.head
        PROVE  ring'.buf[i] = written' - ring'.head + i + 1
    <3>1. i \in 0 .. C - 1 /\ i < end
      BY <1>1, <1>8, <2>5
    <3> QED
      BY <1>1, <1>6, <1>8, <1>9, <2>3, <3>1
  <2>6. ASSUME ring'.full, NEW i \in Cells, i >= ring'.head
        PROVE  ring'.buf[i] = written' - Capacity - ring'.head + i + 1
    <3>1. i \in 0 .. C - 1 /\ i >= end
      BY <1>1, <1>8, <2>6
    <3> QED
      BY <1>1, <1>6, <1>8, <1>9, <2>4, <2>6, <3>1 DEF C
  <2>7. /\ ~ring'.full => ring'.head = written'
        /\ ring'.full => written' >= Capacity
    BY <1>6, <1>8, <2>2 DEF C
  <2> QED
    BY <1>14, <2>5, <2>6, <2>7 DEF RingInv
<1>16. CASE h + n >= C
  <2>1. end = h + n - C /\ end < n /\ end < h
    BY <1>1, <1>16 DEF end
  <2>2. w + n >= C /\ ring'.full
    BY <1>1, <1>2, <1>8, <1>16, <2>1
  <2>3. ASSUME NEW i \in 0 .. C - 1, i < end
        PROVE  A[i] = w + n - end + i + 1
    BY <1>1, <1>10, <1>16, <2>1, <2>3
  <2>4. ASSUME NEW i \in 0 .. C - 1, i >= end
        PROVE  A[i] = w + n - C - end + i + 1
    BY <1>1, <1>2, <1>10, <1>16, <2>1, <2>4
  <2> QED
    BY <1>1, <1>6, <1>8, <1>14, <2>1, <2>2, <2>3, <2>4 DEF RingInv, C
<1> QED
  BY <1>1, <1>15, <1>16

\* Any write keeps the cells right.
LEMMA RingStep ==
  ASSUME RingInv, NEW n \in Nat \ {0}, WriteBytes(n)
  PROVE  RingInv'
BY OverwriteStep, WrapStep, CapacityAssumption

\* The snapshot of a ring whose cells are right is the tail of what was written.
LEMMA RingKeepsTail == RingInv => TailKept
<1> SUFFICES ASSUME RingInv PROVE TailKept
  OBVIOUS
<1>1. /\ Capacity \in Nat \ {0} /\ Cells = 0 .. Capacity - 1
      /\ written \in Nat /\ ring.head \in Cells /\ ring.full \in BOOLEAN
  BY CapacityAssumption DEF RingInv, Cells
<1>2. CASE ~ring.full
  <2>1. ring.head = written /\ written < Capacity
    BY <1>1, <1>2 DEF RingInv
  <2>2. Snapshot(ring) = [i \in 1 .. written |-> ring.buf[i - 1]]
    BY <1>2, <2>1 DEF Snapshot
  <2>3. \A i \in 1 .. written : ring.buf[i - 1] = i
    BY <1>1, <2>1 DEF RingInv
  <2> QED
    BY <1>1, <2>1, <2>2, <2>3 DEF TailKept
<1>3. CASE ring.full
  <2> DEFINE C == Capacity  w == written  h == ring.head  B == ring.buf
             cell(i) == IF i <= C - h THEN h + i - 1 ELSE i - 1 - (C - h)
  <2>1. Snapshot(ring) = [i \in 1 .. C |-> B[cell(i)]]
    BY <1>3, Zenon DEF Snapshot
  <2>2. /\ w >= C
        /\ \A i \in 0 .. C - 1 : i < h => B[i] = w - h + i + 1
        /\ \A i \in 0 .. C - 1 : i >= h => B[i] = w - C - h + i + 1
    BY <1>1, <1>3 DEF RingInv
  <2>3. C \in Nat \ {0} /\ w \in Nat /\ h \in Nat /\ h < C
    BY <1>1
  <2> HIDE DEF C, w, h, B
  <2>4. ASSUME NEW i \in 1 .. C
        PROVE  B[cell(i)] = w - C + i
    <3>1. CASE i <= C - h
      <4>1. cell(i) = h + i - 1 /\ h + i - 1 \in 0 .. C - 1 /\ h + i - 1 >= h
        BY <2>3, <3>1
      <4>2. B[h + i - 1] = w - C - h + (h + i - 1) + 1
        BY <2>2, <4>1
      <4> QED
        BY <2>3, <4>1, <4>2
    <3>2. CASE ~(i <= C - h)
      <4>1. /\ cell(i) = i - 1 - (C - h)
            /\ i - 1 - (C - h) \in 0 .. C - 1 /\ i - 1 - (C - h) < h
        BY <2>3, <3>2
      <4>2. B[i - 1 - (C - h)] = w - h + (i - 1 - (C - h)) + 1
        BY <2>2, <4>1
      <4> QED
        BY <2>3, <4>1, <4>2
    <3> QED
      BY <3>1, <3>2
  <2> HIDE DEF cell
  <2>5. Snapshot(ring) = [i \in 1 .. C |-> w - C + i]
    BY <2>1, <2>4
  <2> QED
    BY <2>2, <2>3, <2>5 DEF TailKept, C, w
<1> QED
  BY <1>2, <1>3

\* The snapshot is empty exactly when nothing was written.
LEMMA SilentMeans == RingInv => (Snapshot(ring) = <<>> <=> written = 0)
<1> SUFFICES ASSUME RingInv PROVE Snapshot(ring) = <<>> <=> written = 0
  OBVIOUS
<1> DEFINE kept == IF written < Capacity THEN written ELSE Capacity
<1>1. Capacity \in Nat \ {0} /\ written \in Nat
  BY CapacityAssumption DEF RingInv
<1>2. Snapshot(ring) = [i \in 1 .. kept |-> written - kept + i]
  BY RingKeepsTail DEF TailKept
<1>3. kept \in Nat /\ (kept = 0 <=> written = 0)
  BY <1>1
<1> HIDE DEF kept
<1>4. DOMAIN Snapshot(ring) = 1 .. kept
  BY <1>2
<1>5. CASE written = 0
  BY <1>2, <1>3, <1>5
<1>6. CASE written # 0
  <2>1. 1 \in DOMAIN Snapshot(ring)
    BY <1>1, <1>3, <1>4, <1>6
  <2> QED
    BY <2>1, <1>6
<1> QED
  BY <1>5, <1>6

-----------------------------------------------------------------------------
\* What is written to stdout was read or is in the pipe; only a process that
\* writes no more lets a read end.
PipeInv ==
  /\ output = got + buffered
  /\ reader # "reading" /\ ~shut => child # "running" /\ buffered = 0

\* The reaper knows of a failure what the exit code and the silence of stderr tell,
\* and a reader that did not time out knows what the reaper does.
ReapInv ==
  /\ child # "exited" => code = 0
  /\ reaper # "wait" =>
       /\ child = "exited"
       /\ waitErr = "crashed" <=> (code = 1 \/ (code = -1 /\ written > 0))
       /\ waitErr = "canceled" => cancelled
  /\ reader = "ended" /\ ~late =>
       /\ reaper = "done"
       /\ result = IF waitErr # "nil" THEN waitErr ELSE "EOF"

\* The rest of the types; those of the ring are in RingInv.
ShellTypes ==
  /\ written \in 0 .. MaxStderr
  /\ child \in {"running", "quiet", "exited"} /\ code \in {-1, 0, 1}
  /\ output \in 0 .. MaxOutput /\ buffered \in 0 .. PipeSize /\ got \in Nat
  /\ cancelled \in BOOLEAN /\ shut \in BOOLEAN /\ once \in {"new", "half", "over"}
  /\ waitErr \in {"nil", "crashed", "canceled"}
  /\ told \in {"unset", "nil", "crashed", "canceled"}
  /\ reaper \in {"wait", "hook", "close", "done"} /\ onExit \in BOOLEAN
  /\ reader \in {"reading", "draining", "ended"} /\ late \in BOOLEAN
  /\ result \in {"none", "EOF", "crashed", "canceled"}
  /\ pc \in [Closers -> {"idle", "closing", "waiting", "returned"}]

IInv == RingInv /\ ShellTypes /\ PipeInv /\ ReapInv

\* A process that has just been started, with nothing written or read.
LEMMA Initially == Init => IInv
<1> SUFFICES ASSUME Init PROVE IInv
  OBVIOUS
<1>1. RingInv
  BY RingStart DEF Init
<1>2. ShellTypes
  <2>1. /\ written \in 0 .. MaxStderr /\ output \in 0 .. MaxOutput
        /\ buffered \in 0 .. PipeSize /\ got \in Nat /\ code \in {-1, 0, 1}
    BY ShellAssumption DEF Init
  <2> QED
    BY <2>1 DEF Init, ShellTypes
<1>3. PipeInv
  BY DEF Init, PipeInv
<1>4. ReapInv
  BY DEF Init, ReapInv
<1> QED
  BY <1>1, <1>2, <1>3, <1>4 DEF IInv

\* Only a write to stderr changes the ring.
LEMMA RingKept ==
  ASSUME RingInv, UNCHANGED stderrVars
  PROVE  RingInv'
BY DEF RingInv, stderrVars, Cells

\* Every step keeps the invariant; each names what it touches.
LEMMA Step ==
  ASSUME IInv, [Next]_vars
  PROVE  IInv'
<1> USE ShellAssumption DEF IInv, childVars, stderrVars, readVars, reapVars, closeVars
<1>1. CASE WriteStdout
  <2>1. RingInv'
    BY <1>1, RingKept DEF WriteStdout
  <2> QED
    BY <1>1, <2>1 DEF WriteStdout, ShellTypes, PipeInv, ReapInv
<1>2. ASSUME NEW n \in 1 .. MaxStderr, WriteStderr(n) PROVE IInv'
  <2>1. RingInv' /\ written' = written + n
    BY <1>2, RingStep DEF WriteStderr, WriteBytes
  <2> QED
    BY <1>2, <2>1 DEF WriteStderr, ShellTypes, PipeInv, ReapInv
<1>3. ASSUME NEW c \in {-1, 0, 1}, Die(c) PROVE IInv'
  <2>1. RingInv'
    BY <1>3, RingKept DEF Die
  <2> QED
    BY <1>3, <2>1 DEF Die, ShellTypes, PipeInv, ReapInv
<1>4. CASE WaitReturns
  <2>1. RingInv'
    BY <1>4, RingKept DEF WaitReturns
  <2>2. Silent <=> code = -1 /\ written = 0
    BY SilentMeans DEF Silent
  <2> QED
    BY <1>4, <2>1, <2>2 DEF WaitReturns, ShellTypes, PipeInv, ReapInv
<1>5. CASE RunHook
  <2>1. RingInv'
    BY <1>5, RingKept DEF RunHook
  <2> QED
    BY <1>5, <2>1 DEF RunHook, ShellTypes, PipeInv, ReapInv
<1>6. CASE CloseDone
  <2>1. RingInv'
    BY <1>6, RingKept DEF CloseDone
  <2> QED
    BY <1>6, <2>1 DEF CloseDone, ShellTypes, PipeInv, ReapInv
<1>7. CASE SetOnExit
  <2>1. RingInv'
    BY <1>7, RingKept DEF SetOnExit
  <2> QED
    BY <1>7, <2>1 DEF SetOnExit, ShellTypes, PipeInv, ReapInv
<1>8. CASE ReadByte
  <2>1. RingInv'
    BY <1>8, RingKept DEF ReadByte
  <2> QED
    BY <1>8, <2>1 DEF ReadByte, ShellTypes, PipeInv, ReapInv
<1>9. CASE ReadError
  <2>1. RingInv'
    BY <1>9, RingKept DEF ReadError
  <2> QED
    BY <1>9, <2>1 DEF ReadError, ShellTypes, PipeInv, ReapInv
<1>10. ASSUME NEW timedOut \in BOOLEAN, ReadReturns(timedOut) PROVE IInv'
  <2>1. RingInv'
    BY <1>10, RingKept DEF ReadReturns
  <2> QED
    BY <1>10, <2>1 DEF ReadReturns, ShellTypes, PipeInv, ReapInv
<1>11. CASE CancelParent
  <2>1. RingInv'
    BY <1>11, RingKept DEF CancelParent
  <2> QED
    BY <1>11, <2>1 DEF CancelParent, ShellTypes, PipeInv, ReapInv
<1>12. ASSUME NEW c \in Closers, Close(c) PROVE IInv'
  <2>1. RingInv'
    BY <1>12, RingKept DEF Close
  <2>2. ShellTypes'
    <3>1. pc' \in [Closers -> {"idle", "closing", "waiting", "returned"}]
      BY <1>12 DEF Close, ShellTypes
    <3>2. cancelled' \in BOOLEAN /\ once' \in {"new", "half", "over"}
      BY <1>12 DEF Close, ShellTypes
    <3> QED
      BY <1>12, <3>1, <3>2 DEF Close, ShellTypes
  <2>3. PipeInv' /\ ReapInv'
    BY <1>12 DEF Close, ShellTypes, PipeInv, ReapInv
  <2> QED
    BY <2>1, <2>2, <2>3
<1>13. ASSUME NEW c \in Closers, CloseStdout(c) PROVE IInv'
  <2>1. RingInv'
    BY <1>13, RingKept DEF CloseStdout
  <2> QED
    BY <1>13, <2>1 DEF CloseStdout, ShellTypes, PipeInv, ReapInv
<1>14. ASSUME NEW c \in Closers, CloseReturn(c) PROVE IInv'
  <2>1. RingInv'
    BY <1>14, RingKept DEF CloseReturn
  <2> QED
    BY <1>14, <2>1 DEF CloseReturn, ShellTypes, PipeInv, ReapInv
<1>15. CASE UNCHANGED vars
  <2>1. RingInv'
    BY <1>15, RingKept DEF vars
  <2>2. ShellTypes'
    BY <1>15 DEF vars, ShellTypes
  <2>3. PipeInv' /\ ReapInv'
    BY <1>15 DEF vars, PipeInv, ReapInv
  <2> QED
    BY <2>1, <2>2, <2>3
<1>16. CASE CloseOutput
  <2>1. RingInv'
    BY <1>16, RingKept DEF CloseOutput
  <2> QED
    BY <1>16, <2>1 DEF CloseOutput, ShellTypes, PipeInv, ReapInv
<1> QED
  BY <1>1, <1>2, <1>3, <1>4, <1>5, <1>6, <1>7, <1>8, <1>9, <1>10, <1>11, <1>12, <1>13,
     <1>14, <1>15, <1>16 DEF Next, Exit, Kill, Reap, Read

LEMMA Invariance == Spec => []IInv
BY Initially, Step, PTL DEF Spec

-----------------------------------------------------------------------------
\* Every variable keeps its type, the ring's cells and head included (ringbuf.go:7-12).
THEOREM TypeCorrect == Spec => []TypeOK
<1>1. IInv => TypeOK
  <2> SUFFICES ASSUME IInv PROVE TypeOK
    OBVIOUS
  <2>1. 0 .. written \subseteq 0 .. MaxStderr
    BY ShellAssumption DEF IInv, ShellTypes
  <2>2. ring \in [buf : [Cells -> 0 .. MaxStderr], head : Cells, full : BOOLEAN]
    BY <2>1 DEF IInv, RingInv
  <2>3. got \in 0 .. MaxOutput
    BY ShellAssumption DEF IInv, ShellTypes, PipeInv
  <2> QED
    BY <2>2, <2>3 DEF IInv, ShellTypes, TypeOK
<1> QED
  BY <1>1, Invariance, PTL

\* However stderr is cut into writes, the ring's snapshot is its last Capacity
\* bytes, in order (utils.RingBuffer, ringbuf.go:21-59).
THEOREM TheTailIsKept == Spec => []TailKept
<1>1. IInv => TailKept
  BY RingKeepsTail DEF IInv
<1> QED
  BY <1>1, Invariance, PTL

\* A reader that meets the end of the stream without a Close has read all that the
\* process wrote, although it was reaped first (shell_reader.go:33-39).
THEOREM NothingIsLost == Spec => []NothingLost
<1>1. IInv => NothingLost
  BY DEF IInv, PipeInv, ShellTypes, NothingLost
<1> QED
  BY <1>1, Invariance, PTL

\* A reader in time learns that ffmpeg failed exactly when it did so other than by
\* a signal in silence (shell_reader.go:169-188 and 209-221).
THEOREM DiagnosisIsKept == Spec => []DiagnosisKept
<1>1. IInv => DiagnosisKept
  BY DEF IInv, ReapInv, ShellTypes, DiagnosisKept
<1> QED
  BY <1>1, Invariance, PTL
=============================================================================
