# gotgcall in TLA+

A verification project for gotgcall, the Go library that plays audio and video
into Telegram group calls.  The modules here are translated from the source (not
from its documentation), model-checked with TLC on small instances, and, for the
parts that matter most, proved with TLAPS for every value of their constants.

Line numbers refer to the files under `src/`.

## 1. The system

A program holds one `Client`.  It creates a call per chat, hands it a source, and
steers it (pause, mute, seek, stop).  Media flows from ffmpeg through a pipe and a
frame reader to a paced loop that writes RTP samples to a track; events flow back
through one dispatcher goroutine to the user's callbacks, which may call the API
again.

| Component | State | Operations | What makes it correct |
|---|---|---|---|
| **Client** `gotgcall.go` | `calls` and `createMu` (both `sync.Map`), `closed`, callbacks | CreateCall, StartRTMP, Connect, SetStreamSources, Stop, Close, reap; forwarding of Pause .. SeekBy | one creation per chat at a time; a call that leaves the map is stopped; nothing finds a call on its way out; Close leaves nothing running |
| **GroupCall** `instances/group_call.go` | fields under `g.mu` (source, two streamers, Streams, paused, muted, ...), atomics `closed`, `switching`, last connection state | SetSource, Pause, Resume, Mute, Unmute, SeekBy, Stop, handleStreamerEnd, onConnState | no run loop escapes control; Stop is final; the gates follow `paused`; the user's idea of the state converges; ends are reported once all is quiet |
| **Streamer** `media/streamer.go` | gate, wake-up token, context, pacing clock, stall timer | run loop, SetPaused, SetMuted, Stop | no lost wake-up; a pause takes hold; real-time pace; Stop returns and leaves silence |
| **Dispatcher** `utils/synccallback.go` | a buffered channel, `closed`, `once` | Submit, Close, loop | order; Submit never blocks; Close drains |
| **RTMPCall** `instances/rtmp_call.go` | one ffmpeg process, paused time, source | SetSource, Pause, Resume, SeekBy, Stop, exit hook | one process at a time; playback goes on where it was; its exit is told from a kill |
| **Stack** `wrtc/native/stack.go` | ICE agent, DTLS and SRTP layers, connection state, encryption buffer | Connect, Close, onAgentState, transitionTo, WriteRTP, drainInbound | Close releases the agent, whatever Connect had got to; datagrams are whole; nothing waits for ever |
| **PeerConnection, FactoryMonitor** `wrtc/peer_connection.go`, `wrtc/keepalive.go` | registered stacks, time out of Connected | Register, Unregister, tick, Close | a stack that never connects is closed; one that works is not |
| **Factories, certificate pool** `wrtc/peer_factory.go`, `wrtc/native/factory.go`, `certpool.go` | shared UDP mux, pool of certificates, SSRC counter | NewStack, Close, Take, refill | Close against creation and refill; SSRCs are distinct; a failed creation leaves nothing |
| **Track** `wrtc/native/track.go` | write stream, send-time buffer, packetizer | WriteSample, GeneratePadding, AttachWriteStream | a packet goes out as it was stamped |
| **Shell reader** `io/shell_reader.go`, `utils/ringbuf.go` | ffmpeg process, pipe, tail of stderr | Read, Close, SetOnExit, reap | Close returns and unblocks Read; no output and no diagnosis is lost |
| **Sources, transcoding, frame readers** `media/*.go` | none to speak of | ffmpeg command lines, IVF and Ogg parsing | data conversions |
| **Signalling** `wrtc/jsonparams`, `wrtc/native/{signaling,remote,keys}.go` | none | JSON to and from Telegram | data conversions |

How they interact:

- The API goroutines call the Client, which finds the call in the map and calls it
  with no lock held.  Two API goroutines may thus be inside one call, or one of
  them inside a call that another has just removed.
- A GroupCall owns two Streamers and the Streams they read from.  It stops them
  *while it holds* `g.mu`; a streamer at its end calls back into the call
  (`handleStreamerEnd`), which therefore takes no lock there but submits a closure
  to the Dispatcher; the closure takes `g.mu`.
- The connection reports its states to the call from goroutines of its own; the
  call submits the user's notification, and at Failed or Closed its own tear-down,
  to the Dispatcher.
- User callbacks run on the dispatcher's goroutine and may call any API function.
- An RTMPCall waits, with `r.mu` held, for the shell reader's reap goroutine, which
  first runs the call's exit hook; the hook takes no lock and submits.
- A connection's stack is closed by the user, by the factory's monitor, or by its
  own failed handshake, while Connect may still be assigning its layers; streamers'
  loops and the monitor's keepalive send through the same buffers meanwhile.
- All calls share one factory: the UDP socket, the pool of certificates with its
  refill goroutine, the SSRC counter and the monitor.

What is hard: unlocked tests of `closed` before a lock; work done between a copy
of a field and its use (SetSource opens ffmpeg and waits for the handshake outside
the lock); ends of streamers that arrive after the streamer was replaced; stopping
with a lock held; wake-up tokens drained as stale; timers that fire as the thing
they guard completes; removal by chat id of a call that was looked up earlier.
The full list, each at its line, is under `hazards` in `PROJECT.json`.

## 2. The modules

| Module | Models | Used by |
|---|---|---|
| `GroupCall` | the call, its streamers seen from outside, the dispatcher's queue | `MCGroupCall`, `GroupCallProofs` |
| `MCGroupCall` | the outcomes of opening each source, symmetry of the callers | the `GroupCall*.cfg` |
| `RunLoop` | abstract: what a call may assume of one streamer | `Streamer` implements it, `GroupCall` relies on it; both proved |
| `Streamer` | one streamer with its gate, timer, clock and callers | `StreamerProofs` |
| `Callbacks` | abstract: what a user may assume of the callbacks | `Dispatcher` implements it; proved |
| `Dispatcher` | the channel, Submit's three steps, Close, the loop | `DispatcherProofs` |
| `Registry` | abstract: what a user may assume of the calls of a client | `Client` implements it; proved |
| `Client` | the registry, the create mutexes, reap, Stop, Close | `ClientProofs` |
| `RTMPCall` | the call that pushes to an RTMP URL, its processes, their exit hooks | `RTMPCallProofs` |
| `RingBuffer` | the bytes of `utils.RingBuffer` | `ShellReader` |
| `ShellReader` | one ffmpeg process, its pipe, its reaper, a reader, closers | `ShellReaderProofs` |
| `SendPath` | two tracks' mutexes and buffers, and the stack's | `Stack` |
| `Stack` | one connection: Connect, Close, the agent's reports, the monitor, the senders | `StackProofs` |
| `Factory` | creation of stacks, SSRCs, certificate pool, Close | `FactoryProofs` |
| `*Proofs` | theorems about the module they are named after | |

### GroupCall

The variables are the fields of the Go struct under their own names: `src`,
`streams`, `paused`, `muted`, `endedOnce`, `had` (hadAudio, hadVideo), `closed`,
`switching`, `netState`.  `cur["audio"]` and `cur["video"]` are `g.audioStr` and
`g.videoStr`.  Pointers are numbers: the API call that opened a source gives its
number (the *cycle*) to the Streams and, with a leg, to the Streamers.  `mu` is the
writer of `g.mu`.

A critical section is one action when nothing outside can see its middle.  The
sections that stop streamers cannot be one: `Streamer.Stop` waits, with the lock
held, for a run loop that reads `closed` and `switching` without it.  They are
split into the section's entry, one `CancelStreamer` and `JoinStreamer` for each
streamer, and the rest.  SetSource has its real gaps: opening the source, the wait for
the handshake, the entry into the lock, the installation, and the deferred reset of
`switching`.  `SeekLock`, `SeekUnderflow` and `SeekRestart` are SeekBy;
`StopEnter`, `StopLock` and `StopReset` are Stop; `EndCheck`, `EndLocked`,
`StopSibling` and `CallbackReturn` are handleStreamerEnd's closure; `NetChange`,
`DownLock` and `DownDone` are onConnState and its tear-down.  Inside a user
callback (`dpc = "callback"`) the dispatcher may enter the API like any thread.

A streamer here is its place (`strPc`), its gate, its mute flag and whether it was
cancelled.  That this is all a call relies on is not taken for granted: the
property `StreamersAreRunLoops` says each is a `RunLoop`, and `Streamer` is a `RunLoop`
too; both refinements are proved.

Abstracted: positions in the media (whether a seek underflows is a choice), error
values, what a source yields (`Outcomes` gives the sets of legs each may open
with).  `Submitted` makes Dispatcher.Submit one step; its three steps are
`Dispatcher`'s.  Closed is taken as the last state of a connection, and the
swap of the state with its callback as one step (stack.go:483-504 does the two
separately; section 6 says what that hides).

### Streamer and RunLoop

One step of the loop makes at most one access to what it shares with its callers:
the gate, the one-token channel `resume`, the context, the source.  The gate's
three accesses (`drain`, `for`, `wait`) are separate, because a token that is
drained as stale between the test and the wait is the hazard.  The clock `now`
ticks up to `MaxTime`; `next` is the pacing deadline, `wokeAt` and `played` say
how much media was handed on since the loop started or left its gate.  `Stall` is
stallTimeout, `Lag` the 100 ms beyond which the deadline is reset.  A read may
yield a sample, fail, or hang until the source is closed.  Mute only decides
whether a sample is written; it is kept in GroupCall.

### Dispatcher and Callbacks

`ch` is the channel.  Submit is the send, the eviction of the oldest element, and
the second send, which may give up.  Between them others run, so an eviction may
take place although the queue is no longer full, and the new closure may be the
one that is dropped.  Close closes the channel and waits for the loop; a
send on the closed channel panics and is recovered.  A closure may itself call
Submit, and Close, on the loop's goroutine.

`Callbacks` is what is left of this for a user: callbacks run one at a time, each at
most once, those of one goroutine in the order of their submission, and none after
Close returned.  It has no channel, so it also allows any of them to be left
out.  `KeepsPromise` maps a Submit to its first step and a Close to its return.

### Client and Registry

`calls` and `createMu` are the two maps; every access to an entry is a step, since
`sync.Map` makes no more than that atomic.  A call, and a create mutex, has the
number of the creation it was made in.  `CheckEntry`, `CheckState`, `DeleteCorpse`
and `StopCall` are callIsLive; `New`, `Store`, `Params` and `Unlock` the rest of
CreateCall and StartRTMP; `Lookup`, `StopDelete` and `StopCall` are Stop; `Use`
stands for Connect and SetStreamSources returning, with an error or without;
`Reap` is reap's LoadAndDelete; `CloseEnter`, `CloseVisit` and `CloseFactory` are
Close.  What a call is inside is GroupCall's: here it is live, dead, being stopped,
or stopped.  The operations that only look a call up and forward the request
change no entry and are left out.

`Registry` has neither mutexes nor goroutines: a chat has a call or none, a call is
created where there is none, dropped, fails, begins to be stopped when it is off the map
or Close has begun, and is stopped.  `KeepsRegistry` maps a creation to its
`Store`; until then the user knows nothing of the call (`Unseen`).

### RTMPCall

The fields keep their names; `cmd` is the number of the process, `since` how long
ago `startedAt` is, and `Centuries` stands for the zero `time.Time`.  Every
operation takes `r.mu` for all it does, but one that replaces a process waits
inside for the old one to be reaped, so a section is two or three actions:
`SetSource`, `Pause`, `SeekUnderflow`, `SeekRestart` and `Stop` up to the wait;
`JoinReturn`, `StopReturn` and `JoinRestart` after it; `Spawn` and `SetHook` for the
process and, later, its hook.  `Exit`, `Reap`, `ReapSilently` and `Report` are a
process and its reap goroutine.  The flag `closed` is tested before the lock only
(`Enter`), so an operation may run in a call that Stop has been through; `revived`
remembers that it was a SetSource.  `pos` is where the listener really is,
against which the computed offsets are held.

### ShellReader and RingBuffer

The bytes of stderr are numbered in the order they are written, which makes the
content of the ring a statement about numbers; `Overwritten` and `Wrapped` are the
two branches of Write.  Output is counted: what the process wrote, what is still in
the kernel's pipe, what was read.  `WaitReturns`, `RunHook` and `CloseDone` are the
reap goroutine; `ReadByte`, `ReadError` and `ReadReturns` are Read, whose wait for
the reaper ends with a time-out (`late`) when it pleases; the end of the pipe comes when
the process exits or closes its output before that (`CloseOutput`); `Close` and `CloseStdout` are
the two halves of the `sync.Once`, which a second closer waits for.

### Stack and SendPath

`layers` is the set of fields that Connect has assigned.  Each assignment is a step,
since Close reads them with no lock.  `Topmost` is Close's switch.  `iceShut` is the
once of `onceCloseConn`; `releases` counts the closes of the agent.  The agent
reports its states through a queue, in order, as pion does from one goroutine.
PeerConnection.Close is `Unregister`, `CloseStart`, `CloseLayers` and `CloseDone`; a
state callback may call it again (`CloseDone` may lead back).  `Tick` is one poll of
the monitor: the watchdog, or at times a padding packet.

`SendPath` has what a packet goes through: its track's mutex and send-time buffer,
then the stack's mutex and encryption buffer, and the write.  Content is who stamped
it and whose it is.

### Factory

`pc` leads a creator through wrtc.Factory.newStack, native.Factory.NewStack and
native.NewStack, with the three increments of the SSRC counter apart; `close`
leads a closer through wrtc.Factory.Close.  `Refill` is the pool's goroutine with its three
selects.  The counter is taken modulo `Wrap`.

## 3. The runs

Passing runs:

| Run | What it shows |
|---|---|
| `group_call_toggles` | Two API goroutines and reentrant callbacks, all seven operations, a connection that comes up, drops and fails.  `PauseAgrees`: with `g.mu` free every installed gate equals `g.paused`.  `MirrorConverges`: the last OnUpgrade delivered tells the truth about mute and pause.  `StopIsFinal`: after Stop's section nothing is left or comes back.  `NoEarlyStart`: nothing plays before Connected.  `StreamsAccounted`: no step forgets Streams that are open, but a Resume after a natural end. |
| `group_call_legs` | An audio leg and, when the source comes up with it, a video leg, which end on their own around SetSource, SeekBy, Pause and Stop.  `NoOrphanStreamer`, `EndAfterQuiet` (OnStreamEnd finds both legs quiet), `StaleEndHarmless` (the late end of a replaced source leaves the new one, if that came up with the leg), `StreamersAreRunLoops` (refinement).  Liveness: every call returns, those made in callbacks included (`CallsReturn`), and Stop brings every run loop and every Streams to its end (`StopQuiets`). |
| `streamer` | `NoLostWakeup`, `PauseTakesHold`, `RealTimePace`, `StoppedIsQuiet`; `NeverStuck`: an open gate is passed, a Stop returns, a stuck read is ended; `ImplementsRunLoop` (refinement). |
| `dispatcher` | `KeepsPromise`: it implements `Callbacks`, so one producer's closures run in order and at most once, and none after Close; `CloseDrains`; `CallsReturn`: Submit never blocks, and Close returns. |
| `client` | `OneWinner`: creations of a chat exclude each other; `KeepsRegistry`: it implements `Registry`, so no operation finds a call on its way out; `NoCallLost`: a removed call gets stopped; `CloseSweeps`; `CallsReturn`. |
| `rtmp_call` | `OnePusher`: two processes never push at once; `StopIsFinal`; `SeekIsSilent`: the process a seek replaces is not reported; `PositionKept`: what Pause stores, Resume starts from and SeekBy adds to is where the listener is; `CallsReturn`. |
| `shell_reader` | `TailKept`: the ring holds the last bytes in order; `NothingLost`: the reader gets every byte of a process already reaped; `DiagnosisKept`: it is told of a failure; `CloseReturns`. |
| `stack` | `CloseReleases`: whatever Connect had assigned, the agent is closed when Close is through; `SendsAreWhole`; `NothingStuck`: a stack that never connects is closed by the monitor, Connect and Close return, the drain goroutine ends. |
| `factory` | `SSRCsApart`: calls share no SSRC, declared rtx included when they are created one after the other; `NothingLeft`: a failed creation and a Close leave nothing open; `CallsReturn`. |

Some of these properties except a case by name, because the code fails in it:
`StaleEndHarmless` an end of a leg the new source came up without, `StreamsAccounted`
the Resume that starts a source again after its natural end, `CloseSweeps` a creation
under way (`late`), `StopIsFinal` of RTMPCall a SetSource that waited (`revived`),
`SSRCsApart` the rtx of calls created at the same time (`overlapped`).  Each case occurs
in its run, which fails if the exception is dropped; section 6 says what happens in it.

Runs that refute a statement of the repository (each lists its line under
`findings`):

| Run | Statement | What TLC finds |
|---|---|---|
| `client_remove` | "Stop tears down the call" and errors reap "the call" (gotgcall.go:615, :554-556) | both remove whatever is listed under the chat id by then |
| `rtmp_cuts` | "Manual Stop / SetSource don't fire" OnStreamEnd (README.md:595) | the process SetSource or Pause kills is reported by its exit hook |
| `stack_watchdog` | a Disconnected connection is left to recover (group_call.go:104-106), and the monitor closes what is stuck in Connecting (keepalive.go:30-32) | after ICE has recovered the stack's state stays Disconnected, and the watchdog closes the working connection |

### Bounds, and why they are enough

- `MaxCalls = 3`, one or two threads.  A race of the call needs a call that
  installs something, one that is overtaken and one that overtakes; a callback that
  calls the API counts as the third party.  `QCap = 16` is never reached by three
  calls, so no upgrade is lost in these runs; overflow is the dispatcher run's
  question, with a buffer of two and five closures.
- One source of one leg in the toggles run (two threads, everything that can
  happen to a gate), and in the legs run (one thread, everything that can happen between
  legs) one that comes up with both legs or with audio only, so that a leg's end may
  meet a new source without that leg.  Opening any source may fail.
- Streamer: frames of 2, stall after 3, lag of 1, time up to 6: two stalls, a
  read longer than the lag, a pause longer than a frame all fit.
- Client: one chat, three creations, two goroutines: a call, the one that replaces
  it, and the one that is created as Close begins.  Chats meet only in Close, which
  visits them in any order; the invariant of `ClientProofs` is
  proved for any number of chats.
- RTMPCall: two goroutines, two processes and one unit of time: a process, its
  replacement, and an operation that waits while the other does either; the offset is
  zero or one, which tells a lost one from a kept one.  `Centuries` is beyond it.
- ShellReader: a ring of three and five bytes of stderr, cut in every way: writes that
  fit, that end at the edge, go round, and exceed the ring; a pipe smaller than
  the output; two closers.
- Stack: one user beside the monitor, which may close too; a patience of one poll;
  three changes of ICE's state: up, down, and up again or failed.
- Factory: two creations, two closers, a pool of one, so that it is empty, full, and
  refilled; a counter modulo 8 that starts so that the second creation wraps at its
  audio, its video or its skipped number, and never gives a number out twice.
- The symmetry of the toggles run permutes the API threads, which occur in no other
  constant; that run checks invariants and one action property, and no liveness.
- `CHECK_DEADLOCK FALSE` everywhere: a program that makes no more calls rests.

### Fairness

Fairness is put on steps of goroutines that have begun something, never on the
environment: nobody need call, connect, close or reach the end of a file.

- Weak fairness for a goroutine's own next step: Go's scheduler is preemptive.
- Strong fairness where a goroutine waits for a `sync.Mutex` or `sync.RWMutex`
  (neither starves a waiter), and for a loop at a `select` whose cancelled context
  is always ready (`GateCancelled`: select picks among ready cases at random).
- A read returns if its source is closed (`srcClosed /\ ReadFails`); otherwise it
  need not.  A sleep ends when its context is cancelled.
- User callbacks return in GroupCall; in Dispatcher they need not, and its
  Close is shown to return on the premise `FnsReturn`.
- A killed ffmpeg dies, and the operating system tells its reaper; one that is not
  killed may run for ever.  RTMPCall's lock is fair to its waiters, like any
  `sync.Mutex`.
- In Stack, timers fire, that is the monitor polls, and reports are delivered; the
  agent need not connect, nor anyone call Connect or Close.  A handshake ends, well or
  not, because DTLS has a limit of ten seconds; ICE's has none, which is why `Accept`
  waits for the connection or for the agent's close.
- In Factory, the generation of a key ends.
- In Client, what is asked of a call returns, which is GroupCall's `CallsReturn`.

## 4. The proofs

All theorems hold for any finite or infinite sets of goroutines, sources and chats,
and any bounds that satisfy the `ASSUME` of the module: goroutines, `Nil` and the
dispatcher are different, bounds are naturals.

**GroupCallProofs** proves `TypeCorrect` and `MutualExclusion`.  The type invariant is
not inductive: that `CancelStreamer` writes what it writes relies on where each
operation may be.  `Control` adds it: which operation is at which place, what a call
in progress carries, that a goroutine is in the stopping section exactly when it is
the writer of `g.mu`, and that the dispatcher is in the API only inside a callback
or its own tear-down.  `FnOK` keeps the closure of an end at hand.  `Base` is their
conjunction.

The safety properties come on top of `Base`, each with the strengthening that makes it
inductive:

- `NoEarlyStart` with `Early`: before the first Connected nothing is installed and a
  SetSource is no further than its wait.
- `PauseAgrees` with `GatesAgree`, which every step keeps, also with the lock taken.
- `NoOrphanStreamer` and `StopIsFinal` need more than they say (`Safe`): calls in
  progress have different numbers and their streamers did not run yet (`Fresh`, so
  that starting them cannot revive a finished loop); an end in the queue is that of a
  loop that has finished (`EndsDone`, so that taking it off the call loses nothing);
  the sibling is remembered only while it is being stopped (`Reach`); and after
  Stop's section no section that installs is under way (`Final`, which relies on the
  test of `closed` under the lock).
- `EndAfterQuiet` with `Quiet`: what is still to be told of an end is about a source
  no streamer of which can start any more (`Spent`), and none of which runs but
  the sibling being stopped.  `HasLegs` says that a call knows its legs whenever one
  could run.
- `StreamersAreRunLoops`, a refinement, with no premise: every step of the call moves a
  streamer as `RunLoop` allows or leaves it alone.  The lemmas go step by step
  (`LoopSteps`); starts rely on `Fresh`, joins on the loop being done (`Ready`).
  With `ImplementsRunLoop` of Streamer it closes the chain: what the call takes a
  streamer for is what streamer.go does.
- `StaleEndHarmless` and `StreamsAccounted`, two action properties, with no premise,
  from `Whole`: with `g.mu` free the call has either all the streamers `had` names, of
  one cycle, or none, and in the latter case it still has Streams only after a natural
  end (`endedOnce`).  The first half puts a streamer in the field that a late end is
  compared with, whatever legs the sources come up with; the second says which Streams
  a Resume can find, and so forget.  The other steps are shown to keep every cycle
  accounted for (`KeepsAccount`), the cycles that were not so before aside.
- `MirrorConverges` with `Mirrored`: the last OnUpgrade on its way or, with none on
  its way, the last one told, has the bits of the call.  It is proved of behaviours
  in which the dispatcher's buffer has room (`[]HasRoom`): a full buffer evicts the
  oldest closure and may drop the newest, by design.  The premise bounds the
  length of the queue and nothing else.

**StreamerProofs** proves the types and the four safety properties of Streamer,
and that it implements `RunLoop`.  `LateBound` ties the
count of late samples to the place of the loop; `Pacing` relates deadline, clock
and media handed on: only a sleeping loop is ahead of the clock, by one frame at most;
`StopOrder` says the first Stop closes the source before any Stop waits.

**ClientProofs** proves the types, the safety properties of Client, and that it implements
`Registry` (`KeepsRegistry`).  Its
invariant is built in layers, each using those before: the places of each operation
(`Shape`); that a creation waits for, and holds, the one mutex its chat will ever
have (`Mutexes`), from which `Alone` and `Free`, the halves of `OneWinner`; that a
creation's number is nobody else's until it is stored (`Fresh`); that a call is
listed under one chat at most (`Homes`); that a call is off the map before it is
stopped (`Unlisted`), from which `CorpseNeverListed`; and that what Close has visited
is stopped, in its hands, or stored late (`Visited`).  The refinement adds that what is
listed or in somebody's hands was made (`Known`): `Store` is then `Registry`'s creation by
`Free` and `Distinct`, the one `StopCall` that finds a call running begins its end by
`Unlisted`, and a call that fails before it is stored is a stutter.

**DispatcherProofs** proves the types, `InOrder`, `CloseDrains`, and that the dispatcher
implements `Callbacks` (`KeepsPromise`).  That a closure
runs at most once and in its producer's order needs to know where every closure is:
`Owned` says that a goroutine in Submit holds a closure of its own; `OrderInv` that what
has run comes before what waits in the channel, and both before what is about to be
sent, producer by producer, and that no closure is in two of these places.  `DrainInv`
says the loop is over only when the channel is closed and empty.  For the refinement,
`ClosedFirst` says nothing is accepted once a Close has returned, and `HeadIsDue` that
the closure at the head of the channel is one `Callbacks` may begin.

**ShellReaderProofs** proves the types, `TailKept`, `NothingLost` and `DiagnosisKept`.
`RingInv` gives the content of every cell of the ring: those before `head` hold the
newest bytes, and those from `head` on, once the ring has been full, the ones a
capacity earlier.  `PipeInv`: the output is what was read and what is in the pipe;
`ReapInv` ties the error stored to the exit code and the place of the reaper.

**StackProofs** proves the types, `CloseReleases` and `SendsAreWhole`.  `LockInv`: who
holds a mutex has its buffer; `AttachInv`: Connect assigns the connection and the
keys before it attaches the tracks, so a sender finds both; `ReleaseInv`: the wrapper
is only ever shut by closing the agent.

**RTMPCallProofs** proves the types, `OnePusher`, `SeekIsSilent`, `StopIsFinal`,
`PositionKept` and that the last OnUpgrade submitted tells the call's state
(`UpgradesAgree`).  `MuInv`: one goroutine is inside a section, that of `mu`;
`ProcInv`: a process that was started and is not done with is the call's, or the
newest, whose hook is not set yet; `SeekInv`: one that was cut for a seek has no
hook, so that its reaper is silent; `PosInv` is `PositionKept` in the middle of
the sections.

**FactoryProofs** proves the types, `NothingLeft` and `SSRCsApart`.  For the first, `Kept`
adds to the types that an agent is open exactly for a creation that still answers for it
or has handed it out (`AgentsKnown`), and what a Close has closed by where it is
(`CloseProgress`).
For the second, numbers are measured by how `Far` they are from the `seed` the counter
started at, the wrap undone.  The counter is as far as numbers were taken, and
one more if it has skipped zero (`Counted`); no number taken is ahead of it
(`Behind`), none is taken twice (`TakenOnce`), and whoever took the number after
another's video was created at the same time (`NextTaken`).  A number recurs only after
a whole turn, which `Enough` excludes: three numbers for each creation, and one more,
fit in one turn.  In the code a turn is 2^32, enough for some 1400 million calls.

Only model-checked: the liveness properties (`CallsReturn`, `StopQuiets`,
`NeverStuck`, `CloseReturns`, `NothingStuck`), since fairness and ENABLED are beyond
the prover.  Every safety invariant, action property and refinement of a passing run is
stated by a theorem.

## 5. Reading the mutants

`PROJECT.json` gives one mutant per property: a definition next to the real
one, named after it (`Recheck_Dropped` next to `Recheck`), that changes it as a
plausible slip would.  Each breaks its property, which shows the property depends
on that line of the code.

## 6. Disagreements without a run

Each of these was met while modelling, and those that the models express were seen
as counterexamples of TLC; the runs of section 3 stay outside them.

In GroupCall:

- An audio+video source is replaced by an audio-only one; the old video leg's late end
  meets a nil field, passes for "still the current one" (group_call.go:410-412, :442),
  takes the new audio streamer off and is reported: the case `StaleEndHarmless`
  excepts (`fn.str[2] \notin had`).
- A Mute while SetSource prepares its streamers misses them (group_call.go:171),
  although "Mute silences the audio track" (README.md:572).
- A new streamer that ends before `switching` is reset is never heard
  (group_call.go:426), although an overshooting seek is to be seen by the natural
  end of the stream (gotgcall.go:600-601).
- Pause and Resume after a natural end overwrite `g.streams` without closing it
  (group_call.go:337); the comment says the branch is for a source never started
  (:572-573).  The step `StreamsAccounted` excepts; in no other state and by no other
  operation are Streams forgotten.
- A SetSource past its wait installs its streamers after the tear-down of a dead
  connection (group_call.go:121), which runs once.
- A video leg that ends submits no OnUpgrade (group_call.go:459), although
  gotgcall.go:706-707 and README.md:647 say that OnUpgrade tells of it.

Elsewhere:

- Client.Close from a callback waits for the dispatcher's goroutine, on which it runs
  (synccallback.go:91), although "you can safely re-enter the API from inside"
  (README.md:624).
- Client.Close misses a call whose CreateCall was past its test of `closed`
  (gotgcall.go:426).  `CloseSweeps` is stated with this exception (`late`) and shows
  that nothing else escapes.
- A SetSource of RTMPCall that waits for `r.mu` while Stop runs starts an ffmpeg that
  nobody stops (rtmp_call.go:61); `StopIsFinal` excepts it (`revived`).
- Stack.Close between Connect's assignments of `iceConn` and `iceOnce` closes the agent
  directly; Connect then wraps it, and the failed handshake closes it a second time,
  through the wrapper that is to "collapse all paths to a single underlying close"
  (stack.go:272-282).
- A stack closed during the last steps of Connect goes from Closed to Connected
  (stack.go:334), and callIsLive (gotgcall.go:503-515) takes it for alive.  Nothing
  orders a transition's callback with that of the next one either (:484-503).
- Two creations at one time interleave their three increments of the counter, and one
  call's declared rtx is another's SSRC (native/factory.go:117-121); a video SSRC of
  2^32-1 declares an rtx of zero.
- An exit by a signal with an empty stderr is taken for our own cancellation
  (shell_reader.go:174-179), so a process that others kill in silence is not an error.
  `DiagnosisKept` is stated accordingly.

## 7. What is not modelled, and what is left

- GroupCall takes a connection's states from the environment (`NetChange`), in any order
  but with Closed last.  Stack shows they come from two goroutines; a composition
  would have to give up that order, which is the disagreement above.
- The order of state callbacks, and the numbers pion's packetizer gives to packets of
  one track from two goroutines (track.go:120, :131): the model sends whole packets and
  does not number them.
- A panic inside reap, which it recovers and stores as ErrInternal (shell_reader.go:153-157).
- The monitor polls the stacks of a snapshot it takes under its lock (keepalive.go:117-126);
  Stack polls its one stack while it is registered.  A poll that comes later closes the
  stack a second time or pads a track of a closed one, both to no effect.
- Streamer, Dispatcher and Client have an abstract specification they are proved to
  implement; the other components have theorems of invariants and of action
  properties only.  An abstract specification that RTMPCall relies on and ShellReader
  implements would be the next.

Left out for good: command lines, container and JSON parsing, key formats and
options (data conversions without protocol; a unit test reaches them), logging,
the example program, and the insides of pion's ICE, DTLS and SRTP.
