------------------------------ MODULE Factory ------------------------------
(***************************************************************************)
(* What calls share: wrtc.Factory and the native.Factory below it, which    *)
(* hand out stacks, the counter their SSRCs come from, the pool of DTLS     *)
(* certificates with the goroutine that refills it, and the close of it all *)
(* while calls are being created.  The counter's uint32 is an integer       *)
(* modulo Wrap.                                                             *)
(***************************************************************************)
EXTENDS Naturals, FiniteSets

CONSTANTS
  Creators,   \* goroutines, each creating one PeerConnection
  Closers,    \* goroutines that call Factory.Close
  PoolSize,   \* certificates the pool keeps; 0 disables it
  Wrap,       \* 2^32 in the code
  Seeds       \* what the counter may start at

ASSUME FactoryAssumption ==
  /\ PoolSize \in Nat /\ Wrap \in Nat \ {0} /\ Seeds \subseteq 0 .. Wrap - 1

VARIABLES
  outerClosed, innerClosed, \* `closed` of wrtc.Factory and of native.Factory
  poolClosed,               \* CertPool.closed is closed
  certs, refill,            \* certificates in the pool; the refill goroutine's place
  watching, muxOpen,        \* the monitor runs; the UDP socket is open
  counter,                  \* ssrcCounter
  pc,                       \* each creator's place
  audio, video,             \* the SSRCs it has allocated, or 0
  agents,                   \* creators whose ICE agent is open
  registered,               \* creators whose connection the monitor knows
  close,                    \* each closer's place
  overlapped                \* pairs of creators that allocated at one time

closedVars == <<outerClosed, innerClosed, poolClosed, watching, muxOpen, close>>
poolVars == <<certs, refill>>
ssrcVars == <<counter, audio, video, overlapped>>
vars == <<closedVars, poolVars, ssrcVars, pc, agents, registered>>

Init ==
  /\ outerClosed = FALSE /\ innerClosed = FALSE /\ poolClosed = FALSE
  /\ certs = 0 /\ refill = IF PoolSize = 0 THEN "ended" ELSE "check"
  /\ watching = TRUE /\ muxOpen = TRUE
  /\ counter \in Seeds
  /\ pc = [c \in Creators |-> "idle"]
  /\ audio = [c \in Creators |-> 0] /\ video = [c \in Creators |-> 0]
  /\ agents = {} /\ registered = {} /\ overlapped = {}
  /\ close = [c \in Closers |-> "idle"]

Go(c, from, to) == pc[c] = from /\ pc' = [pc EXCEPT ![c] = to]

(***************************************************************************)
(* CertPool                                                                *)
(***************************************************************************)
RefillGo(from, to) ==
  /\ refill = from /\ refill' = to
  /\ UNCHANGED <<closedVars, ssrcVars, pc, agents, registered>>

SendMayStop_Blocks == FALSE
SendMayStop == poolClosed

Refill ==
  \/ RefillGo("check", IF poolClosed THEN "ended" ELSE "generate") /\ UNCHANGED certs
  \/ RefillGo("generate", "send") /\ UNCHANGED certs
  \/ RefillGo("generate", "backoff") /\ UNCHANGED certs
  \/ RefillGo("backoff", "check") /\ UNCHANGED certs
  \/ poolClosed /\ RefillGo("backoff", "ended") /\ UNCHANGED certs
  \/ certs < PoolSize /\ RefillGo("send", "check") /\ certs' = certs + 1
  \/ SendMayStop /\ RefillGo("send", "ended") /\ UNCHANGED certs

(***************************************************************************)
(* NewPeerConnection                                                       *)
(***************************************************************************)
newStack(c) ==
  /\ Go(c, "idle", IF outerClosed THEN "error" ELSE "inner")
  /\ UNCHANGED <<closedVars, poolVars, ssrcVars, agents, registered>>

NewStack(c) ==
  /\ Go(c, "inner", IF innerClosed THEN "error" ELSE "take")
  /\ UNCHANGED <<closedVars, poolVars, ssrcVars, agents, registered>>

Take(c) ==
  /\ IF certs > 0 THEN Go(c, "take", "audio") /\ certs' = certs - 1
     ELSE (\E to \in {"audio", "error"} : Go(c, "take", to)) /\ UNCHANGED certs
  /\ UNCHANGED <<closedVars, refill, ssrcVars, agents, registered>>

Allocating(c) == pc[c] = "video" \/ pc[c] = "skip"

allocateSSRC(c, place, next) ==
  LET v == (counter + 1) % Wrap
  IN /\ pc[c] = place
     /\ counter' = v
     /\ pc' = [pc EXCEPT ![c] = IF v = 0 THEN place ELSE next]
     /\ overlapped' = overlapped \cup {{c, d} : d \in {e \in Creators \ {c} : Allocating(e)}}
     /\ UNCHANGED <<closedVars, poolVars, agents, registered>>

AllocateAudio(c) ==
  /\ allocateSSRC(c, "audio", "video")
  /\ audio' = [audio EXCEPT ![c] = counter'] /\ UNCHANGED video

SkipsTo_Forgotten(place) == "agent"
SkipsTo(place) == place

AllocateVideo(c) ==
  /\ allocateSSRC(c, "video", SkipsTo("skip"))
  /\ video' = [video EXCEPT ![c] = counter'] /\ UNCHANGED audio

SkipRtx(c) == allocateSSRC(c, "skip", "agent") /\ UNCHANGED <<audio, video>>

NewAgent(c) ==
  /\ \/ Go(c, "agent", "setup") /\ agents' = agents \cup {c}
     \/ Go(c, "agent", "error") /\ UNCHANGED agents
  /\ UNCHANGED <<closedVars, poolVars, ssrcVars, registered>>

Abandoned_Open(c) == agents
Abandoned(c) == agents \ {c}

SetUp(c) ==    \* credentials, hooks and the gathering of candidates
  /\ \/ Go(c, "setup", "register") /\ UNCHANGED agents
     \/ Go(c, "setup", "error") /\ agents' = Abandoned(c)
  /\ UNCHANGED <<closedVars, poolVars, ssrcVars, registered>>

Register(c) ==
  /\ Go(c, "register", "done")
  /\ registered' = registered \cup {c}
  /\ UNCHANGED <<closedVars, poolVars, ssrcVars, agents>>

Create(c) ==
  \/ newStack(c) \/ NewStack(c) \/ Take(c)
  \/ AllocateAudio(c) \/ AllocateVideo(c) \/ SkipRtx(c)
  \/ NewAgent(c) \/ SetUp(c) \/ Register(c)

(***************************************************************************)
(* Factory.Close, which the second of two callers leaves at once           *)
(***************************************************************************)
CloseGo(c, from, to) ==
  /\ close[c] = from /\ close' = [close EXCEPT ![c] = to]
  /\ UNCHANGED <<poolVars, ssrcVars, pc, agents, registered>>

CloseStart(c) ==
  /\ CloseGo(c, "idle", IF outerClosed THEN "refused" ELSE "monitor")
  /\ outerClosed' = TRUE
  /\ UNCHANGED <<innerClosed, poolClosed, watching, muxOpen>>

StopMonitor(c) ==
  /\ CloseGo(c, "monitor", "inner") /\ watching' = FALSE
  /\ UNCHANGED <<outerClosed, innerClosed, poolClosed, muxOpen>>

CloseInner(c) ==
  /\ CloseGo(c, "inner", "pool") /\ innerClosed' = TRUE
  /\ UNCHANGED <<outerClosed, poolClosed, watching, muxOpen>>

ClosePool(c) ==
  /\ CloseGo(c, "pool", "wait") /\ poolClosed' = TRUE
  /\ UNCHANGED <<outerClosed, innerClosed, watching, muxOpen>>

RefillJoined == refill = "ended"

CloseMux(c) ==
  /\ RefillJoined
  /\ CloseGo(c, "wait", "closed") /\ muxOpen' = FALSE
  /\ UNCHANGED <<outerClosed, innerClosed, poolClosed, watching>>

CloseStep(c) == StopMonitor(c) \/ CloseInner(c) \/ ClosePool(c) \/ CloseMux(c)

Next ==
  \/ Refill
  \/ \E c \in Creators : Create(c)
  \/ \E c \in Closers : CloseStart(c) \/ CloseStep(c)

Spec == Init /\ [][Next]_vars

(***************************************************************************)
(* Goroutines run; a key generation ends, well or not.                     *)
(***************************************************************************)
Fairness ==
  /\ WF_vars(Refill)
  /\ \A c \in Creators : WF_vars(pc[c] # "idle" /\ Create(c))
  /\ \A c \in Closers : WF_vars(CloseStep(c))

FairSpec == Spec /\ Fairness

TypeOK ==
  /\ {outerClosed, innerClosed, poolClosed, watching, muxOpen} \subseteq BOOLEAN
  /\ certs \in 0 .. PoolSize
  /\ refill \in {"check", "generate", "backoff", "send", "ended"}
  /\ counter \in 0 .. Wrap - 1
  /\ pc \in [Creators -> {"idle", "inner", "take", "audio", "video", "skip", "agent", "setup",
                          "register", "done", "error"}]
  /\ audio \in [Creators -> 0 .. Wrap - 1] /\ video \in [Creators -> 0 .. Wrap - 1]
  /\ agents \subseteq Creators /\ registered \subseteq Creators
  /\ overlapped \subseteq SUBSET Creators
  /\ close \in [Closers -> {"idle", "refused", "monitor", "inner", "pool", "wait", "closed"}]

(***************************************************************************)
(* The SSRCs that two calls send or declare to Telegram, the rtx partner of *)
(* the video stream included, are different, if they were not allocated at  *)
(* the same time (comment of NewStack, lines 119-120).  They are SSRCs: not *)
(* zero, except an rtx partner right at the counter's wrap.                 *)
(***************************************************************************)
Allocated(c) == pc[c] \in {"agent", "setup", "register", "done"}
Sent(c) == {audio[c], video[c]}
Declared(c) == Sent(c) \cup {(video[c] + 1) % Wrap}

SSRCsApart ==
  \A c, d \in {e \in Creators : Allocated(e)} :
    /\ 0 \notin Sent(c)
    /\ c # d => Sent(c) \cap Sent(d) = {}
    /\ c # d /\ {c, d} \notin overlapped => Declared(c) \cap Declared(d) = {}

(***************************************************************************)
(* A creation that fails leaves no ICE agent open, one that succeeds has    *)
(* its agent under the monitor's eye; and when Close is through, nothing of *)
(* the factory's own runs any more.                                         *)
(***************************************************************************)
NothingLeft ==
  /\ \A c \in Creators :
       /\ pc[c] = "error" => c \notin agents
       /\ pc[c] = "done" => c \in agents /\ c \in registered
  /\ \A c \in Closers : close[c] = "closed" => refill = "ended" /\ ~watching /\ ~muxOpen

(***************************************************************************)
(* Close returns, whether the refill goroutine generates a certificate,     *)
(* waits after a failure or is stuck on a full pool; so does every creation.*)
(***************************************************************************)
CallsReturn ==
  /\ \A c \in Closers : close[c] # "idle" ~> close[c] \in {"refused", "closed"}
  /\ \A c \in Creators : pc[c] # "idle" ~> pc[c] \in {"done", "error"}
=============================================================================
