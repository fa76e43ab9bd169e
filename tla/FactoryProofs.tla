----------------------------- MODULE FactoryProofs -----------------------------
(***************************************************************************)
(* Theorems about Factory, for every number of goroutines, every pool size *)
(* and every width of the SSRC counter.                                    *)
(***************************************************************************)
EXTENDS Factory, FiniteSetTheorems, TLAPS

-----------------------------------------------------------------------------
(* What is left behind.                                                    *)

\* Agents are open from NewAgent to a failing set-up, or for good; only a
\* creation that is done has registered.
AgentsKnown ==
  /\ agents = {c \in Creators : pc[c] \in {"setup", "register", "done"}}
  /\ registered = {c \in Creators : pc[c] = "done"}

\* How far a Close has come shows in what it has closed.
CloseProgress ==
  \A c \in Closers :
    /\ close[c] \in {"inner", "pool", "wait", "closed"} => ~watching
    /\ close[c] \in {"wait", "closed"} => poolClosed
    /\ close[c] = "closed" => refill = "ended" /\ ~muxOpen

Kept == TypeOK /\ AgentsKnown /\ CloseProgress

\* A new factory has no creators at work and nothing closed.
LEMMA KeptInit == Init => Kept
<1> SUFFICES ASSUME Init PROVE Kept
  OBVIOUS
<1>1. 0 \in 0 .. PoolSize /\ 0 \in 0 .. Wrap - 1 /\ counter \in 0 .. Wrap - 1
  BY FactoryAssumption DEF Init
<1>2. TypeOK
  BY <1>1 DEF Init, TypeOK
<1>3. AgentsKnown /\ CloseProgress
  BY DEF Init, AgentsKnown, CloseProgress
<1> QED
  BY <1>2, <1>3 DEF Kept

\* The refill goroutine touches the pool only, and never comes back once ended.
LEMMA RefillKeeps == Kept /\ Refill => Kept'
<1> SUFFICES ASSUME Kept, Refill PROVE Kept'
  OBVIOUS
<1>1. /\ UNCHANGED <<closedVars, ssrcVars, pc, agents, registered>>
      /\ refill # "ended"
      /\ refill' \in {"check", "generate", "backoff", "send", "ended"}
  BY DEF Refill, RefillGo
<1>2. certs' \in 0 .. PoolSize
  BY FactoryAssumption DEF Refill, Kept, TypeOK
<1>3. TypeOK'
  BY <1>1, <1>2 DEF Kept, TypeOK, closedVars, ssrcVars
<1> QED
  BY <1>1, <1>3 DEF Kept, AgentsKnown, CloseProgress, closedVars

\* An allocation leaves the counter and both SSRCs within the width, and pairs
\* of creators in `overlapped`.
LEMMA AllocationTypes ==
  ASSUME TypeOK, NEW c \in Creators, NEW place, NEW next, allocateSSRC(c, place, next)
  PROVE  counter' \in 0 .. Wrap - 1 /\ overlapped' \subseteq SUBSET Creators
<1>1. (counter + 1) % Wrap \in 0 .. Wrap - 1
  BY FactoryAssumption DEF TypeOK
<1> QED
  BY <1>1 DEF allocateSSRC, TypeOK

\* A creation moves on, gives up or is done with its own agent only.
LEMMA CreateKeeps == ASSUME Kept, NEW c \in Creators, Create(c) PROVE Kept'
<1> DEFINE Places == {"idle", "inner", "take", "audio", "video", "skip", "agent", "setup",
                      "register", "done", "error"}
<1>1. ASSUME NEW from \in Places, NEW to \in Places, Go(c, from, to),
             UNCHANGED <<closedVars, refill, ssrcVars>>, certs' \in 0 .. PoolSize,
             agents' \subseteq Creators, registered' \subseteq Creators
      PROVE  TypeOK' /\ CloseProgress'
  BY <1>1 DEF Go, Kept, TypeOK, CloseProgress, closedVars, ssrcVars
<1>2. ASSUME NEW from \in Places \ {"setup", "register", "done"},
             NEW to \in Places \ {"setup", "register", "done"}, Go(c, from, to),
             UNCHANGED <<agents, registered>>
      PROVE  AgentsKnown'
  BY <1>2 DEF Go, Kept, TypeOK, AgentsKnown
<1>3. CASE newStack(c) \/ NewStack(c)
  BY <1>1, <1>2, <1>3 DEF newStack, NewStack, Kept, TypeOK, poolVars
<1>4. CASE Take(c)
  <2>1. certs' \in 0 .. PoolSize
    BY <1>4, FactoryAssumption DEF Take, Kept, TypeOK
  <2> QED
    BY <1>1, <1>2, <1>4, <2>1 DEF Take, Kept, TypeOK
<1>5. ASSUME NEW place \in {"audio", "video", "skip"}, NEW next \in {"video", "skip", "agent"},
             allocateSSRC(c, place, next),
             UNCHANGED audio \/ audio' = [audio EXCEPT ![c] = counter'],
             UNCHANGED video \/ video' = [video EXCEPT ![c] = counter']
      PROVE  Kept'
  <2>1. counter' \in 0 .. Wrap - 1 /\ overlapped' \subseteq SUBSET Creators
    BY <1>5, AllocationTypes DEF Kept
  <2>2. /\ UNCHANGED <<closedVars, poolVars, agents, registered>>
        /\ \E p \in {place, next} : Go(c, place, p)
    BY <1>5 DEF allocateSSRC, Go
  <2>3. audio' \in [Creators -> 0 .. Wrap - 1] /\ video' \in [Creators -> 0 .. Wrap - 1]
    BY <1>5, <2>1 DEF Kept, TypeOK
  <2>4. TypeOK'
    <3>1. pc' \in [Creators -> Places]
      BY <2>2 DEF Go, Kept, TypeOK
    <3> QED
      BY <2>1, <2>2, <2>3, <3>1 DEF Kept, TypeOK, closedVars, poolVars
  <2>5. AgentsKnown'
    BY <1>2, <2>2
  <2> QED
    BY <2>2, <2>4, <2>5 DEF Kept, CloseProgress, closedVars, poolVars
<1>6. CASE AllocateAudio(c) \/ AllocateVideo(c) \/ SkipRtx(c)
  BY <1>5, <1>6 DEF AllocateAudio, AllocateVideo, SkipRtx, SkipsTo
<1>7. CASE NewAgent(c) \/ SetUp(c) \/ Register(c)
  <2>1. TypeOK' /\ CloseProgress'
    BY <1>1, <1>7 DEF NewAgent, SetUp, Register, Abandoned, Kept, TypeOK, poolVars
  <2>2. AgentsKnown'
    BY <1>7 DEF NewAgent, SetUp, Register, Abandoned, Go, Kept, TypeOK, AgentsKnown
  <2> QED
    BY <2>1, <2>2 DEF Kept
<1> QED
  BY <1>3, <1>4, <1>6, <1>7 DEF Create

\* Close sets each flag before it goes on, and clears none.
LEMMA CloseKeeps ==
  ASSUME Kept, NEW c \in Closers, CloseStart(c) \/ CloseStep(c) PROVE Kept'
<1>1. UNCHANGED <<poolVars, ssrcVars, pc, agents, registered>>
  BY DEF CloseStart, CloseStep, StopMonitor, CloseInner, ClosePool, CloseMux, CloseGo
<1>2. TypeOK'
  BY <1>1 DEF Kept, TypeOK, poolVars, ssrcVars, CloseStart, CloseStep, StopMonitor,
    CloseInner, ClosePool, CloseMux, CloseGo
<1>3. CloseProgress'
  BY <1>1 DEF Kept, TypeOK, poolVars, CloseProgress, CloseStart, CloseStep, StopMonitor,
    CloseInner, ClosePool, CloseMux, CloseGo, RefillJoined
<1> QED
  BY <1>1, <1>2, <1>3 DEF Kept, AgentsKnown

\* Every step keeps the types and the accounts.
LEMMA KeptStep == Kept /\ [Next]_vars => Kept'
<1> SUFFICES ASSUME Kept, [Next]_vars PROVE Kept'
  OBVIOUS
<1>1. CASE UNCHANGED vars
  BY <1>1 DEF vars, closedVars, poolVars, ssrcVars, Kept, TypeOK, AgentsKnown, CloseProgress
<1> QED
  BY <1>1, RefillKeeps, CreateKeeps, CloseKeeps DEF Next

\* They hold in every state.
LEMMA KeptInvariant == Spec => []Kept
BY KeptInit, KeptStep, PTL DEF Spec

\* Every variable of the factory keeps its type.
THEOREM TypeCorrect == Spec => []TypeOK
BY KeptInvariant, PTL DEF Kept

\* A creation that fails closes the agent it opened, one that succeeds is watched,
\* and a Close that is through has ended the refill goroutine, the monitor and the
\* mux: for every number of creations that meet it, wherever they are.
THEOREM NothingLeftHolds == Spec => []NothingLeft
<1>1. Kept => NothingLeft
  BY DEF Kept, AgentsKnown, CloseProgress, NothingLeft
<1> QED
  BY <1>1, KeptInvariant, PTL

-----------------------------------------------------------------------------
(* SSRCs.  A counter that starts at `seed` and has moved at most once round *)
(* its width gives every number once.  Its values are compared by how far   *)
(* they are from the seed.                                                  *)

Far(seed, v) == IF v >= seed THEN v - seed ELSE v + Wrap - seed

\* The counter's next value, as NextSSRC computes it in a uint32.
LEMMA NextValue ==
  ASSUME NEW v \in 0 .. Wrap - 1
  PROVE  (v + 1) % Wrap = IF v = Wrap - 1 THEN 0 ELSE v + 1
<1>1. Wrap \in Nat /\ Wrap > 0 /\ v \in Nat /\ v < Wrap
  BY FactoryAssumption
<1>2. CASE v = Wrap - 1
  BY <1>1, <1>2
<1>3. CASE v # Wrap - 1
  BY <1>1, <1>3
<1> QED
  BY <1>2, <1>3

\* One step takes the counter one further from the seed, until it is back there.
LEMMA NextIsFarther ==
  ASSUME NEW seed \in 0 .. Wrap - 1, NEW v \in 0 .. Wrap - 1, Far(seed, v) + 1 < Wrap
  PROVE  /\ Far(seed, (v + 1) % Wrap) = Far(seed, v) + 1
         /\ (v + 1) % Wrap = 0 => v >= seed /\ seed > 0
         /\ (v + 1) % Wrap # 0 => ((v + 1) % Wrap < seed <=> v < seed)
<1>1. Wrap \in Nat /\ seed \in Nat /\ v \in Nat /\ seed < Wrap /\ v < Wrap
  BY FactoryAssumption
<1>2. CASE v = Wrap - 1
  <2>1. (v + 1) % Wrap = 0
    BY <1>2, NextValue
  <2> QED
    BY <1>1, <1>2, <2>1 DEF Far
<1>3. CASE v # Wrap - 1
  <2>1. (v + 1) % Wrap = v + 1
    BY <1>3, NextValue
  <2> QED
    BY <1>1, <1>3, <2>1 DEF Far
<1> QED
  BY <1>2, <1>3

\* Different values are at different distances.
LEMMA FarApart ==
  ASSUME NEW seed \in 0 .. Wrap - 1, NEW v \in 0 .. Wrap - 1
  PROVE  /\ Far(seed, v) \in 0 .. Wrap - 1
         /\ \A w \in 0 .. Wrap - 1 : Far(seed, v) = Far(seed, w) => v = w
BY FactoryAssumption DEF Far

\* The creators that have taken a number for their audio, for their video, and
\* for the video's rtx partner.
HasAudio == {c \in Creators : audio[c] # 0}
HasVideo == {c \in Creators : video[c] # 0}
HasRtx == {c \in HasVideo : pc[c] # "skip"}

\* Which of them a creator has taken where.
TakenByPlace ==
  \A c \in Creators :
    /\ pc[c] \in {"idle", "inner", "take", "audio"} => audio[c] = 0 /\ video[c] = 0
    /\ pc[c] = "video" => audio[c] # 0 /\ video[c] = 0
    /\ pc[c] = "skip" \/ Allocated(c) => audio[c] # 0 /\ video[c] # 0

\* The counter has moved once for each number taken, and once past zero.
Counted(seed) ==
  Far(seed, counter) = Cardinality(HasAudio) + Cardinality(HasVideo) + Cardinality(HasRtx)
                         + IF counter < seed THEN 1 ELSE 0

\* No number taken is ahead of the counter, and one whose rtx partner is taken
\* is behind it.
Behind(seed) ==
  /\ \A c \in HasAudio : Far(seed, audio[c]) <= Far(seed, counter)
  /\ \A c \in HasVideo : Far(seed, video[c]) <= Far(seed, counter)
  /\ \A c \in HasRtx : Far(seed, video[c]) < Far(seed, counter)

\* No number is taken twice.
TakenOnce ==
  /\ \A c, d \in HasAudio : c # d => audio[c] # audio[d]
  /\ \A c, d \in HasVideo : c # d => video[c] # video[d]
  /\ \A c \in HasAudio, d \in HasVideo : audio[c] # video[d]

\* Whoever took the number after another's video number met it allocating.
NextTaken(seed) ==
  \A c \in HasVideo : \A d \in Creators \ {c} :
    \/ d \in HasAudio /\ Far(seed, audio[d]) = Far(seed, video[c]) + 1
    \/ d \in HasVideo /\ Far(seed, video[d]) = Far(seed, video[c]) + 1
    => {c, d} \in overlapped

Line(seed) == Counted(seed) /\ Behind(seed) /\ TakenOnce /\ NextTaken(seed)

\* The counter's width is enough for the numbers every creator takes: in the code
\* about 1400 million calls.
Enough == IsFiniteSet(Creators) /\ 3 * Cardinality(Creators) + 1 < Wrap

\* Whatever has been taken so far, three numbers a creator bound it.
LEMMA TakenCounts ==
  ASSUME Enough
  PROVE  /\ \A S \in SUBSET Creators :
              IsFiniteSet(S) /\ Cardinality(S) \in Nat /\ Cardinality(S) <= Cardinality(Creators)
         /\ \A S \in SUBSET Creators : \A c \in Creators \ S :
              /\ Cardinality(S \cup {c}) = Cardinality(S) + 1
              /\ Cardinality(S) + 1 <= Cardinality(Creators)
         /\ Cardinality(Creators) \in Nat
<1>1. ASSUME NEW S \in SUBSET Creators
      PROVE  IsFiniteSet(S) /\ Cardinality(S) \in Nat /\ Cardinality(S) <= Cardinality(Creators)
  BY <1>1, FS_Subset, FS_CardinalityType DEF Enough
<1>2. ASSUME NEW S \in SUBSET Creators, NEW c \in Creators \ S
      PROVE  /\ Cardinality(S \cup {c}) = Cardinality(S) + 1
             /\ Cardinality(S) + 1 <= Cardinality(Creators)
  <2>1. Cardinality(S \cup {c}) = Cardinality(S) + 1
    BY <1>1, <1>2, FS_AddElement
  <2>2. S \cup {c} \in SUBSET Creators
    OBVIOUS
  <2> QED
    BY <1>1, <2>1, <2>2
<1> QED
  BY <1>1, <1>2, FS_CardinalityType DEF Enough

\* An allocation while numbers are left takes the counter one further; it has
\* gone past zero after it if it had before, or is at zero now.
LEMMA AllocationAdvances ==
  ASSUME TypeOK, Enough, NEW seed \in 0 .. Wrap - 1, Counted(seed),
         NEW c \in Creators, NEW place, NEW next, allocateSSRC(c, place, next),
         c \notin HasAudio \/ c \notin HasVideo \/ c \notin HasRtx
  PROVE  /\ counter' \in 0 .. Wrap - 1 /\ Far(seed, counter) \in Nat
         /\ Far(seed, counter') = Far(seed, counter) + 1
         /\ counter' = 0 => ~(counter < seed) /\ counter' < seed
         /\ counter' # 0 => (counter' < seed <=> counter < seed)
<1>1. HasAudio \in SUBSET Creators /\ HasVideo \in SUBSET Creators /\ HasRtx \in SUBSET Creators
  BY DEF HasAudio, HasVideo, HasRtx
<1>2. Cardinality(HasAudio) + Cardinality(HasVideo) + Cardinality(HasRtx)
        < 3 * Cardinality(Creators)
  <2> DEFINE a == Cardinality(HasAudio)
             v == Cardinality(HasVideo)
             r == Cardinality(HasRtx)
             n == Cardinality(Creators)
  <2>1. a \in Nat /\ v \in Nat /\ r \in Nat /\ n \in Nat /\ a <= n /\ v <= n /\ r <= n
    BY <1>1, TakenCounts
  <2>2. a + 1 <= n \/ v + 1 <= n \/ r + 1 <= n
    <3>1. c \in Creators \ HasAudio \/ c \in Creators \ HasVideo \/ c \in Creators \ HasRtx
      OBVIOUS
    <3> QED
      BY <1>1, <3>1, TakenCounts
  <2> HIDE DEF a, v, r, n
  <2>3. a + v + r < 3 * n
    BY <2>1, <2>2
  <2> QED
    BY <2>3 DEF a, v, r, n
<1>3. counter \in 0 .. Wrap - 1 /\ counter' = (counter + 1) % Wrap /\ counter' \in 0 .. Wrap - 1
  BY AllocationTypes DEF TypeOK, allocateSSRC
<1>4. Far(seed, counter) \in Nat /\ Far(seed, counter) + 1 < Wrap
  <2>1. Far(seed, counter) \in Nat
    <3>1. Far(seed, counter) \in 0 .. Wrap - 1
      BY <1>3, FarApart
    <3> QED
      BY <3>1
  <2> QED
    BY <1>1, <1>2, <2>1, TakenCounts, FactoryAssumption DEF Counted, Enough
<1>5. counter' = 0 => counter >= seed /\ seed > 0
  BY <1>3, <1>4, NextIsFarther
<1>6. /\ Far(seed, counter') = Far(seed, counter) + 1
      /\ counter' # 0 => (counter' < seed <=> counter < seed)
  BY <1>3, <1>4, NextIsFarther
<1> QED
  BY <1>3, <1>4, <1>5, <1>6, FactoryAssumption

\* Numbers behind the counter stay behind it, and stay different, when it moves
\* on past zero, which nobody keeps.
LEMMA LinePastZero ==
  ASSUME TypeOK, NEW seed \in 0 .. Wrap - 1, Line(seed),
         UNCHANGED <<HasAudio, HasVideo, HasRtx>>,
         \A c \in Creators : audio'[c] = audio[c] /\ video'[c] = video[c],
         overlapped \subseteq overlapped',
         counter' \in 0 .. Wrap - 1 /\ Far(seed, counter) \in Nat,
         Far(seed, counter') = Far(seed, counter) + 1,
         ~(counter < seed) /\ counter' < seed,
         Cardinality(HasAudio) \in Nat /\ Cardinality(HasVideo) \in Nat
           /\ Cardinality(HasRtx) \in Nat
  PROVE  Line(seed)'
<1>1. Counted(seed)'
  BY DEF Line, Counted
<1>2. \A c \in Creators : Far(seed, audio[c]) \in Nat /\ Far(seed, video[c]) \in Nat
  BY FarApart, FactoryAssumption DEF TypeOK
<1>3. Behind(seed)'
  <2>1. /\ \A c \in HasAudio : Far(seed, audio[c]) <= Far(seed, counter)
        /\ \A c \in HasVideo : Far(seed, video[c]) <= Far(seed, counter)
        /\ \A c \in HasRtx : Far(seed, video[c]) < Far(seed, counter)
    BY DEF Line, Behind
  <2>2. \A c \in Creators : /\ Far(seed, audio'[c]) = Far(seed, audio[c])
                            /\ Far(seed, video'[c]) = Far(seed, video[c])
    OBVIOUS
  <2>3. HasAudio \subseteq Creators /\ HasVideo \subseteq Creators /\ HasRtx \subseteq Creators
    BY DEF HasAudio, HasVideo, HasRtx
  <2>4. /\ \A c \in HasAudio : Far(seed, audio'[c]) <= Far(seed, counter')
        /\ \A c \in HasVideo : Far(seed, video'[c]) <= Far(seed, counter')
        /\ \A c \in HasRtx : Far(seed, video'[c]) < Far(seed, counter')
    BY <1>2, <2>1, <2>2, <2>3
  <2> QED
    BY <2>4 DEF Behind
<1>4. TakenOnce'
  BY DEF Line, TakenOnce, HasAudio, HasVideo
<1>5. NextTaken(seed)'
  <2>1. ASSUME NEW c \in HasVideo, NEW d \in Creators \ {c},
               \/ d \in HasAudio /\ Far(seed, audio'[d]) = Far(seed, video'[c]) + 1
               \/ d \in HasVideo /\ Far(seed, video'[d]) = Far(seed, video'[c]) + 1
        PROVE  {c, d} \in overlapped'
    <3>1. c \in Creators /\ audio'[d] = audio[d] /\ video'[d] = video[d] /\ video'[c] = video[c]
      BY DEF HasVideo
    <3> QED
      BY <2>1, <3>1 DEF Line, NextTaken
  <2> QED
    BY <2>1 DEF NextTaken
<1> QED
  BY <1>1, <1>3, <1>4, <1>5 DEF Line

\* Taking a number for audio: it is ahead of every number taken before, and next
\* to a video number only if that one's creator is still at its rtx partner.
LEMMA LineAudio ==
  ASSUME TypeOK, TakenByPlace, Enough, NEW seed \in 0 .. Wrap - 1, Line(seed),
         NEW c \in Creators, AllocateAudio(c)
  PROVE  Line(seed)'
<1>1. allocateSSRC(c, "audio", "video") /\ pc[c] = "audio" /\ audio[c] = 0 /\ video[c] = 0
  BY DEF AllocateAudio, allocateSSRC, TakenByPlace
<1>2. /\ counter' \in 0 .. Wrap - 1 /\ Far(seed, counter) \in Nat
      /\ Far(seed, counter') = Far(seed, counter) + 1
      /\ counter' = 0 => ~(counter < seed) /\ counter' < seed
      /\ counter' # 0 => (counter' < seed <=> counter < seed)
  BY <1>1, AllocationAdvances DEF Line, HasAudio
<1>3. /\ audio' = [audio EXCEPT ![c] = counter'] /\ video' = video
      /\ pc' = [pc EXCEPT ![c] = IF counter' = 0 THEN "audio" ELSE "video"]
      /\ overlapped' = overlapped \cup {{c, d} : d \in {e \in Creators \ {c} : Allocating(e)}}
  BY <1>1 DEF AllocateAudio, allocateSSRC
<1>4. /\ HasAudio \in SUBSET Creators /\ HasVideo \in SUBSET Creators /\ HasRtx \in SUBSET Creators
      /\ c \notin HasAudio /\ c \notin HasVideo
      /\ HasVideo' = HasVideo /\ HasRtx' = HasRtx
  BY <1>1, <1>3 DEF HasAudio, HasVideo, HasRtx, TypeOK
<1>5. /\ Cardinality(HasAudio) \in Nat /\ Cardinality(HasVideo) \in Nat /\ Cardinality(HasRtx) \in Nat
      /\ Cardinality(HasAudio \cup {c}) = Cardinality(HasAudio) + 1
  BY <1>4, TakenCounts
<1>6. \A d \in Creators : Far(seed, audio[d]) \in Nat /\ Far(seed, video[d]) \in Nat
  BY FarApart, FactoryAssumption DEF TypeOK
<1>7. CASE counter' = 0
  <2>1. \A d \in Creators : audio'[d] = audio[d] /\ video'[d] = video[d]
    BY <1>1, <1>3, <1>7 DEF TypeOK
  <2>2. HasAudio' = HasAudio
    BY <2>1 DEF HasAudio
  <2> QED
    BY <1>2, <1>3, <1>4, <1>5, <1>7, <2>1, <2>2, LinePastZero
<1>8. CASE counter' # 0
  <2>1. /\ audio'[c] = counter' /\ \A d \in Creators \ {c} : audio'[d] = audio[d]
        /\ \A d \in Creators : video'[d] = video[d]
    BY <1>3 DEF TypeOK
  <2>2. HasAudio' = HasAudio \cup {c}
    BY <1>8, <2>1 DEF HasAudio
  <2>3. Counted(seed)'
    BY <1>2, <1>4, <1>5, <1>8, <2>2 DEF Line, Counted
  <2>4. /\ \A d \in HasAudio : Far(seed, audio'[d]) < Far(seed, counter')
        /\ \A d \in HasVideo : Far(seed, video'[d]) < Far(seed, counter')
        /\ \A d \in HasRtx : Far(seed, video'[d]) + 1 < Far(seed, counter')
    BY <1>2, <1>4, <1>6, <2>1 DEF Line, Behind
  <2>5. Behind(seed)'
    BY <1>2, <1>4, <1>6, <2>1, <2>2, <2>4 DEF Behind
  <2>6. TakenOnce'
    <3>1. /\ \A d \in HasAudio : audio'[d] # counter'
          /\ \A d \in HasVideo : video'[d] # counter'
      BY <1>2, <1>4, <1>6, <2>1, <2>4
    <3> QED
      BY <1>4, <2>1, <2>2, <3>1 DEF Line, TakenOnce
  <2>7. ASSUME NEW e \in HasVideo', NEW d \in Creators \ {e},
               \/ d \in HasAudio' /\ Far(seed, audio'[d]) = Far(seed, video'[e]) + 1
               \/ d \in HasVideo' /\ Far(seed, video'[d]) = Far(seed, video'[e]) + 1
        PROVE  {e, d} \in overlapped'
    <3>1. e \in HasVideo /\ e \in Creators /\ e # c
      BY <1>4, <2>7
    <3>2. CASE d # c \/ d \in HasVideo
      BY <1>3, <1>4, <2>1, <2>2, <2>7, <3>1, <3>2 DEF Line, NextTaken
    <3>3. CASE d = c
      <4>1. Far(seed, counter') = Far(seed, video'[e]) + 1
        BY <1>4, <2>1, <2>7, <3>3
      <4>2. e \notin HasRtx
        BY <1>2, <1>6, <2>1, <2>4, <3>1, <4>1
      <4>3. Allocating(e)
        BY <3>1, <4>2 DEF HasRtx, Allocating
      <4>4. {c, e} \in {{c, f} : f \in {g \in Creators \ {c} : Allocating(g)}}
        BY <3>1, <4>3
      <4>5. {c, e} = {e, d}
        BY <3>3
      <4> QED
        BY <1>3, <4>4, <4>5
    <3> QED
      BY <3>2, <3>3
  <2>8. NextTaken(seed)'
    BY <2>7 DEF NextTaken
  <2> QED
    BY <2>3, <2>5, <2>6, <2>8 DEF Line
<1> QED
  BY <1>7, <1>8

\* Taking a number for video: the same, and its own rtx partner is still free.
LEMMA LineVideo ==
  ASSUME TypeOK, TakenByPlace, Enough, NEW seed \in 0 .. Wrap - 1, Line(seed),
         NEW c \in Creators, AllocateVideo(c)
  PROVE  Line(seed)'
<1>1. allocateSSRC(c, "video", "skip") /\ pc[c] = "video" /\ audio[c] # 0 /\ video[c] = 0
  BY DEF AllocateVideo, SkipsTo, allocateSSRC, TakenByPlace
<1>2. /\ counter' \in 0 .. Wrap - 1 /\ Far(seed, counter) \in Nat
      /\ Far(seed, counter') = Far(seed, counter) + 1
      /\ counter' = 0 => ~(counter < seed) /\ counter' < seed
      /\ counter' # 0 => (counter' < seed <=> counter < seed)
  BY <1>1, AllocationAdvances DEF Line, HasVideo
<1>3. /\ video' = [video EXCEPT ![c] = counter'] /\ audio' = audio
      /\ pc' = [pc EXCEPT ![c] = IF counter' = 0 THEN "video" ELSE "skip"]
      /\ overlapped' = overlapped \cup {{c, d} : d \in {e \in Creators \ {c} : Allocating(e)}}
  BY <1>1 DEF AllocateVideo, allocateSSRC
<1>4. /\ HasAudio \in SUBSET Creators /\ HasVideo \in SUBSET Creators /\ HasRtx \in SUBSET Creators
      /\ c \notin HasVideo /\ HasAudio' = HasAudio
  BY <1>1, <1>3 DEF HasAudio, HasVideo, HasRtx
<1>5. /\ Cardinality(HasAudio) \in Nat /\ Cardinality(HasVideo) \in Nat /\ Cardinality(HasRtx) \in Nat
      /\ Cardinality(HasVideo \cup {c}) = Cardinality(HasVideo) + 1
  BY <1>4, TakenCounts
<1>6. \A d \in Creators : Far(seed, audio[d]) \in Nat /\ Far(seed, video[d]) \in Nat
  BY FarApart, FactoryAssumption DEF TypeOK
<1>7. CASE counter' = 0
  <2>1. \A d \in Creators : audio'[d] = audio[d] /\ video'[d] = video[d] /\ pc'[d] = pc[d]
    BY <1>1, <1>3, <1>7 DEF TypeOK
  <2>2. HasVideo' = HasVideo /\ HasRtx' = HasRtx
    BY <2>1 DEF HasVideo, HasRtx
  <2> QED
    BY <1>2, <1>3, <1>4, <1>5, <1>7, <2>1, <2>2, LinePastZero
<1>8. CASE counter' # 0
  <2>1. /\ video'[c] = counter' /\ \A d \in Creators \ {c} : video'[d] = video[d] /\ pc'[d] = pc[d]
        /\ \A d \in Creators : audio'[d] = audio[d]
        /\ pc'[c] = "skip"
    BY <1>3, <1>8 DEF TypeOK
  <2>2. HasVideo' = HasVideo \cup {c} /\ HasRtx' = HasRtx
    BY <1>1, <1>8, <2>1 DEF HasVideo, HasRtx
  <2>3. Counted(seed)'
    BY <1>2, <1>4, <1>5, <1>8, <2>2 DEF Line, Counted
  <2>4. /\ \A d \in HasAudio : Far(seed, audio'[d]) < Far(seed, counter')
        /\ \A d \in HasVideo : Far(seed, video'[d]) < Far(seed, counter')
        /\ \A d \in HasRtx : Far(seed, video'[d]) + 1 < Far(seed, counter')
    BY <1>2, <1>4, <1>6, <2>1 DEF Line, Behind, HasRtx
  <2>5. Behind(seed)'
    BY <1>2, <1>4, <1>6, <2>1, <2>2, <2>4 DEF Behind, HasRtx
  <2>6. TakenOnce'
    <3>1. /\ \A d \in HasAudio : audio'[d] # counter'
          /\ \A d \in HasVideo : video'[d] # counter'
      BY <1>2, <1>4, <1>6, <2>1, <2>4
    <3> QED
      BY <1>4, <2>1, <2>2, <3>1 DEF Line, TakenOnce
  <2>7. ASSUME NEW e \in HasVideo', NEW d \in Creators \ {e},
               \/ d \in HasAudio' /\ Far(seed, audio'[d]) = Far(seed, video'[e]) + 1
               \/ d \in HasVideo' /\ Far(seed, video'[d]) = Far(seed, video'[e]) + 1
        PROVE  {e, d} \in overlapped'
    <3>1. e # c
      <4>1. Far(seed, counter') \in Nat
        BY <1>2
      <4>2. \A f \in HasAudio' : Far(seed, audio'[f]) < Far(seed, counter')
        BY <1>4, <2>4
      <4>3. \A f \in HasVideo' \ {c} : Far(seed, video'[f]) < Far(seed, counter')
        BY <2>2, <2>4
      <4>4. e = c /\ d \in HasVideo' => d \in HasVideo' \ {c}
        OBVIOUS
      <4> QED
        BY <2>1, <2>7, <4>1, <4>2, <4>3, <4>4
    <3>2. e \in HasVideo /\ e \in Creators /\ video'[e] = video[e]
      BY <1>4, <2>1, <2>2, <3>1
    <3>3. CASE d # c \/ (d \in HasAudio /\ Far(seed, audio[d]) = Far(seed, video[e]) + 1)
      BY <1>3, <1>4, <2>1, <2>2, <2>7, <3>2, <3>3 DEF Line, NextTaken
    <3>4. CASE d = c /\ Far(seed, counter') = Far(seed, video[e]) + 1
      <4>1. e \notin HasRtx
        BY <1>2, <1>6, <2>4, <3>2, <3>4
      <4>2. Allocating(e)
        BY <3>2, <4>1 DEF HasRtx, Allocating
      <4>3. {c, e} \in {{c, f} : f \in {g \in Creators \ {c} : Allocating(g)}}
        BY <3>1, <3>2, <4>2
      <4>4. {c, e} = {e, d}
        BY <3>4
      <4> QED
        BY <1>3, <4>3, <4>4
    <3> QED
      BY <1>4, <2>1, <2>7, <3>2, <3>3, <3>4
  <2>8. NextTaken(seed)'
    BY <2>7 DEF NextTaken
  <2> QED
    BY <2>3, <2>5, <2>6, <2>8 DEF Line
<1> QED
  BY <1>7, <1>8

\* Skipping the rtx partner moves the counter past it.
LEMMA LineRtx ==
  ASSUME TypeOK, TakenByPlace, Enough, NEW seed \in 0 .. Wrap - 1, Line(seed),
         NEW c \in Creators, SkipRtx(c)
  PROVE  Line(seed)'
<1>1. /\ allocateSSRC(c, "skip", "agent") /\ pc[c] = "skip" /\ video[c] # 0
      /\ audio' = audio /\ video' = video
  BY DEF SkipRtx, allocateSSRC, TakenByPlace
<1>2. /\ counter' \in 0 .. Wrap - 1 /\ Far(seed, counter) \in Nat
      /\ Far(seed, counter') = Far(seed, counter) + 1
      /\ counter' = 0 => ~(counter < seed) /\ counter' < seed
      /\ counter' # 0 => (counter' < seed <=> counter < seed)
  BY <1>1, AllocationAdvances DEF Line, HasRtx
<1>3. /\ pc' = [pc EXCEPT ![c] = IF counter' = 0 THEN "skip" ELSE "agent"]
      /\ overlapped \subseteq overlapped'
  BY <1>1 DEF allocateSSRC
<1>4. /\ HasAudio \in SUBSET Creators /\ HasVideo \in SUBSET Creators /\ HasRtx \in SUBSET Creators
      /\ c \notin HasRtx /\ c \in HasVideo /\ HasAudio' = HasAudio /\ HasVideo' = HasVideo
  BY <1>1 DEF HasAudio, HasVideo, HasRtx
<1>5. /\ Cardinality(HasAudio) \in Nat /\ Cardinality(HasVideo) \in Nat /\ Cardinality(HasRtx) \in Nat
      /\ Cardinality(HasRtx \cup {c}) = Cardinality(HasRtx) + 1
  BY <1>4, TakenCounts
<1>6. CASE counter' = 0
  <2>1. HasRtx' = HasRtx
    <3>1. pc' = pc
      BY <1>1, <1>3, <1>6 DEF TypeOK
    <3> QED
      BY <1>1, <3>1 DEF HasRtx, HasVideo
  <2> QED
    BY <1>1, <1>2, <1>3, <1>4, <1>5, <1>6, <2>1, LinePastZero
<1>7. CASE counter' # 0
  <2>1. HasRtx' = HasRtx \cup {c}
    <3>1. pc'[c] = "agent" /\ \A d \in Creators \ {c} : pc'[d] = pc[d]
      BY <1>3, <1>7 DEF TypeOK
    <3> QED
      BY <1>1, <1>4, <3>1 DEF HasRtx
  <2>2. Counted(seed)'
    BY <1>2, <1>4, <1>5, <1>7, <2>1 DEF Line, Counted
  <2>3. Behind(seed)'
    <3>1. \A d \in Creators : Far(seed, audio[d]) \in Nat /\ Far(seed, video[d]) \in Nat
      BY FarApart, FactoryAssumption DEF TypeOK
    <3> QED
      BY <1>1, <1>2, <1>4, <2>1, <3>1 DEF Line, Behind
  <2>4. TakenOnce' /\ NextTaken(seed)'
    BY <1>1, <1>3, <1>4 DEF Line, TakenOnce, NextTaken
  <2> QED
    BY <2>2, <2>3, <2>4 DEF Line
<1> QED
  BY <1>6, <1>7

\* What a creator has taken follows from its place at every step.
LEMMA TakenByPlaceStep == Kept /\ TakenByPlace /\ [Next]_vars => TakenByPlace'
<1> SUFFICES ASSUME Kept, TakenByPlace, [Next]_vars PROVE TakenByPlace'
  OBVIOUS
<1>1. CASE UNCHANGED <<pc, audio, video>>
  BY <1>1 DEF TakenByPlace, Allocated
<1>2. ASSUME NEW c \in Creators, NEW from, NEW to, Go(c, from, to), UNCHANGED <<audio, video>>,
             \/ from \in {"idle", "inner"} /\ to \in {"inner", "take", "error"}
             \/ from = "take" /\ to \in {"audio", "error"}
             \/ from \in {"agent", "setup", "register"} /\ to \in {"setup", "register", "done", "error"}
      PROVE  TakenByPlace'
  BY <1>2 DEF Go, Kept, TypeOK, TakenByPlace, Allocated
<1>3. ASSUME NEW c \in Creators, newStack(c) \/ NewStack(c) \/ Take(c) \/ NewAgent(c) \/ SetUp(c)
                                   \/ Register(c)
      PROVE  TakenByPlace'
  BY <1>2, <1>3 DEF newStack, NewStack, Take, NewAgent, SetUp, Register, ssrcVars
<1>4. ASSUME NEW c \in Creators, AllocateAudio(c) PROVE TakenByPlace'
  BY <1>4 DEF AllocateAudio, allocateSSRC, Kept, TypeOK, TakenByPlace, Allocated
<1>5. ASSUME NEW c \in Creators, AllocateVideo(c) PROVE TakenByPlace'
  BY <1>5 DEF AllocateVideo, SkipsTo, allocateSSRC, Kept, TypeOK, TakenByPlace, Allocated
<1>6. ASSUME NEW c \in Creators, SkipRtx(c) PROVE TakenByPlace'
  BY <1>6 DEF SkipRtx, allocateSSRC, Kept, TypeOK, TakenByPlace, Allocated
<1>7. CASE Refill \/ \E c \in Closers : CloseStart(c) \/ CloseStep(c)
  BY <1>1, <1>7 DEF Refill, RefillGo, CloseStart, CloseStep, StopMonitor, CloseInner, ClosePool,
    CloseMux, CloseGo, ssrcVars
<1> QED
  BY <1>1, <1>3, <1>4, <1>5, <1>6, <1>7 DEF Next, Create, vars, ssrcVars

\* No other step touches the counter, a number taken, or who is past `skip`.
LEMMA LineStep ==
  ASSUME Kept, TakenByPlace, Enough, NEW seed \in 0 .. Wrap - 1, Line(seed), [Next]_vars
  PROVE  Line(seed)'
<1>1. ASSUME UNCHANGED ssrcVars, HasRtx' = HasRtx PROVE Line(seed)'
  <2>1. HasAudio' = HasAudio /\ HasVideo' = HasVideo
    BY <1>1 DEF HasAudio, HasVideo, ssrcVars
  <2> QED
    BY <1>1, <2>1 DEF Line, Counted, Behind, TakenOnce, NextTaken, ssrcVars
<1>2. ASSUME NEW c \in Creators, newStack(c) \/ NewStack(c) \/ Take(c) \/ NewAgent(c) \/ SetUp(c)
                                   \/ Register(c)
      PROVE  Line(seed)'
  <2>1. /\ UNCHANGED ssrcVars
        /\ \E from, to : Go(c, from, to) /\ from # "skip" /\ to # "skip"
    BY <1>2 DEF newStack, NewStack, Take, NewAgent, SetUp, Register
  <2>2. HasRtx' = HasRtx
    BY <2>1 DEF Go, Kept, TypeOK, HasRtx, HasVideo, ssrcVars
  <2> QED
    BY <1>1, <2>1, <2>2
<1>3. CASE UNCHANGED <<ssrcVars, pc>>
  BY <1>1, <1>3 DEF HasRtx, HasVideo, ssrcVars
<1>4. CASE Refill \/ \E c \in Closers : CloseStart(c) \/ CloseStep(c)
  BY <1>3, <1>4 DEF Refill, RefillGo, CloseStart, CloseStep, StopMonitor, CloseInner, ClosePool,
    CloseMux, CloseGo
<1>5. CASE UNCHANGED vars
  BY <1>3, <1>5 DEF vars
<1> QED
  BY <1>2, <1>4, <1>5, LineAudio, LineVideo, LineRtx DEF Next, Create, Kept

\* A counter that starts anywhere starts a line there.
LEMMA LineInit ==
  ASSUME Enough, Init
  PROVE  TakenByPlace /\ \E seed \in 0 .. Wrap - 1 : Line(seed)
<1>1. counter \in 0 .. Wrap - 1 /\ \A c \in Creators : audio[c] = 0 /\ video[c] = 0 /\ pc[c] = "idle"
  BY FactoryAssumption DEF Init
<1>2. TakenByPlace
  BY <1>1 DEF TakenByPlace, Allocated
<1>3. HasAudio = {} /\ HasVideo = {} /\ HasRtx = {}
  BY <1>1 DEF HasAudio, HasVideo, HasRtx
<1>4. Counted(counter)
  BY <1>1, <1>3, FS_EmptySet DEF Counted, Far
<1>5. Line(counter)
  BY <1>3, <1>4 DEF Line, Behind, TakenOnce, NextTaken
<1> QED
  BY <1>1, <1>2, <1>5

\* Numbers on a line are apart as the property says.
LEMMA LineApart ==
  ASSUME Kept, TakenByPlace, Enough, NEW seed \in 0 .. Wrap - 1, Line(seed)
  PROVE  SSRCsApart
<1>1. \A c \in Creators : /\ Far(seed, audio[c]) \in Nat /\ Far(seed, video[c]) \in Nat
                          /\ audio[c] \in 0 .. Wrap - 1 /\ video[c] \in 0 .. Wrap - 1
  BY FarApart, FactoryAssumption DEF Kept, TypeOK
<1>2. Far(seed, counter) \in 0 .. Wrap - 1
  BY FarApart DEF Kept, TypeOK
<1>3. ASSUME NEW c \in Creators, Allocated(c)
      PROVE  /\ audio[c] # 0 /\ video[c] # 0 /\ c \in HasAudio /\ c \in HasVideo /\ c \in HasRtx
             /\ Far(seed, (video[c] + 1) % Wrap) = Far(seed, video[c]) + 1
  <2>1. audio[c] # 0 /\ video[c] # 0 /\ c \in HasAudio /\ c \in HasVideo /\ c \in HasRtx
    BY <1>3 DEF TakenByPlace, Allocated, HasAudio, HasVideo, HasRtx
  <2>2. Far(seed, video[c]) + 1 < Wrap
    BY <1>1, <1>2, <2>1, FactoryAssumption DEF Line, Behind
  <2> QED
    BY <1>1, <2>1, <2>2, NextIsFarther
<1>4. ASSUME NEW c \in Creators, NEW d \in Creators, Allocated(c), Allocated(d), c # d
      PROVE  /\ Sent(c) \cap Sent(d) = {}
             /\ {c, d} \notin overlapped => (video[c] + 1) % Wrap \notin Declared(d)
  <2>1. audio[c] # audio[d] /\ video[c] # video[d] /\ audio[c] # video[d] /\ video[c] # audio[d]
    BY <1>3, <1>4 DEF Line, TakenOnce
  <2>2. {c, d} \notin overlapped =>
           /\ Far(seed, audio[d]) # Far(seed, video[c]) + 1
           /\ Far(seed, video[d]) # Far(seed, video[c]) + 1
    BY <1>3, <1>4 DEF Line, NextTaken
  <2>3. Far(seed, video[c]) # Far(seed, video[d])
    BY <1>1, <2>1, FarApart
  <2>4. (video[c] + 1) % Wrap # (video[d] + 1) % Wrap
    BY <1>1, <1>3, <1>4, <2>3
  <2> QED
    BY <1>3, <1>4, <2>1, <2>2, <2>4 DEF Sent, Declared
<1>5. \A c, d : {c, d} = {d, c}
  OBVIOUS
<1>6. ASSUME NEW c \in Creators, NEW d \in Creators, Allocated(c), Allocated(d), c # d,
             {c, d} \notin overlapped
      PROVE  Declared(c) \cap Declared(d) = {}
  <2>1. /\ Sent(c) \cap Sent(d) = {}
        /\ (video[c] + 1) % Wrap \notin Declared(d) /\ (video[d] + 1) % Wrap \notin Declared(c)
    BY <1>4, <1>5, <1>6
  <2> QED
    BY <2>1 DEF Declared
<1> QED
  BY <1>3, <1>4, <1>6 DEF SSRCsApart, Sent

\* Two calls never send with one SSRC, and a call that was not being created at
\* the same time declares none of another's, rtx partners included, wherever the
\* counter starts and whether or not it wraps, as long as its width is enough for
\* all calls.
THEOREM SSRCsApartHolds ==
  ASSUME Enough
  PROVE  Spec => []SSRCsApart
<1> DEFINE Inv == Kept /\ TakenByPlace /\ \E seed \in 0 .. Wrap - 1 : Line(seed)
<1>1. Init => Inv
  BY KeptInit, LineInit
<1>2. Inv /\ [Next]_vars => Inv'
  <2> SUFFICES ASSUME Inv, [Next]_vars PROVE Inv'
    OBVIOUS
  <2>1. PICK seed \in 0 .. Wrap - 1 : Line(seed)
    OBVIOUS
  <2>2. Line(seed)'
    BY <2>1, LineStep
  <2>3. Kept' /\ TakenByPlace'
    BY KeptStep, TakenByPlaceStep
  <2> QED
    BY <2>2, <2>3
<1>3. Inv => SSRCsApart
  BY LineApart
<1> QED
  BY <1>1, <1>2, <1>3, PTL DEF Spec

=============================================================================
