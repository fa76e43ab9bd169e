-------------------------- MODULE DispatcherProofs --------------------------
(***************************************************************************)
(* Proofs about Dispatcher.tla, for any goroutines, any size of channel and *)
(* any number of closures.  The order of what has run is not inductive by   *)
(* itself: it holds because what waits in the channel comes after it, in    *)
(* order, and what a Submit is about to send after both.                    *)
(***************************************************************************)
EXTENDS Dispatcher, TLAPS

Submitting(p) == pc[p] \in {"send", "evict", "resend"}

\* A closure g may run after f.
After(f, g) == f # g /\ (by[f] = by[g] => f < g)

\* A goroutine in Submit holds a closure of its own, and every closure has a Submit.
Owned ==
  /\ \A p \in Procs : IF Submitting(p) THEN fn[p] \in 1 .. Len(by) /\ by[fn[p]] = p
                      ELSE fn[p] = NoFn
  /\ \A i \in 1 .. Len(ch) : ch[i] <= Len(by)
  /\ \A i \in 1 .. Len(ran) : ran[i] <= Len(by)

RanInOrder == \A i, j \in 1 .. Len(ran) : i < j => After(ran[i], ran[j])
WaitInOrder == \A i, j \in 1 .. Len(ch) : i < j => After(ch[i], ch[j])
RanBeforeWait == \A i \in 1 .. Len(ran), j \in 1 .. Len(ch) : After(ran[i], ch[j])
SentLast ==
  \A p \in Procs : Submitting(p) =>
    /\ \A i \in 1 .. Len(ran) : After(ran[i], fn[p])
    /\ \A i \in 1 .. Len(ch) : After(ch[i], fn[p])

OrderInv == RanInOrder /\ WaitInOrder /\ RanBeforeWait /\ SentLast

\* The loop ends with an empty, closed channel, and every Close waits for its end.
DrainInv ==
  /\ loopDone => ch = <<>> /\ running = NoFn /\ ~chOpen
  /\ closeReturned => loopDone

IInv == TypeOK /\ Owned /\ OrderInv /\ DrainInv

-----------------------------------------------------------------------------
\* A dispatcher is made with an empty channel and its loop waiting.
LEMMA Initially == Init => IInv
<1> SUFFICES ASSUME Init PROVE IInv
  OBVIOUS
<1> USE DispatcherAssumption DEF Init
<1>1. TypeOK
  <2>1. \A S : <<>> \in Seq(S)
    OBVIOUS
  <2>2. /\ ch \in Seq(Fns) /\ by \in Seq(Procs) /\ ran \in Seq(Fns)
        /\ Len(ch) <= Cap /\ Len(by) <= MaxFns
    BY <2>1
  <2> QED
    BY <2>2 DEF TypeOK
<1>2. Owned /\ DrainInv
  BY DEF Owned, DrainInv, Submitting
<1>3. OrderInv
  BY DEF OrderInv, RanInOrder, WaitInOrder, RanBeforeWait, SentLast, Submitting
<1> QED
  BY <1>1, <1>2, <1>3 DEF IInv

\* No step leaves the types; the channel never holds more than its buffer.
LEMMA TypeStep ==
  ASSUME TypeOK, Owned, [Next]_vars
  PROVE  TypeOK'
<1> USE DispatcherAssumption DEF vars, chanVars, closeVars, loopVars, GoTo, Return, Fns, NoFn
<1>1. ASSUME NEW p \in Procs, Submit(p) PROVE TypeOK'
  BY <1>1 DEF Submit, MayCall, TypeOK
<1>2. ASSUME NEW p \in Procs, SendPanics(p) PROVE TypeOK'
  BY <1>2 DEF SendPanics, TypeOK
<1>3. ASSUME NEW p \in Procs, Send(p) PROVE TypeOK'
  <2>1. fn[p] \in Fns
    BY <1>3 DEF Send, Owned, Submitting, TypeOK
  <2>2. ch' \in Seq(Fns) /\ Len(ch') <= Cap
    BY <1>3, <2>1 DEF Send, Put, Room, TypeOK
  <2> QED
    BY <1>3, <2>2 DEF Send, TypeOK
<1>4. ASSUME NEW p \in Procs, SendFindsFull(p) PROVE TypeOK'
  BY <1>4 DEF SendFindsFull, TypeOK
<1>5. ASSUME NEW p \in Procs, Evict(p) PROVE TypeOK'
  <2>1. ch' \in Seq(Fns) /\ Len(ch') <= Cap /\ dropped' \in SUBSET Fns
    <3>1. CASE ch = <<>>
      BY <1>5, <3>1 DEF Evict, TypeOK
    <3>2. CASE ch # <<>>
      <4>1. Head(ch) \in Fns /\ Tail(ch) \in Seq(Fns) /\ Len(Tail(ch)) <= Cap
        BY <3>2 DEF TypeOK
      <4> QED
        BY <1>5, <3>2, <4>1 DEF Evict, TypeOK
    <3> QED
      BY <3>1, <3>2
  <2> QED
    BY <1>5, <2>1 DEF Evict, TypeOK
<1>6. ASSUME NEW p \in Procs, GiveUp(p) PROVE TypeOK'
  BY <1>6 DEF GiveUp, TypeOK
<1>7. ASSUME NEW p \in Procs, CloseEnter(p) PROVE TypeOK'
  BY <1>7 DEF CloseEnter, TypeOK
<1>8. ASSUME NEW p \in Procs, CloseChannel(p) PROVE TypeOK'
  BY <1>8 DEF CloseChannel, TypeOK
<1>9. ASSUME NEW p \in Procs, CloseReturn(p) PROVE TypeOK'
  BY <1>9 DEF CloseReturn, TypeOK
<1>10. CASE Run
  <2>1. Head(ch) \in Fns /\ Tail(ch) \in Seq(Fns) /\ Len(Tail(ch)) <= Cap
    BY <1>10 DEF Run, TypeOK
  <2> QED
    BY <1>10, <2>1 DEF Run, TypeOK
<1>11. CASE FnReturn
  BY <1>11 DEF FnReturn, TypeOK
<1>12. CASE LoopEnds
  BY <1>12 DEF LoopEnds, TypeOK
<1>13. CASE UNCHANGED vars
  BY <1>13 DEF TypeOK
<1> QED
  BY <1>1, <1>2, <1>3, <1>4, <1>5, <1>6, <1>7, <1>8, <1>9, <1>10, <1>11, <1>12, <1>13
  DEF Next, SubmitStep, CloseStep

\* The end of the loop is final.
LEMMA DrainStep ==
  ASSUME TypeOK, DrainInv, [Next]_vars
  PROVE  DrainInv'
<1> USE DEF vars, chanVars, closeVars, loopVars, GoTo, Return, DrainInv
<1>1. ASSUME NEW p \in Procs, Submit(p) PROVE DrainInv'
  BY <1>1 DEF Submit
<1>2. ASSUME NEW p \in Procs, SubmitStep(p) PROVE DrainInv'
  BY <1>2 DEF SubmitStep, SendPanics, Send, SendFindsFull, Evict, GiveUp, TypeOK
<1>3. ASSUME NEW p \in Procs, CloseEnter(p) PROVE DrainInv'
  BY <1>3 DEF CloseEnter
<1>4. ASSUME NEW p \in Procs, CloseStep(p) PROVE DrainInv'
  BY <1>4 DEF CloseStep, CloseChannel, CloseReturn
<1>5. CASE Run \/ FnReturn \/ LoopEnds
  BY <1>5 DEF Run, FnReturn, LoopEnds, Drained
<1>6. CASE UNCHANGED vars
  BY <1>6
<1> QED
  BY <1>1, <1>2, <1>3, <1>4, <1>5, <1>6 DEF Next

-----------------------------------------------------------------------------
\* A new Submit comes after everything there is.
LEMMA SubmitOrder ==
  ASSUME TypeOK, Owned, OrderInv, NEW p \in Procs, Submit(p)
  PROVE  Owned' /\ OrderInv'
<1> USE DEF chanVars, closeVars, loopVars, NoFn, Fns
<1>1. /\ by \in Seq(Procs) /\ by' = Append(by, p) /\ Len(by') = Len(by) + 1
      /\ \A k \in 1 .. Len(by) : by'[k] = by[k]
      /\ by'[Len(by) + 1] = p
  BY DEF Submit, TypeOK
<1>2. /\ ch' = ch /\ ran' = ran
      /\ \A i \in 1 .. Len(ch) : ch[i] \in 1 .. Len(by)
      /\ \A i \in 1 .. Len(ran) : ran[i] \in 1 .. Len(by)
  <2>1. ch' = ch /\ ran' = ran
    BY DEF Submit
  <2>2. /\ \A i \in 1 .. Len(ch) : ch[i] \in 1 .. MaxFns
        /\ \A i \in 1 .. Len(ran) : ran[i] \in 1 .. MaxFns
    <3>1. ch \in Seq(Fns) /\ ran \in Seq(Fns)
      BY DEF TypeOK
    <3>2. \A T, q : q \in Seq(T) => \A i \in 1 .. Len(q) : q[i] \in T
      OBVIOUS
    <3> QED
      BY <3>1, <3>2
  <2>3. Len(by) \in Nat /\ MaxFns \in Nat
    BY DispatcherAssumption DEF TypeOK
  <2> QED
    BY <2>1, <2>2, <2>3 DEF Owned
<1>3. /\ fn'[p] = Len(by) + 1 /\ Submitting(p)'
      /\ \A q \in Procs \ {p} : fn'[q] = fn[q] /\ (Submitting(q)' <=> Submitting(q))
  BY DEF Submit, TypeOK, Submitting
<1>4. \A f, g \in 1 .. Len(by) : After(f, g) => After(f, g)'
  BY <1>1 DEF After
<1>5. \A f \in 1 .. Len(by) : After(f, Len(by) + 1)'
  BY <1>1 DEF After
<1>6. Owned'
  <2>1. ASSUME NEW q \in Procs
        PROVE  IF Submitting(q)' THEN fn'[q] \in 1 .. Len(by') /\ by'[fn'[q]] = q
               ELSE fn'[q] = NoFn
    <3>1. CASE q = p
      BY <1>1, <1>3, <3>1
    <3>2. CASE q # p
      BY <1>1, <1>3, <3>2 DEF Owned
    <3> QED
      BY <3>1, <3>2
  <2> QED
    BY <1>1, <1>2, <2>1 DEF Owned
<1>7. RanInOrder' /\ WaitInOrder' /\ RanBeforeWait'
  BY <1>2, <1>4 DEF OrderInv, RanInOrder, WaitInOrder, RanBeforeWait
<1>8. ASSUME NEW q \in Procs, Submitting(q)'
      PROVE  /\ \A i \in 1 .. Len(ran) : After(ran[i], fn[q])'
             /\ \A i \in 1 .. Len(ch) : After(ch[i], fn[q])'
  <2>1. CASE q = p
    <3>1. fn'[q] = Len(by) + 1
      BY <1>3, <2>1
    <3>2. \A f \in 1 .. Len(by) : After(f, fn[q])'
      BY <1>5, <3>1 DEF After
    <3>3. ASSUME NEW i \in 1 .. Len(ran) PROVE After(ran[i], fn[q])'
      BY <1>2, <3>2 DEF After
    <3>4. ASSUME NEW i \in 1 .. Len(ch) PROVE After(ch[i], fn[q])'
      BY <1>2, <3>2 DEF After
    <3> QED
      BY <3>3, <3>4
  <2>2. CASE q # p
    <3>1. Submitting(q) /\ fn'[q] = fn[q] /\ fn[q] \in 1 .. Len(by)
      BY <1>3, <1>8, <2>2 DEF Owned
    <3> QED
      BY <1>2, <1>4, <3>1 DEF OrderInv, SentLast
  <2> QED
    BY <2>1, <2>2
<1> QED
  BY <1>2, <1>6, <1>7, <1>8 DEF OrderInv, SentLast

\* What a Submit sends goes behind all that waits.
LEMMA SendOrder ==
  ASSUME TypeOK, Owned, OrderInv, NEW p \in Procs, Send(p)
  PROVE  Owned' /\ OrderInv'
<1> USE DEF loopVars, Return, NoFn
<1>1. /\ ch \in Seq(Fns) /\ ch' = Append(ch, fn[p]) /\ Len(ch') = Len(ch) + 1
      /\ \A i \in 1 .. Len(ch) : ch'[i] = ch[i]
      /\ ch'[Len(ch) + 1] = fn[p]
  BY DEF Send, Put, TypeOK
<1>2. by' = by /\ ran' = ran
  BY DEF Send
<1>3. /\ Submitting(p) /\ ~Submitting(p)' /\ fn'[p] = NoFn
      /\ \A q \in Procs \ {p} : fn'[q] = fn[q] /\ (Submitting(q)' <=> Submitting(q))
  BY DEF Send, TypeOK, Submitting
<1>4. fn[p] \in 1 .. Len(by) /\ by[fn[p]] = p
  BY <1>3 DEF Owned
<1>5. \A f, g : After(f, g)' <=> After(f, g)
  BY <1>2 DEF After
<1>6. \A i \in 1 .. Len(ch') : ch'[i] <= Len(by)
  BY <1>1, <1>4 DEF Owned, TypeOK
<1>7. \A q \in Procs : IF Submitting(q)' THEN fn'[q] \in 1 .. Len(by) /\ by[fn'[q]] = q
                       ELSE fn'[q] = NoFn
  BY <1>3 DEF Owned
<1>8. Owned'
  BY <1>2, <1>6, <1>7 DEF Owned
<1>9. RanInOrder'
  BY <1>2, <1>5 DEF OrderInv, RanInOrder
<1>10. ASSUME NEW i \in 1 .. Len(ch'), NEW j \in 1 .. Len(ch'), i < j
       PROVE  After(ch'[i], ch'[j])
  <2>1. CASE j = Len(ch) + 1
    BY <1>1, <1>3, <1>10, <2>1 DEF OrderInv, SentLast
  <2>2. CASE j # Len(ch) + 1
    BY <1>1, <1>10, <2>2 DEF OrderInv, WaitInOrder
  <2> QED
    BY <2>1, <2>2
<1>11. ASSUME NEW i \in 1 .. Len(ran), NEW j \in 1 .. Len(ch')
       PROVE  After(ran[i], ch'[j])
  <2>1. CASE j = Len(ch) + 1
    BY <1>1, <1>3, <2>1 DEF OrderInv, SentLast
  <2>2. CASE j # Len(ch) + 1
    BY <1>1, <2>2 DEF OrderInv, RanBeforeWait
  <2> QED
    BY <2>1, <2>2
<1>12. ASSUME NEW q \in Procs, Submitting(q)'
       PROVE  /\ \A i \in 1 .. Len(ran) : After(ran[i], fn'[q])
              /\ \A i \in 1 .. Len(ch') : After(ch'[i], fn'[q])
  <2>1. q # p /\ Submitting(q) /\ fn'[q] = fn[q] /\ by[fn[q]] = q
    BY <1>3, <1>12 DEF Owned
  <2>2. After(fn[p], fn[q])
    BY <1>4, <2>1 DEF After
  <2>3. ASSUME NEW i \in 1 .. Len(ch') PROVE After(ch'[i], fn[q])
    BY <1>1, <2>1, <2>2 DEF OrderInv, SentLast
  <2> QED
    BY <2>1, <2>3 DEF OrderInv, SentLast
<1> QED
  BY <1>2, <1>5, <1>8, <1>9, <1>10, <1>11, <1>12
  DEF OrderInv, WaitInOrder, RanBeforeWait, SentLast

\* The closure that is run, or dropped, is the oldest that waits.
LEMMA TakeOrder ==
  ASSUME TypeOK, Owned, OrderInv, ch # <<>>, ch' = Tail(ch), UNCHANGED by,
         ran' \in {ran, Append(ran, Head(ch))},
         \A p \in Procs : fn'[p] = fn[p] /\ (Submitting(p)' <=> Submitting(p))
  PROVE  Owned' /\ OrderInv'
<1>1. /\ ch \in Seq(Fns) /\ Len(ch') = Len(ch) - 1 /\ Len(ch) \in Nat \ {0}
      /\ \A i \in 1 .. Len(ch') : ch'[i] = ch[i + 1] /\ i + 1 \in 1 .. Len(ch)
      /\ Head(ch) = ch[1] /\ 1 \in 1 .. Len(ch)
  BY DEF TypeOK
<1>2. ran \in Seq(Fns)
  BY DEF TypeOK
<1>3. \A f, g : After(f, g)' <=> After(f, g)
  BY DEF After
<1>4. \A i \in 1 .. Len(ch') : After(ch[1], ch'[i])
  BY <1>1 DEF OrderInv, WaitInOrder
<1>5. \A i \in 1 .. Len(ran') :
        \/ i \in 1 .. Len(ran) /\ ran'[i] = ran[i]
        \/ i = Len(ran) + 1 /\ ran'[i] = ch[1]
  BY <1>1, <1>2
<1>6. Owned'
  BY <1>1, <1>5 DEF Owned
<1>7. ASSUME NEW i \in 1 .. Len(ran'), NEW j \in 1 .. Len(ran'), i < j
      PROVE  After(ran'[i], ran'[j])
  <2>1. i \in 1 .. Len(ran) /\ ran'[i] = ran[i]
    BY <1>2, <1>5, <1>7
  <2>2. CASE j \in 1 .. Len(ran) /\ ran'[j] = ran[j]
    BY <1>7, <2>1, <2>2 DEF OrderInv, RanInOrder
  <2>3. CASE ran'[j] = ch[1]
    BY <1>1, <2>1, <2>3 DEF OrderInv, RanBeforeWait
  <2> QED
    BY <1>5, <2>2, <2>3
<1>8. ASSUME NEW i \in 1 .. Len(ch'), NEW j \in 1 .. Len(ch'), i < j
      PROVE  After(ch'[i], ch'[j])
  BY <1>1, <1>8 DEF OrderInv, WaitInOrder
<1>9. ASSUME NEW i \in 1 .. Len(ran'), NEW j \in 1 .. Len(ch')
      PROVE  After(ran'[i], ch'[j])
  BY <1>1, <1>4, <1>5 DEF OrderInv, RanBeforeWait
<1>10. ASSUME NEW p \in Procs, Submitting(p)
       PROVE  /\ \A i \in 1 .. Len(ran') : After(ran'[i], fn[p])
              /\ \A i \in 1 .. Len(ch') : After(ch'[i], fn[p])
  BY <1>1, <1>5, <1>10 DEF OrderInv, SentLast
<1> QED
  BY <1>3, <1>6, <1>7, <1>8, <1>9, <1>10
  DEF OrderInv, RanInOrder, WaitInOrder, RanBeforeWait, SentLast

\* Whatever leaves the channel and what has run alone, and lets nobody begin to send,
\* leaves the order alone.
LEMMA OtherOrder ==
  ASSUME Owned, OrderInv, UNCHANGED <<ch, ran, by>>,
         \A p \in Procs : IF Submitting(p)' THEN Submitting(p) /\ fn'[p] = fn[p]
                          ELSE fn'[p] = NoFn
  PROVE  Owned' /\ OrderInv'
<1>1. \A f, g : After(f, g)' <=> After(f, g)
  BY DEF After
<1>2. Owned'
  BY DEF Owned
<1> QED
  BY <1>1, <1>2 DEF OrderInv, RanInOrder, WaitInOrder, RanBeforeWait, SentLast

LEMMA OrderStep ==
  ASSUME TypeOK, Owned, OrderInv, [Next]_vars
  PROVE  Owned' /\ OrderInv'
<1> DEFINE Goal == Owned' /\ OrderInv'
<1> USE DEF vars, chanVars, closeVars, loopVars, GoTo, Return
<1>1. ASSUME NEW p \in Procs, Submit(p) PROVE Goal
  BY <1>1, SubmitOrder
<1>2. ASSUME NEW p \in Procs, SendPanics(p) \/ GiveUp(p) PROVE Goal
  BY <1>2, OtherOrder DEF SendPanics, GiveUp, Submitting, Owned, TypeOK
<1>3. ASSUME NEW p \in Procs, Send(p) PROVE Goal
  BY <1>3, SendOrder
<1>4. ASSUME NEW p \in Procs, SendFindsFull(p) PROVE Goal
  BY <1>4, OtherOrder DEF SendFindsFull, Submitting, Owned, TypeOK
<1>5. ASSUME NEW p \in Procs, Evict(p) PROVE Goal
  <2>1. \A q \in Procs : fn'[q] = fn[q] /\ (Submitting(q)' <=> Submitting(q))
    BY <1>5 DEF Evict, Submitting, TypeOK
  <2>2. CASE ch = <<>>
    BY <1>5, <2>1, <2>2, OtherOrder DEF Evict, Owned
  <2>3. CASE ch # <<>>
    BY <1>5, <2>1, <2>3, TakeOrder DEF Evict
  <2> QED
    BY <2>2, <2>3
<1>6. ASSUME NEW p \in Procs, CloseEnter(p) PROVE Goal
  BY <1>6, OtherOrder DEF CloseEnter, MayCall, Submitting, Owned, TypeOK
<1>7. ASSUME NEW p \in Procs, CloseStep(p) PROVE Goal
  BY <1>7, OtherOrder DEF CloseStep, CloseChannel, CloseReturn, Submitting, Owned, TypeOK
<1>8. CASE Run
  BY <1>8, TakeOrder DEF Run, Submitting
<1>9. CASE FnReturn \/ LoopEnds
  BY <1>9, OtherOrder DEF FnReturn, LoopEnds, Submitting, Owned
<1>10. CASE UNCHANGED vars
  BY <1>10, OtherOrder DEF Submitting, Owned
<1> QED
  BY <1>1, <1>2, <1>3, <1>4, <1>5, <1>6, <1>7, <1>8, <1>9, <1>10 DEF Next, SubmitStep

LEMMA Invariance == Spec => []IInv
<1>1. IInv /\ [Next]_vars => IInv'
  BY TypeStep, DrainStep, OrderStep DEF IInv
<1> QED
  BY <1>1, Initially, PTL DEF Spec

-----------------------------------------------------------------------------
\* Every variable keeps its type, and the channel its bound (synccallback.go's buffer).
THEOREM TypeCorrect == Spec => []TypeOK
BY Invariance, PTL DEF IInv

\* What one goroutine submits runs in its order and at most once, for any channel
\* and any number of goroutines (synccallback.go, Submit and the loop).
THEOREM RunsInOrder == Spec => []InOrder
<1>1. IInv => InOrder
  BY DEF IInv, OrderInv, RanInOrder, After, InOrder
<1> QED
  BY <1>1, Invariance, PTL

\* When a Close has returned nothing waits and nothing runs (synccallback.go, Close).
THEOREM ClosedIsDrained == Spec => []CloseDrains
<1>1. IInv => CloseDrains
  BY DEF IInv, DrainInv, CloseDrains
<1> QED
  BY <1>1, Invariance, PTL

-----------------------------------------------------------------------------
(* The refinement.                                                         *)

\* Nothing is submitted any more when the channel is closed.
ClosedFirst ==
  /\ \A p \in Procs : pc[p] = "close" => closed
  /\ ~chOpen => closed

\* `closed` is closed before the channel is.
LEMMA ClosedFirstStep ==
  ASSUME TypeOK, ClosedFirst, [Next]_vars
  PROVE  ClosedFirst'
<1> USE DEF vars, chanVars, closeVars, loopVars, GoTo, Return, ClosedFirst, TypeOK
<1>1. ASSUME NEW p \in Procs, Submit(p) \/ SubmitStep(p) PROVE ClosedFirst'
  BY <1>1 DEF Submit, SubmitStep, SendPanics, Send, SendFindsFull, Evict, GiveUp
<1>2. ASSUME NEW p \in Procs, CloseEnter(p) PROVE ClosedFirst'
  BY <1>2 DEF CloseEnter
<1>3. ASSUME NEW p \in Procs, CloseStep(p) PROVE ClosedFirst'
  BY <1>3 DEF CloseStep, CloseChannel, CloseReturn
<1>4. CASE Run \/ FnReturn \/ LoopEnds \/ UNCHANGED vars
  BY <1>4 DEF Run, FnReturn, LoopEnds
<1> QED
  BY <1>1, <1>2, <1>3, <1>4 DEF Next

\* A closure at the head of the channel is due: what ran comes before it.
LEMMA HeadIsDue ==
  ASSUME TypeOK, Owned, OrderInv, ch # <<>>
  PROVE  Head(ch) \in 1 .. Len(by) /\ Promise!Due(Head(ch))
<1>1. 1 \in 1 .. Len(ch) /\ Head(ch) = ch[1] /\ ch[1] \in Fns
  BY DEF TypeOK
<1>2. Head(ch) \in 1 .. Len(by)
  BY <1>1 DEF Owned, TypeOK, Fns
<1>3. \A i \in 1 .. Len(ran) : After(ran[i], Head(ch))
  BY <1>1 DEF OrderInv, RanBeforeWait
<1> QED
  BY <1>2, <1>3 DEF Promise!Due, After

\* Every step is one the callbacks' user was promised, or does not show.
LEMMA PromiseSteps ==
  ASSUME IInv, ClosedFirst, [Next]_vars
  PROVE  [Promise!Next]_(Promise!cbVars)
<1> DEFINE Goal == [Promise!Next]_(Promise!cbVars)
<1> USE DEF vars, chanVars, closeVars, loopVars, Promise!cbVars
<1>1. ASSUME NEW p \in Procs, Submit(p) PROVE Goal
  <2>1. ~closeReturned
    BY <1>1 DEF Submit, IInv, DrainInv, ClosedFirst
  <2>2. Promise!Submit(p)
    BY <1>1, <2>1 DEF Submit, Promise!Submit
  <2> QED
    BY <2>2 DEF Promise!Next
<1>2. ASSUME NEW p \in Procs, SubmitStep(p) PROVE Goal
  BY <1>2 DEF SubmitStep, SendPanics, Send, SendFindsFull, Evict, GiveUp
<1>3. ASSUME NEW p \in Procs, CloseEnter(p) \/ CloseChannel(p) PROVE Goal
  BY <1>3 DEF CloseEnter, CloseChannel
<1>4. ASSUME NEW p \in Procs, CloseReturn(p) PROVE Goal
  <2>1. running = NoFn
    BY <1>4 DEF CloseReturn, IInv, DrainInv
  <2>2. Promise!Close
    BY <1>4, <2>1 DEF CloseReturn, Promise!Close, Promise!Nothing, NoFn
  <2> QED
    BY <2>2 DEF Promise!Next
<1>5. CASE Run
  <2>1. Head(ch) \in 1 .. Len(by) /\ Promise!Due(Head(ch))
    BY <1>5, HeadIsDue DEF Run, IInv
  <2>2. ~closeReturned
    BY <1>5 DEF Run, IInv, DrainInv
  <2>3. Promise!Begin(Head(ch))
    BY <1>5, <2>1, <2>2 DEF Run, Promise!Begin, Promise!Nothing, NoFn
  <2> QED
    BY <2>1, <2>3 DEF Promise!Next
<1>6. CASE FnReturn
  <2>1. Promise!End
    BY <1>6 DEF FnReturn, Promise!End, Promise!Nothing, NoFn
  <2> QED
    BY <2>1 DEF Promise!Next
<1>7. CASE LoopEnds \/ UNCHANGED vars
  BY <1>7 DEF LoopEnds
<1> QED
  BY <1>1, <1>2, <1>3, <1>4, <1>5, <1>6, <1>7 DEF Next, CloseStep

\* The dispatcher keeps the promise of Callbacks: one at a time, at most once, in each
\* goroutine's order, none after Close (synccallback.go).
THEOREM PromiseIsKept == Spec => KeepsPromise
<1>1. Init => ClosedFirst /\ Promise!Init
  BY DEF Init, ClosedFirst, Promise!Init, Promise!Nothing, NoFn
<1>2. IInv /\ ClosedFirst /\ [Next]_vars => ClosedFirst'
  BY ClosedFirstStep DEF IInv
<1>3. IInv /\ ClosedFirst /\ [Next]_vars => [Promise!Next]_(Promise!cbVars)
  BY PromiseSteps
<1> QED
  BY <1>1, <1>2, <1>3, Invariance, PTL DEF Spec, KeepsPromise, Promise!Spec

=============================================================================
