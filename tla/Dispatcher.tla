----------------------------- MODULE Dispatcher -----------------------------
(***************************************************************************)
(* utils.Dispatcher: one goroutine runs the submitted closures one at a    *)
(* time, in the order of its channel; Submit never blocks and makes room by *)
(* dropping the oldest closure; Close lets the loop drain the channel and  *)
(* waits for it.  GroupCall.tla takes a Submit for one step; here its three *)
(* channel operations interleave with those of others, with the loop and   *)
(* with Close.  A closure may itself call Submit and Close (as a user      *)
(* callback that calls Client.Close does), on the loop's goroutine.        *)
(***************************************************************************)
EXTENDS Naturals, Sequences, FiniteSets

CONSTANTS
  Producers,  \* the goroutines outside that call Submit and Close
  Loop,       \* the dispatcher's goroutine
  Closers,    \* the goroutines that call Close
  Cap,        \* the channel's buffer size
  MaxFns      \* bound: closures submitted in one behaviour

Procs == Producers \cup {Loop}

ASSUME DispatcherAssumption ==
  /\ Loop \notin Producers /\ Closers \subseteq Procs
  /\ Cap \in Nat \ {0} /\ MaxFns \in Nat

Fns == 1 .. MaxFns      \* a closure is the number of the Submit it came with
NoFn == 0

VARIABLES
  ch, chOpen,      \* d.ch
  closed,          \* d.closed has been closed
  once,            \* d.once: "new", "busy" or "done"
  pc, fn,          \* where each goroutine is in Submit or Close, and its closure
  running,         \* the closure the loop is in, or NoFn
  loopDone,        \* wg.Done() was called
  by,              \* who submitted each closure so far
  ran, dropped,    \* the closures begun, in order; those dropped from the channel
  closeReturned    \* some Close has returned

chanVars == <<ch, chOpen>>
closeVars == <<closed, once, closeReturned>>
loopVars == <<running, loopDone, ran>>
vars == <<chanVars, closeVars, pc, fn, loopVars, by, dropped>>

Init ==
  /\ ch = <<>> /\ chOpen = TRUE
  /\ closed = FALSE /\ once = "new" /\ closeReturned = FALSE
  /\ pc = [p \in Procs |-> "idle"] /\ fn = [p \in Procs |-> NoFn]
  /\ running = NoFn /\ loopDone = FALSE /\ ran = <<>>
  /\ by = <<>> /\ dropped = {}

-----------------------------------------------------------------------------
\* The loop's goroutine calls only from inside a closure.
MayCall(p) == pc[p] = "idle" /\ (p = Loop => running # NoFn)

GoTo(p, place) == pc' = [pc EXCEPT ![p] = place] /\ UNCHANGED fn

\* Submit returns; its closure is in the channel or given up.
Return(p) ==
  /\ pc' = [pc EXCEPT ![p] = "idle"]
  /\ fn' = [fn EXCEPT ![p] = NoFn]

\* Submit's first select: after Close it does nothing.
Submit(p) ==
  /\ MayCall(p) /\ ~closed /\ Len(by) < MaxFns
  /\ by' = Append(by, p)
  /\ pc' = [pc EXCEPT ![p] = "send"]
  /\ fn' = [fn EXCEPT ![p] = Len(by) + 1]
  /\ UNCHANGED <<chanVars, closeVars, loopVars, dropped>>

Put_AtFront(q, f) == <<f>> \o q
Put(q, f) == Append(q, f)

Room == Len(ch) < Cap

\* A send on the closed channel panics, and Submit recovers.
SendPanics(p) ==
  /\ pc[p] \in {"send", "resend"} /\ ~chOpen
  /\ Return(p)
  /\ UNCHANGED <<chanVars, closeVars, loopVars, by, dropped>>

Send(p) ==
  /\ pc[p] \in {"send", "resend"} /\ chOpen
  /\ Room
  /\ ch' = Put(ch, fn[p])
  /\ Return(p)
  /\ UNCHANGED <<chOpen, closeVars, loopVars, by, dropped>>

SendFindsFull(p) ==
  /\ pc[p] = "send" /\ chOpen /\ ~Room
  /\ GoTo(p, "evict")
  /\ UNCHANGED <<chanVars, closeVars, loopVars, by, dropped>>

\* Take the oldest closure out, if there still is one.
Evict(p) ==
  /\ pc[p] = "evict"
  /\ GoTo(p, "resend")
  /\ IF ch = <<>>
       THEN UNCHANGED <<ch, dropped>>
       ELSE ch' = Tail(ch) /\ dropped' = dropped \cup {Head(ch)}
  /\ UNCHANGED <<chOpen, closeVars, loopVars, by>>

MayGiveUp_Never == FALSE
MayGiveUp == TRUE

\* Another Submit took the room: the new closure is dropped.
GiveUp(p) ==
  /\ pc[p] = "resend" /\ chOpen /\ ~Room
  /\ MayGiveUp
  /\ Return(p)
  /\ UNCHANGED <<chanVars, closeVars, loopVars, by, dropped>>

SubmitStep(p) == SendPanics(p) \/ Send(p) \/ SendFindsFull(p) \/ Evict(p) \/ GiveUp(p)

-----------------------------------------------------------------------------
(* Close.                                                                  *)

CloseEnter(p) ==
  /\ p \in Closers /\ MayCall(p)
  /\ \/ once = "new" /\ once' = "busy" /\ closed' = TRUE /\ GoTo(p, "close")
     \/ once = "done" /\ GoTo(p, "wait") /\ UNCHANGED <<once, closed>>
  /\ UNCHANGED <<chanVars, closeReturned, loopVars, by, dropped>>

CloseChannel(p) ==
  /\ pc[p] = "close"
  /\ chOpen' = FALSE /\ once' = "done"
  /\ GoTo(p, "wait")
  /\ UNCHANGED <<ch, closed, closeReturned, loopVars, by, dropped>>

CloseReturn(p) ==
  /\ pc[p] = "wait" /\ loopDone
  /\ closeReturned' = TRUE
  /\ Return(p)
  /\ UNCHANGED <<chanVars, closed, once, loopVars, by, dropped>>

CloseStep(p) == CloseChannel(p) \/ CloseReturn(p)

-----------------------------------------------------------------------------
(* The loop.                                                               *)

Run ==
  /\ ~loopDone /\ running = NoFn /\ ch # <<>>
  /\ running' = Head(ch) /\ ran' = Append(ran, Head(ch))
  /\ ch' = Tail(ch)
  /\ UNCHANGED <<chOpen, closeVars, pc, fn, loopDone, by, dropped>>

\* The closure returns or panics, once the calls it made have returned.
FnReturn ==
  /\ running # NoFn /\ pc[Loop] = "idle"
  /\ running' = NoFn
  /\ UNCHANGED <<chanVars, closeVars, pc, fn, loopDone, ran, by, dropped>>

Drained_NotAwaited == ~chOpen

\* `range d.ch` ends when the channel is closed and empty.
Drained == ~chOpen /\ ch = <<>>

LoopEnds ==
  /\ ~loopDone /\ running = NoFn
  /\ Drained
  /\ loopDone' = TRUE
  /\ UNCHANGED <<chanVars, closeVars, pc, fn, running, ran, by, dropped>>

Next ==
  \/ \E p \in Procs : Submit(p) \/ SubmitStep(p) \/ CloseEnter(p) \/ CloseStep(p)
  \/ Run \/ FnReturn \/ LoopEnds

Spec == Init /\ [][Next]_vars

\* Goroutines that can run do; a closure need not return.
Fairness ==
  /\ \A p \in Procs : WF_vars(SubmitStep(p)) /\ WF_vars(CloseStep(p))
  /\ WF_vars(Run \/ LoopEnds)

FairSpec == Spec /\ Fairness

-----------------------------------------------------------------------------
(* Properties.                                                             *)

\* Every variable has its type.
TypeOK ==
  /\ ch \in Seq(Fns) /\ Len(ch) <= Cap /\ chOpen \in BOOLEAN
  /\ closed \in BOOLEAN /\ once \in {"new", "busy", "done"} /\ closeReturned \in BOOLEAN
  /\ pc \in [Procs -> {"idle", "send", "evict", "resend", "close", "wait"}]
  /\ fn \in [Procs -> Fns \cup {NoFn}]
  /\ running \in Fns \cup {NoFn} /\ loopDone \in BOOLEAN
  /\ by \in Seq(Procs) /\ Len(by) <= MaxFns
  /\ ran \in Seq(Fns) /\ dropped \in SUBSET Fns

\* What one goroutine submits is run at most once and in the order it was
\* submitted, whatever is dropped in between: an OnUpgrade never overtakes an
\* earlier one, and OnStreamEnd never runs twice.
InOrder ==
  \A i, j \in 1 .. Len(ran) :
    i < j => ran[i] # ran[j] /\ (by[ran[i]] = by[ran[j]] => ran[i] < ran[j])

\* Close drains: when one has returned no closure is waiting or running, none
\* will be run, and what never ran was given up by its own Submit or dropped.
CloseDrains == closeReturned => ch = <<>> /\ running = NoFn /\ ~chOpen

\* Submit never blocks, even while a closure that does not return keeps the loop.
SubmitReturns == \A p \in Procs : pc[p] \in {"send", "evict", "resend"} ~> pc[p] = "idle"

\* Close returns, if no closure runs for ever on its own account.
FnsReturn == []<>(running = NoFn \/ pc[Loop] # "idle")
CloseReturns ==
  FnsReturn => \A p \in Procs : pc[p] \in {"close", "wait"} ~> pc[p] = "idle"

\* No operation of the dispatcher keeps its caller for ever.
CallsReturn == SubmitReturns /\ CloseReturns

-----------------------------------------------------------------------------
(* What the callbacks' user sees of it.                                    *)

Promise == INSTANCE Callbacks WITH Submitters <- Procs, over <- closeReturned

\* The dispatcher keeps what Callbacks promises, although a full channel is robbed
\* by one Submit and filled by another, and Close meets Submits half done.
KeepsPromise == Promise!Spec

=============================================================================
