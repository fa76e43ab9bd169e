------------------------------- MODULE Client -------------------------------
(***************************************************************************)
(* The registry of calls in gotgcall.go: the map from chats to calls, the  *)
(* create mutex of each chat, and the operations that put a call into the  *)
(* map or take it out.  sync.Map makes each access to an entry atomic and  *)
(* nothing more, so every access is a step.  What a call is inside is      *)
(* GroupCall.tla's; here it is live, rtmp (a live call of that kind, which *)
(* has no connection to lose), dead (Failed or Closed by itself), being    *)
(* stopped, or stopped.                                                    *)
(*                                                                         *)
(* "Setup" stands for Connect and SetStreamSources, which reap the call    *)
(* when it returns an error.  The operations that only look a call up and  *)
(* pass the request on (Pause, Time, AudioSSRC, ...) touch no entry and    *)
(* are left out.                                                           *)
(***************************************************************************)
EXTENDS Naturals

CONSTANTS
  Threads,    \* the goroutines that call the API
  Chats,      \* the chat ids
  Api,        \* bound: the operations that are called
  MaxCreates, \* bound: CreateCall and StartRTMP calls in one behaviour
  Nil         \* no goroutine, no chat

Creates == {"CreateCall", "StartRTMP"}

ASSUME ClientAssumption ==
  /\ Nil \notin Threads \cup Chats
  /\ Api \subseteq Creates \cup {"Setup", "Stop", "Close"}
  /\ MaxCreates \in Nat

None == 0
Insts == 1 .. MaxCreates   \* a call, and a mutex, has the number of the creation it was made in

VARIABLES
  calls,          \* c.calls
  createMu,       \* c.createMu
  holder,         \* who holds each mutex
  closed,         \* c.closed
  factoryClosed,  \* Factory.closed; Close is over
  left,           \* the entries Close's Range has yet to visit
  made,           \* creations begun
  inst,           \* the state of each call
  late,           \* the calls stored after `closed` was set
  pc, op, chat,   \* each goroutine's place, operation and chatID
  self,           \* the number of its creation
  ptr,            \* the mutex it resolved
  mine            \* the call it looked up, or is to stop

mapVars == <<calls, createMu>>
clientVars == <<closed, factoryClosed, left>>
instVars == <<inst, late>>
localVars == <<op, chat, self, ptr, mine>>
vars == <<mapVars, holder, clientVars, made, instVars, pc, localVars>>

Ended == {"stopping", "stopped"}

Init ==
  /\ calls = [c \in Chats |-> None] /\ createMu = [c \in Chats |-> None]
  /\ holder = [i \in Insts |-> Nil]
  /\ closed = FALSE /\ factoryClosed = FALSE /\ left = {}
  /\ made = 0 /\ inst = [i \in Insts |-> "none"] /\ late = {}
  /\ pc = [t \in Threads |-> "idle"] /\ op = [t \in Threads |-> "none"]
  /\ chat = [t \in Threads |-> Nil] /\ self = [t \in Threads |-> None]
  /\ ptr = [t \in Threads |-> None] /\ mine = [t \in Threads |-> None]

-----------------------------------------------------------------------------
At(t, p) == pc[t] = p

GoTo(t, p) == pc' = [pc EXCEPT ![t] = p] /\ UNCHANGED localVars

\* Go on at p with call i in hand.
Take(t, p, i) ==
  /\ pc' = [pc EXCEPT ![t] = p]
  /\ mine' = [mine EXCEPT ![t] = i]
  /\ UNCHANGED <<op, chat, self, ptr>>

Return(t) ==
  /\ pc' = [pc EXCEPT ![t] = "idle"] /\ op' = [op EXCEPT ![t] = "none"]
  /\ chat' = [chat EXCEPT ![t] = Nil] /\ self' = [self EXCEPT ![t] = None]
  /\ ptr' = [ptr EXCEPT ![t] = None] /\ mine' = [mine EXCEPT ![t] = None]

\* The entry of t's chat, whether there is one, and the map without it.
Entry(t) == calls[chat[t]]
Found(t) == Entry(t) # None
Delete(t) == calls' = [calls EXCEPT ![chat[t]] = None]

\* An operation begins by finding the client open.
Enter(t) ==
  /\ At(t, "idle") /\ ~closed
  /\ \E c \in Chats : chat' = [chat EXCEPT ![t] = c]
  /\ \/ /\ \E o \in Creates \cap Api : op' = [op EXCEPT ![t] = o]
        /\ made < MaxCreates
        /\ made' = made + 1 /\ self' = [self EXCEPT ![t] = made + 1]
        /\ pc' = [pc EXCEPT ![t] = "acquire"]
     \/ /\ \E o \in {"Setup", "Stop"} \cap Api : op' = [op EXCEPT ![t] = o]
        /\ pc' = [pc EXCEPT ![t] = "lookup"]
        /\ UNCHANGED <<made, self>>
  /\ UNCHANGED <<mapVars, holder, clientVars, instVars, ptr, mine>>

-----------------------------------------------------------------------------
(* CreateCall and StartRTMP.                                               *)

\* acquireCreate: LoadOrStore, then Lock.
Resolve(t) ==
  /\ At(t, "acquire")
  /\ createMu' = IF createMu[chat[t]] = None
                   THEN [createMu EXCEPT ![chat[t]] = self[t]]
                   ELSE createMu
  /\ ptr' = [ptr EXCEPT ![t] = createMu'[chat[t]]]
  /\ pc' = [pc EXCEPT ![t] = "lock"]
  /\ UNCHANGED <<calls, holder, clientVars, made, instVars, op, chat, self, mine>>

Lock(t) ==
  /\ At(t, "lock") /\ holder[ptr[t]] = Nil
  /\ holder' = [holder EXCEPT ![ptr[t]] = t]
  /\ GoTo(t, "check")
  /\ UNCHANGED <<mapVars, clientVars, made, instVars>>

\* callIsLive: load the entry, ask the call for its state, and take a corpse
\* out of the map before stopping it.
CheckEntry(t) ==
  /\ At(t, "check")
  /\ IF Found(t) THEN Take(t, "state", Entry(t)) ELSE GoTo(t, "new")
  /\ UNCHANGED <<mapVars, holder, clientVars, made, instVars>>

\* NetState is Failed or Closed.  A call that is being stopped may say either.
Corpse(i) == inst[i] \in {"dead", "stopped", "stopping"}

CheckState(t) ==
  /\ At(t, "state")
  /\ \/ Corpse(mine[t]) /\ GoTo(t, "corpse")
     \/ inst[mine[t]] \in {"live", "rtmp", "stopping"} /\ GoTo(t, "unlock")
  /\ UNCHANGED <<mapVars, holder, clientVars, made, instVars>>

DeleteCorpse(t) ==
  /\ At(t, "corpse")
  /\ Delete(t)
  /\ GoTo(t, "stop")
  /\ UNCHANGED <<createMu, holder, clientVars, made, instVars>>

\* NewGroupCall fails when the factory is closed, or for reasons of its own.
New(t) ==
  /\ At(t, "new")
  /\ \/ /\ op[t] = "CreateCall"
        /\ GoTo(t, "unlock")
        /\ UNCHANGED inst
     \/ /\ op[t] = "StartRTMP" \/ ~factoryClosed
        /\ inst' = [inst EXCEPT ![self[t]] = IF op[t] = "StartRTMP" THEN "rtmp" ELSE "live"]
        /\ Take(t, "store", self[t])
  /\ UNCHANGED <<mapVars, holder, clientVars, made, late>>

Store(t) ==
  /\ At(t, "store")
  /\ calls' = [calls EXCEPT ![chat[t]] = mine[t]]
  /\ late' = IF closed THEN late \cup {mine[t]} ELSE late
  /\ GoTo(t, IF op[t] = "CreateCall" THEN "params" ELSE "unlock")
  /\ UNCHANGED <<createMu, holder, clientVars, made, inst>>

\* CreateLocalParams; an error reaps the call.
Params(t) ==
  /\ At(t, "params")
  /\ \/ GoTo(t, "unlock")
     \/ /\ pc' = [pc EXCEPT ![t] = "reap"]
        /\ op' = [op EXCEPT ![t] = "Undo"]
        /\ UNCHANGED <<chat, self, ptr, mine>>
  /\ UNCHANGED <<mapVars, holder, clientVars, made, instVars>>

Unlocked_NotWhenRefused(t) ==
  IF mine[t] = self[t] THEN [holder EXCEPT ![ptr[t]] = Nil] ELSE holder

\* The deferred unlock, on every path.
Unlocked(t) == [holder EXCEPT ![ptr[t]] = Nil]

Unlock(t) ==
  /\ At(t, "unlock")
  /\ holder' = Unlocked(t)
  /\ Return(t)
  /\ UNCHANGED <<mapVars, clientVars, made, instVars>>

-----------------------------------------------------------------------------
(* The operations on a call that exists.                                   *)

Lookup(t) ==
  /\ At(t, "lookup")
  /\ IF Found(t)
       THEN Take(t, IF op[t] = "Stop" THEN "delete" ELSE "use", Entry(t))
       ELSE Return(t)
  /\ UNCHANGED <<mapVars, holder, clientVars, made, instVars>>

\* call.Connect or call.SetSource returns; from a stopped call, with an error.
Use(t) ==
  /\ At(t, "use")
  /\ (inst[mine[t]] # "stopped" /\ Return(t)) \/ GoTo(t, "reap")
  /\ UNCHANGED <<mapVars, holder, clientVars, made, instVars>>

Forgotten_WithCall(t) == [createMu EXCEPT ![chat[t]] = None]

\* The mutex of a chat outlives its calls.
Forgotten(t) == createMu

Reaped_OnlyLoaded(t) == calls
Reaped(t) == [calls EXCEPT ![chat[t]] = None]

\* After a call was stopped, or there was none to stop.
After(t) ==
  CASE op[t] \in Creates -> "new"
    [] op[t] = "Undo" -> "unlock"
    [] op[t] = "Close" -> "range"
    [] OTHER -> "return"

\* reap's LoadAndDelete.
Reap(t) ==
  /\ At(t, "reap")
  /\ calls' = Reaped(t)
  /\ IF Found(t)
       THEN Take(t, "stop", Entry(t)) /\ createMu' = Forgotten(t)
       ELSE GoTo(t, After(t)) /\ UNCHANGED createMu
  /\ UNCHANGED <<holder, clientVars, made, instVars>>

StopDelete(t) ==
  /\ At(t, "delete")
  /\ Delete(t)
  /\ GoTo(t, "stop")
  /\ UNCHANGED <<createMu, holder, clientVars, made, instVars>>

\* Call.Stop: the first to call it does the work, any other returns at once.
StopCall(t) ==
  /\ At(t, "stop")
  /\ IF inst[mine[t]] \in Ended
       THEN GoTo(t, After(t)) /\ UNCHANGED inst
       ELSE GoTo(t, "stopping") /\ inst' = [inst EXCEPT ![mine[t]] = "stopping"]
  /\ UNCHANGED <<mapVars, holder, clientVars, made, late>>

Stopped(t) ==
  /\ At(t, "stopping")
  /\ inst' = [inst EXCEPT ![mine[t]] = "stopped"]
  /\ GoTo(t, After(t))
  /\ UNCHANGED <<mapVars, holder, clientVars, made, late>>

OpReturns(t) ==
  /\ At(t, "return")
  /\ Return(t)
  /\ UNCHANGED <<mapVars, holder, clientVars, made, instVars>>

-----------------------------------------------------------------------------
(* Close.                                                                  *)

CloseEnter(t) ==
  /\ At(t, "idle") /\ ~closed /\ "Close" \in Api
  /\ closed' = TRUE /\ left' = Chats
  /\ pc' = [pc EXCEPT ![t] = "range"] /\ op' = [op EXCEPT ![t] = "Close"]
  /\ UNCHANGED <<mapVars, holder, factoryClosed, made, instVars, chat, self, ptr, mine>>

\* Range takes the entries in any order, each as it is when it comes to it.
CloseVisit(t) ==
  /\ At(t, "range")
  /\ \E c \in left :
       /\ left' = left \ {c}
       /\ IF calls[c] = None THEN GoTo(t, "range") ELSE Take(t, "stop", calls[c])
  /\ UNCHANGED <<mapVars, holder, closed, factoryClosed, made, instVars>>

Swept_NotAwaited == TRUE

\* The factory is closed after the calls were stopped.
Swept == left = {}

CloseFactory(t) ==
  /\ At(t, "range") /\ Swept
  /\ factoryClosed' = TRUE
  /\ Return(t)
  /\ UNCHANGED <<mapVars, holder, closed, left, made, instVars>>

-----------------------------------------------------------------------------
\* The connection of a call fails, or is closed by the monitor.
Die ==
  /\ \E i \in Insts : inst[i] = "live" /\ inst' = [inst EXCEPT ![i] = "dead"]
  /\ UNCHANGED <<mapVars, holder, clientVars, made, late, pc, localVars>>

Step(t) ==
  \/ Resolve(t) \/ Lock(t) \/ CheckEntry(t) \/ CheckState(t) \/ DeleteCorpse(t)
  \/ New(t) \/ Store(t) \/ Params(t) \/ Unlock(t)
  \/ Lookup(t) \/ Use(t) \/ Reap(t) \/ StopDelete(t)
  \/ StopCall(t) \/ Stopped(t) \/ OpReturns(t)
  \/ CloseVisit(t) \/ CloseFactory(t)

Next == (\E t \in Threads : Enter(t) \/ CloseEnter(t) \/ Step(t)) \/ Die

Spec == Init /\ [][Next]_vars

\* Goroutines that can run do, a sync.Mutex is not withheld for ever, and what
\* is asked of a call returns (GroupCall: CallsReturn).
FairSpec == Spec /\ \A t \in Threads : SF_vars(Step(t))

-----------------------------------------------------------------------------
(* Properties.                                                             *)

Places == {"idle", "acquire", "lock", "check", "state", "corpse", "new", "store",
           "params", "unlock", "lookup", "use", "reap", "delete", "stop",
           "stopping", "return", "range"}

InHand == {"state", "corpse", "store", "params", "use", "delete", "stop", "stopping"}

SharedTypes ==
  /\ calls \in [Chats -> Insts \cup {None}] /\ createMu \in [Chats -> Insts \cup {None}]
  /\ holder \in [Insts -> Threads \cup {Nil}]
  /\ closed \in BOOLEAN /\ factoryClosed \in BOOLEAN /\ left \in SUBSET Chats
  /\ made \in 0 .. MaxCreates
  /\ inst \in [Insts -> {"none", "live", "rtmp", "dead"} \cup Ended] /\ late \in SUBSET Insts
LocalTypes ==
  /\ pc \in [Threads -> Places]
  /\ op \in [Threads -> Creates \cup {"none", "Undo", "Setup", "Stop", "Close"}]
  /\ chat \in [Threads -> Chats \cup {Nil}]
  /\ self \in [Threads -> Insts \cup {None}] /\ ptr \in [Threads -> Insts \cup {None}]
  /\ mine \in [Threads -> Insts \cup {None}]
NoNilCall == \A t \in Threads : pc[t] \in InHand => mine[t] # None

\* Every variable has its type, and no operation goes on with a nil call.
TypeOK == SharedTypes /\ LocalTypes /\ NoNilCall

\* One creation at a time: a goroutine that has found the chat free of a call is
\* alone in that, and the chat is still free when it stores its own, whatever
\* reap, Stop and Close do without the create mutex.
Founding(t) ==
  pc[t] \in {"new", "store"} \/ (pc[t] \in {"stop", "stopping"} /\ op[t] \in Creates)

OneWinner ==
  \A t \in Threads : Founding(t) =>
    /\ Entry(t) = None
    /\ \A u \in Threads \ {t} : Founding(u) => chat[u] # chat[t]

\* No operation finds a call that is being stopped: it would be refused with
\* ErrConnectionExists, or ErrClosed, for a corpse.
CorpseNeverListed ==
  ~closed => \A c \in Chats : calls[c] # None => inst[calls[c]] \notin Ended

\* A call that goes off the map is in the hands of a goroutine that will stop
\* it, or was stopped before; but for Stop, which deletes by chat.
NoCallLost ==
  [][\A c \in Chats : calls[c] # None /\ calls'[c] # calls[c] =>
       \/ inst[calls[c]] \in Ended
       \/ \E t \in Threads : pc'[t] = "stop" /\ mine'[t] = calls[c]
       \/ \E t \in Threads : StopDelete(t)]_vars

\* When Close is over every call still listed is stopped, but for those whose
\* creation was past its test of `closed`.
CloseSweeps ==
  factoryClosed =>
    \A c \in Chats : calls[c] \notin late \cup {None} => inst[calls[c]] \in Ended

\* Every operation returns, however the create mutexes were waited for.
CallsReturn == \A t \in Threads : pc[t] # "idle" ~> pc[t] = "idle"

-----------------------------------------------------------------------------
(* What the registry's user sees of it.                                    *)

\* A call is made for the user when it is stored.
Unseen(i) == \E t \in Threads : pc[t] = "store" /\ self[t] = i

lives == [i \in Insts |->
  CASE Unseen(i) -> "none"
    [] ~Unseen(i) /\ inst[i] = "rtmp" -> "live"
    [] OTHER -> inst[i]]

Users == INSTANCE Registry WITH Calls <- Insts, entry <- calls, life <- lives, closing <- closed

\* The client keeps what Registry promises, although its map, its mutexes and its
\* calls are used by many goroutines and each of their accesses is a step.
KeepsRegistry == Users!Spec

-----------------------------------------------------------------------------
(* A statement of the repository that the code does not keep.              *)

\* "On error the call is auto-reaped", "Stop tears down the call": what a
\* goroutine takes off the map is the call it looked up.
RemovesOwn ==
  [][\A t \in Threads :
       pc[t] \in {"reap", "delete"} /\ Entry(t) # None /\ calls' # calls /\ pc'[t] # pc[t]
         => Entry(t) = mine[t]]_vars

=============================================================================
