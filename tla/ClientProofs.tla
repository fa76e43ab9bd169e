---------------------------- MODULE ClientProofs ----------------------------
(***************************************************************************)
(* Proofs about Client.tla, for any goroutines, chats and number of calls. *)
(* The invariant is built in layers, each kept with the help of those       *)
(* before it: the places and types; the create mutex; that a creation's    *)
(* number is nobody else's until it is stored; that a call is listed under *)
(* one chat; and from these the properties of Client.tla.                  *)
(***************************************************************************)
EXTENDS Client, TLAPS

\* The places of each operation.
OpAt(p, o) ==
  /\ p = "idle" <=> o = "none"
  /\ p \in {"acquire", "lock", "check", "state", "corpse", "new", "store", "params"}
       => o \in Creates
  /\ p = "unlock" => o \in Creates \cup {"Undo"}
  /\ p \in {"lookup", "return"} => o \in {"Setup", "Stop"}
  /\ p = "use" => o = "Setup"
  /\ p = "delete" => o = "Stop"
  /\ p = "reap" => o \in {"Setup", "Undo"}
  /\ p = "range" => o = "Close"

Shape ==
  \A t \in Threads :
    /\ OpAt(pc[t], op[t])
    /\ op[t] \notin {"none", "Close"} => chat[t] \in Chats
    /\ pc[t] = "idle" => mine[t] = None
    /\ op[t] \in Creates \cup {"Undo"} => self[t] # None

\* From its Lock to its Unlock a creation holds the one mutex of its chat.
HasMutex(t) ==
  \/ pc[t] \in {"check", "state", "corpse", "new", "store", "params", "unlock"}
  \/ op[t] \in Creates \cup {"Undo"} /\ pc[t] \in {"reap", "stop", "stopping"}

Mutexes ==
  \A t \in Threads :
    /\ pc[t] = "lock" \/ HasMutex(t) =>
         ptr[t] # None /\ ptr[t] = createMu[chat[t]]
    /\ HasMutex(t) => holder[ptr[t]] = t

\* Until it is stored, the number of a creation is in no entry and in no other
\* goroutine's hands, and the call it makes is not ended.
Unstored(t) ==
  /\ op[t] \in Creates
  /\ pc[t] \in {"acquire", "lock", "check", "state", "corpse", "stop", "stopping",
                "new", "store"}

Numbers ==
  /\ \A t \in Threads : self[t] <= made /\ mine[t] <= made
  /\ \A c \in Chats : calls[c] <= made
  /\ \A i \in Insts : i > made => inst[i] = "none"
Distinct == \A t, u \in Threads : t # u /\ self[t] = self[u] => self[t] = None
NotListed == \A t \in Threads : Unstored(t) => \A c \in Chats : calls[c] # self[t]
NotInHand ==
  \A t, u \in Threads : Unstored(t) /\ (u # t \/ pc[t] # "store") => mine[u] # self[t]
NotYetMade == \A t \in Threads : Unstored(t) /\ pc[t] # "store" => inst[self[t]] = "none"
AtStore ==
  \A t \in Threads : pc[t] = "store" => mine[t] = self[t] /\ inst[mine[t]] \notin Ended

Fresh == Numbers /\ Distinct /\ NotListed /\ NotInHand /\ NotYetMade /\ AtStore

\* A call is listed under one chat at most: the one it was looked up under.
Homes ==
  /\ \A c, d \in Chats : calls[c] = calls[d] /\ calls[c] # None => c = d
  /\ \A t \in Threads : op[t] # "Close" /\ mine[t] # None =>
       \A d \in Chats : calls[d] = mine[t] => d = chat[t]

\* While a creation looks at the entry of its chat, the entry can only go.
Watched ==
  \A t \in Threads : pc[t] \in {"state", "corpse"} => Entry(t) \in {None, mine[t]}

\* A call is taken off the map before it is stopped, but for Close.
Unlisted ==
  \A t \in Threads :
    /\ pc[t] = "stop" /\ op[t] # "Close" => \A c \in Chats : calls[c] # mine[t]
    /\ pc[t] = "stopping" => inst[mine[t]] \in Ended

\* There is one Close, and what it has visited is stopped or in its hands.
OneClose ==
  /\ \A t \in Threads : op[t] = "Close" => closed /\ ~factoryClosed
  /\ \A t, u \in Threads : op[t] = "Close" /\ op[u] = "Close" => t = u
  /\ factoryClosed => closed /\ left = {}
InCloseHands(i) == \E t \in Threads : op[t] = "Close" /\ pc[t] = "stop" /\ mine[t] = i
Visited ==
  closed => \A c \in Chats \ left :
    \/ calls[c] \in late \cup {None}
    \/ inst[calls[c]] \in Ended
    \/ InCloseHands(calls[c])

\* The two halves of OneWinner.
Free == \A t \in Threads : Founding(t) => Entry(t) = None
Alone ==
  \A t, u \in Threads : t # u /\ Founding(t) /\ Founding(u) => chat[u] # chat[t]

Base == TypeOK /\ Shape /\ Mutexes /\ Free /\ Alone /\ Watched
IInv == Base /\ Fresh /\ Homes /\ Unlisted /\ CorpseNeverListed /\ OneClose /\ Visited

-----------------------------------------------------------------------------
\* Two goroutines that hold mutexes do not hold them for one chat.
LEMMA OneHolder ==
  ASSUME Mutexes, NEW t \in Threads, NEW u \in Threads, t # u, HasMutex(t), HasMutex(u)
  PROVE  chat[u] # chat[t]
BY DEF Mutexes

\* The shared variables keep their types.
LEMMA SharedStep ==
  ASSUME TypeOK, Shape, [Next]_vars
  PROVE  SharedTypes'
<1> DEFINE Goal == SharedTypes'
<1> USE ClientAssumption DEF None, At, vars, mapVars, clientVars, instVars, localVars
<1> USE DEF Entry, Found, Delete, Corpse, Unlocked, Forgotten, Reaped, After
<1> USE DEF Swept, GoTo, Take, Return
<1> USE DEF TypeOK, SharedTypes, LocalTypes, NoNilCall, Shape, OpAt, Creates,
        Ended, InHand
<1>1. ASSUME NEW t \in Threads, Enter(t) PROVE Goal
  BY <1>1 DEF Enter
<1>2. ASSUME NEW t \in Threads, Resolve(t) PROVE Goal
  BY <1>2 DEF Resolve
<1>3. ASSUME NEW t \in Threads, Store(t) PROVE Goal
  BY <1>3 DEF Store
<1>4. ASSUME NEW t \in Threads, Reap(t) PROVE Goal
  BY <1>4 DEF Reap
<1>5. ASSUME NEW t \in Threads, CloseVisit(t) PROVE Goal
  BY <1>5 DEF CloseVisit
<1>6. ASSUME NEW t \in Threads, Lock(t) PROVE Goal
  BY <1>6 DEF Lock
<1>7. ASSUME NEW t \in Threads, CheckEntry(t) PROVE Goal
  BY <1>7 DEF CheckEntry
<1>8. ASSUME NEW t \in Threads, CheckState(t) PROVE Goal
  BY <1>8 DEF CheckState
<1>9. ASSUME NEW t \in Threads, DeleteCorpse(t) PROVE Goal
  BY <1>9 DEF DeleteCorpse
<1>10. ASSUME NEW t \in Threads, New(t) PROVE Goal
  BY <1>10 DEF New
<1>11. ASSUME NEW t \in Threads, Params(t) PROVE Goal
  BY <1>11 DEF Params
<1>12. ASSUME NEW t \in Threads, Unlock(t) PROVE Goal
  BY <1>12 DEF Unlock
<1>13. ASSUME NEW t \in Threads, Lookup(t) PROVE Goal
  BY <1>13 DEF Lookup
<1>14. ASSUME NEW t \in Threads, Use(t) PROVE Goal
  BY <1>14 DEF Use
<1>15. ASSUME NEW t \in Threads, StopDelete(t) PROVE Goal
  BY <1>15 DEF StopDelete
<1>16. ASSUME NEW t \in Threads, StopCall(t) PROVE Goal
  BY <1>16 DEF StopCall
<1>17. ASSUME NEW t \in Threads, Stopped(t) PROVE Goal
  BY <1>17 DEF Stopped
<1>18. ASSUME NEW t \in Threads, OpReturns(t) PROVE Goal
  BY <1>18 DEF OpReturns
<1>19. ASSUME NEW t \in Threads, CloseEnter(t) PROVE Goal
  BY <1>19 DEF CloseEnter
<1>20. ASSUME NEW t \in Threads, CloseFactory(t) PROVE Goal
  BY <1>20 DEF CloseFactory
<1>21. CASE Die \/ UNCHANGED vars
  BY <1>21 DEF Die
<1> QED
  BY <1>1, <1>2, <1>3, <1>4, <1>5, <1>6, <1>7, <1>8, <1>9, <1>10, <1>11, <1>12,
     <1>13, <1>14, <1>15, <1>16, <1>17, <1>18, <1>19, <1>20, <1>21 DEF Next, Step

\* The goroutines' locals keep their types.
LEMMA LocalStep ==
  ASSUME TypeOK, Shape, [Next]_vars
  PROVE  LocalTypes'
<1> DEFINE Goal == LocalTypes'
<1> USE ClientAssumption DEF None, At, vars, mapVars, clientVars, instVars, localVars
<1> USE DEF Entry, Found, Delete, Corpse, Unlocked, Forgotten, Reaped, After
<1> USE DEF Swept, GoTo, Take, Return
<1> USE DEF TypeOK, SharedTypes, LocalTypes, NoNilCall, Shape, OpAt, Creates,
        Places, InHand
<1>1. ASSUME NEW t \in Threads, Enter(t) PROVE Goal
  <2>1. self' \in [Threads -> Insts \cup {None}]
    <3>1. made < MaxCreates => made + 1 \in Insts
      BY DEF Insts
    <3> QED
      BY <1>1, <3>1 DEF Enter
  <2>2. chat' \in [Threads -> Chats \cup {Nil}] /\ UNCHANGED <<ptr, mine>>
    BY <1>1 DEF Enter
  <2>3. /\ pc' \in [Threads -> Places]
        /\ op' \in [Threads -> Creates \cup {"none", "Undo", "Setup", "Stop", "Close"}]
    BY <1>1 DEF Enter
  <2> QED
    BY <2>1, <2>2, <2>3
<1>2. ASSUME NEW t \in Threads, Resolve(t) PROVE Goal
  BY <1>2 DEF Resolve
<1>3. ASSUME NEW t \in Threads, New(t) PROVE Goal
  BY <1>3 DEF New
<1>4. ASSUME NEW t \in Threads, Params(t) PROVE Goal
  BY <1>4 DEF Params
<1>5. ASSUME NEW t \in Threads, Reap(t) PROVE Goal
  <2>1. After(t) \in {"new", "unlock", "range", "return"}
    OBVIOUS
  <2>2. CASE Found(t)
    BY <1>5, <2>2 DEF Reap
  <2>3. CASE ~Found(t)
    BY <1>5, <2>1, <2>3 DEF Reap
  <2> QED
    BY <2>2, <2>3
<1>6. ASSUME NEW t \in Threads, CloseEnter(t) PROVE Goal
  BY <1>6 DEF CloseEnter
<1>7. ASSUME NEW t \in Threads, CloseVisit(t) PROVE Goal
  BY <1>7 DEF CloseVisit
<1>8. ASSUME NEW t \in Threads, Lock(t) PROVE Goal
  BY <1>8 DEF Lock
<1>9. ASSUME NEW t \in Threads, CheckEntry(t) PROVE Goal
  BY <1>9 DEF CheckEntry
<1>10. ASSUME NEW t \in Threads, CheckState(t) PROVE Goal
  BY <1>10 DEF CheckState
<1>11. ASSUME NEW t \in Threads, DeleteCorpse(t) PROVE Goal
  BY <1>11 DEF DeleteCorpse
<1>12. ASSUME NEW t \in Threads, Store(t) PROVE Goal
  BY <1>12 DEF Store
<1>13. ASSUME NEW t \in Threads, Unlock(t) PROVE Goal
  BY <1>13 DEF Unlock
<1>14. ASSUME NEW t \in Threads, Lookup(t) PROVE Goal
  BY <1>14 DEF Lookup
<1>15. ASSUME NEW t \in Threads, Use(t) PROVE Goal
  BY <1>15 DEF Use
<1>16. ASSUME NEW t \in Threads, StopDelete(t) PROVE Goal
  BY <1>16 DEF StopDelete
<1>17. ASSUME NEW t \in Threads, StopCall(t) PROVE Goal
  BY <1>17 DEF StopCall
<1>18. ASSUME NEW t \in Threads, Stopped(t) PROVE Goal
  BY <1>18 DEF Stopped
<1>19. ASSUME NEW t \in Threads, OpReturns(t) PROVE Goal
  BY <1>19 DEF OpReturns
<1>20. ASSUME NEW t \in Threads, CloseFactory(t) PROVE Goal
  BY <1>20 DEF CloseFactory
<1>21. CASE Die \/ UNCHANGED vars
  BY <1>21 DEF Die
<1> QED
  BY <1>1, <1>2, <1>3, <1>4, <1>5, <1>6, <1>7, <1>8, <1>9, <1>10, <1>11, <1>12,
     <1>13, <1>14, <1>15, <1>16, <1>17, <1>18, <1>19, <1>20, <1>21 DEF Next, Step

\* A place with a call in hand is entered with one.
LEMMA HandStep ==
  ASSUME TypeOK, Shape, [Next]_vars
  PROVE  NoNilCall'
<1> DEFINE Goal == NoNilCall'
<1> USE ClientAssumption DEF None, At, vars, mapVars, clientVars, instVars, localVars
<1> USE DEF Entry, Found, Delete, Corpse, Unlocked, Forgotten, Reaped, After
<1> USE DEF Swept, GoTo, Take, Return
<1> USE DEF TypeOK, SharedTypes, LocalTypes, NoNilCall, Shape, OpAt, Creates,
        InHand
<1>1. ASSUME NEW t \in Threads, New(t) PROVE Goal
  BY <1>1 DEF New
<1>2. ASSUME NEW t \in Threads, Params(t) PROVE Goal
  BY <1>2 DEF Params
<1>3. ASSUME NEW t \in Threads, Reap(t) PROVE Goal
  BY <1>3 DEF Reap
<1>4. ASSUME NEW t \in Threads, CloseVisit(t) PROVE Goal
  BY <1>4 DEF CloseVisit
<1>5. ASSUME NEW t \in Threads,
              Enter(t) \/ Resolve(t) \/ Lock(t) \/ CheckEntry(t) \/
             CheckState(t) \/ DeleteCorpse(t) \/ Store(t) \/ Unlock(t) \/
             Lookup(t) \/ Use(t) \/ StopDelete(t) \/ StopCall(t) \/
             Stopped(t) \/ OpReturns(t) \/ CloseEnter(t) \/ CloseFactory(t)
     PROVE  Goal
  BY <1>5 DEF Enter, Resolve, Lock, CheckEntry, CheckState, DeleteCorpse, Store,
      Unlock, Lookup, Use, StopDelete, StopCall, Stopped, OpReturns, CloseEnter,
      CloseFactory
<1>6. CASE Die \/ UNCHANGED vars
  BY <1>6 DEF Die
<1> QED
  BY <1>1, <1>2, <1>3, <1>4, <1>5, <1>6 DEF Next, Step

\* The places keep to their operations.
LEMMA ShapeStep ==
  ASSUME TypeOK, Shape, [Next]_vars
  PROVE  Shape'
<1> DEFINE Goal == Shape'
<1> USE ClientAssumption DEF None, At, vars, mapVars, clientVars, instVars, localVars
<1> USE DEF Entry, Found, Delete, Corpse, Unlocked, Forgotten, Reaped, After
<1> USE DEF Swept, GoTo, Take, Return
<1> USE DEF TypeOK, SharedTypes, LocalTypes, NoNilCall, Shape, OpAt, Creates
<1>1. ASSUME NEW t \in Threads, Enter(t) PROVE Goal
  BY <1>1 DEF Enter
<1>2. ASSUME NEW t \in Threads, New(t) PROVE Goal
  BY <1>2 DEF New
<1>3. ASSUME NEW t \in Threads, Params(t) PROVE Goal
  BY <1>3 DEF Params
<1>4. ASSUME NEW t \in Threads, Lookup(t) PROVE Goal
  BY <1>4 DEF Lookup
<1>5. ASSUME NEW t \in Threads, Reap(t) PROVE Goal
  BY <1>5 DEF Reap
<1>6. ASSUME NEW t \in Threads, StopCall(t) PROVE Goal
  BY <1>6 DEF StopCall
<1>7. ASSUME NEW t \in Threads, Stopped(t) PROVE Goal
  BY <1>7 DEF Stopped
<1>8. ASSUME NEW t \in Threads, CloseEnter(t) PROVE Goal
  BY <1>8 DEF CloseEnter
<1>9. ASSUME NEW t \in Threads, CloseVisit(t) PROVE Goal
  BY <1>9 DEF CloseVisit
<1>10. ASSUME NEW t \in Threads, Resolve(t) PROVE Goal
  BY <1>10 DEF Resolve
<1>11. ASSUME NEW t \in Threads, Lock(t) PROVE Goal
  BY <1>11 DEF Lock
<1>12. ASSUME NEW t \in Threads, CheckEntry(t) PROVE Goal
  BY <1>12 DEF CheckEntry
<1>13. ASSUME NEW t \in Threads, CheckState(t) PROVE Goal
  BY <1>13 DEF CheckState
<1>14. ASSUME NEW t \in Threads, DeleteCorpse(t) PROVE Goal
  BY <1>14 DEF DeleteCorpse
<1>15. ASSUME NEW t \in Threads, Store(t) PROVE Goal
  BY <1>15 DEF Store
<1>16. ASSUME NEW t \in Threads, Unlock(t) PROVE Goal
  BY <1>16 DEF Unlock
<1>17. ASSUME NEW t \in Threads, Use(t) PROVE Goal
  BY <1>17 DEF Use
<1>18. ASSUME NEW t \in Threads, StopDelete(t) PROVE Goal
  BY <1>18 DEF StopDelete
<1>19. ASSUME NEW t \in Threads, OpReturns(t) PROVE Goal
  BY <1>19 DEF OpReturns
<1>20. ASSUME NEW t \in Threads, CloseFactory(t) PROVE Goal
  BY <1>20 DEF CloseFactory
<1>21. CASE Die \/ UNCHANGED vars
  BY <1>21 DEF Die
<1> QED
  BY <1>1, <1>2, <1>3, <1>4, <1>5, <1>6, <1>7, <1>8, <1>9, <1>10, <1>11, <1>12,
     <1>13, <1>14, <1>15, <1>16, <1>17, <1>18, <1>19, <1>20, <1>21 DEF Next, Step

\* A mutex once in the map stays there, so whoever waits for it waits for the one
\* every later creation takes.
LEMMA MutexStep ==
  ASSUME TypeOK, Shape, Mutexes, [Next]_vars
  PROVE  Mutexes'
<1> DEFINE Goal == Mutexes'
<1> USE ClientAssumption DEF None, At, vars, mapVars, clientVars, instVars, localVars
<1> USE DEF Entry, Found, Delete, Corpse, Unlocked, Forgotten, Reaped, After
<1> USE DEF Swept, GoTo, Take, Return
<1> USE DEF TypeOK, SharedTypes, LocalTypes, NoNilCall, Shape, OpAt, Creates,
        Mutexes, HasMutex
<1>1. ASSUME NEW t \in Threads, Resolve(t) PROVE Goal
  BY <1>1 DEF Resolve
<1>2. ASSUME NEW t \in Threads, Lock(t) PROVE Goal
  BY <1>2 DEF Lock
<1>3. ASSUME NEW t \in Threads, Unlock(t) PROVE Goal
  BY <1>3 DEF Unlock
<1>4. ASSUME NEW t \in Threads, Reap(t) PROVE Goal
  BY <1>4 DEF Reap
<1>5. ASSUME NEW t \in Threads, StopCall(t) PROVE Goal
  BY <1>5 DEF StopCall
<1>6. ASSUME NEW t \in Threads, Stopped(t) PROVE Goal
  BY <1>6 DEF Stopped
<1>7. ASSUME NEW t \in Threads,
              Enter(t) \/ CheckEntry(t) \/ CheckState(t) \/ DeleteCorpse(t) \/
             New(t) \/ Store(t) \/ Params(t) \/ Lookup(t) \/ Use(t) \/
             StopDelete(t) \/ OpReturns(t) \/ CloseEnter(t) \/ CloseVisit(t) \/
             CloseFactory(t)
     PROVE  Goal
  BY <1>7 DEF Enter, CheckEntry, CheckState, DeleteCorpse, New, Store, Params,
      Lookup, Use, StopDelete, OpReturns, CloseEnter, CloseVisit, CloseFactory
<1>8. CASE Die \/ UNCHANGED vars
  BY <1>8 DEF Die
<1> QED
  BY <1>1, <1>2, <1>3, <1>4, <1>5, <1>6, <1>7, <1>8 DEF Next, Step

\* Two founding goroutines of one chat would hold one mutex.
LEMMA AloneStep ==
  ASSUME TypeOK, Shape, Mutexes, Alone, [Next]_vars
  PROVE  Alone'
<1> DEFINE Goal == Alone'
<1> USE ClientAssumption DEF None, At, vars, mapVars, clientVars, instVars, localVars
<1> USE DEF Entry, Found, Delete, Corpse, Unlocked, Forgotten, Reaped, After
<1> USE DEF Swept, GoTo, Take, Return
<1> USE DEF TypeOK, SharedTypes, LocalTypes, NoNilCall, Shape, OpAt, Creates,
        Mutexes, HasMutex, Alone, Founding, Ended
<1>1. ASSUME NEW t \in Threads, CheckEntry(t) PROVE Goal
  <2>1. HasMutex(t)
    BY <1>1 DEF CheckEntry
  <2>2. ASSUME NEW u \in Threads, u # t, Founding(u) PROVE chat[u] # chat[t]
    BY <2>1, <2>2, OneHolder
  <2>3. \A u \in Threads : u # t => (Founding(u)' <=> Founding(u))
    BY <1>1 DEF CheckEntry
  <2>4. UNCHANGED chat
    BY <1>1 DEF CheckEntry
  <2> QED
    BY <2>2, <2>3, <2>4
<1>2. ASSUME NEW t \in Threads, DeleteCorpse(t) PROVE Goal
  <2>1. HasMutex(t)
    BY <1>2 DEF DeleteCorpse
  <2>2. ASSUME NEW u \in Threads, u # t, Founding(u) PROVE chat[u] # chat[t]
    BY <2>1, <2>2, OneHolder
  <2>3. \A u \in Threads : u # t => (Founding(u)' <=> Founding(u))
    BY <1>2 DEF DeleteCorpse
  <2>4. UNCHANGED chat
    BY <1>2 DEF DeleteCorpse
  <2> QED
    BY <2>2, <2>3, <2>4
<1>3. ASSUME NEW t \in Threads, New(t) PROVE Goal
  BY <1>3 DEF New
<1>4. ASSUME NEW t \in Threads, Reap(t) PROVE Goal
  BY <1>4 DEF Reap
<1>5. ASSUME NEW t \in Threads, StopCall(t) PROVE Goal
  BY <1>5 DEF StopCall
<1>6. ASSUME NEW t \in Threads, Stopped(t) PROVE Goal
  BY <1>6 DEF Stopped
<1>7. ASSUME NEW t \in Threads, Enter(t) PROVE Goal
  BY <1>7 DEF Enter
<1>8. ASSUME NEW t \in Threads, Resolve(t) PROVE Goal
  BY <1>8 DEF Resolve
<1>9. ASSUME NEW t \in Threads, Lock(t) PROVE Goal
  BY <1>9 DEF Lock
<1>10. ASSUME NEW t \in Threads, CheckState(t) PROVE Goal
  BY <1>10 DEF CheckState
<1>11. ASSUME NEW t \in Threads, Store(t) PROVE Goal
  BY <1>11 DEF Store
<1>12. ASSUME NEW t \in Threads, Params(t) PROVE Goal
  BY <1>12 DEF Params
<1>13. ASSUME NEW t \in Threads, Unlock(t) PROVE Goal
  BY <1>13 DEF Unlock
<1>14. ASSUME NEW t \in Threads, Lookup(t) PROVE Goal
  BY <1>14 DEF Lookup
<1>15. ASSUME NEW t \in Threads, Use(t) PROVE Goal
  BY <1>15 DEF Use
<1>16. ASSUME NEW t \in Threads, StopDelete(t) PROVE Goal
  BY <1>16 DEF StopDelete
<1>17. ASSUME NEW t \in Threads, OpReturns(t) PROVE Goal
  BY <1>17 DEF OpReturns
<1>18. ASSUME NEW t \in Threads, CloseEnter(t) PROVE Goal
  BY <1>18 DEF CloseEnter
<1>19. ASSUME NEW t \in Threads, CloseVisit(t) PROVE Goal
  BY <1>19 DEF CloseVisit
<1>20. ASSUME NEW t \in Threads, CloseFactory(t) PROVE Goal
  BY <1>20 DEF CloseFactory
<1>21. CASE Die \/ UNCHANGED vars
  BY <1>21 DEF Die
<1> QED
  BY <1>1, <1>2, <1>3, <1>4, <1>5, <1>6, <1>7, <1>8, <1>9, <1>10, <1>11, <1>12,
     <1>13, <1>14, <1>15, <1>16, <1>17, <1>18, <1>19, <1>20, <1>21 DEF Next, Step

\* Only a founding goroutine stores.
LEMMA FreeStep ==
  ASSUME TypeOK, Shape, Mutexes, Alone, Free, [Next]_vars
  PROVE  Free'
<1> DEFINE Goal == Free'
<1> USE ClientAssumption DEF None, At, vars, mapVars, clientVars, instVars, localVars
<1> USE DEF Entry, Found, Delete, Corpse, Unlocked, Forgotten, Reaped, After
<1> USE DEF Swept, GoTo, Take, Return
<1> USE DEF TypeOK, SharedTypes, LocalTypes, NoNilCall, Shape, OpAt, Creates,
        Alone, Free, Founding, Ended
<1>1. ASSUME NEW t \in Threads, CheckEntry(t) PROVE Goal
  BY <1>1 DEF CheckEntry
<1>2. ASSUME NEW t \in Threads, DeleteCorpse(t) PROVE Goal
  BY <1>2 DEF DeleteCorpse
<1>3. ASSUME NEW t \in Threads, New(t) PROVE Goal
  BY <1>3 DEF New
<1>4. ASSUME NEW t \in Threads, Store(t) PROVE Goal
  BY <1>4 DEF Store
<1>5. ASSUME NEW t \in Threads, Reap(t) PROVE Goal
  BY <1>5 DEF Reap
<1>6. ASSUME NEW t \in Threads, StopDelete(t) PROVE Goal
  BY <1>6 DEF StopDelete
<1>7. ASSUME NEW t \in Threads, StopCall(t) PROVE Goal
  BY <1>7 DEF StopCall
<1>8. ASSUME NEW t \in Threads, Stopped(t) PROVE Goal
  BY <1>8 DEF Stopped
<1>9. ASSUME NEW t \in Threads,
              Enter(t) \/ Resolve(t) \/ Lock(t) \/ CheckState(t) \/ Params(t) \/
             Unlock(t) \/ Lookup(t) \/ Use(t) \/ OpReturns(t) \/
             CloseEnter(t) \/ CloseVisit(t) \/ CloseFactory(t)
     PROVE  Goal
  BY <1>9 DEF Enter, Resolve, Lock, CheckState, Params, Unlock, Lookup, Use,
      OpReturns, CloseEnter, CloseVisit, CloseFactory
<1>10. CASE Die \/ UNCHANGED vars
  BY <1>10 DEF Die
<1> QED
  BY <1>1, <1>2, <1>3, <1>4, <1>5, <1>6, <1>7, <1>8, <1>9, <1>10 DEF Next, Step

\* The entry a creation looks at is not replaced under it.
LEMMA WatchedStep ==
  ASSUME TypeOK, Shape, Mutexes, Watched, [Next]_vars
  PROVE  Watched'
<1> DEFINE Goal == Watched'
<1> USE ClientAssumption DEF None, At, vars, mapVars, clientVars, instVars, localVars
<1> USE DEF Entry, Found, Delete, Corpse, Unlocked, Forgotten, Reaped, After
<1> USE DEF Swept, GoTo, Take, Return
<1> USE DEF TypeOK, SharedTypes, LocalTypes, NoNilCall, Shape, OpAt, Creates,
        Mutexes, HasMutex, Watched
<1>1. ASSUME NEW t \in Threads, CheckEntry(t) PROVE Goal
  BY <1>1 DEF CheckEntry
<1>2. ASSUME NEW t \in Threads, DeleteCorpse(t) PROVE Goal
  BY <1>2 DEF DeleteCorpse
<1>3. ASSUME NEW t \in Threads, Store(t) PROVE Goal
  BY <1>3 DEF Store
<1>4. ASSUME NEW t \in Threads, Reap(t) PROVE Goal
  BY <1>4 DEF Reap
<1>5. ASSUME NEW t \in Threads, StopDelete(t) PROVE Goal
  BY <1>5 DEF StopDelete
<1>6. ASSUME NEW t \in Threads,
              Enter(t) \/ Resolve(t) \/ Lock(t) \/ CheckState(t) \/ New(t) \/
             Params(t) \/ Unlock(t) \/ Lookup(t) \/ Use(t) \/ StopCall(t) \/
             Stopped(t) \/ OpReturns(t) \/ CloseEnter(t) \/ CloseVisit(t) \/
             CloseFactory(t)
     PROVE  Goal
  BY <1>6 DEF Enter, Resolve, Lock, CheckState, New, Params, Unlock, Lookup,
      Use, StopCall, Stopped, OpReturns, CloseEnter, CloseVisit, CloseFactory
<1>7. CASE Die \/ UNCHANGED vars
  BY <1>7 DEF Die
<1> QED
  BY <1>1, <1>2, <1>3, <1>4, <1>5, <1>6, <1>7 DEF Next, Step

\* Numbers are given out in order.
LEMMA NumbersStep ==
  ASSUME TypeOK, Shape, Numbers, [Next]_vars
  PROVE  Numbers'
<1> DEFINE Goal == Numbers'
<1> USE ClientAssumption DEF None, At, vars, mapVars, clientVars, instVars, localVars
<1> USE DEF Entry, Found, Delete, Corpse, Unlocked, Forgotten, Reaped, After
<1> USE DEF Swept, GoTo, Take, Return
<1> USE DEF TypeOK, SharedTypes, LocalTypes, NoNilCall, Shape, OpAt, Creates,
        Insts, Numbers, InHand
<1>1. ASSUME NEW t \in Threads, Enter(t) PROVE Goal
  <2>1. made' \in {made, made + 1} /\ UNCHANGED <<calls, inst, mine>>
    BY <1>1 DEF Enter
  <2>2. \A u \in Threads : self'[u] \in {self[u], made'}
    BY <1>1 DEF Enter
  <2>3. made <= made' /\ made \in Nat /\ made' \in Nat
    BY <2>1
  <2>4. \A u \in Threads : self'[u] <= made' /\ mine'[u] <= made'
    BY <2>1, <2>2, <2>3
  <2>5. \A c \in Chats : calls'[c] <= made'
    BY <2>1, <2>3
  <2>6. \A i \in Insts : i > made' => inst'[i] = "none"
    BY <2>1, <2>3
  <2> QED
    BY <2>4, <2>5, <2>6
<1>2. ASSUME NEW t \in Threads, New(t) PROVE Goal
  BY <1>2 DEF New
<1>3. ASSUME NEW t \in Threads, Lookup(t) PROVE Goal
  <2>1. UNCHANGED <<made, inst, calls>> /\ chat[t] \in Chats
    BY <1>3 DEF Lookup
  <2>2. \A u \in Threads : /\ mine'[u] \in {mine[u], None, calls[chat[t]]}
                            /\ self'[u] \in {self[u], None}
    BY <1>3 DEF Lookup
  <2>3. None <= made
    OBVIOUS
  <2>4. \A u \in Threads : self'[u] <= made' /\ mine'[u] <= made'
    BY <2>1, <2>2, <2>3
  <2> QED
    BY <2>1, <2>4
<1>4. ASSUME NEW t \in Threads, Use(t) PROVE Goal
  <2>1. UNCHANGED <<made, inst, calls>>
    BY <1>4 DEF Use
  <2>2. \A u \in Threads : mine'[u] \in {mine[u], None} /\ self'[u] \in {self[u], None}
    BY <1>4 DEF Use
  <2>3. None <= made
    OBVIOUS
  <2>4. \A u \in Threads : self'[u] <= made' /\ mine'[u] <= made'
    BY <2>1, <2>2, <2>3
  <2> QED
    BY <2>1, <2>4
<1>5. ASSUME NEW t \in Threads, CheckEntry(t) PROVE Goal
  BY <1>5 DEF CheckEntry
<1>6. ASSUME NEW t \in Threads, Store(t) PROVE Goal
  BY <1>6 DEF Store
<1>7. ASSUME NEW t \in Threads, Reap(t) PROVE Goal
  <2>1. UNCHANGED <<self, made, inst>>
    BY <1>7 DEF Reap
  <2>2. \A c \in Chats : calls'[c] \in {calls[c], None}
    BY <1>7 DEF Reap
  <2>3. chat[t] \in Chats
    BY <1>7 DEF Reap
  <2>4. \A u \in Threads : mine'[u] \in {mine[u], calls[chat[t]]}
    BY <1>7 DEF Reap
  <2>5. None <= made
    OBVIOUS
  <2>6. \A u \in Threads : self'[u] <= made' /\ mine'[u] <= made'
    BY <2>1, <2>3, <2>4
  <2>7. \A c \in Chats : calls'[c] <= made'
    BY <2>1, <2>2, <2>5
  <2> QED
    BY <2>1, <2>6, <2>7
<1>8. ASSUME NEW t \in Threads, StopCall(t) PROVE Goal
  BY <1>8 DEF StopCall
<1>9. ASSUME NEW t \in Threads, Stopped(t) PROVE Goal
  BY <1>9 DEF Stopped
<1>10. ASSUME NEW t \in Threads, CloseVisit(t) PROVE Goal
  BY <1>10 DEF CloseVisit
<1>11. CASE Die
  BY <1>11 DEF Die
<1>12. ASSUME NEW t \in Threads, Resolve(t) PROVE Goal
  BY <1>12 DEF Resolve
<1>13. ASSUME NEW t \in Threads, Lock(t) PROVE Goal
  BY <1>13 DEF Lock
<1>14. ASSUME NEW t \in Threads, CheckState(t) PROVE Goal
  BY <1>14 DEF CheckState
<1>15. ASSUME NEW t \in Threads, DeleteCorpse(t) PROVE Goal
  BY <1>15 DEF DeleteCorpse
<1>16. ASSUME NEW t \in Threads, Params(t) PROVE Goal
  BY <1>16 DEF Params
<1>17. ASSUME NEW t \in Threads, Unlock(t) PROVE Goal
  BY <1>17 DEF Unlock
<1>18. ASSUME NEW t \in Threads, StopDelete(t) PROVE Goal
  BY <1>18 DEF StopDelete
<1>19. ASSUME NEW t \in Threads, OpReturns(t) PROVE Goal
  BY <1>19 DEF OpReturns
<1>20. ASSUME NEW t \in Threads, CloseEnter(t) PROVE Goal
  BY <1>20 DEF CloseEnter
<1>21. ASSUME NEW t \in Threads, CloseFactory(t) PROVE Goal
  BY <1>21 DEF CloseFactory
<1>22. CASE UNCHANGED vars
  BY <1>22
<1> QED
  BY <1>1, <1>2, <1>3, <1>4, <1>5, <1>6, <1>7, <1>8, <1>9, <1>10, <1>11, <1>12,
     <1>13, <1>14, <1>15, <1>16, <1>17, <1>18, <1>19, <1>20, <1>21, <1>22 DEF Next, Step

\* A new number is above all others.
LEMMA DistinctStep ==
  ASSUME TypeOK, Shape, Numbers, Distinct, [Next]_vars
  PROVE  Distinct'
<1> DEFINE Goal == Distinct'
<1> USE ClientAssumption DEF None, At, vars, mapVars, clientVars, instVars, localVars
<1> USE DEF Entry, Found, Delete, Corpse, Unlocked, Forgotten, Reaped, After
<1> USE DEF Swept, GoTo, Take, Return
<1> USE DEF TypeOK, SharedTypes, LocalTypes, NoNilCall, Shape, OpAt, Creates,
        Insts, Numbers, Distinct
<1>1. ASSUME NEW t \in Threads, Enter(t) PROVE Goal
  BY <1>1 DEF Enter
<1>2. ASSUME NEW t \in Threads,
              Resolve(t) \/ Lock(t) \/ CheckEntry(t) \/ CheckState(t) \/
             DeleteCorpse(t) \/ New(t) \/ Store(t) \/ Params(t) \/ Unlock(t) \/
             Lookup(t) \/ Use(t) \/ Reap(t) \/ StopDelete(t) \/ StopCall(t) \/
             Stopped(t) \/ OpReturns(t) \/ CloseEnter(t) \/ CloseVisit(t) \/
             CloseFactory(t)
     PROVE  Goal
  BY <1>2 DEF Resolve, Lock, CheckEntry, CheckState, DeleteCorpse, New, Store,
      Params, Unlock, Lookup, Use, Reap, StopDelete, StopCall, Stopped,
      OpReturns, CloseEnter, CloseVisit, CloseFactory
<1>3. CASE Die \/ UNCHANGED vars
  BY <1>3 DEF Die
<1> QED
  BY <1>1, <1>2, <1>3 DEF Next, Step

\* A number enters the map when its call is stored.
LEMMA NotListedStep ==
  ASSUME TypeOK, Shape, Numbers, Distinct, AtStore, NotListed, [Next]_vars
  PROVE  NotListed'
<1> DEFINE Goal == NotListed'
<1> USE ClientAssumption DEF None, At, vars, mapVars, clientVars, instVars, localVars
<1> USE DEF Entry, Found, Delete, Corpse, Unlocked, Forgotten, Reaped, After
<1> USE DEF Swept, GoTo, Take, Return
<1> USE DEF TypeOK, SharedTypes, LocalTypes, NoNilCall, Shape, OpAt, Creates,
        Insts, Numbers, Distinct, AtStore, NotListed, Unstored
<1>1. ASSUME NEW t \in Threads, Enter(t) PROVE Goal
  BY <1>1 DEF Enter
<1>2. ASSUME NEW t \in Threads, Store(t) PROVE Goal
  BY <1>2 DEF Store
<1>3. ASSUME NEW t \in Threads, Reap(t) PROVE Goal
  BY <1>3 DEF Reap
<1>4. ASSUME NEW t \in Threads, DeleteCorpse(t) PROVE Goal
  BY <1>4 DEF DeleteCorpse
<1>5. ASSUME NEW t \in Threads, StopDelete(t) PROVE Goal
  BY <1>5 DEF StopDelete
<1>6. ASSUME NEW t \in Threads,
              Resolve(t) \/ Lock(t) \/ CheckEntry(t) \/ CheckState(t) \/
             New(t) \/ Params(t) \/ Unlock(t) \/ Lookup(t) \/ Use(t) \/
             StopCall(t) \/ Stopped(t) \/ OpReturns(t) \/ CloseEnter(t) \/
             CloseVisit(t) \/ CloseFactory(t)
     PROVE  Goal
  BY <1>6 DEF Resolve, Lock, CheckEntry, CheckState, New, Params, Unlock,
      Lookup, Use, StopCall, Stopped, OpReturns, CloseEnter, CloseVisit,
      CloseFactory
<1>7. CASE Die \/ UNCHANGED vars
  BY <1>7 DEF Die
<1> QED
  BY <1>1, <1>2, <1>3, <1>4, <1>5, <1>6, <1>7 DEF Next, Step

\* A number is in no other hands, because those only hold what was listed.
LEMMA NotInHandStep ==
  ASSUME TypeOK, Shape, Numbers, Distinct, NotListed, NotInHand, [Next]_vars
  PROVE  NotInHand'
<1> DEFINE Goal == NotInHand'
<1> USE ClientAssumption DEF None, At, vars, mapVars, clientVars, instVars, localVars
<1> USE DEF Entry, Found, Delete, Corpse, Unlocked, Forgotten, Reaped, After
<1> USE DEF Swept, GoTo, Take, Return
<1> USE DEF TypeOK, SharedTypes, LocalTypes, NoNilCall, Shape, OpAt, Creates,
        Insts, Numbers, Distinct, NotListed, NotInHand, Unstored
<1>1. ASSUME NEW t \in Threads, Enter(t) PROVE Goal
  BY <1>1 DEF Enter
<1>2. ASSUME NEW t \in Threads, CheckEntry(t) PROVE Goal
  BY <1>2 DEF CheckEntry
<1>3. ASSUME NEW t \in Threads, New(t) PROVE Goal
  BY <1>3 DEF New
<1>4. ASSUME NEW t \in Threads, Lookup(t) PROVE Goal
  BY <1>4 DEF Lookup
<1>5. ASSUME NEW t \in Threads, Reap(t) PROVE Goal
  BY <1>5 DEF Reap
<1>6. ASSUME NEW t \in Threads, CloseVisit(t) PROVE Goal
  BY <1>6 DEF CloseVisit
<1>7. ASSUME NEW t \in Threads,
              Resolve(t) \/ Lock(t) \/ CheckState(t) \/ DeleteCorpse(t) \/
             Store(t) \/ Params(t) \/ Unlock(t) \/ Use(t) \/ StopDelete(t) \/
             StopCall(t) \/ Stopped(t) \/ OpReturns(t) \/ CloseEnter(t) \/
             CloseFactory(t)
     PROVE  Goal
  BY <1>7 DEF Resolve, Lock, CheckState, DeleteCorpse, Store, Params, Unlock,
      Use, StopDelete, StopCall, Stopped, OpReturns, CloseEnter, CloseFactory
<1>8. CASE Die \/ UNCHANGED vars
  BY <1>8 DEF Die
<1> QED
  BY <1>1, <1>2, <1>3, <1>4, <1>5, <1>6, <1>7, <1>8 DEF Next, Step

\* Only New makes a call.
LEMMA NotYetMadeStep ==
  ASSUME TypeOK, Shape, Numbers, Distinct, NotInHand, NotYetMade, [Next]_vars
  PROVE  NotYetMade'
<1> DEFINE Goal == NotYetMade'
<1> USE ClientAssumption DEF None, At, vars, mapVars, clientVars, instVars, localVars
<1> USE DEF Entry, Found, Delete, Corpse, Unlocked, Forgotten, Reaped, After
<1> USE DEF Swept, GoTo, Take, Return
<1> USE DEF TypeOK, SharedTypes, LocalTypes, NoNilCall, Shape, OpAt, Creates,
        Insts, Numbers, Distinct, NotInHand, NotYetMade, Unstored, InHand
<1>1. ASSUME NEW t \in Threads, Enter(t) PROVE Goal
  BY <1>1 DEF Enter
<1>2. ASSUME NEW t \in Threads, New(t) PROVE Goal
  BY <1>2 DEF New
<1>3. ASSUME NEW t \in Threads, StopCall(t) PROVE Goal
  BY <1>3 DEF StopCall
<1>4. ASSUME NEW t \in Threads, Stopped(t) PROVE Goal
  BY <1>4 DEF Stopped
<1>5. CASE Die
  BY <1>5 DEF Die
<1>6. ASSUME NEW t \in Threads,
              Resolve(t) \/ Lock(t) \/ CheckEntry(t) \/ CheckState(t) \/
             DeleteCorpse(t) \/ Store(t) \/ Params(t) \/ Unlock(t) \/
             Lookup(t) \/ Use(t) \/ Reap(t) \/ StopDelete(t) \/ OpReturns(t) \/
             CloseEnter(t) \/ CloseVisit(t) \/ CloseFactory(t)
     PROVE  Goal
  BY <1>6 DEF Resolve, Lock, CheckEntry, CheckState, DeleteCorpse, Store,
      Params, Unlock, Lookup, Use, Reap, StopDelete, OpReturns, CloseEnter,
      CloseVisit, CloseFactory
<1>7. CASE UNCHANGED vars
  BY <1>7
<1> QED
  BY <1>1, <1>2, <1>3, <1>4, <1>5, <1>6, <1>7 DEF Next, Step

\* A call about to be stored is nobody else's to stop.
LEMMA AtStoreStep ==
  ASSUME TypeOK, Shape, NotInHand, AtStore, [Next]_vars
  PROVE  AtStore'
<1> DEFINE Goal == AtStore'
<1> USE ClientAssumption DEF None, At, vars, mapVars, clientVars, instVars, localVars
<1> USE DEF Entry, Found, Delete, Corpse, Unlocked, Forgotten, Reaped, After
<1> USE DEF Swept, GoTo, Take, Return
<1> USE DEF TypeOK, SharedTypes, LocalTypes, NoNilCall, Shape, OpAt, Creates,
        NotInHand, AtStore, Unstored, Ended, InHand
<1>1. ASSUME NEW t \in Threads, New(t) PROVE Goal
  BY <1>1 DEF New
<1>2. ASSUME NEW t \in Threads, StopCall(t) PROVE Goal
  BY <1>2 DEF StopCall
<1>3. ASSUME NEW t \in Threads, Stopped(t) PROVE Goal
  BY <1>3 DEF Stopped
<1>4. CASE Die
  BY <1>4 DEF Die
<1>5. ASSUME NEW t \in Threads,
              Enter(t) \/ Resolve(t) \/ Lock(t) \/ CheckEntry(t) \/
             CheckState(t) \/ DeleteCorpse(t) \/ Store(t) \/ Params(t) \/
             Unlock(t) \/ Lookup(t) \/ Use(t) \/ Reap(t) \/ StopDelete(t) \/
             OpReturns(t) \/ CloseEnter(t) \/ CloseVisit(t) \/ CloseFactory(t)
     PROVE  Goal
  BY <1>5 DEF Enter, Resolve, Lock, CheckEntry, CheckState, DeleteCorpse, Store,
      Params, Unlock, Lookup, Use, Reap, StopDelete, OpReturns, CloseEnter,
      CloseVisit, CloseFactory
<1>6. CASE UNCHANGED vars
  BY <1>6
<1> QED
  BY <1>1, <1>2, <1>3, <1>4, <1>5, <1>6 DEF Next, Step

\* Only Store lists a call, and the call it lists was listed nowhere.
LEMMA HomesStep ==
  ASSUME TypeOK, Shape, Fresh, Homes, [Next]_vars
  PROVE  Homes'
<1> DEFINE Goal == Homes'
<1> USE ClientAssumption DEF None, At, vars, mapVars, clientVars, instVars, localVars
<1> USE DEF Entry, Found, Delete, Corpse, Unlocked, Forgotten, Reaped, After
<1> USE DEF Swept, GoTo, Take, Return
<1> USE DEF TypeOK, SharedTypes, LocalTypes, NoNilCall, Shape, OpAt, Creates,
        Fresh, NotListed, NotInHand, AtStore, Numbers, Unstored, Homes, InHand
<1>1. ASSUME NEW t \in Threads, Enter(t) PROVE Goal
  <2>1. UNCHANGED <<calls, mine>> /\ mine[t] = None
    BY <1>1 DEF Enter
  <2>2. \A u \in Threads \ {t} : UNCHANGED <<op[u], chat[u]>>
    BY <1>1 DEF Enter
  <2> QED
    BY <2>1, <2>2
<1>2. ASSUME NEW t \in Threads, CheckEntry(t) PROVE Goal
  BY <1>2 DEF CheckEntry
<1>3. ASSUME NEW t \in Threads, New(t) PROVE Goal
  BY <1>3 DEF New
<1>4. ASSUME NEW t \in Threads, Store(t) PROVE Goal
  BY <1>4 DEF Store
<1>5. ASSUME NEW t \in Threads, Lookup(t) PROVE Goal
  BY <1>5 DEF Lookup
<1>6. ASSUME NEW t \in Threads, Reap(t) PROVE Goal
  <2>1. \A c \in Chats : calls'[c] \in {calls[c], None}
    BY <1>6 DEF Reap
  <2>2. UNCHANGED <<op, chat>> /\ chat[t] \in Chats
    BY <1>6 DEF Reap
  <2>3. \A u \in Threads \ {t} : mine'[u] = mine[u]
    BY <1>6 DEF Reap
  <2>4. mine'[t] \in {mine[t], calls[chat[t]]}
    BY <1>6 DEF Reap
  <2> QED
    BY <2>1, <2>2, <2>3, <2>4
<1>7. ASSUME NEW t \in Threads, DeleteCorpse(t) PROVE Goal
  BY <1>7 DEF DeleteCorpse
<1>8. ASSUME NEW t \in Threads, StopDelete(t) PROVE Goal
  BY <1>8 DEF StopDelete
<1>9. ASSUME NEW t \in Threads, CloseVisit(t) PROVE Goal
  BY <1>9 DEF CloseVisit
<1>10. ASSUME NEW t \in Threads, Resolve(t) PROVE Goal
  BY <1>10 DEF Resolve
<1>11. ASSUME NEW t \in Threads, Lock(t) PROVE Goal
  BY <1>11 DEF Lock
<1>12. ASSUME NEW t \in Threads, CheckState(t) PROVE Goal
  BY <1>12 DEF CheckState
<1>13. ASSUME NEW t \in Threads, Params(t) PROVE Goal
  BY <1>13 DEF Params
<1>14. ASSUME NEW t \in Threads, Unlock(t) PROVE Goal
  BY <1>14 DEF Unlock
<1>15. ASSUME NEW t \in Threads, Use(t) PROVE Goal
  BY <1>15 DEF Use
<1>16. ASSUME NEW t \in Threads, StopCall(t) PROVE Goal
  BY <1>16 DEF StopCall
<1>17. ASSUME NEW t \in Threads, Stopped(t) PROVE Goal
  BY <1>17 DEF Stopped
<1>18. ASSUME NEW t \in Threads, OpReturns(t) PROVE Goal
  BY <1>18 DEF OpReturns
<1>19. ASSUME NEW t \in Threads, CloseEnter(t) PROVE Goal
  BY <1>19 DEF CloseEnter
<1>20. ASSUME NEW t \in Threads, CloseFactory(t) PROVE Goal
  BY <1>20 DEF CloseFactory
<1>21. CASE Die \/ UNCHANGED vars
  BY <1>21 DEF Die
<1> QED
  BY <1>1, <1>2, <1>3, <1>4, <1>5, <1>6, <1>7, <1>8, <1>9, <1>10, <1>11, <1>12,
     <1>13, <1>14, <1>15, <1>16, <1>17, <1>18, <1>19, <1>20, <1>21 DEF Next, Step

\* What a goroutine is about to stop it has taken off, and nobody lists it again.
LEMMA UnlistedStep ==
  ASSUME TypeOK, Shape, Fresh, Homes, Watched, Unlisted, [Next]_vars
  PROVE  Unlisted'
<1> DEFINE Goal == Unlisted'
<1> USE ClientAssumption DEF None, At, vars, mapVars, clientVars, instVars, localVars
<1> USE DEF Entry, Found, Delete, Corpse, Unlocked, Forgotten, Reaped, After
<1> USE DEF Swept, GoTo, Take, Return
<1> USE DEF TypeOK, SharedTypes, LocalTypes, NoNilCall, Shape, OpAt, Creates,
        Fresh, NotInHand, AtStore, Unstored, Homes, Watched, Unlisted, InHand,
        Ended
<1>1. ASSUME NEW t \in Threads, DeleteCorpse(t) PROVE Goal
  BY <1>1 DEF DeleteCorpse
<1>2. ASSUME NEW t \in Threads, Store(t) PROVE Goal
  BY <1>2 DEF Store
<1>3. ASSUME NEW t \in Threads, Reap(t) PROVE Goal
  BY <1>3 DEF Reap
<1>4. ASSUME NEW t \in Threads, StopDelete(t) PROVE Goal
  BY <1>4 DEF StopDelete
<1>5. ASSUME NEW t \in Threads, StopCall(t) PROVE Goal
  BY <1>5 DEF StopCall
<1>6. ASSUME NEW t \in Threads, Stopped(t) PROVE Goal
  BY <1>6 DEF Stopped
<1>7. ASSUME NEW t \in Threads, CloseVisit(t) PROVE Goal
  BY <1>7 DEF CloseVisit
<1>8. CASE Die
  BY <1>8 DEF Die
<1>9. ASSUME NEW t \in Threads,
              Enter(t) \/ Resolve(t) \/ Lock(t) \/ CheckEntry(t) \/
             CheckState(t) \/ New(t) \/ Params(t) \/ Unlock(t) \/ Lookup(t) \/
             Use(t) \/ OpReturns(t) \/ CloseEnter(t) \/ CloseFactory(t)
     PROVE  Goal
  BY <1>9 DEF Enter, Resolve, Lock, CheckEntry, CheckState, New, Params, Unlock,
      Lookup, Use, OpReturns, CloseEnter, CloseFactory
<1>10. CASE UNCHANGED vars
  BY <1>10
<1> QED
  BY <1>1, <1>2, <1>3, <1>4, <1>5, <1>6, <1>7, <1>8, <1>9, <1>10 DEF Next, Step

\* Only an unlisted call is stopped before Close.
LEMMA CorpseStep ==
  ASSUME TypeOK, Shape, Fresh, Unlisted, OneClose, CorpseNeverListed, [Next]_vars
  PROVE  CorpseNeverListed'
<1> DEFINE Goal == CorpseNeverListed'
<1> USE ClientAssumption DEF None, At, vars, mapVars, clientVars, instVars, localVars
<1> USE DEF Entry, Found, Delete, Corpse, Unlocked, Forgotten, Reaped, After
<1> USE DEF Swept, GoTo, Take, Return
<1> USE DEF TypeOK, SharedTypes, LocalTypes, NoNilCall, Shape, OpAt, Creates,
        Fresh, AtStore, Unlisted, OneClose, CorpseNeverListed, Ended, InHand,
        NotListed, Unstored
<1>1. ASSUME NEW t \in Threads, Store(t) PROVE Goal
  BY <1>1 DEF Store
<1>2. ASSUME NEW t \in Threads, DeleteCorpse(t) PROVE Goal
  BY <1>2 DEF DeleteCorpse
<1>3. ASSUME NEW t \in Threads, Reap(t) PROVE Goal
  BY <1>3 DEF Reap
<1>4. ASSUME NEW t \in Threads, StopDelete(t) PROVE Goal
  BY <1>4 DEF StopDelete
<1>5. ASSUME NEW t \in Threads, StopCall(t) PROVE Goal
  BY <1>5 DEF StopCall
<1>6. ASSUME NEW t \in Threads, Stopped(t) PROVE Goal
  BY <1>6 DEF Stopped
<1>7. ASSUME NEW t \in Threads, CloseEnter(t) PROVE Goal
  BY <1>7 DEF CloseEnter
<1>8. CASE Die
  BY <1>8 DEF Die
<1>9. ASSUME NEW t \in Threads,
              Enter(t) \/ Resolve(t) \/ Lock(t) \/ CheckEntry(t) \/
             CheckState(t) \/ New(t) \/ Params(t) \/ Unlock(t) \/ Lookup(t) \/
             Use(t) \/ OpReturns(t) \/ CloseVisit(t) \/ CloseFactory(t)
     PROVE  Goal
  BY <1>9 DEF Enter, Resolve, Lock, CheckEntry, CheckState, New, Params, Unlock,
      Lookup, Use, OpReturns, CloseVisit, CloseFactory
<1>10. CASE UNCHANGED vars
  BY <1>10
<1> QED
  BY <1>1, <1>2, <1>3, <1>4, <1>5, <1>6, <1>7, <1>8, <1>9, <1>10 DEF Next, Step

\* Only the first Close gets past its compare-and-swap.
LEMMA OneCloseStep ==
  ASSUME TypeOK, Shape, OneClose, [Next]_vars
  PROVE  OneClose'
<1> DEFINE Goal == OneClose'
<1> USE ClientAssumption DEF None, At, vars, mapVars, clientVars, instVars, localVars
<1> USE DEF Entry, Found, Delete, Corpse, Unlocked, Forgotten, Reaped, After
<1> USE DEF Swept, GoTo, Take, Return
<1> USE DEF TypeOK, SharedTypes, LocalTypes, NoNilCall, Shape, OpAt, Creates,
        OneClose
<1>1. ASSUME NEW t \in Threads, Enter(t) PROVE Goal
  BY <1>1 DEF Enter
<1>2. ASSUME NEW t \in Threads, CloseEnter(t) PROVE Goal
  BY <1>2 DEF CloseEnter
<1>3. ASSUME NEW t \in Threads, CloseFactory(t) PROVE Goal
  BY <1>3 DEF CloseFactory
<1>4. ASSUME NEW t \in Threads, Resolve(t) PROVE Goal
  BY <1>4 DEF Resolve
<1>5. ASSUME NEW t \in Threads, Lock(t) PROVE Goal
  BY <1>5 DEF Lock
<1>6. ASSUME NEW t \in Threads, CheckEntry(t) PROVE Goal
  BY <1>6 DEF CheckEntry
<1>7. ASSUME NEW t \in Threads, CheckState(t) PROVE Goal
  BY <1>7 DEF CheckState
<1>8. ASSUME NEW t \in Threads, DeleteCorpse(t) PROVE Goal
  BY <1>8 DEF DeleteCorpse
<1>9. ASSUME NEW t \in Threads, New(t) PROVE Goal
  BY <1>9 DEF New
<1>10. ASSUME NEW t \in Threads, Store(t) PROVE Goal
  BY <1>10 DEF Store
<1>11. ASSUME NEW t \in Threads, Params(t) PROVE Goal
  BY <1>11 DEF Params
<1>12. ASSUME NEW t \in Threads, Unlock(t) PROVE Goal
  BY <1>12 DEF Unlock
<1>13. ASSUME NEW t \in Threads, Lookup(t) PROVE Goal
  BY <1>13 DEF Lookup
<1>14. ASSUME NEW t \in Threads, Use(t) PROVE Goal
  BY <1>14 DEF Use
<1>15. ASSUME NEW t \in Threads, Reap(t) PROVE Goal
  BY <1>15 DEF Reap
<1>16. ASSUME NEW t \in Threads, StopDelete(t) PROVE Goal
  BY <1>16 DEF StopDelete
<1>17. ASSUME NEW t \in Threads, StopCall(t) PROVE Goal
  BY <1>17 DEF StopCall
<1>18. ASSUME NEW t \in Threads, Stopped(t) PROVE Goal
  BY <1>18 DEF Stopped
<1>19. ASSUME NEW t \in Threads, OpReturns(t) PROVE Goal
  BY <1>19 DEF OpReturns
<1>20. ASSUME NEW t \in Threads, CloseVisit(t) PROVE Goal
  BY <1>20 DEF CloseVisit
<1>21. CASE Die \/ UNCHANGED vars
  BY <1>21 DEF Die
<1> QED
  BY <1>1, <1>2, <1>3, <1>4, <1>5, <1>6, <1>7, <1>8, <1>9, <1>10, <1>11, <1>12,
     <1>13, <1>14, <1>15, <1>16, <1>17, <1>18, <1>19, <1>20, <1>21 DEF Next, Step

\* An entry that Close has visited changes only by a removal or a late store.
LEMMA VisitedStep ==
  ASSUME TypeOK, Shape, Fresh, OneClose, Visited, [Next]_vars
  PROVE  Visited'
<1> DEFINE Goal == Visited'
<1> USE ClientAssumption DEF None, At, vars, mapVars, clientVars, instVars, localVars
<1> USE DEF Entry, Found, Delete, Corpse, Unlocked, Forgotten, Reaped, After
<1> USE DEF Swept, GoTo, Take, Return
<1> USE DEF TypeOK, SharedTypes, LocalTypes, NoNilCall, Shape, OpAt, Creates,
        Fresh, NotListed, Unstored, OneClose, Visited, InCloseHands, Ended,
        InHand
<1>1. ASSUME NEW t \in Threads, DeleteCorpse(t) PROVE Goal
  BY <1>1 DEF DeleteCorpse
<1>2. ASSUME NEW t \in Threads, Store(t) PROVE Goal
  BY <1>2 DEF Store
<1>3. ASSUME NEW t \in Threads, Reap(t) PROVE Goal
  BY <1>3 DEF Reap
<1>4. ASSUME NEW t \in Threads, StopDelete(t) PROVE Goal
  BY <1>4 DEF StopDelete
<1>5. ASSUME NEW t \in Threads, StopCall(t) PROVE Goal
  BY <1>5 DEF StopCall
<1>6. ASSUME NEW t \in Threads, Stopped(t) PROVE Goal
  BY <1>6 DEF Stopped
<1>7. ASSUME NEW t \in Threads, CloseEnter(t) PROVE Goal
  BY <1>7 DEF CloseEnter
<1>8. ASSUME NEW t \in Threads, CloseVisit(t) PROVE Goal
  BY <1>8 DEF CloseVisit
<1>9. ASSUME NEW t \in Threads, CloseFactory(t) PROVE Goal
  BY <1>9 DEF CloseFactory
<1>10. CASE Die
  BY <1>10 DEF Die
<1>11. ASSUME NEW t \in Threads, Enter(t) PROVE Goal
  BY <1>11 DEF Enter
<1>12. ASSUME NEW t \in Threads, Resolve(t) PROVE Goal
  BY <1>12 DEF Resolve
<1>13. ASSUME NEW t \in Threads, Lock(t) PROVE Goal
  BY <1>13 DEF Lock
<1>14. ASSUME NEW t \in Threads, CheckEntry(t) PROVE Goal
  BY <1>14 DEF CheckEntry
<1>15. ASSUME NEW t \in Threads, CheckState(t) PROVE Goal
  BY <1>15 DEF CheckState
<1>16. ASSUME NEW t \in Threads, New(t) PROVE Goal
  BY <1>16 DEF New
<1>17. ASSUME NEW t \in Threads, Params(t) PROVE Goal
  BY <1>17 DEF Params
<1>18. ASSUME NEW t \in Threads, Unlock(t) PROVE Goal
  BY <1>18 DEF Unlock
<1>19. ASSUME NEW t \in Threads, Lookup(t) PROVE Goal
  BY <1>19 DEF Lookup
<1>20. ASSUME NEW t \in Threads, Use(t) PROVE Goal
  BY <1>20 DEF Use
<1>21. ASSUME NEW t \in Threads, OpReturns(t) PROVE Goal
  BY <1>21 DEF OpReturns
<1>22. CASE UNCHANGED vars
  BY <1>22
<1> QED
  BY <1>1, <1>2, <1>3, <1>4, <1>5, <1>6, <1>7, <1>8, <1>9, <1>10, <1>11, <1>12,
     <1>13, <1>14, <1>15, <1>16, <1>17, <1>18, <1>19, <1>20, <1>21, <1>22 DEF Next, Step


\* All of it is kept.
LEMMA InvariantStep == IInv /\ [Next]_vars => IInv'
<1> SUFFICES ASSUME IInv, [Next]_vars PROVE IInv'
  OBVIOUS
<1>1. TypeOK /\ Shape /\ Mutexes /\ Alone /\ Free /\ Watched
  BY DEF IInv, Base
<1>2. TypeOK' /\ Shape'
  BY <1>1, SharedStep, LocalStep, HandStep, ShapeStep DEF TypeOK
<1>3. Mutexes' /\ Alone' /\ Free' /\ Watched'
  BY <1>1, MutexStep, AloneStep, FreeStep, WatchedStep
<1>4. Fresh'
  BY <1>1, NumbersStep, DistinctStep, NotListedStep, NotInHandStep, NotYetMadeStep,
     AtStoreStep DEF IInv, Fresh
<1>5. Homes' /\ Unlisted'
  BY <1>1, HomesStep, UnlistedStep DEF IInv
<1>6. CorpseNeverListed' /\ OneClose' /\ Visited'
  BY <1>1, CorpseStep, OneCloseStep, VisitedStep DEF IInv
<1> QED
  BY <1>2, <1>3, <1>4, <1>5, <1>6 DEF IInv, Base


\* A new client lists no call.
LEMMA Initially == Init => IInv
<1> SUFFICES ASSUME Init PROVE IInv
  OBVIOUS
<1> USE ClientAssumption DEF Init, None
<1>1. TypeOK /\ Shape
  <2>1. SharedTypes
    <3>1. made \in 0 .. MaxCreates
      OBVIOUS
    <3>2. calls \in [Chats -> Insts \cup {None}] /\ createMu \in [Chats -> Insts \cup {None}]
      OBVIOUS
    <3>3. /\ holder \in [Insts -> Threads \cup {Nil}]
          /\ inst \in [Insts -> {"none", "live", "rtmp", "dead"} \cup Ended]
      OBVIOUS
    <3>4. /\ closed \in BOOLEAN /\ factoryClosed \in BOOLEAN
          /\ left \in SUBSET Chats /\ late \in SUBSET Insts
      OBVIOUS
    <3> QED
      BY <3>1, <3>2, <3>3, <3>4 DEF SharedTypes
  <2>2. LocalTypes /\ NoNilCall
    BY DEF LocalTypes, NoNilCall, Places, InHand
  <2>3. Shape
    BY DEF Shape, OpAt, Creates
  <2> QED
    BY <2>1, <2>2, <2>3 DEF TypeOK
<1>2. Mutexes /\ Free /\ Alone /\ Watched
  BY DEF Mutexes, HasMutex, Free, Alone, Founding, Watched, Creates, Ended
<1>3. Fresh /\ Homes /\ Unlisted
  BY DEF Insts, Fresh, Numbers, Distinct, NotListed, NotInHand, NotYetMade, AtStore, Unstored,
         Homes, Unlisted, Creates
<1>4. CorpseNeverListed /\ OneClose /\ Visited
  BY DEF CorpseNeverListed, OneClose, Visited
<1> QED
  BY <1>1, <1>2, <1>3, <1>4 DEF IInv, Base

\* The layers together.
THEOREM Invariant == Spec => []IInv
BY InvariantStep, Initially, PTL DEF Spec

-----------------------------------------------------------------------------
\* Types, for any goroutines and chats.
THEOREM ClientTypes == Spec => []TypeOK
<1>1. IInv => TypeOK
  BY DEF IInv, Base
<1> QED
  BY <1>1, Invariant, PTL

\* CreateCall and StartRTMP found at most one call of a chat at a time.
THEOREM CreationsExclude == Spec => []OneWinner
<1>1. IInv => OneWinner
  BY DEF IInv, Base, Free, Alone, OneWinner
<1> QED
  BY <1>1, Invariant, PTL

\* Until Close, no operation can look up a call that is being stopped.
THEOREM ListedCallsAreNotEnded == Spec => []CorpseNeverListed
<1>1. IInv => CorpseNeverListed
  BY DEF IInv
<1> QED
  BY <1>1, Invariant, PTL

\* Close leaves no listed call running but one created as it began.
THEOREM CloseStopsListed == Spec => []CloseSweeps
<1>1. IInv => CloseSweeps
  BY DEF IInv, OneClose, Visited, InCloseHands, CloseSweeps
<1> QED
  BY <1>1, Invariant, PTL

\* Only Stop takes a call off the map without stopping it.
THEOREM RemovedCallsAreStopped == Spec => NoCallLost
<1> DEFINE Kept ==
      \A c \in Chats : calls[c] # None /\ calls'[c] # calls[c] =>
        \/ inst[calls[c]] \in Ended
        \/ \E t \in Threads : pc'[t] = "stop" /\ mine'[t] = calls[c]
        \/ \E t \in Threads : StopDelete(t)
<1>1. IInv /\ [Next]_vars => [Kept]_vars
  <2> SUFFICES ASSUME IInv, [Next]_vars PROVE Kept
    OBVIOUS
  <2> USE DEF None, At
  <2>0. SharedTypes /\ LocalTypes /\ Free /\ Watched
    BY DEF IInv, Base, TypeOK
  <2>1. CASE UNCHANGED calls
    BY <2>1
  <2>2. ASSUME NEW t \in Threads, DeleteCorpse(t) PROVE Kept
    BY <2>0, <2>2 DEF DeleteCorpse, Delete, GoTo, localVars, SharedTypes, LocalTypes,
       Watched, Entry
  <2>3. ASSUME NEW t \in Threads, Store(t) PROVE Kept
    BY <2>0, <2>3 DEF Store, SharedTypes, LocalTypes, Free, Founding, Entry
  <2>4. ASSUME NEW t \in Threads, Reap(t) PROVE Kept
    BY <2>0, <2>4 DEF Reap, Reaped, Take, Found, Entry, SharedTypes, LocalTypes
  <2>5. ASSUME NEW t \in Threads, StopDelete(t) PROVE Kept
    BY <2>5
  <2>6. CASE Die \/ UNCHANGED vars
    BY <2>1, <2>6 DEF Die, vars, mapVars
  <2>7. ASSUME NEW t \in Threads, Enter(t) \/ CloseEnter(t) \/ Step(t) PROVE Kept
    BY <2>1, <2>2, <2>3, <2>4, <2>5, <2>7
       DEF Step, Enter, CloseEnter, Resolve, Lock, CheckEntry, CheckState, New, Params,
           Unlock, Lookup, Use, StopCall, Stopped, OpReturns, CloseVisit, CloseFactory,
           mapVars
  <2> QED
    BY <2>6, <2>7 DEF Next
<1> QED
  BY <1>1, Invariant, PTL DEF Spec, NoCallLost

-----------------------------------------------------------------------------
(* The refinement of Registry.                                             *)

\* A call that is listed, or in someone's hands, was made.
Known ==
  /\ \A c \in Chats : calls[c] # None => inst[calls[c]] # "none"
  /\ \A t \in Threads : pc[t] \in InHand => inst[mine[t]] # "none"

\* A call that was made stays made, and is passed on from the map or its maker.
LEMMA KnownStep ==
  ASSUME TypeOK, Shape, Known, [Next]_vars
  PROVE  Known'
<1> DEFINE Goal == Known'
<1> USE ClientAssumption DEF None, At, vars, mapVars, clientVars, instVars, localVars
<1> USE DEF Entry, Found, Delete, Corpse, Unlocked, Forgotten, Reaped, After
<1> USE DEF Swept, GoTo, Take, Return
<1> USE DEF TypeOK, SharedTypes, LocalTypes, NoNilCall, Shape, OpAt, Creates, Ended, InHand, Known
<1>1. ASSUME NEW t \in Threads, New(t) PROVE Goal
  BY <1>1 DEF New
<1>2. ASSUME NEW t \in Threads, Store(t) PROVE Goal
  BY <1>2 DEF Store
<1>3. ASSUME NEW t \in Threads, Reap(t) PROVE Goal
  BY <1>3 DEF Reap
<1>4. ASSUME NEW t \in Threads, StopDelete(t) PROVE Goal
  BY <1>4 DEF StopDelete
<1>5. ASSUME NEW t \in Threads, DeleteCorpse(t) PROVE Goal
  BY <1>5 DEF DeleteCorpse
<1>6. ASSUME NEW t \in Threads, StopCall(t) PROVE Goal
  BY <1>6 DEF StopCall
<1>7. ASSUME NEW t \in Threads, Stopped(t) PROVE Goal
  BY <1>7 DEF Stopped
<1>8. ASSUME NEW t \in Threads, CloseVisit(t) PROVE Goal
  BY <1>8 DEF CloseVisit
<1>9. ASSUME NEW t \in Threads, CheckEntry(t) PROVE Goal
  BY <1>9 DEF CheckEntry
<1>10. ASSUME NEW t \in Threads, Lookup(t) PROVE Goal
  BY <1>10 DEF Lookup
<1>11. CASE Die
  BY <1>11 DEF Die
<1>12. ASSUME NEW t \in Threads, Enter(t) PROVE Goal
  BY <1>12 DEF Enter
<1>13. ASSUME NEW t \in Threads,
              Resolve(t) \/ Lock(t) \/ CheckState(t) \/ Params(t) \/ Unlock(t) \/ Use(t)
     PROVE  Goal
  BY <1>13 DEF Resolve, Lock, CheckState, Params, Unlock, Use
<1>14. ASSUME NEW t \in Threads, OpReturns(t) \/ CloseEnter(t) \/ CloseFactory(t) PROVE Goal
  BY <1>14 DEF OpReturns, CloseEnter, CloseFactory
<1>15. CASE UNCHANGED vars
  BY <1>15
<1> QED
  BY <1>1, <1>2, <1>3, <1>4, <1>5, <1>6, <1>7, <1>8, <1>9, <1>10, <1>11, <1>12,
     <1>13, <1>14, <1>15 DEF Next, Step

\* A step that neither brings a creation to its store nor from it changes the
\* life of a call only as it changes the call.
LEMMA SameLife ==
  ASSUME \A t \in Threads : pc'[t] = "store" <=> pc[t] = "store",
         \A t \in Threads : pc[t] = "store" => self'[t] = self[t],
         NEW i \in Insts, inst'[i] = inst[i]
  PROVE  lives'[i] = lives[i]
<1>1. Unseen(i)' <=> Unseen(i)
  BY DEF Unseen
<1> QED
  BY <1>1 DEF lives

\* If one call changes its life, the lives change at that call.
LEMMA OneLife ==
  ASSUME NEW i \in Insts, \A j \in Insts \ {i} : lives'[j] = lives[j]
  PROVE  lives' = [lives EXCEPT ![i] = lives'[i]]
<1>1. lives = [j \in Insts |-> lives[j]] /\ lives' = [j \in Insts |-> lives'[j]]
  BY DEF lives
<1> QED
  BY <1>1

\* If none does, they are the same.
LEMMA NoLife ==
  ASSUME \A j \in Insts : lives'[j] = lives[j]
  PROVE  lives' = lives
<1>1. lives = [j \in Insts |-> lives[j]] /\ lives' = [j \in Insts |-> lives'[j]]
  BY DEF lives
<1> QED
  BY <1>1

\* The call a goroutine has in hand to stop was stored, so its life is its state.
LEMMA InHandIsSeen ==
  ASSUME TypeOK, Fresh, NEW t \in Threads, pc[t] \in {"stop", "stopping"}, Shape
  PROVE  mine[t] \in Insts /\ ~Unseen(mine[t])
<1>1. mine[t] \in Insts
  BY DEF TypeOK, LocalTypes, NoNilCall, InHand
<1>2. ASSUME NEW u \in Threads, pc[u] = "store", self[u] = mine[t] PROVE FALSE
  BY <1>2 DEF Fresh, NotInHand, Unstored, Shape, OpAt
<1> QED
  BY <1>1, <1>2 DEF Unseen

\* Making a call is nothing yet to the user.
LEMMA NewStutters ==
  ASSUME TypeOK, Shape, Fresh, NEW t \in Threads, New(t)
  PROVE  UNCHANGED <<calls, lives, closed>>
<1>1. UNCHANGED <<calls, closed>>
  BY DEF New, mapVars, clientVars
<1>2. CASE UNCHANGED inst /\ GoTo(t, "unlock")
  <2>1. \A u \in Threads : pc'[u] = "store" <=> pc[u] = "store"
    BY <1>2 DEF New, At, GoTo, TypeOK, LocalTypes
  <2>2. UNCHANGED self
    BY <1>2 DEF GoTo, localVars
  <2> QED
    BY <1>1, <1>2, <2>1, <2>2, SameLife, NoLife
<1>3. CASE Take(t, "store", self[t])
  <2>1. self[t] \in Insts /\ inst[self[t]] = "none"
    BY DEF New, At, TypeOK, LocalTypes, Shape, OpAt, None, Fresh, NotYetMade, Unstored
  <2>2. UNCHANGED self /\ pc'[t] = "store" /\ \A u \in Threads \ {t} : pc'[u] = pc[u]
    BY <1>3 DEF Take, TypeOK, LocalTypes
  <2>3. pc[t] = "new" /\ \A j \in Insts \ {self[t]} : inst'[j] = inst[j]
    BY <1>3 DEF New, At, TypeOK, SharedTypes
  <2>4. ASSUME NEW j \in Insts \ {self[t]} PROVE lives'[j] = lives[j]
    <3>1. Unseen(j)' <=> Unseen(j)
      BY <2>2, <2>3 DEF Unseen
    <3> QED
      BY <2>3, <3>1 DEF lives
  <2>5. lives'[self[t]] = "none"
    <3>1. Unseen(self[t])'
      BY <2>2 DEF Unseen
    <3> QED
      BY <2>1, <2>2, <3>1 DEF lives
  <2>6. lives[self[t]] = "none"
    BY <2>1 DEF lives
  <2> QED
    BY <1>1, <2>4, <2>5, <2>6, NoLife
<1> QED
  BY <1>2, <1>3 DEF New

\* Storing it is the creation, into a chat that has no call.
LEMMA StoreCreates ==
  ASSUME TypeOK, Shape, Fresh, Free, Known, NEW t \in Threads, Store(t)
  PROVE  chat[t] \in Chats /\ self[t] \in Insts /\ Users!Create(chat[t], self[t])
<1>1. /\ pc[t] = "store" /\ self[t] \in Insts /\ mine[t] = self[t] /\ chat[t] \in Chats
      /\ inst[self[t]] \notin Ended \cup {"none"}
  BY DEF Store, At, TypeOK, LocalTypes, NoNilCall, InHand, Shape, OpAt, None, Fresh, AtStore,
         Creates, Known
<1>2. /\ UNCHANGED <<inst, self, closed>>
      /\ pc'[t] # "store" /\ \A u \in Threads \ {t} : pc'[u] = pc[u]
  BY DEF Store, GoTo, localVars, clientVars, TypeOK, LocalTypes
<1>3. calls[chat[t]] = 0 /\ calls' = [calls EXCEPT ![chat[t]] = self[t]]
  BY <1>1 DEF Store, Free, Founding, Entry, None
<1>4. \A u \in Threads \ {t} : self[u] # self[t]
  BY <1>1 DEF Fresh, Distinct, None, Insts, TypeOK, LocalTypes
<1>5. ~Unseen(self[t])' /\ Unseen(self[t])
  BY <1>1, <1>2, <1>4 DEF Unseen
<1>6. lives[self[t]] = "none"
  BY <1>1, <1>5 DEF lives
<1>7. lives'[self[t]] \in {"live", "dead"}
  <2>1. inst[self[t]] \in {"live", "rtmp", "dead"}
    BY <1>1 DEF TypeOK, SharedTypes, Ended
  <2>2. inst'[self'[t]] = inst[self[t]] /\ self'[t] = self[t]
    BY <1>2
  <2> QED
    BY <1>1, <1>5, <2>1, <2>2 DEF lives
<1>8. ASSUME NEW j \in Insts \ {self[t]} PROVE lives'[j] = lives[j]
  <2>1. Unseen(j)' <=> Unseen(j)
    BY <1>2 DEF Unseen
  <2> QED
    BY <1>2, <2>1 DEF lives
<1>9. lives' = [lives EXCEPT ![self[t]] = lives'[self[t]]]
  BY <1>1, <1>8, OneLife
<1> QED
  BY <1>1, <1>2, <1>3, <1>6, <1>7, <1>9 DEF Users!Create, Users!Becomes, Users!NoCall

\* The first to stop a call begins its end, and it is off the map or Close has begun.
LEMMA StopCallBegins ==
  ASSUME TypeOK, Shape, Fresh, Unlisted, OneClose, Known, NEW t \in Threads, StopCall(t)
  PROVE  UNCHANGED <<calls, lives, closed>> \/ Users!BeginStop(mine[t])
<1>1. mine[t] \in Insts /\ ~Unseen(mine[t]) /\ pc[t] = "stop"
  BY InHandIsSeen DEF StopCall, At
<1>2. UNCHANGED <<calls, closed>>
  BY DEF StopCall, mapVars, clientVars
<1>3. UNCHANGED self /\ \A u \in Threads : pc'[u] = "store" <=> pc[u] = "store"
  BY <1>1 DEF StopCall, GoTo, localVars, After, TypeOK, LocalTypes, Creates
<1>4. CASE inst[mine[t]] \in Ended
  BY <1>2, <1>3, <1>4, SameLife, NoLife DEF StopCall
<1>5. CASE inst[mine[t]] \notin Ended
  <2>1. inst' = [inst EXCEPT ![mine[t]] = "stopping"]
    BY <1>5 DEF StopCall
  <2>2. inst[mine[t]] \in {"live", "rtmp", "dead"}
    BY <1>1, <1>5 DEF Known, InHand, TypeOK, SharedTypes
  <2>3. closed \/ \A c \in Chats : calls[c] # mine[t]
    BY <1>1 DEF Unlisted, OneClose
  <2>4. lives[mine[t]] \in {"live", "dead"}
    BY <1>1, <2>2 DEF lives
  <2>5. ~Unseen(mine[t])'
    <3>1. UNCHANGED mine
      BY DEF StopCall, GoTo, localVars
    <3> QED
      BY <1>1, <1>3, <3>1 DEF Unseen
  <2>6. lives'[mine[t]] = "stopping"
    <3>1. mine'[t] = mine[t] /\ inst'[mine[t]] = "stopping"
      BY <1>1, <2>1 DEF TypeOK, SharedTypes, StopCall, GoTo, localVars
    <3> QED
      BY <1>1, <2>5, <3>1 DEF lives
  <2>7. \A j \in Insts \ {mine[t]} : lives'[j] = lives[j]
    BY <1>3, <2>1, SameLife DEF TypeOK, SharedTypes
  <2>8. lives' = [lives EXCEPT ![mine[t]] = "stopping"]
    BY <1>1, <2>6, <2>7, OneLife
  <2> QED
    BY <1>2, <2>3, <2>4, <2>8 DEF Users!BeginStop, Users!Listed, Users!Becomes
<1> QED
  BY <1>4, <1>5

\* It ends once.
LEMMA StoppedEnds ==
  ASSUME TypeOK, Shape, Fresh, Unlisted, NEW t \in Threads, Stopped(t)
  PROVE  UNCHANGED <<calls, lives, closed>> \/ Users!EndStop(mine[t])
<1>1. mine[t] \in Insts /\ ~Unseen(mine[t]) /\ pc[t] = "stopping"
  BY InHandIsSeen DEF Stopped, At
<1>2. UNCHANGED <<calls, closed, self, mine>>
  BY DEF Stopped, mapVars, clientVars, GoTo, localVars
<1>3. \A u \in Threads : pc'[u] = "store" <=> pc[u] = "store"
  BY <1>1 DEF Stopped, GoTo, After, TypeOK, LocalTypes, Creates
<1>4. inst' = [inst EXCEPT ![mine[t]] = "stopped"] /\ inst[mine[t]] \in Ended
  BY <1>1 DEF Stopped, Unlisted
<1>5. lives[mine[t]] = inst[mine[t]]
  BY <1>1, <1>4 DEF lives, Ended
<1>6. lives'[mine[t]] = "stopped"
  <2>1. ~Unseen(mine[t])'
    BY <1>1, <1>2, <1>3 DEF Unseen
  <2>2. mine'[t] = mine[t] /\ inst'[mine[t]] = "stopped"
    BY <1>1, <1>2, <1>4 DEF TypeOK, SharedTypes
  <2> QED
    BY <1>1, <2>1, <2>2 DEF lives
<1>7. \A j \in Insts \ {mine[t]} : lives'[j] = lives[j]
  BY <1>2, <1>3, <1>4, SameLife DEF TypeOK, SharedTypes
<1>8. lives' = [lives EXCEPT ![mine[t]] = "stopped"]
  BY <1>1, <1>6, <1>7, OneLife
<1>9. CASE inst[mine[t]] = "stopping"
  BY <1>2, <1>5, <1>8, <1>9 DEF Users!EndStop, Users!Becomes
<1>10. CASE inst[mine[t]] = "stopped"
  BY <1>2, <1>5, <1>6, <1>7, <1>10, NoLife
<1> QED
  BY <1>4, <1>9, <1>10 DEF Ended

\* A connection that fails before its call is stored is no event either.
LEMMA DieDies ==
  ASSUME TypeOK, Die
  PROVE  UNCHANGED <<calls, lives, closed>> \/ \E i \in Insts : Users!Die(i)
<1>1. PICK i \in Insts : inst[i] = "live" /\ inst' = [inst EXCEPT ![i] = "dead"]
  BY DEF Die
<1>2. UNCHANGED <<calls, closed, self, pc>>
  BY DEF Die, mapVars, clientVars, localVars
<1>3. \A j \in Insts \ {i} : lives'[j] = lives[j]
  BY <1>1, <1>2, SameLife DEF TypeOK, SharedTypes
<1>4. Unseen(i)' <=> Unseen(i)
  BY <1>2 DEF Unseen
<1>5. inst'[i] = "dead"
  BY <1>1 DEF TypeOK, SharedTypes
<1>6. CASE Unseen(i)
  <2>1. lives'[i] = "none" /\ lives[i] = "none"
    BY <1>4, <1>6 DEF lives
  <2> QED
    BY <1>2, <1>3, <2>1, NoLife
<1>7. CASE ~Unseen(i)
  <2>1. lives[i] = "live" /\ lives'[i] = "dead"
    BY <1>1, <1>4, <1>5, <1>7 DEF lives
  <2>2. lives' = [lives EXCEPT ![i] = "dead"]
    BY <1>3, <2>1, OneLife
  <2> QED
    BY <1>2, <2>1, <2>2 DEF Users!Die, Users!Becomes
<1> QED
  BY <1>6, <1>7

\* Every step is one of Registry's, or nothing to the user.
LEMMA RegistryStep ==
  ASSUME IInv, Known, [Next]_vars
  PROVE  [Users!Next]_(Users!registryVars)
<1> DEFINE Still == UNCHANGED <<calls, lives, closed>>
<1> DEFINE Goal == [Users!Next]_(Users!registryVars)
<1>0. TypeOK /\ Shape /\ Fresh /\ Free /\ Unlisted /\ OneClose
  BY DEF IInv, Base
<1>1. Still => Goal
  BY DEF Users!registryVars
<1>2. ASSUME NEW t \in Threads, New(t) PROVE Goal
  BY <1>0, <1>1, <1>2, NewStutters
<1>3. ASSUME NEW t \in Threads, Store(t) PROVE Goal
  BY <1>0, <1>3, StoreCreates DEF Users!Next
<1>4. ASSUME NEW t \in Threads, StopCall(t) \/ Stopped(t) PROVE Goal
  <2>1. mine[t] \in Insts
    BY <1>0, <1>4, InHandIsSeen DEF StopCall, Stopped, At
  <2> QED
    BY <1>0, <1>1, <1>4, <2>1, StopCallBegins, StoppedEnds DEF Users!Next
<1>5. CASE Die
  BY <1>0, <1>1, <1>5, DieDies DEF Users!Next
<1>6. ASSUME NEW t \in Threads, DeleteCorpse(t) \/ StopDelete(t) \/ Reap(t) PROVE Goal
  <2>1. chat[t] \in Chats
    BY <1>0, <1>6 DEF DeleteCorpse, StopDelete, Reap, At, Shape, OpAt, Creates
  <2>2. UNCHANGED <<inst, self, closed>>
    BY <1>6 DEF DeleteCorpse, StopDelete, Reap, GoTo, Take, instVars, clientVars, localVars
  <2>3. \A u \in Threads : pc'[u] = "store" <=> pc[u] = "store"
    BY <1>0, <1>6 DEF DeleteCorpse, StopDelete, Reap, GoTo, Take, At, After, Creates, TypeOK, LocalTypes
  <2>4. calls' = [calls EXCEPT ![chat[t]] = 0]
    BY <1>6 DEF DeleteCorpse, StopDelete, Reap, Reaped, Delete, None
  <2>5. UNCHANGED lives
    BY <2>2, <2>3, SameLife, NoLife
  <2>6. Users!Drop(chat[t])
    BY <2>2, <2>4, <2>5 DEF Users!Drop, Users!NoCall
  <2> QED
    BY <2>1, <2>6 DEF Users!Next
<1>7. ASSUME NEW t \in Threads, CloseEnter(t) PROVE Goal
  <2>1. UNCHANGED <<calls, inst, self>> /\ closed' = TRUE
    BY <1>7 DEF CloseEnter, mapVars, instVars
  <2>2. \A u \in Threads : pc'[u] = "store" <=> pc[u] = "store"
    BY <1>0, <1>7 DEF CloseEnter, At, TypeOK, LocalTypes
  <2>3. UNCHANGED lives
    BY <2>1, <2>2, SameLife, NoLife
  <2> QED
    BY <2>1, <2>3 DEF Users!Next, Users!Close
<1>8. ASSUME NEW t \in Threads,
             \/ Enter(t) \/ Resolve(t) \/ Lock(t) \/ CheckEntry(t) \/ CheckState(t)
             \/ Params(t) \/ Unlock(t) \/ Lookup(t) \/ Use(t)
             \/ OpReturns(t) \/ CloseVisit(t) \/ CloseFactory(t)
      PROVE  Goal
  <2>1. UNCHANGED <<calls, inst, closed>>
    BY <1>8 DEF Enter, Resolve, Lock, CheckEntry, CheckState, Params, Unlock, Lookup, Use,
       OpReturns, CloseVisit, CloseFactory, mapVars, clientVars, instVars
  <2>2. \A u \in Threads : pc'[u] = "store" <=> pc[u] = "store"
    BY <1>0, <1>8 DEF Enter, Resolve, Lock, CheckEntry, CheckState, Params, Unlock, Lookup,
       Use, OpReturns, CloseVisit, CloseFactory, GoTo, Take, Return, At, TypeOK, LocalTypes
  <2>3. \A u \in Threads : pc[u] = "store" => self'[u] = self[u]
    BY <1>0, <1>8 DEF Enter, Resolve, Lock, CheckEntry, CheckState, Params, Unlock, Lookup,
       Use, OpReturns, CloseVisit, CloseFactory, GoTo, Take, Return, At, TypeOK, LocalTypes,
       localVars
  <2> QED
    BY <1>1, <2>1, <2>2, <2>3, SameLife, NoLife
<1>9. CASE UNCHANGED vars
  <2>1. UNCHANGED <<calls, inst, closed, pc, self>>
    BY <1>9 DEF vars, mapVars, clientVars, instVars, localVars
  <2> QED
    BY <1>1, <2>1, SameLife, NoLife
<1> QED
  BY <1>2, <1>3, <1>4, <1>5, <1>6, <1>7, <1>8, <1>9 DEF Next, Step

\* The client keeps what Registry promises: one call a chat, created only where there
\* is none, listed once, and stopped only when nobody finds it (gotgcall.go).
THEOREM RegistryIsKept == Spec => KeepsRegistry
<1>1. Init => Known /\ Users!Init
  <2> SUFFICES ASSUME Init PROVE Known /\ Users!Init
    OBVIOUS
  <2>1. Known
    BY DEF Init, Known, InHand
  <2>2. \A i \in Insts : lives[i] = "none"
    BY DEF Init, lives
  <2>3. lives = [i \in Insts |-> "none"]
    <3>1. lives = [i \in Insts |-> lives[i]]
      BY DEF lives
    <3> QED
      BY <2>2, <3>1
  <2> QED
    BY <2>1, <2>3 DEF Init, Users!Init, Users!NoCall, None
<1>2. IInv /\ Known /\ [Next]_vars => Known'
  BY KnownStep DEF IInv, Base
<1>3. IInv /\ Known /\ [Next]_vars => [Users!Next]_(Users!registryVars)
  BY RegistryStep
<1> QED
  BY <1>1, <1>2, <1>3, Invariant, PTL DEF Spec, KeepsRegistry, Users!Spec

=============================================================================
