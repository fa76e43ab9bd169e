------------------------------ MODULE Registry ------------------------------
(***************************************************************************)
(* What a user may assume of the client's registry: a chat has one call at *)
(* a time, a new one only when it has none; a call is listed once, under   *)
(* one chat, and when it has left it never comes back; and until Close no  *)
(* call is stopped that can still be looked up.  Of mutexes, lookups and   *)
(* callers there is nothing here; Client.tla shows that gotgcall.go keeps  *)
(* it.                                                                     *)
(***************************************************************************)
EXTENDS Naturals

CONSTANTS
  Chats,   \* the chat ids
  Calls    \* the calls there may ever be, none of them 0

NoCall == 0

VARIABLES
  entry,    \* the call listed for each chat
  life,     \* of each call: none, live, dead, stopping, stopped
  closing   \* Close has begun

registryVars == <<entry, life, closing>>

Init ==
  /\ entry = [c \in Chats |-> NoCall]
  /\ life = [i \in Calls |-> "none"]
  /\ closing = FALSE

Listed(i) == \E c \in Chats : entry[c] = i

Becomes(i, from, to) == life[i] \in from /\ life' = [life EXCEPT ![i] = to]

\* Its connection may fail before a call is listed.
Create(c, i) ==
  /\ entry[c] = NoCall /\ entry' = [entry EXCEPT ![c] = i]
  /\ \E l \in {"live", "dead"} : Becomes(i, {"none"}, l)
  /\ UNCHANGED closing

Drop(c) == entry' = [entry EXCEPT ![c] = NoCall] /\ UNCHANGED <<life, closing>>

Die(i) == Becomes(i, {"live"}, "dead") /\ UNCHANGED <<entry, closing>>

BeginStop(i) ==
  /\ closing \/ ~Listed(i)
  /\ Becomes(i, {"live", "dead"}, "stopping")
  /\ UNCHANGED <<entry, closing>>

EndStop(i) == Becomes(i, {"stopping"}, "stopped") /\ UNCHANGED <<entry, closing>>

Close == closing' = TRUE /\ UNCHANGED <<entry, life>>

Next ==
  \/ \E i \in Calls : Die(i) \/ BeginStop(i) \/ EndStop(i) \/ \E c \in Chats : Create(c, i)
  \/ \E c \in Chats : Drop(c)
  \/ Close

Spec == Init /\ [][Next]_registryVars

=============================================================================
