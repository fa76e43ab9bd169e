------------------------------- MODULE RunLoop -------------------------------
(***************************************************************************)
(* What a call may assume of one streamer: a run loop that is started once, *)
(* is held at its gate while the gate is shut, ends once, and is got out of *)
(* the gate by a cancelled context.  Streamer.tla shows that the code of   *)
(* media/streamer.go does this, and GroupCall.tla that the call relies on  *)
(* nothing else.                                                           *)
(***************************************************************************)

VARIABLES place, gate, cancelled

loopVars == <<place, gate, cancelled>>

Places == {"idle", "run", "held", "ending", "done"}

Init == place = "idle" /\ gate = FALSE /\ cancelled = FALSE

\* A loop whose gate is shut as it starts may be taken to be at the gate.
Start ==
  /\ place = "idle"
  /\ gate' \in BOOLEAN
  /\ place' \in {"run"} \cup {p \in {"held"} : gate'}
  /\ UNCHANGED cancelled

SetPaused == gate' \in BOOLEAN /\ UNCHANGED <<place, cancelled>>

Hold == place = "run" /\ gate /\ place' = "held" /\ UNCHANGED <<gate, cancelled>>

Release == place = "held" /\ ~gate /\ place' = "run" /\ UNCHANGED <<gate, cancelled>>

\* End of file, an error, a stalled read or a cancelled context.
Exit ==
  /\ place = "run" \/ (place = "held" /\ cancelled)
  /\ place' = "ending"
  /\ UNCHANGED <<gate, cancelled>>

\* onEnd was called and `done` is closed.
End == place = "ending" /\ place' = "done" /\ UNCHANGED <<gate, cancelled>>

\* The first half of Streamer.Stop; only a loop that was started is stopped.
Cancel == place # "idle" /\ cancelled' = TRUE /\ UNCHANGED <<place, gate>>

Next == Start \/ SetPaused \/ Hold \/ Release \/ Exit \/ End \/ Cancel

Spec == Init /\ [][Next]_loopVars

=============================================================================
