------------------------------ MODULE Callbacks ------------------------------
(***************************************************************************)
(* What a user may assume of the callbacks: they are run one at a time,    *)
(* each at most once, those of one goroutine in the order in which it      *)
(* submitted them, and none after the dispatcher's Close has returned.     *)
(* Some may be left out.  Of channels, full buffers and panics there is    *)
(* nothing here; Dispatcher.tla shows that utils/synccallback.go keeps it. *)
(***************************************************************************)
EXTENDS Naturals, Sequences

CONSTANT Submitters     \* the goroutines that submit callbacks

Nothing == 0

VARIABLES
  by,        \* who submitted each callback, in the order of the submits
  ran,       \* the callbacks that were begun, in order
  running,   \* the callback that has not returned, or Nothing
  over       \* Close has returned

cbVars == <<by, ran, running, over>>

Init == by = <<>> /\ ran = <<>> /\ running = Nothing /\ over = FALSE

Submit(p) == ~over /\ by' = Append(by, p) /\ UNCHANGED <<ran, running, over>>

\* Callback f was not run yet, nor one that its goroutine submitted later.
Due(f) == \A i \in 1 .. Len(ran) : ran[i] # f /\ (by[ran[i]] = by[f] => ran[i] < f)

Begin(f) ==
  /\ running = Nothing /\ ~over
  /\ Due(f)
  /\ running' = f
  /\ ran' = Append(ran, f)
  /\ UNCHANGED <<by, over>>

End == running # Nothing /\ running' = Nothing /\ UNCHANGED <<by, ran, over>>

Close == running = Nothing /\ over' = TRUE /\ UNCHANGED <<by, ran, running>>

Next ==
  \/ \E p \in Submitters : Submit(p)
  \/ \E f \in 1 .. Len(by) : Begin(f)
  \/ End \/ Close

Spec == Init /\ [][Next]_cbVars

=============================================================================
