----------------------------- MODULE MCGroupCall -----------------------------
(* GroupCall on small instances.  The source "a" has audio only; "some" is *)
(* a film that may come up without its video leg.  Opening either may fail. *)
EXTENDS GroupCall, TLC

OutcomesByName == [
  a    |-> {{}, {"audio"}},
  some |-> {{}, {"audio"}, {"audio", "video"}}]

MCOutcomes == [s \in Sources |-> OutcomesByName[s]]

MCSymmetry == Permutations(Threads)

=============================================================================
