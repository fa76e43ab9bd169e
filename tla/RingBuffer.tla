----------------------------- MODULE RingBuffer -----------------------------
(***************************************************************************)
(* utils.RingBuffer: the tail of a stream in a fixed number of bytes.  The  *)
(* bytes are the numbers 1, 2, 3 ... in the order they are written, so that *)
(* `written` is both how many there were and what they were.                *)
(***************************************************************************)
EXTENDS Integers, Sequences

CONSTANT Capacity
ASSUME CapacityAssumption == Capacity \in Nat \ {0}

VARIABLES
  ring,     \* its fields: buf, head, full
  written   \* bytes written so far

Cells == 0 .. Capacity - 1

NewRing == [buf |-> [i \in Cells |-> 0], head |-> 0, full |-> FALSE]

(***************************************************************************)
(* A write longer than the ring leaves its tail, at the start of the ring;  *)
(* a shorter one goes to head and, what does not fit, to the start.         *)
(***************************************************************************)
Overwritten(r, p) ==
  [buf  |-> [i \in Cells |-> p[Len(p) - Capacity + i + 1]],
   head |-> 0,
   full |-> TRUE]

Stored(r, p, i) ==
  IF r.head <= i /\ i < r.head + Len(p) THEN p[i - r.head + 1]
  ELSE IF i < r.head + Len(p) - Capacity THEN p[Capacity - r.head + i + 1]
  ELSE r.buf[i]

Wrapped_FullAtTheEdge(r, p) ==
  LET head == (r.head + Len(p)) % Capacity
  IN [buf  |-> [i \in Cells |-> Stored(r, p, i)],
      head |-> head,
      full |-> r.full \/ head = 0]

Wrapped(r, p) ==
  LET head == (r.head + Len(p)) % Capacity
  IN [buf  |-> [i \in Cells |-> Stored(r, p, i)],
      head |-> head,
      full |-> r.full \/ head < Len(p)]

WriteTo(r, p) ==
  IF p = <<>> THEN r
  ELSE IF Len(p) >= Capacity THEN Overwritten(r, p) ELSE Wrapped(r, p)

Snapshot(r) ==
  IF ~r.full THEN [i \in 1 .. r.head |-> r.buf[i - 1]]
  ELSE [i \in 1 .. Capacity |->
          r.buf[IF i <= Capacity - r.head THEN r.head + i - 1
                ELSE i - 1 - (Capacity - r.head)]]

NextBytes(n) == [i \in 1 .. n |-> written + i]

WriteBytes(n) ==
  /\ ring' = WriteTo(ring, NextBytes(n))
  /\ written' = written + n

(***************************************************************************)
(* The snapshot is the last Capacity bytes written, or all of them while    *)
(* there are fewer, in their order, however the writes were cut.            *)
(***************************************************************************)
TailKept ==
  LET kept == IF written < Capacity THEN written ELSE Capacity
  IN Snapshot(ring) = [i \in 1 .. kept |-> written - kept + i]
=============================================================================
