------------------------------ MODULE InputLog ------------------------------
(***************************************************************************)
(* What the deferred interrupt path promises, without its lock, packets or *)
(* contexts: bytes cross a wire; a byte read off the wire is either        *)
(* dropped there and then or captured in a log, and the log is handed over *)
(* from its front only. Nothing captured is lost, repeated or reordered.   *)
(***************************************************************************)
EXTENDS Naturals, Sequences

CONSTANT MaxBytes

VARIABLES arrived, wire, log, seen
vars == <<arrived, wire, log, seen>>

Init == arrived = 0 /\ wire = <<>> /\ log = <<>> /\ seen = <<>>

Arrive ==
  /\ arrived < MaxBytes
  /\ arrived' = arrived + 1
  /\ wire' = Append(wire, arrived')
  /\ UNCHANGED <<log, seen>>

Capture ==
  /\ wire # <<>>
  /\ wire' = Tail(wire)
  /\ log' = Append(log, Head(wire))
  /\ UNCHANGED <<arrived, seen>>

Drop ==
  /\ wire # <<>>
  /\ wire' = Tail(wire)
  /\ UNCHANGED <<arrived, log, seen>>

HandOver ==
  \E n \in 1 .. Len(log) :
    /\ seen' = seen \o SubSeq(log, 1, n)
    /\ log' = SubSeq(log, n + 1, Len(log))
    /\ UNCHANGED <<arrived, wire>>

Next == Arrive \/ Capture \/ Drop \/ HandOver

Spec == Init /\ [][Next]_vars
=============================================================================
