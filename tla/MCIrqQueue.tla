----------------------------- MODULE MCIrqQueue -----------------------------
(***************************************************************************)
(* IrqQueue for TLC, and the mapping under which it implements InputLog.   *)
(***************************************************************************)
EXTENDS IrqQueue

(* The captured bytes that Umka has not seen, oldest first: the rest of    *)
(* the snapshot, then the queue.                                           *)
SlotBytes(ps, from, count) ==
  LET upto[k \in 0 .. count] ==
        IF k <= from THEN <<>> ELSE upto[k - 1] \o ps[k - 1].bytes
  IN upto[count]

Captured ==
  (IF pc \in {"unlock", "dispatch", "panic"}
   THEN SlotBytes(lpackets, idx, lpacket_count) ELSE <<>>)
    \o SlotBytes(packets, 0, packet_count)

Log == INSTANCE InputLog WITH arrived <- Len(sent), wire <- port,
                              log <- Captured, seen <- delivered

(* The interrupt path implements the lossy FIFO log: every step of the     *)
(* main context, the handler and the devices is a step of InputLog or      *)
(* leaves its state alone; packets and snapshots never show.               *)
ImplementsInputLog == Log!Spec
=============================================================================
