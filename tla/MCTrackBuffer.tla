---------------------------- MODULE MCTrackBuffer ----------------------------
(* Small instances of TrackBuffer: a removable drive fd whose CHS geometry *)
(* does not reach its last sector, and a hard disk hd whose tracks are     *)
(* longer than the buffer.                                                 *)
EXTENDS TrackBuffer

CONSTANTS fd, hd, a, b, ez

EndOf(d) == IF d = hd THEN 4 ELSE 3

MCGeometry ==
  [d \in Drives |->
     [total_sectors |-> EndOf(d), chs_sectors |-> IF d = hd THEN 4 ELSE 2,
      sectors |-> IF d = hd THEN 4 ELSE 2, buffer_sectors |-> BufferSlots,
      lba |-> TRUE, cdrom |-> FALSE]]
MCPhysSectors == [d \in Drives |-> EndOf(d)]
MCPartitions == [d \in Drives |-> {<<1, EndOf(d) - 1>>}]

(* A blank hard disk; media with and without an EZ-Drive table, different  *)
(* in sectors 0 and 1.                                                     *)
MCMedia ==
  [d \in Drives |->
     IF d = hd THEN {[s \in Sector |-> a]}
     ELSE {m \in [Sector -> Data] :
             /\ m[0] \in {b, ez} /\ m[1] = IF m[0] = b THEN a ELSE b
             /\ \A s \in Sector : s >= 2 => m[s] = a}]

(* Writes that are noticed wherever they are lost, and that put the type   *)
(* byte of an EZ-Drive table in another sector than 0.                     *)
MCWrites ==
  [d \in Drives |-> IF d = hd THEN {<<1, 2, b>>} ELSE {<<0, 2, b>>, <<1, 1, ez>>}]
=============================================================================
