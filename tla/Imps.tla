-------------------------------- MODULE Imps --------------------------------
(***************************************************************************)
(* impsprobe (stage2/smp-imps.c): finding the processors of a machine from *)
(* the tables of the Intel MultiProcessor Specification.  Processors get   *)
(* numbers in the order of the table, the one that runs GRUB the first;    *)
(* none of them is started, as the code that would send the start-up       *)
(* messages is left out of the build, but each gets its boot code copied   *)
(* to 256 KB.                                                              *)
(*                                                                         *)
(* A machine is [lower, ebda, ebda_len, fps, bsp, new]: installed lower    *)
(* memory, the address and length of the extended BIOS data area (all in   *)
(* KB), the floating pointer structures in memory, by address, the APIC id *)
(* of the processor that runs, and whether its APIC is a new one.  A       *)
(* structure is [at, valid, rev, type, cth], its table cth <<>> or         *)
(* <<[good, rev, ext, lapic, entries]>>, and an entry                      *)
(* [t, id, ver, on, boot].                                                 *)
(***************************************************************************)
EXTENDS Integers, Sequences, SequencesExt, TLC

IMPS_FPS_DEFAULT_MAX == 7

LAPIC_ADDR_DEFAULT == 4076

Unprobed == [num |-> 1, cpu |-> <<>>, apic |-> <<>>, enabled |-> FALSE, new |-> FALSE,
             lapic |-> 0, patched |-> FALSE]

boot_cpu(s) == [s EXCEPT !.patched = TRUE]

\* Mutant: a processor the BIOS has disabled is counted.
CountsDisabled(s, e) ==
  IF e.boot THEN s
  ELSE [boot_cpu(s) EXCEPT !.cpu = (s.num :> e.id) @@ @, !.apic = (e.id :> s.num) @@ @, !.num = @ + 1]

add_processor(s, e) ==
  LET seen == [s EXCEPT !.new = @ \/ e.ver > 15]
  IN  IF ~e.on THEN s
      ELSE IF e.boot THEN seen
      ELSE [boot_cpu(seen) EXCEPT !.cpu = (s.num :> e.id) @@ @, !.apic = (e.id :> s.num) @@ @,
                                  !.num = @ + 1]

\* Buses, I/O APICs and interrupts are only printed.
ReadEntry(s, e) == IF e.t = "processor" THEN add_processor(s, e) ELSE s

imps_read_config_table(s, entries) == FoldLeft(ReadEntry, s, entries)

imps_bad_bios(f) ==
  \/ f.type > IMPS_FPS_DEFAULT_MAX
  \/ IF f.cth = <<>> THEN f.type = 0
     ELSE ~f.cth[1].good \/ f.cth[1].rev # f.rev \/ f.cth[1].ext = "bad"

Processor(id, ver, on, boot) == [t |-> "processor", id |-> id, ver |-> ver, on |-> on, boot |-> boot]

\* The two processors of a default configuration, with the flags imps_read_bios sets.
defconfig(f, bsp) ==
  LET ver == IF f.type > 4 THEN 16 ELSE 0
  IN  <<Processor(0, ver, TRUE, bsp = 0), Processor(1, ver, TRUE, bsp # 0)>>

(***************************************************************************)
(* A default configuration sets the number of processors to 2 before its   *)
(* table is read, which counts the second one again.                       *)
(***************************************************************************)
imps_read_bios(s, m, f) ==
  LET base == [s EXCEPT !.lapic = IF f.cth = <<>> THEN LAPIC_ADDR_DEFAULT ELSE f.cth[1].lapic,
                        !.new = m.new, !.cpu = (0 :> m.bsp) @@ @, !.apic = (m.bsp :> 0) @@ @]
      all  == IF f.cth = <<>>
              THEN imps_read_config_table([base EXCEPT !.num = 2], defconfig(f, m.bsp))
              ELSE imps_read_config_table(base, f.cth[1].entries)
  IN  IF imps_bad_bios(f) THEN s ELSE [all EXCEPT !.enabled = TRUE]

\* The structures in an area, checked one after the other.
imps_scan(m, start, length) ==
  SelectSeq(m.fps, LAMBDA f : f.at >= start /\ f.at < start + length /\ f.valid)

(***************************************************************************)
(* imps_probe: the data area, or the end of lower memory when it is not    *)
(* plausible, and then the ROM.  The first structure found is used, and    *)
(* when it turns out to be bad there is no other.                          *)
(***************************************************************************)
imps_probe(s, m) ==
  LET reset == [s EXCEPT !.enabled = FALSE, !.num = 1]
      ebda  == IF m.ebda > m.lower - 1 \/ m.ebda + m.ebda_len > m.lower THEN 0 ELSE m.ebda
      low   == IF ebda # 0 THEN imps_scan(m, ebda, 1) ELSE imps_scan(m, m.lower - 1, 1)
      found == low \o imps_scan(m, 960, 64)
  IN  IF m.lower < 512 \/ m.lower > 640 THEN reset
      ELSE IF found = <<>> THEN reset
      ELSE imps_read_bios(reset, m, found[1])
=============================================================================
