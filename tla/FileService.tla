----------------------------- MODULE FileService -----------------------------
(***************************************************************************)
(* What GRUB expects of a filesystem driver (struct fsys_entry of          *)
(* stage2/filesys.h: dir_func, read_func, close_func), as the callers      *)
(* grub_open, grub_seek, grub_read and grub_close of stage2/disk_io.c use  *)
(* it.  Byte p of file f is represented by <<f, p>>, so what a read         *)
(* delivers shows where it came from.                                      *)
(***************************************************************************)
EXTENDS Integers, Sequences

CONSTANTS Files, FileLen           \* the files and their lengths

VARIABLES
  state,      \* "closed", "opening", "open", "reading"
  file,       \* the file opened last
  filemax,    \* the length the driver reported, -1 while it has not
  filepos,
  size,       \* bytes the read in progress still has to deliver
  ret         \* bytes the read in progress has delivered

vars == <<state, file, filemax, filepos, size, ret>>

Bytes(f, p, n) == [i \in 1 .. n |-> <<f, p + i - 1>>]

Init == 
  /\ state = "closed" /\ file \in Files
  /\ filemax = -1 /\ filepos = 0 /\ size = 0 /\ ret = <<>>

(* grub_open; it may fail before dir_func has done anything.               *)
Open ==
  /\ state = "closed"
  /\ state' \in {"opening", "closed"} /\ file' \in Files /\ filepos' = 0
  /\ UNCHANGED <<filemax, size, ret>>

(* dir_func reports the length of the file.                                *)
Opened ==
  /\ state = "opening"
  /\ state' = "open" /\ filemax' = FileLen[file]
  /\ UNCHANGED <<file, filepos, size, ret>>

OpenFailed ==
  /\ state = "opening"
  /\ state' = "closed"
  /\ UNCHANGED <<file, filemax, filepos, size, ret>>

Seek ==
  /\ state = "open"
  /\ filepos' \in 0 .. filemax
  /\ UNCHANGED <<state, file, filemax, size, ret>>

Read ==
  /\ state = "open"
  /\ \E n \in 1 .. filemax - filepos : size' = n
  /\ state' = "reading" /\ ret' = <<>>
  /\ UNCHANGED <<file, filemax, filepos>>

(* Some more bytes, the next ones of the file; the read ends with the last.*)
Serve ==
  /\ state = "reading"
  /\ \E n \in 1 .. size :
       /\ ret' = ret \o Bytes(file, filepos, n)
       /\ filepos' = filepos + n
       /\ size' = size - n
       /\ state' = IF n = size THEN "open" ELSE "reading"
  /\ UNCHANGED <<file, filemax>>

ReadFailed ==
  /\ state = "reading"
  /\ state' = "open" /\ size' = 0 /\ ret' = <<>>
  /\ UNCHANGED <<file, filemax, filepos>>

Close ==
  /\ state = "open"
  /\ state' = "closed" /\ filemax' = -1 /\ size' = 0 /\ ret' = <<>>
  /\ UNCHANGED <<file, filepos>>

Next == Open \/ Opened \/ OpenFailed \/ Seek \/ Read \/ Serve \/ ReadFailed \/ Close

Spec == Init /\ [][Next]_vars
=============================================================================
