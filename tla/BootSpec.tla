------------------------------ MODULE BootSpec ------------------------------
(***************************************************************************)
(* What the boot commands promise, whatever machine they run on: the       *)
(* system that is started is the last one that was loaded, whole, with the *)
(* modules loaded since, in their order.                                   *)
(***************************************************************************)
EXTENDS Sequences

CONSTANTS Images,   \* kernels and boot sectors
          Modules,  \* modules and RAM disks
          NoImage

VARIABLES image,    \* what is ready to be started
          mods,     \* what was loaded to go with it
          started   \* the pair that was started

svars == <<image, mods, started>>

NotYet == <<NoImage, <<>>>>

Init == image = NoImage /\ mods = <<>> /\ started = NotYet

Load == /\ image' \in Images /\ mods' = <<>>
        /\ UNCHANGED started

\* A load that fails takes the one before with it: nothing half loaded is left.
Lose == /\ image' = NoImage /\ mods' = <<>>
        /\ UNCHANGED started

Add == /\ image # NoImage
       /\ \E m \in Modules : mods' = Append(mods, m)
       /\ UNCHANGED <<image, started>>

\* A RAM disk replaces the one before; it may be put together from several files.
Replace == /\ image # NoImage
           /\ mods' \in {<<>>} \cup {<<m>> : m \in Modules} \cup (Modules \X Modules)
           /\ UNCHANGED <<image, started>>

Start == /\ image # NoImage /\ started = NotYet
         /\ started' = <<image, mods>>
         /\ UNCHANGED <<image, mods>>

Next == Load \/ Lose \/ Add \/ Replace \/ Start

Spec == Init /\ [][Next]_svars
=============================================================================
