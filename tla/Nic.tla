-------------------------------- MODULE Nic --------------------------------
(***************************************************************************)
(* The network card as the stack sees it: eth_probe chooses a driver,      *)
(* eth_poll and eth_transmit call it, cleanup_net stops it before a kernel *)
(* is started.  All drivers are checked side by side, one per behaviour.   *)
(***************************************************************************)
EXTENDS NicRing, NicPort

\* The first driver of the tables whose probe answers; its reset has run.
eth_probe == /\ pc = "down"
             /\ \E c \in RingDrivers \cup PortDrivers :
                  /\ card' = c
                  /\ IF c \in RingDrivers THEN rx' \in RingStart(c) ELSE rx' = PortStart(c)
             /\ pc' = "idle"
             /\ UNCHANGED <<tx, given, seen, sends, wire, net>>

eth_poll == RingPoll \/ PortPoll

eth_transmit == RingTransmit \/ PortTransmit

eth_disable == IF card \in RingDrivers THEN RingDisable(card) ELSE PortDisable(card)

\* The boot command stops the card if an address was configured, and the memory
\* belongs to the kernel from then on.
cleanup_net == /\ pc = "idle"
               /\ rx' = IF net.ready THEN eth_disable ELSE rx
               /\ tx' = [tx EXCEPT !.on = FALSE]
               /\ net' = [net EXCEPT !.ready = FALSE, !.used = net.ready]
               /\ pc' = "booted"
               /\ UNCHANGED <<card, given, seen, sends, wire>>

Next == \/ eth_probe \/ eth_poll \/ eth_transmit \/ RingSent \/ PortSent
        \/ Configured \/ cleanup_net \/ Arrive \/ CardSends

\* The stack polls in a loop while it waits for an answer (await_reply); every
\* wait in a driver is a loop that looks again; a card on a network sends.
Spec == /\ NicInit /\ [][Next]_nicVars
        /\ WF_nicVars(eth_poll) /\ WF_nicVars(RingSent \/ PortSent) /\ WF_nicVars(CardSends)
----------------------------------------------------------------------------
\* Drivers that look at no error bit although their card stores damaged frames.
Unchecked == {"otulip", "epic100", "depca"}

\* Drivers that break the order: eepro100_poll gives its only buffer back before it
\* copies the frame, so a second frame can be read twice; the cursor of SK_poll stays
\* behind the card after a damaged frame and meets the newest frame first once the
\* card has come round (with three descriptors or more).
Disorderly == {"eepro100", "sk_g16"}

\* Frames reach the stack undamaged, once, and in the order of the wire: the ring
\* cursors of driver and card never let an old buffer be read again.
FramesInOrder ==
  [][given' # given =>
       /\ card \notin Disorderly => given'.id > given.id
       /\ card \notin Unchecked => given'.ok]_nicVars

\* Drivers that can lose their place in the ring (w89c840 and sk_g16, after a
\* damaged frame) or the event that makes them look (eepro).
LosesPlace == {"w89c840", "sk_g16", "eepro"}

Stored(i) == \/ \E d \in Slots : ~rx.own[d] /\ rx.data[d].id = i
             \/ \E k \in 1 .. Len(rx.fifo) : rx.fifo[k].id = i

\* A frame the card has stored is taken out again while the stack polls: no
\* driver waits at a descriptor the card has passed, or for an event that came.
FramesTaken ==
  \A i \in 1 .. MaxFrames :
    (Stored(i) /\ card \notin LosesPlace) ~> (~Stored(i) \/ pc = "booted")

\* Drivers that never fill a buffer the card may still be reading: they wait
\* without a bound, stop or reset the card after a timeout, look at the owner
\* first, or copy the frame into the card behind the last one.  The others do not:
\* davicom leaves a timed-out frame to the card and fills its buffer for the next
\* one, the wait of w89c840 may end with the interrupt of a received frame, and
\* the rest do not wait at all or keep the header on the stack.
KeepsBuffer == {"rtl8139", "tulip", "sis900", "natsemi", "epic100", "3c90x", "3c509",
                "3c595", "smc9000", "ni5010"}

\* What such a card puts on the wire is the frame that its descriptor was given
\* for, after timeouts and retries too.
SendsWhatWasQueued == card \in KeepsBuffer => wire.want = wire.buf

\* Drivers whose disable is empty, or (via-rhine.c:985-987) does not reach the card.
NeverStops == {"otulip", "epic100", "rhine"}

\* Once the kernel owns the memory the card writes nothing there, if the network
\* was in use when cleanup_net ran; only the cards that no disable reaches go on.
QuietAfterBoot == (net.written /\ net.used) => card \in NeverStops

=============================================================================
