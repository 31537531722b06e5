------------------------------ MODULE NicPort ------------------------------
(***************************************************************************)
(* The drivers that move every byte of a frame themselves.  The card keeps *)
(* received frames in its own memory (rx.fifo); a frame to send is copied  *)
(* into the card before transmit returns, so that it cannot change later.  *)
(***************************************************************************)
EXTENDS NicCard

Waiting == rx.fifo # <<>>
Top     == Head(rx.fifo)
Drop(r) == [r EXCEPT !.fifo = Tail(@)]
TakeTop == /\ IF Top.ok THEN Hand(Top) ELSE Nothing
           /\ rx' = Drop(rx)
----------------------------------------------------------------------------
(* ns8390.c: a ring of 256 byte pages between BOUND and CURR.              *)

ns8390_reset(r) == [Stopped(r) EXCEPT !.run = TRUE]

\* After an overrun the receiver is stopped, drained (the frames are read and
\* thrown away) and started again; otherwise the frame behind BOUND is read.
eth_rx_overrun(r) == [r EXCEPT !.fifo = <<>>, !.stat = FALSE]

ns8390_poll == /\ Polls("ns8390") /\ Waiting
               /\ \/ TakeTop
                  \/ Len(rx.fifo) = FifoRoom /\ rx' = eth_rx_overrun(rx) /\ Nothing
               /\ AfterPoll

\* The transmit page is rewritten at once; nothing waits for its last frame.
ns8390_transmit == /\ Sends("ns8390")
                   /\ tx' = Queue(tx, 0, 0) /\ pc' = pc
                   /\ UNCHANGED rx /\ AfterSend

ns8390_disable == rx
----------------------------------------------------------------------------
(* 3c509.c, 3c595.c                                                        *)

t509_reset(r) == [Stopped(r) EXCEPT !.run = TRUE]

\* A damaged frame is discarded; a good one is read as it comes in, up to its
\* end, and then discarded.
t509_poll == Polls("3c509") /\ Waiting /\ TakeTop /\ AfterPoll

\* The status stack is popped (an underrun or a jam resets and enables the
\* transmitter); the loop for room in the FIFO has no bound.
t509_transmit == /\ Sends("3c509") /\ \E d \in TxSlots :
                      ~tx.own[d] /\ tx' = Queue(tx, d, d)
                 /\ pc' = pc /\ UNCHANGED rx /\ AfterSend

t509_disable == Stopped(rx)

t595_reset(r) == [Stopped(r) EXCEPT !.run = TRUE]

t595_poll == Polls("3c595") /\ Waiting /\ TakeTop /\ AfterPoll

t595_transmit == /\ Sends("3c595") /\ \E d \in TxSlots :
                      ~tx.own[d] /\ tx' = Queue(tx, d, d)
                 /\ pc' = pc /\ UNCHANGED rx /\ AfterSend

t595_disable == Stopped(rx)
----------------------------------------------------------------------------
(* smc9000.c                                                               *)

\* Receiver and transmitter are cleared; only the probe enables them again.
smc_reset(r) == Stopped(r)

smc9000_start(r) == [smc_reset(r) EXCEPT !.run = TRUE]

smc9000_poll == Polls("smc9000") /\ Waiting /\ TakeTop /\ AfterPoll

\* Packet memory is allocated, after up to 30 resets of the memory unit, which
\* drop what was received; without memory the frame is dropped.
smc9000_transmit ==
  /\ Sends("smc9000")
  /\ \/ tx' = Queue(tx, 0, 0) /\ pc' = "txwait" /\ UNCHANGED rx
     \/ tx' = Queue(tx, 0, 0) /\ pc' = "txwait" /\ rx' = [rx EXCEPT !.fifo = <<>>]
     \/ pc' = pc /\ rx' = [rx EXCEPT !.fifo = <<>>] /\ UNCHANGED tx
  /\ AfterSend

\* The packet is freed when the card reports it; after five seconds the card is reset.
smc9000_sent == /\ Waits("smc9000")
                /\ \/ ~tx.own[0] /\ UNCHANGED <<rx, tx>>
                   \/ rx' = smc_reset(rx) /\ tx' = [TxClear(tx) EXCEPT !.on = FALSE]
                /\ AfterWait

smc9000_disable == Stopped(rx)
----------------------------------------------------------------------------
(* cs89x0.c                                                                *)

\* The power-on reset leaves the line off; the probe switches it on afterwards.
cs89x0_reset(r) == Stopped(r)

cs89x0_start(r) == [cs89x0_reset(r) EXCEPT !.run = TRUE]

\* A frame without RX_OK is left for the card to discard.
cs89x0_poll == Polls("cs89x0") /\ Waiting /\ TakeTop /\ AfterPoll

\* A card that is not ready for the frame is reset and asked again.
cs89x0_transmit == /\ Sends("cs89x0")
                   /\ rx' \in {rx, cs89x0_reset(rx)}
                   /\ tx' = Queue(tx, 0, 0) /\ pc' = "txwait" /\ AfterSend

cs89x0_sent == Waits("cs89x0") /\ UNCHANGED <<rx, tx>> /\ AfterWait

cs89x0_disable == cs89x0_reset(rx)
----------------------------------------------------------------------------
(* eepro.c                                                                 *)

eepro_reset(r) == [Stopped(r) EXCEPT !.run = TRUE]

\* The receive event is acknowledged before one frame is taken, and without the
\* event the memory is not looked at.
eepro_poll == /\ Polls("eepro") /\ rx.stat
              /\ IF Waiting
                   THEN Hand(Top) /\ rx' = [Drop(rx) EXCEPT !.stat = FALSE]
                   ELSE Nothing /\ rx' = [rx EXCEPT !.stat = FALSE]
              /\ AfterPoll

\* The frame is put behind the last one, and the transmitter told to start there.
eepro_transmit == /\ Sends("eepro")
                  /\ tx' = [Queue(tx, tx.cur, tx.cur) EXCEPT !.cur = (tx.cur + 1) % TxRing]
                  /\ pc' = "txwait" /\ UNCHANGED rx /\ AfterSend

\* A bounded number of looks at the status.
eepro_sent == Waits("eepro") /\ UNCHANGED <<rx, tx>> /\ AfterWait

eepro_disable == Stopped(rx)
----------------------------------------------------------------------------
(* ni5010.c, tiara.c                                                       *)

reset_receiver(r) == [r EXCEPT !.run = TRUE]

ni5010_reset(r) == reset_receiver(Stopped(r))

\* The one receive buffer is read; the receiver stays off until the next transmit.
ni5010_poll == /\ Polls("ni5010") /\ Waiting
               /\ IF Top.ok THEN Hand(Top) /\ rx' = Stopped(rx)
                  ELSE Nothing /\ rx' = Drop(rx)
               /\ AfterPoll

\* The receive status is cleared before the frame is written.
ni5010_transmit == /\ Sends("ni5010")
                   /\ rx' = Stopped(rx)
                   /\ tx' = Queue(tx, 0, 0) /\ pc' = "txwait" /\ AfterSend

\* The wait for the end of the transmission has no bound.
ni5010_sent == /\ Waits("ni5010") /\ ~tx.own[0]
               /\ rx' = reset_receiver(rx) /\ UNCHANGED tx /\ AfterWait

ni5010_disable == Stopped(rx)

tiara_reset(r) == [Stopped(r) EXCEPT !.run = TRUE]

tiara_poll == Polls("tiara") /\ Waiting /\ TakeTop /\ AfterPoll

tiara_transmit == /\ Sends("tiara")
                  /\ tx' = Queue(tx, 0, 0) /\ pc' = "txwait"
                  /\ UNCHANGED rx /\ AfterSend

tiara_sent == Waits("tiara") /\ UNCHANGED <<rx, tx>> /\ AfterWait

tiara_disable == Stopped(rx)
----------------------------------------------------------------------------
PortPoll == \/ ns8390_poll \/ t509_poll \/ t595_poll \/ smc9000_poll \/ cs89x0_poll
            \/ eepro_poll \/ ni5010_poll \/ tiara_poll

PortTransmit == \/ ns8390_transmit \/ t509_transmit \/ t595_transmit \/ smc9000_transmit
                \/ cs89x0_transmit \/ eepro_transmit \/ ni5010_transmit \/ tiara_transmit

PortSent == \/ smc9000_sent \/ cs89x0_sent \/ eepro_sent \/ ni5010_sent \/ tiara_sent

\* The receive side after the probe of driver c.
PortStart(c) ==
  CASE c = "ns8390"  -> ns8390_reset(rx)   [] c = "3c509"  -> t509_reset(rx)
    [] c = "3c595"   -> t595_reset(rx)     [] c = "smc9000" -> smc9000_start(rx)
    [] c = "cs89x0"  -> cs89x0_start(rx)   [] c = "eepro"  -> eepro_reset(rx)
    [] c = "ni5010"  -> ni5010_reset(rx)   [] c = "tiara"  -> tiara_reset(rx)

\* The receive side after nic.disable of driver c.
PortDisable(c) ==
  CASE c = "ns8390"  -> ns8390_disable     [] c = "3c509"  -> t509_disable
    [] c = "3c595"   -> t595_disable       [] c = "smc9000" -> smc9000_disable
    [] c = "cs89x0"  -> cs89x0_disable     [] c = "eepro"  -> eepro_disable
    [] c = "ni5010"  -> ni5010_disable     [] c = "tiara"  -> tiara_disable

=============================================================================
