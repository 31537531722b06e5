------------------------------ MODULE NicRing ------------------------------
(***************************************************************************)
(* The drivers whose card reads and writes main memory (or a memory it     *)
(* shares with the host) by descriptors.  Each driver has its reset, which *)
(* gives the state the receive side is left in, its poll, its transmit,    *)
(* the end of the wait inside transmit where it waits, and its disable.    *)
(* Padding, byte order and the layout of descriptors are left out.         *)
(***************************************************************************)
EXTENDS NicCard

\* The descriptor at the driver's cursor goes back to the card, the cursor moves.
Recycle(r) == [r EXCEPT !.own[r.cur] = TRUE, !.cur = Step(r.cur)]

\* A frame waits at the cursor.
Ready   == ~rx.own[rx.cur]
AtCur   == rx.data[rx.cur]
Checked == IF AtCur.ok THEN Hand(AtCur) ELSE Nothing
----------------------------------------------------------------------------
(* rtl8139.c: the card appends frames to one ring of bytes.                *)

rtl_reset(r) == FreshRing(r)

\* A damaged frame resets the card, and with it every frame behind it is lost.
rtl_poll == /\ Polls("rtl8139") /\ rx.fifo # <<>>
            /\ IF Head(rx.fifo).ok
                 THEN Hand(Head(rx.fifo)) /\ rx' = [rx EXCEPT !.fifo = Tail(@)]
                 ELSE Nothing /\ rx' = rtl_reset(rx)
            /\ AfterPoll

rtl_transmit == /\ Sends("rtl8139")
                /\ tx' = Queue(tx, tx.cur, 0) /\ pc' = "txwait"
                /\ UNCHANGED rx /\ AfterSend

\* Mutant of rtl_sent: the card is not reset after a timeout.
NoResetAfterTimeout == /\ Waits("rtl8139")
                       /\ tx' = [tx EXCEPT !.cur = (@ + 1) % TxRing] /\ UNCHANGED rx
                       /\ AfterWait

\* TxOK moves on to the next descriptor, anything else resets the card.
rtl_sent == /\ Waits("rtl8139")
            /\ \/ /\ ~tx.own[tx.cur]
                  /\ tx' = [tx EXCEPT !.cur = (@ + 1) % TxRing] /\ UNCHANGED rx
               \/ tx' = [TxClear(tx) EXCEPT !.cur = 0] /\ rx' = rtl_reset(rx)
            /\ AfterWait

rtl_disable == Stopped(rx)
----------------------------------------------------------------------------
(* tulip.c, otulip.c, davicom.c: the 21x4x family.                         *)

\* The transmitter is only on inside tulip_transmit and for the set-up frame.
tulip_reset(r) == FreshRing(r)

tulip_poll == /\ Polls("tulip") /\ Ready
              /\ Checked /\ rx' = Recycle(rx) /\ AfterPoll

tulip_transmit == /\ Sends("tulip")
                  /\ tx' = Queue(tx, 0, 0) /\ pc' = "txwait"
                  /\ UNCHANGED rx /\ AfterSend

\* Done or timed out, the transmitter is switched off.
tulip_sent == /\ Waits("tulip")
              /\ tx' = [tx EXCEPT !.on = FALSE]
              /\ UNCHANGED rx /\ AfterWait

tulip_disable == Stopped(rx)

\* The set-up frame is sent twice, each time followed by a fixed delay.
otulip_reset(r) == FreshRing(r)

\* The error bit of the status is not looked at.
otulip_poll == /\ Polls("otulip") /\ Ready
               /\ Hand(AtCur) /\ rx' = Recycle(rx) /\ AfterPoll

\* The wait for the end of the transmission is commented out.
otulip_transmit == /\ Sends("otulip")
                   /\ tx' = Queue(tx, 0, 0) /\ pc' = pc
                   /\ UNCHANGED rx /\ AfterSend

otulip_disable == rx

davicom_reset(r) == FreshRing(r)

\* Mutant of davicom_poll: the descriptor is not given back.
KeepDescriptor == /\ Polls("davicom") /\ Ready
                  /\ Checked /\ rx' = [rx EXCEPT !.cur = Step(@)] /\ AfterPoll

davicom_poll == /\ Polls("davicom") /\ Ready
                /\ Checked /\ rx' = Recycle(rx) /\ AfterPoll

davicom_transmit == /\ Sends("davicom")
                    /\ tx' = Queue(tx, tx.cur, 0) /\ pc' = "txwait"
                    /\ UNCHANGED rx /\ AfterSend

\* Done or timed out, the next descriptor is used for the next frame.
davicom_sent == /\ Waits("davicom")
                /\ tx' = [tx EXCEPT !.cur = (@ + 1) % TxRing]
                /\ UNCHANGED rx /\ AfterWait

davicom_disable == Stopped(rx)
----------------------------------------------------------------------------
(* sis900.c, natsemi.c: the receiver is switched on again by every poll.   *)

sis900_init(r) == FreshRing(r)

sis900_poll == /\ Polls("sis900") /\ Ready
               /\ Checked /\ rx' = [Recycle(rx) EXCEPT !.sus = FALSE] /\ AfterPoll

\* The transmitter is off while the only buffer is filled.
sis900_transmit == /\ Sends("sis900")
                   /\ tx' = Queue(tx, 0, 0) /\ pc' = "txwait"
                   /\ UNCHANGED rx /\ AfterSend

sis900_sent == Waits("sis900") /\ UNCHANGED <<rx, tx>> /\ AfterWait

sis900_disable == Stopped(rx)

natsemi_init(r) == FreshRing(r)

natsemi_poll == /\ Polls("natsemi") /\ Ready
                /\ Checked /\ rx' = [Recycle(rx) EXCEPT !.sus = FALSE] /\ AfterPoll

natsemi_transmit == /\ Sends("natsemi")
                    /\ tx' = Queue(tx, 0, 0) /\ pc' = "txwait"
                    /\ UNCHANGED rx /\ AfterSend

natsemi_sent == Waits("natsemi") /\ UNCHANGED <<rx, tx>> /\ AfterWait

\* Mutant of natsemi_disable: nothing is switched off.
LeaveRunning == rx

natsemi_disable == Stopped(rx)
----------------------------------------------------------------------------
(* epic100.c                                                               *)

epic100_open(r) == FreshRing(r)

\* The status is masked with the ownership bit before its error bits are
\* tested, so that every frame counts as good.
epic100_poll == /\ Polls("epic100") /\ Ready
                /\ Hand(AtCur) /\ rx' = [Recycle(rx) EXCEPT !.sus = FALSE] /\ AfterPoll

\* A descriptor the card still owns means that the frame is dropped and the
\* card opened again.
epic100_transmit ==
  /\ Sends("epic100")
  /\ IF tx.own[tx.cur]
       THEN rx' = epic100_open(rx) /\ tx' = [TxClear(tx) EXCEPT !.cur = 0] /\ pc' = pc
       ELSE /\ tx' = [Queue(tx, tx.cur, tx.cur) EXCEPT !.cur = (tx.cur + 1) % TxRing]
            /\ pc' = "txwait" /\ UNCHANGED rx
  /\ AfterSend

epic100_sent == Waits("epic100") /\ UNCHANGED <<rx, tx>> /\ AfterWait

epic100_disable == rx
----------------------------------------------------------------------------
(* w89c840.c                                                               *)

w89c840_reset(r) == FreshRing(r)

\* A frame that spans buffers or is damaged is passed over without giving its
\* descriptor back; one with the error bit resets the card.
w89c840_poll ==
  /\ Polls("w89c840") /\ Ready
  /\ \/ /\ AtCur.ok /\ Hand(AtCur)
        /\ rx' = [Recycle(rx) EXCEPT !.sus = FALSE]
     \/ /\ ~AtCur.ok /\ Nothing
        /\ rx' \in {w89c840_reset(rx), [rx EXCEPT !.cur = Step(rx.cur), !.sus = FALSE]}
  /\ AfterPoll

w89c840_transmit == /\ Sends("w89c840")
                    /\ tx' = [Queue(tx, tx.cur, 0) EXCEPT !.cur = (tx.cur + 1) % TxRing]
                    /\ rx' = [rx EXCEPT !.stat = FALSE]
                    /\ pc' = "txwait" /\ AfterSend

\* The loop ends with an interrupt of any kind; the inner wait then ends with the
\* descriptor or with the timer, and without an interrupt there is no timer.
w89c840_sent == /\ Waits("w89c840")
                /\ rx.stat \/ ~tx.own[(tx.cur + TxRing - 1) % TxRing]
                /\ UNCHANGED <<rx, tx>> /\ AfterWait

w89c840_disable == Stopped(rx)
----------------------------------------------------------------------------
(* via-rhine.c                                                             *)

rhine_reset(r) == FreshRing(r)

rhine_poll == /\ Polls("rhine") /\ Ready
              /\ Checked /\ rx' = Recycle(rx) /\ AfterPoll

\* The next descriptor is used without a look at its owner, and nothing waits.
rhine_transmit == /\ Sends("rhine")
                  /\ tx' = [Queue(tx, tx.cur, tx.cur) EXCEPT !.cur = (tx.cur + 1) % TxRing]
                  /\ pc' = pc /\ UNCHANGED rx /\ AfterSend

\* The two stores of rhine_disable name I/O ports but go to main memory, since
\* via-rhine.c, unlike w89c840.c, keeps the memory forms of writeb and writew: the
\* card is not told to stop.
rhine_disable == rx
----------------------------------------------------------------------------
(* eepro100.c: one receive frame descriptor with the suspend bit.          *)

\* The port reset stops the receiver; only the probe starts it.
eepro100_reset(r) == Stopped(r)

\* eepro100_probe loads the bases, starts the receive unit on the descriptor and
\* runs the address and configuration commands.
eepro100_start(r) == FreshRing(r)

\* The descriptor is given back and the receiver started ...
eepro100_poll == /\ Polls("eepro100") /\ ~rx.own[0]
                 /\ rx' = [rx EXCEPT !.own[0] = TRUE, !.sus = FALSE]
                 /\ pc' = "copy"
                 /\ UNCHANGED <<card, tx, given, seen, sends, wire, net>>

\* ... before the frame is copied out of it.
eepro100_copy == /\ card = "eepro100" /\ pc = "copy"
                 /\ Hand(rx.data[0]) /\ pc' = "idle"
                 /\ UNCHANGED <<card, rx, tx, seen, sends, wire, net>>

eepro100_transmit == /\ Sends("eepro100")
                     /\ tx' = Queue(tx, 0, 0) /\ pc' = "txwait"
                     /\ UNCHANGED rx /\ AfterSend

\* Done or timed out: the header the descriptor points at was on the stack.
eepro100_sent == /\ Waits("eepro100")
                 /\ tx' = [tx EXCEPT !.buf[0] = 0]
                 /\ UNCHANGED rx /\ AfterWait

eepro100_disable == Stopped(rx)
----------------------------------------------------------------------------
(* 3c90x.c: a frame stays in the card until poll gives it a descriptor.    *)

a3c90x_reset(r) == [Stopped(r) EXCEPT !.run = TRUE]

\* The upload goes straight to nic.packet; poll waits for its end.
a3c90x_poll == /\ Polls("3c90x") /\ rx.fifo # <<>>
               /\ IF Head(rx.fifo).ok THEN Hand(Head(rx.fifo)) ELSE Nothing
               /\ rx' = [rx EXCEPT !.fifo = Tail(@)]
               /\ AfterPoll

\* tx.cur counts the attempts; TxRing stands for the bound XMIT_RETRIES.
a3c90x_transmit == /\ Sends("3c90x")
                   /\ tx' = [Queue(tx, 0, 0) EXCEPT !.cur = 0] /\ pc' = "txwait"
                   /\ UNCHANGED rx /\ AfterSend

\* Once the card has fetched the frame: it reports success, or the frame is
\* queued again, after a reset for a jabber, an overflow or a reclaim error, until
\* the attempts are used up.
a3c90x_sent == /\ card = "3c90x" /\ pc = "txwait" /\ ~tx.own[0]
               /\ \/ pc' = "idle" /\ UNCHANGED <<rx, tx>>
                  \/ /\ rx' \in {rx, a3c90x_reset(rx)}
                     /\ \/ /\ tx.cur + 1 < TxRing /\ UNCHANGED pc
                           /\ tx' = [tx EXCEPT !.own[0] = TRUE, !.cur = @ + 1]
                        \/ tx.cur + 1 = TxRing /\ pc' = "idle" /\ UNCHANGED tx
               /\ AfterWait

\* The commands are written without their shift, as a global reset.
a3c90x_disable == Stopped(rx)
----------------------------------------------------------------------------
(* lance.c, depca.c, sk_g16.c: the Am7990 and its relatives.               *)

\* The end of the initialisation is waited for, but not required.
lance_reset(r) == FreshRing(r)

\* Mutant of lance_poll: a damaged frame is left where it is.
StayOnDamaged == /\ Polls("lance") /\ Ready /\ AtCur.ok
                 /\ Hand(AtCur) /\ rx' = Recycle(rx) /\ AfterPoll

lance_poll == /\ Polls("lance") /\ Ready
              /\ Checked /\ rx' = Recycle(rx) /\ AfterPoll

lance_transmit == /\ Sends("lance")
                  /\ tx' = Queue(tx, 0, 0) /\ pc' = "txwait"
                  /\ UNCHANGED rx /\ AfterSend

lance_sent == Waits("lance") /\ UNCHANGED <<rx, tx>> /\ AfterWait

lance_disable == Stopped(rx)

\* The card must have stopped, and is only started when its initialisation ends.
depca_reset(r, stopped, idon) == IF ~stopped THEN r
                                 ELSE IF idon THEN FreshRing(r) ELSE Stopped(r)

\* Only the owner bit is looked at.
depca_poll == /\ Polls("depca") /\ Ready
              /\ Hand(AtCur) /\ rx' = Recycle(rx) /\ AfterPoll

depca_transmit == /\ Sends("depca")
                  /\ tx' = [Queue(tx, tx.cur, tx.cur) EXCEPT !.cur = (tx.cur + 1) % TxRing]
                  /\ pc' = pc /\ UNCHANGED rx /\ AfterSend

depca_disable == Stopped(rx)

SK_lance_init(r, idon) == IF idon THEN FreshRing(r) ELSE Stopped(r)

\* One call takes k good frames at the cursor, up to an empty descriptor or a
\* damaged frame.
SK_run(k) == LET Good(i) == LET d == (rx.cur + i) % RxRing IN ~rx.own[d] /\ rx.data[d].ok
             IN (\A i \in 0 .. k - 1 : Good(i)) /\ (k < RxRing => ~Good(k))

\* Only the last of them is still in nic.packet when SK_poll returns.  The
\* descriptor of a damaged frame is given back, but the cursor stays on it.
SK_poll == /\ Polls("sk_g16") /\ Ready
           /\ \E k \in 0 .. RxRing :
                /\ SK_run(k)
                /\ IF k = 0 THEN Nothing ELSE Hand(rx.data[(rx.cur + k - 1) % RxRing])
                /\ rx' = [rx EXCEPT !.cur = (@ + k) % RxRing,
                             !.own = [d \in Slots |->
                                        @[d] \/ (d + RxRing - rx.cur) % RxRing <= k]]
           /\ AfterPoll

\* An underflow of the transmitter initialises the card again.
SK_transmit == /\ Sends("sk_g16")
               /\ LET t == [Queue(tx, tx.cur, tx.cur) EXCEPT !.cur = (tx.cur + 1) % TxRing]
                  IN \/ tx' = t /\ UNCHANGED rx
                     \/ /\ tx' = [TxClear(tx) EXCEPT !.cur = 1 % TxRing]
                        /\ \E idon \in BOOLEAN : rx' = SK_lance_init(rx, idon)
               /\ pc' = pc /\ AfterSend

SK_disable == Stopped(rx)
----------------------------------------------------------------------------
RingPoll == \/ rtl_poll \/ tulip_poll \/ otulip_poll \/ davicom_poll \/ sis900_poll
            \/ natsemi_poll \/ epic100_poll \/ w89c840_poll \/ rhine_poll
            \/ eepro100_poll \/ eepro100_copy \/ a3c90x_poll \/ lance_poll
            \/ depca_poll \/ SK_poll

RingTransmit == \/ rtl_transmit \/ tulip_transmit \/ otulip_transmit \/ davicom_transmit
                \/ sis900_transmit \/ natsemi_transmit \/ epic100_transmit
                \/ w89c840_transmit \/ rhine_transmit \/ eepro100_transmit
                \/ a3c90x_transmit \/ lance_transmit \/ depca_transmit \/ SK_transmit

RingSent == \/ rtl_sent \/ tulip_sent \/ davicom_sent \/ sis900_sent \/ natsemi_sent
            \/ epic100_sent \/ w89c840_sent \/ eepro100_sent \/ a3c90x_sent \/ lance_sent

\* The receive side after the reset that the probe of driver c runs.
RingStart(c) ==
  CASE c = "rtl8139"  -> {rtl_reset(rx)}
    [] c = "tulip"    -> {tulip_reset(rx)}
    [] c = "otulip"   -> {otulip_reset(rx)}
    [] c = "davicom"  -> {davicom_reset(rx)}
    [] c = "sis900"   -> {sis900_init(rx)}
    [] c = "natsemi"  -> {natsemi_init(rx)}
    [] c = "epic100"  -> {epic100_open(rx)}
    [] c = "w89c840"  -> {w89c840_reset(rx)}
    [] c = "rhine"    -> {rhine_reset(rx)}
    [] c = "eepro100" -> {eepro100_start(eepro100_reset(rx))}
    [] c = "3c90x"    -> {a3c90x_reset(rx)}
    [] c = "lance"    -> {lance_reset(rx)}
    [] c = "depca"    -> {depca_reset(rx, s, i) : s \in BOOLEAN, i \in BOOLEAN}
    [] c = "sk_g16"   -> {SK_lance_init(rx, i) : i \in BOOLEAN}

\* The receive side after nic.disable of driver c.
RingDisable(c) ==
  CASE c = "rtl8139"  -> rtl_disable      [] c = "tulip"    -> tulip_disable
    [] c = "otulip"   -> otulip_disable   [] c = "davicom"  -> davicom_disable
    [] c = "sis900"   -> sis900_disable   [] c = "natsemi"  -> natsemi_disable
    [] c = "epic100"  -> epic100_disable  [] c = "w89c840"  -> w89c840_disable
    [] c = "rhine"    -> rhine_disable    [] c = "eepro100" -> eepro100_disable
    [] c = "3c90x"    -> a3c90x_disable   [] c = "lance"    -> lance_disable
    [] c = "depca"    -> depca_disable    [] c = "sk_g16"   -> SK_disable

=============================================================================
