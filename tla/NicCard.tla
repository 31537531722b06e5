------------------------------ MODULE NicCard ------------------------------
(***************************************************************************)
(* What the network card drivers of netboot/ share: the card itself (its   *)
(* receive descriptors or its on-board memory, its transmitter), the frame *)
(* that was last handed to the stack (nic.packet) and the state of the     *)
(* stack that decides whether a card is stopped before a kernel runs.      *)
(* A frame is its number on the wire and whether it arrived undamaged.     *)
(* The card is external: it is modelled from the bits the drivers test.    *)
(***************************************************************************)
EXTENDS Integers, Sequences, FiniteSets

CONSTANTS RxRing,     \* receive descriptors of a ring driver
          TxRing,     \* transmit descriptors (drivers with one use descriptor 0)
          FifoRoom,   \* frames the on-board memory of a card holds
          MaxFrames,  \* bound: frames that arrive
          MaxSends    \* bound: calls of eth_transmit

ASSUME NicAssumption == /\ RxRing \in Nat \ {0, 1} /\ TxRing \in Nat \ {0, 1}
                        /\ FifoRoom \in Nat \ {0}
                        /\ MaxFrames \in Nat /\ MaxSends \in Nat

VARIABLES card,   \* the driver behind nic.poll, nic.transmit and nic.disable
          rx,     \* the receive side of the driver and of the card
          tx,     \* the transmit side
          pc,     \* "down", "idle", a wait inside the driver, or "booted"
          given,  \* the frame in nic.packet after the last successful poll
          seen,   \* frames that have arrived
          sends,  \* calls of eth_transmit
          wire,   \* the frame the card last put on the wire
          net     \* network_ready, its value when the kernel was started, and whether the
                  \* card wrote to memory after that

nicVars == <<card, rx, tx, pc, given, seen, sends, wire, net>>

\* Drivers whose card moves frames to and from main memory by itself.
RingDrivers == {"rtl8139", "tulip", "otulip", "davicom", "sis900", "natsemi", "epic100",
                "w89c840", "rhine", "eepro100", "3c90x", "lance", "depca", "sk_g16"}

\* Drivers that move every byte of a frame through a port or a window of the card.
PortDrivers == {"ns8390", "3c509", "3c595", "smc9000", "cs89x0", "eepro", "ni5010",
                "tiara"}

\* Boards whose descriptors and buffers are in the card's own memory.
SharedMemory == {"depca", "sk_g16"}

\* Cards that keep what they receive in order in one memory of their own
\* (the RTL8139 in one ring of bytes in main memory).
Fifo == PortDrivers \cup {"rtl8139", "3c90x"}

\* Cards that are set up to throw damaged frames away themselves.
Filters == {"eepro", "ns8390", "tiara", "eepro100"}

\* Cards whose receiver halts without a free descriptor until it is told to go on.
NeedsDemand == {"sis900", "natsemi", "epic100", "w89c840", "eepro100"}

Slots   == 0 .. RxRing - 1
TxSlots == 0 .. TxRing - 1
NoFrame == [id |-> 0, ok |-> TRUE]

RxInit == [own |-> [i \in Slots |-> FALSE], data |-> [i \in Slots |-> NoFrame],
           cur |-> 0, hw |-> 0, run |-> FALSE, sus |-> FALSE, fifo |-> <<>>, stat |-> FALSE]
TxInit == [own |-> [i \in TxSlots |-> FALSE], want |-> [i \in TxSlots |-> 0],
           buf |-> [i \in TxSlots |-> 0], cur |-> 0, on |-> FALSE]

NicInit == /\ card = "none" /\ pc = "down"
           /\ rx = RxInit /\ tx = TxInit
           /\ given = NoFrame /\ wire = [want |-> 0, buf |-> 0]
           /\ seen = 0 /\ sends = 0
           /\ net = [ready |-> FALSE, used |-> FALSE, written |-> FALSE]
----------------------------------------------------------------------------
(* Pieces the drivers are made of.                                         *)

Step(i) == (i + 1) % RxRing

\* Every descriptor is the card's, driver and card start at the first one.
FreshRing(r) == [r EXCEPT !.own = [i \in Slots |-> TRUE], !.cur = 0, !.hw = 0,
                          !.fifo = <<>>, !.stat = FALSE, !.sus = FALSE, !.run = TRUE]

Stopped(r) == [r EXCEPT !.run = FALSE, !.fifo = <<>>, !.stat = FALSE]

\* The frame is put in buffer b and descriptor d is given to the card.
Queue(t, d, b) == [t EXCEPT !.own[d] = TRUE, !.want[d] = sends + 1, !.buf[b] = sends + 1,
                            !.on = TRUE]

\* No frame is left in any transmit descriptor.
TxClear(t) == [t EXCEPT !.own = [i \in TxSlots |-> FALSE]]

\* A poll of driver c hands over frame f, or nothing.
Polls(c)  == card = c /\ pc = "idle"
Hand(f)   == given' = f
Nothing   == given' = given
AfterPoll == UNCHANGED <<card, tx, pc, seen, sends, wire, net>>

\* A transmit of driver c begins; it ends at once or goes to a wait.
Sends(c)     == card = c /\ pc = "idle" /\ sends < MaxSends /\ sends' = sends + 1
AfterSend    == UNCHANGED <<card, given, seen, wire, net>>
Waits(c)     == card = c /\ pc = "txwait" /\ pc' = "idle"
AfterWait    == UNCHANGED <<card, given, seen, sends, wire, net>>
----------------------------------------------------------------------------
(* The card: frames arrive and leave while the driver is anywhere.         *)

\* The descriptor-driven receiver stores a frame or misses it.  An EtherExpress
\* halts after every frame, because its only descriptor has the suspend bit set.
RingStore(f) ==
  IF rx.own[rx.hw] /\ ~rx.sus
    THEN /\ rx' = [rx EXCEPT !.own[rx.hw] = FALSE, !.data[rx.hw] = f,
                             !.hw = IF card = "eepro100" THEN 0 ELSE Step(rx.hw),
                             !.sus = (card = "eepro100"), !.stat = TRUE]
         /\ net' = [net EXCEPT !.written = @ \/ (pc = "booted" /\ card \notin SharedMemory)]
    ELSE /\ rx' = [rx EXCEPT !.sus = card \in NeedsDemand]
         /\ UNCHANGED net

\* The receiver with a memory of its own queues a frame while there is room.
\* Only the RTL8139 has that memory in the host.
FifoStore(f) ==
  IF Len(rx.fifo) < FifoRoom
    THEN /\ rx' = [rx EXCEPT !.fifo = Append(@, f), !.stat = TRUE]
         /\ net' = [net EXCEPT !.written = @ \/ (pc = "booted" /\ card = "rtl8139")]
    ELSE UNCHANGED <<rx, net>>

Arrive == /\ pc # "down" /\ rx.run /\ seen < MaxFrames
          /\ \E ok \in BOOLEAN :
               LET f == [id |-> seen + 1, ok |-> ok]
               IN IF ~ok /\ card \in Filters THEN UNCHANGED <<rx, net>>
                  ELSE IF card \in Fifo THEN FifoStore(f) ELSE RingStore(f)
          /\ seen' = seen + 1
          /\ UNCHANGED <<card, tx, pc, given, sends, wire>>

\* Buffers: some drivers give all their descriptors the same one.
BufOf(d) == IF card \in {"rtl8139", "davicom", "w89c840"} THEN 0 ELSE d

\* The card sends the frame of a descriptor it owns, as it is in memory now.
CardSends == /\ pc \notin {"down", "booted"} /\ tx.on
             /\ \E d \in TxSlots :
                  /\ tx.own[d]
                  /\ wire' = [want |-> tx.want[d], buf |-> tx.buf[BufOf(d)]]
                  /\ tx' = [tx EXCEPT !.own[d] = FALSE]
             /\ UNCHANGED <<card, rx, pc, given, seen, sends, net>>
----------------------------------------------------------------------------
(* The stack: it becomes ready when an address is configured, and          *)
(* cleanup_net stops the card before a kernel is started only then.        *)

Configured == /\ pc = "idle" /\ ~net.ready
              /\ net' = [net EXCEPT !.ready = TRUE]
              /\ UNCHANGED <<card, rx, tx, pc, given, seen, sends, wire>>

=============================================================================
