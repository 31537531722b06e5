----------------------------- MODULE NicProofs ------------------------------
(***************************************************************************)
(* Proofs about the network card drivers, for every number of descriptors, *)
(* every size of a card's memory and any number of frames.                 *)
(*                                                                         *)
(* The inductive invariant says how the cursor of a driver and that of its *)
(* card share a ring: what lies between them is what has been received, in *)
(* the order of the wire, and the rest belongs to the card.  It holds for  *)
(* all ring drivers but two (Disorderly); w89c840 leaves damaged frames    *)
(* behind its cursor, so that only its good frames count (Live).           *)
(***************************************************************************)
EXTENDS Nic, SequenceTheorems, TLAPS

Frame == [id : Nat, ok : BOOLEAN]
Rx == [own : [Slots -> BOOLEAN], data : [Slots -> Frame], cur : Slots, hw : Slots,
       run : BOOLEAN, sus : BOOLEAN, fifo : Seq(Frame), stat : BOOLEAN]
Tx == [own : [TxSlots -> BOOLEAN], want : [TxSlots -> Nat], buf : [TxSlots -> Nat],
       cur : TxSlots, on : BOOLEAN]

TypeOK ==
  /\ card \in {"none"} \cup RingDrivers \cup PortDrivers
  /\ pc \in {"down", "idle", "txwait", "copy", "booted"}
  /\ (pc = "down") <=> (card = "none")
  /\ rx \in Rx /\ tx \in Tx /\ given \in Frame
  /\ seen \in Nat /\ sends \in Nat
  /\ wire \in [want : Nat, buf : Nat]
  /\ net \in [ready : BOOLEAN, used : BOOLEAN, written : BOOLEAN]

(* Before the probe nothing has moved.                                     *)
DownInv == pc = "down" => /\ rx = RxInit /\ tx = TxInit /\ given = NoFrame
                          /\ wire.want = wire.buf

(* A buffer is filled again only with its descriptor.  The RTL8139 driver  *)
(* has one buffer for all descriptors, of which the card never owns two.   *)
SendInv ==
  /\ card \in KeepsBuffer \ {"rtl8139"} =>
        \A d \in TxSlots : tx.want[d] = tx.buf[d]
  /\ card = "rtl8139" =>
        \A d \in TxSlots : tx.own[d] => pc = "txwait" /\ d = tx.cur /\ tx.want[d] = tx.buf[0]

(* A card writes to the host's memory after the start of a kernel only if  *)
(* it still runs then.                                                     *)
QuietInv ==
  /\ net.written => pc = "booted"
  /\ pc # "booted" => ~net.used
  /\ pc = "booted" /\ net.used => ~rx.run \/ card \in NeverStops \cup PortDrivers

(* How far descriptor d is ahead of cursor c.                              *)
Dist(c, d) == IF d >= c THEN d - c ELSE d - c + RxRing

(* The descriptors the driver may look at, those of them whose frame it    *)
(* will hand over, and the frames' numbers.                                *)
Busy == {d \in Slots : ~rx.own[d]}
Live == {d \in Busy : card = "w89c840" => rx.data[d].ok}
Ids  == [d \in Slots |-> rx.data[d].id]

(* What is received lies between the cursors of driver and card, oldest    *)
(* first and younger than g; when the card has come round to the driver,   *)
(* every descriptor holds a frame.                                         *)
Order(busy, live, ids, cur, hw, g) ==
  /\ \A d \in live : g < ids[d]
  /\ \A d, e \in live : Dist(cur, d) < Dist(cur, e) => ids[d] < ids[e]
  /\ hw \notin busy => \A d \in live : Dist(cur, d) < Dist(cur, hw)
  /\ hw \notin busy => \A d \in Slots : Dist(cur, d) < Dist(cur, hw) => d \in busy
  /\ hw \in live => hw = cur /\ busy = Slots

RingOrder == Order(Busy, Live, Ids, rx.cur, rx.hw, given.id)

(* A DEPCA that did not stop for its initialisation receives nothing.      *)
NeverStarted == /\ ~rx.run /\ given = NoFrame
                /\ \A d \in Slots : rx.data[d] = NoFrame

RingCards == RingDrivers \ (Fifo \cup Disorderly)
RingInv == card \in RingCards /\ pc # "booted" => RingOrder \/ NeverStarted

(* A card with a memory of its own queues in order too.                    *)
FifoInv ==
  card \in Fifo =>
    /\ \A i \in 1 .. Len(rx.fifo) : given.id < rx.fifo[i].id /\ rx.fifo[i].id <= seen
    /\ \A i, j \in 1 .. Len(rx.fifo) : i < j => rx.fifo[i].id < rx.fifo[j].id
    /\ card \in Filters => \A i \in 1 .. Len(rx.fifo) : rx.fifo[i].ok

(* No frame is from the future, and a card that filters stores no bad one. *)
SeenInv == /\ given.id <= seen
           /\ \A d \in Slots : /\ rx.data[d].id <= seen
                               /\ card \in Filters => rx.data[d].ok

IInv == /\ TypeOK /\ DownInv /\ SendInv /\ SendsWhatWasQueued
        /\ QuietInv /\ QuietAfterBoot
        /\ RingInv /\ FifoInv /\ SeenInv

-----------------------------------------------------------------------------
(* Cursors.                                                                *)

LEMMA Rings ==
  /\ RxRing \in Nat /\ RxRing > 1 /\ TxRing \in Nat /\ TxRing > 1
  /\ Slots = 0 .. RxRing - 1 /\ 0 \in Slots
  /\ TxSlots = 0 .. TxRing - 1 /\ 0 \in TxSlots
  BY NicAssumption DEF Slots, TxSlots

LEMMA StepIs ==
  ASSUME NEW i \in Slots
  PROVE  Step(i) = (IF i + 1 = RxRing THEN 0 ELSE i + 1) /\ Step(i) \in Slots
  BY Rings DEF Step

LEMMA DistIs ==
  ASSUME NEW c \in Slots, NEW d \in Slots
  PROVE  /\ Dist(c, d) \in 0 .. RxRing - 1
         /\ Dist(c, d) = 0 <=> d = c
         /\ d # c => Dist(Step(c), d) = Dist(c, d) - 1
         /\ Dist(Step(c), c) = RxRing - 1
         /\ Step(d) # c => Dist(c, Step(d)) = Dist(c, d) + 1
         /\ Step(d) = c => Dist(c, d) = RxRing - 1
<1>1. /\ c \in Nat /\ c < RxRing /\ d \in Nat /\ d < RxRing
      /\ RxRing \in Nat /\ RxRing > 1 /\ Slots = 0 .. RxRing - 1
  BY Rings
<1>2. /\ Step(c) = (IF c + 1 = RxRing THEN 0 ELSE c + 1)
      /\ Step(d) = (IF d + 1 = RxRing THEN 0 ELSE d + 1)
  BY StepIs
<1>3. /\ Dist(c, d) \in 0 .. RxRing - 1
      /\ Dist(c, d) = 0 <=> d = c
  BY <1>1 DEF Dist
<1>4. /\ d # c => Dist(Step(c), d) = Dist(c, d) - 1
      /\ Dist(Step(c), c) = RxRing - 1
  BY <1>1, <1>2 DEF Dist
<1>5. /\ Step(d) # c => Dist(c, Step(d)) = Dist(c, d) + 1
      /\ Step(d) = c => Dist(c, d) = RxRing - 1
  BY <1>1, <1>2 DEF Dist
<1> QED
  BY <1>3, <1>4, <1>5

LEMMA DistEq ==
  ASSUME NEW c \in Slots, NEW d \in Slots, NEW e \in Slots, Dist(c, d) = Dist(c, e)
  PROVE  d = e
  BY Rings DEF Dist

(* The reset gives every descriptor to the card.                           *)
LEMMA FreshOrder ==
  ASSUME NEW ids \in [Slots -> Nat], NEW g \in Nat
  PROVE  Order({}, {}, ids, 0, 0, g)
  BY Rings, DistIs DEF Order

(* The driver takes the oldest frame and gives its descriptor back.        *)
LEMMA RecycleOrder ==
  ASSUME NEW busy \in SUBSET Slots, NEW live \in SUBSET busy, NEW ids \in [Slots -> Nat],
         NEW cur \in live, NEW hw \in Slots, NEW g \in Nat, NEW h \in {g, ids[cur]},
         Order(busy, live, ids, cur, hw, g)
  PROVE  Order(busy \ {cur}, live \ {cur}, ids, Step(cur), hw, h)
<1>1. cur \in Slots /\ Step(cur) \in Slots /\ live \subseteq Slots
  BY StepIs
<1>2. ASSUME NEW d \in Slots \ {cur}
      PROVE  /\ Dist(Step(cur), d) = Dist(cur, d) - 1
             /\ Dist(cur, d) \in 1 .. RxRing - 1
  <2>1. Dist(cur, d) \in 0 .. RxRing - 1 /\ Dist(cur, d) # 0
    BY <1>1, DistIs
  <2>2. Dist(Step(cur), d) = Dist(cur, d) - 1
    BY <1>1, DistIs
  <2> QED
    BY <2>1, <2>2, Rings
<1>3. Dist(Step(cur), cur) = RxRing - 1 /\ Dist(cur, cur) = 0
  BY <1>1, DistIs
<1>4. \A d \in live \ {cur} : h < ids[d]
  BY <1>1, <1>2, <1>3 DEF Order
<1>5. \A d, e \in live \ {cur} :
        Dist(Step(cur), d) < Dist(Step(cur), e) => ids[d] < ids[e]
  BY <1>1, <1>2 DEF Order
<1>6. CASE hw = cur
  <2>1. busy = Slots
    BY <1>6 DEF Order
  <2>2. \A d \in Slots \ {cur} : Dist(Step(cur), d) < RxRing - 1
    BY <1>2, Rings
  <2>3. \A d \in live \ {cur} : Dist(Step(cur), d) < Dist(Step(cur), hw)
    BY <1>1, <1>3, <1>6, <2>2
  <2>4. \A d \in Slots : Dist(Step(cur), d) < Dist(Step(cur), hw) => d \in busy \ {cur}
    BY <1>3, <1>6, <2>1, Rings
  <2> QED
    BY <1>4, <1>5, <1>6, <2>3, <2>4 DEF Order
<1>7. CASE hw # cur
  <2>1. hw \notin live
    BY <1>7 DEF Order
  <2>2. ASSUME hw \notin busy, NEW d \in live \ {cur}
        PROVE  Dist(Step(cur), d) < Dist(Step(cur), hw)
    BY <1>1, <1>2, <1>7, <2>2 DEF Order
  <2>3. ASSUME hw \notin busy, NEW d \in Slots, Dist(Step(cur), d) < Dist(Step(cur), hw)
        PROVE  d \in busy \ {cur}
    <3>1. Dist(Step(cur), hw) \in Int /\ Dist(Step(cur), hw) < RxRing - 1
      BY <1>2, <1>7, Rings
    <3>2. d # cur
      BY <1>3, <2>3, <3>1, Rings
    <3>3. Dist(cur, d) < Dist(cur, hw)
      BY <1>2, <1>7, <2>3, <3>2
    <3> QED
      BY <2>3, <3>2, <3>3 DEF Order
  <2> QED
    BY <1>4, <1>5, <1>7, <2>1, <2>2, <2>3 DEF Order
<1> QED
  BY <1>6, <1>7

(* The driver passes over a damaged frame, and leaves it to itself.        *)
LEMMA SkipOrder ==
  ASSUME NEW busy \in SUBSET Slots, NEW live \in SUBSET busy, NEW ids \in [Slots -> Nat],
         NEW cur \in busy \ live, NEW hw \in Slots, NEW g \in Nat,
         Order(busy, live, ids, cur, hw, g)
  PROVE  Order(busy, live, ids, Step(cur), hw, g)
<1>1. cur \in Slots /\ Step(cur) \in Slots /\ live \subseteq Slots
  BY StepIs
<1>2. ASSUME NEW d \in Slots \ {cur}
      PROVE  /\ Dist(Step(cur), d) = Dist(cur, d) - 1
             /\ Dist(cur, d) \in 1 .. RxRing - 1
  <2>1. Dist(cur, d) \in 0 .. RxRing - 1 /\ Dist(cur, d) # 0
    BY <1>1, DistIs
  <2>2. Dist(Step(cur), d) = Dist(cur, d) - 1
    BY <1>1, DistIs
  <2> QED
    BY <2>1, <2>2, Rings
<1>3. \A d, e \in live : Dist(Step(cur), d) < Dist(Step(cur), e) => ids[d] < ids[e]
  BY <1>1, <1>2 DEF Order
<1>4. hw \notin live
  <2> SUFFICES ASSUME hw \in live PROVE FALSE
    OBVIOUS
  <2> QED
    BY DEF Order
<1>5. ASSUME hw \notin busy, NEW d \in live
      PROVE  Dist(Step(cur), d) < Dist(Step(cur), hw)
  BY <1>1, <1>2, <1>5 DEF Order
<1>6. ASSUME hw \notin busy, NEW d \in Slots, Dist(Step(cur), d) < Dist(Step(cur), hw)
      PROVE  d \in busy
  BY <1>1, <1>2, <1>6 DEF Order
<1> QED
  BY <1>3, <1>4, <1>5, <1>6 DEF Order

(* The card stores a frame that is younger than every other.               *)
LEMMA StoreOrder ==
  ASSUME NEW busy \in SUBSET Slots, NEW live \in SUBSET busy, NEW ids \in [Slots -> Nat],
         NEW cur \in Slots, NEW hw \in Slots \ busy, NEW g \in Nat,
         NEW n \in Nat, g < n, \A d \in Slots : ids[d] < n,
         NEW more \in {live, live \cup {hw}},
         Order(busy, live, ids, cur, hw, g)
  PROVE  Order(busy \cup {hw}, more, [ids EXCEPT ![hw] = n], cur, Step(hw), g)
<1> DEFINE now == [ids EXCEPT ![hw] = n]
           next == Step(hw)
<1>1. /\ next \in Slots /\ more \subseteq Slots /\ next # hw
      /\ now[hw] = n /\ \A d \in Slots \ {hw} : now[d] = ids[d]
  <2>1. next \in Slots /\ next # hw
    <3>1. hw \in Slots
      OBVIOUS
    <3>2. Step(hw) = (IF hw + 1 = RxRing THEN 0 ELSE hw + 1) /\ Step(hw) \in Slots
      BY <3>1, StepIs
    <3> QED
      BY <3>1, <3>2, Rings
  <2> QED
    BY <2>1
<1>2. \A d \in Slots : Dist(cur, d) \in 0 .. RxRing - 1
  BY DistIs
<1>3. \A d \in Slots \ {hw} : ids[d] \in Nat /\ ids[d] < n
  OBVIOUS
<1>4. \A d \in live : Dist(cur, d) < Dist(cur, hw)
  BY DEF Order
<1>5. next # cur => Dist(cur, next) = Dist(cur, hw) + 1
  BY DistIs
<1>6. next = cur => Dist(cur, hw) = RxRing - 1 /\ Dist(cur, next) = 0
  BY DistIs, <1>1
<1> HIDE DEF now, next
<1>7. \A d \in more : g < now[d]
  BY <1>1 DEF Order
<1>8. ASSUME NEW d \in more, NEW e \in more, Dist(cur, d) < Dist(cur, e)
      PROVE  now[d] < now[e]
  <2>1. CASE e = hw
    <3>1. d # hw
      BY <1>2, <1>8, <2>1
    <3> QED
      BY <1>1, <1>3, <2>1, <3>1
  <2>2. CASE e # hw
    <3>1. e \in live
      BY <2>2
    <3>2. d # hw
      BY <1>2, <1>4, <1>8, <3>1
    <3> QED
      BY <1>1, <1>8, <2>2, <3>1, <3>2 DEF Order
  <2> QED
    BY <2>1, <2>2
<1>9. ASSUME next \notin busy \cup {hw}, NEW d \in more
      PROVE  Dist(cur, d) < Dist(cur, next)
  <2>1. next # cur
    <3> SUFFICES ASSUME next = cur PROVE FALSE
      OBVIOUS
    <3>1. Dist(cur, next) < Dist(cur, hw)
      BY <1>6, Rings
    <3> QED
      BY <1>1, <1>9, <3>1 DEF Order
  <2> QED
    BY <1>1, <1>2, <1>4, <1>5, <2>1
<1>10. ASSUME next \notin busy \cup {hw}, NEW d \in Slots, Dist(cur, d) < Dist(cur, next)
       PROVE  d \in busy \cup {hw}
  <2>1. next # cur
    BY <1>1, <1>2, <1>6, <1>10
  <2>2. Dist(cur, d) < Dist(cur, hw) \/ Dist(cur, d) = Dist(cur, hw)
    BY <1>2, <1>5, <1>10, <2>1
  <2> QED
    BY <2>2, DistEq DEF Order
<1>11. next \in more => next = cur /\ busy \cup {hw} = Slots
  <2> SUFFICES ASSUME next \in more PROVE next = cur /\ busy \cup {hw} = Slots
    OBVIOUS
  <2>1. next \in live
    BY <1>1
  <2>2. next = cur
    BY <1>1, <1>2, <1>4, <1>5, <2>1
  <2>3. ASSUME NEW d \in Slots \ {hw} PROVE d \in busy
    <3>1. Dist(cur, d) # RxRing - 1
      BY <1>6, <2>2, <2>3, DistEq
    <3>2. Dist(cur, d) < Dist(cur, hw)
      BY <1>2, <1>6, <2>2, <3>1
    <3> QED
      BY <3>2 DEF Order
  <2> QED
    BY <2>2, <2>3
<1> QED
  BY <1>7, <1>8, <1>9, <1>10, <1>11 DEF Order, now, next

-----------------------------------------------------------------------------
(* What the pieces of the drivers do to the receive side.                  *)

LEMMA RxFields ==
  ASSUME NEW r \in Rx
  PROVE  /\ r.own \in [Slots -> BOOLEAN] /\ r.data \in [Slots -> Frame]
         /\ r.cur \in Slots /\ r.hw \in Slots /\ r.fifo \in Seq(Frame)
         /\ r.run \in BOOLEAN /\ r.sus \in BOOLEAN /\ r.stat \in BOOLEAN
  BY DEF Rx

LEMMA RecycleIs ==
  ASSUME NEW r \in Rx, NEW s \in {Recycle(r), [Recycle(r) EXCEPT !.sus = FALSE]}
  PROVE  /\ s \in Rx /\ s.data = r.data /\ s.hw = r.hw /\ s.fifo = r.fifo
         /\ s.run = r.run /\ s.cur = Step(r.cur)
         /\ s.own = [r.own EXCEPT ![r.cur] = TRUE]
<1>1. r.cur \in Slots /\ Step(r.cur) \in Slots
  BY StepIs DEF Rx
<1> QED
  BY <1>1 DEF Rx, Recycle

LEMMA FreshIs ==
  ASSUME NEW r \in Rx
  PROVE  LET s == FreshRing(r)
         IN  /\ s \in Rx /\ s.data = r.data /\ s.hw = 0 /\ s.cur = 0
             /\ s.fifo = <<>> /\ s.own = [i \in Slots |-> TRUE]
<1>1. <<>> \in Seq(Frame) /\ 0 \in Slots /\ [i \in Slots |-> TRUE] \in [Slots -> BOOLEAN]
  BY Rings
<1> QED
  BY <1>1 DEF Rx, FreshRing

LEMMA StoppedIs ==
  ASSUME NEW r \in Rx, NEW s \in {Stopped(r), [Stopped(r) EXCEPT !.run = TRUE]}
  PROVE  /\ s \in Rx /\ s.data = r.data /\ s.hw = r.hw /\ s.cur = r.cur
         /\ s.own = r.own /\ s.fifo = <<>> /\ (s = Stopped(r) => ~s.run)
<1>1. <<>> \in Seq(Frame)
  OBVIOUS
<1>2. Stopped(r) \in Rx /\ ~Stopped(r).run
  BY <1>1 DEF Rx, Stopped
<1>3. s \in Rx
  BY <1>2 DEF Rx
<1>4. /\ s.data = r.data /\ s.hw = r.hw /\ s.cur = r.cur
      /\ s.own = r.own /\ s.fifo = <<>>
  BY DEF Rx, Stopped
<1> QED
  BY <1>2, <1>3, <1>4

LEMMA DropIs ==
  ASSUME NEW r \in Rx, r.fifo # <<>>
  PROVE  LET s == [r EXCEPT !.fifo = Tail(@)]
         IN  /\ s \in Rx /\ s.data = r.data /\ s.fifo = Tail(r.fifo) /\ s.run = r.run
             /\ Head(r.fifo) \in Frame
<1>1. r.fifo \in Seq(Frame)
  BY DEF Rx
<1>2. Tail(r.fifo) \in Seq(Frame) /\ Head(r.fifo) \in Frame
  BY <1>1, HeadTailProperties
<1> QED
  BY <1>2 DEF Rx

LEMMA QueueTx ==
  ASSUME NEW t \in Tx, NEW d \in TxSlots, NEW b \in TxSlots, sends \in Nat
  PROVE  Queue(t, d, b) \in Tx
<1>1. sends + 1 \in Nat
  OBVIOUS
<1> QED
  BY <1>1 DEF Tx, Queue

LEMMA QueueIs ==
  ASSUME NEW t \in Tx, NEW d \in TxSlots, NEW b \in TxSlots, sends \in Nat
  PROVE  LET q == Queue(t, d, b)
         IN  /\ q \in Tx /\ q.cur = t.cur
             /\ q.own = [t.own EXCEPT ![d] = TRUE]
             /\ q.want = [t.want EXCEPT ![d] = sends + 1]
             /\ q.buf = [t.buf EXCEPT ![b] = sends + 1]
<1>1. sends + 1 \in Nat
  OBVIOUS
<1> QED
  BY <1>1 DEF Tx, Queue

LEMMA ClearIs ==
  ASSUME NEW t \in Tx
  PROVE  LET q == TxClear(t)
         IN  /\ q \in Tx /\ q.cur = t.cur /\ q.want = t.want /\ q.buf = t.buf
             /\ q.own = [i \in TxSlots |-> FALSE]
  BY DEF Tx, TxClear

-----------------------------------------------------------------------------
(* What a call into a driver may do to what has been received: leave it,   *)
(* reset the ring, take the oldest frame or pass over a damaged one.       *)

RingMove ==
  \/ Busy' = Busy /\ rx'.cur = rx.cur /\ rx'.hw = rx.hw /\ rx'.run = rx.run /\ given' = given
  \/ Busy' = {} /\ rx'.cur = 0 /\ rx'.hw = 0 /\ given' = given
  \/ /\ rx.cur \in Live /\ Busy' = Busy \ {rx.cur} /\ rx'.cur = Step(rx.cur)
     /\ rx'.hw = rx.hw /\ rx'.run = rx.run /\ given' \in {given, rx.data[rx.cur]}
  \/ /\ rx.cur \in Busy \ Live /\ Busy' = Busy /\ rx'.cur = Step(rx.cur)
     /\ rx'.hw = rx.hw /\ rx'.run = rx.run /\ given' = given

FifoMove ==
  \/ rx'.fifo \in {rx.fifo, <<>>} /\ given' = given
  \/ /\ rx.fifo # <<>> /\ rx'.fifo \in {Tail(rx.fifo), <<>>}
     /\ given' \in {given, Head(rx.fifo)}

DriverStep ==
  /\ pc \in {"idle", "txwait", "copy"} /\ pc' \in {"idle", "txwait", "copy"}
  /\ UNCHANGED <<card, seen, wire, net>>
  /\ rx' \in Rx /\ rx'.data = rx.data /\ tx' \in Tx /\ given' \in Frame /\ sends' \in Nat
  /\ \/ given' = given
     \/ \E d \in Slots : given' = rx.data[d]
     \/ card \in Fifo /\ rx.fifo # <<>> /\ given' = Head(rx.fifo)
  /\ given' # given => card \in Unchecked \/ given'.ok
  /\ card \in RingCards => RingMove
  /\ card \in Fifo => FifoMove
  /\ SendInv'

LEMMA View ==
  ASSUME TypeOK
  PROVE  /\ Busy \in SUBSET Slots /\ Live \in SUBSET Busy /\ Ids \in [Slots -> Nat]
         /\ rx.cur \in Slots /\ rx.hw \in Slots /\ given.id \in Nat
         /\ \A d \in Slots : Ids[d] = rx.data[d].id /\ rx.data[d] \in Frame
<1>1. rx.data \in [Slots -> Frame] /\ rx.cur \in Slots /\ rx.hw \in Slots /\ given \in Frame
  BY RxFields DEF TypeOK
<1>2. Busy \in SUBSET Slots /\ Live \in SUBSET Busy
  BY DEF Busy, Live
<1>3. \A d \in Slots : Ids[d] = rx.data[d].id /\ rx.data[d] \in Frame
  BY <1>1 DEF Ids
<1>4. Ids \in [Slots -> Nat] /\ given.id \in Nat
  BY <1>1 DEF Ids, Frame
<1> QED
  BY <1>1, <1>2, <1>3, <1>4

LEMMA RingKeeps ==
  ASSUME TypeOK, rx' \in Rx, rx'.data = rx.data, given' \in Frame, card' = card,
         RingOrder \/ NeverStarted, RingMove
  PROVE  RingOrder' \/ NeverStarted'
<1>1. Ids' = Ids
  BY DEF Ids
<1>2. ASSUME Busy' = Busy PROVE Live' = Live
  BY <1>2 DEF Live
<1>3. ASSUME Busy' = Busy \ {rx.cur} PROVE Live' = Live \ {rx.cur}
  BY <1>3 DEF Live
<1>4. CASE Busy' = {} /\ rx'.cur = 0 /\ rx'.hw = 0 /\ given' = given
  <2>1. Live' = {}
    BY <1>4 DEF Live
  <2>2. Order({}, {}, Ids, 0, 0, given.id)
    BY View, FreshOrder
  <2> QED
    BY <1>1, <1>4, <2>1, <2>2 DEF RingOrder
<1>5. CASE NeverStarted /\ rx'.run = rx.run /\ (given' = given \/ given' = rx.data[rx.cur])
  <2>1. rx.cur \in Slots
    BY View
  <2>2. given' = NoFrame /\ \A d \in Slots : rx'.data[d] = NoFrame
    BY <1>5, <2>1 DEF NeverStarted
  <2>3. ~rx'.run
    BY <1>5 DEF NeverStarted
  <2> QED
    BY <2>2, <2>3 DEF NeverStarted, NoFrame
<1>6. CASE /\ RingOrder /\ Busy' = Busy /\ rx'.cur = rx.cur /\ rx'.hw = rx.hw
           /\ given' = given
  BY <1>1, <1>2, <1>6 DEF RingOrder
<1>7. CASE /\ RingOrder /\ rx.cur \in Live /\ Busy' = Busy \ {rx.cur}
           /\ rx'.cur = Step(rx.cur) /\ rx'.hw = rx.hw
           /\ given' \in {given, rx.data[rx.cur]}
  <2>1. given'.id \in {given.id, Ids[rx.cur]}
    BY <1>7, View
  <2>2. Order(Busy \ {rx.cur}, Live \ {rx.cur}, Ids, Step(rx.cur), rx.hw, given'.id)
    BY <1>7, <2>1, View, RecycleOrder DEF RingOrder
  <2> QED
    BY <1>1, <1>3, <1>7, <2>2 DEF RingOrder
<1>8. CASE /\ RingOrder /\ rx.cur \in Busy \ Live /\ Busy' = Busy
           /\ rx'.cur = Step(rx.cur) /\ rx'.hw = rx.hw /\ given' = given
  <2>1. Order(Busy, Live, Ids, Step(rx.cur), rx.hw, given.id)
    BY <1>8, View, SkipOrder DEF RingOrder
  <2> QED
    BY <1>1, <1>2, <1>8, <2>1 DEF RingOrder
<1> QED
  BY <1>4, <1>5, <1>6, <1>7, <1>8 DEF RingMove

LEMMA FifoKeeps ==
  ASSUME TypeOK, card \in Fifo, UNCHANGED <<card, seen>>, given' \in Frame, FifoInv, FifoMove
  PROVE  FifoInv'
<1>1. rx.fifo \in Seq(Frame) /\ given.id \in Nat
  BY View, RxFields DEF TypeOK
<1>2. CASE rx'.fifo = <<>>
  BY <1>2 DEF FifoInv
<1>3. CASE rx'.fifo = rx.fifo /\ given' = given
  BY <1>3 DEF FifoInv
<1>4. CASE rx.fifo # <<>> /\ rx'.fifo = Tail(rx.fifo) /\ given' \in {given, Head(rx.fifo)}
  <2> DEFINE s == rx.fifo
             w == Tail(s)
  <2>1. /\ Len(s) \in Nat /\ Len(s) > 0 /\ Len(w) = Len(s) - 1 /\ Head(s) = s[1]
        /\ \A i \in 1 .. Len(w) : w[i] = s[i + 1]
        /\ \A i \in 1 .. Len(s) : s[i].id \in Nat
    <3>1. s \in Seq(Frame) /\ s # <<>>
      BY <1>1, <1>4
    <3>2. \A i \in 1 .. Len(s) : s[i] \in Frame
      BY <3>1
    <3> HIDE DEF s
    <3>3. /\ Len(s) \in Nat /\ Len(s) > 0 /\ Len(w) = Len(s) - 1 /\ Head(s) = s[1]
          /\ \A i \in 1 .. Len(w) : w[i] = s[i + 1]
      BY <3>1, HeadTailProperties
    <3> QED
      BY <3>2, <3>3 DEF Frame
  <2>2. /\ \A i \in 1 .. Len(s) : given.id < s[i].id /\ s[i].id <= seen
        /\ \A i, j \in 1 .. Len(s) : i < j => s[i].id < s[j].id
        /\ card \in Filters => \A i \in 1 .. Len(s) : s[i].ok
    BY DEF FifoInv
  <2>3. given'.id = given.id \/ given'.id = s[1].id
    BY <1>4, <2>1
  <2>4. rx'.fifo = w
    BY <1>4
  <2> HIDE DEF s, w
  <2>5. ASSUME NEW i \in 1 .. Len(w) PROVE i + 1 \in 1 .. Len(s) /\ 1 \in 1 .. Len(s) /\ 1 < i + 1
    BY <2>1
  <2>6. \A i \in 1 .. Len(w) : given'.id < w[i].id /\ w[i].id <= seen
    BY <2>1, <2>2, <2>3, <2>5
  <2>7. ASSUME NEW i \in 1 .. Len(w), NEW j \in 1 .. Len(w), i < j
        PROVE  w[i].id < w[j].id
    <3>1. i + 1 < j + 1
      BY <2>1, <2>7
    <3>2. s[i + 1].id < s[j + 1].id
      BY <2>2, <2>5, <3>1
    <3> QED
      BY <2>1, <3>2
  <2>8. card \in Filters => \A i \in 1 .. Len(w) : w[i].ok
    BY <2>1, <2>2, <2>5
  <2> QED
    BY <2>4, <2>6, <2>7, <2>8 DEF FifoInv
<1> QED
  BY <1>2, <1>3, <1>4 DEF FifoMove

(* A step that hands something over hands over what it should.             *)
Ordered ==
  given' # given =>
    /\ card \notin Disorderly => given'.id > given.id
    /\ card \notin Unchecked => given'.ok

LEMMA Classes ==
  RingDrivers \cup PortDrivers = RingCards \cup Fifo \cup Disorderly
  BY DEF RingCards, Fifo, Disorderly, RingDrivers, PortDrivers

LEMMA FirstOfFifo ==
  ASSUME TypeOK, rx.fifo # <<>>
  PROVE  Head(rx.fifo) = rx.fifo[1] /\ 1 \in 1 .. Len(rx.fifo) /\ Head(rx.fifo) \in Frame
<1>1. rx.fifo \in Seq(Frame)
  BY RxFields DEF TypeOK
<1> QED
  BY <1>1

LEMMA DriverOrdered == ASSUME IInv, DriverStep PROVE Ordered
<1>1. TypeOK /\ card \in RingCards \cup Fifo \cup Disorderly
  BY Classes DEF IInv, TypeOK, DriverStep
<1> SUFFICES ASSUME given' # given, card \notin Disorderly PROVE given'.id > given.id
  BY DEF DriverStep, Ordered
<1>2. given.id \in Nat /\ given'.id \in Nat
  BY <1>1 DEF TypeOK, DriverStep, Frame
<1>3. CASE card \in RingCards
  <2>1. rx.cur \in Live /\ given' = rx.data[rx.cur]
    BY <1>3 DEF DriverStep, RingMove
  <2>2. RingOrder \/ NeverStarted
    BY <1>3 DEF IInv, RingInv, DriverStep
  <2>3. rx.cur \in Slots /\ Ids[rx.cur] = rx.data[rx.cur].id
    BY <1>1, View
  <2>4. ~NeverStarted
    BY <2>1, <2>3 DEF NeverStarted
  <2>5. given.id < Ids[rx.cur]
    BY <2>1, <2>2, <2>4 DEF RingOrder, Order
  <2> QED
    BY <1>2, <2>1, <2>3, <2>5
<1>4. CASE card \in Fifo
  <2>1. rx.fifo # <<>> /\ given' = Head(rx.fifo)
    BY <1>4 DEF DriverStep, FifoMove
  <2>2. given.id < rx.fifo[1].id
    BY <1>1, <1>4, <2>1, FirstOfFifo DEF IInv, FifoInv
  <2> QED
    BY <1>1, <1>2, <2>1, <2>2, FirstOfFifo
<1> QED
  BY <1>1, <1>3, <1>4

LEMMA DriverKeeps == ASSUME IInv, DriverStep PROVE IInv'
<1>1. TypeOK
  BY DEF IInv
<1>2. TypeOK'
  BY <1>1 DEF TypeOK, DriverStep
<1>3. pc # "down" /\ pc # "booted" /\ pc' # "down" /\ pc' # "booted"
  BY DEF DriverStep
<1>4. DownInv' /\ SendInv' /\ SendsWhatWasQueued'
  BY <1>3 DEF DownInv, DriverStep, IInv, SendsWhatWasQueued
<1>5. QuietInv' /\ QuietAfterBoot'
  BY <1>3 DEF QuietInv, QuietAfterBoot, DriverStep, IInv
<1>6. RingInv'
  <2> SUFFICES ASSUME card \in RingCards PROVE RingOrder' \/ NeverStarted'
    BY DEF RingInv, DriverStep
  <2> QED
    BY <1>1, <1>3, RingKeeps DEF IInv, RingInv, DriverStep
<1>7. FifoInv'
  <2>1. CASE card \in Fifo
    BY <1>1, <2>1, FifoKeeps DEF IInv, DriverStep
  <2>2. CASE card \notin Fifo
    BY <2>2 DEF FifoInv, DriverStep
  <2> QED
    BY <2>1, <2>2
<1>8. SeenInv'
  <2>1. SeenInv /\ FifoInv
    BY DEF IInv
  <2>2. given'.id <= seen
    <3>1. CASE given' = given \/ \E d \in Slots : given' = rx.data[d]
      BY <2>1, <3>1 DEF SeenInv
    <3>2. CASE card \in Fifo /\ rx.fifo # <<>> /\ given' = Head(rx.fifo)
      BY <1>1, <2>1, <3>2, FirstOfFifo DEF FifoInv
    <3> QED
      BY <3>1, <3>2 DEF DriverStep
  <2> QED
    BY <2>1, <2>2 DEF SeenInv, DriverStep
<1> QED
  BY <1>2, <1>4, <1>5, <1>6, <1>7, <1>8 DEF IInv

-----------------------------------------------------------------------------
(* The card's own steps.                                                   *)

LEMMA StoreView ==
  ASSUME TypeOK, NEW f \in Frame, rx.own[rx.hw], card' = card,
         rx'.own = [rx.own EXCEPT ![rx.hw] = FALSE], rx'.data = [rx.data EXCEPT ![rx.hw] = f]
  PROVE  /\ rx.hw \notin Busy /\ Busy' = Busy \cup {rx.hw}
         /\ Live' \in {Live, Live \cup {rx.hw}}
         /\ Ids' = [Ids EXCEPT ![rx.hw] = f.id]
<1>1. rx.own \in [Slots -> BOOLEAN] /\ rx.data \in [Slots -> Frame] /\ rx.hw \in Slots
  BY RxFields DEF TypeOK
<1>2. /\ ~rx'.own[rx.hw] /\ rx'.data[rx.hw] = f
      /\ \A d \in Slots \ {rx.hw} : rx'.own[d] = rx.own[d] /\ rx'.data[d] = rx.data[d]
  BY <1>1
<1>3. rx.hw \notin Busy
  BY DEF Busy
<1>4. Busy' = Busy \cup {rx.hw}
  BY <1>1, <1>2 DEF Busy
<1>5. CASE card = "w89c840" => f.ok
  <2>1. Live' = Live \cup {rx.hw}
    BY <1>1, <1>2, <1>3, <1>4, <1>5 DEF Live, Busy
  <2> QED
    BY <1>3, <1>4, <2>1, <1>1, <1>2 DEF Ids
<1>6. CASE ~(card = "w89c840" => f.ok)
  <2>1. Live' = Live
    BY <1>1, <1>2, <1>3, <1>4, <1>6 DEF Live, Busy
  <2> QED
    BY <1>3, <1>4, <2>1, <1>1, <1>2 DEF Ids
<1> QED
  BY <1>5, <1>6

(* The receiver stores frame f in the ring, or misses it.                  *)
LEMMA RingStoreKeeps ==
  ASSUME IInv, pc # "down", rx.run, card \notin Fifo, UNCHANGED <<card, pc, given>>,
         NEW f \in Frame, f.id = seen + 1, card \in Filters => f.ok, RingStore(f),
         seen' = seen + 1
  PROVE  /\ rx' \in Rx /\ net' \in [ready : BOOLEAN, used : BOOLEAN, written : BOOLEAN]
         /\ RingInv' /\ SeenInv' /\ QuietInv' /\ QuietAfterBoot'
<1>1. TypeOK
  BY DEF IInv
<1>2. /\ rx.own \in [Slots -> BOOLEAN] /\ rx.data \in [Slots -> Frame] /\ rx.hw \in Slots
      /\ rx \in Rx /\ Step(rx.hw) \in Slots /\ 0 \in Slots
      /\ net \in [ready : BOOLEAN, used : BOOLEAN, written : BOOLEAN]
  BY <1>1, RxFields, StepIs, Rings DEF TypeOK
<1>3. \A d \in Slots : Ids[d] \in Nat /\ Ids[d] <= seen
  BY <1>1, View DEF IInv, SeenInv
<1>4. seen \in Nat /\ given.id \in Nat /\ given.id <= seen
  BY <1>1, View DEF IInv, SeenInv, TypeOK
<1>5. CASE rx.own[rx.hw] /\ ~rx.sus
  <2>1. /\ rx' = [rx EXCEPT !.own[rx.hw] = FALSE, !.data[rx.hw] = f,
                             !.hw = IF card = "eepro100" THEN 0 ELSE Step(rx.hw),
                             !.sus = (card = "eepro100"), !.stat = TRUE]
        /\ net' = [net EXCEPT !.written = @ \/ (pc = "booted" /\ card \notin SharedMemory)]
    BY <1>5 DEF RingStore
  <2>2. /\ rx'.own = [rx.own EXCEPT ![rx.hw] = FALSE]
        /\ rx'.data = [rx.data EXCEPT ![rx.hw] = f]
        /\ rx'.hw = IF card = "eepro100" THEN 0 ELSE Step(rx.hw)
        /\ rx'.cur = rx.cur /\ rx'.run = rx.run
    BY <1>2, <2>1 DEF Rx
  <2>3. rx' \in Rx
    <3>1. [rx.own EXCEPT ![rx.hw] = FALSE] \in [Slots -> BOOLEAN]
      BY <1>2
    <3>2. [rx.data EXCEPT ![rx.hw] = f] \in [Slots -> Frame]
      BY <1>2
    <3> QED
      BY <1>2, <2>1, <3>1, <3>2 DEF Rx
  <2>4. RingInv'
    <3> SUFFICES ASSUME card \in RingCards, pc # "booted" PROVE RingOrder'
      BY DEF RingInv
    <3>1. RingOrder
      BY DEF IInv, RingInv, NeverStarted
    <3>2. rx'.hw = Step(rx.hw)
      BY <2>2 DEF RingCards, Disorderly
    <3>3. /\ rx.hw \in Slots \ Busy /\ Busy' = Busy \cup {rx.hw}
          /\ Live' \in {Live, Live \cup {rx.hw}}
          /\ Ids' = [Ids EXCEPT ![rx.hw] = seen + 1]
      BY <1>1, <1>2, <1>5, <2>2, StoreView
    <3>4. Order(Busy \cup {rx.hw}, Live', [Ids EXCEPT ![rx.hw] = seen + 1],
                rx.cur, Step(rx.hw), given.id)
      <4>1. /\ seen + 1 \in Nat /\ given.id < seen + 1
            /\ \A d \in Slots : Ids[d] < seen + 1
        BY <1>3, <1>4
      <4>2. /\ Busy \in SUBSET Slots /\ Live \in SUBSET Busy /\ Ids \in [Slots -> Nat]
            /\ rx.cur \in Slots /\ given.id \in Nat
        BY <1>1, View
      <4>3. Order(Busy, Live, Ids, rx.cur, rx.hw, given.id)
        BY <3>1 DEF RingOrder
      <4> DEFINE n == seen + 1
      <4>4. n \in Nat /\ given.id < n /\ \A d \in Slots : Ids[d] < n
        BY <4>1
      <4> HIDE DEF n
      <4>5. /\ Order(Busy \cup {rx.hw}, Live, [Ids EXCEPT ![rx.hw] = n],
                     rx.cur, Step(rx.hw), given.id)
            /\ Order(Busy \cup {rx.hw}, Live \cup {rx.hw}, [Ids EXCEPT ![rx.hw] = n],
                     rx.cur, Step(rx.hw), given.id)
        BY <3>3, <4>2, <4>3, <4>4, StoreOrder
      <4> QED
        BY <3>3, <4>5 DEF n
    <3> QED
      BY <2>2, <3>2, <3>3, <3>4 DEF RingOrder
  <2>5. SeenInv'
    <3>1. ASSUME NEW d \in Slots PROVE rx'.data[d] = rx.data[d] \/ rx'.data[d] = f
      BY <1>2, <2>2
    <3>2. \A d \in Slots : rx.data[d].id \in Nat /\ rx.data[d].id <= seen
      BY <1>1, <1>3, View
    <3>3. \A d \in Slots : rx'.data[d].id <= seen + 1
      BY <1>4, <3>1, <3>2
    <3>4. \A d \in Slots : card \in Filters => rx'.data[d].ok
      BY <3>1 DEF IInv, SeenInv
    <3> QED
      BY <1>4, <3>3, <3>4 DEF SeenInv
  <2>6. card \notin PortDrivers
    BY DEF Fifo
  <2>7. net'.used = net.used /\ (net'.written => net.written \/ pc = "booted")
    BY <1>2, <2>1
  <2>8. net' \in [ready : BOOLEAN, used : BOOLEAN, written : BOOLEAN]
    BY <1>2, <2>1
  <2>9. QuietInv' /\ QuietAfterBoot'
    BY <2>2, <2>6, <2>7 DEF QuietInv, QuietAfterBoot, IInv
  <2> QED
    BY <2>3, <2>4, <2>5, <2>8, <2>9
<1>6. CASE ~(rx.own[rx.hw] /\ ~rx.sus)
  <2>1. rx' = [rx EXCEPT !.sus = card \in NeedsDemand] /\ net' = net
    BY <1>6 DEF RingStore
  <2>2. /\ rx' \in Rx /\ rx'.own = rx.own /\ rx'.data = rx.data
        /\ rx'.hw = rx.hw /\ rx'.cur = rx.cur /\ rx'.run = rx.run
    <3>1. (card \in NeedsDemand) \in BOOLEAN
      OBVIOUS
    <3> DEFINE demand == card \in NeedsDemand
    <3>2. rx' = [rx EXCEPT !.sus = demand] /\ demand \in BOOLEAN
      BY <2>1, <3>1
    <3> HIDE DEF demand
    <3> QED
      BY <1>2, <3>2 DEF Rx
  <2>3. Busy' = Busy /\ Live' = Live /\ Ids' = Ids
    BY <2>2 DEF Busy, Live, Ids
  <2>4. RingInv'
    BY <2>2, <2>3 DEF IInv, RingInv, RingOrder, NeverStarted
  <2>5. SeenInv'
    <3>1. \A d \in Slots : rx.data[d].id \in Nat /\ rx.data[d].id <= seen
      BY <1>1, <1>3, View
    <3> QED
      BY <1>4, <2>2, <3>1 DEF IInv, SeenInv
  <2>6. QuietInv' /\ QuietAfterBoot'
    BY <2>1, <2>2 DEF QuietInv, QuietAfterBoot, IInv
  <2> QED
    BY <1>2, <2>1, <2>2, <2>4, <2>5, <2>6
<1> QED
  BY <1>5, <1>6

LEMMA FifoIds ==
  ASSUME TypeOK
  PROVE  \A i \in 1 .. Len(rx.fifo) : rx.fifo[i].id \in Nat
<1>1. rx.fifo \in Seq(Frame)
  BY RxFields DEF TypeOK
<1>2. \A i \in 1 .. Len(rx.fifo) : rx.fifo[i] \in Frame
  BY <1>1
<1> QED
  BY <1>2 DEF Frame

(* The receiver queues frame f in its own memory while there is room.      *)
LEMMA FifoStoreKeeps ==
  ASSUME IInv, pc # "down", rx.run, card \in Fifo, UNCHANGED <<card, pc, given>>,
         NEW f \in Frame, f.id = seen + 1, card \in Filters => f.ok, FifoStore(f),
         seen' = seen + 1
  PROVE  /\ rx' \in Rx /\ net' \in [ready : BOOLEAN, used : BOOLEAN, written : BOOLEAN]
         /\ rx'.data = rx.data /\ FifoInv' /\ QuietInv' /\ QuietAfterBoot'
<1>1. /\ rx \in Rx /\ rx.fifo \in Seq(Frame) /\ seen \in Nat /\ given.id \in Nat
      /\ net \in [ready : BOOLEAN, used : BOOLEAN, written : BOOLEAN]
      /\ given.id <= seen
  BY RxFields, View DEF IInv, TypeOK, SeenInv
<1>2. CASE Len(rx.fifo) < FifoRoom
  <2>1. /\ rx' = [rx EXCEPT !.fifo = Append(@, f), !.stat = TRUE]
        /\ net' = [net EXCEPT !.written = @ \/ (pc = "booted" /\ card = "rtl8139")]
    BY <1>2 DEF FifoStore
  <2>2. Append(rx.fifo, f) \in Seq(Frame)
    BY <1>1
  <2>3. rx' \in Rx /\ rx'.fifo = Append(rx.fifo, f) /\ rx'.run = rx.run /\ rx'.data = rx.data
    BY <1>1, <2>1, <2>2 DEF Rx
  <2>4. FifoInv'
    <3> DEFINE s == rx.fifo
               w == Append(s, f)
    <3>1. /\ Len(s) \in Nat /\ Len(w) = Len(s) + 1 /\ w[Len(s) + 1] = f
          /\ \A i \in 1 .. Len(s) : w[i] = s[i] /\ s[i].id \in Nat
      <4>1. s \in Seq(Frame)
        BY <1>1
      <4>2. \A i \in 1 .. Len(s) : s[i].id \in Nat
        BY FifoIds DEF IInv
      <4> HIDE DEF s
      <4> QED
        BY <4>1, <4>2, AppendProperties
    <3>2. /\ \A i \in 1 .. Len(s) : given.id < s[i].id /\ s[i].id <= seen
          /\ \A i, j \in 1 .. Len(s) : i < j => s[i].id < s[j].id
          /\ card \in Filters => \A i \in 1 .. Len(s) : s[i].ok
      BY DEF IInv, FifoInv
    <3>3. rx'.fifo = w
      BY <2>3
    <3> HIDE DEF s, w
    <3>4. \A i \in 1 .. Len(w) : i \in 1 .. Len(s) \/ (i = Len(s) + 1 /\ w[i] = f)
      BY <3>1
    <3>5. \A i \in 1 .. Len(w) : given.id < w[i].id /\ w[i].id <= seen + 1
      BY <1>1, <3>1, <3>2, <3>4
    <3>6. ASSUME NEW i \in 1 .. Len(w), NEW j \in 1 .. Len(w), i < j
          PROVE  w[i].id < w[j].id
      <4>1. i \in 1 .. Len(s)
        BY <3>1, <3>6
      <4>2. CASE j \in 1 .. Len(s)
        BY <3>1, <3>2, <3>6, <4>1, <4>2
      <4>3. CASE w[j] = f
        BY <1>1, <3>1, <3>2, <4>1, <4>3
      <4> QED
        BY <3>4, <4>2, <4>3
    <3>7. card \in Filters => \A i \in 1 .. Len(w) : w[i].ok
      BY <3>1, <3>2, <3>4
    <3> QED
      BY <3>3, <3>5, <3>6, <3>7 DEF FifoInv
  <2>5. /\ net' \in [ready : BOOLEAN, used : BOOLEAN, written : BOOLEAN]
        /\ net'.used = net.used
        /\ net'.written => net.written \/ (pc = "booted" /\ card = "rtl8139")
    BY <1>1, <2>1
  <2>6. "rtl8139" \notin PortDrivers
    BY DEF PortDrivers
  <2>7. QuietInv' /\ QuietAfterBoot'
    BY <2>3, <2>5, <2>6 DEF QuietInv, QuietAfterBoot, IInv
  <2> QED
    BY <2>3, <2>4, <2>5, <2>7
<1>3. CASE ~(Len(rx.fifo) < FifoRoom)
  <2>1. rx' = rx /\ net' = net
    BY <1>3 DEF FifoStore
  <2>2. \A i \in 1 .. Len(rx.fifo) : rx.fifo[i].id \in Nat
    BY FifoIds DEF IInv
  <2>3. FifoInv'
    BY <1>1, <2>1, <2>2 DEF IInv, FifoInv
  <2>4. QuietInv' /\ QuietAfterBoot'
    BY <2>1 DEF QuietInv, QuietAfterBoot, IInv
  <2> QED
    BY <1>1, <2>1, <2>3, <2>4
<1> QED
  BY <1>2, <1>3

LEMMA ArriveKeeps == ASSUME IInv, Arrive PROVE IInv'
<1>1. /\ pc # "down" /\ rx.run /\ seen' = seen + 1
      /\ UNCHANGED <<card, tx, pc, given, sends, wire>>
  BY DEF Arrive
<1>2. TypeOK /\ seen \in Nat /\ given.id \in Nat /\ given.id <= seen
  BY View DEF IInv, TypeOK, SeenInv
<1>3. DownInv' /\ SendInv' /\ SendsWhatWasQueued'
  BY <1>1 DEF DownInv, SendInv, SendsWhatWasQueued, IInv
<1>4. PICK ok \in BOOLEAN :
        LET f == [id |-> seen + 1, ok |-> ok]
        IN IF ~ok /\ card \in Filters THEN UNCHANGED <<rx, net>>
           ELSE IF card \in Fifo THEN FifoStore(f) ELSE RingStore(f)
  BY DEF Arrive
<1> DEFINE f == [id |-> seen + 1, ok |-> ok]
<1>5. f \in Frame /\ f.id = seen + 1 /\ (f.ok <=> ok)
  BY <1>2 DEF Frame
<1> HIDE DEF f
<1>6. \A d \in Slots : rx.data[d].id \in Nat /\ rx.data[d].id <= seen
  BY <1>2, View DEF IInv, SeenInv
<1>7. ASSUME rx'.data = rx.data PROVE SeenInv'
  BY <1>1, <1>2, <1>6, <1>7 DEF SeenInv, IInv
<1>8. ASSUME rx' \in Rx, net' \in [ready : BOOLEAN, used : BOOLEAN, written : BOOLEAN]
      PROVE  TypeOK'
  BY <1>1, <1>2, <1>8 DEF TypeOK
<1>9. CASE ~ok /\ card \in Filters
  <2>1. rx' = rx /\ net' = net
    BY <1>4, <1>9
  <2>2. TypeOK'
    BY <1>2, <1>8, <2>1 DEF TypeOK
  <2>3. RingInv'
    BY <1>1, <2>1 DEF IInv, RingInv, RingOrder, NeverStarted, Busy, Live, Ids
  <2>5. \A i \in 1 .. Len(rx.fifo) : rx.fifo[i].id \in Nat
    BY <1>2, FifoIds
  <2>6. FifoInv'
    BY <1>1, <1>2, <2>1, <2>5 DEF IInv, FifoInv
  <2>7. QuietInv' /\ QuietAfterBoot'
    BY <1>1, <2>1 DEF QuietInv, QuietAfterBoot, IInv
  <2> QED
    BY <1>3, <1>7, <2>1, <2>2, <2>3, <2>6, <2>7 DEF IInv
<1>10. CASE ~(~ok /\ card \in Filters) /\ card \in Fifo
  <2>1. FifoStore(f)
    BY <1>4, <1>10 DEF f
  <2>2. /\ rx' \in Rx /\ net' \in [ready : BOOLEAN, used : BOOLEAN, written : BOOLEAN]
        /\ rx'.data = rx.data /\ FifoInv' /\ QuietInv' /\ QuietAfterBoot'
    BY <1>1, <1>5, <1>10, <2>1, FifoStoreKeeps
  <2>3. RingInv'
    BY <1>1, <1>10 DEF RingInv, RingCards
  <2> QED
    BY <1>3, <1>7, <1>8, <2>2, <2>3 DEF IInv
<1>11. CASE ~(~ok /\ card \in Filters) /\ card \notin Fifo
  <2>1. RingStore(f)
    BY <1>4, <1>11 DEF f
  <2>2. /\ rx' \in Rx /\ net' \in [ready : BOOLEAN, used : BOOLEAN, written : BOOLEAN]
        /\ RingInv' /\ SeenInv' /\ QuietInv' /\ QuietAfterBoot'
    BY <1>1, <1>5, <1>11, <2>1, RingStoreKeeps
  <2>3. FifoInv'
    BY <1>1, <1>11 DEF FifoInv
  <2> QED
    BY <1>3, <1>8, <2>2, <2>3 DEF IInv
<1> QED
  BY <1>9, <1>10, <1>11

LEMMA CardSendsKeeps == ASSUME IInv, CardSends PROVE IInv'
<1>1. TypeOK
  BY DEF IInv
<1>2. PICK d \in TxSlots : /\ tx.own[d]
                           /\ wire' = [want |-> tx.want[d], buf |-> tx.buf[BufOf(d)]]
                           /\ tx' = [tx EXCEPT !.own[d] = FALSE]
  BY DEF CardSends
<1>3. pc # "down" /\ UNCHANGED <<card, rx, pc, given, seen, sends, net>>
  BY DEF CardSends
<1>4. /\ tx.own \in [TxSlots -> BOOLEAN] /\ tx.want \in [TxSlots -> Nat]
      /\ tx.buf \in [TxSlots -> Nat] /\ BufOf(d) \in TxSlots /\ tx \in Tx
  BY <1>1, Rings DEF TypeOK, Tx, BufOf
<1>5. /\ tx' \in Tx /\ tx'.want = tx.want /\ tx'.buf = tx.buf /\ tx'.cur = tx.cur
      /\ tx'.own = [tx.own EXCEPT ![d] = FALSE]
  BY <1>2, <1>4 DEF Tx
<1>6. TypeOK'
  BY <1>1, <1>2, <1>3, <1>4, <1>5 DEF TypeOK
<1>7. \A e \in TxSlots : tx'.own[e] => tx.own[e]
  BY <1>4, <1>5
<1>8. SendInv' /\ SendsWhatWasQueued'
  <2>1. SendInv'
    BY <1>3, <1>5, <1>7 DEF SendInv, IInv
  <2>2. ASSUME card \in KeepsBuffer PROVE wire'.want = wire'.buf
    <3>1. CASE card = "rtl8139"
      <4>1. d = tx.cur /\ tx.want[d] = tx.buf[0]
        BY <1>2, <3>1 DEF SendInv, IInv
      <4> QED
        BY <1>2, <3>1, <4>1 DEF BufOf
    <3>2. CASE card # "rtl8139"
      <4>1. tx.want[d] = tx.buf[d] /\ BufOf(d) = d
        BY <2>2, <3>2 DEF SendInv, IInv, BufOf, KeepsBuffer
      <4> QED
        BY <1>2, <4>1
    <3> QED
      BY <3>1, <3>2
  <2> QED
    BY <1>3, <2>1, <2>2 DEF SendsWhatWasQueued
<1>9. DownInv' /\ QuietInv' /\ QuietAfterBoot'
  BY <1>3 DEF IInv, DownInv, QuietInv, QuietAfterBoot
<1>10. RingInv' /\ FifoInv' /\ SeenInv'
  BY <1>3 DEF IInv, RingInv, RingOrder, NeverStarted, Busy, Live, Ids, FifoInv, SeenInv
<1> QED
  BY <1>6, <1>8, <1>9, <1>10 DEF IInv

-----------------------------------------------------------------------------
(* The stack's steps.                                                      *)

LEMMA ConfiguredKeeps == ASSUME IInv, Configured PROVE IInv'
<1>1. pc = "idle" /\ UNCHANGED <<card, rx, tx, pc, given, seen, sends, wire>>
  BY DEF Configured
<1>2. net \in [ready : BOOLEAN, used : BOOLEAN, written : BOOLEAN]
      /\ net' = [net EXCEPT !.ready = TRUE]
  BY DEF IInv, TypeOK, Configured
<1>3. net' \in [ready : BOOLEAN, used : BOOLEAN, written : BOOLEAN]
      /\ net'.used = net.used /\ net'.written = net.written
  BY <1>2
<1>4. TypeOK'
  BY <1>1, <1>3 DEF IInv, TypeOK
<1>5. QuietInv' /\ QuietAfterBoot'
  BY <1>1, <1>3 DEF IInv, QuietInv, QuietAfterBoot
<1>6. DownInv' /\ SendInv' /\ SendsWhatWasQueued'
  BY <1>1 DEF IInv, DownInv, SendInv, SendsWhatWasQueued
<1>7. RingInv' /\ FifoInv' /\ SeenInv'
  BY <1>1 DEF IInv, RingInv, RingOrder, NeverStarted, Busy, Live, Ids, FifoInv, SeenInv
<1> QED
  BY <1>4, <1>5, <1>6, <1>7 DEF IInv

LEMMA RingStartIs ==
  ASSUME NEW c \in RingDrivers, NEW r \in RingStart(c)
  PROVE  /\ r \in {FreshRing(rx), FreshRing(Stopped(rx)), Stopped(rx),
                   [Stopped(rx) EXCEPT !.run = TRUE], rx}
         /\ c \in RingCards => r \in {FreshRing(rx), Stopped(rx), rx}
  BY DEF RingDrivers, RingStart, rtl_reset, tulip_reset, otulip_reset, davicom_reset,
         sis900_init, natsemi_init, epic100_open, w89c840_reset, rhine_reset, eepro100_start,
         eepro100_reset, a3c90x_reset, lance_reset, depca_reset, SK_lance_init, RingCards,
         Fifo, Disorderly

LEMMA PortStartIs ==
  ASSUME NEW c \in PortDrivers
  PROVE  PortStart(c) \in {Stopped(rx), [Stopped(rx) EXCEPT !.run = TRUE]}
  BY DEF PortDrivers, PortStart, ns8390_reset, t509_reset, t595_reset, smc9000_start,
         smc_reset, cs89x0_start, cs89x0_reset, eepro_reset, ni5010_reset, reset_receiver,
         tiara_reset

LEMMA ProbeKeeps == ASSUME IInv, eth_probe PROVE IInv'
<1>1. /\ pc = "down" /\ pc' = "idle" /\ UNCHANGED <<tx, given, seen, sends, wire, net>>
  BY DEF eth_probe
<1>2. PICK c \in RingDrivers \cup PortDrivers :
        /\ card' = c
        /\ IF c \in RingDrivers THEN rx' \in RingStart(c) ELSE rx' = PortStart(c)
  BY DEF eth_probe
<1>3. /\ TypeOK /\ rx = RxInit /\ tx = TxInit /\ given = NoFrame /\ rx \in Rx
      /\ given.id = 0 /\ seen \in Nat
  BY <1>1 DEF IInv, DownInv, TypeOK, NoFrame
<1>4. /\ rx' \in {FreshRing(rx), FreshRing(Stopped(rx)), Stopped(rx),
                  [Stopped(rx) EXCEPT !.run = TRUE], rx}
      /\ c \in RingCards => rx' \in {FreshRing(rx), Stopped(rx), rx}
  BY <1>2, RingStartIs, PortStartIs DEF RingCards
<1>5. Stopped(rx) \in Rx /\ Stopped(rx).data = rx.data
  BY <1>3, StoppedIs
<1>6. rx.fifo = <<>> /\ ~rx.run /\ \A d \in Slots : rx.data[d] = NoFrame
  BY <1>3 DEF RxInit
<1>7. rx' \in Rx /\ rx'.data = rx.data /\ rx'.fifo = <<>>
  <2>1. CASE rx' = FreshRing(rx)
    BY <1>3, <2>1, FreshIs
  <2>2. CASE rx' = FreshRing(Stopped(rx))
    BY <1>5, <2>2, FreshIs
  <2>3. CASE rx' \in {Stopped(rx), [Stopped(rx) EXCEPT !.run = TRUE]}
    BY <1>3, <2>3, StoppedIs
  <2> QED
    BY <1>3, <1>4, <1>6, <2>1, <2>2, <2>3
<1>8. TypeOK'
  <2>1. c # "none"
    BY DEF RingDrivers, PortDrivers
  <2> QED
    BY <1>1, <1>2, <1>3, <1>7, <2>1 DEF TypeOK
<1>9. RingInv'
  <2> SUFFICES ASSUME c \in RingCards PROVE RingOrder' \/ NeverStarted'
    BY <1>2 DEF RingInv
  <2>1. CASE rx' = FreshRing(rx)
    <3>1. rx'.own = [i \in Slots |-> TRUE] /\ rx'.cur = 0 /\ rx'.hw = 0
      BY <1>3, <2>1, FreshIs
    <3>2. Busy' = {} /\ Live' = {}
      BY <3>1 DEF Busy, Live
    <3>3. Ids' = Ids
      BY <1>7 DEF Ids
    <3>4. Order({}, {}, Ids, 0, 0, given.id)
      BY <1>3, View, FreshOrder
    <3> QED
      BY <1>1, <3>1, <3>2, <3>3, <3>4 DEF RingOrder
  <2>2. CASE rx' \in {Stopped(rx), rx}
    <3>1. ~rx'.run
      BY <1>3, <1>6, <2>2, StoppedIs
    <3> QED
      BY <1>1, <1>3, <1>6, <1>7, <3>1 DEF NeverStarted, NoFrame
  <2> QED
    BY <1>4, <2>1, <2>2
<1>10. FifoInv' /\ SeenInv'
  <2>1. FifoInv'
    BY <1>7 DEF FifoInv
  <2>2. \A d \in Slots : rx'.data[d].id = 0 /\ rx'.data[d].ok
    BY <1>6, <1>7 DEF NoFrame
  <2> QED
    BY <1>1, <1>3, <2>1, <2>2 DEF SeenInv
<1>11. SendInv' /\ SendsWhatWasQueued' /\ DownInv'
  <2>1. \A d \in TxSlots : tx.want[d] = tx.buf[d] /\ ~tx.own[d]
    BY <1>3 DEF TxInit
  <2>2. wire.want = wire.buf
    BY <1>1 DEF IInv, DownInv
  <2> QED
    BY <1>1, <2>1, <2>2 DEF SendInv, SendsWhatWasQueued, DownInv
<1>12. QuietInv' /\ QuietAfterBoot'
  BY <1>1 DEF IInv, QuietInv, QuietAfterBoot
<1> QED
  BY <1>8, <1>9, <1>10, <1>11, <1>12 DEF IInv

LEMMA DisableIs ==
  ASSUME card \in RingDrivers \cup PortDrivers
  PROVE  \/ eth_disable = Stopped(rx)
         \/ eth_disable = rx /\ card \in NeverStops \cup PortDrivers
<1>1. CASE card \in RingDrivers
  BY <1>1 DEF RingDrivers, eth_disable, RingDisable, rtl_disable, tulip_disable,
     otulip_disable, davicom_disable, sis900_disable, natsemi_disable, epic100_disable,
     w89c840_disable, rhine_disable, eepro100_disable, a3c90x_disable, lance_disable,
     depca_disable, SK_disable, NeverStops
<1>2. CASE card \notin RingDrivers
  <2>1. eth_disable = PortDisable(card) /\ card \in PortDrivers
    BY <1>2 DEF eth_disable
  <2> QED
    BY <2>1 DEF PortDrivers, PortDisable, ns8390_disable, t509_disable, t595_disable,
       smc9000_disable, cs89x0_disable, cs89x0_reset, eepro_disable, ni5010_disable,
       tiara_disable
<1> QED
  BY <1>1, <1>2

LEMMA CleanupKeeps == ASSUME IInv, cleanup_net PROVE IInv'
<1>1. /\ pc = "idle" /\ pc' = "booted" /\ UNCHANGED <<card, given, seen, sends, wire>>
      /\ rx' = IF net.ready THEN eth_disable ELSE rx
      /\ tx' = [tx EXCEPT !.on = FALSE]
      /\ net' = [net EXCEPT !.ready = FALSE, !.used = net.ready]
  BY DEF cleanup_net
<1>2. /\ TypeOK /\ rx \in Rx /\ tx \in Tx /\ card \in RingDrivers \cup PortDrivers
      /\ net \in [ready : BOOLEAN, used : BOOLEAN, written : BOOLEAN]
  BY <1>1 DEF IInv, TypeOK
<1>3. /\ net' \in [ready : BOOLEAN, used : BOOLEAN, written : BOOLEAN]
      /\ net'.used <=> net.ready
      /\ net'.written <=> net.written
  BY <1>1, <1>2
<1>4. /\ tx' \in Tx /\ tx'.own = tx.own /\ tx'.want = tx.want /\ tx'.buf = tx.buf
      /\ tx'.cur = tx.cur
  BY <1>1, <1>2 DEF Tx
<1>5. rx' = Stopped(rx) \/ (rx' = rx /\ (net.ready => card \in NeverStops \cup PortDrivers))
  BY <1>1, <1>2, DisableIs
<1>6. rx' \in Rx /\ rx'.data = rx.data /\ rx'.fifo \in {rx.fifo, <<>>}
  BY <1>2, <1>5, StoppedIs
<1>7. rx' = Stopped(rx) => ~rx'.run
  BY <1>2, StoppedIs
<1>8. TypeOK'
  BY <1>1, <1>2, <1>3, <1>4, <1>6 DEF TypeOK
<1>9. RingInv' /\ DownInv'
  BY <1>1 DEF RingInv, DownInv
<1>10. FifoInv' /\ SeenInv'
  <2>1. FifoInv /\ SeenInv
    BY DEF IInv
  <2> QED
    BY <1>1, <1>6, <2>1 DEF FifoInv, SeenInv
<1>11. SendInv' /\ SendsWhatWasQueued'
  BY <1>1, <1>4 DEF IInv, SendInv, SendsWhatWasQueued
<1>12. ~net.written
  BY <1>1 DEF IInv, QuietInv
<1>13. QuietInv' /\ QuietAfterBoot'
  BY <1>1, <1>3, <1>5, <1>7, <1>12 DEF QuietInv, QuietAfterBoot
<1> QED
  BY <1>8, <1>9, <1>10, <1>11, <1>13 DEF IInv

-----------------------------------------------------------------------------
(* The drivers' polls.                                                     *)

LEMMA HandedOver ==
  ASSUME TypeOK, given' = rx.data[rx.cur]
  PROVE  given' \in Frame /\ \E d \in Slots : given' = rx.data[d]
  BY View

(* A ring driver takes the frame at its cursor.                            *)
LEMMA RecyclePoll ==
  ASSUME IInv, pc = "idle", card \in RingCards, Ready, card = "w89c840" => AtCur.ok,
         rx' \in {Recycle(rx), [Recycle(rx) EXCEPT !.sus = FALSE]},
         given' \in {given, AtCur}, given' # given => card \in Unchecked \/ given'.ok,
         AfterPoll
  PROVE  DriverStep
<1>1. TypeOK /\ rx \in Rx /\ tx \in Tx /\ given \in Frame /\ sends \in Nat
  BY DEF IInv, TypeOK
<1>2. /\ rx' \in Rx /\ rx'.data = rx.data /\ rx'.hw = rx.hw /\ rx'.run = rx.run
      /\ rx'.cur = Step(rx.cur) /\ rx'.own = [rx.own EXCEPT ![rx.cur] = TRUE]
  BY <1>1, RecycleIs
<1>3. rx.own \in [Slots -> BOOLEAN] /\ rx.cur \in Slots
  BY <1>1, RxFields
<1>4. Busy' = Busy \ {rx.cur}
  BY <1>2, <1>3 DEF Busy
<1>5. rx.cur \in Live
  BY <1>3 DEF Live, Busy, Ready, AtCur
<1>6. card \notin Fifo
  BY DEF RingCards
<1>7. RingMove
  BY <1>2, <1>4, <1>5 DEF RingMove, AtCur
<1>8. SendInv'
  BY DEF AfterPoll, IInv, SendInv
<1>9. given' \in Frame /\ (given' = given \/ \E d \in Slots : given' = rx.data[d])
  BY <1>1, HandedOver DEF AtCur
<1> QED
  BY <1>1, <1>2, <1>6, <1>7, <1>8, <1>9 DEF DriverStep, AfterPoll

(* A card with a memory of its own gives up its oldest frame, or all.      *)
LEMMA FifoPoll ==
  ASSUME IInv, pc = "idle", card \in Fifo, rx' \in Rx, rx'.data = rx.data, FifoMove,
         given' # given => card \in Unchecked \/ given'.ok, AfterPoll
  PROVE  DriverStep
<1>1. TypeOK /\ tx \in Tx /\ given \in Frame /\ sends \in Nat
  BY DEF IInv, TypeOK
<1>2. card \notin RingCards
  BY DEF RingCards
<1>3. SendInv'
  BY DEF AfterPoll, IInv, SendInv
<1>4. given' = given \/ (rx.fifo # <<>> /\ given' = Head(rx.fifo))
  BY DEF FifoMove
<1>5. given' \in Frame
  BY <1>1, <1>4, FirstOfFifo
<1> QED
  BY <1>1, <1>2, <1>3, <1>4, <1>5 DEF DriverStep, AfterPoll

LEMMA RingPollIs == ASSUME IInv, RingPoll PROVE DriverStep
<1>1. TypeOK /\ rx \in Rx /\ tx \in Tx /\ given \in Frame /\ sends \in Nat
  BY DEF IInv, TypeOK
<1>2. ASSUME rtl_poll PROVE DriverStep
  <2>1. /\ card = "rtl8139" /\ pc = "idle" /\ rx.fifo # <<>> /\ AfterPoll
        /\ card \in Fifo
    BY <1>2 DEF rtl_poll, Polls, Fifo
  <2>2. CASE Head(rx.fifo).ok
    <3>1. given' = Head(rx.fifo) /\ rx' = [rx EXCEPT !.fifo = Tail(@)]
      BY <1>2, <2>2 DEF rtl_poll, Hand
    <3>2. rx' \in Rx /\ rx'.data = rx.data /\ rx'.fifo = Tail(rx.fifo)
      BY <1>1, <2>1, <3>1, DropIs
    <3> QED
      BY <2>1, <2>2, <3>1, <3>2, FifoPoll DEF FifoMove
  <2>3. CASE ~Head(rx.fifo).ok
    <3>1. given' = given /\ rx' = FreshRing(rx)
      BY <1>2, <2>3 DEF rtl_poll, Nothing, rtl_reset
    <3>2. rx' \in Rx /\ rx'.data = rx.data /\ rx'.fifo = <<>>
      BY <1>1, <3>1, FreshIs
    <3> QED
      BY <2>1, <3>1, <3>2, FifoPoll DEF FifoMove
  <2> QED
    BY <2>2, <2>3
<1>3. ASSUME a3c90x_poll PROVE DriverStep
  <2>1. /\ card = "3c90x" /\ pc = "idle" /\ rx.fifo # <<>> /\ AfterPoll
        /\ card \in Fifo /\ rx' = [rx EXCEPT !.fifo = Tail(@)]
    BY <1>3 DEF a3c90x_poll, Polls, Fifo
  <2>2. given' = given \/ (given' = Head(rx.fifo) /\ Head(rx.fifo).ok)
    BY <1>3 DEF a3c90x_poll, Hand, Nothing
  <2>3. rx' \in Rx /\ rx'.data = rx.data /\ rx'.fifo = Tail(rx.fifo)
    BY <1>1, <2>1, DropIs
  <2> QED
    BY <2>1, <2>2, <2>3, FifoPoll DEF FifoMove
<1>4. ASSUME tulip_poll \/ davicom_poll \/ rhine_poll \/ lance_poll PROVE DriverStep
  <2>1. /\ card \in {"tulip", "davicom", "rhine", "lance"} /\ pc = "idle" /\ Ready
        /\ Checked /\ rx' = Recycle(rx) /\ AfterPoll
    BY <1>4 DEF tulip_poll, davicom_poll, rhine_poll, lance_poll, Polls
  <2>2. card \in RingCards /\ card # "w89c840"
    BY <2>1 DEF RingCards, RingDrivers, Fifo, PortDrivers, Disorderly
  <2>3. given' = given \/ (given' = AtCur /\ AtCur.ok)
    BY <2>1 DEF Checked, Hand, Nothing
  <2> QED
    BY <2>1, <2>2, <2>3, RecyclePoll
<1>5. ASSUME sis900_poll \/ natsemi_poll PROVE DriverStep
  <2>1. /\ card \in {"sis900", "natsemi"} /\ pc = "idle" /\ Ready /\ Checked
        /\ rx' = [Recycle(rx) EXCEPT !.sus = FALSE] /\ AfterPoll
    BY <1>5 DEF sis900_poll, natsemi_poll, Polls
  <2>2. card \in RingCards /\ card # "w89c840"
    BY <2>1 DEF RingCards, RingDrivers, Fifo, PortDrivers, Disorderly
  <2>3. given' = given \/ (given' = AtCur /\ AtCur.ok)
    BY <2>1 DEF Checked, Hand, Nothing
  <2> QED
    BY <2>1, <2>2, <2>3, RecyclePoll
<1>6. ASSUME otulip_poll \/ epic100_poll \/ depca_poll PROVE DriverStep
  <2>1. /\ card \in {"otulip", "epic100", "depca"} /\ pc = "idle" /\ Ready
        /\ given' = AtCur /\ AfterPoll
        /\ rx' \in {Recycle(rx), [Recycle(rx) EXCEPT !.sus = FALSE]}
    BY <1>6 DEF otulip_poll, epic100_poll, depca_poll, Polls, Hand
  <2>2. card \in RingCards /\ card # "w89c840" /\ card \in Unchecked
    BY <2>1 DEF RingCards, RingDrivers, Fifo, PortDrivers, Disorderly, Unchecked
  <2> QED
    BY <2>1, <2>2, RecyclePoll
<1>7. ASSUME w89c840_poll PROVE DriverStep
  <2>1. /\ card = "w89c840" /\ pc = "idle" /\ Ready /\ AfterPoll
        /\ card \in RingCards /\ card \notin Fifo
    BY <1>7 DEF w89c840_poll, Polls, RingCards, RingDrivers, Fifo, PortDrivers, Disorderly
  <2>2. CASE AtCur.ok
    <3>1. given' = AtCur /\ rx' = [Recycle(rx) EXCEPT !.sus = FALSE]
      BY <1>7, <2>2 DEF w89c840_poll, Hand
    <3> QED
      BY <2>1, <2>2, <3>1, RecyclePoll
  <2>3. CASE ~AtCur.ok
    <3>1. /\ given' = given
          /\ rx' \in {FreshRing(rx), [rx EXCEPT !.cur = Step(rx.cur), !.sus = FALSE]}
      BY <1>7, <2>3 DEF w89c840_poll, Nothing, w89c840_reset
    <3>2. SendInv'
      BY <2>1 DEF AfterPoll, IInv, SendInv
    <3>3. CASE rx' = FreshRing(rx)
      <4>1. /\ rx' \in Rx /\ rx'.data = rx.data /\ rx'.cur = 0 /\ rx'.hw = 0
            /\ rx'.own = [i \in Slots |-> TRUE]
        BY <1>1, <3>3, FreshIs
      <4>2. RingMove
        BY <3>1, <4>1 DEF RingMove, Busy
      <4> QED
        BY <1>1, <2>1, <3>1, <3>2, <4>1, <4>2 DEF DriverStep, AfterPoll
    <3>4. CASE rx' = [rx EXCEPT !.cur = Step(rx.cur), !.sus = FALSE]
      <4>1. rx.cur \in Slots /\ Step(rx.cur) \in Slots
        BY <1>1, RxFields, StepIs
      <4>2. /\ rx' \in Rx /\ rx'.data = rx.data /\ rx'.cur = Step(rx.cur)
            /\ rx'.hw = rx.hw /\ rx'.own = rx.own /\ rx'.run = rx.run
        BY <1>1, <3>4, <4>1 DEF Rx
      <4>3. rx.cur \in Busy \ Live
        BY <2>1, <2>3, <4>1 DEF Busy, Live, Ready, AtCur
      <4>4. Busy' = Busy
        BY <4>2 DEF Busy
      <4>5. RingMove
        BY <3>1, <4>2, <4>3, <4>4 DEF RingMove
      <4> QED
        BY <1>1, <2>1, <3>1, <3>2, <4>2, <4>5 DEF DriverStep, AfterPoll
    <3> QED
      BY <3>1, <3>3, <3>4
  <2> QED
    BY <2>2, <2>3
<1>8. ASSUME eepro100_poll \/ eepro100_copy PROVE DriverStep
  <2>1. /\ card = "eepro100" /\ pc \in {"idle", "copy"} /\ pc' \in {"idle", "copy"}
        /\ UNCHANGED <<card, tx, seen, sends, wire, net>>
        /\ rx' \in {rx, [rx EXCEPT !.own[0] = TRUE, !.sus = FALSE]}
        /\ given' \in {given, rx.data[0]}
    BY <1>8 DEF eepro100_poll, eepro100_copy, Polls, Hand
  <2>2. rx.own \in [Slots -> BOOLEAN] /\ 0 \in Slots /\ [rx.own EXCEPT ![0] = TRUE] \in [Slots -> BOOLEAN]
    BY <1>1, RxFields, Rings
  <2>3. rx' \in Rx /\ rx'.data = rx.data
    BY <1>1, <2>1, <2>2 DEF Rx
  <2>4. rx.data[0] \in Frame /\ rx.data[0].ok
    BY <1>1, <2>1, <2>2, View DEF IInv, SeenInv, Filters
  <2>5. card \notin RingCards /\ card \notin Fifo
    BY <2>1 DEF RingCards, Disorderly, Fifo, PortDrivers
  <2>6. SendInv'
    BY <2>1 DEF SendInv, KeepsBuffer
  <2> QED
    BY <1>1, <2>1, <2>2, <2>3, <2>4, <2>5, <2>6 DEF DriverStep
<1>9. ASSUME SK_poll PROVE DriverStep
  <2>1. card = "sk_g16" /\ pc = "idle" /\ AfterPoll
    BY <1>9 DEF SK_poll, Polls
  <2>2. PICK k \in 0 .. RxRing :
          /\ SK_run(k)
          /\ IF k = 0 THEN Nothing ELSE Hand(rx.data[(rx.cur + k - 1) % RxRing])
          /\ rx' = [rx EXCEPT !.cur = (@ + k) % RxRing,
                        !.own = [d \in Slots |->
                                   @[d] \/ (d + RxRing - rx.cur) % RxRing <= k]]
    BY <1>9 DEF SK_poll
  <2>3. rx.cur \in Nat /\ (rx.cur + k) % RxRing \in Slots
    <3>1. rx.cur \in Slots
      BY <1>1, RxFields
    <3> QED
      BY <3>1, Rings
  <2>4. rx' \in Rx /\ rx'.data = rx.data
    <3> DEFINE own == [d \in Slots |-> rx.own[d] \/ (d + RxRing - rx.cur) % RxRing <= k]
               cur == (rx.cur + k) % RxRing
    <3>1. own \in [Slots -> BOOLEAN]
      OBVIOUS
    <3>2. rx' = [rx EXCEPT !.cur = cur, !.own = own] /\ cur \in Slots
      BY <2>2, <2>3
    <3> HIDE DEF own, cur
    <3> QED
      BY <1>1, <3>1, <3>2 DEF Rx
  <2>5. CASE k = 0
    <3>1. given' = given
      BY <2>2, <2>5 DEF Nothing
    <3>2. given' \in Frame /\ card \notin RingCards /\ card \notin Fifo
      BY <1>1, <2>1, <3>1 DEF RingCards, Disorderly, Fifo, PortDrivers
    <3>3. SendInv'
      BY <2>1 DEF SendInv, KeepsBuffer, AfterPoll
    <3> QED
      BY <1>1, <2>1, <2>4, <3>1, <3>2, <3>3 DEF DriverStep, AfterPoll
  <2>6. CASE k # 0
    <3> DEFINE d == (rx.cur + (k - 1)) % RxRing
    <3>1. d \in Slots /\ (rx.cur + k - 1) % RxRing = d
      BY <2>3, <2>6, Rings
    <3>2. given' = rx.data[d]
      BY <2>2, <2>6, <3>1 DEF Hand
    <3>3. rx.data[d].ok
      BY <2>2, <2>6 DEF SK_run
    <3> HIDE DEF d
    <3>4. given' \in Frame /\ card \notin RingCards /\ card \notin Fifo
      BY <1>1, <2>1, <3>1, <3>2, View DEF RingCards, Disorderly, Fifo, PortDrivers
    <3>5. SendInv'
      BY <2>1 DEF SendInv, KeepsBuffer, AfterPoll
    <3> QED
      BY <1>1, <2>1, <2>4, <3>1, <3>2, <3>3, <3>4, <3>5 DEF DriverStep, AfterPoll
  <2> QED
    BY <2>5, <2>6
<1> QED
  BY <1>2, <1>3, <1>4, <1>5, <1>6, <1>7, <1>8, <1>9 DEF RingPoll

LEMMA PortPollIs == ASSUME IInv, PortPoll PROVE DriverStep
<1>1. TypeOK /\ rx \in Rx
  BY DEF IInv, TypeOK
<1>2. ASSUME ns8390_poll \/ t509_poll \/ t595_poll \/ smc9000_poll \/ cs89x0_poll
             \/ tiara_poll
      PROVE  DriverStep
  <2>1. /\ card \in PortDrivers /\ card \in Fifo /\ pc = "idle" /\ rx.fifo # <<>> /\ AfterPoll
    BY <1>2 DEF ns8390_poll, t509_poll, t595_poll, smc9000_poll, cs89x0_poll, tiara_poll,
                Polls, Waiting, PortDrivers, Fifo
  <2>2. TakeTop \/ (rx' = eth_rx_overrun(rx) /\ Nothing)
    BY <1>2 DEF ns8390_poll, t509_poll, t595_poll, smc9000_poll, cs89x0_poll, tiara_poll
  <2>3. CASE TakeTop
    <3>1. rx' = [rx EXCEPT !.fifo = Tail(@)]
      BY <2>3 DEF TakeTop, Drop
    <3>2. given' = given \/ (given' = Head(rx.fifo) /\ Head(rx.fifo).ok)
      BY <2>3 DEF TakeTop, Hand, Nothing, Top
    <3>3. rx' \in Rx /\ rx'.data = rx.data /\ rx'.fifo = Tail(rx.fifo)
      BY <1>1, <2>1, <3>1, DropIs
    <3> QED
      BY <2>1, <3>2, <3>3, FifoPoll DEF FifoMove
  <2>4. CASE rx' = eth_rx_overrun(rx) /\ Nothing
    <3>1. <<>> \in Seq(Frame)
      OBVIOUS
    <3>2. rx' \in Rx /\ rx'.data = rx.data /\ rx'.fifo = <<>>
      BY <1>1, <2>4, <3>1 DEF eth_rx_overrun, Rx
    <3> QED
      BY <2>1, <2>4, <3>2, FifoPoll DEF FifoMove, Nothing
  <2> QED
    BY <2>2, <2>3, <2>4
<1>3. ASSUME eepro_poll PROVE DriverStep
  <2>1. card = "eepro" /\ card \in Fifo /\ pc = "idle" /\ AfterPoll
    BY <1>3 DEF eepro_poll, Polls, Fifo, PortDrivers
  <2>2. CASE rx.fifo # <<>>
    <3>1. /\ given' = Head(rx.fifo)
          /\ rx' = [[rx EXCEPT !.fifo = Tail(@)] EXCEPT !.stat = FALSE]
      BY <1>3, <2>2 DEF eepro_poll, Waiting, Hand, Top, Drop
    <3> DEFINE r == [rx EXCEPT !.fifo = Tail(@)]
    <3>2. r \in Rx /\ r.data = rx.data /\ r.fifo = Tail(rx.fifo) /\ rx' = [r EXCEPT !.stat = FALSE]
      BY <1>1, <2>2, <3>1, DropIs
    <3> HIDE DEF r
    <3>3. rx' \in Rx /\ rx'.data = rx.data /\ rx'.fifo = Tail(rx.fifo)
      BY <3>2 DEF Rx
    <3>4. given'.ok
      BY <1>1, <2>1, <2>2, <3>1, FirstOfFifo DEF IInv, FifoInv, Filters
    <3> QED
      BY <2>1, <2>2, <3>1, <3>3, <3>4, FifoPoll DEF FifoMove
  <2>3. CASE rx.fifo = <<>>
    <3>1. given' = given /\ rx' = [rx EXCEPT !.stat = FALSE]
      BY <1>3, <2>3 DEF eepro_poll, Waiting, Nothing
    <3>2. rx' \in Rx /\ rx'.data = rx.data /\ rx'.fifo = rx.fifo
      BY <1>1, <3>1 DEF Rx
    <3> QED
      BY <2>1, <3>1, <3>2, FifoPoll DEF FifoMove
  <2> QED
    BY <2>2, <2>3
<1>4. ASSUME ni5010_poll PROVE DriverStep
  <2>1. card = "ni5010" /\ card \in Fifo /\ pc = "idle" /\ AfterPoll /\ rx.fifo # <<>>
    BY <1>4 DEF ni5010_poll, Polls, Fifo, PortDrivers, Waiting
  <2>2. \/ given' = Head(rx.fifo) /\ Head(rx.fifo).ok /\ rx' = Stopped(rx)
        \/ given' = given /\ rx' = [rx EXCEPT !.fifo = Tail(@)]
    BY <1>4 DEF ni5010_poll, Hand, Nothing, Top, Drop
  <2>3. rx' \in Rx /\ rx'.data = rx.data /\ rx'.fifo \in {Tail(rx.fifo), <<>>}
    BY <1>1, <2>1, <2>2, DropIs, StoppedIs
  <2> QED
    BY <2>1, <2>2, <2>3, FifoPoll DEF FifoMove
<1> QED
  BY <1>2, <1>3, <1>4 DEF PortPoll

-----------------------------------------------------------------------------
(* Transmitting, which leaves what was received alone or loses it.         *)

Rests ==
  \/ rx' \in {rx, FreshRing(rx), [rx EXCEPT !.stat = FALSE]}
  \/ card = "sk_g16" /\ rx' = Stopped(rx)
  \/ card \in Fifo /\ rx' \in {Stopped(rx), [Stopped(rx) EXCEPT !.run = TRUE],
                               [rx EXCEPT !.fifo = <<>>], [rx EXCEPT !.run = TRUE]}

LEMMA RestsIs ==
  ASSUME TypeOK, Rests, given' = given
  PROVE  /\ rx' \in Rx /\ rx'.data = rx.data
         /\ card \in RingCards => RingMove
         /\ card \in Fifo => FifoMove
<1>1. rx \in Rx /\ <<>> \in Seq(Frame)
  BY DEF TypeOK
<1>2. CASE rx' = rx
  BY <1>1, <1>2 DEF RingMove, FifoMove, Busy
<1>3. CASE rx' = FreshRing(rx)
  <2>1. /\ rx' \in Rx /\ rx'.data = rx.data /\ rx'.cur = 0 /\ rx'.hw = 0 /\ rx'.fifo = <<>>
        /\ rx'.own = [i \in Slots |-> TRUE]
    BY <1>1, <1>3, FreshIs
  <2>2. Busy' = {}
    BY <2>1 DEF Busy
  <2> QED
    BY <2>1, <2>2 DEF RingMove, FifoMove
<1>4. CASE rx' = [rx EXCEPT !.stat = FALSE]
  <2>1. /\ rx' \in Rx /\ rx'.data = rx.data /\ rx'.cur = rx.cur /\ rx'.hw = rx.hw
        /\ rx'.own = rx.own /\ rx'.run = rx.run /\ rx'.fifo = rx.fifo
    BY <1>1, <1>4 DEF Rx
  <2>2. Busy' = Busy
    BY <2>1 DEF Busy
  <2> QED
    BY <2>1, <2>2 DEF RingMove, FifoMove
<1>5. CASE card = "sk_g16" /\ rx' = Stopped(rx)
  <2>1. card \notin RingCards /\ card \notin Fifo
    BY <1>5 DEF RingCards, Disorderly, Fifo, PortDrivers
  <2> QED
    BY <1>1, <1>5, <2>1, StoppedIs
<1>6. CASE card \in Fifo /\ rx' \in {Stopped(rx), [Stopped(rx) EXCEPT !.run = TRUE],
                                    [rx EXCEPT !.fifo = <<>>], [rx EXCEPT !.run = TRUE]}
  <2>1. card \notin RingCards
    BY <1>6 DEF RingCards
  <2>2. rx' \in Rx /\ rx'.data = rx.data /\ rx'.fifo \in {rx.fifo, <<>>}
    <3>1. CASE rx' \in {Stopped(rx), [Stopped(rx) EXCEPT !.run = TRUE]}
      BY <1>1, <3>1, StoppedIs
    <3>2. CASE rx' \in {[rx EXCEPT !.fifo = <<>>], [rx EXCEPT !.run = TRUE]}
      BY <1>1, <3>2 DEF Rx
    <3> QED
      BY <1>6, <3>1, <3>2
  <2> QED
    BY <1>6, <2>1, <2>2 DEF FifoMove
<1> QED
  BY <1>2, <1>3, <1>4, <1>5, <1>6 DEF Rests

LEMMA RestStep ==
  ASSUME IInv, pc \in {"idle", "txwait"}, pc' \in {"idle", "txwait"},
         UNCHANGED <<card, given, seen, wire, net>>, sends' \in Nat, Rests,
         tx' \in Tx, SendInv'
  PROVE  DriverStep
<1>1. TypeOK /\ given \in Frame
  BY DEF IInv, TypeOK
<1> QED
  BY <1>1, RestsIs DEF DriverStep

(* The next transmit descriptor.                                           *)
LEMMA NextTx ==
  ASSUME tx \in Tx
  PROVE  tx.cur \in TxSlots /\ (tx.cur + 1) % TxRing \in TxSlots /\ 1 % TxRing \in TxSlots
<1>1. tx.cur \in TxSlots
  BY DEF Tx
<1> QED
  BY <1>1, Rings

(* A driver that puts the frame in the buffer of its descriptor.           *)
LEMMA QueueOwn ==
  ASSUME IInv, card' = card, card # "rtl8139", NEW d \in TxSlots, NEW n \in TxSlots,
         tx' \in {Queue(tx, d, d), [Queue(tx, d, d) EXCEPT !.cur = n]}
  PROVE  tx' \in Tx /\ SendInv'
<1>1. tx \in Tx /\ sends \in Nat
  BY DEF IInv, TypeOK
<1> DEFINE q == Queue(tx, d, d)
<1>2. /\ q \in Tx /\ q.want = [tx.want EXCEPT ![d] = sends + 1]
      /\ q.buf = [tx.buf EXCEPT ![d] = sends + 1]
  <2>1. q.want = [tx.want EXCEPT ![d] = sends + 1]
    BY <1>1 DEF Queue, Tx
  <2>2. q.buf = [tx.buf EXCEPT ![d] = sends + 1]
    BY <1>1 DEF Queue, Tx
  <2>3. q \in Tx
    BY <1>1, QueueTx
  <2> QED
    BY <2>1, <2>2, <2>3
<1>3. tx' \in {q, [q EXCEPT !.cur = n]}
  OBVIOUS
<1> HIDE DEF q
<1>4. tx' \in Tx /\ tx'.want = q.want /\ tx'.buf = q.buf
  BY <1>2, <1>3 DEF Tx
<1>5. tx.want \in [TxSlots -> Nat] /\ tx.buf \in [TxSlots -> Nat]
  BY <1>1 DEF Tx
<1>6. ASSUME \A e \in TxSlots : tx.want[e] = tx.buf[e]
      PROVE  \A e \in TxSlots : tx'.want[e] = tx'.buf[e]
  BY <1>2, <1>4, <1>5, <1>6
<1> QED
  BY <1>4, <1>6 DEF IInv, SendInv

(* A driver that fills a buffer the card may still be reading.             *)
LEMMA QueueAny ==
  ASSUME IInv, card' = card, card \notin KeepsBuffer, NEW d \in TxSlots, NEW n \in TxSlots,
         NEW b \in TxSlots,
         tx' \in {Queue(tx, d, b), [Queue(tx, d, b) EXCEPT !.cur = n]}
  PROVE  tx' \in Tx /\ SendInv'
<1>1. tx \in Tx /\ sends \in Nat
  BY DEF IInv, TypeOK
<1> DEFINE q == Queue(tx, d, b)
<1>2. q \in Tx
  BY <1>1, QueueIs
<1>3. tx' \in {q, [q EXCEPT !.cur = n]}
  OBVIOUS
<1> HIDE DEF q
<1>4. tx' \in Tx
  BY <1>2, <1>3 DEF Tx
<1> QED
  BY <1>4 DEF SendInv, KeepsBuffer

(* A step that fills no buffer.                                            *)
LEMMA NoQueue ==
  ASSUME IInv, card' = card, card # "rtl8139", tx' \in Tx,
         tx'.want = tx.want, tx'.buf = tx.buf
  PROVE  SendInv'
  BY DEF IInv, SendInv

LEMMA RingTransmitIs == ASSUME IInv, RingTransmit PROVE DriverStep
<1>1. TypeOK /\ rx \in Rx /\ tx \in Tx /\ sends \in Nat /\ sends + 1 \in Nat
  BY DEF IInv, TypeOK
<1>2. /\ tx.cur \in TxSlots /\ (tx.cur + 1) % TxRing \in TxSlots /\ 1 % TxRing \in TxSlots
      /\ 0 \in TxSlots
  BY <1>1, NextTx, Rings
<1>3. /\ pc = "idle" /\ pc' \in {"idle", "txwait"} /\ sends' \in Nat
      /\ UNCHANGED <<card, given, seen, wire, net>>
  BY <1>1 DEF RingTransmit, rtl_transmit, tulip_transmit, otulip_transmit,
     davicom_transmit, sis900_transmit, natsemi_transmit, epic100_transmit,
     w89c840_transmit, rhine_transmit, eepro100_transmit, a3c90x_transmit,
     lance_transmit, depca_transmit, SK_transmit, Sends, AfterSend
<1>4. ASSUME Rests, tx' \in Tx /\ SendInv' PROVE DriverStep
  BY <1>3, <1>4, RestStep
<1>5. ASSUME rtl_transmit PROVE DriverStep
  <2>1. /\ card = "rtl8139" /\ card' = card /\ pc' = "txwait" /\ rx' = rx
        /\ tx' = Queue(tx, tx.cur, 0)
    BY <1>5, <1>3 DEF rtl_transmit, Sends
  <2>2. /\ tx'.cur = tx.cur /\ tx'.own = [tx.own EXCEPT ![tx.cur] = TRUE]
        /\ tx'.want = [tx.want EXCEPT ![tx.cur] = sends + 1]
    BY <1>1, <2>1 DEF Queue, Tx
  <2>3. tx' \in Tx /\ tx'.buf = [tx.buf EXCEPT ![0] = sends + 1]
    <3>1. Queue(tx, tx.cur, 0) \in Tx
      BY <1>1, <1>2, QueueIs
    <3> QED
      BY <1>1, <2>1, <3>1 DEF Queue, Tx
  <2>4. /\ tx.own \in [TxSlots -> BOOLEAN] /\ tx.want \in [TxSlots -> Nat]
        /\ tx.buf \in [TxSlots -> Nat]
    BY <1>1 DEF Tx
  <2>5. \A d \in TxSlots : ~tx.own[d]
    BY <1>3, <2>1 DEF IInv, SendInv
  <2>6. \A d \in TxSlots : tx'.own[d] => d = tx.cur
    BY <1>2, <2>2, <2>4, <2>5
  <2>7. tx'.want[tx.cur] = sends + 1 /\ tx'.buf[0] = sends + 1
    BY <1>2, <2>2, <2>3, <2>4
  <2>8. SendInv'
    BY <2>1, <2>2, <2>6, <2>7 DEF SendInv
  <2> QED
    BY <1>4, <2>1, <2>3, <2>8 DEF Rests
<1>6. ASSUME tulip_transmit \/ otulip_transmit \/ sis900_transmit \/ natsemi_transmit
             \/ lance_transmit \/ eepro100_transmit \/ a3c90x_transmit
      PROVE  DriverStep
  <2>1. /\ card # "rtl8139" /\ card' = card /\ rx' = rx
        /\ tx' \in {Queue(tx, 0, 0), [Queue(tx, 0, 0) EXCEPT !.cur = 0]}
    BY <1>3, <1>6 DEF tulip_transmit, otulip_transmit, sis900_transmit, natsemi_transmit,
       lance_transmit, eepro100_transmit, a3c90x_transmit, Sends
  <2> QED
    BY <1>2, <1>4, <2>1, QueueOwn DEF Rests
<1>7. ASSUME rhine_transmit \/ depca_transmit PROVE DriverStep
  <2>1. /\ card # "rtl8139" /\ card' = card /\ rx' = rx
        /\ tx' = [Queue(tx, tx.cur, tx.cur) EXCEPT !.cur = (tx.cur + 1) % TxRing]
    BY <1>3, <1>7 DEF rhine_transmit, depca_transmit, Sends
  <2> QED
    BY <1>2, <1>4, <2>1, QueueOwn DEF Rests
<1>8. ASSUME davicom_transmit \/ w89c840_transmit PROVE DriverStep
  <2>1. /\ card \notin KeepsBuffer /\ card' = card
        /\ rx' \in {rx, [rx EXCEPT !.stat = FALSE]}
        /\ tx' \in {Queue(tx, tx.cur, 0),
                    [Queue(tx, tx.cur, 0) EXCEPT !.cur = (tx.cur + 1) % TxRing]}
    BY <1>3, <1>8 DEF davicom_transmit, w89c840_transmit, Sends, KeepsBuffer
  <2> QED
    BY <1>2, <1>4, <2>1, QueueAny DEF Rests
<1>9. ASSUME epic100_transmit PROVE DriverStep
  <2>1. card = "epic100" /\ card' = card
    BY <1>3, <1>9 DEF epic100_transmit, Sends
  <2>2. CASE tx.own[tx.cur]
    <3>1. rx' = FreshRing(rx) /\ tx' = [TxClear(tx) EXCEPT !.cur = 0]
      BY <1>9, <2>2 DEF epic100_transmit, epic100_open
    <3>2. TxClear(tx) \in Tx /\ TxClear(tx).want = tx.want /\ TxClear(tx).buf = tx.buf
      BY <1>1, ClearIs
    <3>3. tx' \in Tx /\ tx'.want = tx.want /\ tx'.buf = tx.buf
      BY <1>2, <3>1, <3>2 DEF Tx
    <3> QED
      BY <1>4, <2>1, <3>1, <3>3, NoQueue DEF Rests
  <2>3. CASE ~tx.own[tx.cur]
    <3>1. rx' = rx /\ tx' = [Queue(tx, tx.cur, tx.cur) EXCEPT !.cur = (tx.cur + 1) % TxRing]
      BY <1>9, <2>3 DEF epic100_transmit
    <3> QED
      BY <1>2, <1>4, <2>1, <3>1, QueueOwn DEF Rests
  <2> QED
    BY <2>2, <2>3
<1>10. ASSUME SK_transmit PROVE DriverStep
  <2> DEFINE t == [Queue(tx, tx.cur, tx.cur) EXCEPT !.cur = (tx.cur + 1) % TxRing]
  <2>1. /\ card = "sk_g16" /\ card' = card /\ card \notin KeepsBuffer
        /\ \/ rx' = rx /\ tx' = t
           \/ rx' \in {FreshRing(rx), Stopped(rx)} /\ tx' = [TxClear(tx) EXCEPT !.cur = 1 % TxRing]
    <3>1. card = "sk_g16" /\ card' = card /\ card \notin KeepsBuffer
      BY <1>3, <1>10 DEF SK_transmit, Sends, KeepsBuffer
    <3>2. \/ rx' = rx /\ tx' = t
          \/ /\ tx' = [TxClear(tx) EXCEPT !.cur = 1 % TxRing]
             /\ \E idon \in BOOLEAN : rx' = SK_lance_init(rx, idon)
      BY <1>10 DEF SK_transmit
    <3>3. \A idon \in BOOLEAN : SK_lance_init(rx, idon) \in {FreshRing(rx), Stopped(rx)}
      BY DEF SK_lance_init
    <3> QED
      BY <3>1, <3>2, <3>3
  <2>2. t \in Tx
    <3>1. Queue(tx, tx.cur, tx.cur) \in Tx
      BY <1>1, <1>2, QueueIs
    <3> QED
      BY <1>2, <3>1 DEF Tx
  <2> HIDE DEF t
  <2>3. TxClear(tx) \in Tx
    BY <1>1, ClearIs
  <2>4. tx' \in Tx
    BY <1>2, <2>1, <2>2, <2>3 DEF Tx
  <2>5. SendInv'
    BY <2>1 DEF SendInv
  <2>6. Rests
    BY <2>1 DEF Rests
  <2> QED
    BY <1>4, <2>4, <2>5, <2>6
<1> QED
  BY <1>5, <1>6, <1>7, <1>8, <1>9, <1>10 DEF RingTransmit

LEMMA PortTransmitIs == ASSUME IInv, PortTransmit PROVE DriverStep
<1>1. TypeOK /\ rx \in Rx /\ tx \in Tx /\ sends \in Nat /\ sends + 1 \in Nat
  BY DEF IInv, TypeOK
<1>2. /\ tx.cur \in TxSlots /\ (tx.cur + 1) % TxRing \in TxSlots /\ 0 \in TxSlots
  BY <1>1, NextTx, Rings
<1>3. /\ pc = "idle" /\ pc' \in {"idle", "txwait"} /\ sends' \in Nat
      /\ UNCHANGED <<card, given, seen, wire, net>> /\ card \in PortDrivers
      /\ card \in Fifo /\ card # "rtl8139"
  BY <1>1 DEF PortTransmit, ns8390_transmit, t509_transmit, t595_transmit,
     smc9000_transmit, cs89x0_transmit, eepro_transmit, ni5010_transmit, tiara_transmit,
     Sends, AfterSend, PortDrivers, Fifo
<1>4. ASSUME Rests, tx' \in Tx /\ SendInv' PROVE DriverStep
  BY <1>3, <1>4, RestStep
<1>5. ASSUME ns8390_transmit \/ tiara_transmit PROVE DriverStep
  <2>1. rx' = rx /\ tx' = Queue(tx, 0, 0)
    BY <1>5 DEF ns8390_transmit, tiara_transmit
  <2> QED
    BY <1>2, <1>3, <1>4, <2>1, QueueOwn DEF Rests
<1>6. ASSUME t509_transmit \/ t595_transmit PROVE DriverStep
  <2>1. rx' = rx /\ \E d \in TxSlots : tx' = Queue(tx, d, d)
    BY <1>6 DEF t509_transmit, t595_transmit
  <2> QED
    BY <1>2, <1>3, <1>4, <2>1, QueueOwn DEF Rests
<1>7. ASSUME smc9000_transmit PROVE DriverStep
  <2>1. rx' \in {rx, [rx EXCEPT !.fifo = <<>>]} /\ (tx' = Queue(tx, 0, 0) \/ tx' = tx)
    BY <1>7 DEF smc9000_transmit
  <2>2. Rests
    BY <1>3, <2>1 DEF Rests
  <2> QED
    BY <1>1, <1>2, <1>3, <1>4, <2>1, <2>2, QueueOwn, NoQueue
<1>8. ASSUME cs89x0_transmit \/ ni5010_transmit PROVE DriverStep
  <2>1. rx' \in {rx, Stopped(rx)} /\ tx' = Queue(tx, 0, 0)
    BY <1>8 DEF cs89x0_transmit, ni5010_transmit, cs89x0_reset
  <2>2. Rests
    BY <1>3, <2>1 DEF Rests
  <2> QED
    BY <1>2, <1>3, <1>4, <2>1, <2>2, QueueOwn
<1>9. ASSUME eepro_transmit PROVE DriverStep
  <2>1. /\ rx' = rx
        /\ tx' = [Queue(tx, tx.cur, tx.cur) EXCEPT !.cur = (tx.cur + 1) % TxRing]
    BY <1>9 DEF eepro_transmit
  <2> QED
    BY <1>2, <1>3, <1>4, <2>1, QueueOwn DEF Rests
<1> QED
  BY <1>5, <1>6, <1>7, <1>8, <1>9 DEF PortTransmit

-----------------------------------------------------------------------------
(* The ends of the waits inside transmit.                                  *)

LEMMA RingSentIs == ASSUME IInv, RingSent PROVE DriverStep
<1>1. TypeOK /\ rx \in Rx /\ tx \in Tx /\ sends \in Nat
  BY DEF IInv, TypeOK
<1>2. /\ tx.cur \in TxSlots /\ (tx.cur + 1) % TxRing \in TxSlots /\ 0 \in TxSlots
  BY <1>1, NextTx, Rings
<1>3. /\ pc = "txwait" /\ pc' \in {"idle", "txwait"} /\ sends' \in Nat
      /\ UNCHANGED <<card, given, seen, wire, net>>
  BY <1>1 DEF RingSent, rtl_sent, tulip_sent, davicom_sent, sis900_sent, natsemi_sent,
     epic100_sent, w89c840_sent, eepro100_sent, a3c90x_sent, lance_sent, Waits, AfterWait
<1>4. ASSUME Rests, tx' \in Tx /\ SendInv' PROVE DriverStep
  BY <1>3, <1>4, RestStep
<1>5. ASSUME rtl_sent PROVE DriverStep
  <2>1. card = "rtl8139" /\ card' = card /\ pc' = "idle"
    BY <1>3, <1>5 DEF rtl_sent, Waits
  <2>2. CASE ~tx.own[tx.cur] /\ tx' = [tx EXCEPT !.cur = (@ + 1) % TxRing] /\ rx' = rx
    <3>1. tx' \in Tx /\ tx'.own = tx.own
      BY <1>1, <1>2, <2>2 DEF Tx
    <3>2. \A d \in TxSlots : ~tx'.own[d]
      BY <2>1, <2>2, <3>1 DEF IInv, SendInv
    <3>3. SendInv'
      BY <2>1, <3>2 DEF SendInv
    <3> QED
      BY <1>4, <2>2, <3>1, <3>3 DEF Rests
  <2>3. CASE tx' = [TxClear(tx) EXCEPT !.cur = 0] /\ rx' = FreshRing(rx)
    <3>1. TxClear(tx) \in Tx /\ TxClear(tx).own = [i \in TxSlots |-> FALSE]
      BY <1>1, ClearIs
    <3>2. tx' \in Tx /\ tx'.own = [i \in TxSlots |-> FALSE]
      BY <1>2, <2>3, <3>1 DEF Tx
    <3>3. SendInv'
      BY <2>1, <3>2 DEF SendInv
    <3> QED
      BY <1>4, <2>3, <3>2, <3>3 DEF Rests
  <2> QED
    BY <1>5, <2>2, <2>3 DEF rtl_sent, rtl_reset
<1>6. ASSUME tulip_sent PROVE DriverStep
  <2>1. card # "rtl8139" /\ card' = card /\ rx' = rx /\ tx' = [tx EXCEPT !.on = FALSE]
    BY <1>3, <1>6 DEF tulip_sent, Waits
  <2>2. tx' \in Tx /\ tx'.want = tx.want /\ tx'.buf = tx.buf
    BY <1>1, <2>1 DEF Tx
  <2> QED
    BY <1>4, <2>1, <2>2, NoQueue DEF Rests
<1>7. ASSUME davicom_sent PROVE DriverStep
  <2>1. card # "rtl8139" /\ card' = card /\ rx' = rx /\ tx' = [tx EXCEPT !.cur = (@ + 1) % TxRing]
    BY <1>3, <1>7 DEF davicom_sent, Waits
  <2>2. tx' \in Tx /\ tx'.want = tx.want /\ tx'.buf = tx.buf
    BY <1>1, <1>2, <2>1 DEF Tx
  <2> QED
    BY <1>4, <2>1, <2>2, NoQueue DEF Rests
<1>8. ASSUME sis900_sent \/ natsemi_sent \/ epic100_sent \/ w89c840_sent \/ lance_sent
      PROVE  DriverStep
  <2>1. card # "rtl8139" /\ card' = card /\ rx' = rx /\ tx' = tx
    BY <1>3, <1>8 DEF sis900_sent, natsemi_sent, epic100_sent, w89c840_sent, lance_sent, Waits
  <2> QED
    BY <1>1, <1>4, <2>1, NoQueue DEF Rests
<1>9. ASSUME eepro100_sent PROVE DriverStep
  <2>1. card = "eepro100" /\ card' = card /\ rx' = rx /\ tx' = [tx EXCEPT !.buf[0] = 0]
    BY <1>3, <1>9 DEF eepro100_sent, Waits
  <2>2. tx' \in Tx
    BY <1>1, <1>2, <2>1 DEF Tx
  <2>3. SendInv'
    BY <2>1 DEF SendInv, KeepsBuffer
  <2> QED
    BY <1>4, <2>1, <2>2, <2>3 DEF Rests
<1>10. ASSUME a3c90x_sent PROVE DriverStep
  <2>1. /\ card = "3c90x" /\ card' = card /\ card \in Fifo
        /\ rx' \in {rx, [Stopped(rx) EXCEPT !.run = TRUE]}
        /\ \/ tx' = tx
           \/ tx.cur + 1 < TxRing /\ tx' = [tx EXCEPT !.own[0] = TRUE, !.cur = @ + 1]
    BY <1>3, <1>10 DEF a3c90x_sent, a3c90x_reset, Fifo
  <2>2. tx' \in Tx /\ tx'.want = tx.want /\ tx'.buf = tx.buf
    <3>1. CASE tx' = tx
      BY <1>1, <3>1
    <3>2. CASE tx.cur + 1 < TxRing /\ tx' = [tx EXCEPT !.own[0] = TRUE, !.cur = @ + 1]
      <4>1. tx.cur + 1 \in TxSlots
        BY <1>2, <3>2, Rings
      <4> QED
        BY <1>1, <1>2, <3>2, <4>1 DEF Tx
    <3> QED
      BY <2>1, <3>1, <3>2
  <2>3. Rests
    BY <2>1 DEF Rests
  <2> QED
    BY <1>4, <2>1, <2>2, <2>3, NoQueue
<1> QED
  BY <1>5, <1>6, <1>7, <1>8, <1>9, <1>10 DEF RingSent

LEMMA PortSentIs == ASSUME IInv, PortSent PROVE DriverStep
<1>1. TypeOK /\ rx \in Rx /\ tx \in Tx /\ sends \in Nat
  BY DEF IInv, TypeOK
<1>2. /\ pc = "txwait" /\ pc' \in {"idle", "txwait"} /\ sends' \in Nat
      /\ UNCHANGED <<card, given, seen, wire, net>> /\ card \in Fifo /\ card # "rtl8139"
  BY <1>1 DEF PortSent, smc9000_sent, cs89x0_sent, eepro_sent, ni5010_sent, tiara_sent,
     Waits, AfterWait, Fifo, PortDrivers
<1>3. /\ rx' \in {rx, Stopped(rx), [rx EXCEPT !.run = TRUE]}
      /\ tx' \in {tx, [TxClear(tx) EXCEPT !.on = FALSE]}
  BY DEF PortSent, smc9000_sent, cs89x0_sent, eepro_sent, ni5010_sent, tiara_sent,
     reset_receiver, smc_reset
<1>4. TxClear(tx) \in Tx /\ TxClear(tx).want = tx.want /\ TxClear(tx).buf = tx.buf
  BY <1>1, ClearIs
<1>5. tx' \in Tx /\ tx'.want = tx.want /\ tx'.buf = tx.buf
  BY <1>1, <1>3, <1>4 DEF Tx
<1>6. Rests
  BY <1>2, <1>3 DEF Rests
<1> QED
  BY <1>2, <1>5, <1>6, NoQueue, RestStep

-----------------------------------------------------------------------------
(* The theorems.                                                           *)

LEMMA InitKeeps == NicInit => IInv
<1> SUFFICES ASSUME NicInit PROVE IInv
  OBVIOUS
<1>1. /\ card = "none" /\ pc = "down" /\ rx = RxInit /\ tx = TxInit /\ given = NoFrame
      /\ wire = [want |-> 0, buf |-> 0] /\ seen = 0 /\ sends = 0
      /\ net = [ready |-> FALSE, used |-> FALSE, written |-> FALSE]
  BY DEF NicInit
<1>2. rx \in Rx
  <2>1. /\ [i \in Slots |-> FALSE] \in [Slots -> BOOLEAN] /\ NoFrame \in Frame
        /\ [i \in Slots |-> NoFrame] \in [Slots -> Frame] /\ <<>> \in Seq(Frame)
    BY DEF NoFrame, Frame
  <2> QED
    BY <1>1, <2>1, Rings DEF RxInit, Rx
<1>3. tx \in Tx
  BY <1>1, Rings DEF TxInit, Tx
<1>4. TypeOK
  <2>1. given \in Frame
    BY <1>1 DEF NoFrame, Frame
  <2> QED
    BY <1>1, <1>2, <1>3, <2>1 DEF TypeOK
<1>5. DownInv /\ SendInv /\ SendsWhatWasQueued /\ QuietInv /\ QuietAfterBoot
  BY <1>1 DEF DownInv, SendInv, SendsWhatWasQueued, KeepsBuffer, QuietInv, QuietAfterBoot
<1>6. RingInv /\ FifoInv
  BY <1>1 DEF RingInv, FifoInv, RingCards, RingDrivers, Fifo, PortDrivers
<1>7. SeenInv
  <2>1. \A d \in Slots : rx.data[d] = NoFrame
    BY <1>1 DEF RxInit
  <2> QED
    BY <1>1, <2>1 DEF SeenInv, NoFrame
<1> QED
  BY <1>4, <1>5, <1>6, <1>7 DEF IInv

LEMMA StutterKeeps == ASSUME IInv, UNCHANGED nicVars PROVE IInv'
  BY DEF IInv, nicVars, TypeOK, DownInv, SendInv, SendsWhatWasQueued, QuietInv,
     QuietAfterBoot, RingInv, RingOrder, NeverStarted, Busy, Live, Ids, FifoInv, SeenInv

LEMMA DriverSteps ==
  ASSUME IInv, eth_poll \/ eth_transmit \/ RingSent \/ PortSent
  PROVE  DriverStep
  BY RingPollIs, PortPollIs, RingTransmitIs, PortTransmitIs, RingSentIs, PortSentIs
     DEF eth_poll, eth_transmit

LEMMA NextKeeps == IInv /\ [Next]_nicVars => IInv' /\ Ordered
<1> SUFFICES ASSUME IInv, [Next]_nicVars PROVE IInv' /\ Ordered
  OBVIOUS
<1>1. CASE eth_poll \/ eth_transmit \/ RingSent \/ PortSent
  BY <1>1, DriverSteps, DriverKeeps, DriverOrdered
<1>2. CASE eth_probe
  BY <1>2, ProbeKeeps DEF eth_probe, Ordered
<1>3. CASE Configured
  BY <1>3, ConfiguredKeeps DEF Configured, Ordered
<1>4. CASE cleanup_net
  BY <1>4, CleanupKeeps DEF cleanup_net, Ordered
<1>5. CASE Arrive
  BY <1>5, ArriveKeeps DEF Arrive, Ordered
<1>6. CASE CardSends
  BY <1>6, CardSendsKeeps DEF CardSends, Ordered
<1>7. CASE UNCHANGED nicVars
  BY <1>7, StutterKeeps DEF nicVars, Ordered
<1> QED
  BY <1>1, <1>2, <1>3, <1>4, <1>5, <1>6, <1>7 DEF Next

(* For all drivers together the inductive invariant holds: cursors of      *)
(* driver and card, buffers and descriptors, and the phases of eth_probe   *)
(* and cleanup_net fit.                                                    *)
THEOREM NicInvariant == Spec => []IInv
<1>1. IInv /\ [Next]_nicVars => IInv'
  BY NextKeeps
<1> QED
  BY InitKeeps, <1>1, PTL DEF Spec

(* What a card that keeps its buffers puts on the wire is what its         *)
(* descriptor was given for, in the transmit functions of ten drivers.     *)
THEOREM CardsSendWhatWasQueued == Spec => []SendsWhatWasQueued
<1>1. IInv => SendsWhatWasQueued
  BY DEF IInv
<1> QED
  BY NicInvariant, <1>1, PTL

(* After cleanup_net has stopped a network in use, the card leaves the     *)
(* host's memory to the kernel, unless the driver's disable is empty.      *)
THEOREM CardsAreQuiet == Spec => []QuietAfterBoot
<1>1. IInv => QuietAfterBoot
  BY DEF IInv
<1> QED
  BY NicInvariant, <1>1, PTL

(* The poll functions hand frames over undamaged, once and in order, for   *)
(* every number of descriptors.                                            *)
THEOREM FramesComeInOrder == Spec => FramesInOrder
<1>1. IInv /\ [Next]_nicVars => [given' # given =>
                                  /\ card \notin Disorderly => given'.id > given.id
                                  /\ card \notin Unchecked => given'.ok]_nicVars
  BY NextKeeps DEF Ordered
<1> QED
  BY NicInvariant, <1>1, PTL DEF Spec, FramesInOrder

=============================================================================
