----------------------------- MODULE TftpProofs -----------------------------
(***************************************************************************)
(* Proofs about Tftp, for any files, block lengths, buffer, servers and    *)
(* numbers of faults: what is stored is the file, and the driver           *)
(* implements FileService.                                                 *)
(***************************************************************************)
EXTENDS Tftp, SequenceTheorems, FiniteSetTheorems, TLAPS

(* Every variable of the client and of its environment.                    *)
TypeInv ==
  /\ TypeOK
  /\ opened \in BOOLEAN /\ buf_eof \in BOOLEAN /\ bcounter \in BOOLEAN
  /\ file \in Files /\ kind \in Kinds /\ tp \in {"rrq", "ack", "error"}
  /\ requests \in Nat /\ faults \in Nat

(* What the OACK says has been taken over: the block length and, while the *)
(* file is opened, its length.                                             *)
Agreed ==
  /\ packetsize = BlockSize
  /\ kind = "full" /\ ctx = "dir" => filemax = FileLen[file]

(* How far the server may be with a block n that still counts: it has seen *)
(* an ACK of the block before.  Once the block numbers are used up the     *)
(* client takes no further block, whatever the server sends.               *)
InReach(n) == n <= prevblock + 1 \/ prevblock = BlockNumbers - 1

(* A packet, of the client's current port or an older one.                 *)
PacketOK(m) ==
  /\ m.cport \in Nat /\ m.cport <= iport /\ m.sport \in Nat
  /\ m.op = "other" => kind = "stray"
  /\ m.op = "rrq" => m.data[1] \in Files
  /\ m.cport = iport =>
       /\ m.op = "rrq" => m.data[1] = file
       /\ m.op = "data" =>
            /\ Agreed
            /\ \E n \in 1 .. LastBlock(file) :
                 InReach(n) /\ m.block = n % BlockNumbers /\ m.data = BlockData(file, n)
       /\ m.op = "oack" =>
            /\ kind \in {"blksize", "full"}
            /\ m.data = IF kind = "full" THEN <<FileLen[file]>> ELSE <<>>
       /\ m.op = "ack" => Agreed /\ m.block \in Nat /\ m.block <= prevblock

(* A transfer of the server.                                               *)
SessionOK(s) ==
  /\ s = [cport |-> s.cport, sport |-> s.sport, file |-> s.file, n |-> s.n]
  /\ s.cport \in Nat /\ s.cport <= iport /\ s.sport \in Nat /\ s.file \in Files /\ s.n \in Nat
  /\ kind = "plain" => s.n # 0
  /\ s.cport = iport =>
       /\ s.file = file
       /\ s.n \in 1 .. LastBlock(file) => Agreed /\ InReach(s.n)

NetInv ==
  /\ \A m \in net : PacketOK(m)
  /\ \A s \in sessions : SessionOK(s)
  /\ IsFiniteSet(sessions)

(* The bytes of the file the client has been sent so far.                  *)
Received == IF buf_eof THEN FileLen[file] ELSE prevblock * packetsize

(* The transfer that is not being aborted: what it has stored, and what of *)
(* it is in the buffer.                                                    *)
TransferInv ==
  /\ (bcounter <=> prevblock # 0)
  /\ kind \notin {"blksize", "full"} => packetsize = TFTP_DEFAULTSIZE_PACKET
  /\ tp = "ack" => Agreed /\ block <= prevblock
  /\ tp = "rrq" => block = 0
  /\ prevblock # 0 => Agreed
  /\ ctx \in {"dir", "sizing", "read"} =>
       /\ ~buf_eof => prevblock < LastBlock(file)
       /\ buf_eof => prevblock # 0
       /\ Received = Len(buf) + (IF ctx = "sizing" THEN filemax ELSE saved_filepos)
       /\ buf = Bytes(file, Received - Len(buf), Len(buf))

(* The call in progress.                                                   *)
CallInv ==
  /\ ctx \in {"reopen", "read"} /\ pc # "idle" => opened /\ size > 0
  /\ ctx \in {"dir", "sizing"} /\ pc # "idle" => ~opened /\ filepos = 0
  /\ opened => ctx \in {"dir", "read"} \/ (ctx = "reopen" /\ pc # "idle")
  /\ opened => filemax = FileLen[file] /\ filepos + size <= filemax
  /\ ~opened => size = 0 /\ ret = <<>>
  /\ pc = "idle" => size = 0
  /\ pc = "copy" => ctx = "read"
  /\ ctx = "read" /\ pc # "idle" => saved_filepos <= filepos
  /\ ctx = "dir" /\ pc # "idle" => filemax \in {-1, FileLen[file]} /\ saved_filepos = 0
  /\ ctx = "sizing" => filemax \in Nat /\ kind # "full"
  /\ ctx = "dir" /\ pc = "filled" /\ filemax = -1 => kind # "full"

IInv == TypeInv /\ NetInv /\ TransferInv /\ CallInv
-----------------------------------------------------------------------------
(* Bytes, blocks and block numbers.                                        *)

LEMMA BytesFacts ==
  ASSUME NEW f \in Files, NEW p \in Nat, NEW n \in Nat
  PROVE  /\ Bytes(f, p, n) \in Seq(Files \X Nat) /\ Len(Bytes(f, p, n)) = n
         /\ \A i \in 1 .. n : Bytes(f, p, n)[i] = <<f, p + i - 1>>
<1>1. Bytes(f, p, n) \in [1 .. n -> Files \X Nat]
  BY DEF Bytes
<1>2. Bytes(f, p, n) \in Seq(Files \X Nat) /\ Len(Bytes(f, p, n)) = n
  BY <1>1, SeqDef
<1> QED BY <1>2 DEF Bytes

LEMMA Constants ==
  /\ BlockNumbers \in Nat /\ 0 \in 0 .. BlockNumbers - 1
  /\ FSYS_BUFLEN \in Nat /\ MAX_TFTP_RETRIES \in Nat /\ TFTP_REXMT \in Nat
  /\ \A f \in Files : FileLen[f] \in Nat
  /\ <<>> \in Seq(Files \X Nat) /\ Len(<<>>) = 0
BY TftpAssumption

(* Two pieces of the file that follow each other are one.                  *)
LEMMA BytesJoin ==
  ASSUME NEW f \in Files, NEW p \in Nat, NEW n \in Nat, NEW k \in Nat
  PROVE  Bytes(f, p, n) \o Bytes(f, p + n, k) = Bytes(f, p, n + k)
<1> DEFINE s == Bytes(f, p, n)
           t == Bytes(f, p + n, k)
           u == Bytes(f, p, n + k)
<1>1. /\ s \in Seq(Files \X Nat) /\ Len(s) = n /\ \A i \in 1 .. n : s[i] = <<f, p + i - 1>>
      /\ t \in Seq(Files \X Nat) /\ Len(t) = k /\ \A i \in 1 .. k : t[i] = <<f, p + n + i - 1>>
      /\ u \in Seq(Files \X Nat) /\ Len(u) = n + k
      /\ \A i \in 1 .. n + k : u[i] = <<f, p + i - 1>>
  <2>1. p + n \in Nat /\ n + k \in Nat
    OBVIOUS
  <2> QED BY <2>1, BytesFacts, Zenon
<1> HIDE DEF s, t, u
<1> DEFINE w == s \o t
<1>2. /\ w \in Seq(Files \X Nat) /\ Len(w) = n + k
      /\ \A i \in 1 .. n + k : w[i] = IF i <= n THEN s[i] ELSE t[i - n]
  BY <1>1, ConcatProperties
<1> HIDE DEF w
<1>3. ASSUME NEW i \in 1 .. n + k
      PROVE  w[i] = u[i]
  <2>1. i \in Int /\ n \in Int
    OBVIOUS
  <2>2. CASE i <= n
    <3>1. i \in 1 .. n
      BY <2>2
    <3> QED BY <1>1, <1>2, <2>2, <3>1
  <2>3. CASE ~(i <= n)
    <3>1. i - n \in 1 .. k /\ p + n + (i - n) - 1 = p + i - 1
      BY <2>3
    <3> QED BY <1>1, <1>2, <2>3, <3>1
  <2> QED BY <2>2, <2>3
<1>4. w = u
  BY <1>1, <1>2, <1>3, SeqEqual
<1> QED BY <1>4 DEF s, t, u, w

(* A piece of a piece of the file.  (Part keeps the provers from looking   *)
(* into SubSeq where it is cited.)                                         *)
Part(s, i, j) == SubSeq(s, i, j)

LEMMA BytesPart ==
  ASSUME NEW f \in Files, NEW p \in Nat, NEW n \in Nat, NEW k \in Nat, NEW l \in Nat, k + l <= n,
         NEW i, i = k + 1, NEW j, j = k + l, NEW q, q = p + k
  PROVE  Part(Bytes(f, p, n), i, j) = Bytes(f, q, l)
<1> DEFINE s == Bytes(f, p, n)
           u == Bytes(f, q, l)
<1>0. i \in Int /\ j \in Int /\ i \in 1 .. n + 1 /\ j \in i - 1 .. n /\ p + i - 1 = q /\ j - i + 1 = l
  OBVIOUS
<1>1. /\ s \in Seq(Files \X Nat) /\ Len(s) = n /\ \A m \in 1 .. n : s[m] = <<f, p + m - 1>>
      /\ u \in Seq(Files \X Nat) /\ Len(u) = j - i + 1
      /\ \A m \in 1 .. j - i + 1 : u[m] = <<f, q + m - 1>>
  <2>1. q \in Nat /\ l \in Nat
    OBVIOUS
  <2>2. /\ s \in Seq(Files \X Nat) /\ Len(s) = n /\ \A m \in 1 .. n : s[m] = <<f, p + m - 1>>
        /\ u \in Seq(Files \X Nat) /\ Len(u) = l /\ \A m \in 1 .. l : u[m] = <<f, q + m - 1>>
    BY <2>1, BytesFacts, Zenon
  <2> HIDE DEF s, u
  <2> QED BY <1>0, <2>2
<1> HIDE DEF s, u
<1>2. \A m \in i .. j : s[m] \in Files \X Nat
  BY <1>0, <1>1, ElementOfSeq
<1> DEFINE w == SubSeq(s, i, j)
<1>3. /\ w \in Seq(Files \X Nat)
      /\ Len(w) = j - i + 1
      /\ \A m \in 1 .. j - i + 1 : w[m] = s[i + m - 1]
  <2>1. i \in Int /\ j \in Int /\ (i <= j \/ j = i - 1)
    BY <1>0
  <2>2. /\ w \in Seq(Files \X Nat)
        /\ Len(w) = IF i <= j THEN j - i + 1 ELSE 0
        /\ \A m \in 1 .. j - i + 1 : w[m] = s[i + m - 1]
    BY <1>2, <2>1, SubSeqProperties
  <2> HIDE DEF w
  <2>3. Len(w) = j - i + 1
    <3>1. CASE i <= j
      BY <2>2, <3>1, Zenon
    <3>2. CASE ~(i <= j)
      <4>1. Len(w) = 0 /\ j = i - 1
        BY <2>1, <2>2, <3>2, Zenon
      <4>2. j - i + 1 = 0
        BY <1>0, <4>1
      <4> QED BY <4>1, <4>2, Zenon
    <3> QED BY <3>1, <3>2
  <2> QED BY <2>2, <2>3, Zenon
<1> HIDE DEF w
<1>4. w = u
  <2>1. ASSUME NEW m \in 1 .. j - i + 1
        PROVE  w[m] = u[m]
    <3>1. i + m - 1 \in 1 .. n /\ p + (i + m - 1) - 1 = q + m - 1
      BY <1>0
    <3> QED BY <1>1, <1>3, <3>1
  <2> QED BY <1>1, <1>3, <2>1, SeqEqual
<1> QED BY <1>4 DEF s, u, w, Part

LEMMA BlockSizeFact ==
  /\ BlockSize \in Nat \ {0}
  /\ \A f \in Files : LastBlock(f) \in Nat \ {0}
<1>1. BlockSize \in Nat \ {0}
  BY TftpAssumption DEF BlockSize
<1>2. ASSUME NEW f \in Files PROVE LastBlock(f) \in Nat \ {0}
  BY <1>1, TftpAssumption DEF LastBlock
<1> QED BY <1>1, <1>2

(* A block lies in the file, and only the last one is short.               *)
LEMMA BlockFacts ==
  ASSUME kind \in Kinds, NEW f \in Files, NEW n \in 1 .. LastBlock(f)
  PROVE  /\ BlockSize \in Nat \ {0} /\ BlockSize <= TFTP_MAX_PACKET
         /\ LastBlock(f) \in Nat \ {0}
         /\ (n - 1) * BlockSize \in Nat /\ n * BlockSize = (n - 1) * BlockSize + BlockSize
         /\ n = LastBlock(f) => FileLen[f] - (n - 1) * BlockSize \in 0 .. BlockSize - 1
         /\ n # LastBlock(f) => n * BlockSize <= FileLen[f]
<1>1. BlockSize \in Nat \ {0} /\ BlockSize <= TFTP_MAX_PACKET
  BY TftpAssumption DEF BlockSize
<1> DEFINE B == BlockSize
           L == FileLen[f]
           q == L \div B
<1>2. L \in Nat
  BY TftpAssumption
<1> HIDE DEF L
<1>3. q \in Nat /\ q * B <= L /\ L < q * B + B
  BY <1>1, <1>2
<1>4. LastBlock(f) = q + 1
  BY DEF LastBlock, L
<1>5. n \in Nat \ {0} /\ n - 1 <= q /\ n - 1 \in Nat
  BY <1>3, <1>4
<1> HIDE DEF q, B
<1>6. (n - 1) * B \in Nat /\ n * B = (n - 1) * B + B
  BY <1>1, <1>5 DEF B
<1>7. n # q + 1 => n * B <= q * B
  BY <1>1, <1>3, <1>5 DEF B
<1> QED BY <1>1, <1>2, <1>3, <1>4, <1>5, <1>6, <1>7 DEF B, L

(* The data of a block.                                                    *)
LEMMA DataFacts ==
  ASSUME kind \in Kinds, NEW f \in Files, NEW n \in 1 .. LastBlock(f)
  PROVE  LET len == IF n = LastBlock(f) THEN FileLen[f] - (n - 1) * BlockSize ELSE BlockSize
         IN /\ len \in Nat /\ (len < BlockSize <=> n = LastBlock(f))
            /\ (n - 1) * BlockSize \in Nat
            /\ BlockData(f, n) = Bytes(f, (n - 1) * BlockSize, len)
            /\ BlockData(f, n) \in Seq(Files \X Nat) /\ Len(BlockData(f, n)) = len
<1> DEFINE len == IF n = LastBlock(f) THEN FileLen[f] - (n - 1) * BlockSize ELSE BlockSize
<1>1. FileLen[f] \in Nat
  BY TftpAssumption
<1>2. len \in Nat /\ (len < BlockSize <=> n = LastBlock(f)) /\ (n - 1) * BlockSize \in Nat
  <2> DEFINE x == (n - 1) * BlockSize
  <2>1. /\ BlockSize \in Nat \ {0} /\ x \in Nat
        /\ n = LastBlock(f) => FileLen[f] - x \in 0 .. BlockSize - 1
    BY BlockFacts
  <2> HIDE DEF x
  <2>2. CASE n = LastBlock(f)
    BY <1>1, <2>1, <2>2 DEF x
  <2>3. CASE n # LastBlock(f)
    BY <2>1, <2>3 DEF x
  <2> QED BY <2>2, <2>3
<1>3. BlockData(f, n) = Bytes(f, (n - 1) * BlockSize, len)
  BY DEF BlockData
<1>4. BlockData(f, n) \in Seq(Files \X Nat) /\ Len(BlockData(f, n)) = len
  <2> DEFINE p == (n - 1) * BlockSize
  <2>1. len \in Nat /\ p \in Nat /\ BlockData(f, n) = Bytes(f, p, len)
    BY <1>2, <1>3
  <2> HIDE DEF len, p
  <2> QED BY <2>1, BytesFacts
<1> HIDE DEF len
<1> QED BY <1>2, <1>3, <1>4 DEF len

LEMMA NoBytes == \A f, p : Bytes(f, p, 0) = <<>>
BY DEF Bytes

(* The number bb that is acknowledged: one more than the last only when    *)
(* the block that arrived is the next one.                                 *)
LEMMA NextBlock ==
  ASSUME NEW p \in 0 .. BlockNumbers - 1, NEW b \in 0 .. BlockNumbers - 1,
         NEW c \in BOOLEAN, c <=> p # 0
  PROVE  LET bb == IF (b # 0 \/ c) /\ b # p + 1 THEN p ELSE b
         IN /\ bb \in 0 .. BlockNumbers - 1
            /\ (bb - p) % BlockNumbers = 1 => bb = p + 1 /\ b = p + 1
            /\ (bb - p) % BlockNumbers # 1 => bb <= p
<1> DEFINE bb == IF (b # 0 \/ c) /\ b # p + 1 THEN p ELSE b
<1>1. BlockNumbers \in Nat /\ BlockNumbers > 1
  BY TftpAssumption
<1>2. bb = p \/ (bb = p + 1 /\ b = p + 1)
  OBVIOUS
<1>3. bb \in 0 .. BlockNumbers - 1
  OBVIOUS
<1> HIDE DEF bb
<1>4. 0 % BlockNumbers = 0 /\ 1 % BlockNumbers = 1
  BY <1>1
<1>5. CASE bb = p
  <2>1. bb - p = 0
    BY <1>5
  <2> QED BY <1>3, <1>4, <1>5, <2>1 DEF bb
<1>6. CASE bb = p + 1 /\ b = p + 1
  <2>1. bb - p = 1
    BY <1>6
  <2> QED BY <1>3, <1>4, <1>6, <2>1 DEF bb
<1> QED BY <1>2, <1>5, <1>6

(* The last block acknowledged has a number.                               *)
LEMMA BlockRange ==
  ASSUME TypeInv
  PROVE  BlockNumbers \in Nat /\ BlockNumbers > 1 /\ prevblock \in 0 .. BlockNumbers - 1
<1>1. BlockNumbers \in Nat /\ BlockNumbers > 1
  BY ONLY TftpAssumption
<1>2. prevblock \in 0 .. BlockNumbers - 1
  BY DEF TypeInv, TypeOK
<1> QED BY ONLY <1>1, <1>2

(* A block in reach that carries the next number is the next block.        *)
LEMMA NextInReach ==
  ASSUME TypeInv, NEW n \in Nat, InReach(n)
  PROVE  /\ n % BlockNumbers \in 0 .. BlockNumbers - 1
         /\ n % BlockNumbers = prevblock + 1 => n = prevblock + 1
         /\ n % BlockNumbers <= prevblock /\ prevblock # BlockNumbers - 1 => n <= prevblock
<1>1. BlockNumbers \in Nat /\ BlockNumbers > 1 /\ prevblock \in 0 .. BlockNumbers - 1
  BY BlockRange
<1>2. n % BlockNumbers \in 0 .. BlockNumbers - 1
  BY <1>1
<1>3. n < BlockNumbers => n % BlockNumbers = n
  BY <1>1
<1> QED BY <1>1, <1>2, <1>3 DEF InReach

-----------------------------------------------------------------------------
(* Packets and transfers of the server under a step of the client.         *)

(* The client stays with its transfer.                                     *)
SamePort ==
  /\ iport' = iport /\ kind' = kind /\ file' = file
  /\ prevblock' \in {prevblock, prevblock + 1} /\ prevblock' < BlockNumbers
  /\ Agreed => Agreed'

LEMMA Kept ==
  ASSUME TypeInv, SamePort
  PROVE  /\ \A m : PacketOK(m) => PacketOK(m)'
         /\ \A s : SessionOK(s) => SessionOK(s)'
<1>1. prevblock \in Nat /\ prevblock' \in Nat /\ BlockNumbers \in Nat
  BY BlockRange DEF SamePort
<1>2. ASSUME NEW n \in Nat, InReach(n) PROVE InReach(n)'
  <2>1. prevblock' = prevblock \/ (prevblock' = prevblock + 1 /\ prevblock' < BlockNumbers)
    BY DEF SamePort
  <2>2. n <= prevblock + 1 \/ prevblock = BlockNumbers - 1
    BY <1>2 DEF InReach
  <2>3. n <= prevblock' + 1 \/ prevblock' = BlockNumbers - 1
    <3>1. CASE prevblock' = prevblock
      BY <2>2, <3>1
    <3>2. CASE prevblock' = prevblock + 1 /\ prevblock' < BlockNumbers
      <4>1. prevblock # BlockNumbers - 1
        BY <1>1, <3>2
      <4>2. n <= prevblock + 1
        BY <2>2, <4>1
      <4> QED BY <1>1, <3>2, <4>2
    <3> QED BY <2>1, <3>1, <3>2
  <2> QED BY <2>3 DEF InReach
<1>3. /\ \A f : LastBlock(f)' = LastBlock(f)
      /\ \A f, n : BlockData(f, n)' = BlockData(f, n)
  BY DEF SamePort, LastBlock, BlockData, BlockSize
<1>4. 1 .. LastBlock(file) \subseteq Nat
  OBVIOUS
<1>5. ASSUME NEW m, PacketOK(m) PROVE PacketOK(m)'
  BY <1>1, <1>2, <1>3, <1>4, <1>5 DEF PacketOK, SamePort
<1>6. ASSUME NEW s, SessionOK(s) PROVE SessionOK(s)'
  BY <1>1, <1>2, <1>3, <1>4, <1>6 DEF SessionOK, SamePort
<1> QED BY <1>5, <1>6

LEMMA SamePortWhenUnchanged ==
  ASSUME TypeInv, UNCHANGED <<file, iport, prevblock, packetsize, kind>>,
         ctx' = ctx \/ ctx' # "dir" \/ kind # "full", filemax' = filemax \/ ctx' # "dir"
  PROVE  SamePort
<1>1. prevblock < BlockNumbers
  BY BlockRange
<1>2. Agreed => Agreed'
  BY DEF Agreed, BlockSize
<1> QED BY <1>1, <1>2 DEF SamePort

(* The client takes a new port: all that was sent is too late.             *)
LEMMA LeftBehind ==
  ASSUME TypeInv, iport' = iport + 1, kind' = kind
  PROVE  /\ \A m : PacketOK(m) => PacketOK(m)'
         /\ \A s : SessionOK(s) => SessionOK(s)'
<1>1. iport \in Nat
  BY DEF TypeInv, TypeOK
<1>5. ASSUME NEW m, PacketOK(m) PROVE PacketOK(m)'
  BY <1>1, <1>5 DEF PacketOK
<1>6. ASSUME NEW s, SessionOK(s) PROVE SessionOK(s)'
  BY <1>1, <1>6 DEF SessionOK
<1> QED BY <1>5, <1>6

(* A request for the file goes out, or cannot be sent.                     *)
LEMMA RequestSent ==
  ASSUME IInv, NEW f \in Files, NEW okpc \in {"fill", "copy"}, send_rrq(f, okpc), file' = f,
         ctx' \in {"dir", "read"}
  PROVE  NetInv' /\ TransferInv'
<1> USE DEF IInv
<1>1. iport' = iport + 1 /\ kind' = kind /\ iport \in Nat
  BY DEF send_rrq, FromNewPort, TypeInv, TypeOK
<1>2. NetInv'
  <2>1. CASE net' = net /\ sessions' = sessions
    BY <1>1, <2>1, LeftBehind DEF NetInv
  <2>2. CASE FromNewPort("rrq", f)
    <3>1. ASSUME NEW m, m = Packet("rrq", iport + 1, 0, 0, <<f>>)
          PROVE  PacketOK(m)'
      BY <1>1, <3>1 DEF PacketOK, Packet
    <3> QED BY <1>1, <2>2, <3>1, LeftBehind, FS_EmptySet DEF NetInv, FromNewPort
  <2> QED BY <2>1, <2>2 DEF send_rrq
<1>3. TransferInv'
  <2>1. /\ prevblock' = 0 /\ bcounter' = FALSE /\ packetsize' = TFTP_DEFAULTSIZE_PACKET
        /\ tp' = "rrq" /\ block' = 0 /\ buf' = <<>> /\ buf_eof' = FALSE /\ saved_filepos' = 0
    BY DEF send_rrq
  <2>2. LastBlock(f) \in Nat /\ LastBlock(f) > 0 /\ kind \in Kinds
    <3>1. FileLen[f] \in Nat /\ BlockSize \in Nat \ {0}
      BY TftpAssumption DEF BlockSize
    <3> QED BY <3>1 DEF LastBlock, TypeInv
  <2>3. LastBlock(f)' = LastBlock(f)
    BY <1>1 DEF LastBlock, BlockSize
  <2>4. Received' = 0
    BY <2>1, TftpAssumption DEF Received
  <2>5. Len(<<>>) = 0 /\ Bytes(f, 0, 0) = <<>>
    BY NoBytes
  <2> QED BY <2>1, <2>2, <2>3, <2>4, <2>5 DEF TransferInv
<1> QED BY <1>2, <1>3

-----------------------------------------------------------------------------
(* Steps of the server and of the network.                                 *)

(* What the server sends of a transfer in order is in order.               *)
LEMMA AnswerOK ==
  ASSUME TypeInv, TransferInv, NEW s, SessionOK(s), s.n <= LastBlock(s.file)
  PROVE  PacketOK(Answer(s))
<1>1. CASE kind \in {"missing", "bad", "stray"}
  BY <1>1 DEF SessionOK, PacketOK, Answer, Packet
<1>2. CASE s.n = 0 /\ kind \in {"blksize", "full"}
  BY <1>2 DEF SessionOK, PacketOK, Answer, Packet
<1>3. CASE kind \in {"plain", "blksize", "full"} /\ s.n # 0
  <2>1. Answer(s) = Packet("data", s.cport, s.sport, s.n % BlockNumbers, BlockData(s.file, s.n))
    BY <1>3 DEF Answer
  <2>2. s.n \in Nat /\ s.n # 0 /\ s.cport \in Nat /\ s.cport <= iport /\ s.sport \in Nat
    BY <1>3 DEF SessionOK
  <2>3. CASE s.cport # iport
    BY <2>1, <2>2, <2>3 DEF PacketOK, Packet
  <2>4. CASE s.cport = iport
    <3>1. s.file = file /\ s.n \in 1 .. LastBlock(file)
      <4>1. s.file = file
        BY <2>4 DEF SessionOK
      <4>2. LastBlock(file) \in Int
        BY BlockSizeFact DEF TypeInv
      <4> QED BY <2>2, <4>1, <4>2
    <3>2. Agreed /\ InReach(s.n)
      BY <2>4, <3>1 DEF SessionOK
    <3> QED BY <2>1, <2>2, <3>1, <3>2 DEF PacketOK, Packet
  <2> QED BY <2>3, <2>4
<1>4. kind \in Kinds /\ (kind = "plain" => s.n # 0)
  BY DEF TypeInv, SessionOK
<1> QED BY <1>1, <1>2, <1>3, <1>4 DEF Kinds

(* A step of the server or the network leaves the client alone.            *)
LEMMA NetKept ==
  ASSUME IInv, UNCHANGED <<client, kind>>,
         \A m \in net' : PacketOK(m), \A s \in sessions' : SessionOK(s),
         IsFiniteSet(sessions'), faults' \in Nat
  PROVE  IInv'
<1> USE DEF IInv
<1>1. TypeInv'
  BY DEF TypeInv, TypeOK, client
<1>2. TransferInv' /\ CallInv'
  BY DEF TransferInv, CallInv, Agreed, Received, BlockSize, LastBlock, client
<1>3. SamePort
  <2>1. prevblock < BlockNumbers
    <3>1. prevblock \in 0 .. BlockNumbers - 1
      BY DEF TypeInv, TypeOK
    <3> QED BY <3>1, Constants
  <2>2. Agreed => Agreed'
    BY DEF Agreed, BlockSize, client
  <2> QED BY <2>1, <2>2 DEF SamePort, client
<1>4. NetInv'
  BY <1>3, Kept DEF NetInv
<1> QED BY <1>1, <1>2, <1>4

LEMMA EnvironmentKeeps ==
  ASSUME IInv, Environment
  PROVE  IInv'
<1> USE DEF IInv
<1>1. faults \in Nat /\ faults + 1 \in Nat
  BY DEF TypeInv
<1>2. \A m \in net : PacketOK(m)
  BY DEF NetInv
<1>3. \A s \in sessions : SessionOK(s)
  BY DEF NetInv
<1>4. \A s : SessionOK(s) /\ s.n <= LastBlock(s.file) => PacketOK(Answer(s))
  BY AnswerOK
<1>5. CASE ServerResend
  BY <1>1, <1>2, <1>3, <1>4, <1>5, NetKept DEF ServerResend, NetInv
<1>6. ASSUME NEW m \in net, Lose(m) PROVE IInv'
  BY <1>1, <1>2, <1>3, <1>6, NetKept DEF Lose, NetInv
<1>7. ASSUME NEW m \in net, ServeOther(m) PROVE IInv'
  <2>1. ASSUME NEW s \in sessions, NEW t, t = [s EXCEPT !.n = LastBlock(s.file) + 1]
        PROVE  SessionOK(t)
    <3>1. SessionOK(s)
      BY <1>3
    <3>2. s.file \in Files /\ LastBlock(s.file) \in Nat
      BY <3>1, BlockSizeFact DEF SessionOK
    <3>3. t = [cport |-> s.cport, sport |-> s.sport, file |-> s.file,
               n |-> LastBlock(s.file) + 1]
      BY <2>1, <3>1 DEF SessionOK
    <3> QED BY <3>1, <3>2, <3>3 DEF SessionOK
  <2>2. \A s \in sessions' : SessionOK(s)
    BY <1>3, <1>7, <2>1 DEF ServeOther
  <2>3. IsFiniteSet(sessions')
    <3> DEFINE over == [s \in sessions |-> IF m.op = "error" /\ s.sport = m.sport
                                          THEN [s EXCEPT !.n = LastBlock(s.file) + 1] ELSE s]
    <3>1. over \in Surjection(sessions, sessions')
      BY <1>7 DEF ServeOther, Surjection
    <3> HIDE DEF over
    <3> QED BY <3>1, FS_Surjection DEF NetInv
  <2> QED BY <1>1, <1>2, <1>7, <2>2, <2>3, NetKept DEF ServeOther
<1>8. ASSUME NEW m \in net, NEW rest \in {net, net \ {m}}, ServeRequest(m, rest) PROVE IInv'
  <2>1. m.op = "rrq" /\ PacketOK(m)
    BY <1>2, <1>8 DEF ServeRequest
  <2> DEFINE s == [cport |-> m.cport, sport |-> Cardinality(sessions) + 1, file |-> m.data[1],
                   n |-> IF kind = "plain" THEN 1 ELSE 0]
  <2>2. SessionOK(s) /\ s.n <= LastBlock(s.file)
    <3>1. m.data[1] \in Files /\ (m.cport = iport => m.data[1] = file)
      BY <2>1 DEF PacketOK
    <3>2. LastBlock(s.file) \in Nat \ {0}
      BY <3>1, BlockSizeFact
    <3>3. m.cport \in Nat /\ m.cport <= iport
      BY <2>1 DEF PacketOK
    <3>4. kind = "plain" => Agreed /\ InReach(1)
      BY DEF TransferInv, Agreed, InReach, BlockSize, TypeInv, TypeOK
    <3>5. Cardinality(sessions) + 1 \in Nat
      BY FS_CardinalityType DEF NetInv
    <3> QED BY <3>1, <3>2, <3>3, <3>4, <3>5 DEF SessionOK
  <2>3. UNCHANGED <<client, kind>> /\ faults' \in Nat
    BY <1>1, <1>8 DEF ServeRequest, Receive
  <2>4. sessions' = sessions \cup {s} /\ net' = rest \cup {Answer(s)}
    BY <1>8 DEF ServeRequest
  <2> HIDE DEF s
  <2>5. PacketOK(Answer(s))
    BY <1>4, <2>2
  <2>6. IsFiniteSet(sessions')
    BY <2>4, FS_AddElement DEF NetInv
  <2> QED BY <1>2, <1>3, <2>2, <2>3, <2>4, <2>5, <2>6, NetKept
<1>9. ASSUME NEW m \in net, NEW rest \in {net, net \ {m}}, ServeAck(m, rest) PROVE IInv'
  <2>1. m.op = "ack" /\ PacketOK(m) /\ UNCHANGED <<client, kind>> /\ faults' \in Nat
    BY <1>1, <1>2, <1>9 DEF ServeAck, Receive
  <2>2. PICK s \in sessions :
          /\ Acked(m, s)
          /\ LET t == [s EXCEPT !.n = s.n + 1]
             IN /\ sessions' = (sessions \ {s}) \cup {t}
                /\ net' = rest \cup (IF t.n <= LastBlock(t.file) THEN {Answer(t)} ELSE {})
    BY <1>9 DEF ServeAck
  <2> DEFINE t == [s EXCEPT !.n = s.n + 1]
  <2>3. SessionOK(s)
    BY <1>3
  <2>4. t = [cport |-> s.cport, sport |-> s.sport, file |-> s.file, n |-> s.n + 1]
    BY <2>3 DEF SessionOK
  <2>5. s.n \in Nat
    BY <2>3 DEF SessionOK
  <2>6. s.cport = iport /\ t.n \in 1 .. LastBlock(file) => Agreed /\ InReach(t.n)
    <3> SUFFICES ASSUME s.cport = iport, t.n \in 1 .. LastBlock(file)
                 PROVE  Agreed /\ InReach(t.n)
      OBVIOUS
    <3>1. Agreed /\ m.block \in Nat /\ m.block <= prevblock /\ m.block = s.n % BlockNumbers
      BY <2>1, <2>2 DEF PacketOK, Acked
    <3>2. t.n = s.n + 1
      BY <2>4
    <3>3. prevblock \in Nat
      BY DEF TypeInv, TypeOK
    <3>4. CASE s.n = 0
      BY <3>1, <3>2, <3>3, <3>4 DEF InReach
    <3>5. CASE s.n # 0
      <4>1. LastBlock(file) \in Nat
        BY BlockSizeFact DEF TypeInv
      <4>2. s.n \in 1 .. LastBlock(file)
        BY <2>5, <3>2, <3>5, <4>1
      <4>3. InReach(s.n)
        BY <2>3, <4>2 DEF SessionOK
      <4>4. prevblock # BlockNumbers - 1 => s.n <= prevblock
        BY <2>5, <3>1, <4>3, NextInReach
      <4> QED BY <2>5, <3>1, <3>2, <3>3, <4>4 DEF InReach
    <3> QED BY <3>4, <3>5
  <2>7. SessionOK(t)
    BY <2>3, <2>4, <2>5, <2>6 DEF SessionOK
  <2>8. sessions' = (sessions \ {s}) \cup {t}
    BY <2>2
  <2>9. net' = rest \cup (IF t.n <= LastBlock(t.file) THEN {Answer(t)} ELSE {})
    BY <2>2
  <2> HIDE DEF t
  <2>10. IsFiniteSet(sessions')
    BY <2>8, FS_AddElement, FS_RemoveElement DEF NetInv
  <2> QED BY <1>2, <1>3, <1>4, <2>1, <2>7, <2>8, <2>9, <2>10, NetKept
<1> QED BY <1>5, <1>6, <1>7, <1>8, <1>9 DEF Environment

-----------------------------------------------------------------------------
(* Steps of the user and of the callers of buf_fill.                       *)

(* The client stays with its transfer and may send a packet.               *)
LEMMA SameNet ==
  ASSUME TypeInv, NetInv, SamePort, sessions' = sessions,
         \A m \in net' : m \in net \/ PacketOK(m)'
  PROVE  NetInv'
BY Kept DEF NetInv

LEMMA BufferTyped ==
  ASSUME TypeInv, buf' \in {buf, <<>>}, ret' \in {ret, <<>>},
         block' \in {block, 0}, prevblock' \in {prevblock, 0}
  PROVE  /\ buf' \in Seq(Files \X Nat) /\ ret' \in Seq(Files \X Nat) /\ Len(buf') <= FSYS_BUFLEN
         /\ block' \in 0 .. BlockNumbers - 1 /\ prevblock' \in 0 .. BlockNumbers - 1
<1>1. /\ buf \in Seq(Files \X Nat) /\ Len(buf) <= FSYS_BUFLEN /\ ret \in Seq(Files \X Nat)
      /\ block \in 0 .. BlockNumbers - 1 /\ prevblock \in 0 .. BlockNumbers - 1
  BY DEF TypeInv, TypeOK
<1>2. buf' \in Seq(Files \X Nat) /\ ret' \in Seq(Files \X Nat)
  <2>1. <<>> \in Seq(Files \X Nat)
    BY Constants
  <2> QED BY <1>1, <2>1, Zenon
<1>3. Len(buf') <= FSYS_BUFLEN
  BY <1>1, Constants
<1>4. block' \in 0 .. BlockNumbers - 1 /\ prevblock' \in 0 .. BlockNumbers - 1
  BY <1>1, Constants
<1> QED BY <1>2, <1>3, <1>4

LEMMA RequestTyped ==
  ASSUME TypeInv, NEW f \in Files, NEW okpc \in {"fill", "copy"}, send_rrq(f, okpc),
         ctx' \in {"dir", "read"}, opened' = opened, file' \in Files,
         filepos' \in Nat, filemax' \in Nat \cup {-1}
  PROVE  TypeInv'
<1>1. /\ buf' \in Seq(Files \X Nat) /\ ret' \in Seq(Files \X Nat) /\ Len(buf') <= FSYS_BUFLEN
      /\ block' \in 0 .. BlockNumbers - 1 /\ prevblock' \in 0 .. BlockNumbers - 1
  BY BufferTyped DEF send_rrq
<1>2. iport' \in Nat /\ size' \in Nat /\ pc' \in {"idle", "fill", "copy"}
  BY DEF send_rrq, FromNewPort, TypeInv, TypeOK
<1>3. {saved_filepos', filepos', size', iport', oport', retry'} \subseteq Nat
  BY <1>2 DEF send_rrq, TypeInv, TypeOK
<1>4. /\ packetsize' \in {TFTP_DEFAULTSIZE_PACKET, TFTP_MAX_PACKET}
      /\ buf_eof' \in BOOLEAN /\ bcounter' \in BOOLEAN /\ tp' \in {"rrq", "ack", "error"}
  BY DEF send_rrq
<1>5. opened' \in BOOLEAN /\ kind' \in Kinds /\ requests' \in Nat /\ faults' \in Nat
  BY DEF send_rrq, TypeInv
<1> QED BY <1>1, <1>2, <1>3, <1>4, <1>5 DEF TypeInv, TypeOK

LEMMA UserKeeps ==
  ASSUME IInv, User
  PROVE  IInv'
<1> USE DEF IInv
<1>1. ASSUME NEW f \in Files, tftp_dir(f) PROVE IInv'
  <2>1. NetInv' /\ TransferInv'
    BY <1>1, RequestSent DEF tftp_dir
  <2>2. TypeInv'
    BY <1>1, Constants, RequestTyped DEF tftp_dir, TypeInv, TypeOK
  <2>3. CallInv'
    BY <1>1 DEF tftp_dir, send_rrq, CallInv
  <2> QED BY <2>1, <2>2, <2>3
<1>2. CASE grub_seek
  <2>1. SamePort
    BY <1>2, SamePortWhenUnchanged DEF grub_seek, transfer
  <2>2. NetInv'
    BY <1>2, <2>1, SameNet DEF grub_seek
  <2>3. TypeInv'
    <3>1. /\ buf' \in Seq(Files \X Nat) /\ ret' \in Seq(Files \X Nat) /\ Len(buf') <= FSYS_BUFLEN
          /\ block' \in 0 .. BlockNumbers - 1 /\ prevblock' \in 0 .. BlockNumbers - 1
      BY <1>2, BufferTyped DEF grub_seek, transfer
    <3> QED BY <1>2, TftpAssumption, <3>1 DEF grub_seek, transfer, TypeInv, TypeOK
  <2>4. TransferInv'
    BY <1>2 DEF grub_seek, transfer, TransferInv, Agreed, Received, BlockSize, LastBlock
  <2>5. CallInv'
    <3>1. opened /\ filemax = FileLen[file] /\ filepos' <= filemax /\ size = 0
      BY <1>2 DEF grub_seek, CallInv
    <3>2. filepos' + size' <= filemax
      BY <1>2, <2>3, <3>1 DEF grub_seek, TypeInv, TypeOK
    <3> QED BY <1>2, <3>2 DEF grub_seek, transfer, CallInv
  <2> QED BY <2>2, <2>3, <2>4, <2>5
<1>3. ASSUME NEW n \in ReadSizes, tftp_read(n) PROVE IInv'
  <2>1. SamePort
    BY <1>3, SamePortWhenUnchanged DEF tftp_read
  <2>2. NetInv'
    BY <1>3, <2>1, SameNet DEF tftp_read
  <2>3. n \in Nat \ {0} /\ filepos < filemax /\ opened /\ filemax \in Int /\ filepos \in Int
    BY <1>3, TftpAssumption DEF tftp_read, TypeInv, TypeOK, CallInv
  <2>4. size' \in Nat /\ size' > 0 /\ filepos + size' <= filemax
    BY <1>3, <2>3 DEF tftp_read
  <2>5. TypeInv'
    <3>1. /\ buf' \in Seq(Files \X Nat) /\ ret' \in Seq(Files \X Nat) /\ Len(buf') <= FSYS_BUFLEN
          /\ block' \in 0 .. BlockNumbers - 1 /\ prevblock' \in 0 .. BlockNumbers - 1
      BY <1>3, BufferTyped DEF tftp_read
    <3> QED BY <1>3, <2>4, Constants, <3>1 DEF tftp_read, TypeInv, TypeOK
  <2>6. TransferInv'
    BY <1>3 DEF tftp_read, TransferInv, CallInv, Agreed, Received, BlockSize, LastBlock
  <2>7. CallInv'
    BY <1>3, <2>3, <2>4 DEF tftp_read, CallInv, TypeInv, TypeOK
  <2> QED BY <2>2, <2>5, <2>6, <2>7
<1>4. CASE tftp_close
  <2>1. SamePort
    BY <1>4, SamePortWhenUnchanged DEF tftp_close
  <2>2. NetInv'
    BY <1>4, <2>1, SameNet DEF tftp_close
  <2>3. TypeInv'
    <3>1. /\ buf' \in Seq(Files \X Nat) /\ ret' \in Seq(Files \X Nat) /\ Len(buf') <= FSYS_BUFLEN
          /\ block' \in 0 .. BlockNumbers - 1 /\ prevblock' \in 0 .. BlockNumbers - 1
      BY <1>4, BufferTyped DEF tftp_close
    <3>2. /\ pc' = "fill" /\ ctx' = "close" /\ opened' = FALSE /\ filemax' = -1
          /\ {saved_filepos', filepos', size', iport', oport', retry'} \subseteq Nat
      BY <1>4 DEF tftp_close, TypeInv, TypeOK
    <3> QED BY <1>4, <3>1, <3>2 DEF tftp_close, TypeInv, TypeOK
  <2>4. TransferInv'
    BY <1>4 DEF tftp_close, TransferInv, Agreed, Received, BlockSize, LastBlock
  <2>5. CallInv'
    BY <1>4 DEF tftp_close, CallInv
  <2> QED BY <2>2, <2>3, <2>4, <2>5
<1> QED BY <1>1, <1>2, <1>3, <1>4 DEF User

LEMMA CallersKeep ==
  ASSUME IInv, DirFilled \/ SizingFilled \/ Reopen \/ CloseDone \/ ReadFilled \/ FillFailed
  PROVE  IInv'
<1> USE DEF IInv
<1>1. CASE DirFilled
  <2>1. SamePort
    BY <1>1, SamePortWhenUnchanged DEF DirFilled
  <2>2. NetInv'
    BY <1>1, <2>1, SameNet DEF DirFilled
  <2>3. Len(buf) \in Nat /\ saved_filepos = 0 /\ filepos = 0 /\ size = 0 /\ ~opened
    BY <1>1 DEF DirFilled, TypeInv, TypeOK, CallInv
  <2>4. TypeInv'
    <3>1. /\ buf' \in Seq(Files \X Nat) /\ ret' \in Seq(Files \X Nat) /\ Len(buf') <= FSYS_BUFLEN
          /\ block' \in 0 .. BlockNumbers - 1 /\ prevblock' \in 0 .. BlockNumbers - 1
      BY <1>1, BufferTyped DEF DirFilled
    <3> QED BY <1>1, <2>3, Constants, <3>1 DEF DirFilled, TypeInv, TypeOK
  <2>5. TransferInv'
    <3>1. CASE filemax = -1
      <4>1. Received' = Received /\ Received = Len(buf)
        BY <1>1, <2>3 DEF DirFilled, Received, TransferInv
      <4>2. Bytes(file, Received, 0) = <<>> /\ Len(<<>>) = 0
        BY NoBytes
      <4>3. buf' = <<>> /\ ctx' = "sizing" /\ filemax' = Len(buf)
        BY <1>1, <3>1 DEF DirFilled
      <4>4. Received' = Len(buf') + filemax' /\ buf' = Bytes(file, Received' - Len(buf'), Len(buf'))
        BY <2>3, <4>1, <4>2, <4>3
      <4>5. Agreed => Agreed'
        BY <2>1 DEF SamePort
      <4>6. LastBlock(file)' = LastBlock(file)
        BY <1>1 DEF DirFilled, LastBlock, BlockSize
      <4> QED BY <1>1, <4>3, <4>4, <4>5, <4>6 DEF DirFilled, TransferInv
    <3>2. CASE filemax # -1
      BY <1>1, <3>2 DEF DirFilled, TransferInv, Agreed, Received, BlockSize, LastBlock
    <3> QED BY <3>1, <3>2
  <2>6. CallInv'
    BY <1>1, <2>3, Constants DEF DirFilled, CallInv, TypeInv, TypeOK
  <2> QED BY <2>2, <2>4, <2>5, <2>6
<1>2. CASE SizingFilled
  <2>1. Len(buf) \in Nat /\ filemax \in Nat /\ ~opened /\ filepos = 0 /\ size = 0 /\ kind # "full"
    BY <1>2 DEF SizingFilled, TypeInv, TypeOK, CallInv
  <2>2. Received = Len(buf) + filemax
    BY <1>2 DEF SizingFilled, TransferInv
  <2>3. CASE ~buf_eof
    <3>1. SamePort
      BY <1>2, <2>1, <2>3, SamePortWhenUnchanged DEF SizingFilled
    <3>2. NetInv'
      BY <1>2, <2>3, <3>1, SameNet DEF SizingFilled
    <3>3. TypeInv'
      <4>1. /\ buf' \in Seq(Files \X Nat) /\ ret' \in Seq(Files \X Nat) /\ Len(buf') <= FSYS_BUFLEN
            /\ block' \in 0 .. BlockNumbers - 1 /\ prevblock' \in 0 .. BlockNumbers - 1
        BY <1>2, <2>3, BufferTyped DEF SizingFilled
      <4> QED BY <1>2, <2>1, <2>3, Constants, <4>1 DEF SizingFilled, TypeInv, TypeOK
    <3>4. TransferInv'
      <4>1. Received' = Received
        BY <1>2, <2>3 DEF SizingFilled, Received
      <4>2. Bytes(file, Received, 0) = <<>> /\ Len(<<>>) = 0
        BY NoBytes
      <4>3. buf' = <<>> /\ filemax' = filemax + Len(buf)
        BY <1>2, <2>3 DEF SizingFilled
      <4>4. Received' = Len(buf') + filemax' /\ buf' = Bytes(file, Received' - Len(buf'), Len(buf'))
        BY <2>1, <2>2, <4>1, <4>2, <4>3
      <4>5. Agreed => Agreed'
        BY <3>1 DEF SamePort
      <4>6. LastBlock(file)' = LastBlock(file)
        BY <1>2, <2>3 DEF SizingFilled, LastBlock, BlockSize
      <4> QED BY <1>2, <2>3, <4>3, <4>4, <4>5, <4>6 DEF SizingFilled, TransferInv
    <3>5. CallInv'
      BY <1>2, <2>1, <2>3 DEF SizingFilled, CallInv
    <3> QED BY <3>2, <3>3, <3>4, <3>5
  <2>4. CASE buf_eof
    <3>1. NetInv' /\ TransferInv'
      BY <1>2, <2>4, RequestSent DEF SizingFilled, TypeInv
    <3>2. TypeInv'
      <4>1. filemax' \in Nat \cup {-1} /\ file \in Files /\ filepos' \in Nat
        BY <1>2, <2>1, <2>4 DEF SizingFilled, TypeInv, TypeOK
      <4>2. send_rrq(file, "fill") /\ ctx' = "dir" /\ opened' = opened /\ file' = file
        BY <1>2, <2>4 DEF SizingFilled
      <4> QED BY <4>1, <4>2, RequestTyped
    <3>3. filemax' = FileLen[file]
      BY <1>2, <2>1, <2>2, <2>4 DEF SizingFilled, Received
    <3>4. CallInv'
      BY <1>2, <2>1, <2>4, <3>3, Constants DEF SizingFilled, send_rrq, CallInv, TypeInv
    <3> QED BY <3>1, <3>2, <3>4
  <2> QED BY <2>3, <2>4 DEF TypeInv
<1>3. CASE Reopen
  <2>1. NetInv' /\ TransferInv'
    BY <1>3, RequestSent DEF Reopen, TypeInv
  <2>2. TypeInv'
    BY <1>3, Constants, RequestTyped DEF Reopen, TypeInv, TypeOK
  <2>3. CallInv'
    BY <1>3 DEF Reopen, send_rrq, CallInv, TypeInv, TypeOK
  <2> QED BY <2>1, <2>2, <2>3
<1>4. CASE CloseDone \/ ReadFilled \/ FillFailed
  <2>1. UNCHANGED <<ctx, file, iport, transfer, tp, filepos, filemax, opened, kind, sessions, net>>
    BY <1>4 DEF CloseDone, ReadFilled, FillFailed, transfer, caller
  <2>2. SamePort
    BY <2>1, SamePortWhenUnchanged DEF transfer
  <2>3. NetInv'
    BY <2>1, <2>2, SameNet
  <2>4. TransferInv'
    BY <2>1 DEF transfer, TransferInv, Agreed, Received, BlockSize, LastBlock
  <2>5. TypeInv'
    <3>1. pc' \in {"idle", "copy"} /\ size' \in Nat /\ requests' = requests /\ faults' = faults
      BY <1>4 DEF CloseDone, ReadFilled, FillFailed, transfer, caller, TypeInv, TypeOK
    <3>2. ret' \in Seq(Files \X Nat)
      BY <1>4, Constants DEF CloseDone, ReadFilled, FillFailed, transfer, caller, TypeInv, TypeOK
    <3>3. oport' = oport
      BY <1>4, Constants DEF CloseDone, ReadFilled, FillFailed, transfer, caller, TypeInv, TypeOK
    <3> QED BY <2>1, <3>1, <3>2, <3>3 DEF transfer, TypeInv, TypeOK
  <2>6. CallInv'
    BY <1>4, <2>1 DEF CloseDone, ReadFilled, FillFailed, transfer, caller, CallInv, TypeInv, TypeOK
  <2> QED BY <2>3, <2>4, <2>5, <2>6
<1> QED BY <1>1, <1>2, <1>3, <1>4

-----------------------------------------------------------------------------
(* Steps of the loops of buf_fill and tftp_read.                           *)

LEMMA LoopKeeps ==
  ASSUME IInv, FillEnd \/ GiveUp \/ TimeoutRequest \/ TimeoutAck
  PROVE  IInv'
<1> USE DEF IInv
<1>1. /\ UNCHANGED <<ctx, file, block, prevblock, bcounter, packetsize, buf, buf_eof,
                     saved_filepos, tp, caller, kind, oport>>
      /\ faults' = faults /\ pc = "fill"
  BY DEF FillEnd, GiveUp, TimeoutRequest, TimeoutAck, transfer, caller
<1>2. TransferInv'
  BY <1>1 DEF caller, TransferInv, Agreed, Received, BlockSize, LastBlock
<1>3. TypeInv'
  <2>1. pc' \in {"fill", "filled", "failed"}
    BY <1>1 DEF FillEnd, GiveUp, TimeoutRequest, TimeoutAck
  <2>2. retry' \in Nat
    BY Constants DEF FillEnd, GiveUp, TimeoutRequest, TimeoutAck, transfer, TypeInv, TypeOK
  <2>3. iport' \in Nat
    BY DEF FillEnd, GiveUp, TimeoutRequest, TimeoutAck, FromNewPort, TypeInv, TypeOK
  <2> QED BY <1>1, <2>1, <2>2, <2>3 DEF caller, TypeInv, TypeOK
<1>4. CallInv'
  <2>1. pc' \in {"fill", "filled", "failed"}
    BY <1>1 DEF FillEnd, GiveUp, TimeoutRequest, TimeoutAck
  <2>2. ctx = "dir" /\ pc' = "filled" /\ filemax = -1 => kind # "full"
    <3> SUFFICES ASSUME ctx = "dir", pc' = "filled", filemax = -1, kind = "full" PROVE FALSE
      OBVIOUS
    <3>1. pc = "fill" /\ ~filling /\ saved_filepos = 0
      BY DEF FillEnd, GiveUp, TimeoutRequest, TimeoutAck, CallInv
    <3>2. prevblock # 0
      <4>1. CASE buf_eof
        BY <4>1 DEF TransferInv
      <4>2. CASE ~buf_eof
        <5>1. packetsize \in Nat /\ packetsize <= TFTP_MAX_PACKET /\ Len(buf) \in Nat
          <6>1. packetsize \in {TFTP_DEFAULTSIZE_PACKET, TFTP_MAX_PACKET}
            BY Zenon DEF TypeInv, TypeOK
          <6>2. Len(buf) \in Nat
            <7>1. buf \in Seq(Files \X Nat)
              BY Zenon DEF TypeInv, TypeOK
            <7> QED BY <7>1, LenProperties
          <6> QED BY <6>1, <6>2, TftpAssumption
        <5>2. Len(buf) + packetsize > FSYS_BUFLEN
          BY <3>1, <4>2, <5>1, Constants DEF filling, TypeInv
        <5>3. Len(buf) # 0
          BY <5>1, <5>2, TftpAssumption
        <5>4. prevblock * packetsize = Len(buf) + 0
          BY <3>1, <4>2 DEF TransferInv, Received
        <5> QED BY <5>1, <5>3, <5>4
      <4> QED BY <4>1, <4>2 DEF TypeInv
    <3>3. filemax = FileLen[file]
      BY <3>2 DEF TransferInv, Agreed
    <3> QED BY <3>3, Constants DEF TypeInv
  <2> QED BY <1>1, <2>1, <2>2 DEF caller, CallInv
<1>5. NetInv'
  <2>1. CASE FillEnd \/ GiveUp
    <3>1. SamePort
      BY <1>1, <2>1, SamePortWhenUnchanged DEF FillEnd, GiveUp, caller
    <3> QED BY <2>1, <3>1, SameNet DEF FillEnd, GiveUp
  <2>2. CASE TimeoutRequest
    <3>1. iport' = iport + 1 /\ iport \in Nat
      BY <2>2 DEF TimeoutRequest, FromNewPort, TypeInv, TypeOK
    <3>2. ASSUME NEW m, m = Packet(tp, iport + 1, 0, 0, <<file>>) PROVE PacketOK(m)'
      <4>1. m.op = tp /\ m.cport = iport' /\ m.sport = 0 /\ m.block = 0 /\ m.data = <<file>>
        BY <3>1, <3>2 DEF Packet
      <4>2. tp = "ack" => Agreed'
        BY <1>2, <1>1 DEF TransferInv
      <4>3. prevblock' \in Nat /\ file' = file /\ file \in Files /\ <<file>>[1] = file
        BY <1>1 DEF TypeInv, TypeOK
      <4> QED BY <3>1, <4>1, <4>2, <4>3 DEF PacketOK, TypeInv
    <3>3. CASE net' = net /\ sessions' = sessions
      BY <1>1, <3>1, <3>3, LeftBehind DEF NetInv
    <3>4. CASE FromNewPort(tp, file)
      BY <1>1, <3>1, <3>2, <3>4, LeftBehind, FS_EmptySet DEF NetInv, FromNewPort
    <3> QED BY <2>2, <3>3, <3>4 DEF TimeoutRequest
  <2>3. CASE TimeoutAck
    <3>1. SamePort
      BY <1>1, <2>3, SamePortWhenUnchanged DEF TimeoutAck, caller
    <3>2. ASSUME NEW m, m = Packet(tp, iport, oport, block, <<>>) PROVE PacketOK(m)'
      <4>1. m.op = tp /\ m.cport = iport /\ m.sport = oport /\ m.block = block
        BY <3>2 DEF Packet
      <4>2. iport' = iport /\ iport \in Nat
        BY <2>3 DEF TimeoutAck, TypeInv, TypeOK
      <4>3. tp # "rrq"
        BY <2>3 DEF TimeoutAck, TransferInv
      <4>4. tp = "ack" => Agreed' /\ block <= prevblock'
        BY <1>1, <1>2 DEF TransferInv
      <4>5. block \in Nat /\ oport \in Nat
        BY DEF TypeInv, TypeOK
      <4> QED BY <4>1, <4>2, <4>3, <4>4, <4>5 DEF PacketOK, TypeInv
    <3>3. net' = net \cup {Packet(tp, iport, oport, block, <<>>)} /\ sessions' = sessions
      BY <2>3 DEF TimeoutAck
    <3> QED BY <3>1, <3>2, <3>3, SameNet
  <2> QED BY <2>1, <2>2, <2>3
<1> QED BY <1>2, <1>3, <1>4, <1>5

LEMMA CopyKeeps ==
  ASSUME IInv, Copy
  PROVE  IInv'
<1> USE DEF IInv
<1> DEFINE off == filepos - saved_filepos
           amt == IF Len(buf) - off > size THEN size ELSE Len(buf) - off
           half == FSYS_BUFLEN \div 2
<1>1. /\ pc = "copy" /\ ctx = "read" /\ opened /\ size \in Nat /\ size > 0
      /\ saved_filepos \in Nat /\ filepos \in Nat /\ saved_filepos <= filepos
      /\ Len(buf) \in Nat /\ buf \in Seq(Files \X Nat) /\ Len(buf) <= FSYS_BUFLEN
      /\ ret \in Seq(Files \X Nat) /\ file \in Files
      /\ filemax \in Int /\ filepos + size <= filemax
  BY DEF Copy, TypeInv, TypeOK, CallInv
<1>2. half \in Nat
  BY TftpAssumption
<1>3. Received = Len(buf) + saved_filepos /\ buf = Bytes(file, saved_filepos, Len(buf))
  <2>1. Received = Len(buf) + saved_filepos /\ buf = Bytes(file, Received - Len(buf), Len(buf))
    BY <1>1 DEF TransferInv
  <2>2. Received - Len(buf) = saved_filepos
    BY <1>1, <2>1
  <2> QED BY <2>1, <2>2
<1>4. /\ UNCHANGED <<ctx, opened, file, iport, oport, retry, block, prevblock, bcounter,
                     packetsize, buf_eof, tp, filemax, errnum, requests,
                     kind, sessions, net, faults>>
      /\ pc' = IF size' > 0 THEN "fill" ELSE "idle"
  BY DEF Copy
<1>5. /\ buf' \in Seq(Files \X Nat) /\ Len(buf') <= FSYS_BUFLEN /\ ret' \in Seq(Files \X Nat)
      /\ size' \in Nat /\ filepos' \in Nat /\ filepos' + size' = filepos + size
      /\ saved_filepos' \in Nat /\ saved_filepos' <= filepos'
      /\ Len(buf') \in Nat /\ Len(buf') + saved_filepos' = Len(buf) + saved_filepos
      /\ buf' = Bytes(file, saved_filepos', Len(buf'))
  <2>1. CASE amt > 0
    <3>1. /\ ret' = ret \o SubSeq(buf, off + 1, off + amt)
          /\ size' = size - amt /\ filepos' = filepos + amt
          /\ IF off + amt > half
             THEN /\ buf' = SubSeq(buf, half + 1, Len(buf))
                  /\ saved_filepos' = saved_filepos + half
             ELSE UNCHANGED <<buf, saved_filepos>>
      <4>1. ~(amt <= 0)
        BY <1>1, <2>1
      <4>2. \/ /\ amt > 0
               /\ ret' = ret \o SubSeq(buf, off + 1, off + amt)
               /\ size' = size - amt /\ filepos' = filepos + amt
               /\ IF off + amt > half
                  THEN /\ buf' = SubSeq(buf, half + 1, Len(buf))
                       /\ saved_filepos' = saved_filepos + half
                  ELSE UNCHANGED <<buf, saved_filepos>>
            \/ amt <= 0
        BY DEF Copy
      <4> HIDE DEF amt, off, half
      <4> QED BY <4>1, <4>2
    <3>2. off \in Nat /\ amt \in Nat /\ amt <= size /\ off + amt <= Len(buf)
      BY <1>1, <2>1
    <3>3. SubSeq(buf, off + 1, off + amt) \in Seq(Files \X Nat)
      <4> HIDE DEF off, amt
      <4>1. SubSeq(Bytes(file, saved_filepos, Len(buf)), off + 1, off + amt)
              = Bytes(file, saved_filepos + off, amt)
        <5>1. /\ file \in Files /\ saved_filepos \in Nat /\ Len(buf) \in Nat
              /\ off \in Nat /\ amt \in Nat /\ off + amt <= Len(buf)
          BY <1>1, <3>2
        <5> DEFINE i == off + 1
                   j == off + amt
                   q == saved_filepos + off
        <5>2. i = off + 1 /\ j = off + amt /\ q = saved_filepos + off
          OBVIOUS
        <5> HIDE DEF i, j, q
        <5>3. Part(Bytes(file, saved_filepos, Len(buf)), i, j) = Bytes(file, q, amt)
          BY <5>1, <5>2, BytesPart
        <5> QED BY <5>3 DEF i, j, q, Part
      <4>2. saved_filepos + off \in Nat /\ amt \in Nat
        BY <1>1, <3>2
      <4>3. Bytes(file, saved_filepos + off, amt) \in Seq(Files \X Nat)
        BY <1>1, <4>2, BytesFacts
      <4> QED BY <1>3, <4>1, <4>3
    <3> HIDE DEF off, amt, half
    <3>4. ret' \in Seq(Files \X Nat)
      BY <1>1, <3>1, <3>3, ConcatProperties
    <3>5. CASE off + amt > half
      <4> DEFINE more == Len(buf) - half
      <4>1. more \in Nat /\ half + more = Len(buf) /\ half + more <= Len(buf)
        BY <1>1, <1>2, <3>2, <3>5
      <4>2. /\ buf' = SubSeq(Bytes(file, saved_filepos, Len(buf)), half + 1, Len(buf))
            /\ saved_filepos' = saved_filepos + half
        BY <1>3, <3>1, <3>5
      <4> HIDE DEF more
      <4>3. SubSeq(Bytes(file, saved_filepos, Len(buf)), half + 1, half + more)
              = Bytes(file, saved_filepos + half, more)
        <5>1. /\ file \in Files /\ saved_filepos \in Nat /\ Len(buf) \in Nat
              /\ half \in Nat /\ more \in Nat /\ half + more <= Len(buf)
          BY <1>1, <1>2, <4>1
        <5> DEFINE i == half + 1
                   j == half + more
                   q == saved_filepos + half
        <5>2. i = half + 1 /\ j = half + more /\ q = saved_filepos + half
          OBVIOUS
        <5> HIDE DEF i, j, q
        <5>3. Part(Bytes(file, saved_filepos, Len(buf)), i, j) = Bytes(file, q, more)
          BY <5>1, <5>2, BytesPart
        <5> QED BY <5>3 DEF i, j, q, Part
      <4>4. saved_filepos' \in Nat
        BY <1>1, <1>2, <4>2
      <4>5. more = Len(buf) - half
        BY DEF more
      <4>6. buf' = Bytes(file, saved_filepos', more)
        BY <4>1, <4>2, <4>3
      <4>7. buf' \in Seq(Files \X Nat) /\ Len(buf') = more
        BY <1>1, <4>1, <4>4, <4>6, BytesFacts
      <4>8. off = filepos - saved_filepos
        BY DEF off
      <4>9. buf' = Bytes(file, saved_filepos', Len(buf'))
        BY <4>6, <4>7
      <4>10. Len(buf') <= FSYS_BUFLEN /\ Len(buf') + saved_filepos' = Len(buf) + saved_filepos
        <5>1. /\ Len(buf) \in Nat /\ Len(buf) <= FSYS_BUFLEN /\ FSYS_BUFLEN \in Nat
              /\ saved_filepos \in Nat /\ half \in Nat /\ more \in Nat /\ half + more = Len(buf)
          BY <1>1, <1>2, <4>1, Constants
        <5>2. saved_filepos' = saved_filepos + half /\ Len(buf') = more
          BY <4>2, <4>7
        <5> QED BY <5>1, <5>2
      <4>11. /\ size' \in Nat /\ filepos' \in Nat /\ filepos' + size' = filepos + size
             /\ saved_filepos' <= filepos'
        BY <1>1, <1>2, <3>1, <3>2, <3>5, <4>2, <4>8
      <4> QED BY <3>4, <4>1, <4>4, <4>7, <4>9, <4>10, <4>11
    <3>6. CASE ~(off + amt > half)
      <4>1. buf' = buf /\ saved_filepos' = saved_filepos
        BY <3>1, <3>6
      <4> QED BY <1>1, <1>3, <3>1, <3>2, <3>4, <4>1
    <3> QED BY <3>5, <3>6
  <2>2. CASE ~(amt > 0)
    <3>1. saved_filepos' = saved_filepos + Len(buf) /\ buf' = <<>> /\ UNCHANGED <<ret, size, filepos>>
      BY <2>2 DEF Copy
    <3>2. Len(buf) - off <= 0
      BY <1>1, <2>2
    <3>3. saved_filepos + Len(buf) <= filepos
      BY <1>1, <3>2
    <3>4. Bytes(file, saved_filepos', 0) = <<>> /\ Len(<<>>) = 0 /\ <<>> \in Seq(Files \X Nat)
      BY NoBytes, Constants
    <3>5. buf' \in Seq(Files \X Nat) /\ Len(buf') = 0 /\ buf' = Bytes(file, saved_filepos', 0)
      BY <3>1, <3>4
    <3> HIDE DEF off, amt, half
    <3> QED BY <1>1, <3>1, <3>3, <3>5, Constants
  <2> QED BY <2>1, <2>2
<1> HIDE DEF off, amt, half
<1>6. TypeInv'
  <2>1. pc' \in {"fill", "idle"}
    BY <1>4
  <2> QED BY <1>4, <1>5, <2>1 DEF TypeInv, TypeOK
<1>7. NetInv'
  <2>1. SamePort
    BY <1>4, SamePortWhenUnchanged
  <2> QED BY <1>4, <2>1, SameNet
<1>8. TransferInv'
  <2>1. Received' = Received
    BY <1>4 DEF Received
  <2>2. Agreed <=> Agreed'
    BY <1>4 DEF Agreed, BlockSize
  <2>3. LastBlock(file)' = LastBlock(file)
    BY <1>4 DEF LastBlock, BlockSize
  <2>4. Received' = Len(buf') + saved_filepos'
    BY <1>3, <1>5, <2>1
  <2>5. Received' - Len(buf') = saved_filepos'
    BY <1>5, <2>4
  <2>6. buf' = Bytes(file', Received' - Len(buf'), Len(buf'))
    BY <1>4, <1>5, <2>5
  <2> QED BY <1>1, <1>4, <2>2, <2>3, <2>4, <2>6 DEF TransferInv
<1>9. CallInv'
  <2>1. filemax' = FileLen[file'] /\ filepos' + size' <= filemax'
    BY <1>1, <1>4, <1>5 DEF CallInv
  <2>2. size' > 0 \/ (size' = 0 /\ pc' = "idle")
    BY <1>4, <1>5
  <2> QED BY <1>1, <1>4, <1>5, <2>1, <2>2 DEF CallInv
<1> QED BY <1>6, <1>7, <1>8, <1>9

-----------------------------------------------------------------------------
(* Packets that arrive.                                                    *)

LEMMA EndKeeps ==
  ASSUME IInv, NEW m \in net, NEW rest \in {net, net \ {m}},
         ReceiveEnd(m, rest) \/ ReceiveIgnored(m, rest)
  PROVE  IInv'
<1> USE DEF IInv
<1>1. /\ UNCHANGED <<ctx, iport, oport, transfer, caller, errnum, kind, sessions>>
      /\ faults' \in Nat /\ pc = "fill" /\ pc' \in {"fill", "filled", "failed"}
      /\ tp' \in {tp, "error"}
  BY DEF ReceiveEnd, ReceiveIgnored, Receive, client, transfer, caller, TypeInv
<1>2. TypeInv'
  BY <1>1 DEF TypeInv, TypeOK, transfer, caller
<1>3. Agreed' <=> Agreed
  BY <1>1 DEF Agreed, BlockSize, transfer, caller
<1>4. TransferInv'
  BY <1>1, <1>3 DEF TransferInv, Received, BlockSize, LastBlock, transfer, caller
<1>5. CallInv'
  <2>1. pc' = "filled" => kind # "full"
    <3>1. PacketOK(m)
      BY DEF NetInv
    <3>2. pc' = "filled" => m.op = "other"
      BY <1>1 DEF ReceiveEnd, ReceiveIgnored, client
    <3> QED BY <3>1, <3>2 DEF PacketOK
  <2> QED BY <1>1, <2>1 DEF CallInv, transfer, caller
<1>6. NetInv'
  <2>1. SamePort
    BY <1>1, SamePortWhenUnchanged DEF transfer, caller
  <2>2. ASSUME NEW e, e = Packet("error", iport, m.sport, 0, <<>>) PROVE PacketOK(e)'
    <3>1. m.sport \in Nat
      BY DEF NetInv, PacketOK
    <3> QED BY <1>1, <2>2, <3>1 DEF PacketOK, Packet, TypeInv, TypeOK
  <2>3. net' \subseteq net \cup {Packet("error", iport, m.sport, 0, <<>>)}
    BY DEF ReceiveEnd, ReceiveIgnored
  <2> QED BY <1>1, <2>1, <2>2, <2>3, SameNet
<1> QED BY <1>2, <1>4, <1>5, <1>6

LEMMA OackKeeps ==
  ASSUME IInv, NEW m \in net, NEW rest \in {net, net \ {m}}, ReceiveOack(m, rest)
  PROVE  IInv'
<1> USE DEF IInv
<1>1. /\ pc = "fill" /\ filling /\ m.op = "oack" /\ m.cport = iport /\ prevblock = 0
      /\ filemax' = IF m.data # <<>> THEN m.data[1] ELSE filemax
      /\ Accept(m, rest, 0, TFTP_MAX_PACKET)
  BY DEF ReceiveOack
<1>2. kind \in {"blksize", "full"} /\ m.data = IF kind = "full" THEN <<FileLen[file]>> ELSE <<>>
  BY <1>1 DEF NetInv, PacketOK
<1>3. filemax' = IF kind = "full" THEN FileLen[file] ELSE filemax
  BY <1>1, <1>2
<1>4. ~bcounter /\ file \in Files /\ FileLen[file] \in Nat
  BY <1>1, Constants DEF TransferInv, TypeInv
<1>5. (0 - 0) % BlockNumbers # 1
  BY TftpAssumption
<1>6. /\ UNCHANGED <<ctx, opened, file, iport, saved_filepos, filepos, size, ret, errnum, requests,
                     kind, sessions, retry, prevblock, bcounter, buf>>
      /\ block' = 0 /\ packetsize' = TFTP_MAX_PACKET /\ oport' = m.sport
      /\ tp' = IF abort THEN "error" ELSE "ack"
      /\ net' = rest \cup {Packet(tp', iport, m.sport, 0, <<>>)}
      /\ faults' \in Nat
      /\ IF abort THEN buf_eof' = TRUE /\ pc' = "filled" ELSE buf_eof' = buf_eof /\ pc' = pc
  BY <1>1, <1>4, <1>5 DEF Accept, Receive, TypeInv
<1>7. Agreed'
  BY <1>2, <1>3, <1>6 DEF Agreed, BlockSize
<1>8. TypeInv'
  <2>1. oport' \in Nat
    BY <1>6 DEF NetInv, PacketOK
  <2>2. /\ filemax' \in Nat \cup {-1} /\ block' \in 0 .. BlockNumbers - 1
        /\ buf_eof' \in BOOLEAN /\ tp' \in {"rrq", "ack", "error"}
        /\ pc' \in {"fill", "filled"}
    BY <1>1, <1>3, <1>4, <1>6, Constants DEF TypeInv, TypeOK
  <2> QED BY <1>6, <2>1, <2>2 DEF TypeInv, TypeOK
<1>9. NetInv'
  <2>1. SamePort
    <3>1. prevblock < BlockNumbers
      BY <1>1, TftpAssumption
    <3> QED BY <1>6, <1>7, <3>1 DEF SamePort
  <2>2. ASSUME NEW e, e = Packet(tp', iport, m.sport, 0, <<>>) PROVE PacketOK(e)'
    <3>1. m.sport \in Nat /\ iport \in Nat /\ prevblock' = 0
      BY <1>1, <1>6 DEF NetInv, PacketOK, TypeInv, TypeOK
    <3> QED BY <1>6, <1>7, <2>2, <3>1 DEF PacketOK, Packet
  <2>3. net' \subseteq net \cup {Packet(tp', iport, m.sport, 0, <<>>)}
    BY <1>6
  <2> QED BY <1>6, <2>1, <2>2, <2>3, SameNet
<1>10. TransferInv'
  <2>1. tp' # "rrq" /\ block' = 0 /\ prevblock' = 0 /\ (tp' = "ack" => Agreed')
    BY <1>1, <1>6, <1>7
  <2>2. bcounter' = FALSE /\ kind' \in {"blksize", "full"}
    BY <1>2, <1>4, <1>6
  <2>3. ctx' \in {"dir", "sizing", "read"} =>
          /\ buf_eof' = FALSE /\ buf' = <<>> /\ 0 < LastBlock(file)'
          /\ 0 = IF ctx' = "sizing" THEN filemax' ELSE saved_filepos'
    <3> SUFFICES ASSUME ctx' \in {"dir", "sizing", "read"}
                 PROVE  /\ buf_eof' = FALSE /\ buf' = <<>> /\ 0 < LastBlock(file)'
                        /\ 0 = IF ctx' = "sizing" THEN filemax' ELSE saved_filepos'
      OBVIOUS
    <3>1. buf_eof' = FALSE /\ buf_eof = FALSE
      BY <1>1, <1>6 DEF filling, abort, TypeInv
    <3>2. LastBlock(file)' = LastBlock(file) /\ LastBlock(file) \in Nat /\ LastBlock(file) # 0
      BY <1>4, <1>6, BlockSizeFact DEF LastBlock, BlockSize
    <3>3. packetsize \in Nat /\ Len(buf) \in Nat /\ saved_filepos \in Nat /\ buf \in Seq(Files \X Nat)
      BY TftpAssumption DEF TypeInv, TypeOK
    <3>4. 0 = Len(buf) + (IF ctx = "sizing" THEN filemax ELSE saved_filepos)
      BY <1>1, <1>6, <3>1, <3>3 DEF TransferInv, Received
    <3>5. ctx = "sizing" => filemax \in Nat /\ filemax' = filemax
      BY <1>3 DEF CallInv
    <3>6. Len(buf) = 0 /\ 0 = IF ctx = "sizing" THEN filemax ELSE saved_filepos
      BY <3>3, <3>4, <3>5
    <3>7. buf = <<>>
      BY <3>3, <3>6, EmptySeq
    <3>8. 0 < LastBlock(file)'
      BY <1>6, <3>2
    <3>9. 0 = IF ctx' = "sizing" THEN filemax' ELSE saved_filepos'
      BY <1>6, <3>5, <3>6
    <3> QED BY <1>6, <3>1, <3>7, <3>8, <3>9
  <2>4. ctx' \in {"dir", "sizing", "read"} => Received' = 0
    BY <1>6, <2>1, <2>3, TftpAssumption DEF Received
  <2>5. Bytes(file', 0, 0) = <<>> /\ Len(<<>>) = 0
    BY NoBytes
  <2>6. ctx' \in {"dir", "sizing", "read"} =>
          /\ Received' = Len(buf') + (IF ctx' = "sizing" THEN filemax' ELSE saved_filepos')
          /\ buf' = Bytes(file', Received' - Len(buf'), Len(buf'))
    BY <2>3, <2>4, <2>5
  <2> QED BY <2>1, <2>2, <2>3, <2>6 DEF TransferInv
<1>11. CallInv'
  <2>1. pc' = "filled" => ctx' \in {"reopen", "close"}
    BY <1>1, <1>6 DEF abort
  <2>2. filemax' \in {filemax, FileLen[file]}
    BY <1>3
  <2>3. opened => filemax' = filemax
    BY <1>3 DEF CallInv
  <2>4. ctx = "sizing" => filemax' = filemax
    BY <1>3 DEF CallInv
  <2> QED BY <1>1, <1>4, <1>6, <2>1, <2>2, <2>3, <2>4 DEF CallInv
<1> QED BY <1>8, <1>9, <1>10, <1>11

LEMMA DataKeeps ==
  ASSUME IInv, NEW m \in net, NEW rest \in {net, net \ {m}}, ReceiveData(m, rest)
  PROVE  IInv'
<1> USE DEF IInv
<1> DEFINE b == m.block
           bb == IF (b # 0 \/ bcounter) /\ b # prevblock + 1 THEN prevblock ELSE b
<1>1. /\ pc = "fill" /\ filling /\ m.op = "data" /\ m.cport = iport /\ Len(m.data) <= packetsize
      /\ Accept(m, rest, b, packetsize) /\ filemax' = filemax
  BY DEF ReceiveData
<1>2. Agreed /\ m.sport \in Nat /\ iport \in Nat
  BY <1>1 DEF NetInv, PacketOK, TypeInv, TypeOK
<1>3. PICK n \in 1 .. LastBlock(file) :
        InReach(n) /\ m.block = n % BlockNumbers /\ m.data = BlockData(file, n)
  BY <1>1 DEF NetInv, PacketOK
<1>4. /\ file \in Files /\ prevblock \in 0 .. BlockNumbers - 1 /\ BlockNumbers \in Nat
      /\ bcounter \in BOOLEAN /\ (bcounter <=> prevblock # 0) /\ buf_eof = FALSE
  BY <1>1, Constants DEF TypeInv, TypeOK, TransferInv, filling
<1>5. n \in Nat /\ b \in 0 .. BlockNumbers - 1 /\ (b = prevblock + 1 => n = prevblock + 1)
  <2>1. n \in Nat
    OBVIOUS
  <2> QED BY <1>3, <2>1, NextInReach
<1>6. /\ bb \in 0 .. BlockNumbers - 1
      /\ (bb - prevblock) % BlockNumbers = 1 => bb = prevblock + 1 /\ b = prevblock + 1
      /\ (bb - prevblock) % BlockNumbers # 1 => bb <= prevblock
  BY <1>4, <1>5, NextBlock
<1>7. /\ UNCHANGED <<ctx, opened, file, iport, saved_filepos, filepos, size, ret, errnum, requests,
                     kind, sessions, packetsize, filemax>>
      /\ block' = bb /\ oport' = m.sport
      /\ tp' = IF abort THEN "error" ELSE "ack"
      /\ net' = rest \cup {Packet(tp', iport, m.sport, bb, <<>>)}
      /\ faults' \in Nat
  BY <1>1 DEF Accept, Receive, TypeInv
<1>8. Agreed' /\ LastBlock(file)' = LastBlock(file)
  BY <1>2, <1>7 DEF Agreed, BlockSize, LastBlock
<1>9. \/ /\ abort /\ buf_eof' = TRUE /\ pc' = "filled"
         /\ UNCHANGED <<retry, prevblock, bcounter, buf>>
      \/ /\ ~abort /\ (bb - prevblock) % BlockNumbers # 1
         /\ UNCHANGED <<pc, retry, prevblock, bcounter, buf, buf_eof>>
      \/ /\ ~abort /\ (bb - prevblock) % BlockNumbers = 1
         /\ prevblock' = bb /\ retry' = 0 /\ bcounter' = TRUE
         /\ buf' = buf \o m.data
         /\ buf_eof' = (Len(m.data) < packetsize)
         /\ pc' = pc
  BY <1>1 DEF Accept
<1> HIDE DEF b, bb
(* The bytes of the next block are those that follow in the file.          *)
<1>10. ASSUME prevblock' = n, prevblock' = prevblock + 1, ~abort, buf' = buf \o m.data,
              buf_eof' = (Len(m.data) < packetsize)
       PROVE  /\ buf' \in Seq(Files \X Nat) /\ Len(buf') <= FSYS_BUFLEN
              /\ ~buf_eof' => prevblock' < LastBlock(file)
              /\ Received' = Len(buf') + (IF ctx = "sizing" THEN filemax ELSE saved_filepos)
              /\ buf' = Bytes(file, Received' - Len(buf'), Len(buf'))
  <2> DEFINE len == IF n = LastBlock(file) THEN FileLen[file] - (n - 1) * BlockSize ELSE BlockSize
             at == prevblock * packetsize
             have == Len(buf)
             from == IF ctx = "sizing" THEN filemax ELSE saved_filepos
  <2>1. /\ len \in Nat /\ (len < packetsize <=> n = LastBlock(file))
        /\ m.data = Bytes(file, at, len) /\ at \in Nat
        /\ m.data \in Seq(Files \X Nat) /\ Len(m.data) = len
    <3>1. n - 1 = prevblock /\ packetsize = BlockSize
      BY <1>2, <1>4, <1>10 DEF Agreed
    <3> QED BY <1>3, <1>4, <3>1, DataFacts DEF TypeInv
  <2>2. n = LastBlock(file) => FileLen[file] = at + len
    <3>1. n - 1 = prevblock /\ packetsize = BlockSize
      BY <1>2, <1>4, <1>10 DEF Agreed
    <3>2. FileLen[file] \in Nat
      BY <1>4, Constants
    <3> HIDE DEF at
    <3> QED BY <2>1, <3>1, <3>2 DEF at
  <2>3. n # LastBlock(file) => len = packetsize
    BY <1>2 DEF Agreed
  <2>4. packetsize \in Nat /\ prevblock' * packetsize = at + packetsize
    <3>1. packetsize \in Nat /\ prevblock \in Nat
      BY <1>4, TftpAssumption DEF TypeInv, TypeOK
    <3>2. (prevblock + 1) * packetsize = prevblock * packetsize + packetsize
      BY <3>1
    <3> QED BY <1>10, <3>1, <3>2
  <2> HIDE DEF at, len
  <2>5. ctx \in {"dir", "sizing", "read"}
    BY <1>10 DEF abort, TypeInv, TypeOK
  <2>6. have \in Nat /\ buf \in Seq(Files \X Nat) /\ from \in Int
    BY DEF TypeInv, TypeOK
  <2>7. at = have + from /\ buf = Bytes(file, at - have, have)
    BY <1>4, <2>5 DEF TransferInv, Received, at
  <2>8. from \in Nat
    <3>1. ctx = "sizing" => filemax \in Nat
      BY DEF CallInv
    <3>2. saved_filepos \in Nat
      BY DEF TypeInv, TypeOK
    <3> QED BY <3>1, <3>2
  <2> HIDE DEF have, from
  <2>9. buf' = Bytes(file, from, have + len)
    <3>1. at - have = from /\ from + have = at
      BY <2>6, <2>7, <2>8
    <3>2. buf = Bytes(file, from, have) /\ m.data = Bytes(file, from + have, len)
      BY <2>1, <2>7, <3>1
    <3>3. Bytes(file, from, have) \o Bytes(file, from + have, len) = Bytes(file, from, have + len)
      <4>1. file \in Files /\ from \in Nat /\ have \in Nat /\ len \in Nat
        BY <1>4, <2>1, <2>6, <2>8
      <4> QED BY <4>1, BytesJoin, Zenon
    <3> QED BY <1>10, <3>2, <3>3
  <2>10. buf' \in Seq(Files \X Nat) /\ Len(buf') = have + len
    <3>1. have + len \in Nat
      BY <2>1, <2>6
    <3> QED BY <1>4, <2>8, <2>9, <3>1, BytesFacts
  <2>11. Len(buf') <= FSYS_BUFLEN
    <3>1. have + packetsize <= FSYS_BUFLEN
      BY <1>1 DEF filling, have
    <3>2. len <= packetsize
      BY <1>1, <2>1
    <3> QED BY <2>1, <2>4, <2>6, <2>10, <3>1, <3>2, Constants
  <2>12. buf_eof' <=> n = LastBlock(file)
    BY <1>10, <2>1
  <2>13. Received' = at + len
    <3>1. file' = file /\ packetsize' = packetsize
      BY <1>7
    <3>2. CASE n = LastBlock(file)
      BY <2>2, <2>12, <3>1, <3>2 DEF Received
    <3>3. CASE n # LastBlock(file)
      BY <2>3, <2>4, <2>12, <3>1, <3>3 DEF Received
    <3> QED BY <3>2, <3>3
  <2>14. ~buf_eof' => prevblock' < LastBlock(file)
    <3>1. LastBlock(file) \in Nat
      BY <1>4, BlockSizeFact
    <3> QED BY <1>10, <2>12, <3>1
  <2>15. Received' = Len(buf') + from /\ Received' - Len(buf') = from
    BY <2>1, <2>6, <2>7, <2>8, <2>10, <2>13
  <2>16. buf' = Bytes(file, Received' - Len(buf'), Len(buf'))
    BY <2>9, <2>10, <2>15
  <2> QED BY <2>10, <2>11, <2>14, <2>15, <2>16 DEF from
<1>11. ~abort /\ (bb - prevblock) % BlockNumbers = 1 =>
         /\ prevblock' = n /\ prevblock' = prevblock + 1 /\ buf' = buf \o m.data
         /\ buf_eof' = (Len(m.data) < packetsize)
  BY <1>5, <1>6, <1>9
<1>12. TypeInv'
  <2>1. oport' \in Nat /\ block' \in 0 .. BlockNumbers - 1 /\ prevblock' \in 0 .. BlockNumbers - 1
    BY <1>2, <1>4, <1>6, <1>7, <1>9
  <2>2. buf' \in Seq(Files \X Nat) /\ Len(buf') <= FSYS_BUFLEN
    BY <1>9, <1>10, <1>11 DEF TypeInv, TypeOK
  <2>3. retry' \in Nat /\ pc' \in {"fill", "filled"} /\ tp' \in {"error", "ack"}
    BY <1>1, <1>7, <1>9 DEF TypeInv, TypeOK
  <2>4. bcounter' \in BOOLEAN
    BY <1>9 DEF TypeInv
  <2>5. buf_eof' \in BOOLEAN
    <3>1. (Len(m.data) < packetsize) \in BOOLEAN
      OBVIOUS
    <3> QED BY <1>9, <3>1, Zenon DEF TypeInv
  <2> QED BY <1>7, <2>1, <2>2, <2>3, <2>4, <2>5 DEF TypeInv, TypeOK
<1>13. prevblock' \in Nat /\ prevblock' \in {prevblock, prevblock + 1} /\ (bb <= prevblock' \/ abort)
  BY <1>4, <1>6, <1>9
<1>14. NetInv'
  <2>1. SamePort
    <3>1. prevblock' \in {prevblock, prevblock + 1} /\ prevblock' < BlockNumbers
      BY <1>4, <1>6, <1>9
    <3> QED BY <1>7, <1>8, <3>1 DEF SamePort
  <2>2. ASSUME NEW e, e = Packet(tp', iport, m.sport, bb, <<>>) PROVE PacketOK(e)'
    <3>1. tp' = "ack" => bb <= prevblock' /\ bb \in Nat
      BY <1>4, <1>6, <1>7, <1>9
    <3>2. tp' \in {"ack", "error"}
      BY <1>7
    <3> QED BY <1>2, <1>7, <1>8, <2>2, <3>1, <3>2 DEF PacketOK, Packet
  <2>3. net' \subseteq net \cup {Packet(tp', iport, m.sport, bb, <<>>)}
    BY <1>7
  <2> QED BY <1>7, <2>1, <2>2, <2>3, SameNet
<1>15. TransferInv'
  <2>1. kind' \notin {"blksize", "full"} => packetsize' = TFTP_DEFAULTSIZE_PACKET
    BY <1>7 DEF TransferInv
  <2>2. bcounter' <=> prevblock' # 0
    BY <1>4, <1>6, <1>9
  <2>3. tp' # "rrq" /\ (tp' = "ack" => block' <= prevblock')
    BY <1>4, <1>6, <1>7, <1>9
  <2>4. ASSUME ctx' \in {"dir", "sizing", "read"}
        PROVE  /\ ~buf_eof' => prevblock' < LastBlock(file)
               /\ buf_eof' => prevblock' # 0
               /\ Received' = Len(buf') + (IF ctx = "sizing" THEN filemax ELSE saved_filepos)
               /\ buf' = Bytes(file, Received' - Len(buf'), Len(buf'))
    <3>1. ~abort
      BY <1>7, <2>4 DEF abort
    <3>2. CASE (bb - prevblock) % BlockNumbers # 1
      <4>1. UNCHANGED <<prevblock, buf, buf_eof>>
        BY <1>9, <3>1, <3>2
      <4>2. Received' = Received
        BY <1>7, <4>1 DEF Received
      <4> QED BY <1>7, <2>4, <4>1, <4>2 DEF TransferInv
    <3>3. CASE (bb - prevblock) % BlockNumbers = 1
      <4>1. prevblock' # 0
        BY <1>4, <1>11, <3>1, <3>3
      <4> QED BY <1>10, <1>11, <3>1, <3>3, <4>1
    <3> QED BY <3>2, <3>3
  <2> QED BY <1>7, <1>8, <2>1, <2>2, <2>3, <2>4 DEF TransferInv
<1>16. CallInv'
  <2>1. pc' = "filled" => ctx \in {"reopen", "close"}
    BY <1>1, <1>9 DEF abort
  <2>2. pc' \in {"fill", "filled"}
    BY <1>1, <1>9
  <2> QED BY <1>1, <1>7, <2>1, <2>2 DEF CallInv
<1> QED BY <1>12, <1>14, <1>15, <1>16

-----------------------------------------------------------------------------
LEMMA InitHolds ==
  ASSUME Init
  PROVE  IInv
<1>1. TypeInv
  <2>1. buf \in Seq(Files \X Nat) /\ Len(buf) <= FSYS_BUFLEN /\ ret \in Seq(Files \X Nat)
    BY Constants DEF Init
  <2>2. block \in 0 .. BlockNumbers - 1 /\ prevblock \in 0 .. BlockNumbers - 1
    BY Constants DEF Init
  <2>3. kind \in Kinds
    BY TftpAssumption DEF Init
  <2>4. /\ {saved_filepos, filepos, size, iport, oport, retry} \subseteq Nat
        /\ filemax \in Nat \cup {-1} /\ requests \in Nat /\ faults \in Nat
    BY DEF Init
  <2>5. /\ opened \in BOOLEAN /\ buf_eof \in BOOLEAN /\ bcounter \in BOOLEAN
        /\ file \in Files /\ tp \in {"rrq", "ack", "error"}
        /\ packetsize \in {TFTP_DEFAULTSIZE_PACKET, TFTP_MAX_PACKET}
    BY DEF Init
  <2>6. pc = "idle" /\ ctx = "close"
    BY DEF Init
  <2> QED BY <2>1, <2>2, <2>3, <2>4, <2>5, <2>6 DEF TypeInv, TypeOK
<1>2. NetInv
  BY FS_EmptySet DEF Init, NetInv
<1>3. TransferInv /\ CallInv
  BY DEF Init, TransferInv, CallInv
<1> QED BY <1>1, <1>2, <1>3 DEF IInv

LEMMA Unchanged ==
  ASSUME IInv, UNCHANGED vars
  PROVE  IInv'
<1>1. UNCHANGED <<client, kind>> /\ net' = net /\ sessions' = sessions /\ faults' = faults
  BY DEF vars
<1>2. faults' \in Nat /\ IsFiniteSet(sessions')
  BY <1>1 DEF IInv, TypeInv, NetInv
<1> QED BY <1>1, <1>2, NetKept DEF IInv, NetInv

(* Whatever happens, the transfer stays in order.                          *)
LEMMA StepKeeps ==
  ASSUME IInv, [Next]_vars
  PROVE  IInv'
<1>1. CASE Step
  BY <1>1, LoopKeeps, CallersKeep, CopyKeeps, EndKeeps, OackKeeps, DataKeeps DEF Step, Arrival
<1>2. CASE User
  BY <1>2, UserKeeps
<1>3. CASE Environment
  BY <1>3, EnvironmentKeeps
<1>4. CASE UNCHANGED vars
  BY <1>4, Unchanged
<1> QED BY <1>1, <1>2, <1>3, <1>4 DEF Next

(* In every state the client, the packets in flight and the transfers of   *)
(* the server agree on what has been sent, acknowledged and stored         *)
(* (buf_fill and its callers, fsys_tftp.c).                                *)
THEOREM TransfersInOrder == Spec => []IInv
<1>1. Init => IInv
  BY InitHolds
<1>2. IInv /\ [Next]_vars => IInv'
  BY StepKeeps
<1> QED BY <1>1, <1>2, PTL DEF Spec

(* Whatever the network loses, repeats and reorders, the bytes stored are  *)
(* those of the file, in order and inside the buffer, and no block is      *)
(* acknowledged before it is stored (buf_fill, fsys_tftp.c).               *)
THEOREM FileIsStored == Spec => []StoredIsFile
<1>1. IInv => StoredIsFile
  <2> SUFFICES ASSUME IInv PROVE StoredIsFile
    OBVIOUS
  <2> USE DEF IInv
  <2>1. TypeOK
    BY DEF TypeInv
  <2>2. BufferIsFile
    <3> SUFFICES ASSUME ctx \in {"dir", "read"}
                 PROVE  /\ buf = Bytes(file, saved_filepos, Len(buf))
                        /\ buf_eof => saved_filepos + Len(buf) = FileLen[file]
      BY DEF BufferIsFile
    <3>1. Len(buf) \in Nat /\ saved_filepos \in Nat
      BY DEF TypeInv, TypeOK
    <3>2. Received = Len(buf) + saved_filepos /\ buf = Bytes(file, Received - Len(buf), Len(buf))
      BY DEF TransferInv
    <3>3. Received - Len(buf) = saved_filepos /\ Received = saved_filepos + Len(buf)
      BY <3>1, <3>2
    <3> QED BY <3>2, <3>3 DEF Received
  <2>3. AckedIsStored
    BY DEF AckedIsStored, NetInv, PacketOK
  <2> QED BY <2>1, <2>2, <2>3 DEF StoredIsFile
<1> QED BY <1>1, TransfersInOrder, PTL

-----------------------------------------------------------------------------
(* The driver implements FileService.                                      *)

(* What the user sees of the client.                                       *)
LEMMA StateFacts ==
  ASSUME IInv
  PROVE  /\ pc = "idle" /\ opened => state = "open"
         /\ pc = "idle" /\ ~opened => state = "closed"
         /\ ctx = "close" => state = "closed" /\ ~opened
         /\ pc # "idle" /\ ctx \in {"dir", "sizing"} => state = "opening" /\ ~opened
         /\ pc # "idle" /\ ctx \in {"read", "reopen"} => state = "reading" /\ opened
         /\ state \in {"open", "reading"} <=> opened
<1>1. /\ ctx \in {"dir", "sizing", "read", "reopen", "close"} /\ opened \in BOOLEAN
      /\ ctx \in {"reopen", "read"} /\ pc # "idle" => opened
      /\ ctx \in {"dir", "sizing"} /\ pc # "idle" => ~opened
      /\ opened => ctx \in {"dir", "read"} \/ (ctx = "reopen" /\ pc # "idle")
  BY DEF IInv, TypeInv, TypeOK, CallInv
<1> QED BY <1>1 DEF state

(* A step inside a call, or of the server or the network.                  *)
LEMMA Inside ==
  ASSUME IInv, IInv', UNCHANGED <<opened, file, filepos, size, ret>>,
         opened => filemax' = filemax,
         \/ pc # "idle" /\ pc' # "idle"
         \/ pc = "idle" /\ pc' = "idle"
         \/ ctx = "close",
         \/ ctx' = ctx
         \/ {ctx, ctx'} \subseteq {"dir", "sizing"}
         \/ {ctx, ctx'} \subseteq {"read", "reopen"}
  PROVE  UNCHANGED File!vars
<1>1. state' = state
  <2>1. state = IF pc = "idle" \/ ctx = "close" THEN IF opened THEN "open" ELSE "closed"
                ELSE IF ctx \in {"dir", "sizing"} THEN "opening" ELSE "reading"
    BY StateFacts DEF IInv, TypeInv, TypeOK
  <2>2. state' = IF pc' = "idle" \/ ctx' = "close" THEN IF opened' THEN "open" ELSE "closed"
                 ELSE IF ctx' \in {"dir", "sizing"} THEN "opening" ELSE "reading"
    BY DEF IInv, TypeInv, TypeOK, state
  <2> QED BY <2>1, <2>2
<1>2. state \in {"open", "reading"} <=> opened
  BY StateFacts
<1> QED BY <1>1, <1>2 DEF File!vars

LEMMA UserServed ==
  ASSUME IInv, IInv', User
  PROVE  [File!Next]_File!vars
<1>1. ASSUME NEW f \in Files, tftp_dir(f) PROVE File!Open
  <2>1. state = "closed" /\ ~opened /\ size = 0 /\ ret = <<>> /\ opened' = opened
    BY <1>1, StateFacts DEF tftp_dir, IInv, CallInv
  <2>2. /\ filepos' = 0 /\ file' = f /\ size' = 0 /\ ret' = <<>> /\ ctx' = "dir"
        /\ pc' \in {"idle", "fill"}
    BY <1>1, <2>1 DEF tftp_dir, send_rrq
  <2>3. state' \in {"opening", "closed"}
    BY <2>1, <2>2 DEF state
  <2> QED BY <2>1, <2>2, <2>3 DEF File!Open
<1>2. ASSUME grub_seek PROVE File!Seek
  <2>1. state = "open" /\ opened /\ filemax \in Int
    BY <1>2, StateFacts DEF grub_seek, IInv, TypeInv, TypeOK
  <2>2. /\ filepos' \in 0 .. filemax
        /\ UNCHANGED <<pc, ctx, opened, file, filemax, size, ret>>
    BY <1>2, <2>1, TftpAssumption DEF grub_seek
  <2>3. state' = state
    BY <2>2 DEF state
  <2> QED BY <2>1, <2>2, <2>3 DEF File!Seek
<1>3. ASSUME NEW n \in ReadSizes, tftp_read(n) PROVE File!Read
  <2>1. state = "open" /\ opened /\ filemax \in Int /\ filepos \in Nat
    BY <1>3, StateFacts DEF tftp_read, IInv, TypeInv, TypeOK
  <2>2. size' \in 1 .. filemax - filepos
    BY <1>3, <2>1, TftpAssumption DEF tftp_read
  <2>3. /\ ctx' \in {"read", "reopen"} /\ pc' # "idle" /\ ret' = <<>>
        /\ UNCHANGED <<opened, file, filemax, filepos>>
    BY <1>3 DEF tftp_read
  <2>4. state' = "reading"
    BY <2>3 DEF state
  <2> QED BY <2>1, <2>2, <2>3, <2>4 DEF File!Read
<1>4. ASSUME tftp_close PROVE File!Close
  <2>1. state = "open"
    BY <1>4, StateFacts DEF tftp_close
  <2>2. state' = "closed" /\ size' = 0 /\ ret' = <<>> /\ UNCHANGED <<file, filepos>>
    BY <1>4 DEF tftp_close, state
  <2> QED BY <2>1, <2>2 DEF File!Close
<1> QED BY <1>1, <1>2, <1>3, <1>4 DEF User, File!Next

(* A copy out of the buffer delivers the next bytes of the file.           *)
LEMMA CopyServed ==
  ASSUME IInv, IInv', Copy
  PROVE  [File!Next]_File!vars
<1> DEFINE off == filepos - saved_filepos
           amt == IF Len(buf) - off > size THEN size ELSE Len(buf) - off
<1>1. /\ pc = "copy" /\ ctx = "read" /\ opened /\ size \in Nat /\ size > 0
      /\ saved_filepos \in Nat /\ filepos \in Nat /\ saved_filepos <= filepos
      /\ Len(buf) \in Nat /\ file \in Files
      /\ ctx' = ctx /\ UNCHANGED <<opened, file, filemax>>
      /\ pc' = IF size' > 0 THEN "fill" ELSE "idle"
  BY DEF Copy, IInv, TypeInv, TypeOK, CallInv
<1>2. \/ /\ amt > 0
         /\ ret' = ret \o SubSeq(buf, off + 1, off + amt)
         /\ size' = size - amt /\ filepos' = filepos + amt
      \/ amt <= 0 /\ UNCHANGED <<ret, size, filepos>>
  BY DEF Copy
<1>3. off \in Nat /\ amt \in Int /\ amt <= size /\ off + amt <= Len(buf) /\ saved_filepos + off = filepos
  BY <1>1
<1>4. state = "reading"
  BY <1>1, StateFacts
<1> HIDE DEF off, amt
<1>5. CASE amt > 0
  <2>1. amt \in 1 .. size /\ amt \in Nat
    BY <1>1, <1>3, <1>5
  <2>2. SubSeq(buf, off + 1, off + amt) = Bytes(file, filepos, amt)
    <3> DEFINE i == off + 1
               j == off + amt
    <3>1. i = off + 1 /\ j = off + amt /\ filepos = saved_filepos + off
      BY <1>3
    <3> HIDE DEF i, j
    <3>2. Part(Bytes(file, saved_filepos, Len(buf)), i, j) = Bytes(file, filepos, amt)
      <4>1. /\ file \in Files /\ saved_filepos \in Nat /\ Len(buf) \in Nat
            /\ off \in Nat /\ amt \in Nat /\ off + amt <= Len(buf)
        BY <1>1, <1>3, <2>1
      <4> QED BY <3>1, <4>1, BytesPart
    <3>3. buf = Bytes(file, saved_filepos, Len(buf))
      <4>1. Received = Len(buf) + saved_filepos /\ buf = Bytes(file, Received - Len(buf), Len(buf))
        BY <1>1 DEF IInv, TransferInv
      <4>2. Received - Len(buf) = saved_filepos
        BY <1>1, <4>1
      <4> QED BY <4>1, <4>2
    <3> QED BY <3>2, <3>3 DEF i, j, Part
  <2>3. File!Bytes(file, filepos, amt) = Bytes(file, filepos, amt)
    BY DEF File!Bytes, Bytes
  <2>4. ~(amt <= 0)
    BY <1>3, <1>5
  <2>5. /\ ret' = ret \o File!Bytes(file, filepos, amt)
        /\ size' = size - amt /\ filepos' = filepos + amt
    BY <1>2, <2>2, <2>3, <2>4
  <2>6. state' = IF amt = size THEN "open" ELSE "reading"
    <3>1. size' > 0 <=> amt # size
      BY <1>1, <2>1, <2>5
    <3> QED BY <1>1, <3>1 DEF state
  <2>7. File!Serve
    BY <1>1, <1>4, <2>1, <2>5, <2>6 DEF File!Serve
  <2> QED BY <2>7 DEF File!Next
<1>6. CASE ~(amt > 0)
  <2>1. UNCHANGED <<ret, size, filepos>>
    BY <1>2, <1>6
  <2> QED BY <1>1, <2>1, Inside
<1> QED BY <1>5, <1>6

LEMMA StepServed ==
  ASSUME IInv, IInv', Step
  PROVE  [File!Next]_File!vars
<1>1. CASE FillEnd \/ TimeoutRequest \/ TimeoutAck \/ GiveUp
  <2>1. /\ pc = "fill" /\ pc' \in {"fill", "filled", "failed"} /\ ctx' = ctx
        /\ UNCHANGED <<opened, file, filepos, size, ret, filemax>>
    BY <1>1 DEF FillEnd, TimeoutRequest, TimeoutAck, GiveUp, caller
  <2> QED BY <2>1, Inside
<1>2. ASSUME NEW m \in net, NEW rest \in {net, net \ {m}}, Arrival(m, rest)
      PROVE  UNCHANGED File!vars
  <2>1. /\ pc = "fill" /\ pc' \in {"fill", "filled", "failed"} /\ ctx' = ctx
        /\ UNCHANGED <<opened, file, filepos, size, ret>>
    BY <1>2 DEF Arrival, ReceiveEnd, ReceiveIgnored, ReceiveOack, ReceiveData, Accept, caller, client
  <2>2. opened => filemax' = filemax
    BY <2>1 DEF IInv, CallInv
  <2> QED BY <2>1, <2>2, Inside
<1>3. CASE DirFilled
  <2>1. /\ state = "opening" /\ ~opened /\ pc = "filled" /\ ctx = "dir"
        /\ filemax \in {-1, FileLen[file]}
    BY <1>3, StateFacts DEF DirFilled, IInv, CallInv
  <2>2. UNCHANGED <<file, filepos, size, ret>>
    BY <1>3 DEF DirFilled
  <2>3. CASE filemax = -1
    <3>1. opened' = opened /\ pc' = "fill" /\ ctx' = "sizing"
      BY <1>3, <2>3 DEF DirFilled
    <3> QED BY <2>1, <2>2, <3>1, Inside
  <2>4. CASE filemax # -1
    <3>1. opened' = TRUE /\ pc' = "idle" /\ filemax' = FileLen[file]
      BY <1>3, <2>1, <2>4 DEF DirFilled
    <3>2. state' = "open"
      BY <3>1 DEF state
    <3>3. File!Opened
      BY <2>1, <2>2, <3>1, <3>2 DEF File!Opened
    <3> QED BY <3>3 DEF File!Next
  <2> QED BY <2>3, <2>4
<1>4. CASE SizingFilled
  <2>1. /\ state = "opening" /\ ~opened /\ pc = "filled" /\ ctx = "sizing"
        /\ size = 0 /\ ret = <<>>
    BY <1>4, StateFacts DEF SizingFilled, IInv, CallInv
  <2>2. /\ UNCHANGED <<opened, file, filepos, size, ret>> /\ pc' \in {"idle", "fill"}
        /\ ctx' \in {"dir", "sizing"}
    BY <1>4, <2>1 DEF SizingFilled, send_rrq
  <2>3. CASE pc' = "fill"
    BY <2>1, <2>2, <2>3, Inside
  <2>4. CASE pc' = "idle"
    <3>1. state' = "closed"
      BY <2>1, <2>2, <2>4 DEF state
    <3>2. File!OpenFailed
      BY <2>1, <2>2, <3>1 DEF File!OpenFailed
    <3> QED BY <3>2 DEF File!Next
  <2> QED BY <2>2, <2>3, <2>4
<1>5. CASE Reopen
  <2>1. state = "reading" /\ opened /\ ctx = "reopen" /\ pc # "idle"
    BY <1>5, StateFacts DEF Reopen
  <2>2. ctx' = "read" /\ UNCHANGED <<opened, file, filepos, filemax>>
    BY <1>5 DEF Reopen
  <2>3. CASE pc' = "copy" /\ UNCHANGED <<size, ret>>
    BY <2>1, <2>2, <2>3, Inside
  <2>4. CASE pc' = "idle" /\ size' = 0 /\ ret' = <<>>
    <3>1. state' = "open"
      BY <2>1, <2>2, <2>4 DEF state
    <3>2. File!ReadFailed
      BY <2>1, <2>2, <2>4, <3>1 DEF File!ReadFailed
    <3> QED BY <3>2 DEF File!Next
  <2> QED BY <1>5, <2>3, <2>4 DEF Reopen, send_rrq
<1>6. CASE CloseDone \/ ReadFilled
  <2>1. /\ ctx' = ctx /\ UNCHANGED <<opened, file, filepos, filemax, size, ret>>
        /\ pc \in {"filled", "failed"} /\ (pc' = "copy" \/ ctx = "close")
    BY <1>6 DEF CloseDone, ReadFilled, caller
  <2> QED BY <2>1, Inside
<1>7. CASE FillFailed
  <2>1. /\ ctx' = ctx /\ UNCHANGED <<opened, file, filepos, filemax>> /\ pc' = "idle"
        /\ size' = 0 /\ ret' = <<>> /\ pc # "idle" /\ ctx \in {"dir", "sizing", "read"}
    BY <1>7 DEF FillFailed
  <2>2. CASE ctx = "read"
    <3>1. state = "reading" /\ opened
      BY <2>1, <2>2, StateFacts
    <3>2. state' = "open"
      BY <2>1, <3>1 DEF state
    <3>3. File!ReadFailed
      BY <2>1, <3>1, <3>2 DEF File!ReadFailed
    <3> QED BY <3>3 DEF File!Next
  <2>3. CASE ctx # "read"
    <3>1. state = "opening" /\ ~opened /\ size = 0 /\ ret = <<>>
      BY <2>1, <2>3, StateFacts DEF IInv, CallInv
    <3>2. state' = "closed"
      BY <2>1, <3>1 DEF state
    <3>3. File!OpenFailed
      BY <2>1, <3>1, <3>2 DEF File!OpenFailed
    <3> QED BY <3>3 DEF File!Next
  <2> QED BY <2>2, <2>3
<1>8. CASE Copy
  BY <1>8, CopyServed
<1> QED BY <1>1, <1>2, <1>3, <1>4, <1>5, <1>6, <1>7, <1>8 DEF Step

(* The TFTP driver is a file service: an open that succeeds reports the    *)
(* length of the file, a read that succeeds delivers its bytes, whatever   *)
(* the network does (tftp_dir, tftp_read, tftp_close of fsys_tftp.c).      *)
THEOREM FileServed == Spec => RefinesFileService
<1>1. Init => File!Init
  <2> SUFFICES ASSUME Init PROVE File!Init
    OBVIOUS
  <2>1. state = "closed"
    BY DEF Init, state
  <2> QED BY <2>1 DEF Init, File!Init
<1>2. IInv /\ IInv' /\ [Next]_vars => [File!Next]_File!vars
  <2> SUFFICES ASSUME IInv, IInv', [Next]_vars PROVE [File!Next]_File!vars
    OBVIOUS
  <2>1. CASE Environment \/ UNCHANGED vars
    <3>1. UNCHANGED client
      BY <2>1 DEF Environment, ServerResend, Lose, ServeOther, ServeRequest, ServeAck, vars
    <3> QED BY <3>1, Inside DEF client
  <2> QED BY <2>1, UserServed, StepServed DEF Next
<1> QED BY <1>1, <1>2, TransfersInOrder, PTL DEF Spec, RefinesFileService, File!Spec
=============================================================================
