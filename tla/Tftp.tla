-------------------------------- MODULE Tftp --------------------------------
(***************************************************************************)
(* The TFTP filesystem of GRUB (netboot/fsys_tftp.c) over udp_transmit and *)
(* await_reply (netboot/main.c), with a TFTP server and a network that     *)
(* loses, duplicates, delays and reorders packets.                         *)
(*                                                                         *)
(* tftp_dir, tftp_read and tftp_close all run buf_fill, which polls the    *)
(* network; ctx says for whom it runs.  Byte p of file f is represented by *)
(* <<f, p>>, so the model sees where delivered data came from.  Ports are  *)
(* numbered in the order they are taken (iport only ever grows).           *)
(* await_reply skips what is addressed to an older one: such packets stay  *)
(* in net, as if they arrived too late, and the drain at the start of      *)
(* send_rrq needs no step of its own.                                      *)
(***************************************************************************)
EXTENDS Integers, Sequences, FiniteSets

CONSTANTS
  Files, FileLen,          \* the files on the server, and FileLen[f]
  TFTP_DEFAULTSIZE_PACKET, TFTP_MAX_PACKET, FSYS_BUFLEN,
  MAX_TFTP_RETRIES, TFTP_REXMT, TFTP_TIMEOUT,
  BlockNumbers,            \* 2^16 in the protocol: block numbers wrap
  Servers,                 \* the kinds of servers: see Kinds
  MaxRequests,             \* bound: requests for the file, tftp_dir and reopening
  MaxFaults,               \* bound: packets lost, duplicated or sent again by a server
  SeekTo, ReadSizes        \* bound: the positions sought and the lengths read

(* plain: no options; blksize: OACK without tsize; full: OACK with both;   *)
(* bad: an OACK with an option GRUB did not ask for; missing: no such file *)
(* stray: answers with a packet that is neither.                           *)
Kinds == {"plain", "blksize", "full", "bad", "missing", "stray"}

ASSUME TftpAssumption ==
  /\ FileLen \in [Files -> Nat] /\ BlockNumbers \in Nat \ {0, 1}
  /\ TFTP_DEFAULTSIZE_PACKET \in Nat \ {0}
  /\ TFTP_MAX_PACKET \in Nat /\ TFTP_MAX_PACKET >= TFTP_DEFAULTSIZE_PACKET
  /\ FSYS_BUFLEN \in Nat /\ FSYS_BUFLEN % 2 = 0 /\ FSYS_BUFLEN >= 2 * TFTP_MAX_PACKET
  /\ {MAX_TFTP_RETRIES, TFTP_REXMT, TFTP_TIMEOUT} \subseteq Nat
  /\ Servers \subseteq Kinds /\ SeekTo \subseteq Nat /\ ReadSizes \subseteq Nat \ {0}

VARIABLES
  pc,          \* "idle"; "fill": in the loop of buf_fill; "copy": in that of tftp_read
  ctx,         \* for whom buf_fill runs: "dir", "sizing", "read", "reopen", "close"
  opened,      \* grub_open has succeeded
  file,        \* the file named in saved_tp
  iport, oport, retry, block, prevblock, bcounter, packetsize,
  tp,          \* the packet sent last: "rrq", "ack" or "error"
  buf,         \* the buf_read bytes at FSYS_BUF
  buf_eof, saved_filepos, filepos, filemax,
  size, ret,   \* of the tftp_read in progress
  errnum,
  requests,    \* counts tftp_dir and reopening, for the bound
  kind,        \* the kind of the server
  sessions,    \* the transfers of the server, one for each RRQ that reached it
  net,         \* the packets in flight
  faults       \* packets lost, duplicated or sent again by the server so far

client == <<pc, ctx, opened, file, iport, oport, retry, block, prevblock, bcounter, packetsize, tp,
            buf, buf_eof, saved_filepos, filepos, filemax, size, ret, errnum, requests>>
transfer == <<retry, block, prevblock, bcounter, packetsize, buf, buf_eof, saved_filepos>>
caller == <<opened, file, filepos, filemax, size, ret, requests>>
vars == <<client, kind, sessions, net, faults>>

Bytes(f, p, n) == [i \in 1 .. n |-> <<f, p + i - 1>>]

(* A packet: op, the client's port, the server's port (TFTP_PORT is 0), a  *)
(* block number and what else it carries: the bytes of DATA, the file of a *)
(* request, the tsize of an OACK (-1: none).                               *)
Packet(op, cport, sport, b, data) ==
  [op |-> op, cport |-> cport, sport |-> sport, block |-> b, data |-> data]

ToClient(m) == m.op \in {"data", "oack", "badoack", "srverror", "other"}

(* The network after packet m is received: it may deliver m once more.     *)
Receive(m, rest) ==
  \/ rest = net \ {m} /\ faults' = faults
  \/ rest = net /\ faults < MaxFaults /\ faults' = faults + 1

-----------------------------------------------------------------------------
(* The server and the network (external).                                  *)
BlockSize == IF kind \in {"blksize", "full"} THEN TFTP_MAX_PACKET
                                             ELSE TFTP_DEFAULTSIZE_PACKET
LastBlock(f) == FileLen[f] \div BlockSize + 1

BlockData(f, n) ==
  LET first == (n - 1) * BlockSize
  IN Bytes(f, first, IF n = LastBlock(f) THEN FileLen[f] - first ELSE BlockSize)

(* What the session s sends: the block it waits for an ACK of.             *)
Answer(s) ==
  CASE kind = "missing" -> Packet("srverror", s.cport, s.sport, 0, <<>>)
    [] kind = "bad"     -> Packet("badoack", s.cport, s.sport, 0, <<>>)
    [] kind = "stray"   -> Packet("other", s.cport, s.sport, 0, <<>>)
    [] s.n = 0 /\ kind \in {"blksize", "full"}
                        -> Packet("oack", s.cport, s.sport, 0,
                                  IF kind = "full" THEN <<FileLen[s.file]>> ELSE <<>>)
    [] OTHER            -> Packet("data", s.cport, s.sport, s.n % BlockNumbers,
                                  BlockData(s.file, s.n))

(* An RRQ arrives, perhaps a duplicate: a new transfer from a new port.    *)
ServeRequest(m, rest) ==
  /\ m.op = "rrq" /\ m.sport = 0
  /\ Receive(m, rest)
  /\ LET s == [cport |-> m.cport, sport |-> Cardinality(sessions) + 1, file |-> m.data[1],
               n |-> IF kind = "plain" THEN 1 ELSE 0]
     IN sessions' = sessions \cup {s} /\ net' = rest \cup {Answer(s)}
  /\ UNCHANGED <<client, kind>>

Acked(m, s) ==
  /\ s.sport = m.sport /\ s.cport = m.cport
  /\ s.n <= LastBlock(s.file) /\ m.block = s.n % BlockNumbers

(* An ACK of the current block: send the next one, or finish.              *)
ServeAck(m, rest) ==
  /\ m.op = "ack"
  /\ Receive(m, rest)
  /\ \E s \in sessions :
       /\ Acked(m, s)
       /\ LET t == [s EXCEPT !.n = s.n + 1]
          IN /\ sessions' = (sessions \ {s}) \cup {t}
             /\ net' = rest \cup (IF t.n <= LastBlock(t.file) THEN {Answer(t)} ELSE {})
  /\ UNCHANGED <<client, kind>>

(* An ERROR ends the transfer; any other packet is of no use to the server.*)
ServeOther(m) ==
  /\ ~ToClient(m) /\ m.op # "rrq"
  /\ m.op = "ack" => \A s \in sessions : ~Acked(m, s)
  /\ net' = net \ {m}
  /\ sessions' = {IF m.op = "error" /\ s.sport = m.sport
                  THEN [s EXCEPT !.n = LastBlock(s.file) + 1] ELSE s : s \in sessions}
  /\ UNCHANGED <<client, kind, faults>>

(* The server has waited too long for an ACK.                              *)
ServerResend ==
  /\ \E s \in sessions :
       /\ s.n <= LastBlock(s.file)
       /\ faults < MaxFaults /\ faults' = faults + 1
       /\ net' = net \cup {Answer(s)}
  /\ UNCHANGED <<client, kind, sessions>>

Lose(m) ==
  /\ faults < MaxFaults
  /\ faults' = faults + 1 /\ net' = net \ {m}
  /\ UNCHANGED <<client, kind, sessions>>

-----------------------------------------------------------------------------
(* mutant: the port is not changed, so late packets are taken for answers. *)
FromSamePort(op, f) ==
  /\ iport' = iport /\ sessions' = {}
  /\ net' = {m \in net : ToClient(m)} \cup {Packet(op, iport, 0, 0, <<f>>)}

(* Packet op goes to TFTP_PORT from a new port.  Of the packets of the     *)
(* ports left behind, those to the client are kept; the others, and the    *)
(* server's transfers, could only add more of these.                       *)
FromNewPort(op, f) ==
  /\ iport' = iport + 1
  /\ net' = {m \in net : ToClient(m)} \cup {Packet(op, iport + 1, 0, 0, <<f>>)}
  /\ sessions' = {}

(* send_rrq: forget the last transfer and ask for the file from a new port.*)
(* udp_transmit fails when nobody answers its ARP requests.                *)
send_rrq(f, okpc) ==
  /\ retry' = 0 /\ block' = 0 /\ prevblock' = 0 /\ bcounter' = FALSE
  /\ packetsize' = TFTP_DEFAULTSIZE_PACKET
  /\ buf' = <<>> /\ buf_eof' = FALSE /\ saved_filepos' = 0
  /\ tp' = "rrq" /\ requests' = requests + 1
  /\ \/ /\ FromNewPort("rrq", f)
        /\ pc' = okpc
        /\ UNCHANGED <<errnum, size, ret>>
     \/ /\ errnum' = "ERR_WRITE" /\ pc' = "idle"
        /\ size' = 0 /\ ret' = <<>> /\ iport' = iport + 1
        /\ UNCHANGED <<net, sessions>>
  /\ UNCHANGED <<oport, kind, faults>>

(* grub_open on the network drive: tftp_dir.  It needs a second request    *)
(* from a server without the option tsize.                                 *)
tftp_dir(f) ==
  /\ pc = "idle" /\ ~opened
  /\ requests + (IF kind = "full" THEN 1 ELSE 2) <= MaxRequests
  /\ filepos' = 0 /\ filemax' = -1 /\ ctx' = "dir" /\ file' = f
  /\ send_rrq(f, "fill")
  /\ UNCHANGED opened

grub_seek ==
  /\ pc = "idle" /\ opened
  /\ filepos' \in {p \in SeekTo : p <= filemax}
  /\ UNCHANGED <<pc, ctx, opened, file, iport, oport, transfer, tp, filemax, size, ret,
                 errnum, requests, kind, sessions, net, faults>>

(* tftp_read: start again when the position has been moved backwards past  *)
(* the buffer; the transfer in progress is aborted first.                  *)
tftp_read(n) ==
  /\ pc = "idle" /\ opened
  /\ filepos < filemax
  /\ size' = (IF n > filemax - filepos THEN filemax - filepos ELSE n) /\ ret' = <<>> /\ errnum' = "none"
  /\ IF filepos < saved_filepos
     THEN /\ requests < MaxRequests
          /\ buf' = <<>> /\ ctx' = "reopen" /\ pc' = "fill"
     ELSE /\ ctx' = "read" /\ pc' = "copy"
          /\ UNCHANGED buf
  /\ UNCHANGED <<opened, file, iport, oport, retry, block, prevblock, bcounter, packetsize, tp,
                 buf_eof, saved_filepos, filepos, filemax, requests,
                 kind, sessions, net, faults>>

tftp_close ==
  /\ pc = "idle" /\ opened
  /\ buf' = <<>> /\ ctx' = "close" /\ pc' = "fill" /\ opened' = FALSE
  /\ size' = 0 /\ ret' = <<>> /\ filemax' = -1
  /\ UNCHANGED <<file, iport, oport, retry, block, prevblock, bcounter, packetsize, tp, buf_eof,
                 saved_filepos, filepos, errnum, requests, kind, sessions, net, faults>>
-----------------------------------------------------------------------------
(***************************************************************************)
(* The loop of buf_fill.  It ends in "filled" (returns 1) or in "failed"   *)
(* (returns 0).                                                            *)
(***************************************************************************)
filling == ~buf_eof /\ Len(buf) + packetsize <= FSYS_BUFLEN
abort == ctx \in {"reopen", "close"}

FillEnd ==
  /\ pc = "fill" /\ ~filling
  /\ pc' = "filled"
  /\ UNCHANGED <<ctx, iport, oport, transfer, tp, caller, errnum,
                 kind, sessions, net, faults>>

(* "Maybe initial request was lost.": send tp again, from a new port.      *)
TimeoutRequest ==
  /\ pc = "fill" /\ filling
  /\ block = 0 /\ retry < MAX_TFTP_RETRIES
  /\ retry' = retry + 1
  /\ \/ FromNewPort(tp, file) /\ pc' = pc
     \/ iport' = iport + 1 /\ pc' = "failed" /\ UNCHANGED <<net, sessions>>
  /\ UNCHANGED <<ctx, oport, block, prevblock, bcounter, packetsize, buf, buf_eof,
                 saved_filepos, tp, caller, errnum, kind, faults>>

(* mutant: the time spent waiting is not counted.                          *)
AckForever ==
  /\ pc = "fill" /\ filling /\ block # 0
  /\ net' = net \cup {Packet(tp, iport, oport, block, <<>>)}
  /\ UNCHANGED <<pc, ctx, iport, oport, transfer, tp, caller, errnum, kind, sessions, faults>>

(* "We resend our last ack."                                               *)
TimeoutAck ==
  /\ pc = "fill" /\ filling
  /\ block # 0 /\ retry + TFTP_REXMT < TFTP_TIMEOUT
  /\ retry' = retry + TFTP_REXMT
  /\ net' = net \cup {Packet(tp, iport, oport, block, <<>>)}
  /\ UNCHANGED <<pc, ctx, iport, oport, block, prevblock, bcounter, packetsize, buf, buf_eof,
                 saved_filepos, tp, caller, errnum, kind, sessions, faults>>

(* The last timeout, or the user's Control-C.                              *)
GiveUp ==
  /\ pc = "fill" /\ filling
  /\ pc' = "failed"
  /\ UNCHANGED <<ctx, iport, oport, transfer, tp, caller, errnum,
                 kind, sessions, net, faults>>

(* A packet that ends buf_fill: an ERROR, an OACK that cannot be accepted  *)
(* (answered with an ERROR) or one that is neither OACK nor DATA.          *)
ReceiveEnd(m, rest) ==
  /\ pc = "fill" /\ filling
  /\ ToClient(m) /\ m.cport = iport
  /\ Receive(m, rest)
  /\ \/ m.op = "srverror" /\ pc' = "failed" /\ net' = rest /\ UNCHANGED tp
     \/ m.op = "other" /\ pc' = "filled" /\ net' = rest /\ UNCHANGED tp
     \/ /\ m.op = "badoack" /\ prevblock = 0
        /\ pc' = "failed" /\ tp' = "error"
        /\ net' = rest \cup {Packet("error", iport, m.sport, 0, <<>>)}
  /\ UNCHANGED <<ctx, iport, oport, transfer, caller, errnum, kind, sessions>>

(* "Shouldn't happen": an OACK after data, a block longer than agreed.     *)
ReceiveIgnored(m, rest) ==
  /\ pc = "fill" /\ filling
  /\ m.cport = iport
  /\ \/ m.op \in {"oack", "badoack"} /\ prevblock # 0
     \/ m.op = "data" /\ Len(m.data) > packetsize
  /\ Receive(m, rest)
  /\ net' = rest
  /\ UNCHANGED <<client, kind, sessions>>

(* OACK and DATA: check the block number, acknowledge, store new data.     *)
Accept(m, rest, b, ps) ==
  LET bb == IF (b # 0 \/ bcounter) /\ b # prevblock + 1 THEN prevblock ELSE b IN
  /\ Receive(m, rest)
  /\ tp' = IF abort THEN "error" ELSE "ack"
  /\ oport' = m.sport
  /\ net' = rest \cup {Packet(tp', iport, m.sport, bb, <<>>)}
  /\ block' = bb /\ packetsize' = ps
  /\ \/ /\ abort
        /\ buf_eof' = TRUE /\ pc' = "filled"
        /\ UNCHANGED <<retry, prevblock, bcounter, buf>>
     \/ /\ ~abort /\ (bb - prevblock) % BlockNumbers # 1
        /\ UNCHANGED <<pc, retry, prevblock, bcounter, buf, buf_eof>>
     \/ /\ ~abort /\ (bb - prevblock) % BlockNumbers = 1
        /\ prevblock' = bb /\ retry' = 0 /\ bcounter' = TRUE
        /\ buf' = buf \o m.data
        /\ buf_eof' = (Len(m.data) < ps)
        /\ UNCHANGED pc
  /\ UNCHANGED <<ctx, opened, file, iport, saved_filepos, filepos, size, ret, errnum, requests,
                 kind, sessions>>

ReceiveOack(m, rest) ==
  /\ pc = "fill" /\ filling
  /\ m.op = "oack" /\ m.cport = iport /\ prevblock = 0
  /\ filemax' = IF m.data # <<>> THEN m.data[1] ELSE filemax
  /\ Accept(m, rest, 0, TFTP_MAX_PACKET)

ReceiveData(m, rest) ==
  /\ pc = "fill" /\ filling
  /\ m.op = "data" /\ m.cport = iport /\ Len(m.data) <= packetsize
  /\ Accept(m, rest, m.block, packetsize)
  /\ UNCHANGED filemax
-----------------------------------------------------------------------------
(* What the callers do when buf_fill has returned.                         *)

(* tftp_dir: without a tsize, the whole file is read to learn its size.    *)
DirFilled ==
  /\ pc = "filled" /\ ctx = "dir"
  /\ \/ /\ filemax = -1
        /\ filemax' = Len(buf) /\ buf' = <<>>
        /\ ctx' = "sizing" /\ pc' = "fill"
        /\ UNCHANGED opened
     \/ /\ filemax # -1
        /\ opened' = TRUE /\ pc' = "idle"
        /\ UNCHANGED <<ctx, filemax, buf>>
  /\ UNCHANGED <<iport, oport, retry, block, prevblock, bcounter, packetsize, buf_eof,
                 saved_filepos, tp, file, filepos, size, ret, errnum, requests,
                 kind, sessions, net, faults>>

SizingFilled ==
  /\ pc = "filled" /\ ctx = "sizing"
  /\ filemax' = filemax + Len(buf)
  /\ \/ /\ ~buf_eof
        /\ buf' = <<>> /\ pc' = "fill"
        /\ UNCHANGED <<ctx, iport, oport, retry, block, prevblock, bcounter, packetsize,
                       buf_eof, saved_filepos, tp, size, ret, errnum, requests,
                       kind, sessions, net, faults>>
     \/ /\ buf_eof
        /\ ctx' = "dir"
        /\ send_rrq(file, "fill")
  /\ UNCHANGED <<opened, file, filepos>>

(* tftp_read, after aborting the transfer: ask for the file again.         *)
Reopen ==
  /\ pc \in {"filled", "failed"} /\ ctx = "reopen"
  /\ ctx' = "read"
  /\ send_rrq(file, "copy")
  /\ UNCHANGED <<opened, file, filepos, filemax>>

CloseDone ==
  /\ pc \in {"filled", "failed"} /\ ctx = "close"
  /\ pc' = "idle"
  /\ UNCHANGED <<ctx, iport, oport, transfer, tp, caller, errnum,
                 kind, sessions, net, faults>>

(* tftp_read's sanity check.                                               *)
ReadFilled ==
  /\ pc = "filled" /\ ctx = "read" /\ buf # <<>>
  /\ pc' = "copy"
  /\ UNCHANGED <<ctx, iport, oport, transfer, tp, caller, errnum,
                 kind, sessions, net, faults>>

FillFailed ==
  /\ \/ pc = "failed" /\ ctx \in {"dir", "sizing", "read"}
     \/ pc = "filled" /\ ctx = "read" /\ buf = <<>>
  /\ pc' = "idle"
  /\ errnum' = IF ctx = "dir" THEN "ERR_FILE_NOT_FOUND" ELSE "ERR_READ"
  /\ size' = 0 /\ ret' = <<>>
  /\ UNCHANGED <<ctx, iport, oport, transfer, tp, opened, file, filepos, filemax, requests,
                 kind, sessions, net, faults>>

(* mutant: the buffer is moved on, saved_filepos is not.                   *)
MoveBufferOnly ==
  /\ pc = "copy"
  /\ LET off == filepos - saved_filepos
         amt == IF Len(buf) - off > size THEN size ELSE Len(buf) - off
         half == FSYS_BUFLEN \div 2
     IN \/ /\ amt > 0
           /\ ret' = ret \o SubSeq(buf, off + 1, off + amt)
           /\ size' = size - amt /\ filepos' = filepos + amt
           /\ buf' = IF off + amt > half THEN SubSeq(buf, half + 1, Len(buf)) ELSE buf
           /\ UNCHANGED saved_filepos
        \/ /\ amt <= 0
           /\ saved_filepos' = saved_filepos + Len(buf) /\ buf' = <<>>
           /\ UNCHANGED <<ret, size, filepos>>
  /\ pc' = IF size' > 0 THEN "fill" ELSE "idle"
  /\ UNCHANGED <<ctx, opened, file, iport, oport, retry, block, prevblock, bcounter, packetsize,
                 buf_eof, tp, filemax, errnum, requests, kind, sessions, net, faults>>

(* The loop of tftp_read: copy what the buffer has, move the buffer on by  *)
(* half its length when more than half has been used, or skip all of it.   *)
Copy ==
  /\ pc = "copy"
  /\ LET off == filepos - saved_filepos
         amt == IF Len(buf) - off > size THEN size ELSE Len(buf) - off
         half == FSYS_BUFLEN \div 2
     IN \/ /\ amt > 0
           /\ ret' = ret \o SubSeq(buf, off + 1, off + amt)
           /\ size' = size - amt /\ filepos' = filepos + amt
           /\ IF off + amt > half
              THEN /\ buf' = SubSeq(buf, half + 1, Len(buf))
                   /\ saved_filepos' = saved_filepos + half
              ELSE UNCHANGED <<buf, saved_filepos>>
        \/ /\ amt <= 0
           /\ saved_filepos' = saved_filepos + Len(buf) /\ buf' = <<>>
           /\ UNCHANGED <<ret, size, filepos>>
  /\ pc' = IF size' > 0 THEN "fill" ELSE "idle"
  /\ UNCHANGED <<ctx, opened, file, iport, oport, retry, block, prevblock, bcounter, packetsize,
                 buf_eof, tp, filemax, errnum, requests, kind, sessions, net, faults>>
-----------------------------------------------------------------------------
Init ==
  /\ pc = "idle" /\ ctx = "close" /\ opened = FALSE /\ file \in Files
  /\ iport = 0 /\ oport = 0 /\ retry = 0 /\ block = 0 /\ prevblock = 0 /\ bcounter = FALSE
  /\ packetsize = TFTP_DEFAULTSIZE_PACKET /\ tp = "rrq"
  /\ buf = <<>> /\ buf_eof = FALSE /\ saved_filepos = 0 /\ filepos = 0 /\ filemax = -1
  /\ size = 0 /\ ret = <<>> /\ errnum = "none" /\ requests = 0
  /\ kind \in Servers /\ sessions = {} /\ net = {} /\ faults = 0

Arrival(m, rest) ==
  \/ ReceiveEnd(m, rest) \/ ReceiveIgnored(m, rest)
  \/ ReceiveOack(m, rest) \/ ReceiveData(m, rest)

Step ==
  \/ FillEnd \/ TimeoutRequest \/ TimeoutAck \/ GiveUp
  \/ DirFilled \/ SizingFilled \/ Reopen \/ CloseDone \/ ReadFilled \/ FillFailed \/ Copy
  \/ \E m \in net : \E rest \in {net, net \ {m}} : Arrival(m, rest)

User ==
  \/ \E f \in Files : tftp_dir(f)
  \/ grub_seek \/ tftp_close
  \/ \E n \in ReadSizes : tftp_read(n)

Environment ==
  \/ ServerResend
  \/ \E m \in net : Lose(m) \/ ServeOther(m)
  \/ \E m \in net : \E rest \in {net, net \ {m}} : ServeRequest(m, rest) \/ ServeAck(m, rest)

Next == Step \/ User \/ Environment

(* buf_fill polls for packets and checks the clock: it always goes on.     *)
Spec == Init /\ [][Next]_vars /\ WF_vars(Step)
-----------------------------------------------------------------------------
(* Every variable of the client has its type, and FSYS_BUF is never        *)
(* overrun.                                                                *)
TypeOK ==
  /\ pc \in {"idle", "fill", "filled", "failed", "copy"}
  /\ ctx \in {"dir", "sizing", "read", "reopen", "close"}
  /\ {block, prevblock} \subseteq 0 .. BlockNumbers - 1
  /\ packetsize \in {TFTP_DEFAULTSIZE_PACKET, TFTP_MAX_PACKET}
  /\ buf \in Seq(Files \X Nat) /\ Len(buf) <= FSYS_BUFLEN
  /\ {saved_filepos, filepos, size, iport, oport, retry} \subseteq Nat
  /\ filemax \in Nat \cup {-1}
  /\ ret \in Seq(Files \X Nat)

(* Outside the sizing pass, the buffer holds the bytes of the file from    *)
(* saved_filepos on, without gap or repetition, and buf_eof of a transfer  *)
(* that was not aborted means that it reaches the end of the file: lost,   *)
(* duplicated and reordered packets, repeated requests and several         *)
(* transfers of the server at once included.                               *)
BufferIsFile ==
  ctx \in {"dir", "read"} =>
    /\ buf = Bytes(file, saved_filepos, Len(buf))
    /\ buf_eof => saved_filepos + Len(buf) = FileLen[file]

(* The client acknowledges no block of the transfer it follows before it   *)
(* has stored it: an ACK in flight is for a block it has.                  *)
AckedIsStored ==
  \A m \in net : m.op = "ack" /\ m.cport = iport => m.block <= prevblock

(* Whatever the network loses, repeats and reorders, the client stores the *)
(* bytes of the file in their order, inside its buffer, and acknowledges   *)
(* only what it has stored (buf_fill, fsys_tftp.c).                        *)
StoredIsFile == TypeOK /\ BufferIsFile /\ AckedIsStored

(* tftp_dir, tftp_read and tftp_close always come back to the user.        *)
CallsEnd == (pc # "idle") ~> (pc = "idle")

state ==
  CASE pc = "idle" \/ ctx = "close" -> IF opened THEN "open" ELSE "closed"
    [] pc # "idle" /\ ctx \in {"dir", "sizing"} -> "opening"
    [] pc # "idle" /\ ctx \in {"read", "reopen"} -> "reading"

File == INSTANCE FileService
          WITH filemax <- IF state \in {"open", "reading"} THEN filemax ELSE -1

(* The TFTP driver is a file service: an open that succeeds reports the    *)
(* length of the file, a read that succeeds delivers its bytes, whatever   *)
(* was read before and however the position was moved.                     *)
RefinesFileService == File!Spec
=============================================================================
