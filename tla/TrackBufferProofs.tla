-------------------------- MODULE TrackBufferProofs --------------------------
(***************************************************************************)
(* The track buffer is transparent in a command without a doubt: for any   *)
(* number of drives, any geometry, any media, both builds and any sequence *)
(* of calls.                                                               *)
(***************************************************************************)
EXTENDS TrackBuffer, TLAPS

-----------------------------------------------------------------------------
(* Arithmetic of tracks: soff = sector % vtrack, track = sector - soff.    *)

(* Division with remainder, in the form the proofs below use.              *)
LEMMA ModRange ==
  ASSUME NEW s \in Nat, NEW W \in Nat \ {0}
  PROVE  s % W \in 0 .. W - 1 /\ s \div W \in Nat /\ s = W * (s \div W) + (s % W)
  OBVIOUS

(* Multiplication by a positive number is strictly monotone.               *)
LEMMA MulMono ==
  ASSUME NEW W \in Nat \ {0}, NEW p \in Int, NEW q \in Int, p < q
  PROVE  W * p + W <= W * q
<1>1. W * (q - p - 1) >= 0
  OBVIOUS
<1>2. W * (q - p - 1) = W * q - W * p - W
  OBVIOUS
<1> QED BY <1>1, <1>2

(* Quotient and remainder are unique.                                      *)
LEMMA QuotUnique ==
  ASSUME NEW W \in Nat \ {0}, NEW p \in Int, NEW q \in Int,
         NEW r \in 0 .. W - 1, NEW t \in 0 .. W - 1,
         W * p + r = W * q + t
  PROVE  p = q /\ r = t
<1>1. ~ (p < q)
  BY MulMono
<1>2. ~ (q < p)
  BY MulMono
<1>3. p = q
  BY <1>1, <1>2
<1> QED BY <1>3

(* A number written as W * q + r with r < W has remainder r.               *)
LEMMA ModUnique ==
  ASSUME NEW W \in Nat \ {0}, NEW q \in Int, NEW r \in 0 .. W - 1,
         NEW x \in Nat, x = W * q + r
  PROVE  x % W = r
<1> DEFINE p == x \div W
           t == x % W
<1>1. p \in Int /\ t \in 0 .. W - 1 /\ x = W * p + t
  BY ModRange
<1> HIDE DEF p, t
<1>2. t = r
  BY <1>1, QuotUnique
<1> QED BY <1>2 DEF t

(* The first sector of a track is aligned.                                 *)
LEMMA TrackAligned ==
  ASSUME NEW s \in Nat, NEW W \in Nat \ {0}
  PROVE  s - (s % W) \in Nat /\ (s - (s % W)) % W = 0
<1> DEFINE x == s - (s % W)
           q == s \div W
<1>1. x \in Nat /\ q \in Int /\ x = W * q + 0
  BY ModRange
<1>2. 0 \in 0 .. W - 1
  OBVIOUS
<1> HIDE DEF x, q
<1>3. x % W = 0
  BY <1>1, <1>2, ModUnique
<1> QED BY <1>1, <1>3 DEF x

(* The track after an aligned one is aligned.                              *)
LEMMA NextTrackAligned ==
  ASSUME NEW x \in Nat, NEW W \in Nat \ {0}, x % W = 0
  PROVE  (x + W) % W = 0
<1> DEFINE y == x + W
           q == (x \div W) + 1
<1>1. x = W * (x \div W)
  BY ModRange
<1>2. y \in Nat /\ q \in Int /\ y = W * q + 0
  BY <1>1, ModRange
<1>3. 0 \in 0 .. W - 1
  OBVIOUS
<1> HIDE DEF y, q
<1>4. y % W = 0
  BY <1>2, <1>3, ModUnique
<1> QED BY <1>4 DEF y

(* A sector of an aligned track computes that track.                       *)
LEMMA SameTrack ==
  ASSUME NEW x \in Nat, NEW t \in Nat, NEW W \in Nat \ {0},
         x % W = 0, x <= t, t < x + W
  PROVE  t - (t % W) = x
<1>1. x = W * (x \div W)
  BY ModRange
<1>2. t = W * (x \div W) + (t - x)
  BY <1>1
<1>3. t = W * (t \div W) + (t % W)
  BY ModRange
<1>4. /\ t - x \in 0 .. W - 1 /\ t % W \in 0 .. W - 1
      /\ t \div W \in Int /\ x \div W \in Int
  BY ModRange
<1>5. t - x = t % W
  BY <1>2, <1>3, <1>4, QuotUnique
<1> QED BY <1>5, <1>4

-----------------------------------------------------------------------------
(* Facts about the firmware and the geometry.                              *)

(* A virtual track has at least two sectors and fits in the buffer.        *)
LEMMA VTrackFacts ==
  ASSUME NEW d \in Drives
  PROVE  /\ V(d) \in Nat \ {0, 1}
         /\ V(d) <= BufferSlots
         /\ Geometry[d] \in GeometryType
         /\ SameGeom(Geometry[d], d)
         /\ \A g \in GeometryType : SameGeom(g, d) => VTrack(g) = V(d)
BY DriveAssumption DEF V, VTrack, GeometryType, SameGeom

(* biosdisk keeps the tracks of the drive, and it reports no error only    *)
(* for a transfer that took place inside the disk, or drops the status.    *)
LEMMA BiosFacts ==
  ASSUME NEW d \in Drives, NEW g \in GeometryType, SameGeom(g, d),
         NEW s \in Nat, NEW n \in Nat, NEW o \in biosdisk(d, g, s, n)
  PROVE  /\ o.geom \in GeometryType
         /\ SameGeom(o.geom, d)
         /\ o.err \in {"none", "geometry", "other"}
         /\ o.data \in {"moved", "lost"}
         /\ Dropped(o) \in SUBSET {"dropped"}
         /\ o.err = "none" /\ Dropped(o) = {} => o.data = "moved"
         /\ o.err = "none" /\ "dropped" \notin Dropped(o) => o.data = "moved"
         /\ o.data = "moved" => s + n <= PhysSectors[d]
<1>3. /\ Fallback(g) \in GeometryType
      /\ SameGeom(Fallback(g), d)
  BY DEF Fallback, GeometryType, SameGeom
<1>4. ASSUME NEW h \in GeometryType, SameGeom(h, d), NEW x \in Transfer(d, h, s, n)
      PROVE  /\ x.geom = h
             /\ x.err \in {"none", "other"}
             /\ x.data \in {"moved", "lost"}
             /\ x.err = "none" => x.data = "moved"
             /\ x.data = "moved" => s + n <= PhysSectors[d]
  BY DEF Transfer, Outcome
<1>5. ASSUME NEW h \in GeometryType, SameGeom(h, d), NEW x \in ChsTransfer(d, h, s, n)
      PROVE  /\ x.geom = h
             /\ x.err \in {"none", "geometry", "other"}
             /\ x.data \in {"moved", "lost"}
             /\ x.err = "none" => x.data = "moved"
             /\ x.data = "moved" => s + n <= PhysSectors[d]
  <2>1. CASE s >= h.chs_sectors
    BY <2>1 DEF ChsTransfer, Outcome
  <2>2. CASE ~(s >= h.chs_sectors)
    BY <1>4, <1>5, <2>2 DEF ChsTransfer
  <2> QED BY <2>1, <2>2
<1>6. ASSUME NEW h \in GeometryType, SameGeom(h, d), o.geom = h,
             o.err \in {"none", "geometry", "other"}, o.data \in {"moved", "lost"},
             o.data = "moved" => s + n <= PhysSectors[d]
      PROVE  /\ o.geom \in GeometryType /\ SameGeom(o.geom, d)
             /\ Dropped(o) \in SUBSET {"dropped"}
             /\ o.err = "none" /\ Dropped(o) = {} => o.data = "moved"
             /\ o.err = "none" /\ "dropped" \notin Dropped(o) => o.data = "moved"
  BY <1>6 DEF Dropped
<1>7. CASE firmware = "efi"
  <2>1. PICK x \in Transfer(d, g, s, n) : o = Outcome("none", g, x.data)
    BY <1>7 DEF biosdisk, biosdisk_efi
  <2>2. /\ o.geom = g /\ o.err = "none" /\ o.data \in {"moved", "lost"}
        /\ o.data = "moved" => s + n <= PhysSectors[d]
    BY <2>1, <1>4 DEF Outcome
  <2> QED BY <2>2, <1>6
<1>8. CASE firmware # "efi"
  <2>1. o \in biosdisk_bios(d, g, s, n)
    BY <1>8 DEF biosdisk
  <2>2. CASE g.lba
    <3>1. \/ o \in Transfer(d, g, s, n)
          \/ o \in ChsTransfer(d, Fallback(g), s, n)
          \/ o = Outcome("other", g, "lost")
      BY <2>1, <2>2 DEF biosdisk_bios
    <3>2. CASE o = Outcome("other", g, "lost")
      BY <3>2, <1>6 DEF Outcome
    <3>3. CASE o \in Transfer(d, g, s, n)
      BY <3>3, <1>4, <1>6
    <3>4. CASE o \in ChsTransfer(d, Fallback(g), s, n)
      BY <3>4, <1>3, <1>5, <1>6
    <3> QED BY <3>1, <3>2, <3>3, <3>4
  <2>3. CASE ~g.lba
    <3>1. o \in ChsTransfer(d, g, s, n)
      BY <2>1, <2>3 DEF biosdisk_bios
    <3> QED BY <3>1, <1>5, <1>6
  <2> QED BY <2>2, <2>3
<1> QED BY <1>7, <1>8

(* The buffer keeps its type across a read, and a successful read puts the *)
(* sectors of the medium in its first n slots.                             *)
LEMMA FilledFacts ==
  ASSUME TypeOK, NEW d \in Drives, NEW b \in [Slot -> Data \cup {Junk}],
         NEW s \in Nat, NEW n \in Nat, NEW st \in {"moved", "lost"},
         st = "moved" => s + n <= PhysSectors[d],
         NEW c \in Filled(d, b, s, n, st)
  PROVE  /\ c \in [Slot -> Data \cup {Junk}]
         /\ st = "moved" => \A i \in Slot : i < n => c[i] = Content(d, s + i)
<1>1. CASE st = "moved"
  <2>1. c = [i \in Slot |-> IF i < n THEN Content(d, s + i) ELSE b[i]]
    BY <1>1 DEF Filled
  <2>2. ASSUME NEW i \in Slot, i < n
        PROVE  Content(d, s + i) \in Data
    <3>1. s + i \in Sector /\ s + i < PhysSectors[d]
      BY <1>1, <2>2, DriveAssumption, SizeAssumption DEF Slot, Sector
    <3> QED BY <3>1 DEF Content, TypeOK
  <2> QED BY <2>1, <2>2, <1>1
<1>2. CASE st = "lost"
  BY <1>2 DEF Filled, BlankBuf
<1> QED BY <1>1, <1>2

-----------------------------------------------------------------------------
(* The inductive invariant holds in every initial state.                   *)
LEMMA InitIInv ==
  ASSUME Init
  PROVE  IInv
<1>1. TypeOK
  BY SizeAssumption, DriveAssumption, DataAssumption
  DEF Init, TypeOK, NoPart, NoCall, NoGeom, BlankBuf, BlankOut, GeometryType, Errors, ReadErrors, Doubts
<1>2. GeomInv /\ CallInv /\ OutInv /\ BufferInv /\ RoundInv /\ WroteInv
  BY DriveAssumption
  DEF Init, GeomInv, CallInv, OutInv, BufferInv, RoundInv, WroteInv
<1> QED BY <1>1, <1>2 DEF IInv

(* A step that keeps the media keeps what the sectors mean.                *)
LEMMA LogicalFrame ==
  ASSUME disk' = disk
  PROVE  \A d, s : Logical(d, s)' = Logical(d, s)
BY DEF Logical, Content, IsEZD

(* At the prompt the buffer promises nothing: a medium may be exchanged.   *)
LEMMA ExchangeMediumIInv ==
  ASSUME IInv, NEW d \in Drives, ExchangeMedium(d)
  PROVE  IInv'
<1>1. PICK m \in Media[d] : disk' = [disk EXCEPT ![d] = m]
  BY DEF ExchangeMedium
<1>2. TypeOK'
  BY <1>1, DataAssumption DEF ExchangeMedium, IInv, TypeOK, bufvars
<1>4. (GeomInv /\ CallInv /\ OutInv /\ BufferInv /\ RoundInv /\ WroteInv)'
  BY DEF ExchangeMedium, IInv, GeomInv, CallInv, OutInv, BufferInv, RoundInv,
         WroteInv, bufvars
<1> QED BY <1>2, <1>4 DEF IInv

(* The steps of a command outside a transfer.                              *)
LEMMA CommandIInv ==
  ASSUME IInv,
         StartCommand \/ EndCommand \/ IgnoreError \/ InvalidateTrack \/ Return
  PROVE  IInv'
<1> USE LogicalFrame
<1>1. CASE StartCommand
  <2>1. TypeOK'
    BY <1>1 DEF StartCommand, IInv, TypeOK, NoPart, Errors, ReadErrors
  <2> QED BY <1>1, <2>1, DriveAssumption
          DEF StartCommand, IInv, GeomInv, CallInv, OutInv, BufferInv,
              RoundInv, WroteInv, NoPart
<1>2. CASE EndCommand
  <2>1. TypeOK'
    BY <1>2 DEF EndCommand, IInv, TypeOK, bufvars
  <2> QED BY <1>2, <2>1
          DEF EndCommand, IInv, GeomInv, CallInv, OutInv, BufferInv,
              RoundInv, WroteInv, bufvars
<1>3. CASE IgnoreError
  <2>1. TypeOK'
    BY <1>3 DEF IgnoreError, IInv, TypeOK, bufvars, Errors, ReadErrors
  <2>2. BufferInv'
    BY <1>3 DEF IgnoreError, IInv, BufferInv, Coherent, V, bufvars, ReadErrors
  <2> QED BY <1>3, <2>1, <2>2
          DEF IgnoreError, IInv, GeomInv, CallInv, OutInv,
              RoundInv, WroteInv, bufvars
<1>4. CASE InvalidateTrack
  <2>1. TypeOK'
    BY <1>4 DEF InvalidateTrack, IInv, TypeOK
  <2> QED BY <1>4, <2>1
          DEF InvalidateTrack, IInv, GeomInv, CallInv, OutInv, BufferInv,
              RoundInv, WroteInv
<1>5. CASE Return
  <2>1. TypeOK'
    BY <1>5 DEF Return, IInv, TypeOK, NoCall, BlankOut, bufvars
  <2>2. BufferInv'
    BY <1>5 DEF Return, IInv, BufferInv, Coherent, V, bufvars
  <2> QED BY <1>5, <2>1, <2>2
          DEF Return, IInv, GeomInv, CallInv, OutInv,
              RoundInv, WroteInv, bufvars
<1> QED BY <1>1, <1>2, <1>3, <1>4, <1>5

(* Opening a partition brings the geometry of the drive with it.           *)
LEMMA OpenPartitionIInv ==
  ASSUME IInv, NEW d \in Drives, OpenPartition(d)
  PROVE  IInv'
<1> USE LogicalFrame
<1>1. TypeOK'
  <2> DEFINE P(g) == Partitions[d] \cup {<<0, g.total_sectors>>}
  <2>1. \A g \in GeometryType : \A p \in P(g) : p[1] \in Nat /\ p[2] \in Nat
    BY DriveAssumption DEF GeometryType
  <2>2. Geometry[d] \in GeometryType /\ buf_geom \in GeometryType
    BY DriveAssumption DEF IInv, TypeOK
  <2>3. DiskinfoFailed(buf_geom) \in GeometryType
    BY <2>2 DEF DiskinfoFailed, GeometryType
  <2>4. /\ buf_geom' \in GeometryType
        /\ buf_drive' \in Drives \cup {NoDrive} /\ buf_track' \in Int
        /\ errnum' \in Errors /\ buf' = buf
    BY <2>2, <2>3 DEF OpenPartition, IInv, TypeOK, bufvars, Errors, ReadErrors
  <2>5. part' \in [drive : Drives \cup {NoDrive}, start : Nat, length : Nat]
    BY <2>1, <2>2 DEF OpenPartition, NoPart
  <2> QED BY <2>4, <2>5 DEF OpenPartition, IInv, TypeOK
<1>2. GeomInv'
  BY VTrackFacts, DriveAssumption
  DEF OpenPartition, IInv, TypeOK, GeomInv, SameGeom, DiskinfoFailed,
      GeometryType, bufvars
<1>3. BufferInv'
  BY DEF OpenPartition, IInv, BufferInv, Coherent, V, bufvars
<1> QED BY <1>1, <1>2, <1>3
    DEF OpenPartition, IInv, CallInv, OutInv, RoundInv, WroteInv

(* Starting a transfer.                                                    *)
LEMMA StartTransferIInv ==
  ASSUME IInv,
         \/ \E d \in Drives, s \in Sector : RawRead(d, s)
         \/ \E s \in Sector, n \in 1 .. MaxLength : DevRead(s, n)
         \/ \E d \in Drives : \E w \in Writes[d] :
              /\ w[1] + w[2] <= PhysSectors[d]
              /\ w[1] = 0 => w[3] \notin EzData
              /\ DevWrite(d, w[1], w[2], w[3])
  PROVE  IInv'
<1> USE LogicalFrame, SizeAssumption
<1>1. ASSUME NEW d \in Drives, NEW s \in Sector, RawRead(d, s)
      PROVE  IInv'
  <2>1. TypeOK'
    BY <1>1 DEF RawRead, IInv, TypeOK, Call, BlankOut, bufvars, Sector
  <2>2. BufferInv'
    BY <1>1 DEF RawRead, IInv, BufferInv, Coherent, V, bufvars
  <2> QED BY <1>1, <2>1, <2>2
          DEF RawRead, IInv, GeomInv, CallInv, OutInv, RoundInv,
              WroteInv, Call, bufvars, Sector
<1>2. ASSUME NEW s \in Sector, NEW n \in 1 .. MaxLength, DevRead(s, n)
      PROVE  IInv'
  <2>1. TypeOK'
    <3>1. CASE s + n - 1 >= part.length
      BY <1>2, <3>1 DEF DevRead, IInv, TypeOK, bufvars, Errors, ReadErrors
    <3>2. CASE ~(s + n - 1 >= part.length)
      <4>1. Call(part.drive, part.start + s, n, Junk) \in
              [drive : Drives \cup {NoDrive}, first : Nat, last : Nat,
               sector : Nat, value : Data \cup {Junk}]
        BY DEF Call, IInv, TypeOK, Sector
      <4> QED BY <1>2, <3>2, <4>1 DEF DevRead, IInv, TypeOK, BlankOut, bufvars
    <3> QED BY <3>1, <3>2
  <2>2. BufferInv'
    BY <1>2 DEF DevRead, IInv, BufferInv, Coherent, V, bufvars
  <2>3. CallInv'
    <3>1. CASE s + n - 1 >= part.length
      BY <1>2, <3>1 DEF DevRead, IInv, CallInv, bufvars
    <3>2. CASE ~(s + n - 1 >= part.length)
      <4>1. part.drive \in Drives /\ part.start \in Nat /\ part.length \in Nat
        BY <1>2 DEF DevRead, IInv, TypeOK
      <4>2. /\ pc' = "reading" /\ errnum' = "none"
            /\ call'.drive = part.drive
            /\ call'.first = part.start + s
            /\ call'.last = part.start + s + n - 1
            /\ call'.sector = part.start + s
        BY <1>2, <3>2 DEF DevRead, Call
      <4> QED BY <4>1, <4>2, <3>2 DEF CallInv, Sector
    <3> QED BY <3>1, <3>2
  <2> QED BY <1>2, <2>1, <2>2, <2>3
          DEF DevRead, IInv, GeomInv, OutInv, RoundInv,
              WroteInv, Call, bufvars, Sector, TypeOK
<1>3. ASSUME NEW d \in Drives, NEW s \in Sector, NEW n \in Nat \ {0}, NEW v \in Data,
             s + n <= PhysSectors[d], s = 0 => v \notin EzData, DevWrite(d, s, n, v)
      PROVE  IInv'
  <2>1. TypeOK'
    BY <1>3 DEF DevWrite, IInv, TypeOK, Call, bufvars, Sector
  <2>2. BufferInv'
    BY <1>3 DEF DevWrite, IInv, BufferInv, Coherent, V, bufvars
  <2>3. CallInv'
    BY <1>3, DriveAssumption DEF DevWrite, IInv, CallInv, Call, bufvars, Sector
  <2> QED BY <1>3, <2>1, <2>2, <2>3
          DEF DevWrite, IInv, GeomInv, OutInv, RoundInv,
              WroteInv, Call, bufvars, Sector
<1>4. ASSUME NEW d \in Drives, NEW w \in Writes[d]
      PROVE  w[1] \in Sector /\ w[2] \in Nat \ {0} /\ w[3] \in Data
  BY DataAssumption
<1> QED BY <1>1, <1>2, <1>3, <1>4

-----------------------------------------------------------------------------
(* Writing.                                                                *)

(* A write changes the meaning of no sector but the one written, and of    *)
(* sector 0 when sector 1 of an EZ-Drive disk was written.                 *)
LEMMA WriteOthers ==
  ASSUME TypeOK, NEW d \in Drives, NEW t \in Nat, NEW v,
         disk' = [disk EXCEPT ![d][t] = v],
         NEW s \in Nat, s # t, ~(s = 0 /\ t = 1)
  PROVE  Logical(d, s)' = Logical(d, s)
<1>1. \A r \in Nat : r < PhysSectors[d] => r \in Sector
  BY DriveAssumption, SizeAssumption DEF Sector
<1>2. \A r \in Nat : r # t => Content(d, r)' = Content(d, r)
  BY <1>1 DEF Content, TypeOK
<1>3. Content(d, s)' = Content(d, s)
  BY <1>2
<1>4. CASE s # 0
  BY <1>3, <1>4 DEF Logical
<1>5. CASE s = 0
  <2>1. Content(d, 0)' = Content(d, 0) /\ Content(d, 1)' = Content(d, 1)
    BY <1>2, <1>5
  <2> QED BY <2>1, <1>5 DEF Logical, IsEZD
<1> QED BY <1>4, <1>5

(* A write that took place gives the sector written the value written, and *)
(* sector 0 too when sector 1 of an EZ-Drive disk was written.             *)
LEMMA WriteEffect ==
  ASSUME TypeOK, NEW d \in Drives, NEW t \in Nat, NEW v \in Data,
         t = 0 => v \notin EzData, t < PhysSectors[d],
         disk' = [disk EXCEPT ![d][t] = v]
  PROVE  /\ Logical(d, t)' = v
         /\ t = 1 /\ IsEZD(Content(d, 0)) => Logical(d, 0)' = v
         /\ t = 1 /\ ~IsEZD(Content(d, 0)) => Logical(d, 0)' = Logical(d, 0)
<1>1. \A s \in Nat : s < PhysSectors[d] => s \in Sector
  BY DriveAssumption, SizeAssumption DEF Sector
<1>2. Content(d, t)' = v
  BY <1>1 DEF Content, TypeOK
<1>3. \A s \in Nat : s # t => Content(d, s)' = Content(d, s)
  BY <1>1 DEF Content, TypeOK
<1>4. \A s : Logical(d, s)' = IF s = 0 /\ IsEZD(Content(d, 0)') THEN Content(d, 1)'
                                                              ELSE Content(d, s)'
  BY DEF Logical, IsEZD
<1>5. Logical(d, 0) = IF IsEZD(Content(d, 0)) THEN Content(d, 1) ELSE Content(d, 0)
  BY DEF Logical
<1>6. t = 0 => ~IsEZD(v)
  BY DEF IsEZD
<1>7. t = 1 => Content(d, 0)' = Content(d, 0)
  BY <1>3
<1> HIDE DEF Logical, Content, IsEZD
<1>8. Logical(d, t)' = v
  BY <1>2, <1>4, <1>6
<1> QED BY <1>2, <1>4, <1>5, <1>7, <1>8

(* One round of devwrite, on the sector rawwrite chose.                    *)
LEMMA WriteSectorIInv ==
  ASSUME IInv, pc = "writing",
         NEW g \in GeometryType, SameGeom(g, call.drive),
         NEW t \in Nat, NEW D \in SUBSET Doubts,
         t = call.sector \/ (t = 1 /\ call.sector = 0),
         t # call.sector /\ "dropped" \notin D => IsEZD(Content(call.drive, 0)),
         WriteSector(t, g, D)
  PROVE  IInv'
<1>0. PICK d, v, bt : d = call.drive /\ v = call.value /\ bt = buf_track
  OBVIOUS
<1> DEFINE W == V(d)
<1>1. /\ d \in Drives /\ buf_drive = d /\ v \in Data /\ errnum = "none"
      /\ call.first = 0 => v \notin EzData
      /\ call.first \in Nat /\ call.last \in Nat /\ call.sector \in Nat
      /\ call.first <= call.sector /\ call.sector <= call.last
      /\ call.last < PhysSectors[d] /\ TypeOK
      /\ PhysSectors[d] \in Nat /\ PhysSectors[d] <= MaxSector
  <2>1. TypeOK /\ CallInv
    BY DEF IInv
  <2>2. call \in [drive : Drives \cup {NoDrive}, first : Nat, last : Nat,
                  sector : Nat, value : Data \cup {Junk}]
    BY <2>1 DEF TypeOK
  <2>3. /\ call.drive \in Drives /\ buf_drive = call.drive /\ call.value \in Data
        /\ errnum = "none" /\ (call.first = 0 => call.value \notin EzData)
        /\ call.first <= call.sector /\ call.sector <= call.last
        /\ call.last < PhysSectors[call.drive]
    BY <2>1 DEF CallInv
  <2>4. PhysSectors[call.drive] \in Nat /\ PhysSectors[call.drive] <= MaxSector
    BY <2>3, DriveAssumption, SizeAssumption
  <2> QED BY <2>1, <2>2, <2>3, <2>4, <1>0
<1>w. t = 0 => v \notin EzData
  BY <1>1
<1>2. PICK o \in biosdisk(d, g, t, 1) :
        /\ disk' \in {[disk EXCEPT ![d][t] = v]} \cup {x \in {disk} : o.data = "lost"}
        /\ buf_geom' = o.geom
        /\ IF o.err = "none"
           THEN /\ errnum' = "none"
                /\ buf_track' = IF t - (t % o.geom.sectors) = buf_track THEN -1
                                                                      ELSE buf_track
                /\ call' = [call EXCEPT !.sector = IF call.sector = call.last THEN @
                                                                            ELSE @ + 1]
                /\ pc' = IF call.sector = call.last THEN "written" ELSE "writing"
           ELSE /\ errnum' = "ERR_WRITE"
                /\ pc' = "written"
                /\ UNCHANGED <<buf_track, call>>
        /\ doubt' = doubt \cup D \cup Dropped(o) \cup Kept(o, t)
        /\ UNCHANGED <<firmware, buf, buf_drive, part, out>>
  BY <1>0 DEF WriteSector
<1>3. /\ o.geom \in GeometryType /\ SameGeom(o.geom, d)
      /\ o.data \in {"moved", "lost"}
      /\ Dropped(o) \in SUBSET {"dropped"}
      /\ o.err = "none" /\ "dropped" \notin Dropped(o) => o.data = "moved"
      /\ o.data = "moved" => t + 1 <= PhysSectors[d]
  BY <1>0, <1>1, BiosFacts
<1>4. W \in Nat \ {0, 1} /\ VTrack(buf_geom) = W
  BY <1>1, VTrackFacts DEF IInv, GeomInv, TypeOK
<1> HIDE DEF W
<1>5. disk' \in [Drives -> [Sector -> Data]]
  <2>1. disk \in [Drives -> [Sector -> Data]]
    BY <1>1 DEF TypeOK
  <2>2. disk' = [disk EXCEPT ![d][t] = v] \/ disk' = disk
    BY <1>2
  <2> QED BY <2>1, <2>2, <1>1
<1>6. buf_track' \in Int /\ (buf_track' = buf_track \/ buf_track' = -1)
  BY <1>1, <1>2 DEF TypeOK
<1>7. /\ call' \in [drive : Drives \cup {NoDrive}, first : Nat, last : Nat,
                     sector : Nat, value : Data \cup {Junk}]
      /\ call'.drive = d /\ call'.first = call.first /\ call'.last = call.last
      /\ call'.value = v
      /\ call'.sector = IF o.err = "none" /\ call.sector # call.last
                        THEN call.sector + 1 ELSE call.sector
  <2>1. CASE o.err = "none"
    <3>1. call' = [call EXCEPT !.sector = IF call.sector = call.last THEN @ ELSE @ + 1]
      BY <1>2, <2>1
    <3> QED BY <3>1, <2>1, <1>0, <1>1 DEF TypeOK
  <2>2. CASE o.err # "none"
    BY <2>2, <1>0, <1>1, <1>2 DEF TypeOK
  <2> QED BY <2>1, <2>2
<1>8. /\ pc' \in {"writing", "written"} /\ errnum' \in {"none", "ERR_WRITE"}
      /\ pc' = "writing" => errnum' = "none" /\ o.err = "none" /\ call.sector # call.last
      /\ errnum' = "none" => o.err = "none"
      /\ pc' = "written" /\ errnum' = "none" => call.sector = call.last
      /\ buf' = buf /\ buf_drive' = d /\ buf_geom' = o.geom /\ part' = part /\ out' = out
      /\ firmware' = firmware
  BY <1>1, <1>2
<1>9. TypeOK'
  <2>1. doubt' \in SUBSET Doubts
    <3>1. Kept(o, t) \in SUBSET {"kept"}
      BY DEF Kept
    <3> QED BY <3>1, <1>1, <1>2, <1>3 DEF TypeOK, Doubts
  <2> QED BY <2>1, <1>1, <1>3, <1>5, <1>6, <1>7, <1>8 DEF TypeOK, Errors, ReadErrors
<1>11. (GeomInv /\ OutInv /\ RoundInv)'
  BY <1>3, <1>8 DEF IInv, GeomInv, OutInv, RoundInv
<1>12. CallInv'
  BY <1>1, <1>7, <1>8 DEF CallInv
<1>13. ASSUME NEW s \in Nat, s # t, ~(s = 0 /\ t = 1)
       PROVE  Logical(d, s)' = Logical(d, s)
  <2>1. CASE disk' = [disk EXCEPT ![d][t] = v]
    BY <2>1, <1>1, <1>13, WriteOthers
  <2>2. CASE disk' = disk
    BY <2>2, LogicalFrame
  <2> QED BY <2>1, <2>2, <1>2
<1>14. BufferInv'
  <2>1. CASE buf_track' = -1
    BY <2>1 DEF BufferInv
  <2>2. CASE doubt' # {} /\ buf_track' # -1
    <3>1. buf_track' \in Nat /\ buf_track' % W = 0
      BY <2>2, <1>0, <1>1, <1>6 DEF IInv, BufferInv, W
    <3> QED BY <3>1, <2>2, <1>8 DEF BufferInv, W, V
  <2>3. CASE doubt' = {} /\ buf_track' # -1
    <3>1. /\ buf_track' = bt /\ bt \in Nat /\ bt % W = 0
          /\ doubt = {} /\ Kept(o, t) = {}
      BY <2>3, <1>0, <1>1, <1>2, <1>6 DEF IInv, BufferInv, W
    <3>w. VTrack(o.geom) = W /\ o.geom.sectors \in Nat /\ W <= o.geom.sectors
      BY <1>1, <1>3, VTrackFacts DEF W, VTrack, GeometryType
    <3>2. ~(bt <= t /\ t < bt + W)
      <4>1. CASE o.err # "none" \/ W < o.geom.sectors
        BY <4>1, <3>w, <3>1, <1>4 DEF Kept
      <4>2. CASE o.err = "none" /\ W = o.geom.sectors
        <5>1. t - (t % W) # bt
          BY <4>2, <3>1, <2>3, <1>2, <1>0
        <5> QED BY <5>1, <3>1, <1>4, SameTrack
      <4> QED BY <4>1, <4>2, <3>w, <1>4
    <3>3. \A i \in 0 .. W - 1 : buf[i] = Logical(d, bt + i)
      BY <3>1, <2>3, <1>0, <1>1 DEF IInv, BufferInv, Coherent, W
    <3>4. ASSUME NEW i \in 0 .. W - 1
          PROVE  Logical(d, bt + i)' = Logical(d, bt + i)
      <4>1. bt + i \in Nat /\ bt + i # t
        BY <3>1, <3>2, <1>4
      <4>2. ~(bt + i = 0 /\ t = 1)
        BY <3>1, <3>2, <1>4
      <4> QED BY <4>1, <4>2, <1>13
    <3>5. Coherent'
      BY <3>1, <3>3, <3>4, <1>8 DEF Coherent, W, V
    <3> QED BY <3>1, <3>5, <1>8 DEF BufferInv, W, V
  <2> QED BY <2>1, <2>2, <2>3
<1>15. WroteInv'
  <2>1. SUFFICES ASSUME errnum' = "none", "dropped" \notin doubt', NEW s \in Sector,
                        call.first <= s, s <= call.last, s <= call.sector
                 PROVE  Logical(d, s)' = v
    BY <1>1, <1>7, <1>8 DEF WroteInv, Sector
  <2>2. o.data = "moved" /\ "dropped" \notin doubt /\ "dropped" \notin D
    BY <2>1, <1>2, <1>3, <1>8
  <2>3. /\ s \in Nat /\ t < PhysSectors[d]
        /\ t # call.sector => IsEZD(Content(d, 0))
    BY <2>2, <1>0, <1>1, <1>3, SizeAssumption DEF Sector
  <2>4. /\ Logical(d, t)' = v
        /\ t = 1 /\ IsEZD(Content(d, 0)) => Logical(d, 0)' = v
        /\ t = 1 /\ ~IsEZD(Content(d, 0)) => Logical(d, 0)' = Logical(d, 0)
    <3>1. disk' = [disk EXCEPT ![d][t] = v]
      BY <2>2, <1>2
    <3> QED BY <3>1, <2>3, <1>1, <1>w, WriteEffect
  <2>5. s < call.sector => Logical(d, s) = v
    BY <2>1, <2>2, <1>0, <1>1 DEF IInv, WroteInv
  <2>6. CASE s = call.sector
    BY <2>3, <2>4, <2>6
  <2>7. CASE s < call.sector
    <3>1. s # t
      BY <2>3, <2>7, <1>1
    <3> QED BY <2>3, <2>4, <2>5, <2>7, <3>1, <1>13
  <2> QED BY <2>1, <2>3, <2>6, <2>7, <1>1
<1> QED BY <1>9, <1>11, <1>12, <1>14, <1>15 DEF IInv

(* The steps of devwrite.                                                  *)
LEMMA WriteIInv ==
  ASSUME IInv, WriteStep \/ WriteStep0
  PROVE  IInv'
<1>1. /\ pc = "writing" /\ call.drive \in Drives /\ call.sector \in Nat
      /\ buf_geom \in GeometryType /\ SameGeom(buf_geom, call.drive) /\ TypeOK
      /\ buf_drive = call.drive /\ errnum = "none"
  BY DEF WriteStep, WriteStep0, IInv, CallInv, GeomInv, TypeOK
<1>2. CASE WriteStep
  <2>1. WriteSector(call.sector, buf_geom, {}) /\ {} \in SUBSET Doubts
    BY <1>2 DEF WriteStep
  <2> QED BY <2>1, <1>1, WriteSectorIInv
<1>3. CASE WriteStep0
  <2>1. PICK o \in biosdisk(call.drive, buf_geom, 0, 1) :
        \/ /\ o.err # "none"
           /\ errnum' = "ERR_WRITE"
           /\ pc' = "written"
           /\ buf_geom' = o.geom
           /\ UNCHANGED <<firmware, disk, buf, buf_drive, buf_track, part, call, out,
                          doubt>>
        \/ /\ o.err = "none"
           /\ \E ez \in IF o.data = "moved" THEN {IsEZD(Content(call.drive, 0))}
                                           ELSE BOOLEAN :
                WriteSector(IF ez THEN 1 ELSE 0, o.geom, Dropped(o))
    BY <1>3 DEF WriteStep0
  <2>2. /\ o.geom \in GeometryType /\ SameGeom(o.geom, call.drive)
        /\ Dropped(o) \in SUBSET Doubts
        /\ o.err = "none" /\ "dropped" \notin Dropped(o) => o.data = "moved"
    BY <1>1, BiosFacts DEF Doubts
  <2>3. CASE o.err # "none"
    <3>0. /\ errnum' = "ERR_WRITE" /\ pc' = "written" /\ buf_geom' = o.geom
          /\ UNCHANGED <<firmware, disk, buf, buf_drive, buf_track, part, call, out, doubt>>
      BY <2>1, <2>3
    <3>1. TypeOK'
      BY <3>0, <2>2, <1>1 DEF TypeOK, Errors
    <3>2. BufferInv'
      BY <3>0, <1>1, LogicalFrame DEF IInv, BufferInv, Coherent, V
    <3> QED BY <3>0, <2>2, <3>1, <3>2, <1>1
            DEF IInv, GeomInv, CallInv, OutInv, RoundInv, WroteInv
  <2>4. CASE o.err = "none"
    <3>1. PICK ez \in IF o.data = "moved" THEN {IsEZD(Content(call.drive, 0))}
                                          ELSE BOOLEAN :
            WriteSector(IF ez THEN 1 ELSE 0, o.geom, Dropped(o))
      BY <2>1, <2>4
    <3>2. /\ call.sector = 0
          /\ "dropped" \notin Dropped(o) => ez = IsEZD(Content(call.drive, 0))
      BY <1>3, <2>2, <2>4 DEF WriteStep0
    <3>3. CASE ez
      <4>1. WriteSector(1, o.geom, Dropped(o))
        BY <3>1, <3>3
      <4> QED BY <4>1, <3>2, <3>3, <2>2, <1>1, WriteSectorIInv
    <3>4. CASE ~ez
      <4>1. WriteSector(0, o.geom, Dropped(o))
        BY <3>1, <3>4
      <4> QED BY <4>1, <3>2, <2>2, <1>1, WriteSectorIInv
    <3> QED BY <3>3, <3>4
  <2> QED BY <2>3, <2>4
<1> QED BY <1>2, <1>3

-----------------------------------------------------------------------------
(* Reading.                                                                *)

(* The numbers of one round of rawread.                                    *)
LEMMA RoundFacts ==
  ASSUME IInv, pc = "reading"
  PROVE  /\ call.drive \in Drives /\ errnum = "none"
         /\ call.first \in Nat /\ call.last \in Nat /\ call.sector \in Nat
         /\ call.first <= call.sector /\ call.sector <= call.last
         /\ V(call.drive) \in Nat \ {0, 1} /\ V(call.drive) <= BufferSlots
         /\ CallGeom \in GeometryType /\ SameGeom(CallGeom, call.drive)
         /\ VTrack(CallGeom) = V(call.drive)
         /\ soff(CallGeom) \in 0 .. V(call.drive) - 1
         /\ track(CallGeom) \in Nat /\ track(CallGeom) % V(call.drive) = 0
         /\ call.sector = track(CallGeom) + soff(CallGeom)
         /\ num_sect(CallGeom) = V(call.drive) - soff(CallGeom)
         /\ call.sector + num_sect(CallGeom) = track(CallGeom) + V(call.drive)
         /\ (call.sector + num_sect(CallGeom)) % V(call.drive) = 0
         /\ left \in Nat \ {0}
<1>1. /\ call.drive \in Drives /\ errnum = "none"
      /\ call.first \in Nat /\ call.last \in Nat /\ call.sector \in Nat
      /\ call.first <= call.sector /\ call.sector <= call.last
  BY DEF IInv, CallInv, TypeOK
<1>2. CallGeom \in GeometryType /\ SameGeom(CallGeom, call.drive)
  BY <1>1, VTrackFacts DEF CallGeom, IInv, TypeOK, GeomInv
<1>3. /\ V(call.drive) \in Nat \ {0, 1} /\ V(call.drive) <= BufferSlots
      /\ VTrack(CallGeom) = V(call.drive)
  BY <1>1, <1>2, VTrackFacts
<1>4. /\ soff(CallGeom) = call.sector % V(call.drive)
      /\ track(CallGeom) = call.sector - (call.sector % V(call.drive))
      /\ num_sect(CallGeom) = V(call.drive) - (call.sector % V(call.drive))
  BY <1>3 DEF soff, track, num_sect
<1>5. call.sector % V(call.drive) \in 0 .. V(call.drive) - 1
  BY <1>1, <1>3, ModRange
<1>6. track(CallGeom) \in Nat
  BY <1>1, <1>3, <1>4, TrackAligned
<1>7. track(CallGeom) % V(call.drive) = 0
  BY <1>1, <1>3, <1>4, TrackAligned
<1>8. call.sector + num_sect(CallGeom) = track(CallGeom) + V(call.drive)
  BY <1>1, <1>3, <1>4, <1>5
<1>9. (call.sector + num_sect(CallGeom)) % V(call.drive) = 0
  BY <1>3, <1>6, <1>7, <1>8, NextTrackAligned
<1>10. left \in Nat \ {0}
  BY <1>1 DEF left
<1>11. call.sector = track(CallGeom) + soff(CallGeom)
  BY <1>1, <1>3, <1>4, <1>5
<1> QED BY <1>1, <1>2, <1>3, <1>4, <1>5, <1>6, <1>7, <1>8, <1>9, <1>10, <1>11

(* A round that delivers right data, and leaves the buffer invalid or      *)
(* right or out of the way of the next round, keeps the invariant.         *)
LEMMA DeliverIInv ==
  ASSUME IInv, pc = "reading",
         NEW g \in GeometryType, SameGeom(g, call.drive),
         NEW b \in [Slot -> Data \cup {Junk}],
         NEW bt \in Int, NEW base \in 0 .. soff(CallGeom), NEW e \in Errors,
         NEW D \in SUBSET Doubts,
         e = "none" /\ doubt \cup D = {} =>
           \A s \in Sector :
             call.sector <= s /\ s <= call.last /\ s < call.sector + num_sect(CallGeom)
               => b[base + s - call.sector] = Logical(call.drive, s),
         \/ bt = -1
         \/ /\ bt = track(CallGeom) /\ e = "none"
            /\ left <= num_sect(CallGeom) /\ doubt \cup D = {} =>
                 \A i \in 0 .. V(call.drive) - 1 : b[i] = Logical(call.drive, bt + i),
         Deliver(g, b, bt, base, e, D)
  PROVE  IInv'
<1>0. PICK d, c, last, n, W : /\ d = call.drive /\ c = call.sector /\ last = call.last
                             /\ n = num_sect(CallGeom) /\ W = V(call.drive)
  OBVIOUS
<1>1. /\ d \in Drives /\ c \in Nat /\ last \in Nat /\ c <= last
      /\ call.first \in Nat /\ call.first <= c /\ errnum = "none"
      /\ W \in Nat \ {0, 1} /\ W <= BufferSlots /\ n \in Nat \ {0}
      /\ c + n = track(CallGeom) + W /\ (c + n) % W = 0
      /\ base \in Nat /\ base + n <= W
      /\ bt = -1 \/ (bt \in Nat /\ bt % W = 0 /\ bt = track(CallGeom))
      /\ bt < c + n
  BY <1>0, RoundFacts
<1>2. /\ buf' = b /\ buf_drive' = d /\ buf_track' = bt /\ buf_geom' = g /\ errnum' = e
      /\ out' = [s \in Sector |-> IF s \in c .. last /\ s < c + n
                                 THEN b[base + s - c] ELSE out[s]]
      /\ call' = [call EXCEPT !.sector = c + n]
      /\ disk' = disk /\ part' = part /\ firmware' = firmware /\ doubt' = doubt \cup D
  BY <1>0 DEF Deliver
<1>3. pc' = IF e # "none" \/ last - c + 1 <= n THEN "read" ELSE "reading"
  BY <1>0 DEF Deliver, left
<1>4. /\ call' \in [drive : Drives \cup {NoDrive}, first : Nat, last : Nat,
                     sector : Nat, value : Data \cup {Junk}]
      /\ call'.drive = d /\ call'.first = call.first /\ call'.last = last
      /\ call'.sector = c + n
  <2>1. call \in [drive : Drives \cup {NoDrive}, first : Nat, last : Nat,
                  sector : Nat, value : Data \cup {Junk}]
    BY DEF IInv, TypeOK
  <2>2. c + n \in Nat
    BY <1>1
  <2> QED BY <2>1, <2>2, <1>0, <1>2
<1>5. out' \in [Sector -> Data \cup {Junk}]
  <2>1. ASSUME NEW s \in Sector, s \in c .. last, s < c + n
        PROVE  b[base + s - c] \in Data \cup {Junk}
    <3>1. base + s - c \in Slot
      BY <2>1, <1>1, SizeAssumption DEF Slot, Sector
    <3> QED BY <3>1
  <2> QED BY <2>1, <1>2 DEF IInv, TypeOK
<1>6. TypeOK'
  BY <1>1, <1>2, <1>3, <1>4, <1>5 DEF IInv, TypeOK
<1>7. GeomInv' /\ WroteInv'
  BY <1>0, <1>2, <1>3 DEF IInv, GeomInv, WroteInv
<1>8. CallInv'
  BY <1>1, <1>2, <1>3, <1>4 DEF CallInv
<1>9. OutInv'
  <2>1. SUFFICES ASSUME e = "none", doubt \cup D = {}, NEW s \in Sector,
                        call.first <= s, s < c + n, s <= last
                 PROVE  out'[s] = Logical(d, s)'
    BY <1>2, <1>3, <1>4 DEF OutInv
  <2>2. Logical(d, s)' = Logical(d, s)
    BY <1>2, LogicalFrame
  <2>3. s \in Nat
    BY SizeAssumption DEF Sector
  <2>4. CASE s < c
    <3>1. out[s] = Logical(d, s)
      BY <2>1, <2>4, <1>0, <1>1 DEF IInv, OutInv
    <3> QED BY <3>1, <2>2, <2>3, <2>4, <1>1, <1>2
  <2>5. CASE ~(s < c)
    <3>1. b[base + s - c] = Logical(d, s)
      BY <2>1, <2>3, <2>5, <1>0, <1>1
    <3> QED BY <3>1, <2>1, <2>2, <2>3, <2>5, <1>1, <1>2
  <2> QED BY <2>4, <2>5
<1>10. RoundInv'
  BY <1>0, <1>1, <1>2, <1>4 DEF RoundInv, V
<1>11. BufferInv'
  <2>1. CASE bt = -1
    BY <2>1, <1>2 DEF BufferInv
  <2>2. CASE bt # -1
    <3>1. e = "none" /\ bt \in Nat /\ bt % W = 0 /\ W = V(d)
      BY <2>2, <1>0, <1>1
    <3>2. CASE pc' = "reading"
      BY <3>1, <3>2, <1>1, <1>2, <1>4 DEF BufferInv, V
    <3>4. CASE doubt' # {}
      BY <3>1, <3>4, <1>2 DEF BufferInv, V
    <3>3. CASE pc' # "reading" /\ doubt' = {}
      <4>1. left <= num_sect(CallGeom)
        BY <3>1, <3>3, <1>0, <1>3 DEF left
      <4>2. \A i \in 0 .. W - 1 : b[i] = Logical(d, bt + i)
        BY <2>2, <3>3, <4>1, <1>0, <1>2
      <4>3. Coherent'
        BY <3>1, <4>2, <1>2, LogicalFrame DEF Coherent, V
      <4> QED BY <3>1, <4>3, <1>2 DEF BufferInv, V
    <3> QED BY <3>2, <3>3, <3>4
  <2> QED BY <2>1, <2>2
<1> QED BY <1>6, <1>7, <1>8, <1>9, <1>10, <1>11 DEF IInv

(* The steps of rawread that touch no data.                                *)
LEMMA ReadFailIInv ==
  ASSUME IInv, ReadNoDisk \/ ReadBeyondDisk
  PROVE  IInv'
<1> USE LogicalFrame
<1>0. pc = "reading"
  BY DEF ReadNoDisk, ReadBeyondDisk
<1>1. CASE ReadNoDisk
  <2>1. TypeOK'
    <3>1. DiskinfoFailed(buf_geom) \in GeometryType
      BY DEF DiskinfoFailed, GeometryType, IInv, TypeOK
    <3> QED BY <1>1, <3>1 DEF ReadNoDisk, IInv, TypeOK, Errors, ReadErrors
  <2>2. GeomInv'
    BY <1>1 DEF ReadNoDisk, IInv, TypeOK, GeomInv, SameGeom, DiskinfoFailed, GeometryType
  <2>3. BufferInv'
    BY <1>1 DEF ReadNoDisk, IInv, BufferInv, RoundInv, CallInv, Coherent, V
  <2> QED BY <1>1, <2>1, <2>2, <2>3
          DEF ReadNoDisk, IInv, CallInv, OutInv, RoundInv, WroteInv
<1>2. CASE ReadBeyondDisk
  <2>1. /\ call.drive \in Drives /\ call.first \in Nat /\ call.last \in Nat
        /\ call.sector \in Nat /\ call.first <= call.sector /\ call.sector <= call.last
        /\ CallGeom \in GeometryType /\ SameGeom(CallGeom, call.drive)
        /\ CallGeom.total_sectors \in Nat /\ errnum = "none"
    BY <1>0, RoundFacts DEF GeometryType
  <2>3. TypeOK'
    <3>1. doubt' \in SUBSET Doubts
      BY <1>2 DEF ReadBeyondDisk, IInv, TypeOK, Doubts
    <3> QED BY <3>1, <1>2, <2>1
            DEF ReadBeyondDisk, CallTrack, IInv, TypeOK, Errors, ReadErrors
  <2>4. BufferInv'
    <3>1. call.first < call.sector => doubt' # {}
      BY <1>2 DEF ReadBeyondDisk
    <3> QED BY <3>1, <1>0, <1>2, <2>1
            DEF ReadBeyondDisk, CallTrack, IInv, BufferInv, Coherent, V
  <2> QED BY <1>2, <2>1, <2>3, <2>4
          DEF ReadBeyondDisk, IInv, GeomInv, CallInv, OutInv, RoundInv,
              WroteInv
<1> QED BY <1>1, <1>2

(* The track is in the buffer, and the buffer is right: between two rounds *)
(* of one rawread it cannot be a hit.                                      *)
LEMMA ReadHitIInv ==
  ASSUME IInv, ReadHit
  PROVE  IInv'
<1> DEFINE d == call.drive
           W == V(call.drive)
           g == CallGeom
<1>1. pc = "reading" /\ Deliver(g, buf, CallTrack, soff(g), "none", {})
  BY DEF ReadHit
<1>2. /\ d \in Drives /\ errnum = "none" /\ W \in Nat \ {0, 1}
      /\ call.sector \in Nat /\ call.last \in Nat /\ call.first <= call.sector
      /\ g \in GeometryType /\ SameGeom(g, d) /\ soff(g) \in 0 .. W - 1
      /\ track(g) \in Nat /\ track(g) % W = 0 /\ call.sector = track(g) + soff(g)
      /\ num_sect(g) = W - soff(g)
      /\ soff(g) = call.sector % W
  BY <1>1, RoundFacts DEF soff
<1>3. buf_drive = d /\ buf_track = track(g)
  BY <1>2 DEF ReadHit, CallTrack
<1>4. ~(call.first < call.sector)
  BY <1>1, <1>2, <1>3 DEF IInv, RoundInv
<1>5. doubt = {} => \A i \in 0 .. W - 1 : buf[i] = Logical(d, track(g) + i)
  BY <1>1, <1>2, <1>3, <1>4 DEF IInv, BufferInv, Coherent
<1> HIDE DEF d, W, g
<1>6. doubt = {} =>
        \A s \in Sector : call.sector <= s /\ s < call.sector + num_sect(g) =>
          buf[soff(g) + s - call.sector] = Logical(d, s)
  <2>1. SUFFICES ASSUME doubt = {}, NEW s \in Sector, call.sector <= s, s < call.sector + num_sect(g)
                 PROVE  buf[soff(g) + s - call.sector] = Logical(d, s)
    OBVIOUS
  <2>2. /\ soff(g) + s - call.sector \in 0 .. W - 1
        /\ track(g) + (soff(g) + s - call.sector) = s
    BY <2>1, <1>2, SizeAssumption DEF Sector
  <2> QED BY <2>1, <2>2, <1>5
<1>7. buf \in [Slot -> Data \cup {Junk}] /\ "none" \in Errors /\ track(g) \in Int
      /\ soff(g) \in 0 .. soff(g) /\ CallTrack = track(g)
  BY <1>2, <1>3 DEF IInv, TypeOK, Errors, ReadErrors, CallTrack, d
<1>8. {} \in SUBSET Doubts /\ doubt \cup {} = doubt
  OBVIOUS
<1> QED BY <1>1, <1>2, <1>5, <1>6, <1>7, <1>8, DeliverIInv DEF d, W, g

(* What a read from track position start has brought, for the sectors this *)
(* round needs: the end of a track, the whole track, or only the needed    *)
(* sectors after an error.                                                 *)
EZDReady(g, b, start, len, bt, base, e, D) ==
  /\ g \in GeometryType /\ SameGeom(g, call.drive)
  /\ b \in [Slot -> Data \cup {Junk}]
  /\ start \in Nat /\ len \in Nat /\ bt \in Int
  /\ base \in 0 .. soff(CallGeom) /\ e \in Errors /\ D \in SUBSET Doubts
  /\ start + base = call.sector
  /\ e = "none" /\ D = {} => \A i \in Slot : i < len => b[i] = Content(call.drive, start + i)
  /\ len <= V(call.drive)
  /\ call.sector + num_sect(CallGeom) <= start + len \/ call.last < start + len
  /\ \/ bt = -1 /\ (e = "none" => start = call.sector /\ len = left)
     \/ /\ bt = track(CallGeom) /\ e = "none"
        /\ call.sector + num_sect(CallGeom) <= start + len
        /\ start = bt \/ (start = call.sector /\ left > num_sect(CallGeom))

(* Deliver after the EZ-Drive check.                                       *)
LEMMA DeliverEZDIInv ==
  ASSUME IInv, pc = "reading",
         NEW g, NEW b, NEW start, NEW len, NEW bt, NEW base, NEW e, NEW D,
         EZDReady(g, b, start, len, bt, base, e, D),
         DeliverEZD(g, b, bt, base, e, D)
  PROVE  IInv'
<1> USE DEF EZDReady
<1> DEFINE d == call.drive
           W == V(call.drive)
           c == call.sector
           n == num_sect(CallGeom)
<1>0. PICK k, T : k = soff(CallGeom) /\ T = track(CallGeom)
  OBVIOUS
<1>1. /\ d \in Drives /\ c \in Nat /\ call.last \in Nat /\ c <= call.last
      /\ W \in Nat \ {0, 1} /\ W <= BufferSlots /\ n = W - k /\ k \in 0 .. W - 1
      /\ T \in Nat /\ c = T + k /\ left = call.last - c + 1
      /\ T % W = 0 /\ base \in Nat /\ base <= k /\ start + base = c /\ len <= W
      /\ c + n <= start + len \/ call.last < start + len
      /\ len > 0
  BY <1>0, RoundFacts DEF left
<1>2. 0 \in Slot /\ 1 \in Slot
  BY <1>1, SizeAssumption DEF Slot
<1>3. ASSUME NEW x \in [Slot -> Data \cup {Junk}], NEW h \in GeometryType, SameGeom(h, d),
             NEW f \in Errors, NEW F \in SUBSET Doubts,
             f = "none" => e = "none", f # "none" => bt = -1,
             f = "none" /\ F = {} =>
               \A i \in Slot : i < len => x[i] = Logical(d, start + i),
             Deliver(h, x, bt, base, f, F)
      PROVE  IInv'
  <2>1. f = "none" /\ doubt \cup F = {} =>
          \A s \in Sector : c <= s /\ s <= call.last /\ s < c + n =>
            x[base + s - c] = Logical(d, s)
    <3>1. SUFFICES ASSUME f = "none", F = {},
                          NEW s \in Sector, c <= s, s <= call.last, s < c + n
                   PROVE  x[base + s - c] = Logical(d, s)
      OBVIOUS
    <3>2. /\ base + s - c \in Slot /\ base + s - c < len
          /\ start + (base + s - c) = s
      <4>1. s \in Nat
        BY SizeAssumption DEF Sector
      <4>2. base + s - c \in Nat /\ base + s - c < len
        BY <4>1, <3>1, <1>1
      <4>3. start + (base + s - c) = s
        BY <4>1, <1>1
      <4> QED BY <4>2, <4>3, <1>1, SizeAssumption DEF Slot
    <3> QED BY <3>1, <3>2, <1>3
  <2>2. \/ bt = -1
        \/ /\ bt = track(CallGeom) /\ f = "none"
           /\ left <= n /\ doubt \cup F = {} =>
                \A i \in 0 .. W - 1 : x[i] = Logical(d, bt + i)
    <3>0. bt # -1 => f = "none" /\ bt = track(CallGeom)
      BY <1>3
    <3>1. SUFFICES ASSUME bt # -1, left <= n, F = {}, NEW i \in 0 .. W - 1
                   PROVE  x[i] = Logical(d, bt + i)
      BY <3>0
    <3>2. f = "none" /\ bt = T /\ start = T /\ c + n <= start + len
      BY <3>1, <1>0, <1>1, <1>3
    <3>3. i \in Slot /\ i < len
      BY <3>1, <3>2, <1>1, SizeAssumption DEF Slot
    <3> QED BY <3>1, <3>2, <3>3, <1>0, <1>3
  <2> HIDE DEF d, W, c, n
  <2> QED BY <2>1, <2>2, <1>3, DeliverIInv DEF d, W, c, n
<1>4. e = "none" /\ D = {} =>
        \A i \in Slot : i < len /\ start + i # 0 => b[i] = Logical(d, start + i)
  BY DEF Logical
<1>5. /\ bt = -1 \/ bt = T
      /\ bt # -1 => e = "none" /\ c + n <= start + len /\ (start = T \/ start = c)
      /\ bt = -1 /\ e = "none" => start = c /\ len = left
  BY <1>0, <1>1
<1>6. e = "none" /\ D = {} => b[0] = Content(d, start)
  <2>1. e = "none" /\ D = {} => b[0] = Content(d, start + 0)
    BY <1>1, <1>2
  <2> QED BY <2>1
<1>7. Logical(d, 0) = IF IsEZD(Content(d, 0)) THEN Content(d, 1) ELSE Content(d, 0)
  BY DEF Logical
<1> DEFINE mapped == (bt = 0 \/ c = 0) /\ IsEZD(b[0])
<1>8. CASE ~mapped
  <2>1. Deliver(g, b, bt, base, e, D)
    BY <1>8 DEF DeliverEZD
  <2>2. e = "none" /\ D = {} => \A i \in Slot : i < len => b[i] = Logical(d, start + i)
    <3>1. SUFFICES ASSUME e = "none", D = {}, NEW i \in Slot, i < len, start + i = 0
                   PROVE  b[i] = Logical(d, start + i)
      BY <1>4
    <3>2. i = 0 /\ start = 0
      BY <3>1, SizeAssumption DEF Slot
    <3>3. bt = 0 \/ c = 0
      BY <3>1, <3>2, <1>1, <1>5
    <3> QED BY <3>1, <3>2, <3>3, <1>6, <1>7, <1>8
  <2>3. e # "none" => bt = -1
    BY <1>5
  <2> QED BY <2>1, <2>2, <2>3, <1>3
<1>9. CASE mapped /\ (bt = 0 \/ left >= 2)
  <2>1. PICK x, F : /\ x = [b EXCEPT ![0] = b[1]]
                    /\ F = D \cup {y \in {"mapped"} : c # base}
    OBVIOUS
  <2>2. Deliver(g, x, bt, base, e, F)
    BY <2>1, <1>9 DEF DeliverEZD
  <2>3. /\ x \in [Slot -> Data \cup {Junk}] /\ x[0] = b[1]
        /\ \A i \in Slot : i # 0 => x[i] = b[i]
    BY <2>1, <1>2
  <2>4. F \in SUBSET Doubts /\ (F = {} => D = {} /\ c = base)
    BY <2>1 DEF Doubts
  <2>5. e = "none" /\ F = {} => \A i \in Slot : i < len => x[i] = Logical(d, start + i)
    <3>1. SUFFICES ASSUME e = "none", F = {}, NEW i \in Slot, i < len
                   PROVE  x[i] = Logical(d, start + i)
      OBVIOUS
    <3>2. start = 0 /\ D = {}
      BY <3>1, <2>4, <1>1
    <3>3. len >= 2
      <4>1. CASE bt = 0
        BY <4>1, <3>2, <1>1, <1>5
      <4>2. CASE bt # 0
        BY <4>2, <3>1, <3>2, <1>1, <1>5, <1>9
      <4> QED BY <4>1, <4>2
    <3>4. b[1] = Content(d, 1)
      <4>1. b[1] = Content(d, start + 1)
        BY <3>1, <3>2, <3>3, <1>1, <1>2
      <4> QED BY <4>1, <3>2
    <3>5. CASE i = 0
      BY <3>1, <3>2, <3>4, <3>5, <2>3, <1>6, <1>7, <1>9
    <3>6. CASE i # 0
      <4>1. start + i # 0
        BY <3>2, <3>6, SizeAssumption DEF Slot
      <4> QED BY <4>1, <3>1, <3>2, <3>6, <2>3, <1>4
    <3> QED BY <3>5, <3>6
  <2>6. e # "none" => bt = -1
    BY <1>5
  <2> QED BY <2>2, <2>3, <2>4, <2>5, <2>6, <1>3
<1>10. CASE mapped /\ ~(bt = 0 \/ left >= 2)
  <2>1. PICK o \in biosdisk(d, g, 1, 1) : \E x \in Filled(d, b, 1, 1, o.data) :
          Deliver(o.geom, x, bt, base, IF o.err = "none" THEN e ELSE "ERR_READ",
                  D \cup Dropped(o))
    BY <1>10 DEF DeliverEZD
  <2>2. PICK x \in Filled(d, b, 1, 1, o.data) :
          Deliver(o.geom, x, bt, base, IF o.err = "none" THEN e ELSE "ERR_READ",
                  D \cup Dropped(o))
    BY <2>1
  <2>3. /\ o.geom \in GeometryType /\ SameGeom(o.geom, d)
        /\ o.data \in {"moved", "lost"}
        /\ Dropped(o) \in SUBSET {"dropped"}
        /\ o.err = "none" /\ Dropped(o) = {} => o.data = "moved"
        /\ o.data = "moved" => 1 + 1 <= PhysSectors[d]
    BY <1>1, BiosFacts
  <2>4. /\ x \in [Slot -> Data \cup {Junk}]
        /\ o.data = "moved" => \A i \in Slot : i < 1 => x[i] = Content(d, 1 + i)
    BY <2>3, <1>1, FilledFacts DEF IInv
  <2>5. /\ bt = -1 /\ c = 0 /\ start = 0
        /\ e = "none" => len = 1
    BY <1>1, <1>5, <1>10
  <2>6. PICK f, F : f = (IF o.err = "none" THEN e ELSE "ERR_READ") /\ F = D \cup Dropped(o)
    OBVIOUS
  <2>7. /\ f \in Errors /\ F \in SUBSET Doubts /\ Deliver(o.geom, x, bt, base, f, F)
        /\ f = "none" => o.err = "none" /\ e = "none"
        /\ F = {} => D = {} /\ Dropped(o) = {}
    BY <2>2, <2>3, <2>6 DEF Errors, ReadErrors, Doubts
  <2>8. f = "none" /\ F = {} => \A i \in Slot : i < len => x[i] = Logical(d, start + i)
    <3>1. SUFFICES ASSUME f = "none", F = {}, NEW i \in Slot, i < len
                   PROVE  x[i] = Logical(d, start + i)
      OBVIOUS
    <3>2. i = 0 /\ start + i = 0 /\ 1 + i = 1
      BY <3>1, <2>5, <2>7, SizeAssumption DEF Slot
    <3>3. x[0] = Content(d, 1)
      BY <3>1, <3>2, <2>3, <2>4, <2>7
    <3> QED BY <3>1, <3>2, <3>3, <2>5, <2>7, <1>6, <1>7, <1>10
  <2> QED BY <2>3, <2>4, <2>5, <2>7, <2>8, <1>3
<1> QED BY <1>8, <1>9, <1>10

(* The track is not in the buffer.                                         *)
LEMMA ReadMissIInv ==
  ASSUME IInv, ReadMiss
  PROVE  IInv'
<1> DEFINE d == call.drive
           W == V(call.drive)
           c == call.sector
           g == CallGeom
           partial == left > num_sect(g)
<1>0. PICK start, len, base, T, k :
        /\ start = IF partial THEN c ELSE track(g)
        /\ len = IF partial THEN num_sect(g) ELSE VTrack(g)
        /\ base = IF partial THEN 0 ELSE soff(g)
        /\ T = track(g) /\ k = soff(g)
  OBVIOUS
<1>1. PICK o \in biosdisk(d, g, start, len) :
        \E b \in Filled(d, buf, start, len, o.data) :
            \/ o.err = "none" /\ DeliverEZD(o.geom, b, T, base, "none", Dropped(o))
            \/ o.err = "geometry" /\ DeliverEZD(o.geom, b, -1, base, "ERR_GEOM", {})
            \/ o.err = "other" /\ partial /\ DeliverEZD(o.geom, b, -1, 0, "ERR_READ", {})
            \/ /\ o.err = "other" /\ ~partial
               /\ \E p \in biosdisk(d, o.geom, c, left) :
                    \E x \in Filled(d, b, c, left, p.data) :
                      DeliverEZD(p.geom, x, -1, 0,
                                 IF p.err = "none" THEN "none" ELSE "ERR_READ", Dropped(p))
  BY <1>0 DEF ReadMiss
<1>2. PICK b \in Filled(d, buf, start, len, o.data) :
            \/ o.err = "none" /\ DeliverEZD(o.geom, b, T, base, "none", Dropped(o))
            \/ o.err = "geometry" /\ DeliverEZD(o.geom, b, -1, base, "ERR_GEOM", {})
            \/ o.err = "other" /\ partial /\ DeliverEZD(o.geom, b, -1, 0, "ERR_READ", {})
            \/ /\ o.err = "other" /\ ~partial
               /\ \E p \in biosdisk(d, o.geom, c, left) :
                    \E x \in Filled(d, b, c, left, p.data) :
                      DeliverEZD(p.geom, x, -1, 0,
                                 IF p.err = "none" THEN "none" ELSE "ERR_READ", Dropped(p))
  BY <1>1
<1>3. pc = "reading"
  BY DEF ReadMiss
<1>4. /\ d \in Drives /\ c \in Nat /\ call.last \in Nat /\ c <= call.last
      /\ W \in Nat \ {0, 1} /\ W <= BufferSlots
      /\ g \in GeometryType /\ SameGeom(g, d) /\ VTrack(g) = W
      /\ k \in 0 .. W - 1 /\ T \in Nat /\ c = T + k
      /\ num_sect(g) = W - k /\ left \in Nat \ {0} /\ left = call.last - c + 1
  BY <1>0, <1>3, RoundFacts DEF left
<1>5. /\ start \in Nat /\ len \in Nat /\ len <= W /\ base \in 0 .. k /\ 0 \in 0 .. k
      /\ start + base = c /\ c + num_sect(g) <= start + len
      /\ c + 0 = c
      /\ start = T \/ (start = c /\ left > num_sect(g))
      /\ partial => start = c
  BY <1>0, <1>4
<1>6. /\ o.geom \in GeometryType /\ SameGeom(o.geom, d)
      /\ o.data \in {"moved", "lost"}
      /\ Dropped(o) \in SUBSET Doubts
      /\ o.err = "none" /\ Dropped(o) = {} => o.data = "moved"
      /\ o.data = "moved" => start + len <= PhysSectors[d]
  BY <1>4, <1>5, BiosFacts DEF Doubts
<1>7. /\ b \in [Slot -> Data \cup {Junk}]
      /\ o.data = "moved" => \A i \in Slot : i < len => b[i] = Content(d, start + i)
  <2>1. buf \in [Slot -> Data \cup {Junk}] /\ TypeOK
    BY DEF IInv, TypeOK
  <2> QED BY <2>1, <1>4, <1>5, <1>6, FilledFacts
<1>8. /\ {"none", "ERR_GEOM", "ERR_READ"} \subseteq Errors
      /\ {} \in SUBSET Doubts /\ T \in Int /\ -1 \in Int /\ "none" # "ERR_GEOM" /\ "none" # "ERR_READ"
  BY <1>4 DEF Errors, ReadErrors
<1>9. CASE o.err = "none" /\ DeliverEZD(o.geom, b, T, base, "none", Dropped(o))
  <2>1. EZDReady(o.geom, b, start, len, T, base, "none", Dropped(o))
    BY <1>0, <1>4, <1>5, <1>6, <1>7, <1>8, <1>9 DEF EZDReady
  <2> QED BY <2>1, <1>3, <1>9, DeliverEZDIInv
<1>10. CASE o.err = "geometry" /\ DeliverEZD(o.geom, b, -1, base, "ERR_GEOM", {})
  <2>1. EZDReady(o.geom, b, start, len, -1, base, "ERR_GEOM", {})
    BY <1>0, <1>4, <1>5, <1>6, <1>7, <1>8 DEF EZDReady
  <2> QED BY <2>1, <1>3, <1>10, DeliverEZDIInv
<1>11. CASE o.err = "other" /\ partial /\ DeliverEZD(o.geom, b, -1, 0, "ERR_READ", {})
  <2>1. EZDReady(o.geom, b, start, len, -1, 0, "ERR_READ", {})
    BY <1>0, <1>4, <1>5, <1>6, <1>7, <1>8, <1>11 DEF EZDReady
  <2> QED BY <2>1, <1>3, <1>11, DeliverEZDIInv
<1>12. CASE /\ o.err = "other" /\ ~partial
            /\ \E p \in biosdisk(d, o.geom, c, left) :
                 \E x \in Filled(d, b, c, left, p.data) :
                   DeliverEZD(p.geom, x, -1, 0,
                              IF p.err = "none" THEN "none" ELSE "ERR_READ", Dropped(p))
  <2>1. PICK p \in biosdisk(d, o.geom, c, left) :
          \E x \in Filled(d, b, c, left, p.data) :
            DeliverEZD(p.geom, x, -1, 0, IF p.err = "none" THEN "none" ELSE "ERR_READ", Dropped(p))
    BY <1>12
  <2>2. PICK x \in Filled(d, b, c, left, p.data) :
          DeliverEZD(p.geom, x, -1, 0, IF p.err = "none" THEN "none" ELSE "ERR_READ", Dropped(p))
    BY <2>1
  <2>3. /\ p.geom \in GeometryType /\ SameGeom(p.geom, d)
        /\ p.data \in {"moved", "lost"}
        /\ Dropped(p) \in SUBSET Doubts
        /\ p.err = "none" /\ Dropped(p) = {} => p.data = "moved"
        /\ p.data = "moved" => c + left <= PhysSectors[d]
    BY <1>4, <1>6, BiosFacts DEF Doubts
  <2>4. /\ x \in [Slot -> Data \cup {Junk}]
        /\ p.data = "moved" => \A i \in Slot : i < left => x[i] = Content(d, c + i)
    BY <2>3, <1>4, <1>7, FilledFacts DEF IInv
  <2>5. PICK f, n : f = (IF p.err = "none" THEN "none" ELSE "ERR_READ") /\ n = left
    OBVIOUS
  <2>6. /\ f \in Errors /\ (f = "none" /\ Dropped(p) = {} => p.data = "moved")
        /\ DeliverEZD(p.geom, x, -1, 0, f, Dropped(p))
    BY <2>2, <2>3, <2>5, <1>8
  <2>7. n \in Nat /\ n <= W /\ call.last < c + n /\ n = left
    BY <2>5, <1>4, <1>12
  <2>8. EZDReady(p.geom, x, c, n, -1, 0, f, Dropped(p))
    BY <2>3, <2>4, <2>6, <2>7, <1>0, <1>4, <1>5, <1>8 DEF EZDReady
  <2> QED BY <2>6, <2>8, <1>3, DeliverEZDIInv
<1> QED BY <1>2, <1>9, <1>10, <1>11, <1>12

-----------------------------------------------------------------------------
(* Every step of the disk layer keeps the inductive invariant.             *)
LEMMA NextIInv ==
  ASSUME IInv, [Next]_vars
  PROVE  IInv'
<1>1. CASE UNCHANGED vars
  BY <1>1, LogicalFrame
  DEF IInv, TypeOK, GeomInv, CallInv, OutInv, BufferInv, Coherent,
      RoundInv, WroteInv, V, vars
<1>2. CASE Next
  <2>1. CASE \E d \in Drives : ExchangeMedium(d) \/ OpenPartition(d)
    BY <2>1, ExchangeMediumIInv, OpenPartitionIInv
  <2>2. CASE StartCommand \/ EndCommand \/ IgnoreError \/ InvalidateTrack \/ Return
    BY <2>2, CommandIInv
  <2>3. CASE \/ \E d \in Drives, s \in Sector : RawRead(d, s)
             \/ \E s \in Sector, n \in 1 .. MaxLength : DevRead(s, n)
             \/ \E d \in Drives : \E w \in Writes[d] :
                  /\ w[1] + w[2] <= PhysSectors[d]
                  /\ w[1] = 0 => w[3] \notin EzData
                  /\ DevWrite(d, w[1], w[2], w[3])
    BY <2>3, StartTransferIInv
  <2>4. CASE ReadStep
    BY <2>4, ReadFailIInv, ReadHitIInv, ReadMissIInv DEF ReadStep
  <2>5. CASE WriteStep \/ WriteStep0
    BY <2>5, WriteIInv
  <2> QED BY <1>2, <2>1, <2>2, <2>3, <2>4, <2>5 DEF Next
<1> QED BY <1>1, <1>2

(* The inductive invariant always holds.                                   *)
THEOREM Invariance == Spec => []IInv
<1>1. Init => IInv
  BY InitIInv
<1>2. IInv /\ [Next]_vars => IInv'
  BY NextIInv
<1> QED BY <1>1, <1>2, PTL DEF Spec

(* The types of the disk layer.                                            *)
THEOREM TypeCorrect == Spec => []TypeOK
<1>1. IInv => TypeOK
  BY DEF IInv
<1> QED BY <1>1, Invariance, PTL

(* rawread and devread are transparent: a caller that gets no error gets   *)
(* what the medium in the drive holds.                                     *)
THEOREM ReadsAreCoherent == Spec => []ReadCoherent
<1>1. IInv => ReadCoherent
  <2>1. SUFFICES ASSUME IInv, pc = "read", errnum = "none", doubt = {},
                        NEW s \in Sector, s \in call.first .. call.last
                 PROVE  out[s] = Logical(call.drive, s)
    BY DEF ReadCoherent
  <2>2. call.first <= s /\ s < call.sector /\ s <= call.last
    BY <2>1, SizeAssumption DEF IInv, CallInv, TypeOK, Sector
  <2> QED BY <2>1, <2>2 DEF IInv, OutInv
<1> QED BY <1>1, Invariance, PTL

(* While a command runs, a valid track buffer holds what the medium holds. *)
THEOREM BufferIsCoherent == Spec => []BufferCoherent
<1>1. IInv => BufferCoherent
  BY DEF IInv, BufferInv, BufferCoherent, Coherent, V
<1> QED BY <1>1, Invariance, PTL

(* A devwrite that reports success has put the value on the medium, where  *)
(* rawread finds it.                                                       *)
THEOREM WritesAreDurable == Spec => []WriteDurable
<1>1. IInv => WriteDurable
  <2>1. SUFFICES ASSUME IInv, pc = "written", errnum = "none", "dropped" \notin doubt,
                        NEW s \in Sector, s \in call.first .. call.last
                 PROVE  Logical(call.drive, s) = call.value
    BY DEF WriteDurable
  <2>2. call.first <= s /\ s <= call.last
    BY <2>1 DEF IInv, TypeOK
  <2> QED BY <2>1, <2>2 DEF IInv, WroteInv
<1> QED BY <1>1, Invariance, PTL
-----------------------------------------------------------------------------
(* A round of rawread that is not the last one moves the request on and    *)
(* leaves something of it.                                                 *)
LEMMA DeliverAdvances ==
  ASSUME IInv, pc = "reading", pc' = "reading",
         NEW g, NEW b, NEW bt, NEW base, NEW e, NEW D,
         Deliver(g, b, bt, base, e, D)
  PROVE  call.sector < call'.sector /\ call'.sector <= call.last
<1>1. /\ call.sector \in Nat /\ call.last \in Nat
      /\ V(call.drive) \in Nat \ {0, 1}
      /\ soff(CallGeom) \in 0 .. V(call.drive) - 1
      /\ num_sect(CallGeom) = V(call.drive) - soff(CallGeom)
  BY RoundFacts
<1>2. num_sect(CallGeom) \in Nat \ {0}
  BY <1>1
<1>3. call'.sector = call.sector + num_sect(CallGeom)
  BY DEF Deliver, IInv, TypeOK
<1>4. ~(left <= num_sect(CallGeom))
  BY DEF Deliver
<1>5. left = call.last - call.sector + 1
  BY DEF left
<1> QED BY <1>1, <1>2, <1>3, <1>4, <1>5

(* The same with the mapping of EZ-Drive disks in between.                 *)
LEMMA DeliverEZDAdvances ==
  ASSUME IInv, pc = "reading", pc' = "reading",
         NEW g, NEW b, NEW bt, NEW base, NEW e, NEW D,
         DeliverEZD(g, b, bt, base, e, D)
  PROVE  call.sector < call'.sector /\ call'.sector <= call.last
<1>1. \E h, c, f, F : Deliver(h, c, bt, base, f, F)
  BY DEF DeliverEZD
<1> QED BY <1>1, DeliverAdvances

(* No round of rawread or devwrite is idle.                                *)
THEOREM TransfersAlwaysAdvance == Spec => TransfersAdvance
<1> DEFINE Advance == call.sector < call'.sector /\ call'.sector <= call.last
<1>1. ASSUME IInv, Next, pc' = pc, pc \in {"reading", "writing"}
      PROVE  Advance
  <2>1. CASE ReadHit
    <3>1. pc = "reading" /\ Deliver(CallGeom, buf, CallTrack, soff(CallGeom), "none", {})
      BY <2>1 DEF ReadHit
    <3> QED BY <3>1, <1>1, DeliverAdvances
  <2>2. CASE ReadMiss
    <3>1. pc = "reading"
      BY <2>2 DEF ReadMiss
    <3>2. \E g, b, bt, base, e, D : DeliverEZD(g, b, bt, base, e, D)
      BY <2>2 DEF ReadMiss
    <3> QED BY <3>1, <3>2, <1>1, DeliverEZDAdvances
  <2>3. CASE WriteStep \/ WriteStep0
    <3>1. pc = "writing"
      BY <2>3 DEF WriteStep, WriteStep0
    <3>2. /\ call.sector \in Nat /\ call.last \in Nat
          /\ call.sector <= call.last
      BY <1>1 DEF IInv, TypeOK, CallInv
    <3>3. PICK t, g, D : WriteSector(t, g, D)
      BY <2>3, <3>1, <1>1 DEF WriteStep, WriteStep0
    <3>4. /\ call.sector # call.last
          /\ call' = [call EXCEPT !.sector = call.sector + 1]
      BY <3>1, <3>3, <1>1 DEF WriteSector
    <3>5. call'.sector = call.sector + 1
      BY <3>4, <1>1 DEF IInv, TypeOK
    <3> QED BY <3>2, <3>4, <3>5
  <2>4. ReadHit \/ ReadMiss \/ WriteStep \/ WriteStep0
    BY <1>1 DEF Next, ReadStep, ReadNoDisk, ReadBeyondDisk, ExchangeMedium, OpenPartition,
       StartCommand, EndCommand, IgnoreError, InvalidateTrack, RawRead, DevRead, DevWrite, Return
  <2> QED BY <2>1, <2>2, <2>3, <2>4
<1>2. IInv /\ [Next]_vars
        => [(pc' = pc /\ pc \in {"reading", "writing"}) => Advance]_vars
  BY <1>1
<1> QED BY <1>2, Invariance, PTL DEF Spec, TransfersAdvance
=============================================================================
