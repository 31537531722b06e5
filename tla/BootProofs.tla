----------------------------- MODULE BootProofs -----------------------------
(***************************************************************************)
(* Proofs about the boot commands, for every memory map, every set of      *)
(* images and RAM disks, signed or not, and every size of the tables.      *)
(*                                                                         *)
(* A board that checks signatures verifies what is in memory once, when it *)
(* is loaded.  What is started later is what was verified because those    *)
(* pages stay GRUB's: the firmware hands out free pages only, and the one  *)
(* buffer that is given back and taken again, that of the memory map, is   *)
(* never among them.                                                       *)
(*                                                                         *)
(* Of efimm.c: the table of allocations and the map that a kernel is given *)
(* say what the firmware's own map says.                                   *)
(***************************************************************************)
EXTENDS Boot, FiniteSetTheorems, WellFoundedInduction, TLAPS

(* Pages that GRUB has from the firmware and does not give back while a    *)
(* kernel is waiting to be started.                                        *)
Own(e, p) == p \in Page /\ e.type[p] = "loader" /\ p # e.buf

(* The buffer of the memory map is one page of GRUB's.                     *)
BufferInv(e) ==
  e.buf # Null => e.buf \in Page /\ e.type[e.buf] = "loader" /\ e.pages = 1

(* What a command that succeeded has left in memory.                       *)
TextIn(s, k) ==
  /\ Base + Text(k) <= Top
  /\ \A j \in 0 .. Text(k) - 1 : Own(s.e, Base + j) /\ s.mem[Base + j] = <<k.name, 1, j>>
ParamsIn(s, k) ==
  /\ s.real \in Nat /\ s.real + RealPages <= Top
  /\ \A j \in 0 .. RealPages - 1 : Own(s.e, s.real + j) /\ s.mem[s.real + j] = ParamPage(k, j)
DiskIn(s, at, m) ==
  /\ at \in Nat /\ at + m.len <= Top
  /\ \A j \in 0 .. m.len - 1 : Own(s.e, at + j) /\ s.mem[at + j] = ModPage(m, j)

(* The loader's variables are there.                                       *)
Fields  == {"mem", "e", "cur", "ok", "stop", "real", "realn", "prot", "protn",
            "initrd", "initrdn", "loaded", "imr"}
EFields == {"type", "table", "amiss", "buf", "pages"}
Shape(s) == DOMAIN s = Fields /\ DOMAIN s.e = EFields

(* After a failure, and once something is started, no command follows.     *)
Ready == shell = "all" /\ halted = "no" /\ started[1] = NoImage

KernelReady ==
  kernel_type = "biglinux" =>
    /\ kern \in Images /\ kern.signed /\ TextIn(st, kern) /\ ParamsIn(st, kern)
    /\ \/ ramdisk = <<>>
       \/ \E at \in Nat, m \in Modules :
            ramdisk = <<[at |-> at, files |-> <<m>>, apart |-> TRUE]>> /\ m.signed /\ DiskIn(st, at, m)

OnlyIa32 == secure => build = "ia32"
LoadedInv == secure /\ Ready => Shape(st) /\ BufferInv(st.e) /\ KernelReady
IInv == OnlyIa32 /\ LoadedInv /\ SignedOnly

-----------------------------------------------------------------------------
(* The firmware's pages.                                                   *)

LEMMA Constants ==
  /\ Top \in Nat \ {0} /\ RealPages \in Nat \ {0} /\ Null = Top /\ Null \notin Page /\ Base \in Nat /\ Base # Null
  /\ Page = 0 .. Top - 1
BY MemAssumption, FlashAssumption DEF Null, Page, Base

LEMMA Highest ==
  ASSUME NEW T, T \subseteq Page, T # {}
  PROVE  \E a \in T : \A b \in T : b <= a
<1> DEFINE D == {Top - a : a \in T}
           R == OpToRel(<, Nat)
<1>1. \A a \in T : a \in Nat /\ Top - a \in Nat
  BY Constants
<1>2. D \subseteq Nat /\ D # {}
  BY <1>1
<1>3. IsWellFoundedOn(R, Nat)
  BY NatLessThanWellFounded
<1>4. PICK x \in D : \A y \in D : ~(<<y, x>> \in R)
  <2> HIDE DEF D, R
  <2> QED BY <1>2, <1>3, WFMin
<1>5. \A y \in D : ~(y < x)
  BY <1>2, <1>4 DEF OpToRel
<1>6. PICK a \in T : x = Top - a
  OBVIOUS
<1>7. \A b \in T : b <= a
  <2> TAKE b \in T
  <2>1. Top - b \in D /\ ~(Top - b < Top - a)
    BY <1>5, <1>6
  <2> QED BY <1>1, <2>1, Constants
<1> QED BY <1>7

(* AllocatePages gives free pages, or nothing.                             *)
LEMMA PagesGiven ==
  ASSUME NEW e, NEW at, NEW n \in Nat, NEW a, a = AllocatePages(e, at, n), a # Null
  PROVE  /\ a \in Page /\ a + n <= Top /\ (at # Null => a = at)
         /\ \A p \in Span(a, n) : p \in Page /\ e.type[p] = "conv"
<1> DEFINE fit == IF at = Null THEN FreeAt(e, n) ELSE FreeAt(e, n) \cap {at}
<1>1. fit # {} /\ a = CHOOSE x \in fit : \A b \in fit : b <= x
  BY DEF AllocatePages
<1>2. fit \subseteq Page
  BY DEF FreeAt
<1>3. \E x \in fit : \A b \in fit : b <= x
  <2> HIDE DEF fit
  <2> QED BY <1>1, <1>2, Highest
<1>4. a \in fit
  <2> HIDE DEF fit
  <2> QED BY <1>1, <1>3
<1>5. a \in FreeAt(e, n) /\ (at # Null => a = at)
  BY <1>4
<1>6. a \in Page /\ a + n <= Top /\ \A p \in Span(a, n) : e.type[p] = "conv"
  BY <1>5 DEF FreeAt
<1>7. Span(a, n) \subseteq Page
  BY <1>6, Constants DEF Span, Least
<1> QED BY <1>5, <1>6, <1>7

-----------------------------------------------------------------------------
(* grub_efi_allocate_pages takes nothing from GRUB.                        *)
LEMMA PagesAllocated ==
  ASSUME NEW e, DOMAIN e = EFields, NEW at, NEW n \in Nat,
         NEW r, r = grub_efi_allocate_pages(e, at, n)
  PROVE  /\ DOMAIN r.e = EFields /\ r.e.buf = e.buf /\ r.e.pages = e.pages
         /\ \A p \in Page : e.type[p] = "loader" => r.e.type[p] = "loader"
         /\ r.at # Null =>
              /\ r.at \in Page /\ r.at + n <= Top /\ (at # Null => r.at = at)
              /\ \A p \in Span(r.at, n) : p \in Page /\ e.type[p] = "conv" /\ r.e.type[p] = "loader"
<1> DEFINE a == AllocatePages(e, at, n)
           m == Mark(e, a, n, "loader")
<1>1. a # Null =>
        /\ a \in Page /\ a + n <= Top /\ (at # Null => a = at)
        /\ \A p \in Span(a, n) : p \in Page /\ e.type[p] = "conv"
  BY PagesGiven
<1>2. r = IF a = Null THEN [e |-> e, at |-> Null]
          ELSE IF Cardinality(e.table) >= MaxAlloc
               THEN [e |-> [m EXCEPT !.amiss = @ \cup Span(a, n)], at |-> Null]
               ELSE [e |-> [m EXCEPT !.table = @ \cup {[addr |-> a, num |-> n]}], at |-> a]
  BY DEF grub_efi_allocate_pages, grub_efi_allocate_pages_real, Then
<1> HIDE DEF a
<1>3. /\ DOMAIN m = EFields /\ m.buf = e.buf /\ m.pages = e.pages
      /\ m.type = [p \in Page |-> IF p \in Span(a, n) THEN "loader" ELSE e.type[p]]
  BY DEF Mark, EFields
<1> HIDE DEF m
<1>4. CASE a = Null
  BY <1>2, <1>4
<1>5. CASE a # Null /\ Cardinality(e.table) >= MaxAlloc
  <2>1. r.e = [m EXCEPT !.amiss = @ \cup Span(a, n)] /\ r.at = Null
    BY <1>2, <1>5
  <2>2. DOMAIN r.e = EFields /\ r.e.buf = m.buf /\ r.e.pages = m.pages /\ r.e.type = m.type
    BY <1>3, <2>1 DEF EFields
  <2> QED BY <1>3, <2>1, <2>2
<1>6. CASE a # Null /\ ~(Cardinality(e.table) >= MaxAlloc)
  <2>1. r.e = [m EXCEPT !.table = @ \cup {[addr |-> a, num |-> n]}] /\ r.at = a
    BY <1>2, <1>6
  <2>2. DOMAIN r.e = EFields /\ r.e.buf = m.buf /\ r.e.pages = m.pages /\ r.e.type = m.type
    BY <1>3, <2>1 DEF EFields
  <2> QED BY <1>1, <1>3, <1>6, <2>1, <2>2
<1> QED BY <1>4, <1>5, <1>6

(* What is given back is given back, and nothing else.                     *)
LEMMA PagesFreed ==
  ASSUME NEW e, DOMAIN e = EFields, NEW at, NEW n, NEW f,
         f \in {grub_efi_free_pages(e, at, n), free_some_pages(e, at, n)}
  PROVE  /\ DOMAIN f = EFields /\ f.buf = e.buf /\ f.pages = e.pages
         /\ f.type = [p \in Page |-> IF p \in Span(at, n) THEN "conv" ELSE e.type[p]]
<1> DEFINE m == Mark(e, at, n, "conv")
           g == grub_efi_free_pages(e, at, n)
<1>1. /\ DOMAIN m = EFields /\ m.buf = e.buf /\ m.pages = e.pages
      /\ m.type = [p \in Page |-> IF p \in Span(at, n) THEN "conv" ELSE e.type[p]]
  BY DEF Mark, EFields
<1>2. g = [m EXCEPT !.table = {t \in @ : t.addr # at}]
  BY DEF grub_efi_free_pages
<1> HIDE DEF m
<1>3. DOMAIN g = EFields /\ g.buf = m.buf /\ g.pages = m.pages /\ g.type = m.type
  BY <1>1, <1>2 DEF EFields
<1> HIDE DEF g
<1>4. CASE f = g
  BY <1>1, <1>3, <1>4
<1>5. CASE f = free_some_pages(e, at, n)
  <2>1. PICK w : f = [g EXCEPT !.amiss = @ \cup w]
    BY <1>5 DEF free_some_pages, g
  <2>2. DOMAIN f = EFields /\ f.buf = g.buf /\ f.pages = g.pages /\ f.type = g.type
    BY <1>3, <2>1 DEF EFields
  <2> QED BY <1>1, <1>3, <2>2
<1> QED BY <1>4, <1>5 DEF g

(* What is GRUB's stays as it is.                                          *)
Keeps(s, t) == \A p : Own(s.e, p) => Own(t.e, p) /\ t.mem[p] = s.mem[p]

(* The memory map may move to another buffer, never onto pages of GRUB's.  *)
LEMMA MapFetched ==
  ASSUME NEW e, DOMAIN e = EFields, BufferInv(e), NEW mem, NEW grown,
         NEW g, g = grub_efi_get_memory_map(e, mem, grown)
  PROVE  /\ DOMAIN g.e = EFields /\ BufferInv(g.e)
         /\ \A p : Own(e, p) => Own(g.e, p) /\ g.mem[p] = mem[p]
<1> DEFINE again == e.pages = 0 \/ (grown /\ e.buf # Null)
           freed == IF e.buf # Null THEN grub_efi_free_pages(e, e.buf, e.pages) ELSE e
           r == grub_efi_allocate_pages(freed, Null, 1)
<1>1. /\ ~again /\ e.buf = Null => g = [e |-> e, mem |-> mem, ok |-> FALSE]
      /\ ~again /\ e.buf # Null =>
           g = [e |-> e, mem |-> [p \in Page |-> IF p \in Span(e.buf, 1) THEN <<"map">> ELSE mem[p]], ok |-> TRUE]
      /\ again /\ r.at = Null => g = [e |-> [r.e EXCEPT !.buf = Null, !.pages = 0], mem |-> mem, ok |-> FALSE]
      /\ again /\ r.at # Null =>
           g = [e |-> [r.e EXCEPT !.buf = r.at, !.pages = 1],
                mem |-> [p \in Page |-> IF p \in Span(r.at, 1) THEN <<"map">> ELSE mem[p]], ok |-> TRUE]
  BY DEF grub_efi_get_memory_map, Fill
<1>2. \A b \in Page : Span(b, 1) = {b}
  BY Constants DEF Span, Least
<1>3. \A p : Own(e, p) => p \in Page /\ p # e.buf /\ e.type[p] = "loader"
  BY DEF Own
<1>4. CASE ~again /\ e.buf = Null
  <2>1. g.e = e /\ g.mem = mem
    BY <1>1, <1>4
  <2> QED BY <2>1
<1>5. CASE ~again /\ e.buf # Null
  <2>1. g.e = e /\ g.mem = [p \in Page |-> IF p \in Span(e.buf, 1) THEN <<"map">> ELSE mem[p]]
    BY <1>1, <1>5
  <2>2. e.buf \in Page
    BY <1>5 DEF BufferInv
  <2> QED BY <1>2, <1>3, <2>1, <2>2
<1>6. CASE again
  <2>1. /\ DOMAIN freed = EFields
        /\ \A p : Own(e, p) => freed.type[p] = "loader"
    <3>1. CASE e.buf = Null
      BY <1>3, <3>1
    <3>2. CASE e.buf # Null
      <4>1. e.buf \in Page /\ e.pages = 1 /\ freed = grub_efi_free_pages(e, e.buf, e.pages)
        BY <3>2 DEF BufferInv
      <4>2. /\ DOMAIN freed = EFields
            /\ freed.type = [p \in Page |-> IF p \in Span(e.buf, 1) THEN "conv" ELSE e.type[p]]
        <5> HIDE DEF freed
        <5> QED BY <4>1, PagesFreed
      <4> HIDE DEF freed
      <4> QED BY <1>2, <1>3, <4>1, <4>2
    <3> QED BY <3>1, <3>2
  <2> HIDE DEF freed, r
  <2>0. r = grub_efi_allocate_pages(freed, Null, 1) /\ 1 \in Nat
    BY DEF r
  <2>2. /\ DOMAIN r.e = EFields
        /\ \A p \in Page : freed.type[p] = "loader" => r.e.type[p] = "loader"
        /\ r.at # Null =>
              /\ r.at \in Page
              /\ \A p \in Span(r.at, 1) : p \in Page /\ freed.type[p] = "conv" /\ r.e.type[p] = "loader"
    BY <2>1, <2>0, PagesAllocated
  <2>3. CASE r.at = Null
    <3>1. g.e = [r.e EXCEPT !.buf = Null, !.pages = 0] /\ g.mem = mem
      BY <1>1, <1>6, <2>3
    <3>2. DOMAIN g.e = EFields /\ g.e.buf = Null /\ g.e.type = r.e.type
      BY <2>2, <3>1 DEF EFields
    <3> QED BY <1>3, <2>1, <2>2, <3>1, <3>2, Constants DEF Own, BufferInv
  <2>4. CASE r.at # Null
    <3>1. /\ g.e = [r.e EXCEPT !.buf = r.at, !.pages = 1]
          /\ g.mem = [p \in Page |-> IF p \in Span(r.at, 1) THEN <<"map">> ELSE mem[p]]
      BY <1>1, <1>6, <2>4
    <3>2. DOMAIN g.e = EFields /\ g.e.buf = r.at /\ g.e.pages = 1 /\ g.e.type = r.e.type
      BY <2>2, <3>1 DEF EFields
    <3>3. r.at \in Page /\ Span(r.at, 1) = {r.at} /\ freed.type[r.at] = "conv" /\ r.e.type[r.at] = "loader"
      BY <1>2, <2>2, <2>4
    <3>4. \A p : Own(e, p) => p # r.at
      BY <2>1, <3>3
    <3> QED BY <1>3, <2>1, <2>2, <3>1, <3>2, <3>3, <3>4 DEF Own, BufferInv
  <2> QED BY <2>3, <2>4
<1> QED BY <1>4, <1>5, <1>6

-----------------------------------------------------------------------------
(* The loaders' steps.                                                     *)

LEMMA Fetched ==
  ASSUME NEW s, Shape(s), BufferInv(s.e), NEW grown, NEW g, g = GetMap(s, grown)
  PROVE  /\ Shape(g.s) /\ BufferInv(g.s.e) /\ Keeps(s, g.s)
         /\ g.s.real = s.real /\ g.s.prot = s.prot /\ g.s.ok = s.ok
<1> DEFINE r == grub_efi_get_memory_map(s.e, s.mem, grown)
<1>1. g = [s |-> [s EXCEPT !.e = r.e, !.mem = r.mem], ok |-> r.ok]
  BY DEF GetMap, Then
<1>2. /\ DOMAIN r.e = EFields /\ BufferInv(r.e)
      /\ \A p : Own(s.e, p) => Own(r.e, p) /\ r.mem[p] = s.mem[p]
  BY MapFetched DEF Shape
<1> HIDE DEF r
<1>3. g.s = [s EXCEPT !.e = r.e, !.mem = r.mem]
  BY <1>1
<1>4. /\ DOMAIN g.s = Fields /\ g.s.e = r.e /\ g.s.mem = r.mem
      /\ g.s.real = s.real /\ g.s.prot = s.prot /\ g.s.ok = s.ok
  BY <1>3 DEF Shape, Fields
<1> QED BY <1>2, <1>3, <1>4 DEF Shape, Keeps

LEMMA Taken ==
  ASSUME NEW s, Shape(s), BufferInv(s.e), NEW at, NEW n \in Nat, NEW r, r = Take(s, at, n)
  PROVE  /\ Shape(r.s) /\ BufferInv(r.s.e) /\ Keeps(s, r.s)
         /\ r.s.real = s.real /\ r.s.prot = s.prot /\ r.s.ok = s.ok /\ r.s.mem = s.mem
         /\ r.at # Null =>
              /\ r.at \in Page /\ r.at + n <= Top /\ (at # Null => r.at = at)
              /\ \A p \in Span(r.at, n) : Own(r.s.e, p) /\ ~Own(s.e, p)
<1> DEFINE a == grub_efi_allocate_pages(s.e, at, n)
<1>1. r.s = [s EXCEPT !.e = a.e] /\ r.at = a.at
  BY DEF Take, Then
<1>2. /\ DOMAIN a.e = EFields /\ a.e.buf = s.e.buf /\ a.e.pages = s.e.pages
      /\ \A p \in Page : s.e.type[p] = "loader" => a.e.type[p] = "loader"
      /\ a.at # Null =>
              /\ a.at \in Page /\ a.at + n <= Top /\ (at # Null => a.at = at)
              /\ \A p \in Span(a.at, n) : p \in Page /\ s.e.type[p] = "conv" /\ a.e.type[p] = "loader"
  BY PagesAllocated DEF Shape
<1> HIDE DEF a
<1>3. /\ DOMAIN r.s = Fields /\ r.s.e = a.e /\ r.s.mem = s.mem
      /\ r.s.real = s.real /\ r.s.prot = s.prot /\ r.s.ok = s.ok
  BY <1>1 DEF Shape, Fields
<1>4. BufferInv(r.s.e)
  BY <1>2, <1>3 DEF BufferInv
<1>5. Keeps(s, r.s)
  BY <1>2, <1>3 DEF Keeps, Own
<1>6. ASSUME r.at # Null, NEW p \in Span(r.at, n)
      PROVE  Own(r.s.e, p) /\ ~Own(s.e, p)
  <2>1. p \in Page /\ s.e.type[p] = "conv" /\ r.s.e.type[p] = "loader"
    BY <1>1, <1>2, <1>3, <1>6
  <2>2. p # s.e.buf
    BY <2>1, Constants DEF BufferInv
  <2> QED BY <1>2, <1>3, <2>1, <2>2 DEF Own
<1> QED BY <1>1, <1>2, <1>3, <1>4, <1>5, <1>6 DEF Shape

-----------------------------------------------------------------------------
(* What of a RAM disk is looked for in memory is one file.                 *)

LEMMA JoinedOne ==
  ASSUME NEW m, m.len \in Nat
  PROVE  Joined(<<m>>) = [j \in 1 .. m.len |-> ModPage(m, j - 1)]
<1> DEFINE one == [j \in 1 .. m.len |-> ModPage(m, j - 1)]
           ms == <<m>>
           file(x) == [j \in 1 .. (ms[x]).len |-> ModPage(ms[x], j - 1)]
           F(it) == [s \in SUBSET (DOMAIN ms) |->
                       IF s = {} THEN <<>> ELSE LET x == Max(s) IN it[s \ {x}] \o file(x)]
           it == CHOOSE g : g = F(g)
           last == <<>> \o one
           known == [s \in {{}, {1}} |-> IF s = {} THEN <<>> ELSE last]
<1>1. Joined(<<m>>) = it[DOMAIN ms]
  BY DEF Joined, FoldLeft, MapThenFoldSet
<1>2. DOMAIN ms = {1} /\ file(1) = one
  OBVIOUS
<1> HIDE DEF ms, file
<1>3. Max({1}) = 1 /\ SUBSET {1} = {{}, {1}} /\ {1} \ {1} = {} /\ {1} # {}
  BY DEF Max
<1>4. \A g : F(g) = [s \in {{}, {1}} |-> IF s = {} THEN <<>> ELSE g[{}] \o one]
  BY <1>2, <1>3
<1> HIDE DEF F, one
<1>5. \E g : g = F(g)
  <2>1. known[{}] = <<>>
    OBVIOUS
  <2>2. F(known) = [s \in {{}, {1}} |-> IF s = {} THEN <<>> ELSE known[{}] \o one]
    BY <1>4
  <2>3. F(known) = known
    <3> HIDE DEF known
    <3>1. F(known) = [s \in {{}, {1}} |-> IF s = {} THEN <<>> ELSE last]
      BY <2>1, <2>2
    <3> QED BY <3>1 DEF known
  <2> QED BY <2>3
<1>6. it = F(it)
  BY <1>5
<1> HIDE DEF it
<1>7. it = [s \in {{}, {1}} |-> IF s = {} THEN <<>> ELSE it[{}] \o one]
  BY <1>4, <1>6
<1>8. it[{}] = <<>> /\ it[{1}] = it[{}] \o one
  BY <1>3, <1>7
<1>9. <<>> \o one = one
  <2>1. one \in Seq({ModPage(m, j) : j \in Int})
    BY DEF one
  <2> HIDE DEF one
  <2> QED BY <2>1
<1> QED BY <1>1, <1>2, <1>8, <1>9 DEF one

LEMMA DiskFound ==
  ASSUME NEW s, NEW at, NEW m, m.len \in Nat, DiskIn(s, at, m)
  PROVE  ModFound(s, [at |-> at, files |-> <<m>>, apart |-> TRUE]) = <<m>>
<1> DEFINE pages == [j \in 1 .. m.len |-> ModPage(m, j - 1)]
<1>1. Joined(<<m>>) = pages
  BY JoinedOne
<1>2. Len(pages) = m.len
  OBVIOUS
<1>3. \A j \in 0 .. m.len - 1 : pages[j + 1] = ModPage(m, j)
  OBVIOUS
<1> HIDE DEF pages
<1>4. at + Len(pages) <= Top /\ \A j \in 0 .. Len(pages) - 1 : s.mem[at + j] = pages[j + 1]
  BY <1>2, <1>3 DEF DiskIn
<1> QED BY <1>1, <1>4 DEF ModFound, Holds

-----------------------------------------------------------------------------
(* A kernel is loaded: its memory, its parameters, its text.               *)

LEMMA Refused ==
  ASSUME NEW s, DOMAIN s = Fields
  PROVE  /\ DOMAIN Err(s) = Fields /\ ~Err(s).ok
         /\ DOMAIN free_pages(s) = Fields
<1>1. DOMAIN Err(s) = Fields /\ ~Err(s).ok
  BY DEF Err, Fields
<1>2. \A x, at, n : DOMAIN x = Fields => DOMAIN FreeOne(x, at, n) = Fields
  BY DEF FreeOne
<1>3. \A x : DOMAIN x = Fields => DOMAIN FreeInitrd(x) = Fields
  BY DEF FreeInitrd
<1> DEFINE a == FreeInitrd(FreeOne(FreeOne(s, s.real, s.realn), s.prot, s.protn))
           b == FreeOne(a, a.e.buf, a.e.pages)
<1>4. DOMAIN b = Fields
  BY <1>2, <1>3
<1>5. free_pages(s) = [b EXCEPT !.real = Null, !.prot = Null, !.initrd = Null, !.e.buf = Null]
  BY DEF free_pages, Then
<1> HIDE DEF b
<1> QED BY <1>1, <1>4, <1>5

(* Memory for the parameters and the kernel: pages of their own.           *)
LEMMA MemoryForKernel ==
  ASSUME NEW s, Shape(s), BufferInv(s.e), NEW n \in Nat, NEW grown,
         NEW a, a = allocate_pages(s, n, grown)
  PROVE  /\ DOMAIN a = Fields
         /\ a.ok => /\ Shape(a) /\ BufferInv(a.e)
                    /\ a.real \in Page /\ a.real + RealPages <= Top
                    /\ a.prot = Base /\ Base + n <= Top
                    /\ \A p \in Span(a.real, RealPages) : Own(a.e, p)
                    /\ \A p \in Span(Base, n) : Own(a.e, p) /\ p \notin Span(a.real, RealPages)
<1> DEFINE s0 == [s EXCEPT !.real = Null, !.prot = Null, !.initrd = Null, !.realn = RealPages, !.protn = n]
           g == GetMap(s0, grown)
           at == RealAt(g.s.e, RealPages)
           r == Take(g.s, at, RealPages)
           withr == [r.s EXCEPT !.real = r.at]
           p == Take(withr, Base, n)
<1>1. a = IF ~g.ok THEN Err(g.s)
          ELSE IF at = Null THEN Err(free_pages(g.s))
          ELSE IF r.at = Null THEN Err(free_pages(r.s))
          ELSE IF p.at # Null THEN [p.s EXCEPT !.prot = p.at] ELSE Err(free_pages(p.s))
  BY DEF allocate_pages, Then
<1>2. Shape(s0) /\ BufferInv(s0.e)
  BY DEF Shape, Fields
<1> HIDE DEF s0
<1>3. Shape(g.s) /\ BufferInv(g.s.e)
  <2> HIDE DEF g
  <2> QED BY <1>2, Fetched DEF g
<1> HIDE DEF g, at
<1>4. /\ Shape(r.s) /\ BufferInv(r.s.e)
      /\ r.at # Null => /\ r.at \in Page /\ r.at + RealPages <= Top
                        /\ \A q \in Span(r.at, RealPages) : Own(r.s.e, q)
  <2>1. r = Take(g.s, at, RealPages) /\ RealPages \in Nat
    BY Constants
  <2> HIDE DEF r
  <2> QED BY <1>3, <2>1, Taken
<1> HIDE DEF r
<1>5. Shape(withr) /\ BufferInv(withr.e) /\ withr.e = r.s.e /\ withr.real = r.at
  BY <1>4 DEF Shape, Fields
<1> HIDE DEF withr
<1>6. /\ Shape(p.s) /\ BufferInv(p.s.e) /\ Keeps(withr, p.s)
      /\ p.s.real = withr.real
      /\ p.at # Null => /\ p.at \in Page /\ p.at + n <= Top /\ (Base # Null => p.at = Base)
                        /\ \A q \in Span(p.at, n) : Own(p.s.e, q) /\ ~Own(withr.e, q)
  <2>1. p = Take(withr, Base, n)
    OBVIOUS
  <2> HIDE DEF p
  <2> QED BY <1>5, <2>1, Taken
<1> HIDE DEF p
<1>7. CASE ~(g.ok /\ at # Null /\ r.at # Null /\ p.at # Null)
  BY <1>1, <1>3, <1>4, <1>6, <1>7, Refused DEF Shape
<1>8. CASE g.ok /\ at # Null /\ r.at # Null /\ p.at # Null
  <2>1. a = [p.s EXCEPT !.prot = p.at]
    BY <1>1, <1>8
  <2>2. Shape(a) /\ a.e = p.s.e /\ a.prot = p.at /\ a.real = r.at
    BY <1>5, <1>6, <2>1 DEF Shape, Fields
  <2>3. p.at = Base
    BY <1>6, <1>8, Constants
  <2>4. \A q \in Span(a.real, RealPages) : Own(withr.e, q) /\ Own(a.e, q)
    BY <1>4, <1>5, <1>6, <1>8, <2>2 DEF Keeps
  <2> QED BY <1>4, <1>6, <1>8, <2>2, <2>3, <2>4 DEF Shape
<1> QED BY <1>7, <1>8

LEMMA KernelLoaded ==
  ASSUME NEW s, Shape(s), BufferInv(s.e), NEW k \in Images, NEW spi, NEW grown, NEW fail,
         NEW r, r = grub_load_linux(s, k, TRUE, spi, grown, fail), r.ok
  PROVE  /\ Shape(r) /\ BufferInv(r.e)
         /\ k.signed /\ TextIn(r, k) /\ ParamsIn(r, k)
<1> DEFINE n == Text(k)
           s0 == [s EXCEPT !.ok = TRUE]
           a == allocate_pages(s0, n, grown)
           b == intel_cln_imr_setup(a, n)
           c == PutText(PutParams(b, k), k, a.prot, fail)
           refused == (~grub_cln_fetch_sbh(k, spi)) \/ fail = 1 \/ k.linux # "bzImage" \/ ~k.sane
           x == IF refused THEN Err(s)
                ELSE IF ~a.ok THEN a
                ELSE IF fail = 3 THEN Err(a)
                ELSE IF fail = 2 \/ ~k.signed THEN Err(c) ELSE c
<1>1. r = [x EXCEPT !.loaded = x.ok]
  BY DEF grub_load_linux, LinuxLoaded, Then, grub_cln_verify_asset_signature
<1>2. n \in Nat
  <2>1. 1 \in DOMAIN k.segs /\ \A i \in DOMAIN k.segs : k.segs[i].file \in Nat
    BY MemAssumption
  <2> QED BY <2>1 DEF Text
<1>3. Shape(s0) /\ BufferInv(s0.e)
  BY DEF Shape, Fields
<1> HIDE DEF n, s0
<1>4. /\ DOMAIN a = Fields
      /\ a.ok => /\ Shape(a) /\ BufferInv(a.e)
                 /\ a.real \in Page /\ a.real + RealPages <= Top
                 /\ a.prot = Base /\ Base + n <= Top
                 /\ \A p \in Span(a.real, RealPages) : Own(a.e, p)
                 /\ \A p \in Span(Base, n) : Own(a.e, p) /\ p \notin Span(a.real, RealPages)
  <2>1. a = allocate_pages(s0, n, grown)
    OBVIOUS
  <2> HIDE DEF a
  <2> QED BY <1>2, <1>3, <2>1, MemoryForKernel
<1> HIDE DEF a
<1>5. DOMAIN b = Fields /\ b.e = a.e /\ b.real = a.real /\ b.mem = a.mem
  BY <1>4 DEF intel_cln_imr_setup, Fields
<1> HIDE DEF b
<1>6. /\ DOMAIN c = Fields /\ c.e = a.e /\ c.real = a.real
      /\ c.mem = [p \in Page |->
           IF p \in Span(a.prot, n) THEN IF fail = 2 THEN Junk ELSE <<k.name, 1, p - a.prot>>
           ELSE IF p \in Span(a.real, RealPages) THEN ParamPage(k, p - a.real)
           ELSE a.mem[p]]
  BY <1>5 DEF PutText, PutParams, Fill, Fields, n
<1> HIDE DEF c
<1>7. ~refused /\ a.ok /\ fail # 2 /\ k.signed /\ x = c
  <2> HIDE DEF refused
  <2>0. \A y : DOMAIN y = Fields => DOMAIN Err(y) = Fields /\ ~Err(y).ok
    BY Refused
  <2>1. DOMAIN x = Fields
    BY <1>4, <1>6, <2>0 DEF Shape
  <2>2. x.ok
    <3> HIDE DEF x
    <3> QED BY <1>1, <2>1 DEF Fields
  <2>3. ~Err(s).ok /\ ~Err(a).ok /\ ~Err(c).ok
    BY <1>4, <1>6, <2>0 DEF Shape
  <2>4. ~refused
    BY <2>2, <2>3
  <2>5. a.ok /\ fail # 3
    BY <2>2, <2>3, <2>4
  <2>6. fail # 2 /\ k.signed
    BY <2>2, <2>3, <2>4, <2>5
  <2> QED BY <2>4, <2>5, <2>6
<1> HIDE DEF x
<1>8. DOMAIN r = Fields /\ r.e = c.e /\ r.real = c.real /\ r.mem = c.mem
  BY <1>1, <1>6, <1>7 DEF Fields
<1>9. Shape(r) /\ BufferInv(r.e)
  BY <1>4, <1>6, <1>7, <1>8 DEF Shape
<1>10. TextIn(r, k)
  <2>1. \A j \in 0 .. n - 1 : Base + j \in Span(Base, n) /\ Base + j \in Page
    BY <1>2, <1>4, <1>7, Constants DEF Span, Least
  <2>2. \A j \in 0 .. n - 1 : (Base + j) - Base = j
    BY Constants
  <2>3. ASSUME NEW j \in 0 .. n - 1 PROVE r.mem[Base + j] = <<k.name, 1, j>>
    <3>1. \A p \in Page : p \in Span(Base, n) => r.mem[p] = <<k.name, 1, p - Base>>
      BY <1>4, <1>6, <1>7, <1>8
    <3>2. r.mem[Base + j] = <<k.name, 1, (Base + j) - Base>>
      BY <2>1, <3>1
    <3> QED BY <2>2, <3>2
  <2> QED BY <1>4, <1>6, <1>7, <1>8, <2>1, <2>3 DEF TextIn, n
<1>11. ParamsIn(r, k)
  <2>1. \A j \in 0 .. RealPages - 1 : a.real + j \in Span(a.real, RealPages) /\ a.real + j \in Page
    BY <1>4, <1>7, Constants DEF Span, Least
  <2>2. \A j \in 0 .. RealPages - 1 : (a.real + j) - a.real = j
    BY <1>4, <1>7, Constants
  <2>3. \A j \in 0 .. RealPages - 1 : r.mem[a.real + j] = ParamPage(k, j)
    BY <1>4, <1>6, <1>7, <1>8, <2>1, <2>2
  <2>4. a.real \in Nat
    BY <1>4, <1>7, Constants
  <2>5. \A j \in 0 .. RealPages - 1 : Own(r.e, r.real + j)
    BY <1>4, <1>6, <1>7, <1>8, <2>1
  <2>6. r.real = a.real /\ r.real + RealPages <= Top
    BY <1>4, <1>6, <1>7, <1>8
  <2>7. \A j \in 0 .. RealPages - 1 : r.mem[r.real + j] = ParamPage(k, j)
    BY <2>3, <2>6
  <2> QED BY <2>4, <2>5, <2>6, <2>7 DEF ParamsIn
<1> QED BY <1>7, <1>9, <1>10, <1>11

(* The loader of Multiboot kernels leaves the buffer alone as well.        *)
LEMMA MultibootLoaded ==
  ASSUME NEW s, Shape(s), BufferInv(s.e), NEW k \in Images, NEW fail,
         NEW r, r = grub_load_multiboot(s, k, fail), r.ok
  PROVE  Shape(r) /\ BufferInv(r.e)
<1> DEFINE n == k.segs[1].file
           s0 == [s EXCEPT !.ok = TRUE, !.real = Null, !.realn = 0, !.prot = Null, !.protn = n]
           t == Take(s0, Base, n)
           q == LoadSegments(t.s.mem, k, fail - 1)
           l == [t.s EXCEPT !.prot = t.at, !.cur = q.cur, !.mem = q.mem]
           refused == fail = 1 \/ k.mb = "unsupported" \/ ~k.elf \/ ~k.sane
           x == IF refused THEN Err(s)
                ELSE IF t.at = Null THEN Err(free_pages(t.s))
                ELSE IF q.ok THEN l ELSE Err(l)
<1>1. r = [x EXCEPT !.loaded = @ /\ x.ok]
  BY DEF grub_load_multiboot, Then
<1>2. n \in Nat
  BY MemAssumption
<1>3. Shape(s0) /\ BufferInv(s0.e)
  BY DEF Shape, Fields
<1> HIDE DEF n, s0
<1>4. Shape(t.s) /\ BufferInv(t.s.e)
  <2>1. t = Take(s0, Base, n)
    OBVIOUS
  <2> HIDE DEF t
  <2> QED BY <1>2, <1>3, <2>1, Taken
<1> HIDE DEF t
<1>5. DOMAIN l = Fields /\ l.e = t.s.e
  BY <1>4 DEF Shape, Fields
<1> HIDE DEF l
<1>6. x = l
  <2> HIDE DEF refused
  <2>1. DOMAIN x = Fields
    BY <1>4, <1>5, Refused DEF Shape
  <2>2. x.ok
    <3> HIDE DEF x
    <3> QED BY <1>1, <2>1 DEF Fields
  <2> QED BY <1>4, <1>5, <2>2, Refused DEF Shape
<1>7. DOMAIN r = Fields /\ r.e = l.e
  BY <1>1, <1>5, <1>6 DEF Fields
<1> QED BY <1>4, <1>5, <1>7 DEF Shape

-----------------------------------------------------------------------------
(* A RAM disk joins the kernel, and leaves what the kernel has.            *)

LEMMA HeaderAndDisk ==
  ASSUME NEW a \in Nat, NEW len \in Nat, len >= 1, a + len + 1 <= Top
  PROVE  /\ Span(a, 1) = {a} /\ a \in Span(a, len + 1) /\ a \in Page
         /\ \A p \in Span(a + 1, len) : p \in Span(a, len + 1) /\ p # a
         /\ \A j \in 0 .. len - 1 : a + 1 + j \in Span(a + 1, len) /\ a + 1 + j \in Page
         /\ a + 1 \in Nat /\ a + 1 # Null
BY Constants DEF Span, Least

LEMMA Result ==
  ASSUME NEW a, NEW b, NEW r, r = [s |-> a, at |-> b] PROVE r.s = a /\ r.at = b
OBVIOUS

Fine(s) == s.ok

\* r is what the loader of RAM disks returns when m has joined the kernel of s.
Joins(s, r, m) ==
  /\ Shape(r.s) /\ BufferInv(r.s.e) /\ Keeps(s, r.s) /\ r.s.real = s.real
  /\ r.at \in Nat /\ r.at # Null /\ m.signed /\ DiskIn(r.s, r.at, m)

LEMMA DiskLoaded ==
  ASSUME NEW s, Shape(s), BufferInv(s.e), NEW m \in Modules, NEW spi, NEW grown, NEW limit, NEW fail,
         NEW r, r = grub_load_initrd(s, m, TRUE, spi, grown, limit, fail), Fine(r.s)
  PROVE  Joins(s, r, m)
<1> DEFINE n == m.len + 1
           refused == ~s.loaded \/ ~grub_cln_fetch_sbh(m, spi) \/ fail = 1
           s0 == [s EXCEPT !.ok = TRUE, !.initrdn = n]
           g == GetMap(s0, grown)
           at == InitrdAt(g.s, n, s.prot + 3 * s.protn, limit)
           t == Take(g.s, at, n)
           got == PutInitrd(t.s, m, t.at + 1, fail)
           last == [got EXCEPT !.e = free_some_pages(@, t.at, 1)]
<1>1. r = IF refused THEN Nowhere(Err(s))
          ELSE IF ~g.ok \/ at = Null THEN Nowhere(Err(g.s))
          ELSE IF t.at = Null THEN Nowhere(Err([t.s EXCEPT !.initrd = Null]))
          ELSE IF fail = 2 \/ ~m.signed THEN Nowhere(Err(got))
          ELSE [s |-> last, at |-> t.at + 1]
  BY DEF grub_load_initrd, Then, grub_cln_verify_asset_signature
<1>2. n \in Nat /\ m.len \in Nat
  BY MemAssumption
<1>3. Shape(s0) /\ BufferInv(s0.e) /\ Keeps(s, s0) /\ s0.real = s.real
  BY DEF Shape, Fields, Keeps
<1> HIDE DEF n, s0, refused, last
<1>4. Shape(g.s) /\ BufferInv(g.s.e) /\ Keeps(s0, g.s) /\ g.s.real = s0.real
  <2>1. g = GetMap(s0, grown)
    OBVIOUS
  <2> HIDE DEF g
  <2> QED BY <1>3, <2>1, Fetched
<1> HIDE DEF g, at
<1>5. /\ Shape(t.s) /\ BufferInv(t.s.e) /\ Keeps(g.s, t.s) /\ t.s.real = g.s.real
      /\ t.at # Null =>
           /\ t.at \in Page /\ t.at + n <= Top
           /\ \A p \in Span(t.at, n) : Own(t.s.e, p) /\ ~Own(g.s.e, p)
  <2>1. t = Take(g.s, at, n)
    OBVIOUS
  <2> HIDE DEF t, got
  <2>2. n \in Nat /\ Shape(g.s) /\ BufferInv(g.s.e)
    BY <1>2, <1>4
  <2> QED BY <2>1, <2>2, Taken
<1> HIDE DEF t
<1>6. /\ DOMAIN got = Fields /\ got.e = t.s.e /\ got.real = t.s.real
      /\ got.mem = [p \in Page |-> IF p \in Span(t.at + 1, m.len)
                                 THEN IF fail = 2 THEN Junk ELSE ModPage(m, p - (t.at + 1)) ELSE t.s.mem[p]]
  BY <1>5 DEF PutInitrd, Fill, Shape, Fields
<1> HIDE DEF got
<1>7. ~refused /\ g.ok /\ at # Null /\ t.at # Null /\ fail # 2 /\ m.signed
  <2>1. DOMAIN [t.s EXCEPT !.initrd = Null] = Fields
    BY <1>5 DEF Shape
  <2>2. \A y : DOMAIN y = Fields => ~Fine(Nowhere(Err(y)).s)
    BY Refused DEF Nowhere, Fine
  <2> HIDE DEF at
  <2> QED BY <1>1, <1>4, <1>5, <1>6, <2>1, <2>2 DEF Shape
<1>8. r = [s |-> last, at |-> t.at + 1]
  BY <1>1, <1>7
<1> DEFINE f == free_some_pages(got.e, t.at, 1)
<1>10. last = [got EXCEPT !.e = f]
  BY DEF last
<1>9. /\ DOMAIN f = EFields /\ f.buf = got.e.buf /\ f.pages = got.e.pages
      /\ f.type = [p \in Page |-> IF p \in Span(t.at, 1) THEN "conv" ELSE got.e.type[p]]
  <2>1. DOMAIN got.e = EFields
    BY <1>5, <1>6 DEF Shape
  <2>2. f = free_some_pages(got.e, t.at, 1)
    OBVIOUS
  <2> HIDE DEF f
  <2> QED BY <2>1, <2>2, PagesFreed
<1> HIDE DEF f
<1>11. /\ DOMAIN r.s = Fields /\ r.s.e = f /\ r.s.real = got.real /\ r.s.mem = got.mem
       /\ r.at = t.at + 1
  <2>1. DOMAIN got = Fields
    BY <1>6
  <2>2. DOMAIN last = Fields /\ last.e = f /\ last.real = got.real /\ last.mem = got.mem
    BY <1>10, <2>1 DEF Fields
  <2>3. r.s = last /\ r.at = t.at + 1
    <3> HIDE DEF last
    <3> QED BY <1>8, Result
  <2> HIDE DEF last
  <2> QED BY <2>2, <2>3
\* The page of the header was taken now, so that what GRUB had before keeps its pages.
<1>0. t.at \in Nat /\ t.at < Top /\ t.at + m.len + 1 <= Top /\ m.len >= 1
  <2>1. m.len >= 1
    BY <1>2, MemAssumption
  <2>2. t.at \in Page /\ t.at + n <= Top
    BY <1>5, <1>7
  <2> QED BY <1>2, <2>1, <2>2, Constants DEF n
<1>12. /\ Span(t.at, 1) = {t.at} /\ t.at \in Span(t.at, n) /\ t.at \in Page
       /\ \A p \in Span(t.at + 1, m.len) : p \in Span(t.at, n) /\ p # t.at
       /\ \A j \in 0 .. m.len - 1 : t.at + 1 + j \in Span(t.at + 1, m.len) /\ t.at + 1 + j \in Page
  BY <1>2, <1>0, HeaderAndDisk DEF n
<1>13. ASSUME NEW p, Own(t.s.e, p), p # t.at
       PROVE  Own(f, p)
  BY <1>5, <1>6, <1>9, <1>10, <1>12, <1>13 DEF Own
<1>14. ASSUME NEW p, Own(s.e, p)
       PROVE  Own(f, p) /\ got.mem[p] = s.mem[p]
  <2>1. Own(g.s.e, p) /\ Own(t.s.e, p) /\ t.s.mem[p] = s.mem[p]
    BY <1>3, <1>4, <1>5, <1>14 DEF Keeps
  <2>2. p \notin Span(t.at, n)
    BY <1>5, <1>7, <2>1
  <2>3. p # t.at /\ p \notin Span(t.at + 1, m.len)
    BY <1>12, <2>2
  <2>4. p \in Page
    BY <2>1 DEF Own
  <2> QED BY <1>6, <1>13, <2>1, <2>3, <2>4
<1>15. BufferInv(r.s.e)
  <2>1. Own(t.s.e, t.at)
    BY <1>5, <1>7, <1>12
  <2>2. f.buf = t.s.e.buf /\ f.pages = t.s.e.pages
    BY <1>6, <1>9
  <2>3. f.buf # Null => Own(t.s.e, t.at) /\ f.buf # t.at /\ f.buf \in Page /\ t.s.e.type[f.buf] = "loader" /\ f.pages = 1
    BY <1>5, <2>1, <2>2 DEF Own, BufferInv
  <2>4. f.buf # Null => f.type[f.buf] = "loader"
    BY <1>6, <1>9, <1>12, <2>3
  <2> QED BY <1>11, <2>3, <2>4 DEF BufferInv
<1>16. DiskIn(r.s, r.at, m)
  <2>1. ASSUME NEW j \in 0 .. m.len - 1
        PROVE  Own(f, t.at + 1 + j) /\ got.mem[t.at + 1 + j] = ModPage(m, j)
    <3> DEFINE p == t.at + 1 + j
    <3>1. p \in Span(t.at + 1, m.len) /\ p \in Page /\ p \in Span(t.at, n) /\ p # t.at
      BY <1>12
    <3>2. p - (t.at + 1) = j
      BY <1>0, Constants
    <3> HIDE DEF p
    <3>3. Own(f, p)
      BY <1>5, <1>7, <1>13, <3>1
    <3>4. got.mem[p] = ModPage(m, j)
      BY <1>6, <1>7, <3>1, <3>2
    <3> QED BY <3>3, <3>4 DEF p
  <2>2. t.at + 1 \in Nat /\ (t.at + 1) + m.len <= Top
    BY <1>2, <1>0, Constants
  <2> QED BY <1>11, <2>1, <2>2 DEF DiskIn
<1>17. r.at # Null /\ r.at \in Nat
  BY <1>2, <1>0, <1>11, HeaderAndDisk
<1>18. Shape(r.s)
  BY <1>9, <1>10, <1>11 DEF Shape
<1>19. Keeps(s, r.s)
  BY <1>11, <1>14 DEF Keeps
<1>20. r.s.real = s.real
  BY <1>3, <1>4, <1>5, <1>6, <1>11
<1> QED BY <1>7, <1>15, <1>16, <1>17, <1>18, <1>19, <1>20 DEF Joins

-----------------------------------------------------------------------------
(* What is kept is still there, and the firmware is left with it.          *)

LEMMA KernelKept ==
  ASSUME NEW s, NEW t, Keeps(s, t), t.real = s.real, NEW k
  PROVE  /\ TextIn(s, k) => TextIn(t, k)
         /\ ParamsIn(s, k) => ParamsIn(t, k)
BY DEF Keeps, TextIn, ParamsIn

LEMMA DiskKept ==
  ASSUME NEW s, NEW t, Keeps(s, t), NEW at, NEW m
  PROVE  DiskIn(s, at, m) => DiskIn(t, at, m)
BY DEF Keeps, DiskIn

LEMMA Leaving ==
  ASSUME NEW s, Shape(s), BufferInv(s.e), NEW k, NEW grown, NEW moved,
         NEW r, r \in {big_linux_boot(s, k, grown, moved), multi_boot(s, grown, moved)}, r.go
  PROVE  Shape(r.s) /\ BufferInv(r.s.e) /\ Keeps(s, r.s) /\ r.s.real = s.real
<1> DEFINE g == GetMap(s, grown)
           go == g.ok /\ grub_efi_exit_boot_services(moved)
<1>1. \E map : r = IF go THEN [s |-> g.s, go |-> TRUE, e820 |-> map]
                        ELSE [s |-> Err(g.s), go |-> FALSE, e820 |-> <<>>]
  BY DEF big_linux_boot, multi_boot, Leave, Stay, Then
<1>2. Shape(g.s) /\ BufferInv(g.s.e) /\ Keeps(s, g.s) /\ g.s.real = s.real
  <2>1. g = GetMap(s, grown)
    OBVIOUS
  <2> HIDE DEF g
  <2> QED BY <2>1, Fetched
<1> HIDE DEF g, go
<1>3. r.s = g.s
  BY <1>1
<1> QED BY <1>2, <1>3

\* What is found is what was loaded.
LEMMA KernelFound ==
  ASSUME NEW s, NEW k, TextIn(s, k), ParamsIn(s, k), efi
  PROVE  Found(s, "biglinux", k, Base) = k
<1>1. Holds(s.mem, Base, Text(k), LAMBDA j : <<k.name, 1, j>>)
  BY DEF Holds, TextIn
<1>2. Holds(s.mem, s.real, RealPages, LAMBDA j : ParamPage(k, j))
  BY DEF Holds, ParamsIn
<1> QED BY <1>1, <1>2 DEF Found

LEMMA DisksFound ==
  ASSUME NEW s, NEW at, NEW m, m.len \in Nat, DiskIn(s, at, m), NEW mods
  PROVE  /\ ModsFound(s, "biglinux", mods, <<[at |-> at, files |-> <<m>>, apart |-> TRUE]>>) = <<m>>
         /\ ModsFound(s, "biglinux", mods, <<>>) = <<>>
BY DiskFound DEF ModsFound

-----------------------------------------------------------------------------
(* The invariant.                                                          *)

LEMMA InvInit == Init => IInv
<1> SUFFICES ASSUME Init PROVE IInv
  OBVIOUS
<1>1. secure => build = "ia32"
  BY DEF Init
<1>2. Shape(st) /\ BufferInv(st.e)
  <2>1. DOMAIN Fresh = Fields /\ Fresh.e = grub_efi_mm_init
    BY DEF Fresh, Fields
  <2>2. DOMAIN grub_efi_mm_init = EFields /\ grub_efi_mm_init.buf = Null
    BY DEF grub_efi_mm_init, EFields
  <2> QED BY <2>1, <2>2 DEF Init, Shape, BufferInv
<1>3. kernel_type # "biglinux"
  BY DEF Init
<1> QED BY <1>1, <1>2, <1>3 DEF IInv, OnlyIa32, LoadedInv, KernelReady, SignedOnly

\* A command is read by a board that has had no failure yet.
LEMMA AtPrompt ==
  ASSUME IInv, secure, Prompt
  PROVE  /\ build = "ia32" /\ efi /\ secure' = secure /\ build' = build
         /\ started[1] = NoImage
         /\ Shape(st) /\ BufferInv(st.e) /\ KernelReady
BY DEF IInv, OnlyIa32, LoadedInv, Ready, Prompt, efi

LEMMA FlashAsset ==
  /\ spi_open("kernel", TRUE) # <<>> => spi_open("kernel", TRUE)[1] \in Images
  /\ spi_open("ramdisk", TRUE) # <<>> => /\ spi_open("ramdisk", TRUE)[1] \in Modules
                                        /\ spi_open("ramdisk", TRUE) = <<spi_open("ramdisk", TRUE)[1]>>
<1>1. \A kind : spi_open(kind, TRUE) = IF <<kind, TRUE>> \in DOMAIN Flash THEN <<Flash[<<kind, TRUE>>]>> ELSE <<>>
  BY DEF spi_open, grub_cln_mfh_entry_lookup
<1>2. <<"kernel", TRUE>> \in DOMAIN Flash => Flash[<<"kernel", TRUE>>] \in Images
  BY FlashAssumption
<1>3. <<"ramdisk", TRUE>> \in DOMAIN Flash => Flash[<<"ramdisk", TRUE>>] \in Modules
  BY FlashAssumption
<1>4. \A x : <<x>>[1] = x
  OBVIOUS
<1>5. \A kind : spi_open(kind, TRUE) # <<>> =>
        <<kind, TRUE>> \in DOMAIN Flash /\ spi_open(kind, TRUE) = <<Flash[<<kind, TRUE>>]>>
  BY <1>1
<1>6. \A kind : spi_open(kind, TRUE) # <<>> => spi_open(kind, TRUE)[1] = Flash[<<kind, TRUE>>]
  BY <1>4, <1>5
<1> HIDE DEF spi_open
<1> QED BY <1>2, <1>3, <1>5, <1>6

LEMMA KernelStep ==
  ASSUME IInv, secure, Kernel
  PROVE  LoadedInv' /\ started' = started
<1> USE DEF Command
<1>1. /\ build = "ia32" /\ efi /\ secure' = secure /\ Shape(st) /\ BufferInv(st.e)
  BY AtPrompt DEF Kernel
<1>0. PICK k \in Images \cup Spi :
        \E want \in {"none", k.ask}, grown \in Grown, fail \in 0 .. Len(k.segs) + 1, mem \in MemLimits :
           kernel_func(k, want, fail, grown, mem)
  BY DEF Kernel
<1>2. PICK want \in {"none", k.ask}, grown \in Grown, fail \in 0 .. Len(k.segs) + 1, mem \in MemLimits :
        kernel_func(k, want, fail, grown, mem)
  BY <1>0
<1> DEFINE spi == k = FromFlash
           f == grub_cln_asset_open("kernel", spi, k, secure)
           type == CASE want = "none" -> "biglinux"
                     [] want = "multiboot" /\ build = "ia32" -> "multiboot"
                     [] OTHER -> "none"
<1>3. /\ kernel_efi(k, want, fail, grown) /\ started' = started /\ ramdisk' = <<>>
      /\ kernel_type' # "none" => kern' = IF k = FromFlash THEN spi_open("kernel", secure)[1] ELSE k
  BY <1>1, <1>2 DEF kernel_func
<1>4. SUFFICES ASSUME Ready' PROVE Shape(st)' /\ BufferInv(st.e)' /\ KernelReady'
  BY <1>3 DEF LoadedInv
<1>5. PICK r : /\ r = CASE type = "none" -> [st EXCEPT !.ok = TRUE]
                         [] type # "none" /\ f = <<>> -> Err(st)
                         [] f # <<>> /\ want = "none" /\ build = "ia32" -> grub_load_linux(st, f[1], secure, spi, grown, fail)
                         [] f # <<>> /\ want = "none" /\ build = "x86_64" -> grub_load_linux_64(st, f[1], grown, fail)
                         [] OTHER -> grub_load_multiboot(st, k, fail)
               /\ st' = r
               /\ kernel_type' = IF r.ok THEN type ELSE "none"
               /\ grub_cln_recovery_shell(r.ok)
  BY <1>3 DEF kernel_efi
<1>6. r.ok
  BY <1>4, <1>5 DEF grub_cln_recovery_shell, Ready
<1>7. ~Err(st).ok
  BY <1>1, Refused DEF Shape
<1> HIDE DEF f, spi
<1>8. CASE f # <<>> /\ want = "none"
  <2>0. type = "biglinux"
    BY <1>8
  <2>1. r = grub_load_linux(st, f[1], TRUE, spi, grown, fail) /\ kernel_type' = "biglinux"
    <3> HIDE DEF type
    <3> QED BY <1>1, <1>5, <1>6, <1>8, <2>0
  <2>2. f[1] \in Images /\ kern' = f[1]
    <3>1. CASE k = FromFlash
      <4>1. f = spi_open("kernel", TRUE)
        BY <1>1, <3>1 DEF f, spi, grub_cln_asset_open
      <4> QED BY <1>1, <1>3, <1>8, <2>1, <3>1, <4>1, FlashAsset
    <3>2. CASE k # FromFlash
      <4>1. f = <<k>> /\ k \in Images
        BY <1>0, <3>2 DEF f, spi, grub_cln_asset_open, Spi
      <4> QED BY <1>3, <2>1, <3>2, <4>1
    <3> QED BY <3>1, <3>2
  <2>3. Shape(r) /\ BufferInv(r.e) /\ f[1].signed /\ TextIn(r, f[1]) /\ ParamsIn(r, f[1])
    BY <1>1, <1>6, <2>1, <2>2, KernelLoaded
  <2> QED BY <1>3, <1>5, <2>2, <2>3 DEF KernelReady
<1>9. CASE f # <<>> /\ want = "multiboot"
  <2>0. type = "multiboot"
    BY <1>1, <1>9
  <2>1. r = grub_load_multiboot(st, k, fail) /\ kernel_type' = "multiboot"
    <3> HIDE DEF type
    <3> QED BY <1>1, <1>5, <1>6, <1>9, <2>0
  <2>2. k \in Images
    BY <1>2, <1>9 DEF Spi, FromFlash
  <2>3. Shape(r) /\ BufferInv(r.e)
    BY <1>1, <1>6, <2>1, <2>2, MultibootLoaded
  <2> QED BY <1>5, <2>1, <2>3 DEF KernelReady
<1>10. CASE f = <<>> /\ want \in {"none", "multiboot"}
  <2>0. type # "none"
    BY <1>1, <1>10
  <2>1. r = Err(st)
    <3> HIDE DEF type
    <3> QED BY <1>5, <1>10, <2>0
  <2> QED BY <1>6, <1>7, <2>1
<1>11. CASE want \notin {"none", "multiboot"}
  <2>0. type = "none"
    BY <1>11
  <2>1. r = [st EXCEPT !.ok = TRUE] /\ kernel_type' = "none"
    <3>1. kernel_type' = type
      BY <1>5, <1>6
    <3>2. r = [st EXCEPT !.ok = TRUE]
      <4> HIDE DEF type
      <4> QED BY <1>5, <1>11, <2>0
    <3> QED BY <2>0, <3>1, <3>2
  <2>2. Shape(r) /\ r.e = st.e
    BY <1>1, <2>1 DEF Shape, Fields
  <2> QED BY <1>1, <1>5, <2>1, <2>2 DEF KernelReady
<1> QED BY <1>8, <1>9, <1>10, <1>11

LEMMA InitrdStep ==
  ASSUME IInv, secure, Initrd
  PROVE  LoadedInv' /\ started' = started
<1> USE DEF Command
<1>1. /\ build = "ia32" /\ efi /\ secure' = secure /\ Shape(st) /\ BufferInv(st.e) /\ KernelReady
  BY AtPrompt DEF Initrd
<1>2. PICK ms \in {<<m>> : m \in Modules \cup Spi} \cup (Modules \X Modules), missing \in BOOLEAN,
           grown \in Grown, fail \in 0 .. 2 :
        initrd_func(ms, missing, fail, grown)
  BY DEF Initrd
<1> DEFINE m == ms[1]
           code == IF missing THEN 1 ELSE fail
           spi == m = FromFlash
           f == grub_cln_asset_open("ramdisk", spi, m, secure)
<1>3. m \in Modules \cup Spi
  <2>1. CASE ms \in Modules \X Modules
    BY <2>1
  <2>2. CASE ms \in {<<x>> : x \in Modules \cup Spi}
    BY <2>2
  <2> QED BY <2>1, <2>2
<1> HIDE DEF m
<1>4. initrd_efi(m, code, grown) /\ started' = started
  BY <1>1, <1>2 DEF initrd_func, Initrd, m
<1> HIDE DEF code
<1>5. SUFFICES ASSUME Ready' PROVE Shape(st)' /\ BufferInv(st.e)' /\ KernelReady'
  BY <1>4 DEF LoadedInv
<1>6. PICK r : /\ r = IF f = <<>> THEN Nowhere(Err(st))
                     ELSE IF build = "ia32" THEN grub_load_initrd(st, f[1], secure, spi, grown, linux_mem_size, code)
                     ELSE grub_load_initrd_64(st, f[1], grown, linux_mem_size, code)
               /\ st' = r.s
               /\ ramdisk' = IF r.at = Null THEN ramdisk
                             ELSE <<[at |-> r.at, files |-> f, apart |-> Clear(r.at, f[1].len, kern)]>>
               /\ grub_cln_recovery_shell(r.s.ok)
               /\ UNCHANGED <<kernel_type, kern>>
  BY <1>4 DEF initrd_efi
<1>7. Fine(r.s)
  BY <1>1, <1>5, <1>6 DEF grub_cln_recovery_shell, Ready, Fine
<1>8. ~Fine(Nowhere(Err(st)).s)
  BY <1>1, Refused DEF Shape, Nowhere, Fine
<1> HIDE DEF f, spi
<1>9. f # <<>> /\ r = grub_load_initrd(st, f[1], TRUE, spi, grown, linux_mem_size, code)
  BY <1>1, <1>6, <1>7, <1>8
<1>10. f[1] \in Modules /\ f = <<f[1]>>
  BY <1>1, <1>3, <1>9, FlashAsset DEF f, spi, grub_cln_asset_open, Spi
<1>11. /\ Shape(r.s) /\ BufferInv(r.s.e) /\ Keeps(st, r.s) /\ r.s.real = st.real
       /\ r.at \in Nat /\ r.at # Null /\ f[1].signed /\ DiskIn(r.s, r.at, f[1])
  <2>1. PICK d, x, y : d = f[1] /\ d \in Modules /\ r = grub_load_initrd(st, d, TRUE, x, grown, linux_mem_size, y)
    BY <1>9, <1>10
  <2>2. Shape(st) /\ BufferInv(st.e) /\ Fine(r.s)
    BY <1>1, <1>7
  <2>3. Joins(st, r, d)
    BY <2>1, <2>2, DiskLoaded
  <2> QED BY <2>1, <2>3 DEF Joins
<1>12. KernelReady'
  <2>1. SUFFICES ASSUME kernel_type = "biglinux" PROVE KernelReady'
    BY <1>6 DEF KernelReady
  <2>2. kern' = kern /\ kern \in Images /\ kern.signed /\ TextIn(st', kern) /\ ParamsIn(st', kern)
    BY <1>1, <1>6, <1>11, <2>1, KernelKept DEF KernelReady
  <2>0. Clear(r.at, f[1].len, kern) = TRUE
    BY <1>1 DEF Clear
  <2>3. ramdisk' = <<[at |-> r.at, files |-> <<f[1]>>, apart |-> TRUE]>> /\ DiskIn(st', r.at, f[1])
    BY <1>6, <1>10, <1>11, <2>0
  <2> QED BY <1>10, <1>11, <2>2, <2>3 DEF KernelReady
<1> QED BY <1>6, <1>11, <1>12

LEMMA ModuleStep ==
  ASSUME IInv, secure, Module
  PROVE  LoadedInv' /\ started' = started
<1> USE DEF Command
<1>1. /\ secure' = secure /\ Shape(st) /\ BufferInv(st.e)
  BY AtPrompt DEF Module
<1>2. PICK m \in Modules, fail \in 0 .. 1 : module_func(m, fail)
  BY DEF Module
<1>3. kernel_type' = "multiboot" /\ started' = started
  BY <1>2 DEF Module, module_func
<1>4. st' = st \/ \E mem, cur : st' = [st EXCEPT !.mem = mem, !.cur = cur]
  BY <1>2 DEF module_func
<1>5. Shape(st') /\ st'.e = st.e
  BY <1>1, <1>4 DEF Shape, Fields
<1> QED BY <1>1, <1>3, <1>5 DEF LoadedInv, KernelReady

LEMMA ChainloaderStep ==
  ASSUME IInv, secure, Chainloader
  PROVE  LoadedInv' /\ started' = started
<1> USE DEF Command
<1>1. /\ efi /\ secure' = secure /\ Shape(st) /\ BufferInv(st.e)
  BY AtPrompt DEF Chainloader
<1>2. PICK k \in Images, fail \in 0 .. 1, force \in BOOLEAN : chainloader_func(k, fail, force)
  BY DEF Chainloader
<1>3. kernel_type' \in {"chain", "none"} /\ started' = started
  BY <1>2 DEF chainloader_func
<1>4. st' = [st EXCEPT !.ok = fail = 0]
  BY <1>1, <1>2 DEF chainloader_func, grub_chainloader
<1>5. Shape(st') /\ st'.e = st.e
  BY <1>1, <1>4 DEF Shape, Fields
<1> QED BY <1>1, <1>3, <1>5 DEF LoadedInv, KernelReady

\* What is started is what was loaded, and that was signed.
LEMMA StartStep ==
  ASSUME IInv, secure, Start
  PROVE  LoadedInv' /\ SignedOnly'
<1> USE DEF Command
<1>1. /\ build = "ia32" /\ efi /\ secure' = secure /\ build' = build /\ started[1] = NoImage
      /\ Shape(st) /\ BufferInv(st.e) /\ KernelReady
  BY AtPrompt DEF Start
<1>2. PICK grown \in Grown, moved \in BOOLEAN : boot_func(grown, moved)
  BY <1>1 DEF Start
<1>3. UNCHANGED <<kernel_type, kern, mll, ramdisk>>
  BY <1>2 DEF boot_func
<1>4. CASE kernel_type = "chain"
  <2>1. st' = st
    BY <1>2, <1>4 DEF boot_func, boot_chain
  <2> QED BY <1>1, <1>3, <1>4, <2>1 DEF LoadedInv, KernelReady, SignedOnly
<1>5. CASE kernel_type # "chain"
  <2>1. boot_efi(grown, moved)
    BY <1>1, <1>2, <1>5 DEF boot_func
  <2>2. PICK r : /\ r = CASE kernel_type = "biglinux" /\ build = "ia32" -> big_linux_boot(st, kern, grown, moved)
                           [] kernel_type = "biglinux" /\ build = "x86_64" -> big_linux_boot_64(st, kern, grown, moved)
                           [] OTHER -> multi_boot(st, grown, moved)
                 /\ st' = r.s
                 /\ started' = IF r.go THEN <<Found(r.s, kernel_type, kern, Base), ModsFound(r.s, kernel_type, mll, ramdisk)>>
                               ELSE started
                 /\ grub_cln_recovery_shell(r.go)
    BY <2>1 DEF boot_efi
  <2>3. CASE ~r.go
    <3>1. ~Ready'
      BY <1>1, <2>2, <2>3 DEF grub_cln_recovery_shell, Ready
    <3>2. started' = started
      BY <2>2, <2>3
    <3> QED BY <1>1, <3>1, <3>2 DEF LoadedInv, SignedOnly
  <2>4. CASE r.go
    <3>1. r \in {big_linux_boot(st, kern, grown, moved), multi_boot(st, grown, moved)}
      BY <1>1, <2>2
    <3>2. Shape(r.s) /\ BufferInv(r.s.e) /\ Keeps(st, r.s) /\ r.s.real = st.real
      BY <1>1, <2>4, <3>1, Leaving
    <3>3. CASE kernel_type # "biglinux"
      BY <1>3, <2>2, <3>2, <3>3 DEF LoadedInv, KernelReady, SignedOnly
    <3>4. CASE kernel_type = "biglinux"
      <4>1. kern \in Images /\ kern.signed /\ TextIn(r.s, kern) /\ ParamsIn(r.s, kern)
        BY <1>1, <3>2, <3>4, KernelKept DEF KernelReady
      <4>2. \/ ramdisk = <<>>
            \/ \E at \in Nat, m \in Modules :
                 ramdisk = <<[at |-> at, files |-> <<m>>, apart |-> TRUE]>> /\ m.signed /\ DiskIn(r.s, at, m)
        BY <1>1, <3>2, <3>4, DiskKept DEF KernelReady
      <4>3. LoadedInv'
        BY <1>1, <1>3, <2>2, <3>2, <4>1, <4>2 DEF LoadedInv, KernelReady
      <4>4. started' = <<kern, ModsFound(r.s, "biglinux", mll, ramdisk)>>
        BY <1>1, <2>2, <2>4, <3>4, <4>1, KernelFound
      <4>5. \A i \in DOMAIN ModsFound(r.s, "biglinux", mll, ramdisk) :
               ModsFound(r.s, "biglinux", mll, ramdisk)[i].signed
        <5>1. CASE ramdisk = <<>>
          <6>1. ModsFound(r.s, "biglinux", mll, <<>>) = <<>>
            BY DEF ModsFound
          <6> QED BY <5>1, <6>1
        <5>2. CASE ramdisk # <<>>
          <6>1. PICK at \in Nat, m \in Modules :
                   ramdisk = <<[at |-> at, files |-> <<m>>, apart |-> TRUE]>> /\ m.signed /\ DiskIn(r.s, at, m)
            BY <4>2, <5>2
          <6>2. m.len \in Nat
            BY MemAssumption
          <6>3. ModsFound(r.s, "biglinux", mll, ramdisk) = <<m>>
            BY <6>1, <6>2, DisksFound
          <6>4. \A i \in DOMAIN <<m>> : <<m>>[i] = m
            OBVIOUS
          <6> QED BY <6>1, <6>3, <6>4
        <5> QED BY <5>1, <5>2
      <4>6. SignedOnly'
        <5> DEFINE mods == ModsFound(r.s, "biglinux", mll, ramdisk)
        <5>1. started'[1] = kern /\ started'[2] = mods
          BY <4>4
        <5> HIDE DEF mods
        <5>2. \A i \in DOMAIN mods : mods[i].signed
          BY <4>5 DEF mods
        <5> QED BY <4>1, <5>1, <5>2 DEF SignedOnly
      <4> QED BY <4>3, <4>6
    <3> QED BY <3>3, <3>4
  <2> QED BY <2>3, <2>4
<1> QED BY <1>4, <1>5

(* Every command keeps the invariant.                                      *)
LEMMA InvStep ==
  ASSUME IInv, [Next]_vars
  PROVE  IInv'
<1>1. CASE UNCHANGED vars
  BY <1>1 DEF vars, IInv, OnlyIa32, LoadedInv, Ready, KernelReady, SignedOnly
<1>2. CASE Next /\ ~secure
  <2>1. UNCHANGED <<build, secure>>
    BY <1>2 DEF Next, Kernel, Module, Initrd, Chainloader, Map, Uppermem, Start, Exit, Impsprobe, Command, Prompt
  <2> QED BY <1>2, <2>1 DEF IInv, OnlyIa32, LoadedInv, SignedOnly
<1>3. CASE Next /\ secure
  <2>1. Prompt
    BY <1>3 DEF Next, Kernel, Module, Initrd, Chainloader, Map, Uppermem, Start, Exit, Impsprobe, Command
  <2>2. efi /\ OnlyIa32' /\ started[1] = NoImage
    BY <1>3, <2>1, AtPrompt DEF OnlyIa32
  <2>3. started' = started => SignedOnly'
    BY <2>2 DEF SignedOnly
  <2>4. CASE Kernel
    BY <1>3, <2>2, <2>3, <2>4, KernelStep DEF IInv
  <2>5. CASE Module
    BY <1>3, <2>2, <2>3, <2>5, ModuleStep DEF IInv
  <2>6. CASE Initrd
    BY <1>3, <2>2, <2>3, <2>6, InitrdStep DEF IInv
  <2>7. CASE Chainloader
    BY <1>3, <2>2, <2>3, <2>7, ChainloaderStep DEF IInv
  <2>8. CASE Start
    BY <1>3, <2>2, <2>8, StartStep DEF IInv
  <2>9. CASE Exit
    BY <2>2, <2>3, <2>9 DEF Exit, IInv, LoadedInv, Ready
  <2>10. CASE Map \/ Uppermem \/ Impsprobe
    BY <2>2, <2>10 DEF Map, Uppermem, Impsprobe
  <2> QED BY <1>3, <2>4, <2>5, <2>6, <2>7, <2>8, <2>9, <2>10 DEF Next
<1> QED BY <1>1, <1>2, <1>3

(* The invariant of the boot commands on a board that checks signatures:   *)
(* as long as no command has failed, the pages of a kernel and of its RAM  *)
(* disk are GRUB's own, hold what was verified when it was loaded, and are *)
(* not the buffer of the memory map (efimm.c, linux.c of ia32).            *)
THEOREM BootInvariant == Spec => []IInv
<1>1. Init => IInv
  BY InvInit
<1>2. IInv /\ [Next]_vars => IInv'
  BY InvStep
<1> QED BY <1>1, <1>2, PTL DEF Spec

(* A board that checks signatures (efi/clanton) starts no Linux kernel and *)
(* no RAM disk that the ROM has not found to be signed, whatever commands  *)
(* are given in whatever order, for every memory map and every flash.      *)
THEOREM StartsSignedOnly == Spec => []SignedOnly
<1>1. IInv => SignedOnly
  BY DEF IInv
<1> QED BY <1>1, BootInvariant, PTL
-----------------------------------------------------------------------------
(* What efimm.c notes of GRUB's allocations.                               *)
(*                                                                         *)
(* Span(t.addr, t.num) are the pages of an entry t of the table.  An entry *)
(* is stale when it names a page that is no longer GRUB's; the pages of    *)
(* such an entry are all amiss, so that what is allocated there again      *)
(* overlaps nothing that counts.                                           *)

Covered(t) == Span(t.addr, t.num)
TableAgrees(e) ==
  \A p \in Page \ e.amiss : e.type[p] = "loader" <=> \E t \in e.table : p \in Covered(t)
TypesKept(e) ==
  \A p \in Page \ e.amiss : e.type[p] = EfiMap[p] \/ (e.type[p] = "loader" /\ EfiMap[p] = "conv")
EntriesApart(e) ==
  \A t, u \in e.table : t # u => Covered(t) \cap Covered(u) \subseteq e.amiss
StaleAmiss(e) ==
  \A t \in e.table : (\E p \in Covered(t) : e.type[p] # "loader") => Covered(t) \subseteq e.amiss
Sound(e) ==
  /\ e.table \subseteq [addr : Page, num : Nat]
  /\ TableAgrees(e) /\ TypesKept(e) /\ EntriesApart(e) /\ StaleAmiss(e)

(* These pages can be given back without harm: no other entry that counts  *)
(* names one of them.                                                      *)
Held(e, at, n) ==
  /\ \A u \in e.table : Covered(u) \cap Span(at, n) # {} =>
        u = [addr |-> at, num |-> n] \/ Covered(u) \subseteq e.amiss
  /\ \A p \in Span(at, n) \ e.amiss : EfiMap[p] = "conv"
Mine(e, at, n) == \A p \in Span(at, n) : p \in Page /\ e.type[p] = "loader"

LEMMA SpanFacts ==
  ASSUME NEW at \in Page, NEW n \in Nat
  PROVE  /\ Span(at, n) \subseteq Page
         /\ n # 0 => at \in Span(at, n)
         /\ Span(at, 1) = {at}
BY Constants DEF Span, Least

LEMMA EntryFields ==
  ASSUME NEW at, NEW n
  PROVE  /\ [addr |-> at, num |-> n].addr = at /\ [addr |-> at, num |-> n].num = n
         /\ Covered([addr |-> at, num |-> n]) = Span(at, n)
BY DEF Covered

LEMMA EntryPages ==
  ASSUME NEW e, Sound(e), NEW t \in e.table
  PROVE  Covered(t) \subseteq Page /\ t.addr \in Page /\ t.num \in Nat /\ (t.num # 0 => t.addr \in Covered(t))
         /\ (t.num = 0 => Covered(t) = {})
<1>1. t.addr \in Page /\ t.num \in Nat
  BY DEF Sound
<1>2. t.num = 0 => Covered(t) = {}
  BY <1>1, Constants DEF Covered, Span, Least
<1> QED BY <1>1, <1>2, SpanFacts DEF Covered

(* What AllocatePages hands out is noted, or is amiss when the table is    *)
(* full.                                                                   *)
LEMMA MarkedSound ==
  ASSUME NEW e, Sound(e), NEW S, S \subseteq Page, \A p \in S : e.type[p] = "conv", NEW m,
         m.type = [p \in Page |-> IF p \in S THEN "loader" ELSE e.type[p]],
         \/ m.table = e.table /\ m.amiss = e.amiss \cup S
         \/ /\ m.amiss = e.amiss
            /\ \E a \in Page, n \in Nat : S = Span(a, n) /\ m.table = e.table \cup {[addr |-> a, num |-> n]}
  PROVE  /\ Sound(m)
         /\ \A x, k : Held(e, x, k) /\ Mine(e, x, k) => Held(m, x, k) /\ Mine(m, x, k)
<1>1. /\ \A t \in e.table : Covered(t) \subseteq Page
      /\ TableAgrees(e) /\ TypesKept(e) /\ EntriesApart(e) /\ StaleAmiss(e)
      /\ e.table \subseteq [addr : Page, num : Nat]
  BY EntryPages DEF Sound
<1>2. \A p \in Page : m.type[p] = IF p \in S THEN "loader" ELSE e.type[p]
  OBVIOUS
<1>3. TypesKept(m)
  BY <1>1, <1>2 DEF TypesKept
<1>4. CASE m.table = e.table /\ m.amiss = e.amiss \cup S
  <2>1. TableAgrees(m)
    BY <1>1, <1>2, <1>4 DEF TableAgrees
  <2>2. EntriesApart(m)
    BY <1>1, <1>4 DEF EntriesApart
  <2>3. StaleAmiss(m)
    BY <1>1, <1>2, <1>4 DEF StaleAmiss
  <2>4. \A x, k : Held(e, x, k) /\ Mine(e, x, k) => Held(m, x, k) /\ Mine(m, x, k)
    BY <1>2, <1>4 DEF Held, Mine
  <2> QED BY <1>1, <1>3, <1>4, <2>1, <2>2, <2>3, <2>4 DEF Sound
<1>5. ASSUME m.amiss = e.amiss, NEW a \in Page, NEW n \in Nat, S = Span(a, n),
             m.table = e.table \cup {[addr |-> a, num |-> n]}
      PROVE  /\ Sound(m)
             /\ \A x, k : Held(e, x, k) /\ Mine(e, x, k) => Held(m, x, k) /\ Mine(m, x, k)
  <2> DEFINE new == [addr |-> a, num |-> n]
  <2>1. new \in [addr : Page, num : Nat] /\ Covered(new) = S
    BY <1>5, EntryFields
  <2>2. m.table = e.table \cup {new}
    BY <1>5
  <2> HIDE DEF new
  <2>3. \A u \in e.table : Covered(u) \cap S # {} => Covered(u) \subseteq e.amiss
    BY <1>1 DEF StaleAmiss
  <2>4. TableAgrees(m)
    BY <1>1, <1>2, <1>5, <2>1, <2>2 DEF TableAgrees
  <2>5. EntriesApart(m)
    BY <1>1, <1>5, <2>1, <2>2, <2>3 DEF EntriesApart
  <2>6. StaleAmiss(m)
    BY <1>1, <1>2, <1>5, <2>1, <2>2 DEF StaleAmiss
  <2>7. ASSUME NEW x, NEW k, Held(e, x, k), Mine(e, x, k)
        PROVE  Held(m, x, k) /\ Mine(m, x, k)
    <3>1. Mine(m, x, k)
      BY <1>2, <2>7 DEF Mine
    <3>2. S \cap Span(x, k) = {}
      BY <2>7 DEF Mine
    <3> QED BY <1>5, <2>1, <2>2, <2>7, <3>1, <3>2 DEF Held
  <2> QED BY <1>1, <1>3, <2>1, <2>2, <2>4, <2>5, <2>6, <2>7 DEF Sound
<1> QED BY <1>4, <1>5

LEMMA AllocatedSound ==
  ASSUME NEW e, DOMAIN e = EFields, Sound(e), NEW at, NEW n \in Nat,
         NEW r, r = grub_efi_allocate_pages(e, at, n)
  PROVE  /\ Sound(r.e)
         /\ \A x, k : Held(e, x, k) /\ Mine(e, x, k) => Held(r.e, x, k) /\ Mine(r.e, x, k)
         /\ r.at # Null => Held(r.e, r.at, n) /\ Mine(r.e, r.at, n)
<1> DEFINE a == AllocatePages(e, at, n)
           m == Mark(e, a, n, "loader")
           S == Span(a, n)
<1>1. a # Null => a \in Page /\ a + n <= Top /\ \A p \in S : p \in Page /\ e.type[p] = "conv"
  BY PagesGiven
<1>2. r = IF a = Null THEN [e |-> e, at |-> Null]
          ELSE IF Cardinality(e.table) >= MaxAlloc
               THEN [e |-> [m EXCEPT !.amiss = @ \cup S], at |-> Null]
               ELSE [e |-> [m EXCEPT !.table = @ \cup {[addr |-> a, num |-> n]}], at |-> a]
  BY DEF grub_efi_allocate_pages, grub_efi_allocate_pages_real, Then
<1> HIDE DEF a
<1>3. /\ DOMAIN m = EFields /\ m.table = e.table /\ m.amiss = e.amiss
      /\ m.type = [p \in Page |-> IF p \in S THEN "loader" ELSE e.type[p]]
  BY DEF Mark, EFields
<1> HIDE DEF m, S
<1>4. CASE a = Null
  BY <1>2, <1>4
<1>5. CASE a # Null /\ Cardinality(e.table) >= MaxAlloc
  <2>1. r.e = [m EXCEPT !.amiss = @ \cup S] /\ r.at = Null
    BY <1>2, <1>5
  <2>2. r.e.type = m.type /\ r.e.table = e.table /\ r.e.amiss = e.amiss \cup S
    BY <1>3, <2>1 DEF EFields
  <2>3. S \subseteq Page /\ \A p \in S : e.type[p] = "conv"
    BY <1>1, <1>5
  <2>4. r.e.type = [p \in Page |-> IF p \in S THEN "loader" ELSE e.type[p]]
    BY <1>3, <2>2
  <2>5. /\ Sound(r.e)
        /\ \A x, k : Held(e, x, k) /\ Mine(e, x, k) => Held(r.e, x, k) /\ Mine(r.e, x, k)
    BY <2>2, <2>3, <2>4, MarkedSound
  <2> QED BY <2>1, <2>5
<1>6. CASE a # Null /\ ~(Cardinality(e.table) >= MaxAlloc)
  <2>1. r.e = [m EXCEPT !.table = @ \cup {[addr |-> a, num |-> n]}] /\ r.at = a
    BY <1>2, <1>6
  <2> DEFINE new == [addr |-> a, num |-> n]
  <2>2. /\ r.e.type = m.type /\ r.e.amiss = e.amiss
        /\ r.e.table = e.table \cup {new}
    <3>1. r.e = [m EXCEPT !.table = @ \cup {new}]
      BY <2>1
    <3> HIDE DEF new
    <3> QED BY <1>3, <3>1 DEF EFields
  <2>3. S \subseteq Page /\ (\A p \in S : e.type[p] = "conv") /\ a \in Page /\ S = Span(a, n)
    BY <1>1, <1>6 DEF S
  <2>4. r.e.type = [p \in Page |-> IF p \in S THEN "loader" ELSE e.type[p]]
    BY <1>3, <2>2
  <2>5. /\ Sound(r.e)
        /\ \A x, k : Held(e, x, k) /\ Mine(e, x, k) => Held(r.e, x, k) /\ Mine(r.e, x, k)
    BY <2>2, <2>3, <2>4, MarkedSound
  <2>6. Mine(r.e, a, n)
    BY <2>3, <2>4 DEF Mine
  <2>7. Held(r.e, a, n)
    <3>1. \A u \in e.table : Covered(u) \cap S # {} => Covered(u) \subseteq e.amiss
      BY <2>3 DEF Sound, StaleAmiss
    <3>2. \A p \in S \ e.amiss : EfiMap[p] = "conv"
      BY <2>3 DEF Sound, TypesKept
    <3> QED BY <2>2, <2>3, <3>1, <3>2 DEF Held
  <2> QED BY <2>1, <2>5, <2>6, <2>7
<1> QED BY <1>4, <1>5, <1>6

(* What is given back was held, or becomes amiss.                          *)
LEMMA ReturnedSound ==
  ASSUME NEW e, Sound(e), NEW at \in Page, NEW n \in Nat \ {0}, NEW f,
         f.type = [p \in Page |-> IF p \in Span(at, n) THEN "conv" ELSE e.type[p]],
         f.table = {t \in e.table : t.addr # at},
         \/ f.amiss = e.amiss /\ Held(e, at, n)
         \/ f.amiss = e.amiss \cup Span(at, n)
                        \cup UNION {Covered(t) : t \in {u \in e.table : Covered(u) \cap Span(at, n) # {}}}
  PROVE  /\ Sound(f)
         /\ \A x, k : Held(e, x, k) => Held(f, x, k)
<1> DEFINE S == Span(at, n)
           t0 == [addr |-> at, num |-> n]
<1>1. /\ \A t \in e.table : /\ Covered(t) \subseteq Page /\ (t.num # 0 => t.addr \in Covered(t))
                           /\ (t.num = 0 => Covered(t) = {})
      /\ TableAgrees(e) /\ TypesKept(e) /\ EntriesApart(e) /\ StaleAmiss(e)
      /\ e.table \subseteq [addr : Page, num : Nat]
  BY EntryPages DEF Sound
<1>2. S \subseteq Page /\ at \in S
  BY SpanFacts
<1>3. Covered(t0) = S /\ t0.addr = at
  BY EntryFields
<1>4. \A p \in Page : f.type[p] = IF p \in S THEN "conv" ELSE e.type[p]
  OBVIOUS
<1>5. \A t \in e.table : t.addr = at => Covered(t) = {} \/ at \in Covered(t) \cap S
  BY <1>1, <1>2
<1>6. CASE f.amiss = e.amiss /\ Held(e, at, n)
  <2>1. /\ \A u \in e.table : Covered(u) \cap S # {} => u = t0 \/ Covered(u) \subseteq e.amiss
        /\ \A p \in S \ e.amiss : EfiMap[p] = "conv"
    BY <1>6 DEF Held
  <2> HIDE DEF t0, S
  <2>2. TableAgrees(f)
    <3> SUFFICES ASSUME NEW p \in Page, p \notin e.amiss
                 PROVE  f.type[p] = "loader" <=> \E t \in f.table : p \in Covered(t)
      BY <1>6 DEF TableAgrees
    <3>1. CASE p \in S
      BY <1>3, <1>4, <2>1, <3>1
    <3>2. CASE p \notin S
      <4>1. ASSUME NEW t \in e.table, p \in Covered(t)
            PROVE  t.addr # at
        BY <1>3, <1>5, <2>1, <3>2, <4>1
      <4>2. f.type[p] = e.type[p]
        BY <1>4, <3>2
      <4> QED BY <1>1, <4>1, <4>2 DEF TableAgrees
    <3> QED BY <3>1, <3>2
  <2>3. TypesKept(f)
    BY <1>1, <1>4, <1>6, <2>1 DEF TypesKept
  <2>4. EntriesApart(f)
    BY <1>1, <1>6 DEF EntriesApart
  <2>5. StaleAmiss(f)
    <3> SUFFICES ASSUME NEW t \in f.table, NEW q \in Covered(t), f.type[q] # "loader"
                 PROVE  Covered(t) \subseteq e.amiss
      BY <1>6 DEF StaleAmiss
    <3>1. t \in e.table /\ t.addr # at /\ q \in Page
      BY <1>1
    <3>2. CASE q \in S
      BY <1>3, <2>1, <3>1, <3>2
    <3>3. CASE q \notin S
      BY <1>1, <1>4, <3>1, <3>3 DEF StaleAmiss
    <3> QED BY <3>2, <3>3
  <2>6. \A x, k : Held(e, x, k) => Held(f, x, k)
    BY <1>6 DEF Held
  <2> QED BY <1>1, <2>2, <2>3, <2>4, <2>5, <2>6 DEF Sound
<1>7. CASE f.amiss = e.amiss \cup S \cup UNION {Covered(t) : t \in {u \in e.table : Covered(u) \cap S # {}}}
  <2>1. /\ e.amiss \subseteq f.amiss /\ S \subseteq f.amiss
        /\ \A t \in e.table : Covered(t) \cap S # {} => Covered(t) \subseteq f.amiss
    BY <1>7
  <2> HIDE DEF t0, S
  <2>2. TableAgrees(f)
    <3> SUFFICES ASSUME NEW p \in Page, p \notin f.amiss
                 PROVE  f.type[p] = "loader" <=> \E t \in f.table : p \in Covered(t)
      BY DEF TableAgrees
    <3>1. p \notin S /\ p \notin e.amiss /\ f.type[p] = e.type[p]
      BY <1>4, <2>1
    <3>2. ASSUME NEW t \in e.table, p \in Covered(t)
          PROVE  t.addr # at
      BY <1>5, <2>1, <3>1, <3>2
    <3> QED BY <1>1, <3>1, <3>2 DEF TableAgrees
  <2>3. TypesKept(f)
    BY <1>1, <1>4, <2>1 DEF TypesKept
  <2>4. EntriesApart(f)
    BY <1>1, <2>1 DEF EntriesApart
  <2>5. StaleAmiss(f)
    <3> SUFFICES ASSUME NEW t \in f.table, NEW q \in Covered(t), f.type[q] # "loader"
                 PROVE  Covered(t) \subseteq f.amiss
      BY DEF StaleAmiss
    <3>1. t \in e.table /\ q \in Page
      BY <1>1
    <3>2. CASE q \in S
      BY <2>1, <3>1, <3>2
    <3>3. CASE q \notin S
      BY <1>1, <1>4, <2>1, <3>1, <3>3 DEF StaleAmiss
    <3> QED BY <3>2, <3>3
  <2>6. \A x, k : Held(e, x, k) => Held(f, x, k)
    BY <2>1 DEF Held
  <2> QED BY <1>1, <2>2, <2>3, <2>4, <2>5, <2>6 DEF Sound
<1> QED BY <1>6, <1>7

(* grub_efi_free_pages and free_some_pages.                                *)
LEMMA FreedSound ==
  ASSUME NEW e, DOMAIN e = EFields, Sound(e), NEW at \in Page, NEW n \in Nat \ {0}, NEW f,
         \/ f = grub_efi_free_pages(e, at, n) /\ Held(e, at, n)
         \/ f = free_some_pages(e, at, n)
  PROVE  /\ Sound(f)
         /\ \A x, k : Held(e, x, k) => Held(f, x, k)
<1> DEFINE g == grub_efi_free_pages(e, at, n)
           met == {t \in e.table : Covered(t) \cap Span(at, n) # {}}
           wrong == IF met = {[addr |-> at, num |-> n]} THEN {}
                    ELSE Span(at, n) \cup UNION {Covered(t) : t \in met}
<1>1. /\ DOMAIN g = EFields /\ g.amiss = e.amiss /\ g.table = {t \in e.table : t.addr # at}
      /\ g.type = [p \in Page |-> IF p \in Span(at, n) THEN "conv" ELSE e.type[p]]
  <2>1. \A m : DOMAIN m = EFields => LET h == [m EXCEPT !.table = {t \in @ : t.addr # at}]
                                    IN /\ DOMAIN h = EFields /\ h.amiss = m.amiss /\ h.type = m.type
                                       /\ h.table = {t \in m.table : t.addr # at}
    BY DEF EFields
  <2> DEFINE m == Mark(e, at, n, "conv")
  <2>2. /\ DOMAIN m = EFields /\ m.amiss = e.amiss /\ m.table = e.table
        /\ m.type = [p \in Page |-> IF p \in Span(at, n) THEN "conv" ELSE e.type[p]]
    BY DEF Mark, EFields
  <2>3. g = [m EXCEPT !.table = {t \in @ : t.addr # at}]
    BY DEF grub_efi_free_pages
  <2> HIDE DEF m, g
  <2> QED BY <2>1, <2>2, <2>3
<1>2. free_some_pages(e, at, n) = [g EXCEPT !.amiss = @ \cup wrong]
  BY DEF free_some_pages, Covered
<1> HIDE DEF g, met
<1>3. CASE f = g /\ Held(e, at, n)
  <2>1. /\ f.type = [p \in Page |-> IF p \in Span(at, n) THEN "conv" ELSE e.type[p]]
        /\ f.table = {t \in e.table : t.addr # at} /\ f.amiss = e.amiss
    BY <1>1, <1>3
  <2> QED BY <1>3, <2>1, ReturnedSound
<1>4. CASE f = free_some_pages(e, at, n)
  <2>1. /\ f.type = [p \in Page |-> IF p \in Span(at, n) THEN "conv" ELSE e.type[p]]
        /\ f.table = {t \in e.table : t.addr # at} /\ f.amiss = e.amiss \cup wrong
    <3>1. f = [g EXCEPT !.amiss = @ \cup wrong]
      BY <1>2, <1>4
    <3> HIDE DEF wrong
    <3>2. f.type = g.type /\ f.table = g.table /\ f.amiss = g.amiss \cup wrong
      BY <1>1, <3>1 DEF EFields
    <3> QED BY <1>1, <3>2
  <2>2. CASE met = {[addr |-> at, num |-> n]}
    <3>1. f.amiss = e.amiss
      BY <2>1, <2>2
    <3>2. [addr |-> at, num |-> n] \in e.table /\ Covered([addr |-> at, num |-> n]) = Span(at, n)
      BY <2>2, EntryFields DEF met
    <3>3. \A p \in Span(at, n) \ e.amiss : EfiMap[p] = "conv"
      <4>1. Span(at, n) \subseteq Page
        BY SpanFacts
      <4>2. \A p \in Span(at, n) \ e.amiss : e.type[p] = "loader"
        BY <3>2, <4>1 DEF Sound, TableAgrees
      <4> QED BY <4>1, <4>2, EfiAssumption DEF Sound, TypesKept
    <3>4. Held(e, at, n)
      BY <2>2, <3>3 DEF Held, met
    <3> QED BY <2>1, <3>1, <3>4, ReturnedSound
  <2>3. CASE met # {[addr |-> at, num |-> n]}
    <3>1. f.amiss = e.amiss \cup Span(at, n)
                        \cup UNION {Covered(t) : t \in {u \in e.table : Covered(u) \cap Span(at, n) # {}}}
      BY <2>1, <2>3 DEF met
    <3> QED BY <2>1, <3>1, ReturnedSound
  <2> QED BY <2>2, <2>3
<1> QED BY <1>3, <1>4 DEF g

BufHeld(e) ==
  e.buf # Null => e.buf \in Page /\ e.pages = 1 /\ Mine(e, e.buf, 1) /\ Held(e, e.buf, 1)

LEMMA SameTable ==
  ASSUME NEW e, NEW f, f.type = e.type, f.table = e.table, f.amiss = e.amiss
  PROVE  /\ Sound(e) => Sound(f)
         /\ \A x, k : (Held(e, x, k) => Held(f, x, k)) /\ (Mine(e, x, k) => Mine(f, x, k))
BY DEF Sound, TableAgrees, TypesKept, EntriesApart, StaleAmiss, Held, Mine

LEMMA MapSound ==
  ASSUME NEW e, DOMAIN e = EFields, Sound(e), BufHeld(e), NEW mem, NEW grown,
         NEW g, g = grub_efi_get_memory_map(e, mem, grown)
  PROVE  DOMAIN g.e = EFields /\ Sound(g.e) /\ BufHeld(g.e)
<1> DEFINE again == e.pages = 0 \/ (grown /\ e.buf # Null)
           freed == IF e.buf # Null THEN grub_efi_free_pages(e, e.buf, e.pages) ELSE e
           r == grub_efi_allocate_pages(freed, Null, 1)
<1>1. /\ ~again => g.e = e
      /\ again /\ r.at = Null => g.e = [r.e EXCEPT !.buf = Null, !.pages = 0]
      /\ again /\ r.at # Null => g.e = [r.e EXCEPT !.buf = r.at, !.pages = 1]
  BY DEF grub_efi_get_memory_map, Fill
<1>2. CASE ~again
  BY <1>1, <1>2
<1>3. CASE again
  <2>1. DOMAIN freed = EFields /\ Sound(freed)
    <3>1. CASE e.buf = Null
      BY <3>1
    <3>2. CASE e.buf # Null
      <4>1. e.buf \in Page /\ e.pages = 1 /\ 1 \in Nat \ {0} /\ Held(e, e.buf, e.pages)
            /\ freed = grub_efi_free_pages(e, e.buf, e.pages)
        BY <3>2 DEF BufHeld
      <4> HIDE DEF freed
      <4>2. e.pages \in Nat \ {0}
        BY <4>1
      <4>3. Sound(freed)
        BY <4>1, <4>2, FreedSound
      <4>4. DOMAIN freed = EFields
        BY <4>1, PagesFreed
      <4> QED BY <4>3, <4>4
    <3> QED BY <3>1, <3>2
  <2>2. r = grub_efi_allocate_pages(freed, Null, 1) /\ 1 \in Nat
    OBVIOUS
  <2> HIDE DEF freed, r
  <2>3. DOMAIN r.e = EFields /\ (r.at # Null => r.at \in Page)
    BY <2>1, <2>2, PagesAllocated
  <2>4. Sound(r.e) /\ (r.at # Null => Held(r.e, r.at, 1) /\ Mine(r.e, r.at, 1))
    BY <2>1, <2>2, AllocatedSound
  <2>5. CASE r.at = Null
    <3>1. g.e = [r.e EXCEPT !.buf = Null, !.pages = 0]
      BY <1>1, <1>3, <2>5
    <3>2. /\ DOMAIN g.e = EFields /\ g.e.buf = Null
          /\ g.e.type = r.e.type /\ g.e.table = r.e.table /\ g.e.amiss = r.e.amiss
      BY <2>3, <3>1 DEF EFields
    <3> QED BY <2>4, <3>2, SameTable DEF BufHeld
  <2>6. CASE r.at # Null
    <3>1. g.e = [r.e EXCEPT !.buf = r.at, !.pages = 1]
      BY <1>1, <1>3, <2>6
    <3>2. /\ DOMAIN g.e = EFields /\ g.e.buf = r.at /\ g.e.pages = 1
          /\ g.e.type = r.e.type /\ g.e.table = r.e.table /\ g.e.amiss = r.e.amiss
      BY <2>3, <3>1 DEF EFields
    <3>3. Sound(g.e) /\ Held(g.e, r.at, 1) /\ Mine(g.e, r.at, 1)
      BY <2>4, <2>6, <3>2, SameTable
    <3> QED BY <2>3, <2>6, <3>2, <3>3 DEF BufHeld
  <2> QED BY <2>5, <2>6
<1> QED BY <1>2, <1>3

LEMMA KeptFields ==
  ASSUME NEW e, DOMAIN e = EFields, NEW at, NEW n
  PROVE  LET f == grub_efi_free_pages(e, at, n)
             g == free_some_pages(e, at, n)
         IN /\ DOMAIN f = EFields /\ f.buf = e.buf /\ f.pages = e.pages
            /\ DOMAIN g = EFields /\ g.buf = e.buf /\ g.pages = e.pages
<1>1. \A f \in {grub_efi_free_pages(e, at, n), free_some_pages(e, at, n)} :
        DOMAIN f = EFields /\ f.buf = e.buf /\ f.pages = e.pages
  <2> TAKE f \in {grub_efi_free_pages(e, at, n), free_some_pages(e, at, n)}
  <2>1. /\ DOMAIN f = EFields /\ f.buf = e.buf /\ f.pages = e.pages
        /\ f.type = [p \in Page |-> IF p \in Span(at, n) THEN "conv" ELSE e.type[p]]
    BY PagesFreed
  <2> QED BY <2>1
<1> QED BY <1>1

-----------------------------------------------------------------------------
(* The loaders keep the table as it should be.                             *)

DiskAt(s) == s.initrd # Null => s.initrd \in Page /\ s.initrdn \in Nat \ {0}
Tidy(s) == Shape(s) /\ Sound(s.e) /\ BufHeld(s.e) /\ DiskAt(s)

LEMMA TidySame ==
  ASSUME NEW s, Tidy(s), NEW t, DOMAIN t = Fields, t.e = s.e, t.initrd = s.initrd, t.initrdn = s.initrdn
  PROVE  Tidy(t)
BY DEF Tidy, Shape, DiskAt

LEMMA TidyErr ==
  ASSUME NEW s, Tidy(s)
  PROVE  Tidy(Err(s)) /\ Tidy(Fatal(s))
<1>1. DOMAIN s = Fields
  BY DEF Tidy, Shape
<1>2. /\ DOMAIN Err(s) = Fields /\ Err(s).e = s.e /\ Err(s).initrd = s.initrd /\ Err(s).initrdn = s.initrdn
      /\ DOMAIN Fatal(s) = Fields /\ Fatal(s).e = s.e /\ Fatal(s).initrd = s.initrd /\ Fatal(s).initrdn = s.initrdn
  BY <1>1 DEF Err, Fatal, Fields
<1> QED BY <1>2, TidySame

LEMMA TidyMap ==
  ASSUME NEW s, Tidy(s), NEW grown, NEW g, g = GetMap(s, grown)
  PROVE  /\ Tidy(g.s) /\ g.s.real = s.real /\ g.s.realn = s.realn /\ g.s.prot = s.prot /\ g.s.protn = s.protn
         /\ g.s.initrdn = s.initrdn
<1> DEFINE r == grub_efi_get_memory_map(s.e, s.mem, grown)
<1>1. g = [s |-> [s EXCEPT !.e = r.e, !.mem = r.mem], ok |-> r.ok]
  BY DEF GetMap, Then
<1>2. DOMAIN r.e = EFields /\ Sound(r.e) /\ BufHeld(r.e)
  BY MapSound DEF Tidy, Shape
<1> HIDE DEF r
<1>3. g.s = [s EXCEPT !.e = r.e, !.mem = r.mem]
  BY <1>1
<1>4. /\ DOMAIN g.s = Fields /\ g.s.e = r.e /\ g.s.real = s.real /\ g.s.realn = s.realn
      /\ g.s.prot = s.prot /\ g.s.protn = s.protn /\ g.s.initrd = s.initrd /\ g.s.initrdn = s.initrdn
  BY <1>3 DEF Tidy, Shape, Fields
<1> QED BY <1>2, <1>4 DEF Tidy, Shape, DiskAt

LEMMA TidyTake ==
  ASSUME NEW s, Tidy(s), NEW at, NEW n \in Nat, NEW r, r = Take(s, at, n)
  PROVE  /\ Tidy(r.s) /\ r.s.real = s.real /\ r.s.realn = s.realn /\ r.s.prot = s.prot /\ r.s.protn = s.protn
         /\ r.s.initrdn = s.initrdn /\ r.s.e.buf = s.e.buf
         /\ r.at # Null => /\ r.at \in Page /\ r.at + n <= Top /\ \A p \in Span(r.at, n) : s.e.type[p] = "conv"
                           /\ Held(r.s.e, r.at, n) /\ Mine(r.s.e, r.at, n)
         /\ \A x, k : Held(s.e, x, k) /\ Mine(s.e, x, k) => Held(r.s.e, x, k) /\ Mine(r.s.e, x, k)
<1> DEFINE a == grub_efi_allocate_pages(s.e, at, n)
<1>1. r.s = [s EXCEPT !.e = a.e] /\ r.at = a.at
  BY DEF Take, Then
<1>2. DOMAIN s.e = EFields /\ Sound(s.e) /\ BufHeld(s.e) /\ DOMAIN s = Fields
  BY DEF Tidy, Shape
<1>3. /\ DOMAIN a.e = EFields /\ a.e.buf = s.e.buf /\ a.e.pages = s.e.pages
      /\ a.at # Null => a.at \in Page /\ a.at + n <= Top /\ \A p \in Span(a.at, n) : s.e.type[p] = "conv"
  BY <1>2, PagesAllocated
<1>4. /\ Sound(a.e)
      /\ \A x, k : Held(s.e, x, k) /\ Mine(s.e, x, k) => Held(a.e, x, k) /\ Mine(a.e, x, k)
      /\ a.at # Null => Held(a.e, a.at, n) /\ Mine(a.e, a.at, n)
  BY <1>2, AllocatedSound
<1> HIDE DEF a
<1>5. /\ DOMAIN r.s = Fields /\ r.s.e = a.e /\ r.s.real = s.real /\ r.s.realn = s.realn
      /\ r.s.prot = s.prot /\ r.s.protn = s.protn /\ r.s.initrd = s.initrd /\ r.s.initrdn = s.initrdn
  BY <1>1, <1>2 DEF Fields
<1>6. BufHeld(a.e)
  BY <1>2, <1>3, <1>4 DEF BufHeld
<1>7. Tidy(r.s)
  BY <1>3, <1>4, <1>5, <1>6 DEF Tidy, Shape, DiskAt
<1> QED BY <1>1, <1>3, <1>4, <1>5, <1>7

(* While memory is given back, the buffer's page may have been freed with  *)
(* a RAM disk.                                                             *)
BufNamed(e) == e.buf # Null => e.buf \in Page /\ e.pages = 1 /\ Held(e, e.buf, 1)
Releasing(s) == Shape(s) /\ Sound(s.e) /\ BufNamed(s.e) /\ DiskAt(s)

LEMMA ReleaseOne ==
  ASSUME NEW s, Releasing(s), NEW at, NEW n, at # Null => at \in Page /\ n \in Nat \ {0} /\ Held(s.e, at, n),
         NEW t, t = FreeOne(s, at, n)
  PROVE  Releasing(t) /\ t.initrd = s.initrd
<1>1. CASE at = Null
  BY <1>1 DEF FreeOne
<1>2. CASE at # Null
  <2> DEFINE f == grub_efi_free_pages(s.e, at, n)
  <2>1. t = [s EXCEPT !.e = f]
    BY <1>2 DEF FreeOne
  <2>2. DOMAIN s = Fields /\ DOMAIN s.e = EFields /\ Sound(s.e) /\ BufNamed(s.e) /\ DiskAt(s)
    BY DEF Releasing, Shape
  <2>3. Sound(f) /\ \A x, k : Held(s.e, x, k) => Held(f, x, k)
    BY <1>2, <2>2, FreedSound
  <2>4. DOMAIN f = EFields /\ f.buf = s.e.buf /\ f.pages = s.e.pages
    BY <2>2, KeptFields
  <2> HIDE DEF f
  <2>5. DOMAIN t = Fields /\ t.e = f /\ t.initrd = s.initrd /\ t.initrdn = s.initrdn
    BY <2>1, <2>2 DEF Fields
  <2>6. BufNamed(f)
    BY <2>2, <2>3, <2>4 DEF BufNamed
  <2> QED BY <2>2, <2>3, <2>4, <2>5, <2>6 DEF Releasing, Shape, DiskAt
<1> QED BY <1>1, <1>2

LEMMA ReleaseDisk ==
  ASSUME NEW s, Releasing(s), NEW t, t = FreeInitrd(s)
  PROVE  Releasing(t)
<1>1. CASE s.initrd = Null
  BY <1>1 DEF FreeInitrd
<1>2. CASE s.initrd # Null
  <2> DEFINE f == free_some_pages(s.e, s.initrd, s.initrdn)
  <2>1. t = [s EXCEPT !.e = f]
    BY <1>2 DEF FreeInitrd
  <2>2. DOMAIN s = Fields /\ DOMAIN s.e = EFields /\ Sound(s.e) /\ BufNamed(s.e) /\ DiskAt(s)
    BY DEF Releasing, Shape
  <2>3. Sound(f) /\ \A x, k : Held(s.e, x, k) => Held(f, x, k)
    <3>1. s.initrd \in Page /\ s.initrdn \in Nat \ {0}
      BY <1>2, <2>2 DEF DiskAt
    <3> QED BY <2>2, <3>1, FreedSound
  <2>4. DOMAIN f = EFields /\ f.buf = s.e.buf /\ f.pages = s.e.pages
    BY <2>2, KeptFields
  <2> HIDE DEF f
  <2>5. DOMAIN t = Fields /\ t.e = f /\ t.initrd = s.initrd /\ t.initrdn = s.initrdn
    BY <2>1, <2>2 DEF Fields
  <2>6. BufNamed(f)
    BY <2>2, <2>3, <2>4 DEF BufNamed
  <2> QED BY <2>2, <2>3, <2>4, <2>5, <2>6 DEF Releasing, Shape, DiskAt
<1> QED BY <1>1, <1>2

LEMMA Released ==
  ASSUME NEW s, Tidy(s), s.real # Null => s.real \in Page /\ s.realn \in Nat \ {0} /\ Held(s.e, s.real, s.realn)
  PROVE  /\ s.prot = Null => Tidy(free_pages(s))
         /\ Tidy(free_pages_64(s))
<1> DEFINE b == FreeOne(s, s.real, s.realn)
           a == FreeInitrd(b)
           c == FreeOne(a, a.e.buf, a.e.pages)
<1>1. Releasing(s)
  BY DEF Tidy, Releasing, BufHeld, BufNamed
<1>2. Releasing(b)
  BY <1>1, ReleaseOne
<1> HIDE DEF b
<1>3. Releasing(a)
  BY <1>2, ReleaseDisk
<1> HIDE DEF a
<1>4. Releasing(c)
  <2>1. a.e.buf # Null => a.e.buf \in Page /\ a.e.pages \in Nat \ {0} /\ Held(a.e, a.e.buf, a.e.pages)
    BY <1>3 DEF Releasing, BufNamed
  <2> QED BY <1>3, <2>1, ReleaseOne
<1>5. s.prot = Null => free_pages(s) = [c EXCEPT !.real = Null, !.prot = Null, !.initrd = Null, !.e.buf = Null]
  <2>1. s.prot = Null => FreeOne(b, s.prot, s.protn) = b
    BY DEF FreeOne
  <2> QED BY <2>1 DEF free_pages, Then, a, b
<1>6. free_pages_64(s) = [c EXCEPT !.real = Null, !.initrd = Null, !.e.buf = Null]
  BY DEF free_pages_64, Then, a, b
<1> HIDE DEF c
<1>7. DOMAIN c = Fields /\ DOMAIN c.e = EFields /\ Sound(c.e)
  BY <1>4 DEF Releasing, Shape
<1> DEFINE d == [c.e EXCEPT !.buf = Null]
<1>8. DOMAIN d = EFields /\ d.buf = Null /\ d.type = c.e.type /\ d.table = c.e.table /\ d.amiss = c.e.amiss
  BY <1>7 DEF EFields
<1>9. Sound(d) /\ BufHeld(d)
  BY <1>7, <1>8, SameTable DEF BufHeld
<1>10. ASSUME NEW t, \/ t = [c EXCEPT !.real = Null, !.prot = Null, !.initrd = Null, !.e.buf = Null]
                     \/ t = [c EXCEPT !.real = Null, !.initrd = Null, !.e.buf = Null]
       PROVE  Tidy(t)
  <2>1. DOMAIN t = Fields /\ t.e = d /\ t.initrd = Null
    BY <1>7, <1>10 DEF Fields
  <2> HIDE DEF d
  <2> QED BY <1>8, <1>9, <2>1 DEF Tidy, Shape, DiskAt
<1> QED BY <1>5, <1>6, <1>10

LEMMA TidyMemory ==
  ASSUME NEW s, Tidy(s), NEW n \in Nat, NEW grown
  PROVE  /\ Tidy(allocate_pages(s, n, grown))
         /\ Tidy(allocate_pages_64(s, n, grown))
<1>1. RealPages \in Nat \ {0} /\ DOMAIN s = Fields
  BY Constants DEF Tidy, Shape
<1>2. ASSUME NEW s0, Tidy(s0), s0.real = Null, s0.prot = Null, s0.realn = RealPages, NEW where, NEW x,
             \/ LET g == GetMap(s0, grown)
                    at == RealAt(g.s.e, RealPages)
                    r == Take(g.s, at, RealPages)
                    withr == [r.s EXCEPT !.real = r.at]
                    p == Take(withr, where, n)
                IN x = IF ~g.ok THEN Err(g.s)
                       ELSE IF at = Null THEN Err(free_pages(g.s))
                       ELSE IF r.at = Null THEN Err(free_pages(r.s))
                       ELSE IF p.at # Null THEN [p.s EXCEPT !.prot = p.at] ELSE Err(free_pages(p.s))
             \/ LET g == GetMap(s0, grown)
                    at == RealAt(g.s.e, RealPages)
                    r == Take(g.s, at, RealPages)
                    withr == [r.s EXCEPT !.real = r.at]
                    p == Take(withr, where, n)
                IN x = IF ~g.ok THEN Fatal(g.s)
                       ELSE IF at = Null THEN Err(free_pages_64(g.s))
                       ELSE IF r.at = Null THEN Fatal(r.s)
                       ELSE IF p.at # Null THEN [p.s EXCEPT !.prot = p.at] ELSE Fatal(p.s)
      PROVE  Tidy(x)
  <2> DEFINE g == GetMap(s0, grown)
             at == RealAt(g.s.e, RealPages)
             r == Take(g.s, at, RealPages)
             withr == [r.s EXCEPT !.real = r.at]
             p == Take(withr, where, n)
  <2>1. \/ x = IF ~g.ok THEN Err(g.s)
               ELSE IF at = Null THEN Err(free_pages(g.s))
               ELSE IF r.at = Null THEN Err(free_pages(r.s))
               ELSE IF p.at # Null THEN [p.s EXCEPT !.prot = p.at] ELSE Err(free_pages(p.s))
        \/ x = IF ~g.ok THEN Fatal(g.s)
               ELSE IF at = Null THEN Err(free_pages_64(g.s))
               ELSE IF r.at = Null THEN Fatal(r.s)
               ELSE IF p.at # Null THEN [p.s EXCEPT !.prot = p.at] ELSE Fatal(p.s)
    BY <1>2
  <2>2. Tidy(g.s) /\ g.s.real = Null /\ g.s.realn = RealPages /\ g.s.prot = Null
    <3> HIDE DEF g
    <3>1. g = GetMap(s0, grown)
      BY DEF g
    <3> QED BY <1>2, <3>1, TidyMap
  <2> HIDE DEF g, at
  <2>3. /\ Tidy(r.s) /\ r.s.real = Null /\ r.s.realn = RealPages /\ r.s.prot = Null
        /\ r.at # Null => r.at \in Page /\ Held(r.s.e, r.at, RealPages) /\ Mine(r.s.e, r.at, RealPages)
    <3> HIDE DEF r
    <3>1. r = Take(g.s, at, RealPages) /\ RealPages \in Nat
      BY <1>1 DEF r
    <3> QED BY <2>2, <3>1, TidyTake
  <2> HIDE DEF r
  <2>4. Tidy(withr) /\ withr.e = r.s.e /\ withr.real = r.at /\ withr.realn = RealPages /\ withr.prot = Null
    <3>1. DOMAIN r.s = Fields
      BY <2>3 DEF Tidy, Shape
    <3>2. /\ DOMAIN withr = Fields /\ withr.e = r.s.e /\ withr.real = r.at /\ withr.realn = RealPages /\ withr.prot = Null
          /\ withr.initrd = r.s.initrd /\ withr.initrdn = r.s.initrdn
      BY <2>3, <3>1 DEF Fields
    <3> QED BY <2>3, <3>2, TidySame
  <2> HIDE DEF withr
  <2>5. /\ Tidy(p.s) /\ p.s.real = r.at /\ p.s.realn = RealPages /\ p.s.prot = Null
        /\ r.at # Null => Held(p.s.e, r.at, RealPages)
    <3> HIDE DEF p
    <3>1. p = Take(withr, where, n)
      BY DEF p
    <3>2. /\ Tidy(p.s) /\ p.s.real = withr.real /\ p.s.realn = withr.realn /\ p.s.prot = withr.prot
          /\ \A y, k : Held(withr.e, y, k) /\ Mine(withr.e, y, k) => Held(p.s.e, y, k)
      BY <2>4, <3>1, TidyTake
    <3> QED BY <2>3, <2>4, <3>2
  <2> HIDE DEF p
  <2>6. /\ Tidy(Err(g.s)) /\ Tidy(Err(free_pages(g.s))) /\ Tidy(Err(free_pages(r.s))) /\ Tidy(Fatal(g.s))
        /\ Tidy(Err(free_pages_64(g.s))) /\ Tidy(Fatal(r.s)) /\ Tidy(Fatal(p.s))
    BY <2>2, <2>3, <2>5, Released, TidyErr
  <2>7. Tidy(Err(free_pages(p.s)))
    BY <1>1, <2>3, <2>5, Released, TidyErr
  <2>8. Tidy([p.s EXCEPT !.prot = p.at])
    <3> DEFINE y == [p.s EXCEPT !.prot = p.at]
    <3>1. DOMAIN p.s = Fields
      BY <2>5 DEF Tidy, Shape
    <3>2. DOMAIN y = Fields /\ y.e = p.s.e /\ y.initrd = p.s.initrd /\ y.initrdn = p.s.initrdn
      BY <3>1 DEF Fields
    <3> HIDE DEF y
    <3>3. Tidy(y)
      BY <2>5, <3>2, TidySame
    <3> QED BY <3>3 DEF y
  <2> QED BY <2>1, <2>6, <2>7, <2>8
<1>3. Tidy(allocate_pages(s, n, grown))
  <2> DEFINE s0 == [s EXCEPT !.real = Null, !.prot = Null, !.initrd = Null, !.realn = RealPages, !.protn = n]
  <2>1. /\ DOMAIN s0 = Fields /\ s0.e = s.e /\ s0.initrd = Null
        /\ s0.real = Null /\ s0.prot = Null /\ s0.realn = RealPages
    BY <1>1 DEF Fields
  <2>2. allocate_pages(s, n, grown) =
           LET g == GetMap(s0, grown)
               at == RealAt(g.s.e, RealPages)
               r == Take(g.s, at, RealPages)
               withr == [r.s EXCEPT !.real = r.at]
               p == Take(withr, Base, n)
           IN IF ~g.ok THEN Err(g.s)
              ELSE IF at = Null THEN Err(free_pages(g.s))
              ELSE IF r.at = Null THEN Err(free_pages(r.s))
              ELSE IF p.at # Null THEN [p.s EXCEPT !.prot = p.at] ELSE Err(free_pages(p.s))
    BY DEF allocate_pages, Then
  <2> HIDE DEF s0
  <2>3. Tidy(s0)
    BY <2>1 DEF Tidy, Shape, DiskAt
  <2> QED BY <1>2, <2>1, <2>2, <2>3
<1>4. Tidy(allocate_pages_64(s, n, grown))
  <2> DEFINE s0 == [s EXCEPT !.real = Null, !.prot = Null, !.realn = RealPages, !.protn = n]
  <2>1. /\ DOMAIN s0 = Fields /\ s0.e = s.e /\ s0.initrd = s.initrd /\ s0.initrdn = s.initrdn
        /\ s0.real = Null /\ s0.prot = Null /\ s0.realn = RealPages
    BY <1>1 DEF Fields
  <2>2. allocate_pages_64(s, n, grown) =
           LET g == GetMap(s0, grown)
               at == RealAt(g.s.e, RealPages)
               r == Take(g.s, at, RealPages)
               withr == [r.s EXCEPT !.real = r.at]
               p == Take(withr, Null, n)
           IN IF ~g.ok THEN Fatal(g.s)
              ELSE IF at = Null THEN Err(free_pages_64(g.s))
              ELSE IF r.at = Null THEN Fatal(r.s)
              ELSE IF p.at # Null THEN [p.s EXCEPT !.prot = p.at] ELSE Fatal(p.s)
    BY DEF allocate_pages_64, Then
  <2> HIDE DEF s0
  <2>3. Tidy(s0)
    BY <2>1, TidySame
  <2> QED BY <1>2, <2>1, <2>2, <2>3
<1> QED BY <1>3, <1>4

-----------------------------------------------------------------------------
(* Every loader keeps the table as it should be.                           *)

LEMMA TidyOther ==
  ASSUME NEW s, Tidy(s), NEW v
  PROVE  /\ Tidy([s EXCEPT !.mem = v]) /\ Tidy([s EXCEPT !.imr = v])
         /\ Tidy([s EXCEPT !.loaded = v]) /\ Tidy([s EXCEPT !.ok = v])
<1>1. DOMAIN s = Fields
  BY DEF Tidy, Shape
<1>2. ASSUME NEW t, t \in {[s EXCEPT !.mem = v], [s EXCEPT !.imr = v], [s EXCEPT !.loaded = v], [s EXCEPT !.ok = v]}
      PROVE  DOMAIN t = Fields /\ t.e = s.e /\ t.initrd = s.initrd /\ t.initrdn = s.initrdn
  BY <1>1, <1>2 DEF Fields
<1>3. ASSUME NEW t, t \in {[s EXCEPT !.mem = v], [s EXCEPT !.imr = v], [s EXCEPT !.loaded = v], [s EXCEPT !.ok = v]}
      PROVE  Tidy(t)
  <2>1. DOMAIN t = Fields /\ t.e = s.e /\ t.initrd = s.initrd /\ t.initrdn = s.initrdn
    BY <1>2, <1>3
  <2> QED BY <2>1, TidySame
<1> QED BY <1>3

LEMMA TidyLinux ==
  ASSUME NEW s, Tidy(s), NEW k \in Images, NEW secured, NEW spi, NEW grown, NEW fail
  PROVE  /\ Tidy(grub_load_linux(s, k, secured, spi, grown, fail))
         /\ Tidy(grub_load_linux_64(s, k, grown, fail))
<1>1. Text(k) \in Nat
  <2>1. 1 \in DOMAIN k.segs /\ \A i \in DOMAIN k.segs : k.segs[i].file \in Nat
    BY MemAssumption
  <2> QED BY <2>1 DEF Text
<1> DEFINE s0 == [s EXCEPT !.ok = TRUE]
           a == allocate_pages(s0, Text(k), grown)
           b == allocate_pages_64(s0, Text(k), grown)
           c == PutText(PutParams(intel_cln_imr_setup(a, Text(k)), k), k, a.prot, fail)
           d == PutText(PutParams(b, k), k, b.prot, fail)
<1>2. Tidy(s0)
  BY TidyOther
<1> HIDE DEF s0
<1>3. Tidy(a) /\ Tidy(b)
  BY <1>1, <1>2, TidyMemory
<1> HIDE DEF a, b
<1>4. Tidy(c)
  BY <1>3, TidyOther DEF PutText, PutParams, intel_cln_imr_setup
<1>5. Tidy(d)
  BY <1>3, TidyOther DEF PutText, PutParams
<1> HIDE DEF c, d
<1>6. PICK x : Tidy(x) /\ grub_load_linux(s, k, secured, spi, grown, fail) = LinuxLoaded(x)
  <2>1. \E x \in {Err(s), a, Err(a), Err(c), c} : grub_load_linux(s, k, secured, spi, grown, fail) = LinuxLoaded(x)
    BY DEF grub_load_linux, Then, a, c, s0
  <2> QED BY <1>3, <1>4, <2>1, TidyErr
<1>7. PICK y : Tidy(y) /\ grub_load_linux_64(s, k, grown, fail) = LinuxLoaded(y)
  <2>1. \E y \in {Err(s), b, Err(d), d} : grub_load_linux_64(s, k, grown, fail) = LinuxLoaded(y)
    BY DEF grub_load_linux_64, Then, b, d, s0
  <2> QED BY <1>3, <1>5, <2>1, TidyErr
<1> HIDE DEF s0
<1>8. \A z : Tidy(z) => Tidy(LinuxLoaded(z))
  <2> TAKE z
  <2> HAVE Tidy(z)
  <2> DEFINE v == z.ok
  <2>1. LinuxLoaded(z) = [z EXCEPT !.loaded = v]
    BY DEF LinuxLoaded
  <2> HIDE DEF v
  <2>2. Tidy([z EXCEPT !.loaded = v])
    BY TidyOther
  <2> QED BY <2>1, <2>2
<1> QED BY <1>6, <1>7, <1>8

LEMMA TidyMultiboot ==
  ASSUME NEW s, Tidy(s), NEW k \in Images, NEW fail
  PROVE  Tidy(grub_load_multiboot(s, k, fail))
<1> DEFINE n == k.segs[1].file
           s0 == [s EXCEPT !.ok = TRUE, !.real = Null, !.realn = 0, !.prot = Null, !.protn = n]
           t == Take(s0, Base, n)
           q == LoadSegments(t.s.mem, k, fail - 1)
           l == [t.s EXCEPT !.prot = t.at, !.cur = q.cur, !.mem = q.mem]
           refused == fail = 1 \/ k.mb = "unsupported" \/ ~k.elf \/ ~k.sane
           x == IF refused THEN Err(s)
                ELSE IF t.at = Null THEN Err(free_pages(t.s))
                ELSE IF q.ok THEN l ELSE Err(l)
<1>1. grub_load_multiboot(s, k, fail) = [x EXCEPT !.loaded = @ /\ x.ok]
  BY DEF grub_load_multiboot, Then
<1>2. n \in Nat
  BY MemAssumption
<1>3. Tidy(s0) /\ s0.real = Null /\ s0.prot = Null
  <2>1. DOMAIN s = Fields
    BY DEF Tidy, Shape
  <2>2. /\ DOMAIN s0 = Fields /\ s0.e = s.e /\ s0.initrd = s.initrd /\ s0.initrdn = s.initrdn
        /\ s0.real = Null /\ s0.prot = Null
    BY <2>1 DEF Fields
  <2> HIDE DEF s0
  <2> QED BY <2>2, TidySame
<1> HIDE DEF n, s0
<1>4. Tidy(t.s) /\ t.s.real = Null /\ t.s.prot = Null
  <2>1. t = Take(s0, Base, n)
    OBVIOUS
  <2> HIDE DEF t, x
  <2> QED BY <1>2, <1>3, <2>1, TidyTake
<1> HIDE DEF t
<1>5. Tidy(l)
  <2>1. DOMAIN t.s = Fields
    BY <1>4 DEF Tidy, Shape
  <2>2. DOMAIN l = Fields /\ l.e = t.s.e /\ l.initrd = t.s.initrd /\ l.initrdn = t.s.initrdn
    BY <2>1 DEF Fields
  <2> HIDE DEF l
  <2> QED BY <1>4, <2>2, TidySame
<1> HIDE DEF l, refused
<1>6. Tidy(free_pages(t.s))
  BY <1>4, Released
<1>7. Tidy(x)
  BY <1>5, <1>6, TidyErr
<1> HIDE DEF x
<1> DEFINE v == x.loaded /\ x.ok
<1>8. grub_load_multiboot(s, k, fail) = [x EXCEPT !.loaded = v]
  BY <1>1
<1> HIDE DEF v
<1>9. Tidy([x EXCEPT !.loaded = v])
  BY <1>7, TidyOther
<1> QED BY <1>8, <1>9

LEMMA TidyDisk ==
  ASSUME NEW s, Tidy(s), NEW m \in Modules, NEW secured \in BOOLEAN, NEW spi, NEW grown, NEW limit, NEW fail
  PROVE  Tidy(grub_load_initrd(s, m, secured, spi, grown, limit, fail).s)
<1> DEFINE hdr == IF secured THEN 1 ELSE 0
           n == m.len + hdr
           refused == ~s.loaded \/ (secured /\ ~grub_cln_fetch_sbh(m, spi)) \/ fail = 1
           s0 == [s EXCEPT !.ok = TRUE, !.initrdn = n]
           g == GetMap(s0, grown)
           at == InitrdAt(g.s, n, s.prot + 3 * s.protn, limit)
           t == Take(g.s, at, n)
           none == [t.s EXCEPT !.initrd = Null]
           got == PutInitrd(t.s, m, t.at + hdr, fail)
           f == free_some_pages(got.e, t.at, 1)
           last == [got EXCEPT !.e = f]
           x == grub_load_initrd(s, m, secured, spi, grown, limit, fail).s
<1>1. x = IF refused THEN Err(s)
          ELSE IF ~g.ok \/ at = Null THEN Err(g.s)
          ELSE IF t.at = Null THEN Err(none)
          ELSE IF fail = 2 \/ (secured /\ ~m.signed) THEN Err(got)
          ELSE IF secured THEN last ELSE got
  <2> DEFINE y == grub_load_initrd(s, m, secured, spi, grown, limit, fail)
  <2>1. y = IF refused THEN Nowhere(Err(s))
            ELSE IF ~g.ok \/ at = Null THEN Nowhere(Err(g.s))
            ELSE IF t.at = Null THEN Nowhere(Err(none))
            ELSE IF fail = 2 \/ (secured /\ ~m.signed) THEN Nowhere(Err(got))
            ELSE [s |-> IF secured THEN last ELSE got, at |-> t.at + hdr]
    BY DEF grub_load_initrd, Then, grub_cln_verify_asset_signature
  <2>2. \A z : Nowhere(z).s = z
    BY DEF Nowhere
  <2> HIDE DEF y, refused, g, at, t, none, got, last, hdr
  <2>3. x = y.s
    BY DEF y
  <2> HIDE DEF x
  <2> QED BY <2>1, <2>2, <2>3
<1>2. n \in Nat \ {0} /\ m.len \in Nat \ {0} /\ hdr \in {0, 1}
  BY MemAssumption
<1>3. Tidy(s0) /\ s0.initrdn = n
  <2>1. DOMAIN s = Fields
    BY DEF Tidy, Shape
  <2> HIDE DEF n
  <2>2. DOMAIN s0 = Fields /\ s0.e = s.e /\ s0.initrd = s.initrd /\ s0.initrdn = n
    BY <2>1 DEF Fields
  <2> HIDE DEF s0
  <2> QED BY <1>2, <2>2 DEF Tidy, Shape, DiskAt
<1> HIDE DEF s0, refused, x, n
<1>4. Tidy(g.s) /\ g.s.initrdn = n
  <2>1. g = GetMap(s0, grown)
    OBVIOUS
  <2> HIDE DEF g
  <2> QED BY <1>3, <2>1, TidyMap
<1> HIDE DEF g, at
<1>5. /\ Tidy(t.s) /\ t.s.initrdn = n /\ t.s.e.buf = g.s.e.buf
      /\ t.at # Null => t.at \in Page /\ t.at + n <= Top /\ \A p \in Span(t.at, n) : g.s.e.type[p] = "conv"
  <2>1. t = Take(g.s, at, n) /\ n \in Nat
    BY <1>2
  <2> HIDE DEF t, none, got, last, f
  <2> QED BY <1>4, <2>1, TidyTake
<1> HIDE DEF t
<1>6. Tidy(none)
  <2>1. DOMAIN t.s = Fields
    BY <1>5 DEF Tidy, Shape
  <2>2. DOMAIN none = Fields /\ none.e = t.s.e /\ none.initrd = Null
    BY <2>1 DEF Fields
  <2> HIDE DEF none
  <2> QED BY <1>5, <2>2 DEF Tidy, Shape, DiskAt
<1>7. t.at # Null => Tidy(got) /\ got.e = t.s.e /\ DOMAIN got = Fields
  <2> SUFFICES ASSUME t.at # Null PROVE Tidy(got) /\ got.e = t.s.e /\ DOMAIN got = Fields
    OBVIOUS
  <2>1. DOMAIN t.s = Fields
    BY <1>5 DEF Tidy, Shape
  <2> HIDE DEF hdr
  <2>2. DOMAIN got = Fields /\ got.e = t.s.e /\ got.initrd = t.at + hdr /\ got.initrdn = n
    BY <1>5, <2>1 DEF PutInitrd, Fields
  <2>3. t.at + hdr \in Page
    BY <1>2, <1>5, Constants DEF n
  <2> HIDE DEF got
  <2> QED BY <1>2, <1>5, <2>2, <2>3 DEF Tidy, Shape, DiskAt
<1> HIDE DEF got, none, hdr
<1>8. t.at # Null => Tidy(last)
  <2> SUFFICES ASSUME t.at # Null PROVE Tidy(last)
    OBVIOUS
  <2>1. /\ DOMAIN got = Fields /\ DOMAIN got.e = EFields /\ Sound(got.e) /\ BufHeld(got.e) /\ DiskAt(got)
        /\ got.e.buf = g.s.e.buf /\ BufHeld(g.s.e)
    BY <1>4, <1>5, <1>7 DEF Tidy, Shape
  <2>2. t.at \in Page /\ Span(t.at, 1) = {t.at} /\ g.s.e.type[t.at] = "conv" /\ 1 \in Nat \ {0}
    BY <1>2, <1>5, SpanFacts
  <2>3. Sound(f) /\ \A x1, k : Held(got.e, x1, k) => Held(f, x1, k)
    BY <2>1, <2>2, FreedSound
  <2>4. /\ DOMAIN f = EFields /\ f.buf = got.e.buf /\ f.pages = got.e.pages
        /\ f.type = [p \in Page |-> IF p \in Span(t.at, 1) THEN "conv" ELSE got.e.type[p]]
    <3>1. f = free_some_pages(got.e, t.at, 1)
      OBVIOUS
    <3> HIDE DEF f, last
    <3> QED BY <2>1, <3>1, PagesFreed
  <2> HIDE DEF f
  <2>5. BufHeld(f)
    <3> SUFFICES ASSUME f.buf # Null PROVE f.buf \in Page /\ f.pages = 1 /\ Mine(f, f.buf, 1) /\ Held(f, f.buf, 1)
      BY DEF BufHeld
    <3>1. f.buf \in Page /\ f.pages = 1 /\ Mine(got.e, f.buf, 1) /\ Mine(g.s.e, f.buf, 1) /\ Held(f, f.buf, 1)
      BY <2>1, <2>3, <2>4 DEF BufHeld
    <3>2. Span(f.buf, 1) = {f.buf}
      BY <3>1, SpanFacts
    <3>3. f.buf # t.at /\ f.type[f.buf] = "loader"
      BY <2>2, <2>4, <3>1, <3>2 DEF Mine
    <3> QED BY <3>1, <3>2, <3>3 DEF Mine
  <2>6. DOMAIN last = Fields /\ last.e = f /\ last.initrd = got.initrd /\ last.initrdn = got.initrdn
    BY <2>1 DEF Fields
  <2> HIDE DEF last
  <2> QED BY <2>1, <2>3, <2>4, <2>5, <2>6 DEF Tidy, Shape, DiskAt
<1> HIDE DEF last
<1>9. Tidy(x)
  BY <1>1, <1>4, <1>6, <1>7, <1>8, TidyErr
<1> QED BY <1>9 DEF x

LEMMA TidyDisk64 ==
  ASSUME NEW s, Tidy(s), NEW m \in Modules, NEW grown, NEW limit, NEW fail
  PROVE  Tidy(grub_load_initrd_64(s, m, grown, limit, fail).s)
<1> DEFINE n == m.len
           refused == ~s.loaded \/ fail = 1
           s0 == [s EXCEPT !.ok = TRUE, !.initrdn = n]
           g == GetMap(s0, grown)
           at == InitrdAt(g.s, n, 0, limit)
           t == Take(g.s, at, n)
           got == PutInitrd(t.s, m, t.at, fail)
           x == grub_load_initrd_64(s, m, grown, limit, fail).s
<1>1. x = IF refused THEN Err(s)
          ELSE IF ~g.ok THEN Fatal(g.s)
          ELSE IF at = Null THEN Err(g.s)
          ELSE IF t.at = Null THEN Fatal(t.s)
          ELSE IF fail = 2 THEN Err(got) ELSE got
  <2> DEFINE y == grub_load_initrd_64(s, m, grown, limit, fail)
  <2>1. y = IF refused THEN Nowhere(Err(s))
            ELSE IF ~g.ok THEN Nowhere(Fatal(g.s))
            ELSE IF at = Null THEN Nowhere(Err(g.s))
            ELSE IF t.at = Null THEN Nowhere(Fatal(t.s))
            ELSE IF fail = 2 THEN Nowhere(Err(got)) ELSE [s |-> got, at |-> t.at]
    BY DEF grub_load_initrd_64, Then
  <2>2. \A z : Nowhere(z).s = z
    BY DEF Nowhere
  <2> HIDE DEF y, refused, g, at, t, got
  <2>3. x = y.s
    BY DEF y
  <2> HIDE DEF x
  <2> QED BY <2>1, <2>2, <2>3
<1>2. n \in Nat \ {0}
  BY MemAssumption
<1>3. Tidy(s0) /\ s0.initrdn = n
  <2>1. DOMAIN s = Fields
    BY DEF Tidy, Shape
  <2> HIDE DEF n
  <2>2. DOMAIN s0 = Fields /\ s0.e = s.e /\ s0.initrd = s.initrd /\ s0.initrdn = n
    BY <2>1 DEF Fields
  <2> HIDE DEF s0
  <2> QED BY <1>2, <2>2 DEF Tidy, Shape, DiskAt
<1> HIDE DEF s0, refused, x, n
<1>4. Tidy(g.s) /\ g.s.initrdn = n
  <2>1. g = GetMap(s0, grown)
    OBVIOUS
  <2> HIDE DEF g
  <2> QED BY <1>3, <2>1, TidyMap
<1> HIDE DEF g, at
<1>5. /\ Tidy(t.s) /\ t.s.initrdn = n
      /\ t.at # Null => t.at \in Page
  <2>1. t = Take(g.s, at, n) /\ n \in Nat
    BY <1>2
  <2> HIDE DEF t, got
  <2> QED BY <1>4, <2>1, TidyTake
<1> HIDE DEF t
<1>6. t.at # Null => Tidy(got)
  <2> SUFFICES ASSUME t.at # Null PROVE Tidy(got)
    OBVIOUS
  <2>1. DOMAIN t.s = Fields
    BY <1>5 DEF Tidy, Shape
  <2>2. DOMAIN got = Fields /\ got.e = t.s.e /\ got.initrd = t.at /\ got.initrdn = n
    BY <1>5, <2>1 DEF PutInitrd, Fields
  <2> HIDE DEF got
  <2> QED BY <1>2, <1>5, <2>2 DEF Tidy, Shape, DiskAt
<1> HIDE DEF got
<1>7. Tidy(x)
  BY <1>1, <1>4, <1>5, <1>6, TidyErr
<1> QED BY <1>7 DEF x

\* An item of the flash is a kernel or a RAM disk.
LEMMA AnyAsset ==
  ASSUME NEW secured
  PROVE  /\ spi_open("kernel", secured) # <<>> => spi_open("kernel", secured)[1] \in Images
         /\ spi_open("ramdisk", secured) # <<>> => spi_open("ramdisk", secured)[1] \in Modules
<1>1. \A kind, b : <<kind, b>> \in DOMAIN Flash =>
        /\ grub_cln_mfh_entry_lookup(<<kind, b>>) = <<Flash[<<kind, b>>]>>
        /\ kind = "kernel" => Flash[<<kind, b>>] \in Images
        /\ kind = "ramdisk" => Flash[<<kind, b>>] \in Modules
  <2> TAKE kind, b
  <2> HAVE <<kind, b>> \in DOMAIN Flash
  <2> DEFINE i == <<kind, b>>
  <2>1. i \in DOMAIN Flash /\ i[1] = kind
    OBVIOUS
  <2> HIDE DEF i
  <2>2. (i[1] = "kernel" => Flash[i] \in Images) /\ (i[1] = "ramdisk" => Flash[i] \in Modules)
    BY <2>1, FlashAssumption
  <2>3. grub_cln_mfh_entry_lookup(i) = <<Flash[i]>>
    BY <2>1 DEF grub_cln_mfh_entry_lookup
  <2> QED BY <2>1, <2>2, <2>3 DEF i
<1>2. \A kind, b : <<kind, b>> \notin DOMAIN Flash => grub_cln_mfh_entry_lookup(<<kind, b>>) = <<>>
  BY DEF grub_cln_mfh_entry_lookup
<1>3. ASSUME NEW kind
      PROVE  \E b : spi_open(kind, secured) = grub_cln_mfh_entry_lookup(<<kind, b>>)
  BY DEF spi_open
<1>4. \A v : <<v>>[1] = v
  OBVIOUS
<1> HIDE DEF spi_open
<1>5. ASSUME NEW kind, spi_open(kind, secured) # <<>>
      PROVE  \E b : <<kind, b>> \in DOMAIN Flash /\ spi_open(kind, secured)[1] = Flash[<<kind, b>>]
  <2>1. PICK b : spi_open(kind, secured) = grub_cln_mfh_entry_lookup(<<kind, b>>)
    BY <1>3
  <2>2. <<kind, b>> \in DOMAIN Flash
    BY <1>2, <1>5, <2>1
  <2>3. spi_open(kind, secured) = <<Flash[<<kind, b>>]>>
    BY <1>1, <2>1, <2>2
  <2>4. spi_open(kind, secured)[1] = Flash[<<kind, b>>]
    BY <1>4, <2>3
  <2> QED BY <2>2, <2>4
<1>6. ASSUME spi_open("kernel", secured) # <<>> PROVE spi_open("kernel", secured)[1] \in Images
  <2>1. PICK b : <<"kernel", b>> \in DOMAIN Flash /\ spi_open("kernel", secured)[1] = Flash[<<"kernel", b>>]
    BY <1>5, <1>6
  <2> QED BY <1>1, <2>1
<1>7. ASSUME spi_open("ramdisk", secured) # <<>> PROVE spi_open("ramdisk", secured)[1] \in Modules
  <2>1. PICK b : <<"ramdisk", b>> \in DOMAIN Flash /\ spi_open("ramdisk", secured)[1] = Flash[<<"ramdisk", b>>]
    BY <1>5, <1>7
  <2> QED BY <1>1, <2>1
<1> QED BY <1>6, <1>7

LEMMA TidyLeave ==
  ASSUME NEW s, Tidy(s), NEW k, NEW grown, NEW moved
  PROVE  /\ Tidy(big_linux_boot(s, k, grown, moved).s)
         /\ Tidy(big_linux_boot_64(s, k, grown, moved).s)
         /\ Tidy(multi_boot(s, grown, moved).s)
<1> DEFINE g == GetMap(s, grown)
           down == Fill(g.s.mem, Base, Text(k), LAMBDA j : IF s.prot + j < Top THEN g.s.mem[s.prot + j] ELSE Junk)
           x == big_linux_boot(s, k, grown, moved).s
           y == big_linux_boot_64(s, k, grown, moved).s
           z == multi_boot(s, grown, moved).s
<1>1. /\ x \in {g.s, Err(g.s)} /\ z \in {g.s, Err(g.s)}
      /\ y \in {[g.s EXCEPT !.mem = down], Fatal(g.s)}
  BY DEF big_linux_boot, big_linux_boot_64, multi_boot, Leave, Then, Stay, Base
<1> HIDE DEF down, x, y, z
<1>2. Tidy(g.s)
  BY TidyMap
<1> HIDE DEF g
<1>3. Tidy([g.s EXCEPT !.mem = down])
  BY <1>2, TidyOther
<1>4. Tidy(x) /\ Tidy(y) /\ Tidy(z)
  BY <1>1, <1>2, <1>3, TidyErr
<1> QED BY <1>4 DEF x, y, z

(* halt, reboot and quit: everything that counts is given back.            *)
LEMMA AllReturned ==
  ASSUME NEW e, DOMAIN e = EFields, Sound(e), NEW f, f = grub_efi_mm_fini(e)
  PROVE  Sound(f) /\ f.table = {} /\ \A p \in Page \ f.amiss : f.type[p] = EfiMap[p]
<1> DEFINE mine == UNION {Covered(t) : t \in e.table}
           new == [p \in Page |-> IF p \in mine THEN "conv" ELSE e.type[p]]
<1>1. f = [e EXCEPT !.type = new, !.table = {}]
  BY DEF grub_efi_mm_fini, Covered
<1>2. \A p \in Page : new[p] = IF p \in mine THEN "conv" ELSE e.type[p]
  OBVIOUS
<1>3. \A p \in Page \ e.amiss : e.type[p] = "loader" <=> p \in mine
  BY DEF Sound, TableAgrees
<1> HIDE DEF mine, new
<1>4. f.type = new /\ f.table = {} /\ f.amiss = e.amiss
  BY <1>1 DEF EFields
<1>5. \A p \in Page \ f.amiss : f.type[p] = EfiMap[p] /\ f.type[p] # "loader"
  BY <1>2, <1>3, <1>4, EfiAssumption DEF Sound, TypesKept
<1>6. Sound(f)
  BY <1>4, <1>5 DEF Sound, TableAgrees, TypesKept, EntriesApart, StaleAmiss
<1> QED BY <1>4, <1>5, <1>6

-----------------------------------------------------------------------------
(* What GRUB says of its memory.                                           *)

Builds == build \in {"bios", "ia32", "x86_64"} /\ secure \in BOOLEAN
PagesInv ==
  /\ Builds /\ Sound(st.e)
  /\ halted # "exit" => Tidy(st)
  /\ halted = "exit" => \A p \in Page \ st.e.amiss : st.e.type[p] = EfiMap[p]

LEMMA PagesInit == Init => PagesInv
<1> SUFFICES ASSUME Init PROVE PagesInv
  OBVIOUS
<1>1. st = Fresh /\ halted = "no" /\ Builds
  BY DEF Init, Builds
<1>2. DOMAIN Fresh = Fields /\ Fresh.e = grub_efi_mm_init /\ Fresh.initrd = Null
  BY DEF Fresh, Fields
<1>3. /\ DOMAIN grub_efi_mm_init = EFields /\ grub_efi_mm_init.buf = Null
      /\ grub_efi_mm_init.type = EfiMap /\ grub_efi_mm_init.table = {} /\ grub_efi_mm_init.amiss = {}
  BY DEF grub_efi_mm_init, EFields
<1>4. Sound(grub_efi_mm_init)
  BY <1>3, EfiAssumption DEF Sound, TableAgrees, TypesKept, EntriesApart, StaleAmiss
<1>5. Tidy(st)
  BY <1>1, <1>2, <1>3, <1>4 DEF Tidy, Shape, BufHeld, DiskAt
<1> QED BY <1>1, <1>5 DEF PagesInv, Tidy

\* A command leaves the memory tidy, unless it gives everything back.
LEMMA TidyKernel ==
  ASSUME Tidy(st), Builds, Kernel
  PROVE  Tidy(st') /\ halted' # "exit"
<1>1. PICK k \in Images \cup Spi :
        \E want \in {"none", k.ask}, grown \in Grown, fail \in 0 .. Len(k.segs) + 1, mem \in MemLimits :
           kernel_func(k, want, fail, grown, mem)
  BY DEF Kernel
<1>2. PICK want \in {"none", k.ask}, grown \in Grown, fail \in 0 .. Len(k.segs) + 1, mem \in MemLimits :
        kernel_func(k, want, fail, grown, mem)
  BY <1>1
<1>3. halted' # "exit"
  BY <1>2 DEF kernel_func
<1>4. CASE ~efi
  <2>1. PICK r : st' = [st EXCEPT !.mem = r.mem, !.cur = r.cur, !.ok = r.type # "none"]
    <3>1. kernel_bios(k, want, fail)
      BY <1>2, <1>4 DEF kernel_func
    <3> QED BY <3>1 DEF kernel_bios
  <2>2. DOMAIN st = Fields
    BY DEF Tidy, Shape
  <2>3. DOMAIN st' = Fields /\ st'.e = st.e /\ st'.initrd = st.initrd /\ st'.initrdn = st.initrdn
    BY <2>1, <2>2 DEF Fields
  <2> QED BY <1>3, <2>3, TidySame
<1>5. CASE efi
  <2> DEFINE spi == k = FromFlash
             f == grub_cln_asset_open("kernel", spi, k, secure)
             type == CASE want = "none" -> "biglinux"
                       [] want = "multiboot" /\ build = "ia32" -> "multiboot"
                       [] OTHER -> "none"
  <2>1. PICK r : /\ r = CASE type = "none" -> [st EXCEPT !.ok = TRUE]
                         [] type # "none" /\ f = <<>> -> Err(st)
                         [] f # <<>> /\ want = "none" /\ build = "ia32" -> grub_load_linux(st, f[1], secure, spi, grown, fail)
                         [] f # <<>> /\ want = "none" /\ build = "x86_64" -> grub_load_linux_64(st, f[1], grown, fail)
                         [] OTHER -> grub_load_multiboot(st, k, fail)
                 /\ st' = r
    BY <1>2, <1>5 DEF kernel_func, kernel_efi
  <2>2. f # <<>> => f[1] \in Images
    BY <1>1, AnyAsset DEF grub_cln_asset_open, Spi
  <2>3. want = "multiboot" => k \in Images
    BY <1>2 DEF Spi, FromFlash
  <2> HIDE DEF f, spi
  <2>4. Tidy(r)
    <3>0. type = "none" \/ want = "none" \/ want = "multiboot"
      OBVIOUS
    <3>1. want = "none" => build \in {"ia32", "x86_64"}
      BY <1>5 DEF Builds, efi
    <3>2. \/ r = [st EXCEPT !.ok = TRUE]
          \/ r = Err(st)
          \/ f # <<>> /\ r = grub_load_linux(st, f[1], secure, spi, grown, fail)
          \/ f # <<>> /\ r = grub_load_linux_64(st, f[1], grown, fail)
          \/ want = "multiboot" /\ r = grub_load_multiboot(st, k, fail)
      <4> HIDE DEF type
      <4> QED BY <2>1, <3>0, <3>1
    <3>3. Tidy([st EXCEPT !.ok = TRUE])
      BY TidyOther
    <3> QED BY <2>2, <2>3, <3>2, <3>3, TidyErr, TidyLinux, TidyMultiboot
  <2> QED BY <1>3, <2>1, <2>4
<1> QED BY <1>4, <1>5

LEMMA TidyInitrd ==
  ASSUME Tidy(st), Builds, Initrd
  PROVE  Tidy(st') /\ halted' # "exit"
<1>1. PICK ms \in {<<m>> : m \in Modules \cup Spi} \cup (Modules \X Modules), missing \in BOOLEAN,
           grown \in Grown, fail \in 0 .. 2 :
        initrd_func(ms, missing, fail, grown)
  BY DEF Initrd
<1>2. DOMAIN st = Fields
  BY DEF Tidy, Shape
<1>3. CASE ~efi
  <2>1. initrd_bios(ms, missing, fail)
    BY <1>1, <1>3 DEF initrd_func
  <2>2. PICK r : halted' # "exit" /\ (st' = st \/ st' = [st EXCEPT !.mem = r.mem])
    BY <2>1 DEF initrd_bios
  <2>3. \A m : Tidy([st EXCEPT !.mem = m])
    BY TidyOther
  <2> QED BY <2>2, <2>3
<1>4. CASE efi
  <2> DEFINE m == ms[1]
             code == IF missing THEN 1 ELSE fail
             spi == m = FromFlash
             f == grub_cln_asset_open("ramdisk", spi, m, secure)
  <2>1. m \in Modules \cup Spi
    <3>1. CASE ms \in Modules \X Modules
      BY <3>1
    <3>2. CASE ms \in {<<x>> : x \in Modules \cup Spi}
      BY <3>2
    <3> QED BY <3>1, <3>2
  <2> HIDE DEF m
  <2>2. initrd_efi(m, code, grown)
    BY <1>1, <1>4 DEF initrd_func, m
  <2> HIDE DEF code
  <2>3. PICK r : /\ r = IF f = <<>> THEN Nowhere(Err(st))
                        ELSE IF build = "ia32" THEN grub_load_initrd(st, f[1], secure, spi, grown, linux_mem_size, code)
                        ELSE grub_load_initrd_64(st, f[1], grown, linux_mem_size, code)
                 /\ st' = r.s
                 /\ halted' = IF r.s.stop THEN "fatal" ELSE "no"
    BY <2>2 DEF initrd_efi
  <2>4. f # <<>> => f[1] \in Modules
    BY <2>1, AnyAsset DEF grub_cln_asset_open, Spi
  <2>5. Nowhere(Err(st)).s = Err(st)
    BY DEF Nowhere
  <2> HIDE DEF f, spi
  <2>6. CASE f = <<>>
    BY <2>3, <2>5, <2>6, TidyErr
  <2>7. CASE f # <<>> /\ build = "ia32"
    <3>1. r = grub_load_initrd(st, f[1], secure, spi, grown, linux_mem_size, code) /\ secure \in BOOLEAN
      BY <2>3, <2>7 DEF Builds
    <3>2. Tidy(grub_load_initrd(st, f[1], secure, spi, grown, linux_mem_size, code).s)
      BY <2>4, <2>7, <3>1, TidyDisk
    <3> QED BY <2>3, <3>1, <3>2
  <2>8. CASE f # <<>> /\ build # "ia32"
    <3>1. r = grub_load_initrd_64(st, f[1], grown, linux_mem_size, code)
      BY <2>3, <2>8
    <3>2. Tidy(grub_load_initrd_64(st, f[1], grown, linux_mem_size, code).s)
      BY <2>4, <2>8, TidyDisk64
    <3> QED BY <2>3, <3>1, <3>2
  <2> QED BY <2>6, <2>7, <2>8
<1> QED BY <1>3, <1>4

LEMMA TidyStart ==
  ASSUME Tidy(st), Builds, Start, halted = "no"
  PROVE  Tidy(st') /\ halted' # "exit"
<1>1. PICK grown, moved : boot_func(grown, moved)
  BY DEF Start
<1>2. CASE boot_chain \/ boot_bios
  <2>1. st' = st /\ halted' = halted
    BY <1>2 DEF boot_chain, boot_bios
  <2> QED BY <2>1
<1>3. CASE boot_efi(grown, moved)
  <2>1. PICK r : /\ r = CASE kernel_type = "biglinux" /\ build = "ia32" -> big_linux_boot(st, kern, grown, moved)
                           [] kernel_type = "biglinux" /\ build = "x86_64" -> big_linux_boot_64(st, kern, grown, moved)
                           [] OTHER -> multi_boot(st, grown, moved)
                 /\ st' = r.s
                 /\ halted' = IF r.s.stop THEN "fatal" ELSE "no"
    BY <1>3 DEF boot_efi
  <2>2. r \in {big_linux_boot(st, kern, grown, moved), big_linux_boot_64(st, kern, grown, moved), multi_boot(st, grown, moved)}
    BY <2>1
  <2>3. Tidy(r.s)
    BY <2>2, TidyLeave
  <2> QED BY <2>1, <2>3
<1> QED BY <1>1, <1>2, <1>3 DEF boot_func

LEMMA PagesStep ==
  ASSUME PagesInv, [Next]_vars
  PROVE  PagesInv'
<1>1. CASE UNCHANGED vars
  BY <1>1 DEF vars, PagesInv, Builds
<1>2. CASE Next
  <2>1. Prompt /\ UNCHANGED <<build, secure>>
    BY <1>2 DEF Next, Kernel, Module, Initrd, Chainloader, Map, Uppermem, Start, Exit, Impsprobe, Command, Prompt
  <2>2. halted = "no" /\ Tidy(st) /\ Builds /\ Builds'
    BY <2>1 DEF PagesInv, Prompt, Builds
  <2>3. SUFFICES (Tidy(st') /\ halted' # "exit") \/ Exit
    <3>1. CASE Tidy(st') /\ halted' # "exit"
      BY <2>2, <3>1 DEF PagesInv, Tidy
    <3>2. CASE Exit
      <4>1. st' = [st EXCEPT !.e = grub_efi_mm_fini(st.e)] /\ halted' = "exit"
        BY <3>2 DEF Exit
      <4>2. DOMAIN st = Fields /\ DOMAIN st.e = EFields /\ Sound(st.e)
        BY <2>2 DEF Tidy, Shape
      <4>3. st'.e = grub_efi_mm_fini(st.e)
        BY <4>1, <4>2 DEF Fields
      <4>4. Sound(st'.e) /\ \A p \in Page \ st'.e.amiss : st'.e.type[p] = EfiMap[p]
        BY <4>2, <4>3, AllReturned
      <4> QED BY <2>2, <4>1, <4>4 DEF PagesInv
    <3> QED BY <3>1, <3>2
  <2>4. CASE Kernel
    BY <2>2, <2>4, TidyKernel
  <2>5. CASE Module
    <3>1. PICK m \in Modules, fail \in 0 .. 1 : module_func(m, fail)
      BY <2>5 DEF Module
    <3>2. halted' = halted /\ (st' = st \/ \E mem, cur : st' = [st EXCEPT !.mem = mem, !.cur = cur])
      BY <3>1 DEF module_func
    <3>3. CASE st' = st
      BY <2>2, <3>2, <3>3
    <3>4. CASE st' # st
      <4>1. DOMAIN st = Fields
        BY <2>2 DEF Tidy, Shape
      <4>2. DOMAIN st' = Fields /\ st'.e = st.e /\ st'.initrd = st.initrd /\ st'.initrdn = st.initrdn
        BY <3>2, <3>4, <4>1 DEF Fields
      <4> QED BY <2>2, <3>2, <4>2, TidySame
    <3> QED BY <3>3, <3>4
  <2>6. CASE Initrd
    BY <2>2, <2>6, TidyInitrd
  <2>7. CASE Chainloader
    <3>1. PICK k \in Images, fail \in 0 .. 1, force \in BOOLEAN : chainloader_func(k, fail, force)
      BY <2>7 DEF Chainloader
    <3>2. PICK ok : halted' = halted /\ st' = [st EXCEPT !.ok = ok]
      BY <3>1 DEF chainloader_func, grub_chainloader
    <3>3. Tidy([st EXCEPT !.ok = ok])
      BY <2>2, TidyOther
    <3> QED BY <2>2, <3>2, <3>3
  <2>8. CASE Start
    BY <2>2, <2>8, TidyStart
  <2>9. CASE Map \/ Uppermem \/ Impsprobe
    <3>1. st' = st /\ halted' = halted
      BY <2>9 DEF Map, Uppermem, Impsprobe
    <3> QED BY <2>2, <3>1
  <2> QED BY <1>2, <2>4, <2>5, <2>6, <2>7, <2>8, <2>9 DEF Next
<1> QED BY <1>1, <1>2

LEMMA PagesAreAccounted == PagesInv => PagesAccounted
<1> SUFFICES ASSUME PagesInv PROVE PagesAccounted
  OBVIOUS
<1>1. Sound(st.e) /\ TableAgrees(st.e) /\ EntriesApart(st.e)
  BY DEF PagesInv, Sound
<1>2. \A t \in st.e.table : Covered(t) \subseteq Page
  BY <1>1, EntryPages
<1> DEFINE mine == {p \in Page : st.e.type[p] = "loader"}
<1>3. (UNION {Covered(t) : t \in st.e.table}) \ st.e.amiss = mine \ st.e.amiss
  <2>1. \A p \in Page \ st.e.amiss : st.e.type[p] = "loader" <=> \E t \in st.e.table : p \in Covered(t)
    BY <1>1 DEF TableAgrees
  <2> QED BY <1>2, <2>1
<1>4. \A t, u \in st.e.table : t # u => Covered(t) \cap Covered(u) \subseteq st.e.amiss
  BY <1>1 DEF EntriesApart
<1>5. halted = "exit" => \A p \in Page \ st.e.amiss : st.e.type[p] = EfiMap[p]
  BY DEF PagesInv
<1> QED BY <1>3, <1>4, <1>5 DEF PagesAccounted, Covered

(* Every page that GRUB has from the firmware of an EFI machine is in the  *)
(* table of efimm.c and no entry names a page of another, and halt, reboot *)
(* and quit give back what was taken, whatever is loaded and whatever      *)
(* fails: up to the pages in amiss (the table was full, or a RAM disk was  *)
(* freed under another length), on all builds and for every memory map.    *)
THEOREM PagesAreInTable == Spec => []PagesAccounted
<1>1. Init => PagesInv
  BY PagesInit
<1>2. PagesInv /\ [Next]_vars => PagesInv'
  BY PagesStep
<1>3. PagesInv => PagesAccounted
  BY PagesAreAccounted
<1> QED BY <1>1, <1>2, <1>3, PTL DEF Spec

-----------------------------------------------------------------------------
(* The map of memory that a kernel is given.  The folds of BootMem are     *)
(* functions on sets; what such a function is on 1 .. k is what the loop   *)
(* of the code has after k steps.                                          *)

LEMMA Naturals ==
  ASSUME NEW S, 0 \in S, \A n \in Nat : n \in S => n + 1 \in S
  PROVE  Nat \subseteq S
<1> DEFINE T == Nat \ S
           R == OpToRel(<, Nat)
<1>1. SUFFICES ASSUME T # {} PROVE FALSE
  OBVIOUS
<1>2. IsWellFoundedOn(R, Nat)
  BY NatLessThanWellFounded
<1>3. PICK x \in T : \A y \in T : ~(<<y, x>> \in R)
  <2> HIDE DEF R
  <2> QED BY <1>1, <1>2, WFMin
<1>4. x \in Nat /\ x # 0 /\ x - 1 \in Nat
  OBVIOUS
<1>5. \A y \in T : ~(y < x)
  BY <1>3 DEF OpToRel
<1>6. x - 1 \in S
  BY <1>4, <1>5
<1> QED BY <1>4, <1>6

LEMMA MaxUpTo ==
  ASSUME NEW k \in Nat
  PROVE  /\ \A s \in SUBSET (1 .. k + 1) : k + 1 \in s => Max(s) = k + 1
         /\ \A s \in SUBSET (1 .. k + 1) : k + 1 \notin s => s \in SUBSET (1 .. k)
         /\ \A s \in SUBSET (1 .. k + 1) : s \ {k + 1} \in SUBSET (1 .. k)
         /\ (1 .. k + 1) \ {k + 1} = 1 .. k /\ Max(1 .. k + 1) = k + 1 /\ 1 .. k + 1 # {}
<1>1. ASSUME NEW s \in SUBSET (1 .. k + 1), k + 1 \in s
      PROVE  Max(s) = k + 1
  <2>1. \A x \in s : k + 1 >= x
    OBVIOUS
  <2>2. \A x \in s : (\A y \in s : x >= y) => x = k + 1
    BY <1>1, <2>1
  <2> QED BY <1>1, <2>1, <2>2 DEF Max
<1>2. k + 1 \in 1 .. k + 1
  OBVIOUS
<1> QED BY <1>1, <1>2

LEMMA MaxInside ==
  ASSUME NEW N \in Nat, NEW s \in SUBSET (1 .. N), s # {}
  PROVE  Max(s) \in s
<1> DEFINE S == {k \in Nat : \A u \in SUBSET (1 .. k) : u # {} => Max(u) \in u}
<1>1. 0 \in S
  <2>1. \A u \in SUBSET (1 .. 0) : u = {}
    OBVIOUS
  <2> QED BY <2>1
<1>2. \A n \in Nat : n \in S => n + 1 \in S
  <2> TAKE n \in Nat
  <2> SUFFICES ASSUME n \in S, NEW u \in SUBSET (1 .. n + 1), u # {} PROVE Max(u) \in u
    OBVIOUS
  <2>1. CASE n + 1 \in u
    <3>1. Max(u) = n + 1
      BY <2>1, MaxUpTo
    <3> QED BY <2>1, <3>1
  <2>2. CASE n + 1 \notin u
    <3>1. u \in SUBSET (1 .. n)
      BY <2>2, MaxUpTo
    <3> QED BY <3>1
  <2> QED BY <2>1, <2>2
<1> HIDE DEF S
<1>3. Nat \subseteq S
  BY <1>1, <1>2, Naturals
<1>4. N \in S
  BY <1>3
<1> QED BY <1>4 DEF S

(* Such a function exists, whatever the loop does in a step.               *)
IsFold(g, V, b, N, F) ==
  /\ g \in [SUBSET (1 .. N) -> V]
  /\ \A s \in SUBSET (1 .. N) : g[s] = IF s = {} THEN b ELSE F[<<g[s \ {Max(s)}], Max(s)>>]
LEMMA FoldExists ==
  ASSUME NEW V, NEW b \in V, NEW N \in Nat, NEW F \in [V \X (1 .. N) -> V]
  PROVE  \E g : IsFold(g, V, b, N, F)
<1> DEFINE Is(g, k) == \A s \in SUBSET (1 .. k) : g[s] = IF s = {} THEN b ELSE F[<<g[s \ {Max(s)}], Max(s)>>]
           Some(k) == \E g \in [SUBSET (1 .. k) -> V] : Is(g, k)
           S == {k \in Nat : k <= N => Some(k)}
<1>1. Some(0)
  <2> DEFINE g == [s \in SUBSET (1 .. 0) |-> b]
  <2>1. \A s \in SUBSET (1 .. 0) : s = {}
    OBVIOUS
  <2>2. g \in [SUBSET (1 .. 0) -> V]
    OBVIOUS
  <2>3. \A s \in SUBSET (1 .. 0) : g[s] = b
    OBVIOUS
  <2> HIDE DEF g
  <2>4. Is(g, 0)
    BY <2>1, <2>3
  <2> QED BY <2>2, <2>4
<1>2. ASSUME NEW n \in Nat, Some(n), n + 1 <= N
      PROVE  Some(n + 1)
  <2>1. PICK h \in [SUBSET (1 .. n) -> V] : Is(h, n)
    BY <1>2
  <2>2. n + 1 \in 1 .. N
    BY <1>2
  <2> DEFINE top == n + 1
             g == [s \in SUBSET (1 .. top) |-> IF top \in s THEN F[<<h[s \ {top}], top>>] ELSE h[s]]
  <2>3. \A s \in SUBSET (1 .. top) : top \notin s => s \in SUBSET (1 .. n)
    BY MaxUpTo
  <2>4. \A s \in SUBSET (1 .. top) : s \ {top} \in SUBSET (1 .. n) /\ top \notin s \ {top}
    OBVIOUS
  <2>5. \A s \in SUBSET (1 .. top) : top \in s => Max(s) = top
    BY MaxUpTo
  <2>6. \A s \in SUBSET (1 .. n) : s \in SUBSET (1 .. top) /\ top \notin s
    OBVIOUS
  <2> HIDE DEF top
  <2>7. g \in [SUBSET (1 .. top) -> V]
    <3>1. \A s \in SUBSET (1 .. top) : top \in s => F[<<h[s \ {top}], top>>] \in V
      BY <2>2, <2>4 DEF top
    <3> QED BY <2>3, <3>1
  <2>8. \A s \in SUBSET (1 .. n) : g[s] = h[s]
    BY <2>6
  <2>9. \A s \in SUBSET (1 .. top) : top \in s => g[s] = F[<<h[s \ {top}], top>>]
    OBVIOUS
  <2> HIDE DEF g
  <2>10. ASSUME NEW s \in SUBSET (1 .. top)
         PROVE  g[s] = IF s = {} THEN b ELSE F[<<g[s \ {Max(s)}], Max(s)>>]
    <3>1. CASE top \in s
      <4>1. Max(s) = top /\ g[s] = F[<<h[s \ {top}], top>>]
        BY <2>5, <2>9, <3>1
      <4>2. g[s \ {top}] = h[s \ {top}]
        BY <2>4, <2>8
      <4> QED BY <3>1, <4>1, <4>2
    <3>2. CASE top \notin s
      <4>1. s \in SUBSET (1 .. n)
        BY <2>3, <3>2
      <4>2. s \ {Max(s)} \in SUBSET (1 .. n)
        BY <4>1
      <4> QED BY <2>1, <2>8, <4>1, <4>2
    <3> QED BY <3>1, <3>2
  <2> QED BY <2>7, <2>10 DEF top
<1>3. Some(N)
  <2> HIDE DEF Some
  <2>1. 0 \in S
    BY <1>1
  <2>2. \A n \in Nat : n \in S => n + 1 \in S
    BY <1>2
  <2> HIDE DEF S
  <2>3. Nat \subseteq S
    BY <2>1, <2>2, Naturals
  <2>4. N \in S
    BY <2>3
  <2> QED BY <2>4 DEF S
<1> QED BY <1>3 DEF IsFold

(* What the loop of Descriptors does with page p.                          *)
Describe(e, q, p) ==
  CASE e.type[p] = "none" -> q
    [] e.type[p] # "none" /\ Len(q) > 0 /\ q[Len(q)].type = e.type[p] /\ q[Len(q)].start + q[Len(q)].num = p
         -> [q EXCEPT ![Len(q)].num = @ + 1]
    [] OTHER -> Append(q, [start |-> p, num |-> 1, type |-> e.type[p]])
Run(T) == [start : Nat, num : Nat, type : T]
FirmwareType(e) == {e.type[p] : p \in Page}

LEMMA DescribeTyped ==
  ASSUME NEW e, NEW q \in Seq(Run(FirmwareType(e))), NEW p \in Page
  PROVE  Describe(e, q, p) \in Seq(Run(FirmwareType(e)))
<1> DEFINE T == FirmwareType(e)
<1>1. e.type[p] \in T /\ p \in Nat
  BY Constants DEF FirmwareType
<1> HIDE DEF T
<1>2. q \in Seq(Run(T))
  BY DEF T
<1>3. Append(q, [start |-> p, num |-> 1, type |-> e.type[p]]) \in Seq(Run(T))
  <2>1. [start |-> p, num |-> 1, type |-> e.type[p]] \in Run(T)
    BY <1>1 DEF Run
  <2> HIDE DEF Run
  <2> QED BY <1>2, <2>1
<1>4. Len(q) > 0 => [q EXCEPT ![Len(q)].num = @ + 1] \in Seq(Run(T))
  <2> SUFFICES ASSUME Len(q) > 0 PROVE [q EXCEPT ![Len(q)].num = @ + 1] \in Seq(Run(T))
    OBVIOUS
  <2> DEFINE last == [q[Len(q)] EXCEPT !.num = @ + 1]
  <2>1. q[Len(q)] \in Run(T)
    BY <1>2
  <2>2. last \in Run(T)
    BY <2>1 DEF Run
  <2> HIDE DEF last
  <2>3. [q EXCEPT ![Len(q)] = last] \in Seq(Run(T))
    BY <1>2, <2>2
  <2> QED BY <2>3 DEF last
<1> QED BY <1>2, <1>3, <1>4 DEF Describe, T

LEMMA DescriptorsFold ==
  ASSUME NEW e
  PROVE  \E h : /\ h[0] = <<>> /\ Descriptors(e) = h[Top]
                /\ \A p \in Page : h[p + 1] = Describe(e, h[p], p)
<1> DEFINE seq == [i \in 1 .. Top |-> i - 1]
           G(g) == [s \in SUBSET (DOMAIN seq) |->
                      IF s = {} THEN <<>> ELSE LET x == Max(s) IN Describe(e, g[s \ {x}], seq[x])]
           it == CHOOSE g : g = G(g)
           V == Seq(Run(FirmwareType(e)))
           F == [z \in V \X (1 .. Top) |-> Describe(e, z[1], z[2] - 1)]
           h == [k \in 0 .. Top |-> it[1 .. k]]
<1>1. Descriptors(e) = it[DOMAIN seq]
  BY DEF Descriptors, FoldLeft, MapThenFoldSet, Describe
<1>2. DOMAIN seq = 1 .. Top /\ \A x \in 1 .. Top : seq[x] = x - 1
  OBVIOUS
<1> HIDE DEF seq
<1>3. \E g : g = G(g)
  <2>1. <<>> \in V
    OBVIOUS
  <2>2. \A v \in V, x \in 1 .. Top : Describe(e, v, x - 1) \in V
    <3> TAKE v \in V, x \in 1 .. Top
    <3>1. x - 1 \in Page
      BY Constants
    <3> QED BY <3>1, DescribeTyped
  <2> HIDE DEF V
  <2>3. F \in [V \X (1 .. Top) -> V] /\ \A v \in V, x \in 1 .. Top : F[<<v, x>>] = Describe(e, v, x - 1)
    BY <2>2
  <2> HIDE DEF F
  <2>4. PICK g \in [SUBSET (1 .. Top) -> V] :
          \A s \in SUBSET (1 .. Top) : g[s] = IF s = {} THEN <<>> ELSE F[<<g[s \ {Max(s)}], Max(s)>>]
    <3> DEFINE b == <<>>
    <3>1. Top \in Nat /\ b \in V /\ F \in [V \X (1 .. Top) -> V]
      BY <2>1, <2>3, Constants
    <3> HIDE DEF b
    <3>2. PICK g : IsFold(g, V, b, Top, F)
      BY <3>1, FoldExists
    <3> QED BY <3>2 DEF b, IsFold
  <2>5. ASSUME NEW s \in SUBSET (1 .. Top), s # {}
        PROVE  g[s] = Describe(e, g[s \ {Max(s)}], seq[Max(s)])
    <3>1. Max(s) \in 1 .. Top
      <4>1. Top \in Nat
        BY Constants
      <4> QED BY <2>5, <4>1, MaxInside
    <3>2. g[s \ {Max(s)}] \in V
      OBVIOUS
    <3> QED BY <1>2, <2>3, <2>4, <2>5, <3>1, <3>2
  <2>6. g = G(g)
    BY <1>2, <2>4, <2>5
  <2> QED BY <2>6
<1>4. it = G(it)
  BY <1>3
<1> HIDE DEF it
<1>5. \A s \in SUBSET (1 .. Top) : it[s] = IF s = {} THEN <<>> ELSE Describe(e, it[s \ {Max(s)}], seq[Max(s)])
  BY <1>2, <1>4
<1> HIDE DEF G
<1>6. h[0] = <<>>
  <2>1. 1 .. 0 = {} /\ {} \in SUBSET (1 .. Top)
    OBVIOUS
  <2>2. it[1 .. 0] = <<>>
    BY <1>5, <2>1
  <2> QED BY <2>2, Constants
<1>7. ASSUME NEW p \in Page
      PROVE  h[p + 1] = Describe(e, h[p], p)
  <2>1. p \in Nat /\ p + 1 \in 1 .. Top
    BY Constants
  <2>2. (1 .. p + 1) \ {p + 1} = 1 .. p /\ Max(1 .. p + 1) = p + 1 /\ 1 .. p + 1 # {}
    BY <2>1, MaxUpTo
  <2>3. 1 .. p + 1 \in SUBSET (1 .. Top)
    BY <2>1, Constants
  <2>4. it[1 .. p + 1] = Describe(e, it[1 .. p], seq[p + 1])
    BY <1>5, <2>2, <2>3
  <2>5. seq[p + 1] = p
    BY <1>2, <2>1
  <2>6. h[p + 1] = it[1 .. p + 1] /\ h[p] = it[1 .. p]
    BY <2>1, Constants
  <2> HIDE DEF h
  <2> QED BY <2>4, <2>5, <2>6
<1>8. h[Top] = it[1 .. Top]
  BY Constants
<1> HIDE DEF h
<1> QED BY <1>1, <1>2, <1>6, <1>7, <1>8

(* What a list of runs q says of the pages below k.                        *)
InRun(d, p) == d.start <= p /\ p < d.start + d.num
RunsTrue(e, q, k) ==
  \A i \in 1 .. Len(q) : /\ q[i].num > 0 /\ q[i].start + q[i].num <= k /\ q[i].type # "none"
                         /\ \A x \in Page : InRun(q[i], x) => e.type[x] = q[i].type
RunsAll(e, q, k) ==
  \A x \in 0 .. k - 1 : e.type[x] # "none" => \E i \in 1 .. Len(q) : InRun(q[i], x)
Described(e, q, k) == q \in Seq(Run(FirmwareType(e))) /\ RunsTrue(e, q, k) /\ RunsAll(e, q, k)

LEMMA DescribeStep ==
  ASSUME NEW e, NEW p \in Page, NEW q, Described(e, q, p)
  PROVE  Described(e, Describe(e, q, p), p + 1)
<1> DEFINE r == Describe(e, q, p)
           T == FirmwareType(e)
           n == Len(q)
           new == [start |-> p, num |-> 1, type |-> e.type[p]]
           long == [q[n] EXCEPT !.num = @ + 1]
<1>1. r \in Seq(Run(T)) /\ q \in Seq(Run(T))
  BY DescribeTyped DEF Described
<1>2. p \in Nat /\ n \in Nat /\ \A x \in 0 .. p : x \in 0 .. p - 1 \/ x = p
  BY <1>1, Constants
<1>3. CASE e.type[p] = "none"
  <2>1. r = q
    BY <1>3 DEF Describe
  <2> HIDE DEF r, n
  <2>2. \A i \in 1 .. Len(r) : r[i].start \in Nat /\ r[i].num \in Nat
    <3>1. \A i \in 1 .. Len(r) : r[i] \in Run(T)
      BY <1>1
    <3> QED BY <3>1 DEF Run
  <2>3. r = q /\ Described(e, r, p)
    BY <2>1
  <2>4. \A i \in 1 .. Len(r) : r[i].start + r[i].num <= p + 1
    BY <1>2, <2>2, <2>3 DEF Described, RunsTrue, RunsAll
  <2>5. \A x \in 0 .. p + 1 - 1 : e.type[x] # "none" => \E i \in 1 .. Len(r) : InRun(r[i], x)
    BY <1>2, <1>3, <2>3 DEF Described, RunsTrue, RunsAll
  <2>6. Described(e, r, p + 1)
    <3>1. RunsTrue(e, r, p + 1)
      BY <2>3, <2>4 DEF Described, RunsTrue
    <3>2. RunsAll(e, r, p + 1)
      BY <1>2, <2>5 DEF RunsAll
    <3> QED BY <1>1, <3>1, <3>2 DEF Described
  <2> QED BY <2>6 DEF r
<1>4. CASE e.type[p] # "none" /\ n > 0 /\ q[n].type = e.type[p] /\ q[n].start + q[n].num = p
  <2>1. r = [q EXCEPT ![n] = long]
    BY <1>4 DEF Describe
  <2>2. q[n] \in Run(T) /\ n \in 1 .. Len(q)
    BY <1>1, <1>2, <1>4
  <2>3. long.start = q[n].start /\ long.num = q[n].num + 1 /\ long.type = q[n].type
    BY <2>2 DEF Run
  <2>4. q[n].start \in Nat /\ q[n].num \in Nat
    BY <2>2 DEF Run
  <2> HIDE DEF long
  <2>5. Len(r) = n /\ r[n] = long /\ \A i \in 1 .. n : i # n => r[i] = q[i]
    BY <1>1, <2>1, <2>2
  <2> HIDE DEF r
  <2>6. ASSUME NEW i \in 1 .. Len(r)
        PROVE  /\ r[i].num > 0 /\ r[i].start + r[i].num <= p + 1 /\ r[i].type # "none"
               /\ \A x \in Page : InRun(r[i], x) => e.type[x] = r[i].type
    <3>1. /\ q[i].num > 0 /\ q[i].start + q[i].num <= p /\ q[i].type # "none"
          /\ \A x \in Page : InRun(q[i], x) => e.type[x] = q[i].type
      BY <2>5 DEF Described, RunsTrue, RunsAll, n
    <3>2. CASE i # n
      <4>1. r[i] = q[i] /\ q[i] \in Run(T)
        BY <1>1, <2>5, <3>2
      <4>2. q[i].start \in Nat /\ q[i].num \in Nat
        BY <4>1 DEF Run
      <4> QED BY <1>2, <3>1, <4>1, <4>2
    <3>3. CASE i = n
      <4>1. r[i] = long
        BY <2>5, <3>3
      <4>2. \A x \in Page : InRun(long, x) => InRun(q[n], x) \/ x = p
        BY <1>4, <2>3, <2>4, Constants DEF InRun
      <4>3. long.num > 0 /\ long.start + long.num <= p + 1
        BY <1>2, <1>4, <2>3, <2>4
      <4> QED BY <1>4, <2>3, <3>1, <3>3, <4>1, <4>2, <4>3
    <3> QED BY <3>2, <3>3
  <2>7. ASSUME NEW x \in 0 .. p + 1 - 1, e.type[x] # "none"
        PROVE  \E i \in 1 .. Len(r) : InRun(r[i], x)
    <3>1. CASE x = p
      <4>1. InRun(long, x)
        BY <1>4, <1>2, <2>3, <2>4, <3>1 DEF InRun
      <4> QED BY <2>2, <2>5, <4>1 DEF n
    <3>2. CASE x # p
      <4>1. x \in 0 .. p - 1
        BY <1>2, <3>2
      <4>2. PICK i \in 1 .. Len(q) : InRun(q[i], x)
        BY <2>7, <4>1 DEF Described, RunsAll
      <4>3. CASE i # n
        BY <2>5, <4>2, <4>3 DEF n
      <4>4. CASE i = n
        <5>1. InRun(long, x)
          BY <1>2, <2>3, <2>4, <4>2, <4>4, <4>1 DEF InRun
        <5> QED BY <2>2, <2>5, <5>1 DEF n
      <4> QED BY <4>3, <4>4
    <3> QED BY <3>1, <3>2
  <2>8. Described(e, r, p + 1)
    <3>1. RunsTrue(e, r, p + 1)
      BY <2>6 DEF RunsTrue
    <3>2. RunsAll(e, r, p + 1)
      BY <1>2, <2>7 DEF RunsAll
    <3> QED BY <1>1, <3>1, <3>2 DEF Described
  <2> QED BY <2>8 DEF r
<1>5. CASE e.type[p] # "none" /\ ~(n > 0 /\ q[n].type = e.type[p] /\ q[n].start + q[n].num = p)
  <2>1. r = Append(q, new)
    BY <1>5 DEF Describe
  <2>2. new.start = p /\ new.num = 1 /\ new.type = e.type[p]
    OBVIOUS
  <2> HIDE DEF new
  <2>3. Len(r) = n + 1 /\ r[n + 1] = new /\ \A i \in 1 .. n : r[i] = q[i]
    BY <1>1, <2>1
  <2> HIDE DEF r
  <2>4. \A x \in Page : InRun(new, x) <=> x = p
    BY <1>2, <2>2, Constants DEF InRun
  <2>5. ASSUME NEW i \in 1 .. Len(r)
        PROVE  /\ r[i].num > 0 /\ r[i].start + r[i].num <= p + 1 /\ r[i].type # "none"
               /\ \A x \in Page : InRun(r[i], x) => e.type[x] = r[i].type
    <3>1. CASE i \in 1 .. n
      <4>1. /\ q[i].num > 0 /\ q[i].start + q[i].num <= p /\ q[i].type # "none"
            /\ \A x \in Page : InRun(q[i], x) => e.type[x] = q[i].type
        BY <3>1 DEF Described, RunsTrue, RunsAll, n
      <4>2. r[i] = q[i] /\ q[i] \in Run(T)
        BY <1>1, <2>3, <3>1
      <4>3. q[i].start \in Nat /\ q[i].num \in Nat
        BY <4>2 DEF Run
      <4> QED BY <1>2, <4>1, <4>2, <4>3
    <3>2. CASE i = n + 1
      <4>1. r[i] = new
        BY <2>3, <3>2
      <4> QED BY <1>2, <1>5, <2>2, <2>4, <4>1
    <3> QED BY <1>2, <2>3, <3>1, <3>2
  <2>6. ASSUME NEW x \in 0 .. p + 1 - 1, e.type[x] # "none"
        PROVE  \E i \in 1 .. Len(r) : InRun(r[i], x)
    <3>0. n + 1 \in 1 .. Len(r) /\ \A i \in 1 .. n : i \in 1 .. Len(r)
      BY <1>2, <2>3
    <3>1. CASE x = p
      BY <2>3, <2>4, <3>0, <3>1
    <3>2. CASE x # p
      <4>1. x \in 0 .. p - 1
        BY <1>2, <3>2
      <4>2. PICK i \in 1 .. Len(q) : InRun(q[i], x)
        BY <2>6, <4>1 DEF Described, RunsAll
      <4> QED BY <2>3, <3>0, <4>2 DEF n
    <3> QED BY <3>1, <3>2
  <2>8. Described(e, r, p + 1)
    <3>1. RunsTrue(e, r, p + 1)
      BY <2>5 DEF RunsTrue
    <3>2. RunsAll(e, r, p + 1)
      BY <1>2, <2>6 DEF RunsAll
    <3> QED BY <1>1, <3>1, <3>2 DEF Described
  <2> QED BY <2>8 DEF r
<1> QED BY <1>3, <1>4, <1>5

LEMMA DescriptorsTrue ==
  ASSUME NEW e
  PROVE  Described(e, Descriptors(e), Top)
<1>1. PICK h : /\ h[0] = <<>> /\ Descriptors(e) = h[Top]
               /\ \A p \in Page : h[p + 1] = Describe(e, h[p], p)
  BY DescriptorsFold
<1> DEFINE S == {k \in Nat : k <= Top => Described(e, h[k], k)}
<1>2. 0 \in S
  <2>1. Described(e, <<>>, 0)
    BY DEF Described, RunsTrue, RunsAll
  <2> QED BY <1>1, <2>1
<1>3. ASSUME NEW n \in Nat, n \in S
      PROVE  n + 1 \in S
  <2> SUFFICES ASSUME n + 1 <= Top PROVE Described(e, h[n + 1], n + 1)
    OBVIOUS
  <2>1. n \in Page /\ Described(e, h[n], n)
    BY <1>3, Constants
  <2> QED BY <1>1, <2>1, DescribeStep
<1> HIDE DEF S
<1>4. Nat \subseteq S
  BY <1>2, <1>3, Naturals
<1>5. Top \in S
  BY <1>4, Constants
<1> QED BY <1>1, <1>5, Constants DEF S

(* The e820 map: what it says of a page.                                   *)
E820Types == {"ram", "reserved", "acpi", "nvs"}
Region == Run(E820Types)
Says(m, t, p) == \E i \in 1 .. Len(m) : m[i].type = t /\ InRun(m[i], p)
Gives(d, t, p) == E820Type(d.type) = t /\ InRun(d, p) /\ (t = "ram" => p # Hole)

(* From m the map has become r: it says also t of the pages in S, unless   *)
(* it is full.                                                             *)
Grows(m, r, t, S) ==
  /\ r \in Seq(Region) /\ Len(m) <= Len(r)
  /\ \A u \in E820Types, p \in Page : Says(m, u, p) => Says(r, u, p)
  /\ \A u \in E820Types, p \in Page : Says(r, u, p) => Says(m, u, p) \/ (u = t /\ p \in S)
  /\ Len(r) < E820Max => \A p \in Page \cap S : Says(r, t, p)

LEMMA RegionAdded ==
  ASSUME NEW m \in Seq(Region), NEW start \in Nat, NEW num \in Nat, NEW t \in E820Types
  PROVE  Grows(m, add_memory_region(m, start, num, t), t, start .. start + num - 1)
<1> DEFINE r == add_memory_region(m, start, num, t)
           n == Len(m)
           behind == n > 0 /\ m[n].type = t /\ m[n].start + m[n].num = start
           new == [start |-> start, num |-> num, type |-> t]
           long == [m[n] EXCEPT !.num = @ + num]
           S == start .. start + num - 1
<1>1. n \in Nat /\ \A i \in 1 .. n : m[i] \in Region /\ m[i].start \in Nat /\ m[i].num \in Nat
  <2>1. \A i \in 1 .. n : m[i] \in Region
    OBVIOUS
  <2> QED BY <2>1 DEF Region, Run
<1>2. \A p \in Page : p \in Nat
  BY Constants
<1>3. CASE behind
  <2>1. r = [m EXCEPT ![n] = long] /\ n \in 1 .. n
    BY <1>1, <1>3 DEF add_memory_region
  <2>2. long.start = m[n].start /\ long.num = m[n].num + num /\ long.type = t /\ long \in Region
    <3>1. m[n] \in Region /\ m[n].type = t
      BY <1>1, <1>3, <2>1
    <3> DEFINE x == m[n]
    <3> HIDE DEF x
    <3>2. x \in Region => /\ [x EXCEPT !.num = @ + num].start = x.start /\ [x EXCEPT !.num = @ + num].num = x.num + num
                          /\ [x EXCEPT !.num = @ + num].type = x.type /\ [x EXCEPT !.num = @ + num] \in Region
      BY DEF Region, Run
    <3> QED BY <3>1, <3>2 DEF x
  <2> HIDE DEF long
  <2>3. r \in Seq(Region) /\ Len(r) = n /\ r[n] = long /\ \A i \in 1 .. n : i # n => r[i] = m[i]
    BY <2>1, <2>2
  <2>4. \A p \in Page : InRun(long, p) <=> InRun(m[n], p) \/ p \in S
    <3>1. m[n].start \in Nat /\ m[n].num \in Nat /\ m[n].start + m[n].num = start
      BY <1>1, <1>3, <2>1
    <3>2. long.start = m[n].start /\ long.num = m[n].num + num
      BY <2>2
    <3> DEFINE a == m[n].start
               b == m[n].num
    <3> HIDE DEF a, b, n
    <3>3. a \in Nat /\ b \in Nat /\ a + b = start
      BY <3>1 DEF a, b
    <3>4. \A p \in Page : (a <= p /\ p < a + (b + num)) <=> (a <= p /\ p < a + b) \/ p \in S
      BY <1>2, <3>3
    <3> QED BY <3>2, <3>4 DEF InRun, a, b
  <2>5. m[n].type = t
    BY <1>3
  <2> HIDE DEF r, S, behind
  <2>6. ASSUME NEW u \in E820Types, NEW p \in Page, Says(m, u, p)
        PROVE  Says(r, u, p)
    <3>1. PICK i \in 1 .. n : m[i].type = u /\ InRun(m[i], p)
      BY <2>6 DEF Says
    <3> QED BY <2>2, <2>3, <2>4, <2>5, <3>1 DEF Says
  <2>7. ASSUME NEW u \in E820Types, NEW p \in Page, Says(r, u, p)
        PROVE  Says(m, u, p) \/ (u = t /\ p \in S)
    <3>1. PICK i \in 1 .. n : r[i].type = u /\ InRun(r[i], p)
      BY <2>3, <2>7 DEF Says
    <3> QED BY <2>2, <2>3, <2>4, <2>5, <3>1 DEF Says
  <2>8. \A p \in Page \cap S : Says(r, t, p)
    BY <2>1, <2>2, <2>3, <2>4 DEF Says
  <2>9. Grows(m, r, t, S)
    BY <1>1, <2>3, <2>6, <2>7, <2>8 DEF Grows
  <2> QED BY <2>9 DEF r, S
<1>4. CASE ~behind /\ n < E820Max
  <2>1. r = Append(m, new)
    BY <1>4 DEF add_memory_region
  <2>2. new.start = start /\ new.num = num /\ new.type = t /\ new \in Region
    BY DEF Region, Run
  <2> HIDE DEF new
  <2>3. r \in Seq(Region) /\ Len(r) = n + 1 /\ r[n + 1] = new /\ \A i \in 1 .. n : r[i] = m[i]
    BY <2>1, <2>2
  <2>4. \A p \in Page : InRun(new, p) <=> p \in S
    BY <1>2, <2>2 DEF InRun
  <2>5. n + 1 \in 1 .. Len(r) /\ (\A i \in 1 .. n : i \in 1 .. Len(r)) /\ \A i \in 1 .. Len(r) : i \in 1 .. n \/ i = n + 1
    BY <1>1, <2>3
  <2> HIDE DEF r, S, behind
  <2>6. ASSUME NEW u \in E820Types, NEW p \in Page, Says(m, u, p)
        PROVE  Says(r, u, p)
    BY <2>3, <2>5, <2>6 DEF Says
  <2>7. ASSUME NEW u \in E820Types, NEW p \in Page, Says(r, u, p)
        PROVE  Says(m, u, p) \/ (u = t /\ p \in S)
    <3>1. PICK i \in 1 .. Len(r) : r[i].type = u /\ InRun(r[i], p)
      BY <2>7 DEF Says
    <3> QED BY <2>2, <2>3, <2>4, <2>5, <3>1 DEF Says
  <2>8. \A p \in Page \cap S : Says(r, t, p)
    BY <2>2, <2>3, <2>4, <2>5 DEF Says
  <2>9. Grows(m, r, t, S)
    BY <1>1, <2>3, <2>6, <2>7, <2>8 DEF Grows
  <2> QED BY <2>9 DEF r, S
<1>5. CASE ~behind /\ ~(n < E820Max)
  <2>1. r = m
    BY <1>5 DEF add_memory_region
  <2> HIDE DEF r, S, behind
  <2>2. Grows(m, r, t, S)
    BY <1>1, <1>5, <2>1 DEF Grows
  <2> QED BY <2>2 DEF r, S
<1> QED BY <1>3, <1>4, <1>5

\* One run and then another of the same type.
LEMMA GrowsTwice ==
  ASSUME NEW m \in Seq(Region), NEW q, NEW r, NEW t \in E820Types, NEW S, NEW R, Grows(m, q, t, S), Grows(q, r, t, R)
  PROVE  Grows(m, r, t, S \cup R)
<1>1. Len(m) \in Nat /\ Len(q) \in Nat /\ Len(r) \in Nat /\ E820Max \in Nat
  BY EfiAssumption DEF Grows
<1> QED BY <1>1 DEF Grows

(* A descriptor is added: its pages, without the hole below 1 MB where     *)
(* they are RAM.                                                           *)
AddRun(m, d) == IF E820Type(d.type) = "ram" THEN AddRam(m, d)
                ELSE add_memory_region(m, d.start, d.num, E820Type(d.type))

LEMMA RunAdded ==
  ASSUME NEW m \in Seq(Region), NEW d, d.start \in Nat, d.num \in Nat
  PROVE  Grows(m, AddRun(m, d), E820Type(d.type), {p \in Page : Gives(d, E820Type(d.type), p)})
<1> DEFINE t == E820Type(d.type)
           P == {p \in Page : Gives(d, t, p)}
           all == d.start .. d.start + d.num - 1
           end == d.start + d.num
           low == IF d.start < Hole THEN add_memory_region(m, d.start, Hole - d.start, "ram") ELSE m
<1>1. t \in E820Types
  BY DEF E820Type, E820Types
<1>2. \A p \in Page : p \in Nat
  BY Constants
<1>3. \A p \in Page : p \in P <=> p \in all /\ (t = "ram" => p # 1)
  BY <1>2 DEF Gives, InRun, Hole
<1>4. ASSUME NEW r, NEW S, Grows(m, r, t, S), Page \cap S = Page \cap P
      PROVE  Grows(m, r, t, P)
  <2>1. \A p \in Page : p \in S <=> p \in P
    BY <1>4
  <2> HIDE DEF t, P
  <2> QED BY <1>4, <2>1 DEF Grows
<1>5. CASE t # "ram" \/ ~(d.start < Base /\ end > Hole)
  <2>1. AddRun(m, d) = add_memory_region(m, d.start, d.num, t)
    BY <1>5 DEF AddRun, AddRam
  <2>2. Page \cap all = Page \cap P
    BY <1>2, <1>3, <1>5 DEF Base, Hole
  <2> HIDE DEF t, P
  <2>3. Grows(m, add_memory_region(m, d.start, d.num, t), t, all)
    BY <1>1, RegionAdded
  <2> HIDE DEF all
  <2>4. Grows(m, AddRun(m, d), t, all)
    BY <2>1, <2>3
  <2>5. Grows(m, AddRun(m, d), t, P)
    BY <1>4, <2>2, <2>4
  <2> QED BY <2>5 DEF t, P
<1>6. CASE t = "ram" /\ d.start < Base /\ end > Hole
  <2> DEFINE under == {p \in Page : p < 1 /\ d.start <= p}
             over == Base .. end - 1
  <2>1. Grows(m, low, "ram", under)
    <3>1. CASE d.start < Hole
      <4>1. low = add_memory_region(m, d.start, 1 - d.start, "ram") /\ 1 - d.start \in Nat
        BY <3>1 DEF Hole
      <4>2. Grows(m, low, "ram", d.start .. d.start + (1 - d.start) - 1)
        BY <4>1, RegionAdded DEF E820Types
      <4> DEFINE S == d.start .. d.start + (1 - d.start) - 1
      <4>3. \A p \in Page : p \in S <=> p \in under
        BY <1>2, <3>1 DEF Hole
      <4> HIDE DEF S, under, low
      <4> QED BY <4>2, <4>3 DEF Grows, S
    <3>2. CASE ~(d.start < Hole)
      <4>1. low = m
        BY <3>2
      <4>2. \A p \in Page : p \notin under
        BY <1>2, <3>2 DEF Hole
      <4>3. Len(m) \in Nat
        OBVIOUS
      <4> HIDE DEF under, low
      <4> QED BY <4>1, <4>2, <4>3 DEF Grows
    <3> QED BY <3>1, <3>2
  <2>2. CASE end <= Base
    <3>1. AddRun(m, d) = low
      BY <1>6, <2>2 DEF AddRun, AddRam
    <3>2. Page \cap under = Page \cap P
      BY <1>2, <1>3, <1>6, <2>2 DEF Base, Hole
    <3>3. Grows(m, AddRun(m, d), t, under)
      BY <1>6, <2>1, <3>1
    <3> HIDE DEF under, P, t
    <3>4. Grows(m, AddRun(m, d), t, P)
      BY <1>4, <3>2, <3>3
    <3> QED BY <3>4 DEF P, t
  <2>3. CASE ~(end <= Base)
    <3>1. AddRun(m, d) = add_memory_region(low, Base, end - Base, "ram")
      BY <1>6, <2>3 DEF AddRun, AddRam
    <3>2. end - Base \in Nat /\ Base \in Nat /\ low \in Seq(Region) /\ "ram" \in E820Types
      BY <2>1, <2>3 DEF Base, Grows, E820Types
    <3>3. Base + (end - Base) - 1 = end - 1
      BY DEF Base
    <3>4. Page \cap (under \cup over) = Page \cap P
      BY <1>2, <1>3, <1>6, <2>3 DEF Base, Hole
    <3> HIDE DEF low, end
    <3>5. Grows(low, AddRun(m, d), "ram", over)
      <4>1. Grows(low, add_memory_region(low, Base, end - Base, "ram"), "ram", Base .. Base + (end - Base) - 1)
        BY <3>2, RegionAdded
      <4> QED BY <3>1, <3>3, <4>1
    <3> HIDE DEF under, over, P, t
    <3>6. Grows(m, AddRun(m, d), "ram", under \cup over)
      BY <2>1, <3>2, <3>5, GrowsTwice
    <3>7. Grows(m, AddRun(m, d), t, P)
      BY <1>4, <1>6, <3>4, <3>6
    <3> QED BY <3>7 DEF P, t
  <2> QED BY <2>2, <2>3
<1> QED BY <1>5, <1>6

LEMMA E820Fold ==
  ASSUME NEW e
  PROVE  \E h : /\ h[0] = <<>> /\ e820_map_from_efi_map(e) = h[Len(Descriptors(e))]
                /\ \A i \in 1 .. Len(Descriptors(e)) : h[i] = AddRun(h[i - 1], Descriptors(e)[i])
<1> DEFINE seq == Descriptors(e)
           N == Len(seq)
           G(g) == [s \in SUBSET (DOMAIN seq) |->
                      IF s = {} THEN <<>> ELSE LET x == Max(s) IN AddRun(g[s \ {x}], seq[x])]
           it == CHOOSE g : g = G(g)
           V == Seq(Region)
           F == [z \in V \X (1 .. N) |-> AddRun(z[1], seq[z[2]])]
           h == [k \in 0 .. N |-> it[1 .. k]]
<1>1. e820_map_from_efi_map(e) = it[DOMAIN seq]
  BY DEF e820_map_from_efi_map, FoldLeft, MapThenFoldSet, AddRun
<1>2. DOMAIN seq = 1 .. N /\ N \in Nat /\ \A x \in 1 .. N : seq[x].start \in Nat /\ seq[x].num \in Nat
  <2>1. seq \in Seq(Run(FirmwareType(e)))
    BY DescriptorsTrue DEF Described
  <2> HIDE DEF seq
  <2>2. \A x \in 1 .. N : seq[x] \in Run(FirmwareType(e))
    BY <2>1
  <2> QED BY <2>1, <2>2 DEF Run
<1> HIDE DEF seq, N
<1>3. \E g : g = G(g)
  <2> DEFINE b == <<>>
  <2>1. b \in V
    OBVIOUS
  <2>2. \A v \in V, x \in 1 .. N : AddRun(v, seq[x]) \in V
    BY <1>2, RunAdded DEF Grows
  <2> HIDE DEF V
  <2>3. F \in [V \X (1 .. N) -> V] /\ \A v \in V, x \in 1 .. N : F[<<v, x>>] = AddRun(v, seq[x])
    BY <2>2
  <2> HIDE DEF F, b
  <2>4. PICK g : IsFold(g, V, b, N, F)
    BY <1>2, <2>1, <2>3, FoldExists
  <2>5. ASSUME NEW s \in SUBSET (1 .. N), s # {}
        PROVE  g[s] = AddRun(g[s \ {Max(s)}], seq[Max(s)])
    <3>1. Max(s) \in 1 .. N
      BY <1>2, <2>5, MaxInside
    <3>2. g[s \ {Max(s)}] \in V
      BY <2>4 DEF IsFold
    <3> QED BY <2>3, <2>4, <2>5, <3>1, <3>2 DEF IsFold
  <2>6. g = [s \in SUBSET (1 .. N) |-> g[s]] /\ g[{}] = <<>>
    BY <2>4 DEF IsFold, b
  <2>7. g = G(g)
    BY <1>2, <2>5, <2>6
  <2> QED BY <2>7
<1>4. it = G(it)
  BY <1>3
<1> HIDE DEF it
<1>5. \A s \in SUBSET (1 .. N) : it[s] = IF s = {} THEN <<>> ELSE AddRun(it[s \ {Max(s)}], seq[Max(s)])
  BY <1>2, <1>4
<1> HIDE DEF G
<1>6. h[0] = <<>>
  <2>1. 1 .. 0 = {} /\ {} \in SUBSET (1 .. N)
    OBVIOUS
  <2>2. it[1 .. 0] = <<>>
    BY <1>5, <2>1
  <2> QED BY <1>2, <2>2
<1>7. ASSUME NEW i \in 1 .. N
      PROVE  h[i] = AddRun(h[i - 1], seq[i])
  <2>1. i - 1 \in Nat /\ i - 1 + 1 = i
    BY <1>2
  <2>2. (1 .. i) \ {i} = 1 .. i - 1 /\ Max(1 .. i) = i /\ 1 .. i # {}
    BY <2>1, MaxUpTo
  <2>3. 1 .. i \in SUBSET (1 .. N)
    BY <1>2
  <2>4. it[1 .. i] = AddRun(it[1 .. i - 1], seq[i])
    BY <1>5, <2>2, <2>3
  <2>5. h[i] = it[1 .. i] /\ h[i - 1] = it[1 .. i - 1]
    BY <1>2
  <2> HIDE DEF h
  <2> QED BY <2>4, <2>5
<1>8. h[N] = it[1 .. N]
  BY <1>2
<1> HIDE DEF h
<1>9. /\ h[0] = <<>> /\ e820_map_from_efi_map(e) = h[N]
      /\ \A i \in 1 .. N : h[i] = AddRun(h[i - 1], seq[i])
  BY <1>1, <1>2, <1>6, <1>7, <1>8
<1> QED BY <1>9 DEF N, seq

(* The map m of the first k descriptors: it says nothing but what they     *)
(* give, and all of it unless it is full.                                  *)
SaysGiven(m, ds, k) ==
  \A u \in E820Types, p \in Page : Says(m, u, p) => \E j \in 1 .. k : Gives(ds[j], u, p)
GivenSaid(m, ds, k) ==
  Len(m) < E820Max => \A u \in E820Types, p \in Page, j \in 1 .. k : Gives(ds[j], u, p) => Says(m, u, p)
Filled(m, ds, k) == m \in Seq(Region) /\ SaysGiven(m, ds, k) /\ GivenSaid(m, ds, k)

LEMMA FilledStep ==
  ASSUME NEW ds, NEW k \in Nat, NEW m, Filled(m, ds, k), ds[k + 1].start \in Nat, ds[k + 1].num \in Nat
  PROVE  Filled(AddRun(m, ds[k + 1]), ds, k + 1)
<1> DEFINE d == ds[k + 1]
           r == AddRun(m, d)
           t == E820Type(d.type)
           P == {p \in Page : Gives(d, t, p)}
<1>1. m \in Seq(Region)
  BY DEF Filled
<1>2. Grows(m, r, t, P)
  <2>1. d.start \in Nat /\ d.num \in Nat
    OBVIOUS
  <2> HIDE DEF d
  <2> QED BY <1>1, <2>1, RunAdded
<1>3. \A u, p : Gives(d, u, p) => u = t
  BY DEF Gives
<1>4. \A p \in Page : p \in P <=> Gives(d, t, p)
  OBVIOUS
<1>5. (\A j \in 1 .. k : j \in 1 .. k + 1) /\ k + 1 \in 1 .. k + 1 /\ \A j \in 1 .. k + 1 : j \in 1 .. k \/ j = k + 1
  OBVIOUS
<1> HIDE DEF r, t, P
<1>6. SaysGiven(r, ds, k + 1)
  <2> SUFFICES ASSUME NEW u \in E820Types, NEW p \in Page, Says(r, u, p)
               PROVE  \E j \in 1 .. k + 1 : Gives(ds[j], u, p)
    BY DEF SaysGiven
  <2>1. CASE Says(m, u, p)
    BY <1>5, <2>1 DEF Filled, SaysGiven
  <2>2. CASE u = t /\ p \in P
    BY <1>4, <1>5, <2>2
  <2> QED BY <1>2, <2>1, <2>2 DEF Grows
<1>7. GivenSaid(r, ds, k + 1)
  <2> SUFFICES ASSUME Len(r) < E820Max, NEW u \in E820Types, NEW p \in Page, NEW j \in 1 .. k + 1, Gives(ds[j], u, p)
               PROVE  Says(r, u, p)
    BY DEF GivenSaid
  <2>1. CASE j \in 1 .. k
    <3>1. Len(m) < E820Max
      <4>1. Len(m) \in Nat /\ Len(r) \in Nat /\ Len(m) <= Len(r) /\ E820Max \in Nat
        BY <1>1, <1>2, EfiAssumption DEF Grows
      <4> QED BY <4>1
    <3>2. Says(m, u, p)
      BY <2>1, <3>1 DEF Filled, GivenSaid
    <3> QED BY <1>2, <3>2 DEF Grows
  <2>2. CASE j = k + 1
    <3>1. u = t /\ Gives(d, t, p)
      BY <1>3, <2>2
    <3>2. p \in Page \cap P
      BY <1>4, <3>1
    <3> QED BY <1>2, <3>1, <3>2 DEF Grows
  <2> QED BY <1>5, <2>1, <2>2
<1> QED BY <1>2, <1>6, <1>7 DEF Filled, Grows, r

LEMMA E820Filled ==
  ASSUME NEW e
  PROVE  Filled(e820_map_from_efi_map(e), Descriptors(e), Len(Descriptors(e)))
<1> DEFINE ds == Descriptors(e)
           N == Len(ds)
<1>1. PICK h : /\ h[0] = <<>> /\ e820_map_from_efi_map(e) = h[N]
               /\ \A i \in 1 .. N : h[i] = AddRun(h[i - 1], ds[i])
  BY E820Fold
<1>2. N \in Nat /\ \A x \in 1 .. N : ds[x].start \in Nat /\ ds[x].num \in Nat
  <2>1. ds \in Seq(Run(FirmwareType(e)))
    BY DescriptorsTrue DEF Described
  <2> HIDE DEF ds
  <2>2. \A x \in 1 .. N : ds[x] \in Run(FirmwareType(e))
    BY <2>1
  <2> QED BY <2>1, <2>2 DEF Run
<1> HIDE DEF ds, N
<1> DEFINE S == {k \in Nat : k <= N => Filled(h[k], ds, k)}
<1>3. 0 \in S
  <2>1. SaysGiven(<<>>, ds, 0)
    BY DEF SaysGiven, Says
  <2>2. GivenSaid(<<>>, ds, 0)
    BY DEF GivenSaid
  <2>3. Filled(<<>>, ds, 0)
    BY <2>1, <2>2 DEF Filled
  <2> QED BY <1>1, <2>3
<1>4. ASSUME NEW n \in Nat, n \in S
      PROVE  n + 1 \in S
  <2> SUFFICES ASSUME n + 1 <= N PROVE Filled(h[n + 1], ds, n + 1)
    OBVIOUS
  <2>1. n + 1 \in 1 .. N /\ n + 1 - 1 = n
    BY <1>2
  <2>2. Filled(h[n], ds, n)
    BY <1>2, <1>4
  <2>3. h[n + 1] = AddRun(h[n], ds[n + 1])
    BY <1>1, <2>1
  <2>4. ds[n + 1].start \in Nat /\ ds[n + 1].num \in Nat
    BY <1>2, <2>1
  <2>5. Filled(AddRun(h[n], ds[n + 1]), ds, n + 1)
    BY <2>2, <2>4, FilledStep
  <2> QED BY <2>3, <2>5
<1> HIDE DEF S
<1>5. Nat \subseteq S
  BY <1>3, <1>4, Naturals
<1>6. N \in S
  BY <1>2, <1>5
<1>7. Filled(h[N], ds, N)
  BY <1>2, <1>6 DEF S
<1> QED BY <1>1, <1>7 DEF ds, N

(* The map says what the firmware knows of each page.                      *)
Known(e, u, p) == e.type[p] # "none" /\ E820Type(e.type[p]) = u /\ (u = "ram" => p # Hole)

LEMMA MapKnows ==
  ASSUME NEW e, NEW u \in E820Types, NEW p \in Page
  PROVE  /\ Says(e820_map_from_efi_map(e), u, p) => Known(e, u, p)
         /\ Len(e820_map_from_efi_map(e)) < E820Max /\ Known(e, u, p) => Says(e820_map_from_efi_map(e), u, p)
<1> DEFINE m == e820_map_from_efi_map(e)
           ds == Descriptors(e)
           N == Len(ds)
<1>1. Filled(m, ds, N) /\ Described(e, ds, Top)
  BY E820Filled, DescriptorsTrue
<1> HIDE DEF m, ds
<1>2. \A j \in 1 .. N : Gives(ds[j], u, p) => Known(e, u, p)
  BY <1>1 DEF Described, RunsTrue, Gives, Known
<1>3. Known(e, u, p) => \E j \in 1 .. N : Gives(ds[j], u, p)
  <2> SUFFICES ASSUME Known(e, u, p) PROVE \E j \in 1 .. N : Gives(ds[j], u, p)
    OBVIOUS
  <2>1. p \in 0 .. Top - 1 /\ e.type[p] # "none"
    BY Constants DEF Known
  <2>2. PICK j \in 1 .. N : InRun(ds[j], p)
    BY <1>1, <2>1 DEF Described, RunsAll
  <2>3. ds[j].type = e.type[p]
    BY <1>1, <2>2 DEF Described, RunsTrue
  <2> QED BY <2>2, <2>3 DEF Gives, Known
<1>4. Says(m, u, p) => Known(e, u, p)
  BY <1>1, <1>2 DEF Filled, SaysGiven
<1>5. Len(m) < E820Max /\ Known(e, u, p) => Says(m, u, p)
  BY <1>1, <1>3 DEF Filled, GivenSaid
<1> QED BY <1>4, <1>5 DEF m

-----------------------------------------------------------------------------
(* What a kernel is told when it is started.                               *)

Told == kernel_type = "biglinux" /\ efi /\ started[1] # NoImage => e820 = e820_map_from_efi_map(st.e)

LEMMA ToldIsTrue == Told => MapIsFirmwares
<1> SUFFICES ASSUME kernel_type = "biglinux", efi, started[1] # NoImage, e820 = e820_map_from_efi_map(st.e)
             PROVE  MapIsFirmwares
  BY DEF Told, MapIsFirmwares
<1> DEFINE m == e820
           In(t) == UNION {Span(m[i].start, m[i].num) : i \in {j \in DOMAIN m : m[j].type = t}}
           Is(t) == {p \in Page : st.e.type[p] # "none" /\ E820Type(st.e.type[p]) = t /\ (t = "ram" => p # Hole)}
<1>1. m \in Seq(Region)
  BY E820Filled DEF Filled
<1>2. \A i \in DOMAIN m : m[i].start \in Nat /\ m[i].num \in Nat
  <2>1. \A i \in DOMAIN m : m[i] \in Region
    BY <1>1
  <2> QED BY <2>1 DEF Region, Run
<1>3. DOMAIN m = 1 .. Len(m)
  BY <1>1
<1>4. \A i \in DOMAIN m : Span(m[i].start, m[i].num) = {p \in Page : InRun(m[i], p)}
  <2> TAKE i \in DOMAIN m
  <2> DEFINE a == m[i].start
             b == m[i].num
  <2>1. a \in Nat /\ b \in Nat
    BY <1>2
  <2> HIDE DEF a, b
  <2>2. \A p : p \in Span(a, b) <=> p \in Page /\ a <= p /\ p < a + b
    BY <2>1, Constants DEF Span, Least
  <2> QED BY <2>2 DEF InRun, a, b
<1>5. \A t : In(t) = {p \in Page : Says(m, t, p)}
  <2> TAKE t
  <2>1. ASSUME NEW p \in In(t) PROVE p \in Page /\ Says(m, t, p)
    <3>1. PICK i \in DOMAIN m : m[i].type = t /\ p \in Span(m[i].start, m[i].num)
      BY <2>1
    <3> QED BY <1>3, <1>4, <3>1 DEF Says
  <2>2. ASSUME NEW p \in Page, Says(m, t, p) PROVE p \in In(t)
    <3>1. PICK i \in DOMAIN m : m[i].type = t /\ InRun(m[i], p)
      BY <1>3, <2>2 DEF Says
    <3>2. p \in Span(m[i].start, m[i].num)
      BY <1>4, <3>1
    <3> QED BY <3>1, <3>2
  <2> HIDE DEF In
  <2> QED BY <2>1, <2>2
<1>6. \A t : Is(t) = {p \in Page : Known(st.e, t, p)}
  BY DEF Known
<1>7. /\ In("ram") \subseteq Is("ram")
      /\ Len(e820) < E820Max => \A t \in {"ram", "reserved", "acpi", "nvs"} : In(t) = Is(t)
  <2> HIDE DEF In, Is
  <2>1. \A t \in E820Types, p \in Page : /\ Says(e820, t, p) => Known(st.e, t, p)
                                         /\ Len(e820) < E820Max /\ Known(st.e, t, p) => Says(e820, t, p)
    BY MapKnows
  <2>2. "ram" \in E820Types /\ E820Types = {"ram", "reserved", "acpi", "nvs"}
    BY DEF E820Types
  <2>3. In("ram") \subseteq Is("ram")
    BY <1>5, <1>6, <2>1, <2>2
  <2>4. ASSUME Len(e820) < E820Max, NEW t \in E820Types PROVE In(t) = Is(t)
    <3>1. \A p \in Page : Says(m, t, p) <=> Known(st.e, t, p)
      BY <2>1, <2>4
    <3> QED BY <1>5, <1>6, <3>1
  <2> QED BY <2>2, <2>3, <2>4
<1> QED BY <1>7 DEF MapIsFirmwares

LEMMA ToldAtBoot ==
  ASSUME NEW s, Tidy(s), NEW k, NEW grown, NEW moved,
         NEW r, r \in {big_linux_boot(s, k, grown, moved), big_linux_boot_64(s, k, grown, moved)}, r.go
  PROVE  r.e820 = e820_map_from_efi_map(r.s.e)
<1> DEFINE g == GetMap(s, grown)
           go == g.ok /\ grub_efi_exit_boot_services(moved)
           map == e820_map_from_efi_map(g.s.e)
           down == Fill(g.s.mem, Base, Text(k), LAMBDA j : IF s.prot + j < Top THEN g.s.mem[s.prot + j] ELSE Junk)
           moved_down == [g.s EXCEPT !.mem = down]
<1>1. \/ r = IF go THEN [s |-> g.s, go |-> TRUE, e820 |-> map] ELSE [s |-> Err(g.s), go |-> FALSE, e820 |-> <<>>]
      \/ r = IF go THEN [s |-> moved_down, go |-> TRUE, e820 |-> map] ELSE [s |-> Fatal(g.s), go |-> FALSE, e820 |-> <<>>]
  BY DEF big_linux_boot, big_linux_boot_64, Leave, Stay, Then
<1>2. DOMAIN g.s = Fields
  <2>1. Tidy(g.s)
    BY TidyMap
  <2> HIDE DEF g
  <2> QED BY <2>1 DEF Tidy, Shape
<1> HIDE DEF g, go, down
<1>3. moved_down.e = g.s.e
  BY <1>2 DEF Fields
<1> HIDE DEF moved_down
<1>4. r.e820 = map /\ r.s.e = g.s.e
  BY <1>1, <1>3
<1> QED BY <1>4

LEMMA ToldStep ==
  ASSUME PagesInv, Told, [Next]_vars
  PROVE  Told'
<1>1. CASE UNCHANGED vars
  BY <1>1 DEF vars, Told, efi
<1>2. CASE Next
  <2>1. Prompt /\ UNCHANGED build
    BY <1>2 DEF Next, Kernel, Module, Initrd, Chainloader, Map, Uppermem, Start, Exit, Impsprobe, Command, Prompt
  <2>2. started[1] = NoImage /\ Tidy(st) /\ Builds /\ efi' = efi
    BY <2>1 DEF Prompt, PagesInv, efi
  <2>3. CASE ~Start
    <3>1. started' = started
      <4>1. Kernel => started' = started
        BY DEF Kernel, kernel_func
      <4>2. Module => started' = started
        BY DEF Module
      <4>3. Initrd => started' = started
        BY DEF Initrd
      <4>4. Chainloader => started' = started
        BY DEF Chainloader, chainloader_func
      <4>5. Map \/ Uppermem \/ Exit \/ Impsprobe => started' = started
        BY DEF Map, Uppermem, Exit, Impsprobe
      <4> QED BY <1>2, <2>3, <4>1, <4>2, <4>3, <4>4, <4>5 DEF Next
    <3> QED BY <2>2, <3>1 DEF Told
  <2>4. CASE Start
    <3>1. PICK grown, moved : boot_func(grown, moved)
      BY <2>4 DEF Start
    <3>2. kernel_type' = kernel_type
      BY <3>1 DEF boot_func
    <3>3. SUFFICES ASSUME kernel_type = "biglinux", efi, started'[1] # NoImage
                   PROVE  e820' = e820_map_from_efi_map(st'.e)
      BY <2>2, <3>2 DEF Told
    <3>4. boot_efi(grown, moved)
      BY <3>1, <3>3 DEF boot_func
    <3>5. build \in {"ia32", "x86_64"}
      BY <2>2, <3>3 DEF Builds, efi
    <3>6. PICK r : /\ r = CASE kernel_type = "biglinux" /\ build = "ia32" -> big_linux_boot(st, kern, grown, moved)
                             [] kernel_type = "biglinux" /\ build = "x86_64" -> big_linux_boot_64(st, kern, grown, moved)
                             [] OTHER -> multi_boot(st, grown, moved)
                   /\ st' = r.s
                   /\ started' = IF r.go THEN <<Found(r.s, kernel_type, kern, Base), ModsFound(r.s, kernel_type, mll, ramdisk)>>
                                 ELSE started
                   /\ e820' = r.e820
      BY <3>4 DEF boot_efi
    <3>7. r.go
      BY <2>2, <3>3, <3>6
    <3>8. r \in {big_linux_boot(st, kern, grown, moved), big_linux_boot_64(st, kern, grown, moved)}
      BY <3>3, <3>5, <3>6
    <3>9. r.e820 = e820_map_from_efi_map(r.s.e)
      BY <2>2, <3>7, <3>8, ToldAtBoot
    <3> QED BY <3>6, <3>9
  <2> QED BY <2>3, <2>4
<1> QED BY <1>1, <1>2

(* What GRUB says of the machine's memory is what the firmware knows of    *)
(* it, for every map of the firmware's, every size of the tables and on    *)
(* all builds: the e820 map that a Linux kernel is given names no page as  *)
(* anything but what the firmware's map says, leaves the hole below 1 MB   *)
(* out of the RAM, and misses no page unless it is full                    *)
(* (e820_map_from_efi_map); and efimm.c's table accounts for the pages     *)
(* that GRUB has.                                                          *)
THEOREM MemoryIsAccounted == Spec => []MemoryAccounted
<1>1. Init => PagesInv /\ Told
  <2>1. Init => Told
    BY DEF Init, Told
  <2> QED BY <2>1, PagesInit
<1>2. PagesInv /\ Told /\ [Next]_vars => PagesInv' /\ Told'
  BY PagesStep, ToldStep
<1>3. PagesInv /\ Told => MemoryAccounted
  BY PagesAreAccounted, ToldIsTrue DEF MemoryAccounted
<1> QED BY <1>1, <1>2, <1>3, PTL DEF Spec

=============================================================================
