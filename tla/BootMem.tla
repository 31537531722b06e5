------------------------------ MODULE BootMem ------------------------------
(***************************************************************************)
(* Memory and the images that are loaded into it, and how GRUB gets pages  *)
(* from the firmware of an EFI machine.  Memory is counted in              *)
(* pages: page 0 is the memory below 640 KB, page 1 the hole up to 1 MB,   *)
(* page Base the first one behind it.  Every page of a file is told apart, *)
(* so that a page that is overwritten is seen to be.                       *)
(***************************************************************************)
EXTENDS Integers, Sequences, FiniteSets, SequencesExt

CONSTANTS Top,      \* pages of the machine
          Images,   \* what `kernel' and `chainloader' may be given
          Modules,  \* what `module' and `initrd' may be given
          Ram,      \* the memory map of the firmware: runs [start, num, type], in order
          InitrdMax \* pages that a RAM disk may reach up to: initrd_addr_max, LINUX_INITRD_MAX_ADDRESS

\* An image has a name, the headers that the loaders look for, and segments
\* [at, file, mem]: pages in memory and how many of them the file holds.  A file may
\* be cut: it has only the first `whole' of its segments and, behind them, its symbols.
ASSUME MemAssumption ==
  /\ Top \in Nat /\ Top > 2
  /\ \A k \in Images : /\ k.sane \in BOOLEAN /\ k.mb \in {"none", "ok", "unsupported"}
                       /\ k.aout \in {"none", "freebsd", "netbsd"}
                       /\ k.linux \in {"none", "zImage", "bzImage", "old"}
                       /\ 1 \in DOMAIN k.segs /\ k.whole \in 0 .. Len(k.segs) + 1
                       /\ \A i \in DOMAIN k.segs : {k.segs[i].at, k.segs[i].file} \subseteq Nat
                       /\ \A i \in DOMAIN k.segs : k.segs[i].file <= k.segs[i].mem
  /\ \A m \in Modules : m.len \in Nat \ {0}

Page == 0 .. Top - 1
Hole == 1
Base == 2
Null == Top        \* no address
Junk == <<"junk">>
Zero == <<"zero">>

\* The rest of a function, given what the call before it has returned.
Then(result, Rest(_)) == Rest(result)

Least(a, b) == IF a < b THEN a ELSE b

\* Where a RAM disk has to end when mem= is given (limit), or is not (0).
AddrMax(limit) == IF limit = 0 THEN InitrdMax ELSE Least(limit, InitrdMax)

Span(at, n) == at .. Least(at + n, Top) - 1

\* Pages that are written: n pages at `at', page i of them being What(i).
Fill(mem, at, n, What(_)) == [p \in Page |-> IF p \in Span(at, n) THEN What(p - at) ELSE mem[p]]

Holds(mem, at, n, What(_)) == at + n <= Top /\ \A i \in 0 .. n - 1 : mem[at + i] = What(i)

\* Where segment i of image k is asked to be, what its pages are once loaded.
Segment(k, i) == LET s == k.segs[i] IN
                 [at |-> s.at, num |-> s.mem,
                  page |-> [j \in 0 .. s.mem - 1 |-> IF j < s.file THEN <<k.name, i, j>> ELSE Zero]]
Loaded(mem, k) == \A i \in DOMAIN k.segs :
                    LET s == Segment(k, i) IN Holds(mem, s.at, s.num, LAMBDA j : s.page[j])

\* The loop over the segments of an ELF file breaks at the first that is not Got; no
\* error comes of a file that ends.  cur_addr is the end of the first n segments.
Read(k, i, fail) == i # fail /\ i <= k.whole
Tried(k, Got(_)) == Min({i \in DOMAIN k.segs : ~Got(i)} \cup {Len(k.segs)})
PutSegments(mem, k, n, Got(_)) ==
  FoldLeft(LAMBDA m, i : LET g == Segment(k, i) IN
             Fill(m, g.at, g.num, LAMBDA j : IF Got(i) THEN g.page[j] ELSE Junk),
           mem, [i \in 1 .. n |-> i])
End(k, n) == Max({0} \cup {k.segs[i].at + k.segs[i].mem : i \in 1 .. n})

\* Page j of a module, of a kernel's parameters and of its symbols.
ModPage(m, j) == <<m.name, j>>
ParamPage(k, j) == <<k.name, 0, j>>
SymsPage(k, j) == <<k.name, Len(k.segs) + 1, j>>
Total(ms) == FoldLeft(LAMBDA n, m : n + m.len, 0, ms)

\* Several files behind each other, as one RAM disk.
Joined(ms) == FoldLeft(LAMBDA s, m : s \o [j \in 1 .. m.len |-> ModPage(m, j - 1)], <<>>, ms)
----------------------------------------------------------------------------
(* stage2/common.c: what the memory map says about memory.                 *)

\* How far RAM goes from bottom without a gap; runs may touch, and be out of order.
Grow(t) == LET r == {i \in DOMAIN Ram : /\ Ram[i].type = "ram" /\ Ram[i].start <= t
                                        /\ Ram[i].start + Ram[i].num > t}
           IN IF r = {} THEN t ELSE LET i == CHOOSE x \in r : TRUE IN Ram[i].start + Ram[i].num
mmap_avail_at(bottom) == FoldLeft(LAMBDA t, i : Grow(t), bottom, [i \in DOMAIN Ram |-> i]) - bottom

init_bios_info == [mem_lower |-> mmap_avail_at(0), mem_upper |-> mmap_avail_at(Base)]

\* memcheck (char_io.c): the range is RAM that may be loaded into.  (Below 1 MB nothing
\* is asked for but address 0, which is refused.)
memcheck(upper, at, n) == at >= Base /\ at + n <= Base + upper

IsRam(p) == \E i \in DOMAIN Ram : Ram[i].type = "ram" /\ p \in Span(Ram[i].start, Ram[i].num)
----------------------------------------------------------------------------
(* efi/efimm.c: the pages GRUB has from the firmware, the buffer for the   *)
(* firmware's memory map, and the map that a kernel is given instead.      *)
(*                                                                         *)
(* e is the state: e.type is the firmware's map by page, e.table GRUB's    *)
(* own list of its allocations, e.buf and e.pages mmap_buf and mmap_pages. *)
(* e.amiss are the pages of which list and map may disagree (it stands for *)
(* nothing in the code): a full list does not name them, or they were not  *)
(* given back as they were taken.                                          *)
(* The firmware is external: it allocates from the top of memory, as the   *)
(* common ones do, or where it is told to.                                 *)

CONSTANTS EfiMap,    \* [Page -> type]: the firmware's map when GRUB starts
          MaxAlloc,  \* MAX_ALLOCATED_PAGES
          E820Max    \* E820_MAX

ASSUME EfiAssumption == /\ DOMAIN EfiMap = Page /\ MaxAlloc \in Nat /\ E820Max \in Nat
                        /\ \A p \in Page : EfiMap[p] \in {"conv", "boot", "runtime", "acpi", "nvs", "none"}

FreeAt(e, n) == {a \in Page : a + n <= Top /\ \A p \in Span(a, n) : e.type[p] = "conv"}

\* AllocatePages: any address when `at' is Null.
AllocatePages(e, at, n) ==
  LET fit == IF at = Null THEN FreeAt(e, n) ELSE FreeAt(e, n) \cap {at} IN
  IF fit = {} THEN Null ELSE CHOOSE a \in fit : \A b \in fit : b <= a
Mark(e, at, n, t) == [e EXCEPT !.type = [p \in Page |-> IF p \in Span(at, n) THEN t ELSE @[p]]]

\* The pages are GRUB's also when there is no room left in the table to note them:
\* nobody gives such pages back.
grub_efi_allocate_pages_real(e, at, n) ==
  Then(AllocatePages(e, at, n), LAMBDA a :
    IF a = Null THEN [e |-> e, at |-> Null]
    ELSE IF Cardinality(e.table) >= MaxAlloc
         THEN [e |-> [Mark(e, a, n, "loader") EXCEPT !.amiss = @ \cup Span(a, n)], at |-> Null]
    ELSE [e |-> [Mark(e, a, n, "loader") EXCEPT !.table = @ \cup {[addr |-> a, num |-> n]}], at |-> a])
grub_efi_allocate_pages(e, at, n) == grub_efi_allocate_pages_real(e, at, n)
grub_efi_allocate_anypages(e, n) == grub_efi_allocate_pages_real(e, Null, n)

\* As if the table kept what is given back.
KeepEntry(e, at, n) == Mark(e, at, n, "conv")

grub_efi_free_pages(e, at, n) ==
  [Mark(e, at, n, "conv") EXCEPT !.table = {t \in @ : t.addr # at}]

\* Pages that may be given back under another length than they were taken with.
free_some_pages(e, at, n) ==
  LET met   == {t \in e.table : Span(t.addr, t.num) \cap Span(at, n) # {}}
      wrong == IF met = {[addr |-> at, num |-> n]} THEN {}
               ELSE Span(at, n) \cup UNION {Span(t.addr, t.num) : t \in met}
  IN [grub_efi_free_pages(e, at, n) EXCEPT !.amiss = @ \cup wrong]

\* GetMemoryMap wants a buffer that is large enough; grown says that the map
\* has become larger than it.  A buffer that was freed and not forgotten is
\* refused.  Result: state, memory with the map in the buffer, and whether
\* there is a map.
grub_efi_get_memory_map(e, mem, grown) ==
  LET again == e.pages = 0 \/ (grown /\ e.buf # Null)
      freed == IF e.buf # Null THEN grub_efi_free_pages(e, e.buf, e.pages) ELSE e
      Into(r) == IF r.at = Null
                 THEN [e |-> [r.e EXCEPT !.buf = Null, !.pages = 0], mem |-> mem, ok |-> FALSE]
                 ELSE [e |-> [r.e EXCEPT !.buf = r.at, !.pages = 1],
                       mem |-> Fill(mem, r.at, 1, LAMBDA i : <<"map">>), ok |-> TRUE]
  IN IF ~again
     THEN IF e.buf = Null THEN [e |-> e, mem |-> mem, ok |-> FALSE]
          ELSE [e |-> e, mem |-> Fill(mem, e.buf, 1, LAMBDA i : <<"map">>), ok |-> TRUE]
     ELSE Into(grub_efi_allocate_pages(freed, Null, 1))

grub_efi_mm_fini(e) ==
  LET mine == UNION {Span(t.addr, t.num) : t \in e.table} IN
  [e EXCEPT !.type = [p \in Page |-> IF p \in mine THEN "conv" ELSE @[p]], !.table = {}]

\* ExitBootServices takes only the key of the map as it is now: not if it has moved on.
grub_efi_exit_boot_services(moved) == ~moved

grub_efi_mm_init == [type |-> EfiMap, table |-> {}, amiss |-> {}, buf |-> Null, pages |-> 0]
----------------------------------------------------------------------------
(* The descriptors of the firmware's map, and the e820 map made of them.   *)

Descriptors(e) ==
  FoldLeft(LAMBDA q, p : LET n == Len(q) IN
             CASE e.type[p] = "none" -> q
               [] e.type[p] # "none" /\ n > 0 /\ q[n].type = e.type[p] /\ q[n].start + q[n].num = p
                    -> [q EXCEPT ![n].num = @ + 1]
               [] OTHER -> Append(q, [start |-> p, num |-> 1, type |-> e.type[p]]),
           <<>>, [i \in 1 .. Top |-> i - 1])

E820Type(t) == CASE t = "acpi" -> "acpi" [] t = "nvs" -> "nvs" [] t = "runtime" -> "reserved" [] OTHER -> "ram"

\* A run behind the last one of its type makes that longer; a full table takes no more.
add_memory_region(m, start, num, type) ==
  LET n == Len(m) IN
  CASE n > 0 /\ m[n].type = type /\ m[n].start + m[n].num = start -> [m EXCEPT ![n].num = @ + num]
    [] ~(n > 0 /\ m[n].type = type /\ m[n].start + m[n].num = start) /\ n < E820Max
         -> Append(m, [start |-> start, num |-> num, type |-> type])
    [] OTHER -> m

\* The hole below 1 MB is left out of what is given as RAM.
AddRam(m, d) ==
  LET end == d.start + d.num
      low == IF d.start < Hole THEN add_memory_region(m, d.start, Hole - d.start, "ram") ELSE m
  IN CASE ~(d.start < Base /\ end > Hole) -> add_memory_region(m, d.start, d.num, "ram")
       [] d.start < Base /\ end > Hole /\ end <= Base -> low
       [] OTHER -> add_memory_region(low, Base, end - Base, "ram")
e820_map_from_efi_map(e) ==
  FoldLeft(LAMBDA m, d : IF E820Type(d.type) = "ram" THEN AddRam(m, d)
                         ELSE add_memory_region(m, d.start, d.num, E820Type(d.type)),
           <<>>, Descriptors(e))
=============================================================================
