------------------------------ MODULE BootBios ------------------------------
(***************************************************************************)
(* stage2/boot.c on a BIOS machine: which kind of kernel a file is, and    *)
(* where its parts, its modules and its RAM disk are put.                  *)
(*                                                                         *)
(* fail is the read that fails, counted from 1; 0 is none.  A loader       *)
(* returns memory, cur_addr (the end of what is loaded), the kind of       *)
(* kernel, and whether a command may call it a success.                    *)
(***************************************************************************)
EXTENDS BootMem

CONSTANTS ZImageRoom,  \* pages between LINUX_ZIMAGE_ADDR and the real-mode data
          SetupPages   \* LINUX_SETUP_MOVE_SIZE

\* The headers, in the order in which load_image looks for them.  A multiboot header is
\* looked for first: it makes an ELF or an a.out file a multiboot kernel, and is forgotten
\* when the file turns out to be Linux.
Kind(k, want) ==
  LET mb  == k.mb = "ok"
      elf == k.elf /\ (mb \/ k.brand \/ want = "netbsd")
  IN
  CASE k.mb = "unsupported" \/ ~k.sane -> [type |-> "none", via |-> "none"]
    [] elf -> [via |-> "elf", type |-> CASE mb -> "multiboot" [] ~mb /\ want = "netbsd" -> "netbsd" [] OTHER -> "freebsd"]
    [] ~elf /\ mb /\ k.kludge -> [type |-> "multiboot", via |-> "aout"]
    [] ~elf /\ ~(mb /\ k.kludge) /\ k.aout # "none" -> [type |-> IF mb THEN "multiboot" ELSE k.aout, via |-> "aout"]
    [] ~elf /\ ~(mb /\ k.kludge) /\ k.aout = "none" /\ k.linux # "none" ->
         [type |-> IF k.linux = "bzImage" THEN "biglinux" ELSE "linux", via |-> "linux"]
    [] OTHER -> [type |-> "none", via |-> "none"]

\* An a.out file with a multiboot header that has no addresses: nothing sets cur_addr.
Unplaced(k) == k.mb = "ok" /\ ~k.elf /\ ~k.kludge /\ k.aout # "none"

\* The symbols behind a kernel that ends at `at'.  A file that is cut there has none, and
\* the load is a success; a device that fails, or memory that ends, is an error.
Symbols(mem, k, at, upper, fails) ==
  LET fits  == memcheck(upper, at, k.syms)
      whole == ~fails /\ k.whole > Len(k.segs)
  IN IF k.syms = 0 THEN [mem |-> mem, have |-> TRUE, ok |-> TRUE]
     ELSE [mem |-> IF fits THEN Fill(mem, at, k.syms, LAMBDA j : IF whole THEN SymsPage(k, j) ELSE Junk) ELSE mem,
           have |-> fits /\ whole, ok |-> fits /\ ~fails]

\* Segments are put where the headers say; one that memory cannot hold is an error, one
\* that the file does not have all of only ends the loop.  The symbols come behind the
\* last, and when they are bad cur_addr is cleared.
elf(mem, k, upper, fail) ==
  LET Refused(i) == k.segs[i].at < Base \/ ~memcheck(upper, k.segs[i].at, k.segs[i].mem)
      Got(i) == ~Refused(i) /\ Read(k, i, fail)
      last   == Tried(k, Got)
      end    == End(k, last)
      put    == PutSegments(mem, k, IF Refused(last) THEN last - 1 ELSE last, Got)
      syms   == Symbols(put, k, end, upper, fail = Len(k.segs) + 1)
  IN IF Refused(last) \/ fail = last THEN [mem |-> put, cur |-> end, ok |-> FALSE]
     ELSE [mem |-> syms.mem, cur |-> IF syms.have THEN end + k.syms ELSE 0, ok |-> syms.ok]

\* Text, data behind it, and room that is cleared, from the load address, or else from
\* where cur_addr was left.  Here a file that is cut is an error.
aout(mem, cur, k, upper, fail) ==
  LET at   == IF Unplaced(k) THEN cur ELSE k.segs[1].at
      end  == at + k.segs[1].mem
      fits == memcheck(upper, at, k.segs[1].mem)
      got  == Read(k, 1, fail)
      put  == Fill(mem, at, k.segs[1].mem, LAMBDA j : IF got THEN Segment(k, 1).page[j] ELSE Junk)
      syms == Symbols(put, k, end, upper, fail = 2)
  IN CASE ~fits -> [mem |-> mem, cur |-> at, ok |-> FALSE]
       [] fits /\ ~got -> [mem |-> put, cur |-> at, ok |-> FALSE]
       [] OTHER -> [mem |-> syms.mem, cur |-> IF syms.have THEN end + k.syms ELSE end, ok |-> syms.ok]

\* Protected-mode code at 1 MB, the real-mode data behind it until `boot'
\* moves it down; cur_addr is behind the room that is kept for that data.
linux(mem, k, info, fail) ==
  LET text  == Segment(k, 1)
      setup == Segment(k, 2)
      fits  == (k.linux = "bzImage" \/ text.num <= ZImageRoom) /\ info.mem_lower >= SetupPages
      room  == memcheck(info.mem_upper, setup.at, setup.num) /\ memcheck(info.mem_upper, text.at, text.num)
      Put(m, part, ok) == Fill(m, part.at, part.num, LAMBDA j : IF ok THEN part.page[j] ELSE Junk)
      first == Put(mem, setup, fail # 1)
  IN CASE ~fits -> [mem |-> mem, cur |-> Null, ok |-> FALSE]
       [] fits /\ ~room -> [mem |-> mem, cur |-> setup.at + SetupPages, ok |-> FALSE]
       [] OTHER -> [mem |-> IF fail = 1 THEN first ELSE Put(first, text, fail # 2),
                    cur |-> setup.at + SetupPages, ok |-> fail \notin 1 .. 2]

\* The kind is compared with --type only when everything is in memory.
load_image(mem, cur, k, want, info, fail) ==
  LET kind == Kind(k, want)
      r    == CASE kind.via = "elf" -> elf(mem, k, info.mem_upper, fail)
                [] kind.via = "aout" -> aout(mem, cur, k, info.mem_upper, fail)
                [] kind.via = "linux" -> linux(mem, k, info, fail)
                [] OTHER -> [mem |-> mem, cur |-> cur, ok |-> FALSE]
      good == r.ok /\ want \in {"none", kind.type}
  IN [mem |-> r.mem, cur |-> IF r.cur = Null THEN cur ELSE r.cur,
      type |-> IF good THEN kind.type ELSE "none"]

\* As if cur_addr stayed where it was.
SamePlace(mem, cur, m, upper, fail) ==
  [mem |-> Fill(mem, cur, m.len, LAMBDA j : IF fail = 1 THEN Junk ELSE ModPage(m, j)), cur |-> cur, ok |-> fail # 1]

\* A module goes behind what is there; mll gets an entry when it was read.  On EFI
\* (upper is Null) nobody asks whether there is memory.
load_module(mem, cur, m, upper, fail) ==
  LET fits == upper = Null \/ memcheck(upper, cur, m.len)
      ok   == fits /\ fail # 1
  IN [mem |-> IF fits THEN Fill(mem, cur, m.len, LAMBDA j : IF ok THEN ModPage(m, j) ELSE Junk) ELSE mem,
      cur |-> IF ok THEN cur + m.len ELSE cur, ok |-> ok]

\* The files are read behind the kernel, one after the other, and moved to the top of
\* memory, or of what mem= allows (limit); what could be read is used even when a read has
\* failed, and its address is set even when it cannot be moved there.  Nothing compares
\* the place with cur_addr; apart says that kernel and RAM disk have not met, nor the
\* files the RAM disk that they do not replace (old), and stands for nothing in the code.
load_initrd(mem, cur, old, ms, upper, limit, fail) ==
  LET fails(i) == i = fail \/ ~memcheck(upper, cur, Total(SubSeq(ms, 1, i)))
      read   == FoldLeft(LAMBDA s, i : IF fails(i) THEN s ELSE Append(s, ms[i]), <<>>, [i \in DOMAIN ms |-> i])
      pages  == Joined(read)
      len    == Len(pages)
      end    == IF limit = 0 THEN Base + upper ELSE limit
      moveto == Least(end, InitrdMax) - len - 1
      tmp    == Fill(mem, cur, Total(ms), LAMBDA j : IF j < len THEN pages[j + 1] ELSE Junk)
      fits   == memcheck(upper, moveto, len)
      kept   == \A i \in DOMAIN old : old[i].apart
  IN IF len = 0 THEN [mem |-> tmp, ramdisk |-> [i \in DOMAIN old |-> [old[i] EXCEPT !.apart = @ /\ old[i].at >= cur + Total(ms)]]]
     ELSE [mem |-> IF fits THEN Fill(tmp, moveto, len, LAMBDA j : pages[j + 1]) ELSE tmp,
           ramdisk |-> <<[at |-> moveto, files |-> read, apart |-> kept /\ fits /\ moveto >= cur]>>]
=============================================================================
