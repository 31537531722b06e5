------------------------------- MODULE Gunzip ------------------------------
(***************************************************************************)
(* gunzip.c: a compressed file is read through a window of WSIZE bytes.    *)
(* Reading behind the window inflates on; reading before it begins again   *)
(* at the start of the data.  A block is suspended wherever the window is  *)
(* full, in the middle of a match too.                                     *)
(*                                                                         *)
(* A compressed file is a sequence of blocks of items, one item to a byte  *)
(* of the input: a literal or stored byte, or a match.  Huffman codes are  *)
(* only judged (huft_build), never decoded bit by bit.                     *)
(***************************************************************************)
EXTENDS Integers, Sequences, FiniteSets

CONSTANTS WSIZE,     \* bytes of the window
          INBUFSIZ,  \* bytes of the input buffer
          Streams    \* [header, blocks: Seq([type, items, lens])]

VARIABLE gz   \* what gunzip.c keeps, and the call it is in

\* Items of all blocks in order; each block begins with its header.
Header(b) == [kind |-> "head", type |-> b.type, lens |-> b.lens, n |-> Len(b.items)]
End       == [kind |-> "end"]
Input(s)  ==
  LET cat[i \in 0 .. Len(s.blocks)] ==
        IF i = 0 THEN <<>>
        ELSE LET b == s.blocks[i]
             IN cat[i - 1] \o <<Header(b)>> \o b.items \o (IF b.type = 0 THEN <<>> ELSE <<End>>)
  IN cat[Len(s.blocks)]

\* What the file holds: a match repeats what is dist back.
Plain(s) ==
  LET in == Input(s)
      rep[o \in Seq(Nat), d \in Nat, n \in Nat] ==
        IF n = 0 THEN o ELSE rep[Append(o, o[Len(o) + 1 - d]), d, n - 1]
      out[i \in 0 .. Len(in)] ==
        IF i = 0 THEN <<>>
        ELSE CASE in[i].kind = "lit" -> Append(out[i - 1], in[i].b)
               [] in[i].kind = "match" -> rep[out[i - 1], in[i].d, in[i].n]
               [] OTHER -> out[i - 1]
  IN out[Len(in)]

Inputs == [s \in Streams |-> Input(s)]
Plains == [s \in Streams |-> Plain(s)]
----------------------------------------------------------------------------
\* Lengths of codes that leave no code over: 0; too many: 2; too few: 1, which is
\* allowed for one code of one bit.
huft_build(lens) ==
  LET used == {i \in DOMAIN lens : lens[i] > 0}
      g == IF used = {} THEN 0
           ELSE CHOOSE l \in {lens[i] : i \in used} : \A i \in used : lens[i] <= l
      count(l) == Cardinality({i \in used : lens[i] = l})
      room[l \in 0 .. g] == IF l = 0 THEN 1 ELSE 2 * room[l - 1] - count(l)
  IN IF used = {} THEN 0
     ELSE IF \E l \in 1 .. g : room[l] < 0 THEN 2
     ELSE IF room[g] # 0 /\ g # 1 THEN 1 ELSE 0

\* The next byte of the input: a buffer is read at the start of the data and when
\* the last one is used up.
get_byte(z) ==
  LET fill == z.cpos = 0 \/ z.bufloc = INBUFSIZ
      size == Len(Inputs[z.file])
      base == IF fill THEN z.cpos ELSE z.base
      loc  == IF fill THEN 0 ELSE z.bufloc
  IN [z EXCEPT !.base = base, !.bufloc = loc + 1,
               !.cpos = IF fill THEN (IF @ + INBUFSIZ < size THEN @ + INBUFSIZ ELSE size) ELSE @,
               !.item = IF base + loc < size THEN Inputs[z.file][base + loc + 1] ELSE End]

\* Mutant of initialize_tables: the block that was being inflated goes on.
KeepBlock(z) == [z EXCEPT !.saved = 0, !.cpos = 0, !.last = FALSE, !.blocks = 0]

initialize_tables(z) == [z EXCEPT !.saved = 0, !.cpos = 0, !.last = FALSE, !.block = 0,
                                  !.blocks = 0]

\* Fixed codes are complete, and stored blocks have a length and its complement.
init_stored_block(z)  == [z EXCEPT !.block = z.item.n]
init_fixed_block(z)   == [z EXCEPT !.state = 0, !.block = 1]
init_dynamic_block(z) == IF huft_build(z.item.lens) # 0 THEN [z EXCEPT !.err = TRUE]
                         ELSE [z EXCEPT !.state = 0, !.block = 1]

\* The header of a block says whether it is the last.
get_new_block(z0) ==
  LET z1 == get_byte(z0)
      z == [z1 EXCEPT !.type = IF z1.item.kind = "head" THEN z1.item.type ELSE 3, !.blocks = @ + 1,
                      !.last = z1.blocks + 1 = Len(z1.file.blocks)]
  IN CASE z.type = 0 -> init_stored_block(z)
       [] z.type = 1 -> init_fixed_block(z)
       [] z.type = 2 -> init_dynamic_block(z)
       [] OTHER -> [z EXCEPT !.err = TRUE]

\* n bytes from d on, one after the other, until the window is full.
Repeat(z) ==
  LET k == IF z.n < WSIZE - z.wp THEN z.n ELSE WSIZE - z.wp
      win[i \in 0 .. k] ==
        IF i = 0 THEN z.slide
        ELSE [win[i - 1] EXCEPT ![z.wp + i - 1] = win[i - 1][(z.d + i - 1) % WSIZE]]
  IN [z EXCEPT !.slide = win[k], !.wp = @ + k, !.d = (@ + k) % WSIZE, !.n = @ - k,
               !.state = IF z.n = k THEN 0 ELSE 1]

\* One code, or what is left of the last match.
inflate_codes_in_window(z0) ==
  IF z0.state = 1 THEN Repeat(z0)
  ELSE LET z == get_byte(z0)
       IN CASE z.item.kind = "lit" -> [z EXCEPT !.slide[z.wp] = z.item.b, !.wp = @ + 1]
            [] z.item.kind = "match" ->
                 Repeat([z EXCEPT !.n = z.item.n, !.d = (z.wp - z.item.d) % WSIZE])
            [] z.item.kind = "end" -> [z EXCEPT !.block = 0]
            [] OTHER -> [z EXCEPT !.err = TRUE]

stored(z0) == LET z == get_byte(z0)
              IN [z EXCEPT !.slide[z.wp] = IF z.item.kind = "lit" THEN z.item.b ELSE 0,
                           !.wp = @ + 1, !.block = @ - 1]
----------------------------------------------------------------------------
NoFile == [header |-> "none", blocks |-> <<>>]
gzInit == gz = [pc |-> "closed", file |-> NoFile, pos |-> 0, saved |-> 0, cpos |-> 0,
                bufloc |-> 0, base |-> 0, item |-> End, last |-> FALSE, block |-> 0, blocks |-> 0,
                type |-> 0, state |-> 0, n |-> 0, d |-> 0, wp |-> 0,
                slide |-> [i \in 0 .. WSIZE - 1 |-> 0], len |-> 0, got |-> {}, err |-> FALSE]

\* The header and the length at the end of the file; fields that are not known, or
\* end too early, are an error.
gunzip_test_header ==
  /\ gz.pc \in {"closed", "idle"}
  /\ \E s \in Streams :
       LET z == [gz EXCEPT !.file = s, !.pos = 0, !.got = {}, !.err = s.header = "bad"]
       IN gz' = IF s.header = "bad" THEN [z EXCEPT !.pc = "closed"]
                ELSE [initialize_tables(z) EXCEPT !.pc = "idle"]

gunzip_seek == /\ gz.pc = "idle" /\ ~gz.err
               /\ \E p \in 0 .. Len(Plains[gz.file]) : gz' = [gz EXCEPT !.pos = p, !.got = {}]

gunzip_read ==
  /\ gz.pc = "idle" /\ ~gz.err
  /\ \E n \in 1 .. Len(Plains[gz.file]) - gz.pos :
       LET z == [gz EXCEPT !.len = n, !.pc = "read", !.got = {}]
       IN gz' = IF z.saved > z.pos + WSIZE THEN initialize_tables(z) ELSE z

\* What the window has of it is copied; what comes later is inflated first.
gunzip_copy ==
  /\ gz.pc = "read"
  /\ gz' = IF gz.len = 0 \/ gz.err THEN [gz EXCEPT !.pc = "idle", !.got = {}]
           ELSE IF gz.pos >= gz.saved THEN [gz EXCEPT !.pc = "fill", !.wp = 0, !.got = {}]
           ELSE LET k == IF gz.saved - gz.pos < gz.len THEN gz.saved - gz.pos ELSE gz.len
                IN [gz EXCEPT !.pos = @ + k, !.len = @ - k,
                              !.got = {<<gz.pos + i, gz.slide[(gz.pos + i) % WSIZE]>> :
                                         i \in 0 .. k - 1}]

inflate_window ==
  /\ gz.pc = "fill"
  /\ LET full == [gz EXCEPT !.saved = @ + WSIZE, !.pc = "read"]
     IN gz' = IF gz.wp = WSIZE \/ gz.err \/ (gz.block = 0 /\ gz.last) THEN full
              ELSE IF gz.block = 0 THEN get_new_block(gz)
              ELSE IF gz.type = 0 THEN stored(gz)
              ELSE inflate_codes_in_window(gz)

\* grub_read of the compressed file fails.
InputFails == gz.pc = "fill" /\ gz' = [gz EXCEPT !.err = TRUE]

gzNext == gunzip_test_header \/ gunzip_seek \/ gunzip_read \/ gunzip_copy \/ inflate_window
          \/ InputFails

\* Whatever was read and sought before, what is delivered is the file unpacked.
UnpackedIsPlain == \A g \in gz.got : ~gz.err => g[2] = Plains[gz.file][g[1] + 1]

=============================================================================
