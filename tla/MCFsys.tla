------------------------------ MODULE MCFsys -------------------------------
(* A root directory, a file that needs every level of indirection and lies *)
(* in four extents, a short file between them, a directory of one block    *)
(* with two links in it, and a link to a link.                             *)
EXTENDS Fsys

MCFiles  == 1 .. 7
MCBlocks == <<3, 9, 3, 1, 1, 2, 1>>
MCKind   == <<"dir", "reg", "reg", "dir", "link", "link", "link">>
\* File 2 lacks one table of the second level, file 3 its only table.
MCSparse == ({2} \X {2, 3, 4, 5}) \cup ({3} \X {1, 2})
\* Blocks of pointers fit in MAPBUF (ffs), or are twice as long (ufs2).  One lies
\* where it is read again for every block.
MCMapLen == [ffs |-> 2, ufs2 |-> 1]
MCIndAt  == <<50, 60, 3, 70, 80, 90, 99>>

En(t, b) == [to |-> t, blk |-> b]
MCEntry == (1 :> [a |-> En(2, 2), ab |-> En(3, 1), s |-> En(4, 2), l |-> En(7, 0)]) @@
           (4 :> (".." :> En(1, 0) @@ "b" :> En(3, 0) @@ "u" :> En(5, 0) @@ "o" :> En(6, 0)))
MCText == (5 :> [abs |-> FALSE, names |-> <<"..", "s", "b">>, fast |-> TRUE]) @@
          (6 :> [abs |-> FALSE, names |-> <<"o">>, fast |-> FALSE]) @@
          (7 :> [abs |-> TRUE, names |-> <<"s", "u">>, fast |-> FALSE])
MCPaths == {<<"a">>, <<"ab">>, <<"s", "b">>, <<"l">>, <<"l", "b">>, <<"s", "o">>, <<"s", "">>,
            <<"s", "..", "a">>, <<"s", "u">>}
MCPrefix == {<<"a", "a">>, <<"a", "ab">>, <<"ab", "ab">>, <<"l", "l">>, <<"b", "b">>, <<"u", "u">>,
             <<"o", "o">>} \cup ({""} \X {"..", "b", "u", "o"})

E(o, l, s) == [off |-> o, len |-> l, start |-> s]
MCExt == << <<E(0, 2, 0), E(2, 1, 6)>>,
            <<E(0, 3, 8), E(3, 1, 2), E(4, 3, 12), E(7, 2, 3)>>,
            <<E(0, 1, 5), E(1, 2, 15)>>,
            <<E(0, 1, 11)>>, <<E(0, 1, 17)>>, <<E(0, 2, 18)>>, <<E(0, 1, 20)>> >>

I(f, o, k, n) == [obj |-> f, off |-> o, kind |-> k, n |-> n]
MCTree == << << <<I(1, 0, "stat", 0), I(1, 1, "direct", 2)>>,
                <<I(1, 3, "direct", 1)>>,
                <<I(2, 0, "stat", 0)>> >>,
             << <<I(2, 1, "indirect", 4), I(2, 5, "indirect", 3)>> >>,
             << <<I(2, 8, "indirect", 1), I(2, 9, "direct", 1)>>,
                <<I(3, 0, "stat", 0), I(3, 1, "indirect", 2)>>,
                <<I(3, 3, "direct", 1), I(4, 0, "stat", 0), I(4, 1, "direct", 1)>>,
                <<I(5, 0, "stat", 0), I(5, 1, "direct", 1), I(6, 0, "stat", 0)>>,
                <<I(6, 1, "direct", 2), I(7, 0, "stat", 0), I(7, 1, "direct", 1)>> >> >>

\* Three transactions, the last without its commit block, behind the ring's end.
D(i, bs) == [kind |-> "desc", id |-> i, len |-> Len(bs), blocks |-> bs]
C(i)     == [kind |-> "commit", id |-> i]
Cp(b, i) == [kind |-> "copy", of |-> b, id |-> i]
MCSlots == [i \in 0 .. 15 |->
  CASE i = 11 -> D(1, << <<1, 1>>, <<3, 2>> >>) [] i = 12 -> Cp(<<1, 1>>, 1)
    [] i = 13 -> Cp(<<3, 2>>, 1) [] i = 14 -> C(1)
    [] i = 15 -> D(2, << <<2, 1>>, <<1, 1>> >>) [] i = 0 -> Cp(<<2, 1>>, 2)
    [] i = 1 -> Cp(<<1, 1>>, 2) [] i = 2 -> C(2)
    [] i = 3 -> D(3, << <<3, 2>> >>) [] i = 4 -> Cp(<<3, 2>>, 3)
    [] OTHER -> [kind |-> "copy", of |-> <<2, 1>>, id |-> 0]]   \* flushed before

P(s, m, w) == [slice |-> s, long |-> TRUE, magic |-> m, wide |-> w]
\* Some were formatted before: what that has left is found by its driver too.
MCParts == {P("fat", {"fat"}, TRUE), P("fat", {"fat"}, FALSE), P("linux", {"ext2fs"}, FALSE),
            P("linux", {"ext2fs", "ffs"}, TRUE), P("minix", {"minix", "ext2fs"}, FALSE),
            P("other", {"reiserfs", "minix"}, FALSE), P("other", {"jfs", "ext2fs"}, FALSE),
            P("other", {"xfs", "fat"}, FALSE), P("bsd_ffs", {"ufs2", "ffs"}, FALSE),
            P("none", {"iso9660"}, FALSE), P("bsd_ffs", {"ffs"}, FALSE), P("other", {}, FALSE)}

L(b)     == [kind |-> "lit", b |-> b]
Mt(n, d) == [kind |-> "match", n |-> n, d |-> d]
Bl(t, i, l) == [type |-> t, items |-> i, lens |-> l]
\* Matches that overlap themselves and the end of the window, stored blocks between
\* coded ones, codes that are incomplete.
MCStreams ==
  {[header |-> "gzip", blocks |-> <<Bl(0, <<L(1), L(2)>>, <<>>), Bl(1, <<Mt(3, 2), L(4)>>, <<>>),
                                    Bl(2, <<Mt(4, 4)>>, <<1, 2, 2>>), Bl(0, <<L(6), L(7), L(8)>>, <<>>)>>],
   [header |-> "gzip", blocks |-> <<Bl(1, <<L(1), Mt(5, 1)>>, <<>>), Bl(2, <<L(2)>>, <<1, 2, 0>>)>>],
   [header |-> "bad", blocks |-> <<>>]}

=============================================================================
