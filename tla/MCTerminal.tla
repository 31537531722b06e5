----------------------------- MODULE MCTerminal -----------------------------
EXTENDS Terminal

(* Control strings of a vt100, a vt52 and a terminal that takes rows and    *)
(* columns in decimal, as given to terminfo.                               *)
E == <<"esc", "e">>
VT100 == [cursor_address |-> <<E, Lit("["), <<"i", 0>>, <<"p", 1>>, <<"d", 0>>, Lit(";"), <<"p", 2>>, <<"d", 0>>, Lit("H")>>,
            clear_screen |-> <<E, Lit("["), Lit("H")>>]
VT52 == [cursor_address |-> <<E, Lit("Y"), <<"p", 1>>, <<"chr", 32>>, <<"+", 0>>, <<"c", 0>>,
                              <<"p", 2>>, <<"chr", 32>>, <<"+", 0>>, <<"c", 0>>>>,
         clear_screen |-> <<E, Lit("J")>>]
Decimal == [cursor_address |-> <<E, Lit("&"), Lit("a"), <<"?", 0>>, <<"p", 2>>, <<"num", 0>>, <<"=", 0>>, <<"t", 0>>,
                                 <<"p", 1>>, <<"d", 0>>, Lit("Y"), <<"e", 0>>, <<"p", 1>>, <<"d", 0>>, Lit("y"),
                                 <<"p", 2>>, <<"d", 0>>, Lit("C"), <<";", 0>>>>,
            clear_screen |-> <<E, Lit("J")>>]
MCTerminfos == {VT52, Decimal}

M(f, w, h) == [format |-> f, width |-> w, height |-> h]
Bios(image) == [bios |-> TRUE, image |-> image, text |-> TRUE, mode |-> 1, takes |-> {}, modes |-> <<>>, gop |-> FALSE,
                uga |-> FALSE, units |-> {}]
Gop(modes, takes, uga) == [bios |-> FALSE, image |-> TRUE, text |-> TRUE, mode |-> 1, takes |-> takes, modes |-> modes,
                           gop |-> TRUE, uga |-> uga, units |-> {0}]
Uga(mode, takes) == [bios |-> FALSE, image |-> TRUE, text |-> TRUE, mode |-> mode, takes |-> takes, gop |-> FALSE,
                     modes |-> <<M("uga", 4, 3), M("uga", 2, 2), M("uga", 1, 1), M("uga", 9, 9)>>, uga |-> TRUE, units |-> {}]
GopModes == <<M("rgbr", 4, 4), M("bgrr", 2, 2), M("bgrr", 3, 3), M("bgrr", 2, 4), M("blt", 1, 1)>>
MCHistory == <<<<"b", "c">>, <<"d", "e", "f", "g", "b", "c">>>>
AllKeys == {"a", "C-a", "C-e", "C-b", "C-f", "C-k", "C-y", "C-p", "C-n", "C-d", "C-h", "C-u", "TAB", "RET", ESC, "PgUp"}
User(keys, n) == [keys |-> keys, left |-> n]
Start(fw, sec, term, need, u) == [fw |-> fw, secure |-> sec, term |-> term, need_init |-> need, hs |-> MCHistory, user |-> u]
MCStarts ==
  {Start(Bios(TRUE), FALSE, VT100, {"graphics"}, User({"C-b", "C-a", "C-h", "a"}, 4))}
  \cup {Start(Bios(TRUE), FALSE, term, {"graphics"}, User(AllKeys, 2)) : term \in {VT52, Decimal}}
  \cup {Start(fw, FALSE, VT100, {"serial", "graphics"}, User(AllKeys, 2)) :
          fw \in {Bios(FALSE), Gop(GopModes, {1, 2, 5}, FALSE), Gop(GopModes, {}, FALSE), Uga(3, {2, 3}), Uga(4, {4})}}
  \cup {Start(Gop(GopModes, {1, 3, 4}, FALSE), TRUE, VT100, {"serial", "graphics"}, User(AllKeys, 2))}
  \cup {Start(Gop(GopModes, {1, 3, 4}, FALSE), FALSE, VT100, {"serial", "graphics"},
             User({"C-k", "C-y", "C-u", "C-b", "C-p", "C-n", "RET"}, 3))}
  \cup {Start(Gop(GopModes, {}, TRUE), FALSE, VT100, {"serial"}, User({"RET"}, 2))}
MCUgaModes == <<1, 2>>

Arg(names, opts, secs, quiet) == [names |-> names, opts |-> opts, secs |-> secs, quiet |-> quiet]
MCArguments ==
  {Arg(<<n>>, {}, 0, FALSE) : n \in Names} \cup {Arg(<<n>>, {"dumb"}, 0, FALSE) : n \in {"console", "serial"}}
  \cup {Arg(<<"console">>, opts, 0, FALSE) : opts \in {{"noedit"}, {"noedit", "noecho"}}}
  \cup {Arg(<<"serial", "console">>, {}, 0, FALSE), Arg(<<"serial", "hercules">>, {}, 1, TRUE)}
MCLines == {<<>>, <<"b", "c", "d", "e">>, <<" ", "b", "c", "d", "e", "f", "g">>}
=============================================================================
