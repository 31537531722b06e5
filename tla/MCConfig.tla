------------------------------ MODULE MCConfig ------------------------------
(* Instances of Config.                                                    *)
EXTENDS Config

CONSTANT MaxLines

PlainLine(k) == [k |-> k, num |-> NoNumber, list |-> <<>>]
DefaultLine(n) == [PlainLine("default") EXCEPT !.num = n]
FallbackLine(l) == [PlainLine("fallback") EXCEPT !.list = l]
Conf(lines, newline, signature) ==
  [lines |-> lines, newline |-> newline, signature |-> signature, fault |-> "none"]

T == PlainLine("title")
C == PlainLine("command")

(* All files of up to MaxLines lines of these kinds, behind a menu command *)
(* or none; <<2, 3, 1, 0>> and <<0, 1, 2, 3>> fill the fallback list, with *)
(* a last number that may exist and one that cannot.                       *)
Headers ==
  {<<>>} \cup {<<l>> : l \in {DefaultLine(1), DefaultLine(NoNumber), FallbackLine(<<1>>),
                              FallbackLine(<<2, 0>>), FallbackLine(<<0, 2, 1>>),
                              FallbackLine(<<1, 1, 0>>),
                              FallbackLine(<<2, 3, 1, 0>>), FallbackLine(<<0, 1, 2, 3>>)}}
Texts == UNION {[1..n -> {T, C, PlainLine("unknown")}] : n \in 0..MaxLines}
AllFiles ==
  {Conf(h \o l, TRUE, "none") : h \in Headers, l \in Texts}
    \cup {Conf(l, FALSE, "none") : l \in Texts}

(* A menu of two entries with comments and a title without commands.       *)
TwoEntries ==
  <<DefaultLine(Saved), FallbackLine(<<3, 1, 2>>), T, PlainLine("comment"), T, C, C, T, C, PlainLine("unknown")>>
SmallMenu == <<FallbackLine(<<1, 0>>), T, C>>
Empty == <<DefaultLine(0), C>>

MCPreset == Conf(<<FallbackLine(<<0, 2>>), T, C, T, C>>, FALSE, "none")
MCSpi == Conf(SmallMenu, TRUE, "good")
MediaCards ==
  {NoFile, Conf(TwoEntries, TRUE, "good"), Conf(TwoEntries, TRUE, "bad"),
   Conf(Empty, TRUE, "none"), Conf(<<T, C, PlainLine("comment")>>, FALSE, "good")}
    \cup {[Conf(SmallMenu, TRUE, g) EXCEPT !.fault = e] :
             g \in {"none", "good"}, e \in {"file_not_found", "filelength", "read"}}

AllCards == AllFiles \cup MediaCards
=============================================================================
