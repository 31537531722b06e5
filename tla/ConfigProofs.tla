---------------------------- MODULE ConfigProofs ----------------------------
(***************************************************************************)
(* Proofs about the configuration, for every card, compiled-in menu and    *)
(* flash, files of any length, every size of the fallback list and SKU.    *)
(*                                                                         *)
(* The inductive invariant says what the two areas hold while a file is    *)
(* read (Parsed, of the lines up to the offset), what they hold from its   *)
(* end on, how far the fallback list has been checked, and that the file   *)
(* was verified.                                                           *)
(***************************************************************************)
EXTENDS Config, SequenceTheorems, TLAPS

(* The titles in the menu area m when the first p lines of f are read: the *)
(* entries that are closed, and in states 1 and 2 the title behind them.   *)
TitlesRead(f, p, st, m, n) ==
  IF st = 0
  THEN n = 0 /\ Len(m) = 0 /\ \A t \in Titles(f) : t > p
  ELSE /\ Len(m) = n + 1 /\ m[n + 1] \in Titles(f) /\ m[n + 1] <= p
       /\ \A t \in Titles(f) : t <= p => t <= m[n + 1]
       /\ \A j \in 1..n : m[j] \in Entries(f) /\ m[j] < m[n + 1]
       /\ \A t \in Entries(f) : t < m[n + 1] => \E j \in 1..n : m[j] = t
       /\ \A j, l \in 1..n : j < l => m[j] < m[l]

(* The commands in the configuration area c: a body is closed by a 0       *)
(* unless it is that of the last title.                                    *)
CommandsRead(f, p, c) ==
  /\ \A j \in 1..Len(c) : c[j] # 0 => c[j] \in Commands(f) /\ c[j] <= p
  /\ \A n \in Commands(f) : n <= p => \E j \in 1..Len(c) : c[j] = n
  /\ \A j, l \in 1..Len(c) : j < l /\ c[j] # 0 /\ c[l] # 0 => c[j] < c[l]
  /\ \A j \in 1..Len(c) : c[j] = 0 => j > 1 /\ c[j - 1] # 0
  /\ \A j \in 1..(Len(c) - 1) :
       /\ c[j] # 0 /\ c[j + 1] # 0 => ~Between(f, c[j], c[j + 1])
       /\ c[j] = 0 => Between(f, c[j - 1], c[j + 1])

(* How both end: state 1 is a title without a command so far.              *)
EndsRead(st, m, n, c, len) ==
  /\ st = 0 => Len(c) = 0
  /\ n > 0 => Len(c) > 0
  /\ st < 2 => len = Len(c)
  /\ st = 1 => \A j \in 1..Len(c) : c[j] < m[n + 1]
  /\ st = 1 /\ Len(c) > 0 => c[Len(c)] = 0
  /\ st = 2 => Len(c) > 0 /\ c[Len(c)] > m[n + 1]

Parsed ==
  /\ Offset \in 0..Len(file.lines) /\ prev_menu_len = num_entries
  /\ TitlesRead(file, Offset, state, menu, num_entries)
  /\ CommandsRead(file, Offset, config)
  /\ EndsRead(state, menu, num_entries, config, prev_config_len)

FilesInv ==
  /\ sd \in File /\ file \in File
  /\ pc # "line" \/ is_preset => cln_index = 0
  /\ Endless => cln_index < Len(file.lines)

AreasInv ==
  /\ pc = "line" /\ ~Endless => Parsed
  /\ pc # "line" /\ num_entries > 0 => HoldEntries(file)

SelectionInv ==
  /\ pc = "line" => fallback_entryno \in {-1, 0}
  /\ pc = "fallbacks" =>
       /\ fallback_entryno = 0
       /\ \A s \in Slots : s < i => fallback_entries[s] \in 0..(num_entries - 1)
  /\ pc = "default" =>
       /\ fallback_entryno \in {-1, 0}
       /\ fallback_entryno = 0 => fallback_entries[0] >= 0 /\ FallbackValid(0)
  /\ pc \in {"load"} \cup Interactive /\ num_entries > 0 =>
       /\ default_entry < num_entries
       /\ fallback_entryno >= 0 => FallbackValid(fallback_entryno)
  /\ pc = "menu" => num_entries > 0

IInv == TypeOK /\ FilesInv /\ AreasInv /\ SelectionInv /\ SignedOnly
-----------------------------------------------------------------------------
(* What one more line does to the areas.                                   *)

(* a is s with e behind it.                                                *)
Longer(a, s, e) ==
  /\ Len(a) = Len(s) + 1 /\ a[Len(s) + 1] = e
  /\ \A j \in 1..Len(s) : a[j] = s[j]

(* The front of an area that already ends there is the area.               *)
LEMMA WholeFront ==
  ASSUME NEW S, NEW s \in Seq(S)
  PROVE  SubSeq(s, 1, Len(s)) = s
<1> DEFINE a == SubSeq(s, 1, Len(s))
<1>1. a \in Seq(S) /\ Len(a) = Len(s) /\ \A j \in 1..Len(s) : a[j] = s[j]
  BY SubSeqProperties, LenProperties
<1> HIDE DEF a
<1>2. a = s
  BY <1>1, SeqEqual
<1> QED BY <1>2 DEF a

(* Nothing but comments lies between the lines p and n of f.               *)
NextTo(f, p, n) ==
  /\ p \in Nat /\ n \in Nat /\ p < n
  /\ \A t \in Titles(f) : t \in Nat /\ t > 0 /\ (t <= p \/ t >= n)
  /\ \A c \in Commands(f) : c \in Nat /\ c > 0 /\ (c <= p \/ c >= n)
  /\ n \in Titles(f) => n \notin Commands(f)

(* A title closes an entry that has a command.                             *)
LEMMA TitleCloses ==
  ASSUME NEW f, NEW p, NEW n \in Titles(f), NextTo(f, p, n),
         NEW m, NEW a, NEW k \in Nat,
         TitlesRead(f, p, 2, m, k), Longer(a, m, n),
         \E c \in Commands(f) : m[k + 1] < c /\ c <= p
  PROVE  TitlesRead(f, n, 1, a, k + 1)
<1> DEFINE t == m[k + 1]
<1>1. /\ Len(m) = k + 1 /\ t \in Titles(f) /\ t <= p
      /\ \A u \in Titles(f) : u <= p => u <= t
      /\ \A j \in 1..k : m[j] \in Entries(f) /\ m[j] < t
      /\ \A u \in Entries(f) : u < t => \E j \in 1..k : m[j] = u
      /\ \A j, l \in 1..k : j < l => m[j] < m[l]
  BY DEF TitlesRead
<1>2. Len(a) = k + 2 /\ a[k + 2] = n /\ \A j \in 1..(k + 1) : a[j] = m[j]
  BY <1>1 DEF Longer
<1>3. t \in Nat /\ p \in Nat /\ n \in Nat /\ t <= p /\ p < n /\ a[k + 1] = t
  <2>1. p \in Nat /\ n \in Nat /\ p < n /\ \A u \in Titles(f) : u \in Nat
    BY DEF NextTo
  <2>2. k + 1 \in 1..(k + 1)
    OBVIOUS
  <2> QED BY <2>1, <2>2, <1>1, <1>2
<1>4. t \in Entries(f)
  <2>1. PICK c \in Commands(f) : t < c /\ c <= p
    OBVIOUS
  <2>2. ~Between(f, t, c)
    BY <1>1, <1>3, <2>1 DEF Between, NextTo
  <2> QED BY <1>1, <2>1, <2>2 DEF Entries
<1>5. \A u \in Entries(f) : u \in Titles(f)
  BY DEF Entries
<1> HIDE DEF t
<1>6. \A u \in Titles(f) : u <= n => u <= n
  OBVIOUS
<1>7. ASSUME NEW j \in 1..(k + 1) PROVE a[j] \in Entries(f) /\ a[j] < n
  <2>1. CASE j = k + 1
    BY <2>1, <1>3, <1>4
  <2>2. CASE j \in 1..k
    <3>1. a[j] = m[j] /\ m[j] \in Entries(f) /\ m[j] < t
      BY <2>2, <1>1, <1>2 DEF t
    <3>2. m[j] \in Nat
      BY <3>1, <1>5 DEF NextTo
    <3> QED BY <3>1, <3>2, <1>3
  <2> QED BY <2>1, <2>2
<1>8. ASSUME NEW u \in Entries(f), u < n PROVE \E j \in 1..(k + 1) : a[j] = u
  <2>1. u \in Nat /\ u <= t
    <3>1. u \in Titles(f) /\ u \in Nat /\ (u <= p \/ u >= n)
      BY <1>5 DEF NextTo
    <3>2. u <= p
      BY <3>1, <1>8, <1>3
    <3> QED BY <3>1, <3>2, <1>1 DEF t
  <2>2. CASE u = t
    BY <2>2, <1>3
  <2>3. CASE u < t
    <3>1. PICK j \in 1..k : m[j] = u
      BY <2>3, <1>1 DEF t
    <3> QED BY <3>1, <1>2
  <2> QED BY <2>1, <2>2, <2>3, <1>3
<1>9. ASSUME NEW j \in 1..(k + 1), NEW l \in 1..(k + 1), j < l
      PROVE  a[j] < a[l]
  <2>1. j \in 1..k /\ a[j] = m[j] /\ a[l] = m[l] /\ (l \in 1..k \/ a[l] = t)
    BY <1>9, <1>2, <1>3
  <2> QED BY <2>1, <1>9, <1>1 DEF t
<1> QED BY <1>1, <1>2, <1>3, <1>7, <1>8, <1>9 DEF TitlesRead, NextTo
(* A title takes the place of one that has no command.                     *)
LEMMA TitleReplaces ==
  ASSUME NEW f, NEW p, NEW n \in Titles(f), NextTo(f, p, n),
         NEW m, NEW a, NEW k \in Nat,
         TitlesRead(f, p, 1, m, k), Len(a) = k + 1, a[k + 1] = n,
         \A j \in 1..k : a[j] = m[j],
         \A c \in Commands(f) : c <= p => c < m[k + 1]
  PROVE  TitlesRead(f, n, 1, a, k)
<1> DEFINE t == m[k + 1]
<1>1. /\ t \in Titles(f) /\ t <= p
      /\ \A u \in Titles(f) : u <= p => u <= t
      /\ \A j \in 1..k : m[j] \in Entries(f) /\ m[j] < t
      /\ \A u \in Entries(f) : u < t => \E j \in 1..k : m[j] = u
      /\ \A j, l \in 1..k : j < l => m[j] < m[l]
  BY DEF TitlesRead
<1>2. p \in Nat /\ n \in Nat /\ p < n /\ \A u \in Titles(f) : u \in Nat
  BY DEF NextTo
<1>3. \A c \in Commands(f) : c <= p => c < t
  OBVIOUS
<1> HIDE DEF t
<1>4. t \in Nat /\ t < n
  BY <1>1, <1>2
<1>5. t \notin Entries(f)
  <2>1. SUFFICES ASSUME NEW c \in Commands(f), t < c, ~Between(f, t, c)
                 PROVE  FALSE
    BY DEF Entries
  <2>2. c \in Nat /\ (c <= p \/ c >= n) /\ c # n
    BY DEF NextTo
  <2>3. c > n
    BY <2>1, <2>2, <1>2, <1>4, <1>3
  <2> QED BY <2>1, <2>3, <1>4 DEF Between
<1>6. ASSUME NEW j \in 1..k PROVE a[j] \in Entries(f) /\ a[j] < n
  <2>1. a[j] = m[j] /\ m[j] \in Entries(f) /\ m[j] < t
    BY <1>1
  <2>2. m[j] \in Nat
    BY <2>1, <1>2 DEF Entries
  <2> QED BY <2>1, <2>2, <1>2, <1>4
<1>7. ASSUME NEW u \in Entries(f), u < n PROVE \E j \in 1..k : a[j] = u
  <2>1. u \in Titles(f) /\ u \in Nat
    BY <1>2 DEF Entries
  <2>2. u <= p
    BY <2>1, <1>7, <1>2 DEF NextTo
  <2>3. u < t
    BY <2>1, <2>2, <1>1, <1>4, <1>5
  <2>4. PICK j \in 1..k : m[j] = u
    BY <2>3, <1>1
  <2> QED BY <2>4
<1>8. \A j, l \in 1..k : j < l => a[j] < a[l]
  BY <1>1
<1>9. \A u \in Titles(f) : u <= n => u <= a[k + 1]
  OBVIOUS
<1> QED BY <1>2, <1>6, <1>7, <1>8, <1>9 DEF TitlesRead

(* The first title has nothing before it.                                  *)
LEMMA TitleFirst ==
  ASSUME NEW f, NEW p, NEW n \in Titles(f), NextTo(f, p, n),
         NEW m, NEW a, NEW k, TitlesRead(f, p, 0, m, k),
         Len(a) = 1, a[1] = n
  PROVE  TitlesRead(f, n, 1, a, 0)
<1>1. p \in Nat /\ n \in Nat /\ p < n /\ \A u \in Titles(f) : u \in Nat
  BY DEF NextTo
<1>2. \A u \in Titles(f) : u > p /\ (u <= p \/ u >= n)
  BY DEF TitlesRead, NextTo
<1>3. \A u \in Entries(f) : ~(u < n)
  BY <1>1, <1>2 DEF Entries
<1> QED BY <1>1, <1>3 DEF TitlesRead

(* A line that is no title leaves the titles alone.                        *)
LEMMA TitlesKept ==
  ASSUME NEW f, NEW p, NEW n, NextTo(f, p, n), n \notin Titles(f),
         NEW st, NEW m, NEW k \in Nat, TitlesRead(f, p, st, m, k)
  PROVE  TitlesRead(f, n, st, m, k)
<1>1. p \in Nat /\ n \in Nat /\ p < n
  BY DEF NextTo
<1>2. \A t \in Titles(f) : t \in Nat /\ (t <= p \/ t > n)
  BY <1>1 DEF NextTo
<1>3. CASE st = 0
  BY <1>1, <1>2, <1>3 DEF TitlesRead
<1>4. CASE st # 0
  BY <1>1, <1>2, <1>4 DEF TitlesRead
<1> QED BY <1>3, <1>4

(* So does a line that is no command with the commands,                    *)
LEMMA CommandsKept ==
  ASSUME NEW f, NEW p, NEW n, NextTo(f, p, n), n \notin Commands(f),
         NEW c, CommandsRead(f, p, c)
  PROVE  CommandsRead(f, n, c)
<1>1. p \in Nat /\ n \in Nat /\ p < n
  BY DEF NextTo
<1>2. \A d \in Commands(f) : d \in Nat /\ (d <= p \/ d > n)
  BY <1>1 DEF NextTo
<1>3. \A d \in Commands(f) : d <= n => d <= p
  BY <1>1, <1>2
<1>4. \A j \in 1..Len(c) : c[j] # 0 => c[j] \in Commands(f) /\ c[j] <= n
  BY <1>1, <1>2 DEF CommandsRead
<1>5. \A d \in Commands(f) : d <= n => \E j \in 1..Len(c) : c[j] = d
  BY <1>3 DEF CommandsRead
<1> QED BY <1>4, <1>5 DEF CommandsRead

(* a command goes behind the others,                                       *)
LEMMA CommandAppended ==
  ASSUME NEW f, NEW p, NEW n \in Commands(f), NextTo(f, p, n),
         NEW c, NEW a, Len(c) \in Nat, Longer(a, c, n), CommandsRead(f, p, c),
         Len(c) > 0 /\ c[Len(c)] # 0 => ~Between(f, c[Len(c)], n),
         Len(c) > 0 /\ c[Len(c)] = 0 => Between(f, c[Len(c) - 1], n)
  PROVE  CommandsRead(f, n, a)
<1> DEFINE k == Len(c)
<1>1. k \in Nat /\ Len(a) = k + 1 /\ a[k + 1] = n /\ \A j \in 1..k : a[j] = c[j]
  BY DEF Longer
<1>2. /\ p \in Nat /\ n \in Nat /\ p < n /\ n > 0
      /\ \A d \in Commands(f) : d \in Nat /\ d > 0 /\ (d <= p \/ d >= n)
  BY DEF NextTo
<1>3. /\ \A j \in 1..k : c[j] # 0 => c[j] \in Commands(f) /\ c[j] <= p
      /\ \A d \in Commands(f) : d <= p => \E j \in 1..k : c[j] = d
      /\ \A j, l \in 1..k : j < l /\ c[j] # 0 /\ c[l] # 0 => c[j] < c[l]
      /\ \A j \in 1..k : c[j] = 0 => j > 1 /\ c[j - 1] # 0
      /\ \A j \in 1..(k - 1) :
           /\ c[j] # 0 /\ c[j + 1] # 0 => ~Between(f, c[j], c[j + 1])
           /\ c[j] = 0 => Between(f, c[j - 1], c[j + 1])
  BY DEF CommandsRead
<1>4. /\ k > 0 /\ c[k] # 0 => ~Between(f, c[k], n)
      /\ k > 0 /\ c[k] = 0 => Between(f, c[k - 1], n)
  OBVIOUS
<1> HIDE DEF k
<1>5. ASSUME NEW j \in 1..(k + 1), a[j] # 0
      PROVE  a[j] \in Commands(f) /\ a[j] <= n
  <2>1. CASE j = k + 1
    BY <2>1, <1>1, <1>2
  <2>2. CASE j \in 1..k
    <3>1. a[j] \in Commands(f) /\ a[j] <= p
      BY <2>2, <1>1, <1>3, <1>5
    <3>2. a[j] \in Nat
      BY <3>1, <1>2
    <3> QED BY <3>1, <3>2, <1>2
  <2> QED BY <2>1, <2>2, <1>1
<1>6. ASSUME NEW d \in Commands(f), d <= n PROVE \E j \in 1..(k + 1) : a[j] = d
  <2>1. CASE d = n
    BY <2>1, <1>1
  <2>2. CASE d # n
    <3>1. d <= p
      BY <2>2, <1>6, <1>2
    <3>2. PICK j \in 1..k : c[j] = d
      BY <3>1, <1>3
    <3> QED BY <3>2, <1>1
  <2> QED BY <2>1, <2>2
<1>7. ASSUME NEW j \in 1..(k + 1), NEW l \in 1..(k + 1),
             j < l, a[j] # 0, a[l] # 0
      PROVE  a[j] < a[l]
  <2>1. j \in 1..k /\ a[j] = c[j]
    BY <1>7, <1>1
  <2>2. a[j] <= p /\ a[j] \in Nat
    BY <2>1, <1>7, <1>2, <1>3
  <2>3. CASE l = k + 1
    BY <2>2, <2>3, <1>1, <1>2
  <2>4. CASE l \in 1..k
    BY <2>1, <2>4, <1>7, <1>1, <1>3
  <2> QED BY <2>3, <2>4, <1>1
<1>8. ASSUME NEW j \in 1..(k + 1), a[j] = 0 PROVE j > 1 /\ a[j - 1] # 0
  <2>1. j \in 1..k /\ c[j] = 0
    BY <1>8, <1>1, <1>2
  <2>2. j > 1 /\ c[j - 1] # 0 /\ j - 1 \in 1..k
    BY <2>1, <1>1, <1>3
  <2> QED BY <2>2, <1>1
<1>9. ASSUME NEW j \in 1..k
      PROVE  /\ a[j] # 0 /\ a[j + 1] # 0 => ~Between(f, a[j], a[j + 1])
             /\ a[j] = 0 => Between(f, a[j - 1], a[j + 1])
  <2>1. a[j] = c[j] /\ (c[j] = 0 => j - 1 \in 1..k /\ a[j - 1] = c[j - 1])
    BY <1>1, <1>3
  <2>2. CASE j = k
    BY <2>1, <2>2, <1>1, <1>4
  <2>3. CASE j \in 1..(k - 1)
    <3>1. a[j + 1] = c[j + 1]
      BY <2>3, <1>1
    <3> QED BY <2>1, <2>3, <3>1, <1>3
  <2> QED BY <2>2, <2>3, <1>1
<1> QED BY <1>1, <1>5, <1>6, <1>7, <1>8, <1>9 DEF CommandsRead

(* and a 0 closes a body.                                                  *)
LEMMA BodyClosed ==
  ASSUME NEW f, NEW p, NEW c, NEW a, Len(c) \in Nat, Longer(a, c, 0),
         CommandsRead(f, p, c), Len(c) > 0, c[Len(c)] # 0
  PROVE  CommandsRead(f, p, a)
<1> DEFINE k == Len(c)
<1>1. k \in Nat /\ Len(a) = k + 1 /\ a[k + 1] = 0 /\ \A j \in 1..k : a[j] = c[j]
  BY DEF Longer
<1>2. /\ \A j \in 1..k : c[j] # 0 => c[j] \in Commands(f) /\ c[j] <= p
      /\ \A d \in Commands(f) : d <= p => \E j \in 1..k : c[j] = d
      /\ \A j, l \in 1..k : j < l /\ c[j] # 0 /\ c[l] # 0 => c[j] < c[l]
      /\ \A j \in 1..k : c[j] = 0 => j > 1 /\ c[j - 1] # 0
      /\ \A j \in 1..(k - 1) :
           /\ c[j] # 0 /\ c[j + 1] # 0 => ~Between(f, c[j], c[j + 1])
           /\ c[j] = 0 => Between(f, c[j - 1], c[j + 1])
  BY DEF CommandsRead
<1>3. k > 0 /\ c[k] # 0
  OBVIOUS
<1> HIDE DEF k
<1>4. \A j \in 1..(k + 1) : a[j] # 0 => j \in 1..k
  BY <1>1
<1>5. \A j \in 1..(k + 1) : a[j] # 0 => a[j] \in Commands(f) /\ a[j] <= p
  BY <1>1, <1>2, <1>4
<1>6. \A d \in Commands(f) : d <= p => \E j \in 1..(k + 1) : a[j] = d
  <2>1. SUFFICES ASSUME NEW d \in Commands(f), d <= p
                 PROVE  \E j \in 1..(k + 1) : a[j] = d
    OBVIOUS
  <2>2. PICK j \in 1..k : c[j] = d
    BY <2>1, <1>2
  <2> QED BY <2>2, <1>1
<1>7. \A j, l \in 1..(k + 1) : j < l /\ a[j] # 0 /\ a[l] # 0 => a[j] < a[l]
  BY <1>1, <1>2, <1>4
<1>8. ASSUME NEW j \in 1..(k + 1), a[j] = 0 PROVE j > 1 /\ a[j - 1] # 0
  <2>1. CASE j = k + 1
    BY <2>1, <1>1, <1>3
  <2>2. CASE j \in 1..k
    <3>1. j > 1 /\ c[j - 1] # 0 /\ j - 1 \in 1..k
      BY <2>2, <1>8, <1>1, <1>2
    <3> QED BY <3>1, <1>1
  <2> QED BY <2>1, <2>2, <1>1
<1>9. ASSUME NEW j \in 1..k
      PROVE  /\ a[j] # 0 /\ a[j + 1] # 0 => ~Between(f, a[j], a[j + 1])
             /\ a[j] = 0 => Between(f, a[j - 1], a[j + 1])
  <2>1. a[j] = c[j] /\ (c[j] = 0 => j - 1 \in 1..k /\ a[j - 1] = c[j - 1])
    BY <1>1, <1>2
  <2>2. CASE j = k
    BY <2>1, <2>2, <1>1, <1>3
  <2>3. CASE j \in 1..(k - 1)
    <3>1. a[j + 1] = c[j + 1]
      BY <2>3, <1>1
    <3> QED BY <2>1, <2>3, <3>1, <1>2
  <2> QED BY <2>2, <2>3, <1>1
<1> QED BY <1>1, <1>5, <1>6, <1>7, <1>8, <1>9 DEF CommandsRead
-----------------------------------------------------------------------------
(* The files.                                                              *)

LEMMA SlotsFact == 0 \in Slots /\ Slots \subseteq Nat
BY ConfigAssumption DEF Slots

LEMMA FileFacts ==
  ASSUME NEW f \in File
  PROVE  /\ f.lines \in Seq(Line) /\ Len(f.lines) \in Nat
         /\ DOMAIN f.lines = 1..Len(f.lines)
         /\ \A n \in DOMAIN f.lines : f.lines[n] \in Line
         /\ f.newline \in BOOLEAN
         /\ Titles(f) \subseteq Nat /\ Commands(f) \subseteq Nat
         /\ \A n \in Titles(f) \cup Commands(f) : n > 0 /\ n <= Len(f.lines)
         /\ Titles(f) \cap Commands(f) = {}
<1>1. f.lines \in Seq(Line) /\ f.newline \in BOOLEAN
  BY DEF File
<1>2. /\ Len(f.lines) \in Nat /\ DOMAIN f.lines = 1..Len(f.lines)
      /\ \A n \in DOMAIN f.lines : f.lines[n] \in Line
  BY <1>1, LenProperties, ElementOfSeq
<1>3. Titles(f) \subseteq DOMAIN f.lines /\ Commands(f) \subseteq DOMAIN f.lines
  BY DEF Titles, Commands
<1>4. Titles(f) \cap Commands(f) = {}
  BY DEF Titles, Commands
<1> QED BY <1>1, <1>2, <1>3, <1>4

(* Every medium holds a file.                                              *)
LEMMA MediumFact ==
  ASSUME sd \in File, NEW b
  PROVE  Medium(b) \in File
BY ConfigAssumption DEF Medium

LEMMA LoadFact ==
  ASSUME TypeOK
  PROVE  LoadOutcome.from_spi \in BOOLEAN
<1> DEFINE retry == sd = NoFile \/ do_load_config_file(Medium(grub_cln_loaded_from_spi)).failed
<1>1. LoadOutcome.from_spi = IF retry THEN FromSpi ELSE grub_cln_loaded_from_spi
  BY DEF LoadOutcome
<1> HIDE DEF retry
<1>2. FromSpi \in BOOLEAN /\ grub_cln_loaded_from_spi \in BOOLEAN
  BY ConfigAssumption DEF TypeOK, SourceType
<1> QED BY <1>1, <1>2

(* Between the offset and the line that is read there are only comments.   *)
LEMMA LineIsNext ==
  ASSUME file \in File, Offset \in 0..Len(file.lines),
         NEW n \in DOMAIN file.lines, NextLine(n)
  PROVE  NextTo(file, Offset, n)
<1>1. n \in Nat /\ n > 0 /\ n <= Len(file.lines)
  BY FileFacts
<1>2. n > Offset /\ \A m \in (Offset + 1)..(n - 1) : Skipped(m)
  BY <1>1 DEF NextLine
<1>3. \A m \in Titles(file) \cup Commands(file) : ~Skipped(m)
  BY DEF Titles, Commands, Skipped
<1>4. \A m \in Titles(file) \cup Commands(file) :
         m \in Nat /\ m > 0 /\ (m <= Offset \/ m >= n)
  BY <1>1, <1>2, <1>3, FileFacts
<1>5. n \in Titles(file) => n \notin Commands(file)
  BY FileFacts
<1>6. Offset \in Nat
  BY FileFacts
<1> HIDE DEF Offset
<1> QED BY <1>1, <1>2, <1>4, <1>5, <1>6 DEF NextTo

-----------------------------------------------------------------------------
(* The types.                                                              *)

LEMMA FrontOf ==
  ASSUME NEW S, NEW s \in Seq(S), NEW k \in 0..Len(s)
  PROVE  /\ SubSeq(s, 1, k) \in Seq(S) /\ Len(SubSeq(s, 1, k)) = k
         /\ \A j \in 1..k : SubSeq(s, 1, k)[j] = s[j]
BY SubSeqProperties, LenProperties

LEMMA InitTypes == Init => TypeOK /\ FilesInv /\ AreasInv /\ SelectionInv /\ SignedOnly
<1> SUFFICES ASSUME Init
             PROVE  TypeOK /\ FilesInv /\ AreasInv /\ SelectionInv /\ SignedOnly
  OBVIOUS
<1>1. NoFile \in File /\ sd \in File /\ Len(NoFile.lines) = 0
  BY ConfigAssumption DEF Init, NoFile
<1>2. <<>> \in Seq(0..0) /\ Len(<<>>) = 0
  OBVIOUS
<1>3. fallback_entries \in [Slots -> Nat \cup {-1}]
  BY DEF Init
<1>4. TypeOK
  <2>1. Len(file.lines) = 0 /\ Len(menu) = 0 /\ Len(config) = 0
    BY <1>1 DEF Init
  <2>2. AreasType
    BY <2>1 DEF Init, AreasType
  <2>3. preset_menu \in BOOLEAN /\ is_preset \in BOOLEAN
    BY DEF Init
  <2>4. SourceType
    BY <2>3 DEF Init, SourceType
  <2>5. ChoiceType
    BY <1>3, ConfigAssumption DEF Init, ChoiceType
  <2> QED BY <2>2, <2>4, <2>5 DEF TypeOK
<1>5. FilesInv
  BY <1>1 DEF Init, FilesInv, Endless
<1>6. AreasInv /\ SelectionInv /\ SignedOnly
  BY DEF Init, AreasInv, SelectionInv, SignedOnly, Interactive
<1> QED BY <1>4, <1>5, <1>6

(* What reset leaves.                                                      *)
LEMMA ResetTypes ==
  ASSUME TypeOK, reset, NEW g
  PROVE  /\ menu' = <<>> /\ config' = <<>> /\ num_entries' = 0 /\ state' = 0
         /\ prev_menu_len' = 0 /\ prev_config_len' = 0
         /\ menu' \in Seq(0..Len(g.lines)) /\ config' \in Seq(0..Len(g.lines))
         /\ prev_menu_len' \in 0..Len(menu') /\ prev_config_len' \in 0..Len(config')
         /\ default_entry' \in Nat /\ fallback_entryno' = -1
         /\ fallback_entries' \in [Slots -> Nat \cup {-1}]
<1>1. fallback_entries' \in [Slots -> Nat \cup {-1}]
  BY DEF reset, init_config, TypeOK, ChoiceType
<1> QED BY <1>1 DEF reset, init_config
-----------------------------------------------------------------------------
(* Loading.                                                                *)

(* Nothing of a file is read at offset 0.                                  *)
LEMMA NothingRead ==
  ASSUME NEW f \in File
  PROVE  /\ TitlesRead(f, 0, 0, <<>>, 0) /\ CommandsRead(f, 0, <<>>)
         /\ EndsRead(0, <<>>, 0, <<>>, 0)
<1>1. \A n \in Titles(f) \cup Commands(f) : n \in Nat /\ n > 0
  BY FileFacts
<1>2. Len(<<>>) = 0
  OBVIOUS
<1>3. TitlesRead(f, 0, 0, <<>>, 0)
  BY <1>1, <1>2 DEF TitlesRead
<1>4. CommandsRead(f, 0, <<>>)
  BY <1>1, <1>2 DEF CommandsRead
<1> QED BY <1>2, <1>3, <1>4 DEF EndsRead

(* The areas are those of the file as long as neither changes.             *)
LEMMA AreasUnchanged ==
  ASSUME UNCHANGED <<file, menu, config, num_entries>>
  PROVE  HoldEntries(file)' <=> HoldEntries(file)
BY DEF HoldEntries

(* What the beginning of a file needs, whichever it is.                    *)
LEMMA FileOpened ==
  ASSUME IInv, reset, pc = "load", file' \in File, UNCHANGED <<sd, cln_index, i, loads>>,
         pc' = "line", is_preset' \in BOOLEAN, preset_menu_offset' \in Nat,
         is_preset' => preset_menu_offset' = 0
  PROVE  AreasType' /\ ChoiceType' /\ FilesInv' /\ AreasInv' /\ SelectionInv'
<1>1. TypeOK /\ FilesInv
  BY DEF IInv
<1>2. cln_index = 0
  BY <1>1 DEF FilesInv
<1>3. Len(file'.lines) \in Nat
  BY FileFacts
<1> DEFINE L == Len(file'.lines)
<1> HIDE DEF L
<1>4. /\ menu' = <<>> /\ config' = <<>> /\ num_entries' = 0 /\ state' = 0
      /\ prev_menu_len' = 0 /\ prev_config_len' = 0
      /\ menu' \in Seq(0..L) /\ config' \in Seq(0..L)
      /\ prev_menu_len' \in 0..Len(menu') /\ prev_config_len' \in 0..Len(config')
      /\ default_entry' \in Nat /\ fallback_entryno' = -1
      /\ fallback_entries' \in [Slots -> Nat \cup {-1}]
  BY <1>1, ResetTypes DEF L
<1>5. AreasType'
  BY <1>2, <1>3, <1>4 DEF AreasType, L
<1>6. ChoiceType'
  BY <1>1, <1>4, ConfigAssumption DEF ChoiceType, TypeOK
<1>7. FilesInv'
  BY <1>1, <1>2, <1>3 DEF FilesInv, Endless
<1>8. Offset' = 0
  BY <1>2 DEF Offset
<1>9. Parsed'
  BY <1>3, <1>4, <1>8, NothingRead DEF Parsed
<1>10. AreasInv' /\ SelectionInv'
  BY <1>4, <1>9 DEF AreasInv, SelectionInv, Interactive
<1> QED BY <1>5, <1>6, <1>7, <1>10

LEMMA OpenPresetInv ==
  ASSUME IInv, OpenPreset, UNCHANGED grub_cln_secure
  PROVE  IInv'
<1>1. Preset \in File
  BY ConfigAssumption
<1>2. AreasType' /\ ChoiceType' /\ FilesInv' /\ AreasInv' /\ SelectionInv'
  BY <1>1, FileOpened DEF OpenPreset, source
<1>3. SourceType'
  BY DEF OpenPreset, source, IInv, TypeOK, SourceType
<1>4. SignedOnly'
  BY DEF OpenPreset, SignedOnly
<1> QED BY <1>2, <1>3, <1>4 DEF IInv, TypeOK

(* On a Secure Boot SKU only a verified file is opened.                    *)
LEMMA LoadVerifies ==
  ASSUME grub_cln_secure, LoadOutcome.errnum = "none"
  PROVE  Medium(LoadOutcome.from_spi).signature = "good"
<1> DEFINE first == do_load_config_file(Medium(grub_cln_loaded_from_spi))
           retry == sd = NoFile \/ first.failed
<1>1. CASE retry
  <2>1. LoadOutcome.from_spi = FromSpi
    BY <1>1 DEF LoadOutcome
  <2>2. do_load_config_file(Medium(FromSpi)).errnum = "none"
    BY <1>1 DEF LoadOutcome
  <2> QED BY <2>1, <2>2 DEF do_load_config_file
<1>2. CASE ~retry
  <2>1. LoadOutcome.from_spi = grub_cln_loaded_from_spi
    BY <1>2 DEF LoadOutcome
  <2>2. do_load_config_file(Medium(grub_cln_loaded_from_spi)).errnum = "none"
    BY <1>2 DEF LoadOutcome
  <2> QED BY <2>1, <2>2 DEF do_load_config_file
<1> QED BY <1>1, <1>2

LEMMA OpenConfigInv ==
  ASSUME IInv, OpenConfig, UNCHANGED grub_cln_secure
  PROVE  IInv'
<1>1. TypeOK /\ FilesInv /\ AreasInv /\ SelectionInv
  BY DEF IInv
<1>2. pc = "load" /\ cln_index = 0 /\ UNCHANGED <<sd, preset_menu, cln_index,
                                               preset_menu_offset, i, loads>>
  BY <1>1 DEF OpenConfig, FilesInv
<1>3. config_file' = GrubConf /\ grub_cln_loaded_from_spi' \in BOOLEAN
  BY <1>1, LoadFact DEF OpenConfig
<1>4. CASE LoadOutcome.errnum = "none"
  <2>1. /\ reset /\ file' = Medium(LoadOutcome.from_spi) /\ is_preset' = FALSE
        /\ pc' = "line"
    BY <1>4 DEF OpenConfig
  <2>2. file' \in File
    BY <2>1, <1>1, MediumFact DEF FilesInv
  <2>3. preset_menu_offset' \in Nat
    BY <1>1, <1>2 DEF TypeOK, AreasType
  <2>4. AreasType' /\ ChoiceType' /\ FilesInv' /\ AreasInv' /\ SelectionInv'
    BY <1>2, <2>1, <2>2, <2>3, FileOpened
  <2>5. SourceType'
    BY <1>1, <1>2, <1>3, <2>1 DEF TypeOK, SourceType
  <2>6. SignedOnly'
    BY <1>4, <2>1, LoadVerifies DEF SignedOnly
  <2> QED BY <2>4, <2>5, <2>6 DEF IInv, TypeOK
<1>5. CASE LoadOutcome.errnum # "none"
  <2>1. pc' = "recovery" /\ UNCHANGED <<file, is_preset, areas, choice>>
    BY <1>5 DEF OpenConfig
  <2>2. SourceType'
    BY <1>1, <1>2, <1>3, <2>1 DEF TypeOK, SourceType, Interactive
  <2>3. AreasType' /\ ChoiceType'
    BY <1>1, <1>2, <2>1 DEF TypeOK, AreasType, ChoiceType, areas, choice
  <2>4. FilesInv'
    BY <1>1, <1>2, <2>1 DEF FilesInv, Endless
  <2>5. AreasInv'
    BY <1>1, <1>2, <2>1, AreasUnchanged DEF AreasInv, areas
  <2>6. SelectionInv'
    BY <1>1, <1>2, <2>1 DEF SelectionInv, FallbackValid, Interactive, areas, choice
  <2>7. SignedOnly'
    BY <2>1 DEF SignedOnly
  <2> QED BY <2>2, <2>3, <2>4, <2>5, <2>6, <2>7 DEF IInv, TypeOK
<1> QED BY <1>4, <1>5
-----------------------------------------------------------------------------
(* A line.                                                                 *)

LEMMA OffsetMoves ==
  ASSUME TypeOK, FilesInv, pc = "line", NEW n \in DOMAIN file.lines,
         NextLine(n), Consume(n), UNCHANGED <<file, is_preset>>
  PROVE  /\ cln_index' \in 0..Len(file.lines) /\ preset_menu_offset' \in Nat
         /\ is_preset => cln_index' = 0
         /\ Endless => cln_index' < Len(file.lines)
         /\ ~Endless => Offset' = n
<1> DEFINE L == Len(file.lines)
<1>1. L \in Nat /\ n \in Nat /\ n > 0 /\ n <= L
  BY FileFacts DEF FilesInv
<1>2. ~Skipped(n)
  BY <1>1 DEF NextLine
<1>3. cln_index \in 0..L /\ preset_menu_offset \in Nat /\ is_preset \in BOOLEAN
  BY DEF TypeOK, AreasType, SourceType
<1>4. n = L /\ ~file.newline /\ ~is_preset => Endless
  BY <1>1, <1>2 DEF Endless
<1>5. Endless => ~is_preset /\ ~file.newline
  BY DEF Endless
<1>6. CASE is_preset
  <2>1. preset_menu_offset' = n /\ cln_index' = cln_index /\ cln_index = 0
    BY <1>1, <1>6 DEF Consume, FilesInv
  <2>2. Offset' = n
    BY <1>6, <2>1 DEF Offset
  <2> QED BY <1>1, <1>5, <1>6, <2>1, <2>2
<1>7. CASE ~is_preset
  <2>1. /\ cln_index' = (IF n = L /\ ~file.newline THEN 0 ELSE n)
        /\ preset_menu_offset' = preset_menu_offset
    BY <1>7 DEF Consume
  <2>2. Offset' = cln_index'
    BY <1>7 DEF Offset
  <2> HIDE DEF L
  <2>3. cln_index' \in 0..L
    BY <1>1, <2>1
  <2>4. Endless => cln_index' < L
    BY <1>1, <1>5, <2>1
  <2>5. ~Endless => cln_index' = n
    BY <1>4, <1>7, <2>1
  <2> QED BY <1>3, <1>7, <2>1, <2>2, <2>3, <2>4, <2>5 DEF L
<1> QED BY <1>6, <1>7

(* The areas after a line, said of their values.                           *)
AreasNext ==
  /\ state' \in 0..2 /\ num_entries' \in Nat
  /\ menu' \in Seq(0..Len(file.lines)) /\ prev_menu_len' \in 0..Len(menu')
  /\ config' \in Seq(0..Len(file.lines)) /\ prev_config_len' \in 0..Len(config')

LEMMA Appended ==
  ASSUME NEW S, NEW s \in Seq(S), NEW e \in S
  PROVE  /\ Append(s, e) \in Seq(S) /\ Len(Append(s, e)) = Len(s) + 1
         /\ Append(s, e)[Len(s) + 1] = e /\ Len(s) \in Nat
         /\ \A j \in 1..Len(s) : Append(s, e)[j] = s[j]
BY AppendProperties, LenProperties

LEMMA TitleTypes ==
  ASSUME TypeOK, file \in File, NEW n \in DOMAIN file.lines, title(n)
  PROVE  AreasNext
<1> DEFINE S == 0..Len(file.lines)
<1>1. n \in S /\ 0 \in S
  BY FileFacts
<1>2. /\ menu \in Seq(S) /\ config \in Seq(S) /\ num_entries \in Nat
      /\ prev_menu_len \in 0..Len(menu) /\ prev_config_len \in 0..Len(config)
  BY DEF TypeOK, AreasType
<1> HIDE DEF S
<1>3. state' = 1
  BY DEF title
<1>4. CASE state > 1
  <2>1. /\ num_entries' = num_entries + 1 /\ config' = Append(config, 0)
        /\ menu' = Append(menu, n) /\ prev_menu_len' = Len(menu)
        /\ prev_config_len' = Len(config')
    BY <1>4 DEF title
  <2>2. /\ menu' \in Seq(S) /\ Len(menu') = Len(menu) + 1 /\ Len(menu) \in Nat
        /\ config' \in Seq(S) /\ Len(config') = Len(config) + 1 /\ Len(config) \in Nat
    BY <1>1, <1>2, <2>1, Appended
  <2> QED BY <1>2, <1>3, <2>1, <2>2 DEF AreasNext, S
<1>5. CASE ~(state > 1)
  <2>1. /\ menu' = Append(SubSeq(menu, 1, prev_menu_len), n)
        /\ config' = SubSeq(config, 1, prev_config_len)
        /\ UNCHANGED <<num_entries, prev_menu_len, prev_config_len>>
    BY <1>5 DEF title
  <2> DEFINE front == SubSeq(menu, 1, prev_menu_len)
  <2>2. front \in Seq(S) /\ Len(front) = prev_menu_len
    BY <1>2, FrontOf
  <2>3. config' \in Seq(S) /\ Len(config') = prev_config_len
    BY <1>2, <2>1, FrontOf
  <2>4. menu' = Append(front, n)
    BY <2>1
  <2> HIDE DEF front
  <2>5. menu' \in Seq(S) /\ Len(menu') = prev_menu_len + 1 /\ prev_menu_len \in Nat
    BY <1>1, <2>2, <2>4, Appended
  <2> QED BY <1>2, <1>3, <2>1, <2>3, <2>5 DEF AreasNext, S
<1> QED BY <1>4, <1>5

LEMMA CommandTypes ==
  ASSUME TypeOK, file \in File, NEW n \in DOMAIN file.lines, command(n)
  PROVE  AreasNext
<1> DEFINE S == 0..Len(file.lines)
<1>1. n \in S
  BY FileFacts
<1>2. /\ menu \in Seq(S) /\ config \in Seq(S) /\ num_entries \in Nat
      /\ prev_menu_len \in 0..Len(menu) /\ prev_config_len \in 0..Len(config)
      /\ state \in 0..2
  BY DEF TypeOK, AreasType
<1> HIDE DEF S
<1>3. CASE UNCHANGED areas
  BY <1>2, <1>3 DEF AreasNext, areas, S
<1>4. CASE /\ state' = 2 /\ config' = Append(config, n)
           /\ UNCHANGED <<menu, prev_menu_len, prev_config_len, num_entries>>
  <2>1. config' \in Seq(S) /\ Len(config') = Len(config) + 1 /\ Len(config) \in Nat
    BY <1>1, <1>2, <1>4, Appended
  <2> QED BY <1>2, <1>4, <2>1 DEF AreasNext, S
<1> QED BY <1>3, <1>4 DEF command

(* The choice after a menu command.                                        *)
LEMMA FallbackTypes ==
  ASSUME TypeOK, NEW list \in Seq(Nat \cup {NoNumber}), fallback_func(list)
  PROVE  /\ fallback_entries' \in [Slots -> Nat \cup {-1}]
         /\ fallback_entryno' \in {fallback_entryno, -1, 0}
         /\ default_entry' = default_entry
<1>1. PICK n \in 0..MAX_FALLBACK_ENTRIES :
        LET stopped == n < Len(list) /\ n < MAX_FALLBACK_ENTRIES
            failed == stopped /\ (list[n + 1] = NoNumber \/ n + 1 < Len(list))
        IN /\ Stored(list, n)
           /\ fallback_entries' = [s \in Slots |->
                IF s < n THEN list[s + 1]
                ELSE IF s = n /\ ~failed THEN -1 ELSE fallback_entries[s]]
           /\ fallback_entryno' = IF failed THEN fallback_entryno
                                  ELSE IF n = 0 THEN -1 ELSE 0
           /\ UNCHANGED default_entry
  BY DEF fallback_func
<1> DEFINE failed == /\ n < Len(list) /\ n < MAX_FALLBACK_ENTRIES
                     /\ (list[n + 1] = NoNumber \/ n + 1 < Len(list))
<1>2. Stored(list, n) /\ Len(list) \in Nat /\ n \in Nat
  BY <1>1, LenProperties, ConfigAssumption
<1>3. /\ fallback_entries' = [s \in Slots |->
           IF s < n THEN list[s + 1]
           ELSE IF s = n /\ ~failed THEN -1 ELSE fallback_entries[s]]
      /\ fallback_entryno' \in {fallback_entryno, -1, 0}
      /\ default_entry' = default_entry
  BY <1>1
<1> HIDE DEF failed
<1>4. ASSUME NEW s \in Slots, s < n PROVE list[s + 1] \in Nat
  <2>1. s \in Nat /\ s + 1 \in 1..n /\ n <= Len(list)
    BY <1>2, <1>4, SlotsFact DEF Stored
  <2>2. list[s + 1] # NoNumber
    BY <1>2, <2>1 DEF Stored
  <2>3. list[s + 1] \in Nat \cup {NoNumber}
    BY <1>2, <2>1, ElementOfSeq
  <2> QED BY <2>2, <2>3
<1>5. \A s \in Slots : fallback_entries[s] \in Nat \cup {-1}
  BY DEF TypeOK, ChoiceType
<1> QED BY <1>3, <1>4, <1>5

LEMMA CommandChoice ==
  ASSUME TypeOK, file \in File, NEW n \in DOMAIN file.lines, command(n)
  PROVE  /\ fallback_entries' \in [Slots -> Nat \cup {-1}]
         /\ fallback_entryno' \in {fallback_entryno, -1, 0}
         /\ default_entry' \in Nat
<1> DEFINE line == file.lines[n]
<1>1. /\ line.num \in Nat \cup {NoNumber, Saved}
      /\ line.list \in Seq(Nat \cup {NoNumber})
  BY FileFacts DEF Line
<1> HIDE DEF line
<1>2. /\ default_entry \in Nat /\ SavedEntry \in Nat
      /\ fallback_entries \in [Slots -> Nat \cup {-1}]
  BY ConfigAssumption DEF TypeOK, ChoiceType
<1>3. CASE UNCHANGED choice
  BY <1>2, <1>3 DEF choice
<1>4. CASE default_func(line.num)
  BY <1>1, <1>2, <1>4 DEF default_func, NoNumber, Saved
<1>5. CASE fallback_func(line.list)
  BY <1>1, <1>2, <1>5, FallbackTypes
<1> QED BY <1>3, <1>4, <1>5 DEF command, line
(* A title leaves what was read in the areas.                              *)
LEMMA TitleParsed ==
  ASSUME TypeOK, FilesInv, Parsed, NEW n \in DOMAIN file.lines, NextLine(n),
         file.lines[n].k = "title", title(n), UNCHANGED file, Offset' = n
  PROVE  Parsed'
<1> DEFINE p == Offset
           k == num_entries
           S == 0..Len(file.lines)
<1>1. NextTo(file, p, n) /\ n \in Titles(file) /\ p \in Nat /\ p < n
  <2>1. NextTo(file, p, n)
    BY LineIsNext DEF Parsed, FilesInv
  <2> QED BY <2>1 DEF Titles, NextTo
<1>2. n \in S /\ 0 \in S /\ n \notin Commands(file) /\ n \in 0..Len(file.lines)
  BY <1>1, FileFacts DEF NextTo, FilesInv
<1>3. /\ menu \in Seq(S) /\ config \in Seq(S) /\ k \in Nat /\ state \in 0..2
      /\ Len(menu) \in Nat /\ Len(config) \in Nat
  BY LenProperties DEF TypeOK, AreasType
<1>4. /\ prev_menu_len = k
      /\ TitlesRead(file, p, state, menu, k)
      /\ CommandsRead(file, p, config)
      /\ EndsRead(state, menu, k, config, prev_config_len)
  BY DEF Parsed
<1>5. \A t \in Titles(file) : t \in Nat /\ t > 0
  BY <1>1 DEF NextTo
<1>6. \A c \in Commands(file) : c \in Nat /\ c > 0
  BY <1>1 DEF NextTo
<1>7. ASSUME /\ TitlesRead(file, n, 1, menu', num_entries')
             /\ CommandsRead(file, n, config')
             /\ EndsRead(1, menu', num_entries', config', prev_config_len')
             /\ prev_menu_len' = num_entries'
      PROVE  Parsed'
  BY <1>2, <1>7 DEF Parsed, title
<1> HIDE DEF p, S
<1>8. CASE state = 2
  <2>1. /\ num_entries' = k + 1 /\ config' = Append(config, 0)
        /\ menu' = Append(menu, n) /\ prev_menu_len' = Len(menu)
        /\ prev_config_len' = Len(config')
    BY <1>8 DEF title
  <2>2. Longer(menu', menu, n) /\ Longer(config', config, 0)
    BY <2>1, <1>2, <1>3, Appended DEF Longer
  <2>3. Len(config) > 0 /\ config[Len(config)] > menu[k + 1]
    BY <1>4, <1>8 DEF EndsRead
  <2>4. menu[k + 1] \in Titles(file) /\ Len(menu) = k + 1
    BY <1>4, <1>8 DEF TitlesRead
  <2>5. config[Len(config)] # 0
    BY <2>3, <2>4, <1>5
  <2>6. config[Len(config)] \in Commands(file) /\ config[Len(config)] <= p
    BY <2>3, <2>5, <1>3, <1>4 DEF CommandsRead
  <2>7. TitlesRead(file, n, 1, menu', k + 1)
    BY <1>1, <1>3, <1>4, <1>8, <2>2, <2>3, <2>6, TitleCloses
  <2>8. CommandsRead(file, n, config')
    <3>1. CommandsRead(file, p, config')
      BY <1>3, <1>4, <2>2, <2>3, <2>5, BodyClosed
    <3> QED BY <1>1, <1>2, <3>1, CommandsKept
  <2>9. EndsRead(1, menu', k + 1, config', Len(config'))
    <3>1. menu'[k + 2] = n /\ Len(config') = Len(config) + 1
      BY <2>2, <2>4, <1>3 DEF Longer
    <3>2. config'[Len(config')] = 0
      BY <2>2, <3>1 DEF Longer
    <3>3. ASSUME NEW j \in 1..Len(config') PROVE config'[j] < n
      <4>1. CASE config'[j] = 0
        BY <4>1, <1>1, <1>5
      <4>2. CASE config'[j] # 0
        <5>1. config'[j] \in Commands(file) /\ config'[j] <= n
          BY <2>8, <4>2 DEF CommandsRead
        <5>2. config'[j] # n
          BY <5>1, <1>2
        <5> QED BY <5>1, <5>2, <1>1, <1>5, <1>6
      <4> QED BY <4>1, <4>2
    <3> QED BY <1>3, <3>1, <3>2, <3>3 DEF EndsRead
  <2>10. prev_menu_len' = num_entries'
    BY <2>1, <2>4
  <2> QED BY <1>7, <2>1, <2>7, <2>8, <2>9, <2>10
<1>9. CASE state \in {0, 1}
  <2> DEFINE front == SubSeq(menu, 1, prev_menu_len)
  <2>1. /\ menu' = Append(front, n)
        /\ config' = SubSeq(config, 1, prev_config_len)
        /\ UNCHANGED <<num_entries, prev_menu_len, prev_config_len>>
    <3>1. ~(state > 1)
      BY <1>9
    <3> QED BY <3>1 DEF title
  <2>2. prev_config_len = Len(config) /\ config' = config
    BY <1>3, <1>4, <1>9, <2>1, WholeFront DEF EndsRead
  <2>3. k \in 0..Len(menu)
    BY <1>3, <1>4, <1>9 DEF TitlesRead
  <2>4. front \in Seq(S) /\ Len(front) = k /\ \A j \in 1..k : front[j] = menu[j]
    BY <1>3, <1>4, <2>3, FrontOf
  <2> HIDE DEF front
  <2>5. Len(menu') = k + 1 /\ menu'[k + 1] = n /\ \A j \in 1..k : menu'[j] = menu[j]
    <3>1. /\ Len(Append(front, n)) = k + 1 /\ Append(front, n)[k + 1] = n
          /\ \A j \in 1..k : Append(front, n)[j] = front[j]
      BY <1>2, <2>4, Appended
    <3> QED BY <2>1, <2>4, <3>1
  <2>6. CommandsRead(file, n, config')
    BY <1>1, <1>2, <1>4, <2>2, CommandsKept
  <2>7. TitlesRead(file, n, 1, menu', k)
    <3>1. CASE state = 0
      <4>1. k = 0
        BY <1>4, <3>1 DEF TitlesRead
      <4> QED BY <1>1, <1>4, <3>1, <4>1, <2>5, TitleFirst
    <3>2. CASE state = 1
      <4>1. \A c \in Commands(file) : c <= p => c < menu[k + 1]
        BY <1>4, <3>2 DEF CommandsRead, EndsRead
      <4> QED BY <1>1, <1>3, <1>4, <3>2, <4>1, <2>5, TitleReplaces
    <3> QED BY <1>9, <3>1, <3>2
  <2>8. EndsRead(1, menu', k, config', prev_config_len')
    <3>1. ASSUME NEW j \in 1..Len(config) PROVE config[j] < n
      <4>1. CASE config[j] = 0
        BY <4>1, <1>1, <1>5
      <4>2. CASE config[j] # 0
        <5>1. config[j] \in Commands(file) /\ config[j] <= p
          BY <1>4, <4>2 DEF CommandsRead
        <5> QED BY <5>1, <1>1, <1>5, <1>6
      <4> QED BY <4>1, <4>2
    <3>2. k > 0 => Len(config) > 0
      BY <1>4 DEF EndsRead
    <3>3. Len(config) > 0 => config[Len(config)] = 0
      BY <1>3, <1>4, <1>9 DEF EndsRead
    <3> QED BY <2>1, <2>2, <2>5, <3>1, <3>2, <3>3 DEF EndsRead
  <2> QED BY <1>4, <1>7, <2>1, <2>6, <2>7, <2>8
<1> QED BY <1>3, <1>8, <1>9

(* So does a command, and a line that is neither.                          *)
LEMMA CommandParsed ==
  ASSUME TypeOK, FilesInv, Parsed, NEW n \in DOMAIN file.lines, NextLine(n),
         n \notin Titles(file), state > 0, n \in Commands(file),
         state' = 2, config' = Append(config, n),
         UNCHANGED <<file, menu, prev_menu_len, prev_config_len, num_entries>>,
         Offset' = n
  PROVE  Parsed'
<1> DEFINE p == Offset
           k == num_entries
           S == 0..Len(file.lines)
<1>1. NextTo(file, p, n) /\ n \in Nat /\ p \in Nat /\ p < n /\ n \in S
  <2>1. NextTo(file, p, n)
    BY LineIsNext DEF Parsed, FilesInv
  <2>2. n \in S
    BY FileFacts DEF FilesInv
  <2> QED BY <2>1, <2>2 DEF NextTo
<1>2. /\ config \in Seq(S) /\ k \in Nat /\ state \in {1, 2} /\ Len(config) \in Nat
  BY LenProperties DEF TypeOK, AreasType
<1>3. /\ prev_menu_len = k
      /\ TitlesRead(file, p, state, menu, k)
      /\ CommandsRead(file, p, config)
      /\ EndsRead(state, menu, k, config, prev_config_len)
  BY DEF Parsed
<1>4. /\ \A t \in Titles(file) : t \in Nat /\ t > 0 /\ (t <= p \/ t >= n)
      /\ \A c \in Commands(file) : c \in Nat /\ c > 0
  BY <1>1 DEF NextTo
<1> HIDE DEF p, S
<1>5. Longer(config', config, n)
  BY <1>1, <1>2, Appended DEF Longer
<1> DEFINE t == menu[k + 1]
<1>6. /\ t \in Titles(file) /\ t <= p /\ \A u \in Titles(file) : u <= p => u <= t
      /\ \A u \in Titles(file) : u < n => u <= t
  <2>1. /\ t \in Titles(file) /\ t <= p /\ \A u \in Titles(file) : u <= p => u <= t
    BY <1>2, <1>3 DEF TitlesRead
  <2> HIDE DEF t
  <2>2. \A u \in Titles(file) : u < n => u <= p
    BY <1>1, <1>4
  <2> QED BY <2>1, <2>2
<1>7. TitlesRead(file, n, 2, menu, k)
  <2>1. TitlesRead(file, n, state, menu, k)
    BY <1>1, <1>2, <1>3, TitlesKept
  <2> QED BY <2>1, <1>2 DEF TitlesRead
<1>8. ASSUME Len(config) > 0, config[Len(config)] # 0
      PROVE  ~Between(file, config[Len(config)], n)
  <2>1. state = 2
    BY <1>2, <1>3, <1>8 DEF EndsRead
  <2>2. config[Len(config)] > t
    BY <1>3, <2>1 DEF EndsRead
  <2>3. config[Len(config)] \in Nat
    BY <1>2, <1>3, <1>4, <1>8 DEF CommandsRead
  <2> HIDE DEF t
  <2> QED BY <1>4, <1>6, <2>2, <2>3 DEF Between
<1>9. ASSUME Len(config) > 0, config[Len(config)] = 0
      PROVE  Between(file, config[Len(config) - 1], n)
  <2>1. Len(config) > 1 /\ config[Len(config) - 1] # 0
    BY <1>2, <1>3, <1>9 DEF CommandsRead
  <2>2. state = 1
    <3>1. state = 2 => config[Len(config)] > t
      BY <1>3 DEF EndsRead
    <3> QED BY <3>1, <1>2, <1>4, <1>6, <1>9
  <2>3. config[Len(config) - 1] < t
    BY <1>2, <1>3, <2>1, <2>2 DEF EndsRead
  <2>4. t < n
    BY <1>1, <1>4, <1>6
  <2> QED BY <1>6, <2>3, <2>4 DEF Between
<1>10. CommandsRead(file, n, config')
  BY <1>1, <1>2, <1>3, <1>5, <1>8, <1>9, CommandAppended
<1>11. EndsRead(2, menu, k, config', prev_config_len)
  <2>1. Len(config') = Len(config) + 1 /\ config'[Len(config')] = n
    BY <1>5 DEF Longer
  <2>2. n > t
    BY <1>1, <1>4, <1>6
  <2> QED BY <1>2, <2>1, <2>2 DEF EndsRead
<1>12. Offset' \in 0..Len(file.lines)
  BY <1>1 DEF S
<1> QED BY <1>3, <1>7, <1>10, <1>11, <1>12 DEF Parsed

LEMMA LineParsed ==
  ASSUME TypeOK, FilesInv, Parsed, NEW n \in DOMAIN file.lines, NextLine(n),
         n \notin Titles(file), n \notin Commands(file),
         UNCHANGED <<file, areas>>, Offset' = n
  PROVE  Parsed'
<1>1. NextTo(file, Offset, n) /\ n \in 0..Len(file.lines)
  BY LineIsNext, FileFacts DEF Parsed, FilesInv
<1>2. num_entries \in Nat
  BY DEF TypeOK, AreasType
<1>3. TitlesRead(file, n, state, menu, num_entries)
  BY <1>1, <1>2, TitlesKept DEF Parsed
<1>4. CommandsRead(file, n, config)
  BY <1>1, CommandsKept DEF Parsed
<1> QED BY <1>1, <1>3, <1>4 DEF Parsed, areas
LEMMA ReadLineInv ==
  ASSUME IInv, ReadLine, UNCHANGED grub_cln_secure
  PROVE  IInv'
<1>1. TypeOK /\ FilesInv /\ AreasInv /\ SelectionInv /\ SignedOnly
  BY DEF IInv
<1>2. pc = "line" /\ UNCHANGED <<pc, source, file, is_preset, i, loads>>
  BY DEF ReadLine
<1>3. PICK n \in DOMAIN file.lines :
        /\ NextLine(n) /\ Consume(n)
        /\ CASE file.lines[n].k = "unknown" -> UNCHANGED <<areas, choice>>
             [] file.lines[n].k = "title" -> title(n)
             [] OTHER -> command(n)
  BY DEF ReadLine
<1> DEFINE k == file.lines[n].k
<1> HIDE DEF k
<1>4. k # "comment" /\ n > 0
  BY <1>1, <1>3, FileFacts DEF NextLine, Skipped, FilesInv, k
<1>5. \/ k = "unknown" /\ UNCHANGED <<areas, choice>>
      \/ k = "title" /\ title(n)
      \/ k \notin {"unknown", "title", "comment"} /\ command(n)
  BY <1>3, <1>4 DEF k
<1>6. /\ cln_index' \in 0..Len(file.lines) /\ preset_menu_offset' \in Nat
      /\ is_preset => cln_index' = 0
      /\ Endless => cln_index' < Len(file.lines)
      /\ ~Endless => Offset' = n
  BY <1>1, <1>2, <1>3, OffsetMoves
<1>7. SourceType'
  BY <1>1, <1>2 DEF TypeOK, SourceType, source
<1>8. AreasType'
  <2>1. AreasNext
    <3>1. CASE UNCHANGED <<areas, choice>>
      BY <1>1, <3>1 DEF TypeOK, AreasType, AreasNext, areas
    <3>2. CASE title(n)
      BY <1>1, <1>3, <3>2, TitleTypes DEF FilesInv
    <3>3. CASE command(n)
      BY <1>1, <1>3, <3>3, CommandTypes DEF FilesInv
    <3> QED BY <1>5, <3>1, <3>2, <3>3
  <2> QED BY <1>2, <1>6, <2>1 DEF AreasNext, AreasType
<1>9. /\ fallback_entries' \in [Slots -> Nat \cup {-1}]
      /\ fallback_entryno' \in {fallback_entryno, -1, 0}
      /\ default_entry' \in Nat
  <2>1. CASE UNCHANGED choice
    BY <1>1, <2>1 DEF TypeOK, ChoiceType, choice
  <2>2. CASE command(n)
    BY <1>1, <1>3, <2>2, CommandChoice DEF FilesInv
  <2> QED BY <1>5, <2>1, <2>2 DEF title
<1>10. ChoiceType'
  BY <1>1, <1>2, <1>9, ConfigAssumption DEF TypeOK, ChoiceType
<1>11. UNCHANGED <<pc, sd, file, is_preset>> /\ (Endless' <=> Endless)
  BY <1>2 DEF Endless, Skipped, source
<1>12. FilesInv'
  BY <1>1, <1>2, <1>6, <1>11 DEF FilesInv
<1>13. SelectionInv'
  BY <1>1, <1>2, <1>9 DEF SelectionInv, Interactive
<1>14. SignedOnly'
  BY <1>1, <1>2 DEF SignedOnly
<1>15. ASSUME ~Endless PROVE Parsed'
  <2>1. Parsed /\ Offset' = n
    BY <1>1, <1>2, <1>6, <1>15 DEF AreasInv
  <2>2. NextTo(file, Offset, n) /\ n \in Nat /\ Offset \in Nat /\ Offset < n
    <3>1. NextTo(file, Offset, n)
      BY <1>1, <1>3, <2>1, LineIsNext DEF Parsed, FilesInv
    <3> HIDE DEF Offset
    <3> QED BY <3>1 DEF NextTo
  <2>3. CASE k = "unknown" /\ UNCHANGED <<areas, choice>>
    <3>1. n \notin Titles(file) /\ n \notin Commands(file)
      BY <2>3 DEF Titles, Commands, k
    <3> QED BY <1>1, <1>2, <1>3, <2>1, <2>3, <3>1, LineParsed
  <2>4. CASE k = "title" /\ title(n)
    BY <1>1, <1>2, <1>3, <2>1, <2>4, TitleParsed DEF k
  <2>5. CASE k \notin {"unknown", "title", "comment"} /\ command(n)
    <3>1. n \notin Titles(file)
      BY <2>5 DEF Titles, k
    <3>2. CASE state = 0
      <4>1. UNCHANGED areas
        BY <2>5, <3>2 DEF command
      <4>2. \A t \in Titles(file) : t \in Nat /\ t > Offset /\ (t <= Offset \/ t >= n)
        BY <2>1, <2>2, <3>2 DEF Parsed, TitlesRead, NextTo
      <4>3. n \notin Commands(file)
        BY <2>2, <4>2 DEF Commands
      <4> QED BY <1>1, <1>2, <1>3, <2>1, <3>1, <4>1, <4>3, LineParsed
    <3>3. CASE state > 0
      <4>1. /\ state' = 2 /\ config' = Append(config, n)
            /\ UNCHANGED <<menu, prev_menu_len, prev_config_len, num_entries>>
        BY <2>5, <3>3 DEF command
      <4>2. menu[num_entries + 1] \in Titles(file) /\ menu[num_entries + 1] <= Offset
        BY <2>1, <3>3 DEF Parsed, TitlesRead
      <4>3. menu[num_entries + 1] < n
        BY <2>2, <4>2 DEF NextTo
      <4>4. n \in Commands(file)
        BY <2>5, <4>2, <4>3 DEF Commands, k
      <4> QED BY <1>1, <1>2, <1>3, <2>1, <3>1, <3>3, <4>1, <4>4, CommandParsed
    <3> QED BY <1>1, <3>2, <3>3 DEF TypeOK, AreasType
  <2> QED BY <1>5, <2>3, <2>4, <2>5
<1>16. AreasInv'
  BY <1>2, <1>11, <1>15 DEF AreasInv
<1> QED BY <1>7, <1>8, <1>10, <1>12, <1>13, <1>14, <1>16 DEF IInv, TypeOK

-----------------------------------------------------------------------------
(* The end of the file.                                                    *)

(* At the end there is nothing left to read.                               *)
LEMMA AllRead ==
  ASSUME TypeOK, FilesInv, pc = "line", NextLine(0)
  PROVE  /\ ~Endless
         /\ Offset \in 0..Len(file.lines) =>
              \A n \in Titles(file) \cup Commands(file) : n \in Nat /\ n > 0 /\ n <= Offset
<1>1. Len(file.lines) \in Nat
  BY FileFacts DEF FilesInv
<1>2. 0 \notin DOMAIN file.lines
  BY FileFacts DEF FilesInv
<1>3. \A m \in (Offset + 1)..Len(file.lines) : Skipped(m)
  BY <1>2 DEF NextLine
<1>4. ~Endless
  <2>1. SUFFICES ASSUME Endless PROVE FALSE
    OBVIOUS
  <2>2. /\ Offset = cln_index /\ cln_index < Len(file.lines) /\ cln_index \in Nat
        /\ ~Skipped(Len(file.lines))
    BY <1>1, <2>1 DEF Endless, Offset, FilesInv, TypeOK, AreasType
  <2> HIDE DEF Offset
  <2> QED BY <1>1, <1>3, <2>2
<1>5. ASSUME Offset \in 0..Len(file.lines), NEW n \in Titles(file) \cup Commands(file)
      PROVE  n \in Nat /\ n > 0 /\ n <= Offset
  <2>1. n \in Nat /\ n > 0 /\ n <= Len(file.lines)
    BY FileFacts DEF FilesInv
  <2>2. ~Skipped(n)
    BY DEF Titles, Commands, Skipped
  <2> HIDE DEF Offset
  <2> QED BY <1>1, <1>3, <1>5, <2>1, <2>2
<1> QED BY <1>4, <1>5
LEMMA ReadBodies ==
  ASSUME NEW f, NEW p, NEW c, NEW a, Len(c) \in Nat, CommandsRead(f, p, c),
         \A n \in Commands(f) : n \in Nat /\ n > 0 /\ n <= p,
         \A j \in 1..Len(c) : a[j] = c[j]
  PROVE  Bodies(a, Len(c), f)
<1> DEFINE k == Len(c)
<1>1. /\ \A j \in 1..k : c[j] # 0 => c[j] \in Commands(f)
      /\ \A d \in Commands(f) : \E j \in 1..k : c[j] = d
      /\ \A j, l \in 1..k : j < l /\ c[j] # 0 /\ c[l] # 0 => c[j] < c[l]
      /\ \A j \in 1..k : c[j] = 0 => j > 1 /\ c[j - 1] # 0
      /\ \A j \in 1..(k - 1) :
           /\ c[j] # 0 /\ c[j + 1] # 0 => ~Between(f, c[j], c[j + 1])
           /\ c[j] = 0 => Between(f, c[j - 1], c[j + 1])
  BY DEF CommandsRead
<1>2. k \in Nat /\ 0 \notin Commands(f) /\ \A j \in 1..k : a[j] = c[j]
  OBVIOUS
<1> HIDE DEF k
<1>3. {a[j] : j \in 1..k} \ {0} = Commands(f)
  BY <1>1, <1>2
<1>4. \A j, l \in 1..k : j < l /\ a[j] # 0 /\ a[l] # 0 => a[j] < a[l]
  BY <1>1, <1>2
<1>5. \A j \in 1..k : a[j] = 0 => j > 1 /\ a[j - 1] # 0
  BY <1>1, <1>2
<1>6. ASSUME NEW j \in 1..(k - 1)
      PROVE  /\ a[j] # 0 /\ a[j + 1] # 0 => ~Between(f, a[j], a[j + 1])
             /\ a[j] = 0 => Between(f, a[j - 1], a[j + 1])
  <2>1. a[j] = c[j] /\ a[j + 1] = c[j + 1]
    BY <1>2
  <2>2. c[j] = 0 => a[j - 1] = c[j - 1]
    BY <1>1, <1>2
  <2> QED BY <2>1, <2>2, <1>1
<1> QED BY <1>3, <1>4, <1>5, <1>6 DEF Bodies, k

(* The entries of the file, once its last title is known to be one or not. *)
LEMMA ReadEntries ==
  ASSUME NEW f, NEW p \in Nat, NEW st \in {1, 2}, NEW m, NEW a, NEW k \in Nat,
         TitlesRead(f, p, st, m, k),
         \A n \in Titles(f) \cup Commands(f) : n \in Nat /\ n > 0 /\ n <= p,
         \A j \in 1..(k + 1) : a[j] = m[j]
  PROVE  /\ (\E c \in Commands(f) : m[k + 1] < c) => Lists(a, k + 1, Entries(f))
         /\ (\A c \in Commands(f) : c < m[k + 1]) => Lists(a, k, Entries(f))
<1> DEFINE t == m[k + 1]
<1>1. /\ t \in Titles(f) /\ t <= p
      /\ \A u \in Titles(f) : u <= p => u <= t
      /\ \A j \in 1..k : m[j] \in Entries(f) /\ m[j] < t
      /\ \A u \in Entries(f) : u < t => \E j \in 1..k : m[j] = u
      /\ \A j, l \in 1..k : j < l => m[j] < m[l]
  BY DEF TitlesRead
<1>2. \A u \in Titles(f) : u \in Nat /\ u <= t
  BY <1>1
<1>3. \A u \in Entries(f) : u \in Titles(f) /\ u \in Nat /\ u <= t
  BY <1>2 DEF Entries
<1>4. /\ \A j \in 1..k : a[j] = m[j] /\ a[j] \in Entries(f)
      /\ k + 1 \in 1..(k + 1) /\ a[k + 1] = t
  BY <1>1
<1>5. \A c \in Commands(f) : c \in Nat
  OBVIOUS
<1> HIDE DEF t
<1>6. ASSUME NEW c \in Commands(f), t < c PROVE Lists(a, k + 1, Entries(f))
  <2>1. ~Between(f, t, c)
    BY <1>1, <1>2, <1>5, <1>6 DEF Between
  <2>2. t \in Entries(f)
    BY <1>1, <1>6, <2>1 DEF Entries
  <2>3. \A j \in 1..(k + 1) : a[j] \in Entries(f)
    BY <1>4, <2>2
  <2>4. ASSUME NEW u \in Entries(f) PROVE \E j \in 1..(k + 1) : a[j] = u
    <3>1. CASE u = t
      BY <3>1, <1>4
    <3>2. CASE u # t
      <4>1. u < t
        BY <3>2, <1>1, <1>2, <1>3
      <4>2. PICK j \in 1..k : m[j] = u
        BY <4>1, <1>1
      <4> QED BY <4>2, <1>4
    <3> QED BY <3>1, <3>2
  <2>5. ASSUME NEW j \in 1..(k + 1), NEW l \in 1..(k + 1), j < l PROVE a[j] < a[l]
    <3>1. CASE l = k + 1
      BY <3>1, <2>5, <1>1, <1>4
    <3>2. CASE l \in 1..k
      BY <3>2, <2>5, <1>1, <1>4
    <3> QED BY <3>1, <3>2
  <2> QED BY <2>3, <2>4, <2>5 DEF Lists
<1>7. ASSUME \A c \in Commands(f) : c < t PROVE Lists(a, k, Entries(f))
  <2>1. t \notin Entries(f)
    BY <1>1, <1>2, <1>5, <1>7 DEF Entries
  <2>2. ASSUME NEW u \in Entries(f) PROVE \E j \in 1..k : a[j] = u
    <3>1. u < t
      BY <2>1, <1>1, <1>2, <1>3
    <3>2. PICK j \in 1..k : m[j] = u
      BY <3>1, <1>1
    <3> QED BY <3>2, <1>4
  <2>3. \A j, l \in 1..k : j < l => a[j] < a[l]
    BY <1>1, <1>4
  <2> QED BY <1>4, <2>2, <2>3 DEF Lists
<1> QED BY <1>6, <1>7 DEF t

(* The areas hold the entries when the end of the file is reached.         *)
LEMMA EndHolds ==
  ASSUME TypeOK, FilesInv, Parsed, pc = "line", EndOfFile, num_entries' > 0
  PROVE  HoldEntries(file)'
<1> DEFINE p == Offset
           k == num_entries
           S == 0..Len(file.lines)
<1>1. /\ NextLine(0) /\ file' = file
      /\ num_entries' = IF state > 1 THEN k + 1 ELSE k
      /\ config' = Append(IF state > 1 THEN Append(config, 0)
                          ELSE SubSeq(config, 1, prev_config_len), 0)
      /\ menu' = Append(IF state > 1 THEN menu ELSE SubSeq(menu, 1, prev_menu_len), 0)
  BY DEF EndOfFile
<1>2. /\ prev_menu_len = k /\ p \in 0..Len(file.lines)
      /\ TitlesRead(file, p, state, menu, k)
      /\ CommandsRead(file, p, config)
      /\ EndsRead(state, menu, k, config, prev_config_len)
  BY DEF Parsed
<1>3. \A n \in Titles(file) \cup Commands(file) : n \in Nat /\ n > 0 /\ n <= p
  BY <1>1, <1>2, AllRead
<1>4. /\ menu \in Seq(S) /\ config \in Seq(S) /\ k \in Nat /\ state \in 0..2
      /\ Len(menu) \in Nat /\ Len(config) \in Nat
  BY LenProperties DEF TypeOK, AreasType
<1>5. 0 \in S /\ p \in Nat
  BY <1>2, FileFacts DEF FilesInv
<1>6. ASSUME Len(menu') = num_entries' + 1, menu'[num_entries' + 1] = 0,
             Lists(menu', num_entries', Entries(file)),
             NEW n \in Nat, n > 0, Len(config') = n + 1,
             config'[n] = 0, config'[n + 1] = 0, Bodies(config', n, file)
      PROVE  HoldEntries(file)'
  <2>1. Len(config') - 1 = n
    BY <1>6
  <2> QED BY <1>1, <1>6, <2>1 DEF HoldEntries
<1>7. \A c \in 1..Len(config) : config[c] # 0 => config[c] \in Commands(file)
  BY <1>2 DEF CommandsRead
<1> HIDE DEF p, S
<1>8. CASE state = 2
  <2> DEFINE c == Append(config, 0)
  <2>1. num_entries' = k + 1 /\ menu' = Append(menu, 0) /\ config' = Append(c, 0)
    BY <1>1, <1>8
  <2>2. Longer(c, config, 0) /\ c \in Seq(S)
    BY <1>4, <1>5, Appended DEF Longer
  <2> HIDE DEF c
  <2>3. /\ Len(c) \in Nat /\ Len(c) = Len(config) + 1 /\ c[Len(c)] = 0
        /\ Len(config') = Len(c) + 1 /\ config'[Len(c) + 1] = 0
        /\ \A j \in 1..Len(c) : config'[j] = c[j]
    <3>1. Len(c) = Len(config) + 1 /\ c[Len(c)] = 0
      BY <2>2 DEF Longer
    <3> QED BY <1>5, <2>1, <2>2, <3>1, Appended
  <2>4. Len(config) > 0 /\ config[Len(config)] > menu[k + 1]
    BY <1>2, <1>8 DEF EndsRead
  <2>5. menu[k + 1] \in Titles(file) /\ Len(menu) = k + 1
    BY <1>2, <1>8 DEF TitlesRead
  <2>6. config[Len(config)] # 0 /\ config[Len(config)] \in Commands(file)
    <3>1. config[Len(config)] # 0
      BY <2>4, <2>5, <1>3
    <3> QED BY <1>4, <1>7, <2>4, <3>1
  <2>7. CommandsRead(file, p, c)
    BY <1>2, <1>4, <2>2, <2>4, <2>6, BodyClosed
  <2>8. Bodies(config', Len(c), file)
    BY <1>3, <2>3, <2>7, ReadBodies
  <2>9. /\ Len(menu') = k + 2 /\ menu'[k + 2] = 0
        /\ \A j \in 1..(k + 1) : menu'[j] = menu[j]
    BY <1>4, <1>5, <2>1, <2>5, Appended
  <2>10. Lists(menu', k + 1, Entries(file))
    BY <1>2, <1>3, <1>4, <1>5, <1>8, <2>4, <2>6, <2>9, ReadEntries
  <2>11. config'[Len(c)] = 0 /\ Len(c) > 0
    BY <1>4, <2>3
  <2> QED BY <1>4, <1>6, <2>1, <2>3, <2>8, <2>9, <2>10, <2>11
<1>9. CASE state = 1
  <2> DEFINE front == SubSeq(menu, 1, prev_menu_len)
  <2>1. num_entries' = k /\ k > 0 /\ menu' = Append(front, 0)
    BY <1>1, <1>9
  <2>2. prev_config_len = Len(config) /\ Len(config) > 0 /\ config[Len(config)] = 0
    BY <1>2, <1>9, <2>1 DEF EndsRead
  <2>3. config' = Append(config, 0)
    BY <1>1, <1>4, <1>9, <2>2, WholeFront
  <2>4. k \in 0..Len(menu)
    BY <1>2, <1>4, <1>9 DEF TitlesRead
  <2>5. front \in Seq(S) /\ Len(front) = k /\ \A j \in 1..k : front[j] = menu[j]
    BY <1>2, <1>4, <2>4, FrontOf
  <2> HIDE DEF front
  <2>6. Len(menu') = k + 1 /\ menu'[k + 1] = 0 /\ \A j \in 1..k : menu'[j] = menu[j]
    <3>1. /\ Len(Append(front, 0)) = k + 1 /\ Append(front, 0)[k + 1] = 0
          /\ \A j \in 1..k : Append(front, 0)[j] = front[j]
      BY <1>5, <2>5, Appended
    <3> QED BY <2>1, <2>5, <3>1
  <2>7. /\ Len(config') = Len(config) + 1 /\ config'[Len(config) + 1] = 0
        /\ \A j \in 1..Len(config) : config'[j] = config[j]
    BY <1>4, <1>5, <2>3, Appended
  <2>8. Bodies(config', Len(config), file)
    BY <1>2, <1>3, <1>4, <2>7, ReadBodies
  <2>9. \A d \in Commands(file) : d < menu[k + 1]
    BY <1>2, <1>3, <1>9 DEF CommandsRead, EndsRead
  <2>10. Lists(menu, k, Entries(file))
    BY <1>2, <1>3, <1>4, <1>5, <1>9, <2>9, ReadEntries
  <2>11. Lists(menu', k, Entries(file))
    BY <2>6, <2>10 DEF Lists
  <2>12. config'[Len(config)] = 0
    BY <1>4, <2>2, <2>7
  <2> QED BY <1>4, <1>6, <2>1, <2>2, <2>6, <2>7, <2>8, <2>11, <2>12
<1>10. CASE state = 0
  <2>1. k = 0
    BY <1>2, <1>10 DEF TitlesRead
  <2> QED BY <1>1, <1>10, <2>1
<1> QED BY <1>4, <1>8, <1>9, <1>10
LEMMA EndTypes ==
  ASSUME TypeOK, FilesInv, EndOfFile
  PROVE  /\ num_entries' \in Nat
         /\ menu' \in Seq(0..Len(file.lines)) /\ prev_menu_len \in 0..Len(menu')
         /\ config' \in Seq(0..Len(file.lines)) /\ prev_config_len \in 0..Len(config')
<1> DEFINE S == 0..Len(file.lines)
           m == IF state > 1 THEN menu ELSE SubSeq(menu, 1, prev_menu_len)
           c == IF state > 1 THEN Append(config, 0)
                ELSE SubSeq(config, 1, prev_config_len)
<1>1. 0 \in S
  BY FileFacts DEF FilesInv
<1>2. /\ menu \in Seq(S) /\ config \in Seq(S) /\ num_entries \in Nat
      /\ prev_menu_len \in 0..Len(menu) /\ prev_config_len \in 0..Len(config)
      /\ Len(menu) \in Nat /\ Len(config) \in Nat
  BY LenProperties DEF TypeOK, AreasType
<1>3. menu' = Append(m, 0) /\ config' = Append(c, 0) /\ num_entries' \in Nat
  BY <1>2 DEF EndOfFile
<1> HIDE DEF S
<1>4. m \in Seq(S) /\ prev_menu_len \in 0..Len(m)
  <2>1. CASE state > 1
    BY <1>2, <2>1
  <2>2. CASE ~(state > 1)
    <3>1. m = SubSeq(menu, 1, prev_menu_len)
      BY <2>2
    <3> HIDE DEF m
    <3> QED BY <1>2, <3>1, FrontOf
  <2> QED BY <2>1, <2>2
<1>5. c \in Seq(S) /\ prev_config_len \in 0..Len(c)
  <2>1. CASE state > 1
    <3>1. c = Append(config, 0)
      BY <2>1
    <3> HIDE DEF c
    <3>2. c \in Seq(S) /\ Len(c) = Len(config) + 1
      BY <1>1, <1>2, <3>1, Appended
    <3> QED BY <1>2, <3>2
  <2>2. CASE ~(state > 1)
    <3>1. c = SubSeq(config, 1, prev_config_len)
      BY <2>2
    <3> HIDE DEF c
    <3> QED BY <1>2, <3>1, FrontOf
  <2> QED BY <2>1, <2>2
<1> HIDE DEF m, c
<1>6. /\ menu' \in Seq(S) /\ Len(menu') = Len(m) + 1 /\ Len(m) \in Nat
      /\ config' \in Seq(S) /\ Len(config') = Len(c) + 1 /\ Len(c) \in Nat
  BY <1>1, <1>3, <1>4, <1>5, Appended
<1> QED BY <1>3, <1>4, <1>5, <1>6 DEF S

LEMMA EndOfFileInv ==
  ASSUME IInv, EndOfFile, UNCHANGED grub_cln_secure
  PROVE  IInv'
<1>1. TypeOK /\ FilesInv /\ AreasInv /\ SelectionInv /\ SignedOnly
  BY DEF IInv
<1>2. /\ pc = "line" /\ NextLine(0) /\ Consume(0) /\ i' = 0
      /\ pc' = IF fallback_entryno >= 0 THEN "fallbacks" ELSE "default"
      /\ UNCHANGED <<source, file, is_preset, state, prev_menu_len,
                     prev_config_len, choice, loads>>
  BY DEF EndOfFile
<1>3. Len(file.lines) \in Nat
  BY <1>1, FileFacts DEF FilesInv
<1>4. cln_index' = 0 /\ preset_menu_offset' \in Nat
  BY <1>1, <1>2, <1>3 DEF Consume, FilesInv, TypeOK, AreasType
<1>5. ~Endless /\ (Endless' <=> Endless)
  BY <1>1, <1>2, AllRead DEF Endless, Skipped
<1>6. fallback_entryno \in {-1, 0}
  BY <1>1, <1>2 DEF SelectionInv
<1>7. pc' \in {"fallbacks", "default"}
  BY <1>2
<1>8. SourceType'
  BY <1>1, <1>2, <1>7 DEF TypeOK, SourceType, source
<1>9. AreasType'
  BY <1>1, <1>2, <1>3, <1>4, EndTypes DEF TypeOK, AreasType
<1>10. ChoiceType'
  BY <1>1, <1>2, ConfigAssumption DEF TypeOK, ChoiceType, choice
<1>11. FilesInv'
  BY <1>1, <1>2, <1>4, <1>5 DEF FilesInv, source
<1>12. AreasInv'
  BY <1>1, <1>2, <1>5, <1>7, EndHolds DEF AreasInv
<1>13. SelectionInv'
  <2>1. pc' = "fallbacks" => fallback_entryno' = 0
    BY <1>2, <1>6 DEF choice
  <2>2. pc' = "default" => fallback_entryno' = -1
    BY <1>2, <1>6 DEF choice
  <2>3. \A s \in Slots : ~(s < i')
    BY <1>2, SlotsFact
  <2> QED BY <1>7, <2>1, <2>2, <2>3 DEF SelectionInv, Interactive
<1>14. SignedOnly'
  BY <1>1, <1>2 DEF SignedOnly
<1> QED BY <1>8, <1>9, <1>10, <1>11, <1>12, <1>13, <1>14 DEF IInv, TypeOK

-----------------------------------------------------------------------------
(* The checks.                                                             *)

LEMMA CheckFallbackInv ==
  ASSUME IInv, CheckFallback, UNCHANGED grub_cln_secure
  PROVE  IInv'
<1>1. TypeOK /\ FilesInv /\ AreasInv /\ SelectionInv /\ SignedOnly
  BY DEF IInv
<1>2. /\ pc = "fallbacks" /\ pc' \in {"fallbacks", "default"}
      /\ UNCHANGED <<source, reader, areas, default_entry, loads>>
  BY DEF CheckFallback
<1>3. /\ MAX_FALLBACK_ENTRIES \in Nat \ {0} /\ i \in 0..MAX_FALLBACK_ENTRIES
      /\ fallback_entries \in [Slots -> Nat \cup {-1}] /\ fallback_entryno = 0
      /\ num_entries \in Nat
      /\ \A s \in Slots : s < i => fallback_entries[s] \in 0..(num_entries - 1)
  BY <1>1, <1>2, ConfigAssumption DEF TypeOK, ChoiceType, AreasType, SelectionInv
<1>4. Endless' <=> Endless
  BY <1>2 DEF Endless, Skipped, reader
<1>5. SourceType' /\ AreasType'
  <2>1. SourceType'
    BY <1>1, <1>2 DEF TypeOK, SourceType, source, reader
  <2>2. AreasType'
    BY <1>1, <1>2 DEF TypeOK, AreasType, reader, areas
  <2> QED BY <2>1, <2>2
<1>6. FilesInv'
  BY <1>1, <1>2, <1>4 DEF FilesInv, source, reader
<1>7. AreasInv'
  BY <1>1, <1>2, AreasUnchanged DEF AreasInv, reader, areas
<1>8. SignedOnly'
  BY <1>1, <1>2 DEF SignedOnly, reader
<1>9. num_entries' = num_entries /\ default_entry' = default_entry /\ loads' = loads
  BY <1>2 DEF areas
<1>10. CASE /\ i < MAX_FALLBACK_ENTRIES /\ fallback_entries[i] >= num_entries
            /\ fallback_entries' = CloseGap(i)
            /\ UNCHANGED <<pc, i, fallback_entryno>>
  <2>1. \A s \in Slots : s < MAX_FALLBACK_ENTRIES - 1 => s + 1 \in Slots
    BY <1>3 DEF Slots
  <2>2. fallback_entries' \in [Slots -> Nat \cup {-1}]
    BY <1>3, <1>10, <2>1 DEF CloseGap
  <2>3. ChoiceType'
    BY <1>1, <1>9, <1>10, <2>2 DEF TypeOK, ChoiceType
  <2>4. \A s \in Slots : s < i => fallback_entries'[s] = fallback_entries[s]
    BY <1>3, <1>10, SlotsFact DEF CloseGap
  <2>5. SelectionInv'
    BY <1>2, <1>3, <1>9, <1>10, <2>4 DEF SelectionInv, Interactive
  <2> QED BY <1>5, <1>6, <1>7, <1>8, <2>3, <2>5 DEF IInv, TypeOK
<1>11. CASE /\ i < MAX_FALLBACK_ENTRIES
            /\ fallback_entries[i] \in 0..(num_entries - 1)
            /\ i' = i + 1
            /\ UNCHANGED <<pc, fallback_entryno, fallback_entries>>
  <2>1. ChoiceType'
    BY <1>1, <1>3, <1>9, <1>11 DEF TypeOK, ChoiceType
  <2>2. \A s \in Slots : s < i + 1 => s < i \/ s = i
    BY <1>3, SlotsFact
  <2>3. SelectionInv'
    BY <1>2, <1>3, <1>9, <1>11, <2>2 DEF SelectionInv, Interactive
  <2> QED BY <1>5, <1>6, <1>7, <1>8, <2>1, <2>3 DEF IInv, TypeOK
<1>12. CASE /\ i < MAX_FALLBACK_ENTRIES => fallback_entries[i] < 0
            /\ fallback_entryno' = IF fallback_entries[0] < 0 THEN -1
                                   ELSE fallback_entryno
            /\ pc' = "default"
            /\ UNCHANGED <<i, fallback_entries>>
  <2>1. ChoiceType'
    BY <1>1, <1>3, <1>9, <1>12 DEF TypeOK, ChoiceType
  <2>2. fallback_entries[0] \in Nat \cup {-1}
    BY <1>3, SlotsFact
  <2>3. FallbackValid(0)
    <3>1. SUFFICES ASSUME NEW s \in Slots, \A r \in 0..s : fallback_entries[r] >= 0
                   PROVE  fallback_entries[s] < num_entries
      BY DEF FallbackValid
    <3>2. s \in Nat /\ s < MAX_FALLBACK_ENTRIES
      BY <1>3 DEF Slots
    <3>3. s < i
      <4>1. SUFFICES ASSUME ~(s < i) PROVE FALSE
        OBVIOUS
      <4>2. i \in 0..s /\ i < MAX_FALLBACK_ENTRIES /\ i \in Slots
        BY <1>3, <3>2, <4>1 DEF Slots
      <4>3. fallback_entries[i] \in Nat \cup {-1}
        BY <1>3, <4>2
      <4> QED BY <1>12, <3>1, <4>2, <4>3
    <3> QED BY <1>3, <3>3
  <2>4. FallbackValid(0)'
    BY <1>9, <1>12, <2>3 DEF FallbackValid
  <2>5. fallback_entryno' \in {-1, 0} /\ (fallback_entryno' = 0 => fallback_entries'[0] >= 0)
    BY <1>3, <1>12, <2>2
  <2>6. SelectionInv'
    BY <1>12, <2>4, <2>5 DEF SelectionInv, Interactive
  <2> QED BY <1>5, <1>6, <1>7, <1>8, <2>1, <2>6 DEF IInv, TypeOK
<1> QED BY <1>10, <1>11, <1>12 DEF CheckFallback

LEMMA CheckDefaultInv ==
  ASSUME IInv, CheckDefault, UNCHANGED grub_cln_secure
  PROVE  IInv'
<1>1. TypeOK /\ FilesInv /\ AreasInv /\ SelectionInv /\ SignedOnly
  BY DEF IInv
<1>2. /\ pc = "default" /\ preset_menu' = FALSE
      /\ pc' = IF is_preset THEN "load" ELSE Interface(num_entries)
      /\ UNCHANGED <<sd, config_file, grub_cln_loaded_from_spi, reader, areas,
                     fallback_entries, i, loads>>
  BY DEF CheckDefault
<1>3. /\ MAX_FALLBACK_ENTRIES \in Nat \ {0} /\ num_entries \in Nat
      /\ fallback_entries \in [Slots -> Nat \cup {-1}] /\ fallback_entryno \in {-1, 0}
      /\ default_entry \in Nat
      /\ fallback_entryno = 0 => fallback_entries[0] >= 0 /\ FallbackValid(0)
  BY <1>1, <1>2, ConfigAssumption DEF TypeOK, ChoiceType, AreasType, SelectionInv
<1>4. pc' \in {"load", "shell", "menu"} /\ (is_preset <=> pc' = "load")
  BY <1>1, <1>2 DEF Interface, TypeOK, SourceType
<1>5. Endless' <=> Endless
  BY <1>2 DEF Endless, Skipped, reader
<1>6. SourceType'
  BY <1>1, <1>2, <1>4 DEF TypeOK, SourceType, Interactive, reader
<1>7. AreasType'
  BY <1>1, <1>2 DEF TypeOK, AreasType, reader, areas
<1>8. FilesInv'
  BY <1>1, <1>2, <1>4, <1>5 DEF FilesInv, reader
<1>9. AreasInv'
  BY <1>1, <1>2, <1>4, AreasUnchanged DEF AreasInv, reader, areas
<1>10. SignedOnly'
  BY <1>1, <1>2, <1>4 DEF SignedOnly, reader
<1>11. num_entries' = num_entries /\ fallback_entries' = fallback_entries
       /\ i' = i /\ loads' = loads
  BY <1>2 DEF areas
<1>12. 0 \in Slots /\ (fallback_entryno = 0 => fallback_entries[0] \in Nat)
  BY <1>3, SlotsFact
<1>13. /\ default_entry' \in Nat /\ fallback_entryno' \in -1..(MAX_FALLBACK_ENTRIES - 1)
       /\ num_entries > 0 => /\ default_entry' < num_entries
                             /\ fallback_entryno' >= 0 => FallbackValid(fallback_entryno')
  <2>1. CASE default_entry < num_entries /\ UNCHANGED <<default_entry, fallback_entryno>>
    BY <1>3, <2>1
  <2>2. CASE /\ default_entry >= num_entries /\ fallback_entryno >= 0
             /\ default_entry' = fallback_entries[0]
             /\ fallback_entryno' = IF Listed(fallback_entryno + 1)
                                    THEN fallback_entryno + 1 ELSE -1
    <3>1. fallback_entryno = 0 /\ fallback_entries[0] \in Nat /\ FallbackValid(0)
      BY <1>3, <1>12, <2>2
    <3>2. fallback_entries[0] < num_entries
      <4>1. \A r \in 0..0 : fallback_entries[r] >= 0
        BY <3>1
      <4> QED BY <1>12, <3>1, <4>1 DEF FallbackValid
    <3>3. FallbackValid(1)
      <4>1. SUFFICES ASSUME NEW s \in Slots, s >= 1,
                            \A r \in 1..s : fallback_entries[r] >= 0
                     PROVE  fallback_entries[s] < num_entries
        BY DEF FallbackValid
      <4>2. s \in Nat
        BY SlotsFact
      <4>3. \A r \in 0..s : fallback_entries[r] >= 0
        BY <3>1, <4>1, <4>2
      <4> QED BY <3>1, <4>2, <4>3 DEF FallbackValid
    <3>4. fallback_entryno' = -1 \/ (fallback_entryno' = 1 /\ 1 < MAX_FALLBACK_ENTRIES)
      BY <2>2, <3>1 DEF Listed
    <3>5. fallback_entryno' \in -1..(MAX_FALLBACK_ENTRIES - 1)
      BY <1>3, <3>4
    <3>6. fallback_entryno' >= 0 => FallbackValid(fallback_entryno')
      BY <3>3, <3>4
    <3> QED BY <2>2, <3>1, <3>2, <3>5, <3>6
  <2>3. CASE /\ default_entry >= num_entries /\ fallback_entryno < 0
             /\ default_entry' = 0 /\ UNCHANGED fallback_entryno
    BY <1>3, <2>3
  <2> QED BY <2>1, <2>2, <2>3 DEF CheckDefault
<1>14. ChoiceType'
  BY <1>1, <1>3, <1>11, <1>13 DEF TypeOK, ChoiceType
<1>15. SelectionInv'
  <2>1. num_entries' > 0 => /\ default_entry' < num_entries'
                            /\ fallback_entryno' >= 0 => FallbackValid(fallback_entryno)'
    BY <1>11, <1>13 DEF FallbackValid
  <2>2. pc' = "menu" => num_entries' > 0
    BY <1>2, <1>3, <1>11 DEF Interface
  <2> QED BY <1>4, <2>1, <2>2 DEF SelectionInv
<1> QED BY <1>6, <1>7, <1>8, <1>9, <1>10, <1>14, <1>15 DEF IInv, TypeOK
-----------------------------------------------------------------------------
(* The user.                                                               *)

(* A step that leaves the file and the choice alone, to the menu or the    *)
(* command line.                                                           *)
LEMMA WaitingInv ==
  ASSUME IInv, UNCHANGED <<preset_menu, config_file, grub_cln_loaded_from_spi,
                           reader, areas, choice, i, loads, grub_cln_secure>>,
         sd' \in File, pc \in Interactive, pc' \in Interactive,
         pc' = "menu" => num_entries > 0 /\ (pc = "menu" \/ ~grub_cln_secure)
  PROVE  IInv'
<1>1. TypeOK /\ FilesInv /\ AreasInv /\ SelectionInv /\ SignedOnly
  BY DEF IInv
<1>2. pc \notin {"line", "fallbacks", "default"} /\ pc' \notin {"line", "fallbacks", "default"}
  BY DEF Interactive
<1>3. Endless' <=> Endless
  BY DEF Endless, Skipped, reader
<1>4. SourceType' /\ AreasType' /\ ChoiceType'
  <2>1. SourceType'
    BY <1>1 DEF TypeOK, SourceType, reader
  <2>2. AreasType'
    BY <1>1 DEF TypeOK, AreasType, reader, areas
  <2>3. ChoiceType'
    BY <1>1 DEF TypeOK, ChoiceType, choice
  <2> QED BY <2>1, <2>2, <2>3
<1>5. FilesInv'
  BY <1>1, <1>2, <1>3 DEF FilesInv, reader
<1>6. AreasInv'
  BY <1>1, <1>2, AreasUnchanged DEF AreasInv, reader, areas
<1>7. SelectionInv'
  BY <1>1, <1>2 DEF SelectionInv, FallbackValid, areas, choice
<1>8. SignedOnly'
  BY <1>1, <1>2 DEF SignedOnly, reader
<1> QED BY <1>4, <1>5, <1>6, <1>7, <1>8 DEF IInv, TypeOK

LEMMA AgainInv ==
  ASSUME IInv, Again, pc \in Interactive, config_file' \in Others \cup {GrubConf},
         UNCHANGED <<sd, preset_menu, grub_cln_loaded_from_spi, grub_cln_secure>>
  PROVE  IInv'
<1>1. TypeOK /\ FilesInv /\ AreasInv /\ SelectionInv /\ SignedOnly
  BY DEF IInv
<1>2. /\ loads < MaxLoads /\ loads' = loads + 1 /\ reset /\ pc' = "load"
      /\ UNCHANGED <<reader, i>>
  BY DEF Again
<1>3. pc # "line" /\ (Endless' <=> Endless)
  BY <1>2 DEF Endless, Skipped, reader, Interactive
<1>4. /\ num_entries' = 0 /\ state' = 0
      /\ menu' \in Seq(0..Len(file.lines)) /\ config' \in Seq(0..Len(file.lines))
      /\ prev_menu_len' \in 0..Len(menu') /\ prev_config_len' \in 0..Len(config')
      /\ default_entry' \in Nat /\ fallback_entryno' = -1
      /\ fallback_entries' \in [Slots -> Nat \cup {-1}]
  BY <1>1, <1>2, ResetTypes
<1>5. SourceType'
  BY <1>1, <1>2 DEF TypeOK, SourceType, reader
<1>6. AreasType'
  BY <1>1, <1>2, <1>4 DEF TypeOK, AreasType, reader
<1>7. ChoiceType'
  BY <1>1, <1>2, <1>4, ConfigAssumption DEF TypeOK, ChoiceType
<1>8. FilesInv'
  BY <1>1, <1>2, <1>3 DEF FilesInv, reader
<1>9. AreasInv' /\ SelectionInv' /\ SignedOnly'
  BY <1>2, <1>4 DEF AreasInv, SelectionInv, SignedOnly, Interactive
<1> QED BY <1>5, <1>6, <1>7, <1>8, <1>9 DEF IInv, TypeOK

LEMMA UserInv ==
  ASSUME IInv, User
  PROVE  IInv'
<1>1. sd \in File /\ config_file \in Others \cup {GrubConf} /\ grub_cln_secure' = grub_cln_secure
  BY DEF IInv, FilesInv, TypeOK, SourceType, User
<1>2. CASE LeaveRecovery
  <2>1. pc \in Interactive /\ pc' \in Interactive /\ ~grub_cln_secure
    BY <1>2 DEF LeaveRecovery, Interface, Interactive
  <2>2. pc' = "menu" => num_entries > 0
    BY <1>2 DEF LeaveRecovery, Interface, IInv, TypeOK, AreasType
  <2> QED BY <1>1, <1>2, <2>1, <2>2, WaitingInv DEF LeaveRecovery, source
<1>3. CASE LeaveShell
  BY <1>1, <1>3, AgainInv DEF LeaveShell, Interactive, source
<1>4. CASE \E name \in Others : configfile_func(name)
  BY <1>1, <1>4, AgainInv DEF configfile_func, Interactive
<1>5. CASE ChangeCard
  <2>1. sd' \in File
    BY <1>5, ConfigAssumption DEF ChangeCard
  <2>2. pc \in Interactive /\ pc' = pc
    BY <1>5 DEF ChangeCard, Interactive
  <2>3. pc' = "menu" => num_entries > 0 /\ pc = "menu"
    BY <2>2 DEF IInv, SelectionInv
  <2> QED BY <1>1, <1>5, <2>1, <2>2, <2>3, WaitingInv DEF ChangeCard
<1> QED BY <1>2, <1>3, <1>4, <1>5 DEF User

-----------------------------------------------------------------------------
(* The results.                                                            *)

LEMMA NextInv == IInv /\ [Next]_vars => IInv'
<1> SUFFICES ASSUME IInv, [Next]_vars PROVE IInv'
  OBVIOUS
<1>1. CASE OpenPreset /\ UNCHANGED grub_cln_secure
  BY <1>1, OpenPresetInv
<1>2. CASE OpenConfig /\ UNCHANGED grub_cln_secure
  BY <1>2, OpenConfigInv
<1>3. CASE ReadLine /\ UNCHANGED grub_cln_secure
  BY <1>3, ReadLineInv
<1>4. CASE EndOfFile /\ UNCHANGED grub_cln_secure
  BY <1>4, EndOfFileInv
<1>5. CASE CheckFallback /\ UNCHANGED grub_cln_secure
  BY <1>5, CheckFallbackInv
<1>6. CASE CheckDefault /\ UNCHANGED grub_cln_secure
  BY <1>6, CheckDefaultInv
<1>7. CASE User
  BY <1>7, UserInv
<1>8. CASE UNCHANGED vars
  <2>1. /\ UNCHANGED <<pc, sd, preset_menu, config_file, grub_cln_loaded_from_spi>>
        /\ UNCHANGED <<file, is_preset, cln_index, preset_menu_offset, i, loads>>
        /\ UNCHANGED <<state, prev_menu_len, prev_config_len, menu, config, num_entries>>
        /\ UNCHANGED <<default_entry, fallback_entryno, fallback_entries, grub_cln_secure>>
    BY <1>8 DEF vars, source, reader, areas, choice
  <2>2. TypeOK' /\ FilesInv'
    BY <2>1 DEF IInv, TypeOK, SourceType, AreasType, ChoiceType, FilesInv, Endless, Skipped
  <2>3. Parsed' <=> Parsed
    BY <2>1 DEF Parsed, Offset
  <2>4. AreasInv'
    BY <2>1, <2>3, AreasUnchanged DEF IInv, AreasInv, Endless, Skipped
  <2>5. SelectionInv' /\ SignedOnly'
    BY <2>1 DEF IInv, SelectionInv, FallbackValid, SignedOnly
  <2> QED BY <2>2, <2>4, <2>5 DEF IInv
<1> QED BY <1>1, <1>2, <1>3, <1>4, <1>5, <1>6, <1>7, <1>8 DEF Next, Load

(* What the areas hold at every line of every file, how far the fallback   *)
(* list is checked and which file may be open (cmain, stage2.c).           *)
THEOREM ConfigInvariant == Spec => []IInv
<1>1. Init => IInv
  BY InitTypes DEF IInv
<1> QED BY <1>1, NextInv, PTL DEF Spec

(* The menu that is shown lists the entries of the file with their         *)
(* commands and nothing else, and the default entry and the fallback       *)
(* entries exist, whatever was loaded or failed to load before             *)
(* (real_cmain's parser and checks, stage2.c:1094-1219).                   *)
THEOREM MenuIsValid == Spec => []MenuValid
<1>1. IInv => MenuValid
  <2> SUFFICES ASSUME IInv PROVE MenuValid
    OBVIOUS
  <2>1. TypeOK /\ AreasInv /\ SelectionInv
    BY DEF IInv
  <2>2. pc = "menu" => num_entries > 0
    BY DEF IInv, SelectionInv
  <2>3. MenuIsFile /\ SelectionValid
    BY <2>1, <2>2 DEF MenuIsFile, SelectionValid, AreasInv, SelectionInv, Interactive
  <2> QED BY <2>1, <2>3 DEF MenuValid
<1> QED BY <1>1, ConfigInvariant, PTL

(* On a Secure Boot SKU only the compiled-in menu and verified files are   *)
(* parsed or shown (grub_cln_load_config_file and do_load_config_file,     *)
(* boot_settings.c).                                                       *)
THEOREM OnlySignedFiles == Spec => []SignedOnly
<1>1. IInv => SignedOnly
  BY DEF IInv
<1> QED BY <1>1, ConfigInvariant, PTL
=============================================================================
