----------------------------- MODULE MenuProofs -----------------------------
(***************************************************************************)
(* Proofs about the menu, for every window, configuration, list of         *)
(* timeouts and SKU.                                                       *)
(*                                                                         *)
(* The inductive invariant says of every activation of run_menu which of   *)
(* its numbers can be trusted: those of the main menu always name an entry *)
(* of the configuration, those of an edited list do on a terminal with a   *)
(* window as long as the last line is not deleted (EmptyLists), and a      *)
(* frame without config_entries has no countdown.  AuthInv says whose      *)
(* password auth stands for.                                               *)
(***************************************************************************)
EXTENDS Menu, SequenceTheorems, TLAPS

(* The numbers of the main menu name an entry: nothing there changes the   *)
(* list they count.                                                        *)
MainFrame(f) ==
  /\ f.list = Titles /\ f.num_entries = Len(Kinds)
  /\ f.entryno >= 0 /\ f.first_entry + f.entryno < Len(Kinds)

(* So do those of a list that is never emptied, shown in a window.         *)
Kept == ~EmptyLists /\ ~Dumb

ListFrame(f) ==
  /\ f.num_entries = Len(f.list)
  /\ f.entryno >= 0 /\ f.first_entry + f.entryno < f.num_entries

(* A frame below another one was left with a key, inside the window.       *)
InWindow(n) == n < Len(frames) \/ InMenu

FrameOK(f) ==
  /\ f.first_entry + f.entryno >= -1
  /\ f.config => MainFrame(f)
  /\ Kept => ListFrame(f)

FrameInv ==
  \A n \in DOMAIN frames :
    /\ FrameOK(frames[n])
    /\ ~Dumb /\ InWindow(n) => frames[n].entryno < Rows
    /\ ~frames[n].config => grub_timeout < 0

(* The hidden menu has a countdown.                                        *)
HiddenInv == pc = "hidden" => grub_timeout >= 0

(* Every line up to the end of the script belongs to its entry.            *)
ScriptInv ==
  grub_cln_secure /\ pc = "script" /\ Len(frames) = 1 /\ top.config
    => \A j \in DOMAIN script : script[j].k = "end" \/ script[j].e = current_entryno

IInv ==
  /\ setup \in Setups
  /\ TypeOK
  /\ FrameInv
  /\ HiddenInv
  /\ EditNeedsAuth
  /\ ScriptInv

-----------------------------------------------------------------------------
(* Lists in memory.                                                        *)

LEMMA Constants ==
  /\ Rows \in Nat /\ Rows >= 1
  /\ Len(Kinds) \in Nat /\ Len(Kinds) >= 1
  /\ Entry = 1..Len(Kinds)
  /\ \A e \in Entry : Kinds[e] \in Seq(CommandKinds) /\ Len(Kinds[e]) >= 1
BY MenuAssumption, EmptySeq DEF Entry

LEMMA Setting ==
  ASSUME setup \in Setups
  PROVE  /\ setup.dumb \in BOOLEAN /\ setup.password \in BOOLEAN
         /\ setup.secure \in BOOLEAN /\ setup.debug \in BOOLEAN
         /\ setup.passwordfile \in BOOLEAN
BY MenuAssumption

LEMMA LineType ==
  ASSUME NEW e \in 0..Len(Kinds), NEW k \in CommandKinds \cup {"title", "blank", "end"}
  PROVE  Line(e, k) \in ScriptLine /\ Line(e, k).e = e /\ Line(e, k).k = k
BY DEF Line, ScriptLine

LEMMA EndType == End \in ScriptLine /\ End.k = "end"
BY LineType, Constants DEF End

(* get_entry finds only commands of the entry it is asked for.             *)
LEMMA CommandsType ==
  ASSUME NEW n \in 0..(Len(Kinds) - 1)
  PROVE  /\ Commands(n) \in Seq(ScriptLine) /\ Len(Commands(n)) \in Nat
         /\ Len(Commands(n)) >= 1
         /\ \A j \in DOMAIN Commands(n) : Commands(n)[j].e = n
<1> DEFINE K == Kinds[n + 1]
<1>1. n + 1 \in Entry /\ n \in 0..Len(Kinds)
  BY Constants
<1>2. K \in Seq(CommandKinds) /\ Len(K) \in Nat /\ Len(K) >= 1 /\ DOMAIN K = 1..Len(K)
  BY <1>1, Constants
<1>3. \A j \in 1..Len(K) : K[j] \in CommandKinds
  BY <1>2
<1>4. Commands(n) = [j \in 1..Len(K) |-> Line(n, K[j])]
  BY <1>2 DEF Commands
<1> HIDE DEF K
<1>5. \A j \in 1..Len(K) : Line(n, K[j]) \in ScriptLine /\ Line(n, K[j]).e = n
  BY <1>1, <1>3, LineType
<1> QED
  BY <1>2, <1>4, <1>5

LEMMA TitlesType ==
  Titles \in Seq(ScriptLine) /\ Len(Titles) = Len(Kinds)
<1>1. \A n \in 1..Len(Kinds) : Line(n - 1, "title") \in ScriptLine
  BY Constants, LineType
<1>2. Titles = [n \in 1..Len(Kinds) |-> Line(n - 1, "title")]
  BY Constants DEF Titles
<1> QED
  BY <1>1, <1>2, Constants

LEMMA ListAtType ==
  ASSUME NEW n \in 0..Len(Kinds)
  PROVE  /\ ListAt(n) \in Seq(ScriptLine)
         /\ n < Len(Kinds) =>
              \A j \in DOMAIN ListAt(n) : ListAt(n)[j].k = "end" \/ ListAt(n)[j].e = n
<1>1. CASE n < Len(Kinds)
  <2> DEFINE s == Commands(n)
  <2>1. n \in 0..(Len(Kinds) - 1)
    BY <1>1, Constants
  <2>2. s \in Seq(ScriptLine) /\ \A j \in DOMAIN s : s[j].e = n
    BY <2>1, CommandsType
  <2>3. ListAt(n) = Append(s, End)
    BY <1>1 DEF ListAt
  <2> HIDE DEF s
  <2> QED
    BY <2>2, <2>3, EndType
<1>2. CASE ~(n < Len(Kinds))
  <2>1. ListAt(n) = <<End>> \o Append(Titles, End)
    BY <1>2 DEF ListAt
  <2>2. Append(Titles, End) \in Seq(ScriptLine) /\ <<End>> \in Seq(ScriptLine)
    BY TitlesType, EndType
  <2> QED
    BY <1>2, <2>1, <2>2
<1> QED
  BY <1>1, <1>2

LEMMA MainMenuOK ==
  ASSUME NEW d \in 0..(Len(Kinds) - 1)
  PROVE  /\ MainMenu(d) \in Frame /\ MainMenu(d).config
         /\ FrameOK(MainMenu(d))
BY Constants, TitlesType DEF MainMenu, Frame, FrameOK, MainFrame, ListFrame

-----------------------------------------------------------------------------
(* The running frame.                                                      *)

LEMMA TopFrame ==
  ASSUME TypeOK, FrameInv, frames # <<>>
  PROVE  /\ Len(frames) \in {1, 2} /\ Len(frames) \in DOMAIN frames
         /\ top \in Frame /\ FrameOK(top)
         /\ DOMAIN frames = 1..Len(frames)
         /\ ~top.config => grub_timeout < 0
         /\ top.config => Len(frames) = 1
         /\ ~Dumb /\ InMenu => top.entryno < Rows
<1>1. frames \in Seq(Frame) /\ Len(frames) \in Nat /\ Len(frames) <= 2
  BY DEF TypeOK
<1>2. Len(frames) # 0
  BY <1>1, EmptySeq
<1> DEFINE l == Len(frames)
<1>a. l \in {1, 2}
  <2>1. l \in Nat /\ l <= 2 /\ l # 0
    BY <1>1, <1>2
  <2> HIDE DEF l
  <2> QED
    BY <2>1
<1>b. DOMAIN frames = 1..l
  BY <1>1
<1>3. l \in {1, 2} /\ l \in DOMAIN frames /\ DOMAIN frames = 1..l
  <2> HIDE DEF l
  <2> QED
    BY <1>a, <1>b
<1>4. top \in Frame
  BY <1>1, <1>3 DEF top
<1>5. FrameOK(top) /\ (~top.config => grub_timeout < 0)
  BY <1>3 DEF FrameInv, top
<1>6. top.config => Len(frames) = 1
  BY <1>3 DEF TypeOK, top
<1>7. ~Dumb /\ InMenu => top.entryno < Rows
  BY <1>3 DEF FrameInv, top, InWindow
<1> QED
  BY <1>3, <1>4, <1>5, <1>6, <1>7

(* In a menu that shows a configuration, what is selected is an entry.     *)
LEMMA SelectedEntry ==
  ASSUME TypeOK, FrameInv, frames # <<>>
  PROVE  /\ Selected \in Int /\ Selected >= -1
         /\ top.config => Selected \in 0..(Len(Kinds) - 1)
<1>1. top \in Frame /\ FrameOK(top)
  BY TopFrame
<1> DEFINE f == top
<1>2. f.first_entry \in Nat /\ f.entryno \in Int /\ f.config \in BOOLEAN
  BY <1>1 DEF Frame
<1>3. f.first_entry + f.entryno >= -1
  BY <1>1 DEF FrameOK
<1>4. f.config => f.entryno >= 0 /\ f.first_entry + f.entryno < Len(Kinds)
  BY <1>1 DEF FrameOK, MainFrame
<1>5. Selected = f.first_entry + f.entryno
  BY DEF Selected
<1> HIDE DEF f
<1>6. Selected \in Int /\ Selected >= -1 /\ (f.config => Selected \in 0..(Len(Kinds) - 1))
  BY <1>2, <1>3, <1>4, <1>5, Constants
<1> QED
  BY <1>6 DEF f

(* A step that puts f in the place of the running frame, in which the      *)
(* window is right or not looked at.                                       *)
LEMMA TopReplaced ==
  ASSUME TypeOK, FrameInv, frames # <<>>, setup \in Setups, setup' = setup,
         NEW f \in Frame, FrameOK(f), SetTop(f),
         ~f.config => grub_timeout' < 0,
         f.config = top.config \/ Len(frames) = 1,
         grub_timeout < 0 => grub_timeout' < 0,
         InMenu' /\ ~Dumb => f.entryno < Rows
  PROVE  /\ FrameInv'
         /\ frames' \in Seq(Frame) /\ Len(frames') = Len(frames) /\ frames' # <<>>
         /\ Len(frames') <= 2
         /\ Len(frames') = 2 => frames'[1].config /\ ~frames'[2].config
         /\ top' = f
<1> DEFINE l == Len(frames)
<1>1. l \in {1, 2} /\ DOMAIN frames = 1..l /\ frames \in Seq(Frame)
  BY TopFrame DEF TypeOK
<1>2. frames' = [frames EXCEPT ![l] = f]
  BY DEF SetTop
<1>3. /\ frames' \in Seq(Frame) /\ Len(frames') = l /\ DOMAIN frames' = 1..l
      /\ frames'[l] = f /\ \A n \in 1..l : n # l => frames'[n] = frames[n]
  BY <1>1, <1>2
<1>4. top' = f
  BY <1>3 DEF top
<1>5. frames' # <<>> /\ l <= 2
  <2>1. Len(frames') = l
    BY <1>3
  <2>2. Len(frames') # 0 => frames' # <<>>
    OBVIOUS
  <2> HIDE DEF l
  <2> QED
    BY <1>1, <2>1, <2>2
<1>6. l = 2 => frames'[1].config /\ ~frames'[2].config
  <2> SUFFICES ASSUME l = 2 PROVE frames'[1].config /\ ~frames'[2].config
    OBVIOUS
  <2>1. frames[1].config /\ ~frames[2].config
    BY DEF TypeOK
  <2>2. frames'[1] = frames[1] /\ frames'[2] = f /\ top = frames[2]
    BY <1>3 DEF top
  <2> QED
    BY <2>1, <2>2
<1>7. FrameInv'
  <2> SUFFICES ASSUME NEW n \in 1..l
               PROVE  /\ FrameOK(frames'[n])
                      /\ ~Dumb' /\ InWindow(n)' => frames'[n].entryno < Rows
                      /\ ~frames'[n].config => grub_timeout' < 0
    BY <1>3 DEF FrameInv, FrameOK, MainFrame, ListFrame, Kept, Dumb
  <2>1. CASE n = l
    <3>1. frames'[n] = f
      BY <1>3, <2>1
    <3>2. InWindow(n)' => InMenu'
      <4>1. Len(frames') = l
        BY <1>3
      <4>2. InWindow(n)' <=> n < Len(frames') \/ InMenu'
        BY DEF InWindow
      <4> HIDE DEF l
      <4> QED
        BY <1>1, <4>1, <4>2, <2>1
    <3>3. Dumb' = Dumb
      BY DEF Dumb
    <3> QED
      BY <3>1, <3>2, <3>3
  <2>2. CASE n # l
    <3>a. n < l
      <4> HIDE DEF l
      <4> QED
        BY <1>1, <2>2
    <3>1. frames'[n] = frames[n] /\ n < Len(frames)
      BY <1>3, <2>2, <3>a
    <3>2. InWindow(n) /\ n \in DOMAIN frames
      BY <1>1, <3>1 DEF InWindow
    <3>3. Dumb' = Dumb
      BY DEF Dumb
    <3>4. FrameOK(frames[n]) /\ (~Dumb => frames[n].entryno < Rows)
          /\ (~frames[n].config => grub_timeout < 0)
      BY <3>2 DEF FrameInv
    <3> QED
      BY <3>1, <3>3, <3>4
  <2> QED
    BY <2>1, <2>2
<1> QED
  BY <1>3, <1>4, <1>5, <1>6, <1>7

(* A step that leaves the frames alone and stays in the menu or leaves it. *)
LEMMA FramesKept ==
  ASSUME TypeOK, FrameInv, setup' = setup, frames' = frames, frames # <<>>,
         grub_timeout < 0 => grub_timeout' < 0,
         InMenu' => InMenu
  PROVE  /\ FrameInv'
         /\ frames' \in Seq(Frame) /\ Len(frames') <= 2 /\ frames' # <<>>
         /\ Len(frames') = 2 => frames'[1].config /\ ~frames'[2].config
         /\ top' = top
<1>1. Dumb' = Dumb /\ top' = top
  BY DEF Dumb, top
<1>2. FrameInv'
  <2> SUFFICES ASSUME NEW n \in DOMAIN frames
               PROVE  /\ FrameOK(frames[n])
                      /\ ~Dumb /\ InWindow(n)' => frames[n].entryno < Rows
                      /\ ~frames[n].config => grub_timeout' < 0
    BY <1>1 DEF FrameInv, FrameOK, MainFrame, ListFrame, Kept, Dumb
  <2>1. InWindow(n)' => InWindow(n)
    BY DEF InWindow
  <2> QED
    BY <2>1 DEF FrameInv
<1> QED
  BY <1>1, <1>2 DEF TypeOK

(* boot_entry hands run_script a script of lines, and on a Secure Boot SKU *)
(* only lines of the entry it records.                                     *)
LEMMA Booted ==
  ASSUME TypeOK, FrameInv, frames # <<>>, frames' = frames, setup' = setup,
         grub_timeout < 0 => grub_timeout' < 0,
         grub_timeout' \in Int, show_menu' \in BOOLEAN, auth' = auth,
         fallback_entryno' \in -1..Len(Fallbacks),
         EditNeedsAuth, setup \in Setups,
         NEW s, NEW n, s \in Seq(ScriptLine), n \in Nat, BootEntry(s, n),
         top.config => \A j \in DOMAIN s : s[j].k = "end" \/ s[j].e = Selected
  PROVE  IInv'
<1>1. /\ script' = s /\ behind' = n /\ pc' = "script" /\ current_entryno' = Selected
      /\ errnum' = 0 /\ kernel_type' = 0
  BY DEF BootEntry
<1>2. ~InMenu'
  BY <1>1 DEF InMenu
<1>3. /\ FrameInv' /\ frames' \in Seq(Frame) /\ Len(frames') <= 2 /\ frames' # <<>>
      /\ Len(frames') = 2 => frames'[1].config /\ ~frames'[2].config
      /\ top' = top
  BY <1>2, FramesKept
<1>4. TypeOK'
  BY <1>1, <1>3, SelectedEntry DEF TypeOK
<1>5. EditNeedsAuth'
  BY <1>1 DEF EditNeedsAuth, Unlocked, Password, grub_cln_secure, grub_cln_debug
<1>6. ScriptInv' /\ HiddenInv'
  BY <1>1, <1>3 DEF ScriptInv, HiddenInv
<1> QED
  BY <1>3, <1>4, <1>5, <1>6 DEF IInv

LEMMA BootedEntry ==
  ASSUME TypeOK, FrameInv, frames # <<>>, frames' = frames, setup' = setup,
         grub_timeout < 0 => grub_timeout' < 0,
         grub_timeout' \in Int, show_menu' \in BOOLEAN, auth' = auth,
         fallback_entryno' \in -1..Len(Fallbacks),
         EditNeedsAuth, setup \in Setups,
         top.config, BootEntry(ListAt(Selected), Selected + 1)
  PROVE  IInv'
<1>1. Selected \in 0..(Len(Kinds) - 1)
  BY SelectedEntry
<1> DEFINE s == ListAt(Selected)
<1>2. s \in Seq(ScriptLine) /\ Selected + 1 \in Nat
  BY <1>1, ListAtType, Constants
<1>3. \A j \in DOMAIN s : s[j].k = "end" \/ s[j].e = Selected
  BY <1>1, ListAtType, Constants
<1>4. BootEntry(s, Selected + 1)
  OBVIOUS
<1> HIDE DEF s
<1> QED
  BY <1>2, <1>3, <1>4, Booted

-----------------------------------------------------------------------------
(* Keys that change the running frame.                                     *)

LEMMA PressedFacts ==
  ASSUME TypeOK, NEW key, Pressed(key)
  PROVE  /\ pc = "poll" /\ InMenu /\ frames # <<>>
         /\ grub_timeout' = -1 /\ show_menu' \in BOOLEAN
         /\ fallback_entryno' \in -1..Len(Fallbacks)
<1>1. Len(Fallbacks) \in Nat
  BY MenuAssumption
<1>2. pc = "poll" /\ grub_timeout' = -1 /\ show_menu' = show_menu
      /\ fallback_entryno' \in {-1, fallback_entryno}
  BY DEF Pressed
<1>3. fallback_entryno' \in -1..Len(Fallbacks)
  <2>1. fallback_entryno \in -1..Len(Fallbacks)
    BY DEF TypeOK
  <2> QED
    BY <1>1, <1>2, <2>1
<1>4. frames # <<>> /\ show_menu \in BOOLEAN
  BY <1>2 DEF TypeOK
<1> QED
  BY <1>2, <1>3, <1>4 DEF InMenu

LEMMA Edited ==
  ASSUME IInv, setup' = setup, NEW key, NEW f \in Frame, FrameOK(f), Edit(key, f),
         f.config = top.config, ~Dumb => f.entryno < Rows
  PROVE  IInv'
<1>1. /\ TypeOK /\ FrameInv /\ setup \in Setups /\ EditNeedsAuth
  BY DEF IInv
<1>2. /\ Pressed(key) /\ SetTop(f) /\ pc' = "top"
      /\ auth' = auth /\ UNCHANGED running
  BY DEF Edit
<1>3. /\ pc = "poll" /\ InMenu /\ frames # <<>>
      /\ grub_timeout' = -1 /\ show_menu' \in BOOLEAN
      /\ fallback_entryno' \in -1..Len(Fallbacks)
  BY <1>1, <1>2, PressedFacts
<1>4. /\ FrameInv'
      /\ frames' \in Seq(Frame) /\ Len(frames') = Len(frames) /\ frames' # <<>>
      /\ Len(frames') <= 2
      /\ Len(frames') = 2 => frames'[1].config /\ ~frames'[2].config
  <2>1. ~f.config => grub_timeout' < 0
    BY <1>3
  <2>2. grub_timeout < 0 => grub_timeout' < 0
    BY <1>3
  <2> QED
    BY <1>1, <1>2, <1>3, <2>1, <2>2, TopReplaced
<1>5. TypeOK'
  BY <1>1, <1>2, <1>3, <1>4 DEF TypeOK, running
<1>6. EditNeedsAuth'
  BY <1>1, <1>2, <1>4 DEF EditNeedsAuth, Unlocked, Password, grub_cln_secure, grub_cln_debug
<1>7. HiddenInv' /\ ScriptInv'
  BY <1>2 DEF HiddenInv, ScriptInv
<1> QED
  BY <1>1, <1>4, <1>5, <1>6, <1>7 DEF IInv

(* The numbers of the running frame become first and entry.                *)
Renumbered(t, first, entry) == [t EXCEPT !.first_entry = first, !.entryno = entry]

(* The frame that Up, Down and the pages make: first and entry are its new *)
(* numbers.                                                                *)
LEMMA Moved ==
  ASSUME TypeOK, FrameInv, frames # <<>>,
         NEW first \in Nat, NEW entry \in Nat \cup {-1},
         first + entry >= -1,
         top.config => entry >= 0 /\ first + entry < Len(Kinds),
         Kept => entry >= 0 /\ first + entry < top.num_entries,
         NEW f, f = Renumbered(top, first, entry)
  PROVE  f \in Frame /\ FrameOK(f) /\ f.config = top.config /\ f.entryno = entry
<1> DEFINE t == top
<1>1. t \in Frame /\ FrameOK(t)
  BY TopFrame
<1>2. f = [t EXCEPT !.first_entry = first, !.entryno = entry]
  BY DEF Renumbered
<1>3. /\ t.config => entry >= 0 /\ first + entry < Len(Kinds)
      /\ Kept => entry >= 0 /\ first + entry < t.num_entries
  OBVIOUS
<1> HIDE DEF t
<1>4. /\ f \in Frame /\ f.first_entry = first /\ f.entryno = entry
      /\ f.num_entries = t.num_entries /\ f.list = t.list /\ f.config = t.config
  BY <1>1, <1>2 DEF Frame
<1>5. FrameOK(f)
  BY <1>1, <1>3, <1>4 DEF FrameOK, MainFrame, ListFrame
<1> QED
  BY <1>4, <1>5 DEF t

LEMMA TopNumbers ==
  ASSUME TypeOK, FrameInv, frames # <<>>, InMenu, NEW t, t = top
  PROVE  /\ t \in Frame
         /\ t.first_entry \in Nat /\ t.entryno \in Nat \cup {-1} /\ t.num_entries \in Nat
         /\ t.config \in BOOLEAN /\ t.first_entry + t.entryno >= -1
         /\ t.config => /\ t.entryno >= 0 /\ t.num_entries = Len(Kinds)
                        /\ t.first_entry + t.entryno < Len(Kinds)
         /\ Kept => /\ t.entryno >= 0
                           /\ t.first_entry + t.entryno < t.num_entries
         /\ ~Dumb => t.entryno < Rows
<1>1. t \in Frame /\ FrameOK(t) /\ (~Dumb => t.entryno < Rows)
  BY TopFrame
<1> QED
  BY <1>1 DEF FrameOK, MainFrame, ListFrame, Frame

LEMMA Renumber ==
  ASSUME NEW t \in Frame
  PROVE  /\ t = Renumbered(t, t.first_entry, t.entryno)
         /\ \A x : [t EXCEPT !.entryno = x] = Renumbered(t, t.first_entry, x)
         /\ \A x : [t EXCEPT !.first_entry = x] = Renumbered(t, x, t.entryno)
BY DEF Renumbered, Frame

LEMMA MoveKeeps ==
  ASSUME IInv, setup' = setup, NEW key, pc = "poll",
         NEW first \in Nat, NEW entry \in Nat \cup {-1},
         Edit(key, Renumbered(top, first, entry)),
         first + entry >= -1,
         top.config => entry >= 0 /\ first + entry < Len(Kinds),
         Kept => entry >= 0 /\ first + entry < top.num_entries,
         ~Dumb => entry < Rows
  PROVE  IInv'
<1> DEFINE f == Renumbered(top, first, entry)
<1>1. TypeOK /\ FrameInv /\ frames # <<>>
  BY DEF IInv, TypeOK
<1>2. f = Renumbered(top, first, entry)
  OBVIOUS
<1>3. f \in Frame /\ FrameOK(f) /\ f.config = top.config /\ f.entryno = entry
  <2> HIDE DEF f
  <2> QED
    BY <1>1, <1>2, Moved
<1>4. Edit(key, f)
  OBVIOUS
<1> HIDE DEF f
<1> QED
  BY <1>3, <1>4, Edited

LEMMA UpKeeps == ASSUME IInv, Up, setup' = setup PROVE IInv'
<1> DEFINE t == top
           f == CASE t.entryno > 0 -> [t EXCEPT !.entryno = @ - 1]
                  [] t.entryno <= 0 /\ t.first_entry > 0 /\ ~Dumb ->
                       [t EXCEPT !.first_entry = @ - 1]
                  [] OTHER -> t
<1>1. Edit("up", f) /\ pc = "poll"
  BY DEF Up, Edit, Pressed
<1>2. TypeOK /\ FrameInv /\ frames # <<>> /\ InMenu
  BY <1>1 DEF IInv, TypeOK, InMenu
<1>3. t = top
  OBVIOUS
<1> HIDE DEF t
<1>4. /\ t \in Frame
      /\ t.first_entry \in Nat /\ t.entryno \in Nat \cup {-1} /\ t.num_entries \in Nat
      /\ t.config \in BOOLEAN /\ t.first_entry + t.entryno >= -1
      /\ t.config => t.entryno >= 0 /\ t.first_entry + t.entryno < Len(Kinds)
      /\ Kept => t.entryno >= 0 /\ t.first_entry + t.entryno < t.num_entries
      /\ ~Dumb => t.entryno < Rows
  BY <1>2, <1>3, TopNumbers
<1>5. CASE t.entryno > 0
  <2>1. f = Renumbered(t, t.first_entry, t.entryno - 1)
    <3>1. f = [t EXCEPT !.entryno = t.entryno - 1]
      BY <1>4, <1>5
    <3> HIDE DEF f
    <3> QED
      BY <1>4, <3>1, Renumber
  <2>2. t.entryno - 1 \in Nat
    BY <1>4, <1>5
  <2> HIDE DEF f
  <2>3. Edit("up", Renumbered(top, t.first_entry, t.entryno - 1))
    BY <1>1, <1>3, <2>1
  <2> QED
    BY <1>1, <1>3, <1>4, <2>2, <2>3, Constants, MoveKeeps
<1>6. CASE ~(t.entryno > 0) /\ t.first_entry > 0 /\ ~Dumb
  <2>1. f = Renumbered(t, t.first_entry - 1, t.entryno)
    <3>1. f = [t EXCEPT !.first_entry = t.first_entry - 1]
      BY <1>4, <1>6
    <3> HIDE DEF f
    <3> QED
      BY <1>4, <3>1, Renumber
  <2> HIDE DEF f
  <2>2. Edit("up", Renumbered(top, t.first_entry - 1, t.entryno))
    BY <1>1, <1>3, <2>1
  <2>3. t.first_entry - 1 \in Nat /\ t.first_entry - 1 + t.entryno >= -1
    BY <1>4, <1>6
  <2>4. t.config => t.first_entry - 1 + t.entryno < Len(Kinds)
    BY <1>4, Constants
  <2>5. Kept => t.first_entry - 1 + t.entryno < t.num_entries
    BY <1>4
  <2> QED
    BY <1>1, <1>3, <1>4, <2>2, <2>3, <2>4, <2>5, MoveKeeps
<1>7. CASE ~(t.entryno > 0) /\ ~(t.first_entry > 0 /\ ~Dumb)
  <2>1. f = Renumbered(t, t.first_entry, t.entryno)
    <3>1. f = t
      BY <1>4, <1>7
    <3> HIDE DEF f
    <3> QED
      BY <1>4, <3>1, Renumber
  <2> HIDE DEF f
  <2>2. Edit("up", Renumbered(top, t.first_entry, t.entryno))
    BY <1>1, <1>3, <2>1
  <2> QED
    BY <1>1, <1>3, <1>4, <2>2, Constants, MoveKeeps
<1> QED
  BY <1>5, <1>6, <1>7

LEMMA DownKeeps == ASSUME IInv, Down, setup' = setup PROVE IInv'
<1> DEFINE t == top
           f == CASE Selected + 1 >= t.num_entries -> t
                  [] Selected + 1 < t.num_entries /\ (Dumb \/ t.entryno < Rows - 1) ->
                       [t EXCEPT !.entryno = @ + 1]
                  [] OTHER -> [t EXCEPT !.first_entry = @ + 1]
<1>1. Edit("down", f) /\ pc = "poll"
  BY DEF Down, Edit, Pressed
<1>2. TypeOK /\ FrameInv /\ frames # <<>> /\ InMenu
  BY <1>1 DEF IInv, TypeOK, InMenu
<1>3. t = top /\ Selected = t.first_entry + t.entryno
  BY DEF Selected
<1> HIDE DEF t
<1>4. /\ t \in Frame
      /\ t.first_entry \in Nat /\ t.entryno \in Nat \cup {-1} /\ t.num_entries \in Nat
      /\ t.config \in BOOLEAN /\ t.first_entry + t.entryno >= -1
      /\ t.config => /\ t.entryno >= 0 /\ t.num_entries = Len(Kinds)
                     /\ t.first_entry + t.entryno < Len(Kinds)
      /\ Kept => t.entryno >= 0 /\ t.first_entry + t.entryno < t.num_entries
      /\ ~Dumb => t.entryno < Rows
  BY <1>2, <1>3, TopNumbers
<1>5. CASE Selected + 1 >= t.num_entries
  <2>1. f = Renumbered(t, t.first_entry, t.entryno)
    <3>1. f = t
      BY <1>3, <1>4, <1>5
    <3> HIDE DEF f
    <3> QED
      BY <1>4, <3>1, Renumber
  <2> HIDE DEF f
  <2>2. Edit("down", Renumbered(top, t.first_entry, t.entryno))
    BY <1>1, <1>3, <2>1
  <2> QED
    BY <1>1, <1>3, <1>4, <2>2, Constants, MoveKeeps
<1>6. CASE Selected + 1 < t.num_entries /\ (Dumb \/ t.entryno < Rows - 1)
  <2>1. f = Renumbered(t, t.first_entry, t.entryno + 1)
    <3>1. f = [t EXCEPT !.entryno = t.entryno + 1]
      BY <1>3, <1>4, <1>6
    <3> HIDE DEF f
    <3> QED
      BY <1>4, <3>1, Renumber
  <2> HIDE DEF f
  <2>2. Edit("down", Renumbered(top, t.first_entry, t.entryno + 1))
    BY <1>1, <1>3, <2>1
  <2>3. /\ t.entryno + 1 \in Nat /\ t.first_entry + (t.entryno + 1) >= -1
        /\ t.config => t.first_entry + (t.entryno + 1) < Len(Kinds)
        /\ t.first_entry + (t.entryno + 1) < t.num_entries
        /\ ~Dumb => t.entryno + 1 < Rows
    BY <1>3, <1>4, <1>6, Constants
  <2> QED
    BY <1>1, <1>3, <1>4, <2>2, <2>3, MoveKeeps
<1>7. CASE Selected + 1 < t.num_entries /\ ~(Dumb \/ t.entryno < Rows - 1)
  <2>1. f = Renumbered(t, t.first_entry + 1, t.entryno)
    <3>1. f = [t EXCEPT !.first_entry = t.first_entry + 1]
      BY <1>3, <1>4, <1>7
    <3> HIDE DEF f
    <3> QED
      BY <1>4, <3>1, Renumber
  <2> HIDE DEF f
  <2>2. Edit("down", Renumbered(top, t.first_entry + 1, t.entryno))
    BY <1>1, <1>3, <2>1
  <2>3. t.first_entry + 1 \in Nat /\ t.first_entry + 1 + t.entryno >= -1
    BY <1>4
  <2>4. t.first_entry + t.entryno + 1 < t.num_entries
    BY <1>3, <1>7
  <2>5. t.first_entry + 1 + t.entryno < t.num_entries
    BY <1>4, <2>4
  <2>6. t.config => t.first_entry + 1 + t.entryno < Len(Kinds)
    BY <1>4, <2>5
  <2> QED
    BY <1>1, <1>3, <1>4, <2>2, <2>3, <2>5, <2>6, MoveKeeps
<1> QED
  BY <1>3, <1>4, <1>5, <1>6, <1>7

LEMMA PageUpKeeps == ASSUME IInv, PageUp, setup' = setup PROVE IInv'
<1> DEFINE t == top
           first == t.first_entry - Rows
           entry == IF first < 0 THEN t.entryno + first ELSE t.entryno
           newfirst == IF first < 0 THEN 0 ELSE first
           newentry == IF first < 0 /\ entry < 0 THEN 0 ELSE entry
<1>1. Edit("pgup", Renumbered(t, newfirst, newentry)) /\ pc = "poll"
  BY DEF PageUp, Edit, Pressed, Renumbered
<1>2. TypeOK /\ FrameInv /\ frames # <<>> /\ InMenu
  BY <1>1 DEF IInv, TypeOK, InMenu
<1>3. t = top
  OBVIOUS
<1> HIDE DEF t
<1>4. /\ t \in Frame
      /\ t.first_entry \in Nat /\ t.entryno \in Nat \cup {-1} /\ t.num_entries \in Nat
      /\ t.config \in BOOLEAN /\ t.first_entry + t.entryno >= -1
      /\ t.config => /\ t.entryno >= 0 /\ t.num_entries = Len(Kinds)
                     /\ t.first_entry + t.entryno < Len(Kinds)
      /\ Kept => t.entryno >= 0 /\ t.first_entry + t.entryno < t.num_entries
      /\ ~Dumb => t.entryno < Rows
  BY <1>2, <1>3, TopNumbers
<1>5. /\ newfirst \in Nat /\ newentry \in Nat \cup {-1}
      /\ newfirst + newentry >= -1
      /\ t.config => newentry >= 0 /\ newfirst + newentry < Len(Kinds)
      /\ Kept => newentry >= 0 /\ newfirst + newentry < t.num_entries
      /\ ~Dumb => newentry < Rows
  <2>1. CASE first < 0 /\ entry < 0
    <3>1. newfirst = 0 /\ newentry = 0
      BY <2>1
    <3> HIDE DEF newfirst, newentry
    <3> QED
      BY <1>4, <3>1, Constants
  <2>2. CASE first < 0 /\ ~(entry < 0)
    <3>1. newfirst = 0 /\ newentry = entry /\ entry = t.entryno + (t.first_entry - Rows)
      BY <2>2
    <3>2. t.first_entry - Rows < 0 /\ ~(entry < 0)
      BY <2>2
    <3> HIDE DEF newfirst, newentry, entry, first
    <3> QED
      BY <1>4, <3>1, <3>2, Constants
  <2>3. CASE ~(first < 0)
    <3>1. newfirst = t.first_entry - Rows /\ newentry = t.entryno
      BY <2>3
    <3>2. ~(t.first_entry - Rows < 0)
      BY <2>3
    <3> HIDE DEF newfirst, newentry, entry, first
    <3> QED
      BY <1>4, <3>1, <3>2, Constants
  <2> QED
    BY <2>1, <2>2, <2>3
<1> HIDE DEF newfirst, newentry, entry, first
<1>6. Edit("pgup", Renumbered(top, newfirst, newentry))
  BY <1>1, <1>3
<1> QED
  BY <1>1, <1>3, <1>5, <1>6, MoveKeeps

LEMMA PageDownKeeps == ASSUME IInv, PageDown, setup' = setup PROVE IInv'
<1> DEFINE t == top
           next == t.first_entry + Rows
           last == IF t.num_entries < Rows THEN 0 ELSE t.num_entries - Rows
           more == next + t.entryno + 1 < t.num_entries
           newfirst == IF more THEN next ELSE last
           newentry == IF more THEN t.entryno ELSE t.num_entries - last - 1
<1>1. /\ Edit("pgdn", IF more THEN [t EXCEPT !.first_entry = next]
                      ELSE [t EXCEPT !.first_entry = last,
                                     !.entryno = t.num_entries - last - 1])
      /\ pc = "poll"
  BY DEF PageDown, Edit, Pressed
<1>2. TypeOK /\ FrameInv /\ frames # <<>> /\ InMenu
  BY <1>1 DEF IInv, TypeOK, InMenu
<1>3. t = top
  OBVIOUS
<1> HIDE DEF t
<1>4. /\ t \in Frame
      /\ t.first_entry \in Nat /\ t.entryno \in Nat \cup {-1} /\ t.num_entries \in Nat
      /\ t.config \in BOOLEAN /\ t.first_entry + t.entryno >= -1
      /\ t.config => /\ t.entryno >= 0 /\ t.num_entries = Len(Kinds)
                     /\ t.first_entry + t.entryno < Len(Kinds)
      /\ Kept => t.entryno >= 0 /\ t.first_entry + t.entryno < t.num_entries
      /\ ~Dumb => t.entryno < Rows
  BY <1>2, <1>3, TopNumbers
<1>5. CASE more
  <2>1. next \in Nat /\ next + t.entryno < t.num_entries /\ next + t.entryno >= -1
    BY <1>4, <1>5, Constants
  <2>2. Edit("pgdn", [t EXCEPT !.first_entry = next])
    BY <1>1, <1>5
  <2> HIDE DEF next
  <2>3. Edit("pgdn", Renumbered(top, next, t.entryno))
    BY <1>3, <1>4, <2>2, Renumber
  <2>4. t.config => next + t.entryno < Len(Kinds)
    BY <1>4, <2>1
  <2> QED
    BY <1>1, <1>3, <1>4, <2>1, <2>3, <2>4, MoveKeeps
<1>6. CASE ~more
  <2> DEFINE e == t.num_entries - last - 1
  <2>1. /\ last \in Nat /\ e \in Nat \cup {-1} /\ last + e = t.num_entries - 1
        /\ e < Rows /\ (t.num_entries >= 1 => e >= 0)
    BY <1>4, Constants
  <2>2. Edit("pgdn", Renumbered(top, last, e))
    BY <1>1, <1>3, <1>6 DEF Renumbered
  <2> HIDE DEF last, e, more
  <2>3. /\ last + e >= -1
        /\ t.config => e >= 0 /\ last + e < Len(Kinds)
        /\ Kept => e >= 0 /\ last + e < t.num_entries
    BY <1>4, <2>1, Constants
  <2> QED
    BY <1>1, <1>3, <2>1, <2>2, <2>3, MoveKeeps
<1> QED
  BY <1>5, <1>6

LEMMA UnchangedKeeps ==
  ASSUME IInv, setup' = setup, NEW key, Edit(key, top) PROVE IInv'
<1>1. pc = "poll"
  BY DEF Edit, Pressed
<1>2. TypeOK /\ FrameInv /\ frames # <<>> /\ InMenu
  BY <1>1 DEF IInv, TypeOK, InMenu
<1>3. top \in Frame /\ FrameOK(top) /\ (~Dumb => top.entryno < Rows)
  BY <1>2, TopFrame
<1> QED
  BY <1>3, Edited

-----------------------------------------------------------------------------
(* Keys that change the edited list.                                       *)

Part(s, i, j) == SubSeq(s, i, j)

LEMMA PartType ==
  ASSUME NEW s \in Seq(ScriptLine), NEW i \in Nat, i >= 1,
         NEW j \in Int, j >= i - 1, j <= Len(s)
  PROVE  Part(s, i, j) \in Seq(ScriptLine) /\ Len(Part(s, i, j)) = j - i + 1
<1>1. \A k \in i..j : s[k] \in ScriptLine
  OBVIOUS
<1>2. /\ SubSeq(s, i, j) \in Seq(ScriptLine)
      /\ Len(SubSeq(s, i, j)) = IF i <= j THEN j - i + 1 ELSE 0
  BY <1>1, SubSeqProperties
<1> QED
  BY <1>2 DEF Part

LEMMA Glued ==
  ASSUME NEW s \in Seq(ScriptLine), NEW t \in Seq(ScriptLine)
  PROVE  s \o t \in Seq(ScriptLine) /\ Len(s \o t) = Len(s) + Len(t)
OBVIOUS

LEMMA Inserted ==
  ASSUME NEW f \in Frame, ~f.config,
         NEW n, n = f.first_entry + f.entryno, n >= -1, n <= Len(f.list),
         Kept => f.num_entries = Len(f.list) /\ f.entryno >= 0,
         NEW g, g = InsertBefore(f)
  PROVE  g \in Frame /\ FrameOK(g) /\ ~g.config /\ g.entryno = f.entryno
<1> DEFINE l == f.list
           at == IF n < 0 THEN 0 ELSE n
           p == Part(l, 1, at)
           b == <<Line(0, "blank")>>
           q == Part(l, at + 1, Len(l))
           new == p \o b \o q
<1>1. /\ f.first_entry \in Nat /\ f.entryno \in Int /\ f.num_entries \in Nat
      /\ l \in Seq(ScriptLine) /\ Len(l) \in Nat
  BY DEF Frame
<1>2. at \in Nat /\ at <= Len(l) /\ at + 1 \in Nat
  BY <1>1
<1>3. p \in Seq(ScriptLine) /\ Len(p) = at
  <2>1. 1 \in Nat /\ 1 >= 1 /\ at \in Int /\ at >= 1 - 1 /\ at - 1 + 1 = at
    BY <1>2
  <2> HIDE DEF at, l
  <2> QED
    BY <1>1, <1>2, <2>1, PartType
<1>4. q \in Seq(ScriptLine) /\ Len(q) = Len(l) - at
  <2> DEFINE i == at + 1
             j == Len(l)
  <2>1. i \in Nat /\ i >= 1 /\ j \in Int /\ j >= i - 1 /\ j <= Len(l) /\ j - i + 1 = Len(l) - at
    BY <1>1, <1>2
  <2> HIDE DEF i, j, at, l
  <2>2. Part(l, i, j) \in Seq(ScriptLine) /\ Len(Part(l, i, j)) = j - i + 1
    BY <1>1, <2>1, PartType
  <2>3. q = Part(l, i, j)
    BY DEF i, j
  <2> HIDE DEF q
  <2> QED
    BY <2>1, <2>2, <2>3
<1>5. b \in Seq(ScriptLine) /\ Len(b) = 1
  BY LineType, Constants
<1>6. g = [f EXCEPT !.list = new, !.num_entries = f.num_entries + 1]
  BY DEF InsertBefore, Part
<1> HIDE DEF p, q, b, at
<1>7. new \in Seq(ScriptLine) /\ Len(new) = Len(l) + 1
  <2>1. p \o b \in Seq(ScriptLine) /\ Len(p \o b) = at + 1
    BY <1>3, <1>5, Glued
  <2>2. new \in Seq(ScriptLine) /\ Len(new) = Len(p \o b) + Len(q)
    BY <1>4, <2>1, Glued
  <2>3. Len(p \o b) + Len(q) = Len(l) + 1
    <3> HIDE DEF l
    <3> QED
      BY <1>1, <1>2, <1>4, <2>1
  <2> QED
    BY <2>2, <2>3
<1> HIDE DEF new
<1>8. /\ g \in Frame /\ g.config = f.config /\ g.first_entry = f.first_entry
      /\ g.entryno = f.entryno /\ g.num_entries = f.num_entries + 1 /\ g.list = new
  <2> DEFINE num == f.num_entries + 1
  <2>1. num \in Nat
    BY <1>1
  <2>2. g = [f EXCEPT !.list = new, !.num_entries = num]
    BY <1>6
  <2> HIDE DEF num
  <2>3. /\ g \in Frame /\ g.config = f.config /\ g.first_entry = f.first_entry
        /\ g.entryno = f.entryno /\ g.num_entries = num /\ g.list = new
    BY <1>7, <2>1, <2>2 DEF Frame
  <2> QED
    BY <2>3 DEF num
<1>9. FrameOK(g)
  <2>1. g.first_entry + g.entryno >= -1 /\ ~g.config
    BY <1>8
  <2>2. Kept => ListFrame(g)
    BY <1>1, <1>7, <1>8 DEF ListFrame
  <2> QED
    BY <2>1, <2>2 DEF FrameOK
<1> QED
  BY <1>8, <1>9

LEMMA Removed ==
  ASSUME NEW f \in Frame, FrameOK(f), ~f.config, setup \in Setups,
         NEW n, n = f.first_entry + f.entryno, n + 1 <= Len(f.list),
         f.num_entries > 0, EmptyLists \/ f.num_entries > 1,
         ~Dumb => f.entryno < Rows,
         NEW g, g = RemoveLine(f)
  PROVE  g \in Frame /\ FrameOK(g) /\ ~g.config /\ (~Dumb => g.entryno < Rows)
<1> DEFINE l == f.list
           num == f.num_entries - 1
           from == IF n < 0 THEN 0 ELSE n
           p == Part(l, 1, from)
           q == Part(l, n + 2, Len(l))
           new == p \o q
           entry == IF f.entryno >= num THEN f.entryno - 1 ELSE f.entryno
           first == IF f.first_entry # 0 /\ num < Rows + f.first_entry
                    THEN f.first_entry - 1 ELSE f.first_entry
<1>1. /\ f.first_entry \in Nat /\ f.entryno \in Nat \cup {-1} /\ f.num_entries \in Nat
      /\ l \in Seq(ScriptLine) /\ Len(l) \in Nat
  BY DEF Frame
<1>2. n \in Int /\ n >= -1 /\ n + 1 <= Len(l)
  BY <1>1 DEF FrameOK
<1>3. from \in Nat /\ from <= Len(l) /\ n + 2 \in Nat /\ n + 2 >= 1 /\ n + 2 <= Len(l) + 1
  BY <1>1, <1>2
<1>4. p \in Seq(ScriptLine) /\ Len(p) = from
  <2>1. 1 \in Nat /\ 1 >= 1 /\ from \in Int /\ from >= 1 - 1 /\ from - 1 + 1 = from
    BY <1>3
  <2> HIDE DEF from, l
  <2> QED
    BY <1>1, <1>3, <2>1, PartType
<1>5. q \in Seq(ScriptLine) /\ Len(q) = Len(l) - (n + 2) + 1
  <2> DEFINE i == n + 2
             j == Len(l)
  <2>1. /\ i \in Nat /\ i >= 1 /\ j \in Int /\ j >= i - 1 /\ j <= Len(l)
        /\ j - i + 1 = Len(l) - (n + 2) + 1
    BY <1>1, <1>2, <1>3
  <2> HIDE DEF i, j, from, l
  <2>2. Part(l, i, j) \in Seq(ScriptLine) /\ Len(Part(l, i, j)) = j - i + 1
    BY <1>1, <2>1, PartType
  <2>3. q = Part(l, i, j)
    BY DEF i, j
  <2> HIDE DEF q
  <2> QED
    BY <2>1, <2>2, <2>3
<1>6. g = [f EXCEPT !.list = new, !.num_entries = num,
                    !.entryno = entry, !.first_entry = first]
  BY DEF RemoveLine, Part
<1> HIDE DEF p, q
<1>7. new \in Seq(ScriptLine) /\ Len(new) = from + (Len(l) - (n + 2) + 1)
  BY <1>4, <1>5, Glued
<1> HIDE DEF new
<1>8. num \in Nat /\ Rows \in Nat /\ Rows >= 1
  BY <1>1, Constants
<1>9. /\ first \in Nat /\ first <= f.first_entry
      /\ f.first_entry # 0 /\ num < Rows + f.first_entry => first = f.first_entry - 1
  BY <1>1
<1>10. /\ entry \in Nat \cup {-1} /\ entry <= f.entryno
       /\ f.entryno >= num => entry = f.entryno - 1
       /\ f.entryno < num => entry = f.entryno
  <2>1. f.entryno >= num => f.entryno # -1
    BY <1>1, <1>8
  <2> HIDE DEF num
  <2> QED
    BY <1>1, <1>8, <2>1
<1>11. /\ g \in Frame /\ g.config = f.config /\ g.first_entry = first
       /\ g.entryno = entry /\ g.num_entries = num /\ g.list = new
  <2> HIDE DEF num, first, entry
  <2> QED
    BY <1>1, <1>6, <1>7, <1>8, <1>9, <1>10 DEF Frame
<1> HIDE DEF first, entry
<1>12. Kept => ListFrame(g)
  <2> SUFFICES ASSUME Kept PROVE ListFrame(g)
    OBVIOUS
  <2>1. f.num_entries = Len(l) /\ f.entryno >= 0 /\ n < f.num_entries /\ f.entryno < Rows
    BY DEF FrameOK, ListFrame, Kept
  <2>2. num >= 1
    BY <1>1 DEF Kept
  <2>3. n >= 0 /\ from = n
    BY <1>1, <2>1
  <2>4. Len(new) = num
    BY <1>1, <1>2, <1>7, <2>1, <2>3
  <2>5. f.first_entry + f.entryno <= num
    BY <1>1, <2>1
  <2> HIDE DEF num, from
  <2>6. entry >= 0 /\ first + entry < num
    <3>1. CASE f.entryno >= num
      BY <1>1, <1>8, <1>9, <1>10, <2>2, <2>5, <3>1
    <3>2. CASE f.entryno < num /\ f.first_entry + f.entryno = num
      <4>1. f.first_entry # 0 /\ num < Rows + f.first_entry
        BY <1>1, <1>8, <2>1, <3>2
      <4> QED
        BY <1>1, <1>8, <1>9, <1>10, <2>1, <3>2, <4>1
    <3>3. CASE f.entryno < num /\ f.first_entry + f.entryno < num
      BY <1>1, <1>8, <1>9, <1>10, <2>1, <3>3
    <3> QED
      BY <1>1, <1>8, <2>5, <3>1, <3>2, <3>3
  <2> QED
    BY <1>11, <2>4, <2>6 DEF ListFrame
<1>13. first + entry >= -1
  BY <1>9, <1>10
<1>14. ~Dumb => entry < Rows
  BY <1>1, <1>8, <1>10
<1> QED
  BY <1>11, <1>12, <1>13, <1>14 DEF FrameOK

LEMMA EditAtKeeps ==
  ASSUME IInv, setup' = setup, NEW n, NEW key, NEW f,
         EditAt(n, key, f), ~top.config,
         n <= Len(top.list) =>
           f \in Frame /\ FrameOK(f) /\ ~f.config /\ (~Dumb => f.entryno < Rows)
  PROVE  IInv'
<1>0. TypeOK /\ FrameInv /\ frames # <<>> /\ EditNeedsAuth /\ setup \in Setups
  BY DEF IInv, TypeOK, EditAt, Edit, Pressed
<1>1. CASE n <= Len(top.list)
  <2>1. Edit(key, f) /\ f \in Frame /\ FrameOK(f) /\ (~Dumb => f.entryno < Rows)
    BY <1>1 DEF EditAt
  <2>2. f.config = top.config
    BY <1>0, <1>1, <2>1, TopFrame DEF Frame
  <2> QED
    BY <2>1, <2>2, Edited
<1>2. CASE ~(n <= Len(top.list))
  <2>1. Pressed(key) /\ pc' = "lost" /\ frames' = frames /\ auth' = auth /\ UNCHANGED running
    BY <1>2 DEF EditAt
  <2>2. /\ grub_timeout' = -1 /\ show_menu' \in BOOLEAN
        /\ fallback_entryno' \in -1..Len(Fallbacks) /\ InMenu
    BY <1>0, <2>1, PressedFacts
  <2>3. /\ FrameInv'
        /\ frames' \in Seq(Frame) /\ Len(frames') <= 2 /\ frames' # <<>>
        /\ Len(frames') = 2 => frames'[1].config /\ ~frames'[2].config
    <3>1. (grub_timeout < 0 => grub_timeout' < 0) /\ (InMenu' => InMenu)
      BY <2>2
    <3> QED
      BY <1>0, <2>1, <3>1, FramesKept
  <2>4. TypeOK'
    BY <1>0, <2>1, <2>2, <2>3 DEF TypeOK, running
  <2>5. EditNeedsAuth' /\ HiddenInv' /\ ScriptInv'
    BY <1>0, <2>1 DEF EditNeedsAuth, Unlocked, Password, grub_cln_secure, grub_cln_debug,
                      HiddenInv, ScriptInv
  <2> QED
    BY <1>0, <2>3, <2>4, <2>5 DEF IInv
<1> QED
  BY <1>1, <1>2

LEMMA OpenKeeps == ASSUME IInv, Open, setup' = setup PROVE IInv'
<1> DEFINE t == top
<1>1. pc = "poll" /\ ~t.config
  BY DEF Open
<1>2. TypeOK /\ FrameInv /\ frames # <<>> /\ InMenu
  BY <1>1 DEF IInv, TypeOK, InMenu
<1>3. t = top /\ Selected = t.first_entry + t.entryno
  BY DEF Selected
<1>4. \/ EditAt(Selected, "O", InsertBefore(t))
      \/ EditAt(Selected + 1, "o", InsertBefore(
           IF t.entryno < Rows - 1 \/ Dumb THEN [t EXCEPT !.entryno = @ + 1]
                                          ELSE [t EXCEPT !.first_entry = @ + 1]))
  BY DEF Open
<1> HIDE DEF t
<1>5. /\ t \in Frame
      /\ t.first_entry \in Nat /\ t.entryno \in Nat \cup {-1} /\ t.num_entries \in Nat
      /\ t.first_entry + t.entryno >= -1
      /\ ~Dumb => t.entryno < Rows
  BY <1>2, <1>3, TopNumbers
<1>6. Kept => t.num_entries = Len(t.list) /\ t.entryno >= 0
  <2>1. FrameOK(t)
    BY <1>2, <1>3, TopFrame
  <2> QED
    BY <2>1 DEF FrameOK, ListFrame
<1>7. CASE EditAt(Selected, "O", InsertBefore(t))
  <2> DEFINE g == InsertBefore(t)
  <2>1. ASSUME Selected <= Len(t.list)
        PROVE  g \in Frame /\ FrameOK(g) /\ ~g.config /\ g.entryno = t.entryno
    <3>1. g = InsertBefore(t)
      OBVIOUS
    <3> HIDE DEF g
    <3> QED
      BY <1>1, <1>3, <1>5, <1>6, <2>1, <3>1, Inserted
  <2>2. EditAt(Selected, "O", g)
    BY <1>7
  <2> HIDE DEF g
  <2> QED
    BY <1>1, <1>3, <1>5, <2>1, <2>2, EditAtKeeps
<1>8. CASE EditAt(Selected + 1, "o", InsertBefore(
             IF t.entryno < Rows - 1 \/ Dumb THEN [t EXCEPT !.entryno = @ + 1]
                                            ELSE [t EXCEPT !.first_entry = @ + 1]))
  <2> DEFINE first == IF t.entryno < Rows - 1 \/ Dumb THEN t.first_entry
                      ELSE t.first_entry + 1
             entry == IF t.entryno < Rows - 1 \/ Dumb THEN t.entryno + 1 ELSE t.entryno
             u == IF t.entryno < Rows - 1 \/ Dumb THEN [t EXCEPT !.entryno = @ + 1]
                  ELSE [t EXCEPT !.first_entry = @ + 1]
             g == InsertBefore(u)
  <2>1. u = Renumbered(t, first, entry)
    BY <1>5 DEF Renumbered, Frame
  <2>2. /\ first \in Nat /\ entry \in Nat \cup {-1} /\ first + entry = Selected + 1
        /\ (t.entryno >= 0 => entry >= 0) /\ Selected + 1 >= -1
    BY <1>3, <1>5
  <2>3. ~Dumb => entry < Rows
    BY <1>5, Constants
  <2>4. EditAt(Selected + 1, "o", g) /\ g = InsertBefore(u)
    BY <1>8
  <2> HIDE DEF first, entry, u, g
  <2>5. /\ u \in Frame /\ u.first_entry = first /\ u.entryno = entry /\ u.config = t.config
        /\ u.num_entries = t.num_entries /\ u.list = t.list
    BY <1>5, <2>1, <2>2 DEF Renumbered, Frame
  <2>6. ASSUME Selected + 1 <= Len(t.list)
        PROVE  g \in Frame /\ FrameOK(g) /\ ~g.config /\ g.entryno = entry
    <3> DEFINE n == Selected + 1
    <3>1. n = u.first_entry + u.entryno /\ n >= -1 /\ n <= Len(u.list) /\ ~u.config
      BY <1>1, <2>2, <2>5, <2>6
    <3>2. Kept => u.num_entries = Len(u.list) /\ u.entryno >= 0
      BY <1>6, <2>2, <2>5
    <3> HIDE DEF n
    <3> QED
      BY <2>4, <2>5, <3>1, <3>2, Inserted
  <2> QED
    BY <1>1, <1>3, <2>3, <2>4, <2>6, EditAtKeeps
<1> QED
  BY <1>4, <1>7, <1>8

LEMMA DeleteKeeps == ASSUME IInv, Delete, setup' = setup PROVE IInv'
<1> DEFINE t == top
<1>1. /\ pc = "poll" /\ ~t.config /\ (EmptyLists \/ t.num_entries > 1)
      /\ IF t.num_entries > 0 THEN EditAt(Selected + 1, "d", RemoveLine(t))
                              ELSE Edit("d", t)
  BY DEF Delete
<1>2. TypeOK /\ FrameInv /\ frames # <<>> /\ InMenu /\ setup \in Setups
  BY <1>1 DEF IInv, TypeOK, InMenu
<1>3. t = top /\ Selected = t.first_entry + t.entryno
  BY DEF Selected
<1> HIDE DEF t
<1>4. CASE t.num_entries > 0
  <2> DEFINE g == RemoveLine(t)
  <2>1. t \in Frame /\ FrameOK(t) /\ (~Dumb => t.entryno < Rows)
    BY <1>2, <1>3, TopFrame
  <2>2. ASSUME Selected + 1 <= Len(t.list)
        PROVE  g \in Frame /\ FrameOK(g) /\ ~g.config /\ (~Dumb => g.entryno < Rows)
    <3>1. g = RemoveLine(t)
      OBVIOUS
    <3> HIDE DEF g
    <3> QED
      BY <1>1, <1>2, <1>3, <1>4, <2>1, <2>2, <3>1, Removed
  <2>3. EditAt(Selected + 1, "d", g)
    BY <1>1, <1>4
  <2> HIDE DEF g
  <2> QED
    BY <1>1, <1>3, <2>2, <2>3, EditAtKeeps
<1>5. CASE ~(t.num_entries > 0)
  BY <1>1, <1>3, <1>5, UnchangedKeeps
<1> QED
  BY <1>4, <1>5

-----------------------------------------------------------------------------
(* Keys that open and close frames.                                        *)

Places == {"restart", "hidden", "top", "poll", "script", "recovery",
           "cmdline", "booted", "lost"}

(* A step that leaves the frames alone.                                    *)
LEMMA Quiet ==
  ASSUME IInv, setup' = setup, frames' = frames, frames # <<>>,
         pc' \in Places, InMenu' => InMenu,
         grub_timeout < 0 => grub_timeout' < 0, grub_timeout' \in Int,
         show_menu' \in BOOLEAN, auth' = auth,
         fallback_entryno' \in -1..Len(Fallbacks),
         current_entryno' \in Int, script' \in Seq(ScriptLine), behind' \in Nat,
         errnum' \in {0, 1}, kernel_type' \in {0, 1},
         pc' = "cmdline" => Unlocked \/ pc = "cmdline",
         pc' = "hidden" => grub_timeout' >= 0,
         ScriptInv'
  PROVE  IInv'
<1>1. TypeOK /\ FrameInv /\ setup \in Setups /\ EditNeedsAuth
  BY DEF IInv
<1>2. /\ FrameInv' /\ frames' \in Seq(Frame) /\ Len(frames') <= 2 /\ frames' # <<>>
      /\ Len(frames') = 2 => frames'[1].config /\ ~frames'[2].config
  BY <1>1, FramesKept
<1>3. TypeOK'
  BY <1>1, <1>2 DEF TypeOK, Places
<1>4. EditNeedsAuth'
  BY <1>1 DEF EditNeedsAuth, Unlocked, Password, grub_cln_secure, grub_cln_debug
<1>5. HiddenInv'
  BY DEF HiddenInv
<1> QED
  BY <1>1, <1>2, <1>3, <1>4, <1>5 DEF IInv

LEMMA BootKeeps == ASSUME IInv, Boot, setup' = setup PROVE IInv'
<1>1. TypeOK /\ FrameInv /\ setup \in Setups /\ EditNeedsAuth
  BY DEF IInv
<1>2. frames' = frames /\ auth' = auth
  BY DEF Boot
<1>3. CASE top.config /\ Pressed("enter") /\ BootEntry(ListAt(Selected), Selected + 1)
  <2>1. /\ frames # <<>> /\ grub_timeout' = -1 /\ show_menu' \in BOOLEAN
        /\ fallback_entryno' \in -1..Len(Fallbacks)
    BY <1>1, <1>3, PressedFacts
  <2>2. grub_timeout' < 0 /\ grub_timeout' \in Int
    BY <2>1
  <2> QED
    BY <1>1, <1>2, <1>3, <2>1, <2>2, BootedEntry
<1>4. CASE ~top.config /\ Pressed("b") /\ BootEntry(Append(top.list, End), Unknown)
  <2>1. /\ frames # <<>> /\ grub_timeout' = -1 /\ show_menu' \in BOOLEAN
        /\ fallback_entryno' \in -1..Len(Fallbacks)
    BY <1>1, <1>4, PressedFacts
  <2>2. grub_timeout' < 0 /\ grub_timeout' \in Int
    BY <2>1
  <2>3. top.list \in Seq(ScriptLine)
    BY <1>1, <2>1, TopFrame DEF Frame
  <2> DEFINE s == Append(top.list, End)
  <2>4. s \in Seq(ScriptLine) /\ Unknown \in Nat
    BY <2>3, EndType, Constants DEF Unknown
  <2>5. BootEntry(s, Unknown)
    BY <1>4
  <2> HIDE DEF s
  <2> QED
    BY <1>1, <1>2, <1>4, <2>1, <2>2, <2>4, <2>5, Booted
<1> QED
  BY <1>3, <1>4 DEF Boot

LEMMA FirstOfTwo ==
  ASSUME NEW S, NEW s \in Seq(S), Len(s) = 2
  PROVE  /\ SubSeq(s, 1, 1) \in Seq(S) /\ Len(SubSeq(s, 1, 1)) = 1
         /\ SubSeq(s, 1, 1)[1] = s[1]
<1> DEFINE p == SubSeq(s, 1, 1)
<1>1. \A k \in 1..1 : s[k] \in S
  OBVIOUS
<1>2. p \in Seq(S) /\ Len(p) = 1 /\ \A k \in 1..1 : p[k] = s[1 + k - 1]
  BY <1>1, SubSeqProperties
<1> HIDE DEF p
<1>3. p[1] = s[1]
  BY <1>2
<1> QED
  BY <1>2, <1>3 DEF p

LEMMA SecondAdded ==
  ASSUME NEW S, NEW s \in Seq(S), Len(s) = 1, NEW f \in S
  PROVE  /\ Append(s, f) \in Seq(S) /\ Len(Append(s, f)) = 2
         /\ DOMAIN Append(s, f) = {1, 2}
         /\ Append(s, f)[1] = s[1] /\ Append(s, f)[2] = f
<1> DEFINE t == Append(s, f)
<1>1. t \in Seq(S)
  OBVIOUS
<1>2. Len(t) = 2
  OBVIOUS
<1>3. DOMAIN t = 1..2
  BY <1>1, <1>2
<1>4. t[1] = s[1]
  OBVIOUS
<1>5. t[2] = f
  <2>1. t[Len(s) + 1] = f
    BY AppendProperties
  <2> HIDE DEF t
  <2> QED
    BY <2>1
<1> HIDE DEF t
<1>6. 1..2 = {1, 2}
  OBVIOUS
<1> QED
  BY <1>1, <1>2, <1>3, <1>4, <1>5, <1>6 DEF t

LEMMA EscapeKeeps == ASSUME IInv, Escape, setup' = setup PROVE IInv'
<1>1. TypeOK /\ FrameInv /\ setup \in Setups /\ EditNeedsAuth
  BY DEF IInv
<1>2. /\ Pressed("esc") /\ auth' = auth /\ UNCHANGED running
      /\ frames' = SubSeq(frames, 1, Len(frames) - 1)
      /\ pc' = IF Len(frames) = 1 THEN "reload" ELSE "restart"
  BY DEF Escape
<1>3. /\ frames # <<>> /\ grub_timeout' = -1 /\ show_menu' \in BOOLEAN
      /\ fallback_entryno' \in -1..Len(Fallbacks)
  BY <1>1, <1>2, PressedFacts
<1>4. Len(frames) \in {1, 2} /\ frames \in Seq(Frame)
  BY <1>1, <1>3, TopFrame DEF TypeOK
<1>5. /\ FrameInv' /\ frames' \in Seq(Frame) /\ Len(frames') <= 1
      /\ frames' = <<>> <=> pc' = "reload"
  <2>1. CASE Len(frames) = 1
    <3>1. frames' = <<>> /\ pc' = "reload"
      BY <1>2, <1>4, <2>1
    <3> QED
      BY <3>1 DEF FrameInv
  <2>2. CASE Len(frames) = 2
    <3>1. frames[1] \in Frame /\ 1 \in DOMAIN frames
      BY <1>4, <2>2
    <3>2. pc' = "restart" /\ Len(frames) - 1 = 1
      BY <1>2, <2>2
    <3>3. frames' \in Seq(Frame) /\ Len(frames') = 1 /\ DOMAIN frames' = {1}
          /\ frames'[1] = frames[1]
      <4>1. frames' = SubSeq(frames, 1, 1)
        BY <1>2, <3>2
      <4>2. frames' \in Seq(Frame) /\ Len(frames') = 1 /\ frames'[1] = frames[1]
        BY <1>4, <2>2, <4>1, FirstOfTwo
      <4>3. DOMAIN frames' = 1..1 /\ 1..1 = {1}
        BY <4>2
      <4> QED
        BY <4>2, <4>3
    <3>4. FrameOK(frames[1]) /\ (~Dumb => frames[1].entryno < Rows) /\ frames[1].config
      BY <1>1, <2>2, <3>1 DEF FrameInv, InWindow, TypeOK
    <3>5. FrameInv'
      BY <3>3, <3>4 DEF FrameInv, FrameOK, MainFrame, ListFrame, Kept, Dumb
    <3>6. frames' \in Seq(Frame) /\ Len(frames') <= 1 /\ frames' # <<>>
      BY ONLY <3>3
    <3>7. ~(frames' = <<>>) /\ ~(pc' = "reload")
      BY ONLY <3>2, <3>6
    <3> QED
      BY ONLY <3>5, <3>6, <3>7
  <2> QED
    BY <1>4, <2>1, <2>2
<1>6. Len(frames') # 2 /\ Len(frames') <= 2
  BY <1>5
<1>7. TypeOK'
  BY <1>1, <1>2, <1>3, <1>5, <1>6 DEF TypeOK, running
<1>8. EditNeedsAuth' /\ HiddenInv' /\ ScriptInv'
  BY <1>2, <1>6 DEF EditNeedsAuth, HiddenInv, ScriptInv
<1> QED
  BY <1>1, <1>5, <1>7, <1>8 DEF IInv

LEMMA EnterPasswordKeeps == ASSUME IInv, EnterPassword, setup' = setup PROVE IInv'
<1>1. TypeOK /\ FrameInv /\ setup \in Setups /\ EditNeedsAuth
  BY DEF IInv
<1>2. ~auth /\ Password /\ Pressed("p") /\ UNCHANGED running /\ auth' \in BOOLEAN
  BY DEF EnterPassword
<1>3. \/ pc' = "reload" /\ frames' = SubSeq(frames, 1, Len(frames) - 1)
      \/ pc' = "restart" /\ frames' = frames
  BY DEF EnterPassword
<1>4. /\ frames # <<>> /\ grub_timeout' = -1 /\ show_menu' \in BOOLEAN
      /\ fallback_entryno' \in -1..Len(Fallbacks) /\ InMenu
  BY <1>1, <1>2, PressedFacts
<1>5. Len(frames) = 1 /\ frames \in Seq(Frame)
  BY <1>1, <1>2, <1>4, TopFrame DEF TypeOK, EditNeedsAuth, Unlocked
<1>6. /\ FrameInv' /\ frames' \in Seq(Frame) /\ Len(frames') <= 1
      /\ frames' = <<>> <=> pc' = "reload"
  <2>1. CASE pc' = "reload" /\ frames' = SubSeq(frames, 1, Len(frames) - 1)
    <3>1. frames' = <<>>
      BY <1>5, <2>1
    <3>2. pc' = "reload"
      BY <2>1
    <3> QED
      BY <3>1, <3>2 DEF FrameInv
  <2>2. CASE pc' = "restart" /\ frames' = frames
    <3>1. (grub_timeout < 0 => grub_timeout' < 0) /\ (InMenu' => InMenu)
      BY <1>4
    <3>2. FrameInv'
      BY <1>1, <1>4, <2>2, <3>1, FramesKept
    <3>3. frames' # <<>> /\ pc' # "reload" /\ frames' \in Seq(Frame) /\ Len(frames') = 1
      BY <1>4, <1>5, <2>2
    <3> QED
      BY <3>2, <3>3
  <2> QED
    BY <1>3, <2>1, <2>2
<1>7. Len(frames') # 2 /\ Len(frames') <= 2
  BY <1>6
<1>8. pc' \in {"reload", "restart"}
  BY <1>3
<1>9. TypeOK'
  BY <1>1, <1>2, <1>4, <1>6, <1>7, <1>8 DEF TypeOK, running
<1>10. EditNeedsAuth' /\ HiddenInv' /\ ScriptInv'
  BY <1>7, <1>8 DEF EditNeedsAuth, HiddenInv, ScriptInv
<1> QED
  BY <1>1, <1>6, <1>9, <1>10 DEF IInv

LEMMA EditEntryKeeps == ASSUME IInv, EditEntry, setup' = setup PROVE IInv'
<1>1. TypeOK /\ FrameInv /\ setup \in Setups /\ EditNeedsAuth
  BY DEF IInv
<1> DEFINE cmds == Commands(Selected)
           new == [first_entry |-> 0, entryno |-> 0, num_entries |-> Len(cmds),
                   list |-> cmds, config |-> FALSE]
<1>2. /\ Unlocked /\ top.config /\ Pressed("e") /\ frames' = Append(frames, new)
      /\ pc' = "restart" /\ auth' = auth /\ UNCHANGED running
  BY DEF EditEntry
<1>3. /\ frames # <<>> /\ grub_timeout' = -1 /\ show_menu' \in BOOLEAN
      /\ fallback_entryno' \in -1..Len(Fallbacks) /\ InMenu
  BY <1>1, <1>2, PressedFacts
<1>4. Len(frames) = 1 /\ frames \in Seq(Frame) /\ (~Dumb => top.entryno < Rows)
      /\ FrameOK(top) /\ top = frames[1]
  BY <1>1, <1>2, <1>3, TopFrame DEF TypeOK, top
<1>5. cmds \in Seq(ScriptLine) /\ Len(cmds) \in Nat /\ Len(cmds) >= 1
  BY <1>1, <1>2, <1>3, SelectedEntry, CommandsType
<1> HIDE DEF cmds
<1>6. new \in Frame /\ FrameOK(new) /\ ~new.config
  BY <1>5 DEF Frame, FrameOK, ListFrame
<1> HIDE DEF new
<1>7. frames' \in Seq(Frame) /\ Len(frames') = 2 /\ frames'[1] = top /\ frames'[2] = new
      /\ DOMAIN frames' = {1, 2}
  BY <1>2, <1>4, <1>6, SecondAdded
<1>8. FrameInv'
  <2> SUFFICES ASSUME NEW n \in {1, 2}
               PROVE  /\ FrameOK(frames'[n])
                      /\ ~Dumb /\ InWindow(n)' => frames'[n].entryno < Rows
                      /\ ~frames'[n].config => grub_timeout' < 0
    BY <1>7 DEF FrameInv, FrameOK, MainFrame, ListFrame, Kept, Dumb
  <2>1. grub_timeout' < 0 /\ ~InMenu'
    BY <1>2, <1>3 DEF InMenu
  <2>2. CASE n = 1
    BY <1>4, <1>7, <2>1, <2>2
  <2>3. CASE n = 2
    <3>1. ~InWindow(n)'
      BY <1>7, <2>1, <2>3 DEF InWindow
    <3> QED
      BY <1>6, <1>7, <2>1, <2>3, <3>1
  <2> QED
    BY <2>2, <2>3
<1>9. TypeOK'
  <2>1. frames' # <<>> /\ Len(frames') <= 2
    BY <1>7
  <2> QED
    BY <1>1, <1>2, <1>3, <1>6, <1>7, <2>1 DEF TypeOK, running
<1>10. EditNeedsAuth' /\ HiddenInv' /\ ScriptInv'
  BY <1>2 DEF EditNeedsAuth, HiddenInv, ScriptInv, Unlocked, Password, grub_cln_secure,
              grub_cln_debug
<1> QED
  BY <1>1, <1>8, <1>9, <1>10 DEF IInv

LEMMA EditLineKeeps == ASSUME IInv, EditLine, setup' = setup PROVE IInv'
<1> DEFINE t == top
           line == IF Selected < 0 THEN 1 ELSE Selected + 1
<1>1. TypeOK /\ FrameInv /\ setup \in Setups /\ EditNeedsAuth
  BY DEF IInv
<1>2. /\ Unlocked /\ ~t.config /\ Pressed("e") /\ auth' = auth /\ UNCHANGED running
      /\ pc' = IF line <= Len(t.list) THEN "restart" ELSE "lost"
      /\ \/ frames' = frames
         \/ \E k \in Typed : SetTop([t EXCEPT !.list[line].k = k])
  BY DEF EditLine
<1>3. /\ frames # <<>> /\ grub_timeout' = -1 /\ show_menu' \in BOOLEAN
      /\ fallback_entryno' \in -1..Len(Fallbacks) /\ InMenu
  BY <1>1, <1>2, PressedFacts
<1>4. t \in Frame /\ FrameOK(t)
  BY <1>1, <1>3, TopFrame
<1>5. line \in Nat
  BY <1>1, <1>3, SelectedEntry
<1>6. pc' \in {"restart", "lost"}
  BY <1>2
<1>7. ~InMenu' /\ grub_timeout' < 0 /\ grub_timeout' \in Int
  BY <1>3, <1>6 DEF InMenu
<1>8. ScriptInv' /\ HiddenInv'
  BY <1>6 DEF ScriptInv, HiddenInv
<1>9. CASE frames' = frames
  <2>1. pc' \in Places /\ pc' # "cmdline" /\ pc' # "hidden"
    BY <1>6 DEF Places
  <2> QED
    BY <1>1, <1>2, <1>3, <1>7, <1>8, <1>9, <2>1, Quiet DEF TypeOK, running
<1>10. ASSUME NEW k \in Typed, SetTop([t EXCEPT !.list[line].k = k])
       PROVE  IInv'
  <2> DEFINE l == t.list
             new == [l EXCEPT ![line].k = k]
             g == [t EXCEPT !.list = new]
  <2>1. l \in Seq(ScriptLine) /\ t.config \in BOOLEAN
    BY <1>4 DEF Frame
  <2>2. k \in CommandKinds \cup {"title", "blank", "end"}
    BY MenuAssumption
  <2>3. new \in Seq(ScriptLine) /\ Len(new) = Len(l)
    <3>1. CASE line \in DOMAIN l
      <4>1. [l[line] EXCEPT !.k = k] \in ScriptLine
        <5> DEFINE y == l[line]
        <5>1. y \in ScriptLine
          BY <2>1, <3>1
        <5> HIDE DEF y
        <5>2. [y EXCEPT !.k = k] \in ScriptLine
          BY <2>2, <5>1 DEF ScriptLine
        <5> QED
          BY <5>2 DEF y
      <4> DEFINE x == [l[line] EXCEPT !.k = k]
      <4>2. new = [l EXCEPT ![line] = x]
        OBVIOUS
      <4> HIDE DEF x, new, l
      <4> QED
        BY <2>1, <3>1, <4>1, <4>2 DEF x
    <3>2. CASE line \notin DOMAIN l
      <4>1. new = l
        BY <2>1, <3>2
      <4> QED
        BY <2>1, <4>1
    <3> QED
      BY <3>1, <3>2
  <2>4. SetTop(g)
    BY <1>10
  <2> HIDE DEF new
  <2>5. /\ g \in Frame /\ g.config = t.config /\ g.first_entry = t.first_entry
        /\ g.entryno = t.entryno /\ g.num_entries = t.num_entries /\ g.list = new
    BY <1>4, <2>3 DEF Frame
  <2>6. FrameOK(g)
    BY <1>2, <1>4, <2>3, <2>5 DEF FrameOK, ListFrame
  <2> HIDE DEF g
  <2>7. /\ FrameInv'
        /\ frames' \in Seq(Frame) /\ Len(frames') = Len(frames) /\ frames' # <<>>
        /\ Len(frames') <= 2
        /\ Len(frames') = 2 => frames'[1].config /\ ~frames'[2].config
    BY <1>1, <1>3, <1>7, <2>4, <2>5, <2>6, TopReplaced
  <2>8. TypeOK'
    BY <1>1, <1>2, <1>3, <1>6, <2>7 DEF TypeOK, running
  <2>9. EditNeedsAuth'
    BY <1>2 DEF EditNeedsAuth, Unlocked, Password, grub_cln_secure, grub_cln_debug
  <2> QED
    BY <1>1, <1>8, <2>7, <2>8, <2>9 DEF IInv
<1> QED
  BY <1>2, <1>9, <1>10

LEMMA CommandLineKeeps == ASSUME IInv, CommandLine, setup' = setup PROVE IInv'
<1>1. TypeOK
  BY DEF IInv
<1>2. /\ Unlocked /\ Pressed("c") /\ pc' = "cmdline" /\ errnum' = 0 /\ kernel_type' = 0
      /\ UNCHANGED <<frames, auth, current_entryno, script, behind>>
  BY DEF CommandLine
<1>3. /\ frames # <<>> /\ grub_timeout' = -1 /\ show_menu' \in BOOLEAN
      /\ fallback_entryno' \in -1..Len(Fallbacks) /\ InMenu
  BY <1>1, <1>2, PressedFacts
<1>4. pc' \in Places /\ ScriptInv' /\ grub_timeout' < 0 /\ grub_timeout' \in Int
  BY <1>2, <1>3 DEF Places, ScriptInv
<1> QED
  BY <1>1, <1>2, <1>3, <1>4, Quiet DEF TypeOK

LEMMA AppendArgumentsKeeps == ASSUME IInv, AppendArguments, setup' = setup PROVE IInv'
<1> DEFINE t == top
           s == Append(Commands(Selected), End)
           g == [t EXCEPT !.config = FALSE]
<1>1. TypeOK /\ FrameInv /\ setup \in Setups /\ EditNeedsAuth
  BY DEF IInv
<1>2. /\ t.config /\ Pressed("a") /\ auth' = auth
      /\ \/ SetTop(g) /\ BootEntry(s, Unknown)
         \/ pc' = "restart" /\ UNCHANGED <<frames, running>>
  BY DEF AppendArguments
<1>3. /\ frames # <<>> /\ grub_timeout' = -1 /\ show_menu' \in BOOLEAN
      /\ fallback_entryno' \in -1..Len(Fallbacks) /\ InMenu
  BY <1>1, <1>2, PressedFacts
<1>4. grub_timeout' < 0 /\ grub_timeout' \in Int
  BY <1>3
<1>5. t \in Frame /\ FrameOK(t) /\ Len(frames) = 1
  BY <1>1, <1>2, <1>3, TopFrame
<1>6. CASE SetTop(g) /\ BootEntry(s, Unknown)
  <2>1. g \in Frame /\ g.config = FALSE /\ FrameOK(g)
    <3>1. /\ g \in Frame /\ g.config = FALSE /\ g.first_entry = t.first_entry
          /\ g.entryno = t.entryno /\ g.num_entries = t.num_entries /\ g.list = t.list
      BY <1>5 DEF Frame
    <3> HIDE DEF g, t
    <3> QED
      BY <1>5, <3>1 DEF FrameOK, ListFrame
  <2>2. s \in Seq(ScriptLine) /\ Unknown \in Nat
    <3>1. Commands(Selected) \in Seq(ScriptLine)
      BY <1>1, <1>2, <1>3, SelectedEntry, CommandsType
    <3> QED
      BY <3>1, EndType, Constants DEF Unknown
  <2> HIDE DEF g, s
  <2>3. /\ script' = s /\ behind' = Unknown /\ pc' = "script" /\ current_entryno' = Selected
        /\ errnum' = 0 /\ kernel_type' = 0
    BY <1>6 DEF BootEntry
  <2>4. ~InMenu'
    BY <2>3 DEF InMenu
  <2>5. /\ FrameInv' /\ frames' \in Seq(Frame) /\ Len(frames') = Len(frames)
        /\ frames' # <<>> /\ Len(frames') <= 2 /\ top' = g
        /\ Len(frames') = 2 => frames'[1].config /\ ~frames'[2].config
    BY <1>1, <1>3, <1>4, <1>5, <1>6, <2>1, <2>4, TopReplaced
  <2>6. TypeOK'
    BY <1>1, <1>2, <1>3, <1>4, <2>2, <2>3, <2>5, SelectedEntry DEF TypeOK
  <2>7. EditNeedsAuth' /\ HiddenInv' /\ ScriptInv'
    BY <1>5, <2>1, <2>3, <2>5 DEF EditNeedsAuth, HiddenInv, ScriptInv
  <2> QED
    BY <1>1, <2>5, <2>6, <2>7 DEF IInv
<1>7. CASE pc' = "restart" /\ UNCHANGED <<frames, running>>
  <2>1. pc' \in Places /\ ScriptInv' /\ ~InMenu'
    BY <1>7 DEF Places, ScriptInv, InMenu
  <2> QED
    BY <1>1, <1>2, <1>3, <1>4, <1>7, <2>1, Quiet DEF TypeOK, running
<1> QED
  BY <1>2, <1>6, <1>7

-----------------------------------------------------------------------------
(* The steps of GRUB, and the user's outside the menu.                     *)

LEMMA RestartKeeps == ASSUME IInv, Restart, setup' = setup PROVE IInv'
<1> DEFINE t == top
           g == IF Dumb \/ t.entryno < Rows THEN t
                ELSE [t EXCEPT !.first_entry = @ + t.entryno - (Rows - 1),
                               !.entryno = Rows - 1]
<1>1. TypeOK /\ FrameInv /\ setup \in Setups /\ EditNeedsAuth
  BY DEF IInv
<1>2. /\ pc = "restart" /\ SetTop(g) /\ show_menu' \in BOOLEAN
      /\ pc' = IF show_menu' THEN "top" ELSE "hidden"
      /\ (~show_menu' => ~(grub_timeout < 0))
      /\ UNCHANGED <<grub_timeout, auth, fallback_entryno, running>>
  BY <1>1 DEF Restart, TypeOK
<1>3. frames # <<>> /\ grub_timeout \in Int
  BY <1>1, <1>2 DEF TypeOK
<1>4. t \in Frame /\ FrameOK(t) /\ (~t.config => grub_timeout < 0)
  BY <1>1, <1>3, TopFrame
<1>5. g \in Frame /\ FrameOK(g) /\ g.config = t.config /\ (~Dumb => g.entryno < Rows)
  <2>1. CASE Dumb \/ t.entryno < Rows
    BY <1>4, <2>1
  <2>2. CASE ~(Dumb \/ t.entryno < Rows)
    <3> DEFINE first == t.first_entry + t.entryno - (Rows - 1)
               entry == Rows - 1
    <3>1. g = Renumbered(t, first, entry)
      BY <2>2 DEF Renumbered
    <3>2. t.first_entry \in Nat /\ t.entryno \in Nat \cup {-1} /\ ~(t.entryno < Rows)
      BY <1>4, <2>2 DEF Frame
    <3>3. /\ first \in Nat /\ entry \in Nat /\ entry < Rows
          /\ first + entry = t.first_entry + t.entryno
      BY <3>2, Constants
    <3> HIDE DEF first, entry, g
    <3>4. /\ t.config => entry >= 0 /\ first + entry < Len(Kinds)
          /\ Kept => entry >= 0 /\ first + entry < t.num_entries
          /\ first + entry >= -1
      BY <1>4, <3>3 DEF FrameOK, MainFrame, ListFrame
    <3>5. g \in Frame /\ FrameOK(g) /\ g.config = top.config /\ g.entryno = entry
      BY <1>1, <1>3, <3>1, <3>3, <3>4, Moved
    <3> QED
      BY <3>3, <3>5
  <2> QED
    BY <2>1, <2>2
<1> HIDE DEF g
<1>6. /\ FrameInv' /\ frames' \in Seq(Frame) /\ Len(frames') = Len(frames)
      /\ frames' # <<>> /\ Len(frames') <= 2
      /\ Len(frames') = 2 => frames'[1].config /\ ~frames'[2].config
  <2>1. (~g.config => grub_timeout' < 0) /\ (grub_timeout < 0 => grub_timeout' < 0)
    BY <1>2, <1>4, <1>5
  <2> QED
    BY <1>1, <1>2, <1>3, <1>5, <2>1, TopReplaced
<1>7. pc' \in {"top", "hidden"}
  BY <1>2
<1>8. TypeOK'
  BY <1>1, <1>2, <1>6, <1>7 DEF TypeOK, running
<1>9. HiddenInv'
  BY <1>2, <1>3 DEF HiddenInv
<1>10. EditNeedsAuth' /\ ScriptInv'
  BY <1>1, <1>2, <1>6, <1>7 DEF EditNeedsAuth, ScriptInv, Unlocked, Password,
                               grub_cln_secure, grub_cln_debug
<1> QED
  BY <1>1, <1>6, <1>8, <1>9, <1>10 DEF IInv

(* A countdown runs only over the main menu, and its end boots an entry.   *)
LEMMA CountdownKeeps ==
  ASSUME IInv, setup' = setup, pc \in {"hidden", "top"}, frames' = frames,
         grub_timeout = 0, grub_timeout' = -1,
         UNCHANGED <<show_menu, auth, fallback_entryno>>,
         BootEntry(ListAt(Selected), Selected + 1)
  PROVE  IInv'
<1>1. TypeOK /\ FrameInv /\ setup \in Setups /\ EditNeedsAuth
  BY DEF IInv
<1>2. frames # <<>>
  BY <1>1 DEF TypeOK
<1>3. top.config
  BY <1>1, <1>2, TopFrame
<1>4. /\ grub_timeout' < 0 /\ grub_timeout' \in Int /\ show_menu' \in BOOLEAN
      /\ fallback_entryno' \in -1..Len(Fallbacks)
  BY <1>1 DEF TypeOK
<1> QED
  BY <1>1, <1>2, <1>3, <1>4, BootedEntry

LEMMA HiddenSecondKeeps == ASSUME IInv, HiddenSecond, setup' = setup PROVE IInv'
<1>1. TypeOK /\ HiddenInv
  BY DEF IInv
<1>2. /\ pc = "hidden" /\ grub_timeout' = grub_timeout - 1
      /\ UNCHANGED <<frames, c, show_menu, auth, fallback_entryno>>
  BY DEF HiddenSecond
<1>3. grub_timeout \in Int /\ grub_timeout >= 0 /\ frames # <<>>
  BY <1>1, <1>2 DEF TypeOK, HiddenInv
<1>4. CASE grub_timeout = 0
  BY <1>2, <1>4, CountdownKeeps DEF HiddenSecond
<1>5. CASE grub_timeout # 0
  <2>1. UNCHANGED <<pc, running>>
    BY <1>5 DEF HiddenSecond
  <2>2. grub_timeout' \in Int /\ grub_timeout' >= 0 /\ ~(grub_timeout < 0)
    BY <1>2, <1>3, <1>5
  <2>3. pc' \in Places /\ (InMenu' => InMenu) /\ ScriptInv' /\ pc' # "cmdline"
    BY <1>2, <2>1 DEF Places, InMenu, ScriptInv
  <2> QED
    BY <1>1, <1>2, <1>3, <2>1, <2>2, <2>3, Quiet DEF TypeOK, running
<1> QED
  BY <1>4, <1>5

LEMMA SecondKeeps == ASSUME IInv, Second, setup' = setup PROVE IInv'
<1>1. TypeOK
  BY DEF IInv
<1>2. /\ pc = "top" /\ grub_timeout' = IF grub_timeout < 0 THEN -1 ELSE grub_timeout - 1
      /\ UNCHANGED <<frames, show_menu, auth, fallback_entryno>>
  BY DEF Second
<1>3. grub_timeout \in Int /\ frames # <<>>
  BY <1>1, <1>2 DEF TypeOK
<1>4. CASE grub_timeout = 0
  BY <1>2, <1>4, CountdownKeeps DEF Second
<1>5. CASE grub_timeout # 0
  <2>1. pc' = "poll" /\ UNCHANGED running
    BY <1>5 DEF Second
  <2>2. grub_timeout' \in Int /\ (grub_timeout < 0 => grub_timeout' < 0)
    BY <1>2, <1>3
  <2>3. pc' \in Places /\ (InMenu' => InMenu) /\ ScriptInv' /\ pc' \notin {"cmdline", "hidden"}
    BY <1>2, <2>1 DEF Places, InMenu, ScriptInv
  <2> QED
    BY <1>1, <1>2, <1>3, <2>1, <2>2, <2>3, Quiet DEF TypeOK, running
<1> QED
  BY <1>4, <1>5

LEMMA HiddenKeyKeeps == ASSUME IInv, HiddenKey, setup' = setup PROVE IInv'
<1>1. TypeOK
  BY DEF IInv
<1>2. /\ pc = "hidden" /\ grub_timeout' = -1 /\ show_menu' = TRUE /\ pc' = "top"
      /\ UNCHANGED <<frames, c, auth, fallback_entryno, running>>
  BY DEF HiddenKey
<1>3. frames # <<>> /\ grub_timeout' \in Int /\ grub_timeout' < 0
  BY <1>1, <1>2 DEF TypeOK
<1>4. pc' \in Places /\ (InMenu' => InMenu) /\ ScriptInv' /\ pc' \notin {"cmdline", "hidden"}
  BY <1>2 DEF Places, InMenu, ScriptInv
<1> QED
  BY <1>1, <1>2, <1>3, <1>4, Quiet DEF TypeOK, running

LEMMA NoKeyKeeps == ASSUME IInv, NoKey, setup' = setup PROVE IInv'
<1>1. TypeOK
  BY DEF IInv
<1>2. pc = "poll" /\ pc' = "top" /\ UNCHANGED <<frames, c, user, running>>
  BY DEF NoKey
<1>3. frames # <<>>
  BY <1>1, <1>2 DEF TypeOK
<1>4. pc' \in Places /\ (InMenu' => InMenu) /\ ScriptInv' /\ pc' \notin {"cmdline", "hidden"}
  BY <1>2 DEF Places, InMenu, ScriptInv
<1> QED
  BY <1>1, <1>2, <1>3, <1>4, Quiet DEF TypeOK, running, user

LEMMA TailKept ==
  ASSUME NEW s \in Seq(ScriptLine), s # <<>>
  PROVE  /\ Tail(s) \in Seq(ScriptLine)
         /\ \A j \in DOMAIN Tail(s) : \E i \in DOMAIN s : Tail(s)[j] = s[i]
<1> DEFINE t == Tail(s)
<1>1. /\ t \in Seq(ScriptLine) /\ Len(t) = Len(s) - 1
      /\ \A i \in 1..Len(t) : t[i] = s[i + 1]
  BY HeadTailProperties
<1> HIDE DEF t
<1>2. ASSUME NEW j \in DOMAIN t PROVE \E i \in DOMAIN s : t[j] = s[i]
  <2>1. j \in 1..Len(t) /\ j + 1 \in DOMAIN s
    BY <1>1
  <2> QED
    BY <1>1, <2>1
<1> QED
  BY <1>1, <1>2 DEF t

LEMMA ToRecoveryKeeps == ASSUME IInv, ToRecovery, setup' = setup PROVE IInv'
<1>1. TypeOK
  BY DEF IInv
<1>2. /\ pc = "script" /\ pc' = "recovery" /\ kernel_type' = 0
      /\ UNCHANGED <<frames, c, user, current_entryno, script, behind, errnum>>
  BY DEF ToRecovery
<1>3. frames # <<>>
  BY <1>1, <1>2 DEF TypeOK
<1>4. pc' \in Places /\ (InMenu' => InMenu) /\ ScriptInv' /\ pc' \notin {"cmdline", "hidden"}
  BY <1>2 DEF Places, InMenu, ScriptInv
<1> QED
  BY <1>1, <1>2, <1>3, <1>4, Quiet DEF TypeOK, user

LEMMA CommandKeeps == ASSUME IInv, Command, setup' = setup PROVE IInv'
<1>1. TypeOK /\ ScriptInv
  BY DEF IInv
<1>2. /\ pc = "script" /\ script # <<>> /\ script' = Tail(script)
      /\ UNCHANGED <<pc, frames, c, user, current_entryno, behind>>
      /\ \E err \in Fails(Head(script).k) :
           /\ errnum' = err
           /\ kernel_type' = IF Head(script).k = "kernel" /\ err = 0 THEN 1
                             ELSE kernel_type
  BY DEF Command
<1>3. errnum' \in {0, 1} /\ kernel_type' \in {0, 1}
  <2>1. PICK err \in Fails(Head(script).k) :
             /\ errnum' = err
             /\ kernel_type' = IF Head(script).k = "kernel" /\ err = 0 THEN 1
                               ELSE kernel_type
    BY <1>2
  <2>2. err \in {0, 1}
    BY <2>1 DEF Fails
  <2> QED
    BY <1>1, <2>1, <2>2 DEF TypeOK
<1>4. /\ script' \in Seq(ScriptLine)
      /\ \A j \in DOMAIN script' : \E i \in DOMAIN script : script'[j] = script[i]
  BY <1>1, <1>2, TailKept DEF TypeOK
<1>5. frames # <<>>
  BY <1>1, <1>2 DEF TypeOK
<1>6. top' = top
  BY <1>2 DEF top
<1>7. ScriptInv'
  BY <1>1, <1>2, <1>4, <1>6 DEF ScriptInv, grub_cln_secure
<1>8. pc' \in Places /\ (InMenu' => InMenu) /\ pc' \notin {"cmdline", "hidden"}
  BY <1>2 DEF Places, InMenu
<1> QED
  BY <1>1, <1>2, <1>3, <1>4, <1>5, <1>7, <1>8, Quiet DEF TypeOK, user

LEMMA ScriptReturnsKeeps == ASSUME IInv, ScriptReturns, setup' = setup PROVE IInv'
<1>1. TypeOK
  BY DEF IInv
<1>2. /\ pc = "script" /\ script' = <<>> /\ show_menu' = TRUE /\ pc' = "restart"
      /\ UNCHANGED <<frames, c, grub_timeout, auth, fallback_entryno,
                     current_entryno, behind, errnum, kernel_type>>
  BY DEF ScriptReturns
<1>3. frames # <<>> /\ script' \in Seq(ScriptLine)
  BY <1>1, <1>2 DEF TypeOK
<1>4. pc' \in Places /\ (InMenu' => InMenu) /\ ScriptInv' /\ pc' \notin {"cmdline", "hidden"}
  BY <1>2 DEF Places, InMenu, ScriptInv
<1> QED
  BY <1>1, <1>2, <1>3, <1>4, Quiet DEF TypeOK

LEMMA boot_funcKeeps == ASSUME IInv, boot_func, setup' = setup PROVE IInv'
<1>1. TypeOK
  BY DEF IInv
<1>2. /\ pc = "script" /\ script # <<>> /\ pc' \in {"booted", "recovery"}
      /\ IF Tail(script) = <<>> /\ behind < Unknown
         THEN script' = ListAt(behind) /\ behind' = behind + 1
         ELSE script' = Tail(script) /\ UNCHANGED behind
      /\ errnum' \in {errnum, 1} /\ kernel_type' \in {kernel_type, 0}
      /\ UNCHANGED <<frames, c, user, current_entryno>>
  BY DEF boot_func
<1>3. frames # <<>> /\ behind \in Nat /\ script \in Seq(ScriptLine)
      /\ errnum' \in {0, 1} /\ kernel_type' \in {0, 1}
  BY <1>1, <1>2 DEF TypeOK
<1>4. script' \in Seq(ScriptLine) /\ behind' \in Nat
  <2>1. CASE Tail(script) = <<>> /\ behind < Unknown
    <3>1. behind \in 0..Len(Kinds)
      BY <1>3, <2>1, Constants DEF Unknown
    <3> QED
      BY <1>2, <1>3, <2>1, <3>1, ListAtType
  <2>2. CASE ~(Tail(script) = <<>> /\ behind < Unknown)
    BY <1>2, <1>3, <2>2, TailKept
  <2> QED
    BY <2>1, <2>2
<1>5. pc' \in Places /\ (InMenu' => InMenu) /\ ScriptInv' /\ pc' \notin {"cmdline", "hidden"}
  BY <1>2 DEF Places, InMenu, ScriptInv
<1> QED
  BY <1>1, <1>2, <1>3, <1>4, <1>5, Quiet DEF TypeOK, user

LEMMA PastScriptKeeps == ASSUME IInv, PastScript, setup' = setup PROVE IInv'
<1>1. TypeOK
  BY DEF IInv
<1>2. pc = "script" /\ pc' = "lost" /\ UNCHANGED <<frames, c, user, running>>
  BY DEF PastScript
<1>3. frames # <<>>
  BY <1>1, <1>2 DEF TypeOK
<1>4. pc' \in Places /\ (InMenu' => InMenu) /\ ScriptInv' /\ pc' \notin {"cmdline", "hidden"}
  BY <1>2 DEF Places, InMenu, ScriptInv
<1> QED
  BY <1>1, <1>2, <1>3, <1>4, Quiet DEF TypeOK, user, running

LEMMA LeaveRecoveryKeeps == ASSUME IInv, LeaveRecovery, setup' = setup PROVE IInv'
<1>1. TypeOK
  BY DEF IInv
<1>2. /\ pc = "recovery" /\ ~grub_cln_secure /\ pc' = "script" /\ errnum' = 0
      /\ kernel_type' \in {0, 1}
      /\ UNCHANGED <<frames, c, user, current_entryno, script, behind>>
  BY DEF LeaveRecovery, CanEscape
<1>3. frames # <<>>
  BY <1>1, <1>2 DEF TypeOK
<1>4. pc' \in Places /\ (InMenu' => InMenu) /\ ScriptInv' /\ pc' \notin {"cmdline", "hidden"}
  BY <1>2 DEF Places, InMenu, ScriptInv, grub_cln_secure
<1> QED
  BY <1>1, <1>2, <1>3, <1>4, Quiet DEF TypeOK, user

LEMMA LeaveCommandLineKeeps == ASSUME IInv, LeaveCommandLine, setup' = setup PROVE IInv'
<1>1. TypeOK
  BY DEF IInv
<1>2. pc = "cmdline" /\ pc' = "restart" /\ UNCHANGED <<frames, c, user, running>>
  BY DEF LeaveCommandLine
<1>3. frames # <<>>
  BY <1>1, <1>2 DEF TypeOK
<1>4. pc' \in Places /\ (InMenu' => InMenu) /\ ScriptInv' /\ pc' \notin {"cmdline", "hidden"}
  BY <1>2 DEF Places, InMenu, ScriptInv
<1> QED
  BY <1>1, <1>2, <1>3, <1>4, Quiet DEF TypeOK, user, running

LEMMA configfile_funcKeeps == ASSUME IInv, configfile_func, setup' = setup PROVE IInv'
<1>1. TypeOK /\ setup \in Setups
  BY DEF IInv
<1>2. /\ auth' = FALSE /\ frames' = <<>> /\ script' = <<>> /\ pc' = "reload"
      /\ UNCHANGED <<c, grub_timeout, show_menu, fallback_entryno,
                     current_entryno, behind, errnum, kernel_type>>
  BY DEF configfile_func
<1>3. frames' \in Seq(Frame) /\ Len(frames') = 0 /\ DOMAIN frames' = {}
      /\ script' \in Seq(ScriptLine)
  BY <1>2
<1>4. FrameInv' /\ HiddenInv' /\ EditNeedsAuth' /\ ScriptInv'
  BY <1>2, <1>3 DEF FrameInv, HiddenInv, EditNeedsAuth, ScriptInv
<1>5. frames' \in Seq(Frame) /\ Len(frames') <= 2 /\ Len(frames') # 2
      /\ (pc' = "reload" <=> frames' = <<>>)
  BY <1>2, <1>3
<1>6. auth' \in BOOLEAN /\ show_menu' \in BOOLEAN
  BY <1>1, <1>2 DEF TypeOK
<1>7. TypeOK'
  BY <1>1, <1>2, <1>3, <1>5, <1>6 DEF TypeOK
<1> QED
  BY <1>1, <1>4, <1>7 DEF IInv

(* The frame of a configuration that cmain has just read.                  *)
LEMMA OneFrame ==
  ASSUME NEW d \in 0..(Len(Kinds) - 1), NEW f, f = MainMenu(d)
  PROVE  /\ <<f>> \in Seq(Frame) /\ Len(<<f>>) = 1 /\ DOMAIN <<f>> = {1}
         /\ <<f>>[1] = f /\ <<f>> # <<>>
<1>1. f \in Frame
  BY MainMenuOK
<1>2. <<f>> \in Seq(Frame) /\ Len(<<f>>) = 1 /\ DOMAIN <<f>> = 1..1 /\ <<f>>[1] = f
  BY <1>1
<1>3. 1..1 = {1}
  OBVIOUS
<1> QED
  BY <1>2, <1>3

LEMMA ReloadKeeps == ASSUME IInv, Reload, setup' = setup PROVE IInv'
<1>1. TypeOK /\ setup \in Setups
  BY DEF IInv
<1>2. /\ grub_timeout' \in Timeouts /\ pc' = "restart"
      /\ fallback_entryno' = IF Fallbacks = <<>> THEN -1 ELSE 0
      /\ show_menu' \in {show_menu, FALSE}
      /\ UNCHANGED <<c, auth, running>>
      /\ \E default \in 0..(Len(Kinds) - 1) : frames' = <<MainMenu(default)>>
  BY DEF Reload, Configured
<1>3. PICK default \in 0..(Len(Kinds) - 1) : frames' = <<MainMenu(default)>>
  BY <1>2
<1> DEFINE f == MainMenu(default)
<1>4. frames' \in Seq(Frame) /\ Len(frames') = 1 /\ DOMAIN frames' = {1}
      /\ frames'[1] = f /\ frames' # <<>>
  BY <1>3, OneFrame
<1>5. FrameOK(f) /\ f.config
  BY MainMenuOK
<1> HIDE DEF f
<1>6. FrameInv'
  <2>1. ~InWindow(1)'
    BY <1>2, <1>4 DEF InWindow, InMenu
  <2>2. FrameOK(f)'
    BY <1>5 DEF FrameOK, MainFrame, ListFrame, Kept, Dumb, f, MainMenu, Titles, Line
  <2> QED
    BY <1>4, <1>5, <2>1, <2>2 DEF FrameInv
<1>7. HiddenInv' /\ EditNeedsAuth' /\ ScriptInv'
  BY <1>2, <1>4 DEF HiddenInv, EditNeedsAuth, ScriptInv
<1>8. grub_timeout' \in Int /\ fallback_entryno' \in -1..Len(Fallbacks)
  <2>1. Len(Fallbacks) \in Nat /\ Timeouts \subseteq Int
    BY MenuAssumption
  <2> QED
    BY <1>2, <2>1
<1>9. /\ frames' \in Seq(Frame) /\ Len(frames') <= 2 /\ Len(frames') # 2
      /\ (pc' = "reload" <=> frames' = <<>>)
  BY <1>2, <1>4
<1>10. auth' \in BOOLEAN /\ show_menu' \in BOOLEAN
  BY <1>1, <1>2 DEF TypeOK
<1>11. TypeOK'
  BY <1>1, <1>2, <1>8, <1>9, <1>10 DEF TypeOK, running
<1> QED
  BY <1>1, <1>6, <1>7, <1>11 DEF IInv

LEMMA InitKeeps == Init => IInv
<1> SUFFICES ASSUME Init PROVE IInv
  OBVIOUS
<1>1. /\ pc = "restart" /\ grub_timeout \in Timeouts /\ show_menu \in BOOLEAN /\ auth = FALSE
      /\ fallback_entryno = IF Fallbacks = <<>> THEN -1 ELSE 0
      /\ current_entryno = 0 /\ script = <<>> /\ behind = Unknown /\ errnum = 0
      /\ kernel_type = 0 /\ setup \in Setups
  BY DEF Init
<1>2. PICK default \in 0..(Len(Kinds) - 1) : frames = <<MainMenu(default)>>
  BY DEF Init
<1> DEFINE f == MainMenu(default)
<1>3. frames \in Seq(Frame) /\ Len(frames) = 1 /\ DOMAIN frames = {1}
      /\ frames[1] = f /\ frames # <<>>
  BY <1>2, OneFrame
<1>4. FrameOK(f) /\ f.config
  BY MainMenuOK
<1> HIDE DEF f
<1>5. FrameInv
  <2>1. ~InWindow(1)
    BY <1>1, <1>3 DEF InWindow, InMenu
  <2> QED
    BY <1>3, <1>4, <2>1 DEF FrameInv
<1>6. HiddenInv /\ EditNeedsAuth /\ ScriptInv
  BY <1>1, <1>3 DEF HiddenInv, EditNeedsAuth, ScriptInv
<1>7. grub_timeout \in Int /\ fallback_entryno \in -1..Len(Fallbacks) /\ behind \in Nat
      /\ script \in Seq(ScriptLine)
  <2>1. Len(Fallbacks) \in Nat /\ Timeouts \subseteq Int
    BY MenuAssumption
  <2> QED
    BY <1>1, <2>1, Constants DEF Unknown
<1>8. /\ Len(frames) <= 2 /\ Len(frames) # 2
      /\ (pc = "reload" <=> frames = <<>>)
  BY <1>1, <1>3
<1>9. current_entryno \in Int /\ errnum \in {0, 1} /\ kernel_type \in {0, 1}
  <2>1. current_entryno = 0 /\ errnum = 0 /\ kernel_type = 0
    BY <1>1, Zenon
  <2> QED
    BY <2>1
<1>10. TypeOK
  <2>1. pc \in {"restart", "hidden", "top", "poll", "script", "recovery",
                "cmdline", "reload", "booted", "lost"}
    BY <1>1
  <2>2. Len(frames) = 2 => frames[1].config /\ ~frames[2].config
    BY <1>8
  <2>3. show_menu \in BOOLEAN /\ auth \in BOOLEAN
    BY <1>1, Zenon
  <2> QED
    BY <2>1, <2>2, <2>3, <1>3, <1>7, <1>8, <1>9, Zenon DEF TypeOK
<1> QED
  BY <1>1, <1>5, <1>6, <1>10 DEF IInv

-----------------------------------------------------------------------------
(* The theorems.                                                           *)

LEMMA KeyKeeps == ASSUME IInv, Key, setup' = setup PROVE IInv'
<1>1. ASSUME Ignored PROVE IInv'
  BY <1>1, UnchangedKeeps DEF Ignored
<1> QED
  BY <1>1, UpKeeps, DownKeeps, PageUpKeeps, PageDownKeeps, OpenKeeps, DeleteKeeps,
     BootKeeps, EscapeKeeps, EnterPasswordKeeps, EditEntryKeeps, EditLineKeeps,
     CommandLineKeeps, AppendArgumentsKeeps DEF Key

LEMMA NextKeeps == IInv /\ [Next]_vars => IInv'
<1> SUFFICES ASSUME IInv, [Next]_vars PROVE IInv'
  OBVIOUS
<1>1. CASE Grub
  <2>1. setup' = setup
    BY <1>1 DEF Grub
  <2>2. \/ Restart \/ HiddenSecond \/ Second \/ NoKey \/ ToRecovery \/ Command
        \/ ScriptReturns \/ boot_func \/ PastScript \/ Reload
    BY <1>1 DEF Grub
  <2> QED
    BY <2>1, <2>2, RestartKeeps, HiddenSecondKeeps, SecondKeeps, NoKeyKeeps,
       ToRecoveryKeeps, CommandKeeps, ScriptReturnsKeeps, boot_funcKeeps,
       PastScriptKeeps, ReloadKeeps
<1>2. CASE User
  <2>1. setup' = setup /\ (Key \/ HiddenKey \/ LeaveRecovery \/ LeaveCommandLine
                           \/ configfile_func)
    BY <1>2 DEF User
  <2> QED
    BY <2>1, KeyKeeps, HiddenKeyKeeps, LeaveRecoveryKeeps, LeaveCommandLineKeeps,
       configfile_funcKeeps
<1>3. CASE UNCHANGED vars
  BY <1>3 DEF vars, user, running, IInv, TypeOK, FrameInv, FrameOK, MainFrame, ListFrame,
              Kept, Dumb, InWindow, InMenu, HiddenInv, EditNeedsAuth, Unlocked, Password,
              grub_cln_secure, grub_cln_debug, ScriptInv, top
<1> QED
  BY <1>1, <1>2, <1>3 DEF Next

(* While a configuration is looked for, nobody has authority that the      *)
(* password of the last one gave.                                          *)
AuthInv ==
  /\ AuthorityEnds
  /\ pc = "reload" /\ auth => authority = "left"

(* GRUB itself neither gives authority nor looks for a configuration.      *)
LEMMA GrubKeepsAuth ==
  ASSUME Grub
  PROVE  auth' = auth /\ pc' # "reload"
BY DEF Grub, Restart, HiddenSecond, Second, NoKey, ToRecovery, Command, ScriptReturns,
       boot_func, PastScript, Reload, Configured, BootEntry, user, running

(* A key at a prompt does, by the password, and ESC and the password's     *)
(* file lead to the search.                                                *)
LEMMA KeyKeepsAuth ==
  ASSUME Key
  PROVE  /\ pc = "poll"
         /\ auth' = auth \/ (~auth /\ auth' \in BOOLEAN /\ (pc' = "reload" => ~auth'))
<1>1. CASE Up \/ Down \/ PageUp \/ PageDown \/ Ignored
  BY <1>1 DEF Up, Down, PageUp, PageDown, Ignored, Edit, Pressed
<1>2. CASE Open \/ Delete
  BY <1>2 DEF Open, Delete, EditAt, Edit, Pressed
<1>3. CASE Boot \/ Escape \/ EditEntry \/ EditLine \/ CommandLine
  BY <1>3 DEF Boot, Escape, EditEntry, EditLine, CommandLine, Pressed
<1>4. CASE AppendArguments
  BY <1>4 DEF AppendArguments, Pressed
<1>5. CASE EnterPassword
  BY <1>5 DEF EnterPassword, Pressed
<1> QED
  BY <1>1, <1>2, <1>3, <1>4, <1>5 DEF Key

LEMMA AuthKeeps == AuthInv /\ [Next]_vars => AuthInv'
<1> SUFFICES ASSUME AuthInv, [Next]_vars PROVE AuthInv'
  OBVIOUS
<1>1. /\ authority \in {"this", "another", "left"}
      /\ auth => authority # "another"
      /\ pc = "reload" /\ auth => authority = "left"
  BY DEF AuthInv, AuthorityEnds
<1>2. ASSUME Granted, auth' = auth, pc' # "reload" PROVE AuthInv'
  BY <1>1, <1>2 DEF AuthInv, AuthorityEnds, Granted
<1>3. CASE Grub
  <2>1. Granted
    BY <1>3 DEF Grub
  <2> QED
    BY <1>2, <1>3, <2>1, GrubKeepsAuth
<1>4. CASE User
  <2>1. Granted
    BY <1>4 DEF User
  <2>2. CASE Key
    <3>1. /\ pc = "poll"
          /\ auth' = auth \/ (~auth /\ auth' \in BOOLEAN /\ (pc' = "reload" => ~auth'))
      BY <2>2, KeyKeepsAuth
    <3>2. CASE auth' = auth
      BY <1>1, <2>1, <3>1, <3>2 DEF AuthInv, AuthorityEnds, Granted
    <3>3. CASE ~auth /\ (pc' = "reload" => ~auth')
      BY <1>1, <2>1, <3>1, <3>3 DEF AuthInv, AuthorityEnds, Granted
    <3> QED
      BY <3>1, <3>2, <3>3
  <2>3. CASE HiddenKey \/ LeaveRecovery \/ LeaveCommandLine
    <3>1. auth' = auth /\ pc' # "reload"
      BY <2>3 DEF HiddenKey, LeaveRecovery, LeaveCommandLine, user
    <3> QED
      BY <1>2, <2>1, <3>1
  <2>4. CASE configfile_func
    <3>1. auth' = FALSE /\ pc # "reload"
      BY <2>4 DEF configfile_func
    <3> QED
      BY <1>1, <2>1, <3>1 DEF AuthInv, AuthorityEnds, Granted
  <2> QED
    BY <1>4, <2>2, <2>3, <2>4 DEF User
<1>5. CASE UNCHANGED vars
  BY <1>1, <1>5 DEF AuthInv, AuthorityEnds, vars, user
<1> QED
  BY <1>3, <1>4, <1>5 DEF Next

(* Whatever the user types, in the menu, the editor and on the command     *)
(* line, the inductive invariant of run_menu and run_script holds.         *)
THEOREM MenuInvariant == Spec => []IInv
<1>1. IInv /\ [Next]_vars => IInv'
  BY NextKeeps
<1> QED
  BY InitKeeps, <1>1, PTL DEF Spec

(* The editor and the command line of the menu are open only to who may    *)
(* use them, with an authority that belongs to this configuration or was   *)
(* left with ESC, through passwords and configfile, and no countdown of    *)
(* run_menu runs while it has no config_entries to boot from.  The         *)
(* recovery shell of run_script, which opens to everybody when a command   *)
(* of an entry fails (cmdline.c:209-212), is not the menu's command line.  *)
THEOREM EditorIsGuarded == Spec => []EditorGuarded
<1>1. IInv /\ AuthInv => EditorGuarded
  <2> SUFFICES ASSUME IInv, pc \in {"restart", "top", "poll", "hidden"}, ~top.config
               PROVE  grub_timeout < 0
    BY DEF EditorGuarded, CountdownOutsideEditor, IInv, AuthInv
  <2>1. TypeOK /\ FrameInv
    BY DEF IInv
  <2>2. frames # <<>>
    BY <2>1 DEF TypeOK
  <2> QED
    BY <2>1, <2>2, TopFrame
<1>2. Init => AuthInv
  BY DEF Init, AuthInv, AuthorityEnds
<1> QED
  BY MenuInvariant, AuthKeeps, <1>1, <1>2, PTL DEF Spec

(* What is selected exists, through all moves, insertions and deletions of *)
(* run_menu, and on a Secure Boot SKU what run_script runs is the entry    *)
(* that current_entryno names.  Deleting the last line of a list is not    *)
(* counted among the deletions (EmptyLists).                               *)
THEOREM SelectionIsRun ==
  ASSUME ~EmptyLists
  PROVE  Spec => []SelectionRuns
<1>1. IInv => SelectionRuns
  <2> SUFFICES ASSUME IInv PROVE SelectionRuns
    OBVIOUS
  <2>1. TypeOK /\ FrameInv /\ ScriptInv
    BY DEF IInv
  <2>2. SelectionValid
    <3> SUFFICES ASSUME InMenu, NEW n \in DOMAIN frames
                 PROVE  /\ frames[n].config \/ ~Dumb =>
                             /\ frames[n].num_entries = Len(frames[n].list)
                             /\ frames[n].entryno >= 0
                             /\ frames[n].first_entry + frames[n].entryno
                                  < frames[n].num_entries
                        /\ ~Dumb => frames[n].entryno < Rows
      BY DEF SelectionValid
    <3> DEFINE f == frames[n]
    <3>1. FrameOK(f) /\ (~Dumb => f.entryno < Rows)
      BY <2>1 DEF FrameInv, InWindow
    <3>2. ~Dumb => ListFrame(f)
      BY <3>1 DEF FrameOK, Kept
    <3>3. f.config => /\ f.num_entries = Len(f.list) /\ f.entryno >= 0
                      /\ f.first_entry + f.entryno < f.num_entries
      BY <3>1, TitlesType DEF FrameOK, MainFrame
    <3> HIDE DEF f
    <3> QED
      BY <3>1, <3>2, <3>3 DEF ListFrame, f
  <2>3. ScriptInEntry
    <3> SUFFICES ASSUME grub_cln_secure, pc = "script", Len(frames) = 1, top.config,
                        script # <<>>
                 PROVE  Head(script).k = "end" \/ Head(script).e = current_entryno
      BY DEF ScriptInEntry
    <3>1. 1 \in DOMAIN script /\ Head(script) = script[1]
      BY <2>1 DEF TypeOK
    <3> QED
      BY <2>1, <3>1 DEF ScriptInv
  <2> QED
    BY <2>1, <2>2, <2>3 DEF SelectionRuns
<1> QED
  BY MenuInvariant, <1>1, PTL
=============================================================================
