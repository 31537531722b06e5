------------------------------- MODULE MCMenu -------------------------------
(* Instances of Menu: four entries in a window of two lines.               *)
EXTENDS Menu

MCKinds == <<<<"kernel">>, <<"other", "kernel">>, <<"lock", "boot">>,
             <<"kernel", "boot">>>>
MCTimeouts == {-1, 0, 2}
MCFallbacks == <<1, 3>>

Plain == [dumb |-> FALSE, password |-> FALSE, passwordfile |-> FALSE,
          secure |-> FALSE, debug |-> FALSE]
(* A password that opens the menu, on a dumb terminal of a Secure Boot SKU *)
(* in debug mode; one that names a file; a Secure Boot SKU for customers.  *)
MCSetups ==
  {Plain,
   [Plain EXCEPT !.dumb = TRUE, !.password = TRUE, !.secure = TRUE, !.debug = TRUE],
   [Plain EXCEPT !.password = TRUE, !.passwordfile = TRUE],
   [Plain EXCEPT !.secure = TRUE]}
=============================================================================
