--------------------------- MODULE MCWindowLayout ---------------------------
(* Two windows of one application and four records: a plain one on another *)
(* monitor and workspace, tiled to the other window, that fits both; one   *)
(* without a usable geometry; a sticky one on a monitor that is gone; and  *)
(* a maximized one on an impossible workspace.                             *)
EXTENDS WindowLayout, TLC

MCPlain ==
  [monitor |-> 1, primary |-> FALSE, similar |-> FALSE, max |-> FALSE, full |-> FALSE,
   sticky |-> FALSE, frame |-> "valid", ws |-> 1, tileApp |-> {1, 2}, tileTitle |-> None]

MCSaved ==
  1 :> MCPlain @@
  2 :> [MCPlain EXCEPT !.similar = TRUE, !.frame = "invalid"] @@
  3 :> [MCPlain EXCEPT !.monitor = 7, !.sticky = TRUE, !.frame = "none", !.ws = 0,
                       !.tileApp = {}] @@
  4 :> [MCPlain EXCEPT !.primary = TRUE, !.max = TRUE, !.ws = 9]

MCMatch == {<<1, 1>>, <<1, 2>>, <<2, 1>>, <<2, 3>>, <<2, 4>>}
=============================================================================
