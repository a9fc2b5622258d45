----------------------------- MODULE MCReplayWindow -----------------------------
(* Two widths, one smaller and one equal to what four numbers can slide past.  *)
EXTENDS ReplayWindow

MCWidths == {1, 3}
=================================================================================
