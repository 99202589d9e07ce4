----------------------------- MODULE MCListMux -----------------------------
(* Two priorities, with three tasks or four: a ready queue can hold a tie  *)
(* behind and before a task of higher priority.  Note lengths: one that fits, the     *)
(* first that reaches prev, the first that makes it no address, one past   *)
(* prev, and the 56 bytes of trigger.txt, past both links.                 *)
EXTENDS ListMux

FittingNotes  == {24, 28}
OversizeNotes == {28, 29, 35, 37, 56}
=============================================================================
