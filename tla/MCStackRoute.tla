---------------------------- MODULE MCStackRoute ----------------------------
(* Bytes of four values: words of 0 .. 255, 255 is NO_PARENT.  Three ids   *)
(* for an array that starts with two nodes.  Declared lengths: one that    *)
(* fits, one past the end of the name but inside the label, the first that *)
(* reaches parent_index (with the name's NUL, and with its last byte), the *)
(* 44 bytes of trigger.txt, and one that copies two unknown heap bytes.    *)
(* Parents: a node, a number one too large for a word, and no number.      *)
EXTENDS StackRoute, TLC

CONSTANTS n1, n2, n3

MCId     == {n1, n2, n3}
MCWeight == n1 :> 3 @@ n2 :> 10 @@ n3 :> 255

Lengths == {<<5, 5>>, <<5, 32>>, <<32, 33>>, <<33, 33>>, <<44, 44>>, <<31, 34>>}
Fitting == {<<5, 5>>, <<31, 31>>}

Header(l, p) == [nameLen |-> l[1], said |-> l[2], parent |-> p, declared |-> 2]

NumberOf(n) == [numeric |-> TRUE, value |-> n]
Parents     == {NumberOf(1), NumberOf(256), [numeric |-> FALSE, value |-> 0]}

MCHeaders == {Header(l, p) : l \in Lengths, p \in Parents}
FittingHeaders == {Header(l, p) : l \in Fitting, p \in Parents}
=============================================================================
