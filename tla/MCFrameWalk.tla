---------------------------- MODULE MCFrameWalk ----------------------------
(* Files that begin with a record whose head is one of three and go on with *)
(* any four cells; files whose first payload begins with an escape and may  *)
(* hold a record, which may swallow the next one; short files of any cells, *)
(* behind a header line or without one.                                     *)
EXTENDS FrameWalk

Root  == [id |-> 1, parent |-> 0, declared |-> 5]
Child == [id |-> 2, parent |-> 1, declared |-> 1]
Bare  == [id |-> 1, parent |-> 2, declared |-> 0]

MCHeads == {Root, Child, Bare}

Body(n) == [1 .. n -> Cell \ {Magic}]

MCFiles == {<<Node, h>> \o s : h \in MCHeads, s \in Body(4)}
               \cup {<<Node, Root, Percent, Hex, Hex>> \o s : s \in Body(4)}
               \cup {<<Magic>> \o s : s \in Body(4)}
               \cup UNION {Body(n) : n \in 0 .. 3}
=============================================================================
