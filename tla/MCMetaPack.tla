----------------------------- MODULE MCMetaPack -----------------------------
(* Two names for fields and templates alike, so that each can be defined   *)
(* twice, and a long name that is cut to one of them; lines of two to      *)
(* four tokens; a token too long is the first, or stands in front of one   *)
(* that is malformed and is therefore never looked at.  A row with one     *)
(* string is enough to print two templates of one name: the line that is   *)
(* cut behind its first column, and the one that asks for it twice.        *)
EXTENDS MetaPack

CONSTANTS a, b, aLong

MCName == {a, b}
MCCut  == [n \in {a, b, aLong} |-> IF n = aLong THEN a ELSE n]
Col(n, k) == [field |-> n, kind |-> k]

MCColumnLists == {<<Col(a, "flag"), Col(b, "string")>>,
                  <<Col(b, "string"), Col(a, "uint")>>,
                  <<Col(a, "string"), Col(a, "string")>>,
                  <<Col(aLong, "string"), TooLong, Col(b, "string"), Malformed>>,
                  <<TooLong, Col(b, "string")>>,
                  <<Col(a, "string"), Malformed>>}
=============================================================================
