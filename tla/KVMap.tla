------------------------------- MODULE KVMap -------------------------------
(***************************************************************************)
(* What benchmark1/store.h promises its caller, and benchmark2/database.h  *)
(* without deletion: a map from keys to values.  An insertion adds or      *)
(* replaces, a lookup answers with the value stored last under that key or *)
(* with NULL, a deletion says whether there was anything to delete.        *)
(* Probing, tombstones, buffers and growth are not visible.                *)
(***************************************************************************)
CONSTANTS Key, Value, Nothing

VARIABLES
    dict,   \* the map: dict[k] = Nothing when k is not stored
    req,    \* the call under way
    ret     \* what the last call returned

mapVars == <<dict, req, ret>>

NoRequest == [op |-> "none", key |-> Nothing, value |-> Nothing]
Request   == [op : {"insert"}, key : Key, value : Value]
                 \cup [op : {"find", "delete"}, key : Key, value : {Nothing}]

Init == /\ dict = [k \in Key |-> Nothing]
        /\ req = NoRequest
        /\ ret = Nothing

Invoke == /\ req = NoRequest /\ req' \in Request
          /\ UNCHANGED <<dict, ret>>

Return(op, r) == req.op = op /\ req' = NoRequest /\ ret' = r

Insert == /\ Return("insert", TRUE)
          /\ dict' = [dict EXCEPT ![req.key] = req.value]

Find == Return("find", dict[req.key]) /\ UNCHANGED dict

Delete == /\ Return("delete", dict[req.key] # Nothing)
          /\ dict' = [dict EXCEPT ![req.key] = Nothing]

Next == Invoke \/ Insert \/ Find \/ Delete

Spec == Init /\ [][Next]_mapVars
=============================================================================
