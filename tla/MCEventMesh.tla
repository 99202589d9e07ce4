---------------------------- MODULE MCEventMesh ----------------------------
(* Two profiles, so that a subscribe line may miss; two topics and "*"; up *)
(* to five lines, three of them subscriptions, two of them messages, and    *)
(* what is left profile lines and rules.                                   *)
EXTENDS EventMesh
=============================================================================
