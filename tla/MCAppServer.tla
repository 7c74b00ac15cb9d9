----------------------------- MODULE MCAppServer -----------------------------
(* Two clients and two services, with distinct ids or sharing one id. *)
EXTENDS AppServer, TLC

CONSTANTS c1, c2, s1, s2, id1, id2

MCClients == {c1, c2}
MCSvcs == {s1, s2}
MCDistinctIds == (s1 :> id1) @@ (s2 :> id2)
MCSharedId == (s1 :> id1) @@ (s2 :> id1)
=============================================================================
