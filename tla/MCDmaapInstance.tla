-------------------------- MODULE MCDmaapInstance --------------------------
(* Instances of DmaapInstance for TLC.                                     *)
EXTENDS DmaapInstance

Body(v, n, s) == [ver |-> v, name |-> n, st |-> s]

(* Bodies as clients send them, without a status.                          *)
BodiesPlain == {Body("1", "N1", Null), Body("1", "N2", Null), Body(Null, "N1", Null)}

(* A body as GET answers it after a fresh start.                           *)
BodiesZero == {Body("0", "N1", Null)}

Mgt == <<"create", "view">>
MgtOne == <<"create">>
OldReleases == {NoTable, NoVersion, 0, 1, 2, 5, 7}
=============================================================================
