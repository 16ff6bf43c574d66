---------------------------- MODULE MCWalletLink ----------------------------
(* Two players of one account; the first has two sessions.  Links start at   *)
(* the lowest and at the highest coordinates.                                *)
EXTENDS WalletLink, TLC

CONSTANTS p1, p2, s1, s2, s3

OwnerOf == (s1 :> p1) @@ (s2 :> p1) @@ (s3 :> p2)
FirstLastAndPast ==
    {<<0, 0>>, <<MaxCoordinate - 1, MaxCoordinate - 4>>, <<MaxCoordinate - 1, MaxCoordinate - 3>>}
=============================================================================
