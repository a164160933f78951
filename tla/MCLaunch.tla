------------------------------ MODULE MCLaunch ------------------------------
(***************************************************************************)
(* Instance of Launch for TLC: two logins from one platform, whose key may *)
(* roll over, and bearers of the operated issuer.                          *)
(***************************************************************************)
EXTENDS Launch, TLC

CONSTANTS platform, f1, f2, k1, k2, k3

FromPlatform == [f \in Logins |-> <<platform, "client">>]
OnePlatform == {<<platform, "client">>}
Signers == (k1 :> platform) @@ (k2 :> platform) @@ (k3 :> Idp)
FirstKeys == {k1, k3}

Symmetry == Permutations(Replicas) \cup Permutations(Requests) \cup Permutations(Logins)
=============================================================================
