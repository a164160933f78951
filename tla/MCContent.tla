----------------------------- MODULE MCContent -----------------------------
(***************************************************************************)
(* Instances of Content, with the readers of its rows, for TLC.            *)
(***************************************************************************)
EXTENDS Visibility, TLC

CONSTANTS roleA, roleB

\* One role may read and another read and write; one role is allowed and
\* denied to read and allowed to write, and another denied to write.
Allow == {<<roleA, "read", TRUE>>, <<roleB, "read", TRUE>>, <<roleB, "write", TRUE>>}
AllowAndDeny ==
  {<<roleA, "read", TRUE>>, <<roleA, "read", FALSE>>, <<roleA, "write", TRUE>>,
   <<roleB, "read", TRUE>>, <<roleB, "write", FALSE>>}
SomePolicies == {Allow, AllowAndDeny}
OnePolicy == {Allow}

Symmetry == Permutations(Sessions) \cup Permutations(Events)
=============================================================================
