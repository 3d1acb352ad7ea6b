-------------------------- MODULE MCPressLifecycle --------------------------
(***************************************************************************)
(* PressLifecycle over a manifest, an edit, an excluded reset target and a *)
(* removal: real runs, forced or not, over clean or dirty checkouts.       *)
(***************************************************************************)
EXTENDS PressLifecycle, TLC

MCCommandLines == {o \in Options : ~o.dry /\ o.accept}

MCDamages == {Gone, [there |-> TRUE, ids |-> Identities, ok |-> TRUE]}

(***************************************************************************)
(* The instances of the runs satisfy what the theorem about restored       *)
(* targets asks for.                                                       *)
(***************************************************************************)
ASSUME DeclarationsAssumption == PressableDeclarations

IdentitySymmetry == Permutations(Identities)
=============================================================================
