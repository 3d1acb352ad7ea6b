----------------------------- MODULE MCPressRun -----------------------------
(***************************************************************************)
(* PressRun over one file of each kind: an ordinary manifest, one edit,    *)
(* one built-in excluded output, one excluded reset target, one removal.   *)
(***************************************************************************)
EXTENDS PressRun, TLC

(***************************************************************************)
(* The target starts clean, so --allow-dirty makes no difference here.     *)
(***************************************************************************)
MCCommandLines == {o \in Options : ~o.allowDirty /\ (o.dry => o.force /\ o.accept)}

(***************************************************************************)
(* One representative for each way a file can fail a check: missing,       *)
(* spelling every identity, and without what its declaration promises.     *)
(***************************************************************************)
MCDamages == {Gone, [there |-> TRUE, ids |-> Identities, ok |-> TRUE],
              [there |-> TRUE, ids |-> {}, ok |-> FALSE]}

IdentitySymmetry == Permutations(Identities)
=============================================================================
