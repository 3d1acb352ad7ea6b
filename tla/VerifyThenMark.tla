--------------------------- MODULE VerifyThenMark ---------------------------
(***************************************************************************)
(* What the receipt promises, without saying how a press keeps it.  A tree *)
(* carries at most one mark.  It is only touched while it carries none; a  *)
(* mark is set over a tree it describes, in a step that touches nothing    *)
(* else; and what version control saves, and can bring back, is a whole    *)
(* tree with its mark.                                                     *)
(***************************************************************************)
CONSTANTS
    Marks,            \* the marks a press may leave
    None,             \* no mark
    Describes(_, _)   \* Describes(m, t): the mark m is true of the tree t

VARIABLES mark, tree, saved

markVars == <<mark, tree, saved>>

True(m, t) == m = None \/ (m \in Marks /\ Describes(m, t))

MarkInit ==
    /\ True(mark, tree)
    /\ saved = [mark |-> mark, tree |-> tree]

(* Any change of the tree, by the press, a command or another process.     *)
Touch ==
    /\ mark = None
    /\ mark' = None
    /\ UNCHANGED saved

(* The next press over a marked tree takes the mark away first.            *)
Withdraw ==
    /\ mark # None
    /\ mark' = None
    /\ UNCHANGED <<tree, saved>>

Certify(m) ==
    /\ mark = None
    /\ Describes(m, tree)
    /\ mark' = m
    /\ UNCHANGED <<tree, saved>>

Save ==
    /\ mark # None
    /\ saved' = [mark |-> mark, tree |-> tree]
    /\ UNCHANGED <<mark, tree>>

Restore ==
    /\ mark' = saved.mark
    /\ tree' = saved.tree
    /\ UNCHANGED saved

MarkNext == Touch \/ Withdraw \/ Save \/ Restore \/ \E m \in Marks : Certify(m)

MarkSpec == MarkInit /\ [][MarkNext]_markVars

(***************************************************************************)
(* The mark is true of the tree, and of the saved one.                     *)
(***************************************************************************)
MarkIsTrue == True(mark, tree) /\ True(saved.mark, saved.tree)
=============================================================================
