----------------------------- MODULE RenamePlan -----------------------------
(***************************************************************************)
(* The pure part of renaming: rewriting a path by the ordered rows of the  *)
(* substitution table, the moves one pass asks for, and the translations   *)
(* of a path through an ordered list of moves.  A path is a sequence of    *)
(* names, a name a number (the plan sorts by name), and a row replaces one *)
(* name by another.                                                        *)
(***************************************************************************)
EXTENDS Integers, FiniteSets, SequencesExt

CONSTANTS
    Names,      \* the names a path component can have
    MaxDepth,   \* components of the longest path
    Protected   \* the root control directory, never renamed

ASSUME NamesAssumption ==
    /\ Names \subseteq Nat
    /\ MaxDepth \in Nat \ {0}

Paths == UNION {[1..depth -> Names] : depth \in 1..MaxDepth}

(***************************************************************************)
(* scope: the paths the row's file patterns match; exact: they contain no  *)
(* wildcard; declared: a [[replace]] rule, not an identity row.            *)
(***************************************************************************)
Rows == [from : Names, to : Names, scope : SUBSET Paths,
         exact : BOOLEAN, declared : BOOLEAN]

Moves == {m \in [old : Paths, new : Paths] :
            /\ Len(m.old) = Len(m.new)
            /\ m.old # m.new
            /\ \A i \in 1..(Len(m.old) - 1) : m.old[i] = m.new[i]}

(***************************************************************************)
(* The path p lies at the prefix q or below it.                            *)
(***************************************************************************)
Under(p, q) == Len(q) <= Len(p) /\ \A i \in 1..Len(q) : p[i] = q[i]

-----------------------------------------------------------------------------
(* Rewriting one path. *)

Rewrite(row, p, name) == IF p \in row.scope /\ name = row.from THEN row.to ELSE name

(***************************************************************************)
(* What component i has become after the first k rows.  Scopes are matched *)
(* against the whole path as it was.                                       *)
(***************************************************************************)
Becoming(rows, p, i) ==
    LET name[k \in 0..Len(rows)] ==
            IF k = 0 THEN p[i] ELSE Rewrite(rows[k], p, name[k - 1])
    IN  name

Spared(p, i) == i = 1 /\ p[1] = Protected

RewrittenName(rows, p, i) == IF Spared(p, i) THEN p[i] ELSE Becoming(rows, p, i)[Len(rows)]

Changed(rows, p) == {i \in 1..Len(p) : RewrittenName(rows, p, i) # p[i]}

Shallowest(rows, p) == CHOOSE i \in Changed(rows, p) : \A j \in Changed(rows, p) : i <= j

(***************************************************************************)
(* One pass moves a path by its shallowest changed component only.         *)
(***************************************************************************)
MoveOf(rows, p) ==
    LET depth == Shallowest(rows, p)
        old == SubSeq(p, 1, depth)
    IN  [old |-> old, new |-> [old EXCEPT ![depth] = RewrittenName(rows, p, depth)]]

(***************************************************************************)
(* The row changes component i when its turn comes.                        *)
(***************************************************************************)
Changes(rows, k, p, i) ==
    ~Spared(p, i) /\ Becoming(rows, p, i)[k] # Becoming(rows, p, i)[k - 1]

-----------------------------------------------------------------------------
(* The moves of a pass, in the order of the plan. *)

NameOrder(p, q) ==
    \E i \in 1..Len(p) : p[i] < q[i] /\ \A j \in 1..(i - 1) : p[j] = q[j]

ShallowFirst(m, n) == \* mutant
    Len(m.old) < Len(n.old) \/ (Len(m.old) = Len(n.old) /\ NameOrder(m.old, n.old))

DeepestFirst(m, n) ==
    Len(m.old) > Len(n.old) \/ (Len(m.old) = Len(n.old) /\ NameOrder(m.old, n.old))

InOrder(moves) ==
    CHOOSE seq \in [1..Cardinality(moves) -> moves] :
        \A i, j \in DOMAIN seq : i < j => DeepestFirst(seq[i], seq[j])

-----------------------------------------------------------------------------
(* Translations. *)

(***************************************************************************)
(* A path carried by the move of a prefix.  Prefixes keep their length.    *)
(***************************************************************************)
Carry(p, old, new) ==
    IF Under(p, old)
    THEN [i \in 1..Len(p) |-> IF i <= Len(old) THEN new[i] ELSE p[i]]
    ELSE p

(***************************************************************************)
(* Where the path is after each of the moves: only those of the set on are *)
(* made.  And the way back, where the path was before each of them.        *)
(***************************************************************************)
Along(seq, on, p) ==
    LET at[k \in 0..Len(seq)] ==
            IF k = 0 THEN p
            ELSE IF k \in on THEN Carry(at[k - 1], seq[k].old, seq[k].new) ELSE at[k - 1]
    IN  at

Back(seq, on, p) ==
    LET at[k \in 0..Len(seq)] ==
            IF k = Len(seq) THEN p
            ELSE IF k + 1 \in on THEN Carry(at[k + 1], seq[k + 1].new, seq[k + 1].old)
            ELSE at[k + 1]
    IN  at

Carried(p, seq) == Along(seq, DOMAIN seq, p)[Len(seq)]

(***************************************************************************)
(* RenamePlan.translate and reverse_translate: the executed steps, in      *)
(* order.                                                                  *)
(***************************************************************************)
Executed(steps, ids) == {i \in DOMAIN steps : steps[i].id \in ids}

TranslatePlanned(steps, ids, p) == Carried(p, steps) \* mutant
Translate(steps, ids, p) == Along(steps, Executed(steps, ids), p)[Len(steps)]

ReverseTranslate(steps, ids, p) == Back(steps, Executed(steps, ids), p)[0]

(***************************************************************************)
(* The steps an apply report's (old, new) pairs stand for.                 *)
(***************************************************************************)
Pairs(steps, ids) == {[old |-> steps[i].old, new |-> steps[i].new] : i \in ids}
ExecutedIdsFor(steps, pairs) ==
    {i \in DOMAIN steps : [old |-> steps[i].old, new |-> steps[i].new] \in pairs}

(***************************************************************************)
(* translate_path: the same pairs as an unordered mapping, the deepest     *)
(* match applied again and again, no more often than there are pairs: a    *)
(* path that one matches still is an error.                                *)
(***************************************************************************)
Matching(pairs, p) == {m \in pairs : Under(p, m.old)}
DeepestMatch(pairs, p) ==
    CHOOSE m \in Matching(pairs, p) : \A n \in Matching(pairs, p) : Len(n.old) <= Len(m.old)

OneTranslation(pairs, p) ==
    IF Matching(pairs, p) = {} THEN p
    ELSE Carry(p, DeepestMatch(pairs, p).old, DeepestMatch(pairs, p).new)

Translation(pairs, p) ==
    LET at[k \in 0..Cardinality(pairs)] ==
            IF k = 0 THEN p ELSE OneTranslation(pairs, at[k - 1])
    IN  at

TranslatePath(pairs, p) == Translation(pairs, p)[Cardinality(pairs)]

(***************************************************************************)
(* build_forward_map and reverse_renamed_path: the way back, the longest   *)
(* destination first, until nothing matches, which takes no more steps     *)
(* than there are pairs or is an error.                                    *)
(***************************************************************************)
Leading(pairs, p) == {m \in pairs : Under(p, m.new)}

OneStepBack(pairs, p) ==
    IF Leading(pairs, p) = {} THEN p
    ELSE LET m == CHOOSE m \in Leading(pairs, p) :
                     \A n \in Leading(pairs, p) : Len(n.new) <= Len(m.new)
         IN  Carry(p, m.new, m.old)

WayBack(pairs, p) ==
    LET at[k \in 0..Cardinality(pairs)] ==
            IF k = 0 THEN p ELSE OneStepBack(pairs, at[k - 1])
    IN  at

ForwardMapOnce(pairs, p) == OneStepBack(pairs, p) \* mutant
ForwardMap(pairs, p) == WayBack(pairs, p)[Cardinality(pairs)]
=============================================================================
