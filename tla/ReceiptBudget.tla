--------------------------- MODULE ReceiptBudget ---------------------------
(***************************************************************************)
(* What preflight_receipt allows for: the receipt's removal history names  *)
(* paths that the press is about to move, of which it may move only some,  *)
(* and must fit its limits whichever are moved.  A path takes the bytes of *)
(* its names and a separator between each two.                             *)
(***************************************************************************)
EXTENDS RenamePlan

CONSTANT Width      \* [Names -> Nat]: the bytes of a name

ASSUME WidthAssumption == Width \in [Names -> Nat]

Total(numbers) ==
    LET sum[k \in 0..Len(numbers)] == IF k = 0 THEN 0 ELSE sum[k - 1] + numbers[k]
    IN  sum[Len(numbers)]

WidthOf(p) == Total([i \in 1..Len(p) |-> Width[p[i]]]) + Len(p) - 1

Deltas(pairs) == {WidthOf(m.new) - WidthOf(m.old) : m \in pairs}
LargestDelta(pairs) == IF pairs = {} THEN 0 ELSE Max(Deltas(pairs))

Affected(pairs, p) == Matching(pairs, p) # {}

(***************************************************************************)
(* Each name that a component can become, one prefix move after another,   *)
(* whatever stands before it.                                              *)
(***************************************************************************)
Become(pairs, i, names) ==
    names \cup {m.new[i] : m \in {n \in pairs : Len(n.old) >= i /\ n.old[i] \in names}}

Reachable(pairs, i, name) ==
    LET names[k \in 0..Cardinality(pairs)] ==
            IF k = 0 THEN {name} ELSE Become(pairs, i, names[k - 1])
    IN  names[Cardinality(pairs)]

ComponentWidth(pairs, i, name) == Max({Width[n] : n \in Reachable(pairs, i, name)})

(***************************************************************************)
(* _validate_current_path_text_limits: the most bytes a path can come to.  *)
(***************************************************************************)
TextBound(pairs, p) ==
    IF LargestDelta(pairs) <= 0 \/ ~Affected(pairs, p) THEN WidthOf(p)
    ELSE Total([i \in 1..Len(p) |-> ComponentWidth(pairs, i, p[i])]) + Len(p) - 1

(***************************************************************************)
(* _current_path_growth: the most bytes that all the paths of a list can   *)
(* gain.                                                                   *)
(***************************************************************************)
Gained(pairs, list) ==
    Total([i \in 1..Len(list) |-> WidthOf(TranslatePath(pairs, list[i])) - WidthOf(list[i])])

GrowthProjected(pairs, list) == Gained(pairs, list) \* mutant

Growth(pairs, list) ==
    IF LargestDelta(pairs) <= 0 THEN 0
    ELSE Cardinality({i \in DOMAIN list : Affected(pairs, list[i])})
         * Cardinality(pairs) * LargestDelta(pairs)

-----------------------------------------------------------------------------
(* Properties. *)

(***************************************************************************)
(* Whichever of the planned moves are executed, each translated path keeps *)
(* within the text bound and all together within the growth that were      *)
(* allowed before the press.                                               *)
(***************************************************************************)
BudgetHolds(pairs, list) ==
    \A some \in SUBSET pairs :
        /\ \A i \in DOMAIN list : WidthOf(TranslatePath(some, list[i])) <= TextBound(pairs, list[i])
        /\ Gained(some, list) <= Growth(pairs, list)
=============================================================================
