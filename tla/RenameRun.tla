----------------------------- MODULE RenameRun ------------------------------
(***************************************************************************)
(* From the captured inventory to the renamed tree: the pipeline is        *)
(* validated and the rename plan compiled pass by pass, every step is      *)
(* bound to what it will carry, checked again before the first mutation    *)
(* and executed; then relative links are retargeted.  Another process may  *)
(* create and delete files all the while.                                  *)
(*                                                                         *)
(* A file is followed by the place it was captured at: where[f] is the     *)
(* path it has now.  Directories exist as the prefixes of files.           *)
(***************************************************************************)
EXTENDS ReceiptBudget

CONSTANTS
    Foreign,        \* files the other process may create
    Nowhere,        \* not a path: the file does not exist
    Trees,          \* captured inventories: [files, links, target, shared, atomic]
    Grounds,        \* where the other process creates files
    RowLists(_),    \* the substitution rows a tree is pressed with
    MaxMishaps      \* acts of the other process

(***************************************************************************)
(* An inventory lists finitely many files, none of them below another, and *)
(* some of them are links to places of the tree.                           *)
(***************************************************************************)
IsInventory(t) ==
    /\ t.files \subseteq Paths /\ IsFiniteSet(t.files)
    /\ \A e, f \in t.files : Under(e, f) => e = f
    /\ t.links \subseteq t.files
    /\ t.target \in [t.links -> Paths]

ASSUME RunAssumption ==
    /\ Foreign \cap Paths = {} /\ Grounds \subseteq Paths
    /\ Nowhere \notin Paths \cup Foreign
    /\ MaxMishaps \in Nat
    /\ \A t \in Trees : IsInventory(t) /\ RowLists(t) \subseteq Seq(Rows)

VARIABLES
    tree,       \* the inventory: files, which of them are links, and to what; whether
                \* another process works in the same checkout, and whether the file
                \* system can rename without replacement
    rows,       \* the substitution rows, in order
    where,      \* [tree.files \cup Foreign -> Paths \cup {Nowhere}]: the disk
    text,       \* the target each captured link spells, from where it stands
    pc,
    current,    \* [tree.files -> Paths]: the planned place of each entry so far
    prior,      \* the planned steps that carry each entry
    assigned,   \* the moves planned so far, over all passes
    seen,       \* the planned states passed through
    steps,      \* the plan
    next,       \* the step to execute
    executed,   \* ids of the executed steps
    links,      \* links still to be retargeted
    mishaps

planVars == <<current, prior, assigned, seen, steps>>
vars == <<tree, rows, where, text, pc, current, prior, assigned, seen, steps,
          next, executed, links, mishaps>>

-----------------------------------------------------------------------------
(* The disk. *)

Nodes == tree.files \cup Foreign
Present == {n \in Nodes : where[n] # Nowhere}
Below(p) == {n \in Present : Under(where[n], p)}
KindOf(n) == IF n \in tree.links THEN "symlink" ELSE "file"

NodeKind(p) ==
    IF Below(p) = {} THEN "missing"
    ELSE IF \E n \in Present : where[n] = p
         THEN KindOf(CHOOSE n \in Present : where[n] = p)
         ELSE "directory"

Parent(p) == SubSeq(p, 1, Len(p) - 1)

(***************************************************************************)
(* A link's text: up out of its own directory, then down.                  *)
(***************************************************************************)
RelPath(p, dir) ==
    LET common == {i \in 0..Len(dir) : i < Len(p) /\ SubSeq(p, 1, i) = SubSeq(dir, 1, i)}
        k == CHOOSE i \in common : \A j \in common : j <= i
    IN  [up |-> Len(dir) - k, down |-> SubSeq(p, k + 1, Len(p))]

Resolve(t, dir) == SubSeq(dir, 1, Len(dir) - t.up) \o t.down

Init ==
    /\ tree \in Trees
    /\ rows \in RowLists(tree)
    /\ where = [n \in tree.files \cup Foreign |-> IF n \in tree.files THEN n ELSE Nowhere]
    /\ text = [l \in tree.links |-> RelPath(tree.target[l], Parent(l))]
    /\ pc = "validate"
    /\ current = [e \in tree.files |-> e]
    /\ prior = [e \in tree.files |-> {}]
    /\ assigned = {}
    /\ seen = {}
    /\ steps = <<>>
    /\ next = 1
    /\ executed = {}
    /\ links = {}
    /\ mishaps = 0

-----------------------------------------------------------------------------
(* Validation and compilation. *)

Goto(phase) == pc' = phase /\ UNCHANGED <<tree, rows, next, executed, mishaps>>
Refuse == Goto("refused") /\ UNCHANGED <<where, text, planVars, links>>

DisjointExact(r, s) == r.exact /\ s.exact /\ r.scope \cap s.scope = {}

(***************************************************************************)
(* Unless their exact scopes are disjoint, two rows of a class may not map *)
(* one name differently, and no row may produce what a row consumes.       *)
(***************************************************************************)
Apart(k, l) == DisjointExact(rows[k], rows[l])
Unambiguous ==
    \A k, l \in DOMAIN rows : Apart(k, l) \/
        (rows[k].from = rows[l].from /\ rows[k].declared = rows[l].declared
             => rows[k].to = rows[l].to)
Independent ==
    \A k, l \in DOMAIN rows : Apart(k, l) \/ rows[k].to # rows[l].from

ValidateRows ==
    /\ pc = "validate"
    /\ IF Unambiguous /\ Independent
       THEN Goto("compile") /\ UNCHANGED <<where, text, planVars, links>>
       ELSE Refuse

MoversOnce == {e \in tree.files : steps = <<>> /\ Changed(rows, current[e]) # {}} \* mutant
Movers == {e \in tree.files : Changed(rows, current[e]) # {}}
PassMoves == {MoveOf(rows, current[e]) : e \in Movers}

After(e) == Carried(current[e], InOrder(PassMoves))
Placing(place) == {<<p, Cardinality({e \in tree.files : place[e] = p})>> : p \in Paths}

(***************************************************************************)
(* What the validator's walk over the passes accepts.  It and the compiler *)
(* make the same passes; they are one action here.                         *)
(***************************************************************************)
NoneMovedIntoScope ==
    \A e \in Movers, k \in DOMAIN rows :
        (\E i \in 1..Len(e) : Changes(rows, k, current[e], i)) => e \in rows[k].scope

NoneConverges ==
    \A m, n \in PassMoves \cup assigned : m.old = n.old => m.new = n.new

NoPrefixesConverge == \A m, n \in PassMoves : m.new = n.new => m.old = n.old

(***************************************************************************)
(* The order of the inventory, which is sorted.                            *)
(***************************************************************************)
ListedBefore(e, f) ==
    \E i \in 1..Len(e) :
        i <= Len(f) /\ e[i] < f[i] /\ \A j \in 1..(i - 1) : e[j] = f[j]

(***************************************************************************)
(* Entries are put in their places in that order, and each is compared     *)
(* with the first one put there: two may share a place only if one of them *)
(* is a link that stays.                                                   *)
(***************************************************************************)
StaysLink(e) == e \in tree.links /\ After(e) = e

EntriesKeptApart ==
    \A e, f \in tree.files :
        /\ e # f /\ After(e) = After(f)
        /\ \A g \in tree.files : After(g) = After(e) => ~ListedBefore(g, e)
        => StaysLink(e) \/ StaysLink(f)

NoneDeferredOutOfScope ==
    \A e \in Movers, k \in DOMAIN rows :
        (\E i \in Changed(rows, current[e]) \ {Shallowest(rows, current[e])} :
             Changes(rows, k, current[e], i)) => After(e) \in rows[k].scope

PassAccepted ==
    /\ NoneMovedIntoScope /\ NoneConverges /\ NoPrefixesConverge
    /\ EntriesKeptApart /\ NoneDeferredOutOfScope
    /\ Placing([e \in tree.files |-> After(e)]) \notin seen \cup {Placing(current)}

(***************************************************************************)
(* The steps of a pass.  A step waits for every planned step that carried  *)
(* one of the entries it was planned for; its kind is that of the entry at *)
(* the prefix itself, a directory if there is none.                        *)
(***************************************************************************)
SourcesOf(m) == {e \in Movers : MoveOf(rows, current[e]) = m}

StepOf(m, id) ==
    [id |-> id, old |-> m.old, new |-> m.new,
     preds |-> UNION {prior[e] : e \in SourcesOf(m)},
     kind |-> IF \E e \in SourcesOf(m) : current[e] = m.old
              THEN KindOf(CHOOSE e \in SourcesOf(m) : current[e] = m.old)
              ELSE "directory",
     closure |-> {}, destination |-> "missing"]

PassStepsRenumbered == LET moves == InOrder(PassMoves) \* mutant
                       IN  [i \in DOMAIN moves |-> StepOf(moves[i], i)]

PassSteps == LET moves == InOrder(PassMoves)
             IN  [i \in DOMAIN moves |-> StepOf(moves[i], Len(steps) + i)]

(***************************************************************************)
(* The steps of the pass that meet the entry, each at its turn.            *)
(***************************************************************************)
Carrying(e) == {i \in DOMAIN PassSteps :
                   Under(Along(PassSteps, DOMAIN PassSteps, current[e])[i - 1],
                         PassSteps[i].old)}

CompilePass ==
    /\ pc = "compile" /\ Movers # {}
    /\ IF ~PassAccepted THEN Refuse
       ELSE /\ steps' = steps \o PassSteps
            /\ current' = [e \in tree.files |-> After(e)]
            /\ prior' = [e \in tree.files |->
                            prior[e] \cup {PassSteps[i].id : i \in Carrying(e)}]
            /\ assigned' = assigned \cup PassMoves
            /\ seen' = seen \cup {Placing(current)}
            /\ Goto("compile")
            /\ UNCHANGED <<where, text, links>>

CompileDone ==
    /\ pc = "compile" /\ Movers = {}
    /\ Goto("bind")
    /\ UNCHANGED <<where, text, planVars, links>>

-----------------------------------------------------------------------------
(* Binding the plan to the tree. *)

SourcePrefix(i) == Back(steps, 1..(i - 1), steps[i].old)[0]

Closure(i) == {<<where[n], KindOf(n)>> : n \in Below(SourcePrefix(i))}
Inventory == {<<e, KindOf(e)>> : e \in tree.files}
Authorized(i) == Closure(i) # {} /\ Closure(i) \subseteq Inventory

BindPlan ==
    /\ pc = "bind"
    /\ IF \E i \in DOMAIN steps : ~Authorized(i) THEN Refuse
       ELSE /\ steps' = [i \in DOMAIN steps |->
                 [steps[i] EXCEPT !.closure = Closure(i),
                                  !.destination = NodeKind(steps[i].new)]]
            /\ Goto("revalidate")
            /\ UNCHANGED <<where, text, current, prior, assigned, seen, links>>

(***************************************************************************)
(* Before the first mutation of the press.                                 *)
(***************************************************************************)
Revalidate ==
    /\ pc = "revalidate"
    /\ IF \A i \in DOMAIN steps : /\ Authorized(i)
                                  /\ Closure(i) = steps[i].closure
                                  /\ NodeKind(steps[i].new) = steps[i].destination
       THEN Goto("rename") /\ UNCHANGED <<where, text, planVars, links>>
       ELSE Refuse

-----------------------------------------------------------------------------
(* Execution. *)

Step == steps[next]
Advance(phase, ids) ==
    /\ pc' = phase /\ next' = next + 1 /\ executed' = ids
    /\ UNCHANGED <<tree, rows, text, planVars, links, mishaps>>
Raise == Goto("raised") /\ UNCHANGED <<where, text, planVars, links>>

(***************************************************************************)
(* A step is skipped when a step it waits for was, or when its destination *)
(* is taken; a source that is not what was planned is an error.            *)
(***************************************************************************)
SkipsUngated == NodeKind(Step.new) # "missing" \* mutant
Skips == ~(Step.preds \subseteq executed) \/ NodeKind(Step.new) # "missing"

SkipStep ==
    /\ pc = "rename" /\ next \in DOMAIN steps
    /\ Skips
    /\ Advance("rename", executed)
    /\ UNCHANGED where

CheckStep ==
    /\ pc = "rename" /\ next \in DOMAIN steps
    /\ ~Skips
    /\ IF NodeKind(Step.old) = Step.kind
       THEN Goto("move") /\ UNCHANGED <<where, text, planVars, links>>
       ELSE Raise

MovedBy(s) ==
    [n \in Nodes |-> IF n \in Present THEN Carry(where[n], s.old, s.new) ELSE Nowhere]

(***************************************************************************)
(* os.rename: a file replaces a file.                                      *)
(***************************************************************************)
Replacing(s) ==
    [n \in Nodes |-> IF n \in Below(s.new) THEN Nowhere ELSE MovedBy(s)[n]]

MoveReplacing == \* mutant
    /\ pc = "move" /\ NodeKind(Step.old) # "missing"
    /\ where' = Replacing(Step)
    /\ Advance("rename", executed \cup {Step.id})

(***************************************************************************)
(* One system call that fails when the destination exists or the source is *)
(* gone.                                                                   *)
(***************************************************************************)
MoveStep ==
    /\ pc = "move" /\ tree.atomic
    /\ IF NodeKind(Step.new) = "missing" /\ NodeKind(Step.old) # "missing"
       THEN /\ where' = MovedBy(Step)
            /\ Advance("rename", executed \cup {Step.id})
       ELSE Raise

(***************************************************************************)
(* The fallback under --force: a look at the destination, then os.rename.  *)
(***************************************************************************)
LookStep ==
    /\ pc = "move" /\ ~tree.atomic
    /\ IF NodeKind(Step.new) = "missing"
       THEN Goto("replace") /\ UNCHANGED <<where, text, planVars, links>>
       ELSE Raise

ReplaceStep ==
    /\ pc = "replace"
    /\ IF \/ NodeKind(Step.new) = "missing" /\ NodeKind(Step.old) # "missing"
          \/ {NodeKind(Step.new), NodeKind(Step.old)} \subseteq {"file", "symlink"}
       THEN /\ where' = Replacing(Step)
            /\ Advance("rename", executed \cup {Step.id})
       ELSE Raise

RenamesDone ==
    /\ pc = "rename" /\ next \notin DOMAIN steps
    /\ links' = tree.links
    /\ Goto("retarget")
    /\ UNCHANGED <<where, text, planVars>>

-----------------------------------------------------------------------------
(* Links. *)

SourceTarget(l) == Resolve(text[l], Parent(l))
NewTextUnmoved(l) == RelPath(Translate(steps, executed, SourceTarget(l)), Parent(l)) \* mutant
NewText(l) == RelPath(Translate(steps, executed, SourceTarget(l)),
                      Parent(Translate(steps, executed, l)))

(***************************************************************************)
(* The link is looked for where the executed steps took it, and must still *)
(* spell what was captured.  A target no step moved keeps its text.        *)
(***************************************************************************)
Retarget(l) ==
    /\ pc = "retarget" /\ l \in links
    /\ IF where[l] # Translate(steps, executed, l) THEN Raise
       ELSE /\ text' = IF Translate(steps, executed, SourceTarget(l)) = SourceTarget(l)
                       THEN text ELSE [text EXCEPT ![l] = NewText(l)]
            /\ links' = links \ {l}
            /\ Goto("retarget")
            /\ UNCHANGED <<where, planVars>>

Done ==
    /\ pc = "retarget" /\ links = {}
    /\ Goto("done")
    /\ UNCHANGED <<where, text, planVars, links>>

-----------------------------------------------------------------------------
(* The other process. *)

Ended == {"refused", "raised", "done"}
Interfere == tree.shared /\ pc \notin Ended /\ mishaps < MaxMishaps /\ mishaps' = mishaps + 1

Create(n, p) ==
    /\ Interfere
    /\ n \in Foreign /\ where[n] = Nowhere
    /\ NodeKind(p) = "missing"
    /\ \A m \in Present : ~Under(p, where[m])
    /\ where' = [where EXCEPT ![n] = p]
    /\ UNCHANGED <<tree, rows, text, pc, planVars, next, executed, links>>

Delete(n) ==
    /\ Interfere
    /\ n \in Present
    /\ where' = [where EXCEPT ![n] = Nowhere]
    /\ UNCHANGED <<tree, rows, text, pc, planVars, next, executed, links>>

OtherProcess == \/ \E n \in Foreign, p \in Grounds : Create(n, p)
                \/ \E n \in Nodes : Delete(n)

Press ==
    \/ ValidateRows \/ CompilePass \/ CompileDone \/ BindPlan \/ Revalidate
    \/ SkipStep \/ CheckStep \/ MoveStep \/ LookStep \/ ReplaceStep \/ RenamesDone
    \/ (\E l \in links : Retarget(l)) \/ Done

Next == Press \/ OtherProcess

Spec == Init /\ [][Next]_vars

-----------------------------------------------------------------------------
(* Properties. *)

Kinds == {"file", "symlink", "directory"}
PlanSteps ==
    [id : Nat, old : Paths, new : Paths, preds : SUBSET Nat, kind : Kinds,
     closure : SUBSET (Paths \X Kinds), destination : Kinds \cup {"missing"}]

TypeOK ==
    /\ tree \in Trees /\ rows \in Seq(Rows)
    /\ where \in [Nodes -> Paths \cup {Nowhere}]
    /\ text \in [tree.links -> [up : 0..MaxDepth, down : Seq(Names)]]
    /\ pc \in Ended \cup {"validate", "compile", "bind", "revalidate", "rename",
                          "move", "replace", "retarget"}
    /\ current \in [tree.files -> Paths]
    /\ prior \in [tree.files -> SUBSET DOMAIN steps]
    /\ assigned \subseteq Moves
    /\ steps \in Seq(PlanSteps)
    /\ \A i \in DOMAIN steps : /\ steps[i].id = i /\ steps[i].preds \subseteq 1..(i - 1)
                               /\ [old |-> steps[i].old, new |-> steps[i].new] \in Moves
    /\ next \in 1..(Len(steps) + 1)
    /\ executed \subseteq 1..(next - 1)
    /\ links \subseteq tree.links
    /\ mishaps \in 0..MaxMishaps

(***************************************************************************)
(* No file is ever lost to a rename, whatever another process creates in   *)
(* its way between the checks and the move; where --force accepts a file   *)
(* system without such a rename, none is lost while nobody interferes.     *)
(***************************************************************************)
NoFileReplaced ==
    [][Press /\ (tree.atomic \/ mishaps = 0) => \A n \in Present : where'[n] # Nowhere]_vars

(***************************************************************************)
(* The translations through the executed steps, which every later part of  *)
(* the press finds its files by, and the way back, which the doctor        *)
(* matches its scopes by, say where the files are, whatever was skipped.   *)
(***************************************************************************)
TranslationsTrue ==
    \A e \in tree.files \cap Present :
        /\ where[e] = Translate(steps, executed, e)
        /\ e = ReverseTranslate(steps, executed, where[e])

(***************************************************************************)
(* A plan that was accepted fits the tree it was made for: undisturbed, it *)
(* runs to its end, steps skipped or not.                                  *)
(***************************************************************************)
AcceptedPlansRun == mishaps = 0 => pc # "raised"

(***************************************************************************)
(* One press is enough: when no step was skipped, the rows would change no *)
(* path any more.                                                          *)
(***************************************************************************)
NothingLeftToRename ==
    pc = "done" /\ executed = DOMAIN steps =>
        \A e \in tree.files \cap Present : Changed(rows, where[e]) = {}

(***************************************************************************)
(* A link that pointed at a captured file, or into a directory of them,    *)
(* points there still.                                                     *)
(***************************************************************************)
LinksFollow ==
    pc = "done" =>
        \A l \in tree.links \cap Present : \A e \in tree.files \cap Present :
            Under(e, tree.target[l]) => Under(where[e], Resolve(text[l], Parent(where[l])))

(***************************************************************************)
(* The receipt that was budgeted before the press can be written and read  *)
(* after it: no history path of the tree outgrows its bound, whichever of  *)
(* the planned renames are executed and whichever are skipped.             *)
(***************************************************************************)
DirectoriesOf(files) == {Parent(p) : p \in {q \in files : Len(q) > 1}}

HistoryFits ==
    pc = "bind" => BudgetHolds(Pairs(steps, DOMAIN steps),
                               SetToSeq(tree.files \cup DirectoriesOf(tree.files)))

(***************************************************************************)
(* The doctor knows the executed steps by their pairs only; undisturbed,   *)
(* that is enough, unless exact scopes let one row make what another       *)
(* renames: then one pair can be planned twice, made and later skipped.    *)
(* And in a verifier's sandbox, where every row turns a name into one of   *)
(* its own that the tree has not, a finding made at a pressed path is      *)
(* reported at, and ignored by, the source path the file was copied from,  *)
(* and neither way ends in the error of one that goes on for ever.         *)
(***************************************************************************)
NamesIn(files) == UNION {{p[i] : i \in DOMAIN p} : p \in files}

Synthetic ==
    /\ \A k \in DOMAIN rows : rows[k].to \notin NamesIn(tree.files)
    /\ \A k, l \in DOMAIN rows : (rows[k].to = rows[l].to) = (rows[k].from = rows[l].from)

Unchained == \A k, l \in DOMAIN rows : rows[k].to # rows[l].from

FindingsMapBack ==
    pc = "done" => \A e \in tree.files \cap Present :
        /\ (mishaps = 0 /\ Unchained) \/ Synthetic =>
               where[e] = Translate(steps, ExecutedIdsFor(steps, Pairs(steps, executed)), e)
        /\ Synthetic =>
               /\ ForwardMap(Pairs(steps, executed), where[e]) = e
               /\ TranslatePath(Pairs(steps, executed), e) = where[e]
               /\ Leading(Pairs(steps, executed), e) = {}
               /\ Matching(Pairs(steps, executed), where[e]) = {}

(***************************************************************************)
(* Claim: translate_path finds a file through the executed renames.        *)
(***************************************************************************)
FoldedTranslationTrue ==
    pc = "done" => \A e \in tree.files \cap Present :
        where[e] = TranslatePath(Pairs(steps, executed), e)
=============================================================================
