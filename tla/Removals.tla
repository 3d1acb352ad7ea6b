------------------------------ MODULE Removals ------------------------------
(***************************************************************************)
(* Declared removals over a chain of presses: what a press freezes for     *)
(* removal, what it unlinks after its renames, and the history of removed  *)
(* files that one receipt hands to the next press, whose declarations name *)
(* files that are no longer there.                                         *)
(*                                                                         *)
(* A file is a directory and a name in it.  Git knows HEAD and the index;  *)
(* a press renames the directory named like the target's identity.         *)
(***************************************************************************)
EXTENDS Naturals, FiniteSets

CONSTANTS
    Roots,      \* directories
    Identities, \* those a target can be named after
    Leaves,     \* names of files in a directory
    NoRoot,     \* no directory is declared
    NoReceipt,
    Trees,      \* committed trees: [name, files]
    Rules,      \* declarations: [dir, files]
    MaxPresses, \* presses
    MaxEdits    \* edits by the operator

Paths == Roots \X Leaves
In(p, r) == p[1] = r
FilesIn(files, r) == {p \in files : In(p, r)}

ASSUME RemovalsAssumption ==
    /\ NoRoot \notin Roots
    /\ Identities \subseteq Roots
    /\ Trees \subseteq [name : Identities, files : SUBSET Paths]
    /\ Rules \subseteq [dir : Roots \cup {NoRoot}, files : SUBSET Paths]
    /\ MaxPresses \in Nat /\ MaxEdits \in Nat

(***************************************************************************)
(* RemovalMember: the path it was first removed at, the path it has now,   *)
(* and whether it may be missing.  DirectoryRemoval: with its directory.   *)
(***************************************************************************)
Members == [file : Paths, current : Paths, missingOk : BOOLEAN]
Rows == [dir : Roots, current : Roots, members : SUBSET Members]
Receipts == [flat : SUBSET Paths, rows : SUBSET Rows]

ASSUME NoReceiptAssumption == NoReceipt \notin Receipts

VARIABLES
    work,       \* files of the work tree
    changed,    \* those that differ from the index
    index,      \* tracked paths
    head,       \* committed paths
    staged,     \* those that differ between HEAD and the index
    unsaved,    \* history: where HEAD has no copy of the file, there or just unlinked
    name,       \* the target's identity, press-source.toml
    rules,      \* what press-rules.toml declares
    receipt,
    saved,      \* the committed name and receipt
    quiet,      \* nothing but commits since a verified press on free ground
    pc,
    dest,       \* the press: its destination,
    plan,       \* what it froze: [files, rows, retained],
    prior,      \* the receipt it planned from,
    moved,      \* whether its rename was executed,
    todo,       \* members to unlink,
    removed,    \* paths it unlinked
    presses, edits

tree == <<work, changed, index, head, staged, unsaved>>
run == <<dest, plan, prior, moved, todo, removed>>
vars == <<tree, name, rules, receipt, saved, quiet, pc, run, presses, edits>>

NoPlan == [files |-> {}, rows |-> {}, retained |-> {}]

Init ==
    /\ \E t \in Trees : /\ work = t.files /\ index = t.files /\ head = t.files
                        /\ name = t.name
    /\ changed = {} /\ staged = {} /\ unsaved = {}
    /\ rules \in Rules
    /\ receipt = NoReceipt /\ saved = [name |-> name, receipt |-> NoReceipt]
    /\ quiet = FALSE
    /\ pc = "idle" /\ dest = name
    /\ plan = NoPlan /\ prior = NoReceipt /\ moved = FALSE
    /\ todo = {} /\ removed = {}
    /\ presses = 0 /\ edits = 0

-----------------------------------------------------------------------------
(* Git. *)

CleanTree == work = index /\ index = head /\ changed = {} /\ staged = {}

(***************************************************************************)
(* Paths below a root that git status reports, beyond the recorded members *)
(* whose committed file is simply missing: deleted, staged or not, and     *)
(* nothing else.                                                           *)
(***************************************************************************)
Excused(p, recorded) == p \in recorded /\ p \in head \ staged /\ p \notin work

StatusProblemsUnstaged(r, recorded) == \* mutant
    {p \in FilesIn(work \cup index, r) :
        /\ ~(p \in work \cap index /\ p \notin changed)
        /\ ~Excused(p, recorded)}

StatusProblemsTracked(r, recorded) == \* mutant
    {p \in FilesIn(index \cup head, r) :
        /\ ~(p \in work \cap index \cap head /\ p \notin changed \cup staged)
        /\ ~Excused(p, recorded)}

StatusProblems(r, recorded) ==
    {p \in FilesIn(work \cup index \cup head, r) :
        /\ ~(p \in work \cap index \cap head /\ p \notin changed \cup staged)
        /\ ~Excused(p, recorded)}

-----------------------------------------------------------------------------
(* Freezing. *)

PriorRows == IF receipt = NoReceipt THEN {} ELSE receipt.rows
PriorFlat == IF receipt = NoReceipt THEN {} ELSE receipt.flat
RowsFor(d) == {row \in PriorRows : row.dir = d}
Recorded(d) == UNION {row.members : row \in RowsFor(d)}
CurrentRoot(d) == IF RowsFor(d) = {} THEN d ELSE (CHOOSE row \in RowsFor(d) : TRUE).current

Missing(d) == {m \in Recorded(d) : m.current \notin work}
MissingPaths(d) == {m.current : m \in Missing(d)}
Present(d) == FilesIn(work \cap index, CurrentRoot(d))

(***************************************************************************)
(* A missing directory needs its history; a present one may miss tracked   *)
(* members the history excuses.  Both must be clean otherwise.             *)
(***************************************************************************)
FreezableUnrecorded(d) == \* mutant
    LET root == CurrentRoot(d)
    IN  FilesIn(work, root) # {} /\ StatusProblems(root, MissingPaths(d)) = {}

Freezable(d) ==
    LET root == CurrentRoot(d)
    IN  /\ FilesIn(work, root) = {} => RowsFor(d) # {}
        /\ FilesIn(index, root) \ Present(d) \subseteq MissingPaths(d)
        /\ StatusProblems(root, MissingPaths(d)) = {}
        /\ root # d => FilesIn(work, d) = {}

FrozenMembers(d) ==
    {[file |-> p, current |-> p, missingOk |-> FALSE] : p \in Present(d)} \cup
    {[m EXCEPT !.missingOk = TRUE] : m \in Missing(d)}
FrozenRow(d) == [dir |-> d, current |-> CurrentRoot(d), members |-> FrozenMembers(d)]

FileMembers ==
    {[file |-> p, current |-> p, missingOk |-> p \in PriorFlat] : p \in rules.files}

Declared == IF rules.dir = NoRoot THEN {} ELSE {rules.dir}
Frozen == [files |-> FileMembers,
           rows |-> {FrozenRow(d) : d \in Declared},
           retained |-> {row \in PriorRows : row.dir \notin Declared}]

(***************************************************************************)
(* plan_removals for press verify: a directory that has a history is its   *)
(* history, and only one that has none is frozen again.                    *)
(***************************************************************************)
VerifierRows(d) ==
    IF RowsFor(d) = {} THEN {FrozenRow(d)}
    ELSE {[row EXCEPT !.members = {[m EXCEPT !.missingOk = TRUE] : m \in row.members}] :
             row \in RowsFor(d)}
VerifierPlan == [Frozen EXCEPT !.rows = UNION {VerifierRows(d) : d \in Declared}]

(***************************************************************************)
(* preflight_remove_targets.                                               *)
(***************************************************************************)
FileRemovable(p) ==
    IF p \in work THEN p \in index \cap head /\ p \notin changed \cup staged ELSE p \in PriorFlat

-----------------------------------------------------------------------------
(* Validation and translation of a frozen plan. *)

RowMembers(rows) == UNION {row.members : row \in rows}
Active(pl) == pl.files \cup RowMembers(pl.rows)
AllRows(pl) == pl.rows \cup pl.retained

Distinct(members, key(_)) == \A m, n \in members : m # n => key(m) # key(n)
FileKey(m) == m.file
CurrentKey(m) == m.current

(***************************************************************************)
(* validate_directory_history and validate_removal_conflicts: no two rows  *)
(* of the receipt for one file, no two members in one place, no two        *)
(* directories on one root, no declared file below a declared directory.   *)
(***************************************************************************)
Consistent(pl) == AllRows(pl) # {} =>
    /\ Distinct(pl.files \cup RowMembers(AllRows(pl)), FileKey)
    /\ Distinct(pl.files \cup RowMembers(AllRows(pl)), CurrentKey)
    /\ pl.files \cap RowMembers(AllRows(pl)) = {}
    /\ \A r, s \in AllRows(pl) : r # s => {r.dir, r.current} \cap {s.dir, s.current} = {}
    /\ \A r \in AllRows(pl) : \A m \in r.members : In(m.current, r.current)
    /\ \A r \in pl.rows, m \in pl.files : ~In(m.current, r.current)

(***************************************************************************)
(* translate_removal_plan: the plan after the rename of the root, or       *)
(* without it.                                                             *)
(***************************************************************************)
Carry(d, p) == IF In(p, name) THEN <<d, p[2]>> ELSE p
CarryMember(d, m) == [m EXCEPT !.current = Carry(d, m.current)]
CarryRow(d, row) ==
    [row EXCEPT !.current = IF row.current = name THEN d ELSE row.current,
                !.members = {CarryMember(d, m) : m \in row.members}]

Translated(done, d, pl) ==
    IF ~done THEN pl
    ELSE [files |-> {CarryMember(d, m) : m \in pl.files},
          rows |-> {CarryRow(d, row) : row \in pl.rows},
          retained |-> {CarryRow(d, row) : row \in pl.retained}]

-----------------------------------------------------------------------------
(* A press. *)

Renames == FilesIn(work, name) # {}
Converge(d) == \E p \in FilesIn(work, name) : <<d, p[2]>> \in work

(***************************************************************************)
(* The gates of the press; what they refuse leaves no trace.  The plan has *)
(* to be consistent where the files are and where they will be.            *)
(***************************************************************************)
DeclarationsHold ==
    /\ \A d \in Declared : Freezable(d)
    /\ \A p \in rules.files : FileRemovable(p)

ConsistentNow(d) == Consistent(Frozen) \* mutant
ConsistentThroughout(d) ==
    Consistent(Frozen) /\ Consistent(Translated(Renames, d, Frozen))

(***************************************************************************)
(* The accepted press starts by removing the prior receipt.                *)
(***************************************************************************)
InvalidatedNever == receipt \* mutant
Invalidated == NoReceipt

Plan(d, allowDirty) ==
    /\ pc = "idle" /\ presses < MaxPresses /\ presses' = presses + 1
    /\ d # name
    /\ allowDirty \/ CleanTree
    /\ DeclarationsHold /\ ConsistentThroughout(d) /\ ~Converge(d)
    /\ dest' = d /\ plan' = Frozen /\ prior' = receipt
    /\ moved' = FALSE /\ todo' = {} /\ removed' = {}
    /\ pc' = "rename" /\ receipt' = Invalidated /\ quiet' = FALSE
    /\ UNCHANGED <<tree, name, rules, saved, edits>>

(***************************************************************************)
(* A directory that is in the way leaves the rename undone.                *)
(***************************************************************************)
RenameRoot ==
    /\ pc = "rename"
    /\ moved' = (Renames /\ FilesIn(work, dest) = {})
    /\ work' = IF moved' THEN {Carry(dest, p) : p \in work} ELSE work
    /\ changed' = (changed \cap work') \cup ((work' \ work) \cap index)
    /\ unsaved' = {IF moved' THEN Carry(dest, p) ELSE p : p \in unsaved \cap work}
    /\ todo' = Active(Translated(moved', dest, plan))
    /\ pc' = "remove"
    /\ UNCHANGED <<index, head, staged, name, rules, receipt, saved, quiet, dest, plan, prior,
                   removed, presses, edits>>

(***************************************************************************)
(* apply_removal_plan, member by member.  Only a member that may be        *)
(* missing is passed over; else the press ends without a receipt.          *)
(***************************************************************************)
Unlink(m) ==
    /\ pc = "remove" /\ m \in todo
    /\ IF m.current \in work \/ m.missingOk
       THEN /\ work' = work \ {m.current}
            /\ changed' = changed \ {m.current}
            /\ removed' = removed \cup ({m.current} \cap work)
            /\ todo' = todo \ {m}
            /\ UNCHANGED pc
       ELSE pc' = "idle" /\ UNCHANGED <<work, changed, removed, todo>>
    /\ UNCHANGED <<index, head, staged, unsaved, name, rules, receipt, saved, quiet, dest, plan,
                   prior, moved, presses, edits>>

(***************************************************************************)
(* The doctor finds the old name in any path that is left.                 *)
(***************************************************************************)
Verify ==
    /\ pc = "remove" /\ todo = {}
    /\ pc' = IF FilesIn(work, name) = {} THEN "record" ELSE "idle"
    /\ UNCHANGED <<tree, name, rules, receipt, saved, quiet, run, presses, edits>>

(***************************************************************************)
(* removal_receipt_metadata: files unlinked or excused, every member of    *)
(* every directory, and what the prior receipt recorded.                   *)
(***************************************************************************)
Emitted(pl) ==
    {m.file : m \in {f \in pl.files : f.missingOk \/ f.current \in removed}} \cup
    {m.file : m \in RowMembers(AllRows(pl))}
Legacy == IF prior = NoReceipt THEN {} ELSE prior.flat

FlatFresh(pl) == Emitted(pl) \* mutant
Flat(pl) == Emitted(pl) \cup Legacy

RowsRecorded(pl) == AllRows(pl)

(***************************************************************************)
(* write_receipt validates once more what it records, after the            *)
(* source-config is written.  The press renamed onto free ground unless    *)
(* git or the history of removed directories knew files at its destination.*)
(***************************************************************************)
Final == Translated(moved, dest, plan)
FreeGround == moved =>
    /\ FilesIn(index \cup head, dest) = {}
    /\ prior # NoReceipt => \A row \in prior.rows : dest \notin {row.dir, row.current}
Record ==
    /\ pc = "record"
    /\ name' = dest
    /\ IF Consistent(Final)
       THEN receipt' = [flat |-> Flat(Final), rows |-> RowsRecorded(Final)] /\ quiet' = FreeGround
       ELSE UNCHANGED <<receipt, quiet>>
    /\ pc' = "idle"
    /\ UNCHANGED <<tree, rules, saved, run, presses, edits>>

(***************************************************************************)
(* An error or a kill anywhere after the first mutation, also between the  *)
(* last two writes.                                                        *)
(***************************************************************************)
Stop ==
    /\ pc \in {"rename", "remove", "record"}
    /\ name' \in IF pc = "record" THEN {name, dest} ELSE {name}
    /\ pc' = "idle"
    /\ UNCHANGED <<tree, rules, receipt, saved, quiet, run, presses, edits>>

-----------------------------------------------------------------------------
(* The operator, between presses. *)

Commit ==
    /\ pc = "idle"
    /\ head' = work /\ index' = work
    /\ changed' = {} /\ staged' = {} /\ unsaved' = {}
    /\ saved' = [name |-> name, receipt |-> receipt]
    /\ UNCHANGED <<work, name, rules, receipt, quiet, pc, run, presses, edits>>

(***************************************************************************)
(* git add --all.                                                          *)
(***************************************************************************)
Stage ==
    /\ pc = "idle"
    /\ index' = work /\ changed' = {}
    /\ staged' = (staged \cup changed \cup (work \ index)) \cap work \cap head
    /\ UNCHANGED <<work, head, unsaved, name, rules, receipt, saved, quiet, pc, run, presses, edits>>

Edit ==
    /\ pc = "idle" /\ edits < MaxEdits /\ edits' = edits + 1
    /\ quiet' = FALSE
    /\ UNCHANGED <<pc, run, presses>>

Write(p) ==
    /\ Edit
    /\ work' = work \cup {p} /\ changed' = changed \cup ({p} \cap index)
    /\ unsaved' = unsaved \cup {p}
    /\ UNCHANGED <<index, head, staged, name, rules, receipt, saved>>

Delete(p) ==
    /\ Edit
    /\ p \in work
    /\ work' = work \ {p} /\ changed' = changed \ {p}
    /\ unsaved' = unsaved \ {p}
    /\ UNCHANGED <<index, head, staged, name, rules, receipt, saved>>

Restore ==
    /\ Edit
    /\ work' = head /\ index' = head
    /\ changed' = {} /\ staged' = {} /\ unsaved' = {}
    /\ name' = saved.name /\ receipt' = saved.receipt
    /\ UNCHANGED <<head, rules, saved>>

Redeclare ==
    /\ Edit
    /\ rules' \in Rules
    /\ UNCHANGED <<tree, name, receipt, saved>>

Operator ==
    \/ Commit \/ Stage \/ Restore \/ Redeclare
    \/ \E p \in Paths : Write(p) \/ Delete(p)

Press ==
    \/ \E d \in Identities, allowDirty \in BOOLEAN : Plan(d, allowDirty)
    \/ RenameRoot \/ (\E m \in todo : Unlink(m)) \/ Verify \/ Record \/ Stop

Next == Press \/ Operator

Spec == Init /\ [][Next]_vars

-----------------------------------------------------------------------------
(* Properties. *)

(***************************************************************************)
(* Types; and a press at work has no receipt on the disk.                  *)
(***************************************************************************)
TypeOK ==
    /\ work \subseteq Paths /\ changed \subseteq work \cap index
    /\ index \subseteq Paths /\ head \subseteq Paths
    /\ staged \subseteq index \cap head /\ unsaved \subseteq Paths
    /\ name \in Identities /\ dest \in Identities
    /\ rules \in Rules
    /\ receipt \in Receipts \cup {NoReceipt} /\ prior \in Receipts \cup {NoReceipt}
    /\ saved.name \in Identities /\ saved.receipt \in Receipts \cup {NoReceipt}
    /\ plan.files \subseteq Members /\ AllRows(plan) \subseteq Rows
    /\ todo \subseteq Members /\ removed \subseteq Paths
    /\ pc \in {"idle", "rename", "remove", "record"}
    /\ pc # "idle" => receipt = NoReceipt
    /\ quiet \in BOOLEAN /\ moved \in BOOLEAN
    /\ presses \in 0..MaxPresses /\ edits \in 0..MaxEdits

(***************************************************************************)
(* A press never refuses over the success of the one before it: with the   *)
(* tree left alone, committed or not, the declarations of a verified press *)
(* hold again although what they name is gone.  Unless that press renamed  *)
(* a directory of the project to where others were, as FreeGround says.    *)
(***************************************************************************)
SuccessIsPressable == pc = "idle" /\ quiet => DeclarationsHold /\ Consistent(Frozen)

(***************************************************************************)
(* press verify accepts every declaration that a press accepts, although   *)
(* it reads directories from the history instead of the tree; and it takes *)
(* nothing out of its sandbox that the press would leave where it is.      *)
(* NoRoot stands for the name of the synthetic identity, which is fresh.   *)
(* The one exception is a member that is back where its directory is now,  *)
(* when the path it was first removed at is declared as a file: the press  *)
(* freezes it as a new file, the history is one file under two reasons.    *)
(***************************************************************************)
OriginsApart ==
    \A d \in Declared : \A m \in Recorded(d) : m.current \in work => m.file \notin rules.files

VerifierAccepts ==
    /\ \A d \in Declared : RowsFor(d) = {} => Freezable(d)
    /\ \A m \in VerifierPlan.files : m.current \in work \/ m.missingOk
    /\ Consistent(VerifierPlan) /\ Consistent(Translated(Renames, NoRoot, VerifierPlan))

VerifyFollowsPress ==
    pc = "idle" /\ DeclarationsHold /\ Consistent(Frozen) /\ OriginsApart =>
        /\ VerifierAccepts
        /\ \A m \in Active(VerifierPlan) :
               m.current \in work => \E n \in Active(Frozen) : n.current = m.current

(***************************************************************************)
(* The history that passed the gates passes the last validation: a press   *)
(* does not fail there, with everything done and nothing recorded.         *)
(***************************************************************************)
HistoryWritable == pc = "record" => Consistent(Final)

(***************************************************************************)
(* What a receipt recorded as removed stays recorded by every press after  *)
(* it, whatever was declared, retired, restored or removed anew.           *)
(***************************************************************************)
RemovalsStayRecorded ==
    [][receipt' # receipt /\ receipt' # NoReceipt /\ pc = "record" =>
          Legacy \cup {m.file : m \in {n \in Active(Final) : n.current \in removed}}
              \subseteq receipt'.flat]_vars

(***************************************************************************)
(* A press unlinks no file that HEAD has no copy of, judged where the file *)
(* is when it is unlinked and not where it was planned; --allow-dirty does *)
(* not change that.  The one exception is a file that the rename of the    *)
(* root brings to the path of a member that may be missing: what is there  *)
(* is unlinked, whatever it is (OnlySelectedDeleted below).                *)
(***************************************************************************)
BroughtToExcused(p) ==
    moved /\ In(p, dest) /\ \E m \in Active(plan) : m.missingOk /\ m.current = p

RemovesOnlySaved ==
    pc \in {"remove", "record"} => \A p \in removed \cap unsaved : BroughtToExcused(p)

(***************************************************************************)
(* Claim: only the files selected at planning time are deleted, at their   *)
(* renamed locations.                                                      *)
(***************************************************************************)
OnlySelectedDeleted ==
    pc \in {"remove", "record"} =>
        removed \subseteq {m.current : m \in {n \in Active(Final) : ~n.missingOk}}
=============================================================================
