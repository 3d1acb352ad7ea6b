--------------------------- MODULE RemovalsProofs ---------------------------
(***************************************************************************)
(* What removals may lose and what they leave on record, for any trees,    *)
(* any declarations and any number of presses and edits in between.        *)
(***************************************************************************)
EXTENDS Removals, TLAPS

-----------------------------------------------------------------------------
(* Types. *)

(***************************************************************************)
(* Moving a path, a member, a row or a plan along with a directory keeps   *)
(* its type.                                                               *)
(***************************************************************************)
LEMMA CarryTyped == ASSUME TypeOK, NEW d \in Roots, NEW p \in Paths PROVE Carry(d, p) \in Paths
BY DEF Carry, Paths

LEMMA CarryMemberTyped ==
    ASSUME TypeOK, NEW d \in Roots, NEW m \in Members PROVE CarryMember(d, m) \in Members
<1>1. Carry(d, m.current) \in Paths
  BY CarryTyped DEF Members
<1> QED
  BY <1>1 DEF CarryMember, Members

LEMMA CarryRowTyped ==
    ASSUME TypeOK, NEW d \in Roots, NEW row \in Rows PROVE CarryRow(d, row) \in Rows
<1>1. {CarryMember(d, m) : m \in row.members} \subseteq Members
  BY CarryMemberTyped DEF Rows
<1>2. (IF row.current = name THEN d ELSE row.current) \in Roots
  BY DEF Rows
<1> QED
  BY <1>1, <1>2 DEF CarryRow, Rows

PlanTyped(pl) == pl.files \subseteq Members /\ pl.rows \subseteq Rows /\ pl.retained \subseteq Rows

LEMMA TranslatedTyped ==
    ASSUME TypeOK, NEW d \in Roots, NEW done \in BOOLEAN, NEW pl, PlanTyped(pl)
    PROVE  PlanTyped(Translated(done, d, pl))
<1>1. CASE ~done
  BY <1>1 DEF Translated
<1>2. CASE done
  <2>1. {CarryMember(d, m) : m \in pl.files} \subseteq Members
    BY CarryMemberTyped DEF PlanTyped
  <2>2. {CarryRow(d, row) : row \in pl.rows} \subseteq Rows
    BY CarryRowTyped DEF PlanTyped
  <2>3. {CarryRow(d, row) : row \in pl.retained} \subseteq Rows
    BY CarryRowTyped DEF PlanTyped
  <2> QED
    BY <1>2, <2>1, <2>2, <2>3 DEF Translated, PlanTyped
<1> QED
  BY <1>1, <1>2

LEMMA ActiveTyped == ASSUME NEW pl, PlanTyped(pl) PROVE Active(pl) \subseteq Members
BY DEF PlanTyped, Active, RowMembers, Rows

LEMMA PriorTyped == TypeOK => PriorRows \subseteq Rows /\ PriorFlat \subseteq Paths
BY DEF TypeOK, PriorRows, PriorFlat, Receipts

(***************************************************************************)
(* A declared directory stands at a root.                                  *)
(***************************************************************************)
LEMMA CurrentRootTyped == ASSUME TypeOK, NEW d \in Roots PROVE CurrentRoot(d) \in Roots
<1>1. CASE RowsFor(d) = {}
  BY <1>1 DEF CurrentRoot
<1>2. CASE RowsFor(d) # {}
  <2>1. (CHOOSE row \in RowsFor(d) : TRUE) \in RowsFor(d)
    BY <1>2
  <2>2. RowsFor(d) \subseteq Rows
    BY PriorTyped DEF RowsFor
  <2> QED
    BY <1>2, <2>1, <2>2 DEF CurrentRoot, Rows
<1> QED
  BY <1>1, <1>2

LEMMA MemberTyped ==
    ASSUME NEW p \in Paths, NEW ok \in BOOLEAN
    PROVE  [file |-> p, current |-> p, missingOk |-> ok] \in Members
BY DEF Members

(***************************************************************************)
(* What the gates freeze of a directory is a row.                          *)
(***************************************************************************)
LEMMA FrozenRowTyped == ASSUME TypeOK, NEW d \in Roots PROVE FrozenRow(d) \in Rows
<1>1. Missing(d) \subseteq Members
  BY PriorTyped DEF Missing, Recorded, RowsFor, Rows
<1>2. {[m EXCEPT !.missingOk = TRUE] : m \in Missing(d)} \subseteq Members
  BY <1>1 DEF Members
<1>3. Present(d) \subseteq Paths
  BY DEF Present, FilesIn, TypeOK
<1>4. {[file |-> p, current |-> p, missingOk |-> FALSE] : p \in Present(d)} \subseteq Members
  BY <1>3, MemberTyped
<1>5. FrozenMembers(d) \subseteq Members
  BY <1>2, <1>4 DEF FrozenMembers
<1> QED
  BY <1>5, CurrentRootTyped DEF FrozenRow, Rows

LEMMA FrozenTyped == TypeOK => PlanTyped(Frozen)
<1> SUFFICES ASSUME TypeOK PROVE PlanTyped(Frozen)
  OBVIOUS
<1>1. rules.files \subseteq Paths /\ Declared \subseteq Roots
  BY RemovalsAssumption DEF TypeOK, Declared
<1>2. FileMembers \subseteq Members
  <2> SUFFICES ASSUME NEW p \in rules.files
               PROVE  [file |-> p, current |-> p, missingOk |-> p \in PriorFlat] \in Members
    BY DEF FileMembers
  <2>1. (p \in PriorFlat) \in BOOLEAN
    OBVIOUS
  <2> QED
    BY <1>1, <2>1, MemberTyped
<1>3. {FrozenRow(d) : d \in Declared} \subseteq Rows
  BY <1>1, FrozenRowTyped
<1>4. {row \in PriorRows : row.dir \notin Declared} \subseteq Rows
  BY PriorTyped
<1> QED
  BY <1>2, <1>3, <1>4 DEF Frozen, PlanTyped

(***************************************************************************)
(* So is what a receipt is written from.                                   *)
(***************************************************************************)
LEMMA EmittedTyped ==
    ASSUME TypeOK, NEW pl, PlanTyped(pl) PROVE Flat(pl) \subseteq Paths /\ AllRows(pl) \subseteq Rows
<1>1. AllRows(pl) \subseteq Rows
  BY DEF AllRows, PlanTyped
<1>2. RowMembers(AllRows(pl)) \subseteq Members
  BY <1>1 DEF RowMembers, Rows
<1>3. Emitted(pl) \subseteq Paths
  BY <1>2 DEF Emitted, PlanTyped, Members
<1>4. Legacy \subseteq Paths
  BY DEF TypeOK, Legacy, Receipts
<1> QED
  BY <1>1, <1>3, <1>4 DEF Flat

LEMMA PlanOfTyped == TypeOK <=> TypeOK /\ PlanTyped(plan)
BY DEF TypeOK, PlanTyped, AllRows

LEMMA InitTyped == Init => TypeOK
<1> SUFFICES ASSUME Init PROVE TypeOK
  OBVIOUS
<1>1. PICK t \in Trees : work = t.files /\ index = t.files /\ head = t.files /\ name = t.name
  BY DEF Init
<1>2. t \in [name : Identities, files : SUBSET Paths]
  BY RemovalsAssumption
<1>3. /\ work \subseteq Paths /\ index \subseteq Paths /\ head \subseteq Paths
      /\ name \in Identities /\ dest \in Identities /\ changed \subseteq work \cap index
      /\ saved.name \in Identities /\ saved.receipt = NoReceipt
  BY <1>1, <1>2 DEF Init
<1>4. plan.files \subseteq Members /\ AllRows(plan) \subseteq Rows
  BY DEF Init, NoPlan, AllRows
<1>5. /\ rules \in Rules /\ receipt = NoReceipt /\ prior = NoReceipt
      /\ todo \subseteq Members /\ removed \subseteq Paths /\ pc = "idle"
  BY DEF Init
<1>6. quiet \in BOOLEAN /\ moved \in BOOLEAN
  BY DEF Init
<1>7. presses \in 0..MaxPresses /\ edits \in 0..MaxEdits
  BY RemovalsAssumption DEF Init
<1>8. staged = {} /\ unsaved = {}
  BY DEF Init
<1> QED
  BY <1>3, <1>4, <1>5, <1>6, <1>7, <1>8 DEF TypeOK

(***************************************************************************)
(* Every step keeps the types.                                             *)
(***************************************************************************)
LEMMA NextTyped == TypeOK /\ [Next]_vars => TypeOK'
<1> SUFFICES ASSUME TypeOK, [Next]_vars PROVE TypeOK'
  OBVIOUS
<1> USE RemovalsAssumption
<1>1. ASSUME NEW d \in Identities, NEW allowDirty \in BOOLEAN, Plan(d, allowDirty) PROVE TypeOK'
  <2>1. PlanTyped(plan')
    BY <1>1, FrozenTyped DEF Plan
  <2>2. plan'.files \subseteq Members /\ AllRows(plan)' \subseteq Rows
    BY <2>1 DEF PlanTyped, AllRows
  <2>3. prior' \in Receipts \cup {NoReceipt} /\ receipt' = NoReceipt
    BY <1>1 DEF Plan, TypeOK, Invalidated
  <2>4. presses' \in 0..MaxPresses
    BY <1>1 DEF Plan, TypeOK
  <2>5. /\ dest' \in Identities /\ todo' \subseteq Members /\ removed' \subseteq Paths
        /\ pc' = "rename" /\ quiet' \in BOOLEAN /\ moved' \in BOOLEAN
    BY <1>1 DEF Plan
  <2>6. UNCHANGED <<work, changed, index, head, staged, unsaved, name, rules, saved, edits>>
    BY <1>1 DEF Plan, tree
  <2> QED
    BY <2>2, <2>3, <2>4, <2>5, <2>6 DEF TypeOK
<1>2. CASE RenameRoot
  <2>1. dest \in Roots /\ moved' \in BOOLEAN
    BY <1>2 DEF TypeOK, RenameRoot
  <2>2. todo' \subseteq Members
    BY <1>2, <2>1, PlanOfTyped, TranslatedTyped, ActiveTyped DEF RenameRoot
  <2>3. work' \subseteq Paths
    BY <1>2, <2>1, CarryTyped DEF RenameRoot, TypeOK
  <2>4. changed' \subseteq work' \cap index'
    BY <1>2 DEF RenameRoot, TypeOK
  <2>5. unsaved' \subseteq Paths
    BY <1>2, <2>1, CarryTyped DEF RenameRoot, TypeOK
  <2> QED
    BY <1>2, <2>1, <2>2, <2>3, <2>4, <2>5 DEF RenameRoot, TypeOK, AllRows
<1>3. ASSUME NEW m \in todo, Unlink(m) PROVE TypeOK'
  BY <1>3 DEF Unlink, TypeOK, AllRows
<1>4. CASE Verify
  BY <1>4 DEF Verify, TypeOK, AllRows, tree, run
<1>5. CASE Record
  <2>1. PlanTyped(Final)
    BY PlanOfTyped, TranslatedTyped DEF Final, TypeOK
  <2>2. [flat |-> Flat(Final), rows |-> RowsRecorded(Final)] \in Receipts
    BY <2>1, EmittedTyped DEF Receipts, RowsRecorded
  <2>3. FreeGround \in BOOLEAN
    BY DEF FreeGround
  <2> QED
    BY <1>5, <2>2, <2>3 DEF Record, TypeOK, AllRows, tree, run
<1>6. CASE Stop
  BY <1>6 DEF Stop, TypeOK, AllRows, tree, run
<1>7. CASE Operator
  <2>1. CASE Commit \/ Stage
    BY <2>1 DEF Commit, Stage, TypeOK, AllRows, run
  <2>2. ASSUME Edit PROVE /\ edits' \in 0..MaxEdits /\ quiet' \in BOOLEAN
                           /\ UNCHANGED <<pc, presses, dest, plan, prior, moved, todo, removed>>
    <3>1. edits' \in 0..MaxEdits
      <4>1. edits \in 0..MaxEdits /\ edits < MaxEdits /\ edits' = edits + 1 /\ MaxEdits \in Nat
        BY <2>2 DEF Edit, TypeOK
      <4> QED
        BY <4>1
    <3>2. quiet' \in BOOLEAN
      BY <2>2 DEF Edit
    <3> QED
      BY <2>2, <3>1, <3>2 DEF Edit, run
  <2>3. CASE Restore
    <3>1. /\ work' \subseteq Paths /\ changed' = {} /\ index' \subseteq Paths /\ head' \subseteq Paths
          /\ staged' = {} /\ unsaved' = {}
          /\ name' \in Identities /\ receipt' \in Receipts \cup {NoReceipt}
          /\ saved' = saved /\ rules' = rules /\ pc = "idle"
      BY <2>3 DEF Restore, Edit, TypeOK
    <3> QED
      BY <2>2, <2>3, <3>1 DEF Restore, TypeOK, AllRows
  <2>4. CASE Redeclare
    <3>1. UNCHANGED <<work, changed, index, head, staged, unsaved, name, receipt, saved>> /\ rules' \in Rules
      BY <2>4 DEF Redeclare, tree
    <3> QED
      BY <2>2, <2>4, <3>1 DEF Redeclare, TypeOK, AllRows
  <2>5. ASSUME NEW p \in Paths, Write(p) \/ Delete(p) PROVE TypeOK'
    <3>1. work' \subseteq Paths /\ changed' \subseteq work' \cap index' /\ unsaved' \subseteq Paths
      BY <2>5 DEF Write, Delete, TypeOK
    <3>2. Edit /\ UNCHANGED <<index, head, staged, name, rules, receipt, saved>>
      BY <2>5 DEF Write, Delete
    <3> QED
      BY <2>2, <3>1, <3>2 DEF TypeOK, AllRows
  <2> QED
    BY <1>7, <2>1, <2>3, <2>4, <2>5 DEF Operator
<1>8. CASE UNCHANGED vars
  BY <1>8 DEF vars, TypeOK, AllRows, tree, run
<1> QED
  BY <1>1, <1>2, <1>3, <1>4, <1>5, <1>6, <1>7, <1>8 DEF Next, Press

(***************************************************************************)
(* Type correctness; and no receipt stands while a press is at work.       *)
(***************************************************************************)
THEOREM RemovalsTypeCorrect == Spec => []TypeOK
BY InitTyped, NextTyped, PTL DEF Spec

-----------------------------------------------------------------------------
(* What is removed is saved. *)

(***************************************************************************)
(* What git status calls unchanged has a copy in HEAD.  A frozen member    *)
(* whose file is there has one, any other may be missing; after the rename *)
(* the members still to unlink have one too, but for what the rename       *)
(* brought to the path of a missing member.                                *)
(***************************************************************************)
UnchangedSaved == \A p \in work \cap index \cap head : p \notin changed \cup staged => p \notin unsaved

PlannedSaved == \A m \in Active(plan) : IF m.current \in work THEN m.current \notin unsaved ELSE m.missingOk

SavedInv ==
    /\ UnchangedSaved
    /\ pc = "rename" => removed = {} /\ PlannedSaved
    /\ pc \in {"remove", "record"} => \A m \in todo :
           m.current \in work \cap unsaved => BroughtToExcused(m.current)
    /\ RemovesOnlySaved

(***************************************************************************)
(* A member that is frozen where a file stands is a tracked file of a      *)
(* directory in which git status sees nothing but excused absences.        *)
(***************************************************************************)
LEMMA FrozenCommitted ==
    ASSUME TypeOK, NEW d, Freezable(d), NEW m \in FrozenMembers(d)
    PROVE  IF m.current \in work THEN m.current \in (index \cap head) \ (changed \cup staged)
                                 ELSE m.missingOk
<1>1. CASE \E p \in Present(d) : m = [file |-> p, current |-> p, missingOk |-> FALSE]
  <2>1. m.current \in work /\ m.current \in FilesIn(work \cup index \cup head, CurrentRoot(d))
    BY <1>1 DEF Present, FilesIn
  <2>2. m.current \notin StatusProblems(CurrentRoot(d), MissingPaths(d))
    BY DEF Freezable
  <2>3. ~Excused(m.current, MissingPaths(d))
    BY <2>1 DEF Excused
  <2> QED
    BY <2>1, <2>2, <2>3 DEF StatusProblems
<1>2. CASE \E n \in Missing(d) : m = [n EXCEPT !.missingOk = TRUE]
  <2>1. PICK n \in Missing(d) : m = [n EXCEPT !.missingOk = TRUE]
    BY <1>2
  <2>2. n \in Members
    BY PriorTyped DEF Missing, Recorded, RowsFor, Rows
  <2>3. m.current = n.current /\ m.missingOk
    BY <2>1, <2>2 DEF Members
  <2> QED
    BY <2>1, <2>3 DEF Missing
<1> QED
  BY <1>1, <1>2 DEF FrozenMembers

(***************************************************************************)
(* The gates let only committed files into a plan.                         *)
(***************************************************************************)
LEMMA PlanSaved ==
    ASSUME TypeOK, SavedInv, NEW d \in Identities, NEW allowDirty \in BOOLEAN, Plan(d, allowDirty)
    PROVE  SavedInv'
<1>1. /\ plan' = Frozen /\ removed' = {} /\ todo' = {} /\ pc' = "rename"
      /\ UNCHANGED <<work, changed, index, head, staged, unsaved>>
  BY DEF Plan, tree
<1>2. ASSUME NEW m \in Active(Frozen)
      PROVE  IF m.current \in work THEN m.current \notin unsaved ELSE m.missingOk
  <2>1. CASE m \in FileMembers
    <3>1. PICK p \in rules.files : m = [file |-> p, current |-> p, missingOk |-> p \in PriorFlat]
      BY <2>1 DEF FileMembers
    <3>2. m.current = p /\ m.missingOk = (p \in PriorFlat)
      BY <3>1
    <3>3. FileRemovable(p)
      BY DEF Plan, DeclarationsHold
    <3> QED
      BY <3>2, <3>3 DEF FileRemovable, SavedInv, UnchangedSaved
  <2>2. CASE m \in RowMembers(Frozen.rows)
    <3>1. PICK e \in Declared : m \in FrozenMembers(e)
      BY <2>2 DEF RowMembers, Frozen, FrozenRow
    <3>2. Freezable(e)
      BY DEF Plan, DeclarationsHold
    <3> QED
      BY <3>1, <3>2, FrozenCommitted DEF SavedInv, UnchangedSaved
  <2> QED
    BY <2>1, <2>2 DEF Active, Frozen
<1>3. PlannedSaved'
  BY <1>1, <1>2 DEF PlannedSaved, Active, RowMembers
<1>4. UnchangedSaved'
  BY <1>1 DEF SavedInv, UnchangedSaved
<1> QED
  BY <1>1, <1>3, <1>4 DEF SavedInv, RemovesOnlySaved

(***************************************************************************)
(* The rename carries what is not saved along; where it changes a tracked  *)
(* path, git status says so.                                               *)
(***************************************************************************)
LEMMA MoveUnchanged == ASSUME TypeOK, SavedInv, RenameRoot PROVE UnchangedSaved'
<1>1. /\ changed' = (changed \cap work') \cup ((work' \ work) \cap index)
      /\ UNCHANGED <<index, head, staged>>
      /\ unsaved' = {IF moved' THEN Carry(dest, p) ELSE p : p \in unsaved \cap work}
      /\ work' = IF moved' THEN {Carry(dest, p) : p \in work} ELSE work
  BY DEF RenameRoot
<1> SUFFICES ASSUME NEW p \in work' \cap index \cap head, p \notin changed' \cup staged, p \in unsaved'
             PROVE  FALSE
  BY <1>1 DEF UnchangedSaved
<1>2. p \in work /\ p \notin changed
  BY <1>1
<1>3. p \notin unsaved
  BY <1>2 DEF SavedInv, UnchangedSaved
<1>4. PICK q \in unsaved \cap work : p = IF moved' THEN Carry(dest, q) ELSE q
  BY <1>1
<1>5. moved' /\ In(q, name) /\ p = <<dest, q[2]>>
  BY <1>3, <1>4 DEF Carry
<1>6. FilesIn(work, dest) = {}
  BY <1>5 DEF RenameRoot
<1> QED
  BY <1>2, <1>5, <1>6 DEF FilesIn, In

LEMMA MoveSaved == ASSUME TypeOK, SavedInv, RenameRoot PROVE SavedInv'
<1>1. /\ pc = "rename" /\ pc' = "remove" /\ UNCHANGED <<dest, plan, removed>>
      /\ todo' = Active(Translated(moved', dest, plan))
      /\ unsaved' = {IF moved' THEN Carry(dest, p) ELSE p : p \in unsaved \cap work}
      /\ work' = IF moved' THEN {Carry(dest, p) : p \in work} ELSE work
      /\ moved' => FilesIn(work, dest) = {}
  BY DEF RenameRoot
<1>2. removed = {} /\ PlannedSaved
  BY <1>1 DEF SavedInv
<1>3. ASSUME NEW m \in todo', m.current \in work' \cap unsaved'
      PROVE  BroughtToExcused(m.current)'
  <2>1. PICK q \in unsaved \cap work : m.current = IF moved' THEN Carry(dest, q) ELSE q
    BY <1>1, <1>3
  <2>2. CASE ~moved'
    <3>1. m \in Active(plan) /\ m.current = q
      BY <1>1, <2>1, <2>2 DEF Translated
    <3> QED
      BY <1>2, <3>1 DEF PlannedSaved
  <2>3. CASE moved'
    <3>1. PICK n \in Active(plan) : m = CarryMember(dest, n)
      <4>1. \A row \in plan.rows : CarryRow(dest, row).members = {CarryMember(dest, n) : n \in row.members}
        BY DEF CarryRow, TypeOK, AllRows, Rows
      <4> QED
        BY <1>1, <2>3, <4>1 DEF Translated, Active, RowMembers
    <3>2. n \in Members
      BY PlanOfTyped, ActiveTyped
    <3>3. m.current = Carry(dest, n.current)
      BY <3>1, <3>2 DEF CarryMember, Members
    <3>4. n.current # q
      BY <1>2 DEF PlannedSaved
    <3>5. q \in Paths /\ n.current \in Paths /\ FilesIn(work, dest) = {}
      BY <1>1, <2>3, <3>2 DEF TypeOK, Members
    <3>6. m.current = Carry(dest, q)
      BY <2>1, <2>3
    <3>7. In(q, name) /\ ~In(n.current, name)
      BY <3>3, <3>4, <3>5, <3>6 DEF Carry, In, Paths, FilesIn
    <3>8. m.current = n.current /\ In(n.current, dest)
      BY <3>3, <3>6, <3>7 DEF Carry, In
    <3>9. n.missingOk
      BY <1>2, <3>5, <3>8 DEF PlannedSaved, FilesIn
    <3> QED
      BY <1>1, <2>3, <3>8, <3>9 DEF BroughtToExcused, In, Active, RowMembers
  <2> QED
    BY <2>2, <2>3
<1>4. RemovesOnlySaved'
  BY <1>1, <1>2 DEF RemovesOnlySaved
<1> QED
  BY <1>1, <1>3, <1>4, MoveUnchanged DEF SavedInv

LEMMA UnlinkSaved == ASSUME TypeOK, SavedInv, NEW m \in todo, Unlink(m) PROVE SavedInv'
<1>1. /\ pc = "remove" /\ pc' \in {"remove", "idle"}
      /\ UNCHANGED <<index, head, staged, unsaved, dest, plan, moved>>
      /\ work' \subseteq work /\ todo' \subseteq todo /\ changed \cap work' \subseteq changed'
      /\ removed' \subseteq removed \cup ({m.current} \cap work)
  BY DEF Unlink
<1>2. \A p : BroughtToExcused(p)' <=> BroughtToExcused(p)
  BY <1>1 DEF BroughtToExcused, In, Active, RowMembers
<1>3. UnchangedSaved'
  BY <1>1 DEF SavedInv, UnchangedSaved
<1>4. ASSUME NEW p \in removed' \cap unsaved PROVE BroughtToExcused(p)
  BY <1>1 DEF SavedInv, RemovesOnlySaved
<1>5. \A n \in todo' : n.current \in work' \cap unsaved' => BroughtToExcused(n.current)'
  BY <1>1, <1>2 DEF SavedInv
<1> QED
  BY <1>1, <1>2, <1>3, <1>4, <1>5 DEF SavedInv, RemovesOnlySaved

(***************************************************************************)
(* What the operator writes is not saved, and git status shows it, in the  *)
(* work tree or in the index; what is committed or restored is saved.      *)
(***************************************************************************)
LEMMA OperatorSaved == ASSUME TypeOK, SavedInv, Operator PROVE SavedInv'
<1>1. pc' = "idle"
  BY DEF Operator, Commit, Stage, Restore, Redeclare, Write, Delete, Edit
<1>2. UnchangedSaved'
  <2>1. CASE Commit \/ Restore
    BY <2>1 DEF Commit, Restore, UnchangedSaved
  <2>2. CASE Stage
    BY <2>2 DEF Stage, UnchangedSaved, SavedInv
  <2>3. CASE \E p \in Paths : Write(p) \/ Delete(p)
    BY <2>3 DEF Write, Delete, UnchangedSaved, SavedInv
  <2>4. CASE Redeclare
    BY <2>4 DEF Redeclare, UnchangedSaved, SavedInv, tree
  <2> QED
    BY <2>1, <2>2, <2>3, <2>4 DEF Operator
<1> QED
  BY <1>1, <1>2 DEF SavedInv, RemovesOnlySaved

LEMMA SavedStep == TypeOK /\ SavedInv /\ [Next]_vars => SavedInv'
<1> SUFFICES ASSUME TypeOK, SavedInv, [Next]_vars PROVE SavedInv'
  OBVIOUS
<1>1. ASSUME NEW d \in Identities, NEW allowDirty \in BOOLEAN, Plan(d, allowDirty) PROVE SavedInv'
  BY <1>1, PlanSaved
<1>2. CASE RenameRoot
  BY <1>2, MoveSaved
<1>3. ASSUME NEW m \in todo, Unlink(m) PROVE SavedInv'
  BY <1>3, UnlinkSaved
<1>4. CASE Verify \/ Record \/ Stop \/ UNCHANGED vars
  <2>1. /\ UNCHANGED <<work, changed, index, head, staged, unsaved>>
        /\ UNCHANGED <<dest, plan, moved, todo, removed>>
        /\ pc' = pc \/ pc' = "idle" \/ (pc = "remove" /\ pc' = "record")
    BY <1>4 DEF Verify, Record, Stop, vars, tree, run
  <2>2. \A p : BroughtToExcused(p)' <=> BroughtToExcused(p)
    BY <2>1 DEF BroughtToExcused, In, Active, RowMembers
  <2>3. (UnchangedSaved' <=> UnchangedSaved) /\ (PlannedSaved' <=> PlannedSaved)
    BY <2>1 DEF UnchangedSaved, PlannedSaved, Active, RowMembers
  <2> QED
    BY <2>1, <2>2, <2>3 DEF SavedInv, RemovesOnlySaved
<1>5. CASE Operator
  BY <1>5, OperatorSaved
<1> QED
  BY <1>1, <1>2, <1>3, <1>4, <1>5 DEF Next, Press

(***************************************************************************)
(* A press unlinks no file that HEAD has no copy of, at the coordinates    *)
(* the rename left it at, whatever was edited, staged or allowed to be     *)
(* dirty: _directory_status_problems and preflight_remove_targets let no   *)
(* such file into a plan.  What the rename brings to the path of a missing *)
(* member is the one exception (apply_removal_plan).                       *)
(***************************************************************************)
THEOREM RemovalsLoseOnlyExcused == Spec => []RemovesOnlySaved
<1>1. Init => TypeOK /\ SavedInv
  BY InitTyped DEF Init, SavedInv, UnchangedSaved, RemovesOnlySaved
<1>2. TypeOK /\ SavedInv /\ [Next]_vars => (TypeOK /\ SavedInv)'
  BY NextTyped, SavedStep
<1>3. SavedInv => RemovesOnlySaved
  BY DEF SavedInv
<1> QED
  BY <1>1, <1>2, <1>3, PTL DEF Spec

-----------------------------------------------------------------------------
(* What is removed is recorded. *)

(***************************************************************************)
(* From the gates to the last write: the plan is consistent where its      *)
(* files are and where they will be, then where the rename left them.      *)
(***************************************************************************)
WritableInv ==
    /\ pc = "rename" => Consistent(plan) /\ Consistent(Translated(Renames, dest, plan))
    /\ pc \in {"remove", "record"} => Consistent(Final)

(***************************************************************************)
(* A step that leaves the plan and its coordinates alone leaves its        *)
(* consistency alone.                                                      *)
(***************************************************************************)
LEMMA SamePlan ==
    ASSUME UNCHANGED <<name, dest, plan, moved>>
    PROVE  /\ Consistent(plan)' <=> Consistent(plan)
           /\ Consistent(Final)' <=> Consistent(Final)
<1>1. plan' = plan /\ Final' = Final
  BY DEF Final, Translated, CarryRow, CarryMember, Carry
<1> QED
  BY <1>1 DEF Consistent, AllRows, RowMembers, Distinct, FileKey, CurrentKey, In

(***************************************************************************)
(* The gates validate both outcomes of the rename; every later step is     *)
(* over one of them.                                                       *)
(***************************************************************************)
LEMMA WritableStep == TypeOK /\ WritableInv /\ [Next]_vars => WritableInv'
<1> SUFFICES ASSUME TypeOK, WritableInv, [Next]_vars PROVE WritableInv'
  OBVIOUS
<1>1. ASSUME NEW d \in Identities, NEW allowDirty \in BOOLEAN, Plan(d, allowDirty)
      PROVE  WritableInv'
  <2>1. plan' = Frozen /\ dest' = d /\ pc' = "rename" /\ name' = name /\ work' = work
    BY <1>1 DEF Plan, tree
  <2>2. Renames' = Renames
    BY <2>1 DEF Renames, FilesIn, In
  <2>3. Consistent(Frozen) /\ Consistent(Translated(Renames, d, Frozen))
    BY <1>1 DEF Plan, ConsistentThroughout
  <2>4. Translated(Renames, dest, plan)' = Translated(Renames, d, Frozen)
    BY <2>1, <2>2 DEF Translated, CarryRow, CarryMember, Carry
  <2> QED
    BY <2>1, <2>3, <2>4
       DEF WritableInv, Consistent, AllRows, RowMembers, Distinct, FileKey, CurrentKey, In
<1>2. CASE RenameRoot
  <2>1. pc = "rename" /\ pc' = "remove" /\ UNCHANGED <<name, dest, plan>>
    BY <1>2 DEF RenameRoot
  <2>2. Final' = Translated(moved', dest, plan)
    BY <2>1 DEF Final, Translated, CarryRow, CarryMember, Carry
  <2>3. Final' = plan \/ Final' = Translated(Renames, dest, plan)
    <3>1. CASE ~moved'
      BY <2>2, <3>1 DEF Translated
    <3>2. CASE moved'
      <4>1. Renames
        BY <1>2, <3>2 DEF RenameRoot
      <4> QED
        BY <2>2, <3>2, <4>1 DEF Translated
    <3> QED
      BY <3>1, <3>2
  <2> QED
    BY <2>1, <2>3
       DEF WritableInv, Consistent, AllRows, RowMembers, Distinct, FileKey, CurrentKey, In
<1>3. CASE Verify \/ \E m \in todo : Unlink(m)
  BY <1>3, SamePlan DEF Verify, Unlink, WritableInv, run
<1>4. CASE Record \/ Stop
  BY <1>4 DEF Record, Stop, WritableInv
<1>5. CASE Operator
  BY <1>5 DEF Operator, Commit, Stage, Restore, Redeclare, Write, Delete, Edit, WritableInv
<1>6. CASE UNCHANGED vars
  <2>1. Translated(Renames, dest, plan)' = Translated(Renames, dest, plan)
    BY <1>6 DEF vars, run, tree, Translated, CarryRow, CarryMember, Carry, Renames, FilesIn, In
  <2> QED
    BY <1>6, <2>1, SamePlan DEF vars, run, WritableInv, Consistent, AllRows, RowMembers, Distinct, FileKey, CurrentKey, In
<1> QED
  BY <1>1, <1>2, <1>3, <1>4, <1>5, <1>6 DEF Next, Press

(***************************************************************************)
(* The history that passed the gates of main() passes the validation of    *)
(* write_receipt: a press does not fail there, with its removals done.     *)
(***************************************************************************)
THEOREM HistoryAlwaysWritable == Spec => []HistoryWritable
<1>1. Init => TypeOK /\ WritableInv
  BY InitTyped DEF WritableInv, Init
<1>2. TypeOK /\ WritableInv /\ [Next]_vars => (TypeOK /\ WritableInv)'
  BY NextTyped, WritableStep
<1>3. TypeOK /\ WritableInv => HistoryWritable
  BY DEF WritableInv, HistoryWritable
<1> QED
  BY <1>1, <1>2, <1>3, PTL DEF Spec

(***************************************************************************)
(* What one receipt recorded, and what its press removed, the next receipt *)
(* records (removal_receipt_metadata).                                     *)
(***************************************************************************)
THEOREM RecordsAccumulate == Spec => RemovalsStayRecorded
<1>1. [Next]_vars =>
        [receipt' # receipt /\ receipt' # NoReceipt /\ pc = "record" =>
            Legacy \cup {m.file : m \in {n \in Active(Final) : n.current \in removed}}
                \subseteq receipt'.flat]_vars
  <2> SUFFICES ASSUME [Next]_vars, receipt' # receipt, receipt' # NoReceipt, pc = "record"
               PROVE  Legacy \cup {m.file : m \in {n \in Active(Final) : n.current \in removed}}
                          \subseteq receipt'.flat
    OBVIOUS
  <2>1. Record
    BY DEF Next, Press, Plan, RenameRoot, Unlink, Verify, Stop, Operator, Commit, Stage, Restore,
           Redeclare, Write, Delete, Edit, vars
  <2>2. receipt'.flat = Flat(Final)
    BY <2>1 DEF Record
  <2>3. {m.file : m \in {n \in Active(Final) : n.current \in removed}} \subseteq Emitted(Final)
    BY DEF Active, Emitted, RowMembers, AllRows
  <2> QED
    BY <2>2, <2>3 DEF Flat
<1> QED
  BY <1>1, PTL DEF Spec, RemovalsStayRecorded

-----------------------------------------------------------------------------
(* A success can be pressed again. *)

Currents(row) == {m.current : m \in row.members}

(***************************************************************************)
(* A declared directory as a verified press leaves it behind: no file, and *)
(* of what git still knows there, every path is a recorded member.         *)
(***************************************************************************)
Gone(row) ==
    /\ FilesIn(work, row.current) = {}
    /\ row.current # row.dir => FilesIn(work, row.dir) = {}
    /\ FilesIn(index \cup head, row.current) \subseteq Currents(row) \cap (head \ staged)
    /\ Currents(row) \cap work = {}

Rested ==
    /\ receipt # NoReceipt
    /\ \A r, s \in receipt.rows : r.dir = s.dir => r = s
    /\ \A d \in Declared : \E row \in receipt.rows : row.dir = d
    /\ \A row \in receipt.rows : row.dir \in Declared => Gone(row)
    /\ rules.files \cap work = {} /\ rules.files \subseteq receipt.flat

Settled == Rested /\ Consistent(Frozen)

(***************************************************************************)
(* What the gates of a press established about its plan, and what follows  *)
(* from it before and after the rename.                                    *)
(***************************************************************************)
PlanShape ==
    /\ plan.files = {[file |-> p, current |-> p, missingOk |-> p \in Legacy] : p \in rules.files}
    /\ \A r \in plan.rows : r.dir \in Declared
    /\ \A d \in Declared : \E r \in plan.rows : r.dir = d
    /\ \A r \in plan.retained : r.dir \notin Declared
    /\ \A r \in plan.rows : FilesIn(index \cup head, r.current) \subseteq Currents(r) \cap (head \ staged)

FromPrior(r) ==
    /\ prior # NoReceipt
    /\ \E row \in prior.rows : row.dir = r.dir /\ row.current = r.current

BeforeMove == \A r \in plan.rows :
    /\ FilesIn(work, r.current) \subseteq Currents(r)
    /\ r.current # r.dir => FilesIn(work, r.dir) = {}
    /\ r.current # r.dir \/ FilesIn(work, r.current) = {} => FromPrior(r)

AfterMove ==
    /\ moved => FilesIn(work, name) = {}
    /\ \A m \in Active(Final) \ todo : m.current \notin work /\ (m.missingOk \/ m.current \in removed)
    /\ FreeGround => \A r \in Final.rows :
          /\ FilesIn(work, r.current) \subseteq Currents(r)
          /\ r.current # r.dir => FilesIn(work, r.dir) = {}

PressInv ==
    /\ pc # "idle" => PlanShape /\ ~quiet /\ dest # name
    /\ pc = "rename" => BeforeMove
    /\ pc \in {"remove", "record"} => AfterMove
    /\ pc = "record" => todo = {}
    /\ pc = "idle" /\ quiet => Settled

(***************************************************************************)
(* The history of a directory at rest is one row, all of it missing.       *)
(***************************************************************************)
LEMMA OneRow ==
    Rested => \A row \in receipt.rows : row.dir \in Declared =>
        /\ RowsFor(row.dir) = {row}
        /\ CurrentRoot(row.dir) = row.current
        /\ Missing(row.dir) = row.members /\ MissingPaths(row.dir) = Currents(row)
        /\ Present(row.dir) = {}
<1> SUFFICES ASSUME Rested, NEW row \in receipt.rows, row.dir \in Declared
             PROVE  /\ RowsFor(row.dir) = {row}
                    /\ CurrentRoot(row.dir) = row.current
                    /\ Missing(row.dir) = row.members /\ MissingPaths(row.dir) = Currents(row)
                    /\ Present(row.dir) = {}
  OBVIOUS
<1>1. RowsFor(row.dir) = {row}
  BY DEF Rested, RowsFor, PriorRows
<1>2. CurrentRoot(row.dir) = row.current
  <2>1. (CHOOSE r \in {row} : TRUE) = row
    OBVIOUS
  <2> QED
    BY <1>1, <2>1 DEF CurrentRoot
<1>3. Recorded(row.dir) = row.members
  BY <1>1 DEF Recorded
<1>4. Gone(row)
  BY DEF Rested
<1>5. Missing(row.dir) = row.members
  BY <1>3, <1>4 DEF Missing, Gone, Currents
<1>6. MissingPaths(row.dir) = Currents(row)
  BY <1>5 DEF MissingPaths, Currents
<1>7. Present(row.dir) = {}
  BY <1>2, <1>4 DEF Present, Gone, FilesIn
<1> QED
  BY <1>1, <1>2, <1>5, <1>6, <1>7

(***************************************************************************)
(* A press that settled can be pressed again.                              *)
(***************************************************************************)
LEMMA SettledPressable == Settled => DeclarationsHold /\ Consistent(Frozen)
<1> SUFFICES ASSUME Settled PROVE DeclarationsHold
  BY DEF Settled
<1>1. ASSUME NEW d \in Declared PROVE Freezable(d)
  <2>1. PICK row \in receipt.rows : row.dir = d
    BY DEF Settled, Rested
  <2>2. /\ RowsFor(d) = {row} /\ CurrentRoot(d) = row.current
        /\ MissingPaths(d) = Currents(row)
    BY <2>1, OneRow DEF Settled
  <2>3. Gone(row)
    BY <2>1 DEF Settled, Rested
  <2>4. FilesIn(index, row.current) \subseteq Currents(row)
    BY <2>3 DEF Gone, FilesIn
  <2>5. ASSUME NEW p \in FilesIn(work \cup index \cup head, row.current)
        PROVE  Excused(p, Currents(row))
    BY <2>3, <2>5 DEF Gone, FilesIn, Excused
  <2>6. StatusProblems(row.current, Currents(row)) = {}
    BY <2>5 DEF StatusProblems
  <2> QED
    BY <2>1, <2>2, <2>3, <2>4, <2>6 DEF Freezable, Gone
<1>2. ASSUME NEW p \in rules.files PROVE FileRemovable(p)
  BY DEF Settled, Rested, FileRemovable, PriorFlat
<1> QED
  BY <1>1, <1>2 DEF DeclarationsHold

(***************************************************************************)
(* Whatever git or the work tree knows below a directory that can be       *)
(* frozen is committed and a member of its row.                            *)
(***************************************************************************)
LEMMA FrozenCovers ==
    ASSUME TypeOK, NEW d, Freezable(d), NEW p \in FilesIn(work \cup index \cup head, CurrentRoot(d))
    PROVE  p \in Currents(FrozenRow(d)) /\ p \in head \ staged
<1>1. p \notin StatusProblems(CurrentRoot(d), MissingPaths(d))
  BY DEF Freezable
<1>2. CASE p \in work \cap index \cap head /\ p \notin changed \cup staged
  <2>1. p \in Present(d)
    BY <1>2 DEF Present, FilesIn
  <2>2. [file |-> p, current |-> p, missingOk |-> FALSE] \in FrozenMembers(d)
    BY <2>1 DEF FrozenMembers
  <2> QED
    BY <1>2, <2>2 DEF Currents, FrozenRow
<1>3. CASE Excused(p, MissingPaths(d))
  <2>1. PICK m \in Missing(d) : m.current = p
    BY <1>3 DEF Excused, MissingPaths
  <2>2. m \in Members
    BY PriorTyped DEF Missing, Recorded, RowsFor, Rows
  <2>3. [m EXCEPT !.missingOk = TRUE] \in FrozenMembers(d)
    BY <2>1 DEF FrozenMembers
  <2>4. [m EXCEPT !.missingOk = TRUE].current = p
    BY <2>1, <2>2 DEF Members
  <2> QED
    BY <1>3, <2>3, <2>4 DEF Currents, FrozenRow, Excused
<1> QED
  BY <1>1, <1>2, <1>3 DEF StatusProblems

(***************************************************************************)
(* A directory that stands elsewhere, or has no file, is one the receipt   *)
(* knows.                                                                  *)
(***************************************************************************)
LEMMA RootFromPrior ==
    ASSUME TypeOK, NEW d, Freezable(d), CurrentRoot(d) # d \/ FilesIn(work, CurrentRoot(d)) = {}
    PROVE  receipt # NoReceipt /\ \E row \in receipt.rows : row.dir = d /\ row.current = CurrentRoot(d)
<1>1. RowsFor(d) # {}
  BY DEF Freezable, CurrentRoot
<1>2. (CHOOSE row \in RowsFor(d) : TRUE) \in RowsFor(d)
  BY <1>1
<1>3. CurrentRoot(d) = (CHOOSE row \in RowsFor(d) : TRUE).current
  BY <1>1 DEF CurrentRoot
<1>4. receipt # NoReceipt /\ PriorRows = receipt.rows
  BY <1>1 DEF RowsFor, PriorRows
<1>5. PICK row \in RowsFor(d) : row.current = CurrentRoot(d)
  BY <1>2, <1>3
<1>6. row \in receipt.rows /\ row.dir = d
  BY <1>4 DEF RowsFor
<1> QED
  BY <1>4, <1>5, <1>6

(***************************************************************************)
(* The gates establish the shape of the plan.                              *)
(***************************************************************************)
LEMMA PlanPresses ==
    ASSUME TypeOK, NEW d \in Identities, NEW allowDirty \in BOOLEAN, Plan(d, allowDirty)
    PROVE  PressInv'
<1>1. /\ plan' = Frozen /\ prior' = receipt /\ dest' = d /\ d # name /\ pc' = "rename" /\ quiet' = FALSE
      /\ UNCHANGED <<work, changed, index, head, staged, name, rules>> /\ DeclarationsHold
  BY DEF Plan, tree
<1>2. Declared' = Declared /\ Legacy' = PriorFlat
  BY <1>1 DEF Declared, Legacy, PriorFlat
<1>3. plan'.rows = {FrozenRow(e) : e \in Declared}
  BY <1>1 DEF Frozen
<1>4. ASSUME NEW e \in Declared PROVE Freezable(e) /\ FrozenRow(e).dir = e /\ FrozenRow(e).current = CurrentRoot(e)
  BY <1>1, <1>4 DEF DeclarationsHold, FrozenRow
<1>5. PlanShape'
  <2>1. plan'.files = {[file |-> p, current |-> p, missingOk |-> p \in PriorFlat] : p \in rules.files}
    BY <1>1 DEF Frozen, FileMembers
  <2>2. \A r \in plan'.rows : r.dir \in Declared
    BY <1>3, <1>4
  <2>3. \A e \in Declared : \E r \in plan'.rows : r.dir = e
    BY <1>3, <1>4
  <2>4. \A r \in plan'.retained : r.dir \notin Declared
    BY <1>1 DEF Frozen
  <2>5. ASSUME NEW e \in Declared
        PROVE  FilesIn(index \cup head, CurrentRoot(e)) \subseteq Currents(FrozenRow(e)) \cap (head \ staged)
    BY <1>4, FrozenCovers DEF FilesIn
  <2>6. ASSUME NEW r \in plan'.rows
        PROVE  FilesIn(index \cup head, r.current) \subseteq Currents(r) \cap (head \ staged)
    <3>1. PICK e \in Declared : r = FrozenRow(e)
      BY <1>3
    <3>2. r.current = CurrentRoot(e)
      BY <3>1, <1>4
    <3> QED
      BY <3>1, <3>2, <2>5
  <2> QED
    BY <1>1, <1>2, <2>1, <2>2, <2>3, <2>4, <2>6 DEF PlanShape, FilesIn, In, Currents
<1>6. BeforeMove'
  <2>1. ASSUME NEW e \in Declared
        PROVE  /\ FilesIn(work, CurrentRoot(e)) \subseteq Currents(FrozenRow(e))
               /\ CurrentRoot(e) # e => FilesIn(work, e) = {}
               /\ CurrentRoot(e) # e \/ FilesIn(work, CurrentRoot(e)) = {} =>
                      receipt # NoReceipt /\ \E row \in receipt.rows : row.dir = e /\ row.current = CurrentRoot(e)
    <3>1. FilesIn(work, CurrentRoot(e)) \subseteq Currents(FrozenRow(e))
      BY <1>4, FrozenCovers DEF FilesIn
    <3>2. CurrentRoot(e) # e => FilesIn(work, e) = {}
      BY <1>4 DEF Freezable
    <3> QED
      BY <1>4, <3>1, <3>2, RootFromPrior
  <2> QED
    BY <1>1, <1>3, <1>4, <2>1 DEF BeforeMove, FromPrior, FilesIn, In, Currents
<1> QED
  BY <1>1, <1>5, <1>6 DEF PressInv

(***************************************************************************)
(* A row after the rename.                                                 *)
(***************************************************************************)
LEMMA CarriedRow ==
    ASSUME TypeOK, NEW d \in Roots, NEW r \in Rows
    PROVE  /\ CarryRow(d, r).dir = r.dir
           /\ CarryRow(d, r).current = IF r.current = name THEN d ELSE r.current
           /\ Currents(CarryRow(d, r)) = {Carry(d, p) : p \in Currents(r)}
<1>1. r.members \subseteq Members
  BY DEF Rows
<1>2. \A m \in r.members : CarryMember(d, m).current = Carry(d, m.current)
  BY <1>1 DEF CarryMember, Members
<1>3. /\ CarryRow(d, r).members = {CarryMember(d, m) : m \in r.members}
      /\ CarryRow(d, r).dir = r.dir
      /\ CarryRow(d, r).current = IF r.current = name THEN d ELSE r.current
  BY DEF CarryRow, Rows
<1>4. Currents(CarryRow(d, r)) = {CarryMember(d, m).current : m \in r.members}
  BY <1>3 DEF Currents
<1>5. {Carry(d, p) : p \in Currents(r)} = {Carry(d, m.current) : m \in r.members}
  BY DEF Currents
<1> QED
  BY <1>2, <1>3, <1>4, <1>5

LEMMA CarriedRoot ==
    ASSUME TypeOK, NEW d \in Roots, NEW p \in Paths
    PROVE  /\ p[1] = name => Carry(d, p)[1] = d
           /\ p[1] # name => Carry(d, p) = p
BY DEF Carry, In, Paths

(***************************************************************************)
(* A directory of the plan, moved, still has only members of its row: what *)
(* the rename brought to its destination was there before under the old    *)
(* name, unless the destination was known to Git or to the history.        *)
(***************************************************************************)
LEMMA MovedRow ==
    ASSUME TypeOK, PressInv, RenameRoot, moved', FreeGround', NEW r0 \in plan.rows,
           NEW r, r = CarryRow(dest, r0)
    PROVE  /\ FilesIn(work', r.current) \subseteq Currents(r)
           /\ r.current # r.dir => FilesIn(work', r.dir) = {}
<1>1. /\ pc = "rename" /\ dest # name /\ BeforeMove /\ dest \in Roots /\ r0 \in Rows
      /\ FilesIn(work, dest) = {} /\ work' = {Carry(dest, p) : p \in work} /\ work \subseteq Paths
  BY RemovalsAssumption DEF RenameRoot, PressInv, TypeOK, AllRows
<1>2. /\ r.dir = r0.dir /\ r.current = (IF r0.current = name THEN dest ELSE r0.current)
      /\ Currents(r) = {Carry(dest, p) : p \in Currents(r0)}
  BY <1>1, CarriedRow
<1>3. /\ FilesIn(work, r0.current) \subseteq Currents(r0)
      /\ r0.current # r0.dir => FilesIn(work, r0.dir) = {}
      /\ r0.current # r0.dir \/ FilesIn(work, r0.current) = {} => FromPrior(r0)
  BY <1>1 DEF BeforeMove
<1>4. FromPrior(r0) => dest \notin {r0.dir, r0.current}
  BY DEF FreeGround, FromPrior, RenameRoot
<1>5. r0.current # dest
  BY <1>1, <1>3, <1>4
<1>6. ASSUME NEW q \in work'
      PROVE  \E p \in work : /\ q = Carry(dest, p) /\ p[1] # dest
                             /\ p[1] = name => q[1] = dest
                             /\ p[1] # name => q = p
  <2>1. PICK p \in work : q = Carry(dest, p)
    BY <1>1
  <2>2. p[1] # dest
    BY <1>1 DEF FilesIn, In
  <2> QED
    BY <1>1, <2>1, <2>2, CarriedRoot
<1>7. ASSUME NEW q \in FilesIn(work', r.current) PROVE q \in Currents(r)
  <2>1. q \in work' /\ q[1] = r.current
    BY <1>7 DEF FilesIn, In
  <2>2. PICK p \in work : /\ q = Carry(dest, p) /\ p[1] # dest
                          /\ p[1] = name => q[1] = dest
                          /\ p[1] # name => q = p
    BY <1>6, <2>1
  <2>3. p[1] = r0.current
    BY <1>1, <1>2, <1>5, <2>1, <2>2
  <2>4. p \in Currents(r0)
    BY <1>3, <2>3 DEF FilesIn, In
  <2> QED
    BY <1>2, <2>2, <2>4
<1>8. ASSUME r.current # r.dir, NEW q \in FilesIn(work', r.dir) PROVE FALSE
  <2>1. q \in work' /\ q[1] = r0.dir
    BY <1>2, <1>8 DEF FilesIn, In
  <2>2. PICK p \in work : /\ q = Carry(dest, p) /\ p[1] # dest
                          /\ p[1] = name => q[1] = dest
                          /\ p[1] # name => q = p
    BY <1>6, <2>1
  <2>3. CASE r0.current = name
    <3>1. r0.dir # dest
      BY <1>2, <1>8, <2>3
    <3>2. p[1] = r0.dir /\ p[1] # name
      BY <2>1, <2>2, <3>1
    <3> QED
      BY <1>3, <2>3, <3>2 DEF FilesIn, In
  <2>4. CASE r0.current # name
    <3>1. r0.current # r0.dir
      BY <1>2, <1>8, <2>4
    <3>2. r0.dir # dest
      BY <1>3, <1>4, <3>1
    <3>3. p[1] = r0.dir
      BY <2>1, <2>2, <3>2
    <3> QED
      BY <1>3, <3>1, <3>3 DEF FilesIn, In
  <2> QED
    BY <2>3, <2>4
<1> QED
  BY <1>7, <1>8

(***************************************************************************)
(* The rename keeps the shape of the plan and establishes where things     *)
(* are.                                                                    *)
(***************************************************************************)
LEMMA MovePresses == ASSUME TypeOK, PressInv, RenameRoot PROVE PressInv'
<1>1. /\ pc = "rename" /\ pc' = "remove" /\ dest # name /\ dest \in Roots /\ work \subseteq Paths
      /\ UNCHANGED <<index, head, staged, name, rules, receipt, quiet, dest, plan, prior, removed>>
      /\ moved' = (Renames /\ FilesIn(work, dest) = {}) /\ plan.rows \subseteq Rows
  BY RemovalsAssumption DEF RenameRoot, PressInv, TypeOK, AllRows
<1>2. Final' = Translated(moved', dest, plan) /\ todo' = Active(Final')
  <2>1. Final' = Translated(moved', dest, plan)
    BY <1>1 DEF Final, Translated, CarryRow, CarryMember, Carry
  <2>2. todo' = Active(Translated(moved', dest, plan))
    BY DEF RenameRoot
  <2> QED
    BY <2>1, <2>2
<1>3. PlanShape' /\ ~quiet' /\ dest' # name'
  BY <1>1 DEF PressInv, PlanShape, Declared, Legacy, FilesIn, In, Currents
<1>4. moved' => FilesIn(work', name) = {}
  <2> SUFFICES ASSUME moved', NEW q \in FilesIn(work', name) PROVE FALSE
    OBVIOUS
  <2>1. q[1] = name /\ \E p \in work : q = Carry(dest, p)
    BY DEF RenameRoot, FilesIn, In
  <2>2. PICK p \in work : q = Carry(dest, p)
    BY <2>1
  <2> QED
    BY <1>1, <2>1, <2>2, CarriedRoot
<1>5. ASSUME FreeGround', NEW r \in (Final').rows
      PROVE  /\ FilesIn(work', r.current) \subseteq Currents(r)
             /\ r.current # r.dir => FilesIn(work', r.dir) = {}
  <2>1. CASE ~moved'
    <3>1. r \in plan.rows /\ work' = work
      BY <1>2, <1>5, <2>1 DEF RenameRoot, Translated
    <3> QED
      BY <1>1, <3>1 DEF PressInv, BeforeMove
  <2>2. CASE moved'
    <3>1. PICK r0 \in plan.rows : r = CarryRow(dest, r0)
      BY <1>2, <1>5, <2>2 DEF Translated
    <3> QED
      BY <1>5, <2>2, <3>1, MovedRow
  <2> QED
    BY <2>1, <2>2
<1>6. AfterMove'
  BY <1>1, <1>2, <1>4, <1>5 DEF AfterMove, Active, RowMembers, FilesIn, In, Currents
<1> QED
  BY <1>1, <1>3, <1>6 DEF PressInv

(***************************************************************************)
(* What is removed is gone and stays gone; the verification adds nothing.  *)
(***************************************************************************)
LEMMA UnlinkPresses == ASSUME TypeOK, PressInv, NEW m \in todo, Unlink(m) PROVE PressInv'
<1>1. /\ pc = "remove"
      /\ UNCHANGED <<index, head, staged, name, rules, receipt, quiet, dest, plan, prior, moved>>
  BY DEF Unlink
<1>2. CASE ~(m.current \in work \/ m.missingOk)
  BY <1>1, <1>2 DEF Unlink, PressInv
<1>3. CASE m.current \in work \/ m.missingOk
  <2>1. /\ pc' = "remove" /\ todo' = todo \ {m} /\ work' = work \ {m.current}
        /\ removed' = removed \cup ({m.current} \cap work)
    BY <1>1, <1>3 DEF Unlink
  <2>2. Final' = Final
    BY <1>1 DEF Final, Translated, CarryRow, CarryMember, Carry
  <2>3. PlanShape' /\ ~quiet' /\ dest' # name'
    BY <1>1 DEF PressInv, PlanShape, Declared, Legacy, FilesIn, In, Currents
  <2>4. FreeGround' <=> FreeGround
    BY <1>1 DEF FreeGround, FilesIn, In
  <2>5. \A n \in Active(Final) \ todo' : n.current \notin work' /\ (n.missingOk \/ n.current \in removed')
    BY <1>1, <1>3, <2>1 DEF PressInv, AfterMove
  <2>6. moved' => FilesIn(work', name) = {}
    BY <1>1, <2>1 DEF PressInv, AfterMove, FilesIn
  <2>7. FreeGround => \A r \in Final.rows :
          /\ FilesIn(work', r.current) \subseteq Currents(r)
          /\ r.current # r.dir => FilesIn(work', r.dir) = {}
    <3>1. ASSUME NEW x PROVE FilesIn(work', x) \subseteq FilesIn(work, x)
      BY <2>1 DEF FilesIn
    <3> QED
      BY <1>1, <3>1 DEF PressInv, AfterMove
  <2>8. AfterMove'
    BY <1>1, <2>2, <2>4, <2>5, <2>6, <2>7 DEF AfterMove, Active, RowMembers, FilesIn, In, Currents
  <2> QED
    BY <2>1, <2>3, <2>8 DEF PressInv
<1> QED
  BY <1>2, <1>3

LEMMA VerifyPresses == ASSUME TypeOK, PressInv, Verify PROVE PressInv'
<1>1. /\ pc = "remove" /\ pc' \in {"record", "idle"} /\ todo = {} /\ todo' = todo
      /\ UNCHANGED <<work, changed, index, head, staged, name, rules, receipt, quiet, dest, plan, prior, moved, removed>>
  BY DEF Verify, tree, run
<1>2. PlanShape' /\ ~quiet' /\ dest' # name'
  BY <1>1 DEF PressInv, PlanShape, Declared, Legacy, FilesIn, In, Currents
<1>3. Final' = Final /\ (FreeGround' <=> FreeGround)
  BY <1>1 DEF Final, Translated, CarryRow, CarryMember, Carry, FreeGround, FilesIn, In
<1>4. AfterMove
  BY <1>1 DEF PressInv
<1>5. AfterMove'
  BY <1>1, <1>3, <1>4 DEF AfterMove, Active, RowMembers, FilesIn, In, Currents
<1> QED
  BY <1>1, <1>2, <1>5 DEF PressInv

(***************************************************************************)
(* The plan of the next press over a history of which nothing is left.     *)
(***************************************************************************)
Excuse(m) == [m EXCEPT !.missingOk = TRUE]
Sealed(row) == [row EXCEPT !.members = {Excuse(m) : m \in row.members}]
Reissued(pl, files) ==
    [files |-> {[file |-> p, current |-> p, missingOk |-> TRUE] : p \in files},
     rows |-> {Sealed(row) : row \in pl.rows},
     retained |-> pl.retained]

(***************************************************************************)
(* A row as it is once all its members are gone.                           *)
(***************************************************************************)
LEMMA SealedRow ==
    ASSUME NEW row \in Rows
    PROVE  /\ Sealed(row).dir = row.dir /\ Sealed(row).current = row.current
           /\ Sealed(row).members = {Excuse(m) : m \in row.members}
           /\ \A m \in row.members : Excuse(m).file = m.file /\ Excuse(m).current = m.current
BY DEF Sealed, Excuse, Rows, Members

(***************************************************************************)
(* The plan the next press makes of the history is consistent as the last  *)
(* one was: it has the same rows, and each declared file at its own path   *)
(* again.                                                                  *)
(***************************************************************************)
LEMMA ReissuedConsistent ==
    ASSUME NEW pl, PlanTyped(pl), Consistent(pl), NEW files,
           \A p \in files : \E m \in pl.files :
               m.file = p /\ (m.current = p \/ \A r \in AllRows(pl) : ~In(p, r.current)),
           pl.rows \cap pl.retained = {}
    PROVE  Consistent(Reissued(pl, files))
<1> DEFINE next == Reissued(pl, files)
<1>1. /\ next.files = {[file |-> p, current |-> p, missingOk |-> TRUE] : p \in files}
      /\ next.rows = {Sealed(row) : row \in pl.rows} /\ next.retained = pl.retained
  BY DEF Reissued
<1> HIDE DEF next
<1>2. SUFFICES ASSUME AllRows(next) # {} PROVE Consistent(next)
  BY DEF Consistent, next
<1>3. AllRows(pl) # {} /\ AllRows(pl) \subseteq Rows
  BY <1>1, <1>2 DEF AllRows, PlanTyped
<1>4. /\ \A m, n \in pl.files \cup RowMembers(AllRows(pl)) :
            m # n => m.file # n.file /\ m.current # n.current
      /\ pl.files \cap RowMembers(AllRows(pl)) = {}
      /\ \A r, s \in AllRows(pl) : r # s => {r.dir, r.current} \cap {s.dir, s.current} = {}
      /\ \A r \in AllRows(pl) : \A m \in r.members : m.current[1] = r.current
      /\ \A r \in pl.rows, m \in pl.files : m.current[1] # r.current
  BY <1>3 DEF Consistent, Distinct, FileKey, CurrentKey, In
<1>5. ASSUME NEW row \in AllRows(next)
      PROVE  \E r \in AllRows(pl) : /\ row.dir = r.dir /\ row.current = r.current
                                    /\ \/ r \in pl.rows /\ row = Sealed(r)
                                       \/ r \in pl.retained /\ row = r
  <2>1. CASE row \in next.rows
    <3>1. PICK r \in pl.rows : row = Sealed(r)
      BY <1>1, <2>1
    <3> QED
      BY <1>3, <3>1, SealedRow DEF AllRows
  <2>2. CASE row \in next.retained
    BY <1>1, <2>2 DEF AllRows
  <2> QED
    BY <2>1, <2>2 DEF AllRows
<1>6. ASSUME NEW x \in RowMembers(AllRows(next))
      PROVE  \E r \in AllRows(pl) : \E y \in r.members :
                /\ x.file = y.file /\ x.current = y.current
                /\ \/ r \in pl.rows /\ x = Excuse(y)
                   \/ r \in pl.retained /\ x = y
  <2>1. PICK row \in AllRows(next) : x \in row.members
    BY DEF RowMembers
  <2>2. PICK r \in AllRows(pl) : \/ r \in pl.rows /\ row = Sealed(r)
                                 \/ r \in pl.retained /\ row = r
    BY <1>5
  <2>3. CASE r \in pl.rows /\ row = Sealed(r)
    BY <1>3, <2>1, <2>3, SealedRow
  <2>4. CASE r \in pl.retained /\ row = r
    BY <2>1, <2>4
  <2> QED
    BY <2>2, <2>3, <2>4
<1>7. ASSUME NEW x \in next.files
      PROVE  \E y \in pl.files :
                /\ x = [file |-> y.file, current |-> y.file, missingOk |-> TRUE]
                /\ y.current = x.file \/ \A r \in AllRows(pl) : x.file[1] # r.current
  BY <1>1 DEF In
<1>8. \A r \in AllRows(pl) : r.members \subseteq RowMembers(AllRows(pl))
  BY DEF RowMembers
<1>9. ASSUME NEW x \in next.files, NEW z \in RowMembers(AllRows(next))
      PROVE  x.file # z.file /\ x.current # z.current
  <2>1. PICK y \in pl.files :
            /\ x = [file |-> y.file, current |-> y.file, missingOk |-> TRUE]
            /\ y.current = x.file \/ \A r \in AllRows(pl) : x.file[1] # r.current
    BY <1>7
  <2>2. PICK r \in AllRows(pl) : \E w \in r.members : z.file = w.file /\ z.current = w.current
    BY <1>6
  <2>3. PICK w \in r.members : z.file = w.file /\ z.current = w.current
    BY <2>2
  <2>4. y.file # w.file /\ y.current # w.current
    BY <1>4, <1>8
  <2>5. w.current[1] = r.current
    BY <1>4
  <2> QED
    BY <2>1, <2>3, <2>4, <2>5
<1>10. ASSUME NEW x \in RowMembers(AllRows(next)), NEW z \in RowMembers(AllRows(next)), x # z
       PROVE  x.file # z.file /\ x.current # z.current
  <2>1. PICK r \in AllRows(pl) : \E y \in r.members :
            /\ x.file = y.file /\ x.current = y.current
            /\ (r \in pl.rows /\ x = Excuse(y)) \/ (r \in pl.retained /\ x = y)
    BY <1>6
  <2>2. PICK y \in r.members :
            /\ x.file = y.file /\ x.current = y.current
            /\ (r \in pl.rows /\ x = Excuse(y)) \/ (r \in pl.retained /\ x = y)
    BY <2>1
  <2>3. PICK s \in AllRows(pl) : \E w \in s.members :
            /\ z.file = w.file /\ z.current = w.current
            /\ (s \in pl.rows /\ z = Excuse(w)) \/ (s \in pl.retained /\ z = w)
    BY <1>6
  <2>4. PICK w \in s.members :
            /\ z.file = w.file /\ z.current = w.current
            /\ (s \in pl.rows /\ z = Excuse(w)) \/ (s \in pl.retained /\ z = w)
    BY <2>3
  <2>5. CASE y # w
    BY <1>4, <1>8, <2>2, <2>4, <2>5
  <2>6. CASE y = w
    <3>1. r.current = s.current
      BY <1>4, <2>6
    <3>2. r = s
      BY <1>4, <3>1
    <3>3. r \notin pl.rows \/ r \notin pl.retained
      OBVIOUS
    <3>4. x = z
      <4>1. CASE r \in pl.rows
        <5>1. r \notin pl.retained /\ s \notin pl.retained
          BY <3>2, <3>3, <4>1
        <5>2. x = Excuse(y)
          BY <2>2, <5>1
        <5>3. z = Excuse(w)
          BY <2>4, <5>1
        <5> QED
          BY <2>6, <5>2, <5>3, Zenon
      <4>2. CASE r \notin pl.rows
        BY <2>2, <2>4, <2>6, <3>2, <4>2
      <4> QED
        BY <4>1, <4>2
    <3> QED
      BY <1>10, <3>4
  <2> QED
    BY <2>5, <2>6
<1>11. ASSUME NEW x \in next.files, NEW z \in next.files, x # z
       PROVE  x.file # z.file /\ x.current # z.current
  <2>1. PICK p \in files : x = [file |-> p, current |-> p, missingOk |-> TRUE]
    BY <1>1
  <2>2. PICK q \in files : z = [file |-> q, current |-> q, missingOk |-> TRUE]
    BY <1>1
  <2>3. p # q
    BY <1>11, <2>1, <2>2
  <2> QED
    BY <2>1, <2>2, <2>3
<1>12. \A x, z \in next.files \cup RowMembers(AllRows(next)) :
          x # z => x.file # z.file /\ x.current # z.current
  BY <1>9, <1>10, <1>11
<1>13. next.files \cap RowMembers(AllRows(next)) = {}
  BY <1>9
<1>14. ASSUME NEW row \in AllRows(next), NEW other \in AllRows(next), row # other
       PROVE  {row.dir, row.current} \cap {other.dir, other.current} = {}
  <2>1. PICK r \in AllRows(pl) : /\ row.dir = r.dir /\ row.current = r.current
                                 /\ (r \in pl.rows /\ row = Sealed(r)) \/ (r \in pl.retained /\ row = r)
    BY <1>5
  <2>2. PICK s \in AllRows(pl) : /\ other.dir = s.dir /\ other.current = s.current
                                 /\ (s \in pl.rows /\ other = Sealed(s)) \/ (s \in pl.retained /\ other = s)
    BY <1>5
  <2>3. r # s
    BY <1>14, <2>1, <2>2
  <2> QED
    BY <1>4, <2>1, <2>2, <2>3
<1>15. ASSUME NEW row \in AllRows(next), NEW x \in row.members PROVE x.current[1] = row.current
  <2>1. PICK r \in AllRows(pl) : /\ row.current = r.current
                                 /\ (r \in pl.rows /\ row = Sealed(r)) \/ (r \in pl.retained /\ row = r)
    BY <1>5
  <2>2. \E y \in r.members : x.current = y.current
    BY <1>3, <2>1, SealedRow
  <2> QED
    BY <1>4, <2>1, <2>2
<1>16. ASSUME NEW row \in next.rows, NEW x \in next.files PROVE x.current[1] # row.current
  <2>1. PICK r \in pl.rows : row = Sealed(r)
    BY <1>1
  <2>2. r \in AllRows(pl) /\ row.current = r.current
    BY <1>3, <2>1, SealedRow DEF AllRows
  <2>3. PICK y \in pl.files :
            /\ x = [file |-> y.file, current |-> y.file, missingOk |-> TRUE]
            /\ y.current = x.file \/ \A s \in AllRows(pl) : x.file[1] # s.current
    BY <1>7
  <2> QED
    BY <1>4, <2>2, <2>3
<1> QED
  BY <1>12, <1>13, <1>14, <1>15, <1>16 DEF Consistent, Distinct, FileKey, CurrentKey, In

(***************************************************************************)
(* What is left of the plan's shape in the rows that are written.          *)
(***************************************************************************)
LEMMA FinalShape ==
    ASSUME TypeOK, PlanShape
    PROVE  /\ \A r \in Final.rows : r.dir \in Declared
                 /\ \E r0 \in plan.rows : r = IF moved THEN CarryRow(dest, r0) ELSE r0
           /\ \A d \in Declared : \E r \in Final.rows : r.dir = d
           /\ \A r \in Final.retained : r.dir \notin Declared
           /\ \A p \in rules.files : \E m \in Final.files :
                 /\ m.file = p /\ m.current = (IF moved THEN Carry(dest, p) ELSE p)
                 /\ m.missingOk => p \in Legacy
<1>1. plan.rows \subseteq Rows /\ plan.retained \subseteq Rows /\ plan.files \subseteq Members
  BY DEF TypeOK, AllRows
<1>2. dest \in Roots
  BY RemovalsAssumption DEF TypeOK
<1>3. \A r \in plan.rows \cup plan.retained : CarryRow(dest, r).dir = r.dir
  BY <1>1, <1>2, CarriedRow
<1>4. ASSUME NEW p \in rules.files
      PROVE  \E m \in plan.files : m.file = p /\ m.current = p /\ (m.missingOk => p \in Legacy)
  <2>1. [file |-> p, current |-> p, missingOk |-> p \in Legacy] \in plan.files
    BY DEF PlanShape
  <2> QED
    BY <2>1
<1>5. \A m \in plan.files : /\ CarryMember(dest, m).file = m.file
                            /\ CarryMember(dest, m).current = Carry(dest, m.current)
                            /\ CarryMember(dest, m).missingOk = m.missingOk
  BY <1>1 DEF CarryMember, Members
<1>6. CASE ~moved
  <2>1. Final = plan
    BY <1>6 DEF Final, Translated
  <2> QED
    BY <1>4, <1>6, <2>1 DEF PlanShape
<1>7. CASE moved
  <2>1. /\ Final.files = {CarryMember(dest, m) : m \in plan.files}
        /\ Final.rows = {CarryRow(dest, row) : row \in plan.rows}
        /\ Final.retained = {CarryRow(dest, row) : row \in plan.retained}
    BY <1>7 DEF Final, Translated
  <2>2. \A r \in Final.rows : r.dir \in Declared /\ \E r0 \in plan.rows : r = CarryRow(dest, r0)
    BY <1>3, <2>1 DEF PlanShape
  <2>3. \A d \in Declared : \E r \in Final.rows : r.dir = d
    BY <1>3, <2>1 DEF PlanShape
  <2>4. \A r \in Final.retained : r.dir \notin Declared
    BY <1>3, <2>1 DEF PlanShape
  <2>5. ASSUME NEW p \in rules.files
        PROVE  \E m \in Final.files : /\ m.file = p /\ m.current = Carry(dest, p)
                                      /\ m.missingOk => p \in Legacy
    BY <1>4, <1>5, <2>1
  <2> QED
    BY <1>7, <2>2, <2>3, <2>4, <2>5
<1> QED
  BY <1>6, <1>7

(***************************************************************************)
(* What Git knows at the place of a row is what the row recorded.          *)
(***************************************************************************)
LEMMA RecordedRow ==
    ASSUME TypeOK, PlanShape, FreeGround, dest # name, NEW r \in Final.rows
    PROVE  FilesIn(index \cup head, r.current) \subseteq Currents(r) \cap (head \ staged)
<1>1. PICK r0 \in plan.rows : r = IF moved THEN CarryRow(dest, r0) ELSE r0
  BY FinalShape
<1>2. FilesIn(index \cup head, r0.current) \subseteq Currents(r0) \cap (head \ staged)
  BY DEF PlanShape
<1>3. r0 \in Rows /\ dest \in Roots /\ index \cup head \subseteq Paths
  BY RemovalsAssumption DEF TypeOK, AllRows
<1>4. CASE ~moved
  BY <1>1, <1>2, <1>4
<1>5. CASE moved
  <2>1. /\ r.current = (IF r0.current = name THEN dest ELSE r0.current)
        /\ Currents(r) = {Carry(dest, p) : p \in Currents(r0)}
    BY <1>1, <1>3, <1>5, CarriedRow
  <2>2. CASE r.current = dest
    BY <1>5, <2>2 DEF FreeGround
  <2>3. CASE r.current # dest
    <3>1. r.current = r0.current /\ r0.current # name
      BY <2>1, <2>3
    <3> SUFFICES ASSUME NEW q \in FilesIn(index \cup head, r0.current)
                 PROVE  q \in Currents(r) /\ q \in head \ staged
      BY <3>1
    <3>2. q \in Paths /\ q[1] = r0.current
      BY <1>3 DEF FilesIn, In
    <3>3. Carry(dest, q) = q
      BY <1>3, <3>1, <3>2, CarriedRoot
    <3> QED
      BY <1>2, <2>1, <3>3
  <2> QED
    BY <2>2, <2>3
<1> QED
  BY <1>4, <1>5

(***************************************************************************)
(* No declared file is left, and each of them is on record.                *)
(***************************************************************************)
LEMMA RecordedFiles ==
    ASSUME TypeOK, PlanShape, AfterMove, todo = {}, dest # name
    PROVE  rules.files \cap work = {} /\ rules.files \subseteq Flat(Final)
<1> SUFFICES ASSUME NEW p \in rules.files PROVE p \notin work /\ p \in Flat(Final)
  OBVIOUS
<1>1. PICK m \in Final.files : /\ m.file = p /\ m.current = (IF moved THEN Carry(dest, p) ELSE p)
                               /\ m.missingOk => p \in Legacy
  BY FinalShape
<1>2. m.current \notin work /\ (m.missingOk \/ m.current \in removed)
  BY DEF AfterMove, Active
<1>3. p \in Paths /\ dest \in Roots
  BY RemovalsAssumption DEF TypeOK
<1>4. p \notin work
  <2>1. CASE moved /\ p[1] = name
    BY <2>1 DEF AfterMove, FilesIn, In
  <2>2. CASE ~moved \/ p[1] # name
    <3>1. m.current = p
      BY <1>1, <1>3, <2>2, CarriedRoot
    <3> QED
      BY <1>2, <3>1
  <2> QED
    BY <2>1, <2>2
<1>5. p \in Flat(Final)
  BY <1>1, <1>2 DEF Flat, Emitted
<1> QED
  BY <1>4, <1>5

(***************************************************************************)
(* The receipt and the tree a press ends with are at rest, and what the    *)
(* next press freezes is what this one recorded.                           *)
(***************************************************************************)
LEMMA RecordRests ==
    ASSUME TypeOK, PressInv, Record, Consistent(Final), FreeGround
    PROVE  Rested' /\ Frozen' = Reissued(Final, rules.files)
<1>1. /\ pc = "record" /\ todo = {} /\ PlanShape /\ AfterMove /\ dest # name
      /\ receipt' = [flat |-> Flat(Final), rows |-> AllRows(Final)]
      /\ UNCHANGED <<work, changed, index, head, staged, rules>>
  BY DEF Record, PressInv, RowsRecorded, tree
<1>2. PlanTyped(Final)
  BY PlanOfTyped, TranslatedTyped, RemovalsAssumption DEF Final, TypeOK
<1>3. /\ receipt' # NoReceipt /\ Declared' = Declared
      /\ (receipt').rows = AllRows(Final) /\ (receipt').flat = Flat(Final)
  <2>1. Flat(Final) \subseteq Paths /\ AllRows(Final) \subseteq Rows
    BY <1>2, EmittedTyped
  <2>2. receipt' \in Receipts
    BY <1>1, <2>1 DEF Receipts
  <2> QED
    BY <1>1, <2>2, NoReceiptAssumption DEF Declared
<1>4. ASSUME NEW r \in AllRows(Final), NEW s \in AllRows(Final), r.dir = s.dir PROVE r = s
  BY <1>4 DEF Consistent
<1>5. \A r \in AllRows(Final) : r.dir \in Declared => r \in Final.rows
  BY <1>1, FinalShape DEF AllRows
<1>6. ASSUME NEW r \in Final.rows PROVE Gone(r)
  <2>1. Currents(r) \cap work = {}
    BY <1>1 DEF AfterMove, Active, RowMembers, Currents
  <2>2. FilesIn(work, r.current) = {}
    BY <1>1, <2>1 DEF AfterMove, FilesIn
  <2>3. r.current # r.dir => FilesIn(work, r.dir) = {}
    BY <1>1 DEF AfterMove
  <2>4. FilesIn(index \cup head, r.current) \subseteq Currents(r) \cap (head \ staged)
    BY <1>1, RecordedRow
  <2> QED
    BY <2>1, <2>2, <2>3, <2>4 DEF Gone
<1>7. rules.files \cap work = {} /\ rules.files \subseteq Flat(Final)
  BY <1>1, RecordedFiles
<1>8. Rested'
  <2>1. \A d \in Declared : \E r \in AllRows(Final) : r.dir = d
    BY <1>1, FinalShape DEF AllRows
  <2>2. \A r \in AllRows(Final) : r.dir \in Declared => Gone(r)
    BY <1>5, <1>6
  <2> QED
    BY <1>1, <1>3, <1>4, <1>7, <2>1, <2>2 DEF Rested, Gone, FilesIn, In, Currents
<1>9. Frozen' = Reissued(Final, rules.files)
  <2>1. FileMembers' = {[file |-> p, current |-> p, missingOk |-> TRUE] : p \in rules.files}
    <3>1. PriorFlat' = Flat(Final)
      BY <1>3 DEF PriorFlat
    <3>2. FileMembers' = {[file |-> p, current |-> p, missingOk |-> p \in Flat(Final)] : p \in rules.files}
      BY <1>1, <3>1 DEF FileMembers
    <3>3. \A p \in rules.files : (p \in Flat(Final)) = TRUE
      BY <1>7
    <3> QED
      BY <3>2, <3>3
  <2>2. ASSUME NEW r \in Final.rows PROVE FrozenRow(r.dir)' = Sealed(r)
    <3>1. r \in AllRows(Final) /\ r.dir \in Declared /\ r \in Rows
      BY <1>1, <1>2, FinalShape DEF AllRows, PlanTyped
    <3>2. (\A row \in receipt.rows : row.dir \in Declared =>
              /\ RowsFor(row.dir) = {row}
              /\ CurrentRoot(row.dir) = row.current
              /\ Missing(row.dir) = row.members /\ MissingPaths(row.dir) = Currents(row)
              /\ Present(row.dir) = {})'
      BY <1>8, OneRow, PTL
    <3>3. CurrentRoot(r.dir)' = r.current /\ Missing(r.dir)' = r.members /\ Present(r.dir)' = {}
      BY <1>3, <3>1, <3>2
    <3>4. FrozenMembers(r.dir)' = {Excuse(m) : m \in r.members}
      BY <3>3 DEF FrozenMembers, Excuse
    <3>5. FrozenRow(r.dir)' = [dir |-> r.dir, current |-> r.current, members |-> {Excuse(m) : m \in r.members}]
      BY <3>3, <3>4 DEF FrozenRow
    <3>6. Sealed(r) = [dir |-> r.dir, current |-> r.current, members |-> {Excuse(m) : m \in r.members}]
      BY <3>1 DEF Sealed, Rows
    <3> QED
      BY <3>5, <3>6
  <2>3. {FrozenRow(d) : d \in Declared}' = {Sealed(r) : r \in Final.rows}
    <3>1. \A d \in Declared : \E r \in Final.rows : r.dir = d
      BY <1>1, FinalShape
    <3>2. \A r \in Final.rows : r.dir \in Declared
      BY <1>1, FinalShape
    <3>3. {FrozenRow(d) : d \in Declared}' = {FrozenRow(d)' : d \in Declared}
      BY <1>3
    <3> QED
      BY <2>2, <3>1, <3>2, <3>3
  <2>4. {row \in PriorRows : row.dir \notin Declared}' = Final.retained
    <3>1. PriorRows' = AllRows(Final)
      BY <1>3 DEF PriorRows
    <3>2. {row \in AllRows(Final) : row.dir \notin Declared} = Final.retained
      BY <1>1, FinalShape DEF AllRows
    <3> QED
      BY <1>3, <3>1, <3>2
  <2> QED
    BY <2>1, <2>3, <2>4 DEF Frozen, Reissued
<1> QED
  BY <1>8, <1>9

(***************************************************************************)
(* So the last write settles the press.                                    *)
(***************************************************************************)
LEMMA RecordPresses == ASSUME TypeOK, PressInv, Record PROVE PressInv'
<1>1. pc' = "idle" /\ pc = "record" /\ ~quiet
  BY DEF Record, PressInv
<1>2. CASE ~Consistent(Final) \/ ~FreeGround
  <2>1. ~quiet'
    BY <1>1, <1>2 DEF Record
  <2> QED
    BY <1>1, <2>1 DEF PressInv
<1>3. CASE Consistent(Final) /\ FreeGround
  <2>1. Rested' /\ Frozen' = Reissued(Final, rules.files)
    BY <1>3, RecordRests
  <2>2. PlanTyped(Final)
    BY PlanOfTyped, TranslatedTyped, RemovalsAssumption DEF Final, TypeOK
  <2>3. PlanShape /\ dest # name
    BY <1>1 DEF PressInv
  <2>4. Final.rows \cap Final.retained = {}
    BY <2>3, FinalShape
  <2>5. ASSUME NEW p \in rules.files
        PROVE  \E m \in Final.files :
                  m.file = p /\ (m.current = p \/ \A r \in AllRows(Final) : ~In(p, r.current))
    <3>1. PICK m \in Final.files : m.file = p /\ m.current = (IF moved THEN Carry(dest, p) ELSE p)
      BY <2>3, FinalShape
    <3>2. p \in Paths /\ dest \in Roots
      BY RemovalsAssumption DEF TypeOK
    <3>3. CASE ~moved \/ p[1] # name
      BY <3>1, <3>2, <3>3, CarriedRoot
    <3>4. CASE moved /\ p[1] = name
      <4>1. ASSUME NEW r \in AllRows(Final) PROVE r.current # name
        <5>1. PICK r0 \in AllRows(plan) : r = CarryRow(dest, r0)
          BY <3>4 DEF Final, Translated, AllRows
        <5>2. r0 \in Rows
          BY DEF TypeOK
        <5> QED
          BY <2>3, <3>2, <5>1, <5>2, CarriedRow
      <4> QED
        BY <3>1, <3>4, <4>1 DEF In
    <3> QED
      BY <3>3, <3>4
  <2>6. Consistent(Reissued(Final, rules.files))
    BY <1>3, <2>2, <2>4, <2>5, ReissuedConsistent
  <2>7. Consistent(Frozen)'
    BY <2>1, <2>6 DEF Consistent, AllRows, RowMembers, Distinct, FileKey, CurrentKey, In
  <2> QED
    BY <1>1, <2>1, <2>7 DEF PressInv, Settled
<1> QED
  BY <1>2, <1>3

(***************************************************************************)
(* Committing or staging the result leaves it settled.                     *)
(***************************************************************************)
LEMMA CommitPresses == ASSUME TypeOK, PressInv, Commit \/ Stage PROVE PressInv'
<1>1. /\ pc = "idle" /\ pc' = "idle" /\ index' = work /\ (head' = work \/ head' = head)
      /\ UNCHANGED <<work, rules, receipt, quiet>> /\ staged' \subseteq work
  BY DEF Commit, Stage
<1>2. SUFFICES ASSUME quiet, Settled PROVE Settled'
  BY <1>1 DEF PressInv
<1>3. Declared' = Declared
  BY <1>1 DEF Declared
<1>4. ASSUME NEW row \in receipt.rows, row.dir \in Declared PROVE Gone(row)'
  <2>1. Gone(row)
    BY <1>2, <1>4 DEF Settled, Rested
  <2>2. FilesIn(work, row.current) = {}
    BY <2>1 DEF Gone
  <2>3. FilesIn(index' \cup head', row.current) \subseteq Currents(row) \cap (head' \ staged')
    <3> SUFFICES ASSUME NEW p \in index' \cup head', In(p, row.current)
                 PROVE  p \in Currents(row) /\ p \in head' /\ p \notin staged'
      BY DEF FilesIn
    <3>1. p \notin work
      BY <2>2 DEF FilesIn
    <3>2. p \in head /\ head' = head /\ p \in head'
      BY <1>1, <3>1
    <3> QED
      BY <1>1, <2>1, <3>1, <3>2 DEF Gone, FilesIn
  <2> QED
    BY <1>1, <2>1, <2>2, <2>3 DEF Gone, FilesIn, In, Currents
<1>5. Rested'
  BY <1>1, <1>2, <1>3, <1>4 DEF Settled, Rested
<1>6. Frozen' = Frozen
  <2>1. FileMembers' = FileMembers /\ PriorRows' = PriorRows
    BY <1>1 DEF FileMembers, PriorFlat, PriorRows
  <2>2. ASSUME NEW d \in Declared PROVE FrozenRow(d)' = FrozenRow(d)
    <3>1. PICK row \in receipt.rows : row.dir = d
      BY <1>2 DEF Settled, Rested
    <3>2. Present(d) = {} /\ CurrentRoot(d) = row.current
      BY <1>2, <3>1, OneRow DEF Settled
    <3>3. CurrentRoot(d)' = CurrentRoot(d) /\ Missing(d)' = Missing(d)
      BY <1>1 DEF CurrentRoot, Missing, Recorded, RowsFor, PriorRows
    <3>4. FilesIn(work, row.current) = {}
      BY <1>2, <3>1 DEF Settled, Rested, Gone
    <3>5. Present(d)' = {}
      BY <1>1, <3>2, <3>3, <3>4 DEF Present, FilesIn, In
    <3> QED
      BY <3>2, <3>3, <3>5 DEF FrozenRow, FrozenMembers
  <2> QED
    BY <1>3, <2>1, <2>2 DEF Frozen
<1>7. Consistent(Frozen)'
  BY <1>2, <1>6 DEF Settled, Consistent, AllRows, RowMembers, Distinct, FileKey, CurrentKey, In
<1> QED
  BY <1>5, <1>7 DEF Settled

(***************************************************************************)
(* Every step keeps the invariant.                                         *)
(***************************************************************************)
LEMMA PressStep == TypeOK /\ PressInv /\ [Next]_vars => PressInv'
<1> SUFFICES ASSUME TypeOK, PressInv, [Next]_vars PROVE PressInv'
  OBVIOUS
<1>1. ASSUME NEW d \in Identities, NEW allowDirty \in BOOLEAN, Plan(d, allowDirty) PROVE PressInv'
  BY <1>1, PlanPresses
<1>2. CASE RenameRoot
  BY <1>2, MovePresses
<1>3. ASSUME NEW m \in todo, Unlink(m) PROVE PressInv'
  BY <1>3, UnlinkPresses
<1>4. CASE Verify
  BY <1>4, VerifyPresses
<1>5. CASE Record
  BY <1>5, RecordPresses
<1>6. CASE Stop
  BY <1>6 DEF Stop, PressInv
<1>7. CASE Commit \/ Stage
  BY <1>7, CommitPresses
<1>8. CASE Restore \/ Redeclare \/ \E p \in Paths : Write(p) \/ Delete(p)
  <2>1. pc' = "idle" /\ ~quiet'
    BY <1>8 DEF Restore, Redeclare, Write, Delete, Edit
  <2> QED
    BY <2>1 DEF PressInv
<1>9. CASE UNCHANGED vars
  <2>1. /\ UNCHANGED <<work, changed, index, head, staged, name, rules, receipt, quiet, pc>>
        /\ UNCHANGED <<dest, plan, prior, moved, todo, removed>>
    BY <1>9 DEF vars, tree, run
  <2>2. PlanShape' = PlanShape /\ BeforeMove' = BeforeMove
    BY <2>1 DEF PlanShape, BeforeMove, FromPrior, Declared, Legacy, FilesIn, In, Currents
  <2>3. Final' = Final /\ FreeGround' = FreeGround
    BY <2>1 DEF Final, Translated, CarryRow, CarryMember, Carry, FreeGround, FilesIn, In
  <2>4. AfterMove' = AfterMove
    BY <2>1, <2>3 DEF AfterMove, Active, RowMembers, FilesIn, In, Currents
  <2>5. Frozen' = Frozen
    BY <2>1 DEF Frozen, FileMembers, FrozenRow, FrozenMembers, Present, Missing, Recorded, CurrentRoot, RowsFor,
                PriorRows, PriorFlat, Declared, FilesIn, In
  <2>6. Settled' = Settled
    BY <2>1, <2>5 DEF Settled, Rested, Gone, Declared, FilesIn, In, Currents,
                      Consistent, AllRows, RowMembers, Distinct, FileKey, CurrentKey
  <2> QED
    BY <2>1, <2>2, <2>4, <2>6 DEF PressInv
<1> QED
  BY <1>1, <1>2, <1>3, <1>4, <1>5, <1>6, <1>7, <1>8, <1>9 DEF Next, Press, Operator

(***************************************************************************)
(* A success never makes the next press refuse: while the tree is left     *)
(* alone, or committed, the declarations of a verified press hold again    *)
(* over the history it recorded (plan_removals, removal_receipt_metadata,  *)
(* removed_files_from_receipt).                                            *)
(***************************************************************************)
THEOREM SuccessesStayPressable == Spec => []SuccessIsPressable
<1>1. Init => TypeOK /\ PressInv
  BY InitTyped DEF PressInv, Init
<1>2. TypeOK /\ PressInv /\ [Next]_vars => (TypeOK /\ PressInv)'
  BY NextTyped, PressStep
<1>3. TypeOK /\ PressInv => SuccessIsPressable
  BY SettledPressable DEF PressInv, SuccessIsPressable
<1> QED
  BY <1>1, <1>2, <1>3, PTL DEF Spec

-----------------------------------------------------------------------------
(* What press verify makes of the same declarations. *)

(***************************************************************************)
(* The history of a receipt is one of distinct files in distinct places,   *)
(* each in the directory of its row, and rows do not meet.                 *)
(***************************************************************************)
SoundHistory(history) ==
    /\ Distinct(RowMembers(history), FileKey)
    /\ Distinct(RowMembers(history), CurrentKey)
    /\ \A r, s \in history : r # s => {r.dir, r.current} \cap {s.dir, s.current} = {}
    /\ \A r \in history : \A m \in r.members : In(m.current, r.current)

HistoryOf(r) == IF r = NoReceipt THEN {} ELSE r.rows

HistoryInv == SoundHistory(HistoryOf(receipt)) /\ SoundHistory(HistoryOf(saved.receipt))

LEMMA NoHistory == SoundHistory({})
BY DEF SoundHistory, Distinct, RowMembers

(***************************************************************************)
(* write_receipt validates what it records, and only it makes a history.   *)
(***************************************************************************)
LEMMA HistoryStep == TypeOK /\ HistoryInv /\ [Next]_vars => HistoryInv'
<1> SUFFICES ASSUME TypeOK, HistoryInv, [Next]_vars PROVE HistoryInv'
  OBVIOUS
<1> DEFINE Sound(r) == SoundHistory(HistoryOf(r))
<1>1. Sound(receipt) /\ Sound(saved.receipt)
  BY DEF HistoryInv
<1>2. Sound(NoReceipt)
  BY NoHistory DEF HistoryOf
<1>3. SUFFICES Sound(receipt') /\ Sound(saved'.receipt)
  BY DEF HistoryInv, SoundHistory, HistoryOf, RowMembers, Distinct, FileKey, CurrentKey, In
<1> HIDE DEF Sound
<1>4. CASE Record
  <2>1. CASE Consistent(Final)
    <3>1. PlanTyped(Final)
      BY PlanOfTyped, TranslatedTyped, RemovalsAssumption DEF Final, TypeOK
    <3>2. [flat |-> Flat(Final), rows |-> AllRows(Final)] \in Receipts
      BY <3>1, EmittedTyped DEF Receipts
    <3>3. receipt' = [flat |-> Flat(Final), rows |-> AllRows(Final)]
      BY <1>4, <2>1 DEF Record, RowsRecorded
    <3>4. HistoryOf(receipt') = AllRows(Final)
      BY <3>2, <3>3, NoReceiptAssumption DEF HistoryOf
    <3>5. SoundHistory(AllRows(Final))
      <4>1. CASE AllRows(Final) = {}
        BY <4>1, NoHistory
      <4>2. CASE AllRows(Final) # {}
        BY <2>1, <4>2 DEF Consistent, SoundHistory, Distinct
      <4> QED
        BY <4>1, <4>2
    <3> QED
      BY <1>1, <1>4, <3>4, <3>5 DEF Record, Sound
  <2>2. CASE ~Consistent(Final)
    BY <1>1, <1>4, <2>2 DEF Record
  <2> QED
    BY <2>1, <2>2
<1>5. ASSUME NEW d \in Identities, NEW allowDirty \in BOOLEAN, Plan(d, allowDirty)
      PROVE  Sound(receipt') /\ Sound(saved'.receipt)
  BY <1>1, <1>2, <1>5 DEF Plan, Invalidated
<1>6. CASE RenameRoot \/ Verify \/ Stop \/ \E m \in todo : Unlink(m)
  BY <1>1, <1>6 DEF RenameRoot, Verify, Stop, Unlink
<1>7. CASE Operator
  BY <1>1, <1>7 DEF Operator, Commit, Stage, Restore, Redeclare, Write, Delete
<1>8. CASE UNCHANGED vars
  BY <1>1, <1>8 DEF vars
<1> QED
  BY <1>4, <1>5, <1>6, <1>7, <1>8 DEF Next, Press

LEMMA PriorSound == HistoryInv => SoundHistory(PriorRows)
BY DEF HistoryInv, HistoryOf, PriorRows

(***************************************************************************)
(* A member as the verifier reads it from the history of the row.          *)
(***************************************************************************)
Told(row, n) == IF n \in row.members THEN [n EXCEPT !.missingOk = TRUE] ELSE n
ToldRow(row) ==
    [row EXCEPT !.members = {[m EXCEPT !.missingOk = TRUE] : m \in row.members}]

LEMMA ToldKeys ==
    ASSUME NEW row, NEW n \in Members
    PROVE  Told(row, n).file = n.file /\ Told(row, n).current = n.current
BY DEF Told, Members

LEMMA ToldRowFields ==
    ASSUME NEW row \in Rows
    PROVE  /\ ToldRow(row).dir = row.dir /\ ToldRow(row).current = row.current
           /\ ToldRow(row).members = {Told(row, n) : n \in row.members}
BY DEF ToldRow, Told, Rows

(***************************************************************************)
(* A declared directory has one row of history, or none.                   *)
(***************************************************************************)
LEMMA OneHistory ==
    ASSUME TypeOK, HistoryInv, NEW d, NEW row \in RowsFor(d)
    PROVE  /\ RowsFor(d) = {row} /\ CurrentRoot(d) = row.current /\ Recorded(d) = row.members
           /\ row \in Rows /\ row \in PriorRows /\ row.dir = d
<1>1. /\ \A r \in RowsFor(d) : r \in PriorRows /\ r.dir = d
      /\ row \in PriorRows
  BY DEF RowsFor
<1>2. RowsFor(d) = {row}
  BY <1>1, PriorSound DEF SoundHistory
<1> QED
  BY <1>1, <1>2, PriorTyped DEF CurrentRoot, Recorded

(***************************************************************************)
(* Over a history, the verifier's plan tells the recorded rows: the        *)
(* declared one with members that may be missing, the others as they are.  *)
(***************************************************************************)
LEMMA VerifierShape ==
    ASSUME TypeOK, HistoryInv, NEW d, Declared = {d}, NEW row \in RowsFor(d)
    PROVE  /\ VerifierPlan.files = FileMembers /\ VerifierPlan.rows = {ToldRow(row)}
           /\ VerifierPlan.retained = PriorRows \ {row}
           /\ AllRows(VerifierPlan) = {ToldRow(row)} \cup (PriorRows \ {row})
<1>1. RowsFor(d) = {row}
  BY OneHistory
<1>2. VerifierRows(d) = {ToldRow(row)}
  BY <1>1 DEF VerifierRows, ToldRow
<1>3. VerifierPlan.files = FileMembers /\ VerifierPlan.rows = {ToldRow(row)}
  BY <1>2 DEF VerifierPlan, Frozen
<1>4. VerifierPlan.retained = {r \in PriorRows : r.dir # d}
  BY DEF VerifierPlan, Frozen
<1>5. {r \in PriorRows : r.dir # d} = PriorRows \ {row}
  BY <1>1, OneHistory DEF RowsFor
<1> QED
  BY <1>3, <1>4, <1>5 DEF AllRows

(***************************************************************************)
(* Where there is no history the verifier freezes as the press does.       *)
(***************************************************************************)
LEMMA VerifierFreezes ==
    ASSUME \A d \in Declared : RowsFor(d) = {} PROVE VerifierPlan = Frozen
<1>1. UNION {VerifierRows(d) : d \in Declared} = {FrozenRow(d) : d \in Declared}
  BY DEF VerifierRows
<1>2. Frozen.rows = {FrozenRow(d) : d \in Declared}
  BY DEF Frozen
<1>3. VerifierPlan = [Frozen EXCEPT !.rows = Frozen.rows]
  BY <1>1, <1>2 DEF VerifierPlan
<1>4. Frozen = [files |-> Frozen.files, rows |-> Frozen.rows, retained |-> Frozen.retained]
  BY DEF Frozen
<1> QED
  BY <1>3, <1>4

(***************************************************************************)
(* The members of those rows are the recorded ones, as they are told.      *)
(***************************************************************************)
LEMMA VerifierMembers ==
    ASSUME TypeOK, HistoryInv, NEW d, Declared = {d}, NEW row \in RowsFor(d),
           NEW m \in RowMembers(AllRows(VerifierPlan))
    PROVE  \E n \in RowMembers(PriorRows) : m = Told(row, n) /\ n \in Members
<1>1. PICK r \in AllRows(VerifierPlan) : m \in r.members
  BY DEF RowMembers
<1>2. row \in PriorRows /\ row \in Rows
  BY OneHistory
<1>3. CASE r = ToldRow(row)
  <2>1. PICK n \in row.members : m = Told(row, n)
    BY <1>1, <1>2, <1>3, ToldRowFields
  <2> QED
    BY <1>2, <2>1 DEF RowMembers, Rows
<1>4. CASE r \in PriorRows \ {row}
  <2>1. m \in Members /\ m \in RowMembers(PriorRows)
    BY <1>1, <1>4, PriorTyped DEF RowMembers, Rows
  <2>2. m \notin row.members
    <3>1. r.current # row.current
      BY <1>2, <1>4, PriorSound DEF SoundHistory
    <3>2. m.current[1] = r.current
      BY <1>1, <1>4, PriorSound DEF SoundHistory, In
    <3>3. m \in row.members => m.current[1] = row.current
      BY <1>2, PriorSound DEF SoundHistory, In
    <3> QED
      BY <3>1, <3>2, <3>3
  <2> QED
    BY <2>1, <2>2 DEF Told
<1> QED
  BY <1>1, <1>3, <1>4, VerifierShape

(***************************************************************************)
(* A declared file is none of them: not one that is missing or retained,   *)
(* which the press froze too, nor one that is back, which was recorded     *)
(* under another path.                                                     *)
(***************************************************************************)
LEMMA FilesApartFromHistory ==
    ASSUME TypeOK, HistoryInv, Consistent(Frozen), OriginsApart,
           NEW d, Declared = {d}, NEW row \in RowsFor(d),
           NEW f \in FileMembers, NEW n \in RowMembers(PriorRows)
    PROVE  f.file # n.file /\ f.current # n.current
<1>1. PICK p \in rules.files : f = [file |-> p, current |-> p, missingOk |-> p \in PriorFlat]
  BY DEF FileMembers
<1>2. PICK h \in PriorRows : n \in h.members
  BY DEF RowMembers
<1>3. n \in Members /\ h \in Rows
  BY <1>2, PriorTyped DEF Rows
<1>4. CurrentRoot(d) = row.current /\ Recorded(d) = row.members /\ RowsFor(d) = {row}
  BY OneHistory
<1>5. FrozenRow(d) \in AllRows(Frozen) /\ FrozenRow(d) \in Frozen.rows /\ f \in Frozen.files
  BY DEF AllRows, Frozen
<1>6. ASSUME NEW k \in RowMembers(AllRows(Frozen)) PROVE f.file # k.file /\ f.current # k.current
  <2>1. f # k
    BY <1>5, <1>6 DEF Consistent
  <2> QED
    BY <1>5, <1>6, <2>1 DEF Consistent, Distinct, FileKey, CurrentKey
<1>7. CASE h = row
  <2>1. In(n.current, CurrentRoot(d))
    BY <1>2, <1>4, <1>7, PriorSound DEF SoundHistory
  <2>2. ~In(f.current, CurrentRoot(d))
    BY <1>5 DEF Consistent, FrozenRow
  <2>3. f.current # n.current
    BY <2>1, <2>2
  <2>4. CASE n.current \in work
    BY <1>1, <1>2, <1>4, <1>7, <2>3, <2>4 DEF OriginsApart
  <2>5. CASE n.current \notin work
    <3>1. [n EXCEPT !.missingOk = TRUE] \in FrozenMembers(d)
      BY <1>2, <1>4, <1>7, <2>5 DEF FrozenMembers, Missing
    <3>2. [n EXCEPT !.missingOk = TRUE] \in RowMembers(AllRows(Frozen))
      BY <1>5, <3>1 DEF RowMembers, FrozenRow
    <3>3. [n EXCEPT !.missingOk = TRUE].file = n.file
      BY <1>3 DEF Members
    <3> QED
      BY <1>6, <2>3, <3>2, <3>3
  <2> QED
    BY <2>4, <2>5
<1>8. CASE h # row
  <2>1. h.dir # d
    BY <1>2, <1>4, <1>8 DEF RowsFor
  <2>2. h \in AllRows(Frozen)
    BY <1>2, <2>1 DEF AllRows, Frozen
  <2> QED
    BY <1>2, <1>6, <2>2 DEF RowMembers
<1> QED
  BY <1>7, <1>8

(***************************************************************************)
(* So the plan of the verifier is consistent where the files are.          *)
(***************************************************************************)
LEMMA VerifierConsistent ==
    ASSUME TypeOK, HistoryInv, Consistent(Frozen), OriginsApart,
           NEW d, Declared = {d}, NEW row \in RowsFor(d)
    PROVE  Consistent(VerifierPlan)
<1> DEFINE History == RowMembers(AllRows(VerifierPlan))
<1>1. /\ row \in PriorRows /\ row \in Rows /\ row.dir = d /\ CurrentRoot(d) = row.current
      /\ VerifierPlan.files = FileMembers /\ VerifierPlan.rows = {ToldRow(row)}
      /\ AllRows(VerifierPlan) = {ToldRow(row)} \cup (PriorRows \ {row})
  BY OneHistory, VerifierShape
<1>2. ASSUME NEW m \in History
      PROVE  \E n \in RowMembers(PriorRows) :
                n \in Members /\ m = Told(row, n) /\ m.file = n.file /\ m.current = n.current
  BY <1>2, VerifierMembers, ToldKeys
<1>3. ASSUME NEW f \in FileMembers, NEW m \in History
      PROVE  f.file # m.file /\ f.current # m.current
  BY <1>2, <1>3, FilesApartFromHistory
<1>4. ASSUME NEW f \in FileMembers, NEW g \in FileMembers, f # g
      PROVE  f.file # g.file /\ f.current # g.current
  BY <1>4 DEF FileMembers
<1>5. ASSUME NEW m \in History, NEW k \in History, m # k
      PROVE  m.file # k.file /\ m.current # k.current
  <2>1. PICK n \in RowMembers(PriorRows) :
           m = Told(row, n) /\ m.file = n.file /\ m.current = n.current
    BY <1>2
  <2>2. PICK l \in RowMembers(PriorRows) :
           k = Told(row, l) /\ k.file = l.file /\ k.current = l.current
    BY <1>2
  <2>3. n # l
    BY <1>5, <2>1, <2>2
  <2> QED
    BY <2>1, <2>2, <2>3, PriorSound DEF SoundHistory, Distinct, FileKey, CurrentKey
<1> HIDE DEF History
<1>6. /\ Distinct(FileMembers \cup History, FileKey)
      /\ Distinct(FileMembers \cup History, CurrentKey)
      /\ FileMembers \cap History = {}
  BY <1>3, <1>4, <1>5 DEF Distinct, FileKey, CurrentKey
<1>7. ASSUME NEW r \in AllRows(VerifierPlan)
      PROVE  \E h \in PriorRows : /\ h \in Rows /\ r.dir = h.dir /\ r.current = h.current
                                  /\ r = (IF h = row THEN ToldRow(row) ELSE h)
  BY <1>1, <1>7, ToldRowFields, PriorTyped
<1>8. ASSUME NEW r \in AllRows(VerifierPlan), NEW s \in AllRows(VerifierPlan), r # s
      PROVE  {r.dir, r.current} \cap {s.dir, s.current} = {}
  <2>1. PICK h \in PriorRows : r.dir = h.dir /\ r.current = h.current
                               /\ r = (IF h = row THEN ToldRow(row) ELSE h)
    BY <1>7
  <2>2. PICK j \in PriorRows : s.dir = j.dir /\ s.current = j.current
                               /\ s = (IF j = row THEN ToldRow(row) ELSE j)
    BY <1>7
  <2>3. h # j
    BY <1>8, <2>1, <2>2
  <2> QED
    BY <2>1, <2>2, <2>3, PriorSound DEF SoundHistory
<1>9. ASSUME NEW r \in AllRows(VerifierPlan), NEW m \in r.members PROVE In(m.current, r.current)
  <2>1. PICK h \in PriorRows : h \in Rows /\ r.current = h.current
                               /\ r = (IF h = row THEN ToldRow(row) ELSE h)
    BY <1>7
  <2>2. CASE h = row
    <3>1. PICK n \in row.members : m = Told(row, n)
      BY <1>1, <1>9, <2>1, <2>2, ToldRowFields
    <3>2. m.current = n.current
      BY <1>1, <3>1, ToldKeys DEF Rows
    <3> QED
      BY <1>1, <2>1, <2>2, <3>2, PriorSound DEF SoundHistory
  <2>3. CASE h # row
    BY <1>9, <2>1, <2>3, PriorSound DEF SoundHistory
  <2> QED
    BY <2>2, <2>3
<1>10. ASSUME NEW m \in FileMembers PROVE ~In(m.current, ToldRow(row).current)
  <2>1. FrozenRow(d) \in Frozen.rows /\ AllRows(Frozen) # {} /\ m \in Frozen.files
    BY <1>10 DEF Frozen, AllRows
  <2> QED
    BY <1>1, <2>1, ToldRowFields DEF Consistent, FrozenRow
<1> QED
  BY <1>1, <1>6, <1>8, <1>9, <1>10 DEF Consistent, History

(***************************************************************************)
(* The name the verifier gives the copy is fresh, so moving along with it  *)
(* keeps apart what is apart and inside what is inside.                    *)
(***************************************************************************)
LEMMA FreshCarry ==
    ASSUME TypeOK, NEW p \in Paths, NEW q \in Paths, p # q
    PROVE  Carry(NoRoot, p) # Carry(NoRoot, q)
<1>1. \A z \in Paths : z = <<z[1], z[2]>> /\ z[1] # NoRoot
  BY RemovalsAssumption DEF Paths
<1> QED
  BY <1>1 DEF Carry, In

Renamed(root) == IF root = name THEN NoRoot ELSE root

LEMMA FreshRoot ==
    ASSUME TypeOK, NEW r \in Roots, NEW s \in Roots
    PROVE  /\ Renamed(r) = Renamed(s) => r = s
           /\ Renamed(r) = s => r = s
           /\ \A p \in Paths : In(Carry(NoRoot, p), Renamed(r)) <=> In(p, r)
<1>1. \A z \in Paths : z = <<z[1], z[2]>> /\ z[1] # NoRoot
  BY RemovalsAssumption DEF Paths
<1> QED
  BY <1>1, RemovalsAssumption DEF Carry, In, Renamed

LEMMA FreshMember ==
    ASSUME NEW m \in Members
    PROVE  /\ CarryMember(NoRoot, m).file = m.file
           /\ CarryMember(NoRoot, m).current = Carry(NoRoot, m.current)
           /\ m.current \in Paths
BY DEF CarryMember, Members

LEMMA FreshRow ==
    ASSUME NEW r \in Rows
    PROVE  /\ CarryRow(NoRoot, r).dir = r.dir /\ CarryRow(NoRoot, r).current = Renamed(r.current)
           /\ CarryRow(NoRoot, r).members = {CarryMember(NoRoot, m) : m \in r.members}
           /\ r.dir \in Roots /\ r.current \in Roots /\ r.members \subseteq Members
BY DEF CarryRow, Renamed, Rows

LEMMA FreshConsistent ==
    ASSUME TypeOK, NEW pl, PlanTyped(pl), Consistent(pl), NEW done \in BOOLEAN
    PROVE  Consistent(Translated(done, NoRoot, pl))
<1>1. CASE ~done
  BY <1>1 DEF Translated
<1>2. CASE done
  <2> DEFINE new == Translated(done, NoRoot, pl)
             all == pl.files \cup RowMembers(AllRows(pl))
  <2>1. /\ new.files = {CarryMember(NoRoot, m) : m \in pl.files}
        /\ new.rows = {CarryRow(NoRoot, r) : r \in pl.rows}
        /\ AllRows(new) = {CarryRow(NoRoot, r) : r \in AllRows(pl)}
    BY <1>2 DEF Translated, AllRows
  <2>2. AllRows(pl) \subseteq Rows /\ all \subseteq Members /\ pl.files \subseteq Members
    BY DEF PlanTyped, AllRows, RowMembers, Rows
  <2>3. RowMembers(AllRows(new)) = {CarryMember(NoRoot, m) : m \in RowMembers(AllRows(pl))}
    BY <2>1, <2>2, FreshRow DEF RowMembers
  <2>4. CASE AllRows(pl) = {}
    BY <2>1, <2>4 DEF Consistent
  <2>5. CASE AllRows(pl) # {}
    <3>1. /\ Distinct(all, FileKey) /\ Distinct(all, CurrentKey)
          /\ pl.files \cap RowMembers(AllRows(pl)) = {}
          /\ \A r, s \in AllRows(pl) : r # s => {r.dir, r.current} \cap {s.dir, s.current} = {}
          /\ \A r \in AllRows(pl) : \A m \in r.members : In(m.current, r.current)
          /\ \A r \in pl.rows, m \in pl.files : ~In(m.current, r.current)
      BY <2>5 DEF Consistent
    <3>2. ASSUME NEW m \in all, NEW k \in all, m # k
          PROVE  /\ CarryMember(NoRoot, m).file # CarryMember(NoRoot, k).file
                 /\ CarryMember(NoRoot, m).current # CarryMember(NoRoot, k).current
      <4>1. m.file # k.file /\ m.current # k.current
        BY <3>1, <3>2 DEF Distinct, FileKey, CurrentKey
      <4> QED
        BY <2>2, <4>1, FreshMember, FreshCarry
    <3>3. new.files \cup RowMembers(AllRows(new)) = {CarryMember(NoRoot, m) : m \in all}
      BY <2>1, <2>3
    <3>4. /\ Distinct(new.files \cup RowMembers(AllRows(new)), FileKey)
          /\ Distinct(new.files \cup RowMembers(AllRows(new)), CurrentKey)
      BY <3>2, <3>3 DEF Distinct, FileKey, CurrentKey
    <3>5. new.files \cap RowMembers(AllRows(new)) = {}
      BY <2>1, <2>3, <3>1, <3>2
    <3>6. ASSUME NEW r \in AllRows(pl), NEW s \in AllRows(pl), r # s
          PROVE  {r.dir, Renamed(r.current)} \cap {s.dir, Renamed(s.current)} = {}
      <4>1. r.dir # s.dir /\ r.dir # s.current /\ r.current # s.dir /\ r.current # s.current
        BY <3>1, <3>6
      <4> QED
        BY <2>2, <4>1, FreshRow, FreshRoot
    <3>7. \A r, s \in AllRows(new) : r # s => {r.dir, r.current} \cap {s.dir, s.current} = {}
      BY <2>1, <2>2, <3>6, FreshRow
    <3>8. ASSUME NEW r \in AllRows(new), NEW m \in r.members PROVE In(m.current, r.current)
      <4>1. PICK s \in AllRows(pl) : r = CarryRow(NoRoot, s)
        BY <2>1, <3>8
      <4>2. PICK k \in s.members : m = CarryMember(NoRoot, k)
        BY <2>2, <3>8, <4>1, FreshRow
      <4>3. s.current \in Roots /\ k \in Members /\ r.current = Renamed(s.current)
        BY <2>2, <4>1, FreshRow
      <4> QED
        BY <3>1, <4>2, <4>3, FreshMember, FreshRoot
    <3>9. ASSUME NEW r \in new.rows, NEW m \in new.files PROVE ~In(m.current, r.current)
      <4>1. PICK s \in pl.rows : r = CarryRow(NoRoot, s)
        BY <2>1, <3>9
      <4>2. PICK k \in pl.files : m = CarryMember(NoRoot, k)
        BY <2>1, <3>9
      <4>3. s.current \in Roots /\ k \in Members /\ r.current = Renamed(s.current)
        BY <2>2, <4>1, FreshRow DEF AllRows
      <4> QED
        BY <3>1, <4>1, <4>2, <4>3, FreshMember, FreshRoot
    <3> HIDE DEF new
    <3>10. Consistent(new)
      BY <3>4, <3>5, <3>7, <3>8, <3>9 DEF Consistent
    <3> QED
      BY <3>10 DEF new
  <2> QED
    BY <2>4, <2>5
<1> QED
  BY <1>1, <1>2

(***************************************************************************)
(* A recorded member that is there is one the press froze.                 *)
(***************************************************************************)
LEMMA BackIsFrozen ==
    ASSUME TypeOK, HistoryInv, NEW d, Declared = {d}, Freezable(d), NEW row \in RowsFor(d),
           NEW m \in ToldRow(row).members, m.current \in work
    PROVE  \E n \in Active(Frozen) : n.current = m.current
<1>1. row \in Rows /\ row \in PriorRows /\ CurrentRoot(d) = row.current
  BY OneHistory
<1>2. PICK n \in row.members : n \in Members /\ m.current = n.current
  <2>1. PICK n \in row.members : m = Told(row, n)
    BY <1>1, ToldRowFields
  <2> QED
    BY <1>1, <2>1, ToldKeys DEF Rows
<1>3. In(m.current, CurrentRoot(d))
  BY <1>1, <1>2, PriorSound DEF SoundHistory
<1>4. ~Excused(m.current, MissingPaths(d))
  BY DEF Excused
<1>5. m.current \in FilesIn(work \cup index \cup head, CurrentRoot(d))
  BY <1>3 DEF FilesIn
<1>6. m.current \in index
  BY <1>4, <1>5 DEF Freezable, StatusProblems
<1>7. m.current \in Present(d)
  BY <1>3, <1>6 DEF Present, FilesIn
<1> DEFINE found == [file |-> m.current, current |-> m.current, missingOk |-> FALSE]
<1>8. found \in FrozenMembers(d)
  BY <1>7 DEF FrozenMembers
<1>9. FrozenRow(d) \in Frozen.rows /\ FrozenRow(d).members = FrozenMembers(d)
  BY DEF Frozen, FrozenRow
<1>10. found \in Active(Frozen)
  BY <1>8, <1>9 DEF Active, RowMembers
<1> QED
  BY <1>10

LEMMA VerifierFollows == TypeOK /\ HistoryInv => VerifyFollowsPress
<1> SUFFICES ASSUME TypeOK, HistoryInv, DeclarationsHold, Consistent(Frozen), OriginsApart
             PROVE  /\ VerifierAccepts
                    /\ \A m \in Active(VerifierPlan) :
                          m.current \in work => \E n \in Active(Frozen) : n.current = m.current
  BY DEF VerifyFollowsPress
<1>1. \A d \in Declared : RowsFor(d) = {} => Freezable(d)
  BY DEF DeclarationsHold
<1>2. VerifierPlan.files = FileMembers /\ Frozen.files = FileMembers
  <2> DEFINE seen == UNION {VerifierRows(d) : d \in Declared}
  <2>1. VerifierPlan = [Frozen EXCEPT !.rows = seen]
    BY DEF VerifierPlan
  <2>2. Frozen = [files |-> FileMembers, rows |-> Frozen.rows, retained |-> Frozen.retained]
    BY DEF Frozen
  <2> HIDE DEF seen
  <2> QED
    BY <2>1, <2>2
<1>3. \A m \in VerifierPlan.files : m.current \in work \/ m.missingOk
  <2> SUFFICES ASSUME NEW m \in FileMembers PROVE m.current \in work \/ m.missingOk
    BY <1>2
  <2>1. PICK p \in rules.files : m = [file |-> p, current |-> p, missingOk |-> p \in PriorFlat]
    BY DEF FileMembers
  <2>2. m.current = p /\ m.missingOk = (p \in PriorFlat)
    BY <2>1
  <2>3. p \in work \/ p \in PriorFlat
    BY DEF DeclarationsHold, FileRemovable
  <2> QED
    BY <2>2, <2>3
<1>4. Renames \in BOOLEAN
  BY DEF Renames
<1>5. CASE \A d \in Declared : RowsFor(d) = {}
  <2>1. VerifierPlan = Frozen
    BY <1>5, VerifierFreezes
  <2>2. Consistent(Translated(Renames, NoRoot, Frozen))
    BY <1>4, FrozenTyped, FreshConsistent
  <2> QED
    BY <1>1, <1>3, <2>1, <2>2 DEF VerifierAccepts
<1>6. CASE \E d \in Declared : RowsFor(d) # {}
  <2>1. PICK d \in Declared : RowsFor(d) # {}
    BY <1>6
  <2>2. Declared = {d}
    BY <2>1 DEF Declared
  <2>3. PICK row \in RowsFor(d) : TRUE
    BY <2>1
  <2>4. /\ VerifierPlan.rows = {ToldRow(row)} /\ VerifierPlan.retained = PriorRows \ {row}
    BY <2>2, <2>3, VerifierShape
  <2>5. Consistent(VerifierPlan)
    BY <2>2, <2>3, VerifierConsistent
  <2>6. PlanTyped(VerifierPlan)
    <3>1. row \in Rows
      BY <2>3, OneHistory
    <3>2. ToldRow(row).members \subseteq Members
      BY <3>1 DEF ToldRow, Rows, Members
    <3>3. ToldRow(row) \in Rows
      BY <3>1, <3>2 DEF ToldRow, Rows
    <3>4. FileMembers \subseteq Members
      BY <1>2, FrozenTyped DEF PlanTyped
    <3> QED
      BY <1>2, <2>4, <3>3, <3>4, PriorTyped DEF PlanTyped
  <2>7. Consistent(Translated(Renames, NoRoot, VerifierPlan))
    BY <1>4, <2>5, <2>6, FreshConsistent
  <2>8. VerifierAccepts
    BY <1>1, <1>3, <2>5, <2>7 DEF VerifierAccepts
  <2>9. ASSUME NEW m \in Active(VerifierPlan), m.current \in work
        PROVE  \E n \in Active(Frozen) : n.current = m.current
    <3>1. CASE m \in VerifierPlan.files
      BY <1>2, <3>1 DEF Active
    <3>2. CASE m \in RowMembers(VerifierPlan.rows)
      <4>1. m \in ToldRow(row).members
        BY <2>4, <3>2 DEF RowMembers
      <4>2. Freezable(d)
        BY <2>1 DEF DeclarationsHold
      <4> QED
        BY <2>2, <2>3, <2>9, <4>1, <4>2, BackIsFrozen
    <3> QED
      BY <2>9, <3>1, <3>2 DEF Active
  <2> QED
    BY <2>8, <2>9
<1> QED
  BY <1>5, <1>6

(***************************************************************************)
(* press verify does not refuse what a press accepts, and takes nothing    *)
(* out of its copy that the press would leave: what it reads from the      *)
(* history is what the press finds (plan_removals, mode "verify").         *)
(***************************************************************************)
THEOREM VerifierFollowsPress == Spec => []VerifyFollowsPress
<1>1. Init => TypeOK /\ HistoryInv
  BY InitTyped, NoHistory DEF Init, HistoryInv, HistoryOf
<1>2. TypeOK /\ HistoryInv /\ [Next]_vars => (TypeOK /\ HistoryInv)'
  BY NextTyped, HistoryStep
<1>3. TypeOK /\ HistoryInv => VerifyFollowsPress
  BY VerifierFollows
<1> QED
  BY <1>1, <1>2, <1>3, PTL DEF Spec
=============================================================================
