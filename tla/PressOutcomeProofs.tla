------------------------- MODULE PressOutcomeProofs -------------------------
(***************************************************************************)
(* What the end of a run tells: the exit code against the disk, and the    *)
(* removals its receipt carries.  For every set of files and       *)
(* command lines and any number of mishaps.                                *)
(***************************************************************************)
EXTENDS PressRunProofs

-----------------------------------------------------------------------------
(* The invariant. *)

BeforeConsumption == {"check", "resolve", "plan", "gate", "invalidate"}
AfterRemovals == {"snapshot", "edit", "regenerate", "validate", "doctor", "source", "receipt"}

(***************************************************************************)
(* Until the first mutation the tree is untouched, and until the prior     *)
(* receipt is consumed the control files are too; from the first mutation  *)
(* to the receipt write the press counts as incomplete.                    *)
(***************************************************************************)
RefusalInv ==
    /\ pc # "done" => exit = "none"
    /\ pc \in BeforeConsumption => ctl = before.ctl
    /\ pc \in MainPhases \cup {EnterPhase} => Untouched
    /\ pc \in MutatePhases \cup {"restore"} => incomplete

(***************************************************************************)
(* The last two writes are in place when the report is printed, every      *)
(* declared removal was made by this press or an earlier one, and the      *)
(* history of the plan is what the receipt before this run recorded.       *)
(***************************************************************************)
SuccessInv ==
    /\ pc \in {"receipt", "report"} => ctl.source = opts.dest
    /\ pc = "report" => Marked
    /\ pc = "remove" => Removes \subseteq todo \cup removed \cup history
    /\ pc \in AfterRemovals \cup {"report"} => Removes \subseteq removed \cup history
    /\ pc \notin {"check", "resolve", "plan", "done"} /\ before.ctl.receipt \in Receipts =>
          history = before.ctl.receipt.removed

OutcomeInv == RefusalInv /\ SuccessInv /\ ExitCodeContract

-----------------------------------------------------------------------------
(* It is inductive. *)

(***************************************************************************)
(* A run starts with the disk it remembers, and without an exit code.      *)
(***************************************************************************)
LEMMA InitOutcome == Init => OutcomeInv
<1> SUFFICES ASSUME Init PROVE OutcomeInv
  OBVIOUS
<1>1. pc = "check" /\ exit = "none" /\ before.ctl = ctl /\ before.file = file
  BY DEF Init, ProcessInit
<1> QED
  BY <1>1 DEF OutcomeInv, RefusalInv, SuccessInv, ExitCodeContract, BeforeConsumption,
              AfterRemovals, MainPhases, EnterPhase, MutatePhases, Untouched

(***************************************************************************)
(* The phases of main() change the control files twice, and only as exit 2 *)
(* allows for.                                                             *)
(***************************************************************************)
LEMMA MainOutcome == MarkInv /\ OutcomeInv /\ MainStep => OutcomeInv'
<1> SUFFICES ASSUME MarkInv, OutcomeInv, MainStep PROVE OutcomeInv'
  OBVIOUS
<1>t. ctl \in [Control -> Contents] /\ incomplete \in BOOLEAN
  BY DEF MarkInv, TypeOK
<1> USE <1>t DEF OutcomeInv, RefusalInv, SuccessInv, ExitCodeContract, BeforeConsumption,
            AfterRemovals, MainPhases, MutatePhases, EnterPhase, Untouched, disk, plan, Finish
<1>1. CASE CheckPreconditions
  BY <1>1 DEF CheckPreconditions, Refuse, Proceed
<1>2. CASE ResolveSource
  BY <1>2 DEF ResolveSource, Refuse, Proceed
<1>3. CASE BuildPlan
  BY <1>3 DEF BuildPlan, Refuse, Proceed
<1>4. CASE RunGates
  BY <1>4 DEF RunGates, Refuse, Proceed
<1>5. CASE InvalidateReceipt
  BY <1>5 DEF InvalidateReceipt, Proceed, Control
<1>6. CASE WritePendingSource
  BY <1>6 DEF WritePendingSource, Refuse, Proceed, Control
<1> QED
  BY <1>1, <1>2, <1>3, <1>4, <1>5, <1>6 DEF MainStep

(***************************************************************************)
(* A pass or a recovery step of _press: the remove pass accounts for every *)
(* declared removal, the two last writes are what the report finds.        *)
(***************************************************************************)
LEMMA PressOutcome == MarkInv /\ OutcomeInv /\ PressStep => OutcomeInv'
<1> SUFFICES ASSUME MarkInv, OutcomeInv, PressStep PROVE OutcomeInv'
  OBVIOUS
<1>t. /\ ctl \in [Control -> Contents] /\ "receipt" \in Control /\ "source" \in Control
      /\ incomplete => ctl.receipt \notin Receipts
      /\ pc = "enter" => ctl.receipt \notin Receipts
      /\ armed => pc # "report"
  BY DEF MarkInv, TypeOK, Unmarked, UnmarkedPhases, Recovery, CommandPhases, Control
<1> USE <1>t DEF OutcomeInv, RefusalInv, SuccessInv, ExitCodeContract, BeforeConsumption,
            AfterRemovals, MainPhases, MutatePhases, EnterPhase, HalfPressed,
            disk, plan, Finish, Advance
<1>1. CASE EnterPress
  BY <1>1 DEF EnterPress
<1>2. CASE PassDone
  BY <1>2 DEF PassDone
<1>3. CASE TakeSnapshot
  BY <1>3 DEF TakeSnapshot
<1>4. ASSUME NEW f \in Files, ResetOne(f) \/ RewriteOne(f) PROVE OutcomeInv'
  BY <1>4 DEF ResetOne, RewriteOne
<1>5. ASSUME NEW f \in Files, RemoveOne(f) PROVE OutcomeInv'
  BY <1>5 DEF RemoveOne
<1>6. ASSUME NEW f \in Commands, SkipLaunch(f) \/ Launch(f) PROVE OutcomeInv'
  BY <1>6 DEF SkipLaunch, Launch, CommandPhase
<1>7. CASE CommandsDone \/ FinalValidation
  BY <1>7 DEF CommandsDone, FinalValidation
<1>8. ASSUME NEW c \in Control, RestoreOne(c) PROVE OutcomeInv'
  BY <1>8 DEF RestoreOne
<1>9. CASE RestoreDone
  BY <1>9 DEF RestoreDone
<1>10. CASE Doctor
  BY <1>10 DEF Doctor
<1>11. CASE WriteSource
  BY <1>11 DEF WriteSource
<1>12. CASE WriteReceipt
  BY <1>12 DEF WriteReceipt, OwnReceipt, Marked
<1>13. CASE Report
  BY <1>13 DEF Report, OwnReceipt, Marked
<1>14. CASE GuardRaises
  BY <1>14 DEF GuardRaises, RaiseFault, PressPhases
<1> QED
  BY <1>1, <1>2, <1>3, <1>4, <1>5, <1>6, <1>7, <1>8, <1>9, <1>10, <1>11, <1>12, <1>13, <1>14
  DEF PressStep

(***************************************************************************)
(* No mishap ends a run with exit 0, only one of main() ends with 2, and   *)
(* none takes back what the receipt write completed.                       *)
(***************************************************************************)
LEMMA MishapOutcome == MarkInv /\ OutcomeInv /\ MishapStep => OutcomeInv'
<1> SUFFICES ASSUME MarkInv, OutcomeInv, MishapStep PROVE OutcomeInv'
  OBVIOUS
<1>t. /\ incomplete => ctl.receipt \notin Receipts
      /\ pc = "enter" => ctl.receipt \notin Receipts
      /\ armed => pc # "report"
      /\ pc \in MainPhases \cup {EnterPhase} \cup PressPhases \cup {"done"}
  BY DEF MarkInv, TypeOK, Unmarked, UnmarkedPhases, Recovery, CommandPhases
<1>f. before.file \in [Files -> FileState] /\ file \in [Files -> FileState]
  BY DEF MarkInv, TypeOK
<1>b. before \in [file : [Files -> FileState], ctl : [Control -> Contents]]
  BY DEF MarkInv, TypeOK
<1> USE <1>t DEF OutcomeInv, RefusalInv, SuccessInv, ExitCodeContract, BeforeConsumption,
            AfterRemovals, MainPhases, MutatePhases, EnterPhase, HalfPressed,
            disk, plan, Finish, Advance
<1>1. CASE PlanFails
  BY <1>1 DEF PlanFails, Untouched
<1>2. CASE PressFails
  BY <1>2 DEF PressFails, RaiseFault, PressPhases, Untouched, Marked, OwnReceipt
<1>3. CASE Interrupt \/ Kill
  <2>1. UNCHANGED <<file, ctl, from, opts, before, history, removed, incomplete>> /\ pc # "done"
    BY <1>3 DEF Interrupt, Kill
  <2>2. UNCHANGED <<Untouched, Marked, HalfPressed>>
    BY <2>1 DEF Untouched, Marked, OwnReceipt
  <2>3. Untouched \/ HalfPressed \/ Marked
    BY <2>1 DEF PressPhases
  <2>4. \/ pc' = "done" /\ exit' \in {"interrupted", "killed"}
        \/ pc' = "restore" /\ exit' = exit /\ pc \in PressPhases \ {"report"}
    BY <1>3 DEF Interrupt, Kill
  <2> QED
    BY <2>1, <2>2, <2>3, <2>4 DEF PressPhases
<1>4. ASSUME NEW f \in Commands, LaunchAmiss(f) PROVE OutcomeInv'
  BY <1>4 DEF LaunchAmiss, CommandPhase
<1>5. ASSUME NEW f \in Files, OtherProcess(f) PROVE OutcomeInv'
  <2>1. PICK s \in Damages : /\ file' = [file EXCEPT ![f] = s]
                             /\ before' = [before EXCEPT !.file[f] = s]
    BY <1>5 DEF OtherProcess
  <2>2. before'.ctl = before.ctl /\ before'.file = [before.file EXCEPT ![f] = s]
    BY <2>1, <1>b
  <2>3. Untouched => Untouched'
    BY <1>5, <2>1, <2>2 DEF OtherProcess, Untouched
  <2> QED BY <1>5, <2>2, <2>3 DEF OtherProcess
<1>6. ASSUME NEW c \in Control, RestoreFails(c) PROVE OutcomeInv'
  BY <1>6 DEF RestoreFails
<1> QED
  BY <1>1, <1>2, <1>3, <1>4, <1>5, <1>6 DEF MishapStep

(***************************************************************************)
(* Every step of a run keeps the invariant.                                *)
(***************************************************************************)
LEMMA OutcomeStep == MarkInv /\ OutcomeInv /\ [Next]_vars => OutcomeInv'
<1> SUFFICES ASSUME MarkInv, OutcomeInv, UNCHANGED vars PROVE OutcomeInv'
  BY MainOutcome, PressOutcome, MishapOutcome DEF Next
<1> QED
  BY DEF vars, OutcomeInv, RefusalInv, SuccessInv, ExitCodeContract, OwnReceipt,
         Untouched, HalfPressed, Marked

(***************************************************************************)
(* The disk bears out every exit code of `press rebrand`: 0 stands over    *)
(* its own receipt or an undisturbed dry run, 2 over an untouched tree,    *)
(* and any other end leaves the tree untouched, half pressed and unmarked, *)
(* or pressed and marked.                                                  *)
(***************************************************************************)
THEOREM ExitCodesTrue == Spec => []ExitCodeContract
<1>1. Init => OutcomeInv
  BY InitOutcome
<1>2. InductiveInvariant /\ OutcomeInv /\ [Next]_vars => OutcomeInv'
  BY OutcomeStep DEF InductiveInvariant
<1>3. OutcomeInv => ExitCodeContract
  BY DEF OutcomeInv
<1> QED
  BY <1>1, <1>2, <1>3, Inductive, PTL DEF Spec

(***************************************************************************)
(* The receipt of a press records every declared removal that is missing,  *)
(* made by it or by any press before it, and all that the receipt it       *)
(* replaced recorded.                                                      *)
(***************************************************************************)
THEOREM HistoryCarried == Spec => []RemovalHistoryCarried
<1>1. Init => OutcomeInv
  BY InitOutcome
<1>2. InductiveInvariant /\ OutcomeInv /\ [Next]_vars => OutcomeInv'
  BY OutcomeStep DEF InductiveInvariant
<1>3. OutcomeInv => RemovalHistoryCarried
  BY DEF OutcomeInv, SuccessInv, RemovalHistoryCarried, OwnReceipt, Marked
<1> QED
  BY <1>1, <1>2, <1>3, Inductive, PTL DEF Spec
=============================================================================
