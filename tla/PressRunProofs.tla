--------------------------- MODULE PressRunProofs ---------------------------
(***************************************************************************)
(* Proofs about one run: type correctness, and the inductive invariant     *)
(* behind verify-then-mark and behind the recovery of the control files.   *)
(***************************************************************************)
EXTENDS PressRun, TLAPS

USE DEF disk, plan, recovery

(***************************************************************************)
(* What a command or another process leaves of a file is a file state.     *)
(***************************************************************************)
LEMMA FileStates ==
    /\ Gone \in FileState /\ Stub \in FileState
    /\ Damages \subseteq FileState
    /\ opts \in Options => Made \in FileState
    /\ opts \in Options =>
          \A s \in FileState : Rewritten(s) \in FileState
<1>1. Gone \in FileState /\ Stub \in FileState
  BY DEF Gone, Stub, FileState
<1>2. Damages \subseteq FileState
  BY InputsAssumption
<1>3. ASSUME opts \in Options PROVE opts.dest \in Identities
  BY <1>3 DEF Options
<1>4. ASSUME opts \in Options PROVE Made \in FileState
  BY <1>3, <1>4 DEF Made, FileState
<1>5. ASSUME opts \in Options, NEW s \in FileState
      PROVE  Rewritten(s) \in FileState
  <2>1. CASE s = Gone
    BY <2>1 DEF Gone, Rewritten, FileState
  <2>2. CASE s \in [there : {TRUE}, ids : SUBSET Identities, ok : BOOLEAN]
    <3>1. [s EXCEPT !.ids = (s.ids \ {from}) \cup {opts.dest}]
             \in [there : {TRUE}, ids : SUBSET Identities, ok : BOOLEAN]
      BY <1>3, <1>5, <2>2
    <3> QED BY <2>2, <3>1 DEF Rewritten, FileState
  <2> QED BY <1>5, <2>1, <2>2 DEF FileState
<1> QED BY <1>1, <1>2, <1>4, <1>5

LEMMA InitTypeOK == Init => TypeOK
<1> SUFFICES ASSUME Init PROVE TypeOK
  OBVIOUS
<1>1. file \in [Files -> FileState] /\ ctl \in [Control -> Contents]
  <2>1. ASSUME NEW id \in Identities, NEW answers \in {Planned, Absent}, Template(id, answers)
        PROVE  file \in [Files -> FileState] /\ ctl \in [Control -> Contents]
    BY <2>1 DEF Template, Controls, Control, Contents, Special, FileState
  <2>2. ASSUME NEW id \in Identities, NEW answers \in {Planned, Absent},
               NEW old \in Identities \ {id}, Pressed(old, id, answers)
        PROVE  file \in [Files -> FileState] /\ ctl \in [Control -> Contents]
    <3>1. \A f \in Files : PressedFile(old, id, f) \in FileState
      BY <2>2 DEF PressedFile, FileState, Stub
    <3>2. [from |-> old, to |-> id, removed |-> Removes] \in Receipts
      BY DEF Receipts
    <3> QED BY <2>2, <3>1, <3>2 DEF Pressed, Controls, Control, Contents, Special
  <2> QED BY <2>1, <2>2 DEF Init, DiskInit
<1>2. opts \in Options
  BY InputsAssumption DEF Init
<1>3. /\ head \in [file : [Files -> FileState], ctl : [Control -> Contents]]
      /\ before \in [file : [Files -> FileState], ctl : [Control -> Contents]]
  BY <1>1 DEF Init, DiskInit, ProcessInit
<1>4. snapshot \in [Control -> Contents] /\ mishaps \in 0..MaxMishaps
  BY ContentsAssumption DEF Init, ProcessInit, Contents, Special
<1> QED BY <1>1, <1>2, <1>3, <1>4
        DEF Init, DiskInit, ProcessInit, TypeOK, Work, MainPhases, Policies, Exits

(***************************************************************************)
(* What _resolve_source settles on is an identity or nothing.              *)
(***************************************************************************)
LEMMA SourceIsIdentity ==
    \A fl, config : Source(fl, config) \in Identities \cup {NoId}
BY DEF Source, Discovered

LEMMA TypeStep == TypeOK /\ [Next]_vars => TypeOK'
<1> SUFFICES ASSUME TypeOK, [Next]_vars PROVE TypeOK'
  OBVIOUS
<1>0. MaxMishaps \in Nat
  BY ContentsAssumption
<1> USE <1>0 DEF TypeOK, Work, Proceed, Refuse, Finish, Advance, Mishap, MainPhases, PressPhases,
            MutatePhases, EnterPhase, Exits, Policies, Files
<1>1. CASE UNCHANGED vars
  BY <1>1 DEF vars
<1>2. CASE CheckPreconditions
  BY <1>2 DEF CheckPreconditions
<1>3. CASE ResolveSource
  <2>1. CASE ~Resolves(file, ctl.source, opts.accept, opts.dest)
    BY <1>3, <2>1 DEF ResolveSource
  <2>2. CASE Resolves(file, ctl.source, opts.accept, opts.dest)
    <3>1. from' \in Identities \cup {NoId}
      BY <1>3, <2>2, SourceIsIdentity DEF ResolveSource
    <3>2. pending' \in BOOLEAN
      BY <1>3, <2>2 DEF ResolveSource
    <3>3. /\ pc' = "plan" /\ from' # NoId
          /\ UNCHANGED <<disk, opts, recovery, history, before, todo, removed, failed,
                         incomplete, handler, mishaps, exit>>
      BY <1>3, <2>2 DEF ResolveSource, Resolves
    <3> QED BY <1>3, <3>1, <3>2, <3>3 DEF ResolveSource
  <2> QED BY <2>1, <2>2
<1>4. CASE BuildPlan
  <2>1. history' \in SUBSET Removes
    BY <1>4 DEF BuildPlan, Receipts
  <2> QED BY <1>4, <2>1 DEF BuildPlan
<1>5. CASE RunGates
  BY <1>5 DEF RunGates
<1>6. CASE InvalidateReceipt
  BY <1>6 DEF InvalidateReceipt, Control, Contents, Special
<1>7. CASE WritePendingSource
  <2>1. from \in Contents
    BY <1>7 DEF WritePendingSource, Contents
  <2>2. ctl' \in [Control -> Contents]
    BY <1>7, <2>1 DEF WritePendingSource
  <2> QED BY <1>7, <2>2 DEF WritePendingSource
<1>8. CASE EnterPress
  BY <1>8 DEF EnterPress
<1>9. CASE PassDone
  BY <1>9 DEF PassDone
<1>10. CASE TakeSnapshot
  <2>1. snapshot' \in [Control -> Contents]
    BY <1>10 DEF TakeSnapshot, Contents, Special
  <2>2. todo' \in SUBSET Work(pc')
    BY <1>10 DEF TakeSnapshot
  <2>3. /\ policySnap' \in Policies /\ armed' \in BOOLEAN
        /\ pc' \in {"doctor", "edit"}
    BY <1>10 DEF TakeSnapshot
  <2>4. /\ pc = "snapshot"
        /\ UNCHANGED <<disk, plan, removed, failed, incomplete, handler, unrestored, mishaps, exit>>
    BY <1>10 DEF TakeSnapshot
  <2> QED BY <2>1, <2>2, <2>3, <2>4
<1>11. ASSUME NEW f \in Files, ResetOne(f) PROVE TypeOK'
  BY <1>11, FileStates DEF ResetOne
<1>12. ASSUME NEW f \in Files, RewriteOne(f) PROVE TypeOK'
  BY <1>12, FileStates DEF RewriteOne
<1>13. ASSUME NEW f \in Files, RemoveOne(f) PROVE TypeOK'
  <2>1. removed' \in SUBSET Removes
    BY <1>13 DEF RemoveOne
  <2> QED BY <1>13, <2>1, FileStates DEF RemoveOne
<1>14. ASSUME NEW f \in Commands, SkipLaunch(f) PROVE TypeOK'
  BY <1>14 DEF SkipLaunch
<1>15. ASSUME NEW f \in Commands, Launch(f) PROVE TypeOK'
  BY <1>15, FileStates DEF Launch, Commands, Files
<1>16. CASE CommandsDone
  BY <1>16 DEF CommandsDone
<1>17. CASE FinalValidation
  <2>1. \/ pc' = "doctor" /\ todo' = {} /\ armed' = FALSE
        \/ pc' = "restore" /\ todo' = Control /\ armed' = armed
    BY <1>17 DEF FinalValidation
  <2>2. /\ pc = "validate"
        /\ UNCHANGED <<disk, plan, snapshot, policySnap, unrestored, removed, failed,
                       incomplete, handler, mishaps, exit>>
    BY <1>17 DEF FinalValidation
  <2>3. todo' \in SUBSET Work(pc') /\ armed' \in BOOLEAN
    BY <2>1
  <2> QED BY <2>1, <2>2, <2>3
<1>18. ASSUME NEW c \in Control, RestoreOne(c) PROVE TypeOK'
  BY <1>18 DEF RestoreOne
<1>19. CASE RestoreDone
  BY <1>19 DEF RestoreDone
<1>20. CASE Doctor
  BY <1>20 DEF Doctor
<1>21. CASE WriteSource
  BY <1>21 DEF WriteSource, Control, Contents, Options
<1>22. CASE WriteReceipt
  <2>1. CASE ctl.receipt = Blocked
    BY <1>22, <2>1 DEF WriteReceipt
  <2>2. CASE ctl.receipt # Blocked
    <3>1. OwnReceipt \in Contents
      <4>1. from \in Identities /\ opts.dest \in Identities
        BY <1>22, ContentsAssumption DEF WriteReceipt, Options
      <4>2. OwnReceipt \in Receipts
        BY <4>1 DEF OwnReceipt, Receipts
      <4> QED BY <4>2 DEF Contents
    <3>2. ctl' \in [Control -> Contents]
      BY <1>22, <2>2, <3>1 DEF WriteReceipt, OwnReceipt
    <3>3. /\ incomplete' \in BOOLEAN /\ pc = "receipt" /\ pc' = "report" /\ todo' = {}
      BY <1>22, <2>2 DEF WriteReceipt
    <3>4. UNCHANGED <<file, policy, head, opts, from, pending, history, before, snapshot, armed,
                      policySnap, unrestored, removed, failed, handler, mishaps, exit>>
      BY <1>22, <2>2 DEF WriteReceipt
    <3> QED BY <3>2, <3>3, <3>4
  <2> QED BY <2>1, <2>2
<1>23. CASE Report
  BY <1>23 DEF Report
<1>24. CASE GuardRaises
  BY <1>24 DEF GuardRaises, RaiseFault
<1>25. CASE PlanFails
  BY <1>25 DEF PlanFails
<1>26. CASE PressFails
  BY <1>26 DEF PressFails, RaiseFault
<1>27. CASE Interrupt
  BY <1>27 DEF Interrupt
<1>28. CASE Kill
  BY <1>28 DEF Kill
<1>29. ASSUME NEW f \in Commands, LaunchAmiss(f) PROVE TypeOK'
  BY <1>29, FileStates DEF LaunchAmiss, Contents, Special
<1>30. ASSUME NEW f \in Files, OtherProcess(f) PROVE TypeOK'
  BY <1>30, FileStates DEF OtherProcess
<1>31. ASSUME NEW c \in Control, RestoreFails(c) PROVE TypeOK'
  BY <1>31 DEF RestoreFails
<1> QED
  BY <1>1, <1>2, <1>3, <1>4, <1>5, <1>6, <1>7, <1>8, <1>9, <1>10, <1>11, <1>12,
     <1>13, <1>14, <1>15, <1>16, <1>17, <1>18, <1>19, <1>20, <1>21, <1>22, <1>23,
     <1>24, <1>25, <1>26, <1>27, <1>28, <1>29, <1>30, <1>31
  DEF Next, MainStep, PressStep, MishapStep

-----------------------------------------------------------------------------
(***************************************************************************)
(* No content a command or the process writes in place of a control file   *)
(* is a receipt.                                                           *)
(***************************************************************************)
LEMMA SpecialsAreNoReceipts ==
    /\ Special \cap Receipts = {} /\ Special \cap Identities = {}
    /\ Identities \cap Receipts = {}
    /\ Absent \in Special /\ Planned \in Special /\ Forged \in Special /\ Blocked \in Special
BY ContentsAssumption DEF Special

LEMMA InitMark == Init => MarkInv
<1> SUFFICES ASSUME Init PROVE MarkInv
  OBVIOUS
<1>1. TypeOK
  BY InitTypeOK
<1>2. Unmarked /\ Recovery /\ Verified
  BY DEF Init, ProcessInit, Unmarked, Recovery, Verified, UnmarkedPhases, MutatePhases,
         CommandPhases, RulesReadPhases, VerifiedPhases
<1>3. ReceiptDescribesTree
  <2>1. ASSUME NEW id \in Identities, NEW answers \in {Planned, Absent}, Template(id, answers)
        PROVE  ReceiptDescribesTree
    BY <2>1, SpecialsAreNoReceipts DEF Template, Controls, ReceiptDescribesTree
  <2>2. ASSUME NEW id \in Identities, NEW answers \in {Planned, Absent},
               NEW old \in Identities \ {id}, Pressed(old, id, answers)
        PROVE  ReceiptDescribesTree
    <3> DEFINE r == [from |-> old, to |-> id, removed |-> Removes]
    <3>1. ctl = Controls(id, answers, r) /\ ctl.receipt = r
      BY <2>2 DEF Pressed, Controls
    <3>2. ctl.source = r.to /\ ctl.rules = Planned
      BY <3>1 DEF Controls
    <3>3. \A f \in Files : file[f] = PressedFile(old, id, f)
      BY <2>2 DEF Pressed
    <3>4. \A f \in Commands : file[f] = [there |-> TRUE, ok |-> TRUE, ids |-> {id}]
      <4>1. \A f \in Commands : f \in Files /\ f \notin Removes \cup Resets \cup Ordinary
        BY FilesAssumption DEF Commands, Files
      <4> QED BY <3>3, <4>1 DEF PressedFile
    <3>5. \A f \in Resets : file[f] = Stub
      BY <3>3, FilesAssumption DEF PressedFile, Files
    <3>6. ASSUME NEW f \in Scanned
          PROVE  file[f] \in {Gone, Stub, [there |-> TRUE, ok |-> TRUE, ids |-> {id}]}
      BY <3>3 DEF PressedFile, Scanned
    <3>7. \A f \in Scanned : file[f].there => old \notin file[f].ids
      BY <3>6 DEF Gone, Stub
    <3> QED BY <3>1, <3>2, <3>4, <3>5, <3>7 DEF ReceiptDescribesTree, Certified, Commands
  <2> QED BY <2>1, <2>2 DEF Init, DiskInit
<1> QED BY <1>1, <1>2, <1>3 DEF MarkInv

LEMMA MarkStep == MarkInv /\ [Next]_vars => MarkInv'
<1> SUFFICES ASSUME MarkInv, [Next]_vars PROVE MarkInv'
  OBVIOUS
<1>t1. TypeOK /\ TypeOK'
  BY TypeStep DEF MarkInv
<1>t2. /\ ctl \in [Control -> Contents] /\ snapshot \in [Control -> Contents]
       /\ "receipt" \in Control /\ "source" \in Control /\ "rules" \in Control
  BY <1>t1 DEF TypeOK, Control
<1>t3. Unmarked /\ Recovery /\ Verified /\ ReceiptDescribesTree
  BY DEF MarkInv
<1> SUFFICES Unmarked' /\ Recovery' /\ Verified' /\ ReceiptDescribesTree'
  BY <1>t1 DEF MarkInv
<1> USE <1>t2, <1>t3, SpecialsAreNoReceipts
    DEF Unmarked, Recovery, Verified, ReceiptDescribesTree, UnmarkedPhases, CommandPhases,
        RulesReadPhases, VerifiedPhases, MutatePhases, PressPhases, MainPhases, EnterPhase,
        ReceiptPresent, Leaks, Certified, Postcondition,
        Proceed, Refuse, Finish, Advance, Mishap
<1>1. CASE UNCHANGED vars
  BY <1>1 DEF vars
<1>2. CASE CheckPreconditions
  BY <1>2 DEF CheckPreconditions
<1>3. CASE ResolveSource
  BY <1>3 DEF ResolveSource
<1>4. CASE BuildPlan
  BY <1>4 DEF BuildPlan
<1>5. CASE RunGates
  BY <1>5 DEF RunGates
<1>6. CASE InvalidateReceipt
  BY <1>6 DEF InvalidateReceipt
<1>7. CASE WritePendingSource
  BY <1>7 DEF WritePendingSource
<1>8. CASE EnterPress
  BY <1>8 DEF EnterPress
<1>9. CASE PassDone
  BY <1>9 DEF PassDone
<1>10. CASE TakeSnapshot
  <2>1. CASE Commands = {}
    BY <1>10, <2>1 DEF TakeSnapshot
  <2>2. CASE Commands # {}
    <3>1. snapshot'.receipt \notin Receipts /\ snapshot'.rules = Planned
      BY <1>10, <2>2, ContentsAssumption DEF TakeSnapshot
    <3> QED BY <1>10, <2>2, <3>1 DEF TakeSnapshot
  <2> QED BY <2>1, <2>2
<1>11. ASSUME NEW f \in Files, ResetOne(f)
      PROVE  Unmarked' /\ Recovery' /\ Verified' /\ ReceiptDescribesTree'
  BY <1>11 DEF ResetOne
<1>12. ASSUME NEW f \in Files, RewriteOne(f)
      PROVE  Unmarked' /\ Recovery' /\ Verified' /\ ReceiptDescribesTree'
  BY <1>12 DEF RewriteOne
<1>13. ASSUME NEW f \in Files, RemoveOne(f)
      PROVE  Unmarked' /\ Recovery' /\ Verified' /\ ReceiptDescribesTree'
  BY <1>13 DEF RemoveOne
<1>14. ASSUME NEW f \in Commands, SkipLaunch(f)
      PROVE  Unmarked' /\ Recovery' /\ Verified' /\ ReceiptDescribesTree'
  BY <1>14 DEF SkipLaunch, CommandPhase
<1>15. ASSUME NEW f \in Commands, Launch(f)
      PROVE  Unmarked' /\ Recovery' /\ Verified' /\ ReceiptDescribesTree'
  BY <1>15 DEF Launch, CommandPhase
<1>16. CASE CommandsDone
  BY <1>16 DEF CommandsDone
<1>17. CASE FinalValidation
  BY <1>17 DEF FinalValidation, FinalPassClean
<1>18. ASSUME NEW c \in Control, RestoreOne(c)
      PROVE  Unmarked' /\ Recovery' /\ Verified' /\ ReceiptDescribesTree'
  BY <1>18 DEF RestoreOne
<1>19. CASE RestoreDone
  BY <1>19 DEF RestoreDone
<1>20. CASE Doctor
  BY <1>20 DEF Doctor
<1>21. CASE WriteSource
  BY <1>21 DEF WriteSource
<1>22. CASE WriteReceipt
  <2>1. CASE ctl.receipt = Blocked
    BY <1>22, <2>1 DEF WriteReceipt
  <2>2. CASE ctl.receipt # Blocked
    <3>1. /\ ctl'.receipt = OwnReceipt
          /\ ctl'.source = opts.dest /\ ctl'.rules = Planned
      BY <1>22, <2>2 DEF WriteReceipt, OwnReceipt
    <3>2. OwnReceipt.from = from /\ OwnReceipt.to = opts.dest
      BY DEF OwnReceipt
    <3>3. Certified(file, ctl', OwnReceipt)
      BY <1>22, <3>1, <3>2 DEF WriteReceipt, Commands
    <3>4. UNCHANGED <<file, armed, snapshot>> /\ pc' = "report" /\ incomplete' = FALSE
      BY <1>22, <2>2 DEF WriteReceipt
    <3> QED BY <1>22, <3>1, <3>3, <3>4 DEF WriteReceipt
  <2> QED BY <2>1, <2>2
<1>23. CASE Report
  BY <1>23 DEF Report
<1>24. CASE GuardRaises
  BY <1>24 DEF GuardRaises, RaiseFault
<1>25. CASE PlanFails
  BY <1>25 DEF PlanFails
<1>26. CASE PressFails
  BY <1>26 DEF PressFails, RaiseFault
<1>27. CASE Interrupt
  BY <1>27 DEF Interrupt
<1>28. CASE Kill
  BY <1>28 DEF Kill
<1>29. ASSUME NEW f \in Commands, LaunchAmiss(f)
      PROVE  Unmarked' /\ Recovery' /\ Verified' /\ ReceiptDescribesTree'
  BY <1>29 DEF LaunchAmiss, CommandPhase
<1>30. ASSUME NEW f \in Files, OtherProcess(f)
      PROVE  Unmarked' /\ Recovery' /\ Verified' /\ ReceiptDescribesTree'
  BY <1>30 DEF OtherProcess
<1>31. ASSUME NEW c \in Control, RestoreFails(c)
      PROVE  Unmarked' /\ Recovery' /\ Verified' /\ ReceiptDescribesTree'
  BY <1>31 DEF RestoreFails
<1> QED
  BY <1>1, <1>2, <1>3, <1>4, <1>5, <1>6, <1>7, <1>8, <1>9, <1>10, <1>11, <1>12, <1>13, <1>14, <1>15, <1>16, <1>17, <1>18, <1>19, <1>20, <1>21, <1>22, <1>23, <1>24, <1>25, <1>26, <1>27, <1>28, <1>29, <1>30, <1>31
  DEF Next, MainStep, PressStep, MishapStep

(***************************************************************************)
(* A marked target is left alone by a press until the press consumes the   *)
(* mark, and that step changes nothing else.                               *)
(***************************************************************************)
LEMMA MarkedIsFrozen ==
    MarkInv /\ [Next]_vars /\ ctl.receipt \in Receipts =>
        file' = file /\ (ctl' = ctl \/ ctl' = [ctl EXCEPT !.receipt = Absent])
<1> SUFFICES ASSUME MarkInv, [Next]_vars, ctl.receipt \in Receipts
             PROVE  file' = file /\ (ctl' = ctl \/ ctl' = [ctl EXCEPT !.receipt = Absent])
  OBVIOUS
<1>1. pc \notin UnmarkedPhases
  BY DEF MarkInv, Unmarked
<1>2. pc \in {"check", "resolve", "plan", "gate", "invalidate", "report", "done"}
  BY <1>1 DEF MarkInv, TypeOK, UnmarkedPhases, MainPhases, EnterPhase, PressPhases
<1>3. \/ UNCHANGED vars \/ MainStep \/ Report \/ PlanFails \/ PressFails \/ Interrupt \/ Kill
  BY <1>2 DEF Next, PressStep, MishapStep, EnterPress, PassDone, TakeSnapshot, ResetOne, RewriteOne,
              RemoveOne, SkipLaunch, Launch, CommandPhase, CommandsDone, FinalValidation,
              RestoreOne, RestoreDone, Doctor, WriteSource, WriteReceipt, GuardRaises,
              LaunchAmiss, OtherProcess, RestoreFails
<1>4. MainStep => file' = file /\ (ctl' = ctl \/ ctl' = [ctl EXCEPT !.receipt = Absent])
  BY <1>2 DEF MainStep, CheckPreconditions, ResolveSource, BuildPlan, RunGates, InvalidateReceipt,
              WritePendingSource, Refuse, Proceed
<1> QED BY <1>3, <1>4 DEF Report, PlanFails, PressFails, RaiseFault, Interrupt, Kill, vars

(***************************************************************************)
(* Only the last write of a press marks an unmarked target, and it changes *)
(* nothing else.                                                           *)
(***************************************************************************)
LEMMA LastWrite ==
    MarkInv /\ [Next]_vars /\ ctl.receipt \notin Receipts /\ ctl'.receipt \in Receipts =>
        /\ pc = "receipt"
        /\ file' = file /\ ctl' = [ctl EXCEPT !.receipt = OwnReceipt]
<1> SUFFICES ASSUME MarkInv, [Next]_vars, ctl.receipt \notin Receipts, ctl'.receipt \in Receipts
             PROVE  /\ pc = "receipt"
                    /\ file' = file /\ ctl' = [ctl EXCEPT !.receipt = OwnReceipt]
  OBVIOUS
<1>1. /\ ctl \in [Control -> Contents] /\ "receipt" \in Control
      /\ armed => snapshot.receipt \notin Receipts
      /\ pc = "restore" => armed
  BY DEF MarkInv, TypeOK, Recovery, Control
<1>2. ~ UNCHANGED ctl
  OBVIOUS
<1>3. ~ MainStep
  BY <1>1, <1>2, SpecialsAreNoReceipts
  DEF MainStep, CheckPreconditions, ResolveSource, BuildPlan, RunGates, InvalidateReceipt,
      WritePendingSource, Refuse, Proceed
<1>4. ASSUME NEW f \in Commands, LaunchAmiss(f) PROVE FALSE
  BY <1>1, <1>4, SpecialsAreNoReceipts DEF LaunchAmiss
<1>5. ~ MishapStep
  BY <1>2, <1>4 DEF MishapStep, PlanFails, PressFails, RaiseFault, Interrupt, Kill,
                    OtherProcess, RestoreFails
<1>6. ASSUME NEW c \in Control, RestoreOne(c) PROVE FALSE
  BY <1>1, <1>6 DEF RestoreOne
<1>7. ~ WriteSource
  BY <1>1 DEF WriteSource
<1>8. WriteReceipt
  BY <1>2, <1>3, <1>5, <1>6, <1>7
  DEF Next, PressStep, EnterPress, PassDone, TakeSnapshot, ResetOne, RewriteOne, RemoveOne,
      SkipLaunch, Launch, CommandsDone, FinalValidation, RestoreDone, Doctor, Report,
      GuardRaises, RaiseFault, vars
<1> QED BY <1>1, <1>2, <1>8 DEF WriteReceipt, OwnReceipt

-----------------------------------------------------------------------------
LEMMA InitControl == Init => ControlInv
<1> SUFFICES ASSUME Init PROVE ControlInv
  OBVIOUS
<1>1. \A c \in Control : ~Spoiled(c)
  <2>1. ASSUME NEW id \in Identities, NEW answers \in {Planned, Absent}, Template(id, answers)
        PROVE  \A c \in Control : ~Spoiled(c)
    BY <2>1, ContentsAssumption, SpecialsAreNoReceipts
    DEF Template, Controls, Control, Spoiled, Special
  <2>2. ASSUME NEW id \in Identities, NEW answers \in {Planned, Absent},
               NEW old \in Identities \ {id}, Pressed(old, id, answers)
        PROVE  \A c \in Control : ~Spoiled(c)
    <3>1. [from |-> old, to |-> id, removed |-> Removes] \in Receipts
      BY DEF Receipts
    <3> QED BY <2>2, <3>1, ContentsAssumption, SpecialsAreNoReceipts
            DEF Pressed, Controls, Control, Spoiled, Special
  <2> QED BY <2>1, <2>2 DEF Init, DiskInit
<1> QED BY <1>1 DEF Init, ProcessInit, ControlInv, NoForgedControlSurvives, CommandPhases

LEMMA ControlStep == InductiveInvariant /\ [Next]_vars => ControlInv'
<1> SUFFICES ASSUME InductiveInvariant, [Next]_vars PROVE ControlInv'
  OBVIOUS
<1>t1. TypeOK /\ Recovery /\ ControlInv
  BY DEF InductiveInvariant, MarkInv
<1>t2. /\ ctl \in [Control -> Contents] /\ snapshot \in [Control -> Contents]
       /\ opts.dest \in Identities /\ from \in Identities \cup {NoId}
       /\ from = NoId => pc \in {"check", "resolve", "done"}
       /\ removed \in SUBSET Removes /\ history \in SUBSET Removes
       /\ "receipt" \in Control /\ "source" \in Control
  BY <1>t1 DEF TypeOK, Control, Options
<1> USE <1>t2, <1>t1, SpecialsAreNoReceipts
    DEF Recovery, ControlInv, NoForgedControlSurvives, Spoiled, CommandPhases,
        MutatePhases, PressPhases, MainPhases, EnterPhase,
        Proceed, Refuse, Finish, Advance, Mishap
<1>1. CASE UNCHANGED vars
  BY <1>1 DEF vars
<1>2. CASE CheckPreconditions
  BY <1>2 DEF CheckPreconditions
<1>3. CASE ResolveSource
  BY <1>3 DEF ResolveSource
<1>4. CASE BuildPlan
  BY <1>4 DEF BuildPlan
<1>5. CASE RunGates
  BY <1>5 DEF RunGates
<1>6. CASE InvalidateReceipt
  BY <1>6, ContentsAssumption DEF InvalidateReceipt
<1>7. CASE WritePendingSource
  BY <1>7 DEF WritePendingSource
<1>8. CASE EnterPress
  BY <1>8 DEF EnterPress
<1>9. CASE PassDone
  BY <1>9 DEF PassDone
<1>10. CASE TakeSnapshot
  BY <1>10 DEF TakeSnapshot
<1>11. ASSUME NEW f \in Files, ResetOne(f) PROVE ControlInv'
  BY <1>11 DEF ResetOne
<1>12. ASSUME NEW f \in Files, RewriteOne(f) PROVE ControlInv'
  BY <1>12 DEF RewriteOne
<1>13. ASSUME NEW f \in Files, RemoveOne(f) PROVE ControlInv'
  BY <1>13 DEF RemoveOne
<1>14. ASSUME NEW f \in Commands, SkipLaunch(f) PROVE ControlInv'
  BY <1>14 DEF SkipLaunch, CommandPhase
<1>15. ASSUME NEW f \in Commands, Launch(f) PROVE ControlInv'
  BY <1>15 DEF Launch, CommandPhase
<1>16. CASE CommandsDone
  BY <1>16 DEF CommandsDone
<1>17. CASE FinalValidation
  BY <1>17 DEF FinalValidation, FinalPassClean
<1>18. ASSUME NEW c \in Control, RestoreOne(c) PROVE ControlInv'
  BY <1>18 DEF RestoreOne
<1>19. CASE RestoreDone
  BY <1>19 DEF RestoreDone
<1>20. CASE Doctor
  BY <1>20 DEF Doctor
<1>21. CASE WriteSource
  BY <1>21 DEF WriteSource
<1>22. CASE WriteReceipt
  <2>1. OwnReceipt \in Receipts
    <3>1. from \in Identities
      BY <1>22 DEF WriteReceipt
    <3> QED BY <3>1 DEF OwnReceipt, Receipts
  <2>2. OwnReceipt \notin {Forged, Blocked}
    BY <2>1
  <2>3. /\ \A c \in Control : ctl'[c] \in {ctl[c], OwnReceipt}
        /\ pc = "receipt" /\ pc' \in {"report", "done"}
        /\ UNCHANGED <<armed, snapshot, unrestored>>
    BY <1>22 DEF WriteReceipt, OwnReceipt
  <2> QED BY <2>2, <2>3
<1>23. CASE Report
  BY <1>23 DEF Report
<1>24. CASE GuardRaises
  BY <1>24 DEF GuardRaises, RaiseFault
<1>25. CASE PlanFails
  BY <1>25 DEF PlanFails
<1>26. CASE PressFails
  BY <1>26 DEF PressFails, RaiseFault
<1>27. CASE Interrupt
  BY <1>27 DEF Interrupt
<1>28. CASE Kill
  BY <1>28 DEF Kill
<1>29. ASSUME NEW f \in Commands, LaunchAmiss(f) PROVE ControlInv'
  BY <1>29 DEF LaunchAmiss, CommandPhase
<1>30. ASSUME NEW f \in Files, OtherProcess(f) PROVE ControlInv'
  BY <1>30 DEF OtherProcess
<1>31. ASSUME NEW c \in Control, RestoreFails(c) PROVE ControlInv'
  BY <1>31 DEF RestoreFails
<1> QED
  BY <1>1, <1>2, <1>3, <1>4, <1>5, <1>6, <1>7, <1>8, <1>9, <1>10, <1>11, <1>12, <1>13, <1>14, <1>15, <1>16, <1>17, <1>18, <1>19, <1>20, <1>21, <1>22, <1>23, <1>24, <1>25, <1>26, <1>27, <1>28, <1>29, <1>30, <1>31
  DEF Next, MainStep, PressStep, MishapStep

-----------------------------------------------------------------------------
(***************************************************************************)
(* The invariant holds throughout every run.                               *)
(***************************************************************************)
THEOREM Inductive == Spec => []InductiveInvariant
<1>1. Init => InductiveInvariant
  BY InitMark, InitControl DEF InductiveInvariant
<1>2. InductiveInvariant /\ [Next]_vars => InductiveInvariant'
  BY MarkStep, ControlStep DEF InductiveInvariant
<1> QED BY <1>1, <1>2, PTL DEF Spec

(***************************************************************************)
(* Every variable keeps its type, whatever commands, failures and other    *)
(* processes do.                                                           *)
(***************************************************************************)
THEOREM TypeCorrect == Spec => []TypeOK
<1>1. InductiveInvariant => TypeOK
  BY DEF InductiveInvariant, MarkInv
<1> QED BY <1>1, Inductive, PTL

(***************************************************************************)
(* Verify-then-mark: a receipt stands only over a tree that passed every   *)
(* check of the press that wrote it.                                       *)
(***************************************************************************)
THEOREM ReceiptCorrect == Spec => []ReceiptDescribesTree
<1>1. InductiveInvariant => ReceiptDescribesTree
  BY DEF InductiveInvariant, MarkInv
<1> QED BY <1>1, Inductive, PTL

(***************************************************************************)
(* No receipt stands from the first mutation on until the press is         *)
(* verified, nor after a run that failed in between.                       *)
(***************************************************************************)
THEOREM NoHalfPressMarked == Spec => []NoReceiptOverHalfPress
<1>1. InductiveInvariant => NoReceiptOverHalfPress
  BY DEF InductiveInvariant, MarkInv, Unmarked, NoReceiptOverHalfPress
<1> QED BY <1>1, Inductive, PTL

(***************************************************************************)
(* A run that ended by itself left no forged control file unreported.      *)
(***************************************************************************)
THEOREM ControlsRecovered == Spec => []NoForgedControlSurvives
<1>1. InductiveInvariant => NoForgedControlSurvives
  BY DEF InductiveInvariant, ControlInv
<1> QED BY <1>1, Inductive, PTL

(***************************************************************************)
(* Only the last write of a press marks the target; a recovery never does. *)
(***************************************************************************)
THEOREM LastWriteMarks == Spec => OnlyLastWriteMarks
<1> DEFINE Marks == ctl'.receipt \in Receipts /\ ctl'.receipt # ctl.receipt =>
                       pc = "receipt" /\ ctl'.receipt = OwnReceipt
<1>1. InductiveInvariant /\ [Next]_vars => [Marks]_vars
  <2> SUFFICES ASSUME InductiveInvariant, [Next]_vars,
                      ctl'.receipt \in Receipts, ctl'.receipt # ctl.receipt
               PROVE  pc = "receipt" /\ ctl'.receipt = OwnReceipt
    OBVIOUS
  <2>1. MarkInv /\ ctl \in [Control -> Contents] /\ "receipt" \in Control
    BY DEF InductiveInvariant, MarkInv, TypeOK, Control
  <2>2. ctl.receipt \notin Receipts
    BY <2>1, MarkedIsFrozen, SpecialsAreNoReceipts
  <2>3. pc = "receipt" /\ ctl' = [ctl EXCEPT !.receipt = OwnReceipt]
    BY <2>1, <2>2, LastWrite
  <2> QED BY <2>1, <2>3
<1> QED BY <1>1, Inductive, PTL DEF Spec, OnlyLastWriteMarks

=============================================================================
