------------------------ MODULE PressLifecycleProofs ------------------------
(***************************************************************************)
(* Verify-then-mark over any number of runs, kills, restores and commits,  *)
(* and the refinement of the abstract promise.                             *)
(***************************************************************************)
EXTENDS PressLifecycle, PressRunProofs

USE DEF disk, plan, recovery

(***************************************************************************)
(* The invariant of one run, and the same of what Git would restore.       *)
(***************************************************************************)
LifecycleInv == MarkInv /\ HeadReceiptTrue /\ CommitInv

LEMMA HeadKept == [Next]_vars => head' = head
BY DEF Next, MainStep, PressStep, MishapStep, CheckPreconditions, ResolveSource, BuildPlan,
       RunGates, InvalidateReceipt, WritePendingSource, EnterPress, PassDone, TakeSnapshot,
       ResetOne, RewriteOne, RemoveOne, SkipLaunch, Launch, CommandsDone, FinalValidation,
       RestoreOne, RestoreDone, Doctor, WriteSource, WriteReceipt, Report, GuardRaises,
       PlanFails, PressFails, RaiseFault, Interrupt, Kill, LaunchAmiss, OtherProcess,
       RestoreFails, Refuse, Proceed, vars

(***************************************************************************)
(* Exit code 0 of a real run is reached only over its receipt.             *)
(***************************************************************************)
LEMMA CommitKept == MarkInv /\ CommitInv /\ [Next]_vars => CommitInv'
<1> SUFFICES ASSUME MarkInv, CommitInv, [Next]_vars PROVE CommitInv'
  OBVIOUS
<1> USE DEF CommitInv, Refuse, Proceed, Finish, Advance
<1>1. CASE UNCHANGED vars
  BY <1>1 DEF vars
<1>2. CASE MainStep
  BY <1>2 DEF MainStep, CheckPreconditions, ResolveSource, BuildPlan, RunGates,
              InvalidateReceipt, WritePendingSource
<1>3. CASE WriteReceipt
  <2>1. CASE ctl.receipt = Blocked
    BY <1>3, <2>1 DEF WriteReceipt
  <2>2. CASE ctl.receipt # Blocked
    <3>1. OwnReceipt \in Receipts
      BY <1>3, ContentsAssumption
      DEF WriteReceipt, OwnReceipt, Receipts, MarkInv, TypeOK, Options
    <3>2. ctl'.receipt = OwnReceipt
      BY <1>3, <2>2 DEF WriteReceipt, OwnReceipt, MarkInv, TypeOK, Control
    <3> QED BY <1>3, <2>2, <3>1, <3>2 DEF WriteReceipt
  <2> QED BY <2>1, <2>2
<1>4. CASE PressStep /\ ~WriteReceipt
  BY <1>4 DEF PressStep, EnterPress, PassDone, TakeSnapshot, ResetOne, RewriteOne, RemoveOne,
              SkipLaunch, Launch, CommandPhase, CommandsDone, FinalValidation, RestoreOne,
              RestoreDone, Doctor, WriteSource, Report, GuardRaises, RaiseFault, EnterPhase,
              PressPhases, MutatePhases
<1>5. CASE MishapStep
  BY <1>5 DEF MishapStep, PlanFails, PressFails, RaiseFault, Interrupt, Kill, LaunchAmiss,
              CommandPhase, OtherProcess, RestoreFails, EnterPhase, PressPhases, MutatePhases,
              MainPhases
<1> QED BY <1>1, <1>2, <1>3, <1>4, <1>5 DEF Next

LEMMA InitLifecycle == Init => LifecycleInv
<1> SUFFICES ASSUME Init PROVE LifecycleInv
  OBVIOUS
<1>1. MarkInv
  BY InitMark
<1>2. head.file = file /\ head.ctl = ctl
  BY DEF Init, DiskInit
<1>3. CommitInv
  BY DEF Init, ProcessInit, CommitInv
<1> QED BY <1>1, <1>2, <1>3 DEF LifecycleInv, HeadReceiptTrue, MarkInv, ReceiptDescribesTree

(***************************************************************************)
(* A new process knows nothing, so it starts over whatever the last run    *)
(* left of the disk.                                                       *)
(***************************************************************************)
LEMMA StartStep ==
    ASSUME LifecycleInv, NEW o \in Options, StartRun(o)
    PROVE  LifecycleInv'
<1>1. TypeOK'
  <2>1. snapshot' \in [Control -> Contents]
    BY DEF StartRun, Contents, Special
  <2>2. before' \in [file : [Files -> FileState], ctl : [Control -> Contents]]
    BY DEF StartRun, LifecycleInv, MarkInv, TypeOK
  <2> QED BY <2>1, <2>2
          DEF StartRun, LifecycleInv, MarkInv, TypeOK, Work, MainPhases, Policies, Exits
<1>2. Unmarked' /\ Recovery' /\ Verified'
  BY DEF StartRun, Unmarked, Recovery, Verified, UnmarkedPhases, MutatePhases,
         CommandPhases, RulesReadPhases, VerifiedPhases
<1>3. ReceiptDescribesTree' /\ HeadReceiptTrue'
  BY DEF StartRun, LifecycleInv, MarkInv, ReceiptDescribesTree, HeadReceiptTrue, Certified
<1>4. CommitInv'
  BY DEF StartRun, CommitInv
<1> QED BY <1>1, <1>2, <1>3, <1>4 DEF LifecycleInv, MarkInv

LEMMA RestoreStep == LifecycleInv /\ GitRestore => LifecycleInv'
<1> SUFFICES ASSUME LifecycleInv, GitRestore PROVE LifecycleInv'
  OBVIOUS
<1> USE DEF LifecycleInv, MarkInv, GitRestore, DeadProcess
<1>1. TypeOK'
  BY DEF TypeOK, Policies, Work
<1>2. Unmarked' /\ Recovery' /\ Verified'
  BY DEF Unmarked, Recovery, Verified, UnmarkedPhases, MutatePhases,
         CommandPhases, RulesReadPhases, VerifiedPhases
<1>3. ReceiptDescribesTree' /\ HeadReceiptTrue'
  BY DEF ReceiptDescribesTree, HeadReceiptTrue, Certified
<1>4. CommitInv'
  <2>1. head' = [file |-> file', ctl |-> ctl']
    BY DEF TypeOK
  <2> QED BY <2>1 DEF CommitInv
<1> QED BY <1>1, <1>2, <1>3, <1>4

LEMMA CommitStep == LifecycleInv /\ GitCommit => LifecycleInv'
<1> SUFFICES ASSUME LifecycleInv, GitCommit PROVE LifecycleInv'
  OBVIOUS
<1> USE DEF LifecycleInv, MarkInv, GitCommit, DeadProcess
<1>1. TypeOK'
  BY DEF TypeOK, Work
<1>2. Unmarked' /\ Recovery' /\ Verified'
  BY DEF Unmarked, Recovery, Verified, UnmarkedPhases, MutatePhases, ReceiptPresent,
         CommandPhases, RulesReadPhases, VerifiedPhases
<1>3. ReceiptDescribesTree' /\ HeadReceiptTrue'
  BY DEF ReceiptDescribesTree, HeadReceiptTrue, Certified
<1>4. CommitInv'
  BY DEF CommitInv
<1> QED BY <1>1, <1>2, <1>3, <1>4

LEMMA LifecycleStep == LifecycleInv /\ [LifecycleNext]_vars => LifecycleInv'
<1> SUFFICES ASSUME LifecycleInv, [LifecycleNext]_vars PROVE LifecycleInv'
  OBVIOUS
<1>1. CASE [Next]_vars
  BY <1>1, MarkStep, HeadKept, CommitKept DEF LifecycleInv, HeadReceiptTrue, Certified
<1>2. CASE NextRun \/ RecommendedRun
  BY <1>2, StartStep, InputsAssumption DEF NextRun, RecommendedRun
<1>3. CASE GitRestore
  BY <1>3, RestoreStep
<1>4. CASE GitCommit
  BY <1>4, CommitStep
<1> QED BY <1>1, <1>2, <1>3, <1>4 DEF LifecycleNext, Operator

(***************************************************************************)
(* Whatever runs, kills, restores and commits a target has seen, a receipt *)
(* on its disk, and one Git would restore, describes the tree beside it.   *)
(***************************************************************************)
THEOREM LifecycleCorrect == LifecycleSpec => [](ReceiptDescribesTree /\ HeadReceiptTrue)
<1>1. LifecycleInv => ReceiptDescribesTree /\ HeadReceiptTrue
  BY DEF LifecycleInv, MarkInv
<1> QED BY <1>1, InitLifecycle, LifecycleStep, PTL DEF LifecycleSpec

-----------------------------------------------------------------------------
(***************************************************************************)
(* The receipt is not part of the tree it describes.                       *)
(***************************************************************************)
LEMMA DescribesIgnoresReceipt ==
    ASSUME NEW fl, NEW controls \in [Control -> Contents], NEW m
    PROVE  DescribesTree(m, TreeOf(fl, controls)) <=> Certified(fl, controls, m)
BY DEF DescribesTree, TreeOf, Certified, Control

LEMMA InitRefines == Init => Abstract!MarkInit
<1> SUFFICES ASSUME Init PROVE Abstract!MarkInit
  OBVIOUS
<1>1. LifecycleInv /\ head = [file |-> file, ctl |-> ctl]
  BY InitLifecycle DEF Init, DiskInit
<1>2. ctl \in [Control -> Contents]
  BY <1>1 DEF LifecycleInv, MarkInv, TypeOK
<1>3. Abstract!True(MarkOf(ctl), TreeOf(file, ctl))
  BY <1>1, <1>2, DescribesIgnoresReceipt
  DEF Abstract!True, MarkOf, LifecycleInv, MarkInv, ReceiptDescribesTree
<1> QED BY <1>1, <1>3 DEF Abstract!MarkInit

(***************************************************************************)
(* A step of a run: over a marked target it is the withdrawal of the mark  *)
(* or changes no disk, over an unmarked one it is the certification or     *)
(* leaves the target unmarked.                                             *)
(***************************************************************************)
LEMMA PressRefines ==
    LifecycleInv /\ [Next]_vars => [Abstract!MarkNext]_(Abstract!markVars)
<1> SUFFICES ASSUME LifecycleInv, [Next]_vars
             PROVE  [Abstract!MarkNext]_(Abstract!markVars)
  OBVIOUS
<1>1. /\ MarkInv /\ MarkInv' /\ head' = head
      /\ ctl \in [Control -> Contents] /\ ctl' \in [Control -> Contents]
      /\ "receipt" \in Control /\ Absent \notin Receipts
  BY MarkStep, HeadKept, SpecialsAreNoReceipts DEF LifecycleInv, MarkInv, TypeOK, Control
<1> USE <1>1 DEF MarkOf, TreeOf
<1>2. CASE ctl.receipt \in Receipts
  <2>1. file' = file /\ (ctl' = ctl \/ ctl' = [ctl EXCEPT !.receipt = Absent])
    BY <1>2, MarkedIsFrozen
  <2>2. CASE ctl' = ctl
    BY <2>1, <2>2 DEF Abstract!markVars
  <2>3. CASE ctl' = [ctl EXCEPT !.receipt = Absent]
    <3>1. MarkOf(ctl) # Absent /\ MarkOf(ctl)' = Absent
      BY <1>2, <2>3
    <3>2. TreeOf(file, ctl)' = TreeOf(file, ctl)
      BY <2>1, <2>3
    <3> QED BY <3>1, <3>2 DEF Abstract!MarkNext, Abstract!Withdraw
  <2> QED BY <2>1, <2>2, <2>3
<1>3. CASE ctl.receipt \notin Receipts /\ ctl'.receipt \notin Receipts
  <2>1. MarkOf(ctl) = Absent /\ MarkOf(ctl)' = Absent
    BY <1>3
  <2> QED BY <2>1 DEF Abstract!MarkNext, Abstract!Touch
<1>4. CASE ctl.receipt \notin Receipts /\ ctl'.receipt \in Receipts
  <2>1. file' = file /\ ctl' = [ctl EXCEPT !.receipt = OwnReceipt]
    BY <1>4, LastWrite
  <2>2. ctl'.receipt = OwnReceipt /\ OwnReceipt \in Receipts
    BY <1>4, <2>1
  <2>3. TreeOf(file, ctl)' = TreeOf(file, ctl)
    BY <2>1
  <2>4. Certified(file', ctl', OwnReceipt)
    BY <2>2 DEF MarkInv, ReceiptDescribesTree
  <2>5. DescribesTree(OwnReceipt, TreeOf(file, ctl))
    <3>1. Certified(file, ctl, OwnReceipt)
      BY <2>1, <2>4 DEF Certified, Control
    <3> QED BY <3>1, DescribesIgnoresReceipt
  <2>6. MarkOf(ctl) = Absent /\ MarkOf(ctl)' = OwnReceipt
    BY <1>4, <2>2
  <2>7. Abstract!Certify(OwnReceipt)
    BY <2>3, <2>5, <2>6 DEF Abstract!Certify
  <2> QED BY <2>2, <2>7 DEF Abstract!MarkNext
<1> QED BY <1>2, <1>3, <1>4

LEMMA OperatorRefines ==
    LifecycleInv /\ Operator => [Abstract!MarkNext]_(Abstract!markVars)
<1> SUFFICES ASSUME LifecycleInv, Operator PROVE [Abstract!MarkNext]_(Abstract!markVars)
  OBVIOUS
<1>1. ASSUME NEW o, StartRun(o) PROVE UNCHANGED Abstract!markVars
  BY <1>1 DEF StartRun, Abstract!markVars
<1>2. CASE GitRestore
  BY <1>2 DEF GitRestore, Abstract!MarkNext, Abstract!Restore
<1>3. CASE GitCommit
  <2>1. MarkOf(ctl) # Absent
    BY <1>3, SpecialsAreNoReceipts DEF GitCommit, LifecycleInv, CommitInv, MarkOf
  <2> QED BY <1>3, <2>1 DEF GitCommit, Abstract!MarkNext, Abstract!Save
<1> QED BY <1>1, <1>2, <1>3 DEF Operator, NextRun, RecommendedRun

(***************************************************************************)
(* Nothing but a verified press is ever committed.                         *)
(***************************************************************************)
THEOREM CommitsAreVerified == LifecycleSpec => OnlyVerifiedCommits
<1> DEFINE Good == head' # head => ctl.receipt \in Receipts /\ Certified(file, ctl, ctl.receipt)
<1>1. LifecycleInv /\ [LifecycleNext]_vars => [Good]_vars
  <2> SUFFICES ASSUME LifecycleInv, [LifecycleNext]_vars, head' # head
               PROVE  ctl.receipt \in Receipts /\ Certified(file, ctl, ctl.receipt)
    OBVIOUS
  <2>1. GitCommit
    BY HeadKept DEF LifecycleNext, Operator, NextRun, RecommendedRun, StartRun, GitRestore
  <2> QED BY <2>1 DEF GitCommit, LifecycleInv, CommitInv, MarkInv, ReceiptDescribesTree
<1> QED BY <1>1, InitLifecycle, LifecycleStep, PTL DEF LifecycleSpec, OnlyVerifiedCommits

(***************************************************************************)
(* The lifecycle implements the abstract promise.                          *)
(***************************************************************************)
THEOREM LifecycleRefines == LifecycleSpec => VerifiesThenMarks
<1>1. LifecycleInv /\ [LifecycleNext]_vars => [Abstract!MarkNext]_(Abstract!markVars)
  BY PressRefines, OperatorRefines DEF LifecycleNext
<1> QED
  BY <1>1, InitLifecycle, InitRefines, LifecycleStep, PTL
  DEF LifecycleSpec, VerifiesThenMarks, Abstract!MarkSpec

-----------------------------------------------------------------------------
(* A restored target can be pressed. *)

(***************************************************************************)
(* What the guards and gates of a run ask of a disk.                       *)
(***************************************************************************)
Pressable(fl, controls) ==
    /\ Source(fl, controls.source) # NoId
    /\ Discovered(fl) \in {Source(fl, controls.source), NoId}
    /\ \A f \in Commands \cup Resets : fl[f].there
    /\ \A f \in Removes :
          ~fl[f].there => controls.receipt \in Receipts /\ f \in controls.receipt.removed

BeforeRewrite == {"plan", "gate", "invalidate", "pending", "enter", "reset"}
AfterRemovals == {"snapshot", "edit", "regenerate", "validate", "doctor", "source", "receipt",
                  "report"}

(***************************************************************************)
(* Discovery reads the old identity until the manifest is rewritten, and   *)
(* the new one from then on.                                               *)
(***************************************************************************)
Expected ==
    IF pc \in BeforeRewrite \/ (pc = "rewrite" /\ Manifest \in todo) THEN from ELSE opts.dest

(***************************************************************************)
(* Discovery agrees with the run, every declared removal is accounted for, *)
(* and what is reported as a success, and what is committed, is pressable. *)
(***************************************************************************)
ReadyInv ==
    /\ pc \in BeforeRewrite \cup {"rewrite", "remove"} \cup AfterRemovals =>
          Discovered(file) \in {Expected, NoId}
    /\ pc = "remove" => Removes \subseteq todo \cup removed \cup history
    /\ pc \in AfterRemovals => Removes \subseteq removed \cup history
    /\ pc = "report" \/ (pc = "done" /\ exit = "0" /\ ~opts.dry) => Pressable(file, ctl)
    /\ Pressable(head.file, head.ctl)

(***************************************************************************)
(* Discovery reads nothing but the manifest.                               *)
(***************************************************************************)
LEMMA DiscoveredByManifest ==
    ASSUME NEW fl, NEW gl, fl[Manifest] = gl[Manifest] PROVE Discovered(fl) = Discovered(gl)
BY DEF Discovered

LEMMA DiscoveredSingle ==
    ASSUME NEW fl, NEW id \in Identities,
           \A other \in Identities : fl[Manifest].ids = {other} => other = id
    PROVE  Discovered(fl) \in {id, NoId}
BY DEF Discovered

LEMMA DiscoveredIs ==
    ASSUME NEW fl, NEW id \in Identities, fl[Manifest].there, fl[Manifest].ids = {id}
    PROVE  Discovered(fl) = id
<1>1. \E other \in Identities : fl[Manifest].ids = {other}
  OBVIOUS
<1>2. \A other \in Identities : fl[Manifest].ids = {other} => other = id
  OBVIOUS
<1> QED
  BY <1>1, <1>2 DEF Discovered

LEMMA DamagedManifest ==
    ASSUME PressableDeclarations, NEW fl, fl[Manifest] \in Damages PROVE Discovered(fl) = NoId
BY DEF PressableDeclarations, Discovered

(***************************************************************************)
(* The manifest is an ordinary file, which no declaration writes.          *)
(***************************************************************************)
LEMMA ManifestIsOrdinary ==
    /\ Manifest \in Files
    /\ Manifest \notin Commands \cup Resets \cup Removes
BY FilesAssumption DEF Files, Commands

(***************************************************************************)
(* A rewritten manifest names the new identity, or none.                   *)
(***************************************************************************)
LEMMA RewrittenManifest ==
    ASSUME TypeOK, from \in Identities, Discovered(file) \in {from, NoId},
           NEW fl, fl[Manifest] = Rewritten(file[Manifest])
    PROVE  Discovered(fl) \in {opts.dest, NoId}
<1> DEFINE s == file[Manifest]
<1>1. s \in FileState /\ opts.dest \in Identities
  BY ManifestIsOrdinary DEF TypeOK, Options
<1>2. CASE s.there /\ from \in s.ids
  <2>1. fl[Manifest].ids = (s.ids \ {from}) \cup {opts.dest}
    BY <1>1, <1>2 DEF Rewritten, FileState, Gone
  <2> QED
    BY <1>1, <2>1, DiscoveredSingle
<1>3. CASE ~(s.there /\ from \in s.ids)
  <2>1. fl[Manifest] = s
    BY <1>3 DEF Rewritten
  <2>2. Discovered(fl) = Discovered(file)
    BY <2>1, DiscoveredByManifest
  <2>3. Discovered(file) # from
    <3>1. Discovered(file) = from => s.there /\ s.ids = {from}
      BY ContentsAssumption DEF Discovered
    <3> QED
      BY <1>3, <3>1
  <2> QED
    BY <2>2, <2>3
<1> QED
  BY <1>2, <1>3

(***************************************************************************)
(* The phases of main(): discovery agreed with the source-config when the  *)
(* source was resolved, and nothing of it has changed since.               *)
(***************************************************************************)
LEMMA MainReady == MarkInv /\ CommitInv /\ ReadyInv /\ MainStep => ReadyInv'
<1> SUFFICES ASSUME MarkInv, CommitInv, ReadyInv, MainStep PROVE ReadyInv'
  OBVIOUS
<1> USE DEF ReadyInv, Expected, BeforeRewrite, AfterRemovals, Proceed, Refuse, Finish
<1>1. file' = file /\ head' = head /\ opts' = opts
  BY DEF MainStep, CheckPreconditions, ResolveSource, BuildPlan, RunGates, InvalidateReceipt,
         WritePendingSource
<1>2. Discovered(file)' = Discovered(file) /\ Pressable(head.file, head.ctl)'
  BY <1>1 DEF Discovered, Pressable, Source
<1>3. CASE CheckPreconditions
  BY <1>1, <1>2, <1>3 DEF CheckPreconditions
<1>4. CASE ResolveSource
  BY <1>1, <1>2, <1>4 DEF ResolveSource, Resolves
<1>5. CASE BuildPlan \/ InvalidateReceipt \/ WritePendingSource
  BY <1>1, <1>2, <1>5 DEF BuildPlan, InvalidateReceipt, WritePendingSource
<1>6. CASE RunGates
  BY <1>1, <1>2, <1>6 DEF RunGates
<1> QED
  BY <1>3, <1>4, <1>5, <1>6 DEF MainStep

(***************************************************************************)
(* The passes of _press over the files: the manifest is written by the     *)
(* rewrite only, and the remove pass accounts for every removal.           *)
(***************************************************************************)
LEMMA PassesReady ==
    ASSUME PressableDeclarations, MarkInv, ReadyInv, NEW f \in Files,
           ResetOne(f) \/ RewriteOne(f) \/ RemoveOne(f)
    PROVE  ReadyInv'
<1> USE DEF Expected, BeforeRewrite, AfterRemovals, Advance
<1>1. /\ TypeOK /\ UNCHANGED <<head, opts, from, history, pc>>
      /\ Pressable(head.file, head.ctl)' = Pressable(head.file, head.ctl)
  BY DEF MarkInv, ResetOne, RewriteOne, RemoveOne, Pressable, Source, Discovered
<1>2. CASE (ResetOne(f) \/ RemoveOne(f) \/ RewriteOne(f)) /\ f # Manifest
  <2>1. file'[Manifest] = file[Manifest]
    BY <1>1, <1>2, ManifestIsOrdinary DEF ResetOne, RemoveOne, RewriteOne, TypeOK
  <2>2. Discovered(file') = Discovered(file)
    BY <2>1, DiscoveredByManifest
  <2>3. Expected' = Expected
    BY <1>1, <1>2 DEF ResetOne, RemoveOne, RewriteOne
  <2> QED
    BY <1>1, <1>2, <2>2, <2>3 DEF ReadyInv, ResetOne, RemoveOne, RewriteOne, Discovered
<1>3. CASE RewriteOne(f) /\ f = Manifest
  <2>1. Discovered(file) \in {from, NoId} /\ from \in Identities
    BY <1>1, <1>3 DEF ReadyInv, RewriteOne, TypeOK
  <2>2. file'[Manifest] = Rewritten(file[Manifest])
    BY <1>1, <1>3 DEF RewriteOne, TypeOK
  <2>3. Discovered(file') \in {opts.dest, NoId}
    BY <1>1, <2>1, <2>2, RewrittenManifest
  <2>4. Expected' = opts.dest
    BY <1>1, <1>3 DEF RewriteOne
  <2>5. (Discovered(file) \in {Expected, NoId})'
    BY <2>3, <2>4
  <2> QED
    BY <1>1, <1>3, <2>5 DEF ReadyInv, RewriteOne
<1>4. f = Manifest => RewriteOne(f)
  BY <1>1, ManifestIsOrdinary DEF ResetOne, RemoveOne, TypeOK, Work
<1> QED
  BY <1>2, <1>3, <1>4

(***************************************************************************)
(* A step that leaves the files and the plan alone.                        *)
(***************************************************************************)
Quiet == UNCHANGED <<file, head, opts, from, history, removed>>

LEMMA QuietSteps ==
    ASSUME \/ EnterPress \/ PassDone \/ TakeSnapshot \/ CommandsDone \/ FinalValidation
           \/ (\E f \in Commands : SkipLaunch(f)) \/ (\E c \in Control : RestoreOne(c))
           \/ RestoreDone \/ Doctor \/ WriteSource \/ GuardRaises
    PROVE  /\ Quiet
           /\ pc' # "report" /\ ~(pc' = "done" /\ exit' = "0")
           /\ pc' \in BeforeRewrite \cup {"rewrite", "remove"} \cup AfterRemovals =>
                 \/ pc \in BeforeRewrite /\ pc' \in BeforeRewrite
                 \/ pc \in BeforeRewrite /\ pc' = "rewrite" /\ todo' = Files \ Excluded
                 \/ pc = "rewrite" /\ todo = {} /\ pc' = "remove" /\ todo' = Removes
                 \/ pc = "remove" /\ todo = {} /\ pc' = "snapshot"
                 \/ pc \in AfterRemovals /\ pc' \in AfterRemovals
BY DEF EnterPress, PassDone, TakeSnapshot, CommandsDone, FinalValidation, SkipLaunch, CommandPhase,
       RestoreOne, RestoreDone, Doctor, WriteSource, GuardRaises, RaiseFault, Quiet, Advance,
       Finish, BeforeRewrite, AfterRemovals

LEMMA QuietReady ==
    ASSUME PressableDeclarations, ReadyInv, Quiet,
           pc' # "report", ~(pc' = "done" /\ exit' = "0"),
           pc' \in BeforeRewrite \cup {"rewrite", "remove"} \cup AfterRemovals =>
                 \/ pc \in BeforeRewrite /\ pc' \in BeforeRewrite
                 \/ pc \in BeforeRewrite /\ pc' = "rewrite" /\ todo' = Files \ Excluded
                 \/ pc = "rewrite" /\ todo = {} /\ pc' = "remove" /\ todo' = Removes
                 \/ pc = "remove" /\ todo = {} /\ pc' = "snapshot"
                 \/ pc \in AfterRemovals /\ pc' \in AfterRemovals
    PROVE  ReadyInv'
<1> USE DEF Expected, BeforeRewrite, AfterRemovals, Quiet
<1>1. /\ Discovered(file)' = Discovered(file)
      /\ Pressable(head.file, head.ctl)' = Pressable(head.file, head.ctl)
  BY DEF Discovered, Pressable, Source
<1>2. Manifest \in Files \ Excluded
  BY ManifestIsOrdinary DEF PressableDeclarations
<1> QED
  BY <1>1, <1>2 DEF ReadyInv

(***************************************************************************)
(* A command never writes the manifest, unless it misbehaves.              *)
(***************************************************************************)
LEMMA LaunchReady ==
    ASSUME MarkInv, ReadyInv, NEW f \in Commands, Launch(f) PROVE ReadyInv'
<1> USE DEF Expected, BeforeRewrite, AfterRemovals, Launch, CommandPhase, Advance
<1>1. file'[Manifest] = file[Manifest]
  BY ManifestIsOrdinary DEF MarkInv, TypeOK
<1>2. Discovered(file') = Discovered(file)
  BY <1>1, DiscoveredByManifest
<1>3. Pressable(head.file, head.ctl)' = Pressable(head.file, head.ctl)
  BY DEF Pressable, Source, Discovered
<1>4. Discovered(file)' = Discovered(file')
  BY DEF Discovered
<1> QED
  BY <1>2, <1>3, <1>4 DEF ReadyInv

(***************************************************************************)
(* What the checks established is what makes the marked tree pressable.    *)
(***************************************************************************)
LEMMA ReceiptReady ==
    ASSUME PressableDeclarations, MarkInv, ReadyInv, WriteReceipt PROVE ReadyInv'
<1>1. Pressable(head.file, head.ctl)' = Pressable(head.file, head.ctl)
  BY DEF Pressable, Source, Discovered, WriteReceipt
<1>2. CASE ctl.receipt = Blocked
  BY <1>1, <1>2 DEF ReadyInv, WriteReceipt, Finish, BeforeRewrite, AfterRemovals
<1>3. CASE ctl.receipt # Blocked
  <2>1. /\ pc = "receipt" /\ pc' = "report" /\ file' = file /\ opts' = opts /\ head' = head
        /\ removed' = removed /\ history' = history
        /\ ctl' = [ctl EXCEPT !.receipt = OwnReceipt]
    BY <1>3 DEF WriteReceipt, Advance
  <2>2. OwnReceipt \in Receipts /\ OwnReceipt.removed = removed \cup history
    BY <2>1, ContentsAssumption DEF OwnReceipt, Receipts, MarkInv, TypeOK, Options
  <2>3. ctl'.receipt = OwnReceipt /\ ctl'.source = opts.dest
    BY <2>1 DEF MarkInv, Verified, TypeOK, Control, OwnReceipt
  <2>4. Source(file, ctl'.source) = opts.dest /\ opts.dest # NoId
    BY <2>3, ContentsAssumption DEF Source, MarkInv, TypeOK, Options
  <2>5. Discovered(file) \in {opts.dest, NoId}
    BY <2>1 DEF ReadyInv, Expected, BeforeRewrite, AfterRemovals
  <2>6. \A f \in Commands \cup Resets : file[f].there
    BY <2>1 DEF MarkInv, Verified, VerifiedPhases, Postcondition, PressableDeclarations, Stub
  <2>7. Removes \subseteq OwnReceipt.removed
    BY <2>1, <2>2 DEF ReadyInv, AfterRemovals
  <2>8. Pressable(file, ctl')
    BY <2>2, <2>3, <2>4, <2>5, <2>6, <2>7 DEF Pressable
  <2>9. Pressable(file, ctl)' = Pressable(file, ctl') /\ Discovered(file)' = Discovered(file)
    BY <2>1 DEF Pressable, Discovered, Source
  <2> QED
    BY <1>1, <2>1, <2>5, <2>7, <2>2, <2>8, <2>9
    DEF ReadyInv, Expected, BeforeRewrite, AfterRemovals
<1> QED
  BY <1>2, <1>3

LEMMA PressReady ==
    PressableDeclarations /\ MarkInv /\ ReadyInv /\ PressStep => ReadyInv'
<1> SUFFICES ASSUME PressableDeclarations, MarkInv, ReadyInv, PressStep PROVE ReadyInv'
  OBVIOUS
<1>1. CASE Report
  <2>1. Pressable(file, ctl)
    BY <1>1 DEF ReadyInv, Report
  <2>2. /\ Pressable(file, ctl)' = Pressable(file, ctl)
        /\ Pressable(head.file, head.ctl)' = Pressable(head.file, head.ctl)
    BY <1>1 DEF Pressable, Source, Discovered, Report
  <2> QED
    BY <1>1, <2>1, <2>2 DEF ReadyInv, Report, Finish, BeforeRewrite, AfterRemovals
<1>2. ASSUME \E f \in Files : ResetOne(f) \/ RewriteOne(f) \/ RemoveOne(f) PROVE ReadyInv'
  BY <1>2, PassesReady
<1>3. ASSUME \E f \in Commands : Launch(f) PROVE ReadyInv'
  BY <1>3, LaunchReady
<1>4. CASE WriteReceipt
  BY <1>4, ReceiptReady
<1>5. CASE \/ EnterPress \/ PassDone \/ TakeSnapshot \/ CommandsDone \/ FinalValidation
           \/ (\E f \in Commands : SkipLaunch(f)) \/ (\E c \in Control : RestoreOne(c))
           \/ RestoreDone \/ Doctor \/ WriteSource \/ GuardRaises
  BY <1>5, QuietSteps, QuietReady
<1> QED
  BY <1>1, <1>2, <1>3, <1>4, <1>5 DEF PressStep

(***************************************************************************)
(* A misbehaving command or another process leaves a manifest that spells  *)
(* no single identity, or the new one.                                     *)
(***************************************************************************)
LEMMA AmissReady ==
    ASSUME PressableDeclarations, MarkInv, ReadyInv, NEW f \in Commands, LaunchAmiss(f)
    PROVE  ReadyInv'
<1>1. /\ pc \in {"edit", "regenerate"} /\ pc' = pc
      /\ UNCHANGED <<head, opts, from, history, removed>>
  BY DEF LaunchAmiss, CommandPhase, Advance
<1>2. Pressable(head.file, head.ctl)' = Pressable(head.file, head.ctl)
  BY <1>1 DEF Pressable, Source, Discovered
<1>3. file'[Manifest] \in Damages \cup {Made, file[Manifest]}
  <2>1. PICK touched \in SUBSET Things :
           \E newFile \in [(touched \cap Files) \cup {f} -> Damages \cup {Made}] :
              file' = [g \in Files |-> IF g \in DOMAIN newFile THEN newFile[g] ELSE file[g]]
    BY DEF LaunchAmiss
  <2> QED
    BY <2>1, ManifestIsOrdinary
<1>4. Discovered(file') \in {opts.dest, NoId}
  <2>1. CASE file'[Manifest] \in Damages
    BY <2>1, DamagedManifest
  <2>2. CASE file'[Manifest] = Made
    <3>1. opts.dest \in Identities
      BY DEF MarkInv, TypeOK, Options
    <3>2. file'[Manifest].ids = {opts.dest}
      BY <2>2 DEF Made
    <3> QED
      BY <3>1, <3>2, DiscoveredSingle
  <2>3. CASE file'[Manifest] = file[Manifest]
    <3>1. Discovered(file') = Discovered(file)
      BY <2>3, DiscoveredByManifest
    <3> QED
      BY <1>1, <3>1 DEF ReadyInv, Expected, BeforeRewrite, AfterRemovals
  <2> QED
    BY <1>3, <2>1, <2>2, <2>3
<1>5. Discovered(file)' = Discovered(file')
  BY DEF Discovered
<1> QED
  BY <1>1, <1>2, <1>4, <1>5 DEF ReadyInv, Expected, BeforeRewrite, AfterRemovals

LEMMA OtherProcessReady ==
    ASSUME PressableDeclarations, MarkInv, ReadyInv, NEW f \in Files, OtherProcess(f)
    PROVE  ReadyInv'
<1>1. /\ pc \in {"pending", "enter", "reset", "rewrite", "remove", "snapshot", "edit",
                "regenerate", "validate"}
      /\ UNCHANGED <<head, opts, from, history, removed, pc, todo>>
  BY DEF OtherProcess
<1>2. Pressable(head.file, head.ctl)' = Pressable(head.file, head.ctl)
  BY <1>1 DEF Pressable, Source, Discovered
<1>3. Discovered(file') \in {Discovered(file), NoId}
  <2>1. file'[Manifest] \in Damages \cup {file[Manifest]}
    BY ManifestIsOrdinary DEF OtherProcess, MarkInv, TypeOK
  <2> QED
    BY <2>1, DamagedManifest, DiscoveredByManifest
<1>4. Discovered(file)' = Discovered(file') /\ Expected' = Expected
  BY <1>1 DEF Discovered, Expected
<1> QED
  BY <1>1, <1>2, <1>3, <1>4 DEF ReadyInv, AfterRemovals, BeforeRewrite

LEMMA MishapReady ==
    PressableDeclarations /\ MarkInv /\ CommitInv /\ ReadyInv /\ MishapStep => ReadyInv'
<1> SUFFICES ASSUME PressableDeclarations, MarkInv, CommitInv, ReadyInv, MishapStep
             PROVE  ReadyInv'
  OBVIOUS
<1>1. CASE \/ PlanFails \/ PressFails \/ Interrupt \/ Kill
           \/ \E c \in Control : RestoreFails(c)
  <2>1. Quiet /\ pc' \in {"restore", "done"} /\ ~(pc' = "done" /\ exit' = "0")
    BY <1>1 DEF PlanFails, PressFails, RaiseFault, Interrupt, Kill, RestoreFails, Finish,
                Advance, Quiet
  <2> QED
    BY <2>1, QuietReady DEF BeforeRewrite, AfterRemovals
<1>2. ASSUME \E f \in Commands : LaunchAmiss(f) PROVE ReadyInv'
  BY <1>2, AmissReady
<1>3. ASSUME \E f \in Files : OtherProcess(f) PROVE ReadyInv'
  BY <1>3, OtherProcessReady
<1> QED
  BY <1>1, <1>2, <1>3 DEF MishapStep

(***************************************************************************)
(* The operator restores what was committed, and commits a reported press. *)
(***************************************************************************)
LEMMA OperatorReady == LifecycleInv /\ ReadyInv /\ Operator => ReadyInv'
<1> SUFFICES ASSUME LifecycleInv, ReadyInv, Operator PROVE ReadyInv'
  OBVIOUS
<1> USE DEF BeforeRewrite, AfterRemovals, DeadProcess
<1>1. ASSUME NEW o, StartRun(o) PROVE ReadyInv'
  <2>1. pc' = "check" /\ UNCHANGED <<file, ctl, head>>
    BY <1>1 DEF StartRun
  <2>2. Pressable(head.file, head.ctl)' = Pressable(head.file, head.ctl)
    BY <2>1 DEF Pressable, Source, Discovered
  <2> QED
    BY <2>1, <2>2 DEF ReadyInv
<1>2. CASE GitRestore
  <2>1. pc' = "done" /\ head' = head /\ file' = head.file /\ ctl' = head.ctl
    BY <1>2 DEF GitRestore
  <2>2. /\ Pressable(head.file, head.ctl)' = Pressable(head.file, head.ctl)
        /\ Pressable(file, ctl)' = Pressable(head.file, head.ctl)
    BY <2>1 DEF Pressable, Source, Discovered
  <2> QED
    BY <2>1, <2>2 DEF ReadyInv
<1>3. CASE GitCommit
  <2>1. /\ pc = "done" /\ pc' = "done" /\ exit = "0" /\ ~opts.dry
        /\ UNCHANGED <<file, ctl>> /\ head' = [file |-> file, ctl |-> ctl]
    BY <1>3 DEF GitCommit
  <2>2. head'.file = file /\ head'.ctl = ctl
    BY <2>1
  <2>3. Pressable(file, ctl)
    BY <2>1 DEF ReadyInv
  <2>4. /\ Pressable(head.file, head.ctl)' = Pressable(file, ctl)
        /\ Pressable(file, ctl)' = Pressable(file, ctl)
    BY <2>1, <2>2 DEF Pressable, Source, Discovered
  <2> QED
    BY <2>1, <2>3, <2>4 DEF ReadyInv
<1> QED
  BY <1>1, <1>2, <1>3 DEF Operator, NextRun, RecommendedRun

(***************************************************************************)
(* A template that was never pressed, and a tree an earlier press left.    *)
(***************************************************************************)
LEMMA InitReady == PressableDeclarations /\ Init => ReadyInv
<1> SUFFICES ASSUME PressableDeclarations, Init PROVE ReadyInv
  OBVIOUS
<1>1. Manifest \in Files /\ Manifest \notin Excluded \cup Edits \cup Resets \cup Removes
  BY ManifestIsOrdinary DEF PressableDeclarations, Commands
<1>2. pc = "check" /\ head = [file |-> file, ctl |-> ctl]
  BY DEF Init, ProcessInit, DiskInit
<1>3. ASSUME NEW id \in Identities, NEW answers \in {Planned, Absent}, Template(id, answers)
      PROVE  Pressable(file, ctl)
  <2>1. \A f \in Files : file[f].there /\ file[f].ids = {id}
    BY <1>3 DEF Template
  <2>2. Discovered(file) = id
    BY <1>1, <2>1, DiscoveredIs
  <2>3. ctl.source \in {id, Absent}
    BY <1>3 DEF Template, Controls
  <2>4. Source(file, ctl.source) = id
    BY <2>2, <2>3, ContentsAssumption, SpecialsAreNoReceipts DEF Source
  <2>5. Commands \cup Resets \cup Removes \subseteq Files
    BY DEF Commands, Files
  <2> QED
    BY <2>1, <2>2, <2>4, <2>5, ContentsAssumption DEF Pressable
<1>4. ASSUME NEW id \in Identities, NEW answers \in {Planned, Absent},
             NEW old \in Identities \ {id}, Pressed(old, id, answers)
      PROVE  Pressable(file, ctl)
  <2> DEFINE r == [from |-> old, to |-> id, removed |-> Removes]
  <2>1. \A f \in Files : file[f] = PressedFile(old, id, f)
    BY <1>4 DEF Pressed
  <2>2. file[Manifest].there /\ file[Manifest].ids = {id}
    <3>1. Manifest \notin Ordinary \cap Excluded /\ Manifest \notin Ordinary \cap (Excluded \ Ignored)
      BY <1>1
    <3>2. PressedFile(old, id, Manifest) = [there |-> TRUE, ok |-> TRUE, ids |-> {id}]
      BY <1>1, <3>1 DEF PressedFile
    <3> QED
      BY <1>1, <2>1, <3>2
  <2>3. Discovered(file) = id
    BY <2>2, DiscoveredIs
  <2>4. ctl.source = id /\ ctl.receipt = r
    BY <1>4 DEF Pressed, Controls
  <2>5. Source(file, ctl.source) = id
    BY <2>4 DEF Source
  <2>6. r \in Receipts /\ r.removed = Removes
    BY DEF Receipts
  <2>7. ASSUME NEW f \in Commands \cup Resets PROVE file[f].there
    <3>1. f \in Files /\ f \notin Removes \cup Ordinary
      BY FilesAssumption DEF Commands, Files
    <3>2. PressedFile(old, id, f).there
      BY <3>1 DEF PressedFile, Stub
    <3> QED
      BY <2>1, <3>1, <3>2
  <2> QED
    BY <2>3, <2>4, <2>5, <2>6, <2>7, ContentsAssumption DEF Pressable
<1>5. Pressable(file, ctl)
  BY <1>3, <1>4 DEF Init, DiskInit
<1> QED
  BY <1>2, <1>5 DEF ReadyInv, BeforeRewrite, AfterRemovals

LEMMA ReadyStep ==
    PressableDeclarations /\ LifecycleInv /\ ReadyInv /\ [LifecycleNext]_vars => ReadyInv'
<1> SUFFICES ASSUME PressableDeclarations, LifecycleInv, ReadyInv, [LifecycleNext]_vars
             PROVE  ReadyInv'
  OBVIOUS
<1>1. CASE UNCHANGED vars
  <2>1. Quiet /\ UNCHANGED <<ctl, pc, todo, exit>>
    BY <1>1 DEF vars, Quiet
  <2>2. /\ Pressable(head.file, head.ctl)' = Pressable(head.file, head.ctl)
        /\ Pressable(file, ctl)' = Pressable(file, ctl)
        /\ Discovered(file)' = Discovered(file) /\ Expected' = Expected
    BY <2>1 DEF Pressable, Source, Discovered, Quiet, Expected
  <2> QED
    BY <2>1, <2>2 DEF ReadyInv, Quiet
<1>2. CASE Next
  BY <1>2, MainReady, PressReady, MishapReady DEF Next, LifecycleInv
<1>3. CASE Operator
  BY <1>3, OperatorReady
<1> QED
  BY <1>1, <1>2, <1>3 DEF LifecycleNext

(***************************************************************************)
(* Over a clean checkout the gates ask no more than that, as the ordinary  *)
(* files no declaration neutralises are ignored.                           *)
(***************************************************************************)
LEMMA PressableIsAccepted ==
    PressableDeclarations /\ LifecycleInv /\ ReadyInv => RestoredIsPressable
<1> SUFFICES ASSUME PressableDeclarations, LifecycleInv, ReadyInv, pc = "done", Restored
             PROVE  /\ \A d \in Identities \ {Source(file, ctl.source)} :
                          Resolves(file, ctl.source, TRUE, d)
                    /\ GatesPass(file, Recorded)
  BY DEF RestoredIsPressable
<1>1. Pressable(file, ctl) /\ file = head.file
  BY DEF ReadyInv, Restored
<1>2. ASSUME NEW d \in Identities \ {Source(file, ctl.source)}
      PROVE  Resolves(file, ctl.source, TRUE, d)
  BY <1>1, ContentsAssumption DEF Resolves, Pressable
<1>3. \A f \in Files : file[f].there => Committed(file, f)
  BY <1>1 DEF Committed
<1>4. Edits \cup Regens \cup Resets \cup Removes \subseteq Files
  BY DEF Files
<1>5. Excluded \cap (Ordinary \ Ignored) = {}
  BY DEF PressableDeclarations
<1> QED
  BY <1>1, <1>2, <1>3, <1>4, <1>5 DEF Pressable, GatesPass, Recorded, Commands

(***************************************************************************)
(* A target that Git restored can be pressed again, whatever the runs      *)
(* since its last commit did to it and however they ended: discovery does  *)
(* not contradict its source-config, and the gates accept every file its   *)
(* declarations name, with the removals its receipt recorded.              *)
(***************************************************************************)
THEOREM RestoredStaysPressable ==
    ASSUME PressableDeclarations PROVE LifecycleSpec => []RestoredIsPressable
<1>1. Init => LifecycleInv /\ ReadyInv
  BY InitLifecycle, InitReady
<1>2. LifecycleInv /\ ReadyInv /\ [LifecycleNext]_vars => (LifecycleInv /\ ReadyInv)'
  BY LifecycleStep, ReadyStep
<1>3. LifecycleInv /\ ReadyInv => RestoredIsPressable
  BY PressableIsAccepted
<1> QED
  BY <1>1, <1>2, <1>3, PTL DEF LifecycleSpec

=============================================================================
