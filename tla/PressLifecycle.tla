--------------------------- MODULE PressLifecycle ---------------------------
(***************************************************************************)
(* One target over many runs of `press rebrand`: the operator starts the   *)
(* next run when the last one ended, restores the checkout the way the     *)
(* restore hint says, and commits a press that ended with exit code 0.     *)
(* Nothing of a process survives it, so the next run knows only the disk.  *)
(***************************************************************************)
EXTENDS PressRun

DeadProcess == <<removed, failed, snapshot, policySnap, armed, handler, unrestored,
                 pc, todo, from, pending, history, exit>>

(***************************************************************************)
(* A run over other visibility inputs than this target was planned with is *)
(* another instance, as for the rules; the operator undoes the change.     *)
(***************************************************************************)
StartRun(o) ==
    /\ pc = "done"
    /\ policy = "planned"
    /\ opts' = o
    /\ pc' = "check" /\ todo' = {} /\ exit' = "none"
    /\ from' = NoId /\ pending' = FALSE /\ history' = {}
    /\ removed' = {} /\ failed' = FALSE
    /\ snapshot' = [c \in Control |-> Absent] /\ policySnap' = "planned"
    /\ armed' = FALSE /\ incomplete' = FALSE
    /\ handler' = "none" /\ unrestored' = {}
    /\ before' = [file |-> file, ctl |-> ctl]
    /\ UNCHANGED <<disk, mishaps>>

NextRun == \E o \in CommandLines : StartRun(o)

Restored == file = head.file /\ ctl = head.ctl /\ policy = "planned"

(***************************************************************************)
(* `git checkout -- . && git clean -fd`, and by hand what a command did to *)
(* Git's own configuration.  Nothing incomplete is left of the last run.   *)
(***************************************************************************)
GitRestore ==
    /\ pc = "done"
    /\ ~Restored
    /\ file' = head.file
    /\ ctl' = head.ctl
    /\ policy' = "planned"
    /\ incomplete' = FALSE
    /\ UNCHANGED <<head, opts, mishaps, before, DeadProcess>>

(***************************************************************************)
(* The operator commits what a successful press left.                      *)
(***************************************************************************)
GitCommit ==
    /\ pc = "done" /\ exit = "0" /\ ~opts.dry
    /\ head # [file |-> file, ctl |-> ctl]
    /\ head' = [file |-> file, ctl |-> ctl]
    /\ UNCHANGED <<file, ctl, policy, opts, mishaps, before, incomplete, DeadProcess>>

(***************************************************************************)
(* The run the documentation recommends over a clean checkout: to another  *)
(* identity, discovery accepted, --force exactly when a receipt stands.    *)
(***************************************************************************)
Recommended(o) ==
    /\ o.dest # Source(file, ctl.source)
    /\ o.accept /\ ~o.dry /\ ~o.allowDirty
    /\ o.force = ReceiptPresent

RecommendedRun == ~Dirty /\ \E o \in Options : Recommended(o) /\ StartRun(o)

Operator == NextRun \/ RecommendedRun \/ GitRestore \/ GitCommit

LifecycleNext == Next \/ Operator

LifecycleSpec == Init /\ [][LifecycleNext]_vars

(***************************************************************************)
(* An operator who, whenever a run ended, sooner or later restores the     *)
(* checkout or commits the press, and over a clean checkout sooner or      *)
(* later makes the recommended run.  Strong fairness: in between, any run  *)
(* may be started.                                                         *)
(***************************************************************************)
OperatorFairness == SF_vars(GitRestore \/ GitCommit) /\ SF_vars(RecommendedRun)

LifecycleLiveSpec == LifecycleSpec /\ Fairness /\ OperatorFairness

-----------------------------------------------------------------------------
(* The lifecycle implements verify-then-mark: the mark is the receipt this *)
(* tool rendered, the tree everything else on the disk.                    *)

MarkOf(controls) == IF controls.receipt \in Receipts THEN controls.receipt ELSE Absent
TreeOf(fl, controls) == [file |-> fl, ctl |-> [controls EXCEPT !.receipt = Absent]]
DescribesTree(m, t) == Certified(t.file, t.ctl, m)

Abstract == INSTANCE VerifyThenMark WITH
    Marks <- Receipts, None <- Absent, Describes <- DescribesTree,
    mark <- MarkOf(ctl),
    tree <- TreeOf(file, ctl),
    saved <- [mark |-> MarkOf(head.ctl), tree |-> TreeOf(head.file, head.ctl)]

(***************************************************************************)
(* Every step of every run, failed or killed, of the operator and of the   *)
(* other process is a step of the promise or leaves disk and HEAD alone.   *)
(***************************************************************************)
VerifiesThenMarks == Abstract!MarkSpec

-----------------------------------------------------------------------------
(* Properties. *)

(***************************************************************************)
(* What Git would restore is never a half press either: a committed        *)
(* receipt describes the committed tree, however the runs since ended.     *)
(***************************************************************************)
HeadReceiptTrue ==
    head.ctl.receipt \in Receipts => Certified(head.file, head.ctl, head.ctl.receipt)

(***************************************************************************)
(* A restored target can be pressed, to any identity but its own: it       *)
(* resolves, and the gates accept it with the removals its receipt         *)
(* recorded.  The removal history is what makes this hold from the second  *)
(* press on.                                                               *)
(*                                                                         *)
(* Pressable declarations: the press rewrites the manifest; excluded files *)
(* no declaration names are excused; a declared command has reset files    *)
(* looked at again; and what a misbehaving program leaves of a file does   *)
(* not spell one identity, as if the target had been pressed by hand.      *)
(***************************************************************************)
PressableDeclarations ==
    /\ Manifest \notin Excluded
    /\ Ordinary \cap Excluded \subseteq Ignored
    /\ Resets # {} => Commands # {}
    /\ \A s \in Damages, id \in Identities : s.ids # {id}

Recorded == IF ctl.receipt \in Receipts THEN ctl.receipt.removed ELSE {}

RestoredIsPressable ==
    pc = "done" /\ Restored =>
        /\ \A d \in Identities \ {Source(file, ctl.source)} :
              Resolves(file, ctl.source, TRUE, d)
        /\ GatesPass(file, Recorded)

(***************************************************************************)
(* A run never changes what Git would restore, and a failed or killed run  *)
(* can always be undone by it: only a successful press is committed.       *)
(***************************************************************************)
OnlyVerifiedCommits ==
    [][head' # head => ctl.receipt \in Receipts /\ Certified(file, ctl, ctl.receipt)]_vars

(* A successful press that was not undone since carries a receipt.         *)
CommitInv ==
    /\ pc # "done" => exit = "none"
    /\ pc = "report" => ctl.receipt \in Receipts
    /\ pc = "done" /\ exit = "0" /\ ~opts.dry =>
          ctl.receipt \in Receipts \/ head = [file |-> file, ctl |-> ctl]

(***************************************************************************)
(* Crashes, failures and refused runs notwithstanding, the target is       *)
(* eventually pressed again.                                               *)
(***************************************************************************)
KeepsGettingPressed == []<>(exit = "0" /\ ~opts.dry)

(***************************************************************************)
(* No run hangs, with whatever is left to restore: every one of them ends. *)
(***************************************************************************)
EachRunEnds == []<>(pc = "done")
=============================================================================
