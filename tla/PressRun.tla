------------------------------ MODULE PressRun ------------------------------
(***************************************************************************)
(* One run of `press rebrand` over one target repository: main() and       *)
(* _press() of cli.py with the passes they call (reset, rewrite, remove,   *)
(* declared commands, final validation, doctor, source-config and receipt  *)
(* writes).  The disk is what a kill leaves behind; everything else is the *)
(* memory of the running process.  A declared command is an arbitrary      *)
(* program: it may change any file, any control file and Git's visibility. *)
(***************************************************************************)
EXTENDS Integers, FiniteSets

CONSTANTS
    Identities,     \* the identities a target can carry
    Ordinary,       \* files no declaration names
    Manifest,       \* the ordinary file discovery reads the identity from
    Edits,          \* files of the active [[edit]] declarations
    Regens,         \* files of the active [[regenerate]] declarations
    Resets,         \* files of the active [[reset]] declarations
    Removes,        \* files of the active [[remove]] declarations
    Builtin,        \* DEFAULT_RULES.exclude_files: never rewritten, and the doctor skips them
    ExtraExcluded,  \* target-declared exclude_files: never rewritten
    Ignored,        \* verify_ignore: the doctor skips them, by decision
    Absent, Planned, Forged, Blocked, \* contents of a control file that are no identity or receipt
    NoId,           \* no identity discovered
    CommandLines,   \* the command lines the operator may use
    Damages,        \* what a misbehaving program may leave of a file
    MaxTouched,     \* things one launch may damage besides its own file
    MaxMishaps      \* errors, interrupts, kills and misbehaving launches

Files == Ordinary \cup Edits \cup Regens \cup Resets \cup Removes
Excluded == Builtin \cup ExtraExcluded
Commands == Edits \cup Regens

(***************************************************************************)
(* A declared file has one writer: the rules loader refuses overlapping    *)
(* declarations and an [[edit]] of an excluded file.                       *)
(***************************************************************************)
ASSUME FilesAssumption ==
    /\ Manifest \in Ordinary
    /\ Ordinary \cap (Edits \cup Regens \cup Resets \cup Removes) = {}
    /\ Edits \cap (Regens \cup Resets \cup Removes) = {}
    /\ Regens \cap (Resets \cup Removes) = {}
    /\ Resets \cap Removes = {}
    /\ Edits \cap Excluded = {}

Control == {"source", "rules", "answers", "receipt"}
Special == {Absent, Planned, Forged, Blocked}

(***************************************************************************)
(* A receipt this tool rendered; every other content of the receipt path   *)
(* is Absent, Forged (a regular file with other bytes) or Blocked (a       *)
(* directory or a link stands there).                                      *)
(***************************************************************************)
Receipts == [from : Identities, to : Identities, removed : SUBSET Removes]
Contents == Identities \cup Receipts \cup Special

ASSUME ContentsAssumption ==
    /\ Cardinality(Special) = 4
    /\ Absent # Planned /\ Absent # Forged /\ Absent # Blocked
    /\ Planned # Forged /\ Planned # Blocked /\ Forged # Blocked
    /\ Identities \cap Receipts = {}
    /\ Special \cap (Identities \cup Receipts) = {}
    /\ NoId \notin Identities
    /\ MaxTouched \in Nat /\ MaxMishaps \in Nat

(***************************************************************************)
(* there: a contained regular file stands at the path; ids: the identities *)
(* a scan of it finds; ok: it holds what its declaration promises (the     *)
(* edit's `expect`, the reset's stub, an output that decodes).             *)
(***************************************************************************)
Gone == [there |-> FALSE, ids |-> {}, ok |-> FALSE]
FileState == {Gone} \cup [there : {TRUE}, ids : SUBSET Identities, ok : BOOLEAN]
Stub == [there |-> TRUE, ids |-> {}, ok |-> TRUE]

Options == [dest : Identities, force : BOOLEAN, allowDirty : BOOLEAN,
            accept : BOOLEAN, dry : BOOLEAN]

ASSUME InputsAssumption == CommandLines \subseteq Options /\ Damages \subseteq FileState

VARIABLES
    (* the disk *)
    file,       \* [Files -> FileState]
    ctl,        \* [Control -> Contents]
    policy,     \* Git visibility (ignore inputs, config, index): as planned or changed
    head,       \* what Git would restore: [file, ctl] of the last commit
    (* the operator's command line *)
    opts,       \* [dest, force, allowDirty, accept, dry]
    (* the running process *)
    pc, todo, from, pending, history, removed, failed,
    snapshot, policySnap, armed, incomplete, handler, unrestored,
    mishaps, exit,
    (* history: the disk as it would be without this run *)
    before

disk == <<file, ctl, policy, head>>
plan == <<opts, from, pending, history, before>>
recovery == <<snapshot, policySnap, armed, unrestored>>
vars == <<file, ctl, policy, head, opts, pc, todo, from, pending, history,
          removed, failed, snapshot, policySnap, armed, incomplete, handler,
          unrestored, mishaps, exit, before>>

Policies == {"planned", "changed"}
MainPhases == {"check", "resolve", "plan", "gate", "invalidate", "pending"}
EnterPhase == "enter"
MutatePhases == {"reset", "rewrite", "remove", "snapshot", "edit", "regenerate",
                 "validate", "doctor", "source", "receipt"}
PressPhases == MutatePhases \cup {"restore", "report"}
Exits == {"none", "0", "1", "2", "interrupted", "killed"}

(***************************************************************************)
(* What a pass may have left to do.                                        *)
(***************************************************************************)
Work(phase) ==
    CASE phase = "reset" -> Resets
      [] phase = "rewrite" -> Files \ Excluded
      [] phase = "remove" -> Removes
      [] phase = "edit" -> Edits
      [] phase = "regenerate" -> Regens
      [] phase = "restore" -> Control
      [] OTHER -> Files \cup Control

TypeOK ==
    /\ file \in [Files -> FileState]
    /\ ctl \in [Control -> Contents]
    /\ policy \in Policies
    /\ head \in [file : [Files -> FileState], ctl : [Control -> Contents]]
    /\ opts \in Options
    /\ pc \in MainPhases \cup {EnterPhase} \cup PressPhases \cup {"done"}
    /\ todo \in SUBSET Work(pc)
    /\ from \in Identities \cup {NoId}
    /\ from = NoId => pc \in {"check", "resolve", "done"}
    /\ pending \in BOOLEAN
    /\ history \in SUBSET Removes
    /\ removed \in SUBSET Removes
    /\ failed \in BOOLEAN
    /\ snapshot \in [Control -> Contents]
    /\ policySnap \in Policies
    /\ armed \in BOOLEAN
    /\ incomplete \in BOOLEAN
    /\ handler \in {"none", "fault", "interrupt", "cut"}
    /\ unrestored \in SUBSET Control
    /\ mishaps \in 0..MaxMishaps
    /\ exit \in Exits
    /\ before \in [file : [Files -> FileState], ctl : [Control -> Contents]]

-----------------------------------------------------------------------------
(* The states a run can start in. *)

Controls(src, answers, rcpt) ==
    [source |-> src, rules |-> Planned, answers |-> answers, receipt |-> rcpt]

(***************************************************************************)
(* A template that was never pressed: every file carries its identity; the *)
(* source-config is committed or still to be discovered.                   *)
(***************************************************************************)
Template(id, answers) ==
    /\ file = [f \in Files |-> [there |-> TRUE, ids |-> {id},
                                ok |-> f \notin Edits \cup Resets]]
    /\ \E src \in {id, Absent} : ctl = Controls(src, answers, Absent)

(***************************************************************************)
(* A target an earlier press took from `old` to `id`.                      *)
(***************************************************************************)
PressedFile(old, id, f) ==
    IF f \in Removes \cup (Ordinary \cap (Excluded \ Ignored)) THEN Gone
    ELSE IF f \in Resets THEN Stub
    ELSE [there |-> TRUE, ok |-> TRUE,
          ids |-> IF f \in Ordinary \cap Excluded THEN {old} ELSE {id}]

Pressed(old, id, answers) ==
    /\ file = [f \in Files |-> PressedFile(old, id, f)]
    /\ ctl = Controls(id, answers, [from |-> old, to |-> id, removed |-> Removes])

DiskInit ==
    /\ \E id \in Identities, answers \in {Planned, Absent} :
          \/ Template(id, answers)
          \/ \E old \in Identities \ {id} : Pressed(old, id, answers)
    /\ policy = "planned"
    /\ head = [file |-> file, ctl |-> ctl]

(***************************************************************************)
(* The memory of a process that has just been started.                     *)
(***************************************************************************)
ProcessInit ==
    /\ pc = "check"
    /\ todo = {}
    /\ from = NoId
    /\ pending = FALSE
    /\ history = {}
    /\ removed = {}
    /\ failed = FALSE
    /\ snapshot = [c \in Control |-> Absent]
    /\ policySnap = "planned"
    /\ armed = FALSE
    /\ incomplete = FALSE
    /\ handler = "none"
    /\ unrestored = {}
    /\ exit = "none"
    /\ before = [file |-> file, ctl |-> ctl]

Init ==
    /\ DiskInit
    /\ opts \in CommandLines
    /\ ProcessInit
    /\ mishaps = 0

-----------------------------------------------------------------------------
(* main(): everything that may still end in exit 2. *)

Finish(code) == pc' = "done" /\ exit' = code
Refuse == Finish("2") /\ UNCHANGED <<disk, plan, recovery, todo, removed, failed,
                                     incomplete, handler, mishaps>>
Proceed(phase) == pc' = phase /\ UNCHANGED <<opts, recovery, todo, removed, failed,
                                incomplete, handler, mishaps, exit, before>>
Mishap == mishaps < MaxMishaps /\ mishaps' = mishaps + 1

ReceiptPresent == ctl.receipt \in Receipts \cup {Forged}
Dirty == file # head.file \/ ctl # head.ctl

CheckPreconditions ==
    /\ pc = "check"
    /\ IF (ReceiptPresent /\ ~opts.force) \/ (Dirty /\ ~opts.allowDirty)
       THEN Refuse
       ELSE Proceed("resolve") /\ UNCHANGED <<disk, from, pending, history>>

(***************************************************************************)
(* Discovery reads the identity off the manifest; an unreadable or mixed   *)
(* manifest leaves it unresolved, and the guard compares nothing.          *)
(***************************************************************************)
Discovered(fl) ==
    IF fl[Manifest].there /\ \E id \in Identities : fl[Manifest].ids = {id}
    THEN CHOOSE id \in Identities : fl[Manifest].ids = {id}
    ELSE NoId

Source(fl, config) ==
    IF config \in Identities THEN config
    ELSE IF config = Forged THEN NoId ELSE Discovered(fl)

(***************************************************************************)
(* What _resolve_source and the identity checks of main() let through.     *)
(***************************************************************************)
Resolves(fl, config, accept, dest) ==
    /\ Source(fl, config) \notin {NoId, dest}
    /\ Discovered(fl) \in {Source(fl, config), NoId}
    /\ config \in Identities \/ accept

ResolveSource ==
    /\ pc = "resolve"
    /\ IF ~Resolves(file, ctl.source, opts.accept, opts.dest) THEN Refuse
       ELSE /\ from' = Source(file, ctl.source)
            /\ pending' = (ctl.source \notin Identities)
            /\ Proceed("plan")
            /\ UNCHANGED <<disk, history>>

(***************************************************************************)
(* The rules and the receipt are read once, here.  A press over other      *)
(* rules than the planned ones is another instance of this module.         *)
(***************************************************************************)
BuildPlan ==
    /\ pc = "plan"
    /\ IF ctl.rules # Planned
       THEN Refuse
       ELSE /\ history' \in IF ctl.receipt \in Receipts THEN {ctl.receipt.removed}
                            ELSE IF ctl.receipt = Forged THEN SUBSET Removes ELSE {{}}
            /\ Proceed("gate")
            /\ UNCHANGED <<disk, from, pending>>

Committed(fl, f) == fl[f].there /\ fl[f] = head.file[f]

(***************************************************************************)
(* Every plan-time gate over the declared files: edit, regenerate and      *)
(* reset targets must be present and committed; a removal must be, or be   *)
(* gone and recorded by the prior receipt; a tracked excluded file must be *)
(* neutralised by some declaration.                                        *)
(***************************************************************************)
GatesPass(fl, recorded) ==
    /\ \A f \in Edits \cup Regens \cup Resets : Committed(fl, f)
    /\ \A f \in Removes : IF fl[f].there THEN Committed(fl, f) ELSE f \in recorded
    /\ \A f \in Excluded \cap (Ordinary \ Ignored) : ~fl[f].there

RunGates ==
    /\ pc = "gate"
    /\ IF ~GatesPass(file, history) THEN Refuse
       ELSE IF opts.dry
            THEN Finish("0") /\ UNCHANGED <<disk, plan, recovery, todo, removed,
                                   failed, incomplete, handler, mishaps>>
            ELSE Proceed("invalidate") /\ UNCHANGED <<disk, from, pending, history>>

(***************************************************************************)
(* A forced re-press consumes its predecessor's receipt before the first   *)
(* mutation.                                                               *)
(***************************************************************************)
InvalidateNothing == \* mutant
    pc = "invalidate" /\ Proceed("pending") /\ UNCHANGED <<disk, from, pending, history>>

InvalidateReceipt ==
    /\ pc = "invalidate"
    /\ ctl' = IF opts.force /\ ReceiptPresent THEN [ctl EXCEPT !.receipt = Absent] ELSE ctl
    /\ Proceed("pending")
    /\ UNCHANGED <<file, policy, head, from, pending, history>>

WritePendingSource ==
    /\ pc = "pending"
    /\ IF pending /\ ctl.source = Blocked THEN Refuse
       ELSE /\ ctl' = IF pending THEN [ctl EXCEPT !.source = from] ELSE ctl
            /\ Proceed("enter")
            /\ UNCHANGED <<file, policy, head, from, pending, history>>

(***************************************************************************)
(* Whatever else main() refuses on (arguments, answers, rules, planning)   *)
(* and every OSError or SafetyError it catches.                            *)
(***************************************************************************)
PlanFails ==
    /\ pc \in MainPhases
    /\ Mishap
    /\ Finish("2")
    /\ UNCHANGED <<disk, plan, recovery, todo, removed, failed, incomplete, handler>>

-----------------------------------------------------------------------------
(* _press(): the phases between the first mutation and the receipt. *)

Advance(phase, work) == pc' = phase /\ todo' = work /\ UNCHANGED exit

(***************************************************************************)
(* The pre-validation of _press and the revalidation of the substitution   *)
(* table; a failure is PressFails and leaves exit code 1, nothing applied. *)
(***************************************************************************)
EnterPress ==
    /\ pc = "enter"
    /\ Advance("reset", Resets)
    /\ incomplete' = TRUE
    /\ UNCHANGED <<disk, plan, recovery, removed, failed, handler, mishaps>>

(***************************************************************************)
(* Position zero: the declared stub replaces each reset target.            *)
(***************************************************************************)
ResetOne(f) ==
    /\ pc = "reset" /\ f \in todo
    /\ file[f].there
    /\ file' = [file EXCEPT ![f] = Stub]
    /\ Advance("reset", todo \ {f})
    /\ UNCHANGED <<ctl, policy, head, plan, recovery, removed, failed,
                   incomplete, handler, mishaps>>

(***************************************************************************)
(* The rewrite of one file: content, then path, then link text.            *)
(***************************************************************************)
Rewritten(s) ==
    IF s.there /\ from \in s.ids
    THEN [s EXCEPT !.ids = (@ \ {from}) \cup {opts.dest}]
    ELSE s

RewriteOne(f) ==
    /\ pc = "rewrite" /\ f \in todo
    /\ file' = [file EXCEPT ![f] = Rewritten(@)]
    /\ Advance("rewrite", todo \ {f})
    /\ UNCHANGED <<ctl, policy, head, plan, recovery, removed, failed,
                   incomplete, handler, mishaps>>

(***************************************************************************)
(* A declared removal; a target a prior press already removed is skipped.  *)
(***************************************************************************)
RemoveOne(f) ==
    /\ pc = "remove" /\ f \in todo
    /\ file[f].there \/ f \in history
    /\ file' = [file EXCEPT ![f] = Gone]
    /\ removed' = IF file[f].there THEN removed \cup {f} ELSE removed
    /\ Advance("remove", todo \ {f})
    /\ UNCHANGED <<ctl, policy, head, plan, recovery, failed,
                   incomplete, handler, mishaps>>

(***************************************************************************)
(* A pass ends when its last file is done, and the next one is set up.     *)
(***************************************************************************)
PassDone ==
    /\ todo = {}
    /\ \/ pc = "reset"   /\ Advance("rewrite", Files \ Excluded)
       \/ pc = "rewrite" /\ Advance("remove", Removes)
       \/ pc = "remove"  /\ Advance("snapshot", {})
    /\ UNCHANGED <<disk, plan, recovery, removed, failed, incomplete, handler, mishaps>>

(***************************************************************************)
(* Before the first launch the control files and the visibility inputs are *)
(* captured, and from then on every failure restores the control files.    *)
(* Without a declared command there is nothing to capture or validate.     *)
(***************************************************************************)
TakeSnapshot ==
    /\ pc = "snapshot"
    /\ IF Commands = {}
       THEN Advance("doctor", {}) /\ UNCHANGED <<snapshot, policySnap, armed>>
       ELSE /\ Advance("edit", Edits)
            /\ snapshot' = [c \in Control |-> IF ctl[c] = Blocked THEN Absent ELSE ctl[c]]
            /\ policySnap' = policy
            /\ armed' = TRUE
    /\ UNCHANGED <<disk, plan, removed, failed, incomplete, handler, unrestored, mishaps>>

-----------------------------------------------------------------------------
(* Declared commands. *)

(***************************************************************************)
(* What the press demands of a command's own file after the launch, and    *)
(* again in the final pass: present, no source identity, `expect` kept.    *)
(***************************************************************************)
Postcondition(f, s) == s.there /\ from \notin s.ids /\ (f \in Edits => s.ok)

CommandPhase(f) == IF f \in Edits THEN "edit" ELSE "regenerate"

(***************************************************************************)
(* The sink guard: a target that is no regular file is not launched upon.  *)
(***************************************************************************)
SkipLaunch(f) ==
    /\ pc = CommandPhase(f) /\ f \in todo
    /\ ~file[f].there
    /\ failed' = TRUE
    /\ Advance(pc, todo \ {f})
    /\ UNCHANGED <<disk, plan, recovery, removed, incomplete, handler, mishaps>>

(***************************************************************************)
(* A command that does what its declaration says.                          *)
(***************************************************************************)
Made == [there |-> TRUE, ids |-> {opts.dest}, ok |-> TRUE]

Launch(f) ==
    /\ pc = CommandPhase(f) /\ f \in todo
    /\ file[f].there
    /\ file' = [file EXCEPT ![f] = Made]
    /\ Advance(pc, todo \ {f})
    /\ UNCHANGED <<ctl, policy, head, plan, recovery, removed, failed,
                   incomplete, handler, mishaps>>

(***************************************************************************)
(* Any other command: it leaves its own file in any state, may exit        *)
(* nonzero, and changes up to MaxTouched other files, control files or the *)
(* visibility inputs.                                                      *)
(***************************************************************************)
Things == Files \cup Control \cup {"policy"}

LaunchAmiss(f) ==
    /\ pc = CommandPhase(f) /\ f \in todo
    /\ file[f].there
    /\ Mishap
    /\ \E touched \in SUBSET Things, exitsZero \in BOOLEAN :
          /\ Cardinality(touched) <= MaxTouched
          /\ \E newFile \in [(touched \cap Files) \cup {f} -> Damages \cup {Made}],
                newCtl \in [touched \cap Control -> {Absent, Forged, Blocked}] :
                /\ file' = [g \in Files |-> IF g \in DOMAIN newFile THEN newFile[g] ELSE file[g]]
                /\ ctl' = [c \in Control |-> IF c \in DOMAIN newCtl THEN newCtl[c] ELSE ctl[c]]
          /\ policy' = IF "policy" \in touched THEN "changed" ELSE policy
          /\ failed' = (failed \/ ~exitsZero \/ ~Postcondition(f, file'[f]))
    /\ Advance(pc, todo \ {f})
    /\ UNCHANGED <<head, plan, recovery, removed, incomplete, handler>>

(***************************************************************************)
(* Every launch of a kind is made before the press looks at the failures.  *)
(***************************************************************************)
EditsAgain == \* mutant
    /\ pc \in {"edit", "regenerate"} /\ todo = {}
    /\ IF failed THEN Advance("restore", Control)
       ELSE IF pc = "edit" THEN Advance("regenerate", Edits)
       ELSE Advance("validate", {})
    /\ UNCHANGED <<disk, plan, recovery, removed, failed, incomplete, handler, mishaps>>

CommandsDone ==
    /\ pc \in {"edit", "regenerate"} /\ todo = {}
    /\ IF failed THEN Advance("restore", Control)
       ELSE IF pc = "edit" THEN Advance("regenerate", Regens)
       ELSE Advance("validate", {})
    /\ UNCHANGED <<disk, plan, recovery, removed, failed, incomplete, handler, mishaps>>

(***************************************************************************)
(* The final pass: every edit, output and stub again, then the control     *)
(* files and the visibility inputs against the snapshot.                   *)
(***************************************************************************)
FinalPassControls == ctl = snapshot /\ policy = policySnap \* mutant

FinalPassClean ==
    /\ \A f \in Commands : Postcondition(f, file[f])
    /\ \A f \in Resets : file[f] = Stub
    /\ \A c \in Control : ctl[c] = snapshot[c]
    /\ policy = policySnap

FinalValidation ==
    /\ pc = "validate"
    /\ IF FinalPassClean
       THEN Advance("doctor", {}) /\ armed' = FALSE
       ELSE Advance("restore", Control) /\ UNCHANGED armed
    /\ UNCHANGED <<disk, plan, snapshot, policySnap, unrestored, removed, failed,
                   incomplete, handler, mishaps>>

(***************************************************************************)
(* Recovery of one control file, best effort: what is Blocked cannot be    *)
(* put back, and is reported instead.                                      *)
(***************************************************************************)
RestoreRetried(c) == \* mutant
    /\ pc = "restore" /\ c \in todo
    /\ IF ctl[c] = Blocked THEN UNCHANGED <<ctl, todo>>
       ELSE ctl' = [ctl EXCEPT ![c] = snapshot[c]] /\ todo' = todo \ {c}
    /\ UNCHANGED <<file, policy, head, plan, recovery, pc, exit, removed,
                   failed, incomplete, handler, mishaps>>

RestoreOne(c) ==
    /\ pc = "restore" /\ c \in todo
    /\ IF ctl[c] = Blocked
       THEN unrestored' = unrestored \cup {c} /\ UNCHANGED ctl
       ELSE ctl' = [ctl EXCEPT ![c] = snapshot[c]] /\ UNCHANGED unrestored
    /\ Advance("restore", todo \ {c})
    /\ UNCHANGED <<file, policy, head, plan, snapshot, policySnap, armed, removed,
                   failed, incomplete, handler, mishaps>>

RestoreFails(c) ==
    /\ pc = "restore" /\ c \in todo
    /\ Mishap
    /\ ctl[c] # snapshot[c]
    /\ unrestored' = unrestored \cup {c}
    /\ Advance("restore", todo \ {c})
    /\ UNCHANGED <<disk, plan, snapshot, policySnap, armed, removed,
                   failed, incomplete, handler>>

RestoreDone ==
    /\ pc = "restore" /\ todo = {}
    /\ Finish(IF handler = "interrupt" THEN "interrupted" ELSE "1")
    /\ UNCHANGED <<disk, plan, recovery, todo, removed, failed, incomplete, handler, mishaps>>

-----------------------------------------------------------------------------
(* Verify, then mark. *)

Scanned == Files \ (Builtin \cup Ignored)
LeaksOfCommands == \E f \in Commands : file[f].there /\ from \in file[f].ids \* mutant
Leaks == \E f \in Scanned : file[f].there /\ from \in file[f].ids

Doctor ==
    /\ pc = "doctor"
    /\ IF Leaks THEN Finish("1") /\ UNCHANGED todo ELSE Advance("source", {})
    /\ UNCHANGED <<disk, plan, recovery, removed, failed, incomplete, handler, mishaps>>

WriteSource ==
    /\ pc = "source"
    /\ IF ctl.source = Blocked
       THEN Finish("1") /\ UNCHANGED <<ctl, todo>>
       ELSE ctl' = [ctl EXCEPT !.source = opts.dest] /\ Advance("receipt", {})
    /\ UNCHANGED <<file, policy, head, plan, recovery, removed, failed,
                   incomplete, handler, mishaps>>

(***************************************************************************)
(* The receipt is the last write: removals made now, and those a prior     *)
(* press recorded, are carried.                                            *)
(***************************************************************************)
OwnReceiptThisPress == [from |-> from, to |-> opts.dest, removed |-> removed] \* mutant
OwnReceipt == [from |-> from, to |-> opts.dest, removed |-> removed \cup history]

WriteReceipt ==
    /\ pc = "receipt"
    /\ IF ctl.receipt = Blocked
       THEN Finish("1") /\ UNCHANGED <<ctl, todo, incomplete>>
       ELSE /\ ctl' = [ctl EXCEPT !.receipt = OwnReceipt]
            /\ incomplete' = FALSE
            /\ Advance("report", {})
    /\ UNCHANGED <<file, policy, head, plan, recovery, removed, failed, handler, mishaps>>

Report ==
    /\ pc = "report"
    /\ Finish("0")
    /\ UNCHANGED <<disk, plan, recovery, todo, removed, failed, incomplete, handler, mishaps>>

-----------------------------------------------------------------------------
(* Failure of the running process. *)

(***************************************************************************)
(* An exception _press catches (an OSError, a failed guard, a tool that    *)
(* cannot be launched, a print to a closed pipe): armed, it restores the   *)
(* control files first.                                                    *)
(***************************************************************************)
RaiseFaultRefused == \* mutant
    /\ pc \in {EnterPhase} \cup PressPhases /\ handler = "none"
    /\ IF armed /\ pc # EnterPhase
       THEN Advance("restore", Control) /\ handler' = "fault"
       ELSE Finish("2") /\ UNCHANGED <<todo, handler>>
    /\ UNCHANGED <<disk, plan, recovery, removed, failed, incomplete>>

RaiseFaultUnarmed == \* mutant
    /\ pc \in {EnterPhase} \cup PressPhases /\ handler = "none" /\ Finish("1")
    /\ UNCHANGED <<disk, plan, recovery, removed, failed, incomplete, todo, handler>>

RaiseFault ==
    /\ pc \in {EnterPhase} \cup PressPhases
    /\ handler = "none"
    /\ IF armed /\ pc # EnterPhase
       THEN Advance("restore", Control) /\ handler' = "fault"
       ELSE Finish("1") /\ UNCHANGED <<todo, handler>>
    /\ UNCHANGED <<disk, plan, recovery, removed, failed, incomplete>>

PressFails == Mishap /\ RaiseFault

(***************************************************************************)
(* The guards of a pass that raise without any mishap of the environment.  *)
(***************************************************************************)
GuardRaises ==
    /\ \E f \in todo : \/ pc = "reset" /\ ~file[f].there
                       \/ pc = "remove" /\ ~file[f].there /\ f \notin history
    /\ RaiseFault
    /\ UNCHANGED mishaps

(***************************************************************************)
(* KeyboardInterrupt.  Inside the try block it restores and re-raises; one *)
(* that lands in an exception handler abandons the recovery.               *)
(***************************************************************************)
Interrupt ==
    /\ pc # "done"
    /\ Mishap
    /\ IF armed /\ pc \in PressPhases /\ handler = "none"
       THEN Advance("restore", Control) /\ handler' = "interrupt"
       ELSE /\ Finish("interrupted")
            /\ handler' = IF handler = "none" THEN "none" ELSE "cut"
            /\ UNCHANGED todo
    /\ UNCHANGED <<disk, plan, recovery, removed, failed, incomplete>>

Kill ==
    /\ pc # "done"
    /\ Mishap
    /\ Finish("killed")
    /\ UNCHANGED <<disk, plan, recovery, todo, removed, failed, incomplete, handler>>

(***************************************************************************)
(* Another process at work in the checkout: nothing locks the tree.        *)
(* It changes files, from the consumption of the prior receipt (a change   *)
(* before that is one after the prior press) to the last checks (a change  *)
(* after those is one after the receipt: nothing the press still does      *)
(* reads or writes a file).  Control files it leaves alone: only declared  *)
(* commands replace those here.                                            *)
(***************************************************************************)
OtherProcess(f) ==
    /\ pc \in {"pending", "enter", "reset", "rewrite", "remove", "snapshot",
               "edit", "regenerate", "validate"}
    /\ Mishap
    /\ \E s \in Damages \ {file[f]} :
          /\ file' = [file EXCEPT ![f] = s]
          /\ before' = [before EXCEPT !.file[f] = s]
    /\ UNCHANGED <<ctl, policy, head, opts, from, pending, history, recovery, pc, todo,
                   removed, failed, incomplete, handler, exit>>

-----------------------------------------------------------------------------
MainStep ==
    \/ CheckPreconditions \/ ResolveSource \/ BuildPlan \/ RunGates
    \/ InvalidateReceipt \/ WritePendingSource

PressStep ==
    \/ EnterPress \/ PassDone \/ TakeSnapshot
    \/ \E f \in Files : ResetOne(f) \/ RewriteOne(f) \/ RemoveOne(f)
    \/ \E f \in Commands : SkipLaunch(f) \/ Launch(f)
    \/ CommandsDone \/ FinalValidation
    \/ \E c \in Control : RestoreOne(c)
    \/ RestoreDone \/ Doctor \/ WriteSource \/ WriteReceipt \/ Report
    \/ GuardRaises

MishapStep ==
    \/ PlanFails \/ PressFails \/ Interrupt \/ Kill
    \/ \E f \in Commands : LaunchAmiss(f)
    \/ \E f \in Files : OtherProcess(f)
    \/ \E c \in Control : RestoreFails(c)

Next == MainStep \/ PressStep \/ MishapStep

(***************************************************************************)
(* The process is scheduled until it ends, and a launched command returns: *)
(* subprocess.run has no timeout, so that is assumed of the commands.      *)
(***************************************************************************)
Fairness == WF_vars(MainStep \/ PressStep)

Spec == Init /\ [][Next]_vars /\ Fairness

-----------------------------------------------------------------------------
(* Properties. *)

(***************************************************************************)
(* Verify-then-mark.  Whatever the commands and the failures did, and      *)
(* another process did to the files up to the final pass, a receipt the    *)
(* press wrote stands only beside a tree that passed every check: the      *)
(* source-config names the new identity, the rules are the planned ones,   *)
(* every edit, output and stub is as declared, and no file the doctor      *)
(* scans spells the old identity.  The doctor alone does not give this: it *)
(* skips the built-in exclusions, which only the final pass answers for.   *)
(***************************************************************************)
Certified(fl, controls, r) ==
    /\ controls.source = r.to
    /\ controls.rules = Planned
    /\ \A f \in Commands : fl[f].there /\ r.from \notin fl[f].ids
    /\ \A f \in Edits : fl[f].ok
    /\ Commands # {} => \A f \in Resets : fl[f] = Stub
    /\ \A f \in Scanned : fl[f].there => r.from \notin fl[f].ids

ReceiptDescribesTree ==
    ctl.receipt \in Receipts => Certified(file, ctl, ctl.receipt)

(***************************************************************************)
(* From the first mutation to the receipt write, and after a run that      *)
(* failed in between, no verified receipt stands: neither the prior one a  *)
(* forced re-press consumed nor one a recovery could put back.             *)
(***************************************************************************)
NoReceiptOverHalfPress == incomplete => ctl.receipt \notin Receipts

(***************************************************************************)
(* A run that ended by itself leaves no control file a command forged or   *)
(* replaced, except those it reported as unrestorable; only a kill or an   *)
(* interrupt that cut the recovery short does.                             *)
(***************************************************************************)
NoForgedControlSurvives ==
    pc = "done" /\ exit # "killed" /\ handler # "cut" =>
        \A c \in Control : ctl[c] \in {Forged, Blocked} => c \in unrestored

(***************************************************************************)
(* The exit code is the contract.  `before` is the disk as it would be     *)
(* without this run, so Untouched says that no pass wrote a file, and of   *)
(* the control files at most the prior receipt was consumed and the        *)
(* discovered source-config written.                                       *)
(*   0 stands over the receipt and source-config of this run, or over a    *)
(* dry run that left files and control files alone; 2 over an untouched    *)
(* tree, never over a rewritten one, although main() and _press() catch    *)
(* the same exceptions.  After every other end the tree is untouched, or   *)
(* half pressed with no receipt, or pressed and marked: what fails or is   *)
(* interrupted behind the receipt write takes nothing back, so with exit 1 *)
(* a receipt standing is this run's and only the report is missing.        *)
(***************************************************************************)
Untouched ==
    /\ file = before.file
    /\ \A c \in Control \ {"source", "receipt"} : ctl[c] = before.ctl[c]
    /\ ctl.receipt \in {before.ctl.receipt, Absent}
    /\ ctl.source \in {before.ctl.source, from}

HalfPressed == incomplete /\ ctl.receipt \notin Receipts
Marked == ~incomplete /\ ctl.receipt = OwnReceipt /\ ctl.source = opts.dest

ExitCodeContract ==
    /\ exit = "0" => Marked \/ (opts.dry /\ file = before.file /\ ctl = before.ctl)
    /\ exit = "2" => Untouched
    /\ exit \in {"1", "interrupted", "killed"} => Untouched \/ HalfPressed \/ Marked
    /\ exit = "1" /\ ctl.receipt \in Receipts => Marked

(***************************************************************************)
(* No removal is lost from one press to the next: the receipt about to be  *)
(* reported records every declared file that is missing, as the next press *)
(* over this tree needs it to accept that, and everything the receipt it   *)
(* replaced recorded, missing or not.                                      *)
(***************************************************************************)
RemovalHistoryCarried ==
    pc = "report" =>
        /\ \A f \in Removes : ~file[f].there => f \in ctl.receipt.removed
        /\ before.ctl.receipt \in Receipts =>
              before.ctl.receipt.removed \subseteq ctl.receipt.removed

(***************************************************************************)
(* Only the last write of a press marks the target.  In particular the     *)
(* recovery of the control files never puts a receipt back: what it        *)
(* captured is a target without one, a forced press has consumed it.       *)
(***************************************************************************)
OnlyLastWriteMarks ==
    [][ctl'.receipt \in Receipts /\ ctl'.receipt # ctl.receipt =>
          pc = "receipt" /\ ctl'.receipt = OwnReceipt]_vars

-----------------------------------------------------------------------------
(* The inductive invariant of the proofs, in named parts. *)

UnmarkedPhases == {"pending", "enter", "restore"} \cup MutatePhases
CommandPhases == {"edit", "regenerate", "validate"}
RulesReadPhases == {"gate", "invalidate", "pending", "enter", "reset", "rewrite",
                    "remove", "snapshot"}
VerifiedPhases == {"doctor", "source", "receipt"}

(* Past the first check a receipt stands only if the run may consume it,   *)
(* and past its consumption none stands until the last write.              *)
Unmarked ==
    /\ pc \in {"resolve", "plan", "gate", "invalidate"} /\ ReceiptPresent => opts.force
    /\ pc \in UnmarkedPhases => ctl.receipt \notin Receipts
    /\ incomplete => ctl.receipt \notin Receipts

(* Recovery is armed exactly while commands run, and what it would put     *)
(* back is the planned rules and no receipt.                               *)
Recovery ==
    /\ pc \in CommandPhases \cup {"restore"} => armed
    /\ armed => /\ pc \in CommandPhases \cup {"restore", "done"}
                /\ snapshot.receipt \notin Receipts
                /\ snapshot.rules = Planned

(* What the checks made so far guarantee of the disk.                      *)
Verified ==
    /\ pc \in RulesReadPhases \cup VerifiedPhases => ctl.rules = Planned
    /\ pc \in VerifiedPhases =>
          /\ \A f \in Commands : Postcondition(f, file[f])
          /\ Commands # {} => \A f \in Resets : file[f] = Stub
    /\ pc \in {"source", "receipt"} => ~Leaks
    /\ pc = "receipt" => ctl.source = opts.dest

MarkInv == TypeOK /\ Unmarked /\ Recovery /\ Verified /\ ReceiptDescribesTree

(* Outside the command phases no control file is forged, and a recovery    *)
(* has dealt with the ones it is done with.                                *)
Spoiled(c) == ctl[c] \in {Forged, Blocked}

ControlInv ==
    /\ pc \notin CommandPhases \cup {"restore", "done"} =>
          \A c \in Control : ~Spoiled(c)
    /\ armed => \A c \in Control : snapshot[c] \notin {Forged, Blocked}
    /\ pc = "restore" => \A c \in Control \ todo : Spoiled(c) => c \in unrestored
    /\ NoForgedControlSurvives

InductiveInvariant == MarkInv /\ ControlInv

-----------------------------------------------------------------------------
(* Claims of the repository that the code does not keep. *)

(***************************************************************************)
(* README, exit code 2: nothing is written.                                *)
(***************************************************************************)
ExitTwoWritesNothing == exit = "2" => ctl = before.ctl

(***************************************************************************)
(* A file the receipt records as removed is gone.                          *)
(***************************************************************************)
RemovedStaysRemoved ==
    pc = "report" => \A f \in ctl.receipt.removed : ~file[f].there

(***************************************************************************)
(* The message of a failed [[regenerate]]: regenerate the file, then run   *)
(* the press again with --force.                                           *)
(***************************************************************************)
RerunWithForceWorks ==
    [][CommandsDone /\ pc = "regenerate" /\ failed =>
          Resolves(file, snapshot.source, TRUE, opts.dest)]_vars
=============================================================================
