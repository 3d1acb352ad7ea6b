# A verification project for template-press

template-press rebrands a Git checkout. `press rebrand` discovers the identity a
target carries, rewrites every occurrence to a new one in contents, paths and link
targets, resets and removes what the target declares, runs the declared commands,
checks the result and only then writes a receipt. `press clean` removes ignored files
a target declares, `press verify` tries a press in a throw-away copy.

The modules here model that program in TLA+. TLC checks them on small instances, and
TLAPS proves the main promises for every instance. Paths below are relative to the
package `src/template_press/rebrand/` unless they start elsewhere.

Contents: [the system](#the-system) · [hard behaviours](#hard-behaviours) ·
[modules](#modules-and-the-code-they-model) · [runs](#runs) · [fairness](#fairness) ·
[proofs](#proofs) · [disagreements](#disagreements-with-the-documentation) ·
[what is left out](#what-is-not-modelled) · [plan](#plan)

## The system

| Component | Code | State it keeps | Operations |
|---|---|---|---|
| press run | `cli.py`, `config.py`, `discovery.py` | the target's files; four control files (source-config, rules, answers, receipt); in memory the plan, the `PressOutcome`, the snapshot of the control files | `main()`: preconditions, source, plan, gates, prior receipt consumed, discovered source written; `_press()`: reset, rewrite, remove, edit, regenerate, validate, restore, doctor, source-config, receipt, report |
| press lifecycle | the same, with Git and the operator | working tree, HEAD | run again, `git checkout -- . && git clean -fd`, commit |
| rename planning | `substitutions.py`, `pipeline.py`, `pathing.py` | substitution rows, the staged plan | validate the rows, compile moves pass by pass, bind, revalidate, translate a path there and back |
| rename execution | `engine.py`, `safety.py` | the tree, ids of executed steps | rename without replacement, skip, retarget relative links, replace content |
| surface capture | `inventory.py`, `ignores.py` | nothing: it reads Git and the disk | two bracketed candidates, compared |
| directory removals | `remove.py`, `removal_types.py`, `receipt.py` | frozen rows of members, the history in the receipt | freeze, validate, translate, unlink, record |
| declared commands | `regen.py` | snapshot of control files and visibility | launch, postconditions, final pass, restore |
| reset stubs | `reset.py` | – | preflight, write the stub |
| inline doctor | `doctor.py` | – | scan for the old identity |
| clean | `clean_cli.py`, `clean.py` | exact files and directories to clean | plan, preview, revalidate, unlink, `git clean -fdX` |
| press verify | `verify_cli.py`, `verifier.py`, `sandbox.py`, `verify_config.py` | a copy of the target in a private directory, its index, the findings | preflight, list, copy, press, stubs, removals, restage, scan, ignores, tear down |
| rules, identity, tools | `rules.py`, `matcher.py`, `synthesize.py`, `identity.py`, `check_tools.py` | – | parse, generate, look up |

Components meet in three places. The **disk**: nothing locks a checkout, so a declared
command, another process and the press share it. The **plan**: made once from the
captured surface before the first mutation, and used, path by path, after renames have
moved what it names; every later pass finds its files through translations of it. The
**receipt**: what one press writes last decides what the next one accepts.

## Hard behaviours

Each of these is a hazard of `PROJECT.json`, at its line, with the properties that
would catch it.

* A press can fail, be interrupted or be killed between any two steps, its recovery
  included; the next run knows only the disk.
* A declared command is an arbitrary program. It may change any file, control files and
  Git's own view of the tree, and undo what an earlier command was checked for.
* The same exception is exit 2 or exit 1 depending on where it is caught.
* Another process may change the checkout between a check and its use: a destination
  between the look and the rename, a file between its revalidation and the unlink, any
  input between two readings of a capture.
* Renames nest, chain over several passes and can be skipped one by one; translations
  of paths must know which were executed.
* A second press over the same target meets removals already made, history rows no
  declaration asks for any more and directories that were renamed since.
* The receipt is written last and must fit its limits whichever of the planned renames were
  executed; whether it will has to be known before the first mutation.
* `press verify` judges a copy: what is lost, added or moved on the way from the target to
  the scan changes the verdict, and an ignore anchored in the target is applied to findings
  in the copy.

What makes each component correct: the press marks only what it verified; a failed press
leaves no mark and can be undone; accepted rename plans run, and every translation says
where files are; a removal takes no file that HEAD has no copy of (with the exception
[below](#runs)), and its record survives; an
accepted surface existed at some moment; a cleanup removes what it planned, and its exit
code tells whether anything was touched; a verification that exits 0 hides no leftover that
no ignore names, and leaves no copy behind.

## Modules and the code they model

```
VerifyThenMark <-- PressLifecycle --> PressRun         RenamePlan <-- ReceiptBudget <-- RenameRun
      ^                  ^               ^                                                  ^
VerifyThenMarkProofs     |         PressRunProofs <-- PressOutcomeProofs           RenameRunProofs
                PressLifecycleProofs

SurfaceCapture <-- PressClean          Removals          VerifyRun
                       ^                  ^                  ^
                PressCleanProofs    RemovalsProofs     VerifyRunProofs
```

Each `MC` module gives the module it is named after its instances for TLC.

### PressRun: one run

`pc` names the pass of `main()` or `_press()` the process is in, `todo` what is left in
it. A file is the three bits the checks look at: whether a contained regular file is
there, which identities a scan of it finds, whether it holds what its declaration
promises. A control file is an identity, a receipt, or one of absent, as planned, forged
(a regular file with other bytes) and blocked (a directory or link in its place).

Each handler is one action: `CheckPreconditions`, `ResolveSource`, `BuildPlan`,
`RunGates`, `InvalidateReceipt`, `WritePendingSource` for `main()`; `EnterPress`, then per
file `ResetOne`, `RewriteOne`, `RemoveOne`, `TakeSnapshot`, `Launch` or `SkipLaunch` for
each command, `CommandsDone`, `FinalValidation`, `RestoreOne` for each control file,
`Doctor`, `WriteSource`, `WriteReceipt`, `Report` for `_press()`. What can go wrong is an
action too: `PlanFails` (the exceptions `main()` catches), `PressFails` (those `_press()`
catches, at every point), `GuardRaises`, `LaunchAmiss` (a command that fails or damages up
to `MaxTouched` files, control files or the visibility), `RestoreFails`, `Interrupt`,
`Kill`, `OtherProcess`. `MaxMishaps` bounds how many happen.

`OtherProcess` damages files of the target between the consumption of the prior receipt and
the last checks. It never touches a control file, and it stops where the last check was made:
nothing locks the checkout from there to the receipt either, but such a change commutes with the
writes of the press and is the same as one made after the receipt, which no receipt can vouch
for. A change before the prior receipt is consumed makes that receipt untrue, like any other
change after a press; those are left out. `before` is history: the disk as it would be without this run, with what the other process did and without what the
press did. It lets `ExitCodeContract` say of every exit code whether the press wrote a file at all.

### PressLifecycle and VerifyThenMark

`VerifyThenMark` is the promise: a tree with a mark, and a saved pair of both. Work takes
the mark away before it changes the tree, a mark is set only where it is true, and saving
and restoring move both together. `PressLifecycle` adds `StartRun`, `GitRestore` and
`GitCommit` to `PressRun` and implements it: the mark is a receipt the press rendered,
the tree everything else on the disk, the saved pair is HEAD.

### RenamePlan, ReceiptBudget and RenameRun

`RenamePlan` holds the pure part: how a row rewrites a path, shallowest component first,
the order of the moves of one pass, and the translations: `Translate`, `ReverseTranslate`
and `ExecutedIdsFor` over the staged plan, `TranslatePath` of `pathing.py` over a mapping of
executed moves, and `ForwardMap`, by which `press verify` says where in the target a finding is.
Each is the end of a function of its steps (`Along`, `Back`, `Translation`, `WayBack`: the path
after each move that was made), so that what a translation does can be followed move by move. `ReceiptBudget` adds what `preflight_receipt` allows for the paths in the removal
history: `TextBound` for one path, component by component, and `Growth` for all of them, when
any subset of the moves may be executed. `RenameRun`
runs it: `ValidateRows` walks through the passes as `validate_pipeline` does,
`CompilePass` plans, `BindPlan` and `Revalidate` compare with the tree, then `CheckStep`,
`MoveStep` or `SkipStep` for each step, with `LookStep` and `ReplaceStep` the two halves
of the best-effort rename on a file system without an atomic one, and `Retarget` for each
link. A file is followed by the place it was captured at, so "where is it now" is a
function the translations can be compared with. `Create` and `Delete` are the other
process. `IsInventory` is what a captured inventory is: finitely many files, none below another.

### Removals

Presses over declared files and directories, one after the other: `Plan` (gates, freeze,
validation, the prior receipt consumed), `RenameRoot` for each directory the identity
change renames, `Unlink` for each planned member, `Verify`, `Record` (the last validation
and the receipt), with `Stop` anywhere in between. The operator commits, stages, restores,
writes, deletes, edits and declares other rules between presses. A member has the path it
was declared at and the one it has now; a receipt has the directory rows and the flat list.
Git's state of a path is whether HEAD, the index and the work tree have it and where they differ
(`staged`, `changed`). The history variable `unsaved` follows every file HEAD has no copy of, through
edits, staging, renames and its unlinking.
`VerifierPlan` is the plan `press verify` makes of the same tree and receipt.

### SurfaceCapture and PressClean

`SurfaceCapture` makes a capture out of its fourteen readings (`Reads`): the config and
index, the listing, the kinds at the listed paths, the visibility inputs, each again, and
all of it once more; between any two the other process may write, drop, track, ignore or
configure. `PressClean` uses that capture, checks the inputs it must preserve, inspects the
declared paths, classifies, previews or, file by file, looks three times (the node, the
ignore rules, the index), unlinks, and runs one `git clean`.

### VerifyRun

The phases are those of `verify_command`: `Preflight` (the identity the target shows is the
configured one, or a receipt waives the difference), `EnterSandbox`, `ListTarget`, `CopyNode`
for one path after the other in their order, `CommitCopy`, `ApplyPress`, `WriteStubs`,
`ApplyRemovals`, `Restage`, `Scan`, `ApplyIgnores` and `TearDown`. What happens to one path does
not depend on the others, so a path has properties of its own (`Place`: whether its name spells
the identity, what excludes it, what is declared of it) and a thing that stands there (`Thing`:
node and index kinds, where the identity occurs, what of it the press cannot rewrite, where the
anchor of an ignore stands). The press is one step over that table; `PressRun` and `RenameRun`
are about what it does inside. `Raise`, `Interrupt`, `TearDownFails` and `Kill` may come at every
point, and `Edit` is another process in the target: copies are read, and anchors looked up, from
the target as it is at that moment. A file the scan cannot read, for whatever reason, is in
`unread`, chosen freely.

## Runs

| Run | Shows | Bounds |
|---|---|---|
| `PressRun` | a receipt only beside a tree that passed every check (`ReceiptDescribesTree`), none over a half press, no forged control file left unreported, what every exit code says of files, control files and receipt (`ExitCodeContract`), removal history carried, only the last write marks; and the inductive invariant of the proofs | one file of each kind, the output both declared and a built-in exclusion; two identities; two mishaps, one file touched by each |
| `PressLifecycle` | the working tree and HEAD never carry a false receipt; a restored target resolves and passes its gates; only verified presses are committed; the refinement of `VerifyThenMark` | any number of runs; two mishaps over all of them; with an excluded file the doctor is told to ignore |
| `PressLifecycleLive` | every run ends; a target is pressed again and again, whatever failed | one mishap |
| `RenameRun` | accepted plans run to their end, all translations are true, nothing is left to rename, links follow their targets, no rename replaces a file; a receipt written after any subset of the renames fits what was allowed for it (`HistoryFits`); a finding of `press verify` is reported at the path it has in the target (`FindingsMapBack`) | trees of three files over two levels and three names, or two with a link or with another process; each row alone and each pair that meets; names of 1, 3 and 2 bytes; a fourth name, and pairs of rows to names of their own, for the sandbox |
| `Removals` | a success never makes the next press refuse; history that passed the gates passes the last validation; nothing is unlinked that HEAD has no copy of (`RemovesOnlySaved`); records survive; `press verify` selects what a press would (`VerifyFollowsPress`) | three presses, two edits, three directories of two files |
| `PressClean` | an accepted surface existed; the file removed is the file planned; exit 2 means nothing was attempted; exit 0 leaves nothing ignored in the scope; control and ignore files survive | four paths, one directory, two changes by the other process |
| `VerifyRun` | exit 0 leaves no leftover that no ignore names and no listed path out of the copy (`NoFalseClean`) and exit 1 is no false alarm (`NoFalseAlarm`); an ignore hides one leftover beside its anchor and does not outlive it, nor hides a line of the copy that its anchor is not on in the target (`IgnoresExact`); the copy is removed on every way out but a kill (`CopyRemoved`) | two paths, two lines, two occurrences on a line; 29 sorts of path and content, each beside six others; seventeen configurations; one edit |

Why the bounds are enough to meet the interesting cases. Two mishaps are one that goes
wrong and one that goes wrong in its recovery; a kill and a forged control file; a
skipped launch and an undone output. One file of each kind has every kind interact with
every other, and damages stand for each way to fail a check. Two changes are what it takes to
alter something under a capture and put it back. Three presses are one that records, one
that must accept the record and one that must accept what the second made of it. Two rows
that meet (a name of one is a name of the other) are what can chain, converge or be
ambiguous; rows that do not meet act independently. Paths of a verification are independent but
for what is decided over all of them (the preflight, the exit code), so each sort of path with
one beside it that decides otherwise is enough; one edit is what it takes to make the copy and
the target differ.

`CHECK_DEADLOCK FALSE` stands in every run whose process ends: a press, a cleanup or a
rename run that is done does nothing more.

Five more runs look at one claim of the documentation each and find it violated; see
[below](#disagreements-with-the-documentation).

Preconditions to keep in mind when reading the properties:

* `NoFileReplaced` covers file systems without an atomic no-replace rename only as long
  as nobody interferes: there the code looks first, and says so.
* `SnapshotWasReal` rests on change tokens that move with every change: a node's stamp
  (inode, change time) with its contents, a directory's with its entries.
* `ExitZeroCleans` and `InputsSurvive` are about a cleanup that is left alone.
  Its eligibility goes by the excludes pinned at the start.
* `SuccessIsPressable` excepts a press that renamed a directory to a place where others
  were: there Git or the history still knows files at the destination (`FreeGround`).
* Built-in excluded files that are not tracked are neither gated nor scanned, and
  `ReceiptDescribesTree` promises nothing about them unless a command is declared for them.
* `ReceiptDescribesTree` answers for what the other process did before the last checks, not after.
* `RemovesOnlySaved` has one exception, the finding of `RemovalsSelected`: a file that the rename of
  the root brings to the path of a member that may be missing is unlinked whether it was committed or
  not, and with `--allow-dirty` it may not have been (`remove.py:1019-1030`). The property says that there is no
  other way to lose one.
* An edit between the scan and the look at the anchors (`verify_cli.py:362`) can put the anchor of an
  ignore on a line where it was not: `IgnoresExact` then counts the line as ignored, as the
  code does. It says that no edit hides a line the anchor is not on.
* A path that is edited during a verification is judged by what was copied; `NoFalseClean` says of it
  that it was copied as the kind of thing it was listed as, or the verification refused.
* Exit 1 with "nothing applied" may follow the removal of the prior receipt.
* `HistoryFits` bounds what a press may add to the bytes of recorded paths; it covers renames
  within a pass and across passes that keep the depth of a path, which is all that rows of
  whole names produce.
* `FindingsMapBack` trusts the pairs of an apply report, by which the doctor and the declared
  commands look up the executed steps (`substitutions.py:171`, called at `doctor.py:210` and
  `regen.py:83`), only while no row makes a name that another consumes (`Unchained`), and not when
  another process deletes and recreates files. Exact, disjoint scopes allow such rows, and then
  one plan can hold the same pair twice: three rows `a -> b`, `c -> a` and `a -> b` over one file
  each have `d/a` moved to `d/b`, then `d/c` to `d/a`, and a second step `d/a -> d/b`, which is
  skipped because `d/b` is taken. `executed_ids_for` finds both by the pair of the first, and
  says a file is at `d/b` that stayed at `d/a`. TLC finds this with three rows; the rename itself
  keeps the ids of executed steps and is not misled.
* `VerifyFollowsPress` is about a target whose declarations pass the gates of a press; over one the
  press refuses, the verifier still looks. It excepts a removed member that is back
  where its directory is now while the path it was first removed at is declared as a file
  (`OriginsApart`): the press freezes it as a new file and accepts (`remove.py:618`), the
  verifier keeps the history (`remove.py:599-607`), to which it is one file under two reasons, and
  refuses. Three edits produce it.
* `RestoredIsPressable` is about declarations a target can be pressed with again and again
  (`PressableDeclarations`), and each of its conditions is needed: the press rewrites the manifest
  (an excluded one keeps the old identity); excluded files no declaration names are excused from
  the doctor; files that are reset come with a declared command, because without one nothing
  looks at a reset file again before the receipt, and another process may have removed it; and
  what a misbehaving program leaves of a file does not spell one identity, as if the target had
  been pressed by hand. TLC evaluates it in `PressLifecycle` and `PressLifecycleLive`.

## Fairness

Safety needs none. `PressRun!Fairness` is weak fairness of the process's own steps: a
process that can run is scheduled, and a launched command returns. The code waits with
`subprocess.run` and no timeout, so the latter is an assumption on the commands; mishaps
are never fair. `OperatorFairness` is about people, and is strong because runs of any kind
may be started in between: whoever sees an ended run sooner or later restores or commits,
and over a clean checkout sooner or later makes the recommended run, with `--force` exactly
when a receipt stands. `KeepsGettingPressed` says that then no earlier failure blocks the
target for good. Mishaps are bounded, so this is about what they leave behind, not about a
press that fails for ever.

`VerifyRun!FairSpec` is weak fairness of the command's own steps: it is straight-line code whose
every step ends. `CopyRemoved` excuses a kill and a removal of the directory that failed.

## Proofs

`PressRunProofs` proves for any sets of files, identities, command lines and damages, and
any number of mishaps:

* `Inductive`: `InductiveInvariant` holds, from which `TypeCorrect`, `ReceiptCorrect`
  (`ReceiptDescribesTree`), `NoHalfPressMarked` and `ControlsRecovered` follow;
* `LastWriteMarks`: `OnlyLastWriteMarks`.

`ReceiptDescribesTree` alone is not inductive: nothing in it says why the last write finds a
verified tree. The invariant adds, in named parts, `Unmarked` (from its consumption to the
last write no receipt stands; before, one stands only under `--force`), `Recovery` (it
is armed exactly while commands run, and what it would put back has no receipt and the
planned rules) and `Verified` (what the checks made so far guarantee in each phase: the
postconditions after the final pass, no leak after the doctor, the new source-config before
the receipt). `ControlInv` adds that outside the command phases no control file is forged and
that a recovery has dealt with every one it is done with. `MarkStep` and `ControlStep` have one
step for each action; `MarkedIsFrozen` is the lemma that no step changes what a standing receipt
vouches for.

`PressLifecycleProofs` extends the invariant over runs, restores and commits
(`LifecycleInv`: HEAD's receipt is true, and a successful press that was not undone carries
one) and proves `LifecycleCorrect`, `CommitsAreVerified` and `LifecycleRefines`, the
refinement: each action of a run is either a step of the abstract work, the marking, or a
stutter. `VerifyThenMarkProofs!MarkAlwaysTrue` closes the argument on the abstract side.
`RestoredStaysPressable` (`RestoredIsPressable`, for all `PressableDeclarations`) looks a run further: a
committed tree is one the next run starts from. `ReadyInv` keeps, through every phase of a run and
whatever damages it, what is needed for that: discovery reads in the manifests what the
phase has made of them, every declared removal is accounted for, and the disks that are reported
as a success or committed are `Pressable`.

`PressOutcomeProofs` adds what the end of a run tells: `ExitCodesTrue` (`ExitCodeContract`) and
`HistoryCarried` (`RemovalHistoryCarried`). `RefusalInv` says what `main()` has done to the control
files and that no file is written in each phase before the passes, `SuccessInv` that the remove pass accounts for every declared removal and
that the last two writes are in place at the report; `OutcomeInv`, their conjunction with the
contract, is inductive over `TypeOK`.

`PressCleanProofs` proves every property of a cleanup, for any target, any selection and any
number of changes:

* `RemovalsArePlanned` (`RemovedAsPlanned`): each of the three looks adds a verdict that stays
  until the unlink unless the other process acted;
* `ExitCodeTells` (`ExitTellsAttempts`): the code's flag agrees with what was attempted wherever a
  cleanup can end;
* `AcceptedSurfaceExisted` (`SnapshotWasReal`). `ReadInv` follows the second candidate: while the
  tokens it read first stand still, every reading made since describes the world, and once the
  visibility token was read again, the same, they describe a world there was at that moment if
  the other token has not moved since. A change moves the token of what it changes
  (`ChangeNoticed`), and the last reading looks at the other one;
* `CleanKeepsInputs` (`InputsSurvive`) and `CleanedOnExitZero` (`ExitZeroCleans`), for a cleanup that
  is left alone. `QuietInv`: the snapshot still tells what is tracked and not ignored, and what it
  does not protect of the inputs is out of the scope, so the ignore file, and with it what is
  ignored, stays. `CleanedInv`: what is eligible in the scope is waiting for the step that removes
  it;
* `CleanTypeCorrect` (`TypeOK`).

`RenameRunProofs` proves every property of a rename run, for any trees, rows, names, depths
and number of acts of the other process. The translations are recursive functions, so what
they do to a path is proved by induction over the steps of the plan (`Recursion`, `AlongSteps`,
`BackSteps`).

* `RenameTypes` (`TypeOK`) and `NoRenameReplaces` (`NoFileReplaced`);
* `FilesWhereTranslated` (`TranslationsTrue`): a step is made only where nothing is at its
  destination, so a file that was carried is carried back (`MoveMade`, `CarryBack`);
* `OnePressIsEnough` (`NothingLeftToRename`). `PlanLeads`: the plan made in full takes every entry to
  where the compiler expects it, and it stops when no row changes an expected place;
* `LinksKeepTheirTargets` (`LinksFollow`). `LinksTold`: each link spells its target from where it
  stands, before it is retargeted and after; a translation keeps what is below a directory below
  it (`TranslateMonotone`);
* `AcceptedPlansAreRun` (`AcceptedPlansRun`), the one that is furthest from inductive. `PlanFits` says
  of each planned step which entry it was planned for, of which kind, that the entry is at its source
  after the steps before it, and which steps it waits for; if those were executed the entry is there on the
  disk too, and it is the only one (`FilesApart`, because the way back keeps files apart), so the kind is the
  one that was planned (`KindFound`);
* `RecordedPathsFit` (`HistoryFits`), of any finite set of moves and any list of paths: a
  substitution adds the width of the new prefix less that of the old (`CarriedWidth`), there are no
  more of them than moves (`TranslationWidth`), and what a component becomes is reachable within as many
  steps (`TranslationNames`);
* `FindingsAreTraced` (`FindingsMapBack`), which is about a set of pairs that forgot the order of the
  moves. While no row makes what another consumes, a place that a step fills was never occupied before and
  one that a step empties never is again (`FilledOnce`, `EmptiedForGood`); so a skipped step whose
  pair was executed by another step carries no file (`SkippedCarriesNone`), and to take it along
  changes nothing (`IdleMoves`). That needs to know why each step was made or skipped: `Made`
  says it waited for its predecessors, and that undisturbed only these or a taken destination
  can have held it up. In a sandbox every made name is new to the tree and made of one name
  (`Named`, `Fresh`), so a component never returns to a name it had (`NoReturn`), and files that share
  a name in one place always did (`SameOrigin`). Then no two executed steps have one pair (`MovesDistinct`),
  the deepest pair a path lies under is that of the step that moved the file next, or last on
  the way back (`LeadsOn`, `LeadsHere`), and a walk along the pairs repeats the moves one by one and
  rests at the end (`Walk`, `BothWays`).

`RemovalsProofs` proves every safety property of a press over its removals, for any trees,
identities, declarations and number of presses:

* `RemovalsTypeCorrect` (`TypeOK`);
* `RemovalsLoseOnlyExcused` (`RemovesOnlySaved`). `UnchangedSaved`: what git status calls unchanged has
  a copy in HEAD, because every edit, staging and rename onto a tracked path shows there; so a
  planned member whose file is there has one (`PlannedSaved`), the others may be missing. The root
  moves to a place without files, so a file that is not saved meets a member there only if
  the member's own file was missing;
* `HistoryAlwaysWritable` (`HistoryWritable`): the coordinates of the rows after the executed renames
  are among those that were validated before the first;
* `RecordsAccumulate` (`RemovalsStayRecorded`): rows that are not declared any more are retained and
  carried;
* `SuccessesStayPressable` (`SuccessIsPressable`), by an invariant over the phases of a press:
  `PlanShape` (the plan is what the gates let through), `BeforeMove` and `AfterMove` (which directories
  have the new name, and where the rows and the files of the plan are), `Settled` (the receipt and the tree of
  a finished press nobody touched). The next press freezes exactly the rows that the receipt
  records (`FinalShape`, `RecordedRow`, `RecordedFiles`, `ReissuedConsistent`);
* `VerifierFollowsPress` (`VerifyFollowsPress`): the history a receipt holds is sound over any sequence of
  presses (`HistoryInv`), the verifier freezes the same rows from it as a press does
  (`VerifierShape`) and they do not contradict each other (`FreshConsistent`).

`VerifyRunProofs` proves every safety property of a verification, for any number of paths, sorts of
content, ignores and edits:

* `VerifyTypeCorrect` (`TypeOK`);
* `VerifyNeverFalselyClean` (`NoFalseClean`). `CleanInv` follows one path that nobody touched through
  the phases: its copy is what the target holds, what the press leaves of it is `Leftovers`, the
  restaged index lists it where it is, the scan finds each leftover, and only an ignore takes a
  finding away. `HeldInv` says that what was copied so far is in the sandbox as it was listed;
* `VerifyNeverFalselyAlarmed` (`NoFalseAlarm`) and `IgnoresHideOne` (`IgnoresExact`). `ExactInv` adds the
  converse (`Sourced`): what stands in the sandbox came from the target or is a stub, its text
  was cleared unless it withstands the press, so a finding is of a leftover
  (`FindingExcused`). An ignore that is not ambiguous matches one finding, which makes the choice of
  an ignore for each leftover an injection (`SuppressedExactly`). `AnchoredInv` follows what the scan
  found in the copy to the look at the anchors, past any edit.

The assumptions used are the named ones of the modules: `FilesAssumption` (a declared file
has one writer: the rules loader refuses anything else), `ContentsAssumption`,
`InputsAssumption`, `CaptureAssumption`, `CleanAssumption`, `RemovalsAssumption`,
`NoReceiptAssumption`, `VerifyAssumption`, `NamesAssumption`, `WidthAssumption` and `RunAssumption` (the
trees are inventories). They say what kind of value a constant is and which values differ. TLC evaluates
them in every run, and `DeclarationsAssumption` in those of the lifecycle: it is the instance
of `PressableDeclarations`, which is a hypothesis of one theorem and assumed nowhere else.

Only model-checked: liveness (`KeepsGettingPressed`, `EachRunEnds`, `CopyRemoved`) and what needs
ENABLED.

## Disagreements with the documentation

| Run | The documentation says | The code does |
|---|---|---|
| `PressRunExitTwo` | exit 2: nothing written (`README.md:85`, `cli.md:58`) | removes the prior receipt and may write a discovered source-config before it fails with 2 (`cli.py:831-850`) |
| `PressRunRemoved` | a recorded file is gone (`receipt.py:593`) | a declared command can write it again; the receipt records it as removed |
| `PressRunRegenForce` | after a failed regenerate, re-run with `--force` (`cli.py:1109`) | the identity guard refuses the re-run: the tree already has the new identity, the source-config the old |
| `RenameFolded` | `translate_path` follows chained moves (`pathing.py:36`) | it applies executed moves as an unordered mapping; with chained exact rules it names another file |
| `RemovalsSelected` | only the selected members are deleted (`cli.md:496`) | a member excused as already removed is unlinked if a rename has put another file at its path (`remove.py:1019`) |

## What is not modelled

* **PressRun**: rendering of commands, resolution of executables and platform conditions
  (a declaration is active or not before the run); the relaxation of the identity guard over a
  repository whose origin does not match (`_relax_origin_guard`, `cli.py:287-342`); which rules match where (a scan is the
  set of identities a file carries); messages. Renames are `RenameRun`'s.
* **RenameRun**: rows that replace a part of a name (rows replace whole names), checks of
  rows for content, translations of dangling links, Git links, empty directories, the
  visibility projection, the bound of 32 passes. Whether a file system has an
  atomic rename is an input.
* **ReceiptBudget**: the limits on the number of entries and on the bytes of the whole receipt,
  which are compared with sums of these bounds, and the coarser bound the code takes for moves
  that change the depth of a path (no row here does).
* **Removals**: aliases and spelling, links, junctions and Git links, Git visibility
  inputs, overlaps with other writers, empty directories, a concurrent process.
* **SurfaceCapture**: conditional includes, embedded repositories, directories ignored as
  a whole, an unmerged index.
* **PressClean**: the Windows retry of a read-only file, ignored proper ancestors, repository
  boundaries, aliases and hard links, the overlap with `core.excludesFile`, the checks of
  Git's metadata.
* **VerifyRun**: the text of findings, the hints and near misses (advisory, they change no
  verdict), the JSON report, parsing and rewriting `verify.toml`, the choice of the sandbox's
  identity (that no variant of it meets one of the target is taken as given), moves of one path
  that depend on another (`RenameRun`), and the few instructions between the creation of the sandbox's
  directory and the `try` that removes it (`safety.py:939-940`).
* **Not at all**: identity synthesis and the substitution and matcher text (character-level data
  that no property tells apart), tool lookups (I/O), rules parsing (its guarantee is
  `FilesAssumption`), the command dispatcher (no state), the CI scripts.

## Plan

The press, its lifecycle, cleaning, removals, renames with the receipt's budget, and
verification are modelled as described above, and their safety properties proved. In this order:

1. The abstract specification of a rename run (a partial injection of files to places,
   each step moves one subtree or nothing) and `RenameRun` shown to implement it.
2. Repository boundaries and aliases in `PressClean`, overlaps and links in `Removals`, the count
   and byte limits in `ReceiptBudget`.
