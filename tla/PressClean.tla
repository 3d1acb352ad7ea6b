----------------------------- MODULE PressClean -----------------------------
(***************************************************************************)
(* `press clean`: the surface is captured, the declared paths are planned  *)
(* against it, every exact file is looked at again and unlinked, and one   *)
(* `git clean -fdX` runs over the declared directories.  Another process   *)
(* may work in the checkout all the time.                                  *)
(***************************************************************************)
EXTENDS SurfaceCapture

CONSTANTS
    Within,     \* [directory -> its entries], for the directories of the target
    Controls,   \* press-owned control files among the entries
    Selections, \* rendered [[clean]] paths: entries and directories
    NoItem

Dirs == DOMAIN Within

ASSUME CleanAssumption ==
    /\ \A d \in Dirs : Within[d] \subseteq Entries
    /\ Dirs \cap Entries = {} /\ Controls \subseteq Entries
    /\ Selections \subseteq SUBSET (Entries \cup Dirs)

VARIABLES
    selected,   \* the declared paths
    show,       \* --show
    pinned,     \* the excludes the whole run goes by
    pc,
    todo,       \* paths to inspect
    files,      \* exact files: [path, node]
    roots,      \* directories for git clean
    item,       \* the file being removed
    started,    \* the code's flag: whether a failure is exit code 1
    exit,
    attempted,  \* history: an unlink was attempted or a git clean started,
    meddled     \* the other process acted since the last look began

cleanVars == <<selected, show, pinned, pc, todo, files, roots, item, started, exit,
               attempted, meddled>>
vars == <<world, captureVars, cleanVars>>

Init ==
    /\ CaptureInit
    /\ selected = {} /\ show = FALSE /\ pinned = excludes
    /\ pc = "capture" /\ todo = {} /\ files = {} /\ roots = {} /\ item = NoItem
    /\ started = FALSE /\ exit = "none" /\ attempted = FALSE /\ meddled = FALSE

-----------------------------------------------------------------------------
End(code) == pc' = "done" /\ exit' = code
Fail == End(IF started THEN "1" ELSE "2")
Go(phase) == pc' = phase /\ UNCHANGED exit

Unmoved == UNCHANGED <<world, captureVars, selected, show, pinned, meddled>>

Protected == Names(snapshot.listed)
Scope(paths) == (paths \cap Entries) \cup UNION {Within[d] : d \in paths \cap Dirs}

(***************************************************************************)
(* git check-ignore over the index: an ignored path that is not tracked.   *)
(***************************************************************************)
Eligible(e) == e \in Ignored(pinned) /\ e \notin index

Capture ==
    /\ pc = "capture"
    /\ Read
    /\ CASE capture' = "reading" -> UNCHANGED <<pc, exit>>
         [] capture' = "done" -> Go("inputs")
         [] OTHER -> Fail
    /\ UNCHANGED <<selected, show, pinned, todo, files, roots, item, started, attempted,
                   meddled>>

(***************************************************************************)
(* An input of Git or of the press that no listing protects must not lie   *)
(* in the scope.  The declared paths play no part before.                  *)
(***************************************************************************)
PreservesGitInputs(scope) == \* mutant
    snapshot.policy.kind # "missing" /\ PolicyFile \notin Protected => PolicyFile \notin scope

PreservesInputs(scope) ==
    /\ snapshot.policy.kind # "missing" /\ PolicyFile \notin Protected => PolicyFile \notin scope
    /\ \A c \in Controls : Present(c) /\ c \notin Protected => c \notin scope

CheckInputs ==
    /\ pc = "inputs"
    /\ selected' \in Selections /\ show' \in BOOLEAN
    /\ IF PreservesInputs(Scope(selected')) THEN Go("inspect") /\ todo' = selected'
                                           ELSE Fail /\ UNCHANGED todo
    /\ seen' = {}
    /\ UNCHANGED <<world, stamps, taken, capture, snapshot, pinned, meddled>>
    /\ UNCHANGED <<files, roots, item, started, attempted>>

(***************************************************************************)
(* The no-follow look at one declared path: a directory is left to Git, an *)
(* empty one too if it exists; a regular file that is not protected is an  *)
(* exact file, another node has to be tracked.                             *)
(***************************************************************************)
RegularOrLink(e) == Present(e) \* mutant
Regular(e) == node[e].kind = "file"

Inspect(p) ==
    /\ pc = "inspect" /\ p \in todo /\ todo' = todo \ {p}
    /\ IF p \in Dirs
       THEN /\ \/ roots' = roots \cup {p}
               \/ (\A e \in Within[p] : ~Present(e)) /\ UNCHANGED roots
            /\ UNCHANGED <<files, pc, exit>>
       ELSE /\ IF Present(p) /\ ~Regular(p) /\ p \notin snapshot.listed.tracked
               THEN Fail ELSE UNCHANGED <<pc, exit>>
            /\ files' = IF Regular(p) /\ p \notin Protected
                        THEN files \cup {[path |-> p, node |-> node[p]]} ELSE files
            /\ UNCHANGED roots
    /\ Unmoved /\ UNCHANGED <<item, started, attempted>>

(***************************************************************************)
(* A file below a selected directory is left to Git.                       *)
(***************************************************************************)
CoveredAll(f) == roots # {} \* mutant
Covered(f) == \E d \in roots : f.path \in Within[d]

(***************************************************************************)
(* --show prints the files, and runs git clean -ndX for the directories.   *)
(***************************************************************************)
Preview ==
    \/ End("0") /\ UNCHANGED attempted
    \/ roots # {} /\ End("1") /\ attempted' = TRUE
    \/ roots # {} /\ Fail /\ UNCHANGED attempted

Classify ==
    /\ pc = "inspect" /\ todo = {}
    /\ files' = {f \in files : ~Covered(f) /\ Eligible(f.path)}
    /\ IF show THEN Preview ELSE Go("next") /\ UNCHANGED attempted
    /\ Unmoved /\ UNCHANGED <<todo, roots, item, started>>

-----------------------------------------------------------------------------
(* Removal. *)

TakeFile(f) ==
    /\ pc = "next" /\ f \in files
    /\ item' = f /\ files' = files \ {f}
    /\ Go("look") /\ meddled' = FALSE
    /\ UNCHANGED <<world, captureVars, selected, show, pinned, todo, roots, started,
                   attempted>>

(***************************************************************************)
(* _revalidate_clean_file: the node, then what git check-ignore says, then *)
(* the index.  What fails here stops the cleanup.                          *)
(***************************************************************************)
SomeFile == Present(item.path) \* mutant
SameFile == node[item.path] = item.node

BeginLater == UNCHANGED started \* mutant
Begin == started' = TRUE

Checked(ok, here, after) ==
    /\ pc = here
    /\ IF ok THEN Go(after) ELSE Fail
    /\ Unmoved /\ UNCHANGED <<todo, files, roots, item, attempted>>

Look1 == Checked(SameFile, "look", "ignore") /\ UNCHANGED started
Look2 == Checked(Eligible(item.path), "ignore", "index") /\ UNCHANGED started
Look3 == /\ Checked(item.path \notin index, "index", "unlink")
         /\ IF pc' = "unlink" THEN Begin ELSE UNCHANGED started

(***************************************************************************)
(* The unlink takes whatever has the name by now.                          *)
(***************************************************************************)
Unlink ==
    /\ pc = "unlink" /\ attempted' = TRUE
    /\ \/ Present(item.path) /\ node' = [node EXCEPT ![item.path] = Missing] /\ Go("next")
       \/ Fail /\ UNCHANGED node
    /\ UNCHANGED <<index, text, excludes, changes, captureVars, selected, show,
                   pinned, todo, files, roots, item, started, meddled>>

(***************************************************************************)
(* git clean -fdX, with the pinned excludes; one that fails has removed a  *)
(* part, one that cannot be launched nothing.                              *)
(***************************************************************************)
Removable == {e \in UNION {Within[d] : d \in roots} : Present(e) /\ Eligible(e)}

RunGit ==
    /\ pc = "next" /\ files = {} /\ roots # {}
    /\ \E gone \in SUBSET Removable, code \in {"0", "1"} :
          /\ code = "0" => gone = Removable
          /\ node' = [e \in Entries |-> IF e \in gone THEN Missing ELSE node[e]]
          /\ End(code)
    /\ started' = TRUE /\ attempted' = TRUE
    /\ UNCHANGED <<index, text, excludes, changes, captureVars, selected, show,
                   pinned, todo, files, roots, item, meddled>>

GitNotLaunched ==
    /\ pc = "next" /\ files = {} /\ roots # {}
    /\ Fail
    /\ Unmoved /\ UNCHANGED <<todo, files, roots, item, started, attempted>>

NothingLeft ==
    /\ pc = "next" /\ files = {} /\ roots = {}
    /\ End("0")
    /\ Unmoved /\ UNCHANGED <<todo, files, roots, item, started, attempted>>

(***************************************************************************)
(* The other process, as long as the cleanup runs.                         *)
(***************************************************************************)
Meddle ==
    /\ pc # "done"
    /\ OtherProcess
    /\ meddled' = TRUE
    /\ UNCHANGED <<selected, show, pinned, pc, todo, files, roots, item, started, exit,
                   attempted>>

Clean ==
    \/ Capture \/ CheckInputs \/ (\E p \in todo : Inspect(p)) \/ Classify
    \/ (\E f \in files : TakeFile(f)) \/ Look1 \/ Look2 \/ Look3 \/ Unlink
    \/ RunGit \/ GitNotLaunched \/ NothingLeft

Next == Clean \/ Meddle

Spec == Init /\ [][Next]_vars

-----------------------------------------------------------------------------
(* Properties. *)

(***************************************************************************)
(* Types; the exact files are regular files by the node they were planned  *)
(* with.                                                                   *)
(***************************************************************************)
Exact == [path : Entries, node : {n \in Nodes : n.kind = "file"}]
TypeOK ==
    /\ node \in [Entries -> Nodes] /\ index \subseteq Entries /\ text \in Texts
    /\ excludes \in BOOLEAN /\ changes \in 0..MaxChanges
    /\ stamps \in [config : 0..MaxChanges, visibility : 0..MaxChanges]
    /\ capture \in {"reading", "refused", "done"} /\ Len(taken) < Len(Reads)
    /\ selected \in Selections \cup {{}} /\ show \in BOOLEAN /\ pinned \in BOOLEAN
    /\ pc \in {"capture", "inputs", "inspect", "next", "look", "ignore", "index", "unlink",
               "done"}
    /\ todo \subseteq selected /\ files \subseteq Exact /\ roots \subseteq Dirs
    /\ item \in Exact \cup {NoItem}
    /\ started \in BOOLEAN /\ attempted \in BOOLEAN /\ meddled \in BOOLEAN
    /\ exit \in {"none", "0", "1", "2"}

(***************************************************************************)
(* Whatever the other process did until the last look at a file began, the *)
(* file that is unlinked is the one that was planned, ignored and not      *)
(* tracked.                                                                *)
(***************************************************************************)
RemovedAsPlanned ==
    [][pc = "unlink" /\ pc' = "next" /\ ~meddled =>
          node[item.path] = item.node /\ Eligible(item.path)]_vars

(***************************************************************************)
(* Exit code 2 means that no file was unlinked and no git clean started, 1 *)
(* that something was.                                                     *)
(***************************************************************************)
ExitTellsAttempts == (exit = "2" => ~attempted) /\ (exit = "1" => attempted)

(***************************************************************************)
(* Left alone, a cleanup that exits 0 leaves nothing ignored in its scope. *)
(***************************************************************************)
ExitZeroCleans ==
    exit = "0" /\ ~show /\ changes = 0 => ~\E e \in Scope(selected) : Present(e) /\ Eligible(e)

(***************************************************************************)
(* Left alone, a cleanup removes neither a control file of the press nor   *)
(* the ignore file that made its files eligible.                           *)
(***************************************************************************)
InputsSurvive ==
    [][changes' = 0 => \A e \in Controls \cup {PolicyFile} : Present(e) => Present(e)']_vars
=============================================================================
