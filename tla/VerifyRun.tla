----------------------------- MODULE VerifyRun ------------------------------
(***************************************************************************)
(* press verify: the target is copied into a private sandbox, pressed      *)
(* there to a synthetic identity, and scanned for what is left of its own. *)
(* Another process may edit the target all the while, and the command may  *)
(* fail, be interrupted or be killed at any point.                         *)
(*                                                                         *)
(* What happens to one path does not depend on the others, so a path is a  *)
(* number (they are copied in order) with properties of its own, and       *)
(* pressing it either moves it or leaves it.  The listing of the target is *)
(* taken in one step: SurfaceCapture shows that it was real at a moment.   *)
(***************************************************************************)
EXTENDS Naturals, FiniteSets

CONSTANTS
    Nodes,      \* paths of the target, in their order
    Lines,      \* lines of a text
    MaxHits,    \* occurrences of the identity on one line
    Targets,    \* targets at the start: [place, disk]
    Configs,    \* configurations; see Config
    Edits(_),   \* what another process can put at a path
    MaxEdits

(***************************************************************************)
(* named: the path spells the identity; kept: the rules exclude it from    *)
(* rewriting; ignored: by git; scope: control files of press and paths     *)
(* under verify_ignore are not scanned; role: what is declared of it.      *)
(***************************************************************************)
Place == [named : BOOLEAN, kept : BOOLEAN, ignored : BOOLEAN,
          scope : {"plain", "control", "quiet"},
          role : {"none", "reset", "remove", "rebuilt"}]

(***************************************************************************)
(* What stands at a path.  hits: where the identity occurs, a symlink's in *)
(* its text; bytes: it is not UTF-8; stuck: the press cannot rewrite what  *)
(* the scan would find (bytes, a link out of the tree); marked: the lines  *)
(* on which the anchor of the ignores for this path stands.                *)
(***************************************************************************)
Hits == Lines \X (1..MaxHits)
Thing == [work : {"file", "symlink", "directory", "other", "missing"},
          index : {"none", "file", "gitlink"},
          bytes : BOOLEAN, stuck : BOOLEAN, hits : SUBSET Hits, marked : SUBSET Lines]

(***************************************************************************)
(* An ignore pins a path and may pin a line and an occurrence on it; 0 is  *)
(* neither.  inPath: its anchor occurs in the path; io: it accepts that    *)
(* the path cannot be read, instead of an occurrence of the identity.      *)
(***************************************************************************)
Ignore == [node : Nodes, line : Lines \cup {0}, ordinal : Nat,
           force : BOOLEAN, inPath : BOOLEAN, io : BOOLEAN]

(***************************************************************************)
(* found: the identity the target shows agrees with its source-config,     *)
(* differs, or there is none to see; waived: a receipt of this identity's  *)
(* completed press accepted just this difference.  titled: it declares a   *)
(* display name, which discovery cannot confirm.  recorded: removals the   *)
(* receipt knows.  collision: two fields are equal and that is an error.   *)
(***************************************************************************)
Config == [ignores : SUBSET Ignore, stub : SUBSET Hits, recorded : SUBSET Nodes,
           found : {"agrees", "differs", "nothing"}, waived : BOOLEAN, titled : BOOLEAN,
           collision : BOOLEAN, shared : BOOLEAN]

ASSUME VerifyAssumption ==
    /\ Nodes \subseteq Nat /\ Lines \subseteq Nat \ {0}
    /\ MaxHits \in Nat /\ MaxEdits \in Nat
    /\ Targets \subseteq [place : [Nodes -> Place], disk : [Nodes -> Thing]]
    /\ Configs \subseteq Config /\ \A c \in Configs : IsFiniteSet(c.ignores)
    /\ \A n \in Nodes : Edits(n) \subseteq Thing

VARIABLES
    place,      \* [Nodes -> Place]
    cfg,
    disk,       \* [Nodes -> Thing]: the target
    edited,     \* paths that changed since the command started
    pc,
    listing,    \* how each path of the target is to be copied, or "none"
    tocopy,
    box,        \* the sandbox: what it holds of each path
    staged,     \* its index: paths, each before or after its move
    unread,     \* paths the scan could not read
    found,      \* findings
    unavailable,\* submodules
    code,       \* exit code; 3 when interrupted
    root,       \* the private directory exists
    broke       \* its removal failed or was cut short

target == <<place, cfg, disk, edited>>
vars == <<target, pc, listing, tocopy, box, staged, unread, found, unavailable,
          code, root, broke>>

Held(kind, moved, bytes, stuck, hits) ==
    [kind |-> kind, moved |-> moved, bytes |-> bytes, stuck |-> stuck, hits |-> hits]
NothingThere == Held("absent", FALSE, FALSE, FALSE, {})

Init ==
    /\ \E t \in Targets : place = t.place /\ disk = t.disk
    /\ cfg \in Configs
    /\ edited = {}
    /\ pc = "preflight"
    /\ listing = [n \in Nodes |-> "none"] /\ tocopy = {}
    /\ box = [n \in Nodes |-> NothingThere] /\ staged = {}
    /\ unread = {} /\ found = {} /\ unavailable = {}
    /\ code = 0 /\ root = FALSE /\ broke = FALSE

-----------------------------------------------------------------------------
(* The target. *)

Listed(n) == disk[n].index # "none" \/ (disk[n].work # "missing" /\ ~place[n].ignored)

(***************************************************************************)
(* select_copy_entries and copy_paths.                                     *)
(***************************************************************************)
Copied(n) == Listed(n) /\ (disk[n].index = "gitlink" \/ disk[n].work # "missing")

CopyKind(n) ==
    IF disk[n].work \in {"file", "symlink"} THEN disk[n].work
    ELSE IF disk[n].index = "gitlink" /\ disk[n].work \in {"directory", "missing"} THEN "gitlink"
    ELSE "unscannable"

Scanned(n) == place[n].scope = "plain"

(***************************************************************************)
(* _target_text_corpus: names, link texts and UTF-8 contents.              *)
(***************************************************************************)
Spoken(n) ==
    /\ Listed(n) /\ Scanned(n) /\ place[n].role # "rebuilt"
    /\ \/ place[n].named
       \/ disk[n].work \in {"file", "symlink"} /\ ~disk[n].bytes /\ disk[n].hits # {}

-----------------------------------------------------------------------------
(* Before the sandbox. *)

Rest == <<listing, tocopy, box, staged, unread, found, unavailable>>
Leave(c) == /\ pc' = IF root THEN "teardown" ELSE "exit"
            /\ code' = c
            /\ UNCHANGED <<target, Rest, root, broke>>
Goto(phase) == pc' = phase /\ UNCHANGED <<target, code, root, broke>>

Confirmed ==
    /\ cfg.titled \/ cfg.found = "nothing" => \E n \in Nodes : Spoken(n)
    /\ cfg.found = "differs" => cfg.waived

Preflight ==
    /\ pc = "preflight"
    /\ IF Confirmed THEN Goto("enter") /\ UNCHANGED Rest ELSE Leave(2)

EnterSandbox ==
    /\ pc = "enter"
    /\ root' = TRUE /\ pc' = "list"
    /\ UNCHANGED <<target, Rest, code, broke>>

-----------------------------------------------------------------------------
(* make_sandbox. *)

ListTarget ==
    /\ pc = "list"
    /\ listing' = [n \in Nodes |-> IF Copied(n) THEN CopyKind(n) ELSE "none"]
    /\ tocopy' = {n \in Nodes : Copied(n)}
    /\ Goto("copy")
    /\ UNCHANGED <<box, staged, unread, found, unavailable>>

CopyOf(n) == Held(listing[n], FALSE, disk[n].bytes, disk[n].stuck, disk[n].hits)
Placeholder == Held("placeholder", FALSE, FALSE, FALSE, {})

Put(n, thing) ==
    /\ box' = [box EXCEPT ![n] = thing]
    /\ tocopy' = tocopy \ {n}
    /\ Goto("copy")

CopyWhatIsThere(n) == \* mutant
    /\ pc = "copy" /\ n \in tocopy /\ \A m \in tocopy : n <= m
    /\ IF listing[n] \in {"file", "symlink"} /\ disk[n].work = listing[n]
       THEN Put(n, CopyOf(n)) /\ UNCHANGED unavailable
       ELSE /\ Put(n, IF listing[n] = "gitlink" THEN Placeholder ELSE NothingThere)
            /\ unavailable' = IF listing[n] = "gitlink" THEN unavailable \cup {n} ELSE unavailable
    /\ UNCHANGED <<listing, staged, unread, found>>

(***************************************************************************)
(* A file or link is read as it is now, if it still is one; of a submodule *)
(* only its name is kept; anything else refuses the copy.                  *)
(***************************************************************************)
CopyNode(n) ==
    /\ pc = "copy" /\ n \in tocopy /\ \A m \in tocopy : n <= m
    /\ \/ /\ listing[n] \in {"file", "symlink"} /\ disk[n].work = listing[n]
          /\ Put(n, CopyOf(n))
          /\ UNCHANGED unavailable
       \/ /\ listing[n] = "gitlink"
          /\ Put(n, Placeholder)
          /\ unavailable' = unavailable \cup {n}
       \/ /\ listing[n] = "unscannable" \/
             (listing[n] \in {"file", "symlink"} /\ disk[n].work # listing[n])
          /\ Leave(2)
    /\ UNCHANGED <<listing, staged, unread, found>>

InBox == {n \in Nodes : box[n].kind # "absent"}
Worktree == {<<n, box[n].moved>> : n \in InBox}

CommitCopy ==
    /\ pc = "copy" /\ tocopy = {}
    /\ staged' = Worktree
    /\ Goto("press")
    /\ UNCHANGED <<listing, tocopy, box, unread, found, unavailable>>

-----------------------------------------------------------------------------
(* The press in the sandbox. *)

Rewritten(n) == ~place[n].kept /\ place[n].scope # "control"

(***************************************************************************)
(* engine.apply.  A placeholder is a file to the press, in a directory of  *)
(* the submodule's name; links are retargeted wherever they are.           *)
(***************************************************************************)
HitsLeft(n) ==
    IF ~box[n].stuck /\ (Rewritten(n) \/ box[n].kind = "symlink") THEN {} ELSE box[n].hits

Pressed(n) ==
    IF n \notin InBox THEN box[n]
    ELSE Held(box[n].kind, place[n].named /\ Rewritten(n), box[n].bytes, box[n].stuck, HitsLeft(n))

ApplyPress ==
    /\ pc = "press"
    /\ box' = [n \in Nodes |-> Pressed(n)]
    /\ Goto("stub")
    /\ UNCHANGED <<listing, tocopy, staged, unread, found, unavailable>>

(***************************************************************************)
(* The stubs, read before the press, at the places the press moved the     *)
(* reset files to.                                                         *)
(***************************************************************************)
Resets == {n \in Nodes : place[n].role = "reset"}
WriteStubs ==
    /\ pc = "stub"
    /\ IF \E n \in Resets : box[n].kind \in {"symlink", "placeholder"} THEN Leave(2)
       ELSE /\ box' = [n \in Nodes |->
                          IF n \notin Resets THEN box[n]
                          ELSE Held("file", box[n].moved, FALSE, box[n].stuck, cfg.stub)]
            /\ Goto("remove")
            /\ UNCHANGED <<listing, tocopy, staged, unread, found, unavailable>>

(***************************************************************************)
(* A removal of what is not there needs a record of its removal, and only  *)
(* a regular file is removed.                                              *)
(***************************************************************************)
Doomed == {n \in Nodes : place[n].role = "remove"}
Removable(n) == box[n].kind = "file" \/ (box[n].kind = "absent" /\ n \in cfg.recorded)

ApplyRemovals ==
    /\ pc = "remove"
    /\ IF \A n \in Doomed : Removable(n)
       THEN /\ box' = [n \in Nodes |-> IF n \in Doomed THEN NothingThere ELSE box[n]]
            /\ Goto("restage")
            /\ UNCHANGED <<listing, tocopy, staged, unread, found, unavailable>>
       ELSE Leave(2)

RestageKnown == \* mutant
    /\ pc = "restage"
    /\ staged' = {e \in Worktree : e \in staged \/ ~place[e[1]].ignored}
    /\ Goto("scan")
    /\ UNCHANGED <<listing, tocopy, box, unread, found, unavailable>>

RestageNot == \* mutant
    /\ pc = "restage"
    /\ Goto("scan")
    /\ UNCHANGED Rest

(***************************************************************************)
(* git add -A -f.                                                          *)
(***************************************************************************)
Restage ==
    /\ pc = "restage"
    /\ staged' = Worktree
    /\ Goto("scan")
    /\ UNCHANGED <<listing, tocopy, box, unread, found, unavailable>>

-----------------------------------------------------------------------------
(* verifier.scan. *)

Entries == staged \cup {e \in Worktree : ~place[e[1]].ignored}

(***************************************************************************)
(* exempt_regenerated_paths: at the place the press moved the file to.     *)
(***************************************************************************)
Exempt(e) == place[e[1]].role = "rebuilt" /\ e[2] = box[e[1]].moved

Selected == {e \in Entries : Scanned(e[1]) /\ ~Exempt(e)}

Finding(n, where, line, at) == [node |-> n, where |-> where, line |-> line, at |-> at]
Nowhere == <<0, 0>>

PathFindings(e) ==
    IF place[e[1]].named /\ ~e[2] THEN {Finding(e[1], "path", 0, Nowhere)} ELSE {}

(***************************************************************************)
(* Occurrences in a text have lines; those in bytes or in a link have not. *)
(***************************************************************************)
LineOf(thing, at) == IF thing.kind = "file" /\ ~thing.bytes THEN at[1] ELSE 0

BodyFindings(e) ==
    LET n == e[1]
    IN  IF e \notin Worktree \/ n \in unread'
        THEN {Finding(n, "unscannable", 0, Nowhere)}
        ELSE {Finding(n, "body", LineOf(box[n], at), at) : at \in box[n].hits}

Scan ==
    /\ pc = "scan"
    /\ unread' \in SUBSET {n \in InBox : box[n].kind # "placeholder"}
    /\ found' = UNION {PathFindings(e) \cup BodyFindings(e) : e \in Selected}
    /\ Goto("ignore")
    /\ UNCHANGED <<listing, tocopy, box, staged, unavailable>>

-----------------------------------------------------------------------------
(* apply_ignores. *)

Before(f, g) ==
    \/ f.where = "path" /\ g.where = "body"
    \/ f.where = g.where /\ (f.at[1] < g.at[1] \/ (f.at[1] = g.at[1] /\ f.at[2] < g.at[2]))

(***************************************************************************)
(* The place of a finding among those of its path and line, from 1.        *)
(***************************************************************************)
Occurrence(f) ==
    1 + Cardinality({g \in found : /\ g.node = f.node /\ g.line = f.line
                                   /\ g.where # "unscannable" /\ Before(g, f)})

(***************************************************************************)
(* The anchor is looked for in the target's own file, as it is now.        *)
(***************************************************************************)
AnchoredAnyhow(ig, f) == TRUE \* mutant
Anchored(ig, f) ==
    IF f.line = 0 THEN ig.inPath
    ELSE /\ disk[f.node].work = "file" /\ ~disk[f.node].bytes
         /\ f.line \in disk[f.node].marked

Matches(ig) ==
    {f \in found : /\ f.node = ig.node /\ (ig.io <=> f.where = "unscannable")
                   /\ ig.line \in {0, f.line}
                   /\ ig.ordinal \in {0, Occurrence(f)}
                   /\ Anchored(ig, f)}

Ambiguous == \E ig \in cfg.ignores : \E f, g \in Matches(ig) : f # g
Suppressed == UNION {Matches(ig) : ig \in cfg.ignores}
Stale == {ig \in cfg.ignores : Matches(ig) = {} /\ ~ig.force}

Failed == found \ Suppressed # {} \/ Stale # {} \/ unavailable # {} \/ cfg.collision

ApplyIgnores ==
    /\ pc = "ignore"
    /\ IF Ambiguous THEN Leave(2) ELSE Leave(IF Failed THEN 1 ELSE 0)

-----------------------------------------------------------------------------
(* Leaving. *)

TearDown ==
    /\ pc = "teardown"
    /\ root' = FALSE /\ pc' = "exit"
    /\ UNCHANGED <<target, Rest, code, broke>>

Working == {"preflight", "enter", "list", "copy", "press", "stub", "remove", "restage",
            "scan", "ignore"}

(***************************************************************************)
(* Any step may raise, the teardown too: then nothing was concluded.       *)
(***************************************************************************)
Raise == pc \in Working /\ Leave(2)

InterruptHard == \* mutant
    /\ pc \in Working
    /\ pc' = "exit" /\ code' = 3
    /\ UNCHANGED <<target, Rest, root, broke>>
Interrupt == pc \in Working /\ Leave(3)

TearDownFails ==
    /\ pc = "teardown"
    /\ pc' = "exit" /\ broke' = TRUE
    /\ code' \in {2, 3}
    /\ UNCHANGED <<target, Rest, root>>

Kill ==
    /\ pc \in Working \cup {"teardown"}
    /\ pc' = "killed"
    /\ UNCHANGED <<target, Rest, code, root, broke>>

(***************************************************************************)
(* Another process.                                                        *)
(***************************************************************************)
Edit(n) ==
    /\ cfg.shared /\ pc \in Working
    /\ Cardinality(edited \cup {n}) <= MaxEdits
    /\ \E thing \in Edits(n) \ {disk[n]} : disk' = [disk EXCEPT ![n] = thing]
    /\ edited' = edited \cup {n}
    /\ UNCHANGED <<place, cfg, pc, Rest, code, root, broke>>

Verify ==
    \/ Preflight \/ EnterSandbox \/ ListTarget
    \/ (\E n \in tocopy : CopyNode(n))
    \/ CommitCopy \/ ApplyPress \/ WriteStubs \/ ApplyRemovals \/ Restage
    \/ Scan \/ ApplyIgnores \/ TearDown

Next == Verify \/ Raise \/ Interrupt \/ TearDownFails \/ Kill \/ (\E n \in Nodes : Edit(n))

Spec == Init /\ [][Next]_vars
FairSpec == Spec /\ WF_vars(Verify)
-----------------------------------------------------------------------------
(* Properties. *)

Boxed == [kind : {"absent", "file", "symlink", "placeholder"}, moved : BOOLEAN,
          bytes : BOOLEAN, stuck : BOOLEAN, hits : SUBSET Hits]

(***************************************************************************)
(* Types; and there is a sandbox just while the command works in it.       *)
(***************************************************************************)
TypeOK ==
    /\ place \in [Nodes -> Place] /\ disk \in [Nodes -> Thing] /\ cfg \in Config
    /\ edited \subseteq Nodes /\ tocopy \subseteq Nodes /\ unread \subseteq Nodes
    /\ unavailable \subseteq Nodes
    /\ pc \in Working \cup {"teardown", "exit", "killed"}
    /\ listing \in [Nodes -> {"none", "file", "symlink", "gitlink", "unscannable"}]
    /\ box \in [Nodes -> Boxed] /\ staged \subseteq Nodes \X BOOLEAN
    /\ \A f \in found : f.node \in Nodes /\ f.line \in Lines \cup {0}
    /\ code \in 0..3 /\ root \in BOOLEAN /\ broke \in BOOLEAN
    /\ root = (pc \notin {"preflight", "enter", "exit", "killed"}) \/ broke \/ pc = "killed"

(***************************************************************************)
(* What a press leaves at a path of the target, said of the target alone.  *)
(***************************************************************************)
Left(where, line, at) == [where |-> where, line |-> line, at |-> at]
DiskLine(n, at) == IF disk[n].work = "file" /\ ~disk[n].bytes THEN at[1] ELSE 0

Withstands(n) == disk[n].stuck \/ (~Rewritten(n) /\ disk[n].work # "symlink")

Leftovers(n) ==
    IF ~Scanned(n) \/ place[n].role \in {"remove", "rebuilt"} THEN {}
    ELSE {l \in {Left("path", 0, Nowhere)} : place[n].named /\ place[n].kept} \cup
         IF place[n].role = "reset" THEN {Left("body", at[1], at) : at \in cfg.stub}
         ELSE {l \in {Left("body", DiskLine(n, at), at) : at \in disk[n].hits} : Withstands(n)}

(***************************************************************************)
(* Exit 0 is never a false clean: whatever a press leaves at a path that   *)
(* git lists and nobody touched meanwhile, in a name, a text, a link or    *)
(* bytes, an ignore names, unless it accepts that the path is not read;    *)
(* and no submodule is passed over.  Nor is a path that was listed left    *)
(* out of the scanned copy, or in it as something else, because it         *)
(* vanished or changed kind before it was copied: that refuses the copy.   *)
(***************************************************************************)
ExitZero == pc = "exit" /\ code = 0

NoFalseClean ==
    ExitZero =>
        /\ \A n \in Nodes \ edited : Copied(n) =>
              /\ CopyKind(n) \in {"file", "symlink"}
              /\ \A l \in Leftovers(n) :
                    \E ig \in cfg.ignores : ig.node = n /\ (ig.io \/ ig.line \in {0, l.line})
        /\ \A n \in Nodes \ Doomed : listing[n] # "none" =>
              listing[n] \in {"file", "symlink"} /\ box[n].kind = listing[n]

(***************************************************************************)
(* Nor is exit 1 a false alarm: with nothing to ignore, nothing edited and *)
(* all of it readable, something is left, opaque or declared an error.     *)
(***************************************************************************)
NoFalseAlarm ==
    pc = "exit" /\ code = 1 /\ edited = {} /\ unread = {} /\ cfg.ignores = {} =>
        \/ cfg.collision
        \/ \E n \in Nodes : Copied(n) /\ (CopyKind(n) = "gitlink" \/ Leftovers(n) # {})
        \/ \E n \in Resets : ~Copied(n)

(***************************************************************************)
(* An ignore hides one leftover and no other: the one its anchor stands    *)
(* beside in the committed file; and it does not outlive it.  (The lines   *)
(* of a reset file are those of its stub, not of the file.)  The anchor is *)
(* looked up after the copy was scanned, so also of a file that changed in *)
(* between: a line left in the copy is hidden only if the target has the   *)
(* anchor on it when the verdict is given, wherever it had it before.      *)
(***************************************************************************)
IgnoresOf(n) == {ig \in cfg.ignores : ig.node = n /\ ~ig.io}

LeftInCopy(n) ==
    IF Scanned(n) /\ place[n].role = "none" /\ box[n].kind = "file" /\ ~box[n].bytes
    THEN box[n].hits ELSE {}
MarkedNow(n) == IF disk[n].work = "file" /\ ~disk[n].bytes THEN disk[n].marked ELSE {}

IgnoresExact ==
    ExitZero =>
        /\ \A n \in Nodes \ (edited \cup unread) :
              /\ Cardinality(IF Copied(n) THEN Leftovers(n) ELSE {}) <= Cardinality(IgnoresOf(n))
              /\ \A ig \in IgnoresOf(n) : ~ig.force /\ Copied(n) => Leftovers(n) # {}
              /\ Copied(n) /\ n \notin Resets =>
                    \A l \in Leftovers(n) : l.line # 0 => l.line \in disk[n].marked
        /\ \A n \in Nodes \ unread : \A at \in LeftInCopy(n) : at[1] \in MarkedNow(n)

(***************************************************************************)
(* The copy of the target does not stay behind, however the command ends,  *)
(* short of a kill or of its removal failing.                              *)
(***************************************************************************)
CopyRemoved == root ~> (~root \/ broke \/ pc = "killed")
=============================================================================
