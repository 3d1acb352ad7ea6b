--------------------------- MODULE SurfaceCapture ---------------------------
(***************************************************************************)
(* The capture of a target's surface while another process may work in the *)
(* checkout: what Git lists, what stands at the listed paths, and the      *)
(* inputs that decide what Git ignores.  Nothing is locked: the capture    *)
(* brackets its enumerations with readings of the inputs, compares them,   *)
(* and does all of it twice.                                               *)
(***************************************************************************)
EXTENDS Naturals, Sequences

CONSTANTS
    Entries,    \* paths of the target
    Top,        \* those in its root directory
    PolicyFile, \* its .gitignore
    Base,       \* what the configured core.excludesFile ignores
    Texts,      \* what the .gitignore may ignore
    Kinds,      \* what may stand at a path: "file", "symlink"
    Starts,     \* trees to start from: [present, index, text]
    MaxChanges  \* changes by the other process

Missing == [kind |-> "missing", id |-> 0]
Nodes == {Missing} \cup [kind : Kinds, id : 0..MaxChanges]

ASSUME CaptureAssumption ==
    /\ Top \subseteq Entries /\ PolicyFile \in Entries /\ Base \subseteq Entries
    /\ Texts \subseteq SUBSET Entries
    /\ "file" \in Kinds /\ "missing" \notin Kinds
    /\ Starts \subseteq [present : SUBSET Entries, index : SUBSET Entries, text : Texts]
    /\ MaxChanges \in Nat

VARIABLES
    node,       \* [Entries -> Nodes]: id tells one file from its replacement
    index,      \* tracked paths
    text,       \* what the .gitignore says
    excludes,   \* whether core.excludesFile is configured
    stamps,     \* change tokens: of the config and index, of the visibility inputs
    changes,
    taken,      \* readings of the capture, while it runs
    capture,    \* "reading", "refused" or "done"
    snapshot,   \* the accepted surface
    seen        \* history: the surfaces there were while it ran

world == <<node, index, text, excludes, changes>>
captureVars == <<stamps, taken, capture, snapshot, seen>>

-----------------------------------------------------------------------------
(* What can be seen of the target. *)

Present(e) == node[e].kind # "missing"

(***************************************************************************)
(* The fingerprint of the .gitignore, no-follow; and what Git ignores with *)
(* a core.excludesFile pinned or not.                                      *)
(***************************************************************************)
Policy == [kind |-> node[PolicyFile].kind,
           text |-> IF node[PolicyFile].kind = "file" THEN text ELSE {}]
Ignored(pinned) == Policy.text \cup (IF pinned THEN Base ELSE {})

Listed(pinned) ==
    [tracked |-> index,
     other |-> {e \in Entries \ index : Present(e) /\ e \notin Ignored(pinned)}]
Names(listed) == listed.tracked \cup listed.other
KindsOf(listed) == [e \in Names(listed) |-> node[e].kind]

Surface == [listed |-> Listed(excludes), kinds |-> KindsOf(Listed(excludes)),
            policy |-> Policy, excludes |-> excludes]

-----------------------------------------------------------------------------
(* The capture. *)

NoSurface == [listed |-> [tracked |-> {}, other |-> {}]]
NoStamps == [config |-> 0, visibility |-> 0]

CaptureInit ==
    /\ \E s \in Starts :
          /\ node = [e \in Entries |-> IF e \in s.present
                                       THEN [kind |-> "file", id |-> 0] ELSE Missing]
          /\ index = s.index /\ text = s.text
    /\ excludes \in BOOLEAN
    /\ stamps = NoStamps /\ changes = 0
    /\ taken = <<>> /\ capture = "reading" /\ snapshot = NoSurface
    /\ seen = {Surface}

(***************************************************************************)
(* _capture_candidate, for the first time and, from the entries of the     *)
(* first candidate, for the second.                                        *)
(***************************************************************************)
First == <<"config", "listed", "kinds", "visibility", "listed", "kinds", "visibility", "config">>
Second == <<"config", "visibility", "listed", "kinds", "visibility", "config">>
Reads == First \o Second

(***************************************************************************)
(* Git lists the entries under the excludes read at the candidate's start, *)
(* then their kinds are looked up.                                         *)
(***************************************************************************)
Pinned == taken[IF Len(taken) < Len(First) THEN 1 ELSE Len(First) + 1].excludes

Look(sort) ==
    CASE sort = "config" -> [excludes |-> excludes, stamp |-> stamps.config]
      [] sort = "visibility" -> [policy |-> Policy, stamp |-> stamps.visibility]
      [] sort = "listed" -> Listed(Pinned)
      [] sort = "kinds" -> KindsOf(taken[Len(taken)])

(***************************************************************************)
(* Readings of one sort at these positions are equal, tokens included.     *)
(***************************************************************************)
Steady(t, sorts, positions) ==
    \A i, j \in positions : Reads[i] \in sorts /\ Reads[i] = Reads[j] => t[i] = t[j]

Listing == {"listed", "kinds"}
FirstHolds(t) == Steady(t, Listing \cup {"config", "visibility"}, 1..Len(First))
SecondHolds(t) ==
    /\ Steady(t, {"config", "visibility"}, Len(First) + 1..Len(Reads))
    /\ Steady(t, Listing, 5..Len(Reads))

(***************************************************************************)
(* The public part of a candidate, taken from its last readings.           *)
(***************************************************************************)
Candidate(t, last) ==
    LET at(sort) == t[CHOOSE i \in 1..last : Reads[i] = sort
                                /\ \A j \in i + 1..last : Reads[j] # sort]
    IN  [listed |-> at("listed"), kinds |-> at("kinds"),
         policy |-> at("visibility").policy, excludes |-> at("config").excludes]

SameEntries(t) == Steady(t, Listing, 5..Len(Reads)) \* mutant
SameSurface(t) == SecondHolds(t) /\ Candidate(t, Len(First)) = Candidate(t, Len(Reads))

Verdict(t) ==
    CASE Len(t) = Len(First) /\ ~FirstHolds(t) -> "refused"
      [] Len(t) = Len(Reads) -> IF SameSurface(t) THEN "done" ELSE "refused"
      [] OTHER -> "reading"

Read ==
    /\ capture = "reading"
    /\ LET t == Append(taken, Look(Reads[Len(taken) + 1]))
       IN  /\ capture' = Verdict(t)
           /\ IF capture' = "reading" THEN taken' = t /\ UNCHANGED stamps
                                      ELSE taken' = <<>> /\ stamps' = NoStamps
           /\ snapshot' = IF capture' = "done" THEN Candidate(t, Len(Reads)) ELSE snapshot
    /\ UNCHANGED <<world, seen>>

-----------------------------------------------------------------------------
(* The other process. *)

(***************************************************************************)
(* A change of the config, the index or the root directory, and one of a   *)
(* visibility input or a directory, move their tokens: a directory's moves *)
(* with its entries.                                                       *)
(***************************************************************************)
Change(tokens) ==
    /\ changes < MaxChanges /\ changes' = changes + 1
    /\ IF capture = "reading"
       THEN /\ stamps' = [k \in DOMAIN stamps |-> IF k \in tokens THEN stamps[k] + 1 ELSE stamps[k]]
            /\ seen' = seen \cup {Surface'}
       ELSE UNCHANGED <<stamps, seen>>
    /\ UNCHANGED <<taken, capture, snapshot>>

Tokens(e) == IF e \in Top THEN {"config", "visibility"} ELSE {"visibility"}

Put(e, kind) ==
    /\ node' = [node EXCEPT ![e] = [kind |-> kind, id |-> changes + 1]]
    /\ UNCHANGED <<index, text, excludes>> /\ Change(Tokens(e))

Drop(e) ==
    /\ Present(e)
    /\ node' = [node EXCEPT ![e] = Missing]
    /\ UNCHANGED <<index, text, excludes>> /\ Change(Tokens(e))

Track(e) ==
    /\ index' = IF e \in index THEN index \ {e} ELSE index \cup {e}
    /\ UNCHANGED <<node, text, excludes>> /\ Change({"config"})

Ignore(t) ==
    /\ Present(PolicyFile) /\ t # text
    /\ text' = t
    /\ UNCHANGED <<node, index, excludes>> /\ Change({"visibility"})

Configure ==
    /\ excludes' = ~excludes
    /\ UNCHANGED <<node, index, text>> /\ Change({"config"})

OtherProcess ==
    \/ \E e \in Entries : (\E kind \in Kinds : Put(e, kind)) \/ Drop(e) \/ Track(e)
    \/ \E t \in Texts : Ignore(t)
    \/ Configure

-----------------------------------------------------------------------------
(***************************************************************************)
(* An accepted surface is one the target had at one moment of the capture, *)
(* names, kinds and inputs together, although no two of its readings were  *)
(* made at the same moment.  (seen is kept until the surface is used.)     *)
(***************************************************************************)
SnapshotWasReal == capture = "done" /\ seen # {} => snapshot \in seen
=============================================================================
