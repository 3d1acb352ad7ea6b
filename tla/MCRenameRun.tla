---------------------------- MODULE MCRenameRun -----------------------------
(***************************************************************************)
(* RenameRun over trees of up to three files in two levels of directories, *)
(* with every pair of rows over three names, and a fourth for a sandbox.   *)
(***************************************************************************)
EXTENDS RenameRun

Committed == 1..3
MCNames == Committed \cup {4}
MCWidth == <<1, 3, 2, 5>>

MCGrounds == {<<2>>, <<3>>, <<1, 2>>}

Directories(files) == {Parent(p) : p \in {q \in files : Len(q) > 1}}

Plain(files, others, atomic) ==
    [files |-> files, links |-> {}, target |-> <<>>, shared |-> others, atomic |-> atomic]
Linked(files, l, t) ==
    [files |-> files, links |-> {l}, target |-> [k \in {l} |-> t],
     shared |-> FALSE, atomic |-> TRUE]

(***************************************************************************)
(* Siblings, cousins and files beside directories, in trees of three; one  *)
(* file of two a link to the other or to a directory; two files that may   *)
(* be renamed onto one link; two files while another process is at work.   *)
(***************************************************************************)
ThreeFiles ==
    {{<<1>>, <<2>>, <<3>>}, {<<1, 1>>, <<1, 2>>, <<2>>}, {<<1, 2>>, <<1, 3>>, <<3>>},
     {<<1, 1>>, <<2, 1>>, <<3, 1>>},
     {<<1, 1>>, <<2, 1>>, <<2, 2>>}, {<<1>>, <<2, 1>>, <<3, 2>>}}
TwoFiles ==
    {{<<1>>, <<2>>}, {<<1, 1>>, <<1, 2>>}, {<<1, 1>>, <<2>>}, {<<1, 1>>, <<2, 1>>},
     {<<1, 2>>, <<2, 1>>}}
MCTrees ==
    {Plain(files, FALSE, TRUE) : files \in ThreeFiles} \cup
    UNION {{Linked(files, lt[1], lt[2]) :
                lt \in {x \in files \X (files \cup Directories(files)) : x[1] # x[2]}} :
               files \in TwoFiles} \cup
    {Linked({<<1, 1>>, <<1, 2>>, <<2, 1>>}, <<1, 1>>, <<1, 2>>)} \cup
    {Plain(files, TRUE, atomic) : files \in TwoFiles, atomic \in BOOLEAN}

(***************************************************************************)
(* Scopes that make a difference: everything, one of the files, everything *)
(* below one directory.                                                    *)
(***************************************************************************)
Scopes(files) ==
    {[scope |-> Paths, exact |-> FALSE]} \cup
    {[scope |-> {p}, exact |-> TRUE] : p \in files} \cup
    {[scope |-> {p \in Paths : Under(p, d)} \ {d}, exact |-> FALSE] : d \in Directories(files)}

RowsOver(files) ==
    {[from |-> m[1], to |-> m[2], scope |-> s.scope, exact |-> s.exact, declared |-> TRUE] :
        m \in {n \in Committed \X Committed : n[1] # n[2]}, s \in Scopes(files)}

(***************************************************************************)
(* One row, or two whose effects meet: one maps to or from a name of the   *)
(* other.                                                                  *)
(***************************************************************************)
Meet(r, s) == {r.from, r.to} \cap {s.from, s.to} # {} /\ r # s

(***************************************************************************)
(* Two names of a tree that has no third, turned into names of its own.    *)
(***************************************************************************)
Everywhere(from, to) ==
    [from |-> from, to |-> to, scope |-> Paths, exact |-> FALSE, declared |-> FALSE]
SyntheticRows(files) ==
    IF \E p \in files, i \in 1..MaxDepth : i <= Len(p) /\ p[i] = 3 THEN {}
    ELSE {<<Everywhere(1, 3), Everywhere(2, 4)>>, <<Everywhere(1, 4), Everywhere(2, 3)>>}

MCRowLists(t) ==
    SyntheticRows(t.files) \cup
    {<<r>> : r \in RowsOver(t.files)} \cup
    IF t.shared THEN {}
    ELSE {rs \in RowsOver(t.files) \X RowsOver(t.files) : Meet(rs[1], rs[2])}
=============================================================================
