---------------------------- MODULE MCVerifyRun -----------------------------
(***************************************************************************)
(* VerifyRun over two paths and two lines: every pair of the sorts of path *)
(* and content below, an unusual one beside each.                          *)
(***************************************************************************)
EXTENDS VerifyRun

MCLines == 1..2

At(named, kept, ignored, scope, role) ==
    [named |-> named, kept |-> kept, ignored |-> ignored, scope |-> scope, role |-> role]
Of(work, index, bytes, stuck, hits, marked) ==
    [work |-> work, index |-> index, bytes |-> bytes, stuck |-> stuck,
     hits |-> hits, marked |-> marked]

Ordinary == At(FALSE, FALSE, FALSE, "plain", "none")
Named == At(TRUE, FALSE, FALSE, "plain", "none")
NamedIgnored == At(TRUE, FALSE, TRUE, "plain", "none")
NamedKept == At(TRUE, TRUE, FALSE, "plain", "none")
Kept == At(FALSE, TRUE, FALSE, "plain", "none")
In(scope) == At(FALSE, FALSE, FALSE, scope, "none")
Declared(role) == At(TRUE, FALSE, FALSE, "plain", role)

Text == Of("file", "file", FALSE, FALSE, {<<1, 1>>}, {1})
Plain == Of("file", "file", FALSE, FALSE, {}, {})
Twice == Of("file", "file", FALSE, TRUE, {<<1, 1>>, <<1, 2>>}, {1})
Apart == Of("file", "file", FALSE, TRUE, {<<1, 1>>, <<2, 1>>}, {1})
Once == Of("file", "file", FALSE, TRUE, {<<2, 1>>}, {2})
Unmarked == Of("file", "file", FALSE, TRUE, {<<2, 1>>}, {1})
Bytes == Of("file", "file", TRUE, TRUE, {<<1, 1>>}, {})
Link == Of("symlink", "file", FALSE, FALSE, {<<1, 1>>}, {})
Escaping == Of("symlink", "none", FALSE, TRUE, {<<1, 1>>}, {})
Submodule == Of("directory", "gitlink", FALSE, FALSE, {}, {})
Fifo == Of("other", "file", FALSE, FALSE, {}, {})
Deleted == Of("missing", "file", FALSE, FALSE, {}, {})
Gone == Of("missing", "none", FALSE, FALSE, {}, {})

Sorts ==
    {<<Ordinary, t>> : t \in {Text, Twice, Apart, Once, Unmarked, Bytes, Link, Escaping,
                              Submodule, Fifo, Deleted}} \cup
    {<<Named, t>> : t \in {Text, Link, Submodule}} \cup
    {<<NamedIgnored, t>> : t \in {Bytes, Escaping}} \cup
    {<<NamedKept, Plain>>, <<Kept, Text>>, <<Kept, Link>>} \cup
    {<<In("control"), Text>>, <<In("quiet"), Twice>>} \cup
    {<<Declared(r), t>> : r \in {"reset", "remove", "rebuilt"}, t \in {Text, Deleted}} \cup
    {<<Declared("remove"), Gone>>, <<Declared("reset"), Escaping>>}

Pair(a, b) == [place |-> <<a[1], b[1]>>, disk |-> <<a[2], b[2]>>]
Beside == {<<Named, Text>>, <<NamedIgnored, Bytes>>, <<Ordinary, Unmarked>>, <<Ordinary, Submodule>>,
           <<In("quiet"), Twice>>, <<Declared("remove"), Deleted>>}
MCTargets == {Pair(a, b) : a \in Sorts, b \in Beside}

MCEdits(n) == {Text, Once, Unmarked, Escaping, Gone}

Ign(n, line, ordinal, force) ==
    [node |-> n, line |-> line, ordinal |-> ordinal, force |-> force, inPath |-> line = 0,
     io |-> FALSE]
Unreadable(n) == [Ign(n, 0, 0, TRUE) EXCEPT !.io = TRUE]
Usual == [ignores |-> {}, stub |-> {}, recorded |-> {}, found |-> "agrees", waived |-> FALSE,
          titled |-> FALSE, collision |-> FALSE, shared |-> FALSE]

MCConfigs ==
    {[Usual EXCEPT !.ignores = igs] : igs \in
        {{}, {Ign(1, 0, 0, FALSE)}, {Ign(1, 1, 0, FALSE)}, {Ign(1, 2, 0, TRUE)},
         {Ign(1, 1, 1, FALSE), Ign(1, 1, 2, FALSE)}, {Unreadable(1)}}} \cup
    {[Usual EXCEPT !.stub = {<<1, 1>>}, !.ignores = igs] : igs \in {{}, {Ign(1, 1, 0, FALSE)}}} \cup
    {[Usual EXCEPT !.recorded = {1}], [Usual EXCEPT !.collision = TRUE],
     [Usual EXCEPT !.titled = TRUE]} \cup
    {[Usual EXCEPT !.found = f, !.waived = w] :
        f \in {"differs", "nothing"}, w \in BOOLEAN} \cup
    {[Usual EXCEPT !.shared = TRUE, !.ignores = igs] : igs \in {{}, {Ign(1, 2, 0, FALSE)}}}
=============================================================================
