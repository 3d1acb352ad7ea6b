----------------------------- MODULE MCRemovals -----------------------------
(***************************************************************************)
(* Removals over three directories of two files.                           *)
(***************************************************************************)
EXTENDS Removals

(***************************************************************************)
(* One or two files in the first directory, whose name the target bears,   *)
(* and one elsewhere or not.                                               *)
(***************************************************************************)
MCTrees ==
    {[name |-> "a", files |-> files] :
        files \in {{<<"a", 1>>}, {<<"a", 1>>, <<"a", 2>>}, {<<"a", 1>>, <<"b", 1>>},
                   {<<"a", 1>>, <<"a", 2>>, <<"b", 1>>}}}

(***************************************************************************)
(* Directory "a" goes with the name, "b" may become a name.                *)
(***************************************************************************)
MCRules ==
    {[dir |-> "a", files |-> {}], [dir |-> "b", files |-> {}],
     [dir |-> NoRoot, files |-> {<<"b", 1>>}], [dir |-> "a", files |-> {<<"b", 1>>}]}
=============================================================================
