---------------------------- MODULE MCPressClean ----------------------------
(***************************************************************************)
(* Press clean over an ignore file, a control file and a build product in  *)
(* a directory, and a build product in the root.                           *)
(***************************************************************************)
EXTENDS PressClean

MCWithin == [d |-> {"x", "ctl"}]
MCSelections == {{"f"}, {"f", "d"}, {"f", "gi"}, {"d"}}
MCTexts == {{}, {"f", "x"}, {"gi", "f", "x", "ctl"}}

MCStarts ==
    {[present |-> p, index |-> i, text |-> t] :
        p \in {{"gi", "ctl", "f", "x"}, {"gi", "f"}}, i \in {{}, {"ctl"}}, t \in MCTexts \ {{}}}
=============================================================================
