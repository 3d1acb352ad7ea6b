------------------------ MODULE VerifyThenMarkProofs ------------------------
(***************************************************************************)
(* The promise of the receipt, proved of the abstract specification.       *)
(***************************************************************************)
EXTENDS VerifyThenMark, TLAPS

(***************************************************************************)
(* A mark is always true of the tree that carries it, and so is a saved    *)
(* one of the saved tree.                                                  *)
(***************************************************************************)
THEOREM MarkAlwaysTrue == MarkSpec => []MarkIsTrue
<1>1. MarkInit => MarkIsTrue
  BY DEF MarkInit, MarkIsTrue
<1>2. MarkIsTrue /\ [MarkNext]_markVars => MarkIsTrue'
  <2> SUFFICES ASSUME MarkIsTrue, [MarkNext]_markVars PROVE MarkIsTrue'
    OBVIOUS
  <2> USE DEF MarkIsTrue, True
  <2>1. CASE UNCHANGED markVars
    BY <2>1 DEF markVars
  <2>2. CASE Touch
    BY <2>2 DEF Touch
  <2>3. CASE Withdraw
    BY <2>3 DEF Withdraw
  <2>4. CASE Save
    BY <2>4 DEF Save
  <2>5. CASE Restore
    BY <2>5 DEF Restore
  <2>6. ASSUME NEW m \in Marks, Certify(m) PROVE MarkIsTrue'
    BY <2>6 DEF Certify
  <2> QED BY <2>1, <2>2, <2>3, <2>4, <2>5, <2>6 DEF MarkNext
<1> QED BY <1>1, <1>2, PTL DEF MarkSpec
=============================================================================
