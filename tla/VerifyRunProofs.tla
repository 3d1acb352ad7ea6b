-------------------------- MODULE VerifyRunProofs ---------------------------
(***************************************************************************)
(* press verify never passes falsely: proved for any number of paths,      *)
(* whatever another process does to the others meanwhile.  The invariant   *)
(* follows a path nobody touches from the target into the findings.        *)
(***************************************************************************)
EXTENDS VerifyRun, FiniteSetTheorems, TLAPS

(***************************************************************************)
(* Once the copy is past it: a submodule is known to be missing, anything  *)
(* else is one of the two kinds that can be copied.                        *)
(***************************************************************************)
Reached(n) ==
    /\ CopyKind(n) \in {"file", "symlink", "gitlink"}
    /\ CopyKind(n) = "gitlink" => n \in unavailable

AsCopied(n) == CopyKind(n) # "gitlink" =>
    /\ box[n].kind = CopyKind(n) /\ box[n].moved = FALSE
    /\ box[n].bytes = disk[n].bytes /\ box[n].stuck = disk[n].stuck
    /\ box[n].hits = disk[n].hits

AsPressed(n) == CopyKind(n) # "gitlink" =>
    /\ box[n].kind = CopyKind(n) /\ box[n].moved = (place[n].named /\ Rewritten(n))
    /\ box[n].bytes = disk[n].bytes
    /\ Withstands(n) => box[n].hits = disk[n].hits

AsStubbed(n) == CopyKind(n) # "gitlink" =>
    IF place[n].role # "reset" THEN AsPressed(n)
    ELSE /\ box[n].kind = "file" /\ box[n].moved = (place[n].named /\ Rewritten(n))
         /\ box[n].bytes = FALSE /\ box[n].hits = cfg.stub

AsRemoved(n) == place[n].role # "remove" => AsStubbed(n)

AsFound(n) == CopyKind(n) # "gitlink" =>
    \/ Finding(n, "unscannable", 0, Nowhere) \in found
    \/ \A l \in Leftovers(n) : Finding(n, l.where, l.line, l.at) \in found

Answered(n) ==
    /\ CopyKind(n) \in {"file", "symlink"}
    /\ \A l \in Leftovers(n) :
          \E ig \in cfg.ignores : ig.node = n /\ (ig.io \/ ig.line \in {0, l.line})

Pressing == {"press", "stub", "remove", "restage", "scan", "ignore"}

Followed(n) ==
    /\ pc = "copy" => listing[n] = CopyKind(n) /\ (n \notin tocopy => Reached(n) /\ AsCopied(n))
    /\ pc \in Pressing => Reached(n)
    /\ pc = "press" => AsCopied(n)
    /\ pc = "stub" => AsPressed(n)
    /\ pc = "remove" => AsStubbed(n)
    /\ pc \in {"restage", "scan"} => AsRemoved(n)
    /\ pc = "ignore" => AsFound(n)
    /\ pc \in {"teardown", "exit"} /\ code = 0 => Answered(n)

CleanInv ==
    /\ TypeOK
    /\ pc = "scan" => staged = Worktree
    /\ \A n \in Nodes \ edited : Copied(n) => Followed(n)

-----------------------------------------------------------------------------
(* Types. *)

LEMMA InitTyped == Init => TypeOK
<1> SUFFICES ASSUME Init PROVE TypeOK
  OBVIOUS
<1>1. PICK t \in Targets : place = t.place /\ disk = t.disk
  BY DEF Init
<1>2. place \in [Nodes -> Place] /\ disk \in [Nodes -> Thing] /\ cfg \in Config
  BY <1>1, VerifyAssumption DEF Init
<1>3. NothingThere \in Boxed
  BY DEF NothingThere, Held, Boxed
<1>4. /\ edited \subseteq Nodes /\ tocopy \subseteq Nodes /\ unread \subseteq Nodes
      /\ unavailable \subseteq Nodes /\ staged \subseteq Nodes \X BOOLEAN
      /\ \A f \in found : f.node \in Nodes /\ f.line \in Lines \cup {0}
  BY DEF Init
<1>5. /\ listing \in [Nodes -> {"none", "file", "symlink", "gitlink", "unscannable"}]
      /\ box \in [Nodes -> Boxed]
  BY <1>3 DEF Init
<1>6. /\ pc \in Working \cup {"teardown", "exit", "killed"}
      /\ code \in 0..3 /\ root \in BOOLEAN /\ broke \in BOOLEAN
      /\ root = (pc \notin {"preflight", "enter", "exit", "killed"}) \/ broke \/ pc = "killed"
  <2>1. pc = "preflight" /\ code = 0 /\ root = FALSE /\ broke = FALSE
    BY DEF Init
  <2>2. (pc \notin {"preflight", "enter", "exit", "killed"}) = FALSE
    BY <2>1
  <2>3. root = (pc \notin {"preflight", "enter", "exit", "killed"})
    BY <2>1, <2>2, Zenon
  <2>4. pc \in Working
    BY <2>1 DEF Working
  <2>5. code \in 0..3
    BY <2>1
  <2>6. root \in BOOLEAN /\ broke \in BOOLEAN
    BY <2>1
  <2> QED
    BY <2>3, <2>4, <2>5, <2>6
<1> QED
  BY <1>2, <1>4, <1>5, <1>6 DEF TypeOK

LEMMA LeaveTyped ==
    ASSUME TypeOK, pc \in Working, NEW c \in 0..3, Leave(c) PROVE TypeOK'
<1>1. root' = (pc' \notin {"preflight", "enter", "exit", "killed"}) \/ broke' \/ pc' = "killed"
  BY DEF TypeOK, Working, Leave
<1> QED
  BY <1>1 DEF TypeOK, Working, Leave, Rest, target

LEMMA PressedTyped == ASSUME TypeOK, NEW n \in Nodes PROVE Pressed(n) \in Boxed
<1>1. box[n] \in Boxed
  BY DEF TypeOK
<1>2. HitsLeft(n) \in SUBSET Hits
  BY <1>1 DEF HitsLeft, Boxed
<1>3. (place[n].named /\ Rewritten(n)) \in BOOLEAN
  OBVIOUS
<1>4. Held(box[n].kind, place[n].named /\ Rewritten(n), box[n].bytes, box[n].stuck, HitsLeft(n))
        \in Boxed
  BY <1>1, <1>2, <1>3 DEF Held, Boxed
<1> QED
  BY <1>1, <1>4 DEF Pressed

LEMMA FindingsTyped ==
    ASSUME TypeOK, NEW e \in Selected, NEW f \in PathFindings(e) \cup BodyFindings(e)
    PROVE  f.node \in Nodes /\ f.line \in Lines \cup {0}
<1>1. e[1] \in Nodes
  BY DEF TypeOK, Selected, Entries, Worktree, InBox
<1>2. CASE f \in PathFindings(e)
  BY <1>1, <1>2 DEF PathFindings, Finding
<1>3. CASE f \in BodyFindings(e)
  <2>1. CASE e \notin Worktree \/ e[1] \in unread'
    BY <1>1, <1>3, <2>1 DEF BodyFindings, Finding
  <2>2. CASE ~(e \notin Worktree \/ e[1] \in unread')
    <3>1. PICK at \in box[e[1]].hits : f = Finding(e[1], "body", LineOf(box[e[1]], at), at)
      BY <1>3, <2>2 DEF BodyFindings
    <3>2. at \in Hits
      BY <1>1, <3>1 DEF TypeOK, Boxed
    <3>3. LineOf(box[e[1]], at) \in Lines \cup {0}
      BY <3>2 DEF LineOf, Hits
    <3> QED
      BY <1>1, <3>1, <3>3 DEF Finding
  <2> QED
    BY <2>1, <2>2
<1> QED
  BY <1>2, <1>3

LEMMA NextTyped == TypeOK /\ [Next]_vars => TypeOK'
<1> SUFFICES ASSUME TypeOK, [Next]_vars PROVE TypeOK'
  OBVIOUS
<1>1. CASE Preflight
  BY <1>1, LeaveTyped DEF Preflight, Goto, TypeOK, Working, Rest, target
<1>2. CASE EnterSandbox
  BY <1>2 DEF EnterSandbox, TypeOK, Working, Rest, target
<1>3. CASE ListTarget
  <2>1. \A n \in Nodes : CopyKind(n) \in {"file", "symlink", "gitlink", "unscannable"}
    BY DEF CopyKind
  <2> QED
    BY <1>3, <2>1 DEF ListTarget, Goto, TypeOK, Working, Rest, target
<1>4. CASE \E n \in tocopy : CopyNode(n)
  <2> SUFFICES ASSUME NEW n \in tocopy, CopyNode(n) PROVE TypeOK'
    BY <1>4
  <2>1. n \in Nodes /\ pc = "copy" /\ pc \in Working
    BY DEF TypeOK, CopyNode, Working
  <2>2. CASE Leave(2)
    BY <2>1, <2>2, LeaveTyped
  <2>3. CASE listing[n] \in {"file", "symlink"} /\ Put(n, CopyOf(n)) /\ UNCHANGED unavailable
    <3>1. disk[n] \in Thing
      BY <2>1 DEF TypeOK
    <3>2. CopyOf(n) \in Boxed
      BY <2>3, <3>1 DEF CopyOf, Held, Boxed, Thing
    <3> QED
      BY <2>1, <2>3, <3>2 DEF CopyNode, Put, Goto, TypeOK, Working, target
  <2>4. CASE /\ Put(n, Placeholder)
             /\ unavailable' = unavailable \cup {n}
    <3>1. Placeholder \in Boxed
      BY DEF Placeholder, Held, Boxed
    <3> QED
      BY <2>1, <2>4, <3>1 DEF CopyNode, Put, Goto, TypeOK, Working, target
  <2> QED
    BY <2>2, <2>3, <2>4 DEF CopyNode
<1>5. CASE CommitCopy
  <2>1. Worktree \subseteq Nodes \X BOOLEAN
    BY DEF Worktree, InBox, TypeOK, Boxed
  <2> QED
    BY <1>5, <2>1 DEF CommitCopy, Goto, TypeOK, Working, target
<1>6. CASE ApplyPress
  BY <1>6, PressedTyped DEF ApplyPress, Goto, TypeOK, Working, target
<1>7. CASE WriteStubs
  <2>1. CASE Leave(2)
    BY <1>7, <2>1, LeaveTyped DEF WriteStubs, Working
  <2>2. CASE ~(\E n \in Resets : box[n].kind \in {"symlink", "placeholder"})
    <3>1. \A n \in Nodes :
             Held("file", box[n].moved, FALSE, box[n].stuck, cfg.stub) \in Boxed
      BY DEF TypeOK, Held, Boxed, Config
    <3> QED
      BY <1>7, <2>2, <3>1 DEF WriteStubs, Goto, TypeOK, Working, target
  <2> QED
    BY <1>7, <2>1, <2>2 DEF WriteStubs
<1>8. CASE ApplyRemovals
  <2>1. CASE Leave(2)
    BY <1>8, <2>1, LeaveTyped DEF ApplyRemovals, Working
  <2>2. CASE \A n \in Doomed : Removable(n)
    <3>1. NothingThere \in Boxed
      BY DEF NothingThere, Held, Boxed
    <3> QED
      BY <1>8, <2>2, <3>1 DEF ApplyRemovals, Goto, TypeOK, Working, target
  <2> QED
    BY <1>8, <2>1, <2>2 DEF ApplyRemovals
<1>9. CASE Restage
  <2>1. Worktree \subseteq Nodes \X BOOLEAN
    BY DEF Worktree, InBox, TypeOK, Boxed
  <2> QED
    BY <1>9, <2>1 DEF Restage, Goto, TypeOK, Working, target
<1>10. CASE Scan
  <2>1. \A f \in found' : f.node \in Nodes /\ f.line \in Lines \cup {0}
    BY <1>10, FindingsTyped DEF Scan
  <2>2. unread' \subseteq Nodes
    BY <1>10 DEF Scan, InBox
  <2> QED
    BY <1>10, <2>1, <2>2 DEF Scan, Goto, TypeOK, Working, target
<1>11. CASE ApplyIgnores
  BY <1>11, LeaveTyped DEF ApplyIgnores, Working
<1>12. CASE TearDown
  BY <1>12 DEF TearDown, TypeOK, Working, Rest, target
<1>13. CASE Raise
  BY <1>13, LeaveTyped DEF Raise
<1>14. CASE Interrupt
  BY <1>14, LeaveTyped DEF Interrupt
<1>15. CASE TearDownFails
  BY <1>15 DEF TearDownFails, TypeOK, Working, Rest, target
<1>16. CASE Kill
  BY <1>16 DEF Kill, TypeOK, Working, Rest, target
<1>17. CASE \E n \in Nodes : Edit(n)
  <2> SUFFICES ASSUME NEW n \in Nodes, Edit(n) PROVE TypeOK'
    BY <1>17
  <2>1. disk' \in [Nodes -> Thing]
    BY VerifyAssumption DEF Edit, TypeOK
  <2> QED
    BY <2>1 DEF Edit, TypeOK, Rest, Working
<1>18. CASE UNCHANGED vars
  BY <1>18 DEF vars, target, TypeOK, Working
<1> QED
  BY <1>1, <1>2, <1>3, <1>4, <1>5, <1>6, <1>7, <1>8, <1>9, <1>10, <1>11, <1>12, <1>13,
     <1>14, <1>15, <1>16, <1>17, <1>18 DEF Next, Verify

(***************************************************************************)
(* Everything has its type, and the sandbox exists just while the command  *)
(* works in it, or after a kill or a failed removal.                       *)
(***************************************************************************)
THEOREM VerifyTypeCorrect == Spec => []TypeOK
  BY InitTyped, NextTyped, PTL DEF Spec

-----------------------------------------------------------------------------
(* No false clean. *)

(***************************************************************************)
(* What is said of a path of the target stays true while it is untouched.  *)
(***************************************************************************)
LEMMA Untouched ==
    ASSUME NEW n \in Nodes, place' = place, cfg' = cfg, disk'[n] = disk[n]
    PROVE  /\ Copied(n)' = Copied(n) /\ CopyKind(n)' = CopyKind(n)
           /\ Rewritten(n)' = Rewritten(n) /\ Withstands(n)' = Withstands(n)
           /\ Leftovers(n)' = Leftovers(n)
<1>1. Copied(n)' = Copied(n) /\ CopyKind(n)' = CopyKind(n)
  BY DEF Copied, Listed, CopyKind
<1>2. Rewritten(n)' = Rewritten(n) /\ Withstands(n)' = Withstands(n)
  BY DEF Rewritten, Withstands
<1>3. \A at : DiskLine(n, at)' = DiskLine(n, at)
  BY DEF DiskLine
<1> QED
  BY <1>1, <1>2, <1>3 DEF Leftovers, Scanned

(***************************************************************************)
(* A step that touches nothing of what the invariant reads of n keeps it.  *)
(***************************************************************************)
LEMMA FollowedKept ==
    ASSUME NEW n \in Nodes, Followed(n), place' = place, cfg' = cfg, disk'[n] = disk[n],
           UNCHANGED <<listing, tocopy, box, unavailable, found, pc, code>>
    PROVE  Followed(n)'
<1>1. /\ CopyKind(n)' = CopyKind(n) /\ Rewritten(n)' = Rewritten(n)
      /\ Withstands(n)' = Withstands(n) /\ Leftovers(n)' = Leftovers(n)
  BY Untouched
<1>2. Reached(n)' = Reached(n) /\ AsCopied(n)' = AsCopied(n) /\ AsPressed(n)' = AsPressed(n)
  BY <1>1 DEF Reached, AsCopied, AsPressed
<1>3. AsStubbed(n)' = AsStubbed(n) /\ AsRemoved(n)' = AsRemoved(n)
  BY <1>1, <1>2 DEF AsStubbed, AsRemoved
<1>4. AsFound(n)' = AsFound(n) /\ Answered(n)' = Answered(n)
  BY <1>1 DEF AsFound, Answered, Finding, Nowhere
<1> QED
  BY <1>1, <1>2, <1>3, <1>4 DEF Followed

LEMMA LeaveFollowed ==
    ASSUME NEW n \in Nodes, NEW c \in 1..3, Leave(c) PROVE Followed(n)'
BY DEF Leave, Followed, Pressing

LEMMA CopyFollowed ==
    ASSUME TypeOK, NEW n \in Nodes, Copied(n), Followed(n), NEW m \in tocopy, CopyNode(m)
    PROVE  Followed(n)'
<1>1. CASE Leave(2)
  BY <1>1, LeaveFollowed
<1>2. CASE ~Leave(2)
  <2>1. /\ pc = "copy" /\ pc' = "copy" /\ place' = place /\ cfg' = cfg /\ disk' = disk
        /\ listing' = listing /\ listing[n] = CopyKind(n)
        /\ tocopy' = tocopy \ {m} /\ unavailable \subseteq unavailable'
        /\ m # n => box'[n] = box[n]
    BY <1>2 DEF CopyNode, Put, Goto, target, TypeOK, Followed
  <2>2. CopyKind(n)' = CopyKind(n)
    BY <2>1, Untouched
  <2>3. CASE m # n
    <3>1. (Reached(n) => Reached(n)') /\ (AsCopied(n) => AsCopied(n)')
      BY <2>1, <2>2, <2>3 DEF Reached, AsCopied
    <3> QED
      BY <2>1, <2>2, <2>3, <3>1 DEF Followed, Pressing
  <2>4. CASE m = n
    <3>1. CASE listing[n] = "gitlink"
      <4>1. n \in unavailable'
        BY <1>2, <2>4, <3>1 DEF CopyNode
      <4> QED
        BY <2>1, <2>2, <3>1, <4>1 DEF Followed, Pressing, Reached, AsCopied
    <3>2. CASE listing[n] # "gitlink"
      <4>1. /\ listing[n] \in {"file", "symlink"} /\ disk[n].work = listing[n]
            /\ box' = [box EXCEPT ![n] = CopyOf(n)]
        BY <1>2, <2>4, <3>2 DEF CopyNode, Put
      <4>2. box'[n] = CopyOf(n)
        BY <4>1 DEF TypeOK
      <4> QED
        BY <2>1, <2>2, <4>1, <4>2 DEF Followed, Pressing, Reached, AsCopied, CopyOf, Held
    <3> QED
      BY <3>1, <3>2
  <2> QED
    BY <2>3, <2>4
<1> QED
  BY <1>1, <1>2

LEMMA PressFollowed ==
    ASSUME TypeOK, NEW n \in Nodes, Followed(n), ApplyPress PROVE Followed(n)'
<1>1. /\ pc = "press" /\ pc' = "stub" /\ place' = place /\ cfg' = cfg /\ disk' = disk
      /\ unavailable' = unavailable /\ box'[n] = Pressed(n)
  BY DEF ApplyPress, Goto, target
<1>2. /\ CopyKind(n)' = CopyKind(n) /\ Rewritten(n)' = Rewritten(n)
      /\ Withstands(n)' = Withstands(n)
  BY <1>1, Untouched
<1>3. Reached(n) /\ AsCopied(n)
  BY <1>1 DEF Followed, Pressing
<1>4. Reached(n)'
  BY <1>1, <1>2, <1>3 DEF Reached
<1>5. ASSUME CopyKind(n) # "gitlink"
      PROVE  /\ box'[n].kind = CopyKind(n) /\ box'[n].moved = (place[n].named /\ Rewritten(n))
             /\ box'[n].bytes = disk[n].bytes
             /\ Withstands(n) => box'[n].hits = disk[n].hits
  <2>1. /\ CopyKind(n) \in {"file", "symlink"} /\ box[n].kind = CopyKind(n)
        /\ CopyKind(n) = disk[n].work
    BY <1>3, <1>5 DEF Reached, AsCopied, CopyKind
  <2>2. n \in InBox
    BY <2>1 DEF InBox
  <2>3. box'[n] = Held(box[n].kind, place[n].named /\ Rewritten(n), box[n].bytes, box[n].stuck,
                       HitsLeft(n))
    BY <1>1, <2>2 DEF Pressed
  <2>4. Withstands(n) => HitsLeft(n) = disk[n].hits
    BY <1>3, <1>5, <2>1 DEF Withstands, HitsLeft, AsCopied
  <2> QED
    BY <1>3, <1>5, <2>1, <2>3, <2>4 DEF Held, AsCopied
<1>6. AsPressed(n)'
  BY <1>1, <1>2, <1>5 DEF AsPressed
<1> QED
  BY <1>1, <1>4, <1>6 DEF Followed, Pressing

LEMMA StubFollowed ==
    ASSUME TypeOK, NEW n \in Nodes, Followed(n), WriteStubs PROVE Followed(n)'
<1>1. CASE Leave(2)
  BY <1>1, LeaveFollowed
<1>2. CASE ~Leave(2)
  <2>1. /\ pc = "stub" /\ pc' = "remove" /\ place' = place /\ cfg' = cfg /\ disk' = disk
        /\ unavailable' = unavailable
        /\ box'[n] = IF n \notin Resets THEN box[n]
                     ELSE Held("file", box[n].moved, FALSE, box[n].stuck, cfg.stub)
    BY <1>2 DEF WriteStubs, Goto, target
  <2>2. /\ CopyKind(n)' = CopyKind(n) /\ Rewritten(n)' = Rewritten(n)
        /\ Withstands(n)' = Withstands(n)
    BY <2>1, Untouched
  <2>3. Reached(n) /\ AsPressed(n)
    BY <2>1 DEF Followed, Pressing
  <2>4. Reached(n)'
    BY <2>1, <2>2, <2>3 DEF Reached
  <2>5. AsStubbed(n)'
    <3>1. CASE place[n].role # "reset"
      <4>1. box'[n] = box[n]
        BY <2>1, <3>1 DEF Resets
      <4> QED
        BY <2>1, <2>2, <2>3, <3>1, <4>1 DEF AsStubbed, AsPressed
    <3>2. CASE place[n].role = "reset"
      <4>1. box'[n] = Held("file", box[n].moved, FALSE, box[n].stuck, cfg.stub)
        BY <2>1, <3>2 DEF Resets
      <4> QED
        BY <2>1, <2>2, <2>3, <3>2, <4>1 DEF AsStubbed, AsPressed, Held
    <3> QED
      BY <3>1, <3>2
  <2> QED
    BY <2>1, <2>4, <2>5 DEF Followed, Pressing
<1> QED
  BY <1>1, <1>2

LEMMA RemovalsFollowed ==
    ASSUME TypeOK, NEW n \in Nodes, Followed(n), ApplyRemovals PROVE Followed(n)'
<1>1. CASE Leave(2)
  BY <1>1, LeaveFollowed
<1>2. CASE ~Leave(2)
  <2>1. /\ pc = "remove" /\ pc' = "restage" /\ place' = place /\ cfg' = cfg /\ disk' = disk
        /\ unavailable' = unavailable
        /\ n \notin Doomed => box'[n] = box[n]
    BY <1>2 DEF ApplyRemovals, Goto, target
  <2>2. /\ CopyKind(n)' = CopyKind(n) /\ Rewritten(n)' = Rewritten(n)
        /\ Withstands(n)' = Withstands(n)
    BY <2>1, Untouched
  <2>3. Reached(n)' /\ AsStubbed(n)
    BY <2>1, <2>2 DEF Followed, Pressing, Reached
  <2>4. AsRemoved(n)'
    <3> SUFFICES ASSUME place[n].role # "remove" PROVE AsStubbed(n)'
      BY <2>1 DEF AsRemoved
    <3>1. box'[n] = box[n]
      BY <2>1 DEF Doomed
    <3> QED
      BY <2>1, <2>2, <2>3, <3>1 DEF AsStubbed, AsPressed
  <2> QED
    BY <2>1, <2>3, <2>4 DEF Followed, Pressing
<1> QED
  BY <1>1, <1>2

(***************************************************************************)
(* A leftover of a path that is neither reset, removed nor rebuilt is in   *)
(* its name or, unchanged by the press, in its text.                       *)
(***************************************************************************)
LEMMA LeftoverKinds ==
    ASSUME NEW n \in Nodes, NEW l \in Leftovers(n)
    PROVE  /\ Scanned(n) /\ place[n].role \notin {"remove", "rebuilt"}
           /\ \/ l = Left("path", 0, Nowhere) /\ place[n].named /\ place[n].kept
              \/ /\ place[n].role = "reset"
                 /\ \E at \in cfg.stub : l = Left("body", at[1], at)
              \/ /\ place[n].role # "reset" /\ Withstands(n)
                 /\ \E at \in disk[n].hits : l = Left("body", DiskLine(n, at), at)
BY DEF Leftovers

LEMMA ScanFollowed ==
    ASSUME TypeOK, NEW n \in Nodes, Followed(n), staged = Worktree, Scan PROVE Followed(n)'
<1>1. /\ pc = "scan" /\ pc' = "ignore" /\ place' = place /\ cfg' = cfg /\ disk' = disk
      /\ unavailable' = unavailable
      /\ found' = UNION {PathFindings(e) \cup BodyFindings(e) : e \in Selected}
  BY DEF Scan, Goto, target
<1>2. Reached(n) /\ AsRemoved(n)
  BY <1>1 DEF Followed, Pressing
<1>3. CopyKind(n)' = CopyKind(n) /\ Leftovers(n)' = Leftovers(n)
  BY <1>1, Untouched
<1>4. Reached(n)'
  BY <1>1, <1>2, <1>3 DEF Reached
<1>5. ASSUME CopyKind(n) # "gitlink", Finding(n, "unscannable", 0, Nowhere) \notin found',
             NEW l \in Leftovers(n)
      PROVE  Finding(n, l.where, l.line, l.at) \in found'
  <2> DEFINE e == <<n, box[n].moved>>
  <2>1. Scanned(n) /\ place[n].role \notin {"remove", "rebuilt"}
    BY LeftoverKinds
  <2>2. AsStubbed(n)
    BY <1>2, <2>1 DEF AsRemoved
  <2>3. box[n].kind \in {"file", "symlink"} /\ box[n].moved = (place[n].named /\ Rewritten(n))
    BY <1>2, <1>5, <2>2 DEF AsStubbed, AsPressed, Reached
  <2>4. e \in Worktree
    BY <2>3 DEF Worktree, InBox
  <2>5. e \in Selected
    BY <2>1, <2>4 DEF Selected, Entries, Exempt
  <2>6. \A f \in PathFindings(e) \cup BodyFindings(e) : f \in found'
    BY <1>1, <2>5
  <2>7. n \notin unread'
    <3> SUFFICES ASSUME n \in unread' PROVE FALSE
      OBVIOUS
    <3>1. BodyFindings(e) = {Finding(n, "unscannable", 0, Nowhere)}
      BY DEF BodyFindings
    <3> QED
      BY <1>5, <2>6, <3>1
  <2>8. BodyFindings(e) = {Finding(n, "body", LineOf(box[n], at), at) : at \in box[n].hits}
    BY <2>4, <2>7 DEF BodyFindings
  <2>9. CASE l = Left("path", 0, Nowhere) /\ place[n].named /\ place[n].kept
    <3>1. Finding(n, "path", 0, Nowhere) \in PathFindings(e)
      BY <2>3, <2>9 DEF PathFindings, Rewritten
    <3> QED
      BY <2>6, <2>9, <3>1 DEF Left
  <2>10. CASE place[n].role = "reset" /\ \E at \in cfg.stub : l = Left("body", at[1], at)
    <3>1. PICK at \in cfg.stub : l = Left("body", at[1], at)
      BY <2>10
    <3>2. box[n].kind = "file" /\ box[n].bytes = FALSE /\ at \in box[n].hits
      BY <1>5, <2>2, <2>10, <3>1 DEF AsStubbed
    <3>3. LineOf(box[n], at) = at[1]
      BY <3>2 DEF LineOf
    <3>4. Finding(n, "body", at[1], at) \in found'
      BY <2>6, <2>8, <3>2, <3>3
    <3> QED
      BY <3>1, <3>4 DEF Left
  <2>11. CASE /\ place[n].role # "reset" /\ Withstands(n)
              /\ \E at \in disk[n].hits : l = Left("body", DiskLine(n, at), at)
    <3>1. PICK at \in disk[n].hits : l = Left("body", DiskLine(n, at), at)
      BY <2>11
    <3>2. /\ box[n].kind = CopyKind(n) /\ box[n].bytes = disk[n].bytes
          /\ at \in box[n].hits
      BY <1>5, <2>2, <2>11, <3>1 DEF AsStubbed, AsPressed
    <3>3. CopyKind(n) = disk[n].work
      BY <2>3, <3>2 DEF CopyKind
    <3>4. LineOf(box[n], at) = DiskLine(n, at)
      BY <3>2, <3>3 DEF LineOf, DiskLine
    <3>5. Finding(n, "body", DiskLine(n, at), at) \in found'
      BY <2>6, <2>8, <3>2, <3>4
    <3> QED
      BY <3>1, <3>5 DEF Left
  <2> QED
    BY <2>9, <2>10, <2>11, LeftoverKinds
<1>6. AsFound(n)'
  BY <1>3, <1>5 DEF AsFound, Finding, Nowhere
<1> QED
  BY <1>1, <1>4, <1>6 DEF Followed, Pressing

(***************************************************************************)
(* Exit 0 is said only when no submodule is missing and every finding is   *)
(* matched by an ignore of its kind.                                       *)
(***************************************************************************)
LEMMA IgnoresFollowed ==
    ASSUME TypeOK, NEW n \in Nodes, Followed(n), ApplyIgnores PROVE Followed(n)'
<1>1. pc = "ignore" /\ Reached(n) /\ AsFound(n)
  BY DEF ApplyIgnores, Followed, Pressing
<1>2. CASE \E c \in 1..3 : Leave(c)
  BY <1>2, LeaveFollowed
<1>3. CASE Leave(0) /\ ~Failed
  <2>1. found \subseteq Suppressed /\ unavailable = {}
    BY <1>3 DEF Failed
  <2>2. CopyKind(n) \in {"file", "symlink"}
    BY <1>1, <2>1 DEF Reached
  <2>3. \A f \in found : \E ig \in cfg.ignores :
            /\ ig.node = f.node /\ ig.line \in {0, f.line}
            /\ ig.io <=> f.where = "unscannable"
    BY <2>1 DEF Suppressed, Matches
  <2>4. ASSUME Finding(n, "unscannable", 0, Nowhere) \in found PROVE Answered(n)
    <3>1. \E ig \in cfg.ignores : ig.node = n /\ ig.io
      BY <2>3, <2>4 DEF Finding
    <3> QED
      BY <1>1, <2>2, <3>1 DEF Answered
  <2>5. ASSUME Finding(n, "unscannable", 0, Nowhere) \notin found PROVE Answered(n)
    <3>1. \A l \in Leftovers(n) : Finding(n, l.where, l.line, l.at) \in found
      BY <1>1, <2>2, <2>5 DEF AsFound
    <3> SUFFICES ASSUME NEW l \in Leftovers(n)
                 PROVE  \E ig \in cfg.ignores : ig.node = n /\ ig.line \in {0, l.line}
      BY <2>2 DEF Answered
    <3> DEFINE f == Finding(n, l.where, l.line, l.at)
    <3>2. f.node = n /\ f.line = l.line
      BY DEF Finding
    <3>3. \E ig \in cfg.ignores : ig.node = f.node /\ ig.line \in {0, f.line}
      BY <2>3, <3>1
    <3> QED
      BY <3>2, <3>3
  <2>6. Answered(n)
    BY <2>4, <2>5
  <2>7. pc' \in {"teardown", "exit"} /\ place' = place /\ cfg' = cfg /\ disk' = disk
    BY <1>3 DEF Leave, target
  <2>8. Answered(n)'
    BY <2>6, <2>7, Untouched DEF Answered
  <2> QED
    BY <2>7, <2>8 DEF Followed, Pressing
<1> QED
  BY <1>2, <1>3 DEF ApplyIgnores

LEMMA InitClean == Init => CleanInv
BY InitTyped DEF Init, CleanInv, Followed, Pressing

(***************************************************************************)
(* Only an edit of the path itself changes it.                             *)
(***************************************************************************)
LEMMA Still ==
    ASSUME TypeOK, [Next]_vars, NEW n \in Nodes \ edited'
    PROVE  n \in Nodes \ edited /\ place' = place /\ cfg' = cfg /\ disk'[n] = disk[n]
<1>1. CASE UNCHANGED target
  BY <1>1 DEF target
<1>2. CASE \E m \in Nodes : Edit(m)
  <2>1. PICK m \in Nodes : Edit(m)
    BY <1>2
  <2>2. PICK thing \in Edits(m) : disk' = [disk EXCEPT ![m] = thing]
    BY <2>1 DEF Edit
  <2>3. n # m /\ n \notin edited /\ place' = place /\ cfg' = cfg
    BY <2>1 DEF Edit
  <2>4. disk'[n] = disk[n]
    BY <2>2, <2>3 DEF TypeOK
  <2> QED
    BY <2>3, <2>4
<1>3. Raise \/ Interrupt \/ Kill \/ TearDownFails => UNCHANGED target
  BY DEF Raise, Interrupt, Kill, TearDownFails, Leave
<1>4. Preflight \/ EnterSandbox \/ ApplyIgnores \/ TearDown => UNCHANGED target
  BY DEF Preflight, EnterSandbox, ApplyIgnores, TearDown, Leave, Goto
<1>5. ListTarget \/ (\E m \in tocopy : CopyNode(m)) \/ CommitCopy \/ ApplyPress =>
          UNCHANGED target
  BY DEF ListTarget, CopyNode, CommitCopy, ApplyPress, Put, Goto, Leave
<1>6. WriteStubs \/ ApplyRemovals \/ Restage \/ Scan => UNCHANGED target
  BY DEF WriteStubs, ApplyRemovals, Restage, Scan, Goto, Leave
<1>7. UNCHANGED vars => UNCHANGED target
  BY DEF vars
<1> QED
  BY <1>1, <1>2, <1>3, <1>4, <1>5, <1>6, <1>7 DEF Next, Verify

LEMMA StepFollowed ==
    ASSUME CleanInv, [Next]_vars, NEW n \in Nodes \ edited', Copied(n)' PROVE Followed(n)'
<1>1. n \in Nodes \ edited /\ place' = place /\ cfg' = cfg /\ disk'[n] = disk[n]
  BY Still DEF CleanInv
<1>2. TypeOK /\ Copied(n) /\ Followed(n) /\ (pc = "scan" => staged = Worktree)
  BY <1>1, Untouched DEF CleanInv
<1>3. CASE ApplyPress \/ WriteStubs \/ ApplyRemovals \/ Scan \/ ApplyIgnores
  BY <1>2, <1>3, PressFollowed, StubFollowed, RemovalsFollowed, ScanFollowed, IgnoresFollowed
     DEF Scan
<1>4. CASE \E m \in tocopy : CopyNode(m)
  BY <1>2, <1>4, CopyFollowed
<1>5. CASE Preflight \/ EnterSandbox \/ Raise \/ Interrupt
  BY <1>5, LeaveFollowed DEF Preflight, EnterSandbox, Raise, Interrupt, Goto, Followed, Pressing
<1>6. CASE ListTarget
  <2>1. /\ pc' = "copy" /\ listing'[n] = CopyKind(n) /\ n \in tocopy'
    BY <1>2, <1>6 DEF ListTarget, Goto
  <2>2. CopyKind(n)' = CopyKind(n)
    BY <1>1, Untouched
  <2> QED
    BY <2>1, <2>2 DEF Followed, Pressing
<1>7. CASE CommitCopy
  <2>1. pc = "copy" /\ n \notin tocopy /\ pc' = "press" /\ UNCHANGED <<box, unavailable>>
    BY <1>7 DEF CommitCopy, Goto
  <2>2. Reached(n) /\ AsCopied(n)
    BY <1>2, <2>1 DEF Followed
  <2>3. Reached(n)' /\ AsCopied(n)'
    BY <1>1, <2>1, <2>2, Untouched DEF Reached, AsCopied
  <2> QED
    BY <2>1, <2>3 DEF Followed, Pressing
<1>8. CASE Restage
  <2>1. pc = "restage" /\ pc' = "scan" /\ UNCHANGED <<box, unavailable>>
    BY <1>8 DEF Restage, Goto
  <2>2. Reached(n) /\ AsRemoved(n)
    BY <1>2, <2>1 DEF Followed, Pressing
  <2>3. Reached(n)' /\ AsRemoved(n)'
    BY <1>1, <2>1, <2>2, Untouched DEF Reached, AsRemoved, AsStubbed, AsPressed
  <2> QED
    BY <2>1, <2>3 DEF Followed, Pressing
<1>9. CASE TearDown
  <2>1. /\ pc = "teardown" /\ pc' = "exit" /\ code' = code
    BY <1>9 DEF TearDown
  <2>2. code = 0 => Answered(n)
    BY <1>2, <2>1 DEF Followed
  <2>3. Answered(n)' = Answered(n)
    BY <1>1, Untouched DEF Answered
  <2> QED
    BY <2>1, <2>2, <2>3 DEF Followed, Pressing
<1>10. CASE TearDownFails \/ Kill
  BY <1>10 DEF TearDownFails, Kill, Followed, Pressing
<1>11. CASE (\E m \in Nodes : Edit(m)) \/ UNCHANGED vars
  <2>1. UNCHANGED <<listing, tocopy, box, unavailable, found, pc, code>>
    BY <1>11 DEF Edit, vars, Rest
  <2> QED
    BY <1>1, <1>2, <2>1, FollowedKept
<1> QED
  BY <1>3, <1>4, <1>5, <1>6, <1>7, <1>8, <1>9, <1>10, <1>11 DEF Next, Verify

(***************************************************************************)
(* The index is the working tree of the sandbox when the scan reads it.    *)
(***************************************************************************)
LEMMA StepStaged ==
    ASSUME CleanInv, [Next]_vars, pc' = "scan" PROVE staged' = Worktree'
<1>1. CASE Restage
  BY <1>1 DEF Restage, Goto, Worktree, InBox
<1>2. CASE (\E m \in Nodes : Edit(m)) \/ UNCHANGED vars
  BY <1>2 DEF Edit, vars, Rest, CleanInv, Worktree, InBox
<1>3. ~Restage /\ ~(\E m \in Nodes : Edit(m)) /\ Next => pc' # "scan"
  BY DEF Next, Verify, Preflight, EnterSandbox, ListTarget, CopyNode, CommitCopy, ApplyPress,
         WriteStubs, ApplyRemovals, Scan, ApplyIgnores, TearDown, Raise, Interrupt,
         TearDownFails, Kill, Leave, Goto, Put
<1> QED
  BY <1>1, <1>2, <1>3

LEMMA NextClean == CleanInv /\ [Next]_vars => CleanInv'
<1> SUFFICES ASSUME CleanInv, [Next]_vars PROVE CleanInv'
  OBVIOUS
<1>1. TypeOK'
  BY NextTyped DEF CleanInv
<1> QED
  BY <1>1, StepFollowed, StepStaged DEF CleanInv

(***************************************************************************)
(* What was listed is in the copy, as the kind it was listed as, edited or *)
(* not, or it is a submodule that is known to be missing.                  *)
(***************************************************************************)
InPlace(n) ==
    \/ listing[n] = "gitlink" /\ n \in unavailable
    \/ listing[n] \in {"file", "symlink"} /\ box[n].kind = listing[n]

HeldInv ==
    \A n \in Nodes : listing[n] # "none" =>
        /\ pc = "copy" => n \in tocopy \/ InPlace(n)
        /\ pc \in {"press", "stub", "remove"} => InPlace(n)
        /\ pc \in {"restage", "scan", "ignore"} /\ n \notin Doomed => InPlace(n)
        /\ pc \in {"teardown", "exit"} /\ code = 0 /\ n \notin Doomed =>
              listing[n] \in {"file", "symlink"} /\ box[n].kind = listing[n]

LEMMA LeaveHeld == ASSUME NEW c \in 1..3, Leave(c) PROVE HeldInv'
BY DEF Leave, HeldInv

LEMMA StepHeld == TypeOK /\ HeldInv /\ [Next]_vars => HeldInv'
<1> SUFFICES ASSUME TypeOK, HeldInv, [Next]_vars PROVE HeldInv'
  OBVIOUS
<1> USE DEF Goto, target, Rest
<1>1. CASE \E c \in 1..3 : Leave(c)
  BY <1>1, LeaveHeld
<1>2. CASE UNCHANGED vars \/ (\E m \in Nodes : Edit(m))
  BY <1>2 DEF vars, Edit, HeldInv, InPlace, Doomed
<1>3. CASE TearDown \/ TearDownFails \/ Kill
  BY <1>3 DEF TearDown, TearDownFails, Kill, HeldInv, Doomed
<1>4. CASE Goto("enter") \/ EnterSandbox
  BY <1>4 DEF EnterSandbox, HeldInv
<1>5. CASE ListTarget
  BY <1>5 DEF ListTarget, HeldInv, InPlace
<1>6. ASSUME NEW m \in tocopy, CopyNode(m), ~Leave(2) PROVE HeldInv'
  <2>1. /\ pc = "copy" /\ pc' = "copy" /\ listing' = listing /\ tocopy' = tocopy \ {m}
        /\ unavailable \subseteq unavailable' /\ m \in Nodes
        /\ \A n \in Nodes \ {m} : box'[n] = box[n]
    BY <1>6 DEF CopyNode, Put, TypeOK
  <2>2. \/ listing[m] \in {"file", "symlink"} /\ box'[m] = CopyOf(m)
        \/ listing[m] = "gitlink" /\ m \in unavailable'
    BY <1>6, <2>1 DEF CopyNode, Put, TypeOK
  <2>3. CopyOf(m).kind = listing[m]
    BY DEF CopyOf, Held
  <2>4. InPlace(m)'
    BY <2>1, <2>2, <2>3 DEF InPlace
  <2>5. ASSUME NEW n \in Nodes, listing[n] # "none", n # m PROVE n \in tocopy' \/ InPlace(n)'
    BY <2>1, <2>5 DEF HeldInv, InPlace
  <2> QED
    BY <2>1, <2>4, <2>5 DEF HeldInv
<1>7. CASE CommitCopy \/ Restage \/ Scan
  BY <1>7 DEF CommitCopy, Restage, Scan, HeldInv, InPlace, Doomed
<1>8. CASE ApplyPress
  <2>1. \A n \in Nodes : box'[n].kind = box[n].kind
    BY <1>8 DEF ApplyPress, Pressed, Held
  <2> QED
    BY <1>8, <2>1 DEF ApplyPress, HeldInv, InPlace
<1>9. CASE WriteStubs /\ ~Leave(2)
  <2>1. /\ pc = "stub" /\ pc' = "remove" /\ UNCHANGED <<listing, unavailable>>
        /\ \A n \in Resets : box[n].kind \notin {"symlink", "placeholder"} /\ box'[n].kind = "file"
        /\ \A n \in Nodes \ Resets : box'[n] = box[n]
    BY <1>9 DEF WriteStubs, Held, Resets
  <2>2. ASSUME NEW n \in Nodes, InPlace(n) PROVE InPlace(n)'
    BY <2>1, <2>2 DEF InPlace
  <2> QED
    BY <2>1, <2>2 DEF HeldInv
<1>10. CASE ApplyRemovals /\ ~Leave(2)
  <2>1. /\ pc = "remove" /\ pc' = "restage" /\ UNCHANGED <<listing, unavailable, place>>
        /\ \A n \in Nodes \ Doomed : box'[n] = box[n]
    BY <1>10 DEF ApplyRemovals
  <2> QED
    BY <2>1 DEF HeldInv, InPlace, Doomed
<1>11. CASE ApplyIgnores /\ Leave(0)
  <2>1. /\ pc = "ignore" /\ unavailable = {} /\ pc' \in {"teardown", "exit"}
        /\ UNCHANGED <<listing, box, place>>
    BY <1>11 DEF ApplyIgnores, Leave, Failed
  <2> QED
    BY <2>1 DEF HeldInv, InPlace, Doomed
<1> QED
  BY <1>1, <1>2, <1>3, <1>4, <1>5, <1>6, <1>7, <1>8, <1>9, <1>10, <1>11
  DEF Next, Verify, Preflight, Raise, Interrupt, ApplyIgnores

LEMMA InitHeld == Init => HeldInv
BY DEF Init, HeldInv

LEMMA CleanSays == CleanInv /\ HeldInv => NoFalseClean
BY DEF CleanInv, HeldInv, NoFalseClean, ExitZero, Followed, Answered

(***************************************************************************)
(* press verify exits 0 only over a target of which every leftover at a    *)
(* path nobody touched is named by an ignore, and no submodule is hidden,  *)
(* and only over a copy that holds every path it listed.                   *)
(***************************************************************************)
THEOREM VerifyNeverFalselyClean == Spec => []NoFalseClean
<1>1. CleanInv /\ HeldInv /\ [Next]_vars => CleanInv' /\ HeldInv'
  BY NextClean, StepHeld DEF CleanInv
<1> QED
  BY <1>1, InitClean, InitHeld, CleanSays, PTL DEF Spec
-----------------------------------------------------------------------------
(* No false alarm, and ignores that are exact. *)

(***************************************************************************)
(* A path that answers for an alarm: the press leaves something of it, it  *)
(* is a submodule, or it is a reset file that is not there to be copied.   *)
(***************************************************************************)
Excused(n) ==
    \/ Copied(n) /\ (CopyKind(n) = "gitlink" \/ Leftovers(n) # {})
    \/ n \in Resets /\ ~Copied(n)

Cleared(n) ==
    Copied(n) /\ CopyKind(n) # "gitlink" /\ ~Withstands(n) /\ place[n].role # "reset" =>
        box[n].hits = {}

(***************************************************************************)
(* What the sandbox holds of a path comes from the target, or is a stub.   *)
(***************************************************************************)
Sourced(n) ==
    /\ n \in unavailable => Copied(n) /\ CopyKind(n) = "gitlink"
    /\ pc = "copy" /\ n \in tocopy => Copied(n) /\ listing[n] = CopyKind(n)
    /\ pc \in {"preflight", "enter", "list", "copy", "press", "stub"} =>
           (n \in InBox => Copied(n))
    /\ pc \in {"remove", "restage", "scan"} => (n \in InBox => Copied(n) \/ n \in Resets)
    /\ pc \in {"stub", "remove", "restage", "scan"} => Cleared(n)
    /\ pc \in {"restage", "scan"} => (n \in InBox => n \notin Doomed)
    /\ pc = "ignore" => \A f \in found : f.node = n /\ f.where # "unscannable" => Excused(n)

Exact(n) ==
    /\ Cardinality(IF Copied(n) THEN Leftovers(n) ELSE {}) <= Cardinality(IgnoresOf(n))
    /\ \A ig \in IgnoresOf(n) : ~ig.force /\ Copied(n) => Leftovers(n) # {}
    /\ Copied(n) /\ n \notin Resets =>
           \A l \in Leftovers(n) : l.line # 0 => l.line \in disk[n].marked

Leaving == {"teardown", "exit"}

Alarming ==
    code = 1 /\ edited = {} /\ unread = {} /\ cfg.ignores = {} =>
        cfg.collision \/ \E n \in Nodes : Excused(n)

ExactInv ==
    /\ CleanInv
    /\ IsFiniteSet(cfg.ignores)
    /\ pc = "ignore" => \A f \in found : f.where = "unscannable" => f.node \in unread
    /\ \A n \in Nodes \ edited :
          /\ Sourced(n)
          /\ pc \in Leaving /\ code = 0 /\ n \notin unread => Exact(n)
    /\ pc \in Leaving => Alarming

LEMMA InitExact == Init => ExactInv
<1> SUFFICES ASSUME Init PROVE ExactInv
  OBVIOUS
<1>1. CleanInv
  BY InitClean
<1>2. IsFiniteSet(cfg.ignores)
  BY VerifyAssumption DEF Init
<1>3. \A n \in Nodes : Sourced(n)
  BY DEF Init, Sourced, InBox, NothingThere, Held
<1> QED
  BY <1>1, <1>2, <1>3 DEF Init, ExactInv, Leaving

(***************************************************************************)
(* What is said of a path reads only the target.                           *)
(***************************************************************************)
LEMMA TargetOnly ==
    ASSUME NEW n \in Nodes, place' = place, cfg' = cfg, disk'[n] = disk[n]
    PROVE  /\ Excused(n)' = Excused(n) /\ Exact(n)' = Exact(n)
           /\ (n \in Resets)' = (n \in Resets) /\ (n \in Doomed)' = (n \in Doomed)
<1>1. /\ Copied(n)' = Copied(n) /\ CopyKind(n)' = CopyKind(n)
      /\ Leftovers(n)' = Leftovers(n)
  BY Untouched
<1>2. Resets' = Resets /\ Doomed' = Doomed /\ IgnoresOf(n)' = IgnoresOf(n)
  BY DEF Resets, Doomed, IgnoresOf
<1> QED
  BY <1>1, <1>2 DEF Excused, Exact

LEMMA LeaveSourced ==
    ASSUME NEW n \in Nodes, Sourced(n), NEW c, Leave(c) PROVE Sourced(n)'
<1>1. /\ pc' \in {"teardown", "exit"} /\ place' = place /\ cfg' = cfg /\ disk' = disk
      /\ unavailable' = unavailable
  BY DEF Leave, target, Rest
<1>2. Copied(n)' = Copied(n) /\ CopyKind(n)' = CopyKind(n)
  BY <1>1, Untouched
<1> QED
  BY <1>1, <1>2 DEF Sourced

(***************************************************************************)
(* The steps before the press.                                             *)
(***************************************************************************)
LEMMA CopySourced ==
    ASSUME TypeOK, NEW n \in Nodes, Sourced(n), NEW m \in tocopy, CopyNode(m)
    PROVE  Sourced(n)'
<1>1. CASE Leave(2)
  BY <1>1, LeaveSourced
<1>2. CASE ~Leave(2)
  <2>1. /\ pc = "copy" /\ pc' = "copy" /\ place' = place /\ cfg' = cfg /\ disk' = disk
        /\ listing' = listing /\ tocopy' = tocopy \ {m}
        /\ m # n => box'[n] = box[n] /\ (n \in unavailable' <=> n \in unavailable)
        /\ listing[m] # "gitlink" => unavailable' = unavailable
    BY <1>2 DEF CopyNode, Put, Goto, target, TypeOK
  <2>2. Copied(n)' = Copied(n) /\ CopyKind(n)' = CopyKind(n)
    BY <2>1, Untouched
  <2>3. n \in InBox' => Copied(n)
    BY <2>1 DEF Sourced, InBox
  <2>4. n \in unavailable' => Copied(n) /\ CopyKind(n) = "gitlink"
    BY <2>1 DEF Sourced
  <2> QED
    BY <2>1, <2>2, <2>3, <2>4 DEF Sourced
<1> QED
  BY <1>1, <1>2

LEMMA PressSourced ==
    ASSUME TypeOK, NEW n \in Nodes, Sourced(n), Copied(n) => Followed(n), ApplyPress
    PROVE  Sourced(n)'
<1>1. /\ pc = "press" /\ pc' = "stub" /\ place' = place /\ cfg' = cfg /\ disk' = disk
      /\ unavailable' = unavailable /\ box'[n] = Pressed(n)
  BY DEF ApplyPress, Goto, target
<1>2. /\ Copied(n)' = Copied(n) /\ CopyKind(n)' = CopyKind(n)
      /\ Withstands(n)' = Withstands(n)
  BY <1>1, Untouched
<1>3. n \in InBox' <=> n \in InBox
  BY <1>1 DEF InBox, Pressed, Held
<1>4. Cleared(n)'
  <2> SUFFICES ASSUME Copied(n), CopyKind(n) # "gitlink", ~Withstands(n)
               PROVE  box'[n].hits = {}
    BY <1>1, <1>2 DEF Cleared
  <2>1. Reached(n) /\ AsCopied(n)
    BY <1>1 DEF Followed, Pressing
  <2>2. /\ n \in InBox /\ box[n].kind = CopyKind(n) /\ CopyKind(n) = disk[n].work
        /\ box[n].stuck = disk[n].stuck
    BY <2>1 DEF Reached, AsCopied, CopyKind, InBox
  <2>3. HitsLeft(n) = {}
    BY <2>2 DEF HitsLeft, Withstands
  <2> QED
    BY <1>1, <2>2, <2>3 DEF Pressed, Held
<1> QED
  BY <1>1, <1>2, <1>3, <1>4 DEF Sourced

LEMMA StubSourced ==
    ASSUME TypeOK, NEW n \in Nodes, Sourced(n), WriteStubs PROVE Sourced(n)'
<1>1. CASE Leave(2)
  BY <1>1, LeaveSourced
<1>2. CASE ~Leave(2)
  <2>1. /\ pc = "stub" /\ pc' = "remove" /\ place' = place /\ cfg' = cfg /\ disk' = disk
        /\ unavailable' = unavailable
        /\ n \notin Resets => box'[n] = box[n]
    BY <1>2 DEF WriteStubs, Goto, target
  <2>2. /\ Copied(n)' = Copied(n) /\ CopyKind(n)' = CopyKind(n)
        /\ Withstands(n)' = Withstands(n) /\ (n \in Resets)' = (n \in Resets)
    BY <2>1, Untouched, TargetOnly
  <2>3. n \in InBox' => Copied(n) \/ n \in Resets
    BY <2>1 DEF Sourced, InBox
  <2>4. Cleared(n)'
    BY <2>1, <2>2 DEF Sourced, Cleared, Resets
  <2> QED
    BY <2>1, <2>2, <2>3, <2>4 DEF Sourced
<1> QED
  BY <1>1, <1>2

LEMMA RemovalsSourced ==
    ASSUME TypeOK, NEW n \in Nodes, Sourced(n), ApplyRemovals PROVE Sourced(n)'
<1>1. CASE Leave(2)
  BY <1>1, LeaveSourced
<1>2. CASE ~Leave(2)
  <2>1. /\ pc = "remove" /\ pc' = "restage" /\ place' = place /\ cfg' = cfg /\ disk' = disk
        /\ unavailable' = unavailable
        /\ box'[n] = IF n \in Doomed THEN NothingThere ELSE box[n]
    BY <1>2 DEF ApplyRemovals, Goto, target
  <2>2. /\ Copied(n)' = Copied(n) /\ CopyKind(n)' = CopyKind(n)
        /\ Withstands(n)' = Withstands(n)
        /\ (n \in Resets)' = (n \in Resets) /\ (n \in Doomed)' = (n \in Doomed)
    BY <2>1, Untouched, TargetOnly
  <2>3. n \in InBox' => n \in InBox /\ n \notin Doomed
    BY <2>1 DEF InBox, NothingThere, Held
  <2>4. Cleared(n)'
    BY <2>1, <2>2 DEF Sourced, Cleared, NothingThere, Held
  <2> QED
    BY <2>1, <2>2, <2>3, <2>4 DEF Sourced
<1> QED
  BY <1>1, <1>2

(***************************************************************************)
(* A finding in a path that nobody touched is one of its leftovers, or the *)
(* path is a reset file that was not there to be copied.                   *)
(***************************************************************************)
LEMMA FindingExcused ==
    ASSUME TypeOK, NEW n \in Nodes, Sourced(n), Copied(n) => Followed(n), pc = "scan",
           staged = Worktree, NEW e \in Selected, e[1] = n,
           NEW f \in PathFindings(e) \cup BodyFindings(e), f.where # "unscannable"
    PROVE  Excused(n)
<1>1. e = <<n, box[n].moved>> /\ n \in InBox
  BY DEF Selected, Entries, Worktree
<1>2. /\ Scanned(n) /\ place[n].role \notin {"remove", "rebuilt"}
      /\ Copied(n) \/ n \in Resets
  <2>1. place[n].role # "rebuilt"
    BY <1>1 DEF Selected, Exempt
  <2>2. n \notin Doomed /\ (Copied(n) \/ n \in Resets)
    BY <1>1 DEF Sourced
  <2> QED
    BY <2>1, <2>2 DEF Selected, Doomed
<1> SUFFICES ASSUME Copied(n), CopyKind(n) # "gitlink" PROVE Leftovers(n) # {}
  BY <1>2 DEF Excused
<1>3. Reached(n) /\ AsStubbed(n)
  BY <1>2 DEF Followed, Pressing, AsRemoved
<1>4. CASE f \in PathFindings(e)
  <2>1. place[n].named /\ ~box[n].moved
    BY <1>1, <1>4 DEF PathFindings
  <2>2. box[n].moved = (place[n].named /\ Rewritten(n))
    BY <1>3 DEF AsStubbed, AsPressed
  <2>3. place[n].kept
    BY <1>2, <2>1, <2>2 DEF Rewritten, Scanned
  <2>4. Left("path", 0, Nowhere) \in Leftovers(n)
    BY <1>2, <2>1, <2>3 DEF Leftovers
  <2> QED
    BY <2>4
<1>5. CASE f \in BodyFindings(e)
  <2>1. e \in Worktree
    BY <1>1 DEF Worktree
  <2>2. n \notin unread'
    BY <1>5 DEF BodyFindings, Finding
  <2>3. PICK at \in box[n].hits : TRUE
    BY <1>5, <2>1, <2>2 DEF BodyFindings
  <2>4. CASE place[n].role = "reset"
    <3>1. at \in cfg.stub
      BY <1>3, <2>3, <2>4 DEF AsStubbed
    <3>2. Left("body", at[1], at) \in Leftovers(n)
      BY <1>2, <2>4, <3>1 DEF Leftovers
    <3> QED
      BY <3>2
  <2>5. CASE place[n].role # "reset"
    <3>1. Withstands(n)
      BY <2>3, <2>5 DEF Sourced, Cleared
    <3>2. at \in disk[n].hits
      BY <1>3, <2>3, <2>5, <3>1 DEF AsStubbed, AsPressed
    <3>3. Left("body", DiskLine(n, at), at) \in Leftovers(n)
      BY <1>2, <2>5, <3>1, <3>2 DEF Leftovers
    <3> QED
      BY <3>3
  <2> QED
    BY <2>4, <2>5
<1> QED
  BY <1>4, <1>5

LEMMA ScanSourced ==
    ASSUME TypeOK, NEW n \in Nodes, Sourced(n), Copied(n) => Followed(n), staged = Worktree,
           Scan
    PROVE  Sourced(n)'
<1>1. /\ pc = "scan" /\ pc' = "ignore" /\ place' = place /\ cfg' = cfg /\ disk' = disk
      /\ unavailable' = unavailable
      /\ found' = UNION {PathFindings(e) \cup BodyFindings(e) : e \in Selected}
  BY DEF Scan, Goto, target
<1>2. /\ Copied(n)' = Copied(n) /\ CopyKind(n)' = CopyKind(n) /\ Excused(n)' = Excused(n)
  BY <1>1, Untouched, TargetOnly
<1>3. ASSUME NEW f \in found', f.node = n, f.where # "unscannable" PROVE Excused(n)
  <2>1. PICK e \in Selected : f \in PathFindings(e) \cup BodyFindings(e)
    BY <1>1
  <2>2. e[1] = n
    BY <1>3, <2>1 DEF PathFindings, BodyFindings, Finding
  <2> QED
    BY <1>1, <1>3, <2>1, <2>2, FindingExcused
<1> QED
  BY <1>1, <1>2, <1>3 DEF Sourced

LEMMA StepSourced ==
    ASSUME ExactInv, [Next]_vars, NEW n \in Nodes \ edited' PROVE Sourced(n)'
<1>1. n \in Nodes \ edited /\ place' = place /\ cfg' = cfg /\ disk'[n] = disk[n]
  BY Still DEF ExactInv, CleanInv
<1>2. /\ TypeOK /\ Sourced(n)
      /\ Copied(n) => Followed(n)
      /\ pc = "scan" => staged = Worktree
  BY <1>1 DEF ExactInv, CleanInv
<1>3. /\ Copied(n)' = Copied(n) /\ CopyKind(n)' = CopyKind(n)
      /\ Withstands(n)' = Withstands(n) /\ Excused(n)' = Excused(n)
      /\ (n \in Resets)' = (n \in Resets) /\ (n \in Doomed)' = (n \in Doomed)
  BY <1>1, Untouched, TargetOnly
<1>4. CASE \E m \in tocopy : CopyNode(m)
  BY <1>2, <1>4, CopySourced
<1>5. CASE ApplyPress \/ WriteStubs \/ ApplyRemovals \/ Scan
  BY <1>2, <1>5, PressSourced, StubSourced, RemovalsSourced, ScanSourced DEF Scan
<1>6. CASE \E c \in 0..3 : Leave(c)
  BY <1>2, <1>6, LeaveSourced
<1>7. CASE ListTarget
  <2>1. /\ pc = "list" /\ pc' = "copy" /\ UNCHANGED <<box, unavailable>>
        /\ n \in tocopy' <=> Copied(n)
        /\ Copied(n) => listing'[n] = CopyKind(n)
    BY <1>1, <1>7 DEF ListTarget, Goto
  <2> QED
    BY <1>2, <1>3, <2>1 DEF Sourced, InBox
<1>8. CASE (pc = "preflight" /\ Goto("enter") /\ UNCHANGED Rest) \/ EnterSandbox \/ CommitCopy
  <2>1. /\ UNCHANGED <<box, unavailable>>
        /\ pc' \in {"enter", "list", "press"}
        /\ pc \in {"preflight", "enter", "copy"}
    BY <1>8 DEF EnterSandbox, CommitCopy, Goto, Rest
  <2> QED
    BY <1>2, <1>3, <2>1 DEF Sourced, InBox
<1>9. CASE Restage
  <2>1. pc = "restage" /\ pc' = "scan" /\ UNCHANGED <<box, unavailable>>
    BY <1>9 DEF Restage, Goto
  <2> QED
    BY <1>1, <1>2, <1>3, <2>1 DEF Sourced, InBox, Cleared
<1>10. CASE TearDown \/ TearDownFails \/ Kill
  <2>1. pc' \in {"exit", "killed"} /\ UNCHANGED unavailable
    BY <1>10 DEF TearDown, TearDownFails, Kill, Rest
  <2> QED
    BY <1>2, <1>3, <2>1 DEF Sourced
<1>11. CASE (\E m \in Nodes : Edit(m)) \/ UNCHANGED vars
  <2>1. UNCHANGED <<listing, tocopy, box, unavailable, found, pc>>
    BY <1>11 DEF Edit, vars, Rest
  <2> QED
    BY <1>1, <1>2, <1>3, <2>1 DEF Sourced, InBox, Cleared
<1>12. Preflight \/ ApplyIgnores \/ Raise \/ Interrupt =>
           \/ \E c \in 0..3 : Leave(c)
           \/ pc = "preflight" /\ Goto("enter") /\ UNCHANGED Rest
  BY DEF Preflight, ApplyIgnores, Raise, Interrupt
<1> QED
  BY <1>4, <1>5, <1>6, <1>7, <1>8, <1>9, <1>10, <1>11, <1>12 DEF Next, Verify

(***************************************************************************)
(* The index is the working tree, so what the scan cannot open is there    *)
(* and could not be read.                                                  *)
(***************************************************************************)
LEMMA UnscannableUnread ==
    ASSUME staged = Worktree, Scan, NEW f \in found', f.where = "unscannable"
    PROVE  f.node \in unread'
<1>1. PICK e \in Selected : f \in PathFindings(e) \cup BodyFindings(e)
  BY DEF Scan
<1>2. e \in Worktree
  BY <1>1 DEF Selected, Entries
<1>3. f \in BodyFindings(e)
  BY <1>1 DEF PathFindings, Finding
<1> QED
  BY <1>2, <1>3 DEF BodyFindings, Finding

(***************************************************************************)
(* When every finding is matched by an ignore and none matches two, the    *)
(* leftovers of a path map one to one into its ignores.                    *)
(***************************************************************************)
LEMMA SuppressedExactly ==
    ASSUME ExactInv, pc = "ignore", NEW n \in Nodes \ edited, n \notin unread,
           ~Ambiguous, ~Failed
    PROVE  Exact(n)
<1>1. /\ found \subseteq Suppressed /\ Stale = {} /\ Sourced(n)
      /\ Copied(n) => Reached(n) /\ AsFound(n)
      /\ unavailable = {}
  BY DEF Failed, ExactInv, CleanInv, Followed, Pressing
<1>2. Finding(n, "unscannable", 0, Nowhere) \notin found
  BY DEF ExactInv, Finding
<1> DEFINE F(l) == Finding(n, l.where, l.line, l.at)
           Answers(l) == {ig \in IgnoresOf(n) : F(l) \in Matches(ig)}
<1>3. ASSUME Copied(n), NEW l \in Leftovers(n)
      PROVE  F(l) \in found /\ Answers(l) # {}
  <2>1. F(l) \in found
    BY <1>1, <1>2, <1>3 DEF Reached, AsFound
  <2>2. PICK ig \in cfg.ignores : F(l) \in Matches(ig)
    BY <1>1, <2>1 DEF Suppressed
  <2>3. l.where # "unscannable"
    BY DEF Leftovers, Left
  <2>4. ig.node = n /\ ~ig.io
    BY <2>2, <2>3 DEF Matches, Finding
  <2> QED
    BY <2>1, <2>2, <2>4 DEF IgnoresOf
<1>4. Cardinality(IF Copied(n) THEN Leftovers(n) ELSE {}) <= Cardinality(IgnoresOf(n))
  <2> DEFINE S == IF Copied(n) THEN Leftovers(n) ELSE {}
             g == [l \in S |-> CHOOSE ig \in Answers(l) : TRUE]
  <2>1. IsFiniteSet(IgnoresOf(n))
    <3>1. IsFiniteSet(cfg.ignores) /\ IgnoresOf(n) \in SUBSET cfg.ignores
      BY DEF ExactInv, IgnoresOf
    <3> QED
      BY <3>1, FS_Subset
  <2>2. \A l \in S : g[l] \in Answers(l)
    BY <1>3
  <2>3. ASSUME NEW k \in S, NEW l \in S, g[k] = g[l] PROVE k = l
    <3>1. /\ g[k] \in cfg.ignores /\ F(k) \in Matches(g[k]) /\ F(l) \in Matches(g[k])
      BY <2>2, <2>3 DEF IgnoresOf
    <3>2. F(k) = F(l)
      BY <3>1 DEF Ambiguous
    <3>3. /\ k = Left(k.where, k.line, k.at) /\ l = Left(l.where, l.line, l.at)
      BY DEF Leftovers, Left
    <3> QED
      BY <3>2, <3>3 DEF Finding, Left
  <2>4. g \in Injection(S, IgnoresOf(n))
    BY <2>2, <2>3 DEF Injection, IsInjective
  <2> QED
    BY <2>1, <2>4, FS_Injection
<1>5. ASSUME NEW ig \in IgnoresOf(n), ~ig.force, Copied(n) PROVE Leftovers(n) # {}
  <2>1. PICK f \in Matches(ig) : TRUE
    BY <1>1, <1>5 DEF Stale, IgnoresOf
  <2>2. f \in found /\ f.node = n /\ f.where # "unscannable"
    BY <2>1 DEF Matches, IgnoresOf
  <2>3. Excused(n)
    BY <1>1, <2>2 DEF Sourced
  <2>4. CopyKind(n) # "gitlink"
    BY <1>1, <1>5 DEF Reached
  <2> QED
    BY <1>5, <2>3, <2>4 DEF Excused
<1>6. ASSUME Copied(n), NEW l \in Leftovers(n), l.line # 0 PROVE l.line \in disk[n].marked
  <2>1. PICK ig \in cfg.ignores : F(l) \in Matches(ig)
    BY <1>3, <1>6 DEF IgnoresOf
  <2>2. Anchored(ig, F(l)) /\ F(l).line = l.line /\ F(l).node = n
    BY <2>1 DEF Matches, Finding
  <2> QED
    BY <1>6, <2>2 DEF Anchored
<1> QED
  BY <1>4, <1>5, <1>6 DEF Exact

(***************************************************************************)
(* Only the ignores conclude, and only the end of the sandbox passes it on.*)
(***************************************************************************)
LEMMA Concluded ==
    ASSUME Next, pc' \in Leaving, code' \in {0, 1} PROVE ApplyIgnores \/ TearDown
<1>1. ~(Preflight \/ EnterSandbox \/ ListTarget \/ CommitCopy)
  BY DEF Preflight, EnterSandbox, ListTarget, CommitCopy, Leave, Goto, Leaving
<1>2. ~\E m \in tocopy : CopyNode(m)
  BY DEF CopyNode, Put, Leave, Goto, Leaving
<1>3. ~(ApplyPress \/ WriteStubs \/ ApplyRemovals \/ Restage \/ Scan)
  <2>1. ~(Goto("stub") \/ Goto("remove") \/ Goto("restage") \/ Goto("scan") \/ Goto("ignore"))
    BY DEF Goto, Leaving
  <2>2. ~Leave(2)
    BY DEF Leave
  <2> QED
    BY <2>1, <2>2 DEF ApplyPress, WriteStubs, ApplyRemovals, Restage, Scan
<1>4. ~(Raise \/ Interrupt \/ TearDownFails \/ Kill)
  BY DEF Raise, Interrupt, TearDownFails, Kill, Leave, Leaving
<1>5. ~\E m \in Nodes : Edit(m)
  BY DEF Edit, Working, Leaving
<1> QED
  BY <1>1, <1>2, <1>3, <1>4, <1>5 DEF Next, Verify

LEMMA StepExact ==
    ASSUME ExactInv, [Next]_vars, NEW n \in Nodes \ edited', pc' \in Leaving, code' = 0,
           n \notin unread'
    PROVE  Exact(n)'
<1>1. n \in Nodes \ edited /\ place' = place /\ cfg' = cfg /\ disk'[n] = disk[n]
  BY Still DEF ExactInv, CleanInv
<1>2. Exact(n)' = Exact(n)
  BY <1>1, TargetOnly
<1>3. CASE ApplyIgnores
  <2>1. pc = "ignore" /\ ~Ambiguous /\ ~Failed /\ unread' = unread
    BY <1>3 DEF ApplyIgnores, Leave, Rest
  <2> QED
    BY <1>1, <1>2, <2>1, SuppressedExactly
<1>4. CASE TearDown \/ UNCHANGED vars
  <2>1. pc \in Leaving /\ code = 0 /\ n \notin unread
    BY <1>4 DEF TearDown, vars, Rest, Leaving
  <2> QED
    BY <1>1, <1>2, <2>1 DEF ExactInv
<1> QED
  BY <1>3, <1>4, Concluded

(***************************************************************************)
(* Exit 1 with nothing ignored has a finding, a submodule or a collision.  *)
(***************************************************************************)
LEMMA StepAlarming ==
    ASSUME ExactInv, [Next]_vars, pc' \in Leaving PROVE Alarming'
<1> SUFFICES ASSUME code' = 1, edited' = {}, unread' = {}, cfg'.ignores = {}
             PROVE  cfg'.collision \/ \E n \in Nodes : Excused(n)'
  BY DEF Alarming
<1>1. CASE ApplyIgnores
  <2>1. /\ pc = "ignore" /\ Failed /\ edited = {} /\ unread = {} /\ cfg.ignores = {}
        /\ place' = place /\ cfg' = cfg /\ disk' = disk
    BY <1>1 DEF ApplyIgnores, Leave, Rest, target
  <2>2. found # {} \/ unavailable # {} \/ cfg.collision
    BY <2>1 DEF Failed, Stale
  <2>3. ASSUME NEW f \in found PROVE \E n \in Nodes : Excused(n)
    <3>1. f.node \in Nodes
      BY DEF ExactInv, CleanInv, TypeOK
    <3>2. f.where # "unscannable"
      BY <2>1 DEF ExactInv
    <3>3. Excused(f.node)
      BY <2>1, <3>1, <3>2 DEF ExactInv, Sourced
    <3> QED
      BY <3>1, <3>3
  <2>4. ASSUME NEW n \in unavailable PROVE \E m \in Nodes : Excused(m)
    <3>1. n \in Nodes /\ Sourced(n)
      BY <2>1 DEF ExactInv, CleanInv, TypeOK
    <3> QED
      BY <3>1 DEF Sourced, Excused
  <2>5. \A n \in Nodes : Excused(n)' = Excused(n)
    BY <2>1, TargetOnly
  <2> QED
    BY <2>1, <2>2, <2>3, <2>4, <2>5
<1>2. CASE TearDown \/ UNCHANGED vars
  <2>1. /\ pc \in Leaving /\ code = 1 /\ edited = {} /\ unread = {}
        /\ place' = place /\ cfg' = cfg /\ disk' = disk
    BY <1>2 DEF TearDown, vars, Rest, target, Leaving
  <2>2. cfg.collision \/ \E n \in Nodes : Excused(n)
    BY <2>1 DEF ExactInv, Alarming
  <2>3. \A n \in Nodes : Excused(n)' = Excused(n)
    BY <2>1, TargetOnly
  <2> QED
    BY <2>1, <2>2, <2>3
<1> QED
  BY <1>1, <1>2, Concluded

LEMMA NextExact == ExactInv /\ [Next]_vars => ExactInv'
<1> SUFFICES ASSUME ExactInv, [Next]_vars PROVE ExactInv'
  OBVIOUS
<1>1. CleanInv'
  BY NextClean DEF ExactInv
<1>2. cfg' = cfg
  BY DEF Next, Verify, Preflight, EnterSandbox, ListTarget, CopyNode, CommitCopy, ApplyPress,
         WriteStubs, ApplyRemovals, Restage, Scan, ApplyIgnores, TearDown, TearDownFails, Raise,
         Interrupt, Kill, Edit, Leave, Goto, Put, target, vars
<1>3. ASSUME pc' = "ignore", NEW f \in found', f.where = "unscannable"
      PROVE  f.node \in unread'
  <2>1. CASE Scan
    BY <1>3, <2>1, UnscannableUnread DEF ExactInv, CleanInv, Scan
  <2>2. CASE (\E m \in Nodes : Edit(m)) \/ UNCHANGED vars
    BY <1>3, <2>2 DEF Edit, vars, Rest, ExactInv
  <2>3. Next /\ ~Scan /\ ~(\E m \in Nodes : Edit(m)) => pc' # "ignore"
    BY DEF Next, Verify, Preflight, EnterSandbox, ListTarget, CopyNode, CommitCopy, ApplyPress,
           WriteStubs, ApplyRemovals, Restage, ApplyIgnores, TearDown, TearDownFails, Raise,
           Interrupt, Kill, Leave, Goto, Put
  <2> QED
    BY <1>3, <2>1, <2>2, <2>3
<1>4. IsFiniteSet(cfg'.ignores)
  BY <1>2 DEF ExactInv
<1> QED
  BY <1>1, <1>3, <1>4, StepSourced, StepExact, StepAlarming DEF ExactInv

(***************************************************************************)
(* A line left in the copy is a finding, and hidden only by an anchor that *)
(* the target has on it at the verdict.                                    *)
(***************************************************************************)
AnchoredInv ==
    \A n \in Nodes \ unread : \A at \in LeftInCopy(n) :
        /\ pc = "ignore" => Finding(n, "body", at[1], at) \in found
        /\ pc \in Leaving /\ code = 0 => at[1] \in MarkedNow(n)

LEMMA ScanAnchored == ASSUME CleanInv, Scan PROVE AnchoredInv'
<1> SUFFICES ASSUME NEW n \in Nodes, n \notin unread', NEW at \in LeftInCopy(n)'
             PROVE  Finding(n, "body", at[1], at) \in found'
  BY DEF AnchoredInv, Scan, Goto, Leaving, Finding
<1> DEFINE e == <<n, box[n].moved>>
<1>1. /\ Scanned(n) /\ place[n].role = "none" /\ box[n].kind = "file" /\ ~box[n].bytes
      /\ at \in box[n].hits
  BY DEF LeftInCopy, Scan, Goto, target, Scanned
<1>2. e \in Worktree
  BY <1>1 DEF Worktree, InBox
<1>3. e \in Selected
  BY <1>1, <1>2 DEF Selected, Entries, Exempt, CleanInv, Scan
<1>4. BodyFindings(e) = {Finding(n, "body", LineOf(box[n], a), a) : a \in box[n].hits}
  BY <1>2 DEF BodyFindings
<1>5. LineOf(box[n], at) = at[1]
  BY <1>1 DEF LineOf
<1>6. Finding(n, "body", at[1], at) \in BodyFindings(e)
  BY <1>1, <1>4, <1>5
<1> QED
  BY <1>3, <1>6 DEF Scan

LEMMA IgnoresAnchored == ASSUME TypeOK, AnchoredInv, ApplyIgnores PROVE AnchoredInv'
<1>1. /\ pc = "ignore" /\ pc' # "ignore"
      /\ UNCHANGED <<place, cfg, disk, box, found, unread>>
      /\ code' = 0 => ~Failed
  BY DEF ApplyIgnores, Leave, target, Rest
<1> SUFFICES ASSUME NEW n \in Nodes, n \notin unread, NEW at \in LeftInCopy(n), ~Failed
             PROVE  at[1] \in MarkedNow(n)
  BY <1>1 DEF AnchoredInv, LeftInCopy, Scanned, MarkedNow, Finding
<1> DEFINE f == Finding(n, "body", at[1], at)
<1>2. f \in found /\ f.line = at[1] /\ f.node = n
  BY <1>1 DEF AnchoredInv, Finding
<1>3. PICK ig \in cfg.ignores : f \in Matches(ig)
  BY <1>2 DEF Failed, Suppressed
<1>4. Anchored(ig, f)
  BY <1>3 DEF Matches
<1>5. at[1] # 0
  <2>1. box[n].hits \subseteq Hits
    BY DEF TypeOK, Boxed
  <2>2. at \in Hits
    BY <2>1 DEF LeftInCopy
  <2> QED
    BY <2>2, VerifyAssumption DEF Hits
<1> HIDE DEF f
<1> QED
  BY <1>2, <1>4, <1>5 DEF Anchored, MarkedNow

LEMMA StepAnchored == CleanInv /\ AnchoredInv /\ [Next]_vars => AnchoredInv'
<1> SUFFICES ASSUME CleanInv, AnchoredInv, [Next]_vars PROVE AnchoredInv'
  OBVIOUS
<1>1. CASE Scan
  BY <1>1, ScanAnchored
<1>2. CASE ApplyIgnores
  BY <1>2, IgnoresAnchored DEF CleanInv
<1>3. CASE UNCHANGED vars \/ TearDown
  BY <1>3 DEF vars, TearDown, target, Rest, AnchoredInv, LeftInCopy, Scanned, MarkedNow, Finding,
              Leaving
<1>4. CASE \E m \in Nodes : Edit(m)
  <2>1. /\ UNCHANGED <<place, box, found, unread, pc>> /\ pc \notin Leaving
    BY <1>4 DEF Edit, Rest, Working, Leaving
  <2>2. \A n : LeftInCopy(n)' = LeftInCopy(n)
    BY <2>1 DEF LeftInCopy, Scanned
  <2> QED
    BY <2>1, <2>2 DEF AnchoredInv, Finding
<1>5. ASSUME Next, ~Scan, ~ApplyIgnores, ~TearDown, ~(\E m \in Nodes : Edit(m))
      PROVE  AnchoredInv'
  <2>1. pc' # "ignore"
    BY <1>5 DEF Next, Verify, Preflight, EnterSandbox, ListTarget, CopyNode, CommitCopy,
         ApplyPress, WriteStubs, ApplyRemovals, Restage, Raise, Interrupt, TearDownFails, Kill,
         Leave, Goto, Put
  <2>2. ~(pc' \in Leaving /\ code' = 0)
    BY <1>5, Concluded
  <2> QED
    BY <2>1, <2>2 DEF AnchoredInv
<1> QED
  BY <1>1, <1>2, <1>3, <1>4, <1>5

LEMMA InitAnchored == Init => AnchoredInv
BY DEF Init, AnchoredInv, Leaving

LEMMA ExactSays == ExactInv /\ AnchoredInv => NoFalseAlarm /\ IgnoresExact
<1> SUFFICES ASSUME ExactInv, AnchoredInv PROVE NoFalseAlarm /\ IgnoresExact
  OBVIOUS
<1>1. NoFalseAlarm
  BY DEF ExactInv, NoFalseAlarm, Alarming, Leaving, Excused, Resets
<1>2. IgnoresExact
  BY DEF ExactInv, AnchoredInv, IgnoresExact, ExitZero, Leaving, Exact
<1> QED
  BY <1>1, <1>2

LEMMA NextBoth == ExactInv /\ AnchoredInv /\ [Next]_vars => ExactInv' /\ AnchoredInv'
BY NextExact, StepAnchored DEF ExactInv

(***************************************************************************)
(* With nothing ignored, edited or unreadable, exit 1 of press verify is   *)
(* owed to a leftover, a submodule, an absent reset file or a collision.   *)
(***************************************************************************)
THEOREM VerifyNeverFalselyAlarmed == Spec => []NoFalseAlarm
  BY InitExact, InitAnchored, NextBoth, ExactSays, PTL DEF Spec

(***************************************************************************)
(* However many ignores there are, each hides at most one leftover of its  *)
(* path, at the line of its anchor, and fails the run when it hides none;  *)
(* and no edit makes it hide a line without its anchor.                    *)
(***************************************************************************)
THEOREM IgnoresHideOne == Spec => []IgnoresExact
  BY InitExact, InitAnchored, NextBoth, ExactSays, PTL DEF Spec
=============================================================================
