-------------------------- MODULE PressCleanProofs --------------------------
(***************************************************************************)
(* What a cleanup removes, what its exit code tells and that the surface   *)
(* it goes by existed, for any target and any number of changes by the     *)
(* other process; and what it leaves behind when nobody interferes.        *)
(***************************************************************************)
EXTENDS PressClean, SequenceTheorems, TLAPS

-----------------------------------------------------------------------------
(* The file that is removed. *)

(***************************************************************************)
(* What the three looks have found stays so until the unlink, or the other *)
(* process acted since the first of them began.                            *)
(***************************************************************************)
LookedInv ==
    /\ pc \in {"ignore", "index", "unlink"} /\ ~meddled => node[item.path] = item.node
    /\ pc \in {"index", "unlink"} /\ ~meddled => Eligible(item.path)

(***************************************************************************)
(* A step that leaves the tree, the excludes and the file at work alone    *)
(* leaves its verdicts alone.                                              *)
(***************************************************************************)
LEMMA VerdictsKept ==
    UNCHANGED <<node, index, text, pinned, item>> =>
        /\ SameFile' <=> SameFile
        /\ Eligible(item.path)' <=> Eligible(item.path)
BY DEF SameFile, Eligible, Ignored, Policy

(***************************************************************************)
(* Each look adds its verdict; every other step of the cleanup is before   *)
(* the first look or after the unlink, and the other process is noted.     *)
(***************************************************************************)
LEMMA LookedStep == LookedInv /\ [Next]_vars => LookedInv'
<1> SUFFICES ASSUME LookedInv, [Next]_vars PROVE LookedInv'
  OBVIOUS
<1>1. CASE Meddle
  BY <1>1 DEF Meddle, LookedInv
<1>2. CASE Capture
  BY <1>2 DEF Capture, LookedInv, Go, Fail, End
<1>3. CASE CheckInputs
  BY <1>3 DEF CheckInputs, LookedInv, Go, Fail, End
<1>4. CASE \E p \in todo : Inspect(p)
  BY <1>4 DEF Inspect, LookedInv, Fail, End
<1>5. CASE Classify
  BY <1>5 DEF Classify, Preview, LookedInv, Go, Fail, End
<1>6. CASE \E f \in files : TakeFile(f)
  BY <1>6 DEF TakeFile, LookedInv, Go
<1>7. CASE Look1
  BY <1>7, VerdictsKept DEF Look1, Checked, Unmoved, world, SameFile, LookedInv, Go, Fail, End
<1>8. CASE Look2
  BY <1>8, VerdictsKept DEF Look2, Checked, Unmoved, world, SameFile, LookedInv, Go, Fail, End
<1>9. CASE Look3
  BY <1>9, VerdictsKept DEF Look3, Checked, Unmoved, world, SameFile, LookedInv, Go, Fail, End
<1>10. CASE Unlink
  BY <1>10 DEF Unlink, LookedInv, Go, Fail, End
<1>11. CASE RunGit \/ GitNotLaunched \/ NothingLeft
  BY <1>11 DEF RunGit, GitNotLaunched, NothingLeft, LookedInv, Fail, End
<1>12. CASE UNCHANGED vars
  BY <1>12, VerdictsKept DEF vars, world, cleanVars, SameFile, LookedInv
<1> QED
  BY <1>1, <1>2, <1>3, <1>4, <1>5, <1>6, <1>7, <1>8, <1>9, <1>10, <1>11, <1>12 DEF Next, Clean

(***************************************************************************)
(* Whatever the other process did until the last look at a file began, the *)
(* file `press clean` unlinks is the one it planned, ignored and not       *)
(* tracked.                                                                *)
(***************************************************************************)
THEOREM RemovalsArePlanned == Spec => RemovedAsPlanned
<1>1. Init => LookedInv
  BY DEF Init, LookedInv
<1>2. LookedInv /\ [Next]_vars => LookedInv'
  BY LookedStep
<1>3. LookedInv =>
        [pc = "unlink" /\ pc' = "next" /\ ~meddled =>
            node[item.path] = item.node /\ Eligible(item.path)]_vars
  BY DEF LookedInv
<1> QED
  BY <1>1, <1>2, <1>3, PTL DEF Spec, RemovedAsPlanned

-----------------------------------------------------------------------------
(* The exit code. *)

(***************************************************************************)
(* The flag of the code follows what was attempted: both unset while the   *)
(* cleanup plans, equal between two removals, set early only for the       *)
(* unlink that comes next.                                                 *)
(***************************************************************************)
FlagInv ==
    /\ pc # "done" => exit = "none"
    /\ pc \in {"capture", "inputs", "inspect"} => ~started /\ ~attempted
    /\ pc \in {"next", "look", "ignore", "index"} => (started <=> attempted)
    /\ pc = "unlink" => started
    /\ ExitTellsAttempts

(***************************************************************************)
(* Every step keeps the flag and what was attempted in line, and every end *)
(* of the cleanup reads the flag when they agree.                          *)
(***************************************************************************)
LEMMA FlagStep == FlagInv /\ [Next]_vars => FlagInv'
<1> SUFFICES ASSUME FlagInv, [Next]_vars PROVE FlagInv'
  OBVIOUS
<1> USE DEF FlagInv, ExitTellsAttempts, Go, Fail, End
<1>1. CASE Meddle
  BY <1>1 DEF Meddle
<1>2. CASE Capture
  BY <1>2 DEF Capture
<1>3. CASE CheckInputs
  BY <1>3 DEF CheckInputs
<1>4. CASE \E p \in todo : Inspect(p)
  BY <1>4 DEF Inspect
<1>5. CASE Classify
  BY <1>5 DEF Classify, Preview
<1>6. CASE \E f \in files : TakeFile(f)
  BY <1>6 DEF TakeFile
<1>7. CASE Look1 \/ Look2
  BY <1>7 DEF Look1, Look2, Checked
<1>8. CASE Look3
  BY <1>8 DEF Look3, Checked, Begin
<1>9. CASE Unlink
  BY <1>9 DEF Unlink
<1>10. CASE RunGit
  BY <1>10 DEF RunGit
<1>11. CASE GitNotLaunched \/ NothingLeft
  BY <1>11 DEF GitNotLaunched, NothingLeft
<1>12. CASE UNCHANGED vars
  BY <1>12 DEF vars, cleanVars
<1> QED
  BY <1>1, <1>2, <1>3, <1>4, <1>5, <1>6, <1>7, <1>8, <1>9, <1>10, <1>11, <1>12 DEF Next, Clean

(***************************************************************************)
(* Exit code 2 of `press clean` means that no file was unlinked and no git *)
(* clean started, 1 that something was.                                    *)
(***************************************************************************)
THEOREM ExitCodeTells == Spec => []ExitTellsAttempts
<1>1. Init => FlagInv
  BY DEF Init, FlagInv, ExitTellsAttempts
<1>2. FlagInv /\ [Next]_vars => FlagInv'
  BY FlagStep
<1>3. FlagInv => ExitTellsAttempts
  BY DEF FlagInv
<1> QED
  BY <1>1, <1>2, <1>3, PTL DEF Spec

-----------------------------------------------------------------------------
(* The captured surface. *)

(***************************************************************************)
(* The first candidate makes eight readings, the second six; Reads is one  *)
(* after the other.                                                        *)
(***************************************************************************)
LEMMA Lens == Len(First) = 8 /\ Len(Second) = 6
BY DEF First, Second

(***************************************************************************)
(* The last six elements of a sequence of eight and six.                   *)
(***************************************************************************)
LEMMA Joined ==
    ASSUME NEW f, NEW s, NEW r,
           \A i \in 1..14 : r[i] = IF i <= 8 THEN f[i] ELSE s[i - 8]
    PROVE  /\ r[9] = s[1] /\ r[10] = s[2] /\ r[11] = s[3] /\ r[12] = s[4]
           /\ r[13] = s[5] /\ r[14] = s[6]
OBVIOUS

Sorts == {"config", "listed", "kinds", "visibility"}

(***************************************************************************)
(* The readings of the second candidate, by their place in the whole       *)
(* capture.                                                                *)
(***************************************************************************)
LEMMA ReadsShape ==
    /\ Len(Reads) = 14
    /\ Reads[9] = "config" /\ Reads[10] = "visibility" /\ Reads[11] = "listed"
    /\ Reads[12] = "kinds" /\ Reads[13] = "visibility" /\ Reads[14] = "config"
<1>1. First \in Seq(Sorts)
  BY DEF First, Sorts
<1>2. Second \in Seq(Sorts)
  BY DEF Second, Sorts
<1>3. /\ Len(First \o Second) = Len(First) + Len(Second)
      /\ \A i \in 1..Len(First) + Len(Second) :
            (First \o Second)[i] = IF i <= Len(First) THEN First[i] ELSE Second[i - Len(First)]
  BY <1>1, <1>2, ConcatProperties
<1>4. /\ Second[1] = "config" /\ Second[2] = "visibility" /\ Second[3] = "listed"
      /\ Second[4] = "kinds" /\ Second[5] = "visibility" /\ Second[6] = "config"
  BY DEF Second
<1>5. Len(First) + Len(Second) = 14
  BY Lens
<1>6. /\ Len(Reads) = 14
      /\ \A i \in 1..14 : Reads[i] = IF i <= 8 THEN First[i] ELSE Second[i - 8]
  BY ONLY <1>3, <1>5, Lens DEF Reads
<1>7. /\ Reads[9] = Second[1] /\ Reads[10] = Second[2] /\ Reads[11] = Second[3]
      /\ Reads[12] = Second[4] /\ Reads[13] = Second[5] /\ Reads[14] = Second[6]
  BY ONLY <1>6, Joined
<1> QED
  BY <1>6, <1>7, <1>4

(***************************************************************************)
(* The surface that is accepted is made of the last four readings.         *)
(***************************************************************************)
LEMMA CandidateIs ==
    ASSUME NEW t
    PROVE  Candidate(t, Len(Reads)) = [listed |-> t[11], kinds |-> t[12],
                                       policy |-> t[13].policy, excludes |-> t[14].excludes]
<1> DEFINE last(sort) == CHOOSE i \in 1..Len(Reads) : Reads[i] = sort
                                /\ \A j \in i + 1..Len(Reads) : Reads[j] # sort
<1>1. last("listed") = 11
  BY ReadsShape
<1>2. last("kinds") = 12
  BY ReadsShape
<1>3. last("visibility") = 13
  BY ReadsShape
<1>4. last("config") = 14
  BY ReadsShape
<1> QED
  BY <1>1, <1>2, <1>3, <1>4 DEF Candidate
-----------------------------------------------------------------------------
(***************************************************************************)
(* The tokens that the second candidate read first have not moved since;   *)
(* and the surface it has read by the time of its last look at the         *)
(* visibility inputs.                                                      *)
(***************************************************************************)
SameConfig == stamps.config = taken[9].stamp
SameVisibility == stamps.visibility = taken[10].stamp
Found == [listed |-> taken[11], kinds |-> taken[12], policy |-> taken[13].policy,
          excludes |-> taken[9].excludes]

(***************************************************************************)
(* While the capture reads, the world as it is has been seen. From the     *)
(* first reading of the second candidate on: as long as the tokens it read *)
(* stand still, the readings made since describe the world; and once the   *)
(* visibility token was read again, the same, they describe a world there  *)
(* was at that moment, if the other token has not moved since.             *)
(***************************************************************************)
ReadInv ==
    /\ \E S : taken \in Seq(S)
    /\ Len(taken) <= 13
    /\ stamps \in [config : Nat, visibility : Nat]
    /\ Surface \in seen
    /\ Len(taken) >= 9 =>
          /\ taken[9].stamp \in Nat /\ taken[9].stamp <= stamps.config
          /\ SameConfig => taken[9].excludes = excludes
    /\ Len(taken) >= 10 =>
          /\ taken[10].stamp \in Nat /\ taken[10].stamp <= stamps.visibility
          /\ SameVisibility => taken[10].policy = Policy
    /\ Len(taken) >= 11 /\ SameConfig /\ SameVisibility => taken[11] = Listed(excludes)
    /\ Len(taken) >= 12 /\ SameConfig /\ SameVisibility => taken[12] = KindsOf(Listed(excludes))
    /\ Len(taken) >= 13 /\ SameConfig /\ taken[13].stamp = taken[10].stamp => Found \in seen

(***************************************************************************)
(* A change by the other process moves a token unless it leaves what the   *)
(* token stands for alone, and the world it makes is seen.                 *)
(***************************************************************************)
Noticed ==
    /\ stamps' \in [config : Nat, visibility : Nat]
    /\ stamps'.config >= stamps.config /\ stamps'.visibility >= stamps.visibility
    /\ stamps'.config = stamps.config => UNCHANGED <<index, excludes>>
    /\ stamps'.visibility = stamps.visibility => UNCHANGED <<node, text>>
    /\ Surface' \in seen' /\ seen \subseteq seen'

(***************************************************************************)
(* Every action of the other process is noticed while the capture reads.   *)
(***************************************************************************)
LEMMA ChangeNoticed ==
    ASSUME OtherProcess, capture = "reading", stamps \in [config : Nat, visibility : Nat]
    PROVE  Noticed /\ UNCHANGED <<taken, capture, snapshot>>
<1>1. ASSUME NEW tokens, Change(tokens)
      PROVE  /\ stamps' \in [config : Nat, visibility : Nat]
             /\ stamps'.config = IF "config" \in tokens THEN stamps.config + 1 ELSE stamps.config
             /\ stamps'.visibility = IF "visibility" \in tokens THEN stamps.visibility + 1
                                                               ELSE stamps.visibility
             /\ Surface' \in seen' /\ seen \subseteq seen'
             /\ UNCHANGED <<taken, capture, snapshot>>
  BY <1>1 DEF Change
<1>2. CASE \E e \in Entries : (\E kind \in Kinds : Put(e, kind)) \/ Drop(e)
  <2>1. PICK e \in Entries : (\E kind \in Kinds : Put(e, kind)) \/ Drop(e)
    BY <1>2
  <2>2. Change(Tokens(e)) /\ UNCHANGED <<index, text, excludes>>
    BY <2>1 DEF Put, Drop
  <2>3. "visibility" \in Tokens(e)
    BY DEF Tokens
  <2> QED
    BY <1>1, <2>2, <2>3 DEF Noticed
<1>3. CASE \E e \in Entries : Track(e)
  BY <1>1, <1>3 DEF Track, Noticed
<1>4. CASE \E t \in Texts : Ignore(t)
  BY <1>1, <1>4 DEF Ignore, Noticed
<1>5. CASE Configure
  BY <1>1, <1>5 DEF Configure, Noticed
<1> QED
  BY <1>2, <1>3, <1>4, <1>5 DEF OtherProcess

(***************************************************************************)
(* A change keeps the invariant: it moves a token, and what the invariant  *)
(* says of standing tokens is void; or it leaves everything behind the     *)
(* token as it was.                                                        *)
(***************************************************************************)
LEMMA ReadInvMeddled ==
    ASSUME ReadInv, OtherProcess, capture = "reading"
    PROVE  ReadInv'
<1>1. Noticed /\ UNCHANGED <<taken, capture, snapshot>>
  BY ChangeNoticed DEF ReadInv
<1>2. Len(taken) \in Nat
  BY LenProperties DEF ReadInv
<1>3. Len(taken) >= 9 /\ SameConfig' => SameConfig /\ UNCHANGED <<index, excludes>>
  BY <1>1 DEF Noticed, ReadInv, SameConfig
<1>4. Len(taken) >= 10 /\ SameVisibility' => SameVisibility /\ UNCHANGED <<node, text>>
  BY <1>1, <1>2 DEF Noticed, ReadInv, SameVisibility
<1>5. UNCHANGED <<node, text>> => Policy' = Policy
  BY DEF Policy
<1>6. UNCHANGED <<node, text, index, excludes>> =>
          /\ Listed(excludes)' = Listed(excludes)
          /\ KindsOf(Listed(excludes))' = KindsOf(Listed(excludes))
  BY DEF Listed, KindsOf, Names, Ignored, Policy, Present
<1>7. Found' = Found
  BY <1>1 DEF Found
<1> QED
  BY <1>1, <1>2, <1>3, <1>4, <1>5, <1>6, <1>7 DEF ReadInv, Noticed

(***************************************************************************)
(* A reading is added to those taken, which stay.                          *)
(***************************************************************************)
LEMMA Appended ==
    ASSUME NEW s, \E S : s \in Seq(S), NEW x
    PROVE  /\ \E S : Append(s, x) \in Seq(S)
           /\ Len(s) \in Nat /\ Len(Append(s, x)) = Len(s) + 1
           /\ \A i \in 1..Len(s) : Append(s, x)[i] = s[i]
           /\ Append(s, x)[Len(s) + 1] = x
<1>1. PICK S : s \in Seq(S)
  OBVIOUS
<1>2. s \in Seq(S \cup {x})
  BY <1>1, SeqMonotonic
<1> QED
  BY <1>2, AppendProperties, LenProperties

(***************************************************************************)
(* Each reading that does not end the capture adds its clause: it looks at *)
(* the world there is, and the world does not move under it.               *)
(***************************************************************************)
LEMMA ReadInvRead ==
    ASSUME ReadInv, Read, capture' = "reading"
    PROVE  ReadInv'
<1> DEFINE n == Len(taken) + 1
           x == Look(Reads[n])
           t == Append(taken, x)
<1>0. /\ \E S : t \in Seq(S)
      /\ Len(taken) \in Nat /\ Len(t) = n
      /\ \A i \in 1..Len(taken) : t[i] = taken[i]
      /\ t[n] = x
  <2> HIDE DEF x
  <2> QED
    BY Appended DEF ReadInv
<1>1. /\ capture = "reading" /\ taken' = t /\ Verdict(t) = "reading"
      /\ UNCHANGED <<stamps, world, seen>>
  BY DEF Read
<1>2. /\ \E S : taken' \in Seq(S)
      /\ Len(taken) \in Nat /\ Len(taken') = n
      /\ \A i \in 1..Len(taken) : taken'[i] = taken[i]
      /\ taken'[n] = x
  <2> HIDE DEF t
  <2> QED
    BY <1>0, <1>1
<1>3. n <= 13
  <2>1. n # 14
    BY <1>1, <1>2, Lens, ReadsShape DEF Verdict
  <2> QED
    BY <1>2, <2>1 DEF ReadInv
<1>4. /\ Policy' = Policy /\ Listed(excludes)' = Listed(excludes) /\ Surface' = Surface
      /\ KindsOf(Listed(excludes))' = KindsOf(Listed(excludes))
  BY <1>1 DEF world, Surface, Listed, KindsOf, Names, Ignored, Policy, Present
<1>5. \A i \in 1..Len(taken) : taken[i]' = taken[i]
  BY <1>2
<1>6. CASE n <= 8
  BY <1>1, <1>2, <1>4, <1>6 DEF ReadInv, world
<1>7. CASE n = 9
  <2>1. x = [excludes |-> excludes, stamp |-> stamps.config]
    BY <1>7, ReadsShape DEF Look
  <2> QED
    BY <1>1, <1>2, <1>4, <1>7, <2>1 DEF ReadInv, world
<1>8. CASE n = 10
  <2>1. x = [policy |-> Policy, stamp |-> stamps.visibility]
    BY <1>8, ReadsShape DEF Look
  <2> QED
    BY <1>1, <1>2, <1>4, <1>8, <2>1 DEF ReadInv, SameConfig, world
<1>9. CASE n = 11
  <2>1. x = Listed(taken[9].excludes)
    BY <1>9, ReadsShape, Lens DEF Look, Pinned
  <2> QED
    BY <1>1, <1>2, <1>4, <1>9, <2>1 DEF ReadInv, SameConfig, SameVisibility, world
<1>10. CASE n = 12
  <2>1. x = KindsOf(taken[11])
    BY <1>10, ReadsShape DEF Look
  <2> QED
    BY <1>1, <1>2, <1>4, <1>10, <2>1 DEF ReadInv, SameConfig, SameVisibility, world
<1>11. CASE n = 13
  <2>1. x = [policy |-> Policy, stamp |-> stamps.visibility]
    BY <1>11, ReadsShape DEF Look
  <2>2. SameConfig /\ stamps.visibility = taken[10].stamp =>
           Surface = [listed |-> taken[11], kinds |-> taken[12], policy |-> x.policy,
                      excludes |-> taken[9].excludes]
    BY <1>11, <2>1 DEF ReadInv, Surface, SameVisibility
  <2> QED
    BY <1>1, <1>2, <1>4, <1>11, <2>1, <2>2 DEF ReadInv, SameConfig, SameVisibility, world, Found
<1> QED
  BY <1>2, <1>3, <1>6, <1>7, <1>8, <1>9, <1>10, <1>11

(***************************************************************************)
(* The last reading accepts the surface only with both tokens as at the    *)
(* start of the second candidate, so the surface was there when the        *)
(* visibility inputs were read for the last time.                          *)
(***************************************************************************)
LEMMA AcceptedWasSeen ==
    ASSUME ReadInv, Read, capture' = "done"
    PROVE  snapshot' \in seen'
<1> DEFINE t == Append(taken, Look(Reads[Len(taken) + 1]))
<1>1. /\ Verdict(t) = "done" /\ snapshot' = Candidate(t, Len(Reads)) /\ seen' = seen
  BY DEF Read
<1>2. /\ Len(taken) \in Nat /\ Len(t) = Len(taken) + 1
      /\ \A i \in 1..Len(taken) : t[i] = taken[i]
      /\ t[Len(taken) + 1] = Look(Reads[Len(taken) + 1])
  BY Appended DEF ReadInv
<1>3. Len(taken) = 13 /\ SecondHolds(t)
  <2>1. Len(t) = 14 /\ SecondHolds(t)
    BY <1>1, ReadsShape DEF Verdict, SameSurface
  <2>2. \A m \in Nat : m + 1 = 14 => m = 13
    OBVIOUS
  <2>3. Len(taken) \in Nat /\ Len(t) = Len(taken) + 1
    BY <1>2
  <2> HIDE DEF t
  <2> QED
    BY ONLY <2>1, <2>2, <2>3
<1>4. t[14] = [excludes |-> excludes, stamp |-> stamps.config]
  BY <1>2, <1>3, ReadsShape DEF Look
<1>5. t[9] = t[14] /\ t[10] = t[13]
  <2>1. Steady(t, {"config", "visibility"}, 9..14)
    BY <1>3, Lens, ReadsShape DEF SecondHolds
  <2>2. \A i, j \in 9..14 :
           Reads[i] \in {"config", "visibility"} /\ Reads[i] = Reads[j] => t[i] = t[j]
    BY <2>1 DEF Steady
  <2> HIDE DEF t
  <2>3. Reads[9] = Reads[14] /\ Reads[9] \in {"config", "visibility"} => t[9] = t[14]
    BY ONLY <2>2
  <2>4. Reads[10] = Reads[13] /\ Reads[10] \in {"config", "visibility"} => t[10] = t[13]
    BY ONLY <2>2
  <2> QED
    BY <2>3, <2>4, ReadsShape
<1>6. SameConfig /\ taken[13].stamp = taken[10].stamp
  BY <1>2, <1>3, <1>4, <1>5 DEF SameConfig
<1>7. Candidate(t, Len(Reads)) = Found
  <2>1. t[9] = taken[9] /\ t[11] = taken[11] /\ t[12] = taken[12] /\ t[13] = taken[13]
    <3> HIDE DEF t
    <3> QED
      BY <1>2, <1>3
  <2>2. Candidate(t, Len(Reads)) = [listed |-> t[11], kinds |-> t[12], policy |-> t[13].policy,
                                    excludes |-> t[14].excludes]
    BY CandidateIs
  <2> HIDE DEF t
  <2> QED
    BY <2>1, <2>2, <1>5 DEF Found
<1> QED
  BY <1>1, <1>2, <1>3, <1>6, <1>7 DEF ReadInv

(***************************************************************************)
(* The capture runs exactly in its phase, and its verdict stands           *)
(* afterwards.                                                             *)
(***************************************************************************)
CaptureInv ==
    /\ pc = "capture" <=> capture = "reading"
    /\ capture = "reading" => ReadInv
    /\ SnapshotWasReal

(***************************************************************************)
(* Every step keeps the invariant of the capture.                          *)
(***************************************************************************)
LEMMA CaptureStep == CaptureInv /\ [Next]_vars => CaptureInv'
<1> SUFFICES ASSUME CaptureInv, [Next]_vars PROVE CaptureInv'
  OBVIOUS
<1>1. CASE Capture
  <2>1. Read /\ pc = "capture" /\ ReadInv /\ capture' \in {"reading", "refused", "done"}
    BY <1>1 DEF Capture, CaptureInv, Read, Verdict
  <2>2. pc' = "capture" <=> capture' = "reading"
    BY <1>1, <2>1 DEF Capture, Go, Fail, End
  <2> QED
    BY <2>1, <2>2, ReadInvRead, AcceptedWasSeen DEF CaptureInv, SnapshotWasReal
<1>2. CASE Meddle
  <2>1. OtherProcess /\ UNCHANGED pc
    BY <1>2 DEF Meddle
  <2>2. CASE capture = "reading"
    BY <2>1, <2>2, ReadInvMeddled, ChangeNoticed DEF CaptureInv, SnapshotWasReal, ReadInv
  <2>3. CASE capture # "reading"
    <3>1. UNCHANGED <<capture, snapshot, seen>>
      BY <2>1, <2>3 DEF OtherProcess, Put, Drop, Track, Ignore, Configure, Change
    <3> QED
      BY <2>1, <2>3, <3>1 DEF CaptureInv, SnapshotWasReal
  <2> QED
    BY <2>2, <2>3
<1>3. CASE CheckInputs
  BY <1>3 DEF CheckInputs, CaptureInv, SnapshotWasReal, Go, Fail, End
<1>4. ASSUME pc \notin {"capture", "inputs"}, pc' # "capture", UNCHANGED captureVars
      PROVE  CaptureInv'
  BY <1>4 DEF CaptureInv, captureVars, SnapshotWasReal
<1>5. CASE (\E p \in todo : Inspect(p)) \/ Classify
  BY <1>4, <1>5 DEF Inspect, Classify, Preview, Unmoved, Go, Fail, End
<1>6. CASE (\E f \in files : TakeFile(f)) \/ Look1 \/ Look2 \/ Look3
  BY <1>4, <1>6 DEF TakeFile, Look1, Look2, Look3, Checked, Unmoved, Go, Fail, End
<1>7. CASE Unlink \/ RunGit \/ GitNotLaunched \/ NothingLeft
  BY <1>4, <1>7 DEF Unlink, RunGit, GitNotLaunched, NothingLeft, Unmoved, Go, Fail, End
<1>8. CASE UNCHANGED vars
  <2>1. UNCHANGED <<world, captureVars, pc>>
    BY <1>8 DEF vars, cleanVars
  <2>2. ReadInv' <=> ReadInv
    BY <2>1 DEF world, captureVars, ReadInv, Surface, Listed, KindsOf, Names, Ignored, Policy,
                Present, SameConfig, SameVisibility, Found
  <2> QED
    BY <2>1, <2>2 DEF CaptureInv, SnapshotWasReal, captureVars
<1> QED
  BY <1>1, <1>2, <1>3, <1>5, <1>6, <1>7, <1>8 DEF Next, Clean

(***************************************************************************)
(* A capture starts with what there is.                                    *)
(***************************************************************************)
LEMMA CaptureStarts == Init => CaptureInv
<1>1. taken = <<>> => taken \in Seq({}) /\ Len(taken) = 0
  BY EmptySeq
<1> QED
  BY <1>1 DEF Init, CaptureInit, CaptureInv, ReadInv, NoStamps, SnapshotWasReal

(***************************************************************************)
(* A surface that `press clean` accepts from its capture is one the target *)
(* had at one moment of it, names, kinds, inputs and configuration         *)
(* together, however often another process changed the target in between   *)
(* and put it back.                                                        *)
(***************************************************************************)
THEOREM AcceptedSurfaceExisted == Spec => []SnapshotWasReal
<1>1. Init => CaptureInv
  BY CaptureStarts
<1>2. CaptureInv /\ [Next]_vars => CaptureInv'
  BY CaptureStep
<1>3. CaptureInv => SnapshotWasReal
  BY DEF CaptureInv
<1> QED
  BY <1>1, <1>2, <1>3, PTL DEF Spec

-----------------------------------------------------------------------------
(* Types. *)

(***************************************************************************)
(* TypeOK with what makes it inductive: a token has moved at most once for *)
(* each change, the readings are a sequence, and nothing is to be          *)
(* inspected before the inputs are checked.                                *)
(***************************************************************************)
Typed ==
    /\ TypeOK
    /\ stamps.config <= changes /\ stamps.visibility <= changes
    /\ \E S : taken \in Seq(S)
    /\ pc \in {"capture", "inputs"} => todo = {}

(***************************************************************************)
(* The part of it that is about the cleanup's own variables.               *)
(***************************************************************************)
RunTypes ==
    /\ selected \in Selections \cup {{}} /\ show \in BOOLEAN /\ pinned \in BOOLEAN
    /\ pc \in {"capture", "inputs", "inspect", "next", "look", "ignore", "index", "unlink",
               "done"}
    /\ todo \subseteq selected /\ files \subseteq Exact /\ roots \subseteq Dirs
    /\ item \in Exact \cup {NoItem}
    /\ started \in BOOLEAN /\ attempted \in BOOLEAN /\ meddled \in BOOLEAN
    /\ exit \in {"none", "0", "1", "2"}
    /\ pc \in {"capture", "inputs"} => todo = {}

(***************************************************************************)
(* What an action puts at a path is a node.                                *)
(***************************************************************************)
LEMMA NodesTyped ==
    /\ Missing \in Nodes
    /\ \A kind \in Kinds, id \in 0..MaxChanges : [kind |-> kind, id |-> id] \in Nodes
BY DEF Nodes, Missing

(***************************************************************************)
(* A change by the other process is counted, and each token moves at most  *)
(* once with it.                                                           *)
(***************************************************************************)
LEMMA MeddleTyped == Typed /\ Meddle => Typed'
<1> SUFFICES ASSUME Typed, Meddle PROVE Typed'
  OBVIOUS
<1>1. MaxChanges \in Nat
  BY CaptureAssumption
<1>2. ASSUME NEW tokens, Change(tokens)
      PROVE  /\ changes' \in 0..MaxChanges
             /\ stamps' \in [config : 0..MaxChanges, visibility : 0..MaxChanges]
             /\ stamps'.config <= changes' /\ stamps'.visibility <= changes'
             /\ UNCHANGED <<taken, capture>>
  <2>1. stamps = [config |-> stamps.config, visibility |-> stamps.visibility]
        /\ DOMAIN stamps = {"config", "visibility"}
    BY DEF Typed, TypeOK
  <2>2. \A k \in {"config", "visibility"} : stamps[k] \in 0..MaxChanges /\ stamps[k] <= changes
    BY DEF Typed, TypeOK
  <2>3. /\ changes \in Nat /\ changes < MaxChanges /\ changes' = changes + 1
        /\ UNCHANGED <<taken, capture>>
    BY <1>2 DEF Change, Typed, TypeOK
  <2>4. CASE capture = "reading"
    <3>1. stamps' = [k \in {"config", "visibility"} |->
                        IF k \in tokens THEN stamps[k] + 1 ELSE stamps[k]]
      BY <1>2, <2>1, <2>4 DEF Change
    <3> QED
      BY <1>1, <2>2, <2>3, <3>1
  <2>5. CASE capture # "reading"
    BY <1>1, <1>2, <2>3, <2>5 DEF Change, Typed, TypeOK
  <2> QED
    BY <2>4, <2>5
<1>3. /\ node' \in [Entries -> Nodes] /\ index' \subseteq Entries /\ text' \in Texts
      /\ excludes' \in BOOLEAN
      /\ \E tokens : Change(tokens)
  <2>1. CASE \E e \in Entries, kind \in Kinds : Put(e, kind)
    <3>1. PICK e \in Entries, kind \in Kinds : Put(e, kind)
      BY <2>1
    <3>2. changes + 1 \in 0..MaxChanges
      BY <1>1, <3>1 DEF Put, Change, Typed, TypeOK
    <3> QED
      BY <3>1, <3>2, NodesTyped DEF Put, Typed, TypeOK
  <2>2. CASE \E e \in Entries : Drop(e)
    BY <2>2, NodesTyped DEF Drop, Typed, TypeOK
  <2>3. CASE \E e \in Entries : Track(e)
    BY <2>3 DEF Track, Typed, TypeOK
  <2>4. CASE \E t \in Texts : Ignore(t)
    BY <2>4 DEF Ignore, Typed, TypeOK
  <2>5. CASE Configure
    BY <2>5 DEF Configure, Typed, TypeOK
  <2> QED
    BY <2>1, <2>2, <2>3, <2>4, <2>5 DEF Meddle, OtherProcess
<1> QED
  BY <1>2, <1>3 DEF Meddle, Typed, TypeOK

(***************************************************************************)
(* A reading keeps the types: there are never more of them than Reads has. *)
(***************************************************************************)
LEMMA CaptureTyped == Typed /\ CaptureInv /\ Capture => Typed'
<1> SUFFICES ASSUME Typed, CaptureInv, Capture PROVE Typed'
  OBVIOUS
<1>1. Read /\ ReadInv
  BY DEF Capture, CaptureInv, Read
<1>2. capture' \in {"reading", "refused", "done"}
  BY <1>1 DEF Read, Verdict
<1>3. CASE capture' = "reading"
  <2>1. ReadInv'
    BY <1>1, <1>3, ReadInvRead
  <2>2. UNCHANGED <<world, stamps>>
    BY <1>1, <1>3 DEF Read
  <2> QED
    BY <1>3, <2>1, <2>2, ReadsShape, LenProperties DEF Typed, TypeOK, ReadInv, Capture, world
<1>4. CASE capture' # "reading"
  <2>1. taken' = <<>> /\ stamps' = NoStamps /\ UNCHANGED world
    BY <1>1, <1>4 DEF Read
  <2>2. <<>> \in Seq({}) /\ Len(<<>>) = 0
    BY EmptySeq
  <2> QED
    BY <1>2, <2>1, <2>2, ReadsShape, CaptureAssumption 
       DEF Typed, TypeOK, NoStamps, Capture, Go, Fail, End, world
<1> QED
  BY <1>3, <1>4

(***************************************************************************)
(* Every step keeps the types.                                             *)
(***************************************************************************)
LEMMA TypedStep == Typed /\ CaptureInv /\ [Next]_vars => Typed'
<1> SUFFICES ASSUME Typed, CaptureInv, [Next]_vars PROVE Typed'
  OBVIOUS
<1> USE DEF Go, Fail, End
<1>1. CASE Meddle
  BY <1>1, MeddleTyped
<1>2. CASE Capture
  BY <1>2, CaptureTyped
<1>3. ASSUME UNCHANGED <<world, stamps, taken, capture>>, RunTypes'
      PROVE  Typed'
  BY <1>3 DEF world, Typed, TypeOK, RunTypes
<1>4. CASE CheckInputs
  BY <1>3, <1>4 DEF CheckInputs, Typed, TypeOK, RunTypes
<1>5. CASE \E p \in todo : Inspect(p)
  <2>1. PICK p \in todo : Inspect(p)
    BY <1>5
  <2>2. p \notin Dirs => p \in Entries
    BY <2>1, CleanAssumption DEF Typed, TypeOK
  <2>3. files' \subseteq Exact
    BY <2>1, <2>2 DEF Inspect, Regular, Exact, Typed, TypeOK
  <2> QED
    BY <1>3, <2>1, <2>3 DEF Inspect, Unmoved, captureVars, Typed, TypeOK, RunTypes
<1>6. CASE Classify
  BY <1>3, <1>6 DEF Classify, Preview, Unmoved, captureVars, Typed, TypeOK, RunTypes
<1>7. CASE \E f \in files : TakeFile(f)
  BY <1>7 DEF TakeFile, captureVars, world, Typed, TypeOK
<1>8. CASE Look1 \/ Look2 \/ Look3
  BY <1>3, <1>8 DEF Look1, Look2, Look3, Checked, Begin, Unmoved, captureVars, Typed, TypeOK,
                    RunTypes
<1>9. CASE Unlink
  BY <1>9, NodesTyped DEF Unlink, captureVars, Typed, TypeOK
<1>10. CASE RunGit
  <2>1. node' \in [Entries -> Nodes]
    BY <1>10, NodesTyped DEF RunGit, Typed, TypeOK
  <2> QED
    BY <1>10, <2>1 DEF RunGit, captureVars, Typed, TypeOK
<1>11. CASE GitNotLaunched \/ NothingLeft
  BY <1>3, <1>11 DEF GitNotLaunched, NothingLeft, Unmoved, captureVars, Typed, TypeOK, RunTypes
<1>12. CASE UNCHANGED vars
  BY <1>12 DEF vars, world, captureVars, cleanVars, Typed, TypeOK, Exact
<1> QED
  BY <1>1, <1>2, <1>4, <1>5, <1>6, <1>7, <1>8, <1>9, <1>10, <1>11, <1>12 DEF Next, Clean

(***************************************************************************)
(* The first state has the types.                                          *)
(***************************************************************************)
LEMMA TypesStart == Init => Typed
<1> SUFFICES ASSUME Init PROVE Typed
  OBVIOUS
<1>1. <<>> \in Seq({}) /\ Len(<<>>) = 0
  BY EmptySeq
<1>2. PICK s \in Starts : /\ node = [e \in Entries |-> IF e \in s.present
                                          THEN [kind |-> "file", id |-> 0] ELSE Missing]
                          /\ index = s.index /\ text = s.text
  BY DEF Init, CaptureInit
<1>3. s \in [present : SUBSET Entries, index : SUBSET Entries, text : Texts]
  BY CaptureAssumption
<1>4. MaxChanges \in Nat /\ "file" \in Kinds
  BY CaptureAssumption
<1>5. node \in [Entries -> Nodes]
  BY <1>2, <1>4, NodesTyped
<1>6. /\ stamps = NoStamps /\ changes = 0 /\ taken = <<>> /\ capture = "reading"
      /\ excludes \in BOOLEAN
  BY DEF Init, CaptureInit
<1>7. /\ \E S : taken \in Seq(S)
      /\ Len(taken) < Len(Reads)
  BY <1>1, <1>6, ReadsShape
<1>8. stamps \in [config : 0..MaxChanges, visibility : 0..MaxChanges]
      /\ stamps.config <= changes /\ stamps.visibility <= changes
  BY <1>4, <1>6 DEF NoStamps
<1>9. RunTypes
  BY <1>6 DEF Init, RunTypes
<1>10. index \subseteq Entries /\ text \in Texts
  BY <1>2, <1>3
<1>11. changes \in 0..MaxChanges
  BY <1>4, <1>6
<1> QED
  BY <1>5, <1>6, <1>7, <1>8, <1>9, <1>10, <1>11 DEF Typed, TypeOK, RunTypes

(***************************************************************************)
(* A cleanup keeps its types whatever happens in the target: the paths it  *)
(* has to inspect are declared ones and the files it plans are regular     *)
(* files of the target.                                                    *)
(***************************************************************************)
THEOREM CleanTypeCorrect == Spec => []TypeOK
<1>1. Init => Typed /\ CaptureInv
  BY CaptureStarts, TypesStart
<1>2. Typed /\ CaptureInv /\ [Next]_vars => Typed' /\ CaptureInv'
  BY TypedStep, CaptureStep
<1>3. Typed => TypeOK
  BY DEF Typed
<1> QED
  BY <1>1, <1>2, <1>3, PTL DEF Spec

-----------------------------------------------------------------------------
(* A cleanup that is left alone. *)

Looking == pc \in {"look", "ignore", "index", "unlink"}

(***************************************************************************)
(* What the cleanup works on is declared and not protected. As long as     *)
(* nobody else changed anything, the snapshot still says what is tracked,  *)
(* what was listed is still not ignored, and an input that is there is     *)
(* protected or out of the scope.                                          *)
(***************************************************************************)
QuietInv ==
    /\ pc \notin {"capture", "done"} => capture = "done"
    /\ pc \in {"capture", "inputs"} => todo = {} /\ files = {} /\ roots = {}
    /\ roots \subseteq selected /\ todo \subseteq selected
    /\ pc \notin {"capture", "inputs", "inspect", "done"} => todo = {}
    /\ \A f \in files : f.path \in Entries \cap selected /\ f.path \notin Protected
    /\ Looking => item.path \in Entries \cap selected /\ item.path \notin Protected
    /\ changes = 0 =>
          /\ pinned = excludes
          /\ capture = "reading" => seen = {Surface}
          /\ capture = "done" =>
                /\ snapshot.policy = Policy /\ snapshot.listed.tracked = index
                /\ snapshot.listed.other \cap Ignored(excludes) = {}
          /\ pc \notin {"capture", "inputs", "done"} =>
                \A e \in Controls \cup {PolicyFile} :
                    Present(e) /\ e \notin Protected => e \notin Scope(selected)

(***************************************************************************)
(* No step takes a control file or the ignore file away.                   *)
(***************************************************************************)
InputsKept == \A e \in Controls \cup {PolicyFile} : Present(e) => Present(e)'

(***************************************************************************)
(* What the snapshot protects is tracked or not ignored.                   *)
(***************************************************************************)
LEMMA ProtectedNotEligible ==
    ASSUME QuietInv, changes = 0, capture = "done", NEW e \in Protected
    PROVE  ~Eligible(e)
BY DEF QuietInv, Protected, Names, Eligible

(***************************************************************************)
(* An unlink takes a declared file that is not protected, a git clean      *)
(* takes eligible entries of the scope; no input that is there is either.  *)
(* So what is ignored stays ignored.                                       *)
(***************************************************************************)
LEMMA RemovalKeepsInputs ==
    ASSUME QuietInv, Typed, changes = 0, Unlink \/ RunGit
    PROVE  InputsKept /\ Policy' = Policy
<1>1. capture = "done" /\ Controls \cup {PolicyFile} \subseteq Entries
  BY CleanAssumption, CaptureAssumption DEF QuietInv, Unlink, RunGit
<1>2. \A e \in Controls \cup {PolicyFile} :
          Present(e) /\ e \notin Protected => e \notin Scope(selected)
  BY DEF QuietInv, Unlink, RunGit
<1>3. \A e \in Entries : node'[e] = node[e] \/ node'[e] = Missing
  BY DEF Unlink, RunGit, Typed, TypeOK
<1>4. InputsKept
  <2>1. CASE Unlink
    <3>1. item.path \in Scope(selected) /\ item.path \notin Protected
      BY <2>1 DEF Unlink, QuietInv, Looking, Scope
    <3>2. item.path \notin Controls \cup {PolicyFile} \/ ~Present(item.path)
      BY <1>2, <3>1
    <3>3. \A e \in Entries : e # item.path => node'[e] = node[e]
      BY <2>1 DEF Unlink, Typed, TypeOK
    <3> QED
      BY <1>1, <3>2, <3>3 DEF InputsKept, Present
  <2>2. CASE RunGit
    <3>1. PICK gone \in SUBSET Removable :
              node' = [e \in Entries |-> IF e \in gone THEN Missing ELSE node[e]]
      BY <2>2 DEF RunGit
    <3>2. \A e \in gone : Present(e) /\ Eligible(e) /\ e \in Scope(selected)
      BY DEF Removable, QuietInv, Scope, Typed, TypeOK
    <3>3. \A e \in gone : e \notin Controls \cup {PolicyFile}
      BY <1>1, <1>2, <3>2, ProtectedNotEligible
    <3> QED
      BY <1>1, <3>1, <3>3 DEF InputsKept, Present
  <2> QED
    BY <2>1, <2>2
<1>5. Policy' = Policy
  <2>1. node'[PolicyFile] = node[PolicyFile]
    <3>1. CASE Present(PolicyFile)
      BY <1>1, <1>3, <1>4, <3>1 DEF InputsKept, Present, Missing
    <3>2. CASE ~Present(PolicyFile)
      <4>1. node[PolicyFile] = Missing
        BY <1>1, <3>2, CaptureAssumption DEF Present, Nodes, Typed, TypeOK
      <4> QED
        BY <1>1, <1>3, <4>1
    <3> QED
      BY <3>1, <3>2
  <2>2. UNCHANGED text
    BY DEF Unlink, RunGit
  <2> QED
    BY <2>1, <2>2 DEF Policy
<1> QED
  BY <1>4, <1>5

(***************************************************************************)
(* Every step keeps the invariant.                                         *)
(***************************************************************************)
LEMMA QuietStep ==
    ASSUME QuietInv, Typed, CaptureInv, [Next]_vars
    PROVE  QuietInv'
<1> USE DEF Go, Fail, End
<1>1. CASE Meddle
  <2>1. changes' # 0
    BY <1>1 DEF Meddle, OtherProcess, Put, Drop, Track, Ignore, Configure, Change, Typed, TypeOK
  <2>2. UNCHANGED <<capture, snapshot, pc, todo, files, roots, selected, item>>
    BY <1>1 DEF Meddle, OtherProcess, Put, Drop, Track, Ignore, Configure, Change
  <2> QED
    BY <2>1, <2>2 DEF QuietInv, Looking, Protected
<1>2. CASE Capture
  <2>1. /\ Read /\ ReadInv /\ pc = "capture" /\ capture = "reading"
        /\ UNCHANGED <<world, seen, selected, pinned, todo, files, roots, item>>
    BY <1>2 DEF Capture, Read, CaptureInv
  <2>2. Surface' = Surface /\ Policy' = Policy /\ Ignored(excludes)' = Ignored(excludes)
    BY <2>1 DEF Surface, Policy, Listed, KindsOf, Names, Ignored, Present, world
  <2>3. changes = 0 /\ capture' = "done" => snapshot' = Surface
    BY <2>1, AcceptedWasSeen DEF QuietInv
  <2>4. /\ Surface.policy = Policy /\ Surface.listed.tracked = index
        /\ Surface.listed.other \cap Ignored(excludes) = {}
    BY DEF Surface, Listed
  <2>5. capture' \in {"reading", "refused", "done"}
        /\ (capture' = "reading" => pc' = "capture") /\ (capture' = "done" => pc' = "inputs")
        /\ (capture' = "refused" => pc' = "done")
    BY <1>2, <2>1 DEF Capture, Read, Verdict
  <2> QED
    BY <2>1, <2>2, <2>3, <2>4, <2>5 DEF QuietInv, Looking, world
<1>3. CASE CheckInputs
  <2>1. /\ UNCHANGED <<world, capture, snapshot, pinned, files, roots, item>>
        /\ pc = "inputs" /\ pc' \in {"inspect", "done"} /\ todo' \subseteq selected'
        /\ pc' = "inspect" => PreservesInputs(Scope(selected'))
    BY <1>3 DEF CheckInputs, QuietInv
  <2>2. Policy' = Policy /\ Ignored(excludes)' = Ignored(excludes) /\ Protected' = Protected
        /\ \A e : Present(e)' = Present(e)
    BY <2>1 DEF Policy, Ignored, Present, Protected, world
  <2>3. ASSUME changes = 0, pc' = "inspect", NEW e \in Controls \cup {PolicyFile},
               Present(e), e \notin Protected
        PROVE  e \notin Scope(selected')
    BY <2>1, <2>3 DEF PreservesInputs, QuietInv, Policy, Present
  <2> QED
    BY <2>1, <2>2, <2>3 DEF QuietInv, Looking, world, Scope
<1>4. ASSUME Unmoved
      PROVE  /\ UNCHANGED <<node, index, text, excludes, changes, capture, snapshot, seen,
                            pinned, selected>>
             /\ Policy' = Policy /\ Ignored(excludes)' = Ignored(excludes)
             /\ Surface' = Surface /\ Protected' = Protected
             /\ Scope(selected)' = Scope(selected) /\ \A e : Present(e)' = Present(e)
  BY <1>4 DEF Unmoved, world, captureVars, Policy, Ignored, Surface, Listed, KindsOf, Names,
              Present, Protected, Scope
<1>5. CASE \E p \in todo : Inspect(p)
  <2>1. PICK p \in todo : Inspect(p)
    BY <1>5
  <2>2. p \in selected /\ (p \notin Dirs => p \in Entries)
    BY <2>1, CleanAssumption DEF Typed, TypeOK
  <2>3. Unmoved /\ pc = "inspect" /\ pc' \in {"inspect", "done"} /\ todo' \subseteq todo
        /\ roots' \subseteq roots \cup {p}
        /\ \A f \in files' : f \in files \/ (f.path = p /\ p \notin Dirs /\ p \notin Protected)
    BY <2>1 DEF Inspect
  <2> QED
    BY <1>4, <2>2, <2>3 DEF QuietInv, Looking
<1>6. CASE Classify
  <2>1. Unmoved /\ pc = "inspect" /\ pc' \in {"next", "done"} /\ todo = {} /\ files' \subseteq files
        /\ UNCHANGED <<todo, roots, item>>
    BY <1>6 DEF Classify, Preview
  <2> QED
    BY <1>4, <2>1 DEF QuietInv, Looking
<1>7. CASE \E f \in files : TakeFile(f)
  <2>1. /\ item' \in files /\ files' \subseteq files /\ pc = "next" /\ pc' = "look"
        /\ UNCHANGED <<node, index, text, excludes, changes, capture, snapshot, seen, pinned,
                       selected, todo, roots>>
    BY <1>7 DEF TakeFile, world, captureVars
  <2> QED
    BY <2>1 DEF QuietInv, Looking, Policy, Ignored, Surface, Listed, KindsOf, Names,
                Present, Protected, Scope
<1>8. CASE Look1 \/ Look2 \/ Look3
  <2>1. Unmoved /\ Looking /\ (Looking' \/ pc' = "done") /\ UNCHANGED <<todo, files, roots, item>>
    BY <1>8 DEF Look1, Look2, Look3, Checked, Looking
  <2>2. pc \notin {"capture", "inputs", "inspect", "done"} 
        /\ pc' \notin {"capture", "inputs", "inspect"}
    BY <2>1 DEF Looking
  <2> QED
    BY <1>4, <2>1, <2>2 DEF QuietInv
<1>9. CASE Unlink \/ RunGit
  <2>1. /\ UNCHANGED <<index, text, excludes, changes, captureVars, selected, pinned, todo,
                       files, roots, item>>
        /\ pc \notin {"capture", "inputs", "inspect", "done"} /\ pc' \in {"next", "done"}
    BY <1>9 DEF Unlink, RunGit
  <2>2. Protected' = Protected /\ Scope(selected)' = Scope(selected)
    BY <2>1 DEF Protected, Scope, captureVars
  <2>3. ASSUME changes = 0
        PROVE  /\ capture = "done" /\ Policy' = Policy /\ Ignored(excludes)' = Ignored(excludes)
               /\ \A e \in Controls \cup {PolicyFile} : Present(e)' => Present(e)
    <3>1. Policy' = Policy /\ capture = "done"
      BY <1>9, <2>1, <2>3, RemovalKeepsInputs DEF QuietInv
    <3>2. \A e \in Entries : node'[e] = node[e] \/ node'[e] = Missing
      BY <1>9 DEF Unlink, RunGit, Typed, TypeOK
    <3>3. Controls \cup {PolicyFile} \subseteq Entries
      BY CleanAssumption, CaptureAssumption
    <3> QED
      BY <2>1, <3>1, <3>2, <3>3 DEF Ignored, Present, Missing
  <2> QED
    BY <2>1, <2>2, <2>3 DEF QuietInv, Looking, captureVars
<1>10. CASE GitNotLaunched \/ NothingLeft
  <2>1. Unmoved /\ pc' = "done" /\ pc = "next" /\ UNCHANGED <<todo, files, roots, item>>
    BY <1>10 DEF GitNotLaunched, NothingLeft
  <2> QED
    BY <1>4, <2>1 DEF QuietInv, Looking
<1>11. CASE UNCHANGED vars
  <2>1. Unmoved /\ UNCHANGED <<pc, todo, files, roots, item>>
    BY <1>11 DEF vars, cleanVars, Unmoved
  <2> QED
    BY <1>4, <2>1 DEF QuietInv, Looking
<1> QED
  BY <1>1, <1>2, <1>3, <1>5, <1>6, <1>7, <1>8, <1>9, <1>10, <1>11 DEF Next, Clean

(***************************************************************************)
(* The invariants so far, together.                                        *)
(***************************************************************************)
Safe == Typed /\ CaptureInv /\ QuietInv

(***************************************************************************)
(* They hold in every state of every cleanup.                              *)
(***************************************************************************)
LEMMA SafeHolds == Spec => []Safe
<1>1. Init => Safe
  <2>1. ASSUME Init PROVE QuietInv
    BY <2>1 DEF Init, CaptureInit, QuietInv, Looking
  <2> QED
    BY <2>1, CaptureStarts, TypesStart DEF Safe
<1>2. Safe /\ [Next]_vars => Safe'
  BY TypedStep, CaptureStep, QuietStep DEF Safe
<1> QED
  BY <1>1, <1>2, PTL DEF Spec

(***************************************************************************)
(* Left alone, `press clean` removes neither a control file of the press   *)
(* nor the ignore file that made its files eligible, for any target and    *)
(* any selection.                                                          *)
(***************************************************************************)
THEOREM CleanKeepsInputs == Spec => InputsSurvive
<1>1. Safe /\ [Next]_vars => [changes' = 0 => InputsKept]_vars
  <2> SUFFICES ASSUME Safe, Next, changes' = 0 PROVE InputsKept
    OBVIOUS
  <2>1. CASE Unlink \/ RunGit
    <3>1. changes = 0
      BY <2>1 DEF Unlink, RunGit
    <3> QED
      BY <2>1, <3>1, RemovalKeepsInputs DEF Safe
  <2>2. CASE Meddle
    BY <2>2 DEF Meddle, OtherProcess, Put, Drop, Track, Ignore, Configure, Change, Safe, Typed,
                TypeOK
  <2>3. ASSUME UNCHANGED node PROVE InputsKept
    BY <2>3 DEF InputsKept, Present
  <2>4. CASE Capture \/ CheckInputs \/ (\E p \in todo : Inspect(p)) \/ Classify
             \/ (\E f \in files : TakeFile(f)) \/ Look1 \/ Look2 \/ Look3
             \/ GitNotLaunched \/ NothingLeft
    BY <2>3, <2>4 DEF Capture, Read, CheckInputs, Inspect, Classify, TakeFile, Look1, Look2, Look3,
                      Checked, GitNotLaunched, NothingLeft, Unmoved, world
  <2> QED
    BY <2>1, <2>2, <2>4 DEF Next, Clean
<1> QED
  BY <1>1, SafeHolds, PTL DEF Spec, InputsSurvive, InputsKept

(***************************************************************************)
(* An entry the cleanup has yet to come to: a path to inspect, below a     *)
(* directory to inspect or to clean, a planned file or the file at work.   *)
(***************************************************************************)
Waiting(e) ==
    \/ e \in todo
    \/ \E d \in (todo \cap Dirs) \cup roots : e \in Within[d]
    \/ \E f \in files : f.path = e
    \/ Looking /\ item.path = e

(***************************************************************************)
(* Every entry of the scope that is there and eligible is waiting, unless  *)
(* the cleanup failed; none is left at exit code 0.                        *)
(***************************************************************************)
CleanedInv ==
    pc \notin {"capture", "inputs"} /\ (pc = "done" => exit = "0") /\ ~show /\ changes = 0 =>
        \A e \in Scope(selected) : Present(e) /\ Eligible(e) => pc # "done" /\ Waiting(e)

(***************************************************************************)
(* Inspection turns a path that waits into a file or a directory that      *)
(* waits, removal takes what is at work away, and the last step is made    *)
(* when at most directories wait, and all that is eligible in them goes.   *)
(***************************************************************************)
LEMMA CleanedStep ==
    ASSUME Safe, FlagInv, CleanedInv, [Next]_vars
    PROVE  CleanedInv'
<1> USE DEF Go, Fail, End
<1> SUFFICES ASSUME pc' \notin {"capture", "inputs"}, pc' = "done" => exit' = "0",
                    ~show', changes' = 0, NEW e \in Scope(selected)', Present(e)', Eligible(e)'
             PROVE  pc' # "done" /\ Waiting(e)'
  BY DEF CleanedInv
<1>1. ~Meddle
  BY DEF Meddle, OtherProcess, Put, Drop, Track, Ignore, Configure, Change, Safe, Typed, TypeOK
<1>2. CASE Capture
  BY <1>2 DEF Capture, Read, Verdict
<1>3. CASE CheckInputs
  <2>1. pc' = "inspect" /\ todo' = selected' /\ Scope(selected)' = Scope(selected')
    BY <1>3 DEF CheckInputs, FlagInv, Scope
  <2> QED
    BY <2>1 DEF Scope, Waiting
<1>4. ASSUME Unmoved, pc # "capture", pc # "inputs", pc # "done"
      PROVE  /\ e \in Scope(selected) /\ Present(e) /\ Eligible(e) /\ Waiting(e)
             /\ UNCHANGED snapshot
  <2>1. /\ e \in Scope(selected) /\ Present(e) /\ Eligible(e) /\ ~show /\ changes = 0
        /\ UNCHANGED snapshot
    BY <1>4 DEF Unmoved, world, captureVars, Scope, Present, Eligible, Ignored, Policy
  <2> QED
    BY <1>4, <2>1 DEF CleanedInv
<1>5. CASE \E p \in todo : Inspect(p)
  <2>1. PICK p \in todo : Inspect(p)
    BY <1>5
  <2>2. /\ e \in Scope(selected) /\ Present(e) /\ Eligible(e) /\ Waiting(e)
        /\ capture = "done" /\ changes = 0
    BY <1>4, <2>1 DEF Inspect, Safe, QuietInv, Unmoved, world
  <2>3. e \notin Protected
    BY <2>2, ProtectedNotEligible DEF Safe
  <2>4. pc' = "inspect"
    BY <2>1 DEF Inspect, FlagInv
  <2>5. files \subseteq files' /\ roots \subseteq roots' /\ todo' = todo \ {p} /\ pc = "inspect"
    BY <2>1 DEF Inspect
  <2>6. CASE p \in Dirs
    <3>1. e \in Within[p] => p \in roots'
      BY <2>1, <2>2, <2>6 DEF Inspect
    <3>2. e \in Entries
      BY <2>2, CleanAssumption DEF Scope
    <3>3. e # p
      BY <2>6, <3>2, CleanAssumption
    <3> QED
      BY <2>2, <2>4, <2>5, <3>1, <3>3 DEF Waiting, Looking
  <2>7. CASE p \notin Dirs
    <3>1. e = p => \E f \in files' : f.path = e
      <4> SUFFICES ASSUME e = p PROVE \E f \in files' : f.path = e
        OBVIOUS
      <4>1. Regular(p)
        BY <2>1, <2>2, <2>3, <2>4, <2>7 DEF Inspect, FlagInv, Protected, Names
      <4>2. [path |-> p, node |-> node[p]] \in files'
        BY <2>1, <2>3, <2>7, <4>1 DEF Inspect
      <4>3. [path |-> p, node |-> node[p]].path = e
        OBVIOUS
      <4> QED
        BY <4>2, <4>3
    <3> QED
      BY <2>2, <2>4, <2>5, <2>7, <3>1 DEF Waiting, Looking
  <2> QED
    BY <2>6, <2>7
<1>6. CASE Classify
  <2>1. Unmoved /\ pc = "inspect" /\ ~show
    BY <1>6 DEF Classify, Unmoved
  <2>2. /\ e \in Scope(selected) /\ Present(e) /\ Eligible(e) /\ Waiting(e)
    BY <1>4, <2>1
  <2>3. /\ pc' = "next" /\ todo = {} /\ UNCHANGED roots
        /\ files' = {f \in files : ~Covered(f) /\ Eligible(f.path)}
    BY <1>6, <2>1 DEF Classify
  <2> QED
    BY <2>1, <2>2, <2>3 DEF Waiting, Covered, Looking
<1>7. CASE \E f \in files : TakeFile(f)
  <2>1. PICK f \in files : TakeFile(f)
    BY <1>7
  <2>2. Scope(selected)' = Scope(selected) /\ Present(e)' = Present(e) /\ Eligible(e)' = Eligible(e)
    BY <2>1 DEF TakeFile, world, Scope, Present, Eligible, Ignored, Policy
  <2>3. Waiting(e)
    BY <2>1, <2>2 DEF TakeFile, world, CleanedInv
  <2> QED
    BY <2>1, <2>3 DEF TakeFile, Waiting, Looking
<1>8. CASE Look1 \/ Look2 \/ Look3
  <2>1. Unmoved /\ Looking /\ (Looking' \/ pc' = "done") /\ UNCHANGED <<todo, files, roots, item>>
    BY <1>8 DEF Look1, Look2, Look3, Checked, Looking
  <2>2. pc' # "done"
    BY <1>8 DEF Look1, Look2, Look3, Checked
  <2> QED
    BY <1>4, <2>1, <2>2 DEF Waiting, Looking
<1>9. CASE Unlink
  <2>1. /\ UNCHANGED <<index, pinned, selected, show, changes, todo, files, roots, item>>
        /\ pc = "unlink" /\ changes = 0 /\ pc' = "next"
        /\ Present(item.path) /\ node' = [node EXCEPT ![item.path] = Missing]
    BY <1>9 DEF Unlink
  <2>2. Policy' = Policy
    BY <1>9, <2>1, RemovalKeepsInputs DEF Safe
  <2>3. e \in Scope(selected) /\ Eligible(e) /\ e \in Entries
    BY <2>1, <2>2, CleanAssumption DEF Scope, Eligible, Ignored
  <2>4. Present(e) /\ e # item.path
    BY <2>1, <2>3 DEF Present, Missing, Safe, Typed, TypeOK
  <2>5. Waiting(e)
    BY <2>1, <2>3, <2>4 DEF CleanedInv
  <2> QED
    BY <2>1, <2>4, <2>5 DEF Waiting
<1>10. CASE RunGit
  <2>1. PICK gone \in SUBSET Removable, code \in {"0", "1"} :
            /\ code = "0" => gone = Removable
            /\ node' = [x \in Entries |-> IF x \in gone THEN Missing ELSE node[x]]
            /\ pc' = "done" /\ exit' = code
    BY <1>10 DEF RunGit
  <2>2. gone = Removable
    BY <2>1
  <2>3. UNCHANGED <<index, pinned, selected, show, changes, todo, files, roots>> /\ changes = 0
        /\ pc = "next" /\ files = {}
    BY <1>10 DEF RunGit
  <2>4. Policy' = Policy
    BY <1>10, <2>3, RemovalKeepsInputs DEF Safe
  <2>5. e \in Scope(selected) /\ Eligible(e) /\ e \in Entries
    BY <2>3, <2>4, CleanAssumption DEF Scope, Eligible, Ignored
  <2>6. Present(e) /\ e \notin gone
    BY <2>1, <2>5 DEF Present, Missing
  <2>7. Waiting(e)
    BY <2>3, <2>5, <2>6 DEF CleanedInv
  <2>8. \E d \in roots : e \in Within[d]
    BY <2>3, <2>7 DEF Waiting, Looking, Safe, QuietInv
  <2> QED
    BY <2>2, <2>5, <2>6, <2>8 DEF Removable
<1>11. CASE GitNotLaunched \/ NothingLeft
  <2>1. Unmoved /\ pc = "next" /\ files = {} /\ roots = {} /\ todo = {}
    BY <1>11 DEF GitNotLaunched, NothingLeft, Safe, QuietInv
  <2>2. Waiting(e)
    BY <1>4, <2>1
  <2> QED
    BY <2>1, <2>2 DEF Waiting, Looking
<1>12. CASE UNCHANGED vars
  <2>1. Unmoved /\ UNCHANGED <<pc, exit, todo, files, roots, item>>
    BY <1>12 DEF vars, cleanVars, Unmoved
  <2>2. e \in Scope(selected) /\ Present(e) /\ Eligible(e) /\ ~show /\ changes = 0
    BY <2>1 DEF Unmoved, world, captureVars, Scope, Present, Eligible, Ignored, Policy
  <2>3. pc # "done" /\ Waiting(e)
    BY <2>1, <2>2 DEF CleanedInv
  <2> QED
    BY <2>1, <2>3 DEF Waiting, Looking
<1> QED
  BY <1>1, <1>2, <1>3, <1>5, <1>6, <1>7, <1>8, <1>9, <1>10, <1>11, <1>12 DEF Next, Clean

(***************************************************************************)
(* Left alone, `press clean` with exit code 0 leaves nothing ignored in    *)
(* its scope, for any target and any selection.                            *)
(***************************************************************************)
THEOREM CleanedOnExitZero == Spec => []ExitZeroCleans
<1>1. Init => CleanedInv /\ FlagInv
  BY DEF Init, CleanedInv, FlagInv, ExitTellsAttempts
<1>2. Safe /\ FlagInv /\ CleanedInv /\ [Next]_vars => FlagInv' /\ CleanedInv'
  BY FlagStep, CleanedStep
<1>3. FlagInv /\ Safe /\ CleanedInv => ExitZeroCleans
  BY DEF CleanedInv, FlagInv, ExitZeroCleans
<1> QED
  BY <1>1, <1>2, <1>3, SafeHolds, PTL DEF Spec
=============================================================================
