-------------------------- MODULE RenameRunProofs ---------------------------
(***************************************************************************)
(* What renaming preserves, for any inventory, any rows and any number of  *)
(* acts of another process.                                                *)
(***************************************************************************)
EXTENDS RenameRun, FiniteSetTheorems, SequenceTheorems, TLAPS

-----------------------------------------------------------------------------
(* Induction and recursion, stated for sets and functions. *)

LEMMA LeastMember ==
    ASSUME NEW S \in SUBSET Nat, S # {}
    PROVE  \E m \in S : \A k \in S : m <= k
<1> DEFINE R == OpToRel(<, Nat)
<1>1. IsWellFoundedOn(R, Nat)
  BY NatLessThanWellFounded
<1>2. \A i, j \in Nat : <<i, j>> \in R <=> i < j
  BY DEF OpToRel
<1> HIDE DEF R
<1>3. PICK m \in S : \A k \in S : ~(<<k, m>> \in R)
  BY <1>1, WFMin
<1>4. \A k \in S : ~(k < m)
  BY <1>2, <1>3
<1> QED BY <1>4

LEMMA Inductive ==
    ASSUME NEW S \in SUBSET Nat, 0 \in S, \A n \in S : n + 1 \in S
    PROVE  S = Nat
<1>1. SUFFICES ASSUME Nat \ S # {} PROVE FALSE
  OBVIOUS
<1>2. PICK m \in Nat \ S : \A k \in Nat \ S : m <= k
  BY <1>1, LeastMember
<1>3. m # 0 /\ m - 1 \in Nat
  BY <1>2
<1> QED BY <1>2, <1>3

LEMMA Upwards ==
    ASSUME NEW m \in Nat, NEW n \in Nat, NEW S, m \in S, \A k \in m..(n - 1) : k \in S => k + 1 \in S
    PROVE  \A k \in m..n : k \in S
<1> DEFINE T == {k \in Nat : m <= k /\ k <= n => k \in S}
<1>1. T \in SUBSET Nat /\ 0 \in T
  OBVIOUS
<1>2. ASSUME NEW k \in T PROVE k + 1 \in T
  <2>1. CASE m <= k /\ k + 1 <= n
    BY <2>1
  <2>2. CASE k + 1 = m \/ ~(m <= k + 1 /\ k + 1 <= n)
    BY <2>2
  <2> QED BY <2>1, <2>2
<1>3. T = Nat
  <2> HIDE DEF T
  <2> QED BY <1>1, <1>2, Inductive
<1> QED BY <1>3

LEMMA Downwards ==
    ASSUME NEW n \in Nat, NEW S, n \in S, \A k \in 1..n : k \in S => k - 1 \in S
    PROVE  \A k \in 0..n : k \in S
<1> DEFINE T == {k \in 0..n : n - k \in S}
<1>1. 0 \in T
  OBVIOUS
<1>2. ASSUME NEW k \in 0..(n - 1), k \in T PROVE k + 1 \in T
  <2>1. n - k \in 1..n /\ n - k \in S
    BY <1>2
  <2>2. (n - k) - 1 \in S /\ (n - k) - 1 = n - (k + 1)
    BY <2>1
  <2> QED BY <2>2
<1>3. \A k \in 0..n : k \in T
  <2> HIDE DEF T
  <2> QED BY <1>1, <1>2, Upwards
<1>4. ASSUME NEW k \in 0..n PROVE k \in S
  <2>1. n - k \in 0..n /\ n - (n - k) = k
    OBVIOUS
  <2> QED BY <1>3, <2>1
<1> QED BY <1>4

(***************************************************************************)
(* h starts at v and g makes each value from its index and the one before. *)
(***************************************************************************)
Follows(h, v, g, n) == h[0] = v /\ \A k \in 1..n : h[k] = g[<<k, h[k - 1]>>]

LEMMA Recursion ==
    ASSUME NEW V, NEW n \in Nat, NEW v \in V, NEW g \in [(1..n) \X V -> V]
    PROVE  \E h \in [0..n -> V] : Follows(h, v, g, n)
<1> DEFINE S == {m \in Nat : m <= n => \E h \in [0..m -> V] : Follows(h, v, g, m)}
<1>1. 0 \in S
  <2>1. [k \in 0..0 |-> v] \in [0..0 -> V] /\ Follows([k \in 0..0 |-> v], v, g, 0)
    BY DEF Follows
  <2> QED BY <2>1
<1>2. ASSUME NEW m \in S PROVE m + 1 \in S
  <2> SUFFICES ASSUME m + 1 <= n PROVE \E f \in [0..(m + 1) -> V] : Follows(f, v, g, m + 1)
    OBVIOUS
  <2>1. PICK h \in [0..m -> V] : Follows(h, v, g, m)
    OBVIOUS
  <2> DEFINE last == g[<<m + 1, h[m]>>]
             f == [k \in 0..(m + 1) |-> IF k <= m THEN h[k] ELSE last]
  <2>2. m \in Nat /\ h[m] \in V /\ last \in V
    OBVIOUS
  <2>3. f \in [0..(m + 1) -> V]
    BY <2>2
  <2>4. f[0] = v
    BY <2>1, <2>2 DEF Follows
  <2>5. ASSUME NEW k \in 1..(m + 1) PROVE f[k] = g[<<k, f[k - 1]>>]
    <3>1. CASE k <= m
      BY <2>1, <2>2, <3>1 DEF Follows
    <3>2. CASE k = m + 1
      <4>1. f[k] = last /\ k - 1 = m /\ f[m] = h[m]
        BY <2>2, <3>2
      <4> HIDE DEF f
      <4> QED BY <3>2, <4>1
    <3> QED BY <2>2, <3>1, <3>2
  <2> HIDE DEF f
  <2> QED BY <2>3, <2>4, <2>5 DEF Follows
<1>3. S \in SUBSET Nat
  OBVIOUS
<1>4. S = Nat
  <2> HIDE DEF S
  <2> QED BY <1>1, <1>2, <1>3, Inductive
<1> QED BY <1>4

-----------------------------------------------------------------------------
(* Paths and moves. *)

LEMMA PathShape ==
    /\ \A p \in Paths : Len(p) \in 1..MaxDepth /\ p \in [1..Len(p) -> Names]
    /\ \A d \in 1..MaxDepth : \A p \in [1..d -> Names] : p \in Paths /\ Len(p) = d
BY NamesAssumption DEF Paths

LEMMA PathEqual ==
    ASSUME NEW p \in Paths, NEW q \in Paths, Len(p) = Len(q), \A i \in 1..Len(p) : p[i] = q[i]
    PROVE  p = q
BY PathShape

(***************************************************************************)
(* The moves that a step makes and undoes: prefixes of one length that     *)
(* differ in their last name.                                              *)
(***************************************************************************)
IsMove(old, new) ==
    /\ old \in Paths /\ new \in Paths /\ Len(old) = Len(new) /\ old # new
    /\ \A i \in 1..(Len(old) - 1) : old[i] = new[i]

LEMMA MoveShape ==
    ASSUME NEW old, NEW new
    PROVE  /\ [old |-> old, new |-> new] \in Moves <=> IsMove(old, new)
           /\ IsMove(old, new) => IsMove(new, old)
BY PathShape DEF Moves, IsMove

LEMMA PrefixTyped ==
    ASSUME NEW p \in Paths, NEW d \in 0..Len(p)
    PROVE  /\ SubSeq(p, 1, d) \in [1..d -> Names] /\ SubSeq(p, 1, d) \in Seq(Names)
           /\ Len(SubSeq(p, 1, d)) = d
           /\ \A i \in 1..d : SubSeq(p, 1, d)[i] = p[i]
           /\ d # 0 => SubSeq(p, 1, d) \in Paths /\ Under(p, SubSeq(p, 1, d))
<1> DEFINE q == SubSeq(p, 1, d)
<1>1. d \in Nat /\ Len(p) \in 1..MaxDepth /\ \A i \in 1..d : p[i] \in Names
  BY PathShape, NamesAssumption
<1>2. q \in Seq(Names) /\ Len(q) = d /\ \A i \in 1..d : q[i] = p[i]
  <2>1. /\ q \in Seq(Names) /\ Len(q) = IF 1 <= d THEN d - 1 + 1 ELSE 0
        /\ \A i \in 1..(d - 1 + 1) : q[i] = p[1 + i - 1]
    BY <1>1, SubSeqProperties
  <2> HIDE DEF q
  <2> QED BY <1>1, <2>1
<1> HIDE DEF q
<1>3. q \in [1..d -> Names]
  BY <1>2, LenProperties
<1>4. d # 0 => q \in Paths /\ Under(p, q)
  BY <1>1, <1>2, <1>3, PathShape, NamesAssumption DEF Under
<1> QED BY <1>2, <1>3, <1>4 DEF q

LEMMA UnderSelf == ASSUME NEW p \in Paths PROVE Under(p, p)
BY PathShape DEF Under

LEMMA UnderTransitive ==
    ASSUME NEW p \in Paths, NEW q \in Paths, NEW r \in Paths, Under(p, q), Under(q, r)
    PROVE  Under(p, r)
BY PathShape DEF Under

LEMMA UnderAntisymmetric ==
    ASSUME NEW p \in Paths, NEW q \in Paths, Under(p, q), Under(q, p)
    PROVE  p = q
BY PathShape, PathEqual DEF Under

(***************************************************************************)
(* Two prefixes of one path lie one under the other.                       *)
(***************************************************************************)
LEMMA PrefixesNest ==
    ASSUME NEW p \in Paths, NEW q \in Paths, NEW r \in Paths, Under(p, q), Under(p, r)
    PROVE  IF Len(q) <= Len(r) THEN Under(r, q) ELSE Under(q, r)
BY PathShape DEF Under

LEMMA CarryShape ==
    ASSUME NEW p \in Paths, NEW old, NEW new, IsMove(old, new)
    PROVE  /\ Carry(p, old, new) \in Paths
           /\ Len(Carry(p, old, new)) = Len(p)
           /\ Under(p, old) => Under(Carry(p, old, new), new)
           /\ Under(p, old) => \A i \in 1..Len(p) :
                Carry(p, old, new)[i] = IF i <= Len(old) THEN new[i] ELSE p[i]
           /\ ~Under(p, old) => Carry(p, old, new) = p
<1>1. CASE Under(p, old)
  <2> DEFINE q == [i \in 1..Len(p) |-> IF i <= Len(old) THEN new[i] ELSE p[i]]
  <2>1. Carry(p, old, new) = q
    BY <1>1 DEF Carry
  <2>2. q \in [1..Len(p) -> Names]
    BY <1>1, PathShape DEF IsMove
  <2>3. q \in Paths /\ Len(q) = Len(p)
    BY <2>2, PathShape
  <2>4. Under(q, new)
    BY <1>1, <2>3, PathShape DEF IsMove, Under
  <2> QED BY <1>1, <2>1, <2>3, <2>4
<1>2. CASE ~Under(p, old)
  BY <1>2 DEF Carry
<1> QED BY <1>1, <1>2

(***************************************************************************)
(* A move is undone unless something lay at its destination.               *)
(***************************************************************************)
LEMMA CarryBack ==
    ASSUME NEW p \in Paths, NEW old, NEW new, IsMove(old, new), Under(p, old) \/ ~Under(p, new)
    PROVE  Carry(Carry(p, old, new), new, old) = p
<1> DEFINE q == Carry(p, old, new)
<1>1. CASE Under(p, old)
  <2>1. q \in Paths /\ Len(q) = Len(p) /\ Under(q, new)
    BY <1>1, CarryShape
  <2>2. IsMove(new, old)
    BY MoveShape
  <2>3. \A i \in 1..Len(q) : q[i] = IF i <= Len(old) THEN new[i] ELSE p[i]
    BY <1>1, CarryShape
  <2>4. /\ Carry(q, new, old) \in Paths
        /\ Len(Carry(q, new, old)) = Len(q)
        /\ \A i \in 1..Len(q) : Carry(q, new, old)[i] = IF i <= Len(new) THEN old[i] ELSE q[i]
    <3> HIDE DEF q
    <3> QED BY <2>1, <2>2, CarryShape
  <2>5. \A i \in 1..Len(p) : Carry(q, new, old)[i] = p[i]
    <3> HIDE DEF q
    <3> QED BY <1>1, <2>1, <2>3, <2>4, PathShape DEF IsMove, Under
  <2> HIDE DEF q
  <2> QED BY <2>1, <2>4, <2>5, PathEqual DEF q
<1>2. CASE ~Under(p, old)
  BY <1>2, CarryShape DEF Carry
<1> QED BY <1>1, <1>2

-----------------------------------------------------------------------------
(* A path along a list of moves, and back. *)

MoveList(seq) ==
    /\ Len(seq) \in Nat /\ DOMAIN seq = 1..Len(seq)
    /\ \A k \in 1..Len(seq) : IsMove(seq[k].old, seq[k].new)

AlongStep(seq, on, k, q) == IF k \in on THEN Carry(q, seq[k].old, seq[k].new) ELSE q
BackStep(seq, on, k, q) == IF k \in on THEN Carry(q, seq[k].new, seq[k].old) ELSE q

LEMMA StepsTyped ==
    ASSUME NEW seq, MoveList(seq), NEW on, NEW k \in 1..Len(seq), NEW q \in Paths
    PROVE  /\ AlongStep(seq, on, k, q) \in Paths /\ BackStep(seq, on, k, q) \in Paths
           /\ Len(AlongStep(seq, on, k, q)) = Len(q)
BY CarryShape, MoveShape DEF AlongStep, BackStep, MoveList

LEMMA AlongSteps ==
    ASSUME NEW seq, MoveList(seq), NEW on, NEW p \in Paths
    PROVE  /\ Along(seq, on, p) \in [0..Len(seq) -> Paths]
           /\ Along(seq, on, p)[0] = p
           /\ \A k \in 1..Len(seq) :
                Along(seq, on, p)[k] = AlongStep(seq, on, k, Along(seq, on, p)[k - 1])
<1> DEFINE n == Len(seq)
           g == [a \in (1..n) \X Paths |-> AlongStep(seq, on, a[1], a[2])]
           E(f) == f = [k \in 0..n |-> IF k = 0 THEN p ELSE AlongStep(seq, on, k, f[k - 1])]
           f == Along(seq, on, p)
<1>1. n \in Nat /\ g \in [(1..n) \X Paths -> Paths]
  BY StepsTyped DEF MoveList
<1>2. PICK h \in [0..n -> Paths] : Follows(h, p, g, n)
  <2> HIDE DEF g, n
  <2> QED BY <1>1, Recursion
<1>3. E(h)
  <2>1. h[0] = p /\ \A k \in 1..n : h[k] = g[<<k, h[k - 1]>>]
    BY <1>2 DEF Follows
  <2>2. ASSUME NEW k \in 1..n PROVE h[k] = AlongStep(seq, on, k, h[k - 1])
    <3>1. h[k - 1] \in Paths
      BY <1>1
    <3> QED BY <2>1, <3>1
  <2> HIDE DEF g, n
  <2> QED BY <1>1, <2>1, <2>2
<1>4. f = CHOOSE x : E(x)
  BY Zenon DEF Along, AlongStep
<1>5. E(f)
  <2> HIDE DEF E, f
  <2> QED BY <1>3, <1>4
<1> HIDE DEF n, f
<1>6. f[0] = p /\ \A k \in 1..n : f[k] = AlongStep(seq, on, k, f[k - 1])
  BY <1>1, <1>5
<1>7. \A k \in 0..n : f[k] \in Paths
  <2> DEFINE S == {k \in 0..n : f[k] \in Paths}
  <2>1. 0 \in S
    BY <1>1, <1>6
  <2>2. ASSUME NEW k \in 0..(n - 1), k \in S PROVE k + 1 \in S
    <3>1. k + 1 \in 1..n /\ (k + 1) - 1 = k
      BY <1>1
    <3>2. f[k + 1] = AlongStep(seq, on, k + 1, f[k])
      BY <1>6, <3>1
    <3> QED BY <1>1, <2>2, <3>1, <3>2, StepsTyped DEF n
  <2>3. \A k \in 0..n : k \in S
    <3> HIDE DEF S
    <3> QED BY <1>1, <2>1, <2>2, Upwards
  <2> QED BY <2>3
<1> QED BY <1>1, <1>5, <1>6, <1>7 DEF n, f

LEMMA BackSteps ==
    ASSUME NEW seq, MoveList(seq), NEW on, NEW p \in Paths
    PROVE  /\ Back(seq, on, p) \in [0..Len(seq) -> Paths]
           /\ Back(seq, on, p)[Len(seq)] = p
           /\ \A k \in 1..Len(seq) :
                Back(seq, on, p)[k - 1] = BackStep(seq, on, k, Back(seq, on, p)[k])
<1> DEFINE n == Len(seq)
           g == [a \in (1..n) \X Paths |-> BackStep(seq, on, n + 1 - a[1], a[2])]
           E(f) == f = [k \in 0..n |-> IF k = n THEN p ELSE BackStep(seq, on, k + 1, f[k + 1])]
           f == Back(seq, on, p)
<1>1. n \in Nat /\ g \in [(1..n) \X Paths -> Paths]
  <2>1. n \in Nat
    BY DEF MoveList
  <2>2. ASSUME NEW k \in 1..n, NEW q \in Paths PROVE BackStep(seq, on, n + 1 - k, q) \in Paths
    <3>1. n + 1 - k \in 1..n
      BY <2>1
    <3> QED BY <3>1, StepsTyped
  <2> HIDE DEF n
  <2> QED BY <2>1, <2>2
<1>2. PICK h \in [0..n -> Paths] : Follows(h, p, g, n)
  <2> HIDE DEF g, n
  <2> QED BY <1>1, Recursion
<1>3. \E x : E(x)
  <2> DEFINE x == [k \in 0..n |-> h[n - k]]
  <2>1. h[0] = p /\ \A k \in 1..n : h[k] = g[<<k, h[k - 1]>>]
    BY <1>2 DEF Follows
  <2>2. ASSUME NEW k \in 1..n PROVE h[k] = BackStep(seq, on, n + 1 - k, h[k - 1])
    <3>1. h[k - 1] \in Paths
      BY <1>1
    <3> QED BY <2>1, <3>1
  <2> HIDE DEF g, n
  <2>3. ASSUME NEW k \in 0..n, k # n PROVE h[n - k] = BackStep(seq, on, k + 1, x[k + 1])
    <3>1. n - k \in 1..n /\ n + 1 - (n - k) = k + 1 /\ (n - k) - 1 = n - (k + 1) /\ k + 1 \in 0..n
      BY <1>1, <2>3
    <3>2. x[k + 1] = h[n - (k + 1)]
      BY <3>1
    <3> HIDE DEF x
    <3> QED BY <2>2, <3>1, <3>2
  <2>4. h[n - n] = p
    BY <1>1, <2>1
  <2>5. x = [k \in 0..n |-> IF k = n THEN p ELSE BackStep(seq, on, k + 1, x[k + 1])]
    <3>1. \A k \in 0..n : h[n - k] = IF k = n THEN p ELSE BackStep(seq, on, k + 1, x[k + 1])
      BY <2>3, <2>4
    <3> QED BY <3>1
  <2> QED BY <2>5
<1>4. f = CHOOSE x : E(x)
  BY Zenon DEF Back, BackStep
<1>5. E(f)
  <2> HIDE DEF E, f
  <2> QED BY <1>3, <1>4
<1> HIDE DEF n, f
<1>6. f[n] = p /\ \A k \in 1..n : f[k - 1] = BackStep(seq, on, k, f[k])
  <2>1. f[n] = p
    BY <1>1, <1>5
  <2>2. ASSUME NEW k \in 1..n PROVE f[k - 1] = BackStep(seq, on, k, f[k])
    <3>1. k - 1 \in 0..n /\ k - 1 # n /\ (k - 1) + 1 = k
      BY <1>1
    <3>2. f[k - 1] = BackStep(seq, on, (k - 1) + 1, f[(k - 1) + 1])
      BY <1>5, <3>1
    <3> QED BY <3>1, <3>2
  <2> QED BY <2>1, <2>2
<1>7. \A k \in 0..n : f[k] \in Paths
  <2> DEFINE S == {k \in 0..n : f[k] \in Paths}
  <2>1. n \in S
    BY <1>1, <1>6
  <2>2. ASSUME NEW k \in 1..n, k \in S PROVE k - 1 \in S
    <3>1. f[k - 1] = BackStep(seq, on, k, f[k])
      BY <1>6
    <3> QED BY <1>1, <2>2, <3>1, StepsTyped DEF n
  <2>3. \A k \in 0..n : k \in S
    <3> HIDE DEF S
    <3> QED BY <1>1, <2>1, <2>2, Downwards
  <2> QED BY <2>3
<1> QED BY <1>1, <1>5, <1>6, <1>7 DEF n, f

(***************************************************************************)
(* Only the moves made so far, and only their prefixes, matter.            *)
(***************************************************************************)
SameMoves(s, t, n) == \A k \in 1..n : s[k].old = t[k].old /\ s[k].new = t[k].new
SameOn(on, off, m, n) == \A k \in m..n : k \in on <=> k \in off

LEMMA AlongAgree ==
    ASSUME NEW s, MoveList(s), NEW t, MoveList(t), NEW on, NEW off, NEW p \in Paths,
           NEW n \in Nat, n <= Len(s), n <= Len(t), SameMoves(s, t, n), SameOn(on, off, 1, n)
    PROVE  \A k \in 0..n : Along(s, on, p)[k] = Along(t, off, p)[k]
<1> DEFINE S == {k \in 0..n : Along(s, on, p)[k] = Along(t, off, p)[k]}
<1>1. 0 \in S
  BY AlongSteps
<1>2. ASSUME NEW k \in 0..(n - 1), k \in S PROVE k + 1 \in S
  <2>1. k + 1 \in 1..n /\ k + 1 \in 1..Len(s) /\ k + 1 \in 1..Len(t) /\ (k + 1) - 1 = k
    BY DEF MoveList
  <2>2. /\ Along(s, on, p)[k + 1] = AlongStep(s, on, k + 1, Along(s, on, p)[k])
        /\ Along(t, off, p)[k + 1] = AlongStep(t, off, k + 1, Along(t, off, p)[k])
    BY <2>1, AlongSteps
  <2> QED BY <1>2, <2>1, <2>2 DEF SameMoves, SameOn, AlongStep
<1>3. \A k \in 0..n : k \in S
  <2> HIDE DEF S
  <2> QED BY <1>1, <1>2, Upwards
<1> QED BY <1>3

(***************************************************************************)
(* A move that is not made changes nothing.                                *)
(***************************************************************************)
LEMMA AlongIdle ==
    ASSUME NEW seq, MoveList(seq), NEW on, NEW p \in Paths,
           NEW m \in 0..Len(seq), \A k \in (m + 1)..Len(seq) : k \notin on
    PROVE  \A k \in m..Len(seq) : Along(seq, on, p)[k] = Along(seq, on, p)[m]
<1> DEFINE n == Len(seq)
           f == Along(seq, on, p)
           S == {k \in m..n : f[k] = f[m]}
<1>0. n \in Nat /\ m \in Nat /\ m <= n
  BY DEF MoveList
<1>1. m \in S
  BY <1>0
<1>2. ASSUME NEW k \in m..(n - 1), k \in S PROVE k + 1 \in S
  <2>1. k + 1 \in 1..n /\ k + 1 \in (m + 1)..n /\ (k + 1) - 1 = k /\ k + 1 \in m..n
    BY <1>0
  <2>2. f[k + 1] = AlongStep(seq, on, k + 1, f[k])
    BY <2>1, AlongSteps
  <2> QED BY <1>2, <2>1, <2>2 DEF AlongStep
<1>3. \A k \in m..n : k \in S
  <2> HIDE DEF S, n
  <2> QED BY <1>0, <1>1, <1>2, Upwards
<1> QED BY <1>3

LEMMA BackIdle ==
    ASSUME NEW seq, MoveList(seq), NEW on, NEW p \in Paths,
           NEW m \in 0..Len(seq), \A k \in (m + 1)..Len(seq) : k \notin on
    PROVE  Back(seq, on, p)[m] = p
<1> DEFINE n == Len(seq)
           f == Back(seq, on, p)
           S == {k \in 0..n : k >= m => f[k] = p}
<1>0. n \in Nat /\ m \in Nat /\ m <= n
  BY DEF MoveList
<1>1. n \in S
  BY <1>0, BackSteps
<1>2. ASSUME NEW k \in 1..n, k \in S PROVE k - 1 \in S
  <2> SUFFICES ASSUME k - 1 >= m PROVE f[k - 1] = p
    BY <1>0
  <2>1. k \in (m + 1)..n /\ f[k] = p
    BY <1>0, <1>2
  <2>2. f[k - 1] = BackStep(seq, on, k, f[k])
    BY BackSteps
  <2> QED BY <2>1, <2>2 DEF BackStep
<1>3. \A k \in 0..n : k \in S
  <2> HIDE DEF S, n
  <2> QED BY <1>0, <1>1, <1>2, Downwards
<1> QED BY <1>3

LEMMA BackAgree ==
    ASSUME NEW s, MoveList(s), NEW t, MoveList(t), NEW on, NEW off, NEW p \in Paths, NEW q \in Paths,
           NEW n \in Nat, n <= Len(s), n <= Len(t), SameMoves(s, t, n), SameOn(on, off, 1, n),
           Back(s, on, p)[n] = Back(t, off, q)[n]
    PROVE  \A k \in 0..n : Back(s, on, p)[k] = Back(t, off, q)[k]
<1> DEFINE S == {k \in 0..n : Back(s, on, p)[k] = Back(t, off, q)[k]}
<1>1. n \in S
  OBVIOUS
<1>2. ASSUME NEW k \in 1..n, k \in S PROVE k - 1 \in S
  <2>1. k \in 1..Len(s) /\ k \in 1..Len(t)
    BY DEF MoveList
  <2>2. /\ Back(s, on, p)[k - 1] = BackStep(s, on, k, Back(s, on, p)[k])
        /\ Back(t, off, q)[k - 1] = BackStep(t, off, k, Back(t, off, q)[k])
    BY <2>1, BackSteps
  <2> QED BY <1>2, <2>1, <2>2 DEF SameMoves, SameOn, BackStep
<1>3. \A k \in 0..n : k \in S
  <2> HIDE DEF S
  <2> QED BY <1>1, <1>2, Downwards
<1> QED BY <1>3

-----------------------------------------------------------------------------
(* Rewriting a path, and the move of one pass. *)

LEMMA BecomingSteps ==
    ASSUME NEW rs \in Seq(Rows), NEW p \in Paths, NEW i \in 1..Len(p)
    PROVE  /\ Becoming(rs, p, i)[0] = p[i]
           /\ \A k \in 1..Len(rs) :
                Becoming(rs, p, i)[k] = Rewrite(rs[k], p, Becoming(rs, p, i)[k - 1])
<1> DEFINE n == Len(rs)
           g == [a \in (1..n) \X Names |-> Rewrite(rs[a[1]], p, a[2])]
           E(f) == f = [k \in 0..n |-> IF k = 0 THEN p[i] ELSE Rewrite(rs[k], p, f[k - 1])]
           f == Becoming(rs, p, i)
<1>1. n \in Nat /\ p[i] \in Names
  BY PathShape
<1>2. \A k \in 1..n, x \in Names : Rewrite(rs[k], p, x) \in Names
  <2>1. \A k \in 1..n : rs[k] \in Rows
    OBVIOUS
  <2> QED BY <2>1 DEF Rewrite, Rows
<1>3. g \in [(1..n) \X Names -> Names]
  BY <1>2
<1>4. PICK h \in [0..n -> Names] : Follows(h, p[i], g, n)
  <2> HIDE DEF g, n
  <2> QED BY <1>1, <1>3, Recursion
<1>5. E(h)
  <2>1. h[0] = p[i] /\ \A k \in 1..n : h[k] = g[<<k, h[k - 1]>>]
    BY <1>4 DEF Follows
  <2>2. ASSUME NEW k \in 1..n PROVE h[k] = Rewrite(rs[k], p, h[k - 1])
    <3>1. h[k - 1] \in Names
      BY <1>1
    <3> QED BY <2>1, <3>1
  <2> HIDE DEF g, n
  <2> QED BY <1>1, <2>1, <2>2
<1>6. f = CHOOSE x : E(x)
  BY Zenon DEF Becoming
<1>7. E(f)
  <2> HIDE DEF E, f
  <2> QED BY <1>5, <1>6
<1> HIDE DEF n, f
<1>8. f[0] = p[i] /\ \A k \in 1..n : f[k] = Rewrite(rs[k], p, f[k - 1])
  BY <1>1, <1>7
<1> QED BY <1>8 DEF n, f

LEMMA BecomingNames ==
    ASSUME NEW rs \in Seq(Rows), NEW p \in Paths, NEW i \in 1..Len(p)
    PROVE  \A k \in 0..Len(rs) : Becoming(rs, p, i)[k] \in Names
<1> DEFINE n == Len(rs)
           f == Becoming(rs, p, i)
           S == {k \in 0..n : f[k] \in Names}
<1>1. n \in Nat /\ p[i] \in Names
  BY PathShape
<1>2. \A k \in 1..n, x \in Names : Rewrite(rs[k], p, x) \in Names
  <2>1. \A k \in 1..n : rs[k] \in Rows
    OBVIOUS
  <2> QED BY <2>1 DEF Rewrite, Rows
<1>3. f[0] = p[i] /\ \A k \in 1..n : f[k] = Rewrite(rs[k], p, f[k - 1])
  BY BecomingSteps
<1> HIDE DEF n, f
<1>4. 0 \in S
  BY <1>1, <1>3
<1>5. ASSUME NEW k \in 0..(n - 1), k \in S PROVE k + 1 \in S
  <2>1. k + 1 \in 1..n /\ (k + 1) - 1 = k
    BY <1>1
  <2>2. f[k + 1] = Rewrite(rs[k + 1], p, f[k])
    BY <1>3, <2>1
  <2> QED BY <1>1, <1>2, <1>5, <2>1, <2>2
<1>6. \A k \in 0..n : k \in S
  <2> HIDE DEF S
  <2> QED BY <1>1, <1>4, <1>5, Upwards
<1> QED BY <1>6 DEF n, f

LEMMA RewrittenNameTyped ==
    ASSUME NEW rs \in Seq(Rows), NEW p \in Paths, NEW i \in 1..Len(p)
    PROVE  RewrittenName(rs, p, i) \in Names
<1>1. Len(rs) \in 0..Len(rs) /\ p[i] \in Names
  BY PathShape
<1> QED BY <1>1, BecomingNames DEF RewrittenName

LEMMA MoveOfShape ==
    ASSUME NEW rs \in Seq(Rows), NEW p \in Paths, Changed(rs, p) # {}
    PROVE  /\ MoveOf(rs, p) \in Moves
           /\ IsMove(MoveOf(rs, p).old, MoveOf(rs, p).new)
           /\ Under(p, MoveOf(rs, p).old)
<1> DEFINE d == Shallowest(rs, p)
           old == SubSeq(p, 1, d)
           name == RewrittenName(rs, p, d)
           new == [old EXCEPT ![d] = name]
<1>1. Changed(rs, p) \in SUBSET Nat
  BY PathShape DEF Changed
<1>2. \E i \in Changed(rs, p) : \A j \in Changed(rs, p) : i <= j
  BY <1>1, LeastMember
<1>3. d \in Changed(rs, p)
  BY <1>2 DEF Shallowest
<1>4. d \in 1..Len(p) /\ name # p[d] /\ Len(p) \in 1..MaxDepth /\ p \in [1..Len(p) -> Names]
  BY <1>3, PathShape DEF Changed
<1>5. name \in Names
  BY <1>4, RewrittenNameTyped
<1> HIDE DEF d, name
<1>6. old \in [1..d -> Names] /\ \A i \in 1..d : old[i] = p[i]
  BY <1>4, NamesAssumption, PrefixTyped
<1>7. new \in [1..d -> Names] /\ new[d] = name /\ \A i \in 1..d : i # d => new[i] = p[i]
  <2> HIDE DEF old
  <2> QED BY <1>4, <1>5, <1>6
<1>8. d \in 1..MaxDepth
  BY <1>4, NamesAssumption
<1> HIDE DEF old, new
<1>9. old \in Paths /\ new \in Paths /\ Len(old) = d /\ Len(new) = d
  BY <1>6, <1>7, <1>8, PathShape
<1>10. IsMove(old, new)
  BY <1>4, <1>6, <1>7, <1>8, <1>9 DEF IsMove
<1>11. Under(p, old)
  BY <1>4, <1>6, <1>8, <1>9 DEF Under
<1>12. MoveOf(rs, p) = [old |-> old, new |-> new]
  BY DEF MoveOf, d, old, new, name
<1> QED BY <1>10, <1>11, <1>12, MoveShape

-----------------------------------------------------------------------------
(* The order of a pass. *)

LEMMA NameOrderStrict ==
    ASSUME NEW p \in Paths, NEW q \in Paths, NEW r \in Paths, Len(p) = Len(q), Len(q) = Len(r)
    PROVE  /\ ~NameOrder(p, p)
           /\ NameOrder(p, q) /\ NameOrder(q, r) => NameOrder(p, r)
           /\ p = q \/ NameOrder(p, q) \/ NameOrder(q, p)
<1>0. /\ Len(p) \in Nat
      /\ \A i \in 1..Len(p) : p[i] \in Nat /\ q[i] \in Nat /\ r[i] \in Nat
  <2>1. Len(p) \in 1..MaxDepth /\ \A i \in 1..Len(p) : p[i] \in Names /\ q[i] \in Names /\ r[i] \in Names
    BY PathShape
  <2>2. Len(p) \in Nat
    BY <2>1
  <2>3. \A x \in Names : x \in Nat
    BY NamesAssumption
  <2> QED BY <2>1, <2>2, <2>3
<1>1. ~NameOrder(p, p)
  BY <1>0 DEF NameOrder
<1>2. ASSUME NameOrder(p, q), NameOrder(q, r) PROVE NameOrder(p, r)
  <2>1. PICK i \in 1..Len(p) : p[i] < q[i] /\ \A k \in 1..(i - 1) : p[k] = q[k]
    BY <1>2 DEF NameOrder
  <2>2. PICK j \in 1..Len(q) : q[j] < r[j] /\ \A k \in 1..(j - 1) : q[k] = r[k]
    BY <1>2 DEF NameOrder
  <2>3. CASE i <= j
    <3>1. p[i] < r[i] /\ \A k \in 1..(i - 1) : p[k] = r[k]
      BY <1>0, <2>1, <2>2, <2>3
    <3> QED BY <3>1 DEF NameOrder
  <2>4. CASE j < i
    <3>1. j \in 1..Len(p) /\ p[j] < r[j] /\ \A k \in 1..(j - 1) : p[k] = r[k]
      BY <1>0, <2>1, <2>2, <2>4
    <3> QED BY <3>1 DEF NameOrder
  <2> QED BY <1>0, <2>3, <2>4
<1>3. ASSUME p # q PROVE NameOrder(p, q) \/ NameOrder(q, p)
  <2> DEFINE D == {i \in 1..Len(p) : p[i] # q[i]}
  <2>1. D \in SUBSET Nat /\ D # {}
    BY <1>3, PathEqual
  <2>2. PICK i \in D : \A j \in D : i <= j
    <3> HIDE DEF D
    <3> QED BY <2>1, LeastMember
  <2>3. \A k \in 1..(i - 1) : p[k] = q[k]
    BY <1>0, <2>2
  <2>4. p[i] < q[i] \/ q[i] < p[i]
    BY <1>0, <2>2
  <2> QED BY <2>3, <2>4 DEF NameOrder
<1> QED BY <1>1, <1>2, <1>3

Sortable(moves) ==
    /\ moves \subseteq Moves /\ IsFiniteSet(moves)
    /\ \A m, n \in moves : m.old = n.old => m = n

LEMMA DeepestFirstStrict ==
    ASSUME NEW moves, Sortable(moves), NEW a \in moves, NEW b \in moves, NEW c \in moves
    PROVE  /\ ~DeepestFirst(a, a)
           /\ DeepestFirst(a, b) /\ DeepestFirst(b, c) => DeepestFirst(a, c)
           /\ a = b \/ DeepestFirst(a, b) \/ DeepestFirst(b, a)
<1>1. /\ a.old \in Paths /\ b.old \in Paths /\ c.old \in Paths
      /\ a.old = b.old => a = b
  BY DEF Sortable, Moves
<1>2. Len(a.old) \in Nat /\ Len(b.old) \in Nat /\ Len(c.old) \in Nat
  BY <1>1, PathShape
<1> QED BY <1>1, <1>2, NameOrderStrict DEF DeepestFirst

LEMMA SortedExists ==
    ASSUME NEW moves, Sortable(moves)
    PROVE  \E seq \in [1..Cardinality(moves) -> moves] :
              \A i, j \in DOMAIN seq : i < j => DeepestFirst(seq[i], seq[j])
<1> DEFINE n == Cardinality(moves)
           first == [m \in moves |-> {k \in moves : DeepestFirst(k, m)}]
           rank == [m \in moves |-> Cardinality(first[m]) + 1]
<1>1. n \in Nat /\ IsFiniteSet(moves)
  BY FS_CardinalityType DEF Sortable
<1>2. ASSUME NEW m \in moves
      PROVE  IsFiniteSet(first[m]) /\ Cardinality(first[m]) \in Nat /\ Cardinality(first[m]) < n
  <2>1. first[m] \in SUBSET moves /\ m \notin first[m]
    BY DeepestFirstStrict
  <2>2. IsFiniteSet(first[m]) /\ Cardinality(first[m]) <= n
        /\ (n = Cardinality(first[m]) => moves = first[m])
    BY <1>1, <2>1, FS_Subset
  <2>3. Cardinality(first[m]) \in Nat
    BY <2>2, FS_CardinalityType
  <2> QED BY <1>1, <2>1, <2>2, <2>3
<1>3. ASSUME NEW a \in moves, NEW b \in moves, DeepestFirst(a, b) PROVE rank[a] < rank[b]
  <2>1. first[a] \in SUBSET first[b] /\ a \in first[b] /\ a \notin first[a]
    BY <1>3, DeepestFirstStrict
  <2>2. /\ Cardinality(first[a]) <= Cardinality(first[b])
        /\ Cardinality(first[b]) = Cardinality(first[a]) => first[b] = first[a]
    BY <1>2, <2>1, FS_Subset
  <2>3. Cardinality(first[a]) \in Nat /\ Cardinality(first[b]) \in Nat
    BY <1>2
  <2>4. Cardinality(first[a]) < Cardinality(first[b])
    BY <2>1, <2>2, <2>3
  <2> HIDE DEF first
  <2> QED BY <2>3, <2>4
<1>4. rank \in Injection(moves, 1..n)
  <2>1. rank \in [moves -> 1..n]
    <3> HIDE DEF first, n
    <3> QED BY <1>1, <1>2
  <2>2. ASSUME NEW a \in moves, NEW b \in moves, rank[a] = rank[b] PROVE a = b
    <3>1. rank[a] \in Nat /\ rank[b] \in Nat
      BY <1>1, <2>1
    <3> HIDE DEF rank
    <3> QED BY <1>3, <2>2, <3>1, DeepestFirstStrict
  <2> HIDE DEF rank
  <2> QED BY <2>1, <2>2 DEF Injection, IsInjective
<1>5. IsFiniteSet(1..n) /\ Cardinality(1..n) = n
  <2> HIDE DEF n
  <2> QED BY <1>1, FS_Interval
<1>6. rank \in Surjection(moves, 1..n)
  <2> HIDE DEF rank
  <2> QED BY <1>4, <1>5, FS_Injection
<1> DEFINE seq == [i \in 1..n |-> CHOOSE m \in moves : rank[m] = i]
<1> HIDE DEF n, rank
<1>7. ASSUME NEW i \in 1..n PROVE seq[i] \in moves /\ rank[seq[i]] = i
  <2>1. \E m \in moves : rank[m] = i
    BY <1>6 DEF Surjection
  <2> QED BY <2>1
<1>8. seq \in [1..n -> moves]
  BY <1>7
<1>9. ASSUME NEW i \in 1..n, NEW j \in 1..n, i < j PROVE DeepestFirst(seq[i], seq[j])
  <2>1. seq[i] # seq[j] /\ ~DeepestFirst(seq[j], seq[i])
    <3> HIDE DEF seq
    <3> QED BY <1>1, <1>3, <1>7, <1>9
  <2> HIDE DEF seq
  <2> QED BY <1>7, <2>1, DeepestFirstStrict
<1> HIDE DEF seq
<1>10. \A i, j \in DOMAIN seq : i < j => DeepestFirst(seq[i], seq[j])
  BY <1>8, <1>9
<1> QED BY <1>8, <1>10 DEF n

LEMMA InOrderSorted ==
    ASSUME NEW moves, Sortable(moves)
    PROVE  /\ Cardinality(moves) \in Nat
           /\ InOrder(moves) \in [1..Cardinality(moves) -> moves]
           /\ Len(InOrder(moves)) = Cardinality(moves)
           /\ MoveList(InOrder(moves))
           /\ \A i, j \in DOMAIN InOrder(moves) :
                i < j => DeepestFirst(InOrder(moves)[i], InOrder(moves)[j])
<1> DEFINE seq == InOrder(moves)
           n == Cardinality(moves)
<1>1. n \in Nat
  BY FS_CardinalityType DEF Sortable
<1>2. seq \in [1..n -> moves] /\ \A i, j \in DOMAIN seq : i < j => DeepestFirst(seq[i], seq[j])
  BY SortedExists DEF InOrder
<1> HIDE DEF seq, n
<1>3. Len(seq) = n
  BY <1>1, <1>2
<1>4. MoveList(seq)
  <2>1. \A m \in moves : IsMove(m.old, m.new)
    <3>1. \A m \in moves : m \in Moves /\ m = [old |-> m.old, new |-> m.new]
      BY DEF Sortable, Moves
    <3> QED BY <3>1, MoveShape
  <2> QED BY <1>1, <1>2, <1>3, <2>1 DEF MoveList
<1> QED BY <1>1, <1>2, <1>3, <1>4 DEF seq, n

-----------------------------------------------------------------------------
(* The text of a link. *)

LEMMA SlicesTyped ==
    ASSUME NEW s \in Seq(Names), NEW k \in 0..Len(s)
    PROVE  /\ Len(s) \in Nat
           /\ SubSeq(s, 1, k) \in Seq(Names) /\ Len(SubSeq(s, 1, k)) = k
           /\ \A i \in 1..k : SubSeq(s, 1, k)[i] = s[i]
           /\ SubSeq(s, k + 1, Len(s)) \in Seq(Names)
           /\ Len(SubSeq(s, k + 1, Len(s))) = Len(s) - k
           /\ \A i \in 1..(Len(s) - k) : SubSeq(s, k + 1, Len(s))[i] = s[k + i]
<1>1. Len(s) \in Nat /\ \A i \in 1..Len(s) : s[i] \in Names
  BY LenProperties, ElementOfSeq
<1>2. /\ SubSeq(s, 1, k) \in Seq(Names) /\ Len(SubSeq(s, 1, k)) = k
      /\ \A i \in 1..k : SubSeq(s, 1, k)[i] = s[i]
  <2> DEFINE q == SubSeq(s, 1, k)
  <2>1. /\ q \in Seq(Names) /\ Len(q) = IF 1 <= k THEN k - 1 + 1 ELSE 0
        /\ \A i \in 1..(k - 1 + 1) : q[i] = s[1 + i - 1]
    BY <1>1, SubSeqProperties
  <2> HIDE DEF q
  <2>2. Len(q) = k /\ \A i \in 1..k : q[i] = s[i]
    BY <1>1, <2>1
  <2> QED BY <2>1, <2>2 DEF q
<1>3. /\ SubSeq(s, k + 1, Len(s)) \in Seq(Names)
      /\ Len(SubSeq(s, k + 1, Len(s))) = Len(s) - k
      /\ \A i \in 1..(Len(s) - k) : SubSeq(s, k + 1, Len(s))[i] = s[k + i]
  <2> DEFINE q == SubSeq(s, k + 1, Len(s))
             n == Len(s)
  <2>1. /\ q \in Seq(Names) /\ Len(q) = IF k + 1 <= n THEN n - (k + 1) + 1 ELSE 0
        /\ \A i \in 1..(n - (k + 1) + 1) : q[i] = s[(k + 1) + i - 1]
    BY <1>1, SubSeqProperties
  <2> HIDE DEF q, n
  <2>2. n \in Nat /\ k \in 0..n
    BY <1>1 DEF n
  <2>3. Len(q) = n - k
    BY <2>1, <2>2
  <2>4. \A i \in 1..(n - k) : q[i] = s[k + i]
    <3>1. \A i \in 1..(n - k) : i \in 1..(n - (k + 1) + 1) /\ (k + 1) + i - 1 = k + i
      BY <2>2
    <3> QED BY <2>1, <3>1
  <2> QED BY <2>1, <2>3, <2>4 DEF q, n
<1> QED BY <1>1, <1>2, <1>3

LEMMA PathIsSeq == \A p \in Paths : p \in Seq(Names) /\ Len(p) \in 1..MaxDepth
BY PathShape, NamesAssumption

LEMMA ParentTyped ==
    ASSUME NEW p \in Paths
    PROVE  /\ Parent(p) \in Seq(Names) /\ Len(Parent(p)) = Len(p) - 1
           /\ \A i \in 1..(Len(p) - 1) : Parent(p)[i] = p[i]
<1>1. p \in Seq(Names) /\ Len(p) - 1 \in 0..Len(p)
  BY PathIsSeq
<1> QED BY <1>1, SlicesTyped DEF Parent

(***************************************************************************)
(* The text leaves the common part k of path and directory out.            *)
(***************************************************************************)
IsText(t, p, dir, k) ==
    /\ k \in 0..Len(dir) /\ k < Len(p)
    /\ \A i \in 1..k : p[i] = dir[i]
    /\ t = [up |-> Len(dir) - k, down |-> SubSeq(p, k + 1, Len(p))]

LEMMA RelPathText ==
    ASSUME NEW p \in Paths, NEW dir \in Seq(Names)
    PROVE  \E k \in Nat : IsText(RelPath(p, dir), p, dir, k)
<1> DEFINE common == {i \in 0..Len(dir) : i < Len(p) /\ SubSeq(p, 1, i) = SubSeq(dir, 1, i)}
           k == CHOOSE i \in common : \A j \in common : j <= i
<1>1. Len(dir) \in Nat /\ Len(p) \in 1..MaxDepth /\ p \in Seq(Names)
  BY PathIsSeq, LenProperties
<1>2. 0 \in common
  <2>1. SubSeq(p, 1, 0) = SubSeq(dir, 1, 0)
    BY SubSeqEmpty
  <2> QED BY <1>1, <2>1
<1>3. \E i \in common : \A j \in common : j <= i
  <2> DEFINE T == {Len(dir) - i : i \in common}
  <2>1. T \in SUBSET Nat /\ T # {}
    BY <1>1, <1>2
  <2>2. PICK m \in T : \A j \in T : m <= j
    <3> HIDE DEF T
    <3> QED BY <2>1, LeastMember
  <2>3. PICK i \in common : m = Len(dir) - i
    BY <2>2
  <2>4. \A j \in common : j \in Nat
    BY <1>1
  <2> HIDE DEF common
  <2>5. \A j \in common : Len(dir) - i <= Len(dir) - j
    BY <2>2, <2>3
  <2> QED BY <1>1, <2>4, <2>5
<1>4. k \in common
  <2> HIDE DEF common
  <2> QED BY <1>3
<1>5. k \in 0..Len(dir) /\ k < Len(p) /\ SubSeq(p, 1, k) = SubSeq(dir, 1, k)
  <2> HIDE DEF k
  <2> QED BY <1>4
<1>6. RelPath(p, dir) = [up |-> Len(dir) - k, down |-> SubSeq(p, k + 1, Len(p))]
  BY DEF RelPath
<1> HIDE DEF k, common
<1>7. k \in Nat /\ k \in 0..Len(p)
  BY <1>1, <1>5
<1>8. \A i \in 1..k : p[i] = dir[i]
  BY <1>1, <1>5, <1>7, SlicesTyped
<1>9. IsText(RelPath(p, dir), p, dir, k)
  BY <1>5, <1>6, <1>8 DEF IsText
<1> QED BY <1>7, <1>9

LEMMA TextTyped ==
    ASSUME NEW p \in Paths, NEW d \in Paths
    PROVE  RelPath(p, Parent(d)) \in [up : 0..MaxDepth, down : Seq(Names)]
<1> DEFINE dir == Parent(d)
<1>1. dir \in Seq(Names) /\ Len(dir) = Len(d) - 1
  BY ParentTyped
<1> HIDE DEF dir
<1>2. PICK k \in Nat : IsText(RelPath(p, dir), p, dir, k)
  BY <1>1, RelPathText
<1>3. Len(d) \in 1..MaxDepth /\ MaxDepth \in Nat /\ p \in Seq(Names) /\ Len(p) \in 1..MaxDepth
  BY PathIsSeq, NamesAssumption
<1>4. RelPath(p, dir).up \in 0..MaxDepth
  BY <1>1, <1>2, <1>3 DEF IsText
<1>5. RelPath(p, dir).down \in Seq(Names)
  <2>1. k \in 0..Len(p)
    BY <1>2, <1>3 DEF IsText
  <2> QED BY <1>2, <1>3, <2>1, SlicesTyped DEF IsText
<1>6. RelPath(p, dir) = [up |-> RelPath(p, dir).up, down |-> RelPath(p, dir).down]
  BY <1>2 DEF IsText
<1> QED BY <1>4, <1>5, <1>6 DEF dir

(***************************************************************************)
(* Read from any directory that shares the common part, the text names the *)
(* path.                                                                   *)
(***************************************************************************)
LEMMA TextResolves ==
    ASSUME NEW p \in Paths, NEW dir \in Seq(Names), NEW t, NEW k \in Nat, IsText(t, p, dir, k),
           NEW other \in Seq(Names), Len(other) = Len(dir), \A i \in 1..k : p[i] = other[i]
    PROVE  Resolve(t, other) = p
<1>1. /\ Len(other) \in Nat /\ p \in Seq(Names) /\ Len(p) \in Nat
      /\ k \in 0..Len(p) /\ k \in 0..Len(other) /\ Len(other) - (Len(other) - k) = k
  <2>1. Len(other) \in Nat /\ p \in Seq(Names) /\ Len(p) \in Nat
    BY PathIsSeq, LenProperties
  <2> QED BY <2>1 DEF IsText
<1> DEFINE a == SubSeq(other, 1, k)
           b == SubSeq(p, k + 1, Len(p))
<1>2. Resolve(t, other) = a \o b
  BY <1>1 DEF Resolve, IsText
<1>3. a \in Seq(Names) /\ Len(a) = k /\ \A i \in 1..k : a[i] = other[i]
  BY <1>1, SlicesTyped
<1>4. b \in Seq(Names) /\ Len(b) = Len(p) - k /\ \A i \in 1..(Len(p) - k) : b[i] = p[k + i]
  BY <1>1, SlicesTyped
<1> HIDE DEF a, b
<1>5. /\ a \o b \in Seq(Names) /\ Len(a \o b) = Len(p)
      /\ \A i \in 1..Len(p) : (a \o b)[i] = IF i <= k THEN a[i] ELSE b[i - k]
  <2>1. /\ a \o b \in Seq(Names) /\ Len(a \o b) = Len(a) + Len(b)
        /\ \A i \in 1..(Len(a) + Len(b)) : (a \o b)[i] =
                 IF i <= Len(a) THEN a[i] ELSE b[i - Len(a)]
    BY <1>3, <1>4, ConcatProperties
  <2>2. Len(a) + Len(b) = Len(p)
    BY <1>1, <1>3, <1>4
  <2> QED BY <1>3, <2>1, <2>2
<1>6. ASSUME NEW i \in 1..Len(p) PROVE (a \o b)[i] = p[i]
  <2>1. CASE i <= k
    <3>1. i \in 1..k
      BY <1>1, <2>1
    <3>2. (a \o b)[i] = a[i]
      BY <1>5, <2>1
    <3> QED BY <1>3, <3>1, <3>2
  <2>2. CASE ~(i <= k)
    <3>1. i - k \in 1..(Len(p) - k) /\ k + (i - k) = i
      BY <1>1, <2>2
    <3> QED BY <1>4, <1>5, <2>2, <3>1
  <2> QED BY <2>1, <2>2
<1>7. a \o b = p
  BY <1>1, <1>5, <1>6, SeqEqual
<1> QED BY <1>2, <1>7

LEMMA ResolveRelPath ==
    ASSUME NEW p \in Paths, NEW d \in Paths
    PROVE  Resolve(RelPath(p, Parent(d)), Parent(d)) = p
<1>1. Parent(d) \in Seq(Names)
  BY ParentTyped
<1>2. PICK k \in Nat : IsText(RelPath(p, Parent(d)), p, Parent(d), k)
  BY <1>1, RelPathText
<1>3. \A i \in 1..k : p[i] = Parent(d)[i]
  BY <1>2 DEF IsText
<1> QED BY <1>1, <1>2, <1>3, TextResolves

-----------------------------------------------------------------------------
(* Types. *)

DiskTyped == tree \in Trees /\ rows \in Seq(Rows) /\ where \in [Nodes -> Paths \cup {Nowhere}]

PlanTyped ==
    /\ current \in [tree.files -> Paths]
    /\ prior \in [tree.files -> SUBSET DOMAIN steps]
    /\ assigned \subseteq Moves
    /\ steps \in Seq(PlanSteps)
    /\ \A i \in DOMAIN steps : /\ steps[i].id = i /\ steps[i].preds \subseteq 1..(i - 1)
                               /\ [old |-> steps[i].old, new |-> steps[i].new] \in Moves

Phases == Ended \cup {"validate", "compile", "bind", "revalidate", "rename",
                      "move", "replace", "retarget"}

RunTyped ==
    /\ pc \in Phases
    /\ next \in 1..(Len(steps) + 1) /\ executed \subseteq 1..(next - 1)
    /\ mishaps \in 0..MaxMishaps

TextTypedOK ==
    /\ text \in [tree.links -> [up : 0..MaxDepth, down : Seq(Names)]]
    /\ links \subseteq tree.links

LEMMA TypeParts ==
    /\ TypeOK <=> DiskTyped /\ PlanTyped /\ RunTyped /\ TextTypedOK
    /\ TypeOK' <=> DiskTyped' /\ PlanTyped' /\ RunTyped' /\ TextTypedOK'
BY DEF TypeOK, DiskTyped, PlanTyped, RunTyped, TextTypedOK, Phases

(***************************************************************************)
(* The phases: nothing is executed before "rename", a step is under way in *)
(* "move" and "replace", and the latter is that of the fallback alone.     *)
(***************************************************************************)
Early == {"validate", "compile", "bind", "revalidate"}

PhaseOK ==
    /\ pc \in Early => executed = {} /\ next = 1
    /\ pc \in {"move", "replace"} => next \in DOMAIN steps
    /\ pc = "replace" => ~tree.atomic

(***************************************************************************)
(* A link that is still to be retargeted spells what was captured.         *)
(***************************************************************************)
Pending == IF pc \in {"retarget", "raised", "done"} THEN links ELSE tree.links
TextOK == \A l \in Pending : text[l] = RelPath(tree.target[l], Parent(l))

Base == TypeOK /\ PhaseOK /\ TextOK

LEMMA TreeShape == ASSUME tree \in Trees PROVE IsInventory(tree)
BY RunAssumption

LEMMA StepsShape ==
    ASSUME PlanTyped
    PROVE  /\ Len(steps) \in Nat /\ DOMAIN steps = 1..Len(steps) /\ MoveList(steps)
           /\ \A i \in DOMAIN steps : steps[i] \in PlanSteps
<1>1. steps \in Seq(PlanSteps)
  BY DEF PlanTyped
<1>2. Len(steps) \in Nat /\ DOMAIN steps = 1..Len(steps) /\ \A i \in DOMAIN steps : steps[i] \in PlanSteps
  BY <1>1, LenProperties, ElementOfSeq
<1>3. \A i \in DOMAIN steps : IsMove(steps[i].old, steps[i].new)
  BY MoveShape DEF PlanTyped
<1> QED BY <1>2, <1>3 DEF MoveList

LEMMA SeqOfFunction ==
    ASSUME NEW S, NEW n \in Nat, NEW f \in [1..n -> S]
    PROVE  f \in Seq(S) /\ Len(f) = n
<1>1. f \in Seq(S)
  BY SeqDef
<1>2. Len(f) \in Nat /\ DOMAIN f = 1..Len(f)
  BY <1>1, LenProperties
<1> QED BY <1>1, <1>2

LEMMA KindsTyped ==
    ASSUME NEW p
    PROVE  /\ \A n : KindOf(n) \in Kinds
           /\ NodeKind(p) \in Kinds \cup {"missing"}
           /\ NodeKind(p) = "missing" <=> Below(p) = {}
<1>1. \A n : KindOf(n) \in {"symlink", "file"}
  BY DEF KindOf
<1>2. CASE Below(p) = {}
  BY <1>1, <1>2 DEF NodeKind, Kinds
<1>3. CASE Below(p) # {}
  <2> DEFINE n == CHOOSE n \in Present : where[n] = p
  <2>1. NodeKind(p) = IF \E x \in Present : where[x] = p THEN KindOf(n) ELSE "directory"
    BY <1>3 DEF NodeKind
  <2> HIDE DEF n
  <2>2. KindOf(n) \in {"symlink", "file"}
    BY <1>1
  <2>3. NodeKind(p) \in Kinds
    BY <2>1, <2>2 DEF Kinds
  <2> QED BY <1>1, <1>3, <2>3 DEF Kinds
<1> QED BY <1>2, <1>3

LEMMA PresentPath == ASSUME DiskTyped, NEW n \in Present PROVE where[n] \in Paths
BY DEF DiskTyped, Present

LEMMA MovedTyped ==
    ASSUME DiskTyped, NEW s, IsMove(s.old, s.new)
    PROVE  /\ MovedBy(s) \in [Nodes -> Paths \cup {Nowhere}]
           /\ Replacing(s) \in [Nodes -> Paths \cup {Nowhere}]
<1>1. MovedBy(s) \in [Nodes -> Paths \cup {Nowhere}]
  <2>1. \A n \in Present : Carry(where[n], s.old, s.new) \in Paths
    BY PresentPath, CarryShape
  <2> QED BY <2>1 DEF MovedBy
<1> QED BY <1>1 DEF Replacing

(***************************************************************************)
(* The plan of a pass.                                                     *)
(***************************************************************************)
LEMMA MoverMoves ==
    ASSUME DiskTyped, PlanTyped, NEW e \in Movers
    PROVE  /\ current[e] \in Paths
           /\ MoveOf(rows, current[e]) \in Moves
           /\ IsMove(MoveOf(rows, current[e]).old, MoveOf(rows, current[e]).new)
           /\ Under(current[e], MoveOf(rows, current[e]).old)
BY MoveOfShape DEF Movers, DiskTyped, PlanTyped

LEMMA PassSortable ==
    ASSUME DiskTyped, PlanTyped, NoneConverges
    PROVE  Sortable(PassMoves)
<1>1. PassMoves \subseteq Moves
  BY MoverMoves DEF PassMoves
<1>2. IsFiniteSet(PassMoves)
  <2> DEFINE f == [e \in Movers |-> MoveOf(rows, current[e])]
  <2>1. IsFiniteSet(Movers)
    <3>1. IsFiniteSet(tree.files) /\ Movers \in SUBSET tree.files
      BY TreeShape DEF DiskTyped, IsInventory, Movers
    <3> QED BY <3>1, FS_Subset
  <2>2. f \in Surjection(Movers, PassMoves)
    BY DEF Surjection, PassMoves
  <2> HIDE DEF f
  <2> QED BY <2>1, <2>2, FS_Surjection
<1>3. ASSUME NEW m \in PassMoves, NEW n \in PassMoves, m.old = n.old PROVE m = n
  <2>1. m.new = n.new
    BY <1>3 DEF NoneConverges
  <2>2. m = [old |-> m.old, new |-> m.new] /\ n = [old |-> n.old, new |-> n.new]
    BY <1>1 DEF Moves
  <2> QED BY <1>3, <2>1, <2>2
<1> QED BY <1>1, <1>2, <1>3 DEF Sortable

LEMMA PassShape ==
    ASSUME DiskTyped, PlanTyped, NoneConverges
    PROVE  LET moves == InOrder(PassMoves)
           IN  /\ Len(moves) \in Nat /\ MoveList(moves)
               /\ \A i \in 1..Len(moves) : moves[i] \in PassMoves
               /\ \A i, j \in 1..Len(moves) : i < j => DeepestFirst(moves[i], moves[j])
               /\ PassSteps \in Seq(PlanSteps) /\ Len(PassSteps) = Len(moves)
               /\ MoveList(PassSteps) /\ SameMoves(moves, PassSteps, Len(moves))
               /\ \A i \in 1..Len(moves) :
                    /\ PassSteps[i] = StepOf(moves[i], Len(steps) + i)
                    /\ PassSteps[i].id = Len(steps) + i /\ PassSteps[i].preds \subseteq DOMAIN steps
                    /\ PassSteps[i].old = moves[i].old /\ PassSteps[i].new = moves[i].new
                    /\ [old |-> PassSteps[i].old, new |-> PassSteps[i].new] \in Moves
<1> DEFINE moves == InOrder(PassMoves)
           n == Len(moves)
<1>1. Sortable(PassMoves)
  BY PassSortable
<1>2. /\ n \in Nat /\ MoveList(moves) /\ moves \in [1..n -> PassMoves]
      /\ \A i, j \in DOMAIN moves : i < j => DeepestFirst(moves[i], moves[j])
  BY <1>1, InOrderSorted
<1>3. DOMAIN moves = 1..n
  BY <1>2
<1>4. PassSteps = [i \in 1..n |-> StepOf(moves[i], Len(steps) + i)]
  BY <1>3 DEF PassSteps
<1>5. ASSUME NEW i \in 1..n
      PROVE  /\ moves[i] \in PassMoves /\ PassSteps[i] = StepOf(moves[i], Len(steps) + i)
             /\ PassSteps[i] \in PlanSteps
             /\ PassSteps[i].id = Len(steps) + i /\ PassSteps[i].preds \subseteq DOMAIN steps
             /\ PassSteps[i].old = moves[i].old /\ PassSteps[i].new = moves[i].new
             /\ [old |-> PassSteps[i].old, new |-> PassSteps[i].new] \in Moves
  <2> DEFINE m == moves[i]
             s == PassSteps[i]
  <2>1. m \in PassMoves /\ s = StepOf(m, Len(steps) + i) /\ Len(steps) + i \in Nat
    BY <1>2, <1>4, StepsShape
  <2> HIDE DEF m, s, n, moves
  <2>2. m \in Moves /\ m.old \in Paths /\ m.new \in Paths /\ m = [old |-> m.old, new |-> m.new]
    BY <1>1, <2>1 DEF Sortable, Moves
  <2>3. UNION {prior[e] : e \in SourcesOf(m)} \subseteq DOMAIN steps
    BY DEF SourcesOf, Movers, PlanTyped
  <2>4. DOMAIN steps \subseteq Nat
    BY StepsShape
  <2> DEFINE exact == CHOOSE e \in SourcesOf(m) : current[e] = m.old
             kind == IF \E e \in SourcesOf(m) : current[e] = m.old
                     THEN KindOf(exact) ELSE "directory"
  <2>5. kind \in Kinds
    <3>1. KindOf(exact) \in Kinds
      BY KindsTyped
    <3> HIDE DEF exact
    <3> QED BY <3>1 DEF Kinds
  <2>6. s = [id |-> Len(steps) + i, old |-> m.old, new |-> m.new,
             preds |-> UNION {prior[e] : e \in SourcesOf(m)},
             kind |-> kind, closure |-> {}, destination |-> "missing"]
    BY <2>1 DEF StepOf
  <2> HIDE DEF kind
  <2>7. s \in PlanSteps
    BY <2>1, <2>2, <2>3, <2>4, <2>5, <2>6 DEF PlanSteps
  <2>8. s.id = Len(steps) + i /\ s.preds \subseteq DOMAIN steps /\ s.old = m.old /\ s.new = m.new
    BY <2>3, <2>6
  <2> QED BY <2>1, <2>2, <2>7, <2>8 DEF m, s
<1>6. PassSteps \in [1..n -> PlanSteps]
  <2> HIDE DEF moves, n
  <2> QED BY <1>4, <1>5
<1> HIDE DEF moves, n
<1>7. PassSteps \in Seq(PlanSteps) /\ Len(PassSteps) = n
  BY <1>2, <1>6, SeqOfFunction
<1>8. MoveList(PassSteps)
  <2>1. \A i \in 1..n : IsMove(PassSteps[i].old, PassSteps[i].new)
    BY <1>5, MoveShape
  <2> QED BY <1>2, <1>6, <1>7, <2>1 DEF MoveList
<1>9. SameMoves(moves, PassSteps, n)
  BY <1>5 DEF SameMoves
<1> QED BY <1>2, <1>3, <1>5, <1>7, <1>8, <1>9 DEF moves, n

LEMMA BaseInit == Init => Base
<1> SUFFICES ASSUME Init PROVE Base
  OBVIOUS
<1> USE DEF Init
<1>1. IsInventory(tree) /\ rows \in Seq(Rows)
  BY RunAssumption
<1>2. tree.files \subseteq Paths /\ tree.links \subseteq tree.files /\ tree.target \in [tree.links -> Paths]
  BY <1>1 DEF IsInventory
<1>3. DiskTyped
  BY <1>1, <1>2 DEF DiskTyped, Nodes
<1>4. PlanTyped
  BY <1>2 DEF PlanTyped
<1>5. RunTyped
  BY RunAssumption DEF RunTyped, Phases, Ended
<1>6. TextTypedOK
  <2>1. \A l \in tree.links : RelPath(tree.target[l], Parent(l)) \in [up : 0..MaxDepth, down : Seq(Names)]
    BY <1>2, TextTyped
  <2> QED BY <2>1 DEF TextTypedOK
<1>7. PhaseOK
  BY DEF PhaseOK, Early
<1>8. TextOK
  BY DEF TextOK, Pending
<1> QED BY <1>3, <1>4, <1>5, <1>6, <1>7, <1>8, TypeParts DEF Base

(***************************************************************************)
(* A step that only goes on to another phase.                              *)
(***************************************************************************)
LEMMA QuietStep ==
    ASSUME Base, UNCHANGED <<tree, rows, where, text, planVars, links, next, executed, mishaps>>,
           pc' \in Phases, pc' \in Early => pc \in Early,
           pc' \in {"move", "replace"} => next \in DOMAIN steps,
           pc' = "replace" => ~tree.atomic,
           pc' \notin {"retarget", "raised", "done"} => pc \notin {"retarget", "raised", "done"}
    PROVE  Base'
<1> USE DEF planVars
<1>1. DiskTyped' /\ PlanTyped' /\ TextTypedOK'
  BY TypeParts DEF Base, DiskTyped, PlanTyped, TextTypedOK, Nodes
<1>2. RunTyped'
  BY TypeParts DEF Base, RunTyped
<1>3. PhaseOK'
  BY DEF Base, PhaseOK
<1>4. TextOK'
  <2>1. Pending' \subseteq Pending
    BY TypeParts DEF Base, Pending, TextTypedOK
  <2> QED BY <2>1 DEF Base, TextOK
<1> QED BY <1>1, <1>2, <1>3, <1>4, TypeParts DEF Base

LEMMA RefuseStep == ASSUME Base, pc \in Early, Refuse PROVE Base'
<1>1. UNCHANGED <<tree, rows, where, text, planVars, links, next, executed, mishaps>> /\ pc' = "refused"
  BY DEF Refuse, Goto
<1> QED BY <1>1, QuietStep DEF Early, Phases, Ended

LEMMA RaiseStep == ASSUME Base, Raise PROVE Base'
<1>1. UNCHANGED <<tree, rows, where, text, planVars, links, next, executed, mishaps>> /\ pc' = "raised"
  BY DEF Raise, Goto
<1> QED BY <1>1, QuietStep DEF Early, Phases, Ended

LEMMA ValidateRowsTyped == ASSUME Base, ValidateRows PROVE Base'
<1>1. CASE Refuse
  BY <1>1, RefuseStep DEF ValidateRows, Early
<1>2. CASE ~Refuse
  <2>1. UNCHANGED <<tree, rows, where, text, planVars, links, next, executed, mishaps>> /\ pc' = "compile"
    BY <1>2 DEF ValidateRows, Goto
  <2> QED BY <2>1, QuietStep DEF ValidateRows, Early, Phases, Ended
<1> QED BY <1>1, <1>2

LEMMA AfterTyped ==
    ASSUME DiskTyped, PlanTyped, NoneConverges, NEW e \in tree.files
    PROVE  After(e) \in Paths
<1> DEFINE moves == InOrder(PassMoves)
<1>1. MoveList(moves) /\ Len(moves) \in Nat /\ current[e] \in Paths
  BY PassShape DEF PlanTyped
<1>2. Along(moves, DOMAIN moves, current[e])[Len(moves)] \in Paths
  <2> HIDE DEF moves
  <2> QED BY <1>1, AlongSteps
<1> QED BY <1>2 DEF After, Carried

(***************************************************************************)
(* An accepted pass appends its steps.                                     *)
(***************************************************************************)
PassAppended ==
    /\ pc = "compile" /\ pc' = "compile" /\ PassAccepted
    /\ steps' = steps \o PassSteps
    /\ current' = [e \in tree.files |-> After(e)]
    /\ prior' = [e \in tree.files |-> prior[e] \cup {PassSteps[i].id : i \in Carrying(e)}]
    /\ assigned' = assigned \cup PassMoves
    /\ UNCHANGED <<tree, rows, next, executed, mishaps, where, text, links>>

LEMMA CompileCases == ASSUME CompilePass PROVE (pc \in Early /\ Refuse) \/ PassAppended
BY DEF CompilePass, PassAppended, Goto, Early

LEMMA Appended ==
    ASSUME DiskTyped, PlanTyped, NoneConverges
    PROVE  LET plan == steps \o PassSteps
           IN  /\ plan \in Seq(PlanSteps) /\ Len(plan) = Len(steps) + Len(PassSteps)
               /\ DOMAIN plan = 1..(Len(steps) + Len(PassSteps)) /\ MoveList(plan)
               /\ \A i \in DOMAIN steps : i \in DOMAIN plan /\ plan[i] = steps[i]
               /\ \A i \in 1..Len(PassSteps) : plan[Len(steps) + i] = PassSteps[i]
               /\ \A i \in DOMAIN plan :
                    /\ plan[i].id = i /\ plan[i].preds \subseteq 1..(i - 1)
                    /\ [old |-> plan[i].old, new |-> plan[i].new] \in Moves
<1> DEFINE plan == steps \o PassSteps
           n == Len(steps)
           k == Len(PassSteps)
<1>1. /\ n \in Nat /\ k \in Nat /\ DOMAIN steps = 1..n
      /\ steps \in Seq(PlanSteps) /\ PassSteps \in Seq(PlanSteps)
  BY StepsShape, PassShape DEF PlanTyped
<1>2. /\ plan \in Seq(PlanSteps) /\ Len(plan) = n + k
      /\ \A i \in 1..(n + k) : plan[i] = IF i <= n THEN steps[i] ELSE PassSteps[i - n]
  BY <1>1, ConcatProperties
<1>3. DOMAIN plan = 1..(n + k)
  <2> HIDE DEF plan, n, k
  <2> QED BY <1>2, LenProperties
<1>4. \A i \in 1..k : /\ PassSteps[i].id = n + i /\ PassSteps[i].preds \subseteq 1..n
                      /\ [old |-> PassSteps[i].old, new |-> PassSteps[i].new] \in Moves
  BY <1>1, PassShape
<1>5. \A i \in 1..n : /\ steps[i].id = i /\ steps[i].preds \subseteq 1..(i - 1)
                      /\ [old |-> steps[i].old, new |-> steps[i].new] \in Moves
  BY <1>1 DEF PlanTyped
<1> HIDE DEF plan, n, k
<1>6. \A i \in 1..n : i \in 1..(n + k) /\ plan[i] = steps[i]
  BY <1>1, <1>2
<1>7. ASSUME NEW i \in 1..k PROVE plan[n + i] = PassSteps[i]
  <2>1. n + i \in 1..(n + k) /\ ~(n + i <= n) /\ (n + i) - n = i
    BY <1>1
  <2> QED BY <1>2, <2>1
<1>8. ASSUME NEW i \in 1..(n + k)
      PROVE  /\ plan[i].id = i /\ plan[i].preds \subseteq 1..(i - 1)
             /\ [old |-> plan[i].old, new |-> plan[i].new] \in Moves
  <2>1. CASE i <= n
    <3>1. i \in 1..n
      BY <1>1, <2>1
    <3> QED BY <1>5, <1>6, <3>1
  <2>2. CASE ~(i <= n)
    <3>1. i - n \in 1..k /\ n + (i - n) = i /\ 1..n \subseteq 1..(i - 1)
      BY <1>1, <2>2
    <3>2. plan[i] = PassSteps[i - n]
      BY <1>2, <2>2
    <3> QED BY <1>4, <3>1, <3>2
  <2> QED BY <2>1, <2>2
<1>9. MoveList(plan)
  <2>1. n + k \in Nat
    BY <1>1
  <2>2. \A i \in 1..(n + k) : IsMove(plan[i].old, plan[i].new)
    BY <1>8, MoveShape
  <2> QED BY <1>2, <1>3, <2>1, <2>2 DEF MoveList
<1> QED BY <1>1, <1>2, <1>3, <1>6, <1>7, <1>8, <1>9 DEF plan, n, k

LEMMA CompilePassTyped == ASSUME Base, CompilePass PROVE Base'
<1>1. CASE pc \in Early /\ Refuse
  BY <1>1, RefuseStep
<1>2. CASE PassAppended
  <2> USE <1>2 DEF PassAppended
  <2>1. DiskTyped /\ PlanTyped /\ RunTyped /\ TextTypedOK /\ PhaseOK /\ TextOK /\ NoneConverges
    BY TypeParts DEF Base, PassAccepted
  <2>2. DiskTyped' /\ TextTypedOK'
    BY <2>1 DEF DiskTyped, TextTypedOK, Nodes
  <2>3. executed = {} /\ next = 1
    BY <2>1 DEF PhaseOK, Early
  <2>4. /\ steps' \in Seq(PlanSteps) /\ Len(steps') = Len(steps) + Len(PassSteps)
        /\ DOMAIN steps' = 1..(Len(steps) + Len(PassSteps)) /\ DOMAIN steps \subseteq DOMAIN steps'
        /\ \A i \in DOMAIN steps' :
              /\ steps'[i].id = i /\ steps'[i].preds \subseteq 1..(i - 1)
              /\ [old |-> steps'[i].old, new |-> steps'[i].new] \in Moves
    BY <2>1, Appended
  <2>5. /\ Len(steps) \in Nat /\ Len(PassSteps) \in Nat
        /\ \A i \in 1..Len(PassSteps) : PassSteps[i].id = Len(steps) + i
        /\ DOMAIN PassSteps = 1..Len(PassSteps)
    <3>1. PassSteps \in Seq(PlanSteps)
      BY <2>1, PassShape
    <3> QED BY <2>1, <3>1, StepsShape, PassShape, LenProperties
  <2>6. PlanTyped'
    <3>1. current' \in [tree.files -> Paths]
      BY <2>1, AfterTyped
    <3>2. prior' \in [tree.files -> SUBSET DOMAIN steps']
      <4>1. ASSUME NEW e \in tree.files
            PROVE  prior[e] \cup {PassSteps[i].id : i \in Carrying(e)} \subseteq DOMAIN steps'
        <5>1. prior[e] \subseteq DOMAIN steps
          BY <2>1 DEF PlanTyped
        <5>2. \A i \in Carrying(e) : i \in 1..Len(PassSteps)
          BY <2>5 DEF Carrying
        <5>3. \A i \in Carrying(e) : PassSteps[i].id \in DOMAIN steps'
          BY <2>4, <2>5, <5>2
        <5> QED BY <2>4, <5>1, <5>3
      <4> QED BY <4>1
    <3>3. assigned' \subseteq Moves
      BY <2>1, MoverMoves DEF PlanTyped, PassMoves
    <3> QED BY <2>4, <3>1, <3>2, <3>3 DEF PlanTyped
  <2>7. RunTyped'
    BY <2>1, <2>3, <2>4, <2>5 DEF RunTyped
  <2>8. PhaseOK' /\ TextOK'
    BY <2>1 DEF PhaseOK, TextOK, Pending, Early
  <2> QED BY <2>2, <2>6, <2>7, <2>8, TypeParts DEF Base
<1> QED BY <1>1, <1>2, CompileCases

LEMMA CompileDoneTyped == ASSUME Base, CompileDone PROVE Base'
<1>1. UNCHANGED <<tree, rows, where, text, planVars, links, next, executed, mishaps>> /\ pc' = "bind"
  BY DEF CompileDone, Goto
<1> QED BY <1>1, QuietStep DEF CompileDone, Early, Phases, Ended

(***************************************************************************)
(* Binding changes what a step records of the tree, never a move.          *)
(***************************************************************************)
PlanBound ==
    /\ pc = "bind" /\ pc' = "revalidate"
    /\ steps' = [i \in DOMAIN steps |->
          [steps[i] EXCEPT !.closure = Closure(i), !.destination = NodeKind(steps[i].new)]]
    /\ UNCHANGED <<tree, rows, next, executed, mishaps, where, text, current, prior,
                   assigned, seen, links>>

LEMMA BindCases == ASSUME BindPlan PROVE (pc \in Early /\ Refuse) \/ PlanBound
BY DEF BindPlan, PlanBound, Goto, Early

LEMMA BoundShape ==
    ASSUME DiskTyped, PlanTyped, PlanBound
    PROVE  /\ steps' \in Seq(PlanSteps) /\ Len(steps') = Len(steps) /\ DOMAIN steps' = DOMAIN steps
           /\ \A i \in DOMAIN steps :
                /\ steps'[i].id = steps[i].id /\ steps'[i].old = steps[i].old
                /\ steps'[i].new = steps[i].new /\ steps'[i].preds = steps[i].preds
                /\ steps'[i].kind = steps[i].kind
<1>1. Len(steps) \in Nat /\ DOMAIN steps = 1..Len(steps)
  BY StepsShape
<1>2. ASSUME NEW i \in DOMAIN steps
      PROVE  /\ steps'[i] \in PlanSteps
             /\ steps'[i].id = steps[i].id /\ steps'[i].old = steps[i].old
             /\ steps'[i].new = steps[i].new /\ steps'[i].preds = steps[i].preds
             /\ steps'[i].kind = steps[i].kind
  <2> DEFINE c == Closure(i)
             d == NodeKind(steps[i].new)
             s == steps[i]
  <2>1. s \in PlanSteps
    BY StepsShape
  <2>2. steps'[i] = [s EXCEPT !.closure = c, !.destination = d]
    BY DEF PlanBound
  <2>3. c \in SUBSET (Paths \X Kinds)
    <3>1. \A n \in Present : where[n] \in Paths /\ KindOf(n) \in Kinds
      BY PresentPath, KindsTyped
    <3> QED BY <3>1 DEF Closure, Below
  <2>4. d \in Kinds \cup {"missing"}
    BY KindsTyped
  <2> HIDE DEF c, d, s
  <2>5. /\ steps'[i] \in PlanSteps
        /\ steps'[i].id = s.id /\ steps'[i].old = s.old /\ steps'[i].new = s.new
        /\ steps'[i].preds = s.preds /\ steps'[i].kind = s.kind
    BY <2>1, <2>2, <2>3, <2>4 DEF PlanSteps
  <2> QED BY <2>5 DEF s
<1>3. steps' \in [1..Len(steps) -> PlanSteps]
  <2>1. DOMAIN steps' = 1..Len(steps) /\ steps' = [i \in 1..Len(steps) |-> steps'[i]]
    BY <1>1 DEF PlanBound
  <2> QED BY <1>1, <1>2, <2>1
<1>4. steps' \in Seq(PlanSteps) /\ Len(steps') = Len(steps)
  BY <1>1, <1>3, SeqOfFunction
<1> QED BY <1>1, <1>2, <1>3, <1>4

LEMMA BindPlanTyped == ASSUME Base, BindPlan PROVE Base'
<1>1. CASE pc \in Early /\ Refuse
  BY <1>1, RefuseStep
<1>2. CASE PlanBound
  <2> USE <1>2
  <2>1. DiskTyped /\ PlanTyped /\ RunTyped /\ TextTypedOK /\ PhaseOK /\ TextOK
    BY TypeParts DEF Base
  <2>2. DiskTyped' /\ TextTypedOK'
    BY <2>1 DEF DiskTyped, TextTypedOK, Nodes, PlanBound
  <2>3. PlanTyped'
    <3>1. \A i \in DOMAIN steps' :
             /\ steps'[i].id = i /\ steps'[i].preds \subseteq 1..(i - 1)
             /\ [old |-> steps'[i].old, new |-> steps'[i].new] \in Moves
      BY <2>1, BoundShape DEF PlanTyped
    <3>2. /\ current' \in [tree'.files -> Paths] /\ assigned' \subseteq Moves
          /\ prior' \in [tree'.files -> SUBSET DOMAIN steps']
      BY <2>1, BoundShape DEF PlanTyped, PlanBound
    <3> QED BY <2>1, <3>1, <3>2, BoundShape DEF PlanTyped
  <2>4. RunTyped'
    <3>1. Len(steps') = Len(steps)
      BY <2>1, BoundShape
    <3> QED BY <2>1, <3>1 DEF RunTyped, PlanBound, Phases
  <2>5. PhaseOK' /\ TextOK'
    BY <2>1 DEF PhaseOK, TextOK, Pending, Early, PlanBound
  <2> QED BY <2>2, <2>3, <2>4, <2>5, TypeParts DEF Base
<1> QED BY <1>1, <1>2, BindCases

LEMMA RevalidateTyped == ASSUME Base, Revalidate PROVE Base'
<1>1. CASE Refuse
  BY <1>1, RefuseStep DEF Revalidate, Early
<1>2. CASE ~Refuse
  <2>1. UNCHANGED <<tree, rows, where, text, planVars, links, next, executed, mishaps>> /\ pc' = "rename"
    BY <1>2 DEF Revalidate, Goto
  <2> QED BY <2>1, QuietStep DEF Revalidate, Early, Phases, Ended
<1> QED BY <1>1, <1>2

(***************************************************************************)
(* Going on to the next step, whatever was moved.                          *)
(***************************************************************************)
LEMMA AdvanceTyped ==
    ASSUME Base, NEW ids, Advance("rename", ids), next \in DOMAIN steps,
           pc \in {"rename", "move", "replace"}, ids \subseteq 1..next,
           where' \in [Nodes -> Paths \cup {Nowhere}]
    PROVE  Base'
<1> USE DEF Advance, planVars
<1>1. DiskTyped /\ PlanTyped /\ RunTyped /\ TextTypedOK /\ PhaseOK /\ TextOK
  BY TypeParts DEF Base
<1>2. DiskTyped' /\ PlanTyped' /\ TextTypedOK'
  BY <1>1 DEF DiskTyped, PlanTyped, TextTypedOK, Nodes
<1>3. Len(steps) \in Nat /\ DOMAIN steps = 1..Len(steps)
  BY <1>1, StepsShape
<1>4. RunTyped'
  BY <1>1, <1>3 DEF RunTyped, Phases
<1>5. PhaseOK' /\ TextOK'
  BY <1>1 DEF PhaseOK, TextOK, Pending, Early
<1> QED BY <1>2, <1>4, <1>5, TypeParts DEF Base

LEMMA SkipStepTyped == ASSUME Base, SkipStep PROVE Base'
<1>1. where' \in [Nodes -> Paths \cup {Nowhere}]
  BY TypeParts DEF Base, DiskTyped, SkipStep
<1>2. executed \subseteq 1..next
  BY TypeParts DEF Base, RunTyped
<1> QED BY <1>1, <1>2, AdvanceTyped DEF SkipStep

LEMMA CheckStepTyped == ASSUME Base, CheckStep PROVE Base'
<1>1. CASE Raise
  BY <1>1, RaiseStep
<1>2. CASE ~Raise
  <2>1. /\ UNCHANGED <<tree, rows, where, text, planVars, links, next, executed, mishaps>>
        /\ pc' = "move" /\ pc = "rename" /\ next \in DOMAIN steps
    BY <1>2 DEF CheckStep, Goto
  <2> QED BY <2>1, QuietStep DEF Early, Phases, Ended
<1> QED BY <1>1, <1>2

LEMMA StepMoves ==
    ASSUME Base, pc \in {"move", "replace"}
    PROVE  /\ next \in DOMAIN steps /\ Step.id = next /\ IsMove(Step.old, Step.new)
           /\ executed \cup {Step.id} \subseteq 1..next
<1>1. next \in DOMAIN steps /\ Step.id = next
  BY TypeParts DEF Base, PhaseOK, Step, PlanTyped
<1>2. IsMove(Step.old, Step.new)
  BY <1>1, TypeParts, StepsShape DEF Base, Step, MoveList
<1>3. executed \subseteq 1..(next - 1) /\ next \in Nat \ {0}
  BY TypeParts, StepsShape DEF Base, RunTyped
<1>4. 1..(next - 1) \subseteq 1..next /\ next \in 1..next
  BY <1>3
<1> QED BY <1>1, <1>2, <1>3, <1>4

LEMMA MoveStepTyped == ASSUME Base, MoveStep PROVE Base'
<1>1. CASE Raise
  BY <1>1, RaiseStep
<1>2. CASE ~Raise
  <2>1. where' = MovedBy(Step) /\ Advance("rename", executed \cup {Step.id}) /\ pc = "move"
    BY <1>2 DEF MoveStep
  <2>2. where' \in [Nodes -> Paths \cup {Nowhere}]
    BY <2>1, TypeParts, StepMoves, MovedTyped DEF Base
  <2> QED BY <2>1, <2>2, StepMoves, AdvanceTyped
<1> QED BY <1>1, <1>2

LEMMA LookStepTyped == ASSUME Base, LookStep PROVE Base'
<1>1. CASE Raise
  BY <1>1, RaiseStep
<1>2. CASE ~Raise
  <2>1. /\ UNCHANGED <<tree, rows, where, text, planVars, links, next, executed, mishaps>>
        /\ pc' = "replace" /\ pc = "move" /\ ~tree.atomic
    BY <1>2 DEF LookStep, Goto
  <2> QED BY <2>1, QuietStep, StepMoves DEF Early, Phases, Ended
<1> QED BY <1>1, <1>2

LEMMA ReplaceStepTyped == ASSUME Base, ReplaceStep PROVE Base'
<1>1. CASE Raise
  BY <1>1, RaiseStep
<1>2. CASE ~Raise
  <2>1. where' = Replacing(Step) /\ Advance("rename", executed \cup {Step.id}) /\ pc = "replace"
    BY <1>2 DEF ReplaceStep
  <2>2. where' \in [Nodes -> Paths \cup {Nowhere}]
    BY <2>1, TypeParts, StepMoves, MovedTyped DEF Base
  <2> QED BY <2>1, <2>2, StepMoves, AdvanceTyped
<1> QED BY <1>1, <1>2

LEMMA RenamesDoneTyped == ASSUME Base, RenamesDone PROVE Base'
<1> USE DEF RenamesDone, Goto, planVars
<1>1. DiskTyped /\ PlanTyped /\ RunTyped /\ TextTypedOK /\ PhaseOK /\ TextOK
  BY TypeParts DEF Base
<1>2. DiskTyped' /\ PlanTyped' /\ TextTypedOK' /\ RunTyped'
  BY <1>1 DEF DiskTyped, PlanTyped, TextTypedOK, Nodes, RunTyped, Phases
<1>3. PhaseOK' /\ TextOK'
  BY <1>1 DEF PhaseOK, TextOK, Pending, Early
<1> QED BY <1>2, <1>3, TypeParts DEF Base

LEMMA DoneTyped == ASSUME Base, Done PROVE Base'
<1>1. UNCHANGED <<tree, rows, where, text, planVars, links, next, executed, mishaps>> /\ pc' = "done"
  BY DEF Done, Goto
<1> QED BY <1>1, QuietStep DEF Done, Early, Phases, Ended

LEMMA TranslateTyped ==
    ASSUME PlanTyped, NEW ids, NEW p \in Paths
    PROVE  Translate(steps, ids, p) \in Paths
BY StepsShape, AlongSteps DEF Translate

(***************************************************************************)
(* A pending link's target is the one that was captured.                   *)
(***************************************************************************)
LEMMA SourceTargetCaptured ==
    ASSUME DiskTyped, TextOK, NEW l \in Pending, l \in tree.links
    PROVE  l \in Paths /\ SourceTarget(l) = tree.target[l] /\ SourceTarget(l) \in Paths
<1>1. l \in Paths /\ tree.target[l] \in Paths
  BY TreeShape DEF DiskTyped, IsInventory
<1> QED BY <1>1, ResolveRelPath DEF SourceTarget, TextOK

LEMMA RetargetTyped == ASSUME Base, NEW l \in links, Retarget(l) PROVE Base'
<1>1. CASE Raise
  BY <1>1, RaiseStep
<1>2. CASE ~Raise
  <2> USE DEF planVars
  <2>1. DiskTyped /\ PlanTyped /\ RunTyped /\ TextTypedOK /\ PhaseOK /\ TextOK
    BY TypeParts DEF Base
  <2>2. /\ pc = "retarget" /\ pc' = "retarget" /\ links' = links \ {l}
        /\ text' \in {text, [text EXCEPT ![l] = NewText(l)]}
        /\ UNCHANGED <<tree, rows, next, executed, mishaps, where, planVars>>
    BY <1>2 DEF Retarget, Goto
  <2>3. NewText(l) \in [up : 0..MaxDepth, down : Seq(Names)]
    <3>1. l \in Pending /\ l \in tree.links
      BY <2>1, <2>2 DEF Pending, TextTypedOK
    <3>2. l \in Paths /\ SourceTarget(l) \in Paths
      BY <2>1, <3>1, SourceTargetCaptured
    <3> QED BY <2>1, <3>2, TranslateTyped, TextTyped DEF NewText
  <2>4. DiskTyped' /\ PlanTyped' /\ RunTyped'
    BY <2>1, <2>2 DEF DiskTyped, PlanTyped, Nodes, RunTyped, Phases
  <2>5. TextTypedOK'
    BY <2>1, <2>2, <2>3 DEF TextTypedOK
  <2>6. PhaseOK'
    BY <2>1, <2>2 DEF PhaseOK, Early
  <2>7. TextOK'
    BY <2>1, <2>2 DEF TextOK, Pending, TextTypedOK
  <2> QED BY <2>4, <2>5, <2>6, <2>7, TypeParts DEF Base
<1> QED BY <1>1, <1>2

LEMMA OtherTyped == ASSUME Base, OtherProcess PROVE Base'
<1> USE DEF planVars, Create, Delete, OtherProcess
<1>1. DiskTyped /\ PlanTyped /\ RunTyped /\ TextTypedOK /\ PhaseOK /\ TextOK
  BY TypeParts DEF Base
<1>2. /\ UNCHANGED <<tree, rows, text, pc, planVars, next, executed, links>> /\ Interfere
      /\ \E n \in Nodes, p \in Paths \cup {Nowhere} : where' = [where EXCEPT ![n] = p]
  <2>1. CASE \E n \in Foreign, p \in Grounds : Create(n, p)
    <3>1. Grounds \subseteq Paths /\ Foreign \subseteq Nodes
      BY RunAssumption DEF Nodes
    <3> QED BY <2>1, <3>1
  <2>2. CASE \E n \in Nodes : Delete(n)
    BY <2>2
  <2> QED BY <2>1, <2>2
<1>3. DiskTyped'
  BY <1>1, <1>2 DEF DiskTyped, Nodes
<1>4. PlanTyped' /\ TextTypedOK'
  BY <1>1, <1>2 DEF PlanTyped, TextTypedOK
<1>5. RunTyped'
  BY <1>1, <1>2, RunAssumption DEF RunTyped, Interfere
<1>6. PhaseOK' /\ TextOK'
  BY <1>1, <1>2 DEF PhaseOK, TextOK, Pending
<1> QED BY <1>3, <1>4, <1>5, <1>6, TypeParts DEF Base

LEMMA BaseStep == ASSUME Base, [Next]_vars PROVE Base'
<1>1. CASE UNCHANGED vars
  <2>1. DiskTyped' /\ PlanTyped' /\ RunTyped' /\ TextTypedOK'
    BY <1>1, TypeParts DEF Base, vars, DiskTyped, PlanTyped, RunTyped, TextTypedOK, Nodes
  <2>2. PhaseOK' /\ TextOK'
    BY <1>1 DEF Base, vars, PhaseOK, TextOK, Pending
  <2> QED BY <2>1, <2>2, TypeParts DEF Base
<1>2. CASE Next
  BY <1>2, ValidateRowsTyped, CompilePassTyped, CompileDoneTyped, BindPlanTyped, RevalidateTyped,
     SkipStepTyped, CheckStepTyped, MoveStepTyped, LookStepTyped, ReplaceStepTyped,
     RenamesDoneTyped, RetargetTyped, DoneTyped, OtherTyped DEF Next, Press
<1> QED BY <1>1, <1>2

(***************************************************************************)
(* Every state of a run is typed: the plan is a list of moves of one       *)
(* component each, numbered in their order, and only steps before the next *)
(* one are executed (substitutions.py, engine.py).                         *)
(***************************************************************************)
THEOREM RenameTypes == Spec => []TypeOK
<1>1. Init => Base
  BY BaseInit
<1>2. Base /\ [Next]_vars => Base'
  BY BaseStep
<1>3. Base => TypeOK
  BY DEF Base
<1> QED BY <1>1, <1>2, <1>3, PTL DEF Spec

-----------------------------------------------------------------------------
(* What a step can be. *)

Still == UNCHANGED <<tree, rows, where, text, current, prior, assigned, steps, executed, mishaps>>

(***************************************************************************)
(* A move that was made, and what had been made sure of.                   *)
(***************************************************************************)
Moved ==
    /\ pc \in {"move", "replace"} /\ pc' = "rename"
    /\ next' = next + 1 /\ executed' = executed \cup {next}
    /\ UNCHANGED <<tree, rows, text, planVars, links, mishaps>>
    /\ IF pc = "move" THEN where' = MovedBy(Step) /\ Below(Step.new) = {} /\ tree.atomic
       ELSE where' = Replacing(Step)

Retargeted(l) ==
    /\ pc = "retarget" /\ pc' = "retarget" /\ l \in links
    /\ where[l] = Translate(steps, executed, l)
    /\ text' = IF Translate(steps, executed, SourceTarget(l)) = SourceTarget(l)
               THEN text ELSE [text EXCEPT ![l] = NewText(l)]
    /\ links' = links \ {l}
    /\ UNCHANGED <<tree, rows, next, executed, mishaps, where, planVars>>

Disturbed ==
    /\ \/ \E n \in Foreign, p \in Paths : where' = [where EXCEPT ![n] = p]
       \/ \E n \in Nodes : where' = [where EXCEPT ![n] = Nowhere]
    /\ mishaps' = mishaps + 1 /\ pc \notin Ended
    /\ UNCHANGED <<tree, rows, text, pc, planVars, next, executed, links>>

LEMMA StepCases ==
    ASSUME Base, [Next]_vars
    PROVE  \/ Still \/ PassAppended \/ PlanBound \/ Moved \/ (\E l \in links : Retargeted(l))
           \/ Disturbed
<1> USE DEF planVars
<1>1. CASE UNCHANGED vars \/ ValidateRows \/ CompileDone \/ Revalidate \/ SkipStep
           \/ CheckStep \/ LookStep \/ RenamesDone \/ Done \/ Refuse \/ Raise
  BY <1>1 DEF vars, ValidateRows, CompileDone, Revalidate, SkipStep, CheckStep, LookStep,
     RenamesDone, Done, Refuse, Raise, Goto, Advance, Still
<1>2. CASE CompilePass
  BY <1>1, <1>2, CompileCases
<1>3. CASE BindPlan
  BY <1>1, <1>3, BindCases
<1>4. CASE MoveStep /\ ~Raise
  <2>1. /\ pc = "move" /\ where' = MovedBy(Step) /\ Advance("rename", executed \cup {Step.id})
        /\ NodeKind(Step.new) = "missing" /\ tree.atomic
    BY <1>4 DEF MoveStep
  <2>2. Below(Step.new) = {} /\ Step.id = next
    BY <2>1, KindsTyped, StepMoves
  <2> QED BY <2>1, <2>2 DEF Moved, Advance
<1>5. CASE ReplaceStep /\ ~Raise
  <2>1. pc = "replace" /\ where' = Replacing(Step) /\ Advance("rename", executed \cup {Step.id})
    BY <1>5 DEF ReplaceStep
  <2>2. Step.id = next
    BY <2>1, StepMoves
  <2> QED BY <2>1, <2>2 DEF Moved, Advance
<1>6. ASSUME NEW l \in links, Retarget(l), ~Raise PROVE Retargeted(l)
  BY <1>6 DEF Retarget, Retargeted, Goto
<1>7. CASE OtherProcess
  <2>1. Grounds \subseteq Paths
    BY RunAssumption
  <2> QED BY <1>7, <2>1 DEF OtherProcess, Create, Delete, Interfere, Disturbed
<1> QED BY <1>1, <1>2, <1>3, <1>4, <1>5, <1>6, <1>7 DEF Next, Press

-----------------------------------------------------------------------------
(* No file is replaced. *)

LEMMA MovedKeeps ==
    ASSUME DiskTyped, NEW s, IsMove(s.old, s.new), NEW n \in Present
    PROVE  MovedBy(s)[n] = Carry(where[n], s.old, s.new) /\ MovedBy(s)[n] \in Paths
BY PresentPath, CarryShape DEF MovedBy, Present

LEMMA ReplacingNothing ==
    ASSUME NEW s, Below(s.new) = {}
    PROVE  Replacing(s) = MovedBy(s)
BY DEF Replacing, MovedBy

(***************************************************************************)
(* While nobody interferes, what the fallback looked at is still so.       *)
(***************************************************************************)
LookedAt == pc = "replace" /\ mishaps = 0 => Below(Step.new) = {}

LEMMA LookedAtStep == ASSUME Base, LookedAt, [Next]_vars PROVE LookedAt'
<1> SUFFICES ASSUME pc' = "replace", mishaps' = 0 PROVE (Below(Step.new) = {})'
  BY DEF LookedAt
<1>1. mishaps \in Nat /\ pc \in Phases
  BY TypeParts, RunAssumption DEF Base, RunTyped
<1>2. CASE UNCHANGED vars
  BY <1>2 DEF vars, LookedAt, Step, Below, Present, Nodes
<1>3. CASE LookStep
  <2>1. NodeKind(Step.new) = "missing" /\ UNCHANGED <<tree, where, steps, next>>
    BY <1>3 DEF LookStep, Goto, Raise, planVars
  <2>2. Below(Step.new) = {}
    BY <2>1, KindsTyped
  <2> QED BY <2>1, <2>2 DEF Step, Below, Present, Nodes
<1>4. CASE OtherProcess
  BY <1>1, <1>4 DEF OtherProcess, Create, Delete, Interfere
<1>5. ~ValidateRows /\ ~CompilePass /\ ~CompileDone /\ ~BindPlan /\ ~Revalidate
  BY DEF ValidateRows, CompilePass, CompileDone, BindPlan, Revalidate, Goto, Refuse
<1>6. ~SkipStep /\ ~CheckStep /\ ~MoveStep /\ ~ReplaceStep /\ ~RenamesDone /\ ~Done
  BY DEF SkipStep, CheckStep, MoveStep, ReplaceStep, RenamesDone, Done, Goto, Raise, Advance
<1>7. \A l \in links : ~Retarget(l)
  BY DEF Retarget, Goto, Raise
<1> QED BY <1>2, <1>3, <1>4, <1>5, <1>6, <1>7 DEF Next, Press

(***************************************************************************)
(* No rename loses a file: a system call that never replaces does not, and *)
(* neither does the fallback of --force while nobody interferes            *)
(* (safety.py:620-660, 769-783).                                           *)
(***************************************************************************)
THEOREM NoRenameReplaces == Spec => NoFileReplaced
<1>1. Init => Base /\ LookedAt
  BY BaseInit DEF Init, LookedAt
<1>2. Base /\ LookedAt /\ [Next]_vars => (Base /\ LookedAt)'
  BY BaseStep, LookedAtStep
<1>3. ASSUME Base, LookedAt, [Next]_vars
      PROVE  [Press /\ (tree.atomic \/ mishaps = 0) => \A n \in Present : where'[n] # Nowhere]_vars
  <2> USE <1>3
  <2> SUFFICES ASSUME Next, Press, tree.atomic \/ mishaps = 0, NEW n \in Present
               PROVE  where'[n] # Nowhere
    OBVIOUS
  <2>1. where[n] # Nowhere /\ DiskTyped
    BY TypeParts DEF Base, Present
  <2>2. CASE Still \/ PassAppended \/ PlanBound \/ (\E l \in links : Retargeted(l))
    BY <2>1, <2>2 DEF Still, PassAppended, PlanBound, Retargeted
  <2>3. CASE Moved
    <3>1. where' = MovedBy(Step)
      <4>1. CASE pc = "move"
        BY <2>3, <4>1 DEF Moved
      <4>2. CASE pc = "replace"
        <5>1. mishaps = 0
          BY <4>2 DEF Base, PhaseOK
        <5>2. Below(Step.new) = {}
          BY <4>2, <5>1 DEF LookedAt
        <5> QED BY <2>3, <4>2, <5>2, ReplacingNothing DEF Moved
      <4> QED BY <2>3, <4>1, <4>2 DEF Moved
    <3>2. IsMove(Step.old, Step.new)
      BY <2>3, StepMoves DEF Moved
    <3>3. where'[n] \in Paths
      BY <2>1, <3>1, <3>2, MovedKeeps
    <3> QED BY <3>3, RunAssumption
  <2>4. CASE Disturbed
    <3>1. mishaps' = mishaps + 1 /\ mishaps \in Nat
      BY <2>4, TypeParts, RunAssumption DEF Base, RunTyped, Disturbed
    <3>2. mishaps' = mishaps
      BY DEF Press, ValidateRows, CompilePass, CompileDone, BindPlan, Revalidate, SkipStep,
         CheckStep, MoveStep, LookStep, ReplaceStep, RenamesDone, Retarget, Done, Goto, Refuse,
         Raise, Advance
    <3> QED BY <3>1, <3>2
  <2> QED BY <2>2, <2>3, <2>4, StepCases
<1> QED BY <1>1, <1>2, <1>3, PTL DEF Spec, NoFileReplaced

-----------------------------------------------------------------------------
(* Where the files are. *)

LEMMA NothingMade ==
    ASSUME NEW seq, MoveList(seq), NEW p \in Paths
    PROVE  Along(seq, {}, p)[Len(seq)] = p /\ Back(seq, {}, p)[0] = p
<1>1. Len(seq) \in Nat /\ 0 \in 0..Len(seq) /\ Len(seq) \in 0..Len(seq)
  BY DEF MoveList
<1>2. Along(seq, {}, p)[Len(seq)] = Along(seq, {}, p)[0] /\ Along(seq, {}, p)[0] = p
  BY <1>1, AlongIdle, AlongSteps
<1>3. Back(seq, {}, p)[0] = p
  BY <1>1, BackIdle
<1> QED BY <1>2, <1>3

Before(on, j) == on \subseteq 1..(j - 1)

(***************************************************************************)
(* The translation and the way back, when one more move is made.           *)
(***************************************************************************)
LEMMA MoveMade ==
    ASSUME NEW seq, MoveList(seq), NEW j \in 1..Len(seq), NEW on, Before(on, j),
           NEW p \in Paths, NEW q \in Paths,
           q = Along(seq, on, p)[Len(seq)], p = Back(seq, on, q)[0],
           Under(q, seq[j].old) \/ ~Under(q, seq[j].new)
    PROVE  LET off == on \cup {j}
               r == Carry(q, seq[j].old, seq[j].new)
           IN  /\ r = Along(seq, off, p)[Len(seq)]
               /\ p = Back(seq, off, r)[0]
<1> DEFINE n == Len(seq)
           off == on \cup {j}
           r == Carry(q, seq[j].old, seq[j].new)
<1>1. /\ n \in Nat /\ j \in Nat /\ j - 1 \in Nat /\ j - 1 <= n
      /\ j - 1 \in 0..n /\ j \in 0..n /\ n \in (j - 1)..n /\ n \in j..n /\ j - 1 \in 0..(j - 1)
      /\ 0 \in 0..(j - 1)
  BY DEF MoveList
<1>2. IsMove(seq[j].old, seq[j].new) /\ r \in Paths
  BY CarryShape DEF MoveList
<1>3. SameMoves(seq, seq, j - 1) /\ SameOn(on, off, 1, j - 1) /\ SameOn(off, on, 1, j - 1)
  BY <1>1 DEF SameMoves, SameOn, Before
<1>4. (\A k \in ((j - 1) + 1)..n : k \notin on) /\ (\A k \in (j + 1)..n : k \notin off)
  BY <1>1 DEF Before
<1> HIDE DEF n, off, r
<1>5. Along(seq, off, p)[n] = r
  <2>1. Along(seq, on, p)[j - 1] = q
    <3>1. \A k \in (j - 1)..n : Along(seq, on, p)[k] = Along(seq, on, p)[j - 1]
      BY <1>1, <1>4, AlongIdle DEF n
    <3> QED BY <1>1, <3>1 DEF n
  <2>2. Along(seq, off, p)[j - 1] = q
    BY <1>1, <1>3, <2>1, AlongAgree DEF n
  <2>3. Along(seq, off, p)[j] = r
    BY <2>2, AlongSteps DEF AlongStep, off, r
  <2> QED BY <1>1, <1>4, <2>3, AlongIdle DEF n
<1>6. Back(seq, off, r)[0] = p
  <2>1. Back(seq, off, r)[j] = r
    BY <1>1, <1>2, <1>4, BackIdle DEF n
  <2>2. Back(seq, off, r)[j - 1] = q
    <3>1. Back(seq, off, r)[j - 1] = BackStep(seq, off, j, r)
      BY <1>2, <2>1, BackSteps
    <3>2. Carry(r, seq[j].new, seq[j].old) = q
      BY <1>2, CarryBack DEF r
    <3> QED BY <3>1, <3>2 DEF BackStep, off
  <2>3. Back(seq, on, q)[j - 1] = q
    BY <1>1, <1>4, BackIdle DEF n
  <2>4. Back(seq, off, r)[0] = Back(seq, on, q)[0]
    <3>1. PICK m \in Nat : m = j - 1
      BY <1>1
    <3>2. /\ m <= Len(seq) /\ SameMoves(seq, seq, m) /\ SameOn(off, on, 1, m)
          /\ Back(seq, off, r)[m] = Back(seq, on, q)[m]
      BY <1>1, <1>3, <2>2, <2>3, <3>1 DEF n
    <3>3. \A k \in 0..m : Back(seq, off, r)[k] = Back(seq, on, q)[k]
      BY <1>2, <3>2, BackAgree
    <3> QED BY <3>3
  <2> QED BY <2>4
<1> QED BY <1>5, <1>6 DEF n, off, r

LEMMA ExecutedIds ==
    ASSUME PlanTyped, NEW ids, ids \subseteq DOMAIN steps
    PROVE  Executed(steps, ids) = ids
BY DEF PlanTyped, Executed

LEMMA ExecutedSteps ==
    ASSUME Base
    PROVE  /\ executed \subseteq DOMAIN steps /\ Executed(steps, executed) = executed
           /\ executed \subseteq 1..(next - 1) /\ next \in Nat \ {0}
<1>1. PlanTyped /\ RunTyped
  BY TypeParts DEF Base
<1>2. Len(steps) \in Nat /\ DOMAIN steps = 1..Len(steps)
  BY <1>1, StepsShape
<1>3. executed \subseteq DOMAIN steps /\ executed \subseteq 1..(next - 1) /\ next \in Nat \ {0}
  BY <1>1, <1>2 DEF RunTyped
<1> QED BY <1>1, <1>3, ExecutedIds

LEMMA TranslationsMade ==
    ASSUME Base
    PROVE  TranslationsTrue <=>
              \A e \in tree.files \cap Present :
                 /\ where[e] = Along(steps, executed, e)[Len(steps)]
                 /\ e = Back(steps, executed, where[e])[0]
BY ExecutedSteps DEF TranslationsTrue, Translate, ReverseTranslate

(***************************************************************************)
(* What a move does to the file that it leaves.                            *)
(***************************************************************************)
LEMMA MovedFile ==
    ASSUME Base, Moved, NEW e \in tree.files, where'[e] # Nowhere
    PROVE  /\ e \in Present /\ e \in Paths /\ where[e] \in Paths
           /\ where'[e] = Carry(where[e], Step.old, Step.new)
           /\ ~Under(where[e], Step.new)
<1>1. DiskTyped /\ e \in Nodes /\ e \in Paths
  BY TypeParts, TreeShape DEF Base, DiskTyped, Nodes, IsInventory
<1>2. where'[e] = MovedBy(Step)[e] /\ e \notin Below(Step.new)
  <2>1. CASE pc = "move"
    BY <2>1 DEF Moved
  <2>2. CASE pc = "replace"
    <3>1. where'[e] = IF e \in Below(Step.new) THEN Nowhere ELSE MovedBy(Step)[e]
      BY <1>1, <2>2 DEF Moved, Replacing
    <3> QED BY <3>1
  <2> QED BY <2>1, <2>2 DEF Moved
<1>3. e \in Present
  BY <1>1, <1>2 DEF MovedBy
<1>4. where'[e] = Carry(where[e], Step.old, Step.new) /\ ~Under(where[e], Step.new)
  BY <1>1, <1>2, <1>3 DEF MovedBy, Below
<1>5. where[e] \in Paths
  BY <1>1, <1>3, PresentPath
<1> QED BY <1>1, <1>3, <1>4, <1>5

(***************************************************************************)
(* A step of the plan that is made from here.                              *)
(***************************************************************************)
LEMMA MovedPlan ==
    ASSUME Base, Moved
    PROVE  /\ MoveList(steps) /\ next \in 1..Len(steps) /\ Step = steps[next]
           /\ Before(executed, next) /\ executed' = executed \cup {next}
           /\ steps' = steps /\ tree' = tree
<1>1. pc \in {"move", "replace"}
  BY DEF Moved
<1>2. next \in DOMAIN steps /\ PlanTyped
  BY <1>1, TypeParts DEF Base, PhaseOK
<1> QED BY <1>2, StepsShape, ExecutedSteps DEF Moved, planVars, Step, Before

LEMMA StepsPrimed ==
    ASSUME PlanTyped'
    PROVE  /\ Len(steps') \in Nat /\ DOMAIN steps' = 1..Len(steps') /\ MoveList(steps')
           /\ steps' \in Seq(PlanSteps)
<1>1. steps' \in Seq(PlanSteps)
  BY DEF PlanTyped
<1>2. Len(steps') \in Nat /\ DOMAIN steps' = 1..Len(steps')
  BY <1>1, LenProperties
<1>3. \A i \in DOMAIN steps' : IsMove(steps'[i].old, steps'[i].new)
  BY MoveShape DEF PlanTyped
<1> QED BY <1>1, <1>2, <1>3 DEF MoveList

(***************************************************************************)
(* Planning and binding leave the files where they were captured.          *)
(***************************************************************************)
LEMMA PlanningStep ==
    ASSUME Base, PassAppended \/ PlanBound
    PROVE  executed = {} /\ UNCHANGED <<tree, where, executed>>
<1>1. pc \in Early
  BY DEF PassAppended, PlanBound, Early
<1> QED BY <1>1 DEF Base, PhaseOK, PassAppended, PlanBound

LEMMA FilesKept ==
    ASSUME Base, Disturbed, NEW e \in tree.files, where'[e] # Nowhere
    PROVE  e \in Present /\ where'[e] = where[e]
<1>1. DiskTyped /\ e \in Nodes /\ e \notin Foreign
  BY RunAssumption, TypeParts, TreeShape DEF Base, DiskTyped, Nodes, IsInventory
<1>2. where'[e] = where[e]
  BY <1>1 DEF Disturbed, DiskTyped, Nodes
<1> QED BY <1>1, <1>2 DEF Present

LEMMA TranslationsStep == ASSUME Base, TranslationsTrue, [Next]_vars PROVE TranslationsTrue'
<1>1. Base' /\ PlanTyped'
  BY BaseStep, TypeParts DEF Base
<1>2. CASE Still \/ (\E l \in links : Retargeted(l))
  BY <1>2 DEF Still, Retargeted, planVars, TranslationsTrue, Present, Nodes
<1>3. CASE PassAppended \/ PlanBound
  <2>1. executed = {} /\ UNCHANGED <<tree, where, executed>> /\ Executed(steps, {}) = {}
        /\ Executed(steps', {}) = {}
    BY <1>3, PlanningStep DEF Executed
  <2>2. MoveList(steps) /\ MoveList(steps')
    BY <1>1, TypeParts, StepsShape, StepsPrimed DEF Base
  <2>3. ASSUME NEW e \in tree.files \cap Present
        PROVE  /\ where[e] = Translate(steps', {}, e)
               /\ e = ReverseTranslate(steps', {}, where[e])
    <3>1. e \in Paths /\ where[e] \in Paths
      BY TypeParts, TreeShape, PresentPath DEF Base, DiskTyped, IsInventory
    <3>2. where[e] = Along(steps, {}, e)[Len(steps)]
      BY <2>1 DEF TranslationsTrue, Translate
    <3>3. where[e] = e
      BY <2>2, <3>1, <3>2, NothingMade
    <3> QED BY <2>1, <2>2, <3>1, <3>3, NothingMade DEF Translate, ReverseTranslate
  <2> QED BY <2>1, <2>3 DEF TranslationsTrue, Present, Nodes
<1>4. CASE Moved
  <2>1. /\ MoveList(steps) /\ next \in 1..Len(steps) /\ Step = steps[next]
        /\ Before(executed, next) /\ executed' = executed \cup {next}
        /\ UNCHANGED <<steps, tree>>
    BY <1>4, MovedPlan
  <2>2. Executed(steps', executed') = executed \cup {next}
    <3>1. executed \cup {next} \subseteq DOMAIN steps
      <4>1. next \in DOMAIN steps
        BY <2>1 DEF MoveList
      <4> QED BY <4>1, ExecutedSteps
    <3> QED BY <2>1, <3>1, TypeParts, ExecutedIds DEF Base
  <2>3. ASSUME NEW e \in tree.files, where'[e] # Nowhere
        PROVE  /\ where'[e] = Along(steps, executed \cup {next}, e)[Len(steps)]
               /\ e = Back(steps, executed \cup {next}, where'[e])[0]
    <3>1. /\ e \in Present /\ e \in Paths /\ where[e] \in Paths
          /\ where'[e] = Carry(where[e], steps[next].old, steps[next].new)
          /\ ~Under(where[e], steps[next].new)
      BY <1>4, <2>1, <2>3, MovedFile
    <3>2. where[e] = Along(steps, executed, e)[Len(steps)] /\ e = Back(steps, executed, where[e])[0]
      BY <3>1, TranslationsMade
    <3>3. LET r == Carry(where[e], steps[next].old, steps[next].new)
          IN  /\ r = Along(steps, executed \cup {next}, e)[Len(steps)]
              /\ e = Back(steps, executed \cup {next}, r)[0]
      BY <2>1, <3>1, <3>2, MoveMade
    <3> QED BY <3>1, <3>3
  <2> QED BY <2>1, <2>2, <2>3 DEF TranslationsTrue, Translate, ReverseTranslate, Present, Nodes
<1>5. CASE Disturbed
  <2>1. UNCHANGED <<tree, steps, executed>>
    BY <1>5 DEF Disturbed, planVars
  <2>2. \A e \in tree.files : where'[e] # Nowhere => e \in Present /\ where'[e] = where[e]
    BY <1>5, FilesKept
  <2> QED BY <2>1, <2>2 DEF TranslationsTrue, Present, Nodes
<1> QED BY <1>2, <1>3, <1>4, <1>5, StepCases

LEMMA TranslationsInit == Init => TranslationsTrue
<1> SUFFICES ASSUME Init PROVE TranslationsTrue
  OBVIOUS
<1>1. Base /\ executed = {} /\ Executed(steps, executed) = {}
  BY BaseInit DEF Init, Executed
<1>2. ASSUME NEW e \in tree.files \cap Present PROVE e \in Paths /\ where[e] = e
  <2>1. e \in Paths
    BY <1>1, TypeParts, TreeShape DEF Base, DiskTyped, IsInventory
  <2> QED BY <2>1 DEF Init
<1>3. MoveList(steps)
  BY <1>1, TypeParts, StepsShape DEF Base
<1> QED BY <1>1, <1>2, <1>3, NothingMade DEF TranslationsTrue, Translate, ReverseTranslate

(***************************************************************************)
(* Whatever was planned, skipped or disturbed, the executed steps say      *)
(* where every file is, and the way back says where it was captured        *)
(* (substitutions.py:135-169).                                             *)
(***************************************************************************)
THEOREM FilesWhereTranslated == Spec => []TranslationsTrue
<1>1. Init => Base /\ TranslationsTrue
  BY BaseInit, TranslationsInit
<1>2. Base /\ TranslationsTrue /\ [Next]_vars => (Base /\ TranslationsTrue)'
  BY BaseStep, TranslationsStep
<1> QED BY <1>1, <1>2, PTL DEF Spec

-----------------------------------------------------------------------------
(* Where the plan takes every file. *)

(***************************************************************************)
(* One list of moves after another.                                        *)
(***************************************************************************)
Joined(s, t, u) ==
    /\ Len(u) = Len(s) + Len(t) /\ SameMoves(s, u, Len(s))
    /\ \A k \in 1..Len(t) : u[Len(s) + k].old = t[k].old /\ u[Len(s) + k].new = t[k].new

LEMMA AlongJoined ==
    ASSUME NEW s, MoveList(s), NEW t, MoveList(t), NEW u, MoveList(u), Joined(s, t, u),
           NEW p \in Paths
    PROVE  /\ \A k \in 0..Len(s) : Along(u, DOMAIN u, p)[k] = Along(s, DOMAIN s, p)[k]
           /\ \A k \in 0..Len(t) :
                Along(u, DOMAIN u, p)[Len(s) + k]
                   = Along(t, DOMAIN t, Along(s, DOMAIN s, p)[Len(s)])[k]
<1> DEFINE n == Len(s)
           l == Len(t)
           f == Along(u, DOMAIN u, p)
           q == Along(s, DOMAIN s, p)[n]
           g == Along(t, DOMAIN t, q)
<1>1. /\ n \in Nat /\ l \in Nat /\ Len(u) = n + l /\ n <= Len(u) /\ n \in 0..n
      /\ DOMAIN s = 1..n /\ DOMAIN t = 1..l /\ DOMAIN u = 1..(n + l)
  BY DEF MoveList, Joined
<1>2. \A k \in 0..n : f[k] = Along(s, DOMAIN s, p)[k]
  <2>1. SameMoves(s, u, n) /\ SameOn(DOMAIN s, DOMAIN u, 1, n) /\ n <= Len(s)
    BY <1>1 DEF Joined, SameOn
  <2> QED BY <1>1, <2>1, AlongAgree
<1>3. q \in Paths
  BY <1>1, AlongSteps
<1> HIDE DEF n, l, f, q, g
<1>4. ASSUME NEW k \in 1..l
      PROVE  /\ f[n + k] = Carry(f[n + k - 1], t[k].old, t[k].new)
             /\ g[k] = Carry(g[k - 1], t[k].old, t[k].new)
  <2>1. n + k \in 1..Len(u) /\ n + k \in DOMAIN u /\ k \in DOMAIN t /\ k \in 1..Len(t)
    BY <1>1 DEF l
  <2>2. f[n + k] = AlongStep(u, DOMAIN u, n + k, f[n + k - 1])
    <3>1. PICK i \in 1..Len(u) : i = n + k /\ i - 1 = n + k - 1
      BY <1>1, <2>1
    <3>2. f[i] = AlongStep(u, DOMAIN u, i, f[i - 1])
      BY AlongSteps DEF f
    <3> QED BY <3>1, <3>2
  <2>3. g[k] = AlongStep(t, DOMAIN t, k, g[k - 1])
    BY <1>3, <2>1, AlongSteps DEF g
  <2>4. u[n + k].old = t[k].old /\ u[n + k].new = t[k].new
    BY <2>1 DEF Joined, n
  <2> QED BY <2>1, <2>2, <2>3, <2>4 DEF AlongStep
<1> DEFINE S == {k \in 0..l : f[n + k] = g[k]}
<1>5. 0 \in S
  BY <1>1, <1>2, <1>3, AlongSteps DEF g, q, n
<1>6. ASSUME NEW k \in 0..(l - 1), k \in S PROVE k + 1 \in S
  <2>1. k + 1 \in 1..l /\ n + (k + 1) - 1 = n + k /\ (k + 1) - 1 = k /\ f[n + k] = g[k]
    BY <1>1, <1>6
  <2>2. /\ f[n + (k + 1)] = Carry(f[n + (k + 1) - 1], t[k + 1].old, t[k + 1].new)
        /\ g[k + 1] = Carry(g[(k + 1) - 1], t[k + 1].old, t[k + 1].new)
    BY <1>4, <2>1
  <2>3. f[n + (k + 1)] = g[k + 1]
    BY <2>1, <2>2
  <2> QED BY <1>1, <2>1, <2>3
<1>7. \A k \in 0..l : k \in S
  <2> HIDE DEF S
  <2> QED BY <1>1, <1>5, <1>6, Upwards
<1> QED BY <1>2, <1>7 DEF n, l, f, q, g

(***************************************************************************)
(* The planned place of every entry is where the whole plan takes it, and  *)
(* past compilation the rows change none of these places.                  *)
(***************************************************************************)
Full(e) == Along(steps, DOMAIN steps, e)

PlanLeads ==
    /\ \A e \in tree.files : current[e] = Full(e)[Len(steps)]
    /\ pc \notin {"validate", "compile", "refused"} => Movers = {}

LEMMA PassJoined ==
    ASSUME DiskTyped, PlanTyped, NoneConverges
    PROVE  /\ MoveList(steps) /\ MoveList(PassSteps) /\ MoveList(steps \o PassSteps)
           /\ Joined(steps, PassSteps, steps \o PassSteps)
           /\ \A e \in tree.files : \A k \in 0..Len(PassSteps) :
                 Along(InOrder(PassMoves), DOMAIN InOrder(PassMoves), current[e])[k]
                    = Along(PassSteps, DOMAIN PassSteps, current[e])[k]
           /\ \A e \in tree.files :
                 After(e) = Along(PassSteps, DOMAIN PassSteps, current[e])[Len(PassSteps)]
<1> DEFINE moves == InOrder(PassMoves)
           n == Len(PassSteps)
<1>1. /\ MoveList(steps) /\ DOMAIN steps = 1..Len(steps) /\ Len(steps) \in Nat
      /\ MoveList(PassSteps) /\ MoveList(moves) /\ Len(moves) = n /\ n \in Nat
      /\ SameMoves(moves, PassSteps, n)
  BY StepsShape, PassShape
<1>2. /\ MoveList(steps \o PassSteps) /\ Len(steps \o PassSteps) = Len(steps) + n
      /\ \A i \in DOMAIN steps : (steps \o PassSteps)[i] = steps[i]
      /\ \A i \in 1..n : (steps \o PassSteps)[Len(steps) + i] = PassSteps[i]
  BY Appended
<1> HIDE DEF moves
<1>3. Joined(steps, PassSteps, steps \o PassSteps)
  BY <1>1, <1>2 DEF Joined, SameMoves
<1>4. ASSUME NEW e \in tree.files
      PROVE  \A k \in 0..n : Along(moves, DOMAIN moves, current[e])[k]
                                = Along(PassSteps, DOMAIN PassSteps, current[e])[k]
  <2>1. current[e] \in Paths
    BY DEF PlanTyped
  <2>2. SameOn(DOMAIN moves, DOMAIN PassSteps, 1, n) /\ n <= Len(moves)
    BY <1>1 DEF SameOn, MoveList
  <2> QED BY <1>1, <2>1, <2>2, AlongAgree
<1>5. ASSUME NEW e \in tree.files
      PROVE  After(e) = Along(PassSteps, DOMAIN PassSteps, current[e])[n]
  BY <1>1, <1>4 DEF After, Carried, moves
<1> QED BY <1>1, <1>2, <1>3, <1>4, <1>5 DEF moves

LEMMA PassLeads ==
    ASSUME Base, PlanLeads, PassAppended, NEW e \in tree.files
    PROVE  current'[e] = Along(steps', DOMAIN steps', e)[Len(steps')]
<1>1. DiskTyped /\ PlanTyped /\ NoneConverges /\ e \in Paths
  BY TypeParts, TreeShape DEF Base, PassAppended, PassAccepted, DiskTyped, IsInventory
<1>2. /\ current[e] = Along(steps, DOMAIN steps, e)[Len(steps)]
      /\ steps' = steps \o PassSteps /\ current'[e] = After(e)
  BY DEF PlanLeads, Full, PassAppended
<1>3. /\ MoveList(steps) /\ MoveList(PassSteps) /\ MoveList(steps')
      /\ Joined(steps, PassSteps, steps')
      /\ After(e) = Along(PassSteps, DOMAIN PassSteps, current[e])[Len(PassSteps)]
  BY <1>1, <1>2, PassJoined
<1>4. Along(steps', DOMAIN steps', e)[Len(steps) + Len(PassSteps)] = After(e)
  <2>1. Len(PassSteps) \in 0..Len(PassSteps)
    BY <1>3 DEF MoveList
  <2>2. \A k \in 0..Len(PassSteps) :
           Along(steps', DOMAIN steps', e)[Len(steps) + k]
              = Along(PassSteps, DOMAIN PassSteps, Along(steps, DOMAIN steps, e)[Len(steps)])[k]
    BY <1>1, <1>3, AlongJoined
  <2> QED BY <1>2, <1>3, <2>1, <2>2
<1> QED BY <1>2, <1>3, <1>4 DEF Joined

LEMMA PlanLeadsStep == ASSUME Base, PlanLeads, [Next]_vars PROVE PlanLeads'
<1> USE DEF planVars
<1>1. CASE PassAppended
  <2>1. \A e \in tree.files : current'[e] = Along(steps', DOMAIN steps', e)[Len(steps')]
    BY <1>1, PassLeads
  <2> QED BY <1>1, <2>1 DEF PassAppended, PlanLeads, Full
<1>2. CASE PlanBound
  <2>1. DiskTyped /\ PlanTyped /\ PlanTyped'
    BY BaseStep, TypeParts DEF Base
  <2>2. /\ MoveList(steps) /\ MoveList(steps') /\ Len(steps') = Len(steps)
        /\ DOMAIN steps' = DOMAIN steps /\ DOMAIN steps = 1..Len(steps) /\ Len(steps) \in Nat
        /\ SameMoves(steps, steps', Len(steps))
    BY <1>2, <2>1, BoundShape, StepsShape, StepsPrimed DEF SameMoves
  <2>3. ASSUME NEW e \in tree.files
        PROVE  Along(steps', DOMAIN steps', e)[Len(steps')] = Along(steps, DOMAIN steps, e)[Len(steps)]
    <3>1. e \in Paths
      BY <2>1, TreeShape DEF DiskTyped, IsInventory
    <3>2. SameOn(DOMAIN steps, DOMAIN steps', 1, Len(steps)) /\ Len(steps) <= Len(steps')
      BY <2>2 DEF SameOn
    <3>3. \A k \in 0..Len(steps) :
             Along(steps, DOMAIN steps, e)[k] = Along(steps', DOMAIN steps', e)[k]
      BY <2>2, <3>1, <3>2, AlongAgree
    <3> QED BY <2>2, <3>3
  <2> QED BY <1>2, <2>3 DEF PlanBound, PlanLeads, Full, Movers
<1>3. CASE UNCHANGED <<tree, rows, current, steps>>
  <2>1. pc' \notin {"validate", "compile", "refused"} =>
           pc \notin {"validate", "compile", "refused"} \/ Movers = {}
    <3>1. CASE UNCHANGED vars \/ OtherProcess
      BY <3>1 DEF vars, OtherProcess, Create, Delete
    <3>2. CASE Press
      BY <3>2 DEF Press, ValidateRows, CompilePass, CompileDone, BindPlan, Revalidate, SkipStep,
         CheckStep, MoveStep, LookStep, ReplaceStep, RenamesDone, Retarget, Done, Goto, Refuse,
         Raise, Advance
    <3> QED BY <3>1, <3>2 DEF Next
  <2> QED BY <1>3, <2>1 DEF PlanLeads, Full, Movers
<1> QED BY <1>1, <1>2, <1>3, StepCases DEF Still, Moved, Retargeted, Disturbed

(***************************************************************************)
(* A pass that found nothing to rename ended the plan, and a press that    *)
(* skipped none of it leaves nothing the rows would still rename           *)
(* (substitutions.py, engine.py).                                          *)
(***************************************************************************)
THEOREM OnePressIsEnough == Spec => []NothingLeftToRename
<1> DEFINE Inv == Base /\ TranslationsTrue /\ PlanLeads
<1>1. Init => Inv
  <2> SUFFICES ASSUME Init PROVE TranslationsTrue /\ PlanLeads
    BY BaseInit
  <2>1. TranslationsTrue
    BY TranslationsInit
  <2>2. Base /\ MoveList(steps) /\ DOMAIN steps = {}
    BY BaseInit, TypeParts, StepsShape DEF Base, Init
  <2>3. \A e \in tree.files : e \in Paths
    BY <2>2, TypeParts, TreeShape DEF Base, DiskTyped, IsInventory
  <2>4. \A e \in tree.files : Full(e)[Len(steps)] = e
    BY <2>2, <2>3, NothingMade DEF Full
  <2> QED BY <2>1, <2>4 DEF PlanLeads, Init
<1>2. Inv /\ [Next]_vars => Inv'
  BY BaseStep, TranslationsStep, PlanLeadsStep
<1>3. Inv => NothingLeftToRename
  <2> SUFFICES ASSUME Inv, pc = "done", executed = DOMAIN steps, NEW e \in tree.files \cap Present
               PROVE  Changed(rows, where[e]) = {}
    BY DEF NothingLeftToRename
  <2>1. where[e] = Full(e)[Len(steps)]
    BY TranslationsMade DEF Full
  <2>2. where[e] = current[e] /\ e \notin Movers
    BY <2>1 DEF PlanLeads
  <2> QED BY <2>2 DEF Movers
<1> QED BY <1>1, <1>2, <1>3, PTL DEF Spec

-----------------------------------------------------------------------------
(* Links follow. *)

(***************************************************************************)
(* A move carries a path and what lies under it alike: a prefix shorter    *)
(* than the moved one keeps every name.                                    *)
(***************************************************************************)
LEMMA CarryMonotone ==
    ASSUME NEW p \in Paths, NEW q \in Paths, Under(p, q), NEW old, NEW new, IsMove(old, new)
    PROVE  Under(Carry(p, old, new), Carry(q, old, new))
<1> DEFINE cp == Carry(p, old, new)
           cq == Carry(q, old, new)
<1> SUFFICES Under(cp, cq)
  OBVIOUS
<1>1. /\ cp \in Paths /\ cq \in Paths /\ Len(cp) = Len(p) /\ Len(cq) = Len(q)
      /\ Under(p, old) => \A i \in 1..Len(p) : cp[i] = IF i <= Len(old) THEN new[i] ELSE p[i]
      /\ Under(q, old) => \A i \in 1..Len(q) : cq[i] = IF i <= Len(old) THEN new[i] ELSE q[i]
      /\ ~Under(p, old) => cp = p
      /\ ~Under(q, old) => cq = q
  BY CarryShape
<1>2. Len(p) \in Nat /\ Len(q) \in Nat /\ Len(old) \in Nat
  BY PathShape DEF IsMove
<1> HIDE DEF cp, cq
<1>3. CASE Under(q, old)
  <2>1. Under(p, old)
    BY <1>3, UnderTransitive DEF IsMove
  <2>2. Len(q) <= Len(p) /\ \A i \in 1..Len(q) : i \in 1..Len(p) /\ p[i] = q[i]
    BY <1>2 DEF Under
  <2>3. \A i \in 1..Len(q) : cp[i] = cq[i]
    BY <1>1, <1>3, <2>1, <2>2
  <2> QED BY <1>1, <2>2, <2>3 DEF Under
<1>4. CASE ~Under(q, old) /\ Under(p, old)
  <2>1. Len(q) < Len(old)
    <3>1. ~(Len(old) <= Len(q))
      BY <1>4, PrefixesNest DEF IsMove, Under
    <3> QED BY <1>2, <3>1
  <2>2. \A i \in 1..Len(q) : cp[i] = q[i]
    <3> SUFFICES ASSUME NEW i \in 1..Len(q) PROVE cp[i] = q[i]
      OBVIOUS
    <3>1. i \in 1..Len(p) /\ i <= Len(old) /\ i \in 1..(Len(old) - 1) /\ i \in 1..Len(old)
      BY <1>2, <2>1 DEF Under
    <3>2. cp[i] = new[i] /\ new[i] = old[i]
      BY <1>1, <1>4, <3>1 DEF IsMove
    <3> QED BY <1>4, <3>1, <3>2 DEF Under
  <2>3. Len(q) <= Len(p)
    BY DEF Under
  <2> QED BY <1>1, <1>4, <2>2, <2>3 DEF Under
<1>5. CASE ~Under(q, old) /\ ~Under(p, old)
  BY <1>1, <1>5
<1> QED BY <1>3, <1>4, <1>5

StaysUnder(seq, on, p, q) ==
    \A k \in 0..Len(seq) : /\ Under(Along(seq, on, p)[k], Along(seq, on, q)[k])
                           /\ Len(Along(seq, on, p)[k]) = Len(p)

LEMMA AlongMonotone ==
    ASSUME NEW seq, MoveList(seq), NEW on, NEW p \in Paths, NEW q \in Paths, Under(p, q)
    PROVE  StaysUnder(seq, on, p, q)
<1> DEFINE f == Along(seq, on, p)
           g == Along(seq, on, q)
           n == Len(seq)
           S == {k \in 0..n : Under(f[k], g[k]) /\ Len(f[k]) = Len(p)}
<1>1. /\ f \in [0..n -> Paths] /\ g \in [0..n -> Paths] /\ f[0] = p /\ g[0] = q /\ n \in Nat
      /\ \A k \in 1..n : f[k] = AlongStep(seq, on, k, f[k - 1]) /\ g[k] = AlongStep(seq, on, k, g[k - 1])
  BY AlongSteps DEF MoveList
<1> HIDE DEF f, g
<1>2. 0 \in S
  BY <1>1
<1>3. ASSUME NEW k \in 0..(n - 1), k \in S PROVE k + 1 \in S
  <2>1. PICK i \in 1..n : i = k + 1 /\ i - 1 = k
    BY <1>1
  <2>2. f[i] = AlongStep(seq, on, i, f[k]) /\ g[i] = AlongStep(seq, on, i, g[k])
    BY <1>1, <2>1
  <2>3. f[k] \in Paths /\ g[k] \in Paths /\ Under(f[k], g[k]) /\ Len(f[k]) = Len(p)
    BY <1>1, <1>3
  <2>4. IsMove(seq[i].old, seq[i].new)
    BY DEF MoveList
  <2>5. Under(f[i], g[i])
    BY <2>2, <2>3, <2>4, CarryMonotone DEF AlongStep
  <2>6. Len(f[i]) = Len(p)
    BY <2>2, <2>3, StepsTyped
  <2> QED BY <1>1, <2>1, <2>5, <2>6
<1>4. \A k \in 0..n : k \in S
  <2> HIDE DEF S, n
  <2> QED BY <1>1, <1>2, <1>3, Upwards
<1> QED BY <1>4 DEF f, g, StaysUnder

LEMMA TranslateMonotone ==
    ASSUME Base, NEW p \in Paths, NEW q \in Paths, Under(p, q), NEW ids
    PROVE  /\ Under(Translate(steps, ids, p), Translate(steps, ids, q))
           /\ Translate(steps, ids, p) \in Paths
           /\ Len(Translate(steps, ids, p)) = Len(p)
<1>1. MoveList(steps) /\ PlanTyped
  BY TypeParts, StepsShape DEF Base
<1>2. Len(steps) \in 0..Len(steps)
  BY <1>1 DEF MoveList
<1>3. StaysUnder(steps, Executed(steps, ids), p, q)
  BY <1>1, AlongMonotone
<1>4. Translate(steps, ids, p) \in Paths
  BY <1>1, TranslateTyped
<1> QED BY <1>2, <1>3, <1>4 DEF Translate, StaysUnder

(***************************************************************************)
(* A retargeted link names, from where it is, the place its target has.    *)
(***************************************************************************)
Tells(t, l) ==
    Resolve(t, Parent(Translate(steps, executed, l))) = Translate(steps, executed, tree.target[l])

LinksTold ==
    /\ pc \in {"retarget", "done"} => \A l \in tree.links \ links : Tells(text[l], l)
    /\ pc = "done" => links = {}

LEMMA LinkPaths ==
    ASSUME Base, NEW l \in tree.links
    PROVE  /\ l \in Paths /\ tree.target[l] \in Paths /\ l \in tree.files
           /\ Translate(steps, executed, l) \in Paths
           /\ Translate(steps, executed, tree.target[l]) \in Paths
<1>1. l \in Paths /\ tree.target[l] \in Paths /\ l \in tree.files
  BY TypeParts, TreeShape DEF Base, DiskTyped, IsInventory
<1> QED BY <1>1, TypeParts, TranslateTyped DEF Base

(***************************************************************************)
(* The text of a link whose target no step moved is right unchanged: the   *)
(* part it leaves out was not moved either.                                *)
(***************************************************************************)
LEMMA TextKept ==
    ASSUME Base, NEW l \in tree.links, Translate(steps, executed, tree.target[l]) = tree.target[l]
    PROVE  Tells(RelPath(tree.target[l], Parent(l)), l)
<1> DEFINE p == tree.target[l]
           m == Translate(steps, executed, l)
           t == RelPath(p, Parent(l))
<1>1. p \in Paths /\ l \in Paths /\ m \in Paths
  BY LinkPaths
<1>2. Len(m) = Len(l) /\ Translate(steps, executed, p) = p
  BY <1>1, UnderSelf, TranslateMonotone
<1> HIDE DEF p, m
<1>3. /\ Parent(l) \in Seq(Names) /\ Len(Parent(l)) = Len(l) - 1
      /\ Parent(m) \in Seq(Names) /\ Len(Parent(m)) = Len(l) - 1
      /\ \A i \in 1..(Len(l) - 1) : Parent(l)[i] = l[i] /\ Parent(m)[i] = m[i]
      /\ Len(l) \in Nat /\ Len(p) \in Nat
  BY <1>1, <1>2, ParentTyped, PathIsSeq
<1>4. PICK k \in Nat : IsText(t, p, Parent(l), k)
  BY <1>1, <1>3, RelPathText
<1>5. k \in 0..Len(p) /\ k \in 0..(Len(l) - 1) /\ \A i \in 1..k : p[i] = l[i]
  BY <1>3, <1>4 DEF IsText
<1>6. \A i \in 1..k : p[i] = m[i]
  <2> SUFFICES ASSUME k # 0 PROVE \A i \in 1..k : p[i] = m[i]
    OBVIOUS
  <2> DEFINE q == SubSeq(p, 1, k)
             r == Translate(steps, executed, q)
  <2>1. q \in Paths /\ Len(q) = k /\ Under(p, q) /\ \A i \in 1..k : q[i] = p[i]
    BY <1>1, <1>5, PrefixTyped
  <2> HIDE DEF q
  <2>2. Under(l, q)
    BY <1>3, <1>5, <2>1 DEF Under
  <2>3. r \in Paths /\ Len(r) = k /\ Under(p, r) /\ Under(m, r)
    BY <1>1, <1>2, <2>1, <2>2, UnderSelf, TranslateMonotone DEF m
  <2> HIDE DEF r
  <2> QED BY <2>3 DEF Under
<1>7. Resolve(t, Parent(m)) = p
  <2>1. \A i \in 1..k : p[i] = Parent(m)[i]
    BY <1>3, <1>5, <1>6
  <2> HIDE DEF t
  <2> QED BY <1>1, <1>3, <1>4, <2>1, TextResolves
<1> QED BY <1>2, <1>7 DEF Tells, p, m

LEMMA TextRenewed ==
    ASSUME Base, NEW l \in tree.links, SourceTarget(l) = tree.target[l]
    PROVE  Tells(NewText(l), l)
BY LinkPaths, ResolveRelPath DEF Tells, NewText

LEMMA LinksToldStep == ASSUME Base, LinksTold, [Next]_vars PROVE LinksTold'
<1> USE DEF planVars
<1>1. CASE UNCHANGED <<tree, text, steps, executed, links, pc>>
  BY <1>1 DEF LinksTold, Tells
<1>2. CASE RenamesDone
  <2>1. links' = tree'.links /\ pc' = "retarget"
    BY <1>2 DEF RenamesDone, Goto
  <2> QED BY <2>1 DEF LinksTold
<1>3. CASE Done
  <2>1. pc = "retarget" /\ links = {} /\ links' = {} /\ UNCHANGED <<tree, text, steps, executed>>
    BY <1>3 DEF Done, Goto
  <2> QED BY <2>1 DEF LinksTold, Tells
<1>4. CASE \E l \in links : Retargeted(l)
  <2>1. PICK l \in links : Retargeted(l)
    BY <1>4
  <2>2. /\ pc = "retarget" /\ pc' = "retarget" /\ links' = links \ {l} /\ l \in tree.links
        /\ UNCHANGED <<tree, steps, executed>>
    BY <2>1, TypeParts DEF Base, TextTypedOK, Retargeted
  <2>3. l \in Pending /\ DiskTyped /\ TextOK
    BY <2>1, <2>2, TypeParts DEF Base, Pending
  <2>4. SourceTarget(l) = tree.target[l] /\ text[l] = RelPath(tree.target[l], Parent(l))
    BY <2>2, <2>3, SourceTargetCaptured DEF TextOK
  <2>5. text' = text \/ text' = [text EXCEPT ![l] = NewText(l)]
    BY <2>1 DEF Retargeted
  <2>6. Tells(text'[l], l)
    <3>1. CASE Translate(steps, executed, tree.target[l]) = tree.target[l]
      <4>1. text' = text
        BY <2>1, <2>4, <3>1 DEF Retargeted
      <4> QED BY <2>2, <2>4, <3>1, <4>1, TextKept
    <3>2. CASE Translate(steps, executed, tree.target[l]) # tree.target[l]
      <4>1. text'[l] = NewText(l)
        <5>1. DOMAIN text = tree.links
          BY TypeParts DEF Base, TextTypedOK
        <5>2. text' = [text EXCEPT ![l] = NewText(l)]
          BY <2>1, <2>4, <3>2 DEF Retargeted
        <5> QED BY <2>2, <5>1, <5>2
      <4> QED BY <2>2, <2>4, <4>1, TextRenewed
    <3> QED BY <3>1, <3>2
  <2>7. ASSUME NEW k \in tree.links \ links, k # l PROVE Tells(text'[k], k)
    <3>1. DOMAIN text = tree.links
      BY TypeParts DEF Base, TextTypedOK
    <3>2. text'[k] = text[k]
      BY <2>5, <2>7, <3>1
    <3> QED BY <2>2, <2>7, <3>2 DEF LinksTold
  <2> QED BY <2>2, <2>6, <2>7 DEF LinksTold, Tells
<1>5. CASE pc' \notin {"retarget", "done"}
  BY <1>5 DEF LinksTold
<1>6. CASE UNCHANGED vars \/ OtherProcess
  BY <1>1, <1>6 DEF vars, OtherProcess, Create, Delete
<1>7. CASE Press
  <2>1. ASSUME NEW l \in links, Retarget(l) PROVE Retargeted(l) \/ pc' = "raised"
    BY <2>1 DEF Retarget, Retargeted, Goto, Raise
  <2>2. CASE ValidateRows \/ CompilePass \/ CompileDone \/ BindPlan \/ Revalidate \/ SkipStep
             \/ CheckStep \/ MoveStep \/ LookStep \/ ReplaceStep
    BY <1>5, <2>2 DEF ValidateRows, CompilePass, CompileDone, BindPlan, Revalidate, SkipStep,
       CheckStep, MoveStep, LookStep, ReplaceStep, Goto, Refuse, Raise, Advance
  <2> QED BY <1>2, <1>3, <1>4, <1>5, <1>7, <2>1, <2>2 DEF Press
<1> QED BY <1>6, <1>7 DEF Next

(***************************************************************************)
(* A retargeted link, and one that needs no new text, names the captured   *)
(* file or directory of files it named before the press, wherever both     *)
(* have been taken (engine.py, retargeting of relative symlinks).          *)
(***************************************************************************)
THEOREM LinksKeepTheirTargets == Spec => []LinksFollow
<1> DEFINE Inv == Base /\ TranslationsTrue /\ LinksTold
<1>1. Init => Inv
  BY BaseInit, TranslationsInit DEF Init, LinksTold
<1>2. Inv /\ [Next]_vars => Inv'
  BY BaseStep, TranslationsStep, LinksToldStep
<1>3. Inv => LinksFollow
  <2> SUFFICES ASSUME Inv, pc = "done", NEW l \in tree.links \cap Present,
                      NEW e \in tree.files \cap Present, Under(e, tree.target[l])
               PROVE  Under(where[e], Resolve(text[l], Parent(where[l])))
    BY DEF LinksFollow
  <2>1. l \in tree.files /\ tree.target[l] \in Paths /\ e \in Paths
    BY LinkPaths, TypeParts, TreeShape DEF Base, DiskTyped, IsInventory
  <2>2. where[l] = Translate(steps, executed, l) /\ where[e] = Translate(steps, executed, e)
    BY <2>1 DEF TranslationsTrue
  <2>3. Resolve(text[l], Parent(where[l])) = Translate(steps, executed, tree.target[l])
    BY <2>2 DEF LinksTold, Tells
  <2> QED BY <2>1, <2>2, <2>3, TranslateMonotone
<1> QED BY <1>1, <1>2, <1>3, PTL DEF Spec

-----------------------------------------------------------------------------
(* An accepted plan fits the tree. *)

(***************************************************************************)
(* The way back of the whole tree is one, too: files stay apart.           *)
(***************************************************************************)
BackUnder(seq, on, p, q) == Under(Back(seq, on, p)[0], Back(seq, on, q)[0])

LEMMA BackMonotone ==
    ASSUME NEW seq, MoveList(seq), NEW on, NEW p \in Paths, NEW q \in Paths, Under(p, q)
    PROVE  BackUnder(seq, on, p, q)
<1> DEFINE f == Back(seq, on, p)
           g == Back(seq, on, q)
           n == Len(seq)
           S == {k \in 0..n : Under(f[k], g[k])}
<1>1. /\ f \in [0..n -> Paths] /\ g \in [0..n -> Paths] /\ f[n] = p /\ g[n] = q /\ n \in Nat
      /\ \A k \in 1..n : f[k - 1] = BackStep(seq, on, k, f[k]) /\ g[k - 1] = BackStep(seq, on, k, g[k])
  BY BackSteps DEF MoveList
<1> HIDE DEF f, g
<1>2. n \in S
  BY <1>1
<1>3. ASSUME NEW k \in 1..n, k \in S PROVE k - 1 \in S
  <2>1. f[k - 1] = BackStep(seq, on, k, f[k]) /\ g[k - 1] = BackStep(seq, on, k, g[k])
    BY <1>1
  <2>2. f[k] \in Paths /\ g[k] \in Paths /\ Under(f[k], g[k]) /\ k - 1 \in 0..n
    BY <1>1, <1>3
  <2>3. IsMove(seq[k].new, seq[k].old)
    BY MoveShape DEF MoveList
  <2>4. Under(f[k - 1], g[k - 1])
    BY <2>1, <2>2, <2>3, CarryMonotone DEF BackStep
  <2> QED BY <2>2, <2>4
<1>4. \A k \in 0..n : k \in S
  <2> HIDE DEF S, n
  <2> QED BY <1>1, <1>2, <1>3, Downwards
<1> QED BY <1>1, <1>4 DEF f, g, BackUnder

LEMMA FilesApart ==
    ASSUME Base, TranslationsTrue, NEW e \in tree.files \cap Present, NEW f \in tree.files \cap Present,
           Under(where[e], where[f])
    PROVE  e = f
<1>1. /\ MoveList(steps) /\ where[e] \in Paths /\ where[f] \in Paths
      /\ \A x, y \in tree.files : Under(x, y) => x = y
  BY TypeParts, StepsShape, PresentPath, TreeShape DEF Base, DiskTyped, IsInventory
<1>2. BackUnder(steps, executed, where[e], where[f])
  BY <1>1, BackMonotone
<1>3. e = Back(steps, executed, where[e])[0] /\ f = Back(steps, executed, where[f])[0]
  BY TranslationsMade
<1> QED BY <1>1, <1>2, <1>3 DEF BackUnder

(***************************************************************************)
(* Step i was planned for the entry e in a pass that began after b steps:  *)
(* the steps between are deeper or beside it, it waits for every step that *)
(* carries e to where the pass found it, and its kind is that of e.        *)
(***************************************************************************)
Meets(seq, e, k) == Under(Along(seq, DOMAIN seq, e)[k - 1], seq[k].old)

Beside(seq, b, i) ==
    \A k \in (b + 1)..(i - 1) : seq[k].old # seq[i].old /\ Len(seq[k].old) >= Len(seq[i].old)

WaitsFor(seq, b, i, e) == \A k \in 1..b : Meets(seq, e, k) => k \in seq[i].preds

PlannedFor(seq, i, b, e, kind) ==
    /\ Beside(seq, b, i) /\ WaitsFor(seq, b, i, e)
    /\ Under(Along(seq, DOMAIN seq, e)[b], seq[i].old)
    /\ seq[i].kind = IF Along(seq, DOMAIN seq, e)[b] = seq[i].old THEN kind ELSE "directory"

PlanFits ==
    /\ \A e \in tree.files, k \in DOMAIN steps : Meets(steps, e, k) => k \in prior[e]
    /\ \A i \in DOMAIN steps : \E b \in 0..(i - 1), e \in tree.files :
          PlannedFor(steps, i, b, e, KindOf(e))

(***************************************************************************)
(* Whatever else was executed of the plan, a step whose predecessors were  *)
(* finds the entry where it was planned to.                                *)
(***************************************************************************)
LEMMA CarriedBeside ==
    ASSUME NEW p \in Paths, NEW q \in Paths, Under(p, q), NEW old, NEW new, IsMove(old, new),
           old # q, Len(old) >= Len(q)
    PROVE  Under(Carry(p, old, new), q)
<1> DEFINE c == Carry(p, old, new)
<1>1. /\ Len(p) \in Nat /\ Len(q) \in Nat /\ Len(old) \in Nat /\ old \in Paths
      /\ Len(q) <= Len(p) /\ \A i \in 1..Len(q) : p[i] = q[i]
  BY PathShape DEF IsMove, Under
<1>2. CASE ~Under(p, old)
  BY <1>2, CarryShape
<1>3. CASE Under(p, old)
  <2>1. Len(c) = Len(p) /\ \A i \in 1..Len(p) : c[i] = IF i <= Len(old) THEN new[i] ELSE p[i]
    BY <1>3, CarryShape
  <2>2. Len(old) <= Len(p) /\ \A i \in 1..Len(old) : p[i] = old[i]
    BY <1>3 DEF Under
  <2>3. Len(old) # Len(q)
    <3> SUFFICES ASSUME Len(old) = Len(q) PROVE FALSE
      OBVIOUS
    <3>1. \A i \in 1..Len(old) : old[i] = q[i]
      BY <1>1, <2>2
    <3> QED BY <1>1, <3>1, PathEqual
  <2>4. \A i \in 1..Len(q) : i \in 1..(Len(old) - 1) /\ i \in 1..Len(p) /\ i <= Len(old)
                             /\ i \in 1..Len(old)
    BY <1>1, <2>2, <2>3
  <2> HIDE DEF c
  <2>5. \A i \in 1..Len(q) : c[i] = q[i]
    BY <1>1, <2>1, <2>2, <2>4 DEF IsMove
  <2>6. Under(c, q)
    BY <1>1, <2>1, <2>5 DEF Under
  <2> QED BY <2>6 DEF c
<1> QED BY <1>2, <1>3

LEMMA PlannedMet ==
    ASSUME NEW seq, MoveList(seq), NEW i \in 1..Len(seq), NEW b \in 0..(i - 1), NEW e \in Paths,
           Beside(seq, b, i), WaitsFor(seq, b, i, e),
           Under(Along(seq, DOMAIN seq, e)[b], seq[i].old),
           NEW on, seq[i].preds \subseteq on
    PROVE  /\ \A k \in 0..b : Along(seq, on, e)[k] = Along(seq, DOMAIN seq, e)[k]
           /\ Under(Along(seq, on, e)[i - 1], seq[i].old)
<1> DEFINE n == Len(seq)
           f == Along(seq, on, e)
           g == Along(seq, DOMAIN seq, e)
           old == seq[i].old
<1>1. /\ n \in Nat /\ DOMAIN seq = 1..n /\ i \in Nat /\ i - 1 \in Nat /\ b \in Nat /\ b <= i - 1
      /\ i - 1 \in 0..n /\ b \in 0..n /\ i - 1 <= n
  BY DEF MoveList
<1>2. /\ f \in [0..n -> Paths] /\ f[0] = e /\ g \in [0..n -> Paths] /\ g[0] = e
      /\ \A k \in 1..n : f[k] = AlongStep(seq, on, k, f[k - 1])
      /\ \A k \in 1..n : g[k] = AlongStep(seq, DOMAIN seq, k, g[k - 1])
  BY AlongSteps
<1>3. \A k \in 1..n : IsMove(seq[k].old, seq[k].new)
  BY DEF MoveList
<1>4. \A k \in 1..b : k \in on \/ ~Under(g[k - 1], seq[k].old)
  BY DEF WaitsFor, Meets
<1>5. /\ \A k \in (b + 1)..(i - 1) : seq[k].old # old /\ Len(seq[k].old) >= Len(old)
      /\ Under(g[b], old) /\ old \in Paths
  BY <1>3 DEF Beside, IsMove
<1> HIDE DEF n, f, g, old
<1>6. \A k \in 0..b : f[k] = g[k]
  <2> DEFINE S == {k \in 0..b : f[k] = g[k]}
  <2>1. 0 \in S
    BY <1>1, <1>2
  <2>2. ASSUME NEW k \in 0..(b - 1), k \in S PROVE k + 1 \in S
    <3>1. PICK j \in 1..b : j = k + 1 /\ j - 1 = k /\ j \in 1..n
      BY <1>1
    <3>2. f[j] = AlongStep(seq, on, j, f[k]) /\ g[j] = AlongStep(seq, DOMAIN seq, j, g[k])
      BY <1>2, <3>1
    <3>3. f[k] = g[k] /\ (j \in on \/ ~Under(g[k], seq[j].old)) /\ j \in DOMAIN seq
      BY <1>1, <1>4, <2>2, <3>1
    <3>4. g[k] \in Paths /\ k \in 0..n
      BY <1>1, <1>2
    <3>5. f[j] = g[j]
      <4>1. CASE j \in on
        BY <3>2, <3>3, <4>1 DEF AlongStep
      <4>2. CASE j \notin on
        <5>1. Carry(g[k], seq[j].old, seq[j].new) = g[k]
          BY <1>3, <3>1, <3>3, <3>4, <4>2, CarryShape
        <5> QED BY <3>2, <3>3, <4>2, <5>1 DEF AlongStep
      <4> QED BY <4>1, <4>2
    <3> QED BY <1>1, <3>1, <3>5
  <2>3. \A k \in 0..b : k \in S
    <3> HIDE DEF S
    <3> QED BY <1>1, <2>1, <2>2, Upwards
  <2> QED BY <2>3
<1>7. Under(f[i - 1], old)
  <2>0. f[b] = g[b]
    BY <1>1, <1>6
  <2> DEFINE S == {k \in b..(i - 1) : Under(f[k], old)}
  <2>1. b \in S
    BY <1>1, <1>5, <2>0
  <2>2. ASSUME NEW k \in b..((i - 1) - 1), k \in S PROVE k + 1 \in S
    <3>1. PICK j \in (b + 1)..(i - 1) : j = k + 1 /\ j - 1 = k /\ j \in 1..n
      BY <1>1
    <3>2. f[j] = AlongStep(seq, on, j, f[k])
      BY <1>2, <3>1
    <3>3. f[k] \in Paths /\ Under(f[k], old)
      BY <1>1, <1>2, <2>2
    <3>4. seq[j].old # old /\ Len(seq[j].old) >= Len(old)
      BY <1>5, <3>1
    <3>5. Under(Carry(f[k], seq[j].old, seq[j].new), old)
      BY <1>3, <1>5, <3>1, <3>3, <3>4, CarriedBeside
    <3>6. Under(f[j], old)
      BY <3>2, <3>3, <3>5 DEF AlongStep
    <3> QED BY <1>1, <3>1, <3>6
  <2>3. \A k \in b..(i - 1) : k \in S
    <3> HIDE DEF S
    <3> QED BY <1>1, <2>1, <2>2, Upwards
  <2> QED BY <1>1, <2>3
<1> QED BY <1>6, <1>7 DEF f, g, old

LEMMA PlannedFound ==
    ASSUME NEW seq, MoveList(seq), NEW i \in 1..Len(seq), NEW b \in 0..(i - 1), NEW e \in Paths,
           NEW kind, PlannedFor(seq, i, b, e, kind),
           NEW on, Before(on, i), seq[i].preds \subseteq on
    PROVE  /\ Under(Along(seq, on, e)[Len(seq)], seq[i].old)
           /\ Along(seq, on, e)[Len(seq)] = seq[i].old
                 <=> Along(seq, DOMAIN seq, e)[b] = seq[i].old
<1> DEFINE n == Len(seq)
           f == Along(seq, on, e)
           g == Along(seq, DOMAIN seq, e)
           old == seq[i].old
<1>1. /\ n \in Nat /\ DOMAIN seq = 1..n /\ i \in Nat /\ i - 1 \in Nat /\ b \in Nat /\ b <= i - 1
      /\ i - 1 \in 0..n /\ b \in 0..n /\ i - 1 <= n
  BY DEF MoveList
<1>2. /\ f \in [0..n -> Paths] /\ f[0] = e /\ g \in [0..n -> Paths] /\ g[0] = e
      /\ \A k \in 1..n : f[k] = AlongStep(seq, on, k, f[k - 1])
      /\ \A k \in 1..n : g[k] = AlongStep(seq, DOMAIN seq, k, g[k - 1])
  BY AlongSteps
<1>3. StaysUnder(seq, on, e, e) /\ StaysUnder(seq, DOMAIN seq, e, e)
  BY UnderSelf, AlongMonotone
<1>4. \A k \in 0..n : Len(f[k]) = Len(e) /\ Len(g[k]) = Len(e)
  BY <1>3 DEF StaysUnder
<1>5. \A k \in 1..n : IsMove(seq[k].old, seq[k].new)
  BY DEF MoveList
<1>6. Under(g[b], old) /\ old \in Paths
  BY <1>5 DEF PlannedFor, IsMove
<1>7. \A k \in on : k \in 1..(i - 1)
  BY DEF Before
<1> HIDE DEF n, f, g, old
<1>8. f[b] = g[b] /\ Under(f[i - 1], old)
  <2>1. b \in 0..b
    BY <1>1
  <2> QED BY <2>1, PlannedMet DEF PlannedFor, f, g, old
<1>9. f[n] = f[i - 1]
  <2>1. \A k \in ((i - 1) + 1)..n : k \notin on
    BY <1>1, <1>7
  <2>2. \A k \in (i - 1)..n : f[k] = f[i - 1]
    <3>1. PICK m \in 0..Len(seq) : m = i - 1
      BY <1>1 DEF n
    <3>2. \A k \in (m + 1)..Len(seq) : k \notin on
      BY <2>1, <3>1 DEF n
    <3>3. \A k \in m..Len(seq) : Along(seq, on, e)[k] = Along(seq, on, e)[m]
      BY <3>2, AlongIdle
    <3> QED BY <3>1, <3>3 DEF f, n
  <2> QED BY <1>1, <2>2
<1>10. f[n] = old <=> g[b] = old
  <2>1. f[n] \in Paths /\ g[b] \in Paths /\ Len(f[n]) = Len(g[b])
    BY <1>1, <1>2, <1>4
  <2>2. ASSUME NEW p \in Paths, Under(p, old) PROVE p = old <=> Len(p) = Len(old)
    <3>1. \A k \in 1..Len(old) : p[k] = old[k]
      BY <2>2 DEF Under
    <3> QED BY <1>6, <3>1, PathEqual
  <2> QED BY <1>6, <1>8, <1>9, <2>1, <2>2
<1> QED BY <1>8, <1>9, <1>10 DEF n, f, g, old

(***************************************************************************)
(* A plan that grows, or is bound, keeps its steps.                        *)
(***************************************************************************)
SameSteps(s, t) ==
    /\ Len(s) <= Len(t) /\ SameMoves(s, t, Len(s))
    /\ \A k \in 1..Len(s) : s[k].preds = t[k].preds /\ s[k].kind = t[k].kind

SamePath(s, t, e) == \A k \in 0..Len(s) : Along(s, DOMAIN s, e)[k] = Along(t, DOMAIN t, e)[k]

LEMMA FullKept ==
    ASSUME NEW s, MoveList(s), NEW t, MoveList(t), SameSteps(s, t), NEW e \in Paths
    PROVE  SamePath(s, t, e)
<1>1. /\ Len(s) \in Nat /\ Len(s) <= Len(s) /\ Len(s) <= Len(t) /\ SameMoves(s, t, Len(s))
      /\ SameOn(DOMAIN s, DOMAIN t, 1, Len(s))
  BY DEF MoveList, SameSteps, SameOn
<1>2. \A k \in 0..Len(s) : Along(s, DOMAIN s, e)[k] = Along(t, DOMAIN t, e)[k]
  BY <1>1, AlongAgree
<1> QED BY <1>2 DEF SamePath

LEMMA MeetsKept ==
    ASSUME NEW s, MoveList(s), NEW t, MoveList(t), SameSteps(s, t), NEW e \in Paths,
           NEW k \in 1..Len(s)
    PROVE  Meets(s, e, k) <=> Meets(t, e, k)
<1>1. k - 1 \in 0..Len(s) /\ s[k].old = t[k].old
  BY DEF MoveList, SameSteps, SameMoves
<1>2. SamePath(s, t, e)
  BY FullKept
<1> QED BY <1>1, <1>2 DEF SamePath, Meets

LEMMA PlannedKept ==
    ASSUME NEW s, MoveList(s), NEW t, MoveList(t), SameSteps(s, t), NEW e \in Paths,
           NEW i \in 1..Len(s), NEW b \in 0..(i - 1), NEW kind, PlannedFor(s, i, b, e, kind)
    PROVE  PlannedFor(t, i, b, e, kind)
<1>1. Len(s) \in Nat /\ i \in Nat /\ b \in 0..Len(s) /\ b \in Nat
  BY DEF MoveList
<1>2. \A k \in 1..Len(s) : s[k].old = t[k].old /\ s[k].preds = t[k].preds /\ s[k].kind = t[k].kind
  BY DEF SameSteps, SameMoves
<1>3. Along(s, DOMAIN s, e)[b] = Along(t, DOMAIN t, e)[b]
  BY <1>1, FullKept DEF SamePath
<1>4. Beside(t, b, i)
  <2>1. \A k \in (b + 1)..(i - 1) : k \in 1..Len(s)
    BY <1>1
  <2> QED BY <1>2, <2>1 DEF PlannedFor, Beside
<1>5. WaitsFor(t, b, i, e)
  <2>1. \A k \in 1..b : k \in 1..Len(s)
    BY <1>1
  <2>2. \A k \in 1..b : Meets(t, e, k) => Meets(s, e, k)
    BY <2>1, MeetsKept
  <2> QED BY <1>2, <2>2 DEF PlannedFor, WaitsFor
<1> QED BY <1>2, <1>3, <1>4, <1>5 DEF PlannedFor

(***************************************************************************)
(* The steps of a pass are planned for the entries it found.               *)
(***************************************************************************)
LEMMA SourceChosen ==
    ASSUME DiskTyped, PlanTyped, NEW m \in PassMoves, NEW id
    PROVE  \E e \in SourcesOf(m) :
              StepOf(m, id).kind = IF current[e] = m.old THEN KindOf(e) ELSE "directory"
<1>1. PICK x \in SourcesOf(m) : TRUE
  BY DEF PassMoves, SourcesOf
<1>2. CASE \E e \in SourcesOf(m) : current[e] = m.old
  <2> DEFINE e == CHOOSE e \in SourcesOf(m) : current[e] = m.old
  <2>1. e \in SourcesOf(m) /\ current[e] = m.old
    BY <1>2
  <2>2. StepOf(m, id).kind = KindOf(e)
    BY <1>2 DEF StepOf
  <2> HIDE DEF e
  <2> QED BY <2>1, <2>2
<1>3. CASE ~\E e \in SourcesOf(m) : current[e] = m.old
  BY <1>1, <1>3 DEF StepOf
<1> QED BY <1>2, <1>3

LEMMA PassPlanned ==
    ASSUME Base, PlanLeads, PlanFits, NoneConverges, NEW j \in 1..Len(PassSteps)
    PROVE  \E e \in tree.files :
              PlannedFor(steps \o PassSteps, Len(steps) + j, Len(steps), e, KindOf(e))
<1> DEFINE n == Len(steps)
           moves == InOrder(PassMoves)
           plan == steps \o PassSteps
           i == n + j
<1>1. DiskTyped /\ PlanTyped
  BY TypeParts DEF Base
<1>2. /\ n \in Nat /\ DOMAIN steps = 1..n /\ MoveList(steps) /\ j \in Nat /\ n \in 0..n
      /\ Len(PassSteps) = Len(moves) /\ Len(moves) \in Nat /\ moves[j] \in PassMoves
      /\ PassSteps[j] = StepOf(moves[j], i) /\ PassSteps[j].old = moves[j].old
      /\ \A k \in 1..Len(moves) : PassSteps[k].old = moves[k].old /\ moves[k] \in PassMoves
      /\ \A k \in 1..Len(moves) : k < j => DeepestFirst(moves[k], moves[j])
  <2>1. n \in Nat /\ DOMAIN steps = 1..n /\ MoveList(steps) /\ n \in 0..n
    BY <1>1, StepsShape
  <2>2. j \in 1..Len(moves) /\ Len(PassSteps) = Len(moves) /\ Len(moves) \in Nat
    BY <1>1, PassShape
  <2>3. /\ PassSteps[j] = StepOf(moves[j], i)
        /\ \A k \in 1..Len(moves) : PassSteps[k].old = moves[k].old /\ moves[k] \in PassMoves
    BY <1>1, <2>2, PassShape
  <2>4. \A k \in 1..Len(moves) : k < j => DeepestFirst(moves[k], moves[j])
    BY <1>1, <2>2, PassShape
  <2> HIDE DEF n, moves, i
  <2> QED BY <2>1, <2>2, <2>3, <2>4
<1>3. /\ MoveList(plan) /\ MoveList(PassSteps) /\ Joined(steps, PassSteps, plan)
      /\ \A k \in DOMAIN steps : plan[k] = steps[k]
      /\ \A k \in 1..Len(PassSteps) : plan[n + k] = PassSteps[k]
  BY <1>1, Appended, PassJoined
<1> HIDE DEF n, moves, plan
<1>4. PICK e \in SourcesOf(moves[j]) :
         StepOf(moves[j], i).kind = IF current[e] = moves[j].old THEN KindOf(e) ELSE "directory"
  BY <1>1, <1>2, SourceChosen
<1>5. /\ e \in Movers /\ e \in tree.files /\ MoveOf(rows, current[e]) = moves[j]
      /\ Under(current[e], moves[j].old) /\ e \in Paths
  BY <1>1, <1>4, MoverMoves, TreeShape DEF SourcesOf, Movers, DiskTyped, IsInventory
<1>6. plan[i].kind = IF current[e] = plan[i].old THEN KindOf(e) ELSE "directory"
  BY <1>2, <1>3, <1>4
<1>7. \A k \in 0..n : Along(plan, DOMAIN plan, e)[k] = Along(steps, DOMAIN steps, e)[k]
  BY <1>2, <1>3, <1>5, AlongJoined DEF n
<1>8. Along(plan, DOMAIN plan, e)[n] = current[e]
  BY <1>2, <1>5, <1>7 DEF PlanLeads, Full, n
<1>9. Beside(plan, n, i)
  <2> SUFFICES ASSUME NEW k \in (n + 1)..(i - 1)
               PROVE  plan[k].old # plan[i].old /\ Len(plan[k].old) >= Len(plan[i].old)
    BY DEF Beside
  <2>1. PICK l \in 1..Len(moves) : k = n + l /\ l < j
    <3>1. k - n \in 1..Len(moves) /\ k = n + (k - n) /\ k - n < j
      BY <1>2
    <3> QED BY <3>1
  <2>2. plan[k].old = moves[l].old /\ plan[i].old = moves[j].old /\ DeepestFirst(moves[l], moves[j])
    BY <1>2, <1>3, <2>1
  <2>3. Sortable(PassMoves) /\ moves[l] \in PassMoves /\ moves[j] \in PassMoves
    BY <1>1, <1>2, PassSortable
  <2>4. moves[l].old # moves[j].old
    BY <2>2, <2>3, DeepestFirstStrict DEF Sortable
  <2>5. Len(moves[l].old) \in Nat /\ Len(moves[j].old) \in Nat
    BY <2>3, PathShape DEF Sortable, Moves
  <2>6. Len(moves[l].old) >= Len(moves[j].old)
    BY <2>2, <2>5 DEF DeepestFirst
  <2> QED BY <2>2, <2>4, <2>6
<1>10. WaitsFor(plan, n, i, e)
  <2> SUFFICES ASSUME NEW k \in 1..n, Meets(plan, e, k) PROVE k \in plan[i].preds
    BY DEF WaitsFor
  <2>1. k - 1 \in 0..n /\ k \in DOMAIN steps
    BY <1>2
  <2>2. plan[k] = steps[k]
    BY <1>3, <2>1
  <2>3. Meets(steps, e, k)
    BY <1>7, <2>1, <2>2 DEF Meets
  <2>4. k \in prior[e]
    BY <1>5, <2>1, <2>3 DEF PlanFits
  <2>5. plan[i].preds = UNION {prior[x] : x \in SourcesOf(moves[j])}
    BY <1>2, <1>3 DEF StepOf
  <2> QED BY <1>4, <2>4, <2>5
<1>11. Under(Along(plan, DOMAIN plan, e)[n], plan[i].old)
  BY <1>2, <1>3, <1>5, <1>8
<1>12. PlannedFor(plan, i, n, e, KindOf(e))
  BY <1>6, <1>8, <1>9, <1>10, <1>11 DEF PlannedFor
<1> QED BY <1>5, <1>12 DEF n, plan

LEMMA PassFits == ASSUME Base, PlanLeads, PlanFits, PassAppended PROVE PlanFits'
<1> DEFINE n == Len(steps)
           l == Len(PassSteps)
<1>1. DiskTyped /\ PlanTyped /\ NoneConverges /\ UNCHANGED tree
  BY TypeParts DEF Base, PassAppended, PassAccepted
<1>2. steps' = steps \o PassSteps
  BY DEF PassAppended
<1>3. /\ n \in Nat /\ l \in Nat /\ DOMAIN steps = 1..n /\ DOMAIN steps' = 1..(n + l)
      /\ MoveList(steps) /\ MoveList(steps') /\ MoveList(PassSteps)
      /\ Joined(steps, PassSteps, steps')
  BY <1>1, <1>2, StepsShape, Appended, PassJoined DEF MoveList
<1>4. /\ \A i \in 1..n : steps'[i] = steps[i]
      /\ \A i \in 1..l : /\ steps'[n + i] = PassSteps[i] /\ PassSteps[i].id = n + i
                         /\ i \in DOMAIN PassSteps
  BY <1>1, <1>2, <1>3, Appended, PassShape DEF MoveList
<1>5. SameSteps(steps, steps')
  BY <1>3, <1>4 DEF SameSteps, SameMoves, Joined
<1>6. \A e \in tree.files : e \in Paths
  BY <1>1, TreeShape DEF DiskTyped, IsInventory
<1> HIDE DEF n, l
<1>7. ASSUME NEW i \in 1..(n + l)
      PROVE  \/ i \in 1..n
             \/ \E j \in 1..l : i = n + j
  <2>1. CASE i > n
    <3>1. i - n \in 1..l /\ i = n + (i - n)
      BY <1>3, <2>1
    <3> QED BY <3>1
  <2>2. CASE ~(i > n)
    BY <1>3, <2>2
  <2> QED BY <2>1, <2>2
<1>8. ASSUME NEW e \in tree.files, NEW k \in 1..(n + l), Meets(steps', e, k)
      PROVE  k \in prior'[e]
  <2>1. prior'[e] = prior[e] \cup {PassSteps[i].id : i \in Carrying(e)}
    BY DEF PassAppended
  <2>2. CASE k \in 1..n
    <3>1. Meets(steps, e, k)
      BY <1>3, <1>5, <1>6, <1>8, <2>2, MeetsKept DEF n
    <3> QED BY <1>3, <2>1, <2>2, <3>1 DEF PlanFits
  <2>3. CASE \E j \in 1..l : k = n + j
    <3>1. PICK j \in 1..l : k = n + j
      BY <2>3
    <3>2. \A x \in 0..l : Along(steps', DOMAIN steps', e)[n + x]
                             = Along(PassSteps, DOMAIN PassSteps, current[e])[x]
      BY <1>3, <1>6, AlongJoined DEF PlanLeads, Full, n, l
    <3>3. j - 1 \in 0..l /\ k - 1 = n + (j - 1)
      BY <1>3, <3>1
    <3>4. steps'[k] = PassSteps[j] /\ PassSteps[j].id = k /\ j \in DOMAIN PassSteps
      BY <1>4, <3>1
    <3>5. Under(Along(PassSteps, DOMAIN PassSteps, current[e])[j - 1], PassSteps[j].old)
      BY <1>8, <3>2, <3>3, <3>4 DEF Meets
    <3>6. j \in Carrying(e)
      BY <3>4, <3>5 DEF Carrying
    <3> QED BY <2>1, <3>4, <3>6
  <2> QED BY <1>7, <2>2, <2>3
<1>9. ASSUME NEW i \in 1..(n + l)
      PROVE  \E b \in 0..(i - 1), e \in tree.files : PlannedFor(steps', i, b, e, KindOf(e))
  <2>1. CASE i \in 1..n
    <3>1. PICK b \in 0..(i - 1), e \in tree.files : PlannedFor(steps, i, b, e, KindOf(e))
      BY <1>3, <2>1 DEF PlanFits
    <3>2. PlannedFor(steps', i, b, e, KindOf(e))
      BY <1>3, <1>5, <1>6, <2>1, <3>1, PlannedKept DEF n
    <3> QED BY <3>2
  <2>2. CASE \E j \in 1..l : i = n + j
    <3>1. PICK j \in 1..l : i = n + j
      BY <2>2
    <3>2. PICK e \in tree.files : PlannedFor(steps', i, n, e, KindOf(e))
      BY <1>1, <1>2, <3>1, PassPlanned DEF n, l
    <3>3. n \in 0..(i - 1)
      BY <1>3, <3>1
    <3> QED BY <3>2, <3>3
  <2> QED BY <1>7, <2>1, <2>2
<1>10. tree' = tree /\ \A e : KindOf(e)' = KindOf(e)
  BY <1>1 DEF KindOf
<1> QED BY <1>3, <1>8, <1>9, <1>10 DEF PlanFits, KindOf

LEMMA PlanFitsStep == ASSUME Base, PlanLeads, PlanFits, [Next]_vars PROVE PlanFits'
<1>1. CASE PassAppended
  BY <1>1, PassFits
<1>2. CASE PlanBound
  <2>1. DiskTyped /\ PlanTyped /\ PlanTyped' /\ UNCHANGED <<tree, prior>>
    BY <1>2, BaseStep, TypeParts DEF Base, PlanBound
  <2>2. /\ MoveList(steps) /\ MoveList(steps') /\ DOMAIN steps' = DOMAIN steps
        /\ DOMAIN steps = 1..Len(steps) /\ SameSteps(steps', steps) /\ SameSteps(steps, steps')
    <3>1. /\ MoveList(steps) /\ MoveList(steps') /\ Len(steps') = Len(steps) /\ Len(steps) \in Nat
          /\ DOMAIN steps' = DOMAIN steps /\ DOMAIN steps = 1..Len(steps)
      BY <1>2, <2>1, BoundShape, StepsShape, StepsPrimed
    <3> QED BY <1>2, <2>1, <3>1, BoundShape DEF SameSteps, SameMoves
  <2>3. \A e \in tree.files : e \in Paths
    BY <2>1, TreeShape DEF DiskTyped, IsInventory
  <2>4. ASSUME NEW e \in tree.files, NEW k \in DOMAIN steps', Meets(steps', e, k)
        PROVE  k \in prior'[e]
    <3>1. k \in 1..Len(steps) /\ Meets(steps, e, k)
      BY <2>2, <2>3, <2>4, MeetsKept
    <3> QED BY <2>1, <2>2, <3>1 DEF PlanFits
  <2>5. ASSUME NEW i \in DOMAIN steps'
        PROVE  \E b \in 0..(i - 1), e \in tree.files : PlannedFor(steps', i, b, e, KindOf(e))
    <3>1. PICK b \in 0..(i - 1), e \in tree.files : PlannedFor(steps, i, b, e, KindOf(e))
      BY <2>2 DEF PlanFits
    <3>2. PlannedFor(steps', i, b, e, KindOf(e))
      BY <2>2, <2>3, <3>1, PlannedKept
    <3> QED BY <3>2
  <2> QED BY <2>1, <2>4, <2>5 DEF PlanFits, KindOf
<1>3. CASE UNCHANGED <<tree, steps, prior>>
  BY <1>3 DEF PlanFits, KindOf
<1> QED BY <1>1, <1>2, <1>3, StepCases DEF Still, Moved, Retargeted, Disturbed, planVars

(***************************************************************************)
(* While nobody interferes every captured file is there and no other, and  *)
(* what was checked of a step is still so when it is made.                 *)
(***************************************************************************)
AllThere == mishaps = 0 => Present = tree.files

Ready ==
    pc \in {"move", "replace"} /\ mishaps = 0 =>
        NodeKind(Step.old) = Step.kind /\ Below(Step.new) = {}

LEMMA MishapsCount ==
    ASSUME Base, [Next]_vars
    PROVE  mishaps' = 0 => mishaps = 0 /\ ~Disturbed
<1>1. mishaps \in Nat
  BY TypeParts, RunAssumption DEF Base, RunTyped
<1>2. Disturbed => mishaps' = mishaps + 1
  BY DEF Disturbed
<1>3. mishaps' = mishaps \/ Disturbed
  BY StepCases DEF Still, PassAppended, PlanBound, Moved, Retargeted
<1> QED BY <1>1, <1>2, <1>3

LEMMA AllThereStep == ASSUME Base, AllThere, Ready, [Next]_vars PROVE AllThere'
<1> SUFFICES ASSUME mishaps' = 0 PROVE Present' = tree'.files
  BY DEF AllThere
<1>1. mishaps = 0 /\ ~Disturbed /\ Present = tree.files
  BY MishapsCount DEF AllThere
<1>2. CASE UNCHANGED <<tree, where>>
  BY <1>1, <1>2 DEF Present, Nodes
<1>3. CASE Moved
  <2>1. tree' = tree /\ IsMove(Step.old, Step.new) /\ DiskTyped
    BY <1>3, StepMoves, TypeParts DEF Base, Moved
  <2>2. where' = MovedBy(Step)
    <3>1. CASE pc = "move"
      BY <1>3, <3>1 DEF Moved
    <3>2. CASE pc = "replace"
      BY <1>1, <1>3, <3>2, ReplacingNothing DEF Moved, Ready
    <3> QED BY <1>3, <3>1, <3>2 DEF Moved
  <2>3. \A n \in Present : where'[n] # Nowhere
    <3>1. \A n \in Present : where'[n] \in Paths
      BY <2>1, <2>2, MovedKeeps
    <3> QED BY <3>1, RunAssumption
  <2>4. \A n \in Nodes \ Present : where'[n] = Nowhere
    BY <2>2 DEF MovedBy
  <2>5. Present \subseteq Nodes
    BY DEF Present
  <2>6. Present' = {n \in Nodes : where'[n] # Nowhere}
    BY <2>1 DEF Present, Nodes
  <2> QED BY <1>1, <2>1, <2>3, <2>4, <2>5, <2>6
<1> QED BY <1>1, <1>2, <1>3, StepCases DEF Still, PassAppended, PlanBound, Retargeted, planVars

(***************************************************************************)
(* A step whose predecessors were executed finds what it was planned for.  *)
(***************************************************************************)
LEMMA KindFound ==
    ASSUME Base, TranslationsTrue, PlanFits, Present = tree.files,
           next \in DOMAIN steps, Step.preds \subseteq executed
    PROVE  NodeKind(Step.old) = Step.kind
<1>1. DiskTyped /\ PlanTyped /\ MoveList(steps) /\ next \in 1..Len(steps) /\ Before(executed, next)
  BY TypeParts, StepsShape, ExecutedSteps DEF Base, Before
<1>2. PICK b \in 0..(next - 1), e \in tree.files : PlannedFor(steps, next, b, e, KindOf(e))
  BY DEF PlanFits
<1>3. e \in Paths /\ where[e] = Along(steps, executed, e)[Len(steps)]
  BY <1>1, TreeShape, TranslationsMade DEF DiskTyped, IsInventory
<1>4. /\ Under(where[e], Step.old)
      /\ where[e] = Step.old <=> Along(steps, DOMAIN steps, e)[b] = Step.old
  BY <1>1, <1>2, <1>3, PlannedFound DEF Step
<1>5. Step.kind = IF where[e] = Step.old THEN KindOf(e) ELSE "directory"
  BY <1>2, <1>4 DEF PlannedFor, Step
<1>6. \A n \in Present : where[n] = Step.old => n = e
  <2>1. \A n \in Present : where[n] = Step.old => Under(where[e], where[n])
    BY <1>4
  <2> QED BY <2>1, FilesApart
<1>7. Below(Step.old) # {}
  BY <1>4 DEF Below
<1>8. CASE where[e] = Step.old
  <2> DEFINE n == CHOOSE n \in Present : where[n] = Step.old
  <2>1. NodeKind(Step.old) = KindOf(n) /\ n \in Present /\ where[n] = Step.old
    BY <1>7, <1>8 DEF NodeKind
  <2> HIDE DEF n
  <2> QED BY <1>5, <1>6, <1>8, <2>1
<1>9. CASE where[e] # Step.old
  <2>1. ~\E n \in Present : where[n] = Step.old
    BY <1>6, <1>9
  <2> QED BY <1>5, <1>7, <1>9, <2>1 DEF NodeKind
<1> QED BY <1>8, <1>9

LEMMA ReadyStep ==
    ASSUME Base, TranslationsTrue, PlanFits, AllThere, Ready, [Next]_vars
    PROVE  Ready'
<1> SUFFICES ASSUME pc' \in {"move", "replace"}, mishaps' = 0
             PROVE  (NodeKind(Step.old) = Step.kind /\ Below(Step.new) = {})'
  BY DEF Ready
<1> DEFINE Here == NodeKind(Step.old) = Step.kind /\ Below(Step.new) = {}
<1>1. mishaps = 0 /\ ~Disturbed /\ Present = tree.files
  BY MishapsCount DEF AllThere
<1>2. ASSUME UNCHANGED <<tree, where, steps, next>>, Here PROVE Here'
  BY <1>2 DEF NodeKind, KindOf, Below, Present, Nodes, Step
<1> HIDE DEF Here
<1>3. CASE CheckStep
  <2>1. /\ next \in DOMAIN steps /\ Step.preds \subseteq executed
        /\ NodeKind(Step.new) = "missing" /\ UNCHANGED <<tree, where, steps, next>>
    BY <1>3 DEF CheckStep, Skips, Goto, Raise, planVars
  <2>2. Here
    BY <1>1, <2>1, KindFound, KindsTyped DEF Here
  <2> QED BY <1>2, <2>1, <2>2 DEF Here
<1>4. CASE LookStep
  <2>1. pc = "move" /\ UNCHANGED <<tree, where, steps, next>>
    BY <1>4 DEF LookStep, Goto, Raise, planVars
  <2> QED BY <1>1, <1>2, <2>1 DEF Ready, Here
<1>5. CASE UNCHANGED vars
  BY <1>1, <1>2, <1>5 DEF vars, Ready, Here
<1>6. ~ValidateRows /\ ~CompilePass /\ ~CompileDone /\ ~BindPlan /\ ~Revalidate
  BY DEF ValidateRows, CompilePass, CompileDone, BindPlan, Revalidate, Goto, Refuse
<1>7. ~SkipStep /\ ~MoveStep /\ ~ReplaceStep /\ ~RenamesDone /\ ~Done
  BY DEF SkipStep, MoveStep, ReplaceStep, RenamesDone, Done, Goto, Raise, Advance
<1>8. \A l \in links : ~Retarget(l)
  BY DEF Retarget, Goto, Raise
<1>9. ~OtherProcess
  <2>1. OtherProcess => mishaps' = mishaps + 1
    BY DEF OtherProcess, Create, Delete, Interfere
  <2> QED BY <1>1, <2>1
<1> QED BY <1>3, <1>4, <1>5, <1>6, <1>7, <1>8, <1>9 DEF Next, Press

(***************************************************************************)
(* The conditions under which each step raises.                            *)
(***************************************************************************)
LEMMA NeverRaises ==
    ASSUME Base, TranslationsTrue, PlanFits, AllThere, Ready, AcceptedPlansRun, [Next]_vars
    PROVE  AcceptedPlansRun'
<1> SUFFICES ASSUME mishaps' = 0, pc' = "raised" PROVE FALSE
  BY DEF AcceptedPlansRun
<1>1. mishaps = 0 /\ ~Disturbed /\ Present = tree.files /\ pc # "raised"
  BY MishapsCount DEF AllThere, AcceptedPlansRun
<1>2. ~CheckStep
  <2> SUFFICES ASSUME CheckStep PROVE FALSE
    OBVIOUS
  <2>1. next \in DOMAIN steps /\ Step.preds \subseteq executed
    BY DEF CheckStep, Skips
  <2>2. NodeKind(Step.old) = Step.kind
    BY <1>1, <2>1, KindFound
  <2> QED BY <2>2 DEF CheckStep, Goto
<1>3. ASSUME pc \in {"move", "replace"}
      PROVE  NodeKind(Step.new) = "missing" /\ NodeKind(Step.old) # "missing"
  <2>1. NodeKind(Step.old) = Step.kind /\ Below(Step.new) = {}
    BY <1>1, <1>3 DEF Ready
  <2>2. Step.kind \in Kinds
    <3>1. steps[next] \in PlanSteps
      BY <1>3, StepMoves, StepsShape, TypeParts DEF Base
    <3> QED BY <3>1 DEF Step, PlanSteps
  <2> QED BY <2>1, <2>2, KindsTyped DEF Kinds
<1>4. ~MoveStep /\ ~LookStep /\ ~ReplaceStep
  BY <1>3 DEF MoveStep, LookStep, ReplaceStep, Goto, Advance
<1>5. ASSUME NEW l \in links PROVE ~Retarget(l)
  <2>1. l \in tree.links /\ l \in tree.files
    BY TypeParts, TreeShape DEF Base, TextTypedOK, DiskTyped, IsInventory
  <2>2. where[l] = Translate(steps, executed, l)
    BY <1>1, <2>1 DEF TranslationsTrue
  <2> QED BY <2>2 DEF Retarget, Goto
<1>6. ~ValidateRows /\ ~CompilePass /\ ~CompileDone /\ ~BindPlan /\ ~Revalidate
  BY DEF ValidateRows, CompilePass, CompileDone, BindPlan, Revalidate, Goto, Refuse
<1>7. ~SkipStep /\ ~RenamesDone /\ ~Done /\ ~UNCHANGED vars /\ ~OtherProcess
  BY <1>1 DEF SkipStep, RenamesDone, Done, Goto, Advance, vars, OtherProcess, Create, Delete
<1> QED BY <1>2, <1>4, <1>5, <1>6, <1>7 DEF Next, Press

(***************************************************************************)
(* All that holds of a run together: the plan, what was made of it, and how *)
(* far each file was taken.                                                *)
(***************************************************************************)
Running ==
    /\ Base /\ TranslationsTrue /\ PlanLeads /\ PlanFits /\ AllThere /\ Ready
    /\ AcceptedPlansRun

LEMMA RunningInit == Init => Running
<1> SUFFICES ASSUME Init PROVE Running
  OBVIOUS
<1>1. Base /\ TranslationsTrue /\ DOMAIN steps = {} /\ MoveList(steps)
  BY BaseInit, TranslationsInit, TypeParts, StepsShape DEF Base, Init
<1>2. \A e \in tree.files : e \in Paths /\ e # Nowhere /\ e \notin Foreign
  BY <1>1, TypeParts, TreeShape, RunAssumption DEF Base, DiskTyped, IsInventory
<1>3. PlanLeads
  <2>1. \A e \in tree.files : Full(e)[Len(steps)] = e
    BY <1>1, <1>2, NothingMade DEF Full
  <2> QED BY <2>1 DEF PlanLeads, Init
<1>4. PlanFits
  BY <1>1 DEF PlanFits
<1>5. Present = tree.files
  BY <1>2 DEF Init, Present, Nodes
<1>6. AllThere /\ Ready /\ AcceptedPlansRun
  BY <1>5 DEF Init, AllThere, Ready, AcceptedPlansRun
<1> QED BY <1>1, <1>3, <1>4, <1>6 DEF Running

LEMMA RunningStep == ASSUME Running, [Next]_vars PROVE Running'
BY BaseStep, TranslationsStep, PlanLeadsStep, PlanFitsStep, AllThereStep, ReadyStep, NeverRaises
   DEF Running

(***************************************************************************)
(* A plan that validation accepted fits the tree it was made for: while    *)
(* nobody interferes no check of its execution, and none of the            *)
(* retargeting, fails, whichever of its steps are skipped (engine.py,      *)
(* substitutions.py).                                                      *)
(***************************************************************************)
THEOREM AcceptedPlansAreRun == Spec => []AcceptedPlansRun
<1>1. Running /\ [Next]_vars => Running'
  BY RunningStep
<1>2. Running => AcceptedPlansRun
  BY DEF Running
<1> QED BY <1>1, <1>2, RunningInit, PTL DEF Spec

-----------------------------------------------------------------------------
(* The bytes of a path. *)

Sums(numbers) ==
    LET sum[k \in 0..Len(numbers)] == IF k = 0 THEN 0 ELSE sum[k - 1] + numbers[k]
    IN  sum

Numbers(f) == Len(f) \in Nat /\ \A k \in 1..Len(f) : f[k] \in Int

LEMMA NumbersTyped == ASSUME NEW n \in Nat, NEW f \in [1..n -> Int] PROVE Numbers(f) /\ Len(f) = n
BY DEF Numbers

LEMMA SumsSteps ==
    ASSUME NEW f, Numbers(f)
    PROVE  /\ Sums(f) \in [0..Len(f) -> Int] /\ Sums(f)[0] = 0
           /\ \A k \in 1..Len(f) : Sums(f)[k] = Sums(f)[k - 1] + f[k]
           /\ Total(f) = Sums(f)[Len(f)]
<1> DEFINE n == Len(f)
           g == [a \in (1..n) \X Int |-> a[2] + f[a[1]]]
           E(s) == s = [k \in 0..n |-> IF k = 0 THEN 0 ELSE s[k - 1] + f[k]]
           s == Sums(f)
<1>1. n \in Nat /\ g \in [(1..n) \X Int -> Int] /\ 0 \in Int
  BY DEF Numbers
<1>2. PICK h \in [0..n -> Int] : Follows(h, 0, g, n)
  <2> HIDE DEF g, n
  <2> QED BY <1>1, Recursion
<1>3. E(h)
  <2>1. h[0] = 0 /\ \A k \in 1..n : h[k] = g[<<k, h[k - 1]>>]
    BY <1>2 DEF Follows
  <2>2. ASSUME NEW k \in 1..n PROVE h[k] = h[k - 1] + f[k]
    <3>1. h[k - 1] \in Int
      BY <1>1
    <3> QED BY <2>1, <3>1
  <2> HIDE DEF g, n
  <2> QED BY <1>1, <2>1, <2>2
<1>4. s = CHOOSE x : E(x)
  BY Zenon DEF Sums
<1>5. E(s)
  <2> HIDE DEF E, s
  <2> QED BY <1>3, <1>4
<1>6. Total(f) = s[n]
  BY Zenon DEF Sums, Total
<1> HIDE DEF n, s
<1>7. s[0] = 0 /\ \A k \in 1..n : s[k] = s[k - 1] + f[k]
  BY <1>1, <1>5
<1>8. \A k \in 0..n : s[k] \in Int
  <2> DEFINE S == {k \in 0..n : s[k] \in Int}
  <2>1. 0 \in S
    BY <1>1, <1>7
  <2>2. ASSUME NEW k \in 0..(n - 1), k \in S PROVE k + 1 \in S
    <3>1. k + 1 \in 1..n /\ (k + 1) - 1 = k
      BY <1>1
    <3>2. s[k + 1] = s[k] + f[k + 1] /\ f[k + 1] \in Int
      BY <1>7, <3>1 DEF n, Numbers
    <3> QED BY <1>1, <2>2, <3>1, <3>2
  <2>3. \A k \in 0..n : k \in S
    <3> HIDE DEF S
    <3> QED BY <1>1, <2>1, <2>2, Upwards
  <2> QED BY <2>3
<1> QED BY <1>1, <1>5, <1>6, <1>7, <1>8 DEF n, s

LEMMA SumsNext ==
    ASSUME NEW f, Numbers(f), NEW k \in 0..(Len(f) - 1)
    PROVE  /\ Sums(f)[k + 1] = Sums(f)[k] + f[k + 1]
           /\ Sums(f)[k] \in Int /\ f[k + 1] \in Int
<1>1. k + 1 \in 1..Len(f) /\ (k + 1) - 1 = k /\ k \in 0..Len(f) /\ f[k + 1] \in Int
  BY DEF Numbers
<1>2. Sums(f)[k + 1] = Sums(f)[(k + 1) - 1] + f[k + 1] /\ Sums(f)[k] \in Int
  BY <1>1, SumsSteps
<1> QED BY <1>1, <1>2

LEMMA TotalMonotone ==
    ASSUME NEW n \in Nat, NEW f \in [1..n -> Int], NEW g \in [1..n -> Int],
           \A k \in 1..n : f[k] <= g[k]
    PROVE  Total(f) \in Int /\ Total(g) \in Int /\ Total(f) <= Total(g)
<1> DEFINE S == {k \in 0..n : Sums(f)[k] <= Sums(g)[k]}
<1>0. Numbers(f) /\ Numbers(g) /\ Len(f) = n /\ Len(g) = n
  BY NumbersTyped
<1>1. 0 \in S
  BY <1>0, SumsSteps
<1>2. ASSUME NEW k \in 0..(n - 1), k \in S PROVE k + 1 \in S
  <2>1. k + 1 \in 1..n /\ (k + 1) - 1 = k
    OBVIOUS
  <2>2. /\ Sums(f)[k + 1] = Sums(f)[k] + f[k + 1] /\ Sums(f)[k] \in Int
        /\ Sums(g)[k + 1] = Sums(g)[k] + g[k + 1] /\ Sums(g)[k] \in Int
    BY <1>0, SumsNext
  <2>3. f[k + 1] \in Int /\ g[k + 1] \in Int /\ f[k + 1] <= g[k + 1]
    BY <2>1
  <2> QED BY <1>2, <2>1, <2>2, <2>3
<1>3. \A k \in 0..n : k \in S
  <2> HIDE DEF S
  <2> QED BY <1>1, <1>2, Upwards
<1> QED BY <1>0, <1>3, SumsSteps

Widths(p) == [i \in 1..Len(p) |-> Width[p[i]]]

LEMMA WidthsTyped ==
    ASSUME NEW p \in Paths
    PROVE  /\ Widths(p) \in [1..Len(p) -> Int] /\ Len(p) \in Nat /\ Numbers(Widths(p))
           /\ Len(Widths(p)) = Len(p)
           /\ \A i \in 1..Len(p) : Width[p[i]] \in Nat
           /\ WidthOf(p) = Total(Widths(p)) + Len(p) - 1
           /\ WidthOf(p) \in Int /\ Total(Widths(p)) \in Int
           /\ Total(Widths(p)) = Sums(Widths(p))[Len(p)]
<1>1. Len(p) \in Nat /\ \A i \in 1..Len(p) : Width[p[i]] \in Nat
  BY PathShape, WidthAssumption, NamesAssumption
<1>2. Widths(p) \in [1..Len(p) -> Int]
  BY <1>1 DEF Widths
<1>3. WidthOf(p) = Total(Widths(p)) + Len(p) - 1
  BY DEF WidthOf, Widths
<1>4. Total(Widths(p)) \in Int
  BY <1>1, <1>2, TotalMonotone
<1>5. Numbers(Widths(p)) /\ Len(Widths(p)) = Len(p)
  BY <1>1, <1>2, NumbersTyped
<1>6. Total(Widths(p)) = Sums(Widths(p))[Len(p)]
  BY <1>5, SumsSteps
<1> QED BY <1>1, <1>2, <1>3, <1>4, <1>5, <1>6

LEMMA WidthsNext ==
    ASSUME NEW p \in Paths, NEW k \in 0..(Len(p) - 1)
    PROVE  /\ Sums(Widths(p))[k + 1] = Sums(Widths(p))[k] + Width[p[k + 1]]
           /\ Sums(Widths(p))[k] \in Int /\ Width[p[k + 1]] \in Int
<1>1. Len(p) \in Nat /\ k + 1 \in 1..Len(p)
  BY PathShape
<1>2. Widths(p)[k + 1] = Width[p[k + 1]]
  BY <1>1 DEF Widths
<1> QED BY <1>2, SumsNext, WidthsTyped

(***************************************************************************)
(* A path that is carried grows by as much as the prefix.                  *)
(***************************************************************************)
LEMMA CarriedWidth ==
    ASSUME NEW p \in Paths, NEW old, NEW new, IsMove(old, new), Under(p, old)
    PROVE  WidthOf(Carry(p, old, new)) = WidthOf(p) + (WidthOf(new) - WidthOf(old))
<1> DEFINE q == Carry(p, old, new)
           n == Len(p)
           d == Len(old)
           least(k) == IF k <= d THEN k ELSE d
           grown(k) == Sums(Widths(q))[k] - Sums(Widths(p))[k]
           gained(k) == Sums(Widths(new))[k] - Sums(Widths(old))[k]
           S == {k \in 0..n : grown(k) = gained(least(k))}
<1>1. /\ q \in Paths /\ Len(q) = n /\ old \in Paths /\ new \in Paths /\ Len(new) = d
      /\ n \in Nat /\ d \in Nat /\ d <= n
      /\ \A i \in 1..n : q[i] = IF i <= d THEN new[i] ELSE p[i]
      /\ \A i \in 1..d : old[i] = p[i]
  BY CarryShape, PathShape DEF IsMove, Under
<1> HIDE DEF q, n, d
<1>2. /\ Sums(Widths(q))[0] = 0 /\ Sums(Widths(p))[0] = 0
      /\ Sums(Widths(new))[0] = 0 /\ Sums(Widths(old))[0] = 0
  BY <1>1, SumsSteps, WidthsTyped
<1>3. 0 \in S
  BY <1>1, <1>2
<1>4. ASSUME NEW k \in 0..(n - 1), k \in S PROVE k + 1 \in S
  <2>1. k + 1 \in 1..n /\ (k + 1) - 1 = k /\ k \in 0..n /\ k \in 0..(n - 1)
    BY <1>1
  <2>2. /\ Sums(Widths(q))[k + 1] = Sums(Widths(q))[k] + Width[q[k + 1]]
        /\ Sums(Widths(q))[k] \in Int /\ Width[q[k + 1]] \in Int
    BY <1>1, <2>1, WidthsNext
  <2>3. /\ Sums(Widths(p))[k + 1] = Sums(Widths(p))[k] + Width[p[k + 1]]
        /\ Sums(Widths(p))[k] \in Int /\ Width[p[k + 1]] \in Int
    BY <1>1, <2>1, WidthsNext DEF n
  <2>4. CASE k + 1 <= d
    <3>1. k + 1 \in 1..d /\ k \in 0..(d - 1)
      BY <1>1, <2>1, <2>4
    <3>2. /\ Sums(Widths(new))[k + 1] = Sums(Widths(new))[k] + Width[new[k + 1]]
          /\ Sums(Widths(new))[k] \in Int /\ Width[new[k + 1]] \in Int
      BY <1>1, <2>1, <3>1, WidthsNext
    <3>3. /\ Sums(Widths(old))[k + 1] = Sums(Widths(old))[k] + Width[old[k + 1]]
          /\ Sums(Widths(old))[k] \in Int /\ Width[old[k + 1]] \in Int
      BY <1>1, <2>1, <3>1, WidthsNext DEF d
    <3>4. q[k + 1] = new[k + 1] /\ old[k + 1] = p[k + 1] /\ least(k) = k /\ least(k + 1) = k + 1
      BY <1>1, <2>1, <2>4, <3>1
    <3>5. grown(k) = gained(k)
      BY <1>4, <3>4
    <3>6. grown(k + 1) = gained(k + 1)
      BY <2>2, <2>3, <3>2, <3>3, <3>4, <3>5
    <3> HIDE DEF grown, gained, least
    <3> QED BY <2>1, <3>4, <3>6
  <2>5. CASE ~(k + 1 <= d)
    <3>1. q[k + 1] = p[k + 1] /\ least(k) = d /\ least(k + 1) = d
      BY <1>1, <2>1, <2>5
    <3>2. grown(k + 1) = grown(k)
      BY <2>2, <2>3, <3>1
    <3>3. grown(k) = gained(least(k))
      BY <1>4
    <3> HIDE DEF grown, gained, least
    <3> QED BY <2>1, <3>1, <3>2, <3>3
  <2> QED BY <2>4, <2>5
<1>5. \A k \in 0..n : k \in S
  <2> HIDE DEF S
  <2> QED BY <1>1, <1>3, <1>4, Upwards
<1>6. grown(n) = gained(least(n)) /\ least(n) = d
  BY <1>1, <1>5
<1>7. /\ Total(Widths(q)) = Sums(Widths(q))[n] /\ Total(Widths(p)) = Sums(Widths(p))[n]
      /\ Total(Widths(new)) = Sums(Widths(new))[d] /\ Total(Widths(old)) = Sums(Widths(old))[d]
  BY <1>1, WidthsTyped DEF n, d
<1>12. /\ Total(Widths(q)) \in Int /\ Total(Widths(p)) \in Int
       /\ Total(Widths(new)) \in Int /\ Total(Widths(old)) \in Int
  BY <1>1, WidthsTyped
<1>8. /\ Total(Widths(q)) - Total(Widths(p)) = Total(Widths(new)) - Total(Widths(old))
      /\ Total(Widths(q)) \in Int /\ Total(Widths(p)) \in Int
      /\ Total(Widths(new)) \in Int /\ Total(Widths(old)) \in Int
  BY <1>6, <1>7, <1>12
<1>9. /\ WidthOf(q) = Total(Widths(q)) + n - 1 /\ WidthOf(p) = Total(Widths(p)) + n - 1
      /\ WidthOf(new) = Total(Widths(new)) + d - 1 /\ WidthOf(old) = Total(Widths(old)) + d - 1
  BY <1>1, WidthsTyped DEF n, d
<1> HIDE DEF S
<1>10. WidthOf(q) = WidthOf(p) + (WidthOf(new) - WidthOf(old))
  BY <1>1, <1>8, <1>9
<1> QED BY <1>10 DEF q

-----------------------------------------------------------------------------
(* A finite set of moves, and the largest delta. *)

LEMMA LargestExists ==
    ASSUME NEW S \in SUBSET Int, IsFiniteSet(S), S # {}
    PROVE  Max(S) \in S /\ \A x \in S : Max(S) >= x
<1> DEFINE Bounded(T) == \E x \in T : \A y \in T : x >= y
           K == {n \in Nat : \A T \in SUBSET Int :
                    IsFiniteSet(T) /\ T # {} /\ Cardinality(T) = n => Bounded(T)}
<1>1. 0 \in K
  BY FS_EmptySet
<1>2. ASSUME NEW n \in K PROVE n + 1 \in K
  <2> SUFFICES ASSUME NEW T \in SUBSET Int, IsFiniteSet(T), T # {}, Cardinality(T) = n + 1
               PROVE  Bounded(T)
    OBVIOUS
  <2>1. PICK x \in T : TRUE
    OBVIOUS
  <2>2. IsFiniteSet(T \ {x}) /\ Cardinality(T \ {x}) = n
    <3>1. IsFiniteSet(T \ {x}) /\ Cardinality(T \ {x}) = Cardinality(T) - 1
      <4> HIDE DEF K
      <4> QED BY <2>1, FS_RemoveElement
    <3>2. n \in Nat
      BY DEF K
    <3> HIDE DEF K
    <3> QED BY <3>1, <3>2
  <2>3. CASE T \ {x} = {}
    BY <2>1, <2>3
  <2>4. CASE T \ {x} # {}
    <3>1. PICK m \in T \ {x} : \A y \in T \ {x} : m >= y
      BY <2>2, <2>4
    <3>2. CASE x >= m
      <4>1. \A y \in T : x >= y
        BY <3>1, <3>2
      <4> QED BY <4>1
    <3>3. CASE ~(x >= m)
      <4>1. \A y \in T : m >= y
        BY <3>1, <3>3
      <4> QED BY <4>1
    <3> QED BY <3>2, <3>3
  <2> QED BY <2>3, <2>4
<1>3. K = Nat
  <2> HIDE DEF K
  <2>1. K \in SUBSET Nat
    BY DEF K
  <2> QED BY <1>1, <1>2, <2>1, Inductive
<1>4. Cardinality(S) \in Nat
  BY FS_CardinalityType
<1>5. Bounded(S)
  BY <1>3, <1>4
<1> QED BY <1>5 DEF Max

PairSet(pairs) == pairs \subseteq Moves /\ IsFiniteSet(pairs)

LEMMA PairMoves ==
    ASSUME NEW pairs, PairSet(pairs), NEW m \in pairs
    PROVE  IsMove(m.old, m.new)
<1>1. m \in Moves /\ m = [old |-> m.old, new |-> m.new]
  BY DEF PairSet, Moves
<1> QED BY <1>1, MoveShape

LEMMA DeltasBounded ==
    ASSUME NEW pairs, PairSet(pairs)
    PROVE  /\ LargestDelta(pairs) \in Int
           /\ \A m \in pairs : WidthOf(m.new) - WidthOf(m.old) <= LargestDelta(pairs)
<1>1. CASE pairs = {}
  BY <1>1 DEF LargestDelta
<1>2. CASE pairs # {}
  <2> DEFINE D == Deltas(pairs)
             f == [m \in pairs |-> WidthOf(m.new) - WidthOf(m.old)]
  <2>1. \A m \in pairs : WidthOf(m.new) - WidthOf(m.old) \in Int
    BY PairMoves, WidthsTyped DEF IsMove
  <2>2. D \in SUBSET Int /\ D # {}
    BY <1>2, <2>1 DEF Deltas
  <2>3. f \in Surjection(pairs, D)
    BY DEF Deltas, Surjection
  <2>4. IsFiniteSet(D)
    BY <2>3, FS_Surjection DEF PairSet
  <2>5. LargestDelta(pairs) = Max(D)
    BY <1>2 DEF LargestDelta
  <2>6. Max(D) \in D /\ \A x \in D : Max(D) >= x
    <3> HIDE DEF D
    <3> QED BY <2>2, <2>4, LargestExists
  <2>7. \A m \in pairs : WidthOf(m.new) - WidthOf(m.old) \in D
    BY DEF Deltas
  <2> HIDE DEF D
  <2> QED BY <2>1, <2>2, <2>5, <2>6, <2>7
<1> QED BY <1>1, <1>2

-----------------------------------------------------------------------------
(* A path translated by a set of moves. *)

LEMMA OneTranslationShape ==
    ASSUME NEW pairs, PairSet(pairs), NEW p \in Paths
    PROVE  /\ Matching(pairs, p) = {} => OneTranslation(pairs, p) = p
           /\ Matching(pairs, p) # {} =>
                LET m == DeepestMatch(pairs, p)
                IN  /\ m \in pairs /\ Under(p, m.old)
                    /\ \A n \in Matching(pairs, p) : Len(n.old) <= Len(m.old)
                    /\ OneTranslation(pairs, p) = Carry(p, m.old, m.new)
           /\ OneTranslation(pairs, p) \in Paths
           /\ Len(OneTranslation(pairs, p)) = Len(p)
<1>1. CASE Matching(pairs, p) = {}
  BY <1>1 DEF OneTranslation
<1>2. CASE Matching(pairs, p) # {}
  <2> DEFINE T == Matching(pairs, p)
             short == {MaxDepth - Len(n.old) : n \in T}
             m == DeepestMatch(pairs, p)
  <2>1. \A n \in T : Len(n.old) \in 1..MaxDepth
    BY PairMoves, PathShape DEF Matching, IsMove
  <2>2. short \in SUBSET Nat /\ short # {}
    BY <1>2, <2>1, NamesAssumption
  <2>3. PICK s \in short : \A t \in short : s <= t
    <3> HIDE DEF short
    <3> QED BY <2>2, LeastMember
  <2>4. PICK d \in T : s = MaxDepth - Len(d.old)
    OBVIOUS
  <2>5. \A n \in T : Len(n.old) <= Len(d.old)
    <3>1. \A n \in T : MaxDepth - Len(d.old) <= MaxDepth - Len(n.old)
      BY <2>3, <2>4
    <3> QED BY <2>1, <2>4, <3>1, NamesAssumption
  <2>6. m \in T /\ \A n \in T : Len(n.old) <= Len(m.old)
    BY <2>5, Zenon DEF DeepestMatch
  <2>7. m \in pairs /\ Under(p, m.old)
    BY <2>6 DEF Matching
  <2>8. OneTranslation(pairs, p) = Carry(p, m.old, m.new)
    BY <1>2 DEF OneTranslation
  <2>9. IsMove(m.old, m.new)
    BY <2>7, PairMoves
  <2> HIDE DEF m, T
  <2> QED BY <1>2, <2>6, <2>7, <2>8, <2>9, CarryShape DEF m, T
<1> QED BY <1>1, <1>2

LEMMA TranslationSteps ==
    ASSUME NEW pairs, PairSet(pairs), NEW p \in Paths
    PROVE  /\ Cardinality(pairs) \in Nat
           /\ Translation(pairs, p) \in [0..Cardinality(pairs) -> Paths]
           /\ Translation(pairs, p)[0] = p
           /\ \A k \in 1..Cardinality(pairs) :
                Translation(pairs, p)[k] = OneTranslation(pairs, Translation(pairs, p)[k - 1])
<1> DEFINE n == Cardinality(pairs)
           g == [a \in (1..n) \X Paths |-> OneTranslation(pairs, a[2])]
           E(f) == f = [k \in 0..n |-> IF k = 0 THEN p ELSE OneTranslation(pairs, f[k - 1])]
           f == Translation(pairs, p)
<1>1. n \in Nat /\ g \in [(1..n) \X Paths -> Paths]
  BY FS_CardinalityType, OneTranslationShape DEF PairSet
<1>2. PICK h \in [0..n -> Paths] : Follows(h, p, g, n)
  <2> HIDE DEF g, n
  <2> QED BY <1>1, Recursion
<1>3. E(h)
  <2>1. h[0] = p /\ \A k \in 1..n : h[k] = g[<<k, h[k - 1]>>]
    BY <1>2 DEF Follows
  <2>2. ASSUME NEW k \in 1..n PROVE h[k] = OneTranslation(pairs, h[k - 1])
    <3>1. h[k - 1] \in Paths
      BY <1>1
    <3> QED BY <2>1, <3>1
  <2> HIDE DEF g, n
  <2> QED BY <1>1, <2>1, <2>2
<1>4. f = CHOOSE x : E(x)
  BY Zenon DEF Translation
<1>5. E(f)
  <2> HIDE DEF E, f
  <2> QED BY <1>3, <1>4
<1> HIDE DEF n, f
<1>6. f[0] = p /\ \A k \in 1..n : f[k] = OneTranslation(pairs, f[k - 1])
  BY <1>1, <1>5
<1>7. \A k \in 0..n : f[k] \in Paths
  <2> DEFINE S == {k \in 0..n : f[k] \in Paths}
  <2>1. 0 \in S
    BY <1>1, <1>6
  <2>2. ASSUME NEW k \in 0..(n - 1), k \in S PROVE k + 1 \in S
    <3>1. k + 1 \in 1..n /\ (k + 1) - 1 = k
      BY <1>1
    <3>2. f[k + 1] = OneTranslation(pairs, f[k])
      BY <1>6, <3>1
    <3> QED BY <1>1, <2>2, <3>1, <3>2, OneTranslationShape
  <2>3. \A k \in 0..n : k \in S
    <3> HIDE DEF S
    <3> QED BY <1>1, <2>1, <2>2, Upwards
  <2> QED BY <2>3
<1> QED BY <1>1, <1>5, <1>6, <1>7 DEF n, f

(***************************************************************************)
(* After k substitutions a path has grown by no more than k deltas.        *)
(***************************************************************************)
LEMMA TranslationWidth ==
    ASSUME NEW pairs, PairSet(pairs), NEW p \in Paths, NEW d \in Nat,
           \A m \in pairs : WidthOf(m.new) - WidthOf(m.old) <= d
    PROVE  \A k \in 0..Cardinality(pairs) :
              WidthOf(Translation(pairs, p)[k]) <= WidthOf(p) + k * d
<1> DEFINE n == Cardinality(pairs)
           f == Translation(pairs, p)
           S == {k \in 0..n : WidthOf(f[k]) <= WidthOf(p) + k * d}
<1>0. n \in Nat /\ WidthOf(p) \in Int
  BY TranslationSteps, WidthsTyped
<1>1. 0 \in S
  BY <1>0, TranslationSteps
<1>2. ASSUME NEW k \in 0..(n - 1), k \in S PROVE k + 1 \in S
  <2>1. k + 1 \in 1..n /\ (k + 1) - 1 = k /\ k \in 0..n /\ k \in Nat
    BY <1>0
  <2>2. f[k] \in Paths /\ f[k + 1] = OneTranslation(pairs, f[k])
    BY <2>1, TranslationSteps
  <2> HIDE DEF n, f
  <2>3. WidthOf(f[k]) \in Int /\ WidthOf(f[k]) <= WidthOf(p) + k * d
    BY <1>2, <2>2, WidthsTyped
  <2>4. (k + 1) * d = k * d + d /\ k * d \in Int
    BY <2>1
  <2>5. WidthOf(f[k + 1]) <= WidthOf(f[k]) + d
    <3>1. CASE Matching(pairs, f[k]) = {}
      <4>1. f[k + 1] = f[k]
        BY <2>2, <3>1, OneTranslationShape
      <4> QED BY <2>3, <4>1
    <3>2. CASE Matching(pairs, f[k]) # {}
      <4> DEFINE m == DeepestMatch(pairs, f[k])
      <4>1. m \in pairs /\ Under(f[k], m.old) /\ f[k + 1] = Carry(f[k], m.old, m.new)
        BY <2>2, <3>2, OneTranslationShape
      <4> HIDE DEF m
      <4>2. IsMove(m.old, m.new)
        BY <4>1, PairMoves
      <4>3. WidthOf(f[k + 1]) = WidthOf(f[k]) + (WidthOf(m.new) - WidthOf(m.old))
        BY <2>2, <4>1, <4>2, CarriedWidth
      <4>4. WidthOf(m.new) \in Int /\ WidthOf(m.old) \in Int /\ WidthOf(m.new) - WidthOf(m.old) <= d
        BY <4>1, <4>2, WidthsTyped DEF IsMove
      <4> QED BY <2>3, <4>3, <4>4
    <3> QED BY <3>1, <3>2
  <2>6. f[k + 1] \in Paths
    BY <2>2, OneTranslationShape
  <2>7. WidthOf(f[k + 1]) \in Int
    BY <2>6, WidthsTyped
  <2>8. WidthOf(f[k + 1]) <= WidthOf(p) + (k + 1) * d
    BY <1>0, <2>3, <2>4, <2>5, <2>7
  <2>9. k + 1 \in 0..n
    BY <1>0, <2>1
  <2> QED BY <2>8, <2>9
<1>3. \A k \in 0..n : k \in S
  <2> HIDE DEF S, n
  <2> QED BY <1>0, <1>1, <1>2, Upwards
<1> QED BY <1>3

(***************************************************************************)
(* A path that no move of a larger set matches stays.                      *)
(***************************************************************************)
LEMMA TranslationIdle ==
    ASSUME NEW pairs, PairSet(pairs), NEW p \in Paths, Matching(pairs, p) = {}
    PROVE  TranslatePath(pairs, p) = p
<1> DEFINE n == Cardinality(pairs)
           f == Translation(pairs, p)
           S == {k \in 0..n : f[k] = p}
<1>0. n \in Nat
  BY TranslationSteps
<1>1. 0 \in S
  BY <1>0, TranslationSteps
<1>2. ASSUME NEW k \in 0..(n - 1), k \in S PROVE k + 1 \in S
  <2>1. k + 1 \in 1..n /\ (k + 1) - 1 = k /\ k + 1 \in 0..n
    BY <1>0
  <2>2. f[k + 1] = OneTranslation(pairs, f[k])
    BY <2>1, TranslationSteps
  <2> QED BY <1>2, <2>1, <2>2, OneTranslationShape
<1>3. \A k \in 0..n : k \in S
  <2> HIDE DEF S, n
  <2> QED BY <1>0, <1>1, <1>2, Upwards
<1>4. n \in S
  BY <1>0, <1>3
<1> QED BY <1>4 DEF TranslatePath

-----------------------------------------------------------------------------
(* What a component can become. *)

Reaching(pairs, i, name) ==
    LET names[k \in 0..Cardinality(pairs)] ==
            IF k = 0 THEN {name} ELSE Become(pairs, i, names[k - 1])
    IN  names

FiniteNames == {names \in SUBSET Names : IsFiniteSet(names)}

LEMMA BecomeTyped ==
    ASSUME NEW pairs, PairSet(pairs), NEW i \in Nat \ {0}, NEW names \in FiniteNames
    PROVE  Become(pairs, i, names) \in FiniteNames
<1> DEFINE some == {n \in pairs : Len(n.old) >= i /\ n.old[i] \in names}
           image == {m.new[i] : m \in some}
           f == [m \in some |-> m.new[i]]
<1>1. IsFiniteSet(some)
  BY FS_Subset DEF PairSet
<1>2. f \in Surjection(some, image)
  BY DEF Surjection
<1>3. IsFiniteSet(image)
  <2> HIDE DEF some, image, f
  <2> QED BY <1>1, <1>2, FS_Surjection
<1>4. image \in SUBSET Names
  <2>1. \A m \in some : m.new[i] \in Names
    BY PairMoves, PathShape, NamesAssumption DEF IsMove
  <2> QED BY <2>1
<1>5. Become(pairs, i, names) = names \cup image
  BY DEF Become
<1>6. IsFiniteSet(names \cup image)
  <2> HIDE DEF image
  <2> QED BY <1>3, FS_Union DEF FiniteNames
<1> HIDE DEF image
<1> QED BY <1>4, <1>5, <1>6 DEF FiniteNames

LEMMA ReachingSteps ==
    ASSUME NEW pairs, PairSet(pairs), NEW i \in Nat \ {0}, NEW name \in Names
    PROVE  /\ Reaching(pairs, i, name) \in [0..Cardinality(pairs) -> FiniteNames]
           /\ Reaching(pairs, i, name)[0] = {name}
           /\ \A k \in 1..Cardinality(pairs) :
                Reaching(pairs, i, name)[k] = Become(pairs, i, Reaching(pairs, i, name)[k - 1])
           /\ Reachable(pairs, i, name) = Reaching(pairs, i, name)[Cardinality(pairs)]
<1> DEFINE n == Cardinality(pairs)
           start == {name}
           g == [a \in (1..n) \X FiniteNames |-> Become(pairs, i, a[2])]
           E(f) == f = [k \in 0..n |-> IF k = 0 THEN start ELSE Become(pairs, i, f[k - 1])]
           f == Reaching(pairs, i, name)
<1>1. n \in Nat /\ g \in [(1..n) \X FiniteNames -> FiniteNames] /\ start \in FiniteNames
  BY FS_CardinalityType, FS_Singleton, BecomeTyped DEF PairSet, FiniteNames
<1>2. PICK h \in [0..n -> FiniteNames] : Follows(h, start, g, n)
  <2> HIDE DEF g, n
  <2> QED BY <1>1, Recursion
<1>3. E(h)
  <2>1. h[0] = start /\ \A k \in 1..n : h[k] = g[<<k, h[k - 1]>>]
    BY <1>2 DEF Follows
  <2>2. ASSUME NEW k \in 1..n PROVE h[k] = Become(pairs, i, h[k - 1])
    <3>1. h[k - 1] \in FiniteNames
      BY <1>1
    <3> QED BY <2>1, <3>1
  <2> HIDE DEF g, n
  <2> QED BY <1>1, <2>1, <2>2
<1>4. f = CHOOSE x : E(x)
  BY Zenon DEF Reaching
<1>5. E(f)
  <2> HIDE DEF E, f
  <2> QED BY <1>3, <1>4
<1>9. Reachable(pairs, i, name) = f[n]
  BY Zenon DEF Reachable, Reaching
<1> HIDE DEF n, f, start
<1>6. f[0] = start /\ \A k \in 1..n : f[k] = Become(pairs, i, f[k - 1])
  BY <1>1, <1>5
<1>7. \A k \in 0..n : f[k] \in FiniteNames
  <2> DEFINE S == {k \in 0..n : f[k] \in FiniteNames}
  <2>1. 0 \in S
    BY <1>1, <1>6
  <2>2. ASSUME NEW k \in 0..(n - 1), k \in S PROVE k + 1 \in S
    <3>1. k + 1 \in 1..n /\ (k + 1) - 1 = k
      BY <1>1
    <3>2. f[k + 1] = Become(pairs, i, f[k])
      BY <1>6, <3>1
    <3> QED BY <1>1, <2>2, <3>1, <3>2, BecomeTyped
  <2>3. \A k \in 0..n : k \in S
    <3> HIDE DEF S
    <3> QED BY <1>1, <2>1, <2>2, Upwards
  <2> QED BY <2>3
<1> QED BY <1>1, <1>5, <1>6, <1>7, <1>9 DEF n, f, start

LEMMA ReachingGrows ==
    ASSUME NEW pairs, PairSet(pairs), NEW i \in Nat \ {0}, NEW name \in Names,
           NEW m \in 0..Cardinality(pairs)
    PROVE  /\ Reaching(pairs, i, name)[m] \subseteq Reachable(pairs, i, name)
           /\ Reachable(pairs, i, name) \in FiniteNames
<1> DEFINE n == Cardinality(pairs)
           f == Reaching(pairs, i, name)
           S == {k \in m..n : f[m] \subseteq f[k]}
<1>0. n \in Nat /\ m \in Nat /\ m <= n
  BY TranslationSteps, FS_CardinalityType DEF PairSet
<1>1. m \in S
  BY <1>0
<1>2. ASSUME NEW k \in m..(n - 1), k \in S PROVE k + 1 \in S
  <2>1. k + 1 \in 1..n /\ (k + 1) - 1 = k /\ k + 1 \in m..n
    BY <1>0
  <2>2. f[k + 1] = Become(pairs, i, f[k])
    BY <2>1, ReachingSteps
  <2> HIDE DEF n, f
  <2> QED BY <1>2, <2>1, <2>2 DEF Become
<1>3. \A k \in m..n : k \in S
  <2> HIDE DEF S, n
  <2> QED BY <1>0, <1>1, <1>2, Upwards
<1>4. n \in S
  BY <1>0, <1>3
<1>5. f[n] \in FiniteNames /\ Reachable(pairs, i, name) = f[n]
  <2>1. n \in 0..n
    BY <1>0
  <2> QED BY <2>1, ReachingSteps
<1> QED BY <1>4, <1>5

LEMMA TranslationNames ==
    ASSUME NEW pairs, PairSet(pairs), NEW some, PairSet(some), some \subseteq pairs,
           Cardinality(some) <= Cardinality(pairs), NEW p \in Paths
    PROVE  /\ TranslatePath(some, p) \in Paths /\ Len(TranslatePath(some, p)) = Len(p)
           /\ \A i \in 1..Len(p) : TranslatePath(some, p)[i] \in Reachable(pairs, i, p[i])
<1> DEFINE n == Cardinality(some)
           f == Translation(some, p)
           S == {k \in 0..n : /\ Len(f[k]) = Len(p)
                              /\ \A i \in 1..Len(p) : f[k][i] \in Reaching(pairs, i, p[i])[k]}
<1>0. /\ n \in Nat /\ Cardinality(pairs) \in Nat /\ Len(p) \in Nat
      /\ \A i \in 1..Len(p) : i \in Nat \ {0} /\ p[i] \in Names
  BY TranslationSteps, PathShape, NamesAssumption
<1>1. 0 \in S
  <2>1. f[0] = p
    BY TranslationSteps
  <2>2. \A i \in 1..Len(p) : Reaching(pairs, i, p[i])[0] = {p[i]}
    BY <1>0, ReachingSteps
  <2> HIDE DEF f
  <2>3. ASSUME NEW i \in 1..Len(p) PROVE f[0][i] \in Reaching(pairs, i, p[i])[0]
    <3>1. Reaching(pairs, i, p[i])[0] = {p[i]}
      BY <2>2
    <3> QED BY <2>1, <3>1
  <2>4. 0 \in 0..n
    BY <1>0
  <2> QED BY <2>1, <2>3, <2>4
<1>2. ASSUME NEW k \in 0..(n - 1), k \in S PROVE k + 1 \in S
  <2>1. k + 1 \in 1..n /\ (k + 1) - 1 = k /\ k \in 0..n /\ k + 1 \in 0..n
        /\ k + 1 \in 1..Cardinality(pairs)
    BY <1>0
  <2>2. f[k] \in Paths /\ f[k + 1] = OneTranslation(some, f[k])
    BY <2>1, TranslationSteps
  <2> HIDE DEF f
  <2>3. f[k + 1] \in Paths /\ Len(f[k + 1]) = Len(p)
    BY <1>2, <2>2, OneTranslationShape
  <2>4. ASSUME NEW i \in 1..Len(p) PROVE f[k + 1][i] \in Reaching(pairs, i, p[i])[k + 1]
    <3> DEFINE names == Reaching(pairs, i, p[i])
    <3>1. names[k + 1] = Become(pairs, i, names[k])
      BY <1>0, <2>1, ReachingSteps
    <3>2. f[k][i] \in names[k]
      BY <1>2
    <3> HIDE DEF names
    <3>3. CASE Matching(some, f[k]) = {}
      <4>1. f[k + 1] = f[k]
        BY <2>2, <3>3, OneTranslationShape
      <4> QED BY <3>1, <3>2, <4>1 DEF Become, names
    <3>4. CASE Matching(some, f[k]) # {}
      <4> DEFINE m == DeepestMatch(some, f[k])
      <4>1. m \in some /\ Under(f[k], m.old) /\ f[k + 1] = Carry(f[k], m.old, m.new)
        BY <2>2, <3>4, OneTranslationShape
      <4> HIDE DEF m
      <4>2. IsMove(m.old, m.new)
        BY <4>1, PairMoves
      <4>3. f[k + 1][i] = IF i <= Len(m.old) THEN m.new[i] ELSE f[k][i]
        BY <1>2, <2>2, <4>1, <4>2, CarryShape
      <4>4. CASE i <= Len(m.old)
        <5>1. Len(m.old) >= i /\ m.old[i] = f[k][i] /\ f[k + 1][i] = m.new[i]
          <6>1. Len(m.old) \in Nat
            BY <4>2, PathShape DEF IsMove
          <6> QED BY <1>0, <4>1, <4>3, <4>4, <6>1 DEF Under
        <5>2. m \in {x \in pairs : Len(x.old) >= i /\ x.old[i] \in names[k]}
          BY <3>2, <4>1, <5>1
        <5> QED BY <3>1, <5>1, <5>2 DEF Become, names
      <4>5. CASE ~(i <= Len(m.old))
        BY <3>1, <3>2, <4>3, <4>5 DEF Become, names
      <4> QED BY <4>4, <4>5
    <3> QED BY <3>3, <3>4
  <2> QED BY <2>1, <2>3, <2>4
<1>3. \A k \in 0..n : k \in S
  <2> HIDE DEF S, n
  <2> QED BY <1>0, <1>1, <1>2, Upwards
<1>4. n \in S /\ n \in 0..Cardinality(pairs) /\ n \in 0..n
  BY <1>0, <1>3
<1>5. f[n] \in Paths /\ TranslatePath(some, p) = f[n]
  BY <1>4, TranslationSteps DEF TranslatePath
<1>6. \A i \in 1..Len(p) : Reaching(pairs, i, p[i])[n] \subseteq Reachable(pairs, i, p[i])
  <2> HIDE DEF n
  <2> QED BY <1>0, <1>4, ReachingGrows
<1> QED BY <1>4, <1>5, <1>6

LEMMA ComponentBounded ==
    ASSUME NEW pairs, PairSet(pairs), NEW i \in Nat \ {0}, NEW name \in Names
    PROVE  /\ ComponentWidth(pairs, i, name) \in Int
           /\ \A n \in Reachable(pairs, i, name) : Width[n] <= ComponentWidth(pairs, i, name)
<1> DEFINE R == Reachable(pairs, i, name)
           D == {Width[n] : n \in R}
           f == [n \in R |-> Width[n]]
<1>0. 0 \in 0..Cardinality(pairs)
  BY FS_CardinalityType DEF PairSet
<1>1. R \in SUBSET Names /\ IsFiniteSet(R) /\ name \in R
  <2>1. Reaching(pairs, i, name)[0] = {name}
    BY ReachingSteps
  <2>2. Reaching(pairs, i, name)[0] \subseteq R /\ R \in FiniteNames
    BY <1>0, ReachingGrows
  <2> QED BY <2>1, <2>2 DEF FiniteNames
<1>2. \A n \in R : Width[n] \in Nat
  BY <1>1, WidthAssumption
<1>3. f \in Surjection(R, D)
  BY DEF Surjection
<1>4. IsFiniteSet(D)
  <2> HIDE DEF R, D, f
  <2> QED BY <1>1, <1>3, FS_Surjection
<1>5. D \in SUBSET Int /\ D # {} /\ ComponentWidth(pairs, i, name) = Max(D)
  BY <1>1, <1>2 DEF ComponentWidth
<1>6. Max(D) \in D /\ \A x \in D : Max(D) >= x
  <2> HIDE DEF D
  <2> QED BY <1>4, <1>5, LargestExists
<1>7. \A n \in R : Width[n] \in D
  OBVIOUS
<1> HIDE DEF D
<1> QED BY <1>2, <1>5, <1>6, <1>7

(***************************************************************************)
(* Whichever of the moves are made, a path keeps within its bound and      *)
(* gains no more than is charged for it.                                   *)
(***************************************************************************)
Charge(pairs, p) ==
    IF LargestDelta(pairs) <= 0 \/ ~Affected(pairs, p) THEN 0
    ELSE Cardinality(pairs) * LargestDelta(pairs)

LEMMA TimesMonotone ==
    ASSUME NEW a \in Nat, NEW b \in Nat, NEW d \in Nat, a <= b
    PROVE  a * d <= b * d
<1>1. b - a \in Nat /\ b = a + (b - a)
  OBVIOUS
<1>2. b * d = a * d + (b - a) * d /\ (b - a) * d \in Nat /\ a * d \in Nat
  BY <1>1
<1> QED BY <1>2

LEMMA PathCharged ==
    ASSUME NEW pairs, PairSet(pairs), NEW some \in SUBSET pairs, NEW p \in Paths
    PROVE  /\ WidthOf(TranslatePath(some, p)) \in Int
           /\ WidthOf(TranslatePath(some, p)) <= TextBound(pairs, p)
           /\ WidthOf(TranslatePath(some, p)) - WidthOf(p) <= Charge(pairs, p)
           /\ Charge(pairs, p) \in Nat
<1> DEFINE q == TranslatePath(some, p)
           d == LargestDelta(pairs)
           n == Cardinality(pairs)
<1>1. PairSet(some) /\ Cardinality(some) <= n
  BY FS_Subset DEF PairSet
<1>2. n \in Nat /\ Cardinality(some) \in Nat /\ WidthOf(p) \in Int /\ d \in Int
  BY <1>1, FS_CardinalityType, WidthsTyped, DeltasBounded DEF PairSet
<1>3. /\ q \in Paths /\ Len(q) = Len(p) /\ WidthOf(q) \in Int
      /\ \A i \in 1..Len(p) : q[i] \in Reachable(pairs, i, p[i])
  BY <1>1, TranslationNames, WidthsTyped
<1>4. ASSUME NEW e \in Nat, \A m \in pairs : WidthOf(m.new) - WidthOf(m.old) <= e
      PROVE  WidthOf(q) <= WidthOf(p) + Cardinality(some) * e
  <2>1. \A k \in 0..Cardinality(some) :
           WidthOf(Translation(some, p)[k]) <= WidthOf(p) + k * e
    BY <1>1, <1>4, TranslationWidth
  <2> QED BY <1>2, <2>1 DEF TranslatePath
<1>5. \A m \in pairs : WidthOf(m.new) - WidthOf(m.old) <= d
  BY DeltasBounded
<1>6. \A m \in pairs : WidthOf(m.new) - WidthOf(m.old) \in Int
  BY PairMoves, WidthsTyped DEF IsMove
<1> HIDE DEF q, d, n
<1>7. CASE d <= 0
  <2>1. WidthOf(q) <= WidthOf(p) + Cardinality(some) * 0
    <3>1. \A m \in pairs : WidthOf(m.new) - WidthOf(m.old) <= 0
      BY <1>2, <1>5, <1>6, <1>7
    <3> QED BY <1>4, <3>1
  <2>2. Charge(pairs, p) = 0 /\ TextBound(pairs, p) = WidthOf(p)
    BY <1>7 DEF Charge, TextBound, d
  <2> QED BY <1>2, <1>3, <2>1, <2>2 DEF q
<1>8. CASE ~Affected(pairs, p)
  <2>1. Matching(some, p) = {}
    BY <1>8 DEF Affected, Matching
  <2>2. q = p
    BY <1>1, <2>1, TranslationIdle DEF q
  <2>3. Charge(pairs, p) = 0 /\ TextBound(pairs, p) = WidthOf(p)
    BY <1>8 DEF Charge, TextBound
  <2> QED BY <1>2, <2>2, <2>3 DEF q
<1>9. CASE ~(d <= 0) /\ Affected(pairs, p)
  <2>1. d \in Nat
    BY <1>2, <1>9
  <2>2. WidthOf(q) <= WidthOf(p) + Cardinality(some) * d
    BY <1>4, <1>5, <2>1
  <2>3. Cardinality(some) * d <= n * d /\ n * d \in Nat /\ Cardinality(some) * d \in Nat
    BY <1>1, <1>2, <2>1, TimesMonotone
  <2>4. Charge(pairs, p) = n * d
    BY <1>9 DEF Charge, d, n
  <2>5. TextBound(pairs, p)
           = Total([i \in 1..Len(p) |-> ComponentWidth(pairs, i, p[i])]) + Len(p) - 1
    BY <1>9 DEF TextBound, d
  <2>6. WidthOf(q) <= TextBound(pairs, p)
    <3> DEFINE g == [i \in 1..Len(p) |-> ComponentWidth(pairs, i, p[i])]
    <3>1. Len(p) \in Nat /\ \A i \in 1..Len(p) : i \in Nat \ {0} /\ p[i] \in Names
      BY PathShape, NamesAssumption
    <3>2. g \in [1..Len(p) -> Int]
      BY <3>1, ComponentBounded
    <3>3. Widths(q) \in [1..Len(p) -> Int]
      BY <1>3, WidthsTyped
    <3>4. \A i \in 1..Len(p) : Widths(q)[i] <= g[i]
      BY <1>3, <3>1, ComponentBounded DEF Widths
    <3>5. Total(Widths(q)) \in Int /\ Total(g) \in Int /\ Total(Widths(q)) <= Total(g)
      <4> HIDE DEF g
      <4> QED BY <3>1, <3>2, <3>3, <3>4, TotalMonotone
    <3>6. WidthOf(q) = Total(Widths(q)) + Len(p) - 1
      BY <1>3, WidthsTyped
    <3> HIDE DEF g
    <3>7. TextBound(pairs, p) = Total(g) + Len(p) - 1
      BY <2>5 DEF g
    <3> QED BY <3>1, <3>5, <3>6, <3>7
  <2>7. WidthOf(q) - WidthOf(p) <= n * d
    BY <1>2, <1>3, <2>2, <2>3
  <2> QED BY <1>3, <2>3, <2>4, <2>6, <2>7 DEF q
<1> QED BY <1>7, <1>8, <1>9

LEMMA ListCharged ==
    ASSUME NEW pairs, PairSet(pairs), NEW some \in SUBSET pairs, NEW list \in Seq(Paths)
    PROVE  Gained(some, list) <= Growth(pairs, list)
<1> DEFINE n == Len(list)
           gain == [i \in 1..n |-> WidthOf(TranslatePath(some, list[i])) - WidthOf(list[i])]
           hit(k) == {i \in 1..k : Affected(pairs, list[i])}
           c == IF LargestDelta(pairs) <= 0 THEN 0 ELSE Cardinality(pairs) * LargestDelta(pairs)
           S == {k \in 0..n : Sums(gain)[k] <= Cardinality(hit(k)) * c}
<1>1. n \in Nat /\ DOMAIN list = 1..n /\ \A i \in 1..n : list[i] \in Paths
  BY LenProperties, ElementOfSeq
<1>2. c \in Nat
  <2>1. CASE LargestDelta(pairs) <= 0
    BY <2>1
  <2>2. CASE ~(LargestDelta(pairs) <= 0)
    <3>1. LargestDelta(pairs) \in Nat /\ Cardinality(pairs) \in Nat
      BY <2>2, DeltasBounded, FS_CardinalityType DEF PairSet
    <3>2. Cardinality(pairs) * LargestDelta(pairs) \in Nat
      BY <3>1
    <3> QED BY <2>2, <3>2
  <2> QED BY <2>1, <2>2
<1>3. \A i \in 1..n : gain[i] \in Int /\ gain[i] <= IF Affected(pairs, list[i]) THEN c ELSE 0
  <2> TAKE i \in 1..n
  <2>1. /\ WidthOf(TranslatePath(some, list[i])) \in Int /\ WidthOf(list[i]) \in Int
        /\ WidthOf(TranslatePath(some, list[i])) - WidthOf(list[i]) <= Charge(pairs, list[i])
    BY <1>1, PathCharged, WidthsTyped
  <2>2. Charge(pairs, list[i]) = IF Affected(pairs, list[i]) THEN c ELSE 0
    BY DEF Charge
  <2> HIDE DEF c
  <2> QED BY <2>1, <2>2
<1>4. gain \in [1..n -> Int]
  <2> HIDE DEF n
  <2> QED BY <1>3
<1>5. Numbers(gain) /\ Len(gain) = n
  <2> HIDE DEF gain, n
  <2> QED BY <1>1, <1>4, NumbersTyped
<1>6. \A k \in 0..n : IsFiniteSet(hit(k)) /\ Cardinality(hit(k)) \in Nat
  <2> TAKE k \in 0..n
  <2>1. IsFiniteSet(1..k) /\ hit(k) \in SUBSET (1..k)
    BY FS_Interval
  <2>2. IsFiniteSet(hit(k))
    <3> HIDE DEF hit
    <3> QED BY <2>1, FS_Subset
  <2> HIDE DEF hit
  <2> QED BY <2>2, FS_CardinalityType
<1>7. Gained(some, list) = Total(gain)
  BY DEF Gained
<1>8. Growth(pairs, list) = Cardinality(hit(n)) * c
  <2>1. {i \in DOMAIN list : Affected(pairs, list[i])} = hit(n)
    BY <1>1
  <2>2. n \in 0..n
    BY <1>1
  <2>3. Cardinality(hit(n)) \in Nat
    BY <1>6, <2>2
  <2>4. CASE LargestDelta(pairs) <= 0
    BY <2>3, <2>4 DEF Growth
  <2>5. CASE ~(LargestDelta(pairs) <= 0)
    <3>1. LargestDelta(pairs) \in Nat /\ Cardinality(pairs) \in Nat
      BY <2>5, DeltasBounded, FS_CardinalityType DEF PairSet
    <3>2. Growth(pairs, list) = Cardinality(hit(n)) * Cardinality(pairs) * LargestDelta(pairs)
      BY <2>1, <2>5 DEF Growth
    <3>3. c = Cardinality(pairs) * LargestDelta(pairs)
      BY <2>5
    <3> HIDE DEF c, hit
    <3> QED BY <2>3, <3>1, <3>2, <3>3
  <2> QED BY <2>4, <2>5
<1> HIDE DEF gain, c
<1>9. 0 \in S
  <2>1. Sums(gain)[0] = 0 /\ 0 \in 0..n
    BY <1>1, <1>5, SumsSteps
  <2>2. hit(0) = {}
    OBVIOUS
  <2>3. Cardinality(hit(0)) * c = 0
    BY <1>2, <2>2, FS_EmptySet
  <2> QED BY <2>1, <2>3
<1>10. ASSUME NEW k \in 0..(n - 1), k \in S PROVE k + 1 \in S
  <2>1. k \in 0..n /\ k + 1 \in 0..n /\ k + 1 \in 1..n /\ k \in Nat
    BY <1>1
  <2>2. /\ Sums(gain)[k + 1] = Sums(gain)[k] + gain[k + 1]
        /\ Sums(gain)[k] \in Int /\ gain[k + 1] \in Int
    BY <1>5, SumsNext
  <2>3. Sums(gain)[k] <= Cardinality(hit(k)) * c
    BY <1>10
  <2>4. Cardinality(hit(k)) \in Nat /\ IsFiniteSet(hit(k)) /\ Cardinality(hit(k)) * c \in Nat
    <3>1. Cardinality(hit(k)) \in Nat /\ IsFiniteSet(hit(k))
      BY <1>6, <2>1
    <3> HIDE DEF hit
    <3> QED BY <1>2, <3>1
  <2>5. CASE Affected(pairs, list[k + 1])
    <3>1. hit(k + 1) = hit(k) \cup {k + 1} /\ k + 1 \notin hit(k)
      BY <2>1, <2>5
    <3>2. Cardinality(hit(k + 1)) = Cardinality(hit(k)) + 1
      <4> HIDE DEF hit
      <4> QED BY <2>4, <3>1, FS_AddElement
    <3>3. gain[k + 1] <= c
      BY <1>3, <2>1, <2>5
    <3> HIDE DEF hit
    <3>4. Cardinality(hit(k + 1)) * c = Cardinality(hit(k)) * c + c
      BY <1>2, <2>4, <3>2
    <3>5. Sums(gain)[k + 1] <= Cardinality(hit(k + 1)) * c
      BY <1>2, <2>2, <2>3, <2>4, <3>3, <3>4
    <3> QED BY <2>1, <3>5
  <2>6. CASE ~Affected(pairs, list[k + 1])
    <3>1. hit(k + 1) = hit(k)
      BY <2>1, <2>6
    <3>2. gain[k + 1] <= 0
      BY <1>3, <2>1, <2>6
    <3> HIDE DEF hit
    <3>3. Sums(gain)[k + 1] <= Cardinality(hit(k + 1)) * c
      BY <2>2, <2>3, <2>4, <3>1, <3>2
    <3> QED BY <2>1, <3>3
  <2> QED BY <2>5, <2>6
<1>11. \A k \in 0..n : k \in S
  <2> HIDE DEF S, n
  <2> QED BY <1>1, <1>9, <1>10, Upwards
<1>12. n \in S
  BY <1>1, <1>11
<1>13. Total(gain) = Sums(gain)[n]
  BY <1>5, SumsSteps
<1>14. Sums(gain)[n] <= Cardinality(hit(n)) * c
  BY <1>12
<1> HIDE DEF hit
<1> QED BY <1>7, <1>8, <1>13, <1>14

LEMMA BudgetAlwaysHolds ==
    ASSUME NEW pairs, PairSet(pairs), NEW list \in Seq(Paths)
    PROVE  BudgetHolds(pairs, list)
<1> SUFFICES ASSUME NEW some \in SUBSET pairs
             PROVE  /\ \A i \in DOMAIN list :
                          WidthOf(TranslatePath(some, list[i])) <= TextBound(pairs, list[i])
                    /\ Gained(some, list) <= Growth(pairs, list)
  BY DEF BudgetHolds
<1>1. \A i \in DOMAIN list : list[i] \in Paths
  BY LenProperties, ElementOfSeq
<1> QED BY <1>1, PathCharged, ListCharged

LEMMA FiniteListed ==
    ASSUME NEW S, IsFiniteSet(S)
    PROVE  SetToSeq(S) \in Seq(S)
<1>1. Cardinality(S) \in Nat /\ ExistsBijection(1..Cardinality(S), S)
  BY FS_CardinalityType
<1>2. PICK f \in [1..Cardinality(S) -> S] : IsInjective(f)
  BY <1>1 DEF ExistsBijection, Bijection, Injection
<1>3. SetToSeq(S) \in [1..Cardinality(S) -> S]
  BY <1>2 DEF SetToSeq
<1> QED BY <1>1, <1>3, SeqDef

(***************************************************************************)
(* Whatever was planned, and whichever of the planned renames are made:    *)
(* the receipt that preflight_receipt let through can be written after the *)
(* press and read by the next one.  The moves need not settle for it.      *)
(***************************************************************************)
THEOREM RecordedPathsFit == Spec => []HistoryFits
<1>1. Base => HistoryFits
  <2> SUFFICES ASSUME Base PROVE BudgetHolds(Pairs(steps, DOMAIN steps),
                               SetToSeq(tree.files \cup DirectoriesOf(tree.files)))
    BY DEF HistoryFits
  <2> DEFINE pairs == Pairs(steps, DOMAIN steps)
             paths == tree.files \cup DirectoriesOf(tree.files)
  <2>1. TypeOK /\ tree \in Trees /\ IsInventory(tree)
    BY TreeShape DEF Base, TypeOK
  <2>2. PairSet(pairs)
    <3> DEFINE f == [i \in DOMAIN steps |-> [old |-> steps[i].old, new |-> steps[i].new]]
    <3>1. pairs \subseteq Moves
      BY <2>1 DEF Pairs, TypeOK
    <3>2. f \in Surjection(DOMAIN steps, pairs)
      BY DEF Surjection, Pairs
    <3>3. steps \in Seq(PlanSteps)
      BY <2>1 DEF TypeOK
    <3>4. Len(steps) \in Nat /\ DOMAIN steps = 1..Len(steps)
      BY <3>3, LenProperties
    <3>5. IsFiniteSet(DOMAIN steps)
      BY <3>4, FS_Interval
    <3>6. IsFiniteSet(pairs)
      <4> HIDE DEF pairs, f
      <4> QED BY <3>2, <3>5, FS_Surjection
    <3> QED BY <3>1, <3>6 DEF PairSet
  <2>3. paths \in SUBSET Paths /\ IsFiniteSet(paths)
    <3> DEFINE deep == {q \in tree.files : Len(q) > 1}
               above == DirectoriesOf(tree.files)
               f == [q \in deep |-> Parent(q)]
    <3>1. tree.files \in SUBSET Paths /\ IsFiniteSet(tree.files)
      BY <2>1 DEF IsInventory
    <3>2. above \in SUBSET Paths
      <4>1. ASSUME NEW q \in Paths, Len(q) > 1 PROVE Parent(q) \in Paths
        <5>0. Len(q) \in 1..MaxDepth
          BY PathIsSeq
        <5>1. Len(q) - 1 \in 0..Len(q) /\ Len(q) - 1 # 0
          BY <4>1, <5>0, NamesAssumption
        <5> QED BY <5>1, PrefixTyped DEF Parent
      <4> QED BY <3>1, <4>1 DEF DirectoriesOf
    <3>3. f \in Surjection(deep, above)
      BY DEF Surjection, DirectoriesOf
    <3>4. IsFiniteSet(deep) 
      BY <3>1, FS_Subset
    <3>5. IsFiniteSet(above)
      <4> HIDE DEF deep, above, f
      <4> QED BY <3>3, <3>4, FS_Surjection
    <3> HIDE DEF above
    <3>6. IsFiniteSet(tree.files \cup above)
      BY <3>1, <3>5, FS_Union
    <3> QED BY <3>1, <3>2, <3>6 DEF above
  <2> HIDE DEF paths, pairs
  <2>4. SetToSeq(paths) \in Seq(Paths)
    <3>1. SetToSeq(paths) \in Seq(paths)
      BY <2>3, FiniteListed
    <3> QED BY <2>3, <3>1, SeqDef
  <2> QED BY <2>2, <2>4, BudgetAlwaysHolds DEF paths, pairs
<1>2. Init => Base
  BY BaseInit
<1>3. Base /\ [Next]_vars => Base'
  BY BaseStep
<1> QED BY <1>1, <1>2, <1>3, PTL DEF Spec

-----------------------------------------------------------------------------
(* Where files come to be and where they leave. *)

(***************************************************************************)
(* A move that takes a path under a place fills it or a place above it, and*)
(* one that takes a path from under a place takes that place along.        *)
(***************************************************************************)
LEMMA MoveMeetsPlace ==
    ASSUME NEW x \in Paths, NEW place \in Paths, NEW old, NEW new, IsMove(old, new)
    PROVE  /\ ~Under(x, place) /\ Under(Carry(x, old, new), place) => Under(place, new)
           /\ Under(x, place) /\ ~Under(Carry(x, old, new), place) =>
                Under(x, old) /\ Under(place, old)
<1> DEFINE y == Carry(x, old, new)
<1>1. /\ y \in Paths /\ Len(y) = Len(x)
      /\ Under(x, old) => Under(y, new) /\ \A i \in 1..Len(x) :
            y[i] = IF i <= Len(old) THEN new[i] ELSE x[i]
      /\ ~Under(x, old) => y = x
  BY CarryShape
<1>2. /\ old \in Paths /\ new \in Paths /\ Len(old) = Len(new) /\ Len(old) \in Nat /\ Len(x) \in Nat
      /\ Len(place) \in Nat
      /\ \A i \in 1..(Len(old) - 1) : old[i] = new[i]
  BY PathShape DEF IsMove
<1> HIDE DEF y
<1>3. ASSUME Under(x, old), Len(place) < Len(old) PROVE Under(x, place) <=> Under(y, place)
  <2>1. \A i \in 1..Len(place) : i \in 1..(Len(old) - 1) /\ i \in 1..Len(x) /\ i \in 1..Len(old)
    BY <1>2, <1>3 DEF Under
  <2>2. \A i \in 1..Len(place) : x[i] = y[i]
    BY <1>1, <1>2, <1>3, <2>1 DEF Under
  <2> QED BY <1>1, <2>2 DEF Under
<1>4. ASSUME ~Under(x, place), Under(y, place) PROVE Under(place, new)
  <2>1. Under(x, old) /\ Under(y, new) /\ Len(new) <= Len(place)
    BY <1>1, <1>2, <1>3, <1>4
  <2> QED BY <1>1, <1>2, <1>4, <2>1, PrefixesNest
<1>5. ASSUME Under(x, place), ~Under(y, place) PROVE Under(x, old) /\ Under(place, old)
  <2>1. Under(x, old) /\ Len(old) <= Len(place)
    BY <1>1, <1>2, <1>3, <1>5
  <2> QED BY <1>2, <1>5, <2>1, PrefixesNest
<1> QED BY <1>4, <1>5 DEF y

(***************************************************************************)
(* A path that has come under a place was taken there by one of the moves, *)
(* and one that has gone was taken away.                                   *)
(***************************************************************************)
Comes(seq, on, place, s, t) == \E k \in (s + 1)..t : k \in on /\ Under(place, seq[k].new)
Goes(seq, on, place, x, s, t) ==
    \E k \in (s + 1)..t : /\ k \in on /\ Under(place, seq[k].old)
                          /\ Under(Along(seq, on, x)[k - 1], seq[k].old)

LEMMA PlaceReached ==
    ASSUME NEW seq, MoveList(seq), NEW on, NEW x \in Paths, NEW place \in Paths,
           NEW s \in 0..Len(seq), NEW t \in s..Len(seq)
    PROVE  /\ ~Under(Along(seq, on, x)[s], place) /\ Under(Along(seq, on, x)[t], place)
                 => Comes(seq, on, place, s, t)
           /\ Under(Along(seq, on, x)[s], place) /\ ~Under(Along(seq, on, x)[t], place)
                 => Goes(seq, on, place, x, s, t)
<1> DEFINE f == Along(seq, on, x)
           n == Len(seq)
<1>1. n \in Nat /\ s \in Nat /\ t \in Nat /\ s <= t /\ t <= n /\ t \in s..t
  BY DEF MoveList
<1>2. f \in [0..n -> Paths] /\ \A k \in 1..n : f[k] = AlongStep(seq, on, k, f[k - 1])
  BY AlongSteps
<1>3. \A k \in 1..n : IsMove(seq[k].old, seq[k].new)
  BY DEF MoveList
<1> HIDE DEF f, n
<1>4. ASSUME NEW k \in s..(t - 1)
      PROVE  /\ ~Under(f[k], place) /\ Under(f[k + 1], place) => Comes(seq, on, place, s, t)
             /\ Under(f[k], place) /\ ~Under(f[k + 1], place) => Goes(seq, on, place, x, s, t)
  <2>1. PICK j \in (s + 1)..t : j = k + 1 /\ j - 1 = k /\ j \in 1..n
    BY <1>1
  <2>2. f[k] \in Paths /\ f[j] = AlongStep(seq, on, j, f[k]) /\ IsMove(seq[j].old, seq[j].new)
    BY <1>1, <1>2, <1>3, <2>1
  <2>3. CASE j \in on
    <3>1. f[j] = Carry(f[k], seq[j].old, seq[j].new)
      BY <2>2, <2>3 DEF AlongStep
    <3>2. /\ ~Under(f[k], place) /\ Under(f[j], place) => Under(place, seq[j].new)
          /\ Under(f[k], place) /\ ~Under(f[j], place) =>
                Under(f[k], seq[j].old) /\ Under(place, seq[j].old)
      BY <2>2, <3>1, MoveMeetsPlace
    <3> QED BY <2>1, <2>3, <3>2 DEF Comes, Goes, f
  <2>4. CASE j \notin on
    BY <2>1, <2>2, <2>4 DEF AlongStep
  <2> QED BY <2>3, <2>4
<1>5. ASSUME ~Under(f[s], place), ~Comes(seq, on, place, s, t) PROVE ~Under(f[t], place)
  <2> DEFINE S == {k \in s..t : ~Under(f[k], place)}
  <2>1. s \in S /\ \A k \in s..(t - 1) : k \in S => k + 1 \in S
    BY <1>1, <1>4, <1>5
  <2>2. \A k \in s..t : k \in S
    <3> HIDE DEF S
    <3> QED BY <1>1, <2>1, Upwards
  <2> QED BY <1>1, <2>2
<1>6. ASSUME Under(f[s], place), ~Goes(seq, on, place, x, s, t) PROVE Under(f[t], place)
  <2> DEFINE S == {k \in s..t : Under(f[k], place)}
  <2>1. s \in S /\ \A k \in s..(t - 1) : k \in S => k + 1 \in S
    BY <1>1, <1>4, <1>6
  <2>2. \A k \in s..t : k \in S
    <3> HIDE DEF S
    <3> QED BY <1>1, <2>1, Upwards
  <2> QED BY <1>1, <2>2
<1> QED BY <1>5, <1>6 DEF f

(***************************************************************************)
(* Moves made in order: each carries one of the files to where none of     *)
(* them is, and none consumes what another makes.                          *)
(***************************************************************************)
Carries(seq, on, F, k) == \E w \in F : Under(Along(seq, on, w)[k - 1], seq[k].old)
Free(seq, on, F, k) == \A f \in F : ~Under(Along(seq, on, f)[k - 1], seq[k].new)
NoChain(seq) == \A k, l \in 1..Len(seq) : seq[k].old # seq[l].new

Orderly(seq, on, F) ==
    /\ on \subseteq 1..Len(seq) /\ F \subseteq Paths /\ NoChain(seq)
    /\ \A k \in on : Carries(seq, on, F, k) /\ Free(seq, on, F, k)

(***************************************************************************)
(* A place that a move fills was never occupied before, and one that a     *)
(* move empties never is again.                                            *)
(***************************************************************************)
NeverBefore(seq, on, F, k) ==
    \A f \in F, a \in 0..(k - 1) : ~Under(Along(seq, on, f)[a], seq[k].new)
NeverAgain(seq, on, F, t) ==
    \A k \in on, f \in F : k <= t => ~Under(Along(seq, on, f)[t], seq[k].old)

LEMMA FilledOnce ==
    ASSUME NEW seq, MoveList(seq), NEW on, NEW F, Orderly(seq, on, F), NEW k \in on,
           \A t \in 0..(k - 1) : NeverAgain(seq, on, F, t)
    PROVE  NeverBefore(seq, on, F, k)
<1> SUFFICES ASSUME NEW f \in F, NEW a \in 0..(k - 1), Under(Along(seq, on, f)[a], seq[k].new)
             PROVE  FALSE
  BY DEF NeverBefore
<1>1. /\ k \in 1..Len(seq) /\ Len(seq) \in Nat /\ f \in Paths
      /\ k \in Nat /\ a \in Nat /\ a <= k - 1
  BY DEF Orderly, MoveList
<1>2. a \in 0..Len(seq) /\ k - 1 \in a..Len(seq) /\ k - 1 \in 0..(k - 1) /\ k - 1 \in 0..Len(seq)
  BY <1>1
<1>3. IsMove(seq[k].old, seq[k].new) /\ ~Under(Along(seq, on, f)[k - 1], seq[k].new)
  BY <1>1 DEF MoveList, Orderly, Free
<1>4. Goes(seq, on, seq[k].new, f, a, k - 1)
  BY <1>1, <1>2, <1>3, PlaceReached DEF IsMove
<1>5. PICK q \in (a + 1)..(k - 1) : q \in on /\ Under(seq[k].new, seq[q].old)
  BY <1>4 DEF Goes
<1>6. PICK w \in F : Under(Along(seq, on, w)[k - 1], seq[k].old)
  BY DEF Orderly, Carries
<1>7. q \in 1..Len(seq) /\ IsMove(seq[q].old, seq[q].new) /\ seq[q].old # seq[k].new
  BY <1>1, <1>5 DEF Orderly, MoveList, NoChain
<1>8. Under(seq[k].old, seq[q].old)
  <2>1. /\ seq[k].new \in Paths /\ seq[q].old \in Paths /\ Len(seq[k].old) = Len(seq[k].new)
        /\ \A i \in 1..(Len(seq[k].new) - 1) : seq[k].old[i] = seq[k].new[i]
    BY <1>3, <1>7 DEF IsMove
  <2>2. Len(seq[k].new) \in Nat /\ Len(seq[q].old) \in Nat
    BY <2>1, PathShape
  <2>3. /\ Len(seq[q].old) <= Len(seq[k].new)
        /\ \A i \in 1..Len(seq[q].old) : seq[k].new[i] = seq[q].old[i]
    BY <1>5 DEF Under
  <2>4. Len(seq[q].old) # Len(seq[k].new)
    BY <1>7, <2>1, <2>3, PathEqual
  <2> QED BY <2>1, <2>2, <2>3, <2>4 DEF Under
<1>9. Under(Along(seq, on, w)[k - 1], seq[q].old)
  <2>1. w \in Paths
    BY DEF Orderly
  <2>2. Along(seq, on, w)[k - 1] \in Paths
    BY <1>2, <2>1, AlongSteps
  <2> QED BY <1>3, <1>6, <1>7, <1>8, <2>2, UnderTransitive DEF IsMove
<1>10. q <= k - 1
  BY <1>1, <1>5
<1> QED BY <1>2, <1>5, <1>9, <1>10 DEF NeverAgain

LEMMA EmptiedForGood ==
    ASSUME NEW seq, MoveList(seq), NEW on, NEW F, Orderly(seq, on, F)
    PROVE  /\ \A t \in 0..Len(seq) : NeverAgain(seq, on, F, t)
           /\ \A k \in on : NeverBefore(seq, on, F, k)
<1> DEFINE n == Len(seq)
           T(t) == NeverAgain(seq, on, F, t)
           S == {t \in 0..n : \A u \in 0..t : T(u)}
<1>1. n \in Nat /\ on \subseteq 1..n /\ F \subseteq Paths
  BY DEF Orderly, MoveList
<1>2. 0 \in S
  <2>1. \A k \in on : ~(k <= 0)
    BY <1>1
  <2>2. T(0)
    BY <2>1 DEF NeverAgain
  <2> HIDE DEF T
  <2> QED BY <1>1, <2>2
<1>3. ASSUME NEW s \in 0..(n - 1), s \in S PROVE s + 1 \in S
  <2>1. PICK t \in 1..n : t = s + 1 /\ t - 1 = s
    BY <1>1
  <2>2. \A u \in 0..(t - 1) : T(u)
    BY <1>3, <2>1
  <2>3. T(t)
    <3> SUFFICES ASSUME NEW k \in on, NEW f \in F, k <= t, Under(Along(seq, on, f)[t], seq[k].old)
                 PROVE  FALSE
      BY DEF NeverAgain
    <3>1. /\ f \in Paths /\ k \in 1..n /\ k \in Nat /\ t \in Nat /\ t - 1 \in 0..n
          /\ IsMove(seq[k].old, seq[k].new) /\ IsMove(seq[t].old, seq[t].new)
          /\ t - 1 \in 0..(t - 1) /\ t \in (t - 1)..n /\ t \in 0..n
      BY <1>1, <2>1 DEF MoveList, Orderly
    <3>2. /\ Along(seq, on, f)[t] = AlongStep(seq, on, t, Along(seq, on, f)[t - 1])
          /\ Along(seq, on, f)[t - 1] \in Paths
      <4>1. /\ Along(seq, on, f) \in [0..n -> Paths]
            /\ \A j \in 1..n : Along(seq, on, f)[j] = AlongStep(seq, on, j, Along(seq, on, f)[j - 1])
        BY <3>1, AlongSteps
      <4> HIDE DEF n
      <4> QED BY <3>1, <4>1
    <3>3. CASE k = t
      <4>1. Along(seq, on, f)[t] = Carry(Along(seq, on, f)[t - 1], seq[t].old, seq[t].new)
        BY <3>2, <3>3 DEF AlongStep
      <4>2. CASE Under(Along(seq, on, f)[t - 1], seq[t].old)
        <5>1. Under(Along(seq, on, f)[t], seq[t].new) /\ Along(seq, on, f)[t] \in Paths
          BY <3>1, <3>2, <4>1, <4>2, CarryShape
        <5>2. Under(seq[t].new, seq[t].old) /\ Under(seq[t].old, seq[t].new)
          BY <3>1, <3>3, <5>1, PrefixesNest DEF IsMove
        <5> QED BY <3>1, <5>2, UnderAntisymmetric DEF IsMove
      <4>3. CASE ~Under(Along(seq, on, f)[t - 1], seq[t].old)
        BY <3>1, <3>2, <3>3, <4>1, <4>3, CarryShape
      <4> QED BY <4>2, <4>3
    <3>4. CASE k < t
      <4>1. ~Under(Along(seq, on, f)[t - 1], seq[k].old)
        <5>1. k <= t - 1 /\ NeverAgain(seq, on, F, t - 1)
          BY <2>2, <3>1, <3>4
        <5> QED BY <5>1 DEF NeverAgain
      <4>2. Comes(seq, on, seq[k].old, t - 1, t)
        BY <3>1, <4>1, PlaceReached DEF IsMove
      <4>3. t \in on /\ Under(seq[k].old, seq[t].new)
        <5>1. \A q \in ((t - 1) + 1)..t : q = t
          BY <3>1
        <5> QED BY <4>2, <5>1 DEF Comes
      <4>4. NeverBefore(seq, on, F, t)
        BY <2>2, <4>3, FilledOnce
      <4>5. PICK w \in F : Under(Along(seq, on, w)[k - 1], seq[k].old)
        BY DEF Orderly, Carries
      <4>6. w \in Paths /\ k - 1 \in 0..n /\ k - 1 \in 0..(t - 1)
        BY <1>1, <3>1, <3>4
      <4>7. Under(Along(seq, on, w)[k - 1], seq[t].new)
        <5>1. Along(seq, on, w)[k - 1] \in Paths
          BY <4>6, AlongSteps
        <5> QED BY <3>1, <4>3, <4>5, <5>1, UnderTransitive DEF IsMove
      <4> QED BY <4>4, <4>6, <4>7 DEF NeverBefore
    <3> QED BY <3>1, <3>3, <3>4
  <2>4. \A u \in 0..t : u \in 0..(t - 1) \/ u = t
    BY <1>1
  <2> HIDE DEF T
  <2> QED BY <1>1, <2>1, <2>2, <2>3, <2>4
<1>4. \A t \in 0..n : t \in S
  <2> HIDE DEF S
  <2> QED BY <1>1, <1>2, <1>3, Upwards
<1>5. \A t \in 0..n : T(t)
  <2> HIDE DEF T
  <2> QED BY <1>4
<1>6. ASSUME NEW k \in on PROVE NeverBefore(seq, on, F, k)
  <2>1. \A t \in 0..(k - 1) : t \in 0..n
    BY <1>1
  <2> QED BY <1>5, <2>1, FilledOnce
<1> QED BY <1>5, <1>6

(***************************************************************************)
(* When every step was planned for one of the files, a step is made if     *)
(* those it waits for are and its destination is free, and only then.      *)
(***************************************************************************)
PlannedWith(seq, F) ==
    \A i \in 1..Len(seq) : \E b \in 0..(i - 1), e \in F :
        /\ Beside(seq, b, i) /\ WaitsFor(seq, b, i, e)
        /\ Under(Along(seq, DOMAIN seq, e)[b], seq[i].old)

Decided(seq, on, F, k) ==
    IF k \in on THEN seq[k].preds \subseteq on /\ Free(seq, on, F, k)
    ELSE ~(seq[k].preds \subseteq on) \/ ~Free(seq, on, F, k)

SameMove(seq, i, j) == seq[i].old = seq[j].old /\ seq[i].new = seq[j].new

LEMMA SkippedCarriesNone ==
    ASSUME NEW seq, MoveList(seq), NEW on, NEW F, Orderly(seq, on, F), PlannedWith(seq, F),
           NEW i \in on, NEW j \in 1..Len(seq), j \notin on, SameMove(seq, i, j),
           Decided(seq, on, F, i), Decided(seq, on, F, j), NEW f \in F
    PROVE  ~Under(Along(seq, on, f)[j - 1], seq[j].old)
<1> DEFINE n == Len(seq)
<1>1. /\ n \in Nat /\ i \in 1..n /\ i \in Nat /\ j \in Nat /\ i # j /\ F \subseteq Paths
      /\ on \subseteq 1..n
  BY DEF Orderly, MoveList
<1>2. j - 1 \in 0..n /\ i - 1 \in 0..n /\ (j < i => j - 1 \in 0..(i - 1))
  BY <1>1
<1>3. IsMove(seq[j].old, seq[j].new) /\ seq[j].old \in Paths
  BY DEF MoveList, IsMove
<1>4. \A k \in on : NeverBefore(seq, on, F, k)
  BY EmptiedForGood
<1> SUFFICES ASSUME Under(Along(seq, on, f)[j - 1], seq[j].old) PROVE FALSE
  OBVIOUS
<1>5. CASE i < j
  <2>1. i <= j - 1 /\ NeverAgain(seq, on, F, j - 1)
    BY <1>1, <1>2, <1>5, EmptiedForGood
  <2> QED BY <2>1 DEF NeverAgain, SameMove
<1>6. CASE j < i /\ ~Free(seq, on, F, j)
  <2>1. PICK g \in F : Under(Along(seq, on, g)[j - 1], seq[j].new)
    BY <1>6 DEF Free
  <2> QED BY <1>2, <1>4, <1>6, <2>1 DEF NeverBefore, SameMove
<1>7. CASE j < i /\ ~(seq[j].preds \subseteq on)
  <2>1. PICK b \in 0..(i - 1), e \in F :
          /\ Beside(seq, b, i) /\ WaitsFor(seq, b, i, e)
          /\ Under(Along(seq, DOMAIN seq, e)[b], seq[i].old)
    BY <1>1 DEF PlannedWith
  <2>2. seq[i].preds \subseteq on /\ e \in Paths
    BY <1>1 DEF Decided
  <2>3. /\ \A k \in 0..b : Along(seq, on, e)[k] = Along(seq, DOMAIN seq, e)[k]
        /\ Under(Along(seq, on, e)[i - 1], seq[i].old)
    BY <1>1, <2>1, <2>2, PlannedMet
  <2>4. j <= b
    <3>1. j \notin (b + 1)..(i - 1)
      BY <2>1 DEF Beside, SameMove
    <3> QED BY <1>1, <1>7, <3>1
  <2>5. ~Under(Along(seq, on, e)[j - 1], seq[j].old)
    <3>1. j \in 1..b /\ j - 1 \in 0..b
      BY <1>1, <2>4
    <3>2. j \notin seq[i].preds
      BY <2>2
    <3>3. ~Meets(seq, e, j)
      BY <2>1, <3>1, <3>2 DEF WaitsFor
    <3> QED BY <2>3, <3>1, <3>3 DEF Meets
  <2>6. Comes(seq, on, seq[j].old, j - 1, i - 1)
    <3>1. i - 1 \in (j - 1)..Len(seq)
      BY <1>1, <1>7
    <3> QED BY <1>2, <1>3, <2>2, <2>3, <2>5, <3>1, PlaceReached DEF SameMove
  <2>7. PICK q \in ((j - 1) + 1)..(i - 1) : q \in on /\ Under(seq[j].old, seq[q].new)
    BY <2>6 DEF Comes
  <2>8. Under(Along(seq, on, f)[j - 1], seq[q].new)
    <3>1. Along(seq, on, f)[j - 1] \in Paths
      <4>1. Along(seq, on, f) \in [0..n -> Paths]
        BY <1>1, AlongSteps
      <4> QED BY <1>2, <4>1
    <3>2. IsMove(seq[q].old, seq[q].new)
      BY <1>1, <2>7 DEF MoveList
    <3> QED BY <1>3, <2>7, <3>1, <3>2, UnderTransitive DEF IsMove
  <2>9. j - 1 \in 0..(q - 1)
    BY <1>1, <2>7
  <2> QED BY <1>4, <2>7, <2>8, <2>9 DEF NeverBefore
<1> QED BY <1>1, <1>5, <1>6, <1>7 DEF Decided

(***************************************************************************)
(* Moves that carry nothing make no difference.                            *)
(***************************************************************************)
LEMMA IdleMoves ==
    ASSUME NEW seq, MoveList(seq), NEW on, NEW ids, on \subseteq ids, NEW p \in Paths,
           \A k \in 1..Len(seq) : k \in ids \ on => ~Under(Along(seq, on, p)[k - 1], seq[k].old)
    PROVE  \A k \in 0..Len(seq) : Along(seq, ids, p)[k] = Along(seq, on, p)[k]
<1> DEFINE n == Len(seq)
           f == Along(seq, on, p)
           g == Along(seq, ids, p)
           S == {k \in 0..n : g[k] = f[k]}
<1>1. n \in Nat /\ \A k \in 1..n : IsMove(seq[k].old, seq[k].new)
  BY DEF MoveList
<1>2. /\ f \in [0..n -> Paths] /\ f[0] = p /\ g \in [0..n -> Paths] /\ g[0] = p
      /\ \A k \in 1..n : f[k] = AlongStep(seq, on, k, f[k - 1])
      /\ \A k \in 1..n : g[k] = AlongStep(seq, ids, k, g[k - 1])
  BY AlongSteps
<1>3. \A k \in 1..n : k \in ids \ on => ~Under(f[k - 1], seq[k].old)
  OBVIOUS
<1> HIDE DEF n, f, g
<1>4. 0 \in S
  BY <1>1, <1>2
<1>5. ASSUME NEW k \in 0..(n - 1), k \in S PROVE k + 1 \in S
  <2>1. PICK j \in 1..n : j = k + 1 /\ j - 1 = k
    BY <1>1
  <2>2. /\ f[j] = AlongStep(seq, on, j, f[k]) /\ g[j] = AlongStep(seq, ids, j, f[k])
        /\ f[k] \in Paths
    BY <1>2, <1>5, <2>1
  <2>3. CASE j \in ids \ on
    <3>1. Carry(f[k], seq[j].old, seq[j].new) = f[k]
      BY <1>1, <1>3, <2>1, <2>2, <2>3, CarryShape
    <3> QED BY <1>1, <2>1, <2>2, <2>3, <3>1 DEF AlongStep
  <2>4. CASE j \notin ids \ on
    BY <1>1, <2>1, <2>2, <2>4 DEF AlongStep
  <2> QED BY <2>3, <2>4
<1>6. \A k \in 0..n : k \in S
  <2> HIDE DEF S
  <2> QED BY <1>1, <1>4, <1>5, Upwards
<1> QED BY <1>6 DEF n, f, g

-----------------------------------------------------------------------------
(* What was made of the plan, and why. *)

(***************************************************************************)
(* A step is only made after those it waits for; undisturbed, every step   *)
(* met so far was made or skipped for the reasons the files still tell.    *)
(***************************************************************************)
Made ==
    /\ pc \in {"move", "replace"} => Step.preds \subseteq executed
    /\ pc \in {"retarget", "done"} => next = Len(steps) + 1
    /\ \A k \in executed : steps[k].preds \subseteq executed
    /\ mishaps = 0 => \A k \in 1..(next - 1) : Decided(steps, executed, tree.files, k)

LEMMA FreeNow ==
    ASSUME Base, TranslationsTrue, Present = tree.files, next \in DOMAIN steps
    PROVE  Below(Step.new) = {} <=> Free(steps, executed, tree.files, next)
<1>1. /\ MoveList(steps) /\ next \in 1..Len(steps) /\ Before(executed, next) /\ DiskTyped
  BY TypeParts, StepsShape, ExecutedSteps DEF Base, Before
<1>2. next - 1 \in 0..Len(steps) /\ \A k \in ((next - 1) + 1)..Len(steps) : k \notin executed
  BY <1>1 DEF MoveList, Before
<1>3. ASSUME NEW f \in tree.files PROVE where[f] = Along(steps, executed, f)[next - 1]
  <2>1. f \in Paths /\ where[f] = Along(steps, executed, f)[Len(steps)]
    BY <1>1, <1>3, TreeShape, TranslationsMade DEF DiskTyped, IsInventory
  <2>2. Len(steps) \in (next - 1)..Len(steps)
    BY <1>1 DEF MoveList
  <2> QED BY <1>1, <1>2, <2>1, <2>2, AlongIdle
<1> QED BY <1>3 DEF Below, Free, Step

LEMMA DecidedKept ==
    ASSUME NEW seq, MoveList(seq), NEW j \in 1..Len(seq), NEW on, Before(on, j),
           NEW F \in SUBSET Paths, NEW k \in 1..(j - 1), seq[k].preds \subseteq 1..(k - 1),
           Decided(seq, on, F, k)
    PROVE  Decided(seq, on \cup {j}, F, k)
<1>1. /\ Len(seq) \in Nat /\ j \in Nat /\ k \in Nat /\ k - 1 \in Nat /\ k - 1 <= Len(seq)
      /\ k - 1 \in 0..(k - 1) /\ j \notin 1..(k - 1)
  BY DEF MoveList
<1>2. SameMoves(seq, seq, k - 1) /\ SameOn(on, on \cup {j}, 1, k - 1)
  BY <1>1 DEF SameMoves, SameOn
<1>3. \A f \in F : Along(seq, on, f)[k - 1] = Along(seq, on \cup {j}, f)[k - 1]
  BY <1>1, <1>2, AlongAgree
<1>4. Free(seq, on, F, k) <=> Free(seq, on \cup {j}, F, k)
  BY <1>3 DEF Free
<1>5. (k \in on <=> k \in on \cup {j}) /\ (seq[k].preds \subseteq on <=> seq[k].preds \subseteq on \cup {j})
  BY <1>1
<1> QED BY <1>4, <1>5 DEF Decided

LEMMA MadeStep ==
    ASSUME Running, Made, [Next]_vars
    PROVE  Made'
<1> DEFINE F == tree.files
           D(k) == Decided(steps, executed, tree.files, k)
<1>1. /\ Base /\ DiskTyped /\ PlanTyped /\ MoveList(steps) /\ F \in SUBSET Paths
      /\ Len(steps) \in Nat /\ DOMAIN steps = 1..Len(steps)
      /\ Before(executed, next) /\ next \in Nat \ {0} /\ next \in 1..(Len(steps) + 1)
      /\ \A k \in DOMAIN steps : steps[k].id = k /\ steps[k].preds \subseteq 1..(k - 1)
  BY TypeParts, TreeShape, StepsShape, ExecutedSteps
     DEF Running, Base, Before, PlanTyped, DiskTyped, IsInventory, RunTyped
<1>2. mishaps' = 0 => mishaps = 0 /\ Present = F /\ ~Disturbed
  BY <1>1, MishapsCount DEF Running, AllThere
<1>3. CASE Moved
  <2>1. /\ pc \in {"move", "replace"} /\ pc' = "rename" /\ next' = next + 1
        /\ executed' = executed \cup {next} /\ UNCHANGED <<tree, steps, mishaps>>
    BY <1>3 DEF Moved, planVars
  <2>2. next \in 1..Len(steps) /\ Step.preds \subseteq executed /\ next \in DOMAIN steps
    BY <1>1, <2>1 DEF Base, PhaseOK, Made
  <2>3. \A k \in executed' : steps[k].preds \subseteq executed'
    BY <2>1, <2>2 DEF Made, Step
  <2>4. ASSUME mishaps' = 0, NEW k \in 1..(next' - 1) PROVE Decided(steps, executed', F, k)
    <3>1. CASE k \in 1..(next - 1)
      <4>1. D(k) /\ k \in DOMAIN steps
        BY <1>1, <1>2, <2>4, <3>1 DEF Made
      <4> QED BY <1>1, <2>1, <2>2, <3>1, <4>1, DecidedKept
    <3>2. CASE k = next
      <4>1. Below(Step.new) = {}
        BY <1>2, <2>1, <2>4 DEF Running, Ready
      <4>2. Free(steps, executed, F, next)
        BY <1>2, <2>2, <2>4, <4>1, FreeNow DEF Running
      <4>3. Free(steps, executed', F, next)
        <5>1. /\ next - 1 \in Nat /\ next - 1 <= Len(steps) /\ next - 1 \in 0..(next - 1)
              /\ SameMoves(steps, steps, next - 1) /\ SameOn(executed, executed', 1, next - 1)
          BY <1>1, <2>1, <2>2 DEF SameMoves, SameOn
        <5>2. \A f \in F : Along(steps, executed, f)[next - 1] = Along(steps, executed', f)[next - 1]
          BY <1>1, <5>1, AlongAgree
        <5> QED BY <4>2, <5>2 DEF Free
      <4> QED BY <2>1, <2>2, <3>2, <4>3 DEF Decided, Step
    <3> QED BY <1>1, <2>1, <3>1, <3>2
  <2> QED BY <2>1, <2>3, <2>4 DEF Made
<1>4. CASE SkipStep
  <2>1. /\ pc' = "rename" /\ next' = next + 1 /\ next \in DOMAIN steps /\ Skips
        /\ UNCHANGED <<tree, steps, executed, mishaps, where>>
    BY <1>4 DEF SkipStep, Advance, planVars
  <2>2. ASSUME mishaps' = 0, NEW k \in 1..(next' - 1) PROVE D(k)
    <3>1. CASE k \in 1..(next - 1)
      BY <1>2, <2>2, <3>1 DEF Made
    <3>2. CASE k = next
      <4>1. next \notin executed
        BY <1>1 DEF Before
      <4>2. ~(Step.preds \subseteq executed) \/ ~Free(steps, executed, F, next)
        BY <1>1, <1>2, <2>1, <2>2, FreeNow, KindsTyped DEF Skips, Running
      <4> QED BY <3>2, <4>1, <4>2 DEF Decided, Step
    <3> QED BY <1>1, <2>1, <3>1, <3>2
  <2> QED BY <2>1, <2>2 DEF Made
<1>5. CASE CheckStep
  BY <1>2, <1>5 DEF CheckStep, Skips, Goto, Raise, planVars, Made, Step
<1>6. CASE RenamesDone
  <2>1. next = Len(steps) + 1
    BY <1>1, <1>6 DEF RenamesDone
  <2> QED BY <1>2, <1>6, <2>1 DEF RenamesDone, Goto, planVars, Made, Step
<1>7. CASE pc \in Early /\ pc' \notin {"move", "replace", "retarget", "done"} /\ UNCHANGED <<next, executed, mishaps>>
  <2>1. executed' = {} /\ next' = 1
    BY <1>1, <1>7 DEF Base, PhaseOK
  <2>2. \A k \in 1..(next' - 1) : FALSE
    BY <2>1
  <2> QED BY <1>7, <2>1, <2>2 DEF Made
<1>8. CASE /\ UNCHANGED <<tree, steps, next, executed>> /\ (mishaps' = 0 => mishaps = 0)
           /\ \/ pc' = pc
              \/ pc = "move" /\ pc' = "replace"
              \/ pc' \in {"raised", "refused"}
              \/ pc = "retarget" /\ pc' = "done"
  BY <1>8 DEF Made, Step
<1>9. \/ Moved \/ SkipStep \/ CheckStep \/ RenamesDone
      \/ pc \in Early /\ pc' \notin {"move", "replace", "retarget", "done"} /\ UNCHANGED <<next, executed, mishaps>>
      \/ /\ UNCHANGED <<tree, steps, next, executed>> /\ (mishaps' = 0 => mishaps = 0)
         /\ \/ pc' = pc
            \/ pc = "move" /\ pc' = "replace"
            \/ pc' \in {"raised", "refused"}
            \/ pc = "retarget" /\ pc' = "done"
  <2>1. CASE UNCHANGED vars \/ OtherProcess
    BY <1>2, <2>1 DEF vars, OtherProcess, Create, Delete, planVars
  <2>2. CASE ValidateRows \/ CompilePass \/ CompileDone \/ BindPlan \/ Revalidate
    BY <2>2 DEF ValidateRows, CompilePass, CompileDone, BindPlan, Revalidate, Goto, Refuse, Early
  <2>3. CASE MoveStep \/ LookStep \/ ReplaceStep
    <3>1. Moved \/ pc' \in {"raised", "replace"}
      BY <1>1, <2>3, StepMoves, KindsTyped DEF MoveStep, LookStep, ReplaceStep, Goto, Raise, Advance, Moved
    <3> QED BY <2>3, <3>1 DEF MoveStep, LookStep, ReplaceStep, Goto, Raise, Advance, planVars
  <2>4. CASE Done \/ \E l \in links : Retarget(l)
    BY <2>4 DEF Done, Retarget, Goto, Raise, planVars
  <2> QED BY <2>1, <2>2, <2>3, <2>4 DEF Next, Press
<1> QED BY <1>3, <1>4, <1>5, <1>6, <1>7, <1>8, <1>9

-----------------------------------------------------------------------------
(* The rows behind the steps. *)

(***************************************************************************)
(* No row consumes what another made of the same path, so that a name is   *)
(* renamed by one row at most.                                             *)
(***************************************************************************)
LEMMA OneRowRenames ==
    ASSUME rows \in Seq(Rows), Independent, NEW p \in Paths, NEW i \in 1..Len(p),
           RewrittenName(rows, p, i) # p[i]
    PROVE  \E k \in DOMAIN rows : p[i] = rows[k].from /\ RewrittenName(rows, p, i) = rows[k].to
<1> DEFINE n == Len(rows)
           f == Becoming(rows, p, i)
           By(k, name) == \E l \in 1..n : /\ l <= k /\ p \in rows[l].scope
                                          /\ p[i] = rows[l].from /\ name = rows[l].to
           S == {k \in 0..n : f[k] = p[i] \/ By(k, f[k])}
<1>1. n \in Nat /\ DOMAIN rows = 1..n /\ \A k \in 1..n : rows[k] \in Rows
  OBVIOUS
<1>2. f[0] = p[i] /\ \A k \in 1..n : f[k] = Rewrite(rows[k], p, f[k - 1])
  BY BecomingSteps
<1>3. \A k, l \in 1..n : p \in rows[k].scope /\ p \in rows[l].scope => rows[k].to # rows[l].from
  BY <1>1 DEF Independent, Apart, DisjointExact
<1>4. f[n] = RewrittenName(rows, p, i)
  BY DEF RewrittenName
<1> HIDE DEF n, f
<1>5. 0 \in S
  BY <1>1, <1>2
<1>6. ASSUME NEW k \in 0..(n - 1), k \in S PROVE k + 1 \in S
  <2>1. PICK j \in 1..n : j = k + 1 /\ j - 1 = k
    BY <1>1
  <2>2. f[j] = Rewrite(rows[j], p, f[k])
    BY <1>2, <2>1
  <2>3. CASE f[k] = p[i]
    <3>1. f[j] = p[i] \/ By(j, f[j])
      BY <2>1, <2>2, <2>3 DEF Rewrite
    <3> HIDE DEF By
    <3> QED BY <2>1, <3>1
  <2>4. CASE By(k, f[k])
    <3>1. PICK l \in 1..n : /\ l <= k /\ p \in rows[l].scope
                            /\ p[i] = rows[l].from /\ f[k] = rows[l].to
      BY <2>4
    <3>2. f[j] = f[k]
      BY <1>3, <2>2, <3>1 DEF Rewrite
    <3>3. By(j, f[j])
      BY <2>1, <3>1, <3>2
    <3> HIDE DEF By
    <3> QED BY <2>1, <3>3
  <2> QED BY <1>6, <2>3, <2>4
<1>7. n \in S
  <2>1. \A k \in 0..n : k \in S
    <3> HIDE DEF S
    <3> QED BY <1>1, <1>5, <1>6, Upwards
  <2> HIDE DEF S
  <2> QED BY <1>1, <2>1
<1> QED BY <1>1, <1>4, <1>7

LEMMA MoveOfNames ==
    ASSUME NEW rs \in Seq(Rows), NEW p \in Paths, Changed(rs, p) # {}
    PROVE  \E d \in 1..Len(p) : /\ RewrittenName(rs, p, d) # p[d] /\ Last(MoveOf(rs, p).old) = p[d]
                                /\ Last(MoveOf(rs, p).new) = RewrittenName(rs, p, d)
<1> DEFINE d == Shallowest(rs, p)
           old == SubSeq(p, 1, d)
           name == RewrittenName(rs, p, d)
           new == [old EXCEPT ![d] = name]
<1>1. Changed(rs, p) \in SUBSET Nat
  BY PathShape DEF Changed
<1>2. \E i \in Changed(rs, p) : \A j \in Changed(rs, p) : i <= j
  BY <1>1, LeastMember
<1>3. d \in Changed(rs, p)
  BY <1>2 DEF Shallowest
<1>4. d \in 1..Len(p) /\ name # p[d] /\ d \in 0..Len(p)
  BY <1>3 DEF Changed
<1>5. MoveOf(rs, p) = [old |-> old, new |-> new]
  BY DEF MoveOf
<1> HIDE DEF d, name
<1>6. old \in [1..d -> Names] /\ Len(old) = d /\ old[d] = p[d]
  BY <1>4, PrefixTyped
<1>7. IsMove(old, new)
  <2>1. IsMove(MoveOf(rs, p).old, MoveOf(rs, p).new)
    BY MoveOfShape
  <2> HIDE DEF old, new
  <2>2. MoveOf(rs, p).old = old /\ MoveOf(rs, p).new = new
    BY <1>5
  <2> QED BY <2>1, <2>2
<1> HIDE DEF old
<1>8. Len(new) = d /\ new[d] = name
  BY <1>4, <1>6, <1>7 DEF IsMove
<1> HIDE DEF new
<1> QED BY <1>4, <1>5, <1>6, <1>8 DEF Last, name

(***************************************************************************)
(* Every step gives a name that a row consumes the name the row produces.  *)
(***************************************************************************)
NamedSteps(seq) ==
    \A i \in 1..Len(seq) : \E k \in DOMAIN rows :
        Last(seq[i].old) = rows[k].from /\ Last(seq[i].new) = rows[k].to

Named ==
    /\ pc = "validate" => steps = <<>>
    /\ pc \notin {"validate", "refused"} => Independent
    /\ NamedSteps(steps)

LEMMA PassNamed ==
    ASSUME Base, Independent, NamedSteps(steps), PassAppended
    PROVE  NamedSteps(steps \o PassSteps)
<1> DEFINE plan == steps \o PassSteps
           n == Len(steps)
           m == Len(PassSteps)
           T(i) == \E k \in DOMAIN rows :
                      Last(plan[i].old) = rows[k].from /\ Last(plan[i].new) = rows[k].to
<1>1. /\ DiskTyped /\ PlanTyped /\ NoneConverges /\ rows \in Seq(Rows)
  BY TypeParts DEF Base, PassAppended, PassAccepted, DiskTyped
<1>2. /\ Len(plan) = n + m /\ n \in Nat /\ m \in Nat /\ DOMAIN steps = 1..n
      /\ \A i \in 1..n : plan[i] = steps[i]
      /\ \A i \in 1..m : plan[n + i] = PassSteps[i]
  BY <1>1, Appended, StepsShape, PassShape
<1>3. ASSUME NEW i \in 1..m PROVE T(n + i)
  <2>1. /\ PassSteps[i].old = InOrder(PassMoves)[i].old
        /\ PassSteps[i].new = InOrder(PassMoves)[i].new
        /\ InOrder(PassMoves)[i] \in PassMoves
    BY <1>1, PassShape
  <2>2. PICK e \in Movers : InOrder(PassMoves)[i] = MoveOf(rows, current[e])
    BY <2>1 DEF PassMoves
  <2>3. current[e] \in Paths /\ Changed(rows, current[e]) # {}
    BY <1>1, MoverMoves DEF Movers
  <2>4. PICK d \in 1..Len(current[e]) :
          /\ RewrittenName(rows, current[e], d) # current[e][d]
          /\ Last(MoveOf(rows, current[e]).old) = current[e][d]
          /\ Last(MoveOf(rows, current[e]).new) = RewrittenName(rows, current[e], d)
    BY <1>1, <2>3, MoveOfNames
  <2>5. \E k \in DOMAIN rows : /\ current[e][d] = rows[k].from
                               /\ RewrittenName(rows, current[e], d) = rows[k].to
    BY <1>1, <2>3, <2>4, OneRowRenames
  <2>6. plan[n + i] = PassSteps[i]
    BY <1>2
  <2> HIDE DEF plan
  <2> QED BY <2>1, <2>2, <2>4, <2>5, <2>6
<1>4. ASSUME NEW i \in 1..n PROVE T(i)
  <2>1. plan[i] = steps[i]
    BY <1>2
  <2> HIDE DEF plan
  <2> QED BY <2>1 DEF NamedSteps
<1>5. ASSUME NEW i \in 1..(n + m) PROVE T(i)
  <2>1. CASE i \in 1..n
    BY <1>4, <2>1
  <2>2. CASE i \notin 1..n
    <3>1. PICK j \in 1..m : i = n + j
      <4>1. i - n \in 1..m /\ i = n + (i - n)
        BY <1>2, <2>2
      <4> QED BY <4>1
    <3>2. T(n + j)
      BY <1>3
    <3> HIDE DEF T
    <3> QED BY <3>1, <3>2
  <2> QED BY <2>1, <2>2
<1> HIDE DEF plan, n, m
<1> QED BY <1>2, <1>5 DEF NamedSteps, plan, n, m

LEMMA NamedStep == ASSUME Base, Named, [Next]_vars PROVE Named'
<1>1. CASE PassAppended
  <2>1. /\ pc = "compile" /\ pc' = "compile" /\ rows' = rows /\ steps' = steps \o PassSteps
        /\ Independent /\ NamedSteps(steps)
    BY <1>1 DEF PassAppended, Named
  <2>2. NamedSteps(steps \o PassSteps)
    BY <1>1, <2>1, PassNamed
  <2>3. Independent' /\ NamedSteps(steps)'
    BY <2>1, <2>2 DEF Independent, Apart, NamedSteps
  <2> QED BY <2>1, <2>3 DEF Named, NamedSteps
<1>2. CASE PlanBound
  <2>1. /\ pc = "bind" /\ pc' = "revalidate" /\ rows' = rows /\ Independent /\ NamedSteps(steps)
    BY <1>2 DEF PlanBound, Named
  <2>2. /\ Len(steps') = Len(steps) /\ DOMAIN steps = 1..Len(steps)
        /\ \A i \in DOMAIN steps : steps'[i].old = steps[i].old /\ steps'[i].new = steps[i].new
    BY <1>2, TypeParts, BoundShape, StepsShape DEF Base
  <2>3. Independent' /\ NamedSteps(steps)'
    BY <2>1, <2>2 DEF Independent, Apart, NamedSteps
  <2> QED BY <2>1, <2>3 DEF Named
<1>3. CASE UNCHANGED <<rows, steps>>
  <2>1. /\ pc' = "validate" => pc = "validate"
        /\ pc' \notin {"validate", "refused"} =>
              pc \notin {"validate", "refused"} \/ Independent
    <3>1. CASE UNCHANGED vars \/ OtherProcess
      BY <3>1 DEF vars, OtherProcess, Create, Delete
    <3>2. CASE Press
      BY <3>2 DEF Press, ValidateRows, CompilePass, CompileDone, BindPlan, Revalidate, SkipStep,
         CheckStep, MoveStep, LookStep, ReplaceStep, RenamesDone, Retarget, Done, Goto, Refuse,
         Raise, Advance
    <3> QED BY <3>1, <3>2 DEF Next
  <2> QED BY <1>3, <2>1 DEF Named, NamedSteps, Independent, Apart
<1> QED BY <1>1, <1>2, <1>3, StepCases DEF Still, Moved, Retargeted, Disturbed, planVars

-----------------------------------------------------------------------------
(* The steps that the pairs stand for. *)

Alike == ExecutedIdsFor(steps, Pairs(steps, executed))

LEMMA AlikeSteps ==
    ASSUME PlanTyped, executed \subseteq DOMAIN steps
    PROVE  /\ executed \subseteq Alike /\ Alike \subseteq DOMAIN steps
           /\ Executed(steps, Alike) = Alike
           /\ \A j \in Alike : \E i \in executed : SameMove(steps, i, j)
<1>1. /\ executed \subseteq Alike /\ Alike \subseteq DOMAIN steps
      /\ \A j \in Alike : \E i \in executed : SameMove(steps, i, j)
  BY DEF Alike, ExecutedIdsFor, Pairs, SameMove
<1> QED BY <1>1, ExecutedIds

LEMMA PlannedWithFiles == ASSUME Running PROVE PlannedWith(steps, tree.files)
<1>1. DOMAIN steps = 1..Len(steps)
  BY TypeParts, StepsShape DEF Running, Base
<1> QED BY <1>1 DEF Running, PlanFits, PlannedFor, PlannedWith

(***************************************************************************)
(* Each executed step carried the file it was planned for, wherever other  *)
(* files have gone.                                                        *)
(***************************************************************************)
LEMMA ExecutedCarries ==
    ASSUME Running, Made, NEW k \in executed
    PROVE  Carries(steps, executed, tree.files, k)
<1>1. /\ MoveList(steps) /\ k \in 1..Len(steps)
      /\ \A e \in tree.files : e \in Paths
  BY TypeParts, StepsShape, ExecutedSteps, TreeShape DEF Running, Base, DiskTyped, IsInventory
<1>2. PICK b \in 0..(k - 1), e \in tree.files :
        /\ Beside(steps, b, k) /\ WaitsFor(steps, b, k, e)
        /\ Under(Along(steps, DOMAIN steps, e)[b], steps[k].old)
  BY <1>1, PlannedWithFiles DEF PlannedWith
<1>3. steps[k].preds \subseteq executed
  BY DEF Made
<1> QED BY <1>1, <1>2, <1>3, PlannedMet DEF Carries

LEMMA PairsSuffice ==
    ASSUME Running, Made, Named, pc = "done", mishaps = 0, Unchained,
           NEW e \in tree.files \cap Present
    PROVE  where[e] = Translate(steps, Alike, e)
<1>1. /\ PlanTyped /\ MoveList(steps) /\ DOMAIN steps = 1..Len(steps) /\ Len(steps) \in Nat
      /\ executed \subseteq DOMAIN steps /\ tree.files \subseteq Paths
      /\ next = Len(steps) + 1
  BY TypeParts, StepsShape, ExecutedSteps, TreeShape DEF Running, Base, DiskTyped, IsInventory, Made
<1>2. \A k \in 1..Len(steps) : Decided(steps, executed, tree.files, k)
  BY <1>1 DEF Made
<1>3. NoChain(steps)
  <2>1. \A i, j \in 1..Len(steps) : Last(steps[i].old) # Last(steps[j].new)
    BY DEF Named, NamedSteps, Unchained
  <2> QED BY <2>1 DEF NoChain
<1>4. Orderly(steps, executed, tree.files)
  BY <1>1, <1>2, <1>3, ExecutedCarries DEF Orderly, Decided
<1>5. ASSUME NEW k \in 1..Len(steps), k \in Alike \ executed
      PROVE  ~Under(Along(steps, executed, e)[k - 1], steps[k].old)
  <2>1. PICK i \in executed : SameMove(steps, i, k)
    BY <1>1, <1>5, AlikeSteps
  <2> QED BY <1>1, <1>2, <1>4, <1>5, <2>1, PlannedWithFiles, SkippedCarriesNone
<1>6. Along(steps, Alike, e)[Len(steps)] = Along(steps, executed, e)[Len(steps)]
  <2>1. /\ executed \subseteq Alike /\ e \in Paths /\ Len(steps) \in 0..Len(steps)
        /\ \A k \in 1..Len(steps) : k \in Alike \ executed =>
              ~Under(Along(steps, executed, e)[k - 1], steps[k].old)
    BY <1>1, <1>5, AlikeSteps
  <2>2. \A k \in 0..Len(steps) : Along(steps, Alike, e)[k] = Along(steps, executed, e)[k]
    BY <1>1, <2>1, IdleMoves
  <2> QED BY <2>1, <2>2
<1>7. where[e] = Along(steps, executed, e)[Len(steps)]
  BY TranslationsMade DEF Running
<1>8. Executed(steps, Alike) = Alike
  BY <1>1, AlikeSteps
<1> QED BY <1>6, <1>7, <1>8 DEF Translate

-----------------------------------------------------------------------------
(* Names that the tree has not. *)

(***************************************************************************)
(* Every step makes a name that no file had, and that it makes of one name *)
(* only.                                                                   *)
(***************************************************************************)
Fresh(seq, F) ==
    /\ F \subseteq Paths
    /\ \A k \in 1..Len(seq) : Last(seq[k].new) \notin NamesIn(F)
    /\ \A k, l \in 1..Len(seq) :
          Last(seq[k].new) = Last(seq[l].new) => Last(seq[k].old) = Last(seq[l].old)

(***************************************************************************)
(* Step t renames component i of the file.                                 *)
(***************************************************************************)
Takes(seq, on, e, t) == t \in on /\ Under(Along(seq, on, e)[t - 1], seq[t].old)
Renames(seq, on, e, i, t) == Takes(seq, on, e, t) /\ Len(seq[t].old) = i

LEMMA NameStep ==
    ASSUME NEW seq, MoveList(seq), NEW on, NEW e \in Paths, NEW t \in 1..Len(seq)
    PROVE  /\ Along(seq, on, e)[t - 1] \in Paths /\ Along(seq, on, e)[t] \in Paths
           /\ Len(Along(seq, on, e)[t - 1]) = Len(e) /\ Len(Along(seq, on, e)[t]) = Len(e)
           /\ \A i \in 1..Len(e) :
                IF Renames(seq, on, e, i, t)
                THEN /\ Along(seq, on, e)[t - 1][i] = Last(seq[t].old)
                     /\ Along(seq, on, e)[t][i] = Last(seq[t].new)
                ELSE Along(seq, on, e)[t][i] = Along(seq, on, e)[t - 1][i]
           /\ Takes(seq, on, e, t) => /\ Len(seq[t].old) \in 1..Len(e)
                                      /\ Under(Along(seq, on, e)[t], seq[t].new)
           /\ ~Takes(seq, on, e, t) => Along(seq, on, e)[t] = Along(seq, on, e)[t - 1]
           /\ Takes(seq, on, e, t) =>
                 /\ Along(seq, on, e)[t]
                       = Carry(Along(seq, on, e)[t - 1], seq[t].old, seq[t].new)
                 /\ Along(seq, on, e)[t - 1]
                       = Carry(Along(seq, on, e)[t], seq[t].new, seq[t].old)
<1> DEFINE n == Len(seq)
           f == Along(seq, on, e)
           old == seq[t].old
           new == seq[t].new
<1>1. n \in Nat /\ t - 1 \in 0..n /\ t \in 0..n /\ IsMove(old, new)
  BY DEF MoveList
<1>2. /\ f \in [0..n -> Paths] /\ f[t] = AlongStep(seq, on, t, f[t - 1])
  BY AlongSteps
<1>3. \A k \in 0..n : Len(f[k]) = Len(e)
  <2>1. StaysUnder(seq, on, e, e)
    BY UnderSelf, AlongMonotone
  <2> QED BY <2>1 DEF StaysUnder
<1> HIDE DEF n
<1>4. f[t - 1] \in Paths /\ f[t] \in Paths /\ Len(f[t - 1]) = Len(e) /\ Len(f[t]) = Len(e)
  BY <1>1, <1>2, <1>3
<1>5. /\ Len(old) \in Nat /\ Len(old) >= 1 /\ Len(new) = Len(old) /\ Len(e) \in Nat
      /\ Last(old) = old[Len(old)] /\ Last(new) = new[Len(old)]
      /\ \A i \in 1..(Len(old) - 1) : old[i] = new[i]
  BY <1>1, PathShape DEF IsMove, Last
<1> HIDE DEF f, old, new
<1>6. CASE Takes(seq, on, e, t)
  <2>1. f[t] = Carry(f[t - 1], old, new) /\ Under(f[t - 1], old)
    BY <1>2, <1>6 DEF Takes, AlongStep, f, old, new
  <2>2. /\ Under(f[t], new)
        /\ \A i \in 1..Len(e) : f[t][i] = IF i <= Len(old) THEN new[i] ELSE f[t - 1][i]
    BY <1>1, <1>4, <2>1, CarryShape
  <2>3. Len(old) <= Len(e) /\ \A i \in 1..Len(old) : f[t - 1][i] = old[i]
    BY <1>4, <2>1 DEF Under
  <2>4. f[t - 1] = Carry(f[t], new, old)
    BY <1>1, <1>4, <2>1, CarryBack
  <2>5. ASSUME NEW i \in 1..Len(e)
        PROVE  IF Len(old) = i THEN f[t - 1][i] = Last(old) /\ f[t][i] = Last(new)
               ELSE f[t][i] = f[t - 1][i]
    <3>1. CASE i = Len(old)
      BY <1>5, <2>2, <2>3, <3>1
    <3>2. CASE i < Len(old)
      <4>1. i \in 1..(Len(old) - 1) /\ i \in 1..Len(old)
        BY <1>5, <3>2
      <4> QED BY <1>5, <2>2, <2>3, <3>2, <4>1
    <3>3. CASE i > Len(old)
      BY <1>5, <2>2, <3>3
    <3> QED BY <1>5, <3>1, <3>2, <3>3
  <2>6. \A i \in 1..Len(e) : Renames(seq, on, e, i, t) <=> Len(old) = i
    BY <1>6 DEF Renames, old
  <2>7. Len(old) \in 1..Len(e)
    BY <1>4, <1>5, <2>3
  <2>8. \A i \in 1..Len(e) : IF Renames(seq, on, e, i, t)
                             THEN f[t - 1][i] = Last(old) /\ f[t][i] = Last(new)
                             ELSE f[t][i] = f[t - 1][i]
    BY <2>5, <2>6
  <2> QED BY <1>4, <1>6, <2>1, <2>2, <2>4, <2>7, <2>8 DEF f, old, new
<1>7. CASE ~Takes(seq, on, e, t)
  <2>1. f[t] = f[t - 1]
    BY <1>1, <1>2, <1>4, <1>7, CarryShape DEF Takes, AlongStep, f, old, new
  <2> QED BY <1>4, <1>7, <2>1 DEF Renames, f
<1> QED BY <1>6, <1>7

(***************************************************************************)
(* Component i of a file is a name of the tree until a step renames it.    *)
(***************************************************************************)
NamesByStep(seq, on, F, e, i) ==
    /\ Along(seq, on, e)[0] = e
    /\ e[i] \in NamesIn(F)
    /\ \A t \in 1..Len(seq) : Renames(seq, on, e, i, t) =>
          /\ Along(seq, on, e)[t - 1][i] = Last(seq[t].old)
          /\ Along(seq, on, e)[t][i] = Last(seq[t].new)
          /\ Along(seq, on, e)[t][i] \notin NamesIn(F)
    /\ \A t \in 1..Len(seq) : ~Renames(seq, on, e, i, t) =>
          Along(seq, on, e)[t][i] = Along(seq, on, e)[t - 1][i]

LEMMA FreshStep ==
    ASSUME NEW seq, MoveList(seq), NEW on, NEW F, Fresh(seq, F), NEW e \in F, NEW i \in 1..Len(e)
    PROVE  e \in Paths /\ NamesByStep(seq, on, F, e, i)
<1>1. e \in Paths
  BY DEF Fresh
<1>2. e[i] \in NamesIn(F)
  <2>1. DOMAIN e = 1..Len(e)
    BY <1>1, PathShape
  <2> QED BY <2>1 DEF NamesIn
<1> QED BY <1>1, <1>2, NameStep, AlongSteps DEF Fresh, NamesByStep

(***************************************************************************)
(* One name in one place, at whatever times, was one name in the tree.     *)
(***************************************************************************)
LEMMA SameOrigin ==
    ASSUME NEW seq, MoveList(seq), NEW on, NEW F, Fresh(seq, F), NEW e \in F, NEW f \in F,
           NEW i \in 1..Len(e), i \in 1..Len(f)
    PROVE  \A s, t \in 0..Len(seq) : Along(seq, on, e)[s][i] = Along(seq, on, f)[t][i] => e[i] = f[i]
<1> DEFINE n == Len(seq)
           x == Along(seq, on, e)
           y == Along(seq, on, f)
           P(s, t) == x[s][i] = y[t][i] => e[i] = f[i]
           S == {s \in 0..n : \A t \in 0..n : P(s, t)}
<1>1. n \in Nat
  BY DEF MoveList
<1> DEFINE A(t) == Renames(seq, on, e, i, t)
           B(t) == Renames(seq, on, f, i, t)
<1>2. /\ x[0] = e /\ y[0] = f /\ e[i] \in NamesIn(F) /\ f[i] \in NamesIn(F)
      /\ \A t \in 1..n : A(t) => /\ x[t - 1][i] = Last(seq[t].old) /\ x[t][i] = Last(seq[t].new)
                                  /\ x[t][i] \notin NamesIn(F)
      /\ \A t \in 1..n : ~A(t) => x[t][i] = x[t - 1][i]
      /\ \A t \in 1..n : B(t) => /\ y[t - 1][i] = Last(seq[t].old) /\ y[t][i] = Last(seq[t].new)
                                  /\ y[t][i] \notin NamesIn(F)
      /\ \A t \in 1..n : ~B(t) => y[t][i] = y[t - 1][i]
  <2>1. NamesByStep(seq, on, F, e, i)
    BY FreshStep
  <2>2. NamesByStep(seq, on, F, f, i)
    BY FreshStep
  <2> QED BY <2>1, <2>2 DEF NamesByStep
<1>3. \A k, l \in 1..n : Last(seq[k].new) = Last(seq[l].new) => Last(seq[k].old) = Last(seq[l].old)
  BY DEF Fresh
<1> HIDE DEF n, x, y, A, B
<1>4. 0 \in S
  <2> DEFINE T == {t \in 0..n : P(0, t)}
  <2>1. 0 \in T
    BY <1>1, <1>2
  <2>2. ASSUME NEW k \in 0..(n - 1), k \in T PROVE k + 1 \in T
    <3>1. PICK t \in 1..n : t = k + 1 /\ t - 1 = k
      BY <1>1
    <3>2. P(0, t - 1)
      BY <2>2, <3>1
    <3>3. P(0, t)
      BY <1>2, <3>2
    <3> HIDE DEF P
    <3> QED BY <1>1, <3>1, <3>3
  <2>3. \A t \in 0..n : t \in T
    <3> HIDE DEF T
    <3> QED BY <1>1, <2>1, <2>2, Upwards
  <2> HIDE DEF P
  <2> QED BY <1>1, <2>3
<1>5. ASSUME NEW k \in 0..(n - 1), k \in S PROVE k + 1 \in S
  <2>1. PICK s \in 1..n : s = k + 1 /\ s - 1 = k
    BY <1>1
  <2>2. \A t \in 0..n : P(s - 1, t)
    <3> HIDE DEF P
    <3> QED BY <1>5, <2>1
  <2> DEFINE T == {t \in 0..n : P(s, t)}
  <2>3. 0 \in T
    <3>1. P(s - 1, 0)
      BY <1>1, <2>2
    <3>2. P(s, 0)
      BY <1>2, <3>1
    <3> HIDE DEF P
    <3> QED BY <1>1, <3>2
  <2>4. ASSUME NEW l \in 0..(n - 1), l \in T PROVE l + 1 \in T
    <3>1. PICK t \in 1..n : t = l + 1 /\ t - 1 = l
      BY <1>1
    <3>2. P(s, t - 1) /\ P(s - 1, t) /\ P(s - 1, t - 1)
      <4>1. t - 1 \in 0..n /\ t \in 0..n /\ P(s, l)
        BY <1>1, <2>4, <3>1
      <4> HIDE DEF P
      <4> QED BY <2>2, <3>1, <4>1
    <3>3. P(s, t)
      BY <1>2, <1>3, <3>2
    <3> HIDE DEF P
    <3> QED BY <1>1, <3>1, <3>3
  <2>5. \A t \in 0..n : t \in T
    <3> HIDE DEF T
    <3> QED BY <1>1, <2>3, <2>4, Upwards
  <2>6. s \in 0..n /\ \A t \in 0..n : P(s, t)
    <3> HIDE DEF P
    <3> QED BY <1>1, <2>1, <2>5
  <2> HIDE DEF P
  <2> QED BY <2>1, <2>6
<1>6. \A s \in 0..n : s \in S
  <2> HIDE DEF S
  <2> QED BY <1>1, <1>4, <1>5, Upwards
<1>7. \A s, t \in 0..n : P(s, t)
  <2> HIDE DEF P
  <2> QED BY <1>6
<1> QED BY <1>7 DEF n, x, y

(***************************************************************************)
(* A name that was given up does not come back.                            *)
(***************************************************************************)
LEMMA NoReturn ==
    ASSUME NEW seq, MoveList(seq), NEW on, NEW F, Fresh(seq, F), NEW e \in F, NEW i \in 1..Len(e)
    PROVE  \A s, t \in 0..Len(seq) : \A u \in (s + 1)..t :
              Renames(seq, on, e, i, u) => Along(seq, on, e)[s][i] # Along(seq, on, e)[t][i]
<1> DEFINE n == Len(seq)
           x == Along(seq, on, e)
           R(t) == Renames(seq, on, e, i, t)
           P(s, t) == (\E u \in (s + 1)..t : R(u)) => x[s][i] # x[t][i]
           S == {s \in 0..n : \A t \in 0..n : P(s, t)}
<1>1. n \in Nat
  BY DEF MoveList
<1>2. /\ x[0] = e /\ e[i] \in NamesIn(F)
      /\ \A t \in 1..n : R(t) => /\ x[t - 1][i] = Last(seq[t].old) /\ x[t][i] = Last(seq[t].new)
                                  /\ x[t][i] \notin NamesIn(F)
      /\ \A t \in 1..n : ~R(t) => x[t][i] = x[t - 1][i]
  <2>1. NamesByStep(seq, on, F, e, i)
    BY FreshStep
  <2> QED BY <2>1 DEF NamesByStep
<1>3. \A k, l \in 1..n : Last(seq[k].new) = Last(seq[l].new) => Last(seq[k].old) = Last(seq[l].old)
  BY DEF Fresh
<1> HIDE DEF n, x, R
<1>4. 0 \in S
  <2> DEFINE T == {t \in 0..n : P(0, t)}
  <2>1. 0 \in T
    BY <1>1
  <2>2. ASSUME NEW k \in 0..(n - 1), k \in T PROVE k + 1 \in T
    <3>1. PICK t \in 1..n : t = k + 1 /\ t - 1 = k
      BY <1>1
    <3>2. P(0, t - 1)
      BY <2>2, <3>1
    <3>3. ASSUME NEW u \in (0 + 1)..t, R(u), ~R(t) PROVE u \in (0 + 1)..(t - 1)
      BY <1>1, <3>1, <3>3
    <3>4. P(0, t)
      BY <1>2, <3>2, <3>3
    <3> HIDE DEF P
    <3> QED BY <1>1, <3>1, <3>4
  <2>3. \A t \in 0..n : t \in T
    <3> HIDE DEF T
    <3> QED BY <1>1, <2>1, <2>2, Upwards
  <2> HIDE DEF P
  <2> QED BY <1>1, <2>3
<1>5. ASSUME NEW k \in 0..(n - 1), k \in S PROVE k + 1 \in S
  <2>1. PICK s \in 1..n : s = k + 1 /\ s - 1 = k
    BY <1>1
  <2>2. \A t \in 0..n : P(s - 1, t)
    <3> HIDE DEF P
    <3> QED BY <1>5, <2>1
  <2> DEFINE T == {t \in 0..n : P(s, t)}
  <2>3. 0 \in T
    <3>1. \A u \in (s + 1)..0 : FALSE
      BY <1>1, <2>1
    <3>2. P(s, 0)
      BY <3>1
    <3> HIDE DEF P
    <3> QED BY <1>1, <3>2
  <2>4. ASSUME NEW l \in 0..(n - 1), l \in T PROVE l + 1 \in T
    <3>1. PICK t \in 1..n : t = l + 1 /\ t - 1 = l
      BY <1>1
    <3>2. P(s, t - 1) /\ P(s - 1, t) /\ P(s - 1, t - 1)
      <4>1. t - 1 \in 0..n /\ t \in 0..n /\ P(s, l)
        BY <1>1, <2>4, <3>1
      <4> HIDE DEF P
      <4> QED BY <2>2, <3>1, <4>1
    <3>3. ASSUME NEW u \in (s + 1)..t, R(u) PROVE x[s][i] # x[t][i]
      <4>1. CASE ~R(t)
        <5>1. u \in (s + 1)..(t - 1)
          BY <1>1, <2>1, <3>1, <3>3, <4>1
        <5> QED BY <1>2, <3>2, <3>3, <4>1, <5>1
      <4>2. CASE R(t) /\ ~R(s)
        <5>1. u \in ((s - 1) + 1)..t
          BY <1>1, <2>1, <3>1
        <5> QED BY <1>2, <3>2, <3>3, <4>2, <5>1
      <4>3. CASE R(t) /\ R(s)
        <5>1. s \in ((s - 1) + 1)..(t - 1)
          BY <1>1, <2>1, <3>1
        <5> QED BY <1>2, <1>3, <3>2, <4>3, <5>1
      <4> QED BY <4>1, <4>2, <4>3
    <3>4. P(s, t)
      BY <3>3
    <3> HIDE DEF P
    <3> QED BY <1>1, <3>1, <3>4
  <2>5. \A t \in 0..n : t \in T
    <3> HIDE DEF T
    <3> QED BY <1>1, <2>3, <2>4, Upwards
  <2>6. s \in 0..n /\ \A t \in 0..n : P(s, t)
    <3> HIDE DEF P
    <3> QED BY <1>1, <2>1, <2>5
  <2> HIDE DEF P
  <2> QED BY <2>1, <2>6
<1>6. \A s \in 0..n : s \in S
  <2> HIDE DEF S
  <2> QED BY <1>1, <1>4, <1>5, Upwards
<1>7. \A s, t \in 0..n : P(s, t)
  <2> HIDE DEF P
  <2> QED BY <1>6
<1> QED BY <1>7 DEF n, x, R

(***************************************************************************)
(* Files of one directory stay in one directory.                           *)
(***************************************************************************)
Shares(p, q, d) == \A i \in 1..d : p[i] = q[i]

LEMMA Together ==
    ASSUME NEW seq, MoveList(seq), NEW on, NEW e \in Paths, NEW f \in Paths,
           NEW d \in 1..Len(e), d <= Len(f), Shares(e, f, d)
    PROVE  \A t \in 0..Len(seq) : Shares(Along(seq, on, e)[t], Along(seq, on, f)[t], d)
<1> DEFINE q == SubSeq(e, 1, d)
<1>1. /\ d \in Nat /\ d # 0 /\ d \in 0..Len(e)
  BY PathShape
<1>2. /\ q \in Paths /\ Len(q) = d /\ Under(e, q) /\ \A i \in 1..d : q[i] = e[i]
  BY <1>1, PrefixTyped
<1>3. Under(f, q)
  BY <1>2 DEF Shares, Under
<1> HIDE DEF q
<1>4. StaysUnder(seq, on, e, q) /\ StaysUnder(seq, on, f, q) /\ StaysUnder(seq, on, q, q)
  BY <1>2, <1>3, UnderSelf, AlongMonotone
<1>5. ASSUME NEW t \in 0..Len(seq)
      PROVE  Shares(Along(seq, on, e)[t], Along(seq, on, f)[t], d)
  <2>1. /\ Len(Along(seq, on, q)[t]) = d
        /\ Under(Along(seq, on, e)[t], Along(seq, on, q)[t])
        /\ Under(Along(seq, on, f)[t], Along(seq, on, q)[t])
    BY <1>2, <1>4 DEF StaysUnder
  <2> QED BY <2>1 DEF Under, Shares
<1> QED BY <1>5

(***************************************************************************)
(* A file found where a step takes from, or where it puts, was among those *)
(* the step took.                                                          *)
(***************************************************************************)
LEMMA TakenWithOthers ==
    ASSUME NEW seq, MoveList(seq), NEW on, NEW F, Fresh(seq, F),
           NEW r \in on, r \in 1..Len(seq), Carries(seq, on, F, r), NEW e \in F, NEW t \in 0..Len(seq),
           Under(Along(seq, on, e)[t], seq[r].old) \/ Under(Along(seq, on, e)[t], seq[r].new)
    PROVE  Takes(seq, on, e, r)
<1> DEFINE d == Len(seq[r].old)
<1>1. PICK w \in F : Under(Along(seq, on, w)[r - 1], seq[r].old)
  BY DEF Carries
<1>2. /\ e \in Paths /\ w \in Paths /\ Len(seq) \in Nat /\ r - 1 \in 0..Len(seq) /\ r \in 0..Len(seq)
      /\ IsMove(seq[r].old, seq[r].new)
  BY DEF Fresh, MoveList
<1>3. /\ seq[r].old \in Paths /\ Len(seq[r].new) = d /\ d \in Nat /\ d >= 1
  BY <1>2, PathShape DEF IsMove
<1>4. /\ Takes(seq, on, w, r) /\ d \in 1..Len(w)
      /\ Under(Along(seq, on, w)[r], seq[r].new)
  BY <1>1, <1>2, NameStep DEF Takes
<1>5. /\ \A k \in 0..Len(seq) : Len(Along(seq, on, e)[k]) = Len(e)
      /\ Len(e) \in Nat
  BY <1>2, UnderSelf, AlongMonotone, PathShape DEF StaysUnder
<1>6. d \in 1..Len(e)
  <2>1. d <= Len(Along(seq, on, e)[t])
    BY <1>3 DEF Under
  <2> QED BY <1>3, <1>5, <2>1
<1>7. \E s \in 0..Len(seq) : Shares(Along(seq, on, e)[t], Along(seq, on, w)[s], d)
  <2>1. CASE Under(Along(seq, on, e)[t], seq[r].old)
    <3>1. Shares(Along(seq, on, e)[t], Along(seq, on, w)[r - 1], d)
      BY <1>1, <2>1 DEF Under, Shares
    <3> QED BY <1>2, <3>1
  <2>2. CASE Under(Along(seq, on, e)[t], seq[r].new)
    <3>1. Shares(Along(seq, on, e)[t], Along(seq, on, w)[r], d)
      BY <1>3, <1>4, <2>2 DEF Under, Shares
    <3> QED BY <1>2, <3>1
  <2> QED BY <2>1, <2>2
<1> HIDE DEF d
<1>8. Shares(e, w, d)
  <2>1. PICK s \in 0..Len(seq) : Shares(Along(seq, on, e)[t], Along(seq, on, w)[s], d)
    BY <1>7
  <2>2. ASSUME NEW i \in 1..d PROVE e[i] = w[i]
    <3>1. i \in 1..Len(e) /\ i \in 1..Len(w)
      BY <1>3, <1>4, <1>5, <1>6, PathShape
    <3>2. Along(seq, on, e)[t][i] = Along(seq, on, w)[s][i]
      BY <2>1 DEF Shares
    <3> QED BY <3>1, <3>2, SameOrigin
  <2> QED BY <2>2 DEF Shares
<1>9. Shares(Along(seq, on, e)[r - 1], Along(seq, on, w)[r - 1], d)
  <2>1. d <= Len(w)
    BY <1>4
  <2> QED BY <1>2, <1>6, <1>8, <2>1, Together
<1>10. Under(Along(seq, on, e)[r - 1], seq[r].old)
  <2>1. Len(Along(seq, on, e)[r - 1]) = Len(e)
    BY <1>2, <1>5
  <2> QED BY <1>1, <1>6, <1>9, <2>1 DEF Under, Shares, d
<1> QED BY <1>10 DEF Takes

(***************************************************************************)
(* Of the steps that lead to where a file is, the last that took it leads  *)
(* deepest; of those that lead on from there, the next that takes it does. *)
(***************************************************************************)
LEMMA NeverThere ==
    ASSUME NEW seq, MoveList(seq), NEW on, NEW F, Fresh(seq, F), NEW e \in F,
           NEW s \in 0..Len(seq), NEW t \in 0..Len(seq), NEW c \in (s + 1)..t, Takes(seq, on, e, c),
           NEW d \in Nat, Len(seq[c].old) <= d
    PROVE  ~Shares(Along(seq, on, e)[s], Along(seq, on, e)[t], d)
<1> DEFINE i == Len(seq[c].old)
<1>1. c \in 1..Len(seq) /\ e \in Paths /\ s \in Nat
  BY DEF MoveList, Fresh
<1>2. i \in 1..Len(e) /\ Renames(seq, on, e, i, c)
  BY <1>1, NameStep DEF Renames
<1> HIDE DEF i
<1>3. Along(seq, on, e)[s][i] # Along(seq, on, e)[t][i]
  BY <1>2, NoReturn
<1>4. i \in 1..d
  <2>1. i \in Nat /\ i >= 1 /\ i <= d
    BY <1>1, <1>2, PathShape DEF i
  <2> QED BY <2>1
<1> QED BY <1>3, <1>4 DEF Shares

LEMMA LeadsHere ==
    ASSUME NEW seq, MoveList(seq), NEW on, NEW F, Fresh(seq, F), NEW e \in F,
           NEW r \in on, r \in 1..Len(seq), Carries(seq, on, F, r), NEW t \in 0..Len(seq),
           Under(Along(seq, on, e)[t], seq[r].new)
    PROVE  /\ Takes(seq, on, e, r) /\ r <= t
           /\ \A c \in (r + 1)..t : Takes(seq, on, e, c) => Len(seq[c].old) > Len(seq[r].old)
<1>1. Takes(seq, on, e, r)
  BY TakenWithOthers
<1>2. /\ Len(seq) \in Nat /\ r \in 0..Len(seq) /\ e \in Paths /\ t \in Nat /\ r \in Nat
      /\ Len(seq[r].old) \in Nat /\ Len(seq[r].new) = Len(seq[r].old)
  BY PathShape DEF MoveList, Fresh, IsMove
<1>3. Under(Along(seq, on, e)[r], seq[r].new)
  BY <1>1, <1>2, NameStep
<1>4. Shares(Along(seq, on, e)[t], Along(seq, on, e)[r], Len(seq[r].old))
  BY <1>2, <1>3 DEF Under, Shares
<1>5. Shares(Along(seq, on, e)[r], Along(seq, on, e)[t], Len(seq[r].old))
  BY <1>4 DEF Shares
<1>6. r <= t
  <2>1. SUFFICES ASSUME t < r PROVE FALSE
    BY <1>2
  <2>2. PICK c \in (t + 1)..r : c = r
    BY <1>2, <2>1
  <2>3. Takes(seq, on, e, c) /\ Len(seq[c].old) <= Len(seq[r].old) /\ r \in 0..Len(seq) /\ Len(seq[r].old) \in Nat
    BY <1>1, <1>2, <2>2
  <2>4. ~Shares(Along(seq, on, e)[t], Along(seq, on, e)[r], Len(seq[r].old))
    BY <2>3, NeverThere
  <2> QED BY <1>4, <2>4
<1>7. ASSUME NEW c \in (r + 1)..t, Takes(seq, on, e, c) PROVE Len(seq[c].old) > Len(seq[r].old)
  <2>1. ~(Len(seq[c].old) <= Len(seq[r].old))
    BY <1>2, <1>5, <1>7, NeverThere
  <2>2. Len(seq[c].old) \in Nat
    <3>1. c \in 1..Len(seq)
      BY <1>2
    <3> QED BY <3>1, PathShape DEF MoveList, IsMove
  <2> QED BY <1>2, <2>1, <2>2
<1> QED BY <1>1, <1>6, <1>7

LEMMA LeadsOn ==
    ASSUME NEW seq, MoveList(seq), NEW on, NEW F, Fresh(seq, F), NEW e \in F,
           NEW r \in on, r \in 1..Len(seq), Carries(seq, on, F, r), NEW t \in 0..Len(seq),
           Under(Along(seq, on, e)[t], seq[r].old)
    PROVE  /\ Takes(seq, on, e, r) /\ t < r
           /\ \A c \in (t + 1)..(r - 1) : Takes(seq, on, e, c) => Len(seq[c].old) > Len(seq[r].old)
<1>1. Takes(seq, on, e, r)
  BY TakenWithOthers
<1>2. /\ Len(seq) \in Nat /\ r - 1 \in 0..Len(seq) /\ e \in Paths /\ t \in Nat /\ r \in Nat
      /\ Len(seq[r].old) \in Nat
  BY PathShape DEF MoveList, Fresh, IsMove
<1>3. Under(Along(seq, on, e)[r - 1], seq[r].old)
  BY <1>1 DEF Takes
<1>4. Shares(Along(seq, on, e)[t], Along(seq, on, e)[r - 1], Len(seq[r].old))
  BY <1>2, <1>3 DEF Under, Shares
<1>5. Shares(Along(seq, on, e)[r - 1], Along(seq, on, e)[t], Len(seq[r].old))
  BY <1>4 DEF Shares
<1>6. t < r
  <2>1. SUFFICES ASSUME r <= t PROVE FALSE
    BY <1>2
  <2>2. PICK c \in ((r - 1) + 1)..t : c = r
    BY <1>2, <2>1
  <2>3. Takes(seq, on, e, c) /\ Len(seq[c].old) <= Len(seq[r].old) /\ r - 1 \in 0..Len(seq)
        /\ Len(seq[r].old) \in Nat
    BY <1>1, <1>2, <2>2
  <2>4. ~Shares(Along(seq, on, e)[r - 1], Along(seq, on, e)[t], Len(seq[r].old))
    BY <2>3, NeverThere
  <2> QED BY <1>5, <2>4
<1>7. ASSUME NEW c \in (t + 1)..(r - 1), Takes(seq, on, e, c) PROVE Len(seq[c].old) > Len(seq[r].old)
  <2>1. ~(Len(seq[c].old) <= Len(seq[r].old))
    BY <1>2, <1>4, <1>7, NeverThere
  <2>2. Len(seq[c].old) \in Nat
    <3>1. c \in 1..Len(seq)
      BY <1>2
    <3> QED BY <3>1, PathShape DEF MoveList, IsMove
  <2> QED BY <1>2, <2>1, <2>2
<1> QED BY <1>1, <1>6, <1>7

(***************************************************************************)
(* No two steps are one move.                                              *)
(***************************************************************************)
LEMMA MovesDistinct ==
    ASSUME NEW seq, MoveList(seq), NEW on, NEW F, Fresh(seq, F),
           NEW r \in on, r \in 1..Len(seq), NEW c \in on, c \in 1..Len(seq),
           Carries(seq, on, F, r), Carries(seq, on, F, c), SameMove(seq, r, c)
    PROVE  r = c
<1>1. ASSUME NEW a \in on, a \in 1..Len(seq), NEW b \in on, b \in 1..Len(seq), a < b,
             Carries(seq, on, F, a), Carries(seq, on, F, b), SameMove(seq, a, b)
      PROVE  FALSE
  <2>1. PICK w \in F : Under(Along(seq, on, w)[b - 1], seq[b].old)
    BY <1>1 DEF Carries
  <2>2. Len(seq) \in Nat /\ b - 1 \in 0..Len(seq) /\ a <= b - 1
    BY <1>1 DEF MoveList
  <2>3. Under(Along(seq, on, w)[b - 1], seq[a].old)
    BY <1>1, <2>1 DEF SameMove
  <2>4. b - 1 < a
    BY <1>1, <2>2, <2>3, LeadsOn
  <2> QED BY <1>1, <2>2, <2>4
<1>2. SameMove(seq, c, r)
  BY DEF SameMove
<1> QED BY <1>1, <1>2

(***************************************************************************)
(* Walking along a list of places, one move of R at a time, and resting at *)
(* its end, takes no more steps than there are pairs.                      *)
(***************************************************************************)
Walking(n, R, P, pair, x, f) ==
    /\ n \in Nat /\ R \in SUBSET (1..n) /\ IsFiniteSet(P) /\ pair \in [R -> P]
    /\ \A a, b \in R : pair[a] = pair[b] => a = b
    /\ f[0] = x[0]
    /\ \A t \in 1..n : t \notin R => x[t] = x[t - 1]
    /\ \A t \in R, k \in 1..Cardinality(P) : f[k - 1] = x[t - 1] => f[k] = x[t]
    /\ \A k \in 1..Cardinality(P) : f[k - 1] = x[n] => f[k] = x[n]

LEMMA Walk ==
    ASSUME NEW n, NEW R, NEW P, NEW pair, NEW x, NEW f, Walking(n, R, P, pair, x, f)
    PROVE  f[Cardinality(P)] = x[n]
<1> USE DEF Walking
<1> DEFINE N == Cardinality(P)
           Q(t) == {pair[r] : r \in {u \in R : u <= t}}
           S == {t \in 0..n : f[Cardinality(Q(t))] = x[t]}
<1>1. N \in Nat
  BY FS_CardinalityType
<1>2. ASSUME NEW t \in 0..n PROVE IsFiniteSet(Q(t)) /\ Cardinality(Q(t)) \in 0..N
  <2>1. Q(t) \in SUBSET P
    OBVIOUS
  <2>2. IsFiniteSet(Q(t)) /\ Cardinality(Q(t)) <= N
    <3> HIDE DEF Q
    <3> QED BY <2>1, FS_Subset
  <2>3. Cardinality(Q(t)) \in Nat
    <3> HIDE DEF Q
    <3> QED BY <2>2, FS_CardinalityType
  <2> HIDE DEF Q, N
  <2> QED BY <1>1, <2>2, <2>3
<1>3. 0 \in S
  <2>1. Q(0) = {}
    <3>1. \A u \in R : ~(u <= 0)
      OBVIOUS
    <3> QED BY <3>1
  <2> HIDE DEF Q
  <2> QED BY <2>1, FS_EmptySet
<1>4. ASSUME NEW s \in 0..(n - 1), s \in S PROVE s + 1 \in S
  <2>1. PICK t \in 1..n : t = s + 1 /\ t - 1 = s /\ t \in 0..n /\ s \in 0..n
    OBVIOUS
  <2>2. CASE t \notin R
    <3>1. Q(t) = Q(s)
      <4>1. \A u \in R : u <= t <=> u <= s
        BY <2>1, <2>2
      <4> QED BY <4>1
    <3>2. x[t] = x[s]
      BY <2>1, <2>2
    <3> HIDE DEF Q
    <3> QED BY <1>4, <2>1, <3>1, <3>2
  <2>3. CASE t \in R
    <3>1. Q(t) = Q(s) \cup {pair[t]}
      <4>1. \A u \in R : u <= t <=> u <= s \/ u = t
        BY <2>1, <2>3
      <4> QED BY <2>3, <4>1
    <3>2. pair[t] \notin Q(s)
      <4>1. \A u \in R : u <= s => pair[u] # pair[t]
        BY <2>1, <2>3
      <4> QED BY <4>1
    <3> DEFINE k == Cardinality(Q(s))
    <3>3. Cardinality(Q(t)) = k + 1
      <4> HIDE DEF Q
      <4> QED BY <1>2, <2>1, <3>1, <3>2, FS_AddElement
    <3>4. k + 1 \in 1..N /\ (k + 1) - 1 = k /\ k \in Nat
      <4> HIDE DEF Q, N
      <4> QED BY <1>1, <1>2, <2>1, <3>3
    <3>5. f[k] = x[t - 1]
      BY <1>4, <2>1
    <3> HIDE DEF k, Q
    <3>6. f[k + 1] = x[t]
      BY <2>3, <3>4, <3>5
    <3> QED BY <2>1, <3>3, <3>6
  <2> QED BY <2>2, <2>3
<1>5. \A t \in 0..n : t \in S
  <2> HIDE DEF S
  <2> QED BY <1>3, <1>4, Upwards
<1> DEFINE m == Cardinality(Q(n))
<1>6. f[m] = x[n] /\ m \in 0..N
  <2>1. n \in 0..n
    OBVIOUS
  <2> QED BY <1>2, <1>5, <2>1
<1> HIDE DEF m, S, Q, N
<1> DEFINE T == {k \in m..N : f[k] = x[n]}
<1>7. m \in T /\ m \in Nat /\ m <= N
  BY <1>1, <1>6
<1>8. ASSUME NEW k \in m..(N - 1), k \in T PROVE k + 1 \in T
  <2>1. k + 1 \in 1..N /\ (k + 1) - 1 = k /\ k + 1 \in m..N
    BY <1>1, <1>7
  <2> QED BY <1>8, <2>1 DEF N
<1>9. \A k \in m..N : k \in T
  <2> HIDE DEF T
  <2> QED BY <1>1, <1>7, <1>8, Upwards
<1> QED BY <1>1, <1>7, <1>9 DEF N

(***************************************************************************)
(* The way back, one pair at a time.                                       *)
(***************************************************************************)
DeepestLead(pairs, p) ==
    CHOOSE m \in Leading(pairs, p) : \A n \in Leading(pairs, p) : Len(n.new) <= Len(m.new)

LEMMA OneStepBackShape ==
    ASSUME NEW pairs, PairSet(pairs), NEW p \in Paths
    PROVE  /\ Leading(pairs, p) = {} => OneStepBack(pairs, p) = p
           /\ Leading(pairs, p) # {} =>
                LET m == DeepestLead(pairs, p)
                IN  /\ m \in pairs /\ Under(p, m.new)
                    /\ \A n \in Leading(pairs, p) : Len(n.new) <= Len(m.new)
                    /\ OneStepBack(pairs, p) = Carry(p, m.new, m.old)
           /\ OneStepBack(pairs, p) \in Paths
<1>1. CASE Leading(pairs, p) = {}
  BY <1>1 DEF OneStepBack
<1>2. CASE Leading(pairs, p) # {}
  <2> DEFINE T == Leading(pairs, p)
             short == {MaxDepth - Len(n.new) : n \in T}
             m == DeepestLead(pairs, p)
  <2>1. \A n \in T : Len(n.new) \in 1..MaxDepth
    BY PairMoves, PathShape DEF Leading, IsMove
  <2>2. short \in SUBSET Nat /\ short # {}
    BY <1>2, <2>1, NamesAssumption
  <2>3. PICK s \in short : \A t \in short : s <= t
    <3> HIDE DEF short
    <3> QED BY <2>2, LeastMember
  <2>4. PICK d \in T : s = MaxDepth - Len(d.new)
    OBVIOUS
  <2>5. \A n \in T : Len(n.new) <= Len(d.new)
    <3>1. \A n \in T : MaxDepth - Len(d.new) <= MaxDepth - Len(n.new)
      BY <2>3, <2>4
    <3> QED BY <2>1, <2>4, <3>1, NamesAssumption
  <2>6. m \in T /\ \A n \in T : Len(n.new) <= Len(m.new)
    BY <2>5, Zenon DEF DeepestLead
  <2>7. m \in pairs /\ Under(p, m.new)
    BY <2>6 DEF Leading
  <2>8. OneStepBack(pairs, p) = Carry(p, m.new, m.old)
    BY <1>2 DEF OneStepBack, DeepestLead
  <2>9. IsMove(m.new, m.old)
    BY <2>7, PairMoves, MoveShape
  <2> HIDE DEF m, T
  <2> QED BY <1>2, <2>6, <2>7, <2>8, <2>9, CarryShape DEF m, T
<1> QED BY <1>1, <1>2

LEMMA WayBackSteps ==
    ASSUME NEW pairs, PairSet(pairs), NEW p \in Paths
    PROVE  /\ Cardinality(pairs) \in Nat
           /\ WayBack(pairs, p)[0] = p
           /\ \A k \in 1..Cardinality(pairs) :
                WayBack(pairs, p)[k] = OneStepBack(pairs, WayBack(pairs, p)[k - 1])
<1> DEFINE n == Cardinality(pairs)
           g == [a \in (1..n) \X Paths |-> OneStepBack(pairs, a[2])]
           E(f) == f = [k \in 0..n |-> IF k = 0 THEN p ELSE OneStepBack(pairs, f[k - 1])]
           f == WayBack(pairs, p)
<1>1. n \in Nat /\ g \in [(1..n) \X Paths -> Paths]
  BY FS_CardinalityType, OneStepBackShape DEF PairSet
<1>2. PICK h \in [0..n -> Paths] : Follows(h, p, g, n)
  <2> HIDE DEF g, n
  <2> QED BY <1>1, Recursion
<1>3. E(h)
  <2>1. h[0] = p /\ \A k \in 1..n : h[k] = g[<<k, h[k - 1]>>]
    BY <1>2 DEF Follows
  <2>2. ASSUME NEW k \in 1..n PROVE h[k] = OneStepBack(pairs, h[k - 1])
    <3>1. h[k - 1] \in Paths
      BY <1>1
    <3> QED BY <2>1, <3>1
  <2> HIDE DEF g, n
  <2> QED BY <1>1, <2>1, <2>2
<1>4. f = CHOOSE x : E(x)
  BY Zenon DEF WayBack
<1>5. E(f)
  <2> HIDE DEF E, f
  <2> QED BY <1>3, <1>4
<1> HIDE DEF n, f
<1>6. f[0] = p /\ \A k \in 1..n : f[k] = OneStepBack(pairs, f[k - 1])
  BY <1>1, <1>5
<1> QED BY <1>1, <1>6 DEF n, f

(***************************************************************************)
(* The pairs of the moves made, in no order, lead each file to where the   *)
(* moves in their order took it, and back, and each way has an end.        *)
(***************************************************************************)
PairOf(m) == [old |-> m.old, new |-> m.new]

LEMMA BothWays ==
    ASSUME NEW seq, MoveList(seq), NEW on, on \subseteq 1..Len(seq), NEW F, Fresh(seq, F),
           \A k \in on : Carries(seq, on, F, k), NEW e \in F
    PROVE  LET there == Along(seq, on, e)[Len(seq)]
               pairs == Pairs(seq, on)
           IN  /\ TranslatePath(pairs, e) = there /\ Matching(pairs, there) = {}
               /\ ForwardMap(pairs, there) = e /\ Leading(pairs, e) = {}
<1> DEFINE n == Len(seq)
           x == Along(seq, on, e)
           pairs == Pairs(seq, on)
           R == {r \in on : Takes(seq, on, e, r)}
           pair == [r \in R |-> PairOf(seq[r])]
<1>1. n \in Nat /\ e \in Paths /\ \A k \in on : k \in 1..n /\ IsMove(seq[k].old, seq[k].new)
  BY DEF MoveList, Fresh
<1>2. \A m \in pairs : \E r \in on : m = PairOf(seq[r])
  BY DEF Pairs, PairOf
<1>3. \A r \in on : PairOf(seq[r]) \in pairs
  BY DEF Pairs, PairOf
<1>4. \A r \in on : PairOf(seq[r]).old = seq[r].old /\ PairOf(seq[r]).new = seq[r].new
  BY DEF PairOf
<1>5. PairSet(pairs)
  <2>1. pairs \subseteq Moves
    BY <1>1, MoveShape DEF Pairs
  <2> DEFINE h == [r \in on |-> PairOf(seq[r])]
  <2>2. h \in Surjection(on, pairs)
    BY DEF Surjection, Pairs, PairOf
  <2>3. IsFiniteSet(on)
    <3>1. IsFiniteSet(1..n)
      <4> HIDE DEF n
      <4> QED BY <1>1, FS_Interval
    <3> QED BY <3>1, FS_Subset
  <2>4. IsFiniteSet(pairs)
    <3> HIDE DEF h, pairs
    <3> QED BY <2>2, <2>3, FS_Surjection
  <2> QED BY <2>1, <2>4 DEF PairSet
<1>6. R \in SUBSET (1..n) /\ pair \in [R -> pairs]
  BY <1>1, <1>3
<1>7. \A a, b \in R : pair[a] = pair[b] => a = b
  <2>1. \A a, b \in R : pair[a] = pair[b] => SameMove(seq, a, b)
    BY <1>4 DEF SameMove
  <2> HIDE DEF pair
  <2> QED BY <1>1, <2>1, MovesDistinct
<1>8. /\ x[0] = e /\ \A t \in 0..n : x[t] \in Paths
  BY <1>1, AlongSteps
<1>9. /\ \A t \in 1..n : t \notin R => x[t] = x[t - 1]
      /\ \A t \in R : /\ x[t] = Carry(x[t - 1], seq[t].old, seq[t].new)
                      /\ x[t - 1] = Carry(x[t], seq[t].new, seq[t].old)
                      /\ Under(x[t - 1], seq[t].old) /\ Under(x[t], seq[t].new)
  <2>1. /\ \A t \in R : t \in 1..Len(seq) /\ Takes(seq, on, e, t)
        /\ \A t \in 1..Len(seq) : t \notin R => ~Takes(seq, on, e, t)
    BY DEF Takes
  <2>2. /\ \A t \in 1..Len(seq) : ~Takes(seq, on, e, t) => x[t] = x[t - 1]
        /\ \A t \in 1..Len(seq) : Takes(seq, on, e, t) =>
              /\ x[t] = Carry(x[t - 1], seq[t].old, seq[t].new)
              /\ x[t - 1] = Carry(x[t], seq[t].new, seq[t].old)
              /\ Under(x[t - 1], seq[t].old) /\ Under(x[t], seq[t].new)
    <3> HIDE DEF pairs, R, pair
    <3> QED BY <1>1, NameStep DEF Takes
  <2> HIDE DEF x, R, pair, pairs
  <2> QED BY <2>1, <2>2
<1>10. ASSUME NEW t \in 0..n, NEW r \in on, Under(x[t], seq[r].new)
       PROVE  r \in R /\ r <= t /\ \A c \in R : r < c /\ c <= t => Len(seq[c].old) > Len(seq[r].old)
  <2>1. /\ Takes(seq, on, e, r) /\ r <= t
        /\ \A c \in (r + 1)..t : Takes(seq, on, e, c) => Len(seq[c].old) > Len(seq[r].old)
    BY <1>1, <1>10, LeadsHere
  <2>2. \A c \in R : r < c /\ c <= t => c \in (r + 1)..t
    BY <1>1
  <2> QED BY <2>1, <2>2
<1>11. ASSUME NEW t \in 0..n, NEW r \in on, Under(x[t], seq[r].old)
       PROVE  r \in R /\ t < r /\ \A c \in R : t < c /\ c < r => Len(seq[c].old) > Len(seq[r].old)
  <2>1. /\ Takes(seq, on, e, r) /\ t < r
        /\ \A c \in (t + 1)..(r - 1) : Takes(seq, on, e, c) => Len(seq[c].old) > Len(seq[r].old)
    BY <1>1, <1>11, LeadsOn
  <2>2. \A c \in R : t < c /\ c < r => c \in (t + 1)..(r - 1)
    BY <1>1
  <2> QED BY <2>1, <2>2
<1>12. \A k \in on : Len(seq[k].old) \in Nat /\ Len(seq[k].new) = Len(seq[k].old)
  BY <1>1, PathShape DEF IsMove
<1> HIDE DEF n, x, pairs, R, pair
<1>13. Matching(pairs, x[n]) = {}
  <2>1. SUFFICES ASSUME NEW m \in pairs, Under(x[n], m.old) PROVE FALSE
    BY DEF Matching
  <2>2. PICK r \in on : m = PairOf(seq[r])
    BY <1>2
  <2>3. n < r /\ r \in 1..n /\ n \in 0..n
    BY <1>1, <1>4, <1>11, <2>1, <2>2
  <2> QED BY <1>1, <2>3
<1>14. Leading(pairs, x[0]) = {}
  <2>1. SUFFICES ASSUME NEW m \in pairs, Under(x[0], m.new) PROVE FALSE
    BY DEF Leading
  <2>2. PICK r \in on : m = PairOf(seq[r])
    BY <1>2
  <2>3. r <= 0 /\ r \in 1..n
    BY <1>1, <1>4, <1>10, <2>1, <2>2
  <2> QED BY <1>1, <2>3
<1>15. ASSUME NEW t \in R PROVE OneTranslation(pairs, x[t - 1]) = x[t]
  <2>1. t \in on /\ t \in 1..n /\ t - 1 \in 0..n
    BY <1>1, <1>6 DEF R
  <2>2. PairOf(seq[t]) \in Matching(pairs, x[t - 1])
    BY <1>3, <1>4, <1>9, <2>1 DEF Matching
  <2> DEFINE m == DeepestMatch(pairs, x[t - 1])
  <2>3. /\ m \in pairs /\ Under(x[t - 1], m.old) /\ Len(seq[t].old) <= Len(m.old)
        /\ OneTranslation(pairs, x[t - 1]) = Carry(x[t - 1], m.old, m.new)
    BY <1>4, <1>5, <1>8, <2>1, <2>2, OneTranslationShape
  <2> HIDE DEF m
  <2>4. PICK r \in on : m = PairOf(seq[r])
    BY <1>2, <2>3
  <2>5. r \in R /\ t - 1 < r /\ (t < r => Len(seq[t].old) > Len(seq[r].old))
    <3>1. /\ r \in R /\ t - 1 < r
          /\ \A c \in R : t - 1 < c /\ c < r => Len(seq[c].old) > Len(seq[r].old)
      BY <1>4, <1>11, <2>1, <2>3, <2>4
    <3> QED BY <2>1, <3>1
  <2>6. r = t
    BY <1>1, <1>4, <1>12, <2>1, <2>3, <2>4, <2>5
  <2> QED BY <1>4, <1>9, <2>1, <2>3, <2>4, <2>6
<1>16. ASSUME NEW t \in R PROVE OneStepBack(pairs, x[t]) = x[t - 1]
  <2>1. t \in on /\ t \in 1..n /\ t \in 0..n
    BY <1>1, <1>6 DEF R
  <2>2. PairOf(seq[t]) \in Leading(pairs, x[t])
    BY <1>3, <1>4, <1>9, <2>1 DEF Leading
  <2> DEFINE m == DeepestLead(pairs, x[t])
  <2>3. /\ m \in pairs /\ Under(x[t], m.new) /\ Len(seq[t].new) <= Len(m.new)
        /\ OneStepBack(pairs, x[t]) = Carry(x[t], m.new, m.old)
    BY <1>4, <1>5, <1>8, <2>1, <2>2, OneStepBackShape
  <2> HIDE DEF m
  <2>4. PICK r \in on : m = PairOf(seq[r])
    BY <1>2, <2>3
  <2>5. r \in R /\ r <= t /\ (r < t => Len(seq[t].old) > Len(seq[r].old))
    <3>1. /\ r \in R /\ r <= t
          /\ \A c \in R : r < c /\ c <= t => Len(seq[c].old) > Len(seq[r].old)
      BY <1>4, <1>10, <2>1, <2>3, <2>4
    <3> QED BY <2>1, <3>1
  <2>6. r = t
    BY <1>1, <1>4, <1>12, <2>1, <2>3, <2>4, <2>5
  <2> QED BY <1>4, <1>9, <2>1, <2>3, <2>4, <2>6
<1>17. IsFiniteSet(pairs) /\ n \in 0..n /\ 0 \in 0..n
  BY <1>1, <1>5 DEF PairSet
<1>18. TranslatePath(pairs, e) = x[n]
  <2> DEFINE f == Translation(pairs, e)
  <2>1. f[0] = x[0] /\ \A k \in 1..Cardinality(pairs) : f[k] = OneTranslation(pairs, f[k - 1])
    BY <1>1, <1>5, <1>8, TranslationSteps
  <2> HIDE DEF f
  <2>2. \A t \in R, k \in 1..Cardinality(pairs) : f[k - 1] = x[t - 1] => f[k] = x[t]
    BY <1>15, <2>1
  <2>3. \A k \in 1..Cardinality(pairs) : f[k - 1] = x[n] => f[k] = x[n]
    BY <1>5, <1>8, <1>13, <1>17, <2>1, OneTranslationShape
  <2>4. Walking(n, R, pairs, pair, x, f)
    BY <1>1, <1>6, <1>7, <1>9, <1>17, <2>1, <2>2, <2>3 DEF Walking
  <2>5. f[Cardinality(pairs)] = x[n]
    BY <2>4, Walk
  <2> QED BY <2>5 DEF TranslatePath, f
<1>19. ForwardMap(pairs, x[n]) = e
  <2> DEFINE f == WayBack(pairs, x[n])
             y == [t \in 0..n |-> x[n - t]]
             B == {t \in 1..n : n + 1 - t \in R}
             back == [t \in B |-> pair[n + 1 - t]]
  <2>1. f[0] = x[n] /\ \A k \in 1..Cardinality(pairs) : f[k] = OneStepBack(pairs, f[k - 1])
    BY <1>5, <1>8, <1>17, WayBackSteps
  <2> HIDE DEF f
  <2>2. y[0] = x[n] /\ y[n] = x[0]
    BY <1>1, <1>17
  <2>3. ASSUME NEW t \in 1..n
        PROVE  /\ n + 1 - t \in 1..n /\ y[t] = x[(n + 1 - t) - 1] /\ y[t - 1] = x[n + 1 - t]
    BY <1>1
  <2>4. B \in SUBSET (1..n) /\ \A t \in B : n + 1 - t \in R
    OBVIOUS
  <2>5. back \in [B -> pairs]
    BY <1>6
  <2>6. \A a, b \in B : back[a] = back[b] => a = b
    <3>1. \A a, b \in B : back[a] = back[b] => n + 1 - a = n + 1 - b
      BY <1>7
    <3> QED BY <1>1, <3>1
  <2>7. \A t \in 1..n : t \notin B => n + 1 - t \notin R
    OBVIOUS
  <2> HIDE DEF y, B, back
  <2>8. \A t \in 1..n : t \notin B => y[t] = y[t - 1]
    BY <1>9, <2>3, <2>7
  <2>9. ASSUME NEW t \in B, NEW k \in 1..Cardinality(pairs), f[k - 1] = y[t - 1] PROVE f[k] = y[t]
    <3>1. f[k] = OneStepBack(pairs, x[n + 1 - t])
      BY <2>1, <2>3, <2>4, <2>9
    <3> QED BY <1>16, <2>3, <2>4, <3>1
  <2>10. \A k \in 1..Cardinality(pairs) : f[k - 1] = y[n] => f[k] = y[n]
    BY <1>5, <1>8, <1>14, <1>17, <2>1, <2>2, OneStepBackShape
  <2>11. Walking(n, B, pairs, back, y, f)
    BY <1>1, <1>17, <2>1, <2>2, <2>4, <2>5, <2>6, <2>8, <2>9, <2>10 DEF Walking
  <2>12. f[Cardinality(pairs)] = y[n]
    BY <2>11, Walk
  <2> QED BY <1>8, <2>2, <2>12 DEF ForwardMap, f
<1> QED BY <1>8, <1>13, <1>14, <1>18, <1>19 DEF n, x, pairs

-----------------------------------------------------------------------------
(* Findings. *)

LEMMA SyntheticFresh ==
    ASSUME Running, Named, Synthetic
    PROVE  Fresh(steps, tree.files)
<1>1. tree.files \subseteq Paths
  BY TypeParts, TreeShape DEF Running, Base, DiskTyped, IsInventory
<1>2. \A k \in 1..Len(steps) : Last(steps[k].new) \notin NamesIn(tree.files)
  BY DEF Named, NamedSteps, Synthetic
<1>3. ASSUME NEW k \in 1..Len(steps), NEW l \in 1..Len(steps), Last(steps[k].new) = Last(steps[l].new)
      PROVE  Last(steps[k].old) = Last(steps[l].old)
  BY <1>3 DEF Named, NamedSteps, Synthetic
<1> QED BY <1>1, <1>2, <1>3 DEF Fresh

LEMMA PlanCarries ==
    ASSUME Running, NEW k \in DOMAIN steps
    PROVE  Carries(steps, DOMAIN steps, tree.files, k)
<1>1. /\ MoveList(steps) /\ k \in 1..Len(steps) /\ steps[k].preds \subseteq DOMAIN steps
      /\ \A e \in tree.files : e \in Paths
  <2>1. /\ MoveList(steps) /\ DOMAIN steps = 1..Len(steps) /\ Len(steps) \in Nat
        /\ steps[k].preds \subseteq 1..(k - 1) /\ \A e \in tree.files : e \in Paths
    BY TypeParts, StepsShape, TreeShape DEF Running, Base, DiskTyped, IsInventory, PlanTyped
  <2>2. 1..(k - 1) \subseteq DOMAIN steps
    BY <2>1
  <2> QED BY <2>1, <2>2
<1>2. PICK b \in 0..(k - 1), e \in tree.files :
        /\ Beside(steps, b, k) /\ WaitsFor(steps, b, k, e)
        /\ Under(Along(steps, DOMAIN steps, e)[b], steps[k].old)
  BY <1>1, PlannedWithFiles DEF PlannedWith
<1> QED BY <1>1, <1>2, PlannedMet DEF Carries

LEMMA SyntheticPairs ==
    ASSUME Running, Made, Named, Synthetic, NEW e \in tree.files \cap Present
    PROVE  /\ where[e] = Translate(steps, Alike, e)
           /\ ForwardMap(Pairs(steps, executed), where[e]) = e
           /\ TranslatePath(Pairs(steps, executed), e) = where[e]
           /\ Leading(Pairs(steps, executed), e) = {}
           /\ Matching(Pairs(steps, executed), where[e]) = {}
<1>1. /\ PlanTyped /\ MoveList(steps) /\ DOMAIN steps = 1..Len(steps)
      /\ executed \subseteq DOMAIN steps /\ Executed(steps, executed) = executed
      /\ Fresh(steps, tree.files)
  BY TypeParts, StepsShape, ExecutedSteps, SyntheticFresh DEF Running, Base
<1>2. where[e] = Along(steps, executed, e)[Len(steps)]
  BY TranslationsMade DEF Running
<1>3. Alike = executed
  <2>1. \A j \in Alike : \E i \in executed : i = j
    BY <1>1, AlikeSteps, PlanCarries, MovesDistinct
  <2> QED BY <1>1, <2>1, AlikeSteps
<1>4. where[e] = Translate(steps, Alike, e)
  BY <1>1, <1>2, <1>3 DEF Translate
<1>5. executed \subseteq 1..Len(steps) /\ \A k \in executed : Carries(steps, executed, tree.files, k)
  BY <1>1, ExecutedCarries
<1>6. LET there == Along(steps, executed, e)[Len(steps)]
          pairs == Pairs(steps, executed)
      IN  /\ TranslatePath(pairs, e) = there /\ Matching(pairs, there) = {}
          /\ ForwardMap(pairs, there) = e /\ Leading(pairs, e) = {}
  BY <1>1, <1>5, BothWays
<1> QED BY <1>2, <1>4, <1>6

(***************************************************************************)
(* The doctor finds every file through the pairs of an apply report, as    *)
(* the press did through its steps, and in a verifier's sandbox a finding  *)
(* made at a pressed path is traced to the source path and no other, in an *)
(* end of each way (inline_doctor.py, verify_cli.py).                      *)
(***************************************************************************)
THEOREM FindingsAreTraced == Spec => []FindingsMapBack
<1> DEFINE Inv == Running /\ Made /\ Named
<1>1. Init => Inv
  <2> SUFFICES ASSUME Init PROVE Inv
    OBVIOUS
  <2>1. steps = <<>> /\ Len(steps) = 0 /\ next = 1 /\ executed = {} /\ pc = "validate"
    BY DEF Init
  <2>2. Made /\ Named
    BY <2>1 DEF Made, Named, NamedSteps
  <2> QED BY <2>2, RunningInit
<1>2. Inv /\ [Next]_vars => Inv'
  <2> SUFFICES ASSUME Inv, [Next]_vars PROVE Inv'
    OBVIOUS
  <2>1. Base
    BY DEF Running
  <2> QED BY <2>1, RunningStep, MadeStep, NamedStep
<1>3. Inv => FindingsMapBack
  BY PairsSuffice, SyntheticPairs DEF FindingsMapBack, Alike
<1> QED BY <1>1, <1>2, <1>3, PTL DEF Spec
=============================================================================
