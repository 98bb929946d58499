----------------------------- MODULE FoldFacts -----------------------------
(***************************************************************************)
(* What folding a sequence from the left computes: instance this module    *)
(* with the operator that is folded.                                       *)
(***************************************************************************)
EXTENDS Integers, Sequences, WellFoundedInduction, SequenceTheorems, TLAPS

CONSTANT Op(_, _)

LastOf(s) == CHOOSE x \in s : \A y \in s : x >= y

\* The fold, as the community modules define FoldLeft(Op, base, seq).
Fold(base, seq) ==
  LET iter[s \in SUBSET DOMAIN seq] ==
        IF s = {} THEN base ELSE Op(iter[s \ {LastOf(s)}], seq[LastOf(s)])
  IN  iter[DOMAIN seq]

-----------------------------------------------------------------------------
\* Every set of naturals that is not empty has a least element.
LEMMA Least ==
  ASSUME NEW T \in SUBSET Nat, T # {}
  PROVE  \E m \in T : \A k \in T : m <= k
<1>1. PICK m \in T : \A k \in T : ~(<<k, m>> \in OpToRel(<, Nat))
  BY NatLessThanWellFounded, WFMin
<1>2. \A k \in T : ~(k < m)
  BY <1>1 DEF OpToRel
<1> QED BY <1>2

\* Induction along a sequence, for a set of positions.
LEMMA Positions ==
  ASSUME NEW n \in Nat, NEW P, 0 \in P, \A k \in 1 .. n : k - 1 \in P => k \in P
  PROVE  \A k \in 0 .. n : k \in P
<1> PICK bad : bad = {k \in 0 .. n : k \notin P}
  OBVIOUS
<1>0. bad \in SUBSET Nat
  OBVIOUS
<1> SUFFICES ASSUME bad # {} PROVE FALSE
  OBVIOUS
<1>1. PICK m \in bad : \A k \in bad : m <= k
  BY <1>0, Least
<1>2. m \in 1 .. n /\ m - 1 \notin bad
  BY <1>1
<1> QED BY <1>1, <1>2

\* A set of positions that is not empty has a last one.
LEMMA LastPosition ==
  ASSUME NEW n \in Nat, NEW s \in SUBSET (1 .. n), s # {}
  PROVE  LastOf(s) \in s /\ \A k \in s : k <= LastOf(s)
<1> PICK T : T = {u \in 0 .. n : \A k \in s : k <= u}
  OBVIOUS
<1>1. n \in T /\ T \in SUBSET Nat
  OBVIOUS
<1>2. PICK m \in T : \A u \in T : m <= u
  BY <1>1, Least
<1>3. m \in s
  <2> SUFFICES ASSUME m \notin s PROVE FALSE
    OBVIOUS
  <2>1. \A k \in s : k \in 1 .. n /\ k <= m /\ k # m
    BY <1>2
  <2> PICK j \in s : TRUE
    OBVIOUS
  <2>2. m \in 1 .. n
    BY <1>2, <2>1
  <2>3. \A k \in s : k <= m - 1
    BY <2>1, <2>2
  <2>4. m - 1 \in 0 .. n
    BY <2>2
  <2>5. m - 1 \in T
    BY <2>3, <2>4
  <2> QED BY <1>2, <2>2, <2>5
<1>4. m \in s /\ \A k \in s : m >= k
  BY <1>3
<1>5. LastOf(s) \in s /\ \A k \in s : LastOf(s) >= k
  BY <1>4 DEF LastOf
<1>6. \A x, y \in 1 .. n : x >= y => y <= x
  OBVIOUS
<1> QED BY <1>4, <1>5, <1>6

\* g gives what a fold by F has made of the positions in each set of 1 .. n.
Tabulates(g, n, base, F) ==
  \A s \in SUBSET (1 .. n) :
    g[s] = IF s = {} THEN base ELSE F[<<g[s \ {LastOf(s)}], LastOf(s)>>]

\* All but the last position are before it, and the positions up to one end in it.
LEMMA BeforeLast ==
  ASSUME NEW k \in Nat \ {0}
  PROVE  /\ \A s \in SUBSET (1 .. k) : s # {} =>
              LastOf(s) \in 1 .. k /\ s \ {LastOf(s)} \in SUBSET (1 .. k - 1)
         /\ LastOf(1 .. k) = k /\ (1 .. k) \ {k} = 1 .. k - 1
<1>1. ASSUME NEW s \in SUBSET (1 .. k), s # {}
      PROVE  LastOf(s) \in 1 .. k /\ s \ {LastOf(s)} \in SUBSET (1 .. k - 1)
  <2>1. LastOf(s) \in s /\ \A j \in s : j <= LastOf(s)
    BY <1>1, LastPosition
  <2>2. LastOf(s) \in 1 .. k
    BY <2>1
  <2>3. ASSUME NEW j \in s, j # LastOf(s) PROVE j \in 1 .. k - 1
    <3>1. j \in 1 .. k /\ j <= LastOf(s)
      BY <2>1
    <3> QED BY <2>2, <2>3, <3>1
  <2> QED BY <2>2, <2>3
<1>2. LastOf(1 .. k) = k
  <2> PICK s : s = 1 .. k
    OBVIOUS
  <2>0. k \in s
    OBVIOUS
  <2>1. s \in SUBSET (1 .. k) /\ s # {}
    BY <2>0
  <2>2. LastOf(s) \in s /\ \A j \in s : j <= LastOf(s)
    BY <2>1, LastPosition
  <2> QED BY <2>0, <2>1, <2>2
<1> QED BY <1>1, <1>2

\* What a fold over a sequence is defined by has a solution.
LEMMA FoldExists ==
  ASSUME NEW n \in Nat, NEW H, NEW base \in H, NEW F \in [H \X (1 .. n) -> H]
  PROVE  \E g \in [SUBSET (1 .. n) -> H] : Tabulates(g, n, base, F)
<1> PICK P : P = {k \in 0 .. n : \E g \in [SUBSET (1 .. k) -> H] : Tabulates(g, k, base, F)}
  OBVIOUS
<1>1. 0 \in P
  <2> PICK g : g = [s \in SUBSET (1 .. 0) |-> base]
    OBVIOUS
  <2>1. g \in [SUBSET (1 .. 0) -> H] /\ \A s \in SUBSET (1 .. 0) : s = {} /\ g[s] = base
    OBVIOUS
  <2>2. Tabulates(g, 0, base, F)
    BY <2>1 DEF Tabulates
  <2> QED BY <2>1, <2>2
<1>2. ASSUME NEW k \in 1 .. n, k - 1 \in P PROVE k \in P
  <2>1. PICK g \in [SUBSET (1 .. k - 1) -> H] : Tabulates(g, k - 1, base, F)
    BY <1>2
  <2> PICK h : h = [s \in SUBSET (1 .. k) |->
                      IF s = {} THEN base ELSE F[<<g[s \ {LastOf(s)}], LastOf(s)>>]]
    OBVIOUS
  <2>2. ASSUME NEW s \in SUBSET (1 .. k), s # {}
        PROVE  /\ LastOf(s) \in 1 .. n /\ s \ {LastOf(s)} \in SUBSET (1 .. k - 1)
               /\ g[s \ {LastOf(s)}] \in H
    BY <2>1, <2>2, BeforeLast
  <2>3. h \in [SUBSET (1 .. k) -> H]
    BY <2>2
  <2>4. \A s \in SUBSET (1 .. k - 1) : h[s] = g[s]
    <3>1. \A s \in SUBSET (1 .. k - 1) : s \in SUBSET (1 .. k)
      OBVIOUS
    <3> QED BY <2>1, <3>1 DEF Tabulates
  <2>5. Tabulates(h, k, base, F)
    BY <2>2, <2>4 DEF Tabulates
  <2>6. \E f \in [SUBSET (1 .. k) -> H] : Tabulates(f, k, base, F)
    BY <2>3, <2>5
  <2> QED BY <2>6
<1>3. \A k \in 1 .. n : k - 1 \in P => k \in P
  BY <1>2
<1>4. \A k \in 0 .. n : k \in P
  BY <1>1, <1>3, Positions
<1>5. n \in 0 .. n
  OBVIOUS
<1>6. \A k \in P : \E g \in [SUBSET (1 .. k) -> H] : Tabulates(g, k, base, F)
  OBVIOUS
<1> QED BY <1>4, <1>5, <1>6

\* h goes from the base to the fold of the sequence, one element at a time.
Trace(H, base, seq, h) ==
  /\ h \in [0 .. Len(seq) -> H]
  /\ h[0] = base
  /\ \A k \in 1 .. Len(seq) : h[k] = Op(h[k - 1], seq[k])
  /\ Fold(base, seq) = h[Len(seq)]

\* A fold whose operator stays in a set goes from the base to its value in one step
\* per element, in order.
THEOREM FoldTrace ==
  ASSUME NEW H, NEW E, NEW base \in H, NEW seq \in Seq(E),
         \A h \in H, e \in E : Op(h, e) \in H
  PROVE  \E h : Trace(H, base, seq, h)
<1> PICK n \in Nat : n = Len(seq)
  OBVIOUS
<1>1. DOMAIN seq = 1 .. n /\ \A k \in 1 .. n : seq[k] \in E
  OBVIOUS
<1> PICK F : F = [p \in H \X (1 .. n) |-> Op(p[1], seq[p[2]])]
  OBVIOUS
<1>2. F \in [H \X (1 .. n) -> H] /\ \A h \in H, k \in 1 .. n : F[<<h, k>>] = Op(h, seq[k])
  BY <1>1
<1>3. PICK g \in [SUBSET (1 .. n) -> H] :
        Tabulates(g, n, base, F)
  BY <1>2, FoldExists
<1> DEFINE Solution(i) ==
             i = [s \in SUBSET (1 .. n) |->
                    IF s = {} THEN base ELSE Op(i[s \ {LastOf(s)}], seq[LastOf(s)])]
<1>4. Solution(g)
  <2>1. ASSUME NEW s \in SUBSET (1 .. n), s # {}
        PROVE  g[s] = Op(g[s \ {LastOf(s)}], seq[LastOf(s)])
    <3>1. LastOf(s) \in 1 .. n
      BY <2>1, LastPosition
    <3>2. s \ {LastOf(s)} \in SUBSET (1 .. n)
      OBVIOUS
    <3> QED BY <1>2, <1>3, <2>1, <3>1, <3>2 DEF Tabulates
  <2>2. g[{}] = base /\ {} \in SUBSET (1 .. n)
    BY <1>3 DEF Tabulates
  <2>3. \A s \in SUBSET (1 .. n) :
          g[s] = IF s = {} THEN base ELSE Op(g[s \ {LastOf(s)}], seq[LastOf(s)])
    BY <2>1, <2>2
  <2> QED BY <2>3
<1>5. PICK i : Solution(i) /\ Fold(base, seq) = i[1 .. n]
  <2>2. Fold(base, seq) = (CHOOSE i : Solution(i))[1 .. n]
    BY <1>1 DEF Fold
  <2> HIDE DEF Solution
  <2>3. Solution(CHOOSE i : Solution(i))
    BY <1>4
  <2> QED BY <2>2, <2>3
<1> DEFINE h == [k \in 0 .. n |-> i[1 .. k]]
<1>6. ASSUME NEW k \in 1 .. n PROVE h[k] = Op(h[k - 1], seq[k])
  <2>1. \A j \in 1 .. k : j \in 1 .. n
    OBVIOUS
  <2>2. k \in 1 .. k /\ k - 1 \in 0 .. n /\ k \in 0 .. n /\ k \in Nat \ {0}
    OBVIOUS
  <2>3. LastOf(1 .. k) = k /\ (1 .. k) \ {k} = 1 .. k - 1
    BY <2>2, BeforeLast
  <2>4. i[1 .. k] = Op(i[(1 .. k) \ {LastOf(1 .. k)}], seq[LastOf(1 .. k)])
    BY <1>5, <2>1, <2>2
  <2> QED BY <2>2, <2>3, <2>4
<1>7. h[0] = base
  <2>1. 1 .. 0 = {} /\ {} \in SUBSET (1 .. n)
    OBVIOUS
  <2>2. i[{}] = base
    BY <1>5, <2>1
  <2> QED BY <2>1, <2>2
<1>8. h \in [0 .. n -> H]
  <2> PICK P : P = {k \in 0 .. n : h[k] \in H}
    OBVIOUS
  <2> HIDE DEF h
  <2>1. 0 \in P
    BY <1>7
  <2>2. \A k \in 1 .. n : k - 1 \in P => k \in P
    BY <1>1, <1>6
  <2>3. \A k \in 0 .. n : k \in P
    BY <2>1, <2>2, Positions
  <2> QED BY <2>3 DEF h
<1>9. Fold(base, seq) = h[n]
  BY <1>5
<1> HIDE DEF h
<1> QED BY <1>6, <1>7, <1>8, <1>9 DEF Trace

=============================================================================
