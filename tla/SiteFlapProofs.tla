--------------------------- MODULE SiteFlapProofs ---------------------------
(***************************************************************************)
(* What holds of the predicates of flaky.py and site_flap.py for every     *)
(* history of samples, every window and every threshold: first of their    *)
(* definitions on sets of samples (SiteFlap), then that the loops of the   *)
(* code (FlapLoops) compute these.                                         *)
(*                                                                         *)
(* Samples are ordered by their age, so the latest n are an initial piece  *)
(* of that order; what the code finds by going through a list is found     *)
(* here by taking the newest sample that is left.  The loops themselves    *)
(* are folds: what they have after k samples is shown by induction on k.   *)
(***************************************************************************)
EXTENDS FlapLoops, FiniteSetTheorems, FunctionTheorems, SequenceTheorems,
        WellFoundedInduction, TLAPS

\* Finitely many samples, each of some age ...
Dated(S) == IsFiniteSet(S) /\ \A s \in S : s.age \in Nat
\* ... and no two of the same.
History(S) == Dated(S) /\ \A s, t \in S : s.age = t.age => s = t

-----------------------------------------------------------------------------
(* The latest samples.                                                     *)

LEMMA NewerFinite ==
    ASSUME NEW S, IsFiniteSet(S), NEW s
    PROVE  IsFiniteSet(Newer(S, s)) /\ Cardinality(Newer(S, s)) \in Nat
<1>1. Newer(S, s) \in SUBSET S
  BY DEF Newer
<1>2. IsFiniteSet(Newer(S, s))
  BY <1>1, FS_Subset
<1> QED BY <1>2, FS_CardinalityType

LEMMA LatestFinite ==
    ASSUME NEW S, IsFiniteSet(S), NEW n
    PROVE  IsFiniteSet(Latest(S, n)) /\ Cardinality(Latest(S, n)) \in Nat
<1>1. Latest(S, n) \in SUBSET S
  BY DEF Latest
<1> QED BY <1>1, FS_Subset, FS_CardinalityType

\* What is at least as new as one of the latest is one of the latest.
LEMMA LatestClosed ==
    ASSUME NEW S, Dated(S), NEW n \in Nat, NEW s \in Latest(S, n), NEW t \in S, t.age <= s.age
    PROVE  t \in Latest(S, n)
<1>1. Newer(S, t) \in SUBSET Newer(S, s)
  BY DEF Newer, Latest, Dated
<1>2. Cardinality(Newer(S, t)) <= Cardinality(Newer(S, s))
  BY <1>1, NewerFinite, FS_Subset DEF Dated
<1>3. Cardinality(Newer(S, t)) \in Nat /\ Cardinality(Newer(S, s)) \in Nat
  BY NewerFinite DEF Dated
<1> QED BY <1>2, <1>3 DEF Latest

\* More of the latest.
LEMMA LatestMore ==
    ASSUME NEW S, Dated(S), NEW n \in Nat, NEW k \in Nat, n <= k
    PROVE  Latest(S, n) \subseteq Latest(S, k) /\ Latest(S, k) \subseteq S
<1>1. ASSUME NEW s \in S PROVE Cardinality(Newer(S, s)) \in Nat
  BY NewerFinite DEF Dated
<1> QED BY <1>1 DEF Latest

\* A sample newer than all others comes before each of them.
LEMMA NewerAdd ==
    ASSUME NEW S, Dated(S), NEW x, x.age = 0, \A s \in S : s.age > 0
    PROVE  /\ \A s \in S : Cardinality(Newer(S \cup {x}, s)) = Cardinality(Newer(S, s)) + 1
           /\ Cardinality(Newer(S \cup {x}, x)) = 0
<1>1. ASSUME NEW s \in S
      PROVE  Cardinality(Newer(S \cup {x}, s)) = Cardinality(Newer(S, s)) + 1
  <2>1. Newer(S \cup {x}, s) = Newer(S, s) \cup {x}
    BY DEF Newer
  <2>2. x \notin Newer(S, s)
    BY DEF Newer
  <2> QED BY <2>1, <2>2, NewerFinite, FS_AddElement DEF Dated
<1>2. Cardinality(Newer(S \cup {x}, x)) = 0
  <2>1. Newer(S \cup {x}, x) = {}
    BY DEF Newer, Dated
  <2> QED BY <2>1, FS_EmptySet
<1> QED BY <1>1, <1>2

\* It joins the latest.
LEMMA LatestAdd ==
    ASSUME NEW S, Dated(S), NEW x, x.age = 0, \A s \in S : s.age > 0, NEW n \in Nat
    PROVE  Latest(S \cup {x}, n + 1) = Latest(S, n) \cup {x}
<1>1. ASSUME NEW s \in S
      PROVE  Cardinality(Newer(S \cup {x}, s)) = Cardinality(Newer(S, s)) + 1
  BY NewerAdd
<1>2. Cardinality(Newer(S \cup {x}, x)) = 0
  BY NewerAdd
<1>3. ASSUME NEW s \in S PROVE Cardinality(Newer(S, s)) \in Nat
  BY NewerFinite DEF Dated
<1>4. ASSUME NEW s \in S PROVE s \in Latest(S \cup {x}, n + 1) <=> s \in Latest(S, n)
  BY <1>1, <1>3 DEF Latest
<1>5. x \in Latest(S \cup {x}, n + 1)
  BY <1>2 DEF Latest
<1>6. Latest(S \cup {x}, n + 1) \subseteq S \cup {x} /\ Latest(S, n) \subseteq S
  BY DEF Latest
<1> QED BY <1>4, <1>5, <1>6

\* Among the latest, the order is the order among all.
LEMMA LatestNewer ==
    ASSUME NEW S, Dated(S), NEW n \in Nat, NEW s \in Latest(S, n)
    PROVE  Newer(Latest(S, n), s) = Newer(S, s)
<1>1. ASSUME NEW t \in S, t.age < s.age PROVE t \in Latest(S, n)
  <2>1. t.age <= s.age
    BY <1>1 DEF Dated, Latest
  <2> QED BY <2>1, LatestClosed
<1> QED BY <1>1 DEF Newer, Latest

\* The latest of the latest.
LEMMA LatestLatest ==
    ASSUME NEW S, Dated(S), NEW k \in Nat, NEW n \in Nat, n <= k
    PROVE  Latest(Latest(S, k), n) = Latest(S, n)
<1>1. Latest(S, n) \subseteq Latest(S, k)
  BY LatestMore
<1>2. ASSUME NEW s \in Latest(S, k)
      PROVE  s \in Latest(Latest(S, k), n) <=> s \in Latest(S, n)
  <2>1. s \in S
    BY DEF Latest
  <2>2. s \in Latest(Latest(S, k), n) <=> Cardinality(Newer(Latest(S, k), s)) < n
    BY DEF Latest
  <2>3. s \in Latest(S, n) <=> Cardinality(Newer(S, s)) < n
    BY <2>1 DEF Latest
  <2> QED BY <2>2, <2>3, LatestNewer
<1>3. Latest(Latest(S, k), n) \subseteq Latest(S, k)
  BY DEF Latest
<1> QED BY <1>1, <1>2, <1>3

\* Of several samples one is the newest.
LEMMA NewestExists ==
    ASSUME NEW S, S # {}, \A s \in S : s.age \in Nat
    PROVE  \E m \in S : \A s \in S : m.age <= s.age
<1> DEFINE T == {s.age : s \in S}
<1>1. T \subseteq Nat /\ T # {}
  OBVIOUS
<1>2. PICK a \in T : \A b \in T : ~(<<b, a>> \in OpToRel(<, Nat))
  <2> HIDE DEF OpToRel, T
  <2> QED BY <1>1, NatLessThanWellFounded, WFMin
<1>3. \A b \in T : a <= b
  <2>1. a \in Nat /\ \A b \in T : b \in Nat
    BY <1>1
  <2> HIDE DEF T
  <2>2. \A b \in T : ~(b < a)
    BY <1>2, <2>1 DEF OpToRel
  <2> QED BY <2>1, <2>2
<1> QED BY <1>3

\* The next of the latest is the newest of the others.
LEMMA LatestStep ==
    ASSUME NEW S, History(S), NEW n \in Nat, Latest(S, n) # S, Cardinality(Latest(S, n)) = n
    PROVE  \E m \in S \ Latest(S, n) : Latest(S, n + 1) = Latest(S, n) \cup {m}
<1>0. Dated(S) /\ IsFiniteSet(S) /\ Latest(S, n) \subseteq S
  BY DEF History, Dated, Latest
<1>1. PICK m \in S \ Latest(S, n) : \A s \in S \ Latest(S, n) : m.age <= s.age
  <2>1. S \ Latest(S, n) # {} /\ \A s \in S \ Latest(S, n) : s.age \in Nat
    BY <1>0 DEF Dated
  <2> QED BY <2>1, NewestExists
<1>2. ASSUME NEW t \in Latest(S, n), NEW s \in S \ Latest(S, n) PROVE t.age < s.age
  <2>1. ~(s.age <= t.age)
    BY <1>0, LatestClosed
  <2> QED BY <1>0, <2>1 DEF Dated
<1>3. Newer(S, m) = Latest(S, n)
  <2>1. ASSUME NEW s \in S, s.age < m.age PROVE s \in Latest(S, n)
    BY <1>0, <1>1, <2>1 DEF Dated
  <2> QED BY <1>0, <1>2, <2>1 DEF Newer
<1>4. m \in Latest(S, n + 1)
  BY <1>3 DEF Latest
<1>5. ASSUME NEW s \in Latest(S, n + 1) PROVE s \in Latest(S, n) \cup {m}
  <2> SUFFICES ASSUME s \notin Latest(S, n), s # m PROVE FALSE
    OBVIOUS
  <2>1. s \in S /\ m.age < s.age
    BY <1>0, <1>1 DEF Latest, History, Dated
  <2>2. Latest(S, n) \cup {m} \in SUBSET Newer(S, s)
    BY <1>0, <1>2, <2>1 DEF Newer
  <2>3. Cardinality(Latest(S, n) \cup {m}) = n + 1
    BY <1>0, LatestFinite, FS_AddElement
  <2>4. n + 1 <= Cardinality(Newer(S, s))
    BY <1>0, <2>2, <2>3, NewerFinite, FS_Subset
  <2>5. Cardinality(Newer(S, s)) < n + 1 /\ Cardinality(Newer(S, s)) \in Nat
    BY <1>0, NewerFinite DEF Latest
  <2> QED BY <2>4, <2>5
<1>6. Latest(S, n) \subseteq Latest(S, n + 1)
  BY <1>0, LatestMore
<1>7. Latest(S, n + 1) = Latest(S, n) \cup {m}
  BY <1>4, <1>5, <1>6
<1> QED BY <1>7

\* ORDER BY ts DESC LIMIT n returns n samples, or all of them.
LEMMA LatestCard ==
    ASSUME NEW S, History(S), NEW n \in Nat
    PROVE  /\ Cardinality(Latest(S, n)) <= n
           /\ Latest(S, n) # S => Cardinality(Latest(S, n)) = n
<1> DEFINE P(k) == /\ Cardinality(Latest(S, k)) <= k
                   /\ Latest(S, k) # S => Cardinality(Latest(S, k)) = k
           Bad == {k \in Nat : ~P(k)}
<1>0. Dated(S) /\ IsFiniteSet(S)
  BY DEF History, Dated
<1>1. SUFFICES ASSUME Bad # {} PROVE FALSE
  OBVIOUS
<1>2. PICK k \in Bad : \A j \in Bad : ~(<<j, k>> \in OpToRel(<, Nat))
  <2>1. Bad \subseteq Nat
    OBVIOUS
  <2> HIDE DEF OpToRel, Bad
  <2> QED BY <1>1, <2>1, NatLessThanWellFounded, WFMin
<1>3. k \in Nat /\ ~P(k) /\ \A j \in Nat : j < k => P(j)
  BY <1>2 DEF OpToRel
<1>4. CASE k = 0
  <2>1. Latest(S, 0) = {}
    <3>1. ASSUME NEW s \in S PROVE ~(Cardinality(Newer(S, s)) < 0)
      BY <1>0, NewerFinite
    <3> QED BY <3>1 DEF Latest
  <2> QED BY <1>3, <1>4, <2>1, FS_EmptySet
<1>5. CASE k # 0
  <2>1. PICK j \in Nat : k = j + 1
    BY <1>3, <1>5
  <2>2. P(j) /\ j < k
    BY <1>3, <2>1
  <2>3. CASE Latest(S, j) = S
    <3>1. Latest(S, k) = S
      BY <1>0, <2>1, <2>3, LatestMore
    <3>2. Cardinality(S) \in Nat
      BY <1>0, FS_CardinalityType
    <3> QED BY <1>3, <2>1, <2>2, <2>3, <3>1, <3>2
  <2>4. CASE Latest(S, j) # S
    <3>1. PICK m \in S \ Latest(S, j) : Latest(S, k) = Latest(S, j) \cup {m}
      BY <2>1, <2>2, <2>4, LatestStep
    <3>2. Cardinality(Latest(S, j)) = j /\ IsFiniteSet(Latest(S, j))
      BY <1>0, <2>2, <2>4, LatestFinite
    <3>3. Cardinality(Latest(S, j) \cup {m}) = j + 1
      BY <3>1, <3>2, FS_AddElement
    <3> QED BY <1>3, <2>1, <3>1, <3>3
  <2> QED BY <2>3, <2>4
<1> QED BY <1>4, <1>5

-----------------------------------------------------------------------------
(* Runs of failures.                                                       *)

LEMMA RunFinite ==
    ASSUME NEW S, IsFiniteSet(S), NEW s
    PROVE  IsFiniteSet(RunOf(S, s)) /\ Cardinality(RunOf(S, s)) \in Nat
<1>1. RunOf(S, s) \in SUBSET S
  BY DEF RunOf
<1> QED BY <1>1, FS_Subset, FS_CardinalityType

\* The newest n samples of a history and the samples newer than some age are pieces
\* of it without gaps.
Piece(Q, S) == Q \subseteq S /\ \A s \in Q, t \in S : t.age <= s.age => t \in Q

LEMMA LatestPiece ==
    ASSUME NEW S, Dated(S), NEW n \in Nat
    PROVE  Piece(Latest(S, n), S)
BY LatestClosed DEF Piece, Latest

\* A run, seen from a piece of the history.
LEMMA RunInPiece ==
    ASSUME NEW S, Dated(S), NEW Q, Piece(Q, S), NEW s \in Q
    PROVE  RunOf(Q, s) = RunOf(S, s) \cap Q
<1>1. Q \subseteq S /\ \A u \in Q, t \in S : t.age <= u.age => t \in Q
  BY DEF Piece
<1>2. ASSUME NEW t \in Q PROVE t \in RunOf(Q, s) <=> t \in RunOf(S, s)
  <2>1. ASSUME NEW u \in S, (u.age >= s.age /\ u.age <= t.age) \/ (u.age >= t.age /\ u.age <= s.age)
        PROVE  u \in Q
    BY <1>1, <2>1
  <2> QED BY <1>1, <2>1 DEF RunOf
<1> QED BY <1>1, <1>2 DEF RunOf

\* Outside of a piece everything is older.
LEMMA PieceOlder ==
    ASSUME NEW S, Dated(S), NEW Q, Piece(Q, S), NEW s \in Q, NEW t \in S \ Q
    PROVE  s.age < t.age
<1>1. ~(t.age <= s.age) /\ s.age \in Nat /\ t.age \in Nat
  BY DEF Piece, Dated
<1> QED BY <1>1

LEMMA PieceFacts ==
    ASSUME NEW S, History(S), NEW Q, Piece(Q, S)
    PROVE  /\ History(Q) /\ Dated(Q) /\ IsFiniteSet(Q) /\ Dated(S) /\ IsFiniteSet(S)
           /\ \A s \in Q : Newer(Q, s) = Newer(S, s)
<1>1. Q \in SUBSET S
  BY DEF Piece
<1>2. History(Q) /\ Dated(Q) /\ IsFiniteSet(Q) /\ Dated(S) /\ IsFiniteSet(S)
  BY <1>1, FS_Subset DEF History, Dated
<1>3. ASSUME NEW s \in Q, NEW t \in S, t.age < s.age PROVE t \in Q
  BY <1>2, <1>3 DEF Piece, Dated
<1> QED BY <1>1, <1>2, <1>3 DEF Newer

\* A piece that reaches a threshold beyond the window tells short runs from long ones.
LEMMA PieceShort ==
    ASSUME NEW S, History(S), NEW L \in Nat, NEW Q, Piece(Q, S),
           Q = S \/ Cardinality(Q) >= WINDOW + L, NEW s \in Latest(S, WINDOW), s \in Q
    PROVE  Cardinality(RunOf(Q, s)) < L <=> Cardinality(RunOf(S, s)) < L
<1>0. /\ Dated(S) /\ IsFiniteSet(S) /\ IsFiniteSet(Q) /\ Q \subseteq S /\ WINDOW \in Nat
      /\ Newer(Q, s) = Newer(S, s) /\ Dated(Q)
  BY PieceFacts, FlapConstants DEF Piece
<1>1. RunOf(Q, s) = RunOf(S, s) \cap Q
  BY <1>0, RunInPiece
<1>2. /\ Cardinality(RunOf(Q, s)) \in Nat /\ Cardinality(RunOf(S, s)) \in Nat
      /\ IsFiniteSet(RunOf(Q, s)) /\ IsFiniteSet(RunOf(S, s))
  BY <1>0, RunFinite
<1>3. Cardinality(RunOf(Q, s)) <= Cardinality(RunOf(S, s))
  <2>1. RunOf(Q, s) \in SUBSET RunOf(S, s)
    BY <1>1
  <2> QED BY <1>2, <2>1, FS_Subset
<1>4. CASE RunOf(S, s) \subseteq Q
  <2>1. RunOf(Q, s) = RunOf(S, s)
    BY <1>1, <1>4
  <2> QED BY <2>1
<1>5. CASE ~(RunOf(S, s) \subseteq Q)
  <2> DEFINE D == Q \ Newer(Q, s)
  <2>1. PICK t \in RunOf(S, s) : t \notin Q
    BY <1>5
  <2>2. t \in S /\ Q # S
    BY <2>1 DEF RunOf
  <2>3. ASSUME NEW u \in D PROVE u \in RunOf(S, s)
    <3>1. u \in Q /\ u \in S /\ u.age >= s.age /\ u.age \in Nat /\ s.age \in Nat /\ t.age \in Nat
      BY <1>0, <2>2 DEF Newer, Dated
    <3>2. u.age < t.age
      BY <1>0, <2>1, <2>2, <3>1, PieceOlder
    <3>3. ASSUME NEW v \in S,
                 (v.age >= s.age /\ v.age <= u.age) \/ (v.age >= u.age /\ v.age <= s.age)
          PROVE  v.st = "down"
      <4>1. v.age \in Nat
        BY <1>0 DEF Dated
      <4>2. v.age >= s.age /\ v.age <= t.age
        BY <3>1, <3>2, <3>3, <4>1
      <4> QED BY <2>1, <4>2 DEF RunOf
    <3> QED BY <3>1, <3>3 DEF RunOf
  <2>4. D \in SUBSET RunOf(Q, s)
    BY <1>1, <2>3
  <2>5. Cardinality(D) = Cardinality(Q) - Cardinality(Newer(Q, s))
    <3>1. Q \cap Newer(Q, s) = Newer(Q, s)
      BY DEF Newer
    <3>2. Cardinality(Q \ Newer(Q, s)) = Cardinality(Q) - Cardinality(Q \cap Newer(Q, s))
      BY <1>0, FS_Difference
    <3> QED BY <3>1, <3>2
  <2>6. Cardinality(Newer(Q, s)) < WINDOW /\ Cardinality(Newer(Q, s)) \in Nat
    BY <1>0, NewerFinite DEF Latest
  <2>7. Cardinality(Q) >= WINDOW + L /\ Cardinality(Q) \in Nat
    BY <1>0, <2>2, FS_CardinalityType
  <2>8. Cardinality(D) >= L /\ Cardinality(D) \in Nat
    BY <1>0, <2>5, <2>6, <2>7
  <2> HIDE DEF D
  <2>9. Cardinality(D) <= Cardinality(RunOf(Q, s))
    BY <1>2, <2>4, FS_Subset
  <2> QED BY <1>2, <1>3, <2>8, <2>9
<1> QED BY <1>4, <1>5

\* The window of a piece is the window of the history.
LEMMA PieceLatest ==
    ASSUME NEW S, History(S), NEW Q, Piece(Q, S), NEW n \in Nat, Q = S \/ Cardinality(Q) >= n
    PROVE  Latest(Q, n) = Latest(S, n)
<1>0. /\ Dated(S) /\ IsFiniteSet(S) /\ IsFiniteSet(Q) /\ Q \subseteq S
      /\ \A s \in Q : Newer(Q, s) = Newer(S, s)
  BY PieceFacts DEF Piece
<1>1. ASSUME NEW s \in Q PROVE s \in Latest(Q, n) <=> s \in Latest(S, n)
  BY <1>0 DEF Latest
<1>2. ASSUME NEW s \in S \ Q PROVE s \notin Latest(S, n)
  <2>1. Q \in SUBSET Newer(S, s)
    <3>1. ASSUME NEW q \in Q PROVE q.age < s.age
      BY <1>0, PieceOlder
    <3> QED BY <1>0, <3>1 DEF Newer
  <2>2. Cardinality(Q) <= Cardinality(Newer(S, s)) /\ Q # S
    BY <1>0, <2>1, NewerFinite, FS_Subset
  <2>3. Cardinality(Q) \in Nat /\ Cardinality(Newer(S, s)) \in Nat
    BY <1>0, NewerFinite, FS_CardinalityType
  <2> QED BY <2>2, <2>3 DEF Latest
<1> QED BY <1>0, <1>1, <1>2 DEF Latest

\* A piece that is long enough is judged as the whole.
LEMMA PieceVerdict ==
    ASSUME NEW S, History(S), NEW L \in Nat, NEW Q, Piece(Q, S),
           Q = S \/ Cardinality(Q) >= WINDOW + L
    PROVE  /\ ShortFailures(Q, L) = ShortFailures(S, L)
           /\ ShortRuns(Q, L) = ShortRuns(S, L)
           /\ InOutage(Q, L) <=> InOutage(S, L)
<1>0. /\ Dated(S) /\ IsFiniteSet(S) /\ IsFiniteSet(Q) /\ Q \subseteq S /\ WINDOW \in Nat
  BY PieceFacts, FlapConstants DEF Piece
<1>1. Q = S \/ (Cardinality(Q) >= WINDOW /\ Cardinality(Q) >= L)
  <2>1. Cardinality(Q) \in Nat
    BY <1>0, FS_CardinalityType
  <2> QED BY <1>0, <2>1
<1>2. Latest(Q, WINDOW) = Latest(S, WINDOW) /\ Latest(Q, L) = Latest(S, L)
  BY <1>0, <1>1, PieceLatest
<1>3. ASSUME NEW s \in Latest(S, WINDOW)
      PROVE  Cardinality(RunOf(Q, s)) < L <=> Cardinality(RunOf(S, s)) < L
  <2>1. s \in Q
    BY <1>2 DEF Latest
  <2> QED BY <2>1, PieceShort
<1>4. ShortFailures(Q, L) = ShortFailures(S, L)
  BY <1>2, <1>3 DEF ShortFailures
<1>5. ASSUME NEW s \in ShortFailures(S, L)
      PROVE  Newer(RunOf(Q, s), s) = Newer(RunOf(S, s), s)
  <2>1. s \in Q
    BY <1>4 DEF ShortFailures, Latest
  <2>2. RunOf(Q, s) = RunOf(S, s) \cap Q
    BY <1>0, <2>1, RunInPiece
  <2>3. ASSUME NEW t \in S, t.age < s.age PROVE t \in Q
    BY <1>0, <2>1, <2>3 DEF Piece, Dated
  <2> QED BY <2>2, <2>3 DEF Newer, RunOf
<1>6. ShortRuns(Q, L) = ShortRuns(S, L)
  BY <1>4, <1>5 DEF ShortRuns
<1>7. InOutage(Q, L) <=> InOutage(S, L)
  BY <1>2 DEF InOutage
<1> QED BY <1>4, <1>6, <1>7

\* The LIMIT of the query in _flaky_step is enough: with a threshold of L failures,
\* the latest WINDOW + L samples (or more) are judged as the whole history is, also
\* when a long outage began before the window.
THEOREM LimitIsEnough ==
    ASSUME NEW S, History(S), NEW L \in Nat, NEW n \in Nat, n >= WINDOW + L, NEW was
    PROVE  IsFlaky(Latest(S, n), L, was) = IsFlaky(S, L, was)
<1>0. Dated(S) /\ IsFiniteSet(S) /\ WINDOW \in Nat
  BY FlapConstants DEF History, Dated
<1>1. Piece(Latest(S, n), S)
  BY <1>0, LatestPiece
<1>2. Latest(S, n) = S \/ Cardinality(Latest(S, n)) >= WINDOW + L
  BY LatestCard
<1>3. /\ ShortFailures(Latest(S, n), L) = ShortFailures(S, L)
      /\ ShortRuns(Latest(S, n), L) = ShortRuns(S, L)
      /\ InOutage(Latest(S, n), L) <=> InOutage(S, L)
  BY <1>1, <1>2, PieceVerdict
<1> QED BY <1>3 DEF IsFlaky

-----------------------------------------------------------------------------
(* One more failure.                                                       *)

\* The run of the newest sample: when it reaches the threshold, it is an outage.
LEMMA NewestRun ==
    ASSUME NEW T, History(T), NEW x \in T, \A s \in T : x.age <= s.age, NEW L \in Nat,
           ~InOutage(T, L)
    PROVE  Cardinality(RunOf(T, x)) < L
<1> DEFINE R == RunOf(T, x)
<1>0. /\ Dated(T) /\ IsFiniteSet(T) /\ IsFiniteSet(R) /\ Cardinality(R) \in Nat
      /\ R \subseteq T /\ \A s \in T : s.age \in Nat
  BY RunFinite DEF History, Dated, RunOf
<1>1. SUFFICES ASSUME Cardinality(R) >= L PROVE InOutage(T, L)
  BY <1>0
<1>2. ASSUME NEW t \in R, NEW u \in T, u.age <= t.age PROVE u \in R /\ u.st = "down"
  <2>1. u.age >= x.age /\ t.age \in Nat /\ u.age \in Nat /\ x.age \in Nat
    BY <1>0
  <2>2. ASSUME NEW v \in T, (v.age >= x.age /\ v.age <= u.age) \/ (v.age >= u.age /\ v.age <= x.age)
        PROVE  v.age >= x.age /\ v.age <= t.age
    BY <1>0, <1>2, <2>1, <2>2
  <2> QED BY <1>0, <1>2, <2>1, <2>2 DEF RunOf
<1>3. Latest(T, L) \subseteq R
  <2> SUFFICES ASSUME NEW s \in Latest(T, L), s \notin R PROVE FALSE
    OBVIOUS
  <2>1. s \in T /\ Cardinality(Newer(T, s)) < L
    BY DEF Latest
  <2>2. ASSUME NEW t \in R PROVE t.age < s.age
    BY <1>0, <1>2, <2>1
  <2>3. R \in SUBSET Newer(T, s)
    BY <1>0, <2>2 DEF Newer
  <2>4. Cardinality(R) <= Cardinality(Newer(T, s)) /\ Cardinality(Newer(T, s)) \in Nat
    BY <1>0, <2>3, NewerFinite, FS_Subset
  <2> QED BY <1>0, <1>1, <2>1, <2>4
<1>4. \A s \in Latest(T, L) : s.st = "down"
  BY <1>0, <1>2, <1>3
<1>5. Cardinality(Latest(T, L)) = L
  <2>1. CASE Latest(T, L) # T
    BY <2>1, LatestCard
  <2>2. CASE Latest(T, L) = T
    <3>1. Cardinality(T) <= L /\ Cardinality(T) \in Nat
      BY <1>0, <2>2, LatestCard, FS_CardinalityType
    <3>2. Cardinality(R) <= Cardinality(T)
      BY <1>0, FS_Subset
    <3> QED BY <1>0, <1>1, <2>2, <3>1, <3>2
  <2> QED BY <2>1, <2>2
<1> QED BY <1>4, <1>5 DEF InOutage

\* A new sample, and the runs of the others.
LEMMA RunsAdd ==
    ASSUME NEW S, Dated(S), NEW x, x.age = 0, \A s \in S : s.age > 0, NEW s \in S
    PROVE  \/ RunOf(S \cup {x}, s) = RunOf(S, s)
           \/ RunOf(S \cup {x}, s) \subseteq RunOf(S \cup {x}, x)
<1> DEFINE T == S \cup {x}
<1>0. \A t \in T : t.age \in Nat /\ t.age >= x.age
  BY DEF Dated
<1>1. CASE x \notin RunOf(T, s)
  <2>1. ASSUME NEW t \in S PROVE t \in RunOf(T, s) <=> t \in RunOf(S, s)
    <3>1. ~(x.age >= s.age /\ x.age <= t.age) /\ ~(x.age >= t.age /\ x.age <= s.age)
      BY DEF Dated
    <3> QED BY <3>1 DEF RunOf
  <2> QED BY <1>1, <2>1 DEF RunOf
<1>2. CASE x \in RunOf(T, s)
  <2>1. \A u \in T : u.age <= s.age => u.st = "down"
    BY <1>0, <1>2 DEF RunOf
  <2>2. ASSUME NEW t \in RunOf(T, s) PROVE t \in RunOf(T, x)
    <3>1. t \in T
      BY DEF RunOf
    <3>2. ASSUME NEW u \in T, (u.age >= x.age /\ u.age <= t.age) \/ (u.age >= t.age /\ u.age <= x.age)
          PROVE  u.st = "down"
      <4>1. u.age \in Nat /\ t.age \in Nat /\ s.age \in Nat /\ x.age = 0
        BY <1>0, <3>1
      <4>2. CASE u.age <= s.age
        BY <2>1, <4>2
      <4>3. CASE u.age > s.age
        <5>1. u.age >= s.age /\ u.age <= t.age
          BY <3>2, <4>1, <4>3
        <5> QED BY <2>2, <5>1 DEF RunOf
      <4> QED BY <4>1, <4>2, <4>3
    <3> QED BY <3>1, <3>2 DEF RunOf
  <2> QED BY <2>2
<1> QED BY <1>1, <1>2

\* A failing check does not lower the number of short failures: what leaves the
\* window is made up for by the new sample, and no run becomes long unless it is the
\* outage itself.
LEMMA FailureCounts ==
    ASSUME NEW S, History(S), NEW x, x.age = 0, x.st = "down", \A s \in S : s.age > 0,
           NEW L \in Nat, ~InOutage(S \cup {x}, L)
    PROVE  Cardinality(ShortFailures(S \cup {x}, L)) >= Cardinality(ShortFailures(S, L))
<1> DEFINE T == S \cup {x}
           F == ShortFailures(S, L)
           G == ShortFailures(T, L)
<1>0. /\ Dated(S) /\ IsFiniteSet(S) /\ WINDOW \in Nat /\ x \notin S
      /\ IsFiniteSet(T) /\ IsFiniteSet(F) /\ IsFiniteSet(G)
      /\ Cardinality(F) \in Nat /\ Cardinality(G) \in Nat
  <2>1. Dated(S) /\ IsFiniteSet(S) /\ WINDOW \in Nat /\ x \notin S
    BY FlapConstants DEF History, Dated
  <2>2. IsFiniteSet(T)
    BY <2>1, FS_AddElement
  <2>3. F \in SUBSET S /\ G \in SUBSET T
    BY DEF ShortFailures, Latest
  <2>4. IsFiniteSet(F) /\ IsFiniteSet(G)
    BY <2>1, <2>2, <2>3, FS_Subset
  <2> QED BY <2>1, <2>2, <2>4, FS_CardinalityType
<1>1. History(T) /\ \A t \in T : x.age <= t.age
  BY <1>0 DEF History, Dated
<1>2. Cardinality(RunOf(T, x)) < L /\ Cardinality(RunOf(T, x)) \in Nat /\ IsFiniteSet(RunOf(T, x))
  BY <1>0, <1>1, NewestRun, RunFinite
<1>3. ASSUME NEW s \in F PROVE Cardinality(RunOf(T, s)) < L
  <2>1. s \in S /\ Cardinality(RunOf(S, s)) < L
    BY DEF ShortFailures, Latest
  <2>2. CASE RunOf(T, s) = RunOf(S, s)
    BY <2>1, <2>2
  <2>3. CASE RunOf(T, s) \subseteq RunOf(T, x)
    <3>1. Cardinality(RunOf(T, s)) <= Cardinality(RunOf(T, x))
      BY <1>2, <2>3, FS_Subset
    <3>2. Cardinality(RunOf(T, s)) \in Nat
      BY <1>0, RunFinite
    <3> QED BY <1>2, <3>1, <3>2
  <2>4. RunOf(T, s) = RunOf(S, s) \/ RunOf(T, s) \subseteq RunOf(T, x)
    BY <1>0, <2>1, RunsAdd
  <2> QED BY <2>2, <2>3, <2>4
<1>4. CASE WINDOW = 0
  <2>1. Latest(S, WINDOW) = {}
    <3>1. Cardinality(Latest(S, WINDOW)) <= 0 /\ IsFiniteSet(Latest(S, WINDOW))
      BY <1>0, <1>4, LatestCard, LatestFinite
    <3> QED BY <1>0, <3>1, LatestFinite, FS_EmptySet
  <2>2. F = {}
    BY <2>1 DEF ShortFailures
  <2> QED BY <1>0, <2>2, FS_EmptySet
<1>5. CASE WINDOW # 0
  <2>1. PICK w \in Nat : WINDOW = w + 1
    BY <1>0, <1>5
  <2> DEFINE A == F \cap Latest(S, w)
  <2>2. Latest(T, WINDOW) = Latest(S, w) \cup {x}
    BY <1>0, <2>1, LatestAdd
  <2>3. A \cup {x} \in SUBSET G
    <3>1. x \in G
      BY <1>2, <2>2 DEF ShortFailures
    <3>2. ASSUME NEW s \in A PROVE s \in G
      BY <1>3, <2>2 DEF ShortFailures
    <3> QED BY <3>1, <3>2
  <2>4. PICK m : F \subseteq A \cup {m}
    <3>1. F \subseteq Latest(S, WINDOW)
      BY DEF ShortFailures
    <3>2. CASE Latest(S, w) = S
      BY <3>2 DEF ShortFailures, Latest
    <3>3. CASE Latest(S, w) # S
      <4>1. Cardinality(Latest(S, w)) = w
        BY <3>3, LatestCard
      <4>2. PICK m \in S \ Latest(S, w) : Latest(S, WINDOW) = Latest(S, w) \cup {m}
        BY <2>1, <3>3, <4>1, LatestStep
      <4> QED BY <3>1, <4>2
    <3> QED BY <3>2, <3>3
  <2>5. IsFiniteSet(A) /\ Cardinality(A) \in Nat /\ x \notin A
    <3>1. A \in SUBSET F /\ A \subseteq S
      BY DEF ShortFailures, Latest
    <3> QED BY <1>0, <3>1, FS_Subset, FS_CardinalityType
  <2> HIDE DEF A, F, G
  <2>6. /\ Cardinality(A \cup {x}) = Cardinality(A) + 1 /\ IsFiniteSet(A \cup {m})
        /\ Cardinality(A \cup {m}) <= Cardinality(A) + 1
    <3>1. Cardinality(A \cup {x}) = Cardinality(A) + 1
      BY <2>5, FS_AddElement
    <3>2. /\ IsFiniteSet(A \cup {m})
          /\ Cardinality(A \cup {m}) = IF m \in A THEN Cardinality(A) ELSE Cardinality(A) + 1
      BY <2>5, FS_AddElement
    <3> QED BY <2>5, <3>1, <3>2
  <2>7. Cardinality(A \cup {x}) <= Cardinality(G) /\ Cardinality(F) <= Cardinality(A \cup {m})
    BY <1>0, <2>3, <2>4, <2>6, FS_Subset
  <2>8. Cardinality(A \cup {m}) \in Nat
    BY <2>6, FS_CardinalityType
  <2>9. Cardinality(F) <= Cardinality(G)
    BY <1>0, <2>5, <2>6, <2>7, <2>8
  <2> QED BY <1>0, <2>9 DEF F, G
<1> QED BY <1>4, <1>5

\* An outage goes on with the next failure.
LEMMA OutageLasts ==
    ASSUME NEW S, History(S), NEW x, x.age = 0, x.st = "down", \A s \in S : s.age > 0,
           NEW L \in Nat \ {0}, InOutage(S, L)
    PROVE  InOutage(S \cup {x}, L)
<1>0. Dated(S) /\ IsFiniteSet(S) /\ x \notin S
  BY DEF History, Dated
<1>1. PICK n \in Nat : L = n + 1
  OBVIOUS
<1>2. Latest(S \cup {x}, L) = Latest(S, n) \cup {x}
  BY <1>0, <1>1, LatestAdd
<1>3. Latest(S, n) \subseteq Latest(S, L) /\ Latest(S, n) \subseteq S /\ Latest(S, L) \subseteq S
  BY <1>0, <1>1, LatestMore
<1>4. Cardinality(Latest(S, n)) = n
  <2>1. Latest(S, n) # S
    <3> SUFFICES ASSUME Latest(S, n) = S PROVE FALSE
      OBVIOUS
    <3>1. Latest(S, L) = Latest(S, n)
      BY <1>3
    <3>2. Cardinality(Latest(S, L)) = n + 1
      BY <1>1 DEF InOutage
    <3>3. Cardinality(Latest(S, n)) <= n
      BY LatestCard
    <3> QED BY <3>1, <3>2, <3>3
  <2> QED BY <2>1, LatestCard
<1>5. Cardinality(Latest(S, n) \cup {x}) = n + 1
  <2>1. IsFiniteSet(Latest(S, n)) /\ x \notin Latest(S, n)
    BY <1>0, <1>3, LatestFinite
  <2> QED BY <1>4, <2>1, FS_AddElement
<1>6. \A s \in Latest(S, n) : s.st = "down"
  BY <1>3 DEF InOutage
<1> QED BY <1>1, <1>2, <1>5, <1>6 DEF InOutage

\* What keeps a site on the list of those that answer every other time.
Unsteady(S, L) == InOutage(S, L) \/ Cardinality(ShortFailures(S, L)) > CLEAR

LEMMA FlakyIsUnsteady ==
    ASSUME NEW S, History(S), NEW L, NEW was \in BOOLEAN, IsFlaky(S, L, was)
    PROVE  Unsteady(S, L)
<1>1. Cardinality(ShortFailures(S, L)) \in Nat
  <2>1. ShortFailures(S, L) \in SUBSET S
    BY DEF ShortFailures, Latest
  <2> QED BY <2>1, FS_Subset, FS_CardinalityType DEF History, Dated
<1> QED BY <1>1, FlapConstants DEF IsFlaky, Unsteady

\* "Stable again" is never the verdict of a check that failed: a site that answers
\* every other time still does after one more failure (is_flaky with was = True).
THEOREM FailureStaysFlaky ==
    ASSUME NEW S, History(S), NEW x, x.age = 0, x.st = "down", \A s \in S : s.age > 0,
           NEW L \in Nat \ {0}, Unsteady(S, L)
    PROVE  IsFlaky(S \cup {x}, L, TRUE)
<1>1. CASE InOutage(S \cup {x}, L)
  BY <1>1 DEF IsFlaky
<1>2. CASE ~InOutage(S \cup {x}, L)
  <2>1. Cardinality(ShortFailures(S, L)) > CLEAR
    BY <1>2, OutageLasts DEF Unsteady
  <2>2. Cardinality(ShortFailures(S \cup {x}, L)) >= Cardinality(ShortFailures(S, L))
    BY <1>2, FailureCounts
  <2>3. /\ Cardinality(ShortFailures(S, L)) \in Nat
        /\ Cardinality(ShortFailures(S \cup {x}, L)) \in Nat
    <3>1. ShortFailures(S, L) \in SUBSET S /\ ShortFailures(S \cup {x}, L) \in SUBSET (S \cup {x})
      BY DEF ShortFailures, Latest
    <3>2. IsFiniteSet(S) /\ IsFiniteSet(S \cup {x})
      BY FS_AddElement DEF History, Dated
    <3> QED BY <3>1, <3>2, FS_Subset, FS_CardinalityType
  <2>4. Cardinality(ShortFailures(S \cup {x}, L)) > CLEAR
    BY <2>1, <2>2, <2>3, FlapConstants
  <2> QED BY <1>2, <2>4 DEF IsFlaky
<1> QED BY <1>1, <1>2

-----------------------------------------------------------------------------
(* A history that is cut, and one that grows older.                        *)

\* A piece that ends at a good sample, or is the whole: what it shows, all shows.
LEMMA CutUnsteady ==
    ASSUME NEW S, History(S), NEW Q, Piece(Q, S), NEW L \in Nat,
           Q = S \/ \E u \in S \ Q : u.st # "down" /\ \A t \in S \ Q : u.age <= t.age,
           Unsteady(Q, L)
    PROVE  Unsteady(S, L)
<1>0. /\ Dated(S) /\ IsFiniteSet(S) /\ IsFiniteSet(Q) /\ Q \subseteq S /\ WINDOW \in Nat
      /\ \A s \in Q : Newer(Q, s) = Newer(S, s)
  BY PieceFacts, FlapConstants DEF Piece
<1>1. CASE Q = S
  BY <1>1
<1>2. CASE Q # S
  <2>1. PICK u \in S \ Q : u.st # "down" /\ \A t \in S \ Q : u.age <= t.age
    BY <1>2
  <2>2. ASSUME NEW s \in Q PROVE RunOf(S, s) = RunOf(Q, s)
    <3>1. RunOf(Q, s) = RunOf(S, s) \cap Q
      BY <1>0, RunInPiece
    <3>2. ASSUME NEW t \in RunOf(S, s) PROVE t \in Q
      <4> SUFFICES ASSUME t \notin Q PROVE FALSE
        OBVIOUS
      <4>1. t \in S /\ u.age <= t.age
        BY <2>1 DEF RunOf
      <4>2. s.age < u.age /\ s.age \in Nat /\ u.age \in Nat
        BY <1>0, PieceOlder DEF Dated
      <4>3. u.age >= s.age
        BY <4>2
      <4> QED BY <2>1, <4>1, <4>3 DEF RunOf
    <3> QED BY <3>1, <3>2
  <2>3. Latest(Q, WINDOW) \subseteq Latest(S, WINDOW) /\ Latest(Q, L) \subseteq Latest(S, L)
    BY <1>0 DEF Latest
  <2>4. ShortFailures(Q, L) \subseteq ShortFailures(S, L)
    BY <2>2, <2>3 DEF ShortFailures, Latest
  <2>5. Cardinality(ShortFailures(Q, L)) <= Cardinality(ShortFailures(S, L))
    <3>1. ShortFailures(S, L) \in SUBSET S
      BY DEF ShortFailures, Latest
    <3>2. IsFiniteSet(ShortFailures(S, L))
      BY <1>0, <3>1, FS_Subset
    <3> QED BY <2>4, <3>2, FS_Subset
  <2>6. /\ Cardinality(ShortFailures(Q, L)) \in Nat
        /\ Cardinality(ShortFailures(S, L)) \in Nat
    <3>1. ShortFailures(S, L) \in SUBSET S /\ ShortFailures(Q, L) \in SUBSET Q
      BY DEF ShortFailures, Latest
    <3> QED BY <1>0, <3>1, FS_Subset, FS_CardinalityType
  <2>7. CASE InOutage(Q, L)
    <3>1. Cardinality(Q) >= L
      <4>1. Latest(Q, L) \in SUBSET Q /\ Cardinality(Latest(Q, L)) = L
        BY <2>7 DEF InOutage, Latest
      <4> QED BY <1>0, <4>1, FS_Subset
    <3>2. Latest(Q, L) = Latest(S, L)
      BY <3>1, PieceLatest
    <3> QED BY <2>7, <3>2 DEF InOutage, Unsteady
  <2>8. CASE Cardinality(ShortFailures(Q, L)) > CLEAR
    BY <2>5, <2>6, <2>8, FlapConstants DEF Unsteady
  <2> QED BY <2>7, <2>8 DEF Unsteady
<1> QED BY <1>1, <1>2

Aged(S, d) == {[age |-> s.age + d, st |-> s.st] : s \in S}

\* Growing older, nothing changes but the ages.
LEMMA AgedUnsteady ==
    ASSUME NEW S, History(S), NEW d \in Nat, NEW L \in Nat
    PROVE  /\ History(Aged(S, d)) /\ (Unsteady(Aged(S, d), L) <=> Unsteady(S, L))
           /\ \A s \in S : Cardinality(Newer(Aged(S, d), [age |-> s.age + d, st |-> s.st]))
                             = Cardinality(Newer(S, s))
<1> DEFINE A == Aged(S, d)
           f(s) == [age |-> s.age + d, st |-> s.st]
           Im(B) == {f(s) : s \in B}
<1>0. Dated(S) /\ IsFiniteSet(S) /\ A = Im(S) /\ \A s \in S : s.age \in Nat
  BY DEF History, Dated, Aged
<1>1. ASSUME NEW s \in S, NEW t \in S
      PROVE  /\ f(s).age < f(t).age <=> s.age < t.age
             /\ f(s).age <= f(t).age <=> s.age <= t.age
             /\ f(s) = f(t) => s = t
             /\ f(s).st = s.st /\ f(s).age \in Nat
  <2>1. s.age \in Nat /\ t.age \in Nat /\ (s.age = t.age => s = t)
    BY <1>0 DEF History
  <2> QED BY <2>1
<1>2. ASSUME NEW B, B \subseteq S PROVE Cardinality(Im(B)) = Cardinality(B)
  <2> DEFINE g == [s \in B |-> f(s)]
  <2>1. g \in Surjection(B, Im(B))
    BY DEF Surjection
  <2>2. g \in Injection(B, Im(B))
    <3>1. g \in [B -> Im(B)] /\ \A s, t \in B : g[s] = g[t] => s = t
      BY <1>1, <1>2
    <3> HIDE DEF g, f
    <3> QED BY <3>1 DEF Injection, IsInjective
  <2>3. IsFiniteSet(B)
    BY <1>0, <1>2, FS_Subset
  <2> HIDE DEF g, Im
  <2> QED BY <2>1, <2>2, <2>3, FS_Surjection
<1>3. IsFiniteSet(A)
  <2> DEFINE g == [s \in S |-> f(s)]
  <2>1. g \in Surjection(S, A)
    BY <1>0 DEF Surjection
  <2> HIDE DEF g, A
  <2> QED BY <1>0, <2>1, FS_Surjection
<1>4. History(A)
  BY <1>0, <1>1, <1>3 DEF History, Dated
<1>5. ASSUME NEW s \in S PROVE Newer(A, f(s)) = Im(Newer(S, s))
  BY <1>0, <1>1 DEF Newer
<1>6. ASSUME NEW s \in S PROVE Cardinality(Newer(A, f(s))) = Cardinality(Newer(S, s))
  <2>1. Newer(S, s) \subseteq S
    BY DEF Newer
  <2> HIDE DEF A, f, Im
  <2> QED BY <1>2, <1>5, <2>1
<1>7. ASSUME NEW n PROVE Latest(A, n) = Im(Latest(S, n))
  <2> HIDE DEF f
  <2> QED BY <1>0, <1>6 DEF Latest
<1>8. ASSUME NEW s \in S PROVE RunOf(A, f(s)) = Im(RunOf(S, s))
  <2>1. ASSUME NEW t \in S PROVE f(t) \in RunOf(A, f(s)) <=> t \in RunOf(S, s)
    <3>1. f(t) \in A
      BY <1>0
    <3>2. ASSUME NEW u \in S
          PROVE  /\ f(u).st = u.st
                 /\ ((f(u).age >= f(s).age /\ f(u).age <= f(t).age)
                        \/ (f(u).age >= f(t).age /\ f(u).age <= f(s).age))
                    <=> ((u.age >= s.age /\ u.age <= t.age) \/ (u.age >= t.age /\ u.age <= s.age))
      <4>1. u.age \in Nat /\ s.age \in Nat /\ t.age \in Nat
        BY <1>0
      <4> QED BY <4>1
    <3> HIDE DEF f
    <3> QED BY <1>0, <3>1, <3>2 DEF RunOf
  <2>2. RunOf(A, f(s)) \subseteq A /\ RunOf(S, s) \subseteq S
    BY DEF RunOf
  <2> HIDE DEF f
  <2> QED BY <1>0, <2>1, <2>2
<1>9. ASSUME NEW s \in S PROVE Cardinality(RunOf(A, f(s))) = Cardinality(RunOf(S, s))
  <2>1. RunOf(S, s) \subseteq S
    BY DEF RunOf
  <2> HIDE DEF A, f, Im
  <2> QED BY <1>2, <1>8, <2>1
<1>10. ShortFailures(A, L) = Im(ShortFailures(S, L))
  <2>1. ASSUME NEW s \in S PROVE f(s).st = s.st
    OBVIOUS
  <2>2. Latest(A, WINDOW) = Im(Latest(S, WINDOW)) /\ Latest(S, WINDOW) \subseteq S
    BY <1>7 DEF Latest
  <2> HIDE DEF A, f
  <2> QED BY <1>9, <2>1, <2>2 DEF ShortFailures
<1>11. Cardinality(ShortFailures(A, L)) = Cardinality(ShortFailures(S, L))
  <2>1. ShortFailures(S, L) \subseteq S
    BY DEF ShortFailures, Latest
  <2> HIDE DEF A, f, Im
  <2> QED BY <1>2, <1>10, <2>1
<1>12. InOutage(A, L) <=> InOutage(S, L)
  <2>1. Latest(A, L) = Im(Latest(S, L)) /\ Latest(S, L) \subseteq S
    BY <1>7 DEF Latest
  <2>2. Cardinality(Latest(A, L)) = Cardinality(Latest(S, L))
    <3> HIDE DEF A, f, Im
    <3> QED BY <1>2, <2>1
  <2>3. ASSUME NEW s \in S PROVE f(s).st = s.st
    OBVIOUS
  <2> HIDE DEF A, f
  <2> QED BY <2>1, <2>2, <2>3 DEF InOutage
<1> HIDE DEF A
<1>13. Unsteady(A, L) <=> Unsteady(S, L)
  BY <1>11, <1>12 DEF Unsteady
<1> QED BY <1>4, <1>6, <1>13 DEF A

\* The latest samples, if they are enough, show what all show.
LEMMA LatestUnsteady ==
    ASSUME NEW S, History(S), NEW L \in Nat, NEW n \in Nat, n >= WINDOW + L
    PROVE  Unsteady(Latest(S, n), L) <=> Unsteady(S, L)
<1>0. Dated(S) /\ IsFiniteSet(S) /\ WINDOW \in Nat
  BY FlapConstants DEF History, Dated
<1>1. Piece(Latest(S, n), S)
  BY <1>0, LatestPiece
<1>2. Latest(S, n) = S \/ Cardinality(Latest(S, n)) >= WINDOW + L
  BY LatestCard
<1>3. /\ ShortFailures(Latest(S, n), L) = ShortFailures(S, L)
      /\ InOutage(Latest(S, n), L) <=> InOutage(S, L)
  BY <1>1, <1>2, PieceVerdict
<1> QED BY <1>3 DEF Unsteady

\* A new sample, newer than the others.
LEMMA HistoryAdd ==
    ASSUME NEW S, History(S), NEW x, x.age = 0, \A s \in S : s.age > 0
    PROVE  History(S \cup {x})
<1>1. IsFiniteSet(S \cup {x})
  BY FS_AddElement DEF History, Dated
<1> QED BY <1>1 DEF History, Dated

-----------------------------------------------------------------------------
(* A loop over a list has a result after each of its elements.  FoldLeft  *)
(* is a recursive function on sets of indices: that it is one is shown    *)
(* once, for a step that is a function, and used for every loop.          *)

\* Induction over the natural numbers, of a set.
LEMMA NatSet ==
    ASSUME NEW X, 0 \in X, \A k \in Nat : k \in X => k + 1 \in X
    PROVE  Nat \subseteq X
<1> SUFFICES ASSUME ~(Nat \subseteq X) PROVE FALSE
  OBVIOUS
<1> DEFINE B == Nat \ X
<1>1. B \subseteq Nat /\ B # {}
  OBVIOUS
<1>2. PICK m \in B : \A y \in B : ~(<<y, m>> \in OpToRel(<, Nat))
  <2> HIDE DEF OpToRel, B
  <2> QED BY <1>1, NatLessThanWellFounded, WFMin
<1>3. m \in Nat /\ m \notin X /\ m # 0
  OBVIOUS
<1>4. m - 1 \in Nat /\ m = (m - 1) + 1 /\ m - 1 < m
  BY <1>3
<1>5. m - 1 \in X
  <2>1. <<m - 1, m>> \in OpToRel(<, Nat)
    BY <1>3, <1>4 DEF OpToRel
  <2> QED BY <1>2, <1>4, <2>1
<1> QED BY <1>3, <1>4, <1>5

\* The largest of some indices.
LEMMA MaxOf ==
    ASSUME NEW n \in Nat, NEW s \in SUBSET (1..n), s # {}
    PROVE  Max(s) \in s /\ \A y \in s : Max(s) >= y
<1> DEFINE X == {k \in Nat : \A r \in SUBSET (1..k) : r # {} => \E x \in r : \A y \in r : x >= y}
<1>1. 0 \in X
  <2>1. 1..0 = {}
    OBVIOUS
  <2> QED BY <2>1
<1>2. ASSUME NEW k \in Nat, k \in X PROVE k + 1 \in X
  <2> SUFFICES ASSUME NEW r \in SUBSET (1..(k + 1)), r # {} PROVE \E x \in r : \A y \in r : x >= y
    OBVIOUS
  <2>1. CASE k + 1 \in r
    BY <2>1
  <2>2. CASE k + 1 \notin r
    <3>1. r \in SUBSET (1..k)
      BY <2>2
    <3> QED BY <3>1, <1>2
  <2> QED BY <2>1, <2>2
<1> HIDE DEF X
<1>3. n \in X
  BY <1>1, <1>2, NatSet
<1>4. \E x \in s : \A y \in s : x >= y
  BY <1>3 DEF X
<1> QED BY <1>4 DEF Max

\* The larger of two numbers.
LEMMA MaxPair ==
    ASSUME NEW a \in Int, NEW b \in Int
    PROVE  Max({a, b}) = IF a >= b THEN a ELSE b
BY DEF Max

\* The largest index of a prefix, and the prefix without it.
LEMMA TopOfInterval ==
    ASSUME NEW k \in Nat, k # 0
    PROVE  1..k # {} /\ Max(1..k) = k /\ (1..k) \ {k} = 1..(k - 1)
<1>1. 1..k # {} /\ 1..k \in SUBSET (1..k) /\ k \in 1..k
  OBVIOUS
<1>2. Max(1..k) \in 1..k /\ Max(1..k) >= k
  BY <1>1, MaxOf
<1> QED BY <1>1, <1>2

\* What a run adds to the counts.
LEMMA ShortStepIs ==
    ASSUME NEW acc, NEW r, r[1] \in Int, r[2] \in Int, NEW lo \in Int
    PROVE  LET m == IF r[1] - r[2] >= lo THEN r[1] - r[2] ELSE lo
           IN  ShortStep(acc, r, lo) = IF r[2] >= Thr \/ r[1] - m <= 0 THEN acc
                                       ELSE <<acc[1] + (r[1] - m), acc[2] + 1>>
<1> DEFINE d == r[1] - r[2]
<1>1. d \in Int
  OBVIOUS
<1>2. Max({d, lo}) = IF d >= lo THEN d ELSE lo
  <2> HIDE DEF d
  <2> QED BY <1>1, MaxPair
<1> DEFINE m == Max({d, lo})
<1>3. ShortStep(acc, r, lo) = IF r[2] >= Thr \/ r[1] - m <= 0 THEN acc
                              ELSE <<acc[1] + (r[1] - m), acc[2] + 1>>
  BY DEF ShortStep
<1> HIDE DEF m
<1> QED BY <1>2, <1>3 DEF m

\* f holds the result of a loop for every set of indices it may have gone through
Folds(f, n, base, step) ==
    \A s \in SUBSET (1..n) : f[s] = IF s = {} THEN base ELSE step[<<f[s \ {Max(s)}], Max(s)>>]

\* A loop over n samples goes through: it has a result after any of them.
LEMMA FoldRuns ==
    ASSUME NEW n \in Nat, NEW A, NEW base \in A, NEW step \in [A \X (1..n) -> A]
    PROVE  \E f \in [SUBSET (1..n) -> A] : Folds(f, n, base, step)
<1> DEFINE Fits(f, s) == f[s] = IF s = {} THEN base ELSE step[<<f[s \ {Max(s)}], Max(s)>>]
           Whole(k) == \E f \in [SUBSET (1..k) -> A] : \A s \in SUBSET (1..k) : Fits(f, s)
           X == {k \in Nat : k <= n => Whole(k)}
<1>1. 0 \in X
  <2> DEFINE f == [s \in SUBSET (1..0) |-> base]
  <2>1. \A s \in SUBSET (1..0) : s = {} /\ f[s] = base
    OBVIOUS
  <2>2. f \in [SUBSET (1..0) -> A]
    OBVIOUS
  <2> QED BY <2>1, <2>2
<1>2. ASSUME NEW k \in Nat, k \in X PROVE k + 1 \in X
  <2> SUFFICES ASSUME k + 1 <= n PROVE Whole(k + 1)
    <3> HIDE DEF Whole
    <3> QED OBVIOUS
  <2>1. PICK f \in [SUBSET (1..k) -> A] : \A s \in SUBSET (1..k) : Fits(f, s)
    <3>1. Whole(k)
      <4> HIDE DEF Whole
      <4> QED BY <1>2
    <3> HIDE DEF Fits
    <3> QED BY <3>1
  <2> DEFINE g == [s \in SUBSET (1..(k + 1)) |->
                      IF k + 1 \in s THEN step[<<f[s \ {k + 1}], k + 1>>] ELSE f[s]]
  <2>2. ASSUME NEW s \in SUBSET (1..(k + 1)) PROVE s \ {k + 1} \in SUBSET (1..k)
    OBVIOUS
  <2>3. g \in [SUBSET (1..(k + 1)) -> A]
    <3> SUFFICES ASSUME NEW s \in SUBSET (1..(k + 1))
                 PROVE  (IF k + 1 \in s THEN step[<<f[s \ {k + 1}], k + 1>>] ELSE f[s]) \in A
      OBVIOUS
    <3>1. CASE k + 1 \in s
      <4>1. f[s \ {k + 1}] \in A
        BY <2>1, <2>2
      <4>2. <<f[s \ {k + 1}], k + 1>> \in A \X (1..n)
        BY <4>1
      <4> QED BY <3>1, <4>2
    <3>2. CASE k + 1 \notin s
      <4>1. s \in SUBSET (1..k)
        BY <2>2, <3>2
      <4> QED BY <4>1, <3>2, <2>1
    <3> QED BY <3>1, <3>2
  <2>4. ASSUME NEW s \in SUBSET (1..k) PROVE g[s] = f[s]
    BY k + 1 \notin s, s \in SUBSET (1..(k + 1))
  <2>5. ASSUME NEW s \in SUBSET (1..(k + 1)) PROVE Fits(g, s)
    <3>1. CASE k + 1 \in s
      <4>1. Max(s) = k + 1
        <5>1. s # {} /\ k + 1 \in Nat
          BY <3>1
        <5>2. Max(s) \in s /\ Max(s) >= k + 1
          BY <3>1, <5>1, MaxOf
        <5>3. Max(s) \in 1..(k + 1)
          BY <5>2
        <5> QED BY <5>2, <5>3
      <4>2. g[s \ {k + 1}] = f[s \ {k + 1}]
        BY <2>2, <2>4
      <4>3. g[s] = step[<<f[s \ {k + 1}], k + 1>>]
        BY <3>1
      <4> HIDE DEF g
      <4> QED BY <3>1, <4>1, <4>2, <4>3
    <3>2. CASE k + 1 \notin s
      <4>1. s \in SUBSET (1..k)
        BY <2>2, <3>2
      <4>2. g[s] = f[s] /\ Fits(f, s)
        BY <4>1, <2>1, <2>4
      <4>3. CASE s # {}
        <5>1. s \ {Max(s)} \in SUBSET (1..k)
          BY <4>1
        <5>2. g[s \ {Max(s)}] = f[s \ {Max(s)}]
          BY <5>1, <2>4
        <5> HIDE DEF g
        <5> QED BY <4>2, <4>3, <5>2
      <4>4. CASE s = {}
        <5> HIDE DEF g
        <5> QED BY <4>2, <4>4
      <4> QED BY <4>3, <4>4
    <3> QED BY <3>1, <3>2
  <2> HIDE DEF g, Fits
  <2> QED BY <2>3, <2>5
<1>3. n \in X
  <2> HIDE DEF X
  <2> QED BY <1>1, <1>2, NatSet
<1>4. Whole(n)
  <2> HIDE DEF Whole
  <2> QED BY <1>3 DEF X
<1> QED BY <1>4 DEF Folds

\* site_flap.runs, sample after sample.
LEMMA RunsUnfold ==
    ASSUME NEW n \in Nat, NEW h, DOMAIN h = 1..n, NEW since
    PROVE  \E R : /\ R[0] = [n |-> 0, inside |-> FALSE]
                  /\ \A k \in 1..n : R[k] = RunsStep(R[k - 1], h[k], since)
                  /\ RunsLoop(h, since) = R[n].n
<1> DEFINE A == [n : Nat, inside : BOOLEAN]
           base == [n |-> 0, inside |-> FALSE]
           Op(a, i) == RunsStep(a, h[i], since)
           step == [p \in A \X (1..n) |-> Op(p[1], p[2])]
           iter[s \in SUBSET (DOMAIN h)] ==
               IF s = {} THEN base ELSE Op(iter[s \ {Max(s)}], Max(s))
           All(f) == [s \in SUBSET (DOMAIN h) |->
                         IF s = {} THEN base ELSE Op(f[s \ {Max(s)}], Max(s))]
<1>1. base \in A /\ \A a \in A, i \in 1..n : Op(a, i) \in A
  BY DEF RunsStep
<1>2. RunsLoop(h, since) = iter[DOMAIN h].n
  BY Zenon DEF RunsLoop, FoldLeft, MapThenFoldSet
<1>3. (\E f : f = All(f)) => iter = All(iter)
  BY Zenon
<1> HIDE DEF iter, base, Op, A
<1>4. step \in [A \X (1..n) -> A]
  BY <1>1
<1>5. PICK f \in [SUBSET (1..n) -> A] : Folds(f, n, base, step)
  <2> HIDE DEF step
  <2> QED BY <1>1, <1>4, FoldRuns
<1>6. ASSUME NEW s \in SUBSET (1..n), s # {}
      PROVE  step[<<f[s \ {Max(s)}], Max(s)>>] = Op(f[s \ {Max(s)}], Max(s))
  <2>1. Max(s) \in 1..n
    BY <1>6, MaxOf
  <2>2. f[s \ {Max(s)}] \in A
    BY <1>5
  <2>3. <<f[s \ {Max(s)}], Max(s)>> \in A \X (1..n)
    BY <2>1, <2>2
  <2> QED BY <2>3
<1>7. f = All(f)
  <2> HIDE DEF step
  <2>1. \A s \in SUBSET (1..n) : f[s] = IF s = {} THEN base ELSE Op(f[s \ {Max(s)}], Max(s))
    BY <1>5, <1>6 DEF Folds
  <2>2. f = [s \in SUBSET (1..n) |-> f[s]]
    BY <1>5
  <2> QED BY <2>1, <2>2
<1>8. \A s \in SUBSET (1..n) :
          iter[s] = IF s = {} THEN base ELSE Op(iter[s \ {Max(s)}], Max(s))
  <2>1. iter = All(iter)
    <3> HIDE DEF All
    <3> QED BY <1>3, <1>7
  <2> QED BY <2>1
<1> DEFINE R == [k \in 0..n |-> iter[1..k]]
<1>9. R[0] = base
  <2>1. 1..0 = {} /\ {} \in SUBSET (1..n) /\ 0 \in 0..n
    OBVIOUS
  <2>2. iter[{}] = base
    BY <2>1, <1>8
  <2> QED BY <2>1, <2>2
<1>10. ASSUME NEW k \in 1..n PROVE R[k] = Op(R[k - 1], k)
  <2>1. 1..k \in SUBSET (1..n) /\ k - 1 \in 0..n /\ k \in 0..n /\ k \in Nat /\ k # 0
    OBVIOUS
  <2>2. 1..k # {} /\ Max(1..k) = k /\ (1..k) \ {k} = 1..(k - 1)
    BY <2>1, TopOfInterval
  <2>3. iter[1..k] = Op(iter[1..(k - 1)], k)
    BY <2>1, <2>2, <1>8
  <2> QED BY <2>1, <2>3
<1>11. R[n] = iter[1..n]
  OBVIOUS
<1> HIDE DEF R
<1>12. WITNESS R
<1> QED BY <1>2, <1>9, <1>10, <1>11 DEF Op, base

\* The first loop of flaky.short_failures, sample after sample.
LEMMA PairsUnfold ==
    ASSUME NEW n \in Nat, NEW h, DOMAIN h = 1..n
    PROVE  \E R : /\ R[0] = [i |-> 0, n |-> 0, runs |-> <<>>]
                  /\ \A k \in 1..n : R[k] = PairsStep(R[k - 1], h[k])
                  /\ PairsLoop(h) = R[n]
<1> DEFINE A == [i : Nat, n : Nat, runs : Seq(Nat \X Nat)]
           base == [i |-> 0, n |-> 0, runs |-> <<>>]
           Op(a, i) == PairsStep(a, h[i])
           step == [p \in A \X (1..n) |-> Op(p[1], p[2])]
           iter[s \in SUBSET (DOMAIN h)] ==
               IF s = {} THEN base ELSE Op(iter[s \ {Max(s)}], Max(s))
           All(f) == [s \in SUBSET (DOMAIN h) |->
                         IF s = {} THEN base ELSE Op(f[s \ {Max(s)}], Max(s))]
<1>1. base \in A /\ \A a \in A, i \in 1..n : Op(a, i) \in A
  BY DEF PairsStep
<1>2. PairsLoop(h) = iter[DOMAIN h]
  BY Zenon DEF PairsLoop, FoldLeft, MapThenFoldSet
<1>3. (\E f : f = All(f)) => iter = All(iter)
  BY Zenon
<1> HIDE DEF iter, base, Op, A
<1>4. step \in [A \X (1..n) -> A]
  BY <1>1
<1>5. PICK f \in [SUBSET (1..n) -> A] : Folds(f, n, base, step)
  <2> HIDE DEF step
  <2> QED BY <1>1, <1>4, FoldRuns
<1>6. ASSUME NEW s \in SUBSET (1..n), s # {}
      PROVE  step[<<f[s \ {Max(s)}], Max(s)>>] = Op(f[s \ {Max(s)}], Max(s))
  <2>1. Max(s) \in 1..n
    BY <1>6, MaxOf
  <2>2. f[s \ {Max(s)}] \in A
    BY <1>5
  <2>3. <<f[s \ {Max(s)}], Max(s)>> \in A \X (1..n)
    BY <2>1, <2>2
  <2> QED BY <2>3
<1>7. f = All(f)
  <2> HIDE DEF step
  <2>1. \A s \in SUBSET (1..n) : f[s] = IF s = {} THEN base ELSE Op(f[s \ {Max(s)}], Max(s))
    BY <1>5, <1>6 DEF Folds
  <2>2. f = [s \in SUBSET (1..n) |-> f[s]]
    BY <1>5
  <2> QED BY <2>1, <2>2
<1>8. \A s \in SUBSET (1..n) :
          iter[s] = IF s = {} THEN base ELSE Op(iter[s \ {Max(s)}], Max(s))
  <2>1. iter = All(iter)
    <3> HIDE DEF All
    <3> QED BY <1>3, <1>7
  <2> QED BY <2>1
<1> DEFINE R == [k \in 0..n |-> iter[1..k]]
<1>9. R[0] = base
  <2>1. 1..0 = {} /\ {} \in SUBSET (1..n) /\ 0 \in 0..n
    OBVIOUS
  <2>2. iter[{}] = base
    BY <2>1, <1>8
  <2> QED BY <2>1, <2>2
<1>10. ASSUME NEW k \in 1..n PROVE R[k] = Op(R[k - 1], k)
  <2>1. 1..k \in SUBSET (1..n) /\ k - 1 \in 0..n /\ k \in 0..n /\ k \in Nat /\ k # 0
    OBVIOUS
  <2>2. 1..k # {} /\ Max(1..k) = k /\ (1..k) \ {k} = 1..(k - 1)
    BY <2>1, TopOfInterval
  <2>3. iter[1..k] = Op(iter[1..(k - 1)], k)
    BY <2>1, <2>2, <1>8
  <2> QED BY <2>1, <2>3
<1>11. R[n] = iter[1..n]
  OBVIOUS
<1> HIDE DEF R
<1>12. WITNESS R
<1> QED BY <1>2, <1>9, <1>10, <1>11 DEF Op, base

\* The second loop, run after run.
LEMMA ShortUnfold ==
    ASSUME NEW n \in Nat, NEW h, DOMAIN h = 1..n, \A k \in 1..n : h[k] \in Nat \X Nat,
           NEW lo \in Nat
    PROVE  \E R : /\ R[0] = <<0, 0>>
                  /\ \A k \in 1..n : R[k] = ShortStep(R[k - 1], h[k], lo)
                  /\ FoldLeft(LAMBDA acc, r : ShortStep(acc, r, lo), <<0, 0>>, h) = R[n]
<1> DEFINE A == Int \X Int
           base == <<0, 0>>
           Op(a, i) == ShortStep(a, h[i], lo)
           step == [p \in A \X (1..n) |-> Op(p[1], p[2])]
           iter[s \in SUBSET (DOMAIN h)] ==
               IF s = {} THEN base ELSE Op(iter[s \ {Max(s)}], Max(s))
           All(f) == [s \in SUBSET (DOMAIN h) |->
                         IF s = {} THEN base ELSE Op(f[s \ {Max(s)}], Max(s))]
<1>1. base \in A /\ \A a \in A, i \in 1..n : Op(a, i) \in A
  <2> SUFFICES ASSUME NEW a \in A, NEW i \in 1..n PROVE ShortStep(a, h[i], lo) \in A
    OBVIOUS
  <2>1. h[i][1] \in Int /\ h[i][2] \in Int /\ lo \in Int
    OBVIOUS
  <2> HIDE DEF base, step, iter, All
  <2> DEFINE m == IF h[i][1] - h[i][2] >= lo THEN h[i][1] - h[i][2] ELSE lo
  <2>2. m \in Int /\ a[1] \in Int /\ a[2] \in Int
    BY <2>1
  <2>3. ShortStep(a, h[i], lo) = IF h[i][2] >= Thr \/ h[i][1] - m <= 0 THEN a
                                 ELSE <<a[1] + (h[i][1] - m), a[2] + 1>>
    <3> HIDE DEF A
    <3> QED BY <2>1, ShortStepIs, Zenon
  <2> DEFINE u == a[1] + (h[i][1] - m)
             v == a[2] + 1
  <2>4. u \in Int /\ v \in Int
    <3>1. \A x, y, z \in Int : x + (y - z) \in Int /\ x + 1 \in Int
      OBVIOUS
    <3> HIDE DEF m, A
    <3> QED BY <2>1, <2>2, <3>1, Zenon
  <2> HIDE DEF m, u, v
  <2>5. ShortStep(a, h[i], lo) = a \/ ShortStep(a, h[i], lo) = <<u, v>>
    BY <2>3 DEF u, v
  <2>6. <<u, v>> \in A
    BY <2>4
  <2> HIDE DEF A
  <2> QED BY <2>5, <2>6
<1>2. FoldLeft(LAMBDA acc, r : ShortStep(acc, r, lo), <<0, 0>>, h) = iter[DOMAIN h]
  BY Zenon DEF FoldLeft, MapThenFoldSet
<1>3. (\E f : f = All(f)) => iter = All(iter)
  BY Zenon
<1> HIDE DEF iter, base, Op, A
<1>4. step \in [A \X (1..n) -> A]
  BY <1>1
<1>5. PICK f \in [SUBSET (1..n) -> A] : Folds(f, n, base, step)
  <2> HIDE DEF step
  <2> QED BY <1>1, <1>4, FoldRuns
<1>6. ASSUME NEW s \in SUBSET (1..n), s # {}
      PROVE  step[<<f[s \ {Max(s)}], Max(s)>>] = Op(f[s \ {Max(s)}], Max(s))
  <2>1. Max(s) \in 1..n
    BY <1>6, MaxOf
  <2>2. f[s \ {Max(s)}] \in A
    BY <1>5
  <2>3. <<f[s \ {Max(s)}], Max(s)>> \in A \X (1..n)
    BY <2>1, <2>2
  <2> QED BY <2>3
<1>7. f = All(f)
  <2> HIDE DEF step
  <2>1. \A s \in SUBSET (1..n) : f[s] = IF s = {} THEN base ELSE Op(f[s \ {Max(s)}], Max(s))
    BY <1>5, <1>6 DEF Folds
  <2>2. f = [s \in SUBSET (1..n) |-> f[s]]
    BY <1>5
  <2> QED BY <2>1, <2>2
<1>8. \A s \in SUBSET (1..n) :
          iter[s] = IF s = {} THEN base ELSE Op(iter[s \ {Max(s)}], Max(s))
  <2>1. iter = All(iter)
    <3> HIDE DEF All
    <3> QED BY <1>3, <1>7
  <2> QED BY <2>1
<1> DEFINE R == [k \in 0..n |-> iter[1..k]]
<1>9. R[0] = base
  <2>1. 1..0 = {} /\ {} \in SUBSET (1..n) /\ 0 \in 0..n
    OBVIOUS
  <2>2. iter[{}] = base
    BY <2>1, <1>8
  <2> QED BY <2>1, <2>2
<1>10. ASSUME NEW k \in 1..n PROVE R[k] = Op(R[k - 1], k)
  <2>1. 1..k \in SUBSET (1..n) /\ k - 1 \in 0..n /\ k \in 0..n /\ k \in Nat /\ k # 0
    OBVIOUS
  <2>2. 1..k # {} /\ Max(1..k) = k /\ (1..k) \ {k} = 1..(k - 1)
    BY <2>1, TopOfInterval
  <2>3. iter[1..k] = Op(iter[1..(k - 1)], k)
    BY <2>1, <2>2, <1>8
  <2> QED BY <2>1, <2>3
<1>11. R[n] = iter[1..n]
  OBVIOUS
<1> HIDE DEF R
<1>12. WITNESS R
<1> QED BY <1>2, <1>9, <1>10, <1>11 DEF Op, base

-----------------------------------------------------------------------------
(* A list of samples, oldest first, and the set of its samples.            *)

Chronicle(h) ==
    /\ h \in Seq([age : Nat, st : Outcomes])
    /\ \A i, j \in DOMAIN h : i < j => h[i].age > h[j].age

SetOf(h) == {h[i] : i \in DOMAIN h}

\* The order of a list is that of the ages.
LEMMA ChronicleFacts ==
    ASSUME NEW h, Chronicle(h)
    PROVE  /\ Len(h) \in Nat /\ DOMAIN h = 1..Len(h)
           /\ \A i \in 1..Len(h) : h[i].age \in Nat /\ h[i] \in SetOf(h)
           /\ \A i, j \in 1..Len(h) : h[i].age > h[j].age <=> i < j
           /\ \A i, j \in 1..Len(h) : h[i].age = h[j].age => i = j
<1>1. Len(h) \in Nat /\ DOMAIN h = 1..Len(h)
  BY DEF Chronicle
<1>2. \A i \in 1..Len(h) : h[i].age \in Nat /\ h[i] \in SetOf(h)
  <2> SUFFICES ASSUME NEW i \in 1..Len(h) PROVE h[i].age \in Nat /\ h[i] \in SetOf(h)
    OBVIOUS
  <2>1. h[i] \in [age : Nat, st : Outcomes]
    BY ElementOfSeq DEF Chronicle
  <2> QED BY <1>1, <2>1 DEF SetOf
<1>3. \A i, j \in 1..Len(h) : i < j => h[i].age > h[j].age
  BY <1>1 DEF Chronicle
<1> QED BY <1>1, <1>2, <1>3

\* As many samples as indices.
LEMMA ImageCard ==
    ASSUME NEW h, Chronicle(h), NEW I \in SUBSET (1..Len(h))
    PROVE  /\ IsFiniteSet(I) /\ Cardinality(I) \in Nat
           /\ IsFiniteSet({h[i] : i \in I}) /\ Cardinality({h[i] : i \in I}) = Cardinality(I)
<1> DEFINE T == {h[i] : i \in I}
           f == [i \in I |-> h[i]]
<1>1. Len(h) \in Nat /\ \A i, j \in 1..Len(h) : h[i] = h[j] => i = j
  BY ChronicleFacts
<1>2. IsFiniteSet(1..Len(h))
  BY <1>1, FS_Interval
<1>3. IsFiniteSet(I) /\ Cardinality(I) \in Nat
  BY <1>2, FS_Subset, FS_CardinalityType
<1>4. f \in [I -> T]
  OBVIOUS
<1>5. \A a, b \in I : f[a] = f[b] => a = b
  BY <1>1
<1>6. \A t \in T : \E s \in I : f[s] = t
  OBVIOUS
<1>7. ExistsBijection(I, T)
  <2> HIDE DEF f, T
  <2>1. f \in Injection(I, T)
    BY <1>4, <1>5, Fun_IsInj
  <2>2. f \in Surjection(I, T)
    BY <1>4, <1>6, Fun_IsSurj
  <2> QED BY <2>1, <2>2 DEF ExistsBijection, Bijection
<1>8. IsFiniteSet(T) /\ Cardinality(T) = Cardinality(I)
  <2> HIDE DEF f, T
  <2> QED BY <1>3, <1>7, FS_Bijection
<1> QED BY <1>3, <1>8

\* The samples of a list are a history.
LEMMA ChronicleSet ==
    ASSUME NEW h, Chronicle(h)
    PROVE  History(SetOf(h)) /\ SetOf(h) = {h[i] : i \in 1..Len(h)}
<1>1. SetOf(h) = {h[i] : i \in 1..Len(h)}
  BY ChronicleFacts DEF SetOf
<1>2. 1..Len(h) \in SUBSET (1..Len(h))
  OBVIOUS
<1>3. IsFiniteSet(SetOf(h))
  BY <1>1, <1>2, ImageCard
<1>4. \A s \in SetOf(h) : \E i \in 1..Len(h) : s = h[i]
  BY <1>1
<1> QED BY <1>1, <1>3, <1>4, ChronicleFacts DEF History, Dated

\* The index of the first of the last m samples of n, less one.
CutAt(n, m) == IF n > m THEN n - m ELSE 0

\* What came after a sample is newer.
LEMMA NewerImage ==
    ASSUME NEW h, Chronicle(h), NEW i \in 1..Len(h)
    PROVE  /\ Newer(SetOf(h), h[i]) = {h[j] : j \in (i + 1)..Len(h)}
           /\ Cardinality(Newer(SetOf(h), h[i])) = Len(h) - i
<1> DEFINE n == Len(h)
<1>1. /\ n \in Nat /\ \A j \in 1..n : h[j].age < h[i].age <=> i < j
      /\ SetOf(h) = {h[j] : j \in 1..n}
  BY ChronicleFacts, ChronicleSet
<1>2. Newer(SetOf(h), h[i]) = {h[j] : j \in (i + 1)..n}
  <2> HIDE DEF n
  <2> QED BY <1>1 DEF Newer
<1>3. (i + 1)..n \in SUBSET (1..n)
  BY <1>1
<1>4. Cardinality((i + 1)..n) = n - i
  BY <1>1, FS_Interval
<1> DEFINE J == (i + 1)..n
<1>5. Cardinality({h[j] : j \in J}) = Cardinality(J)
  <2> HIDE DEF J
  <2>1. J \in SUBSET (1..Len(h))
    BY <1>3 DEF J
  <2> QED BY <2>1, ImageCard
<1> QED BY <1>2, <1>4, <1>5

\* The latest m samples are the last m of the list.
LEMMA LatestImage ==
    ASSUME NEW h, Chronicle(h), NEW m \in Nat
    PROVE  LET lo == CutAt(Len(h), m)
           IN  /\ Latest(SetOf(h), m) = {h[j] : j \in (lo + 1)..Len(h)}
               /\ Cardinality(Latest(SetOf(h), m)) = Len(h) - lo
<1> DEFINE n == Len(h)
           lo == CutAt(n, m)
<1>1. n \in Nat /\ SetOf(h) = {h[j] : j \in 1..n}
  BY ChronicleFacts, ChronicleSet
<1>2. lo \in 0..n /\ \A j \in 1..n : n - j < m <=> j \in (lo + 1)..n
  BY <1>1 DEF CutAt
<1>3. \A j \in 1..n : Cardinality(Newer(SetOf(h), h[j])) = n - j
  BY NewerImage
<1>4. Latest(SetOf(h), m) = {h[j] : j \in (lo + 1)..n}
  <2> HIDE DEF n, lo
  <2>1. ASSUME NEW s \in Latest(SetOf(h), m) PROVE \E j \in (lo + 1)..n : s = h[j]
    <3>1. PICK j \in 1..n : s = h[j]
      BY <1>1 DEF Latest
    <3>2. n - j < m
      BY <3>1, <1>3 DEF Latest
    <3> QED BY <3>1, <3>2, <1>2
  <2>2. ASSUME NEW j \in (lo + 1)..n PROVE h[j] \in Latest(SetOf(h), m)
    <3>1. j \in 1..n
      BY <1>1, <1>2
    <3>2. n - j < m
      BY <3>1, <1>2
    <3>3. h[j] \in SetOf(h)
      BY <3>1, <1>1
    <3> QED BY <3>1, <3>2, <3>3, <1>3 DEF Latest
  <2> QED BY <2>1, <2>2
<1>5. (lo + 1)..n \in SUBSET (1..n) /\ Cardinality((lo + 1)..n) = n - lo
  <2> HIDE DEF n, lo
  <2>1. lo \in Int /\ lo + 1 \in Int /\ n \in Int /\ lo <= n /\ 0 <= lo
    BY <1>1, <1>2
  <2>2. Cardinality((lo + 1)..n) = IF lo + 1 > n THEN 0 ELSE n - (lo + 1) + 1
    BY <2>1, FS_Interval
  <2> QED BY <2>1, <2>2
<1>6. Cardinality(Latest(SetOf(h), m)) = n - lo
  <2> DEFINE J == (lo + 1)..n
  <2> HIDE DEF J
  <2>1. J \in SUBSET (1..Len(h)) /\ Latest(SetOf(h), m) = {h[j] : j \in J} /\ Cardinality(J) = n - lo
    BY <1>4, <1>5 DEF J
  <2>2. Cardinality({h[j] : j \in J}) = Cardinality(J)
    BY <2>1, ImageCard
  <2> QED BY <2>1, <2>2
<1> QED BY <1>4, <1>6

\* h[-m:] is the list of the latest m samples.
LEMMA SliceIs ==
    ASSUME NEW h, Chronicle(h), NEW m \in Nat
    PROVE  LET lo == CutAt(Len(h), m)
           IN  /\ Chronicle(Slice(h, m)) /\ Len(Slice(h, m)) = Len(h) - lo
               /\ \A k \in 1..(Len(h) - lo) : Slice(h, m)[k] = h[lo + k]
               /\ SetOf(Slice(h, m)) = Latest(SetOf(h), m)
<1> DEFINE n == Len(h)
           lo == CutAt(n, m)
           t == Slice(h, m)
<1>1. n \in Nat /\ lo \in 0..n /\ h \in Seq([age : Nat, st : Outcomes])
  BY ChronicleFacts DEF CutAt, Chronicle
<1>2. t = SubSeq(h, lo + 1, n)
  BY <1>1 DEF Slice, CutAt
<1>3. /\ t \in Seq([age : Nat, st : Outcomes]) /\ Len(t) = n - lo
      /\ \A k \in 1..(n - lo) : t[k] = h[lo + k]
  <2> HIDE DEF t, lo, n
  <2>1. lo + 1 \in Int /\ n \in Int /\ \A i \in (lo + 1)..n : h[i] \in [age : Nat, st : Outcomes]
    <3>1. \A i \in (lo + 1)..n : i \in 1..n
      BY <1>1
    <3>2. \A i \in 1..n : h[i] \in [age : Nat, st : Outcomes]
      BY <1>1, ElementOfSeq DEF n
    <3>3. lo + 1 \in Int /\ n \in Int
      BY <1>1
    <3> QED BY <3>1, <3>2, <3>3
  <2>2. /\ SubSeq(h, lo + 1, n) \in Seq([age : Nat, st : Outcomes])
        /\ Len(SubSeq(h, lo + 1, n)) = IF lo + 1 <= n THEN n - (lo + 1) + 1 ELSE 0
        /\ \A i \in 1..(n - (lo + 1) + 1) : SubSeq(h, lo + 1, n)[i] = h[(lo + 1) + i - 1]
    BY <2>1, SubSeqProperties
  <2>3. n - (lo + 1) + 1 = n - lo /\ \A i \in 1..(n - lo) : (lo + 1) + i - 1 = lo + i
    BY <1>1
  <2>4. Len(t) = n - lo
    BY <1>1, <1>2, <2>2
  <2>5. \A i \in 1..(n - lo) : t[i] = h[lo + i]
    BY <1>2, <2>2, <2>3
  <2> QED BY <1>2, <2>2, <2>4, <2>5
<1>4. DOMAIN t = 1..(n - lo)
  <2> HIDE DEF t, lo, n
  <2> QED BY <1>1, <1>3
<1>5. \A i, j \in DOMAIN t : i < j => t[i].age > t[j].age
  <2> HIDE DEF t, lo, n
  <2> SUFFICES ASSUME NEW i \in 1..(n - lo), NEW j \in 1..(n - lo), i < j
               PROVE  t[i].age > t[j].age
    BY <1>4
  <2>1. lo + i \in 1..n /\ lo + j \in 1..n /\ lo + i < lo + j
    BY <1>1
  <2>2. h[lo + i].age > h[lo + j].age
    BY <2>1, ChronicleFacts DEF n
  <2> QED BY <1>3, <2>2
<1>6. SetOf(t) = {h[j] : j \in (lo + 1)..n}
  <2>1. SetOf(t) = {h[lo + k] : k \in 1..(n - lo)}
    <3> HIDE DEF t, lo, n
    <3> QED BY <1>3, <1>4 DEF SetOf
  <2>2. ASSUME NEW j \in (lo + 1)..n PROVE \E k \in 1..(n - lo) : h[j] = h[lo + k]
    <3> HIDE DEF lo, n
    <3>1. j - lo \in 1..(n - lo) /\ lo + (j - lo) = j
      BY <1>1
    <3> QED BY <3>1
  <2>3. ASSUME NEW k \in 1..(n - lo) PROVE lo + k \in (lo + 1)..n
    <3> HIDE DEF lo, n
    <3> QED BY <1>1
  <2> HIDE DEF lo, n, t
  <2> QED BY <2>1, <2>2, <2>3
<1>7. SetOf(t) = Latest(SetOf(h), m)
  BY <1>6, LatestImage
<1> QED BY <1>3, <1>5, <1>7 DEF Chronicle

-----------------------------------------------------------------------------
(* site_flap.runs                                                          *)

\* The sample before one is the one before it in the list.
LEMMA PreviousImage ==
    ASSUME NEW h, Chronicle(h), NEW i \in 1..Len(h)
    PROVE  Previous(SetOf(h), h[i]) = IF i = 1 THEN {} ELSE {h[i - 1]}
<1> DEFINE n == Len(h)
<1>1. n \in Nat /\ SetOf(h) = {h[j] : j \in 1..n}
  BY ChronicleFacts, ChronicleSet
<1>2. \A j, k \in 1..n : h[j].age > h[k].age <=> j < k
  BY ChronicleFacts
<1>3. \A j \in 1..n : h[j].age \in Nat
  BY ChronicleFacts
<1> HIDE DEF n
<1>4. i \in 1..n
  BY DEF n
<1>5. ASSUME NEW j \in 1..n
      PROVE  h[j] \in Previous(SetOf(h), h[i]) <=> j = i - 1
  <2>1. h[j] \in Previous(SetOf(h), h[i]) <=>
            j < i /\ ~\E k \in 1..n : k < i /\ j < k
    <3>1. (\E u \in SetOf(h) : h[i].age < u.age /\ u.age < h[j].age) <=>
              \E k \in 1..n : k < i /\ j < k
      <4>1. ASSUME NEW k \in 1..n
            PROVE  (h[i].age < h[k].age /\ h[k].age < h[j].age) <=> (k < i /\ j < k)
        <5>1. h[i].age < h[k].age <=> k < i
          BY <1>2, <1>3, <1>4
        <5>2. h[k].age < h[j].age <=> j < k
          BY <1>2, <1>3
        <5> QED BY <5>1, <5>2
      <4> QED BY <4>1, <1>1
    <3>2. h[j] \in SetOf(h) /\ (h[j].age > h[i].age <=> j < i)
      BY <1>1, <1>2, <1>4
    <3> QED BY <3>1, <3>2 DEF Previous
  <2>2. ASSUME j < i, j # i - 1 PROVE \E k \in 1..n : k < i /\ j < k
    <3>1. i - 1 \in 1..n /\ i - 1 < i /\ j < i - 1
      BY <2>2, <1>1, <1>4
    <3> QED BY <3>1
  <2> QED BY <2>1, <2>2, <1>1, <1>4
<1>6. \A s \in Previous(SetOf(h), h[i]) : \E j \in 1..n : s = h[j]
  BY <1>1 DEF Previous
<1>7. CASE i = 1
  BY <1>5, <1>6, <1>7
<1>8. CASE i # 1
  <2>1. i - 1 \in 1..n
    BY <1>8, <1>4, <1>1
  <2>2. h[i - 1] \in Previous(SetOf(h), h[i])
    BY <2>1, <1>5
  <2>3. \A s \in Previous(SetOf(h), h[i]) : s = h[i - 1]
    BY <1>5, <1>6
  <2> QED BY <1>8, <2>2, <2>3
<1> QED BY <1>7, <1>8

\* site_flap.runs counts the separate runs of failures of a history.
THEOREM RunsAgree ==
    ASSUME NEW h, Chronicle(h), NEW since \in Nat
    PROVE  RunsLoop(h, since) = FailureRuns(SetOf(h), since)
<1> DEFINE n == Len(h)
           Bad(i) == h[i].age <= since /\ h[i].st # "up"
           Starts(k) == {i \in 1..k : Bad(i) /\ (i = 1 \/ ~Bad(i - 1))}
           F == {s \in SetOf(h) : s.age <= since /\ s.st # "up"}
<1>1. n \in Nat /\ DOMAIN h = 1..n /\ SetOf(h) = {h[j] : j \in 1..n}
  BY ChronicleFacts, ChronicleSet
<1>2. PICK R : /\ R[0] = [n |-> 0, inside |-> FALSE]
               /\ \A k \in 1..n : R[k] = RunsStep(R[k - 1], h[k], since)
               /\ RunsLoop(h, since) = R[n].n
  <2> HIDE DEF n
  <2> QED BY <1>1, RunsUnfold
<1> DEFINE Inside(k) == k # 0 /\ Bad(k)
           Good(k) == R[k] = [n |-> Cardinality(Starts(k)), inside |-> Inside(k)]
           X == {k \in Nat : k <= n => Good(k)}
<1>3. 0 \in X
  <2>1. Starts(0) = {}
    OBVIOUS
  <2>2. Cardinality(Starts(0)) = 0
    BY <2>1, FS_EmptySet
  <2> HIDE DEF Starts
  <2> QED BY <1>2, <2>2
<1>4. ASSUME NEW k \in Nat, k \in X PROVE k + 1 \in X
  <2> SUFFICES ASSUME k + 1 <= n PROVE Good(k + 1)
    <3> HIDE DEF Good
    <3> QED OBVIOUS
  <2>1. Good(k)
    <3> HIDE DEF Good
    <3> QED BY <1>1, <1>4
  <2>2. k + 1 \in 1..n /\ (k + 1) - 1 = k
    BY <1>1
  <2>3. R[k + 1] = RunsStep(R[k], h[k + 1], since)
    BY <2>2, <1>2
  <2>4. IsFiniteSet(Starts(k)) /\ k + 1 \notin Starts(k)
    <3>1. Starts(k) \in SUBSET (1..k) /\ IsFiniteSet(1..k)
      BY FS_Interval
    <3> QED BY <3>1, FS_Subset
  <2>5. Starts(k + 1) = IF Bad(k + 1) /\ ~Inside(k) THEN Starts(k) \cup {k + 1} ELSE Starts(k)
    <3> HIDE DEF Bad
    <3>1. 1..(k + 1) = (1..k) \cup {k + 1}
      OBVIOUS
    <3>2. k + 1 = 1 <=> k = 0
      OBVIOUS
    <3> QED BY <3>1, <3>2
  <2>6. Cardinality(Starts(k + 1)) =
            IF Bad(k + 1) /\ ~Inside(k) THEN Cardinality(Starts(k)) + 1 ELSE Cardinality(Starts(k))
    <3> HIDE DEF Starts, Bad, Inside
    <3> QED BY <2>4, <2>5, FS_AddElement
  <2>7. h[k + 1].age > since => ~Inside(k)
    <3> SUFFICES ASSUME h[k + 1].age > since, k # 0 PROVE ~(h[k].age <= since)
      OBVIOUS
    <3>1. k \in 1..n /\ k < k + 1
      BY <1>1
    <3>2. h[k].age > h[k + 1].age /\ h[k].age \in Nat /\ h[k + 1].age \in Nat
      BY <2>2, <3>1, ChronicleFacts
    <3> QED BY <3>2
  <2>8. h[k + 1].age \in Nat /\ k + 1 # 0
    BY <2>2, ChronicleFacts
  <2> DEFINE c == Cardinality(Starts(k))
             c1 == Cardinality(Starts(k + 1))
             in == Inside(k)
  <2>9. R[k].n = c /\ R[k].inside = in /\ R[k] = [n |-> c, inside |-> in] /\ in \in BOOLEAN
    <3> HIDE DEF Starts
    <3> QED BY <2>1
  <2>10. c1 = IF h[k + 1].age <= since /\ h[k + 1].st # "up" /\ ~in THEN c + 1 ELSE c
    <3> HIDE DEF Starts, Inside
    <3> QED BY <2>6
  <2>11. Inside(k + 1) = (h[k + 1].age <= since /\ h[k + 1].st # "up")
    BY <2>8
  <2>12. h[k + 1].age > since => in = FALSE
    BY <2>7
  <2> HIDE DEF Starts, Inside, c, c1, in
  <2>13. R[k + 1] = [n |-> c1, inside |-> Inside(k + 1)]
    <3>1. CASE h[k + 1].age > since
      <4>1. R[k + 1] = R[k] /\ c1 = c /\ Inside(k + 1) = FALSE /\ in = FALSE
        <5>1. R[k + 1] = R[k]
          BY <2>3, <3>1 DEF RunsStep
        <5>2. ~(h[k + 1].age <= since)
          BY <2>8, <3>1
        <5>3. Inside(k + 1) = FALSE
          BY <2>11, <5>2
        <5>4. c1 = c
          BY <2>10, <5>2
        <5> QED BY <5>1, <5>3, <5>4, <2>12, <3>1
      <4> QED BY <4>1, <2>9
    <3>2. CASE h[k + 1].age <= since /\ h[k + 1].st # "up"
      <4>1. R[k + 1] = [n |-> IF in THEN c ELSE c + 1, inside |-> TRUE]
        BY <2>3, <2>8, <2>9, <3>2 DEF RunsStep
      <4>2. Inside(k + 1) = TRUE
        BY <2>11, <3>2
      <4>3. c1 = IF in THEN c ELSE c + 1
        BY <2>10, <3>2
      <4> QED BY <4>1, <4>2, <4>3
    <3>3. CASE h[k + 1].age <= since /\ h[k + 1].st = "up"
      <4>1. R[k + 1] = [n |-> c, inside |-> FALSE]
        BY <2>3, <2>8, <2>9, <3>3 DEF RunsStep
      <4>2. Inside(k + 1) = FALSE /\ c1 = c
        BY <2>10, <2>11, <3>3
      <4> QED BY <4>1, <4>2
    <3> QED BY <3>1, <3>2, <3>3, <2>8
  <2> QED BY <2>13 DEF c1
<1>5. n \in X
  <2> HIDE DEF X, n
  <2> QED BY <1>1, <1>3, <1>4, NatSet
<1>6. RunsLoop(h, since) = Cardinality(Starts(n))
  <2> HIDE DEF Starts, Inside, n
  <2> QED BY <1>1, <1>2, <1>5
<1>7. {s \in F : Previous(SetOf(h), s) \cap F = {}} = {h[i] : i \in Starts(n)}
  <2>1. ASSUME NEW i \in 1..n
        PROVE  (h[i] \in F /\ Previous(SetOf(h), h[i]) \cap F = {}) <=> i \in Starts(n)
    <3>1. h[i] \in F <=> Bad(i)
      BY <1>1
    <3>2. CASE i = 1
      <4>1. Previous(SetOf(h), h[i]) = {}
        BY <3>2, PreviousImage
      <4> QED BY <3>1, <3>2, <4>1
    <3>3. CASE i # 1
      <4>1. Previous(SetOf(h), h[i]) = {h[i - 1]} /\ i - 1 \in 1..n
        <5>1. Previous(SetOf(h), h[i]) = {h[i - 1]}
          BY <3>3, PreviousImage
        <5>2. i - 1 \in 1..n
          <6> HIDE DEF n
          <6> QED BY <1>1, <3>3
        <5> QED BY <5>1, <5>2
      <4>2. h[i - 1] \in F <=> Bad(i - 1)
        BY <1>1, <4>1
      <4>3. Previous(SetOf(h), h[i]) \cap F = {} <=> ~Bad(i - 1)
        <5> HIDE DEF F, Bad
        <5> QED BY <4>1, <4>2
      <4> HIDE DEF F, Bad
      <4> QED BY <3>1, <3>3, <4>3
    <3> QED BY <3>2, <3>3
  <2>2. \A s \in F : \E i \in 1..n : s = h[i]
    BY <1>1
  <2>3. Starts(n) \subseteq 1..n
    OBVIOUS
  <2> HIDE DEF F, Starts, n
  <2> QED BY <2>1, <2>2, <2>3
<1>8. Cardinality({h[i] : i \in Starts(n)}) = Cardinality(Starts(n))
  <2>1. Starts(n) \in SUBSET (1..Len(h))
    OBVIOUS
  <2> DEFINE I == Starts(n)
  <2>i. I \in SUBSET (1..Len(h))
    BY <2>1
  <2> HIDE DEF I
  <2>2. Cardinality({h[i] : i \in I}) = Cardinality(I)
    BY <2>i, ImageCard
  <2> QED BY <2>2 DEF I
<1>9. FailureRuns(SetOf(h), since) = Cardinality({s \in F : Previous(SetOf(h), s) \cap F = {}})
  BY DEF FailureRuns
<1> HIDE DEF F, Starts, n
<1> QED BY <1>6, <1>7, <1>8, <1>9

-----------------------------------------------------------------------------
(* The last samples of the list: site_flap.stable and flaky.in_outage.     *)

\* All of the last m samples have status st.
LEMMA TailAgrees ==
    ASSUME NEW h, Chronicle(h), NEW m \in Nat, NEW st
    PROVE  /\ Len(Slice(h, m)) = Cardinality(Latest(SetOf(h), m))
           /\ Len(Slice(h, m)) \in Nat /\ Len(Slice(h, m)) <= m
           /\ (\A i \in DOMAIN Slice(h, m) : Slice(h, m)[i].st = st) <=>
                  \A s \in Latest(SetOf(h), m) : s.st = st
<1> DEFINE t == Slice(h, m)
<1>1. Len(h) \in Nat /\ CutAt(Len(h), m) \in 0..Len(h) /\ Len(h) - CutAt(Len(h), m) <= m
  BY ChronicleFacts DEF CutAt
<1>2. Len(t) = Len(h) - CutAt(Len(h), m) /\ SetOf(t) = Latest(SetOf(h), m)
  BY SliceIs
<1>3. Cardinality(Latest(SetOf(h), m)) = Len(h) - CutAt(Len(h), m)
  BY LatestImage
<1>4. (\A i \in DOMAIN t : t[i].st = st) <=> \A s \in SetOf(t) : s.st = st
  BY DEF SetOf
<1> QED BY <1>1, <1>2, <1>3, <1>4

\* The youngest of several ages.
LEMMA MinIs ==
    ASSUME NEW T \in SUBSET Nat, T # {}, NEW k \in Nat
    PROVE  Min(T) >= k <=> \A a \in T : a >= k
<1>1. PICK a \in T : \A b \in T : ~(<<b, a>> \in OpToRel(<, Nat))
  <2> HIDE DEF OpToRel
  <2> QED BY NatLessThanWellFounded, WFMin
<1>2. \A b \in T : a <= b
  <2>1. a \in Nat /\ \A b \in T : b \in Nat
    OBVIOUS
  <2>2. \A b \in T : ~(b < a)
    BY <1>1, <2>1 DEF OpToRel
  <2> QED BY <2>1, <2>2
<1>3. Min(T) \in T /\ \A b \in T : Min(T) <= b
  BY <1>2 DEF Min
<1>4. Min(T) \in Nat /\ \A b \in T : b \in Nat
  BY <1>3
<1> QED BY <1>3, <1>4

\* site_flap.stable asks what its definition on sets asks.
THEOREM StableAgree ==
    ASSUME NEW h, Chronicle(h)
    PROVE  StableLoop(h) = Stable(SetOf(h))
<1> DEFINE t == Slice(h, STABLE_N)
           downs == {h[i].age : i \in {i \in DOMAIN h : h[i].st = "down"}}
<1>1. STABLE_N \in Nat /\ STABLE \in Nat
  BY FlapConstants
<1>2. Len(t) >= STABLE_N <=> Cardinality(Latest(SetOf(h), STABLE_N)) = STABLE_N
  BY <1>1, TailAgrees
<1>3. (\A i \in DOMAIN t : t[i].st = "up") <=> \A s \in Latest(SetOf(h), STABLE_N) : s.st = "up"
  BY <1>1, TailAgrees
<1>4. (\A a \in downs : a >= STABLE) <=> \A s \in SetOf(h) : s.st = "down" => s.age >= STABLE
  BY DEF SetOf
<1>5. downs \in SUBSET Nat
  BY ChronicleFacts
<1>6. (downs = {} \/ Min(downs) >= STABLE) <=> \A a \in downs : a >= STABLE
  <2> HIDE DEF downs
  <2>1. CASE downs = {}
    BY <2>1
  <2>2. CASE downs # {}
    BY <1>1, <1>5, <2>2, MinIs
  <2> QED BY <2>1, <2>2
<1>7. StableLoop(h) = (/\ Len(t) >= STABLE_N
                       /\ \A i \in DOMAIN t : t[i].st = "up"
                       /\ downs = {} \/ Min(downs) >= STABLE)
  BY DEF StableLoop
<1> HIDE DEF t, downs
<1> QED BY <1>2, <1>3, <1>4, <1>6, <1>7 DEF Stable

\* flaky.in_outage asks what its definition on sets asks.
LEMMA OutageAgree ==
    ASSUME NEW h, Chronicle(h)
    PROVE  OutageLoop(h) <=> InOutage(SetOf(h), Thr)
<1>1. Thr \in Nat
  BY LoopConstants
<1> QED BY <1>1, TailAgrees DEF OutageLoop, InOutage

-----------------------------------------------------------------------------
(* flaky.short_failures, first loop: the runs of failures.                 *)

\* A run of l failures ends at e: nothing before it or after it belongs to it.
IsRun(h, e, l) ==
    /\ e \in 1..Len(h) /\ l \in 1..e
    /\ \A j \in (e - l + 1)..e : h[j].st = "down"
    /\ e - l > 0 => h[e - l].st # "down"
    /\ e < Len(h) => h[e + 1].st # "down"

\* rs lists the runs that end at u or before, in their order.
Listed(h, u, rs) ==
    /\ rs \in Seq(Nat \X Nat)
    /\ \A m \in 1..Len(rs) : IsRun(h, rs[m][1], rs[m][2]) /\ rs[m][1] <= u
    /\ \A m, p \in 1..Len(rs) : m < p => rs[m][1] <= rs[p][1] - rs[p][2]
    /\ \A j \in 1..u : h[j].st = "down" =>
           \E m \in 1..Len(rs) : rs[m][1] - rs[m][2] < j /\ j <= rs[m][1]

\* An answer after the runs listed adds none.
LEMMA ListedMore ==
    ASSUME NEW h, NEW u \in Nat, NEW rs, Listed(h, u, rs), h[u + 1].st # "down"
    PROVE  Listed(h, u + 1, rs)
<1>1. \A m \in 1..Len(rs) : rs[m][1] <= u + 1
  BY DEF Listed, IsRun
<1>2. ASSUME NEW j \in 1..(u + 1), h[j].st = "down" PROVE j \in 1..u
  BY <1>2
<1> QED BY <1>1, <1>2 DEF Listed

\* The next run is added at the end.
LEMMA ListedAppend ==
    ASSUME NEW h, NEW e, NEW l, NEW rs, Len(h) \in Nat, IsRun(h, e, l), Listed(h, e - l, rs)
    PROVE  Listed(h, e, Append(rs, <<e, l>>))
<1> DEFINE ts == Append(rs, <<e, l>>)
           q == Len(rs)
<1>1. e \in Nat /\ l \in Nat /\ l >= 1 /\ l <= e /\ <<e, l>> \in Nat \X Nat
  BY DEF IsRun
<1>2. rs \in Seq(Nat \X Nat) /\ q \in Nat
  BY DEF Listed
<1>3. /\ ts \in Seq(Nat \X Nat) /\ Len(ts) = q + 1
      /\ \A m \in 1..q : ts[m] = rs[m]
      /\ ts[q + 1] = <<e, l>> /\ ts[q + 1][1] = e /\ ts[q + 1][2] = l
  <2>1. /\ ts \in Seq(Nat \X Nat) /\ Len(ts) = q + 1
        /\ \A m \in 1..q : ts[m] = rs[m]
        /\ ts[q + 1] = <<e, l>>
    BY <1>1, <1>2, AppendProperties
  <2> QED BY <2>1
<1>4. /\ \A m \in 1..q : IsRun(h, rs[m][1], rs[m][2]) /\ rs[m][1] <= e - l
      /\ \A m, p \in 1..q : m < p => rs[m][1] <= rs[p][1] - rs[p][2]
      /\ \A j \in 1..(e - l) : h[j].st = "down" =>
             \E m \in 1..q : rs[m][1] - rs[m][2] < j /\ j <= rs[m][1]
  BY DEF Listed
<1>5. \A m \in 1..q : rs[m][1] \in Nat
  BY <1>4 DEF IsRun
<1>6. 1..(q + 1) = (1..q) \cup {q + 1} /\ q + 1 \in 1..(q + 1)
  BY <1>2
<1> HIDE DEF ts, q
<1>7. \A m \in 1..(q + 1) : IsRun(h, ts[m][1], ts[m][2]) /\ ts[m][1] <= e
  <2>1. \A m \in 1..q : IsRun(h, ts[m][1], ts[m][2]) /\ ts[m][1] <= e
    BY <1>1, <1>3, <1>4, <1>5
  <2>2. IsRun(h, ts[q + 1][1], ts[q + 1][2]) /\ ts[q + 1][1] <= e
    BY <1>1, <1>3
  <2> QED BY <1>6, <2>1, <2>2
<1>8. ASSUME NEW m \in 1..(q + 1), NEW p \in 1..(q + 1), m < p
      PROVE  ts[m][1] <= ts[p][1] - ts[p][2]
  <2>1. m \in 1..q
    BY <1>2, <1>8
  <2>2. CASE p \in 1..q
    BY <2>1, <2>2, <1>3, <1>4, <1>8
  <2>3. CASE p = q + 1
    BY <2>1, <2>3, <1>3, <1>4
  <2> QED BY <2>2, <2>3, <1>6
<1>9. ASSUME NEW j \in 1..e, h[j].st = "down"
      PROVE  \E m \in 1..(q + 1) : ts[m][1] - ts[m][2] < j /\ j <= ts[m][1]
  <2>1. CASE j <= e - l
    <3>1. j \in 1..(e - l)
      BY <2>1, <1>1
    <3>2. PICK m \in 1..q : rs[m][1] - rs[m][2] < j /\ j <= rs[m][1]
      BY <3>1, <1>4, <1>9
    <3> QED BY <3>2, <1>3, <1>6
  <2>2. CASE e - l < j
    BY <2>2, <1>3, <1>6
  <2> QED BY <2>1, <2>2, <1>1
<1> QED BY <1>3, <1>7, <1>8, <1>9 DEF Listed, ts

\* The first loop lists every run of failures of the history.
LEMMA PairsListed ==
    ASSUME NEW h, Chronicle(h)
    PROVE  Listed(h, Len(h), RunPairs(h))
<1> DEFINE n == Len(h)
<1>1. n \in Nat /\ DOMAIN h = 1..n
  BY ChronicleFacts
<1>2. PICK R : /\ R[0] = [i |-> 0, n |-> 0, runs |-> <<>>]
               /\ \A k \in 1..n : R[k] = PairsStep(R[k - 1], h[k])
               /\ PairsLoop(h) = R[n]
  <2> HIDE DEF n
  <2> QED BY <1>1, PairsUnfold
<1> DEFINE Good(k) == /\ R[k].i = k /\ R[k].n \in 0..k
                      /\ \A j \in (k - R[k].n + 1)..k : h[j].st = "down"
                      /\ k - R[k].n > 0 => h[k - R[k].n].st # "down"
                      /\ Listed(h, k - R[k].n, R[k].runs)
           X == {k \in Nat : k <= n => Good(k)}
<1>3. 0 \in X
  <2>1. R[0].i = 0 /\ R[0].n = 0 /\ R[0].runs = <<>>
    BY <1>2
  <2>2. Listed(h, 0, <<>>)
    BY EmptySeq DEF Listed
  <2>3. 0 - R[0].n = 0 /\ \A j \in (0 - R[0].n + 1)..0 : FALSE
    BY <2>1
  <2> QED BY <2>1, <2>2, <2>3
<1>4. ASSUME NEW k \in Nat, k \in X PROVE k + 1 \in X
  <2> SUFFICES ASSUME k + 1 <= n PROVE Good(k + 1)
    <3> HIDE DEF Good
    <3> QED OBVIOUS
  <2>1. Good(k)
    <3> HIDE DEF Good
    <3> QED BY <1>1, <1>4
  <2> DEFINE l == R[k].n
             rs == R[k].runs
             m == k + 1
  <2>2. m \in 1..n /\ m - 1 = k /\ m \in Nat
    BY <1>1
  <2>3. R[m] = PairsStep(R[k], h[m])
    BY <2>2, <1>2
  <2>4. /\ R[k].i = k /\ l \in 0..k
        /\ \A j \in (k - l + 1)..k : h[j].st = "down"
        /\ k - l > 0 => h[k - l].st # "down"
        /\ Listed(h, k - l, rs)
    BY <2>1
  <2>5. CASE h[m].st = "down"
    <3>1. R[m].i = m /\ R[m].n = l + 1 /\ R[m].runs = rs
      BY <2>3, <2>4, <2>5 DEF PairsStep
    <3>2. m - (l + 1) = k - l /\ l + 1 \in 0..m /\ m - (l + 1) + 1 = k - l + 1
      <4>1. l \in 0..k
        BY <2>4
      <4> HIDE DEF l
      <4> QED BY <4>1
    <3>3. \A j \in (k - l + 1)..m : h[j].st = "down"
      BY <2>4, <2>5
    <3> HIDE DEF l, rs, m
    <3> QED BY <2>4, <3>1, <3>2, <3>3 DEF m
  <2>6. CASE h[m].st # "down"
    <3>1. /\ R[m].i = m /\ R[m].n = 0
          /\ R[m].runs = IF l > 0 THEN Append(rs, <<k, l>>) ELSE rs
      BY <2>3, <2>4, <2>6 DEF PairsStep
    <3>2. Listed(h, k, R[m].runs)
      <4>1. CASE l > 0
        <5>1. IsRun(h, k, l)
          BY <2>2, <2>4, <2>6, <4>1, <1>1 DEF IsRun
        <5> QED BY <5>1, <2>4, <3>1, <4>1, <1>1, ListedAppend
      <4>2. CASE l = 0
        <5>1. k - l = k
          BY <4>2
        <5> QED BY <5>1, <2>4, <3>1, <4>2
      <4> QED BY <4>1, <4>2, <2>4
    <3>3. Listed(h, m, R[m].runs)
      BY <3>2, <2>6, ListedMore
    <3>4. m - 0 = m /\ 0 \in 0..m /\ \A j \in (m - 0 + 1)..m : FALSE
      BY <2>2
    <3> HIDE DEF m, rs, l
    <3> QED BY <2>6, <3>1, <3>3, <3>4 DEF m
  <2> QED BY <2>5, <2>6
<1>5. Good(n)
  <2>1. n \in X
    <3> HIDE DEF X, n
    <3> QED BY <1>1, <1>3, <1>4, NatSet
  <2> HIDE DEF Good
  <2> QED BY <2>1, <1>1
<1> DEFINE l == R[n].n
           rs == R[n].runs
<1>6. RunPairs(h) = IF l > 0 THEN Append(rs, <<n, l>>) ELSE rs
  BY <1>2 DEF RunPairs
<1>7. /\ l \in 0..n
      /\ \A j \in (n - l + 1)..n : h[j].st = "down"
      /\ n - l > 0 => h[n - l].st # "down"
      /\ Listed(h, n - l, rs)
  BY <1>5
<1>8. CASE l > 0
  <2>1. IsRun(h, n, l)
    BY <1>1, <1>7, <1>8 DEF IsRun
  <2> QED BY <2>1, <1>1, <1>6, <1>7, <1>8, ListedAppend
<1>9. CASE l = 0
  <2>1. n - l = n
    BY <1>1, <1>9
  <2> HIDE DEF n
  <2> QED BY <2>1, <1>6, <1>7, <1>9 DEF n
<1> QED BY <1>7, <1>8, <1>9

-----------------------------------------------------------------------------
(* flaky.short_failures, second loop: what of the runs lies in the window. *)

\* The failures after index lo that belong to one of the first k runs listed, if it
\* is a short one, and the ends of these runs.
Hits(rs, lo, n, k) ==
    {i \in (lo + 1)..n : \E m \in 1..k :
        rs[m][1] - rs[m][2] < i /\ i <= rs[m][1] /\ rs[m][2] < Thr}
Ends(rs, lo, n, k) == {i \in (lo + 1)..n : \E m \in 1..k : i = rs[m][1] /\ rs[m][2] < Thr}

\* Finitely many.
LEMMA HitsFinite ==
    ASSUME NEW rs, NEW lo \in Nat, NEW n \in Nat, NEW k \in Nat
    PROVE  /\ IsFiniteSet(Hits(rs, lo, n, k)) /\ Cardinality(Hits(rs, lo, n, k)) \in Nat
           /\ IsFiniteSet(Ends(rs, lo, n, k)) /\ Cardinality(Ends(rs, lo, n, k)) \in Nat
           /\ Hits(rs, lo, n, k) \in SUBSET (1..n) /\ Ends(rs, lo, n, k) \in SUBSET (1..n)
<1>1. Hits(rs, lo, n, k) \in SUBSET (1..n) /\ Ends(rs, lo, n, k) \in SUBSET (1..n)
  BY DEF Hits, Ends
<1>2. IsFiniteSet(1..n)
  BY FS_Interval
<1> QED BY <1>1, <1>2, FS_Subset, FS_CardinalityType

\* One more run.
LEMMA HitsStep ==
    ASSUME NEW h, Len(h) \in Nat, NEW rs, Listed(h, Len(h), rs), NEW lo \in Nat,
           NEW k \in Nat, k + 1 <= Len(rs)
    PROVE  LET n == Len(h)
               r == rs[k + 1]
           IN  ShortStep(<<Cardinality(Hits(rs, lo, n, k)), Cardinality(Ends(rs, lo, n, k))>>, r, lo)
             = <<Cardinality(Hits(rs, lo, n, k + 1)), Cardinality(Ends(rs, lo, n, k + 1))>>
<1> DEFINE n == Len(h)
           r == rs[k + 1]
           e == r[1]
           l == r[2]
           low == IF e - l >= lo THEN e - l ELSE lo
           A == Hits(rs, lo, n, k)
           B == Ends(rs, lo, n, k)
           A1 == Hits(rs, lo, n, k + 1)
           B1 == Ends(rs, lo, n, k + 1)
<1> SUFFICES ShortStep(<<Cardinality(A), Cardinality(B)>>, r, lo)
                 = <<Cardinality(A1), Cardinality(B1)>>
  OBVIOUS
<1>1. Len(rs) \in Nat /\ k + 1 \in 1..Len(rs) /\ \A m \in 1..k : m \in 1..Len(rs) /\ m < k + 1
  BY DEF Listed
<1>2. n \in Nat /\ e \in 1..n /\ l \in 1..e
  BY <1>1 DEF Listed, IsRun
<1>3. ASSUME NEW m \in 1..k PROVE rs[m][1] <= e - l /\ rs[m][1] \in Nat
  <2>1. m \in 1..Len(rs) /\ m < k + 1
    BY <1>1
  <2>2. rs[m][1] <= e - l
    BY <1>1, <2>1 DEF Listed
  <2>3. rs[m][1] \in 1..Len(h)
    BY <2>1 DEF Listed, IsRun
  <2> QED BY <2>2, <2>3
<1>4. 1..(k + 1) = (1..k) \cup {k + 1}
  OBVIOUS
<1>5. /\ IsFiniteSet(A) /\ Cardinality(A) \in Nat
      /\ IsFiniteSet(B) /\ Cardinality(B) \in Nat
  BY <1>2, HitsFinite
<1>6. ShortStep(<<Cardinality(A), Cardinality(B)>>, r, lo) =
          IF l >= Thr \/ e - low <= 0 THEN <<Cardinality(A), Cardinality(B)>>
          ELSE <<Cardinality(A) + (e - low), Cardinality(B) + 1>>
  <2> DEFINE acc == <<Cardinality(A), Cardinality(B)>>
  <2>1. r[1] \in Int /\ r[2] \in Int /\ lo \in Int
    BY <1>2
  <2>2. ShortStep(acc, r, lo) = IF l >= Thr \/ e - low <= 0 THEN acc
                                ELSE <<acc[1] + (e - low), acc[2] + 1>>
    <3> HIDE DEF acc, r
    <3> QED BY <2>1, ShortStepIs, Zenon
  <2>3. acc[1] = Cardinality(A) /\ acc[2] = Cardinality(B)
    OBVIOUS
  <2> HIDE DEF A, B, r, e, l, low
  <2> QED BY <2>2, <2>3
<1>7. A1 = A \cup {i \in (lo + 1)..n : e - l < i /\ i <= e /\ l < Thr}
  <2> HIDE DEF n
  <2> QED BY <1>4 DEF Hits
<1>8. B1 = B \cup {i \in (lo + 1)..n : i = e /\ l < Thr}
  <2> HIDE DEF n
  <2> QED BY <1>4 DEF Ends
<1>9. ASSUME NEW i \in A PROVE i <= e - l
  <2>1. PICK m \in 1..k : i <= rs[m][1]
    BY DEF Hits
  <2>2. i \in Int /\ e - l \in Int
    BY <1>2 DEF Hits
  <2> HIDE DEF e, l
  <2> QED BY <1>3, <2>1, <2>2
<1>10. ASSUME NEW i \in B PROVE i <= e - l
  <2>1. PICK m \in 1..k : i = rs[m][1]
    BY DEF Ends
  <2> HIDE DEF e, l
  <2> QED BY <1>3, <2>1
<1>11. Thr \in Nat /\ low \in Nat /\ (e - low <= 0 <=> e <= lo)
  BY <1>2, LoopConstants
<1>12. CASE l >= Thr \/ e - low <= 0
  <2>1. ASSUME NEW i \in (lo + 1)..n PROVE ~(i <= e /\ l < Thr)
    BY <1>2, <1>11, <1>12
  <2>2. A1 = A /\ B1 = B
    <3> HIDE DEF A, A1, B, B1, n
    <3> QED BY <1>2, <1>7, <1>8, <2>1
  <2> HIDE DEF A, A1, B, B1, n, r, e, l, low
  <2> QED BY <1>6, <1>12, <2>2
<1>13. CASE ~(l >= Thr \/ e - low <= 0)
  <2> DEFINE D == (low + 1)..e
  <2>0. /\ l < Thr /\ e \in Nat /\ l \in Nat /\ n \in Nat /\ e <= n /\ low \in Nat
        /\ low < e /\ (low = e - l \/ low = lo) /\ e - l <= low /\ lo <= low
    <3> HIDE DEF e, l, n
    <3>1. e \in Nat /\ l \in Nat /\ n \in Nat /\ e <= n
      BY <1>2
    <3> QED BY <1>11, <1>13, <3>1
  <2>1. {i \in (lo + 1)..n : e - l < i /\ i <= e /\ l < Thr} = D
    <3> HIDE DEF low, e, l, n
    <3>1. ASSUME NEW i \in (lo + 1)..n, e - l < i, i <= e PROVE i \in (low + 1)..e
      BY <2>0, <3>1
    <3>2. ASSUME NEW i \in (low + 1)..e PROVE i \in (lo + 1)..n /\ e - l < i /\ i <= e /\ l < Thr
      BY <2>0
    <3> QED BY <3>1, <3>2
  <2>2. {i \in (lo + 1)..n : i = e /\ l < Thr} = {e}
    <3> HIDE DEF low, e, l, n
    <3>1. e \in (lo + 1)..n
      BY <2>0
    <3> QED BY <2>0, <3>1
  <2>3. IsFiniteSet(D) /\ Cardinality(D) = e - low
    <3>1. low + 1 \in Int /\ e \in Int /\ ~(low + 1 > e) /\ e - (low + 1) + 1 = e - low
      BY <1>2, <1>11, <1>13
    <3> HIDE DEF low, e
    <3> QED BY <3>1, FS_Interval
  <2>4. A \cap D = {}
    <3>1. \A i \in D : i > e - l
      BY <1>2, <1>11
    <3>2. \A i \in A : i \in Int
      BY DEF Hits
    <3> HIDE DEF A, D
    <3> QED BY <1>2, <1>9, <3>1, <3>2
  <2>5. Cardinality(A1) = Cardinality(A) + (e - low)
    <3> HIDE DEF A, A1, D, e, l, low, n
    <3>1. A1 = A \cup D
      BY <1>7, <2>1
    <3>2. Cardinality(A \cup D) = Cardinality(A) + Cardinality(D) - Cardinality(A \cap D)
      BY <1>5, <2>3, FS_Union
    <3>3. Cardinality(A \cap D) = 0
      BY <2>4, FS_EmptySet
    <3>4. e - low \in Int
      BY <1>2, <1>11
    <3> QED BY <1>5, <2>3, <3>1, <3>2, <3>3, <3>4
  <2>6. Cardinality(B1) = Cardinality(B) + 1
    <3>1. e \notin B
      BY <1>2, <1>10
    <3> HIDE DEF B, B1, e, l, n
    <3> QED BY <1>5, <1>8, <2>2, <3>1, FS_AddElement
  <2> HIDE DEF A, A1, B, B1, n, r, e, l, low
  <2> QED BY <1>6, <1>13, <2>5, <2>6
<1> QED BY <1>12, <1>13

\* The second loop counts the failures and the runs in the window.
LEMMA ShortCounts ==
    ASSUME NEW h, Chronicle(h)
    PROVE  LET n == Len(h)
               lo == CutAt(n, WINDOW)
               rs == RunPairs(h)
           IN  ShortLoop(h) = <<Cardinality(Hits(rs, lo, n, Len(rs))),
                                Cardinality(Ends(rs, lo, n, Len(rs)))>>
<1> DEFINE n == Len(h)
           lo == Max({Len(h) - WINDOW, 0})
           rs == RunPairs(h)
           J == Len(rs)
<1>1. WINDOW \in Nat /\ n \in Nat /\ Listed(h, n, rs)
  BY FlapConstants, ChronicleFacts, PairsListed
<1>2. J \in Nat /\ DOMAIN rs = 1..J /\ \A k \in 1..J : rs[k] \in Nat \X Nat
  BY <1>1, LenProperties, ElementOfSeq DEF Listed
<1>3. lo = CutAt(n, WINDOW) /\ lo \in Nat
  <2>1. n - WINDOW \in Int /\ 0 \in Int
    BY <1>1
  <2>2. Max({n - WINDOW, 0}) = IF n - WINDOW >= 0 THEN n - WINDOW ELSE 0
    BY <2>1, MaxPair
  <2> QED BY <1>1, <2>2 DEF CutAt
<1> HIDE DEF lo, rs, J
<1>4. PICK R : /\ R[0] = <<0, 0>>
               /\ \A k \in 1..J : R[k] = ShortStep(R[k - 1], rs[k], lo)
               /\ FoldLeft(LAMBDA acc, r : ShortStep(acc, r, lo), <<0, 0>>, rs) = R[J]
  BY <1>2, <1>3, ShortUnfold
<1>5. ShortLoop(h) = R[J]
  <2>1. ShortLoop(h) = FoldLeft(LAMBDA acc, r : ShortStep(acc, r, lo), <<0, 0>>, rs)
    BY Zenon DEF ShortLoop, rs, lo
  <2> QED BY <1>4, <2>1
<1> DEFINE Good(k) == R[k] = <<Cardinality(Hits(rs, lo, n, k)), Cardinality(Ends(rs, lo, n, k))>>
           X == {k \in Nat : k <= J => Good(k)}
<1>6. 0 \in X
  <2>1. Hits(rs, lo, n, 0) = {} /\ Ends(rs, lo, n, 0) = {}
    <3>1. 1..0 = {}
      OBVIOUS
    <3> QED BY <3>1 DEF Hits, Ends
  <2> QED BY <1>4, <2>1, FS_EmptySet
<1>7. ASSUME NEW k \in Nat, k \in X PROVE k + 1 \in X
  <2> SUFFICES ASSUME k + 1 <= J PROVE Good(k + 1)
    <3> HIDE DEF Good
    <3> QED OBVIOUS
  <2>1. Good(k)
    <3> HIDE DEF Good
    <3> QED BY <1>2, <1>7
  <2>2. k + 1 \in 1..J /\ (k + 1) - 1 = k
    BY <1>2
  <2>3. R[k + 1] = ShortStep(R[k], rs[k + 1], lo)
    BY <2>2, <1>4
  <2> QED BY <1>1, <1>3, <2>1, <2>3, HitsStep DEF J
<1>8. Good(J)
  <2>1. J \in X
    <3> HIDE DEF X
    <3> QED BY <1>2, <1>6, <1>7, NatSet
  <2> HIDE DEF Good
  <2> QED BY <2>1, <1>2
<1> QED BY <1>3, <1>5, <1>8 DEF rs, J

\* The run a failure belongs to.
LEMMA RunImage ==
    ASSUME NEW h, Chronicle(h), NEW e, NEW l, IsRun(h, e, l), NEW i \in (e - l + 1)..e
    PROVE  /\ i \in 1..Len(h) /\ h[i].st = "down"
           /\ RunOf(SetOf(h), h[i]) = {h[j] : j \in (e - l + 1)..e}
           /\ Cardinality(RunOf(SetOf(h), h[i])) = l
           /\ Newer(RunOf(SetOf(h), h[i]), h[i]) = {} <=> i = e
<1> DEFINE n == Len(h)
           I == (e - l + 1)..e
           Between(k, j) == (j <= k /\ k <= i) \/ (i <= k /\ k <= j)
<1>1. n \in Nat /\ SetOf(h) = {h[j] : j \in 1..n}
  BY ChronicleFacts, ChronicleSet
<1>2. /\ e \in 1..n /\ l \in 1..e /\ I \in SUBSET (1..n) /\ i \in I
      /\ \A j \in I : h[j].st = "down"
      /\ e - l > 0 => h[e - l].st # "down"
      /\ e < n => h[e + 1].st # "down"
  BY <1>1 DEF IsRun
<1>3. \A j, k \in 1..n : h[j].age >= h[k].age <=> j <= k
  BY ChronicleFacts
<1> HIDE DEF n
<1>4. ASSUME NEW j \in 1..n
      PROVE  h[j] \in RunOf(SetOf(h), h[i]) <=>
                 \A k \in 1..n : Between(k, j) => h[k].st = "down"
  <2>1. i \in 1..n
    BY <1>2
  <2>2. ASSUME NEW k \in 1..n
        PROVE  (\/ h[k].age >= h[i].age /\ h[k].age <= h[j].age
                \/ h[k].age >= h[j].age /\ h[k].age <= h[i].age) <=> Between(k, j)
    <3>1. (h[k].age >= h[i].age <=> k <= i) /\ (h[k].age >= h[j].age <=> k <= j)
      BY <1>3, <2>1
    <3>2. (h[j].age >= h[k].age <=> j <= k) /\ (h[i].age >= h[k].age <=> i <= k)
      BY <1>3, <2>1
    <3>3. h[k].age \in Nat /\ h[j].age \in Nat /\ h[i].age \in Nat
      BY <2>1, ChronicleFacts DEF n
    <3> QED BY <3>1, <3>2, <3>3
  <2>3. h[j] \in SetOf(h)
    BY <1>1
  <2> HIDE DEF Between
  <2> QED BY <1>1, <2>2, <2>3 DEF RunOf
<1>5. ASSUME NEW j \in 1..n
      PROVE  (\A k \in 1..n : Between(k, j) => h[k].st = "down") <=> j \in I
  <2>1. CASE j \in I
    <3>1. \A k \in 1..n : Between(k, j) => k \in I
      BY <1>1, <1>2, <2>1
    <3> QED BY <1>2, <2>1, <3>1
  <2>2. CASE j > e
    <3>1. e + 1 \in 1..n /\ Between(e + 1, j) /\ e < n
      BY <1>1, <1>2, <2>2
    <3>2. j \notin I
      BY <1>2, <2>2
    <3> QED BY <1>2, <3>1, <3>2
  <2>3. CASE j < e - l + 1
    <3>1. e - l \in 1..n /\ Between(e - l, j) /\ e - l > 0
      BY <1>1, <1>2, <2>3
    <3>2. j \notin I
      BY <1>2, <2>3
    <3> QED BY <1>2, <3>1, <3>2
  <2> QED BY <1>1, <1>2, <2>1, <2>2, <2>3
<1>6. RunOf(SetOf(h), h[i]) = {h[j] : j \in I}
  <2>1. \A t \in RunOf(SetOf(h), h[i]) : \E j \in 1..n : t = h[j]
    BY <1>1 DEF RunOf
  <2> HIDE DEF I, Between
  <2> QED BY <1>2, <1>4, <1>5, <2>1
<1>7. Cardinality(RunOf(SetOf(h), h[i])) = l
  <2>1. Cardinality(I) = l
    <3>1. e - l + 1 \in Int /\ e \in Int /\ ~(e - l + 1 > e) /\ e - (e - l + 1) + 1 = l
      BY <1>1, <1>2
    <3> QED BY <3>1, FS_Interval
  <2>2. Cardinality({h[j] : j \in I}) = Cardinality(I)
    <3> HIDE DEF I
    <3> QED BY <1>2, ImageCard DEF n
  <2> QED BY <1>6, <2>1, <2>2
<1>8. Newer(RunOf(SetOf(h), h[i]), h[i]) = {} <=> i = e
  <2>1. \A j \in I : h[j].age < h[i].age <=> i < j
    BY <1>2, ChronicleFacts DEF n
  <2>2. Newer(RunOf(SetOf(h), h[i]), h[i]) = {} <=> \A j \in I : ~(i < j)
    <3> HIDE DEF I
    <3> QED BY <1>6, <2>1 DEF Newer
  <2>3. e \in I /\ \A j \in I : j <= e
    BY <1>1, <1>2
  <2> QED BY <1>1, <1>2, <2>2, <2>3
<1> QED BY <1>2, <1>6, <1>7, <1>8 DEF n

\* The two loops of flaky.short_failures count the failures of short runs inside the
\* window and the runs they belong to.
THEOREM ShortAgree ==
    ASSUME NEW h, Chronicle(h)
    PROVE  ShortLoop(h) = <<Cardinality(ShortFailures(SetOf(h), Thr)),
                            Cardinality(ShortRuns(SetOf(h), Thr))>>
<1> DEFINE n == Len(h)
           lo == CutAt(n, WINDOW)
           rs == RunPairs(h)
           J == Len(rs)
           S == SetOf(h)
           A == Hits(rs, lo, n, J)
           B == Ends(rs, lo, n, J)
<1>1. WINDOW \in Nat /\ n \in Nat /\ lo \in Nat /\ Thr \in Nat
  BY FlapConstants, LoopConstants, ChronicleFacts DEF CutAt
<1>2. Listed(h, n, rs) /\ J \in Nat
  <2>1. Listed(h, n, rs)
    BY PairsListed
  <2> HIDE DEF rs, n
  <2>2. rs \in Seq(Nat \X Nat)
    BY <2>1 DEF Listed
  <2> QED BY <2>1, <2>2
<1>3. ShortLoop(h) = <<Cardinality(A), Cardinality(B)>>
  BY ShortCounts
<1>4. S = {h[i] : i \in 1..n} /\ \A i, j \in 1..n : h[i] = h[j] => i = j
  BY ChronicleFacts, ChronicleSet
<1>5. A \in SUBSET (1..n) /\ B \in SUBSET (1..n)
  BY <1>1, <1>2, HitsFinite
<1>6. Latest(S, WINDOW) = {h[i] : i \in (lo + 1)..n}
  BY <1>1, LatestImage
<1> HIDE DEF n, lo, rs, J, S
<1>7. ASSUME NEW i \in 1..n PROVE h[i] \in Latest(S, WINDOW) <=> i \in (lo + 1)..n
  <2>1. \A j \in (lo + 1)..n : j \in 1..n
    BY <1>1
  <2> QED BY <1>4, <1>6, <2>1
<1>8. ASSUME NEW m \in 1..J, NEW i \in 1..n, rs[m][1] - rs[m][2] < i, i <= rs[m][1]
      PROVE  /\ h[i].st = "down" /\ Cardinality(RunOf(S, h[i])) = rs[m][2]
             /\ Newer(RunOf(S, h[i]), h[i]) = {} <=> i = rs[m][1]
             /\ rs[m][2] \in Nat
  <2>1. IsRun(h, rs[m][1], rs[m][2])
    BY <1>2 DEF Listed, J
  <2>2. rs[m][1] \in Nat /\ rs[m][2] \in Nat
    BY <2>1 DEF IsRun
  <2>3. i \in (rs[m][1] - rs[m][2] + 1)..rs[m][1]
    BY <1>8, <2>2
  <2> DEFINE e == rs[m][1]
             l == rs[m][2]
  <2>4. /\ h[i].st = "down" /\ Cardinality(RunOf(SetOf(h), h[i])) = l
        /\ Newer(RunOf(SetOf(h), h[i]), h[i]) = {} <=> i = e
    <3>1. IsRun(h, e, l) /\ i \in (e - l + 1)..e
      BY <2>1, <2>3
    <3> HIDE DEF e, l
    <3> QED BY <3>1, RunImage
  <2> QED BY <2>2, <2>4 DEF S
<1>9. ASSUME NEW i \in 1..n PROVE h[i] \in ShortFailures(S, Thr) <=> i \in A
  <2>1. ASSUME h[i] \in ShortFailures(S, Thr) PROVE i \in A
    <3>1. i \in (lo + 1)..n /\ h[i].st = "down" /\ Cardinality(RunOf(S, h[i])) < Thr
      BY <1>7, <2>1 DEF ShortFailures
    <3>2. PICK m \in 1..J : rs[m][1] - rs[m][2] < i /\ i <= rs[m][1]
      BY <1>2, <3>1 DEF Listed, J
    <3>3. rs[m][2] < Thr
      BY <3>1, <3>2, <1>8
    <3> QED BY <3>1, <3>2, <3>3 DEF Hits
  <2>2. ASSUME i \in A PROVE h[i] \in ShortFailures(S, Thr)
    <3>1. i \in (lo + 1)..n
      BY <2>2 DEF Hits
    <3>2. PICK m \in 1..J : rs[m][1] - rs[m][2] < i /\ i <= rs[m][1] /\ rs[m][2] < Thr
      BY <2>2 DEF Hits
    <3>3. h[i].st = "down" /\ Cardinality(RunOf(S, h[i])) < Thr
      BY <3>2, <1>8
    <3> QED BY <1>7, <3>1, <3>3 DEF ShortFailures
  <2> QED BY <2>1, <2>2
<1>10. ASSUME NEW i \in 1..n PROVE h[i] \in ShortRuns(S, Thr) <=> i \in B
  <2>1. ASSUME h[i] \in ShortRuns(S, Thr) PROVE i \in B
    <3>1. i \in A /\ Newer(RunOf(S, h[i]), h[i]) = {}
      BY <1>9, <2>1 DEF ShortRuns
    <3>2. PICK m \in 1..J : rs[m][1] - rs[m][2] < i /\ i <= rs[m][1] /\ rs[m][2] < Thr
      BY <3>1 DEF Hits
    <3>3. i = rs[m][1] /\ i \in (lo + 1)..n
      BY <3>1, <3>2, <1>8 DEF Hits
    <3> QED BY <3>2, <3>3 DEF Ends
  <2>2. ASSUME i \in B PROVE h[i] \in ShortRuns(S, Thr)
    <3>1. i \in (lo + 1)..n
      BY <2>2 DEF Ends
    <3>2. PICK m \in 1..J : i = rs[m][1] /\ rs[m][2] < Thr
      BY <2>2 DEF Ends
    <3>3. rs[m][1] - rs[m][2] < i /\ i <= rs[m][1]
      <4>1. rs[m][1] \in 1..n /\ rs[m][2] \in 1..rs[m][1]
        BY <1>2 DEF Listed, IsRun, J, n
      <4> QED BY <3>2, <4>1
    <3>4. i \in A
      BY <3>1, <3>2, <3>3 DEF Hits
    <3>5. Newer(RunOf(S, h[i]), h[i]) = {}
      BY <3>2, <3>3, <1>8
    <3> QED BY <1>9, <3>4, <3>5 DEF ShortRuns
  <2> QED BY <2>1, <2>2
<1> HIDE DEF A, B
<1>11. ShortFailures(S, Thr) = {h[i] : i \in A}
  <2>1. \A s \in ShortFailures(S, Thr) : \E i \in 1..n : s = h[i]
    BY <1>4 DEF ShortFailures, Latest
  <2> QED BY <1>5, <1>9, <2>1
<1>12. ShortRuns(S, Thr) = {h[i] : i \in B}
  <2>1. \A s \in ShortRuns(S, Thr) : \E i \in 1..n : s = h[i]
    BY <1>4 DEF ShortRuns, ShortFailures, Latest
  <2> QED BY <1>5, <1>10, <2>1
<1>13. /\ Cardinality(ShortFailures(S, Thr)) = Cardinality(A)
       /\ Cardinality(ShortRuns(S, Thr)) = Cardinality(B)
  <2>1. A \in SUBSET (1..Len(h)) /\ B \in SUBSET (1..Len(h))
    BY <1>5 DEF n
  <2>2. Cardinality({h[i] : i \in A}) = Cardinality(A)
    BY <2>1, ImageCard
  <2>3. Cardinality({h[i] : i \in B}) = Cardinality(B)
    BY <2>1, ImageCard
  <2> QED BY <1>11, <1>12, <2>2, <2>3
<1> QED BY <1>3, <1>13 DEF S

\* flaky.is_flaky judges a list as IsFlaky judges the set of its samples.
THEOREM FlakyAgree ==
    ASSUME NEW h, Chronicle(h), NEW was
    PROVE  FlakyLoop(h, was) = IsFlaky(SetOf(h), Thr, was)
<1>1. OutageLoop(h) <=> InOutage(SetOf(h), Thr)
  BY OutageAgree
<1>2. /\ ShortLoop(h)[1] = Cardinality(ShortFailures(SetOf(h), Thr))
      /\ ShortLoop(h)[2] = Cardinality(ShortRuns(SetOf(h), Thr))
  BY ShortAgree
<1> QED BY <1>1, <1>2 DEF FlakyLoop, IsFlaky

-----------------------------------------------------------------------------
(* The history of a monitor.                                               *)

\* A new sample is younger than all others.
LEMMA SampleChronicle ==
    ASSUME Chronicle(hist), NEW d \in Spacings, NEW st \in Outcomes, Sample(d, st)
    PROVE  Chronicle(hist')
<1> DEFINE n == Len(hist)
           T == [age : Nat, st : Outcomes]
           old == [i \in DOMAIN hist |-> [hist[i] EXCEPT !.age = @ + d]]
           x == [age |-> 0, st |-> st]
           new == Append(old, x)
<1>1. n \in Nat /\ DOMAIN hist = 1..n /\ hist \in Seq(T)
  BY ChronicleFacts DEF Chronicle
<1>2. d \in Nat /\ d > 0 /\ MaxLen \in Nat
  BY LoopConstants
<1>3. \A i \in 1..n : hist[i] \in T
  BY <1>1, ElementOfSeq
<1>4. \A i \in 1..n : hist[i].age \in Nat /\ hist[i].st \in Outcomes
  BY <1>3
<1>5. \A i \in 1..n : old[i] = [age |-> hist[i].age + d, st |-> hist[i].st]
  BY <1>1, <1>3
<1>6. old \in Seq(T) /\ Len(old) = n
  <2>1. old \in [1..n -> T]
    <3>1. ASSUME NEW i \in 1..n PROVE old[i] \in T
      <4> HIDE DEF old, n
      <4>1. old[i] = [age |-> hist[i].age + d, st |-> hist[i].st]
        BY <1>5
      <4>2. hist[i].age + d \in Nat /\ hist[i].st \in Outcomes
        BY <1>2, <1>4
      <4> QED BY <4>1, <4>2
    <3>2. old = [i \in 1..n |-> old[i]]
      BY <1>1
    <3> HIDE DEF old, T, n
    <3> QED BY <3>1, <3>2
  <2> HIDE DEF old, T, n
  <2> QED BY <1>1, <2>1
<1>7. x \in T
  OBVIOUS
<1> HIDE DEF old
<1>8. /\ new \in Seq(T) /\ Len(new) = n + 1
      /\ \A i \in 1..n : new[i] = old[i]
      /\ new[n + 1] = x
  <2> HIDE DEF x, T
  <2> QED BY <1>6, <1>7, AppendProperties
<1> HIDE DEF new
<1>9. DOMAIN new = 1..(n + 1)
  BY <1>8, LenProperties
<1>10. \A i \in 1..n : new[i].age = hist[i].age + d
  <2> HIDE DEF n, T
  <2> SUFFICES ASSUME NEW i \in 1..n PROVE new[i].age = hist[i].age + d
    OBVIOUS
  <2>1. new[i] = [age |-> hist[i].age + d, st |-> hist[i].st]
    BY <1>5, <1>8
  <2> QED BY <2>1
<1>11. ASSUME NEW i \in 1..(n + 1), NEW j \in 1..(n + 1), i < j PROVE new[i].age > new[j].age
  <2>1. i \in 1..n /\ new[i].age = hist[i].age + d /\ hist[i].age \in Nat
    <3>1. i \in 1..n
      BY <1>1, <1>11
    <3> QED BY <3>1, <1>4, <1>10
  <2>2. CASE j \in 1..n
    <3>1. new[j].age = hist[j].age + d /\ hist[j].age \in Nat
      BY <2>2, <1>4, <1>10
    <3>2. hist[i].age > hist[j].age
      BY <2>1, <2>2, <1>11, ChronicleFacts
    <3> QED BY <1>2, <2>1, <3>1, <3>2
  <2>3. CASE j = n + 1
    <3>1. new[j].age = 0
      BY <2>3, <1>8
    <3> QED BY <1>2, <2>1, <3>1
  <2> QED BY <1>1, <2>2, <2>3
<1>12. Chronicle(new)
  BY <1>8, <1>9, <1>11 DEF Chronicle
<1>13. hist' = Slice(new, MaxLen)
  BY DEF Sample, new, old
<1>14. Chronicle(Slice(new, MaxLen))
  BY <1>2, <1>12, SliceIs
<1> QED BY <1>13, <1>14

\* Every history is a list of samples in their order.
LEMMA ChronicleAlways == Histories => []Chronicle(hist)
<1>1. NoSamples => Chronicle(hist)
  BY EmptySeq DEF NoSamples, Chronicle
<1>2. Chronicle(hist) /\ [Checked]_hist => Chronicle(hist')
  <2> SUFFICES ASSUME Chronicle(hist), [Checked]_hist PROVE Chronicle(hist')
    OBVIOUS
  <2>1. CASE Checked
    BY <2>1, SampleChronicle DEF Checked
  <2>2. CASE hist' = hist
    BY <2>2 DEF Chronicle
  <2> QED BY <2>1, <2>2
<1>3. Chronicle(hist)' <=> Chronicle(hist')
  BY DEF Chronicle
<1> QED BY <1>1, <1>2, <1>3, PTL DEF Histories

\* The loops of site_flap.runs, site_flap.stable, flaky.short_failures and
\* flaky.is_flaky compute what the set definitions say, on every history of a monitor,
\* whatever the windows, the thresholds and the times between its samples.
THEOREM LoopsAgreeAlways == Histories => []LoopsAgree
<1>1. Chronicle(hist) => LoopsAgree
  <2> SUFFICES ASSUME Chronicle(hist) PROVE LoopsAgree
    OBVIOUS
  <2>1. RunsLoop(hist, FLAP_WINDOW) = FailureRuns(SetOf(hist), FLAP_WINDOW)
    BY RunsAgree, FlapConstants
  <2>2. StableLoop(hist) = Stable(SetOf(hist))
    BY StableAgree
  <2>3. \A was \in BOOLEAN : FlakyLoop(hist, was) = IsFlaky(SetOf(hist), Thr, was)
    BY FlakyAgree
  <2> QED BY <2>1, <2>2, <2>3 DEF LoopsAgree, SetOf
<1> QED BY <1>1, ChronicleAlways, PTL

\* The samples that the query of _flaky_step returns get the verdict of the whole
\* history, also when a long outage began before the window.
THEOREM WindowIsEnoughAlways == Histories => []WindowIsEnough
<1>1. Chronicle(hist) => WindowIsEnough
  <2> SUFFICES ASSUME Chronicle(hist), NEW was \in BOOLEAN
               PROVE  FlakyLoop(Queried(hist), was) = FlakyLoop(hist, was)
    BY DEF WindowIsEnough
  <2> DEFINE n == WINDOW + Thr + 1
  <2>1. n \in Nat /\ n >= WINDOW + Thr /\ Thr \in Nat
    BY FlapConstants, LoopConstants
  <2>2. Queried(hist) = Slice(hist, n)
    BY DEF Queried
  <2> HIDE DEF n
  <2>3. Chronicle(Queried(hist)) /\ SetOf(Queried(hist)) = Latest(SetOf(hist), n)
    BY <2>1, <2>2, SliceIs
  <2>4. IsFlaky(Latest(SetOf(hist), n), Thr, was) = IsFlaky(SetOf(hist), Thr, was)
    BY <2>1, ChronicleSet, LimitIsEnough
  <2> QED BY <2>3, <2>4, FlakyAgree
<1> QED BY <1>1, ChronicleAlways, PTL

=============================================================================
