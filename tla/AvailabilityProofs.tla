-------------------------- MODULE AvailabilityProofs --------------------------
(***************************************************************************)
(* Theorems of Availability and of the schedule engine under it, for any   *)
(* length of the day and the week, any schedules, overrides, breaks, clock *)
(* changes, diaries and rules of booking.                                  *)
(***************************************************************************)
EXTENDS Availability, FiniteSetTheorems, WellFoundedInduction, TLAPS

-----------------------------------------------------------------------------
(* Least elements *)

\* Numbers have a least.
LEMMA LeastNumber ==
  ASSUME NEW S, S \subseteq Nat, S # {}
  PROVE  \E f \in S : \A g \in S : f <= g
<1> DEFINE less == {p \in Nat \X Nat : p[1] < p[2]}
<1>1. IsWellFoundedOn(less, Nat)
  BY NatLessThanWellFounded DEF OpToRel
<1>2. \E f \in S : \A g \in S : <<g, f>> \notin less
  BY <1>1, WFMin
<1>3. PICK f \in S : \A g \in S : <<g, f>> \notin less
  BY <1>2
<1>4. ASSUME NEW g \in S PROVE f <= g
  <2>1. f \in Nat /\ g \in Nat /\ <<g, f>> \notin less
    BY <1>3
  <2>2. ~(g < f)
    BY <2>1
  <2>3. QED
    BY <2>1, <2>2
<1>5. QED
  BY <1>4

\* Of some subsets of a finite set, one has no other among its proper subsets.
LEMMA SmallestSubset ==
  ASSUME NEW S, IsFiniteSet(S), NEW bad, bad \subseteq SUBSET S, bad # {}
  PROVE  \E s \in bad : \A t \in SUBSET s : t # s => t \notin bad
<1> DEFINE sizes == {Cardinality(s) : s \in bad}
<1>1. \A s \in bad : IsFiniteSet(s) /\ Cardinality(s) \in Nat
  BY FS_Subset, FS_CardinalityType
<1>2. sizes \subseteq Nat /\ sizes # {}
  BY <1>1
<1>3. PICK size \in sizes : \A other \in sizes : size <= other
  <2> HIDE DEF sizes
  <2>1. QED
    BY <1>2, LeastNumber
<1>4. PICK s \in bad : size = Cardinality(s)
  BY <1>3
<1>5. ASSUME NEW t \in SUBSET s, t # s, t \in bad PROVE FALSE
  <2>1. Cardinality(t) <= Cardinality(s) /\ Cardinality(t) # Cardinality(s)
    BY <1>1, <1>5, FS_Subset
  <2>2. Cardinality(s) <= Cardinality(t)
    BY <1>3, <1>4, <1>5
  <2>3. Cardinality(s) \in Nat /\ Cardinality(t) \in Nat
    BY <1>1, <1>5
  <2>4. QED
    BY <2>1, <2>2, <2>3
<1>6. QED
  BY <1>5

-----------------------------------------------------------------------------
(* Folds of finite sets: the recursion has one solution.  What picks the   *)
(* next element, and what a step does, are given as functions.             *)

Picks(pick, S) == \A s \in SUBSET S : s # {} => pick[s] \in s

\* f is the fold of every subset of S.
Folds(f, S, pick, base, step, V) ==
  /\ f \in [SUBSET S -> V]
  /\ \A s \in SUBSET S :
       f[s] = IF s = {} THEN base ELSE step[<<pick[s], f[s \ {pick[s]}]>>]

\* Two folds agree where both are defined.
LEMMA FoldsAgree ==
  ASSUME NEW S, IsFiniteSet(S), NEW T, NEW pick, Picks(pick, S),
         NEW base, NEW step, NEW V,
         NEW f, Folds(f, S, pick, base, step, V), NEW g, Folds(g, T, pick, base, step, V),
         NEW t, t \in SUBSET S, t \in SUBSET T
  PROVE  f[t] = g[t]
<1> DEFINE bad == {s \in SUBSET S : s \in SUBSET T /\ f[s] # g[s]}
<1>1. SUFFICES ASSUME bad # {} PROVE FALSE
  OBVIOUS
<1>2. bad \subseteq SUBSET S
  OBVIOUS
<1>3. PICK s \in bad : \A r \in SUBSET s : r # s => r \notin bad
  <2> HIDE DEF bad
  <2>1. QED
    BY <1>1, <1>2, SmallestSubset
<1>4. /\ s \in SUBSET S /\ s \in SUBSET T /\ f[s] # g[s]
  BY <1>3
<1>5. s # {}
  BY <1>4 DEF Folds
<1> DEFINE rest == s \ {pick[s]}
<1>6. rest \in SUBSET s /\ rest # s
  BY <1>4, <1>5 DEF Picks
<1>7. f[rest] = g[rest]
  BY <1>3, <1>4, <1>6
<1>8. QED
  BY <1>4, <1>5, <1>7 DEF Folds

\* The fold of a finite set exists.
LEMMA FoldExists ==
  ASSUME NEW S, IsFiniteSet(S), NEW pick, Picks(pick, S),
         NEW V, NEW base \in V, NEW step \in [S \X V -> V]
  PROVE  \E f : Folds(f, S, pick, base, step, V)
<1> DEFINE good(s) == \E f : Folds(f, s, pick, base, step, V)
           bad == {s \in SUBSET S : ~good(s)}
           rest(s) == s \ {pick[s]}
<1>1. SUFFICES ASSUME bad # {} PROVE FALSE
  BY DEF bad
<1>2. bad \subseteq SUBSET S
  OBVIOUS
<1>3. PICK s \in bad : \A r \in SUBSET s : r # s => r \notin bad
  <2> HIDE DEF bad
  <2>1. QED
    BY <1>1, <1>2, SmallestSubset
<1>4. s \in SUBSET S /\ ~good(s) /\ IsFiniteSet(s)
  BY <1>3, FS_Subset
<1>5. \A r \in SUBSET s : r # s => good(r)
  BY <1>3, <1>4
<1>6. \A r \in SUBSET s : r # {} => pick[r] \in r /\ rest(r) \in SUBSET r /\ rest(r) # r
  BY <1>4 DEF Picks
<1> DEFINE part(r) == CHOOSE f : Folds(f, r, pick, base, step, V)
           below(r) == part(r)[r]
           whole == [r \in SUBSET s |->
                       IF r # s THEN below(r)
                       ELSE IF s = {} THEN base
                       ELSE step[<<pick[s], below(rest(s))>>]]
<1>7. \A r \in SUBSET s : r # s => Folds(part(r), r, pick, base, step, V)
  <2> SUFFICES ASSUME NEW r \in SUBSET s, r # s
               PROVE  Folds(part(r), r, pick, base, step, V)
    OBVIOUS
  <2> HIDE DEF good, bad
  <2>1. \E f : Folds(f, r, pick, base, step, V)
    BY <1>5 DEF good
  <2>2. QED
    BY <2>1
<1> HIDE DEF part, good, bad
<1>8. \A r \in SUBSET s : r # s => below(r) \in V
  BY <1>7 DEF Folds
<1>9. ASSUME NEW r \in SUBSET s, r # s, r # {}
      PROVE  below(r) = step[<<pick[r], below(rest(r))>>]
  <2>1. rest(r) \in SUBSET r /\ rest(r) \in SUBSET s /\ rest(r) # s
    BY <1>6, <1>9
  <2>2. part(r)[r] = step[<<pick[r], part(r)[rest(r)]>>]
    BY <1>7, <1>9 DEF Folds
  <2>3. IsFiniteSet(r) /\ Picks(pick, r)
    BY <1>4, FS_Subset DEF Picks
  <2>4. /\ Folds(part(r), r, pick, base, step, V)
        /\ Folds(part(rest(r)), rest(r), pick, base, step, V)
    BY <1>7, <1>9, <2>1
  <2> HIDE DEF rest
  <2>5. rest(r) \in SUBSET rest(r)
    OBVIOUS
  <2>6. part(r)[rest(r)] = part(rest(r))[rest(r)]
    BY <2>1, <2>3, <2>4, <2>5, FoldsAgree
  <2>7. QED
    BY <2>2, <2>6
<1>10. s # {} => /\ pick[s] \in S /\ rest(s) \in SUBSET s /\ rest(s) # s
                 /\ <<pick[s], below(rest(s))>> \in S \X V
  <2>1. s # {} => pick[s] \in S /\ rest(s) \in SUBSET s /\ rest(s) # s
    BY <1>4, <1>6
  <2> HIDE DEF rest, below
  <2>2. QED
    BY <1>8, <2>1
<1>11. {} # s => below({}) = base
  BY <1>7 DEF Folds
<1> HIDE DEF below
<1>12. whole \in [SUBSET s -> V]
  <2> HIDE DEF rest
  <2>1. QED
    BY <1>8, <1>10
<1>13. ASSUME NEW r \in SUBSET s
       PROVE  whole[r] = IF r = {} THEN base ELSE step[<<pick[r], whole[rest(r)]>>]
  <2>1. CASE r = {}
    BY <1>11, <2>1
  <2>2. CASE r # {}
    <3>1. rest(r) \in SUBSET s /\ rest(r) # s
      BY <1>6, <2>2
    <3> HIDE DEF rest
    <3>2. whole[rest(r)] = below(rest(r))
      BY <3>1
    <3>3. CASE r = s
      BY <2>2, <3>2, <3>3
    <3>4. CASE r # s
      <4>1. whole[r] = below(r)
        BY <3>4
      <4>2. QED
        BY <1>9, <2>2, <3>2, <3>4, <4>1
    <3>5. QED
      BY <3>3, <3>4
  <2>3. QED
    BY <2>1, <2>2
<1>14. Folds(whole, s, pick, base, step, V)
  <2> HIDE DEF whole
  <2>1. QED
    BY <1>12, <1>13 DEF Folds
<1>15. QED
  BY <1>4, <1>14 DEF good

\* g goes on as the fold does wherever it has got to a value.
GoesOn(g, S, pick, base, step, V) ==
  /\ g[{}] = base
  /\ \A s \in SUBSET S : s # {} /\ g[s \ {pick[s]}] \in V
                         => g[s] = step[<<pick[s], g[s \ {pick[s]}]>>]

\* Whatever does the same on what it has got to is the fold.
LEMMA FoldIsUnique ==
  ASSUME NEW S, IsFiniteSet(S), NEW pick, Picks(pick, S), NEW base, NEW step, NEW V,
         NEW f, Folds(f, S, pick, base, step, V),
         NEW g, GoesOn(g, S, pick, base, step, V)
  PROVE  \A s \in SUBSET S : g[s] = f[s]
<1> DEFINE bad == {s \in SUBSET S : g[s] # f[s]}
<1>1. SUFFICES ASSUME bad # {} PROVE FALSE
  OBVIOUS
<1>2. bad \subseteq SUBSET S
  OBVIOUS
<1>3. PICK s \in bad : \A r \in SUBSET s : r # s => r \notin bad
  <2> HIDE DEF bad
  <2>1. QED
    BY <1>1, <1>2, SmallestSubset
<1>4. s \in SUBSET S /\ g[s] # f[s]
  BY <1>3
<1>5. s # {}
  BY <1>4 DEF Folds, GoesOn
<1> DEFINE rest == s \ {pick[s]}
<1>6. rest \in SUBSET s /\ rest # s /\ rest \in SUBSET S
  BY <1>4, <1>5 DEF Picks
<1>7. g[rest] = f[rest] /\ f[rest] \in V
  BY <1>3, <1>6 DEF Folds
<1>8. g[s] = step[<<pick[s], g[rest]>>]
  BY <1>4, <1>5, <1>7 DEF GoesOn
<1>9. f[s] = step[<<pick[s], f[rest]>>]
  BY <1>4, <1>5 DEF Folds
<1>10. QED
  BY <1>4, <1>7, <1>8, <1>9

\* What FoldSet takes next.
Some(s) == CHOOSE x \in s : TRUE
Rest(s) == s \ {Some(s)}
Somehow(S) == [s \in SUBSET S |-> Some(s)]

LEMMA RestIsSmaller ==
  ASSUME NEW s, s # {}
  PROVE  Some(s) \in s /\ Rest(s) \in SUBSET s /\ Rest(s) # s
BY DEF Some, Rest

LEMMA SomehowPicks ==
  ASSUME NEW S
  PROVE  Picks(Somehow(S), S) /\ \A s \in SUBSET S : Somehow(S)[s] = Some(s)
BY RestIsSmaller DEF Picks, Somehow

-----------------------------------------------------------------------------
(* Least and greatest *)

LEMMA SizeOfTwo ==
  ASSUME NEW a, NEW b
  PROVE  IsFiniteSet({a, b}) /\ (a # b => Cardinality({a, b}) = 2)
<1>1. IsFiniteSet({a}) /\ Cardinality({a}) = 1
  BY FS_Singleton
<1>2. {a, b} = {a} \cup {b}
  OBVIOUS
<1>3. IsFiniteSet({a} \cup {b}) /\ (b \notin {a} => Cardinality({a} \cup {b}) = 1 + 1)
  BY <1>1, FS_AddElement
<1>4. QED
  BY <1>2, <1>3

LEMMA MinOfTwo ==
  ASSUME NEW a \in Int, NEW b \in Int
  PROVE  Min({a, b}) = IF a <= b THEN a ELSE b
BY DEF Min

LEMMA MaxOfTwo ==
  ASSUME NEW a \in Int, NEW b \in Int
  PROVE  Max({a, b}) = IF a >= b THEN a ELSE b
BY DEF Max

LEMMA MinOfNumbers ==
  ASSUME NEW S, S \subseteq Nat, S # {}
  PROVE  Min(S) \in S /\ \A x \in S : Min(S) <= x
BY LeastNumber DEF Min

-----------------------------------------------------------------------------
(* The hours of a date *)

\* Pieces of a day, and whether they hold a time.
SomePieces == SUBSET (Int \X Int)
Holds(pieces, t) == \E p \in pieces : p[1] <= t /\ t < p[2]
Pausing(b, t) == b.start <= t /\ t < b.end

\* A break takes its own times from the pieces and no other, and ends them at
\* its start or where they ended.
LEMMA WithoutTakesThePause ==
  ASSUME NEW b \in Interval, NEW pieces \in SomePieces
  PROVE  /\ Without(b, pieces) \in SomePieces
         /\ \A t \in Int : Holds(Without(b, pieces), t) <=> Holds(pieces, t) /\ ~Pausing(b, t)
         /\ \A p \in Without(b, pieces) : p[2] = b.start \/ \E q \in pieces : p[2] = q[2]
<1>1. b.start \in Int /\ b.end \in Int /\ b.start < b.end
  BY HoursAssumption DEF Interval, Times
<1>2. \A piece \in pieces : piece \in Int \X Int /\ piece[1] \in Int /\ piece[2] \in Int
  BY DEF SomePieces
<1> DEFINE before(piece) == <<piece[1], Min({piece[2], b.start})>>
           after(piece) == <<Max({piece[1], b.end}), piece[2]>>
<1>3. \A p : p \in Without(b, pieces) <=>
               \E piece \in pieces : (p = before(piece) \/ p = after(piece)) /\ p[1] < p[2]
  <2> DEFINE left(piece) == {p \in {before(piece), after(piece)} : p[1] < p[2]}
  <2>1. Without(b, pieces) = UNION {left(piece) : piece \in pieces}
    BY DEF Without
  <2>2. \A p, piece : p \in left(piece) <=>
          (p = before(piece) \/ p = after(piece)) /\ p[1] < p[2]
    <3> HIDE DEF before, after
    <3>1. QED
      OBVIOUS
  <2> HIDE DEF left, before, after
  <2>3. \A p : p \in UNION {left(piece) : piece \in pieces} <=>
                 \E piece \in pieces : p \in left(piece)
    OBVIOUS
  <2>4. QED
    BY <2>1, <2>2, <2>3
<1>4. \A piece \in pieces :
        /\ before(piece) \in Int \X Int /\ after(piece) \in Int \X Int
        /\ before(piece)[1] = piece[1]
        /\ before(piece)[2] = IF piece[2] <= b.start THEN piece[2] ELSE b.start
        /\ after(piece)[1] = IF piece[1] >= b.end THEN piece[1] ELSE b.end
        /\ after(piece)[2] = piece[2]
  BY <1>1, <1>2, MinOfTwo, MaxOfTwo
<1> HIDE DEF before, after
<1>5. Without(b, pieces) \in SomePieces
  BY <1>3, <1>4 DEF SomePieces
<1>6. ASSUME NEW t \in Int, Holds(Without(b, pieces), t)
      PROVE  Holds(pieces, t) /\ ~Pausing(b, t)
  <2>1. PICK p \in Without(b, pieces) : p[1] <= t /\ t < p[2]
    BY <1>6 DEF Holds
  <2>2. PICK piece \in pieces : p = before(piece) \/ p = after(piece)
    BY <1>3
  <2>3. piece[1] <= t /\ t < piece[2] /\ ~Pausing(b, t)
    <3>1. CASE p = before(piece)
      BY <1>1, <1>2, <1>4, <2>1, <3>1 DEF Pausing
    <3>2. CASE p = after(piece)
      BY <1>1, <1>2, <1>4, <2>1, <3>2 DEF Pausing
    <3>3. QED
      BY <2>2, <3>1, <3>2
  <2>4. QED
    BY <2>3 DEF Holds
<1>7. ASSUME NEW t \in Int, Holds(pieces, t), ~Pausing(b, t)
      PROVE  Holds(Without(b, pieces), t)
  <2>1. PICK piece \in pieces : piece[1] <= t /\ t < piece[2]
    BY <1>7 DEF Holds
  <2>2. CASE t < b.start
    <3>1. before(piece)[1] <= t /\ t < before(piece)[2] /\ before(piece)[1] < before(piece)[2]
      BY <1>1, <1>2, <1>4, <2>1, <2>2
    <3>2. before(piece) \in Without(b, pieces)
      BY <1>3, <3>1
    <3>3. QED
      BY <3>1, <3>2 DEF Holds
  <2>3. CASE b.end <= t
    <3>1. after(piece)[1] <= t /\ t < after(piece)[2] /\ after(piece)[1] < after(piece)[2]
      BY <1>1, <1>2, <1>4, <2>1, <2>3
    <3>2. after(piece) \in Without(b, pieces)
      BY <1>3, <3>1
    <3>3. QED
      BY <3>1, <3>2 DEF Holds
  <2>4. QED
    BY <1>1, <1>7, <2>2, <2>3 DEF Pausing
<1>8. ASSUME NEW p \in Without(b, pieces)
      PROVE  p[2] = b.start \/ \E q \in pieces : p[2] = q[2]
  <2>1. PICK piece \in pieces : p = before(piece) \/ p = after(piece)
    BY <1>3
  <2>2. QED
    BY <1>4, <2>1
<1>9. QED
  BY <1>5, <1>6, <1>7, <1>8

\* The pieces of an opening are a fold over the breaks of its day.
PieceStep(S) == [pair \in S \X SomePieces |-> Without(pair[1], pair[2])]

LEMMA PieceStepType ==
  ASSUME NEW S, S \subseteq Interval
  PROVE  /\ PieceStep(S) \in [S \X SomePieces -> SomePieces]
         /\ \A b \in S, v \in SomePieces : PieceStep(S)[<<b, v>>] = Without(b, v)
<1>1. \A pair \in S \X SomePieces : pair[1] \in Interval /\ pair[2] \in SomePieces
  OBVIOUS
<1>2. \A pair \in S \X SomePieces : Without(pair[1], pair[2]) \in SomePieces
  BY <1>1, WithoutTakesThePause
<1>3. \A b \in S, v \in SomePieces : <<b, v>> \in S \X SomePieces /\ <<b, v>>[1] = b /\ <<b, v>>[2] = v
  OBVIOUS
<1>4. QED
  BY <1>2, <1>3 DEF PieceStep

\* What the fold of a day is, by its definition.
PieceFold(o, S) ==
  CHOOSE iter : iter = [s \in SUBSET S |->
     IF s = {} THEN {<<o.start, o.end>>}
     ELSE Without(CHOOSE x \in s : TRUE, iter[s \ {CHOOSE x \in s : TRUE}])]

LEMMA PiecesFold ==
  ASSUME NEW o, NEW day
  PROVE  Pieces(o, day) = PieceFold(o, {b \in day : ~b.open})[{b \in day : ~b.open}]
BY DEF Pieces, PieceFold, FoldSet, MapThenFoldSet

LEMMA PiecesRule ==
  ASSUME NEW o \in Interval, NEW day, IsFiniteSet(day), day \subseteq Interval,
         NEW S, S = {b \in day : ~b.open}
  PROVE  \E f : /\ Folds(f, S, Somehow(S), {<<o.start, o.end>>}, PieceStep(S), SomePieces)
                /\ f[S] = Pieces(o, day)
<1> DEFINE base == {<<o.start, o.end>>}
           rule(f) == f = [s \in SUBSET S |->
                             IF s = {} THEN {<<o.start, o.end>>}
                             ELSE Without(CHOOSE x \in s : TRUE, f[s \ {CHOOSE x \in s : TRUE}])]
<1>1. IsFiniteSet(S) /\ S \subseteq Interval
  BY FS_Subset
<1>2. base \in SomePieces
  <2>1. o.start \in Int /\ o.end \in Int
    BY HoursAssumption DEF Interval, Times
  <2>2. QED
    BY <2>1 DEF SomePieces
<1>3. PICK f : Folds(f, S, Somehow(S), base, PieceStep(S), SomePieces)
  <2> HIDE DEF base
  <2>1. QED
    BY <1>1, <1>2, PieceStepType, FoldExists, SomehowPicks
<1>4. \A s \in SUBSET S : s # {} =>
        /\ Somehow(S)[s] = Some(s) /\ Some(s) \in S /\ Rest(s) \in SUBSET S
        /\ s \ {Somehow(S)[s]} = Rest(s)
  BY SomehowPicks, RestIsSmaller DEF Rest
<1>5. \A s \in SUBSET S : f[s] = IF s = {} THEN base ELSE Without(Some(s), f[Rest(s)])
  <2> SUFFICES ASSUME NEW s \in SUBSET S, s # {}
               PROVE  f[s] = Without(Some(s), f[Rest(s)])
    BY <1>3 DEF Folds
  <2>1. Some(s) \in S /\ f[Rest(s)] \in SomePieces
    BY <1>3, <1>4 DEF Folds
  <2>2. f[s] = PieceStep(S)[<<Some(s), f[Rest(s)]>>]
    <3> HIDE DEF base
    <3>1. f[s] = PieceStep(S)[<<Somehow(S)[s], f[s \ {Somehow(S)[s]}]>>]
      BY <1>3 DEF Folds
    <3>2. QED
      BY <1>4, <3>1
  <2>3. QED
    BY <1>1, <2>1, <2>2, PieceStepType
<1>6. f = [s \in SUBSET S |-> f[s]]
  BY <1>3 DEF Folds
<1>7. rule(f)
  <2>1. \A s \in SUBSET S : f[s] =
          IF s = {} THEN {<<o.start, o.end>>}
          ELSE Without(CHOOSE x \in s : TRUE, f[s \ {CHOOSE x \in s : TRUE}])
    BY <1>5 DEF Some, Rest
  <2>2. [s \in SUBSET S |-> f[s]] = [s \in SUBSET S |->
          IF s = {} THEN {<<o.start, o.end>>}
          ELSE Without(CHOOSE x \in s : TRUE, f[s \ {CHOOSE x \in s : TRUE}])]
    BY <2>1
  <2>3. QED
    BY <1>6, <2>2
<1> DEFINE g == PieceFold(o, S)
<1>8. rule(g)
  <2>1. \E h : rule(h)
    <3> HIDE DEF rule
    <3>1. QED
      BY <1>7
  <2>2. g = CHOOSE h : rule(h)
    BY DEF PieceFold
  <2> HIDE DEF g, rule
  <2>3. QED
    BY <2>1, <2>2
<1> HIDE DEF g
<1>9. \A s \in SUBSET S : g[s] = IF s = {} THEN base ELSE Without(Some(s), g[Rest(s)])
  BY <1>8 DEF Some, Rest
<1> HIDE DEF rule, base
<1>10. ASSUME NEW s \in SUBSET S, s # {}, g[s \ {Somehow(S)[s]}] \in SomePieces
       PROVE  g[s] = PieceStep(S)[<<Somehow(S)[s], g[s \ {Somehow(S)[s]}]>>]
  <2>1. Some(s) \in S /\ g[Rest(s)] \in SomePieces /\ g[s] = Without(Some(s), g[Rest(s)])
    BY <1>4, <1>9, <1>10
  <2>2. g[s] = PieceStep(S)[<<Some(s), g[Rest(s)]>>]
    BY <1>1, <2>1, PieceStepType
  <2>3. QED
    BY <1>4, <1>10, <2>2
<1>11. g[{}] = base
  BY <1>9
<1>12. \A s \in SUBSET S : g[s] = f[s]
  <2> DEFINE pick == Somehow(S)
             step == PieceStep(S)
  <2>1. IsFiniteSet(S) /\ Picks(pick, S) /\ Folds(f, S, pick, base, step, SomePieces)
    BY <1>1, <1>3, SomehowPicks
  <2>2. \A s \in SUBSET S : s # {} /\ g[s \ {pick[s]}] \in SomePieces
                            => g[s] = step[<<pick[s], g[s \ {pick[s]}]>>]
    BY <1>10
  <2> HIDE DEF pick, step
  <2>3. GoesOn(g, S, pick, base, step, SomePieces)
    BY <1>11, <2>2 DEF GoesOn
  <2>4. QED
    BY <2>1, <2>3, FoldIsUnique
<1>13. f[S] = Pieces(o, day)
  BY <1>12, PiecesFold DEF g
<1>14. QED
  BY <1>3, <1>13 DEF base

\* What is left of an opening: its times that are in no break, in pieces that end
\* where the opening does or at a break.
PieceOf(o, S, pieces) ==
  /\ \A t \in Int : Holds(pieces, t) <=>
                      o.start <= t /\ t < o.end /\ \A b \in S : ~Pausing(b, t)
  /\ \A p \in pieces : /\ p[1] < p[2]
                       /\ p[2] = o.end \/ \E b \in S : p[2] = b.start

LEMMA WithoutIsPieceOf ==
  ASSUME NEW o \in Interval, NEW S, NEW b \in S, b \in Interval,
         NEW pieces \in SomePieces, PieceOf(o, S \ {b}, pieces)
  PROVE  PieceOf(o, S, Without(b, pieces))
<1>1. \A t \in Int : Holds(Without(b, pieces), t) <=>
                       o.start <= t /\ t < o.end /\ \A c \in S : ~Pausing(c, t)
  BY WithoutTakesThePause DEF PieceOf
<1>2. ASSUME NEW p \in Without(b, pieces)
      PROVE  /\ p[1] < p[2]
             /\ p[2] = o.end \/ \E c \in S : p[2] = c.start
  <2>1. p[1] < p[2]
    BY DEF Without
  <2>2. p[2] = b.start \/ \E q \in pieces : p[2] = q[2]
    BY WithoutTakesThePause
  <2>3. QED
    BY <2>1, <2>2 DEF PieceOf
<1>3. QED
  BY <1>1, <1>2 DEF PieceOf

LEMMA PiecesOfAnOpening ==
  ASSUME NEW o \in Interval, NEW day, IsFiniteSet(day), day \subseteq Interval
  PROVE  /\ Pieces(o, day) \in SomePieces
         /\ PieceOf(o, {b \in day : ~b.open}, Pieces(o, day))
<1> DEFINE S == {b \in day : ~b.open}
           base == {<<o.start, o.end>>}
<1>1. IsFiniteSet(S) /\ S \subseteq Interval
  BY FS_Subset
<1>2. PICK f : /\ Folds(f, S, Somehow(S), base, PieceStep(S), SomePieces)
               /\ f[S] = Pieces(o, day)
  BY PiecesRule
<1>3. PieceOf(o, {}, base)
  <2>1. o.start < o.end
    BY DEF Interval
  <2>2. \A t \in Int : Holds(base, t) <=> o.start <= t /\ t < o.end
    BY DEF Holds
  <2>3. QED
    BY <2>1, <2>2 DEF PieceOf
<1> HIDE DEF S, base
<1> DEFINE bad == {s \in SUBSET S : ~PieceOf(o, s, f[s])}
<1>4. bad = {}
  <2>1. SUFFICES ASSUME bad # {} PROVE FALSE
    OBVIOUS
  <2>2. bad \subseteq SUBSET S
    OBVIOUS
  <2>3. PICK s \in bad : \A r \in SUBSET s : r # s => r \notin bad
    <3> HIDE DEF bad
    <3>1. QED
      BY <1>1, <2>1, <2>2, SmallestSubset
  <2>4. s \in SUBSET S /\ ~PieceOf(o, s, f[s])
    BY <2>3
  <2>5. s # {}
    <3>1. f[{}] = base
      BY <1>2 DEF Folds
    <3>2. QED
      BY <1>3, <2>4, <3>1
  <2>6. Some(s) \in s /\ Rest(s) \in SUBSET S /\ Rest(s) \notin bad
    BY <2>3, <2>4, <2>5, RestIsSmaller
  <2>7. PieceOf(o, s \ {Some(s)}, f[Rest(s)]) /\ f[Rest(s)] \in SomePieces
    <3>1. PieceOf(o, Rest(s), f[Rest(s)])
      BY <2>6
    <3>2. QED
      BY <1>2, <2>6, <3>1 DEF Folds, Rest
  <2>8. f[s] = Without(Some(s), f[Rest(s)])
    <3>1. f[s] = PieceStep(S)[<<Some(s), f[Rest(s)]>>]
      <4>1. f[s] = PieceStep(S)[<<Somehow(S)[s], f[s \ {Somehow(S)[s]}]>>]
        BY <1>2, <2>4, <2>5 DEF Folds
      <4>2. QED
        BY <2>4, <4>1, SomehowPicks DEF Rest
    <3>2. QED
      BY <1>1, <2>4, <2>6, <2>7, <3>1, PieceStepType
  <2>9. Some(s) \in Interval
    BY <1>1, <2>4, <2>6
  <2>10. QED
    BY <2>4, <2>6, <2>7, <2>8, <2>9, WithoutIsPieceOf
<1>5. S \in SUBSET S
  OBVIOUS
<1>6. PieceOf(o, S, f[S]) /\ f[S] \in SomePieces
  BY <1>2, <1>4, <1>5 DEF Folds
<1>7. QED
  BY <1>2, <1>6 DEF S

\* The intervals of a day are finitely many.
LEMMA IntervalsAreFinite == IsFiniteSet(Interval)
<1> DEFINE triples == (Times \X Times) \X BOOLEAN
           records == [start : Times, end : Times, open : BOOLEAN]
           f == [x \in triples |-> [start |-> x[1][1], end |-> x[1][2], open |-> x[2]]]
<1>1. IsFiniteSet(Times)
  BY HoursAssumption, FS_Interval DEF Times
<1>2. IsFiniteSet(BOOLEAN)
  <2>1. BOOLEAN = {TRUE, FALSE}
    OBVIOUS
  <2>2. QED
    BY <2>1, SizeOfTwo, Zenon
<1>3. IsFiniteSet(triples)
  BY <1>1, <1>2, FS_Product
<1>4. f \in Surjection(triples, records)
  <2>1. f \in [triples -> records]
    OBVIOUS
  <2>2. ASSUME NEW r \in records PROVE \E x \in triples : f[x] = r
    <3>1. <<<<r.start, r.end>>, r.open>> \in triples
      OBVIOUS
    <3>2. f[<<<<r.start, r.end>>, r.open>>] = r
      BY <3>1
    <3>3. QED
      BY <3>1, <3>2
  <2>3. QED
    BY <2>1, <2>2 DEF Surjection
<1>5. IsFiniteSet(records)
  <2> HIDE DEF triples, records, f
  <2>1. QED
    BY <1>3, <1>4, FS_Surjection
<1>6. QED
  BY <1>5, FS_Subset DEF Interval

\* The day of any date of a schedule.
LEMMA DayOfADate ==
  ASSUME NEW s, ValidSchedule(s), NEW date \in Int
  PROVE  DayOf(s, date) \subseteq Interval /\ IsFiniteSet(DayOf(s, date))
<1>1. DayOf(s, date) \subseteq Interval
  <2>1. CASE Applying(s, date) = {}
    <3>1. date % WeekLength \in 0..(WeekLength - 1)
      BY HoursAssumption
    <3>2. QED
      BY <2>1, <3>1 DEF DayOf, ValidSchedule, ValidDay
  <2>2. CASE Applying(s, date) # {}
    <3>1. (CHOOSE o \in Applying(s, date) : TRUE) \in s.overrides
      BY <2>2 DEF Applying
    <3>2. QED
      BY <2>2, <3>1 DEF DayOf, ValidSchedule, ValidOverride
  <2>3. QED
    BY <2>1, <2>2
<1>2. QED
  BY <1>1, IntervalsAreFinite, FS_Subset

\* The hours of a date are what its openings leave: they hold the times that an
\* opening holds and no break.
LEMMA HoursOfADate ==
  ASSUME NEW s, ValidSchedule(s), NEW date \in Int
  PROVE  /\ \A t \in Int : Holds(Hours(s, date), t) <=>
              \E o \in DayOf(s, date) :
                 /\ o.open /\ o.start <= t /\ t < o.end
                 /\ \A b \in DayOf(s, date) : ~b.open => ~Pausing(b, t)
         /\ \A p \in Hours(s, date) :
              /\ p[1] \in Times /\ p[2] \in Times /\ p[1] < p[2]
              /\ p = <<p[1], p[2]>>
<1> DEFINE day == DayOf(s, date)
           breaks == {b \in day : ~b.open}
<1>1. day \subseteq Interval /\ IsFiniteSet(day)
  BY DayOfADate
<1>2. \A o \in day : Pieces(o, day) \in SomePieces /\ PieceOf(o, breaks, Pieces(o, day))
  BY <1>1, PiecesOfAnOpening
<1>3. \A p : p \in Hours(s, date) <=> \E o \in day : o.open /\ p \in Pieces(o, day)
  BY DEF Hours
<1> HIDE DEF day
<1>4. \A t \in Int : Holds(Hours(s, date), t) <=>
              \E o \in day :
                 /\ o.open /\ o.start <= t /\ t < o.end
                 /\ \A b \in day : ~b.open => ~Pausing(b, t)
  <2> SUFFICES ASSUME NEW t \in Int
               PROVE  Holds(Hours(s, date), t) <=>
                        \E o \in day :
                           /\ o.open /\ o.start <= t /\ t < o.end
                           /\ \A b \in day : ~b.open => ~Pausing(b, t)
    OBVIOUS
  <2>1. Holds(Hours(s, date), t) <=> \E o \in day : o.open /\ Holds(Pieces(o, day), t)
    BY <1>3 DEF Holds
  <2>2. \A o \in day : Holds(Pieces(o, day), t) <=>
          /\ o.start <= t /\ t < o.end
          /\ \A b \in day : ~b.open => ~Pausing(b, t)
    BY <1>2 DEF PieceOf
  <2>3. QED
    BY <2>1, <2>2
<1>5. ASSUME NEW p \in Hours(s, date)
      PROVE  /\ p[1] \in Times /\ p[2] \in Times /\ p[1] < p[2]
             /\ p = <<p[1], p[2]>>
  <2>1. PICK o \in day : o.open /\ p \in Pieces(o, day)
    BY <1>3
  <2>2. p \in Int \X Int /\ p[1] \in Int /\ p[2] \in Int /\ p = <<p[1], p[2]>>
    <3>1. p \in Int \X Int
      BY <1>2, <2>1 DEF SomePieces
    <3>2. QED
      BY <3>1
  <2>3. p[1] < p[2] /\ (p[2] = o.end \/ \E b \in breaks : p[2] = b.start)
    BY <1>2, <2>1 DEF PieceOf
  <2>4. p[2] \in Times
    BY <1>1, <2>1, <2>3 DEF Interval
  <2>5. Holds(Pieces(o, day), p[1])
    BY <2>1, <2>2, <2>3 DEF Holds
  <2>6. o.start <= p[1]
    BY <1>2, <2>1, <2>2, <2>5 DEF PieceOf
  <2>7. o.start \in Times
    BY <1>1, <2>1 DEF Interval
  <2>8. QED
    BY <2>2, <2>3, <2>4, <2>6, <2>7, HoursAssumption DEF Times
<1>6. QED
  BY <1>4, <1>5 DEF day

-----------------------------------------------------------------------------
(* The wall clock *)

\* A number is a date and a time of day in one way.
LEMMA DateAndTime ==
  ASSUME NEW n \in Int
  PROVE  /\ n \div DayLength \in Int /\ n % DayLength \in Times
         /\ n = (n \div DayLength) * DayLength + (n % DayLength)
BY HoursAssumption DEF Times

LEMMA DatesAreApart ==
  ASSUME NEW d \in Int, NEW e \in Int, d < e
  PROVE  d * DayLength + DayLength <= e * DayLength
<1>1. \A k \in Nat : k * DayLength >= 0
  BY HoursAssumption
<1>2. e - d - 1 \in Nat
  OBVIOUS
<1>3. (e - d - 1) * DayLength >= 0
  BY <1>1, <1>2
<1>4. (e - d - 1) * DayLength = e * DayLength - d * DayLength - DayLength
  BY HoursAssumption
<1>5. d * DayLength \in Int /\ e * DayLength \in Int
  BY HoursAssumption
<1>6. QED
  BY <1>3, <1>4, <1>5, HoursAssumption

\* Dates and times are in the order of their numbers.
LEMMA DateOrder ==
  ASSUME NEW d \in Int, NEW e \in Int, NEW t \in Times, NEW u \in Times
  PROVE  /\ d * DayLength + t \in Int
         /\ d * DayLength + t <= e * DayLength + u <=> d < e \/ (d = e /\ t <= u)
         /\ d * DayLength + t = e * DayLength + u <=> d = e /\ t = u
<1>1. d * DayLength \in Int /\ e * DayLength \in Int
  BY HoursAssumption
<1>2. d < e => d * DayLength + DayLength <= e * DayLength
  BY DatesAreApart
<1>3. e < d => e * DayLength + DayLength <= d * DayLength
  BY DatesAreApart
<1>4. QED
  BY <1>1, <1>2, <1>3, HoursAssumption DEF Times

ZoneType(zone) == zone.at \in Int /\ zone.shift \in -DayLength..DayLength

LEMMA ClockShows ==
  ASSUME NEW zone, ZoneType(zone), NEW i \in Int
  PROVE  /\ Local(zone, i) \in Int /\ Date(zone, i) \in Int /\ Time(zone, i) \in Times
         /\ Local(zone, i) = Date(zone, i) * DayLength + Time(zone, i)
<1>1. Local(zone, i) \in Int
  BY HoursAssumption DEF ZoneType, Local
<1>2. QED
  BY <1>1, DateAndTime DEF Date, Time

LEMMA ClockOrder ==
  ASSUME NEW zone, ZoneType(zone), NEW i \in Int, NEW d \in Int, NEW t \in Times
  PROVE  /\ Local(zone, i) <= d * DayLength + t
              <=> Date(zone, i) < d \/ (Date(zone, i) = d /\ Time(zone, i) <= t)
         /\ d * DayLength + t <= Local(zone, i)
              <=> d < Date(zone, i) \/ (Date(zone, i) = d /\ t <= Time(zone, i))
         /\ Local(zone, i) = d * DayLength + t <=> Date(zone, i) = d /\ Time(zone, i) = t
<1> DEFINE e == Date(zone, i)
           u == Time(zone, i)
<1>1. e \in Int /\ u \in Times /\ Local(zone, i) = e * DayLength + u
  BY ClockShows
<1> HIDE DEF e, u
<1>2. /\ e * DayLength + u <= d * DayLength + t <=> e < d \/ (e = d /\ u <= t)
      /\ e * DayLength + u = d * DayLength + t <=> e = d /\ u = t
  BY <1>1, DateOrder
<1>3. d * DayLength + t <= e * DayLength + u <=> d < e \/ (d = e /\ t <= u)
  BY <1>1, DateOrder
<1>4. QED
  BY <1>1, <1>2, <1>3 DEF e, u

\* The candidates of a time are the instants at which the clock shows it.
LEMMA CandidatesShowIt ==
  ASSUME NEW zone, ZoneType(zone), NEW n \in Int
  PROVE  /\ Candidates(zone, n) \subseteq Int
         /\ \A i \in Int : i \in Candidates(zone, n) <=> Local(zone, i) = n
<1>1. zone.at \in Int /\ zone.shift \in Int
  BY HoursAssumption DEF ZoneType
<1>2. {n, n - zone.shift} \subseteq Int
  BY <1>1
<1>3. \A i \in Int : Local(zone, i) = n => i = n \/ i = n - zone.shift
  BY <1>1 DEF Local
<1>4. QED
  BY <1>2, <1>3 DEF Candidates

LEMMA ShownTwice ==
  ASSUME NEW zone, ZoneType(zone), NEW i \in Int, NEW j \in Int, i # j,
         Local(zone, i) = Local(zone, j)
  PROVE  Cardinality(Candidates(zone, Local(zone, i))) = 2
<1> DEFINE n == Local(zone, i)
<1>1. n \in Int
  BY ClockShows
<1>2. i \in Candidates(zone, n) /\ j \in Candidates(zone, n)
  BY <1>1, CandidatesShowIt
<1>3. Candidates(zone, n) \subseteq {n, n - zone.shift}
  BY DEF Candidates
<1> HIDE DEF n
<1>4. Candidates(zone, n) = {i, j}
  BY <1>2, <1>3
<1>5. QED
  BY <1>4, SizeOfTwo DEF n

\* Where a later instant shows no later time, both times are shown twice.
LEMMA SetBack ==
  ASSUME NEW zone, ZoneType(zone), NEW i \in Int, NEW j \in Int, i < j,
         Local(zone, j) <= Local(zone, i)
  PROVE  /\ Cardinality(Candidates(zone, Local(zone, i))) = 2
         /\ Cardinality(Candidates(zone, Local(zone, j))) = 2
<1>1. zone.at \in Int /\ zone.shift \in Int
  BY HoursAssumption DEF ZoneType
<1>2. /\ i < zone.at /\ zone.at <= j /\ zone.shift < 0
      /\ Local(zone, i) = i /\ Local(zone, j) = j + zone.shift
  BY <1>1 DEF Local
<1>3. i - zone.shift \in Int /\ i # i - zone.shift /\ Local(zone, i - zone.shift) = i
  BY <1>1, <1>2 DEF Local
<1>4. j + zone.shift \in Int /\ j # j + zone.shift /\ Local(zone, j + zone.shift) = j + zone.shift
  BY <1>1, <1>2 DEF Local
<1>5. Cardinality(Candidates(zone, Local(zone, i))) = 2
  BY <1>2, <1>3, ShownTwice
<1>6. Cardinality(Candidates(zone, Local(zone, j))) = 2
  BY <1>2, <1>4, ShownTwice
<1>7. QED
  BY <1>5, <1>6

LEMMA SetBackRepeats ==
  ASSUME ZoneType(company.zone), NEW i \in Int, NEW j \in Int, i < j,
         Local(company.zone, j) <= Local(company.zone, i)
  PROVE  Repeats(Today(i)) /\ Repeats(Today(j))
<1>1. /\ Cardinality(Candidates(company.zone, Local(company.zone, i))) = 2
      /\ Cardinality(Candidates(company.zone, Local(company.zone, j))) = 2
  BY SetBack
<1>2. /\ Time(company.zone, i) \in Times
      /\ Local(company.zone, i) = Today(i) * DayLength + Time(company.zone, i)
      /\ Time(company.zone, j) \in Times
      /\ Local(company.zone, j) = Today(j) * DayLength + Time(company.zone, j)
  BY ClockShows DEF Today
<1>3. QED
  BY <1>1, <1>2 DEF Repeats

\* The boundary of an opening is the first instant that shows its time, that of a
\* closing the last.
LEMMA Boundaries ==
  ASSUME NEW zone, ZoneType(zone), NEW date \in Int, NEW t \in Times,
         Candidates(zone, date * DayLength + t) # {}
  PROVE  /\ OpenAt(zone, date, t) \in Int /\ CloseAt(zone, date, t) \in Int
         /\ Local(zone, OpenAt(zone, date, t)) = date * DayLength + t
         /\ Local(zone, CloseAt(zone, date, t)) = date * DayLength + t
         /\ \A i \in Int : Local(zone, i) = date * DayLength + t =>
              OpenAt(zone, date, t) <= i /\ i <= CloseAt(zone, date, t)
<1> DEFINE n == date * DayLength + t
           all == Candidates(zone, n)
<1>1. n \in Int
  BY DateOrder
<1>2. all \subseteq Int /\ \A i \in Int : i \in all <=> Local(zone, i) = n
  BY <1>1, CandidatesShowIt
<1>3. all \subseteq {n, n - zone.shift} /\ n - zone.shift \in Int
  BY <1>1, HoursAssumption DEF Candidates, ZoneType
<1>4. all # {}
  OBVIOUS
<1> HIDE DEF n, all
<1>5. /\ \E x \in all : \A y \in all : x <= y
      /\ \E x \in all : \A y \in all : x >= y
  <2> DEFINE m == n - zone.shift
  <2>1. m \in Int /\ n \in Int /\ all \subseteq {n, m}
    BY <1>1, <1>3
  <2> HIDE DEF m
  <2>2. CASE n \notin all \/ m \notin all
    <3>1. PICK x \in all : TRUE
      BY <1>4
    <3>2. \A y \in all : y = x
      BY <2>1, <2>2
    <3>3. QED
      BY <2>1, <3>2
  <2>3. CASE n \in all /\ m \in all
    BY <2>1, <2>3
  <2>4. QED
    BY <2>2, <2>3
<1>6. /\ Min(all) \in all /\ \A y \in all : Min(all) <= y
      /\ Max(all) \in all /\ \A y \in all : Max(all) >= y
  BY <1>5 DEF Min, Max
<1>7. OpenAt(zone, date, t) = Min(all) /\ CloseAt(zone, date, t) = Max(all)
  BY DEF OpenAt, CloseAt, all, n
<1>8. ASSUME NEW i \in Int, Local(zone, i) = n
      PROVE  Min(all) <= i /\ i <= Max(all)
  BY <1>2, <1>6, <1>8
<1>9. QED
  BY <1>2, <1>6, <1>7, <1>8 DEF n

\* Nothing shows a time or a later one before its opening, or it or an earlier one
\* after its closing.
LEMMA NothingOutside ==
  ASSUME NEW zone, ZoneType(zone), NEW date \in Int, NEW t \in Times,
         Candidates(zone, date * DayLength + t) # {}, NEW i \in Int
  PROVE  /\ date * DayLength + t <= Local(zone, i) => OpenAt(zone, date, t) <= i
         /\ Local(zone, i) <= date * DayLength + t => i <= CloseAt(zone, date, t)
<1> DEFINE n == date * DayLength + t
           o == OpenAt(zone, date, t)
           c == CloseAt(zone, date, t)
<1>1. zone.at \in Int /\ zone.shift \in Int
  BY HoursAssumption DEF ZoneType
<1>2. n \in Int
  BY DateOrder
<1>3. /\ o \in Int /\ Local(zone, o) = n /\ c \in Int /\ Local(zone, c) = n
      /\ \A k \in Int : Local(zone, k) = n => o <= k /\ k <= c
  BY Boundaries
<1> HIDE DEF n, o, c
<1>4. ASSUME n <= Local(zone, i), i < o PROVE FALSE
  <2>1. i < zone.at /\ n <= i
    BY <1>1, <1>2, <1>3, <1>4 DEF Local
  <2>2. Local(zone, n) = n
    BY <1>1, <1>2, <2>1 DEF Local
  <2>3. QED
    BY <1>2, <1>3, <1>4, <2>1, <2>2
<1>5. ASSUME Local(zone, i) <= n, c < i PROVE FALSE
  <2>1. zone.at <= i /\ i + zone.shift <= n
    BY <1>1, <1>2, <1>3, <1>5 DEF Local
  <2>2. Local(zone, n - zone.shift) = n /\ n - zone.shift \in Int
    BY <1>1, <1>2, <2>1 DEF Local
  <2>3. QED
    BY <1>1, <1>2, <1>3, <1>5, <2>1, <2>2
<1>6. QED
  BY <1>3, <1>4, <1>5 DEF n, o, c

-----------------------------------------------------------------------------
(* The next opening *)

\* What a reader finds in a schedule is what the engine subtracts from it.
LEMMA AdvertisedIsOpen ==
  ASSUME ZoneType(company.zone), NEW s, ValidSchedule(s), NEW i \in Int
  PROVE  /\ Advertised(s, i) <=> IsOpen(s, company.zone, i)
         /\ IsOpen(s, company.zone, i) <=> Holds(Hours(s, Today(i)), Time(company.zone, i))
<1> DEFINE t == Time(company.zone, i)
           day == DayOf(s, Today(i))
<1>1. Today(i) \in Int /\ t \in Int
  BY ClockShows, HoursAssumption DEF Today, Times
<1>2. \A o \in day : o.start \in Int /\ o.end \in Int
  BY <1>1, DayOfADate, HoursAssumption DEF Interval, Times
<1>3. IsOpen(s, company.zone, i) <=> Holds(Hours(s, Today(i)), t)
  BY DEF IsOpen, Holds, Today
<1>4. Holds(Hours(s, Today(i)), t) <=>
        \E o \in day : /\ o.open /\ o.start <= t /\ t < o.end
                       /\ \A b \in day : ~b.open => ~Pausing(b, t)
  BY <1>1, HoursOfADate
<1>5. Advertised(s, i) <=>
        \E o \in day : /\ o.open /\ t \in o.start..(o.end - 1)
                       /\ \A b \in day : ~b.open => t \notin b.start..(b.end - 1)
  BY DEF Advertised, AdvertisedIn
<1> HIDE DEF t, day
<1>6. \A o \in day : /\ t \in o.start..(o.end - 1) <=> o.start <= t /\ t < o.end
                     /\ t \in o.start..(o.end - 1) <=> Pausing(o, t)
  BY <1>1, <1>2 DEF Pausing
<1>7. QED
  BY <1>3, <1>4, <1>5, <1>6 DEF t

\* The openings that a day of the search takes lie ahead, on that day, in its hours.
LEMMA AheadIsOpen ==
  ASSUME ZoneType(company.zone), NEW s, ValidSchedule(s), NEW at \in Nat, NEW offset \in Nat,
         IsValid(s, company.zone, Today(at) + offset),
         NEW o \in Ahead(s, company.zone, at, offset)
  PROVE  o \in Nat /\ at < o /\ Today(o) = Today(at) + offset /\ Advertised(s, o)
<1> DEFINE date == Today(at) + offset
<1>1. date \in Int
  BY ClockShows DEF Today
<1>2. PICK p \in Hours(s, date) : o = OpenAt(company.zone, date, p[1]) /\ o > at
  BY DEF Ahead, Today
<1>3. p[1] \in Times /\ p[2] \in Times /\ p[1] < p[2]
  BY <1>1, HoursOfADate
<1>4. Candidates(company.zone, date * DayLength + p[1]) # {}
  BY DEF IsValid
<1> HIDE DEF date
<1>5. o \in Int /\ Local(company.zone, o) = date * DayLength + p[1]
  BY <1>1, <1>2, <1>3, <1>4, Boundaries
<1>6. Today(o) = date /\ Time(company.zone, o) = p[1]
  BY <1>1, <1>3, <1>5, ClockOrder DEF Today
<1>7. Holds(Hours(s, Today(o)), Time(company.zone, o))
  <2>1. p[1] <= p[1]
    BY <1>3, HoursAssumption DEF Times
  <2>2. QED
    BY <1>3, <1>6, <2>1 DEF Holds
<1>8. Advertised(s, o)
  BY <1>5, <1>7, AdvertisedIsOpen
<1>9. QED
  BY <1>2, <1>5, <1>6, <1>8 DEF date

\* The search takes, on the date of any instant at which the company is open, an
\* opening that is no later, unless that date repeats a time.
LEMMA OpenIsAhead ==
  ASSUME ZoneType(company.zone), NEW s, ValidSchedule(s), NEW at \in Nat,
         ~IsOpen(s, company.zone, at), NEW i \in Int, at <= i, Advertised(s, i),
         ~Repeats(Today(i))
  PROVE  /\ Today(i) - Today(at) \in Nat
         /\ IsValid(s, company.zone, Today(i)) =>
              \E o \in Ahead(s, company.zone, at, Today(i) - Today(at)) : o <= i
<1> DEFINE zone == company.zone
           date == Today(i)
<1>1. /\ Today(at) \in Int /\ Time(zone, at) \in Times
      /\ date \in Int /\ Time(zone, i) \in Times
      /\ Local(zone, at) \in Int /\ Local(zone, at) = Today(at) * DayLength + Time(zone, at)
      /\ Local(zone, i) \in Int /\ Local(zone, i) = date * DayLength + Time(zone, i)
  BY ClockShows DEF Today
<1>2. at < i
  BY AdvertisedIsOpen
<1>3. Local(zone, at) < Local(zone, i)
  BY <1>1, <1>2, SetBackRepeats
<1>4. Today(at) < date \/ (Today(at) = date /\ Time(zone, at) <= Time(zone, i))
  <2>1. Today(at) * DayLength + Time(zone, at) <= date * DayLength + Time(zone, i)
    BY <1>1, <1>3
  <2>2. QED
    BY <1>1, <2>1, DateOrder
<1>5. date - Today(at) \in Nat
  BY <1>1, <1>4
<1>6. ASSUME IsValid(s, zone, date)
      PROVE  \E o \in Ahead(s, zone, at, date - Today(at)) : o <= i
  <2>1. PICK p \in Hours(s, date) : p[1] <= Time(zone, i) /\ Time(zone, i) < p[2]
    BY AdvertisedIsOpen DEF Holds
  <2>2. p[1] \in Times /\ p[2] \in Times
    BY <1>1, HoursOfADate
  <2> DEFINE o == OpenAt(zone, date, p[1])
  <2>3. Candidates(zone, date * DayLength + p[1]) # {}
    BY <1>6 DEF IsValid
  <2>4. o \in Int /\ Local(zone, o) = date * DayLength + p[1]
    BY <1>1, <2>2, <2>3, Boundaries
  <2> HIDE DEF o
  <2>5. Today(o) = date /\ Time(zone, o) = p[1] /\ Local(zone, o) \in Int
    BY <1>1, <2>2, <2>4, ClockOrder, ClockShows DEF Today
  <2>6. o <= i
    <3>1. Local(zone, o) <= Local(zone, i)
      BY <1>1, <2>1, <2>2, <2>4, DateOrder
    <3>2. QED
      BY <2>4, <3>1, SetBackRepeats
  <2>7. ~(date = Today(at) /\ p[1] <= Time(zone, at))
    <3>1. SUFFICES ASSUME date = Today(at), p[1] <= Time(zone, at) PROVE FALSE
      OBVIOUS
    <3>2. Time(zone, at) < p[2]
      BY <1>1, <1>4, <2>1, <2>2, <3>1, HoursAssumption DEF Times
    <3>3. QED
      BY <3>1, <3>2 DEF IsOpen, Today
  <2>8. Local(zone, at) < Local(zone, o)
    <3>1. ~(date * DayLength + p[1] <= Today(at) * DayLength + Time(zone, at))
      BY <1>1, <1>4, <2>2, <2>7, DateOrder
    <3>2. QED
      BY <1>1, <2>4, <2>5, <3>1
  <2>9. at < o
    BY <1>1, <2>4, <2>5, <2>8, SetBackRepeats
  <2>10. date - Today(at) = 0 => p[1] > Time(zone, at)
    BY <1>1, <2>2, <2>7, HoursAssumption DEF Times
  <2>11. Date(zone, at) + (date - Today(at)) = date
    BY <1>1 DEF Today
  <2>12. o \in Ahead(s, zone, at, date - Today(at))
    BY <2>9, <2>10, <2>11 DEF Ahead, o
  <2>13. QED
    BY <2>6, <2>12
<1>7. QED
  BY <1>5, <1>6

\* What the search finds.
LEMMA SearchStops ==
  ASSUME ZoneType(company.zone), NEW s, ValidSchedule(s), NEW at \in Nat
  PROVE  LET next == NextOpening(s, company.zone, at)
         IN  \/ /\ next = Never
                /\ \A offset \in 0..Horizon :
                     /\ IsValid(s, company.zone, Today(at) + offset)
                     /\ Ahead(s, company.zone, at, offset) = {}
             \/ next = Invalid
             \/ \E found \in 0..Horizon :
                  /\ IsValid(s, company.zone, Today(at) + found)
                  /\ next \in Ahead(s, company.zone, at, found)
                  /\ \A o \in Ahead(s, company.zone, at, found) : next <= o
                  /\ \A offset \in 0..Horizon : offset < found =>
                       /\ IsValid(s, company.zone, Today(at) + offset)
                       /\ Ahead(s, company.zone, at, offset) = {}
<1> DEFINE next == NextOpening(s, company.zone, at)
           stops == {offset \in 0..Horizon :
                       \/ ~IsValid(s, company.zone, Today(at) + offset)
                       \/ Ahead(s, company.zone, at, offset) # {}}
<1>1. next = IF stops = {} THEN Never
             ELSE IF ~IsValid(s, company.zone, Today(at) + Min(stops)) THEN Invalid
             ELSE Min(Ahead(s, company.zone, at, Min(stops)))
  BY DEF NextOpening, Today
<1> HIDE DEF next
<1>2. CASE stops = {}
  BY <1>1, <1>2 DEF next
<1>3. CASE stops # {}
  <2>1. stops \subseteq Nat
    BY HoursAssumption
  <2> DEFINE found == Min(stops)
  <2>2. found \in stops /\ \A offset \in stops : found <= offset
    <3> HIDE DEF stops
    <3>1. QED
      BY <1>3, <2>1, MinOfNumbers
  <2>3. CASE ~IsValid(s, company.zone, Today(at) + found)
    <3> HIDE DEF stops
    <3>1. QED
      BY <1>1, <1>3, <2>3 DEF next
  <2>4. CASE IsValid(s, company.zone, Today(at) + found)
    <3>1. found \in 0..Horizon /\ found \in Nat
      BY <2>1, <2>2
    <3>2. Ahead(s, company.zone, at, found) # {}
      <4> HIDE DEF found
      <4>1. QED
        BY <2>2, <2>4
    <3>3. \A offset \in 0..Horizon : offset < found => offset \notin stops
      <4> HIDE DEF stops
      <4>1. QED
        BY <2>1, <2>2, <3>1, HoursAssumption
    <3>4. next = Min(Ahead(s, company.zone, at, found))
      <4> HIDE DEF stops
      <4>1. QED
        BY <1>1, <1>3, <2>4
    <3> HIDE DEF found
    <3>5. Ahead(s, company.zone, at, found) \subseteq Nat
      BY <2>4, <3>1, AheadIsOpen
    <3>6. /\ next \in Ahead(s, company.zone, at, found)
          /\ \A o \in Ahead(s, company.zone, at, found) : next <= o
      BY <3>2, <3>4, <3>5, MinOfNumbers
    <3>7. QED
      BY <2>4, <3>1, <3>3, <3>6 DEF next
  <2>5. QED
    BY <2>3, <2>4
<1>4. QED
  BY <1>2, <1>3

\* The first opening at or after an instant, of hours that the search examines.
LEMMA NextIsFirst ==
  ASSUME ZoneType(company.zone), NEW s, ValidSchedule(s), NEW at \in Nat,
         ~IsOpen(s, company.zone, at),
         NEW next, next = NextOpening(s, company.zone, at), next # Invalid
  PROVE  /\ next # Never => next \in Nat /\ Advertised(s, next)
         /\ \A i \in Int :
              /\ at <= i /\ Advertised(s, i)
              /\ IF next = Never THEN Today(i) <= Today(at) + Horizon ELSE i < next
              => Repeats(Today(i))
<1>1. Today(at) \in Int /\ Horizon \in Nat
  BY ClockShows, HoursAssumption DEF Today
<1>2. CASE next = Never /\ \A offset \in 0..Horizon :
             /\ IsValid(s, company.zone, Today(at) + offset)
             /\ Ahead(s, company.zone, at, offset) = {}
  <2>1. ASSUME NEW i \in Int, at <= i, Advertised(s, i), Today(i) <= Today(at) + Horizon,
               ~Repeats(Today(i))
        PROVE  FALSE
    <3> DEFINE offset == Today(i) - Today(at)
    <3>1. offset \in Nat /\ Today(i) \in Int
      BY <2>1, OpenIsAhead, ClockShows DEF Today
    <3>2. offset \in 0..Horizon /\ Today(at) + offset = Today(i)
      BY <1>1, <2>1, <3>1
    <3>3. IsValid(s, company.zone, Today(i)) /\ Ahead(s, company.zone, at, offset) = {}
      <4> HIDE DEF offset
      <4>1. IsValid(s, company.zone, Today(at) + offset) /\ Ahead(s, company.zone, at, offset) = {}
        BY <1>2, <3>2
      <4>2. QED
        BY <3>2, <4>1
    <3>4. QED
      BY <2>1, <3>3, OpenIsAhead
  <2>2. QED
    BY <1>2, <2>1
<1>3. CASE \E found \in 0..Horizon :
             /\ IsValid(s, company.zone, Today(at) + found)
             /\ next \in Ahead(s, company.zone, at, found)
             /\ \A o \in Ahead(s, company.zone, at, found) : next <= o
             /\ \A offset \in 0..Horizon : offset < found =>
                  /\ IsValid(s, company.zone, Today(at) + offset)
                  /\ Ahead(s, company.zone, at, offset) = {}
  <2>1. PICK found \in 0..Horizon :
             /\ IsValid(s, company.zone, Today(at) + found)
             /\ next \in Ahead(s, company.zone, at, found)
             /\ \A o \in Ahead(s, company.zone, at, found) : next <= o
             /\ \A offset \in 0..Horizon : offset < found =>
                  /\ IsValid(s, company.zone, Today(at) + offset)
                  /\ Ahead(s, company.zone, at, offset) = {}
    BY <1>3
  <2>2. found \in Nat
    BY <1>1
  <2>3. next \in Nat /\ Today(next) = Today(at) + found /\ Advertised(s, next)
    BY <2>1, <2>2, AheadIsOpen
  <2>4. next # Never
    BY <2>3 DEF Never
  <2>5. ASSUME NEW i \in Int, at <= i, Advertised(s, i), i < next, ~Repeats(Today(i))
        PROVE  FALSE
    <3> DEFINE offset == Today(i) - Today(at)
    <3>1. offset \in Nat /\ Today(i) \in Int
      BY <2>5, OpenIsAhead, ClockShows DEF Today
    <3>2. Today(at) + offset = Today(i)
      BY <1>1, <3>1
    <3>3. Today(i) <= Today(next)
      <4>1. Local(company.zone, i) < Local(company.zone, next)
        BY <2>3, <2>5, SetBackRepeats, ClockShows
      <4>2. /\ Local(company.zone, next) = Today(next) * DayLength + Time(company.zone, next)
            /\ Today(next) \in Int /\ Time(company.zone, next) \in Times
            /\ Local(company.zone, next) \in Int /\ Local(company.zone, i) \in Int
        BY <2>3, ClockShows DEF Today
      <4>3. Local(company.zone, i) <= Today(next) * DayLength + Time(company.zone, next)
        BY <4>1, <4>2
      <4>4. QED
        BY <3>1, <4>2, <4>3, ClockOrder DEF Today
    <3>4. offset <= found
      BY <1>1, <2>2, <2>3, <3>1, <3>2, <3>3
    <3>5. CASE offset < found
      <4>1. offset \in 0..Horizon
        BY <1>1, <2>1, <2>2, <3>1, <3>5
      <4> HIDE DEF offset
      <4>2. IsValid(s, company.zone, Today(at) + offset) /\ Ahead(s, company.zone, at, offset) = {}
        BY <2>1, <3>5, <4>1
      <4>3. IsValid(s, company.zone, Today(i))
        BY <3>2, <4>2
      <4>4. QED
        BY <2>5, <4>2, <4>3, OpenIsAhead DEF offset
    <3>6. CASE offset = found
      <4>1. Today(at) + found = Today(i)
        BY <3>2, <3>6
      <4>2. IsValid(s, company.zone, Today(i))
        BY <2>1, <4>1
      <4>3. PICK o \in Ahead(s, company.zone, at, offset) : o <= i
        BY <2>5, <4>2, OpenIsAhead
      <4>4. next <= o
        BY <2>1, <3>6, <4>3
      <4>5. o \in Nat
        BY <2>1, <2>2, <3>6, <4>3, AheadIsOpen
      <4>6. QED
        BY <2>3, <2>5, <4>3, <4>4, <4>5
    <3>7. QED
      BY <2>2, <3>1, <3>4, <3>5, <3>6
  <2>6. QED
    BY <2>3, <2>4, <2>5
<1>4. QED
  BY <1>2, <1>3, SearchStops

-----------------------------------------------------------------------------
(* What is answered *)

NextResult(at) ==
  IF ~Valid(Today(at)) THEN Invalid
  ELSE IF IsOpen(company.hours, company.zone, at) THEN at
  ELSE NextOpening(company.hours, company.zone, at)

DueResult(at, time) == DueAt(company.hours, company.zone, at, time)

SlotsResult(date, now) == IF SlotsValid(date) THEN Slots(date, now) ELSE One(Invalid)

\* An answer is of the schedules and the diaries as they still are.
Answered ==
  /\ company \in Companies
  /\ diary \in [Resources -> Diaries]
  /\ answer.question = "next" => /\ answer.at \in Instants
                                 /\ answer.result = One(NextResult(answer.at))
  /\ answer.question = "due" =>
       /\ answer.at \in Instants /\ answer.about \in ServiceTimes
       /\ answer.result = One(DueResult(answer.at, answer.about))
  /\ answer.question = "slots" =>
       /\ answer.at \in Instants /\ answer.about \in Dates
       /\ answer.result = SlotsResult(answer.about, answer.at)

LEMMA SlotsUnchanged ==
  ASSUME company' = company, diary' = diary
  PROVE  \A date, now : SlotsResult(date, now)' = SlotsResult(date, now)
<1>1. Active' = Active /\ \A date : SlotsValid(date)' = SlotsValid(date)
  BY DEF Active, SlotsValid
<1>2. \A r, from, to : HasCapacity(r, from, to)' = HasCapacity(r, from, to)
  BY DEF HasCapacity, Used
<1>3. \A r, date : Cursors(r, date)' = Cursors(r, date)
  BY DEF Cursors
<1>4. \A start, date, closing : EndsInTime(start, date, closing)' = EndsInTime(start, date, closing)
  BY DEF EndsInTime
<1>5. \A r, date, now : Starts(r, date, now)' = Starts(r, date, now)
  BY <1>2, <1>3, <1>4 DEF Starts
<1>6. \A date, now : Slots(date, now)' = Slots(date, now)
  BY <1>1, <1>5 DEF Slots
<1>7. QED
  BY <1>1, <1>6 DEF SlotsResult

\* Each question is answered with what it computes from the company and the
\* diaries, which no question changes.
THEOREM AlwaysAnswered == Spec => []Answered
<1>1. Init => Answered
  BY DEF Init, Answered, Unasked
<1>2. Answered /\ [Next]_vars => Answered'
  <2>1. SUFFICES ASSUME Answered, [Next]_vars PROVE Answered'
    OBVIOUS
  <2>2. CASE UNCHANGED vars
    <3>1. company' = company /\ diary' = diary /\ answer' = answer
      BY <2>2 DEF vars
    <3>2. \A at : NextResult(at)' = NextResult(at)
      BY <3>1 DEF NextResult, Valid, Today
    <3>3. \A date, now : SlotsResult(date, now)' = SlotsResult(date, now)
      BY <3>1, SlotsUnchanged
    <3>4. \A at, time : DueResult(at, time)' = DueResult(at, time)
      BY <3>1 DEF DueResult
    <3>5. QED
      BY <2>1, <3>1, <3>2, <3>3, <3>4 DEF Answered
  <2>3. ASSUME NEW at \in Instants, AskNextOpening(at) PROVE Answered'
    <3>1. /\ company' = company /\ diary' = diary
          /\ answer' = [question |-> "next", at |-> at, about |-> 0,
                        result |-> One(NextResult(at))]
      BY <2>3 DEF AskNextOpening, Answer, NextResult
    <3>2. NextResult(at)' = NextResult(at)
      BY <3>1 DEF NextResult, Valid, Today
    <3>3. One(NextResult(at))' = One(NextResult(at))
      BY <3>2 DEF One
    <3>4. QED
      BY <2>1, <3>1, <3>3 DEF Answered
  <2>4. ASSUME NEW at \in Instants, NEW time \in ServiceTimes, AskDueAt(at, time)
        PROVE  Answered'
    <3>1. /\ company' = company /\ diary' = diary
          /\ answer' = [question |-> "due", at |-> at, about |-> time,
                        result |-> One(DueResult(at, time))]
      BY <2>4 DEF AskDueAt, Answer, DueResult
    <3>2. DueResult(at, time)' = DueResult(at, time)
      BY <3>1 DEF DueResult
    <3>3. One(DueResult(at, time))' = One(DueResult(at, time))
      BY <3>2 DEF One
    <3>4. QED
      BY <2>1, <3>1, <3>3 DEF Answered
  <2>5. ASSUME NEW date \in Dates, NEW at \in Instants, AskSlots(date, at) PROVE Answered'
    <3>1. /\ company' = company /\ diary' = diary
          /\ answer' = [question |-> "slots", at |-> at, about |-> date,
                        result |-> SlotsResult(date, at)]
      BY <2>5 DEF AskSlots, Answer, SlotsResult
    <3>2. SlotsResult(date, at)' = SlotsResult(date, at)
      BY <3>1, SlotsUnchanged
    <3>3. QED
      BY <2>1, <3>1, <3>2 DEF Answered
  <2>6. QED
    BY <2>1, <2>2, <2>3, <2>4, <2>5 DEF Next
<1>3. QED
  BY <1>1, <1>2, PTL DEF Spec

\* GetNextOpening: an instant at which the schedule is open by its own hours, and
\* before which it is not, in the horizon of the search if there is none, but on a
\* date on which the clock was set back.
THEOREM NextOpeningIsTheFirst == Spec => []NextOpeningIsFirst
<1>1. Answered => NextOpeningIsFirst
  <2>1. SUFFICES ASSUME Answered, Asked("next"), NEW next \in Results
                 PROVE  LET last == Today(answer.at) + Horizon
                            span == IF next = Never
                                    THEN {i \in answer.at..((last + 2) * DayLength) : Today(i) <= last}
                                    ELSE answer.at..(next - 1)
                        IN  /\ next # Never => Advertised(company.hours, next)
                            /\ \A i \in span : Advertised(company.hours, i) => Repeats(Today(i))
    BY DEF NextOpeningIsFirst
  <2> DEFINE at == answer.at
             s == company.hours
  <2>2. /\ at \in Nat /\ ValidSchedule(s) /\ ZoneType(company.zone)
        /\ answer.result = One(NextResult(at)) /\ answer.result # One(Invalid)
    BY <2>1, AvailabilityAssumption DEF Answered, Asked, ZoneType
  <2>3. next = NextResult(at) /\ next # Invalid
    BY <2>1, <2>2 DEF Results, One
  <2>4. Valid(Today(at))
    BY <2>3 DEF NextResult
  <2> HIDE DEF at, s
  <2>5. CASE IsOpen(s, company.zone, at)
    <3>1. next = at
      BY <2>3, <2>4, <2>5 DEF NextResult, s
    <3>2. Advertised(s, next)
      BY <2>2, <2>5, <3>1, AdvertisedIsOpen
    <3>3. next # Never /\ at..(next - 1) = {}
      BY <2>2, <3>1 DEF Never
    <3>4. QED
      BY <3>2, <3>3 DEF at, s
  <2>6. CASE ~IsOpen(s, company.zone, at)
    <3>1. next = NextOpening(s, company.zone, at)
      BY <2>3, <2>4, <2>6 DEF NextResult, s
    <3>2. /\ next # Never => next \in Nat /\ Advertised(s, next)
          /\ \A i \in Int :
               /\ at <= i /\ Advertised(s, i)
               /\ IF next = Never THEN Today(i) <= Today(at) + Horizon ELSE i < next
               => Repeats(Today(i))
      BY <2>2, <2>3, <2>6, <3>1, NextIsFirst
    <3>3. CASE next = Never
      <4>1. ((Today(at) + Horizon) + 2) * DayLength \in Int
        BY <2>2, ClockShows, HoursAssumption DEF Today
      <4>2. QED
        BY <2>2, <3>2, <3>3, <4>1 DEF at, s
    <3>4. CASE next # Never
      BY <2>2, <3>2, <3>4 DEF at, s
    <3>5. QED
      BY <3>3, <3>4
  <2>7. QED
    BY <2>5, <2>6
<1>2. QED
  BY <1>1, AlwaysAnswered, PTL

-----------------------------------------------------------------------------
(* Places that are taken *)

Periods(S) == IsFiniteSet(S) /\ \A p \in S : p.used \in Nat

PlaceStep(S) == [pair \in S \X Nat |-> pair[1].used + pair[2]]

\* What the sum of a set is, by its definition.
PlaceFold(S) ==
  CHOOSE iter : iter = [s \in SUBSET S |->
     IF s = {} THEN 0
     ELSE (CHOOSE x \in s : TRUE).used + iter[s \ {CHOOSE x \in s : TRUE}]]

LEMMA UsedByFold ==
  ASSUME NEW S
  PROVE  UsedBy(S) = PlaceFold(S)[S]
BY DEF UsedBy, PlaceFold, MapThenSumSet, MapThenFoldSet

LEMMA PlacesOfPart ==
  ASSUME NEW S, Periods(S), NEW T, T \in SUBSET S
  PROVE  Periods(T)
BY FS_Subset DEF Periods

LEMMA UsedByRule ==
  ASSUME NEW D, Periods(D)
  PROVE  \E f : /\ Folds(f, D, Somehow(D), 0, PlaceStep(D), Nat)
                /\ \A S \in SUBSET D : f[S] = UsedBy(S)
<1>1. PlaceStep(D) \in [D \X Nat -> Nat]
  <2>1. \A pair \in D \X Nat : pair[1].used \in Nat /\ pair[2] \in Nat
    BY DEF Periods
  <2>2. \A pair \in D \X Nat : pair[1].used + pair[2] \in Nat
    BY <2>1
  <2>3. QED
    BY <2>2 DEF PlaceStep
<1>2. PICK f : Folds(f, D, Somehow(D), 0, PlaceStep(D), Nat)
  BY <1>1, FoldExists, SomehowPicks DEF Periods
<1>3. \A s \in SUBSET D : s # {} =>
        /\ Somehow(D)[s] = Some(s) /\ Some(s) \in s /\ Some(s) \in D /\ Rest(s) \in SUBSET s
        /\ s \ {Somehow(D)[s]} = Rest(s)
  BY SomehowPicks, RestIsSmaller DEF Rest
<1>4. \A s \in SUBSET D : f[s] = IF s = {} THEN 0 ELSE Some(s).used + f[Rest(s)]
  <2> SUFFICES ASSUME NEW s \in SUBSET D
               PROVE  f[s] = IF s = {} THEN 0 ELSE Some(s).used + f[Rest(s)]
    OBVIOUS
  <2>1. f[s] = IF s = {} THEN 0 ELSE PlaceStep(D)[<<Somehow(D)[s], f[s \ {Somehow(D)[s]}]>>]
    BY <1>2 DEF Folds
  <2>2. ASSUME s # {}
        PROVE  PlaceStep(D)[<<Some(s), f[Rest(s)]>>] = Some(s).used + f[Rest(s)]
    <3>1. Some(s) \in D /\ f[Rest(s)] \in Nat
      BY <1>2, <1>3, <2>2 DEF Folds
    <3>2. <<Some(s), f[Rest(s)]>> \in D \X Nat
      BY <3>1
    <3>3. QED
      BY <3>2 DEF PlaceStep
  <2>3. QED
    BY <1>3, <2>1, <2>2
<1>5. ASSUME NEW S \in SUBSET D PROVE f[S] = UsedBy(S)
  <2> DEFINE rule(h) == h = [s \in SUBSET S |->
                IF s = {} THEN 0
                ELSE (CHOOSE x \in s : TRUE).used + h[s \ {CHOOSE x \in s : TRUE}]]
             part == [s \in SUBSET S |-> f[s]]
  <2>1. rule(part)
    <3>1. ASSUME NEW s \in SUBSET S
          PROVE  f[s] = IF s = {} THEN 0
                        ELSE (CHOOSE x \in s : TRUE).used + part[s \ {CHOOSE x \in s : TRUE}]
      <4>1. f[s] = IF s = {} THEN 0 ELSE Some(s).used + f[Rest(s)]
        BY <1>4
      <4>2. Rest(s) \in SUBSET S
        BY DEF Rest
      <4>3. part[Rest(s)] = f[Rest(s)]
        BY <4>2
      <4>4. f[s] = IF s = {} THEN 0 ELSE Some(s).used + part[Rest(s)]
        BY <4>1, <4>3
      <4> HIDE DEF part
      <4>5. QED
        BY <4>4 DEF Some, Rest
    <3>2. QED
      BY <3>1
  <2> DEFINE g == PlaceFold(S)
  <2>2. Folds(part, S, Somehow(D), 0, PlaceStep(D), Nat)
    <3>1. part \in [SUBSET S -> Nat]
      BY <1>2 DEF Folds
    <3>2. ASSUME NEW s \in SUBSET S
          PROVE  part[s] = IF s = {} THEN 0
                           ELSE PlaceStep(D)[<<Somehow(D)[s], part[s \ {Somehow(D)[s]}]>>]
      <4>1. f[s] = IF s = {} THEN 0 ELSE PlaceStep(D)[<<Somehow(D)[s], f[s \ {Somehow(D)[s]}]>>]
        BY <1>2 DEF Folds
      <4>2. part[s] = f[s] /\ part[s \ {Somehow(D)[s]}] = f[s \ {Somehow(D)[s]}]
        OBVIOUS
      <4> HIDE DEF part
      <4>3. QED
        BY <4>1, <4>2
    <3> HIDE DEF part
    <3>3. QED
      BY <3>1, <3>2 DEF Folds
  <2>3. part[S] = f[S]
    OBVIOUS
  <2> HIDE DEF part
  <2>4. rule(g)
    BY <2>1 DEF PlaceFold
  <2> HIDE DEF g
  <2>5. \A s \in SUBSET S : g[s] = IF s = {} THEN 0 ELSE Some(s).used + g[Rest(s)]
    BY <2>4 DEF Some, Rest
  <2> HIDE DEF rule
  <2>6. ASSUME NEW s \in SUBSET S, s # {}, g[s \ {Somehow(D)[s]}] \in Nat
        PROVE  g[s] = PlaceStep(D)[<<Somehow(D)[s], g[s \ {Somehow(D)[s]}]>>]
    <3>1. Some(s) \in D /\ g[Rest(s)] \in Nat /\ g[s] = Some(s).used + g[Rest(s)]
      BY <1>3, <2>5, <2>6
    <3>2. <<Some(s), g[Rest(s)]>> \in D \X Nat
      BY <3>1
    <3>3. g[s] = PlaceStep(D)[<<Some(s), g[Rest(s)]>>]
      BY <3>1, <3>2 DEF PlaceStep
    <3>4. QED
      BY <1>3, <2>6, <3>3
  <2>7. IsFiniteSet(S) /\ Picks(Somehow(D), S)
    BY PlacesOfPart, SomehowPicks DEF Periods, Picks
  <2>8. g[{}] = 0
    BY <2>5
  <2>9. \A s \in SUBSET S : g[s] = part[s]
    <3>1. GoesOn(g, S, Somehow(D), 0, PlaceStep(D), Nat)
      BY <2>6, <2>8 DEF GoesOn
    <3>2. QED
      BY <2>2, <2>7, <3>1, FoldIsUnique
  <2>10. QED
    BY <2>3, <2>9, UsedByFold DEF g
<1>6. QED
  BY <1>2, <1>5

LEMMA UsedBySum ==
  ASSUME NEW S, Periods(S)
  PROVE  /\ UsedBy(S) \in Nat
         /\ S = {} => UsedBy(S) = 0
         /\ S # {} => UsedBy(S) = Some(S).used + UsedBy(Rest(S))
<1>1. PICK f : /\ Folds(f, S, Somehow(S), 0, PlaceStep(S), Nat)
               /\ \A T \in SUBSET S : f[T] = UsedBy(T)
  BY UsedByRule
<1>2. S \in SUBSET S /\ f[S] = UsedBy(S)
  BY <1>1
<1>3. f[S] \in Nat /\ (S = {} => f[S] = 0)
  BY <1>1, <1>2 DEF Folds
<1>4. ASSUME S # {} PROVE f[S] = Some(S).used + UsedBy(Rest(S))
  <2>1. Some(S) \in S /\ Rest(S) \in SUBSET S
    BY <1>4, RestIsSmaller
  <2>2. f[S] = PlaceStep(S)[<<Some(S), f[Rest(S)]>>] /\ f[Rest(S)] \in Nat
    <3>1. f[S] = PlaceStep(S)[<<Somehow(S)[S], f[S \ {Somehow(S)[S]}]>>]
      BY <1>1, <1>2, <1>4 DEF Folds
    <3>2. f[Rest(S)] \in Nat
      BY <1>1, <2>1 DEF Folds
    <3>3. QED
      BY <1>2, <3>1, <3>2, SomehowPicks DEF Rest
  <2>3. <<Some(S), f[Rest(S)]>> \in S \X Nat
    BY <2>1, <2>2
  <2>4. f[Rest(S)] = UsedBy(Rest(S))
    BY <1>1, <2>1
  <2>5. QED
    BY <2>2, <2>3, <2>4 DEF PlaceStep
<1>5. QED
  BY <1>2, <1>3, <1>4

\* The order of a sum does not matter.
LEMMA UsedByLess ==
  ASSUME NEW S, Periods(S), NEW x \in S
  PROVE  UsedBy(S) = x.used + UsedBy(S \ {x})
<1> DEFINE bad == {s \in SUBSET S : \E y \in s : UsedBy(s) # y.used + UsedBy(s \ {y})}
<1>1. bad = {}
  <2>1. SUFFICES ASSUME bad # {} PROVE FALSE
    OBVIOUS
  <2>2. bad \subseteq SUBSET S /\ IsFiniteSet(S)
    BY DEF Periods
  <2>3. PICK s \in bad : \A r \in SUBSET s : r # s => r \notin bad
    <3> HIDE DEF bad
    <3>1. QED
      BY <2>1, <2>2, SmallestSubset
  <2>4. PICK y \in s : s \in SUBSET S /\ UsedBy(s) # y.used + UsedBy(s \ {y})
    BY <2>3
  <2> DEFINE z == Some(s)
  <2>5. z \in s
    BY <2>4, RestIsSmaller
  <2>6. UsedBy(s) = z.used + UsedBy(s \ {z})
    BY <2>4, PlacesOfPart, UsedBySum DEF Rest
  <2> HIDE DEF z
  <2>7. z # y
    BY <2>4, <2>6
  <2>8. /\ s \ {z} \in SUBSET s /\ s \ {z} # s /\ s \ {z} \in SUBSET S
        /\ s \ {y} \in SUBSET s /\ s \ {y} # s /\ s \ {y} \in SUBSET S
        /\ (s \ {z}) \ {y} \in SUBSET S /\ (s \ {z}) \ {y} = (s \ {y}) \ {z}
    BY <2>4, <2>5
  <2>9. s \ {z} \notin bad /\ s \ {y} \notin bad
    BY <2>3, <2>8
  <2>10. UsedBy(s \ {z}) = y.used + UsedBy((s \ {z}) \ {y})
    BY <2>4, <2>7, <2>8, <2>9
  <2>11. UsedBy(s \ {y}) = z.used + UsedBy((s \ {y}) \ {z})
    BY <2>5, <2>7, <2>8, <2>9
  <2>12. /\ y.used \in Nat /\ z.used \in Nat
         /\ UsedBy((s \ {z}) \ {y}) \in Nat /\ UsedBy(s \ {z}) \in Nat /\ UsedBy(s \ {y}) \in Nat
    BY <2>4, <2>5, <2>8, PlacesOfPart, UsedBySum DEF Periods
  <2>13. QED
    BY <2>4, <2>6, <2>8, <2>10, <2>11, <2>12
<1>2. S \in SUBSET S
  OBVIOUS
<1>3. QED
  BY <1>1, <1>2

\* More periods take no fewer places.
LEMMA UsedByMore ==
  ASSUME NEW S, Periods(S), NEW T, T \in SUBSET S
  PROVE  UsedBy(T) <= UsedBy(S)
<1> DEFINE bad == {s \in SUBSET S : T \subseteq s /\ ~(UsedBy(T) <= UsedBy(s))}
<1>1. bad = {}
  <2>1. SUFFICES ASSUME bad # {} PROVE FALSE
    OBVIOUS
  <2>2. bad \subseteq SUBSET S /\ IsFiniteSet(S)
    BY DEF Periods
  <2>3. PICK s \in bad : \A r \in SUBSET s : r # s => r \notin bad
    <3> HIDE DEF bad
    <3>1. QED
      BY <2>1, <2>2, SmallestSubset
  <2>4. s \in SUBSET S /\ T \subseteq s /\ ~(UsedBy(T) <= UsedBy(s))
    BY <2>3
  <2>5. UsedBy(T) \in Nat /\ Periods(s)
    BY <2>4, PlacesOfPart, UsedBySum
  <2>6. s # T
    BY <2>4, <2>5
  <2>7. PICK x \in s : x \notin T
    BY <2>4, <2>6
  <2>8. s \ {x} \in SUBSET s /\ s \ {x} # s /\ s \ {x} \in SUBSET S /\ T \subseteq s \ {x}
    BY <2>4, <2>7
  <2>9. s \ {x} \notin bad
    BY <2>3, <2>8
  <2>10. UsedBy(T) <= UsedBy(s \ {x})
    BY <2>8, <2>9
  <2>11. UsedBy(s) = x.used + UsedBy(s \ {x}) /\ x.used \in Nat /\ UsedBy(s \ {x}) \in Nat
    BY <2>5, <2>7, <2>8, PlacesOfPart, UsedByLess, UsedBySum DEF Periods
  <2>12. QED
    BY <2>4, <2>5, <2>10, <2>11
<1>2. S \in SUBSET S
  OBVIOUS
<1>3. QED
  BY <1>1, <1>2

\* Each period takes its own places.
LEMMA UsedByEach ==
  ASSUME NEW S, Periods(S), NEW x \in S
  PROVE  x.used <= UsedBy(S)
<1>1. UsedBy(S) = x.used + UsedBy(S \ {x})
  BY UsedByLess
<1>2. UsedBy(S \ {x}) \in Nat /\ x.used \in Nat
  <2>1. S \ {x} \in SUBSET S
    OBVIOUS
  <2>2. QED
    BY <2>1, PlacesOfPart, UsedBySum DEF Periods
<1>3. QED
  BY <1>1, <1>2

\* Periods that take no place sum to none.
LEMMA UsedByNone ==
  ASSUME NEW S, Periods(S), \A x \in S : x.used = 0
  PROVE  UsedBy(S) = 0
<1> DEFINE bad == {s \in SUBSET S : UsedBy(s) # 0}
<1>1. bad = {}
  <2>1. SUFFICES ASSUME bad # {} PROVE FALSE
    OBVIOUS
  <2>2. bad \subseteq SUBSET S /\ IsFiniteSet(S)
    BY DEF Periods
  <2>3. PICK s \in bad : \A r \in SUBSET s : r # s => r \notin bad
    <3> HIDE DEF bad
    <3>1. QED
      BY <2>1, <2>2, SmallestSubset
  <2>4. s \in SUBSET S /\ UsedBy(s) # 0 /\ Periods(s)
    BY <2>3, PlacesOfPart
  <2>5. s # {}
    BY <2>4, UsedBySum
  <2>6. Some(s) \in S /\ Rest(s) \in SUBSET S /\ Rest(s) \notin bad
    BY <2>3, <2>4, <2>5, RestIsSmaller
  <2>7. UsedBy(s) = Some(s).used + UsedBy(Rest(s))
    BY <2>4, <2>5, UsedBySum
  <2>8. QED
    BY <2>4, <2>6, <2>7
<1>2. S \in SUBSET S
  OBVIOUS
<1>3. QED
  BY <1>1, <1>2

-----------------------------------------------------------------------------
(* Slots *)

\* What lies between wall times of a window lies in the window.
LEMMA WithinTheWindow ==
  ASSUME ZoneType(company.zone), NEW s, ValidSchedule(s), NEW date \in Int,
         IsValid(s, company.zone, date), NEW p \in Hours(s, date),
         NEW i \in Int, NEW e \in Int,
         date * DayLength + p[1] <= Local(company.zone, i),
         Local(company.zone, e) <= date * DayLength + p[2],
         NEW j \in i..(e - 1)
  PROVE  InWindow(s, j)
<1> DEFINE zone == company.zone
           from == date * DayLength + p[1]
           to == date * DayLength + p[2]
           o == OpenAt(zone, date, p[1])
           c == CloseAt(zone, date, p[2])
<1>1. /\ zone.at \in Int /\ zone.shift \in Int
      /\ -DayLength <= zone.shift /\ zone.shift <= DayLength
      /\ DayLength \in Nat
  BY HoursAssumption DEF ZoneType
<1>2. p[1] \in Times /\ p[2] \in Times
  BY HoursOfADate
<1>3. from \in Int /\ to \in Int /\ to - from < DayLength
  <2>1. date * DayLength \in Int
    BY <1>1
  <2>2. QED
    BY <1>1, <1>2, <2>1 DEF Times
<1>4. Candidates(zone, from) # {} /\ Candidates(zone, to) # {}
  BY DEF IsValid
<1>5. o \in Int /\ Local(zone, o) = from /\ \A k \in Int : Local(zone, k) = from => o <= k
  BY <1>2, <1>4, Boundaries
<1>6. c \in Int /\ Local(zone, c) = to /\ \A k \in Int : Local(zone, k) = to => k <= c
  BY <1>2, <1>4, Boundaries
<1>7. Today(o) = date
  BY <1>2, <1>5, ClockOrder DEF Today
<1> HIDE DEF o, c, from, to
<1>8. o <= i
  BY <1>2, <1>4, NothingOutside DEF o, from
<1>9. e <= c
  BY <1>2, <1>4, NothingOutside DEF c, to
<1>10. o <= j /\ j < c /\ j \in Int
  BY <1>5, <1>6, <1>8, <1>9
<1>11. c - o < 2 * DayLength
  BY <1>1, <1>3, <1>5, <1>6, <1>10 DEF Local
<1> DEFINE near == (j - 2 * DayLength)..(j + 2 * DayLength)
<1>12. o \in near /\ c \in near
  BY <1>1, <1>5, <1>6, <1>10, <1>11
<1>13. /\ \E k \in near : k <= j /\ Local(company.zone, k) = date * DayLength + p[1]
       /\ \E k \in near : k > j /\ Local(company.zone, k) = date * DayLength + p[2]
  BY <1>5, <1>6, <1>10, <1>12 DEF from, to
<1>14. date \in {Today(k) : k \in near}
  BY <1>7, <1>12
<1>15. QED
  BY <1>13, <1>14 DEF InWindow

EndOf(start) == start + Duration + CleanupBuffer
HoursAt(r) == company.resources[r].hours

\* A start that a resource offers.
LEMMA StartFits ==
  ASSUME ZoneType(company.zone), NEW r, ValidSchedule(HoursAt(r)), NEW date \in Int, NEW now \in Int,
         NEW i \in Starts(r, date, now)
  PROVE  /\ i \in Int /\ i - now \in MinimumNotice..BookingHorizon
         /\ HasCapacity(r, i, EndOf(i))
         /\ Today(i) = date
         /\ \E p \in Hours(HoursAt(r), date) :
              /\ date * DayLength + p[1] <= Local(company.zone, i)
              /\ Local(company.zone, EndOf(i)) <= date * DayLength + p[2]
<1>1. PICK c \in Cursors(r, date) : i \in Candidates(company.zone, date * DayLength + c[1])
                                   /\ EndsInTime(i, date, c[2][2])
  BY DEF Starts
<1>2. c[1] \in Times /\ c[2] \in Hours(HoursAt(r), date) /\ c[2][1] <= c[1]
  BY DEF Cursors, HoursAt
<1>3. date * DayLength + c[1] \in Int
  BY <1>2, DateOrder
<1>4. i \in Int /\ Local(company.zone, i) = date * DayLength + c[1]
  BY <1>1, <1>3, CandidatesShowIt
<1>5. Today(i) = date /\ Time(company.zone, i) = c[1]
  BY <1>2, <1>4, ClockOrder DEF Today
<1>6. now + MinimumNotice <= i /\ i <= now + BookingHorizon /\ HasCapacity(r, i, EndOf(i))
  BY DEF Starts, EndOf
<1>7. i - now \in MinimumNotice..BookingHorizon
  BY <1>4, <1>6, AvailabilityAssumption
<1>8. c[2][1] \in Times
  BY <1>2, HoursOfADate
<1>9. date * DayLength + c[2][1] <= Local(company.zone, i)
  BY <1>2, <1>4, <1>8, DateOrder
<1>10. Local(company.zone, EndOf(i)) <= date * DayLength + c[2][2]
  BY <1>1 DEF EndsInTime, EndOf
<1>11. QED
  BY <1>2, <1>4, <1>5, <1>6, <1>7, <1>9, <1>10

\* A slot is a start of the first resource that offers it.
LEMMA SlotIsAStart ==
  ASSUME NEW date, NEW now
  PROVE  /\ \A slot \in Slots(date, now) :
              /\ slot = <<slot[1], slot[2]>>
              /\ slot[2] \in Active /\ slot[1] \in Starts(slot[2], date, now)
              /\ slot[2] = Min({r \in Active : slot[1] \in Starts(r, date, now)})
         /\ \A r \in Active : \A i \in Starts(r, date, now) :
              \E slot \in Slots(date, now) : slot[1] = i /\ slot[2] <= r
<1> DEFINE offering(i) == {r \in Active : i \in Starts(r, date, now)}
<1>1. Slots(date, now) =
        {<<i, Min(offering(i))>> : i \in UNION {Starts(r, date, now) : r \in Active}}
  <2> DEFINE starts == [r \in Active |-> Starts(r, date, now)]
  <2>1. \A r \in Active : starts[r] = Starts(r, date, now)
    OBVIOUS
  <2>2. Slots(date, now) =
          {<<i, Min({r \in Active : i \in starts[r]})>> : i \in UNION {starts[r] : r \in Active}}
    BY DEF Slots
  <2> HIDE DEF starts
  <2>3. \A i : {r \in Active : i \in starts[r]} = offering(i)
    BY <2>1
  <2>4. {starts[r] : r \in Active} = {Starts(r, date, now) : r \in Active}
    BY <2>1
  <2> HIDE DEF offering
  <2>5. QED
    BY <2>2, <2>3, <2>4
<1>2. ASSUME NEW i, offering(i) # {}
      PROVE  Min(offering(i)) \in offering(i) /\ \A r \in offering(i) : Min(offering(i)) <= r
  <2>1. offering(i) \subseteq Nat
    BY AvailabilityAssumption DEF Active
  <2> HIDE DEF offering
  <2>2. QED
    BY <1>2, <2>1, MinOfNumbers
<1>3. ASSUME NEW slot \in Slots(date, now)
      PROVE  /\ slot = <<slot[1], slot[2]>>
             /\ slot[2] \in Active /\ slot[1] \in Starts(slot[2], date, now)
             /\ slot[2] = Min(offering(slot[1]))
  <2>1. PICK i \in UNION {Starts(r, date, now) : r \in Active} : slot = <<i, Min(offering(i))>>
    BY <1>1
  <2>2. offering(i) # {}
    BY <2>1
  <2>3. Min(offering(i)) \in offering(i)
    BY <1>2, <2>2
  <2>4. QED
    BY <2>1, <2>3
<1>4. ASSUME NEW r \in Active, NEW i \in Starts(r, date, now)
      PROVE  \E slot \in Slots(date, now) : slot[1] = i /\ slot[2] <= r
  <2>1. r \in offering(i)
    OBVIOUS
  <2>2. Min(offering(i)) <= r
    <3> HIDE DEF offering
    <3>1. QED
      BY <1>2, <2>1
  <2>3. <<i, Min(offering(i))>> \in Slots(date, now)
    <3> HIDE DEF offering
    <3>1. QED
      BY <1>1
  <2>4. QED
    BY <2>2, <2>3
<1>5. QED
  BY <1>3, <1>4

\* The busy periods of a resource.
LEMMA DiaryType ==
  ASSUME diary \in [Resources -> Diaries], NEW r \in Resources
  PROVE  /\ Periods(diary[r])
         /\ \A p \in diary[r] : p.start \in Int /\ p.end \in Int /\ p.start < p.end
BY AvailabilityAssumption DEF Periods

\* What is free for a time is free at each instant of it.
LEMMA FreeAtEachInstant ==
  ASSUME diary \in [Resources -> Diaries], NEW r \in Resources, NEW i \in Int, NEW e \in Int,
         NEW j \in i..(e - 1)
  PROVE  /\ UsedBy({p \in diary[r] : j \in p.start..(p.end - 1)}) \in Nat
         /\ Used(r, i, e) \in Nat
         /\ UsedBy({p \in diary[r] : j \in p.start..(p.end - 1)}) <= Used(r, i, e)
<1> DEFINE here == {p \in diary[r] : j \in p.start..(p.end - 1)}
           all == {p \in diary[r] : p.start < e /\ i < p.end}
<1>1. Periods(diary[r]) /\ \A p \in diary[r] : p.start \in Int /\ p.end \in Int
  BY DiaryType
<1>2. here \in SUBSET all /\ all \in SUBSET diary[r]
  BY <1>1
<1>3. Used(r, i, e) = UsedBy(all)
  BY DEF Used
<1> HIDE DEF here, all
<1>4. Periods(all) /\ Periods(here)
  BY <1>1, <1>2, PlacesOfPart
<1>5. UsedBy(here) \in Nat /\ UsedBy(all) \in Nat /\ UsedBy(here) <= UsedBy(all)
  BY <1>2, <1>4, UsedByMore, UsedBySum
<1>6. QED
  BY <1>3, <1>5 DEF here

\* What is idle at each instant of a time is idle for the time.
LEMMA IdleAllAlong ==
  ASSUME diary \in [Resources -> Diaries], NEW r \in Resources, NEW i \in Int, NEW e \in Int, i < e,
         \A j \in i..(e - 1) : UsedBy({p \in diary[r] : j \in p.start..(p.end - 1)}) = 0
  PROVE  Used(r, i, e) = 0
<1> DEFINE all == {p \in diary[r] : p.start < e /\ i < p.end}
           here(j) == {p \in diary[r] : j \in p.start..(p.end - 1)}
<1>1. Periods(diary[r]) /\ \A p \in diary[r] : p.start \in Int /\ p.end \in Int /\ p.start < p.end
  BY DiaryType
<1>2. Periods(all) /\ \A j : Periods(here(j))
  BY <1>1, PlacesOfPart
<1>3. ASSUME NEW p \in all PROVE p.used = 0
  <2>1. p \in diary[r] /\ p.start \in Int /\ p.end \in Int /\ p.start < p.end
        /\ p.start < e /\ i < p.end
    BY <1>1
  <2> DEFINE j == IF i <= p.start THEN p.start ELSE i
  <2>2. j \in i..(e - 1) /\ j \in p.start..(p.end - 1)
    BY <2>1
  <2> HIDE DEF j
  <2>3. p \in here(j) /\ UsedBy(here(j)) = 0
    BY <2>1, <2>2
  <2>4. p.used \in Nat
    BY <1>1, <2>1 DEF Periods
  <2> HIDE DEF here
  <2>5. p.used <= UsedBy(here(j))
    BY <1>2, <2>3, UsedByEach
  <2>6. QED
    BY <2>3, <2>4, <2>5
<1>4. UsedBy(all) = 0
  <2> HIDE DEF all
  <2>1. QED
    BY <1>2, <1>3, UsedByNone
<1>5. QED
  BY <1>4 DEF Used

LEMMA TwoRounds ==
  ASSUME NEW t \in Times, NEW u \in Times, NEW a \in {0, DayLength}, NEW b \in {0, DayLength},
         t + a = u + b
  PROVE  t = u /\ a = b
BY HoursAssumption DEF Times

\* The two instants of a time have pages of their own.
LEMMA PagesAreApart ==
  ASSUME ZoneType(company.zone), NEW date \in Int, NEW i \in Int, NEW j \in Int,
         Today(i) = date, Today(j) = date, Page(i) = Page(j)
  PROVE  i = j
<1> DEFINE zone == company.zone
           again(k) == \E c \in Candidates(zone, Local(zone, k)) : c < k
<1>1. /\ Time(zone, i) \in Times /\ Time(zone, j) \in Times
      /\ Local(zone, i) \in Int /\ Local(zone, j) \in Int
      /\ Local(zone, i) = date * DayLength + Time(zone, i)
      /\ Local(zone, j) = date * DayLength + Time(zone, j)
  BY ClockShows DEF Today
<1>2. /\ Page(i) = Time(zone, i) + (IF again(i) THEN DayLength ELSE 0)
      /\ Page(j) = Time(zone, j) + (IF again(j) THEN DayLength ELSE 0)
  BY DEF Page
<1> HIDE DEF again
<1> DEFINE a == IF again(i) THEN DayLength ELSE 0
           b == IF again(j) THEN DayLength ELSE 0
<1>3. Time(zone, i) = Time(zone, j) /\ (again(i) <=> again(j))
  <2>1. Page(i) = Time(zone, i) + a /\ Page(j) = Time(zone, j) + b
    BY <1>2
  <2>2. a \in {0, DayLength} /\ b \in {0, DayLength}
    OBVIOUS
  <2>3. DayLength # 0
    BY HoursAssumption
  <2>4. (again(i) <=> a = DayLength) /\ (again(j) <=> b = DayLength)
    BY <2>3
  <2> HIDE DEF a, b
  <2>5. Time(zone, i) = Time(zone, j) /\ a = b
    <3> DEFINE t == Time(zone, i)
               u == Time(zone, j)
    <3>1. t + a = u + b
      BY <2>1
    <3>2. t \in Times /\ u \in Times
      BY <1>1
    <3> HIDE DEF t, u
    <3>3. t = u /\ a = b
      BY <2>2, <3>1, <3>2, TwoRounds
    <3>4. QED
      BY <3>3 DEF t, u
  <2>6. QED
    BY <2>4, <2>5
<1>4. Local(zone, i) = Local(zone, j)
  BY <1>1, <1>3
<1>5. ASSUME NEW k \in Int, NEW l \in Int, k < l, Local(zone, k) = Local(zone, l),
             Local(zone, l) \in Int
      PROVE  again(l) /\ ~again(k)
  <2> DEFINE n == Local(zone, l)
  <2>1. k \in Candidates(zone, n) /\ l \in Candidates(zone, n)
    BY <1>5, CandidatesShowIt
  <2>2. Candidates(zone, n) \subseteq {n, n - zone.shift}
    BY DEF Candidates
  <2> HIDE DEF n
  <2>3. \A c \in Candidates(zone, n) : c = k \/ c = l
    BY <1>5, <2>1, <2>2
  <2>4. again(l)
    BY <1>5, <2>1 DEF again, n
  <2>5. ~again(k)
    BY <1>5, <2>3 DEF again, n
  <2>6. QED
    BY <2>4, <2>5
<1>6. QED
  BY <1>1, <1>3, <1>4, <1>5

\* What an answered question about slots was asked of.
LEMMA SlotsWereAsked ==
  ASSUME Answered, Asked("slots")
  PROVE  /\ answer.about \in Int /\ answer.at \in Int /\ ZoneType(company.zone)
         /\ diary \in [Resources -> Diaries]
         /\ \A q \in Resources : /\ ValidSchedule(HoursAt(q))
                                 /\ company.resources[q].capacity \in Nat \ {0}
         /\ SlotsValid(answer.about) /\ answer.result = Slots(answer.about, answer.at)
<1>1. company \in Companies /\ diary \in [Resources -> Diaries]
  BY DEF Answered
<1>2. /\ ZoneType(company.zone)
      /\ \A q \in Resources : /\ ValidSchedule(HoursAt(q))
                              /\ company.resources[q].capacity \in Nat \ {0}
  BY <1>1, AvailabilityAssumption DEF ZoneType, HoursAt
<1>3. /\ answer.at \in Instants /\ answer.about \in Dates
      /\ answer.result = SlotsResult(answer.about, answer.at) /\ answer.result # One(Invalid)
  BY DEF Answered, Asked
<1>4. answer.about \in Int /\ answer.at \in Int
  <2>1. answer.at \in Instants /\ answer.about \in Dates
    BY <1>3
  <2>2. Instants \subseteq Int /\ Dates \subseteq Int
    BY AvailabilityAssumption
  <2>3. QED
    BY <2>1, <2>2
<1>5. SlotsValid(answer.about) /\ answer.result = Slots(answer.about, answer.at)
  BY <1>3 DEF SlotsResult
<1>6. QED
  BY <1>1, <1>2, <1>4, <1>5

\* What is offered.
LEMMA OfferedIsFree ==
  ASSUME Answered, Asked("slots"), NEW slot \in answer.result
  PROVE  LET Taken(start) == start..(start + Duration + CleanupBuffer - 1)
         IN  /\ slot[1] - answer.at \in MinimumNotice..BookingHorizon
             /\ \A i \in Taken(slot[1]) :
                  /\ InWindow(company.resources[slot[2]].hours, i)
                  /\ UsedBy({p \in diary[slot[2]] : i \in p.start..(p.end - 1)})
                       < company.resources[slot[2]].capacity
             /\ \A other \in answer.result : Page(other[1]) = Page(slot[1]) => other = slot
<1> DEFINE date == answer.about
           now == answer.at
           start == slot[1]
           r == slot[2]
<1>1. /\ date \in Int /\ now \in Int /\ ZoneType(company.zone)
      /\ diary \in [Resources -> Diaries]
      /\ \A q \in Resources : /\ ValidSchedule(HoursAt(q))
                              /\ company.resources[q].capacity \in Nat
      /\ SlotsValid(date) /\ answer.result = Slots(date, now)
  BY SlotsWereAsked
<1>2. ASSUME NEW other \in answer.result
      PROVE  /\ other = <<other[1], other[2]>> /\ other[2] \in Resources /\ other[2] \in Active
             /\ other[1] \in Starts(other[2], date, now)
             /\ other[2] = Min({q \in Active : other[1] \in Starts(q, date, now)})
             /\ other[1] \in Int /\ Today(other[1]) = date
  <2>1. other \in Slots(date, now)
    BY <1>1
  <2> HIDE DEF date, now
  <2>2. /\ other = <<other[1], other[2]>> /\ other[2] \in Active
        /\ other[1] \in Starts(other[2], date, now)
        /\ other[2] = Min({q \in Active : other[1] \in Starts(q, date, now)})
    BY <2>1, SlotIsAStart
  <2>3. other[2] \in Resources
    BY <2>2 DEF Active
  <2>4. other[1] \in Int /\ Today(other[1]) = date
    BY <1>1, <2>2, <2>3, StartFits
  <2>5. QED
    BY <2>2, <2>3, <2>4
<1>3. /\ r \in Resources /\ r \in Active /\ start \in Starts(r, date, now) /\ start \in Int
  BY <1>2
<1>4. IsValid(HoursAt(r), company.zone, date)
  BY <1>1, <1>3 DEF SlotsValid, HoursAt
<1> HIDE DEF date, now, start, r
<1>5. /\ start - now \in MinimumNotice..BookingHorizon
      /\ HasCapacity(r, start, EndOf(start))
      /\ \E p \in Hours(HoursAt(r), date) :
           /\ date * DayLength + p[1] <= Local(company.zone, start)
           /\ Local(company.zone, EndOf(start)) <= date * DayLength + p[2]
  BY <1>1, <1>3, StartFits
<1>6. EndOf(start) \in Int /\ start + Duration + CleanupBuffer - 1 = EndOf(start) - 1
  BY <1>3, AvailabilityAssumption DEF EndOf
<1>7. ASSUME NEW i \in start..(EndOf(start) - 1)
      PROVE  /\ InWindow(HoursAt(r), i)
             /\ UsedBy({p \in diary[r] : i \in p.start..(p.end - 1)}) < company.resources[r].capacity
  <2>1. InWindow(HoursAt(r), i)
    <3>1. PICK p \in Hours(HoursAt(r), date) :
             /\ date * DayLength + p[1] <= Local(company.zone, start)
             /\ Local(company.zone, EndOf(start)) <= date * DayLength + p[2]
      BY <1>5
    <3>2. QED
      BY <1>1, <1>3, <1>4, <1>6, <3>1, WithinTheWindow
  <2>2. /\ UsedBy({p \in diary[r] : i \in p.start..(p.end - 1)}) \in Nat
        /\ Used(r, start, EndOf(start)) \in Nat
        /\ UsedBy({p \in diary[r] : i \in p.start..(p.end - 1)}) <= Used(r, start, EndOf(start))
    BY <1>1, <1>3, <1>6, FreeAtEachInstant
  <2>3. Used(r, start, EndOf(start)) < company.resources[r].capacity
    BY <1>5 DEF HasCapacity
  <2>4. company.resources[r].capacity \in Nat
    BY <1>1, <1>3
  <2>5. QED
    BY <2>1, <2>2, <2>3, <2>4
<1>8. ASSUME NEW other \in answer.result, Page(other[1]) = Page(start) PROVE other = slot
  <2>1. other[1] = start
    BY <1>1, <1>2, <1>8, PagesAreApart DEF start
  <2>2. other[2] = slot[2]
    BY <1>2, <2>1 DEF start
  <2>3. other = <<other[1], other[2]>> /\ slot = <<slot[1], slot[2]>>
    BY <1>2
  <2>4. QED
    BY <2>1, <2>2, <2>3 DEF start
<1>9. QED
  BY <1>5, <1>6, <1>7, <1>8 DEF start, now, r, HoursAt

\* A start whose time lies in one opening, in no break, and ends on its date, ends
\* in a piece of the opening.
LEMMA OneOpeningHoldsIt ==
  ASSUME ZoneType(company.zone), NEW s, ValidSchedule(s), NEW date \in Int,
         IsValid(s, company.zone, date), ~Repeats(date),
         NEW o \in DayOf(s, date), NEW i \in Int, NEW e \in Int, i < e,
         \A j \in i..(e - 1) : Today(j) = date /\ AdvertisedIn(s, o, j)
  PROVE  \E p \in Hours(s, date) :
           /\ p[1] <= Time(company.zone, i) /\ Time(company.zone, i) < p[2]
           /\ Local(company.zone, e) <= date * DayLength + p[2]
<1> DEFINE zone == company.zone
           day == DayOf(s, date)
           breaks == {b \in day : ~b.open}
<1>1. i \in i..(e - 1)
  OBVIOUS
<1>2. Today(i) = date /\ AdvertisedIn(s, o, i)
  BY <1>1
<1>3. Time(zone, i) \in Int /\ Local(zone, i) = date * DayLength + Time(zone, i)
      /\ Time(zone, i) \in Times
  BY <1>2, ClockShows, HoursAssumption DEF Today, Times
<1>4. day \subseteq Interval /\ IsFiniteSet(day)
  BY DayOfADate
<1>5. \A b \in day : b.start \in Int /\ b.end \in Int /\ b.start < b.end
  BY <1>4, HoursAssumption DEF Interval, Times
<1>6. Pieces(o, day) \in SomePieces /\ PieceOf(o, breaks, Pieces(o, day))
  BY <1>4, PiecesOfAnOpening
<1>7. ASSUME NEW j \in i..(e - 1)
      PROVE  /\ o.open /\ o.start <= Time(zone, j) /\ Time(zone, j) < o.end
             /\ \A b \in breaks : ~Pausing(b, Time(zone, j))
  <2>1. Today(j) = date /\ AdvertisedIn(s, o, j)
    OBVIOUS
  <2>2. Time(zone, j) \in Int
    BY ClockShows, HoursAssumption DEF Times
  <2>3. /\ o.open /\ Time(zone, j) \in o.start..(o.end - 1)
        /\ \A b \in day : ~b.open => Time(zone, j) \notin b.start..(b.end - 1)
    BY <2>1 DEF AdvertisedIn
  <2>4. QED
    BY <1>5, <2>2, <2>3 DEF Pausing
<1> HIDE DEF day, breaks
<1>8. Holds(Pieces(o, day), Time(zone, i))
  BY <1>1, <1>3, <1>6, <1>7 DEF PieceOf
<1>9. PICK p \in Pieces(o, day) : p[1] <= Time(zone, i) /\ Time(zone, i) < p[2]
  BY <1>8 DEF Holds
<1>10. p \in Hours(s, date)
  BY <1>1, <1>7, <1>9 DEF Hours, day
<1>11. p[2] \in Times /\ Candidates(zone, date * DayLength + p[2]) # {}
  BY <1>10, HoursOfADate DEF IsValid
<1> DEFINE c == CloseAt(zone, date, p[2])
<1>12. c \in Int /\ Local(zone, c) = date * DayLength + p[2]
  BY <1>11, Boundaries
<1> HIDE DEF c
<1>13. Today(c) = date /\ Time(zone, c) = p[2] /\ Local(zone, c) \in Int
  BY <1>11, <1>12, ClockOrder, ClockShows DEF Today
<1>14. i < c
  <2>1. ~(date * DayLength + p[2] <= date * DayLength + Time(zone, i))
    BY <1>3, <1>9, <1>11, DateOrder, HoursAssumption DEF Times
  <2>2. Local(zone, i) < Local(zone, c)
    BY <1>3, <1>12, <1>13, <2>1, ClockShows
  <2>3. i # c /\ (c < i => Local(zone, i) <= Local(zone, c)) /\ Local(zone, i) \in Int
    BY <1>13, <2>2, ClockShows
  <2>4. ~(c < i)
    BY <1>12, <1>13, <2>3, SetBackRepeats
  <2>5. QED
    BY <1>12, <2>3, <2>4
<1>15. c \notin i..(e - 1)
  <2>1. SUFFICES ASSUME c \in i..(e - 1) PROVE FALSE
    OBVIOUS
  <2>2. p[2] < o.end /\ \A b \in breaks : ~Pausing(b, p[2])
    BY <1>7, <1>13, <2>1
  <2>3. p[2] = o.end \/ \E b \in breaks : p[2] = b.start
    BY <1>6, <1>9 DEF PieceOf
  <2>4. o.end \in Int
    BY <1>5 DEF day
  <2>5. PICK b \in breaks : p[2] = b.start
    BY <2>2, <2>3, <2>4
  <2>6. Pausing(b, p[2])
    BY <1>5, <2>5 DEF breaks, Pausing
  <2>7. QED
    BY <2>2, <2>6
<1>16. e <= c
  BY <1>12, <1>14, <1>15
<1>17. Local(zone, e) <= Local(zone, c)
  <2>1. CASE e = c
    BY <1>13, <2>1
  <2>2. CASE e < c
    <3>1. ~(Local(zone, c) <= Local(zone, e))
      BY <1>12, <1>13, <2>2, SetBackRepeats
    <3>2. QED
      BY <1>13, <3>1, ClockShows
  <2>3. QED
    BY <1>12, <1>16, <2>1, <2>2
<1>18. QED
  BY <1>9, <1>10, <1>12, <1>17

\* What is free is offered.
LEMMA IdleIsOffered ==
  ASSUME Answered, Asked("slots"), ~Repeats(answer.about), NEW r \in Active, NEW i \in Int,
         Today(i) = answer.about, Time(company.zone, i) % SlotInterval = 0,
         i - answer.at \in MinimumNotice..BookingHorizon,
         \A j \in i..(EndOf(i) - 1) : UsedBy({p \in diary[r] : j \in p.start..(p.end - 1)}) = 0,
         NEW o \in DayOf(HoursAt(r), answer.about),
         \A j \in i..(EndOf(i) - 1) : Today(j) = answer.about /\ AdvertisedIn(HoursAt(r), o, j),
         Date(company.zone, EndOf(i)) = answer.about
  PROVE  \E slot \in answer.result : slot[1] = i /\ slot[2] <= r
<1> DEFINE date == answer.about
           now == answer.at
           e == EndOf(i)
<1>1. /\ date \in Int /\ now \in Int /\ ZoneType(company.zone) /\ r \in Resources
      /\ diary \in [Resources -> Diaries]
      /\ ValidSchedule(HoursAt(r)) /\ company.resources[r].capacity \in Nat \ {0}
      /\ answer.result = Slots(date, now)
  BY SlotsWereAsked DEF Active
<1>2. IsValid(HoursAt(r), company.zone, date)
  BY SlotsWereAsked DEF SlotsValid, HoursAt
<1>3. e \in Int /\ i < e
  BY AvailabilityAssumption DEF EndOf
<1> HIDE DEF now, e
<1>4. PICK p \in Hours(HoursAt(r), date) :
        /\ p[1] <= Time(company.zone, i) /\ Time(company.zone, i) < p[2]
        /\ Local(company.zone, e) <= date * DayLength + p[2]
  BY <1>1, <1>2, <1>3, OneOpeningHoldsIt DEF e
<1> HIDE DEF date
<1>5. Time(company.zone, i) \in Times /\ Local(company.zone, i) = date * DayLength + Time(company.zone, i)
  BY <1>1, ClockShows DEF Today, date
<1> DEFINE c == <<Time(company.zone, i), p>>
<1>6. c \in Cursors(r, date)
  BY <1>4, <1>5 DEF Cursors, HoursAt
<1>7. i \in Candidates(company.zone, date * DayLength + c[1])
  <2>1. date * DayLength + Time(company.zone, i) \in Int
    BY <1>1, <1>5, DateOrder
  <2>2. QED
    BY <1>1, <1>5, <2>1, CandidatesShowIt
<1>8. EndsInTime(i, date, c[2][2])
  BY <1>4 DEF EndsInTime, EndOf, e, date
<1>9. HasCapacity(r, i, e)
  <2>1. Used(r, i, e) = 0
    BY <1>1, <1>3, IdleAllAlong DEF e
  <2>2. QED
    BY <1>1, <2>1 DEF HasCapacity
<1>10. now + MinimumNotice <= i /\ i <= now + BookingHorizon
  BY <1>1, AvailabilityAssumption DEF now
<1>11. i \in Starts(r, date, now)
  <2> HIDE DEF c
  <2>1. i \in {k \in Candidates(company.zone, date * DayLength + c[1]) : EndsInTime(k, date, c[2][2])}
    BY <1>7, <1>8
  <2>2. QED
    BY <1>6, <1>9, <1>10, <2>1 DEF Starts, e, EndOf
<1>12. QED
  BY <1>1, <1>11, SlotIsAStart

\* BookingApplication.availability: what is offered is in the hours and has a
\* place at each instant, what is idle in one opening is offered, and each press
\* finds one slot, whatever the clock does.
THEOREM OffersMatchTheDiary == Spec => []OfferMatchesTheDiary
<1>1. Answered => OfferMatchesTheDiary
  <2>1. SUFFICES ASSUME Answered PROVE OfferMatchesTheDiary
    OBVIOUS
  <2>2. \A i \in Int : i + Duration + CleanupBuffer - 1 = EndOf(i) - 1
    BY AvailabilityAssumption DEF EndOf
  <2>3. ((answer.about - 1) * DayLength)..((answer.about + 2) * DayLength) \subseteq Int
    OBVIOUS
  <2>4. ASSUME Asked("slots"), ~Repeats(answer.about), NEW r \in Active,
               NEW i \in ((answer.about - 1) * DayLength)..((answer.about + 2) * DayLength),
               Today(i) = answer.about, Time(company.zone, i) % SlotInterval = 0,
               i - answer.at \in MinimumNotice..BookingHorizon,
               \A j \in i..(i + Duration + CleanupBuffer - 1) :
                 UsedBy({p \in diary[r] : j \in p.start..(p.end - 1)}) = 0,
               NEW o \in DayOf(company.resources[r].hours, answer.about),
               \A j \in i..(i + Duration + CleanupBuffer - 1) :
                 Today(j) = answer.about /\ AdvertisedIn(company.resources[r].hours, o, j),
               Date(company.zone, i + Duration + CleanupBuffer) = answer.about
        PROVE  \E slot \in answer.result : slot[1] = i /\ slot[2] <= r
    <3>1. i \in Int /\ i + Duration + CleanupBuffer - 1 = EndOf(i) - 1
      BY <2>2, <2>3
    <3>2. QED
      BY <2>1, <2>4, <3>1, IdleIsOffered DEF HoursAt, EndOf
  <2>5. QED
    BY <2>1, <2>4, OfferedIsFree DEF OfferMatchesTheDiary
<1>2. QED
  BY <1>1, AlwaysAnswered, PTL

-----------------------------------------------------------------------------
(* Windows *)

\* The windows of dates: a date and a piece of its hours.
Windows(s, dates) ==
  {v \in Int \X (Times \X Times) : v[1] \in dates /\ v[2] \in Hours(s, v[1])}

StartOf(v) == v[1] * DayLength + v[2][1]
OpenOf(v) == OpenAt(company.zone, v[1], v[2][1])
CloseOf(v) == CloseAt(company.zone, v[1], v[2][2])
InSpan(v, i) == OpenOf(v) <= i /\ i < CloseOf(v)

\* The dates from the one of an instant on, and their windows that the engine uses.
Onward(at) == {date \in Int : Today(at) <= date}
Usable(s, at) == {v \in Windows(s, Onward(at)) : IsValid(s, company.zone, v[1])}

LEMMA WindowSpan ==
  ASSUME ZoneType(company.zone), NEW s, ValidSchedule(s), NEW at, NEW v \in Usable(s, at)
  PROVE  /\ StartOf(v) \in Int /\ OpenOf(v) \in Int /\ CloseOf(v) \in Int /\ OpenOf(v) < CloseOf(v)
         /\ Span(company.zone, v[1], v[2]) = <<OpenOf(v), CloseOf(v)>>
         /\ Local(company.zone, OpenOf(v)) = StartOf(v)
         /\ \A i \in Int :
              /\ StartOf(v) <= Local(company.zone, i) => OpenOf(v) <= i
              /\ Local(company.zone, i) <= v[1] * DayLength + v[2][2] => i <= CloseOf(v)
              /\ InSpan(v, i) => InWindow(s, i)
<1> DEFINE date == v[1]
           p == v[2]
           zone == company.zone
<1>1. date \in Int /\ p \in Hours(s, date) /\ IsValid(s, zone, date)
  BY DEF Usable, Windows
<1>2. p[1] \in Times /\ p[2] \in Times
  BY <1>1, HoursOfADate
<1>3. /\ Candidates(zone, date * DayLength + p[1]) # {}
      /\ Candidates(zone, date * DayLength + p[2]) # {}
      /\ OpenAt(zone, date, p[1]) < CloseAt(zone, date, p[2])
  BY <1>1 DEF IsValid
<1> HIDE DEF date, p
<1>4. /\ OpenAt(zone, date, p[1]) \in Int
      /\ Local(zone, OpenAt(zone, date, p[1])) = date * DayLength + p[1]
      /\ \A i \in Int : date * DayLength + p[1] <= Local(zone, i) => OpenAt(zone, date, p[1]) <= i
  BY <1>1, <1>2, <1>3, Boundaries, NothingOutside
<1>5. /\ CloseAt(zone, date, p[2]) \in Int
      /\ Local(zone, CloseAt(zone, date, p[2])) = date * DayLength + p[2]
      /\ \A i \in Int : Local(zone, i) <= date * DayLength + p[2] => i <= CloseAt(zone, date, p[2])
  BY <1>1, <1>2, <1>3, Boundaries, NothingOutside
<1>6. date * DayLength + p[1] \in Int /\ date * DayLength + p[2] \in Int
  BY <1>1, <1>2, DateOrder
<1>7. ASSUME NEW i \in Int, OpenAt(zone, date, p[1]) <= i, i < CloseAt(zone, date, p[2])
      PROVE  InWindow(s, i)
  <2> DEFINE o == OpenAt(zone, date, p[1])
             c == CloseAt(zone, date, p[2])
  <2>1. o \in Int /\ c \in Int /\ i \in o..(c - 1)
    BY <1>4, <1>5, <1>7
  <2>2. date * DayLength + p[1] <= Local(zone, o) /\ Local(zone, c) <= date * DayLength + p[2]
    BY <1>4, <1>5, <1>6
  <2> HIDE DEF o, c
  <2>3. QED
    BY <1>1, <2>1, <2>2, WithinTheWindow
<1>8. /\ StartOf(v) = date * DayLength + p[1]
      /\ OpenOf(v) = OpenAt(zone, date, p[1]) /\ CloseOf(v) = CloseAt(zone, date, p[2])
      /\ Span(zone, v[1], v[2]) = <<OpenOf(v), CloseOf(v)>>
  BY DEF StartOf, OpenOf, CloseOf, Span, date, p
<1>9. \A i \in Int : InSpan(v, i) => InWindow(s, i)
  BY <1>7, <1>8 DEF InSpan
<1>10. QED
  BY <1>3, <1>4, <1>5, <1>6, <1>8, <1>9 DEF date, p

\* Where the clock does not go back to an earlier date, what is in a window is in
\* one of the dates that are counted.
LEMMA WindowOfATime ==
  ASSUME ZoneType(company.zone), NEW s, ValidSchedule(s), NEW at \in Int, NEW i \in Int, at <= i,
         \A j \in Int : at <= j => Today(j) >= Today(at),
         InWindow(s, i)
  PROVE  \E v \in Windows(s, Onward(at)) :
           /\ \E j \in Int : j <= i /\ Local(company.zone, j) = StartOf(v)
           /\ \E j \in Int : j > i /\ Local(company.zone, j) = v[1] * DayLength + v[2][2]
<1> DEFINE near == (i - 2 * DayLength)..(i + 2 * DayLength)
<1>1. near \subseteq Int
  OBVIOUS
<1>2. PICK date \in {Today(j) : j \in near} : \E p \in Hours(s, date) :
        /\ \E j \in near : j <= i /\ Local(company.zone, j) = date * DayLength + p[1]
        /\ \E j \in near : j > i /\ Local(company.zone, j) = date * DayLength + p[2]
  BY DEF InWindow
<1>3. PICK p \in Hours(s, date) :
        /\ \E j \in near : j <= i /\ Local(company.zone, j) = date * DayLength + p[1]
        /\ \E j \in near : j > i /\ Local(company.zone, j) = date * DayLength + p[2]
  BY <1>2
<1> HIDE DEF near
<1>4. date \in Int
  BY <1>1, <1>3, ClockShows DEF Today
<1>5. p[1] \in Times /\ p[2] \in Times /\ p = <<p[1], p[2]>>
  BY <1>4, HoursOfADate
<1>6. PICK j \in Int : j > i /\ Local(company.zone, j) = date * DayLength + p[2]
  BY <1>1, <1>3
<1>7. Today(j) = date
  BY <1>4, <1>5, <1>6, ClockOrder DEF Today
<1>8. Today(at) <= date
  BY <1>6, <1>7, <1>4, ClockShows DEF Today
<1> DEFINE v == <<date, p>>
<1>9. v \in Int \X (Times \X Times) /\ v[1] = date /\ v[2] = p
  BY <1>4, <1>5
<1>10. v \in Windows(s, Onward(at))
  BY <1>4, <1>8, <1>9 DEF Windows, Onward
<1>11. StartOf(v) = date * DayLength + p[1]
  BY <1>9 DEF StartOf
<1> HIDE DEF v
<1>12. QED
  BY <1>1, <1>3, <1>9, <1>10, <1>11

-----------------------------------------------------------------------------
(* The time that is worked off *)

WorkType == [due : Int, left : Int, cursor : Int]

\* The instants that windows have, from one instant on.
Counted(at, P) == {i \in Int : at <= i /\ \E v \in P : InSpan(v, i)}

\* What is left of a service time when some windows have been gone through: each of
\* their instants has been counted once, and none of them is still to come.
Worked(s, at, time, P, w) ==
  /\ w \in WorkType
  /\ w.due = Never =>
       /\ 1 <= w.left /\ at <= w.cursor
       /\ \A v \in P : CloseOf(v) <= w.cursor
       /\ w.cursor = at \/ \E v \in P : CloseOf(v) = w.cursor
       /\ Cardinality(Counted(at, P)) + w.left = time
  /\ w.due \notin {Never, Invalid} =>
       /\ InWindow(s, w.due - 1)
       /\ Cardinality({i \in at..(w.due - 1) : InWindow(s, i)}) = time

\* No window that is left out starts before one that is taken.
Earlier(s, at, P) ==
  P \subseteq Usable(s, at) /\ \A v \in P, u \in Windows(s, Onward(at)) \ P : StartOf(v) <= StartOf(u)

\* The sizes of two sets of instants, one before the other.
LEMMA SizeOfBoth ==
  ASSUME NEW a \in Int, NEW b \in Int, NEW c \in Int, b <= c,
         NEW S, S \subseteq a..(b - 1)
  PROVE  /\ IsFiniteSet(S) /\ Cardinality(S) \in Nat
         /\ Cardinality(S \cup (b..(c - 1))) = Cardinality(S) + (c - b)
<1> DEFINE R == a..(b - 1)
           T == b..(c - 1)
<1>1. b - 1 \in Int /\ c - 1 \in Int
  OBVIOUS
<1>2. IsFiniteSet(R) /\ IsFiniteSet(T)
  BY <1>1, FS_Interval
<1>3. Cardinality(T) = c - b
  <2>1. Cardinality(T) = IF b > c - 1 THEN 0 ELSE ((c - 1) - b) + 1
    BY <1>1, FS_Interval
  <2> HIDE DEF T
  <2>2. QED
    BY <2>1
<1>4. S \cap T = {}
  OBVIOUS
<1>5. S \subseteq R
  OBVIOUS
<1> HIDE DEF R, T
<1>6. IsFiniteSet(S) /\ Cardinality(S) \in Nat
  BY <1>2, <1>5, FS_Subset, FS_CardinalityType
<1>7. Cardinality(S \cup T) = Cardinality(S) + Cardinality(T) - Cardinality(S \cap T)
  BY <1>2, <1>6, FS_Union
<1>8. Cardinality(S \cap T) = 0
  BY <1>4, FS_EmptySet
<1>9. QED
  BY <1>3, <1>6, <1>7, <1>8 DEF T

\* A window is gone through after those that start no later.
LEMMA WindowWorked ==
  ASSUME ZoneType(company.zone), NEW s, ValidSchedule(s), NEW at \in Nat, NEW time \in Int,
         \A j \in Int : at <= j => Today(j) >= Today(at),
         NEW P, NEW v \in Usable(s, at), Earlier(s, at, P), Earlier(s, at, P \cup {v}),
         \A u \in P : StartOf(u) <= StartOf(v),
         NEW w, Worked(s, at, time, P, w)
  PROVE  Worked(s, at, time, P \cup {v}, Work(w, Span(company.zone, v[1], v[2])))
<1> DEFINE zone == company.zone
           o == OpenOf(v)
           c == CloseOf(v)
           Q == P \cup {v}
           from == Max({w.cursor, o})
           next == Work(w, Span(zone, v[1], v[2]))
<1>1. /\ StartOf(v) \in Int /\ o \in Int /\ c \in Int /\ o < c
      /\ Local(zone, o) = StartOf(v)
      /\ Span(zone, v[1], v[2]) = <<o, c>>
      /\ \A i \in Int :
           /\ StartOf(v) <= Local(zone, i) => o <= i
           /\ InSpan(v, i) => InWindow(s, i)
  BY WindowSpan
<1>2. \A u \in P :
        /\ u \in Usable(s, at) /\ StartOf(u) \in Int /\ OpenOf(u) \in Int /\ CloseOf(u) \in Int
        /\ OpenOf(u) < CloseOf(u) /\ Local(zone, OpenOf(u)) = StartOf(u)
        /\ \A i \in Int :
             /\ StartOf(u) <= Local(zone, i) => OpenOf(u) <= i
             /\ Local(zone, i) <= u[1] * DayLength + u[2][2] => i <= CloseOf(u)
             /\ InSpan(u, i) => InWindow(s, i)
  BY WindowSpan DEF Earlier
<1>3. w \in WorkType /\ w.due \in Int /\ w.left \in Int /\ w.cursor \in Int
  BY DEF Worked, WorkType
<1>4. from = IF w.cursor >= o THEN w.cursor ELSE o
  BY <1>1, <1>3, MaxOfTwo
<1>5. next = IF w.due # Never \/ from >= c THEN w
             ELSE IF w.left <= c - from THEN [w EXCEPT !.due = from + w.left]
             ELSE [w EXCEPT !.left = @ - (c - from), !.cursor = c]
  BY <1>1 DEF Work
<1> HIDE DEF o, c, from, next
<1>6. CASE w.due # Never
  <2>1. next = w
    BY <1>5, <1>6
  <2>2. Worked(s, at, time, Q, w)
    BY <1>6 DEF Worked
  <2>3. QED
    BY <2>1, <2>2 DEF next
<1>7. CASE w.due = Never
  <2>1. /\ 1 <= w.left /\ at <= w.cursor
        /\ \A u \in P : CloseOf(u) <= w.cursor
        /\ w.cursor = at \/ \E u \in P : CloseOf(u) = w.cursor
        /\ Cardinality(Counted(at, P)) + w.left = time
    BY <1>7 DEF Worked
  <2>2. Counted(at, P) \subseteq at..(w.cursor - 1)
    BY <1>2, <1>3, <2>1 DEF Counted, InSpan
  <2>3. ASSUME NEW i \in Int, at <= i, o <= i, i < w.cursor
        PROVE  i \in Counted(at, P)
    <3>1. PICK u \in P : CloseOf(u) = w.cursor
      BY <1>3, <2>1, <2>3
    <3>2. OpenOf(u) <= o
      BY <1>1, <1>2
    <3>3. InSpan(u, i)
      BY <1>1, <1>2, <2>3, <3>1, <3>2 DEF InSpan
    <3>4. QED
      BY <2>3, <3>3 DEF Counted
  <2>4. from \in Int /\ w.cursor <= from /\ o <= from /\ at <= from
    BY <1>1, <1>3, <1>4, <2>1
  <2>5. \A i : InSpan(v, i) <=> o <= i /\ i < c
    BY DEF InSpan, o, c
  <2>6. CASE from >= c
    <3>1. next = w
      BY <1>5, <2>6
    <3>2. c <= w.cursor
      BY <1>1, <1>3, <1>4, <2>6
    <3>3. Counted(at, Q) = Counted(at, P)
      <4>1. ASSUME NEW i \in Int, at <= i, InSpan(v, i) PROVE i \in Counted(at, P)
        BY <1>1, <1>3, <2>3, <2>5, <3>2, <4>1
      <4>2. QED
        BY <4>1 DEF Counted
    <3>4. \A u \in Q : CloseOf(u) <= w.cursor
      BY <2>1, <3>2 DEF c
    <3>5. w.cursor = at \/ \E u \in Q : CloseOf(u) = w.cursor
      BY <2>1
    <3>6. Worked(s, at, time, Q, w)
      BY <1>3, <1>7, <2>1, <3>3, <3>4, <3>5 DEF Worked
    <3>7. QED
      BY <3>1, <3>6 DEF next
  <2>7. CASE from < c /\ w.left > c - from
    <3>1. /\ next \in WorkType
          /\ next.due = Never /\ next.left = w.left - (c - from) /\ next.cursor = c
      <4>1. next = [w EXCEPT !.left = w.left - (c - from), !.cursor = c]
        BY <1>1, <1>3, <1>5, <1>7, <2>4, <2>7
      <4>2. w.left - (c - from) \in Int
        BY <1>1, <1>3, <2>4
      <4>3. QED
        BY <1>1, <1>3, <1>7, <4>1, <4>2 DEF WorkType
    <3>2. Counted(at, Q) = Counted(at, P) \cup (from..(c - 1))
      <4>1. ASSUME NEW i \in Int, at <= i, InSpan(v, i), i < from PROVE i \in Counted(at, P)
        BY <1>1, <1>3, <1>4, <2>3, <2>5, <4>1
      <4>2. ASSUME NEW i \in Int, at <= i, InSpan(v, i), i >= from PROVE i \in from..(c - 1)
        BY <1>1, <2>4, <2>5, <4>2
      <4>3. ASSUME NEW i \in from..(c - 1) PROVE i \in Int /\ at <= i /\ InSpan(v, i)
        BY <1>1, <1>3, <2>1, <2>4, <2>5
      <4>4. \A i : i \in Counted(at, Q) <=>
              i \in Counted(at, P) \/ (i \in Int /\ at <= i /\ InSpan(v, i))
        BY DEF Counted
      <4>5. \A i \in Int : i < from \/ i >= from
        BY <2>4
      <4>6. QED
        BY <4>1, <4>2, <4>3, <4>4, <4>5
    <3>3. Counted(at, P) \subseteq at..(from - 1)
      BY <1>3, <2>2, <2>4
    <3>4. Cardinality(Counted(at, Q)) = Cardinality(Counted(at, P)) + (c - from)
          /\ Cardinality(Counted(at, P)) \in Nat
      <4>1. at \in Int /\ from \in Int /\ c \in Int /\ from <= c
        BY <1>1, <2>4, <2>7
      <4>2. /\ Cardinality(Counted(at, P)) \in Nat
            /\ Cardinality(Counted(at, P) \cup (from..(c - 1)))
                 = Cardinality(Counted(at, P)) + (c - from)
        BY <3>3, <4>1, SizeOfBoth
      <4>3. QED
        BY <3>2, <4>2
    <3>5. Cardinality(Counted(at, Q)) + next.left = time
      BY <1>1, <1>3, <2>1, <2>4, <3>1, <3>4
    <3>6. \A u \in Q : CloseOf(u) <= next.cursor
      <4>1. \A u \in P : CloseOf(u) <= c
        BY <1>1, <1>2, <1>3, <2>1, <2>4, <2>7
      <4>2. CloseOf(v) <= c
        BY <1>1 DEF c
      <4>3. QED
        BY <3>1, <4>1, <4>2
    <3>7. 1 <= next.left /\ at <= next.cursor
      BY <1>1, <1>3, <2>4, <2>7, <3>1
    <3>8. \E u \in Q : CloseOf(u) = next.cursor
      BY <3>1 DEF c
    <3>9. Worked(s, at, time, Q, next)
      BY <3>1, <3>5, <3>6, <3>7, <3>8 DEF Worked
    <3>10. QED
      BY <3>9 DEF next
  <2>8. CASE from < c /\ w.left <= c - from
    <3> DEFINE due == from + w.left
               all == {i \in at..(due - 1) : InWindow(s, i)}
    <3>1. next \in WorkType /\ next.due = due
      <4>1. next = [w EXCEPT !.due = due]
        BY <1>1, <1>3, <1>5, <1>7, <2>4, <2>8
      <4>2. due \in Int
        BY <1>3, <2>4
      <4>3. QED
        BY <1>3, <4>1, <4>2 DEF WorkType
    <3>2. due \in Int /\ from <= due - 1 /\ due <= c
      BY <1>1, <1>3, <2>1, <2>4, <2>8
    <3> HIDE DEF due
    <3>3. InWindow(s, due - 1)
      BY <1>1, <2>4, <2>5, <3>2
    <3>4. all = Counted(at, P) \cup (from..(due - 1))
      <4>1. ASSUME NEW i \in Counted(at, P) PROVE i \in all
        <5>1. i \in at..(due - 1)
          BY <1>3, <2>2, <2>4, <3>2
        <5>2. InWindow(s, i)
          BY <1>2 DEF Counted
        <5>3. QED
          BY <5>1, <5>2
      <4>2. ASSUME NEW i \in from..(due - 1) PROVE i \in all
        <5>1. i \in at..(due - 1)
          BY <2>4, <3>2
        <5>2. InSpan(v, i)
          BY <1>1, <2>4, <2>5, <3>2
        <5>3. QED
          BY <1>1, <5>1, <5>2
      <4>3. ASSUME NEW i \in all, i < from PROVE i \in Counted(at, P)
        <5>1. i \in Int /\ at <= i /\ InWindow(s, i)
          OBVIOUS
        <5>2. PICK u \in Windows(s, Onward(at)) :
                /\ \E j \in Int : j <= i /\ Local(zone, j) = StartOf(u)
                /\ \E j \in Int : j > i /\ Local(zone, j) = u[1] * DayLength + u[2][2]
          BY <5>1, WindowOfATime
        <5>3. PICK j \in Int : j <= i /\ Local(zone, j) = StartOf(u)
          BY <5>2
        <5>4. PICK k \in Int : k > i /\ Local(zone, k) = u[1] * DayLength + u[2][2]
          BY <5>2
        <5>5. Local(zone, j) \in Int /\ Local(zone, k) \in Int
          BY ClockShows
        <5>6. CASE u \in P
          <6>1. OpenOf(u) <= j /\ k <= CloseOf(u)
            BY <1>2, <5>3, <5>4, <5>5, <5>6
          <6>2. OpenOf(u) <= i /\ i < CloseOf(u)
            BY <1>2, <5>1, <5>3, <5>4, <5>6, <6>1
          <6>3. QED
            BY <5>1, <5>6, <6>2 DEF Counted, InSpan
        <5>7. CASE u \notin P
          <6>1. StartOf(v) <= StartOf(u)
            <7>1. CASE u = v
              BY <1>1, <7>1
            <7>2. CASE u # v
              BY <5>7, <7>2 DEF Earlier
            <7>3. QED
              BY <7>1, <7>2
          <6>2. o <= i
            BY <1>1, <5>1, <5>3, <5>5, <6>1
          <6>3. i < w.cursor
            BY <1>1, <1>3, <1>4, <4>3, <5>1, <6>2
          <6>4. QED
            BY <2>3, <5>1, <6>2, <6>3
        <5>8. QED
          BY <5>6, <5>7
      <4>4. ASSUME NEW i \in all, i >= from PROVE i \in from..(due - 1)
        BY <2>4, <3>2, <4>4
      <4>5. \A i \in all : i < from \/ i >= from
        BY <2>4, <3>2
      <4> HIDE DEF all
      <4>6. QED
        BY <4>1, <4>2, <4>3, <4>4, <4>5
    <3>5. Counted(at, P) \subseteq at..(from - 1)
      BY <1>3, <2>2, <2>4
    <3>6. Cardinality(Counted(at, P) \cup (from..(due - 1))) = Cardinality(Counted(at, P)) + (due - from)
          /\ Cardinality(Counted(at, P)) \in Nat
      <4>1. from <= due
        BY <2>4, <3>2
      <4>2. QED
        BY <2>4, <3>2, <3>5, <4>1, SizeOfBoth
    <3>7. Cardinality(all) = time
      <4> HIDE DEF all
      <4>1. due - from = w.left
        BY <1>3, <2>4 DEF due
      <4>2. QED
        BY <1>3, <2>1, <3>4, <3>6, <4>1
    <3>8. next.due # Never
      BY <2>1, <2>4, <3>1, <3>2 DEF Never
    <3>9. Worked(s, at, time, Q, next)
      BY <3>1, <3>3, <3>7, <3>8 DEF Worked
    <3>10. QED
      BY <3>9 DEF next
  <2>9. QED
    BY <1>1, <1>3, <2>4, <2>6, <2>7, <2>8
<1>8. QED
  BY <1>6, <1>7

\* What starts on an earlier date, or on the same one no later, starts no later.
LEMMA StartOrder ==
  ASSUME NEW v \in Int \X (Times \X Times), NEW u \in Int \X (Times \X Times),
         v[1] < u[1] \/ (v[1] = u[1] /\ v[2][1] <= u[2][1])
  PROVE  StartOf(v) <= StartOf(u)
<1> DEFINE d == v[1]
           e == u[1]
           t == v[2][1]
           x == u[2][1]
<1>1. d \in Int /\ e \in Int /\ t \in Times /\ x \in Times
  OBVIOUS
<1>2. d < e \/ (d = e /\ t <= x)
  OBVIOUS
<1> HIDE DEF d, e, t, x
<1>3. d * DayLength + t <= e * DayLength + x
  BY <1>1, <1>2, DateOrder
<1>4. QED
  BY <1>3 DEF StartOf, d, e, t, x

\* Pieces are gone through from the earliest on.
LatestOf(S) == [t \in SUBSET S |-> Latest(t)]

LEMMA LatestPicks ==
  ASSUME NEW S, S \subseteq Times \X Times
  PROVE  /\ Picks(LatestOf(S), S)
         /\ \A t \in SUBSET S : t # {} => /\ LatestOf(S)[t] = Latest(t) /\ Latest(t) \in t
                                          /\ \A q \in t : q[1] <= Latest(t)[1]
<1>1. ASSUME NEW t \in SUBSET S, t # {}
      PROVE  Latest(t) \in t /\ \A q \in t : q[1] <= Latest(t)[1]
  <2> DEFINE left == {DayLength - q[1] : q \in t}
  <2>1. \A q \in t : q[1] \in Times
    OBVIOUS
  <2>2. \A q \in t : DayLength - q[1] \in Nat /\ q[1] \in Int
    BY <2>1, HoursAssumption DEF Times
  <2>3. left \subseteq Nat /\ left # {}
    BY <1>1, <2>2
  <2>4. PICK least \in left : \A other \in left : least <= other
    <3> HIDE DEF left
    <3>1. QED
      BY <2>3, LeastNumber
  <2>5. PICK p \in t : least = DayLength - p[1]
    BY <2>4
  <2>6. \A q \in t : q[1] <= p[1]
    <3>1. \A q \in t : DayLength - p[1] <= DayLength - q[1]
      BY <2>4, <2>5
    <3>2. QED
      BY <2>2, <3>1, HoursAssumption
  <2>7. QED
    BY <2>6 DEF Latest
<1>2. QED
  BY <1>1 DEF LatestOf, Picks

\* The hours of a date are finitely many.
LEMMA HoursAreFinite ==
  ASSUME NEW s, ValidSchedule(s), NEW date \in Int
  PROVE  Hours(s, date) \subseteq Times \X Times /\ IsFiniteSet(Hours(s, date))
<1>1. Hours(s, date) \subseteq Times \X Times
  <2>1. \A p \in Hours(s, date) : p[1] \in Times /\ p[2] \in Times /\ p = <<p[1], p[2]>>
    BY HoursOfADate
  <2>2. QED
    BY <2>1
<1>2. IsFiniteSet(Times)
  BY HoursAssumption, FS_Interval DEF Times
<1>3. IsFiniteSet(Times \X Times)
  BY <1>2, FS_Product
<1>4. QED
  BY <1>1, <1>3, FS_Subset

LEMMA WorkTyped ==
  ASSUME NEW w \in WorkType, NEW o \in Int, NEW c \in Int
  PROVE  Work(w, <<o, c>>) \in WorkType
<1> DEFINE from == Max({w.cursor, o})
<1>1. w.cursor \in Int /\ w.left \in Int
  BY DEF WorkType
<1>2. from \in Int
  BY <1>1, MaxOfTwo
<1>3. Work(w, <<o, c>>) = IF w.due # Never \/ from >= c THEN w
                          ELSE IF w.left <= c - from THEN [w EXCEPT !.due = from + w.left]
                          ELSE [w EXCEPT !.left = w.left - (c - from), !.cursor = c]
  BY DEF Work
<1> HIDE DEF from
<1>4. from + w.left \in Int /\ w.left - (c - from) \in Int
  BY <1>1, <1>2
<1>5. QED
  BY <1>3, <1>4 DEF WorkType

\* The time that is left after a date is a fold over its hours.
SpanStep(date, S) ==
  [pair \in S \X WorkType |-> Work(pair[2], Span(company.zone, date, pair[1]))]

DayFold(date, base, S) ==
  CHOOSE iter : iter = [t \in SUBSET S |->
     IF t = {} THEN base
     ELSE Work(iter[t \ {Latest(t)}], Span(company.zone, date, Latest(t)))]

LEMMA WorkDayFold ==
  ASSUME NEW s, NEW date, NEW w, w.due = Never, IsValid(s, company.zone, date)
  PROVE  WorkDay(s, company.zone, date, w) = DayFold(date, w, Hours(s, date))[Hours(s, date)]
BY DEF WorkDay, DayFold, MapThenFoldSet

LEMMA SpanStepType ==
  ASSUME ZoneType(company.zone), NEW s, ValidSchedule(s), NEW date \in Int,
         IsValid(s, company.zone, date)
  PROVE  LET S == Hours(s, date)
         IN  /\ SpanStep(date, S) \in [S \X WorkType -> WorkType]
             /\ \A p \in S, w \in WorkType :
                  SpanStep(date, S)[<<p, w>>] = Work(w, Span(company.zone, date, p))
<1> DEFINE S == Hours(s, date)
<1>1. \A p \in S : p[1] \in Times /\ p[2] \in Times
  BY HoursOfADate
<1>2. \A p \in S : /\ Candidates(company.zone, date * DayLength + p[1]) # {}
                   /\ Candidates(company.zone, date * DayLength + p[2]) # {}
  BY DEF IsValid
<1>3. \A p \in S : /\ OpenAt(company.zone, date, p[1]) \in Int
                   /\ CloseAt(company.zone, date, p[2]) \in Int
  BY <1>1, <1>2, Boundaries
<1> HIDE DEF S
<1>4. \A p \in S, w \in WorkType : Work(w, Span(company.zone, date, p)) \in WorkType
  BY <1>3, WorkTyped DEF Span
<1>5. \A pair \in S \X WorkType : pair[1] \in S /\ pair[2] \in WorkType
  OBVIOUS
<1>6. \A p \in S, w \in WorkType : <<p, w>> \in S \X WorkType /\ <<p, w>>[1] = p /\ <<p, w>>[2] = w
  OBVIOUS
<1>7. SpanStep(date, S) \in [S \X WorkType -> WorkType]
  BY <1>4, <1>5 DEF SpanStep
<1>8. \A p \in S, w \in WorkType :
        SpanStep(date, S)[<<p, w>>] = Work(w, Span(company.zone, date, p))
  BY <1>6 DEF SpanStep
<1>9. QED
  BY <1>7, <1>8 DEF S

LEMMA WorkDayRule ==
  ASSUME ZoneType(company.zone), NEW s, ValidSchedule(s), NEW date \in Int,
         IsValid(s, company.zone, date), NEW w \in WorkType, w.due = Never,
         NEW S, S = Hours(s, date)
  PROVE  \E f : /\ Folds(f, S, LatestOf(S), w, SpanStep(date, S), WorkType)
                /\ f[S] = WorkDay(s, company.zone, date, w)
<1> DEFINE rule(f) == f = [t \in SUBSET S |->
                             IF t = {} THEN w
                             ELSE Work(f[t \ {Latest(t)}], Span(company.zone, date, Latest(t)))]
<1>1. IsFiniteSet(S) /\ S \subseteq Times \X Times
  BY HoursAreFinite
<1>2. Picks(LatestOf(S), S)
  BY <1>1, LatestPicks
<1>3. /\ SpanStep(date, S) \in [S \X WorkType -> WorkType]
      /\ \A p \in S, v \in WorkType : SpanStep(date, S)[<<p, v>>] = Work(v, Span(company.zone, date, p))
  BY SpanStepType
<1>4. PICK f : Folds(f, S, LatestOf(S), w, SpanStep(date, S), WorkType)
  BY <1>1, <1>2, <1>3, FoldExists
<1>5. \A t \in SUBSET S : t # {} =>
        LatestOf(S)[t] = Latest(t) /\ Latest(t) \in S /\ t \ {Latest(t)} \in SUBSET S
  <2>1. \A t \in SUBSET S : t # {} => LatestOf(S)[t] = Latest(t) /\ Latest(t) \in t
    BY <1>1, LatestPicks
  <2>2. QED
    BY <2>1
<1>6. \A t \in SUBSET S :
        f[t] = IF t = {} THEN w
               ELSE Work(f[t \ {Latest(t)}], Span(company.zone, date, Latest(t)))
  <2> SUFFICES ASSUME NEW t \in SUBSET S
               PROVE  f[t] = IF t = {} THEN w
                             ELSE Work(f[t \ {Latest(t)}], Span(company.zone, date, Latest(t)))
    OBVIOUS
  <2>1. CASE t = {}
    BY <1>4, <2>1 DEF Folds
  <2>2. CASE t # {}
    <3>1. f[t] = SpanStep(date, S)[<<Latest(t), f[t \ {Latest(t)}]>>]
      BY <1>4, <1>5, <2>2 DEF Folds
    <3>2. f[t \ {Latest(t)}] \in WorkType
      BY <1>4, <1>5, <2>2 DEF Folds
    <3>3. QED
      BY <1>3, <1>5, <2>2, <3>1, <3>2
  <2>3. QED
    BY <2>1, <2>2
<1>7. rule(f)
  <2>1. f = [t \in SUBSET S |-> f[t]]
    BY <1>4 DEF Folds
  <2>2. QED
    BY <1>6, <2>1
<1> DEFINE g == DayFold(date, w, S)
<1>8. rule(g)
  <2>1. \E h : rule(h)
    BY <1>7
  <2>2. g = CHOOSE h : rule(h)
    BY DEF DayFold
  <2> HIDE DEF g, rule
  <2>3. QED
    BY <2>1, <2>2
<1> HIDE DEF g
<1>9. g[{}] = w
  BY <1>8
<1>10. \A t \in SUBSET S : t # {} /\ g[t \ {LatestOf(S)[t]}] \in WorkType
         => g[t] = SpanStep(date, S)[<<LatestOf(S)[t], g[t \ {LatestOf(S)[t]}]>>]
  <2> SUFFICES ASSUME NEW t \in SUBSET S, t # {}, g[t \ {LatestOf(S)[t]}] \in WorkType
               PROVE  g[t] = SpanStep(date, S)[<<LatestOf(S)[t], g[t \ {LatestOf(S)[t]}]>>]
    OBVIOUS
  <2>1. LatestOf(S)[t] = Latest(t) /\ Latest(t) \in S
    BY <1>5
  <2>2. g[t] = Work(g[t \ {Latest(t)}], Span(company.zone, date, Latest(t)))
    BY <1>8
  <2>3. QED
    BY <1>3, <2>1, <2>2
<1>11. \A t \in SUBSET S : g[t] = f[t]
  <2> HIDE DEF rule
  <2>1. GoesOn(g, S, LatestOf(S), w, SpanStep(date, S), WorkType)
    BY <1>9, <1>10 DEF GoesOn
  <2>2. QED
    BY <1>1, <1>2, <1>4, <2>1, FoldIsUnique
<1>12. g[S] = f[S]
  <2>1. S \in SUBSET S
    OBVIOUS
  <2>2. QED
    BY <1>11, <2>1
<1>13. g[S] = WorkDay(s, company.zone, date, w)
  BY WorkDayFold DEF g
<1>14. QED
  BY <1>4, <1>12, <1>13

\* What the dates up to one, and some of the pieces of that one, have.
On(date, t) == {<<date, p>> : p \in t}
Upto(s, at, date) == Windows(s, Today(at)..(date - 1))

\* A part of the pieces that leaves none out that starts before one of them.
FirstOf(S, t) == t \in SUBSET S /\ \A p \in t, q \in S \ t : p[1] <= q[1]

LEMMA OnADate ==
  ASSUME NEW s, ValidSchedule(s), NEW date \in Int, NEW t, t \subseteq Hours(s, date)
  PROVE  \A v \in On(date, t) : /\ v \in Int \X (Times \X Times) /\ v[1] = date /\ v[2] \in t
                                /\ v = <<date, v[2]>>
<1>1. t \subseteq Times \X Times
  BY HoursAreFinite
<1>2. QED
  BY <1>1 DEF On

LEMMA EarlierWindows ==
  ASSUME ZoneType(company.zone), NEW s, ValidSchedule(s), NEW at \in Nat, NEW date \in Onward(at),
         \A e \in Today(at)..date : IsValid(s, company.zone, e),
         NEW t, FirstOf(Hours(s, date), t)
  PROVE  Earlier(s, at, Upto(s, at, date) \cup On(date, t))
<1> DEFINE P == Upto(s, at, date) \cup On(date, t)
<1>1. Today(at) \in Int /\ date \in Int /\ Today(at) <= date
  BY ClockShows DEF Today, Onward
<1>2. t \subseteq Hours(s, date)
  BY DEF FirstOf
<1>3. \A v \in On(date, t) : /\ v \in Int \X (Times \X Times) /\ v[1] = date /\ v[2] \in t
  BY <1>1, <1>2, OnADate
<1>4. \A v \in Upto(s, at, date) :
        /\ v \in Int \X (Times \X Times) /\ v[1] \in Today(at)..(date - 1) /\ v[2] \in Hours(s, v[1])
  BY DEF Upto, Windows
<1>5. ASSUME NEW v \in P PROVE v \in Usable(s, at)
  <2>1. v[1] \in Today(at)..date /\ v[2] \in Hours(s, v[1]) /\ v \in Int \X (Times \X Times)
    BY <1>1, <1>2, <1>3, <1>4
  <2>2. v[1] \in Onward(at)
    BY <1>1, <2>1 DEF Onward
  <2>3. QED
    BY <2>1, <2>2 DEF Usable, Windows
<1>6. ASSUME NEW v \in P, NEW u \in Windows(s, Onward(at)) \ P PROVE StartOf(v) <= StartOf(u)
  <2>1. /\ u \in Int \X (Times \X Times) /\ u[1] \in Int /\ Today(at) <= u[1]
        /\ u[2] \in Hours(s, u[1])
    BY DEF Windows, Onward
  <2>2. u[1] \notin Today(at)..(date - 1)
    <3>1. u \notin Upto(s, at, date)
      OBVIOUS
    <3>2. QED
      BY <2>1, <3>1 DEF Upto, Windows
  <2>3. date <= u[1]
    BY <1>1, <2>1, <2>2
  <2>4. CASE v \in Upto(s, at, date)
    BY <1>1, <1>4, <2>1, <2>3, <2>4, StartOrder
  <2>5. CASE v \in On(date, t) /\ date < u[1]
    BY <1>3, <2>1, <2>5, StartOrder
  <2>6. CASE v \in On(date, t) /\ u[1] = date
    <3>1. u = <<date, u[2]>>
      BY <2>1, <2>6
    <3>2. u[2] \notin t
      BY <3>1 DEF On
    <3>3. v[2][1] <= u[2][1]
      BY <1>3, <2>1, <2>6, <3>2 DEF FirstOf
    <3>4. QED
      BY <1>3, <2>1, <2>6, <3>3, StartOrder
  <2>7. QED
    BY <1>1, <2>1, <2>3, <2>4, <2>5, <2>6
<1>7. QED
  BY <1>5, <1>6 DEF Earlier

\* A date is worked off after the ones before it.
LEMMA DayWorked ==
  ASSUME ZoneType(company.zone), NEW s, ValidSchedule(s), NEW at \in Nat, NEW time \in Int,
         \A j \in Int : at <= j => Today(j) >= Today(at),
         NEW date \in Onward(at), \A e \in Today(at)..date : IsValid(s, company.zone, e),
         NEW w, w.due = Never, Worked(s, at, time, Upto(s, at, date), w)
  PROVE  Worked(s, at, time, Upto(s, at, date + 1), WorkDay(s, company.zone, date, w))
<1> DEFINE S == Hours(s, date)
           before == Upto(s, at, date)
<1>1. Today(at) \in Int /\ date \in Int /\ Today(at) <= date /\ IsValid(s, company.zone, date)
  BY ClockShows DEF Today, Onward
<1>2. IsFiniteSet(S) /\ S \subseteq Times \X Times
  BY <1>1, HoursAreFinite
<1>3. w \in WorkType
  BY DEF Worked
<1>4. PICK f : /\ Folds(f, S, LatestOf(S), w, SpanStep(date, S), WorkType)
               /\ f[S] = WorkDay(s, company.zone, date, w)
  BY <1>1, <1>3, WorkDayRule
<1>5. /\ SpanStep(date, S) \in [S \X WorkType -> WorkType]
      /\ \A p \in S, v \in WorkType : SpanStep(date, S)[<<p, v>>] = Work(v, Span(company.zone, date, p))
  BY <1>1, SpanStepType
<1> DEFINE bad == {t \in SUBSET S : FirstOf(S, t) /\ ~Worked(s, at, time, before \cup On(date, t), f[t])}
<1>6. bad = {}
  <2>1. SUFFICES ASSUME bad # {} PROVE FALSE
    OBVIOUS
  <2>2. bad \subseteq SUBSET S
    OBVIOUS
  <2>3. PICK t \in bad : \A r \in SUBSET t : r # t => r \notin bad
    <3> HIDE DEF bad, S
    <3>1. QED
      BY <1>2, <2>1, <2>2, SmallestSubset
  <2>4. t \in SUBSET S /\ FirstOf(S, t) /\ ~Worked(s, at, time, before \cup On(date, t), f[t])
    BY <2>3
  <2>5. t # {}
    <3>1. f[{}] = w
      BY <1>4 DEF Folds
    <3>2. before \cup On(date, {}) = before
      BY DEF On
    <3>3. QED
      BY <2>4, <3>1, <3>2
  <2> DEFINE l == Latest(t)
             r == t \ {l}
             P == before \cup On(date, r)
             v == <<date, l>>
  <2>6. LatestOf(S)[t] = l /\ l \in t /\ \A q \in t : q[1] <= l[1]
    BY <1>2, <2>4, <2>5, LatestPicks
  <2> HIDE DEF l
  <2>7. r \in SUBSET t /\ r # t /\ r \in SUBSET S /\ l \in S
    BY <2>4, <2>6
  <2>8. FirstOf(S, r)
    <3>1. ASSUME NEW p \in r, NEW q \in S \ r PROVE p[1] <= q[1]
      <4>1. CASE q \in t
        <5>1. q = l
          BY <4>1
        <5>2. QED
          BY <2>6, <5>1
      <4>2. CASE q \notin t
        BY <2>4, <4>2 DEF FirstOf
      <4>3. QED
        BY <4>1, <4>2
    <3>2. QED
      BY <2>7, <3>1 DEF FirstOf
  <2>9. Worked(s, at, time, P, f[r])
    <3>1. r \notin bad
      BY <2>3, <2>7
    <3>2. QED
      BY <2>7, <2>8, <3>1
  <2>10. f[t] = Work(f[r], Span(company.zone, date, l))
    <3>1. f[t] = SpanStep(date, S)[<<LatestOf(S)[t], f[t \ {LatestOf(S)[t]}]>>]
      BY <1>4, <2>4, <2>5 DEF Folds
    <3>2. f[r] \in WorkType
      BY <2>9 DEF Worked
    <3> HIDE DEF S
    <3>3. QED
      BY <1>5, <2>6, <2>7, <3>1, <3>2
  <2>11. On(date, t) = On(date, r) \cup {v}
    BY <2>6 DEF On
  <2>12. Earlier(s, at, P) /\ Earlier(s, at, P \cup {v})
    <3>1. Earlier(s, at, P)
      BY <2>8, EarlierWindows
    <3>2. Earlier(s, at, before \cup On(date, t))
      BY <2>4, EarlierWindows
    <3>3. P \cup {v} = before \cup On(date, t)
      BY <2>11
    <3>4. QED
      BY <3>1, <3>2, <3>3
  <2>13. v \in Usable(s, at) /\ v[1] = date /\ v[2] = l
    BY <2>12 DEF Earlier
  <2>14. \A u \in P : StartOf(u) <= StartOf(v)
    <3>1. v \in Int \X (Times \X Times)
      BY <2>13 DEF Usable, Windows
    <3>2. ASSUME NEW u \in before PROVE StartOf(u) <= StartOf(v)
      <4>1. u \in Int \X (Times \X Times) /\ u[1] \in Today(at)..(date - 1)
        BY DEF Upto, Windows
      <4>2. u[1] < v[1]
        BY <1>1, <2>13, <4>1
      <4> HIDE DEF v
      <4>3. QED
        BY <3>1, <4>1, <4>2, StartOrder
    <3>3. ASSUME NEW u \in On(date, r) PROVE StartOf(u) <= StartOf(v)
      <4>1. u \in Int \X (Times \X Times) /\ u[1] = date /\ u[2] \in r
        BY <1>1, <2>7, OnADate
      <4>2. u[1] = v[1] /\ u[2][1] <= v[2][1]
        BY <2>6, <2>13, <4>1
      <4> HIDE DEF v
      <4>3. QED
        BY <3>1, <4>1, <4>2, StartOrder
    <3>4. QED
      BY <3>2, <3>3
  <2>15. Worked(s, at, time, P \cup {v}, Work(f[r], Span(company.zone, v[1], v[2])))
    <3> HIDE DEF P, v, r
    <3>1. QED
      BY <2>9, <2>12, <2>13, <2>14, WindowWorked
  <2>16. P \cup {v} = before \cup On(date, t)
    BY <2>11
  <2>17. Worked(s, at, time, before \cup On(date, t), f[t])
    <3> HIDE DEF P, v, r, before
    <3>1. QED
      BY <2>10, <2>13, <2>15, <2>16
  <2>18. QED
    BY <2>4, <2>17
<1>7. S \in SUBSET S /\ FirstOf(S, S)
  BY DEF FirstOf
<1>8. Worked(s, at, time, before \cup On(date, S), f[S])
  BY <1>6, <1>7
<1>9. before \cup On(date, S) = Upto(s, at, date + 1)
  <2>1. ASSUME NEW v \in On(date, S) PROVE v \in Upto(s, at, date + 1)
    <3>1. v \in Int \X (Times \X Times) /\ v[1] = date /\ v[2] \in S
      BY <1>1, OnADate
    <3>2. QED
      BY <1>1, <3>1 DEF Upto, Windows
  <2>2. ASSUME NEW v \in Upto(s, at, date + 1), v \notin before PROVE v \in On(date, S)
    <3>1. v \in Int \X (Times \X Times) /\ v[1] \in Today(at)..date /\ v[2] \in Hours(s, v[1])
      BY <1>1 DEF Upto, Windows
    <3>2. v[1] = date
      BY <1>1, <2>2, <3>1 DEF Upto, Windows
    <3>3. v = <<date, v[2]>> /\ v[2] \in S
      BY <3>1, <3>2
    <3>4. QED
      BY <3>3 DEF On
  <2>3. before \subseteq Upto(s, at, date + 1)
    BY <1>1 DEF Upto, Windows
  <2>4. QED
    BY <2>1, <2>2, <2>3
<1>10. QED
  BY <1>4, <1>8, <1>9

\* The time that is left is a fold over the dates.
DayStep(s, D) == [pair \in D \X WorkType |-> WorkDay(s, company.zone, pair[1], pair[2])]

LastOf(D) == [t \in SUBSET D |-> Max(t)]
SomeDates(D) == IsFiniteSet(D) /\ D \subseteq Int /\ Picks(LastOf(D), D)

DatesFold(s, base, D) ==
  CHOOSE iter : iter = [t \in SUBSET D |->
     IF t = {} THEN base ELSE WorkDay(s, company.zone, Max(t), iter[t \ {Max(t)}])]

LEMMA WorkDaysFold ==
  ASSUME NEW s, NEW D, NEW w
  PROVE  WorkDays(s, company.zone, D, w) = DatesFold(s, w, D)[D]
BY DEF WorkDays, DatesFold, MapThenFoldSet

LEMMA LastOfDates ==
  ASSUME NEW a \in Int, NEW b \in Int, NEW t \in SUBSET (a..b), t # {}
  PROVE  Max(t) \in t /\ \A q \in t : q <= Max(t)
<1> DEFINE left == {b - q : q \in t}
<1>1. left \subseteq Nat /\ left # {}
  <2>1. \A q \in t : q \in Int /\ q <= b
    OBVIOUS
  <2>2. \A q \in t : b - q \in Nat
    BY <2>1
  <2>3. QED
    BY <2>2
<1>2. PICK least \in left : \A other \in left : least <= other
  <2> HIDE DEF left
  <2>1. QED
    BY <1>1, LeastNumber
<1>3. PICK p \in t : least = b - p
  BY <1>2
<1>4. \A q \in t : b - p <= b - q
  BY <1>2, <1>3
<1>5. \A q \in t : p >= q /\ q \in Int
  BY <1>4
<1>6. \E x \in t : \A y \in t : x >= y
  BY <1>5
<1>7. Max(t) \in t /\ \A q \in t : Max(t) >= q
  BY <1>6 DEF Max
<1>8. QED
  BY <1>7

LEMMA WorkDayTyped ==
  ASSUME ZoneType(company.zone), NEW s, ValidSchedule(s), NEW date \in Int, NEW w \in WorkType
  PROVE  WorkDay(s, company.zone, date, w) \in WorkType
<1>1. CASE w.due # Never
  BY <1>1 DEF WorkDay
<1>2. CASE w.due = Never /\ ~IsValid(s, company.zone, date)
  BY <1>2 DEF WorkDay, WorkType, Invalid
<1>3. CASE w.due = Never /\ IsValid(s, company.zone, date)
  <2> DEFINE S == Hours(s, date)
  <2>1. PICK f : /\ Folds(f, S, LatestOf(S), w, SpanStep(date, S), WorkType)
                 /\ f[S] = WorkDay(s, company.zone, date, w)
    BY <1>3, WorkDayRule
  <2>2. S \in SUBSET S
    OBVIOUS
  <2> HIDE DEF S
  <2>3. f[S] \in WorkType
    BY <2>1, <2>2 DEF Folds
  <2>4. QED
    BY <2>1, <2>3
<1>4. QED
  BY <1>1, <1>2, <1>3

LEMMA WorkDaysRule ==
  ASSUME ZoneType(company.zone), NEW s, ValidSchedule(s), NEW w \in WorkType,
         NEW D, SomeDates(D)
  PROVE  \E f : /\ f \in [SUBSET D -> WorkType]
                /\ f[{}] = w
                /\ \A t \in SUBSET D : t # {} =>
                     f[t] = WorkDay(s, company.zone, Max(t), f[t \ {Max(t)}])
                /\ f[D] = WorkDays(s, company.zone, D, w)
<1> DEFINE rule(f) == f = [t \in SUBSET D |->
                             IF t = {} THEN w
                             ELSE WorkDay(s, company.zone, Max(t), f[t \ {Max(t)}])]
<1>1. IsFiniteSet(D)
  BY DEF SomeDates
<1>2. \A t \in SUBSET D : t # {} => LastOf(D)[t] = Max(t) /\ Max(t) \in t /\ Max(t) \in D
  BY DEF SomeDates, LastOf, Picks
<1>3. Picks(LastOf(D), D)
  BY DEF SomeDates
<1>4. /\ DayStep(s, D) \in [D \X WorkType -> WorkType]
      /\ \A e \in D, v \in WorkType : DayStep(s, D)[<<e, v>>] = WorkDay(s, company.zone, e, v)
  <2>1. \A e \in D, v \in WorkType : WorkDay(s, company.zone, e, v) \in WorkType
    BY WorkDayTyped DEF SomeDates
  <2>2. \A pair \in D \X WorkType : pair[1] \in D /\ pair[2] \in WorkType
    OBVIOUS
  <2>3. \A e \in D, v \in WorkType : <<e, v>> \in D \X WorkType /\ <<e, v>>[1] = e /\ <<e, v>>[2] = v
    OBVIOUS
  <2>4. DayStep(s, D) \in [D \X WorkType -> WorkType]
    BY <2>1, <2>2 DEF DayStep
  <2>5. \A e \in D, v \in WorkType : DayStep(s, D)[<<e, v>>] = WorkDay(s, company.zone, e, v)
    BY <2>3 DEF DayStep
  <2>6. QED
    BY <2>4, <2>5
<1>5. PICK f : Folds(f, D, LastOf(D), w, DayStep(s, D), WorkType)
  <2>1. QED
    BY <1>1, <1>3, <1>4, FoldExists
<1>6. f \in [SUBSET D -> WorkType] /\ f[{}] = w
  BY <1>5 DEF Folds
<1>7. \A t \in SUBSET D : t # {} => f[t] = WorkDay(s, company.zone, Max(t), f[t \ {Max(t)}])
  <2> SUFFICES ASSUME NEW t \in SUBSET D, t # {}
               PROVE  f[t] = WorkDay(s, company.zone, Max(t), f[t \ {Max(t)}])
    OBVIOUS
  <2>1. LastOf(D)[t] = Max(t) /\ Max(t) \in D /\ t \ {Max(t)} \in SUBSET D
    BY <1>2
  <2>2. f[t] = DayStep(s, D)[<<Max(t), f[t \ {Max(t)}]>>]
    BY <1>5, <2>1 DEF Folds
  <2>3. f[t \ {Max(t)}] \in WorkType
    BY <1>6, <2>1
  <2>4. QED
    BY <1>4, <2>1, <2>2, <2>3
<1>8. rule(f)
  <2>1. f = [t \in SUBSET D |-> f[t]]
    BY <1>6
  <2>2. QED
    BY <1>6, <1>7, <2>1
<1> DEFINE g == DatesFold(s, w, D)
<1>9. rule(g)
  <2>1. \E h : rule(h)
    BY <1>8
  <2>2. g = CHOOSE h : rule(h)
    BY DEF DatesFold
  <2> HIDE DEF g, rule
  <2>3. QED
    BY <2>1, <2>2
<1> HIDE DEF g
<1>10. g[{}] = w
  BY <1>9
<1>11. \A t \in SUBSET D : t # {} /\ g[t \ {LastOf(D)[t]}] \in WorkType
         => g[t] = DayStep(s, D)[<<LastOf(D)[t], g[t \ {LastOf(D)[t]}]>>]
  <2> SUFFICES ASSUME NEW t \in SUBSET D, t # {}, g[t \ {LastOf(D)[t]}] \in WorkType
               PROVE  g[t] = DayStep(s, D)[<<LastOf(D)[t], g[t \ {LastOf(D)[t]}]>>]
    OBVIOUS
  <2>1. LastOf(D)[t] = Max(t) /\ Max(t) \in D
    BY <1>2
  <2>2. g[t] = WorkDay(s, company.zone, Max(t), g[t \ {Max(t)}])
    BY <1>9
  <2>3. QED
    BY <1>4, <2>1, <2>2
<1>12. \A t \in SUBSET D : g[t] = f[t]
  <2> HIDE DEF rule
  <2>1. GoesOn(g, D, LastOf(D), w, DayStep(s, D), WorkType)
    BY <1>10, <1>11 DEF GoesOn
  <2>2. QED
    BY <1>1, <1>3, <1>5, <2>1, FoldIsUnique
<1>13. g[D] = f[D]
  <2>1. D \in SUBSET D
    OBVIOUS
  <2>2. QED
    BY <1>12, <2>1
<1>14. g[D] = WorkDays(s, company.zone, D, w)
  BY WorkDaysFold DEF g
<1>15. QED
  BY <1>6, <1>7, <1>13, <1>14

\* What is left after the dates before one, and whether they were all valid.
WorkedUpto(s, at, time, date, w) ==
  /\ w.due = Never => \A e \in Today(at)..(date - 1) : IsValid(s, company.zone, e)
  /\ Worked(s, at, time, Upto(s, at, date), w)

LEMMA NextDateWorked ==
  ASSUME ZoneType(company.zone), NEW s, ValidSchedule(s), NEW at \in Nat, NEW time \in Int,
         \A j \in Int : at <= j => Today(j) >= Today(at),
         NEW date \in Onward(at), NEW w, WorkedUpto(s, at, time, date, w)
  PROVE  WorkedUpto(s, at, time, date + 1, WorkDay(s, company.zone, date, w))
<1>1. Today(at) \in Int /\ date \in Int /\ Today(at) <= date
  BY ClockShows DEF Today, Onward
<1>2. w \in WorkType
  BY DEF WorkedUpto, Worked
<1>3. CASE w.due # Never
  <2>1. WorkDay(s, company.zone, date, w) = w
    BY <1>3 DEF WorkDay
  <2>2. Worked(s, at, time, Upto(s, at, date + 1), w)
    BY <1>3 DEF WorkedUpto, Worked
  <2>3. QED
    BY <1>3, <2>1, <2>2 DEF WorkedUpto
<1>4. CASE w.due = Never /\ ~IsValid(s, company.zone, date)
  <2>1. WorkDay(s, company.zone, date, w) = [w EXCEPT !.due = Invalid]
    BY <1>4 DEF WorkDay
  <2>2. /\ [w EXCEPT !.due = Invalid] \in WorkType
        /\ [w EXCEPT !.due = Invalid].due = Invalid /\ Invalid # Never
    BY <1>2 DEF WorkType, Invalid, Never
  <2>3. QED
    BY <2>1, <2>2 DEF WorkedUpto, Worked
<1>5. CASE w.due = Never /\ IsValid(s, company.zone, date)
  <2>1. \A e \in Today(at)..date : IsValid(s, company.zone, e)
    <3>1. \A e \in Today(at)..date : e = date \/ e \in Today(at)..(date - 1)
      BY <1>1
    <3>2. QED
      BY <1>5, <3>1 DEF WorkedUpto
  <2>2. Worked(s, at, time, Upto(s, at, date), w)
    BY DEF WorkedUpto
  <2>3. Worked(s, at, time, Upto(s, at, date + 1), WorkDay(s, company.zone, date, w))
    BY <1>5, <2>1, <2>2, DayWorked
  <2>4. (date + 1) - 1 = date
    BY <1>1
  <2>5. QED
    BY <2>1, <2>3, <2>4 DEF WorkedUpto
<1>6. QED
  BY <1>3, <1>4, <1>5

\* The instant that is due, if there is one.
LEMMA DueCountsTheTime ==
  ASSUME ZoneType(company.zone), NEW s, ValidSchedule(s), NEW at \in Nat, NEW time \in Int,
         \A j \in Int : at <= j => Today(j) >= Today(at),
         NEW due, due = DueAt(s, company.zone, at, time), due # Invalid
  PROVE  /\ InWindow(s, due - 1)
         /\ Cardinality({i \in at..(due - 1) : InWindow(s, i)}) = time
<1> DEFINE first == Today(at)
           last == first + Horizon
           D == first..last
           base == [due |-> Never, left |-> time, cursor |-> at]
           left == WorkDays(s, company.zone, D, base)
<1>1. first \in Int /\ last \in Int /\ first <= last
  BY ClockShows, HoursAssumption DEF Today
<1>2. time > 0 /\ left.due # Never /\ due = left.due
  BY DEF DueAt, Today
<1>3. base \in WorkType
  BY DEF WorkType, Never
<1>4. WorkedUpto(s, at, time, first, base)
  <2>1. first..(first - 1) = {}
    BY <1>1
  <2>2. Upto(s, at, first) = {}
    BY <2>1 DEF Upto, Windows
  <2>3. Counted(at, {}) = {}
    BY DEF Counted
  <2>4. Cardinality(Counted(at, {})) = 0
    BY <2>3, FS_EmptySet
  <2>5. base.due = Never /\ base.left = time /\ base.cursor = at
    OBVIOUS
  <2> HIDE DEF base
  <2>6. Worked(s, at, time, {}, base)
    BY <1>2, <1>3, <2>4, <2>5 DEF Worked
  <2>7. QED
    BY <2>1, <2>2, <2>6 DEF WorkedUpto
<1> HIDE DEF first, last, base, left, D
<1>5. PICK f : /\ f \in [SUBSET D -> WorkType]
               /\ f[{}] = base
               /\ \A t \in SUBSET D : t # {} =>
                    f[t] = WorkDay(s, company.zone, Max(t), f[t \ {Max(t)}])
               /\ f[D] = left
  <2>1. IsFiniteSet(D) /\ D \subseteq Int
    BY <1>1, FS_Interval DEF D
  <2>2. Picks(LastOf(D), D)
    <3>1. \A t \in SUBSET D : t # {} => Max(t) \in t
      BY <1>1, LastOfDates DEF D
    <3>2. QED
      BY <3>1 DEF Picks, LastOf
  <2>3. SomeDates(D)
    BY <2>1, <2>2 DEF SomeDates
  <2>4. QED
    BY <1>3, <2>3, WorkDaysRule DEF left
<1> DEFINE good(date) == WorkedUpto(s, at, time, date, f[first..(date - 1)])
           bad == {t \in SUBSET D : \E date \in first..(last + 1) : t = first..(date - 1) /\ ~good(date)}
<1>6. bad = {}
  <2>1. SUFFICES ASSUME bad # {} PROVE FALSE
    OBVIOUS
  <2>2. bad \subseteq SUBSET D
    OBVIOUS
  <2>3. IsFiniteSet(D)
    BY <1>1, FS_Interval DEF D
  <2>4. PICK t \in bad : \A r \in SUBSET t : r # t => r \notin bad
    <3> HIDE DEF bad
    <3>1. QED
      BY <2>1, <2>2, <2>3, SmallestSubset
  <2>5. PICK date \in first..(last + 1) : t = first..(date - 1) /\ ~good(date)
    BY <2>4
  <2>6. t \in SUBSET D /\ date \in Int
    BY <1>1, <2>4
  <2>7. date # first
    <3>1. first..(first - 1) = {}
      BY <1>1
    <3>2. QED
      BY <1>4, <1>5, <2>5, <3>1
  <2> DEFINE prev == date - 1
             r == first..(prev - 1)
  <2>8. prev \in Int /\ first <= prev /\ prev \in first..(last + 1) /\ date = prev + 1
    BY <1>1, <2>5, <2>6, <2>7
  <2>9. prev \in Onward(at)
    BY <2>8 DEF Onward, first
  <2>10. t # {} /\ t \subseteq first..prev /\ prev \in t
    BY <1>1, <2>5, <2>8
  <2> HIDE DEF prev
  <2>11. Max(t) = prev
    <3>1. Max(t) \in t /\ \A q \in t : q <= Max(t)
      BY <1>1, <2>8, <2>10, LastOfDates
    <3>2. QED
      BY <1>1, <2>8, <2>10, <3>1
  <2>12. t \ {prev} = r /\ r \in SUBSET t /\ r # t
    BY <1>1, <2>5, <2>8, <2>10
  <2>13. good(prev)
    <3>1. r \notin bad /\ r \in SUBSET D
      BY <2>4, <2>6, <2>12
    <3> HIDE DEF good
    <3>2. QED
      BY <2>8, <3>1
  <2>14. f[t] = WorkDay(s, company.zone, prev, f[r])
    <3>1. f[t] = WorkDay(s, company.zone, Max(t), f[t \ {Max(t)}])
      BY <1>5, <2>6, <2>10
    <3>2. QED
      BY <2>11, <2>12, <3>1
  <2>15. WorkedUpto(s, at, time, prev + 1, f[t])
    <3>1. WorkedUpto(s, at, time, prev, f[r])
      BY <2>13
    <3> HIDE DEF r
    <3>2. QED
      BY <2>9, <2>14, <3>1, NextDateWorked
  <2>16. QED
    BY <2>5, <2>8, <2>15
<1>7. WorkedUpto(s, at, time, last + 1, left)
  <2>1. last + 1 \in first..(last + 1) /\ (last + 1) - 1 = last
    BY <1>1
  <2>2. D \in SUBSET D /\ D = first..((last + 1) - 1)
    BY <2>1 DEF D
  <2>3. good(last + 1)
    <3> HIDE DEF good
    <3>1. QED
      BY <1>6, <2>1, <2>2
  <2>4. QED
    BY <1>5, <2>2, <2>3
<1>8. QED
  BY <1>2, <1>7 DEF WorkedUpto, Worked

\* A clock that is set back shows an earlier date within a day.
LEMMA NoEarlierDate ==
  ASSUME ZoneType(company.zone), NEW at \in Int,
         \A i \in at..(at + DayLength) : Today(i) >= Today(at),
         NEW j \in Int, at <= j
  PROVE  Today(j) >= Today(at)
<1> DEFINE zone == company.zone
<1>1. zone.at \in Int /\ zone.shift \in Int /\ -DayLength <= zone.shift /\ DayLength \in Nat
  BY HoursAssumption DEF ZoneType
<1>2. /\ Today(j) \in Int /\ Today(at) \in Int
      /\ Time(zone, j) \in Times /\ Time(zone, at) \in Times
      /\ Local(zone, j) = Today(j) * DayLength + Time(zone, j)
      /\ Local(zone, at) = Today(at) * DayLength + Time(zone, at)
      /\ Local(zone, j) \in Int /\ Local(zone, at) \in Int
  BY ClockShows DEF Today
<1>3. SUFFICES ASSUME Today(j) < Today(at) PROVE FALSE
  BY <1>2
<1>4. Local(zone, j) < Local(zone, at)
  <2>1. ~(Today(at) * DayLength + Time(zone, at) <= Today(j) * DayLength + Time(zone, j))
    BY <1>2, <1>3, DateOrder
  <2>2. ~(Local(zone, at) <= Local(zone, j))
    BY <1>2, <2>1
  <2>3. QED
    BY <1>2, <2>2
<1>5. j <= at + DayLength
  BY <1>1, <1>4 DEF Local
<1>6. j \in at..(at + DayLength)
  BY <1>1, <1>5
<1>7. QED
  BY <1>2, <1>3, <1>6

\* A response is due when as many instants of the advertised hours have passed as
\* its service time has: breaks, closed dates, openings that overlap in time and
\* clock changes cost a customer none and give none twice.
THEOREM DeadlinesCountOpenTime == Spec => []DeadlineCountsOpenTime
<1>1. Answered => DeadlineCountsOpenTime
  <2>1. SUFFICES ASSUME Answered, Asked("due"), NEW due \in Results,
                        \A i \in answer.at..(answer.at + DayLength) : Today(i) >= Today(answer.at)
                 PROVE  /\ InWindow(company.hours, due - 1)
                        /\ Cardinality({i \in answer.at..(due - 1) : InWindow(company.hours, i)})
                             = answer.about
    BY DEF DeadlineCountsOpenTime
  <2> DEFINE at == answer.at
             time == answer.about
             s == company.hours
  <2>2. /\ at \in Nat /\ time \in Int /\ ValidSchedule(s) /\ ZoneType(company.zone)
        /\ answer.result = One(DueResult(at, time)) /\ answer.result # One(Invalid)
    BY <2>1, AvailabilityAssumption DEF Answered, Asked, ZoneType
  <2>3. due = DueAt(s, company.zone, at, time) /\ due # Invalid
    BY <2>1, <2>2 DEF Results, One, DueResult
  <2>4. \A j \in Int : at <= j => Today(j) >= Today(at)
    BY <2>1, <2>2, NoEarlierDate
  <2> HIDE DEF at, time, s
  <2>5. /\ InWindow(s, due - 1)
        /\ Cardinality({i \in at..(due - 1) : InWindow(s, i)}) = time
    BY <2>2, <2>3, <2>4, DueCountsTheTime
  <2>6. QED
    BY <2>5 DEF at, time, s
<1>2. QED
  BY <1>1, AlwaysAnswered, PTL
=============================================================================
