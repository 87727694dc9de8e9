-------------------------- MODULE AlgorithmsProofs --------------------------
(***************************************************************************)
(* The pure algorithms keep what they promise for inputs of any size, by   *)
(* induction over their data: the windows of a file, the segments of a     *)
(* markdown document, the search under a path filter, the settings.        *)
(***************************************************************************)
EXTENDS Algorithms, WellFoundedInduction, FiniteSetTheorems, SequenceTheorems, TLAPS

---------------------------------------------------------------------------
(* Induction, and recursive definitions: a recursive function is what its  *)
(* definition says if every value is made from values at inputs of smaller *)
(* measure.                                                                *)

\* A set of numbers has a least one.
LEMMA LeastNat ==
  ASSUME NEW T, T \subseteq Nat, T # {}
  PROVE  \E x \in T : \A y \in T : ~(y < x)
<1>1. \E x \in T : \A y \in T : ~(<<y, x>> \in OpToRel(<, Nat))
  BY NatLessThanWellFounded, WFMin
<1> QED BY <1>1 DEF OpToRel

\* What holds of an input when it holds of every input of smaller measure holds
\* of all.
LEMMA MeasureInduction ==
  ASSUME NEW D, NEW m \in [D -> Nat], NEW G,
         \A x \in D : (\A y \in D : m[y] < m[x] => y \in G) => x \in G
  PROVE  D \subseteq G
<1> DEFINE T == {m[x] : x \in D \ G}
<1> SUFFICES ASSUME T # {} PROVE FALSE
  OBVIOUS
<1>1. T \subseteq Nat
  OBVIOUS
<1>2. PICK n \in T : \A k \in T : ~(k < n)
  <2> HIDE DEF T
  <2> QED BY <1>1, LeastNat
<1>3. PICK x \in D \ G : m[x] = n
  OBVIOUS
<1> QED BY <1>2, <1>3

\* What holds of 0, and of a number when of the one before it, holds up to any bound.
LEMMA UpwardInduction ==
  ASSUME NEW N \in Nat, NEW G, 0 \in G, \A n \in 0..(N - 1) : n \in G => n + 1 \in G
  PROVE  0..N \subseteq G
<1> DEFINE D == 0..N
           id == [n \in D |-> n]
<1>1. id \in [D -> Nat]
  OBVIOUS
<1>2. ASSUME NEW x \in D, \A y \in D : id[y] < id[x] => y \in G PROVE x \in G
  <2>1. CASE x = 0
    BY <2>1
  <2>2. CASE x # 0
    <3>1. x - 1 \in 0..(N - 1) /\ x - 1 \in D /\ id[x - 1] < id[x]
      BY <2>2
    <3> QED BY <3>1, <1>2
  <2> QED BY <2>1, <2>2
<1>3. \A x \in D : (\A y \in D : id[y] < id[x] => y \in G) => x \in G
  BY <1>2
<1>4. D \subseteq G
  <2> HIDE DEF id, D
  <2> QED BY <1>1, <1>3, MeasureInduction
<1> QED BY <1>4

\* F makes a function of functions from D to V, the value at an input from the
\* values at inputs of smaller measure only: one step of a recursive definition.
Contracts(F, D, V, N, m) ==
  /\ V # {} /\ N \in Nat /\ m \in [D -> 0..N] /\ F \in [[D -> V] -> [D -> V]]
  /\ \A f, g \in [D -> V] : \A x \in D :
       (\A y \in D : m[y] < m[x] => f[y] = g[y]) => F[f][x] = F[g][x]

\* A recursive definition has a function: the one that n steps make is settled on
\* the inputs of measure below n.
LEMMA FixedPoint ==
  ASSUME NEW F, NEW D, NEW V, NEW N, NEW m, Contracts(F, D, V, N, m)
  PROVE  \E f \in [D -> V] : F[f] = f
<1> USE DEF Contracts
<1>0. N \in Nat
  OBVIOUS
<1> DEFINE S == {n \in 0..(N + 1) : \E f \in [D -> V] : \A x \in D : m[x] < n => F[f][x] = f[x]}
<1>1. 0 \in S
  <2>1. PICK v \in V : TRUE
    OBVIOUS
  <2> DEFINE f == [x \in D |-> v]
  <2>2. f \in [D -> V] /\ \A x \in D : ~(m[x] < 0)
    OBVIOUS
  <2>3. 0 \in 0..(N + 1)
    BY <1>0
  <2> HIDE DEF f
  <2> QED BY <2>2, <2>3
<1>2. ASSUME NEW n \in 0..N, n \in S PROVE n + 1 \in S
  <2>1. PICK f \in [D -> V] : \A x \in D : m[x] < n => F[f][x] = f[x]
    BY <1>2
  <2>2. F[f] \in [D -> V]
    OBVIOUS
  <2>3. ASSUME NEW x \in D, m[x] < n + 1 PROVE F[F[f]][x] = F[f][x]
    <3>1. \A y \in D : m[y] < m[x] => F[f][y] = f[y]
      BY <2>1, <2>3
    <3> DEFINE g == F[f]
    <3>2. (\A y \in D : m[y] < m[x] => g[y] = f[y]) => F[g][x] = F[f][x]
      BY <2>2
    <3> QED BY <3>1, <3>2
  <2>4. n + 1 \in 0..(N + 1)
    OBVIOUS
  <2> QED BY <2>2, <2>3, <2>4
<1>3. N + 1 \in S
  <2> HIDE DEF S
  <2>1. \A n \in 0..((N + 1) - 1) : n \in S => n + 1 \in S
    BY <1>0, <1>2
  <2>2. 0..(N + 1) \subseteq S
    <3>1. N + 1 \in Nat
      OBVIOUS
    <3> QED BY <1>1, <2>1, <3>1, UpwardInduction
  <2> QED BY <2>2
<1>4. PICK f \in [D -> V] : \A x \in D : m[x] < N + 1 => F[f][x] = f[x]
  BY <1>3
<1>5. \A x \in D : m[x] < N + 1
  OBVIOUS
<1>6. F[f] \in [D -> V]
  OBVIOUS
<1>7. F[f] = f
  BY <1>4, <1>5, <1>6
<1> QED BY <1>7

\* The values of f are made as those of g are, from values at smaller measure.
Determined(f, g, D, N, m) ==
  /\ N \in Nat /\ m \in [D -> 0..N]
  /\ \A x \in D : (\A y \in D : m[y] < m[x] => f[y] = g[y]) => f[x] = g[x]

\* So they are the same values.
LEMMA SameFunction ==
  ASSUME NEW f, NEW g, NEW D, NEW N, NEW m, Determined(f, g, D, N, m)
  PROVE  \A x \in D : f[x] = g[x]
<1> DEFINE G == {x \in D : f[x] = g[x]}
<1>1. \A x \in D : (\A y \in D : m[y] < m[x] => y \in G) => x \in G
  BY DEF Determined
<1>2. m \in [D -> Nat]
  BY DEF Determined
<1> HIDE DEF G
<1>3. D \subseteq G
  BY <1>1, <1>2, MeasureInduction
<1> QED BY <1>3 DEF G

\* A function that is determined by the same step, whatever its values turn out to
\* be, is the fixed point, and so has the values the fixed point has.
LEMMA OnlyFixedPoint ==
  ASSUME NEW F, NEW D, NEW V, NEW N, NEW m, Contracts(F, D, V, N, m),
         NEW g, g = [x \in D |-> g[x]],
         \A f \in [D -> V] : \A x \in D :
           (\A y \in D : m[y] < m[x] => g[y] = f[y]) => g[x] = F[f][x]
  PROVE  g \in [D -> V]
<1>1. PICK f \in [D -> V] : F[f] = f
  BY FixedPoint
<1>2. Determined(g, f, D, N, m)
  BY <1>1 DEF Determined, Contracts
<1>3. \A x \in D : g[x] = f[x]
  BY <1>2, SameFunction
<1> QED BY <1>3

---------------------------------------------------------------------------
(* The lines of a file, in memory and in the stream.                       *)

\* The characters up to a line are those up to the line before and its own.
LEMMA CharsUpToDef ==
  ASSUME NEW lines \in Seq(Nat)
  PROVE  /\ CharsUpTo(lines) \in [(0..Len(lines)) -> Nat]
         /\ \A k \in (0..Len(lines)) :
              CharsUpTo(lines)[k] = IF k = 0 THEN 0 ELSE CharsUpTo(lines)[k - 1] + lines[k] + 1
<1> DEFINE D == (0..Len(lines))
           V == Nat
           N == Len(lines)
           m == [k \in D |-> k]
           B(f) == [k \in D |-> IF k = 0 THEN 0 ELSE f[k - 1] + lines[k] + 1]
           F == [f \in [D -> V] |-> B(f)]
<1>1. V # {} /\ N \in Nat /\ m \in [D -> 0..N]
  OBVIOUS
<1>2. ASSUME NEW f \in [D -> V] PROVE B(f) \in [D -> V]
  OBVIOUS
<1>3. ASSUME NEW f, NEW g, NEW x \in D, \A y \in D : m[y] < m[x] => f[y] = g[y]
      PROVE  B(f)[x] = B(g)[x]
  BY <1>3
<1>4. F \in [[D -> V] -> [D -> V]] /\ \A f \in [D -> V] : F[f] = B(f)
  BY <1>2
<1>5. Contracts(F, D, V, N, m)
  <2>1. ASSUME NEW f \in [D -> V], NEW g \in [D -> V], NEW x \in D,
               \A y \in D : m[y] < m[x] => f[y] = g[y]
        PROVE  F[f][x] = F[g][x]
    <3> HIDE DEF D, V, N, m, B, F
    <3>1. B(f)[x] = B(g)[x]
      BY <1>3, <2>1
    <3> QED BY <1>4, <3>1
  <2> HIDE DEF D, V, N, m, B, F
  <2> QED BY <1>1, <1>4, <2>1 DEF Contracts
<1>6. CharsUpTo(lines) = B(CharsUpTo(lines))
  <2>1. \E f \in [D -> V] : f = B(f)
    <3> HIDE DEF D, V, N, m, B, F
    <3> QED BY <1>4, <1>5, FixedPoint
  <2>2. CharsUpTo(lines) = CHOOSE g : g = B(g)
    BY DEF CharsUpTo
  <2> HIDE DEF B
  <2> QED BY <2>1, <2>2, Zenon
<1>7. CharsUpTo(lines) \in [D -> V]
  <2> DEFINE g == CharsUpTo(lines)
  <2>1. g = B(g)
    BY <1>6
  <2> HIDE DEF g
  <2>2. g = [x \in D |-> g[x]]
    BY <2>1
  <2> HIDE DEF D, V, N, m, B, F
  <2>3. ASSUME NEW f \in [D -> V], NEW x \in D, \A y \in D : m[y] < m[x] => g[y] = f[y]
        PROVE  g[x] = F[f][x]
    <3>1. B(g)[x] = B(f)[x]
      BY <1>3, <2>3
    <3> QED BY <1>4, <2>1, <3>1
  <2>4. g \in [D -> V]
    BY <1>5, <2>2, <2>3, OnlyFixedPoint
  <2> QED BY <2>4 DEF g
<1> QED BY <1>6, <1>7

\* normalizeLineEndings, a byte or a break at a time.
LEMMA NormalizedDef ==
  ASSUME NEW s \in Seq(Bytes)
  PROVE  /\ Normalized(s) \in [(1..Len(s) + 1) -> Seq(Bytes)]
         /\ \A k \in (1..Len(s) + 1) :
              Normalized(s)[k] = CASE k > Len(s) -> <<>>
                [] k < Len(s) /\ s[k] = "r" /\ s[k + 1] = "n" -> <<"n">> \o Normalized(s)[k + 2]
                [] OTHER -> <<IF s[k] = "r" THEN "n" ELSE s[k]>> \o Normalized(s)[k + 1]
<1> DEFINE D == (1..Len(s) + 1)
           V == Seq(Bytes)
           N == Len(s)
           m == [k \in D |-> Len(s) + 1 - k]
           B(f) == [k \in D |-> CASE k > Len(s) -> <<>>
                [] k < Len(s) /\ s[k] = "r" /\ s[k + 1] = "n" -> <<"n">> \o f[k + 2]
                [] OTHER -> <<IF s[k] = "r" THEN "n" ELSE s[k]>> \o f[k + 1]]
           F == [f \in [D -> V] |-> B(f)]
<1>1. V # {} /\ N \in Nat /\ m \in [D -> 0..N]
  OBVIOUS
<1>2. ASSUME NEW f \in [D -> V] PROVE B(f) \in [D -> V]
  <2>1. ASSUME NEW x \in D PROVE B(f)[x] \in V
    <3>1. CASE x > Len(s)
      BY <3>1
    <3>2. CASE x < Len(s) /\ s[x] = "r" /\ s[x + 1] = "n"
      <4>1. x + 2 \in D /\ <<"n">> \in Seq(Bytes) /\ f[x + 2] \in Seq(Bytes)
        BY <3>2 DEF Bytes
      <4> QED BY <3>2, <4>1
    <3>3. CASE x <= Len(s) /\ ~(x < Len(s) /\ s[x] = "r" /\ s[x + 1] = "n")
      <4>1. x + 1 \in D /\ <<IF s[x] = "r" THEN "n" ELSE s[x]>> \in Seq(Bytes) /\ f[x + 1] \in Seq(Bytes)
        BY <3>3 DEF Bytes
      <4> QED BY <3>3, <4>1
    <3> QED BY <3>1, <3>2, <3>3
  <2> QED BY <2>1
<1>3. ASSUME NEW f, NEW g, NEW x \in D, \A y \in D : m[y] < m[x] => f[y] = g[y]
      PROVE  B(f)[x] = B(g)[x]
  <2>1. x <= Len(s) => x + 1 \in D /\ f[x + 1] = g[x + 1]
    BY <1>3
  <2>2. x < Len(s) => x + 2 \in D /\ f[x + 2] = g[x + 2]
    BY <1>3
  <2> QED BY <2>1, <2>2
<1>4. F \in [[D -> V] -> [D -> V]] /\ \A f \in [D -> V] : F[f] = B(f)
  BY <1>2
<1>5. Contracts(F, D, V, N, m)
  <2>1. ASSUME NEW f \in [D -> V], NEW g \in [D -> V], NEW x \in D,
               \A y \in D : m[y] < m[x] => f[y] = g[y]
        PROVE  F[f][x] = F[g][x]
    <3> HIDE DEF D, V, N, m, B, F
    <3>1. B(f)[x] = B(g)[x]
      BY <1>3, <2>1
    <3> QED BY <1>4, <3>1
  <2> HIDE DEF D, V, N, m, B, F
  <2> QED BY <1>1, <1>4, <2>1 DEF Contracts
<1>6. Normalized(s) = B(Normalized(s))
  <2>1. \E f \in [D -> V] : f = B(f)
    <3> HIDE DEF D, V, N, m, B, F
    <3> QED BY <1>4, <1>5, FixedPoint
  <2>2. Normalized(s) = CHOOSE g : g = B(g)
    BY DEF Normalized
  <2> HIDE DEF B
  <2> QED BY <2>1, <2>2, Zenon
<1>7. Normalized(s) \in [D -> V]
  <2> DEFINE g == Normalized(s)
  <2>1. g = B(g)
    BY <1>6
  <2> HIDE DEF g
  <2>2. g = [x \in D |-> g[x]]
    BY <2>1
  <2> HIDE DEF D, V, N, m, B, F
  <2>3. ASSUME NEW f \in [D -> V], NEW x \in D, \A y \in D : m[y] < m[x] => g[y] = f[y]
        PROVE  g[x] = F[f][x]
    <3>1. B(g)[x] = B(f)[x]
      BY <1>3, <2>3
    <3> QED BY <1>4, <2>1, <3>1
  <2>4. g \in [D -> V]
    BY <1>5, <2>2, <2>3, OnlyFixedPoint
  <2> QED BY <2>4 DEF g
<1> QED BY <1>6, <1>7

\* A text has a line at least.
SomeLines == {q \in Seq(Nat) : q # <<>>}

\* A character more in the first line.
LEMMA FirstGrows ==
  ASSUME NEW q \in SomeLines
  PROVE  /\ Longer(q) \in SomeLines
         /\ Len(Longer(q)) = Len(q)
<1> DEFINE p == [q EXCEPT ![1] = @ + 1]
<1>1. q \in Seq(Nat) /\ Len(q) \in Nat \ {0}
  BY DEF SomeLines
<1>2. p \in [1..Len(q) -> Nat]
  BY <1>1
<1>3. p \in Seq(Nat) /\ Len(p) = Len(q)
  BY <1>1, <1>2
<1> QED BY <1>1, <1>3 DEF SomeLines, Longer

\* A line in front of the others.
LEMMA OneMoreLine ==
  ASSUME NEW q \in SomeLines
  PROVE  <<0>> \o q \in SomeLines
BY DEF SomeLines

\* strings.Split, a byte at a time from any byte on.
LEMMA SplitDef ==
  ASSUME NEW s \in Seq(Bytes)
  PROVE  /\ Split(s) \in [(1..Len(s) + 1) -> SomeLines]
         /\ \A k \in (1..Len(s) + 1) :
              Split(s)[k] = CASE k > Len(s) -> <<0>>
                [] k <= Len(s) /\ s[k] = "n" -> <<0>> \o Split(s)[k + 1]
                [] OTHER -> Longer(Split(s)[k + 1])
<1> DEFINE D == (1..Len(s) + 1)
           V == SomeLines
           N == Len(s)
           m == [k \in D |-> Len(s) + 1 - k]
           B(f) == [k \in D |-> CASE k > Len(s) -> <<0>>
                [] k <= Len(s) /\ s[k] = "n" -> <<0>> \o f[k + 1]
                [] OTHER -> Longer(f[k + 1])]
           F == [f \in [D -> V] |-> B(f)]
<1>1. V # {} /\ N \in Nat /\ m \in [D -> 0..N]
  <2>1. <<0>> \in SomeLines
    BY DEF SomeLines
  <2> QED BY <2>1
<1>2. ASSUME NEW f \in [D -> V] PROVE B(f) \in [D -> V]
  <2>1. ASSUME NEW x \in D PROVE B(f)[x] \in V
    <3>1. CASE x > Len(s)
      BY <3>1 DEF SomeLines
    <3>2. CASE x <= Len(s) /\ s[x] = "n"
      <4>1. x + 1 \in D /\ f[x + 1] \in SomeLines
        BY <3>2
      <4> QED BY <3>2, <4>1, OneMoreLine
    <3>3. CASE x <= Len(s) /\ ~(s[x] = "n")
      <4>1. x + 1 \in D /\ f[x + 1] \in SomeLines
        BY <3>3
      <4> QED BY <3>3, <4>1, FirstGrows
    <3> QED BY <3>1, <3>2, <3>3
  <2> QED BY <2>1
<1>3. ASSUME NEW f, NEW g, NEW x \in D, \A y \in D : m[y] < m[x] => f[y] = g[y]
      PROVE  B(f)[x] = B(g)[x]
  <2>1. x <= Len(s) => x + 1 \in D /\ f[x + 1] = g[x + 1]
    BY <1>3
  <2> QED BY <2>1
<1>4. F \in [[D -> V] -> [D -> V]] /\ \A f \in [D -> V] : F[f] = B(f)
  BY <1>2
<1>5. Contracts(F, D, V, N, m)
  <2>1. ASSUME NEW f \in [D -> V], NEW g \in [D -> V], NEW x \in D,
               \A y \in D : m[y] < m[x] => f[y] = g[y]
        PROVE  F[f][x] = F[g][x]
    <3> HIDE DEF D, V, N, m, B, F
    <3>1. B(f)[x] = B(g)[x]
      BY <1>3, <2>1
    <3> QED BY <1>4, <3>1
  <2> HIDE DEF D, V, N, m, B, F
  <2> QED BY <1>1, <1>4, <2>1 DEF Contracts
<1>6. Split(s) = B(Split(s))
  <2>1. \E f \in [D -> V] : f = B(f)
    <3> HIDE DEF D, V, N, m, B, F
    <3> QED BY <1>4, <1>5, FixedPoint
  <2>2. Split(s) = CHOOSE g : g = B(g)
    BY DEF Split
  <2> HIDE DEF B
  <2> QED BY <2>1, <2>2, Zenon
<1>7. Split(s) \in [D -> V]
  <2> DEFINE g == Split(s)
  <2>1. g = B(g)
    BY <1>6
  <2> HIDE DEF g
  <2>2. g = [x \in D |-> g[x]]
    BY <2>1
  <2> HIDE DEF D, V, N, m, B, F
  <2>3. ASSUME NEW f \in [D -> V], NEW x \in D, \A y \in D : m[y] < m[x] => g[y] = f[y]
        PROVE  g[x] = F[f][x]
    <3>1. B(g)[x] = B(f)[x]
      BY <1>3, <2>3
    <3> QED BY <1>4, <2>1, <3>1
  <2>4. g \in [D -> V]
    BY <1>5, <2>2, <2>3, OnlyFixedPoint
  <2> QED BY <2>4 DEF g
<1> QED BY <1>6, <1>7

\* lineReader, a byte or a break at a time from any byte on.
LEMMA LinesReadDef ==
  ASSUME NEW s \in Seq(Bytes)
  PROVE  /\ LinesRead(s) \in [(1..Len(s) + 1) -> SomeLines]
         /\ \A k \in (1..Len(s) + 1) :
              LinesRead(s)[k] = CASE k > Len(s) -> <<0>>
                [] k <= Len(s) /\ IsBreak(s[k]) -> <<0>> \o LinesRead(s)[PastBreak(s, k)]
                [] OTHER -> Longer(LinesRead(s)[k + 1])
<1> DEFINE D == (1..Len(s) + 1)
           V == SomeLines
           N == Len(s)
           m == [k \in D |-> Len(s) + 1 - k]
           B(f) == [k \in D |-> CASE k > Len(s) -> <<0>>
                [] k <= Len(s) /\ IsBreak(s[k]) -> <<0>> \o f[PastBreak(s, k)]
                [] OTHER -> Longer(f[k + 1])]
           F == [f \in [D -> V] |-> B(f)]
<1>1. V # {} /\ N \in Nat /\ m \in [D -> 0..N]
  <2>1. <<0>> \in SomeLines
    BY DEF SomeLines
  <2> QED BY <2>1
<1>2. ASSUME NEW f \in [D -> V] PROVE B(f) \in [D -> V]
  <2>1. ASSUME NEW x \in D PROVE B(f)[x] \in V
    <3>1. CASE x > Len(s)
      BY <3>1 DEF SomeLines
    <3>2. CASE x <= Len(s) /\ IsBreak(s[x])
      <4>1. PastBreak(s, x) \in D /\ f[PastBreak(s, x)] \in SomeLines
        BY <3>2 DEF PastBreak
      <4> QED BY <3>2, <4>1, OneMoreLine
    <3>3. CASE x <= Len(s) /\ ~IsBreak(s[x])
      <4>1. x + 1 \in D /\ f[x + 1] \in SomeLines
        BY <3>3
      <4> QED BY <3>3, <4>1, FirstGrows
    <3> QED BY <3>1, <3>2, <3>3
  <2> QED BY <2>1
<1>3. ASSUME NEW f, NEW g, NEW x \in D, \A y \in D : m[y] < m[x] => f[y] = g[y]
      PROVE  B(f)[x] = B(g)[x]
  <2>1. x <= Len(s) => x + 1 \in D /\ f[x + 1] = g[x + 1]
    BY <1>3
  <2>2. x <= Len(s) => PastBreak(s, x) \in D /\ f[PastBreak(s, x)] = g[PastBreak(s, x)]
    BY <1>3 DEF PastBreak
  <2> QED BY <2>1, <2>2
<1>4. F \in [[D -> V] -> [D -> V]] /\ \A f \in [D -> V] : F[f] = B(f)
  BY <1>2
<1>5. Contracts(F, D, V, N, m)
  <2>1. ASSUME NEW f \in [D -> V], NEW g \in [D -> V], NEW x \in D,
               \A y \in D : m[y] < m[x] => f[y] = g[y]
        PROVE  F[f][x] = F[g][x]
    <3> HIDE DEF D, V, N, m, B, F
    <3>1. B(f)[x] = B(g)[x]
      BY <1>3, <2>1
    <3> QED BY <1>4, <3>1
  <2> HIDE DEF D, V, N, m, B, F
  <2> QED BY <1>1, <1>4, <2>1 DEF Contracts
<1>6. LinesRead(s) = B(LinesRead(s))
  <2>1. \E f \in [D -> V] : f = B(f)
    <3> HIDE DEF D, V, N, m, B, F
    <3> QED BY <1>4, <1>5, FixedPoint
  <2>2. LinesRead(s) = CHOOSE g : g = B(g)
    BY DEF LinesRead
  <2> HIDE DEF B
  <2> QED BY <2>1, <2>2, Zenon
<1>7. LinesRead(s) \in [D -> V]
  <2> DEFINE g == LinesRead(s)
  <2>1. g = B(g)
    BY <1>6
  <2> HIDE DEF g
  <2>2. g = [x \in D |-> g[x]]
    BY <2>1
  <2> HIDE DEF D, V, N, m, B, F
  <2>3. ASSUME NEW f \in [D -> V], NEW x \in D, \A y \in D : m[y] < m[x] => g[y] = f[y]
        PROVE  g[x] = F[f][x]
    <3>1. B(g)[x] = B(f)[x]
      BY <1>3, <2>3
    <3> QED BY <1>4, <2>1, <3>1
  <2>4. g \in [D -> V]
    BY <1>5, <2>2, <2>3, OnlyFixedPoint
  <2> QED BY <2>4 DEF g
<1> QED BY <1>6, <1>7

\* Split by the byte that comes next.
LEMMA SplitCases ==
  ASSUME NEW s \in Seq(Bytes), NEW k \in Nat \ {0}
  PROVE  /\ k = Len(s) + 1 => Split(s)[k] = <<0>>
         /\ k <= Len(s) /\ s[k] = "n" => Split(s)[k] = <<0>> \o Split(s)[k + 1]
         /\ k <= Len(s) /\ s[k] # "n" => Split(s)[k] = Longer(Split(s)[k + 1])
<1> DEFINE D == 1..Len(s) + 1
<1>1. \A i \in D : Split(s)[i] = CASE i > Len(s) -> <<0>>
                                   [] i <= Len(s) /\ s[i] = "n" -> <<0>> \o Split(s)[i + 1]
                                   [] OTHER -> Longer(Split(s)[i + 1])
  BY SplitDef
<1>2. Len(s) \in Nat
  OBVIOUS
<1>3. k <= Len(s) + 1 => k \in D
  BY <1>2
<1>4. k <= Len(s) + 1 => Split(s)[k] = CASE k > Len(s) -> <<0>>
                                   [] k <= Len(s) /\ s[k] = "n" -> <<0>> \o Split(s)[k + 1]
                                   [] OTHER -> Longer(Split(s)[k + 1])
  <2> HIDE DEF D
  <2> QED BY <1>1, <1>3
<1> DEFINE one == <<0>> \o Split(s)[k + 1]
           longer == Longer(Split(s)[k + 1])
           none == <<0>>
<1>5. k <= Len(s) + 1 => Split(s)[k] = CASE k > Len(s) -> none
                                   [] k <= Len(s) /\ s[k] = "n" -> one
                                   [] OTHER -> longer
  BY <1>4
<1>6. /\ k = Len(s) + 1 => Split(s)[k] = none
      /\ k <= Len(s) /\ s[k] = "n" => Split(s)[k] = one
      /\ k <= Len(s) /\ s[k] # "n" => Split(s)[k] = longer
  <2> HIDE DEF one, longer, none
  <2> QED BY <1>2, <1>5
<1> QED BY <1>6

\* A byte in front leaves the lines after it as they are.
LEMMA SplitShift ==
  ASSUME NEW u \in Seq(Bytes), NEW c \in Bytes
  PROVE  /\ <<c>> \o u \in Seq(Bytes)
         /\ \A j \in 1..(Len(u) + 1) : Split(<<c>> \o u)[j + 1] = Split(u)[j]
<1> DEFINE t == <<c>> \o u
           D == 1..(Len(u) + 1)
           m == [j \in D |-> Len(u) + 1 - j]
           G == {j \in D : Split(t)[j + 1] = Split(u)[j]}
<1>1. /\ t \in Seq(Bytes) /\ Len(u) \in Nat /\ Len(t) = Len(u) + 1
      /\ \A j \in 1..Len(u) : t[j + 1] = u[j]
  OBVIOUS
<1>2. m \in [D -> Nat]
  BY <1>1
<1>3. ASSUME NEW j \in D, \A i \in D : m[i] < m[j] => i \in G PROVE j \in G
  <2>1. j \in 1..Len(u) + 1 /\ j + 1 \in 1..Len(t) + 1
    BY <1>1
  <2>2. j <= Len(u) => j + 1 \in D /\ t[j + 1] = u[j] /\ Split(t)[j + 2] = Split(u)[j + 1]
    BY <1>1, <1>3
  <2> HIDE DEF t
  <2>3. /\ j + 1 = Len(t) + 1 => Split(t)[j + 1] = <<0>>
        /\ j + 1 <= Len(t) /\ t[j + 1] = "n" => Split(t)[j + 1] = <<0>> \o Split(t)[(j + 1) + 1]
        /\ j + 1 <= Len(t) /\ t[j + 1] # "n" => Split(t)[j + 1] = Longer(Split(t)[(j + 1) + 1])
    <3>1. j + 1 \in Nat \ {0}
      BY <2>1
    <3> QED BY <1>1, <3>1, SplitCases
  <2>4. /\ j = Len(u) + 1 => Split(u)[j] = <<0>>
        /\ j <= Len(u) /\ u[j] = "n" => Split(u)[j] = <<0>> \o Split(u)[j + 1]
        /\ j <= Len(u) /\ u[j] # "n" => Split(u)[j] = Longer(Split(u)[j + 1])
    <3>1. j \in Nat \ {0}
      BY <2>1
    <3> QED BY <3>1, SplitCases
  <2>5. CASE j > Len(u)
    <3>1. j = Len(u) + 1 /\ j + 1 = Len(t) + 1
      BY <1>1, <2>1, <2>5
    <3> QED BY <2>3, <2>4, <3>1
  <2>6. CASE j <= Len(u)
    <3>1. j + 1 <= Len(t) /\ (j + 1) + 1 = j + 2
      BY <1>1, <2>1, <2>6
    <3>2. Split(t)[j + 1] = Split(u)[j]
      BY <2>2, <2>3, <2>4, <2>6, <3>1
    <3> QED BY <3>2
  <2> QED BY <1>1, <2>1, <2>5, <2>6
<1>4. \A j \in D : (\A i \in D : m[i] < m[j] => i \in G) => j \in G
  BY <1>3
<1>5. D \subseteq G
  <2> HIDE DEF D, m, G
  <2> QED BY <1>2, <1>4, MeasureInduction
<1> QED BY <1>1, <1>5

\* The first line after a character, and after a break.
LEMMA SplitFirst ==
  ASSUME NEW u \in Seq(Bytes), NEW c \in Bytes
  PROVE  Split(<<c>> \o u)[1] = IF c = "n" THEN <<0>> \o Split(u)[1] ELSE Longer(Split(u)[1])
<1> DEFINE t == <<c>> \o u
<1>1. /\ t \in Seq(Bytes) /\ Len(u) \in Nat /\ Len(t) = Len(u) + 1 /\ t[1] = c
      /\ Split(t)[2] = Split(u)[1]
  <2>1. Split(t)[1 + 1] = Split(u)[1]
    BY SplitShift
  <2> QED BY <2>1
<1> HIDE DEF t
<1>2. /\ 1 <= Len(t) /\ t[1] = "n" => Split(t)[1] = <<0>> \o Split(t)[1 + 1]
      /\ 1 <= Len(t) /\ t[1] # "n" => Split(t)[1] = Longer(Split(t)[1 + 1])
  BY <1>1, SplitCases
<1>3. Split(t)[1] = IF c = "n" THEN <<0>> \o Split(u)[1] ELSE Longer(Split(u)[1])
  <2> DEFINE one == <<0>> \o Split(u)[1]
             longer == Longer(Split(u)[1])
  <2>1. /\ c = "n" => Split(t)[1] = one
        /\ c # "n" => Split(t)[1] = longer
    BY <1>1, <1>2
  <2> HIDE DEF one, longer
  <2>2. Split(t)[1] = IF c = "n" THEN one ELSE longer
    BY <2>1
  <2> QED BY <2>2 DEF one, longer
<1> QED BY <1>3 DEF t

\* From any byte on, lineReader reads the lines that normalizing and splitting make.
LEMMA ReadersAgree ==
  ASSUME NEW s \in Seq(Bytes)
  PROVE  \A k \in 1..(Len(s) + 1) : Split(Normalized(s)[k])[1] = LinesRead(s)[k]
<1> DEFINE D == 1..(Len(s) + 1)
           m == [k \in D |-> Len(s) + 1 - k]
           G == {k \in D : Split(Normalized(s)[k])[1] = LinesRead(s)[k]}
<1>1. Len(s) \in Nat /\ m \in [D -> Nat]
  OBVIOUS
<1>2. ASSUME NEW k \in D, \A i \in D : m[i] < m[k] => i \in G PROVE k \in G
  <2>1. k \in 1..Len(s) + 1 /\ D = 1..Len(s) + 1
    BY <1>1
  <2>2. Normalized(s)[k] = CASE k > Len(s) -> <<>>
                             [] k < Len(s) /\ s[k] = "r" /\ s[k + 1] = "n" -> <<"n">> \o Normalized(s)[k + 2]
                             [] OTHER -> <<IF s[k] = "r" THEN "n" ELSE s[k]>> \o Normalized(s)[k + 1]
    BY <2>1, NormalizedDef
  <2>3. LinesRead(s)[k] = CASE k > Len(s) -> <<0>>
                            [] k <= Len(s) /\ IsBreak(s[k]) -> <<0>> \o LinesRead(s)[PastBreak(s, k)]
                            [] OTHER -> Longer(LinesRead(s)[k + 1])
    BY <2>1, LinesReadDef
  <2>4. \A i \in D : Normalized(s)[i] \in Seq(Bytes)
    BY <2>1, NormalizedDef
  <2>5. k <= Len(s) => k + 1 \in D /\ Split(Normalized(s)[k + 1])[1] = LinesRead(s)[k + 1]
    BY <1>1, <1>2
  <2>6. k < Len(s) => k + 2 \in D /\ Split(Normalized(s)[k + 2])[1] = LinesRead(s)[k + 2]
    BY <1>1, <1>2
  <2>7. CASE k > Len(s)
    <3>1. Split(<<>>)[1] = <<0>>
      <4> DEFINE s0 == <<>>
      <4>1. s0 \in Seq(Bytes) /\ 1 = Len(s0) + 1 /\ 1 \in Nat \ {0}
        OBVIOUS
      <4> HIDE DEF s0
      <4>2. Split(s0)[1] = <<0>>
        BY <4>1, SplitCases
      <4> QED BY <4>2 DEF s0
    <3> QED BY <2>2, <2>3, <2>7, <3>1
  <2>8. CASE k < Len(s) /\ s[k] = "r" /\ s[k + 1] = "n"
    <3>1. Normalized(s)[k] = <<"n">> \o Normalized(s)[k + 2]
      BY <2>1, <2>2, <2>8
    <3>2. LinesRead(s)[k] = <<0>> \o LinesRead(s)[k + 2]
      BY <2>1, <2>3, <2>8 DEF IsBreak, PastBreak
    <3>3. "n" \in Bytes /\ Normalized(s)[k + 2] \in Seq(Bytes)
      BY <2>4, <2>6, <2>8 DEF Bytes
    <3>4. Split(Normalized(s)[k])[1] = <<0>> \o Split(Normalized(s)[k + 2])[1]
      BY <3>1, <3>3, SplitFirst
    <3> QED BY <2>6, <2>8, <3>2, <3>4
  <2>9. CASE k <= Len(s) /\ ~(k < Len(s) /\ s[k] = "r" /\ s[k + 1] = "n")
    <3> DEFINE c == IF s[k] = "r" THEN "n" ELSE s[k]
    <3>1. Normalized(s)[k] = <<c>> \o Normalized(s)[k + 1]
      BY <2>1, <2>2, <2>9
    <3>2. LinesRead(s)[k] = IF c = "n" THEN <<0>> \o LinesRead(s)[k + 1]
                            ELSE Longer(LinesRead(s)[k + 1])
      BY <2>1, <2>3, <2>9 DEF IsBreak, PastBreak
    <3>3. c \in Bytes /\ Normalized(s)[k + 1] \in Seq(Bytes)
      BY <2>1, <2>4, <2>5, <2>9 DEF Bytes
    <3> HIDE DEF c
    <3>4. Split(Normalized(s)[k])[1] = IF c = "n" THEN <<0>> \o Split(Normalized(s)[k + 1])[1]
                                       ELSE Longer(Split(Normalized(s)[k + 1])[1])
      BY <3>1, <3>3, SplitFirst
    <3> QED BY <2>5, <2>9, <3>2, <3>4
  <2> QED BY <1>1, <2>7, <2>8, <2>9
<1>3. \A k \in D : (\A i \in D : m[i] < m[k] => i \in G) => k \in G
  BY <1>2
<1>4. D \subseteq G
  <2> HIDE DEF D, m, G
  <2> QED BY <1>1, <1>3, MeasureInduction
<1> QED BY <1>4

\* The lines of a file in memory and in the stream.
LEMMA SameLines ==
  ASSUME NEW s \in Seq(Bytes)
  PROVE  /\ MemoryLines(s) \in SomeLines
         /\ s # <<>> => MemoryLines(s) = ReadLines(s)
         /\ s = <<>> => MemoryLines(s) = <<0>> /\ ReadLines(s) = <<>>
<1>1. 1 \in 1..(Len(s) + 1) /\ 1 \in 1..Len(s) + 1
  OBVIOUS
<1>2. MemoryLines(s) = LinesRead(s)[1]
  BY <1>1, ReadersAgree DEF MemoryLines
<1>3. LinesRead(s)[1] \in SomeLines
  BY <1>1, LinesReadDef
<1>4. s = <<>> => LinesRead(s)[1] = <<0>>
  <2>1. LinesRead(s)[1] = CASE 1 > Len(s) -> <<0>>
                            [] 1 <= Len(s) /\ IsBreak(s[1]) -> <<0>> \o LinesRead(s)[PastBreak(s, 1)]
                            [] OTHER -> Longer(LinesRead(s)[1 + 1])
    BY <1>1, LinesReadDef
  <2>2. s = <<>> => 1 > Len(s)
    OBVIOUS
  <2> QED BY <2>1, <2>2
<1> QED BY <1>2, <1>3, <1>4 DEF ReadLines

---------------------------------------------------------------------------
(* Windows, and where they end.                                            *)

\* Windows as sequences of <<first, last>>.
Windows == Seq(Int \X Int)
\* What NormalizeWindow makes of any configuration: an overlap below the window.
ProperSize(size) == size.window \in Nat \ {0} /\ size.overlap \in Nat /\ size.overlap < size.window

\* It does.
LEMMA ProperWindows ==
  ASSUME NEW window \in Int, NEW overlap \in Int
  PROVE  ProperSize(NormalizeWindow(window, overlap))
BY DEF ProperSize, NormalizeWindow, DefaultWindow, DefaultOverlap

\* A window that is kept is a window.
LEMMA KeptWindows ==
  ASSUME NEW lines, NEW i \in Int, NEW j \in Int
  PROVE  Kept(lines, <<i, j>>) \in Windows
BY DEF Kept, Windows

\* And so is one in front of others.
LEMMA OneWindowMore ==
  ASSUME NEW lines, NEW i \in Int, NEW j \in Int, NEW windows \in Windows
  PROVE  /\ Kept(lines, <<i, j>>) \o windows \in Windows
         /\ <<<<i, j>>>> \o windows \in Windows
         /\ Kept(lines, <<i, j>>) \o <<>> = Kept(lines, <<i, j>>)
<1>1. Kept(lines, <<i, j>>) \in Windows
  BY KeptWindows
<1>2. <<<<i, j>>>> \in Windows
  BY DEF Windows
<1> QED BY <1>1, <1>2 DEF Windows

\* The stream of windows from any line on.
LEMMA StreamFromDef ==
  ASSUME NEW lines \in Seq(Nat), NEW size, ProperSize(size)
  PROVE  /\ StreamFrom(lines, size) \in [(0..Len(lines)) -> Windows]
         /\ \A k \in (0..Len(lines)) :
              StreamFrom(lines, size)[k] = CASE k = Len(lines) -> <<>>
                [] k < Len(lines) /\ k + size.window >= Len(lines) -> Kept(lines, <<k + 1, Len(lines)>>)
                [] OTHER -> Kept(lines, <<k + 1, k + size.window>>) \o StreamFrom(lines, size)[k + size.window - size.overlap]
<1> DEFINE D == (0..Len(lines))
           V == Windows
           N == Len(lines)
           m == [k \in D |-> Len(lines) - k]
           B(f) == [k \in D |-> CASE k = Len(lines) -> <<>>
                [] k < Len(lines) /\ k + size.window >= Len(lines) -> Kept(lines, <<k + 1, Len(lines)>>)
                [] OTHER -> Kept(lines, <<k + 1, k + size.window>>) \o f[k + size.window - size.overlap]]
           F == [f \in [D -> V] |-> B(f)]
<1>1. V # {} /\ N \in Nat /\ m \in [D -> 0..N]
  <2>1. <<>> \in Windows
    BY DEF Windows
  <2> QED BY <2>1
<1>2. ASSUME NEW f \in [D -> V] PROVE B(f) \in [D -> V]
  <2>1. ASSUME NEW x \in D PROVE B(f)[x] \in V
    <3>1. CASE x = Len(lines)
      BY <3>1 DEF Windows
    <3>2. CASE x < Len(lines) /\ x + size.window >= Len(lines)
      <4>1. Kept(lines, <<x + 1, Len(lines)>>) \in Windows
        BY KeptWindows
      <4> QED BY <3>2, <4>1
    <3>3. CASE x < Len(lines) /\ x + size.window < Len(lines)
      <4>1. x + size.window - size.overlap \in D
        BY <3>3 DEF ProperSize
      <4>2. f[x + size.window - size.overlap] \in Windows
        BY <4>1
      <4>3. Kept(lines, <<x + 1, x + size.window>>) \o f[x + size.window - size.overlap] \in Windows
        <5>1. x + 1 \in Int /\ x + size.window \in Int
          BY DEF ProperSize
        <5> QED BY <4>2, <5>1, OneWindowMore
      <4>4. ~(x < Len(lines) /\ x + size.window >= Len(lines)) /\ x # Len(lines)
        BY <3>3 DEF ProperSize
      <4>5. B(f)[x] = Kept(lines, <<x + 1, x + size.window>>) \o f[x + size.window - size.overlap]
        BY <4>4
      <4> HIDE DEF B
      <4> QED BY <4>3, <4>5
    <3>4. x + size.window \in Int
      BY DEF ProperSize
    <3> HIDE DEF B
    <3> QED BY <3>1, <3>2, <3>3, <3>4
  <2> QED BY <2>1
<1>3. ASSUME NEW f, NEW g, NEW x \in D, \A y \in D : m[y] < m[x] => f[y] = g[y]
      PROVE  B(f)[x] = B(g)[x]
  <2> DEFINE y == x + size.window - size.overlap
  <2>1. CASE x = Len(lines) \/ x + size.window >= Len(lines)
    BY <2>1
  <2>2. CASE ~(x = Len(lines) \/ x + size.window >= Len(lines))
    <3>1. y \in D /\ m[y] < m[x]
      BY <2>2 DEF ProperSize
    <3>2. f[y] = g[y]
      BY <1>3, <3>1
    <3> QED BY <2>2, <3>2
  <2> QED BY <2>1, <2>2
<1>4. F \in [[D -> V] -> [D -> V]] /\ \A f \in [D -> V] : F[f] = B(f)
  BY <1>2
<1>5. Contracts(F, D, V, N, m)
  <2>1. ASSUME NEW f \in [D -> V], NEW g \in [D -> V], NEW x \in D,
               \A y \in D : m[y] < m[x] => f[y] = g[y]
        PROVE  F[f][x] = F[g][x]
    <3> HIDE DEF D, V, N, m, B, F
    <3>1. B(f)[x] = B(g)[x]
      BY <1>3, <2>1
    <3> QED BY <1>4, <3>1
  <2> HIDE DEF D, V, N, m, B, F
  <2> QED BY <1>1, <1>4, <2>1 DEF Contracts
<1>6. StreamFrom(lines, size) = B(StreamFrom(lines, size))
  <2>1. \E f \in [D -> V] : f = B(f)
    <3> HIDE DEF D, V, N, m, B, F
    <3> QED BY <1>4, <1>5, FixedPoint
  <2>2. StreamFrom(lines, size) = CHOOSE g : g = B(g)
    BY DEF StreamFrom
  <2> HIDE DEF B
  <2> QED BY <2>1, <2>2, Zenon
<1>7. StreamFrom(lines, size) \in [D -> V]
  <2> DEFINE g == StreamFrom(lines, size)
  <2>1. g = B(g)
    BY <1>6
  <2> HIDE DEF g
  <2>2. g = [x \in D |-> g[x]]
    BY <2>1
  <2> HIDE DEF D, V, N, m, B, F
  <2>3. ASSUME NEW f \in [D -> V], NEW x \in D, \A y \in D : m[y] < m[x] => g[y] = f[y]
        PROVE  g[x] = F[f][x]
    <3>1. B(g)[x] = B(f)[x]
      BY <1>3, <2>3
    <3> QED BY <1>4, <2>1, <3>1
  <2>4. g \in [D -> V]
    BY <1>5, <2>2, <2>3, OnlyFixedPoint
  <2> QED BY <2>4 DEF g
<1> QED BY <1>6, <1>7

\* Where the bisection may still look.
Spans(first, hi) == (first..hi) \X (first..hi)

\* A step of the bisection.
BisectStep(lines, first, budget, b, r) ==
  LET mid == r[1] + (r[2] - r[1] + 1) \div 2
  IN  CASE r[1] >= r[2] -> r[1]
        [] r[1] < r[2] /\ TooLarge(lines, first, mid, budget) -> b[<<r[1], mid - 1>>]
        [] OTHER -> b[<<mid, r[2]>>]

\* The bisection between any two lines.
LEMMA BisectDef ==
  ASSUME NEW lines, NEW budget, NEW first \in Nat, NEW hi \in Nat, first <= hi
  PROVE  /\ Bisect(lines, first, hi, budget) \in [Spans(first, hi) -> (first..hi)]
         /\ \A r \in Spans(first, hi) :
              Bisect(lines, first, hi, budget)[r] = BisectStep(lines, first, budget, Bisect(lines, first, hi, budget), r)
<1> DEFINE D == Spans(first, hi)
           V == (first..hi)
           N == (hi - first)
           m == [r \in D |-> IF r[1] < r[2] THEN r[2] - r[1] ELSE 0]
           B(f) == [r \in D |-> BisectStep(lines, first, budget, f, r)]
           F == [f \in [D -> V] |-> B(f)]
<1>1. V # {} /\ N \in Nat /\ m \in [D -> 0..N]
  BY DEF Spans
<1>2. ASSUME NEW f \in [D -> V] PROVE B(f) \in [D -> V]
  <2> DEFINE mid(x) == x[1] + (x[2] - x[1] + 1) \div 2
  <2>1. ASSUME NEW x \in D PROVE B(f)[x] \in V
    <3>1. CASE x[1] >= x[2]
      BY <3>1 DEF BisectStep, Spans
    <3>2. CASE x[1] < x[2]
      <4>1. <<x[1], mid(x) - 1>> \in D /\ <<mid(x), x[2]>> \in D
        BY <3>2 DEF Spans
      <4>2. f[<<x[1], mid(x) - 1>>] \in V /\ f[<<mid(x), x[2]>>] \in V
        BY <4>1
      <4> QED BY <3>2, <4>2 DEF BisectStep, Spans
    <3> QED BY <3>1, <3>2 DEF Spans
  <2> QED BY <2>1
<1>3. ASSUME NEW f, NEW g, NEW x \in D, \A y \in D : m[y] < m[x] => f[y] = g[y]
      PROVE  B(f)[x] = B(g)[x]
  <2> DEFINE mid == x[1] + (x[2] - x[1] + 1) \div 2
  <2>1. CASE x[1] >= x[2]
    BY <2>1 DEF BisectStep, Spans
  <2>2. CASE x[1] < x[2]
    <3>1. <<x[1], mid - 1>> \in D /\ <<mid, x[2]>> \in D
      BY <2>2 DEF Spans
    <3>2. m[<<x[1], mid - 1>>] < m[x] /\ m[<<mid, x[2]>>] < m[x]
      BY <2>2, <3>1 DEF Spans
    <3>3. f[<<x[1], mid - 1>>] = g[<<x[1], mid - 1>>] /\ f[<<mid, x[2]>>] = g[<<mid, x[2]>>]
      BY <1>3, <3>1, <3>2
    <3> QED BY <2>2, <3>3 DEF BisectStep, Spans
  <2> QED BY <2>1, <2>2 DEF Spans
<1>4. F \in [[D -> V] -> [D -> V]] /\ \A f \in [D -> V] : F[f] = B(f)
  BY <1>2
<1>5. Contracts(F, D, V, N, m)
  <2>1. ASSUME NEW f \in [D -> V], NEW g \in [D -> V], NEW x \in D,
               \A y \in D : m[y] < m[x] => f[y] = g[y]
        PROVE  F[f][x] = F[g][x]
    <3> HIDE DEF D, V, N, m, B, F
    <3>1. B(f)[x] = B(g)[x]
      BY <1>3, <2>1
    <3> QED BY <1>4, <3>1
  <2> HIDE DEF D, V, N, m, B, F
  <2> QED BY <1>1, <1>4, <2>1 DEF Contracts
<1>6. Bisect(lines, first, hi, budget) = B(Bisect(lines, first, hi, budget))
  <2>1. \E f \in [D -> V] : f = B(f)
    <3> HIDE DEF D, V, N, m, B, F
    <3> QED BY <1>4, <1>5, FixedPoint
  <2>2. Bisect(lines, first, hi, budget) = CHOOSE g : g = B(g)
    BY DEF Bisect, BisectStep, Spans
  <2> HIDE DEF B
  <2> QED BY <2>1, <2>2, Zenon
<1>7. Bisect(lines, first, hi, budget) \in [D -> V]
  <2> DEFINE g == Bisect(lines, first, hi, budget)
  <2>1. g = B(g)
    BY <1>6
  <2> HIDE DEF g
  <2>2. g = [x \in D |-> g[x]]
    BY <2>1
  <2> HIDE DEF D, V, N, m, B, F
  <2>3. ASSUME NEW f \in [D -> V], NEW x \in D, \A y \in D : m[y] < m[x] => g[y] = f[y]
        PROVE  g[x] = F[f][x]
    <3>1. B(g)[x] = B(f)[x]
      BY <1>3, <2>3
    <3> QED BY <1>4, <2>1, <3>1
  <2>4. g \in [D -> V]
    BY <1>5, <2>2, <2>3, OnlyFixedPoint
  <2> QED BY <2>4 DEF g
<1> QED BY <1>6, <1>7

\* The bisection ends in the window, at its first line or at one within the budget.
LEMMA BisectSound ==
  ASSUME NEW lines, NEW budget, NEW first \in Nat, NEW hi \in Nat, first <= hi
  PROVE  LET e == Bisect(lines, first, hi, budget)[<<first, hi>>]
         IN  e \in first..hi /\ (e = first \/ ~TooLarge(lines, first, e, budget))
<1> DEFINE D == Spans(first, hi)
           m == [r \in D |-> IF r[1] < r[2] THEN r[2] - r[1] ELSE 0]
           b == Bisect(lines, first, hi, budget)
           large(last) == TooLarge(lines, first, last, budget)
           G == {r \in D : r[1] <= r[2] => b[r] \in r[1]..r[2] /\ (b[r] = r[1] \/ ~large(b[r]))}
<1>1. m \in [D -> Nat]
  BY DEF Spans
<1>2. ASSUME NEW r \in D, \A q \in D : m[q] < m[r] => q \in G PROVE r \in G
  <2> DEFINE mid == r[1] + (r[2] - r[1] + 1) \div 2
             low == <<r[1], mid - 1>>
             high == <<mid, r[2]>>
  <2>1. r[1] \in Int /\ r[2] \in Int
    BY DEF Spans
  <2>2. b[r] = CASE r[1] >= r[2] -> r[1]
                 [] r[1] < r[2] /\ large(mid) -> b[low]
                 [] OTHER -> b[high]
    <3>1. \A q \in D : b[q] = BisectStep(lines, first, budget, b, q)
      BY BisectDef
    <3> HIDE DEF b, D
    <3> QED BY <3>1 DEF BisectStep
  <2>3. CASE r[1] >= r[2]
    <3>1. b[r] = r[1]
      <4> HIDE DEF b, D, large, mid, low, high
      <4> QED BY <2>1, <2>2, <2>3
    <3> HIDE DEF b
    <3> QED BY <2>1, <2>3, <3>1
  <2>4. CASE r[1] < r[2]
    <3>1. /\ low \in D /\ high \in D /\ m[low] < m[r] /\ m[high] < m[r]
          /\ r[1] <= mid - 1 /\ mid <= r[2] /\ mid \in Int
      BY <2>4 DEF Spans
    <3>2. low \in G /\ high \in G
      <4> HIDE DEF low, high, D, m, G
      <4> QED BY <1>2, <3>1
    <3>3. /\ b[low] \in r[1]..(mid - 1) /\ (b[low] = r[1] \/ ~large(b[low]))
          /\ b[high] \in mid..r[2] /\ (b[high] = mid \/ ~large(b[high]))
      <4> HIDE DEF b, D, m, large, mid
      <4> QED BY <3>1, <3>2
    <3>4. b[r] = IF large(mid) THEN b[low] ELSE b[high]
      <4> HIDE DEF b, D, m, large, mid, low, high
      <4> QED BY <2>1, <2>2, <2>4
    <3> HIDE DEF b, D, m, large, mid, low, high
    <3>5. b[r] \in r[1]..r[2] /\ (b[r] = r[1] \/ ~large(b[r]))
      BY <2>1, <3>1, <3>3, <3>4
    <3> QED BY <3>5 DEF G
  <2> QED BY <2>1, <2>3, <2>4
<1>3. \A r \in D : (\A q \in D : m[q] < m[r] => q \in G) => r \in G
  BY <1>2
<1>4. D \subseteq G
  <2> HIDE DEF D, m, G
  <2> QED BY <1>1, <1>3, MeasureInduction
<1>5. <<first, hi>> \in G
  <2>1. <<first, hi>> \in D
    BY DEF Spans
  <2> HIDE DEF D, G
  <2> QED BY <1>4, <2>1
<1>6. <<first, hi>>[1] = first /\ <<first, hi>>[2] = hi
  OBVIOUS
<1> HIDE DEF b, D, m, large
<1>7. b[<<first, hi>>] \in first..hi /\ (b[<<first, hi>>] = first \/ ~large(b[<<first, hi>>]))
  BY <1>5, <1>6
<1> QED BY <1>7 DEF b, large

\* A window ends in the file.
LEMMA LastOfIn ==
  ASSUME NEW lines \in Seq(Nat), NEW size, ProperSize(size), NEW first \in 1..Len(lines)
  PROVE  LastOf(lines, first, size) \in first..Len(lines)
BY DEF LastOf, Lesser, ProperSize

\* SlideWindowEmit ends a window in the file and, with a budget, within it.
LEMMA SlideEndIn ==
  ASSUME NEW lines \in Seq(Nat), NEW size, ProperSize(size), NEW first \in 1..Len(lines), NEW budget \in Nat
  PROVE  LET e == SlideEnd(lines, first, size, budget)
         IN  /\ e \in first..Len(lines)
             /\ budget > 0 => e = first \/ ~TooLarge(lines, first, e, budget)
<1> DEFINE hi == LastOf(lines, first, size)
<1>1. hi \in first..Len(lines) /\ first \in Nat
  BY LastOfIn
<1> HIDE DEF hi
<1>2. /\ Bisect(lines, first, hi, budget)[<<first, hi>>] \in first..hi
      /\ \/ Bisect(lines, first, hi, budget)[<<first, hi>>] = first
         \/ ~TooLarge(lines, first, Bisect(lines, first, hi, budget)[<<first, hi>>], budget)
  BY <1>1, BisectSound
<1> QED BY <1>1, <1>2 DEF SlideEnd, hi

\* A set of numbers within bounds has a greatest one.
LEMMA Greatest ==
  ASSUME NEW first \in Int, NEW hi \in Int, NEW S, S \subseteq first..hi, S # {}
  PROVE  \E e \in S : \A d \in S : d <= e
<1> DEFINE T == {hi - e : e \in S}
<1>1. T \subseteq Nat /\ T # {}
  OBVIOUS
<1>2. PICK n \in T : \A k \in T : ~(k < n)
  <2> HIDE DEF T
  <2> QED BY <1>1, LeastNat
<1>3. PICK e \in S : n = hi - e
  OBVIOUS
<1>4. ASSUME NEW d \in S PROVE d <= e
  <2>1. ~(hi - d < n)
    BY <1>2
  <2> QED BY <1>3, <2>1
<1> QED BY <1>4

\* emitPartialWindows ends a window in the file and, with a budget, within it.
LEMMA PartialEndIn ==
  ASSUME NEW lines \in Seq(Nat), NEW size, ProperSize(size), NEW first \in 1..Len(lines), NEW budget \in Nat
  PROVE  LET e == PartialEnd(lines, first, size, budget)
         IN  /\ e \in first..Len(lines)
             /\ budget > 0 => e = first \/ Tokens(lines, first, e) <= budget
<1> DEFINE hi == LastOf(lines, first, size)
           fits == {e \in first..hi : e = first \/ Tokens(lines, first, e) <= budget}
<1>1. hi \in first..Len(lines) /\ first \in Nat
  BY LastOfIn
<1> HIDE DEF hi
<1>2. fits # {} /\ fits \subseteq first..hi /\ hi \in Int
  BY <1>1
<1>3. \E e \in fits : \A d \in fits : d <= e
  <2>1. first \in Int /\ hi \in Int
    BY <1>1
  <2> HIDE DEF fits
  <2> QED BY <1>2, <2>1, Greatest
<1>4. Shrink(lines, first, hi, budget) \in fits
  BY <1>3 DEF Shrink
<1> QED BY <1>1, <1>4 DEF PartialEnd, hi

---------------------------------------------------------------------------
(* From one window to the next.                                            *)

\* Where the next window starts.
LEMMA AfterIn ==
  ASSUME NEW lines \in Seq(Nat), NEW size, ProperSize(size), NEW first \in 1..Len(lines),
         NEW e \in first..Len(lines), e # Len(lines)
  PROVE  After(first, e, size) \in (first + 1)..(e + 1)
<1>1. /\ first \in Nat /\ first >= 1 /\ e \in Nat /\ first <= e /\ e < Len(lines) /\ Len(lines) \in Nat
      /\ size.window \in Nat /\ size.overlap \in Nat
  BY DEF ProperSize
<1> QED BY <1>1 DEF After, Greater

\* SlideWindowEmit goes on further down, a line past the end of the file at most.
LEMMA SlideNextIn ==
  ASSUME NEW lines \in Seq(Nat), NEW size, ProperSize(size), NEW minTokens \in Nat,
         NEW first \in 1..Len(lines), NEW e \in first..Len(lines)
  PROVE  LET next == SlideNext(lines, size, minTokens, first, e)
         IN  /\ next \in (first + 1)..(Len(lines) + 1)
             /\ SlideTakes(lines, minTokens, first, e) \in Windows
<1>1. /\ first \in Nat /\ e \in Nat /\ first <= e /\ e <= Len(lines) /\ Len(lines) \in Nat
  OBVIOUS
<1>2. e # Len(lines) => After(first, e, size) \in (first + 1)..(e + 1)
  BY AfterIn
<1>3. SlideNext(lines, size, minTokens, first, e) \in (first + 1)..(Len(lines) + 1)
  BY <1>1, <1>2 DEF SlideNext
<1>4. <<>> \in Windows /\ <<<<first, e>>>> \in Windows /\ Kept(lines, <<first, e>>) \in Windows
  BY <1>1, KeptWindows DEF Windows
<1>5. SlideTakes(lines, minTokens, first, e) \in Windows
  BY <1>4 DEF SlideTakes
<1> QED BY <1>3, <1>5

\* A step of SlideWindowEmit.
SlideStep(lines, size, budget, minTokens, from, first) ==
  LET last == SlideEnd(lines, first, size, budget)
  IN  IF first > Len(lines) THEN <<>>
      ELSE SlideTakes(lines, minTokens, first, last) \o from[SlideNext(lines, size, minTokens, first, last)]

\* The windows of SlideWindowEmit from any line on.
LEMMA SlideFromDef ==
  ASSUME NEW lines \in Seq(Nat), NEW size, ProperSize(size), NEW budget \in Nat, NEW minTokens \in Nat
  PROVE  /\ SlideFrom(lines, size, budget, minTokens) \in [(1..Len(lines) + 1) -> Windows]
         /\ \A k \in (1..Len(lines) + 1) :
              SlideFrom(lines, size, budget, minTokens)[k] = SlideStep(lines, size, budget, minTokens, SlideFrom(lines, size, budget, minTokens), k)
<1> DEFINE D == (1..Len(lines) + 1)
           V == Windows
           N == Len(lines)
           m == [k \in D |-> Len(lines) + 1 - k]
           B(f) == [k \in D |-> SlideStep(lines, size, budget, minTokens, f, k)]
           F == [f \in [D -> V] |-> B(f)]
<1>1. V # {} /\ N \in Nat /\ m \in [D -> 0..N]
  <2>1. <<>> \in Windows
    BY DEF Windows
  <2> QED BY <2>1
<1>2. ASSUME NEW f \in [D -> V] PROVE B(f) \in [D -> V]
  <2>1. ASSUME NEW x \in D PROVE B(f)[x] \in V
    <3> DEFINE e == SlideEnd(lines, x, size, budget)
               next == SlideNext(lines, size, minTokens, x, e)
               takes == SlideTakes(lines, minTokens, x, e)
    <3>1. B(f)[x] = IF x > Len(lines) THEN <<>> ELSE takes \o f[next]
      BY DEF SlideStep
    <3>2. CASE x > Len(lines)
      BY <3>1, <3>2 DEF Windows
    <3>3. CASE x <= Len(lines)
      <4>1. x \in 1..Len(lines)
        BY <3>3
      <4>2. e \in x..Len(lines)
        BY <4>1, SlideEndIn
      <4>3. next \in (x + 1)..(Len(lines) + 1) /\ takes \in Windows
        <5> HIDE DEF e
        <5> QED BY <4>1, <4>2, SlideNextIn
      <4>4. next \in D
        <5> HIDE DEF next
        <5> QED BY <4>1, <4>3
      <4>5. f[next] \in Windows
        <5> HIDE DEF next, D
        <5> QED BY <4>4
      <4>6. ~(x > Len(lines))
        BY <3>3
      <4> HIDE DEF next, takes, D, B
      <4>7. takes \o f[next] \in Windows
        BY <4>3, <4>5 DEF Windows
      <4> QED BY <3>1, <4>6, <4>7
    <3>4. x \in Int /\ Len(lines) \in Int
      OBVIOUS
    <3> QED BY <3>2, <3>3, <3>4
  <2> QED BY <2>1
<1>3. ASSUME NEW f, NEW g, NEW x \in D, \A y \in D : m[y] < m[x] => f[y] = g[y]
      PROVE  B(f)[x] = B(g)[x]
  <2> DEFINE e == SlideEnd(lines, x, size, budget)
             next == SlideNext(lines, size, minTokens, x, e)
             takes == SlideTakes(lines, minTokens, x, e)
  <2>1. /\ B(f)[x] = IF x > Len(lines) THEN <<>> ELSE takes \o f[next]
        /\ B(g)[x] = IF x > Len(lines) THEN <<>> ELSE takes \o g[next]
    BY DEF SlideStep
  <2>2. x <= Len(lines) => x \in 1..Len(lines)
    OBVIOUS
  <2>3. x <= Len(lines) => e \in x..Len(lines)
    BY <2>2, SlideEndIn
  <2>4. x <= Len(lines) => next \in (x + 1)..(Len(lines) + 1)
    <3> HIDE DEF e
    <3> QED BY <2>2, <2>3, SlideNextIn
  <2>5. x <= Len(lines) => next \in D /\ m[next] < m[x]
    <3> HIDE DEF next
    <3> QED BY <2>2, <2>4
  <2>6. x <= Len(lines) => f[next] = g[next]
    <3> HIDE DEF next, D, m
    <3> QED BY <1>3, <2>5
  <2>7. x \in Int /\ Len(lines) \in Int
    OBVIOUS
  <2> HIDE DEF next, takes, B
  <2> QED BY <2>1, <2>6, <2>7
<1>4. F \in [[D -> V] -> [D -> V]] /\ \A f \in [D -> V] : F[f] = B(f)
  BY <1>2
<1>5. Contracts(F, D, V, N, m)
  <2>1. ASSUME NEW f \in [D -> V], NEW g \in [D -> V], NEW x \in D,
               \A y \in D : m[y] < m[x] => f[y] = g[y]
        PROVE  F[f][x] = F[g][x]
    <3> HIDE DEF D, V, N, m, B, F
    <3>1. B(f)[x] = B(g)[x]
      BY <1>3, <2>1
    <3> QED BY <1>4, <3>1
  <2> HIDE DEF D, V, N, m, B, F
  <2> QED BY <1>1, <1>4, <2>1 DEF Contracts
<1>6. SlideFrom(lines, size, budget, minTokens) = B(SlideFrom(lines, size, budget, minTokens))
  <2>1. \E f \in [D -> V] : f = B(f)
    <3> HIDE DEF D, V, N, m, B, F
    <3> QED BY <1>4, <1>5, FixedPoint
  <2>2. SlideFrom(lines, size, budget, minTokens) = CHOOSE g : g = B(g)
    BY DEF SlideFrom, SlideStep
  <2> HIDE DEF B
  <2> QED BY <2>1, <2>2, Zenon
<1>7. SlideFrom(lines, size, budget, minTokens) \in [D -> V]
  <2> DEFINE g == SlideFrom(lines, size, budget, minTokens)
  <2>1. g = B(g)
    BY <1>6
  <2> HIDE DEF g
  <2>2. g = [x \in D |-> g[x]]
    BY <2>1
  <2> HIDE DEF D, V, N, m, B, F
  <2>3. ASSUME NEW f \in [D -> V], NEW x \in D, \A y \in D : m[y] < m[x] => g[y] = f[y]
        PROVE  g[x] = F[f][x]
    <3>1. B(g)[x] = B(f)[x]
      BY <1>3, <2>3
    <3> QED BY <1>4, <2>1, <3>1
  <2>4. g \in [D -> V]
    BY <1>5, <2>2, <2>3, OnlyFixedPoint
  <2> QED BY <2>4 DEF g
<1> QED BY <1>6, <1>7

\* And so does emitPartialWindows.
LEMMA PartialNextIn ==
  ASSUME NEW lines \in Seq(Nat), NEW size, ProperSize(size), NEW minTokens \in Nat,
         NEW first \in 1..Len(lines), NEW e \in first..Len(lines)
  PROVE  LET next == PartialNext(lines, size, minTokens, first, e)
         IN  /\ next \in (first + 1)..(Len(lines) + 1)
             /\ PartialTakes(lines, minTokens, first, e) \in Windows
<1>1. /\ first \in Nat /\ e \in Nat /\ first <= e /\ e <= Len(lines) /\ Len(lines) \in Nat
  OBVIOUS
<1>2. e # Len(lines) => After(first, e, size) \in (first + 1)..(e + 1)
  BY AfterIn
<1>3. PartialNext(lines, size, minTokens, first, e) \in (first + 1)..(Len(lines) + 1)
  BY <1>1, <1>2 DEF PartialNext
<1>4. <<>> \in Windows /\ <<<<first, e>>>> \in Windows /\ Kept(lines, <<first, e>>) \in Windows
  BY <1>1, KeptWindows DEF Windows
<1>5. PartialTakes(lines, minTokens, first, e) \in Windows
  BY <1>4 DEF PartialTakes
<1> QED BY <1>3, <1>5

\* A step of emitPartialWindows.
PartialStep(lines, size, budget, minTokens, from, first) ==
  LET last == PartialEnd(lines, first, size, budget)
  IN  IF first > Len(lines) THEN <<>>
      ELSE PartialTakes(lines, minTokens, first, last) \o from[PartialNext(lines, size, minTokens, first, last)]

\* The windows of emitPartialWindows from any line on.
LEMMA PartialFromDef ==
  ASSUME NEW lines \in Seq(Nat), NEW size, ProperSize(size), NEW budget \in Nat, NEW minTokens \in Nat
  PROVE  /\ PartialFrom(lines, size, budget, minTokens) \in [(1..Len(lines) + 1) -> Windows]
         /\ \A k \in (1..Len(lines) + 1) :
              PartialFrom(lines, size, budget, minTokens)[k] = PartialStep(lines, size, budget, minTokens, PartialFrom(lines, size, budget, minTokens), k)
<1> DEFINE D == (1..Len(lines) + 1)
           V == Windows
           N == Len(lines)
           m == [k \in D |-> Len(lines) + 1 - k]
           B(f) == [k \in D |-> PartialStep(lines, size, budget, minTokens, f, k)]
           F == [f \in [D -> V] |-> B(f)]
<1>1. V # {} /\ N \in Nat /\ m \in [D -> 0..N]
  <2>1. <<>> \in Windows
    BY DEF Windows
  <2> QED BY <2>1
<1>2. ASSUME NEW f \in [D -> V] PROVE B(f) \in [D -> V]
  <2>1. ASSUME NEW x \in D PROVE B(f)[x] \in V
    <3> DEFINE e == PartialEnd(lines, x, size, budget)
               next == PartialNext(lines, size, minTokens, x, e)
               takes == PartialTakes(lines, minTokens, x, e)
    <3>1. B(f)[x] = IF x > Len(lines) THEN <<>> ELSE takes \o f[next]
      BY DEF PartialStep
    <3>2. CASE x > Len(lines)
      BY <3>1, <3>2 DEF Windows
    <3>3. CASE x <= Len(lines)
      <4>1. x \in 1..Len(lines)
        BY <3>3
      <4>2. e \in x..Len(lines)
        BY <4>1, PartialEndIn
      <4>3. next \in (x + 1)..(Len(lines) + 1) /\ takes \in Windows
        <5> HIDE DEF e
        <5> QED BY <4>1, <4>2, PartialNextIn
      <4>4. next \in D
        <5> HIDE DEF next
        <5> QED BY <4>1, <4>3
      <4>5. f[next] \in Windows
        <5> HIDE DEF next, D
        <5> QED BY <4>4
      <4>6. ~(x > Len(lines))
        BY <3>3
      <4> HIDE DEF next, takes, D, B
      <4>7. takes \o f[next] \in Windows
        BY <4>3, <4>5 DEF Windows
      <4> QED BY <3>1, <4>6, <4>7
    <3>4. x \in Int /\ Len(lines) \in Int
      OBVIOUS
    <3> QED BY <3>2, <3>3, <3>4
  <2> QED BY <2>1
<1>3. ASSUME NEW f, NEW g, NEW x \in D, \A y \in D : m[y] < m[x] => f[y] = g[y]
      PROVE  B(f)[x] = B(g)[x]
  <2> DEFINE e == PartialEnd(lines, x, size, budget)
             next == PartialNext(lines, size, minTokens, x, e)
             takes == PartialTakes(lines, minTokens, x, e)
  <2>1. /\ B(f)[x] = IF x > Len(lines) THEN <<>> ELSE takes \o f[next]
        /\ B(g)[x] = IF x > Len(lines) THEN <<>> ELSE takes \o g[next]
    BY DEF PartialStep
  <2>2. x <= Len(lines) => x \in 1..Len(lines)
    OBVIOUS
  <2>3. x <= Len(lines) => e \in x..Len(lines)
    BY <2>2, PartialEndIn
  <2>4. x <= Len(lines) => next \in (x + 1)..(Len(lines) + 1)
    <3> HIDE DEF e
    <3> QED BY <2>2, <2>3, PartialNextIn
  <2>5. x <= Len(lines) => next \in D /\ m[next] < m[x]
    <3> HIDE DEF next
    <3> QED BY <2>2, <2>4
  <2>6. x <= Len(lines) => f[next] = g[next]
    <3> HIDE DEF next, D, m
    <3> QED BY <1>3, <2>5
  <2>7. x \in Int /\ Len(lines) \in Int
    OBVIOUS
  <2> HIDE DEF next, takes, B
  <2> QED BY <2>1, <2>6, <2>7
<1>4. F \in [[D -> V] -> [D -> V]] /\ \A f \in [D -> V] : F[f] = B(f)
  BY <1>2
<1>5. Contracts(F, D, V, N, m)
  <2>1. ASSUME NEW f \in [D -> V], NEW g \in [D -> V], NEW x \in D,
               \A y \in D : m[y] < m[x] => f[y] = g[y]
        PROVE  F[f][x] = F[g][x]
    <3> HIDE DEF D, V, N, m, B, F
    <3>1. B(f)[x] = B(g)[x]
      BY <1>3, <2>1
    <3> QED BY <1>4, <3>1
  <2> HIDE DEF D, V, N, m, B, F
  <2> QED BY <1>1, <1>4, <2>1 DEF Contracts
<1>6. PartialFrom(lines, size, budget, minTokens) = B(PartialFrom(lines, size, budget, minTokens))
  <2>1. \E f \in [D -> V] : f = B(f)
    <3> HIDE DEF D, V, N, m, B, F
    <3> QED BY <1>4, <1>5, FixedPoint
  <2>2. PartialFrom(lines, size, budget, minTokens) = CHOOSE g : g = B(g)
    BY DEF PartialFrom, PartialStep
  <2> HIDE DEF B
  <2> QED BY <2>1, <2>2, Zenon
<1>7. PartialFrom(lines, size, budget, minTokens) \in [D -> V]
  <2> DEFINE g == PartialFrom(lines, size, budget, minTokens)
  <2>1. g = B(g)
    BY <1>6
  <2> HIDE DEF g
  <2>2. g = [x \in D |-> g[x]]
    BY <2>1
  <2> HIDE DEF D, V, N, m, B, F
  <2>3. ASSUME NEW f \in [D -> V], NEW x \in D, \A y \in D : m[y] < m[x] => g[y] = f[y]
        PROVE  g[x] = F[f][x]
    <3>1. B(g)[x] = B(f)[x]
      BY <1>3, <2>3
    <3> QED BY <1>4, <2>1, <3>1
  <2>4. g \in [D -> V]
    BY <1>5, <2>2, <2>3, OnlyFixedPoint
  <2> QED BY <2>4 DEF g
<1> QED BY <1>6, <1>7

---------------------------------------------------------------------------
(* Budgets.                                                                *)

\* The characters up to a line are more than those before it, by its own.
LEMMA CharsOfNext ==
  ASSUME NEW lines \in Seq(Nat), NEW k \in 1..Len(lines)
  PROVE  /\ CharsUpTo(lines)[k - 1] \in Nat /\ CharsUpTo(lines)[k] \in Nat
         /\ lines[k] \in Nat
         /\ CharsUpTo(lines)[k] = CharsUpTo(lines)[k - 1] + lines[k] + 1
<1> DEFINE c == CharsUpTo(lines)
<1>1. Len(lines) \in Nat
  OBVIOUS
<1>2. /\ c \in [0..Len(lines) -> Nat]
      /\ \A n \in 0..Len(lines) : c[n] = IF n = 0 THEN 0 ELSE c[n - 1] + lines[n] + 1
  BY CharsUpToDef
<1> HIDE DEF c
<1>3. k \in 0..Len(lines) /\ k - 1 \in 0..Len(lines) /\ k # 0
  BY <1>1
<1>4. lines[k] \in Nat
  OBVIOUS
<1>5. c[k] \in Nat /\ c[k - 1] \in Nat /\ c[k] = c[k - 1] + lines[k] + 1
  BY <1>2, <1>3
<1> QED BY <1>4, <1>5 DEF c

\* They never get fewer.
LEMMA CharsGrow ==
  ASSUME NEW lines \in Seq(Nat), NEW i \in 0..Len(lines), NEW j \in 0..Len(lines), i <= j
  PROVE  CharsUpTo(lines)[i] <= CharsUpTo(lines)[j]
<1> DEFINE c == CharsUpTo(lines)
           G == {n \in 0..(j - i) : c[i] <= c[i + n]}
<1>1. /\ Len(lines) \in Nat /\ i \in Nat /\ j \in Nat /\ j - i \in Nat
      /\ i + (j - i) = j /\ i + 0 = i
  OBVIOUS
<1>2. c \in [0..Len(lines) -> Nat]
  BY CharsUpToDef
<1>3. \A k \in 1..Len(lines) : c[k] = c[k - 1] + lines[k] + 1 /\ lines[k] \in Nat
  BY CharsOfNext
<1> HIDE DEF c
<1>4. c[i] \in Nat
  BY <1>2
<1>5. 0 \in G
  BY <1>1, <1>4
<1>6. ASSUME NEW n \in 0..((j - i) - 1), n \in G PROVE n + 1 \in G
  <2>1. /\ i + n + 1 \in 1..Len(lines) /\ i + n + 1 \in 0..Len(lines) /\ i + n \in 0..Len(lines)
        /\ i + (n + 1) = i + n + 1 /\ (i + n + 1) - 1 = i + n /\ n + 1 \in 0..(j - i)
    BY <1>1
  <2>2. c[i + n + 1] = c[i + n] + lines[i + n + 1] + 1 /\ lines[i + n + 1] \in Nat
    <3> DEFINE k == i + n + 1
    <3>1. k \in 1..Len(lines) /\ k - 1 = i + n
      BY <2>1
    <3> HIDE DEF k
    <3>2. c[k] = c[k - 1] + lines[k] + 1 /\ lines[k] \in Nat
      BY <1>3, <3>1
    <3>3. c[k] = c[i + n] + lines[k] + 1
      BY <3>1, <3>2
    <3> QED BY <3>2, <3>3 DEF k
  <2>3. c[i + n] \in Nat /\ c[i] <= c[i + n]
    BY <1>2, <1>6, <2>1
  <2>4. c[i] <= c[i + n + 1]
    BY <1>4, <2>2, <2>3
  <2> QED BY <2>1, <2>4
<1>7. 0..(j - i) \subseteq G
  <2> HIDE DEF G
  <2> QED BY <1>5, <1>6, <1>1, UpwardInduction
<1>8. j - i \in 0..(j - i)
  BY <1>1
<1>9. c[i] <= c[i + (j - i)]
  BY <1>7, <1>8
<1> QED BY <1>1, <1>9 DEF c

\* A line in a window has at most as many tokens as the window.
LEMMA TokensGrow ==
  ASSUME NEW lines \in Seq(Nat), NEW i \in 1..Len(lines), NEW j \in i..Len(lines), NEW n \in i..j
  PROVE  /\ Tokens(lines, i, j) \in Nat
         /\ Tokens(lines, n, n) <= Tokens(lines, i, j)
<1> DEFINE c == CharsUpTo(lines)
<1>1. /\ Len(lines) \in Nat /\ i \in Nat /\ j \in Nat /\ n \in Nat /\ i >= 1
      /\ i <= n /\ n <= j /\ j <= Len(lines)
  OBVIOUS
<1>2. /\ i \in 0..Len(lines) /\ j \in 0..Len(lines) /\ n \in 0..Len(lines) /\ n \in 1..Len(lines)
      /\ i - 1 \in 0..Len(lines) /\ n - 1 \in 0..Len(lines) /\ i - 1 <= n - 1 
  BY <1>1
<1>3. c[i - 1] <= c[n - 1]
  BY <1>2, CharsGrow
<1>4. c[n] <= c[j]
  BY <1>1, <1>2, CharsGrow
<1>5. c[n] = c[n - 1] + lines[n] + 1 /\ lines[n] \in Nat
  BY <1>2, CharsOfNext
<1>6. c \in [0..Len(lines) -> Nat]
  BY CharsUpToDef
<1> HIDE DEF c
<1>7. c[n] \in Nat /\ c[n - 1] \in Nat /\ c[i - 1] \in Nat /\ c[j] \in Nat
  BY <1>2, <1>6
<1> DEFINE a == c[n] - c[n - 1] - 1
           b == c[j] - c[i - 1] - 1
<1>8. a \in Nat /\ b \in Nat /\ a <= b
  <2>1. \A p, q, r, t, l \in Nat : p <= q /\ r <= t /\ r = q + l + 1 =>
          r - q - 1 \in Nat /\ t - p - 1 \in Nat /\ r - q - 1 <= t - p - 1
    OBVIOUS
  <2> QED BY <2>1, <1>3, <1>4, <1>5, <1>7
<1> HIDE DEF a, b
<1>9. b \div 2 \in Nat /\ a \div 2 <= b \div 2
  BY <1>8
<1> QED BY <1>9 DEF Tokens, Chars, CharsPerToken, a, b, c

\* Covers, for the lines from one on.
CoversFrom(windows, lines, first, least) ==
  \A n \in first..Len(lines) :
    lines[n] > 0 /\ Tokens(lines, n, n) >= least => HasLine(windows, n)

\* Windows that are within the budget, or have a line, still do next to others.
LEMMA BothParts ==
  ASSUME NEW s \in Windows, NEW t \in Windows
  PROVE  /\ \A lines, budget : Within(s, lines, budget) /\ Within(t, lines, budget) => Within(s \o t, lines, budget)
         /\ \A n : HasLine(s, n) \/ HasLine(t, n) => HasLine(s \o t, n)
<1> DEFINE u == s \o t
<1>1. /\ s \in Seq(Int \X Int) /\ t \in Seq(Int \X Int) /\ Len(s) \in Nat /\ Len(t) \in Nat
      /\ DOMAIN s = 1..Len(s) /\ DOMAIN t = 1..Len(t) /\ DOMAIN u = 1..(Len(s) + Len(t))
      /\ \A i \in DOMAIN u : u[i] = IF i <= Len(s) THEN s[i] ELSE t[i - Len(s)]
  BY DEF Windows
<1> HIDE DEF u
<1>2. \A i \in DOMAIN u : \/ i \in DOMAIN s /\ u[i] = s[i]
                          \/ i - Len(s) \in DOMAIN t /\ u[i] = t[i - Len(s)]
  BY <1>1
<1>3. /\ \A i \in DOMAIN s : i \in DOMAIN u /\ u[i] = s[i]
      /\ \A i \in DOMAIN t : i + Len(s) \in DOMAIN u /\ u[i + Len(s)] = t[i]
  <2>1. ASSUME NEW i \in DOMAIN s PROVE i \in DOMAIN u /\ u[i] = s[i]
    <3>1. i \in 1..(Len(s) + Len(t)) /\ i <= Len(s)
      BY <1>1
    <3> QED BY <1>1, <3>1
  <2>2. ASSUME NEW i \in DOMAIN t PROVE i + Len(s) \in DOMAIN u /\ u[i + Len(s)] = t[i]
    <3> DEFINE k == i + Len(s)
    <3>1. k \in 1..(Len(s) + Len(t)) /\ ~(k <= Len(s)) /\ k - Len(s) = i
      BY <1>1
    <3> HIDE DEF k
    <3>2. k \in DOMAIN u /\ u[k] = t[k - Len(s)]
      BY <1>1, <3>1
    <3> QED BY <3>1, <3>2 DEF k
  <2> QED BY <2>1, <2>2
<1>4. ASSUME NEW lines, NEW budget, Within(s, lines, budget), Within(t, lines, budget)
      PROVE  Within(u, lines, budget)
  BY <1>2, <1>4 DEF Within
<1>5. ASSUME NEW n, HasLine(s, n) \/ HasLine(t, n)
      PROVE  HasLine(u, n)
  BY <1>3, <1>5 DEF HasLine
<1> QED BY <1>4, <1>5 DEF u

\* Of a single window.
LEMMA OneWindow ==
  ASSUME NEW first, NEW last
  PROVE  /\ \A lines, budget : Within(<<<<first, last>>>>, lines, budget) <=>
                                 Tokens(lines, first, last) <= budget \/ first = last
         /\ \A n : HasLine(<<<<first, last>>>>, n) <=> first <= n /\ n <= last
<1> DEFINE w == <<<<first, last>>>>
<1>1. DOMAIN w = {1} /\ w[1][1] = first /\ w[1][2] = last
  OBVIOUS
<1> HIDE DEF w
<1>2. \A lines, budget : Within(w, lines, budget) <=> Tokens(lines, first, last) <= budget \/ first = last
  BY <1>1 DEF Within
<1>3. \A n : HasLine(w, n) <=> first <= n /\ n <= last
  BY <1>1 DEF HasLine
<1> QED BY <1>2, <1>3 DEF w

\* No window exceeds a budget.
LEMMA NoWindow ==
  \A lines, budget : Within(<<>>, lines, budget)
BY DEF Within

\* What a step takes is within the budget, and what it leaves behind it is in what
\* it takes.
LEMMA SlideStepSound ==
  ASSUME NEW lines \in Seq(Nat), NEW size, ProperSize(size), NEW budget \in Nat, NEW minTokens \in Nat,
         NEW first \in 1..Len(lines)
  PROVE  LET e == SlideEnd(lines, first, size, budget)
             takes == SlideTakes(lines, minTokens, first, e)
         IN  /\ budget > 0 => Within(takes, lines, budget)
             /\ \A n \in first..Len(lines) :
                  lines[n] > 0 /\ Tokens(lines, n, n) >= minTokens =>
                    HasLine(takes, n) \/ n >= SlideNext(lines, size, minTokens, first, e)
<1> DEFINE e == SlideEnd(lines, first, size, budget)
           takes == SlideTakes(lines, minTokens, first, e)
           next == SlideNext(lines, size, minTokens, first, e)
           blank == Blank(lines, <<first, e>>)
           skips == SlideSkips(lines, minTokens, first, e)
<1>1. e \in first..Len(lines) /\ (budget > 0 => e = first \/ ~TooLarge(lines, first, e, budget))
  BY SlideEndIn
<1> HIDE DEF e
<1>2. /\ first \in Nat /\ e \in Nat /\ 1 <= first /\ first <= e /\ e <= Len(lines) /\ Len(lines) \in Nat
      /\ e \in first..Len(lines) /\ Tokens(lines, first, e) \in Nat
  BY <1>1, TokensGrow
<1>3. takes = IF skips \/ blank THEN <<>> ELSE <<<<first, e>>>>
  BY DEF SlideTakes, Kept
<1>4. budget > 0 => Within(takes, lines, budget)
  <2>1. budget > 0 /\ ~blank => Tokens(lines, first, e) <= budget \/ first = e
    BY <1>1, <1>2 DEF TooLarge
  <2> HIDE DEF takes, skips, blank
  <2> QED BY <1>3, <2>1, OneWindow, NoWindow
<1>5. ASSUME NEW n \in first..Len(lines), lines[n] > 0, Tokens(lines, n, n) >= minTokens, ~(n >= next)
      PROVE  HasLine(takes, n)
  <2>1. n \in Nat /\ first <= n /\ n <= Len(lines)
    BY <1>2
  <2>2. n <= e => n \in first..e
    BY <1>2, <2>1
  <2>3. n <= e => Tokens(lines, n, n) <= Tokens(lines, first, e)
    BY <1>2, <2>2, TokensGrow
  <2>4. n <= e => Tokens(lines, n, n) \in Nat
    <3>1. n \in 1..Len(lines) /\ n \in n..Len(lines) /\ n \in n..n
      BY <1>2, <2>1
    <3> QED BY <3>1, TokensGrow
  <2>5. n <= e => ~blank /\ ~skips
    <3>1. n <= e => ~blank
      BY <1>5, <2>2 DEF Blank
    <3>2. n <= e => ~(Tokens(lines, first, e) < minTokens)
      BY <1>2, <1>5, <2>3, <2>4
    <3> QED BY <3>1, <3>2 DEF SlideSkips
  <2>6. e < n => n >= next
    <3>1. e < n => e # Len(lines)
      BY <1>2, <2>1
    <3>2. e # Len(lines) => After(first, e, size) \in (first + 1)..(e + 1)
      BY <1>2, AfterIn
    <3>3. e < n => next = first + 1 \/ next = After(first, e, size)
      BY <3>1 DEF SlideNext
    <3> HIDE DEF next
    <3> QED BY <1>2, <2>1, <3>1, <3>2, <3>3
  <2>7. n <= e
    <3> HIDE DEF next
    <3> QED BY <1>2, <1>5, <2>1, <2>6
  <2> HIDE DEF takes, skips, blank
  <2> QED BY <1>3, <2>1, <2>5, <2>7, OneWindow
<1> HIDE DEF takes, next
<1>6. \A n \in first..Len(lines) : lines[n] > 0 /\ Tokens(lines, n, n) >= minTokens =>
                    HasLine(takes, n) \/ n >= next
  BY <1>5
<1> QED BY <1>4, <1>6 DEF e, takes, next

\* SlideWindowEmit: within the budget, and no line is lost, from the last line back.
LEMMA SlideSound ==
  ASSUME NEW lines \in Seq(Nat), NEW size, ProperSize(size), NEW budget \in Nat, NEW minTokens \in Nat
  PROVE  LET windows == SlideFrom(lines, size, budget, minTokens)[1]
         IN  /\ windows \in Windows
             /\ budget > 0 => Within(windows, lines, budget)
             /\ CoversFrom(windows, lines, 1, minTokens)
<1> DEFINE D == 1..Len(lines) + 1
           m == [k \in D |-> Len(lines) + 1 - k]
           from == SlideFrom(lines, size, budget, minTokens)
           sound(first) == /\ budget > 0 => Within(from[first], lines, budget)
                           /\ CoversFrom(from[first], lines, first, minTokens)
           G == {first \in D : sound(first)}
<1>1. Len(lines) \in Nat /\ m \in [D -> Nat]
  OBVIOUS
<1>2. /\ from \in [D -> Windows]
      /\ \A first \in D : from[first] = SlideStep(lines, size, budget, minTokens, from, first)
  BY SlideFromDef
<1> HIDE DEF from
<1>3. ASSUME NEW first \in D, \A k \in D : m[k] < m[first] => k \in G PROVE sound(first)
  <2> DEFINE e == SlideEnd(lines, first, size, budget)
             takes == SlideTakes(lines, minTokens, first, e)
             next == SlideNext(lines, size, minTokens, first, e)
  <2>1. from[first] = IF first > Len(lines) THEN <<>> ELSE takes \o from[next]
    BY <1>2 DEF SlideStep
  <2>2. CASE first > Len(lines)
    <3>1. from[first] = <<>>
      BY <2>1, <2>2
    <3>2. first..Len(lines) = {}
      BY <1>1, <2>2
    <3> HIDE DEF takes, next
    <3> QED BY <3>1, <3>2, NoWindow DEF CoversFrom
  <2>3. CASE first <= Len(lines)
    <3>1. first \in 1..Len(lines) /\ ~(first > Len(lines))
      BY <2>3
    <3>2. e \in first..Len(lines)
      BY <3>1, SlideEndIn
    <3>3. next \in (first + 1)..(Len(lines) + 1) /\ takes \in Windows
      <4> HIDE DEF e
      <4> QED BY <3>1, <3>2, SlideNextIn
    <3>4. /\ budget > 0 => Within(takes, lines, budget)
          /\ \A n \in first..Len(lines) :
               lines[n] > 0 /\ Tokens(lines, n, n) >= minTokens => HasLine(takes, n) \/ n >= next
      BY <3>1, SlideStepSound
    <3> HIDE DEF takes, next, e
    <3>5. next \in D /\ m[next] < m[first]
      BY <1>1, <3>1, <3>3
    <3>6. /\ budget > 0 => Within(from[next], lines, budget)
          /\ CoversFrom(from[next], lines, next, minTokens)
      <4> HIDE DEF D, m
      <4> QED BY <1>3, <3>5
    <3>7. from[first] = takes \o from[next] /\ from[next] \in Windows
      <4> HIDE DEF D
      <4> QED BY <1>2, <2>1, <3>1, <3>5
    <3>8. budget > 0 => Within(from[first], lines, budget)
      BY <3>3, <3>4, <3>6, <3>7, BothParts
    <3>9. ASSUME NEW n \in first..Len(lines), lines[n] > 0, Tokens(lines, n, n) >= minTokens
          PROVE  HasLine(from[first], n)
      <4>1. HasLine(takes, n) \/ n >= next
        BY <3>4, <3>9
      <4>2. n >= next => n \in next..Len(lines)
        BY <1>1, <3>1, <3>3
      <4>3. n >= next => HasLine(from[next], n)
        BY <3>6, <3>9, <4>2 DEF CoversFrom
      <4> QED BY <3>3, <3>7, <4>1, <4>3, BothParts
    <3>10. CoversFrom(from[first], lines, first, minTokens)
      BY <3>9 DEF CoversFrom
    <3> QED BY <3>8, <3>10
  <2>4. first \in Int
    OBVIOUS
  <2> HIDE DEF sound
  <2> QED BY <1>1, <2>2, <2>3, <2>4
<1>4. \A first \in D : (\A k \in D : m[k] < m[first] => k \in G) => first \in G
  <2> HIDE DEF sound, D, m
  <2> QED BY <1>3
<1>5. D \subseteq G
  <2> HIDE DEF D, m, G
  <2> QED BY <1>1, <1>4, MeasureInduction
<1>6. 1 \in D
  BY <1>1
<1>7. sound(1) /\ from[1] \in Windows
  <2> HIDE DEF D, sound
  <2> QED BY <1>2, <1>5, <1>6
<1> QED BY <1>7 DEF from

\* What emitPartialWindows takes at a line, and what it leaves for later.
LEMMA PartialStepSound ==
  ASSUME NEW lines \in Seq(Nat), NEW size, ProperSize(size), NEW budget \in Nat, NEW minTokens \in Nat,
         NEW first \in 1..Len(lines)
  PROVE  LET e == PartialEnd(lines, first, size, budget)
             takes == PartialTakes(lines, minTokens, first, e)
         IN  /\ budget > 0 => Within(takes, lines, budget)
             /\ \A n \in first..Len(lines) :
                  lines[n] > 0 /\ Tokens(lines, n, n) >= minTokens =>
                    HasLine(takes, n) \/ n >= PartialNext(lines, size, minTokens, first, e)
<1> DEFINE e == PartialEnd(lines, first, size, budget)
           takes == PartialTakes(lines, minTokens, first, e)
           next == PartialNext(lines, size, minTokens, first, e)
           skips == PartialSkips(lines, minTokens, first, e)
<1>1. e \in first..Len(lines) /\ (budget > 0 => e = first \/ Tokens(lines, first, e) <= budget)
  BY PartialEndIn
<1> HIDE DEF e
<1>2. /\ first \in Nat /\ e \in Nat /\ 1 <= first /\ first <= e /\ e <= Len(lines) /\ Len(lines) \in Nat
      /\ e \in first..Len(lines) /\ Tokens(lines, first, e) \in Nat
  BY <1>1, TokensGrow
<1>3. takes = IF skips THEN <<>> ELSE <<<<first, e>>>>
  BY DEF PartialTakes
<1>4. budget > 0 => Within(takes, lines, budget)
  <2> HIDE DEF takes, skips
  <2> QED BY <1>1, <1>3, OneWindow, NoWindow
<1>5. ASSUME NEW n \in first..Len(lines), lines[n] > 0, Tokens(lines, n, n) >= minTokens, ~(n >= next)
      PROVE  HasLine(takes, n)
  <2>1. n \in Nat /\ first <= n /\ n <= Len(lines)
    BY <1>2
  <2>2. n <= e => n \in first..e
    BY <1>2, <2>1
  <2>3. n <= e => Tokens(lines, n, n) <= Tokens(lines, first, e)
    BY <1>2, <2>2, TokensGrow
  <2>4. n <= e => Tokens(lines, n, n) \in Nat
    <3>1. n \in 1..Len(lines) /\ n \in n..Len(lines) /\ n \in n..n
      BY <1>2, <2>1
    <3> QED BY <3>1, TokensGrow
  <2>5. n <= e => ~skips
    <3>1. n <= e => ~Blank(lines, <<first, e>>)
      BY <1>5, <2>2 DEF Blank
    <3>2. n <= e => ~(Tokens(lines, first, e) < minTokens)
      BY <1>2, <1>5, <2>3, <2>4
    <3> QED BY <3>1, <3>2 DEF PartialSkips
  <2>6. e < n => n >= next
    <3>1. e < n => e # Len(lines)
      BY <1>2, <2>1
    <3>2. e # Len(lines) => After(first, e, size) \in (first + 1)..(e + 1)
      BY <1>2, AfterIn
    <3>3. e < n => next = first + 1 \/ next = After(first, e, size)
      BY <3>1 DEF PartialNext
    <3> HIDE DEF next
    <3> QED BY <1>2, <2>1, <3>1, <3>2, <3>3
  <2>7. n <= e
    <3> HIDE DEF next
    <3> QED BY <1>2, <1>5, <2>1, <2>6
  <2> HIDE DEF takes, skips
  <2> QED BY <1>3, <2>1, <2>5, <2>7, OneWindow
<1> HIDE DEF takes, next
<1>6. \A n \in first..Len(lines) : lines[n] > 0 /\ Tokens(lines, n, n) >= minTokens =>
                    HasLine(takes, n) \/ n >= next
  BY <1>5
<1> QED BY <1>4, <1>6 DEF e, takes, next

\* emitPartialWindows: within the budget, and no line is lost.
LEMMA PartialSound ==
  ASSUME NEW lines \in Seq(Nat), NEW size, ProperSize(size), NEW budget \in Nat, NEW minTokens \in Nat
  PROVE  LET windows == PartialFrom(lines, size, budget, minTokens)[1]
         IN  /\ windows \in Windows
             /\ budget > 0 => Within(windows, lines, budget)
             /\ CoversFrom(windows, lines, 1, minTokens)
<1> DEFINE D == 1..Len(lines) + 1
           m == [k \in D |-> Len(lines) + 1 - k]
           from == PartialFrom(lines, size, budget, minTokens)
           sound(first) == /\ budget > 0 => Within(from[first], lines, budget)
                           /\ CoversFrom(from[first], lines, first, minTokens)
           G == {first \in D : sound(first)}
<1>1. Len(lines) \in Nat /\ m \in [D -> Nat]
  OBVIOUS
<1>2. /\ from \in [D -> Windows]
      /\ \A first \in D : from[first] = PartialStep(lines, size, budget, minTokens, from, first)
  BY PartialFromDef
<1> HIDE DEF from
<1>3. ASSUME NEW first \in D, \A k \in D : m[k] < m[first] => k \in G PROVE sound(first)
  <2> DEFINE e == PartialEnd(lines, first, size, budget)
             takes == PartialTakes(lines, minTokens, first, e)
             next == PartialNext(lines, size, minTokens, first, e)
  <2>1. from[first] = IF first > Len(lines) THEN <<>> ELSE takes \o from[next]
    BY <1>2 DEF PartialStep
  <2>2. CASE first > Len(lines)
    <3>1. from[first] = <<>>
      BY <2>1, <2>2
    <3>2. first..Len(lines) = {}
      BY <1>1, <2>2
    <3> HIDE DEF takes, next
    <3> QED BY <3>1, <3>2, NoWindow DEF CoversFrom
  <2>3. CASE first <= Len(lines)
    <3>1. first \in 1..Len(lines) /\ ~(first > Len(lines))
      BY <2>3
    <3>2. e \in first..Len(lines)
      BY <3>1, PartialEndIn
    <3>3. next \in (first + 1)..(Len(lines) + 1) /\ takes \in Windows
      <4> HIDE DEF e
      <4> QED BY <3>1, <3>2, PartialNextIn
    <3>4. /\ budget > 0 => Within(takes, lines, budget)
          /\ \A n \in first..Len(lines) :
               lines[n] > 0 /\ Tokens(lines, n, n) >= minTokens => HasLine(takes, n) \/ n >= next
      BY <3>1, PartialStepSound
    <3> HIDE DEF takes, next, e
    <3>5. next \in D /\ m[next] < m[first]
      BY <1>1, <3>1, <3>3
    <3>6. /\ budget > 0 => Within(from[next], lines, budget)
          /\ CoversFrom(from[next], lines, next, minTokens)
      <4> HIDE DEF D, m
      <4> QED BY <1>3, <3>5
    <3>7. from[first] = takes \o from[next] /\ from[next] \in Windows
      <4> HIDE DEF D
      <4> QED BY <1>2, <2>1, <3>1, <3>5
    <3>8. budget > 0 => Within(from[first], lines, budget)
      BY <3>3, <3>4, <3>6, <3>7, BothParts
    <3>9. ASSUME NEW n \in first..Len(lines), lines[n] > 0, Tokens(lines, n, n) >= minTokens
          PROVE  HasLine(from[first], n)
      <4>1. HasLine(takes, n) \/ n >= next
        BY <3>4, <3>9
      <4>2. n >= next => n \in next..Len(lines)
        BY <1>1, <3>1, <3>3
      <4>3. n >= next => HasLine(from[next], n)
        BY <3>6, <3>9, <4>2 DEF CoversFrom
      <4> QED BY <3>3, <3>7, <4>1, <4>3, BothParts
    <3>10. CoversFrom(from[first], lines, first, minTokens)
      BY <3>9 DEF CoversFrom
    <3> QED BY <3>8, <3>10
  <2>4. first \in Int
    OBVIOUS
  <2> HIDE DEF sound
  <2> QED BY <1>1, <2>2, <2>3, <2>4
<1>4. \A first \in D : (\A k \in D : m[k] < m[first] => k \in G) => first \in G
  <2> HIDE DEF sound, D, m
  <2> QED BY <1>3
<1>5. D \subseteq G
  <2> HIDE DEF D, m, G
  <2> QED BY <1>1, <1>4, MeasureInduction
<1>6. 1 \in D
  BY <1>1
<1>7. sound(1) /\ from[1] \in Windows
  <2> HIDE DEF D, sound
  <2> QED BY <1>2, <1>5, <1>6
<1> QED BY <1>7 DEF from

---------------------------------------------------------------------------
(* The stream and the memory.                                              *)

\* SlideWindowEmit without a budget takes, from a line, what the stream's buffer
\* takes there, and goes on where it goes on.
LEMMA SlideStepAsStream ==
  ASSUME NEW lines \in Seq(Nat), NEW size, ProperSize(size), NEW first \in 1..Len(lines), NEW from
  PROVE  SlideStep(lines, size, 0, 0, from, first) =
           IF first - 1 + size.window >= Len(lines)
           THEN Kept(lines, <<first, Len(lines)>>) \o from[Len(lines) + 1]
           ELSE Kept(lines, <<first, first - 1 + size.window>>)
                  \o from[first - 1 + size.window - size.overlap + 1]
<1> DEFINE last == LastOf(lines, first, size)
<1>1. /\ size.window \in Nat \ {0} /\ size.overlap \in Nat /\ size.overlap < size.window
      /\ Len(lines) \in Nat /\ first \in Nat /\ first >= 1 /\ first <= Len(lines)
  BY DEF ProperSize
<1>2. last = IF first - 1 + size.window >= Len(lines) THEN Len(lines) ELSE first - 1 + size.window
  BY <1>1 DEF LastOf, Lesser
<1>3. SlideEnd(lines, first, size, 0) = last
  BY DEF SlideEnd
<1>4. ~SlideSkips(lines, 0, first, last)
  BY DEF SlideSkips
<1> HIDE DEF last
<1>5. SlideTakes(lines, 0, first, last) = Kept(lines, <<first, last>>)
  BY <1>4 DEF SlideTakes
<1>6. SlideStep(lines, size, 0, 0, from, first)
        = Kept(lines, <<first, last>>) \o from[SlideNext(lines, size, 0, first, last)]
  <2>1. ~(first > Len(lines))
    BY <1>1
  <2> QED BY <1>3, <1>5, <2>1 DEF SlideStep
<1>7. CASE first - 1 + size.window >= Len(lines)
  <2>1. last = Len(lines) /\ SlideNext(lines, size, 0, first, last) = Len(lines) + 1
    BY <1>2, <1>7 DEF SlideNext
  <2> QED BY <1>6, <1>7, <2>1
<1>8. CASE ~(first - 1 + size.window >= Len(lines))
  <2>1. last = first - 1 + size.window /\ last # Len(lines)
    BY <1>1, <1>2, <1>8
  <2>2. SlideNext(lines, size, 0, first, last) = After(first, last, size)
    BY <1>4, <2>1 DEF SlideNext
  <2>3. After(first, last, size) = first - 1 + size.window - size.overlap + 1
    <3>1. /\ last + 1 - size.overlap = first - 1 + size.window - size.overlap + 1
          /\ last + 1 - size.overlap >= first + 1
      <4>1. \A f, w, o \in Nat : o < w =>
              /\ (f - 1 + w) + 1 - o = f - 1 + w - o + 1
              /\ (f - 1 + w) + 1 - o >= f + 1
        OBVIOUS
      <4>2. /\ (first - 1 + size.window) + 1 - size.overlap = first - 1 + size.window - size.overlap + 1
            /\ (first - 1 + size.window) + 1 - size.overlap >= first + 1
        BY <1>1, <4>1
      <4> QED BY <2>1, <4>2
    <3>2. last \in Int
      BY <1>1, <2>1
    <3>3. last + 1 - size.overlap > first + 1 \/ last + 1 - size.overlap = first + 1
      BY <1>1, <3>1, <3>2
    <3> QED BY <3>1, <3>3 DEF After, Greater
  <2>4. SlideStep(lines, size, 0, 0, from, first)
          = Kept(lines, <<first, first - 1 + size.window>>)
              \o from[first - 1 + size.window - size.overlap + 1]
    BY <1>6, <2>1, <2>2, <2>3
  <2> QED BY <1>8, <2>4
<1> QED BY <1>7, <1>8

\* No line, no window.
LEMMA StreamEnds ==
  ASSUME NEW lines \in Seq(Nat), NEW size, ProperSize(size)
  PROVE  StreamFrom(lines, size)[Len(lines)] = <<>>
<1> DEFINE N == Len(lines)
           stream == StreamFrom(lines, size)
           D == 0..N
<1>1. N \in D
  OBVIOUS
<1>2. \A k \in D :
        stream[k] = CASE k = N -> <<>>
                      [] k < N /\ k + size.window >= N -> Kept(lines, <<k + 1, N>>)
                      [] OTHER -> Kept(lines, <<k + 1, k + size.window>>)
                                    \o stream[k + size.window - size.overlap]
  BY StreamFromDef
<1> HIDE DEF stream
<1>3. ~(N < N)
  BY <1>1
<1> HIDE DEF N, D
<1>4. stream[N] = <<>>
  BY <1>1, <1>2, <1>3
<1> QED BY <1>4 DEF stream, N

\* FileChunksEmit and streamChunkBatched cut the same windows.
LEMMA SlideAsStream ==
  ASSUME NEW lines \in Seq(Nat), NEW size, ProperSize(size)
  PROVE  SlideFrom(lines, size, 0, 0)[1] = StreamFrom(lines, size)[0]
<1> DEFINE N == Len(lines)
           slide == SlideFrom(lines, size, 0, 0)
           stream == StreamFrom(lines, size)
           D == 0..N
           m == [k \in D |-> N - k]
           G == {k \in D : slide[k + 1] = stream[k]}
<1>1. /\ size.window \in Nat \ {0} /\ size.overlap \in Nat /\ size.overlap < size.window
      /\ N \in Nat
  BY DEF ProperSize
<1>2. /\ slide \in [1..(N + 1) -> Windows]
      /\ \A k \in 1..(N + 1) : slide[k] = SlideStep(lines, size, 0, 0, slide, k)
  BY SlideFromDef
<1>3. /\ stream \in [D -> Windows]
      /\ \A k \in D :
           stream[k] = CASE k = N -> <<>>
                         [] k < N /\ k + size.window >= N -> Kept(lines, <<k + 1, N>>)
                         [] OTHER -> Kept(lines, <<k + 1, k + size.window>>)
                                       \o stream[k + size.window - size.overlap]
  BY StreamFromDef
<1>4. \A first \in 1..N :
        slide[first] = IF first - 1 + size.window >= N
                       THEN Kept(lines, <<first, N>>) \o slide[N + 1]
                       ELSE Kept(lines, <<first, first - 1 + size.window>>)
                              \o slide[first - 1 + size.window - size.overlap + 1]
  <2> HIDE DEF slide
  <2>1. \A first \in 1..N : first \in 1..(N + 1)
    BY <1>1
  <2> QED BY <1>2, <2>1, SlideStepAsStream
<1>5. slide[N + 1] = <<>>
  <2>1. N + 1 \in 1..(N + 1) /\ N + 1 > N
    BY <1>1
  <2> QED BY <1>2, <2>1 DEF SlideStep
<1>6. \A i, j \in Int : Kept(lines, <<i, j>>) \o <<>> = Kept(lines, <<i, j>>)
  <2>1. <<>> \in Windows
    BY DEF Windows
  <2> QED BY <2>1, OneWindowMore
<1>7. m \in [D -> Nat]
  BY <1>1
<1> HIDE DEF slide, stream
<1>8. ASSUME NEW k \in D, \A j \in D : m[j] < m[k] => j \in G PROVE k \in G
  <2>1. k \in Nat /\ k <= N /\ k + 1 \in Nat /\ (k + 1) - 1 = k
    BY <1>1
  <2>2. CASE k = N
    <3>1. stream[k] = <<>>
      BY <1>3, <2>2
    <3> QED BY <1>5, <2>2, <3>1
  <2>3. CASE k # N /\ k + size.window >= N
    <3>1. k + 1 \in 1..N /\ k < N
      BY <1>1, <2>1, <2>3
    <3>2. stream[k] = Kept(lines, <<k + 1, N>>)
      BY <1>3, <2>3, <3>1
    <3>3. slide[k + 1] = Kept(lines, <<k + 1, N>>) \o <<>>
      BY <1>4, <1>5, <2>1, <2>3, <3>1
    <3>4. slide[k + 1] = Kept(lines, <<k + 1, N>>)
      BY <1>1, <1>6, <2>1, <3>3
    <3> QED BY <3>2, <3>4
  <2>4. CASE k # N /\ ~(k + size.window >= N)
    <3> DEFINE next == k + size.window - size.overlap
    <3>1. k + 1 \in 1..N /\ k < N /\ next \in D /\ next > k /\ next \in Nat
      BY <1>1, <2>1, <2>4
    <3>2. m[next] < m[k]
      BY <1>1, <2>1, <3>1
    <3> HIDE DEF m
    <3>3. slide[next + 1] = stream[next]
      BY <1>8, <3>1, <3>2
    <3>4. stream[k] = Kept(lines, <<k + 1, k + size.window>>) \o stream[next]
      BY <1>3, <2>4
    <3>5. slide[k + 1] = Kept(lines, <<k + 1, k + size.window>>) \o slide[next + 1]
      BY <1>4, <2>1, <2>4, <3>1
    <3> QED BY <3>3, <3>4, <3>5
  <2> QED BY <2>2, <2>3, <2>4
<1>9. D \subseteq G
  <2> HIDE DEF m, D, G
  <2> QED BY <1>7, <1>8, MeasureInduction
<1>10. 0 \in D /\ 0 + 1 = 1
  BY <1>1
<1>11. slide[1] = stream[0]
  BY <1>9, <1>10
<1> QED BY <1>11 DEF slide, stream

\* A file of any length is cut into the same windows of the same lines in memory
\* (line_window.go FileChunksEmit) and streamed (stream.go), and every line that
\* is not blank is in one.
THEOREM SameWindows ==
  ASSUME NEW s \in Seq(Bytes), NEW window \in Int, NEW overlap \in Int
  PROVE  LET memory == MemoryLines(s)
             windows == MemoryWindows(memory, window, overlap)
         IN  /\ s # <<>> => memory = ReadLines(s)
             /\ windows = StreamWindows(ReadLines(s), window, overlap)
             /\ \A n \in DOMAIN memory : memory[n] > 0 => HasLine(windows, n)
<1> DEFINE memory == MemoryLines(s)
           size == NormalizeWindow(window, overlap)
           windows == MemoryWindows(memory, window, overlap)
<1>1. memory \in Seq(Nat)
  BY SameLines DEF SomeLines
<1>2. ProperSize(size)
  BY ProperWindows
<1>3. windows = SlideFrom(memory, size, 0, 0)[1]
  BY DEF MemoryWindows, SlideWindows
<1> HIDE DEF size
<1>4. SlideFrom(memory, size, 0, 0)[1] = StreamFrom(memory, size)[0]
  BY <1>1, <1>2, SlideAsStream
<1>5. windows = StreamWindows(ReadLines(s), window, overlap)
  <2>1. StreamWindows(ReadLines(s), window, overlap) = StreamFrom(ReadLines(s), size)[0]
    BY DEF StreamWindows, size
  <2>2. CASE s # <<>>
    BY <1>3, <1>4, <2>1, <2>2, SameLines
  <2>3. CASE s = <<>>
    <3>1. memory = <<0>> /\ ReadLines(s) = <<>>
      BY <2>3, SameLines
    <3> DEFINE none == <<>>
               blank == <<0>>
    <3>2. none \in Seq(Nat) /\ Len(none) = 0 /\ blank \in Seq(Nat) /\ Len(blank) = 1 /\ blank[1] = 0
      OBVIOUS
    <3> HIDE DEF none, blank
    <3>3. StreamFrom(none, size)[0] = <<>>
      <4>1. 0 \in 0..Len(none) /\ 0 = Len(none)
        BY <3>2
      <4> QED BY <1>2, <3>2, <4>1, StreamEnds
    <3>4. StreamFrom(blank, size)[0] = Kept(blank, <<1, 1>>)
      <4>1. size.window \in Nat \ {0}
        BY <1>2 DEF ProperSize
      <4>2. 0 \in 0..Len(blank) /\ 0 # Len(blank) /\ 0 < Len(blank) /\ 0 + size.window >= Len(blank)
        BY <3>2, <4>1
      <4>3. \A k \in 0..Len(blank) :
              k # Len(blank) /\ k < Len(blank) /\ k + size.window >= Len(blank) =>
                StreamFrom(blank, size)[k] = Kept(blank, <<k + 1, Len(blank)>>)
        <5>1. ASSUME NEW k \in 0..Len(blank), k # Len(blank), k < Len(blank), k + size.window >= Len(blank)
              PROVE  StreamFrom(blank, size)[k] = Kept(blank, <<k + 1, Len(blank)>>)
          BY <1>2, <3>2, <5>1, StreamFromDef
        <5> QED BY <5>1
      <4>4. StreamFrom(blank, size)[0] = Kept(blank, <<0 + 1, Len(blank)>>)
        BY <4>2, <4>3
      <4> QED BY <3>2, <4>4
    <3>5. Kept(blank, <<1, 1>>) = <<>>
      BY <3>2 DEF Kept, Blank
    <3>6. windows = StreamFrom(memory, size)[0]
      BY <1>3, <1>4
    <3> HIDE DEF windows, memory
    <3> QED BY <2>1, <3>1, <3>3, <3>4, <3>5, <3>6 DEF none, blank
  <2> QED BY <2>2, <2>3
<1>6. ASSUME NEW n \in DOMAIN memory, memory[n] > 0 PROVE HasLine(windows, n)
  <2>1. CoversFrom(windows, memory, 1, 0)
    BY <1>1, <1>2, <1>3, SlideSound
  <2> HIDE DEF memory, windows
  <2>2. n \in 1..Len(memory) /\ n \in n..n /\ n \in Nat
    BY <1>1
  <2>3. Tokens(memory, n, n) >= 0
    <3>1. n \in n..Len(memory)
      BY <1>1, <2>2
    <3>2. Tokens(memory, n, n) \in Nat
      BY <1>1, <2>2, TokensGrow
    <3> QED BY <3>2
  <2> QED BY <1>6, <2>1, <2>2, <2>3 DEF CoversFrom
<1> QED BY <1>5, <1>6, SameLines

\* Under a token budget, SlideWindowEmit and emitPartialWindows exceed it by a
\* single line at most and lose no line that has the least number of tokens.
THEOREM BudgetedWindows ==
  ASSUME NEW lines \in Seq(Nat), NEW window \in Int, NEW overlap \in Int,
         NEW budget \in Nat \ {0}, NEW least \in Nat
  PROVE  LET slid == SlideWindows(lines, window, overlap, budget, least)
             shrunk == PartialWindows(lines, window, overlap, budget, least)
         IN  /\ Within(slid, lines, budget) /\ Covers(slid, lines, least)
             /\ Within(shrunk, lines, budget) /\ Covers(shrunk, lines, least)
<1> DEFINE size == NormalizeWindow(window, overlap)
<1>1. ProperSize(size)
  BY ProperWindows
<1>2. budget \in Nat /\ budget > 0
  OBVIOUS
<1> HIDE DEF size
<1>5. DOMAIN lines = 1..Len(lines)
  OBVIOUS
<1>3. LET slid == SlideFrom(lines, size, budget, least)[1]
      IN  Within(slid, lines, budget) /\ Covers(slid, lines, least)
  BY <1>1, <1>2, <1>5, SlideSound DEF Covers, CoversFrom
<1>4. LET shrunk == PartialFrom(lines, size, budget, least)[1]
      IN  Within(shrunk, lines, budget) /\ Covers(shrunk, lines, least)
  BY <1>1, <1>2, <1>5, PartialSound DEF Covers, CoversFrom
<1> QED BY <1>3, <1>4 DEF SlideWindows, PartialWindows, size

---------------------------------------------------------------------------
(* The inputs, and windows of all of them.                                 *)

\* The inputs are files, texts, collections and settings.
THEOREM TypeInvariant ==
  Spec => []TypeOK
<1>1. Init => TypeOK
  BY DEF Init, TypeOK
<1>2. TypeOK /\ [Next]_vars => TypeOK'
  <2> SUFFICES ASSUME TypeOK, [Next]_vars PROVE TypeOK'
    OBVIOUS
  <2>1. ASSUME kind = "none", kind' \in Growing, data' = <<>> PROVE TypeOK'
    BY <2>1 DEF TypeOK, Growing
  <2>2. ASSUME kind' = "setting", NEW mode \in Modes, NEW name \in Kinds, NEW said \in Layers[name],
               data' = World(mode, name, said)
        PROVE  TypeOK'
    <3>1. said \in Said
      <4>1. Layers[name] \subseteq Said
        BY LayersAssumption
      <4> QED BY <4>1
    <3>3. data' \in Worlds
      BY <2>2, <3>1 DEF World, Worlds, Said
    <3> QED BY <2>2, <3>3 DEF TypeOK
  <2>3. ASSUME kind = "file", NEW byte \in Bytes, data' = Append(data, byte), kind' = kind PROVE TypeOK'
    BY <2>3 DEF TypeOK
  <2>4. ASSUME kind = "lines", NEW length \in Lengths, data' = Append(data, length), kind' = kind
        PROVE  TypeOK'
    BY <2>4 DEF TypeOK
  <2>5. ASSUME kind = "collection", NEW match \in BOOLEAN, NEW boost \in Boosts,
               data' = Append(data, Document(match, boost, Len(data) + 1)), kind' = kind
        PROVE  TypeOK'
    <3>1. data \in Seq(Documents)
      BY <2>5 DEF TypeOK
    <3>2. Document(match, boost, Len(data) + 1) \in Documents
      BY <3>1 DEF Document, Documents
    <3>3. data' \in Seq(Documents)
      <4> HIDE DEF Documents
      <4> QED BY <2>5, <3>1, <3>2
    <3> QED BY <2>5, <3>3 DEF TypeOK
  <2>10. ASSUME kind = "markdown", NEW line \in MarkdownLines, data' = Append(data, line), kind' = kind
         PROVE  TypeOK'
    BY <2>10 DEF TypeOK
  <2>11. ASSUME kind = "prose", NEW mark \in Marks, data' = Append(data, mark), kind' = kind PROVE TypeOK'
    BY <2>11 DEF TypeOK
  <2>12. ASSUME kind' = "tree", data' \in Trees PROVE TypeOK'
    BY <2>12 DEF TypeOK
  <2>6. CASE Choose
    BY <2>1, <2>2, <2>6, <2>12 DEF Choose
  <2>7. CASE Grow
    BY <2>3, <2>4, <2>5, <2>7, <2>10, <2>11 DEF Grow
  <2>8. CASE UNCHANGED vars
    BY <2>8 DEF vars, TypeOK
  <2> QED BY <2>6, <2>7, <2>8 DEF Next
<1> QED BY <1>1, <1>2, PTL DEF Spec

\* The chunker of a file does not depend on its size (chunker.go ProcessBatches).
LEMMA RouteFixed == RouteIgnoresSize
<1> SUFFICES ASSUME NEW name \in {"md", "txt", "dcs", "code", "other"}, NEW sdbl \in BOOLEAN,
                    NEW strategy \in {"line_window", "hybrid", "ast", "prose"}
             PROVE  LET file(big) == [kind |-> name, strategy |-> strategy, sdbl |-> sdbl, big |-> big]
                    IN  (name = "txt" /\ Prose(file(TRUE))) \/ Chunker(file(TRUE)) = Chunker(file(FALSE))
  BY DEF RouteIgnoresSize
<1> DEFINE file(big) == [kind |-> name, strategy |-> strategy, sdbl |-> sdbl, big |-> big]
<1>1. /\ HybridAST(file(TRUE)) = HybridAST(file(FALSE))
      /\ Prose(file(TRUE)) = Prose(file(FALSE))
  BY DEF HybridAST, Prose
<1>2. InMemory(file(TRUE)) = InMemory(file(FALSE))
  BY <1>1 DEF InMemory
<1>3. ~Streamed(file(FALSE))
  BY DEF Streamed
<1>4. Chunker(file(FALSE)) = InMemory(file(FALSE))
  BY <1>3 DEF Chunker
<1>5. CASE HybridAST(file(TRUE))
  <2>1. ~Streamed(file(TRUE)) /\ ~Prose(file(TRUE))
    BY <1>5 DEF Streamed, HybridAST, Prose
  <2> QED BY <1>2, <1>4, <2>1 DEF Chunker
<1>6. CASE ~HybridAST(file(TRUE)) /\ Prose(file(TRUE))
  <2>1. ~Streamed(file(TRUE))
    BY <1>6 DEF Streamed
  <2>2. Chunker(file(TRUE)) = "markdown"
    BY <1>6, <2>1 DEF Chunker
  <2>3. name # "txt" => name = "md" /\ strategy # "line_window"
    BY <1>6 DEF Prose
  <2>4. name # "txt" => InMemory(file(TRUE)) = "markdown"
    BY <1>6, <2>3 DEF InMemory
  <2> QED BY <1>2, <1>4, <1>6, <2>2, <2>4
<1>7. CASE ~HybridAST(file(TRUE)) /\ ~Prose(file(TRUE))
  <2>1. InMemory(file(TRUE)) = "windows"
    BY <1>7 DEF InMemory
  <2>2. Chunker(file(TRUE)) = "windows" 
    BY <1>7 DEF Chunker, Streamed
  <2> QED BY <1>2, <1>4, <2>1, <2>2
<1> QED BY <1>5, <1>6, <1>7

\* What windows promise, of every input.
LEMMA TypedWindows == TypeOK => WindowsAreSound
<1> SUFFICES ASSUME TypeOK PROVE SameWindowsInMemoryAndStreamed /\ BudgetLosesNoLine
  BY RouteFixed DEF WindowsAreSound
<1>1. SameWindowsInMemoryAndStreamed
  <2> SUFFICES ASSUME kind = "file", NEW window \in Sizes, NEW overlap \in Sizes
               PROVE  LET memory == MemoryLines(data)
                          windows == MemoryWindows(memory, window, overlap)
                      IN  /\ data # <<>> => memory = ReadLines(data)
                          /\ windows = StreamWindows(ReadLines(data), window, overlap)
                          /\ \A n \in DOMAIN memory : memory[n] > 0 => HasLine(windows, n)
    <3>1. kind = "file" /\ data # <<>> => MemoryLines(data) = ReadLines(data)
      BY SameLines DEF TypeOK
    <3> QED BY <3>1 DEF SameWindowsInMemoryAndStreamed
  <2>1. data \in Seq(Bytes)
    BY DEF TypeOK
  <2>2. window \in Int /\ overlap \in Int
    BY InputsAssumption
  <2> QED BY <2>1, <2>2, SameWindows
<1>2. BudgetLosesNoLine
  <2> SUFFICES ASSUME kind = "lines", NEW window \in Sizes, NEW overlap \in Sizes,
                      NEW budget \in Budgets, NEW least \in Leasts
               PROVE  LET slid == SlideWindows(data, window, overlap, budget, least)
                          shrunk == PartialWindows(data, window, overlap, budget, least)
                      IN  /\ Within(slid, data, budget) /\ Covers(slid, data, least)
                          /\ Within(shrunk, data, budget) /\ Covers(shrunk, data, least)
    BY DEF BudgetLosesNoLine
  <2>1. data \in Seq(Nat)
    <3>1. data \in Seq(Lengths)
      BY DEF TypeOK
    <3>2. Lengths \subseteq Nat
      BY InputsAssumption
    <3> QED BY <3>1, <3>2, SeqMonotonic
  <2>2. window \in Int /\ overlap \in Int /\ budget \in Nat \ {0} /\ least \in Nat
    BY InputsAssumption
  <2> QED BY <2>1, <2>2, BudgetedWindows
<1> QED BY <1>1, <1>2

\* The routes and the windows of a file are sound for files, lines, window sizes
\* and budgets of any size (chunker.go, line_window.go, stream.go).
THEOREM WindowSafety ==
  Spec => []WindowsAreSound
BY TypeInvariant, TypedWindows, PTL

---------------------------------------------------------------------------
(* Markdown: what the parser is after each line.                           *)

Pieces ==
  [kind : {"prose", "table", "code", "front"}, lines : Seq(Nat), start : Nat, end : Nat, symbol : Nat,
   scope : Seq(Nat)]
FenceKinds == [mark : {"none", "tick", "tilde"}, len : Nat]
Parsers ==
  [out : Seq(Pieces), current : Seq(Nat), start : Nat, mode : {"prose", "front", "code"},
   fence : FenceKinds, inTable : BOOLEAN, frontDone : BOOLEAN,
   stack : Seq(Nat), pending : Nat]

\* What emitCurrent adds to the segments: the lines, or nothing if they are blank.
Emitted(doc, st, lines, what, out) ==
  \/ out = st.out /\ \A k \in DOMAIN lines : doc[lines[k]] = "blank"
  \/ \E seg \in Pieces :
       /\ seg.kind = what /\ seg.lines = lines /\ seg.start = st.start /\ seg.scope = st.stack
       /\ lines # <<>> /\ out = Append(st.out, seg)

\* Nothing but the segments and the lines collected differs.
Flushed(doc, st, what, e) ==
  /\ e \in Parsers /\ e.current = <<>> /\ Emitted(doc, st, st.current, what, e.out)
  /\ e.start = st.start /\ e.mode = st.mode /\ e.fence = st.fence /\ e.inTable = st.inTable
  /\ e.frontDone = st.frontDone /\ e.stack = st.stack

\* emitCurrent empties what is collected and changes nothing else.
LEMMA EmitIs ==
  ASSUME NEW doc \in Seq(MarkdownLines), NEW st \in Parsers, NEW what \in {"prose", "table", "code", "front"},
         NEW symbol \in Nat, NEW n \in Nat
  PROVE  Flushed(doc, st, what, Emit(st, doc, what, symbol, n))
<1> DEFINE seg == [kind |-> what, lines |-> st.current, start |-> st.start, end |-> n, symbol |-> symbol,
                   scope |-> st.stack]
           drop == \A i \in DOMAIN st.current : doc[st.current[i]] = "blank"
           out == IF drop THEN st.out ELSE Append(st.out, seg)
           e == Emit(st, doc, what, symbol, n)
           nil == <<>>
<1>0. nil \in Seq(Nat)
  OBVIOUS
<1>1. e = [st EXCEPT !.current = nil, !.out = out]
  BY DEF Emit
<1>2. seg \in Pieces
  BY DEF Parsers, Pieces
<1>3. out \in Seq(Pieces)
  <2>1. st.out \in Seq(Pieces)
    BY DEF Parsers
  <2> HIDE DEF seg, drop
  <2> QED BY <1>2, <2>1
<1>4. Emitted(doc, st, st.current, what, out)
  <2>1. CASE drop
    BY <2>1 DEF Emitted
  <2>2. CASE ~drop
    <3>1. st.current # <<>> /\ out = Append(st.out, seg)
      BY <2>2
    <3>2. seg.kind = what /\ seg.lines = st.current /\ seg.start = st.start /\ seg.scope = st.stack
      OBVIOUS
    <3> QED BY <1>2, <3>1, <3>2 DEF Emitted
  <2> QED BY <2>1, <2>2
<1> HIDE DEF out, e, nil
<1>5. e.out = out
  BY <1>1 DEF Parsers
<1>6. e \in Parsers
  BY <1>0, <1>1, <1>3 DEF Parsers
<1>7. /\ e.current = nil /\ e.start = st.start /\ e.mode = st.mode /\ e.fence = st.fence /\ e.inTable = st.inTable
      /\ e.frontDone = st.frontDone /\ e.stack = st.stack
  BY <1>1 DEF Parsers
<1> QED BY <1>4, <1>5, <1>6, <1>7 DEF e, nil, Flushed

\* flushProse does the same, and takes the pending heading.
LEMMA FlushProseIs ==
  ASSUME NEW doc \in Seq(MarkdownLines), NEW st \in Parsers, NEW n \in Nat
  PROVE  Flushed(doc, st, "prose", FlushProse(st, doc, n))
<1>1. CASE st.current = <<>>
  BY <1>1 DEF FlushProse, Emitted, Flushed
<1>2. CASE st.current # <<>>
  <2> DEFINE symbol == IF Level(doc[Head(st.current)]) > 0 THEN Head(st.current) ELSE st.pending
             g == Emit(st, doc, "prose", symbol, n)
             e == FlushProse(st, doc, n)
  <2>1. symbol \in Nat
    BY <1>2 DEF Parsers
  <2>2. e = [g EXCEPT !.pending = 0]
    BY <1>2 DEF FlushProse
  <2> HIDE DEF symbol
  <2>3. Flushed(doc, st, "prose", g)
    BY <2>1, EmitIs
  <2> HIDE DEF g, e
  <2>4. e \in Parsers /\ e.current = g.current /\ e.out = g.out /\ e.start = g.start /\ e.mode = g.mode
        /\ e.fence = g.fence /\ e.inTable = g.inTable /\ e.frontDone = g.frontDone /\ e.stack = g.stack
    BY <2>2, <2>3 DEF Parsers, Flushed
  <2> QED BY <2>3, <2>4 DEF e, Flushed
<1> QED BY <1>1, <1>2

\* A line more, and a line to start with.
LEMMA CollectIs ==
  ASSUME NEW st \in Parsers, NEW n \in Nat
  PROVE  LET e == Collect(st, n)
         IN  /\ e \in Parsers /\ e.current = Append(st.current, n) /\ e.out = st.out
             /\ e.start = st.start /\ e.mode = st.mode /\ e.fence = st.fence /\ e.inTable = st.inTable
             /\ e.frontDone = st.frontDone /\ e.stack = st.stack
<1> DEFINE x == Append(st.current, n)
<1>1. x \in Seq(Nat)
  BY DEF Parsers
<1>2. Collect(st, n) = [st EXCEPT !.current = x]
  BY DEF Collect
<1>3. Collect(st, n) \in Parsers
  <2> HIDE DEF x
  <2> QED BY <1>1, <1>2 DEF Parsers
<1>4. LET e == Collect(st, n)
      IN  /\ e.current = x /\ e.out = st.out
          /\ e.start = st.start /\ e.mode = st.mode /\ e.fence = st.fence /\ e.inTable = st.inTable
          /\ e.frontDone = st.frontDone /\ e.stack = st.stack
  <2> HIDE DEF x
  <2> QED BY <1>2 DEF Parsers
<1> QED BY <1>3, <1>4

\* A line that is collected first.
LEMMA StartAtIs ==
  ASSUME NEW st \in Parsers, NEW n \in Nat
  PROVE  LET e == StartAt(st, n)
         IN  /\ e \in Parsers /\ e.current = <<n>> /\ e.out = st.out
             /\ e.start = n /\ e.mode = st.mode /\ e.fence = st.fence /\ e.inTable = st.inTable
             /\ e.frontDone = st.frontDone /\ e.stack = st.stack
<1> DEFINE x == <<n>>
<1>1. x \in Seq(Nat)
  OBVIOUS
<1>2. StartAt(st, n) = [st EXCEPT !.start = n, !.current = x]
  BY DEF StartAt
<1>3. StartAt(st, n) \in Parsers
  <2> HIDE DEF x
  <2> QED BY <1>1, <1>2 DEF Parsers
<1>4. LET e == StartAt(st, n)
      IN  /\ e.current = x /\ e.out = st.out
          /\ e.start = n /\ e.mode = st.mode /\ e.fence = st.fence /\ e.inTable = st.inTable
          /\ e.frontDone = st.frontDone /\ e.stack = st.stack
  <2> HIDE DEF x
  <2> QED BY <1>2 DEF Parsers
<1> QED BY <1>3, <1>4

---------------------------------------------------------------------------
(* The ways the parser can take line n, from st to t.                      *)

Collects(doc, st, t, n) ==
  /\ t.out = st.out /\ t.current = Append(st.current, n) /\ t.start = st.start
  /\ t.mode = st.mode /\ t.inTable = st.inTable /\ t.stack = st.stack
  /\ st.mode = "prose" => /\ Level(doc[n]) = 0
                          /\ IF st.inTable THEN doc[n] = "row" ELSE st.current # <<>>

Starts(doc, st, t, n) ==
  /\ st.mode = "prose" /\ t.current = <<n>> /\ t.start = n
  /\ \E what \in {"prose", "table"} : Emitted(doc, st, st.current, what, t.out)
  /\ IF Level(doc[n]) > 0 THEN t.mode = "prose" /\ t.stack = UpdateStack(st.stack, Level(doc[n]), n)
     ELSE t.stack = st.stack
  /\ \/ t.inTable = st.inTable /\ doc[n] \notin {"row", "text", "blank"}
     \/ t.inTable /\ t.mode = "prose" /\ doc[n] = "row"
     \/ ~t.inTable

Ends(doc, st, t, n) ==
  /\ st.mode # "prose" /\ t.mode = "prose" /\ t.current = <<>> /\ t.inTable = st.inTable
  /\ t.stack = st.stack
  /\ \E what \in {"code", "front"} : Emitted(doc, st, Append(st.current, n), what, t.out)

Skips(doc, st, t, n) ==
  /\ st.mode = "prose" /\ doc[n] = "blank" /\ t.mode = "prose" /\ t.current = <<>> /\ ~t.inTable
  /\ t.stack = st.stack
  /\ \E what \in {"prose", "table"} : Emitted(doc, st, st.current, what, t.out)

Takes(doc, st, t, n) ==
  \/ Collects(doc, st, t, n) \/ Starts(doc, st, t, n) \/ Ends(doc, st, t, n) \/ Skips(doc, st, t, n)

\* The levels of headings; a heading opens no fence.
LEMMA LevelIs ==
  ASSUME NEW line \in MarkdownLines
  PROVE  /\ Level(line) \in 0..3
         /\ Level(line) > 0 <=> line \in {"h1", "h2", "h3"}
         /\ Fence(line) \in FenceKinds
         /\ Fence(line) # NoFence <=> line \in {"ticks3", "ticks4", "tildes3"}
BY DEF Level, Fence, NoFence, FenceKinds, MarkdownLines

\* The parser before its line n, which is new if that is the first.
Takes1(doc, st, t, n) == t \in Parsers /\ ((n = 1 => st = NewState) => Takes(doc, st, t, n))

\* A line in the front matter.
LEMMA FrontTakes ==
  ASSUME NEW doc \in Seq(MarkdownLines), NEW st \in Parsers, NEW n \in DOMAIN doc, st.mode = "front"
  PROVE  LET t == FeedFront(st, doc, n) IN t \in Parsers /\ Takes(doc, st, t, n)
<1> DEFINE c == Collect(st, n)
           e == Emit(c, doc, "front", 0, n)
           t == FeedFront(st, doc, n)
<1>0. st \in Parsers /\ n \in Nat
  OBVIOUS
<1>1. /\ c \in Parsers /\ c.current = Append(st.current, n) /\ c.out = st.out /\ c.start = st.start
      /\ c.mode = st.mode /\ c.inTable = st.inTable /\ c.stack = st.stack
  BY <1>0, CollectIs
<1>2. CASE doc[n] = "dashes"
  <2>1. t = [e EXCEPT !.mode = "prose", !.frontDone = TRUE]
    BY <1>2 DEF FeedFront
  <2> HIDE DEF c
  <2>2. /\ e \in Parsers /\ e.current = <<>> /\ Emitted(doc, c, c.current, "front", e.out)
        /\ e.inTable = c.inTable /\ e.stack = c.stack
    <3>1. Flushed(doc, c, "front", e)
      BY <1>0, <1>1, EmitIs
    <3> QED BY <3>1 DEF Flushed
  <2>3. Emitted(doc, st, Append(st.current, n), "front", e.out)
    BY <1>1, <2>2 DEF Emitted
  <2> HIDE DEF e
  <2>4. t \in Parsers /\ t.mode = "prose" /\ t.current = <<>> /\ t.inTable = st.inTable
        /\ t.stack = st.stack /\ t.out = e.out
    BY <1>1, <2>1, <2>2 DEF Parsers
  <2> HIDE DEF t
  <2>5. Ends(doc, st, t, n)
    BY <2>3, <2>4 DEF Ends
  <2> QED BY <2>4, <2>5 DEF Takes, t
<1>3. CASE doc[n] # "dashes"
  <2>1. t = c
    BY <1>3 DEF FeedFront
  <2> HIDE DEF c, t
  <2>2. Collects(doc, st, t, n)
    BY <1>1, <2>1 DEF Collects
  <2> QED BY <1>1, <2>1, <2>2 DEF Takes, t
<1> QED BY <1>2, <1>3

\* A line in a code block.
LEMMA CodeTakes ==
  ASSUME NEW doc \in Seq(MarkdownLines), NEW st \in Parsers, NEW n \in DOMAIN doc, st.mode = "code"
  PROVE  LET t == FeedCode(st, doc, n) IN t \in Parsers /\ Takes(doc, st, t, n)
<1> DEFINE c == Collect(st, n)
           e == Emit(c, doc, "code", 0, n)
           t == FeedCode(st, doc, n)
<1>0. st \in Parsers /\ n \in Nat
  OBVIOUS
<1>1. /\ c \in Parsers /\ c.current = Append(st.current, n) /\ c.out = st.out /\ c.start = st.start
      /\ c.mode = st.mode /\ c.inTable = st.inTable /\ c.stack = st.stack
  BY <1>0, CollectIs
<1>2. CASE Closes(doc[n], st.fence)
  <2>1. t = [e EXCEPT !.mode = "prose", !.fence = NoFence]
    BY <1>2 DEF FeedCode
  <2> HIDE DEF c
  <2>2. /\ e \in Parsers /\ e.current = <<>> /\ Emitted(doc, c, c.current, "code", e.out)
        /\ e.inTable = c.inTable /\ e.stack = c.stack
    <3>1. Flushed(doc, c, "code", e)
      BY <1>0, <1>1, EmitIs
    <3> QED BY <3>1 DEF Flushed
  <2>3. Emitted(doc, st, Append(st.current, n), "code", e.out)
    BY <1>1, <2>2 DEF Emitted
  <2> HIDE DEF e
  <2>4. t \in Parsers /\ t.mode = "prose" /\ t.current = <<>> /\ t.inTable = st.inTable
        /\ t.stack = st.stack /\ t.out = e.out
    <3>1. NoFence \in FenceKinds
      BY DEF NoFence, FenceKinds
    <3> QED BY <1>1, <2>1, <2>2, <3>1 DEF Parsers
  <2> HIDE DEF t
  <2>5. Ends(doc, st, t, n)
    BY <2>3, <2>4 DEF Ends
  <2> QED BY <2>4, <2>5 DEF Takes, t
<1>3. CASE ~Closes(doc[n], st.fence)
  <2>1. t = c
    BY <1>3 DEF FeedCode
  <2> HIDE DEF c, t
  <2>2. Collects(doc, st, t, n)
    BY <1>1, <2>1 DEF Collects
  <2> QED BY <1>1, <2>1, <2>2 DEF Takes, t
<1> QED BY <1>2, <1>3

\* The line that opens the front matter.
LEMMA OpeningTakes ==
  ASSUME NEW doc \in Seq(MarkdownLines), NEW st \in Parsers, NEW n \in DOMAIN doc, n = 1, doc[n] = "dashes"
  PROVE  Takes1(doc, st, [StartAt(st, n) EXCEPT !.mode = "front"], n)
<1> DEFINE c == StartAt(st, n)
           t == [c EXCEPT !.mode = "front"]
<1>0. n \in Nat
  OBVIOUS
<1>1. c \in Parsers /\ c.current = <<n>> /\ c.out = st.out /\ c.start = n /\ c.inTable = st.inTable /\ c.stack = st.stack
  BY <1>0, StartAtIs
<1> HIDE DEF c
<1>2. /\ t \in Parsers /\ t.current = <<n>> /\ t.out = st.out /\ t.start = n /\ t.inTable = st.inTable
      /\ t.stack = st.stack
  BY <1>1 DEF Parsers
<1>3. Level(doc[n]) = 0
  BY DEF Level
<1> HIDE DEF t
<1>4. ASSUME st = NewState PROVE Starts(doc, st, t, n)
  <2>1. st.mode = "prose" /\ st.current = <<>> /\ ~st.inTable
    BY <1>4 DEF NewState
  <2>2. Emitted(doc, st, st.current, "prose", t.out)
    BY <1>2, <2>1 DEF Emitted
  <2> QED BY <1>2, <1>3, <2>1, <2>2 DEF Starts
<1> QED BY <1>2, <1>4 DEF Takes, Takes1, t, c

\* A line that opens a code block.
LEMMA FenceTakes ==
  ASSUME NEW doc \in Seq(MarkdownLines), NEW st \in Parsers, NEW n \in DOMAIN doc, st.mode = "prose",
         Fence(doc[n]) # NoFence
  PROVE  LET t == [StartAt(FlushProse(st, doc, n), n) EXCEPT !.mode = "code", !.fence = Fence(doc[n])]
         IN  t \in Parsers /\ Takes(doc, st, t, n)
<1> DEFINE f == FlushProse(st, doc, n)
           c == StartAt(f, n)
           t == [c EXCEPT !.mode = "code", !.fence = Fence(doc[n])]
<1>0. st \in Parsers /\ n \in Nat /\ doc[n] \in MarkdownLines
  OBVIOUS
<1>1. /\ f \in Parsers /\ Emitted(doc, st, st.current, "prose", f.out)
      /\ f.inTable = st.inTable /\ f.stack = st.stack
  BY <1>0, FlushProseIs DEF Flushed
<1> HIDE DEF f
<1>2. c \in Parsers /\ c.current = <<n>> /\ c.out = f.out /\ c.start = n /\ c.inTable = f.inTable /\ c.stack = f.stack
  BY <1>0, <1>1, StartAtIs
<1>3. /\ Fence(doc[n]) \in FenceKinds /\ Level(doc[n]) = 0
      /\ doc[n] \notin {"row", "text", "blank"}
  <2> DEFINE line == doc[n]
  <2> line \in MarkdownLines /\ Fence(line) # NoFence
    BY <1>0
  <2> HIDE DEF line
  <2>1. line \in {"ticks3", "ticks4", "tildes3"} /\ Fence(line) \in FenceKinds /\ Level(line) \in 0..3
        /\ (Level(line) > 0 => line \in {"h1", "h2", "h3"})
    BY LevelIs
  <2>2. Level(line) = 0 /\ line \notin {"row", "text", "blank"}
    BY <2>1
  <2> QED BY <2>1, <2>2 DEF line
<1> HIDE DEF c
<1>4. /\ t \in Parsers /\ t.current = <<n>> /\ t.out = f.out /\ t.start = n /\ t.inTable = st.inTable
      /\ t.stack = st.stack
  BY <1>1, <1>2, <1>3 DEF Parsers
<1> HIDE DEF t
<1>5. Starts(doc, st, t, n)
  BY <1>1, <1>3, <1>4 DEF Starts
<1> QED BY <1>4, <1>5 DEF Takes, t, c, f

\* A heading.
LEMMA HeadingTakes ==
  ASSUME NEW doc \in Seq(MarkdownLines), NEW st \in Parsers, NEW n \in DOMAIN doc, st.mode = "prose",
         Level(doc[n]) > 0
  PROVE  LET t == FeedHeading(st, doc, n) IN t \in Parsers /\ Takes(doc, st, t, n)
<1> DEFINE f == FlushProse(st, doc, n)
           c == StartAt(f, n)
           stack == UpdateStack(st.stack, Level(doc[n]), n)
           t == FeedHeading(st, doc, n)
<1>0. st \in Parsers /\ n \in Nat /\ doc[n] \in MarkdownLines
  OBVIOUS
<1>1. /\ f \in Parsers /\ Emitted(doc, st, st.current, "prose", f.out)
      /\ f.inTable = st.inTable /\ f.stack = st.stack /\ f.mode = st.mode
  BY <1>0, FlushProseIs DEF Flushed
<1>2. c \in Parsers /\ c.current = <<n>> /\ c.out = f.out /\ c.start = n /\ c.inTable = f.inTable /\ c.stack = f.stack
      /\ c.mode = f.mode
  <2> HIDE DEF f
  <2> QED BY <1>0, <1>1, StartAtIs
<1>3. Level(doc[n]) \in 1..3 /\ doc[n] \notin {"row", "text", "blank"}
  BY <1>0, LevelIs
<1>4. stack \in Seq(Nat)
  <2>1. st.stack \in Seq(Nat)
    BY <1>0 DEF Parsers
  <2>2. CASE Level(doc[n]) > Len(st.stack)
    BY <1>0, <2>1, <2>2 DEF UpdateStack
  <2>3. CASE ~(Level(doc[n]) > Len(st.stack))
    <3>1. SubSeq(st.stack, 1, Level(doc[n]) - 1) \in Seq(Nat)
      BY <1>3, <2>1, <2>3
    <3> QED BY <1>0, <2>3, <3>1 DEF UpdateStack
  <2> QED BY <2>2, <2>3
<1>5. t = [c EXCEPT !.stack = UpdateStack(@, Level(doc[n]), n), !.pending = n]
  BY DEF FeedHeading
<1>6. t = [c EXCEPT !.stack = stack, !.pending = n]
  BY <1>1, <1>2, <1>5
<1> HIDE DEF f, c, stack
<1>7. /\ t \in Parsers /\ t.current = <<n>> /\ t.out = f.out /\ t.start = n /\ t.inTable = st.inTable
      /\ t.stack = stack /\ t.mode = "prose"
  BY <1>0, <1>1, <1>2, <1>4, <1>6 DEF Parsers
<1> HIDE DEF t
<1>8. Starts(doc, st, t, n)
  BY <1>1, <1>3, <1>7 DEF Starts, stack
<1> QED BY <1>7, <1>8 DEF Takes, t

\* A row of a table.
LEMMA RowTakes ==
  ASSUME NEW doc \in Seq(MarkdownLines), NEW st \in Parsers, NEW n \in DOMAIN doc, st.mode = "prose",
         doc[n] = "row"
  PROVE  LET t == FeedRow(st, doc, n) IN t \in Parsers /\ Takes(doc, st, t, n)
<1> DEFINE f == FlushProse(st, doc, n)
           c == StartAt(f, n)
           t == FeedRow(st, doc, n)
<1>0. st \in Parsers /\ n \in Nat /\ Level(doc[n]) = 0
  BY DEF Level
<1>1. CASE st.inTable
  <2>1. t = Collect(st, n)
    BY <1>1 DEF FeedRow
  <2> HIDE DEF t
  <2>2. t \in Parsers /\ Collects(doc, st, t, n)
    BY <1>0, <1>1, <2>1, CollectIs DEF Collects
  <2> QED BY <2>2 DEF Takes, t
<1>2. CASE ~st.inTable
  <2>1. /\ f \in Parsers /\ Emitted(doc, st, st.current, "prose", f.out)
        /\ f.stack = st.stack /\ f.mode = st.mode
    BY <1>0, FlushProseIs DEF Flushed
  <2>2. t = [c EXCEPT !.inTable = TRUE]
    BY <1>2 DEF FeedRow
  <2> HIDE DEF f
  <2>3. c \in Parsers /\ c.current = <<n>> /\ c.out = f.out /\ c.start = n /\ c.stack = f.stack /\ c.mode = f.mode
    BY <1>0, <2>1, StartAtIs
  <2> HIDE DEF c
  <2>4. /\ t \in Parsers /\ t.current = <<n>> /\ t.out = f.out /\ t.start = n /\ t.inTable
        /\ t.stack = st.stack /\ t.mode = "prose"
    BY <2>1, <2>2, <2>3 DEF Parsers
  <2> HIDE DEF t
  <2>5. Starts(doc, st, t, n)
    BY <1>0, <2>1, <2>4 DEF Starts
  <2> QED BY <2>4, <2>5 DEF Takes, t
<1> QED BY <1>1, <1>2

\* Any other line.
LEMMA TextTakes ==
  ASSUME NEW doc \in Seq(MarkdownLines), NEW st \in Parsers, NEW n \in DOMAIN doc, st.mode = "prose",
         Level(doc[n]) = 0, doc[n] # "row"
  PROVE  LET t == FeedText(st, doc, n) IN t \in Parsers /\ Takes(doc, st, t, n)
<1> DEFINE e == [Emit(st, doc, "table", 0, n) EXCEPT !.inTable = FALSE]
           a == IF st.inTable THEN e ELSE st
           t == FeedText(st, doc, n)
<1>0. st \in Parsers /\ n \in Nat
  OBVIOUS
<1>1. st.inTable => /\ e \in Parsers /\ e.current = <<>> /\ Emitted(doc, st, st.current, "table", e.out)
                    /\ e.mode = st.mode /\ e.stack = st.stack /\ ~e.inTable
  <2> DEFINE g == Emit(st, doc, "table", 0, n)
  <2>1. /\ g \in Parsers /\ g.current = <<>> /\ Emitted(doc, st, st.current, "table", g.out)
        /\ g.mode = st.mode /\ g.stack = st.stack
    <3>1. Flushed(doc, st, "table", g)
      BY <1>0, EmitIs
    <3> QED BY <3>1 DEF Flushed
  <2>2. e = [g EXCEPT !.inTable = FALSE]
    OBVIOUS
  <2> HIDE DEF g, e
  <2>3. e \in Parsers /\ e.current = g.current /\ e.out = g.out /\ e.mode = g.mode /\ e.stack = g.stack /\ ~e.inTable
    BY <2>1, <2>2 DEF Parsers
  <2> QED BY <2>1, <2>3
<1>2. /\ a \in Parsers /\ a.mode = "prose" /\ a.stack = st.stack /\ ~a.inTable
      /\ a.current # <<>> => a = st /\ ~st.inTable
      /\ a.current = <<>> => \E what \in {"prose", "table"} : Emitted(doc, st, st.current, what, a.out)
  <2>1. CASE st.inTable
    <3> HIDE DEF e
    <3> QED BY <1>1, <2>1
  <2>2. CASE ~st.inTable
    BY <1>0, <2>2 DEF Emitted
  <2> QED BY <2>1, <2>2
<1>3. t = CASE a.current # <<>> -> Collect(a, n)
            [] a.current = <<>> /\ doc[n] = "blank" -> [a EXCEPT !.start = n]
            [] OTHER -> StartAt(a, n)
  BY DEF FeedText
<1> HIDE DEF a, t
<1>4. CASE a.current # <<>>
  <2>1. t = Collect(st, n)
    BY <1>2, <1>3, <1>4
  <2>2. t \in Parsers /\ Collects(doc, st, t, n)
    BY <1>0, <1>2, <1>4, <2>1, CollectIs DEF Collects
  <2> QED BY <2>2 DEF Takes, t
<1>5. CASE a.current = <<>> /\ doc[n] = "blank"
  <2>1. t = [a EXCEPT !.start = n]
    BY <1>3, <1>5
  <2>2. t \in Parsers /\ t.mode = "prose" /\ t.current = <<>> /\ ~t.inTable /\ t.stack = st.stack /\ t.out = a.out
    BY <1>0, <1>2, <1>5, <2>1 DEF Parsers
  <2>3. Skips(doc, st, t, n)
    BY <1>2, <1>5, <2>2 DEF Skips
  <2> QED BY <2>2, <2>3 DEF Takes, t
<1>6. CASE a.current = <<>> /\ doc[n] # "blank"
  <2>1. t = StartAt(a, n)
    BY <1>3, <1>6
  <2>2. t \in Parsers /\ t.current = <<n>> /\ t.out = a.out /\ t.start = n /\ t.mode = a.mode
        /\ t.inTable = a.inTable /\ t.stack = a.stack
    BY <1>0, <1>2, <2>1, StartAtIs
  <2>3. Starts(doc, st, t, n)
    BY <1>2, <1>6, <2>2 DEF Starts
  <2> QED BY <2>2, <2>3 DEF Takes, t
<1> QED BY <1>4, <1>5, <1>6

\* feedLine.
LEMMA LineTakes ==
  ASSUME NEW doc \in Seq(MarkdownLines), NEW st \in Parsers, NEW n \in DOMAIN doc
  PROVE  Takes1(doc, st, FeedLine(st, doc, n), n)
<1> DEFINE good(t) == Takes1(doc, st, t, n)
<1>0. st.mode \in {"prose", "front", "code"} /\ doc[n] \in MarkdownLines
  BY DEF Parsers
<1>1. CASE st.mode = "front"
  <2>0. ~Opens(st, doc, n)
    BY <1>1 DEF Opens
  <2>1. good(FeedFront(st, doc, n))
    BY <1>1, FrontTakes DEF Takes1
  <2> HIDE DEF good
  <2>2. good(FeedLine(st, doc, n))
    BY <1>1, <2>0, <2>1 DEF FeedLine
  <2> QED BY <2>2 DEF good
<1>2. CASE Opens(st, doc, n)
  <2>1. good([StartAt(st, n) EXCEPT !.mode = "front"])
    BY <1>2, OpeningTakes DEF Opens
  <2> HIDE DEF good
  <2>2. good(FeedLine(st, doc, n))
    BY <1>2, <2>1 DEF FeedLine
  <2> QED BY <2>2 DEF good
<1>3. CASE st.mode = "code" /\ ~Opens(st, doc, n)
  <2>1. good(FeedCode(st, doc, n))
    BY <1>3, CodeTakes DEF Takes1
  <2> HIDE DEF good
  <2>2. good(FeedLine(st, doc, n))
    BY <1>3, <2>1 DEF FeedLine
  <2> QED BY <2>2 DEF good
<1>4. CASE st.mode = "prose" /\ ~Opens(st, doc, n)
  <2>1. CASE Fence(doc[n]) # NoFence
    <3>1. good([StartAt(FlushProse(st, doc, n), n) EXCEPT !.mode = "code", !.fence = Fence(doc[n])])
      BY <1>4, <2>1, FenceTakes DEF Takes1
    <3>2. Level(doc[n]) = 0 /\ doc[n] # "row"
      <4>1. doc[n] \in {"ticks3", "ticks4", "tildes3"}
        BY <1>0, <2>1, LevelIs
      <4> QED BY <4>1 DEF Level
    <3> HIDE DEF good
    <3>3. good(FeedLine(st, doc, n))
      BY <1>4, <2>1, <3>1, <3>2 DEF FeedLine
    <3> QED BY <3>3 DEF good
  <2>2. CASE Fence(doc[n]) = NoFence /\ Level(doc[n]) > 0
    <3>1. good(FeedHeading(st, doc, n))
      BY <1>4, <2>2, HeadingTakes DEF Takes1
    <3>2. doc[n] # "row"
      BY <2>2 DEF Level
    <3> HIDE DEF good
    <3>3. good(FeedLine(st, doc, n))
      BY <1>4, <2>2, <3>1, <3>2 DEF FeedLine
    <3> QED BY <3>3 DEF good
  <2>3. CASE Fence(doc[n]) = NoFence /\ ~(Level(doc[n]) > 0) /\ doc[n] = "row"
    <3>1. good(FeedRow(st, doc, n))
      BY <1>4, <2>3, RowTakes DEF Takes1
    <3> HIDE DEF good
    <3>2. good(FeedLine(st, doc, n))
      BY <1>4, <2>3, <3>1 DEF FeedLine
    <3> QED BY <3>2 DEF good
  <2>4. CASE Fence(doc[n]) = NoFence /\ ~(Level(doc[n]) > 0) /\ doc[n] # "row"
    <3>1. Level(doc[n]) = 0
      BY <1>0, <2>4, LevelIs
    <3>2. good(FeedText(st, doc, n))
      BY <1>4, <2>4, <3>1, TextTakes DEF Takes1
    <3> HIDE DEF good
    <3>3. good(FeedLine(st, doc, n))
      BY <1>4, <2>4, <3>2 DEF FeedLine
    <3> QED BY <3>3 DEF good
  <2> QED BY <2>1, <2>2, <2>3, <2>4
<1> QED BY <1>0, <1>1, <1>2, <1>3, <1>4

\* The parser before the first line.
LEMMA NewStateIs == NewState \in Parsers
<1>1. NoFence \in FenceKinds
  BY DEF NoFence, FenceKinds
<1> DEFINE e == <<>>
<1>2. e \in Seq(Pieces) /\ e \in Seq(Nat)
  OBVIOUS
<1>3. NewState = [out |-> e, current |-> e, start |-> 0, mode |-> "prose", fence |-> NoFence,
                  inTable |-> FALSE, frontDone |-> FALSE, stack |-> e, pending |-> 0]
  BY DEF NewState
<1> HIDE DEF e
<1> QED BY <1>1, <1>2, <1>3 DEF Parsers

\* parseMarkdownSegments, a line at a time.
LEMMA ParsedDef ==
  ASSUME NEW doc \in Seq(MarkdownLines)
  PROVE  /\ Parsed(doc) \in [(0..Len(doc)) -> Parsers]
         /\ \A k \in (0..Len(doc)) :
              Parsed(doc)[k] = IF k = 0 THEN NewState ELSE FeedLine(Parsed(doc)[k - 1], doc, k)
<1> DEFINE D == (0..Len(doc))
           V == Parsers
           N == Len(doc)
           m == [k \in D |-> k]
           B(f) == [k \in D |-> IF k = 0 THEN NewState ELSE FeedLine(f[k - 1], doc, k)]
           F == [f \in [D -> V] |-> B(f)]
<1>1. V # {} /\ N \in Nat /\ m \in [D -> 0..N]
  <2>1. NewState \in Parsers
    BY NewStateIs
  <2>2. Len(doc) \in Nat
    OBVIOUS
  <2> QED BY <2>1, <2>2
<1>2. ASSUME NEW f \in [D -> V] PROVE B(f) \in [D -> V]
  <2> HIDE DEF V
  <2>1. ASSUME NEW k \in D PROVE B(f)[k] \in V
    <3>1. CASE k = 0
      BY <1>1, <2>1, <3>1, NewStateIs DEF V
    <3>2. CASE k # 0
      <4>1. f[k - 1] \in Parsers /\ k \in DOMAIN doc
        BY <1>2, <2>1, <3>2 DEF V
      <4>2. FeedLine(f[k - 1], doc, k) \in Parsers
        BY <4>1, LineTakes DEF Takes1
      <4> QED BY <2>1, <3>2, <4>2 DEF V
    <3> QED BY <3>1, <3>2
  <2> QED BY <2>1
<1>3. ASSUME NEW f, NEW g, NEW x \in D, \A y \in D : m[y] < m[x] => f[y] = g[y]
      PROVE  B(f)[x] = B(g)[x]
  <2>1. CASE x = 0
    BY <1>3, <2>1
  <2>2. CASE x # 0
    <3>1. x - 1 \in D /\ m[x - 1] < m[x]
      BY <1>3, <2>2
    <3>2. f[x - 1] = g[x - 1]
      BY <1>3, <3>1
    <3> QED BY <1>3, <2>2, <3>2
  <2> QED BY <2>1, <2>2
<1>4. F \in [[D -> V] -> [D -> V]] /\ \A f \in [D -> V] : F[f] = B(f)
  BY <1>2
<1>5. Contracts(F, D, V, N, m)
  <2>1. ASSUME NEW f \in [D -> V], NEW g \in [D -> V], NEW x \in D,
               \A y \in D : m[y] < m[x] => f[y] = g[y]
        PROVE  F[f][x] = F[g][x]
    <3> HIDE DEF D, V, N, m, B, F
    <3>1. B(f)[x] = B(g)[x]
      BY <1>3, <2>1
    <3> QED BY <1>4, <3>1
  <2> HIDE DEF D, V, N, m, B, F
  <2> QED BY <1>1, <1>4, <2>1 DEF Contracts
<1>6. Parsed(doc) = B(Parsed(doc))
  <2>1. \E f \in [D -> V] : f = B(f)
    <3> HIDE DEF D, V, N, m, B, F
    <3> QED BY <1>4, <1>5, FixedPoint
  <2>2. Parsed(doc) = CHOOSE g : g = B(g)
    BY DEF Parsed
  <2> HIDE DEF B
  <2> QED BY <2>1, <2>2, Zenon
<1>7. Parsed(doc) \in [D -> V]
  <2> DEFINE g == Parsed(doc)
  <2>1. g = B(g)
    BY <1>6
  <2> HIDE DEF g
  <2>2. g = [x \in D |-> g[x]]
    BY <2>1
  <2> HIDE DEF D, V, N, m, B, F
  <2>3. ASSUME NEW f \in [D -> V], NEW x \in D, \A y \in D : m[y] < m[x] => g[y] = f[y]
        PROVE  g[x] = F[f][x]
    <3>1. B(g)[x] = B(f)[x]
      BY <1>3, <2>3
    <3> QED BY <1>4, <2>1, <3>1
  <2>4. g \in [D -> V]
    BY <1>5, <2>2, <2>3, OnlyFixedPoint
  <2> QED BY <2>4 DEF g
<1> QED BY <1>6, <1>7

\* flushAll: what is being collected becomes a segment of its kind.
LEMMA FlushAllIs ==
  ASSUME NEW doc \in Seq(MarkdownLines), NEW st \in Parsers
  PROVE  \E what \in {"prose", "table", "code", "front"} :
           /\ Flushed(doc, st, what, FlushAll(st, doc))
           /\ what \in {"code", "front"} <=> st.mode # "prose"
<1> DEFINE n == Len(doc)
<1>0. n \in Nat /\ 0 \in Nat /\ st.mode \in {"prose", "front", "code"}
  BY DEF Parsers
<1>1. CASE st.mode = "code"
  <2>1. Flushed(doc, st, "code", Emit(st, doc, "code", 0, n))
    BY <1>0, EmitIs
  <2>2. FlushAll(st, doc) = Emit(st, doc, "code", 0, n)
    BY <1>1 DEF FlushAll
  <2> QED BY <1>1, <2>1, <2>2
<1>2. CASE st.mode = "front"
  <2>1. Flushed(doc, st, "front", Emit(st, doc, "front", 0, n))
    BY <1>0, EmitIs
  <2>2. FlushAll(st, doc) = Emit(st, doc, "front", 0, n)
    BY <1>2 DEF FlushAll
  <2> QED BY <1>2, <2>1, <2>2
<1>3. CASE st.mode = "prose" /\ st.inTable
  <2>1. Flushed(doc, st, "table", Emit(st, doc, "table", 0, n))
    BY <1>0, EmitIs
  <2>2. FlushAll(st, doc) = Emit(st, doc, "table", 0, n)
    BY <1>3 DEF FlushAll
  <2> QED BY <1>3, <2>1, <2>2
<1>4. CASE st.mode = "prose" /\ ~st.inTable
  <2>1. Flushed(doc, st, "prose", FlushProse(st, doc, n))
    BY <1>0, FlushProseIs
  <2>2. FlushAll(st, doc) = FlushProse(st, doc, n)
    BY <1>4 DEF FlushAll
  <2> QED BY <1>4, <2>1, <2>2
<1> QED BY <1>0, <1>1, <1>2, <1>3, <1>4

---------------------------------------------------------------------------
(* Markdown: what has been cut from the first lines.                       *)

\* The lines collected are those after lo, up to hi.
Gathers(lines, lo, hi) ==
  lines \in Seq(Nat) /\ hi = lo + Len(lines) /\ \A k \in DOMAIN lines : lines[k] = lo + k

Run(seg) ==
  seg.lines # <<>> /\ \A k \in DOMAIN seg.lines : seg.lines[k] = FirstLine(seg) + k - 1

\* The segments cut from the lines up to n; code holds no heading.
CutUpTo(doc, heads, out, n) ==
  /\ \A i \in DOMAIN out : Run(out[i]) /\ FirstLine(out[i]) >= 1 /\ LastLine(out[i]) <= n
  /\ \A i, j \in DOMAIN out : i < j => LastLine(out[i]) < FirstLine(out[j])
  /\ \A m \in 1..n : doc[m] # "blank" => \E i \in DOMAIN out : m \in LinesIn(out[i])
  /\ \A i \in DOMAIN out : \A m \in LinesIn(out[i]) :
       Level(doc[m]) > 0 => (out[i].kind \in {"code", "front"} <=> m \notin heads)

Placed(out) == \A i \in DOMAIN out : out[i].start = FirstLine(out[i])
Scope(stack) == {stack[k] : k \in DOMAIN stack}
Scoped(doc, heads, out) ==
  \A i \in DOMAIN out : Scope(out[i].scope) = Above(doc, heads, FirstLine(out[i]))

\* A run has a first and a last line.
LEMMA RunEnds ==
  ASSUME NEW seg \in Pieces, Run(seg)
  PROVE  FirstLine(seg) \in Nat /\ LastLine(seg) \in Nat
<1>1. seg.lines \in Seq(Nat) /\ seg.lines # <<>>
  BY DEF Pieces, Run
<1>2. Len(seg.lines) \in DOMAIN seg.lines /\ 1 \in DOMAIN seg.lines
  BY <1>1
<1> QED BY <1>1, <1>2 DEF FirstLine, LastLine

\* What is collected makes a run.
LEMMA GathersRun ==
  ASSUME NEW seg \in Pieces, NEW lo \in Nat, NEW hi \in Nat, Gathers(seg.lines, lo, hi), seg.lines # <<>>
  PROVE  /\ Run(seg) /\ FirstLine(seg) = lo + 1 /\ LastLine(seg) = hi /\ lo < hi
         /\ LinesIn(seg) = (lo + 1)..hi
<1> DEFINE lines == seg.lines
<1>1. lines \in Seq(Nat) /\ hi = lo + Len(lines) /\ \A k \in DOMAIN lines : lines[k] = lo + k
  BY DEF Gathers
<1>2. Len(lines) \in Nat /\ DOMAIN lines = 1..Len(lines) /\ Len(lines) > 0
  BY <1>1
<1> HIDE DEF lines
<1>3. lines[1] = lo + 1 /\ lines[Len(lines)] = hi
  BY <1>1, <1>2
<1>4. {lines[k] : k \in DOMAIN lines} = (lo + 1)..hi
  <2>1. ASSUME NEW m \in (lo + 1)..hi PROVE m \in {lines[k] : k \in DOMAIN lines}
    <3>1. m - lo \in DOMAIN lines /\ lines[m - lo] = m
      BY <1>1, <1>2
    <3> QED BY <3>1
  <2> QED BY <1>1, <1>2, <2>1
<1>5. \A k \in DOMAIN lines : lines[k] = lines[1] + k - 1
  BY <1>1, <1>2, <1>3
<1> QED BY <1>2, <1>3, <1>4, <1>5 DEF Run, FirstLine, LastLine, LinesIn, lines

\* Another segment, or none where the lines are blank, keeps the cut.
LEMMA CutsFurther ==
  ASSUME NEW doc \in Seq(MarkdownLines), NEW heads, NEW st \in Parsers, NEW lines, NEW what,
         NEW out \in Seq(Pieces), NEW lo \in Nat, NEW hi \in Nat,
         CutUpTo(doc, heads, st.out, lo), Gathers(lines, lo, hi), Emitted(doc, st, lines, what, out),
         \A m \in (lo + 1)..hi : Level(doc[m]) > 0 => (what \in {"code", "front"} <=> m \notin heads)
  PROVE  CutUpTo(doc, heads, out, hi)
<1>0. st.out \in Seq(Pieces) /\ lines \in Seq(Nat) /\ hi = lo + Len(lines) /\ Len(lines) \in Nat
  BY DEF Parsers, Gathers
<1>1. CASE out = st.out /\ \A k \in DOMAIN lines : doc[lines[k]] = "blank"
  <2>1. ASSUME NEW m \in 1..hi, doc[m] # "blank" PROVE m \in 1..lo
    <3>1. ASSUME m > lo PROVE FALSE
      <4>1. m - lo \in DOMAIN lines /\ lines[m - lo] = m
        BY <1>0, <3>1 DEF Gathers
      <4> QED BY <1>1, <2>1, <4>1
    <3> QED BY <3>1
  <2>2. \A i \in DOMAIN out : LastLine(out[i]) <= lo => LastLine(out[i]) <= hi
    <3>1. ASSUME NEW i \in DOMAIN out PROVE LastLine(out[i]) \in Int
      <4>1. out[i] \in Pieces /\ Run(out[i])
        BY <1>1 DEF CutUpTo
      <4> QED BY <4>1, RunEnds
    <3> QED BY <1>0, <3>1
  <2> QED BY <1>1, <2>1, <2>2 DEF CutUpTo
<1>2. CASE \E seg \in Pieces : /\ seg.kind = what /\ seg.lines = lines
                               /\ lines # <<>> /\ out = Append(st.out, seg)
  <2>1. PICK seg \in Pieces : /\ seg.kind = what /\ seg.lines = lines
                              /\ lines # <<>> /\ out = Append(st.out, seg)
    BY <1>2
  <2>2. /\ Run(seg) /\ FirstLine(seg) = lo + 1 /\ LastLine(seg) = hi /\ lo < hi
        /\ LinesIn(seg) = (lo + 1)..hi
    BY <2>1, GathersRun
  <2> DEFINE l == Len(st.out)
  <2>3. /\ l \in Nat /\ DOMAIN out = 1..(l + 1) /\ DOMAIN st.out = 1..l /\ out[l + 1] = seg
        /\ \A i \in 1..l : out[i] = st.out[i]
    BY <1>0, <2>1
  <2> HIDE DEF l
  <2>4. \A i \in 1..l : Run(out[i]) /\ FirstLine(out[i]) >= 1 /\ LastLine(out[i]) <= lo
    BY <2>3 DEF CutUpTo
  <2>5. \A i \in 1..l : LastLine(out[i]) \in Int /\ FirstLine(out[i]) \in Int
    <3>1. ASSUME NEW i \in 1..l PROVE LastLine(out[i]) \in Int /\ FirstLine(out[i]) \in Int
      <4>1. out[i] \in Pieces /\ Run(out[i])
        BY <2>3, <2>4
      <4> QED BY <4>1, RunEnds
    <3> QED BY <3>1
  <2>6. \A i \in DOMAIN out : Run(out[i]) /\ FirstLine(out[i]) >= 1 /\ LastLine(out[i]) <= hi
    <3> TAKE i \in DOMAIN out
    <3>1. CASE i = l + 1
      BY <2>2, <2>3, <3>1
    <3>2. CASE i \in 1..l
      BY <2>2, <2>4, <2>5, <3>2
    <3> QED BY <2>3, <3>1, <3>2
  <2>7. \A i, j \in DOMAIN out : i < j => LastLine(out[i]) < FirstLine(out[j])
    <3> SUFFICES ASSUME NEW i \in DOMAIN out, NEW j \in DOMAIN out, i < j
                 PROVE  LastLine(out[i]) < FirstLine(out[j])
      OBVIOUS
    <3>1. i \in 1..l
      BY <2>3
    <3>2. CASE j = l + 1
      BY <2>2, <2>3, <2>4, <2>5, <3>1, <3>2
    <3>3. CASE j \in 1..l
      BY <2>3, <3>1, <3>3 DEF CutUpTo
    <3> QED BY <2>3, <3>2, <3>3
  <2>8. \A m \in 1..hi : doc[m] # "blank" => \E i \in DOMAIN out : m \in LinesIn(out[i])
    <3> SUFFICES ASSUME NEW m \in 1..hi, doc[m] # "blank"
                 PROVE  \E i \in DOMAIN out : m \in LinesIn(out[i])
      OBVIOUS
    <3>1. CASE m > lo
      <4>1. m \in LinesIn(out[l + 1])
        BY <2>2, <2>3, <3>1
      <4> QED BY <2>3, <4>1
    <3>2. CASE m \in 1..lo
      <4>1. PICK i \in DOMAIN st.out : m \in LinesIn(st.out[i])
        BY <3>2 DEF CutUpTo
      <4> QED BY <2>3, <4>1
    <3> QED BY <3>1, <3>2
  <2>9. \A i \in DOMAIN out : \A m \in LinesIn(out[i]) :
          Level(doc[m]) > 0 => (out[i].kind \in {"code", "front"} <=> m \notin heads)
    <3> SUFFICES ASSUME NEW i \in DOMAIN out, NEW m \in LinesIn(out[i]), Level(doc[m]) > 0
                 PROVE  out[i].kind \in {"code", "front"} <=> m \notin heads
      OBVIOUS
    <3>1. CASE i = l + 1
      <4>1. m \in (lo + 1)..hi /\ out[i].kind = what
        BY <2>1, <2>2, <2>3, <3>1
      <4> QED BY <4>1
    <3>2. CASE i \in 1..l
      BY <2>3, <3>2 DEF CutUpTo
    <3> QED BY <2>3, <3>1, <3>2
  <2> QED BY <2>6, <2>7, <2>8, <2>9 DEF CutUpTo
<1> QED BY <1>1, <1>2 DEF Emitted

\* Another segment at its place keeps the places.
LEMMA PlacesFurther ==
  ASSUME NEW doc, NEW st \in Parsers, NEW lines, NEW what, NEW out \in Seq(Pieces),
         Placed(st.out), Emitted(doc, st, lines, what, out), lines # <<>> => st.start = lines[1]
  PROVE  Placed(out)
<1>1. CASE out = st.out
  BY <1>1
<1>2. ASSUME NEW seg \in Pieces, seg.lines = lines, seg.start = st.start, lines # <<>>, out = Append(st.out, seg)
      PROVE  Placed(out)
  <2> DEFINE l == Len(st.out)
  <2>0. st.out \in Seq(Pieces)
    BY DEF Parsers
  <2>1. /\ l \in Nat /\ DOMAIN out = 1..(l + 1) /\ DOMAIN st.out = 1..l /\ out[l + 1] = seg
        /\ \A i \in 1..l : out[i] = st.out[i]
    BY <1>2, <2>0
  <2>2. seg.start = FirstLine(seg)
    BY <1>2 DEF FirstLine
  <2> HIDE DEF l
  <2>3. ASSUME NEW i \in DOMAIN out PROVE out[i].start = FirstLine(out[i])
    <3>1. CASE i = l + 1
      BY <2>1, <2>2, <3>1
    <3>2. CASE i \in 1..l
      BY <2>1, <3>2 DEF Placed
    <3> QED BY <2>1, <3>1, <3>2
  <2> QED BY <2>3 DEF Placed
<1> QED BY <1>1, <1>2 DEF Emitted

\* Another segment under the headings above it keeps the scopes.
LEMMA ScopesFurther ==
  ASSUME NEW doc, NEW heads, NEW st \in Parsers, NEW lines, NEW what, NEW out \in Seq(Pieces),
         Scoped(doc, heads, st.out), Emitted(doc, st, lines, what, out),
         lines # <<>> => Scope(st.stack) = Above(doc, heads, lines[1])
  PROVE  Scoped(doc, heads, out)
<1>1. CASE out = st.out
  BY <1>1
<1>2. ASSUME NEW seg \in Pieces, seg.lines = lines, seg.scope = st.stack, lines # <<>>, out = Append(st.out, seg)
      PROVE  Scoped(doc, heads, out)
  <2> DEFINE l == Len(st.out)
  <2>0. st.out \in Seq(Pieces)
    BY DEF Parsers
  <2>1. /\ l \in Nat /\ DOMAIN out = 1..(l + 1) /\ DOMAIN st.out = 1..l /\ out[l + 1] = seg
        /\ \A i \in 1..l : out[i] = st.out[i]
    BY <1>2, <2>0
  <2>2. Scope(seg.scope) = Above(doc, heads, FirstLine(seg))
    BY <1>2 DEF FirstLine
  <2> HIDE DEF l
  <2>3. ASSUME NEW i \in DOMAIN out PROVE Scope(out[i].scope) = Above(doc, heads, FirstLine(out[i]))
    <3>1. CASE i = l + 1
      BY <2>1, <2>2, <3>1
    <3>2. CASE i \in 1..l
      BY <2>1, <3>2 DEF Scoped
    <3> QED BY <2>1, <3>1, <3>2
  <2> QED BY <2>3 DEF Scoped
<1> QED BY <1>1, <1>2 DEF Emitted

---------------------------------------------------------------------------
(* Markdown: the headings above a line, and the stack of them.             *)

\* Nothing changes between two lines without a heading.
LEMMA AboveSame ==
  ASSUME NEW doc, NEW heads \in SUBSET Nat, NEW a \in Nat, NEW b \in Nat, a <= b,
         \A m \in (a + 1)..b : m \notin heads
  PROVE  Above(doc, heads, a) = Above(doc, heads, b)
<1>1. \A h \in heads : h <= a <=> h <= b
  OBVIOUS
<1> QED BY <1>1 DEF Above

\* A heading closes those that are not higher.
LEMMA AboveHeading ==
  ASSUME NEW doc \in Seq(MarkdownLines), NEW heads \in SUBSET (DOMAIN doc), NEW n \in heads
  PROVE  Above(doc, heads, n) = {h \in Above(doc, heads, n - 1) : Level(doc[h]) < Level(doc[n])} \cup {n}
<1>1. \A h \in heads : h \in Nat /\ Level(doc[h]) \in Int
  BY LevelIs
<1>2. ASSUME NEW h \in Above(doc, heads, n), h # n
      PROVE  h \in Above(doc, heads, n - 1) /\ Level(doc[h]) < Level(doc[n])
  <2>1. h \in heads /\ h < n /\ Level(doc[n]) > Level(doc[h])
    BY <1>1, <1>2 DEF Above
  <2>2. \A g \in heads : h < g /\ g <= n - 1 => Level(doc[g]) > Level(doc[h])
    BY <1>1, <1>2 DEF Above
  <2> QED BY <1>1, <2>1, <2>2 DEF Above
<1>3. ASSUME NEW h \in Above(doc, heads, n - 1), Level(doc[h]) < Level(doc[n])
      PROVE  h \in Above(doc, heads, n)
  <2>1. h \in heads /\ h <= n
    BY <1>1, <1>3 DEF Above
  <2>2. ASSUME NEW g \in heads, h < g, g <= n PROVE Level(doc[g]) > Level(doc[h])
    <3>1. CASE g = n
      BY <1>1, <1>3, <2>1, <3>1
    <3>2. CASE g # n
      BY <1>1, <1>3, <2>2, <3>2 DEF Above
    <3> QED BY <3>1, <3>2
  <2> QED BY <2>1, <2>2 DEF Above
<1>4. n \in Above(doc, heads, n)
  BY <1>1 DEF Above
<1> QED BY <1>2, <1>3, <1>4

\* Level by level, a heading that is above and in force.
Stacked(doc, heads, stack) ==
  \A k \in DOMAIN stack : stack[k] \in heads /\ Level(doc[stack[k]]) = k

\* Where no level is skipped the stack has the level above the heading.
LEMMA StackDeepEnough ==
  ASSUME NEW doc \in Seq(MarkdownLines), NEW heads \in SUBSET (DOMAIN doc), NEW n \in heads,
         NEW stack \in Seq(Nat), Scope(stack) = Above(doc, heads, n - 1),
         Level(doc[n]) <= Cardinality(Above(doc, heads, n))
  PROVE  Level(doc[n]) <= Len(stack) + 1
<1> DEFINE S == Scope(stack)
           l == Len(stack)
           f == [k \in 1..l |-> stack[k]]
<1>1. l \in Nat /\ DOMAIN stack = 1..l
  OBVIOUS
<1>2. f \in Surjection(1..l, S)
  BY <1>1 DEF Surjection, Scope
<1>3. ExistsSurjection(1..l, S)
  BY <1>2 DEF ExistsSurjection
<1>4. IsFiniteSet(1..l)
  BY <1>1, FS_Interval
<1>5. IsFiniteSet(S) /\ Cardinality(S) <= l /\ Cardinality(S) \in Nat
  <2> HIDE DEF f, S, l
  <2> QED BY <1>1, <1>2, <1>3, <1>4, FS_Surjection, FS_SurjCardinalityBound, FS_CardinalityType
<1>6. IsFiniteSet(S \cup {n}) /\ Cardinality(S \cup {n}) <= l + 1 /\ Cardinality(S \cup {n}) \in Nat
  <2> HIDE DEF f, S, l
  <2>1. /\ IsFiniteSet(S \cup {n})
        /\ Cardinality(S \cup {n}) = IF n \in S THEN Cardinality(S) ELSE Cardinality(S) + 1
    BY <1>5, FS_AddElement
  <2>2. Cardinality(S \cup {n}) \in Nat
    BY <2>1, FS_CardinalityType
  <2> QED BY <1>1, <1>5, <2>1, <2>2
<1>7. Above(doc, heads, n) \subseteq S \cup {n}
  BY AboveHeading
<1>8. Cardinality(Above(doc, heads, n)) <= l + 1 /\ Cardinality(Above(doc, heads, n)) \in Nat
  <2> HIDE DEF S, l
  <2>1. /\ IsFiniteSet(Above(doc, heads, n))
        /\ Cardinality(Above(doc, heads, n)) <= Cardinality(S \cup {n})
    BY <1>6, <1>7, FS_Subset
  <2> QED BY <1>1, <1>6, <2>1, FS_CardinalityType
<1>9. Level(doc[n]) \in Int
  BY LevelIs
<1> QED BY <1>1, <1>8, <1>9

\* updateHeadingStack.
LEMMA StackUpdated ==
  ASSUME NEW doc \in Seq(MarkdownLines), NEW heads \in SUBSET (DOMAIN doc), NEW n \in heads,
         Level(doc[n]) > 0, Level(doc[n]) <= Cardinality(Above(doc, heads, n)),
         NEW stack \in Seq(Nat), Stacked(doc, heads, stack), Scope(stack) = Above(doc, heads, n - 1)
  PROVE  LET new == UpdateStack(stack, Level(doc[n]), n)
         IN  Stacked(doc, heads, new) /\ Scope(new) = Above(doc, heads, n)
<1> DEFINE level == Level(doc[n])
           l == Len(stack)
           new == UpdateStack(stack, level, n)
<1>0. n \in Nat /\ doc[n] \in MarkdownLines
  OBVIOUS
<1>1. level \in 1..3 /\ l \in Nat /\ DOMAIN stack = 1..l
  BY <1>0, LevelIs
<1>2. level <= l + 1
  BY StackDeepEnough
<1>3. DOMAIN new = 1..level /\ new[level] = n /\ \A k \in 1..(level - 1) : new[k] = stack[k]
  <2>1. CASE level > l
    <3>1. new = Append(stack, n) /\ level = l + 1
      BY <1>1, <1>2, <2>1 DEF UpdateStack
    <3> HIDE DEF new, level
    <3> QED BY <1>0, <1>1, <3>1
  <2>2. CASE ~(level > l)
    <3> DEFINE s == SubSeq(stack, 1, level - 1)
    <3>1. new = Append(s, n)
      BY <2>2 DEF UpdateStack
    <3> HIDE DEF new, level
    <3>2. s \in Seq(Nat) /\ Len(s) = level - 1 /\ \A k \in 1..(level - 1) : s[k] = stack[k]
      BY <1>1, <2>2
    <3> HIDE DEF s
    <3> QED BY <1>0, <1>1, <3>1, <3>2
  <2> QED BY <2>1, <2>2
<1> HIDE DEF new
<1>4. Stacked(doc, heads, new)
  BY <1>1, <1>2, <1>3 DEF Stacked
<1>5. \A k \in 1..l : stack[k] \in Scope(stack) /\ Level(doc[stack[k]]) = k
  <2>1. \A k \in DOMAIN stack : Level(doc[stack[k]]) = k
    BY DEF Stacked
  <2>2. \A k \in DOMAIN stack : stack[k] \in Scope(stack)
    BY DEF Scope
  <2> QED BY <1>1, <2>1, <2>2
<1>6. \A h \in Scope(stack) : \E k \in 1..l : h = stack[k]
  BY <1>1 DEF Scope
<1>7. Scope(new) = {h \in Scope(stack) : Level(doc[h]) < level} \cup {n}
  <2> HIDE DEF level, l
  <2>1. ASSUME NEW h \in Scope(new) PROVE h \in {g \in Scope(stack) : Level(doc[g]) < level} \cup {n}
    <3>1. PICK k \in 1..level : h = new[k]
      BY <1>3, <2>1 DEF Scope
    <3>2. CASE k = level
      BY <1>3, <3>1, <3>2
    <3>3. CASE k \in 1..(level - 1)
      <4>1. h = stack[k] /\ k \in 1..l /\ k < level
        BY <1>1, <1>2, <1>3, <3>1, <3>3
      <4> QED BY <1>5, <4>1
    <3> QED BY <1>1, <3>1, <3>2, <3>3
  <2>2. ASSUME NEW h \in Scope(stack), Level(doc[h]) < level PROVE h \in Scope(new)
    <3>1. PICK k \in 1..l : h = stack[k]
      BY <1>6, <2>2
    <3>2. k < level
      BY <1>5, <2>2, <3>1
    <3>3. k \in DOMAIN new /\ new[k] = h
      BY <1>1, <1>3, <3>1, <3>2
    <3> QED BY <3>3 DEF Scope
  <2>3. n \in Scope(new)
    <3>1. level \in DOMAIN new /\ new[level] = n
      BY <1>1, <1>3
    <3> QED BY <3>1 DEF Scope
  <2> QED BY <2>1, <2>2, <2>3
<1>8. Scope(new) = Above(doc, heads, n)
  <2> DEFINE A == Above(doc, heads, n - 1)
             S == Scope(stack)
  <2>1. Above(doc, heads, n) = {h \in A : Level(doc[h]) < level} \cup {n}
    BY AboveHeading
  <2>2. S = A
    OBVIOUS
  <2>3. Scope(new) = {h \in S : Level(doc[h]) < level} \cup {n}
    BY <1>7
  <2> HIDE DEF A, S, level
  <2> QED BY <2>1, <2>2, <2>3
<1> QED BY <1>4, <1>8 DEF new

---------------------------------------------------------------------------
(* Markdown: what holds of the parser after each line.  The lines up to lo *)
(* are cut, those after it collected.                                      *)

\* Only the first of the lines collected can be a heading, and in code or front
\* matter none is.
Collected(doc, heads, st, lo, n) ==
  /\ Gathers(st.current, lo, n)
  /\ CutUpTo(doc, heads, st.out, lo)
  /\ st.mode # "prose" => st.current # <<>>
  /\ \A m \in (lo + 1)..n : Level(doc[m]) > 0 => (st.mode # "prose" <=> m \notin heads)
  /\ \A m \in (lo + 2)..n : m \notin heads

\* A line more is collected.
LEMMA OneLineMore ==
  ASSUME NEW s, NEW lo \in Nat, NEW n \in Nat, Gathers(s, lo, n - 1)
  PROVE  Gathers(Append(s, n), lo, n)
<1> DEFINE x == Append(s, n)
           l == Len(s)
<1>1. s \in Seq(Nat) /\ l \in Nat /\ DOMAIN s = 1..l /\ n = lo + l + 1 /\ \A k \in 1..l : s[k] = lo + k
  BY DEF Gathers
<1>2. x \in Seq(Nat) /\ Len(x) = l + 1 /\ DOMAIN x = 1..(l + 1) /\ x[l + 1] = n /\ \A k \in 1..l : x[k] = s[k]
  BY <1>1
<1> HIDE DEF x, l
<1>3. ASSUME NEW k \in 1..(l + 1) PROVE x[k] = lo + k
  <2>1. CASE k = l + 1
    BY <1>1, <1>2, <2>1
  <2>2. CASE k \in 1..l
    BY <1>1, <1>2, <2>2
  <2> QED BY <1>1, <1>3, <2>1, <2>2
<1>4. n = lo + Len(x)
  BY <1>1, <1>2
<1> QED BY <1>2, <1>3, <1>4 DEF Gathers, x

\* What is collected keeps its first line.
LEMMA SameFirst ==
  ASSUME NEW s \in Seq(Nat), NEW n \in Nat
  PROVE  Append(s, n) # <<>> /\ (s # <<>> => Append(s, n)[1] = s[1])
<1> DEFINE x == Append(s, n)
           l == Len(s)
<1>1. l \in Nat /\ Len(x) = l + 1 /\ DOMAIN s = 1..l /\ \A k \in 1..l : x[k] = s[k]
  OBVIOUS
<1>2. s # <<>> => 1 \in 1..l
  OBVIOUS
<1>3. Len(x) # 0 /\ Len(<<>>) = 0
  <2> HIDE DEF x, l
  <2> QED BY <1>1
<1>4. s # <<>> => x[1] = s[1]
  <2> HIDE DEF x, l
  <2> QED BY <1>1, <1>2
<1> HIDE DEF x
<1>5. x # <<>>
  BY <1>3
<1> QED BY <1>4, <1>5 DEF x

\* A line that is collected.
LEMMA CollectKeeps ==
  ASSUME NEW doc \in Seq(MarkdownLines), NEW heads, NEW st \in Parsers, NEW t \in Parsers,
         NEW n \in DOMAIN doc, NEW lo \in Nat, Collected(doc, heads, st, lo, n - 1), Collects(doc, st, t, n),
         n \in heads <=> Level(doc[n]) > 0 /\ st.mode = "prose"
  PROVE  Collected(doc, heads, t, lo, n)
<1>0. n \in Nat /\ st.current \in Seq(Nat) /\ n - 1 = lo + Len(st.current) /\ Len(st.current) \in Nat
  BY DEF Collected, Gathers
<1>1. t.current = Append(st.current, n) /\ t.out = st.out /\ t.mode = st.mode
  BY DEF Collects
<1>2. Gathers(t.current, lo, n)
  BY <1>0, <1>1, OneLineMore DEF Collected
<1>3. CutUpTo(doc, heads, t.out, lo)
  BY <1>1 DEF Collected
<1>4. t.current # <<>>
  BY <1>0, <1>1
<1>5. n \notin heads
  BY <1>0, LevelIs DEF Collects
<1>6. Level(doc[n]) > 0 => st.mode # "prose"
  BY DEF Collects
<1>7. \A m \in (lo + 1)..n : m = n \/ m \in (lo + 1)..(n - 1)
  BY <1>0
<1>8. \A m \in (lo + 1)..n : Level(doc[m]) > 0 => (t.mode # "prose" <=> m \notin heads)
  BY <1>1, <1>5, <1>6, <1>7 DEF Collected
<1>9. \A m \in (lo + 2)..n : m \notin heads
  <2>1. \A m \in (lo + 2)..n : m = n \/ m \in (lo + 2)..(n - 1)
    BY <1>0
  <2> QED BY <1>5, <2>1 DEF Collected
<1> QED BY <1>2, <1>3, <1>4, <1>8, <1>9 DEF Collected

\* A line that a collection starts with.
LEMMA StartKeeps ==
  ASSUME NEW doc \in Seq(MarkdownLines), NEW heads, NEW st \in Parsers, NEW t \in Parsers,
         NEW n \in DOMAIN doc, NEW lo \in Nat, Collected(doc, heads, st, lo, n - 1), Starts(doc, st, t, n),
         n \in heads <=> Level(doc[n]) > 0 /\ st.mode = "prose"
  PROVE  Collected(doc, heads, t, n - 1, n)
<1>0. n \in Nat /\ n - 1 \in Nat /\ t.out \in Seq(Pieces)
  BY DEF Parsers
<1>1. Gathers(t.current, n - 1, n) /\ t.current # <<>>
  <2> DEFINE x == <<n>>
  <2>1. x \in Seq(Nat) /\ Len(x) = 1 /\ x[1] = n /\ DOMAIN x = {1} /\ x # <<>>
    BY <1>0
  <2>2. t.current = x
    BY DEF Starts
  <2> HIDE DEF x
  <2>3. n = (n - 1) + Len(x) /\ \A k \in DOMAIN x : x[k] = (n - 1) + k
    BY <1>0, <2>1
  <2> QED BY <2>1, <2>2, <2>3 DEF Gathers
<1>2. CutUpTo(doc, heads, t.out, n - 1)
  <2>1. PICK what \in {"prose", "table"} : Emitted(doc, st, st.current, what, t.out)
    BY DEF Starts
  <2>2. \A m \in (lo + 1)..(n - 1) : Level(doc[m]) > 0 => (what \in {"code", "front"} <=> m \notin heads)
    BY DEF Collected, Starts
  <2>3. Gathers(st.current, lo, n - 1) /\ CutUpTo(doc, heads, st.out, lo)
    BY DEF Collected
  <2> QED BY <1>0, <2>1, <2>2, <2>3, CutsFurther
<1>3. Level(doc[n]) > 0 => (t.mode # "prose" <=> n \notin heads)
  BY DEF Starts
<1>4. \A m \in (n - 1 + 1)..n : m = n
  BY <1>0
<1>5. \A m \in (n - 1 + 2)..n : FALSE
  BY <1>0
<1> QED BY <1>1, <1>2, <1>3, <1>4, <1>5 DEF Collected

\* A line that ends code or front matter.
LEMMA EndKeeps ==
  ASSUME NEW doc \in Seq(MarkdownLines), NEW heads, NEW st \in Parsers, NEW t \in Parsers,
         NEW n \in DOMAIN doc, NEW lo \in Nat, Collected(doc, heads, st, lo, n - 1), Ends(doc, st, t, n),
         n \in heads <=> Level(doc[n]) > 0 /\ st.mode = "prose"
  PROVE  Collected(doc, heads, t, n, n)
<1>0. n \in Nat /\ n - 1 \in Nat /\ t.out \in Seq(Pieces)
  BY DEF Parsers
<1>1. Gathers(t.current, n, n) /\ t.mode = "prose"
  <2> DEFINE x == <<>>
  <2>1. x \in Seq(Nat) /\ Len(x) = 0 /\ DOMAIN x = 1..0
    OBVIOUS
  <2>2. t.current = x
    BY DEF Ends
  <2> HIDE DEF x
  <2> QED BY <1>0, <2>1, <2>2 DEF Gathers, Ends
<1>2. CutUpTo(doc, heads, t.out, n)
  <2> DEFINE x == Append(st.current, n)
  <2>1. PICK what \in {"code", "front"} : Emitted(doc, st, x, what, t.out)
    BY DEF Ends
  <2>2. \A m \in (lo + 1)..n : m = n \/ m \in (lo + 1)..(n - 1)
    BY <1>0
  <2>3. \A m \in (lo + 1)..n : Level(doc[m]) > 0 => (what \in {"code", "front"} <=> m \notin heads)
    BY <2>2 DEF Collected, Ends
  <2>4. CutUpTo(doc, heads, st.out, lo)
    BY DEF Collected
  <2>5. Gathers(x, lo, n)
    BY <1>0, OneLineMore DEF Collected
  <2> HIDE DEF x
  <2> QED BY <1>0, <2>1, <2>3, <2>4, <2>5, CutsFurther
<1>3. \A m \in (n + 1)..n : FALSE
  BY <1>0
<1>4. \A m \in (n + 2)..n : FALSE
  BY <1>0
<1> QED BY <1>1, <1>2, <1>3, <1>4 DEF Collected

\* A blank line that nothing is collected before.
LEMMA SkipKeeps ==
  ASSUME NEW doc \in Seq(MarkdownLines), NEW heads, NEW st \in Parsers, NEW t \in Parsers,
         NEW n \in DOMAIN doc, NEW lo \in Nat, Collected(doc, heads, st, lo, n - 1), Skips(doc, st, t, n)
  PROVE  Collected(doc, heads, t, n, n)
<1>0. n \in Nat /\ n - 1 \in Nat /\ t.out \in Seq(Pieces)
  BY DEF Parsers
<1>1. Gathers(t.current, n, n) /\ t.mode = "prose"
  <2> DEFINE x == <<>>
  <2>1. x \in Seq(Nat) /\ Len(x) = 0 /\ DOMAIN x = 1..0
    OBVIOUS
  <2>2. t.current = x
    BY DEF Skips
  <2> HIDE DEF x
  <2> QED BY <1>0, <2>1, <2>2 DEF Gathers, Skips
<1>2. CutUpTo(doc, heads, t.out, n - 1)
  <2>1. PICK what \in {"prose", "table"} : Emitted(doc, st, st.current, what, t.out)
    BY DEF Skips
  <2>2. \A m \in (lo + 1)..(n - 1) : Level(doc[m]) > 0 => (what \in {"code", "front"} <=> m \notin heads)
    BY DEF Collected, Skips
  <2>3. Gathers(st.current, lo, n - 1) /\ CutUpTo(doc, heads, st.out, lo)
    BY DEF Collected
  <2> QED BY <1>0, <2>1, <2>2, <2>3, CutsFurther
<1>3. CutUpTo(doc, heads, t.out, n)
  <2>1. \A i \in DOMAIN t.out : LastLine(t.out[i]) <= n
    <3>1. ASSUME NEW i \in DOMAIN t.out PROVE LastLine(t.out[i]) <= n
      <4>1. t.out[i] \in Pieces /\ Run(t.out[i]) /\ LastLine(t.out[i]) <= n - 1
        BY <1>0, <1>2 DEF CutUpTo
      <4>2. LastLine(t.out[i]) \in Nat
        BY <4>1, RunEnds
      <4> QED BY <1>0, <4>1, <4>2
    <3> QED BY <3>1
  <2>2. \A m \in 1..n : doc[m] # "blank" => m \in 1..(n - 1)
    BY <1>0 DEF Skips
  <2> QED BY <1>2, <2>1, <2>2 DEF CutUpTo
<1>4. \A m \in (n + 1)..n : FALSE
  BY <1>0
<1>5. \A m \in (n + 2)..n : FALSE
  BY <1>0
<1> QED BY <1>1, <1>3, <1>4, <1>5 DEF Collected

\* Each way of taking a line.
LEMMA LineKeeps ==
  ASSUME NEW doc \in Seq(MarkdownLines), NEW heads, NEW st \in Parsers, NEW t \in Parsers,
         NEW n \in DOMAIN doc, \E lo \in Nat : Collected(doc, heads, st, lo, n - 1), Takes(doc, st, t, n),
         n \in heads <=> Level(doc[n]) > 0 /\ st.mode = "prose"
  PROVE  \E lo \in Nat : Collected(doc, heads, t, lo, n)
<1>1. PICK lo \in Nat : Collected(doc, heads, st, lo, n - 1)
  OBVIOUS
<1>2. n \in Nat /\ n - 1 \in Nat
  OBVIOUS
<1>3. CASE Collects(doc, st, t, n)
  BY <1>1, <1>3, CollectKeeps
<1>4. CASE Starts(doc, st, t, n)
  BY <1>1, <1>2, <1>4, StartKeeps
<1>5. CASE Ends(doc, st, t, n)
  BY <1>1, <1>2, <1>5, EndKeeps
<1>6. CASE Skips(doc, st, t, n)
  BY <1>1, <1>2, <1>6, SkipKeeps
<1> QED BY <1>3, <1>4, <1>5, <1>6 DEF Takes

\* Where nothing ends a table but what should, a table is a run of rows, and what
\* is collected starts where it says.
Placing(doc, st, n) ==
  /\ st.inTable => st.mode = "prose" /\ st.current # <<>> /\ n \in DOMAIN doc /\ doc[n] = "row"
  /\ st.current # <<>> => st.start = st.current[1]
  /\ Placed(st.out)

\* A line keeps the places.
LEMMA LinePlaces ==
  ASSUME NEW doc \in Seq(MarkdownLines), NEW st \in Parsers, NEW t \in Parsers, NEW n \in DOMAIN doc,
         st.mode # "prose" => st.current # <<>>, Closed(doc), Placing(doc, st, n - 1), Takes(doc, st, t, n)
  PROVE  Placing(doc, t, n)
<1>0. st.current \in Seq(Nat) /\ t.out \in Seq(Pieces) /\ n \in Nat
  BY DEF Parsers
<1>1. st.inTable => doc[n] \in {"row", "text", "blank"}
  <2>1. CASE st.inTable
    <3>1. n - 1 \in 1..(Len(doc) - 1) /\ doc[n - 1] = "row"
      BY <2>1 DEF Placing
    <3>2. doc[(n - 1) + 1] \in {"row", "text", "blank"}
      BY <3>1 DEF Closed
    <3> QED BY <1>0, <3>2
  <2> QED BY <2>1
<1>2. CASE Collects(doc, st, t, n)
  <2>1. st.current # <<>>
    BY <1>2 DEF Collects, Placing
  <2>2. t.current = Append(st.current, n) /\ t.start = st.start /\ t.out = st.out
    BY <1>2 DEF Collects
  <2>3. t.current # <<>> /\ t.current[1] = st.current[1]
    BY <1>0, <2>1, <2>2, SameFirst
  <2>4. t.inTable => t.mode = "prose" /\ doc[n] = "row"
    BY <1>2 DEF Collects, Placing
  <2> QED BY <2>1, <2>2, <2>3, <2>4 DEF Placing
<1>3. CASE Starts(doc, st, t, n)
  <2>1. t.current = <<n>> /\ t.start = n
    BY <1>3 DEF Starts
  <2>2. t.current # <<>> /\ t.start = t.current[1]
    BY <2>1
  <2>3. t.inTable => t.mode = "prose" /\ doc[n] = "row"
    BY <1>1, <1>3 DEF Starts
  <2>4. Placed(t.out)
    <3>1. PICK what : Emitted(doc, st, st.current, what, t.out)
      BY <1>3 DEF Starts
    <3> QED BY <1>0, <3>1, PlacesFurther DEF Placing
  <2> QED BY <2>2, <2>3, <2>4 DEF Placing
<1>4. CASE Ends(doc, st, t, n)
  <2> DEFINE x == Append(st.current, n)
  <2>1. st.current # <<>> /\ ~t.inTable /\ t.current = <<>>
    BY <1>4 DEF Ends, Placing
  <2>2. x # <<>> => st.start = x[1]
    <3>1. x[1] = st.current[1]
      BY <1>0, <2>1, SameFirst
    <3> QED BY <2>1, <3>1 DEF Placing
  <2>3. PICK what : Emitted(doc, st, x, what, t.out)
    BY <1>4 DEF Ends
  <2> HIDE DEF x
  <2>4. Placed(t.out)
    BY <1>0, <2>2, <2>3, PlacesFurther DEF Placing
  <2> QED BY <2>1, <2>4 DEF Placing
<1>5. CASE Skips(doc, st, t, n)
  <2>1. ~t.inTable /\ t.current = <<>>
    BY <1>5 DEF Skips
  <2>2. PICK what : Emitted(doc, st, st.current, what, t.out)
    BY <1>5 DEF Skips
  <2>3. Placed(t.out)
    BY <1>0, <2>2, PlacesFurther DEF Placing
  <2> QED BY <2>1, <2>3 DEF Placing
<1> QED BY <1>2, <1>3, <1>4, <1>5 DEF Takes

\* Where no level is skipped, the stack is the chain of headings above the line.
Nesting(doc, heads, st, n) ==
  /\ Stacked(doc, heads, st.stack) /\ Scope(st.stack) = Above(doc, heads, n)
  /\ Scoped(doc, heads, st.out)

\* The headings above the first line collected are those above the last.
LEMMA ScopeOfLines ==
  ASSUME NEW doc, NEW heads \in SUBSET Nat, NEW lo \in Nat, NEW hi \in Nat, NEW lines, NEW stack,
         Gathers(lines, lo, hi), lines # <<>>, \A m \in (lo + 2)..hi : m \notin heads,
         Scope(stack) = Above(doc, heads, hi)
  PROVE  Scope(stack) = Above(doc, heads, lines[1])
<1>1. lines \in Seq(Nat) /\ Len(lines) \in Nat /\ Len(lines) > 0 /\ DOMAIN lines = 1..Len(lines)
  BY DEF Gathers
<1>2. lines[1] = lo + 1 /\ lo + 1 <= hi
  BY <1>1 DEF Gathers
<1>3. Above(doc, heads, lo + 1) = Above(doc, heads, hi)
  <2>1. \A m \in ((lo + 1) + 1)..hi : m \notin heads
    OBVIOUS
  <2> QED BY <1>2, <2>1, AboveSame
<1> QED BY <1>2, <1>3

\* A line keeps the stack and the scopes.
LEMMA LineNests ==
  ASSUME NEW doc \in Seq(MarkdownLines), NEW heads \in SUBSET (DOMAIN doc), NEW st \in Parsers, NEW t \in Parsers,
         NEW n \in DOMAIN doc, NEW lo \in Nat, Collected(doc, heads, st, lo, n - 1), Regular(doc, heads),
         Nesting(doc, heads, st, n - 1), Takes(doc, st, t, n),
         n \in heads <=> Level(doc[n]) > 0 /\ st.mode = "prose"
  PROVE  Nesting(doc, heads, t, n)
<1>0. /\ st.current \in Seq(Nat) /\ t.out \in Seq(Pieces) /\ n \in Nat /\ n - 1 \in Nat /\ heads \in SUBSET Nat
      /\ st.stack \in Seq(Nat)
  BY DEF Parsers
<1>1. n \notin heads => Scope(st.stack) = Above(doc, heads, n)
  <2>1. ASSUME n \notin heads PROVE Above(doc, heads, n - 1) = Above(doc, heads, n)
    <3>1. \A m \in ((n - 1) + 1)..n : m \notin heads
      BY <1>0, <2>1
    <3> QED BY <1>0, <3>1, AboveSame
  <2> QED BY <2>1 DEF Nesting
<1>2. ASSUME NEW what, Emitted(doc, st, st.current, what, t.out) PROVE Scoped(doc, heads, t.out)
  <2>1. ASSUME st.current # <<>> PROVE Scope(st.stack) = Above(doc, heads, st.current[1])
    <3>1. Gathers(st.current, lo, n - 1) /\ \A m \in (lo + 2)..(n - 1) : m \notin heads
      BY DEF Collected
    <3>2. Scope(st.stack) = Above(doc, heads, n - 1)
      BY DEF Nesting
    <3> DEFINE x == st.current
               stack == st.stack
    <3>3. x # <<>>
      BY <2>1
    <3> HIDE DEF x, stack
    <3>4. Gathers(x, lo, n - 1) /\ Scope(stack) = Above(doc, heads, n - 1)
      BY <3>1, <3>2 DEF x, stack
    <3>5. Scope(stack) = Above(doc, heads, x[1])
      BY <1>0, <3>1, <3>3, <3>4, ScopeOfLines
    <3> QED BY <3>5 DEF x, stack
  <2>2. Scoped(doc, heads, st.out)
    BY DEF Nesting
  <2> QED BY <1>0, <1>2, <2>1, <2>2, ScopesFurther
<1>3. CASE Collects(doc, st, t, n)
  <2>1. n \notin heads
    BY <1>0, <1>3, LevelIs DEF Collects
  <2>2. t.out = st.out /\ t.stack = st.stack
    BY <1>3 DEF Collects
  <2> QED BY <1>1, <2>1, <2>2 DEF Nesting
<1>4. CASE Starts(doc, st, t, n)
  <2>1. Scoped(doc, heads, t.out)
    BY <1>2, <1>4 DEF Starts
  <2>2. CASE Level(doc[n]) > 0
    <3>1. n \in heads /\ t.stack = UpdateStack(st.stack, Level(doc[n]), n)
      BY <1>4, <2>2 DEF Starts
    <3>2. Level(doc[n]) <= Cardinality(Above(doc, heads, n))
      BY <3>1 DEF Regular
    <3>3. Stacked(doc, heads, st.stack) /\ Scope(st.stack) = Above(doc, heads, n - 1)
      BY DEF Nesting
    <3>4. Stacked(doc, heads, t.stack) /\ Scope(t.stack) = Above(doc, heads, n)
      BY <1>0, <2>2, <3>1, <3>2, <3>3, StackUpdated
    <3> QED BY <2>1, <3>4 DEF Nesting
  <2>3. CASE ~(Level(doc[n]) > 0)
    <3>1. t.stack = st.stack
      BY <1>4, <2>3 DEF Starts
    <3> QED BY <1>1, <2>1, <2>3, <3>1 DEF Nesting
  <2> QED BY <2>2, <2>3
<1>5. CASE Ends(doc, st, t, n)
  <2> DEFINE x == Append(st.current, n)
  <2>1. n \notin heads /\ t.stack = st.stack
    BY <1>5 DEF Ends
  <2>2. PICK what : Emitted(doc, st, x, what, t.out)
    BY <1>5 DEF Ends
  <2>3. Gathers(x, lo, n) /\ x # <<>>
    BY <1>0, OneLineMore, SameFirst DEF Collected
  <2>4. \A m \in (lo + 2)..n : m \notin heads
    <3>1. \A m \in (lo + 2)..n : m = n \/ m \in (lo + 2)..(n - 1)
      BY <1>0
    <3> QED BY <2>1, <3>1 DEF Collected
  <2> HIDE DEF x
  <2>5. Scope(st.stack) = Above(doc, heads, x[1])
    BY <1>0, <1>1, <2>1, <2>3, <2>4, ScopeOfLines
  <2>6. Scoped(doc, heads, st.out)
    BY DEF Nesting
  <2>7. Scoped(doc, heads, t.out)
    BY <1>0, <2>2, <2>5, <2>6, ScopesFurther
  <2> QED BY <1>1, <2>1, <2>7 DEF Nesting
<1>6. CASE Skips(doc, st, t, n)
  <2>1. Scoped(doc, heads, t.out) /\ t.stack = st.stack
    BY <1>2, <1>6 DEF Skips
  <2>2. n \notin heads
    BY <1>6 DEF Skips, Level
  <2> QED BY <1>1, <2>1, <2>2 DEF Nesting
<1> QED BY <1>3, <1>4, <1>5, <1>6 DEF Takes

\* The lines the parser takes for headings: those it meets outside code and
\* front matter.
HeadingLines(doc) ==
  {m \in DOMAIN doc : Level(doc[m]) > 0 /\ Parsed(doc)[m - 1].mode = "prose"}

ParsedWell(doc, n) ==
  LET st == Parsed(doc)[n]
      heads == HeadingLines(doc)
  IN  /\ \E lo \in Nat : Collected(doc, heads, st, lo, n)
      /\ Closed(doc) => Placing(doc, st, n)
      /\ Regular(doc, heads) => Nesting(doc, heads, st, n)

\* Before the first line.
LEMMA NothingParsed ==
  ASSUME NEW doc \in Seq(MarkdownLines) PROVE ParsedWell(doc, 0)
<1> DEFINE heads == HeadingLines(doc)
           e == <<>>
<1>0. e = <<>> /\ e \in Seq(Nat) /\ Len(e) = 0 /\ DOMAIN e = {}
  OBVIOUS
<1>1. heads \in SUBSET (DOMAIN doc)
  BY DEF HeadingLines
<1> HIDE DEF heads, e
<1>2. Parsed(doc)[0] = NewState
  BY ParsedDef
<1>3. /\ NewState.current = e /\ NewState.out = e /\ NewState.mode = "prose" /\ ~NewState.inTable
      /\ NewState.stack = e
  BY <1>0 DEF NewState
<1>4. Collected(doc, heads, NewState, 0, 0)
  <2>1. Gathers(e, 0, 0)
    BY <1>0 DEF Gathers
  <2>2. CutUpTo(doc, heads, e, 0)
    BY <1>0 DEF CutUpTo
  <2> QED BY <1>3, <2>1, <2>2 DEF Collected
<1>5. Placing(doc, NewState, 0)
  BY <1>0, <1>3 DEF Placing, Placed
<1>6. Nesting(doc, heads, NewState, 0)
  <2>1. Above(doc, heads, 0) = {}
    BY <1>1 DEF Above
  <2>2. Scope(e) = {} /\ Stacked(doc, heads, e) /\ Scoped(doc, heads, e)
    BY <1>0 DEF Scope, Stacked, Scoped
  <2> QED BY <1>3, <2>1, <2>2 DEF Nesting
<1> QED BY <1>2, <1>4, <1>5, <1>6 DEF ParsedWell, heads

\* A line more.
LEMMA OneLineParsed ==
  ASSUME NEW doc \in Seq(MarkdownLines), NEW n \in DOMAIN doc, ParsedWell(doc, n - 1)
  PROVE  ParsedWell(doc, n)
<1> DEFINE heads == HeadingLines(doc)
           st == Parsed(doc)[n - 1]
           t == Parsed(doc)[n]
<1>0. n \in Nat /\ n \in 0..Len(doc) /\ n - 1 \in 0..Len(doc) /\ n # 0
  OBVIOUS
<1>1. heads \in SUBSET (DOMAIN doc) /\ (n \in heads <=> Level(doc[n]) > 0 /\ st.mode = "prose")
  BY DEF HeadingLines
<1>2. st \in Parsers /\ t = FeedLine(st, doc, n) /\ (n = 1 => st = NewState)
  BY <1>0, ParsedDef
<1>3. PICK lo \in Nat : Collected(doc, heads, st, lo, n - 1)
  BY DEF ParsedWell
<1>4. Closed(doc) => Placing(doc, st, n - 1)
  BY DEF ParsedWell
<1>5. Regular(doc, heads) => Nesting(doc, heads, st, n - 1)
  BY DEF ParsedWell
<1> HIDE DEF heads, st, t
<1>6. t \in Parsers /\ Takes(doc, st, t, n)
  BY <1>2, LineTakes DEF Takes1
<1>7. \E l \in Nat : Collected(doc, heads, t, l, n)
  BY <1>1, <1>2, <1>3, <1>6, LineKeeps
<1>8. Closed(doc) => Placing(doc, t, n)
  <2>1. st.mode # "prose" => st.current # <<>>
    BY <1>3 DEF Collected
  <2> QED BY <1>2, <1>4, <1>6, <2>1, LinePlaces
<1>9. Regular(doc, heads) => Nesting(doc, heads, t, n)
  BY <1>1, <1>2, <1>3, <1>5, <1>6, LineNests
<1> QED BY <1>7, <1>8, <1>9 DEF ParsedWell, heads, t

\* The whole document.
LEMMA AllParsed ==
  ASSUME NEW doc \in Seq(MarkdownLines) PROVE ParsedWell(doc, Len(doc))
<1> DEFINE G == {n \in 0..Len(doc) : ParsedWell(doc, n)}
           N == Len(doc)
<1>0. N \in Nat
  OBVIOUS
<1>1. 0 \in G
  BY <1>0, NothingParsed
<1>2. ASSUME NEW n \in 0..(N - 1), n \in G PROVE n + 1 \in G
  <2>1. n + 1 \in DOMAIN doc /\ n + 1 \in 0..N /\ ParsedWell(doc, (n + 1) - 1)
    BY <1>0, <1>2
  <2>2. ParsedWell(doc, n + 1)
    BY <2>1, OneLineParsed
  <2> QED BY <2>1, <2>2
<1>3. 0..N \subseteq G
  <2> HIDE DEF G, N
  <2> QED BY <1>0, <1>1, <1>2, UpwardInduction
<1>4. N \in 0..N
  BY <1>0
<1> QED BY <1>3, <1>4

\* In segments that hold the lines the headings are the ones the parser saw.
LEMMA HeadingsAreLines ==
  ASSUME NEW doc \in Seq(MarkdownLines), NEW segs, CutUpTo(doc, HeadingLines(doc), segs, Len(doc))
  PROVE  Headings(doc, segs) = HeadingLines(doc)
<1>1. ASSUME NEW n \in DOMAIN doc, Level(doc[n]) > 0
      PROVE  n \in HeadingLines(doc)
             <=> \A i \in DOMAIN segs : segs[i].kind \in {"code", "front"} => n \notin LinesIn(segs[i])
  <2>1. doc[n] # "blank" /\ n \in 1..Len(doc)
    BY <1>1 DEF Level
  <2>2. PICK i \in DOMAIN segs : n \in LinesIn(segs[i])
    BY <2>1 DEF CutUpTo
  <2>3. \A j \in DOMAIN segs :
          n \in LinesIn(segs[j]) => (segs[j].kind \in {"code", "front"} <=> n \notin HeadingLines(doc))
    BY <1>1 DEF CutUpTo
  <2> QED BY <2>2, <2>3
<1> QED BY <1>1 DEF Headings, HeadingLines

\* The segments of a document of any length: every line that is not blank is in
\* exactly one, at its place, under the headings above it (markdown.go
\* parseMarkdownSegments).
THEOREM CutDocuments ==
  ASSUME NEW doc \in Seq(MarkdownLines)
  PROVE  LET segs == Segments(doc)
             headings == Headings(doc, segs)
         IN  /\ Partition(doc, segs)
             /\ Closed(doc) => \A i \in DOMAIN segs : segs[i].start = FirstLine(segs[i])
             /\ Regular(doc, headings) =>
                  \A i \in DOMAIN segs :
                    {segs[i].scope[k] : k \in DOMAIN segs[i].scope} = Above(doc, headings, FirstLine(segs[i]))
<1> DEFINE N == Len(doc)
           heads == HeadingLines(doc)
           st == Parsed(doc)[N]
           f == FlushAll(st, doc)
           segs == Segments(doc)
<1>0. N \in Nat /\ N \in 0..N /\ DOMAIN doc = 1..N
  OBVIOUS
<1>1. heads \in SUBSET (DOMAIN doc) /\ heads \in SUBSET Nat
  BY DEF HeadingLines
<1>2. st \in Parsers
  BY <1>0, ParsedDef
<1>3. PICK lo \in Nat : Collected(doc, heads, st, lo, N)
  BY AllParsed DEF ParsedWell
<1>4. (Closed(doc) => Placing(doc, st, N)) /\ (Regular(doc, heads) => Nesting(doc, heads, st, N))
  BY AllParsed DEF ParsedWell
<1>5. segs = f.out
  BY DEF Segments
<1> HIDE DEF heads, st, N
<1>6. PICK what : Flushed(doc, st, what, f) /\ (what \in {"code", "front"} <=> st.mode # "prose")
  BY <1>2, FlushAllIs
<1> HIDE DEF f, segs
<1>7. segs \in Seq(Pieces) /\ Emitted(doc, st, st.current, what, segs)
  BY <1>5, <1>6 DEF Flushed, Parsers
<1>8. Gathers(st.current, lo, N) /\ CutUpTo(doc, heads, st.out, lo)
  BY <1>3 DEF Collected
<1>9. CutUpTo(doc, heads, segs, N)
  <2>1. \A m \in (lo + 1)..N : Level(doc[m]) > 0 => (what \in {"code", "front"} <=> m \notin heads)
    BY <1>3, <1>6 DEF Collected
  <2> QED BY <1>0, <1>2, <1>7, <1>8, <2>1, CutsFurther
<1>10. Partition(doc, segs)
  BY <1>0, <1>9 DEF Partition, CutUpTo, Run
<1>11. Closed(doc) => Placed(segs)
  BY <1>2, <1>4, <1>7, PlacesFurther DEF Placing
<1>12. Headings(doc, segs) = heads
  BY <1>9, HeadingsAreLines DEF heads, N
<1>13. Regular(doc, heads) => Scoped(doc, heads, segs)
  <2> SUFFICES ASSUME Regular(doc, heads) PROVE Scoped(doc, heads, segs)
    OBVIOUS
  <2> DEFINE x == st.current
             stack == st.stack
  <2>1. Scope(stack) = Above(doc, heads, N) /\ Scoped(doc, heads, st.out)
    BY <1>4 DEF Nesting
  <2>2. \A m \in (lo + 2)..N : m \notin heads
    BY <1>3 DEF Collected
  <2>3. Gathers(x, lo, N)
    BY <1>8
  <2>4. Emitted(doc, st, x, what, segs)
    BY <1>7
  <2>5. x # <<>> => Scope(stack) = Above(doc, heads, x[1])
    <3> HIDE DEF x, stack
    <3> QED BY <1>0, <1>1, <2>1, <2>2, <2>3, ScopeOfLines
  <2> HIDE DEF x
  <2> QED BY <1>2, <1>7, <2>1, <2>4, <2>5, ScopesFurther
<1>14. Closed(doc) => \A i \in DOMAIN segs : segs[i].start = FirstLine(segs[i])
  BY <1>11 DEF Placed
<1>15. Regular(doc, Headings(doc, segs)) =>
         \A i \in DOMAIN segs :
           {segs[i].scope[k] : k \in DOMAIN segs[i].scope} = Above(doc, Headings(doc, segs), FirstLine(segs[i]))
  BY <1>12, <1>13 DEF Scoped, Scope
<1> QED BY <1>10, <1>14, <1>15 DEF segs

\* What segments promise, of every input.
LEMMA TypedSegments == TypeOK => SegmentsPartitionAndScope
<1> SUFFICES ASSUME TypeOK, kind = "markdown" PROVE SegmentsPartitionAndScope
  BY DEF SegmentsPartitionAndScope
<1>1. data \in Seq(MarkdownLines)
  BY DEF TypeOK
<1> QED BY <1>1, CutDocuments DEF SegmentsPartitionAndScope

\* The segments of markdown documents of any length partition their lines, and a
\* segment's scope is the chain of headings above it (markdown.go).
THEOREM MarkdownSafety ==
  Spec => []SegmentsPartitionAndScope
BY TypeInvariant, TypedSegments, PTL

---------------------------------------------------------------------------
(* Search.                                                                 *)

\* The matching documents among the first n, one at a time.
LEMMA MatchingDef ==
  ASSUME NEW docs \in Seq(Documents)
  PROVE  /\ Matching(docs) \in [(0..Len(docs)) -> Seq(Documents)]
         /\ \A n \in (0..Len(docs)) :
              Matching(docs)[n] = IF n = 0 THEN <<>> ELSE IF docs[n].match THEN Append(Matching(docs)[n - 1], docs[n]) ELSE Matching(docs)[n - 1]
<1> DEFINE D == (0..Len(docs))
           V == Seq(Documents)
           N == Len(docs)
           m == [n \in D |-> n]
           B(f) == [n \in D |-> IF n = 0 THEN <<>> ELSE IF docs[n].match THEN Append(f[n - 1], docs[n]) ELSE f[n - 1]]
           F == [f \in [D -> V] |-> B(f)]
<1>1. V # {} /\ N \in Nat /\ m \in [D -> 0..N]
  OBVIOUS
<1>2. ASSUME NEW f \in [D -> V] PROVE B(f) \in [D -> V]
  <2>1. ASSUME NEW n \in D PROVE B(f)[n] \in V
    <3>1. CASE n = 0
      BY <3>1
    <3>2. CASE n # 0
      <4>1. n - 1 \in D /\ n \in 1..Len(docs)
        BY <3>2
      <4>2. docs[n] \in Documents
        BY <4>1
      <4> HIDE DEF Documents
      <4> QED BY <3>2, <4>1, <4>2
    <3> QED BY <3>1, <3>2
  <2> QED BY <2>1
<1>3. ASSUME NEW f, NEW g, NEW x \in D, \A y \in D : m[y] < m[x] => f[y] = g[y]
      PROVE  B(f)[x] = B(g)[x]
  BY <1>3
<1>4. F \in [[D -> V] -> [D -> V]] /\ \A f \in [D -> V] : F[f] = B(f)
  BY <1>2
<1>5. Contracts(F, D, V, N, m)
  <2>1. ASSUME NEW f \in [D -> V], NEW g \in [D -> V], NEW x \in D,
               \A y \in D : m[y] < m[x] => f[y] = g[y]
        PROVE  F[f][x] = F[g][x]
    <3> HIDE DEF D, V, N, m, B, F
    <3>1. B(f)[x] = B(g)[x]
      BY <1>3, <2>1
    <3> QED BY <1>4, <3>1
  <2> HIDE DEF D, V, N, m, B, F
  <2> QED BY <1>1, <1>4, <2>1 DEF Contracts
<1>6. Matching(docs) = B(Matching(docs))
  <2>1. \E f \in [D -> V] : f = B(f)
    <3> HIDE DEF D, V, N, m, B, F
    <3> QED BY <1>4, <1>5, FixedPoint
  <2>2. Matching(docs) = CHOOSE g : g = B(g)
    BY DEF Matching
  <2> HIDE DEF B
  <2> QED BY <2>1, <2>2, Zenon
<1>7. Matching(docs) \in [D -> V]
  <2> DEFINE g == Matching(docs)
  <2>1. g = B(g)
    BY <1>6
  <2> HIDE DEF g
  <2>2. g = [x \in D |-> g[x]]
    BY <2>1
  <2> HIDE DEF D, V, N, m, B, F
  <2>3. ASSUME NEW f \in [D -> V], NEW x \in D, \A y \in D : m[y] < m[x] => g[y] = f[y]
        PROVE  g[x] = F[f][x]
    <3>1. B(g)[x] = B(f)[x]
      BY <1>3, <2>3
    <3> QED BY <1>4, <2>1, <3>1
  <2>4. g \in [D -> V]
    BY <1>5, <2>2, <2>3, OnlyFixedPoint
  <2> QED BY <2>4 DEF g
<1> QED BY <1>6, <1>7

\* The second sequence goes on where the first ends.
FrontOf(s, t) == Len(s) <= Len(t) /\ \A i \in 1..Len(s) : t[i] = s[i]

\* The front of a sequence.
LEMMA ForemostTyped ==
  ASSUME NEW S, NEW s \in Seq(S), NEW n \in Nat
  PROVE  /\ Foremost(s, n) \in Seq(S)
         /\ Len(Foremost(s, n)) = Clamp(n, 0, Len(s))
         /\ \A i \in 1..Clamp(n, 0, Len(s)) : i \in 1..Len(s) /\ Foremost(s, n)[i] = s[i]
<1>1. Len(s) \in Nat /\ s \in [1..Len(s) -> S]
  OBVIOUS
<1> DEFINE c == Clamp(n, 0, Len(s))
<1>2. c \in 0..Len(s) /\ c \in Nat
  BY <1>1 DEF Clamp
<1> HIDE DEF c
<1>3. /\ SubSeq(s, 1, c) \in Seq(S) /\ Len(SubSeq(s, 1, c)) = c
      /\ \A i \in 1..c : SubSeq(s, 1, c)[i] = s[i]
  BY <1>1, <1>2
<1>4. \A i \in 1..c : i \in 1..Len(s)
  BY <1>1, <1>2
<1> QED BY <1>3, <1>4 DEF Foremost, c

\* Two sequences that begin alike have the same front.
LEMMA ForemostOfFront ==
  ASSUME NEW S, NEW s \in Seq(S), NEW t \in Seq(S), FrontOf(s, t), NEW n \in Nat, Len(s) >= n
  PROVE  Foremost(s, n) = Foremost(t, n)
<1>1. Len(s) \in Nat /\ Len(t) \in Nat /\ Len(s) <= Len(t)
  BY DEF FrontOf
<1>2. Clamp(n, 0, Len(s)) = n /\ Clamp(n, 0, Len(t)) = n
  BY <1>1 DEF Clamp
<1> DEFINE p == Foremost(s, n)
           q == Foremost(t, n)
<1>3. /\ p \in Seq(S) /\ Len(p) = n /\ \A i \in 1..n : p[i] = s[i]
      /\ q \in Seq(S) /\ Len(q) = n /\ \A i \in 1..n : q[i] = t[i]
  BY <1>2, ForemostTyped
<1>4. \A i \in 1..n : t[i] = s[i]
  BY <1>1 DEF FrontOf
<1> HIDE DEF p, q
<1>5. \A i \in 1..n : p[i] = q[i]
  BY <1>3, <1>4
<1> QED BY <1>3, <1>5, SeqEqual DEF p, q

\* They still do when the longer one grows.
LEMMA FrontGrows ==
  ASSUME NEW S, NEW s \in Seq(S), NEW t \in Seq(S), FrontOf(s, t), NEW d \in S
  PROVE  FrontOf(s, Append(t, d))
<1> DEFINE u == Append(t, d)
<1>1. /\ Len(s) \in Nat /\ Len(t) \in Nat /\ Len(u) = Len(t) + 1
      /\ \A i \in 1..Len(t) : u[i] = t[i]
  OBVIOUS
<1>2. Len(s) <= Len(t) /\ \A i \in 1..Len(s) : t[i] = s[i]
  BY DEF FrontOf
<1> HIDE DEF u
<1>3. \A i \in 1..Len(s) : i \in 1..Len(t)
  BY <1>1, <1>2
<1>4. FrontOf(s, u)
  BY <1>1, <1>2, <1>3 DEF FrontOf
<1> QED BY <1>4 DEF u

\* What matches among the first documents is the front of what matches in all.
LEMMA MatchingGrows ==
  ASSUME NEW docs \in Seq(Documents), NEW q \in 0..Len(docs)
  PROVE  FrontOf(Matching(docs)[q], Matching(docs)[Len(docs)])
<1> DEFINE N == Len(docs)
           M == Matching(docs)
           S == Seq(Documents)
           G == {n \in 0..(N - q) : FrontOf(M[q], M[q + n])}
<1>1. N \in Nat /\ q \in Nat /\ N - q \in Nat /\ q + (N - q) = N /\ q + 0 = q
  OBVIOUS
<1>2. /\ M \in [0..N -> S]
      /\ \A n \in 0..N : M[n] = IF n = 0 THEN <<>>
                                 ELSE IF docs[n].match THEN Append(M[n - 1], docs[n]) ELSE M[n - 1]
  BY MatchingDef
<1>3. \A n \in 1..N : docs[n] \in Documents
  <2> HIDE DEF N
  <2> QED BY ElementOfSeq DEF N
<1> HIDE DEF M
<1>4. M[q] \in S
  BY <1>2
<1>5. 0 \in G
  BY <1>1, <1>4 DEF FrontOf
<1>6. ASSUME NEW n \in 0..((N - q) - 1), n \in G PROVE n + 1 \in G
  <2> DEFINE k == q + n + 1
  <2>1. /\ k \in 1..N /\ k \in 0..N /\ k # 0 /\ k - 1 = q + n /\ q + n \in 0..N
        /\ n + 1 \in 0..(N - q) /\ q + (n + 1) = k
    BY <1>1
  <2>2. FrontOf(M[q], M[q + n])
    BY <1>6
  <2> HIDE DEF k, N
  <2>3. M[k] = IF docs[k].match THEN Append(M[q + n], docs[k]) ELSE M[q + n]
    BY <1>2, <2>1
  <2>4. docs[k] \in Documents /\ M[q + n] \in Seq(Documents)
    BY <1>2, <1>3, <2>1
  <2> HIDE DEF Documents
  <2>5. FrontOf(M[q], Append(M[q + n], docs[k]))
    BY <1>4, <2>2, <2>4, FrontGrows
  <2>6. FrontOf(M[q], M[k])
    BY <2>2, <2>3, <2>5
  <2> QED BY <2>1, <2>6
<1>7. 0..(N - q) \subseteq G
  <2> HIDE DEF G, N
  <2> QED BY <1>1, <1>5, <1>6, UpwardInduction
<1>8. N - q \in 0..(N - q)
  BY <1>1
<1>9. FrontOf(M[q], M[q + (N - q)])
  BY <1>7, <1>8
<1> QED BY <1>1, <1>9 DEF M

\* A round of searchWithGlobExpansion.
ExpandStep(docs, topK, from, queryTopK) ==
  LET hits == Foremost(Matching(docs)[queryTopK], topK)
      next == NextTopK(queryTopK, Len(docs))
  IN  IF Len(hits) >= topK \/ queryTopK >= Len(docs) \/ next = 0 THEN hits ELSE from[next]

\* nextGlobTopK grows and stays in the collection.
LEMMA NextWithin ==
  ASSUME NEW n \in Nat, NEW q \in 1..n
  PROVE  /\ NextTopK(q, n) \in 1..n
         /\ q < n => NextTopK(q, n) > q
BY DEF NextTopK, Clamp

\* The loop of searchWithGlobExpansion.
LEMMA ExpandDef ==
  ASSUME NEW docs \in Seq(Documents), NEW topK \in Nat
  PROVE  /\ Expand(docs, topK) \in [(1..Len(docs)) -> Seq(Documents)]
         /\ \A q \in (1..Len(docs)) :
              Expand(docs, topK)[q] = ExpandStep(docs, topK, Expand(docs, topK), q)
<1> DEFINE D == (1..Len(docs))
           V == Seq(Documents)
           N == Len(docs)
           m == [q \in D |-> Len(docs) - q]
           B(f) == [q \in D |-> ExpandStep(docs, topK, f, q)]
           F == [f \in [D -> V] |-> B(f)]
<1>1. V # {} /\ N \in Nat /\ m \in [D -> 0..N]
  OBVIOUS
<1>2. ASSUME NEW f \in [D -> V] PROVE B(f) \in [D -> V]
  <2>1. ASSUME NEW q \in D PROVE B(f)[q] \in V
    <3>1. Len(docs) \in Nat /\ q \in 0..Len(docs)
      OBVIOUS
    <3>2. NextTopK(q, Len(docs)) \in D
      BY <3>1, NextWithin
    <3>3. Matching(docs)[q] \in V
      BY <3>1, MatchingDef
    <3>4. Foremost(Matching(docs)[q], topK) \in V
      BY <3>3, ForemostTyped
    <3> HIDE DEF D, V
    <3> QED BY <3>2, <3>4 DEF ExpandStep
  <2> HIDE DEF V
  <2> QED BY <2>1
<1>3. ASSUME NEW f, NEW g, NEW x \in D, \A y \in D : m[y] < m[x] => f[y] = g[y]
      PROVE  B(f)[x] = B(g)[x]
  <2>1. CASE x < Len(docs)
    <3>1. NextTopK(x, Len(docs)) \in D /\ m[NextTopK(x, Len(docs))] < m[x]
      <4>1. Len(docs) \in Nat /\ x \in 1..Len(docs)
        OBVIOUS
      <4>2. NextTopK(x, Len(docs)) \in 1..Len(docs) /\ NextTopK(x, Len(docs)) > x
        BY <2>1, <4>1, NextWithin
      <4> QED BY <4>1, <4>2
    <3> HIDE DEF m
    <3>2. f[NextTopK(x, Len(docs))] = g[NextTopK(x, Len(docs))]
      BY <1>3, <3>1
    <3> QED BY <3>2 DEF ExpandStep
  <2>2. CASE ~(x < Len(docs))
    <3>1. x >= Len(docs)
      BY <2>2
    <3> QED BY <3>1 DEF ExpandStep
  <2> QED BY <2>1, <2>2
<1>4. F \in [[D -> V] -> [D -> V]] /\ \A f \in [D -> V] : F[f] = B(f)
  BY <1>2
<1>5. Contracts(F, D, V, N, m)
  <2>1. ASSUME NEW f \in [D -> V], NEW g \in [D -> V], NEW x \in D,
               \A y \in D : m[y] < m[x] => f[y] = g[y]
        PROVE  F[f][x] = F[g][x]
    <3> HIDE DEF D, V, N, m, B, F
    <3>1. B(f)[x] = B(g)[x]
      BY <1>3, <2>1
    <3> QED BY <1>4, <3>1
  <2> HIDE DEF D, V, N, m, B, F
  <2> QED BY <1>1, <1>4, <2>1 DEF Contracts
<1>6. Expand(docs, topK) = B(Expand(docs, topK))
  <2>1. \E f \in [D -> V] : f = B(f)
    <3> HIDE DEF D, V, N, m, B, F
    <3> QED BY <1>4, <1>5, FixedPoint
  <2>2. Expand(docs, topK) = CHOOSE g : g = B(g)
    BY DEF Expand, ExpandStep
  <2> HIDE DEF B
  <2> QED BY <2>1, <2>2, Zenon
<1>7. Expand(docs, topK) \in [D -> V]
  <2> DEFINE g == Expand(docs, topK)
  <2>1. g = B(g)
    BY <1>6
  <2> HIDE DEF g
  <2>2. g = [x \in D |-> g[x]]
    BY <2>1
  <2> HIDE DEF D, V, N, m, B, F
  <2>3. ASSUME NEW f \in [D -> V], NEW x \in D, \A y \in D : m[y] < m[x] => g[y] = f[y]
        PROVE  g[x] = F[f][x]
    <3>1. B(g)[x] = B(f)[x]
      BY <1>3, <2>3
    <3> QED BY <1>4, <2>1, <3>1
  <2>4. g \in [D -> V]
    BY <1>5, <2>2, <2>3, OnlyFixedPoint
  <2> QED BY <2>4 DEF g
<1> QED BY <1>6, <1>7

\* From any start, the expansion ends with the front of all that matches.
LEMMA ExpansionSeesAll ==
  ASSUME NEW docs \in Seq(Documents), NEW topK \in Nat, NEW start \in 1..Len(docs)
  PROVE  Expand(docs, topK)[start] = Foremost(Matching(docs)[Len(docs)], topK)
<1> DEFINE N == Len(docs)
           D == 1..N
           M == Matching(docs)
           E == Expand(docs, topK)
           m == [q \in D |-> N - q]
           G == {q \in D : E[q] = Foremost(M[N], topK)}
<1>1. N \in Nat /\ m \in [D -> Nat] /\ D \subseteq 0..N /\ N \in 0..N
  OBVIOUS
<1>2. \A q \in D : E[q] = ExpandStep(docs, topK, E, q)
  BY ExpandDef
<1>3. \A q \in 0..N : M[q] \in Seq(Documents)
  BY MatchingDef
<1>4. \A q \in 0..N : FrontOf(M[q], M[N])
  BY MatchingGrows
<1> HIDE DEF E
<1>5. ASSUME NEW q \in D, \A k \in D : m[k] < m[q] => k \in G PROVE q \in G
  <2> DEFINE hits == Foremost(M[q], topK)
             next == NextTopK(q, N)
  <2>1. E[q] = IF Len(hits) >= topK \/ q >= N \/ next = 0 THEN hits ELSE E[next]
    BY <1>2 DEF ExpandStep
  <2>2. M[q] \in Seq(Documents) /\ M[N] \in Seq(Documents) /\ FrontOf(M[q], M[N])
    <3> HIDE DEF M
    <3> QED BY <1>1, <1>3, <1>4
  <2>3. CASE Len(hits) >= topK
    <3> HIDE DEF Documents, M
    <3>1. Len(M[q]) \in Nat
      BY <2>2
    <3>2. Len(hits) = Clamp(topK, 0, Len(M[q]))
      BY <2>2, ForemostTyped
    <3>3. Len(M[q]) >= topK
      BY <2>3, <3>1, <3>2 DEF Clamp
    <3>4. hits = Foremost(M[N], topK)
      BY <2>2, <3>3, ForemostOfFront
    <3> QED BY <2>1, <2>3, <3>4
  <2>4. CASE q >= N
    <3>1. q = N
      BY <1>1, <2>4
    <3> QED BY <2>1, <2>4, <3>1
  <2>5. CASE ~(Len(hits) >= topK) /\ ~(q >= N)
    <3>1. q < N /\ q \in 1..N
      BY <1>1, <2>5
    <3>2. next \in 1..N /\ next > q
      BY <1>1, <3>1, NextWithin
    <3>3. m[next] < m[q] /\ next # 0
      BY <1>1, <3>1, <3>2
    <3> HIDE DEF next, m, hits
    <3>4. E[next] = Foremost(M[N], topK)
      BY <1>5, <3>2, <3>3
    <3> QED BY <2>1, <2>5, <3>3, <3>4
  <2> QED BY <2>3, <2>4, <2>5
<1>6. D \subseteq G
  <2> HIDE DEF D, G, m
  <2> QED BY <1>1, <1>5, MeasureInduction
<1>7. start \in D
  OBVIOUS
<1> QED BY <1>6, <1>7 DEF E

\* The answer of the collection to a request with a glob.
THEOREM GlobbedHits ==
  ASSUME NEW docs \in Seq(Documents), NEW topK \in Nat
  PROVE  /\ Search(docs, topK, TRUE) = Foremost(Matching(docs)[Len(docs)], topK)
         /\ Search(docs, topK, TRUE) \in Seq(Documents)
<1> DEFINE N == Len(docs)
<1>1. N \in Nat
  OBVIOUS
<1>2. Matching(docs)[N] \in Seq(Documents)
  BY <1>1, MatchingDef
<1>5. Foremost(Matching(docs)[N], topK) \in Seq(Documents)
  <2> HIDE DEF Documents, N
  <2> QED BY <1>2, ForemostTyped
<1>3. CASE docs = <<>>
  <2>1. Matching(docs)[N] = <<>>
    <3>1. N = 0 /\ 0 \in 0..N
      BY <1>3
    <3>2. \A n \in 0..N : n = 0 => Matching(docs)[n] = <<>>
      BY MatchingDef
    <3> HIDE DEF N
    <3> QED BY <3>1, <3>2
  <2>2. Search(docs, topK, TRUE) = <<>>
    BY <1>3 DEF Search
  <2>3. Foremost(<<>>, topK) = <<>>
    <3>1. <<>> \in Seq(Documents) /\ Len(<<>>) = 0
      OBVIOUS
    <3>2. Clamp(topK, 0, 0) = 0
      BY DEF Clamp
    <3> DEFINE none == Foremost(<<>>, topK)
    <3>3. none \in Seq(Documents) /\ Len(none) = 0
      <4> HIDE DEF Documents
      <4>1. none \in Seq(Documents) /\ Len(none) = Clamp(topK, 0, Len(<<>>))
        BY <3>1, ForemostTyped
      <4> QED BY <3>1, <3>2, <4>1
    <3> HIDE DEF Documents, none
    <3>4. none = <<>>
      BY <3>3
    <3> QED BY <3>4 DEF none
  <2> QED BY <1>5, <2>1, <2>2, <2>3
<1>4. CASE docs # <<>>
  <2>1. N >= 1
    BY <1>4
  <2>2. StartTopK(topK, N) \in 1..N
    BY <1>1, <2>1 DEF StartTopK, Clamp
  <2>3. Search(docs, topK, TRUE) = Expand(docs, topK)[StartTopK(topK, N)]
    BY <1>4 DEF Search
  <2> QED BY <1>5, <2>2, <2>3, ExpansionSeesAll
<1> QED BY <1>3, <1>4

---------------------------------------------------------------------------
(* The second ranking.                                                     *)

\* The hits that come before another, and their number, its place.
Earlier(hits, j) == {i \in DOMAIN hits : Before(hits, i, j)}

\* The order of rerankSearchHits is total, and follows the adjusted distances.
LEMMA BeforeIsAnOrder ==
  ASSUME NEW hits \in Seq(Documents), NEW i \in DOMAIN hits, NEW j \in DOMAIN hits, NEW k \in DOMAIN hits
  PROVE  /\ Before(hits, j, j)
         /\ Before(hits, i, j) \/ Before(hits, j, i)
         /\ Before(hits, i, j) /\ Before(hits, j, k) => Before(hits, i, k)
         /\ Before(hits, i, j) /\ Before(hits, j, i) => i = j
         /\ Before(hits, i, j) => Adjusted(hits[i]) <= Adjusted(hits[j])
<1>1. \A n \in DOMAIN hits : n \in Int /\ Adjusted(hits[n]) \in Int
  <2> TAKE n \in DOMAIN hits
  <2>1. n \in Int /\ hits[n] \in Documents
    <3> HIDE DEF Documents
    <3> QED OBVIOUS
  <2>2. hits[n].distance \in Nat /\ hits[n].boost \in Boosts
    BY <2>1 DEF Documents
  <2>3. hits[n].boost \in Int
    BY <2>2, InputsAssumption
  <2> QED BY <2>1, <2>2, <2>3 DEF Adjusted
<1> QED BY <1>1 DEF Before

\* There are n numbers from 1 to n.
LEMMA FirstNumbers ==
  ASSUME NEW n \in Nat
  PROVE  IsFiniteSet(1..n) /\ Cardinality(1..n) = n
<1>1. IsFiniteSet(1..n) /\ Cardinality(1..n) = IF 1 > n THEN 0 ELSE n - 1 + 1
  BY FS_Interval
<1>2. (IF 1 > n THEN 0 ELSE n - 1 + 1) = n
  OBVIOUS
<1> QED BY <1>1, <1>2

\* A hit that comes before another has a lower place.
LEMMA PlacesDiffer ==
  ASSUME NEW hits \in Seq(Documents), NEW i \in DOMAIN hits, NEW j \in DOMAIN hits
  PROVE  /\ Place(hits, j) \in 1..Len(hits)
         /\ i # j /\ Before(hits, i, j) => Place(hits, i) < Place(hits, j)
<1> DEFINE N == Len(hits)
<1>1. N \in Nat /\ DOMAIN hits = 1..N
  OBVIOUS
<1>2. IsFiniteSet(1..N) /\ Cardinality(1..N) = N
  BY <1>1, FirstNumbers
<1>3. \A k \in DOMAIN hits : IsFiniteSet(Earlier(hits, k)) /\ Cardinality(Earlier(hits, k)) \in Nat
  <2> TAKE k \in DOMAIN hits
  <2>1. Earlier(hits, k) \in SUBSET (1..N)
    BY <1>1 DEF Earlier
  <2>2. IsFiniteSet(Earlier(hits, k))
    BY <1>2, <2>1, FS_Subset
  <2> QED BY <2>2, FS_CardinalityType
<1>4. Place(hits, j) \in 1..N
  <2>1. Earlier(hits, j) \in SUBSET (1..N) /\ j \in Earlier(hits, j)
    BY <1>1, BeforeIsAnOrder DEF Earlier
  <2>2. Cardinality(Earlier(hits, j)) <= N
    BY <1>2, <2>1, FS_Subset
  <2>3. Cardinality(Earlier(hits, j)) # 0
    <3> DEFINE E == Earlier(hits, j)
    <3>1. IsFiniteSet(E) /\ E # {}
      BY <1>3, <2>1
    <3> HIDE DEF E
    <3>2. Cardinality(E) # 0
      BY <3>1, FS_EmptySet
    <3> QED BY <3>2 DEF E
  <2>4. Place(hits, j) = Cardinality(Earlier(hits, j))
    BY DEF Place, Earlier
  <2> QED BY <1>1, <1>3, <2>2, <2>3, <2>4
<1>5. ASSUME i # j, Before(hits, i, j) PROVE Place(hits, i) < Place(hits, j)
  <2>1. Earlier(hits, i) \in SUBSET Earlier(hits, j)
    BY <1>5, BeforeIsAnOrder DEF Earlier
  <2>2. j \in Earlier(hits, j) /\ j \notin Earlier(hits, i)
    BY <1>5, BeforeIsAnOrder DEF Earlier
  <2>3. /\ Cardinality(Earlier(hits, i)) <= Cardinality(Earlier(hits, j))
        /\ Cardinality(Earlier(hits, j)) # Cardinality(Earlier(hits, i))
    BY <1>3, <2>1, <2>2, FS_Subset
  <2>4. Cardinality(Earlier(hits, i)) < Cardinality(Earlier(hits, j))
    BY <1>3, <2>3
  <2> QED BY <2>4 DEF Place, Earlier
<1> QED BY <1>4, <1>5

\* Places are taken by one hit each.
LEMMA EveryPlaceTaken ==
  ASSUME NEW hits \in Seq(Documents), NEW p \in DOMAIN hits
  PROVE  \E j \in DOMAIN hits : Place(hits, j) = p
<1> DEFINE N == Len(hits)
           T == (1..N) \ {p}
           f == [j \in 1..N |-> Place(hits, j)]
<1>1. N \in Nat /\ DOMAIN hits = 1..N
  OBVIOUS
<1> SUFFICES ASSUME \A j \in 1..N : Place(hits, j) # p PROVE FALSE
  BY <1>1
<1>2. IsFiniteSet(1..N) /\ Cardinality(1..N) = N
  BY <1>1, FirstNumbers
<1>3. IsFiniteSet(T) /\ Cardinality(T) = N - 1
  <2>1. p \in 1..N
    BY <1>1
  <2> HIDE DEF N
  <2> QED BY <1>2, <2>1, FS_RemoveElement
<1>4. \A j \in 1..N : Place(hits, j) \in 1..N
  BY <1>1, PlacesDiffer
<1>5. f \in [1..N -> T]
  BY <1>4
<1>6. Cardinality(T) < Cardinality(1..N)
  BY <1>1, <1>2, <1>3
<1>7. PICK i \in 1..N, j \in 1..N : i # j /\ f[i] = f[j]
  <2> HIDE DEF T, f, N
  <2> QED BY <1>2, <1>3, <1>5, <1>6, FS_PigeonHole
<1>8. Place(hits, i) = Place(hits, j)
  BY <1>7
<1>9. Place(hits, i) \in 1..N /\ Place(hits, j) \in 1..N
  BY <1>4
<1>10. Place(hits, i) < Place(hits, j) \/ Place(hits, j) < Place(hits, i)
  BY <1>1, <1>7, BeforeIsAnOrder, PlacesDiffer
<1> QED BY <1>8, <1>9, <1>10

\* rerankSearchHits keeps the hits and sorts them.
LEMMA RerankSorts ==
  ASSUME NEW hits \in Seq(Documents)
  PROVE  /\ Rerank(hits) \in Seq(Documents) /\ Len(Rerank(hits)) = Len(hits)
         /\ \A p \in DOMAIN hits : AmongFirst(hits, Len(hits), Rerank(hits)[p])
         /\ \A p, j \in DOMAIN hits :
              ~AmongFirst(Rerank(hits), p - 1, hits[j]) => Adjusted(Rerank(hits)[p]) <= Adjusted(hits[j])
<1> DEFINE N == Len(hits)
           at(p) == CHOOSE j \in DOMAIN hits : Place(hits, j) = p
           r == Rerank(hits)
<1>1. N \in Nat /\ DOMAIN hits = 1..N /\ \A j \in 1..N : hits[j] \in Documents
  BY ElementOfSeq
<1>2. \A p \in 1..N : at(p) \in 1..N /\ Place(hits, at(p)) = p
  BY <1>1, EveryPlaceTaken
<1>3. r = [p \in 1..N |-> hits[at(p)]]
  BY <1>1 DEF Rerank
<1> HIDE DEF at, r
<1>4. \A p \in 1..N : r[p] = hits[at(p)]
  BY <1>3
<1>5. r \in Seq(Documents) /\ Len(r) = N
  <2> HIDE DEF N, Documents
  <2>1. r \in [1..N -> Documents]
    BY <1>1, <1>2, <1>3
  <2> QED BY <1>1, <2>1
<1>6. ASSUME NEW p \in 1..N PROVE AmongFirst(hits, N, r[p])
  BY <1>2, <1>4 DEF AmongFirst
<1>7. ASSUME NEW p \in 1..N, NEW j \in 1..N, ~AmongFirst(r, p - 1, hits[j])
      PROVE  Adjusted(r[p]) <= Adjusted(hits[j])
  <2> DEFINE q == Place(hits, j)
  <2>1. q \in 1..N
    BY <1>1, PlacesDiffer
  <2>2. at(q) = j
    <3>1. at(q) \in 1..N /\ Place(hits, at(q)) = q
      BY <1>2, <2>1
    <3>2. at(q) # j => Place(hits, at(q)) < q \/ q < Place(hits, at(q))
      BY <1>1, <3>1, BeforeIsAnOrder, PlacesDiffer
    <3> QED BY <2>1, <3>1, <3>2
  <2>3. r[q] = hits[j]
    BY <1>4, <2>1, <2>2
  <2>4. q \notin 1..(p - 1)
    BY <1>7, <2>3 DEF AmongFirst
  <2>5. p <= q
    BY <1>1, <2>1, <2>4
  <2>6. Before(hits, at(p), j)
    <3>1. at(p) \in 1..N /\ Place(hits, at(p)) = p
      BY <1>2
    <3>2. CASE at(p) = j
      BY <1>1, <3>2, BeforeIsAnOrder
    <3>3. CASE at(p) # j
      <4>1. Before(hits, j, at(p)) => q < p
        BY <1>1, <3>1, <3>3, PlacesDiffer
      <4>2. ~(q < p)
        BY <1>1, <2>1, <2>5
      <4> QED BY <1>1, <3>1, <4>1, <4>2, BeforeIsAnOrder
    <3> QED BY <3>2, <3>3
  <2> QED BY <1>1, <1>2, <1>4, <2>6, BeforeIsAnOrder
<1> QED BY <1>1, <1>5, <1>6, <1>7 DEF r

\* A path filter over a collection of any size answers as if it had been applied
\* to the whole of it (collection.go searchWithGlobExpansion), and the second
\* ranking and the cut keep the best (search_rerank.go, phase1.go).
THEOREM FilteredAnswer ==
  ASSUME NEW docs \in Seq(Documents), NEW topK \in Nat, NEW limit \in Nat
  PROVE  LET hits == Search(docs, topK, TRUE)
             answer == Answer(docs, limit, topK, TRUE)
         IN  /\ hits = Foremost(Matching(docs)[Len(docs)], topK)
             /\ Len(answer) = Clamp(Len(hits), 0, limit)
             /\ \A i \in DOMAIN answer : AmongFirst(hits, Len(hits), answer[i])
             /\ \A i \in DOMAIN answer, j \in DOMAIN hits :
                  ~AmongFirst(answer, i - 1, hits[j]) => Adjusted(answer[i]) <= Adjusted(hits[j])
<1> DEFINE hits == Search(docs, topK, TRUE)
           N == Len(hits)
           r == Rerank(hits)
           c == Clamp(limit, 0, N)
           answer == Answer(docs, limit, topK, TRUE)
<1>1. hits = Foremost(Matching(docs)[Len(docs)], topK) /\ hits \in Seq(Documents)
  BY GlobbedHits
<1>2. answer = Foremost(r, limit)
  BY DEF Answer
<1> HIDE DEF hits, answer
<1>3. N \in Nat /\ DOMAIN hits = 1..N
  BY <1>1
<1>4. /\ r \in Seq(Documents) /\ Len(r) = N
      /\ \A p \in 1..N : AmongFirst(hits, N, r[p])
      /\ \A p, j \in 1..N : ~AmongFirst(r, p - 1, hits[j]) => Adjusted(r[p]) <= Adjusted(hits[j])
  BY <1>1, <1>3, RerankSorts
<1> HIDE DEF r
<1>5. /\ answer \in Seq(Documents) /\ Len(answer) = c
      /\ \A i \in 1..c : i \in 1..N /\ answer[i] = r[i]
  <2> HIDE DEF Documents, N
  <2> QED BY <1>2, <1>4, ForemostTyped
<1>6. c = Clamp(N, 0, limit) /\ c \in Nat
  BY <1>3 DEF Clamp
<1>7. DOMAIN answer = 1..c
  BY <1>5
<1> HIDE DEF c, N
<1>8. ASSUME NEW i \in 1..c, NEW j \in 1..N, ~AmongFirst(answer, i - 1, hits[j])
      PROVE  Adjusted(answer[i]) <= Adjusted(hits[j])
  <2>1. \A k \in 1..(i - 1) : k \in 1..c
    BY <1>6
  <2>2. ~AmongFirst(r, i - 1, hits[j])
    BY <1>5, <1>8, <2>1 DEF AmongFirst
  <2> QED BY <1>4, <1>5, <2>2
<1>9. \A i \in 1..c : AmongFirst(hits, N, answer[i])
  BY <1>4, <1>5
<1> QED BY <1>1, <1>3, <1>5, <1>6, <1>7, <1>8, <1>9 DEF hits, N, answer

\* What a search promises, of every input.
LEMMA TypedFilter == TypeOK => FilterSeesWholeCollection
<1> SUFFICES ASSUME kind = "collection", data \in Seq(Documents), NEW topK \in Limits, NEW limit \in Limits
             PROVE  LET hits == Search(data, topK, TRUE)
                        answer == Answer(data, limit, topK, TRUE)
                    IN  /\ hits = Foremost(Matching(data)[Len(data)], topK)
                        /\ Len(answer) = Clamp(Len(hits), 0, limit)
                        /\ \A i \in DOMAIN answer : AmongFirst(hits, Len(hits), answer[i])
                        /\ \A i \in DOMAIN answer, j \in DOMAIN hits :
                             ~AmongFirst(answer, i - 1, hits[j]) => Adjusted(answer[i]) <= Adjusted(hits[j])
  BY DEF TypeOK, FilterSeesWholeCollection
<1>1. topK \in Nat /\ limit \in Nat
  BY InputsAssumption
<1> QED BY <1>1, FilteredAnswer

\* The answer under a path filter is that of the whole collection, for collections
\* and limits of any size (collection.go, search_rerank.go).
THEOREM FilterSafety ==
  Spec => []FilterSeesWholeCollection
BY TypeInvariant, TypedFilter, PTL

---------------------------------------------------------------------------
(* Settings.                                                               *)

\* Of three texts, the second is the last to be looked at if it is given.
LEMMA SecondGiven ==
  ASSUME NEW a, NEW b, NEW c, Given(b)
  PROVE  FirstGiven(<<a, b, c>>) = IF Given(a) THEN a ELSE b
<1> DEFINE texts == <<a, b, c>>
           given == {i \in DOMAIN texts : Given(texts[i])}
<1>1. DOMAIN texts = 1..3 /\ texts[1] = a /\ texts[2] = b /\ texts[3] = c
  OBVIOUS
<1> HIDE DEF texts
<1>2. 2 \in given /\ given \subseteq 1..3 /\ (1 \in given <=> Given(a))
  BY <1>1
<1>3. FirstGiven(texts) = texts[Min(given)]
  BY <1>2 DEF FirstGiven
<1>4. Min(given) = CHOOSE x \in given : \A y \in given : x <= y
  BY DEF Min
<1> HIDE DEF given
<1>5. CASE Given(a)
  <2>1. 1 \in given /\ \A y \in given : 1 <= y
    BY <1>2, <1>5
  <2>2. \A x \in given : (\A y \in given : x <= y) => x = 1
    BY <1>2, <2>1
  <2>3. Min(given) = 1
    BY <1>4, <2>1, <2>2
  <2> QED BY <1>1, <1>3, <1>5, <2>3 DEF texts
<1>6. CASE ~Given(a)
  <2>1. 2 \in given /\ \A y \in given : 2 <= y
    BY <1>2, <1>6
  <2>2. \A x \in given : (\A y \in given : x <= y) => x = 2
    BY <1>2, <2>1
  <2>3. Min(given) = 2
    BY <1>4, <2>1, <2>2
  <2> QED BY <1>1, <1>3, <1>6, <2>3 DEF texts
<1> QED BY <1>5, <1>6

\* Two worlds that agree on a layer.
Agree(v, w) ==
  /\ v.mode = w.mode /\ v.kind = w.kind /\ v.key = w.key /\ v.yaml = w.yaml
  /\ v.opts = w.opts /\ v.project = w.project

\* Outside a process of its own, a setting is made of the configuration, the
\* options, the project and the .env files where secrets are looked up.
LEMMA SharedProcess ==
  ASSUME NEW v, NEW w, Agree(v, w), w.mode # "process", w.kind \in Kinds,
         SecretFiles(v) = SecretFiles(w)
  PROVE  Load(v) = Load(w)
<1> USE DEF Agree
<1>1. ~UsesProcessEnv(v) /\ ~UsesProcessEnv(w)
  BY DEF UsesProcessEnv
<1>2. LookupSecret(v) = LookupSecret(w)
  BY <1>1 DEF LookupSecret
<1>3. FromYaml(v) = FromYaml(w) /\ FromEnv(v) = FromYaml(v) /\ FromEnv(w) = FromYaml(w)
  BY <1>1 DEF FromYaml, FromEnv
<1>4. Rejected(v) = Rejected(w)
  BY DEF Rejected
<1>5. Number(v) = Number(w)
  BY <1>3, <1>4 DEF Number
<1>6. ApiKey(v) = ApiKey(w)
  BY <1>2 DEF ApiKey
<1>7. Token(v) = Token(w)
  BY <1>1, <1>2 DEF Token
<1>8. Address(v) = Address(w)
  BY <1>1 DEF Address
<1>9. AutoIndex(v) = AutoIndex(w)
  BY <1>1 DEF AutoIndex
<1>10. Containment(v) = Containment(w) /\ Contained(v) = Contained(w)
  BY <1>1 DEF Containment, Contained
<1>11. Paths(v) = Paths(w)
  BY <1>10 DEF Paths
<1> QED BY <1>5, <1>6, <1>7, <1>8, <1>9, <1>11 DEF Load

\* In a process of its own, what its environment gives is what counts.
LEMMA OwnProcess ==
  ASSUME NEW v, NEW w, Agree(v, w), v.env = w.env, w.mode = "process", Given(w.env),
         w.kind \in Kinds, w.kind # "key"
  PROVE  Load(v) = Load(w)
<1> USE DEF Agree
<1>1. UsesProcessEnv(v) /\ UsesProcessEnv(w)
  BY DEF UsesProcessEnv
<1>2. Environment(v) = w.env /\ Environment(w) = w.env
  BY DEF Environment
<1>3. FromYaml(v) = FromYaml(w)
  BY DEF FromYaml
<1>4. FromEnv(v) = FromEnv(w)
  BY <1>1, <1>2, <1>3 DEF FromEnv
<1>5. Number(v) = Number(w)
  BY <1>4 DEF Number
<1>6. Token(v) = Token(w)
  BY <1>1, SecondGiven DEF Token
<1>7. Address(v) = Address(w)
  BY <1>1, <1>2 DEF Address
<1>8. AutoIndex(v) = AutoIndex(w)
  BY <1>1, <1>2 DEF AutoIndex
<1>9. Containment(v) = Containment(w) /\ Contained(v) = Contained(w)
  BY <1>1, <1>2 DEF Containment, Contained
<1>10. Paths(v) = Paths(w)
  BY <1>9 DEF Paths
<1> QED BY <1>5, <1>6, <1>7, <1>8, <1>10 DEF Load, Kinds

\* What settings promise, of every input.
LEMMA TypedSettings == TypeOK => SettingsAreIsolated
<1> SUFFICES ASSUME kind = "setting", data \in Worlds, NEW text \in Texts
             PROVE  LET same(world) == Load(world) = Load(data)
                    IN  /\ data.mode # "process" => same([data EXCEPT !.env = text])
                        /\ data.mode = "collection" => same([data EXCEPT !.workspace = text])
                        /\ data.mode = "process" /\ Given(data.env) /\ data.kind # "key" =>
                             same([data EXCEPT !.beside = text, !.workspace = text, !.envPath = text])
  BY DEF TypeOK, SettingsAreIsolated
<1>1. data.kind \in Kinds
  BY DEF Worlds
<1>2. ASSUME data.mode # "process" PROVE Load([data EXCEPT !.env = text]) = Load(data)
  <2> DEFINE v == [data EXCEPT !.env = text]
  <2>1. Agree(v, data) /\ v.beside = data.beside /\ v.workspace = data.workspace /\ v.envPath = data.envPath
    BY DEF Worlds, Agree
  <2>2. SecretFiles(v) = SecretFiles(data)
    BY <2>1 DEF SecretFiles, Agree
  <2> QED BY <1>1, <1>2, <2>1, <2>2, SharedProcess
<1>3. ASSUME data.mode = "collection" PROVE Load([data EXCEPT !.workspace = text]) = Load(data)
  <2> DEFINE v == [data EXCEPT !.workspace = text]
  <2>1. Agree(v, data) /\ v.beside = data.beside /\ v.envPath = data.envPath
    BY DEF Worlds, Agree
  <2>2. SecretFiles(v) = SecretFiles(data)
    BY <1>3, <2>1 DEF SecretFiles, Agree
  <2> QED BY <1>1, <1>3, <2>1, <2>2, SharedProcess
<1>4. ASSUME data.mode = "process", Given(data.env), data.kind # "key"
      PROVE  Load([data EXCEPT !.beside = text, !.workspace = text, !.envPath = text]) = Load(data)
  <2> DEFINE v == [data EXCEPT !.beside = text, !.workspace = text, !.envPath = text]
  <2>1. Agree(v, data) /\ v.env = data.env
    BY DEF Worlds, Agree
  <2> QED BY <1>1, <1>4, <2>1, OwnProcess
<1> QED BY <1>2, <1>3, <1>4

\* Settings are isolated whatever the layers say (options.go LoadForCollection,
\* dotenv.go).
THEOREM SettingSafety ==
  Spec => []SettingsAreIsolated
BY TypeInvariant, TypedSettings, PTL
=============================================================================
