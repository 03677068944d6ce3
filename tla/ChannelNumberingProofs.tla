----------------------- MODULE ChannelNumberingProofs -----------------------
(* Proofs about the numbers of the channels.                                   *)
(*                                                                             *)
(* The first part is about the layout algorithms of ChannelNumbers, for any    *)
(* channels, events, leagues, settings and numbers in use: whatever they place *)
(* gets a number of its own that nobody holds, and they place everybody unless *)
(* they say that the range ran out.  The loops are recursive functions over    *)
(* the positions of a sequence.  What holds after every position is shown by   *)
(* induction on a set of positions, which the least element of its complement  *)
(* gives.                                                                      *)
(*                                                                             *)
(* The second part is about what the numbers keep from generation to           *)
(* generation, for any orders, settings and foreign numbers.                   *)
EXTENDS Directories, FiniteSetTheorems, WellFoundedInduction, TLAPS

-----------------------------------------------------------------------------
(* Natural numbers and loops *)

\* A set of natural numbers has a least element.
LEMMA LeastElement ==
    ASSUME NEW S, S \subseteq Nat, S # {}
    PROVE  \E m \in S : \A k \in S : m <= k
<1>1. PICK m \in S : \A k \in S : ~(<<k, m>> \in OpToRel(<, Nat))
  BY WFMin, NatLessThanWellFounded
<1>2. \A k \in S : ~(k < m)
  BY <1>1 DEF OpToRel
<1>3. QED
  BY <1>2

\* What holds at 0, and at the next position wherever it holds, holds up to n.
LEMMA UpTo ==
    ASSUME NEW n \in Nat, NEW S, 0 \in S,
           \A k \in 0..(n - 1) : k \in S => k + 1 \in S
    PROVE  \A i \in 0..n : i \in S
<1> DEFINE R == (0..n) \ S
<1> SUFFICES ASSUME R # {} PROVE FALSE
  OBVIOUS
<1>1. PICK m \in R : \A k \in R : m <= k
  <2>1. R \subseteq Nat
    OBVIOUS
  <2> HIDE DEF R
  <2>2. QED
    BY <2>1, LeastElement
<1>2. m # 0 /\ m - 1 \in 0..(n - 1)
  BY <1>1
<1>3. m - 1 \in S
  BY <1>1, <1>2
<1>4. QED
  BY <1>1, <1>2, <1>3

\* What a loop has done after every position, when it does G[i] at position i.
Runs(A, n, base, G) ==
    {f \in [0..n -> A] : f[0] = base /\ \A i \in 1..n : f[i] = G[i][f[i - 1]]}

\* A loop that stays within a set A has a result after every position.
LEMMA RunExists ==
    ASSUME NEW A, NEW n \in Nat, NEW base \in A, NEW G \in [1..n -> [A -> A]]
    PROVE  Runs(A, n, base, G) # {}
<1> DEFINE Good(f, k) ==
             f[0] = base /\ \A i \in 1..n : i <= k => f[i] = G[i][f[i - 1]]
           S == {k \in 0..n : \E f \in [0..n -> A] : Good(f, k)}
<1>1. 0 \in S
  <2>1. Good([i \in 0..n |-> base], 0)
    OBVIOUS
  <2>2. QED
    BY <2>1
<1>2. ASSUME NEW k \in 0..(n - 1), k \in S
      PROVE  k + 1 \in S
  <2>1. PICK f \in [0..n -> A] : Good(f, k)
    BY <1>2
  <2> DEFINE g == [f EXCEPT ![k + 1] = G[k + 1][f[k]]]
  <2>2. g \in [0..n -> A]
    OBVIOUS
  <2>3. Good(g, k + 1)
    BY <2>1
  <2> HIDE DEF Good, g
  <2>4. QED
    BY <2>2, <2>3
<1> HIDE DEF S
<1>3. n \in S
  <2>1. \A i \in 0..n : i \in S
    BY <1>1, <1>2, UpTo, Zenon
  <2>2. QED
    BY <2>1
<1>4. PICK f \in [0..n -> A] : Good(f, n)
  BY <1>3 DEF S
<1>5. f \in Runs(A, n, base, G)
  BY <1>4 DEF Runs
<1>6. QED
  BY <1>5

LEMMA MinIsLeast ==
    ASSUME NEW S, S \subseteq Nat, S # {}
    PROVE  Min(S) \in S /\ \A k \in S : Min(S) <= k
BY LeastElement DEF Min

LEMMA LeastIs ==
    ASSUME NEW S, S \subseteq Nat
    PROVE  /\ S = {} => Least(S) = NoNumber
           /\ S # {} => Least(S) \in S /\ \A k \in S : Least(S) <= k
           /\ Least(S) \in Nat
BY MinIsLeast DEF Least, NoNumber

\* A set with an upper bound has a greatest element.
LEMMA MaxIsGreatest ==
    ASSUME NEW b \in Nat, NEW S, S \subseteq 0..b, S # {}
    PROVE  Max(S) \in S /\ \A k \in S : Max(S) >= k
<1> DEFINE T == {b - k : k \in S}
<1>1. T \subseteq Nat /\ T # {}
  <2>1. \A k \in S : b - k \in Nat
    OBVIOUS
  <2>2. PICK k \in S : TRUE
    OBVIOUS
  <2>3. b - k \in T
    BY <2>2
  <2>4. QED
    BY <2>1, <2>3
<1> HIDE DEF T
<1>2. PICK m \in T : \A k \in T : m <= k
  BY <1>1, LeastElement
<1>3. b - m \in S /\ \A k \in S : b - m >= k
  <2>1. PICK j \in S : m = b - j
    BY <1>2 DEF T
  <2>2. b - m = j
    BY <2>1
  <2>3. ASSUME NEW k \in S PROVE j >= k
    <3>1. b - k \in T
      BY DEF T
    <3>2. b - j <= b - k
      BY <1>2, <2>1, <3>1
    <3>3. QED
      BY <3>2
  <2>4. QED
    BY <2>2, <2>3
<1>4. QED
  BY <1>3 DEF Max

LEMMA MaxOfTwo ==
    ASSUME NEW x \in Int, NEW y \in Int
    PROVE  Max({x, y}) = IF x >= y THEN x ELSE y
BY DEF Max

-----------------------------------------------------------------------------
(* Groups *)

\* A group is never empty.
Blocks == Seq(Seq(Channels) \ {<<>>})

LEMMA AddToGroupsType ==
    ASSUME NEW gs \in Blocks, NEW c \in Channels
    PROVE  AddToGroups(gs, c) \in Blocks
<1>1. <<c>> \in Seq(Channels) \ {<<>>}
  OBVIOUS
<1>2. Append(gs, <<c>>) \in Blocks
  BY <1>1 DEF Blocks
<1>3. ASSUME gs # <<>>
      PROVE  [gs EXCEPT ![Len(gs)] = Append(Last(gs), c)] \in Blocks
  <2>1. Last(gs) \in Seq(Channels) \ {<<>>}
    BY <1>3 DEF Blocks, Last
  <2>2. Append(Last(gs), c) \in Seq(Channels) \ {<<>>}
    BY <2>1
  <2>3. QED
    BY <1>3, <2>2 DEF Blocks
<1>4. QED
  BY <1>2, <1>3 DEF AddToGroups

\* The groups after each of the channels.
LEMMA GroupsRun ==
    ASSUME NEW sorted \in Seq(Channels)
    PROVE  \E run :
              /\ run = [i \in 0..Len(sorted) |->
                          IF i = 0 THEN <<>>
                          ELSE AddToGroups(run[i - 1], sorted[i])]
              /\ Groups(sorted) = run[Len(sorted)]
              /\ \A i \in 0..Len(sorted) : run[i] \in Blocks
<1> DEFINE n == Len(sorted)
           G == [i \in 1..n |-> [gs \in Blocks |-> AddToGroups(gs, sorted[i])]]
           F(f) == [i \in 0..n |-> IF i = 0 THEN <<>>
                                   ELSE AddToGroups(f[i - 1], sorted[i])]
           run == CHOOSE f : f = F(f)
<1>1. n \in Nat /\ <<>> \in Blocks /\ \A i \in 1..n : sorted[i] \in Channels
  BY DEF Blocks
<1>2. G \in [1..n -> [Blocks -> Blocks]]
  BY <1>1, AddToGroupsType
<1> HIDE DEF n
<1>3. PICK f : f \in Runs(Blocks, n, <<>>, G)
  <2> HIDE DEF G
  <2>1. Runs(Blocks, n, <<>>, G) # {}
    BY <1>1, <1>2, RunExists, Zenon
  <2>2. QED
    BY <2>1
<1>4. /\ f \in [0..n -> Blocks] /\ f[0] = <<>>
      /\ \A i \in 1..n : f[i] = AddToGroups(f[i - 1], sorted[i])
  <2>1. /\ f \in [0..n -> Blocks] /\ f[0] = <<>>
        /\ \A i \in 1..n : f[i] = G[i][f[i - 1]]
    <3> HIDE DEF G
    <3>1. QED
      BY <1>3 DEF Runs
  <2>2. ASSUME NEW i \in 1..n
        PROVE  f[i] = AddToGroups(f[i - 1], sorted[i])
    <3>1. f[i - 1] \in Blocks
      BY <1>1, <2>1
    <3>2. G[i][f[i - 1]] = AddToGroups(f[i - 1], sorted[i])
      BY <3>1
    <3>3. QED
      BY <2>1, <3>2
  <2>3. QED
    BY <2>1, <2>2
<1>5. f = F(f)
  BY <1>1, <1>4
<1>6. run = F(run)
  <2> HIDE DEF F
  <2>1. QED
    BY <1>5
<1>7. Groups(sorted) = run[n]
  BY DEF Groups, Iterate, n
<1> HIDE DEF run
<1>8. \A i \in 0..n : run[i] \in Blocks
  <2> DEFINE S == {i \in 0..n : run[i] \in Blocks}
  <2>1. 0 \in S
    BY <1>1, <1>6
  <2>2. ASSUME NEW k \in 0..(n - 1), k \in S
        PROVE  k + 1 \in S
    BY <1>1, <1>6, <2>2, AddToGroupsType
  <2> HIDE DEF S
  <2>3. \A i \in 0..n : i \in S
    BY <1>1, <2>1, <2>2, UpTo
  <2>4. QED
    BY <2>3 DEF S
<1>9. QED
  BY <1>6, <1>7, <1>8 DEF n

\* What the groups of the first n channels are: they hold each of these once,
\* and neighbours are neighbours in one group, if they show one event, or the
\* last of a group and the first of the next.
Holds(gs, c) == \E g \in 1..Len(gs) : \E j \in 1..Len(gs[g]) : gs[g][j] = c

Neighboured(gs, c, d) ==
    \E g \in 1..Len(gs) :
       \/ /\ EventOf[c] = EventOf[d]
          /\ \E j \in 1..(Len(gs[g]) - 1) : gs[g][j] = c /\ gs[g][j + 1] = d
       \/ /\ EventOf[c] # EventOf[d]
          /\ g + 1 \in 1..Len(gs)
          /\ gs[g][Len(gs[g])] = c /\ gs[g + 1][1] = d

Grouping(gs, s, n) ==
    /\ \A p \in 1..n : Holds(gs, s[p])
    /\ \A g \in 1..Len(gs) : \A j \in 1..Len(gs[g]) :
          \E p \in 1..n : gs[g][j] = s[p]
    /\ \A g, h \in 1..Len(gs) : \A j \in 1..Len(gs[g]), k \in 1..Len(gs[h]) :
          gs[g][j] = gs[h][k] => g = h /\ j = k
    /\ n > 0 => gs # <<>> /\ gs[Len(gs)][Len(gs[Len(gs)])] = s[n]
    /\ \A p \in 1..(n - 1) : Neighboured(gs, s[p], s[p + 1])

\* No channel comes twice.
Once(s) == \A p, q \in 1..Len(s) : s[p] = s[q] => p = q

\* The next channel joins the last group or makes one of its own.
LEMMA AddToGroupsIs ==
    ASSUME NEW gs \in Blocks, NEW c \in Channels
    PROVE  LET hs == AddToGroups(gs, c)
               m  == Len(gs)
           IN  \/ /\ m > 0 /\ EventOf[gs[m][Len(gs[m])]] = EventOf[c]
                  /\ Len(hs) = m /\ \A g \in 1..(m - 1) : hs[g] = gs[g]
                  /\ Len(hs[m]) = Len(gs[m]) + 1
                  /\ \A j \in 1..Len(gs[m]) : hs[m][j] = gs[m][j]
                  /\ hs[m][Len(gs[m]) + 1] = c
               \/ /\ m > 0 => EventOf[gs[m][Len(gs[m])]] # EventOf[c]
                  /\ Len(hs) = m + 1 /\ \A g \in 1..m : hs[g] = gs[g]
                  /\ Len(hs[m + 1]) = 1 /\ hs[m + 1][1] = c
<1> DEFINE m == Len(gs)
<1>1. CASE gs # <<>> /\ EventOf[Last(Last(gs))] = EventOf[c]
  <2>1. m > 0 /\ m \in Nat /\ gs[m] \in Seq(Channels) \ {<<>>}
    BY <1>1 DEF Blocks
  <2>2. AddToGroups(gs, c) = [gs EXCEPT ![m] = Append(gs[m], c)]
    BY <1>1 DEF AddToGroups, Last
  <2>3. /\ Len([gs EXCEPT ![m] = Append(gs[m], c)]) = m
        /\ [gs EXCEPT ![m] = Append(gs[m], c)][m] = Append(gs[m], c)
        /\ \A g \in 1..(m - 1) : [gs EXCEPT ![m] = Append(gs[m], c)][g] = gs[g]
    BY <2>1 DEF Blocks
  <2>4. /\ Len(Append(gs[m], c)) = Len(gs[m]) + 1
        /\ \A j \in 1..Len(gs[m]) : Append(gs[m], c)[j] = gs[m][j]
        /\ Append(gs[m], c)[Len(gs[m]) + 1] = c
    BY <2>1
  <2>5. QED
    BY <1>1, <2>1, <2>2, <2>3, <2>4 DEF Last
<1>2. CASE ~(gs # <<>> /\ EventOf[Last(Last(gs))] = EventOf[c])
  <2>1. AddToGroups(gs, c) = Append(gs, <<c>>)
    BY <1>2 DEF AddToGroups
  <2>2. /\ Len(Append(gs, <<c>>)) = m + 1
        /\ \A g \in 1..m : Append(gs, <<c>>)[g] = gs[g]
        /\ Append(gs, <<c>>)[m + 1] = <<c>>
    BY DEF Blocks
  <2>3. m > 0 => EventOf[gs[m][Len(gs[m])]] # EventOf[c]
    BY <1>2 DEF Last, Blocks
  <2>4. QED
    BY <2>1, <2>2, <2>3
<1>3. QED
  BY <1>1, <1>2


LEMMA GroupingStep ==
    ASSUME NEW s \in Seq(Channels), Once(s), NEW n \in 0..(Len(s) - 1),
           NEW gs \in Blocks, Grouping(gs, s, n)
    PROVE  Grouping(AddToGroups(gs, s[n + 1]), s, n + 1)
<1> DEFINE m == Len(gs)
           c == s[n + 1]
           hs == AddToGroups(gs, c)
<1>1. /\ n \in Nat /\ n + 1 \in 1..Len(s) /\ c \in Channels
      /\ m \in Nat /\ \A g \in 1..m : Len(gs[g]) \in Nat /\ Len(gs[g]) > 0
  BY DEF Blocks
<1>2. \A g \in 1..m : \A j \in 1..Len(gs[g]) : gs[g][j] # c
  BY <1>1 DEF Grouping, Once
<1>3. CASE /\ m > 0 /\ EventOf[gs[m][Len(gs[m])]] = EventOf[c]
           /\ Len(hs) = m /\ \A g \in 1..(m - 1) : hs[g] = gs[g]
           /\ Len(hs[m]) = Len(gs[m]) + 1
           /\ \A j \in 1..Len(gs[m]) : hs[m][j] = gs[m][j]
           /\ hs[m][Len(gs[m]) + 1] = c
  <2> HIDE DEF m, c, hs
  <2>1. \A g \in 1..m : \A j \in 1..Len(gs[g]) :
           j \in 1..Len(hs[g]) /\ hs[g][j] = gs[g][j]
    <3> SUFFICES ASSUME NEW g \in 1..m, NEW j \in 1..Len(gs[g])
                 PROVE  j \in 1..Len(hs[g]) /\ hs[g][j] = gs[g][j]
      OBVIOUS
    <3>1. CASE g = m
      BY <1>1, <1>3, <3>1
    <3>2. CASE g \in 1..(m - 1)
      BY <1>1, <1>3, <3>2
    <3>3. QED
      BY <1>1, <3>1, <3>2
  <2>2. \A g \in 1..m : \A j \in 1..Len(hs[g]) :
           \/ j \in 1..Len(gs[g]) /\ hs[g][j] = gs[g][j]
           \/ g = m /\ j = Len(gs[m]) + 1 /\ hs[g][j] = c
    BY <1>1, <1>3
  <2>3. \A p \in 1..(n + 1) : Holds(hs, s[p])
    <3>1. Holds(hs, c)
      BY <1>1, <1>3 DEF Holds
    <3>2. ASSUME NEW p \in 1..n
          PROVE  Holds(hs, s[p])
      <4>1. PICK g \in 1..m : \E j \in 1..Len(gs[g]) : gs[g][j] = s[p]
        BY DEF Grouping, Holds, m
      <4>2. QED
        BY <1>3, <2>1, <4>1 DEF Holds
    <3>3. QED
      BY <1>1, <3>1, <3>2 DEF c
  <2>4. \A g \in 1..m : \A j \in 1..Len(hs[g]) :
           \E p \in 1..(n + 1) : hs[g][j] = s[p]
    BY <1>1, <2>2 DEF Grouping, m, c
  <2>5. \A g, h \in 1..m : \A j \in 1..Len(hs[g]), k \in 1..Len(hs[h]) :
           hs[g][j] = hs[h][k] => g = h /\ j = k
    <3> SUFFICES ASSUME NEW g \in 1..m, NEW h \in 1..m,
                        NEW j \in 1..Len(hs[g]), NEW k \in 1..Len(hs[h]),
                        hs[g][j] = hs[h][k]
                 PROVE  g = h /\ j = k
      OBVIOUS
    <3>1. CASE /\ j \in 1..Len(gs[g]) /\ hs[g][j] = gs[g][j]
               /\ k \in 1..Len(gs[h]) /\ hs[h][k] = gs[h][k]
      <4>1. /\ g \in 1..Len(gs) /\ h \in 1..Len(gs)
            /\ j \in 1..Len(gs[g]) /\ k \in 1..Len(gs[h])
            /\ gs[g][j] = gs[h][k]
        BY <3>1 DEF m
      <4>2. \A a, b \in 1..Len(gs) : \A x \in 1..Len(gs[a]), y \in 1..Len(gs[b]) :
              gs[a][x] = gs[b][y] => a = b /\ x = y
        BY DEF Grouping
      <4>3. QED
        BY <4>1, <4>2, Zenon
    <3>2. CASE j \in 1..Len(gs[g]) /\ hs[g][j] = gs[g][j] /\ hs[h][k] = c
      BY <1>2, <3>2
    <3>3. CASE k \in 1..Len(gs[h]) /\ hs[h][k] = gs[h][k] /\ hs[g][j] = c
      BY <1>2, <3>3
    <3>4. CASE /\ g = m /\ j = Len(gs[m]) + 1 /\ h = m /\ k = Len(gs[m]) + 1
      BY <3>4
    <3>5. QED
      BY <2>2, <3>1, <3>2, <3>3, <3>4
  <2>6. hs # <<>> /\ hs[m][Len(hs[m])] = c
    BY <1>1, <1>3
  <2>7. ASSUME NEW p \in 1..n
        PROVE  Neighboured(hs, s[p], s[p + 1])
    <3>1. CASE p = n
      <4>1. gs[m][Len(gs[m])] = s[n]
        BY <1>1, <3>1 DEF Grouping, m
      <4>2. /\ Len(gs[m]) \in 1..(Len(hs[m]) - 1)
            /\ hs[m][Len(gs[m])] = s[n] /\ hs[m][Len(gs[m]) + 1] = s[n + 1]
        BY <1>1, <1>3, <4>1 DEF c
      <4>3. EventOf[s[n]] = EventOf[s[n + 1]] /\ m \in 1..Len(hs)
        BY <1>1, <1>3, <4>1 DEF c
      <4>4. QED
        BY <3>1, <4>2, <4>3 DEF Neighboured
    <3>2. CASE p \in 1..(n - 1)
      <4>1. Neighboured(gs, s[p], s[p + 1])
        BY <3>2 DEF Grouping
      <4>2. PICK g \in 1..m :
               \/ /\ EventOf[s[p]] = EventOf[s[p + 1]]
                  /\ \E j \in 1..(Len(gs[g]) - 1) :
                        gs[g][j] = s[p] /\ gs[g][j + 1] = s[p + 1]
               \/ /\ EventOf[s[p]] # EventOf[s[p + 1]]
                  /\ g + 1 \in 1..m
                  /\ gs[g][Len(gs[g])] = s[p] /\ gs[g + 1][1] = s[p + 1]
        BY <4>1 DEF Neighboured, m
      <4>3. CASE /\ EventOf[s[p]] = EventOf[s[p + 1]]
                 /\ \E j \in 1..(Len(gs[g]) - 1) :
                       gs[g][j] = s[p] /\ gs[g][j + 1] = s[p + 1]
        <5>1. PICK j \in 1..(Len(gs[g]) - 1) :
                 gs[g][j] = s[p] /\ gs[g][j + 1] = s[p + 1]
          BY <4>3
        <5>2. /\ j \in 1..(Len(hs[g]) - 1)
              /\ hs[g][j] = s[p] /\ hs[g][j + 1] = s[p + 1]
          <6>1. Len(gs[g]) \in Nat /\ Len(hs[g]) \in Nat
            <7>1. CASE g = m
              BY <1>1, <1>3, <7>1
            <7>2. CASE g \in 1..(m - 1)
              BY <1>1, <1>3, <7>2
            <7>3. QED
              BY <1>1, <7>1, <7>2
          <6>2. j \in 1..Len(gs[g]) /\ j + 1 \in 1..Len(gs[g])
            BY <5>1, <6>1
          <6>3. j + 1 \in 1..Len(hs[g])
            BY <2>1, <6>2
          <6>4. QED
            BY <2>1, <5>1, <6>1, <6>2, <6>3
        <5>3. QED
          BY <1>3, <4>3, <5>2 DEF Neighboured
      <4>4. CASE /\ EventOf[s[p]] # EventOf[s[p + 1]]
                 /\ g + 1 \in 1..m
                 /\ gs[g][Len(gs[g])] = s[p] /\ gs[g + 1][1] = s[p + 1]
        <5>1. /\ hs[g] = gs[g] /\ hs[g + 1][1] = s[p + 1]
          <6>1. g \in 1..(m - 1) /\ 1 \in 1..Len(gs[g + 1])
            BY <1>1, <4>4
          <6>2. QED
            BY <1>3, <2>1, <4>4, <6>1
        <5>2. QED
          BY <1>3, <4>4, <5>1 DEF Neighboured
      <4>5. QED
        BY <4>2, <4>3, <4>4
    <3>3. QED
      BY <1>1, <3>1, <3>2
  <2>8. QED
    BY <1>1, <1>3, <2>3, <2>4, <2>5, <2>6, <2>7 DEF Grouping, c, hs
<1>4. CASE /\ m > 0 => EventOf[gs[m][Len(gs[m])]] # EventOf[c]
           /\ Len(hs) = m + 1 /\ \A g \in 1..m : hs[g] = gs[g]
           /\ Len(hs[m + 1]) = 1 /\ hs[m + 1][1] = c
  <2> HIDE DEF m, c, hs
  <2>1. \A g \in 1..m : g \in 1..Len(hs) /\ hs[g] = gs[g]
    BY <1>1, <1>4
  <2>2. \A g \in 1..(m + 1) : \A j \in 1..Len(hs[g]) :
           \/ g \in 1..m /\ hs[g] = gs[g]
           \/ g = m + 1 /\ j = 1 /\ hs[g][j] = c
    <3> SUFFICES ASSUME NEW g \in 1..(m + 1), NEW j \in 1..Len(hs[g])
                 PROVE  \/ g \in 1..m /\ hs[g] = gs[g]
                        \/ g = m + 1 /\ j = 1 /\ hs[g][j] = c
      OBVIOUS
    <3>1. CASE g = m + 1
      <4>1. hs[g] = hs[m + 1] /\ Len(hs[g]) = 1 /\ hs[g][1] = c
        BY <1>4, <3>1
      <4>2. j = 1
        BY <4>1
      <4>3. QED
        BY <3>1, <4>1, <4>2
    <3>2. CASE g \in 1..m
      BY <1>4, <3>2
    <3>3. QED
      BY <1>1, <3>1, <3>2
  <2>3. \A p \in 1..(n + 1) : Holds(hs, s[p])
    <3>1. Holds(hs, c)
      BY <1>1, <1>4 DEF Holds
    <3>2. ASSUME NEW p \in 1..n
          PROVE  Holds(hs, s[p])
      <4>1. PICK g \in 1..m : \E j \in 1..Len(gs[g]) : gs[g][j] = s[p]
        BY DEF Grouping, Holds, m
      <4>2. QED
        BY <2>1, <4>1 DEF Holds
    <3>3. QED
      BY <1>1, <3>1, <3>2 DEF c
  <2>4. \A g \in 1..(m + 1) : \A j \in 1..Len(hs[g]) :
           \E p \in 1..(n + 1) : hs[g][j] = s[p]
    <3> SUFFICES ASSUME NEW g \in 1..(m + 1), NEW j \in 1..Len(hs[g])
                 PROVE  \E p \in 1..(n + 1) : hs[g][j] = s[p]
      OBVIOUS
    <3>1. CASE g \in 1..m /\ hs[g] = gs[g]
      <4>1. \E p \in 1..n : gs[g][j] = s[p]
        BY <3>1 DEF Grouping, m
      <4>2. QED
        BY <1>1, <3>1, <4>1
    <3>2. CASE hs[g][j] = c
      BY <1>1, <3>2 DEF c
    <3>3. QED
      BY <2>2, <3>1, <3>2
  <2>5. \A g, h \in 1..(m + 1) : \A j \in 1..Len(hs[g]), k \in 1..Len(hs[h]) :
           hs[g][j] = hs[h][k] => g = h /\ j = k
    <3> SUFFICES ASSUME NEW g \in 1..(m + 1), NEW h \in 1..(m + 1),
                        NEW j \in 1..Len(hs[g]), NEW k \in 1..Len(hs[h]),
                        hs[g][j] = hs[h][k]
                 PROVE  g = h /\ j = k
      OBVIOUS
    <3>1. CASE g \in 1..m /\ hs[g] = gs[g] /\ h \in 1..m /\ hs[h] = gs[h]
      <4>1. \A a, b \in 1..m : \A x \in 1..Len(gs[a]), y \in 1..Len(gs[b]) :
              gs[a][x] = gs[b][y] => a = b /\ x = y
        BY DEF Grouping, m
      <4>2. j \in 1..Len(gs[g]) /\ k \in 1..Len(gs[h]) /\ gs[g][j] = gs[h][k]
        BY <3>1
      <4>3. QED
        BY <3>1, <4>1, <4>2, Zenon
    <3>2. CASE g \in 1..m /\ hs[g] = gs[g] /\ hs[h][k] = c
      BY <1>2, <3>2
    <3>3. CASE h \in 1..m /\ hs[h] = gs[h] /\ hs[g][j] = c
      BY <1>2, <3>3
    <3>4. CASE g = m + 1 /\ j = 1 /\ h = m + 1 /\ k = 1
      BY <3>4
    <3>5. QED
      BY <2>2, <3>1, <3>2, <3>3, <3>4
  <2>6. hs # <<>> /\ hs[m + 1][Len(hs[m + 1])] = c
    BY <1>1, <1>4
  <2>7. ASSUME NEW p \in 1..n
        PROVE  Neighboured(hs, s[p], s[p + 1])
    <3>1. CASE p = n
      <4>1. m > 0 /\ gs[m][Len(gs[m])] = s[n]
        BY <1>1, <3>1 DEF Grouping, m
      <4>2. /\ m \in 1..Len(hs) /\ m + 1 \in 1..Len(hs)
            /\ hs[m] = gs[m] /\ hs[m + 1][1] = s[n + 1]
        BY <1>1, <1>4, <4>1 DEF c
      <4>3. QED
        BY <1>4, <3>1, <4>1, <4>2 DEF Neighboured, c
    <3>2. CASE p \in 1..(n - 1)
      <4>1. Neighboured(gs, s[p], s[p + 1])
        BY <3>2 DEF Grouping
      <4>2. \A g \in 1..m : g + 1 \in 1..m => g + 1 \in 1..Len(hs)
        BY <1>1, <1>4
      <4>3. QED
        BY <2>1, <4>1, <4>2 DEF Neighboured, m
    <3>3. QED
      BY <1>1, <3>1, <3>2
  <2>8. QED
    BY <1>1, <1>4, <2>3, <2>4, <2>5, <2>6, <2>7 DEF Grouping, c, hs
<1>5. QED
  BY <1>1, <1>3, <1>4, AddToGroupsIs

\* The groups of all channels.
LEMMA GroupsAre ==
    ASSUME NEW s \in Seq(Channels), Once(s)
    PROVE  Groups(s) \in Blocks /\ Grouping(Groups(s), s, Len(s))
<1>1. PICK run : /\ run = [i \in 0..Len(s) |->
                             IF i = 0 THEN <<>> ELSE AddToGroups(run[i - 1], s[i])]
                 /\ Groups(s) = run[Len(s)]
                 /\ \A i \in 0..Len(s) : run[i] \in Blocks
  BY GroupsRun
<1> DEFINE S == {i \in 0..Len(s) : Grouping(run[i], s, i)}
<1>2. 0 \in S
  <2>1. run[0] = <<>>
    BY <1>1
  <2>2. Grouping(<<>>, s, 0)
    BY DEF Grouping
  <2>3. QED
    BY <2>1, <2>2
<1>3. ASSUME NEW k \in 0..(Len(s) - 1), k \in S
      PROVE  k + 1 \in S
  <2>1. run[k + 1] = AddToGroups(run[k], s[k + 1]) /\ run[k] \in Blocks
    BY <1>1
  <2>2. QED
    BY <1>3, <2>1, GroupingStep
<1>4. \A i \in 0..Len(s) : i \in S
  <2> HIDE DEF S
  <2>1. QED
    BY <1>2, <1>3, UpTo
<1>5. QED
  BY <1>1, <1>4


-----------------------------------------------------------------------------
(* Placing a group *)

PlacedBy(at) == {c \in Channels : at[c] # NoNumber}

\* Who is placed has a number of its own, that nobody must avoid.
Apart(at, used, avoid) ==
    /\ at \in [Channels -> Nat] /\ used \subseteq Nat /\ avoid \subseteq used
    /\ \A c \in PlacedBy(at) : at[c] \in used \ avoid
    /\ \A c, d \in PlacedBy(at) : at[c] = at[d] => c = d

LEMMA StepIs ==
    ASSUME NEW cfg \in Config
    PROVE  Step(cfg) \in Nat \ {0}
BY DEF Step, Config

\* The channels of a group get the numbers of its run, in their order.
LEMMA PlaceGroupIs ==
    ASSUME NEW at \in [Channels -> Nat], NEW group \in Seq(Channels),
           NEW start \in Nat
    PROVE  /\ PlaceGroup(at, group, start) \in [Channels -> Nat]
           /\ Once(group) => \A j \in 1..Len(group) :
                 PlaceGroup(at, group, start)[group[j]] = start + j - 1
           /\ \A c \in Channels \ ToSet(group) :
                 PlaceGroup(at, group, start)[c] = at[c]
<1> DEFINE pick(c) == CHOOSE j \in 0..(Len(group) - 1) : group[j + 1] = c
<1>1. ASSUME NEW c \in ToSet(group)
      PROVE  pick(c) \in 0..(Len(group) - 1) /\ group[pick(c) + 1] = c
  <2>1. PICK i \in 1..Len(group) : group[i] = c
    BY DEF ToSet
  <2>2. i - 1 \in 0..(Len(group) - 1) /\ group[(i - 1) + 1] = c
    BY <2>1
  <2>3. QED
    BY <2>2
<1>2. PlaceGroup(at, group, start) =
         [c \in Channels |-> IF c \in ToSet(group) THEN start + pick(c) ELSE at[c]]
  BY DEF PlaceGroup
<1> HIDE DEF pick
<1>3. PlaceGroup(at, group, start) \in [Channels -> Nat]
  BY <1>1, <1>2
<1>4. ASSUME Once(group), NEW j \in 1..Len(group)
      PROVE  PlaceGroup(at, group, start)[group[j]] = start + j - 1
  <2>1. group[j] \in ToSet(group) /\ group[j] \in Channels
    BY DEF ToSet
  <2>2. PICK q : q = pick(group[j])
    OBVIOUS
  <2>3. q \in 0..(Len(group) - 1) /\ group[q + 1] = group[j]
    BY <1>1, <2>1, <2>2
  <2>4. q + 1 \in 1..Len(group)
    BY <2>3
  <2>5. q + 1 = j
    BY <1>4, <2>3, <2>4 DEF Once
  <2>6. PlaceGroup(at, group, start)[group[j]] = start + q
    BY <1>2, <2>1, <2>2
  <2>7. QED
    BY <2>3, <2>5, <2>6
<1>5. QED
  BY <1>2, <1>3, <1>4

\* A group that gets a run of numbers nobody has is apart from the others.
LEMMA PlaceGroupApart ==
    ASSUME NEW at, NEW used, NEW avoid, Apart(at, used, avoid),
           NEW group \in Seq(Channels), Once(group),
           NEW start \in Nat \ {0}, Run(start, Len(group)) \cap used = {}
    PROVE  /\ Apart(PlaceGroup(at, group, start),
                    used \cup Run(start, Len(group)), avoid)
           /\ PlacedBy(PlaceGroup(at, group, start))
                = PlacedBy(at) \cup ToSet(group)
<1> DEFINE b == PlaceGroup(at, group, start)
           run == Run(start, Len(group))
<1>1. /\ b \in [Channels -> Nat]
      /\ \A j \in 1..Len(group) : b[group[j]] = start + j - 1
      /\ \A c \in Channels \ ToSet(group) : b[c] = at[c]
  BY PlaceGroupIs DEF Apart
<1>2. /\ run \subseteq Nat \ {0}
      /\ \A j \in 1..Len(group) : start + j - 1 \in run
  BY DEF Run
<1>3. \A c \in ToSet(group) : \E j \in 1..Len(group) : group[j] = c
  BY DEF ToSet
<1>4. ToSet(group) \subseteq Channels
  BY DEF ToSet
<1> HIDE DEF b, run
<1>5. \A c \in ToSet(group) : b[c] \in run
  BY <1>1, <1>2, <1>3
<1>6. PlacedBy(b) = PlacedBy(at) \cup ToSet(group)
  BY <1>1, <1>2, <1>4, <1>5 DEF PlacedBy, NoNumber
<1>7. \A c, d \in ToSet(group) : b[c] = b[d] => c = d
  <2> SUFFICES ASSUME NEW c \in ToSet(group), NEW d \in ToSet(group), b[c] = b[d]
               PROVE  c = d
    OBVIOUS
  <2>1. PICK i \in 1..Len(group), j \in 1..Len(group) :
           group[i] = c /\ group[j] = d
    BY <1>3
  <2>2. start + i - 1 = start + j - 1
    BY <1>1, <2>1
  <2>3. i = j
    BY <2>2
  <2>4. QED
    BY <2>1, <2>3
<1>8. \A c \in PlacedBy(b) \ ToSet(group) : c \in PlacedBy(at) /\ b[c] = at[c]
  BY <1>1, <1>6 DEF PlacedBy
<1>9. run \cap used = {} /\ avoid \subseteq used
  BY DEF run, Apart
<1>10. \A c, d \in PlacedBy(b) : b[c] = b[d] => c = d
  <2> SUFFICES ASSUME NEW c \in PlacedBy(b), NEW d \in PlacedBy(b), b[c] = b[d]
               PROVE  c = d
    OBVIOUS
  <2>1. CASE c \in ToSet(group) /\ d \in ToSet(group)
    BY <1>7, <2>1
  <2>2. CASE c \notin ToSet(group) /\ d \notin ToSet(group)
    BY <1>8, <2>2 DEF Apart
  <2>3. CASE c \in ToSet(group) /\ d \notin ToSet(group)
    BY <1>5, <1>8, <1>9, <2>3 DEF Apart
  <2>4. CASE c \notin ToSet(group) /\ d \in ToSet(group)
    BY <1>5, <1>8, <1>9, <2>4 DEF Apart
  <2>5. QED
    BY <2>1, <2>2, <2>3, <2>4
<1>11. \A c \in PlacedBy(b) : b[c] \in (used \cup run) \ avoid
  BY <1>5, <1>8, <1>9 DEF Apart
<1>12. Apart(b, used \cup run, avoid)
  BY <1>1, <1>2, <1>10, <1>11 DEF Apart
<1>13. QED
  BY <1>6, <1>12 DEF b, run

\* What first_free_run finds, if it finds anything.
LEMMA FirstFreeRunIs ==
    ASSUME NEW cfg \in Config, NEW used, NEW lo \in Int, NEW hi \in Int,
           NEW k \in Nat \ {0}
    PROVE  LET x == FirstFreeRun(cfg, used, lo, hi, k)
               fits(y) == /\ y \in Nat /\ y >= lo /\ y >= cfg.first
                          /\ y + k - 1 <= cfg.last /\ y + k - 1 < hi
                          /\ Run(y, k) \cap used = {}
           IN  /\ x \in Nat
               /\ x # NoNumber => fits(x) /\ \A y : fits(y) => x <= y
               /\ x = NoNumber => \A y : ~fits(y)
<1> DEFINE low == Max({lo, cfg.first})
           S == {x \in low..(cfg.last - k + 1) :
                    x + k - 1 < hi /\ Run(x, k) \cap used = {}}
           fits(y) == /\ y \in Nat /\ y >= lo /\ y >= cfg.first
                      /\ y + k - 1 <= cfg.last /\ y + k - 1 < hi
                      /\ Run(y, k) \cap used = {}
<1>1. cfg.first \in Nat \ {0} /\ cfg.last \in Nat
  BY DEF Config
<1>2. /\ low \in Int /\ low >= lo /\ low >= cfg.first
      /\ low = lo \/ low = cfg.first
  BY <1>1, MaxOfTwo
<1> HIDE DEF low
<1>3. \A y : y \in S <=> fits(y)
  BY <1>1, <1>2
<1>4. S \subseteq Nat \ {0}
  BY <1>1, <1>2
<1>5. FirstFreeRun(cfg, used, lo, hi, k) = Least(S)
  BY DEF FirstFreeRun, low
<1> HIDE DEF S, fits
<1>6. /\ Least(S) \in Nat
      /\ Least(S) # NoNumber => Least(S) \in S /\ \A y \in S : Least(S) <= y
      /\ Least(S) = NoNumber => S = {}
  BY <1>4, LeastIs DEF NoNumber
<1>7. QED
  BY <1>3, <1>5, <1>6 DEF fits


\* The channels of the first i groups.
InGroups(gs, i) == {c \in Channels : \E g \in 1..i : c \in ToSet(gs[g])}

LEMMA InGroupsIs ==
    ASSUME NEW s \in Seq(Channels), NEW gs \in Blocks, Grouping(gs, s, Len(s))
    PROVE  /\ \A g \in 1..Len(gs) : Once(gs[g])
           /\ InGroups(gs, 0) = {} /\ InGroups(gs, Len(gs)) = ToSet(s)
           /\ \A i \in 0..(Len(gs) - 1) :
                 /\ InGroups(gs, i + 1) = InGroups(gs, i) \cup ToSet(gs[i + 1])
                 /\ InGroups(gs, i) \cap ToSet(gs[i + 1]) = {}
<1> DEFINE m == Len(gs)
<1>1. /\ m \in Nat /\ Len(s) \in Nat
      /\ \A g \in 1..m : gs[g] \in Seq(Channels)
  BY DEF Blocks
<1>2. \A g \in 1..m : ToSet(gs[g]) \subseteq Channels
  BY <1>1 DEF ToSet
<1>3. \A g \in 1..m : Once(gs[g])
  BY DEF Grouping, Once
<1>4. InGroups(gs, 0) = {}
  BY DEF InGroups
<1>5. InGroups(gs, m) = ToSet(s)
  <2>1. ASSUME NEW c \in InGroups(gs, m)
        PROVE  c \in ToSet(s)
    <3>1. PICK g \in 1..m : c \in ToSet(gs[g])
      BY DEF InGroups
    <3>2. PICK j \in 1..Len(gs[g]) : gs[g][j] = c
      BY <1>1, <3>1 DEF ToSet
    <3>3. PICK p \in 1..Len(s) : gs[g][j] = s[p]
      BY DEF Grouping
    <3>4. QED
      BY <3>2, <3>3 DEF ToSet
  <2>2. ASSUME NEW c \in ToSet(s)
        PROVE  c \in InGroups(gs, m)
    <3>1. PICK p \in 1..Len(s) : s[p] = c
      BY DEF ToSet
    <3>h. Holds(gs, c)
      BY <3>1 DEF Grouping
    <3>2. PICK g \in 1..m : \E j \in 1..Len(gs[g]) : gs[g][j] = c
      BY <3>h DEF Holds
    <3>3. c \in ToSet(gs[g]) /\ c \in Channels
      BY <1>1, <3>1, <3>2 DEF ToSet
    <3>4. QED
      BY <3>3 DEF InGroups
  <2>3. QED
    BY <2>1, <2>2
<1>6. ASSUME NEW i \in 0..(m - 1)
      PROVE  /\ InGroups(gs, i + 1) = InGroups(gs, i) \cup ToSet(gs[i + 1])
             /\ InGroups(gs, i) \cap ToSet(gs[i + 1]) = {}
  <2>1. 1..(i + 1) = (1..i) \cup {i + 1} /\ i + 1 \in 1..m
    BY <1>1
  <2>2. InGroups(gs, i + 1) = InGroups(gs, i) \cup ToSet(gs[i + 1])
    BY <1>2, <2>1 DEF InGroups
  <2>3. ASSUME NEW c \in InGroups(gs, i), c \in ToSet(gs[i + 1])
        PROVE  FALSE
    <3>1. PICK g \in 1..i : c \in ToSet(gs[g])
      BY DEF InGroups
    <3>2. g \in 1..m /\ g # i + 1
      BY <1>1
    <3>3. PICK j \in 1..Len(gs[g]) : gs[g][j] = c
      BY <1>1, <3>1, <3>2 DEF ToSet
    <3>4. PICK k \in 1..Len(gs[i + 1]) : gs[i + 1][k] = c
      BY <1>1, <2>1, <2>3 DEF ToSet
    <3>5. QED
      BY <2>1, <3>2, <3>3, <3>4 DEF Grouping
  <2>4. QED
    BY <2>2, <2>3
<1>7. QED
  BY <1>3, <1>4, <1>5, <1>6

-----------------------------------------------------------------------------
(* The re-layout *)

ResetAcc == [at : [Channels -> Nat], used : SUBSET Nat, frontier : Nat,
             stop : BOOLEAN]

\* A group is placed from the first free run on, at or after the frontier, and
\* without one the pass stops.
ResetPlaced(cfg, acc, group, next) ==
    \E start \in Nat \ {0} :
       /\ start >= acc.frontier
       /\ Run(start, Len(group)) \cap acc.used = {}
       /\ next.at = PlaceGroup(acc.at, group, start)
       /\ next.used = acc.used \cup Run(start, Len(group))
       /\ next.frontier = start + Len(group) - 1 + Step(cfg)

ResetGoesOn(cfg, acc, group, next) ==
    /\ next \in ResetAcc
    /\ \/ next.stop /\ next.at = acc.at /\ next.used = acc.used
       \/ ~acc.stop /\ ~next.stop /\ ResetPlaced(cfg, acc, group, next)

LEMMA ResetGroupIs ==
    ASSUME NEW cfg \in Config, NEW acc \in ResetAcc,
           NEW group \in Seq(Channels) \ {<<>>}
    PROVE  ResetGoesOn(cfg, acc, group, ResetGroup(cfg, acc, group))
<1> USE DEF ResetGoesOn, ResetPlaced
<1> DEFINE k == Len(group)
           start == FirstFreeRun(cfg, acc.used, acc.frontier, cfg.last + 1, k)
           next == ResetGroup(cfg, acc, group)
<1>1. /\ k \in Nat \ {0} /\ cfg.last + 1 \in Int /\ acc.frontier \in Int
      /\ acc.at \in [Channels -> Nat] /\ acc.used \subseteq Nat
  BY DEF Config, ResetAcc
<1>2. /\ start \in Nat
      /\ start # NoNumber => /\ start >= acc.frontier
                             /\ Run(start, k) \cap acc.used = {}
  <2> DEFINE lo == acc.frontier
             hi == cfg.last + 1
  <2>1. k \in Nat \ {0} /\ lo \in Int /\ hi \in Int
    BY <1>1
  <2>2. start = FirstFreeRun(cfg, acc.used, lo, hi, k)
    OBVIOUS
  <2> HIDE DEF k, lo, hi, start
  <2>3. start \in Nat /\ (start # NoNumber =>
           start >= lo /\ Run(start, k) \cap acc.used = {})
    BY <2>1, <2>2, FirstFreeRunIs
  <2>4. QED
    BY <2>3 DEF lo
<1>3. next = IF acc.stop \/ start = NoNumber THEN [acc EXCEPT !.stop = TRUE]
             ELSE [at |-> PlaceGroup(acc.at, group, start),
                   used |-> acc.used \cup Run(start, k),
                   frontier |-> Frontier(cfg, start, k),
                   stop |-> FALSE]
  BY DEF ResetGroup
<1> HIDE DEF start, next, k
<1>4. CASE acc.stop \/ start = NoNumber
  <2>1. next = [acc EXCEPT !.stop = TRUE]
    BY <1>3, <1>4
  <2>2. next \in ResetAcc /\ next.stop /\ next.at = acc.at /\ next.used = acc.used
    BY <2>1 DEF ResetAcc
  <2>3. QED
    BY <2>2 DEF next
<1>5. CASE ~acc.stop /\ start # NoNumber
  <2>1. start \in Nat \ {0}
    BY <1>2, <1>5 DEF NoNumber
  <2>2. Frontier(cfg, start, k) = start + k - 1 + Step(cfg)
    BY DEF Frontier
  <2>3. Frontier(cfg, start, k) \in Nat
    BY <1>1, <2>1, <2>2, StepIs
  <2>4. PlaceGroup(acc.at, group, start) \in [Channels -> Nat]
    BY <1>1, <2>1, PlaceGroupIs
  <2>5. acc.used \cup Run(start, k) \subseteq Nat
    BY <1>1, <2>1 DEF Run
  <2>6. next = [at |-> PlaceGroup(acc.at, group, start),
                used |-> acc.used \cup Run(start, k),
                frontier |-> Frontier(cfg, start, k),
                stop |-> FALSE]
    BY <1>3, <1>5
  <2>7. next \in ResetAcc
    BY <2>3, <2>4, <2>5, <2>6 DEF ResetAcc
  <2>8. QED
    BY <1>2, <1>5, <2>1, <2>2, <2>6, <2>7 DEF next, k
<1>6. QED
  BY <1>4, <1>5


\* What the pass has done after i groups.
ResetRun(cfg, outside, gs, run) ==
    run = [i \in 0..Len(gs) |->
             IF i = 0 THEN [at |-> Nowhere, used |-> outside, frontier |-> cfg.first,
                            stop |-> FALSE]
             ELSE ResetGroup(cfg, run[i - 1], gs[i])]

LEMMA ResetRunExists ==
    ASSUME NEW cfg \in Config, NEW outside \in SUBSET Nat, NEW sorted,
           Groups(sorted) \in Blocks
    PROVE  \E run : /\ ResetRun(cfg, outside, Groups(sorted), run)
                    /\ \A i \in 0..Len(Groups(sorted)) : run[i] \in ResetAcc
                    /\ LET end == run[Len(Groups(sorted))]
                       IN  ResetLayout(cfg, outside, sorted)
                             = [at |-> end.at, stop |-> end.stop]
<1> DEFINE gs == Groups(sorted)
           n == Len(gs)
           base == [at |-> Nowhere, used |-> outside, frontier |-> cfg.first,
                    stop |-> FALSE]
           G == [i \in 1..n |-> [acc \in ResetAcc |-> ResetGroup(cfg, acc, gs[i])]]
           F(f) == [i \in 0..n |-> IF i = 0 THEN base
                                   ELSE ResetGroup(cfg, f[i - 1], gs[i])]
           run == CHOOSE f : f = F(f)
<1>1. n \in Nat /\ \A i \in 1..n : gs[i] \in Seq(Channels) \ {<<>>}
  BY DEF Blocks
<1>2. base \in ResetAcc
  BY DEF ResetAcc, Config, Nowhere, NoNumber
<1> HIDE DEF n, gs, base
<1>3. G \in [1..n -> [ResetAcc -> ResetAcc]]
  BY <1>1, ResetGroupIs DEF ResetGoesOn
<1>4. PICK f : f \in Runs(ResetAcc, n, base, G)
  <2> HIDE DEF G
  <2>1. Runs(ResetAcc, n, base, G) # {}
    BY <1>1, <1>2, <1>3, RunExists, Zenon
  <2>2. QED
    BY <2>1
<1>5. /\ f \in [0..n -> ResetAcc] /\ f[0] = base
      /\ \A i \in 1..n : f[i] = G[i][f[i - 1]]
  <2> HIDE DEF G
  <2>1. QED
    BY <1>4 DEF Runs
<1>6. ASSUME NEW i \in 1..n
      PROVE  f[i] = ResetGroup(cfg, f[i - 1], gs[i])
  <2>1. f[i - 1] \in ResetAcc
    BY <1>1, <1>5
  <2>2. G[i][f[i - 1]] = ResetGroup(cfg, f[i - 1], gs[i])
    BY <2>1
  <2>3. QED
    BY <1>5, <2>2
<1>7. f = F(f)
  BY <1>1, <1>5, <1>6
<1>8. run = F(run)
  <2> HIDE DEF F
  <2>1. QED
    BY <1>7
<1>9. ResetLayout(cfg, outside, sorted) = [at |-> run[n].at, stop |-> run[n].stop]
  BY DEF ResetLayout, Iterate, n, gs, base
<1> HIDE DEF run
<1>10. \A i \in 0..n : run[i] \in ResetAcc
  <2> DEFINE S == {i \in 0..n : run[i] \in ResetAcc}
  <2>1. 0 \in S
    BY <1>1, <1>2, <1>8
  <2>2. ASSUME NEW k \in 0..(n - 1), k \in S
        PROVE  k + 1 \in S
    <3>1. run[k + 1] = ResetGroup(cfg, run[k], gs[k + 1]) /\ k + 1 \in 1..n
      BY <1>1, <1>8
    <3>2. QED
      BY <1>1, <2>2, <3>1, ResetGroupIs DEF ResetGoesOn
  <2> HIDE DEF S
  <2>3. \A i \in 0..n : i \in S
    BY <1>1, <2>1, <2>2, UpTo
  <2>4. QED
    BY <2>3 DEF S
<1>11. ResetRun(cfg, outside, gs, run)
  BY <1>8 DEF ResetRun, n, base
<1>12. QED
  BY <1>9, <1>10, <1>11 DEF n, gs


\* The feeds of an event are on adjacent numbers, and between two events there
\* is at least the step.
LaidOut(at, gs, i, stride) ==
    /\ \A g \in 1..i : \A j \in 1..Len(gs[g]) : at[gs[g][j]] = at[gs[g][1]] + j - 1
    /\ \A g \in 1..i : g + 1 \in 1..i =>
          at[gs[g + 1][1]] >= at[gs[g][Len(gs[g])]] + stride

ResetInv(cfg, outside, gs, acc, i) ==
    /\ Apart(acc.at, acc.used, outside)
    /\ PlacedBy(acc.at) \subseteq InGroups(gs, i)
    /\ ~acc.stop =>
         /\ PlacedBy(acc.at) = InGroups(gs, i)
         /\ LaidOut(acc.at, gs, i, Step(cfg))
         /\ i > 0 => acc.frontier = acc.at[gs[i][Len(gs[i])]] + Step(cfg)

LEMMA ResetStep ==
    ASSUME NEW cfg \in Config, NEW outside \in SUBSET Nat,
           NEW s \in Seq(Channels), NEW gs \in Blocks, Grouping(gs, s, Len(s)),
           NEW i \in 0..(Len(gs) - 1), NEW acc \in ResetAcc,
           ResetInv(cfg, outside, gs, acc, i)
    PROVE  ResetInv(cfg, outside, gs, ResetGroup(cfg, acc, gs[i + 1]), i + 1)
<1> DEFINE group == gs[i + 1]
           next == ResetGroup(cfg, acc, group)
           stride == Step(cfg)
<1>1. /\ i \in Nat /\ i + 1 \in 1..Len(gs) /\ stride \in Nat \ {0}
      /\ group \in Seq(Channels) \ {<<>>} /\ Len(group) \in Nat \ {0}
      /\ Len(gs) \in Nat
      /\ \A g \in 1..Len(gs) : gs[g] \in Seq(Channels) /\ Len(gs[g]) \in Nat \ {0}
  BY StepIs DEF Blocks
<1>2. /\ Once(group)
      /\ InGroups(gs, i + 1) = InGroups(gs, i) \cup ToSet(group)
      /\ InGroups(gs, i) \cap ToSet(group) = {}
  BY <1>1, InGroupsIs
<1>3. \/ next.stop /\ next.at = acc.at /\ next.used = acc.used
      \/ ~acc.stop /\ ~next.stop /\ ResetPlaced(cfg, acc, group, next)
  BY <1>1, ResetGroupIs DEF ResetGoesOn
<1> HIDE DEF next, group, stride
<1>4. CASE next.stop /\ next.at = acc.at /\ next.used = acc.used
  BY <1>2, <1>4 DEF ResetInv, next, group
<1>5. CASE ~acc.stop /\ ~next.stop /\ ResetPlaced(cfg, acc, group, next)
  <2>1. PICK start \in Nat \ {0} :
           /\ start >= acc.frontier
           /\ Run(start, Len(group)) \cap acc.used = {}
           /\ next.at = PlaceGroup(acc.at, group, start)
           /\ next.used = acc.used \cup Run(start, Len(group))
           /\ next.frontier = start + Len(group) - 1 + stride
    BY <1>5 DEF ResetPlaced, stride
  <2>2. Apart(acc.at, acc.used, outside) /\ acc.at \in [Channels -> Nat]
    BY DEF ResetInv, Apart
  <2>3. /\ Apart(next.at, next.used, outside)
        /\ PlacedBy(next.at) = PlacedBy(acc.at) \cup ToSet(group)
    <3>1. group \in Seq(Channels)
      BY <1>1
    <3>2. /\ Apart(PlaceGroup(acc.at, group, start),
                   acc.used \cup Run(start, Len(group)), outside)
          /\ PlacedBy(PlaceGroup(acc.at, group, start))
               = PlacedBy(acc.at) \cup ToSet(group)
      <4>1. Once(group)
        BY <1>2
      <4>2. Run(start, Len(group)) \cap acc.used = {}
        BY <2>1
      <4>3. Apart(acc.at, acc.used, outside)
        BY <2>2
      <4>4. QED
        BY <3>1, <4>1, <4>2, <4>3, PlaceGroupApart
    <3>3. QED
      BY <2>1, <3>2
  <2>4. PlacedBy(acc.at) = InGroups(gs, i) /\ LaidOut(acc.at, gs, i, stride)
    BY <1>5 DEF ResetInv, stride
  <2>5. PlacedBy(next.at) = InGroups(gs, i + 1)
    BY <1>2, <2>3, <2>4
  <2>6. /\ \A j \in 1..Len(group) : next.at[group[j]] = start + j - 1
        /\ \A c \in Channels \ ToSet(group) : next.at[c] = acc.at[c]
    <3>1. group \in Seq(Channels) /\ start \in Nat
      BY <1>1
    <3>2. /\ \A j \in 1..Len(group) :
                PlaceGroup(acc.at, group, start)[group[j]] = start + j - 1
          /\ \A c \in Channels \ ToSet(group) :
                PlaceGroup(acc.at, group, start)[c] = acc.at[c]
      <4>1. Once(group)
        BY <1>2
      <4>2. acc.at \in [Channels -> Nat]
        BY <2>2
      <4>3. QED
        BY <3>1, <4>1, <4>2, PlaceGroupIs
    <3>3. QED
      BY <2>1, <3>2
  <2>7. ASSUME NEW g \in 1..i, NEW j \in 1..Len(gs[g])
        PROVE  next.at[gs[g][j]] = acc.at[gs[g][j]]
    <3>1. gs[g][j] \in Channels /\ gs[g][j] \in ToSet(gs[g])
      <4>1. gs[g] \in Seq(Channels)
        BY <1>1
      <4>2. QED
        BY <4>1 DEF ToSet
    <3>2. gs[g][j] \in InGroups(gs, i)
      BY <3>1 DEF InGroups
    <3>3. QED
      BY <1>2, <2>6, <3>1, <3>2
  <2>8. next.frontier = next.at[group[Len(group)]] + stride
    BY <1>1, <2>1, <2>6
  <2>9. ASSUME NEW g \in 1..(i + 1), NEW j \in 1..Len(gs[g])
        PROVE  next.at[gs[g][j]] = next.at[gs[g][1]] + j - 1
    <3>1. CASE g = i + 1
      <4>1. 1 \in 1..Len(group) /\ j \in 1..Len(group) /\ gs[g] = group
        BY <1>1, <3>1 DEF group
      <4>2. next.at[group[j]] = start + j - 1 /\ next.at[group[1]] = start + 1 - 1
        BY <2>6, <4>1
      <4>3. QED
        BY <4>1, <4>2
    <3>2. CASE g \in 1..i
      <4>1. 1 \in 1..Len(gs[g])
        BY <1>1
      <4>2. QED
        BY <2>4, <2>7, <3>2, <4>1 DEF LaidOut
    <3>3. QED
      BY <1>1, <3>1, <3>2
  <2>10. ASSUME NEW g \in 1..i
         PROVE  next.at[gs[g + 1][1]] >= next.at[gs[g][Len(gs[g])]] + stride
    <3>1. 1 \in 1..Len(gs[g]) /\ Len(gs[g]) \in 1..Len(gs[g])
      BY <1>1
    <3>2. CASE g = i
      <4>1. acc.frontier = acc.at[gs[i][Len(gs[i])]] + stride
        BY <1>5, <3>2 DEF ResetInv, stride
      <4>2. next.at[group[1]] = start
        <5>1. 1 \in 1..Len(group) /\ start \in Nat
          BY <1>1
        <5>2. next.at[group[1]] = start + 1 - 1
          BY <2>6, <5>1
        <5>3. QED
          BY <5>1, <5>2
      <4>3. QED
        BY <2>1, <2>7, <3>1, <3>2, <4>1, <4>2 DEF group
    <3>3. CASE g + 1 \in 1..i
      <4>1. 1 \in 1..Len(gs[g + 1])
        BY <1>1, <3>3
      <4>2. QED
        BY <2>4, <2>7, <3>1, <3>3, <4>1 DEF LaidOut
    <3>4. QED
      BY <1>1, <3>2, <3>3
  <2>11. LaidOut(next.at, gs, i + 1, stride)
    <3>1. \A g \in 1..(i + 1) : g + 1 \in 1..(i + 1) => g \in 1..i
      BY <1>1
    <3>2. QED
      BY <2>9, <2>10, <3>1 DEF LaidOut
  <2>12. i + 1 > 0 => next.frontier = next.at[gs[i + 1][Len(gs[i + 1])]] + stride
    BY <2>8 DEF group
  <2>13. QED
    BY <2>3, <2>5, <2>11, <2>12 DEF ResetInv, next, stride, group
<1>6. QED
  BY <1>3, <1>4, <1>5

LEMMA ResetInvHolds ==
    ASSUME NEW cfg \in Config, NEW outside \in SUBSET Nat,
           NEW s \in Seq(Channels), NEW gs \in Blocks, Grouping(gs, s, Len(s)),
           NEW run, ResetRun(cfg, outside, gs, run),
           \A i \in 0..Len(gs) : run[i] \in ResetAcc
    PROVE  \A i \in 0..Len(gs) : ResetInv(cfg, outside, gs, run[i], i)
<1> DEFINE n == Len(gs)
           S == {i \in 0..n : ResetInv(cfg, outside, gs, run[i], i)}
<1>1. n \in Nat
  BY DEF Blocks
<1>2. 0 \in S
  <2>1. /\ run[0].at = Nowhere /\ run[0].used = outside
        /\ 0 \in 0..n /\ ~(0 > 0)
    BY <1>1 DEF ResetRun
  <2>2. PlacedBy(Nowhere) = {} /\ Nowhere \in [Channels -> Nat]
    BY DEF PlacedBy, Nowhere, NoNumber
  <2>3. InGroups(gs, 0) = {}
    BY DEF InGroups
  <2>4. LaidOut(Nowhere, gs, 0, Step(cfg))
    BY DEF LaidOut
  <2>a. Apart(Nowhere, outside, outside)
    BY <2>2 DEF Apart
  <2>5. ResetInv(cfg, outside, gs, run[0], 0)
    BY <2>1, <2>2, <2>3, <2>4, <2>a DEF ResetInv
  <2>6. QED
    BY <1>1, <2>5
<1>3. ASSUME NEW k \in 0..(n - 1), k \in S
      PROVE  k + 1 \in S
  <2>1. run[k + 1] = ResetGroup(cfg, run[(k + 1) - 1], gs[k + 1])
    <3>1. k + 1 \in 0..n /\ k + 1 # 0
      BY <1>1
    <3>2. QED
      BY <3>1 DEF ResetRun
  <2>2. (k + 1) - 1 = k /\ run[k] \in ResetAcc /\ k \in 0..n /\ k + 1 \in 0..n
    BY <1>1
  <2>3. ResetInv(cfg, outside, gs, run[k], k)
    BY <1>3
  <2>4. run[k + 1] = ResetGroup(cfg, run[k], gs[k + 1])
    BY <2>1, <2>2
  <2>5. ResetInv(cfg, outside, gs, ResetGroup(cfg, run[k], gs[k + 1]), k + 1)
    BY <2>2, <2>3, ResetStep
  <2>6. QED
    BY <2>2, <2>4, <2>5
<1> HIDE DEF S
<1>4. \A i \in 0..n : i \in S
  BY <1>1, <1>2, <1>3, UpTo
<1>5. QED
  BY <1>4 DEF S


\* What every layout but the manual one guarantees, where kept are the channels
\* that it leaves where they are: whoever it places gets a number of its own,
\* that no foreign channel and nobody who is kept has, and it places everybody
\* else or says that the range ran out.
Sound(l, outside, s, kept, olds) ==
    /\ l.at \in [Channels -> Nat] /\ l.stop \in BOOLEAN
    /\ PlacedBy(l.at) \subseteq ToSet(s) \ kept
    /\ \A c \in PlacedBy(l.at) : l.at[c] \notin outside
    /\ \A c \in PlacedBy(l.at) : \A d \in kept : l.at[c] # olds[d]
    /\ \A c, d \in PlacedBy(l.at) : l.at[c] = l.at[d] => c = d
    /\ ~l.stop => ToSet(s) \ kept \subseteq PlacedBy(l.at)

\* The order in which a re-layout places: see LaidOutInOrder.
Ordered(at, s, stride) ==
    \A p \in 1..(Len(s) - 1) :
       IF EventOf[s[p]] = EventOf[s[p + 1]] THEN at[s[p + 1]] = at[s[p]] + 1
       ELSE at[s[p + 1]] >= at[s[p]] + stride

LEMMA ResetLayoutIs ==
    ASSUME NEW cfg \in Config, NEW outside \in SUBSET Nat,
           NEW s \in Seq(Channels), Once(s), NEW olds
    PROVE  /\ Sound(ResetLayout(cfg, outside, s), outside, s, {}, olds)
           /\ LET l == ResetLayout(cfg, outside, s)
              IN  ~l.stop => Ordered(l.at, s, Step(cfg))
<1> DEFINE gs == Groups(s)
           n == Len(gs)
           l == ResetLayout(cfg, outside, s)
<1>1. gs \in Blocks /\ Grouping(gs, s, Len(s)) /\ n \in Nat
  BY GroupsAre DEF Blocks
<1>2. PICK run : /\ ResetRun(cfg, outside, gs, run)
                 /\ \A i \in 0..n : run[i] \in ResetAcc
                 /\ l = [at |-> run[n].at, stop |-> run[n].stop]
  BY <1>1, ResetRunExists
<1> HIDE DEF gs, l
<1>3. ResetInv(cfg, outside, gs, run[n], n) /\ run[n] \in ResetAcc
  <2>1. n \in 0..n
    BY <1>1
  <2>2. QED
    BY <1>1, <1>2, <2>1, ResetInvHolds
<1>4. InGroups(gs, n) = ToSet(s)
  BY <1>1, InGroupsIs
<1>5. l.at = run[n].at /\ l.stop = run[n].stop
  BY <1>2
<1>6. Sound(l, outside, s, {}, olds)
  BY <1>3, <1>4, <1>5 DEF Sound, ResetInv, Apart, ResetAcc
<1>7. ASSUME ~l.stop, NEW p \in 1..(Len(s) - 1)
      PROVE  IF EventOf[s[p]] = EventOf[s[p + 1]]
             THEN l.at[s[p + 1]] = l.at[s[p]] + 1
             ELSE l.at[s[p + 1]] >= l.at[s[p]] + Step(cfg)
  <2>1. LaidOut(l.at, gs, n, Step(cfg)) /\ l.at \in [Channels -> Nat]
    BY <1>3, <1>5, <1>7 DEF ResetInv, Apart
  <2>2. Neighboured(gs, s[p], s[p + 1])
    BY <1>1 DEF Grouping
  <2>3. PICK g \in 1..n :
          \/ /\ EventOf[s[p]] = EventOf[s[p + 1]]
             /\ \E j \in 1..(Len(gs[g]) - 1) :
                   gs[g][j] = s[p] /\ gs[g][j + 1] = s[p + 1]
          \/ /\ EventOf[s[p]] # EventOf[s[p + 1]]
             /\ g + 1 \in 1..n
             /\ gs[g][Len(gs[g])] = s[p] /\ gs[g + 1][1] = s[p + 1]
    BY <2>2 DEF Neighboured
  <2>4. CASE /\ EventOf[s[p]] = EventOf[s[p + 1]]
             /\ \E j \in 1..(Len(gs[g]) - 1) :
                   gs[g][j] = s[p] /\ gs[g][j + 1] = s[p + 1]
    <3>1. PICK j \in 1..(Len(gs[g]) - 1) :
             gs[g][j] = s[p] /\ gs[g][j + 1] = s[p + 1]
      BY <2>4
    <3>2. gs[g] \in Seq(Channels) /\ Len(gs[g]) \in Nat \ {0}
      BY <1>1 DEF Blocks
    <3>3. 1 \in 1..Len(gs[g]) /\ j \in 1..Len(gs[g]) /\ j + 1 \in 1..Len(gs[g])
      BY <3>2
    <3>4. /\ l.at[s[p]] = l.at[gs[g][1]] + j - 1
          /\ l.at[s[p + 1]] = l.at[gs[g][1]] + (j + 1) - 1
      BY <2>1, <3>1, <3>3 DEF LaidOut
    <3>5. gs[g][1] \in Channels
      BY <3>2, <3>3
    <3>6. l.at[gs[g][1]] \in Nat
      BY <2>1, <3>5
    <3>7. j \in Nat
      BY <3>2, <3>3
    <3>8. l.at[s[p + 1]] = l.at[s[p]] + 1
      <4>1. PICK a \in Nat : a = l.at[gs[g][1]]
        BY <3>6
      <4>2. l.at[s[p]] = a + j - 1 /\ l.at[s[p + 1]] = a + (j + 1) - 1
        BY <3>4, <4>1
      <4>3. a + (j + 1) - 1 = (a + j - 1) + 1
        BY <3>7
      <4>4. QED
        BY <4>2, <4>3, Zenon
    <3>9. QED
      BY <2>4, <3>8
  <2>5. CASE /\ EventOf[s[p]] # EventOf[s[p + 1]]
             /\ g + 1 \in 1..n
             /\ gs[g][Len(gs[g])] = s[p] /\ gs[g + 1][1] = s[p + 1]
    BY <2>1, <2>5 DEF LaidOut
  <2>6. QED
    BY <2>3, <2>4, <2>5
<1>8. QED
  BY <1>6, <1>7 DEF Ordered, l

-----------------------------------------------------------------------------
(* The compact layout *)

\* The next number that is not foreign: there is one within as many numbers as
\* there are foreign ones.
LEMMA SkipExternalIs ==
    ASSUME NEW outside \in SUBSET Nat, IsFiniteSet(outside), NEW n \in Nat
    PROVE  LET x == SkipExternal(outside, n)
           IN  x \in Nat /\ x >= n /\ x \notin outside
<1> DEFINE N == Cardinality(outside)
           good(x) == x \notin outside /\ n..(x - 1) \subseteq outside
<1>1. N \in Nat
  BY FS_CardinalityType
<1>2. \E x \in n..(n + N) : x \notin outside
  <2> SUFFICES ASSUME n..(n + N) \subseteq outside PROVE FALSE
    OBVIOUS
  <2>1. Cardinality(n..(n + N)) <= N
    BY FS_Subset
  <2>2. n \in Int /\ n + N \in Int /\ ~(n > n + N)
    BY <1>1
  <2> HIDE DEF N
  <2>3. Cardinality(n..(n + N)) = (n + N) - n + 1
    BY <2>2, FS_Interval
  <2>4. QED
    BY <1>1, <2>1, <2>3
<1> DEFINE free == {x \in n..(n + N) : x \notin outside}
<1>3. free \subseteq Nat /\ free # {}
  BY <1>1, <1>2
<1> HIDE DEF N
<1>4. PICK x \in free : \A y \in free : x <= y
  <2> HIDE DEF free
  <2>1. QED
    BY <1>3, LeastElement
<1>5. x \in n..(n + N) /\ good(x)
  BY <1>1, <1>4
<1>6. /\ SkipExternal(outside, n) \in n..(n + N)
      /\ SkipExternal(outside, n) \notin outside
  BY <1>5 DEF SkipExternal, N
<1>7. QED
  BY <1>1, <1>6

CompactAcc == [at : [Channels -> Nat], stop : BOOLEAN, next : Nat \ {0}]

LEMMA CompactPlaceType ==
    ASSUME NEW cfg \in Config, NEW outside \in SUBSET Nat, IsFiniteSet(outside),
           NEW acc \in CompactAcc, NEW c \in Channels
    PROVE  LET next == CompactPlace(cfg, outside, acc, c)
           IN  /\ next \in CompactAcc
               /\ \/ next.stop /\ next.at = acc.at /\ next.next = acc.next
                  \/ /\ ~acc.stop /\ ~next.stop
                     /\ next.at = [acc.at EXCEPT ![c] = acc.next]
                     /\ next.next > acc.next /\ next.next \notin outside
<1> DEFINE skip == SkipExternal(outside, acc.next + 1)
<1>1. skip \in Nat /\ skip >= acc.next + 1 /\ skip \notin outside
  <2>1. acc.next + 1 \in Nat
    BY DEF CompactAcc
  <2>2. QED
    BY <2>1, SkipExternalIs
<1> HIDE DEF skip
<1>2. CASE acc.stop \/ acc.next > cfg.last
  BY <1>2 DEF CompactPlace, CompactAcc
<1>3. CASE ~(acc.stop \/ acc.next > cfg.last)
  <2>1. CompactPlace(cfg, outside, acc, c)
          = [at |-> [acc.at EXCEPT ![c] = acc.next], stop |-> FALSE, next |-> skip]
    BY <1>3 DEF CompactPlace, skip
  <2>2. QED
    BY <1>1, <1>3, <2>1 DEF CompactAcc
<1>4. QED
  BY <1>2, <1>3


\* What the pass has done after i channels.
CompactRun(cfg, outside, s, run) ==
    run = [i \in 0..Len(s) |->
             IF i = 0 THEN [at |-> Nowhere, stop |-> FALSE,
                            next |-> SkipExternal(outside, cfg.first)]
             ELSE CompactPlace(cfg, outside, run[i - 1], s[i])]

LEMMA CompactRunExists ==
    ASSUME NEW cfg \in Config, NEW outside \in SUBSET Nat, IsFiniteSet(outside),
           NEW s \in Seq(Channels)
    PROVE  \E run : /\ CompactRun(cfg, outside, s, run)
                    /\ \A i \in 0..Len(s) : run[i] \in CompactAcc
                    /\ LET end == run[Len(s)]
                       IN  CompactLayout(cfg, outside, s)
                             = [at |-> end.at, stop |-> end.stop]
<1> DEFINE n == Len(s)
           base == [at |-> Nowhere, stop |-> FALSE,
                    next |-> SkipExternal(outside, cfg.first)]
           G == [i \in 1..n |-> [acc \in CompactAcc |->
                                   CompactPlace(cfg, outside, acc, s[i])]]
           F(f) == [i \in 0..n |-> IF i = 0 THEN base
                                   ELSE CompactPlace(cfg, outside, f[i - 1], s[i])]
           run == CHOOSE f : f = F(f)
<1>1. n \in Nat /\ \A i \in 1..n : s[i] \in Channels
  OBVIOUS
<1>2. base \in CompactAcc
  <2>1. cfg.first \in Nat \ {0}
    BY DEF Config
  <2>2. SkipExternal(outside, cfg.first) \in Nat \ {0}
    <3>1. cfg.first \in Nat
      BY <2>1
    <3>2. SkipExternal(outside, cfg.first) \in Nat
          /\ SkipExternal(outside, cfg.first) >= cfg.first
      BY <3>1, SkipExternalIs
    <3>3. QED
      BY <2>1, <3>2
  <2>3. QED
    BY <2>2 DEF CompactAcc, Nowhere, NoNumber
<1> HIDE DEF n, base
<1>3. G \in [1..n -> [CompactAcc -> CompactAcc]]
  <2>1. ASSUME NEW i \in 1..n, NEW acc \in CompactAcc
        PROVE  CompactPlace(cfg, outside, acc, s[i]) \in CompactAcc
    <3>1. s[i] \in Channels
      BY <1>1
    <3>2. QED
      BY <3>1, CompactPlaceType
  <2>2. QED
    BY <2>1
<1>4. PICK f : f \in Runs(CompactAcc, n, base, G)
  <2> HIDE DEF G
  <2>1. Runs(CompactAcc, n, base, G) # {}
    BY <1>1, <1>2, <1>3, RunExists, Zenon
  <2>2. QED
    BY <2>1
<1>5. /\ f \in [0..n -> CompactAcc] /\ f[0] = base
      /\ \A i \in 1..n : f[i] = G[i][f[i - 1]]
  <2> HIDE DEF G
  <2>1. QED
    BY <1>4 DEF Runs
<1>6. ASSUME NEW i \in 1..n
      PROVE  f[i] = CompactPlace(cfg, outside, f[i - 1], s[i])
  <2>1. f[i - 1] \in CompactAcc
    BY <1>1, <1>5
  <2>2. G[i][f[i - 1]] = CompactPlace(cfg, outside, f[i - 1], s[i])
    BY <2>1
  <2>3. QED
    BY <1>5, <2>2
<1>7. f = F(f)
  BY <1>1, <1>5, <1>6
<1>8. run = F(run)
  <2> HIDE DEF F
  <2>1. QED
    BY <1>7
<1>9. CompactLayout(cfg, outside, s) = [at |-> run[n].at, stop |-> run[n].stop]
  BY DEF CompactLayout, Iterate, n, base
<1> HIDE DEF run
<1>10. \A i \in 0..n : run[i] \in CompactAcc
  <2> DEFINE S == {i \in 0..n : run[i] \in CompactAcc}
  <2>1. 0 \in S
    BY <1>1, <1>2, <1>8
  <2>2. ASSUME NEW k \in 0..(n - 1), k \in S
        PROVE  k + 1 \in S
    <3>1. run[k + 1] = CompactPlace(cfg, outside, run[k], s[k + 1]) /\ k + 1 \in 1..n
      BY <1>1, <1>8
    <3>2. s[k + 1] \in Channels /\ run[k] \in CompactAcc
      BY <1>1, <2>2, <3>1
    <3>3. CompactPlace(cfg, outside, run[k], s[k + 1]) \in CompactAcc
      BY <3>2, CompactPlaceType
    <3>4. QED
      BY <1>1, <3>1, <3>3
  <2> HIDE DEF S
  <2>3. \A i \in 0..n : i \in S
    BY <1>1, <2>1, <2>2, UpTo
  <2>4. QED
    BY <2>3 DEF S
<1>11. CompactRun(cfg, outside, s, run)
  BY <1>8 DEF CompactRun, n, base
<1>12. QED
  BY <1>9, <1>10, <1>11 DEF n

\* The numbers rise from channel to channel, below the next one to give.
CompactInv(outside, s, acc, i) ==
    /\ acc.next \notin outside
    /\ PlacedBy(acc.at) \subseteq {s[p] : p \in 1..i}
    /\ \A c \in PlacedBy(acc.at) : acc.at[c] < acc.next /\ acc.at[c] \notin outside
    /\ \A c, d \in PlacedBy(acc.at) : acc.at[c] = acc.at[d] => c = d
    /\ ~acc.stop => /\ \A p \in 1..i : acc.at[s[p]] # NoNumber
                    /\ \A p \in 1..i : p + 1 \in 1..i =>
                          acc.at[s[p]] < acc.at[s[p + 1]]

LEMMA CompactStep ==
    ASSUME NEW cfg \in Config, NEW outside \in SUBSET Nat, IsFiniteSet(outside),
           NEW s \in Seq(Channels), Once(s),
           NEW i \in 0..(Len(s) - 1), NEW acc \in CompactAcc,
           CompactInv(outside, s, acc, i)
    PROVE  CompactInv(outside, s, CompactPlace(cfg, outside, acc, s[i + 1]), i + 1)
<1> DEFINE c == s[i + 1]
           next == CompactPlace(cfg, outside, acc, c)
<1>1. /\ i \in Nat /\ i + 1 \in 1..Len(s) /\ c \in Channels
      /\ acc.at \in [Channels -> Nat] /\ acc.next \in Nat \ {0}
      /\ 1..(i + 1) = 1..i \cup {i + 1}
      /\ \A p \in 1..i : s[p] # c /\ s[p] \in Channels
  BY DEF CompactAcc, Once
<1>2. /\ next \in CompactAcc
      /\ \/ next.stop /\ next.at = acc.at /\ next.next = acc.next
         \/ /\ ~acc.stop /\ ~next.stop
            /\ next.at = [acc.at EXCEPT ![c] = acc.next]
            /\ next.next > acc.next /\ next.next \notin outside
  BY <1>1, CompactPlaceType
<1>3. {s[p] : p \in 1..(i + 1)} = {s[p] : p \in 1..i} \cup {c}
  BY <1>1
<1> HIDE DEF c, next
<1>4. CASE next.stop /\ next.at = acc.at /\ next.next = acc.next
  BY <1>3, <1>4 DEF CompactInv, c, next
<1>5. CASE /\ ~acc.stop /\ ~next.stop
           /\ next.at = [acc.at EXCEPT ![c] = acc.next]
           /\ next.next > acc.next /\ next.next \notin outside
  <2>1. /\ next.at[c] = acc.next
        /\ \A d \in Channels \ {c} : next.at[d] = acc.at[d]
    BY <1>1, <1>5
  <2>2. c \notin PlacedBy(acc.at)
    BY <1>1 DEF CompactInv
  <2>3. PlacedBy(next.at) = PlacedBy(acc.at) \cup {c}
    BY <1>1, <2>1 DEF PlacedBy, NoNumber
  <2>4. \A d \in PlacedBy(acc.at) : d # c /\ next.at[d] = acc.at[d]
    BY <2>1, <2>2 DEF PlacedBy
  <2>5. \A d \in PlacedBy(next.at) : next.at[d] < next.next /\ next.at[d] \notin outside
    <3>1. acc.next \notin outside /\ next.next \in Nat
      BY <1>2 DEF CompactInv, CompactAcc
    <3>2. ASSUME NEW d \in PlacedBy(acc.at)
          PROVE  next.at[d] < next.next /\ next.at[d] \notin outside
      <4>1. acc.at[d] < acc.next /\ acc.at[d] \notin outside /\ acc.at[d] \in Nat
        BY <1>1 DEF CompactInv, PlacedBy
      <4>2. QED
        BY <1>1, <1>5, <2>4, <3>1, <4>1
    <3>3. QED
      BY <1>5, <2>1, <2>3, <3>1, <3>2
  <2>6. \A d \in PlacedBy(acc.at) : next.at[d] # next.at[c]
    BY <1>1, <2>1, <2>4 DEF CompactInv, PlacedBy
  <2>7. \A d, e \in PlacedBy(next.at) : next.at[d] = next.at[e] => d = e
    BY <2>3, <2>4, <2>6 DEF CompactInv
  <2>8. \A p \in 1..i : acc.at[s[p]] # NoNumber /\ s[p] \in PlacedBy(acc.at)
    BY <1>1, <1>5 DEF CompactInv, PlacedBy
  <2>9. \A p \in 1..(i + 1) : next.at[s[p]] # NoNumber
    BY <1>1, <2>1, <2>8 DEF c, NoNumber
  <2>10. ASSUME NEW p \in 1..i
         PROVE  next.at[s[p]] < next.at[s[p + 1]]
    <3>1. CASE p = i
      BY <1>1, <2>1, <2>4, <2>8, <3>1 DEF CompactInv, c
    <3>2. CASE p + 1 \in 1..i
      BY <1>5, <2>4, <2>8, <3>2 DEF CompactInv
    <3>3. QED
      BY <1>1, <3>1, <3>2
  <2>11. \A p \in 1..(i + 1) : p + 1 \in 1..(i + 1) => p \in 1..i
    BY <1>1
  <2>12. PlacedBy(next.at) \subseteq {s[p] : p \in 1..(i + 1)}
    BY <1>3, <2>3 DEF CompactInv
  <2>13. CompactInv(outside, s, next, i + 1)
    BY <1>5, <2>5, <2>7, <2>9, <2>10, <2>11, <2>12 DEF CompactInv
  <2>14. QED
    BY <2>13 DEF next, c
<1>6. QED
  BY <1>2, <1>4, <1>5

\* A compact layout puts everybody it places in their order.
Rising(at, s) == \A p \in 1..(Len(s) - 1) : at[s[p]] < at[s[p + 1]]

LEMMA CompactLayoutIs ==
    ASSUME NEW cfg \in Config, NEW outside \in SUBSET Nat, IsFiniteSet(outside),
           NEW s \in Seq(Channels), Once(s), NEW olds
    PROVE  /\ Sound(CompactLayout(cfg, outside, s), outside, s, {}, olds)
           /\ LET l == CompactLayout(cfg, outside, s)
              IN  ~l.stop => Rising(l.at, s)
<1> DEFINE n == Len(s)
           l == CompactLayout(cfg, outside, s)
<1>1. n \in Nat
  OBVIOUS
<1>2. PICK run : /\ CompactRun(cfg, outside, s, run)
                 /\ \A i \in 0..n : run[i] \in CompactAcc
                 /\ l = [at |-> run[n].at, stop |-> run[n].stop]
  BY CompactRunExists
<1> HIDE DEF l
<1> DEFINE S == {i \in 0..n : CompactInv(outside, s, run[i], i)}
<1>3. 0 \in S
  <2>1. /\ run[0].at = Nowhere /\ 0 \in 0..n
        /\ run[0].next = SkipExternal(outside, cfg.first)
    BY <1>1, <1>2 DEF CompactRun
  <2>2. PlacedBy(Nowhere) = {}
    BY DEF PlacedBy, Nowhere, NoNumber
  <2>3. run[0].next \notin outside
    <3>1. cfg.first \in Nat
      BY DEF Config
    <3>2. QED
      BY <2>1, <3>1, SkipExternalIs
  <2>4. QED
    BY <2>1, <2>2, <2>3 DEF CompactInv
<1>4. ASSUME NEW k \in 0..(n - 1), k \in S
      PROVE  k + 1 \in S
  <2>1. /\ run[k + 1] = CompactPlace(cfg, outside, run[k], s[k + 1])
        /\ run[k] \in CompactAcc /\ k + 1 \in 0..n
    <3>1. k + 1 \in 0..n /\ k + 1 # 0 /\ (k + 1) - 1 = k /\ k \in 0..n
      BY <1>1
    <3>2. run[k + 1] = CompactPlace(cfg, outside, run[(k + 1) - 1], s[k + 1])
      BY <1>2, <3>1 DEF CompactRun
    <3>3. QED
      BY <1>2, <3>1, <3>2
  <2>2. CompactInv(outside, s, run[k], k)
    BY <1>4
  <2>3. CompactInv(outside, s, CompactPlace(cfg, outside, run[k], s[k + 1]), k + 1)
    BY <2>1, <2>2, CompactStep
  <2>4. QED
    BY <2>1, <2>3
<1>5. CompactInv(outside, s, run[n], n) /\ run[n] \in CompactAcc
  <2> HIDE DEF S
  <2>1. \A i \in 0..n : i \in S
    BY <1>1, <1>3, <1>4, UpTo
  <2>2. n \in S /\ n \in 0..n
    BY <1>1, <2>1
  <2>3. QED
    BY <1>2, <2>2 DEF S
<1>6. l.at = run[n].at /\ l.stop = run[n].stop
  BY <1>2
<1>7. {s[p] : p \in 1..n} = ToSet(s)
  BY DEF ToSet
<1>8. Sound(l, outside, s, {}, olds)
  <2>1. l.at \in [Channels -> Nat] /\ l.stop \in BOOLEAN
    BY <1>5, <1>6 DEF CompactAcc
  <2>2. ~l.stop => ToSet(s) \subseteq PlacedBy(l.at)
    BY <1>5, <1>6, <1>7 DEF CompactInv, PlacedBy
  <2>3. QED
    BY <1>5, <1>6, <1>7, <2>1, <2>2 DEF Sound, CompactInv
<1>9. ~l.stop => Rising(l.at, s)
  <2>1. \A p \in 1..(n - 1) : p \in 1..n /\ p + 1 \in 1..n
    BY <1>1
  <2>2. QED
    BY <1>5, <1>6, <2>1 DEF Rising, CompactInv
<1>10. QED
  BY <1>8, <1>9 DEF l


-----------------------------------------------------------------------------
(* The sticky layout *)

\* What a pass keeps: nobody placed has a number to avoid, or that of another,
\* and nothing is taken past the end of the range.
StickyAccs(cfg, avoid) ==
    {acc \in [at : [Channels -> Nat], used : SUBSET Nat,
              taken : SUBSET (0..cfg.last), lo : Nat, stop : BOOLEAN] :
        Apart(acc.at, acc.used, avoid)}

\* The pass has placed the channels P, or fewer if it stopped.
HasPlaced(cfg, avoid, P, acc) ==
    /\ acc \in StickyAccs(cfg, avoid)
    /\ PlacedBy(acc.at) \subseteq P
    /\ ~acc.stop => PlacedBy(acc.at) = P

\* Where k free numbers start, if there are any.
FreeStart(cfg, used, x, k) ==
    /\ x \in Nat
    /\ x # NoNumber => x + k - 1 <= cfg.last /\ Run(x, k) \cap used = {}

LEMMA GapStartIs ==
    ASSUME NEW cfg \in Config, NEW n \in Nat
    PROVE  GapStart(cfg, n) \in Nat \ {0}
<1>1. cfg.first \in Nat \ {0} /\ Step(cfg) \in Nat \ {0}
  BY StepIs DEF Config
<1>2. QED
  BY <1>1 DEF GapStart

LEMMA AppendBlockIs ==
    ASSUME NEW cfg \in Config, NEW used, NEW taken \in SUBSET (0..cfg.last),
           NEW k \in Nat \ {0}
    PROVE  FreeStart(cfg, used, AppendBlock(cfg, used, taken, k), k)
<1> DEFINE base  == Greatest(taken, cfg.first - 1)
           start == IF cfg.mode = "gap" THEN GapStart(cfg, base)
                    ELSE Max({base + 1, cfg.first})
           S == {x \in start..(cfg.last - k + 1) :
                    (x - start) % Step(cfg) = 0 /\ Run(x, k) \cap used = {}}
<1>1. cfg.first \in Nat \ {0} /\ cfg.last \in Nat
  BY DEF Config
<1>2. base \in Nat
  <2>1. CASE taken = {}
    BY <1>1, <2>1 DEF Greatest
  <2>2. CASE taken # {}
    <3>1. Max(taken) \in taken
      BY <1>1, <2>2, MaxIsGreatest
    <3>2. Max(taken) \in Nat
      <4>1. taken \subseteq 0..cfg.last /\ 0..cfg.last \subseteq Nat
        BY <1>1
      <4>2. QED
        BY <3>1, <4>1
    <3>3. base = Max(taken)
      BY <2>2 DEF Greatest
    <3>4. QED
      BY <3>2, <3>3
  <2>3. QED
    BY <2>1, <2>2
<1> HIDE DEF base
<1>3. start \in Nat \ {0}
  <2>1. GapStart(cfg, base) \in Nat \ {0}
    BY <1>2, GapStartIs
  <2>2. Max({base + 1, cfg.first}) \in Nat \ {0}
    BY <1>1, <1>2, MaxOfTwo
  <2>3. QED
    BY <2>1, <2>2
<1> HIDE DEF start
<1>4. \A x \in S : /\ x \in Nat \ {0} /\ x + k - 1 <= cfg.last
                   /\ Run(x, k) \cap used = {}
  BY <1>1, <1>3
<1>5. AppendBlock(cfg, used, taken, k) = Least(S)
  BY DEF AppendBlock, start, base
<1> HIDE DEF S
<1>6. S \subseteq Nat
  BY <1>4
<1>7. /\ Least(S) \in Nat
      /\ Least(S) # NoNumber => Least(S) \in S
  BY <1>6, LeastIs DEF NoNumber
<1>8. QED
  BY <1>4, <1>5, <1>7 DEF FreeStart

LEMMA FreeRunIs ==
    ASSUME NEW cfg \in Config, NEW used, NEW lo \in Int, NEW hi \in Int,
           NEW k \in Nat \ {0}
    PROVE  FreeStart(cfg, used, FirstFreeRun(cfg, used, lo, hi, k), k)
BY FirstFreeRunIs DEF FreeStart

LEMMA BlockStartIs ==
    ASSUME NEW cfg \in Config, NEW avoid, NEW acc \in StickyAccs(cfg, avoid),
           NEW hi \in Int, NEW k \in Nat \ {0}
    PROVE  FreeStart(cfg, acc.used, BlockStart(cfg, acc, hi, k), k)
<1> DEFINE spaced == FirstFreeRun(cfg, acc.used, GapStart(cfg, acc.lo), hi, k)
           tight  == FirstFreeRun(cfg, acc.used, acc.lo + 1, hi, k)
           append == AppendBlock(cfg, acc.used, acc.taken, k)
<1>1. acc.lo \in Nat /\ acc.taken \in SUBSET (0..cfg.last)
  BY DEF StickyAccs
<1>2. FreeStart(cfg, acc.used, spaced, k)
  <2>1. GapStart(cfg, acc.lo) \in Int
    BY <1>1, GapStartIs
  <2>2. QED
    BY <2>1, FreeRunIs
<1>3. FreeStart(cfg, acc.used, tight, k)
  <2>1. acc.lo + 1 \in Int
    BY <1>1
  <2>2. QED
    BY <2>1, FreeRunIs
<1>4. FreeStart(cfg, acc.used, append, k)
  BY <1>1, AppendBlockIs
<1>5. BlockStart(cfg, acc, hi, k)
        = CASE cfg.mode = "gap" /\ spaced # NoNumber -> spaced
            [] cfg.mode = "gap" /\ spaced = NoNumber /\ tight # NoNumber -> tight
            [] OTHER -> append
  BY DEF BlockStart
<1> HIDE DEF spaced, tight, append
<1>6. QED
  BY <1>2, <1>3, <1>4, <1>5

LEMMA FeedStartIs ==
    ASSUME NEW cfg \in Config, NEW avoid, NEW acc \in StickyAccs(cfg, avoid),
           NEW hi \in Int
    PROVE  FreeStart(cfg, acc.used, FeedStart(cfg, acc, hi), 1)
<1> DEFINE next   == FirstFreeRun(cfg, acc.used, acc.lo + 1, hi, 1)
           append == AppendBlock(cfg, acc.used, acc.taken, 1)
<1>1. /\ acc.lo + 1 \in Int /\ acc.taken \in SUBSET (0..cfg.last)
      /\ 1 \in Nat \ {0}
  BY DEF StickyAccs
<1>2. FreeStart(cfg, acc.used, next, 1)
  BY <1>1, FreeRunIs
<1>3. FreeStart(cfg, acc.used, append, 1)
  BY <1>1, AppendBlockIs
<1>4. FeedStart(cfg, acc, hi) = IF next # NoNumber THEN next ELSE append
  BY DEF FeedStart
<1> HIDE DEF next, append
<1>5. QED
  BY <1>2, <1>3, <1>4

\* A claim places the group, on numbers that it then marks as used.
LEMMA ClaimIs ==
    ASSUME NEW cfg \in Config, NEW avoid, NEW P, NEW acc,
           HasPlaced(cfg, avoid, P, acc),
           NEW group \in Seq(Channels), group # <<>>, Once(group),
           NEW start, FreeStart(cfg, acc.used, start, Len(group))
    PROVE  HasPlaced(cfg, avoid, P \cup ToSet(group), Claim(acc, group, start))
<1> DEFINE k == Len(group)
           run == Run(start, k)
           next == Claim(acc, group, start)
<1>1. /\ acc \in [at : [Channels -> Nat], used : SUBSET Nat,
                  taken : SUBSET (0..cfg.last), lo : Nat, stop : BOOLEAN]
      /\ Apart(acc.at, acc.used, avoid)
      /\ PlacedBy(acc.at) \subseteq P
      /\ ~acc.stop => PlacedBy(acc.at) = P
  BY DEF HasPlaced, StickyAccs
<1>2. CASE acc.stop \/ start = NoNumber
  <2>1. next = [acc EXCEPT !.stop = TRUE]
    BY <1>2 DEF Claim
  <2>2. /\ next \in [at : [Channels -> Nat], used : SUBSET Nat,
                     taken : SUBSET (0..cfg.last), lo : Nat, stop : BOOLEAN]
        /\ next.at = acc.at /\ next.used = acc.used /\ next.stop
    BY <1>1, <2>1
  <2> HIDE DEF next
  <2>3. QED
    BY <1>1, <2>2 DEF HasPlaced, StickyAccs, next
<1>3. CASE ~(acc.stop \/ start = NoNumber)
  <2>1. next = [at    |-> PlaceGroup(acc.at, group, start),
                used  |-> acc.used \cup run,
                taken |-> acc.taken \cup run,
                lo    |-> Max(run),
                stop  |-> FALSE]
    BY <1>3 DEF Claim
  <2>2. /\ start \in Nat \ {0} /\ start + k - 1 <= cfg.last
        /\ run \cap acc.used = {} /\ k \in Nat \ {0} /\ cfg.last \in Nat
    BY <1>3 DEF FreeStart, NoNumber, Config
  <2> HIDE DEF next, k
  <2>3. run \subseteq 0..cfg.last /\ run # {} /\ run \subseteq Nat
    <3>1. start \in start..(start + k - 1)
      BY <2>2
    <3>2. start..(start + k - 1) \subseteq 0..cfg.last
      BY <2>2
    <3>3. run = start..(start + k - 1)
      BY DEF Run
    <3>4. 0..cfg.last \subseteq Nat
      BY <2>2
    <3> HIDE DEF run
    <3>5. run \subseteq 0..cfg.last /\ start \in run
      BY <3>1, <3>2, <3>3
    <3>6. QED
      BY <3>4, <3>5
  <2>4. Max(run) \in Nat
    <3>1. Max(run) \in run
      <4> HIDE DEF run
      <4>1. QED
        BY <2>2, <2>3, MaxIsGreatest
    <3>2. QED
      BY <2>3, <3>1
  <2>5. /\ Apart(PlaceGroup(acc.at, group, start), acc.used \cup run, avoid)
        /\ PlacedBy(PlaceGroup(acc.at, group, start))
             = PlacedBy(acc.at) \cup ToSet(group)
    <3>1. Apart(acc.at, acc.used, avoid)
      BY <1>1
    <3>2. Run(start, Len(group)) \cap acc.used = {} /\ start \in Nat \ {0}
      BY <2>2 DEF k
    <3>3. QED
      BY <3>1, <3>2, PlaceGroupApart DEF k
  <2>6. PlaceGroup(acc.at, group, start) \in [Channels -> Nat]
    BY <2>5 DEF Apart
  <2>7. acc.used \cup run \in SUBSET Nat /\ acc.taken \cup run \in SUBSET (0..cfg.last)
    BY <1>1, <2>3
  <2> HIDE DEF run
  <2>8. /\ next \in [at : [Channels -> Nat], used : SUBSET Nat,
                     taken : SUBSET (0..cfg.last), lo : Nat, stop : BOOLEAN]
        /\ next.at = PlaceGroup(acc.at, group, start)
        /\ next.used = acc.used \cup run /\ ~next.stop
    BY <2>1, <2>4, <2>6, <2>7
  <2>9. HasPlaced(cfg, avoid, P \cup ToSet(group), next)
    BY <1>1, <1>3, <2>5, <2>8 DEF HasPlaced, StickyAccs
  <2>10. QED
    BY <2>9 DEF next
<1>4. QED
  BY <1>2, <1>3

LEMMA StickyFeedIs ==
    ASSUME NEW cfg \in Config, NEW avoid, NEW anchors, NEW hi \in Int,
           NEW P, NEW acc, HasPlaced(cfg, avoid, P, acc), NEW c \in Channels
    PROVE  HasPlaced(cfg, avoid, P \cup ({c} \ anchors),
                     StickyFeed(cfg, anchors, hi, acc, c))
<1>1. CASE c \in anchors
  BY <1>1 DEF StickyFeed
<1>2. CASE c \notin anchors
  <2> DEFINE start == FeedStart(cfg, acc, hi)
             next == Claim(acc, <<c>>, start)
  <2>1. acc \in StickyAccs(cfg, avoid)
    BY DEF HasPlaced
  <2>2. FreeStart(cfg, acc.used, start, 1)
    BY <2>1, FeedStartIs
  <2>3. /\ <<c>> \in Seq(Channels) /\ <<c>> # <<>> /\ Len(<<c>>) = 1
        /\ ToSet(<<c>>) = {c}
    BY DEF ToSet
  <2>4. Once(<<c>>)
    BY DEF Once
  <2>5. StickyFeed(cfg, anchors, hi, acc, c)
          = [next EXCEPT !.lo = Max({next.lo, acc.lo})]
    BY <1>2 DEF StickyFeed, ClaimFeed
  <2> HIDE DEF start
  <2>6. HasPlaced(cfg, avoid, P \cup {c}, next)
    <3>1. FreeStart(cfg, acc.used, start, Len(<<c>>))
      BY <2>2, <2>3
    <3>2. HasPlaced(cfg, avoid, P \cup ToSet(<<c>>), Claim(acc, <<c>>, start))
      BY <2>3, <2>4, <3>1, ClaimIs
    <3>3. QED
      BY <2>3, <3>2
  <2> HIDE DEF next
  <2>7. next.lo \in Nat /\ acc.lo \in Nat
    BY <2>1, <2>6 DEF HasPlaced, StickyAccs
  <2>8. Max({next.lo, acc.lo}) \in Nat
    BY <2>7, MaxOfTwo
  <2>9. HasPlaced(cfg, avoid, P \cup {c}, [next EXCEPT !.lo = Max({next.lo, acc.lo})])
    BY <2>6, <2>8 DEF HasPlaced, StickyAccs
  <2>10. QED
    BY <1>2, <2>5, <2>9
<1>3. QED
  BY <1>1, <1>2


\* The feeds of an event with an anchored feed: those without an anchor are
\* placed, one after the other.
LEMMA FeedsAre ==
    ASSUME NEW cfg \in Config, NEW avoid, NEW anchors, NEW hi \in Int,
           NEW P, NEW acc, HasPlaced(cfg, avoid, P, acc),
           NEW group \in Seq(Channels)
    PROVE  HasPlaced(cfg, avoid, P \cup (ToSet(group) \ anchors),
                     StickyFeeds(cfg, anchors, hi, acc, group))
<1> DEFINE A == StickyAccs(cfg, avoid)
           n == Len(group)
           G == [i \in 1..n |-> [a \in A |->
                                   StickyFeed(cfg, anchors, hi, a, group[i])]]
           F(f) == [i \in 0..n |-> IF i = 0 THEN acc
                       ELSE StickyFeed(cfg, anchors, hi, f[i - 1], group[i])]
           run == CHOOSE f : f = F(f)
           upto(i) == P \cup ({group[p] : p \in 1..i} \ anchors)
<1>1. n \in Nat /\ (\A i \in 1..n : group[i] \in Channels) /\ acc \in A
  BY DEF HasPlaced
<1>2. ASSUME NEW i \in 1..n, NEW a \in A
      PROVE  StickyFeed(cfg, anchors, hi, a, group[i]) \in A
  <2>1. HasPlaced(cfg, avoid, PlacedBy(a.at), a) /\ group[i] \in Channels
    BY <1>1 DEF HasPlaced
  <2>2. HasPlaced(cfg, avoid, PlacedBy(a.at) \cup ({group[i]} \ anchors),
                  StickyFeed(cfg, anchors, hi, a, group[i]))
    BY <2>1, StickyFeedIs
  <2>3. QED
    BY <2>2 DEF HasPlaced
<1> HIDE DEF A, n
<1>3. G \in [1..n -> [A -> A]]
  BY <1>2
<1>4. PICK f : f \in Runs(A, n, acc, G)
  <2> HIDE DEF G
  <2>1. Runs(A, n, acc, G) # {}
    BY <1>1, <1>3, RunExists, Zenon
  <2>2. QED
    BY <2>1
<1>5. /\ f \in [0..n -> A] /\ f[0] = acc
      /\ \A i \in 1..n : f[i] = G[i][f[i - 1]]
  <2> HIDE DEF G
  <2>1. QED
    BY <1>4 DEF Runs
<1>6. ASSUME NEW i \in 1..n
      PROVE  f[i] = StickyFeed(cfg, anchors, hi, f[i - 1], group[i])
  <2>1. f[i - 1] \in A
    BY <1>1, <1>5
  <2>2. G[i][f[i - 1]] = StickyFeed(cfg, anchors, hi, f[i - 1], group[i])
    BY <2>1
  <2>3. QED
    BY <1>5, <2>2
<1>7. f = F(f)
  BY <1>1, <1>5, <1>6
<1>8. run = F(run)
  <2> HIDE DEF F
  <2>1. QED
    BY <1>7
<1>9. StickyFeeds(cfg, anchors, hi, acc, group) = run[n]
  BY DEF StickyFeeds, Iterate, n
<1> HIDE DEF run
<1>10. HasPlaced(cfg, avoid, upto(n), run[n])
  <2> DEFINE S == {i \in 0..n : HasPlaced(cfg, avoid, upto(i), run[i])}
  <2>1. 0 \in S
    <3>1. upto(0) = P /\ run[0] = acc /\ 0 \in 0..n
      BY <1>1, <1>8
    <3> HIDE DEF upto
    <3>2. QED
      BY <3>1
  <2>2. ASSUME NEW k \in 0..(n - 1), k \in S
        PROVE  k + 1 \in S
    <3>1. /\ run[k + 1] = StickyFeed(cfg, anchors, hi, run[k], group[k + 1])
          /\ k + 1 \in 1..n /\ k + 1 \in 0..n
      BY <1>1, <1>8
    <3>2. HasPlaced(cfg, avoid, upto(k), run[k])
      BY <2>2
    <3>3. 1..(k + 1) = 1..k \cup {k + 1}
      BY <1>1
    <3>4. upto(k + 1) = upto(k) \cup ({group[k + 1]} \ anchors)
      BY <3>3
    <3>5. group[k + 1] \in Channels
      BY <1>1, <3>1
    <3> HIDE DEF upto
    <3>6. HasPlaced(cfg, avoid, upto(k) \cup ({group[k + 1]} \ anchors),
                    StickyFeed(cfg, anchors, hi, run[k], group[k + 1]))
      BY <3>2, <3>5, StickyFeedIs
    <3>7. QED
      BY <3>1, <3>4, <3>6
  <2> HIDE DEF S
  <2>3. \A i \in 0..n : i \in S
    BY <1>1, <2>1, <2>2, UpTo
  <2>4. n \in S
    BY <1>1, <2>3
  <2>5. QED
    BY <2>4 DEF S
<1>11. upto(n) = P \cup (ToSet(group) \ anchors)
  BY DEF ToSet, n
<1>12. QED
  BY <1>9, <1>10, <1>11

LEMMA StickyGroupIs ==
    ASSUME NEW cfg \in Config, NEW avoid, NEW anchors, NEW hi \in Int,
           NEW olds, \A c \in anchors : olds[c] \in 0..cfg.last,
           NEW P, NEW acc, HasPlaced(cfg, avoid, P, acc),
           NEW group \in Seq(Channels), group # <<>>, Once(group)
    PROVE  HasPlaced(cfg, avoid, P \cup (ToSet(group) \ anchors),
                     StickyGroup(cfg, anchors, olds, acc, group, hi))
<1> DEFINE old  == {olds[c] : c \in ToSet(group) \cap anchors}
           past == [acc EXCEPT !.lo = Max({acc.lo} \cup old)]
           new  == P \cup (ToSet(group) \ anchors)
<1>1. acc \in StickyAccs(cfg, avoid) /\ acc.lo \in Nat /\ cfg.last \in Nat
  BY DEF HasPlaced, StickyAccs, Config
<1>2. CASE acc.stop
  <2>1. StickyGroup(cfg, anchors, olds, acc, group, hi) = acc
    BY <1>2 DEF StickyGroup
  <2>2. HasPlaced(cfg, avoid, new, acc)
    BY <1>2 DEF HasPlaced
  <2>3. QED
    BY <2>1, <2>2
<1>3. CASE ~acc.stop /\ old # {}
  <2>1. Max({acc.lo} \cup old) \in Nat
    <3>1. old \subseteq 0..cfg.last
      OBVIOUS
    <3> HIDE DEF old
    <3>2. {acc.lo} \cup old \subseteq 0..(acc.lo + cfg.last)
      <4>1. acc.lo \in 0..(acc.lo + cfg.last)
        BY <1>1
      <4>2. 0..cfg.last \subseteq 0..(acc.lo + cfg.last)
        BY <1>1
      <4>3. QED
        BY <3>1, <4>1, <4>2
    <3>3. acc.lo + cfg.last \in Nat /\ {acc.lo} \cup old # {}
      BY <1>1
    <3>4. Max({acc.lo} \cup old) \in {acc.lo} \cup old
      BY <3>2, <3>3, MaxIsGreatest
    <3>5. 0..(acc.lo + cfg.last) \subseteq Nat
      BY <3>3
    <3>6. QED
      BY <3>2, <3>4, <3>5
  <2>2. StickyGroup(cfg, anchors, olds, acc, group, hi)
          = StickyFeeds(cfg, anchors, hi, past, group)
    BY <1>3 DEF StickyGroup
  <2> HIDE DEF old
  <2>3. HasPlaced(cfg, avoid, P, past)
    BY <2>1 DEF HasPlaced, StickyAccs
  <2> HIDE DEF past
  <2>4. HasPlaced(cfg, avoid, P \cup (ToSet(group) \ anchors),
                  StickyFeeds(cfg, anchors, hi, past, group))
    BY <2>3, FeedsAre
  <2>5. QED
    BY <2>2, <2>4
<1>4. CASE ~acc.stop /\ old = {}
  <2> DEFINE start == BlockStart(cfg, acc, hi, Len(group))
  <2>1. ToSet(group) \cap anchors = {}
    BY <1>4
  <2>2. StickyGroup(cfg, anchors, olds, acc, group, hi) = Claim(acc, group, start)
    BY <1>4 DEF StickyGroup
  <2>3. Len(group) \in Nat \ {0}
    OBVIOUS
  <2>4. FreeStart(cfg, acc.used, start, Len(group))
    BY <1>1, <2>3, BlockStartIs
  <2> HIDE DEF start
  <2>5. HasPlaced(cfg, avoid, P \cup ToSet(group), Claim(acc, group, start))
    BY <2>4, ClaimIs
  <2>6. ToSet(group) \ anchors = ToSet(group)
    BY <2>1
  <2>7. QED
    BY <2>2, <2>5, <2>6
<1>5. QED
  BY <1>2, <1>3, <1>4


LEMMA BoundsAre ==
    ASSUME NEW cfg \in Config, NEW gs \in Blocks, NEW anchors,
           NEW olds, \A c \in anchors : olds[c] \in 0..cfg.last
    PROVE  \A i \in 1..Len(gs) : Bounds(cfg, gs, anchors, olds)[i] \in Int
<1> SUFFICES ASSUME NEW i \in 1..Len(gs)
             PROVE  Bounds(cfg, gs, anchors, olds)[i] \in Int
  OBVIOUS
<1> DEFINE anchored == {j \in (i + 1)..Len(gs) : ToSet(gs[j]) \cap anchors # {}}
           numbers  == {olds[c] : c \in ToSet(gs[Min(anchored)]) \cap anchors}
<1>1. Bounds(cfg, gs, anchors, olds)[i] = IF anchored = {} THEN cfg.last + 1
                                         ELSE Min(numbers)
  BY DEF Bounds
<1>2. cfg.last \in Nat /\ Len(gs) \in Nat
  BY DEF Config, Blocks
<1>3. ASSUME anchored # {}
      PROVE  Min(numbers) \in Int
  <2>1. anchored \subseteq Nat
    BY <1>2
  <2> DEFINE m == Min(anchored)
  <2>2. m \in anchored
    <3> HIDE DEF anchored
    <3>1. QED
      BY <1>3, <2>1, MinIsLeast
  <2> HIDE DEF m
  <2>3. ToSet(gs[m]) \cap anchors # {}
    BY <2>2
  <2>4. {olds[c] : c \in ToSet(gs[m]) \cap anchors} \subseteq Nat
    <3>1. 0..cfg.last \subseteq Nat
      BY <1>2
    <3>2. QED
      BY <3>1
  <2>5. {olds[c] : c \in ToSet(gs[m]) \cap anchors} # {}
    BY <2>3
  <2>6. Min({olds[c] : c \in ToSet(gs[m]) \cap anchors})
          \in {olds[c] : c \in ToSet(gs[m]) \cap anchors}
    BY <2>4, <2>5, MinIsLeast
  <2>7. Min({olds[c] : c \in ToSet(gs[m]) \cap anchors}) \in Int
    BY <2>4, <2>6
  <2>8. QED
    BY <2>7 DEF m
<1> HIDE DEF anchored, numbers
<1>4. QED
  BY <1>1, <1>2, <1>3

\* The numbers of the anchors.
Held(anchors, olds) == {olds[c] : c \in anchors}

\* What the pass has done after i groups.
StickyRun(cfg, outside, gs, anchors, olds, run) ==
    run = [i \in 0..Len(gs) |->
             IF i = 0 THEN [at |-> Nowhere,
                            used |-> outside \cup Held(anchors, olds),
                            taken |-> Held(anchors, olds),
                            lo |-> cfg.first - 1, stop |-> FALSE]
             ELSE StickyGroup(cfg, anchors, olds, run[i - 1], gs[i],
                              Bounds(cfg, gs, anchors, olds)[i])]

\* The pass has placed the groups one by one when it ends with layout l.
StickyPass(cfg, outside, gs, anchors, olds, run, l) ==
    /\ StickyRun(cfg, outside, gs, anchors, olds, run)
    /\ \A i \in 0..Len(gs) : HasPlaced(cfg, outside \cup Held(anchors, olds),
                                       InGroups(gs, i) \ anchors, run[i])
    /\ l = [at |-> run[Len(gs)].at, stop |-> run[Len(gs)].stop]

LEMMA StickyRunExists ==
    ASSUME NEW cfg \in Config, NEW outside \in SUBSET Nat,
           NEW s \in Seq(Channels), Once(s),
           NEW olds \in [Channels -> Nat], NEW pins
    PROVE  \E run : StickyPass(cfg, outside, Groups(s),
                               Anchors(cfg, outside, s, olds, pins), olds, run,
                               StickyLayout(cfg, outside, s, olds, pins))
<1> DEFINE gs == Groups(s)
           n == Len(gs)
           anchors == Anchors(cfg, outside, s, olds, pins)
           held == {olds[c] : c \in anchors}
           bounds == Bounds(cfg, gs, anchors, olds)
           avoid == outside \cup held
           seq == [i \in 1..n |-> i]
           base == [at |-> Nowhere, used |-> avoid, taken |-> held,
                    lo |-> cfg.first - 1, stop |-> FALSE]
           A == StickyAccs(cfg, avoid)
           D(a, i) == StickyGroup(cfg, anchors, olds, a, gs[i], bounds[i])
           G == [i \in 1..n |-> [a \in A |-> D(a, i)]]
           F(f) == [i \in 0..Len(seq) |-> IF i = 0 THEN base
                                          ELSE D(f[i - 1], seq[i])]
           run == CHOOSE f : f = F(f)
           l == StickyLayout(cfg, outside, s, olds, pins)
<1>1. gs \in Blocks /\ Grouping(gs, s, Len(s)) /\ n \in Nat
  BY GroupsAre DEF Blocks
<1>2. /\ anchors \subseteq ToSet(s) /\ held \subseteq 0..cfg.last
      /\ \A c \in anchors : olds[c] \in 0..cfg.last
      /\ held \subseteq Nat
  BY DEF Anchors, Config
<1>3. l = [at |-> run[Len(seq)].at, stop |-> run[Len(seq)].stop]
  BY DEF StickyLayout, Iterate
<1>4. Len(seq) = n /\ \A i \in 1..n : seq[i] = i
  BY <1>1
<1> HIDE DEF gs, seq
<1>5. \A i \in 1..n : bounds[i] \in Int
  <2> HIDE DEF anchors
  <2>1. QED
    BY <1>1, <1>2, BoundsAre
<1> HIDE DEF n, anchors, bounds, held
<1>6. \A i \in 1..n : gs[i] \in Seq(Channels) /\ gs[i] # <<>> /\ Once(gs[i])
  <2>1. \A i \in 1..n : gs[i] \in Seq(Channels) /\ gs[i] # <<>>
    BY <1>1 DEF Blocks, n
  <2>2. \A i \in 1..n : Once(gs[i])
    BY <1>1, InGroupsIs DEF n
  <2>3. QED
    BY <2>1, <2>2
<1>7. ASSUME NEW P, NEW a, HasPlaced(cfg, avoid, P, a), NEW i \in 1..n
      PROVE  HasPlaced(cfg, avoid, P \cup (ToSet(gs[i]) \ anchors), D(a, i))
  <2>1. bounds[i] \in Int
    BY <1>5
  <2>2. gs[i] \in Seq(Channels) /\ gs[i] # <<>> /\ Once(gs[i])
    BY <1>6
  <2> HIDE DEF avoid
  <2>3. QED
    BY <1>2, <1>7, <2>1, <2>2, StickyGroupIs
<1>8. HasPlaced(cfg, avoid, {}, base)
  <2>1. PlacedBy(Nowhere) = {} /\ Nowhere \in [Channels -> Nat]
    BY DEF PlacedBy, Nowhere, NoNumber
  <2>2. avoid \subseteq Nat /\ cfg.first - 1 \in Nat
    <3>1. cfg.first \in Nat \ {0}
      BY DEF Config
    <3>2. avoid \subseteq Nat
      BY <1>2
    <3>3. QED
      BY <3>1, <3>2
  <2> HIDE DEF avoid
  <2>3. Apart(Nowhere, avoid, avoid)
    BY <2>1, <2>2 DEF Apart
  <2>4. base \in StickyAccs(cfg, avoid)
    BY <1>2, <2>1, <2>2, <2>3 DEF StickyAccs
  <2>5. base.at = Nowhere /\ ~base.stop
    OBVIOUS
  <2> HIDE DEF base
  <2>6. QED
    BY <2>1, <2>4, <2>5 DEF HasPlaced
<1> HIDE DEF base, D, avoid
<1>9. ASSUME NEW i \in 1..n, NEW a \in A
      PROVE  D(a, i) \in A
  <2>1. HasPlaced(cfg, avoid, PlacedBy(a.at), a)
    BY DEF HasPlaced
  <2>2. HasPlaced(cfg, avoid, PlacedBy(a.at) \cup (ToSet(gs[i]) \ anchors), D(a, i))
    BY <1>7, <2>1
  <2>3. QED
    BY <2>2 DEF HasPlaced
<1>10. base \in A
  BY <1>8 DEF HasPlaced
<1> HIDE DEF A
<1>11. G \in [1..n -> [A -> A]]
  BY <1>9
<1>12. PICK f : f \in Runs(A, n, base, G)
  <2> HIDE DEF G
  <2>1. Runs(A, n, base, G) # {}
    BY <1>1, <1>10, <1>11, RunExists, Zenon DEF n
  <2>2. QED
    BY <2>1
<1>13. /\ f \in [0..n -> A] /\ f[0] = base
       /\ \A i \in 1..n : f[i] = G[i][f[i - 1]]
  <2> HIDE DEF G
  <2>1. QED
    BY <1>12 DEF Runs
<1>14. n \in Nat
  BY <1>1 DEF n
<1>15. ASSUME NEW i \in 1..n
       PROVE  f[i] = D(f[i - 1], seq[i])
  <2>1. f[i - 1] \in A
    BY <1>13, <1>14
  <2>2. G[i][f[i - 1]] = D(f[i - 1], i)
    BY <2>1
  <2>3. QED
    BY <1>4, <1>13, <2>2
<1>16. f = F(f)
  BY <1>4, <1>13, <1>14, <1>15
<1>17. run = F(run)
  <2> HIDE DEF F
  <2>1. QED
    BY <1>16
<1> HIDE DEF run
<1>18. \A i \in 0..n : HasPlaced(cfg, avoid, InGroups(gs, i) \ anchors, run[i])
  <2> DEFINE S == {i \in 0..n : HasPlaced(cfg, avoid, InGroups(gs, i) \ anchors,
                                          run[i])}
  <2>1. 0 \in S
    <3>1. run[0] = base /\ 0 \in 0..n
      BY <1>4, <1>14, <1>17
    <3>2. InGroups(gs, 0) \ anchors = {}
      BY DEF InGroups
    <3>3. QED
      BY <1>8, <3>1, <3>2
  <2>2. ASSUME NEW k \in 0..(n - 1), k \in S
        PROVE  k + 1 \in S
    <3>1. k + 1 \in 1..n /\ k + 1 \in 0..n /\ k + 1 # 0 /\ (k + 1) - 1 = k
      BY <1>14
    <3>2. run[k + 1] = D(run[k], k + 1)
      BY <1>4, <1>17, <3>1
    <3>3. HasPlaced(cfg, avoid, InGroups(gs, k) \ anchors, run[k])
      BY <2>2
    <3>4. HasPlaced(cfg, avoid, (InGroups(gs, k) \ anchors)
                                  \cup (ToSet(gs[k + 1]) \ anchors), D(run[k], k + 1))
      BY <1>7, <3>1, <3>3
    <3>5. InGroups(gs, k + 1) = InGroups(gs, k) \cup ToSet(gs[k + 1])
      BY <1>1, InGroupsIs DEF n
    <3>6. InGroups(gs, k + 1) \ anchors = (InGroups(gs, k) \ anchors)
                                             \cup (ToSet(gs[k + 1]) \ anchors)
      BY <3>5
    <3>7. QED
      BY <3>1, <3>2, <3>4, <3>6
  <2> HIDE DEF S
  <2>3. \A i \in 0..n : i \in S
    BY <1>14, <2>1, <2>2, UpTo
  <2>4. QED
    BY <2>3 DEF S
<1>19. StickyRun(cfg, outside, gs, anchors, olds, run)
  <2>1. \A i \in 0..n : i # 0 => D(run[i - 1], seq[i]) = D(run[i - 1], i)
    BY <1>4, <1>14
  <2>2. run = [i \in 0..n |-> IF i = 0 THEN base ELSE D(run[i - 1], i)]
    BY <1>4, <1>17, <2>1
  <2>3. QED
    BY <2>2 DEF StickyRun, base, D, n, bounds, avoid, held, Held
<1>20. l = [at |-> run[n].at, stop |-> run[n].stop]
  BY <1>3, <1>4
<1>21. QED
  BY <1>18, <1>19, <1>20 DEF StickyPass, l, n, gs, anchors, avoid, held, Held

LEMMA StickyLayoutIs ==
    ASSUME NEW cfg \in Config, NEW outside \in SUBSET Nat,
           NEW s \in Seq(Channels), Once(s),
           NEW olds \in [Channels -> Nat], NEW pins
    PROVE  Sound(StickyLayout(cfg, outside, s, olds, pins), outside, s,
                 Anchors(cfg, outside, s, olds, pins), olds)
<1> DEFINE gs == Groups(s)
           n == Len(gs)
           anchors == Anchors(cfg, outside, s, olds, pins)
           avoid == outside \cup Held(anchors, olds)
           l == StickyLayout(cfg, outside, s, olds, pins)
<1>1. gs \in Blocks /\ Grouping(gs, s, Len(s)) /\ n \in 0..n
  BY GroupsAre DEF Blocks
<1>2. PICK run : StickyPass(cfg, outside, gs, anchors, olds, run, l)
  BY StickyRunExists
<1> HIDE DEF gs, n, l, anchors
<1>3. InGroups(gs, n) = ToSet(s)
  BY <1>1, InGroupsIs DEF n
<1>4. l.at = run[n].at /\ l.stop = run[n].stop
  BY <1>2 DEF StickyPass, n
<1>5. /\ run[n] \in StickyAccs(cfg, avoid)
      /\ PlacedBy(run[n].at) \subseteq ToSet(s) \ anchors
      /\ ~run[n].stop => PlacedBy(run[n].at) = ToSet(s) \ anchors
  BY <1>1, <1>2, <1>3 DEF StickyPass, HasPlaced, n
<1>6. /\ l.at \in [Channels -> Nat] /\ l.stop \in BOOLEAN
      /\ \A c \in PlacedBy(l.at) : l.at[c] \notin avoid
      /\ \A c, d \in PlacedBy(l.at) : l.at[c] = l.at[d] => c = d
  BY <1>4, <1>5 DEF StickyAccs, Apart
<1>7. \A c \in PlacedBy(l.at) :
         l.at[c] \notin outside /\ \A d \in anchors : l.at[c] # olds[d]
  BY <1>6 DEF Held
<1>8. Sound(l, outside, s, anchors, olds)
  BY <1>4, <1>5, <1>6, <1>7 DEF Sound
<1>9. QED
  BY <1>8 DEF l, anchors

-----------------------------------------------------------------------------
(* The manual layout *)

ManualAcc == [at : [Channels -> Nat], stop : BOOLEAN, next : [Leagues -> Nat]]

\* Nobody is placed on a foreign number.
ManualInv(outside, P, acc) ==
    /\ acc \in ManualAcc
    /\ PlacedBy(acc.at) \subseteq P
    /\ \A c \in PlacedBy(acc.at) : acc.at[c] \notin outside

LEMMA ManualPlaceIs ==
    ASSUME NEW cfg \in Config, NEW outside \in SUBSET Nat, IsFiniteSet(outside),
           NEW P, NEW acc, ManualInv(outside, P, acc), NEW c \in Channels
    PROVE  ManualInv(outside, P \cup {c}, ManualPlace(cfg, outside, acc, c))
<1> DEFINE n == SkipExternal(outside, acc.next[LeagueOf[c]])
           next == ManualPlace(cfg, outside, acc, c)
<1>1. acc \in ManualAcc /\ LeagueOf[c] \in Leagues
  BY DEF ManualInv, Leagues
<1>2. acc.next[LeagueOf[c]] \in Nat
  BY <1>1 DEF ManualAcc
<1>3. n \in Nat /\ n \notin outside
  BY <1>2, SkipExternalIs
<1> HIDE DEF n
<1>4. CASE n > cfg.last
  <2>1. next = [acc EXCEPT !.stop = TRUE]
    BY <1>4 DEF ManualPlace, n
  <2>2. QED
    BY <1>1, <2>1 DEF ManualInv, ManualAcc
<1>5. CASE ~(n > cfg.last)
  <2>1. next = [at |-> [acc.at EXCEPT ![c] = n], stop |-> acc.stop,
                next |-> [acc.next EXCEPT ![LeagueOf[c]] = n + 1]]
    BY <1>5 DEF ManualPlace, n
  <2> HIDE DEF next
  <2>2. next \in ManualAcc /\ next.at = [acc.at EXCEPT ![c] = n]
    BY <1>1, <1>3, <2>1 DEF ManualAcc
  <2>3. \A d \in Channels : next.at[d] = IF d = c THEN n ELSE acc.at[d]
    BY <1>1, <2>2 DEF ManualAcc
  <2>4. ManualInv(outside, P \cup {c}, next)
    BY <1>3, <2>2, <2>3 DEF ManualInv, PlacedBy
  <2>5. QED
    BY <2>4 DEF next
<1>6. QED
  BY <1>4, <1>5

LEMMA ManualLayoutIs ==
    ASSUME NEW cfg \in Config, NEW outside \in SUBSET Nat, IsFiniteSet(outside),
           NEW s \in Seq(Channels)
    PROVE  LET l == ManualLayout(cfg, outside, s)
           IN  /\ l.at \in [Channels -> Nat] /\ l.stop \in BOOLEAN
               /\ PlacedBy(l.at) \subseteq ToSet(s)
               /\ \A c \in PlacedBy(l.at) : l.at[c] \notin outside
<1> DEFINE start(x) == IF LeagueStart[x] # NoNumber THEN LeagueStart[x]
                                                    ELSE cfg.first
           n == Len(s)
           base == [at |-> Nowhere, stop |-> FALSE,
                    next |-> [x \in Leagues |-> start(x)]]
           A == {acc \in ManualAcc : ManualInv(outside, Channels, acc)}
           G == [i \in 1..n |-> [a \in A |-> ManualPlace(cfg, outside, a, s[i])]]
           F(f) == [i \in 0..n |-> IF i = 0 THEN base
                                   ELSE ManualPlace(cfg, outside, f[i - 1], s[i])]
           run == CHOOSE f : f = F(f)
           l == ManualLayout(cfg, outside, s)
           upto(i) == {s[p] : p \in 1..i}
<1>1. n \in Nat /\ \A i \in 1..n : s[i] \in Channels
  OBVIOUS
<1>2. l = [at |-> run[n].at, stop |-> run[n].stop]
  BY DEF ManualLayout, Iterate
<1>3. base \in ManualAcc /\ PlacedBy(base.at) = {}
  <2>1. [x \in Leagues |-> start(x)] \in [Leagues -> Nat]
    BY LeaguesAssumption DEF Config
  <2>2. Nowhere \in [Channels -> Nat] /\ PlacedBy(Nowhere) = {}
    BY DEF Nowhere, PlacedBy, NoNumber
  <2> HIDE DEF start
  <2>3. QED
    BY <2>1, <2>2 DEF ManualAcc
<1>4. base \in A
  BY <1>3 DEF ManualInv
<1>5. ASSUME NEW a \in A, NEW i \in 1..n
      PROVE  ManualPlace(cfg, outside, a, s[i]) \in A
  <2>1. ManualInv(outside, Channels, a) /\ s[i] \in Channels
    BY <1>1
  <2>2. ManualInv(outside, Channels \cup {s[i]}, ManualPlace(cfg, outside, a, s[i]))
    BY <2>1, ManualPlaceIs
  <2>3. Channels \cup {s[i]} = Channels
    BY <2>1
  <2>4. QED
    BY <2>2, <2>3 DEF ManualInv
<1> HIDE DEF A, n, base, l
<1>6. G \in [1..n -> [A -> A]]
  BY <1>5
<1>7. PICK f : f \in Runs(A, n, base, G)
  <2> HIDE DEF G
  <2>1. Runs(A, n, base, G) # {}
    BY <1>1, <1>4, <1>6, RunExists, Zenon
  <2>2. QED
    BY <2>1
<1>8. /\ f \in [0..n -> A] /\ f[0] = base
      /\ \A i \in 1..n : f[i] = G[i][f[i - 1]]
  <2> HIDE DEF G
  <2>1. QED
    BY <1>7 DEF Runs
<1>9. ASSUME NEW i \in 1..n
      PROVE  f[i] = ManualPlace(cfg, outside, f[i - 1], s[i])
  <2>1. f[i - 1] \in A
    BY <1>1, <1>8
  <2>2. G[i][f[i - 1]] = ManualPlace(cfg, outside, f[i - 1], s[i])
    BY <2>1
  <2>3. QED
    BY <1>8, <2>2
<1>10. f = F(f)
  BY <1>1, <1>8, <1>9
<1>11. run = F(run)
  <2> HIDE DEF F
  <2>1. QED
    BY <1>10
<1> HIDE DEF run
<1>12. ManualInv(outside, upto(n), run[n])
  <2> DEFINE S == {i \in 0..n : ManualInv(outside, upto(i), run[i])}
  <2>1. 0 \in S
    <3>1. run[0] = base /\ 0 \in 0..n
      BY <1>1, <1>11
    <3>2. ManualInv(outside, upto(0), base)
      BY <1>3 DEF ManualInv
    <3>3. QED
      BY <3>1, <3>2
  <2>2. ASSUME NEW k \in 0..(n - 1), k \in S
        PROVE  k + 1 \in S
    <3>1. k + 1 \in 1..n /\ k + 1 \in 0..n /\ k + 1 # 0 /\ (k + 1) - 1 = k
      BY <1>1
    <3>2. run[k + 1] = ManualPlace(cfg, outside, run[k], s[k + 1])
      BY <1>11, <3>1
    <3>3. ManualInv(outside, upto(k), run[k]) /\ s[k + 1] \in Channels
      BY <1>1, <2>2, <3>1
    <3>4. 1..(k + 1) = 1..k \cup {k + 1}
      BY <1>1
    <3>5. upto(k + 1) = upto(k) \cup {s[k + 1]}
      BY <3>4
    <3> HIDE DEF upto
    <3>6. ManualInv(outside, upto(k) \cup {s[k + 1]},
                    ManualPlace(cfg, outside, run[k], s[k + 1]))
      BY <3>3, ManualPlaceIs
    <3>7. QED
      BY <3>1, <3>2, <3>5, <3>6
  <2> HIDE DEF S
  <2>3. \A i \in 0..n : i \in S
    BY <1>1, <2>1, <2>2, UpTo
  <2>4. n \in S
    BY <1>1, <2>3
  <2>5. QED
    BY <2>4 DEF S
<1>13. upto(n) = ToSet(s)
  BY DEF ToSet, n
<1>14. l.at = run[n].at /\ l.stop = run[n].stop
  BY <1>2
<1>15. QED
  BY <1>12, <1>13, <1>14 DEF ManualInv, ManualAcc, l

-----------------------------------------------------------------------------
(* Whatever the settings are *)

\* Who keeps a number that the layout does not write.
Kept(cfg, outside, s, olds, pins, forced) ==
    IF Sticky(cfg) /\ ~forced THEN Anchors(cfg, outside, s, olds, pins) ELSE {}

\* What every pass guarantees: numbers that nobody foreign holds, and unless
\* the mode is manual what Sound says.
THEOREM LayoutIs ==
    ASSUME NEW cfg \in Config, NEW outside \in SUBSET Nat, IsFiniteSet(outside),
           NEW s \in Seq(Channels), Once(s),
           NEW olds \in [Channels -> Nat], NEW pins, NEW forced \in BOOLEAN
    PROVE  LET l == Layout(cfg, outside, s, olds, pins, forced)
           IN  /\ l.at \in [Channels -> Nat] /\ l.stop \in BOOLEAN
               /\ PlacedBy(l.at) \subseteq ToSet(s)
                                           \ Kept(cfg, outside, s, olds, pins, forced)
               /\ \A c \in PlacedBy(l.at) : l.at[c] \notin outside
               /\ ~cfg.manual => Sound(l, outside, s,
                                       Kept(cfg, outside, s, olds, pins, forced), olds)
<1> DEFINE l == Layout(cfg, outside, s, olds, pins, forced)
           kept == Kept(cfg, outside, s, olds, pins, forced)
<1>1. cfg.manual \in BOOLEAN /\ cfg.mode \in Modes
  BY DEF Config
<1>2. CASE cfg.manual
  <2>1. l = ManualLayout(cfg, outside, s) /\ kept = {}
    BY <1>2 DEF Layout, Kept, Sticky
  <2>2. QED
    BY <1>2, <2>1, ManualLayoutIs
<1>3. CASE ~cfg.manual
  <2>1. CASE cfg.mode = "compact"
    <3>1. l = CompactLayout(cfg, outside, s) /\ kept = {}
      BY <1>3, <2>1 DEF Layout, Kept, Sticky
    <3>2. Sound(CompactLayout(cfg, outside, s), outside, s, {}, olds)
      BY CompactLayoutIs
    <3> HIDE DEF l, kept
    <3>3. Sound(l, outside, s, kept, olds)
      BY <3>1, <3>2
    <3>4. QED
      BY <3>3 DEF Sound, l, kept
  <2>2. CASE cfg.mode # "compact" /\ forced
    <3>1. l = ResetLayout(cfg, outside, s) /\ kept = {}
      BY <1>1, <1>3, <2>2 DEF Layout, Kept, Sticky, Modes
    <3>2. Sound(ResetLayout(cfg, outside, s), outside, s, {}, olds)
      BY ResetLayoutIs
    <3> HIDE DEF l, kept
    <3>3. Sound(l, outside, s, kept, olds)
      BY <3>1, <3>2
    <3>4. QED
      BY <3>3 DEF Sound, l, kept
  <2>3. CASE cfg.mode # "compact" /\ ~forced
    <3>1. /\ l = StickyLayout(cfg, outside, s, olds, pins)
          /\ kept = Anchors(cfg, outside, s, olds, pins)
      BY <1>1, <1>3, <2>3 DEF Layout, Kept, Sticky, Modes
    <3>2. Sound(StickyLayout(cfg, outside, s, olds, pins), outside, s,
                Anchors(cfg, outside, s, olds, pins), olds)
      BY StickyLayoutIs
    <3> HIDE DEF l, kept
    <3>3. Sound(l, outside, s, kept, olds)
      BY <3>1, <3>2
    <3>4. QED
      BY <3>3 DEF Sound, l, kept
  <2>4. QED
    BY <2>1, <2>2, <2>3
<1>4. QED
  BY <1>1, <1>2, <1>3


-----------------------------------------------------------------------------
(* The re-layout matches the sticky pass *)

\* The low-water mark of a sticky pass is the greatest number it took.
TakenTo(cfg, acc) ==
    /\ \A t \in acc.taken : t <= acc.lo
    /\ IF acc.taken = {} THEN acc.lo = cfg.first - 1 ELSE acc.lo \in acc.taken

\* As long as the re-layout goes on, the two passes have done the same.
Matching(cfg, racc, sacc) ==
    ~racc.stop =>
       /\ ~sacc.stop /\ sacc.at = racc.at /\ sacc.used = racc.used
       /\ TakenTo(cfg, sacc)
       /\ racc.frontier = GapStart(cfg, sacc.lo)

LEMMA MaxIs ==
    ASSUME NEW S, S \subseteq Int, NEW m \in S, \A k \in S : k <= m
    PROVE  Max(S) = m
<1>1. Max(S) \in S /\ \A k \in S : Max(S) >= k
  BY DEF Max
<1>2. Max(S) >= m /\ Max(S) <= m
  BY <1>1
<1>3. Max(S) \in Int /\ m \in Int
  BY <1>1
<1>4. QED
  BY <1>2, <1>3

LEMMA SameStart ==
    ASSUME NEW cfg \in Config, cfg.mode \in {"gap", "strict"}, NEW avoid,
           NEW acc \in StickyAccs(cfg, avoid), TakenTo(cfg, acc),
           NEW k \in Nat \ {0},
           FirstFreeRun(cfg, acc.used, GapStart(cfg, acc.lo), cfg.last + 1, k)
             # NoNumber
    PROVE  BlockStart(cfg, acc, cfg.last + 1, k)
             = FirstFreeRun(cfg, acc.used, GapStart(cfg, acc.lo), cfg.last + 1, k)
<1>1. /\ cfg.first \in Nat \ {0} /\ cfg.last \in Nat /\ acc.lo \in Nat
      /\ acc.taken \subseteq Nat
  <2>1. cfg.first \in Nat \ {0} /\ cfg.last \in Nat
    BY DEF Config
  <2>2. acc.lo \in Nat /\ acc.taken \subseteq 0..cfg.last
    BY DEF StickyAccs
  <2>3. 0..cfg.last \subseteq Nat
    BY <2>1
  <2>4. QED
    BY <2>1, <2>2, <2>3
<1>2. CASE cfg.mode = "gap"
  BY <1>2 DEF BlockStart
<1>3. CASE cfg.mode = "strict"
  <2> DEFINE from == GapStart(cfg, acc.lo)
  <2>1. BlockStart(cfg, acc, cfg.last + 1, k) = AppendBlock(cfg, acc.used, acc.taken, k)
    BY <1>3 DEF BlockStart
  <2>2. Step(cfg) = 1
    BY <1>3 DEF Step
  <2>3. Greatest(acc.taken, cfg.first - 1) = acc.lo
    <3>1. CASE acc.taken = {}
      BY <3>1 DEF TakenTo, Greatest
    <3>2. CASE acc.taken # {}
      <4>1. acc.lo \in acc.taken /\ \A t \in acc.taken : t <= acc.lo
        BY <3>2 DEF TakenTo
      <4>2. acc.taken \subseteq Int
        BY <1>1
      <4>3. Max(acc.taken) = acc.lo
        BY <4>1, <4>2, MaxIs
      <4>4. QED
        BY <3>2, <4>3 DEF Greatest
    <3>3. QED
      BY <3>1, <3>2
  <2>4. from \in Nat /\ from >= cfg.first /\ Max({acc.lo + 1, cfg.first}) = from
    <3>1. Max({acc.lo + 1, cfg.first})
            = IF acc.lo + 1 >= cfg.first THEN acc.lo + 1 ELSE cfg.first
      <4>1. acc.lo + 1 \in Int /\ cfg.first \in Int
        BY <1>1
      <4>2. QED
        BY <4>1, MaxOfTwo, Zenon
    <3>2. from = IF acc.lo < cfg.first THEN cfg.first ELSE acc.lo + 1
      BY <2>2 DEF GapStart
    <3> HIDE DEF from
    <3>3. QED
      BY <1>1, <3>1, <3>2
  <2>5. AppendBlock(cfg, acc.used, acc.taken, k)
          = Least({x \in from..(cfg.last - k + 1) :
                     (x - from) % 1 = 0 /\ Run(x, k) \cap acc.used = {}})
    <3> HIDE DEF from
    <3>1. QED
      BY <1>3, <2>2, <2>3, <2>4 DEF AppendBlock
  <2>6. FirstFreeRun(cfg, acc.used, from, cfg.last + 1, k)
          = Least({x \in from..(cfg.last - k + 1) :
                     x + k - 1 < cfg.last + 1 /\ Run(x, k) \cap acc.used = {}})
    <3>1. Max({from, cfg.first}) = from
      <4> HIDE DEF from
      <4>1. QED
        BY <1>1, <2>4, MaxOfTwo
    <3> HIDE DEF from
    <3>2. QED
      BY <3>1 DEF FirstFreeRun
  <2> HIDE DEF from
  <2>7. \A x \in from..(cfg.last - k + 1) :
           (x - from) % 1 = 0 /\ x + k - 1 < cfg.last + 1
    BY <1>1, <2>4
  <2>8. {x \in from..(cfg.last - k + 1) :
           (x - from) % 1 = 0 /\ Run(x, k) \cap acc.used = {}}
          = {x \in from..(cfg.last - k + 1) :
               x + k - 1 < cfg.last + 1 /\ Run(x, k) \cap acc.used = {}}
    BY <2>7
  <2>9. QED
    BY <2>1, <2>5, <2>6, <2>8 DEF from
<1>4. QED
  BY <1>2, <1>3


LEMMA MatchingStep ==
    ASSUME NEW cfg \in Config, cfg.mode \in {"gap", "strict"}, NEW avoid,
           NEW racc \in ResetAcc, NEW sacc \in StickyAccs(cfg, avoid),
           Matching(cfg, racc, sacc),
           NEW group \in Seq(Channels), group # <<>>, NEW olds
    PROVE  Matching(cfg, ResetGroup(cfg, racc, group),
                    StickyGroup(cfg, {}, olds, sacc, group, cfg.last + 1))
<1> DEFINE k == Len(group)
           rnext == ResetGroup(cfg, racc, group)
           snext == StickyGroup(cfg, {}, olds, sacc, group, cfg.last + 1)
           start == FirstFreeRun(cfg, racc.used, racc.frontier, cfg.last + 1, k)
           run == Run(start, k)
<1> SUFFICES ASSUME ~rnext.stop PROVE Matching(cfg, rnext, snext)
  BY DEF Matching
<1>1. ~racc.stop /\ start # NoNumber
  <2>1. (racc.stop \/ start = NoNumber) => rnext = [racc EXCEPT !.stop = TRUE]
    BY DEF ResetGroup
  <2>2. [racc EXCEPT !.stop = TRUE].stop = TRUE
    BY DEF ResetAcc
  <2> HIDE DEF start, rnext
  <2>3. QED
    BY <2>1, <2>2
<1>2. rnext = [at |-> PlaceGroup(racc.at, group, start),
               used |-> racc.used \cup run,
               frontier |-> Frontier(cfg, start, k),
               stop |-> FALSE]
  BY <1>1 DEF ResetGroup
<1>3. /\ ~sacc.stop /\ sacc.at = racc.at /\ sacc.used = racc.used
      /\ TakenTo(cfg, sacc) /\ racc.frontier = GapStart(cfg, sacc.lo)
  BY <1>1 DEF Matching
<1>4. /\ k \in Nat \ {0} /\ cfg.first \in Nat \ {0} /\ cfg.last \in Nat
      /\ sacc.lo \in Nat /\ Step(cfg) \in Nat \ {0} /\ sacc.taken \subseteq Nat
  <2>1. cfg.first \in Nat \ {0} /\ cfg.last \in Nat
    BY DEF Config
  <2>2. sacc.lo \in Nat /\ sacc.taken \subseteq 0..cfg.last
    BY DEF StickyAccs
  <2>3. 0..cfg.last \subseteq Nat
    BY <2>1
  <2>4. QED
    BY <2>1, <2>2, <2>3, StepIs
<1>5. start = FirstFreeRun(cfg, sacc.used, GapStart(cfg, sacc.lo), cfg.last + 1, k)
  BY <1>3
<1> HIDE DEF start, rnext, k
<1>6. start \in Nat \ {0} /\ start >= GapStart(cfg, sacc.lo)
  <2>1. GapStart(cfg, sacc.lo) \in Int /\ cfg.last + 1 \in Int
    <3>1. sacc.lo \in Nat
      BY <1>4
    <3>2. GapStart(cfg, sacc.lo) \in Nat \ {0}
      BY <3>1, GapStartIs
    <3>3. QED
      BY <1>4, <3>2
  <2>2. LET x == FirstFreeRun(cfg, sacc.used, GapStart(cfg, sacc.lo), cfg.last + 1, k)
        IN  x \in Nat /\ (x # NoNumber => x >= GapStart(cfg, sacc.lo))
    BY <1>4, <2>1, FirstFreeRunIs
  <2>3. QED
    BY <1>1, <1>5, <2>2 DEF NoNumber
<1>7. BlockStart(cfg, sacc, cfg.last + 1, k) = start
  <2>1. TakenTo(cfg, sacc) /\ k \in Nat \ {0}
    BY <1>3, <1>4
  <2>2. FirstFreeRun(cfg, sacc.used, GapStart(cfg, sacc.lo), cfg.last + 1, k)
          # NoNumber
    BY <1>1, <1>5
  <2>3. BlockStart(cfg, sacc, cfg.last + 1, k)
          = FirstFreeRun(cfg, sacc.used, GapStart(cfg, sacc.lo), cfg.last + 1, k)
    BY <2>1, <2>2, SameStart
  <2>4. QED
    BY <1>5, <2>3
<1>8. snext = Claim(sacc, group, start)
  <2>1. {olds[c] : c \in ToSet(group) \cap {}} = {}
    OBVIOUS
  <2>2. snext = Claim(sacc, group, BlockStart(cfg, sacc, cfg.last + 1, k))
    BY <1>3, <2>1 DEF StickyGroup, k
  <2> HIDE DEF snext
  <2>3. QED
    BY <1>7, <2>2
<1>9. snext = [at    |-> PlaceGroup(sacc.at, group, start),
               used  |-> sacc.used \cup run,
               taken |-> sacc.taken \cup run,
               lo    |-> Max(run),
               stop  |-> FALSE]
  <2> HIDE DEF snext
  <2>1. QED
    BY <1>1, <1>3, <1>8 DEF Claim, k
<1>10. /\ Max(run) = start + k - 1 /\ start + k - 1 \in run
       /\ \A t \in run : t <= start + k - 1
  <2>1. run = start..(start + k - 1)
    BY DEF Run
  <2>2. run \subseteq Int /\ start + k - 1 \in run /\ \A t \in run : t <= start + k - 1
    BY <1>4, <1>6, <2>1
  <2> HIDE DEF run
  <2>3. QED
    BY <2>2, MaxIs
<1> HIDE DEF snext, run
<1>11. TakenTo(cfg, snext)
  <2>1. snext.taken = sacc.taken \cup run /\ snext.lo = start + k - 1
    BY <1>9, <1>10
  <2>2. sacc.lo < start
    BY <1>4, <1>6 DEF GapStart
  <2>3. \A t \in sacc.taken : t <= start + k - 1
    <3> SUFFICES ASSUME NEW t \in sacc.taken PROVE t <= start + k - 1
      OBVIOUS
    <3>1. t <= sacc.lo /\ t \in Nat
      BY <1>3, <1>4 DEF TakenTo
    <3>2. QED
      BY <1>4, <1>6, <2>2, <3>1
  <2>4. QED
    BY <1>10, <2>1, <2>3 DEF TakenTo
<1>12. rnext.frontier = GapStart(cfg, snext.lo)
  <2>1. snext.lo = start + k - 1 /\ rnext.frontier = start + k - 1 + Step(cfg)
    BY <1>2, <1>9, <1>10 DEF Frontier
  <2>2. ~(start + k - 1 < cfg.first)
    <3>1. start >= cfg.first
      BY <1>4, <1>6 DEF GapStart
    <3>2. QED
      BY <1>4, <1>6, <3>1
  <2>3. QED
    BY <2>1, <2>2 DEF GapStart
<1>13. ~snext.stop /\ snext.at = rnext.at /\ snext.used = rnext.used
  BY <1>2, <1>3, <1>9
<1>14. QED
  BY <1>11, <1>12, <1>13 DEF Matching


\* Where no channel is locked, a sticky pass that starts from nothing and a
\* re-layout that does not run out of numbers do the same.
THEOREM ResetMatches ==
    ASSUME NEW cfg \in Config, cfg.mode \in {"gap", "strict"},
           NEW outside \in SUBSET Nat, NEW s \in Seq(Channels), Once(s),
           NEW olds \in [Channels -> Nat]
    PROVE  LET reset  == ResetLayout(cfg, outside, s)
               sticky == StickyLayout(cfg, outside, s, olds, [c \in Channels |-> FALSE])
           IN  reset.stop \/ sticky = reset
<1> DEFINE gs == Groups(s)
           n == Len(gs)
           free == [c \in Channels |-> FALSE]
           reset  == ResetLayout(cfg, outside, s)
           sticky == StickyLayout(cfg, outside, s, olds, free)
           avoid == outside \cup Held({}, olds)
<1>1. gs \in Blocks /\ n \in Nat
  BY GroupsAre DEF Blocks
<1>2. PICK run : /\ ResetRun(cfg, outside, gs, run)
                 /\ \A i \in 0..n : run[i] \in ResetAcc
                 /\ reset = [at |-> run[n].at, stop |-> run[n].stop]
  BY <1>1, ResetRunExists
<1>3. Anchors(cfg, outside, s, olds, free) = {}
  BY DEF Anchors, ToSet
<1>4. PICK srun : StickyPass(cfg, outside, gs, {}, olds, srun, sticky)
  BY <1>3, StickyRunExists
<1>5. \A i \in 1..n : Bounds(cfg, gs, {}, olds)[i] = cfg.last + 1
  BY DEF Bounds
<1>6. \A i \in 1..n : gs[i] \in Seq(Channels) /\ gs[i] # <<>>
  BY <1>1 DEF Blocks
<1> HIDE DEF reset, sticky, gs
<1>7. /\ StickyRun(cfg, outside, gs, {}, olds, srun)
      /\ \A i \in 0..n : srun[i] \in StickyAccs(cfg, avoid)
      /\ sticky = [at |-> srun[n].at, stop |-> srun[n].stop]
  BY <1>4 DEF StickyPass, HasPlaced
<1> HIDE DEF avoid
<1> DEFINE S == {i \in 0..n : Matching(cfg, run[i], srun[i])}
<1>8. 0 \in S
  <2>1. /\ run[0] = [at |-> Nowhere, used |-> outside, frontier |-> cfg.first,
                     stop |-> FALSE]
        /\ srun[0] = [at |-> Nowhere, used |-> outside \cup Held({}, olds),
                      taken |-> Held({}, olds), lo |-> cfg.first - 1,
                      stop |-> FALSE]
        /\ 0 \in 0..n
    BY <1>1, <1>2, <1>7 DEF ResetRun, StickyRun
  <2>2. Held({}, olds) = {}
    BY DEF Held
  <2>3. GapStart(cfg, cfg.first - 1) = cfg.first
    <3>1. cfg.first \in Nat
      BY DEF Config
    <3>2. cfg.first - 1 < cfg.first
      BY <3>1
    <3>3. QED
      BY <3>2 DEF GapStart
  <2>4. Matching(cfg, run[0], srun[0])
    BY <2>1, <2>2, <2>3 DEF Matching, TakenTo
  <2>5. QED
    BY <2>1, <2>4
<1>9. ASSUME NEW j \in 0..(n - 1), j \in S
      PROVE  j + 1 \in S
  <2>1. j + 1 \in 1..n /\ j + 1 \in 0..n /\ j + 1 # 0 /\ (j + 1) - 1 = j /\ j \in 0..n
    BY <1>1
  <2>2. run[j + 1] = ResetGroup(cfg, run[j], gs[j + 1])
    <3>1. run[j + 1] = ResetGroup(cfg, run[(j + 1) - 1], gs[j + 1])
      BY <1>2, <2>1 DEF ResetRun
    <3>2. QED
      BY <2>1, <3>1
  <2>3. srun[j + 1] = StickyGroup(cfg, {}, olds, srun[j], gs[j + 1], cfg.last + 1)
    <3>1. srun[j + 1] = StickyGroup(cfg, {}, olds, srun[(j + 1) - 1], gs[j + 1],
                                    Bounds(cfg, gs, {}, olds)[j + 1])
      BY <1>7, <2>1 DEF StickyRun
    <3>2. QED
      BY <1>5, <2>1, <3>1
  <2>4. /\ run[j] \in ResetAcc /\ srun[j] \in StickyAccs(cfg, avoid)
        /\ gs[j + 1] \in Seq(Channels) /\ gs[j + 1] # <<>>
    BY <1>2, <1>6, <1>7, <2>1
  <2>5. Matching(cfg, run[j], srun[j])
    BY <1>9
  <2>6. Matching(cfg, ResetGroup(cfg, run[j], gs[j + 1]),
                 StickyGroup(cfg, {}, olds, srun[j], gs[j + 1], cfg.last + 1))
    BY <2>4, <2>5, MatchingStep
  <2>7. QED
    BY <2>1, <2>2, <2>3, <2>6
<1> HIDE DEF S
<1>10. \A i \in 0..n : i \in S
  BY <1>1, <1>8, <1>9, UpTo
<1>11. Matching(cfg, run[n], srun[n])
  BY <1>1, <1>10 DEF S
<1>12. run[n] \in ResetAcc /\ srun[n] \in StickyAccs(cfg, avoid)
  BY <1>1, <1>2, <1>7
<1>13. ~run[n].stop => srun[n].at = run[n].at /\ srun[n].stop = run[n].stop
  BY <1>11, <1>12 DEF Matching, ResetAcc, StickyAccs
<1>14. reset.stop \/ sticky = reset
  BY <1>2, <1>7, <1>13
<1>15. QED
  BY <1>14 DEF reset, sticky


-----------------------------------------------------------------------------
(* The inputs of a pass *)

\* The number that a new channel gets is one that nobody uses.
LEMMA NextNumberIs ==
    ASSUME NEW cfg \in Config, NEW used, NEW l \in Leagues
    PROVE  LET n == NextNumber(cfg, used, l)
           IN  n \in Nat /\ (n # NoNumber => n \notin used)
<1> DEFINE start == IF cfg.manual /\ LeagueStart[l] # NoNumber
                    THEN LeagueStart[l] ELSE cfg.first
           free == (start..cfg.last) \ used
<1>1. start \in Nat
  BY LeaguesAssumption DEF Config
<1>2. NextNumber(cfg, used, l) = IF start \notin used THEN start ELSE Least(free)
  BY DEF NextNumber
<1> HIDE DEF start
<1>3. free \subseteq Nat /\ free \cap used = {}
  BY <1>1
<1> HIDE DEF free
<1>4. Least(free) \in Nat /\ (Least(free) # NoNumber => Least(free) \in free)
  BY <1>3, LeastIs
<1>5. QED
  BY <1>1, <1>2, <1>3, <1>4

\* The next of the sorted channels is one of the live.
SortedTo(s, o, i) ==
    /\ s \in Seq(Channels)
    /\ ToSet(s) = {o[p] : p \in 1..i} \cap live
    /\ Once(s)

LEMMA SortedStep ==
    ASSUME NEW o \in Seq(Channels), IsInjective(o), NEW i \in 0..(Len(o) - 1),
           NEW s, SortedTo(s, o, i)
    PROVE  SortedTo(IF o[i + 1] \in live THEN Append(s, o[i + 1]) ELSE s, o, i + 1)
<1> DEFINE c == o[i + 1]
           t == Append(s, c)
<1>1. /\ i \in Nat /\ i + 1 \in 1..Len(o) /\ c \in Channels
      /\ 1..(i + 1) = 1..i \cup {i + 1} /\ s \in Seq(Channels) /\ Once(s)
  BY DEF SortedTo
<1>2. {o[p] : p \in 1..(i + 1)} = {o[p] : p \in 1..i} \cup {c}
  BY <1>1
<1>3. c \notin {o[p] : p \in 1..i}
  <2>1. DOMAIN o = 1..Len(o)
    OBVIOUS
  <2>2. ASSUME NEW p \in 1..i
        PROVE  o[p] # c
    <3>1. p \in DOMAIN o /\ i + 1 \in DOMAIN o /\ p # i + 1
      BY <1>1, <2>1
    <3>2. QED
      BY <3>1 DEF IsInjective
  <2>3. QED
    BY <2>2
<1>4. CASE c \notin live
  BY <1>1, <1>2, <1>4 DEF SortedTo
<1>5. CASE c \in live
  <2>1. /\ t \in Seq(Channels) /\ Len(t) = Len(s) + 1 /\ t[Len(s) + 1] = c
        /\ \A p \in 1..Len(s) : t[p] = s[p]
        /\ Len(s) \in Nat
    BY <1>1
  <2>2. \A p \in 1..Len(s) : s[p] # c
    <3>1. c \notin ToSet(s)
      BY <1>3 DEF SortedTo
    <3>2. \A p \in 1..Len(s) : s[p] \in ToSet(s)
      BY <1>1 DEF ToSet
    <3>3. QED
      BY <3>1, <3>2
  <2> HIDE DEF t, c
  <2>3. Once(t)
    <3> SUFFICES ASSUME NEW p \in 1..Len(t), NEW q \in 1..Len(t), t[p] = t[q]
                 PROVE  p = q
      BY DEF Once
    <3>1. CASE p \in 1..Len(s) /\ q \in 1..Len(s)
      BY <1>1, <2>1, <3>1 DEF Once
    <3>2. CASE p \in 1..Len(s) /\ q = Len(s) + 1
      BY <2>1, <2>2, <3>2
    <3>3. CASE p = Len(s) + 1 /\ q \in 1..Len(s)
      BY <2>1, <2>2, <3>3
    <3>4. CASE p = Len(s) + 1 /\ q = Len(s) + 1
      BY <3>4
    <3>5. QED
      BY <2>1, <3>1, <3>2, <3>3, <3>4
  <2>4. ToSet(t) = ToSet(s) \cup {c}
    <3>1. 1..Len(t) = 1..Len(s) \cup {Len(s) + 1}
      BY <2>1
    <3>2. ToSet(t) = {t[p] : p \in 1..Len(t)} /\ ToSet(s) = {s[p] : p \in 1..Len(s)}
      BY <1>1, <2>1 DEF ToSet
    <3>3. QED
      BY <2>1, <3>1, <3>2
  <2>5. SortedTo(t, o, i + 1)
    BY <1>2, <1>5, <2>1, <2>3, <2>4 DEF SortedTo
  <2>6. QED
    BY <1>5, <2>5 DEF t, c
<1>6. QED
  BY <1>4, <1>5

\* The sorted channels are the live channels, each once.
LEMMA SortedIs ==
    ASSUME live \subseteq Channels, NEW o \in Orders
    PROVE  /\ Sorted(o) \in Seq(Channels)
           /\ ToSet(Sorted(o)) = live
           /\ Once(Sorted(o))
<1> DEFINE n == Len(o)
           A == Seq(Channels)
           D(s, c) == IF c \in live THEN Append(s, c) ELSE s
           G == [i \in 1..n |-> [s \in A |-> D(s, o[i])]]
           F(f) == [i \in 0..n |-> IF i = 0 THEN <<>> ELSE D(f[i - 1], o[i])]
           run == CHOOSE f : f = F(f)
<1>1. o \in Seq(Channels) /\ ToSet(o) = Channels /\ IsInjective(o)
  BY OrdersAssumption
<1>2. n \in Nat /\ (\A i \in 1..n : o[i] \in Channels) /\ <<>> \in A
  BY <1>1
<1>3. Sorted(o) = run[n]
  BY DEF Sorted, Iterate
<1>4. \A i \in 1..n, s \in A : D(s, o[i]) \in A
  BY <1>2
<1> HIDE DEF n, A, D
<1>5. G \in [1..n -> [A -> A]]
  BY <1>4
<1>6. PICK f : f \in Runs(A, n, <<>>, G)
  <2> HIDE DEF G
  <2>1. Runs(A, n, <<>>, G) # {}
    BY <1>2, <1>5, RunExists, Zenon
  <2>2. QED
    BY <2>1
<1>7. /\ f \in [0..n -> A] /\ f[0] = <<>>
      /\ \A i \in 1..n : f[i] = G[i][f[i - 1]]
  <2> HIDE DEF G
  <2>1. QED
    BY <1>6 DEF Runs
<1>8. ASSUME NEW i \in 1..n
      PROVE  f[i] = D(f[i - 1], o[i])
  <2>1. f[i - 1] \in A
    BY <1>2, <1>7
  <2>2. G[i][f[i - 1]] = D(f[i - 1], o[i])
    BY <2>1
  <2>3. QED
    BY <1>7, <2>2
<1>9. f = F(f)
  BY <1>2, <1>7, <1>8
<1>10. run = F(run)
  <2> HIDE DEF F
  <2>1. QED
    BY <1>9
<1> HIDE DEF run
<1>11. SortedTo(run[n], o, n)
  <2> DEFINE S == {i \in 0..n : SortedTo(run[i], o, i)}
  <2>1. 0 \in S
    <3>1. run[0] = <<>> /\ 0 \in 0..n
      BY <1>2, <1>10
    <3>2. SortedTo(<<>>, o, 0)
      BY DEF SortedTo, Once, ToSet
    <3>3. QED
      BY <3>1, <3>2
  <2>2. ASSUME NEW k \in 0..(n - 1), k \in S
        PROVE  k + 1 \in S
    <3>1. k + 1 \in 1..n /\ k + 1 \in 0..n /\ k + 1 # 0 /\ (k + 1) - 1 = k
      BY <1>2
    <3>2. run[k + 1] = D(run[k], o[k + 1])
      BY <1>10, <3>1
    <3>3. SortedTo(run[k], o, k)
      BY <2>2
    <3>4. SortedTo(D(run[k], o[k + 1]), o, k + 1)
      BY <1>1, <3>3, SortedStep DEF D, n
    <3>5. QED
      BY <3>1, <3>2, <3>4
  <2> HIDE DEF S
  <2>3. \A i \in 0..n : i \in S
    BY <1>2, <2>1, <2>2, UpTo
  <2>4. n \in S
    BY <1>2, <2>3
  <2>5. QED
    BY <2>4 DEF S
<1>12. {o[p] : p \in 1..n} = Channels
  BY <1>1 DEF ToSet, n
<1>13. QED
  BY <1>3, <1>11, <1>12 DEF SortedTo


-----------------------------------------------------------------------------
(* The invariant *)

\* The numbers of foreign channels are finitely many and no channel has one;
\* no two channels have one number as long as no pass ran out of numbers.
Apartness ==
    /\ IsFiniteSet(seen)
    /\ \A c \in live : num[c] \notin seen
    /\ clean => \A c, d \in live : num[c] = num[d] => c = d

\* The part of TypeOK about each variable, in a form that provers can use.
TypesInv ==
    /\ set \in Settings /\ order \in Orders
    /\ plan \in AllChoices /\ basis \in AllChoices
    /\ armed \in BOOLEAN /\ due \in BOOLEAN /\ dirty \in BOOLEAN
    /\ force \in BOOLEAN /\ clean \in BOOLEAN
    /\ num \in [Channels -> Nat] /\ disp \in [Channels -> Nat]
    /\ locked \in [Channels -> BOOLEAN]
    /\ live \subseteq Channels /\ drift \subseteq Channels
    /\ unpushed \subseteq Channels
    /\ ext \in Externals /\ seen \in SUBSET Nat
    /\ step \in Steps
    /\ changes \in 0..MaxChanges
    /\ \A c \in Channels : (c \in live) <=> (num[c] # NoNumber)

LEMMA TypesAre == TypeOK <=> TypesInv
BY DEF TypeOK, TypesInv, Choice, AllChoices

Inv == TypesInv /\ Apartness

LEMMA InvInit == Init => Inv
<1> SUFFICES ASSUME Init PROVE Inv
  OBVIOUS
<1>1. TypesInv
  <2>1. plan \in AllChoices /\ basis \in AllChoices
    BY DEF Init, AllChoices, Choice
  <2>2. changes \in 0..MaxChanges /\ step \in Steps
    BY BoundAssumption DEF Init, Steps
  <2>3. num = [c \in Channels |-> 0] /\ disp = [c \in Channels |-> 0]
    BY DEF Init, Nowhere, NoNumber
  <2>4. /\ num \in [Channels -> Nat] /\ disp \in [Channels -> Nat]
        /\ \A c \in Channels : (c \in live) <=> (num[c] # NoNumber)
    BY <2>3 DEF Init, NoNumber
  <2>5. QED
    BY <2>1, <2>2, <2>4 DEF Init, TypesInv
<1>2. Apartness
  BY FS_EmptySet DEF Init, Apartness
<1>3. QED
  BY <1>1, <1>2 DEF Inv

\* What a pass writes: see Apply.
LEMMA PassIs ==
    ASSUME Inv, NEW s \in Settings, NEW o \in Orders, NEW f \in BOOLEAN
    PROVE  LET l == LayoutBy(s, o, f)
           IN  /\ l.at \in [Channels -> Nat] /\ l.stop \in BOOLEAN
               /\ Placed(l) \subseteq
                    live \ Kept(s, seen, Sorted(o), num, locked, f)
               /\ \A c \in Placed(l) : l.at[c] \notin seen
               /\ ~s.manual => Sound(l, seen, Sorted(o),
                                 Kept(s, seen, Sorted(o), num, locked, f), num)
<1>1. s \in Config
  BY SettingsAssumption
<1>2. seen \in SUBSET Nat /\ IsFiniteSet(seen) /\ num \in [Channels -> Nat]
  BY DEF Inv, TypesInv, Apartness
<1>3. live \subseteq Channels
  BY DEF Inv, TypesInv
<1>4. /\ Sorted(o) \in Seq(Channels) /\ Once(Sorted(o))
      /\ ToSet(Sorted(o)) = live
  BY <1>3, SortedIs
<1>5. LET l == Layout(s, seen, Sorted(o), num, locked, f)
      IN  /\ l.at \in [Channels -> Nat] /\ l.stop \in BOOLEAN
          /\ PlacedBy(l.at) \subseteq ToSet(Sorted(o))
                              \ Kept(s, seen, Sorted(o), num, locked, f)
          /\ \A c \in PlacedBy(l.at) : l.at[c] \notin seen
          /\ ~s.manual => Sound(l, seen, Sorted(o),
                            Kept(s, seen, Sorted(o), num, locked, f), num)
  BY <1>1, <1>2, <1>4, LayoutIs
<1>6. QED
  BY <1>4, <1>5 DEF LayoutBy, Placed, PlacedBy

\* A pass keeps the numbers apart.
LEMMA ApplyKeeps ==
    ASSUME Inv, NEW s \in Settings, NEW o \in Orders, NEW f \in BOOLEAN,
           Apply(LayoutBy(s, o, f), s, o, f), UNCHANGED <<live, seen>>
    PROVE  /\ num' \in [Channels -> Nat] /\ locked' \in [Channels -> BOOLEAN]
           /\ clean' \in BOOLEAN /\ basis' \in AllChoices
           /\ \A c \in Channels : (c \in live') <=> (num'[c] # NoNumber)
           /\ Apartness'
<1> DEFINE l == LayoutBy(s, o, f)
           kept == Kept(s, seen, Sorted(o), num, locked, f)
<1>1. /\ l.at \in [Channels -> Nat] /\ l.stop \in BOOLEAN
      /\ Placed(l) \subseteq live \ kept
      /\ \A c \in Placed(l) : l.at[c] \notin seen
      /\ ~s.manual => Sound(l, seen, Sorted(o), kept, num)
  BY PassIs
<1>2. /\ num' = [c \in Channels |-> IF c \in Placed(l) THEN l.at[c] ELSE num[c]]
      /\ locked' = [c \in Channels |-> locked[c] \/ (Sticky(s) /\ c \in Placed(l))]
      /\ clean' = (~s.manual /\ ~l.stop /\ (clean \/ Full(s, f)))
      /\ basis' = IF Full(s, f) THEN [set |-> s, order |-> o] ELSE basis
  BY DEF Apply
<1>3. /\ num \in [Channels -> Nat] /\ locked \in [Channels -> BOOLEAN]
      /\ basis \in AllChoices /\ live \subseteq Channels
      /\ \A c \in Channels : (c \in live) <=> (num[c] # NoNumber)
      /\ IsFiniteSet(seen) /\ \A c \in live : num[c] \notin seen
      /\ clean => \A c, d \in live : num[c] = num[d] => c = d
  BY DEF Inv, TypesInv, Apartness
<1>4. ToSet(Sorted(o)) = live
  BY <1>3, SortedIs
<1>5. kept \subseteq live
  BY <1>4 DEF Kept, Anchors
<1> HIDE DEF l, kept
<1>6. \A c \in Placed(l) : l.at[c] # NoNumber
  BY DEF Placed
<1>7. num' \in [Channels -> Nat] /\ locked' \in [Channels -> BOOLEAN]
  BY <1>1, <1>2, <1>3
<1>8. clean' \in BOOLEAN /\ basis' \in AllChoices
  BY <1>2, <1>3 DEF AllChoices
<1>9. \A c \in Channels : (c \in live') <=> (num'[c] # NoNumber)
  BY <1>1, <1>2, <1>3, <1>6
<1>10. \A c \in live' : num'[c] \notin seen'
  BY <1>1, <1>2, <1>3
<1>11. ASSUME clean', NEW c \in live, NEW d \in live, num'[c] = num'[d]
       PROVE  c = d
  <2>1. ~s.manual /\ ~l.stop /\ (clean \/ Full(s, f))
    BY <1>2, <1>11
  <2>2. Sound(l, seen, Sorted(o), kept, num)
    BY <1>1, <2>1
  <2>3. /\ live \ kept \subseteq Placed(l)
        /\ \A x \in Placed(l) : \A y \in kept : l.at[x] # num[y]
        /\ \A x, y \in Placed(l) : l.at[x] = l.at[y] => x = y
    BY <1>4, <2>1, <2>2 DEF Sound, Placed, PlacedBy
  <2>4. \A x \in Placed(l) : x \in Channels /\ num'[x] = l.at[x]
    BY <1>2 DEF Placed
  <2>5. \A x \in kept : x \notin Placed(l) /\ x \in Channels /\ num'[x] = num[x]
    BY <1>1, <1>2, <1>3, <1>5
  <2>6. CASE c \in Placed(l) /\ d \in Placed(l)
    BY <1>11, <2>3, <2>4, <2>6
  <2>7. CASE c \in Placed(l) /\ d \in kept
    BY <1>11, <2>3, <2>4, <2>5, <2>7
  <2>8. CASE c \in kept /\ d \in Placed(l)
    BY <1>11, <2>3, <2>4, <2>5, <2>8
  <2>9. CASE c \in kept /\ d \in kept
    <3>1. ~Full(s, f)
      BY <2>9 DEF Kept, Full, kept
    <3>2. clean
      BY <2>1, <3>1
    <3>3. QED
      BY <1>3, <1>11, <2>5, <2>9, <3>2
  <2>10. QED
    BY <2>3, <2>6, <2>7, <2>8, <2>9
<1>12. Apartness'
  BY <1>3, <1>10, <1>11 DEF Apartness
<1>13. QED
  BY <1>7, <1>8, <1>9, <1>12


\* The numbers in Dispatcharr that no channel of the database holds are
\* finitely many.
LEMMA ExternalOccupiedIs ==
    ASSUME Inv
    PROVE  /\ ExternalOccupied \in SUBSET Nat /\ IsFiniteSet(ExternalOccupied)
           /\ \A c \in live : num[c] \notin ExternalOccupied
<1>1. /\ live \subseteq Channels /\ disp \in [Channels -> Nat]
      /\ ext \subseteq Nat /\ IsFiniteSet(ext)
  BY ExternalsAssumption DEF Inv, TypesInv
<1>2. IsFiniteSet({disp[c] : c \in live})
  <2>1. IsFiniteSet(live)
    BY <1>1, ChannelsAssumption, FS_Subset
  <2> DEFINE shown == {disp[c] : c \in live}
             f == [c \in live |-> disp[c]]
  <2>2. f \in Surjection(live, shown)
    BY DEF Surjection
  <2> HIDE DEF shown, f
  <2>3. IsFiniteSet(shown)
    BY <2>1, <2>2, FS_Surjection
  <2>4. QED
    BY <2>3 DEF shown
<1>3. {disp[c] : c \in live} \subseteq Nat
  BY <1>1
<1> DEFINE taken == ext \cup {disp[c] : c \in live}
<1>4. IsFiniteSet(taken) /\ taken \subseteq Nat
  BY <1>1, <1>2, <1>3, FS_Union
<1>5. ExternalOccupied = (taken \ {num[c] : c \in live}) \ {NoNumber}
  BY DEF ExternalOccupied
<1> HIDE DEF taken
<1>6. ExternalOccupied \subseteq taken
  BY <1>5
<1>7. IsFiniteSet(ExternalOccupied)
  BY <1>4, <1>6, FS_Subset
<1>8. QED
  BY <1>4, <1>5, <1>6, <1>7

LEMMA SettingsStep ==
    ASSUME Inv, ChangeNumbering \/ ChangeRange \/ ChangeOrder \/ RegridNow
    PROVE  Inv'
<1>1. /\ changes' = changes + 1 /\ changes < MaxChanges
      /\ UNCHANGED <<due, channelVars, ext, runVars, clean, basis>>
  BY DEF ChangeNumbering, ChangeRange, ChangeOrder, RegridNow, MayChange
<1>2. changes' \in 0..MaxChanges
  BY <1>1, BoundAssumption DEF Inv, TypesInv
<1>3. armed' \in BOOLEAN
  <2>1. \A s : ArmedByNumbering(s) \in BOOLEAN
    BY DEF ArmedByNumbering, Inv, TypesInv
  <2>2. QED
    BY <2>1 DEF ChangeNumbering, ChangeRange, ChangeOrder, RegridNow, Inv, TypesInv,
                Sticky
<1>4. set' \in Settings /\ order' \in Orders
  BY DEF ChangeNumbering, ChangeRange, ChangeOrder, RegridNow, Inv, TypesInv
<1>5. unpushed' \subseteq Channels
  BY DEF ChangeNumbering, ChangeRange, ChangeOrder, RegridNow, Inv, TypesInv
<1>6. TypesInv'
  BY <1>1, <1>2, <1>3, <1>4, <1>5 DEF Inv, TypesInv, AllChoices, channelVars, runVars
<1>7. Apartness'
  BY <1>1 DEF Inv, Apartness, channelVars, runVars
<1>8. QED
  BY <1>6, <1>7 DEF Inv

LEMMA MidRunPassStep ==
    ASSUME Inv, MidRunPass, UNCHANGED <<settingVars, live, disp, ext, seen, force,
                                        plan, drift, unpushed>>,
           step' \in Steps, dirty' \in BOOLEAN
    PROVE  Inv'
<1>1. set \in Settings /\ order \in Orders
  BY DEF Inv, TypesInv
<1>2. /\ num' \in [Channels -> Nat] /\ locked' \in [Channels -> BOOLEAN]
      /\ clean' \in BOOLEAN /\ basis' \in AllChoices
      /\ \A c \in Channels : (c \in live') <=> (num'[c] # NoNumber)
      /\ Apartness'
  <2>1. CASE Sticky(set)
    <3>1. UNCHANGED <<num, locked, clean, basis>>
      BY <2>1 DEF MidRunPass
    <3>2. QED
      BY <3>1 DEF Inv, TypesInv, Apartness
  <2>2. CASE ~Sticky(set)
    <3>1. Apply(LayoutBy(set, order, FALSE), set, order, FALSE)
      BY <2>2 DEF MidRunPass
    <3>2. FALSE \in BOOLEAN
      OBVIOUS
    <3>3. QED
      BY <1>1, <3>1, <3>2, ApplyKeeps
  <2>3. QED
    BY <2>1, <2>2
<1>3. TypesInv'
  BY <1>2 DEF Inv, TypesInv, AllChoices, settingVars
<1>4. QED
  BY <1>2, <1>3 DEF Inv

LEMMA CreateStep ==
    ASSUME Inv, NEW c \in Channels, Create(c)
    PROVE  Inv'
<1> DEFINE used == {num[d] : d \in live} \cup seen
           n == NextNumber(set, used, LeagueOf[c])
<1>1. set \in Config /\ LeagueOf[c] \in Leagues
  BY SettingsAssumption DEF Inv, TypesInv, Leagues
<1>2. n \in Nat /\ (n # NoNumber => n \notin used)
  <2> HIDE DEF used
  <2>1. QED
    BY <1>1, NextNumberIs
<1>3. /\ c \notin live /\ n # NoNumber
      /\ num' = [num EXCEPT ![c] = n] /\ disp' = [disp EXCEPT ![c] = n]
      /\ live' = live \cup {c} /\ dirty' = TRUE
      /\ UNCHANGED <<settingVars, locked, ext, step, seen, force, plan, drift,
                     history>>
  BY DEF Create
<1> HIDE DEF n
<1>4. TypesInv'
  BY <1>2, <1>3 DEF Inv, TypesInv, AllChoices, settingVars, history
<1>5. num'[c] = n /\ \A d \in live : d # c /\ num'[d] = num[d] /\ num'[d] # n
  BY <1>2, <1>3 DEF Inv, TypesInv
<1>6. Apartness'
  <2>1. \A d \in live' : num'[d] \notin seen'
    BY <1>2, <1>3, <1>5 DEF Inv, Apartness, history
  <2>2. clean' => \A d, e \in live' : num'[d] = num'[e] => d = e
    BY <1>3, <1>5 DEF Inv, Apartness, history
  <2>3. QED
    BY <1>3, <2>1, <2>2 DEF Inv, Apartness
<1>7. QED
  BY <1>4, <1>6 DEF Inv

LEMMA ExpireStep ==
    ASSUME Inv, NEW c \in Channels, Expire(c)
    PROVE  Inv'
<1>1. /\ live' = live \ {c} /\ num' = [num EXCEPT ![c] = NoNumber]
      /\ locked' = [locked EXCEPT ![c] = FALSE]
      /\ disp' = [disp EXCEPT ![c] = NoNumber]
      /\ unpushed' = unpushed \ {c} /\ dirty' = TRUE
      /\ UNCHANGED <<settingVars, ext, step, seen, force, plan, drift, clean,
                     basis>>
  BY DEF Expire
<1>2. TypesInv'
  BY <1>1 DEF Inv, TypesInv, AllChoices, settingVars, NoNumber
<1>3. \A d \in live' : d \in live /\ num'[d] = num[d]
  BY <1>1 DEF Inv, TypesInv
<1>4. Apartness'
  BY <1>1, <1>3 DEF Inv, Apartness
<1>5. QED
  BY <1>2, <1>4 DEF Inv

LEMMA SyncNumberStep ==
    ASSUME Inv, NEW c \in Channels, SyncNumber(c)
    PROVE  Inv'
<1>1. /\ disp' = [disp EXCEPT ![c] = num[c]] /\ unpushed' = unpushed \ {c}
      /\ UNCHANGED <<settingVars, live, num, locked, ext, runVars, clean, basis>>
  BY DEF SyncNumber
<1>2. TypesInv'
  BY <1>1 DEF Inv, TypesInv, AllChoices, settingVars, runVars
<1>3. Apartness'
  BY <1>1 DEF Inv, Apartness, runVars
<1>4. QED
  BY <1>2, <1>3 DEF Inv

LEMMA WriteStep ==
    ASSUME Inv, Write
    PROVE  Inv'
<1> DEFINE l == LayoutBy(plan.set, plan.order, force)
<1>1. plan.set \in Settings /\ plan.order \in Orders /\ force \in BOOLEAN
  BY DEF Inv, TypesInv, AllChoices
<1>2. /\ Apply(l, plan.set, plan.order, force) /\ drift' = Moved(l, plan.set)
      /\ step' = "push"
      /\ UNCHANGED <<set, order, changes, live, disp, ext, seen, dirty, force,
                     plan, unpushed>>
      /\ \/ armed' = FALSE /\ due' = FALSE
         \/ UNCHANGED <<armed, due>>
  BY DEF Write
<1>3. drift' \subseteq Channels
  BY <1>2 DEF Moved, Placed
<1>4. /\ num' \in [Channels -> Nat] /\ locked' \in [Channels -> BOOLEAN]
      /\ clean' \in BOOLEAN /\ basis' \in AllChoices
      /\ \A c \in Channels : (c \in live') <=> (num'[c] # NoNumber)
      /\ Apartness'
  <2>1. UNCHANGED <<live, seen>> /\ Apply(l, plan.set, plan.order, force)
    BY <1>2
  <2>2. QED
    BY <1>1, <2>1, ApplyKeeps
<1> HIDE DEF l
<1>5. TypesInv'
  BY <1>2, <1>3, <1>4 DEF Inv, TypesInv, AllChoices, Steps
<1>6. QED
  BY <1>4, <1>5 DEF Inv

LEMMA PushStep ==
    ASSUME Inv, Push
    PROVE  Inv'
<1>1. PICK failed \in SUBSET drift :
         /\ changes' = changes + (IF failed = {} THEN 0 ELSE 1)
         /\ changes' <= MaxChanges
         /\ disp' = [c \in Channels |-> IF c \in drift \ failed THEN num[c]
                                                                ELSE disp[c]]
         /\ unpushed' = (unpushed \ drift) \cup failed
  BY DEF Push
<1>2. /\ drift' = {} /\ step' = "idle"
      /\ UNCHANGED <<set, order, armed, due, live, num, locked, ext, seen, dirty,
                     force, plan, clean, basis>>
  BY DEF Push
<1>3. changes' \in 0..MaxChanges
  BY <1>1, BoundAssumption DEF Inv, TypesInv
<1>4. disp' \in [Channels -> Nat] /\ unpushed' \subseteq Channels
  BY <1>1 DEF Inv, TypesInv
<1>5. TypesInv'
  BY <1>2, <1>3, <1>4 DEF Inv, TypesInv, AllChoices, Steps
<1>6. Apartness'
  BY <1>2 DEF Inv, Apartness
<1>7. QED
  BY <1>5, <1>6 DEF Inv

LEMMA InvNext == Inv /\ [Next]_vars => Inv'
<1> SUFFICES ASSUME Inv, [Next]_vars PROVE Inv'
  OBVIOUS
<1>1. CASE ChangeNumbering \/ ChangeRange \/ ChangeOrder \/ RegridNow
  BY <1>1, SettingsStep
<1>2. CASE NewDay
  BY <1>2 DEF NewDay, Inv, TypesInv, Apartness, AllChoices, channelVars, runVars,
              history
<1>3. CASE ExternalChange
  BY <1>3 DEF ExternalChange, Inv, TypesInv, Apartness, AllChoices, settingVars,
              channelVars, runVars, history
<1>4. CASE BeginRun
  <2>1. /\ ExternalOccupied \in SUBSET Nat /\ IsFiniteSet(ExternalOccupied)
        /\ \A c \in live : num[c] \notin ExternalOccupied
    BY ExternalOccupiedIs
  <2>2. /\ step' = "start" /\ seen' = ExternalOccupied
        /\ UNCHANGED <<settingVars, channelVars, ext, dirty, force, plan, drift,
                       history>>
    BY <1>4 DEF BeginRun
  <2>3. TypesInv'
    BY <2>1, <2>2 DEF Inv, TypesInv, AllChoices, Steps, settingVars, channelVars,
                      history
  <2>4. Apartness'
    BY <2>1, <2>2 DEF Inv, Apartness, channelVars, history
  <2>5. QED
    BY <2>3, <2>4 DEF Inv
<1>5. CASE PrePass
  <2>1. /\ MidRunPass /\ step' \in Steps /\ dirty' \in BOOLEAN
        /\ UNCHANGED <<settingVars, live, disp, ext, seen, force, plan, drift,
                       unpushed>>
    BY <1>5 DEF PrePass, Steps, Inv, TypesInv
  <2>2. QED
    BY <2>1, MidRunPassStep
<1>6. CASE PostPass
  <2>1. /\ MidRunPass /\ step' \in Steps /\ dirty' \in BOOLEAN
        /\ UNCHANGED <<settingVars, live, disp, ext, seen, force, plan, drift,
                       unpushed>>
    BY <1>6 DEF PostPass, Steps, Inv, TypesInv
  <2>2. QED
    BY <2>1, MidRunPassStep
<1>7. CASE EndGroups
  BY <1>7 DEF EndGroups, Inv, TypesInv, Apartness, AllChoices, Steps, settingVars,
              channelVars, history
<1>8. CASE Decide
  <2>1. force' \in BOOLEAN
    BY <1>8 DEF Decide, Sticky
  <2>2. QED
    BY <1>8, <2>1 DEF Decide, Inv, TypesInv, Apartness, AllChoices, Steps,
                      settingVars, channelVars, history
<1>9. CASE Read
  <2>1. plan' \in AllChoices
    BY <1>9 DEF Read, Choice, AllChoices, Inv, TypesInv
  <2>2. QED
    BY <1>9, <2>1 DEF Read, Inv, TypesInv, Apartness, AllChoices, Steps,
                      settingVars, channelVars, history
<1>10. CASE Write
  BY <1>10, WriteStep
<1>11. CASE Push
  BY <1>11, PushStep
<1>12. ASSUME NEW c \in Channels, Create(c) \/ Expire(c) \/ SyncNumber(c)
       PROVE  Inv'
  BY <1>12, CreateStep, ExpireStep, SyncNumberStep
<1>13. CASE UNCHANGED vars
  BY <1>13 DEF vars, Inv, TypesInv, Apartness, AllChoices, settingVars,
               channelVars, runVars, history
<1>14. QED
  BY <1>1, <1>2, <1>3, <1>4, <1>5, <1>6, <1>7, <1>8, <1>9, <1>10, <1>11, <1>12,
     <1>13 DEF Next, SettledNext

LEMMA InvHolds == Spec => []Inv
<1>1. QED
  BY InvInit, InvNext, PTL DEF Spec

-----------------------------------------------------------------------------
(* The theorems *)

\* Type correctness: who is live has a number, who is not has none.
THEOREM TypeCorrect == Spec => []TypeOK
<1>1. Inv => TypeOK
  BY TypesAre DEF Inv
<1>2. QED
  BY <1>1, InvHolds, PTL

\* NumbersAreUnique for any channels, orders, settings and foreign numbers.
THEOREM NumbersAreUniqueHolds == Spec => []NumbersAreUnique
<1>1. Inv => NumbersAreUnique
  BY DEF Inv, Apartness, NumbersAreUnique, Unique
<1>2. QED
  BY <1>1, InvHolds, PTL


\* StickyNumbersStay: who has a number and is locked keeps it through every
\* step but a re-layout, a pass of a mode that is not sticky, and a pass that
\* finds the number outside its range.
THEOREM StickyNumbersStayHolds == Spec => StickyNumbersStay
<1> DEFINE Stays ==
      \A c \in live \cap live' :
          (locked[c] /\ num'[c] # num[c]) =>
              \/ step = "write" /\ force
              \/ ~Sticky(IF step = "write" THEN plan.set ELSE set)
              \/ num[c] \notin plan.set.first..plan.set.last
<1>1. Inv /\ [Next]_vars => Stays
  <2> SUFFICES ASSUME Inv, [Next]_vars, NEW c \in live \cap live',
                      locked[c], num'[c] # num[c]
               PROVE  \/ step = "write" /\ force
                      \/ ~Sticky(IF step = "write" THEN plan.set ELSE set)
                      \/ num[c] \notin plan.set.first..plan.set.last
    OBVIOUS
  <2>1. /\ num \in [Channels -> Nat] /\ live \subseteq Channels
        /\ num[c] \notin seen
    BY DEF Inv, TypesInv, Apartness
  <2>2. CASE Write
    <3> DEFINE l == LayoutBy(plan.set, plan.order, force)
    <3>1. /\ step = "write"
          /\ num' = [d \in Channels |-> IF d \in Placed(l) THEN l.at[d] ELSE num[d]]
      BY <2>2 DEF Write, Apply
    <3>2. plan.set \in Settings /\ plan.order \in Orders /\ force \in BOOLEAN
      BY DEF Inv, TypesInv, AllChoices
    <3>3. Placed(l) \subseteq
             live \ Kept(plan.set, seen, Sorted(plan.order), num, locked, force)
      BY <3>2, PassIs
    <3>4. c \in Placed(l)
      BY <2>1, <3>1
    <3>5. ToSet(Sorted(plan.order)) = live
      BY <2>1, <3>2, SortedIs
    <3>6. ASSUME Sticky(plan.set), ~force
          PROVE  num[c] \notin plan.set.first..plan.set.last
      <4>1. c \notin Anchors(plan.set, seen, Sorted(plan.order), num, locked)
        BY <3>3, <3>4, <3>6 DEF Kept
      <4>2. QED
        BY <2>1, <3>5, <4>1 DEF Anchors
    <3>7. QED
      BY <3>1, <3>6
  <2>3. CASE PrePass \/ PostPass
    <3>1. MidRunPass /\ step # "write"
      BY <2>3 DEF PrePass, PostPass
    <3>2. ~Sticky(set)
      BY <3>1 DEF MidRunPass
    <3>3. QED
      BY <3>1, <3>2
  <2>4. CASE \E d \in Channels : Create(d)
    <3>1. PICK d \in Channels : Create(d)
      BY <2>4
    <3>2. d # c /\ \E n : num' = [num EXCEPT ![d] = n]
      BY <3>1 DEF Create
    <3>3. QED
      BY <2>1, <3>2
  <2>5. CASE \E d \in Channels : Expire(d)
    <3>1. PICK d \in Channels : Expire(d)
      BY <2>5
    <3>2. d # c /\ num' = [num EXCEPT ![d] = NoNumber]
      BY <3>1 DEF Expire
    <3>3. QED
      BY <2>1, <3>2
  <2>6. CASE \/ ChangeNumbering \/ ChangeRange \/ ChangeOrder \/ RegridNow
             \/ NewDay \/ ExternalChange \/ BeginRun \/ EndGroups
             \/ Decide \/ Read \/ Push
             \/ \E d \in Channels : SyncNumber(d)
    <3>1. num' = num
      BY <2>6 DEF ChangeNumbering, ChangeRange, ChangeOrder, RegridNow, MayChange,
         NewDay, ExternalChange, BeginRun, EndGroups, Decide, Read, Push,
         SyncNumber, channelVars
    <3>2. QED
      BY <3>1
  <2>7. CASE UNCHANGED vars
    BY <2>7 DEF vars, channelVars
  <2>8. QED
    BY <2>2, <2>3, <2>4, <2>5, <2>6, <2>7 DEF Next, SettledNext
<1>2. QED
  BY <1>1, InvHolds, PTL DEF Spec, StickyNumbersStay

-----------------------------------------------------------------------------
(* The order of a layout *)

\* LaidOutInOrder with its parts named.
InOrder ==
    (step = "push" /\ clean /\ ~plan.set.manual /\ Full(plan.set, force)) =>
        /\ Rising(num, Sorted(plan.order))
        /\ Sticky(plan.set) => Ordered(num, Sorted(plan.order), Step(plan.set))

\* Blocks in order rise.
LEMMA OrderedRises ==
    ASSUME NEW s \in Seq(Channels), NEW at \in [Channels -> Nat],
           NEW k \in Nat \ {0}, Ordered(at, s, k)
    PROVE  Rising(at, s)
<1> SUFFICES ASSUME NEW p \in 1..(Len(s) - 1)
             PROVE  at[s[p]] < at[s[p + 1]]
  BY DEF Rising
<1>1. s[p] \in Channels /\ s[p + 1] \in Channels
  <2>1. p \in 1..Len(s) /\ p + 1 \in 1..Len(s)
    OBVIOUS
  <2>2. QED
    BY <2>1
<1>2. \/ at[s[p + 1]] = at[s[p]] + 1
      \/ at[s[p + 1]] >= at[s[p]] + k
  BY DEF Ordered
<1>3. at[s[p]] \in Nat /\ at[s[p + 1]] \in Nat
  BY <1>1
<1>4. QED
  BY <1>2, <1>3

\* Numbers that agree on the channels have the same order.
LEMMA OrderIsOfNumbers ==
    ASSUME NEW s \in Seq(Channels), NEW at, NEW bt,
           \A c \in ToSet(s) : at[c] = bt[c]
    PROVE  /\ Rising(at, s) => Rising(bt, s)
           /\ \A k : Ordered(at, s, k) => Ordered(bt, s, k)
<1>1. \A p \in 1..(Len(s) - 1) : s[p] \in ToSet(s) /\ s[p + 1] \in ToSet(s)
  <2> SUFFICES ASSUME NEW p \in 1..(Len(s) - 1)
               PROVE  s[p] \in ToSet(s) /\ s[p + 1] \in ToSet(s)
    OBVIOUS
  <2>1. p \in 1..Len(s) /\ p + 1 \in 1..Len(s)
    OBVIOUS
  <2>2. QED
    BY <2>1 DEF ToSet
<1>2. \A p \in 1..(Len(s) - 1) : at[s[p]] = bt[s[p]] /\ at[s[p + 1]] = bt[s[p + 1]]
  BY <1>1
<1>3. Rising(at, s) => Rising(bt, s)
  BY <1>2 DEF Rising
<1>4. \A k : Ordered(at, s, k) => Ordered(bt, s, k)
  BY <1>2 DEF Ordered
<1>5. QED
  BY <1>3, <1>4

\* Sorting depends on nothing but the order and who lives.
LEMMA SortedStays ==
    ASSUME live' = live, plan' = plan
    PROVE  Sorted(plan.order)' = Sorted(plan.order)
BY DEF Sorted, Iterate

LEMMA FullPassOrders ==
    ASSUME Inv, Write, clean', ~plan.set.manual, Full(plan.set, force)
    PROVE  /\ Rising(num', Sorted(plan.order))
           /\ Sticky(plan.set) => Ordered(num', Sorted(plan.order), Step(plan.set))
<1> DEFINE s == Sorted(plan.order)
           l == LayoutBy(plan.set, plan.order, force)
           cfg == plan.set
<1>1. plan.set \in Settings /\ plan.order \in Orders /\ force \in BOOLEAN
  BY DEF Inv, TypesInv, AllChoices
<1>2. /\ cfg \in Config /\ seen \in SUBSET Nat /\ IsFiniteSet(seen)
      /\ live \subseteq Channels /\ num \in [Channels -> Nat]
  BY <1>1, SettingsAssumption DEF Inv, TypesInv, Apartness
<1>3. s \in Seq(Channels) /\ ToSet(s) = live /\ Once(s)
  BY <1>1, <1>2, SortedIs
<1>4. /\ num' = [c \in Channels |-> IF c \in Placed(l) THEN l.at[c] ELSE num[c]]
      /\ ~l.stop
  BY DEF Write, Apply
<1>5. Kept(cfg, seen, s, num, locked, force) = {}
  BY DEF Kept, Full
<1>6. l.at \in [Channels -> Nat] /\ live \subseteq Placed(l)
  <2>1. /\ l.at \in [Channels -> Nat]
        /\ Sound(l, seen, s, Kept(cfg, seen, s, num, locked, force), num)
    BY <1>1, PassIs
  <2>2. QED
    BY <1>3, <1>4, <1>5, <2>1 DEF Sound, Placed, PlacedBy
<1> HIDE DEF s
<1>7. \A c \in ToSet(s) : l.at[c] = num'[c]
  BY <1>2, <1>3, <1>4, <1>6
<1>8. l = Layout(cfg, seen, s, num, locked, force)
  BY DEF LayoutBy, s
<1> HIDE DEF l
<1>9. CASE Sticky(cfg)
  <2>1. force
    BY <1>9 DEF Full
  <2>2. l = ResetLayout(cfg, seen, s)
    BY <1>8, <1>9, <2>1 DEF Layout, Sticky
  <2>3. Ordered(l.at, s, Step(cfg))
    <3>1. LET r == ResetLayout(cfg, seen, s) IN ~r.stop => Ordered(r.at, s, Step(cfg))
      BY <1>2, <1>3, ResetLayoutIs
    <3>2. QED
      BY <1>4, <2>2, <3>1
  <2>4. Rising(l.at, s)
    BY <1>2, <1>3, <1>6, <2>3, StepIs, OrderedRises
  <2>5. QED
    BY <1>3, <1>7, <2>3, <2>4, OrderIsOfNumbers DEF s
<1>10. CASE ~Sticky(cfg)
  <2>1. l = CompactLayout(cfg, seen, s)
    BY <1>2, <1>8, <1>10 DEF Layout, Sticky, Config, Modes
  <2>2. Rising(l.at, s)
    <3>1. LET r == CompactLayout(cfg, seen, s) IN ~r.stop => Rising(r.at, s)
      BY <1>2, <1>3, CompactLayoutIs
    <3>2. QED
      BY <1>4, <2>1, <3>1
  <2>3. QED
    BY <1>3, <1>7, <1>10, <2>2, OrderIsOfNumbers DEF s
<1>11. QED
  BY <1>9, <1>10

\* LaidOutInOrder for any channels, orders, settings and foreign numbers.
THEOREM LaidOutInOrderHolds == Spec => []LaidOutInOrder
<1>1. Init => InOrder
  BY DEF Init, InOrder
<1>2. Inv /\ InOrder /\ [Next]_vars => InOrder'
  <2> SUFFICES ASSUME Inv, InOrder, [Next]_vars,
                      step' = "push", clean', ~plan'.set.manual,
                      Full(plan'.set, force')
               PROVE  /\ Rising(num', Sorted(plan.order)')
                      /\ Sticky(plan'.set) =>
                           Ordered(num', Sorted(plan.order)', Step(plan'.set))
    BY DEF InOrder
  <2>1. CASE Write
    <3>1. UNCHANGED <<live, plan, force>>
      BY <2>1 DEF Write
    <3>2. Sorted(plan.order)' = Sorted(plan.order)
      BY <3>1, SortedStays
    <3>3. QED
      BY <2>1, <3>1, <3>2, FullPassOrders
  <2>2. CASE \/ ChangeNumbering \/ ChangeRange \/ ChangeOrder \/ RegridNow
             \/ NewDay \/ UNCHANGED vars
    <3>1. UNCHANGED <<live, plan, force, num, step, clean>>
      BY <2>2 DEF ChangeNumbering, ChangeRange, ChangeOrder, RegridNow, MayChange,
         NewDay, vars, channelVars, runVars, history
    <3>2. Sorted(plan.order)' = Sorted(plan.order)
      BY <3>1, SortedStays
    <3>3. QED
      BY <3>1, <3>2 DEF InOrder
  <2>3. CASE \/ ExternalChange \/ BeginRun \/ PrePass \/ PostPass \/ EndGroups
             \/ Decide \/ Read \/ Push
             \/ \E c \in Channels : Create(c) \/ Expire(c) \/ SyncNumber(c)
    <3>1. step' # "push"
      BY <2>3 DEF ExternalChange, BeginRun, PrePass, PostPass, EndGroups, Decide,
         Read, Push, Create, Expire, SyncNumber, runVars
    <3>2. QED
      BY <3>1
  <2>4. QED
    BY <2>1, <2>2, <2>3 DEF Next, SettledNext
<1>3. InOrder => LaidOutInOrder
  BY DEF InOrder, LaidOutInOrder, Neighbours, Rising, Ordered
<1>4. QED
  BY <1>1, <1>2, <1>3, InvHolds, PTL DEF Spec


\* ResetMatchesSticky for any channels, orders, settings and foreign numbers.
THEOREM ResetMatchesStickyHolds == Spec => []ResetMatchesSticky
<1>1. Inv => ResetMatchesSticky
  <2> SUFFICES ASSUME Inv, Sticky(plan.set)
               PROVE  LET unlocked == [c \in Channels |-> FALSE]
                          reset  == LayoutBy(plan.set, plan.order, TRUE)
                          sticky == Layout(plan.set, seen, Sorted(plan.order),
                                           num, unlocked, FALSE)
                      IN  reset.stop \/ sticky = reset
    BY DEF ResetMatchesSticky
  <2> DEFINE s == Sorted(plan.order)
             unlocked == [c \in Channels |-> FALSE]
             cfg == plan.set
  <2>1. /\ cfg \in Config /\ plan.order \in Orders /\ live \subseteq Channels
        /\ seen \in SUBSET Nat /\ num \in [Channels -> Nat]
    BY SettingsAssumption DEF Inv, TypesInv, AllChoices
  <2>2. s \in Seq(Channels) /\ Once(s)
    BY <2>1, SortedIs
  <2>3. cfg.mode \in {"gap", "strict"} /\ ~cfg.manual
    BY DEF Sticky
  <2>4. LayoutBy(plan.set, plan.order, TRUE) = ResetLayout(cfg, seen, s)
    BY <2>3 DEF LayoutBy, Layout, Sticky
  <2>5. Layout(cfg, seen, s, num, unlocked, FALSE)
          = StickyLayout(cfg, seen, s, num, unlocked)
    BY <2>3 DEF Layout, Sticky
  <2> HIDE DEF s
  <2>6. LET reset  == ResetLayout(cfg, seen, s)
            sticky == StickyLayout(cfg, seen, s, num, [c \in Channels |-> FALSE])
        IN  reset.stop \/ sticky = reset
    BY <2>1, <2>2, <2>3, ResetMatches
  <2>7. QED
    BY <2>4, <2>5, <2>6 DEF s
<1>2. QED
  BY <1>1, InvHolds, PTL

-----------------------------------------------------------------------------
(* Settings *)

\* Between the reads and the write of the last pass nothing changes, and
\* whenever the mode is sticky and no re-layout is armed, the last full layout
\* was made with the settings of now.
UpToDate ==
    /\ step = "write" => plan = Choice
    /\ Sticky(set) /\ ~armed => basis = Choice

\* SettingsTakeEffect for any channels, orders and automatic settings, as long
\* as nobody changes the settings in the window that NumberingArmLost is about.
THEOREM SettingsTakeEffectHolds ==
    ASSUME ~ArmsInWindow, \A s \in Settings : ~s.manual
    PROVE  Spec => []SettingsTakeEffect
<1>1. Init => UpToDate
  BY DEF Init, UpToDate
<1>2. Inv /\ UpToDate /\ [Next]_vars => UpToDate'
  <2> SUFFICES ASSUME Inv, UpToDate, [Next]_vars PROVE UpToDate'
    OBVIOUS
  <2>1. CASE ChangeNumbering
    <3>1. /\ set' \in Settings /\ set' # set
          /\ set'.first = set.first /\ set'.last = set.last
          /\ armed' = ArmedByNumbering(set') /\ step # "write"
          /\ UNCHANGED <<step, plan, basis>>
      BY <2>1 DEF ChangeNumbering, MayChange, runVars
    <3>2. set \in Config /\ set' \in Config /\ ~set.manual /\ ~set'.manual
      BY <3>1, SettingsAssumption DEF Inv, TypesInv
    <3>3. set'.gap # set.gap \/ set'.mode # set.mode
      BY <3>1, <3>2 DEF Config
    <3>4. Sticky(set') => armed'
      BY <3>1, <3>3 DEF ArmedByNumbering, Sticky
    <3>5. QED
      BY <3>1, <3>4 DEF UpToDate
  <2>2. CASE ChangeRange
    <3>1. PICK s \in Settings :
                /\ s = [set EXCEPT !.first = s.first, !.last = s.last]
                /\ set' = s /\ armed' = (armed \/ Sticky(set))
      BY <2>2 DEF ChangeRange
    <3>2. step # "write" /\ UNCHANGED <<step, plan, basis>>
      BY <2>2 DEF ChangeRange, MayChange, runVars
    <3>3. set'.manual = set.manual /\ set'.mode = set.mode
      <4>1. set \in Config
        BY SettingsAssumption DEF Inv, TypesInv
      <4>2. QED
        BY <3>1, <4>1 DEF Config
    <3>4. Sticky(set') => armed'
      BY <3>1, <3>3 DEF Sticky
    <3>5. QED
      BY <3>2, <3>4 DEF UpToDate
  <2>3. CASE ChangeOrder \/ RegridNow
    <3>1. armed' = TRUE /\ step # "write" /\ UNCHANGED step
      BY <2>3 DEF ChangeOrder, RegridNow, MayChange, runVars
    <3>2. QED
      BY <3>1 DEF UpToDate
  <2>4. CASE PrePass \/ PostPass
    <3>1. /\ MidRunPass /\ step' # "write" /\ UNCHANGED <<set, order, armed>>
      BY <2>4 DEF PrePass, PostPass, settingVars
    <3>2. CASE Sticky(set)
      BY <3>1, <3>2 DEF MidRunPass, UpToDate, Choice
    <3>3. CASE ~Sticky(set)
      BY <3>1, <3>3 DEF UpToDate
    <3>4. QED
      BY <3>2, <3>3
  <2>5. CASE Read
    BY <2>5 DEF Read, UpToDate, Choice, settingVars, history
  <2>6. CASE Write
    <3> DEFINE l == LayoutBy(plan.set, plan.order, force)
    <3>1. /\ step = "write" /\ step' = "push" /\ UNCHANGED <<set, order>>
          /\ basis' = IF Full(plan.set, force)
                      THEN [set |-> plan.set, order |-> plan.order] ELSE basis
          /\ ~(Sticky(plan.set) /\ force) => armed' = armed
      BY <2>6 DEF Write, Apply
    <3>2. plan = Choice
      BY <3>1 DEF UpToDate
    <3>3. plan.set = set /\ plan.order = order
      BY <3>2 DEF Choice
    <3>4. CASE Full(plan.set, force)
      BY <3>1, <3>3, <3>4 DEF UpToDate, Choice
    <3>5. CASE ~Full(plan.set, force)
      BY <3>1, <3>5 DEF UpToDate, Choice, Full
    <3>6. QED
      BY <3>4, <3>5
  <2>7. CASE \/ NewDay \/ ExternalChange \/ BeginRun \/ EndGroups \/ Decide \/ Push
             \/ (\E c \in Channels : Create(c) \/ Expire(c) \/ SyncNumber(c))
             \/ UNCHANGED vars
    <3>1. /\ UNCHANGED <<set, order, armed, plan, basis>>
          /\ step' # "write" \/ UNCHANGED step
      BY <2>7 DEF NewDay, ExternalChange, BeginRun, EndGroups, Decide, Push,
         Create, Expire, SyncNumber, vars, settingVars, runVars, history
    <3>2. QED
      BY <3>1 DEF UpToDate, Choice
  <2>8. QED
    BY <2>1, <2>2, <2>3, <2>4, <2>5, <2>6, <2>7 DEF Next, SettledNext
<1>3. UpToDate => SettingsTakeEffect
  BY DEF UpToDate, SettingsTakeEffect
<1>4. QED
  BY <1>1, <1>2, <1>3, InvHolds, PTL DEF Spec

-----------------------------------------------------------------------------
(* What Dispatcharr shows *)

\* A channel shows its number, or its last push failed, or it is about to be
\* pushed.
Shown == /\ \A c \in live \ (unpushed \cup drift) : disp[c] = num[c]
         /\ step # "push" => drift = {}

\* DispatcharrShowsNumbers in the sticky modes, for any channels, orders and
\* foreign numbers: no pass writes a number that the end of the generation
\* does not push.
THEOREM DispatcharrShowsStickyNumbers ==
    ASSUME \A s \in Settings : Sticky(s)
    PROVE  Spec => []DispatcharrShowsNumbers
<1>1. Init => Shown
  BY DEF Init, Shown
<1>2. Inv /\ Shown /\ [Next]_vars => Shown'
  <2> SUFFICES ASSUME Inv, Shown, [Next]_vars PROVE Shown'
    OBVIOUS
  <2>1. /\ num \in [Channels -> Nat] /\ disp \in [Channels -> Nat]
        /\ live \subseteq Channels /\ set \in Settings /\ plan.set \in Settings
        /\ drift \subseteq Channels
    BY DEF Inv, TypesInv, AllChoices
  <2>2. CASE ChangeNumbering
    <3>1. set' \in Settings /\ Sticky(set') /\ Sticky(set)
      BY <2>1, <2>2 DEF ChangeNumbering
    <3>2. UNCHANGED <<live, num, disp, drift, step>>
      BY <2>2 DEF ChangeNumbering, MayChange, channelVars, runVars
    <3>3. unpushed' = unpushed
      BY <2>2, <3>1 DEF ChangeNumbering
    <3>4. QED
      BY <3>2, <3>3 DEF Shown
  <2>3. CASE PrePass \/ PostPass
    <3>1. MidRunPass /\ UNCHANGED <<live, disp, drift, unpushed>> /\ step # "push"
      BY <2>3 DEF PrePass, PostPass
    <3>2. UNCHANGED num
      BY <2>1, <3>1 DEF MidRunPass
    <3>3. QED
      BY <3>1, <3>2 DEF Shown
  <2>4. ASSUME NEW c \in Channels, Create(c)
        PROVE  Shown'
    <3>1. PICK n : num' = [num EXCEPT ![c] = n] /\ disp' = [disp EXCEPT ![c] = n]
      BY <2>4 DEF Create
    <3>2. live' = live \cup {c} /\ UNCHANGED <<drift, step, unpushed>>
      BY <2>4 DEF Create, history
    <3>3. QED
      BY <2>1, <3>1, <3>2 DEF Shown
  <2>5. ASSUME NEW c \in Channels, Expire(c)
        PROVE  Shown'
    <3>1. /\ num' = [num EXCEPT ![c] = NoNumber] /\ disp' = [disp EXCEPT ![c] = NoNumber]
          /\ live' = live \ {c} /\ unpushed' = unpushed \ {c}
          /\ UNCHANGED <<drift, step>>
      BY <2>5 DEF Expire
    <3>2. QED
      BY <2>1, <3>1 DEF Shown
  <2>6. ASSUME NEW c \in Channels, SyncNumber(c)
        PROVE  Shown'
    <3>1. /\ disp' = [disp EXCEPT ![c] = num[c]] /\ unpushed' = unpushed \ {c}
          /\ UNCHANGED <<live, num, drift, step>>
      BY <2>6 DEF SyncNumber, runVars
    <3>2. QED
      BY <2>1, <3>1 DEF Shown
  <2>7. CASE Write
    <3> DEFINE l == LayoutBy(plan.set, plan.order, force)
    <3>1. /\ num' = [c \in Channels |-> IF c \in Placed(l) THEN l.at[c] ELSE num[c]]
          /\ drift' = Moved(l, plan.set) /\ step = "write" /\ step' = "push"
          /\ UNCHANGED <<live, disp, unpushed>>
      BY <2>7 DEF Write, Apply
    <3>2. drift' = {c \in Placed(l) : l.at[c] # num[c]}
      BY <2>1, <3>1 DEF Moved
    <3> HIDE DEF l
    <3>3. \A c \in live \ drift' : num'[c] = num[c]
      BY <2>1, <3>1, <3>2
    <3>4. \A c \in live \ unpushed : disp[c] = num[c]
      BY <3>1 DEF Shown
    <3>5. QED
      BY <3>1, <3>3, <3>4 DEF Shown
  <2>8. CASE Push
    <3>1. PICK failed \in SUBSET drift :
             /\ disp' = [c \in Channels |-> IF c \in drift \ failed THEN num[c]
                                                                     ELSE disp[c]]
             /\ unpushed' = (unpushed \ drift) \cup failed
      BY <2>8 DEF Push
    <3>2. drift' = {} /\ UNCHANGED <<live, num>>
      BY <2>8 DEF Push
    <3>3. QED
      BY <2>1, <3>1, <3>2 DEF Shown
  <2>9. CASE \/ ChangeRange \/ ChangeOrder \/ RegridNow
             \/ NewDay \/ ExternalChange \/ BeginRun \/ EndGroups \/ Decide \/ Read
             \/ UNCHANGED vars
    <3>1. /\ UNCHANGED <<live, num, disp, drift, unpushed>>
          /\ (step' # "push" /\ step # "push") \/ UNCHANGED step
      BY <2>9 DEF ChangeRange, ChangeOrder, RegridNow, MayChange, NewDay,
         ExternalChange, BeginRun, EndGroups, Decide, Read, vars, channelVars,
         runVars, history
    <3>2. QED
      BY <3>1 DEF Shown
  <2>10. QED
    BY <2>2, <2>3, <2>4, <2>5, <2>6, <2>7, <2>8, <2>9 DEF Next, SettledNext
<1>3. Shown => DispatcharrShowsNumbers
  BY DEF Shown, DispatcharrShowsNumbers
<1>4. QED
  BY <1>1, <1>2, <1>3, InvHolds, PTL DEF Spec

-----------------------------------------------------------------------------
(* What shares the run with the numbers: the theorems of the modules of the    *)
(* directory, the calls, the backups and the cache, for the composition.       *)

LP == INSTANCE LeagueDirectoryProofs WITH
    Requests <- LeagueRequests, MaxChanges <- LeagueChanges,
    MaxFaults <- LeagueFaults, row <- ldRow, counted <- ldCounted,
    teams <- ldTeams, entries <- ldEntries, sub <- ldSub, flag <- ldFlag,
    stale <- ldStale, map <- ldMap, client <- ldClient, thread <- ldThread,
    wish <- ldWish, edited <- ldEdited, holed <- ldHoled,
    torn <- ldTorn, left <- ldLeft,
    changes <- ldChanges, faults <- ldFaults

DP == INSTANCE DispatcharrSessionProofs WITH
    Threads <- Callers,
    MaxChanges <- AccountChanges, MaxFaults <- CallFaults,
    saved <- dsSaved, pending <- dsPending, current <- dsCurrent,
    account <- dsAccount, session <- dsSession, lock <- dsLock,
    thread <- dsThread, calls <- dsCalls, faults <- dsFaults,
    changes <- dsChanges

BP == INSTANCE BackupsProofs WITH
    MaxFaults <- BackupFaults, file <- bkFile, marked <- bkMarked, db <- bkDb,
    newest <- bkNewest, clock <- bkClock, job <- bkJob, late <- bkLate,
    hollow <- bkHollow, meddled <- bkMeddled, requests <- bkRequests,
    faults <- bkFaults

CP == INSTANCE ServiceCacheProofs WITH
    Threads <- Readers, MaxTime <- CacheTime, MaxFaults <- CacheFaults,
    wanted <- caWanted, now <- caNow, memory <- caMemory, disk <- caDisk,
    dirty <- caDirty, deleted <- caDeleted, carried <- caCarried,
    keylock <- caKeylock,
    holder <- caHolder, thread <- caThread, flush <- caFlush,
    clearing <- caClearing, lookups <- caLookups, faults <- caFaults

\* The proofs are about the same actions, types and properties as the
\* composition: both are instances of one module.
LEMMA LeaguesAgree ==
    /\ Ld!Init <=> LP!Init
    /\ [Ld!Next]_(Ld!vars) <=> [LP!Next]_(LP!vars)
    /\ Ld!TypeOK <=> LP!TypeOK
    /\ Ld!DirectoryIsKept <=> LP!DirectoryIsKept
  BY Zenon
  DEF Ld!Configured, LP!Configured, Ld!Leagues, LP!Leagues,
      Ld!Refreshers, LP!Refreshers, Ld!Threads, LP!Threads, Ld!Ids,
      LP!Ids, Ld!rows, LP!rows, Ld!memory, LP!memory, Ld!history,
      LP!history, Ld!traces, LP!traces, Ld!vars, LP!vars, Ld!Rosters, LP!Rosters, Ld!Pcs,
      LP!Pcs, Ld!NoRoster, LP!NoRoster, Ld!Idle, LP!Idle, Ld!Goto,
      LP!Goto, Ld!Init, LP!Init, Ld!Start, LP!Start, Ld!Press, LP!Press,
      Ld!Due, LP!Due, Ld!List, LP!List, Ld!Answer, LP!Answer, Ld!Taken,
      LP!Taken, Ld!Fetch, LP!Fetch, Ld!NothingListed, LP!NothingListed,
      Ld!Merged, LP!Merged, Ld!Save, LP!Save, Ld!Raise, LP!Raise,
      Ld!Flag, LP!Flag, Ld!Done, LP!Done, Ld!NoProviders,
      LP!NoProviders, Ld!Unflag, LP!Unflag, Ld!QueryFails,
      LP!QueryFails, Ld!Meta, LP!Meta, Ld!Clear, LP!Clear, Ld!Query, LP!Query,
      Ld!Filled, LP!Filled, Ld!Fill, LP!Fill, Ld!Known, LP!Known,
      Ld!Request, LP!Request, Ld!ReadAnother, LP!ReadAnother, Ld!Create,
      LP!Create, Ld!Edit, LP!Edit, Ld!Delete, LP!Delete, Ld!Shown,
      LP!Shown, Ld!Subscribe, LP!Subscribe, Ld!Resolve, LP!Resolve,
      Ld!FetchOne, LP!FetchOne, Ld!Write, LP!Write, Ld!Age, LP!Age,
      Ld!Expire, LP!Expire, Ld!Restart, LP!Restart, Ld!Refresh,
      LP!Refresh, Ld!Reload, LP!Reload, Ld!Scoped, LP!Scoped, Ld!Next,
      LP!Next, Ld!TypeOK, LP!TypeOK, Ld!WishesStay, LP!WishesStay,
      Ld!Reloading, LP!Reloading, Ld!MappingIsComplete,
      LP!MappingIsComplete, Ld!FlagHasThread, LP!FlagHasThread,
      Ld!DirectoryIsKept, LP!DirectoryIsKept

\* So are these of the calls,
LEMMA CallsAgree ==
    /\ Ds!Init <=> DP!Init
    /\ [Ds!Next]_(Ds!vars) <=> [DP!Next]_(DP!vars)
    /\ Ds!TypeOK <=> DP!TypeOK
    /\ Ds!CallsSurvive <=> DP!CallsSurvive
  BY Zenon
  DEF Ds!factory, DP!factory, Ds!bounds, DP!bounds, Ds!vars, DP!vars,
      Ds!Nobody, DP!Nobody, Ds!Tokens, DP!Tokens, Ds!Pcs, DP!Pcs,
      Ds!Results, DP!Results, Ds!Connections, DP!Connections,
      Ds!NoSession, DP!NoSession, Ds!Idle, DP!Idle, Ds!Init, DP!Init,
      Ds!Account, DP!Account, Ds!Session, DP!Session, Ds!SetSession,
      DP!SetSession, Ds!Unlock, DP!Unlock, Ds!Goto, DP!Goto, Ds!End,
      DP!End, Ds!Fault, DP!Fault, Ds!Call, DP!Call, Ds!Cut, DP!Cut,
      Ds!New, DP!New, Ds!Same, DP!Same, Ds!GetConnection,
      DP!GetConnection, Ds!Save, DP!Save, Ds!Reconnect, DP!Reconnect,
      Ds!Got, DP!Got, Ds!GetToken, DP!GetToken, Ds!Sleep, DP!Sleep,
      Ds!Refresh, DP!Refresh, Ds!RefreshFails, DP!RefreshFails, Ds!Login,
      DP!Login, Ds!LoginFails, DP!LoginFails, Ds!Cleared, DP!Cleared,
      Ds!Clear, DP!Clear, Ds!Sending, DP!Sending, Ds!Answered,
      DP!Answered, Ds!Refused, DP!Refused, Ds!Repeat, DP!Repeat,
      Ds!Raised, DP!Raised, Ds!Old, DP!Old, Ds!Spoil, DP!Spoil, Ds!Drop,
      DP!Drop, Ds!Next, DP!Next, Ds!TypeOK, DP!TypeOK, Ds!RefusedTwice,
      DP!RefusedTwice, Ds!CutByChange, DP!CutByChange, Ds!RightAccount,
      DP!RightAccount, Ds!CallsSurvive, DP!CallsSurvive, Ds!Cardinality,
      DP!Cardinality

\* of the backups,
LEMMA BackupsAgree ==
    /\ Bk!Init <=> BP!Init
    /\ [Bk!Next]_(Bk!vars) <=> [BP!Next]_(BP!vars)
    /\ Bk!TypeOK <=> BP!TypeOK
  BY Zenon
  DEF Bk!None, BP!None, Bk!Empty, BP!Empty, Bk!Contents, BP!Contents,
      Bk!Actors, BP!Actors, Bk!TypeOf, BP!TypeOf, Bk!Files, BP!Files,
      Bk!At, BP!At, Bk!disk, BP!disk, Bk!history, BP!history, Bk!vars,
      BP!vars, Bk!Pcs, BP!Pcs, Bk!NoFile, BP!NoFile, Bk!Idle, BP!Idle,
      Bk!Init, BP!Init, Bk!Filling, BP!Filling, Bk!Exists, BP!Exists,
      Bk!Unprotected, BP!Unprotected, Bk!Goto, BP!Goto, Bk!Asked,
      BP!Asked, Bk!Fault, BP!Fault, Bk!Open, BP!Open, Bk!Copy, BP!Copy,
      Bk!CopyFails, BP!CopyFails, Bk!Surplus, BP!Surplus, Bk!List,
      BP!List, Bk!Passes, BP!Passes, Bk!Check, BP!Check, Bk!EndRotation,
      BP!EndRotation, Bk!After, BP!After, Bk!Unlink, BP!Unlink,
      Bk!Unmark, BP!Unmark, Bk!Request, BP!Request, Bk!Delete, BP!Delete,
      Bk!Protect, BP!Protect, Bk!Restore, BP!Restore, Bk!Touch, BP!Touch,
      Bk!Unprotect, BP!Unprotect, Bk!OpenToRead, BP!OpenToRead,
      Bk!Verify, BP!Verify, Bk!Keep, BP!Keep, Bk!Replace, BP!Replace,
      Bk!Commit, BP!Commit, Bk!Tick, BP!Tick, Bk!TurnBack, BP!TurnBack,
      Bk!Crash, BP!Crash, Bk!Next, BP!Next, Bk!TypeOK, BP!TypeOK,
      Bk!Cardinality, BP!Cardinality

\* of the cache,
LEMMA AnswersAgree ==
    /\ Ca!Init <=> CP!Init
    /\ [Ca!Next]_(Ca!vars) <=> [CP!Next]_(CP!vars)
    /\ Ca!TypeOK <=> CP!TypeOK
    /\ Ca!AnswersAreFresh <=> CP!AnswersAreFresh
    /\ Ca!OneCallPerKey <=> CP!OneCallPerKey
  BY Zenon
  DEF Ca!None, CP!None, Ca!Event, CP!Event, Ca!Mark, CP!Mark, Ca!List,
      CP!List, Ca!Keys, CP!Keys, Ca!Kinds, CP!Kinds, Ca!Entries,
      CP!Entries, Ca!Absent, CP!Absent, Ca!cache, CP!cache, Ca!locking,
      CP!locking, Ca!bounds, CP!bounds, Ca!vars, CP!vars, Ca!Locks,
      CP!Locks, Ca!Idle, CP!Idle, Ca!Asleep, CP!Asleep, Ca!Init, CP!Init,
      Ca!Alive, CP!Alive, Ca!At, CP!At, Ca!Goto, CP!Goto, Ca!Ops, CP!Ops,
      Ca!Users, CP!Users, Ca!ToWrite, CP!ToWrite, Ca!ToRemove, CP!ToRemove,
      Ca!pending, CP!pending, Ca!Note, CP!Note, Ca!Read, CP!Read,
      Ca!Ttl, CP!Ttl, Ca!Start,
      CP!Start, Ca!ReadMark, CP!ReadMark, Ca!Drop, CP!Drop, Ca!SetMark,
      CP!SetMark, Ca!Look, CP!Look, Ca!Enter, CP!Enter, Ca!Acquire,
      CP!Acquire, Ca!Call, CP!Call, Ca!Store, CP!Store, Ca!Leave,
      CP!Leave, Ca!Lookup, CP!Lookup, Ca!Grab, CP!Grab, Ca!Write,
      CP!Write, Ca!Clear, CP!Clear, Ca!Evict, CP!Evict, Ca!Restored,
      CP!Restored, Ca!Restart, CP!Restart, Ca!Tick, CP!Tick, Ca!Asked,
      CP!Asked, Ca!Next, CP!Next, Ca!Rows, CP!Rows, Ca!TypeOK, CP!TypeOK, Ca!OneCallPerKey,
      CP!OneCallPerKey, Ca!Limit, CP!Limit, Ca!AnswersAreFresh,
      CP!AnswersAreFresh, Ca!Cardinality, CP!Cardinality

\* and what the backups promise of their steps.
LEMMA PromisesAgree == Bk!BackupsHold <=> BP!BackupsHold
  BY PTL
  DEF Bk!None, BP!None, Bk!Empty, BP!Empty, Bk!Files, BP!Files, Bk!At,
      BP!At, Bk!disk, BP!disk, Bk!history, BP!history, Bk!vars, BP!vars,
      Bk!Filling, BP!Filling, Bk!Exists, BP!Exists, Bk!Unprotected,
      BP!Unprotected, Bk!Removed, BP!Removed, Bk!ProtectedStay,
      BP!ProtectedStay, Bk!Younger, BP!Younger, Bk!EnoughStay,
      BP!EnoughStay, Bk!RestoresHaveData, BP!RestoresHaveData,
      Bk!BackupsHold, BP!BackupsHold, Bk!Cardinality, BP!Cardinality,
      Bk!Actors, BP!Actors, Bk!TypeOf, BP!TypeOf

\* A step of the sum is a step of each part, or leaves it alone.
LEMMA SumParts ==
    ASSUME SumInit \/ [SumNext]_all
    PROVE  /\ SumInit => Ld!Init /\ Ds!Init /\ Bk!Init /\ Ca!Init
           /\ [SumNext]_all => /\ [Ld!Next]_(Ld!vars) /\ [Ds!Next]_(Ds!vars)
                               /\ [Bk!Next]_(Bk!vars) /\ [Ca!Next]_(Ca!vars)
<1>1. SumInit => Ld!Init /\ Ds!Init /\ Bk!Init /\ Ca!Init
  BY DEF SumInit
<1>2. /\ UNCHANGED LdVars => UNCHANGED Ld!vars
      /\ UNCHANGED DsVars => UNCHANGED Ds!vars
      /\ UNCHANGED BkVars => UNCHANGED Bk!vars
      /\ UNCHANGED CaVars => UNCHANGED Ca!vars
  BY DEF LdVars, DsVars, BkVars, CaVars, Ld!vars, Ld!rows, Ld!memory,
         Ld!history, Ld!traces, Ds!vars, Ds!factory, Ds!bounds, Bk!vars,
         Bk!disk, Bk!history, Ca!vars, Ca!cache, Ca!pending, Ca!locking,
         Ca!bounds
<1>3. SumNext \/ UNCHANGED all => /\ Ld!Next \/ UNCHANGED LdVars
                                  /\ Ds!Next \/ UNCHANGED DsVars
                                  /\ Bk!Next \/ UNCHANGED BkVars
                                  /\ Ca!Next \/ UNCHANGED CaVars
  BY Zenon DEF SumNext, all
<1>4. QED
  BY <1>1, <1>2, <1>3

\* What is proved of each component holds of it here.  The directory: types,
\* and what was chosen stays chosen.
LEMMA LeaguesHold == SumSpec => [](Ld!TypeOK /\ Ld!DirectoryIsKept)
<1>1. LP!Parameters
  BY DirectoriesAssumption
  DEF LP!Parameters, LP!Configured, LP!Ids, LP!Refreshers
<1>2. LP!Spec => []LP!TypeOK
  BY <1>1, LP!TypeCorrect
<1>3. LP!Spec => []LP!DirectoryIsKept
  BY <1>1, LP!DirectoryIsKeptHolds
<1>4. SumSpec => LP!Spec
  BY SumParts, LeaguesAgree, PTL DEF SumSpec, LP!Spec
<1>5. QED
  BY <1>2, <1>3, <1>4, LeaguesAgree, PTL

\* The calls: types, and no call fails without a reason.
LEMMA CallsHold == SumSpec => [](Ds!TypeOK /\ Ds!CallsSurvive)
<1>1. DP!IsFiniteSet(Callers) /\ MaxRetries \in Nat
  BY DirectoriesAssumption DEF IsFiniteSet, DP!IsFiniteSet
<1>2. DP!Spec => [](DP!Types /\ DP!TypeOK)
  BY <1>1, DP!TypeCorrect
<1>3. DP!Spec => []DP!CallsSurvive
  BY <1>1, DP!CallsSurviveHolds
<1>4. SumSpec => DP!Spec
  BY SumParts, CallsAgree, PTL DEF SumSpec, DP!Spec
<1>5. QED
  BY <1>2, <1>3, <1>4, CallsAgree, PTL

\* The backups: types, and what they promise.
LEMMA BackupsAreRight == SumSpec => []Bk!TypeOK /\ Bk!BackupsHold
<1>1. BP!Parameters
  BY DirectoriesAssumption DEF BP!Parameters
<1>2. BP!Spec => []BP!TypeOK
  BY <1>1, BP!TypeCorrect
<1>3. BP!Spec => BP!BackupsHold
  BY <1>1, BP!BackupsHoldHolds
<1>4. SumSpec => BP!Spec
  BY SumParts, BackupsAgree, PTL DEF SumSpec, BP!Spec
<1>5. QED
  BY <1>2, <1>3, <1>4, BackupsAgree, PromisesAgree, PTL

\* The cache: types, and one call at a time for a key.
LEMMA LookupsHold == SumSpec => [](Ca!TypeOK /\ Ca!OneCallPerKey)
<1>1. CP!Parameters
  BY DirectoriesAssumption
  DEF CP!Parameters, IsFiniteSet, CP!IsFiniteSet, Ca!None, CP!None
<1>2. CP!Spec => []CP!TypeOK
  BY <1>1, CP!TypeCorrect
<1>3. CP!Spec => []CP!OneCallPerKey
  BY <1>1, CP!OneCallPerKeyHolds
<1>4. SumSpec => CP!Spec
  BY SumParts, AnswersAgree, PTL DEF SumSpec, CP!Spec
<1>5. QED
  BY <1>2, <1>3, <1>4, AnswersAgree, PTL

\* Beside the numbers, every variable of every component keeps its type.
THEOREM TypesHold == SumSpec => []TypesOK
  BY LeaguesHold, CallsHold, BackupsAreRight, LookupsHold, PTL DEF TypesOK

\* What the user chose of the directory stays chosen, the mapping in memory is
\* complete between reloads, and the flag of a refresh has its thread.
THEOREM DirectoryIsKeptTogether == SumSpec => []DirectoryIsKept
  BY LeaguesHold, PTL DEF DirectoryIsKept

\* A call of Dispatcharr fails for a reason only.
THEOREM CallsSurviveTogether == SumSpec => []CallsSurvive
  BY CallsHold, PTL DEF CallsSurvive

\* The backups keep what they promise.
THEOREM BackupsHoldTogether == SumSpec => BackupsHold
  BY BackupsAreRight DEF BackupsHold

\* One call at a time is made for a key, and an answer is as fresh as its kind
\* must be, whatever is cleared, evicted, flushed or restarted, as often as that
\* happens: only of a refresh after a restart nothing is said.
THEOREM OneFreshAnswerTogether == SumSpec => []OneFreshAnswer
<1>1. CP!Parameters
  BY DirectoriesAssumption
  DEF CP!Parameters, IsFiniteSet, CP!IsFiniteSet, Ca!None, CP!None
<1>2. CP!Spec => []CP!AnswersAreFresh
  BY <1>1, CP!AnswersAreFreshHolds
<1>3. SumSpec => CP!Spec
  BY SumParts, AnswersAgree, PTL DEF SumSpec, CP!Spec
<1>4. QED
  BY <1>2, <1>3, LookupsHold, AnswersAgree, PTL DEF OneFreshAnswer

=============================================================================
