------------------------------ MODULE TextProofs ------------------------------
(***************************************************************************)
(* Proofs about texts of any length.                                       *)
(***************************************************************************)
EXTENDS KeyRoute, ResultSerializer, SequenceTheorems, WellFoundedInduction, TLAPS

-----------------------------------------------------------------------------
(* Loops and the concatenation of words.                                   *)

(***************************************************************************)
(* What holds of zero and passes from each number to the next holds of     *)
(* all numbers up to a bound: induction over a set of numbers, for loops   *)
(* over the characters of a text.                                          *)
(***************************************************************************)
LEMMA UpTo ==
    ASSUME NEW n \in Nat, NEW S, 0 \in S, \A k \in 0 .. n - 1 : k \in S => k + 1 \in S
    PROVE  \A k \in 0 .. n : k \in S
  <1>. DEFINE Bad == {k \in 0 .. n : k \notin S}
              R == OpToRel(<, Nat)
  <1>1. SUFFICES ASSUME Bad # {} PROVE FALSE
    OBVIOUS
  <1>0. Bad \in SUBSET Nat
    OBVIOUS
  <1>2. \E x \in Bad : \A y \in Bad : ~(<<y, x>> \in R)
    BY <1>0, <1>1, NatLessThanWellFounded, WFMin
  <1>3. \A x, y \in Nat : y < x => <<y, x>> \in R
    BY DEF OpToRel
  <1>4. PICK m \in Bad : \A k \in Bad : ~(k < m)
    <2>. HIDE DEF R, Bad
    <2>1. QED
      BY <1>0, <1>2, <1>3
  <1>. HIDE DEF R
  <1>5. m \in 1 .. n /\ m - 1 \notin Bad
    BY <1>4
  <1>6. QED
    BY <1>4, <1>5

(***************************************************************************)
(* A loop runs through a chain of states, each the step of the one before, *)
(* and stays in the last one, where the rounds are over or the step        *)
(* changes nothing.                                                        *)
(***************************************************************************)
LEMMA LoopChain ==
    ASSUME NEW step, NEW n \in Nat, NEW m \in 0 .. n, NEW chain,
           \A k \in 0 .. m - 1 : step[chain[k]] = chain[k + 1],
           m = n \/ step[chain[m]] = chain[m]
    PROVE  Iterate(step, chain[0], n) = chain[m]
  <1>. DEFINE at(k) == IF k <= m THEN chain[k] ELSE chain[m]
              Loop(g) == g = [k \in 0 .. n |-> IF k = 0 THEN chain[0] ELSE step[g[k - 1]]]
              state == CHOOSE g : Loop(g)
  <1>1. \A k \in 0 .. n - 1 : at(k + 1) = step[at(k)]
    <2>1. SUFFICES ASSUME NEW k \in 0 .. n - 1 PROVE at(k + 1) = step[at(k)]
      OBVIOUS
    <2>2. CASE k < m
      BY <2>2
    <2>3. CASE k >= m
      <3>1. at(k) = chain[m] /\ at(k + 1) = chain[m]
        BY <2>3
      <3>2. step[chain[m]] = chain[m]
        BY <2>3
      <3>3. QED
        BY <3>1, <3>2
    <2>4. QED
      BY <2>2, <2>3
  <1>2. Loop([k \in 0 .. n |-> at(k)])
    <2>1. \A k \in 0 .. n : at(k) = IF k = 0 THEN chain[0] ELSE step[[i \in 0 .. n |-> at(i)][k - 1]]
      <3>1. SUFFICES ASSUME NEW k \in 0 .. n
                     PROVE at(k) = IF k = 0 THEN chain[0] ELSE step[[i \in 0 .. n |-> at(i)][k - 1]]
        OBVIOUS
      <3>2. CASE k = 0
        BY <3>2
      <3>3. CASE k # 0
        <4>1. k - 1 \in 0 .. n - 1 /\ k - 1 \in 0 .. n /\ (k - 1) + 1 = k
          BY <3>3
        <4>2. at(k) = step[at(k - 1)]
          BY <1>1, <4>1
        <4>. HIDE DEF at
        <4>3. QED
          BY <3>3, <4>1, <4>2
      <3>4. QED
        BY <3>2, <3>3
    <2>. HIDE DEF at
    <2>2. QED
      BY <2>1
  <1>3. Loop(state)
    <2>1. \E g : Loop(g)
      BY <1>2
    <2>. HIDE DEF Loop
    <2>2. QED
      BY <2>1
  <1>4. state[0] = at(0) /\ \A k \in 0 .. n - 1 : state[k + 1] = step[state[k]]
    <2>. HIDE DEF state
    <2>1. QED
      BY <1>3
  <1>. DEFINE S == {k \in 0 .. n : state[k] = at(k)}
  <1>5. \A k \in 0 .. n : k \in S
    <2>1. 0 \in S /\ \A k \in 0 .. n - 1 : k \in S => k + 1 \in S
      <3>. HIDE DEF state, at
      <3>1. QED
        BY <1>1, <1>4
    <2>. HIDE DEF S
    <2>2. QED
      BY <2>1, UpTo
  <1>6. state[n] = chain[m]
    <2>1. at(n) = chain[m]
      OBVIOUS
    <2>. HIDE DEF state, at
    <2>2. QED
      BY <1>5, <2>1
  <1>7. Iterate(step, chain[0], n) = state[n]
    BY DEF Iterate
  <1>8. QED
    BY <1>6, <1>7

(***************************************************************************)
(* The case of a loop that comes to rest.                                  *)
(***************************************************************************)
LEMMA LoopFollows ==
    ASSUME NEW step, NEW n \in Nat, NEW m \in 0 .. n, NEW chain,
           \A k \in 0 .. m - 1 : step[chain[k]] = chain[k + 1],
           step[chain[m]] = chain[m]
    PROVE  Iterate(step, chain[0], n) = chain[m]
  <1>1. m = n \/ step[chain[m]] = chain[m]
    OBVIOUS
  <1>2. QED
    BY <1>1, LoopChain

(***************************************************************************)
(* The states of a loop up to a round, all in a set.                       *)
(***************************************************************************)
RunsIn(S, step, start, m, g) ==
    /\ g[0] = start /\ \A k \in 0 .. m : g[k] \in S
    /\ \A k \in 0 .. m - 1 : step[g[k]] = g[k + 1]

(***************************************************************************)
(* The loop ends in the last of them.                                      *)
(***************************************************************************)
RunsTo(S, step, start, n, last) == \E g : RunsIn(S, step, start, n, g) /\ last = g[n]

(***************************************************************************)
(* A loop runs through states of a set that its step does not leave.       *)
(***************************************************************************)
LEMMA IterateRuns ==
    ASSUME NEW S, NEW step, NEW start \in S, NEW n \in Nat, \A x \in S : step[x] \in S
    PROVE  RunsTo(S, step, start, n, Iterate(step, start, n))
  <1>. DEFINE Reached == {m \in 0 .. n : \E g : RunsIn(S, step, start, m, g)}
  <1>1. 0 \in Reached
    <2>1. RunsIn(S, step, start, 0, [k \in 0 .. 0 |-> start])
      BY DEF RunsIn
    <2>2. QED
      BY <2>1
  <1>2. ASSUME NEW m \in 0 .. n - 1, m \in Reached PROVE m + 1 \in Reached
    <2>1. PICK g : RunsIn(S, step, start, m, g)
      BY <1>2
    <2>2. g[0] = start /\ (\A k \in 0 .. m : g[k] \in S) /\ \A k \in 0 .. m - 1 : step[g[k]] = g[k + 1]
      BY <2>1 DEF RunsIn
    <2>. DEFINE h == [k \in 0 .. m + 1 |-> IF k = m + 1 THEN step[g[m]] ELSE g[k]]
    <2>3. \A k \in 0 .. m : h[k] = g[k]
      OBVIOUS
    <2>4. h[m + 1] = step[g[m]]
      <3>1. m + 1 \in 0 .. m + 1
        OBVIOUS
      <3>2. QED
        BY <3>1
    <2>. HIDE DEF h
    <2>5. m \in 0 .. m /\ 0 \in 0 .. m /\ (m + 1) - 1 = m
      OBVIOUS
    <2>6. \A k \in 0 .. m + 1 : h[k] \in S
      BY <2>2, <2>3, <2>4, <2>5
    <2>7. ASSUME NEW k \in 0 .. m PROVE step[h[k]] = h[k + 1]
      <3>1. CASE k = m
        BY <2>3, <2>4, <2>5, <3>1
      <3>2. CASE k # m
        <4>1. k \in 0 .. m - 1 /\ k + 1 \in 0 .. m
          BY <3>2
        <4>2. QED
          BY <2>2, <2>3, <4>1
      <3>3. QED
        BY <3>1, <3>2
    <2>8. RunsIn(S, step, start, m + 1, h)
      BY <2>2, <2>3, <2>5, <2>6, <2>7 DEF RunsIn
    <2>9. m + 1 \in 0 .. n
      OBVIOUS
    <2>10. QED
      BY <2>8, <2>9
  <1>3. n \in Reached
    <2>1. n \in 0 .. n
      OBVIOUS
    <2>. HIDE DEF Reached
    <2>2. QED
      BY <1>1, <1>2, <2>1, UpTo
  <1>4. PICK g : RunsIn(S, step, start, n, g)
    BY <1>3
  <1>5. g[0] = start /\ g[n] \in S /\ \A k \in 0 .. n - 1 : step[g[k]] = g[k + 1]
    BY <1>4 DEF RunsIn
  <1>6. Iterate(step, g[0], n) = g[n]
    <2>1. n \in 0 .. n
      OBVIOUS
    <2>2. QED
      BY <1>5, <2>1, LoopChain
  <1>7. QED
    BY <1>4, <1>5, <1>6 DEF RunsTo

(***************************************************************************)
(* So it ends in one.                                                      *)
(***************************************************************************)
LEMMA IterateIn ==
    ASSUME NEW S, NEW step, NEW start \in S, NEW n \in Nat, \A x \in S : step[x] \in S
    PROVE  Iterate(step, start, n) \in S
  <1>1. PICK g : RunsIn(S, step, start, n, g) /\ Iterate(step, start, n) = g[n]
    BY IterateRuns DEF RunsTo
  <1>2. n \in 0 .. n
    OBVIOUS
  <1>3. QED
    BY <1>1, <1>2 DEF RunsIn

(***************************************************************************)
(* The concatenation of words, word by word: g[k] is the text of the first *)
(* k words.                                                                *)
(***************************************************************************)
LEMMA FlattenIs ==
    ASSUME NEW T, NEW ws \in Seq(Seq(T)), NEW g \in [0 .. Len(ws) -> Seq(T)],
           g[0] = <<>>, \A k \in 0 .. Len(ws) - 1 : g[k + 1] = g[k] \o ws[k + 1]
    PROVE  FlattenSeq(ws) = g[Len(ws)]
  <1>. DEFINE n == Len(ws)
              Loop(f) == f = [i \in 1 .. n |-> IF i = 1 THEN ws[i] ELSE f[i - 1] \o ws[i]]
              flatten == CHOOSE f : Loop(f)
              first == [i \in 1 .. n |-> g[i]]
  <1>0. n \in Nat /\ \A k \in 1 .. n : ws[k] \in Seq(T)
    OBVIOUS
  <1>1. CASE n = 0
    BY <1>1 DEF FlattenSeq
  <1>2. CASE n # 0
    <2>1. g[1] = ws[1]
      <3>1. ws[1] \in Seq(T) /\ 0 \in 0 .. n - 1
        BY <1>0, <1>2
      <3>2. g[0 + 1] = g[0] \o ws[0 + 1]
        BY <3>1
      <3>3. g[1] = <<>> \o ws[1]
        BY <3>2
      <3>4. QED
        BY <3>1, <3>3
    <2>2. Loop(first)
      <3>1. ASSUME NEW i \in 1 .. n, i # 1 PROVE g[i] = first[i - 1] \o ws[i]
        <4>1. i - 1 \in 0 .. n - 1 /\ (i - 1) + 1 = i /\ i - 1 \in 1 .. n
          BY <1>0, <3>1
        <4>2. g[(i - 1) + 1] = g[i - 1] \o ws[(i - 1) + 1]
          BY <4>1
        <4>3. QED
          BY <4>1, <4>2
      <3>2. QED
        BY <2>1, <3>1
    <2>3. Loop(flatten)
      <3>1. \E f : Loop(f)
        BY <2>2
      <3>. HIDE DEF Loop
      <3>2. QED
        BY <3>1
    <2>4. flatten[1] = ws[1]
      <3>1. 1 \in 1 .. n
        BY <1>0, <1>2
      <3>. HIDE DEF flatten
      <3>2. QED
        BY <2>3, <3>1
    <2>5. ASSUME NEW k \in 1 .. n - 1 PROVE flatten[k + 1] = flatten[k] \o ws[k + 1]
      <3>1. k + 1 \in 1 .. n /\ k + 1 # 1 /\ (k + 1) - 1 = k
        BY <1>0
      <3>. HIDE DEF flatten
      <3>2. flatten[k + 1] = flatten[(k + 1) - 1] \o ws[k + 1]
        BY <2>3, <3>1
      <3>3. QED
        BY <3>1, <3>2
    <2>. DEFINE S == {k \in 0 .. n : k = 0 \/ flatten[k] = g[k]}
    <2>6. \A k \in 0 .. n : k \in S
      <3>. HIDE DEF flatten
      <3>1. 0 \in S
        BY <1>0
      <3>2. ASSUME NEW k \in 0 .. n - 1, k \in S PROVE k + 1 \in S
        <4>1. CASE k = 0
          BY <1>0, <1>2, <2>1, <2>4, <4>1
        <4>2. CASE k # 0
          <5>1. k \in 1 .. n - 1 /\ k + 1 \in 0 .. n
            BY <1>0, <4>2
          <5>2. flatten[k + 1] = g[k + 1]
            BY <2>5, <3>2, <4>2, <5>1
          <5>3. QED
            BY <5>1, <5>2
        <4>3. QED
          BY <4>1, <4>2
      <3>. HIDE DEF S
      <3>3. QED
        BY <1>0, <3>1, <3>2, UpTo
    <2>7. FlattenSeq(ws) = flatten[n]
      BY <1>2 DEF FlattenSeq
    <2>. HIDE DEF flatten
    <2>8. QED
      BY <1>0, <1>2, <2>6, <2>7
  <1>3. QED
    BY <1>1, <1>2

(***************************************************************************)
(* There are such texts, one for every number of words.                    *)
(***************************************************************************)
LEMMA FlattenPrefixes ==
    ASSUME NEW T, NEW ws \in Seq(Seq(T))
    PROVE  \E g \in [0 .. Len(ws) -> Seq(T)] :
               /\ g[0] = <<>> /\ g[Len(ws)] = FlattenSeq(ws)
               /\ \A k \in 0 .. Len(ws) - 1 : g[k + 1] = g[k] \o ws[k + 1]
  <1>. DEFINE n == Len(ws)
              FirstWords(m, g) == g[0] = <<>> /\ \A k \in 0 .. m - 1 : g[k + 1] = g[k] \o ws[k + 1]
              S == {m \in 0 .. n : \E g \in [0 .. m -> Seq(T)] : FirstWords(m, g)}
  <1>0. n \in Nat /\ \A k \in 1 .. n : ws[k] \in Seq(T)
    OBVIOUS
  <1>1. 0 \in S
    <2>. DEFINE g == [k \in 0 .. 0 |-> <<>>]
    <2>1. g \in [0 .. 0 -> Seq(T)]
      OBVIOUS
    <2>2. FirstWords(0, g)
      OBVIOUS
    <2>3. 0 \in 0 .. n
      BY <1>0
    <2>. HIDE DEF g, FirstWords
    <2>4. QED
      BY <2>1, <2>2, <2>3
  <1>2. ASSUME NEW m \in 0 .. n - 1, m \in S PROVE m + 1 \in S
    <2>1. PICK g \in [0 .. m -> Seq(T)] : FirstWords(m, g)
      BY <1>2
    <2>. DEFINE h == [k \in 0 .. m + 1 |-> IF k = m + 1 THEN g[m] \o ws[m + 1] ELSE g[k]]
    <2>2. h \in [0 .. m + 1 -> Seq(T)]
      <3>1. g[m] \o ws[m + 1] \in Seq(T)
        BY <1>0
      <3>2. QED
        BY <3>1
    <2>3. FirstWords(m + 1, h)
      <3>1. h[0] = <<>>
        BY <2>1
      <3>2. ASSUME NEW k \in 0 .. m PROVE h[k + 1] = h[k] \o ws[k + 1]
        <4>1. h[k] = g[k]
          BY <3>2
        <4>2. CASE k = m
          <5>1. m + 1 \in 0 .. m + 1
            OBVIOUS
          <5>2. h[m + 1] = g[m] \o ws[m + 1]
            BY <5>1
          <5>. HIDE DEF h
          <5>3. QED
            BY <4>1, <4>2, <5>2
        <4>3. CASE k # m
          <5>1. k \in 0 .. m - 1 /\ h[k + 1] = g[k + 1]
            BY <4>3
          <5>. HIDE DEF h
          <5>2. QED
            BY <2>1, <4>1, <5>1
        <4>4. QED
          BY <4>2, <4>3
      <3>3. (m + 1) - 1 = m
        OBVIOUS
      <3>. HIDE DEF h
      <3>4. QED
        BY <3>1, <3>2, <3>3
    <2>4. m + 1 \in 0 .. n
      BY <1>0
    <2>. HIDE DEF h, FirstWords
    <2>5. QED
      BY <2>2, <2>3, <2>4
  <1>3. n \in S
    <2>1. \A m \in 0 .. n - 1 : m \in S => m + 1 \in S
      BY <1>2
    <2>2. n \in 0 .. n
      BY <1>0
    <2>. HIDE DEF S, n
    <2>3. QED
      BY <1>0, <1>1, <2>1, <2>2, UpTo
  <1>4. PICK g \in [0 .. n -> Seq(T)] : FirstWords(n, g)
    BY <1>3
  <1>5. FlattenSeq(ws) = g[n]
    BY <1>4, FlattenIs
  <1>6. QED
    BY <1>4, <1>5

(***************************************************************************)
(* Where the elements of two sequences are in their concatenation.         *)
(***************************************************************************)
LEMMA ConcatParts ==
    ASSUME NEW T, NEW s \in Seq(T), NEW t \in Seq(T)
    PROVE  /\ s \o t \in Seq(T) /\ Len(s) \in Nat /\ Len(t) \in Nat /\ Len(s \o t) = Len(s) + Len(t)
           /\ \A j \in 1 .. Len(s) : (s \o t)[j] = s[j]
           /\ \A j \in 1 .. Len(t) : (s \o t)[Len(s) + j] = t[j]
  OBVIOUS

(***************************************************************************)
(* Three texts joined by two.                                              *)
(***************************************************************************)
Joined(T, x, y, z, xy, yz) == x \in Seq(T) /\ y \in Seq(T) /\ z \in Seq(T) /\ xy = x \o y /\ yz = y \o z

(***************************************************************************)
(* Then the pieces may be joined in either order.                          *)
(***************************************************************************)
LEMMA ConcatShift ==
    ASSUME NEW T, NEW x, NEW y, NEW z, NEW xy, NEW yz, Joined(T, x, y, z, xy, yz)
    PROVE  x \o yz = xy \o z
  <1>1. x \in Seq(T) /\ y \in Seq(T) /\ z \in Seq(T)
    BY DEF Joined
  <1>2. xy = x \o y /\ yz = y \o z
    BY Zenon DEF Joined
  <1>3. (x \o y) \o z = x \o (y \o z)
    BY <1>1, ConcatAssociative
  <1>4. QED
    BY <1>2, <1>3, Zenon

(***************************************************************************)
(* Every word is found in the concatenation, behind the words before it:   *)
(* the k-th one ends at end[k].                                            *)
(***************************************************************************)
Ends(ws, text, end) ==
    /\ end \in [0 .. Len(ws) -> Nat] /\ end[0] = 0 /\ end[Len(ws)] = Len(text)
    /\ \A k \in 0 .. Len(ws) - 1 :
          /\ end[k + 1] = end[k] + Len(ws[k + 1]) /\ end[k + 1] <= Len(text)
          /\ \A j \in 1 .. Len(ws[k + 1]) : text[end[k] + j] = ws[k + 1][j]

(***************************************************************************)
(* The concatenation has such ends.                                        *)
(***************************************************************************)
LEMMA WordsAt ==
    ASSUME NEW T, NEW ws \in Seq(Seq(T))
    PROVE  FlattenSeq(ws) \in Seq(T) /\ \E end : Ends(ws, FlattenSeq(ws), end)
  <1>. DEFINE n == Len(ws)
  <1>0. n \in Nat /\ \A k \in 0 .. n - 1 : ws[k + 1] \in Seq(T)
    OBVIOUS
  <1>1. PICK g \in [0 .. n -> Seq(T)] :
            /\ g[0] = <<>> /\ g[n] = FlattenSeq(ws)
            /\ \A k \in 0 .. n - 1 : g[k + 1] = g[k] \o ws[k + 1]
    BY FlattenPrefixes
  <1>2. \A k \in 0 .. n : g[k] \in Seq(T) /\ Len(g[k]) \in Nat
    OBVIOUS
  <1>3. \A k \in 0 .. n - 1 : /\ Len(g[k + 1]) = Len(g[k]) + Len(ws[k + 1]) /\ Len(ws[k + 1]) \in Nat
                              /\ Len(g[k]) <= Len(g[k + 1])
                              /\ \A j \in 1 .. Len(g[k]) : g[k + 1][j] = g[k][j]
                              /\ \A j \in 1 .. Len(ws[k + 1]) : g[k + 1][Len(g[k]) + j] = ws[k + 1][j]
    <2>1. SUFFICES ASSUME NEW k \in 0 .. n - 1
                   PROVE  /\ Len(g[k + 1]) = Len(g[k]) + Len(ws[k + 1]) /\ Len(ws[k + 1]) \in Nat
                          /\ Len(g[k]) <= Len(g[k + 1])
                          /\ \A j \in 1 .. Len(g[k]) : g[k + 1][j] = g[k][j]
                          /\ \A j \in 1 .. Len(ws[k + 1]) : g[k + 1][Len(g[k]) + j] = ws[k + 1][j]
      OBVIOUS
    <2>2. k \in 0 .. n
      BY <1>0
    <2>3. g[k] \in Seq(T) /\ ws[k + 1] \in Seq(T) /\ g[k + 1] = g[k] \o ws[k + 1]
      <3>1. g[k + 1] = g[k] \o ws[k + 1]
        BY <1>1
      <3>2. g[k] \in Seq(T) /\ ws[k + 1] \in Seq(T)
        BY <1>0, <1>2, <2>2
      <3>3. QED
        BY <3>1, <3>2
    <2>. DEFINE u == g[k]
                v == ws[k + 1]
                w == g[k + 1]
    <2>. HIDE DEF u, v, w
    <2>4. u \in Seq(T) /\ v \in Seq(T) /\ w = u \o v
      BY <2>3 DEF u, v, w
    <2>5. /\ Len(w) = Len(u) + Len(v) /\ Len(v) \in Nat
          /\ \A j \in 1 .. Len(u) : w[j] = u[j]
          /\ \A j \in 1 .. Len(v) : w[Len(u) + j] = v[j]
      BY <2>4, ConcatParts
    <2>6. Len(u) <= Len(w)
      BY <2>4, <2>5, ConcatParts
    <2>7. QED
      BY <2>5, <2>6 DEF u, v, w
  <1>4. \A k \in 0 .. n : \A i \in 0 .. n : k <= i => /\ Len(g[k]) <= Len(g[i])
                                                   /\ \A j \in 1 .. Len(g[k]) : g[i][j] = g[k][j]
    <2>1. SUFFICES ASSUME NEW k \in 0 .. n
                   PROVE  \A i \in 0 .. n : k <= i => /\ Len(g[k]) <= Len(g[i])
                                                     /\ \A j \in 1 .. Len(g[k]) : g[i][j] = g[k][j]
      OBVIOUS
    <2>. DEFINE Extends(i) == Len(g[k]) <= Len(g[i]) /\ \A j \in 1 .. Len(g[k]) : g[i][j] = g[k][j]
                S == {i \in 0 .. n : k <= i => Extends(i)}
    <2>2. 0 \in S
      BY <1>0, <1>2
    <2>3. ASSUME NEW i \in 0 .. n - 1, i \in S PROVE i + 1 \in S
      <3>1. i + 1 \in 0 .. n /\ i \in 0 .. n
        BY <1>0
      <3>2. CASE k = i + 1
        BY <1>2, <3>1, <3>2
      <3>3. CASE k # i + 1
        <4>1. SUFFICES ASSUME k <= i + 1 PROVE Extends(i + 1)
          BY <3>1
        <4>2. k <= i
          BY <3>3, <4>1
        <4>3. Extends(i)
          BY <2>3, <4>2
        <4>4. Len(g[i]) <= Len(g[i + 1]) /\ \A j \in 1 .. Len(g[i]) : g[i + 1][j] = g[i][j]
          BY <1>3
        <4>5. \A j \in 1 .. Len(g[k]) : j \in 1 .. Len(g[i])
          BY <1>2, <3>1, <4>3
        <4>6. QED
          BY <1>2, <3>1, <4>3, <4>4, <4>5
      <3>4. QED
        BY <3>2, <3>3
    <2>4. \A i \in 0 .. n : i \in S
      <3>. HIDE DEF S
      <3>1. QED
        BY <1>0, <2>2, <2>3, UpTo
    <2>5. QED
      BY <2>4
  <1>. DEFINE end == [k \in 0 .. n |-> Len(g[k])]
  <1>5. end \in [0 .. n -> Nat]
    BY <1>2
  <1>6. end[0] = 0 /\ end[n] = Len(FlattenSeq(ws))
    BY <1>0, <1>1
  <1>7. ASSUME NEW k \in 0 .. n - 1
        PROVE  /\ end[k + 1] = end[k] + Len(ws[k + 1]) /\ end[k + 1] <= Len(FlattenSeq(ws))
               /\ \A j \in 1 .. Len(ws[k + 1]) : FlattenSeq(ws)[end[k] + j] = ws[k + 1][j]
    <2>1. k + 1 \in 0 .. n /\ k \in 0 .. n /\ n \in 0 .. n /\ k + 1 <= n
      BY <1>0
    <2>2. end[k + 1] = Len(g[k + 1]) /\ end[k] = Len(g[k])
      BY <2>1
    <2>. HIDE DEF end
    <2>3. Len(g[k + 1]) <= Len(g[n]) /\ \A j \in 1 .. Len(g[k + 1]) : g[n][j] = g[k + 1][j]
      BY <1>4, <2>1
    <2>4. \A j \in 1 .. Len(ws[k + 1]) : Len(g[k]) + j \in 1 .. Len(g[k + 1])
      <3>1. Len(g[k + 1]) = Len(g[k]) + Len(ws[k + 1]) /\ Len(ws[k + 1]) \in Nat /\ Len(g[k]) \in Nat
        BY <1>2, <1>3, <2>1
      <3>2. QED
        BY <3>1
    <2>5. /\ Len(g[k + 1]) = Len(g[k]) + Len(ws[k + 1])
          /\ \A j \in 1 .. Len(ws[k + 1]) : g[k + 1][Len(g[k]) + j] = ws[k + 1][j]
      BY <1>3
    <2>6. QED
      BY <1>1, <2>2, <2>3, <2>4, <2>5
  <1>8. FlattenSeq(ws) \in Seq(T)
    <2>1. n \in 0 .. n
      BY <1>0
    <2>2. QED
      BY <1>1, <1>2, <2>1
  <1>. HIDE DEF end
  <1>9. Ends(ws, FlattenSeq(ws), end)
    BY <1>5, <1>6, <1>7 DEF Ends
  <1>10. QED
    BY <1>8, <1>9

(***************************************************************************)
(* A word stands in a text, behind position e.                             *)
(***************************************************************************)
StandsAt(text, e, w) == e + Len(w) <= Len(text) /\ \A j \in 1 .. Len(w) : text[e + j] = w[j]

(***************************************************************************)
(* Each end is behind the one before it by the length of its word, which   *)
(* stands between them.                                                    *)
(***************************************************************************)
LEMMA WordAt ==
    ASSUME NEW ws, NEW text, NEW end, Ends(ws, text, end), Len(ws) \in Nat, NEW k \in 0 .. Len(ws) - 1
    PROVE  /\ end[k] \in Nat /\ end[k + 1] \in Nat
           /\ end[k + 1] = end[k] + Len(ws[k + 1]) /\ StandsAt(text, end[k], ws[k + 1])
  <1>1. k \in 0 .. Len(ws) /\ k + 1 \in 0 .. Len(ws)
    OBVIOUS
  <1>2. end[k] \in Nat /\ end[k + 1] \in Nat
    BY <1>1 DEF Ends
  <1>3. QED
    BY <1>2 DEF Ends, StandsAt

(***************************************************************************)
(* Words that are not empty are no more than the characters of their text, *)
(* so that a loop that reads a word in a round ends in time.               *)
(***************************************************************************)
LEMMA WordsFit ==
    ASSUME NEW T, NEW ws \in Seq(Seq(T)), \A k \in 0 .. Len(ws) - 1 : Len(ws[k + 1]) >= 1
    PROVE  Len(ws) <= Len(FlattenSeq(ws))
  <1>. DEFINE n == Len(ws)
  <1>0. n \in Nat /\ \A k \in 0 .. n - 1 : ws[k + 1] \in Seq(T) /\ Len(ws[k + 1]) \in Nat
    OBVIOUS
  <1>1. PICK end : Ends(ws, FlattenSeq(ws), end)
    BY WordsAt
  <1>. DEFINE S == {k \in 0 .. n : k <= end[k]}
  <1>2. 0 \in S
    BY <1>0, <1>1 DEF Ends
  <1>3. ASSUME NEW k \in 0 .. n - 1, k \in S PROVE k + 1 \in S
    <2>1. end[k + 1] = end[k] + Len(ws[k + 1]) /\ Len(ws[k + 1]) >= 1 /\ Len(ws[k + 1]) \in Nat
      BY <1>0, <1>1, WordAt
    <2>2. k + 1 \in 0 .. n /\ k <= end[k] /\ end[k] \in Nat /\ k \in Nat
      BY <1>0, <1>1, <1>3, WordAt
    <2>. DEFINE d == Len(ws[k + 1])
                e == end[k]
                f == end[k + 1]
    <2>. HIDE DEF d, e, f
    <2>3. k + 1 <= f
      BY <2>1, <2>2 DEF d, e, f
    <2>4. QED
      BY <2>2, <2>3 DEF f
  <1>4. n \in S
    <2>1. n \in 0 .. n
      BY <1>0
    <2>. HIDE DEF S
    <2>2. QED
      BY <1>0, <1>2, <1>3, <2>1, UpTo
  <1>5. end[n] = Len(FlattenSeq(ws))
    BY <1>1 DEF Ends
  <1>6. QED
    BY <1>4, <1>5

(***************************************************************************)
(* The concatenation of two lists of words is that of the first followed   *)
(* by that of the second.                                                  *)
(***************************************************************************)
LEMMA FlattenConcat ==
    ASSUME NEW T, NEW a \in Seq(Seq(T)), NEW b \in Seq(Seq(T))
    PROVE  FlattenSeq(a \o b) = FlattenSeq(a) \o FlattenSeq(b)
  <1>. DEFINE ws == a \o b
              m == Len(a)
              n == Len(b)
  <1>0. /\ m \in Nat /\ n \in Nat /\ ws \in Seq(Seq(T)) /\ Len(ws) = m + n
        /\ \A k \in 0 .. m - 1 : a[k + 1] \in Seq(T) /\ ws[k + 1] = a[k + 1]
        /\ \A k \in 0 .. n - 1 : b[k + 1] \in Seq(T) /\ ws[m + k + 1] = b[k + 1]
    OBVIOUS
  <1>1. PICK g :
            /\ g \in [0 .. m -> Seq(T)] /\ g[0] = <<>> /\ g[m] = FlattenSeq(a)
            /\ \A k \in 0 .. m - 1 : g[k + 1] = g[k] \o a[k + 1]
    <2>1. \E p \in [0 .. m -> Seq(T)] :
              /\ p[0] = <<>> /\ p[m] = FlattenSeq(a)
              /\ \A k \in 0 .. m - 1 : p[k + 1] = p[k] \o a[k + 1]
      BY FlattenPrefixes
    <2>2. QED
      BY <2>1, Zenon
  <1>2. PICK h :
            /\ h \in [0 .. n -> Seq(T)] /\ h[0] = <<>> /\ h[n] = FlattenSeq(b)
            /\ \A k \in 0 .. n - 1 : h[k + 1] = h[k] \o b[k + 1]
    <2>1. \E p \in [0 .. n -> Seq(T)] :
              /\ p[0] = <<>> /\ p[n] = FlattenSeq(b)
              /\ \A k \in 0 .. n - 1 : p[k + 1] = p[k] \o b[k + 1]
      BY FlattenPrefixes
    <2>2. QED
      BY <2>1, Zenon
  <1>. DEFINE f == [k \in 0 .. m + n |-> IF k <= m THEN g[k] ELSE g[m] \o h[k - m]]
  <1>. HIDE DEF ws
  <1>3. f \in [0 .. Len(ws) -> Seq(T)]
    <2>1. SUFFICES ASSUME NEW k \in 0 .. m + n PROVE (IF k <= m THEN g[k] ELSE g[m] \o h[k - m]) \in Seq(T)
      BY <1>0
    <2>2. CASE k <= m
      <3>1. k \in 0 .. m
        BY <1>0, <2>2
      <3>2. QED
        BY <1>1, <2>2, <3>1
    <2>3. CASE ~(k <= m)
      <3>1. k - m \in 0 .. n /\ m \in 0 .. m
        BY <1>0, <2>3
      <3>2. g[m] \in Seq(T) /\ h[k - m] \in Seq(T)
        BY <1>1, <1>2, <3>1
      <3>3. QED
        BY <2>3, <3>2
    <2>4. QED
      BY <2>2, <2>3
  <1>4. f[0] = <<>>
    BY <1>0, <1>1
  <1>5. ASSUME NEW k \in 0 .. Len(ws) - 1 PROVE f[k + 1] = f[k] \o ws[k + 1]
    <2>1. CASE k < m
      <3>0. k \in 0 .. m - 1 /\ k \in 0 .. m + n /\ k + 1 \in 0 .. m + n /\ k <= m /\ k + 1 <= m
        BY <1>0, <2>1
      <3>1. k \in 0 .. m - 1 /\ f[k + 1] = g[k + 1] /\ f[k] = g[k]
        BY <3>0
      <3>. HIDE DEF f
      <3>2. QED
        BY <1>0, <1>1, <3>1
    <2>2. CASE ~(k < m)
      <3>. DEFINE i == k - m
      <3>1. i \in 0 .. n - 1 /\ k = m + i /\ i \in 0 .. n /\ i + 1 \in 0 .. n /\ m \in 0 .. m
        BY <1>0, <2>2
      <3>2. g[m] \in Seq(T) /\ h[i] \in Seq(T) /\ b[i + 1] \in Seq(T)
        BY <1>0, <1>1, <1>2, <3>1
      <3>3. f[k + 1] = g[m] \o h[i + 1]
        <4>1. k + 1 \in 0 .. m + n /\ ~(k + 1 <= m) /\ (k + 1) - m = i + 1
          BY <1>0, <2>2
        <4>2. f[k + 1] = g[m] \o h[(k + 1) - m]
          BY <4>1
        <4>3. QED
          BY <4>1, <4>2
      <3>4. f[k] = g[m] \o h[i]
        <4>1. k \in 0 .. m + n
          BY <1>0
        <4>2. CASE k = m
          <5>1. f[k] = g[m] /\ i = 0
            BY <1>0, <4>1, <4>2
          <5>. HIDE DEF f, i
          <5>2. h[i] = <<>>
            BY <1>2, <5>1
          <5>3. g[m] \o <<>> = g[m]
            BY <3>2, ConcatEmptySeq
          <5>4. QED
            BY <5>1, <5>2, <5>3
        <4>3. CASE k # m
          <5>1. ~(k <= m)
            BY <1>0, <2>2, <4>1, <4>3
          <5>2. QED
            BY <4>1, <5>1
        <4>4. QED
          BY <4>2, <4>3
      <3>5. ws[k + 1] = b[i + 1]
        <4>1. k + 1 = m + i + 1
          BY <1>0
        <4>2. ws[m + i + 1] = b[i + 1]
          BY <1>0, <3>1
        <4>. HIDE DEF i
        <4>3. QED
          BY <4>1, <4>2
      <3>6. h[i + 1] = h[i] \o b[i + 1]
        BY <1>2, <3>1
      <3>. HIDE DEF f, i
      <3>7. g[m] \o h[i + 1] = f[k] \o b[i + 1]
        <4>. DEFINE x == g[m]
                    y == h[i]
                    z == b[i + 1]
                    xy == f[k]
                    yz == h[i + 1]
        <4>1. Joined(T, x, y, z, xy, yz)
          BY <3>2, <3>4, <3>6, Zenon DEF Joined
        <4>. HIDE DEF x, y, z, xy, yz
        <4>2. x \o yz = xy \o z
          BY <4>1, ConcatShift
        <4>3. QED
          BY <4>2, Zenon DEF x, y, z, xy, yz
      <3>8. QED
        BY <3>3, <3>5, <3>7, Zenon
    <2>3. QED
      BY <2>1, <2>2
  <1>6. FlattenSeq(ws) = f[Len(ws)]
    <2>. HIDE DEF f
    <2>1. QED
      BY <1>0, <1>3, <1>4, <1>5, FlattenIs
  <1>7. f[m + n] = g[m] \o h[n]
    <2>1. m + n \in 0 .. m + n /\ (m + n) - m = n /\ m \in 0 .. m
      BY <1>0
    <2>2. CASE n = 0
      <3>1. m + n <= m /\ m + n = m
        BY <1>0, <2>2
      <3>2. f[m + n] = g[m]
        BY <2>1, <3>1
      <3>. HIDE DEF f
      <3>3. g[m] \in Seq(T) /\ h[n] = <<>>
        BY <1>1, <1>2, <2>1, <2>2
      <3>4. g[m] \o <<>> = g[m]
        BY <3>3, ConcatEmptySeq
      <3>5. QED
        BY <3>2, <3>3, <3>4
    <2>3. CASE n # 0
      <3>1. ~(m + n <= m)
        BY <1>0, <2>3
      <3>2. f[m + n] = g[m] \o h[(m + n) - m]
        BY <2>1, <3>1
      <3>. HIDE DEF f
      <3>3. QED
        BY <2>1, <3>2
    <2>4. QED
      BY <2>2, <2>3
  <1>8. QED
    BY <1>0, <1>1, <1>2, <1>6, <1>7 DEF ws

-----------------------------------------------------------------------------
(* Percent-encoding.                                                       *)

(***************************************************************************)
(* Two characters of a text, cut out.                                      *)
(***************************************************************************)
LEMMA PairOf ==
    ASSUME NEW s \in Seq(Characters), NEW i \in 1 .. Len(s) - 1
    PROVE  SubSeq(s, i, i + 1) = <<s[i], s[i + 1]>>
  <1>1. i \in Int /\ i + 1 \in Int /\ \A k \in i .. i + 1 : s[k] \in Characters
    OBVIOUS
  <1>2. /\ SubSeq(s, i, i + 1) \in Seq(Characters) /\ Len(SubSeq(s, i, i + 1)) = 2
        /\ SubSeq(s, i, i + 1)[1] = s[i] /\ SubSeq(s, i, i + 1)[2] = s[i + 1]
    BY <1>1
  <1>. DEFINE u == SubSeq(s, i, i + 1)
              v == <<s[i], s[i + 1]>>
  <1>3. v \in Seq(Characters) /\ Len(v) = 2 /\ v[1] = s[i] /\ v[2] = s[i + 1]
    BY <1>1
  <1>4. u \in Seq(Characters) /\ Len(u) = Len(v) /\ \A k \in 1 .. Len(u) : u[k] = v[k]
    BY <1>2, <1>3
  <1>. HIDE DEF u, v
  <1>5. u = v
    BY <1>3, <1>4, SeqEqual
  <1>6. QED
    BY <1>5 DEF u, v

(***************************************************************************)
(* The text up to a position, and one character more.                      *)
(***************************************************************************)
LEMMA OneMore ==
    ASSUME NEW T, NEW s \in Seq(T), NEW k \in 0 .. Len(s) - 1
    PROVE  /\ SubSeq(s, 1, k) \in Seq(T) /\ s[k + 1] \in T
           /\ SubSeq(s, 1, k + 1) = Append(SubSeq(s, 1, k), s[k + 1])
  OBVIOUS

(***************************************************************************)
(* Every code is a pair of characters, and no two are alike.               *)
(***************************************************************************)
LEMMA HexCodes ==
    /\ \A c \in DOMAIN Hex : /\ c \in Characters /\ Hex[c] = <<Hex[c][1], Hex[c][2]>>
                             /\ Hex[c][1] \in Characters /\ Hex[c][2] \in Characters
    /\ \A c, d \in DOMAIN Hex : Hex[c] = Hex[d] => c = d
  <1>1. \A c \in DOMAIN LowDigit : c \in Characters /\ LowDigit[c] \in Characters
    BY CharactersAssumption DEF LowDigit
  <1>2. \A c, d \in DOMAIN LowDigit : LowDigit[c] = LowDigit[d] => c = d
    <2>1. DOMAIN LowDigit = {" ", "'", "(", ")", "+", "/", "%"}
      BY DEF LowDigit
    <2>2. /\ LowDigit[" "] = "0" /\ LowDigit["%"] = "5" /\ LowDigit["'"] = "7" /\ LowDigit["("] = "8"
          /\ LowDigit[")"] = "9" /\ LowDigit["+"] = "B" /\ LowDigit["/"] = "F"
      BY DEF LowDigit
    <2>3. QED
      BY <2>1, <2>2
  <1>3. DOMAIN Hex = DOMAIN LowDigit /\ \A c \in DOMAIN LowDigit : Hex[c] = <<"2", LowDigit[c]>>
    BY DEF Hex
  <1>4. \A c \in DOMAIN LowDigit : Hex[c][1] = "2" /\ Hex[c][2] = LowDigit[c]
    BY DEF Hex
  <1>5. ASSUME NEW c \in DOMAIN Hex
        PROVE  /\ c \in Characters /\ Hex[c] = <<Hex[c][1], Hex[c][2]>>
               /\ Hex[c][1] \in Characters /\ Hex[c][2] \in Characters
    <2>1. c \in DOMAIN LowDigit /\ "2" \in Characters
      BY <1>3, CharactersAssumption
    <2>2. QED
      BY <1>1, <1>3, <1>4, <2>1, Zenon
  <1>6. ASSUME NEW c \in DOMAIN Hex, NEW d \in DOMAIN Hex, Hex[c] = Hex[d] PROVE c = d
    BY <1>2, <1>3, <1>4, <1>6, Zenon
  <1>7. QED
    BY <1>5, <1>6

(***************************************************************************)
(* The ways to write a character, and the rounds of UrlDecode that read    *)
(* them: e is the end of what has been read.                               *)
(***************************************************************************)
DecodeState == [i : Nat, result : Seq(Characters)]

Plain(word, c) == c \notin {"%", "+"} /\ word = <<c>>

Code(word, c) == c \in DOMAIN Hex /\ word = <<"%", Hex[c][1], Hex[c][2]>>

(***************************************************************************)
(* A round of UrlDecode at a character that is written as itself.          *)
(***************************************************************************)
LEMMA DecodePlain ==
    ASSUME NEW input \in Seq(Characters), NEW at \in DecodeState, NEW next \in DecodeState, NEW e \in Nat,
           NEW w, NEW c, Plain(w, c), StandsAt(input, e, w),
           at.i = e + 1, next.i = e + Len(w) + 1, next.result = Append(at.result, c)
    PROVE  UrlDecodeStep(input)[at] = next
  <1>1. Len(w) = 1 /\ w[1] = c /\ c # "%" /\ c # "+"
    BY DEF Plain
  <1>2. input[at.i] = c /\ ~(at.i > Len(input)) /\ next.i = at.i + 1
    BY <1>1 DEF StandsAt
  <1>3. UrlDecodeStep(input)[at] = [i |-> at.i + 1, result |-> Append(at.result, c)]
    BY <1>1, <1>2 DEF UrlDecodeStep, DecodeState
  <1>4. next = [i |-> at.i + 1, result |-> Append(at.result, c)]
    BY <1>2 DEF DecodeState
  <1>5. QED
    BY <1>3, <1>4

(***************************************************************************)
(* A round at a percent sign and the two digits of a code: the code is the *)
(* only one that the digits can be.                                        *)
(***************************************************************************)
LEMMA DecodeCode ==
    ASSUME NEW input \in Seq(Characters), NEW at \in DecodeState, NEW next \in DecodeState, NEW e \in Nat,
           NEW w, NEW c, Code(w, c), StandsAt(input, e, w),
           at.i = e + 1, next.i = e + Len(w) + 1, next.result = Append(at.result, c)
    PROVE  UrlDecodeStep(input)[at] = next
  <1>. DEFINE p == at.i
              Coded == {d \in DOMAIN Hex : p + 2 <= Len(input) /\ SubSeq(input, p + 1, p + 2) = Hex[d]}
  <1>1. Len(w) = 3 /\ w[1] = "%" /\ w[2] = Hex[c][1] /\ w[3] = Hex[c][2] /\ c \in DOMAIN Hex
    BY DEF Code
  <1>2. /\ p \in Nat /\ input[p] = "%" /\ input[p + 1] = Hex[c][1] /\ input[p + 2] = Hex[c][2]
        /\ p + 2 <= Len(input) /\ next.i = p + 3
    <2>1. /\ input[e + 1] = "%" /\ input[e + 2] = Hex[c][1] /\ input[e + 3] = Hex[c][2]
          /\ e + 3 <= Len(input) /\ next.i = e + 4
      BY <1>1 DEF StandsAt
    <2>2. p = e + 1 /\ p + 1 = e + 2 /\ p + 2 = e + 3
      OBVIOUS
    <2>. HIDE DEF p
    <2>3. QED
      BY <2>1, <2>2
  <1>3. Coded = {c}
    <2>. HIDE DEF p
    <2>1. p + 1 \in 1 .. Len(input) - 1 /\ (p + 1) + 1 = p + 2
      BY <1>2
    <2>2. SubSeq(input, p + 1, p + 2) = <<Hex[c][1], Hex[c][2]>>
      BY <1>2, <2>1, PairOf
    <2>3. SubSeq(input, p + 1, p + 2) = Hex[c]
      BY <1>1, <2>2, HexCodes, Zenon
    <2>4. QED
      BY <1>1, <1>2, <2>3, HexCodes
  <1>4. UrlDecodeStep(input)[at] =
            IF p > Len(input) THEN at
            ELSE IF input[p] = "%" /\ Coded # {}
            THEN [i |-> p + 3, result |-> Append(at.result, CHOOSE d \in Coded : TRUE)]
            ELSE [i |-> p + 1, result |-> Append(at.result, IF input[p] = "+" THEN " " ELSE input[p])]
    BY DEF UrlDecodeStep, DecodeState
  <1>. HIDE DEF Coded
  <1>5. (CHOOSE d \in Coded : TRUE) = c /\ Coded # {}
    BY <1>3
  <1>6. UrlDecodeStep(input)[at] = [i |-> p + 3, result |-> Append(at.result, c)]
    <2>1. ~(p > Len(input))
      BY <1>2
    <2>. HIDE DEF p
    <2>2. QED
      BY <1>2, <1>4, <1>5, <2>1
  <1>7. next = [i |-> p + 3, result |-> Append(at.result, c)]
    BY <1>2 DEF DecodeState
  <1>8. QED
    BY <1>6, <1>7

(***************************************************************************)
(* At the end of the text the loop of UrlDecode stays.                     *)
(***************************************************************************)
LEMMA DecodeEnd ==
    ASSUME NEW input, NEW at \in DecodeState, at.i > Len(input)
    PROVE  UrlDecodeStep(input)[at] = at
  BY DEF UrlDecodeStep, DecodeState

(***************************************************************************)
(* Every way to write a character takes at least one.                      *)
(***************************************************************************)
LEMMA WordLength ==
    ASSUME NEW w, NEW c, Plain(w, c) \/ Code(w, c)
    PROVE  Len(w) >= 1
  BY DEF Plain, Code

(***************************************************************************)
(* UrlDecode undoes percent-encoding: a text in which every character is   *)
(* written as itself, unless it is '%' or '+', or by its code, is read as  *)
(* these characters.                                                       *)
(***************************************************************************)
LEMMA DecodeWords ==
    ASSUME NEW text \in Seq(Characters), NEW ws \in Seq(Seq(Characters)), Len(ws) = Len(text),
           \A k \in 0 .. Len(text) - 1 : Plain(ws[k + 1], text[k + 1]) \/ Code(ws[k + 1], text[k + 1])
    PROVE  UrlDecode(FlattenSeq(ws)) = text
  <1>. DEFINE n == Len(text)
              input == FlattenSeq(ws)
              step == UrlDecodeStep(input)
  <1>0. n \in Nat /\ Len(ws) = n
    OBVIOUS
  <1>1. PICK end : Ends(ws, input, end)
    BY WordsAt
  <1>2. input \in Seq(Characters) /\ Len(input) \in Nat
    BY WordsAt
  <1>3. n <= Len(input)
    BY <1>0, WordLength, WordsFit
  <1>. DEFINE chain == [k \in 0 .. n |-> [i |-> end[k] + 1, result |-> SubSeq(text, 1, k)]]
  <1>. HIDE DEF input
  <1>4. ASSUME NEW k \in 0 .. n PROVE chain[k] \in DecodeState
    <2>1. end[k] \in Nat
      BY <1>0, <1>1 DEF Ends
    <2>2. SubSeq(text, 1, k) \in Seq(Characters)
      BY <1>0
    <2>3. QED
      BY <2>1, <2>2 DEF DecodeState
  <1>5. ASSUME NEW k \in 0 .. n - 1 PROVE step[chain[k]] = chain[k + 1]
    <2>. DEFINE e == end[k]
                w == ws[k + 1]
                c == text[k + 1]
    <2>1. e \in Nat /\ end[k + 1] = e + Len(w) /\ StandsAt(input, e, w)
      <3>1. k \in 0 .. Len(ws) - 1 /\ Len(ws) \in Nat
        BY <1>0
      <3>2. QED
        BY <1>1, <3>1, WordAt
    <2>2. k \in 0 .. n /\ k + 1 \in 0 .. n
      BY <1>0
    <2>3. chain[k].i = e + 1 /\ chain[k].result = SubSeq(text, 1, k)
      BY <2>2
    <2>4. chain[k + 1].i = end[k + 1] + 1 /\ chain[k + 1].result = Append(SubSeq(text, 1, k), c)
      BY <2>2, OneMore
    <2>5. Plain(w, c) \/ Code(w, c)
      OBVIOUS
    <2>6. chain[k] \in DecodeState /\ chain[k + 1] \in DecodeState
      BY <1>4, <2>2
    <2>. HIDE DEF chain, e, w, c
    <2>7. chain[k + 1].i = e + Len(w) + 1 /\ chain[k + 1].result = Append(chain[k].result, c)
      BY <2>1, <2>3, <2>4
    <2>8. QED
      BY <1>2, <2>1, <2>3, <2>5, <2>6, <2>7, DecodePlain, DecodeCode
  <1>6. chain[0] = [i |-> 1, result |-> <<>>]
    <2>1. end[0] = 0 /\ 0 \in 0 .. n /\ SubSeq(text, 1, 0) = <<>>
      BY <1>0, <1>1 DEF Ends
    <2>2. QED
      BY <2>1
  <1>7. n \in 0 .. n /\ chain[n].i = Len(input) + 1 /\ chain[n].result = text
    <2>1. n \in 0 .. n /\ SubSeq(text, 1, n) = text
      BY <1>0, SubSeqFull
    <2>2. end[n] = Len(input)
      BY <1>0, <1>1 DEF Ends
    <2>3. QED
      BY <2>1, <2>2
  <1>. HIDE DEF chain
  <1>8. step[chain[n]] = chain[n]
    <2>1. chain[n].i > Len(input)
      BY <1>2, <1>7
    <2>2. QED
      BY <1>4, <1>7, <2>1, DecodeEnd
  <1>. HIDE DEF step
  <1>9. Iterate(step, chain[0], Len(input)) = chain[n]
    <2>. DEFINE rounds == Len(input)
    <2>1. rounds \in Nat /\ n \in 0 .. rounds
      BY <1>0, <1>2, <1>3
    <2>2. \A k \in 0 .. n - 1 : step[chain[k]] = chain[k + 1]
      BY <1>5
    <2>. HIDE DEF n, rounds
    <2>3. Iterate(step, chain[0], rounds) = chain[n]
      BY <1>8, <2>1, <2>2, LoopFollows
    <2>4. QED
      BY <2>3 DEF rounds
  <1>10. UrlDecode(input) = chain[n].result
    BY <1>6, <1>9 DEF UrlDecode, step
  <1>11. QED
    BY <1>7, <1>10 DEF input

(***************************************************************************)
(* Words that spell a text, character by character.                        *)
(***************************************************************************)
Spells(ws, text) ==
    /\ ws \in Seq(Seq(Characters)) /\ text \in Seq(Characters) /\ Len(ws) = Len(text)
    /\ \A k \in 1 .. Len(text) : Plain(ws[k], text[k]) \/ Code(ws[k], text[k])

(***************************************************************************)
(* Two spelled texts side by side are spelled by the words of both.        *)
(***************************************************************************)
LEMMA SpellsConcat ==
    ASSUME NEW a, NEW b, NEW s, NEW t, Spells(a, s), Spells(b, t)
    PROVE  Spells(a \o b, s \o t) /\ FlattenSeq(a \o b) = FlattenSeq(a) \o FlattenSeq(b)
  <1>1. /\ a \in Seq(Seq(Characters)) /\ b \in Seq(Seq(Characters)) /\ Len(a) = Len(s) /\ Len(b) = Len(t)
        /\ s \in Seq(Characters) /\ t \in Seq(Characters)
    BY DEF Spells
  <1>. DEFINE ws == a \o b
              text == s \o t
  <1>a. /\ ws \in Seq(Seq(Characters)) /\ Len(ws) = Len(a) + Len(b)
        /\ \A j \in 1 .. Len(a) : ws[j] = a[j]
        /\ \A j \in 1 .. Len(b) : ws[Len(a) + j] = b[j]
    <2>. DEFINE W == Seq(Characters)
    <2>1. a \in Seq(W) /\ b \in Seq(W)
      BY <1>1
    <2>. HIDE DEF W
    <2>2. /\ ws \in Seq(W) /\ Len(ws) = Len(a) + Len(b)
          /\ \A j \in 1 .. Len(a) : ws[j] = a[j]
          /\ \A j \in 1 .. Len(b) : ws[Len(a) + j] = b[j]
      BY <2>1, ConcatParts
    <2>3. QED
      BY <2>2 DEF W
  <1>b. /\ text \in Seq(Characters) /\ Len(text) = Len(s) + Len(t) /\ Len(s) \in Nat /\ Len(t) \in Nat
        /\ \A j \in 1 .. Len(s) : text[j] = s[j]
        /\ \A j \in 1 .. Len(t) : text[Len(s) + j] = t[j]
    BY <1>1, ConcatParts
  <1>. HIDE DEF ws, text
  <1>2. Len(ws) = Len(text)
    BY <1>1, <1>a, <1>b
  <1>3. ASSUME NEW k \in 1 .. Len(text) PROVE Plain(ws[k], text[k]) \/ Code(ws[k], text[k])
    <2>1. CASE k <= Len(s)
      <3>1. k \in 1 .. Len(s) /\ ws[k] = a[k] /\ text[k] = s[k]
        BY <1>1, <1>a, <1>b, <2>1
      <3>2. QED
        BY <3>1 DEF Spells
    <2>2. CASE ~(k <= Len(s))
      <3>. DEFINE i == k - Len(s)
      <3>0. i \in 1 .. Len(t) /\ Len(s) + i = k
        BY <1>b, <2>2
      <3>. HIDE DEF i
      <3>1. i \in 1 .. Len(t) /\ ws[k] = b[i] /\ text[k] = t[i]
        BY <1>1, <1>a, <1>b, <3>0
      <3>2. QED
        BY <3>1 DEF Spells
    <2>3. QED
      BY <2>1, <2>2
  <1>4. Spells(ws, text)
    BY <1>a, <1>b, <1>2, <1>3 DEF Spells
  <1>5. FlattenSeq(a \o b) = FlattenSeq(a) \o FlattenSeq(b)
    BY <1>1, FlattenConcat
  <1>6. QED
    BY <1>4, <1>5 DEF ws, text

(***************************************************************************)
(* UrlDecode reads a text from the words that spell it.                    *)
(***************************************************************************)
LEMMA SpellsDecode ==
    ASSUME NEW ws, NEW text, Spells(ws, text)
    PROVE  UrlDecode(FlattenSeq(ws)) = text
  <1>1. ws \in Seq(Seq(Characters)) /\ text \in Seq(Characters) /\ Len(ws) = Len(text)
    BY DEF Spells
  <1>2. ASSUME NEW k \in 0 .. Len(text) - 1
        PROVE  Plain(ws[k + 1], text[k + 1]) \/ Code(ws[k + 1], text[k + 1])
    <2>1. k + 1 \in 1 .. Len(text)
      BY <1>1
    <2>2. QED
      BY <2>1 DEF Spells
  <1>3. QED
    BY <1>1, <1>2, DecodeWords

(***************************************************************************)
(* An encoded character spells the character.                              *)
(***************************************************************************)
LEMMA EncodedSpells ==
    ASSUME NEW c \in Characters
    PROVE  Encoded(c) \in Seq(Characters) /\ (Plain(Encoded(c), c) \/ Code(Encoded(c), c))
  <1>1. CASE c \in DOMAIN Hex
    <2>1. /\ Hex[c] = <<Hex[c][1], Hex[c][2]>> /\ Hex[c][1] \in Characters /\ Hex[c][2] \in Characters
          /\ "%" \in Characters
      BY <1>1, HexCodes, CharactersAssumption
    <2>. DEFINE x == Hex[c][1]
                y == Hex[c][2]
    <2>2. Encoded(c) = <<"%">> \o <<x, y>>
      BY <1>1, <2>1, Zenon DEF Encoded
    <2>3. x \in Characters /\ y \in Characters
      BY <2>1
    <2>. HIDE DEF x, y
    <2>4. <<"%">> \o <<x, y>> = <<"%", x, y>> /\ <<"%", x, y>> \in Seq(Characters)
      <3>. DEFINE u == <<"%">>
                  v == <<x, y>>
                  uv == u \o v
                  w == <<"%", x, y>>
      <3>1. /\ u \in Seq(Characters) /\ Len(u) = 1 /\ u[1] = "%"
            /\ v \in Seq(Characters) /\ Len(v) = 2 /\ v[1] = x /\ v[2] = y
        BY <2>1, <2>3
      <3>2. w \in Seq(Characters) /\ Len(w) = 3 /\ w[1] = "%" /\ w[2] = x /\ w[3] = y
        BY <2>1, <2>3
      <3>. HIDE DEF u, v, w
      <3>3. /\ uv \in Seq(Characters) /\ Len(uv) = 3
            /\ uv[1] = u[1] /\ uv[1 + 1] = v[1] /\ uv[1 + 2] = v[2]
        <4>1. u \in Seq(Characters) /\ v \in Seq(Characters)
          BY <3>1
        <4>2. /\ uv \in Seq(Characters) /\ Len(uv) = Len(u) + Len(v)
              /\ \A j \in 1 .. Len(u) : uv[j] = u[j]
              /\ \A j \in 1 .. Len(v) : uv[Len(u) + j] = v[j]
          BY <4>1, ConcatParts
        <4>. HIDE DEF uv
        <4>3. Len(u) = 1 /\ Len(v) = 2
          BY <3>1
        <4>4. QED
          BY <4>2, <4>3
      <3>. HIDE DEF uv
      <3>4. \A k \in 1 .. Len(uv) : uv[k] = w[k]
        BY <3>1, <3>2, <3>3
      <3>5. uv = w
        BY <3>2, <3>3, <3>4, SeqEqual
      <3>6. QED
        BY <3>2, <3>5 DEF u, v, uv, w
    <2>5. QED
      BY <1>1, <2>2, <2>4 DEF Code, x, y
  <1>2. CASE c \notin DOMAIN Hex
    <2>1. c \notin {"%", "+"}
      BY <1>2 DEF Hex, LowDigit
    <2>2. Encoded(c) = <<c>> /\ <<c>> \in Seq(Characters)
      BY <1>2 DEF Encoded
    <2>3. QED
      BY <2>1, <2>2 DEF Plain
  <1>3. QED
    BY <1>1, <1>2

EncodedWords(text) == [i \in 1 .. Len(text) |-> Encoded(text[i])]

(***************************************************************************)
(* What EncodePath writes spells the text it encodes.                      *)
(***************************************************************************)
LEMMA EncodePathSpells ==
    ASSUME NEW text \in Seq(Characters)
    PROVE  Spells(EncodedWords(text), text) /\ EncodePath(text) = FlattenSeq(EncodedWords(text))
  <1>1. \A i \in 1 .. Len(text) : text[i] \in Characters
    OBVIOUS
  <1>2. EncodedWords(text) \in Seq(Seq(Characters)) /\ Len(EncodedWords(text)) = Len(text)
    BY <1>1, EncodedSpells DEF EncodedWords
  <1>3. \A i \in 1 .. Len(text) : EncodedWords(text)[i] = Encoded(text[i])
    BY DEF EncodedWords
  <1>4. EncodePath(text) = FlattenSeq(EncodedWords(text))
    BY Zenon DEF EncodePath, EncodedWords
  <1>5. QED
    BY <1>1, <1>2, <1>3, <1>4, EncodedSpells DEF Spells

(***************************************************************************)
(* A single word is its own concatenation.                                 *)
(***************************************************************************)
LEMMA FlattenOne ==
    ASSUME NEW T, NEW w \in Seq(T)
    PROVE  FlattenSeq(<<w>>) = w
  <1>. DEFINE g == [k \in 0 .. 1 |-> IF k = 0 THEN <<>> ELSE w]
  <1>1. <<w>> \in Seq(Seq(T)) /\ Len(<<w>>) = 1 /\ <<w>>[1] = w
    OBVIOUS
  <1>2. g \in [0 .. 1 -> Seq(T)] /\ g[0] = <<>> /\ g[1] = w
    OBVIOUS
  <1>. HIDE DEF g
  <1>3. <<>> \o w = w
    OBVIOUS
  <1>. DEFINE ws == <<w>>
  <1>. HIDE DEF ws
  <1>4. ws \in Seq(Seq(T)) /\ Len(ws) = 1 /\ ws[1] = w
    BY <1>1 DEF ws
  <1>5. \A k \in 0 .. Len(ws) - 1 : g[k + 1] = g[k] \o ws[k + 1]
    BY <1>2, <1>3, <1>4
  <1>6. g \in [0 .. Len(ws) -> Seq(T)] /\ g[Len(ws)] = w
    BY <1>2, <1>4
  <1>7. FlattenSeq(ws) = g[Len(ws)]
    BY <1>2, <1>4, <1>5, <1>6, FlattenIs
  <1>8. QED
    BY <1>6, <1>7 DEF ws

(***************************************************************************)
(* A parenthesis that the header writes around the key spells itself.      *)
(***************************************************************************)
LEMMA ParenthesisSpells ==
    ASSUME NEW c \in {"(", ")"}
    PROVE  Spells(<<<<c>>>>, <<c>>) /\ FlattenSeq(<<<<c>>>>) = <<c>>
  <1>1. c \in Characters /\ c \notin {"%", "+"}
    BY CharactersAssumption
  <1>2. <<c>> \in Seq(Characters) /\ <<<<c>>>> \in Seq(Seq(Characters))
    BY <1>1
  <1>3. Plain(<<c>>, c)
    BY <1>1 DEF Plain
  <1>4. Len(<<<<c>>>>) = 1 /\ <<<<c>>>>[1] = <<c>> /\ Len(<<c>>) = 1 /\ <<c>>[1] = c
    OBVIOUS
  <1>5. Spells(<<<<c>>>>, <<c>>)
    BY <1>2, <1>3, <1>4 DEF Spells
  <1>6. QED
    BY <1>2, <1>5, FlattenOne

(***************************************************************************)
(* The path of a Location, decoded by the server that the client sends it  *)
(* to, is the entity's name and the key in parentheses, whatever           *)
(* characters they have.                                                   *)
(***************************************************************************)
LEMMA LocationDecodes ==
    ASSUME NEW entity \in Seq(Characters), NEW key \in Seq(Characters)
    PROVE  UrlDecode(EncodePath(entity) \o <<"(">> \o EncodePath(key) \o <<")">>)
               = entity \o <<"(">> \o key \o <<")">>
  <1>. DEFINE a == EncodedWords(entity)
              b == <<<<"(">>>>
              c == EncodedWords(key)
              d == <<<<")">>>>
  <1>1. /\ Spells(a, entity) /\ Spells(b, <<"(">>) /\ Spells(c, key) /\ Spells(d, <<")">>)
        /\ FlattenSeq(a) = EncodePath(entity) /\ FlattenSeq(b) = <<"(">>
        /\ FlattenSeq(c) = EncodePath(key) /\ FlattenSeq(d) = <<")">>
    BY EncodePathSpells, ParenthesisSpells
  <1>. HIDE DEF a, b, c, d
  <1>. DEFINE o == <<"(">>
              p == <<")">>
  <1>. HIDE DEF o, p
  <1>. DEFINE ab == a \o b
              abc == ab \o c
              eo == entity \o o
              eok == eo \o key
              fe == EncodePath(entity)
              fk == EncodePath(key)
              feo == fe \o o
              feok == feo \o fk
  <1>2. Spells(ab, eo) /\ FlattenSeq(ab) = feo
    <2>1. /\ Spells(a, entity) /\ Spells(b, o) /\ FlattenSeq(a) = EncodePath(entity) /\ FlattenSeq(b) = o
      BY <1>1, Zenon DEF o
    <2>2. QED
      BY <2>1, SpellsConcat
  <1>. HIDE DEF ab, eo, feo
  <1>3. Spells(abc, eok) /\ FlattenSeq(abc) = feok
    BY <1>1, <1>2, SpellsConcat
  <1>. HIDE DEF abc, eok, feok
  <1>4. Spells(abc \o d, eok \o p) /\ FlattenSeq(abc \o d) = feok \o p
    BY <1>1, <1>3, SpellsConcat DEF p
  <1>5. UrlDecode(FlattenSeq(abc \o d)) = eok \o p
    BY <1>4, SpellsDecode
  <1>6. UrlDecode(feok \o p) = eok \o p
    BY <1>4, <1>5, Zenon
  <1>7. QED
    BY <1>6, Zenon DEF ab, abc, eo, eok, fe, fk, feo, feok, o, p

-----------------------------------------------------------------------------
(* The route of a path with a key in parentheses.                          *)

(***************************************************************************)
(* What stands in a text is cut out by its positions.                      *)
(***************************************************************************)
LEMMA CutOut ==
    ASSUME NEW s \in Seq(Characters), NEW w \in Seq(Characters), NEW e \in Nat, StandsAt(s, e, w)
    PROVE  SubSeq(s, e + 1, e + Len(w)) = w
  <1>. DEFINE u == SubSeq(s, e + 1, e + Len(w))
  <1>0. Len(w) \in Nat /\ Len(s) \in Nat /\ e + Len(w) <= Len(s)
    BY DEF StandsAt
  <1>1. \A i \in e + 1 .. e + Len(w) : s[i] \in Characters
    BY <1>0
  <1>2. /\ u \in Seq(Characters) /\ Len(u) = Len(w)
        /\ \A i \in 1 .. Len(w) : u[i] = s[e + i]
    <2>1. e + 1 \in Int /\ e + Len(w) \in Int
      BY <1>0
    <2>2. /\ u \in Seq(Characters)
          /\ Len(u) = IF e + 1 <= e + Len(w) THEN (e + Len(w)) - (e + 1) + 1 ELSE 0
          /\ \A i \in 1 .. (e + Len(w)) - (e + 1) + 1 : u[i] = s[(e + 1) + i - 1]
      BY <1>1, <2>1, SubSeqProperties
    <2>3. /\ (e + Len(w)) - (e + 1) + 1 = Len(w)
          /\ \A i \in 1 .. Len(w) : (e + 1) + i - 1 = e + i
      BY <1>0
    <2>. HIDE DEF u
    <2>4. QED
      BY <1>0, <2>2, <2>3
  <1>3. \A i \in 1 .. Len(u) : u[i] = w[i]
    BY <1>2 DEF StandsAt
  <1>. HIDE DEF u
  <1>4. QED
    BY <1>2, <1>3, SeqEqual DEF u

(***************************************************************************)
(* A path that names an entity set and a key, part by part: the key is in  *)
(* the parentheses behind the name.                                        *)
(***************************************************************************)
PathOf(path, entity, key) ==
    /\ path \in Seq(Characters) /\ entity \in Seq(Characters) /\ key \in Seq(Characters)
    /\ Len(path) = Len(entity) + Len(key) + 2
    /\ StandsAt(path, 0, entity)
    /\ path[Len(entity) + 1] = "(" /\ path[Len(path)] = ")"
    /\ StandsAt(path, Len(entity) + 1, key)

(***************************************************************************)
(* The decoded path of a Location is made of these parts.                  *)
(***************************************************************************)
LEMMA PathParts ==
    ASSUME NEW entity \in Seq(Characters), NEW key \in Seq(Characters)
    PROVE  PathOf(entity \o <<"(">> \o key \o <<")">>, entity, key)
  <1>. DEFINE o == <<"(">>
              p == <<")">>
              eo == entity \o o
              eok == eo \o key
              path == eok \o p
  <1>1. /\ o \in Seq(Characters) /\ Len(o) = 1 /\ o[1] = "("
        /\ p \in Seq(Characters) /\ Len(p) = 1 /\ p[1] = ")"
    <2>1. "(" \in Characters /\ ")" \in Characters
      BY CharactersAssumption
    <2>2. QED
      BY <2>1
  <1>. HIDE DEF o, p
  <1>2. /\ eo \in Seq(Characters) /\ Len(eo) = Len(entity) + 1 /\ Len(entity) \in Nat
        /\ \A j \in 1 .. Len(entity) : eo[j] = entity[j]
        /\ eo[Len(entity) + 1] = "("
    BY <1>1, ConcatParts
  <1>. HIDE DEF eo
  <1>3. /\ eok \in Seq(Characters) /\ Len(eok) = Len(eo) + Len(key) /\ Len(key) \in Nat
        /\ \A j \in 1 .. Len(eo) : eok[j] = eo[j]
        /\ \A j \in 1 .. Len(key) : eok[Len(eo) + j] = key[j]
    BY <1>2, ConcatParts
  <1>. HIDE DEF eok
  <1>4. /\ path \in Seq(Characters) /\ Len(path) = Len(eok) + 1
        /\ \A j \in 1 .. Len(eok) : path[j] = eok[j]
        /\ path[Len(eok) + 1] = ")"
    <2>1. /\ path \in Seq(Characters) /\ Len(path) = Len(eok) + Len(p)
          /\ \A j \in 1 .. Len(eok) : path[j] = eok[j]
          /\ \A j \in 1 .. Len(p) : path[Len(eok) + j] = p[j]
      <3>1. eok \in Seq(Characters) /\ p \in Seq(Characters)
        BY <1>1, <1>3
      <3>2. QED
        BY <3>1, ConcatParts
    <2>. HIDE DEF path
    <2>2. 1 \in 1 .. Len(p)
      BY <1>1
    <2>3. QED
      BY <1>1, <2>1, <2>2
  <1>. HIDE DEF path
  <1>5. Len(path) = Len(entity) + Len(key) + 2 /\ path[Len(path)] = ")"
    BY <1>2, <1>3, <1>4
  <1>6. StandsAt(path, 0, entity) /\ path[Len(entity) + 1] = "("
    <2>1. \A j \in 1 .. Len(entity) + 1 : path[j] = eo[j]
      BY <1>2, <1>3, <1>4
    <2>2. QED
      BY <1>2, <1>3, <1>5, <2>1 DEF StandsAt
  <1>7. StandsAt(path, Len(entity) + 1, key)
    <2>1. \A j \in 1 .. Len(key) : path[Len(entity) + 1 + j] = key[j]
      BY <1>2, <1>3, <1>4
    <2>2. QED
      BY <1>2, <1>3, <1>5, <2>1 DEF StandsAt
  <1>8. PathOf(path, entity, key)
    BY <1>4, <1>5, <1>6, <1>7 DEF PathOf
  <1>9. QED
    BY <1>8 DEF path, eok, eo, o, p

(***************************************************************************)
(* ParseRoute on such a path: the parenthesis behind the name is the first *)
(* special character, so that the name is kept whole, and if the search    *)
(* for the closing one ends at the last character, so is the key.          *)
(***************************************************************************)
LEMMA RouteOfPath ==
    ASSUME NEW path, NEW entity, NEW key, PathOf(path, entity, key), Len(key) > 0,
           \A j \in 1 .. Len(entity) : entity[j] \notin {"(", "/"},
           CloseParen(path, Len(entity) + 2) = Len(path)
    PROVE  ParseRoute(path) = Route(entity, <<Trim(key)>>, FALSE)
  <1>. DEFINE b == Len(entity) + 1
              Special == {i \in 1 .. Len(path) : path[i] \in {"(", "/"}}
  <1>1. /\ path \in Seq(Characters) /\ entity \in Seq(Characters) /\ key \in Seq(Characters)
        /\ Len(path) = Len(entity) + Len(key) + 2 /\ path[b] = "("
        /\ StandsAt(path, 0, entity) /\ StandsAt(path, b, key)
    BY DEF PathOf
  <1>2. Len(entity) \in Nat /\ Len(key) \in Nat /\ b \in 1 .. Len(path)
    BY <1>1
  <1>3. b \in Special /\ \A i \in Special : b <= i
    <2>1. b \in Special
      BY <1>1, <1>2
    <2>2. ASSUME NEW i \in Special, ~(b <= i) PROVE FALSE
      <3>1. i \in 1 .. Len(entity)
        BY <1>2, <2>2
      <3>2. path[0 + i] = entity[i] /\ 0 + i = i
        BY <1>1, <3>1 DEF StandsAt
      <3>3. QED
        BY <2>2, <3>1, <3>2
    <2>3. QED
      BY <2>1, <2>2
  <1>4. Min(Special) = b
    <2>1. Special \subseteq Int
      OBVIOUS
    <2>. HIDE DEF Special, b
    <2>2. \A x \in Special : (\A y \in Special : x <= y) => x = b
      BY <1>3, <2>1
    <2>3. QED
      BY <1>3, <2>2 DEF Min
  <1>5. SelectInSeq(path, LAMBDA c : c \in {"(", "/"}) = b
    <2>1. SelectInSeq(path, LAMBDA c : c \in {"(", "/"}) = IF Special # {} THEN Min(Special) ELSE 0
      BY DEF SelectInSeq
    <2>. HIDE DEF Special, b
    <2>2. QED
      BY <1>3, <1>4, <2>1
  <1>6. Before(path, b) = entity
    <2>1. SubSeq(path, 0 + 1, 0 + Len(entity)) = entity
      BY <1>1, CutOut
    <2>2. 0 + 1 = 1 /\ 0 + Len(entity) = b - 1
      BY <1>2
    <2>. HIDE DEF b
    <2>3. QED
      BY <2>1, <2>2 DEF Before
  <1>7. SubSeq(path, b + 1, Len(path) - 1) = key
    <2>1. SubSeq(path, b + 1, b + Len(key)) = key
      BY <1>1, <1>2, CutOut
    <2>2. b + Len(key) = Len(path) - 1
      BY <1>1, <1>2
    <2>. HIDE DEF b
    <2>3. QED
      BY <2>1, <2>2
  <1>8. CloseParen(path, b + 1) = Len(path) /\ Len(path) # 0 /\ ~(Len(path) < Len(path)) /\ key # <<>>
    <2>1. b + 1 = Len(entity) + 2
      BY <1>2
    <2>2. Len(path) # 0 /\ ~(Len(path) < Len(path)) /\ key # <<>>
      BY <1>1, <1>2
    <2>. HIDE DEF b
    <2>3. QED
      BY <2>1, <2>2
  <1>. HIDE DEF b
  <1>9. KeyRouteOf(path, b) = Route(entity, <<Trim(key)>>, FALSE)
    <2>1. KeyRouteOf(path, b) =
              IF Len(path) = 0 THEN Route(entity, <<>>, TRUE)
              ELSE Route(entity, IF key = <<>> THEN <<>> ELSE <<Trim(key)>>,
                         key = <<>> \/ Len(path) < Len(path))
      BY <1>6, <1>7, <1>8, Zenon DEF KeyRouteOf
    <2>2. QED
      BY <1>8, <2>1, Zenon
  <1>10. ParseRoute(path) = KeyRouteOf(path, b)
    <2>1. b # 0
      BY <1>2
    <2>2. QED
      BY <1>1, <1>5, <2>1 DEF ParseRoute
  <1>11. QED
    BY <1>9, <1>10

-----------------------------------------------------------------------------
(* The search for the closing parenthesis.                                 *)

(***************************************************************************)
(* The ways to write a character inside a quoted key.                      *)
(***************************************************************************)
Quoting(w, c) == w = IF c = "'" THEN <<"'", "'">> ELSE <<c>>

(***************************************************************************)
(* What the word of a character looks like.                                *)
(***************************************************************************)
LEMMA QuotingWord ==
    ASSUME NEW w, NEW c, Quoting(w, c)
    PROVE  /\ Len(w) \in {1, 2} /\ w[1] = c
           /\ c = "'" => Len(w) = 2 /\ w[2] = "'"
           /\ c # "'" => Len(w) = 1
  BY DEF Quoting

CloseState == [j : Nat, quoted : BOOLEAN, close : Nat]

(***************************************************************************)
(* Rounds of the search: outside a string it passes over every character   *)
(* but a quote and a closing parenthesis,                                  *)
(***************************************************************************)
LEMMA CloseSkips ==
    ASSUME NEW path, Len(path) \in Nat, NEW at \in CloseState, NEW next \in CloseState,
           at.j <= Len(path), at.close = 0, ~at.quoted, path[at.j] # "'", path[at.j] # ")",
           next.j = at.j + 1, next.quoted = FALSE, next.close = 0
    PROVE  CloseStep(path)[at] = next
  <1>1. CloseStep(path)[at] = [at EXCEPT !.j = at.j + 1]
    BY DEF CloseStep, CloseState
  <1>2. at.quoted = FALSE
    BY Zenon DEF CloseState
  <1>3. QED
    BY <1>1, <1>2 DEF CloseState

(***************************************************************************)
(* a quote opens a string,                                                 *)
(***************************************************************************)
LEMMA CloseOpens ==
    ASSUME NEW path, Len(path) \in Nat, NEW at \in CloseState, NEW next \in CloseState,
           at.j <= Len(path), at.close = 0, ~at.quoted, path[at.j] = "'",
           next.j = at.j + 1, next.quoted = TRUE, next.close = 0
    PROVE  CloseStep(path)[at] = next
  <1>1. CloseStep(path)[at] = [at EXCEPT !.j = at.j + 1, !.quoted = ~at.quoted]
    BY DEF CloseStep, CloseState
  <1>2. (~at.quoted) = next.quoted
    BY Zenon
  <1>3. CloseStep(path)[at] = [at EXCEPT !.j = next.j, !.quoted = next.quoted]
    BY <1>1, <1>2, Zenon
  <1>4. next = [at EXCEPT !.j = next.j, !.quoted = next.quoted]
    BY DEF CloseState
  <1>5. QED
    BY <1>3, <1>4

(***************************************************************************)
(* inside a string a character is passed over, and a doubled quote at      *)
(* once,                                                                   *)
(***************************************************************************)
LEMMA CloseReads ==
    ASSUME NEW path, Len(path) \in Nat, NEW at \in CloseState, NEW next \in CloseState, NEW e \in Nat,
           NEW w, NEW c, Quoting(w, c), StandsAt(path, e, w),
           at.j = e + 1, at.close = 0, at.quoted = TRUE,
           next.j = e + Len(w) + 1, next.quoted = TRUE, next.close = 0
    PROVE  CloseStep(path)[at] = next
  <1>0. /\ Len(w) \in {1, 2} /\ w[1] = c
        /\ c = "'" => Len(w) = 2 /\ w[2] = "'"
        /\ c # "'" => Len(w) = 1
    BY QuotingWord
  <1>1. path[at.j] = c /\ at.j <= Len(path)
    <2>1. path[e + 1] = w[1] /\ e + 1 <= Len(path)
      BY <1>0 DEF StandsAt
    <2>2. QED
      BY <1>0, <2>1
  <1>2. CASE c = "'"
    <2>1. path[at.j + 1] = "'" /\ at.j < Len(path) /\ next.j = at.j + 2
      <3>0. Len(w) = 2 /\ w[2] = "'"
        BY <1>0, <1>2, Zenon
      <3>1. path[e + 2] = w[2] /\ e + 2 <= Len(path)
        BY <3>0 DEF StandsAt
      <3>2. at.j + 1 = e + 2 /\ next.j = e + 3 /\ at.j + 2 = e + 3
        BY <3>0
      <3>3. QED
        BY <3>0, <3>1, <3>2
    <2>2. CloseStep(path)[at] = [at EXCEPT !.j = at.j + 2]
      BY <1>1, <1>2, <2>1 DEF CloseStep, CloseState
    <2>3. QED
      BY <2>1, <2>2 DEF CloseState
  <1>3. CASE c # "'"
    <2>1. CloseStep(path)[at] = [at EXCEPT !.j = at.j + 1]
      BY <1>1, <1>3 DEF CloseStep, CloseState
    <2>2. next.j = at.j + 1
      BY <1>0, <1>3
    <2>3. QED
      BY <2>1, <2>2 DEF CloseState
  <1>4. QED
    BY <1>2, <1>3

(***************************************************************************)
(* a quote that no other follows ends it,                                  *)
(***************************************************************************)
LEMMA CloseEnds ==
    ASSUME NEW path, Len(path) \in Nat, NEW at \in CloseState, NEW next \in CloseState,
           at.j < Len(path), at.close = 0, at.quoted = TRUE, path[at.j] = "'", path[at.j + 1] # "'",
           next.j = at.j + 1, next.quoted = FALSE, next.close = 0
    PROVE  CloseStep(path)[at] = next
  <1>1. CloseStep(path)[at] = [at EXCEPT !.j = at.j + 1, !.quoted = ~at.quoted]
    BY DEF CloseStep, CloseState
  <1>2. (~at.quoted) = next.quoted
    BY Zenon
  <1>3. CloseStep(path)[at] = [at EXCEPT !.j = next.j, !.quoted = next.quoted]
    BY <1>1, <1>2, Zenon
  <1>4. next = [at EXCEPT !.j = next.j, !.quoted = next.quoted]
    BY DEF CloseState
  <1>5. QED
    BY <1>3, <1>4

(***************************************************************************)
(* and the parenthesis is found outside a string.                          *)
(***************************************************************************)
LEMMA CloseFinds ==
    ASSUME NEW path, Len(path) \in Nat, NEW at \in CloseState, NEW next \in CloseState,
           at.j <= Len(path), at.close = 0, ~at.quoted, path[at.j] = ")",
           next.j = at.j, next.quoted = FALSE, next.close = at.j
    PROVE  CloseStep(path)[at] = next
  <1>1. CloseStep(path)[at] = [at EXCEPT !.close = at.j]
    BY DEF CloseStep, CloseState
  <1>2. at.quoted = FALSE
    BY Zenon DEF CloseState
  <1>3. QED
    BY <1>1, <1>2 DEF CloseState

(***************************************************************************)
(* Then the search is over.                                                *)
(***************************************************************************)
LEMMA CloseStays ==
    ASSUME NEW path, NEW at \in CloseState, at.close # 0
    PROVE  CloseStep(path)[at] = at
  BY DEF CloseStep, CloseState

(***************************************************************************)
(* A key without quotes and closing parentheses ends at the last character *)
(* of the path.                                                            *)
(***************************************************************************)
LEMMA CloseOfPlain ==
    ASSUME NEW path, NEW entity, NEW key, PathOf(path, entity, key),
           \A j \in 1 .. Len(key) : key[j] \notin {"'", ")"}
    PROVE  CloseParen(path, Len(entity) + 2) = Len(path)
  <1>. DEFINE n == Len(key)
              start == Len(entity) + 2
              L == Len(path)
              step == CloseStep(path)
              chain == [k \in 0 .. n + 1 |->
                           [j |-> IF k = n + 1 THEN L ELSE start + k, quoted |-> FALSE,
                            close |-> IF k = n + 1 THEN L ELSE 0]]
  <1>0. n \in Nat /\ L \in Nat /\ start \in Nat /\ Len(entity) \in Nat /\ L = start + n /\ start > 1
    BY DEF PathOf
  <1>1. /\ path[L] = ")"
        /\ \A j \in 1 .. n : path[Len(entity) + 1 + j] = key[j]
    BY DEF PathOf, StandsAt
  <1>2. ASSUME NEW k \in 0 .. n
        PROVE  path[start + k] # "'" /\ (k < n => path[start + k] # ")") /\ (k = n => path[start + k] = ")")
    <2>1. CASE k = n
      BY <1>0, <1>1, <2>1
    <2>2. CASE k < n
      <3>1. k + 1 \in 1 .. n /\ Len(entity) + 1 + (k + 1) = start + k
        BY <1>0, <2>2
      <3>2. path[start + k] = key[k + 1]
        BY <1>1, <3>1
      <3>. HIDE DEF start, L
      <3>3. QED
        BY <2>2, <3>1, <3>2
    <2>3. QED
      BY <1>0, <2>1, <2>2
  <1>. HIDE DEF L, start
  <1>3. ASSUME NEW k \in 0 .. n + 1 PROVE chain[k] \in CloseState /\ chain[k].quoted = FALSE
    <2>1. chain[k] = [j |-> IF k = n + 1 THEN L ELSE start + k, quoted |-> FALSE,
                      close |-> IF k = n + 1 THEN L ELSE 0]
      OBVIOUS
    <2>2. (IF k = n + 1 THEN L ELSE start + k) \in Nat /\ (IF k = n + 1 THEN L ELSE 0) \in Nat
      BY <1>0
    <2>. HIDE DEF chain
    <2>3. QED
      BY <2>1, <2>2 DEF CloseState
  <1>4. ASSUME NEW k \in 0 .. n PROVE chain[k].j = start + k /\ chain[k].close = 0 /\ k \in 0 .. n + 1
    <2>1. k \in 0 .. n + 1 /\ k # n + 1
      BY <1>0
    <2>2. QED
      BY <2>1
  <1>5. chain[n + 1].j = L /\ chain[n + 1].close = L /\ n + 1 \in 0 .. n + 1
    <2>1. n + 1 \in 0 .. n + 1
      BY <1>0
    <2>2. QED
      BY <2>1
  <1>6. chain[0] = [j |-> start, quoted |-> FALSE, close |-> 0]
    <2>1. 0 \in 0 .. n + 1 /\ 0 # n + 1 /\ start + 0 = start
      BY <1>0
    <2>2. QED
      BY <2>1
  <1>. HIDE DEF chain
  <1>7. ASSUME NEW k \in 0 .. n PROVE step[chain[k]] = chain[k + 1]
    <2>1. /\ chain[k] \in CloseState /\ chain[k + 1] \in CloseState /\ ~chain[k].quoted
          /\ chain[k + 1].quoted = FALSE
      <3>1. k \in 0 .. n + 1 /\ k + 1 \in 0 .. n + 1
        BY <1>0
      <3>2. QED
        BY <1>3, <3>1
    <2>2. chain[k].j = start + k /\ chain[k].close = 0
      BY <1>4
    <2>3. CASE k = n
      <3>1. chain[k].j = L /\ path[L] = ")" /\ chain[k + 1].j = L /\ chain[k + 1].close = L
        BY <1>0, <1>1, <1>5, <2>2, <2>3
      <3>2. /\ chain[k].j <= Len(path) /\ Len(path) \in Nat /\ path[chain[k].j] = ")"
            /\ chain[k + 1].j = chain[k].j /\ chain[k + 1].close = chain[k].j
        BY <1>0, <3>1 DEF L
      <3>3. QED
        BY <2>1, <2>2, <3>2, CloseFinds
    <2>4. CASE k < n
      <3>1. chain[k + 1].j = (start + k) + 1 /\ chain[k + 1].close = 0
        <4>1. k + 1 \in 0 .. n /\ start + (k + 1) = (start + k) + 1
          BY <1>0, <2>4
        <4>2. QED
          BY <1>4, <4>1
      <3>2. start + k <= L
        BY <1>0, <2>4
      <3>3. path[start + k] # "'" /\ path[start + k] # ")"
        BY <1>2, <2>4
      <3>4. QED
        BY <1>0, <2>1, <2>2, <3>1, <3>2, <3>3, CloseSkips DEF L
    <2>5. QED
      BY <1>0, <2>3, <2>4
  <1>8. step[chain[n + 1]] = chain[n + 1]
    <2>0. L # 0
      BY <1>0
    <2>1. chain[n + 1] \in CloseState /\ chain[n + 1].close # 0
      BY <1>3, <1>5, <2>0, Zenon
    <2>2. QED
      BY <2>1, CloseStays
  <1>. HIDE DEF step
  <1>9. Iterate(step, chain[0], L) = chain[n + 1]
    <2>. DEFINE m == n + 1
    <2>1. m \in 0 .. L /\ m - 1 = n
      BY <1>0
    <2>2. step[chain[m]] = chain[m] /\ \A k \in 0 .. m - 1 : step[chain[k]] = chain[k + 1]
      BY <1>7, <1>8, <2>1
    <2>. HIDE DEF m
    <2>3. Iterate(step, chain[0], L) = chain[m]
      BY <1>0, <2>1, <2>2, LoopFollows
    <2>4. QED
      BY <2>3 DEF m
  <1>10. CloseParen(path, start) = chain[n + 1].close
    BY <1>6, <1>9 DEF CloseParen, step, L
  <1>11. QED
    BY <1>5, <1>10 DEF L, start

(***************************************************************************)
(* The words of a quoted text: one for each character.                     *)
(***************************************************************************)
LEMMA DoubledWords ==
    ASSUME NEW value \in Seq(Characters)
    PROVE  /\ Doubled(value, "'") \in Seq(Seq(Characters)) /\ Len(Doubled(value, "'")) = Len(value)
           /\ \A k \in 0 .. Len(value) - 1 : Quoting(Doubled(value, "'")[k + 1], value[k + 1])
           /\ \A k \in 0 .. Len(value) - 1 : Len(Doubled(value, "'")[k + 1]) >= 1
  <1>. DEFINE ws == Doubled(value, "'")
  <1>1. ASSUME NEW i \in 1 .. Len(value)
        PROVE  Quoting(ws[i], value[i]) /\ ws[i] \in Seq(Characters) /\ Len(ws[i]) >= 1
    <2>1. ws[i] = IF value[i] = "'" THEN <<"'", "'">> ELSE <<value[i]>>
      BY DEF Doubled
    <2>a. "'" \in Characters
      BY CharactersAssumption
    <2>b. value[i] \in Characters
      OBVIOUS
    <2>2. "'" \in Characters /\ value[i] \in Characters
      BY <2>a, <2>b
    <2>. HIDE DEF ws
    <2>3. Quoting(ws[i], value[i])
      BY <2>1 DEF Quoting
    <2>4. CASE value[i] = "'"
      BY <2>1, <2>2, <2>3, <2>4
    <2>5. CASE value[i] # "'"
      BY <2>1, <2>2, <2>3, <2>5
    <2>6. QED
      BY <2>4, <2>5
  <1>2. Len(value) \in Nat /\ ws = [i \in 1 .. Len(value) |-> ws[i]]
    BY DEF Doubled
  <1>3. ws \in Seq(Seq(Characters)) /\ Len(ws) = Len(value)
    <2>. HIDE DEF ws
    <2>1. QED
      BY <1>1, <1>2
  <1>4. ASSUME NEW k \in 0 .. Len(value) - 1
        PROVE  Quoting(ws[k + 1], value[k + 1]) /\ Len(ws[k + 1]) >= 1
    <2>1. k + 1 \in 1 .. Len(value)
      BY <1>2
    <2>. HIDE DEF ws
    <2>2. QED
      BY <1>1, <2>1
  <1>5. QED
    BY <1>3, <1>4

(***************************************************************************)
(* A quoted text: between its quotes stand the words of its characters.    *)
(***************************************************************************)
QuotedAs(key, flat) ==
    /\ key \in Seq(Characters) /\ flat \in Seq(Characters) /\ Len(key) = Len(flat) + 2
    /\ key[1] = "'" /\ key[Len(key)] = "'" /\ StandsAt(key, 1, flat)

(***************************************************************************)
(* QuoteStringLiteral puts the words of the text between two quotes.       *)
(***************************************************************************)
LEMMA QuotedParts ==
    ASSUME NEW value \in Seq(Characters)
    PROVE  QuotedAs(QuoteStringLiteral(value), FlattenSeq(Doubled(value, "'")))
  <1>. DEFINE q == <<"'">>
              flat == FlattenSeq(Doubled(value, "'"))
              qf == q \o flat
              key == qf \o q
  <1>1. q \in Seq(Characters) /\ Len(q) = 1 /\ q[1] = "'"
    <2>1. "'" \in Characters
      BY CharactersAssumption
    <2>2. QED
      BY <2>1
  <1>2. flat \in Seq(Characters)
    BY DoubledWords, WordsAt
  <1>. HIDE DEF q, flat
  <1>3. /\ qf \in Seq(Characters) /\ Len(qf) = Len(q) + Len(flat) /\ Len(flat) \in Nat
        /\ \A j \in 1 .. Len(q) : qf[j] = q[j]
        /\ \A j \in 1 .. Len(flat) : qf[Len(q) + j] = flat[j]
    <2>1. q \in Seq(Characters) /\ flat \in Seq(Characters)
      BY <1>1, <1>2
    <2>2. QED
      BY <2>1, ConcatParts
  <1>. HIDE DEF qf
  <1>4. /\ key \in Seq(Characters) /\ Len(key) = Len(qf) + Len(q)
        /\ \A j \in 1 .. Len(qf) : key[j] = qf[j]
        /\ \A j \in 1 .. Len(q) : key[Len(qf) + j] = q[j]
    <2>1. qf \in Seq(Characters) /\ q \in Seq(Characters)
      BY <1>1, <1>3
    <2>2. QED
      BY <2>1, ConcatParts
  <1>. HIDE DEF key
  <1>5. Len(qf) = 1 + Len(flat) /\ Len(key) = Len(flat) + 2 /\ Len(qf) + 1 = Len(key)
    BY <1>1, <1>3, <1>4
  <1>6. key[1] = "'" /\ key[Len(key)] = "'"
    <2>1. 1 \in 1 .. Len(q) /\ 1 \in 1 .. Len(qf)
      BY <1>1, <1>3, <1>5
    <2>2. key[1] = q[1] /\ key[Len(qf) + 1] = q[1]
      BY <1>3, <1>4, <2>1
    <2>3. QED
      BY <1>1, <1>5, <2>2
  <1>7. StandsAt(key, 1, flat)
    <2>1. ASSUME NEW j \in 1 .. Len(flat) PROVE key[1 + j] = flat[j]
      <3>1. 1 + j \in 1 .. Len(qf)
        BY <1>3, <1>5
      <3>2. QED
        BY <1>1, <1>3, <1>4, <3>1
    <2>2. QED
      BY <1>3, <1>5, <2>1 DEF StandsAt
  <1>8. QuotedAs(key, flat)
    BY <1>2, <1>4, <1>5, <1>6, <1>7 DEF QuotedAs
  <1>9. QuoteStringLiteral(value) = key
    BY DEF QuoteStringLiteral, key, qf, q, flat
  <1>10. QED
    BY <1>8, <1>9 DEF flat

(***************************************************************************)
(* A quoted key ends at the last character of the path, whatever quotes,   *)
(* parentheses and slashes its value has: every quote of the value is      *)
(* doubled, so that the search stays inside the string.                    *)
(***************************************************************************)
LEMMA CloseOfQuoted ==
    ASSUME NEW path, NEW entity, NEW value \in Seq(Characters),
           PathOf(path, entity, QuoteStringLiteral(value))
    PROVE  CloseParen(path, Len(entity) + 2) = Len(path)
  <1>. DEFINE ws == Doubled(value, "'")
              flat == FlattenSeq(ws)
              key == QuoteStringLiteral(value)
              n == Len(value)
              start == Len(entity) + 2
              L == Len(path)
              step == CloseStep(path)
  <1>1. QuotedAs(key, flat)
    BY QuotedParts
  <1>2. /\ Len(ws) = n /\ n \in Nat /\ ws \in Seq(Seq(Characters))
        /\ \A k \in 0 .. n - 1 : Quoting(ws[k + 1], value[k + 1])
        /\ \A k \in 0 .. n - 1 : Len(ws[k + 1]) >= 1
    BY DoubledWords
  <1>. HIDE DEF ws
  <1>3. PICK end : Ends(ws, flat, end)
    BY <1>2, WordsAt
  <1>4. flat \in Seq(Characters) /\ Len(flat) \in Nat /\ n <= Len(flat)
    BY <1>2, WordsAt, WordsFit
  <1>. HIDE DEF flat, key
  <1>5. /\ L \in Nat /\ start \in Nat /\ start > 1 /\ L = start + Len(flat) + 2 /\ n + 3 <= L
    <2>1. Len(path) = Len(entity) + Len(key) + 2 /\ entity \in Seq(Characters) /\ path \in Seq(Characters)
      BY DEF PathOf, key
    <2>2. Len(key) = Len(flat) + 2
      BY <1>1 DEF QuotedAs
    <2>3. QED
      BY <1>2, <1>4, <2>1, <2>2
  <1>6. path[start] = "'" /\ path[L - 1] = "'" /\ path[L] = ")" /\ path[L] # "'"
    <2>1. /\ path[Len(path)] = ")" /\ Len(entity) \in Nat /\ Len(path) = Len(entity) + Len(key) + 2
          /\ \A j \in 1 .. Len(key) : path[Len(entity) + 1 + j] = key[j]
      BY DEF PathOf, StandsAt, key
    <2>2. key[1] = "'" /\ key[Len(key)] = "'" /\ Len(key) = Len(flat) + 2
      BY <1>1 DEF QuotedAs
    <2>3. /\ 1 \in 1 .. Len(key) /\ Len(key) \in 1 .. Len(key)
          /\ Len(entity) + 1 + 1 = start /\ Len(entity) + 1 + Len(key) = L - 1
      BY <1>4, <2>1, <2>2
    <2>4. path[start] = "'" /\ path[L - 1] = "'"
      <3>. HIDE DEF start, L
      <3>1. QED
        BY <2>1, <2>2, <2>3
    <2>5. QED
      BY <2>1, <2>4
  <1>7. StandsAt(path, start, flat)
    <2>1. ASSUME NEW j \in 1 .. Len(flat) PROVE path[start + j] = flat[j]
      <3>1. /\ Len(entity) \in Nat /\ \A i \in 1 .. Len(key) : path[Len(entity) + 1 + i] = key[i]
        BY DEF PathOf, StandsAt, key
      <3>2. key[1 + j] = flat[j] /\ Len(key) = Len(flat) + 2
        BY <1>1 DEF QuotedAs, StandsAt
      <3>3. 1 + j \in 1 .. Len(key) /\ Len(entity) + 1 + (1 + j) = start + j
        BY <1>4, <3>1, <3>2
      <3>. HIDE DEF start
      <3>4. QED
        BY <3>1, <3>2, <3>3
    <2>2. start + Len(flat) <= L
      BY <1>4, <1>5
    <2>. HIDE DEF start
    <2>3. QED
      BY <2>1, <2>2 DEF StandsAt
  <1>. HIDE DEF start, L, n
  <1>8. ASSUME NEW k \in 0 .. n - 1
        PROVE  /\ end[k] \in Nat /\ end[k + 1] \in Nat /\ end[k + 1] = end[k] + Len(ws[k + 1])
               /\ StandsAt(path, start + end[k], ws[k + 1])
    <2>1. /\ end[k] \in Nat /\ end[k + 1] \in Nat
          /\ end[k + 1] = end[k] + Len(ws[k + 1]) /\ StandsAt(flat, end[k], ws[k + 1])
      BY <1>2, <1>3, WordAt
    <2>2. ws[k + 1] \in Seq(Characters)
      BY <1>2
    <2>. DEFINE w == ws[k + 1]
                e == end[k]
    <2>3. e \in Nat /\ Len(w) \in Nat /\ StandsAt(flat, e, w)
      BY <2>1, <2>2
    <2>. HIDE DEF w, e
    <2>4. start + e + Len(w) <= Len(path)
      BY <1>4, <1>5, <1>7, <2>3 DEF StandsAt, L
    <2>5. ASSUME NEW j \in 1 .. Len(w) PROVE path[(start + e) + j] = w[j]
      <3>1. flat[e + j] = w[j] /\ e + j \in 1 .. Len(flat)
        BY <1>4, <2>3 DEF StandsAt
      <3>2. path[start + (e + j)] = flat[e + j]
        BY <1>7, <3>1 DEF StandsAt
      <3>3. start + (e + j) = (start + e) + j
        BY <1>5, <2>3
      <3>4. QED
        BY <3>1, <3>2, <3>3
    <2>6. StandsAt(path, start + e, w)
      BY <2>4, <2>5 DEF StandsAt
    <2>7. QED
      BY <2>1, <2>6 DEF w, e
  <1>9. end[0] = 0 /\ end[n] = Len(flat)
    BY <1>2, <1>3 DEF Ends
  <1>10. \A k \in 0 .. n : end[k] \in Nat
    BY <1>2, <1>3 DEF Ends
  <1>. DEFINE Pos(k) == IF k = 0 THEN start ELSE IF k <= n + 1 THEN start + end[k - 1] + 1 ELSE L
              In(k) == IF k \in 1 .. n + 1 THEN TRUE ELSE FALSE
              Found(k) == IF k = n + 3 THEN L ELSE 0
              chain == [k \in 0 .. n + 3 |-> [j |-> Pos(k), quoted |-> In(k), close |-> Found(k)]]
  <1>11. ASSUME NEW k \in 0 .. n + 3
         PROVE  /\ chain[k] \in CloseState
                /\ chain[k].j = Pos(k) /\ chain[k].quoted = In(k) /\ chain[k].close = Found(k)
    <2>1. Pos(k) \in Nat
      <3>1. CASE k \in 1 .. n + 1
        <4>1. k - 1 \in 0 .. n
          BY <1>2, <3>1
        <4>2. end[k - 1] \in Nat
          BY <1>10, <4>1
        <4>3. QED
          BY <1>5, <4>2
      <3>2. CASE k \notin 1 .. n + 1
        BY <1>2, <1>5, <3>2
      <3>3. QED
        BY <3>1, <3>2
    <2>2. Found(k) \in Nat
      BY <1>5
    <2>3. In(k) \in BOOLEAN
      BY Zenon
    <2>. HIDE DEF Pos, In, Found
    <2>4. chain[k] = [j |-> Pos(k), quoted |-> In(k), close |-> Found(k)]
      OBVIOUS
    <2>. HIDE DEF chain
    <2>5. QED
      BY <2>1, <2>2, <2>3, <2>4 DEF CloseState
  <1>. HIDE DEF chain
  <1>12. step[chain[0]] = chain[1]
    <2>1. 0 \in 0 .. n + 3 /\ 1 \in 0 .. n + 3 /\ 1 \in 1 .. n + 1 /\ 0 \notin 1 .. n + 1 /\ 1 - 1 = 0
      BY <1>2
    <2>2. Pos(0) = start /\ Pos(1) = start + 1 /\ Found(0) = 0 /\ Found(1) = 0
      BY <1>2, <1>5, <1>9, <2>1
    <2>3. In(0) = FALSE /\ In(1) = TRUE
      BY <2>1, Zenon
    <2>. HIDE DEF Pos, In, Found
    <2>4. /\ chain[0] \in CloseState /\ chain[1] \in CloseState
          /\ chain[0].j = start /\ chain[0].close = 0 /\ ~chain[0].quoted
          /\ chain[1].j = chain[0].j + 1 /\ chain[1].quoted = TRUE /\ chain[1].close = 0
      BY <1>11, <2>1, <2>2, <2>3
    <2>5. Len(path) \in Nat /\ chain[0].j <= Len(path) /\ path[chain[0].j] = "'"
      BY <1>4, <1>5, <1>6, <2>4 DEF L
    <2>6. QED
      BY <2>4, <2>5, CloseOpens
  <1>13. ASSUME NEW k \in 0 .. n - 1 PROVE step[chain[k + 1]] = chain[k + 2]
    <2>1. /\ k + 1 \in 0 .. n + 3 /\ k + 2 \in 0 .. n + 3 /\ k + 1 \in 1 .. n + 1 /\ k + 2 \in 1 .. n + 1
          /\ (k + 1) - 1 = k /\ (k + 2) - 1 = k + 1
      BY <1>2
    <2>2. Pos(k + 1) = start + end[k] + 1 /\ Pos(k + 2) = start + end[k + 1] + 1
      BY <1>2, <2>1
    <2>3. Found(k + 1) = 0 /\ Found(k + 2) = 0
      BY <1>2, <2>1
    <2>4. In(k + 1) = TRUE /\ In(k + 2) = TRUE
      BY <2>1, Zenon
    <2>. DEFINE at == chain[k + 1]
                next == chain[k + 2]
                e == start + end[k]
                w == ws[k + 1]
    <2>5. /\ end[k] \in Nat /\ end[k + 1] = end[k] + Len(ws[k + 1]) /\ StandsAt(path, start + end[k], ws[k + 1])
          /\ Quoting(ws[k + 1], value[k + 1]) /\ Len(ws[k + 1]) \in Nat
      <3>1. ws[k + 1] \in Seq(Characters)
        BY <1>2
      <3>2. QED
        BY <1>2, <1>8, <3>1
    <2>6. e \in Nat /\ start + end[k + 1] + 1 = e + Len(w) + 1
      <3>. DEFINE x == end[k]
                  y == Len(ws[k + 1])
                  z == end[k + 1]
      <3>1. x \in Nat /\ y \in Nat /\ z = x + y
        BY <2>5
      <3>. HIDE DEF x, y, z
      <3>2. start + x \in Nat /\ start + z + 1 = (start + x) + y + 1
        BY <1>5, <3>1
      <3>3. QED
        BY <3>2 DEF x, y, z
    <2>. HIDE DEF Pos, In, Found
    <2>7. /\ at \in CloseState /\ next \in CloseState /\ at.j = e + 1 /\ at.close = 0 /\ at.quoted = TRUE
          /\ next.j = e + Len(w) + 1 /\ next.quoted = TRUE /\ next.close = 0
      <3>1. /\ at \in CloseState /\ at.j = Pos(k + 1) /\ at.quoted = In(k + 1) /\ at.close = Found(k + 1)
        BY <1>11, <2>1
      <3>2. /\ next \in CloseState /\ next.j = Pos(k + 2) /\ next.quoted = In(k + 2) /\ next.close = Found(k + 2)
        BY <1>11, <2>1
      <3>3. QED
        BY <2>2, <2>3, <2>4, <2>6, <3>1, <3>2, Zenon
    <2>8. Len(path) \in Nat /\ StandsAt(path, e, w) /\ Quoting(w, value[k + 1])
      BY <1>5, <2>5 DEF L
    <2>. HIDE DEF at, next, e, w
    <2>9. CloseStep(path)[at] = next
      BY <2>6, <2>7, <2>8, CloseReads
    <2>10. QED
      BY <2>9 DEF at, next
  <1>14. step[chain[n + 1]] = chain[n + 2]
    <2>1. /\ n + 1 \in 0 .. n + 3 /\ n + 2 \in 0 .. n + 3 /\ n + 1 \in 1 .. n + 1 /\ n + 2 \notin 1 .. n + 1
          /\ (n + 1) - 1 = n
      BY <1>2
    <2>2. Pos(n + 1) = start + end[n] + 1 /\ Pos(n + 2) = L /\ Found(n + 1) = 0 /\ Found(n + 2) = 0
      BY <1>2, <2>1
    <2>3. start + end[n] + 1 = L - 1
      BY <1>4, <1>5, <1>9
    <2>4. In(n + 1) = TRUE /\ In(n + 2) = FALSE
      BY <2>1, Zenon
    <2>. HIDE DEF Pos, In, Found
    <2>5. /\ chain[n + 1] \in CloseState /\ chain[n + 2] \in CloseState
          /\ chain[n + 1].j = L - 1 /\ chain[n + 1].quoted = TRUE /\ chain[n + 1].close = 0
          /\ chain[n + 2].j = L /\ chain[n + 2].quoted = FALSE /\ chain[n + 2].close = 0
      BY <1>11, <2>1, <2>2, <2>3, <2>4, Zenon
    <2>6. /\ Len(path) \in Nat /\ chain[n + 1].j < Len(path)
          /\ path[chain[n + 1].j] = "'" /\ path[chain[n + 1].j + 1] # "'" /\ chain[n + 2].j = chain[n + 1].j + 1
      <3>1. L \in Nat /\ L - 1 < L /\ (L - 1) + 1 = L
        BY <1>5
      <3>2. QED
        BY <1>6, <2>5, <3>1 DEF L
    <2>7. QED
      BY <2>5, <2>6, CloseEnds
  <1>15. step[chain[n + 2]] = chain[n + 3] /\ step[chain[n + 3]] = chain[n + 3] /\ chain[n + 3].close = L
    <2>1. n + 2 \in 0 .. n + 3 /\ n + 3 \in 0 .. n + 3 /\ n + 2 \notin 1 .. n + 1 /\ n + 3 \notin 1 .. n + 1
      BY <1>2
    <2>2. Pos(n + 2) = L /\ Pos(n + 3) = L /\ Found(n + 2) = 0 /\ Found(n + 3) = L
      BY <1>2, <2>1
    <2>3. In(n + 2) = FALSE /\ In(n + 3) = FALSE
      BY <2>1, Zenon
    <2>. HIDE DEF Pos, In, Found
    <2>4. /\ chain[n + 2] \in CloseState /\ chain[n + 3] \in CloseState
          /\ chain[n + 2].j = L /\ ~chain[n + 2].quoted /\ chain[n + 2].close = 0
          /\ chain[n + 3].j = L /\ chain[n + 3].quoted = FALSE /\ chain[n + 3].close = L
      BY <1>11, <2>1, <2>2, <2>3, Zenon
    <2>5. /\ Len(path) \in Nat /\ chain[n + 2].j <= Len(path) /\ path[chain[n + 2].j] = ")"
          /\ chain[n + 3].j = chain[n + 2].j /\ chain[n + 3].close = chain[n + 2].j
      <3>1. L \in Nat /\ L <= L
        BY <1>5
      <3>2. QED
        BY <1>6, <2>4, <3>1, Zenon DEF L
    <2>6. step[chain[n + 2]] = chain[n + 3]
      BY <2>4, <2>5, CloseFinds
    <2>7. step[chain[n + 3]] = chain[n + 3]
      <3>1. L # 0
        BY <1>5
      <3>2. chain[n + 3].close # 0
        BY <2>4, <3>1, Zenon
      <3>3. QED
        BY <2>4, <3>2, CloseStays
    <2>8. QED
      BY <2>4, <2>6, <2>7
  <1>. HIDE DEF step
  <1>16. Iterate(step, chain[0], L) = chain[n + 3]
    <2>. DEFINE m == n + 3
    <2>1. m \in 0 .. L /\ L \in Nat
      BY <1>2, <1>5
    <2>2. ASSUME NEW k \in 0 .. m - 1 PROVE step[chain[k]] = chain[k + 1]
      <3>1. CASE k = 0
        BY <1>12, <3>1
      <3>2. CASE k \in 1 .. n
        <4>. DEFINE i == k - 1
        <4>1. i \in 0 .. n - 1 /\ i + 1 = k /\ i + 2 = k + 1
          BY <1>2, <3>2
        <4>. HIDE DEF i
        <4>2. step[chain[i + 1]] = chain[i + 2]
          BY <1>13, <4>1
        <4>3. QED
          BY <4>1, <4>2
      <3>3. CASE k = n + 1
        <4>1. k + 1 = n + 2
          BY <1>2, <3>3
        <4>2. QED
          BY <1>14, <3>3, <4>1
      <3>4. CASE k = n + 2
        <4>1. k + 1 = n + 3
          BY <1>2, <3>4
        <4>2. QED
          BY <1>15, <3>4, <4>1
      <3>5. QED
        BY <1>2, <3>1, <3>2, <3>3, <3>4
    <2>3. step[chain[m]] = chain[m]
      BY <1>15
    <2>. HIDE DEF m
    <2>4. Iterate(step, chain[0], L) = chain[m]
      BY <2>1, <2>2, <2>3, LoopFollows
    <2>5. QED
      BY <2>4 DEF m
  <1>17. chain[0] = [j |-> start, quoted |-> FALSE, close |-> 0]
    <2>1. 0 \in 0 .. n + 3 /\ 0 \notin 1 .. n + 1 /\ 0 # n + 3
      BY <1>2
    <2>2. Pos(0) = start /\ Found(0) = 0
      BY <2>1
    <2>3. In(0) = FALSE
      BY <2>1, Zenon
    <2>. HIDE DEF Pos, In, Found
    <2>4. chain[0] = [j |-> Pos(0), quoted |-> In(0), close |-> Found(0)]
      BY <2>1 DEF chain
    <2>5. QED
      BY <2>2, <2>3, <2>4, Zenon
  <1>18. CloseParen(path, start) = L
    BY <1>15, <1>16, <1>17 DEF CloseParen, step, L
  <1>19. QED
    BY <1>18 DEF start, L

-----------------------------------------------------------------------------
(* The value of a key.                                                     *)

(***************************************************************************)
(* A text that neither begins nor ends with a blank.                       *)
(***************************************************************************)
Tight(text) == Len(text) > 0 /\ text[1] # " " /\ text[Len(text)] # " "

(***************************************************************************)
(* Trim gives such a text back whole.                                      *)
(***************************************************************************)
LEMMA TrimNothing ==
    ASSUME NEW text \in Seq(Characters), Tight(text)
    PROVE  Trim(text) = text
  <1>. DEFINE kept == {i \in DOMAIN text : text[i] # " "}
              first == CHOOSE i \in kept : \A j \in kept : i <= j
              last == CHOOSE i \in kept : \A j \in kept : j <= i
  <1>1. /\ kept \subseteq 1 .. Len(text) /\ Len(text) \in Nat
        /\ 1 \in kept /\ Len(text) \in kept
    <2>1. DOMAIN text = 1 .. Len(text) /\ Len(text) \in Nat
      OBVIOUS
    <2>2. Len(text) > 0 /\ text[1] # " " /\ text[Len(text)] # " "
      BY Zenon DEF Tight
    <2>3. 1 \in 1 .. Len(text) /\ Len(text) \in 1 .. Len(text)
      <3>. DEFINE n == Len(text)
      <3>1. n \in Nat /\ n > 0
        BY <2>1, <2>2, Zenon
      <3>. HIDE DEF n
      <3>2. 1 \in 1 .. n /\ n \in 1 .. n
        BY <3>1
      <3>3. QED
        BY <3>2 DEF n
    <2>4. QED
      BY <2>1, <2>2, <2>3, Zenon
  <1>2. Trim(text) = IF kept = {} THEN <<>> ELSE SubSeq(text, first, last)
    BY DEF Trim
  <1>. HIDE DEF kept
  <1>3. first = 1
    <2>1. \A i \in kept : (\A j \in kept : i <= j) => i = 1
      <3>1. SUFFICES ASSUME NEW i \in kept, \A j \in kept : i <= j PROVE i = 1
        OBVIOUS
      <3>2. i <= 1 /\ i \in 1 .. Len(text)
        BY <1>1, <3>1
      <3>3. QED
        BY <1>1, <3>2
    <2>2. \A j \in kept : 1 <= j
      BY <1>1
    <2>3. QED
      BY <1>1, <2>1, <2>2
  <1>4. last = Len(text)
    <2>1. \A i \in kept : (\A j \in kept : j <= i) => i = Len(text)
      <3>1. SUFFICES ASSUME NEW i \in kept, \A j \in kept : j <= i PROVE i = Len(text)
        OBVIOUS
      <3>2. Len(text) <= i /\ i \in 1 .. Len(text)
        BY <1>1, <3>1
      <3>3. QED
        BY <1>1, <3>2
    <2>2. \A j \in kept : j <= Len(text)
      BY <1>1
    <2>3. QED
      BY <1>1, <2>1, <2>2
  <1>. HIDE DEF first, last
  <1>5. Trim(text) = SubSeq(text, 1, Len(text))
    BY <1>1, <1>2, <1>3, <1>4
  <1>6. QED
    BY <1>5, SubSeqFull

UndoubleState == [i : Nat, decoded : Seq(Characters)]

(***************************************************************************)
(* A round of the loop that undoes the doubling reads the word of one      *)
(* character.                                                              *)
(***************************************************************************)
LEMMA UndoubleReads ==
    ASSUME NEW input \in Seq(Characters), NEW at \in UndoubleState, NEW next \in UndoubleState, NEW e \in Nat,
           NEW w, NEW c, Quoting(w, c), StandsAt(input, e, w),
           at.i = e + 1, next.i = e + Len(w) + 1, next.decoded = Append(at.decoded, c)
    PROVE  UndoubleStep(input)[at] = next
  <1>0. /\ Len(w) \in {1, 2} /\ w[1] = c /\ Len(input) \in Nat
        /\ c = "'" => Len(w) = 2 /\ w[2] = "'"
        /\ c # "'" => Len(w) = 1
    BY QuotingWord
  <1>1. input[at.i] = c /\ ~(at.i > Len(input))
    <2>1. input[e + 1] = w[1] /\ e + 1 <= Len(input)
      BY <1>0 DEF StandsAt
    <2>2. QED
      BY <1>0, <2>1
  <1>2. CASE c = "'"
    <2>1. input[at.i + 1] = "'" /\ at.i < Len(input) /\ next.i = at.i + 2
      <3>0. Len(w) = 2 /\ w[2] = "'"
        BY <1>0, <1>2, Zenon
      <3>1. input[e + 2] = w[2] /\ e + 2 <= Len(input)
        BY <3>0 DEF StandsAt
      <3>2. at.i + 1 = e + 2 /\ next.i = e + 3 /\ at.i + 2 = e + 3
        BY <3>0
      <3>3. QED
        BY <1>0, <3>0, <3>1, <3>2
    <2>2. UndoubleStep(input)[at] = [i |-> at.i + 2, decoded |-> Append(at.decoded, c)]
      BY <1>1, <1>2, <2>1 DEF UndoubleStep, UndoubleState
    <2>3. next = [i |-> at.i + 2, decoded |-> Append(at.decoded, c)]
      BY <2>1 DEF UndoubleState
    <2>4. QED
      BY <2>2, <2>3
  <1>3. CASE c # "'"
    <2>1. UndoubleStep(input)[at] = [i |-> at.i + 1, decoded |-> Append(at.decoded, c)]
      BY <1>1, <1>3 DEF UndoubleStep, UndoubleState
    <2>2. next.i = at.i + 1
      BY <1>0, <1>3
    <2>3. next = [i |-> at.i + 1, decoded |-> Append(at.decoded, c)]
      BY <2>2 DEF UndoubleState
    <2>4. QED
      BY <2>1, <2>3
  <1>4. QED
    BY <1>2, <1>3

(***************************************************************************)
(* The loop ends behind the last character.                                *)
(***************************************************************************)
LEMMA UndoubleEnds ==
    ASSUME NEW input, NEW at \in UndoubleState, at.i > Len(input)
    PROVE  UndoubleStep(input)[at] = at
  BY DEF UndoubleStep, UndoubleState

(***************************************************************************)
(* The loop of KeyLiteralSql and of the key parameter undoes what          *)
(* QuoteStringLiteral did to the quotes of a value.                        *)
(***************************************************************************)
LEMMA UndoubleDoubled ==
    ASSUME NEW value \in Seq(Characters)
    PROVE  Undouble(FlattenSeq(Doubled(value, "'"))) = value
  <1>. DEFINE ws == Doubled(value, "'")
              n == Len(value)
              input == FlattenSeq(ws)
              step == UndoubleStep(input)
  <1>1. /\ Len(ws) = n /\ n \in Nat /\ ws \in Seq(Seq(Characters))
        /\ \A k \in 0 .. n - 1 : Quoting(ws[k + 1], value[k + 1])
        /\ \A k \in 0 .. n - 1 : Len(ws[k + 1]) >= 1
    BY DoubledWords
  <1>. HIDE DEF ws
  <1>2. PICK end : Ends(ws, input, end)
    BY <1>1, WordsAt
  <1>3. input \in Seq(Characters) /\ Len(input) \in Nat /\ n <= Len(input)
    BY <1>1, WordsAt, WordsFit
  <1>. DEFINE chain == [k \in 0 .. n |-> [i |-> end[k] + 1, decoded |-> SubSeq(value, 1, k)]]
  <1>. HIDE DEF input
  <1>4. ASSUME NEW k \in 0 .. n PROVE chain[k] \in UndoubleState
    <2>1. end[k] \in Nat
      BY <1>1, <1>2 DEF Ends
    <2>2. SubSeq(value, 1, k) \in Seq(Characters)
      BY <1>1
    <2>3. QED
      BY <2>1, <2>2 DEF UndoubleState
  <1>5. ASSUME NEW k \in 0 .. n - 1 PROVE step[chain[k]] = chain[k + 1]
    <2>. DEFINE e == end[k]
                w == ws[k + 1]
                c == value[k + 1]
    <2>1. e \in Nat /\ end[k + 1] = e + Len(w) /\ StandsAt(input, e, w)
      BY <1>1, <1>2, WordAt
    <2>2. k \in 0 .. n /\ k + 1 \in 0 .. n
      BY <1>1
    <2>3. chain[k].i = e + 1 /\ chain[k].decoded = SubSeq(value, 1, k)
      BY <2>2
    <2>4. chain[k + 1].i = end[k + 1] + 1 /\ chain[k + 1].decoded = Append(SubSeq(value, 1, k), c)
      BY <2>2, OneMore
    <2>5. Quoting(w, c)
      BY <1>1
    <2>6. chain[k] \in UndoubleState /\ chain[k + 1] \in UndoubleState
      BY <1>4, <2>2
    <2>. HIDE DEF chain, e, w, c
    <2>7. chain[k + 1].i = e + Len(w) + 1 /\ chain[k + 1].decoded = Append(chain[k].decoded, c)
      BY <2>1, <2>3, <2>4
    <2>8. QED
      BY <1>3, <2>1, <2>3, <2>5, <2>6, <2>7, UndoubleReads
  <1>6. chain[0] = [i |-> 1, decoded |-> <<>>]
    <2>1. end[0] = 0 /\ 0 \in 0 .. n /\ SubSeq(value, 1, 0) = <<>>
      BY <1>1, <1>2 DEF Ends
    <2>2. QED
      BY <2>1
  <1>7. n \in 0 .. n /\ chain[n].i = Len(input) + 1 /\ chain[n].decoded = value
    <2>1. n \in 0 .. n /\ SubSeq(value, 1, n) = value
      BY <1>1, SubSeqFull
    <2>2. end[n] = Len(input)
      BY <1>1, <1>2 DEF Ends
    <2>3. QED
      BY <2>1, <2>2
  <1>. HIDE DEF chain
  <1>8. step[chain[n]] = chain[n]
    <2>1. chain[n].i > Len(input)
      BY <1>3, <1>7
    <2>2. QED
      BY <1>4, <1>7, <2>1, UndoubleEnds
  <1>. HIDE DEF step
  <1>9. Iterate(step, chain[0], Len(input)) = chain[n]
    <2>. DEFINE rounds == Len(input)
    <2>1. rounds \in Nat /\ n \in 0 .. rounds
      BY <1>1, <1>3
    <2>2. \A k \in 0 .. n - 1 : step[chain[k]] = chain[k + 1]
      BY <1>5
    <2>. HIDE DEF n, rounds
    <2>3. Iterate(step, chain[0], rounds) = chain[n]
      BY <1>8, <2>1, <2>2, LoopFollows
    <2>4. QED
      BY <2>3 DEF rounds
  <1>10. Undouble(input) = chain[n].decoded
    BY <1>6, <1>9 DEF Undouble, step
  <1>11. QED
    BY <1>7, <1>10 DEF input, ws

(***************************************************************************)
(* A quoted key is trimmed to itself, and its value is the text that was   *)
(* quoted.                                                                 *)
(***************************************************************************)
LEMMA QuotedKeyValue ==
    ASSUME NEW value \in Seq(Characters)
    PROVE  /\ Trim(QuoteStringLiteral(value)) = QuoteStringLiteral(value)
           /\ KeyValue(QuoteStringLiteral(value)) = value
  <1>. DEFINE key == QuoteStringLiteral(value)
              flat == FlattenSeq(Doubled(value, "'"))
  <1>1. QuotedAs(key, flat)
    BY QuotedParts
  <1>2. Undouble(flat) = value
    BY UndoubleDoubled
  <1>. HIDE DEF key, flat
  <1>3. /\ key \in Seq(Characters) /\ flat \in Seq(Characters) /\ Len(key) = Len(flat) + 2
        /\ key[1] = "'" /\ key[Len(key)] = "'" /\ StandsAt(key, 1, flat)
    BY <1>1 DEF QuotedAs
  <1>4. Len(flat) \in Nat /\ Len(key) > 1
    BY <1>3
  <1>5. Trim(key) = key
    <2>1. Tight(key)
      BY <1>3, <1>4 DEF Tight
    <2>2. QED
      BY <1>3, <2>1, TrimNothing
  <1>6. Inner(key, 2) = flat
    <2>1. SubSeq(key, 1 + 1, 1 + Len(flat)) = flat
      BY <1>3, CutOut
    <2>2. 1 + 1 = 2 /\ 1 + Len(flat) = Len(key) - 1
      BY <1>3, <1>4
    <2>3. QED
      BY <2>1, <2>2 DEF Inner
  <1>7. KeyValue(key) = value
    BY <1>2, <1>3, <1>4, <1>6, Zenon DEF KeyValue
  <1>8. QED
    BY <1>5, <1>7 DEF key

-----------------------------------------------------------------------------
(* The way of a key.                                                       *)

(***************************************************************************)
(* A key value that the header writes as it is: the text of a number, a    *)
(* date or another type that is not string-like.                           *)
(***************************************************************************)
Bare(value) == Tight(value) /\ \A j \in 1 .. Len(value) : value[j] \notin {"'", ")"}

(***************************************************************************)
(* The Location header of a POST leads back to the entity that the POST    *)
(* inserted: percent-decoded and routed by the server that the client      *)
(* sends it to, it names the same entity set and one valid key, whose      *)
(* value is the stored one.  This holds for every text under a string      *)
(* key, with any quotes, parentheses, slashes, blanks and percent signs,   *)
(* and for every value of another type: those have no quotes and closing   *)
(* parentheses, and no blanks around them.                                 *)
(***************************************************************************)
THEOREM LocationLeadsBack ==
    ASSUME NEW entity \in Seq(Characters), \A j \in 1 .. Len(entity) : entity[j] \notin {"(", "/"},
           NEW value \in Seq(Characters), NEW is_string \in BOOLEAN,
           is_string \/ Bare(value)
    PROVE  LeadsBack(entity, value, is_string)
  <1>. DEFINE key == IF is_string THEN QuoteStringLiteral(value) ELSE value
              path == entity \o <<"(">> \o key \o <<")">>
  <1>1. key \in Seq(Characters) /\ Len(key) > 0 /\ Trim(key) = key /\ KeyValue(key) = value
    <2>1. CASE is_string
      <3>. DEFINE quoted == QuoteStringLiteral(value)
      <3>1. Trim(quoted) = quoted /\ KeyValue(quoted) = value
        BY QuotedKeyValue
      <3>2. QuotedAs(quoted, FlattenSeq(Doubled(value, "'")))
        BY QuotedParts
      <3>. HIDE DEF quoted
      <3>3. quoted \in Seq(Characters) /\ Len(quoted) > 0
        <4>. DEFINE flat == FlattenSeq(Doubled(value, "'"))
        <4>. HIDE DEF flat
        <4>1. quoted \in Seq(Characters) /\ flat \in Seq(Characters) /\ Len(quoted) = Len(flat) + 2
          BY <3>2 DEF QuotedAs, flat
        <4>2. QED
          BY <4>1
      <3>4. key = quoted
        BY <2>1, Zenon DEF quoted
      <3>5. QED
        BY <3>1, <3>3, <3>4
    <2>2. CASE ~is_string
      <3>1. key = value
        BY <2>2, Zenon
      <3>2. Bare(value)
        BY <2>2
      <3>3. Tight(value) /\ Len(value) > 0
        BY <3>2, Zenon DEF Bare, Tight
      <3>4. Trim(value) = value
        BY <3>3, TrimNothing
      <3>5. KeyValue(value) = value
        <4>1. 1 \in 1 .. Len(value)
          BY <3>3
        <4>2. value[1] # "'"
          BY <3>2, <4>1, Zenon DEF Bare
        <4>3. QED
          BY <4>2, Zenon DEF KeyValue
      <3>. HIDE DEF key
      <3>6. QED
        BY <3>1, <3>3, <3>4, <3>5
    <2>3. QED
      BY <2>1, <2>2
  <1>2. UrlDecode(Location(entity, value, is_string)) = path
    <2>1. Location(entity, value, is_string) = EncodePath(entity) \o <<"(">> \o EncodePath(key) \o <<")">>
      BY DEF Location
    <2>. HIDE DEF key
    <2>2. QED
      BY <1>1, <2>1, LocationDecodes
  <1>3. PathOf(path, entity, key)
    <2>. HIDE DEF key
    <2>1. QED
      BY <1>1, PathParts
  <1>. HIDE DEF path
  <1>4. CloseParen(path, Len(entity) + 2) = Len(path)
    <2>1. CASE is_string
      <3>1. key = QuoteStringLiteral(value)
        BY <2>1, Zenon
      <3>. HIDE DEF key
      <3>2. QED
        BY <1>3, <3>1, CloseOfQuoted
    <2>2. CASE ~is_string
      <3>1. key = value
        BY <2>2, Zenon
      <3>. HIDE DEF key
      <3>2. \A j \in 1 .. Len(key) : key[j] \notin {"'", ")"}
        BY <2>2, <3>1, Zenon DEF Bare
      <3>3. QED
        BY <1>3, <3>2, CloseOfPlain
    <2>3. QED
      BY <2>1, <2>2
  <1>. HIDE DEF key
  <1>5. ParseRoute(path) = Route(entity, <<key>>, FALSE)
    BY <1>1, <1>3, <1>4, RouteOfPath
  <1>. DEFINE route == Route(entity, <<key>>, FALSE)
  <1>6. /\ route.entity = entity /\ ~route.invalid_key
        /\ Len(route.keys) = 1 /\ route.keys[1] = key
    BY DEF Route
  <1>. HIDE DEF route
  <1>7. ParseRoute(UrlDecode(Location(entity, value, is_string))) = route
    BY <1>2, <1>5 DEF route
  <1>8. QED
    BY <1>1, <1>6, <1>7, Zenon DEF LeadsBack

-----------------------------------------------------------------------------
(* What the serializer writes are texts.                                   *)

(***************************************************************************)
(* The two tables of escapes.                                              *)
(***************************************************************************)
LEMMA EscapeTables ==
    /\ \A c \in DOMAIN Short : c \in Characters /\ Short[c] \in Characters /\ Short[c] # "u"
    /\ \A c, d \in DOMAIN Short : Short[c] = Short[d] => c = d
    /\ \A c \in DOMAIN Control : /\ c \in Characters /\ Control[c] = <<Control[c][1], Control[c][2]>>
                                 /\ Control[c][1] \in Characters /\ Control[c][2] \in Characters
    /\ \A c, d \in DOMAIN Control : Control[c] = Control[d] => c = d
    /\ \A c \in DOMAIN Control : c \notin DOMAIN Short
  <1>1. DOMAIN Short = {"\"", "\\", "backspace", "formfeed", "newline", "return", "tab"}
    BY DEF Short
  <1>2. DOMAIN Control = {"bell", "unit"}
    BY DEF Control
  <1>3. /\ Short["\""] = "\"" /\ Short["\\"] = "\\" /\ Short["backspace"] = "b" /\ Short["formfeed"] = "f"
        /\ Short["newline"] = "n" /\ Short["return"] = "r" /\ Short["tab"] = "t"
    BY DEF Short
  <1>4. Control["bell"] = <<"0", "7">> /\ Control["unit"] = <<"1", "f">>
    BY DEF Control
  <1>5. /\ {"\"", "\\", "backspace", "formfeed", "newline", "return", "tab", "bell", "unit"} \subseteq Characters
        /\ {"b", "f", "n", "r", "t", "u", "1"} \subseteq Characters /\ "0" \in Characters /\ "7" \in Characters
    BY CharactersAssumption
  <1>6. \A c \in DOMAIN Short : c \in Characters /\ Short[c] \in Characters /\ Short[c] # "u"
    BY <1>1, <1>3, <1>5
  <1>7. \A c, d \in DOMAIN Short : Short[c] = Short[d] => c = d
    BY <1>1, <1>3
  <1>8. ASSUME NEW c \in DOMAIN Control
        PROVE  /\ c \in Characters /\ Control[c] = <<Control[c][1], Control[c][2]>>
               /\ Control[c][1] \in Characters /\ Control[c][2] \in Characters
    <2>1. CASE c = "bell"
      <3>1. Control[c] = <<"0", "7">>
        BY <1>4, <2>1, Zenon
      <3>2. Control[c][1] = "0" /\ Control[c][2] = "7"
        BY <3>1
      <3>3. c \in Characters /\ "0" \in Characters /\ "7" \in Characters
        BY <1>5, <2>1
      <3>4. QED
        BY <3>1, <3>2, <3>3, Zenon
    <2>2. CASE c = "unit"
      <3>1. Control[c] = <<"1", "f">>
        BY <1>4, <2>2, Zenon
      <3>2. Control[c][1] = "1" /\ Control[c][2] = "f"
        BY <3>1
      <3>3. c \in Characters /\ "1" \in Characters /\ "f" \in Characters
        BY <1>5, <2>2
      <3>4. QED
        BY <3>1, <3>2, <3>3, Zenon
    <2>3. QED
      BY <1>2, <2>1, <2>2
  <1>9. \A c, d \in DOMAIN Control : Control[c] = Control[d] => c = d
    <2>1. Control["bell"][1] = "0" /\ Control["unit"][1] = "1"
      BY <1>4
    <2>2. Control["bell"] # Control["unit"]
      BY <2>1
    <2>3. QED
      BY <1>2, <2>2
  <1>10. \A c \in DOMAIN Control : c \notin DOMAIN Short
    BY <1>1, <1>2
  <1>11. QED
    BY <1>6, <1>7, <1>8, <1>9, <1>10

(***************************************************************************)
(* The word of a character in a JSON string, by kind of character.         *)
(***************************************************************************)
LEMMA EscapedWord ==
    ASSUME NEW c \in Characters
    PROVE  /\ Escaped(c) \in Seq(Characters) /\ Len(Escaped(c)) >= 1
           /\ c \in DOMAIN Short => Escaped(c) = <<"\\", Short[c]>>
           /\ c \in DOMAIN Control => Escaped(c) = <<"\\", "u", "0", "0", Control[c][1], Control[c][2]>>
           /\ c \notin DOMAIN Short \cup DOMAIN Control => Escaped(c) = <<c>>
  <1>0. "\\" \in Characters /\ "u" \in Characters /\ "0" \in Characters
    BY CharactersAssumption
  <1>1. CASE c \in DOMAIN Short
    <2>1. Escaped(c) = <<"\\", Short[c]>> /\ c \notin DOMAIN Control
      BY <1>1, EscapeTables DEF Escaped
    <2>2. Short[c] \in Characters
      BY <1>1, EscapeTables
    <2>3. <<"\\", Short[c]>> \in Seq(Characters) /\ Len(<<"\\", Short[c]>>) >= 1
      BY <1>0, <2>2
    <2>4. QED
      BY <1>1, <2>1, <2>3
  <1>2. CASE c \in DOMAIN Control
    <2>. DEFINE x == Control[c][1]
                y == Control[c][2]
    <2>1. Control[c] = <<x, y>> /\ x \in Characters /\ y \in Characters /\ c \notin DOMAIN Short
      BY <1>2, EscapeTables
    <2>2. Escaped(c) = <<"\\", "u", "0", "0">> \o Control[c]
      BY <1>2, <2>1 DEF Escaped
    <2>. HIDE DEF x, y
    <2>. DEFINE u == <<"\\", "u", "0", "0">>
                v == <<x, y>>
                uv == u \o v
                w == <<"\\", "u", "0", "0", x, y>>
    <2>3. /\ u \in Seq(Characters) /\ Len(u) = 4 /\ u[1] = "\\" /\ u[2] = "u" /\ u[3] = "0" /\ u[4] = "0"
          /\ v \in Seq(Characters) /\ Len(v) = 2 /\ v[1] = x /\ v[2] = y
      BY <1>0, <2>1
    <2>4. /\ w \in Seq(Characters) /\ Len(w) = 6 /\ w[1] = "\\" /\ w[2] = "u" /\ w[3] = "0" /\ w[4] = "0"
          /\ w[5] = x /\ w[6] = y
      BY <1>0, <2>1
    <2>. HIDE DEF u, v, w
    <2>5. /\ uv \in Seq(Characters) /\ Len(uv) = Len(u) + Len(v)
          /\ \A j \in 1 .. Len(u) : uv[j] = u[j]
          /\ \A j \in 1 .. Len(v) : uv[Len(u) + j] = v[j]
      <3>1. u \in Seq(Characters) /\ v \in Seq(Characters)
        BY <2>3
      <3>2. QED
        BY <3>1, ConcatParts
    <2>. HIDE DEF uv
    <2>6. Len(u) = 4 /\ Len(v) = 2
      BY <2>3
    <2>7. /\ Len(uv) = 6 /\ uv[1] = u[1] /\ uv[2] = u[2] /\ uv[3] = u[3] /\ uv[4] = u[4]
          /\ uv[4 + 1] = v[1] /\ uv[4 + 2] = v[2]
      BY <2>5, <2>6
    <2>8. \A k \in 1 .. Len(uv) : uv[k] = w[k]
      BY <2>3, <2>4, <2>7
    <2>9. uv = w
      BY <2>4, <2>5, <2>7, <2>8, SeqEqual
    <2>10. Escaped(c) = w
      BY <2>1, <2>2, <2>9, Zenon DEF u, v, uv
    <2>11. Escaped(c) \in Seq(Characters) /\ Len(Escaped(c)) >= 1
      <3>1. w \in Seq(Characters) /\ Len(w) >= 1
        BY <2>4
      <3>2. QED
        BY <2>10, <3>1, Zenon
    <2>12. Escaped(c) = <<"\\", "u", "0", "0", Control[c][1], Control[c][2]>>
      BY <2>10, Zenon DEF w, x, y
    <2>13. QED
      BY <1>2, <2>1, <2>11, <2>12, Zenon
  <1>3. CASE c \notin DOMAIN Short \cup DOMAIN Control
    <2>1. Escaped(c) = <<c>>
      BY <1>3 DEF Escaped
    <2>2. <<c>> \in Seq(Characters) /\ Len(<<c>>) >= 1
      OBVIOUS
    <2>3. QED
      BY <1>3, <2>1, <2>2
  <1>4. QED
    BY <1>1, <1>2, <1>3

(***************************************************************************)
(* The words of an escaped text.                                           *)
(***************************************************************************)
EscapedWords(value) == [i \in 1 .. Len(value) |-> Escaped(value[i])]

(***************************************************************************)
(* JsonEscape writes them one behind the other.                            *)
(***************************************************************************)
LEMMA EscapedText ==
    ASSUME NEW value \in Seq(Characters)
    PROVE  /\ EscapedWords(value) \in Seq(Seq(Characters)) /\ Len(EscapedWords(value)) = Len(value)
           /\ \A k \in 0 .. Len(value) - 1 : EscapedWords(value)[k + 1] = Escaped(value[k + 1])
           /\ JsonEscape(value) = FlattenSeq(EscapedWords(value)) /\ JsonEscape(value) \in Seq(Characters)
  <1>1. \A i \in 1 .. Len(value) : value[i] \in Characters
    OBVIOUS
  <1>2. EscapedWords(value) \in Seq(Seq(Characters)) /\ Len(EscapedWords(value)) = Len(value)
    <2>1. \A i \in 1 .. Len(value) : Escaped(value[i]) \in Seq(Characters)
      BY <1>1, EscapedWord
    <2>2. Len(value) \in Nat
      OBVIOUS
    <2>3. QED
      BY <2>1, <2>2 DEF EscapedWords
  <1>3. ASSUME NEW k \in 0 .. Len(value) - 1 PROVE EscapedWords(value)[k + 1] = Escaped(value[k + 1])
    <2>1. k + 1 \in 1 .. Len(value)
      OBVIOUS
    <2>2. QED
      BY <2>1 DEF EscapedWords
  <1>4. JsonEscape(value) = FlattenSeq(EscapedWords(value))
    BY Zenon DEF JsonEscape, EscapedWords
  <1>5. FlattenSeq(EscapedWords(value)) \in Seq(Characters)
    BY <1>2, WordsAt
  <1>6. QED
    BY <1>2, <1>3, <1>4, <1>5

-----------------------------------------------------------------------------
(* What a JSON reader reads from a string.                                 *)

IsQuote(c) == c = "\""

StringState == [i : Nat, text : Seq(Characters), closed : BOOLEAN]

(***************************************************************************)
(* The rounds of the reader: a character that stands for itself,           *)
(***************************************************************************)
LEMMA StringPlain ==
    ASSUME NEW s \in Seq(Characters), NEW at \in StringState, NEW next \in StringState, NEW c,
           c \notin DOMAIN Short \cup DOMAIN Control, at.i <= Len(s), s[at.i] = c,
           at.closed = FALSE, next.closed = FALSE, next.i = at.i + 1, next.text = Append(at.text, c)
    PROVE  StringStep(s)[at] = next
  <1>1. c # "\"" /\ c # "\\"
    BY DEF Short
  <1>2. ~at.closed /\ ~(at.i > Len(s))
    BY DEF StringState
  <1>3. StringStep(s)[at] = [at EXCEPT !.i = at.i + 1, !.text = Append(at.text, c)]
    BY <1>1, <1>2 DEF StringStep, StringState
  <1>4. next = [at EXCEPT !.i = at.i + 1, !.text = Append(at.text, c)]
    BY DEF StringState
  <1>5. QED
    BY <1>3, <1>4

(***************************************************************************)
(* a short escape, which is no other's,                                    *)
(***************************************************************************)
LEMMA StringShort ==
    ASSUME NEW s \in Seq(Characters), NEW at \in StringState, NEW next \in StringState, NEW c \in DOMAIN Short,
           at.i < Len(s), s[at.i] = "\\", s[at.i + 1] = Short[c],
           at.closed = FALSE, next.closed = FALSE, next.i = at.i + 2, next.text = Append(at.text, c)
    PROVE  StringStep(s)[at] = next
  <1>. DEFINE Shorts == {d \in DOMAIN Short : at.i < Len(s) /\ Short[d] = s[at.i + 1]}
  <1>1. ~at.closed /\ ~(at.i > Len(s))
    BY DEF StringState
  <1>2. Shorts = {c}
    BY EscapeTables
  <1>3. StringStep(s)[at] =
            [at EXCEPT !.i = at.i + 2, !.text = Append(at.text, CHOOSE d \in Shorts : TRUE)]
    <2>1. Shorts # {} /\ s[at.i] # "\""
      BY <1>2
    <2>2. QED
      BY <1>1, <2>1 DEF StringStep, StringState
  <1>. HIDE DEF Shorts
  <1>4. (CHOOSE d \in Shorts : TRUE) = c
    BY <1>2
  <1>5. StringStep(s)[at] = [at EXCEPT !.i = at.i + 2, !.text = Append(at.text, c)]
    BY <1>3, <1>4, Zenon
  <1>6. next = [at EXCEPT !.i = at.i + 2, !.text = Append(at.text, c)]
    BY DEF StringState
  <1>7. QED
    BY <1>5, <1>6

(***************************************************************************)
(* the code of a control character, which is no short escape and no        *)
(* other's code,                                                           *)
(***************************************************************************)
LEMMA StringControl ==
    ASSUME NEW s \in Seq(Characters), NEW at \in StringState, NEW next \in StringState, NEW c \in DOMAIN Control,
           at.i + 5 <= Len(s), s[at.i] = "\\", s[at.i + 1] = "u", s[at.i + 2] = "0", s[at.i + 3] = "0",
           SubSeq(s, at.i + 4, at.i + 5) = Control[c],
           at.closed = FALSE, next.closed = FALSE, next.i = at.i + 6, next.text = Append(at.text, c)
    PROVE  StringStep(s)[at] = next
  <1>. DEFINE Shorts == {d \in DOMAIN Short : at.i < Len(s) /\ Short[d] = s[at.i + 1]}
              Controls == {d \in DOMAIN Control :
                              /\ at.i + 5 <= Len(s) /\ s[at.i + 1] = "u" /\ s[at.i + 2] = "0" /\ s[at.i + 3] = "0"
                              /\ SubSeq(s, at.i + 4, at.i + 5) = Control[d]}
  <1>a. at.i \in Nat /\ Len(s) \in Nat
    BY DEF StringState
  <1>b. ~(at.i > Len(s))
    BY <1>a
  <1>1. ~at.closed /\ ~(at.i > Len(s))
    BY <1>b, Zenon
  <1>2. Shorts = {}
    BY EscapeTables
  <1>3. Controls = {c}
    BY EscapeTables, Zenon
  <1>4. StringStep(s)[at] =
            IF at.closed \/ at.i > Len(s) THEN at
            ELSE IF s[at.i] = "\"" THEN [at EXCEPT !.i = at.i + 1, !.closed = TRUE]
            ELSE IF s[at.i] = "\\" /\ Shorts # {}
            THEN [at EXCEPT !.i = at.i + 2, !.text = Append(at.text, CHOOSE d \in Shorts : TRUE)]
            ELSE IF s[at.i] = "\\" /\ Controls # {}
            THEN [at EXCEPT !.i = at.i + 6, !.text = Append(at.text, CHOOSE d \in Controls : TRUE)]
            ELSE IF s[at.i] \in DOMAIN Control \cup DOMAIN Short THEN [at EXCEPT !.i = Len(s) + 1]
            ELSE [at EXCEPT !.i = at.i + 1, !.text = Append(at.text, s[at.i])]
    BY DEF StringStep, StringState
  <1>. HIDE DEF Shorts, Controls
  <1>5. (CHOOSE d \in Controls : TRUE) = c /\ Controls # {}
    BY <1>3
  <1>6. s[at.i] # "\""
    OBVIOUS
  <1>7. StringStep(s)[at] = [at EXCEPT !.i = at.i + 6, !.text = Append(at.text, c)]
    BY <1>1, <1>2, <1>4, <1>5, <1>6, Zenon
  <1>8. next = [at EXCEPT !.i = at.i + 6, !.text = Append(at.text, c)]
    BY DEF StringState
  <1>9. QED
    BY <1>7, <1>8

(***************************************************************************)
(* the closing quote,                                                      *)
(***************************************************************************)
LEMMA StringCloses ==
    ASSUME NEW s \in Seq(Characters), NEW at \in StringState, NEW next \in StringState,
           at.i <= Len(s), IsQuote(s[at.i]), at.closed = FALSE,
           next.closed = TRUE, next.i = at.i + 1, next.text = at.text
    PROVE  StringStep(s)[at] = next
  <1>a. at.i \in Nat /\ Len(s) \in Nat
    BY DEF StringState
  <1>b. ~(at.i > Len(s))
    BY <1>a
  <1>1. ~at.closed /\ ~(at.i > Len(s))
    BY <1>b, Zenon
  <1>2. StringStep(s)[at] = [at EXCEPT !.i = at.i + 1, !.closed = TRUE]
    BY <1>1, Zenon DEF StringStep, StringState, IsQuote
  <1>3. StringStep(s)[at] = [at EXCEPT !.i = next.i, !.closed = next.closed]
    BY <1>2, Zenon
  <1>4. next = [at EXCEPT !.i = next.i, !.closed = next.closed]
    BY DEF StringState
  <1>5. QED
    BY <1>3, <1>4

(***************************************************************************)
(* and no round more.                                                      *)
(***************************************************************************)
LEMMA StringStays ==
    ASSUME NEW s, NEW at \in StringState, at.closed = TRUE
    PROVE  StringStep(s)[at] = at
  BY DEF StringStep, StringState

(***************************************************************************)
(* A round reads the word of one character.                                *)
(***************************************************************************)
LEMMA StringReads ==
    ASSUME NEW s \in Seq(Characters), NEW at \in StringState, NEW next \in StringState, NEW e \in Nat,
           NEW c \in Characters, NEW w, w = Escaped(c), StandsAt(s, e, w), at.i = e + 1, at.closed = FALSE,
           next.i = e + Len(w) + 1, next.closed = FALSE, next.text = Append(at.text, c)
    PROVE  StringStep(s)[at] = next
  <1>1. /\ c \in DOMAIN Short => w = <<"\\", Short[c]>>
        /\ c \in DOMAIN Control => w = <<"\\", "u", "0", "0", Control[c][1], Control[c][2]>>
        /\ c \notin DOMAIN Short \cup DOMAIN Control => w = <<c>>
    BY EscapedWord, Zenon
  <1>2. Len(s) \in Nat
    OBVIOUS
  <1>3. CASE c \notin DOMAIN Short \cup DOMAIN Control
    <2>1. w = <<c>>
      BY <1>1, <1>3, Zenon
    <2>2. Len(w) = 1 /\ w[1] = c
      BY <2>1
    <2>3. s[e + 1] = c /\ e + 1 <= Len(s)
      BY <2>2 DEF StandsAt
    <2>4. s[at.i] = c /\ at.i <= Len(s) /\ next.i = at.i + 1
      BY <2>2, <2>3
    <2>5. QED
      BY <1>3, <2>4, StringPlain
  <1>4. CASE c \in DOMAIN Short
    <2>1. w = <<"\\", Short[c]>>
      BY <1>1, <1>4, Zenon
    <2>2. Len(w) = 2 /\ w[1] = "\\" /\ w[2] = Short[c]
      BY <2>1
    <2>3. s[e + 1] = w[1] /\ s[e + 2] = w[2] /\ e + 2 <= Len(s)
      BY <2>2 DEF StandsAt
    <2>4. at.i + 1 = e + 2 /\ at.i < Len(s) /\ next.i = at.i + 2
      BY <1>2, <2>2, <2>3
    <2>5. s[at.i] = "\\" /\ s[at.i + 1] = Short[c]
      BY <2>2, <2>3, <2>4, Zenon
    <2>6. QED
      BY <1>4, <2>4, <2>5, StringShort
  <1>5. CASE c \in DOMAIN Control
    <2>1. w = <<"\\", "u", "0", "0", Control[c][1], Control[c][2]>>
      BY <1>1, <1>5, Zenon
    <2>2. /\ Len(w) = 6 /\ w[1] = "\\" /\ w[2] = "u" /\ w[3] = "0" /\ w[4] = "0"
          /\ w[5] = Control[c][1] /\ w[6] = Control[c][2]
      BY <2>1
    <2>3. /\ s[e + 1] = w[1] /\ s[e + 2] = w[2] /\ s[e + 3] = w[3] /\ s[e + 4] = w[4]
          /\ s[e + 5] = w[5] /\ s[e + 6] = w[6] /\ e + 6 <= Len(s)
      <3>1. Len(w) = 6
        BY <2>2
      <3>2. QED
        BY <3>1 DEF StandsAt
    <2>4. /\ at.i + 1 = e + 2 /\ at.i + 2 = e + 3 /\ at.i + 3 = e + 4 /\ at.i + 4 = e + 5 /\ at.i + 5 = e + 6
          /\ next.i = at.i + 6
      <3>1. Len(w) = 6
        BY <2>2
      <3>2. QED
        BY <3>1
    <2>5. at.i + 5 <= Len(s) /\ e + 5 \in 1 .. Len(s) - 1 /\ (e + 5) + 1 = e + 6
      BY <1>2, <2>3, <2>4
    <2>6. s[at.i] = "\\" /\ s[at.i + 1] = "u" /\ s[at.i + 2] = "0" /\ s[at.i + 3] = "0"
      BY <2>2, <2>3, <2>4, Zenon
    <2>7. SubSeq(s, e + 5, e + 6) = <<s[e + 5], s[e + 6]>>
      BY <2>5, PairOf
    <2>8. SubSeq(s, at.i + 4, at.i + 5) = Control[c]
      <3>1. Control[c] = <<Control[c][1], Control[c][2]>>
        BY <1>5, EscapeTables, Zenon
      <3>2. QED
        BY <2>2, <2>3, <2>4, <2>7, <3>1, Zenon
    <2>9. QED
      BY <1>5, <2>4, <2>5, <2>6, <2>8, StringControl
  <1>6. QED
    BY <1>3, <1>4, <1>5

(***************************************************************************)
(* The quote around a JSON string.                                         *)
(***************************************************************************)
LEMMA QuoteText ==
    <<"\"">> \in Seq(Characters) /\ Len(<<"\"">>) = 1 /\ IsQuote(<<"\"">>[1])
  <1>. DEFINE c == "\""
              q == <<c>>
  <1>1. c \in Characters
    BY CharactersAssumption, Zenon
  <1>2. IsQuote(c)
    BY DEF IsQuote
  <1>. HIDE DEF c
  <1>3. q \in Seq(Characters) /\ Len(q) = 1 /\ IsQuote(q[1])
    BY <1>1, <1>2
  <1>. HIDE DEF q
  <1>4. QED
    BY <1>3, Zenon DEF q, c

(***************************************************************************)
(* The parts of a JSON string.                                             *)
(***************************************************************************)
LEMMA JsonStringParts ==
    ASSUME NEW value \in Seq(Characters)
    PROVE  /\ JsonString(value) \in Seq(Characters) /\ Len(JsonString(value)) = Len(JsonEscape(value)) + 2
           /\ IsQuote(JsonString(value)[1]) /\ IsQuote(JsonString(value)[Len(JsonEscape(value)) + 2])
           /\ StandsAt(JsonString(value), 1, JsonEscape(value))
  <1>. DEFINE q == <<"\"">>
              flat == JsonEscape(value)
              qf == q \o flat
              key == qf \o q
  <1>1. q \in Seq(Characters) /\ Len(q) = 1 /\ IsQuote(q[1])
    BY QuoteText
  <1>2. flat \in Seq(Characters)
    BY EscapedText
  <1>. HIDE DEF q, flat
  <1>3. /\ qf \in Seq(Characters) /\ Len(qf) = Len(q) + Len(flat) /\ Len(flat) \in Nat
        /\ \A j \in 1 .. Len(q) : qf[j] = q[j]
        /\ \A j \in 1 .. Len(flat) : qf[Len(q) + j] = flat[j]
    <2>1. q \in Seq(Characters) /\ flat \in Seq(Characters)
      BY <1>1, <1>2
    <2>2. QED
      BY <2>1, ConcatParts
  <1>. HIDE DEF qf
  <1>4. /\ key \in Seq(Characters) /\ Len(key) = Len(qf) + Len(q)
        /\ \A j \in 1 .. Len(qf) : key[j] = qf[j]
        /\ \A j \in 1 .. Len(q) : key[Len(qf) + j] = q[j]
    <2>1. qf \in Seq(Characters) /\ q \in Seq(Characters)
      BY <1>1, <1>3
    <2>2. QED
      BY <2>1, ConcatParts
  <1>. HIDE DEF key
  <1>5. Len(qf) = 1 + Len(flat) /\ Len(key) = Len(flat) + 2 /\ Len(qf) + 1 = Len(flat) + 2
    BY <1>1, <1>3, <1>4
  <1>6. IsQuote(key[1]) /\ IsQuote(key[Len(flat) + 2])
    <2>1. 1 \in 1 .. Len(q) /\ 1 \in 1 .. Len(qf)
      BY <1>1, <1>3, <1>5
    <2>2. key[1] = q[1] /\ key[Len(qf) + 1] = q[1]
      BY <1>3, <1>4, <2>1
    <2>3. QED
      BY <1>1, <1>5, <2>2
  <1>7. StandsAt(key, 1, flat)
    <2>1. ASSUME NEW j \in 1 .. Len(flat) PROVE key[1 + j] = flat[j]
      <3>1. 1 + j \in 1 .. Len(qf)
        BY <1>3, <1>5
      <3>2. QED
        BY <1>1, <1>3, <1>4, <3>1
    <2>2. QED
      BY <1>3, <1>5, <2>1 DEF StandsAt
  <1>8. JsonString(value) = key
    BY Zenon DEF JsonString, key, qf, q, flat
  <1>9. QED
    BY <1>4, <1>5, <1>6, <1>7, <1>8, Zenon DEF flat

(***************************************************************************)
(* What stands in a text that stands in a text.                            *)
(***************************************************************************)
LEMMA StandsWithin ==
    ASSUME NEW t, NEW u, NEW w, NEW e \in Nat, NEW f \in Nat, StandsAt(t, e, u), StandsAt(u, f, w),
           Len(t) \in Nat, Len(u) \in Nat, Len(w) \in Nat
    PROVE  StandsAt(t, e + f, w)
  <1>1. e + Len(u) <= Len(t) /\ f + Len(w) <= Len(u)
    BY DEF StandsAt
  <1>2. ASSUME NEW j \in 1 .. Len(w) PROVE t[(e + f) + j] = w[j]
    <2>1. f + j \in 1 .. Len(u) /\ e + (f + j) = (e + f) + j
      BY <1>1
    <2>2. t[e + (f + j)] = u[f + j] /\ u[f + j] = w[j]
      BY <2>1 DEF StandsAt
    <2>3. QED
      BY <2>1, <2>2, Zenon
  <1>3. (e + f) + Len(w) <= Len(t)
    BY <1>1
  <1>4. QED
    BY <1>2, <1>3 DEF StandsAt

(***************************************************************************)
(* JsonEscape: a JSON reader that comes upon a string of the document, at  *)
(* whatever place, reads exactly the text that was written, whatever       *)
(* characters are in it, and goes on behind the closing quote.             *)
(***************************************************************************)
THEOREM JsonStringReadsBack ==
    ASSUME NEW s \in Seq(Characters), NEW e \in Nat, NEW value \in Seq(Characters), StandsAt(s, e, JsonString(value))
    PROVE  ReadString(s, e + 2) = {[next |-> e + Len(JsonString(value)) + 1, quoted |-> TRUE, text |-> value]}
  <1>. DEFINE ws == EscapedWords(value)
              n == Len(value)
              flat == FlattenSeq(ws)
              json == JsonString(value)
              step == StringStep(s)
  <1>1. /\ ws \in Seq(Seq(Characters)) /\ Len(ws) = n /\ n \in Nat
        /\ \A k \in 0 .. n - 1 : ws[k + 1] = Escaped(value[k + 1])
        /\ JsonEscape(value) = flat
    BY EscapedText
  <1>2. /\ \A k \in 0 .. n - 1 : value[k + 1] \in Characters
        /\ \A k \in 0 .. n - 1 : ws[k + 1] \in Seq(Characters) /\ Len(ws[k + 1]) \in Nat /\ Len(ws[k + 1]) >= 1
    <2>1. \A k \in 0 .. n - 1 : value[k + 1] \in Characters
      OBVIOUS
    <2>. HIDE DEF ws, n
    <2>2. ASSUME NEW k \in 0 .. n - 1
          PROVE ws[k + 1] \in Seq(Characters) /\ Len(ws[k + 1]) \in Nat /\ Len(ws[k + 1]) >= 1
      <3>1. Escaped(value[k + 1]) \in Seq(Characters) /\ Len(Escaped(value[k + 1])) >= 1
        BY <2>1, EscapedWord
      <3>2. ws[k + 1] \in Seq(Characters) /\ Len(ws[k + 1]) >= 1
        BY <1>1, <3>1, Zenon
      <3>3. QED
        BY <3>2
    <2>3. QED
      BY <2>1, <2>2
  <1>. HIDE DEF ws
  <1>3. flat \in Seq(Characters) /\ Len(flat) \in Nat /\ n <= Len(flat)
    <2>1. flat \in Seq(Characters)
      BY <1>1, WordsAt
    <2>2. Len(flat) \in Nat
      BY <2>1
    <2>. HIDE DEF n
    <2>3. \A k \in 0 .. Len(ws) - 1 : Len(ws[k + 1]) >= 1
      BY <1>1, <1>2, Zenon
    <2>4. Len(ws) <= Len(flat)
      BY <1>1, <2>3, WordsFit, Zenon
    <2>5. QED
      BY <1>1, <2>1, <2>2, <2>4, Zenon
  <1>4. PICK end : Ends(ws, flat, end)
    BY <1>1, WordsAt
  <1>5. /\ json \in Seq(Characters) /\ Len(json) = Len(flat) + 2 /\ Len(json) \in Nat
        /\ IsQuote(json[Len(flat) + 2]) /\ StandsAt(json, 1, flat)
    <2>1. /\ json \in Seq(Characters) /\ Len(json) = Len(flat) + 2
          /\ IsQuote(json[Len(flat) + 2]) /\ StandsAt(json, 1, flat)
      BY <1>1, JsonStringParts, Zenon
    <2>2. QED
      BY <2>1
  <1>6. Len(s) \in Nat
    OBVIOUS
  <1>. HIDE DEF flat, json
  <1>7. e + Len(flat) + 2 <= Len(s) /\ IsQuote(s[e + Len(flat) + 2])
    <2>1. e + Len(json) <= Len(s) /\ s[e + (Len(flat) + 2)] = json[Len(flat) + 2]
      <3>1. Len(flat) + 2 \in 1 .. Len(json)
        BY <1>3, <1>5
      <3>2. QED
        BY <3>1 DEF StandsAt, json
    <2>2. e + (Len(flat) + 2) = e + Len(flat) + 2 /\ e + Len(flat) + 2 <= Len(s)
      BY <1>3, <1>5, <1>6, <2>1
    <2>3. QED
      BY <1>5, <2>1, <2>2, Zenon
  <1>8. StandsAt(s, e + 1, flat)
    BY <1>3, <1>5, <1>6, StandsWithin DEF json
  <1>. DEFINE Open(k) == [i |-> e + 2 + end[k], text |-> SubSeq(value, 1, k), closed |-> FALSE]
              Closed == [i |-> e + 3 + Len(flat), text |-> value, closed |-> TRUE]
              chain == [k \in 0 .. n + 1 |-> IF k <= n THEN Open(k) ELSE Closed]
  <1>c. chain[n + 1] = Closed /\ \A k \in 0 .. n : chain[k] = Open(k)
    <2>. HIDE DEF Open, Closed
    <2>1. n + 1 \in 0 .. n + 1 /\ ~(n + 1 <= n) /\ \A k \in 0 .. n : k \in 0 .. n + 1 /\ k <= n
      BY <1>1
    <2>2. QED
      BY <2>1, Zenon
  <1>. HIDE DEF chain
  <1>9. \A k \in 0 .. n : /\ chain[k].i = e + 2 + end[k] /\ chain[k].text = SubSeq(value, 1, k)
                          /\ chain[k].closed = FALSE
    <2>1. ASSUME NEW k \in 0 .. n
          PROVE  Open(k).i = e + 2 + end[k] /\ Open(k).text = SubSeq(value, 1, k) /\ Open(k).closed = FALSE
      BY Zenon
    <2>2. QED
      BY <1>c, <2>1, Zenon
  <1>10. chain[n + 1].i = e + 3 + Len(flat) /\ chain[n + 1].text = value /\ chain[n + 1].closed = TRUE
    <2>1. Closed.i = e + 3 + Len(flat) /\ Closed.text = value /\ Closed.closed = TRUE
      OBVIOUS
    <2>. HIDE DEF Closed
    <2>2. QED
      BY <1>c, <2>1, Zenon
  <1>11. \A k \in 0 .. n : end[k] \in Nat
    BY <1>1, <1>4 DEF Ends
  <1>12. chain[n + 1] \in StringState /\ \A k \in 0 .. n : chain[k] \in StringState
    <2>1. ASSUME NEW k \in 0 .. n PROVE chain[k] \in StringState
      <3>1. e + 2 + end[k] \in Nat /\ SubSeq(value, 1, k) \in Seq(Characters)
        BY <1>1, <1>11
      <3>2. Open(k) \in StringState
        BY <3>1 DEF StringState
      <3>3. QED
        BY <1>c, <3>2, Zenon
    <2>2. chain[n + 1] \in StringState
      <3>1. Closed \in StringState
        BY <1>3 DEF StringState
      <3>2. QED
        BY <1>c, <3>1, Zenon
    <2>3. QED
      BY <2>1, <2>2
  <1>13. chain[0] = [i |-> e + 2, text |-> <<>>, closed |-> FALSE]
    <2>1. end[0] = 0 /\ 0 \in 0 .. n /\ SubSeq(value, 1, 0) = <<>>
      BY <1>1, <1>4 DEF Ends
    <2>2. e + 2 + end[0] = e + 2
      BY <2>1
    <2>3. QED
      BY <1>c, <2>1, <2>2, Zenon
  <1>. HIDE DEF Open, Closed
  <1>14. ASSUME NEW k \in 0 .. n - 1 PROVE step[chain[k]] = chain[k + 1]
    <2>. DEFINE f == (e + 1) + end[k]
                w == ws[k + 1]
                c == value[k + 1]
    <2>1. end[k] \in Nat /\ end[k + 1] = end[k] + Len(w) /\ StandsAt(flat, end[k], w) /\ Len(w) \in Nat
      BY <1>1, <1>2, <1>4, WordAt
    <2>2. f \in Nat /\ StandsAt(s, f, w)
      <3>1. e + 1 \in Nat /\ f \in Nat
        BY <2>1
      <3>2. QED
        BY <1>3, <1>6, <1>8, <2>1, <3>1, StandsWithin
    <2>3. k \in 0 .. n /\ k + 1 \in 0 .. n
      BY <1>1
    <2>4. chain[k].i = f + 1 /\ chain[k].text = SubSeq(value, 1, k) /\ chain[k].closed = FALSE
      <3>1. \A d \in Nat : e + 2 + d = ((e + 1) + d) + 1
        OBVIOUS
      <3>2. QED
        BY <1>9, <2>1, <2>3, <3>1, Zenon
    <2>5. chain[k + 1].i = f + Len(w) + 1 /\ chain[k + 1].closed = FALSE
      <3>. DEFINE d == end[k]
                  l == Len(w)
      <3>1. chain[k + 1].i = e + 2 + end[k + 1] /\ chain[k + 1].closed = FALSE
        BY <1>9, <2>3, Zenon
      <3>2. d \in Nat /\ l \in Nat /\ end[k + 1] = d + l
        BY <2>1, Zenon
      <3>. HIDE DEF d, l
      <3>3. e + 2 + (d + l) = ((e + 1) + d) + l + 1
        BY <3>2
      <3>4. chain[k + 1].i = ((e + 1) + d) + l + 1
        BY <3>1, <3>2, <3>3, Zenon
      <3>5. QED
        BY <3>1, <3>4, Zenon DEF d, l
    <2>6. chain[k + 1].text = Append(chain[k].text, c)
      BY <1>9, <2>3, <2>4, OneMore
    <2>7. w = Escaped(c) /\ c \in Characters
      BY <1>1, <1>2
    <2>8. chain[k] \in StringState /\ chain[k + 1] \in StringState
      BY <1>12, <2>3
    <2>. HIDE DEF f, w, c
    <2>9. QED
      BY <2>2, <2>4, <2>5, <2>6, <2>7, <2>8, StringReads
  <1>15. step[chain[n]] = chain[n + 1]
    <2>1. n \in 0 .. n /\ SubSeq(value, 1, n) = value
      BY <1>1, SubSeqFull
    <2>2. end[n] = Len(flat)
      BY <1>1, <1>4 DEF Ends
    <2>3. chain[n].i = e + Len(flat) + 2 /\ chain[n].text = value /\ chain[n].closed = FALSE
      <3>1. e + 2 + Len(flat) = e + Len(flat) + 2
        BY <1>3
      <3>2. QED
        BY <1>9, <2>1, <2>2, <3>1, Zenon
    <2>4. chain[n].i <= Len(s) /\ chain[n + 1].i = chain[n].i + 1 /\ IsQuote(s[chain[n].i])
      <3>1. e + 3 + Len(flat) = (e + Len(flat) + 2) + 1
        BY <1>3
      <3>2. QED
        BY <1>7, <1>10, <2>3, <3>1, Zenon
    <2>5. chain[n] \in StringState /\ chain[n + 1] \in StringState
      BY <1>12, <2>1
    <2>6. QED
      BY <1>10, <2>3, <2>4, <2>5, StringCloses
  <1>16. step[chain[n + 1]] = chain[n + 1]
    BY <1>10, <1>12, StringStays
  <1>. HIDE DEF step
  <1>17. Iterate(step, chain[0], Len(s)) = chain[n + 1]
    <2>. DEFINE rounds == Len(s)
                m == n + 1
    <2>1. rounds \in Nat /\ m \in 0 .. rounds
      BY <1>1, <1>3, <1>6, <1>7
    <2>2. ASSUME NEW k \in 0 .. m - 1 PROVE step[chain[k]] = chain[k + 1]
      <3>1. k \in 0 .. n - 1 \/ k = n
        BY <1>1
      <3>2. QED
        BY <1>14, <1>15, <3>1
    <2>. HIDE DEF m, rounds
    <2>3. step[chain[m]] = chain[m]
      BY <1>16 DEF m
    <2>4. Iterate(step, chain[0], rounds) = chain[m]
      BY <2>1, <2>2, <2>3, LoopFollows
    <2>5. QED
      BY <2>4, Zenon DEF rounds, m
  <1>18. ReadString(s, e + 2) = {[next |-> chain[n + 1].i, quoted |-> TRUE, text |-> chain[n + 1].text]}
    BY <1>10, <1>13, <1>17, Zenon DEF ReadString, step
  <1>19. chain[n + 1].i = e + Len(json) + 1
    BY <1>3, <1>5, <1>10
  <1>20. QED
    BY <1>10, <1>18, <1>19, Zenon DEF json

-----------------------------------------------------------------------------
(* Numbers, binary data and values are written as texts.                   *)

(***************************************************************************)
(* The characters that the serializer writes of its own.                   *)
(***************************************************************************)
LEMMA SerializerCharacters ==
    /\ "null" \in Characters /\ "true" \in Characters /\ "false" \in Characters /\ "," \in Characters
    /\ "{" \in Characters /\ "}" \in Characters /\ ":" \in Characters /\ "-" \in Characters
    /\ "." \in Characters /\ "=" \in Characters
    /\ \A d \in 0 .. 9 : Digit[d + 1] \in Characters
    /\ \A k \in 0 .. 63 : tbl[k + 1] \in Characters
  <1>1. ToSet(tbl) \subseteq Characters /\ ToSet(Digit) \subseteq Characters
    BY SerializerAssumption, Zenon
  <1>2. DOMAIN tbl = 1 .. 64
    BY DEF tbl
  <1>3. DOMAIN Digit = 1 .. 10
    BY DEF Digit
  <1>4. ASSUME NEW d \in 0 .. 9 PROVE Digit[d + 1] \in Characters
    <2>1. d + 1 \in DOMAIN Digit
      BY <1>3
    <2>2. QED
      BY <1>1, <2>1 DEF ToSet
  <1>5. ASSUME NEW k \in 0 .. 63 PROVE tbl[k + 1] \in Characters
    <2>1. k + 1 \in DOMAIN tbl
      BY <1>2
    <2>2. QED
      BY <1>1, <2>1 DEF ToSet
  <1>6. QED
    BY <1>4, <1>5, SerializerAssumption, Zenon

DigitState == [n : Nat, width : Nat, text : Seq(Characters)]

(***************************************************************************)
(* A round writes one digit more, or leaves the text as it is.             *)
(***************************************************************************)
LEMMA DigitRound ==
    ASSUME NEW at \in DigitState
    PROVE  /\ DigitStep[at] \in DigitState /\ Len(DigitStep[at].text) >= Len(at.text)
           /\ at.width >= 1 => Len(DigitStep[at].text) >= 1
  <1>. DEFINE c == Digit[(at.n % 10) + 1]
              digit == <<c>>
              next == [n |-> at.n \div 10, width |-> IF at.width = 0 THEN 0 ELSE at.width - 1,
                       text |-> digit \o at.text]
  <1>1. DigitStep[at] = IF at.n = 0 /\ at.width = 0 THEN at ELSE next
    BY DEF DigitStep, DigitState
  <1>2. at.n \in Nat /\ at.width \in Nat /\ at.text \in Seq(Characters)
    BY DEF DigitState
  <1>3. at.n % 10 \in 0 .. 9 /\ at.n \div 10 \in Nat
    <2>1. \A k \in Nat : k % 10 \in 0 .. 9 /\ k \div 10 \in Nat
      OBVIOUS
    <2>2. QED
      BY <1>2, <2>1, Zenon
  <1>4. digit \in Seq(Characters) /\ Len(digit) = 1
    <2>1. c \in Characters
      BY <1>3, SerializerCharacters
    <2>. HIDE DEF c
    <2>2. QED
      BY <2>1
  <1>. HIDE DEF digit
  <1>5. /\ digit \o at.text \in Seq(Characters) /\ Len(digit \o at.text) = Len(digit) + Len(at.text)
        /\ Len(at.text) \in Nat
    BY <1>2, <1>4, ConcatParts
  <1>6. next \in DigitState
    BY <1>2, <1>3, <1>5 DEF DigitState
  <1>7. next.text = digit \o at.text
    OBVIOUS
  <1>. HIDE DEF next
  <1>8. CASE at.n = 0 /\ at.width = 0
    BY <1>1, <1>5, <1>8
  <1>9. CASE ~(at.n = 0 /\ at.width = 0)
    BY <1>1, <1>4, <1>5, <1>6, <1>7, <1>9
  <1>10. QED
    BY <1>8, <1>9

(***************************************************************************)
(* The digits of a number are a text, and not empty if a digit is asked    *)
(* for.                                                                    *)
(***************************************************************************)
LEMMA DecimalText ==
    ASSUME NEW n \in Nat, NEW width \in Nat, width >= 1
    PROVE  Decimal(n, width) \in Seq(Characters) /\ Len(Decimal(n, width)) >= 1
  <1>. DEFINE start == [n |-> n, width |-> width, text |-> <<>>]
  <1>1. start \in DigitState /\ start.width >= 1
    BY DEF DigitState
  <1>. HIDE DEF start
  <1>2. PICK g : RunsIn(DigitState, DigitStep, start, 10, g) /\ Iterate(DigitStep, start, 10) = g[10]
    <2>. DEFINE rounds == 10
    <2>1. \A x \in DigitState : DigitStep[x] \in DigitState
      BY DigitRound
    <2>2. rounds \in Nat
      OBVIOUS
    <2>. HIDE DEF rounds
    <2>3. RunsTo(DigitState, DigitStep, start, rounds, Iterate(DigitStep, start, rounds))
      BY <1>1, <2>1, <2>2, IterateRuns
    <2>4. QED
      BY <2>3, Zenon DEF rounds, RunsTo
  <1>3. /\ g[0] = start /\ \A k \in 0 .. 10 : g[k] \in DigitState
        /\ \A k \in 0 .. 9 : DigitStep[g[k]] = g[k + 1]
    BY <1>2 DEF RunsIn
  <1>. DEFINE S == {k \in 0 .. 9 : Len(g[k + 1].text) >= 1}
  <1>4. 0 \in S
    <2>1. g[0 + 1] = DigitStep[start]
      BY <1>3
    <2>2. Len(DigitStep[start].text) >= 1
      BY <1>1, DigitRound
    <2>3. QED
      BY <2>1, <2>2
  <1>5. ASSUME NEW k \in 0 .. 9 - 1, k \in S PROVE k + 1 \in S
    <2>1. k + 1 \in 0 .. 9 /\ k + 1 \in 0 .. 10 /\ (k + 1) + 1 \in 0 .. 10
      OBVIOUS
    <2>2. g[k + 1] \in DigitState /\ g[(k + 1) + 1] \in DigitState /\ DigitStep[g[k + 1]] = g[(k + 1) + 1]
      BY <1>3, <2>1, Zenon
    <2>3. Len(DigitStep[g[k + 1]].text) >= Len(g[k + 1].text)
      BY <2>2, DigitRound
    <2>. DEFINE a == Len(g[k + 1].text)
                b == Len(g[(k + 1) + 1].text)
    <2>4. a \in Nat /\ b \in Nat
      BY <2>2 DEF DigitState
    <2>5. b >= a /\ a >= 1
      BY <1>5, <2>2, <2>3, Zenon
    <2>. HIDE DEF a, b
    <2>6. b >= 1
      BY <2>4, <2>5
    <2>7. QED
      BY <2>1, <2>6 DEF b
  <1>6. 9 \in S
    <2>1. 9 \in 0 .. 9 /\ 9 \in Nat
      OBVIOUS
    <2>. HIDE DEF S
    <2>2. QED
      BY <1>4, <1>5, <2>1, UpTo
  <1>7. g[10].text \in Seq(Characters) /\ Len(g[10].text) >= 1
    <2>1. 9 + 1 = 10 /\ 10 \in 0 .. 10
      OBVIOUS
    <2>2. Len(g[9 + 1].text) >= 1
      BY <1>6
    <2>3. QED
      BY <1>3, <2>1, <2>2 DEF DigitState
  <1>8. Decimal(n, width) = g[10].text
    BY <1>2, Zenon DEF Decimal, MaxDigits, start
  <1>9. QED
    BY <1>7, <1>8, Zenon

(***************************************************************************)
(* There is a point in a text, and something behind it.                    *)
(***************************************************************************)
HasPoint(s) == \E p \in 1 .. Len(s) - 1 : s[p] = "."

(***************************************************************************)
(* std::to_string writes such a text.                                      *)
(***************************************************************************)
LEMMA NumberText ==
    ASSUME NEW n \in Int
    PROVE  to_string(n) \in Seq(Characters) /\ HasPoint(to_string(n))
  <1>. DEFINE magnitude == IF n < 0 THEN -n ELSE n
              millionths == (magnitude + 5) \div 10
              sign == IF n < 0 THEN <<"-">> ELSE <<>>
              high == millionths \div 1000000
              low == millionths % 1000000
              whole == Decimal(high, 1)
              dot == <<".">>
              fraction == Decimal(low, 6)
              x == sign \o whole
              y == x \o dot
  <1>0. to_string(n) = y \o fraction
    BY SMT DEF to_string
  <1>1. high \in Nat /\ low \in Nat
    <2>1. magnitude + 5 \in Nat
      OBVIOUS
    <2>. HIDE DEF magnitude
    <2>2. millionths \in Nat
      BY <2>1
    <2>. HIDE DEF millionths
    <2>3. QED
      BY <2>2, SMT
  <1>. HIDE DEF high, low
  <1>2. sign \in Seq(Characters)
    <2>1. <<"-">> \in Seq(Characters) /\ <<>> \in Seq(Characters)
      <3>1. "-" \in Characters
        BY SerializerCharacters
      <3>2. QED
        BY <3>1
    <2>2. QED
      BY <2>1, Zenon
  <1>3. whole \in Seq(Characters) /\ fraction \in Seq(Characters) /\ Len(fraction) >= 1
    <2>1. 1 \in Nat /\ 6 \in Nat /\ 1 >= 1 /\ 6 >= 1
      OBVIOUS
    <2>2. QED
      BY <1>1, <2>1, DecimalText
  <1>4. dot \in Seq(Characters) /\ Len(dot) = 1 /\ dot[1] = "."
    <2>1. "." \in Characters
      BY SerializerCharacters
    <2>2. QED
      BY <2>1
  <1>. HIDE DEF sign, whole, dot, fraction
  <1>6. x \in Seq(Characters) /\ Len(x) \in Nat
    BY <1>2, <1>3, ConcatParts
  <1>. HIDE DEF x
  <1>7. y \in Seq(Characters) /\ Len(y) = Len(x) + Len(dot) /\ \A j \in 1 .. Len(dot) : y[Len(x) + j] = dot[j]
    <2>1. x \in Seq(Characters) /\ dot \in Seq(Characters)
      BY <1>4, <1>6
    <2>2. QED
      BY <2>1, ConcatParts
  <1>8. y[Len(x) + 1] = "." /\ Len(y) = Len(x) + 1
    BY <1>4, <1>7
  <1>. HIDE DEF y
  <1>. DEFINE s == y \o fraction
  <1>9. /\ s \in Seq(Characters) /\ Len(s) = Len(y) + Len(fraction) /\ Len(fraction) \in Nat
        /\ \A j \in 1 .. Len(y) : s[j] = y[j]
    <2>1. y \in Seq(Characters) /\ fraction \in Seq(Characters)
      BY <1>3, <1>7
    <2>2. QED
      BY <2>1, ConcatParts
  <1>. HIDE DEF s
  <1>. DEFINE p == Len(x) + 1
  <1>10. p \in 1 .. Len(y) /\ p \in 1 .. Len(s) - 1
    BY <1>3, <1>6, <1>8, <1>9
  <1>11. s[p] = "."
    <2>1. s[p] = y[p]
      BY <1>9, <1>10
    <2>2. QED
      BY <1>8, <2>1, Zenon
  <1>12. HasPoint(s)
    <2>. HIDE DEF p
    <2>1. QED
      BY <1>10, <1>11, Zenon DEF HasPoint
  <1>13. QED
    BY <1>0, <1>9, <1>12, Zenon DEF s

(***************************************************************************)
(* A set of numbers that is not empty has a least one.                     *)
(***************************************************************************)
LEMMA LeastOf ==
    ASSUME NEW S, S \subseteq Nat, S # {}
    PROVE  Min(S) \in S /\ \A y \in S : Min(S) <= y
  <1>. DEFINE R == OpToRel(<, Nat)
  <1>1. \E x \in S : \A y \in S : ~(<<y, x>> \in R)
    <2>1. S \in SUBSET Nat
      OBVIOUS
    <2>2. QED
      BY <2>1, NatLessThanWellFounded, WFMin
  <1>2. \A x, y \in Nat : y < x => <<y, x>> \in R
    BY DEF OpToRel
  <1>. HIDE DEF R
  <1>3. \E x \in S : \A y \in S : x <= y
    <2>1. PICK x \in S : \A y \in S : ~(<<y, x>> \in R)
      BY <1>1
    <2>2. ASSUME NEW y \in S PROVE x <= y
      <3>1. x \in Nat /\ y \in Nat /\ ~(y < x)
        BY <1>2, <2>1
      <3>2. QED
        BY <3>1
    <2>3. QED
      BY <2>2
  <1>4. QED
    BY <1>3, Zenon DEF Min

(***************************************************************************)
(* FormatDouble cuts it to a text: what is left ends behind the point at   *)
(* the latest, where there is a decimal to keep.                           *)
(***************************************************************************)
LEMMA FormatText ==
    ASSUME NEW n \in Int
    PROVE  FormatDouble(n) \in Seq(Characters)
  <1>. DEFINE s == to_string(n)
              Points == {i \in 1 .. Len(s) : s[i] = "."}
              dot == IF Points # {} THEN Min(Points) ELSE 0
              step == CutStep(s, dot)
              end == Iterate(step, Len(s), Len(s))
  <1>1. s \in Seq(Characters) /\ HasPoint(s) /\ Len(s) \in Nat
    <2>1. s \in Seq(Characters) /\ HasPoint(s)
      BY NumberText
    <2>. HIDE DEF s
    <2>2. QED
      BY <2>1
  <1>2. FormatDouble(n) = SubSeq(s, 1, IF end = dot THEN end + 1 ELSE end)
    BY DEF FormatDouble, SelectInSeq
  <1>. HIDE DEF s, dot
  <1>3. dot \in 1 .. Len(s) - 1
    <2>1. PICK p \in 1 .. Len(s) - 1 : s[p] = "."
      BY <1>1, Zenon DEF HasPoint
    <2>2. p \in Points /\ p \in Nat
      BY <1>1, <2>1
    <2>3. Points \subseteq Nat /\ \A i \in Points : i >= 1
      BY <1>1
    <2>. HIDE DEF Points
    <2>4. dot \in Points /\ dot <= p
      BY <2>2, <2>3, LeastOf DEF dot
    <2>5. QED
      BY <1>1, <2>1, <2>2, <2>3, <2>4
  <1>4. \A x \in 0 .. Len(s) : step[x] \in 0 .. Len(s)
    BY <1>1, <1>3 DEF CutStep
  <1>. HIDE DEF step
  <1>5. end \in 0 .. Len(s)
    <2>. DEFINE S == 0 .. Len(s)
                m == Len(s)
    <2>1. m \in S /\ m \in Nat /\ \A x \in S : step[x] \in S
      BY <1>1, <1>4
    <2>. HIDE DEF S, m
    <2>2. Iterate(step, m, m) \in S
      BY <2>1, IterateIn
    <2>3. QED
      BY <2>2, Zenon DEF S, m
  <1>. HIDE DEF end
  <1>6. (IF end = dot THEN end + 1 ELSE end) \in 0 .. Len(s)
    BY <1>1, <1>3, <1>5
  <1>7. ASSUME NEW k \in 0 .. Len(s) PROVE SubSeq(s, 1, k) \in Seq(Characters)
    BY <1>1
  <1>8. QED
    BY <1>2, <1>6, <1>7, Zenon

(***************************************************************************)
(* Base64 writes a text.                                                   *)
(***************************************************************************)
LEMMA Base64Text ==
    ASSUME NEW data \in Seq(0 .. 255)
    PROVE  Base64Encode(data) \in Seq(Characters)
  <1>. DEFINE byte(i) == IF i <= Len(data) THEN data[i] ELSE 0
              group(i) == byte(i) * 65536 + byte(i + 1) * 256 + byte(i + 2)
              used(i) == IF Len(data) - i >= 2 THEN 4 ELSE Len(data) - i + 2
              power == <<262144, 4096, 64, 1>>
              sextet(g, k) == (group(3 * g - 2) \div power[k]) % 64
              symbol(g, k) == IF k > used(3 * g - 2) THEN "=" ELSE tbl[sextet(g, k) + 1]
              groups == (Len(data) + 2) \div 3
              words == [g \in 1 .. groups |-> [k \in 1 .. 4 |-> symbol(g, k)]]
  <1>1. Base64Encode(data) = FlattenSeq(words)
    BY SMT DEF Base64Encode
  <1>2. Len(data) \in Nat /\ groups \in Nat
    BY SMT
  <1>3. ASSUME NEW i \in Nat \ {0} PROVE byte(i) \in Nat
    <2>1. CASE i <= Len(data)
      <3>1. i \in 1 .. Len(data)
        BY <1>2, <2>1
      <3>2. data[i] \in 0 .. 255
        BY <3>1, ElementOfSeq
      <3>3. \A d \in 0 .. 255 : d \in Nat
        OBVIOUS
      <3>4. byte(i) = data[i]
        BY <2>1
      <3>. HIDE DEF byte
      <3>5. QED
        BY <3>2, <3>3, <3>4, Zenon
    <2>2. CASE ~(i <= Len(data))
      BY <2>2
    <2>3. QED
      BY <2>1, <2>2
  <1>. HIDE DEF byte
  <1>4. ASSUME NEW i \in Nat \ {0} PROVE group(i) \in Nat
    <2>. DEFINE a == byte(i)
                b == byte(i + 1)
                c == byte(i + 2)
    <2>1. a \in Nat /\ b \in Nat /\ c \in Nat
      BY <1>3, SMT
    <2>. HIDE DEF a, b, c
    <2>2. a * 65536 + b * 256 + c \in Nat
      BY <2>1, SMT
    <2>3. QED
      BY <2>2, SMT DEF a, b, c
  <1>. HIDE DEF group, groups
  <1>5. ASSUME NEW g \in 1 .. groups, NEW k \in 1 .. 4 PROVE sextet(g, k) \in 0 .. 63
    <2>. DEFINE m == group(3 * g - 2)
                p == power[k]
    <2>1. 3 * g - 2 \in Nat \ {0}
      BY <1>2, SMT
    <2>2. m \in Nat
      BY <1>4, <2>1, SMT
    <2>3. p \in {262144, 4096, 64, 1}
      BY SMT
    <2>. HIDE DEF m, p
    <2>4. (m \div p) % 64 \in 0 .. 63
      <3>. DEFINE q == m \div p
      <3>1. q \in Nat
        BY <2>2, <2>3, SMT
      <3>. HIDE DEF q
      <3>2. q % 64 \in 0 .. 63
        BY <3>1, SMT
      <3>3. QED
        BY <3>2, SMT DEF q
    <2>5. QED
      BY <2>4, SMT DEF m, p
  <1>. HIDE DEF sextet
  <1>6. ASSUME NEW g \in 1 .. groups, NEW k \in 1 .. 4 PROVE symbol(g, k) \in Characters
    BY <1>5, SerializerCharacters
  <1>. HIDE DEF symbol
  <1>7. words \in Seq(Seq(Characters))
    <2>1. ASSUME NEW g \in 1 .. groups PROVE [k \in 1 .. 4 |-> symbol(g, k)] \in Seq(Characters)
      BY <1>6
    <2>2. QED
      BY <1>2, <2>1
  <1>. HIDE DEF words
  <1>8. FlattenSeq(words) \in Seq(Characters)
    BY <1>7, WordsAt
  <1>9. QED
    BY <1>1, <1>8, Zenon

(***************************************************************************)
(* What DuckDB prints of a BLOB is bytes again.                            *)
(***************************************************************************)
LEMMA PrintedBytes ==
    ASSUME NEW bytes \in Seq(0 .. 255)
    PROVE  BlobToString(bytes) \in Seq(0 .. 255)
  <1>. DEFINE hex(d) == d + IF d < 10 THEN 48 ELSE 55
              word(b) == IF b \in (32 .. 126) \ {34, 39, 92} THEN <<b>>
                         ELSE <<92, 120, hex(b \div 16), hex(b % 16)>>
              words == [i \in 1 .. Len(bytes) |-> word(bytes[i])]
  <1>1. BlobToString(bytes) = FlattenSeq(words)
    BY SMT DEF BlobToString
  <1>2. ASSUME NEW b \in 0 .. 255 PROVE word(b) \in Seq(0 .. 255)
    <2>1. b \div 16 \in 0 .. 15 /\ b % 16 \in 0 .. 15
      BY SMT
    <2>2. ASSUME NEW d \in 0 .. 15 PROVE hex(d) \in 0 .. 255
      BY SMT
    <2>3. hex(b \div 16) \in 0 .. 255 /\ hex(b % 16) \in 0 .. 255
      BY <2>1, <2>2, Zenon
    <2>. HIDE DEF hex
    <2>4. <<92, 120, hex(b \div 16), hex(b % 16)>> \in Seq(0 .. 255)
      BY <2>3, SMT
    <2>5. <<b>> \in Seq(0 .. 255)
      BY SMT
    <2>6. QED
      BY <2>4, <2>5, Zenon
  <1>3. Len(bytes) \in Nat
    BY SMT
  <1>. HIDE DEF word
  <1>4. words \in Seq(Seq(0 .. 255))
    <2>1. ASSUME NEW i \in 1 .. Len(bytes) PROVE word(bytes[i]) \in Seq(0 .. 255)
      <3>1. bytes[i] \in 0 .. 255
        BY ElementOfSeq, Zenon
      <3>2. QED
        BY <1>2, <3>1, Zenon
    <2>2. QED
      BY <1>3, <2>1, SMT
  <1>. HIDE DEF words
  <1>5. QED
    BY <1>1, <1>4, WordsAt, Zenon

(***************************************************************************)
(* So does a value of every form.                                          *)
(***************************************************************************)
LEMMA ValueText ==
    ASSUME NEW value \in ValueSet \cup {NULL}, NEW type
    PROVE  ValueToJson(value, type) \in Seq(Characters)
  <1>1. CASE value = NULL \/ value = NotFinite
    <2>0. value.form # "boolean" /\ value.form # "number" /\ value.form # "blob" /\ value.form # "text"
      BY <1>1 DEF NULL, NotFinite
    <2>1. ValueToJson(value, type) = <<"null">>
      BY <1>1, <2>0, Zenon DEF ValueToJson
    <2>2. "null" \in Characters
      BY SerializerCharacters
    <2>3. <<"null">> \in Seq(Characters)
      BY <2>2
    <2>4. QED
      BY <2>1, <2>3, Zenon
  <1>2. CASE value \in [form : {"boolean"}, boolean : BOOLEAN]
    <2>1. value.form = "boolean"
      BY <1>2
    <2>2. value # NULL /\ value # NotFinite
      BY <2>1 DEF NULL, NotFinite
    <2>3. ValueToJson(value, type) = IF value.boolean THEN <<"true">> ELSE <<"false">>
      BY <2>1, <2>2, Zenon DEF ValueToJson
    <2>4. "true" \in Characters /\ "false" \in Characters
      BY SerializerCharacters
    <2>5. <<"true">> \in Seq(Characters) /\ <<"false">> \in Seq(Characters)
      BY <2>4
    <2>6. QED
      BY <2>3, <2>5, Zenon
  <1>3. CASE value \in [form : {"number"}, number : Int]
    <2>1. value.form = "number" /\ value.number \in Int
      BY <1>3
    <2>2. value # NULL /\ value # NotFinite
      BY <2>1 DEF NULL, NotFinite
    <2>3. ValueToJson(value, type) = FormatDouble(value.number)
      BY <2>1, <2>2, Zenon DEF ValueToJson
    <2>4. QED
      BY <2>1, <2>3, FormatText
  <1>4. CASE value \in [form : {"blob"}, bytes : Seq(0 .. 255)]
    <2>. DEFINE q == <<"\"">>
                t == Base64Encode(BlobToString(value.bytes))
    <2>1. value.form = "blob" /\ value.bytes \in Seq(0 .. 255)
      BY <1>4
    <2>2. value # NULL /\ value # NotFinite
      BY <2>1 DEF NULL, NotFinite
    <2>3. ValueToJson(value, type) = (q \o t) \o q
      BY <2>1, <2>2, Zenon DEF ValueToJson
    <2>4. q \in Seq(Characters)
      BY QuoteText
    <2>5. t \in Seq(Characters)
      BY <2>1, PrintedBytes, Base64Text, Zenon
    <2>. HIDE DEF q, t
    <2>6. QED
      BY <2>3, <2>4, <2>5
  <1>5. CASE value \in [form : {"text"}, text : Seq(Characters)]
    <2>1. value.form = "text" /\ value.text \in Seq(Characters)
      BY <1>5
    <2>2. value # NULL /\ value # NotFinite
      BY <2>1 DEF NULL, NotFinite
    <2>3. ValueToJson(value, type) = value.text \/ ValueToJson(value, type) = JsonString(value.text)
      BY <2>1, <2>2, Zenon DEF ValueToJson
    <2>4. JsonString(value.text) \in Seq(Characters)
      BY <2>1, JsonStringParts
    <2>5. QED
      BY <2>1, <2>3, <2>4, Zenon
  <1>6. QED
    BY <1>1, <1>2, <1>3, <1>4, <1>5, Zenon DEF ValueSet

(***************************************************************************)
(* The rows of a table have a value for every column.                      *)
(***************************************************************************)
LEMMA RowValues ==
    ASSUME NEW columns \in Tables, NEW row \in RowSet(columns)
    PROVE  /\ Len(columns) \in Nat /\ Len(columns) >= 1
           /\ \A c \in 1 .. Len(columns) : columns[c].name \in Seq(Characters) /\ row[c] \in ValueSet \cup {NULL}
  <1>. DEFINE Column == [name : Seq(Characters), type : DOMAIN Values, nullable : BOOLEAN]
  <1>1. columns \in Seq(Column) /\ columns # <<>>
    BY SerializerAssumption
  <1>. HIDE DEF Column
  <1>2. Len(columns) \in Nat /\ Len(columns) >= 1 /\ DOMAIN columns = 1 .. Len(columns)
    BY <1>1
  <1>3. ASSUME NEW c \in 1 .. Len(columns) PROVE columns[c].name \in Seq(Characters) /\ row[c] \in ValueSet \cup {NULL}
    <2>1. columns[c] \in Column
      BY <1>1, ElementOfSeq
    <2>2. columns[c].name \in Seq(Characters) /\ columns[c].type \in DOMAIN Values
      BY <2>1 DEF Column
    <2>3. Values[columns[c].type] \subseteq ValueSet
      BY <2>2, SerializerAssumption, Zenon
    <2>4. row[c] \in Values[columns[c].type] \cup IF columns[c].nullable THEN {NULL} ELSE {}
      BY <1>2 DEF RowSet
    <2>5. row[c] \in Values[columns[c].type] \cup {NULL}
      BY <2>4
    <2>6. QED
      BY <2>2, <2>3, <2>5, Zenon
  <1>4. QED
    BY <1>2, <1>3

(***************************************************************************)
(* The texts of one character and of none.                                 *)
(***************************************************************************)
LEMMA OneText ==
    ASSUME NEW c \in Characters
    PROVE  <<c>> \in Seq(Characters) /\ Len(<<c>>) = 1 /\ <<>> \in Seq(Characters)
  OBVIOUS

(***************************************************************************)
(* A member of a row is a text, and not empty.                             *)
(***************************************************************************)
LEMMA MemberText ==
    ASSUME NEW c, NEW name \in Seq(Characters), NEW value \in ValueSet \cup {NULL}, NEW type
    PROVE  LET member == (IF c > 1 THEN <<",">> ELSE <<>>) \o JsonString(name) \o <<":">> \o ValueToJson(value, type)
           IN  member \in Seq(Characters) /\ Len(member) >= 1
  <1>. DEFINE comma == IF c > 1 THEN <<",">> ELSE <<>>
              json == JsonString(name)
              colon == <<":">>
              text == ValueToJson(value, type)
  <1>1. comma \in Seq(Characters)
    <2>1. "," \in Characters
      BY SerializerCharacters
    <2>2. <<",">> \in Seq(Characters) /\ <<>> \in Seq(Characters)
      BY <2>1, OneText, Zenon
    <2>3. QED
      BY <2>2, Zenon
  <1>2. json \in Seq(Characters)
    BY JsonStringParts
  <1>3. colon \in Seq(Characters) /\ Len(colon) = 1
    <2>1. ":" \in Characters
      BY SerializerCharacters
    <2>2. QED
      BY <2>1
  <1>4. text \in Seq(Characters)
    BY ValueText
  <1>. HIDE DEF comma, json, colon, text
  <1>. DEFINE x == comma \o json
              y == x \o colon
              z == y \o text
  <1>5. x \in Seq(Characters) /\ Len(x) \in Nat
    BY <1>1, <1>2, ConcatParts
  <1>. HIDE DEF x
  <1>6. y \in Seq(Characters) /\ Len(y) = Len(x) + Len(colon)
    BY <1>3, <1>5, ConcatParts
  <1>. HIDE DEF y
  <1>7. z \in Seq(Characters) /\ Len(z) = Len(y) + Len(text) /\ Len(text) \in Nat
    BY <1>4, <1>6, ConcatParts
  <1>. HIDE DEF z
  <1>8. Len(z) >= 1
    BY <1>3, <1>5, <1>6, <1>7
  <1>9. QED
    BY <1>7, <1>8, Zenon DEF comma, json, colon, text, x, y, z

(***************************************************************************)
(* The members of a row are a text, and not empty.                         *)
(***************************************************************************)
LEMMA MembersText ==
    ASSUME NEW columns \in Tables, NEW row \in RowSet(columns)
    PROVE  Members(columns, row) \in Seq(Characters) /\ Len(Members(columns, row)) >= 1
  <1>. DEFINE word(c) == (IF c > 1 THEN <<",">> ELSE <<>>) \o JsonString(columns[c].name) \o <<":">>
                         \o ValueToJson(row[c], columns[c].type)
              words == [c \in 1 .. Len(columns) |-> word(c)]
  <1>1. /\ Len(columns) \in Nat /\ Len(columns) >= 1
        /\ \A c \in 1 .. Len(columns) : columns[c].name \in Seq(Characters) /\ row[c] \in ValueSet \cup {NULL}
    BY RowValues
  <1>2. ASSUME NEW c \in 1 .. Len(columns) PROVE word(c) \in Seq(Characters) /\ Len(word(c)) >= 1
    BY <1>1, MemberText, Zenon
  <1>3. Members(columns, row) = FlattenSeq(words)
    BY Zenon DEF Members
  <1>. HIDE DEF word
  <1>4. /\ words \in Seq(Seq(Characters)) /\ Len(words) = Len(columns)
        /\ \A k \in 0 .. Len(words) - 1 : Len(words[k + 1]) >= 1
    <2>1. words \in Seq(Seq(Characters)) /\ Len(words) = Len(columns)
      BY <1>1, <1>2
    <2>2. ASSUME NEW k \in 0 .. Len(words) - 1 PROVE Len(words[k + 1]) >= 1
      <3>1. k + 1 \in 1 .. Len(columns)
        BY <1>1, <2>1
      <3>2. words[k + 1] = word(k + 1)
        BY <3>1
      <3>3. QED
        BY <1>2, <3>1, <3>2
    <2>3. QED
      BY <2>1, <2>2
  <1>. HIDE DEF words
  <1>5. FlattenSeq(words) \in Seq(Characters) /\ Len(words) <= Len(FlattenSeq(words))
    BY <1>4, WordsAt, WordsFit
  <1>6. Len(FlattenSeq(words)) >= 1
    <2>. DEFINE m == Len(FlattenSeq(words))
    <2>1. m \in Nat /\ Len(columns) <= m
      BY <1>4, <1>5
    <2>. HIDE DEF m
    <2>2. m >= 1
      BY <1>1, <2>1
    <2>3. QED
      BY <2>2 DEF m
  <1>7. QED
    BY <1>3, <1>5, <1>6, Zenon

(***************************************************************************)
(* An object is a text, and not empty.                                     *)
(***************************************************************************)
LEMMA ObjectText ==
    ASSUME NEW columns \in Tables, NEW row \in RowSet(columns), NEW r
    PROVE  Object(columns, r, row) \in Seq(Characters) /\ Len(Object(columns, r, row)) >= 1
  <1>. DEFINE comma == IF r > 1 THEN <<",">> ELSE <<>>
              open == <<"{">>
              members == Members(columns, row)
              close == <<"}">>
  <1>1. comma \in Seq(Characters)
    <2>1. "," \in Characters
      BY SerializerCharacters
    <2>2. <<",">> \in Seq(Characters) /\ <<>> \in Seq(Characters)
      BY <2>1, OneText, Zenon
    <2>3. QED
      BY <2>2, Zenon
  <1>2. open \in Seq(Characters) /\ close \in Seq(Characters) /\ Len(close) = 1
    <2>1. "{" \in Characters /\ "}" \in Characters
      BY SerializerCharacters
    <2>2. QED
      BY <2>1, OneText, Zenon
  <1>3. members \in Seq(Characters)
    BY MembersText
  <1>4. Object(columns, r, row) = ((comma \o open) \o members) \o close
    BY Zenon DEF Object
  <1>. HIDE DEF comma, open, members, close
  <1>. DEFINE x == comma \o open
              y == x \o members
              z == y \o close
  <1>5. x \in Seq(Characters)
    BY <1>1, <1>2, ConcatParts
  <1>. HIDE DEF x
  <1>6. y \in Seq(Characters) /\ Len(y) \in Nat
    BY <1>3, <1>5, ConcatParts
  <1>. HIDE DEF y
  <1>7. z \in Seq(Characters) /\ Len(z) = Len(y) + Len(close)
    BY <1>2, <1>6, ConcatParts
  <1>. HIDE DEF z
  <1>8. Len(z) >= 1
    BY <1>2, <1>6, <1>7
  <1>9. QED
    BY <1>4, <1>7, <1>8, Zenon DEF x, y, z

-----------------------------------------------------------------------------
(* Chunks.                                                                 *)

ObjectWords(columns, before, chunk) == [r \in 1 .. Len(chunk) |-> Object(columns, before + r, chunk[r])]

(***************************************************************************)
(* The objects of a chunk are words, none of them empty.                   *)
(***************************************************************************)
LEMMA ChunkWords ==
    ASSUME NEW columns \in Tables, NEW before \in Nat, NEW chunk \in Seq(RowSet(columns))
    PROVE  /\ ObjectWords(columns, before, chunk) \in Seq(Seq(Characters))
           /\ Len(ObjectWords(columns, before, chunk)) = Len(chunk)
           /\ \A k \in 0 .. Len(chunk) - 1 :
                 /\ ObjectWords(columns, before, chunk)[k + 1] = Object(columns, before + (k + 1), chunk[k + 1])
                 /\ Len(ObjectWords(columns, before, chunk)[k + 1]) >= 1
  <1>. DEFINE word(r) == Object(columns, before + r, chunk[r])
              words == [r \in 1 .. Len(chunk) |-> word(r)]
  <1>1. Len(chunk) \in Nat
    OBVIOUS
  <1>2. ASSUME NEW r \in 1 .. Len(chunk) PROVE word(r) \in Seq(Characters) /\ Len(word(r)) >= 1
    <2>1. chunk[r] \in RowSet(columns)
      BY ElementOfSeq
    <2>2. QED
      BY <2>1, ObjectText
  <1>3. ObjectWords(columns, before, chunk) = words
    BY Zenon DEF ObjectWords
  <1>. HIDE DEF word
  <1>4. words \in Seq(Seq(Characters)) /\ Len(words) = Len(chunk)
    BY <1>1, <1>2
  <1>5. ASSUME NEW k \in 0 .. Len(chunk) - 1 PROVE words[k + 1] = word(k + 1) /\ Len(words[k + 1]) >= 1
    <2>1. k + 1 \in 1 .. Len(chunk)
      BY <1>1
    <2>2. words[k + 1] = word(k + 1)
      BY <2>1
    <2>3. QED
      BY <1>2, <2>1, <2>2
  <1>. HIDE DEF words
  <1>6. QED
    BY <1>3, <1>4, <1>5, Zenon DEF word

(***************************************************************************)
(* They are written as a text, which is empty only if there are none.      *)
(***************************************************************************)
LEMMA ObjectsText ==
    ASSUME NEW columns \in Tables, NEW before \in Nat, NEW chunk \in Seq(RowSet(columns))
    PROVE  /\ Objects(columns, before, chunk) \in Seq(Characters)
           /\ Len(chunk) <= Len(Objects(columns, before, chunk))
           /\ chunk = <<>> => Objects(columns, before, chunk) = <<>>
  <1>. DEFINE words == ObjectWords(columns, before, chunk)
  <1>1. /\ words \in Seq(Seq(Characters)) /\ Len(words) = Len(chunk)
        /\ \A k \in 0 .. Len(chunk) - 1 : Len(words[k + 1]) >= 1
    BY ChunkWords, Zenon
  <1>2. Objects(columns, before, chunk) = FlattenSeq(words)
    BY Zenon DEF Objects, ObjectWords
  <1>. HIDE DEF words
  <1>3. FlattenSeq(words) \in Seq(Characters) /\ Len(chunk) <= Len(FlattenSeq(words))
    BY <1>1, WordsAt, WordsFit
  <1>4. ASSUME chunk = <<>> PROVE FlattenSeq(words) = <<>>
    <2>1. Len(words) = 0
      BY <1>1, <1>4
    <2>2. QED
      BY <1>1, <2>1 DEF FlattenSeq
  <1>5. QED
    BY <1>2, <1>3, <1>4, Zenon

(***************************************************************************)
(* A chunk written behind other rows, and counted on from them, is written *)
(* as it would have been in one chunk with them.                           *)
(***************************************************************************)
LEMMA ChunksJoin ==
    ASSUME NEW columns \in Tables, NEW first \in Seq(RowSet(columns)), NEW second \in Seq(RowSet(columns))
    PROVE  Objects(columns, 0, first) \o Objects(columns, Len(first), second) = Objects(columns, 0, first \o second)
  <1>. DEFINE a == ObjectWords(columns, 0, first)
              b == ObjectWords(columns, Len(first), second)
              both == first \o second
              c == ObjectWords(columns, 0, both)
              m == Len(first)
              n == Len(second)
  <1>1. m \in Nat /\ n \in Nat /\ 0 \in Nat
    OBVIOUS
  <1>2. /\ both \in Seq(RowSet(columns)) /\ Len(both) = m + n
        /\ \A j \in 1 .. m : both[j] = first[j]
        /\ \A j \in 1 .. n : both[m + j] = second[j]
    BY ConcatParts
  <1>. HIDE DEF both
  <1>3. /\ a \in Seq(Seq(Characters)) /\ Len(a) = m
        /\ \A k \in 0 .. m - 1 : a[k + 1] = Object(columns, 0 + (k + 1), first[k + 1])
    BY <1>1, ChunkWords, Zenon
  <1>4. /\ b \in Seq(Seq(Characters)) /\ Len(b) = n
        /\ \A k \in 0 .. n - 1 : b[k + 1] = Object(columns, m + (k + 1), second[k + 1])
    BY <1>1, ChunkWords, Zenon
  <1>5. /\ c \in Seq(Seq(Characters)) /\ Len(c) = m + n
        /\ \A k \in 0 .. (m + n) - 1 : c[k + 1] = Object(columns, 0 + (k + 1), both[k + 1])
    <2>1. both \in Seq(RowSet(columns)) /\ Len(both) = m + n
      BY <1>2
    <2>2. /\ c \in Seq(Seq(Characters)) /\ Len(c) = Len(both)
          /\ \A k \in 0 .. Len(both) - 1 : c[k + 1] = Object(columns, 0 + (k + 1), both[k + 1])
      BY <1>1, <2>1, ChunkWords, Zenon
    <2>. HIDE DEF c, m, n
    <2>3. QED
      BY <2>1, <2>2, Zenon
  <1>6. /\ Objects(columns, 0, first) = FlattenSeq(a) /\ Objects(columns, Len(first), second) = FlattenSeq(b)
        /\ Objects(columns, 0, both) = FlattenSeq(c)
    BY Zenon DEF Objects, ObjectWords
  <1>. HIDE DEF a, b, c, m, n
  <1>. DEFINE ab == a \o b
  <1>7. /\ ab \in Seq(Seq(Characters)) /\ Len(ab) = m + n
        /\ \A j \in 1 .. m : ab[j] = a[j]
        /\ \A j \in 1 .. n : ab[m + j] = b[j]
    <2>1. a \in Seq(Seq(Characters)) /\ b \in Seq(Seq(Characters))
      BY <1>3, <1>4
    <2>2. /\ ab \in Seq(Seq(Characters)) /\ Len(ab) = Len(a) + Len(b)
          /\ \A j \in 1 .. Len(a) : ab[j] = a[j]
          /\ \A j \in 1 .. Len(b) : ab[Len(a) + j] = b[j]
      BY <2>1, ConcatParts
    <2>3. Len(a) = m /\ Len(b) = n
      BY <1>3, <1>4
    <2>. HIDE DEF ab
    <2>4. QED
      BY <2>2, <2>3, Zenon
  <1>8. FlattenSeq(ab) = FlattenSeq(a) \o FlattenSeq(b)
    BY <1>3, <1>4, FlattenConcat
  <1>. HIDE DEF ab
  <1>9. ASSUME NEW j \in 1 .. m + n PROVE ab[j] = c[j]
    <2>1. CASE j <= m
      <3>1. j \in 1 .. m /\ j - 1 \in 0 .. m - 1 /\ j - 1 \in 0 .. (m + n) - 1 /\ (j - 1) + 1 = j
        BY <1>1, <2>1
      <3>2. a[j] = Object(columns, 0 + j, first[j])
        BY <1>3, <3>1, Zenon
      <3>3. c[j] = Object(columns, 0 + j, both[j])
        BY <1>5, <3>1, Zenon
      <3>4. QED
        BY <1>2, <1>7, <3>1, <3>2, <3>3, Zenon
    <2>2. CASE ~(j <= m)
      <3>. DEFINE i == j - m
      <3>1. /\ i \in 1 .. n /\ m + i = j /\ i - 1 \in 0 .. n - 1 /\ (i - 1) + 1 = i /\ 0 + j = j
            /\ j - 1 \in 0 .. (m + n) - 1 /\ (j - 1) + 1 = j
        BY <1>1, <2>2
      <3>. HIDE DEF i
      <3>2. b[i] = Object(columns, m + i, second[i])
        BY <1>4, <3>1, Zenon
      <3>3. c[j] = Object(columns, 0 + j, both[j])
        BY <1>5, <3>1, Zenon
      <3>4. both[j] = second[i] /\ ab[j] = b[i]
        BY <1>2, <1>7, <3>1, Zenon
      <3>5. QED
        BY <3>1, <3>2, <3>3, <3>4, Zenon
    <2>3. QED
      BY <2>1, <2>2
  <1>10. ab = c
    <2>. DEFINE T == Seq(Characters)
    <2>1. ab \in Seq(T) /\ c \in Seq(T) /\ Len(ab) = Len(c) /\ \A j \in 1 .. Len(ab) : ab[j] = c[j]
      BY <1>5, <1>7, <1>9, Zenon
    <2>. HIDE DEF T
    <2>2. QED
      BY <2>1, SeqEqual
  <1>11. QED
    BY <1>6, <1>8, <1>10, Zenon DEF both

(***************************************************************************)
(* The inductive invariant: nothing is written of a single entity before   *)
(* its row is fetched.                                                     *)
(***************************************************************************)
SerializerInv == TypeOK /\ ChunksDoNotShow /\ (single /\ pc = "fetch" => rows = <<>>)

(***************************************************************************)
(* The bounds of a result and of its chunks.                               *)
(***************************************************************************)
LEMMA SerializerBounds == MaxRows \in Nat /\ MaxChunk \in Nat \ {0}
  BY SerializerAssumption, Zenon

(***************************************************************************)
(* It holds at first.                                                      *)
(***************************************************************************)
LEMMA SerializerInit == Init => SerializerInv
  <1>. SUFFICES ASSUME Init PROVE SerializerInv
    OBVIOUS
  <1>1. /\ table \in Tables /\ single \in BOOLEAN /\ pc = "fetch" /\ rows = <<>> /\ body = <<>> /\ rows_out = 0
    BY DEF Init
  <1>2. <<>> \in Seq(RowSet(table)) /\ Len(<<>>) = 0 /\ 0 \in Nat
    OBVIOUS
  <1>3. Objects(table, 0, <<>>) = <<>>
    BY <1>1, <1>2, ObjectsText
  <1>4. TypeOK
    <2>1. MaxRows \in Nat
      BY SerializerBounds
    <2>2. Len(rows) <= MaxRows /\ rows_out \in 0 .. MaxRows
      BY <1>1, <2>1
    <2>3. rows \in Seq(RowSet(table)) /\ (body # <<>> <=> rows # <<>>)
      BY <1>1, <1>2
    <2>4. QED
      BY <1>1, <2>2, <2>3 DEF TypeOK
  <1>5. ChunksDoNotShow
    BY <1>1, <1>2, <1>3, Zenon DEF ChunksDoNotShow
  <1>6. QED
    BY <1>1, <1>4, <1>5, Zenon DEF SerializerInv

(***************************************************************************)
(* A chunk of a collection keeps it: what is written goes on from what has *)
(* been written.                                                           *)
(***************************************************************************)
LEMMA SerializerChunk ==
    ASSUME SerializerInv, NEW n \in Nat \ {0}, Len(rows) + n <= MaxRows, NEW chunk \in [1 .. n -> RowSet(table)],
           SerializeChunk(chunk)
    PROVE  SerializerInv'
  <1>1. /\ table \in Tables /\ single \in BOOLEAN /\ rows \in Seq(RowSet(table)) /\ ~single
        /\ body = Objects(table, 0, rows) /\ rows_out = Len(rows)
    BY DEF SerializerInv, TypeOK, ChunksDoNotShow, SerializeChunk
  <1>2. /\ rows' = rows \o chunk /\ rows_out' = rows_out + Len(chunk)
        /\ body' = body \o Objects(table, rows_out, chunk)
        /\ table' = table /\ single' = single /\ pc' = pc /\ pc = "fetch"
    BY DEF SerializeChunk
  <1>3. chunk \in Seq(RowSet(table)) /\ Len(chunk) = n /\ Len(rows) \in Nat
    BY <1>1
  <1>. DEFINE both == rows \o chunk
  <1>4. both \in Seq(RowSet(table)) /\ Len(both) = Len(rows) + n
    BY <1>1, <1>3, ConcatParts
  <1>5. body' = Objects(table, 0, both)
    <2>1. Objects(table, 0, rows) \o Objects(table, Len(rows), chunk) = Objects(table, 0, both)
      BY <1>1, <1>3, ChunksJoin
    <2>2. QED
      BY <1>1, <1>2, <2>1, Zenon
  <1>. HIDE DEF both
  <1>6. rows' = both /\ rows_out' = Len(both)
    BY <1>1, <1>2, <1>3, <1>4 DEF both
  <1>7. Objects(table, 0, both) # <<>> /\ both # <<>>
    <2>1. Objects(table, 0, both) \in Seq(Characters) /\ Len(both) <= Len(Objects(table, 0, both))
      BY <1>1, <1>4, ObjectsText
    <2>. DEFINE text == Objects(table, 0, both)
    <2>. HIDE DEF text
    <2>2. Len(text) \in Nat /\ Len(both) <= Len(text)
      BY <2>1 DEF text
    <2>3. Len(text) >= 1 /\ Len(both) >= 1
      BY <1>3, <1>4, <2>2
    <2>4. text # <<>> /\ both # <<>>
      BY <2>3
    <2>5. QED
      BY <2>4 DEF text
  <1>8. TypeOK'
    <2>1. Len(rows') <= MaxRows /\ rows_out' \in 0 .. MaxRows
      <3>1. MaxRows \in Nat
        BY SerializerBounds
      <3>2. QED
        BY <1>3, <1>4, <1>6, <3>1
    <2>2. rows' \in Seq(RowSet(table'))
      BY <1>2, <1>4, <1>6, Zenon
    <2>3. (body' # <<>>) <=> (rows' # <<>>)
      BY <1>5, <1>6, <1>7, Zenon
    <2>4. table' \in Tables /\ single' \in BOOLEAN /\ pc' \in {"fetch", "done", "notfound"}
      BY <1>1, <1>2
    <2>5. QED
      BY <2>1, <2>2, <2>3, <2>4, Zenon DEF TypeOK
  <1>9. ChunksDoNotShow'
    <2>1. ~single' /\ body' = Objects(table', 0, rows') /\ rows_out' = Len(rows')
      BY <1>1, <1>2, <1>5, <1>6, Zenon
    <2>2. QED
      BY <2>1, Zenon DEF ChunksDoNotShow
  <1>10. QED
    BY <1>1, <1>2, <1>8, <1>9, Zenon DEF SerializerInv

(***************************************************************************)
(* So does the row of a single entity.                                     *)
(***************************************************************************)
LEMMA SerializerFirstRow ==
    ASSUME SerializerInv, NEW n \in Nat \ {0}, Len(rows) + n <= MaxRows, NEW chunk \in [1 .. n -> RowSet(table)],
           SerializeFirstRowMembers(chunk)
    PROVE  SerializerInv'
  <1>1. /\ table \in Tables /\ single \in BOOLEAN /\ single /\ rows_out \in 0 .. MaxRows
        /\ rows \in Seq(RowSet(table))
    BY DEF SerializerInv, TypeOK, SerializeFirstRowMembers
  <1>2. /\ rows' = <<chunk[1]>> /\ body' = Members(table, chunk[1])
        /\ pc' = "done" /\ table' = table /\ single' = single /\ rows_out' = rows_out
    BY DEF SerializeFirstRowMembers
  <1>3. chunk[1] \in RowSet(table)
    OBVIOUS
  <1>. DEFINE row == chunk[1]
  <1>. HIDE DEF row
  <1>4. row \in RowSet(table) /\ rows' = <<row>> /\ body' = Members(table, row)
    BY <1>2, <1>3, Zenon DEF row
  <1>5. <<row>> \in Seq(RowSet(table)) /\ Len(<<row>>) = 1 /\ <<row>>[1] = row /\ <<row>> # <<>>
    BY <1>4
  <1>6. Members(table, row) # <<>>
    <2>. DEFINE text == Members(table, row)
    <2>1. text \in Seq(Characters) /\ Len(text) >= 1
      BY <1>1, <1>4, MembersText
    <2>. HIDE DEF text
    <2>2. text # <<>>
      BY <2>1
    <2>3. QED
      BY <2>2 DEF text
  <1>7. TypeOK'
    <2>1. Len(rows') <= MaxRows
      <3>1. MaxRows \in Nat /\ Len(rows) \in Nat
        BY <1>1, SerializerBounds
      <3>2. 1 <= MaxRows
        BY <3>1
      <3>3. QED
        BY <1>4, <1>5, <3>2, Zenon
    <2>2. rows' \in Seq(RowSet(table'))
      BY <1>2, <1>4, <1>5, Zenon
    <2>3. (body' # <<>>) <=> (rows' # <<>>)
      BY <1>4, <1>5, <1>6, Zenon
    <2>4. /\ table' \in Tables /\ single' \in BOOLEAN /\ pc' \in {"fetch", "done", "notfound"}
          /\ rows_out' \in 0 .. MaxRows
      BY <1>1, <1>2
    <2>5. QED
      BY <2>1, <2>2, <2>3, <2>4, Zenon DEF TypeOK
  <1>8. ChunksDoNotShow'
    <2>1. rows'[1] = row
      BY <1>4, <1>5, Zenon
    <2>2. single' /\ body' = Members(table', rows'[1])
      BY <1>1, <1>2, <1>4, <2>1, Zenon
    <2>3. QED
      BY <2>2, Zenon DEF ChunksDoNotShow
  <1>9. pc' # "fetch"
    BY <1>2
  <1>10. QED
    BY <1>7, <1>8, <1>9, Zenon DEF SerializerInv

(***************************************************************************)
(* And so does every step.                                                 *)
(***************************************************************************)
LEMMA SerializerNext == SerializerInv /\ [Next]_vars => SerializerInv'
  <1>. SUFFICES ASSUME SerializerInv, [Next]_vars PROVE SerializerInv'
    OBVIOUS
  <1>1. ASSUME NEW n \in 1 .. MaxChunk, Len(rows) + n <= MaxRows, NEW chunk \in [1 .. n -> RowSet(table)],
               SerializeChunk(chunk) \/ SerializeFirstRowMembers(chunk)
        PROVE  SerializerInv'
    <2>1. n \in Nat \ {0}
      BY SerializerBounds
    <2>2. QED
      BY <1>1, <2>1, SerializerChunk, SerializerFirstRow
  <1>2. CASE FetchEnds
    <2>1. /\ pc' \in {"fetch", "done", "notfound"} /\ pc' # "fetch"
          /\ table' = table /\ single' = single /\ rows' = rows /\ body' = body /\ rows_out' = rows_out
      BY <1>2 DEF FetchEnds, SerializerInv, TypeOK
    <2>2. TypeOK'
      BY <2>1, Zenon DEF SerializerInv, TypeOK
    <2>3. ChunksDoNotShow'
      BY <2>1, Zenon DEF SerializerInv, ChunksDoNotShow
    <2>4. QED
      BY <2>1, <2>2, <2>3, Zenon DEF SerializerInv
  <1>3. CASE UNCHANGED vars
    <2>1. /\ table' = table /\ single' = single /\ rows' = rows /\ body' = body /\ rows_out' = rows_out /\ pc' = pc
      BY <1>3 DEF vars
    <2>2. TypeOK'
      BY <2>1, Zenon DEF SerializerInv, TypeOK
    <2>3. ChunksDoNotShow'
      BY <2>1, Zenon DEF SerializerInv, ChunksDoNotShow
    <2>4. QED
      BY <2>1, <2>2, <2>3, Zenon DEF SerializerInv
  <1>4. QED
    BY <1>1, <1>2, <1>3, Zenon DEF Next

(***************************************************************************)
(* SerializeRows, SerializeFirstRowMembers: rows of the table are fetched, *)
(* counted within the result's size, and something is written exactly when *)
(* there are any, for tables, values and chunks of any size.               *)
(***************************************************************************)
THEOREM SerializerTypeCorrect == Spec => []TypeOK
  <1>1. Init => SerializerInv
    BY SerializerInit
  <1>2. SerializerInv /\ [Next]_vars => SerializerInv'
    BY SerializerNext
  <1>3. SerializerInv => TypeOK
    BY DEF SerializerInv
  <1>4. QED
    BY <1>1, <1>2, <1>3, PTL DEF Spec

(***************************************************************************)
(* SerializeRows: however DuckDB cuts a result of whatever columns and     *)
(* values into chunks, the document is the one that a single chunk would   *)
(* have given.                                                             *)
(***************************************************************************)
THEOREM ChunksNeverShow == Spec => []ChunksDoNotShow
  <1>1. Init => SerializerInv
    BY SerializerInit
  <1>2. SerializerInv /\ [Next]_vars => SerializerInv'
    BY SerializerNext
  <1>3. SerializerInv => ChunksDoNotShow
    BY DEF SerializerInv
  <1>4. QED
    BY <1>1, <1>2, <1>3, PTL DEF Spec
=============================================================================
