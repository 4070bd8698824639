------------------------- MODULE InputServiceProofs -------------------------
(***************************************************************************)
(* Theorems about Control Input, for any Clients, panes and keys: whatever *)
(* the handlers, tmux and the watcher do in any order, a stream that ended *)
(* leaves the panes it set at the size it displaced, loses no keystroke of *)
(* a plain event while it goes on, and fails only for a cause.             *)
(***************************************************************************)
EXTENDS InputService, SequenceTheorems, WellFoundedInduction, TLAPS

-----------------------------------------------------------------------------
(***************************************************************************)
(* Induction over the natural numbers, from the least number principle.    *)
(***************************************************************************)
\* Every set of natural numbers has a least one.
LEMMA LeastNumber ==
  ASSUME NEW T \in SUBSET Nat, T # {}
  PROVE  \E n \in T : \A m \in T : n <= m
<1>1. PICK R : R = {p \in Nat \X Nat : p[1] < p[2]}
  OBVIOUS
<1>2. IsWellFoundedOn(R, Nat)
  BY <1>1, NatLessThanWellFounded DEF OpToRel
<1>3. PICK x \in T : \A y \in T : ~ (<<y, x>> \in R)
  BY <1>2, WFMin
<1>4. \A y \in T : ~(y < x)
  BY <1>1, <1>3
<1> QED
  BY <1>4

\* A set with 0 that is closed under successor has them all.
LEMMA Induction ==
  ASSUME NEW T, 0 \in T, \A n \in Nat : n \in T => n + 1 \in T
  PROVE  \A n \in Nat : n \in T
<1> SUFFICES ASSUME Nat \ T # {} PROVE FALSE
  OBVIOUS
<1>1. PICK x \in Nat \ T : \A m \in Nat \ T : x <= m
  BY LeastNumber
<1>2. x # 0 /\ x - 1 \in Nat /\ x - 1 + 1 = x
  BY <1>1
<1>3. x - 1 \in T
  BY <1>1, <1>2
<1> QED
  BY <1>1, <1>2, <1>3

-----------------------------------------------------------------------------
(***************************************************************************)
(* Sequences of sequences.                                                 *)
(***************************************************************************)
\* What the fold of FlattenSeq computes of the first n sequences of q.
Folds(f, q, n) == f = [i \in 1 .. n |-> IF i = 1 THEN q[i] ELSE f[i - 1] \o q[i]]

\* The fold exists.
LEMMA FoldExists ==
  ASSUME NEW q, NEW n \in Nat
  PROVE  \E f : Folds(f, q, n)
<1>1. PICK T : T = {m \in Nat : \E f : Folds(f, q, m)}
  OBVIOUS
<1>2. 0 \in T
  <2>1. 1 .. 0 = {}
    OBVIOUS
  <2>2. PICK f : f = [i \in 1 .. 0 |-> {}]
    OBVIOUS
  <2>3. f = [i \in 1 .. 0 |-> IF i = 1 THEN q[i] ELSE f[i - 1] \o q[i]]
    BY <2>1, <2>2
  <2> QED
    BY <1>1, <2>3 DEF Folds
<1>3. ASSUME NEW m \in Nat, m \in T
      PROVE  m + 1 \in T
  <2>1. PICK f : Folds(f, q, m)
    BY <1>1, <1>3
  <2>2. PICK last : last = IF m + 1 = 1 THEN q[m + 1] ELSE f[m] \o q[m + 1]
    OBVIOUS
  <2>3. PICK g : g = [i \in 1 .. m + 1 |-> IF i = m + 1 THEN last ELSE f[i]]
    OBVIOUS
  <2>4. ASSUME NEW i \in 1 .. m + 1
        PROVE  g[i] = IF i = 1 THEN q[i] ELSE g[i - 1] \o q[i]
    <3>1. i \in 1 .. m \/ i = m + 1
      OBVIOUS
    <3>2. i # 1 => i - 1 \in 1 .. m /\ i - 1 \in 1 .. m + 1 /\ i - 1 # m + 1
      OBVIOUS
    <3>3. i # 1 => g[i - 1] = f[i - 1]
      BY <2>3, <3>2
    <3>4. CASE i = m + 1
      <4>1. i - 1 = m
        BY <3>4
      <4> QED
        BY <2>2, <2>3, <3>3, <3>4, <4>1
    <3>5. CASE i \in 1 .. m
      <4>1. i # m + 1
        BY <3>5
      <4>2. f[i] = IF i = 1 THEN q[i] ELSE f[i - 1] \o q[i]
        BY <2>1, <3>5 DEF Folds
      <4> QED
        BY <2>3, <3>3, <4>1, <4>2
    <3> QED
      BY <3>1, <3>4, <3>5
  <2>5. Folds(g, q, m + 1)
    BY <2>3, <2>4 DEF Folds
  <2> QED
    BY <1>1, <2>5
<1>4. \A m \in Nat : m \in T
  BY <1>2, <1>3, Induction
<1> QED
  BY <1>1, <1>4

\* It is unique, and only depends on the sequences it folds.
LEMMA FoldUnique ==
  ASSUME NEW q, NEW b, NEW f, NEW g, NEW n \in Nat, NEW m \in Nat, n <= m,
         \A i \in 1 .. n : b[i] = q[i], Folds(f, q, n), Folds(g, b, m)
  PROVE  \A i \in 1 .. n : f[i] = g[i]
<1>1. PICK T : T = {i \in Nat : i \in 1 .. n => f[i] = g[i]}
  OBVIOUS
<1>2. 0 \in T
  BY <1>1
<1>3. ASSUME NEW i \in Nat, i \in T
      PROVE  i + 1 \in T
  <2> SUFFICES ASSUME i + 1 \in 1 .. n PROVE f[i + 1] = g[i + 1]
    BY <1>1
  <2>1. PICK k : k = i + 1
    OBVIOUS
  <2>2. k \in 1 .. n /\ k \in 1 .. m /\ k - 1 = i /\ (k # 1 => i \in 1 .. n)
    BY <2>1
  <2>3. f[k] = IF k = 1 THEN q[k] ELSE f[k - 1] \o q[k]
    BY <2>2 DEF Folds
  <2>4. g[k] = IF k = 1 THEN b[k] ELSE g[k - 1] \o b[k]
    BY <2>2 DEF Folds
  <2>5. k # 1 => f[k - 1] = g[k - 1]
    BY <1>1, <1>3, <2>2
  <2>6. b[k] = q[k]
    BY <2>2
  <2> QED
    BY <2>1, <2>3, <2>4, <2>5, <2>6
<1>4. \A i \in Nat : i \in T
  BY <1>2, <1>3, Induction
<1>5. \A i \in 1 .. n : i \in Nat
  OBVIOUS
<1> QED
  BY <1>1, <1>4, <1>5

\* FlattenSeq is the last of the fold.
LEMMA FlattenFolds ==
  ASSUME NEW q, Len(q) \in Nat
  PROVE  /\ Len(q) = 0 => FlattenSeq(q) = q
         /\ Len(q) # 0 => \E f : Folds(f, q, Len(q)) /\ FlattenSeq(q) = f[Len(q)]
<1>1. PICK n \in Nat : n = Len(q)
  OBVIOUS
<1>2. PICK h : h = CHOOSE f : f = [i \in 1 .. n |-> IF i = 1 THEN q[i] ELSE f[i - 1] \o q[i]]
  OBVIOUS
<1>3. \E f : f = [i \in 1 .. n |-> IF i = 1 THEN q[i] ELSE f[i - 1] \o q[i]]
  BY FoldExists DEF Folds
<1>4. h = [i \in 1 .. n |-> IF i = 1 THEN q[i] ELSE h[i - 1] \o q[i]]
  BY <1>2, <1>3
<1>5. Len(q) # 0 => FlattenSeq(q) = h[n]
  BY <1>1, <1>2 DEF FlattenSeq
<1>6. Len(q) = 0 => FlattenSeq(q) = q
  BY DEF FlattenSeq
<1> QED
  BY <1>1, <1>4, <1>5, <1>6 DEF Folds

\* It is a sequence of what its sequences hold.
LEMMA FlattenType ==
  ASSUME NEW S, NEW q \in Seq(Seq(S))
  PROVE  FlattenSeq(q) \in Seq(S)
<1>1. PICK n \in Nat : n = Len(q)
  BY LenProperties
<1>2. \A i \in 1 .. n : q[i] \in Seq(S)
  BY <1>1, ElementOfSeq
<1>3. CASE n = 0
  <2>1. q = <<>>
    BY <1>1, <1>3, EmptySeq
  <2>2. FlattenSeq(q) = q
    BY <1>1, <1>3, FlattenFolds
  <2> QED
    BY <2>1, <2>2, EmptySeq
<1>4. CASE n # 0
  <2>1. PICK f : Folds(f, q, n) /\ FlattenSeq(q) = f[n]
    BY <1>1, <1>4, FlattenFolds
  <2>2. PICK T : T = {i \in Nat : i \in 1 .. n => f[i] \in Seq(S)}
    OBVIOUS
  <2>3. 0 \in T
    BY <2>2
  <2>4. ASSUME NEW i \in Nat, i \in T
        PROVE  i + 1 \in T
    <3> SUFFICES ASSUME i + 1 \in 1 .. n PROVE f[i + 1] \in Seq(S)
      BY <2>2
    <3>1. PICK k : k = i + 1
      OBVIOUS
    <3>2. k \in 1 .. n /\ k - 1 = i /\ (k # 1 => i \in 1 .. n)
      BY <3>1
    <3>3. f[k] = IF k = 1 THEN q[k] ELSE f[k - 1] \o q[k]
      BY <2>1, <3>2 DEF Folds
    <3>4. q[k] \in Seq(S)
      BY <1>2, <3>2
    <3>5. k # 1 => f[k - 1] \in Seq(S)
      BY <2>2, <2>4, <3>2
    <3>6. k # 1 => f[k - 1] \o q[k] \in Seq(S)
      BY <3>4, <3>5, ConcatProperties
    <3> QED
      BY <3>1, <3>3, <3>4, <3>6
  <2>5. \A i \in Nat : i \in T
    BY <2>3, <2>4, Induction
  <2>6. n \in 1 .. n
    BY <1>4
  <2> QED
    BY <2>1, <2>2, <2>5, <2>6
<1> QED
  BY <1>3, <1>4

\* A sequence more adds what it holds.
LEMMA FlattenAppend ==
  ASSUME NEW S, NEW q \in Seq(Seq(S)), NEW e \in Seq(S)
  PROVE  FlattenSeq(Append(q, e)) = FlattenSeq(q) \o e
<1>1. PICK n \in Nat : n = Len(q)
  BY LenProperties
<1>2. PICK b \in Seq(Seq(S)) : b = Append(q, e) /\ Len(b) = n + 1
  BY <1>1, AppendProperties
<1>3. b[n + 1] = e /\ \A i \in 1 .. n : b[i] = q[i]
  BY <1>1, <1>2, AppendProperties
<1>4. PICK m \in Nat : m = n + 1 /\ m # 0 /\ n <= m /\ m \in 1 .. m /\ m - 1 = n
  OBVIOUS
<1>5. Len(b) = m
  BY <1>2, <1>4
<1>6. PICK g : Folds(g, b, m) /\ FlattenSeq(b) = g[m]
  BY <1>4, <1>5, FlattenFolds
<1>7. g[m] = IF m = 1 THEN b[m] ELSE g[m - 1] \o b[m]
  BY <1>4, <1>6 DEF Folds
<1>8. CASE n = 0
  <2>1. q = <<>>
    BY <1>1, <1>8, EmptySeq
  <2>2. FlattenSeq(q) = <<>>
    BY <1>1, <1>8, <2>1, FlattenFolds
  <2>3. <<>> \o e = e
    BY ConcatEmptySeq
  <2> QED
    BY <1>2, <1>3, <1>4, <1>6, <1>7, <1>8, <2>2, <2>3
<1>9. CASE n # 0
  <2>1. PICK f : Folds(f, q, n) /\ FlattenSeq(q) = f[n]
    BY <1>1, <1>9, FlattenFolds
  <2>2. \A i \in 1 .. n : f[i] = g[i]
    <3>1. Folds(f, q, n) /\ Folds(g, b, m) /\ n <= m
      BY <1>4, <1>6, <2>1
    <3>2. \A i \in 1 .. n : b[i] = q[i]
      BY <1>3
    <3> QED
      BY <3>1, <3>2, FoldUnique
  <2>3. n \in 1 .. n /\ m # 1
    BY <1>4, <1>9
  <2> QED
    BY <1>2, <1>3, <1>4, <1>6, <1>7, <2>1, <2>2, <2>3
<1> QED
  BY <1>8, <1>9

\* Flattening a sequence cut into single elements gives it back.
LEMMA FlattenSingles ==
  ASSUME NEW S, NEW d \in Seq(S)
  PROVE  FlattenSeq([i \in 1 .. Len(d) |-> <<d[i]>>]) = d
<1>1. PICK T : T = {n \in Nat : \A s \in Seq(S) : Len(s) = n =>
                      FlattenSeq([i \in 1 .. n |-> <<s[i]>>]) = s}
  OBVIOUS
<1>2. 0 \in T
  <2>1. ASSUME NEW s \in Seq(S), Len(s) = 0
        PROVE  FlattenSeq([i \in 1 .. 0 |-> <<s[i]>>]) = s
    <3>1. s = <<>>
      BY <2>1, EmptySeq
    <3>2. PICK q : q = [i \in 1 .. 0 |-> <<s[i]>>]
      OBVIOUS
    <3>3. q = <<>> /\ Len(q) = 0
      <4>1. q \in Seq({})
        BY <3>2
      <4>2. Len(q) = 0
        BY <3>2
      <4> QED
        BY <4>1, <4>2, EmptySeq
    <3>4. FlattenSeq(q) = q
      BY <3>3, FlattenFolds
    <3> QED
      BY <3>1, <3>2, <3>3, <3>4
  <2> QED
    BY <1>1, <2>1
<1>3. ASSUME NEW n \in Nat, n \in T
      PROVE  n + 1 \in T
  <2> SUFFICES ASSUME NEW s \in Seq(S), Len(s) = n + 1
               PROVE  FlattenSeq([i \in 1 .. n + 1 |-> <<s[i]>>]) = s
    <3>1. n + 1 \in Nat
      OBVIOUS
    <3> QED
      BY <1>1, <3>1
  <2>1. PICK q : q = [i \in 1 .. n |-> <<s[i]>>]
    OBVIOUS
  <2>2. PICK b : b = [i \in 1 .. n + 1 |-> <<s[i]>>]
    OBVIOUS
  <2>3. n + 1 \in 1 .. n + 1 /\ \A i \in 1 .. n : i \in 1 .. n + 1
    OBVIOUS
  <2>4. \A i \in 1 .. n + 1 : s[i] \in S
    BY ElementOfSeq
  <2>5. PICK last \in Seq(S) : last = <<s[n + 1]>> /\ Len(last) = 1 /\ last[1] = s[n + 1]
    <3>1. PICK x \in S : x = s[n + 1]
      BY <2>3, <2>4
    <3>2. <<x>> \in Seq(S)
      OBVIOUS
    <3>3. Len(<<x>>) = 1 /\ <<x>>[1] = x
      OBVIOUS
    <3> QED
      BY <3>1, <3>2, <3>3
  <2>6. q \in Seq(Seq(S)) /\ Len(q) = n
    <3>1. \A i \in 1 .. n : <<s[i]>> \in Seq(S)
      BY <2>3, <2>4
    <3> QED
      BY <2>1, <3>1
  <2>7. b = Append(q, last)
    <3>1. PICK c \in Seq(Seq(S)) : c = Append(q, last)
      BY <2>6, AppendProperties
    <3>2. Len(c) = n + 1 /\ c[n + 1] = last
      BY <2>6, <3>1, AppendProperties
    <3>3. \A i \in 1 .. n : c[i] = q[i]
      BY <2>6, <3>1, AppendProperties
    <3>4. \A i \in 1 .. n + 1 : <<s[i]>> \in Seq(S)
      BY <2>4
    <3>5. b \in Seq(Seq(S)) /\ Len(b) = n + 1
      BY <2>2, <3>4
    <3>6. \A i \in 1 .. n + 1 : i \in 1 .. n \/ i = n + 1
      OBVIOUS
    <3>7. \A i \in 1 .. n + 1 : c[i] = b[i]
      BY <2>1, <2>2, <2>3, <2>5, <3>6, <3>2, <3>3
    <3> QED
      BY <3>1, <3>5, <3>7, <3>2, SeqEqual
  <2>8. PICK front \in Seq(S) : Len(front) = n /\ \A i \in 1 .. n : front[i] = s[i]
    <3>1. PICK front : front = [i \in 1 .. n |-> s[i]]
      OBVIOUS
    <3>2. front \in Seq(S) /\ Len(front) = n
      BY <2>3, <2>4, <3>1
    <3> QED
      BY <3>1, <3>2
  <2>9. FlattenSeq(q) = front
    <3>1. q = [i \in 1 .. n |-> <<front[i]>>]
      BY <2>1, <2>8
    <3> QED
      BY <1>1, <1>3, <2>8, <3>1
  <2>10. FlattenSeq(b) = front \o last
    BY <2>5, <2>6, <2>7, <2>9, FlattenAppend
  <2>11. front \o last = s
    <3>1. PICK c : c = front \o last
      OBVIOUS
    <3>2. c \in Seq(S) /\ Len(c) = Len(front) + Len(last)
      BY <3>1, ConcatProperties
    <3>3. Len(c) = n + 1
      BY <2>5, <2>8, <3>2
    <3>4. \A i \in 1 .. Len(front) + Len(last) :
            c[i] = IF i <= Len(front) THEN front[i] ELSE last[i - Len(front)]
      BY <3>1, ConcatProperties
    <3>5. \A i \in 1 .. n + 1 : c[i] = IF i <= n THEN front[i] ELSE last[i - n]
      BY <2>5, <2>8, <3>4
    <3>6. \A i \in 1 .. n + 1 : (i <= n /\ i \in 1 .. n) \/ (~(i <= n) /\ i = n + 1 /\ i - n = 1)
      OBVIOUS
    <3>7. \A i \in 1 .. n + 1 : c[i] = s[i]
      BY <2>5, <2>8, <3>5, <3>6
    <3> QED
      BY <3>1, <3>2, <3>3, <3>7, SeqEqual
  <2> QED
    BY <2>2, <2>10, <2>11
<1>4. \A n \in Nat : n \in T
  BY <1>2, <1>3, Induction
<1> QED
  BY <1>1, <1>4, LenProperties

-----------------------------------------------------------------------------
(***************************************************************************)
(* The bytes of an event are cut into runs, and every run arrives whole.   *)
(***************************************************************************)
Data == Seq(0 .. 255)

\* There is a first run: it is not empty, of one class, and as long as it can be.
LEMMA RunIsOfOneClass ==
  ASSUME NEW d \in Data, d # <<>>
  PROVE  /\ RunLength(d) \in 1 .. Len(d)
         /\ \A i \in 1 .. RunLength(d) : isControl(d[i]) = isControl(d[1])
         /\ RunLength(d) < Len(d) => isControl(d[RunLength(d) + 1]) # isControl(d[1])
<1>1. PICK l \in Nat : l = Len(d)
  BY LenProperties DEF Data
<1>2. l # 0
  BY <1>1, EmptySeq DEF Data
<1>3. PICK T : T = {n \in 1 .. l : n < l => isControl(d[n + 1]) # isControl(d[1])}
  OBVIOUS
<1>4. T \subseteq Nat /\ l \in T
  BY <1>2, <1>3
<1>5. PICK n \in T : \A m \in T : n <= m
  BY <1>4, LeastNumber
<1>6. ASSUME NEW i \in 1 .. n, isControl(d[i]) # isControl(d[1])
      PROVE  FALSE
  <2>1. PICK U : U = {m \in Nat : m \in 1 .. n /\ isControl(d[m]) # isControl(d[1])}
    OBVIOUS
  <2>2. U \subseteq Nat /\ i \in U
    BY <1>3, <1>5, <1>6, <2>1
  <2>3. PICK x \in U : \A m \in U : x <= m
    BY <2>2, LeastNumber
  <2>4. x \in 1 .. n /\ isControl(d[x]) # isControl(d[1])
    BY <2>1, <2>3
  <2>5. x # 1
    BY <2>4
  <2>6. n \in 1 .. l
    BY <1>3, <1>5
  <2>7. PICK y : y = x - 1
    OBVIOUS
  <2>8. y \in 1 .. l /\ y < l /\ y < n /\ y + 1 = x
    BY <2>4, <2>5, <2>6, <2>7
  <2>9. y \in T
    BY <1>3, <2>4, <2>8
  <2> QED
    BY <1>5, <2>6, <2>8, <2>9
<1>7. \E m \in 1 .. Len(d) :
        /\ \A i \in 1 .. m : isControl(d[i]) = isControl(d[1])
        /\ m < Len(d) => isControl(d[m + 1]) # isControl(d[1])
  BY <1>1, <1>3, <1>5, <1>6
<1> QED
  BY <1>7 DEF RunLength

\* The first run and the rest are the data.
LEMMA RunsAreTheData ==
  ASSUME NEW d \in Data, d # <<>>
  PROVE  /\ FirstRun(d) \in Data /\ RestOf(d) \in Data
         /\ FirstRun(d) \o RestOf(d) = d
<1>1. PICK l \in Nat : l = Len(d)
  BY LenProperties DEF Data
<1>2. PICK n \in 1 .. l : n = RunLength(d)
  BY <1>1, RunIsOfOneClass
<1>3. /\ 1 \in Int /\ n \in Int /\ n + 1 \in Int /\ l \in Int
      /\ 1 \in 1 .. l + 1 /\ n \in 1 - 1 .. l /\ l \in n .. l
  BY <1>1
<1>4. \A i \in 1 .. l : d[i] \in 0 .. 255
  BY <1>1, ElementOfSeq DEF Data
<1>5. SubSeq(d, 1, n) \in Data
  <2>1. \A i \in 1 .. n : d[i] \in 0 .. 255
    BY <1>2, <1>4
  <2> QED
    BY <1>3, <2>1, SubSeqProperties DEF Data
<1>6. SubSeq(d, n + 1, l) \in Data
  <2>1. \A i \in n + 1 .. l : d[i] \in 0 .. 255
    BY <1>2, <1>4
  <2> QED
    BY <1>3, <2>1, SubSeqProperties DEF Data
<1>7. SubSeq(d, 1, n) \o SubSeq(d, n + 1, l) = SubSeq(d, 1, l)
  BY <1>1, <1>3, ConcatAdjacentSubSeq DEF Data
<1>8. SubSeq(d, 1, l) = d
  BY <1>1, SubSeqFull DEF Data
<1> QED
  BY <1>1, <1>2, <1>5, <1>6, <1>7, <1>8 DEF FirstRun, RestOf

\* The bytes of the first run and of the rest are those of the data.
LEMMA BytesOfRuns ==
  ASSUME NEW d \in Data, d # <<>>
  PROVE  /\ Len(FirstRun(d)) = RunLength(d)
         /\ \A i \in 1 .. RunLength(d) : i \in 1 .. Len(d) /\ FirstRun(d)[i] = d[i]
         /\ Len(RestOf(d)) = Len(d) - RunLength(d)
         /\ \A i \in 1 .. Len(RestOf(d)) :
              i + RunLength(d) \in 1 .. Len(d) /\ RestOf(d)[i] = d[i + RunLength(d)]
<1>1. PICK l \in Nat : l = Len(d)
  BY LenProperties DEF Data
<1>2. PICK n \in 1 .. l : n = RunLength(d)
  BY <1>1, RunIsOfOneClass
<1>3. /\ 1 \in Int /\ n \in Int /\ n \in Nat /\ n - 1 + 1 = n /\ n + 1 \in Int /\ l \in Int
      /\ l - (n + 1) + 1 = l - n /\ l - n \in Nat
  BY <1>1
<1>4. Len(SubSeq(d, 1, n)) = n /\ \A i \in 1 .. n : SubSeq(d, 1, n)[i] = d[i]
  <2>1. \A i \in 1 .. n : d[i] \in 0 .. 255
    <3>1. \A i \in 1 .. n : i \in 1 .. l
      OBVIOUS
    <3> QED
      BY <1>1, <3>1, ElementOfSeq DEF Data
  <2>2. Len(SubSeq(d, 1, n)) = n
    BY <1>3, <2>1, SubSeqProperties
  <2>3. \A i \in 1 .. n : SubSeq(d, 1, n)[i] = d[1 + i - 1]
    BY <1>3, <2>1, SubSeqProperties
  <2>4. \A i \in 1 .. n : 1 + i - 1 = i
    BY <1>3
  <2> QED
    BY <2>2, <2>3, <2>4
<1>5. Len(SubSeq(d, n + 1, l)) = l - n /\ \A i \in 1 .. l - n : SubSeq(d, n + 1, l)[i] = d[i + n]
  <2>1. PICK m \in Nat : m = n + 1 /\ m \in Int /\ l - m + 1 = l - n
    BY <1>1
  <2>2. \A i \in m .. l : d[i] \in 0 .. 255
    <3>1. \A i \in m .. l : i \in 1 .. l
      BY <1>1, <2>1
    <3> QED
      BY <1>1, <3>1, ElementOfSeq DEF Data
  <2>3. m \in 1 .. l + 1 /\ l \in m - 1 .. l
    BY <1>1, <2>1
  <2>4. m <= l + 1 /\ (l < m => l - n = 0)
    BY <1>1, <2>1
  <2>5. Len(SubSeq(d, m, l)) = l - n
    BY <1>1, <1>3, <2>1, <2>2, <2>3, <2>4, SubSeqProperties DEF Data
  <2>6. \A i \in 1 .. l - n : SubSeq(d, m, l)[i] = d[m + i - 1]
    BY <1>1, <1>3, <2>1, <2>2, <2>3, <2>5, SubSeqProperties DEF Data
  <2>7. \A i \in 1 .. l - n : m + i - 1 = i + n
    BY <1>1, <2>1
  <2> QED
    BY <2>1, <2>5, <2>6, <2>7
<1>6. /\ \A i \in 1 .. n : i \in 1 .. l
      /\ \A i \in 1 .. l - n : i + n \in 1 .. l
  BY <1>1
<1> QED
  BY <1>1, <1>2, <1>4, <1>5, <1>6 DEF FirstRun, RestOf

\* A run of plain data that begins with a tilde is quoted.
LEMMA PlainRun ==
  ASSUME NEW d \in Data, d # <<>>, Plain(d)
  PROVE  ~Expands(KeysOp(d), FirstRun(d))
<1> SUFFICES ASSUME Expands(KeysOp(d), FirstRun(d)) PROVE FALSE
  OBVIOUS
<1>1. PICK n \in Nat, l \in Nat : n = RunLength(d) /\ l = Len(d) /\ n \in 1 .. l /\ 1 \in 1 .. n
  BY RunIsOfOneClass, LenProperties DEF Data
<1>2. Len(FirstRun(d)) = n /\ \A i \in 1 .. n : FirstRun(d)[i] = d[i]
  BY <1>1, BytesOfRuns
<1>3. KeysOp(d) = "bare" /\ FirstRun(d)[1] = Tilde
  BY DEF Expands
<1>4. ~isControl(d[1]) /\ ~Quoted(FirstRun(d)) /\ d[1] = Tilde
  BY <1>1, <1>2, <1>3 DEF KeysOp
<1>5. PICK j \in 1 .. l : d[j] \in Special /\ \A k \in 1 .. j : ~isControl(d[k])
  <2>1. 1 \in 1 .. l
    BY <1>1
  <2> QED
    BY <1>1, <1>4, <2>1 DEF Plain
<1>6. CASE j <= n
  <2>1. j \in 1 .. n
    BY <1>1, <1>6
  <2>2. FirstRun(d)[j] \in Special
    BY <1>2, <1>5, <2>1
  <2> QED
    BY <1>2, <1>4, <2>1, <2>2 DEF Quoted
<1>7. CASE n < j
  <2>1. n < l /\ n + 1 \in 1 .. j
    BY <1>1, <1>7
  <2>2. isControl(d[n + 1]) # isControl(d[1])
    BY <1>1, <2>1, RunIsOfOneClass
  <2>3. ~isControl(d[n + 1])
    BY <1>5, <2>1
  <2>4. isControl(d[n + 1]) \in BOOLEAN /\ isControl(d[1]) \in BOOLEAN
    BY DEF isControl
  <2> QED
    BY <1>4, <2>2, <2>3, <2>4
<1> QED
  BY <1>1, <1>6, <1>7

\* What follows the first run of plain data is plain.
LEMMA PlainRest ==
  ASSUME NEW d \in Data, d # <<>>, Plain(d)
  PROVE  Plain(RestOf(d))
<1>1. PICK n \in Nat, l \in Nat : n = RunLength(d) /\ l = Len(d) /\ n \in 1 .. l
  BY RunIsOfOneClass, LenProperties DEF Data
<1>2. PICK r \in Data : r = RestOf(d)
  BY RunsAreTheData
<1>3. PICK m \in Nat : m = Len(r) /\ m = l - n
  <2>1. l - n \in Nat
    BY <1>1
  <2> QED
    BY <1>1, <1>2, <2>1, BytesOfRuns
<1>4. \A i \in 1 .. m : i + n \in 1 .. l /\ r[i] = d[i + n]
  BY <1>1, <1>2, <1>3, BytesOfRuns
<1> SUFFICES ASSUME NEW i \in 1 .. m, r[i] = Tilde, i = 1 \/ isControl(r[i - 1])
             PROVE  \E j \in i .. m : r[j] \in Special /\ \A k \in i .. j : ~isControl(r[k])
  BY <1>2, <1>3 DEF Plain
<1>5. PICK x \in 1 .. l : x = i + n /\ x # 1 /\ d[x] = Tilde
  <2>1. i + n # 1
    BY <1>1
  <2> QED
    BY <1>4, <2>1
<1>6. isControl(d[x - 1])
  <2>1. CASE i = 1
    <3>1. x - 1 = n /\ x = n + 1 /\ n < l
      BY <1>1, <1>5, <2>1
    <3>2. isControl(d[x]) # isControl(d[1]) /\ isControl(d[n]) = isControl(d[1])
      <4>1. isControl(d[n + 1]) # isControl(d[1])
        BY <1>1, <3>1, RunIsOfOneClass
      <4>2. isControl(d[n]) = isControl(d[1])
        <5>1. n \in 1 .. n
          BY <1>1
        <5> QED
          BY <1>1, <5>1, RunIsOfOneClass
      <4> QED
        BY <3>1, <4>1, <4>2
    <3>3. ~isControl(d[x])
      BY <1>5 DEF isControl, Tilde
    <3>4. isControl(d[x]) \in BOOLEAN /\ isControl(d[1]) \in BOOLEAN /\ isControl(d[n]) \in BOOLEAN
      BY DEF isControl
    <3> QED
      BY <3>1, <3>2, <3>3, <3>4
  <2>2. CASE i # 1
    <3>1. PICK y \in 1 .. m : y = i - 1 /\ y + n = x - 1
      BY <1>3, <1>5, <2>2
    <3>2. r[y] = d[x - 1]
      BY <1>4, <3>1
    <3> QED
      BY <2>2, <3>1, <3>2
  <2> QED
    BY <2>1, <2>2
<1>7. PICK j \in x .. l : d[j] \in Special /\ \A k \in x .. j : ~isControl(d[k])
  BY <1>1, <1>5, <1>6 DEF Plain
<1>8. PICK y \in i .. m : y + n = j
  <2>1. j - n \in i .. m /\ (j - n) + n = j
    BY <1>1, <1>3, <1>5, <1>7
  <2> QED
    BY <2>1
<1>9. r[y] \in Special
  <2>1. y \in 1 .. m
    OBVIOUS
  <2> QED
    BY <1>4, <1>7, <1>8, <2>1
<1>10. ASSUME NEW k \in i .. y
       PROVE  ~isControl(r[k])
  <2>1. k \in 1 .. m /\ k + n \in x .. j
    BY <1>1, <1>3, <1>5, <1>7, <1>8
  <2>2. r[k] = d[k + n]
    BY <1>4, <2>1
  <2> QED
    BY <1>7, <2>1, <2>2
<1> QED
  BY <1>9, <1>10

\* A pty receives the first run of plain data byte for byte, whichever command
\* carries it.
LEMMA RunArrivesWhole ==
  ASSUME NEW d \in Data, d # <<>>, Plain(d)
  PROVE  ReceivedAll(KeysOp(d), FirstRun(d)) = FirstRun(d)
<1>1. PICK op : op = KeysOp(d)
  OBVIOUS
<1>2. PICK r \in Data : r = FirstRun(d)
  BY RunsAreTheData
<1>3. PICK n : n = RunLength(d) /\ n \in 1 .. Len(d)
  BY RunIsOfOneClass
<1>4. Len(r) = n /\ \A i \in 1 .. n : r[i] = d[i]
  BY <1>2, <1>3, BytesOfRuns
<1>5. ASSUME NEW i \in 1 .. n
      PROVE  Received(op, r[i]) = <<r[i]>>
  <2>1. PICK b \in 0 .. 255 : b = r[i]
    BY <1>2, <1>4, ElementOfSeq DEF Data
  <2>2. isControl(b) = isControl(d[1])
    BY <1>3, <1>4, <2>1, RunIsOfOneClass
  <2>3. CASE isControl(d[1])
    <3>1. op = "hex"
      BY <1>1, <2>3 DEF KeysOp
    <3>2. isControl(b)
      BY <2>2, <2>3
    <3>3. b < 128
      BY <3>2 DEF isControl
    <3> QED
      BY <2>1, <3>1, <3>3 DEF Received
  <2>4. CASE ~isControl(d[1])
    <3>1. ~isControl(b)
      BY <2>2, <2>4
    <3>2. b >= 32 /\ b # 127
      BY <3>1 DEF isControl
    <3>3. CASE Quoted(r)
      <4>1. op = "literal"
        BY <1>1, <1>2, <2>4, <3>3 DEF KeysOp
      <4> QED
        BY <2>1, <3>2, <4>1 DEF Received
    <3>4. CASE ~Quoted(r)
      <4>1. op = "bare"
        BY <1>1, <1>2, <2>4, <3>4 DEF KeysOp
      <4>2. b \notin Special
        BY <1>4, <2>1, <3>4 DEF Quoted
      <4> QED
        BY <2>1, <3>2, <4>1, <4>2 DEF Received
    <3> QED
      BY <3>3, <3>4
  <2> QED
    BY <2>3, <2>4
<1>6. [i \in 1 .. Len(r) |-> Received(op, r[i])] = [i \in 1 .. Len(r) |-> <<r[i]>>]
  BY <1>4, <1>5
<1>7. FlattenSeq([i \in 1 .. Len(r) |-> <<r[i]>>]) = r
  BY FlattenSingles DEF Data
<1>8. ~Expands(op, r)
  BY <1>1, <1>2, PlainRun
<1> QED
  BY <1>1, <1>2, <1>6, <1>7, <1>8 DEF ReceivedAll

-----------------------------------------------------------------------------
(***************************************************************************)
(* The types of the state, and what the handlers write.                    *)
(***************************************************************************)
Ops == {"hex", "literal", "bare", "drive", "restore"}
Commands == [stream : Streams, op : Ops, pane : Panes, size : Sizes, data : Data,
             live : BOOLEAN, event : Nat]
Kinds == {"none", "keys", "resize", "restore", "restoreAll"}
Injections == [kind : Kinds, pane : Panes \cup {NothingToInject.pane}, size : Sizes, rest : Data]
Runs == [event : Nat, data : Data]
States == {"idle", "select", "inject", "waiting", "restoring", "ended"}

InputTypeOK ==
  /\ size \in [Panes -> Sizes] /\ hub \in [Panes -> Sizes]
  /\ listing \in [Panes -> Sizes] \cup {<<>>}
  /\ line \in Seq(Commands)
  /\ tmuxUp \in BOOLEAN /\ dirty \in BOOLEAN /\ down \in BOOLEAN
  /\ setBy \in [Panes -> Streams \cup {NoOne}]
  /\ got \in [Streams -> Seq(Runs)]
  /\ st \in [Streams -> States]
  /\ cur \in [Streams -> Injections]
  /\ reply \in [Streams -> {"none", "ok", "error"}]
  /\ saved \in [Streams -> [Panes -> Sizes]] /\ origin \in [Streams -> [Panes -> Sizes]]
  /\ summary \in [Streams -> Nat] /\ taken \in [Streams -> Nat]
  /\ result \in [Streams -> {"none", "ok", "shutdown", "error"}]
  /\ sent \in [Streams -> Seq(Events)]
  /\ \A s \in Streams : taken[s] <= Len(sent[s])
  /\ closed \subseteq Streams /\ gone \subseteq Streams

Busy(s) == st[s] \in {"inject", "waiting"}

\* The injection of a busy handler is one of an event or of restoreAll, to a
\* pane; a resize and a restore carry a size, and keys not yet complete bytes.
InjectionsOK ==
  /\ \A s \in Streams : Busy(s) => cur[s].kind # "none" /\ cur[s].pane \in Panes
  /\ \A s \in Streams : cur[s].kind # "keys" => cur[s].rest = <<>>
  /\ \A s \in Streams : Busy(s) /\ cur[s].kind # "keys" => cur[s].size # 0
  /\ \A s \in Streams : st[s] = "inject" /\ cur[s].kind = "keys" => cur[s].rest # <<>>
  /\ \A s \in Streams : Busy(s) /\ cur[s].kind = "keys" => taken[s] > 0

\* What an event holds.
LEMMA EventFacts ==
  ASSUME NEW e \in Events
  PROVE  /\ e.pane \in Panes /\ e.data \in Data /\ e.size \in Nat
         /\ e.kind = "keys" => e.data # <<>>
<1>1. <<>> \in Data /\ 0 \in Nat
  BY DEF Data
<1>2. ASSUME NEW p \in Panes, NEW d \in KeyData, e = Keys(p, d)
      PROVE  e.pane = p /\ e.data = d /\ e.size = 0 /\ d \in Data /\ d # <<>>
  BY <1>2, InputAssumption DEF Keys, Data
<1>3. ASSUME NEW p \in Panes, NEW n \in Requests, e = ResizeRequest(p, n)
      PROVE  e.pane = p /\ e.data = <<>> /\ e.size = n /\ n \in Nat /\ e.kind = "resize"
  BY <1>3, InputAssumption DEF ResizeRequest
<1>4. ASSUME NEW p \in Panes, e = RestoreSize(p)
      PROVE  e.pane = p /\ e.data = <<>> /\ e.size = 0 /\ e.kind = "restore"
  BY <1>4 DEF RestoreSize
<1>5. \/ \E p \in Panes, d \in KeyData : e = Keys(p, d)
      \/ \E p \in Panes, n \in Requests : e = ResizeRequest(p, n)
      \/ \E p \in Panes : e = RestoreSize(p)
  BY DEF Events
<1> QED
  BY <1>1, <1>2, <1>3, <1>4, <1>5

\* A handler takes an event that was sent.
LEMMA NextIsSent ==
  ASSUME InputTypeOK, NEW s \in Streams, taken[s] < Len(sent[s])
  PROVE  /\ NextEvent(s) \in Events
         /\ taken[s] \in Nat /\ taken[s] + 1 \in 1 .. Len(sent[s])
<1>1. taken[s] \in Nat /\ sent[s] \in Seq(Events)
  BY DEF InputTypeOK
<1>2. Len(sent[s]) \in Nat
  BY <1>1, LenProperties
<1>3. taken[s] + 1 \in 1 .. Len(sent[s])
  BY <1>1, <1>2
<1> QED
  BY <1>1, <1>3, ElementOfSeq DEF NextEvent

\* What starting an injection does.
LEMMA InjectStarts ==
  ASSUME InputTypeOK, NEW s \in Streams, NEW kind \in Kinds, NEW p \in Panes,
         NEW n \in Sizes, NEW d \in Data, Inject(s, kind, p, n, d)
  PROVE  /\ cur' \in [Streams -> Injections] /\ st' \in [Streams -> States]
         /\ cur'[s].kind = kind /\ cur'[s].pane = p /\ cur'[s].size = n /\ cur'[s].rest = d
         /\ st'[s] = "inject"
         /\ \A t \in Streams \ {s} : cur'[t] = cur[t] /\ st'[t] = st[t]
<1>1. PICK c : c = [kind |-> kind, pane |-> p, size |-> n, rest |-> d]
  OBVIOUS
<1>2. c \in Injections /\ c.kind = kind /\ c.pane = p /\ c.size = n /\ c.rest = d
  BY <1>1 DEF Injections
<1>3. cur' = [cur EXCEPT ![s] = c] /\ st' = [st EXCEPT ![s] = "inject"]
  BY <1>1 DEF Inject, GoTo
<1> QED
  BY <1>2, <1>3 DEF InputTypeOK, States

\* What a change of state of a handler does.
LEMMA GoesTo ==
  ASSUME InputTypeOK, NEW s \in Streams, NEW state \in States, GoTo(s, state)
  PROVE  /\ st' \in [Streams -> States] /\ st'[s] = state
         /\ \A t \in Streams \ {s} : st'[t] = st[t]
BY DEF InputTypeOK, GoTo, States

\* What follows the name in a path is bytes of it.
LEMMA AfterNameTyped ==
  ASSUME NEW d \in Data
  PROVE  AfterName(d) \in Data
<1>1. PICK n \in Nat : n = Len(d)
  BY LenProperties DEF Data
<1>2. PICK T : T = {i \in 1 .. n : d[i] = Slash}
  OBVIOUS
<1>3. <<>> \in Data
  BY DEF Data
<1>4. CASE T = {}
  BY <1>1, <1>2, <1>3, <1>4 DEF AfterName
<1>5. CASE T # {}
  <2>1. PICK x \in T : \A y \in T : x <= y
    BY <1>2, <1>5, LeastNumber
  <2>2. Min(T) \in T
    BY <2>1 DEF Min
  <2>3. PICK m \in 1 .. n : m = Min(T)
    BY <1>2, <2>2
  <2>4. \A i \in m .. n : i \in 1 .. n
    BY <2>3
  <2>5. \A i \in m .. n : d[i] \in 0 .. 255
    BY <1>1, <2>4, ElementOfSeq DEF Data
  <2>6. SubSeq(d, m, n) \in Data
    BY <2>3, <2>5, SubSeqProperties DEF Data
  <2> QED
    BY <1>1, <1>2, <1>5, <2>3, <2>6 DEF AfterName
<1> QED
  BY <1>4, <1>5

\* What a pty receives is a sequence of bytes.
LEMMA ReceivedTyped ==
  ASSUME NEW op \in KeysOps, NEW d \in Data
  PROVE  ReceivedAll(op, d) \in Data
<1>1. PICK n \in Nat : n = Len(d)
  BY LenProperties DEF Data
<1>2. ASSUME NEW i \in 1 .. n
      PROVE  Received(op, d[i]) \in Data
  <2>1. PICK b \in 0 .. 255 : b = d[i]
    BY <1>1, ElementOfSeq DEF Data
  <2>2. <<b>> \in Data /\ <<194, b>> \in Data /\ <<>> \in Data
    BY DEF Data
  <2> QED
    BY <2>1, <2>2 DEF Received, KeysOps
<1>3. PICK q : q = [i \in 1 .. n |-> Received(op, d[i])]
  OBVIOUS
<1>4. q \in Seq(Data)
  BY <1>2, <1>3
<1>5. FlattenSeq(q) \in Data
  BY <1>4, FlattenType DEF Data
<1>6. Home \o AfterName(d) \in Data
  <2>1. PICK a \in Data, h \in Data : a = AfterName(d) /\ h = Home
    BY AfterNameTyped, InputAssumption DEF Data
  <2>2. h \o a \in Data
    BY ConcatProperties DEF Data
  <2> QED
    BY <2>1, <2>2
<1> QED
  BY <1>1, <1>3, <1>5, <1>6 DEF ReceivedAll

\* A handler writes a command of its own.
LEMMA WritesCommand ==
  ASSUME InputTypeOK, InjectionsOK, NEW s \in Streams, st[s] = "inject"
  PROVE  /\ CommandOf(s) \in Commands
         /\ CommandOf(s).stream = s /\ CommandOf(s).pane = cur[s].pane
         /\ CommandOf(s).live /\ CommandOf(s).event = taken[s]
         /\ cur[s].kind = "keys" =>
              /\ CommandOf(s).op = KeysOp(cur[s].rest)
              /\ CommandOf(s).data = FirstRun(cur[s].rest)
         /\ cur[s].kind = "resize" => CommandOf(s).op = "drive"
         /\ cur[s].kind \in {"restore", "restoreAll"} => CommandOf(s).op = "restore"
         /\ cur[s].kind # "keys" => CommandOf(s).size = cur[s].size
<1>1. /\ cur[s] \in Injections /\ cur[s].kind \in Kinds \ {"none"} /\ cur[s].pane \in Panes
      /\ cur[s].size \in Sizes /\ cur[s].rest \in Data /\ taken[s] \in Nat
  BY DEF InputTypeOK, InjectionsOK, Busy, Injections
<1>2. CASE cur[s].kind = "keys"
  <2>1. PICK d \in Data : d = cur[s].rest /\ d # <<>>
    BY <1>1, <1>2 DEF InjectionsOK
  <2>2. PICK r \in Data : r = FirstRun(d)
    BY <2>1, RunsAreTheData
  <2>3. PICK op \in Ops : op = KeysOp(d)
    BY DEF Ops, KeysOp
  <2>4. CommandOf(s) = [stream |-> s, op |-> op, pane |-> cur[s].pane, size |-> 0, data |-> r,
                        live |-> TRUE, event |-> taken[s]]
    BY <1>2, <2>1, <2>2, <2>3 DEF CommandOf, KeysCommand, Command
  <2>5. 0 \in Sizes
    BY InputAssumption DEF Sizes
  <2> QED
    BY <1>1, <1>2, <2>1, <2>2, <2>3, <2>4, <2>5 DEF Commands
<1>3. CASE cur[s].kind # "keys"
  <2>1. PICK op \in Ops : op = IF cur[s].kind = "resize" THEN "drive" ELSE "restore"
    BY DEF Ops
  <2>2. CommandOf(s) = [stream |-> s, op |-> op, pane |-> cur[s].pane, size |-> cur[s].size,
                        data |-> <<>>, live |-> TRUE, event |-> taken[s]]
    BY <1>3, <2>1 DEF CommandOf, Command
  <2>3. <<>> \in Data
    BY DEF Data
  <2> QED
    BY <1>1, <1>3, <2>1, <2>2, <2>3 DEF Commands
<1> QED
  BY <1>2, <1>3

\* What writing a command does to the line.
LEMMA LineGrows ==
  ASSUME InputTypeOK, InjectionsOK, NEW s \in Streams, WriteCommand(s)
  PROVE  /\ line' \in Seq(Commands) /\ Len(line') = Len(line) + 1
         /\ \A i \in 1 .. Len(line) : line'[i] = line[i]
         /\ line'[Len(line) + 1] = CommandOf(s)
<1>1. PICK c \in Commands : c = CommandOf(s)
  BY WritesCommand DEF WriteCommand
<1>2. line' = Append(line, c) /\ line \in Seq(Commands)
  BY <1>1 DEF WriteCommand, InputTypeOK
<1> QED
  BY <1>1, <1>2, AppendProperties

\* What running a command does to the line.
LEMMA LineShrinks ==
  ASSUME InputTypeOK, RunCommand
  PROVE  /\ Head(line) \in Commands /\ Head(line) = line[1] /\ 1 \in 1 .. Len(line)
         /\ line' \in Seq(Commands) /\ Len(line') = Len(line) - 1
         /\ \A i \in 1 .. Len(line') : i + 1 \in 1 .. Len(line) /\ line'[i] = line[i + 1]
<1>1. line \in Seq(Commands) /\ line # <<>> /\ line' = Tail(line)
  BY DEF RunCommand, InputTypeOK
<1>2. Len(line) \in Nat /\ Len(line) # 0
  BY <1>1, EmptySeq, LenProperties
<1>3. Len(line') = Len(line) - 1 /\ line' \in Seq(Commands)
  BY <1>1, HeadTailProperties
<1>4. \A i \in 1 .. Len(line') : i + 1 \in 1 .. Len(line)
  BY <1>2, <1>3
<1>5. \A i \in 1 .. Len(line') : line'[i] = line[i + 1]
  BY <1>1, HeadTailProperties
<1>6. Head(line) = line[1]
  BY <1>1
<1>7. Head(line) \in Commands
  BY <1>1, HeadTailProperties
<1> QED
  BY <1>2, <1>3, <1>4, <1>5, <1>6, <1>7

\* What giving up does to the line.
LEMMA LineForgets ==
  ASSUME InputTypeOK, NEW s \in Streams, GiveUp(s)
  PROVE  /\ line' \in Seq(Commands) /\ Len(line') = Len(line)
         /\ \A i \in 1 .. Len(line) :
              /\ line'[i].stream = line[i].stream /\ line'[i].op = line[i].op
              /\ line'[i].pane = line[i].pane /\ line'[i].size = line[i].size
              /\ line'[i].data = line[i].data /\ line'[i].event = line[i].event
              /\ line'[i].live => line'[i] = line[i] /\ line[i].stream # s
              /\ line[i].stream # s => line'[i] = line[i]
<1>1. PICK n \in Nat : n = Len(line) /\ DOMAIN line = 1 .. n
  BY LenProperties DEF InputTypeOK
<1>2. line' = [i \in 1 .. n |-> IF line[i].stream = s THEN [line[i] EXCEPT !.live = FALSE]
                                ELSE line[i]]
  BY <1>1 DEF GiveUp
<1>3. ASSUME NEW i \in 1 .. n
      PROVE  /\ line'[i] \in Commands
             /\ line'[i].stream = line[i].stream /\ line'[i].op = line[i].op
             /\ line'[i].pane = line[i].pane /\ line'[i].size = line[i].size
             /\ line'[i].data = line[i].data /\ line'[i].event = line[i].event
             /\ line'[i].live => line'[i] = line[i] /\ line[i].stream # s
             /\ line[i].stream # s => line'[i] = line[i]
  <2>1. PICK c \in Commands : c = line[i]
    BY <1>1, ElementOfSeq DEF InputTypeOK
  <2>2. PICK d \in Commands : d = [c EXCEPT !.live = FALSE]
    BY DEF Commands
  <2>3. /\ ~d.live /\ d.stream = c.stream /\ d.op = c.op /\ d.pane = c.pane /\ d.size = c.size
        /\ d.data = c.data /\ d.event = c.event
    BY <2>2 DEF Commands
  <2>4. line'[i] = IF c.stream = s THEN d ELSE c
    BY <1>2, <2>1, <2>2
  <2> QED
    BY <2>1, <2>3, <2>4
<1>4. line' \in Seq(Commands) /\ Len(line') = n
  <2>1. PICK q : q = line'
    OBVIOUS
  <2>2. \A i \in 1 .. n : q[i] \in Commands
    BY <1>3, <2>1
  <2>3. q = [i \in 1 .. n |-> q[i]]
    BY <1>2, <2>1
  <2>4. [i \in 1 .. n |-> q[i]] \in Seq(Commands) /\ Len([i \in 1 .. n |-> q[i]]) = n
    BY <2>2
  <2> QED
    BY <2>1, <2>3, <2>4
<1> QED
  BY <1>1, <1>3, <1>4

\* Every step keeps the types.
LEMMA TypeStep ==
  ASSUME InputTypeOK, InjectionsOK, [Next]_vars
  PROVE  InputTypeOK'
<1> USE DEF tmuxVars, watcherVars, handlerVars, clientVars
<1>1. /\ 0 \in Sizes /\ PaneSize \in Sizes /\ OtherSize \in Sizes /\ <<>> \in Data
      /\ NoOne \in Streams \cup {NoOne} /\ <<>> \in Seq(Commands)
  BY InputAssumption DEF Sizes, Data
<1>2. CASE RunCommand
  <2>1. PICK c \in Commands : c = Head(line)
    BY <1>2, LineShrinks
  <2>2. /\ c.stream \in Streams /\ c.pane \in Panes /\ c.size \in Sizes /\ c.data \in Data
        /\ c.event \in Nat
    BY <2>1 DEF Commands
  <2>3. line' \in Seq(Commands)
    BY <1>2, LineShrinks
  <2>4. ASSUME NEW r \in {"ok", "error"}, Answer(c, r)
        PROVE  reply' \in [Streams -> {"none", "ok", "error"}]
    BY <2>2, <2>4 DEF Answer, InputTypeOK
  <2>5. CASE RunResize(c)
    <3>1. size' \in [Panes -> Sizes]
      BY <2>2, <2>5 DEF RunResize, InputTypeOK
    <3>2. setBy' \in [Panes -> Streams \cup {NoOne}]
      BY <1>1, <2>2, <2>5 DEF RunResize, InputTypeOK
    <3>3. dirty' \in BOOLEAN
      BY <2>5 DEF RunResize, InputTypeOK
    <3>4. reply' \in [Streams -> {"none", "ok", "error"}]
      BY <2>4, <2>5 DEF RunResize
    <3> QED
      BY <1>2, <2>3, <2>5, <3>1, <3>2, <3>3, <3>4 DEF RunCommand, RunResize, InputTypeOK
  <2>6. CASE RunKeys(c)
    <3>1. PICK d \in Data : d = ReceivedAll(c.op, c.data)
      BY <2>2, <2>6, ReceivedTyped DEF RunKeys
    <3>2. PICK r \in Runs : r = [event |-> c.event, data |-> d]
      BY <2>2, <3>1 DEF Runs
    <3>3. got' = [got EXCEPT ![c.stream] = Append(@, r)]
      BY <2>6, <3>1, <3>2 DEF RunKeys
    <3>4. Append(got[c.stream], r) \in Seq(Runs)
      BY <2>2, <3>2, AppendProperties DEF InputTypeOK
    <3>5. got' \in [Streams -> Seq(Runs)]
      BY <3>3, <3>4 DEF InputTypeOK
    <3>6. reply' \in [Streams -> {"none", "ok", "error"}]
      BY <2>4, <2>6 DEF RunKeys
    <3> QED
      BY <1>2, <2>3, <2>6, <3>5, <3>6 DEF RunCommand, RunKeys, InputTypeOK
  <2>7. CASE RunRefused(c)
    <3>1. reply' \in [Streams -> {"none", "ok", "error"}]
      BY <2>4, <2>7 DEF RunRefused
    <3> QED
      BY <1>2, <2>3, <2>7, <3>1 DEF RunCommand, RunRefused, InputTypeOK
  <2> QED
    BY <1>2, <2>1, <2>5, <2>6, <2>7 DEF RunCommand
<1>3. ASSUME NEW p \in Panes, ExternalResize(p) \/ PaneExits(p)
      PROVE  InputTypeOK'
  <2>1. size' \in [Panes -> Sizes]
    BY <1>1, <1>3 DEF ExternalResize, PaneExits, InputTypeOK
  <2>2. setBy' \in [Panes -> Streams \cup {NoOne}]
    BY <1>1, <1>3 DEF ExternalResize, PaneExits, InputTypeOK
  <2>3. dirty' \in BOOLEAN
    BY <1>3 DEF ExternalResize, PaneExits
  <2>4. UNCHANGED <<line, tmuxUp, got, hub, listing, handlerVars, clientVars, down>>
    BY <1>3 DEF ExternalResize, PaneExits
  <2> QED
    BY <2>1, <2>2, <2>3, <2>4 DEF InputTypeOK
<1>4. CASE TmuxEnds \/ KillTmux
  BY <1>1, <1>4 DEF TmuxEnds, KillTmux, InputTypeOK
<1>5. CASE List
  BY <1>5 DEF List, InputTypeOK
<1>6. CASE Record
  BY <1>6 DEF Record, InputTypeOK
<1>7. CASE Teardown
  <2>1. hub' \in [Panes -> Sizes]
    BY <1>1, <1>7 DEF Teardown
  <2> QED
    BY <1>1, <1>7, <2>1 DEF Teardown, InputTypeOK
<1>8. CASE Shutdown
  BY <1>8 DEF Shutdown, InputTypeOK
<1>9. ASSUME NEW s \in Streams, TakeKeys(s) \/ TakeResize(s) \/ TakeRestore(s)
      PROVE  InputTypeOK'
  <2>1. taken[s] < Len(sent[s]) /\ taken' = [taken EXCEPT ![s] = @ + 1]
    BY <1>9 DEF TakeKeys, TakeResize, TakeRestore, Takes
  <2>2. PICK e \in Events : e = NextEvent(s)
    BY <2>1, NextIsSent
  <2>3. e.pane \in Panes /\ e.data \in Data /\ e.size \in Nat
    BY <2>2, EventFacts
  <2>4. taken' \in [Streams -> Nat] /\ \A t \in Streams : taken'[t] <= Len(sent[t])
    <3>1. taken[s] + 1 \in Nat /\ taken[s] + 1 <= Len(sent[s])
      BY <2>1, NextIsSent
    <3> QED
      BY <2>1, <3>1 DEF InputTypeOK
  <2>5. saved' \in [Streams -> [Panes -> Sizes]]
    <3>1. saved \in [Streams -> [Panes -> Sizes]] /\ hub[e.pane] \in Sizes
      BY <2>3 DEF InputTypeOK
    <3>2. \/ saved' = saved
          \/ saved' = [saved EXCEPT ![s][e.pane] = hub[e.pane]]
          \/ saved' = [saved EXCEPT ![s][e.pane] = 0]
      BY <1>9, <2>2 DEF TakeKeys, TakeResize, TakeRestore, RecordSize
    <3> QED
      BY <1>1, <2>3, <3>1, <3>2
  <2>6. origin' \in [Streams -> [Panes -> Sizes]]
    <3>1. origin \in [Streams -> [Panes -> Sizes]] /\ size[e.pane] \in Sizes
      BY <2>3 DEF InputTypeOK
    <3>2. \/ origin' = origin
          \/ origin' = [origin EXCEPT ![s][e.pane] = size[e.pane]]
          \/ origin' = [origin EXCEPT ![s][e.pane] = 0]
      BY <1>9, <2>2 DEF TakeKeys, TakeResize, TakeRestore, RecordSize
    <3> QED
      BY <1>1, <2>3, <3>1, <3>2
  <2>7. st' \in [Streams -> States] /\ cur' \in [Streams -> Injections]
    <3>1. CASE Drop
      BY <3>1 DEF Drop, InputTypeOK
    <3>2. CASE Inject(s, "keys", e.pane, 0, e.data)
      BY <1>1, <2>3, <3>2, InjectStarts DEF Kinds
    <3>3. CASE Plausible(e.size) /\ Inject(s, "resize", e.pane, e.size, <<>>)
      <4>1. e.size \in Sizes
        BY <2>3, <3>3, InputAssumption DEF Plausible, Sizes
      <4> QED
        BY <1>1, <2>3, <3>3, <4>1, InjectStarts DEF Kinds
    <3>4. CASE Inject(s, "restore", e.pane, saved[s][e.pane], <<>>)
      <4>1. saved[s][e.pane] \in Sizes
        BY <2>3 DEF InputTypeOK
      <4> QED
        BY <1>1, <2>3, <3>4, <4>1, InjectStarts DEF Kinds
    <3> QED
      BY <1>9, <2>2, <3>1, <3>2, <3>3, <3>4 DEF TakeKeys, TakeResize, TakeRestore
  <2>8. UNCHANGED <<tmuxVars, watcherVars, reply, summary, result, clientVars, down>>
    BY <1>9 DEF TakeKeys, TakeResize, TakeRestore
  <2> QED
    BY <2>4, <2>5, <2>6, <2>7, <2>8 DEF InputTypeOK
<1>10. ASSUME NEW s \in Streams, WriteCommand(s)
       PROVE  InputTypeOK'
  <2>1. line' \in Seq(Commands)
    BY <1>10, LineGrows
  <2>2. st' \in [Streams -> States]
    BY <1>10, GoesTo DEF WriteCommand, States
  <2>3. cur[s] \in Injections /\ (cur[s].kind = "keys" => RestOf(cur[s].rest) \in Data)
    <3>1. cur[s] \in Injections
      BY DEF InputTypeOK
    <3>2. ASSUME cur[s].kind = "keys" PROVE RestOf(cur[s].rest) \in Data
      <4>1. PICK d \in Data : d = cur[s].rest /\ d # <<>>
        BY <1>10, <3>1, <3>2 DEF WriteCommand, InjectionsOK, Injections
      <4> QED
        BY <4>1, RunsAreTheData
    <3> QED
      BY <3>1, <3>2
  <2>4. PICK d \in Data : d = IF cur[s].kind = "keys" THEN RestOf(cur[s].rest) ELSE <<>>
    BY <1>1, <2>3
  <2>5. cur' = [cur EXCEPT ![s].rest = d]
    BY <1>10, <2>4 DEF WriteCommand
  <2>6. cur' \in [Streams -> Injections]
    <3>1. PICK c : c = [cur[s] EXCEPT !.rest = d]
      OBVIOUS
    <3>2. c \in Injections
      BY <2>3, <3>1 DEF Injections
    <3>3. cur' = [cur EXCEPT ![s] = c]
      BY <2>5, <3>1 DEF InputTypeOK
    <3> QED
      BY <3>2, <3>3 DEF InputTypeOK
  <2>7. reply' \in [Streams -> {"none", "ok", "error"}]
    BY <1>10 DEF WriteCommand, InputTypeOK
  <2> QED
    BY <1>10, <2>1, <2>2, <2>6, <2>7 DEF WriteCommand, InputTypeOK
<1>11. ASSUME NEW s \in Streams, CommandDone(s)
       PROVE  InputTypeOK'
  <2>1. PICK state \in {"inject", "restoring", "select"} :
          state = IF cur[s].rest # <<>> THEN "inject"
                  ELSE IF cur[s].kind = "restoreAll" THEN "restoring" ELSE "select"
    OBVIOUS
  <2>2. st' \in [Streams -> States]
    BY <1>11, <2>1, GoesTo DEF CommandDone, States
  <2>3. Tally(s) \in Nat
    <3>1. CASE cur[s].kind = "keys" /\ taken[s] \in 1 .. Len(sent[s])
      <4>1. sent[s][taken[s]] \in Events
        BY <3>1, ElementOfSeq DEF InputTypeOK
      <4>2. sent[s][taken[s]].data \in Data
        BY <4>1, EventFacts
      <4> QED
        BY <3>1, <4>2, LenProperties DEF Tally, Data
    <3>2. CASE cur[s].kind # "keys"
      BY <3>2 DEF Tally
    <3>3. ASSUME cur[s].kind = "keys" PROVE taken[s] \in 1 .. Len(sent[s])
      <4>1. taken[s] > 0
        BY <1>11, <3>3 DEF CommandDone, InjectionsOK, Busy
      <4>2. taken[s] \in Nat /\ taken[s] <= Len(sent[s]) /\ Len(sent[s]) \in Nat
        BY LenProperties DEF InputTypeOK
      <4> QED
        BY <4>1, <4>2
    <3> QED
      BY <3>1, <3>2, <3>3
  <2>4. summary' \in [Streams -> Nat]
    BY <1>11, <2>3 DEF CommandDone, InputTypeOK
  <2> QED
    BY <1>11, <2>2, <2>4 DEF CommandDone, InputTypeOK
<1>12. ASSUME NEW s \in Streams, Failed(s)
       PROVE  /\ st' \in [Streams -> States]
              /\ result' \in [Streams -> {"none", "ok", "shutdown", "error"}]
  <2>1. st' \in [Streams -> States]
    BY <1>12, GoesTo DEF Failed, States
  <2> QED
    BY <1>12, <2>1 DEF Failed, InputTypeOK
<1>13. ASSUME NEW s \in Streams, CommandFails(s)
       PROVE  InputTypeOK'
  BY <1>12, <1>13 DEF CommandFails, InputTypeOK
<1>14. ASSUME NEW s \in Streams, GiveUp(s)
       PROVE  InputTypeOK'
  <2>1. line' \in Seq(Commands)
    BY <1>14, LineForgets
  <2> QED
    BY <1>12, <1>14, <2>1 DEF GiveUp, InputTypeOK
<1>15. ASSUME NEW s \in Streams, StreamEnds(s)
       PROVE  InputTypeOK'
  <2>1. st' \in [Streams -> States]
    BY <1>15, GoesTo DEF StreamEnds, States
  <2>2. result' \in [Streams -> {"none", "ok", "shutdown", "error"}]
    BY <1>15 DEF StreamEnds, InputTypeOK
  <2> QED
    BY <1>15, <2>1, <2>2 DEF StreamEnds, InputTypeOK
<1>16. ASSUME NEW s \in Streams, NEW p \in Panes, RestoreNext(s, p)
       PROVE  InputTypeOK'
  <2>1. PICK n \in Sizes : n = saved[s][p]
    BY DEF InputTypeOK
  <2>2. CASE Drop
    BY <1>1, <1>16, <2>2 DEF RestoreNext, Drop, InputTypeOK
  <2>3. CASE Inject(s, "restoreAll", p, n, <<>>)
    <3>1. st' \in [Streams -> States] /\ cur' \in [Streams -> Injections]
      BY <1>1, <2>3, InjectStarts DEF Kinds
    <3> QED
      BY <1>1, <1>16, <3>1 DEF RestoreNext, InputTypeOK
  <2> QED
    BY <1>16, <2>1, <2>2, <2>3 DEF RestoreNext
<1>17. ASSUME NEW s \in Streams, HandlerReturns(s)
       PROVE  InputTypeOK'
  <2>1. st' \in [Streams -> States]
    BY <1>17, GoesTo DEF HandlerReturns, States
  <2> QED
    BY <1>17, <2>1 DEF HandlerReturns, InputTypeOK
<1>18. ASSUME NEW s \in Streams, OpenStream(s)
       PROVE  InputTypeOK'
  BY <1>18 DEF OpenStream, InputTypeOK, States
<1>19. ASSUME NEW s \in Streams, CloseStream(s) \/ HangUp(s)
       PROVE  InputTypeOK'
  BY <1>19 DEF CloseStream, HangUp, InputTypeOK
<1>20. ASSUME NEW s \in Streams, NEW e \in Events, SendEvent(s, e)
       PROVE  InputTypeOK'
  <2>1. sent[s] \in Seq(Events) /\ Len(sent[s]) \in Nat
    BY LenProperties DEF InputTypeOK
  <2>2. Append(sent[s], e) \in Seq(Events) /\ Len(Append(sent[s], e)) = Len(sent[s]) + 1
    BY <2>1, AppendProperties
  <2>3. sent' = [sent EXCEPT ![s] = Append(@, e)]
    BY <1>20 DEF SendEvent
  <2>4. sent' \in [Streams -> Seq(Events)]
    BY <2>2, <2>3 DEF InputTypeOK
  <2>5. taken[s] \in Nat /\ taken[s] <= Len(sent[s]) + 1
    BY <2>1 DEF InputTypeOK
  <2>6. \A t \in Streams : taken[t] <= Len(sent'[t])
    BY <2>2, <2>3, <2>5 DEF InputTypeOK
  <2> QED
    BY <1>20, <2>4, <2>6 DEF SendEvent, InputTypeOK
<1>21. CASE UNCHANGED vars
  BY <1>21 DEF vars, InputTypeOK
<1> QED
  BY <1>2, <1>3, <1>4, <1>5, <1>6, <1>7, <1>8, <1>9, <1>10, <1>11, <1>13, <1>14, <1>15, <1>16,
     <1>17, <1>18, <1>19, <1>20, <1>21 DEF Next, Environment, Handler, Proceeds, Client

\* A handler that no step of its own moves keeps its injection; one that goes
\* to select, restore or end is not busy.
LEMMA InjectionsKept ==
  ASSUME InputTypeOK, InjectionsOK, NEW s \in Streams,
         \A t \in Streams \ {s} : cur'[t] = cur[t] /\ st'[t] = st[t] /\ taken'[t] = taken[t],
         \/ cur'[s] = cur[s] /\ st'[s] = st[s] /\ taken'[s] = taken[s]
         \/ cur'[s] = cur[s] /\ st'[s] \notin {"inject", "waiting"}
         \/ /\ st'[s] = "inject" /\ cur'[s].kind # "none" /\ cur'[s].pane \in Panes
            /\ cur'[s].kind # "keys" => cur'[s].rest = <<>> /\ cur'[s].size # 0
            /\ cur'[s].kind = "keys" => cur'[s].rest # <<>> /\ taken'[s] > 0
  PROVE  InjectionsOK'
BY DEF InjectionsOK, Busy

\* Every step keeps the handlers' injections well-formed.
LEMMA InjectionsStep ==
  ASSUME InputTypeOK, InjectionsOK, [Next]_vars
  PROVE  InjectionsOK'
<1> USE DEF tmuxVars, watcherVars, handlerVars, clientVars
<1>1. /\ 0 \in Sizes /\ <<>> \in Data
  BY InputAssumption DEF Sizes, Data
<1>2. ASSUME UNCHANGED <<st, cur, taken>>
      PROVE  InjectionsOK'
  BY <1>2 DEF InjectionsOK, Busy
<1>3. CASE RunCommand
  BY <1>2, <1>3 DEF RunCommand
<1>4. ASSUME NEW p \in Panes, ExternalResize(p) \/ PaneExits(p)
      PROVE  InjectionsOK'
  BY <1>2, <1>4 DEF ExternalResize, PaneExits
<1>5. CASE TmuxEnds \/ KillTmux \/ List \/ Record \/ Teardown \/ Shutdown
  BY <1>2, <1>5 DEF TmuxEnds, KillTmux, List, Record, Teardown, Shutdown
<1>6. ASSUME NEW s \in Streams, TakeKeys(s) \/ TakeResize(s) \/ TakeRestore(s)
      PROVE  InjectionsOK'
  <2>1. st[s] = "select" /\ taken[s] < Len(sent[s]) /\ taken' = [taken EXCEPT ![s] = @ + 1]
    BY <1>6 DEF TakeKeys, TakeResize, TakeRestore, Takes
  <2>2. PICK e \in Events : e = NextEvent(s)
    BY <2>1, NextIsSent
  <2>3. /\ e.pane \in Panes /\ e.data \in Data /\ e.size \in Nat
        /\ e.kind = "keys" => e.data # <<>>
    BY <2>2, EventFacts
  <2>4. taken'[s] > 0 /\ \A t \in Streams \ {s} : taken'[t] = taken[t]
    <3>1. taken[s] \in Nat
      BY <2>1, NextIsSent
    <3>2. taken[s] + 1 > 0
      BY <3>1
    <3> QED
      BY <2>1, <3>2 DEF InputTypeOK
  <2>5. CASE Drop
    BY <2>1, <2>4, <2>5, InjectionsKept DEF Drop
  <2>6. CASE e.kind = "keys" /\ Inject(s, "keys", e.pane, 0, e.data)
    BY <1>1, <2>3, <2>4, <2>6, InjectStarts, InjectionsKept DEF Kinds
  <2>7. CASE Plausible(e.size) /\ Inject(s, "resize", e.pane, e.size, <<>>)
    <3>1. e.size \in Sizes /\ e.size # 0
      BY <2>3, <2>7, InputAssumption DEF Plausible, Sizes
    <3> QED
      BY <1>1, <2>3, <2>4, <2>7, <3>1, InjectStarts, InjectionsKept DEF Kinds
  <2>8. CASE saved[s][e.pane] # 0 /\ Inject(s, "restore", e.pane, saved[s][e.pane], <<>>)
    <3>1. saved[s][e.pane] \in Sizes
      BY <2>3 DEF InputTypeOK
    <3> QED
      BY <1>1, <2>3, <2>4, <2>8, <3>1, InjectStarts, InjectionsKept DEF Kinds
  <2> QED
    BY <1>6, <2>2, <2>5, <2>6, <2>7, <2>8 DEF TakeKeys, TakeResize, TakeRestore, Takes
<1>7. ASSUME NEW s \in Streams, WriteCommand(s)
      PROVE  InjectionsOK'
  <2>1. st[s] = "inject" /\ st' = [st EXCEPT ![s] = "waiting"] /\ taken' = taken
    BY <1>7 DEF WriteCommand, GoTo
  <2>2. PICK d : d = IF cur[s].kind = "keys" THEN RestOf(cur[s].rest) ELSE <<>>
    OBVIOUS
  <2>3. cur' = [cur EXCEPT ![s].rest = d]
    BY <1>7, <2>2 DEF WriteCommand
  <2>4. PICK c : c = [cur[s] EXCEPT !.rest = d]
    OBVIOUS
  <2>5. cur' = [cur EXCEPT ![s] = c]
    BY <2>3, <2>4 DEF InputTypeOK
  <2>6. c.kind = cur[s].kind /\ c.pane = cur[s].pane /\ c.size = cur[s].size /\ c.rest = d
    BY <2>4 DEF InputTypeOK, Injections
  <2>7. cur'[s] = c /\ \A t \in Streams \ {s} : cur'[t] = cur[t]
    BY <2>5 DEF InputTypeOK
  <2>8. st'[s] = "waiting" /\ \A t \in Streams \ {s} : st'[t] = st[t]
    BY <2>1 DEF InputTypeOK
  <2> QED
    BY <2>1, <2>2, <2>6, <2>7, <2>8 DEF InjectionsOK, Busy
<1>8. ASSUME NEW s \in Streams, CommandDone(s)
      PROVE  InjectionsOK'
  <2>1. /\ st[s] = "waiting" /\ cur' = cur /\ taken' = taken
    BY <1>8 DEF CommandDone
  <2>2. \A t \in Streams \ {s} : st'[t] = st[t]
    BY <1>8 DEF CommandDone, GoTo, InputTypeOK
  <2>3. CASE cur[s].rest # <<>>
    <3>1. st'[s] = "inject"
      BY <1>8, <2>3 DEF CommandDone, GoTo, InputTypeOK
    <3>2. cur[s].kind = "keys" /\ cur[s].pane \in Panes /\ taken[s] > 0
      BY <2>1, <2>3 DEF InjectionsOK, Busy
    <3> QED
      BY <2>1, <2>2, <2>3, <3>1, <3>2, InjectionsKept
  <2>4. CASE cur[s].rest = <<>>
    <3>1. st'[s] \in {"restoring", "select"}
      BY <1>8, <2>4 DEF CommandDone, GoTo, InputTypeOK
    <3> QED
      BY <2>1, <2>2, <3>1, InjectionsKept
  <2> QED
    BY <2>3, <2>4
<1>9. ASSUME NEW s \in Streams,
             CommandFails(s) \/ GiveUp(s) \/ StreamEnds(s) \/ HandlerReturns(s) \/ OpenStream(s)
      PROVE  InjectionsOK'
  <2>1. PICK state \in {"restoring", "ended", "select"} : st' = [st EXCEPT ![s] = state]
    BY <1>9 DEF CommandFails, GiveUp, StreamEnds, HandlerReturns, OpenStream, Failed, GoTo
  <2>2. cur' = cur /\ taken' = taken
    BY <1>9 DEF CommandFails, GiveUp, StreamEnds, HandlerReturns, OpenStream
  <2>3. st'[s] = state /\ \A t \in Streams \ {s} : st'[t] = st[t]
    BY <2>1 DEF InputTypeOK
  <2> QED
    BY <2>2, <2>3, InjectionsKept
<1>10. ASSUME NEW s \in Streams, NEW p \in Panes, RestoreNext(s, p)
       PROVE  InjectionsOK'
  <2>1. PICK n \in Sizes : n = saved[s][p] /\ n # 0
    BY <1>10 DEF RestoreNext, InputTypeOK
  <2>2. taken' = taken
    BY <1>10 DEF RestoreNext
  <2>3. CASE Drop
    BY <1>2, <2>2, <2>3 DEF Drop
  <2>4. CASE Inject(s, "restoreAll", p, n, <<>>)
    BY <1>1, <2>1, <2>2, <2>4, InjectStarts, InjectionsKept DEF Kinds
  <2> QED
    BY <1>10, <2>1, <2>3, <2>4 DEF RestoreNext
<1>11. ASSUME NEW s \in Streams, CloseStream(s) \/ HangUp(s) \/ \E e \in Events : SendEvent(s, e)
       PROVE  InjectionsOK'
  BY <1>2, <1>11 DEF CloseStream, HangUp, SendEvent
<1>12. CASE UNCHANGED vars
  BY <1>2, <1>12 DEF vars
<1> QED
  BY <1>3, <1>4, <1>5, <1>6, <1>7, <1>8, <1>9, <1>10, <1>11, <1>12
    DEF Next, Environment, Handler, Proceeds, Client

\* In the initial states no stream is open and nothing was written.
LEMMA InputInit ==
  ASSUME Init
  PROVE  InputTypeOK /\ InjectionsOK
<1>1. /\ 0 \in Sizes /\ PaneSize \in Sizes /\ <<>> \in Data /\ NoOne \in Streams \cup {NoOne}
      /\ <<>> \in Seq(Commands) /\ <<>> \in Seq(Runs) /\ <<>> \in Seq(Events) /\ Len(<<>>) = 0
  BY InputAssumption DEF Sizes, Data
<1>2. NothingToInject \in Injections /\ NothingToInject.kind = "none" /\ NothingToInject.rest = <<>>
  <2>1. PICK p : p = CHOOSE q \in Panes : TRUE
    OBVIOUS
  <2>2. NothingToInject = [kind |-> "none", pane |-> p, size |-> 0, rest |-> <<>>]
    BY <2>1 DEF NothingToInject
  <2> QED
    BY <1>1, <2>2 DEF Injections, Kinds
<1>3. hub \in [Panes -> Sizes] /\ size \in [Panes -> Sizes] /\ dirty \in BOOLEAN
  BY <1>1 DEF Init
<1>4. /\ st = [s \in Streams |-> "idle"] /\ cur = [s \in Streams |-> NothingToInject]
      /\ reply = [s \in Streams |-> "none"] /\ result = [s \in Streams |-> "none"]
  BY DEF Init
<1>5. InputTypeOK
  <2>1. /\ size \in [Panes -> Sizes] /\ hub \in [Panes -> Sizes] /\ listing = <<>>
        /\ tmuxUp \in BOOLEAN /\ dirty \in BOOLEAN /\ down \in BOOLEAN
    BY <1>3 DEF Init
  <2>2. setBy \in [Panes -> Streams \cup {NoOne}] /\ line \in Seq(Commands)
    BY <1>1 DEF Init
  <2>3. got \in [Streams -> Seq(Runs)] /\ sent \in [Streams -> Seq(Events)]
    BY <1>1 DEF Init
  <2>4. st \in [Streams -> States] /\ cur \in [Streams -> Injections]
    BY <1>2, <1>4 DEF States
  <2>5. /\ reply \in [Streams -> {"none", "ok", "error"}]
        /\ result \in [Streams -> {"none", "ok", "shutdown", "error"}]
    BY <1>4
  <2>6. saved \in [Streams -> [Panes -> Sizes]] /\ origin = saved
    BY <1>1 DEF Init
  <2>7. /\ summary \in [Streams -> Nat] /\ taken \in [Streams -> Nat]
        /\ \A s \in Streams : taken[s] <= Len(sent[s])
    BY <1>1 DEF Init
  <2>8. closed \subseteq Streams /\ gone \subseteq Streams
    BY DEF Init
  <2> QED
    BY <2>1, <2>2, <2>3, <2>4, <2>5, <2>6, <2>7, <2>8 DEF InputTypeOK
<1> QED
  BY <1>2, <1>4, <1>5 DEF InjectionsOK, Busy

\* What a step of a handler leaves alone: the other handlers, tmux but for its
\* line, the watcher and the Clients.
LEMMA HandlerKeeps ==
  ASSUME InputTypeOK, NEW s \in Streams, Handler(s)
  PROVE  /\ UNCHANGED <<size, tmuxUp, setBy, faults, got, watcherVars, clientVars, down>>
         /\ \A t \in Streams \ {s} :
              /\ st'[t] = st[t] /\ cur'[t] = cur[t]
              /\ saved'[t] = saved[t] /\ origin'[t] = origin[t]
              /\ reply'[t] = reply[t] /\ taken'[t] = taken[t]
              /\ summary'[t] = summary[t] /\ result'[t] = result[t]
<1> USE DEF tmuxVars, watcherVars, handlerVars, clientVars
<1>1. UNCHANGED <<size, tmuxUp, setBy, faults, got, watcherVars, clientVars, down>>
  BY DEF Handler, Proceeds, TakeKeys, TakeResize, TakeRestore, WriteCommand, CommandDone, CommandFails,
         GiveUp, StreamEnds, HandlerReturns, RestoreNext
<1>2. \A t \in Streams \ {s} : st'[t] = st[t]
  BY DEF Handler, Proceeds, TakeKeys, TakeResize, TakeRestore, WriteCommand, CommandDone, CommandFails,
         GiveUp, StreamEnds, HandlerReturns, RestoreNext, Failed, GoTo, Inject, Drop, InputTypeOK
<1>3. \A t \in Streams \ {s} : cur'[t] = cur[t]
  BY DEF Handler, Proceeds, TakeKeys, TakeResize, TakeRestore, WriteCommand, CommandDone, CommandFails,
         GiveUp, StreamEnds, HandlerReturns, RestoreNext, Inject, Drop, InputTypeOK
<1>4. \A t \in Streams \ {s} : saved'[t] = saved[t] /\ origin'[t] = origin[t]
  BY DEF Handler, Proceeds, TakeKeys, TakeResize, TakeRestore, WriteCommand, CommandDone, CommandFails,
         GiveUp, StreamEnds, HandlerReturns, RestoreNext, RecordSize, InputTypeOK
<1>5. \A t \in Streams \ {s} : reply'[t] = reply[t] /\ summary'[t] = summary[t]
  BY DEF Handler, Proceeds, TakeKeys, TakeResize, TakeRestore, WriteCommand, CommandDone, CommandFails,
         GiveUp, StreamEnds, HandlerReturns, RestoreNext, InputTypeOK
<1>6. \A t \in Streams \ {s} : taken'[t] = taken[t]
  BY DEF Handler, Proceeds, TakeKeys, TakeResize, TakeRestore, Takes, WriteCommand, CommandDone, CommandFails,
         GiveUp, StreamEnds, HandlerReturns, RestoreNext, InputTypeOK
<1>7. \A t \in Streams \ {s} : result'[t] = result[t]
  BY DEF Handler, Proceeds, TakeKeys, TakeResize, TakeRestore, WriteCommand, CommandDone, CommandFails,
         GiveUp, StreamEnds, HandlerReturns, RestoreNext, Failed, InputTypeOK
<1> QED
  BY <1>1, <1>2, <1>3, <1>4, <1>5, <1>6, <1>7

-----------------------------------------------------------------------------
(***************************************************************************)
(* Where the bytes of an event are: received, in the line, or still with   *)
(* the handler.                                                            *)
(***************************************************************************)
\* Nothing failed so far, and no keys are under way.
Resting(s) ==
  st[s] \in {"idle", "select"} \/ (Busy(s) /\ cur[s].kind \in {"resize", "restore"})
Sending(s) == Busy(s) /\ cur[s].kind = "keys"

IsKeys(c, s) == c.stream = s /\ c.op \in KeysOps
NoKeys(s) == \A i \in 1 .. Len(line) : ~IsKeys(line[i], s)
Begins(a, b) == Len(a) <= Len(b) /\ a = SubSeq(b, 1, Len(a))
Now(s) == sent[s][taken[s]].data
GotNow(s) == GotOf(s, taken[s])
AllPlain(s) == \A k \in 1 .. taken[s] : Plain(sent[s][k].data)

\* A live command is the one its handler waits for.
LiveInv(s) ==
  \A i \in 1 .. Len(line) : line[i].stream = s /\ line[i].live =>
    /\ st[s] = "waiting" /\ reply[s] = "none" /\ line[i].pane = cur[s].pane
    /\ IsKeys(line[i], s) <=> cur[s].kind = "keys"
    /\ \A j \in 1 .. Len(line) : line[j].stream = s /\ line[j].live => j = i

\* What arrived of each event taken; nothing did of a later one.
GotInv(s) ==
  /\ \A i \in 1 .. Len(got[s]) : got[s][i].event <= taken[s]
  /\ \A i \in 1 .. (Len(got[s]) - 1) : got[s][i].event <= got[s][i + 1].event
  /\ \A k \in 1 .. taken[s] : Plain(sent[s][k].data) =>
       /\ Begins(GotOf(s, k), sent[s][k].data)
       /\ k < taken[s] \/ Resting(s) => GotOf(s, k) \in {<<>>, sent[s][k].data}
  /\ \A k \in Nat : k > taken[s] => GotOf(s, k) = <<>>

\* The command is taken for what it is, and carries what follows g in d.
Whole(c, g, d) ==
  /\ ~Expands(c.op, c.data) /\ ReceivedAll(c.op, c.data) = c.data
  /\ Begins(g \o c.data, d)

\* At most one run of keys is in the line, the next of the event taken last.
LineInv(s) ==
  \A i \in 1 .. Len(line) : IsKeys(line[i], s) =>
    /\ line[i].event = taken[s] /\ taken[s] > 0
    /\ \A j \in 1 .. Len(line) : IsKeys(line[j], s) => j = i
    /\ Sending(s) => line[i].live /\ st[s] = "waiting"
    /\ Plain(Now(s)) =>
         /\ Whole(line[i], GotNow(s), Now(s))
         /\ Sending(s) => (GotNow(s) \o line[i].data) \o cur[s].rest = Now(s)

\* Between runs, what arrived and what is left are the event; between events,
\* the tally is what arrived.
StageInv(s) ==
  /\ Resting(s) => /\ result[s] = "none" /\ NoKeys(s)
                   /\ AllPlain(s) => summary[s] = Len(GotAll(s))
  /\ Sending(s) => /\ result[s] = "none"
                   /\ st[s] = "inject" => NoKeys(s)
                   /\ AllPlain(s) => summary[s] + Len(GotNow(s)) = Len(GotAll(s))
                   /\ Plain(Now(s)) =>
                        /\ Plain(cur[s].rest)
                        /\ st[s] = "inject" \/ reply[s] = "ok" =>
                             GotNow(s) \o cur[s].rest = Now(s)
  /\ result[s] = "ok" => NoKeys(s) /\ (AllPlain(s) => summary[s] = Len(GotAll(s)))

KeysOf(s) == LiveInv(s) /\ GotInv(s) /\ LineInv(s) /\ StageInv(s)
KeysInv == (~tmuxUp => line = <<>>) /\ \A s \in Streams : KeysOf(s)

\* A function on 1 .. n + 1 is the sequence of its first n with its last appended.
LEMMA FrontAndLast ==
  ASSUME NEW S, NEW x \in Seq(S), NEW e \in S, NEW n \in Nat, NEW m \in Nat,
         Len(x) = n, m = n + 1,
         NEW y \in [1 .. m -> S], \A i \in 1 .. n : y[i] = x[i], y[m] = e
  PROVE  y = Append(x, e)
<1>1. PICK c \in Seq(S) : c = Append(x, e)
  BY AppendProperties
<1>2. Len(c) = m /\ c[m] = e
  BY <1>1, AppendProperties
<1>3. \A i \in 1 .. n : c[i] = x[i]
  BY <1>1, AppendProperties
<1>4. \A i \in 1 .. m : i \in 1 .. n \/ i = m
  OBVIOUS
<1>5. y \in Seq(S)
  OBVIOUS
<1>6. Len(y) = m
  OBVIOUS
<1>7. \A i \in 1 .. m : c[i] = y[i]
  BY <1>2, <1>3, <1>4
<1> QED
  BY <1>1, <1>2, <1>5, <1>6, <1>7, SeqEqual

\* The bytes of the runs q, and those of them that are of the event k.
Bytes(q) == FlattenSeq([i \in 1 .. Len(q) |-> q[i].data])
BytesOf(q, k) == FlattenSeq([i \in 1 .. Len(q) |-> IF q[i].event = k THEN q[i].data ELSE <<>>])

\* Another run adds its bytes to all that was received, and to what was of its event.
LEMMA RunAdds ==
  ASSUME NEW q \in Seq(Runs), NEW r \in Runs, NEW k
  PROVE  /\ Bytes(Append(q, r)) = Bytes(q) \o r.data
         /\ BytesOf(Append(q, r), k) = BytesOf(q, k) \o (IF r.event = k THEN r.data ELSE <<>>)
<1>1. PICK b : b = Append(q, r)
  OBVIOUS
<1>2. PICK n \in Nat : n = Len(q)
  BY LenProperties
<1>3. PICK m \in Nat : m = n + 1
  OBVIOUS
<1>4. Len(b) = m /\ b[m] = r
  BY <1>1, <1>2, <1>3, AppendProperties
<1>5. \A i \in 1 .. n : b[i] = q[i]
  BY <1>1, <1>2, AppendProperties
<1>6. \A i \in 1 .. n : q[i] \in Runs
  BY <1>2, ElementOfSeq
<1>7. <<>> \in Data /\ r.data \in Data /\ \A i \in 1 .. n : q[i].data \in Data
  BY <1>6 DEF Data, Runs
<1>8. m \in 1 .. m /\ \A i \in 1 .. n : i \in 1 .. m
  BY <1>3
<1>9. FlattenSeq([i \in 1 .. m |-> b[i].data])
        = FlattenSeq([i \in 1 .. n |-> q[i].data]) \o r.data
  <2>1. PICK x : x = [i \in 1 .. n |-> q[i].data]
    OBVIOUS
  <2>2. x \in Seq(Data)
    BY <1>7, <2>1
  <2>3. Len(x) = n
    BY <2>1
  <2>4. PICK y : y = [i \in 1 .. m |-> b[i].data]
    OBVIOUS
  <2>5. y \in [1 .. m -> Data]
    <3>1. \A i \in 1 .. m : b[i].data \in Data
      BY <1>3, <1>4, <1>5, <1>7
    <3> QED
      BY <2>4, <3>1
  <2>6. PICK e \in Data : e = r.data
    BY <1>7
  <2>7. y[m] = e /\ \A i \in 1 .. n : y[i] = x[i]
    BY <1>4, <1>5, <1>8, <2>1, <2>4, <2>6
  <2>8. y = Append(x, e)
    BY <1>3, <2>2, <2>3, <2>5, <2>7, FrontAndLast
  <2>9. FlattenSeq(Append(x, e)) = FlattenSeq(x) \o e
    BY <2>2, FlattenAppend DEF Data
  <2> QED
    BY <2>1, <2>4, <2>6, <2>8, <2>9
<1>10. FlattenSeq([i \in 1 .. m |-> IF b[i].event = k THEN b[i].data ELSE <<>>])
        = FlattenSeq([i \in 1 .. n |-> IF q[i].event = k THEN q[i].data ELSE <<>>])
            \o (IF r.event = k THEN r.data ELSE <<>>)
  <2>1. PICK x : x = [i \in 1 .. n |-> IF q[i].event = k THEN q[i].data ELSE <<>>]
    OBVIOUS
  <2>2. x \in Seq(Data)
    <3>1. \A i \in 1 .. n : (IF q[i].event = k THEN q[i].data ELSE <<>>) \in Data
      BY <1>7
    <3> QED
      BY <2>1, <3>1
  <2>3. Len(x) = n
    BY <2>1
  <2>4. PICK y : y = [i \in 1 .. m |-> IF b[i].event = k THEN b[i].data ELSE <<>>]
    OBVIOUS
  <2>5. y \in [1 .. m -> Data]
    <3>1. \A i \in 1 .. m : (IF b[i].event = k THEN b[i].data ELSE <<>>) \in Data
      BY <1>3, <1>4, <1>5, <1>7
    <3> QED
      BY <2>4, <3>1
  <2>6. PICK e \in Data : e = IF r.event = k THEN r.data ELSE <<>>
    BY <1>7
  <2>7. y[m] = e /\ \A i \in 1 .. n : y[i] = x[i]
    BY <1>4, <1>5, <1>8, <2>1, <2>4, <2>6
  <2>8. y = Append(x, e)
    BY <1>3, <2>2, <2>3, <2>5, <2>7, FrontAndLast
  <2>9. FlattenSeq(Append(x, e)) = FlattenSeq(x) \o e
    BY <2>2, FlattenAppend DEF Data
  <2> QED
    BY <2>1, <2>4, <2>6, <2>8, <2>9
<1> QED
  BY <1>1, <1>2, <1>4, <1>9, <1>10 DEF Bytes, BytesOf

\* What was received is bytes.
LEMMA GotTyped ==
  ASSUME InputTypeOK, NEW s \in Streams, NEW k
  PROVE  GotAll(s) \in Data /\ GotOf(s, k) \in Data
<1>1. PICK q \in Seq(Runs) : q = got[s]
  BY DEF InputTypeOK
<1>2. PICK n \in Nat : n = Len(q)
  BY LenProperties
<1>3. <<>> \in Data /\ \A i \in 1 .. n : q[i].data \in Data
  <2>1. \A i \in 1 .. n : q[i] \in Runs
    BY <1>2, ElementOfSeq
  <2> QED
    BY <2>1 DEF Data, Runs
<1>4. FlattenSeq([i \in 1 .. n |-> q[i].data]) \in Data
  <2>1. [i \in 1 .. n |-> q[i].data] \in Seq(Data)
    BY <1>3
  <2> QED
    BY <2>1, FlattenType DEF Data
<1>5. FlattenSeq([i \in 1 .. n |-> IF q[i].event = k THEN q[i].data ELSE <<>>]) \in Data
  <2>1. \A i \in 1 .. n : (IF q[i].event = k THEN q[i].data ELSE <<>>) \in Data
    BY <1>3
  <2>2. [i \in 1 .. n |-> IF q[i].event = k THEN q[i].data ELSE <<>>] \in Seq(Data)
    BY <2>1
  <2> QED
    BY <2>2, FlattenType DEF Data
<1> QED
  BY <1>1, <1>2, <1>4, <1>5 DEF GotAll, GotOf

\* A sequence begins one it is the front of.
LEMMA FrontBegins ==
  ASSUME NEW a \in Data, NEW b \in Data
  PROVE  Begins(a, a \o b)
<1>1. PICK n \in Nat, m \in Nat : n = Len(a) /\ m = Len(b)
  BY LenProperties DEF Data
<1>2. Len(a \o b) = n + m
  BY <1>1, ConcatProperties DEF Data
<1>3. a = SubSeq(a \o b, 1, n)
  <2>1. CASE n = 0
    <3>1. a = <<>>
      BY <1>1, <2>1, EmptySeq DEF Data
    <3>2. SubSeq(a \o b, 1, 0) = <<>>
      <4>1. 1 \in Int /\ 0 \in Int /\ 0 < 1
        OBVIOUS
      <4> QED
        BY <4>1, SubSeqEmpty
    <3> QED
      BY <2>1, <3>1, <3>2
  <2>2. CASE n # 0
    <3>1. 1 \in 1 .. Len(a) /\ n \in 1 .. Len(a)
      BY <1>1, <2>2
    <3>2. SubSeq(a \o b, 1, n) = SubSeq(a, 1, n)
      BY <3>1, SubSeqOfConcat1 DEF Data
    <3>3. SubSeq(a, 1, n) = a
      BY <1>1, SubSeqFull DEF Data
    <3> QED
      BY <3>2, <3>3
  <2> QED
    BY <2>1, <2>2
<1>4. n <= n + m
  BY <1>1
<1> QED
  BY <1>1, <1>2, <1>3, <1>4 DEF Begins

\* A stream keeps its invariant over a step that leaves its state alone and
\* whose line has, one for one, commands of the stream that were there.
LEMMA KeysKept ==
  ASSUME InputTypeOK, InjectionsOK, NEW s \in Streams, KeysOf(s),
         st'[s] = st[s], cur'[s] = cur[s], reply'[s] = reply[s], taken'[s] = taken[s],
         summary'[s] = summary[s], result'[s] = result[s], got'[s] = got[s],
         \A k \in 1 .. taken[s] : sent'[s][k] = sent[s][k],
         NEW m,
         \A i \in 1 .. Len(line') : line'[i].stream = s =>
           m[i] \in 1 .. Len(line) /\ line'[i] = line[m[i]],
         \A i, j \in 1 .. Len(line') : m[j] = m[i] => j = i
  PROVE  KeysOf(s)'
<1>1. GotAll(s)' = GotAll(s) /\ GotNow(s)' = GotNow(s) /\ \A k : GotOf(s, k)' = GotOf(s, k)
  BY DEF GotAll, GotNow, GotOf
<1>2. /\ taken[s] > 0 => Now(s)' = Now(s)
      /\ AllPlain(s)' = AllPlain(s)
  <2>1. taken[s] \in Nat
    BY DEF InputTypeOK
  <2>2. taken[s] > 0 => taken[s] \in 1 .. taken[s]
    BY <2>1
  <2>3. AllPlain(s)' = AllPlain(s)
    BY DEF AllPlain
  <2> QED
    BY <2>2, <2>3 DEF Now
<1>3. Resting(s)' = Resting(s) /\ Sending(s)' = Sending(s) /\ Busy(s)' = Busy(s)
  BY DEF Resting, Sending, Busy
<1>4. NoKeys(s) => NoKeys(s)'
  BY DEF NoKeys, IsKeys
<1>5. LiveInv(s)'
  <2> SUFFICES ASSUME NEW i \in 1 .. Len(line'), line'[i].stream = s, line'[i].live
               PROVE  /\ st[s] = "waiting" /\ reply[s] = "none" /\ line'[i].pane = cur[s].pane
                      /\ IsKeys(line'[i], s) <=> cur[s].kind = "keys"
                      /\ \A j \in 1 .. Len(line') : line'[j].stream = s /\ line'[j].live => j = i
    BY DEF LiveInv, IsKeys
  <2>1. PICK x \in 1 .. Len(line) : x = m[i] /\ line'[i] = line[x]
    OBVIOUS
  <2>2. /\ st[s] = "waiting" /\ reply[s] = "none" /\ line[x].pane = cur[s].pane
        /\ IsKeys(line[x], s) <=> cur[s].kind = "keys"
        /\ \A j \in 1 .. Len(line) : line[j].stream = s /\ line[j].live => j = x
    BY <2>1 DEF KeysOf, LiveInv
  <2>3. ASSUME NEW j \in 1 .. Len(line'), line'[j].stream = s, line'[j].live
        PROVE  j = i
    <3>1. PICK y \in 1 .. Len(line) : y = m[j] /\ line'[j] = line[y]
      BY <2>3
    <3>2. y = x
      BY <2>2, <2>3, <3>1
    <3>3. m[j] = m[i]
      BY <2>1, <3>1, <3>2
    <3> QED
      BY <3>3
  <2> QED
    BY <2>1, <2>2, <2>3
<1>6. GotInv(s)'
  BY <1>1, <1>3 DEF KeysOf, GotInv
<1>7. LineInv(s)'
  <2> SUFFICES ASSUME NEW i \in 1 .. Len(line'), IsKeys(line'[i], s)
               PROVE  /\ line'[i].event = taken[s] /\ taken[s] > 0
                      /\ \A j \in 1 .. Len(line') : IsKeys(line'[j], s) => j = i
                      /\ Sending(s) => line'[i].live /\ st[s] = "waiting"
                      /\ Plain(Now(s)') =>
                           /\ Whole(line'[i], GotNow(s)', Now(s)')
                           /\ Sending(s) => (GotNow(s)' \o line'[i].data) \o cur[s].rest = Now(s)'
    BY <1>3 DEF LineInv, IsKeys, Whole
  <2>1. PICK x \in 1 .. Len(line) : x = m[i] /\ line'[i] = line[x] /\ line'[i].stream = s
    BY DEF IsKeys
  <2>2. /\ line[x].event = taken[s] /\ taken[s] > 0
        /\ \A j \in 1 .. Len(line) : IsKeys(line[j], s) => j = x
        /\ Sending(s) => line[x].live /\ st[s] = "waiting"
        /\ Plain(Now(s)) =>
             /\ Whole(line[x], GotNow(s), Now(s))
             /\ Sending(s) => (GotNow(s) \o line[x].data) \o cur[s].rest = Now(s)
    BY <2>1 DEF KeysOf, LineInv
  <2>3. ASSUME NEW j \in 1 .. Len(line'), IsKeys(line'[j], s)
        PROVE  j = i
    <3>1. PICK y \in 1 .. Len(line) : y = m[j] /\ line'[j] = line[y] /\ line'[j].stream = s
      BY <2>3 DEF IsKeys
    <3>2. y = x
      BY <2>2, <2>3, <3>1
    <3>3. m[j] = m[i]
      BY <2>1, <3>1, <3>2
    <3> QED
      BY <3>3
  <2>4. GotNow(s)' = GotNow(s) /\ Now(s)' = Now(s)
    BY <1>1, <1>2, <2>2
  <2> QED
    BY <2>1, <2>2, <2>3, <2>4
<1>8. StageInv(s)'
  <2>1. taken[s] > 0 \/ ~Sending(s)
    BY DEF InjectionsOK, Sending
  <2>2. Resting(s)' => /\ result'[s] = "none" /\ NoKeys(s)'
                       /\ AllPlain(s)' => summary'[s] = Len(GotAll(s)')
    BY <1>1, <1>2, <1>3, <1>4 DEF KeysOf, StageInv
  <2>3. result'[s] = "ok" => NoKeys(s)' /\ (AllPlain(s)' => summary'[s] = Len(GotAll(s)'))
    BY <1>1, <1>2, <1>4 DEF KeysOf, StageInv
  <2>4. ASSUME Sending(s)
        PROVE  /\ result'[s] = "none"
               /\ st'[s] = "inject" => NoKeys(s)'
               /\ AllPlain(s)' => summary'[s] + Len(GotNow(s)') = Len(GotAll(s)')
               /\ Plain(Now(s)') =>
                    /\ Plain(cur'[s].rest)
                    /\ st'[s] = "inject" \/ reply'[s] = "ok" =>
                         GotNow(s)' \o cur'[s].rest = Now(s)'
    <3>1. GotNow(s)' = GotNow(s) /\ Now(s)' = Now(s) /\ GotAll(s)' = GotAll(s)
      BY <1>1, <1>2, <2>1, <2>4
    <3> QED
      BY <1>2, <1>4, <2>4, <3>1 DEF KeysOf, StageInv
  <2> QED
    BY <1>3, <2>2, <2>3, <2>4 DEF StageInv, Plain
<1> QED
  BY <1>5, <1>6, <1>7, <1>8 DEF KeysOf

\* A handler's step leaves the other streams' keys where they are.
LEMMA KeysOfOthers ==
  ASSUME InputTypeOK, InjectionsOK, KeysInv, NEW s \in Streams, Handler(s)
  PROVE  (~tmuxUp' => line' = <<>>) /\ \A t \in Streams \ {s} : KeysOf(t)'
<1>1. /\ UNCHANGED <<tmuxUp, got, sent>>
      /\ \A t \in Streams \ {s} :
              /\ st'[t] = st[t] /\ cur'[t] = cur[t] /\ reply'[t] = reply[t] /\ taken'[t] = taken[t]
              /\ summary'[t] = summary[t] /\ result'[t] = result[t]
  BY HandlerKeeps DEF clientVars
<1>2. WriteCommand(s) \/ GiveUp(s) \/ line' = line
  BY DEF Handler, Proceeds, TakeKeys, TakeResize, TakeRestore, CommandDone, CommandFails,
         StreamEnds, HandlerReturns, RestoreNext, tmuxVars
<1>3. PICK n \in Nat : n = Len(line)
  BY LenProperties DEF InputTypeOK
<1>4. \A i \in 1 .. Len(line') : line'[i].stream # s => i \in 1 .. n /\ line'[i] = line[i]
  <2>1. CASE WriteCommand(s)
    <3>1. Len(line') = n + 1 /\ \A i \in 1 .. n : line'[i] = line[i]
      BY <1>3, <2>1, LineGrows
    <3>2. line'[n + 1].stream = s
      <4>1. line'[n + 1] = CommandOf(s)
        BY <1>3, <2>1, LineGrows
      <4>2. CommandOf(s).stream = s
        BY <2>1, WritesCommand DEF WriteCommand
      <4> QED
        BY <4>1, <4>2
    <3>3. \A i \in 1 .. n + 1 : i \in 1 .. n \/ i = n + 1
      BY <1>3
    <3> QED
      BY <3>1, <3>2, <3>3
  <2>2. CASE GiveUp(s)
    BY <1>3, <2>2, LineForgets
  <2> QED
    BY <1>2, <1>3, <2>1, <2>2
<1>5. ~tmuxUp' => line' = <<>>
  <2>1. CASE WriteCommand(s)
    BY <1>1, <2>1 DEF WriteCommand
  <2>2. CASE GiveUp(s) /\ ~tmuxUp
    <3>1. Len(line) = 0
      BY <2>2 DEF KeysInv
    <3>2. line' \in Seq(Commands) /\ Len(line') = 0
      BY <2>2, <3>1, LineForgets
    <3> QED
      BY <3>2, EmptySeq
  <2> QED
    BY <1>1, <1>2, <2>1, <2>2 DEF KeysInv
<1>6. ASSUME NEW t \in Streams \ {s}
      PROVE  KeysOf(t)'
  <2>1. PICK m : m = [i \in 1 .. Len(line') |-> i]
    OBVIOUS
  <2>2. \A i \in 1 .. Len(line') : m[i] = i
    BY <2>1
  <2>3. \A i \in 1 .. Len(line') : line'[i].stream = t =>
           m[i] \in 1 .. Len(line) /\ line'[i] = line[m[i]]
    BY <1>3, <1>4, <2>2
  <2>4. \A i, j \in 1 .. Len(line') : m[j] = m[i] => j = i
    BY <2>2
  <2>5. t \in Streams /\ KeysOf(t)
    BY DEF KeysInv
  <2>6. /\ st'[t] = st[t] /\ cur'[t] = cur[t] /\ reply'[t] = reply[t] /\ taken'[t] = taken[t]
        /\ summary'[t] = summary[t] /\ result'[t] = result[t]
    BY <1>1
  <2>7. got'[t] = got[t] /\ \A k \in 1 .. taken[t] : sent'[t][k] = sent[t][k]
    BY <1>1
  <2> QED
    BY <2>3, <2>4, <2>5, <2>6, <2>7, KeysKept
<1> QED
  BY <1>5, <1>6

\* What arrived is not touched by a step that runs no keys.
LEMMA GotSame ==
  ASSUME NEW s \in Streams, got'[s] = got[s], NEW k
  PROVE  GotAll(s)' = GotAll(s) /\ GotOf(s, k)' = GotOf(s, k)
BY DEF GotAll, GotOf

\* Once a stream is failing or ending, only what arrived matters.
LEMMA KeysEnd ==
  ASSUME InputTypeOK, InjectionsOK, NEW s \in Streams, KeysOf(s),
         got'[s] = got[s], sent'[s] = sent[s], taken'[s] = taken[s], summary'[s] = summary[s],
         ~Resting(s)', ~Sending(s)',
         result'[s] = "ok" => result[s] = "ok" \/ Resting(s),
         Len(line') = Len(line),
         \A i \in 1 .. Len(line) :
           /\ line'[i].stream = line[i].stream /\ line'[i].op = line[i].op
           /\ line'[i].data = line[i].data /\ line'[i].event = line[i].event
           /\ line'[i].stream = s => ~line'[i].live
  PROVE  KeysOf(s)'
<1>1. /\ GotAll(s)' = GotAll(s) /\ GotNow(s)' = GotNow(s) /\ Now(s)' = Now(s)
      /\ AllPlain(s)' = AllPlain(s)
  BY DEF GotAll, GotOf, GotNow, Now, AllPlain
<1>2. \A k \in Nat : GotOf(s, k)' = GotOf(s, k)
  BY GotSame
<1>3. \A i \in 1 .. Len(line) : IsKeys(line'[i], s) = IsKeys(line[i], s)
  BY DEF IsKeys
<1>4. NoKeys(s) => NoKeys(s)'
  BY <1>3 DEF NoKeys
<1>5. LiveInv(s)'
  BY DEF LiveInv
<1>6. GotInv(s)'
  <2>1. taken[s] \in Nat /\ \A k \in 1 .. taken[s] : k \in Nat
    BY DEF InputTypeOK
  <2> QED
    BY <1>2, <2>1 DEF KeysOf, GotInv
<1>7. LineInv(s)'
  <2> SUFFICES ASSUME NEW i \in 1 .. Len(line), IsKeys(line'[i], s)
               PROVE  /\ line'[i].event = taken[s] /\ taken[s] > 0
                      /\ \A j \in 1 .. Len(line) : IsKeys(line'[j], s) => j = i
                      /\ Plain(Now(s)) => Whole(line'[i], GotNow(s), Now(s))
    BY <1>1 DEF LineInv, Whole
  <2>1. /\ line[i].event = taken[s] /\ taken[s] > 0
        /\ \A j \in 1 .. Len(line) : IsKeys(line[j], s) => j = i
        /\ Plain(Now(s)) => Whole(line[i], GotNow(s), Now(s))
    BY <1>3 DEF KeysOf, LineInv
  <2>2. Whole(line[i], GotNow(s), Now(s)) => Whole(line'[i], GotNow(s), Now(s))
    BY DEF Whole
  <2> QED
    BY <1>3, <2>1, <2>2
<1>8. StageInv(s)'
  BY <1>1, <1>4 DEF KeysOf, StageInv
<1> QED
  BY <1>5, <1>6, <1>7, <1>8 DEF KeysOf

\* No command of a handler that does not wait, or was answered, is live.
LEMMA NoneLive ==
  ASSUME InputTypeOK, KeysInv, NEW s \in Streams,
         st[s] # "waiting" \/ reply[s] # "none" \/ ~tmuxUp
  PROVE  \A i \in 1 .. Len(line) : line[i].stream = s => ~line[i].live
<1>1. CASE st[s] # "waiting" \/ reply[s] # "none"
  BY <1>1 DEF KeysInv, KeysOf, LiveInv
<1>2. CASE ~tmuxUp
  BY <1>2 DEF KeysInv
<1> QED
  BY <1>1, <1>2

\* A handler that fails, gives up, ends or restores has no keys under way.
LEMMA KeysEnding ==
  ASSUME InputTypeOK, InjectionsOK, KeysInv, NEW s \in Streams,
         \/ CommandFails(s) \/ GiveUp(s) \/ StreamEnds(s) \/ HandlerReturns(s)
         \/ CommandDone(s) /\ cur[s].kind = "restoreAll"
         \/ \E p \in Panes : RestoreNext(s, p)
  PROVE  KeysOf(s)'
<1> USE DEF tmuxVars, watcherVars, handlerVars, clientVars
<1>1. got' = got /\ sent' = sent /\ taken' = taken
  BY DEF CommandFails, GiveUp, StreamEnds, HandlerReturns, CommandDone, RestoreNext
<1>2. summary' = summary
  <2>1. CASE CommandDone(s) /\ cur[s].kind = "restoreAll"
    <3>1. Tally(s) = 0
      BY <2>1 DEF Tally
    <3>2. summary[s] \in Nat
      BY DEF InputTypeOK
    <3>3. summary[s] + 0 = summary[s]
      BY <3>2
    <3>4. [summary EXCEPT ![s] = @ + 0] = summary
      BY <3>3 DEF InputTypeOK
    <3> QED
      BY <2>1, <3>1, <3>4 DEF CommandDone
  <2> QED
    BY <2>1 DEF CommandFails, GiveUp, StreamEnds, HandlerReturns, RestoreNext
<1>3. ~Resting(s)' /\ ~Sending(s)'
  <2>1. ASSUME NEW p \in Panes, RestoreNext(s, p)
        PROVE  st'[s] = "restoring" \/ (st'[s] = "inject" /\ cur'[s].kind = "restoreAll")
    <3>1. PICK n \in Sizes : n = saved[s][p]
      BY DEF InputTypeOK
    <3>2. <<>> \in Data
      BY DEF Data
    <3>3. CASE Drop
      BY <2>1, <3>3 DEF RestoreNext, Drop
    <3>4. CASE Inject(s, "restoreAll", p, n, <<>>)
      BY <3>2, <3>4, InjectStarts DEF Kinds
    <3> QED
      BY <2>1, <3>1, <3>3, <3>4 DEF RestoreNext
  <2>2. ASSUME CommandDone(s), cur[s].kind = "restoreAll"
        PROVE  st'[s] = "restoring"
    <3>1. cur[s].rest = <<>>
      BY <2>2 DEF InjectionsOK
    <3> QED
      BY <2>2, <3>1 DEF CommandDone, GoTo, InputTypeOK
  <2>3. ASSUME CommandFails(s) \/ GiveUp(s) \/ StreamEnds(s) \/ HandlerReturns(s)
        PROVE  st'[s] \in {"restoring", "ended"}
    BY <2>3 DEF CommandFails, GiveUp, StreamEnds, HandlerReturns, Failed, GoTo, InputTypeOK
  <2> QED
    BY <2>1, <2>2, <2>3 DEF Resting, Sending, Busy
<1>4. result'[s] = "ok" => result[s] = "ok" \/ Resting(s)
  <2>1. CASE CommandFails(s) \/ GiveUp(s)
    BY <2>1 DEF CommandFails, GiveUp, Failed, InputTypeOK
  <2>2. CASE StreamEnds(s)
    BY <2>2 DEF StreamEnds, Resting
  <2> QED
    BY <2>1, <2>2 DEF HandlerReturns, CommandDone, RestoreNext
<1>5. /\ Len(line') = Len(line)
      /\ \A i \in 1 .. Len(line) :
           /\ line'[i].stream = line[i].stream /\ line'[i].op = line[i].op
           /\ line'[i].data = line[i].data /\ line'[i].event = line[i].event
           /\ line'[i].stream = s => ~line'[i].live
  <2>1. CASE GiveUp(s)
    BY <2>1, LineForgets
  <2>2. CASE ~GiveUp(s)
    <3>1. line' = line
      BY <2>2 DEF CommandFails, StreamEnds, HandlerReturns, CommandDone, RestoreNext
    <3>2. st[s] # "waiting" \/ reply[s] # "none" \/ ~tmuxUp
      BY <2>2 DEF CommandFails, StreamEnds, HandlerReturns, CommandDone, RestoreNext
    <3> QED
      BY <3>1, <3>2, NoneLive
  <2> QED
    BY <2>1, <2>2
<1>6. KeysOf(s)
  BY DEF KeysInv
<1> QED
  BY <1>1, <1>2, <1>3, <1>4, <1>5, <1>6, KeysEnd

\* An empty sequence begins every other.
LEMMA NoneBegins ==
  ASSUME NEW b \in Data
  PROVE  Begins(<<>>, b)
<1>1. Len(b) \in Nat
  BY LenProperties DEF Data
<1>2. Len(<<>>) = 0 /\ 0 <= Len(b)
  BY <1>1
<1>3. SubSeq(b, 1, 0) = <<>>
  <2>1. 1 \in Int /\ 0 \in Int /\ 0 < 1
    OBVIOUS
  <2> QED
    BY <2>1, SubSeqEmpty
<1> QED
  BY <1>2, <1>3 DEF Begins

\* An event taken is dropped or begins: nothing of it has arrived yet.
LEMMA KeysTaking ==
  ASSUME InputTypeOK, InjectionsOK, KeysInv, NEW s \in Streams,
         TakeKeys(s) \/ TakeResize(s) \/ TakeRestore(s)
  PROVE  KeysOf(s)'
<1> USE DEF tmuxVars, watcherVars, handlerVars, clientVars
<1>1. /\ st[s] = "select" /\ taken[s] < Len(sent[s]) /\ taken' = [taken EXCEPT ![s] = @ + 1]
      /\ UNCHANGED <<line, got, reply, summary, result, sent>>
  BY DEF TakeKeys, TakeResize, TakeRestore, Takes
<1>2. PICK e \in Events : e = NextEvent(s)
  BY <1>1, NextIsSent
<1>3. e.pane \in Panes /\ e.data \in Data /\ e.size \in Nat
  BY <1>2, EventFacts
<1>4. PICK n \in Nat : n = taken[s] + 1 /\ n > taken[s] /\ n > 0
  <2>1. taken[s] \in Nat
    BY DEF InputTypeOK
  <2> QED
    BY <2>1
<1>5. taken'[s] = n /\ sent[s][n] = e /\ \A k \in 1 .. n : k \in Nat /\ (k \in 1 .. taken[s] \/ k = n)
  <2>1. taken[s] \in Nat
    BY DEF InputTypeOK
  <2>2. taken'[s] = n
    BY <1>1, <1>4 DEF InputTypeOK
  <2> QED
    BY <1>2, <1>4, <2>1, <2>2 DEF NextEvent
<1>6. \/ st'[s] = "select"
      \/ st'[s] = "inject" /\ cur'[s].kind \in {"resize", "restore"}
      \/ st'[s] = "inject" /\ cur'[s].kind = "keys" /\ cur'[s].rest = e.data
  <2>1. 0 \in Sizes /\ <<>> \in Data
    BY InputAssumption DEF Sizes, Data
  <2>2. CASE Drop
    BY <1>1, <2>2 DEF Drop
  <2>3. CASE Inject(s, "keys", e.pane, 0, e.data)
    BY <1>3, <2>1, <2>3, InjectStarts DEF Kinds
  <2>4. CASE Plausible(e.size) /\ Inject(s, "resize", e.pane, e.size, <<>>)
    <3>1. e.size \in Sizes
      BY <1>3, <2>4, InputAssumption DEF Plausible, Sizes
    <3> QED
      BY <1>3, <2>1, <2>4, <3>1, InjectStarts DEF Kinds
  <2>5. CASE Inject(s, "restore", e.pane, saved[s][e.pane], <<>>)
    <3>1. saved[s][e.pane] \in Sizes
      BY <1>3 DEF InputTypeOK
    <3> QED
      BY <1>3, <2>1, <2>5, <3>1, InjectStarts DEF Kinds
  <2> QED
    BY <1>2, <2>2, <2>3, <2>4, <2>5 DEF TakeKeys, TakeResize, TakeRestore
<1>7. /\ KeysOf(s) /\ Resting(s)
      /\ result[s] = "none" /\ NoKeys(s)
      /\ AllPlain(s) => summary[s] = Len(GotAll(s))
  BY <1>1 DEF KeysInv, KeysOf, StageInv, Resting
<1>8. GotAll(s)' = GotAll(s) /\ \A k : GotOf(s, k)' = GotOf(s, k)
  BY <1>1, GotSame
<1>9. GotOf(s, n) = <<>>
  BY <1>4, <1>7 DEF KeysOf, GotInv
<1>10. NoKeys(s)'
  BY <1>1, <1>7 DEF NoKeys
<1>11. LiveInv(s)'
  <2>1. \A i \in 1 .. Len(line) : line[i].stream = s => ~line[i].live
    BY <1>1, NoneLive
  <2> QED
    BY <1>1, <2>1 DEF LiveInv
<1>12. LineInv(s)'
  BY <1>10 DEF LineInv, NoKeys
<1>13. GotInv(s)'
  <2>1. \A i \in 1 .. Len(got'[s]) : got'[s][i].event <= n
    <3>1. PICK q \in Seq(Runs) : q = got[s]
      BY DEF InputTypeOK
    <3>2. \A i \in 1 .. Len(got[s]) : got[s][i].event \in Nat
      <4>1. \A i \in 1 .. Len(q) : q[i] \in Runs
        BY ElementOfSeq
      <4> QED
        BY <3>1, <4>1 DEF Runs
    <3>3. taken[s] \in Nat
      BY DEF InputTypeOK
    <3>4. \A i \in 1 .. Len(got[s]) : got[s][i].event <= taken[s]
      BY <1>7 DEF KeysOf, GotInv
    <3>5. \A i \in 1 .. Len(got[s]) : got[s][i].event <= n
      BY <1>4, <3>2, <3>3, <3>4
    <3> QED
      BY <1>1, <3>5
  <2>2. \A i \in 1 .. (Len(got'[s]) - 1) : got'[s][i].event <= got'[s][i + 1].event
    BY <1>1, <1>7 DEF KeysOf, GotInv
  <2>3. ASSUME NEW k \in 1 .. n
        PROVE  Plain(sent'[s][k].data) => /\ Begins(GotOf(s, k)', sent'[s][k].data)
                                          /\ GotOf(s, k)' \in {<<>>, sent'[s][k].data}
    <3>1. CASE k = n
      BY <1>1, <1>3, <1>5, <1>8, <1>9, <3>1, NoneBegins
    <3>2. CASE k \in 1 .. taken[s]
      BY <1>1, <1>7, <1>8, <3>2 DEF KeysOf, GotInv
    <3> QED
      BY <1>5, <3>1, <3>2
  <2>4. ASSUME NEW k \in Nat, k > n
        PROVE  GotOf(s, k)' = <<>>
    <3>1. taken[s] \in Nat
      BY DEF InputTypeOK
    <3>2. k > taken[s]
      BY <1>4, <2>4, <3>1
    <3> QED
      BY <1>7, <1>8, <3>2 DEF KeysOf, GotInv
  <2> QED
    BY <1>5, <2>1, <2>2, <2>3, <2>4 DEF GotInv
<1>14. AllPlain(s)' => AllPlain(s)
  <2>1. \A k \in 1 .. taken[s] : k \in 1 .. n
    <3>1. taken[s] \in Nat
      BY DEF InputTypeOK
    <3> QED
      BY <1>4, <3>1
  <2> QED
    BY <1>1, <1>5, <2>1 DEF AllPlain
<1>15. StageInv(s)'
  <2>1. /\ result'[s] = "none"
        /\ AllPlain(s)' => summary'[s] = Len(GotAll(s)')
    BY <1>1, <1>7, <1>8, <1>14
  <2>2. ASSUME Sending(s)'
        PROVE  /\ AllPlain(s)' => summary'[s] + Len(GotNow(s)') = Len(GotAll(s)')
               /\ Plain(Now(s)') => Plain(cur'[s].rest)
               /\ GotNow(s)' \o cur'[s].rest = Now(s)'
    <3>1. cur'[s].rest = e.data
      BY <1>6, <2>2 DEF Sending, Busy
    <3>2. GotNow(s)' = <<>>
      BY <1>5, <1>8, <1>9 DEF GotNow
    <3>3. Now(s)' = e.data
      BY <1>1, <1>5 DEF Now
    <3>4. <<>> \o e.data = e.data
      BY <1>3, ConcatEmptySeq DEF Data
    <3>5. summary[s] \in Nat /\ Len(<<>>) = 0
      BY DEF InputTypeOK
    <3>6. AllPlain(s)' => summary[s] + 0 = Len(GotAll(s)')
      BY <2>1, <1>1, <3>5
    <3> QED
      BY <1>1, <3>1, <3>2, <3>3, <3>4, <3>5, <3>6
  <2> QED
    BY <1>10, <2>1, <2>2 DEF StageInv, Plain
<1> QED
  BY <1>11, <1>12, <1>13, <1>15 DEF KeysOf

\* When all events taken are plain, so is the last of them.
LEMMA LastIsPlain ==
  ASSUME InputTypeOK, NEW s \in Streams
  PROVE  taken[s] > 0 /\ AllPlain(s) => Plain(Now(s))
<1>1. taken[s] > 0 => taken[s] \in 1 .. taken[s]
  BY DEF InputTypeOK
<1> QED
  BY <1>1 DEF AllPlain, Now

\* A command that was answered is out of the line; the last run of an event
\* completes it.
LEMMA KeysDone ==
  ASSUME InputTypeOK, InjectionsOK, KeysInv, NEW s \in Streams, CommandDone(s),
         cur[s].kind # "restoreAll"
  PROVE  KeysOf(s)'
<1> USE DEF tmuxVars, watcherVars, handlerVars, clientVars
<1>1. /\ st[s] = "waiting" /\ reply[s] = "ok"
      /\ UNCHANGED <<line, got, cur, reply, result, sent, taken>>
  BY DEF CommandDone
<1>2. st'[s] = IF cur[s].rest # <<>> THEN "inject" ELSE "select"
  BY DEF CommandDone, GoTo, InputTypeOK
<1>3. /\ cur[s].kind \in {"keys", "resize", "restore"}
      /\ cur[s].kind # "keys" => cur[s].rest = <<>>
      /\ cur[s].kind = "keys" => taken[s] > 0
  BY <1>1 DEF InputTypeOK, InjectionsOK, Injections, Kinds, Busy
<1>4. KeysOf(s)
  BY DEF KeysInv
<1>5. GotAll(s)' = GotAll(s) /\ \A k : GotOf(s, k)' = GotOf(s, k)
  BY <1>1, GotSame
<1>6. /\ GotNow(s)' = GotNow(s) /\ Now(s)' = Now(s) /\ AllPlain(s)' = AllPlain(s)
      /\ taken[s] > 0 /\ AllPlain(s) => Plain(Now(s))
  <2>1. GotNow(s)' = GotNow(s) /\ Now(s)' = Now(s) /\ AllPlain(s)' = AllPlain(s)
    BY <1>1, <1>5 DEF GotNow, Now, AllPlain
  <2> QED
    BY <2>1, LastIsPlain
<1>7. \A i \in 1 .. Len(line) : line[i].stream = s => ~line[i].live
  BY <1>1, NoneLive
<1>8. NoKeys(s)
  <2>1. CASE cur[s].kind = "keys"
    <3>1. Sending(s)
      BY <1>1, <2>1 DEF Sending, Busy
    <3> QED
      BY <1>4, <1>7, <3>1 DEF NoKeys, KeysOf, LineInv, IsKeys
  <2>2. CASE cur[s].kind \in {"resize", "restore"}
    BY <1>1, <1>4, <2>2 DEF KeysOf, StageInv, Resting, Busy
  <2> QED
    BY <1>3, <2>1, <2>2
<1>9. NoKeys(s)'
  BY <1>1, <1>8 DEF NoKeys
<1>10. LiveInv(s)' /\ LineInv(s)'
  BY <1>1, <1>7, <1>9 DEF LiveInv, LineInv, NoKeys
<1>11. ASSUME cur[s].kind = "keys"
       PROVE  /\ result[s] = "none"
              /\ AllPlain(s) => summary[s] + Len(GotNow(s)) = Len(GotAll(s))
              /\ Plain(Now(s)) => Plain(cur[s].rest) /\ GotNow(s) \o cur[s].rest = Now(s)
  <2>1. Sending(s)
    BY <1>1, <1>11 DEF Sending, Busy
  <2> QED
    BY <1>1, <1>4, <2>1 DEF KeysOf, StageInv
<1>12. ASSUME cur[s].kind \in {"resize", "restore"}
       PROVE  /\ Resting(s) /\ result[s] = "none"
              /\ AllPlain(s) => summary[s] = Len(GotAll(s))
  <2>1. Resting(s)
    BY <1>1, <1>12 DEF Resting, Busy
  <2> QED
    BY <1>4, <2>1 DEF KeysOf, StageInv
<1>13. ASSUME cur[s].kind = "keys", cur[s].rest = <<>>, Plain(Now(s))
       PROVE  GotNow(s) = Now(s)
  <2>1. GotNow(s) \o <<>> = Now(s)
    BY <1>11, <1>13
  <2>2. PICK g \in Data : g = GotNow(s)
    BY GotTyped DEF GotNow
  <2>3. g \o <<>> = g
    BY ConcatEmptySeq DEF Data
  <2> QED
    BY <2>1, <2>2, <2>3
<1>14. GotInv(s)'
  <2>1. ASSUME NEW k \in 1 .. taken[s], k < taken[s] \/ Resting(s)', Plain(sent[s][k].data)
        PROVE  GotOf(s, k) \in {<<>>, sent[s][k].data}
    <3>1. CASE k < taken[s] \/ Resting(s)
      BY <1>4, <2>1, <3>1 DEF KeysOf, GotInv
    <3>2. CASE k = taken[s] /\ Resting(s)' /\ ~Resting(s)
      <4>1. cur[s].kind = "keys"
        BY <1>3, <1>12, <3>2
      <4>2. cur[s].rest = <<>>
        BY <1>1, <1>2, <3>2, <4>1 DEF Resting, Busy
      <4>3. Plain(Now(s))
        BY <2>1, <3>2 DEF Now
      <4> QED
        BY <1>13, <3>2, <4>1, <4>2, <4>3 DEF GotNow, Now
    <3>3. taken[s] \in Nat /\ (k < taken[s] \/ k = taken[s])
      BY DEF InputTypeOK
    <3> QED
      BY <2>1, <3>1, <3>2, <3>3
  <2> QED
    BY <1>1, <1>4, <1>5, <2>1 DEF KeysOf, GotInv
<1>15. StageInv(s)'
  <2>1. CASE cur[s].rest # <<>>
    <3>1. cur[s].kind = "keys" /\ st'[s] = "inject" /\ summary' = summary
      BY <1>2, <1>3, <2>1 DEF CommandDone
    <3>2. ~Resting(s)'
      BY <1>1, <3>1 DEF Resting, Busy
    <3> QED
      BY <1>1, <1>5, <1>6, <1>9, <1>11, <3>1, <3>2 DEF StageInv
  <2>2. CASE cur[s].rest = <<>>
    <3>1. st'[s] = "select" /\ ~Sending(s)'
      BY <1>2, <2>2 DEF Sending, Busy
    <3>2. summary'[s] = summary[s] + Tally(s)
      BY <2>2 DEF CommandDone, InputTypeOK
    <3>3. AllPlain(s) => summary'[s] = Len(GotAll(s))
      <4>1. CASE cur[s].kind = "keys"
        <5>1. Tally(s) = Len(Now(s))
          BY <4>1 DEF Tally, Now
        <5>2. AllPlain(s) => Plain(Now(s))
          BY <1>3, <1>6, <4>1
        <5> QED
          BY <1>11, <1>13, <2>2, <3>2, <4>1, <5>1, <5>2
      <4>2. CASE cur[s].kind \in {"resize", "restore"}
        <5>1. Tally(s) = 0 /\ summary[s] \in Nat
          BY <4>2 DEF Tally, InputTypeOK
        <5>2. summary'[s] = summary[s]
          BY <3>2, <5>1
        <5> QED
          BY <1>12, <4>2, <5>2
      <4> QED
        BY <1>3, <4>1, <4>2
    <3>4. result'[s] = "none"
      BY <1>1, <1>3, <1>11, <1>12
    <3> QED
      BY <1>5, <1>6, <1>9, <3>1, <3>3, <3>4 DEF StageInv
  <2> QED
    BY <2>1, <2>2
<1> QED
  BY <1>10, <1>14, <1>15 DEF KeysOf

\* A run is written whole, after what arrived of its event and before the rest.
LEMMA KeysWriting ==
  ASSUME InputTypeOK, InjectionsOK, KeysInv, NEW s \in Streams, WriteCommand(s)
  PROVE  KeysOf(s)'
<1> USE DEF tmuxVars, watcherVars, handlerVars, clientVars
<1>1. /\ st[s] = "inject" /\ st'[s] = "waiting" /\ reply'[s] = "none"
      /\ UNCHANGED <<got, result, sent, taken, summary>>
  BY DEF WriteCommand, GoTo, InputTypeOK
<1>2. /\ cur[s].kind \in {"keys", "resize", "restore", "restoreAll"} /\ cur[s].rest \in Data
      /\ cur[s].kind = "keys" => taken[s] > 0 /\ cur[s].rest # <<>>
  BY <1>1 DEF InputTypeOK, InjectionsOK, Injections, Kinds, Busy
<1>3. /\ cur'[s].kind = cur[s].kind /\ cur'[s].pane = cur[s].pane
      /\ cur[s].kind = "keys" => cur'[s].rest = RestOf(cur[s].rest)
  <2>1. PICK d : d = IF cur[s].kind = "keys" THEN RestOf(cur[s].rest) ELSE <<>>
    OBVIOUS
  <2>2. cur' = [cur EXCEPT ![s].rest = d]
    BY <2>1 DEF WriteCommand
  <2>3. PICK c : c = [cur[s] EXCEPT !.rest = d]
    OBVIOUS
  <2>4. c.kind = cur[s].kind /\ c.pane = cur[s].pane /\ c.rest = d
    BY <2>3 DEF InputTypeOK, Injections
  <2>5. cur'[s] = c
    BY <2>2, <2>3 DEF InputTypeOK
  <2> QED
    BY <2>1, <2>4, <2>5
<1>4. PICK n \in Nat, m \in Nat : n = Len(line) /\ m = n + 1 /\ m \in 1 .. m
  <2>1. PICK n \in Nat : n = Len(line)
    BY LenProperties DEF InputTypeOK
  <2>2. n + 1 \in Nat /\ n + 1 \in 1 .. n + 1
    BY <2>1
  <2> QED
    BY <2>1, <2>2
<1>5. PICK c \in Commands : c = CommandOf(s)
  BY <1>1, WritesCommand
<1>6. Len(line') = m /\ line'[m] = c /\ \A i \in 1 .. n : line'[i] = line[i]
  BY <1>4, <1>5, LineGrows
<1>7. \A i \in 1 .. m : i \in 1 .. n \/ i = m
  BY <1>4
<1>8. /\ c.stream = s /\ c.live /\ c.event = taken[s] /\ c.pane = cur[s].pane
      /\ cur[s].kind = "keys" => c.op = KeysOp(cur[s].rest)
      /\ cur[s].kind = "keys" => c.data = FirstRun(cur[s].rest)
      /\ cur[s].kind = "resize" => c.op = "drive"
      /\ cur[s].kind \in {"restore", "restoreAll"} => c.op = "restore"
  BY <1>1, <1>5, WritesCommand
<1>9. IsKeys(c, s) <=> cur[s].kind = "keys"
  <2>1. cur[s].kind = "keys" => c.op \in KeysOps
    BY <1>8 DEF KeysOp, KeysOps
  <2>2. cur[s].kind # "keys" => c.op \notin KeysOps
    BY <1>2, <1>8 DEF KeysOps
  <2> QED
    BY <1>8, <2>1, <2>2 DEF IsKeys
<1>10. KeysOf(s)
  BY DEF KeysInv
<1>11. GotAll(s)' = GotAll(s) /\ \A k : GotOf(s, k)' = GotOf(s, k)
  BY <1>1, GotSame
<1>12. GotNow(s)' = GotNow(s) /\ Now(s)' = Now(s) /\ AllPlain(s)' = AllPlain(s)
  BY <1>1, <1>11 DEF GotNow, Now, AllPlain
<1>13. /\ Resting(s)' => Resting(s) /\ cur[s].kind # "keys"
       /\ Sending(s)' => Sending(s) /\ cur[s].kind = "keys"
       /\ cur[s].kind = "keys" => Sending(s)
  BY <1>1, <1>2, <1>3 DEF Resting, Sending, Busy
<1>14. NoKeys(s) /\ cur[s].kind # "keys" => NoKeys(s)'
  BY <1>4, <1>6, <1>7, <1>9 DEF NoKeys
<1>15. LiveInv(s)'
  <2>1. \A i \in 1 .. n : line[i].stream = s => ~line[i].live
    BY <1>1, <1>4, NoneLive
  <2>2. \A i \in 1 .. m : line'[i].stream = s /\ line'[i].live => i = m
    BY <1>6, <1>7, <2>1
  <2>3. IsKeys(line'[m], s) <=> cur'[s].kind = "keys"
    BY <1>3, <1>6, <1>9
  <2> QED
    BY <1>1, <1>3, <1>6, <1>8, <2>2, <2>3 DEF LiveInv, IsKeys
<1>16. GotInv(s)'
  BY <1>1, <1>10, <1>11, <1>13 DEF KeysOf, GotInv
<1>17. CASE cur[s].kind = "keys"
  <2>1. NoKeys(s) /\ (Plain(Now(s)) => Plain(cur[s].rest) /\ GotNow(s) \o cur[s].rest = Now(s))
    BY <1>1, <1>10, <1>13, <1>17 DEF KeysOf, StageInv
  <2>2. PICK d \in Data : d = cur[s].rest /\ d # <<>>
    BY <1>2, <1>17
  <2>3. PICK g \in Data : g = GotNow(s)
    BY GotTyped DEF GotNow
  <2>4. PICK a \in Data, b \in Data : a = FirstRun(d) /\ b = RestOf(d) /\ a \o b = d
    BY <2>2, RunsAreTheData
  <2>5. c.data = a /\ c.op = KeysOp(d) /\ cur'[s].rest = b
    BY <1>3, <1>8, <1>17, <2>2, <2>4
  <2>6. ASSUME Plain(Now(s))
        PROVE  (g \o a) \o b = Now(s) /\ Whole(c, g, Now(s)) /\ Plain(b)
    <3>1. (g \o a) \o b = g \o (a \o b)
      BY ConcatAssociative DEF Data
    <3>2. g \o a \in Data
      BY ConcatProperties DEF Data
    <3>3. Plain(d) /\ (g \o a) \o b = Now(s)
      BY <2>1, <2>2, <2>3, <2>4, <2>6, <3>1
    <3>4. Begins(g \o a, Now(s))
      BY <3>2, <3>3, FrontBegins
    <3>5. ReceivedAll(c.op, a) = a /\ ~Expands(c.op, a) /\ Plain(b)
      BY <2>2, <2>4, <2>5, <3>3, RunArrivesWhole, PlainRun, PlainRest
    <3> QED
      BY <2>5, <3>3, <3>4, <3>5 DEF Whole
  <2>7. \A i \in 1 .. m : IsKeys(line'[i], s) => i = m
    BY <1>4, <1>6, <1>7, <2>1 DEF NoKeys
  <2>8. LineInv(s)'
    <3> SUFFICES ASSUME NEW i \in 1 .. m, IsKeys(line'[i], s)
                 PROVE  /\ line'[i].event = taken[s] /\ taken[s] > 0
                        /\ \A j \in 1 .. m : IsKeys(line'[j], s) => j = i
                        /\ line'[i].live /\ st'[s] = "waiting"
                        /\ Plain(Now(s)) =>
                             /\ Whole(line'[i], GotNow(s), Now(s))
                             /\ (GotNow(s) \o line'[i].data) \o cur'[s].rest = Now(s)
      BY <1>1, <1>6, <1>12 DEF LineInv, IsKeys, Whole
    <3>1. i = m /\ line'[i] = c
      BY <1>6, <2>7
    <3> QED
      BY <1>1, <1>2, <1>8, <1>17, <2>3, <2>5, <2>6, <2>7, <3>1
  <2>9. StageInv(s)'
    <3>1. /\ result[s] = "none"
          /\ AllPlain(s) => summary[s] + Len(GotNow(s)) = Len(GotAll(s))
      BY <1>10, <1>13, <1>17 DEF KeysOf, StageInv
    <3>2. Plain(Now(s)) => Plain(cur'[s].rest)
      BY <2>5, <2>6
    <3> QED
      BY <1>1, <1>11, <1>12, <1>13, <1>17, <3>1, <3>2 DEF StageInv
  <2> QED
    BY <1>15, <1>16, <2>8, <2>9 DEF KeysOf
<1>18. CASE cur[s].kind # "keys"
  <2>1. ~Sending(s)'
    BY <1>13, <1>18
  <2>2. LineInv(s)'
    <3> SUFFICES ASSUME NEW i \in 1 .. m, IsKeys(line'[i], s)
                 PROVE  /\ line'[i].event = taken[s] /\ taken[s] > 0
                        /\ \A j \in 1 .. m : IsKeys(line'[j], s) => j = i
                        /\ Plain(Now(s)) => Whole(line'[i], GotNow(s), Now(s))
      BY <1>1, <1>6, <1>12, <2>1 DEF LineInv, IsKeys, Whole
    <3>1. \A j \in 1 .. m : IsKeys(line'[j], s) => j \in 1 .. n /\ line'[j] = line[j]
      BY <1>6, <1>7, <1>9, <1>18
    <3>2. /\ line[i].event = taken[s] /\ taken[s] > 0
          /\ \A j \in 1 .. n : IsKeys(line[j], s) => j = i
          /\ Plain(Now(s)) => Whole(line[i], GotNow(s), Now(s))
      BY <1>4, <1>10, <3>1 DEF KeysOf, LineInv
    <3> QED
      BY <3>1, <3>2
  <2>3. StageInv(s)'
    BY <1>1, <1>10, <1>11, <1>12, <1>13, <1>14, <1>18, <2>1 DEF KeysOf, StageInv
  <2> QED
    BY <1>15, <1>16, <2>2, <2>3 DEF KeysOf
<1> QED
  BY <1>17, <1>18

\* What tmux runs of a stream's keys arrives next; a command it answers is gone.
LEMMA KeysRunning ==
  ASSUME InputTypeOK, InjectionsOK, KeysInv, RunCommand
  PROVE  KeysInv'
<1> USE DEF tmuxVars, watcherVars, handlerVars, clientVars
<1>1. tmuxUp' /\ UNCHANGED <<st, cur, summary, result, taken, sent>>
  BY DEF RunCommand
<1>2. PICK n \in Nat : n = Len(line)
  BY LenProperties DEF InputTypeOK
<1>3. PICK c \in Commands : c = Head(line) /\ c = line[1]
  BY LineShrinks
<1>4. /\ 1 \in 1 .. n /\ Len(line') = n - 1
      /\ \A i \in 1 .. n - 1 : i + 1 \in 1 .. n /\ line'[i] = line[i + 1] /\ i + 1 # 1
  <2>1. 1 \in 1 .. n /\ Len(line') = n - 1
    BY <1>2, LineShrinks
  <2>2. \A i \in 1 .. n - 1 : i + 1 \in 1 .. n /\ i + 1 # 1
    BY <1>2
  <2>3. \A i \in 1 .. n - 1 : line'[i] = line[i + 1]
    BY <2>1, LineShrinks
  <2> QED
    BY <1>2, <2>1, <2>2, <2>3
<1>5. PICK s \in Streams : s = c.stream
  BY DEF Commands
<1>6. RunResize(c) \/ RunKeys(c) \/ RunRefused(c)
  BY <1>3 DEF RunCommand
<1>7. c.live \in BOOLEAN /\ c.op \in Ops /\ c.data \in Data
  BY DEF Commands
<1>8. /\ \A t \in Streams \ {s} : reply'[t] = reply[t] /\ got'[t] = got[t]
      /\ ~c.live => reply'[s] = reply[s]
      /\ c.live /\ ~RunRefused(c) => reply'[s] = "ok"
      /\ c.live /\ RunRefused(c) => reply'[s] = "error" \/ reply'[s] = "ok"
  BY <1>5, <1>6 DEF RunResize, RunKeys, RunRefused, Answer, InputTypeOK
<1>9. ASSUME NEW t \in Streams \ {s}
      PROVE  KeysOf(t)'
  <2>1. PICK m : m = [i \in 1 .. n - 1 |-> i + 1]
    OBVIOUS
  <2>2. \A i \in 1 .. n - 1 : m[i] = i + 1
    BY <2>1
  <2>3. \A i \in 1 .. Len(line') : line'[i].stream = t =>
           m[i] \in 1 .. Len(line) /\ line'[i] = line[m[i]]
    BY <1>2, <1>4, <2>2
  <2>4. \A i, j \in 1 .. Len(line') : m[j] = m[i] => j = i
    BY <1>2, <1>4, <2>2
  <2>5. t \in Streams /\ KeysOf(t)
    BY DEF KeysInv
  <2>6. /\ st'[t] = st[t] /\ cur'[t] = cur[t] /\ reply'[t] = reply[t] /\ taken'[t] = taken[t]
        /\ summary'[t] = summary[t] /\ result'[t] = result[t]
    BY <1>1, <1>8
  <2>7. got'[t] = got[t] /\ \A k \in 1 .. taken[t] : sent'[t][k] = sent[t][k]
    BY <1>1, <1>8
  <2> QED
    BY <2>3, <2>4, <2>5, <2>6, <2>7, KeysKept
<1>10. KeysOf(s)
  BY DEF KeysInv
<1>11. /\ Resting(s)' = Resting(s) /\ Sending(s)' = Sending(s) /\ Now(s)' = Now(s)
       /\ Busy(s)' = Busy(s) /\ AllPlain(s)' = AllPlain(s)
  BY <1>1 DEF Resting, Sending, Busy, Now, AllPlain
<1>12. NoKeys(s) => NoKeys(s)'
  BY <1>2, <1>4 DEF NoKeys, IsKeys
<1>13. LiveInv(s)'
  <2> SUFFICES ASSUME NEW i \in 1 .. n - 1, line'[i].stream = s, line'[i].live
               PROVE  /\ st[s] = "waiting" /\ reply'[s] = "none" /\ line'[i].pane = cur[s].pane
                      /\ IsKeys(line'[i], s) <=> cur[s].kind = "keys"
                      /\ \A j \in 1 .. n - 1 : line'[j].stream = s /\ line'[j].live => j = i
    BY <1>1, <1>4 DEF LiveInv, IsKeys
  <2>1. PICK x \in 1 .. n : x = i + 1 /\ x # 1 /\ line'[i] = line[x]
    BY <1>4
  <2>2. /\ st[s] = "waiting" /\ reply[s] = "none" /\ line[x].pane = cur[s].pane
        /\ IsKeys(line[x], s) <=> cur[s].kind = "keys"
        /\ \A j \in 1 .. n : line[j].stream = s /\ line[j].live => j = x
    BY <1>2, <1>10, <2>1 DEF KeysOf, LiveInv
  <2>3. ~c.live
    BY <1>3, <1>4, <1>5, <2>1, <2>2
  <2>4. ASSUME NEW j \in 1 .. n - 1, line'[j].stream = s, line'[j].live
        PROVE  j = i
    <3>1. PICK y \in 1 .. n : y = j + 1 /\ line'[j] = line[y]
      BY <1>4
    <3>2. y = x
      BY <2>2, <2>4, <3>1
    <3> QED
      BY <2>1, <3>1, <3>2
  <2> QED
    BY <1>8, <2>1, <2>2, <2>3, <2>4
<1>14. CASE ~RunKeys(c)
  <2>1. got' = got
    BY <1>6, <1>14 DEF RunResize, RunRefused
  <2>2. GotAll(s)' = GotAll(s) /\ \A k : GotOf(s, k)' = GotOf(s, k)
    BY <2>1, GotSame
  <2>3. GotNow(s)' = GotNow(s)
    BY <1>1, <2>2 DEF GotNow
  <2>4. GotInv(s)'
    BY <1>1, <1>10, <1>11, <2>1, <2>2 DEF KeysOf, GotInv
  <2>5. LineInv(s)'
    <3> SUFFICES ASSUME NEW i \in 1 .. n - 1, IsKeys(line'[i], s)
                 PROVE  /\ line'[i].event = taken[s] /\ taken[s] > 0
                        /\ \A j \in 1 .. n - 1 : IsKeys(line'[j], s) => j = i
                        /\ Sending(s) => line'[i].live /\ st[s] = "waiting"
                        /\ Plain(Now(s)) =>
                             /\ Whole(line'[i], GotNow(s), Now(s))
                             /\ Sending(s) =>
                                  (GotNow(s) \o line'[i].data) \o cur[s].rest = Now(s)
      BY <1>1, <1>4, <1>11, <2>3 DEF LineInv, IsKeys, Whole
    <3>1. PICK x \in 1 .. n : x = i + 1 /\ line'[i] = line[x]
      BY <1>4
    <3>2. /\ line[x].event = taken[s] /\ taken[s] > 0
          /\ \A j \in 1 .. n : IsKeys(line[j], s) => j = x
          /\ Sending(s) => line[x].live /\ st[s] = "waiting"
          /\ Plain(Now(s)) =>
               /\ Whole(line[x], GotNow(s), Now(s))
               /\ Sending(s) => (GotNow(s) \o line[x].data) \o cur[s].rest = Now(s)
      BY <1>2, <1>10, <3>1 DEF KeysOf, LineInv
    <3>3. ASSUME NEW j \in 1 .. n - 1, IsKeys(line'[j], s)
          PROVE  j = i
      <4>1. PICK y \in 1 .. n : y = j + 1 /\ line'[j] = line[y]
        BY <1>4
      <4>2. y = x
        BY <3>2, <3>3, <4>1
      <4> QED
        BY <3>1, <4>1, <4>2
    <3> QED
      BY <3>1, <3>2, <3>3
  <2>6. Sending(s) /\ reply'[s] = "ok" => reply[s] = "ok"
    <3>1. ASSUME Sending(s), reply'[s] = "ok", c.live
          PROVE  FALSE
      <4>1. IsKeys(c, s) <=> cur[s].kind = "keys"
        BY <1>2, <1>3, <1>4, <1>5, <1>10, <3>1 DEF KeysOf, LiveInv
      <4>2. c.op \in KeysOps
        BY <3>1, <4>1 DEF Sending, IsKeys
      <4>3. RunRefused(c)
        BY <1>6, <1>14, <4>2 DEF RunResize, KeysOps
      <4>4. reply'[s] = "error"
        BY <1>5, <3>1, <4>3 DEF RunRefused, Answer, InputTypeOK
      <4> QED
        BY <3>1, <4>4
    <3> QED
      BY <1>8, <3>1
  <2>7. StageInv(s)'
    BY <1>1, <1>10, <1>11, <1>12, <2>2, <2>3, <2>6 DEF KeysOf, StageInv, Plain
  <2> QED
    BY <1>1, <1>5, <1>9, <1>13, <2>4, <2>5, <2>7 DEF KeysInv, KeysOf
<1>15. CASE RunKeys(c)
  <2>1. IsKeys(line[1], s) /\ line[1] = c
    BY <1>3, <1>5, <1>15 DEF RunKeys, IsKeys
  <2>2. /\ c.event = taken[s] /\ taken[s] > 0
        /\ \A j \in 1 .. n : IsKeys(line[j], s) => j = 1
        /\ Sending(s) => st[s] = "waiting"
        /\ Plain(Now(s)) =>
             /\ Whole(c, GotNow(s), Now(s))
             /\ Sending(s) => (GotNow(s) \o c.data) \o cur[s].rest = Now(s)
    BY <1>2, <1>4, <1>10, <2>1 DEF KeysOf, LineInv
  <2>3. ~NoKeys(s)
    BY <1>2, <1>4, <2>1 DEF NoKeys
  <2>4. ~Resting(s) /\ result[s] # "ok"
    BY <1>10, <2>3 DEF KeysOf, StageInv
  <2>5. NoKeys(s)'
    <3>1. \A i \in 1 .. n - 1 : ~IsKeys(line'[i], s)
      BY <1>4, <2>2
    <3> QED
      BY <1>4, <3>1 DEF NoKeys, IsKeys
  <2>6. PICK d \in Data, e \in Nat :
          d = ReceivedAll(c.op, c.data) /\ e = taken[s] /\ e > 0
    BY <1>7, <1>15, <2>2, ReceivedTyped DEF InputTypeOK, RunKeys
  <2>7. PICK r \in Runs : r = [event |-> e, data |-> d]
    BY DEF Runs
  <2>8. r.event = e /\ r.data = d
    BY <2>7
  <2>9. PICK q \in Seq(Runs) : q = got[s]
    BY DEF InputTypeOK
  <2>10. PICK b : b = got'[s] /\ b = Append(q, r)
    BY <1>5, <1>15, <2>2, <2>6, <2>7, <2>9 DEF RunKeys, InputTypeOK
  <2>11. ASSUME NEW k
         PROVE  /\ GotAll(s)' = GotAll(s) \o d
                /\ GotOf(s, k)' = GotOf(s, k) \o (IF e = k THEN d ELSE <<>>)
    <3>1. /\ Bytes(b) = Bytes(q) \o r.data
          /\ BytesOf(b, k) = BytesOf(q, k) \o (IF r.event = k THEN r.data ELSE <<>>)
      <4>1. /\ Bytes(Append(q, r)) = Bytes(q) \o r.data
            /\ BytesOf(Append(q, r), k) = BytesOf(q, k) \o (IF r.event = k THEN r.data ELSE <<>>)
        BY RunAdds
      <4> QED
        BY <2>10, <4>1
    <3>2. GotAll(s) = Bytes(q) /\ GotOf(s, k) = BytesOf(q, k)
      BY <2>9 DEF GotAll, GotOf, Bytes, BytesOf
    <3>3. GotAll(s)' = Bytes(b) /\ GotOf(s, k)' = BytesOf(b, k)
      BY <2>10 DEF GotAll, GotOf, Bytes, BytesOf
    <3> QED
      BY <2>8, <3>1, <3>2, <3>3
  <2>12. GotAll(s)' = GotAll(s) \o d
    BY <2>11
  <2>13. ASSUME NEW k
         PROVE  GotOf(s, k)' = GotOf(s, k) \o (IF e = k THEN d ELSE <<>>)
    BY <2>11
  <2>14. GotNow(s)' = GotNow(s) \o d /\ GotOf(s, e)' = GotNow(s) \o d
    BY <1>1, <2>6, <2>13 DEF GotNow
  <2>15. ASSUME NEW k, k # e
         PROVE  GotOf(s, k)' = GotOf(s, k)
    <3>1. PICK g \in Data : g = GotOf(s, k)
      BY GotTyped
    <3>2. g \o <<>> = g
      BY ConcatEmptySeq DEF Data
    <3> QED
      BY <2>13, <2>15, <3>1, <3>2
  <2>16. PICK l \in Nat : l = Len(q)
    BY LenProperties
  <2>17. /\ Len(b) = l + 1 /\ b[l + 1] = r
         /\ \A i \in 1 .. l : b[i] = q[i]
    <3>1. Len(b) = l + 1 /\ b[l + 1] = r
      BY <2>10, <2>16, AppendProperties
    <3>2. \A i \in 1 .. l : b[i] = q[i]
      BY <2>10, <2>16, AppendProperties
    <3> QED
      BY <3>1, <3>2
  <2>18. GotInv(s)'
    <3>1. \A i \in 1 .. l : q[i].event <= e
      BY <1>10, <2>6, <2>9, <2>16 DEF KeysOf, GotInv
    <3>2. \A i \in 1 .. l + 1 : b[i].event <= e
      <4>1. \A i \in 1 .. l + 1 : i \in 1 .. l \/ i = l + 1
        BY <2>16
      <4>2. e <= e
        BY <2>6
      <4> QED
        BY <2>8, <2>17, <3>1, <4>1, <4>2
    <3>3. \A i \in 1 .. (l - 1) : q[i].event <= q[i + 1].event
      BY <1>10, <2>9, <2>16 DEF KeysOf, GotInv
    <3>4. \A i \in 1 .. l : b[i].event <= b[i + 1].event
      <4>1. \A i \in 1 .. l : \/ i \in 1 .. (l - 1) /\ i + 1 \in 1 .. l
                              \/ i = l
        BY <2>16
      <4>2. ASSUME NEW i \in 1 .. l
            PROVE  b[i].event <= b[i + 1].event
        <5>1. CASE i \in 1 .. (l - 1) /\ i + 1 \in 1 .. l
          <6>1. PICK x \in 1 .. l : x = i + 1
            BY <5>1
          <6>2. q[i].event <= q[x].event
            BY <3>3, <5>1, <6>1
          <6> QED
            BY <2>17, <6>1, <6>2
        <5>2. CASE i = l
          BY <2>8, <2>17, <3>1, <5>2
        <5> QED
          BY <4>1, <5>1, <5>2
      <4> QED
        BY <4>2
    <3>5. Len(b) - 1 = l
      BY <2>16, <2>17
    <3>6. ASSUME NEW k \in 1 .. e, Plain(sent[s][k].data)
          PROVE  /\ Begins(GotOf(s, k)', sent[s][k].data)
                 /\ k < e => GotOf(s, k)' \in {<<>>, sent[s][k].data}
      <4>1. CASE k = e
        <5>1. ~(k < e)
          BY <2>6, <4>1
        <5> QED
          BY <2>2, <2>6, <2>14, <3>6, <4>1, <5>1 DEF Now, Whole
      <4>2. CASE k # e
        BY <1>10, <2>6, <2>15, <3>6, <4>2 DEF KeysOf, GotInv
      <4> QED
        BY <4>1, <4>2
    <3>7. ASSUME NEW k \in Nat, k > e
          PROVE  GotOf(s, k)' = <<>>
      <4>1. k # e
        BY <2>6, <3>7
      <4> QED
        BY <1>10, <2>6, <2>15, <3>7, <4>1 DEF KeysOf, GotInv
    <3>8. taken'[s] = e /\ sent' = sent /\ ~Resting(s)'
      BY <1>1, <1>11, <2>4, <2>6
    <3> QED
      BY <2>10, <2>17, <3>2, <3>4, <3>5, <3>6, <3>7, <3>8 DEF GotInv
  <2>19. LineInv(s)'
    BY <2>5 DEF LineInv, NoKeys
  <2>20. StageInv(s)'
    <3>1. ASSUME Sending(s)
          PROVE  /\ result[s] = "none"
                 /\ AllPlain(s) => summary[s] + Len(GotNow(s)') = Len(GotAll(s)')
                 /\ Plain(Now(s)) =>
                      Plain(cur[s].rest) /\ GotNow(s)' \o cur[s].rest = Now(s)
      <4>1. /\ result[s] = "none"
            /\ Plain(Now(s)) => Plain(cur[s].rest)
            /\ AllPlain(s) => summary[s] + Len(GotNow(s)) = Len(GotAll(s))
        BY <1>10, <3>1 DEF KeysOf, StageInv
      <4>2. PICK g \in Data, a \in Data : g = GotNow(s) /\ a = GotAll(s)
        BY GotTyped DEF GotNow
      <4>3. Len(g \o d) = Len(g) + Len(d) /\ Len(a \o d) = Len(a) + Len(d)
        BY ConcatProperties DEF Data
      <4>4. PICK x \in Nat, y \in Nat, z \in Nat, w \in Nat :
              x = summary[s] /\ y = Len(g) /\ z = Len(a) /\ w = Len(d)
        BY LenProperties DEF Data, InputTypeOK
      <4>5. AllPlain(s) => x + y = z
        BY <4>1, <4>2, <4>4
      <4>6. x + y = z => x + (y + w) = z + w
        OBVIOUS
      <4>7. AllPlain(s) => summary[s] + Len(g \o d) = Len(a \o d)
        BY <4>3, <4>4, <4>5, <4>6
      <4>8. Plain(Now(s)) => (g \o d) \o cur[s].rest = Now(s)
        BY <2>2, <2>6, <3>1, <4>2 DEF Whole
      <4> QED
        BY <2>12, <2>14, <4>1, <4>2, <4>7, <4>8
    <3> QED
      BY <1>1, <1>11, <2>4, <2>5, <3>1 DEF StageInv, Plain
  <2> QED
    BY <1>1, <1>5, <1>9, <1>13, <2>18, <2>19, <2>20 DEF KeysInv, KeysOf
<1> QED
  BY <1>14, <1>15

\* A step of a Client moves no keys that were taken.
LEMMA KeysOfClients ==
  ASSUME InputTypeOK, InjectionsOK, KeysInv, NEW s \in Streams, Client(s)
  PROVE  KeysInv'
<1> USE DEF tmuxVars, watcherVars, handlerVars, clientVars
<1>1. UNCHANGED <<line, tmuxUp, got, cur, reply, taken, summary, result>>
  BY DEF Client, OpenStream, CloseStream, HangUp, SendEvent
<1>2. ASSUME NEW t \in Streams, st'[t] = st[t]
      PROVE  KeysOf(t)'
  <2>1. \A k \in 1 .. taken[t] : sent'[t][k] = sent[t][k]
    <3>1. CASE sent' = sent
      BY <3>1
    <3>2. ASSUME NEW e \in Events, SendEvent(s, e)
          PROVE  \A k \in 1 .. taken[t] : sent'[t][k] = sent[t][k]
      <4>1. sent' = [sent EXCEPT ![s] = Append(@, e)]
        BY <3>2 DEF SendEvent
      <4>2. CASE t # s
        BY <4>1, <4>2 DEF InputTypeOK
      <4>3. CASE t = s
        <5>1. PICK q \in Seq(Events) : q = sent[s]
          BY DEF InputTypeOK
        <5>2. sent'[s] = Append(q, e)
          BY <4>1, <5>1 DEF InputTypeOK
        <5>3. taken[s] \in Nat /\ taken[s] <= Len(q) /\ Len(q) \in Nat
          BY <5>1, LenProperties DEF InputTypeOK
        <5>4. \A k \in 1 .. Len(q) : Append(q, e)[k] = q[k]
          BY AppendProperties
        <5>5. \A k \in 1 .. taken[s] : k \in 1 .. Len(q)
          BY <5>3
        <5> QED
          BY <4>3, <5>1, <5>2, <5>4, <5>5
      <4> QED
        BY <4>2, <4>3
    <3> QED
      BY <3>1, <3>2 DEF Client, OpenStream, CloseStream, HangUp
  <2>2. PICK m : m = [i \in 1 .. Len(line) |-> i]
    OBVIOUS
  <2>3. \A i \in 1 .. Len(line') : m[i] = i /\ i \in 1 .. Len(line) /\ line'[i] = line[i]
    BY <1>1, <2>2
  <2>4. \A i, j \in 1 .. Len(line') : m[j] = m[i] => j = i
    BY <2>3
  <2>5. \A i \in 1 .. Len(line') : line'[i].stream = t =>
           m[i] \in 1 .. Len(line) /\ line'[i] = line[m[i]]
    BY <2>3
  <2>6. /\ st'[t] = st[t] /\ cur'[t] = cur[t] /\ reply'[t] = reply[t] /\ taken'[t] = taken[t]
        /\ summary'[t] = summary[t] /\ result'[t] = result[t] /\ got'[t] = got[t]
        /\ \A k \in 1 .. taken[t] : sent'[t][k] = sent[t][k]
    BY <1>1, <1>2, <2>1
  <2>7. KeysOf(t)
    BY DEF KeysInv
  <2> QED
    BY <2>4, <2>5, <2>6, <2>7, KeysKept
<1>3. ASSUME OpenStream(s)
      PROVE  KeysOf(s)'
  <2>1. st[s] = "idle" /\ st'[s] = "select" /\ sent' = sent
    BY <1>3 DEF OpenStream, InputTypeOK
  <2>2. Resting(s) /\ Resting(s)' /\ ~Sending(s) /\ ~Sending(s)'
    BY <2>1 DEF Resting, Sending, Busy
  <2>3. GotAll(s)' = GotAll(s) /\ \A k : GotOf(s, k)' = GotOf(s, k)
    BY <1>1, GotSame
  <2>4. /\ GotNow(s)' = GotNow(s) /\ Now(s)' = Now(s) /\ NoKeys(s)' = NoKeys(s)
        /\ AllPlain(s)' = AllPlain(s)
    BY <1>1, <2>1, <2>3 DEF GotNow, Now, NoKeys, AllPlain
  <2>5. KeysOf(s) /\ \A i \in 1 .. Len(line) : line[i].stream = s => ~line[i].live
    BY <2>1, NoneLive DEF KeysInv
  <2>6. LiveInv(s)'
    BY <1>1, <2>5 DEF LiveInv
  <2>7. GotInv(s)'
    BY <1>1, <2>1, <2>2, <2>3, <2>5 DEF KeysOf, GotInv
  <2>8. LineInv(s)' /\ StageInv(s)'
    BY <1>1, <2>2, <2>3, <2>4, <2>5 DEF KeysOf, LineInv, StageInv, NoKeys, Whole
  <2> QED
    BY <2>6, <2>7, <2>8 DEF KeysOf
<1>4. \A t \in Streams : st'[t] = st[t] \/ (t = s /\ OpenStream(s))
  BY DEF Client, OpenStream, CloseStream, HangUp, SendEvent, InputTypeOK
<1> QED
  BY <1>1, <1>2, <1>3, <1>4 DEF KeysInv

\* What is lost with tmux was not received, and no longer is under way.
LEMMA KeysLost ==
  ASSUME InputTypeOK, InjectionsOK, KeysInv, TmuxEnds \/ KillTmux \/ Teardown
  PROVE  KeysInv'
<1> USE DEF tmuxVars, watcherVars, handlerVars, clientVars
<1>1. line' = <<>> /\ UNCHANGED <<got, st, cur, reply, taken, summary, result, sent>>
  BY DEF TmuxEnds, KillTmux, Teardown
<1>2. 1 .. Len(line') = {}
  BY <1>1
<1>3. ASSUME NEW s \in Streams
      PROVE  KeysOf(s)'
  <2>1. PICK m : m = [i \in {} |-> i]
    OBVIOUS
  <2>2. /\ \A i, j \in 1 .. Len(line') : m[j] = m[i] => j = i
        /\ \A i \in 1 .. Len(line') : line'[i].stream = s =>
              m[i] \in 1 .. Len(line) /\ line'[i] = line[m[i]]
    BY <1>2
  <2>3. /\ st'[s] = st[s] /\ cur'[s] = cur[s] /\ reply'[s] = reply[s] /\ taken'[s] = taken[s]
        /\ summary'[s] = summary[s] /\ result'[s] = result[s] /\ got'[s] = got[s]
        /\ \A k \in 1 .. taken[s] : sent'[s][k] = sent[s][k]
    BY <1>1
  <2>4. KeysOf(s)
    BY DEF KeysInv
  <2> QED
    BY <2>2, <2>3, <2>4, KeysKept
<1> QED
  BY <1>1, <1>3 DEF KeysInv

\* Every step keeps the keys in order and whole.
LEMMA KeysStep ==
  ASSUME InputTypeOK, InjectionsOK, KeysInv, [Next]_vars
  PROVE  KeysInv'
<1> USE DEF tmuxVars, watcherVars, handlerVars, clientVars
<1>1. ASSUME UNCHANGED <<line, tmuxUp, got, st, cur, reply, taken, summary, result, sent>>
      PROVE  KeysInv'
  <2>1. ASSUME NEW t \in Streams
        PROVE  KeysOf(t)'
    <3>1. PICK m : m = [i \in 1 .. Len(line) |-> i]
      OBVIOUS
    <3>2. \A i \in 1 .. Len(line') : m[i] = i /\ i \in 1 .. Len(line) /\ line'[i] = line[i]
      BY <1>1, <3>1
    <3>3. \A i, j \in 1 .. Len(line') : m[j] = m[i] => j = i
      BY <3>2
    <3>4. \A i \in 1 .. Len(line') : line'[i].stream = t =>
             m[i] \in 1 .. Len(line) /\ line'[i] = line[m[i]]
      BY <3>2
    <3>5. /\ st'[t] = st[t] /\ cur'[t] = cur[t] /\ reply'[t] = reply[t] /\ taken'[t] = taken[t]
          /\ summary'[t] = summary[t] /\ result'[t] = result[t] /\ got'[t] = got[t]
          /\ \A k \in 1 .. taken[t] : sent'[t][k] = sent[t][k]
      BY <1>1
    <3>6. KeysOf(t)
      BY DEF KeysInv
    <3> QED
      BY <3>3, <3>4, <3>5, <3>6, KeysKept
  <2> QED
    BY <1>1, <2>1 DEF KeysInv
<1>2. ASSUME NEW s \in Streams, Handler(s)
      PROVE  KeysInv'
  <2>1. KeysOf(s)'
    <3>1. CASE CommandDone(s) /\ cur[s].kind # "restoreAll"
      BY <3>1, KeysDone
    <3>2. CASE TakeKeys(s) \/ TakeResize(s) \/ TakeRestore(s)
      BY <3>2, KeysTaking
    <3>3. CASE WriteCommand(s)
      BY <3>3, KeysWriting
    <3>4. CASE \/ CommandFails(s) \/ GiveUp(s) \/ StreamEnds(s) \/ HandlerReturns(s)
               \/ CommandDone(s) /\ cur[s].kind = "restoreAll"
               \/ \E p \in Panes : RestoreNext(s, p)
      BY <3>4, KeysEnding
    <3> QED
      BY <1>2, <3>1, <3>2, <3>3, <3>4 DEF Handler, Proceeds
  <2>2. (~tmuxUp' => line' = <<>>) /\ \A t \in Streams \ {s} : KeysOf(t)'
    BY <1>2, KeysOfOthers
  <2> QED
    BY <2>1, <2>2 DEF KeysInv
<1>3. ASSUME NEW p \in Panes, ExternalResize(p) \/ PaneExits(p)
      PROVE  KeysInv'
  BY <1>1, <1>3 DEF ExternalResize, PaneExits
<1>4. CASE List \/ Record \/ Shutdown
  BY <1>1, <1>4 DEF List, Record, Shutdown
<1>5. CASE UNCHANGED vars
  BY <1>1, <1>5 DEF vars
<1> QED
  BY <1>2, <1>3, <1>4, <1>5, KeysRunning, KeysOfClients, KeysLost DEF Next, Environment

\* In the initial states no key was sent.
LEMMA KeysInit ==
  ASSUME Init
  PROVE  KeysInv
<1>1. line = <<>> /\ Len(line) = 0
  BY DEF Init
<1>2. ASSUME NEW s \in Streams
      PROVE  KeysOf(s)
  <2>1. got[s] = <<>> /\ taken[s] = 0 /\ st[s] = "idle" /\ result[s] = "none" /\ summary[s] = 0
    BY <1>2 DEF Init
  <2>2. Len(got[s]) = 0
    BY <2>1
  <2>3. ASSUME NEW q, q = [i \in 1 .. 0 |-> q[i]]
        PROVE  FlattenSeq(q) = <<>>
    <3>1. q \in Seq({})
      BY <2>3
    <3>2. Len(q) = 0
      BY <2>3
    <3> QED
      BY <3>1, <3>2, EmptySeq, FlattenFolds
  <2>4. GotAll(s) = <<>> /\ \A k : GotOf(s, k) = <<>>
    BY <2>2, <2>3 DEF GotAll, GotOf
  <2>5. LiveInv(s) /\ LineInv(s) /\ NoKeys(s)
    BY <1>1 DEF LiveInv, LineInv, NoKeys
  <2>6. GotInv(s)
    BY <2>1, <2>2, <2>4 DEF GotInv
  <2>7. StageInv(s)
    BY <2>1, <2>4, <2>5 DEF StageInv, Sending, Busy
  <2> QED
    BY <2>5, <2>6, <2>7 DEF KeysOf
<1> QED
  BY <1>1, <1>2 DEF KeysInv

\* Keystrokes arrive in order and, in an event no run of which begins with an
\* unquoted tilde, byte for byte, however many Clients type into however many
\* panes: SendInput's handler cuts an event into runs and quotes them, so that
\* tmux's parser and send-keys pass them on unchanged (inject.Keys, quoteArg),
\* writes one at a time, goes on to the next event only when the last run was
\* answered, and stops at the first failure.  When no event had such a run, the
\* closing summary counts what arrived.
THEOREM KeystrokesAreExact == Spec => []KeysExact
<1>1. Init => InputTypeOK /\ InjectionsOK /\ KeysInv
  BY InputInit, KeysInit
<1>2. InputTypeOK /\ InjectionsOK /\ KeysInv /\ [Next]_vars
      => (InputTypeOK /\ InjectionsOK /\ KeysInv)'
  BY TypeStep, InjectionsStep, KeysStep
<1>3. InputTypeOK /\ KeysInv => KeysExact
  <2> SUFFICES ASSUME InputTypeOK, KeysInv, NEW s \in Streams
               PROVE  /\ \A i \in 1 .. (Len(got[s]) - 1) : got[s][i].event <= got[s][i + 1].event
                      /\ \A k \in 1 .. taken[s] :
                           Plain(sent[s][k].data) => ArrivesInOrder(s, k)
                      /\ SummaryExact(s)
    BY DEF KeysExact
  <2> QED
    BY DEF KeysInv, KeysOf, GotInv, StageInv, Begins, ArrivesInOrder, SummaryExact, AllPlain
<1> QED
  BY <1>1, <1>2, <1>3, PTL DEF Spec
-----------------------------------------------------------------------------
(***************************************************************************)
(* Why a stream ends in error.                                             *)
(***************************************************************************)
\* tmux answers an error for a pane that exited, or for a run it misread.
Blamed(s) == size[cur[s].pane] = 0 \/ Misread(s)
Caused == \A s \in Streams : st[s] = "waiting" /\ reply[s] = "error" => Blamed(s)

\* The handlers that wait for a reply, and the errors they were answered, stay
\* as they are in a step that neither answers, moves a handler nor revives a pane.
LEMMA BlameStays ==
  ASSUME InputTypeOK, InjectionsOK, NEW s \in Streams, Blamed(s), st[s] = "waiting",
         cur'[s] = cur[s], taken'[s] = taken[s],
         \A k \in 1 .. taken[s] : sent'[s][k] = sent[s][k],
         \A p \in Panes : size[p] = 0 => size'[p] = 0
  PROVE  Blamed(s)'
<1>1. cur[s].pane \in Panes /\ (cur[s].kind = "keys" => taken[s] \in 1 .. taken[s])
  BY DEF InjectionsOK, Busy, InputTypeOK
<1> QED
  BY <1>1 DEF Blamed, Misread, Plain

\* A pane that exited stays so.
LEMMA ExitsStay ==
  ASSUME InputTypeOK, [Next]_vars
  PROVE  \A p \in Panes : size[p] = 0 => size'[p] = 0
<1> USE DEF tmuxVars, watcherVars, handlerVars, clientVars
<1>1. CASE RunCommand
  <2>1. PICK c \in Commands : c = Head(line)
    BY <1>1, LineShrinks
  <2>2. CASE RunResize(c)
    <3>1. size' = [size EXCEPT ![c.pane] = c.size] /\ size[c.pane] # 0
      BY <2>2 DEF RunResize, Refuses
    <3> QED
      BY <3>1 DEF InputTypeOK
  <2> QED
    BY <1>1, <2>1, <2>2 DEF RunCommand, RunKeys, RunRefused
<1>2. ASSUME NEW p \in Panes, ExternalResize(p) \/ PaneExits(p)
      PROVE  \A q \in Panes : size[q] = 0 => size'[q] = 0
  BY <1>2 DEF ExternalResize, PaneExits, InputTypeOK
<1>3. CASE TmuxEnds \/ KillTmux \/ List \/ Record \/ Teardown \/ Shutdown
  BY <1>3 DEF TmuxEnds, KillTmux, List, Record, Teardown, Shutdown
<1>4. ASSUME NEW s \in Streams, Handler(s)
      PROVE  UNCHANGED size
  BY <1>4, HandlerKeeps
<1>5. ASSUME NEW s \in Streams, Client(s)
      PROVE  UNCHANGED size
  BY <1>5 DEF Client, OpenStream, CloseStream, HangUp, SendEvent
<1> QED
  BY <1>1, <1>2, <1>3, <1>4, <1>5 DEF Next, Environment, vars

\* An error of tmux is answered for a pane that exited, or a run it misread.
LEMMA CausedStep ==
  ASSUME InputTypeOK, InjectionsOK, KeysInv, Caused, [Next]_vars
  PROVE  Caused'
<1> USE DEF tmuxVars, watcherVars, handlerVars, clientVars
<1>1. \A p \in Panes : size[p] = 0 => size'[p] = 0
  BY ExitsStay
<1>2. ASSUME NEW t \in Streams, st'[t] = st[t], reply'[t] = reply[t],
             cur'[t] = cur[t], taken'[t] = taken[t],
             \A k \in 1 .. taken[t] : sent'[t][k] = sent[t][k],
             st'[t] = "waiting", reply'[t] = "error"
      PROVE  Blamed(t)'
  BY <1>1, <1>2, BlameStays DEF Caused
<1>3. ASSUME UNCHANGED <<st, reply, cur, taken, sent>>
      PROVE  Caused'
  <2>1. ASSUME NEW t \in Streams, st'[t] = "waiting", reply'[t] = "error"
        PROVE  Blamed(t)'
    BY <1>2, <1>3, <2>1
  <2> QED
    BY <2>1 DEF Caused
<1>4. CASE RunCommand
  <2>1. PICK c \in Commands : c = Head(line) /\ c = line[1] /\ 1 \in 1 .. Len(line)
    BY <1>4, LineShrinks
  <2>2. PICK s \in Streams : s = c.stream
    BY <2>1 DEF Commands
  <2>3. c.pane \in Panes /\ c.size \in Sizes /\ c.live \in BOOLEAN
    BY <2>1 DEF Commands
  <2>4. UNCHANGED <<st, cur, taken, sent>>
    BY <1>4 DEF RunCommand
  <2>5. \A t \in Streams : reply'[t] = "error" =>
           reply[t] = "error" \/ (t = s /\ c.live /\ RunRefused(c))
    BY <1>4, <2>1, <2>2 DEF RunCommand, RunResize, RunKeys, RunRefused, Answer, InputTypeOK
  <2>6. ASSUME c.live, RunRefused(c)
        PROVE  Blamed(s)'
    <3>1. /\ c.pane = cur[s].pane /\ (IsKeys(c, s) <=> cur[s].kind = "keys")
      BY <2>1, <2>2, <2>6 DEF KeysInv, KeysOf, LiveInv
    <3>2. ~(c.size > MaxResizeDim)
      BY <2>3, InputAssumption DEF Sizes
    <3>3. CASE size[c.pane] = 0
      BY <1>1, <2>3, <2>4, <3>1, <3>3 DEF Blamed
    <3>4. CASE NamesUser(c)
      <4>1. IsKeys(c, s) /\ Expands(c.op, c.data)
        BY <2>2, <3>4 DEF NamesUser, Expands, IsKeys, KeysOps
      <4>2. Plain(Now(s)) => Whole(line[1], GotNow(s), Now(s))
        BY <2>1, <4>1 DEF KeysInv, KeysOf, LineInv
      <4>3. ~Plain(Now(s))
        BY <2>1, <4>1, <4>2 DEF Whole
      <4> QED
        BY <2>4, <3>1, <4>1, <4>3 DEF Blamed, Misread, Now, Plain
    <3> QED
      BY <2>6, <3>2, <3>3, <3>4 DEF RunRefused, Refuses
  <2>7. ASSUME NEW t \in Streams, st'[t] = "waiting", reply'[t] = "error"
        PROVE  Blamed(t)'
    <3>1. CASE reply[t] = "error"
      BY <1>2, <2>4, <2>7, <3>1
    <3> QED
      BY <2>5, <2>6, <2>7, <3>1
  <2> QED
    BY <2>7 DEF Caused
<1>5. ASSUME NEW s \in Streams, Handler(s)
      PROVE  Caused'
  <2>1. ~(st'[s] = "waiting" /\ reply'[s] = "error")
    <3>1. CASE WriteCommand(s)
      BY <3>1 DEF WriteCommand, InputTypeOK
    <3>2. CASE ~WriteCommand(s) /\ st'[s] # "waiting"
      BY <3>2
    <3>3. ASSUME ~WriteCommand(s)
          PROVE  st'[s] # "waiting"
      BY <1>5, <3>3 DEF Handler, Proceeds, TakeKeys, TakeResize, TakeRestore, Takes, CommandDone,
         CommandFails, GiveUp, StreamEnds, HandlerReturns, RestoreNext, Failed, GoTo, Inject, Drop,
         InputTypeOK
    <3> QED
      BY <3>1, <3>3
  <2>2. sent' = sent /\ \A t \in Streams \ {s} :
          st'[t] = st[t] /\ cur'[t] = cur[t] /\ reply'[t] = reply[t] /\ taken'[t] = taken[t]
    BY <1>5, HandlerKeeps
  <2>3. ASSUME NEW t \in Streams, st'[t] = "waiting", reply'[t] = "error"
        PROVE  Blamed(t)'
    <3>1. t # s
      BY <2>1, <2>3
    <3> QED
      BY <1>2, <2>2, <2>3, <3>1
  <2> QED
    BY <2>3 DEF Caused
<1>6. ASSUME NEW s \in Streams, Client(s)
      PROVE  Caused'
  <2>1. UNCHANGED <<reply, cur, taken>>
    BY <1>6 DEF Client, OpenStream, CloseStream, HangUp, SendEvent
  <2>2. \A t \in Streams : st'[t] = "waiting" => st'[t] = st[t]
    BY <1>6 DEF Client, OpenStream, CloseStream, HangUp, SendEvent, InputTypeOK
  <2>3. ASSUME NEW t \in Streams
        PROVE  \A k \in 1 .. taken[t] : sent'[t][k] = sent[t][k]
    <3>1. CASE sent'[t] = sent[t]
      BY <3>1
    <3>2. ASSUME NEW e \in Events, sent'[t] = Append(sent[t], e)
          PROVE  \A k \in 1 .. taken[t] : sent'[t][k] = sent[t][k]
      <4>1. PICK q \in Seq(Events) : q = sent[t]
        BY DEF InputTypeOK
      <4>2. taken[t] \in Nat /\ taken[t] <= Len(q) /\ Len(q) \in Nat
        BY <4>1, LenProperties DEF InputTypeOK
      <4>3. \A k \in 1 .. Len(q) : Append(q, e)[k] = q[k]
        BY AppendProperties
      <4>4. \A k \in 1 .. taken[t] : k \in 1 .. Len(q)
        BY <4>2
      <4> QED
        BY <3>2, <4>1, <4>3, <4>4
    <3>3. sent'[t] = sent[t] \/ \E e \in Events : sent'[t] = Append(sent[t], e)
      BY <1>6 DEF Client, OpenStream, CloseStream, HangUp, SendEvent, InputTypeOK
    <3> QED
      BY <3>1, <3>2, <3>3
  <2>4. ASSUME NEW t \in Streams, st'[t] = "waiting", reply'[t] = "error"
        PROVE  Blamed(t)'
    BY <1>2, <2>1, <2>2, <2>3, <2>4
  <2> QED
    BY <2>4 DEF Caused
<1>7. ASSUME NEW p \in Panes, ExternalResize(p) \/ PaneExits(p)
      PROVE  UNCHANGED <<st, reply, cur, taken, sent>>
  BY <1>7 DEF ExternalResize, PaneExits
<1>8. CASE TmuxEnds \/ KillTmux \/ List \/ Record \/ Teardown \/ Shutdown
  BY <1>3, <1>8 DEF TmuxEnds, KillTmux, List, Record, Teardown, Shutdown
<1> QED
  BY <1>3, <1>4, <1>5, <1>6, <1>7, <1>8 DEF Next, Environment, vars

\* A stream that ends in error had a cause for it.
LEMMA ErrorsStep ==
  ASSUME InputTypeOK, InjectionsOK, KeysInv, Caused, [Next]_vars
  PROVE  [ErrorIsCaused]_vars
<1> USE DEF tmuxVars, watcherVars, handlerVars, clientVars
<1> SUFFICES ASSUME NEW s \in Streams, result[s] # "error", result'[s] = "error"
             PROVE  \/ s \in gone \/ down \/ ~tmuxUp
                    \/ size[cur[s].pane] = 0 \/ Misread(s)
  BY DEF ErrorIsCaused
<1>1. PICK t \in Streams : Handler(t)
  <2>1. ASSUME NEW t \in Streams, Client(t)
        PROVE  UNCHANGED result
    BY <2>1 DEF Client, OpenStream, CloseStream, HangUp, SendEvent
  <2>2. ASSUME NEW p \in Panes, ExternalResize(p) \/ PaneExits(p)
        PROVE  UNCHANGED result
    BY <2>2 DEF ExternalResize, PaneExits
  <2>3. CASE RunCommand \/ TmuxEnds \/ KillTmux \/ List \/ Record \/ Teardown \/ Shutdown
    BY <2>3 DEF RunCommand, TmuxEnds, KillTmux, List, Record, Teardown, Shutdown
  <2> QED
    BY <2>1, <2>2, <2>3 DEF Next, Environment, vars
<1>2. t = s
  BY <1>1, HandlerKeeps
<1>3. CommandFails(s) \/ GiveUp(s) \/ StreamEnds(s)
  BY <1>1, <1>2 DEF Handler, Proceeds, TakeKeys, TakeResize, TakeRestore, WriteCommand, CommandDone,
              HandlerReturns, RestoreNext
<1>4. CASE CommandFails(s)
  BY <1>4 DEF CommandFails, Caused, Blamed
<1>5. CASE GiveUp(s)
  BY <1>5 DEF GiveUp, InjectCtxDone
<1>6. CASE StreamEnds(s)
  BY <1>6 DEF StreamEnds, InputTypeOK
<1> QED
  BY <1>3, <1>4, <1>5, <1>6

\* A stream fails for a cause, however many Clients drive however many panes:
\* SendInput returns an error only after its Client hung up, the Server began to
\* shut down, tmux ended, the pane the handler was injecting into exited, or tmux
\* took a run of the keys it was injecting for a home directory: the handler
\* passes on no size and no other key that tmux would refuse.
THEOREM StreamErrorsHaveCause == Spec => ErrorsHaveCause
<1>1. Init => InputTypeOK /\ InjectionsOK /\ KeysInv /\ Caused
  <2>1. Init => Caused
    BY DEF Init, Caused
  <2> QED
    BY <2>1, InputInit, KeysInit
<1>2. InputTypeOK /\ InjectionsOK /\ KeysInv /\ Caused /\ [Next]_vars
      => (InputTypeOK /\ InjectionsOK /\ KeysInv /\ Caused)'
  BY TypeStep, InjectionsStep, KeysStep, CausedStep
<1>3. InputTypeOK /\ InjectionsOK /\ KeysInv /\ Caused /\ [Next]_vars => [ErrorIsCaused]_vars
  BY ErrorsStep
<1> QED
  BY <1>1, <1>2, <1>3, PTL DEF Spec, ErrorsHaveCause

-----------------------------------------------------------------------------
(***************************************************************************)
(* Who still owes a pane its size.                                         *)
(***************************************************************************)
Drives(c, s, p) == c.stream = s /\ c.pane = p /\ c.op = "drive"
Restores(c, s, p) == c.stream = s /\ c.pane = p /\ c.op = "restore"

\* The handler of s is about to write a restore; n is the size s displaced at p,
\* if its record was not stale.
Restoring(s) == st[s] = "inject" /\ cur[s].kind \in {"restore", "restoreAll"}
Restored(n, s, p) == origin[s][p] = 0 \/ n = origin[s][p]

\* The handler of s has a size to give back to p, recorded or about to be written.
Owed(s, p) == saved[s][p] # 0 \/ (Restoring(s) /\ cur[s].pane = p)

\* After position i of the line, a restore of s undoes its resizes of p.
Undone(s, p, i) == \E j \in 1 .. Len(line) : j > i /\ Restores(line[j], s, p)

\* What a handler set and no longer owes is the size it displaced, or a restore
\* follows; one follows each of its resizes that is still in the line.
DrivenIsOwed ==
  tmuxUp => \A s \in Streams, p \in Panes : size[p] # 0 /\ ~Owed(s, p) =>
    /\ setBy[p] = s => Restored(size[p], s, p) \/ Undone(s, p, 0)
    /\ \A i \in 1 .. Len(line) : Drives(line[i], s, p) => Undone(s, p, i)

\* A live pane is in every listing taken, and one with a record in the hub:
\* restoring does not skip it.
Listed == \A p \in Panes : size[p] # 0 /\ listing # <<>> => listing[p] # 0
InHub == tmuxUp => \A s \in Streams, p \in Panes : size[p] # 0 /\ saved[s][p] # 0 => hub[p] # 0

\* With nothing to reconcile, what the watcher knows is what tmux has.
CurrentInv ==
  tmuxUp /\ ~dirty => \A p \in Panes :
    IF listing = <<>> THEN hub[p] = size[p] ELSE listing[p] = size[p]

\* What is recorded, and what a restore carries, is the size displaced.
SavedExact ==
  tmuxUp => \A s \in Streams, p \in Panes : saved[s][p] # 0 => Restored(saved[s][p], s, p)
RestoresExact ==
  tmuxUp =>
    /\ \A s \in Streams : Restoring(s) => Restored(cur[s].size, s, cur[s].pane)
    /\ \A i \in 1 .. Len(line) : line[i].op = "restore" =>
         Restored(line[i].size, line[i].stream, line[i].pane)

\* Until a stream fails or ends, its handler waits for all it wrote.
Fresh(s) == st[s] \in {"idle", "select"} \/ (Busy(s) /\ cur[s].kind # "restoreAll")
Attended ==
  \A s \in Streams : Fresh(s) => \A i \in 1 .. Len(line) : line[i].stream = s => line[i].live

SavedFirst ==
  \A s \in Streams : st[s] = "inject" /\ cur[s].kind = "resize" => saved[s][cur[s].pane] # 0
DrivenLives == \A p \in Panes : setBy[p] # NoOne => size[p] # 0
LineSized == \A i \in 1 .. Len(line) : line[i].op \in {"drive", "restore"} => line[i].size # 0
NothingSaved ==
  \A s \in Streams : st[s] \in {"idle", "ended"} => \A p \in Panes : saved[s][p] = 0

RecordsInv == Listed /\ InHub /\ CurrentInv /\ SavedExact /\ NothingSaved
CommandsInv == SavedFirst /\ LineSized /\ RestoresExact /\ Attended
DriveInv == RecordsInv /\ CommandsInv /\ DrivenLives /\ DrivenIsOwed

\* The size of p that s recorded, and what it displaced, stay.
RecordStays(s, p) == saved'[s][p] = saved[s][p] /\ origin'[s][p] = origin[s][p]

\* Taking up p: it is dropped, or its injection begins; the record of its size
\* changes with it.
TakesUpOf(s, p) ==
  /\ \A q \in Panes \ {p} : RecordStays(s, q)
  /\ \/ st'[s] = st[s] /\ cur'[s] = cur[s] /\ RecordStays(s, p)
     \/ /\ st'[s] = st[s] /\ cur'[s] = cur[s] /\ saved'[s][p] = 0 /\ hub[p] = 0
        /\ origin'[s][p] = origin[s][p]
     \/ st[s] = "select" /\ st'[s] = "inject" /\ cur'[s].kind = "keys" /\ RecordStays(s, p)
     \/ /\ st[s] = "select" /\ st'[s] = "inject" /\ cur'[s].kind = "resize"
        /\ cur'[s].pane = p /\ hub[p] # 0 /\ saved'[s][p] # 0
        /\ \/ RecordStays(s, p)
           \/ /\ saved[s][p] = 0 /\ saved'[s][p] = hub[p]
              /\ origin'[s][p] = IF Current(p) THEN size[p] ELSE 0
     \/ /\ st'[s] = "inject" /\ cur'[s].kind \in {"restore", "restoreAll"}
        /\ cur'[s].kind = "restore" => st[s] = "select"
        /\ cur'[s].pane = p /\ cur'[s].size = saved[s][p]
        /\ saved[s][p] # 0 /\ saved'[s][p] = 0 /\ origin'[s][p] = origin[s][p]

\* What a handler takes up.
LEMMA TakesUp ==
  ASSUME InputTypeOK, NEW s \in Streams,
         TakeKeys(s) \/ TakeResize(s) \/ TakeRestore(s) \/ \E p \in Panes : RestoreNext(s, p)
  PROVE  /\ st[s] \in {"select", "restoring"} /\ line' = line
         /\ \E p \in Panes : TakesUpOf(s, p)
<1> USE DEF tmuxVars, watcherVars, handlerVars, clientVars
<1>1. 0 \in Sizes /\ <<>> \in Data
  BY InputAssumption DEF Sizes, Data
<1>2. line' = line /\ st[s] \in {"select", "restoring"}
  BY DEF TakeKeys, TakeResize, TakeRestore, RestoreNext, Takes
<1>3. ASSUME TakeKeys(s) \/ TakeResize(s) \/ TakeRestore(s)
      PROVE  /\ NextEvent(s) \in Events /\ NextEvent(s).pane \in Panes
             /\ NextEvent(s).data \in Data /\ NextEvent(s).size \in Nat
  <2>1. NextEvent(s) \in Events
    BY <1>3, NextIsSent DEF TakeKeys, TakeResize, TakeRestore, Takes
  <2> QED
    BY <2>1, EventFacts
<1>4. CASE TakeKeys(s)
  <2>1. PICK p \in Panes, d \in Data : p = NextEvent(s).pane /\ d = NextEvent(s).data
    BY <1>3, <1>4
  <2>2. saved' = saved /\ origin' = origin /\ st[s] = "select"
    BY <1>4 DEF TakeKeys, Takes
  <2>3. CASE Drop
    BY <1>2, <2>2, <2>3 DEF Drop, TakesUpOf, RecordStays
  <2>4. CASE Inject(s, "keys", p, 0, d)
    <3>1. st'[s] = "inject" /\ cur'[s].kind = "keys"
      BY <1>1, <2>4, InjectStarts DEF Kinds
    <3> QED
      BY <1>2, <2>2, <3>1 DEF TakesUpOf, RecordStays
  <2> QED
    BY <1>4, <2>1, <2>3, <2>4 DEF TakeKeys
<1>5. CASE TakeResize(s)
  <2>1. PICK p \in Panes, n \in Nat : p = NextEvent(s).pane /\ n = NextEvent(s).size
    BY <1>3, <1>5
  <2>2. CASE ~(Plausible(n) /\ hub[p] # 0)
    <3>1. UNCHANGED <<st, cur, saved, origin>>
      BY <1>5, <2>1, <2>2 DEF TakeResize, Drop
    <3> QED
      BY <1>2, <2>1, <3>1 DEF TakesUpOf, RecordStays
  <2>3. CASE Plausible(n) /\ hub[p] # 0
    <3>1. n \in Sizes
      BY <2>3, InputAssumption DEF Plausible, Sizes
    <3>2. RecordSize(s, p) /\ Inject(s, "resize", p, n, <<>>)
      BY <1>5, <2>1, <2>3 DEF TakeResize
    <3>3. st'[s] = "inject" /\ cur'[s].kind = "resize" /\ cur'[s].pane = p
      BY <1>1, <3>1, <3>2, InjectStarts DEF Kinds
    <3>4. saved'[s][p] # 0 /\ \A q \in Panes \ {p} : RecordStays(s, q)
      BY <2>3, <3>2 DEF RecordSize, RecordStays, InputTypeOK
    <3>5. \/ RecordStays(s, p)
          \/ /\ saved[s][p] = 0 /\ saved'[s][p] = hub[p]
             /\ origin'[s][p] = IF Current(p) THEN size[p] ELSE 0
      BY <3>2 DEF RecordSize, RecordStays, InputTypeOK
    <3>6. st[s] = "select"
      BY <1>5 DEF TakeResize, Takes
    <3> QED
      BY <1>2, <2>3, <3>3, <3>4, <3>5, <3>6 DEF TakesUpOf
  <2> QED
    BY <2>2, <2>3
<1>6. ASSUME NEW p \in Panes, NEW kind \in {"restore", "restoreAll"},
             kind = "restore" => st[s] = "select",
             saved' = [saved EXCEPT ![s][p] = 0], origin' = origin,
             IF saved[s][p] # 0 /\ hub[p] # 0 THEN Inject(s, kind, p, saved[s][p], <<>>) ELSE Drop
      PROVE  TakesUpOf(s, p)
  <2>1. PICK n \in Sizes : n = saved[s][p]
    BY DEF InputTypeOK
  <2>2. /\ saved'[s][p] = 0 /\ origin'[s][p] = origin[s][p]
        /\ \A q \in Panes \ {p} : RecordStays(s, q)
    BY <1>6 DEF RecordStays, InputTypeOK
  <2>3. CASE Drop /\ ~(n # 0 /\ hub[p] # 0)
    <3>1. st'[s] = st[s] /\ cur'[s] = cur[s] /\ (n = 0 \/ hub[p] = 0)
      BY <2>3 DEF Drop
    <3> QED
      BY <2>1, <2>2, <3>1 DEF TakesUpOf, RecordStays
  <2>4. CASE Inject(s, kind, p, n, <<>>) /\ n # 0
    <3>1. st'[s] = "inject" /\ cur'[s].kind = kind /\ cur'[s].pane = p /\ cur'[s].size = n
      BY <1>1, <2>4, InjectStarts DEF Kinds
    <3> QED
      BY <1>6, <2>1, <2>2, <2>4, <3>1 DEF TakesUpOf
  <2> QED
    BY <1>6, <2>1, <2>3, <2>4
<1>7. CASE TakeRestore(s)
  <2>1. PICK p \in Panes : p = NextEvent(s).pane
    BY <1>3, <1>7
  <2>2. /\ saved' = [saved EXCEPT ![s][p] = 0] /\ origin' = origin /\ st[s] = "select"
        /\ IF saved[s][p] # 0 /\ hub[p] # 0
           THEN Inject(s, "restore", p, saved[s][p], <<>>) ELSE Drop
    BY <1>7, <2>1 DEF TakeRestore, Takes
  <2> QED
    BY <1>2, <1>6, <2>2
<1>8. ASSUME NEW p \in Panes, RestoreNext(s, p)
      PROVE  /\ saved' = [saved EXCEPT ![s][p] = 0] /\ origin' = origin
             /\ IF saved[s][p] # 0 /\ hub[p] # 0
                THEN Inject(s, "restoreAll", p, saved[s][p], <<>>) ELSE Drop
  BY <1>8 DEF RestoreNext
<1> QED
  BY <1>2, <1>4, <1>5, <1>6, <1>7, <1>8

\* The other steps of a handler record nothing, and begin nothing but the next
\* run of keys.
LEMMA GoesOn ==
  ASSUME InputTypeOK, InjectionsOK, NEW s \in Streams,
         \/ CommandDone(s) \/ CommandFails(s) \/ GiveUp(s) \/ StreamEnds(s) \/ HandlerReturns(s)
  PROVE  /\ saved' = saved /\ origin' = origin /\ cur' = cur
         /\ st[s] # "inject" \/ ~tmuxUp
         /\ st'[s] = "select" => st[s] = "waiting" /\ cur[s].kind # "restoreAll"
         /\ st'[s] # "idle" /\ (st'[s] = "inject" => cur[s].kind = "keys")
         /\ st'[s] = "ended" => \A p \in Panes : saved[s][p] = 0
         /\ line' # line => GiveUp(s)
<1> USE DEF tmuxVars, watcherVars, handlerVars, clientVars
<1>1. /\ saved' = saved /\ origin' = origin /\ cur' = cur
      /\ st[s] # "inject" \/ ~tmuxUp
      /\ line' # line => GiveUp(s)
  BY DEF CommandDone, CommandFails, GiveUp, StreamEnds, HandlerReturns
<1>2. CASE CommandDone(s)
  <2>1. /\ st'[s] \in {"inject", "restoring", "select"}
        /\ st'[s] = "inject" => cur[s].rest # <<>>
        /\ st'[s] = "select" => st[s] = "waiting" /\ cur[s].kind # "restoreAll"
    BY <1>2 DEF CommandDone, GoTo, InputTypeOK
  <2>2. cur[s].rest # <<>> => cur[s].kind = "keys"
    BY DEF InjectionsOK
  <2> QED
    BY <1>1, <2>1, <2>2
<1>3. CASE CommandFails(s) \/ GiveUp(s) \/ StreamEnds(s)
  <2>1. st'[s] = "restoring"
    BY <1>3 DEF CommandFails, GiveUp, StreamEnds, Failed, GoTo, InputTypeOK
  <2> QED
    BY <1>1, <2>1
<1>4. CASE HandlerReturns(s)
  <2>1. st'[s] = "ended" /\ \A p \in Panes : saved[s][p] = 0
    BY <1>4 DEF HandlerReturns, GoTo, InputTypeOK
  <2> QED
    BY <1>1, <2>1
<1> QED
  BY <1>2, <1>3, <1>4

\* What is written stands, though it may have been given up.
LineStands ==
  /\ Len(line') = Len(line)
  /\ \A i \in 1 .. Len(line) :
       /\ line'[i].stream = line[i].stream /\ line'[i].op = line[i].op
       /\ line'[i].pane = line[i].pane /\ line'[i].size = line[i].size

\* A handler in its select has nothing in the line.
LEMMA NothingWritten ==
  ASSUME InputTypeOK, KeysInv, Attended, NEW s \in Streams, st[s] = "select"
  PROVE  \A i \in 1 .. Len(line) : line[i].stream # s
<1>1. \A i \in 1 .. Len(line) : line[i].stream = s => ~line[i].live
  BY NoneLive
<1> QED
  BY <1>1 DEF Attended, Fresh

\* Taking up an event or a pane to restore keeps every resize owed.
LEMMA TakingKeepsDrive ==
  ASSUME InputTypeOK, InjectionsOK, KeysInv, DriveInv, NEW s \in Streams, Handler(s),
         TakeKeys(s) \/ TakeResize(s) \/ TakeRestore(s) \/ \E p \in Panes : RestoreNext(s, p)
  PROVE  DriveInv'
<1> USE DEF DriveInv, RecordsInv, CommandsInv
<1>1. /\ UNCHANGED <<size, tmuxUp, setBy, listing, hub, dirty>>
      /\ \A t \in Streams \ {s} : /\ st'[t] = st[t] /\ cur'[t] = cur[t]
                                  /\ saved'[t] = saved[t] /\ origin'[t] = origin[t]
  BY HandlerKeeps DEF watcherVars
<1>2. st[s] \in {"select", "restoring"} /\ line' = line
  BY TakesUp
<1>3. PICK p \in Panes : TakesUpOf(s, p)
  BY TakesUp
<1>4. /\ \A q \in Panes \ {p} : RecordStays(s, q)
      /\ RecordStays(s, p) \/ (saved'[s][p] = 0 /\ origin'[s][p] = origin[s][p])
         \/ (/\ st[s] = "select" /\ saved'[s][p] = hub[p] /\ hub[p] # 0 /\ st'[s] = "inject"
             /\ cur'[s].kind = "resize" /\ origin'[s][p] = IF Current(p) THEN size[p] ELSE 0)
  BY <1>3 DEF TakesUpOf
<1>5. SavedFirst'
  <2>1. \A t \in Streams \ {s} :
          st'[t] = "inject" /\ cur'[t].kind = "resize" => saved'[t][cur'[t].pane] # 0
    BY <1>1 DEF SavedFirst
  <2>2. st'[s] = "inject" /\ cur'[s].kind = "resize" => saved'[s][cur'[s].pane] # 0
    BY <1>2, <1>3 DEF TakesUpOf
  <2> QED
    BY <2>1, <2>2 DEF SavedFirst
<1>6. NothingSaved'
  <2>1. st'[s] \notin {"idle", "ended"}
    BY <1>2, <1>3 DEF TakesUpOf
  <2> QED
    BY <1>1, <2>1 DEF NothingSaved
<1>7. DrivenLives' /\ LineSized' /\ Listed' /\ CurrentInv'
  BY <1>1, <1>2 DEF DrivenLives, LineSized, Listed, CurrentInv
<1>8. Attended'
  <2>1. Fresh(s)' => Fresh(s)
    BY <1>2, <1>3 DEF TakesUpOf, Fresh, Busy
  <2>2. \A t \in Streams \ {s} : Fresh(t)' => Fresh(t)
    BY <1>1 DEF Fresh, Busy
  <2> QED
    BY <1>2, <2>1, <2>2 DEF Attended
<1>9. ASSUME tmuxUp, Current(p)
      PROVE  hub[p] = size[p]
  BY <1>9 DEF Current, CurrentInv
<1>10. SavedExact'
  <2> SUFFICES ASSUME tmuxUp, NEW t \in Streams, NEW q \in Panes, saved'[t][q] # 0
               PROVE  origin'[t][q] = 0 \/ saved'[t][q] = origin'[t][q]
    BY <1>1 DEF SavedExact, Restored
  <2>1. CASE saved'[t][q] = saved[t][q] /\ origin'[t][q] = origin[t][q]
    BY <2>1 DEF SavedExact, Restored
  <2>2. CASE t = s /\ q = p
    BY <1>4, <1>9, <2>1, <2>2 DEF RecordStays
  <2> QED
    BY <1>1, <1>4, <2>1, <2>2 DEF RecordStays
<1>11. RestoresExact'
  <2>1. ASSUME tmuxUp, NEW t \in Streams, Restoring(t)'
        PROVE  Restored(cur[t].size, t, cur[t].pane)'
    <3>1. CASE t # s
      BY <1>1, <2>1, <3>1 DEF RestoresExact, Restoring, Restored
    <3>2. CASE t = s
      <4>1. /\ cur'[s].pane = p /\ cur'[s].size = saved[s][p] /\ saved[s][p] # 0
            /\ origin'[s][p] = origin[s][p]
        BY <1>2, <1>3, <2>1, <3>2 DEF Restoring, TakesUpOf
      <4> QED
        BY <2>1, <3>2, <4>1 DEF SavedExact, Restored
    <3> QED
      BY <3>1, <3>2
  <2>2. ASSUME tmuxUp, NEW i \in 1 .. Len(line), line[i].op = "restore"
        PROVE  Restored(line[i].size, line[i].stream, line[i].pane)'
    <3>1. line[i].stream \in Streams /\ line[i].pane \in Panes
      <4>1. line[i] \in Commands
        BY ElementOfSeq DEF InputTypeOK
      <4> QED
        BY <4>1 DEF Commands
    <3>2. Restored(line[i].size, line[i].stream, line[i].pane)
      BY <2>2 DEF RestoresExact
    <3>3. line[i].stream = s => st[s] # "select"
      BY NothingWritten
    <3>4. origin'[line[i].stream][line[i].pane] = origin[line[i].stream][line[i].pane]
      BY <1>1, <1>4, <3>1, <3>3 DEF RecordStays
    <3> QED
      BY <1>2, <3>2, <3>4 DEF Restored
  <2> QED
    BY <1>1, <1>2, <2>1, <2>2 DEF RestoresExact
<1>12. ASSUME tmuxUp, NEW t \in Streams, NEW q \in Panes, size[q] # 0, ~Owed(t, q)'
       PROVE  ~Owed(t, q) /\ origin'[t][q] = origin[t][q]
  <2>1. CASE t # s
    BY <1>1, <1>12, <2>1 DEF Owed, Restoring
  <2>2. CASE t = s
    <3>1. saved'[s][q] = 0
      BY <1>12, <2>2 DEF Owed
    <3>2. ~(q = p /\ Restoring(s)' /\ cur'[s].pane = p)
      BY <1>12, <2>2 DEF Owed
    <3>3. ~Restoring(s)
      BY <1>2 DEF Restoring
    <3>4. saved[s][q] = 0 \/ hub[q] # 0
      BY <1>12 DEF InHub
    <3>5. saved[s][q] = 0 /\ origin'[s][q] = origin[s][q]
      BY <1>3, <3>1, <3>2, <3>4 DEF TakesUpOf, RecordStays, Restoring
    <3> QED
      BY <2>2, <3>3, <3>5 DEF Owed
  <2> QED
    BY <2>1, <2>2
<1>13. DrivenIsOwed'
  <2> SUFFICES ASSUME tmuxUp, NEW t \in Streams, NEW q \in Panes, size[q] # 0, ~Owed(t, q)'
               PROVE  /\ setBy[q] = t => Restored(size[q], t, q)' \/ Undone(t, q, 0)
                      /\ \A i \in 1 .. Len(line) : Drives(line[i], t, q) => Undone(t, q, i)
    BY <1>1, <1>2 DEF DrivenIsOwed, Undone, Drives, Restored
  <2>1. ~Owed(t, q) /\ origin'[t][q] = origin[t][q]
    BY <1>12
  <2>2. Restored(size[q], t, q) => Restored(size[q], t, q)'
    BY <1>1, <2>1 DEF Restored
  <2> QED
    BY <2>1, <2>2 DEF DrivenIsOwed
<1>14. InHub'
  <2>1. ASSUME NEW t \in Streams, NEW q \in Panes, saved'[t][q] # 0
        PROVE  saved[t][q] # 0 \/ hub[q] # 0
    BY <1>1, <1>4, <2>1 DEF RecordStays
  <2> QED
    BY <1>1, <2>1 DEF InHub
<1> QED
  BY <1>5, <1>6, <1>7, <1>8, <1>10, <1>11, <1>13, <1>14

\* So does going on, failing, giving up and ending: what was written stands.
LEMMA GoingOnKeepsDrive ==
  ASSUME InputTypeOK, InjectionsOK, DriveInv, NEW s \in Streams, Handler(s),
         \/ CommandDone(s) \/ CommandFails(s) \/ GiveUp(s) \/ StreamEnds(s) \/ HandlerReturns(s)
  PROVE  DriveInv'
<1> USE DEF DriveInv, RecordsInv, CommandsInv
<1>1. /\ UNCHANGED <<size, tmuxUp, setBy, listing, hub, dirty>>
      /\ \A t \in Streams \ {s} : /\ st'[t] = st[t] /\ cur'[t] = cur[t]
                                  /\ saved'[t] = saved[t] /\ origin'[t] = origin[t]
  BY HandlerKeeps DEF watcherVars
<1>2. /\ saved' = saved /\ origin' = origin /\ cur' = cur
      /\ st[s] # "inject" \/ ~tmuxUp
      /\ st'[s] = "select" => st[s] = "waiting" /\ cur[s].kind # "restoreAll"
      /\ st'[s] # "idle" /\ (st'[s] = "inject" => cur[s].kind = "keys")
      /\ st'[s] = "ended" => \A p \in Panes : saved[s][p] = 0
      /\ line' # line => GiveUp(s)
  BY GoesOn
<1>3. LineStands
  <2>1. CASE line' = line
    BY <2>1 DEF LineStands
  <2>2. CASE GiveUp(s)
    BY <2>2, LineForgets DEF LineStands
  <2> QED
    BY <1>2, <2>1, <2>2
<1>4. SavedFirst'
  BY <1>1, <1>2 DEF SavedFirst
<1>5. NothingSaved'
  BY <1>1, <1>2 DEF NothingSaved
<1>6. DrivenLives' /\ Listed' /\ CurrentInv' /\ InHub'
  BY <1>1, <1>2 DEF DrivenLives, Listed, CurrentInv, InHub
<1>7. LineSized'
  BY <1>3 DEF LineSized, LineStands
<1>8. SavedExact'
  BY <1>1, <1>2 DEF SavedExact, Restored
<1>9. RestoresExact'
  <2>1. \A t \in Streams : Restoring(t)' => Restoring(t)
    BY <1>1, <1>2 DEF Restoring
  <2>2. ASSUME tmuxUp
        PROVE  \A i \in 1 .. Len(line) : line'[i].op = "restore" =>
                 Restored(line'[i].size, line'[i].stream, line'[i].pane)
    BY <1>3, <2>2 DEF RestoresExact, LineStands
  <2> QED
    BY <1>1, <1>2, <1>3, <2>1, <2>2 DEF RestoresExact, Restored, LineStands
<1>10. Attended'
  <2>1. Fresh(s)' => /\ Fresh(s) /\ line' = line
    <3>1. Fresh(s)' => Fresh(s) /\ ~GiveUp(s)
      <4>1. GiveUp(s) => st'[s] = "restoring"
        BY DEF GiveUp, Failed, GoTo, InputTypeOK
      <4>2. st'[s] \in {"inject", "waiting"} => st[s] = "waiting" \/ CommandFails(s)
        BY <1>2, <4>1 DEF CommandDone, StreamEnds, HandlerReturns, GoTo, InputTypeOK
      <4>3. CommandFails(s) => st'[s] = "restoring"
        BY DEF CommandFails, Failed, GoTo, InputTypeOK
      <4> QED
        BY <1>2, <4>1, <4>2, <4>3 DEF Fresh, Busy
    <3> QED
      BY <1>2, <3>1
  <2>2. \A t \in Streams \ {s} : Fresh(t)' = Fresh(t)
    BY <1>1 DEF Fresh, Busy
  <2>3. \A i \in 1 .. Len(line) : line[i].stream # s => line'[i] = line[i]
    <3>1. CASE line' = line
      BY <3>1
    <3>2. CASE GiveUp(s)
      BY <3>2, LineForgets
    <3> QED
      BY <1>2, <3>1, <3>2
  <2>4. ASSUME NEW t \in Streams, Fresh(t)', NEW i \in 1 .. Len(line), line'[i].stream = t
        PROVE  line'[i].live
    <3>1. line[i].stream = t
      BY <1>3, <2>4 DEF LineStands
    <3>2. Fresh(t) /\ line'[i] = line[i]
      BY <2>1, <2>2, <2>3, <2>4, <3>1
    <3> QED
      BY <3>1, <3>2 DEF Attended
  <2> QED
    BY <1>3, <2>4 DEF Attended, LineStands
<1>11. ASSUME tmuxUp, NEW t \in Streams, NEW q \in Panes, Owed(t, q)
       PROVE  Owed(t, q)'
  BY <1>1, <1>2, <1>11 DEF Owed, Restoring
<1>12. ASSUME NEW t \in Streams, NEW q \in Panes
       PROVE  /\ \A i \in 1 .. Len(line) : Drives(line'[i], t, q) = Drives(line[i], t, q)
              /\ \A i \in 0 .. Len(line) : Undone(t, q, i) => Undone(t, q, i)'
  BY <1>3 DEF LineStands, Drives, Restores, Undone
<1>13. DrivenIsOwed'
  <2> SUFFICES ASSUME tmuxUp, NEW t \in Streams, NEW q \in Panes, size[q] # 0, ~Owed(t, q)'
               PROVE  /\ setBy[q] = t => Restored(size[q], t, q) \/ Undone(t, q, 0)'
                      /\ \A i \in 1 .. Len(line) : Drives(line'[i], t, q) => Undone(t, q, i)'
    BY <1>1, <1>2, <1>3 DEF DrivenIsOwed, Undone, Drives, LineStands, Restored
  <2>1. ~Owed(t, q)
    BY <1>11
  <2>2. /\ setBy[q] = t => Restored(size[q], t, q) \/ Undone(t, q, 0)
        /\ \A i \in 1 .. Len(line) : Drives(line[i], t, q) => Undone(t, q, i)
    BY <2>1 DEF DrivenIsOwed
  <2>3. Len(line) \in Nat
    BY LenProperties DEF InputTypeOK
  <2>4. 0 \in 0 .. Len(line) /\ \A i \in 1 .. Len(line) : i \in 0 .. Len(line)
    BY <2>3
  <2> QED
    BY <1>12, <2>2, <2>4
<1> QED
  BY <1>4, <1>5, <1>6, <1>7, <1>8, <1>9, <1>10, <1>13

\* A command written is owed, or it undoes what the line has before it.
LEMMA WritingKeepsDrive ==
  ASSUME InputTypeOK, InjectionsOK, DriveInv, NEW s \in Streams, Handler(s), WriteCommand(s)
  PROVE  DriveInv'
<1> USE DEF DriveInv, RecordsInv, CommandsInv
<1>1. /\ UNCHANGED <<size, tmuxUp, setBy, listing, hub, dirty>>
      /\ \A t \in Streams \ {s} : /\ st'[t] = st[t] /\ cur'[t] = cur[t]
                                  /\ saved'[t] = saved[t] /\ origin'[t] = origin[t]
  BY HandlerKeeps DEF watcherVars
<1>2. /\ st[s] = "inject" /\ st'[s] = "waiting" /\ saved' = saved /\ origin' = origin
      /\ cur'[s].kind = cur[s].kind
  <2>1. PICK d : d = IF cur[s].kind = "keys" THEN RestOf(cur[s].rest) ELSE <<>>
    OBVIOUS
  <2>2. cur' = [cur EXCEPT ![s].rest = d]
    BY <2>1 DEF WriteCommand
  <2>3. cur'[s].kind = cur[s].kind
    BY <2>2 DEF InputTypeOK, Injections
  <2> QED
    BY <2>3 DEF WriteCommand, GoTo, InputTypeOK
<1>3. PICK n \in Nat : n = Len(line)
  BY LenProperties DEF InputTypeOK
<1>4. PICK m \in Nat : m = n + 1 /\ m \in 1 .. m /\ \A i \in 1 .. m : i \in 1 .. n \/ i = m
  BY <1>3
<1>5. /\ Len(line') = m /\ line'[m] = CommandOf(s)
      /\ \A i \in 1 .. n : line'[i] = line[i] /\ i \in 1 .. m /\ m > i
  <2>1. \A i \in 1 .. n : i \in 1 .. m /\ m > i
    BY <1>4
  <2> QED
    BY <1>3, <1>4, <2>1, LineGrows
<1>6. PICK c \in Commands : c = CommandOf(s)
  BY <1>2, WritesCommand
<1>7. /\ c.stream = s /\ c.pane = cur[s].pane
      /\ cur[s].kind = "keys" => c.op \notin {"drive", "restore"}
      /\ c.live
      /\ cur[s].kind = "resize" => c.op = "drive"
      /\ cur[s].kind \in {"restore", "restoreAll"} => c.op = "restore"
      /\ cur[s].kind # "keys" => c.size = cur[s].size
  BY <1>2, <1>6, WritesCommand DEF KeysOp
<1>8. cur[s].kind \in Kinds \ {"none"}
  BY <1>2 DEF InjectionsOK, Busy, InputTypeOK, Injections
<1>9. SavedFirst' /\ NothingSaved'
  BY <1>1, <1>2 DEF SavedFirst, NothingSaved
<1>10. DrivenLives' /\ Listed' /\ CurrentInv' /\ InHub' /\ SavedExact'
  BY <1>1, <1>2 DEF DrivenLives, Listed, CurrentInv, InHub, SavedExact, Restored
<1>11. LineSized'
  <2>1. c.op \in {"drive", "restore"} => c.size # 0
    BY <1>2, <1>7, <1>8 DEF InjectionsOK, Busy
  <2> QED
    BY <1>3, <1>4, <1>5, <1>6, <2>1 DEF LineSized
<1>12. ASSUME NEW q \in Panes, Drives(c, s, q)
       PROVE  saved[s][q] # 0
  <2>1. cur[s].kind = "resize" /\ cur[s].pane = q
    BY <1>7, <1>8, <1>12 DEF Kinds, Drives
  <2> QED
    BY <1>2, <2>1 DEF SavedFirst
<1>13. ASSUME NEW t \in Streams, NEW q \in Panes, NEW i \in 0 .. n, Undone(t, q, i)
       PROVE  Undone(t, q, i)'
  BY <1>3, <1>5, <1>13 DEF Undone
<1>14. ASSUME NEW t \in Streams, NEW q \in Panes, Owed(t, q), ~Owed(t, q)'
       PROVE  \A i \in 0 .. n : Undone(t, q, i)'
  <2>1. t = s /\ cur[s].kind \in {"restore", "restoreAll"} /\ cur[s].pane = q
    BY <1>1, <1>2, <1>14 DEF Owed, Restoring
  <2>2. Restores(c, t, q)
    BY <1>7, <2>1 DEF Restores
  <2>3. \A i \in 0 .. n : m > i
    BY <1>4
  <2> QED
    BY <1>4, <1>5, <1>6, <2>2, <2>3 DEF Undone
<1>15. DrivenIsOwed'
  <2> SUFFICES ASSUME tmuxUp, NEW t \in Streams, NEW q \in Panes, size[q] # 0, ~Owed(t, q)'
               PROVE  /\ setBy[q] = t => Restored(size[q], t, q) \/ Undone(t, q, 0)'
                      /\ \A i \in 1 .. m : Drives(line'[i], t, q) => Undone(t, q, i)'
    BY <1>1, <1>2, <1>5 DEF DrivenIsOwed, Restored
  <2>1. 0 \in 0 .. n /\ \A i \in 1 .. n : i \in 0 .. n
    BY <1>3
  <2>2. setBy[q] = t => Restored(size[q], t, q) \/ Undone(t, q, 0)'
    BY <1>13, <1>14, <2>1 DEF DrivenIsOwed
  <2>3. \A i \in 1 .. n : Drives(line[i], t, q) => Undone(t, q, i)'
    BY <1>3, <1>13, <1>14, <2>1 DEF DrivenIsOwed
  <2>4. ~Drives(c, t, q)
    <3> SUFFICES ASSUME Drives(c, t, q) PROVE FALSE
      OBVIOUS
    <3>1. t = s
      BY <1>7 DEF Drives
    <3>2. saved[s][q] # 0
      BY <1>12, <3>1
    <3> QED
      BY <1>2, <3>1, <3>2 DEF Owed
  <2> QED
    BY <1>4, <1>5, <1>6, <2>2, <2>3, <2>4
<1>16. RestoresExact'
  <2>1. \A t \in Streams : Restoring(t)' => Restoring(t) /\ t # s
    BY <1>1, <1>2 DEF Restoring
  <2>2. ASSUME tmuxUp, c.op = "restore"
        PROVE  Restored(c.size, c.stream, c.pane)
    <3>1. Restoring(s)
      BY <1>2, <1>7, <1>8, <2>2 DEF Restoring, Kinds
    <3>2. c.size = cur[s].size
      BY <1>7, <3>1 DEF Restoring
    <3> QED
      BY <1>7, <2>2, <3>1, <3>2 DEF RestoresExact
  <2>3. ASSUME tmuxUp, NEW i \in 1 .. m, line'[i].op = "restore"
        PROVE  Restored(line'[i].size, line'[i].stream, line'[i].pane)
    BY <1>3, <1>4, <1>5, <1>6, <2>2, <2>3 DEF RestoresExact
  <2> QED
    BY <1>1, <1>2, <1>5, <2>1, <2>3 DEF RestoresExact, Restored
<1>17. Attended'
  <2>1. \A t \in Streams : Fresh(t)' => Fresh(t)
    BY <1>1, <1>2 DEF Fresh, Busy
  <2>2. ASSUME NEW t \in Streams, Fresh(t)', NEW i \in 1 .. m, line'[i].stream = t
        PROVE  line'[i].live
    BY <1>3, <1>4, <1>5, <1>6, <1>7, <2>1, <2>2 DEF Attended
  <2> QED
    BY <1>5, <2>2 DEF Attended
<1> QED
  BY <1>9, <1>10, <1>11, <1>15, <1>16, <1>17

\* Nor does what tmux runs: a restore in the line comes after what it undoes.
LEMMA RunningKeepsDrive ==
  ASSUME InputTypeOK, InjectionsOK, DriveInv, RunCommand
  PROVE  DriveInv'
<1> USE DEF DriveInv, RecordsInv, CommandsInv
<1>1. tmuxUp /\ UNCHANGED <<tmuxUp, hub, listing, st, cur, saved, origin>>
  BY DEF RunCommand
<1>2. PICK n \in Nat : n = Len(line)
  BY LenProperties DEF InputTypeOK
<1>3. PICK c \in Commands : c = Head(line) /\ c = line[1]
  BY LineShrinks
<1>4. /\ 1 \in 1 .. n /\ n - 1 \in Nat /\ Len(line') = n - 1
      /\ \A i \in 1 .. n - 1 : i + 1 \in 1 .. n /\ line'[i] = line[i + 1]
  <2>1. 1 \in 1 .. n /\ Len(line') = n - 1
    BY <1>2, LineShrinks
  <2>2. \A i \in 1 .. n - 1 : i + 1 \in 1 .. n
    BY <1>2
  <2>3. \A i \in 1 .. n - 1 : line'[i] = line[i + 1]
    BY <2>1, LineShrinks
  <2> QED
    BY <1>2, <2>1, <2>2, <2>3
<1>5. /\ c.stream \in Streams /\ c.pane \in Panes /\ c.size \in Sizes /\ ~(c.size > MaxResizeDim)
      /\ c.op \in {"drive", "restore"} => c.size # 0
  BY <1>2, <1>3, <1>4, InputAssumption DEF Commands, Sizes, LineSized
<1>6. RunResize(c) \/ RunKeys(c) \/ RunRefused(c)
  BY <1>3 DEF RunCommand
<1>7. \A p \in Panes : size'[p] # 0 <=> size[p] # 0
  BY <1>5, <1>6 DEF RunResize, RunKeys, RunRefused, Refuses, InputTypeOK
<1>8. ASSUME NEW p \in Panes
      PROVE  \/ /\ setBy'[p] = setBy[p] /\ size'[p] = size[p]
                /\ size[p] = 0 \/ \A s \in Streams : ~Restores(c, s, p)
             \/ /\ setBy'[p] = c.stream /\ size[p] # 0
                /\ \/ Drives(c, c.stream, p)
                   \/ Restores(c, c.stream, p) /\ size'[p] = c.size
  <2>1. CASE RunResize(c)
    <3>1. c.pane # p => /\ setBy'[p] = setBy[p] /\ size'[p] = size[p]
                        /\ \A s \in Streams : ~Restores(c, s, p)
      BY <2>1 DEF RunResize, Restores, InputTypeOK
    <3>2. c.pane = p => setBy'[p] = c.stream /\ size'[p] = c.size /\ size[p] # 0
      BY <1>5, <2>1 DEF RunResize, Refuses, InputTypeOK
    <3>3. c.op \in {"drive", "restore"}
      BY <2>1 DEF RunResize
    <3> QED
      BY <3>1, <3>2, <3>3 DEF Drives, Restores
  <2>2. CASE RunKeys(c)
    BY <2>2 DEF RunKeys, Restores, KeysOps
  <2>3. CASE RunRefused(c)
    <3>1. setBy'[p] = setBy[p] /\ size'[p] = size[p]
      BY <2>3 DEF RunRefused
    <3>2. size[c.pane] = 0 \/ c.op = "bare"
      BY <1>5, <2>3 DEF RunRefused, Refuses, NamesUser, Expands
    <3> QED
      BY <3>1, <3>2 DEF Restores
  <2> QED
    BY <1>6, <2>1, <2>2, <2>3
<1>9. SavedFirst' /\ NothingSaved'
  BY <1>1 DEF SavedFirst, NothingSaved
<1>10. DrivenLives'
  BY <1>7, <1>8 DEF DrivenLives
<1>11. LineSized'
  BY <1>2, <1>4 DEF LineSized
<1>12. Listed' /\ InHub' /\ SavedExact' /\ CurrentInv'
  <2>1. Listed' /\ InHub' /\ SavedExact'
    BY <1>1, <1>7 DEF Listed, InHub, SavedExact, Restored
  <2>2. ~dirty' => ~dirty /\ \A p \in Panes : size'[p] = size[p]
    BY <1>5, <1>6 DEF RunResize, RunKeys, RunRefused, InputTypeOK
  <2> QED
    BY <1>1, <2>1, <2>2 DEF CurrentInv
<1>13. ASSUME NEW s \in Streams, NEW p \in Panes, NEW i \in 0 .. n - 1,
              \E j \in 1 .. n : j > i + 1 /\ Restores(line[j], s, p)
       PROVE  Undone(s, p, i)'
  <2>1. PICK j \in 1 .. n : j > i + 1 /\ Restores(line[j], s, p)
    BY <1>13
  <2>2. PICK k : k = j - 1
    OBVIOUS
  <2>3. k \in 1 .. n - 1 /\ k > i /\ k + 1 = j
    BY <1>2, <2>1, <2>2
  <2>4. line'[k] = line[j]
    BY <1>4, <2>3
  <2> QED
    BY <1>4, <2>1, <2>3, <2>4 DEF Undone
<1>14. DrivenIsOwed'
  <2> SUFFICES ASSUME NEW s \in Streams, NEW p \in Panes, size[p] # 0, ~Owed(s, p)
               PROVE  /\ setBy'[p] = s => Restored(size'[p], s, p) \/ Undone(s, p, 0)'
                      /\ \A i \in 1 .. n - 1 : Drives(line'[i], s, p) => Undone(s, p, i)'
    BY <1>1, <1>4, <1>7 DEF DrivenIsOwed, Owed, Restoring, Restored
  <2>1. /\ setBy[p] = s => Restored(size[p], s, p) \/ Undone(s, p, 0)
        /\ \A i \in 1 .. n : Drives(line[i], s, p) => Undone(s, p, i)
    BY <1>1, <1>2 DEF DrivenIsOwed
  <2>2. ASSUME NEW i \in 1 .. n - 1, Drives(line'[i], s, p)
        PROVE  Undone(s, p, i)'
    <3>1. PICK k \in 1 .. n : k = i + 1 /\ line'[i] = line[k]
      BY <1>4
    <3>2. Undone(s, p, k)
      BY <2>1, <2>2, <3>1
    <3>3. i \in 0 .. n - 1
      BY <1>2
    <3>4. \E j \in 1 .. n : j > i + 1 /\ Restores(line[j], s, p)
      BY <1>2, <3>1, <3>2 DEF Undone
    <3> QED
      BY <1>13, <3>3, <3>4
  <2>3. ASSUME setBy'[p] = s, ~Restored(size'[p], s, p)
        PROVE  Undone(s, p, 0)'
    <3>1. \E j \in 1 .. n : j > 1 /\ Restores(line[j], s, p)
      <4>1. CASE setBy[p] = s /\ size'[p] = size[p] /\ ~Restores(c, s, p)
        <5>1. PICK j \in 1 .. n : j > 0 /\ Restores(line[j], s, p)
          BY <1>2, <2>1, <2>3, <4>1 DEF Undone
        <5>2. j # 1
          BY <1>3, <4>1, <5>1
        <5>3. j > 1
          BY <1>2, <5>2
        <5> QED
          BY <5>1, <5>3
      <4>2. CASE c.stream = s /\ Drives(c, c.stream, p)
        <5>1. Undone(s, p, 1)
          BY <1>3, <1>4, <2>1, <4>2
        <5> QED
          BY <1>2, <5>1 DEF Undone
      <4>3. CASE c.stream = s /\ Restores(c, c.stream, p) /\ size'[p] = c.size
        <5>1. Restored(c.size, s, p)
          BY <1>1, <1>2, <1>3, <1>4, <4>3 DEF RestoresExact, Restores
        <5> QED
          BY <2>3, <4>3, <5>1
      <4> QED
        BY <1>8, <2>3, <4>1, <4>2, <4>3
    <3>2. \E j \in 1 .. n : j > 0 + 1 /\ Restores(line[j], s, p)
      BY <3>1
    <3>3. 0 \in 0 .. n - 1
      BY <1>4
    <3> QED
      BY <1>13, <3>2, <3>3
  <2> QED
    BY <2>2, <2>3
<1>15. RestoresExact'
  <2>1. ASSUME NEW i \in 1 .. n - 1, line'[i].op = "restore"
        PROVE  Restored(line'[i].size, line'[i].stream, line'[i].pane)
    BY <1>1, <1>2, <1>4, <2>1 DEF RestoresExact
  <2> QED
    BY <1>1, <1>4, <2>1 DEF RestoresExact, Restored, Restoring
<1>16. Attended'
  <2>1. \A s \in Streams : Fresh(s)' = Fresh(s)
    BY <1>1 DEF Fresh, Busy
  <2>2. \A s \in Streams : Fresh(s)' => \A i \in 1 .. n - 1 : line'[i].stream = s => line'[i].live
    BY <1>2, <1>4, <2>1 DEF Attended
  <2> QED
    BY <1>4, <2>2 DEF Attended
<1> QED
  BY <1>9, <1>10, <1>11, <1>12, <1>14, <1>15, <1>16

\* Every step keeps every resize owed or undone.
LEMMA DriveStep ==
  ASSUME InputTypeOK, InjectionsOK, KeysInv, DriveInv, [Next]_vars
  PROVE  DriveInv'
<1> USE DEF tmuxVars, watcherVars, handlerVars, clientVars, DriveInv, RecordsInv, CommandsInv
<1>1. ASSUME UNCHANGED <<line, saved, origin, cur, st>>
      PROVE  SavedFirst' /\ NothingSaved' /\ LineSized' /\ Attended'
  BY <1>1 DEF SavedFirst, NothingSaved, LineSized, Attended, Fresh, Busy
<1>2. ASSUME UNCHANGED <<line, saved, origin, cur, st, tmuxUp>>
      PROVE  SavedExact' /\ RestoresExact'
  BY <1>2 DEF SavedExact, RestoresExact, Restored, Restoring
<1>3. ASSUME UNCHANGED <<line, saved, origin, cur, st, tmuxUp, size, setBy>>
      PROVE  DrivenLives' /\ DrivenIsOwed'
  BY <1>3 DEF DrivenLives, DrivenIsOwed, Owed, Restoring, Restored, Undone
<1>4. ASSUME UNCHANGED <<size, tmuxUp, setBy, line, saved, origin, cur, hub, dirty, listing, st>>
      PROVE  DriveInv'
  <2>1. Listed' /\ InHub' /\ CurrentInv'
    BY <1>4 DEF Listed, InHub, CurrentInv
  <2> QED
    BY <1>1, <1>2, <1>3, <1>4, <2>1
<1>5. ASSUME NEW s \in Streams, Handler(s)
      PROVE  DriveInv'
  BY <1>5, TakingKeepsDrive, GoingOnKeepsDrive, WritingKeepsDrive DEF Handler, Proceeds
<1>6. ASSUME NEW s \in Streams, OpenStream(s)
      PROVE  DriveInv'
  <2>1. /\ UNCHANGED <<size, tmuxUp, setBy, line, saved, origin, cur, hub, dirty, listing>>
        /\ st[s] = "idle" /\ st'[s] = "select" /\ \A t \in Streams \ {s} : st'[t] = st[t]
    BY <1>6 DEF OpenStream, InputTypeOK
  <2>2. SavedFirst' /\ NothingSaved' /\ LineSized'
    BY <2>1 DEF SavedFirst, NothingSaved, LineSized
  <2>3. DrivenLives' /\ Listed' /\ InHub' /\ CurrentInv'
    BY <2>1 DEF DrivenLives, Listed, InHub, CurrentInv
  <2>4. /\ \A t \in Streams : Restoring(t)' = Restoring(t)
        /\ \A t \in Streams : Fresh(t)' => Fresh(t)
    BY <2>1 DEF Restoring, Fresh, Busy
  <2>5. SavedExact' /\ RestoresExact' /\ Attended'
    BY <2>1, <2>4 DEF SavedExact, RestoresExact, Restored, Attended
  <2>6. DrivenIsOwed'
    BY <2>1, <2>4 DEF DrivenIsOwed, Owed, Restored, Undone
  <2> QED
    BY <2>2, <2>3, <2>5, <2>6
<1>7. ASSUME NEW s \in Streams, CloseStream(s) \/ HangUp(s) \/ \E e \in Events : SendEvent(s, e)
      PROVE  DriveInv'
  BY <1>4, <1>7 DEF CloseStream, HangUp, SendEvent
<1>8. ASSUME NEW p \in Panes, ExternalResize(p) \/ PaneExits(p)
      PROVE  DriveInv'
  <2>1. /\ UNCHANGED <<tmuxUp, line, saved, origin, cur, hub, listing, st>>
        /\ \A q \in Panes \ {p} : size'[q] = size[q] /\ setBy'[q] = setBy[q]
        /\ size[p] # 0 /\ setBy'[p] = NoOne /\ dirty'
    BY <1>8 DEF ExternalResize, PaneExits, InputTypeOK
  <2>2. \A s \in Streams : setBy'[p] # s
    BY <2>1, InputAssumption
  <2>3. SavedFirst' /\ NothingSaved' /\ LineSized' /\ Attended' /\ SavedExact' /\ RestoresExact'
    BY <1>1, <1>2, <2>1
  <2>4. DrivenLives' /\ Listed' /\ CurrentInv' /\ InHub'
    BY <2>1 DEF DrivenLives, Listed, CurrentInv, InHub
  <2>5. ASSUME NEW s \in Streams, NEW q \in Panes
        PROVE  /\ size'[q] # 0 => size[q] # 0
               /\ setBy'[q] = s => setBy[q] = s /\ size'[q] = size[q]
               /\ Owed(s, q)' = Owed(s, q)
    <3>1. /\ size'[q] # 0 => size[q] # 0
          /\ setBy'[q] = s => setBy[q] = s /\ size'[q] = size[q]
      BY <2>1, <2>2
    <3> QED
      BY <2>1, <3>1 DEF Owed, Restoring
  <2>6. DrivenIsOwed'
    BY <2>1, <2>5 DEF DrivenIsOwed, Undone, Restored
  <2> QED
    BY <2>3, <2>4, <2>6
<1>9. CASE TmuxEnds \/ KillTmux \/ Teardown
  <2>1. UNCHANGED <<size, setBy, saved, cur, st>> /\ ~tmuxUp' /\ line' = <<>>
    BY <1>9 DEF TmuxEnds, KillTmux, Teardown
  <2>2. listing' \in {listing, <<>>}
    BY <1>9 DEF TmuxEnds, KillTmux, Teardown
  <2>3. SavedFirst' /\ NothingSaved' /\ DrivenLives' /\ Listed'
    BY <2>1, <2>2 DEF SavedFirst, NothingSaved, DrivenLives, Listed
  <2>4. LineSized' /\ Attended'
    BY <2>1 DEF LineSized, Attended
  <2>5. DrivenIsOwed' /\ InHub' /\ CurrentInv' /\ SavedExact' /\ RestoresExact'
    BY <2>1 DEF DrivenIsOwed, InHub, CurrentInv, SavedExact, RestoresExact
  <2> QED
    BY <2>3, <2>4, <2>5
<1>10. CASE List
  <2>1. /\ UNCHANGED <<size, tmuxUp, setBy, line, saved, origin, cur, hub, st>>
        /\ listing' = size
    BY <1>10 DEF List
  <2>2. \A p \in Panes : size # <<>>
    BY DEF InputTypeOK
  <2>3. Listed' /\ InHub' /\ CurrentInv'
    BY <2>1, <2>2 DEF Listed, InHub, CurrentInv
  <2> QED
    BY <1>1, <1>2, <1>3, <2>1, <2>3
<1>11. CASE Record
  <2>1. /\ UNCHANGED <<size, tmuxUp, setBy, line, saved, origin, cur, st, dirty>>
        /\ listing # <<>> /\ hub' = listing /\ listing' = <<>>
    BY <1>11 DEF Record
  <2>2. Listed' /\ InHub' /\ CurrentInv'
    BY <2>1 DEF Listed, InHub, CurrentInv
  <2> QED
    BY <1>1, <1>2, <1>3, <2>1, <2>2
<1>12. CASE Shutdown
  BY <1>4, <1>12 DEF Shutdown
<1>13. CASE UNCHANGED vars
  BY <1>4, <1>13 DEF vars
<1> QED
  BY <1>5, <1>6, <1>7, <1>8, <1>9, <1>10, <1>11, <1>12, <1>13, RunningKeepsDrive
    DEF Next, Environment, Client

\* In the initial states nobody drives.
LEMMA DriveInit ==
  ASSUME Init
  PROVE  DriveInv
<1> USE DEF DriveInv, RecordsInv, CommandsInv
<1>1. line = <<>> /\ Len(line) = 0 /\ listing = <<>>
  BY DEF Init
<1>2. \A s \in Streams : st[s] = "idle" /\ \A p \in Panes : saved[s][p] = 0
  BY DEF Init
<1>3. \A p \in Panes : setBy[p] = NoOne /\ \A s \in Streams : setBy[p] # s
  BY InputAssumption DEF Init
<1>4. LineSized /\ Listed /\ Attended /\ DrivenLives
  BY <1>1, <1>3 DEF LineSized, Listed, Attended, DrivenLives
<1>5. CurrentInv
  BY <1>1 DEF Init, CurrentInv
<1>6. \A s \in Streams : ~Restoring(s)
  BY <1>2 DEF Restoring
<1>7. SavedFirst /\ NothingSaved /\ SavedExact /\ InHub
  BY <1>2 DEF SavedFirst, NothingSaved, SavedExact, InHub
<1>8. RestoresExact /\ DrivenIsOwed
  BY <1>1, <1>3, <1>6 DEF RestoresExact, DrivenIsOwed
<1> QED
  BY <1>4, <1>5, <1>7, <1>8

\* A pane that a stream was the last to set has, once the stream has ended, the
\* size tmux gave it when the stream began to drive it, however many Clients drive
\* however many panes and wherever the handler was when its stream ended:
\* restoreAll of SendInput writes its restores after every resize of the stream,
\* given up ones too, each carries the size that was displaced unless the record
\* was stale, and none is skipped, since a live pane is in every listing the
\* watcher records.
THEOREM NoPaneLeftDriven == Spec => []NothingLeftDriven
<1>1. Init => InputTypeOK /\ InjectionsOK /\ KeysInv /\ DriveInv
  BY InputInit, KeysInit, DriveInit
<1>2. InputTypeOK /\ InjectionsOK /\ KeysInv /\ DriveInv /\ [Next]_vars
      => (InputTypeOK /\ InjectionsOK /\ KeysInv /\ DriveInv)'
  BY TypeStep, InjectionsStep, KeysStep, DriveStep
<1>3. InputTypeOK /\ DriveInv => NothingLeftDriven
  <2> SUFFICES ASSUME InputTypeOK, DriveInv, NEW s \in Streams, NEW p \in Panes, tmuxUp,
                      st[s] = "ended", \A i \in DOMAIN line : line[i].stream # s,
                      setBy[p] = s, origin[s][p] # 0
               PROVE  size[p] = origin[s][p]
    BY DEF NothingLeftDriven
  <2>1. size[p] # 0
    BY InputAssumption DEF DriveInv, DrivenLives
  <2>2. ~Owed(s, p)
    BY DEF DriveInv, RecordsInv, NothingSaved, Owed, Restoring
  <2>3. Restored(size[p], s, p) \/ Undone(s, p, 0)
    BY <2>1, <2>2 DEF DriveInv, DrivenIsOwed
  <2>4. DOMAIN line = 1 .. Len(line)
    BY LenProperties DEF InputTypeOK
  <2>5. ~Undone(s, p, 0)
    BY <2>4 DEF Undone, Restores
  <2> QED
    BY <2>3, <2>5 DEF Restored
<1> QED
  BY <1>1, <1>2, <1>3, PTL DEF Spec
=============================================================================
