------------------------ MODULE ControlParserProofs ------------------------
(***************************************************************************)
(* Theorems about the parser of the control-mode stream: decodeOutput      *)
(* undoes tmux's escaping of every string of bytes, in either style, and   *)
(* splitExtendedOutput finds where the bytes begin.                        *)
(***************************************************************************)
EXTENDS ControlParser, SequenceTheorems, WellFoundedInduction, TLAPS

-----------------------------------------------------------------------------
(***************************************************************************)
(* Induction and recursion over the natural numbers, from the least number *)
(* principle.                                                              *)
(***************************************************************************)
\* Every set of natural numbers has a least one.
LEMMA LeastNumber ==
  ASSUME NEW T \in SUBSET Nat, T # {}
  PROVE  \E n \in T : \A m \in T : n <= m
<1>1. PICK R : R = {p \in Nat \X Nat : p[1] < p[2]}
  OBVIOUS
<1>2. IsWellFoundedOn(R, Nat)
  BY <1>1, NatLessThanWellFounded DEF OpToRel
<1>3. PICK x \in T : \A y \in T : ~ (<<y, x>> \in R)
  BY <1>2, WFMin
<1>4. \A y \in T : ~(y < x)
  BY <1>1, <1>3
<1> QED
  BY <1>4

\* A set with 0 that is closed under successor has them all.
LEMMA Induction ==
  ASSUME NEW T, 0 \in T, \A n \in Nat : n \in T => n + 1 \in T
  PROVE  \A n \in Nat : n \in T
<1> SUFFICES ASSUME Nat \ T # {} PROVE FALSE
  OBVIOUS
<1>1. PICK x \in Nat \ T : \A m \in Nat \ T : x <= m
  BY LeastNumber
<1>2. x # 0 /\ x - 1 \in Nat /\ x - 1 + 1 = x
  BY <1>1
<1>3. x - 1 \in T
  BY <1>1, <1>2
<1> QED
  BY <1>1, <1>2, <1>3

\* f repeats step, from first on.
Repeats(f, first, step, n) ==
  f[0] = first /\ \A i \in 1 .. n : f[i] = step[<<i, f[i - 1]>>]

\* A step can be repeated any number of times.
LEMMA Recursion ==
  ASSUME NEW S, NEW first \in S, NEW n \in Nat, NEW step \in [(1 .. n) \X S -> S]
  PROVE  \E f \in [0 .. n -> S] : Repeats(f, first, step, n)
<1>1. PICK T : T = {m \in Nat : m <= n => \E f \in [0 .. m -> S] : Repeats(f, first, step, m)}
  OBVIOUS
<1>2. 0 \in T
  <2>1. PICK f : f = [i \in 0 .. 0 |-> first]
    OBVIOUS
  <2>2. f \in [0 .. 0 -> S] /\ f[0] = first
    BY <2>1
  <2>3. \A i \in 1 .. 0 : FALSE
    OBVIOUS
  <2> QED
    BY <1>1, <2>2, <2>3 DEF Repeats
<1>3. ASSUME NEW m \in Nat, m \in T
      PROVE  m + 1 \in T
  <2> SUFFICES ASSUME m + 1 <= n
               PROVE  \E g \in [0 .. m + 1 -> S] : Repeats(g, first, step, m + 1)
    BY <1>1
  <2>1. PICK k \in Nat : k = m + 1
    OBVIOUS
  <2>2. m <= n /\ k \in 1 .. n /\ k - 1 = m /\ m \in 0 .. m
    BY <2>1
  <2>3. PICK f \in [0 .. m -> S] : Repeats(f, first, step, m)
    BY <1>1, <1>3, <2>2
  <2>4. PICK last \in S : last = step[<<k, f[m]>>]
    BY <2>2
  <2>5. PICK g : g = [i \in 0 .. k |-> IF i = k THEN last ELSE f[i]]
    OBVIOUS
  <2>6. \A i \in 0 .. k : i = k \/ i \in 0 .. m
    BY <2>1
  <2>7. g \in [0 .. k -> S]
    BY <2>5, <2>6
  <2>8. \A i \in 0 .. m : g[i] = f[i]
    BY <2>1, <2>5
  <2>9. g[0] = first
    BY <2>3, <2>8 DEF Repeats
  <2>10. ASSUME NEW i \in 1 .. k
         PROVE  g[i] = step[<<i, g[i - 1]>>]
    <3>1. CASE i = k
      <4>1. k \in 0 .. k
        OBVIOUS
      <4>2. g[k] = last
        BY <2>5, <4>1
      <4>3. g[m] = f[m]
        BY <2>2, <2>8
      <4>4. g[k - 1] = f[m]
        BY <2>2, <4>3
      <4> QED
        BY <2>4, <3>1, <4>2, <4>4
    <3>2. CASE i # k
      <4>1. i \in 1 .. m /\ i \in 0 .. m /\ i - 1 \in 0 .. m
        BY <2>1, <3>2
      <4> QED
        BY <2>3, <2>8, <4>1 DEF Repeats
    <3> QED
      BY <3>1, <3>2
  <2> QED
    BY <2>1, <2>7, <2>9, <2>10 DEF Repeats
<1>4. n \in T
  BY <1>2, <1>3, Induction
<1> QED
  BY <1>1, <1>4

-----------------------------------------------------------------------------
(***************************************************************************)
(* The two loops over a string.                                            *)
(***************************************************************************)
Byte == 0 .. 255

Bytes == Seq(0 .. 255)

\* The value of the first i digits.
Octals(v, d) ==
  v = [i \in 0 .. Len(d) |-> IF i = 0 THEN 0 ELSE (8 * v[i - 1] + d[i] - 48) % 256]

\* OctalValue is the last of them.
LEMMA OctalsExist ==
  ASSUME NEW d \in Bytes
  PROVE  \E v \in [0 .. Len(d) -> Byte] : Octals(v, d) /\ OctalValue(d) = v[Len(d)]
<1>1. PICK n \in Nat : n = Len(d)
  BY LenProperties DEF Bytes
<1>2. \A i \in 1 .. n : d[i] \in 0 .. 255
  BY <1>1, ElementOfSeq DEF Bytes
<1>3. PICK step : step = [p \in (1 .. n) \X Byte |-> (8 * p[2] + d[p[1]] - 48) % 256]
  OBVIOUS
<1>4. step \in [(1 .. n) \X Byte -> Byte]
  <2>1. ASSUME NEW i \in 1 .. n, NEW b \in Byte
        PROVE  (8 * b + d[i] - 48) % 256 \in Byte
    <3>1. d[i] \in Int /\ b \in Int
      BY <1>2 DEF Byte
    <3>2. PICK x \in Int : x = 8 * b + d[i] - 48
      BY <3>1
    <3>3. x % 256 \in 0 .. 255
      BY <3>2
    <3> QED
      BY <3>2, <3>3 DEF Byte
  <2>2. ASSUME NEW p \in (1 .. n) \X Byte
        PROVE  (8 * p[2] + d[p[1]] - 48) % 256 \in Byte
    BY <2>1
  <2> QED
    BY <1>3, <2>2
<1>5. PICK v \in [0 .. n -> Byte] : Repeats(v, 0, step, n)
  <2>1. 0 \in Byte
    BY DEF Byte
  <2> QED
    BY <1>4, <2>1, Recursion
<1>6. ASSUME NEW i \in 0 .. n
      PROVE  v[i] = IF i = 0 THEN 0 ELSE (8 * v[i - 1] + d[i] - 48) % 256
  <2>1. CASE i = 0
    BY <1>5, <2>1 DEF Repeats
  <2>2. CASE i # 0
    <3>1. i \in 1 .. n /\ i - 1 \in 0 .. n
      BY <2>2
    <3>2. <<i, v[i - 1]>> \in (1 .. n) \X Byte
      BY <1>5, <3>1
    <3>3. v[i] = step[<<i, v[i - 1]>>]
      BY <1>5, <3>1 DEF Repeats
    <3> QED
      BY <1>3, <2>2, <3>2, <3>3
  <2> QED
    BY <2>1, <2>2
<1>7. Octals(v, d)
  BY <1>1, <1>5, <1>6 DEF Octals
<1>8. PICK w : w = CHOOSE v2 : Octals(v2, d)
  OBVIOUS
<1>9. Octals(w, d)
  BY <1>7, <1>8
<1>10. OctalValue(d) = w[Len(d)]
  BY <1>8 DEF OctalValue, Octals
<1> QED
  BY <1>7, <1>10

\* tmux's escaping of the first i bytes.
Escapes(e, bytes, style) ==
  e = [i \in 0 .. Len(bytes) |-> IF i = 0 THEN <<>> ELSE e[i - 1] \o Escape(bytes[i], style)]

-----------------------------------------------------------------------------
(***************************************************************************)
(* decodeOutput: its equation, by recursion on the length of a string.     *)
(***************************************************************************)
\* The body of decodeOutput, with f for what it calls.
DecodeStep(f, s) ==
  IF s = <<>> THEN <<>>
  ELSE IF Head(s) # Backslash \/ Len(s) = 1 THEN <<Head(s)>> \o f[Tail(s)]
  ELSE IF IsOctal(s[2])
       THEN <<OctalValue(SubSeq(s, 2, 1 + OctalLength(s)))>> \o f[Rest(s, 1 + OctalLength(s))]
  ELSE IF s[2] = Backslash THEN <<Backslash>> \o f[Rest(s, 2)]
  ELSE IF s[2] \in DOMAIN CEscape THEN <<CEscape[s[2]]>> \o f[Rest(s, 2)]
  ELSE <<Backslash, s[2]>> \o f[Rest(s, 2)]

\* An octal escape has up to three digits.
LEMMA OctalLengths ==
  ASSUME NEW s \in Bytes, Len(s) > 1, IsOctal(s[2])
  PROVE  /\ OctalLength(s) \in 1 .. 3 /\ Digits(s, OctalLength(s))
         /\ \A k \in 1 .. 3 : Digits(s, k) => k <= OctalLength(s)
<1>1. PICK K : K = {k \in 1 .. 3 : Digits(s, k)}
  OBVIOUS
<1>2. Digits(s, 1)
  <2>1. \A j \in 2 .. 1 + 1 : j = 2
    OBVIOUS
  <2> QED
    BY <2>1 DEF Digits
<1>3. 1 \in K /\ K \subseteq 1 .. 3
  BY <1>1, <1>2
<1>4. \E x \in K : \A y \in K : x >= y
  <2>1. \A x \in K : x = 1 \/ x = 2 \/ x = 3
    BY <1>3
  <2>2. CASE 3 \in K
    BY <2>1, <2>2
  <2>3. CASE 3 \notin K /\ 2 \in K
    BY <2>1, <2>3
  <2>4. CASE 3 \notin K /\ 2 \notin K
    BY <1>3, <2>1, <2>4
  <2> QED
    BY <2>2, <2>3, <2>4
<1>5. Max(K) \in K /\ \A y \in K : Max(K) >= y
  BY <1>4 DEF Max
<1>6. OctalLength(s) = Max(K)
  BY <1>1 DEF OctalLength
<1> QED
  BY <1>1, <1>5, <1>6

\* The rest of a string is a shorter one.
LEMMA RestType ==
  ASSUME NEW s \in Bytes, s # <<>>, NEW k \in Nat \ {0}
  PROVE  Rest(s, k) \in Bytes /\ Len(Rest(s, k)) < Len(s)
<1>1. PICK n \in Nat : n = Len(s) /\ n > 0
  BY EmptySeq, LenProperties DEF Bytes
<1>2. PICK r : r = Rest(s, k)
  OBVIOUS
<1>3. r = SubSeq(s, k + 1, n)
  BY <1>1, <1>2 DEF Rest
<1>4. CASE k + 1 <= n
  <2>1. k + 1 \in 1 .. n + 1 /\ n \in 0 .. n
    BY <1>1, <1>4
  <2>2. \A i \in k + 1 .. n : s[i] \in 0 .. 255
    BY <1>1, ElementOfSeq DEF Bytes
  <2>3. r \in Seq(0 .. 255) /\ Len(r) = n - (k + 1) + 1
    BY <1>1, <1>3, <1>4, <2>2, SubSeqProperties DEF Bytes
  <2> QED
    BY <1>1, <1>2, <2>3 DEF Bytes
<1>5. CASE ~(k + 1 <= n)
  <2>1. r = <<>>
    BY <1>1, <1>3, <1>5, SubSeqEmpty
  <2>2. Len(<<>>) = 0 /\ <<>> \in Seq(0 .. 255)
    OBVIOUS
  <2> QED
    BY <1>1, <1>2, <2>1, <2>2 DEF Bytes
<1> QED
  BY <1>1, <1>4, <1>5

\* So is its tail.
LEMMA TailType ==
  ASSUME NEW s \in Bytes, s # <<>>
  PROVE  /\ Tail(s) \in Bytes /\ Len(Tail(s)) < Len(s) /\ Len(s) \in Nat \ {0}
         /\ Head(s) = s[1] /\ Head(s) \in Byte
<1>1. Len(s) \in Nat \ {0}
  BY EmptySeq, LenProperties DEF Bytes
<1>3. s[1] \in 0 .. 255
  <2>1. 1 \in 1 .. Len(s)
    BY <1>1
  <2> QED
    BY <2>1, ElementOfSeq DEF Bytes
<1>2. Tail(s) \in Seq(0 .. 255) /\ Len(Tail(s)) = Len(s) - 1 /\ Head(s) = s[1]
  BY HeadTailProperties DEF Bytes
<1> QED
  BY <1>1, <1>2, <1>3 DEF Bytes, Byte

\* What is decoded depends on what shorter strings decode to.
LEMMA StepLocal ==
  ASSUME NEW s \in Bytes, NEW f, NEW g,
         \A t \in Bytes : Len(t) < Len(s) => f[t] = g[t]
  PROVE  DecodeStep(f, s) = DecodeStep(g, s)
<1>1. CASE s = <<>>
  BY <1>1 DEF DecodeStep
<1>2. CASE s # <<>>
  <2>1. f[Tail(s)] = g[Tail(s)] /\ f[Rest(s, 2)] = g[Rest(s, 2)]
    <3>1. Tail(s) \in Bytes /\ Len(Tail(s)) < Len(s)
      BY <1>2, TailType, Zenon
    <3>2. 2 \in Nat \ {0}
      OBVIOUS
    <3>3. Rest(s, 2) \in Bytes /\ Len(Rest(s, 2)) < Len(s)
      BY <1>2, <3>2, RestType
    <3> QED
      BY <3>1, <3>3
  <2>2. CASE Head(s) # Backslash \/ Len(s) = 1
    BY <1>2, <2>1, <2>2 DEF DecodeStep
  <2>3. CASE ~(Head(s) # Backslash \/ Len(s) = 1) /\ IsOctal(s[2])
    <3>1. Len(s) > 1
      BY <1>2, <2>3, TailType
    <3>2. 1 + OctalLength(s) \in Nat \ {0}
      BY <2>3, <3>1, OctalLengths
    <3>3. f[Rest(s, 1 + OctalLength(s))] = g[Rest(s, 1 + OctalLength(s))]
      BY <1>2, <3>2, RestType
    <3> QED
      BY <1>2, <2>3, <3>3 DEF DecodeStep
  <2>4. CASE ~(Head(s) # Backslash \/ Len(s) = 1) /\ ~IsOctal(s[2])
    BY <1>2, <2>1, <2>4 DEF DecodeStep
  <2> QED
    BY <2>2, <2>3, <2>4
<1> QED
  BY <1>1, <1>2

\* f decodes the strings of up to n bytes.
UpTo(n) == {s \in Bytes : Len(s) <= n}

Decodes(f, n) == f = [s \in UpTo(n) |-> DecodeStep(f, s)]

\* There is such a function.
LEMMA DecodesExist ==
  \A n \in Nat : \E f : Decodes(f, n)
<1>1. PICK T : T = {n \in Nat : \E f : Decodes(f, n)}
  OBVIOUS
<1>2. 0 \in T
  <2>1. PICK f : f = [s \in UpTo(0) |-> <<>>]
    OBVIOUS
  <2>2. \A s \in UpTo(0) : DecodeStep(f, s) = <<>>
    BY EmptySeq DEF UpTo, Bytes, DecodeStep
  <2> QED
    BY <1>1, <2>1, <2>2 DEF Decodes
<1>3. ASSUME NEW n \in Nat, n \in T
      PROVE  n + 1 \in T
  <2>1. PICK f : Decodes(f, n)
    BY <1>1, <1>3
  <2>2. PICK g : g = [s \in UpTo(n + 1) |-> DecodeStep(f, s)]
    OBVIOUS
  <2>3. ASSUME NEW s \in UpTo(n + 1)
        PROVE  DecodeStep(f, s) = DecodeStep(g, s)
    <3>1. s \in Bytes /\ Len(s) <= n + 1 /\ Len(s) \in Nat
      BY LenProperties DEF UpTo, Bytes
    <3>2. ASSUME NEW t \in Bytes, Len(t) < Len(s)
          PROVE  f[t] = g[t]
      <4>1. Len(t) \in Nat
        BY LenProperties DEF Bytes
      <4>2. t \in UpTo(n) /\ t \in UpTo(n + 1)
        BY <3>1, <3>2, <4>1 DEF UpTo
      <4> QED
        BY <2>1, <2>2, <4>2 DEF Decodes
    <3> QED
      BY <3>1, <3>2, StepLocal
  <2>4. Decodes(g, n + 1)
    BY <2>2, <2>3 DEF Decodes
  <2> QED
    BY <1>1, <2>4
<1>4. \A n \in Nat : n \in T
  BY <1>2, <1>3, Induction
<1> QED
  BY <1>1, <1>4

\* Two of them agree where both are defined.
LEMMA DecodesAgree ==
  ASSUME NEW n \in Nat, NEW m \in Nat, n <= m, NEW f, NEW g, Decodes(f, n), Decodes(g, m)
  PROVE  \A s \in UpTo(n) : f[s] = g[s]
<1>1. PICK T : T = {k \in Nat : \A s \in UpTo(n) : Len(s) <= k => f[s] = g[s]}
  OBVIOUS
<1>2. ASSUME NEW s \in UpTo(n), \A t \in UpTo(n) : Len(t) < Len(s) => f[t] = g[t]
      PROVE  f[s] = g[s]
  <2>1. s \in Bytes /\ Len(s) <= n /\ Len(s) \in Nat
    BY LenProperties DEF UpTo, Bytes
  <2>2. ASSUME NEW t \in Bytes, Len(t) < Len(s)
        PROVE  f[t] = g[t]
    <3>1. Len(t) \in Nat
      BY LenProperties DEF Bytes
    <3>2. t \in UpTo(n)
      BY <2>1, <2>2, <3>1 DEF UpTo
    <3> QED
      BY <1>2, <2>2, <3>2
  <2>3. DecodeStep(f, s) = DecodeStep(g, s)
    BY <2>1, <2>2, StepLocal
  <2>4. s \in UpTo(m)
    BY <2>1 DEF UpTo
  <2> QED
    BY <2>3, <2>4 DEF Decodes
<1>3. 0 \in T
  <2>1. ASSUME NEW s \in UpTo(n), Len(s) <= 0
        PROVE  f[s] = g[s]
    <3>1. \A t \in UpTo(n) : ~(Len(t) < Len(s))
      <4>1. \A t \in UpTo(n) : Len(t) \in Nat
        BY LenProperties DEF UpTo, Bytes
      <4> QED
        BY <2>1, <4>1
    <3> QED
      BY <1>2, <3>1
  <2> QED
    BY <1>1, <2>1
<1>4. ASSUME NEW k \in Nat, k \in T
      PROVE  k + 1 \in T
  <2>1. ASSUME NEW s \in UpTo(n), Len(s) <= k + 1
        PROVE  f[s] = g[s]
    <3>1. \A t \in UpTo(n) : Len(t) \in Nat
      BY LenProperties DEF UpTo, Bytes
    <3>2. \A t \in UpTo(n) : Len(t) < Len(s) => Len(t) <= k
      BY <2>1, <3>1
    <3> QED
      BY <1>1, <1>2, <1>4, <3>2
  <2> QED
    BY <1>1, <2>1
<1>5. \A k \in Nat : k \in T
  BY <1>3, <1>4, Induction
<1>6. \A s \in UpTo(n) : Len(s) \in Nat
  BY LenProperties DEF UpTo, Bytes
<1>7. n \in T
  BY <1>5
<1> QED
  BY <1>1, <1>6, <1>7 DEF UpTo

\* decodeOutput is what its definition says.
LEMMA DecodeEquation ==
  \A s \in Bytes : decodeOutput[s] = DecodeStep(decodeOutput, s)
<1>1. PICK d : d = [n \in Nat |-> CHOOSE f : Decodes(f, n)]
  OBVIOUS
<1>2. \A n \in Nat : Decodes(d[n], n)
  BY <1>1, DecodesExist
<1>3. PICK h : h = [s \in Bytes |-> d[Len(s)][s]]
  OBVIOUS
<1>4. ASSUME NEW s \in Bytes
      PROVE  h[s] = DecodeStep(h, s)
  <2>1. PICK n \in Nat : n = Len(s)
    BY LenProperties DEF Bytes
  <2>2. s \in UpTo(n)
    BY <2>1 DEF UpTo
  <2>3. h[s] = DecodeStep(d[n], s)
    <3>1. Decodes(d[n], n)
      BY <1>2
    <3> QED
      BY <1>3, <2>1, <2>2, <3>1 DEF Decodes
  <2>4. ASSUME NEW t \in Bytes, Len(t) < Len(s)
        PROVE  d[n][t] = h[t]
    <3>1. PICK m \in Nat : m = Len(t) /\ m <= n
      BY <2>1, <2>4, LenProperties DEF Bytes
    <3>2. t \in UpTo(m)
      BY <3>1 DEF UpTo
    <3>3. d[m][t] = d[n][t]
      BY <1>2, <3>1, <3>2, DecodesAgree
    <3> QED
      BY <1>3, <3>1, <3>3
  <2>5. DecodeStep(d[n], s) = DecodeStep(h, s)
    BY <2>4, StepLocal
  <2> QED
    BY <2>3, <2>5
<1>5. h = [s \in Bytes |-> DecodeStep(h, s)]
  BY <1>3, <1>4
<1>6. PICK c : c = CHOOSE f : f = [s \in Bytes |-> DecodeStep(f, s)]
  OBVIOUS
<1>7. c = [s \in Bytes |-> DecodeStep(c, s)]
  BY <1>5, <1>6
<1>8. decodeOutput = c
  BY <1>6 DEF decodeOutput, DecodeStep, Bytes
<1> QED
  BY <1>7, <1>8

\* It yields a string of bytes.
LEMMA DecodeType ==
  \A s \in Bytes : decodeOutput[s] \in Bytes
<1>1. PICK T : T = {n \in Nat : \A s \in UpTo(n) : decodeOutput[s] \in Bytes}
  OBVIOUS
<1>2. ASSUME NEW s \in Bytes, \A t \in Bytes : Len(t) < Len(s) => decodeOutput[t] \in Bytes
      PROVE  decodeOutput[s] \in Bytes
  <2>1. decodeOutput[s] = DecodeStep(decodeOutput, s)
    BY DecodeEquation
  <2>2. CASE s = <<>>
    <3>1. decodeOutput[s] = <<>> /\ <<>> \in Seq(0 .. 255)
      BY <2>1, <2>2 DEF DecodeStep
    <3> QED
      BY <3>1 DEF Bytes
  <2>3. CASE s # <<>>
    <3>1. Head(s) \in 0 .. 255 /\ Len(s) \in Nat \ {0} /\ Tail(s) \in Bytes /\ Len(Tail(s)) < Len(s)
      BY <2>3, TailType DEF Byte
    <3>2. \A e \in Bytes, t \in Bytes : Len(t) < Len(s) => e \o decodeOutput[t] \in Bytes
      <4>1. \A d, e \in Seq(0 .. 255) : e \o d \in Seq(0 .. 255)
        BY ConcatProperties
      <4> QED
        BY <1>2, <4>1 DEF Bytes
    <3>3. \A b, c \in 0 .. 255 : <<b>> \in Bytes /\ <<b, c>> \in Bytes
      BY DEF Bytes
    <3>4. CASE Head(s) # Backslash \/ Len(s) = 1
      BY <2>1, <2>3, <3>1, <3>2, <3>3, <3>4 DEF DecodeStep
    <3>5. CASE ~(Head(s) # Backslash \/ Len(s) = 1) /\ IsOctal(s[2])
      <4>0. Len(s) > 1
        <5>1. PICK n \in Nat \ {0} : n = Len(s)
          BY <3>1
        <5>2. n # 1
          BY <3>5, <5>1
        <5>3. n > 1
          BY <5>1, <5>2
        <5> QED
          BY <5>1, <5>3
      <4>1. OctalLength(s) \in 1 .. 3 /\ Digits(s, OctalLength(s))
        BY <3>5, <4>0, OctalLengths
      <4>2. PICK k \in 1 .. 3 : k = OctalLength(s)
        BY <4>1
      <4>3. PICK r : r = Rest(s, 1 + k)
        OBVIOUS
      <4>4. r \in Bytes /\ Len(r) < Len(s)
        <5>1. 1 + k \in Nat \ {0}
          OBVIOUS
        <5> QED
          BY <2>3, <4>3, <5>1, RestType
      <4>5. PICK d : d = SubSeq(s, 2, 1 + k)
        OBVIOUS
      <4>6. d \in Bytes
        <5>1. k < Len(s)
          BY <4>1, <4>2 DEF Digits
        <5>2. 2 \in 1 .. Len(s) + 1 /\ 1 + k \in 1 .. Len(s) /\ 1 + k \in 2 - 1 .. Len(s)
          BY <3>1, <5>1
        <5>3. \A i \in 2 .. 1 + k : s[i] \in 0 .. 255
          <6>1. \A i \in 2 .. 1 + k : i \in 1 .. Len(s)
            BY <3>1, <5>1
          <6> QED
            BY <6>1, ElementOfSeq DEF Bytes
        <5> QED
          BY <4>5, <5>2, <5>3, SubSeqProperties DEF Bytes
      <4>7. OctalValue(d) \in 0 .. 255
        <5>1. PICK v \in [0 .. Len(d) -> Byte] : OctalValue(d) = v[Len(d)]
          BY <4>6, OctalsExist
        <5>2. PICK n \in Nat : n = Len(d)
          BY <4>6, LenProperties DEF Bytes
        <5>3. n \in 0 .. n
          BY <5>2
        <5>4. v[n] \in Byte
          BY <5>2, <5>3
        <5> QED
          BY <5>1, <5>2, <5>4 DEF Byte
      <4>8. decodeOutput[s] = <<OctalValue(d)>> \o decodeOutput[r]
        BY <2>1, <2>3, <3>5, <4>2, <4>3, <4>5 DEF DecodeStep
      <4> QED
        BY <3>2, <3>3, <4>4, <4>7, <4>8
    <3>6. CASE ~(Head(s) # Backslash \/ Len(s) = 1) /\ ~IsOctal(s[2])
      <4>1. s[2] \in 0 .. 255 /\ Backslash \in 0 .. 255
        <5>0. PICK n \in Nat \ {0} : n = Len(s)
          BY <3>1
        <5>1. n # 1
          BY <3>6, <5>0
        <5>2. 2 \in 1 .. n
          BY <5>0, <5>1
        <5> QED
          BY <5>0, <5>2, ElementOfSeq DEF Bytes, Backslash
      <4>2. PICK r : r = Rest(s, 2)
        OBVIOUS
      <4>3. r \in Bytes /\ Len(r) < Len(s)
        <5>1. 2 \in Nat \ {0}
          OBVIOUS
        <5> QED
          BY <2>3, <4>2, <5>1, RestType
      <4>4. s[2] \in DOMAIN CEscape => CEscape[s[2]] \in 0 .. 255
        BY DEF CEscape
      <4>5. \/ decodeOutput[s] = <<Backslash>> \o decodeOutput[r]
            \/ s[2] \in DOMAIN CEscape /\ decodeOutput[s] = <<CEscape[s[2]]>> \o decodeOutput[r]
            \/ decodeOutput[s] = <<Backslash, s[2]>> \o decodeOutput[r]
        BY <2>1, <2>3, <3>6, <4>2 DEF DecodeStep
      <4>6. \A e \in Bytes : e \o decodeOutput[r] \in Bytes
        BY <3>2, <4>3
      <4> QED
        BY <3>3, <4>1, <4>4, <4>5, <4>6
    <3> QED
      BY <3>4, <3>5, <3>6
  <2> QED
    BY <2>2, <2>3
<1>3. \A n \in Nat : \A s \in UpTo(n) : s \in Bytes /\ Len(s) \in Nat /\ Len(s) <= n
  BY LenProperties DEF UpTo, Bytes
<1>4. 0 \in T
  <2>1. \A s \in UpTo(0) : \A t \in Bytes : ~(Len(t) < Len(s))
    <3>1. \A t \in Bytes : Len(t) \in Nat
      BY LenProperties DEF Bytes
    <3> QED
      BY <1>3, <3>1
  <2> QED
    BY <1>1, <1>2, <1>3, <2>1
<1>5. ASSUME NEW n \in Nat, n \in T
      PROVE  n + 1 \in T
  <2>1. ASSUME NEW s \in UpTo(n + 1), NEW t \in Bytes, Len(t) < Len(s)
        PROVE  t \in UpTo(n)
    <3>1. Len(t) \in Nat /\ Len(s) \in Nat /\ Len(s) <= n + 1
      BY <1>3, LenProperties DEF Bytes
    <3> QED
      BY <2>1, <3>1 DEF UpTo
  <2>2. \A s \in UpTo(n + 1) : s \in Bytes
    BY <1>3
  <2> QED
    BY <1>1, <1>2, <1>5, <2>1, <2>2
<1>6. \A n \in Nat : n \in T
  BY <1>4, <1>5, Induction
<1>7. ASSUME NEW s \in Bytes
      PROVE  decodeOutput[s] \in Bytes
  <2>1. Len(s) \in Nat /\ s \in UpTo(Len(s))
    BY LenProperties DEF UpTo, Bytes
  <2> QED
    BY <1>1, <1>6, <2>1
<1> QED
  BY <1>7

-----------------------------------------------------------------------------
(***************************************************************************)
(* An escaped byte, and what follows it.                                   *)
(***************************************************************************)
\* e, then t.
LEMMA Leads ==
  ASSUME NEW e \in Bytes, NEW t \in Bytes, Len(e) >= 1
  PROVE  /\ e \o t \in Bytes /\ Len(e \o t) = Len(e) + Len(t) /\ e \o t # <<>>
         /\ Head(e \o t) = e[1] /\ \A i \in 1 .. Len(e) : (e \o t)[i] = e[i]
         /\ Rest(e \o t, Len(e)) = t
<1>1. Len(e) \in Nat /\ Len(t) \in Nat
  BY LenProperties DEF Bytes
<1>2. PICK s : s = e \o t
  OBVIOUS
<1>3. /\ s \in Seq(0 .. 255) /\ Len(s) = Len(e) + Len(t)
      /\ \A i \in 1 .. Len(s) : s[i] = IF i <= Len(e) THEN e[i] ELSE t[i - Len(e)]
  BY <1>2, ConcatProperties DEF Bytes
<1>4. s # <<>> /\ Head(s) = s[1]
  BY <1>1, <1>3, EmptySeq, HeadTailProperties
<1>5. \A i \in 1 .. Len(e) : s[i] = e[i]
  BY <1>1, <1>3
<1>6. Rest(s, Len(e)) = t
  <2>1. PICK n \in Nat, k \in Nat : n = Len(s) /\ k = Len(e) /\ n = k + Len(t)
    BY <1>1, <1>3
  <2>2. PICK r : r = SubSeq(s, k + 1, n)
    OBVIOUS
  <2>3. r = Rest(s, Len(e))
    BY <2>1, <2>2 DEF Rest
  <2>4. r \in Seq(0 .. 255) /\ Len(r) = Len(t) /\ \A i \in 1 .. Len(r) : r[i] = s[k + i]
    <3>1. CASE k + 1 <= n
      <4>1. k + 1 \in 1 .. n + 1 /\ n \in 0 .. n /\ n - (k + 1) + 1 = Len(t)
        BY <1>1, <2>1
      <4>2. \A i \in k + 1 .. n : s[i] \in 0 .. 255
        <5>1. \A i \in k + 1 .. n : i \in 1 .. Len(s)
          BY <2>1
        <5> QED
          BY <1>3, <5>1, ElementOfSeq
      <4>3. /\ r \in Seq(0 .. 255) /\ Len(r) = n - (k + 1) + 1
            /\ \A i \in 1 .. n - (k + 1) + 1 : r[i] = s[(k + 1) + i - 1]
        BY <1>3, <2>1, <2>2, <3>1, <4>1, <4>2, SubSeqProperties
      <4>4. \A i \in 1 .. Len(t) : (k + 1) + i - 1 = k + i
        BY <1>1
      <4> QED
        BY <4>1, <4>3, <4>4
    <3>2. CASE ~(k + 1 <= n)
      <4>1. Len(t) = 0
        BY <1>1, <2>1, <3>2
      <4>2. r = <<>> /\ <<>> \in Seq(0 .. 255) /\ Len(<<>>) = 0
        BY <2>1, <2>2, <3>2, SubSeqEmpty
      <4> QED
        BY <4>1, <4>2
    <3> QED
      BY <3>1, <3>2
  <2>5. ASSUME NEW i \in 1 .. Len(t)
        PROVE  r[i] = t[i]
    <3>1. k + i \in 1 .. Len(s) /\ ~(k + i <= Len(e)) /\ (k + i) - Len(e) = i
      BY <1>1, <2>1
    <3>2. s[k + i] = t[i]
      BY <1>3, <3>1
    <3> QED
      BY <2>4, <3>2
  <2>6. r = t
    BY <2>4, <2>5, SeqEqual DEF Bytes
  <2> QED
    BY <2>3, <2>6
<1> QED
  BY <1>2, <1>3, <1>4, <1>5, <1>6 DEF Bytes

\* What follows the first byte is the tail.
LEMMA OneDecoded ==
  ASSUME NEW b \in Byte, NEW t \in Bytes, b # Backslash
  PROVE  decodeOutput[<<b>> \o t] = <<b>> \o decodeOutput[t]
<1>1. PICK s : s = <<b>> \o t
  OBVIOUS
<1>2. <<b>> \in Bytes /\ Len(<<b>>) = 1 /\ <<b>>[1] = b
  BY DEF Byte, Bytes
<1>3. s \in Bytes /\ s # <<>> /\ Head(s) = b /\ Rest(s, 1) = t
  <2>1. PICK e : e = <<b>>
    OBVIOUS
  <2>2. e \in Bytes /\ Len(e) = 1 /\ e[1] = b /\ s = e \o t
    BY <1>1, <1>2, <2>1
  <2>3. Len(e) >= 1
    BY <2>2
  <2>4. e \o t \in Bytes /\ e \o t # <<>> /\ Head(e \o t) = e[1] /\ Rest(e \o t, Len(e)) = t
    BY <2>2, <2>3, Leads
  <2> QED
    BY <2>2, <2>4
<1>4. Tail(s) = t
  <2>1. Tail(s) = SubSeq(s, 2, Len(s))
    BY <1>3, TailIsSubSeq DEF Bytes
  <2> QED
    BY <1>3, <2>1 DEF Rest
<1>5. decodeOutput[s] = DecodeStep(decodeOutput, s)
  BY <1>3, DecodeEquation
<1> QED
  BY <1>1, <1>3, <1>4, <1>5 DEF DecodeStep

\* A backslash and a byte that is no octal digit.
LEMMA PairDecoded ==
  ASSUME NEW c \in Byte, NEW t \in Bytes, ~IsOctal(c)
  PROVE  /\ c = Backslash => decodeOutput[<<Backslash, c>> \o t] = <<Backslash>> \o decodeOutput[t]
         /\ c # Backslash /\ c \in DOMAIN CEscape =>
              decodeOutput[<<Backslash, c>> \o t] = <<CEscape[c]>> \o decodeOutput[t]
<1>1. PICK e : e = <<Backslash, c>>
  OBVIOUS
<1>2. e \in Bytes /\ Len(e) = 2 /\ e[1] = Backslash /\ e[2] = c
  BY <1>1 DEF Byte, Bytes, Backslash
<1>3. PICK s : s = e \o t
  OBVIOUS
<1>4. s \in Bytes /\ s # <<>> /\ Head(s) = Backslash /\ Rest(s, 2) = t /\ Len(s) = 2 + Len(t)
  <2>1. Len(e) >= 1
    BY <1>2
  <2>2. /\ e \o t \in Bytes /\ Len(e \o t) = Len(e) + Len(t) /\ e \o t # <<>>
        /\ Head(e \o t) = e[1] /\ Rest(e \o t, Len(e)) = t
    BY <1>2, <2>1, Leads
  <2> QED
    BY <1>2, <1>3, <2>2
<1>5. s[2] = c
  <2>1. 2 \in 1 .. Len(e) /\ Len(e) >= 1
    BY <1>2
  <2>2. s[2] = e[2]
    BY <1>2, <1>3, <2>1, Leads
  <2> QED
    BY <1>2, <2>2
<1>6. Len(s) # 1
  <2>1. Len(t) \in Nat
    BY LenProperties DEF Bytes
  <2> QED
    BY <1>4, <2>1
<1>7. decodeOutput[s] = DecodeStep(decodeOutput, s)
  BY <1>4, DecodeEquation
<1> QED
  BY <1>1, <1>3, <1>4, <1>5, <1>6, <1>7 DEF DecodeStep

\* The three digits of a byte.
LEMMA OctalDigits ==
  ASSUME NEW b \in Byte
  PROVE  \E x \in 0 .. 3, y \in 0 .. 7, z \in 0 .. 7 :
           /\ b \div 64 = x /\ (b \div 8) % 8 = y /\ b % 8 = z
           /\ b = 64 * x + 8 * y + z
<1>1. b \in 0 .. 255
  BY DEF Byte
<1>2. PICK q \in 0 .. 31, z \in 0 .. 7 : q = b \div 8 /\ z = b % 8 /\ b = 8 * q + z
  BY <1>1
<1>3. PICK x \in 0 .. 3, y \in 0 .. 7 : x = q \div 8 /\ y = q % 8 /\ q = 8 * x + y
  BY <1>2
<1>4. b \div 64 = x
  BY <1>2, <1>3
<1>5. b = 64 * x + 8 * y + z
  BY <1>2, <1>3
<1> QED
  BY <1>2, <1>3, <1>4, <1>5

\* Their value is the byte.
LEMMA OctalRoundTrip ==
  ASSUME NEW x \in 0 .. 3, NEW y \in 0 .. 7, NEW z \in 0 .. 7
  PROVE  OctalValue(<<48 + x, 48 + y, 48 + z>>) = 64 * x + 8 * y + z
<1>1. PICK d : d = <<48 + x, 48 + y, 48 + z>>
  OBVIOUS
<1>2. d \in Bytes /\ Len(d) = 3 /\ d[1] = 48 + x /\ d[2] = 48 + y /\ d[3] = 48 + z
  <2>1. 48 + x \in 0 .. 255 /\ 48 + y \in 0 .. 255 /\ 48 + z \in 0 .. 255
    OBVIOUS
  <2> QED
    BY <1>1, <2>1 DEF Bytes
<1>3. PICK v \in [0 .. Len(d) -> Byte] : Octals(v, d) /\ OctalValue(d) = v[Len(d)]
  BY <1>2, OctalsExist
<1>4. \A i \in 0 .. 3 : v[i] = IF i = 0 THEN 0 ELSE (8 * v[i - 1] + d[i] - 48) % 256
  BY <1>2, <1>3 DEF Octals
<1>5. v[0] = 0
  BY <1>4
<1>6. v[1] = x
  <2>1. v[1] = (8 * v[0] + d[1] - 48) % 256
    BY <1>4
  <2>2. 8 * 0 + (48 + x) - 48 = x /\ x % 256 = x
    OBVIOUS
  <2> QED
    BY <1>2, <1>5, <2>1, <2>2
<1>7. v[2] = 8 * x + y
  <2>1. v[2] = (8 * v[1] + d[2] - 48) % 256
    BY <1>4
  <2>2. PICK w \in 0 .. 255 : w = 8 * x + y
    OBVIOUS
  <2>3. 8 * x + (48 + y) - 48 = w /\ w % 256 = w
    BY <2>2
  <2> QED
    BY <1>2, <1>6, <2>1, <2>2, <2>3
<1>8. v[3] = 64 * x + 8 * y + z
  <2>1. v[3] = (8 * v[2] + d[3] - 48) % 256
    BY <1>4
  <2>2. PICK w \in 0 .. 255 : w = 64 * x + 8 * y + z
    OBVIOUS
  <2>3. 8 * (8 * x + y) + (48 + z) - 48 = w /\ w % 256 = w
    BY <2>2
  <2> QED
    BY <1>2, <1>7, <2>1, <2>2, <2>3
<1> QED
  BY <1>1, <1>2, <1>3, <1>8

\* A backslash and three digits.
LEMMA OctalDecoded ==
  ASSUME NEW b \in Byte, NEW t \in Bytes
  PROVE  Octal(b) \in Bytes /\ decodeOutput[Octal(b) \o t] = <<b>> \o decodeOutput[t]
<1>1. PICK x \in 0 .. 3, y \in 0 .. 7, z \in 0 .. 7 :
        /\ b \div 64 = x /\ (b \div 8) % 8 = y /\ b % 8 = z
        /\ b = 64 * x + 8 * y + z
  BY OctalDigits
<1>2. PICK e : e = <<Backslash, 48 + x, 48 + y, 48 + z>>
  OBVIOUS
<1>3. Octal(b) = e
  BY <1>1, <1>2 DEF Octal
<1>4. /\ e \in Bytes /\ Len(e) = 4 /\ e[1] = Backslash
      /\ e[2] = 48 + x /\ e[3] = 48 + y /\ e[4] = 48 + z
  <2>1. 48 + x \in 0 .. 255 /\ 48 + y \in 0 .. 255 /\ 48 + z \in 0 .. 255 /\ Backslash \in 0 .. 255
    BY DEF Backslash
  <2> QED
    BY <1>2, <2>1 DEF Bytes
<1>5. PICK s : s = e \o t
  OBVIOUS
<1>6. /\ s \in Bytes /\ s # <<>> /\ Head(s) = Backslash /\ Rest(s, 4) = t /\ Len(s) = 4 + Len(t)
      /\ \A i \in 1 .. 4 : s[i] = e[i]
  <2>1. Len(e) >= 1
    BY <1>4
  <2>2. /\ e \o t \in Bytes /\ Len(e \o t) = Len(e) + Len(t) /\ e \o t # <<>>
        /\ Head(e \o t) = e[1] /\ \A i \in 1 .. Len(e) : (e \o t)[i] = e[i]
        /\ Rest(e \o t, Len(e)) = t
    BY <1>4, <2>1, Leads
  <2> QED
    BY <1>4, <1>5, <2>2
<1>7. s[2] = 48 + x /\ s[3] = 48 + y /\ s[4] = 48 + z
  BY <1>4, <1>6
<1>8. Len(s) > 3 /\ Len(s) > 1 /\ Len(s) # 1
  <2>1. Len(t) \in Nat
    BY LenProperties DEF Bytes
  <2> QED
    BY <1>6, <2>1
<1>9. IsOctal(s[2]) /\ IsOctal(s[3]) /\ IsOctal(s[4])
  BY <1>7 DEF IsOctal
<1>10. OctalLength(s) = 3
  <2>1. Digits(s, 3)
    <3>1. \A j \in 2 .. 3 + 1 : j = 2 \/ j = 3 \/ j = 4
      OBVIOUS
    <3> QED
      BY <1>8, <1>9, <3>1 DEF Digits
  <2>2. OctalLength(s) \in 1 .. 3 /\ \A k \in 1 .. 3 : Digits(s, k) => k <= OctalLength(s)
    BY <1>6, <1>8, <1>9, OctalLengths
  <2> QED
    BY <2>1, <2>2
<1>11. SubSeq(s, 2, 4) = <<48 + x, 48 + y, 48 + z>>
  <2>1. PICK r : r = SubSeq(s, 2, 4)
    OBVIOUS
  <2>2. PICK d : d = <<48 + x, 48 + y, 48 + z>>
    OBVIOUS
  <2>3. d \in Seq(Int) /\ Len(d) = 3 /\ d[1] = s[2] /\ d[2] = s[3] /\ d[3] = s[4]
    BY <1>7, <2>2
  <2>4. \A i \in 2 .. 4 : s[i] \in Int
    <3>1. \A i \in 2 .. 4 : i = 2 \/ i = 3 \/ i = 4
      OBVIOUS
    <3> QED
      BY <1>7, <3>1
  <2>5. r \in Seq(Int) /\ Len(r) = 3 /\ \A i \in 1 .. 3 : r[i] = s[2 + i - 1]
    <3>1. /\ SubSeq(s, 2, 4) \in Seq(Int) /\ Len(SubSeq(s, 2, 4)) = (IF 2 <= 4 THEN 4 - 2 + 1 ELSE 0)
          /\ \A i \in 1 .. 4 - 2 + 1 : SubSeq(s, 2, 4)[i] = s[2 + i - 1]
      BY <2>4, SubSeqProperties
    <3> QED
      BY <2>1, <3>1
  <2>6. r[1] = s[2] /\ r[2] = s[3] /\ r[3] = s[4]
    BY <2>5
  <2>7. \A i \in 1 .. Len(r) : r[i] = d[i]
    <3>1. \A i \in 1 .. Len(r) : i = 1 \/ i = 2 \/ i = 3
      BY <2>5
    <3> QED
      BY <2>3, <2>6, <3>1
  <2>8. r = d
    BY <2>3, <2>5, <2>7, SeqEqual
  <2> QED
    BY <2>1, <2>2, <2>8
<1>12. OctalValue(SubSeq(s, 2, 4)) = b
  <2>1. OctalValue(<<48 + x, 48 + y, 48 + z>>) = 64 * x + 8 * y + z
    BY OctalRoundTrip
  <2> QED
    BY <1>1, <1>11, <2>1
<1>13. decodeOutput[s] = DecodeStep(decodeOutput, s)
  BY <1>6, DecodeEquation
<1>14. decodeOutput[s] = <<OctalValue(SubSeq(s, 2, 4))>> \o decodeOutput[Rest(s, 4)]
  <2>1. PICK k : k = 1 + OctalLength(s)
    OBVIOUS
  <2>2. k = 4
    BY <1>10, <2>1
  <2>3. decodeOutput[s] = <<OctalValue(SubSeq(s, 2, k))>> \o decodeOutput[Rest(s, k)]
    BY <1>6, <1>8, <1>9, <1>13, <2>1 DEF DecodeStep
  <2> QED
    BY <2>2, <2>3
<1> QED
  BY <1>3, <1>4, <1>5, <1>6, <1>12, <1>14

\* Whichever form tmux gives a byte.
LEMMA EscapeDecoded ==
  ASSUME NEW b \in Byte, NEW t \in Bytes, NEW style
  PROVE  /\ Escape(b, style) \in Bytes
         /\ decodeOutput[Escape(b, style) \o t] = <<b>> \o decodeOutput[t]
<1>1. CASE Plain(b, style)
  <2>1. b # Backslash /\ <<b>> \in Bytes
    BY <1>1 DEF Plain, Byte, Bytes, Backslash
  <2> QED
    BY <1>1, <2>1, OneDecoded DEF Escape
<1>2. CASE ~Plain(b, style) /\ (style = "octal" \/ (b # Backslash /\ b \notin Range(CEscape)))
  <2>1. Escape(b, style) = Octal(b)
    BY <1>2 DEF Escape
  <2> QED
    BY <2>1, OctalDecoded
<1>3. CASE ~Plain(b, style) /\ style # "octal" /\ b = Backslash
  <2>1. Escape(b, style) = <<Backslash, Backslash>>
    BY <1>3 DEF Escape
  <2>2. Backslash \in Byte /\ ~IsOctal(Backslash) /\ <<Backslash, Backslash>> \in Bytes
    BY DEF Backslash, IsOctal, Byte, Bytes
  <2> QED
    BY <1>3, <2>1, <2>2, PairDecoded
<1>4. CASE ~Plain(b, style) /\ style # "octal" /\ b # Backslash /\ b \in Range(CEscape)
  <2>1. Escape(b, style) = CStyle(b)
    BY <1>4 DEF Escape
  <2>2. PICK c : c = CHOOSE x \in DOMAIN CEscape : CEscape[x] = b
    OBVIOUS
  <2>3. c \in DOMAIN CEscape /\ CEscape[c] = b
    <3>1. \E x \in DOMAIN CEscape : CEscape[x] = b
      BY <1>4 DEF Range
    <3> QED
      BY <2>2, <3>1
  <2>4. c \in Byte /\ ~IsOctal(c) /\ c # Backslash /\ <<Backslash, c>> \in Bytes
    <3>1. c \in {97, 98, 102, 110, 114, 116, 118}
      BY <2>3 DEF CEscape
    <3> QED
      BY <3>1 DEF Byte, Bytes, IsOctal, Backslash
  <2>5. CStyle(b) = <<Backslash, c>>
    BY <2>2 DEF CStyle
  <2> QED
    <3>1. decodeOutput[<<Backslash, c>> \o t] = <<CEscape[c]>> \o decodeOutput[t]
      BY <2>3, <2>4, PairDecoded
    <3> QED
      BY <2>1, <2>3, <2>4, <2>5, <3>1
<1> QED
  BY <1>1, <1>2, <1>3, <1>4

-----------------------------------------------------------------------------
(***************************************************************************)
(* A whole string.                                                         *)
(***************************************************************************)
\* Encode appends the bytes one after the other.
LEMMA EscapesExist ==
  ASSUME NEW bytes \in Bytes, NEW style
  PROVE  \E e \in [0 .. Len(bytes) -> Bytes] :
           /\ e[0] = <<>> /\ Encode(bytes, style) = e[Len(bytes)]
           /\ \A i \in 1 .. Len(bytes) : e[i] = e[i - 1] \o Escape(bytes[i], style)
<1>1. PICK n \in Nat : n = Len(bytes)
  BY LenProperties DEF Bytes
<1>2. \A i \in 1 .. n : bytes[i] \in Byte
  BY <1>1, ElementOfSeq DEF Bytes, Byte
<1>3. PICK step : step = [p \in (1 .. n) \X Bytes |-> p[2] \o Escape(bytes[p[1]], style)]
  OBVIOUS
<1>4. step \in [(1 .. n) \X Bytes -> Bytes]
  <2>1. ASSUME NEW i \in 1 .. n, NEW s \in Bytes
        PROVE  s \o Escape(bytes[i], style) \in Bytes
    <3>1. bytes[i] \in Byte /\ <<>> \in Bytes
      BY <1>2, EmptySeq DEF Bytes
    <3>2. Escape(bytes[i], style) \in Bytes
      BY <3>1, EscapeDecoded
    <3> QED
      BY <3>2, ConcatProperties DEF Bytes
  <2>2. ASSUME NEW p \in (1 .. n) \X Bytes
        PROVE  p[2] \o Escape(bytes[p[1]], style) \in Bytes
    BY <2>1
  <2> QED
    BY <1>3, <2>2
<1>5. PICK e \in [0 .. n -> Bytes] : Repeats(e, <<>>, step, n)
  <2>1. <<>> \in Bytes
    BY EmptySeq DEF Bytes
  <2> QED
    BY <1>4, <2>1, Recursion
<1>6. ASSUME NEW i \in 1 .. n
      PROVE  e[i] = e[i - 1] \o Escape(bytes[i], style)
  <2>1. i - 1 \in 0 .. n
    OBVIOUS
  <2>2. <<i, e[i - 1]>> \in (1 .. n) \X Bytes
    BY <1>5, <2>1
  <2>3. e[i] = step[<<i, e[i - 1]>>]
    BY <1>5 DEF Repeats
  <2> QED
    BY <1>3, <2>2, <2>3
<1>7. Escapes(e, bytes, style)
  <2>1. e[0] = <<>>
    BY <1>5 DEF Repeats
  <2>2. \A i \in 0 .. n : i = 0 \/ i \in 1 .. n
    OBVIOUS
  <2>3. \A i \in 0 .. n : e[i] = IF i = 0 THEN <<>> ELSE e[i - 1] \o Escape(bytes[i], style)
    BY <1>6, <2>1, <2>2
  <2> QED
    BY <1>1, <1>5, <2>3 DEF Escapes
<1>8. PICK w : w = CHOOSE v : Escapes(v, bytes, style)
  OBVIOUS
<1>9. Escapes(w, bytes, style)
  BY <1>7, <1>8
<1>10. Encode(bytes, style) = w[n]
  BY <1>1, <1>8 DEF Encode, Escapes
<1>11. w[0] = <<>> /\ \A i \in 1 .. n : w[i] = w[i - 1] \o Escape(bytes[i], style)
  <2>1. \A i \in 0 .. n : w[i] = IF i = 0 THEN <<>> ELSE w[i - 1] \o Escape(bytes[i], style)
    BY <1>1, <1>9 DEF Escapes
  <2>2. 0 \in 0 .. n /\ \A i \in 1 .. n : i \in 0 .. n /\ i # 0
    OBVIOUS
  <2> QED
    BY <2>1, <2>2
<1>12. w \in [0 .. n -> Bytes]
  <2>1. PICK T : T = {i \in Nat : i <= n => w[i] = e[i]}
    OBVIOUS
  <2>2. 0 \in T
    BY <1>5, <1>11, <2>1 DEF Repeats
  <2>3. ASSUME NEW i \in Nat, i \in T
        PROVE  i + 1 \in T
    <3>1. ASSUME i + 1 <= n
          PROVE  w[i + 1] = e[i + 1]
      <4>1. PICK k \in 1 .. n : k = i + 1
        BY <3>1
      <4>2. k - 1 = i /\ i <= n
        BY <4>1
      <4>3. w[i] = e[i]
        BY <2>1, <2>3, <4>2
      <4>4. w[k] = e[k]
        BY <1>6, <1>11, <4>2, <4>3
      <4> QED
        BY <4>1, <4>4
    <3> QED
      BY <2>1, <3>1
  <2>4. \A i \in Nat : i \in T
    BY <2>2, <2>3, Induction
  <2>5. \A i \in 0 .. n : w[i] = e[i]
    BY <2>1, <2>4
  <2>6. DOMAIN w = 0 .. n /\ w = [i \in DOMAIN w |-> w[i]]
    <3>1. w = [i \in 0 .. n |-> IF i = 0 THEN <<>> ELSE w[i - 1] \o Escape(bytes[i], style)]
      BY <1>1, <1>9 DEF Escapes
    <3> QED
      BY <3>1
  <2> QED
    BY <1>5, <2>5, <2>6
<1> QED
  BY <1>1, <1>10, <1>11, <1>12

\* The bytes a pane wrote are the bytes that decodeOutput reads, whichever of
\* its escapes tmux chose: "unescaping happens exactly once".
THEOREM EncodedIsDecoded ==
  ASSUME NEW bytes \in Bytes, NEW style
  PROVE  Encode(bytes, style) \in Bytes /\ decodeOutput[Encode(bytes, style)] = bytes
<1>1. PICK n \in Nat : n = Len(bytes)
  BY LenProperties DEF Bytes
<1>2. PICK e \in [0 .. n -> Bytes] :
        /\ e[0] = <<>> /\ Encode(bytes, style) = e[n]
        /\ \A i \in 1 .. n : e[i] = e[i - 1] \o Escape(bytes[i], style)
  BY <1>1, EscapesExist
<1>3. n \in 0 .. n /\ e[n] \in Bytes
  BY <1>2
<1>4. PICK T : T = {i \in Nat : i <= n => \A t \in Bytes :
                      decodeOutput[e[i] \o t] = SubSeq(bytes, 1, i) \o decodeOutput[t]}
  OBVIOUS
<1>5. 0 \in T
  <2>1. ASSUME NEW t \in Bytes
        PROVE  decodeOutput[e[0] \o t] = SubSeq(bytes, 1, 0) \o decodeOutput[t]
    <3>1. SubSeq(bytes, 1, 0) = <<>>
      BY SubSeqEmpty
    <3>2. decodeOutput[t] \in Seq(0 .. 255) /\ t \in Seq(0 .. 255)
      BY DecodeType DEF Bytes
    <3>3. <<>> \o t = t /\ <<>> \o decodeOutput[t] = decodeOutput[t]
      BY <3>2, ConcatEmptySeq
    <3> QED
      BY <1>2, <3>1, <3>3
  <2> QED
    BY <1>4, <2>1
<1>6. ASSUME NEW i \in Nat, i \in T
      PROVE  i + 1 \in T
  <2> SUFFICES ASSUME i + 1 <= n, NEW t \in Bytes
               PROVE  decodeOutput[e[i + 1] \o t] = SubSeq(bytes, 1, i + 1) \o decodeOutput[t]
    BY <1>4
  <2>1. PICK k \in 1 .. n : k = i + 1
    OBVIOUS
  <2>2. k - 1 = i /\ i <= n /\ i \in 0 .. n
    BY <2>1
  <2>3. bytes[k] \in Byte
    BY <1>1, ElementOfSeq DEF Bytes, Byte
  <2>4. PICK x : x = Escape(bytes[k], style)
    OBVIOUS
  <2>5. x \in Bytes /\ decodeOutput[x \o t] = <<bytes[k]>> \o decodeOutput[t]
    BY <2>3, <2>4, EscapeDecoded
  <2>6. e[i] \in Bytes /\ x \o t \in Bytes
    BY <1>2, <2>2, <2>5, ConcatProperties DEF Bytes
  <2>7. e[k] \o t = e[i] \o (x \o t)
    <3>1. e[k] = e[i] \o x
      BY <1>2, <2>2, <2>4
    <3>2. PICK y : y = e[i]
      OBVIOUS
    <3>3. y \in Seq(0 .. 255) /\ x \in Seq(0 .. 255) /\ t \in Seq(0 .. 255)
      BY <2>5, <2>6, <3>2 DEF Bytes
    <3>4. (y \o x) \o t = y \o (x \o t)
      BY <3>3, ConcatAssociative
    <3> QED
      BY <3>1, <3>2, <3>4
  <2>8. decodeOutput[e[i] \o (x \o t)] = SubSeq(bytes, 1, i) \o decodeOutput[x \o t]
    BY <1>4, <1>6, <2>2, <2>6
  <2>9. SubSeq(bytes, 1, i) \in Bytes
    <3>1. \A j \in 1 .. i : bytes[j] \in 0 .. 255
      <4>1. \A j \in 1 .. i : j \in 1 .. Len(bytes)
        BY <1>1, <2>2
      <4> QED
        BY <4>1, ElementOfSeq DEF Bytes
    <3> QED
      BY <3>1, SubSeqProperties DEF Bytes
  <2>10. SubSeq(bytes, 1, k) = SubSeq(bytes, 1, i) \o <<bytes[k]>>
    <3>1. 1 \in 1 .. Len(bytes) /\ k \in 1 .. Len(bytes)
      BY <1>1, <2>1
    <3>2. SubSeq(bytes, 1, k) = SubSeq(bytes, 1, k - 1) \o <<bytes[k]>>
      BY <3>1, SubSeqRecursiveSecond DEF Bytes
    <3> QED
      BY <2>2, <3>2
  <2>11. <<bytes[k]>> \in Bytes /\ decodeOutput[t] \in Bytes
    BY <2>3, DecodeType DEF Bytes, Byte
  <2>12. SubSeq(bytes, 1, i) \o (<<bytes[k]>> \o decodeOutput[t]) = SubSeq(bytes, 1, k) \o decodeOutput[t]
    <3>1. PICK y : y = SubSeq(bytes, 1, i)
      OBVIOUS
    <3>2. PICK z : z = <<bytes[k]>>
      OBVIOUS
    <3>3. PICK d : d = decodeOutput[t]
      OBVIOUS
    <3>4. y \in Seq(0 .. 255) /\ z \in Seq(0 .. 255) /\ d \in Seq(0 .. 255)
      BY <2>9, <2>11, <3>1, <3>2, <3>3 DEF Bytes
    <3>5. (y \o z) \o d = y \o (z \o d)
      BY <3>4, ConcatAssociative
    <3> QED
      BY <2>10, <3>1, <3>2, <3>3, <3>5
  <2> QED
    BY <2>1, <2>5, <2>7, <2>8, <2>12
<1>7. n \in T
  <2>1. \A i \in Nat : i \in T
    BY <1>5, <1>6, Induction
  <2> QED
    BY <2>1
<1>8. <<>> \in Bytes /\ decodeOutput[<<>>] = <<>>
  <2>1. <<>> \in Bytes
    BY EmptySeq DEF Bytes
  <2> QED
    BY <2>1, DecodeEquation DEF DecodeStep
<1>9. decodeOutput[e[n] \o <<>>] = SubSeq(bytes, 1, n) \o <<>>
  <2>1. n <= n => \A t \in Bytes : decodeOutput[e[n] \o t] = SubSeq(bytes, 1, n) \o decodeOutput[t]
    BY <1>4, <1>7
  <2>2. decodeOutput[e[n] \o <<>>] = SubSeq(bytes, 1, n) \o decodeOutput[<<>>]
    BY <1>8, <2>1
  <2> QED
    BY <1>8, <2>2
<1>10. SubSeq(bytes, 1, n) = bytes /\ bytes \o <<>> = bytes /\ e[n] \o <<>> = e[n]
  BY <1>1, <1>3, SubSeqFull, ConcatEmptySeq DEF Bytes
<1> QED
  BY <1>2, <1>3, <1>9, <1>10

\* The first delimiter of an extended line is the one tmux wrote, whatever the
\* bytes after it are.
LEMMA ExtendedIsSplit ==
  ASSUME NEW x \in Bytes
  PROVE  splitExtendedOutput(<<48>> \o Delimiter \o x) = x
<1>1. PICK e : e = <<48>> \o Delimiter
  OBVIOUS
<1>2. Delimiter \in Seq(0 .. 255) /\ Len(Delimiter) = 3
      /\ Delimiter[1] = 32 /\ Delimiter[2] = 58 /\ Delimiter[3] = 32
  BY DEF Delimiter
<1>3. e \in Bytes /\ Len(e) = 4 /\ e[1] = 48 /\ e[2] = 32 /\ e[3] = 58 /\ e[4] = 32
  <2>1. PICK a : a = <<48>>
    OBVIOUS
  <2>2. a \in Seq(0 .. 255) /\ Len(a) = 1 /\ a[1] = 48
    BY <2>1
  <2>3. PICK d : d = Delimiter
    OBVIOUS
  <2>4. /\ a \o d \in Seq(0 .. 255) /\ Len(a \o d) = 1 + 3
        /\ \A i \in 1 .. 1 + 3 : (a \o d)[i] = IF i <= 1 THEN a[i] ELSE d[i - 1]
    <3>1. d \in Seq(0 .. 255) /\ Len(d) = 3
      BY <1>2, <2>3
    <3>2. PICK B : B = 0 .. 255
      OBVIOUS
    <3>3. a \in Seq(B) /\ d \in Seq(B)
      BY <2>2, <3>1, <3>2
    <3>4. PICK c : c = a \o d
      OBVIOUS
    <3>5. /\ c \in Seq(B) /\ Len(c) = Len(a) + Len(d)
          /\ \A i \in 1 .. Len(a) + Len(d) : c[i] = IF i <= Len(a) THEN a[i] ELSE d[i - Len(a)]
      BY <3>3, <3>4, ConcatProperties
    <3>6. Len(a) = 1 /\ Len(d) = 3
      BY <2>2, <3>1
    <3> QED
      BY <3>2, <3>4, <3>5, <3>6
  <2>5. e \in Seq(0 .. 255) /\ Len(e) = 4 /\ e[1] = a[1] /\ e[2] = d[1] /\ e[3] = d[2] /\ e[4] = d[3]
    BY <1>1, <2>1, <2>3, <2>4
  <2> QED
    BY <1>2, <2>2, <2>3, <2>5 DEF Bytes
<1>4. PICK s : s = e \o x
  OBVIOUS
<1>5. /\ s \in Bytes /\ Len(s) = 4 + Len(x) /\ Rest(s, 4) = x
      /\ \A i \in 1 .. 4 : s[i] = e[i]
  <2>1. Len(e) >= 1
    BY <1>3
  <2>2. /\ e \o x \in Bytes /\ Len(e \o x) = Len(e) + Len(x)
        /\ \A i \in 1 .. Len(e) : (e \o x)[i] = e[i]
        /\ Rest(e \o x, Len(e)) = x
    BY <1>3, <2>1, Leads
  <2> QED
    BY <1>3, <1>4, <2>2
<1>6. s[1] = 48 /\ s[2] = 32 /\ s[3] = 58 /\ s[4] = 32
  BY <1>3, <1>5
<1>7. PICK n \in Nat : n = Len(s) /\ n >= 4
  <2>1. Len(x) \in Nat
    BY LenProperties DEF Bytes
  <2> QED
    BY <1>5, <2>1
<1>8. ASSUME NEW i \in 1 .. n - 2
      PROVE  /\ SubSeq(s, i, i + 2) \in Seq(0 .. 255) /\ Len(SubSeq(s, i, i + 2)) = 3
             /\ SubSeq(s, i, i + 2)[1] = s[i] /\ SubSeq(s, i, i + 2)[2] = s[i + 1]
             /\ SubSeq(s, i, i + 2)[3] = s[i + 2]
  <2>1. i \in Int /\ i + 2 \in Int /\ i <= i + 2 /\ i + 2 - i + 1 = 3
    OBVIOUS
  <2>2. \A j \in i .. i + 2 : s[j] \in 0 .. 255
    <3>1. \A j \in i .. i + 2 : j \in 1 .. Len(s)
      BY <1>7
    <3>2. \A j \in 1 .. Len(s) : s[j] \in 0 .. 255
      <4>1. s \in Seq(0 .. 255)
        BY <1>5 DEF Bytes
      <4> QED
        BY <4>1, ElementOfSeq, Zenon
    <3> QED
      BY <3>1, <3>2
  <2>3. PICK r : r = SubSeq(s, i, i + 2)
    OBVIOUS
  <2>4. r \in Seq(0 .. 255) /\ Len(r) = 3 /\ \A j \in 1 .. 3 : r[j] = s[i + j - 1]
    <3>1. PICK m \in Int : m = i + 2
      BY <2>1
    <3>2. /\ SubSeq(s, i, m) \in Seq(0 .. 255)
          /\ Len(SubSeq(s, i, m)) = (IF i <= m THEN m - i + 1 ELSE 0)
          /\ \A j \in 1 .. m - i + 1 : SubSeq(s, i, m)[j] = s[i + j - 1]
      BY <2>1, <2>2, <3>1, SubSeqProperties
    <3>3. i <= m /\ m - i + 1 = 3
      BY <3>1
    <3> QED
      BY <2>3, <3>1, <3>2, <3>3
  <2>5. i + 1 - 1 = i /\ i + 2 - 1 = i + 1 /\ i + 3 - 1 = i + 2
    OBVIOUS
  <2>6. r[1] = s[i] /\ r[2] = s[i + 1] /\ r[3] = s[i + 2]
    BY <2>4, <2>5
  <2> QED
    BY <2>3, <2>4, <2>6
<1>10. PICK at : at = {i \in 1 .. n - 2 : SubSeq(s, i, i + 2) = Delimiter}
  OBVIOUS
<1>11. 2 \in at
  <2>1. 2 \in 1 .. n - 2
    BY <1>7
  <2>2. PICK r : r = SubSeq(s, 2, 2 + 2)
    OBVIOUS
  <2>3. r \in Seq(0 .. 255) /\ Len(r) = 3 /\ r[1] = s[2] /\ r[2] = s[2 + 1] /\ r[3] = s[2 + 2]
    BY <1>8, <2>1, <2>2
  <2>4. r[1] = 32 /\ r[2] = 58 /\ r[3] = 32
    BY <1>6, <2>3
  <2>5. \A i \in 1 .. Len(r) : r[i] = Delimiter[i]
    <3>1. \A i \in 1 .. Len(r) : i = 1 \/ i = 2 \/ i = 3
      BY <2>3
    <3> QED
      BY <1>2, <2>4, <3>1
  <2>6. r = Delimiter
    BY <1>2, <2>3, <2>5, SeqEqual
  <2> QED
    BY <1>10, <2>1, <2>2, <2>6
<1>12. 1 \notin at
  <2>1. 1 \in 1 .. n - 2
    BY <1>7
  <2>2. SubSeq(s, 1, 1 + 2)[1] = 48
    BY <1>6, <1>8, <2>1
  <2> QED
    BY <1>2, <1>10, <2>2
<1>13. Min(at) = 2
  <2>1. \A i \in at : i \in Nat /\ 2 <= i
    BY <1>10, <1>12
  <2>2. PICK m : m = Min(at)
    OBVIOUS
  <2>3. m \in at /\ \A y \in at : m <= y
    BY <1>11, <2>1, <2>2 DEF Min
  <2>4. m <= 2 /\ 2 <= m /\ m \in Nat
    BY <1>11, <2>1, <2>3
  <2> QED
    BY <2>2, <2>4
<1>14. splitExtendedOutput(s) = SubSeq(s, Min(at) + 3, Len(s))
  BY <1>7, <1>10, <1>11 DEF splitExtendedOutput
<1>15. SubSeq(s, Min(at) + 3, Len(s)) = Rest(s, 4)
  <2>1. Min(at) + 3 = 4 + 1
    BY <1>13
  <2> QED
    BY <2>1 DEF Rest
<1> QED
  BY <1>1, <1>4, <1>5, <1>14, <1>15
=============================================================================
