----------------------------- MODULE EpochsProof ----------------------------
(***************************************************************************)
(* Proofs about the trainer's loops over any datasets: an epoch hands the  *)
(* network every input with its own target, and ends after as many         *)
(* patterns as its mode says.                                              *)
(***************************************************************************)
EXTENDS Epochs, TLAPS, FiniteSetTheorems, WellFoundedInduction

-----------------------------------------------------------------------------
(***************************************************************************)
(* Functions that a turn after another makes                               *)
(***************************************************************************)
\* A set of numbers with 0 and all that come next has all the numbers up to m.
LEMMA Upwards ==
    ASSUME NEW m \in Nat, NEW S, 0 \in S, \A k \in 0 .. m - 1 : k \in S => k + 1 \in S
    PROVE  \A k \in 0 .. m : k \in S
<1> SUFFICES ASSUME \E k \in 0 .. m : k \notin S PROVE FALSE
  OBVIOUS
<1>1. IsWellFoundedOn(StrictSubsetOrdering(Nat), FiniteSubsetsOf(Nat))
  BY FS_StrictSubsetOrderingWellFounded
<1>2. PICK U : U = {1 .. k : k \in {j \in 0 .. m : j \notin S}}
  OBVIOUS
<1>3. U \subseteq FiniteSubsetsOf(Nat) /\ U # {}
  <2>1. ASSUME NEW k \in 0 .. m
        PROVE  1 .. k \in FiniteSubsetsOf(Nat)
    <3>1. IsFiniteSet(1 .. k)
      BY FS_Interval
    <3>2. 1 .. k \in SUBSET Nat
      OBVIOUS
    <3>3. QED
      BY <3>1, <3>2 DEF FiniteSubsetsOf
  <2>2. QED
    BY <1>2, <2>1
<1>4. PICK x \in U : \A y \in U : ~ (<<y, x>> \in StrictSubsetOrdering(Nat))
  BY <1>1, <1>3, WFMin
<1>5. PICK k \in 0 .. m : k \notin S /\ x = 1 .. k
  BY <1>2
<1>6. PICK j : j = k - 1 /\ j \in 0 .. m - 1 /\ k = j + 1
  <2>1. k # 0
    BY <1>5
  <2>2. QED
    BY <2>1
<1>7. j \notin S /\ j \in 0 .. m
  BY <1>5, <1>6
<1>8. 1 .. j \in U
  BY <1>2, <1>7
<1>9. <<1 .. j, 1 .. k>> \in StrictSubsetOrdering(Nat)
  <2>1. 1 .. j \in SUBSET Nat /\ 1 .. k \in SUBSET Nat /\ 1 .. j \subseteq 1 .. k
    BY <1>6
  <2>2. k \in 1 .. k /\ k \notin 1 .. j
    BY <1>6
  <2>3. QED
    BY <2>1, <2>2 DEF StrictSubsetOrdering
<1>10. QED
  BY <1>4, <1>5, <1>8, <1>9

\* f begins with a and takes step g at every turn.
Turns(m, V, a, g, f) ==
    f \in [0 .. m -> V] /\ f[0] = a /\ \A k \in 1 .. m : f[k] = g[<<k, f[k - 1]>>]

LEMMA TurnsExist ==
    ASSUME NEW m \in Nat, NEW V, NEW a \in V, NEW g,
           \A k \in 1 .. m, x \in V : g[<<k, x>>] \in V
    PROVE  \E f : Turns(m, V, a, g, f)
<1>1. PICK S : S = {k \in Nat : \E f : Turns(k, V, a, g, f)}
  OBVIOUS
<1>2. 0 \in S
  <2>1. PICK f : f = [i \in 0 .. 0 |-> a]
    OBVIOUS
  <2>2. Turns(0, V, a, g, f)
    BY <2>1 DEF Turns
  <2>3. QED
    BY <1>1, <2>2
<1>3. ASSUME NEW k \in 0 .. m - 1, k \in S
      PROVE  k + 1 \in S
  <2>1. PICK f : Turns(k, V, a, g, f)
    BY <1>1, <1>3
  <2>2. PICK h : h = [i \in 0 .. k + 1 |-> IF i = k + 1 THEN g[<<k + 1, f[k]>>] ELSE f[i]]
    OBVIOUS
  <2>3. f \in [0 .. k -> V] /\ k \in 0 .. k /\ k + 1 \in 1 .. m
    BY <2>1 DEF Turns
  <2>4. g[<<k + 1, f[k]>>] \in V
    BY <2>3
  <2>5. h \in [0 .. k + 1 -> V]
    <3>1. ASSUME NEW i \in 0 .. k + 1 PROVE (IF i = k + 1 THEN g[<<k + 1, f[k]>>] ELSE f[i]) \in V
      <4>1. i # k + 1 => i \in 0 .. k
        OBVIOUS
      <4>2. QED
        BY <4>1, <2>3, <2>4
    <3>2. QED
      BY <2>2, <3>1
  <2>6. h[0] = a
    BY <2>1, <2>2 DEF Turns
  <2>7. ASSUME NEW i \in 1 .. k + 1 PROVE h[i] = g[<<i, h[i - 1]>>]
    <3>1. i - 1 \in 0 .. k /\ i - 1 # k + 1 /\ i - 1 \in 0 .. k + 1
      OBVIOUS
    <3>2. h[i - 1] = f[i - 1]
      BY <2>2, <3>1
    <3>3. CASE i = k + 1
      <4>1. h[i] = g[<<k + 1, f[k]>>] /\ i - 1 = k
        BY <2>2, <3>3
      <4>2. QED
        BY <3>2, <3>3, <4>1
    <3>4. CASE i # k + 1
      <4>1. i \in 1 .. k /\ h[i] = f[i]
        BY <2>2, <3>4
      <4>2. f[i] = g[<<i, f[i - 1]>>]
        BY <2>1, <4>1 DEF Turns
      <4>3. QED
        BY <3>2, <4>1, <4>2
    <3>5. QED
      BY <3>3, <3>4
  <2>8. Turns(k + 1, V, a, g, h)
    BY <2>5, <2>6, <2>7 DEF Turns
  <2>9. QED
    BY <1>1, <2>8
<1>4. m \in S
  BY <1>2, <1>3, Upwards
<1>5. QED
  BY <1>1, <1>4
-----------------------------------------------------------------------------
LEMMA SumsFacts ==
    ASSUME NEW n, NEW m \in Nat, Len(n) = m, \A i \in 1 .. m : n[i] \in Nat
    PROVE  /\ Sums(n) \in [0 .. m -> Nat] /\ Sums(n)[0] = 0
           /\ \A k \in 1 .. m : Sums(n)[k] = Sums(n)[k - 1] + n[k]
<1> DEFINE Are(d) == d = [i \in 0 .. Len(n) |-> IF i = 0 THEN 0 ELSE d[i - 1] + n[i]]
<1>1. PICK g : g = [p \in (1 .. m) \X Nat |-> p[2] + n[p[1]]]
  OBVIOUS
<1>2. ASSUME NEW k \in 1 .. m, NEW x \in Nat PROVE g[<<k, x>>] = x + n[k] /\ g[<<k, x>>] \in Nat
  BY <1>1
<1>3. PICK f : Turns(m, Nat, 0, g, f)
  BY <1>2, TurnsExist
<1>4. f \in [0 .. m -> Nat]
  BY <1>3 DEF Turns
<1>5. ASSUME NEW i \in 0 .. m PROVE f[i] = IF i = 0 THEN 0 ELSE f[i - 1] + n[i]
  <2>1. CASE i = 0
    BY <1>3, <2>1 DEF Turns
  <2>2. CASE i # 0
    <3>1. i \in 1 .. m /\ f[i - 1] \in Nat
      BY <1>4, <2>2
    <3>2. f[i] = g[<<i, f[i - 1]>>]
      BY <1>3, <3>1 DEF Turns
    <3>3. QED
      BY <1>2, <2>2, <3>1, <3>2
  <2>3. QED
    BY <2>1, <2>2
<1>6. Are(f)
  BY <1>4, <1>5
<1>7. PICK d : d = CHOOSE e : Are(e)
  OBVIOUS
<1>8. Are(d)
  BY <1>6, <1>7
<1>9. Sums(n) = d
  BY <1>7 DEF Sums
<1>10. d[0] = 0 /\ \A k \in 1 .. m : d[k] = d[k - 1] + n[k]
  <2>1. d[0] = 0
    BY <1>8
  <2>2. ASSUME NEW k \in 1 .. m PROVE d[k] = d[k - 1] + n[k]
    BY <1>8
  <2>3. QED
    BY <2>1, <2>2
<1>11. DOMAIN d = 0 .. m
  BY <1>8
<1>12. \A k \in 0 .. m : d[k] \in Nat
  <2>1. PICK S : S = {k \in 0 .. m : d[k] \in Nat}
    OBVIOUS
  <2>2. 0 \in S
    BY <1>10, <2>1
  <2>3. ASSUME NEW k \in 0 .. m - 1, k \in S PROVE k + 1 \in S
    <3>1. k + 1 \in 1 .. m /\ d[k] \in Nat /\ (k + 1) - 1 = k /\ n[k + 1] \in Nat
      BY <2>1, <2>3
    <3>2. d[k + 1] = d[k] + n[k + 1]
      BY <1>10, <3>1
    <3>3. QED
      BY <2>1, <3>1, <3>2
  <2>4. QED
    BY <2>1, <2>2, <2>3, Upwards
<1>13. d \in [0 .. m -> Nat]
  <2>1. d = [i \in 0 .. m |-> d[i]]
    BY <1>8
  <2>2. QED
    BY <1>12, <2>1
<1>14. QED
  BY <1>9, <1>10, <1>13
-----------------------------------------------------------------------------
(***************************************************************************)
(* A sequence of sequences put together                                    *)
(***************************************************************************)
\* f[k] is what the first k of s make.
Joined(S, s, f) ==
    /\ f \in [0 .. Len(s) -> Seq(S)] /\ f[0] = <<>>
    /\ \A k \in 1 .. Len(s) : f[k] = f[k - 1] \o s[k]

LEMMA JoinedExists ==
    ASSUME NEW S, NEW s \in Seq(Seq(S))
    PROVE  \E f : Joined(S, s, f)
<1>1. PICK m \in Nat : m = Len(s)
  OBVIOUS
<1>2. PICK V : V = Seq(S)
  OBVIOUS
<1>3. PICK g : g = [p \in (1 .. m) \X V |-> p[2] \o s[p[1]]]
  OBVIOUS
<1>4. ASSUME NEW k \in 1 .. m, NEW x \in V PROVE g[<<k, x>>] = x \o s[k]
  BY <1>3
<1>5. ASSUME NEW k \in 1 .. m, NEW x \in V PROVE g[<<k, x>>] \in V
  <2>1. s[k] \in Seq(S) /\ x \in Seq(S)
    BY <1>1, <1>2
  <2>2. x \o s[k] \in Seq(S)
    BY <2>1
  <2>3. QED
    BY <1>2, <1>4, <2>2
<1>6. <<>> \in V
  BY <1>2
<1>7. PICK f : Turns(m, V, <<>>, g, f)
  BY <1>5, <1>6, TurnsExist
<1>8. f \in [0 .. m -> V] /\ f[0] = <<>>
  BY <1>7 DEF Turns
<1>9. ASSUME NEW k \in 1 .. m PROVE f[k] = f[k - 1] \o s[k]
  <2>1. f[k - 1] \in V
    BY <1>8
  <2>2. f[k] = g[<<k, f[k - 1]>>]
    BY <1>7 DEF Turns
  <2>3. QED
    BY <1>4, <2>1, <2>2
<1>10. QED
  BY <1>1, <1>2, <1>8, <1>9 DEF Joined

LEMMA NoneIsEmpty ==
    ASSUME NEW W, NEW s \in Seq(W), Len(s) = 0
    PROVE  s = <<>>
OBVIOUS

LEMMA FlattenIs ==
    ASSUME NEW S, NEW s \in Seq(Seq(S)), NEW f, Joined(S, s, f)
    PROVE  FlattenSeq(s) = f[Len(s)]
<1>1. PICK m \in Nat : m = Len(s)
  OBVIOUS
<1>2. CASE m = 0
  <2>1. s = <<>>
    BY <1>1, <1>2, NoneIsEmpty
  <2>2. FlattenSeq(s) = s
    BY <1>1, <1>2 DEF FlattenSeq
  <2>3. f[0] = <<>>
    BY DEF Joined
  <2>4. QED
    BY <1>1, <1>2, <2>1, <2>2, <2>3
<1>3. CASE m # 0
  <2> DEFINE Is(h) == h = [i \in 1 .. Len(s) |-> IF i = 1 THEN s[i] ELSE h[i - 1] \o s[i]]
  <2>1. PICK e : e = [i \in 1 .. m |-> f[i]]
    OBVIOUS
  <2>2. ASSUME NEW i \in 1 .. m PROVE e[i] = IF i = 1 THEN s[i] ELSE e[i - 1] \o s[i]
    <3>1. e[i] = f[i] /\ f[i] = f[i - 1] \o s[i] /\ s[i] \in Seq(S)
      <4>1. e[i] = f[i] /\ i \in 1 .. Len(s)
        BY <1>1, <2>1
      <4>2. f[i] = f[i - 1] \o s[i]
        BY <4>1 DEF Joined
      <4>3. s[i] \in Seq(S)
        BY <4>1
      <4>4. QED
        BY <4>1, <4>2, <4>3
    <3>2. CASE i = 1
      <4>1. f[i - 1] = <<>>
        BY <3>2 DEF Joined
      <4>2. <<>> \o s[i] = s[i]
        BY <3>1
      <4>3. QED
        BY <3>1, <3>2, <4>1, <4>2
    <3>3. CASE i # 1
      <4>1. e[i - 1] = f[i - 1]
        BY <2>1, <3>3
      <4>2. QED
        BY <3>1, <3>3, <4>1
    <3>4. QED
      BY <3>2, <3>3
  <2>3. e = [i \in 1 .. m |-> e[i]]
    BY <2>1
  <2>4. Is(e)
    BY <1>1, <2>2, <2>3
  <2>5. PICK h : h = CHOOSE x : Is(x)
    OBVIOUS
  <2>6. Is(h)
    BY <2>4, <2>5
  <2>7. FlattenSeq(s) = h[m]
    BY <1>1, <1>3, <2>5 DEF FlattenSeq
  <2>8. ASSUME NEW i \in 1 .. m PROVE h[i] = IF i = 1 THEN s[i] ELSE h[i - 1] \o s[i]
    BY <1>1, <2>6
  <2>9. PICK T : T = {k \in 0 .. m : k # 0 => h[k] = e[k]}
    OBVIOUS
  <2>10. ASSUME NEW k \in 0 .. m - 1, k \in T PROVE k + 1 \in T
    <3>1. k + 1 \in 1 .. m /\ (k + 1) - 1 = k /\ k + 1 \in 0 .. m
      OBVIOUS
    <3>2. CASE k = 0
      BY <2>2, <2>8, <2>9, <3>1, <3>2
    <3>3. CASE k # 0
      <4>1. h[k] = e[k]
        BY <2>9, <2>10, <3>3
      <4>2. k + 1 # 1
        BY <3>3
      <4>3. h[k + 1] = h[k] \o s[k + 1]
        BY <2>8, <3>1, <4>2
      <4>4. e[k + 1] = e[k] \o s[k + 1]
        BY <2>2, <3>1, <4>2
      <4>5. QED
        BY <2>9, <3>1, <4>1, <4>3, <4>4
    <3>4. QED
      BY <3>2, <3>3
  <2>11. 0 \in T
    BY <2>9
  <2>12. m \in T
    <3>1. \A k \in 0 .. m : k \in T
      BY <2>10, <2>11, Upwards
    <3>2. QED
      BY <3>1
  <2>13. h[m] = e[m] /\ e[m] = f[m]
    BY <1>3, <2>1, <2>9, <2>12
  <2>14. QED
    BY <1>1, <2>7, <2>13
<1>4. QED
  BY <1>2, <1>3

\* One more at the end.
LEMMA FlattenAppend ==
    ASSUME NEW S, NEW s \in Seq(Seq(S)), NEW x \in Seq(S)
    PROVE  /\ FlattenSeq(s) \in Seq(S)
           /\ FlattenSeq(Append(s, x)) = FlattenSeq(s) \o x
<1>1. PICK m \in Nat : m = Len(s)
  OBVIOUS
<1>2. PICK f : Joined(S, s, f)
  BY JoinedExists
<1>3. FlattenSeq(s) = f[m] /\ f[m] \in Seq(S)
  <2>1. f \in [0 .. m -> Seq(S)]
    BY <1>1, <1>2 DEF Joined
  <2>2. QED
    BY <1>1, <1>2, <2>1, FlattenIs
<1>4. PICK t : t = Append(s, x)
  OBVIOUS
<1>5. t \in Seq(Seq(S)) /\ Len(t) = m + 1 /\ t[m + 1] = x /\ \A i \in 1 .. m : t[i] = s[i]
  BY <1>1, <1>4
<1>6. PICK h : h = [i \in 0 .. m + 1 |-> IF i = m + 1 THEN f[m] \o x ELSE f[i]]
  OBVIOUS
<1>7. h[m + 1] = f[m] \o x /\ \A i \in 0 .. m : h[i] = f[i]
  BY <1>6
<1>8. h \in [0 .. m + 1 -> Seq(S)]
  <2>1. ASSUME NEW i \in 0 .. m + 1 PROVE h[i] \in Seq(S)
    <3>1. CASE i = m + 1
      <4>1. f[m] \o x \in Seq(S)
        BY <1>3
      <4>2. QED
        BY <1>7, <3>1, <4>1
    <3>2. CASE i # m + 1
      <4>1. i \in 0 .. m /\ h[i] = f[i]
        BY <1>7, <3>2
      <4>2. f[i] \in Seq(S)
        BY <1>1, <1>2, <4>1 DEF Joined
      <4>3. QED
        BY <4>1, <4>2
    <3>3. QED
      BY <3>1, <3>2
  <2>2. h = [i \in 0 .. m + 1 |-> h[i]]
    BY <1>6
  <2>3. QED
    BY <2>1, <2>2
<1>9. ASSUME NEW k \in 1 .. m + 1 PROVE h[k] = h[k - 1] \o t[k]
  <2>1. k - 1 \in 0 .. m /\ h[k - 1] = f[k - 1]
    BY <1>7
  <2>2. CASE k = m + 1
    <3>1. k - 1 = m
      BY <2>2
    <3>2. QED
      BY <1>5, <1>7, <2>1, <2>2, <3>1
  <2>3. CASE k # m + 1
    <3>1. k \in 1 .. m /\ k \in 0 .. m
      BY <2>3
    <3>2. h[k] = f[k] /\ t[k] = s[k]
      BY <1>5, <1>7, <3>1
    <3>3. f[k] = f[k - 1] \o s[k]
      BY <1>1, <1>2, <3>1 DEF Joined
    <3>4. QED
      BY <2>1, <3>2, <3>3
  <2>4. QED
    BY <2>2, <2>3
<1>10. h[0] = <<>>
  BY <1>2, <1>7 DEF Joined
<1>11. Joined(S, t, h)
  BY <1>5, <1>8, <1>9, <1>10 DEF Joined
<1>12. FlattenSeq(t) = h[m + 1]
  BY <1>5, <1>11, FlattenIs
<1>13. QED
  BY <1>3, <1>4, <1>7, <1>12

LEMMA Concatenated ==
    ASSUME NEW S, NEW p \in Seq(S), NEW q \in Seq(S)
    PROVE  /\ Len(p \o q) = Len(p) + Len(q)
           /\ \A i \in 1 .. Len(p) : (p \o q)[i] = p[i]
           /\ \A i \in 1 .. Len(q) : (p \o q)[Len(p) + i] = q[i]
OBVIOUS

\* The sums of the lengths tell where each sequence begins.
Lengths(s, n) == Len(n) = Len(s) /\ \A c \in 1 .. Len(s) : n[c] = Len(s[c])

Follow(s, n) ==
    \A c \in 1 .. Len(s) : \A i \in 1 .. n[c] :
       /\ Sums(n)[c - 1] \in Nat
       /\ Sums(n)[c - 1] + i \in 1 .. Len(FlattenSeq(s))
       /\ FlattenSeq(s)[Sums(n)[c - 1] + i] = s[c][i]

LEMMA PartsFollow ==
    ASSUME NEW S, NEW s \in Seq(Seq(S)), NEW n, Lengths(s, n)
    PROVE  Follow(s, n)
<1>1. PICK m \in Nat : m = Len(s)
  OBVIOUS
<1>2. Len(n) = m /\ \A c \in 1 .. m : s[c] \in Seq(S) /\ n[c] = Len(s[c]) /\ n[c] \in Nat
  BY <1>1 DEF Lengths
<1>3. PICK d : d = Sums(n)
  OBVIOUS
<1>4. d \in [0 .. m -> Nat] /\ d[0] = 0 /\ \A k \in 1 .. m : d[k] = d[k - 1] + n[k]
  BY <1>1, <1>2, <1>3, SumsFacts
<1>5. PICK f : Joined(S, s, f)
  BY JoinedExists
<1>6. f \in [0 .. m -> Seq(S)] /\ f[0] = <<>> /\ \A k \in 1 .. m : f[k] = f[k - 1] \o s[k]
  BY <1>1, <1>5 DEF Joined
<1>7. PICK T : T = {k \in 0 .. m : /\ Len(f[k]) = d[k]
                                   /\ \A c \in 1 .. k : \A i \in 1 .. n[c] :
                                         /\ d[c - 1] + i \in 1 .. d[k]
                                         /\ f[k][d[c - 1] + i] = s[c][i]}
  OBVIOUS
<1>8. 0 \in T
  BY <1>4, <1>6, <1>7
<1>9. ASSUME NEW k \in 0 .. m - 1, k \in T
      PROVE  k + 1 \in T
  <2>1. /\ Len(f[k]) = d[k] /\ f[k] \in Seq(S) /\ d[k] \in Nat
        /\ k + 1 \in 1 .. m /\ k + 1 \in 0 .. m /\ (k + 1) - 1 = k
    BY <1>4, <1>6, <1>7, <1>9
  <2>2. f[k + 1] = f[k] \o s[k + 1] /\ d[k + 1] = d[k] + n[k + 1]
    BY <1>4, <1>6, <2>1
  <2>3. s[k + 1] \in Seq(S) /\ n[k + 1] = Len(s[k + 1]) /\ n[k + 1] \in Nat
    BY <1>2, <2>1
  <2>4. /\ Len(f[k + 1]) = d[k + 1]
        /\ \A i \in 1 .. d[k] : f[k + 1][i] = f[k][i]
        /\ \A i \in 1 .. n[k + 1] : f[k + 1][d[k] + i] = s[k + 1][i]
    <3>1. PICK p \in Seq(S) : p = f[k]
      BY <2>1
    <3>2. PICK q \in Seq(S) : q = s[k + 1]
      BY <2>3
    <3>3. /\ Len(p \o q) = Len(p) + Len(q)
          /\ \A i \in 1 .. Len(p) : (p \o q)[i] = p[i]
          /\ \A i \in 1 .. Len(q) : (p \o q)[Len(p) + i] = q[i]
      BY Concatenated
    <3>4. f[k + 1] = p \o q /\ d[k] = Len(p) /\ n[k + 1] = Len(q)
      BY <2>1, <2>2, <2>3, <3>1, <3>2
    <3>5. QED
      BY <2>2, <3>1, <3>2, <3>3, <3>4
  <2>5. ASSUME NEW c \in 1 .. k + 1, NEW i \in 1 .. n[c]
        PROVE  d[c - 1] + i \in 1 .. d[k + 1] /\ f[k + 1][d[c - 1] + i] = s[c][i]
    <3>1. CASE c = k + 1
      <4>1. c - 1 = k /\ i \in 1 .. n[k + 1]
        BY <3>1
      <4>2. d[k] + i \in 1 .. d[k + 1]
        BY <2>1, <2>2, <2>3, <4>1
      <4>3. f[k + 1][d[k] + i] = s[k + 1][i]
        BY <2>4, <4>1
      <4>4. QED
        BY <3>1, <4>1, <4>2, <4>3
    <3>2. CASE c # k + 1
      <4>1. c \in 1 .. k
        BY <3>2
      <4>2. d[c - 1] + i \in 1 .. d[k] /\ f[k][d[c - 1] + i] = s[c][i]
        BY <1>7, <1>9, <4>1
      <4>3. d[c - 1] + i \in 1 .. d[k + 1]
        BY <2>1, <2>2, <2>3, <4>2
      <4>4. QED
        BY <2>4, <4>2, <4>3
    <3>3. QED
      BY <3>1, <3>2
  <2>6. QED
    BY <1>7, <2>1, <2>4, <2>5
<1>10. m \in T
  <2>1. \A k \in 0 .. m : k \in T
    BY <1>8, <1>9, Upwards
  <2>2. QED
    BY <2>1
<1>11. FlattenSeq(s) = f[m]
  BY <1>1, <1>5, FlattenIs
<1>12. ASSUME NEW c \in 1 .. m, NEW i \in 1 .. n[c]
       PROVE  /\ d[c - 1] \in Nat /\ d[c - 1] + i \in 1 .. Len(f[m])
              /\ f[m][d[c - 1] + i] = s[c][i]
  <2>1. d[c - 1] \in Nat
    BY <1>4
  <2>2. QED
    BY <1>7, <1>10, <2>1
<1>13. QED
  BY <1>1, <1>3, <1>11, <1>12 DEF Follow
-----------------------------------------------------------------------------
(***************************************************************************)
(* Bunches                                                                 *)
(***************************************************************************)
\* The place of row b in column k.
LEMMA Place ==
    ASSUME NEW n \in Nat \ {0}, NEW k \in Nat, NEW b \in 0 .. (n - 1)
    PROVE  (b + k * n) \div n = k /\ (b + k * n) % n = b
OBVIOUS

LEMMA Multiple ==
    ASSUME NEW n \in Nat \ {0}, NEW k \in Nat
    PROVE  (n * k) \div n = k /\ n * k \in Nat
OBVIOUS

LEMMA Below ==
    ASSUME NEW n \in Nat \ {0}, NEW w \in Nat, NEW k \in 0 .. w - 1, NEW b \in 0 .. n - 1
    PROVE  b + k * n \in 0 .. n * w - 1
<1>1. PICK r \in Nat : r = w - 1 - k
  OBVIOUS
<1>2. n * w = n * (k + 1 + r)
  BY <1>1
<1>3. PICK p \in Nat : p = n * r
  OBVIOUS
<1>4. PICK q \in Nat : q = k * n
  OBVIOUS
<1>5. n * (k + 1 + r) = q + n + p
  BY <1>3, <1>4
<1>6. QED
  BY <1>2, <1>4, <1>5

\* What is put in a bunch by columns is found in it.
LEMMA ColumnOfBunch ==
    ASSUME NEW n \in Nat \ {0}, NEW width \in Nat, NEW rows, Len(rows) = n,
           \A b \in 1 .. n : IsSequence(rows[b], width),
           NEW b \in 1 .. n
    PROVE  Column(BunchOf(rows, width), n, b - 1) = rows[b]
<1>1. PICK bunch : bunch = [p \in 0 .. (n * width - 1) |-> rows[(p % n) + 1][(p \div n) + 1]]
  OBVIOUS
<1>2. BunchOf(rows, width) = bunch
  BY <1>1 DEF BunchOf
<1>3. PICK all \in Nat : all = n * width
  BY Multiple
<1>4. Cardinality(0 .. all - 1) = all
  <2>1. Cardinality(0 .. all - 1) = IF 0 > all - 1 THEN 0 ELSE (all - 1) - 0 + 1
    BY FS_Interval
  <2>2. QED
    BY <2>1
<1>5. DOMAIN bunch = 0 .. all - 1
  BY <1>1, <1>3
<1>6. Cardinality(DOMAIN bunch) \div n = width
  BY <1>3, <1>4, <1>5, Multiple
<1>7. Column(bunch, n, b - 1) = [k \in 1 .. width |-> bunch[(b - 1) + (k - 1) * n]]
  BY <1>6 DEF Column
<1>8. ASSUME NEW k \in 1 .. width PROVE bunch[(b - 1) + (k - 1) * n] = rows[b][k]
  <2>1. PICK j : j = k - 1 /\ j \in 0 .. width - 1 /\ j \in Nat /\ k = j + 1
    OBVIOUS
  <2>2. PICK c : c = b - 1 /\ c \in 0 .. n - 1 /\ b = c + 1
    OBVIOUS
  <2>3. c + j * n \in 0 .. n * width - 1
    BY <2>1, <2>2, Below
  <2>4. (c + j * n) \div n = j /\ (c + j * n) % n = c
    BY <2>1, <2>2, Place
  <2>5. bunch[c + j * n] = rows[c + 1][j + 1]
    BY <1>1, <2>3, <2>4
  <2>6. QED
    BY <2>1, <2>2, <2>5
<1>9. rows[b] = [k \in 1 .. width |-> rows[b][k]]
  BY DEF IsSequence
<1>10. QED
  BY <1>2, <1>7, <1>8, <1>9
-----------------------------------------------------------------------------
(***************************************************************************)
(* Random numbers                                                          *)
(***************************************************************************)
\* The orders of the first n numbers.
Reorders(n) ==
    {v \in [0 .. n - 1 -> 0 .. n - 1] : \A i \in 0 .. n - 1 : \E j \in 0 .. n - 1 : v[j] = i}

LEMMA SwapReorders ==
    ASSUME NEW n \in Nat, NEW v \in Reorders(n), NEW i \in 0 .. n - 1, NEW j \in 0 .. n - 1
    PROVE  Swap(v, i, j) \in Reorders(n)
<1>1. v \in [0 .. n - 1 -> 0 .. n - 1] /\ \A x \in 0 .. n - 1 : \E y \in 0 .. n - 1 : v[y] = x
  BY DEF Reorders
<1>2. PICK w : w = Swap(v, i, j)
  OBVIOUS
<1>3. w = [[v EXCEPT ![i] = v[j]] EXCEPT ![j] = v[i]]
  BY <1>2 DEF Swap
<1>4. /\ w \in [0 .. n - 1 -> 0 .. n - 1] /\ w[j] = v[i] /\ w[i] = v[j]
      /\ \A y \in 0 .. n - 1 : y # i /\ y # j => w[y] = v[y]
  BY <1>1, <1>3
<1>5. ASSUME NEW x \in 0 .. n - 1 PROVE \E y \in 0 .. n - 1 : w[y] = x
  <2>1. PICK y \in 0 .. n - 1 : v[y] = x
    BY <1>1
  <2>2. QED
    BY <1>4, <2>1
<1>6. QED
  BY <1>2, <1>4, <1>5 DEF Reorders

LEMMA ShuffledReorders ==
    ASSUME NEW n \in Nat, NEW r \in [1 .. n - 1 -> 0 .. n - 1]
    PROVE  /\ Shuffled(n, r) \in [1 .. n -> 1 .. n]
           /\ \A i \in 1 .. n : \E j \in 1 .. n : Shuffled(n, r)[j] = i
<1> DEFINE id == [j \in 0 .. n - 1 |-> j]
           Are(f) == f = [k \in 0 .. Len(r) |-> IF k = 0 THEN [j \in 0 .. (n - 1) |-> j]
                                                ELSE Swap(f[k - 1], n - k, r[n - k])]
<1>1. PICK m \in Nat : m = Len(r) /\ \A k \in 1 .. m : n - k \in 1 .. n - 1
  <2>1. CASE n = 0
    <3>1. r = <<>>
      BY <2>1
    <3>2. QED
      BY <3>1
  <2>2. CASE n # 0
    <3>1. n - 1 \in Nat /\ Len(r) = n - 1
      BY <2>2
    <3>2. \A k \in 1 .. n - 1 : n - k \in 1 .. n - 1
      OBVIOUS
    <3>3. QED
      BY <3>1, <3>2
  <2>3. QED
    BY <2>1, <2>2
<1>2. id \in Reorders(n)
  BY DEF Reorders
<1>3. PICK g : g = [p \in (1 .. m) \X Reorders(n) |-> Swap(p[2], n - p[1], r[n - p[1]])]
  OBVIOUS
<1>4. ASSUME NEW k \in 1 .. m, NEW v \in Reorders(n)
      PROVE  g[<<k, v>>] = Swap(v, n - k, r[n - k]) /\ g[<<k, v>>] \in Reorders(n)
  <2>1. <<k, v>> \in (1 .. m) \X Reorders(n) /\ <<k, v>>[1] = k /\ <<k, v>>[2] = v
    OBVIOUS
  <2>2. g[<<k, v>>] = Swap(v, n - k, r[n - k])
    BY <1>3, <2>1
  <2>3. n - k \in 0 .. n - 1 /\ r[n - k] \in 0 .. n - 1
    BY <1>1
  <2>4. Swap(v, n - k, r[n - k]) \in Reorders(n)
    BY <2>3, SwapReorders
  <2>5. QED
    BY <2>2, <2>4
<1>5. PICK e : Turns(m, Reorders(n), id, g, e)
  <2>1. \A k \in 1 .. m, v \in Reorders(n) : g[<<k, v>>] \in Reorders(n)
    BY <1>4
  <2>2. QED
    BY <1>2, <2>1, TurnsExist
<1>6. e \in [0 .. m -> Reorders(n)] /\ e[0] = id /\ \A k \in 1 .. m : e[k] = g[<<k, e[k - 1]>>]
  BY <1>5 DEF Turns
<1>7. Are(e)
  <2>1. ASSUME NEW k \in 0 .. m
        PROVE  e[k] = IF k = 0 THEN [j \in 0 .. (n - 1) |-> j]
                      ELSE Swap(e[k - 1], n - k, r[n - k])
    <3>1. CASE k = 0
      BY <1>6, <3>1
    <3>2. CASE k # 0
      <4>1. k \in 1 .. m /\ e[k - 1] \in Reorders(n)
        BY <1>6, <3>2
      <4>2. QED
        BY <1>4, <1>6, <3>2, <4>1
    <3>3. QED
      BY <3>1, <3>2
  <2>2. e = [k \in 0 .. m |-> e[k]]
    BY <1>6
  <2>3. QED
    BY <1>1, <2>1, <2>2
<1>8. PICK f : f = CHOOSE x : Are(x)
  OBVIOUS
<1>9. Are(f)
  BY <1>7, <1>8
<1>10. Shuffled(n, r) = [j \in 1 .. n |-> f[m][j - 1] + 1]
  BY <1>1, <1>8 DEF Shuffled
<1>11. ASSUME NEW k \in 0 .. m
       PROVE  f[k] = IF k = 0 THEN id ELSE Swap(f[k - 1], n - k, r[n - k])
  BY <1>1, <1>9
<1>12. f[m] \in Reorders(n)
  <2>1. PICK T : T = {k \in 0 .. m : f[k] \in Reorders(n)}
    OBVIOUS
  <2>2. 0 \in T
    BY <1>2, <1>11, <2>1
  <2>3. ASSUME NEW k \in 0 .. m - 1, k \in T PROVE k + 1 \in T
    <3>1. k + 1 \in 1 .. m /\ k + 1 \in 0 .. m /\ (k + 1) - 1 = k /\ k + 1 # 0
      OBVIOUS
    <3>2. f[k + 1] = Swap(f[k], n - (k + 1), r[n - (k + 1)])
      BY <1>11, <3>1
    <3>3. f[k] \in Reorders(n)
      BY <2>1, <2>3
    <3>4. f[k + 1] \in Reorders(n)
      BY <1>4, <3>1, <3>2, <3>3
    <3>5. QED
      BY <2>1, <3>1, <3>4
  <2>4. \A k \in 0 .. m : k \in T
    BY <2>2, <2>3, Upwards
  <2>5. m \in T
    BY <2>4
  <2>6. QED
    BY <2>1, <2>5
<1>13. PICK v : v = f[m]
  OBVIOUS
<1>14. v \in [0 .. n - 1 -> 0 .. n - 1] /\ \A x \in 0 .. n - 1 : \E y \in 0 .. n - 1 : v[y] = x
  BY <1>12, <1>13 DEF Reorders
<1>15. PICK t : t = [j \in 1 .. n |-> v[j - 1] + 1]
  OBVIOUS
<1>16. t \in [1 .. n -> 1 .. n]
  <2>1. ASSUME NEW j \in 1 .. n PROVE v[j - 1] + 1 \in 1 .. n
    <3>1. j - 1 \in 0 .. n - 1
      OBVIOUS
    <3>2. v[j - 1] \in 0 .. n - 1
      BY <1>14, <3>1
    <3>3. QED
      BY <3>2
  <2>2. QED
    BY <1>15, <2>1
<1>17. ASSUME NEW i \in 1 .. n PROVE \E j \in 1 .. n : t[j] = i
  <2>1. PICK y \in 0 .. n - 1 : v[y] = i - 1
    BY <1>14
  <2>2. y + 1 \in 1 .. n /\ (y + 1) - 1 = y
    OBVIOUS
  <2>3. t[y + 1] = i
    BY <1>15, <2>1, <2>2
  <2>4. QED
    BY <2>2, <2>3
<1>18. QED
  BY <1>10, <1>13, <1>15, <1>16, <1>17
-----------------------------------------------------------------------------
\* What is left of the search, among n outcomes.
Ranges(n) == {x \in [left : 0 .. n - 1, right : 0 .. n - 1] : x.left <= x.right}

LEMMA HalveStays ==
    ASSUME NEW n \in Nat, NEW threshold, NEW key, NEW x \in Ranges(n)
    PROVE  Halve(threshold, key, x) \in Ranges(n)
<1>1. x \in [left : 0 .. n - 1, right : 0 .. n - 1] /\ x.left <= x.right
  BY DEF Ranges
<1>2. PICK middle : middle = (x.left + x.right) \div 2
  OBVIOUS
<1>3. x.left < x.right => middle \in 0 .. n - 1 /\ x.left <= middle /\ middle + 1 <= x.right
  <2>1. PICK a \in Nat : a = x.left
    BY <1>1
  <2>2. PICK b \in Nat : b = x.right /\ b <= n - 1
    BY <1>1
  <2>3. a < b => a <= (a + b) \div 2 /\ (a + b) \div 2 + 1 <= b /\ (a + b) \div 2 \in Nat
    OBVIOUS
  <2>4. QED
    BY <1>2, <2>1, <2>2, <2>3
<1>4. \/ Halve(threshold, key, x) = x
      \/ x.left < x.right /\ Halve(threshold, key, x) = [x EXCEPT !.left = middle + 1]
      \/ x.left < x.right /\ Halve(threshold, key, x) = [x EXCEPT !.right = middle]
  BY <1>1, <1>2 DEF Halve
<1>5. CASE Halve(threshold, key, x) = x
  BY <1>5
<1>6. CASE x.left < x.right /\ Halve(threshold, key, x) = [x EXCEPT !.left = middle + 1]
  <2>1. PICK y : y = [x EXCEPT !.left = middle + 1]
    OBVIOUS
  <2>2. y.left = middle + 1 /\ y.right = x.right /\ y = [left |-> middle + 1, right |-> x.right]
    BY <1>1, <2>1
  <2>3. middle + 1 \in 0 .. n - 1 /\ middle + 1 <= x.right
    BY <1>1, <1>3, <1>6
  <2>4. QED
    BY <1>1, <1>6, <2>1, <2>2, <2>3 DEF Ranges
<1>7. CASE x.left < x.right /\ Halve(threshold, key, x) = [x EXCEPT !.right = middle]
  <2>1. PICK y : y = [x EXCEPT !.right = middle]
    OBVIOUS
  <2>2. y.left = x.left /\ y.right = middle /\ y = [left |-> x.left, right |-> middle]
    BY <1>1, <2>1
  <2>3. QED
    BY <1>1, <1>3, <1>7, <2>1, <2>2 DEF Ranges
<1>8. QED
  BY <1>4, <1>5, <1>6, <1>7

LEMMA ThrownIsOutcome ==
    ASSUME NEW n \in Nat, n # 0, NEW threshold, NEW key
    PROVE  Thrown(threshold, key, n) \in 0 .. n - 1
<1> DEFINE all == [left |-> 0, right |-> n - 1]
           Are(f) == f = [k \in 0 .. n |-> IF k = 0 THEN [left |-> 0, right |-> n - 1]
                                           ELSE Halve(threshold, key, f[k - 1])]
<1>1. all \in Ranges(n)
  BY DEF Ranges
<1>2. PICK g : g = [p \in (1 .. n) \X Ranges(n) |-> Halve(threshold, key, p[2])]
  OBVIOUS
<1>3. ASSUME NEW k \in 1 .. n, NEW x \in Ranges(n)
      PROVE  g[<<k, x>>] = Halve(threshold, key, x) /\ g[<<k, x>>] \in Ranges(n)
  <2>1. g[<<k, x>>] = Halve(threshold, key, x)
    BY <1>2
  <2>2. QED
    BY <2>1, HalveStays
<1>4. PICK e : Turns(n, Ranges(n), all, g, e)
  <2>1. \A k \in 1 .. n, x \in Ranges(n) : g[<<k, x>>] \in Ranges(n)
    BY <1>3
  <2>2. QED
    BY <1>1, <2>1, TurnsExist
<1>5. e \in [0 .. n -> Ranges(n)] /\ e[0] = all /\ \A k \in 1 .. n : e[k] = g[<<k, e[k - 1]>>]
  BY <1>4 DEF Turns
<1>6. Are(e)
  <2>1. ASSUME NEW k \in 0 .. n
        PROVE  e[k] = IF k = 0 THEN [left |-> 0, right |-> n - 1]
                      ELSE Halve(threshold, key, e[k - 1])
    <3>1. CASE k = 0
      BY <1>5, <3>1
    <3>2. CASE k # 0
      <4>1. k \in 1 .. n /\ e[k - 1] \in Ranges(n)
        BY <1>5, <3>2
      <4>2. QED
        BY <1>3, <1>5, <3>2, <4>1
    <3>3. QED
      BY <3>1, <3>2
  <2>2. e = [k \in 0 .. n |-> e[k]]
    BY <1>5
  <2>3. QED
    BY <2>1, <2>2
<1>7. PICK f : f = CHOOSE x : Are(x)
  OBVIOUS
<1>8. Are(f)
  BY <1>6, <1>7
<1>9. Thrown(threshold, key, n) = f[n].left
  BY <1>7 DEF Thrown
<1>10. ASSUME NEW k \in 0 .. n
       PROVE  f[k] = IF k = 0 THEN all ELSE Halve(threshold, key, f[k - 1])
  BY <1>8
<1>11. f[n] \in Ranges(n)
  <2>1. PICK T : T = {k \in 0 .. n : f[k] \in Ranges(n)}
    OBVIOUS
  <2>2. 0 \in T
    BY <1>1, <1>10, <2>1
  <2>3. ASSUME NEW k \in 0 .. n - 1, k \in T PROVE k + 1 \in T
    <3>1. k + 1 \in 0 .. n /\ (k + 1) - 1 = k /\ k + 1 # 0
      OBVIOUS
    <3>2. f[k + 1] = Halve(threshold, key, f[k])
      BY <1>10, <3>1
    <3>3. f[k] \in Ranges(n)
      BY <2>1, <2>3
    <3>4. QED
      BY <2>1, <3>1, <3>2, <3>3, HalveStays
  <2>4. \A k \in 0 .. n : k \in T
    BY <2>2, <2>3, Upwards
  <2>5. n \in T
    BY <2>4
  <2>6. QED
    BY <2>1, <2>5
<1>12. QED
  BY <1>9, <1>11 DEF Ranges
-----------------------------------------------------------------------------
(***************************************************************************)
(* The table of indexes                                                    *)
(***************************************************************************)
Trained == call.op \in {"train", "each"}
Drawing == call.op = "train" /\ call.mode \in {"replacement", "distribution"}

\* The pattern drawn at j of the union that td is.
Drawn(td, j) == MeaningOf(td)[idxTable[j]] = MeaningOf(td.parts[draws[j][1]])[draws[j][2]]

\* Every index is of a pattern of the datasets, as many times as the call says.
Table ==
    /\ idxTable \in Seq(1 .. NumPatternsOf(call.input))
    /\ call.op = "train" => idxTable \in Seq(1 .. NumPatternsOf(call.output))
    /\ call.op = "each" => \A j \in 1 .. Len(idxTable) : idxTable[j] = j
    /\ Drawing => Len(idxTable) = call.replacement
    /\ ~Drawing => /\ Len(idxTable) = NumPatternsOf(call.input)
                   /\ \A i \in 1 .. NumPatternsOf(call.input) :
                         \E j \in DOMAIN idxTable : idxTable[j] = i
    /\ draws # <<>> => /\ call.op = "train"
                       /\ \A j \in 1 .. Len(idxTable) : Drawn(call.input, j) /\ Drawn(call.output, j)

\* What has been handed is what the table says up to pos.
Used == IF pos > Len(idxTable) THEN Len(idxTable) ELSE pos - 1
Shown == {Pair(j) : j \in 1 .. Len(idxTable)}

Loop ==
    /\ pos \in Nat \ {0}
    /\ handed \in Seq(Seq(Shown))
    /\ FlattenSeq(handed) = [j \in 1 .. Used |-> Pair(j)]
    /\ \A b \in DOMAIN handed :
          \/ Len(handed[b]) = call.bunch
          \/ b = Len(handed) /\ pos > Len(idxTable)
    /\ status = "returned" => pos > Len(idxTable)

Fresh == idxTable = <<>> /\ pos = 1 /\ handed = <<>> /\ draws = <<>>

EpochInv ==
    /\ call \in Calls
    /\ Trained => /\ store = InitStore
                  /\ \/ status \in {"called", "error"} /\ Fresh
                     \/ status \in {"running", "returned"} /\ Table /\ Loop

LEMMA CallFacts ==
    ASSUME EpochInv, Trained
    PROVE  /\ call \in Calls /\ store = InitStore
           /\ call.bunch \in Nat \ {0} /\ NumPatternsOf(call.input) \in Nat
           /\ Reads(call.input)
           /\ call.op = "train" => Reads(call.output) /\ NumPatternsOf(call.output) \in Nat
  BY CallsAssumption, ReadsAssumption DEF EpochInv, Trained, Reads

\* A loop that has not begun.
LEMMA LoopBegins ==
    ASSUME NEW n \in Nat, Len(idxTable') = n, pos' = 1, handed' = <<>>, status' = "running"
    PROVE  Loop'
<1>1. Used' = 0
  <2>1. Used' = IF 1 > n THEN n ELSE 1 - 1
    BY DEF Used
  <2>2. QED
    BY <2>1
<1>2. FlattenSeq(<<>>) = <<>>
  BY DEF FlattenSeq
<1>3. [j \in 1 .. Used' |-> Pair(j)'] = <<>>
  BY <1>1
<1>4. handed' \in Seq(Seq(Shown')) /\ DOMAIN handed' = {}
  OBVIOUS
<1>5. (FlattenSeq(handed) = [j \in 1 .. Used |-> Pair(j)])'
  BY <1>2, <1>3
<1>6. QED
  BY <1>4, <1>5 DEF Loop

\* The head of a call makes the table, and then the loop begins.
LEMMA HeadInv ==
    ASSUME EpochInv, Trained, status = "called", call' = call, store' = store,
           status' = "running", pos' = pos, handed' = handed,
           Table'
    PROVE  EpochInv'
<1>1. Fresh
  BY DEF EpochInv
<1>2. Len(idxTable') \in Nat
  BY DEF Table
<1>3. PICK n \in Nat : n = Len(idxTable')
  BY <1>2
<1>4. Loop'
  BY <1>1, <1>3, LoopBegins DEF Fresh
<1>5. QED
  BY <1>4 DEF EpochInv, Trained

\* The table of all the patterns in their order.
LEMMA InOrderTable ==
    ASSUME NEW n \in Nat, NEW t, t = [i \in 1 .. n |-> i]
    PROVE  /\ t \in Seq(1 .. n) /\ Len(t) = n /\ DOMAIN t = 1 .. n
           /\ \A j \in 1 .. n : t[j] = j
OBVIOUS

LEMMA FreshDraws ==
    ASSUME EpochInv, Trained, status = "called"
    PROVE  draws = <<>>
  BY DEF EpochInv, Fresh

LEMMA SequentialInv ==
    ASSUME EpochInv, Sequential
    PROVE  EpochInv'
<1>1. /\ status = "called" /\ call.op = "train" /\ call.mode = "sequential" /\ SizesAgree
      /\ idxTable' = [i \in 1 .. NumPatternsOf(call.input) |-> i]
      /\ call' = call /\ store' = store /\ status' = "running" /\ pos' = pos /\ handed' = handed
      /\ draws' = draws
  BY DEF Sequential, Starts, Runs
<1>2. Trained
  BY <1>1 DEF Trained
<1>3. PICK n \in Nat : n = NumPatternsOf(call.input)
  BY <1>2, CallFacts
<1>4. NumPatternsOf(call.output) = n
  BY <1>1, <1>3 DEF SizesAgree
<1>5. /\ idxTable' \in Seq(1 .. n) /\ Len(idxTable') = n /\ DOMAIN idxTable' = 1 .. n
      /\ \A j \in 1 .. n : idxTable'[j] = j
  BY <1>1, <1>3, InOrderTable
<1>6. draws' = <<>>
  BY <1>1, <1>2, FreshDraws
<1>7. ~Drawing'
  BY <1>1 DEF Drawing
<1>8. call'.op = "train" /\ NumPatternsOf(call'.input) = n /\ NumPatternsOf(call'.output) = n
  BY <1>1, <1>3, <1>4
<1>9. Table'
  BY <1>5, <1>6, <1>7, <1>8 DEF Table
<1>10. QED
  BY <1>1, <1>2, <1>9, HeadInv

LEMMA InOrderInv ==
    ASSUME EpochInv, InOrder
    PROVE  EpochInv'
<1>1. /\ status = "called" /\ call.op \in {"each", "use"}
      /\ idxTable' = [i \in 1 .. NumPatternsOf(call.input) |-> i]
      /\ call' = call /\ store' = store /\ status' = "running" /\ pos' = pos /\ handed' = handed
      /\ draws' = draws
  BY DEF InOrder, Runs
<1>2. CASE call.op = "use"
  BY <1>1, <1>2 DEF EpochInv, Trained
<1>3. CASE call.op = "each"
  <2>1. Trained
    BY <1>3 DEF Trained
  <2>2. PICK n \in Nat : n = NumPatternsOf(call.input)
    BY <2>1, CallFacts
  <2>3. /\ idxTable' \in Seq(1 .. n) /\ Len(idxTable') = n /\ DOMAIN idxTable' = 1 .. n
        /\ \A j \in 1 .. n : idxTable'[j] = j
    BY <1>1, <2>2, InOrderTable
  <2>4. draws' = <<>>
    BY <1>1, <2>1, FreshDraws
  <2>5. ~Drawing'
    BY <1>1, <1>3 DEF Drawing
  <2>6. call'.op = "each" /\ NumPatternsOf(call'.input) = n
    BY <1>1, <1>3, <2>2
  <2>7. Table'
    BY <2>3, <2>4, <2>5, <2>6 DEF Table
  <2>8. QED
    BY <1>1, <2>1, <2>7, HeadInv
<1>4. QED
  BY <1>1, <1>2, <1>3

LEMMA TableIsSeq ==
    ASSUME NEW n \in Nat, NEW S, NEW t \in [1 .. n -> S]
    PROVE  t \in Seq(S) /\ Len(t) = n /\ DOMAIN t = 1 .. n
OBVIOUS

LEMMA ShuffleInv ==
    ASSUME EpochInv, Shuffle
    PROVE  EpochInv'
<1>1. /\ status = "called" /\ call.op = "train" /\ call.mode = "shuffle" /\ SizesAgree
      /\ draws' = draws
  BY DEF Shuffle, Starts
<1>2. Trained
  BY <1>1 DEF Trained
<1>3. PICK n \in Nat : n = NumPatternsOf(call.input)
  BY <1>2, CallFacts
<1>4. NumPatternsOf(call.output) = n
  BY <1>1, <1>3 DEF SizesAgree
<1>5. PICK r \in [1 .. n - 1 -> 0 .. n - 1] : Runs(Shuffled(n, r))
  BY <1>3 DEF Shuffle
<1>6. /\ idxTable' = Shuffled(n, r)
      /\ call' = call /\ store' = store /\ status' = "running" /\ pos' = pos /\ handed' = handed
  BY <1>5 DEF Runs
<1>7. /\ Shuffled(n, r) \in [1 .. n -> 1 .. n]
      /\ \A i \in 1 .. n : \E j \in 1 .. n : Shuffled(n, r)[j] = i
  BY ShuffledReorders
<1>8. PICK t \in [1 .. n -> 1 .. n] : t = Shuffled(n, r)
  BY <1>7
<1>9. /\ t \in Seq(1 .. n) /\ Len(t) = n /\ DOMAIN t = 1 .. n
      /\ \A i \in 1 .. n : \E j \in DOMAIN t : t[j] = i
  BY <1>7, <1>8, TableIsSeq
<1>10. idxTable' = t
  BY <1>6, <1>8
<1>11. draws' = <<>>
  BY <1>1, <1>2, FreshDraws
<1>12. ~Drawing'
  BY <1>1, <1>6 DEF Drawing
<1>13. call'.op = "train" /\ NumPatternsOf(call'.input) = n /\ NumPatternsOf(call'.output) = n
  BY <1>1, <1>3, <1>4, <1>6
<1>14. Table'
  BY <1>9, <1>10, <1>11, <1>12, <1>13 DEF Table
<1>15. QED
  BY <1>1, <1>2, <1>6, <1>14, HeadInv

LEMMA ReplacementInv ==
    ASSUME EpochInv, Replacement
    PROVE  EpochInv'
<1>1. /\ status = "called" /\ call.op = "train" /\ call.mode = "replacement" /\ SizesAgree
      /\ draws' = draws
  BY DEF Replacement, Starts
<1>2. Trained
  BY <1>1 DEF Trained
<1>3. PICK n \in Nat : n = NumPatternsOf(call.input)
  BY <1>2, CallFacts
<1>4. NumPatternsOf(call.output) = n
  BY <1>1, <1>3 DEF SizesAgree
<1>5. PICK m \in Nat : m = call.replacement
  BY <1>1, CallsAssumption DEF EpochInv
<1>6. PICK t \in [1 .. m -> 1 .. n] : Runs(t)
  BY <1>3, <1>5 DEF Replacement
<1>7. /\ idxTable' = t
      /\ call' = call /\ store' = store /\ status' = "running" /\ pos' = pos /\ handed' = handed
  BY <1>6 DEF Runs
<1>8. t \in Seq(1 .. n) /\ Len(t) = m
  BY TableIsSeq
<1>9. draws' = <<>>
  BY <1>1, <1>2, FreshDraws
<1>10. Drawing'
  BY <1>1, <1>7 DEF Drawing
<1>11. /\ call'.op = "train" /\ NumPatternsOf(call'.input) = n /\ NumPatternsOf(call'.output) = n
       /\ call'.replacement = m
  BY <1>1, <1>3, <1>4, <1>5, <1>7
<1>12. Table'
  BY <1>7, <1>8, <1>9, <1>10, <1>11 DEF Table
<1>13. QED
  BY <1>1, <1>2, <1>7, <1>12, HeadInv

\* The pattern i of part c is where the union has it.
SizesOf(td, sizes) ==
    /\ Len(sizes) = Len(td.parts)
    /\ \A c \in 1 .. Len(td.parts) : sizes[c] = NumPatternsOf(td.parts[c])

InUnion(td, sizes) ==
    \A c \in 1 .. Len(td.parts) : \A i \in 1 .. sizes[c] :
       /\ i + Sums(sizes)[c - 1] \in 1 .. NumPatternsOf(td)
       /\ MeaningOf(td)[i + Sums(sizes)[c - 1]] = MeaningOf(td.parts[c])[i]

LEMMA UnionPattern ==
    ASSUME NEW td, IsUnion(td), Reads(td), NEW sizes, SizesOf(td, sizes)
    PROVE  InUnion(td, sizes)
<1> SUFFICES ASSUME NEW c \in 1 .. Len(td.parts), NEW i \in 1 .. sizes[c]
             PROVE  /\ i + Sums(sizes)[c - 1] \in 1 .. NumPatternsOf(td)
                    /\ MeaningOf(td)[i + Sums(sizes)[c - 1]] = MeaningOf(td.parts[c])[i]
  BY DEF InUnion
<1>0. /\ Len(sizes) = Len(td.parts)
      /\ \A e \in 1 .. Len(td.parts) : sizes[e] = NumPatternsOf(td.parts[e])
  BY DEF SizesOf
<1>1. PICK m \in Nat : m = Len(td.parts)
  BY DEF IsUnion
<1>2. DOMAIN td.parts = 1 .. m
  <2>1. td.parts = [j \in 1 .. m |-> td.parts[j]]
    BY <1>1 DEF IsUnion, IsSequence
  <2>2. QED
    BY <2>1
<1>3. \A j \in 1 .. m : sizes[j] \in Nat /\ IsSequence(MeaningOf(td.parts[j]), sizes[j])
  BY <1>0, <1>1, <1>2 DEF IsUnion
<1>4. PICK S : S = UNION {{MeaningOf(td.parts[j])[k] : k \in 1 .. sizes[j]} : j \in 1 .. m}
  OBVIOUS
<1>5. PICK s : s = [j \in 1 .. m |-> MeaningOf(td.parts[j])]
  OBVIOUS
<1>6. ASSUME NEW j \in 1 .. m PROVE s[j] \in Seq(S) /\ Len(s[j]) = sizes[j]
  <2>1. PICK k \in Nat : k = sizes[j]
    BY <1>3
  <2>2. PICK p : p = MeaningOf(td.parts[j])
    OBVIOUS
  <2>3. p = [x \in 1 .. k |-> p[x]]
    BY <1>3, <2>1, <2>2 DEF IsSequence
  <2>4. \A x \in 1 .. k : p[x] \in S
    BY <1>4, <2>1, <2>2
  <2>5. p \in [1 .. k -> S]
    BY <2>3, <2>4
  <2>6. p \in Seq(S) /\ Len(p) = k
    BY <2>5, TableIsSeq
  <2>7. s[j] = p
    BY <1>5, <2>2
  <2>8. QED
    BY <2>1, <2>6, <2>7
<1>7. s \in [1 .. m -> Seq(S)]
  <2>1. s = [j \in 1 .. m |-> s[j]]
    BY <1>5
  <2>2. QED
    BY <1>6, <2>1
<1>8. s \in Seq(Seq(S)) /\ Len(s) = m
  <2>1. PICK W : W = Seq(S)
    OBVIOUS
  <2>2. s \in [1 .. m -> W]
    BY <1>7, <2>1
  <2>3. QED
    BY <2>1, <2>2, TableIsSeq
<1>9. MeaningOf(td) = FlattenSeq(s)
  BY <1>2, <1>5 DEF IsUnion
<1>10. /\ Sums(sizes)[c - 1] \in Nat
       /\ Sums(sizes)[c - 1] + i \in 1 .. Len(FlattenSeq(s))
       /\ FlattenSeq(s)[Sums(sizes)[c - 1] + i] = s[c][i]
  <2>1. Lengths(s, sizes)
    BY <1>0, <1>1, <1>6, <1>8 DEF Lengths
  <2>2. c \in 1 .. Len(s)
    BY <1>1, <1>8
  <2>3. Follow(s, sizes)
    BY <1>8, <2>1, PartsFollow
  <2>4. QED
    BY <2>2, <2>3 DEF Follow
<1>11. Len(FlattenSeq(s)) = NumPatternsOf(td)
  <2>1. PICK n \in Nat : n = NumPatternsOf(td)
    BY DEF Reads
  <2>2. PICK p : p = MeaningOf(td)
    OBVIOUS
  <2>3. p = [x \in 1 .. n |-> p[x]]
    BY <2>1, <2>2 DEF Reads, IsSequence
  <2>4. PICK R : R = {p[x] : x \in 1 .. n}
    OBVIOUS
  <2>5. p \in [1 .. n -> R]
    BY <2>3, <2>4
  <2>6. Len(p) = n
    BY <2>5, TableIsSeq
  <2>7. QED
    BY <1>9, <2>1, <2>2, <2>6
<1>12. s[c] = MeaningOf(td.parts[c])
  BY <1>1, <1>5
<1>13. i + Sums(sizes)[c - 1] = Sums(sizes)[c - 1] + i
  <2>1. sizes[c] \in Nat
    BY <1>1, <1>3
  <2>2. i \in Nat
    BY <2>1
  <2>3. QED
    BY <1>10, <2>2
<1>14. QED
  BY <1>9, <1>10, <1>11, <1>12, <1>13

LEMMA PartsDomain ==
    ASSUME NEW td, IsUnion(td)
    PROVE  Len(td.parts) \in Nat \ {0} /\ DOMAIN td.parts = 1 .. Len(td.parts)
<1>1. PICK m \in Nat \ {0} : m = Len(td.parts)
  BY DEF IsUnion
<1>2. PICK p : p = td.parts
  OBVIOUS
<1>3. p = [j \in 1 .. m |-> p[j]]
  BY <1>1, <1>2 DEF IsUnion, IsSequence
<1>4. DOMAIN p = 1 .. m
  BY <1>3
<1>5. QED
  BY <1>1, <1>2, <1>4

LEMMA DistributionInv ==
    ASSUME EpochInv, Distribution
    PROVE  EpochInv'
<1>1. status = "called" /\ call.op = "train" /\ call.mode = "distribution" /\ SizesAgree
  BY DEF Distribution, Starts
<1>2. Trained
  BY <1>1 DEF Trained
<1>3. /\ IsUnion(call.input) /\ IsUnion(call.output)
      /\ Len(call.input.parts) = Len(call.output.parts)
      /\ call.replacement \in Nat
  BY <1>1, CallsAssumption DEF EpochInv
<1>4. Reads(call.input) /\ Reads(call.output)
  BY <1>1, <1>2, CallFacts
<1>5. PICK m \in Nat \ {0} : m = Len(call.input.parts) /\ m = Len(call.output.parts)
  BY <1>3, PartsDomain
<1>6. DOMAIN call.input.parts = 1 .. m /\ DOMAIN call.output.parts = 1 .. m
  BY <1>3, <1>5, PartsDomain
<1>7. PICK sizes : sizes = [j \in 1 .. m |-> NumPatternsOf(call.input.parts[j])]
  OBVIOUS
<1>8. \A j \in 1 .. m : /\ sizes[j] = NumPatternsOf(call.input.parts[j])
                        /\ sizes[j] = NumPatternsOf(call.output.parts[j])
  BY <1>1, <1>6, <1>7 DEF SizesAgree
<1>9. Len(sizes) = m
  <2>1. PICK W : W = {NumPatternsOf(call.input.parts[j]) : j \in 1 .. m}
    OBVIOUS
  <2>2. sizes \in [1 .. m -> W]
    BY <1>7, <2>1
  <2>3. QED
    BY <2>2, TableIsSeq
<1>10. PICK n \in Nat : n = call.replacement
  BY <1>3
<1>11. PICK threshold, scale, top : \E key \in [1 .. n -> 0 .. scale], idx \in [1 .. n -> 1 .. top] :
          RunsDrawn(sizes, ClassesThrown(threshold, m, key), idx)
  <2>1. PICK threshold : threshold =
             [j \in 0 .. (Len(sizes) - 1) |-> Sums(call.probability)[j + 1]]
    OBVIOUS
  <2>2. PICK top : top = Max({sizes[j] : j \in DOMAIN sizes})
    OBVIOUS
  <2>3. \E key \in [1 .. n -> 0 .. Total(call.probability)], idx \in [1 .. n -> 1 .. top] :
           RunsDrawn(sizes, ClassesThrown(threshold, m, key), idx)
    BY <1>6, <1>7, <1>9, <1>10, <2>1, <2>2 DEF Distribution
  <2>4. QED
    BY <2>3
<1> PICK key \in [1 .. n -> 0 .. scale], idx \in [1 .. n -> 1 .. top] :
       RunsDrawn(sizes, ClassesThrown(threshold, m, key), idx)
  BY <1>11
<1> PICK class : class = ClassesThrown(threshold, m, key)
  OBVIOUS
<1>12. /\ class = [i \in 1 .. n |-> Thrown(threshold, key[i], m) + 1]
       /\ \A i \in 1 .. n : idx[i] <= sizes[class[i]]
       /\ Runs([i \in 1 .. n |-> idx[i] + Sums(sizes)[class[i] - 1]])
       /\ draws' = [i \in 1 .. n |-> <<class[i], idx[i]>>]
  <2>1. DOMAIN key = 1 .. n /\ DOMAIN idx = 1 .. n
    OBVIOUS
  <2>2. class = [i \in 1 .. n |-> Thrown(threshold, key[i], m) + 1]
    BY <2>1 DEF ClassesThrown
  <2>3. RunsDrawn(sizes, class, idx)
    OBVIOUS
  <2>4. QED
    BY <2>1, <2>2, <2>3 DEF RunsDrawn
<1>13. ASSUME NEW i \in 1 .. n PROVE class[i] \in 1 .. m /\ idx[i] \in 1 .. sizes[class[i]]
  <2>1. Thrown(threshold, key[i], m) \in 0 .. m - 1
    BY ThrownIsOutcome
  <2>2. class[i] = Thrown(threshold, key[i], m) + 1
    BY <1>12
  <2>3. class[i] \in 1 .. m
    BY <2>1, <2>2
  <2>4. sizes[class[i]] \in Nat
    <3>1. PICK c \in 1 .. m : c = class[i]
      BY <2>3
    <3>2. NumPatternsOf(call.input.parts[c]) \in Nat
      BY <1>3, <1>6 DEF IsUnion
    <3>3. QED
      BY <1>8, <3>1, <3>2
  <2>5. idx[i] \in 1 .. top /\ idx[i] <= sizes[class[i]]
    BY <1>12
  <2>6. idx[i] \in 1 .. sizes[class[i]]
    <3>1. idx[i] \in Int /\ idx[i] >= 1
      BY <2>5
    <3>2. QED
      BY <2>4, <2>5, <3>1
  <2>7. QED
    BY <2>3, <2>6
<1>14. PICK t : t = [i \in 1 .. n |-> idx[i] + Sums(sizes)[class[i] - 1]]
  OBVIOUS
<1>15. /\ idxTable' = t
       /\ call' = call /\ store' = store /\ status' = "running" /\ pos' = pos /\ handed' = handed
  BY <1>12, <1>14 DEF Runs
<1>16. InUnion(call.input, sizes) /\ InUnion(call.output, sizes)
  <2>1. SizesOf(call.input, sizes) /\ SizesOf(call.output, sizes)
    BY <1>5, <1>8, <1>9 DEF SizesOf
  <2>2. QED
    BY <1>3, <1>4, <2>1, UnionPattern
<1>17. ASSUME NEW i \in 1 .. n
       PROVE  /\ t[i] \in 1 .. NumPatternsOf(call.input)
              /\ MeaningOf(call.input)[t[i]] = MeaningOf(call.input.parts[class[i]])[idx[i]]
              /\ t[i] \in 1 .. NumPatternsOf(call.output)
              /\ MeaningOf(call.output)[t[i]] = MeaningOf(call.output.parts[class[i]])[idx[i]]
  <2>1. t[i] = idx[i] + Sums(sizes)[class[i] - 1]
    BY <1>14
  <2>2. PICK c \in 1 .. m : c = class[i]
    BY <1>13
  <2>3. PICK j \in 1 .. sizes[c] : j = idx[i]
    BY <1>13, <2>2
  <2>4. /\ j + Sums(sizes)[c - 1] \in 1 .. NumPatternsOf(call.input)
        /\ MeaningOf(call.input)[j + Sums(sizes)[c - 1]] = MeaningOf(call.input.parts[c])[j]
    BY <1>5, <1>16 DEF InUnion
  <2>5. /\ j + Sums(sizes)[c - 1] \in 1 .. NumPatternsOf(call.output)
        /\ MeaningOf(call.output)[j + Sums(sizes)[c - 1]] = MeaningOf(call.output.parts[c])[j]
    BY <1>5, <1>16 DEF InUnion
  <2>6. QED
    BY <2>1, <2>2, <2>3, <2>4, <2>5
<1>18. t \in Seq(1 .. NumPatternsOf(call.input)) /\ t \in Seq(1 .. NumPatternsOf(call.output))
       /\ Len(t) = n
  <2>1. t \in [1 .. n -> 1 .. NumPatternsOf(call.input)]
    BY <1>14, <1>17
  <2>2. t \in [1 .. n -> 1 .. NumPatternsOf(call.output)]
    BY <1>14, <1>17
  <2>3. QED
    BY <2>1, <2>2, TableIsSeq
<1>19. ASSUME NEW j \in 1 .. n PROVE Drawn(call.input, j)' /\ Drawn(call.output, j)'
  <2>1. draws'[j][1] = class[j] /\ draws'[j][2] = idx[j]
    BY <1>12
  <2>2. QED
    BY <1>15, <1>17, <2>1 DEF Drawn
<1>20. Drawing'
  BY <1>1, <1>15 DEF Drawing
<1>21. call'.op = "train" /\ call'.replacement = n
  BY <1>1, <1>10, <1>15
<1>22. Table'
  BY <1>15, <1>18, <1>19, <1>20, <1>21 DEF Table
<1>23. QED
  BY <1>1, <1>2, <1>15, <1>22, HeadInv

LEMMA SizesDifferInv ==
    ASSUME EpochInv, SizesDiffer
    PROVE  EpochInv'
  BY DEF SizesDiffer, EpochInv, Trained, Fresh
-----------------------------------------------------------------------------
(***************************************************************************)
(* The loop over the table                                                 *)
(***************************************************************************)
LEMMA LastIs ==
    ASSUME call.bunch \in Nat \ {0}, pos \in Nat \ {0}, Len(idxTable) \in Nat,
           pos <= Len(idxTable)
    PROVE  \E n \in Nat \ {0} :
              /\ LastOfBunch(pos) = pos + n - 1 /\ pos + n - 1 <= Len(idxTable)
              /\ \/ n = call.bunch
                 \/ pos + call.bunch > Len(idxTable) /\ pos + n - 1 = Len(idxTable)
<1>1. PICK p \in Nat \ {0} : p = pos
  OBVIOUS
<1>2. PICK b \in Nat \ {0} : b = call.bunch
  OBVIOUS
<1>3. PICK l \in Nat : l = Len(idxTable)
  OBVIOUS
<1>4. PICK u : u = Min({p + b - 1, l})
  OBVIOUS
<1>5. u = (IF p + b - 1 <= l THEN p + b - 1 ELSE l)
  <2>1. CASE p + b - 1 <= l
    BY <1>4, <2>1 DEF Min
  <2>2. CASE ~(p + b - 1 <= l)
    BY <1>4, <2>2 DEF Min
  <2>3. QED
    BY <2>1, <2>2
<1>6. LastOfBunch(pos) = u
  BY <1>1, <1>2, <1>3, <1>4 DEF LastOfBunch
<1>7. PICK n : n = u - p + 1
  OBVIOUS
<1>8. p <= l
  BY <1>1, <1>3
<1>9. /\ n \in Nat \ {0} /\ u = p + n - 1 /\ p + n - 1 <= l
      /\ n = b \/ (p + b > l /\ p + n - 1 = l)
  BY <1>5, <1>7, <1>8
<1>10. QED
  BY <1>1, <1>2, <1>3, <1>6, <1>9

\* A bunch of n patterns, those of the table from pos on.
Bunch(n) ==
    /\ n \in Nat \ {0} /\ Len(Indexes) = n /\ DOMAIN Indexes = 1 .. n
    /\ pos \in Nat \ {0} /\ Len(idxTable) \in Nat /\ pos + n - 1 <= Len(idxTable)
    /\ \A b \in 1 .. n : /\ pos + b - 1 \in 1 .. Len(idxTable)
                         /\ Indexes[b] = idxTable[pos + b - 1] - 1
    /\ \/ n = call.bunch
       \/ pos + call.bunch > Len(idxTable) /\ pos + n - 1 = Len(idxTable)

LEMMA BunchFacts ==
    ASSUME call.bunch \in Nat \ {0}, Table, Loop, pos <= Len(idxTable)
    PROVE  \E n : Bunch(n)
<1>1. pos \in Nat \ {0}
  BY DEF Loop
<1>2. Len(idxTable) \in Nat
  BY DEF Table
<1>3. PICK n \in Nat \ {0} :
         /\ LastOfBunch(pos) = pos + n - 1 /\ pos + n - 1 <= Len(idxTable)
         /\ \/ n = call.bunch
            \/ pos + call.bunch > Len(idxTable) /\ pos + n - 1 = Len(idxTable)
  BY <1>1, <1>2, LastIs
<1>4. LastOfBunch(pos) - pos + 1 = n
  BY <1>1, <1>3
<1>5. Indexes = [j \in 1 .. n |-> idxTable[pos + j - 1] - 1]
  BY <1>4 DEF Indexes
<1>6. PICK W : W = {idxTable[pos + j - 1] - 1 : j \in 1 .. n}
  OBVIOUS
<1>7. Indexes \in [1 .. n -> W]
  BY <1>5, <1>6
<1>8. Len(Indexes) = n /\ DOMAIN Indexes = 1 .. n
  BY <1>7, TableIsSeq
<1>9. ASSUME NEW b \in 1 .. n PROVE pos + b - 1 \in 1 .. Len(idxTable)
  BY <1>1, <1>2, <1>3
<1>10. ASSUME NEW b \in 1 .. n PROVE Indexes[b] = idxTable[pos + b - 1] - 1
  BY <1>5
<1>11. QED
  BY <1>1, <1>2, <1>3, <1>8, <1>9, <1>10 DEF Bunch

\* The columns of a bunch are the patterns of the table.
LEMMA ColumnIs ==
    ASSUME NEW td, Reads(td), idxTable \in Seq(1 .. NumPatternsOf(td)), store = InitStore,
           NEW n, Bunch(n), NEW b \in 1 .. n
    PROVE  Column(GetPatternBunch(td, Indexes, store), n, b - 1)
              = MeaningOf(td)[idxTable[pos + b - 1]]
<1>1. PICK rows : rows = [x \in 1 .. n |-> PatternOf(td, Indexes[x], InitStore)]
  OBVIOUS
<1>2. GetPatternBunch(td, Indexes, store) = BunchOf(rows, PatternSizeOf(td))
  BY <1>1 DEF GetPatternBunch, Bunch
<1>3. n \in Nat \ {0} /\ PatternSizeOf(td) \in Nat
  BY DEF Bunch, Reads
<1>4. Len(rows) = n
  <2>1. PICK W : W = {PatternOf(td, Indexes[x], InitStore) : x \in 1 .. n}
    OBVIOUS
  <2>2. rows \in [1 .. n -> W]
    BY <1>1, <2>1
  <2>3. QED
    BY <1>3, <2>2, TableIsSeq
<1>5. ASSUME NEW x \in 1 .. n
      PROVE  /\ rows[x] = MeaningOf(td)[idxTable[pos + x - 1]]
             /\ IsSequence(rows[x], PatternSizeOf(td))
  <2>1. pos + x - 1 \in 1 .. Len(idxTable)
    BY DEF Bunch
  <2>2. PICK i \in 1 .. NumPatternsOf(td) : i = idxTable[pos + x - 1]
    <3>1. PICK W : W = 1 .. NumPatternsOf(td)
      OBVIOUS
    <3>2. idxTable \in Seq(W)
      BY <3>1
    <3>3. idxTable[pos + x - 1] \in W
      BY <2>1, <3>2
    <3>4. QED
      BY <3>1, <3>3
  <2>3. Indexes[x] = i - 1
    BY <2>2 DEF Bunch
  <2>4. rows[x] = PatternOf(td, i - 1, InitStore)
    BY <1>1, <2>3
  <2>5. /\ PatternOf(td, i - 1, InitStore) = MeaningOf(td)[i]
        /\ IsSequence(MeaningOf(td)[i], PatternSizeOf(td))
    BY DEF Reads
  <2>6. QED
    BY <2>2, <2>4, <2>5
<1>6. Column(BunchOf(rows, PatternSizeOf(td)), n, b - 1) = rows[b]
  BY <1>3, <1>4, <1>5, ColumnOfBunch
<1>7. QED
  BY <1>2, <1>5, <1>6

\* A bunch more is handed.
LEMMA HandInv ==
    ASSUME EpochInv, Trained, status = "running", NEW n, Bunch(n),
           handed' = Append(handed, [b \in 1 .. n |-> Pair(pos + b - 1)]),
           pos' = pos + call.bunch, pos <= Len(idxTable),
           call' = call, store' = store, status' = status, idxTable' = idxTable, draws' = draws
    PROVE  EpochInv'
<1>1. store = InitStore /\ Table /\ Loop
  BY DEF EpochInv
<1>2. call.bunch \in Nat \ {0}
  BY CallFacts
<1>3. /\ pos \in Nat \ {0} /\ handed \in Seq(Seq(Shown))
      /\ FlattenSeq(handed) = [j \in 1 .. Used |-> Pair(j)]
      /\ \A b \in DOMAIN handed : Len(handed[b]) = call.bunch
  BY <1>1 DEF Loop
<1>4. /\ n \in Nat \ {0} /\ Len(idxTable) \in Nat /\ pos + n - 1 <= Len(idxTable)
      /\ \A b \in 1 .. n : pos + b - 1 \in 1 .. Len(idxTable)
      /\ \/ n = call.bunch
         \/ pos + call.bunch > Len(idxTable) /\ pos + n - 1 = Len(idxTable)
  BY DEF Bunch
<1>5. PICK x : x = [b \in 1 .. n |-> Pair(pos + b - 1)]
  OBVIOUS
<1>6. x \in Seq(Shown) /\ Len(x) = n
  <2>1. ASSUME NEW b \in 1 .. n PROVE Pair(pos + b - 1) \in Shown
    BY <1>4 DEF Shown
  <2>2. x \in [1 .. n -> Shown]
    BY <1>5, <2>1
  <2>3. QED
    BY <1>4, <2>2, TableIsSeq
<1>7. ASSUME NEW j PROVE Pair(j)' = Pair(j)
  BY DEF Pair
<1>8. Shown' = Shown
  BY <1>7 DEF Shown
<1>9. Used = pos - 1 /\ Used' = pos - 1 + n
  <2>1. PICK p \in Nat \ {0} : p = pos
    BY <1>3
  <2>2. PICK c \in Nat \ {0} : c = call.bunch
    BY <1>2
  <2>3. PICK l \in Nat : l = Len(idxTable)
    BY <1>4
  <2>4. /\ n \in Nat \ {0} /\ p + n - 1 <= l
        /\ \/ n = c
           \/ p + c > l /\ p + n - 1 = l
    BY <1>4, <2>1, <2>2, <2>3
  <2>5. Used = (IF p > l THEN l ELSE p - 1)
    BY <2>1, <2>3 DEF Used
  <2>6. Used' = (IF p + c > l THEN l ELSE p + c - 1)
    BY <2>1, <2>2, <2>3 DEF Used
  <2>7. Used = p - 1 /\ Used' = p - 1 + n
    BY <2>4, <2>5, <2>6
  <2>8. QED
    BY <2>1, <2>7
<1>10. handed' = Append(handed, x)
  BY <1>5
<1>11. handed' \in Seq(Seq(Shown')) /\ Len(handed') = Len(handed) + 1
       /\ handed'[Len(handed')] = x /\ \A b \in DOMAIN handed : handed'[b] = handed[b]
       /\ DOMAIN handed' = 1 .. Len(handed') /\ DOMAIN handed = 1 .. Len(handed)
       /\ Len(handed) \in Nat
  <2>1. PICK W : W = Seq(Shown)
    OBVIOUS
  <2>2. handed \in Seq(W) /\ x \in W
    BY <1>3, <1>6, <2>1
  <2>3. handed' \in Seq(W) /\ Len(handed') = Len(handed) + 1
        /\ handed'[Len(handed')] = x /\ \A b \in DOMAIN handed : handed'[b] = handed[b]
        /\ DOMAIN handed' = 1 .. Len(handed') /\ DOMAIN handed = 1 .. Len(handed)
        /\ Len(handed) \in Nat
    BY <1>10, <2>2
  <2>4. QED
    BY <1>8, <2>1, <2>3
<1>12. FlattenSeq(handed') = FlattenSeq(handed) \o x
  BY <1>3, <1>6, <1>10, FlattenAppend
<1>13. FlattenSeq(handed') = [j \in 1 .. Used' |-> Pair(j)']
  <2>1. PICK k \in Nat : k = pos - 1
    BY <1>3
  <2>2. PICK p : p = FlattenSeq(handed)
    OBVIOUS
  <2>3. p = [j \in 1 .. k |-> Pair(j)]
    BY <1>3, <1>9, <2>1, <2>2
  <2>4. p \in Seq(Shown)
    BY <1>3, <1>6, <2>2, FlattenAppend
  <2>5. Len(p) = k
    <3>1. PICK W : W = {Pair(j) : j \in 1 .. k}
      OBVIOUS
    <3>2. p \in [1 .. k -> W]
      BY <2>3, <3>1
    <3>3. QED
      BY <3>2, TableIsSeq
  <2>6. PICK q : q = p \o x
    OBVIOUS
  <2>7. q \in Seq(Shown) /\ Len(q) = k + n
    BY <1>6, <2>4, <2>5, <2>6
  <2>8. ASSUME NEW j \in 1 .. k + n PROVE q[j] = Pair(j)
    <3>1. CASE j <= k
      <4>1. j \in 1 .. k /\ j \in 1 .. Len(p)
        BY <2>5, <3>1
      <4>2. q[j] = p[j]
        BY <1>6, <2>4, <2>6, <4>1, Concatenated
      <4>3. QED
        BY <2>3, <4>1, <4>2
    <3>2. CASE ~(j <= k)
      <4>1. PICK b \in 1 .. n : b = j - k
        BY <1>4, <3>2
      <4>2. j = k + b /\ pos + b - 1 = j /\ b \in 1 .. Len(x)
        BY <1>3, <1>6, <2>1, <4>1
      <4>3. q[k + b] = x[b]
        BY <1>6, <2>4, <2>5, <2>6, <4>2, Concatenated
      <4>4. x[b] = Pair(pos + b - 1)
        BY <1>5
      <4>5. QED
        BY <4>2, <4>3, <4>4
    <3>3. QED
      BY <3>1, <3>2
  <2>9. q = [j \in 1 .. k + n |-> q[j]]
    BY <2>7
  <2>10. q = [j \in 1 .. k + n |-> Pair(j)]
    BY <2>8, <2>9
  <2>11. Used' = k + n
    BY <1>9, <2>1
  <2>12. QED
    BY <1>7, <1>12, <2>2, <2>6, <2>10, <2>11
<1>14. pos' \in Nat \ {0}
  BY <1>2, <1>3
<1>15. ASSUME NEW b \in DOMAIN handed'
       PROVE  Len(handed'[b]) = call.bunch \/ (b = Len(handed') /\ pos' > Len(idxTable))
  <2>1. CASE b \in DOMAIN handed
    BY <1>3, <1>11, <2>1
  <2>2. CASE b \notin DOMAIN handed
    <3>1. b = Len(handed')
      BY <1>11, <2>2
    <3>2. Len(handed'[b]) = n
      BY <1>6, <1>11, <3>1
    <3>3. QED
      BY <1>4, <3>1, <3>2
  <2>3. QED
    BY <2>1, <2>2
<1>16. Loop'
  BY <1>11, <1>13, <1>14, <1>15 DEF Loop
<1>17. Table'
  BY <1>1 DEF Table, Drawing, Drawn
<1>18. QED
  BY <1>16, <1>17 DEF EpochInv, Trained

LEMMA StepInv ==
    ASSUME EpochInv, Step
    PROVE  EpochInv'
<1>1. status = "running" /\ call.op = "train" /\ pos <= Len(idxTable)
  BY DEF Step, Loops
<1>2. Trained
  BY <1>1 DEF Trained
<1>3. Table /\ Loop /\ store = InitStore
  BY <1>1, <1>2 DEF EpochInv
<1>4. call.bunch \in Nat \ {0} /\ Reads(call.input) /\ Reads(call.output)
  BY <1>1, <1>2, CallFacts
<1>5. PICK n : Bunch(n)
  BY <1>1, <1>3, <1>4, BunchFacts
<1>6. Len(Indexes) = n /\ n \in Nat \ {0}
  BY <1>5 DEF Bunch
<1>7. /\ handed' = Append(handed, [b \in 1 .. n |->
            [input |-> Column(GetPatternBunch(call.input, Indexes, store), n, b - 1),
             output |-> Column(GetPatternBunch(call.output, Indexes, store), n, b - 1)]])
      /\ pos' = pos + call.bunch
      /\ call' = call /\ store' = store /\ status' = status /\ idxTable' = idxTable
      /\ draws' = draws
  BY <1>6 DEF Step
<1>8. ASSUME NEW b \in 1 .. n
      PROVE  [input |-> Column(GetPatternBunch(call.input, Indexes, store), n, b - 1),
              output |-> Column(GetPatternBunch(call.output, Indexes, store), n, b - 1)]
                = Pair(pos + b - 1)
  <2>1. PICK j \in 1 .. Len(idxTable) : j = pos + b - 1
    BY <1>5 DEF Bunch
  <2>2. idxTable \in Seq(1 .. NumPatternsOf(call.input))
        /\ idxTable \in Seq(1 .. NumPatternsOf(call.output))
    BY <1>1, <1>3 DEF Table
  <2>3. Column(GetPatternBunch(call.input, Indexes, store), n, b - 1)
           = MeaningOf(call.input)[idxTable[j]]
    BY <1>3, <1>4, <1>5, <2>1, <2>2, ColumnIs
  <2>4. Column(GetPatternBunch(call.output, Indexes, store), n, b - 1)
           = MeaningOf(call.output)[idxTable[j]]
    BY <1>3, <1>4, <1>5, <2>1, <2>2, ColumnIs
  <2>5. Pair(j) = [input |-> MeaningOf(call.input)[idxTable[j]],
                   output |-> MeaningOf(call.output)[idxTable[j]]]
    <3>1. CASE draws = <<>>
      BY <1>1, <3>1 DEF Pair
    <3>2. CASE draws # <<>>
      <4>1. Drawn(call.input, j) /\ Drawn(call.output, j)
        BY <1>3, <3>2 DEF Table
      <4>2. QED
        BY <1>1, <3>2, <4>1 DEF Pair, Drawn
    <3>3. QED
      BY <3>1, <3>2
  <2>6. QED
    BY <2>1, <2>3, <2>4, <2>5
<1>9. handed' = Append(handed, [b \in 1 .. n |-> Pair(pos + b - 1)])
  BY <1>7, <1>8
<1>10. QED
  BY <1>1, <1>2, <1>5, <1>7, <1>9, HandInv

LEMMA CallFunctionInv ==
    ASSUME EpochInv, CallFunction
    PROVE  EpochInv'
<1>1. status = "running" /\ call.op = "each" /\ pos <= Len(idxTable)
  BY DEF CallFunction, Loops
<1>2. Trained
  BY <1>1 DEF Trained
<1>3. Table /\ Loop /\ store = InitStore
  BY <1>1, <1>2 DEF EpochInv
<1>4. call.bunch \in Nat \ {0} /\ Reads(call.input)
  BY <1>2, CallFacts
<1>5. PICK n : Bunch(n)
  BY <1>1, <1>3, <1>4, BunchFacts
<1>6. Len(Indexes) = n /\ n \in Nat \ {0}
  BY <1>5 DEF Bunch
<1>7. /\ handed' = Append(handed, [b \in 1 .. n |->
            [input |-> Column(GetPatternBunch(call.input, Indexes, store), n, b - 1),
             output |-> Indexes[b]]])
      /\ pos' = pos + call.bunch
      /\ call' = call /\ store' = store /\ status' = status /\ idxTable' = idxTable
      /\ draws' = draws
  BY <1>6 DEF CallFunction
<1>8. ASSUME NEW b \in 1 .. n
      PROVE  [input |-> Column(GetPatternBunch(call.input, Indexes, store), n, b - 1),
              output |-> Indexes[b]] = Pair(pos + b - 1)
  <2>1. PICK j \in 1 .. Len(idxTable) : j = pos + b - 1 /\ Indexes[b] = idxTable[j] - 1
    BY <1>5 DEF Bunch
  <2>2. idxTable \in Seq(1 .. NumPatternsOf(call.input)) /\ idxTable[j] = j
    BY <1>1, <1>3 DEF Table
  <2>3. Column(GetPatternBunch(call.input, Indexes, store), n, b - 1)
           = MeaningOf(call.input)[idxTable[j]]
    BY <1>3, <1>4, <1>5, <2>1, <2>2, ColumnIs
  <2>4. Pair(j) = [input |-> MeaningOf(call.input)[j], output |-> j - 1]
    BY <1>1 DEF Pair
  <2>5. QED
    BY <2>1, <2>2, <2>3, <2>4
<1>9. handed' = Append(handed, [b \in 1 .. n |-> Pair(pos + b - 1)])
  BY <1>7, <1>8
<1>10. QED
  BY <1>1, <1>2, <1>5, <1>7, <1>9, HandInv

LEMMA ReturnInv ==
    ASSUME EpochInv, Return
    PROVE  EpochInv'
<1>1. /\ status = "running" /\ pos > Len(idxTable) /\ status' = "returned"
      /\ call' = call /\ store' = store /\ idxTable' = idxTable /\ pos' = pos
      /\ handed' = handed /\ draws' = draws
  BY DEF Return
<1>2. CASE ~Trained
  BY <1>1, <1>2 DEF EpochInv, Trained
<1>3. CASE Trained
  <2>1. Table /\ Loop /\ store = InitStore
    BY <1>1, <1>3 DEF EpochInv
  <2>2. Table'
    BY <1>1, <2>1 DEF Table, Drawing, Drawn
  <2>3. ASSUME NEW j PROVE Pair(j)' = Pair(j)
    BY <1>1 DEF Pair
  <2>4. Shown' = Shown /\ Used' = Used
    BY <1>1, <2>3 DEF Shown, Used
  <2>5. Loop'
    BY <1>1, <2>1, <2>3, <2>4 DEF Loop
  <2>6. QED
    BY <1>1, <2>1, <2>2, <2>5 DEF EpochInv, Trained
<1>4. QED
  BY <1>2, <1>3

\* A call that does not train keeps its arguments.
LEMMA OthersInv ==
    ASSUME EpochInv, UseBunch \/ UseNotImplemented \/ OtherCall
    PROVE  EpochInv'
<1>1. call' = call /\ call.op \notin {"train", "each"}
  BY DEF UseBunch, UseNotImplemented, OtherCall, Loops
<1>2. QED
  BY <1>1 DEF EpochInv, Trained

LEMMA StutterInv ==
    ASSUME EpochInv, UNCHANGED epochVars
    PROVE  EpochInv'
<1>1. /\ status' = status /\ call' = call /\ store' = store /\ idxTable' = idxTable
      /\ pos' = pos /\ handed' = handed /\ draws' = draws
  BY DEF epochVars
<1>2. Table => Table'
  BY <1>1 DEF Table, Drawing, Drawn
<1>3. ASSUME NEW j PROVE Pair(j)' = Pair(j)
  BY <1>1 DEF Pair
<1>4. Shown' = Shown /\ Used' = Used
  BY <1>1, <1>3 DEF Shown, Used
<1>5. Loop => Loop'
  BY <1>1, <1>3, <1>4 DEF Loop
<1>6. QED
  BY <1>1, <1>2, <1>5 DEF EpochInv, Trained, Fresh

(***************************************************************************)
(* The table that the head of a call makes is of patterns of its datasets, *)
(* each as often as the mode says, and the loop hands what the table says. *)
(***************************************************************************)
THEOREM EpochsHold == EpochSpec => []EpochInv
<1>1. EpochInit => EpochInv
  BY DEF EpochInit, EpochInv, Fresh
<1>2. EpochInv /\ [EpochNext \/ OtherCall]_epochVars => EpochInv'
  <2> SUFFICES ASSUME EpochInv, [EpochNext \/ OtherCall]_epochVars
               PROVE  EpochInv'
    OBVIOUS
  <2>1. CASE SizesDiffer
    BY <2>1, SizesDifferInv
  <2>2. CASE Sequential
    BY <2>2, SequentialInv
  <2>3. CASE Shuffle
    BY <2>3, ShuffleInv
  <2>4. CASE Replacement
    BY <2>4, ReplacementInv
  <2>5. CASE Distribution
    BY <2>5, DistributionInv
  <2>6. CASE InOrder
    BY <2>6, InOrderInv
  <2>7. CASE Step
    BY <2>7, StepInv
  <2>8. CASE CallFunction
    BY <2>8, CallFunctionInv
  <2>9. CASE UseBunch \/ UseNotImplemented \/ OtherCall
    BY <2>9, OthersInv
  <2>10. CASE Return
    BY <2>10, ReturnInv
  <2>11. CASE UNCHANGED epochVars
    BY <2>11, StutterInv
  <2>12. QED
    BY <2>1, <2>2, <2>3, <2>4, <2>5, <2>6, <2>7, <2>8, <2>9, <2>10, <2>11 DEF EpochNext
<1>3. QED
  BY <1>1, <1>2, PTL DEF EpochSpec

LEMMA EmptyHands ==
    ASSUME Fresh
    PROVE  FlattenSeq(handed) = <<>> /\ DOMAIN handed = {}
  BY DEF Fresh, FlattenSeq

\* What is handed is as many as have been used.
LEMMA HandedLength ==
    ASSUME Table, Loop
    PROVE  /\ Used \in Nat /\ Len(FlattenSeq(handed)) = Used
           /\ DOMAIN FlattenSeq(handed) = 1 .. Used
<1>1. Used \in Nat
  <2>1. Len(idxTable) \in Nat /\ pos \in Nat \ {0}
    BY DEF Table, Loop
  <2>2. QED
    BY <2>1 DEF Used
<1>2. PICK k \in Nat : k = Used
  BY <1>1
<1>3. PICK p : p = FlattenSeq(handed)
  OBVIOUS
<1>4. p = [j \in 1 .. k |-> Pair(j)]
  BY <1>2, <1>3 DEF Loop
<1>5. PICK W : W = {Pair(j) : j \in 1 .. k}
  OBVIOUS
<1>6. p \in [1 .. k -> W]
  BY <1>4, <1>5
<1>7. Len(p) = k /\ DOMAIN p = 1 .. k
  BY <1>6, TableIsSeq
<1>8. QED
  BY <1>2, <1>3, <1>7

(***************************************************************************)
(* An epoch over any datasets hands the network each input with its own    *)
(* target, in bunches of bunch_size but the last one.                      *)
(***************************************************************************)
THEOREM EpochsTrainPairs == EpochSpec => []TrainsPairs
<1>1. EpochInv => TrainsPairs
  <2> SUFFICES ASSUME EpochInv, Trained
               PROVE  /\ \A j \in DOMAIN FlattenSeq(handed) : FlattenSeq(handed)[j] = Pair(j)
                      /\ \A b \in DOMAIN handed :
                            \/ Len(handed[b]) = call.bunch
                            \/ b = Len(handed) /\ Len(FlattenSeq(handed)) = Len(idxTable)
    BY DEF TrainsPairs, Trained
  <2>1. CASE Fresh
    BY <2>1, EmptyHands
  <2>2. CASE Table /\ Loop
    <3>1. DOMAIN FlattenSeq(handed) = 1 .. Used /\ Len(FlattenSeq(handed)) = Used
      BY <2>2, HandedLength
    <3>2. ASSUME NEW j \in 1 .. Used PROVE FlattenSeq(handed)[j] = Pair(j)
      BY <2>2 DEF Loop
    <3>3. pos > Len(idxTable) => Used = Len(idxTable)
      BY DEF Used
    <3>4. QED
      BY <2>2, <3>1, <3>2, <3>3 DEF Loop
  <2>3. QED
    BY <2>1, <2>2 DEF EpochInv
<1>2. QED
  BY <1>1, EpochsHold, PTL

(***************************************************************************)
(* A sequential or shuffled epoch, and for_each_pattern, over any dataset  *)
(* end after every pattern exactly once; one with replacement after as     *)
(* many as it was asked for.                                               *)
(***************************************************************************)
THEOREM EpochsAreWhole == EpochSpec => []WholeEpoch
<1>1. EpochInv => WholeEpoch
  <2> SUFFICES ASSUME EpochInv, Trained, status = "returned"
               PROVE  IF Drawing THEN Len(FlattenSeq(handed)) = call.replacement
                      ELSE /\ Len(FlattenSeq(handed)) = NumPatternsOf(call.input)
                           /\ \A i \in 1 .. NumPatternsOf(call.input) :
                                 \E j \in DOMAIN idxTable : idxTable[j] = i
    BY DEF WholeEpoch, Trained, Drawing
  <2>1. Table /\ Loop
    BY DEF EpochInv
  <2>2. Used = Len(idxTable)
    BY <2>1 DEF Loop, Used
  <2>3. Len(FlattenSeq(handed)) = Len(idxTable)
    BY <2>1, <2>2, HandedLength
  <2>4. QED
    BY <2>1, <2>3 DEF Table
<1>2. QED
  BY <1>1, EpochsHold, PTL
=============================================================================
