------------------------ MODULE TokenReferencesProof ------------------------
(***************************************************************************)
(* Proofs about TokenReferences: for any acyclic networks, any addresses   *)
(* and any script, the counts are exact, nothing dangles and nothing       *)
(* leaks.                                                                  *)
(***************************************************************************)
EXTENDS TokenReferences, FiniteSetTheorems, TLAPS

(***************************************************************************)
(* A heap as the handlers and the destructors leave it.                    *)
(***************************************************************************)
IsHeap(h) ==
    /\ h = [at |-> h.at, type |-> h.type, refs |-> h.refs, dying |-> h.dying]
    /\ h.at \in [DOMAIN h.at -> Live(h) \cup {Null}] /\ IsFiniteSet(DOMAIN h.at)
    /\ h.type \in [Live(h) -> {"mem", "sparse", "vector"}]
    /\ Live(h) \subseteq Tokens
    /\ h.refs \in [Live(h) -> Int]

Counted(h) == \A t \in Live(h) : h.refs[t] = Held(h, t, DOMAIN h.at)

Zeroes(h) == {t \in Live(h) : h.refs[t] = 0}

\* The entries of each token are numbered from 1.
Placed(h) ==
    /\ Roots \subseteq DOMAIN h.at
    /\ \A p \in DOMAIN h.at \ Roots : \E t \in Live(h), i \in Nat \ {0} : p = Entry(t, i)
    /\ \A t \in Live(h) : \E n \in Nat : EntriesOf(h, t) = {Entry(t, i) : i \in 1 .. n}

\* Each vector of a join has an entry for each child and is of nobody else,
\* but for the gradients, which may be passed on whole.
VectorRoots == {p \in Roots : p.member \in Vectors}

Owns(h) ==
    \A p \in VectorRoots : h.at[p] # Null =>
        /\ EntriesOf(h, h.at[p]) = {Entry(h.at[p], i) : i \in DOMAIN Children[p.of]}
        /\ \A q \in DOMAIN h.at :
              /\ h.at[q] = h.at[p]
              /\ q \in VectorRoots \/ p.member # "error_output_vector"
              => q = p

Sound(h) == IsHeap(h) /\ Counted(h) /\ h.dying = Zeroes(h) /\ Placed(h) /\ Owns(h)

(***************************************************************************)
(* What is left of a call: a join that waits for a child is not below what *)
(* runs before the child returns, and the entry it waits for is empty.     *)
(***************************************************************************)
Phase(op) ==
    CASE op \in {"forward", "forward_child", "forwarded", "end_forward"} -> "forward"
      [] op \in {"backprop", "backprop_child", "backpropped", "end_backprop"} -> "backprop"
      [] OTHER -> op

Loops == {"forward_child", "backprop_child"}
Keeps == {"forwarded", "backpropped"}
Ends == {"end_forward", "end_backprop"}
Steps == [op : Loops \cup Keeps \cup Ends \cup
               {"forward", "backprop", "gradient", "update", "reset", "build", "destroy"},
          c : Components, i : Nat]

TodoInv ==
    /\ todo \in Seq(Steps)
    /\ \A k \in DOMAIN todo :
          /\ Phase(todo[k].op) = call
          /\ todo[k].op \in Loops \cup Keeps =>
                Kind[todo[k].c] = "join" /\ todo[k].i \in DOMAIN Children[todo[k].c]
    /\ \A j, k \in DOMAIN todo :
          j < k /\ todo[k].op \in Keeps => todo[k].c \notin Below[todo[j].c]

Awaited(h, s) ==
    Entry(h.at[Member(s.c, IF s.op = "forwarded" THEN "output_vector"
                                                 ELSE "error_output_vector")], s.i)

Waiting == \A k \in DOMAIN todo : todo[k].op \in Keeps => heap.at[Awaited(heap, todo[k])] = Null

(***************************************************************************)
(* Whoever passes a pointer on has it in a place that the one who takes it *)
(* does not release before it has it.                                      *)
(***************************************************************************)
Holds(h, t, p) ==
    /\ p \in DOMAIN h.at /\ h.at[p] = t
    /\ p \in Roots \/ \E q \in VectorRoots : h.at[q] = p.of

Passing == todo = <<>> \/ Head(todo).op \notin Loops \cup Ends

Lasting(p) ==
    p.member \in {"userdata", "entry", IF call = "forward" THEN "output" ELSE "error_output"}

HandInv ==
    hand # Null => \E p \in DOMAIN heap.at : Holds(heap, hand, p) /\ (Passing => Lasting(p))

ScriptInv ==
    /\ call \in {"none", "forward", "backprop", "gradient", "update", "reset", "build", "destroy"}
    /\ call \notin {"forward", "backprop", "gradient"} => hand = Null
    /\ call # "none" => Unused # {}
    /\ call \in {"forward", "backprop"} \/ last[1] \in {"forward", "backprop"} => Built
    /\ call = "destroy" => last[1] \notin {"forward", "backprop"}
    /\ outcome \in {"running", "error", "wild"}

TokensInv == Sound(heap) /\ TodoInv /\ Waiting /\ HandInv /\ ScriptInv
-----------------------------------------------------------------------------
(***************************************************************************)
(* Counting the places of P in which f is t                                *)
(***************************************************************************)
Count(f, t, P) == Cardinality({p \in P : f[p] = t})

LEMMA CountIsHeld == \A h, t, P : Held(h, t, P) = Count(h.at, t, P)
  BY DEF Held, Count

LEMMA CountFinite ==
    ASSUME NEW f, NEW t, NEW P, IsFiniteSet(P)
    PROVE  IsFiniteSet({p \in P : f[p] = t}) /\ Count(f, t, P) \in Nat
<1>1. {p \in P : f[p] = t} \in SUBSET P
  OBVIOUS
<1>2. IsFiniteSet({p \in P : f[p] = t})
  BY <1>1, FS_Subset
<1>3. QED
  BY <1>2, FS_CardinalityType DEF Count

\* It depends on those places alone.
LEMMA CountSame ==
    ASSUME NEW f, NEW g, NEW t, NEW P, NEW Q,
           \A p \in P : f[p] = t => p \in Q /\ g[p] = t,
           \A p \in Q : g[p] = t => p \in P /\ f[p] = t
    PROVE  Count(f, t, P) = Count(g, t, Q)
<1>1. {p \in P : f[p] = t} = {p \in Q : g[p] = t}
  OBVIOUS
<1>2. QED
  BY <1>1 DEF Count

\* A set of places splits in two.
LEMMA CountSplit ==
    ASSUME NEW f, NEW t, NEW D, NEW P, P \subseteq D, IsFiniteSet(D)
    PROVE  /\ Count(f, t, D) \in Nat /\ Count(f, t, P) \in Nat /\ Count(f, t, D \ P) \in Nat
           /\ Count(f, t, D) = Count(f, t, P) + Count(f, t, D \ P)
<1> DEFINE A == {p \in P : f[p] = t}
           B == {p \in D \ P : f[p] = t}
           C == {p \in D : f[p] = t}
<1>1. IsFiniteSet(P) /\ IsFiniteSet(D \ P)
  BY FS_Subset
<1>2. /\ IsFiniteSet(A) /\ IsFiniteSet(B)
      /\ Count(f, t, D) \in Nat /\ Count(f, t, P) \in Nat /\ Count(f, t, D \ P) \in Nat
  BY <1>1, CountFinite
<1>3. C = A \cup B /\ A \cap B = {}
  OBVIOUS
<1>4. Cardinality(A \cup B) = Cardinality(A) + Cardinality(B) - Cardinality(A \cap B)
  BY <1>2, FS_Union
<1>5. Cardinality({}) = 0
  BY FS_EmptySet
<1>6. /\ Count(f, t, D) = Cardinality(C) /\ Count(f, t, P) = Cardinality(A)
      /\ Count(f, t, D \ P) = Cardinality(B)
  BY DEF Count
<1>7. Cardinality(C) = Cardinality(A) + Cardinality(B) - 0
  BY <1>3, <1>4, <1>5, Zenon
<1> HIDE DEF A, B, C
<1>8. Cardinality(A) \in Nat /\ Cardinality(B) \in Nat
  BY <1>2, <1>6
<1>9. QED
  BY <1>2, <1>6, <1>7, <1>8

\* No place holds what has the count zero.
LEMMA CountZero ==
    ASSUME NEW f, NEW t, NEW P, IsFiniteSet(P)
    PROVE  Count(f, t, P) = 0 <=> \A p \in P : f[p] # t
<1>1. IsFiniteSet({p \in P : f[p] = t})
  BY CountFinite
<1>2. Count(f, t, P) = 0 <=> {p \in P : f[p] = t} = {}
  BY <1>1, FS_EmptySet DEF Count
<1>3. QED
  BY <1>2

\* What a place holds is alive.
LEMMA HeldLives ==
    ASSUME NEW h, IsHeap(h), Counted(h)
    PROVE  /\ \A t \in Live(h) : h.refs[t] \in Nat
           /\ \A t \in Live(h) : t \in Zeroes(h) <=> \A p \in DOMAIN h.at : h.at[p] # t
           /\ \A p \in DOMAIN h.at : h.at[p] \in (Live(h) \ Zeroes(h)) \cup {Null}
<1>1. IsFiniteSet(DOMAIN h.at)
  BY DEF IsHeap
<1>2. ASSUME NEW t \in Live(h)
      PROVE  h.refs[t] \in Nat /\ (t \in Zeroes(h) <=> \A p \in DOMAIN h.at : h.at[p] # t)
  <2>1. h.refs[t] = Count(h.at, t, DOMAIN h.at)
    BY CountIsHeld DEF Counted
  <2>2. /\ Count(h.at, t, DOMAIN h.at) \in Nat
        /\ Count(h.at, t, DOMAIN h.at) = 0 <=> \A p \in DOMAIN h.at : h.at[p] # t
    BY <1>1, CountZero, CountFinite
  <2>3. QED
    BY <2>1, <2>2 DEF Zeroes
<1>3. \A p \in DOMAIN h.at : h.at[p] \in Live(h) \cup {Null}
  BY DEF IsHeap
<1>4. QED
  BY <1>2, <1>3

\* Release takes the references of its places away.
LEMMA ReleaseCounted ==
    ASSUME NEW h, IsHeap(h), Counted(h), h.dying = Zeroes(h), NEW P \in SUBSET DOMAIN h.at
    PROVE  /\ IsHeap(Release(h, P)) /\ Counted(Release(h, P))
           /\ Release(h, P).at = [p \in DOMAIN h.at |-> IF p \in P THEN Null ELSE h.at[p]]
           /\ Release(h, P).type = h.type
           /\ Release(h, P).dying = Zeroes(Release(h, P))
<1> DEFINE g == Release(h, P)
           taken == {h.at[p] : p \in P} \ {Null}
           left == [t \in taken |-> h.refs[t] - Held(h, t, P)]
           at == [p \in DOMAIN h.at |-> IF p \in P THEN Null ELSE h.at[p]]
           refs == [t \in Live(h) |-> IF t \in taken THEN left[t] ELSE h.refs[t]]
<1>1. /\ taken \subseteq Live(h) /\ IsFiniteSet(DOMAIN h.at)
      /\ h.refs \in [Live(h) -> Int] /\ DOMAIN h.at = DOMAIN at
  BY DEF IsHeap
<1>2. Updated(h.at, [p \in P |-> Null]) = at
  BY DEF Updated
<1>3. Updated(h.refs, left) = refs
  BY <1>1 DEF Updated
<1>4. g = [at |-> at, type |-> h.type, refs |-> refs,
           dying |-> h.dying \cup {t \in taken : Zero(left[t])}]
  <2> HIDE DEF taken
  <2>1. g = [h EXCEPT !.at = Updated(@, [p \in P |-> Null]), !.refs = Updated(@, left),
                      !.dying = @ \cup {t \in DOMAIN left : Zero(left[t])}]
    BY DEF Release, taken
  <2>2. DOMAIN left = taken
    OBVIOUS
  <2> HIDE DEF left, at, refs
  <2>3. g = [h EXCEPT !.at = at, !.refs = refs,
                      !.dying = h.dying \cup {t \in taken : Zero(left[t])}]
    BY <2>1, <2>2, <1>2, <1>3
  <2> HIDE DEF g
  <2>4. h = [at |-> h.at, type |-> h.type, refs |-> h.refs, dying |-> h.dying]
    BY DEF IsHeap
  <2>5. QED
    BY <2>3, <2>4
<1>5. ASSUME NEW t \in Live(h)
      PROVE  /\ refs[t] = Count(at, t, DOMAIN at)
             /\ refs[t] \in Int
             /\ t \in taken => left[t] = refs[t]
             /\ t \notin taken => refs[t] = h.refs[t]
  <2>1. t # Null
    BY TreeAssumption DEF IsHeap
  <2>2. Count(at, t, DOMAIN at) = Count(h.at, t, DOMAIN h.at \ P)
    <3>1. /\ \A p \in DOMAIN at : at[p] = t => p \in DOMAIN h.at \ P /\ h.at[p] = t
          /\ \A p \in DOMAIN h.at \ P : h.at[p] = t => p \in DOMAIN at /\ at[p] = t
      BY <2>1
    <3> HIDE DEF at
    <3>2. QED
      BY <3>1, CountSame
  <2>3. /\ Count(h.at, t, DOMAIN h.at) \in Nat /\ Count(h.at, t, P) \in Nat
        /\ Count(h.at, t, DOMAIN h.at)
              = Count(h.at, t, P) + Count(h.at, t, DOMAIN h.at \ P)
        /\ Count(h.at, t, DOMAIN h.at \ P) \in Nat
    <3> HIDE DEF at, refs, left, taken
    <3>1. P \subseteq DOMAIN h.at
      OBVIOUS
    <3>2. QED
      BY <1>1, <3>1, CountSplit
  <2>4. h.refs[t] = Count(h.at, t, DOMAIN h.at)
    BY CountIsHeld DEF Counted
  <2>5. CASE t \in taken
    <3>1. left[t] = h.refs[t] - Count(h.at, t, P)
      BY <2>5, CountIsHeld
    <3>2. refs[t] = left[t]
      BY <2>5
    <3> HIDE DEF refs, left, at, taken
    <3>3. QED
      BY <3>1, <3>2, <2>2, <2>3, <2>4, <2>5
  <2>6. CASE t \notin taken
    <3>1. \A p \in P : h.at[p] # t
      BY <2>1, <2>6
    <3>2. Count(h.at, t, P) = 0
      BY <1>1, <3>1, CountZero, FS_Subset
    <3>3. refs[t] = h.refs[t]
      BY <2>6
    <3> HIDE DEF refs, left, at, taken
    <3>4. QED
      BY <3>2, <3>3, <2>2, <2>3, <2>4, <2>6
  <2>7. QED
    BY <2>5, <2>6
<1>6. Live(g) = Live(h) /\ g.at = at /\ g.refs = refs
  <2> HIDE DEF at, refs, g
  <2>1. QED
    BY <1>4 DEF Live
<1>7. IsHeap(g)
  <2>1. at \in [DOMAIN at -> Live(h) \cup {Null}]
    BY DEF IsHeap
  <2>2. refs \in [Live(h) -> Int]
    BY <1>5
  <2>3. h.type \in [Live(h) -> {"mem", "sparse", "vector"}] /\ Live(h) \subseteq Tokens
    BY DEF IsHeap
  <2> HIDE DEF at, refs, g, left, taken
  <2>4. QED
    BY <1>1, <1>4, <1>6, <2>1, <2>2, <2>3 DEF IsHeap
<1>8. Counted(g)
  <2> HIDE DEF at, refs, g, left, taken
  <2>1. QED
    BY <1>5, <1>6, CountIsHeld DEF Counted
<1>9. h.dying \cup {t \in taken : Zero(left[t])} = Zeroes(g)
  <2>1. \A t \in Live(h) : h.refs[t] \in Nat
    BY HeldLives
  <2>2. \A t \in Live(g) : g.refs[t] \in Nat
    BY <1>7, <1>8, HeldLives
  <2>3. \A t \in taken : t \notin Zeroes(h)
    BY HeldLives DEF IsHeap
  <2> HIDE DEF at, refs, g, left, taken
  <2>4. \A t \in taken : Zero(left[t]) <=> g.refs[t] = 0
    <3>1. ASSUME NEW t \in taken
          PROVE  Zero(left[t]) <=> g.refs[t] = 0
      <4>1. left[t] = g.refs[t] /\ g.refs[t] \in Nat
        BY <1>1, <1>5, <1>6, <2>2
      <4>2. QED
        BY <4>1 DEF Zero
    <3>2. QED
      BY <3>1
  <2>5. \A t \in Live(h) \ taken : g.refs[t] = h.refs[t]
    BY <1>5, <1>6
  <2>6. QED
    BY <1>1, <1>6, <2>3, <2>4, <2>5 DEF Zeroes
<1>10. QED
  <2>1. g.dying = h.dying \cup {t \in taken : Zero(left[t])} /\ g.type = h.type
    <3> HIDE DEF at, refs, g, left, taken
    <3>1. QED
      BY <1>4
  <2>2. QED
    BY <1>6, <1>7, <1>8, <1>9, <2>1

\* Bind counts what its places, which were empty, take.
LEMMA BindCounted ==
    ASSUME NEW h, IsHeap(h), Counted(h),
           NEW v, DOMAIN v \subseteq DOMAIN h.at, v \in [DOMAIN v -> Live(h) \cup {Null}],
           \A p \in DOMAIN v : h.at[p] = Null
    PROVE  /\ IsHeap(Bind(h, v)) /\ Counted(Bind(h, v))
           /\ Bind(h, v).at = [p \in DOMAIN h.at |-> IF p \in DOMAIN v THEN v[p] ELSE h.at[p]]
           /\ Bind(h, v).type = h.type
           /\ Bind(h, v).dying = h.dying
           /\ Zeroes(Bind(h, v)) = Zeroes(h) \ {v[p] : p \in DOMAIN v}
<1> DEFINE g == Bind(h, v)
           D == DOMAIN v
           taken == {v[p] : p \in D} \ {Null}
           more == [t \in taken |-> h.refs[t] + Count(v, t, D)]
           at == [p \in DOMAIN h.at |-> IF p \in D THEN v[p] ELSE h.at[p]]
           refs == [t \in Live(h) |-> IF t \in taken THEN more[t] ELSE h.refs[t]]
<1>1. /\ taken \subseteq Live(h) /\ IsFiniteSet(DOMAIN h.at) /\ Null \notin Live(h)
      /\ h.refs \in [Live(h) -> Int] /\ DOMAIN h.at = DOMAIN at /\ D \subseteq DOMAIN at
  BY TreeAssumption DEF IsHeap
<1>2. Updated(h.at, v) = at
  BY DEF Updated
<1>3. Updated(h.refs, more) = refs
  BY <1>1 DEF Updated
<1>4. g = [at |-> at, type |-> h.type, refs |-> refs, dying |-> h.dying]
  <2>1. g = [h EXCEPT !.at = Updated(@, v), !.refs = Updated(@, more)]
    BY DEF Bind, Count
  <2> HIDE DEF more, at, refs
  <2>2. g = [h EXCEPT !.at = at, !.refs = refs]
    BY <2>1, <1>2, <1>3
  <2> HIDE DEF g
  <2>3. h = [at |-> h.at, type |-> h.type, refs |-> h.refs, dying |-> h.dying]
    BY DEF IsHeap
  <2>4. QED
    BY <2>2, <2>3
<1>5. ASSUME NEW t \in Live(h)
      PROVE  refs[t] = Count(at, t, DOMAIN at) /\ refs[t] \in Int
  <2>1. /\ Count(at, t, DOMAIN at) = Count(at, t, D) + Count(at, t, DOMAIN at \ D)
        /\ Count(at, t, D) \in Nat /\ Count(at, t, DOMAIN at \ D) \in Nat
    <3> HIDE DEF at
    <3>1. QED
      BY <1>1, CountSplit
  <2>2. Count(at, t, D) = Count(v, t, D)
    <3>1. \A p \in D : at[p] = v[p]
      BY <1>1
    <3> HIDE DEF at, D
    <3>2. QED
      BY <3>1, CountSame
  <2>3. Count(at, t, DOMAIN at \ D) = Count(h.at, t, DOMAIN h.at)
    <3>1. /\ \A p \in DOMAIN at \ D : at[p] = t => p \in DOMAIN h.at /\ h.at[p] = t
          /\ \A p \in DOMAIN h.at : h.at[p] = t => p \in DOMAIN at \ D /\ at[p] = t
      BY <1>1
    <3> HIDE DEF at, D
    <3>2. QED
      BY <3>1, CountSame
  <2>4. h.refs[t] = Count(h.at, t, DOMAIN h.at) /\ Count(h.at, t, DOMAIN h.at) \in Nat
    BY <1>1, CountFinite, CountIsHeld DEF Counted
  <2>5. CASE t \in taken
    <3>1. refs[t] = h.refs[t] + Count(v, t, D)
      BY <2>5
    <3> HIDE DEF at, refs, D, taken, more
    <3>2. QED
      BY <3>1, <2>1, <2>2, <2>3, <2>4
  <2>6. CASE t \notin taken
    <3>1. refs[t] = h.refs[t]
      BY <2>6
    <3>2. \A p \in D : v[p] # t
      BY <1>1, <2>6
    <3>3. IsFiniteSet(D)
      BY <1>1, FS_Subset
    <3> HIDE DEF at, refs, D, taken, more
    <3>4. Count(v, t, D) = 0
      BY <3>2, <3>3, CountZero
    <3>5. QED
      BY <3>1, <3>4, <2>1, <2>2, <2>3, <2>4
  <2>7. QED
    BY <2>5, <2>6
<1>6. Live(g) = Live(h) /\ g.at = at /\ g.refs = refs /\ g.type = h.type /\ g.dying = h.dying
  <2> HIDE DEF at, refs, g
  <2>1. QED
    BY <1>4 DEF Live
<1>7. IsHeap(g)
  <2>1. at \in [DOMAIN at -> Live(h) \cup {Null}]
    BY DEF IsHeap
  <2>2. refs \in [Live(h) -> Int]
    BY <1>5
  <2>3. h.type \in [Live(h) -> {"mem", "sparse", "vector"}] /\ Live(h) \subseteq Tokens
    BY DEF IsHeap
  <2> HIDE DEF at, refs, g, more, taken
  <2>4. QED
    BY <1>1, <1>4, <1>6, <2>1, <2>2, <2>3 DEF IsHeap
<1>8. Counted(g)
  <2> HIDE DEF at, refs, g, more, taken
  <2>1. QED
    BY <1>5, <1>6, CountIsHeld DEF Counted
<1>9. Zeroes(g) = Zeroes(h) \ {v[p] : p \in D}
  <2>1. \A t \in Live(g) : t \in Zeroes(g) <=> \A p \in DOMAIN g.at : g.at[p] # t
    BY <1>7, <1>8, HeldLives
  <2>2. \A t \in Live(h) : t \in Zeroes(h) <=> \A p \in DOMAIN h.at : h.at[p] # t
    BY HeldLives
  <2>3. \A t \in Live(h) : (\A p \in DOMAIN at : at[p] # t)
           <=> (\A p \in DOMAIN h.at : h.at[p] # t) /\ t \notin {v[p] : p \in D}
    BY <1>1
  <2> HIDE DEF at, refs, g, more, taken, D
  <2>4. QED
    BY <1>6, <2>1, <2>2, <2>3 DEF Zeroes
<1>10. QED
  BY <1>6, <1>7, <1>8, <1>9

\* The image of a finite set is finite.
LEMMA FiniteImage ==
    ASSUME NEW S, IsFiniteSet(S), NEW f
    PROVE  IsFiniteSet({f[x] : x \in S})
<1> DEFINE T == {f[x] : x \in S}
           g == [x \in S |-> f[x]]
<1>1. g \in Surjection(S, T)
  BY DEF Surjection
<1>2. QED
  BY <1>1, FS_Surjection

\* Entries are places of their own.
LEMMA EntriesApart ==
    \A t, i, s, j : Entry(t, i) = Entry(s, j) => t = s /\ i = j
  BY DEF Entry, Place

LEMMA RootsApart ==
    /\ \A p \in Roots : p.member \in Members \cup Vectors \cup {"userdata"}
    /\ \A p \in Roots : p.member # "entry"
    /\ \A t, i : Entry(t, i).member = "entry" /\ Entry(t, i).of = t /\ Entry(t, i).i = i
    /\ \A t, i : Entry(t, i) \notin Roots
<1>1. ASSUME NEW p \in Roots
      PROVE  p.member \in Members \cup Vectors \cup {"userdata"} /\ p.member # "entry"
  <2>1. CASE p \in Handles
    BY <2>1 DEF Handles, Place
  <2>2. ASSUME NEW c \in Components, p \in MemberPlaces(c)
        PROVE  p.member \in Members \cup Vectors
    <3>1. PICK f \in MembersOf(c) : p = Member(c, f)
      BY <2>2 DEF MemberPlaces
    <3>2. MembersOf(c) \subseteq Members \cup Vectors
      BY DEF MembersOf, Members, Vectors
    <3>3. QED
      BY <3>1, <3>2 DEF Member, Place
  <2>3. p \in Handles \/ \E c \in Components : p \in MemberPlaces(c)
    BY DEF Roots
  <2>4. p.member \in Members \cup Vectors \cup {"userdata"}
    BY <2>1, <2>2, <2>3
  <2>5. QED
    BY <2>4 DEF Members, Vectors
<1>2. \A t, i : Entry(t, i).member = "entry" /\ Entry(t, i).of = t /\ Entry(t, i).i = i
  BY DEF Entry, Place
<1>3. QED
  BY <1>1, <1>2

\* The entries that the tokens new[p] are made with.
Made(new, P, n) == UNION {{Entry(new[p], i) : i \in 1 .. n[p]} : p \in P}

LEMMA MadeFinite ==
    ASSUME NEW P, IsFiniteSet(P), NEW new, NEW n \in [P -> Nat]
    PROVE  /\ IsFiniteSet(Made(new, P, n))
           /\ \A x : x \in Made(new, P, n) <=> \E p \in P : \E i \in 1 .. n[p] : x = Entry(new[p], i)
<1> DEFINE one == [p \in P |-> {Entry(new[p], i) : i \in 1 .. n[p]}]
<1>1. Made(new, P, n) = UNION {one[p] : p \in P}
  BY DEF Made
<1>2. ASSUME NEW p \in P
      PROVE  IsFiniteSet(one[p])
  <2> DEFINE f == [i \in 1 .. n[p] |-> Entry(new[p], i)]
  <2>1. one[p] = {f[i] : i \in 1 .. n[p]}
    OBVIOUS
  <2>2. IsFiniteSet(1 .. n[p])
    BY FS_Interval
  <2> HIDE DEF f, one
  <2>3. QED
    BY <2>1, <2>2, FiniteImage
<1>3. IsFiniteSet({one[p] : p \in P})
  <2> HIDE DEF one
  <2>1. QED
    BY FiniteImage
<1>4. \A T \in {one[p] : p \in P} : IsFiniteSet(T)
  BY <1>2
<1>5. IsFiniteSet(UNION {one[p] : p \in P})
  BY <1>3, <1>4, FS_UNION
<1>6. QED
  BY <1>1, <1>5 DEF Made

\* The addresses that the allocator has for P.
Available(h, P) ==
    \A p \in P : /\ Free(h, p) # {} /\ Arena(p) \subseteq Tokens
                 /\ \A q \in P \ {p} : Arena(p) \cap Arena(q) = {}

\* The fields of a record that EXCEPT changes.
LEMMA ExceptThree ==
    ASSUME NEW h, NEW a, NEW y, NEW r, NEW d, NEW b, NEW z, NEW s,
           h = [at |-> a, type |-> y, refs |-> r, dying |-> d],
           NEW g, g = [h EXCEPT !.at = b, !.type = z, !.refs = s]
    PROVE  g = [at |-> b, type |-> z, refs |-> s, dying |-> d]
  OBVIOUS

\* New tokens are held by their places alone, and hold u.
LEMMA NewCounted ==
    ASSUME NEW h, IsHeap(h), Counted(h), h.dying = Zeroes(h), Placed(h),
           NEW P \in SUBSET DOMAIN h.at, \A p \in P : h.at[p] = Null, Available(h, P),
           NEW k \in {"mem", "sparse", "vector"}, NEW n \in [P -> Nat],
           NEW u \in (Live(h) \ h.dying) \cup {Null},
           NEW g, g = New(h, P, k, n, u)
    PROVE  /\ IsHeap(g) /\ Counted(g) /\ g.dying = Zeroes(g) /\ g.dying = h.dying
           /\ \A p \in P : g.at[p] \in Arena(p) \ Live(h)
           /\ \A p, q \in P : p # q => g.at[p] # g.at[q]
           /\ DOMAIN g.at = DOMAIN h.at \cup Made(g.at, P, n)
           /\ \A p \in DOMAIN h.at \ P : g.at[p] = h.at[p]
           /\ \A p \in Made(g.at, P, n) : g.at[p] = u
           /\ Live(g) = Live(h) \cup {g.at[p] : p \in P}
           /\ \A t \in Live(h) : g.type[t] = h.type[t]
           /\ \A p \in P : g.type[g.at[p]] = k
<1> DEFINE new == [p \in P |-> Fresh(h, p)]
           made == {new[p] : p \in P}
           own == Made(new, P, n)
           born == [at |-> Updated(h.at, [p \in own |-> Null]),
                    type |-> Updated(h.type, [t \in made |-> k]),
                    refs |-> Updated(h.refs, [t \in made |-> 0]),
                    dying |-> h.dying]
           v == Updated(new, [p \in own |-> u])
<1>1. g = Bind(born, v)
  <2>1. h = [at |-> h.at, type |-> h.type, refs |-> h.refs, dying |-> h.dying]
    BY DEF IsHeap
  <2>2. born = [h EXCEPT !.at = Updated(@, [p \in own |-> Null]),
                         !.type = Updated(@, [t \in made |-> k]),
                         !.refs = Updated(@, [t \in made |-> 0])]
    <3> DEFINE a == Updated(h.at, [p \in own |-> Null])
               y == Updated(h.type, [t \in made |-> k])
               r == Updated(h.refs, [t \in made |-> 0])
    <3>1. born = [at |-> a, type |-> y, refs |-> r, dying |-> h.dying]
      OBVIOUS
    <3> HIDE DEF a, y, r, born
    <3> DEFINE e == [h EXCEPT !.at = a, !.type = y, !.refs = r]
    <3>2. e = [h EXCEPT !.at = a, !.type = y, !.refs = r]
      OBVIOUS
    <3> HIDE DEF e
    <3>3. e = [at |-> a, type |-> y, refs |-> r, dying |-> h.dying]
      BY <2>1, <3>2, ExceptThree
    <3>4. QED
      BY <3>1, <3>2, <3>3 DEF a, y, r
  <2> HIDE DEF born
  <2>3. QED
    BY <2>2 DEF New, Made
<1>2. \A p \in P : new[p] \in Arena(p) \ Live(h) /\ new[p] \in Tokens /\ new[p] # Null
  BY TreeAssumption DEF Fresh, Free, Available
<1>3. \A p, q \in P : p # q => new[p] # new[q]
  BY <1>2 DEF Available
<1>4. IsFiniteSet(own) /\ \A x : x \in own <=> \E p \in P : \E i \in 1 .. n[p] : x = Entry(new[p], i)
  <2>1. IsFiniteSet(P)
    BY FS_Subset DEF IsHeap
  <2> HIDE DEF new
  <2>2. QED
    BY <2>1, MadeFinite
<1>5. own \cap DOMAIN h.at = {} /\ own \cap P = {}
  <2>1. ASSUME NEW p \in P, NEW i \in 1 .. n[p], Entry(new[p], i) \in DOMAIN h.at
        PROVE  FALSE
    <3>1. Entry(new[p], i) \notin Roots
      BY RootsApart
    <3>2. PICK t \in Live(h), j \in Nat \ {0} : Entry(new[p], i) = Entry(t, j)
      BY <2>1, <3>1 DEF Placed
    <3>3. QED
      BY <3>2, EntriesApart, <1>2
  <2> HIDE DEF own, new
  <2>2. QED
    BY <1>4, <2>1
<1>6. /\ born.at = [p \in DOMAIN h.at \cup own |-> IF p \in own THEN Null ELSE h.at[p]]
      /\ born.type = [t \in Live(h) \cup made |-> IF t \in made THEN k ELSE h.type[t]]
      /\ born.refs = [t \in Live(h) \cup made |-> IF t \in made THEN 0 ELSE h.refs[t]]
      /\ Live(born) = Live(h) \cup made
      /\ born.dying = h.dying
  <2> HIDE DEF own, made
  <2>1. QED
    BY DEF Updated, Live, IsHeap
<1>7. IsHeap(born)
  <2>1. IsFiniteSet(DOMAIN h.at \cup own)
    BY <1>4, FS_Union DEF IsHeap
  <2>2. made \subseteq Tokens
    BY <1>2
  <2>3. /\ h.at \in [DOMAIN h.at -> Live(h) \cup {Null}] /\ Live(h) \subseteq Tokens
        /\ h.type \in [Live(h) -> {"mem", "sparse", "vector"}] /\ h.refs \in [Live(h) -> Int]
    BY DEF IsHeap
  <2>4. born = [at |-> born.at, type |-> born.type, refs |-> born.refs, dying |-> born.dying]
    OBVIOUS
  <2> HIDE DEF born, own, made
  <2>5. born.at \in [DOMAIN born.at -> Live(born) \cup {Null}]
    BY <1>6, <2>3
  <2>6. born.type \in [Live(born) -> {"mem", "sparse", "vector"}] /\ born.refs \in [Live(born) -> Int]
    BY <1>6, <2>3
  <2>7. QED
    BY <1>6, <2>1, <2>2, <2>3, <2>4, <2>5, <2>6 DEF IsHeap
<1>8. ASSUME NEW t \in Live(born)
      PROVE  /\ born.refs[t] = Count(born.at, t, DOMAIN born.at)
             /\ t \in Zeroes(born) <=> t \in Zeroes(h) \cup made
  <2>1. t # Null
    BY <1>7, TreeAssumption DEF IsHeap
  <2>2. \A p \in DOMAIN h.at : h.at[p] \in Live(h) \cup {Null}
    BY DEF IsHeap
  <2>3. made \cap Live(h) = {}
    BY <1>2
  <2>4. CASE t \in made
    <3> HIDE DEF born, own, made
    <3>1. \A p \in DOMAIN born.at : born.at[p] # t
      BY <2>1, <2>2, <2>3, <2>4, <1>6
    <3>2. Count(born.at, t, DOMAIN born.at) = 0
      BY <1>7, <3>1, CountZero DEF IsHeap
    <3>3. QED
      BY <1>6, <3>2, <2>4 DEF Zeroes
  <2>5. CASE t \notin made
    <3> HIDE DEF born, own, made
    <3>1. h.refs[t] = Count(h.at, t, DOMAIN h.at)
      BY <1>6, <2>5, CountIsHeld DEF Counted
    <3>2. Count(born.at, t, DOMAIN born.at) = Count(h.at, t, DOMAIN h.at)
      <4>1. /\ \A p \in DOMAIN born.at : born.at[p] = t => p \in DOMAIN h.at /\ h.at[p] = t
            /\ \A p \in DOMAIN h.at : h.at[p] = t => p \in DOMAIN born.at /\ born.at[p] = t
        BY <1>5, <1>6, <2>1
      <4>2. QED
        BY <4>1, CountSame
    <3>3. QED
      BY <1>6, <2>5, <3>1, <3>2 DEF Zeroes
  <2>6. QED
    BY <2>4, <2>5
<1>9. Counted(born) /\ Zeroes(born) = Zeroes(h) \cup made
  <2> HIDE DEF born, own, made
  <2>1. Counted(born)
    BY <1>8, CountIsHeld DEF Counted
  <2>2. Zeroes(born) \subseteq Live(born) /\ Zeroes(h) \cup made \subseteq Live(born)
    BY <1>6 DEF Zeroes
  <2>3. QED
    BY <1>8, <2>1, <2>2
<1>10. /\ DOMAIN v = P \cup own
       /\ \A p \in P : v[p] = new[p]
       /\ \A p \in own : v[p] = u
       /\ v = [p \in P \cup own |-> IF p \in own THEN u ELSE new[p]]
  <2>1. v = [p \in P \cup own |-> IF p \in own THEN u ELSE new[p]]
    <3>1. DOMAIN new = P
      OBVIOUS
    <3> HIDE DEF own, new
    <3>2. QED
      BY <3>1 DEF Updated
  <2> HIDE DEF own, new, v
  <2>2. QED
    BY <2>1, <1>5
<1>11. /\ IsHeap(g) /\ Counted(g)
       /\ g.at = [p \in DOMAIN born.at |-> IF p \in DOMAIN v THEN v[p] ELSE born.at[p]]
       /\ g.type = born.type
       /\ g.dying = born.dying
       /\ Zeroes(g) = Zeroes(born) \ {v[p] : p \in DOMAIN v}
  <2>1. made \subseteq Live(born)
    BY <1>6
  <2>2. \A p \in P : new[p] \in made
    OBVIOUS
  <2>3. u \in Live(born) \cup {Null}
    BY <1>6
  <2> HIDE DEF born, own, new, made, v
  <2>4. DOMAIN v \subseteq DOMAIN born.at
    BY <1>6, <1>10
  <2>5. v \in [DOMAIN v -> Live(born) \cup {Null}]
    BY <1>10, <2>1, <2>2, <2>3
  <2>6. \A p \in DOMAIN v : born.at[p] = Null
    BY <1>6, <1>10
  <2>7. QED
    BY <1>1, <1>7, <1>9, <2>4, <2>5, <2>6, BindCounted
<1>12. /\ DOMAIN g.at = DOMAIN h.at \cup own
       /\ \A p \in P : g.at[p] = new[p]
       /\ \A p \in own : g.at[p] = u
       /\ \A p \in DOMAIN h.at \ P : g.at[p] = h.at[p]
       /\ Live(g) = Live(h) \cup made
  <2>1. Live(g) = Live(born)
    <3> HIDE DEF born
    <3>1. QED
      BY <1>11 DEF Live
  <2> HIDE DEF born, own, new, made, v
  <2>2. QED
    BY <2>1, <1>5, <1>6, <1>10, <1>11
<1>13. Zeroes(g) = h.dying
  <2>1. \A p \in P : new[p] \in made
    OBVIOUS
  <2>2. \A t \in made : \E p \in P : t = new[p]
    OBVIOUS
  <2>3. made \cap Live(h) = {}
    BY <1>2
  <2> HIDE DEF born, own, new, made, v
  <2>4. \A t \in made : t \in {v[p] : p \in DOMAIN v}
    BY <1>10, <2>2
  <2>5. \A t \in Zeroes(h) : t \notin {v[p] : p \in DOMAIN v}
    <3>1. Zeroes(h) \subseteq Live(h) /\ Null \notin Live(h) /\ u \notin Zeroes(h)
      BY TreeAssumption DEF Zeroes, IsHeap
    <3>2. QED
      BY <3>1, <1>10, <2>1, <2>3
  <2>6. QED
    BY <1>9, <1>11, <2>4, <2>5
<1>14. Made(g.at, P, n) = own /\ {g.at[p] : p \in P} = made
  <2>1. {g.at[p] : p \in P} = made
    <3> HIDE DEF new
    <3>1. QED
      BY <1>12
  <2>2. Made(g.at, P, n) = own
    <3> HIDE DEF new
    <3>1. QED
      BY <1>12 DEF Made
  <2>3. QED
    BY <2>1, <2>2
<1>15. QED
  <2>1. made \cap Live(h) = {}
    BY <1>2
  <2>2. \A p \in P : new[p] \in made
    OBVIOUS
  <2> HIDE DEF born, own, new, made, v
  <2>3. \A t \in Live(h) \cup made : g.type[t] = IF t \in made THEN k ELSE h.type[t]
    BY <1>6, <1>11
  <2>4. /\ \A t \in Live(h) : g.type[t] = h.type[t]
        /\ \A p \in P : g.type[g.at[p]] = k
    BY <1>12, <2>1, <2>2, <2>3
  <2>5. /\ \A p \in P : g.at[p] \in Arena(p) \ Live(h)
        /\ \A p, q \in P : p # q => g.at[p] # g.at[q]
    BY <1>2, <1>3, <1>12
  <2>6. g.dying = h.dying
    BY <1>6, <1>11
  <2>7. QED
    BY <1>11, <1>12, <1>13, <1>14, <2>4, <2>5, <2>6

-----------------------------------------------------------------------------
(***************************************************************************)
(* Places and networks                                                     *)
(***************************************************************************)
LEMMA Places ==
    /\ \A c, f : Member(c, f).of = c /\ Member(c, f).member = f
    /\ \A c \in Components : \A f \in MembersOf(c) : Member(c, f) \in Roots
    /\ \A c \in Components : Kind[c] = "join" =>
          MembersOf(c) = Members \cup Vectors /\ \A f \in Vectors : Member(c, f) \in VectorRoots
    /\ \A p \in VectorRoots : /\ p \in Roots /\ p.of \in Components /\ Kind[p.of] = "join"
                              /\ p.member \in Vectors /\ p = Member(p.of, p.member)
    /\ Handles \subseteq Roots /\ \A p \in Handles : p.member = "userdata"
    /\ \A p \in Roots : p \in Handles \/ \E c \in Components : \E f \in MembersOf(c) : p = Member(c, f)
<1>1. \A c, f : Member(c, f).of = c /\ Member(c, f).member = f
  BY DEF Member, Place
<1>2. ASSUME NEW c \in Components, NEW f \in MembersOf(c)
      PROVE  Member(c, f) \in Roots
  <2>1. Member(c, f) \in MemberPlaces(c)
    BY DEF MemberPlaces
  <2>2. QED
    BY <2>1 DEF Roots
<1>3. ASSUME NEW c \in Components, Kind[c] = "join"
      PROVE  MembersOf(c) = Members \cup Vectors /\ \A f \in Vectors : Member(c, f) \in VectorRoots
  <2>1. MembersOf(c) = Members \cup Vectors
    BY <1>3 DEF MembersOf
  <2>2. QED
    BY <2>1, <1>1, <1>2 DEF VectorRoots
<1>4. Handles \subseteq Roots /\ \A p \in Handles : p.member = "userdata"
  BY DEF Handles, Roots, Place
<1>5. ASSUME NEW p \in Roots, p \notin Handles
      PROVE  \E c \in Components : \E f \in MembersOf(c) : p = Member(c, f)
  <2>1. PICK c \in Components : p \in MemberPlaces(c)
    BY <1>5 DEF Roots
  <2>2. QED
    BY <2>1 DEF MemberPlaces
<1>6. ASSUME NEW p \in VectorRoots
      PROVE  /\ p \in Roots /\ p.of \in Components /\ Kind[p.of] = "join"
             /\ p.member \in Vectors /\ p = Member(p.of, p.member)
  <2>1. p \in Roots /\ p.member \in Vectors /\ p \notin Handles
    BY <1>4 DEF VectorRoots, Vectors
  <2>2. PICK c \in Components : \E f \in MembersOf(c) : p = Member(c, f)
    BY <1>5, <2>1
  <2>3. p.of = c /\ p.member \in MembersOf(c) /\ p = Member(c, p.member)
    BY <2>2, <1>1
  <2>4. Kind[c] = "join"
    BY <2>1, <2>3 DEF MembersOf, Members, Vectors
  <2>5. QED
    BY <2>1, <2>2, <2>3, <2>4
<1>7. QED
  BY <1>1, <1>2, <1>3, <1>4, <1>5, <1>6

LEMMA BelowFacts ==
    ASSUME NEW c \in Components
    PROVE  /\ c \in Below[c] /\ Below[c] \subseteq Components
           /\ \A i \in DOMAIN Children[c] : /\ Children[c][i] \in Components
                                            /\ Below[Children[c][i]] \subseteq Below[c]
<1>1. /\ Below = [x \in Components |->
                    {d \in Components : \A S \in Families : x \in S => d \in S}]
      /\ \A x \in Components :
            Below[x] = {d \in Components : \A S \in Families : x \in S => d \in S}
  BY DEF Below
<1>2. \A S \in Families : c \in S => \A i \in DOMAIN Children[c] : Children[c][i] \in S
  BY DEF Families
<1>3. \A i \in DOMAIN Children[c] : Children[c][i] \in Components
  BY TreeAssumption
<1>4. QED
  BY <1>1, <1>2, <1>3

-----------------------------------------------------------------------------
(***************************************************************************)
(* Handlers on sound heaps                                                 *)
(***************************************************************************)
\* A token that may be given to a place which is not a vector of a join.
Passable(h, t) ==
    t # Null =>
        /\ t \in Live(h) \ h.dying
        /\ \A p \in VectorRoots : h.at[p] = t => p.member = "error_output_vector"

LEMMA SoundFacts ==
    ASSUME NEW h, Sound(h)
    PROVE  /\ IsHeap(h) /\ Counted(h) /\ h.dying = Zeroes(h) /\ Placed(h) /\ Owns(h)
           /\ Roots \subseteq DOMAIN h.at /\ VectorRoots \subseteq DOMAIN h.at
           /\ Null \notin Live(h)
           /\ \A p \in DOMAIN h.at : h.at[p] \in (Live(h) \ h.dying) \cup {Null}
           /\ \A t \in Live(h) : t \in h.dying <=> \A p \in DOMAIN h.at : h.at[p] # t
           /\ \A q \in DOMAIN h.at :
                 q \notin VectorRoots \/ q.member = "error_output_vector" => Passable(h, h.at[q])
           /\ \A p, q \in VectorRoots : h.at[p] = h.at[q] /\ h.at[p] # Null => p = q
<1>1. /\ IsHeap(h) /\ Counted(h) /\ h.dying = Zeroes(h) /\ Placed(h) /\ Owns(h)
      /\ Roots \subseteq DOMAIN h.at /\ VectorRoots \subseteq DOMAIN h.at
      /\ Null \notin Live(h)
  BY TreeAssumption DEF Sound, IsHeap, Placed, VectorRoots
<1>2. /\ \A p \in DOMAIN h.at : h.at[p] \in (Live(h) \ h.dying) \cup {Null}
      /\ \A t \in Live(h) : t \in h.dying <=> \A p \in DOMAIN h.at : h.at[p] # t
  BY <1>1, HeldLives
<1>3. \A p, q \in VectorRoots : h.at[p] = h.at[q] /\ h.at[p] # Null => p = q
  BY <1>1 DEF Owns
<1>4. ASSUME NEW q \in DOMAIN h.at, q \notin VectorRoots \/ q.member = "error_output_vector"
      PROVE  Passable(h, h.at[q])
  <2>1. SUFFICES ASSUME h.at[q] # Null,
                        NEW p \in VectorRoots, h.at[p] = h.at[q], p.member # "error_output_vector"
                 PROVE  FALSE
    BY <1>2 DEF Passable
  <2>2. q = p
    BY <1>1, <2>1 DEF Owns
  <2>3. QED
    BY <1>4, <2>1, <2>2
<1>5. QED
  BY <1>1, <1>2, <1>3, <1>4

\* The references of P are gone.
LEMMA ReleaseSound ==
    ASSUME NEW h, Sound(h), NEW P \in SUBSET DOMAIN h.at, NEW g, g = Release(h, P)
    PROVE  /\ Sound(g)
           /\ g.at = [p \in DOMAIN h.at |-> IF p \in P THEN Null ELSE h.at[p]]
           /\ g.type = h.type /\ Live(g) = Live(h)
           /\ \A t \in Live(h) : EntriesOf(g, t) = EntriesOf(h, t)
<1>1. /\ IsHeap(g) /\ Counted(g) /\ g.dying = Zeroes(g)
      /\ g.at = [p \in DOMAIN h.at |-> IF p \in P THEN Null ELSE h.at[p]]
      /\ g.type = h.type
  BY ReleaseCounted, SoundFacts
<1>2. /\ Live(g) = Live(h) /\ DOMAIN g.at = DOMAIN h.at
      /\ \A t : EntriesOf(g, t) = EntriesOf(h, t)
      /\ \A p \in DOMAIN h.at : g.at[p] # Null => g.at[p] = h.at[p]
  BY <1>1 DEF Live, EntriesOf
<1>3. Placed(g)
  BY <1>2, SoundFacts DEF Placed
<1>4. Owns(g)
  BY <1>2, SoundFacts DEF Owns
<1>5. QED
  BY <1>1, <1>2, <1>3, <1>4 DEF Sound

IsMap(v) == v = [x \in DOMAIN v |-> v[x]]

\* Places that are empty, and not the vectors of a join, take what they may.
LEMMA BindSound ==
    ASSUME NEW h, Sound(h),
           NEW v, IsMap(v),
           DOMAIN v \subseteq DOMAIN h.at, DOMAIN v \cap VectorRoots = {},
           \A p \in DOMAIN v : h.at[p] = Null /\ Passable(h, v[p]),
           NEW g, g = Bind(h, v)
    PROVE  /\ Sound(g)
           /\ g.at = [p \in DOMAIN h.at |-> IF p \in DOMAIN v THEN v[p] ELSE h.at[p]]
           /\ g.type = h.type /\ Live(g) = Live(h)
           /\ \A t \in Live(h) : EntriesOf(g, t) = EntriesOf(h, t)
<1>1. v \in [DOMAIN v -> Live(h) \cup {Null}]
  BY DEF Passable, IsMap
<1>2. /\ IsHeap(g) /\ Counted(g) /\ g.dying = h.dying
      /\ g.at = [p \in DOMAIN h.at |-> IF p \in DOMAIN v THEN v[p] ELSE h.at[p]]
      /\ g.type = h.type
      /\ Zeroes(g) = Zeroes(h) \ {v[p] : p \in DOMAIN v}
  BY <1>1, BindCounted, SoundFacts
<1>3. /\ Live(g) = Live(h) /\ DOMAIN g.at = DOMAIN h.at
      /\ \A t : EntriesOf(g, t) = EntriesOf(h, t)
  BY <1>2 DEF Live, EntriesOf
<1>4. Zeroes(g) = Zeroes(h)
  <2>1. Zeroes(h) \subseteq Live(h) /\ Null \notin Live(h) /\ h.dying = Zeroes(h)
    BY SoundFacts DEF Zeroes
  <2>2. QED
    BY <1>2, <2>1 DEF Passable
<1>5. Placed(g)
  <2>1. Placed(h)
    BY SoundFacts
  <2>2. QED
    BY <1>3, <2>1 DEF Placed
<1>6. Owns(g)
  <2>1. SUFFICES ASSUME NEW p \in VectorRoots, g.at[p] # Null
                 PROVE  /\ EntriesOf(g, g.at[p]) = {Entry(g.at[p], i) : i \in DOMAIN Children[p.of]}
                        /\ \A q \in DOMAIN g.at :
                              /\ g.at[q] = g.at[p]
                              /\ q \in VectorRoots \/ p.member # "error_output_vector"
                              => q = p
    BY DEF Owns
  <2>2. p \in DOMAIN h.at /\ g.at[p] = h.at[p]
    BY <1>2, SoundFacts
  <2>3. \A q \in DOMAIN v : g.at[q] = g.at[p] => p.member = "error_output_vector"
    BY <1>2, <2>1, <2>2 DEF Passable
  <2>4. EntriesOf(h, h.at[p]) = {Entry(h.at[p], i) : i \in DOMAIN Children[p.of]}
    BY <2>1, <2>2, SoundFacts DEF Owns
  <2>5. ASSUME NEW q \in DOMAIN g.at, g.at[q] = g.at[p],
               q \in VectorRoots \/ p.member # "error_output_vector"
        PROVE  q = p
    <3>1. q \notin DOMAIN v
      BY <2>3, <2>5
    <3>2. g.at[q] = h.at[q] /\ q \in DOMAIN h.at
      BY <1>2, <2>5, <3>1
    <3>3. QED
      BY <2>1, <2>2, <2>5, <3>2, SoundFacts DEF Owns
  <2>6. QED
    BY <1>3, <2>2, <2>4, <2>5
<1>7. QED
  BY <1>2, <1>3, <1>4, <1>5, <1>6, SoundFacts DEF Sound

\* AssignRef of places that are not the vectors of a join: what they take is
\* kept elsewhere.
LEMMA AssignSound ==
    ASSUME NEW h, Sound(h),
           NEW v, IsMap(v),
           DOMAIN v \subseteq DOMAIN h.at, DOMAIN v \cap VectorRoots = {},
           \A p \in DOMAIN v : v[p] # Null =>
              \E q \in DOMAIN h.at \ DOMAIN v :
                 h.at[q] = v[p] /\ (q \notin VectorRoots \/ q.member = "error_output_vector"),
           NEW g, g = AssignAll(h, v)
    PROVE  /\ Sound(g)
           /\ g.at = [p \in DOMAIN h.at |-> IF p \in DOMAIN v THEN v[p] ELSE h.at[p]]
           /\ g.type = h.type /\ Live(g) = Live(h)
           /\ \A t \in Live(h) : EntriesOf(g, t) = EntriesOf(h, t)
<1> DEFINE r == Release(h, DOMAIN v)
<1>1. /\ Sound(r)
      /\ r.at = [p \in DOMAIN h.at |-> IF p \in DOMAIN v THEN Null ELSE h.at[p]]
      /\ r.type = h.type /\ Live(r) = Live(h)
      /\ \A t \in Live(h) : EntriesOf(r, t) = EntriesOf(h, t)
  BY ReleaseSound
<1>2. g = Bind(r, v)
  BY DEF AssignAll
<1> HIDE DEF r
<1>3. ASSUME NEW p \in DOMAIN v
      PROVE  r.at[p] = Null /\ Passable(r, v[p])
  <2>1. r.at[p] = Null
    BY <1>1
  <2>2. CASE v[p] = Null
    BY <2>1, <2>2 DEF Passable
  <2>3. CASE v[p] # Null
    <3>1. PICK q \in DOMAIN h.at \ DOMAIN v :
             h.at[q] = v[p] /\ (q \notin VectorRoots \/ q.member = "error_output_vector")
      BY <2>3
    <3>2. q \in DOMAIN r.at /\ r.at[q] = v[p]
      BY <1>1, <3>1
    <3>3. QED
      BY <1>1, <2>1, <3>1, <3>2, SoundFacts
  <2>4. QED
    BY <2>2, <2>3
<1>4. /\ Sound(g)
      /\ g.at = [p \in DOMAIN r.at |-> IF p \in DOMAIN v THEN v[p] ELSE r.at[p]]
      /\ g.type = r.type /\ Live(g) = Live(r)
      /\ \A t \in Live(r) : EntriesOf(g, t) = EntriesOf(r, t)
  <2>1. DOMAIN v \subseteq DOMAIN r.at
    BY <1>1
  <2>2. QED
    BY <1>1, <1>2, <1>3, <2>1, BindSound
<1>5. g.at = [p \in DOMAIN h.at |-> IF p \in DOMAIN v THEN v[p] ELSE h.at[p]]
  BY <1>1, <1>4
<1>6. QED
  BY <1>1, <1>4, <1>5

\* New tokens; those of the vectors of a join have an entry for each child.
LEMMA NewSound ==
    ASSUME NEW h, Sound(h),
           NEW P \in SUBSET DOMAIN h.at, \A p \in P : h.at[p] = Null, Available(h, P),
           NEW k \in {"mem", "sparse", "vector"}, NEW n \in [P -> Nat],
           \A p \in P \cap VectorRoots : n[p] = Len(Children[p.of]),
           NEW u, Passable(h, u),
           NEW g, g = New(h, P, k, n, u)
    PROVE  /\ Sound(g)
           /\ DOMAIN h.at \subseteq DOMAIN g.at
           /\ \A p \in DOMAIN h.at \ P : g.at[p] = h.at[p]
           /\ \A p \in P : g.at[p] \in Arena(p) \ Live(h)
           /\ Live(g) = Live(h) \cup {g.at[p] : p \in P}
<1>1. u \in (Live(h) \ h.dying) \cup {Null}
  BY DEF Passable
<1>2. /\ IsHeap(g) /\ Counted(g) /\ g.dying = Zeroes(g) /\ g.dying = h.dying
      /\ \A p \in P : g.at[p] \in Arena(p) \ Live(h)
      /\ \A p, q \in P : p # q => g.at[p] # g.at[q]
      /\ DOMAIN g.at = DOMAIN h.at \cup Made(g.at, P, n)
      /\ \A p \in DOMAIN h.at \ P : g.at[p] = h.at[p]
      /\ \A p \in Made(g.at, P, n) : g.at[p] = u
      /\ Live(g) = Live(h) \cup {g.at[p] : p \in P}
  BY <1>1, NewCounted, SoundFacts
<1> DEFINE own == Made(g.at, P, n)
<1>3. \A x : x \in own <=> \E p \in P : \E i \in 1 .. n[p] : x = Entry(g.at[p], i)
  <2>1. IsFiniteSet(P)
    BY FS_Subset, SoundFacts DEF IsHeap
  <2>2. QED
    BY <2>1, MadeFinite
<1> HIDE DEF own
<1>4. /\ \A t \in Live(h) : EntriesOf(g, t) = EntriesOf(h, t)
      /\ \A p \in P : EntriesOf(g, g.at[p]) = {Entry(g.at[p], i) : i \in 1 .. n[p]}
  <2>1. ASSUME NEW t \in Live(h)
        PROVE  EntriesOf(g, t) = EntriesOf(h, t)
    <3>1. \A x \in own : x.of # t
      BY <1>2, <1>3, RootsApart
    <3>2. QED
      BY <1>2, <3>1 DEF EntriesOf, own
  <2>2. ASSUME NEW p \in P
        PROVE  EntriesOf(g, g.at[p]) = {Entry(g.at[p], i) : i \in 1 .. n[p]}
    <3>1. ASSUME NEW x \in DOMAIN h.at, x.member = "entry"
          PROVE  x.of # g.at[p]
      <4>1. x \notin Roots
        BY <3>1, RootsApart
      <4>2. PICK t \in Live(h) : \E i \in Nat \ {0} : x = Entry(t, i)
        BY <4>1, SoundFacts DEF Placed
      <4>3. QED
        BY <4>2, <1>2, RootsApart
    <3>2. \A i \in 1 .. n[p] : Entry(g.at[p], i) \in own
      BY <1>3
    <3>3. ASSUME NEW x \in own, x.of = g.at[p]
          PROVE  \E i \in 1 .. n[p] : x = Entry(g.at[p], i)
      <4>1. PICK q \in P : \E i \in 1 .. n[q] : x = Entry(g.at[q], i)
        BY <1>3
      <4>2. g.at[q] = g.at[p]
        BY <3>3, <4>1, RootsApart
      <4>3. q = p
        BY <1>2, <4>2
      <4>4. QED
        BY <4>1, <4>3
    <3>4. \A x : x \in EntriesOf(g, g.at[p])
                  <=> x \in DOMAIN h.at \cup own /\ x.member = "entry" /\ x.of = g.at[p]
      BY <1>2 DEF EntriesOf, own
    <3>5. QED
      BY <3>1, <3>2, <3>3, <3>4, RootsApart
  <2>3. QED
    BY <2>1, <2>2
<1>5. Placed(g)
  <2>1. Roots \subseteq DOMAIN g.at
    BY <1>2, SoundFacts
  <2>2. ASSUME NEW x \in DOMAIN g.at \ Roots
        PROVE  \E t \in Live(g), i \in Nat \ {0} : x = Entry(t, i)
    <3>1. CASE x \in DOMAIN h.at
      BY <1>2, <3>1, SoundFacts DEF Placed
    <3>2. CASE x \in own
      <4>1. PICK p \in P : \E i \in 1 .. n[p] : x = Entry(g.at[p], i)
        BY <1>3, <3>2
      <4>2. g.at[p] \in Live(g)
        BY <1>2
      <4>3. QED
        BY <4>1, <4>2
    <3>3. QED
      BY <1>2, <3>1, <3>2 DEF own
  <2>3. ASSUME NEW t \in Live(g)
        PROVE  \E m \in Nat : EntriesOf(g, t) = {Entry(t, i) : i \in 1 .. m}
    <3>1. CASE t \in Live(h)
      BY <1>4, <3>1, SoundFacts DEF Placed
    <3>2. ASSUME NEW p \in P, t = g.at[p]
          PROVE  \E m \in Nat : EntriesOf(g, t) = {Entry(t, i) : i \in 1 .. m}
      <4>1. n[p] \in Nat /\ EntriesOf(g, t) = {Entry(t, i) : i \in 1 .. n[p]}
        BY <1>4, <3>2
      <4>2. QED
        BY <4>1
    <3>3. QED
      BY <1>2, <3>1, <3>2
  <2>4. QED
    BY <2>1, <2>2, <2>3 DEF Placed
<1>6. Owns(g)
  <2>1. SUFFICES ASSUME NEW p \in VectorRoots, g.at[p] # Null
                 PROVE  /\ EntriesOf(g, g.at[p]) = {Entry(g.at[p], i) : i \in DOMAIN Children[p.of]}
                        /\ \A q \in DOMAIN g.at :
                              /\ g.at[q] = g.at[p]
                              /\ q \in VectorRoots \/ p.member # "error_output_vector"
                              => q = p
    BY DEF Owns
  <2>2. \A q \in VectorRoots : q \in DOMAIN h.at /\ q \notin own
    BY <1>3, RootsApart, SoundFacts DEF VectorRoots
  <2>3. \A q \in DOMAIN g.at : q \in DOMAIN h.at \/ q \in own
    BY <1>2 DEF own
  <2>4. \A q \in own : g.at[q] = u
    BY <1>2 DEF own
  <2>5. \A q \in DOMAIN h.at : h.at[q] \in Live(h) \cup {Null}
    BY SoundFacts
  <2>6. Null \notin Live(g) /\ u \in Live(h) \cup {Null}
    BY <1>1, <1>2, TreeAssumption DEF IsHeap
  <2>7. CASE p \in P
    <3>1. DOMAIN Children[p.of] = 1 .. n[p]
      BY <2>7, Places, TreeAssumption
    <3>2. g.at[p] \notin Live(h)
      BY <1>2, <2>7
    <3>3. \A q \in DOMAIN g.at : g.at[q] = g.at[p] => q \in P
      BY <1>2, <2>1, <2>3, <2>4, <2>5, <2>6, <3>2
    <3>4. QED
      BY <1>2, <1>4, <2>7, <3>1, <3>3
  <2>8. CASE p \notin P
    <3>1. p \in DOMAIN h.at /\ g.at[p] = h.at[p] /\ h.at[p] \in Live(h)
      BY <1>2, <2>1, <2>2, <2>5, <2>8
    <3>2. EntriesOf(g, g.at[p]) = {Entry(g.at[p], i) : i \in DOMAIN Children[p.of]}
      BY <1>4, <2>1, <3>1, SoundFacts DEF Owns
    <3>3. ASSUME NEW q \in DOMAIN g.at, g.at[q] = g.at[p],
                 q \in VectorRoots \/ p.member # "error_output_vector"
          PROVE  q = p
      <4>1. q \notin P
        BY <1>2, <3>1, <3>3
      <4>2. q \notin own
        BY <1>1, <2>1, <2>2, <2>4, <3>1, <3>3 DEF Passable
      <4>3. q \in DOMAIN h.at /\ h.at[q] = h.at[p]
        BY <1>2, <2>3, <3>1, <3>3, <4>1, <4>2
      <4>4. QED
        BY <2>1, <3>1, <3>3, <4>3, SoundFacts DEF Owns
    <3>4. QED
      BY <3>2, <3>3
  <2>9. QED
    BY <2>7, <2>8
<1>7. QED
  BY <1>2, <1>5, <1>6 DEF Sound, own

\* A handler leaves a sound heap, and only the places W have changed.
Changes(h, g, W) ==
    /\ Sound(g)
    /\ DOMAIN h.at \subseteq DOMAIN g.at
    /\ \A p \in DOMAIN h.at \ W : g.at[p] = h.at[p]

\* Somebody else keeps t.
KeptBeside(h, t, P) ==
    t # Null =>
        \E q \in DOMAIN h.at \ P :
            h.at[q] = t /\ (q \notin VectorRoots \/ q.member = "error_output_vector")

LEMMA AssignNewSound ==
    ASSUME NEW h, Sound(h), NEW P \in SUBSET DOMAIN h.at, P \cap VectorRoots = {},
           Available(h, P), NEW k \in {"mem", "sparse", "vector"}, NEW n \in Nat,
           NEW u, KeptBeside(h, u, P),
           NEW g, g = AssignNew(h, P, k, n, u)
    PROVE  /\ Changes(h, g, P)
           /\ \A p \in P : g.at[p] \in Arena(p) \ Live(h)
           /\ Live(g) = Live(h) \cup {g.at[p] : p \in P}
<1> DEFINE r == Release(h, P)
           m == [p \in P |-> n]
<1>1. /\ Sound(r)
      /\ r.at = [p \in DOMAIN h.at |-> IF p \in P THEN Null ELSE h.at[p]]
      /\ Live(r) = Live(h)
  BY ReleaseSound
<1>2. g = New(r, P, k, m, u)
  BY DEF AssignNew
<1>3. m \in [P -> Nat]
  OBVIOUS
<1> HIDE DEF r, m
<1>4. Available(r, P)
  BY <1>1 DEF Available, Free
<1>5. Passable(r, u)
  <2>1. CASE u = Null
    BY <2>1 DEF Passable
  <2>2. CASE u # Null
    <3>1. PICK q \in DOMAIN h.at \ P :
             h.at[q] = u /\ (q \notin VectorRoots \/ q.member = "error_output_vector")
      BY <2>2 DEF KeptBeside
    <3>2. q \in DOMAIN r.at /\ r.at[q] = u
      BY <1>1, <3>1
    <3>3. QED
      BY <1>1, <3>1, <3>2, SoundFacts
  <2>3. QED
    BY <2>1, <2>2
<1>6. /\ P \in SUBSET DOMAIN r.at
      /\ \A p \in P : r.at[p] = Null
      /\ \A p \in P \cap VectorRoots : m[p] = Len(Children[p.of])
  BY <1>1
<1>7. /\ Sound(g)
      /\ DOMAIN r.at \subseteq DOMAIN g.at
      /\ \A p \in DOMAIN r.at \ P : g.at[p] = r.at[p]
      /\ \A p \in P : g.at[p] \in Arena(p) \ Live(r)
      /\ Live(g) = Live(r) \cup {g.at[p] : p \in P}
  BY <1>1, <1>2, <1>3, <1>4, <1>5, <1>6, NewSound
<1>8. Changes(h, g, P)
  BY <1>1, <1>7 DEF Changes
<1>9. QED
  BY <1>1, <1>7, <1>8

\* The destructors of what nobody holds.
LEMMA SweepSound ==
    ASSUME NEW h, Sound(h), NEW g, g = Sweep(h)
    PROVE  /\ Sound(g)
           /\ Roots \subseteq DOMAIN g.at /\ DOMAIN g.at \subseteq DOMAIN h.at
           /\ \A p \in Roots : g.at[p] = h.at[p]
           /\ \A p \in DOMAIN h.at \ Roots :
                 p.of \notin h.dying => p \in DOMAIN g.at /\ g.at[p] = h.at[p]
<1> DEFINE own == UNION {EntriesOf(h, t) : t \in h.dying}
           r == Release(h, own)
           D == DOMAIN h.at \ own
           L == Live(h) \ h.dying
<1>1. own \subseteq DOMAIN h.at
  BY DEF EntriesOf
<1>2. \A p \in own : p.member = "entry" /\ p.of \in h.dying /\ p \notin Roots
  BY RootsApart DEF EntriesOf
<1>3. \A p \in DOMAIN h.at \ Roots : p.member = "entry" /\ p \in EntriesOf(h, p.of)
  <2>1. ASSUME NEW p \in DOMAIN h.at \ Roots
        PROVE  p.member = "entry" /\ p \in EntriesOf(h, p.of)
    <3>1. PICK t \in Live(h) : \E i \in Nat \ {0} : p = Entry(t, i)
      BY SoundFacts DEF Placed
    <3>2. QED
      BY <3>1, RootsApart DEF EntriesOf
  <2>2. QED
    BY <2>1
<1>4. \A p \in DOMAIN h.at \ Roots : p.of \notin h.dying <=> p \in D
  <2>1. \A p \in DOMAIN h.at \ Roots : p.of \in h.dying => p \in own
    BY <1>3
  <2> HIDE DEF own
  <2>2. QED
    BY <2>1, <1>2
<1>5. /\ Sound(r)
      /\ r.at = [p \in DOMAIN h.at |-> IF p \in own THEN Null ELSE h.at[p]]
      /\ r.type = h.type /\ Live(r) = Live(h)
      /\ \A t \in Live(h) : EntriesOf(r, t) = EntriesOf(h, t)
  <2> HIDE DEF own
  <2>1. QED
    BY <1>1, ReleaseSound
<1>6. g = [at |-> Restrict(r.at, DOMAIN r.at \ own), type |-> Restrict(r.type, L),
           refs |-> Restrict(r.refs, L), dying |-> r.dying \ h.dying]
  BY DEF Sweep
<1> HIDE DEF own, r
<1>7. /\ g.at = [p \in D |-> h.at[p]]
      /\ g.type = [t \in L |-> h.type[t]]
      /\ g.refs = [t \in L |-> r.refs[t]]
      /\ g.dying = r.dying \ h.dying
      /\ g = [at |-> g.at, type |-> g.type, refs |-> g.refs, dying |-> g.dying]
      /\ Live(g) = L
  <2>1. \A f, S : Restrict(f, S) = [x \in S |-> f[x]]
    BY DEF Restrict
  <2>2. Restrict(r.at, DOMAIN r.at \ own) = [p \in D |-> h.at[p]]
    BY <1>5, <2>1
  <2> HIDE DEF L, D
  <2>3. QED
    BY <1>5, <1>6, <2>1, <2>2 DEF Live
<1>8. \A p \in DOMAIN h.at : h.at[p] \in L \cup {Null}
  BY SoundFacts
<1>9. /\ h.dying \subseteq Live(h) /\ IsHeap(h) /\ IsHeap(r) /\ Counted(r) /\ r.dying = Zeroes(r)
      /\ Null \notin Live(h) /\ Roots \subseteq DOMAIN h.at
  BY <1>5, SoundFacts DEF Zeroes
<1>10. IsHeap(g)
  <2>1. IsFiniteSet(D)
    BY <1>9, FS_Subset DEF IsHeap
  <2>2. g.at \in [D -> L \cup {Null}] /\ DOMAIN g.at = D
    BY <1>7, <1>8
  <2>3. g.type \in [L -> {"mem", "sparse", "vector"}] /\ g.refs \in [L -> Int] /\ L \subseteq Tokens
    BY <1>5, <1>7, <1>9 DEF IsHeap
  <2> HIDE DEF D, L
  <2>4. QED
    BY <1>7, <2>1, <2>2, <2>3 DEF IsHeap
<1>11. Counted(g)
  <2>1. ASSUME NEW t \in L
        PROVE  g.refs[t] = Count(g.at, t, DOMAIN g.at)
    <3>1. r.refs[t] = Count(r.at, t, DOMAIN r.at)
      BY <1>5, <1>9, CountIsHeld DEF Counted
    <3>2. /\ \A p \in DOMAIN r.at : r.at[p] = t => p \in DOMAIN g.at /\ g.at[p] = t
          /\ \A p \in DOMAIN g.at : g.at[p] = t => p \in DOMAIN r.at /\ r.at[p] = t
      BY <1>5, <1>7, <1>9
    <3>3. Count(r.at, t, DOMAIN r.at) = Count(g.at, t, DOMAIN g.at)
      BY <3>2, CountSame
    <3>4. QED
      BY <1>7, <3>1, <3>3
  <2>2. QED
    BY <1>7, <2>1, CountIsHeld DEF Counted
<1>12. g.dying = Zeroes(g)
  BY <1>5, <1>7, <1>9 DEF Zeroes
<1>13. \A t \in L : EntriesOf(g, t) = EntriesOf(h, t)
  <2>1. \A p \in DOMAIN h.at : p \in own => p.of \in h.dying
    BY <1>2
  <2>2. QED
    BY <1>7, <2>1 DEF EntriesOf
<1>14. Placed(g)
  <2>1. Placed(h)
    BY SoundFacts
  <2>2. Roots \subseteq D
    BY <1>2, <1>9
  <2>3. ASSUME NEW p \in D \ Roots
        PROVE  \E t \in L, i \in Nat \ {0} : p = Entry(t, i)
    <3>1. PICK t \in Live(h) : \E i \in Nat \ {0} : p = Entry(t, i)
      BY <2>1, <2>3 DEF Placed
    <3>2. p.of = t
      BY <3>1, RootsApart
    <3>3. t \notin h.dying
      BY <1>4, <2>3, <3>2
    <3>4. QED
      BY <3>1, <3>3
  <2>4. \A t \in L : \E n \in Nat : EntriesOf(g, t) = {Entry(t, i) : i \in 1 .. n}
    BY <1>13, <2>1 DEF Placed
  <2> HIDE DEF D, L
  <2>5. DOMAIN g.at = D
    BY <1>7
  <2>6. QED
    BY <1>7, <2>2, <2>3, <2>4, <2>5 DEF Placed
<1>15. Owns(g)
  <2>1. ASSUME NEW p \in VectorRoots, g.at[p] # Null
        PROVE  /\ EntriesOf(g, g.at[p]) = {Entry(g.at[p], i) : i \in DOMAIN Children[p.of]}
               /\ \A q \in DOMAIN g.at :
                     /\ g.at[q] = g.at[p]
                     /\ q \in VectorRoots \/ p.member # "error_output_vector"
                     => q = p
    <3>1. p \in DOMAIN h.at /\ g.at[p] = h.at[p] /\ h.at[p] \in L
      BY <1>2, <1>7, <1>8, <1>9, <2>1 DEF VectorRoots
    <3>2. /\ EntriesOf(h, h.at[p]) = {Entry(h.at[p], i) : i \in DOMAIN Children[p.of]}
          /\ \A q \in DOMAIN h.at :
                /\ h.at[q] = h.at[p]
                /\ q \in VectorRoots \/ p.member # "error_output_vector"
                => q = p
      BY <2>1, <3>1, SoundFacts DEF Owns
    <3>3. \A q \in DOMAIN g.at : q \in DOMAIN h.at /\ g.at[q] = h.at[q]
      BY <1>7
    <3>4. QED
      BY <1>13, <3>1, <3>2, <3>3
  <2>2. QED
    BY <2>1 DEF Owns
<1>16. QED
  <2>1. Roots \subseteq D
    BY <1>2, <1>9
  <2>2. QED
    BY <1>4, <1>7, <1>10, <1>11, <1>12, <1>14, <1>15, <2>1 DEF Sound

LEMMA ChangesTwice ==
    ASSUME NEW h, NEW g, NEW k, NEW V, NEW W, Changes(h, g, V), Changes(g, k, W)
    PROVE  Changes(h, k, V \cup W)
  BY DEF Changes
-----------------------------------------------------------------------------
(***************************************************************************)
(* What is left of the call                                                *)
(***************************************************************************)
StepsFit(steps) ==
    /\ steps \in Seq(Steps)
    /\ \A k \in DOMAIN steps :
          /\ Phase(steps[k].op) = call
          /\ steps[k].op \in Loops \cup Keeps =>
                Kind[steps[k].c] = "join" /\ steps[k].i \in DOMAIN Children[steps[k].c]
          /\ Below[steps[k].c] \subseteq Below[Me]
    /\ \A j, k \in DOMAIN steps :
          j < k /\ steps[k].op \in Keeps => steps[k].c \notin Below[steps[j].c]

LEMMA TodoStep ==
    ASSUME TodoInv, todo # <<>>, NEW steps, StepsFit(steps), Continue(steps), call' = call
    PROVE  /\ TodoInv'
           /\ \A k \in DOMAIN todo' :
                 \/ k \in DOMAIN steps /\ todo'[k] = steps[k]
                 \/ \E j \in DOMAIN todo : 1 < j /\ todo'[k] = todo[j]
<1> DEFINE n == Len(steps)
           m == Len(todo)
           old(k) == k - n + 1
<1>1. /\ steps \in Seq(Steps) /\ todo \in Seq(Steps) /\ n \in Nat /\ m \in Nat \ {0}
      /\ DOMAIN steps = 1 .. n /\ DOMAIN todo = 1 .. m /\ Head(todo) = todo[1]
  BY DEF TodoInv, StepsFit
<1>2. /\ Tail(todo) \in Seq(Steps) /\ Len(Tail(todo)) = m - 1
      /\ \A k \in 1 .. m - 1 : Tail(todo)[k] = todo[k + 1]
  BY <1>1
<1>3. /\ todo' \in Seq(Steps) /\ DOMAIN todo' = 1 .. n + m - 1
      /\ \A k \in 1 .. n : todo'[k] = steps[k]
      /\ \A k \in n + 1 .. n + m - 1 : todo'[k] = todo[old(k)] /\ old(k) \in 2 .. m
  <2>1. todo' = steps \o Tail(todo)
    BY DEF Continue
  <2>2. \A k \in n + 1 .. n + m - 1 : k - n \in 1 .. m - 1 /\ old(k) \in 2 .. m /\ old(k) = (k - n) + 1
    BY <1>1
  <2>3. \A k \in n + 1 .. n + m - 1 : Tail(todo)[k - n] = todo[old(k)]
    BY <1>2, <2>2
  <2> HIDE DEF n, m, old
  <2>4. /\ todo' \in Seq(Steps) /\ Len(todo') = n + (m - 1)
        /\ \A k \in 1 .. n : todo'[k] = steps[k]
        /\ \A k \in n + 1 .. n + m - 1 : todo'[k] = Tail(todo)[k - n]
    BY <1>1, <1>2, <2>1 DEF n
  <2>5. DOMAIN todo' = 1 .. n + m - 1
    BY <1>1, <2>4
  <2>6. QED
    BY <2>2, <2>3, <2>4, <2>5
<1>4. \A k \in DOMAIN todo' : k \in 1 .. n \/ k \in n + 1 .. n + m - 1
  BY <1>1, <1>3
<1>5. \A k \in 1 .. n : k \in DOMAIN steps
  BY <1>1
<1>6. \A j, k \in n + 1 .. n + m - 1 : j < k => old(j) < old(k)
  BY <1>1
<1>7. \A k \in 2 .. m : k \in DOMAIN todo /\ 1 \in DOMAIN todo /\ 1 < k
  BY <1>1
<1>8. \A j \in n + 1 .. n + m - 1, k \in 1 .. n : ~ (j < k)
  BY <1>1
<1> HIDE DEF n, m, old
<1>9. \A k \in DOMAIN todo' :
         \/ k \in DOMAIN steps /\ todo'[k] = steps[k]
         \/ \E j \in DOMAIN todo : 1 < j /\ todo'[k] = todo[j]
  BY <1>3, <1>4, <1>5, <1>7
<1>10. ASSUME NEW k \in DOMAIN todo'
       PROVE  /\ Phase(todo'[k].op) = call
              /\ todo'[k].op \in Loops \cup Keeps =>
                    Kind[todo'[k].c] = "join" /\ todo'[k].i \in DOMAIN Children[todo'[k].c]
  BY <1>9 DEF StepsFit, TodoInv
<1>11. ASSUME NEW j \in DOMAIN todo', NEW k \in DOMAIN todo', j < k, todo'[k].op \in Keeps
       PROVE  todo'[k].c \notin Below[todo'[j].c]
  <2>1. CASE j \in 1 .. n /\ k \in 1 .. n
    BY <1>3, <1>5, <1>11, <2>1 DEF StepsFit
  <2>2. CASE j \in 1 .. n /\ k \in n + 1 .. n + m - 1
    <3>1. todo'[k].c \notin Below[Me]
      BY <1>1, <1>3, <1>7, <1>11, <2>2 DEF TodoInv, Me
    <3>2. Below[todo'[j].c] \subseteq Below[Me]
      BY <1>3, <1>5, <2>2 DEF StepsFit
    <3>3. QED
      BY <3>1, <3>2
  <2>3. CASE j \in n + 1 .. n + m - 1 /\ k \in n + 1 .. n + m - 1
    BY <1>3, <1>6, <1>7, <1>11, <2>3 DEF TodoInv
  <2>4. QED
    BY <1>4, <1>8, <1>11, <2>1, <2>2, <2>3
<1>12. QED
  BY <1>3, <1>9, <1>10, <1>11 DEF TodoInv

\* The places that the component c changes: its members, and the entries of
\* its vectors.
Local(h, c) ==
    MemberPlaces(c) \cup
    {p \in DOMAIN h.at : /\ p.member = "entry"
                         /\ \E q \in VectorRoots : q.of = c /\ h.at[q] = p.of}

VectorsMade(h) == \A p \in VectorRoots : h.at[p] # Null

\* What another join waits for is not one of them.
LEMMA AwaitedApart ==
    ASSUME NEW h, Sound(h), VectorsMade(h),
           NEW s \in Steps, s.op \in Keeps, Kind[s.c] = "join", s.i \in DOMAIN Children[s.c],
           NEW c, c # s.c, NEW W, W \subseteq Local(h, c), W \cap VectorRoots = {},
           NEW g, Changes(h, g, W)
    PROVE  Awaited(g, s) = Awaited(h, s) /\ g.at[Awaited(h, s)] = h.at[Awaited(h, s)]
<1> DEFINE f == IF s.op = "forwarded" THEN "output_vector" ELSE "error_output_vector"
           p == Member(s.c, f)
           t == h.at[p]
<1>1. p \in VectorRoots /\ p.of = s.c /\ s.c \in Components
  BY Places DEF Vectors, Steps
<1>2. p \in DOMAIN h.at /\ t # Null /\ EntriesOf(h, t) = {Entry(t, i) : i \in DOMAIN Children[s.c]}
  BY <1>1, SoundFacts DEF VectorsMade, Owns
<1>3. Awaited(h, s) = Entry(t, s.i) /\ Awaited(g, s) = Entry(g.at[p], s.i)
  BY DEF Awaited
<1> HIDE DEF p, t
<1>4. g.at[p] = t
  BY <1>1, <1>2 DEF Changes, t
<1>5. Entry(t, s.i) \in EntriesOf(h, t)
  BY <1>2
<1>6. Entry(t, s.i) \in DOMAIN h.at /\ Entry(t, s.i).member = "entry" /\ Entry(t, s.i).of = t
  BY <1>5, RootsApart DEF EntriesOf
<1>7. Entry(t, s.i) \notin W
  <2>1. SUFFICES ASSUME Entry(t, s.i) \in Local(h, c)
                 PROVE  FALSE
    OBVIOUS
  <2>2. Entry(t, s.i) \notin MemberPlaces(c)
    <3>1. \A q \in MemberPlaces(c) : q.member \in Members \cup Vectors
      BY Places DEF MemberPlaces, MembersOf, Members, Vectors
    <3>2. QED
      BY <1>6, <3>1 DEF Members, Vectors
  <2>3. PICK q \in VectorRoots : q.of = c /\ h.at[q] = t
    BY <1>6, <2>1, <2>2 DEF Local
  <2>4. q = p
    BY <1>1, <1>2, <2>3, SoundFacts DEF t
  <2>5. QED
    BY <1>1, <2>3, <2>4
<1>8. QED
  BY <1>3, <1>4, <1>6, <1>7 DEF Changes
-----------------------------------------------------------------------------
(***************************************************************************)
(* The handlers of forward and backprop                                    *)
(***************************************************************************)
LEMMA NowFacts ==
    ASSUME TokensInv, NEW op, NEW K, Now(op, K)
    PROVE  /\ Sound(heap) /\ TodoInv /\ todo # <<>> /\ heap.dying = {}
           /\ Head(todo) = todo[1] /\ 1 \in DOMAIN todo /\ todo[1] \in Steps
           /\ Head(todo).op = op /\ Me \in Components /\ Kind[Me] \in K /\ I \in Nat
           /\ Phase(op) = call
           /\ op \in Loops \cup Keeps => Kind[Me] = "join" /\ I \in DOMAIN Children[Me]
           /\ op \notin Loops \cup Ends => Passing
           /\ Mine("input").of = Me
<1>1. /\ Sound(heap) /\ TodoInv /\ todo # <<>> /\ heap.dying = {}
      /\ Head(todo).op = op /\ Kind[Me] \in K
  BY DEF TokensInv, Now
<1>2. Head(todo) = todo[1] /\ 1 \in DOMAIN todo /\ todo[1] \in Steps
  BY <1>1 DEF TodoInv
<1>3. Me \in Components /\ I \in Nat
  BY <1>2 DEF Steps, Me, I
<1>4. /\ Phase(op) = call
      /\ op \in Loops \cup Keeps => Kind[Me] = "join" /\ I \in DOMAIN Children[Me]
  BY <1>1, <1>2 DEF TodoInv, Me, I
<1>5. QED
  BY <1>1, <1>2, <1>3, <1>4, Places DEF Passing, Mine

\* While a forward or a backprop runs, the joins have their vectors.
LEMMA RunsBuilt ==
    ASSUME TokensInv, call \in {"forward", "backprop"}
    PROVE  VectorsMade(heap)
<1>1. Built
  BY DEF TokensInv, ScriptInv
<1>2. ASSUME NEW p \in VectorRoots
      PROVE  heap.at[p] # Null
  <2>1. p.of \in Components /\ p = Member(p.of, p.member) /\ p.member \in MembersOf(p.of) \cap Vectors
    BY Places
  <2>2. QED
    BY <1>1, <2>1 DEF Built
<1>3. QED
  BY <1>2 DEF VectorsMade

\* The entries of a vector of a join.
LEMMA VectorEntries ==
    ASSUME Sound(heap), VectorsMade(heap), NEW c \in Components, Kind[c] = "join",
           NEW f \in Vectors, NEW t, t = heap.at[Member(c, f)]
    PROVE  /\ Member(c, f) \in VectorRoots /\ t \in Live(heap)
           /\ EntriesOf(heap, t) = {Entry(t, i) : i \in DOMAIN Children[c]}
           /\ EntriesOf(heap, t) \subseteq DOMAIN heap.at
           /\ EntriesOf(heap, t) \subseteq Local(heap, c)
           /\ EntriesOf(heap, t) \cap Roots = {}
           /\ \A p \in EntriesOf(heap, t) : Holds(heap, heap.at[p], p)
<1>1. Member(c, f) \in VectorRoots /\ Member(c, f).of = c
  BY Places
<1>2. /\ t \in Live(heap)
      /\ EntriesOf(heap, t) = {Entry(t, i) : i \in DOMAIN Children[c]}
  BY <1>1, SoundFacts DEF VectorsMade, Owns
<1>3. \A p \in EntriesOf(heap, t) : p \in DOMAIN heap.at /\ p.member = "entry" /\ p.of = t
  BY DEF EntriesOf
<1>4. QED
  BY <1>1, <1>2, <1>3, RootsApart DEF Local, Holds

\* A handler of Me changes places of Me: whoever waits still waits for an
\* empty place.
LEMMA Handler ==
    ASSUME TokensInv, todo # <<>>, call \in {"forward", "backprop"},
           NEW W, W \subseteq Local(heap, Me), W \cap VectorRoots = {}, Changes(heap, heap', W),
           NEW steps, StepsFit(steps), Continue(steps),
           \A k \in DOMAIN steps :
              steps[k].op \in Keeps => heap'.at[Awaited(heap', steps[k])] = Null,
           UNCHANGED <<script, outcome>>, HandInv'
    PROVE  TokensInv'
<1>1. /\ Sound(heap) /\ TodoInv /\ Waiting /\ ScriptInv /\ VectorsMade(heap)
      /\ call' = call /\ last' = last /\ calls' = calls /\ outcome' = outcome
  BY RunsBuilt DEF TokensInv, script
<1>2. Sound(heap)'
  BY DEF Changes
<1>3. /\ TodoInv'
      /\ \A k \in DOMAIN todo' :
            \/ k \in DOMAIN steps /\ todo'[k] = steps[k]
            \/ \E j \in DOMAIN todo : 1 < j /\ todo'[k] = todo[j]
  BY <1>1, TodoStep
<1>4. Waiting'
  <2>1. ASSUME NEW k \in DOMAIN todo', todo'[k].op \in Keeps
        PROVE  heap'.at[Awaited(heap', todo'[k])] = Null
    <3>1. CASE k \in DOMAIN steps /\ todo'[k] = steps[k]
      BY <2>1, <3>1
    <3>2. ASSUME NEW j \in DOMAIN todo, 1 < j, todo'[k] = todo[j]
          PROVE  heap'.at[Awaited(heap', todo'[k])] = Null
      <4>1. /\ todo[j] \in Steps /\ todo[j].op \in Keeps /\ Kind[todo[j].c] = "join"
            /\ todo[j].i \in DOMAIN Children[todo[j].c]
            /\ heap.at[Awaited(heap, todo[j])] = Null
        BY <1>1, <2>1, <3>2 DEF TodoInv, Waiting
      <4>2. Head(todo) = todo[1] /\ 1 \in DOMAIN todo /\ todo[1] \in Steps
        BY <1>1 DEF TodoInv
      <4>3. todo[j].c \notin Below[Me]
        BY <1>1, <3>2, <4>1, <4>2 DEF TodoInv, Me
      <4>4. Me \in Components
        BY <4>2 DEF Me, Steps
      <4>5. Me # todo[j].c
        BY <4>3, <4>4, BelowFacts
      <4>6. /\ Awaited(heap', todo[j]) = Awaited(heap, todo[j])
            /\ heap'.at[Awaited(heap, todo[j])] = heap.at[Awaited(heap, todo[j])]
        <5>1. ASSUME NEW g, Changes(heap, g, W), NEW s, s = todo[j]
              PROVE  Awaited(g, s) = Awaited(heap, s) /\ g.at[Awaited(heap, s)] = heap.at[Awaited(heap, s)]
          BY <1>1, <4>1, <4>5, <5>1, AwaitedApart
        <5>2. QED
          BY <5>1
      <4>7. QED
        BY <3>2, <4>1, <4>6
    <3>3. QED
      BY <1>3, <3>1, <3>2
  <2>2. QED
    BY <2>1 DEF Waiting
<1>5. ScriptInv'
  <2>1. \A p \in Handles \cup VectorRoots : p \in DOMAIN heap.at /\ p \notin W
    <3>1. \A p \in Handles : p \notin Local(heap, Me)
      BY Places, RootsApart DEF Local, MemberPlaces, MembersOf, Members, Vectors
    <3>2. QED
      BY <1>1, <3>1, Places, SoundFacts
  <2>2. \A p \in Handles \cup VectorRoots : heap'.at[p] = heap.at[p]
    BY <2>1 DEF Changes
  <2>3. Unused' = Unused
    BY <2>2 DEF Unused
  <2>4. Built'
    <3>1. \A c \in Components : \A f \in MembersOf(c) \cap Vectors : Member(c, f) \in VectorRoots
      BY Places DEF VectorRoots
    <3>2. QED
      BY <1>1, <2>2, <3>1 DEF Built, VectorsMade
  <2>5. QED
    BY <1>1, <2>3, <2>4 DEF ScriptInv
<1>6. QED
  BY <1>2, <1>3, <1>4, <1>5 DEF TokensInv

\* The pointer passed on is in a place that the handler does not change.
LEMMA HandBeside ==
    ASSUME TokensInv, Passing, NEW W, \A p \in W : ~Lasting(p)
    PROVE  KeptBeside(heap, hand, W)
  BY DEF TokensInv, HandInv, KeptBeside, Holds, Lasting, VectorRoots, Vectors

LEMMA SameHand ==
    ASSUME TokensInv, Passing, NEW W, W \cap VectorRoots = {}, Changes(heap, heap', W),
           \A p \in W : Lasting(p) => heap.at[p] = Null,
           hand' = hand, call' = call
    PROVE  HandInv'
<1>1. SUFFICES ASSUME hand # Null
               PROVE  \E p \in DOMAIN heap'.at : Holds(heap', hand, p) /\ Lasting(p)
  BY DEF HandInv, Lasting
<1>2. PICK p \in DOMAIN heap.at : Holds(heap, hand, p) /\ Lasting(p)
  BY <1>1 DEF TokensInv, HandInv
<1>3. p \notin W /\ heap.at[p] = hand
  BY <1>1, <1>2 DEF Holds
<1>4. p \in DOMAIN heap'.at /\ heap'.at[p] = hand
  BY <1>2, <1>3 DEF Changes
<1>5. \A q \in VectorRoots : heap'.at[q] = heap.at[q]
  BY SoundFacts DEF Changes, TokensInv
<1>6. Holds(heap', hand, p)
  BY <1>2, <1>4, <1>5 DEF Holds
<1>7. QED
  BY <1>2, <1>4, <1>6

\* The handler keeps what it passes on.
LEMMA NewHand ==
    ASSUME Sound(heap'), NEW p \in Roots, heap'.at[p] = hand', Lasting(p)'
    PROVE  HandInv'
  BY SoundFacts DEF HandInv, Holds

\* Steps that fit.
LEMMA NoneFits == StepsFit(<<>>)
  BY DEF StepsFit

LEMMA OneFits ==
    ASSUME Me \in Components, NEW op, NEW i \in Nat, [op |-> op, c |-> Me, i |-> i] \in Steps,
           Phase(op) = call,
           op \in Loops \cup Keeps => Kind[Me] = "join" /\ i \in DOMAIN Children[Me]
    PROVE  /\ StepsFit(Do(op, Me, i))
           /\ \A k \in DOMAIN Do(op, Me, i) : Do(op, Me, i)[k].op = op
  BY DEF StepsFit, Do

LEMMA EachFits ==
    ASSUME Me \in Components, NEW op \in {"forward", "backprop"}, op = call,
           NEW s \in Seq(Components), \A i \in DOMAIN s : Below[s[i]] \subseteq Below[Me]
    PROVE  /\ StepsFit(Each(op, s))
           /\ \A k \in DOMAIN Each(op, s) : Each(op, s)[k].op \notin Keeps
<1> DEFINE e == Each(op, s)
<1>1. /\ DOMAIN e = DOMAIN s
      /\ \A k \in DOMAIN e : e[k] = [op |-> op, c |-> s[k], i |-> 0]
  BY DEF Each
<1>2. e = [k \in 1 .. Len(s) |-> [op |-> op, c |-> s[k], i |-> 0]] /\ Len(s) \in Nat
  BY DEF Each
<1>3. \A k \in 1 .. Len(s) : [op |-> op, c |-> s[k], i |-> 0] \in Steps
  BY DEF Steps
<1>4. e \in Seq(Steps)
  BY <1>2, <1>3
<1>5. Phase(op) = call /\ op \notin Loops \cup Keeps
  BY DEF Phase, Loops, Keeps
<1> HIDE DEF e
<1>6. StepsFit(e) /\ \A k \in DOMAIN e : e[k].op \notin Keeps
  BY <1>1, <1>4, <1>5 DEF StepsFit
<1>7. QED
  BY <1>6 DEF e

Two(a, b) == <<a>> \o <<b>>

LEMMA TwoFacts ==
    ASSUME NEW S, NEW a \in S, NEW b \in S, NEW s, s = Two(a, b)
    PROVE  /\ s \in Seq(S) /\ DOMAIN s = {1, 2} /\ s[1] = a /\ s[2] = b
           /\ Head(s) = a /\ s # <<>>
<1>1. <<a>> \in Seq(S) /\ <<b>> \in Seq(S) /\ Len(<<a>>) = 1 /\ Len(<<b>>) = 1
      /\ <<a>>[1] = a /\ <<b>>[1] = b
  OBVIOUS
<1>2. s \in Seq(S) /\ Len(s) = 2 /\ s[1] = <<a>>[1] /\ s[2] = <<b>>[2 - 1]
  BY <1>1 DEF Two
<1>3. QED
  BY <1>1, <1>2

LEMMA TwoFit ==
    ASSUME NEW one \in Steps, NEW two \in Steps,
           Phase(one.op) = call, one.op \notin Loops \cup Keeps,
           Below[one.c] \subseteq Below[Me], Me \notin Below[one.c],
           Phase(two.op) = call, two.op \in Keeps, two.c = Me,
           Kind[Me] = "join", two.i \in DOMAIN Children[Me],
           NEW steps, steps = Two(one, two)
    PROVE  /\ StepsFit(steps)
           /\ \A k \in DOMAIN steps : steps[k].op \in Keeps => steps[k] = two
           /\ steps # <<>> /\ Head(steps) = one
<1>1. /\ steps \in Seq(Steps) /\ DOMAIN steps = {1, 2}
      /\ steps[1] = one /\ steps[2] = two /\ Head(steps) = one /\ steps # <<>>
  BY TwoFacts
<1>2. two.op \notin Loops
  BY DEF Loops, Keeps
<1>3. ASSUME NEW k \in DOMAIN steps
      PROVE  /\ Phase(steps[k].op) = call
             /\ steps[k].op \in Loops \cup Keeps =>
                   Kind[steps[k].c] = "join" /\ steps[k].i \in DOMAIN Children[steps[k].c]
             /\ Below[steps[k].c] \subseteq Below[Me]
             /\ steps[k].op \in Keeps => steps[k] = two
  <2>1. CASE k = 1
    BY <1>1, <2>1
  <2>2. CASE k = 2
    BY <1>1, <2>2
  <2>3. QED
    BY <1>1, <2>1, <2>2
<1>4. ASSUME NEW j \in DOMAIN steps, NEW k \in DOMAIN steps, j < k
      PROVE  steps[k].c \notin Below[steps[j].c]
  <2>1. j = 1 /\ k = 2
    BY <1>1, <1>4
  <2>2. QED
    BY <1>1, <2>1
<1>5. QED
  BY <1>1, <1>3, <1>4 DEF StepsFit
-----------------------------------------------------------------------------
LEMMA ForwardThroughKeeps == ASSUME TokensInv, ForwardThrough PROVE TokensInv'
<1> DEFINE steps == Each("forward", Children[Me])
<1>1. /\ Sound(heap) /\ todo # <<>> /\ Me \in Components /\ call = "forward" /\ Passing
  BY NowFacts DEF ForwardThrough, Phase, Loops, Ends
<1>2. /\ Continue(steps) /\ heap' = heap /\ hand' = hand /\ UNCHANGED <<script, outcome>>
      /\ call' = call
  BY DEF ForwardThrough, script
<1>3. /\ StepsFit(steps)
      /\ \A k \in DOMAIN steps : steps[k].op \notin Keeps
  BY <1>1, EachFits, BelowFacts, TreeAssumption
<1>4. Changes(heap, heap', {})
  BY <1>1, <1>2 DEF Changes
<1>5. HandInv'
  BY <1>1, <1>2, <1>4, SameHand
<1> HIDE DEF steps
<1>6. QED
  BY <1>1, <1>2, <1>3, <1>4, <1>5, Handler

LEMMA BackpropThroughKeeps == ASSUME TokensInv, BackpropThrough PROVE TokensInv'
<1> DEFINE steps == Each("backprop", Reverse(Children[Me]))
<1>1. /\ Sound(heap) /\ todo # <<>> /\ Me \in Components /\ call = "backprop" /\ Passing
  BY NowFacts DEF BackpropThrough, Phase, Loops, Ends
<1>2. /\ Continue(steps) /\ heap' = heap /\ hand' = hand /\ UNCHANGED <<script, outcome>>
      /\ call' = call
  BY DEF BackpropThrough, script
<1>3. /\ StepsFit(steps)
      /\ \A k \in DOMAIN steps : steps[k].op \notin Keeps
  <2> DEFINE s == Children[Me]
             r == Reverse(s)
  <2>1. s \in Seq(Components) /\ \A i \in DOMAIN s : Below[s[i]] \subseteq Below[Me]
    BY <1>1, BelowFacts, TreeAssumption
  <2> HIDE DEF s
  <2>2. r = [i \in 1 .. Len(s) |-> s[(Len(s) - i) + 1]] /\ Len(s) \in Nat
    BY <2>1 DEF Reverse
  <2>3. \A i \in 1 .. Len(s) : (Len(s) - i) + 1 \in 1 .. Len(s)
    BY <2>2
  <2>4. \A i \in 1 .. Len(s) : s[(Len(s) - i) + 1] \in Components
    BY <2>1, <2>3
  <2>5. r \in Seq(Components) /\ \A i \in DOMAIN r : Below[r[i]] \subseteq Below[Me]
    BY <2>1, <2>2, <2>3, <2>4
  <2> HIDE DEF r
  <2>6. StepsFit(Each("backprop", r))
        /\ \A k \in DOMAIN Each("backprop", r) : Each("backprop", r)[k].op \notin Keeps
    BY <1>1, <2>5, EachFits
  <2>7. QED
    BY <2>6 DEF r, s
<1>4. Changes(heap, heap', {})
  BY <1>1, <1>2 DEF Changes
<1>5. HandInv'
  BY <1>1, <1>2, <1>4, SameHand
<1> HIDE DEF steps
<1>6. QED
  BY <1>1, <1>2, <1>3, <1>4, <1>5, Handler
-----------------------------------------------------------------------------
LEMMA AssignOne ==
    ASSUME NEW h, Sound(h), NEW p \in DOMAIN h.at, p \notin VectorRoots,
           NEW P, P = {p}, NEW t, KeptBeside(h, t, P), NEW g, g = Assign(h, p, t)
    PROVE  /\ Changes(h, g, P) /\ DOMAIN g.at = DOMAIN h.at /\ g.at[p] = t
           /\ g.type = h.type /\ Live(g) = Live(h)
           /\ \A x \in Live(h) : EntriesOf(g, x) = EntriesOf(h, x)
<1> DEFINE v == [q \in {p} |-> t]
<1>1. DOMAIN v = {p} /\ v[p] = t /\ IsMap(v)
  BY DEF IsMap
<1>2. g = AssignAll(h, v)
  BY DEF Assign
<1> HIDE DEF v
<1>3. /\ Sound(g)
      /\ g.at = [q \in DOMAIN h.at |-> IF q \in DOMAIN v THEN v[q] ELSE h.at[q]]
      /\ g.type = h.type /\ Live(g) = Live(h)
      /\ \A x \in Live(h) : EntriesOf(g, x) = EntriesOf(h, x)
  <2>1. DOMAIN v \subseteq DOMAIN h.at /\ DOMAIN v \cap VectorRoots = {}
    BY <1>1
  <2>2. \A q \in DOMAIN v : v[q] # Null =>
           \E x \in DOMAIN h.at \ DOMAIN v :
              h.at[x] = v[q] /\ (x \notin VectorRoots \/ x.member = "error_output_vector")
    BY <1>1 DEF KeptBeside
  <2>3. QED
    BY <1>1, <1>2, <2>1, <2>2, AssignSound
<1>4. QED
  BY <1>1, <1>3 DEF Changes

\* A member of Me.
LEMMA MineFacts ==
    ASSUME Sound(heap), Me \in Components, NEW f \in MembersOf(Me)
    PROVE  /\ Mine(f) \in Roots /\ Mine(f) \in DOMAIN heap.at /\ Mine(f).member = f
           /\ Mine(f) \in Local(heap, Me)
           /\ f \notin Vectors => Mine(f) \notin VectorRoots
           /\ Arena(Mine(f)) \subseteq Tokens
  BY Places, SoundFacts, ArenaAssumption DEF Mine, Local, MemberPlaces, VectorRoots

\* A handler that makes what it passes on.
LEMMA Makes ==
    ASSUME TokensInv, todo # <<>>, call \in {"forward", "backprop"}, Me \in Components,
           NEW V, V \subseteq Local(heap, Me), V \cap VectorRoots = {},
           NEW g, Changes(heap, g, V),
           NEW f \in MembersOf(Me), f = (IF call = "forward" THEN "output" ELSE "error_output"),
           Free(g, Mine(f)) # {},
           NEW k \in {"mem", "sparse", "vector"}, NEW n \in Nat,
           NEW u, KeptBeside(g, u, {Mine(f)}),
           heap' = AssignNew(g, {Mine(f)}, k, n, u), hand' = heap'.at[Mine(f)],
           Continue(<<>>), UNCHANGED <<script, outcome>>
    PROVE  TokensInv'
<1>1. Sound(heap) /\ Sound(g)
  BY DEF TokensInv, Changes
<1>2. f \notin Vectors
  BY DEF Vectors
<1>3. PICK p \in Roots :
         /\ p = Mine(f) /\ p.member = f /\ p \notin VectorRoots /\ p \in Local(heap, Me)
         /\ Arena(p) \subseteq Tokens
  BY <1>1, <1>2, MineFacts
<1>4. Changes(g, heap', {p})
  <2>1. Available(g, {p})
    BY <1>3 DEF Available
  <2>2. {p} \in SUBSET DOMAIN g.at /\ {p} \cap VectorRoots = {}
    BY <1>1, <1>3, SoundFacts
  <2>3. KeptBeside(g, u, {p}) /\ heap' = AssignNew(g, {p}, k, n, u)
    BY <1>3
  <2>4. QED
    BY <1>1, <2>1, <2>2, <2>3, AssignNewSound
<1>5. Changes(heap, heap', V \cup {p})
  BY <1>4, ChangesTwice
<1>6. V \cup {p} \subseteq Local(heap, Me) /\ (V \cup {p}) \cap VectorRoots = {}
  BY <1>3
<1>7. Lasting(p)'
  BY <1>3 DEF Lasting, script
<1>8. HandInv'
  BY <1>3, <1>4, <1>7, NewHand DEF Changes
<1>9. StepsFit(<<>>) /\ DOMAIN <<>> = {}
  BY NoneFits
<1> DEFINE steps == <<>>
<1>10. /\ StepsFit(steps) /\ Continue(steps)
       /\ \A k_1 \in DOMAIN steps :
             steps[k_1].op \in Keeps => heap'.at[Awaited(heap', steps[k_1])] = Null
  BY <1>9
<1> HIDE DEF steps
<1>11. QED
  BY <1>5, <1>6, <1>8, <1>10, Handler

\* AssignRef(input, hand), AssignRef(error_input, hand)
LEMMA KeepsHand ==
    ASSUME TokensInv, Me \in Components, Passing,
           NEW e \in MembersOf(Me), e \in {"input", "error_input"},
           NEW g, g = Assign(heap, Mine(e), hand)
    PROVE  /\ Changes(heap, g, {Mine(e)}) /\ DOMAIN g.at = DOMAIN heap.at
           /\ g.at[Mine(e)] = hand
           /\ g.type = heap.type /\ Live(g) = Live(heap)
           /\ \A x \in Live(heap) : EntriesOf(g, x) = EntriesOf(heap, x)
           /\ {Mine(e)} \subseteq Local(heap, Me) /\ {Mine(e)} \cap VectorRoots = {}
           /\ Mine(e) \in Roots /\ Mine(e).member = e /\ ~Lasting(Mine(e))
<1>1. Sound(heap) /\ e \notin Vectors
  BY DEF TokensInv, Vectors
<1>2. /\ Mine(e) \in DOMAIN heap.at /\ Mine(e).member = e /\ Mine(e) \notin VectorRoots
      /\ Mine(e) \in Local(heap, Me) /\ Mine(e) \in Roots
  BY <1>1, MineFacts
<1>3. ~Lasting(Mine(e))
  BY <1>2 DEF Lasting
<1>4. KeptBeside(heap, hand, {Mine(e)})
  BY <1>3, HandBeside
<1>5. /\ Changes(heap, g, {Mine(e)}) /\ DOMAIN g.at = DOMAIN heap.at
      /\ g.type = heap.type /\ Live(g) = Live(heap)
      /\ \A x \in Live(heap) : EntriesOf(g, x) = EntriesOf(heap, x)
  BY <1>1, <1>2, <1>4, AssignOne
<1>a. g.at[Mine(e)] = hand
  BY <1>1, <1>2, <1>4, AssignOne
<1>6. QED
  BY <1>2, <1>3, <1>5, <1>a

\* One that keeps its argument first.
LEMMA KeepsAndMakes ==
    ASSUME TokensInv, todo # <<>>, call \in {"forward", "backprop"}, Me \in Components, Passing,
           NEW e \in MembersOf(Me), e = (IF call = "forward" THEN "input" ELSE "error_input"),
           NEW f \in MembersOf(Me), f = (IF call = "forward" THEN "output" ELSE "error_output"),
           Room({Mine(f)}),
           NEW k \in {"mem", "sparse", "vector"}, NEW n \in Nat, NEW u \in {hand, Null},
           heap' = AssignNew(Assign(heap, Mine(e), hand), {Mine(f)}, k, n, u),
           hand' = heap'.at[Mine(f)], Continue(<<>>), UNCHANGED <<script, outcome>>
    PROVE  TokensInv'
<1>1. Sound(heap)
  BY DEF TokensInv
<1>2. f \notin Vectors /\ e # f
  BY DEF Vectors
<1>3. PICK g : g = Assign(heap, Mine(e), hand)
  OBVIOUS
<1>4. /\ Changes(heap, g, {Mine(e)}) /\ DOMAIN g.at = DOMAIN heap.at
      /\ g.at[Mine(e)] = hand /\ Live(g) = Live(heap)
      /\ {Mine(e)} \subseteq Local(heap, Me) /\ {Mine(e)} \cap VectorRoots = {}
      /\ Mine(e) \in Roots /\ Mine(e).member = e
  BY <1>3, KeepsHand
<1>5. Mine(f).member = f
  BY <1>1, MineFacts
<1>6. Free(g, Mine(f)) # {}
  BY <1>4 DEF Room, Free
<1>7. KeptBeside(g, u, {Mine(f)})
  BY <1>1, <1>2, <1>4, <1>5, SoundFacts DEF KeptBeside
<1>8. heap' = AssignNew(g, {Mine(f)}, k, n, u)
  BY <1>3
<1>9. QED
  BY <1>4, <1>6, <1>7, <1>8, Makes

LEMMA ForwardBlockKeeps == ASSUME TokensInv, ForwardBlock PROVE TokensInv'
<1>1. /\ todo # <<>> /\ Me \in Components /\ call = "forward" /\ Passing
      /\ Kind[Me] \in {"bias", "activation"}
  BY NowFacts DEF ForwardBlock, Phase, Loops, Ends
<1>2. "input" \in MembersOf(Me) /\ "output" \in MembersOf(Me)
  BY <1>1 DEF MembersOf, Members
<1>3. /\ heap' = AssignNew(Assign(heap, Mine("input"), hand), {Mine("output")}, "mem", 0, Null)
      /\ hand' = heap'.at[Mine("output")] /\ UNCHANGED <<script, outcome>>
  BY DEF ForwardBlock, Passes, MakeBlock
<1>4. Room({Mine("output")}) /\ Continue(<<>>)
  BY DEF ForwardBlock
<1>5. QED
  BY <1>1, <1>2, <1>3, <1>4, KeepsAndMakes

LEMMA ForwardCopyKeeps == ASSUME TokensInv, ForwardCopy PROVE TokensInv'
<1>1. /\ todo # <<>> /\ Me \in Components /\ call = "forward" /\ Passing
      /\ Kind[Me] \in {"copy"}
  BY NowFacts DEF ForwardCopy, Phase, Loops, Ends
<1>2. "input" \in MembersOf(Me) /\ "output" \in MembersOf(Me)
  BY <1>1 DEF MembersOf, Members
<1>3. /\ heap' = AssignNew(Assign(heap, Mine("input"), hand), {Mine("output")}, "vector", Times, hand)
      /\ hand' = heap'.at[Mine("output")] /\ UNCHANGED <<script, outcome>>
  BY DEF ForwardCopy, Passes
<1>4. Room({Mine("output")}) /\ Continue(<<>>) /\ Times \in Nat
  BY TreeAssumption DEF ForwardCopy
<1>5. QED
  BY <1>1, <1>2, <1>3, <1>4, KeepsAndMakes

LEMMA BackpropBlockKeeps == ASSUME TokensInv, BackpropBlock PROVE TokensInv'
<1>1. /\ todo # <<>> /\ Me \in Components /\ call = "backprop" /\ Passing
      /\ Kind[Me] \in {"dot_product", "activation", "copy"}
  BY NowFacts DEF BackpropBlock, Phase, Loops, Ends
<1>2. "error_input" \in MembersOf(Me) /\ "error_output" \in MembersOf(Me)
  BY <1>1 DEF MembersOf, Members
<1>3. /\ heap' = AssignNew(Assign(heap, Mine("error_input"), hand), {Mine("error_output")}, "mem", 0, Null)
      /\ hand' = heap'.at[Mine("error_output")] /\ UNCHANGED <<script, outcome>>
  BY DEF BackpropBlock, Passes, MakeBlock
<1>4. Room({Mine("error_output")}) /\ Continue(<<>>)
  BY DEF BackpropBlock
<1>5. QED
  BY <1>1, <1>2, <1>3, <1>4, KeepsAndMakes

\* A sparse token is wrapped first.
LEMMA ForwardDotProductKeeps == ASSUME TokensInv, ForwardDotProduct PROVE TokensInv'
<1>1. /\ Sound(heap) /\ todo # <<>> /\ Me \in Components /\ call = "forward" /\ Passing
      /\ Kind[Me] \in {"dot_product"}
  BY NowFacts DEF ForwardDotProduct, Phase, Loops, Ends
<1>2. /\ "input" \in MembersOf(Me) /\ "output" \in MembersOf(Me)
      /\ "input" \notin Vectors /\ "output" \notin Vectors
  BY <1>1 DEF MembersOf, Members, Vectors
<1>3. /\ Mine("input") \in Roots /\ Mine("output") \in Roots
      /\ Mine("input").member = "input" /\ Mine("output").member = "output"
      /\ Mine("input") \notin VectorRoots /\ Mine("input") \in DOMAIN heap.at
      /\ Mine("input") \in Local(heap, Me) /\ Arena(Mine("input")) \subseteq Tokens
  BY <1>1, <1>2, MineFacts
<1>4. /\ UNCHANGED <<script, outcome>> /\ Continue(<<>>)
      /\ Free(heap, Mine("input")) # {} /\ Free(heap, Mine("output")) # {}
  BY DEF ForwardDotProduct, Passes, Room
<1>5. CASE heap.type[hand] # "sparse"
  <2>1. /\ heap' = AssignNew(Assign(heap, Mine("input"), hand), {Mine("output")}, "mem", 0, Null)
        /\ hand' = heap'.at[Mine("output")] /\ Room({Mine("output")})
    BY <1>5 DEF ForwardDotProduct, Passes, MakeBlock, Room
  <2>2. QED
    BY <1>1, <1>2, <1>4, <2>1, KeepsAndMakes
<1>6. CASE heap.type[hand] = "sparse"
  <2>1. PICK P : P = {Mine("input")}
    OBVIOUS
  <2>2. PICK g : g = AssignNew(heap, P, "vector", 1, hand)
    OBVIOUS
  <2>3. /\ heap' = AssignNew(g, {Mine("output")}, "mem", 0, Null)
        /\ hand' = heap'.at[Mine("output")]
    BY <1>6, <2>1, <2>2 DEF ForwardDotProduct, Passes, MakeBlock
  <2>4. KeptBeside(heap, hand, P)
    <3>1. \A p \in P : ~Lasting(p)
      BY <1>1, <1>3, <2>1 DEF Lasting
    <3>2. QED
      BY <1>1, <3>1, HandBeside
  <2>5. /\ Changes(heap, g, P)
        /\ \A p \in P : g.at[p] \in Arena(p) \ Live(heap)
        /\ Live(g) = Live(heap) \cup {g.at[p] : p \in P}
    <3>1. P \in SUBSET DOMAIN heap.at /\ P \cap VectorRoots = {}
      BY <1>3, <2>1
    <3>2. Available(heap, P)
      BY <1>3, <1>4, <2>1 DEF Available
    <3>3. QED
      BY <1>1, <2>2, <2>4, <3>1, <3>2, AssignNewSound
  <2>6. Free(g, Mine("output")) # {}
    <3>1. Mine("input") # Mine("output")
      BY <1>3
    <3>2. Arena(Mine("output")) \cap Arena(Mine("input")) = {}
      BY <1>3, <3>1, ArenaAssumption
    <3>3. PICK t \in Arena(Mine("output")) : t \notin Live(heap)
      BY <1>4 DEF Free
    <3>4. t \notin Live(g)
      BY <2>1, <2>5, <3>2, <3>3
    <3>5. QED
      BY <3>3, <3>4 DEF Free
  <2>7. P \subseteq Local(heap, Me) /\ P \cap VectorRoots = {}
    BY <1>3, <2>1
  <2>8. KeptBeside(g, Null, {Mine("output")})
    BY DEF KeptBeside
  <2>9. QED
    BY <1>1, <1>2, <1>4, <2>3, <2>5, <2>6, <2>7, <2>8, Makes
<1>7. QED
  BY <1>5, <1>6

\* A handler that keeps its argument and makes nothing.
LEMMA BackpropBiasKeeps == ASSUME TokensInv, BackpropBias PROVE TokensInv'
<1>1. /\ Sound(heap) /\ todo # <<>> /\ Me \in Components /\ call = "backprop" /\ Passing
      /\ Kind[Me] \in {"bias"}
  BY NowFacts DEF BackpropBias, Phase, Loops, Ends
<1>2. "error_input" \in MembersOf(Me)
  BY <1>1 DEF MembersOf, Members
<1>3. /\ heap' = Assign(heap, Mine("error_input"), hand) /\ hand' = hand /\ Continue(<<>>)
      /\ UNCHANGED <<script, outcome>> /\ call' = call
  BY DEF BackpropBias, script
<1>4. PICK W : W = {Mine("error_input")}
  OBVIOUS
<1>5. /\ Changes(heap, heap', W) /\ W \subseteq Local(heap, Me) /\ W \cap VectorRoots = {}
      /\ \A p \in W : ~Lasting(p)
  BY <1>1, <1>2, <1>3, <1>4, KeepsHand
<1>6. HandInv'
  BY <1>1, <1>3, <1>5, SameHand
<1>7. PICK steps : steps = <<>> /\ StepsFit(steps)
  BY NoneFits
<1>8. Continue(steps) /\ \A k \in DOMAIN steps : steps[k].op \notin Keeps
  BY <1>3, <1>7
<1>9. QED
  BY <1>1, <1>3, <1>5, <1>6, <1>7, <1>8, Handler

LEMMA ReleaseChanges ==
    ASSUME NEW h, Sound(h), NEW P \in SUBSET DOMAIN h.at, NEW g, g = Release(h, P)
    PROVE  Changes(h, g, P) /\ DOMAIN g.at = DOMAIN h.at /\ \A p \in P : g.at[p] = Null
<1>1. Sound(g) /\ g.at = [p \in DOMAIN h.at |-> IF p \in P THEN Null ELSE h.at[p]]
  BY ReleaseSound
<1>2. QED
  BY <1>1 DEF Changes

\* A handler that calls nobody.
LEMMA Finishes ==
    ASSUME TokensInv, todo # <<>>, call \in {"forward", "backprop"},
           NEW W, W \subseteq Local(heap, Me), W \cap VectorRoots = {}, Changes(heap, heap', W),
           Continue(<<>>), UNCHANGED <<script, outcome>>, HandInv'
    PROVE  TokensInv'
<1>1. PICK steps : steps = <<>> /\ StepsFit(steps)
  BY NoneFits
<1>2. Continue(steps) /\ \A k \in DOMAIN steps : steps[k].op \notin Keeps
  BY <1>1
<1>3. QED
  BY <1>1, <1>2, Handler

LEMMA BackpropSparseKeeps == ASSUME TokensInv, BackpropSparse PROVE TokensInv'
<1>1. /\ Sound(heap) /\ todo # <<>> /\ Me \in Components /\ call = "backprop" /\ Passing
      /\ Kind[Me] \in {"dot_product"}
  BY NowFacts DEF BackpropSparse, Phase, Loops, Ends
<1>2. /\ "error_input" \in MembersOf(Me) /\ "error_output" \in MembersOf(Me)
      /\ "error_output" \notin Vectors
  BY <1>1 DEF MembersOf, Members, Vectors
<1>3. PICK g : g = Assign(heap, Mine("error_input"), hand)
  OBVIOUS
<1>4. PICK P : P = {Mine("error_output")}
  OBVIOUS
<1>5. PICK V : V = {Mine("error_input")}
  OBVIOUS
<1>6. heap' = Release(g, P) /\ hand' = Null /\ Continue(<<>>) /\ UNCHANGED <<script, outcome>>
  BY <1>3, <1>4 DEF BackpropSparse, Passes
<1>7. /\ Changes(heap, g, V) /\ DOMAIN g.at = DOMAIN heap.at
      /\ V \subseteq Local(heap, Me) /\ V \cap VectorRoots = {}
  BY <1>1, <1>2, <1>3, <1>5, KeepsHand
<1>8. P \subseteq Local(heap, Me) /\ P \cap VectorRoots = {} /\ P \subseteq DOMAIN heap.at
  BY <1>1, <1>2, <1>4, MineFacts
<1>9. Changes(g, heap', P)
  BY <1>6, <1>7, <1>8, ReleaseChanges DEF Changes
<1>10. PICK W : W = V \cup P /\ Changes(heap, heap', W)
  BY <1>7, <1>9, ChangesTwice
<1>11. HandInv'
  BY <1>6 DEF HandInv
<1>12. W \subseteq Local(heap, Me) /\ W \cap VectorRoots = {}
  BY <1>7, <1>8, <1>10
<1>13. QED
  BY <1>1, <1>6, <1>10, <1>11, <1>12, Finishes

LEMMA BackpropNullKeeps == ASSUME TokensInv, BackpropNull PROVE TokensInv'
<1>1. /\ Sound(heap) /\ todo # <<>> /\ Me \in Components /\ call = "backprop"
      /\ Kind[Me] \in {"copy", "join"}
  BY NowFacts DEF BackpropNull, Phase
<1>2. /\ "error_input" \in MembersOf(Me) /\ "error_output" \in MembersOf(Me)
      /\ "error_input" \notin Vectors /\ "error_output" \notin Vectors
  BY <1>1 DEF MembersOf, Members, Vectors
<1>3. PICK W : W = {Mine("error_input"), Mine("error_output")}
  OBVIOUS
<1>4. heap' = Release(heap, W) /\ hand' = Null /\ Continue(<<>>) /\ UNCHANGED <<script, outcome>>
  BY <1>3 DEF BackpropNull
<1>5. W \subseteq Local(heap, Me) /\ W \cap VectorRoots = {} /\ W \subseteq DOMAIN heap.at
  BY <1>1, <1>2, <1>3, MineFacts
<1>6. Changes(heap, heap', W)
  BY <1>1, <1>4, <1>5, ReleaseChanges
<1>7. HandInv'
  BY <1>4 DEF HandInv
<1>8. QED
  BY <1>1, <1>4, <1>5, <1>6, <1>7, Finishes
-----------------------------------------------------------------------------
(***************************************************************************)
(* The joins                                                               *)
(***************************************************************************)
LEMMA MyVector ==
    ASSUME TokensInv, call \in {"forward", "backprop"}, Me \in Components, Kind[Me] = "join",
           NEW f \in Vectors
    PROVE  /\ Mine(f) \in VectorRoots /\ Mine(f).of = Me /\ Mine(f).member = f
           /\ Here(f) = heap.at[Mine(f)] /\ Here(f) \in Live(heap)
           /\ MyEntries(f) = {Entry(Here(f), i) : i \in DOMAIN Children[Me]}
           /\ MyEntries(f) \subseteq DOMAIN heap.at /\ MyEntries(f) \subseteq Local(heap, Me)
           /\ MyEntries(f) \cap Roots = {} /\ MyEntries(f) \cap VectorRoots = {}
           /\ \A p \in MyEntries(f) : p.member = "entry" /\ p.of = Here(f)
           /\ \A g \in Vectors : g # f => Here(g) # Here(f)
<1>1. Sound(heap) /\ VectorsMade(heap)
  BY RunsBuilt DEF TokensInv
<1>2. \A g \in Vectors : /\ Mine(g) \in VectorRoots /\ Mine(g).of = Me /\ Mine(g).member = g
                         /\ Here(g) = heap.at[Mine(g)]
  BY Places DEF Mine, Here, Me
<1>3. /\ Here(f) \in Live(heap)
      /\ EntriesOf(heap, Here(f)) = {Entry(Here(f), i) : i \in DOMAIN Children[Me]}
      /\ EntriesOf(heap, Here(f)) \subseteq DOMAIN heap.at
      /\ EntriesOf(heap, Here(f)) \subseteq Local(heap, Me)
      /\ EntriesOf(heap, Here(f)) \cap Roots = {}
  BY <1>1, <1>2, VectorEntries DEF Mine
<1>4. \A g \in Vectors : g # f => Here(g) # Here(f)
  BY <1>1, <1>2, SoundFacts DEF VectorsMade
<1>5. MyEntries(f) = EntriesOf(heap, Here(f))
  BY DEF MyEntries
<1>6. \A p \in MyEntries(f) : p.member = "entry" /\ p.of = Here(f)
  BY <1>5 DEF EntriesOf
<1>7. QED
  BY <1>2, <1>3, <1>4, <1>5, <1>6 DEF VectorRoots

LEMMA CallChildKeeps ==
    ASSUME TokensInv, NEW loop, NEW op, NEW from, NEW to, NEW keep,
           \/ /\ loop = "forward_child" /\ op = "forward" /\ keep = "forwarded"
              /\ from = "input_vector" /\ to = "output_vector"
           \/ /\ loop = "backprop_child" /\ op = "backprop" /\ keep = "backpropped"
              /\ from = "error_input_vector" /\ to = "error_output_vector",
           CallChild(loop, op, from, to, keep)
    PROVE  TokensInv'
<1>1. /\ Sound(heap) /\ todo # <<>> /\ Me \in Components /\ call \in {"forward", "backprop"}
      /\ Kind[Me] = "join" /\ I \in DOMAIN Children[Me] /\ I \in Nat
      /\ Phase(op) = call /\ Phase(keep) = call
  BY NowFacts DEF CallChild, Phase, Loops
<1>2. /\ op \in {"forward", "backprop"} /\ keep \in Keeps
      /\ op \notin Loops \cup Keeps /\ from \in Vectors /\ to \in Vectors /\ from # to
      /\ to = IF keep = "forwarded" THEN "output_vector" ELSE "error_output_vector"
  BY DEF Keeps, Loops, Vectors
<1>3. /\ MyEntry(from) = Entry(Here(from), I) /\ MyEntry(to) = Entry(Here(to), I)
  BY DEF MyEntry
<1>4. PICK p : p = MyEntry(from) /\ p \in MyEntries(from)
  BY <1>1, <1>2, <1>3, MyVector
<1>a. MyEntry(to) \in MyEntries(to)
  BY <1>1, <1>2, <1>3, MyVector
<1>5. PICK W : W = {MyEntry(to)} /\ MyEntry(to) \in MyEntries(to)
  BY <1>a
<1>6. /\ W \subseteq Local(heap, Me) /\ W \cap VectorRoots = {} /\ W \subseteq DOMAIN heap.at
      /\ p \in DOMAIN heap.at /\ p \notin W /\ p.member = "entry" /\ p.of = Here(from)
  BY <1>1, <1>2, <1>3, <1>4, <1>5, MyVector, EntriesApart
<1>7. /\ heap' = Release(heap, W) /\ hand' = heap.at[p] /\ UNCHANGED <<script, outcome>>
      /\ Continue(Do(op, Children[Me][I], 0) \o Do(keep, Me, I))
  BY <1>4, <1>5 DEF CallChild, Passes
<1>8. Changes(heap, heap', W) /\ DOMAIN heap'.at = DOMAIN heap.at /\ heap'.at[MyEntry(to)] = Null
  BY <1>1, <1>5, <1>6, <1>7, ReleaseChanges
<1>9. HandInv'
  <2>1. heap'.at[p] = hand' /\ p \in DOMAIN heap'.at
    BY <1>6, <1>7, <1>8 DEF Changes
  <2>2. PICK q \in VectorRoots : q = Mine(from) /\ heap.at[q] = p.of
    BY <1>1, <1>2, <1>6, MyVector
  <2>3. heap'.at[q] = p.of
    BY <1>1, <1>6, <1>8, <2>2, SoundFacts DEF Changes
  <2>4. Holds(heap', hand', p) /\ Lasting(p)'
    BY <1>6, <2>1, <2>3 DEF Holds, Lasting
  <2>5. QED
    BY <2>1, <2>4 DEF HandInv
<1>10. PICK one \in Steps : one = [op |-> op, c |-> Children[Me][I], i |-> 0]
  BY <1>1, <1>2, BelowFacts DEF Steps
<1>11. PICK two \in Steps : two = [op |-> keep, c |-> Me, i |-> I]
  BY <1>1, <1>2 DEF Steps
<1>12. PICK steps : steps = Two(one, two) /\ Continue(steps)
  BY <1>7, <1>10, <1>11 DEF Do, Two
<1>13. /\ StepsFit(steps)
       /\ \A k \in DOMAIN steps : steps[k].op \in Keeps => steps[k] = two
  <2>1. one.op = op /\ one.c = Children[Me][I]
    BY <1>10
  <2>2. two.op = keep /\ two.c = Me /\ two.i = I
    BY <1>11
  <2>3. Below[one.c] \subseteq Below[Me] /\ Me \notin Below[one.c]
    BY <1>1, <2>1, BelowFacts, NetworkAssumption
  <2>4. /\ Phase(one.op) = call /\ one.op \notin Loops \cup Keeps
        /\ Phase(two.op) = call /\ two.op \in Keeps /\ two.i \in DOMAIN Children[Me]
    BY <1>1, <1>2, <2>1, <2>2
  <2>5. QED
    BY <1>1, <1>12, <2>2, <2>3, <2>4, TwoFit
<1>14. heap'.at[Awaited(heap', two)] = Null
  <2>1. Awaited(heap', two) = Entry(heap'.at[Member(Me, to)], I)
    BY <1>2, <1>11 DEF Awaited
  <2>2. Mine(to) = Member(Me, to) /\ Mine(to) \in DOMAIN heap.at /\ Mine(to) \notin W
    BY <1>1, <1>2, <1>6, MyVector, SoundFacts DEF Mine
  <2>3. heap'.at[Member(Me, to)] = Here(to)
    BY <1>1, <1>2, <1>8, <2>2, MyVector DEF Changes
  <2>4. QED
    BY <1>3, <1>8, <2>1, <2>3
<1>15. \A k \in DOMAIN steps : steps[k].op \in Keeps => heap'.at[Awaited(heap', steps[k])] = Null
  BY <1>13, <1>14
<1>16. QED
  BY <1>1, <1>6, <1>7, <1>8, <1>9, <1>12, <1>13, <1>15, Handler

LEMMA KeepResultKeeps ==
    ASSUME TokensInv, NEW keep, NEW to, NEW loop, NEW end,
           \/ /\ keep = "forwarded" /\ to = "output_vector"
              /\ loop = "forward_child" /\ end = "end_forward"
           \/ /\ keep = "backpropped" /\ to = "error_output_vector"
              /\ loop = "backprop_child" /\ end = "end_backprop",
           KeepResult(keep, to, loop, end)
    PROVE  TokensInv'
<1>1. /\ Sound(heap) /\ todo # <<>> /\ Me \in Components /\ call \in {"forward", "backprop"}
      /\ Kind[Me] = "join" /\ I \in DOMAIN Children[Me] /\ I \in Nat /\ Passing
      /\ Phase(keep) = call /\ Head(todo) = todo[1] /\ 1 \in DOMAIN todo /\ Head(todo).op = keep
  BY NowFacts DEF KeepResult, Phase, Loops, Keeps, Ends
<1>2. /\ Phase(loop) = call /\ Phase(end) = call /\ to \in Vectors /\ keep \in Keeps
      /\ loop \in Loops /\ end \in Ends /\ end \notin Loops \cup Keeps
      /\ to = IF keep = "forwarded" THEN "output_vector" ELSE "error_output_vector"
  BY <1>1 DEF Phase, Vectors, Loops, Keeps, Ends
<1>3. PICK p : p = MyEntry(to) /\ p = Entry(Here(to), I)
  BY DEF MyEntry
<1>4. /\ p \in DOMAIN heap.at /\ p \in Local(heap, Me) /\ p \notin VectorRoots
  BY <1>1, <1>2, <1>3, MyVector
<1>5. heap.at[p] = Null
  <2>1. heap.at[Awaited(heap, todo[1])] = Null
    BY <1>1, <1>2 DEF TokensInv, Waiting
  <2>2. Awaited(heap, todo[1]) = Entry(heap.at[Member(Me, to)], I)
    BY <1>1, <1>2 DEF Awaited, Me, I
  <2>3. heap.at[Member(Me, to)] = Here(to)
    BY DEF Here, Me
  <2>4. QED
    BY <1>3, <2>1, <2>2, <2>3
<1>a. PICK v : v = [q \in {p} |-> hand]
  OBVIOUS
<1>6. DOMAIN v = {p} /\ v[p] = hand /\ IsMap(v)
  BY <1>a DEF IsMap
<1>7. /\ heap' = Bind(heap, v) /\ hand' = hand /\ UNCHANGED <<script, outcome>> /\ call' = call
      /\ Continue(Do(IF I < Len(Children[Me]) THEN loop ELSE end, Me,
                     IF I < Len(Children[Me]) THEN I + 1 ELSE 0))
  BY <1>3, <1>a DEF KeepResult, script
<1>8. PICK W : W = {p}
  OBVIOUS
<1>9. Changes(heap, heap', W)
  <2>1. Passable(heap, hand)
    <3>1. KeptBeside(heap, hand, {})
      BY <1>1, HandBeside
    <3>2. QED
      BY <1>1, <3>1, SoundFacts DEF KeptBeside, Passable
  <2>2. /\ DOMAIN v \subseteq DOMAIN heap.at /\ DOMAIN v \cap VectorRoots = {}
        /\ \A q \in DOMAIN v : heap.at[q] = Null /\ Passable(heap, v[q])
    BY <1>4, <1>5, <1>6, <2>1
  <2>3. /\ Sound(heap')
        /\ heap'.at = [q \in DOMAIN heap.at |-> IF q \in DOMAIN v THEN v[q] ELSE heap.at[q]]
    BY <1>1, <1>6, <1>7, <2>2, BindSound
  <2>4. QED
    BY <1>6, <1>8, <2>3 DEF Changes
<1>10. W \subseteq Local(heap, Me) /\ W \cap VectorRoots = {} /\ \A q \in W : heap.at[q] = Null
  BY <1>4, <1>5, <1>8
<1>11. HandInv'
  BY <1>1, <1>7, <1>9, <1>10, SameHand
<1>12. PICK steps : /\ Continue(steps) /\ StepsFit(steps)
                    /\ \A k \in DOMAIN steps : steps[k].op \notin Keeps
  <2>1. CASE I < Len(Children[Me])
    <3>1. I + 1 \in Nat /\ I + 1 \in DOMAIN Children[Me]
      BY <1>1, <2>1, TreeAssumption
    <3>2. [op |-> loop, c |-> Me, i |-> I + 1] \in Steps /\ loop \notin Keeps
      BY <1>1, <1>2, <3>1 DEF Steps, Loops, Keeps
    <3>3. /\ StepsFit(Do(loop, Me, I + 1))
          /\ \A k \in DOMAIN Do(loop, Me, I + 1) : Do(loop, Me, I + 1)[k].op = loop
      BY <1>1, <1>2, <3>1, <3>2, OneFits
    <3>4. Continue(Do(loop, Me, I + 1))
      BY <1>7, <2>1
    <3>5. QED
      BY <3>2, <3>3, <3>4
  <2>2. CASE ~(I < Len(Children[Me]))
    <3>1. [op |-> end, c |-> Me, i |-> 0] \in Steps
      BY <1>1, <1>2 DEF Steps
    <3>2. /\ StepsFit(Do(end, Me, 0))
          /\ \A k \in DOMAIN Do(end, Me, 0) : Do(end, Me, 0)[k].op = end
      BY <1>1, <1>2, <3>1, OneFits
    <3>3. Continue(Do(end, Me, 0))
      BY <1>7, <2>2
    <3>4. QED
      BY <1>2, <3>2, <3>3
  <2>3. QED
    BY <2>1, <2>2
<1>13. QED
  BY <1>1, <1>7, <1>9, <1>10, <1>11, <1>12, Handler

LEMMA EndForwardJoinKeeps == ASSUME TokensInv, EndForwardJoin PROVE TokensInv'
<1>1. /\ Sound(heap) /\ todo # <<>> /\ Me \in Components /\ call = "forward"
      /\ Kind[Me] \in {"join"}
  BY NowFacts DEF EndForwardJoin, Phase
<1>2. "output" \in MembersOf(Me)
  BY <1>1 DEF MembersOf, Members
<1>3. /\ heap' = AssignNew(heap, {Mine("output")}, "mem", 0, Null)
      /\ hand' = heap'.at[Mine("output")] /\ Continue(<<>>) /\ UNCHANGED <<script, outcome>>
      /\ Free(heap, Mine("output")) # {}
  BY DEF EndForwardJoin, Concat, Passes, MakeBlock, Room
<1>4. Changes(heap, heap, {}) /\ KeptBeside(heap, Null, {Mine("output")})
  BY <1>1 DEF Changes, KeptBeside
<1>5. QED
  BY <1>1, <1>2, <1>3, <1>4, Makes

LEMMA EndBackpropJoinKeeps == ASSUME TokensInv, EndBackpropJoin PROVE TokensInv'
<1>1. /\ Sound(heap) /\ todo # <<>> /\ Me \in Components /\ call = "backprop"
      /\ Kind[Me] \in {"join"}
  BY NowFacts DEF EndBackpropJoin, Phase
<1>2. "error_output" \in MembersOf(Me)
  BY <1>1 DEF MembersOf, Members
<1>3. /\ heap' = AssignNew(heap, {Mine("error_output")}, "mem", 0, Null)
      /\ hand' = heap'.at[Mine("error_output")] /\ Continue(<<>>) /\ UNCHANGED <<script, outcome>>
      /\ Free(heap, Mine("error_output")) # {}
  BY DEF EndBackpropJoin, Concat, Passes, MakeBlock, Room
<1>4. Changes(heap, heap, {}) /\ KeptBeside(heap, Null, {Mine("error_output")})
  BY <1>1 DEF Changes, KeptBeside
<1>5. QED
  BY <1>1, <1>2, <1>3, <1>4, Makes

LEMMA EndBackpropSegmentedKeeps == ASSUME TokensInv, EndBackpropSegmented PROVE TokensInv'
<1>1. /\ Sound(heap) /\ todo # <<>> /\ Me \in Components /\ call = "backprop"
      /\ Kind[Me] \in {"join"}
  BY NowFacts DEF EndBackpropSegmented, Phase
<1>2. /\ "error_output" \in MembersOf(Me) /\ "error_output" \notin Vectors
      /\ "error_output_vector" \in Vectors
  BY <1>1 DEF MembersOf, Members, Vectors
<1>3. PICK t : t = Here("error_output_vector")
  OBVIOUS
<1>4. PICK p \in Roots : /\ p = Mine("error_output") /\ p.member = "error_output"
                         /\ p \in Local(heap, Me) /\ p \notin VectorRoots /\ p \in DOMAIN heap.at
  BY <1>1, <1>2, MineFacts
<1>5. /\ heap' = Assign(heap, p, t) /\ hand' = t /\ Continue(<<>>) /\ UNCHANGED <<script, outcome>>
  BY <1>3, <1>4 DEF EndBackpropSegmented, Passes
<1>6. PICK W : W = {p}
  OBVIOUS
<1>7. KeptBeside(heap, t, W)
  <2>1. PICK q \in VectorRoots : q.member = "error_output_vector" /\ heap.at[q] = t
    BY <1>1, <1>2, <1>3, MyVector
  <2>2. q \in DOMAIN heap.at \ W
    BY <1>1, <1>4, <1>6, <2>1, SoundFacts
  <2>3. QED
    BY <2>1, <2>2 DEF KeptBeside
<1>8. Changes(heap, heap', W) /\ heap'.at[p] = t
  <2>1. ASSUME NEW g, g = Assign(heap, p, t)
        PROVE  Changes(heap, g, W) /\ g.at[p] = t
    <3>1. Sound(heap) /\ p \in DOMAIN heap.at /\ p \notin VectorRoots
      BY <1>1, <1>4
    <3>2. Changes(heap, g, W) /\ DOMAIN g.at = DOMAIN heap.at
      BY <3>1, <1>6, <1>7, <2>1, AssignOne
    <3>3. g.at[p] = t
      BY <3>1, <1>6, <1>7, <2>1, AssignOne
    <3>4. QED
      BY <3>2, <3>3
  <2>2. QED
    BY <1>5, <2>1
<1>9. HandInv'
  <2>1. Lasting(p)'
    BY <1>1, <1>4, <1>5 DEF Lasting, script
  <2>2. QED
    BY <1>5, <1>8, <2>1, NewHand DEF Changes
<1>10. W \subseteq Local(heap, Me) /\ W \cap VectorRoots = {}
  BY <1>4, <1>6
<1>11. QED
  BY <1>1, <1>5, <1>8, <1>9, <1>10, Finishes

\* A join keeps its argument, fills a vector, and goes on with its first child.
LEMMA JoinStarts ==
    ASSUME TokensInv, todo # <<>>, call \in {"forward", "backprop"}, Me \in Components,
           Kind[Me] = "join", Passing,
           NEW e \in {"input", "error_input"}, NEW f \in Vectors,
           NEW op \in Loops, Phase(op) = call,
           NEW g, g = Assign(heap, Mine(e), hand),
           NEW P, P = MyEntries(f), Changes(g, heap', P),
           Continue(Do(op, Me, 1)), hand' = hand, UNCHANGED <<script, outcome>>
    PROVE  TokensInv'
<1>1. Sound(heap) /\ e \in MembersOf(Me)
  BY Places DEF TokensInv, Members
<1>2. PICK V : V = {Mine(e)}
  OBVIOUS
<1>3. /\ Changes(heap, g, V) /\ DOMAIN g.at = DOMAIN heap.at /\ g.at[Mine(e)] = hand
      /\ V \subseteq Local(heap, Me) /\ V \cap VectorRoots = {} /\ Mine(e) \in Roots
  BY <1>1, <1>2, KeepsHand
<1>4. P \subseteq Local(heap, Me) /\ P \cap VectorRoots = {} /\ P \cap Roots = {}
  BY MyVector
<1>5. PICK W : W = V \cup P /\ Changes(heap, heap', W)
  BY <1>3, ChangesTwice
<1>6. W \subseteq Local(heap, Me) /\ W \cap VectorRoots = {}
  BY <1>3, <1>4, <1>5
<1>7. 1 \in DOMAIN Children[Me] /\ Children[Me] # <<>>
  <2>1. Children[Me] \in Seq(Components) /\ Children[Me] # <<>>
    BY TreeAssumption, NetworkAssumption
  <2>2. QED
    BY <2>1
<1>8. PICK steps : steps = Do(op, Me, 1)
  OBVIOUS
<1>9. /\ StepsFit(steps) /\ Continue(steps)
      /\ \A k \in DOMAIN steps : steps[k].op \notin Keeps
  <2>1. op \notin Keeps /\ [op |-> op, c |-> Me, i |-> 1] \in Steps
    BY DEF Loops, Keeps, Steps
  <2>2. QED
    BY <1>7, <1>8, <2>1, OneFits
<1>10. HandInv'
  <2>1. todo' = <<[op |-> op, c |-> Me, i |-> 1]>> \o Tail(todo)
    BY DEF Continue, Do
  <2>2. todo \in Seq(Steps)
    BY DEF TokensInv, TodoInv
  <2>a. PICK s : s = [op |-> op, c |-> Me, i |-> 1]
    OBVIOUS
  <2>3. s.op = op
    BY <2>a
  <2>b. Tail(todo) \in Seq(Steps)
    BY <2>2
  <2>4. PICK t \in Seq(Steps) : t = Tail(todo)
    BY <2>b
  <2>5. todo' = <<s>> \o t
    BY <2>1, <2>a, <2>4
  <2>6. s \in Steps
    BY <2>a DEF Steps, Loops
  <2>7. todo' # <<>> /\ Head(todo') = s
    BY <2>4, <2>5, <2>6
  <2>8. ~Passing'
    BY <2>3, <2>7 DEF Passing
  <2>9. Mine(e) \in DOMAIN heap.at /\ Mine(e) \notin P
    BY <1>1, <1>3, <1>4, SoundFacts
  <2>10. PICK p \in Roots : p = Mine(e) /\ p \in DOMAIN heap'.at /\ heap'.at[p] = hand
    BY <1>3, <2>9 DEF Changes
  <2>11. Holds(heap', hand, p)
    BY <2>10 DEF Holds
  <2>12. QED
    BY <2>8, <2>10, <2>11 DEF HandInv
<1>11. QED
  BY <1>5, <1>6, <1>9, <1>10, Handler

\* The vector is filled with new blocks.
LEMMA JoinMakes ==
    ASSUME TokensInv, call \in {"forward", "backprop"}, Me \in Components,
           Kind[Me] = "join", Passing,
           NEW e \in {"input", "error_input"}, NEW f \in Vectors,
           NEW g, g = Assign(heap, Mine(e), hand),
           NEW P, P = MyEntries(f), Room(P),
           NEW h, h = AssignNew(g, P, "mem", 0, Null)
    PROVE  /\ Changes(g, h, P) /\ Available(g, P) /\ Sound(g)
           /\ P \subseteq DOMAIN g.at /\ P \cap VectorRoots = {}
<1>1. Sound(heap) /\ e \in MembersOf(Me)
  BY Places DEF TokensInv, Members
<1>2. /\ Sound(g) /\ DOMAIN g.at = DOMAIN heap.at /\ Live(g) = Live(heap)
  BY <1>1, KeepsHand DEF Changes
<1>3. /\ P = {Entry(Here(f), i) : i \in DOMAIN Children[Me]}
      /\ P \subseteq DOMAIN heap.at /\ P \cap VectorRoots = {} /\ Here(f) \in Live(heap)
  BY MyVector
<1>4. Here(f) \in Tokens
  BY <1>1, <1>3, SoundFacts DEF IsHeap
<1>5. Available(g, P)
  <2>1. ASSUME NEW p \in P
        PROVE  Free(g, p) # {} /\ Arena(p) \subseteq Tokens
    BY <1>2, <1>3, <1>4, ArenaAssumption DEF Room, Free
  <2>2. ASSUME NEW p \in P, NEW q \in P \ {p}
        PROVE  Arena(p) \cap Arena(q) = {}
    <3>1. PICK i \in DOMAIN Children[Me] : p = Entry(Here(f), i)
      BY <1>3
    <3>2. PICK j \in DOMAIN Children[Me] : q = Entry(Here(f), j)
      BY <1>3, <2>2
    <3>3. j # i
      BY <2>2, <3>1, <3>2
    <3>4. QED
      BY <1>4, <3>1, <3>2, <3>3, ArenaAssumption
  <2>3. QED
    BY <2>1, <2>2 DEF Available
<1>6. KeptBeside(g, Null, P)
  BY DEF KeptBeside
<1>7. QED
  BY <1>2, <1>3, <1>5, <1>6, AssignNewSound

LEMMA BackpropJoinKeeps == ASSUME TokensInv, BackpropJoin PROVE TokensInv'
<1>1. /\ todo # <<>> /\ Me \in Components /\ call = "backprop" /\ Kind[Me] = "join" /\ Passing
  BY NowFacts DEF BackpropJoin, Phase, Loops, Ends
<1>2. PICK g : g = Assign(heap, Mine("error_input"), hand)
  OBVIOUS
<1>3. PICK P : P = MyEntries("error_input_vector")
  OBVIOUS
<1>4. /\ heap' = AssignNew(g, P, "mem", 0, Null) /\ hand' = hand /\ Room(P)
      /\ Continue(Do("backprop_child", Me, 1)) /\ UNCHANGED <<script, outcome>>
  BY <1>2, <1>3 DEF BackpropJoin
<1>5. "error_input_vector" \in Vectors /\ "backprop_child" \in Loops /\ Phase("backprop_child") = call
  BY <1>1 DEF Vectors, Loops, Phase
<1>6. Changes(g, heap', P)
  BY <1>1, <1>2, <1>3, <1>4, <1>5, JoinMakes
<1>7. QED
  BY <1>1, <1>2, <1>3, <1>4, <1>5, <1>6, JoinStarts

\* The entries of a vector are as many as its last number.
LEMMA EntriesCount ==
    ASSUME NEW t, NEW n \in Nat
    PROVE  Cardinality({Entry(t, i) : i \in 1 .. n}) = n
<1> DEFINE f == [i \in 1 .. n |-> Entry(t, i)]
           S == {Entry(t, i) : i \in 1 .. n}
<1>1. f \in Bijection(1 .. n, S)
  <2>1. f \in [1 .. n -> S] /\ \A x \in S : \E i \in 1 .. n : f[i] = x
    OBVIOUS
  <2>2. \A i, j \in 1 .. n : f[i] = f[j] => i = j
    BY EntriesApart
  <2> HIDE DEF f, S
  <2>3. f \in Injection(1 .. n, S)
    BY <2>1, <2>2 DEF Injection, IsInjective
  <2>4. f \in Surjection(1 .. n, S)
    BY <2>1 DEF Surjection
  <2>5. QED
    BY <2>3, <2>4 DEF Bijection
<1> HIDE DEF f, S
<1>2. ExistsBijection(1 .. n, S)
  BY <1>1 DEF ExistsBijection
<1>3. Cardinality(S) = n
  BY <1>2, FS_CountingElements
<1>4. QED
  BY <1>3 DEF S

\* The entries of the input vector are blocks of their own, or those of the
\* argument.
LEMMA ForwardJoinFills ==
    ASSUME TokensInv, ForwardJoin, NEW g, g = Assign(heap, Mine("input"), hand),
           NEW P, P = MyEntries("input_vector")
    PROVE  Changes(g, heap', P)
<1>1. /\ Sound(heap) /\ todo # <<>> /\ Me \in Components /\ call = "forward" /\ Kind[Me] = "join"
      /\ Passing /\ ForwardAccepts(hand)
  BY NowFacts DEF ForwardJoin, Phase, Loops, Ends
<1>2. /\ "input_vector" \in Vectors /\ "forward_child" \in Loops /\ Phase("forward_child") = call
      /\ "input" \in MembersOf(Me)
  BY <1>1 DEF Vectors, Loops, Phase, MembersOf, Members
<1>3. CASE heap.type[hand] # "vector"
  <2>1. heap' = AssignNew(g, P, "mem", 0, Null) /\ Room(P)
    BY <1>3 DEF ForwardJoin
  <2>2. QED
    BY <1>1, <1>2, <2>1, JoinMakes
<1>4. CASE heap.type[hand] = "vector"
  <2>1. PICK v : v = [p \in P |-> heap.at[Entry(hand, p.i)]]
    OBVIOUS
  <2>2. heap' = AssignAll(g, v)
    BY <1>4, <2>1 DEF ForwardJoin
  <2>3. DOMAIN v = P /\ IsMap(v) /\ \A p \in P : v[p] = heap.at[Entry(hand, p.i)]
    BY <2>1 DEF IsMap
  <2>4. /\ Sound(g) /\ DOMAIN g.at = DOMAIN heap.at
        /\ \A p \in DOMAIN heap.at : p.member = "entry" => g.at[p] = heap.at[p]
    <3>1. PICK V : V = {Mine("input")}
      OBVIOUS
    <3>2. Changes(heap, g, V) /\ DOMAIN g.at = DOMAIN heap.at /\ Mine("input").member = "input"
      BY <1>1, <1>2, <3>1, KeepsHand
    <3>3. QED
      BY <3>1, <3>2 DEF Changes
  <2>5. hand # Null /\ Size(hand) = Len(Children[Me])
    BY <1>1, <1>4 DEF ForwardAccepts
  <2>6. Passable(heap, hand) /\ hand \in Live(heap)
    <3>1. KeptBeside(heap, hand, {})
      BY <1>1, HandBeside
    <3>2. Passable(heap, hand)
      BY <1>1, <2>5, <3>1, SoundFacts DEF KeptBeside
    <3>3. QED
      BY <2>5, <3>2 DEF Passable
  <2>7. /\ P = {Entry(Here("input_vector"), i) : i \in DOMAIN Children[Me]}
        /\ P \subseteq DOMAIN heap.at /\ P \cap VectorRoots = {} /\ Mine("input_vector") \in VectorRoots
        /\ Mine("input_vector").member = "input_vector"
        /\ Here("input_vector") = heap.at[Mine("input_vector")]
    BY <1>1, <1>2, MyVector
  <2>8. hand # Here("input_vector")
    BY <2>5, <2>6, <2>7 DEF Passable
  <2>9. \A i \in DOMAIN Children[Me] : Entry(hand, i) \in DOMAIN heap.at
    <3>0. Placed(heap)
      BY <1>1, SoundFacts
    <3>1. PICK n \in Nat : EntriesOf(heap, hand) = {Entry(hand, i) : i \in 1 .. n}
      BY <2>6, <3>0 DEF Placed
    <3>2. Size(hand) = n
      BY <3>1, EntriesCount DEF Size
    <3>a. Children[Me] \in Seq(Components)
      BY <1>1, TreeAssumption
    <3>b. Len(Children[Me]) = n
      BY <2>5, <3>2
    <3>3. DOMAIN Children[Me] = 1 .. n
      BY <3>a, <3>b
    <3>4. EntriesOf(heap, hand) \subseteq DOMAIN heap.at
      BY DEF EntriesOf
    <3>5. QED
      BY <3>1, <3>3, <3>4
  <2>10. ASSUME NEW p \in P
         PROVE  \E q \in DOMAIN g.at \ P :
                   g.at[q] = v[p] /\ (q \notin VectorRoots \/ q.member = "error_output_vector")
    <3>1. PICK i \in DOMAIN Children[Me] : p = Entry(Here("input_vector"), i)
      BY <2>7
    <3>2. PICK q : q = Entry(hand, i) /\ q.member = "entry" /\ q \notin Roots /\ q.of = hand
      BY RootsApart
    <3>3. q \in DOMAIN heap.at /\ v[p] = heap.at[q]
      BY <2>3, <2>9, <3>1, <3>2, RootsApart
    <3>4. q \notin P /\ q \notin VectorRoots
      BY <2>7, <2>8, <3>2, EntriesApart DEF VectorRoots
    <3>5. QED
      BY <2>4, <3>2, <3>3, <3>4
  <2>11. /\ Sound(heap')
         /\ heap'.at = [p \in DOMAIN g.at |-> IF p \in DOMAIN v THEN v[p] ELSE g.at[p]]
    <3>1. DOMAIN v \subseteq DOMAIN g.at /\ DOMAIN v \cap VectorRoots = {}
      BY <2>3, <2>4, <2>7
    <3>2. \A p \in DOMAIN v : v[p] # Null =>
             \E q \in DOMAIN g.at \ DOMAIN v :
                g.at[q] = v[p] /\ (q \notin VectorRoots \/ q.member = "error_output_vector")
      BY <2>3, <2>10
    <3>3. ASSUME NEW h, h = AssignAll(g, v)
          PROVE  /\ Sound(h)
                 /\ h.at = [p \in DOMAIN g.at |-> IF p \in DOMAIN v THEN v[p] ELSE g.at[p]]
      BY <2>3, <2>4, <3>1, <3>2, <3>3, AssignSound
    <3>4. QED
      BY <2>2, <3>3
  <2>12. QED
    BY <2>3, <2>11 DEF Changes
<1>5. QED
  BY <1>3, <1>4
LEMMA ForwardJoinKeeps == ASSUME TokensInv, ForwardJoin PROVE TokensInv'
<1>1. /\ todo # <<>> /\ Me \in Components /\ call = "forward" /\ Kind[Me] = "join" /\ Passing
  BY NowFacts DEF ForwardJoin, Phase, Loops, Ends
<1>2. PICK g : g = Assign(heap, Mine("input"), hand)
  OBVIOUS
<1>3. PICK P : P = MyEntries("input_vector")
  OBVIOUS
<1>4. /\ hand' = hand /\ Continue(Do("forward_child", Me, 1)) /\ UNCHANGED <<script, outcome>>
  BY DEF ForwardJoin
<1>5. "input_vector" \in Vectors /\ "forward_child" \in Loops /\ Phase("forward_child") = call
  BY <1>1 DEF Vectors, Loops, Phase
<1>6. Changes(g, heap', P)
  BY <1>2, <1>3, ForwardJoinFills
<1>7. QED
  BY <1>1, <1>2, <1>3, <1>4, <1>5, <1>6, JoinStarts
-----------------------------------------------------------------------------
(***************************************************************************)
(* The calls that pass no pointer through the components                   *)
(***************************************************************************)
\* Nobody waits in them.
LEMMA QuietTodo ==
    ASSUME TokensInv, todo # <<>>, call \notin {"forward", "backprop"},
           Continue(<<>>), call' = call
    PROVE  TodoInv' /\ Waiting'
<1>1. PICK steps : steps = <<>> /\ StepsFit(steps)
  BY NoneFits
<1>2. TodoInv'
  BY <1>1, TodoStep DEF TokensInv
<1>3. \A k \in DOMAIN todo' : todo'[k].op \notin Keeps
  BY <1>2 DEF TodoInv, Phase, Keeps
<1>4. QED
  BY <1>2, <1>3 DEF Waiting

LEMMA DoGradientKeeps == ASSUME TokensInv, DoGradient PROVE TokensInv'
<1>1. /\ Sound(heap) /\ todo # <<>> /\ Me \in Components /\ call = "gradient"
      /\ Kind[Me] = "loss"
  BY NowFacts DEF DoGradient, Phase
<1>2. "error_output" \in MembersOf(Me) /\ "error_output" \notin Vectors
  BY <1>1 DEF MembersOf, Vectors
<1>3. PICK p \in Roots : /\ p = Mine("error_output") /\ p.member = "error_output"
                         /\ p \notin VectorRoots /\ p \in DOMAIN heap.at /\ Arena(p) \subseteq Tokens
  BY <1>1, <1>2, MineFacts
<1>4. PICK P : P = {p}
  OBVIOUS
<1>5. /\ heap' = AssignNew(heap, P, "mem", 0, Null) /\ hand' = heap'.at[p] /\ Continue(<<>>)
      /\ call' = call /\ last' = last /\ outcome' = outcome /\ Free(heap, p) # {}
  BY <1>3, <1>4 DEF DoGradient, Concat, Passes, MakeBlock, Room, script
<1>6. Changes(heap, heap', P)
  <2>1. P \in SUBSET DOMAIN heap.at /\ P \cap VectorRoots = {} /\ KeptBeside(heap, Null, P)
    BY <1>3, <1>4 DEF KeptBeside
  <2>2. Available(heap, P)
    BY <1>3, <1>4, <1>5 DEF Available
  <2>3. QED
    BY <1>1, <1>5, <2>1, <2>2, AssignNewSound
<1>7. Sound(heap)'
  BY <1>6 DEF Changes
<1>8. TodoInv' /\ Waiting'
  BY <1>1, <1>5, QuietTodo
<1>9. HandInv'
  <2>1. Lasting(p)'
    BY <1>1, <1>3, <1>5 DEF Lasting
  <2>2. QED
    BY <1>5, <1>7, <2>1, NewHand
<1>10. ScriptInv'
  <2>1. \A q \in Handles \cup VectorRoots : heap'.at[q] = heap.at[q]
    <3>1. \A q \in Handles \cup VectorRoots : q \in DOMAIN heap.at
      BY <1>1, Places, SoundFacts
    <3>2. \A q \in Handles \cup VectorRoots : q \notin P
      BY <1>3, <1>4, Places DEF VectorRoots
    <3>3. QED
      BY <1>6, <3>1, <3>2 DEF Changes
  <2>2. Unused' = Unused
    BY <2>1 DEF Unused
  <2>3. Built' <=> Built
    <3>1. \A c \in Components : \A f \in MembersOf(c) \cap Vectors : Member(c, f) \in VectorRoots
      BY Places DEF VectorRoots
    <3>2. QED
      BY <2>1, <3>1 DEF Built
  <2>4. QED
    BY <1>1, <1>5, <2>2, <2>3 DEF ScriptInv, TokensInv
<1>11. QED
  BY <1>7, <1>8, <1>9, <1>10 DEF TokensInv

\* The vectors are there once the networks are built.
LEMMA BuiltMade == Built <=> VectorsMade(heap)
<1>1. \A c \in Components : \A f \in MembersOf(c) \cap Vectors : Member(c, f) \in VectorRoots
  BY Places DEF VectorRoots
<1>2. ASSUME NEW p \in VectorRoots
      PROVE  \E c \in Components : \E f \in MembersOf(c) \cap Vectors : p = Member(c, f)
  <2>1. /\ p.of \in Components /\ Kind[p.of] = "join" /\ p.member \in Vectors
        /\ p = Member(p.of, p.member)
    BY Places
  <2>2. MembersOf(p.of) = Members \cup Vectors
    BY <2>1, Places
  <2>3. QED
    BY <2>1, <2>2
<1>3. QED
  BY <1>1, <1>2 DEF Built, VectorsMade

LEMMA Quietly ==
    ASSUME TokensInv, todo # <<>>, call \in {"build", "update", "reset", "destroy"},
           Continue(<<>>), UNCHANGED <<hand, script, outcome>>, Sound(heap'),
           \A p \in Handles : heap'.at[p] = heap.at[p],
           VectorsMade(heap) /\ call # "destroy" => VectorsMade(heap')
    PROVE  TokensInv'
<1>1. TodoInv' /\ Waiting'
  BY QuietTodo DEF script
<1>2. hand' = Null /\ call' = call /\ last' = last /\ outcome' = outcome
  BY DEF TokensInv, ScriptInv, script
<1>3. Unused' = Unused
  BY DEF Unused
<1>4. Built /\ call # "destroy" => Built'
  <2>1. ASSUME NEW h, h = heap', VectorsMade(h)
        PROVE  Built'
    <3>1. VectorsMade(heap)'
      BY <2>1 DEF VectorsMade
    <3>2. (Built <=> VectorsMade(heap))'
      BY BuiltMade, PTL
    <3>3. QED
      BY <3>1, <3>2
  <2>2. Built /\ call # "destroy" => VectorsMade(heap')
    BY BuiltMade
  <2>3. QED
    BY <2>1, <2>2
<1>5. ScriptInv'
  BY <1>2, <1>3, <1>4 DEF TokensInv, ScriptInv
<1>6. HandInv'
  BY <1>2 DEF HandInv
<1>7. QED
  BY <1>1, <1>5, <1>6 DEF TokensInv

\* The members of the components below Me.
LEMMA BelowMeFacts ==
    ASSUME Me \in Components, NEW M
    PROVE  /\ BelowMe(M) \subseteq Roots /\ BelowMe(M) \cap Handles = {}
           /\ M \cap Vectors = {} => BelowMe(M) \cap VectorRoots = {}
           /\ M \subseteq Vectors => BelowMe(M) \subseteq VectorRoots
<1>1. ASSUME NEW p \in BelowMe(M)
      PROVE  \E c \in Components : \E f \in MembersOf(c) \cap M : p = Member(c, f)
  BY BelowFacts DEF BelowMe
<1>2. ASSUME NEW p \in BelowMe(M)
      PROVE  p \in Roots /\ p.member \in M /\ p.member \in Members \cup Vectors
  <2>1. PICK c \in Components : \E f \in MembersOf(c) \cap M : p = Member(c, f)
    BY <1>1
  <2>2. PICK f \in MembersOf(c) \cap M : p = Member(c, f)
    BY <2>1
  <2>3. f \in Members \cup Vectors
    BY <2>1 DEF MembersOf, Members
  <2>4. QED
    BY <2>2, <2>3, Places
<1>3. "userdata" \notin Members \cup Vectors
  BY DEF Members, Vectors
<1>4. BelowMe(M) \cap Handles = {}
  BY <1>2, <1>3, Places
<1>5. QED
  BY <1>2, <1>4 DEF VectorRoots

LEMMA DoReleaseKeeps ==
    ASSUME TokensInv, NEW op, NEW M, DoRelease(op, M),
           \/ op = "reset" /\ M \cap Vectors = {}
           \/ op = "destroy"
    PROVE  TokensInv'
<1>1. /\ Sound(heap) /\ todo # <<>> /\ Me \in Components /\ call = op
      /\ call \in {"build", "update", "reset", "destroy"}
  BY NowFacts DEF DoRelease, Phase
<1>2. PICK P : P = BelowMe(M)
  OBVIOUS
<1>3. P \subseteq Roots /\ P \cap Handles = {} /\ (op # "destroy" => P \cap VectorRoots = {})
  BY <1>1, <1>2, BelowMeFacts
<1>4. heap' = Release(heap, P) /\ Continue(<<>>) /\ UNCHANGED <<hand, script, outcome>>
  BY <1>2 DEF DoRelease
<1>5. /\ Sound(heap')
      /\ heap'.at = [p \in DOMAIN heap.at |-> IF p \in P THEN Null ELSE heap.at[p]]
  <2>1. P \in SUBSET DOMAIN heap.at
    BY <1>1, <1>3, SoundFacts
  <2>2. QED
    BY <1>1, <1>4, <2>1, ReleaseSound
<1>6. Roots \subseteq DOMAIN heap.at /\ Handles \subseteq Roots /\ VectorRoots \subseteq Roots
  BY <1>1, SoundFacts, Places DEF VectorRoots
<1>7. \A p \in Handles : heap'.at[p] = heap.at[p]
  BY <1>3, <1>5, <1>6
<1>8. VectorsMade(heap) /\ call # "destroy" => VectorsMade(heap')
  BY <1>1, <1>3, <1>5, <1>6 DEF VectorsMade
<1>9. QED
  BY <1>1, <1>4, <1>5, <1>7, <1>8, Quietly

LEMMA DoResetKeeps == ASSUME TokensInv, DoReset PROVE TokensInv'
<1>1. Members \cap Vectors = {}
  BY DEF Members, Vectors
<1>2. QED
  BY <1>1, DoReleaseKeeps DEF DoReset

LEMMA DoDestroyKeeps == ASSUME TokensInv, DoDestroy PROVE TokensInv'
  BY DoReleaseKeeps DEF DoDestroy

\* Each join below Me drops its vectors and takes new ones.
LEMMA DoBuildKeeps == ASSUME TokensInv, DoBuild PROVE TokensInv'
<1>1. /\ Sound(heap) /\ todo # <<>> /\ Me \in Components /\ call = "build"
  BY NowFacts DEF DoBuild, Phase
<1>2. PICK P : P = BelowMe(Vectors)
  OBVIOUS
<1>3. P \subseteq Roots /\ P \cap Handles = {} /\ P \subseteq VectorRoots
  BY <1>1, <1>2, BelowMeFacts
<1>4. PICK n : n = [p \in P |-> Len(Children[p.of])]
  OBVIOUS
<1>5. PICK g : g = Release(heap, P)
  OBVIOUS
<1>6. /\ heap' = New(g, P, "vector", n, Null) /\ Continue(<<>>)
      /\ UNCHANGED <<hand, script, outcome>> /\ Room(P)
  BY <1>2, <1>4, <1>5 DEF DoBuild
<1>7. /\ Sound(g) /\ Live(g) = Live(heap)
      /\ g.at = [p \in DOMAIN heap.at |-> IF p \in P THEN Null ELSE heap.at[p]]
      /\ P \in SUBSET DOMAIN heap.at
  <2>1. P \in SUBSET DOMAIN heap.at
    BY <1>1, <1>3, SoundFacts
  <2>2. QED
    BY <1>1, <1>5, <2>1, ReleaseSound
<1>8. Available(g, P)
  BY <1>3, <1>6, <1>7, ArenaAssumption DEF Available, Room, Free
<1>9. n \in [P -> Nat] /\ \A p \in P \cap VectorRoots : n[p] = Len(Children[p.of])
  <2>1. ASSUME NEW p \in P
        PROVE  Len(Children[p.of]) \in Nat
    <3>1. Children[p.of] \in Seq(Components)
      BY <1>3, Places, TreeAssumption
    <3>2. QED
      BY <3>1
  <2>2. QED
    BY <1>4, <2>1
<1>10. Passable(g, Null)
  BY DEF Passable
<1>11. /\ Sound(heap')
       /\ \A p \in DOMAIN g.at \ P : heap'.at[p] = g.at[p]
       /\ \A p \in P : heap'.at[p] \in Arena(p)
  <2>1. P \in SUBSET DOMAIN g.at /\ \A p \in P : g.at[p] = Null
    BY <1>7
  <2>2. QED
    BY <1>6, <1>7, <1>8, <1>9, <1>10, <2>1, NewSound
<1>12. Roots \subseteq DOMAIN heap.at /\ Handles \subseteq Roots /\ VectorRoots \subseteq Roots
  BY <1>1, SoundFacts, Places DEF VectorRoots
<1>13. \A p \in Roots \ P : heap'.at[p] = heap.at[p]
  BY <1>7, <1>11, <1>12
<1>14. \A p \in P : heap'.at[p] # Null
  BY <1>3, <1>11, TreeAssumption, ArenaAssumption
<1>15. \A p \in Handles : heap'.at[p] = heap.at[p]
  BY <1>3, <1>12, <1>13
<1>16. VectorsMade(heap) => VectorsMade(heap')
  BY <1>12, <1>13, <1>14 DEF VectorsMade
<1>17. QED
  BY <1>1, <1>6, <1>11, <1>15, <1>16, Quietly

LEMMA Stopped == ASSUME TokensInv, NEW how \in {"error", "wild"}, Stops(how) PROVE TokensInv'
<1>1. /\ heap' = heap /\ hand' = hand /\ todo' = todo /\ call' = call /\ last' = last
      /\ outcome' \in {"running", "error", "wild"}
  BY DEF Stops, script
<1>2. TodoInv' /\ Waiting'
  BY <1>1 DEF TokensInv, TodoInv, Waiting, Awaited
<1>3. HandInv'
  BY <1>1 DEF TokensInv, HandInv, Passing, Lasting
<1>4. ScriptInv'
  BY <1>1 DEF TokensInv, ScriptInv, Unused, Built
<1>5. QED
  BY <1>1, <1>2, <1>3, <1>4 DEF TokensInv

LEMMA FailKeeps == ASSUME TokensInv, Fail PROVE TokensInv'
  BY Stopped DEF Fail

LEMMA KeepNullKeeps == ASSUME TokensInv, KeepNull PROVE TokensInv'
  BY Stopped DEF KeepNull

LEMMA StutterKeeps == ASSUME TokensInv, UNCHANGED vars PROVE TokensInv'
<1>1. /\ heap' = heap /\ hand' = hand /\ todo' = todo /\ call' = call /\ last' = last
      /\ outcome' = outcome
  BY DEF vars, script
<1>2. TodoInv' /\ Waiting'
  BY <1>1 DEF TokensInv, TodoInv, Waiting, Awaited
<1>3. HandInv'
  BY <1>1 DEF TokensInv, HandInv, Passing, Lasting
<1>4. ScriptInv'
  BY <1>1 DEF TokensInv, ScriptInv, Unused, Built
<1>5. QED
  BY <1>1, <1>2, <1>3, <1>4 DEF TokensInv

LEMMA DoUpdateKeeps == ASSUME TokensInv, DoUpdate PROVE TokensInv'
<1>1. Sound(heap) /\ todo # <<>> /\ call = "update"
  BY NowFacts DEF DoUpdate, Phase
<1>2. CASE Stops("wild")
  BY <1>2, Stopped
<1>3. CASE Continue(<<>>) /\ UNCHANGED <<heap, hand, script, outcome>>
  BY <1>1, <1>3, Quietly
<1>4. QED
  BY <1>2, <1>3 DEF DoUpdate
-----------------------------------------------------------------------------
(***************************************************************************)
(* The destructors, which run before any other component: the roots and    *)
(* the vectors of the joins stay as they are.                              *)
(***************************************************************************)
LEMMA DeleteKeeps == ASSUME TokensInv, Delete PROVE TokensInv'
<1>1. /\ Sound(heap) /\ heap' = Sweep(heap) /\ hand' = hand /\ todo' = todo /\ call' = call
      /\ last' = last /\ outcome' = outcome
  BY DEF TokensInv, Delete, script
<1>2. /\ Sound(heap') /\ Roots \subseteq DOMAIN heap'.at
      /\ \A p \in Roots : heap'.at[p] = heap.at[p]
      /\ \A p \in DOMAIN heap.at \ Roots :
            p.of \notin heap.dying => p \in DOMAIN heap'.at /\ heap'.at[p] = heap.at[p]
  BY <1>1, SweepSound
<1>3. \A p \in DOMAIN heap.at : heap.at[p] \in (Live(heap) \ heap.dying) \cup {Null}
  BY <1>1, SoundFacts
<1>4. TodoInv'
  BY <1>1 DEF TokensInv, TodoInv
<1>5. Waiting'
  <2>1. ASSUME NEW k \in DOMAIN todo, todo[k].op \in Keeps
        PROVE  heap'.at[Awaited(heap', todo[k])] = Null
    <3>1. /\ todo[k] \in Steps /\ todo[k].c \in Components /\ Phase(todo[k].op) = call
          /\ Kind[todo[k].c] = "join" /\ todo[k].i \in DOMAIN Children[todo[k].c]
      <4>1. todo \in Seq(Steps)
        BY DEF TokensInv, TodoInv
      <4>2. todo[k] \in Steps
        BY <4>1
      <4>3. todo[k].c \in Components
        BY <4>2 DEF Steps
      <4>4. QED
        BY <2>1, <4>2, <4>3 DEF TokensInv, TodoInv
    <3>2. VectorsMade(heap)
      BY <2>1, <3>1, RunsBuilt DEF Phase, Keeps
    <3>3. PICK f \in Vectors : /\ Awaited(heap, todo[k]) = Entry(heap.at[Member(todo[k].c, f)], todo[k].i)
                               /\ Awaited(heap', todo[k]) = Entry(heap'.at[Member(todo[k].c, f)], todo[k].i)
      BY DEF Awaited, Vectors
    <3>4. PICK t : t = heap.at[Member(todo[k].c, f)]
      OBVIOUS
    <3>5. /\ Member(todo[k].c, f) \in VectorRoots /\ t \in Live(heap)
          /\ EntriesOf(heap, t) = {Entry(t, i) : i \in DOMAIN Children[todo[k].c]}
          /\ EntriesOf(heap, t) \subseteq DOMAIN heap.at
      BY <1>1, <3>1, <3>2, <3>4, VectorEntries
    <3>6. Member(todo[k].c, f) \in Roots /\ heap'.at[Member(todo[k].c, f)] = t
      BY <1>2, <3>4, <3>5 DEF VectorRoots
    <3>7. t \notin heap.dying
      <4>1. Member(todo[k].c, f) \in DOMAIN heap.at /\ Null \notin Live(heap)
        BY <1>1, <3>6, SoundFacts
      <4>2. QED
        BY <1>3, <3>4, <3>5, <4>1
    <3>8. PICK p : p = Entry(t, todo[k].i) /\ p \in DOMAIN heap.at \ Roots /\ p.of = t
      BY <3>1, <3>5, RootsApart
    <3>9. heap.at[p] = Null
      BY <2>1, <3>3, <3>4, <3>8 DEF TokensInv, Waiting
    <3>10. heap'.at[p] = Null
      BY <1>2, <3>7, <3>8, <3>9
    <3>11. QED
      BY <3>3, <3>6, <3>8, <3>10
  <2>2. QED
    BY <1>1, <2>1 DEF Waiting
<1>6. HandInv'
  <2>1. ASSUME hand # Null
        PROVE  \E p \in DOMAIN heap'.at : Holds(heap', hand, p) /\ (Passing => Lasting(p))
    <3>1. PICK p \in DOMAIN heap.at : Holds(heap, hand, p) /\ (Passing => Lasting(p))
      BY <2>1 DEF TokensInv, HandInv
    <3>2. VectorRoots \subseteq Roots /\ VectorRoots \subseteq DOMAIN heap.at
      BY <1>1, SoundFacts DEF VectorRoots
    <3>3. p \in DOMAIN heap'.at /\ heap'.at[p] = heap.at[p]
      <4>1. CASE p \in Roots
        BY <1>2, <4>1
      <4>2. CASE p \notin Roots
        <5>1. PICK q \in VectorRoots : heap.at[q] = p.of
          BY <3>1, <4>2 DEF Holds
        <5>2. PICK t \in Live(heap), i \in Nat \ {0} : p = Entry(t, i)
          BY <1>1, <4>2, SoundFacts DEF Placed
        <5>3. p.of = t /\ t # Null
          BY <1>1, <5>2, RootsApart, SoundFacts
        <5>4. t \notin heap.dying
          BY <1>3, <3>2, <5>1, <5>3
        <5>5. QED
          BY <1>2, <4>2, <5>3, <5>4
      <4>3. QED
        BY <4>1, <4>2
    <3>4. Holds(heap', hand, p)
      BY <1>2, <3>1, <3>2, <3>3 DEF Holds
    <3>5. QED
      BY <3>1, <3>3, <3>4
  <2>2. QED
    BY <1>1, <2>1 DEF HandInv, Passing, Lasting
<1>7. ScriptInv'
  <2>1. Unused' = Unused
    BY <1>2, Places DEF Unused
  <2>2. Built' <=> Built
    <3>1. \A c \in Components : \A f \in MembersOf(c) \cap Vectors : Member(c, f) \in Roots
      BY Places
    <3>2. QED
      BY <1>2, <3>1 DEF Built
  <2>3. QED
    BY <1>1, <2>1, <2>2 DEF TokensInv, ScriptInv
<1>8. QED
  BY <1>2, <1>4, <1>5, <1>6, <1>7 DEF TokensInv
-----------------------------------------------------------------------------
(***************************************************************************)
(* What a script does between calls                                        *)
(***************************************************************************)
\* Nothing is left of a call, and nothing is on its way.
LEMMA IdleFacts ==
    ASSUME TokensInv, call = "none"
    PROVE  Sound(heap) /\ todo = <<>> /\ hand = Null
<1>1. Sound(heap) /\ hand = Null
  BY DEF TokensInv, ScriptInv
<1>2. ASSUME todo # <<>>
      PROVE  FALSE
  <2>1. todo \in Seq(Steps)
    BY DEF TokensInv, TodoInv
  <2>2. 1 \in DOMAIN todo /\ todo[1] \in Steps
    BY <1>2, <2>1
  <2>3. Phase(todo[1].op) = "none"
    BY <2>2 DEF TokensInv, TodoInv
  <2>4. todo[1].op \in Loops \cup Keeps \cup Ends \cup
            {"forward", "backprop", "gradient", "update", "reset", "build", "destroy"}
    BY <2>2 DEF Steps
  <2>5. QED
    BY <2>3, <2>4 DEF Phase, Loops, Keeps, Ends
<1>3. QED
  BY <1>1, <1>2

\* A handle is a place of its own.
LEMMA HandleFacts ==
    ASSUME Sound(heap), NEW p \in Handles
    PROVE  /\ p \in Roots /\ p \in DOMAIN heap.at /\ p.member = "userdata" /\ p \notin VectorRoots
           /\ Arena(p) \subseteq Tokens
<1>1. "userdata" \notin Vectors
  BY DEF Vectors
<1>2. QED
  BY <1>1, Places, SoundFacts, ArenaAssumption DEF VectorRoots

LEMMA Returned ==
    ASSUME TokensInv, todo' = <<>>, hand' = Null, call' = "none", last' = last,
           outcome' = outcome, Sound(heap'),
           \A p \in VectorRoots : heap'.at[p] = heap.at[p]
    PROVE  TokensInv'
<1>1. TodoInv' /\ Waiting'
  BY DEF TodoInv, Waiting
<1>2. HandInv'
  BY DEF HandInv
<1>3. Built' <=> Built
  <2>1. \A c \in Components : \A f \in MembersOf(c) \cap Vectors : Member(c, f) \in VectorRoots
    BY Places DEF VectorRoots
  <2>2. QED
    BY <2>1 DEF Built
<1>4. ScriptInv'
  BY <1>3 DEF TokensInv, ScriptInv
<1>5. QED
  BY <1>1, <1>2, <1>4 DEF TokensInv

LEMMA LuaNewKeeps ==
    ASSUME TokensInv, NEW k \in {"mem", "sparse"}, LuaNew(k)
    PROVE  TokensInv'
<1>1. Sound(heap) /\ todo = <<>> /\ hand = Null /\ call = "none"
  BY IdleFacts DEF LuaNew, Ready, Idle
<1>2. PICK p : p = NewHandle
  OBVIOUS
<1>3. p \in Unused
  BY <1>2 DEF LuaNew, Ready, NewHandle
<1>4. /\ p \in DOMAIN heap.at /\ p \notin VectorRoots /\ Arena(p) \subseteq Tokens
  BY <1>1, <1>3, HandleFacts DEF Unused
<1>5. PICK P : P = {p}
  OBVIOUS
<1>6. /\ heap' = AssignNew(heap, P, k, 0, Null) /\ Free(heap, p) # {}
      /\ todo' = todo /\ hand' = hand /\ call' = call /\ last' = last /\ outcome' = outcome
  BY <1>2, <1>5 DEF LuaNew, Room, script
<1>7. Changes(heap, heap', P)
  <2>1. P \in SUBSET DOMAIN heap.at /\ P \cap VectorRoots = {} /\ KeptBeside(heap, Null, P)
    BY <1>4, <1>5 DEF KeptBeside
  <2>2. Available(heap, P)
    BY <1>4, <1>5, <1>6 DEF Available
  <2>3. QED
    BY <1>1, <1>6, <2>1, <2>2, AssignNewSound
<1>8. \A q \in VectorRoots : heap'.at[q] = heap.at[q]
  BY <1>1, <1>4, <1>5, <1>7, SoundFacts DEF Changes
<1>9. QED
  BY <1>1, <1>6, <1>7, <1>8, Returned DEF Changes

LEMMA CollectKeeps ==
    ASSUME TokensInv, NEW p \in Handles, Collect(p)
    PROVE  TokensInv'
<1>1. Sound(heap) /\ todo = <<>> /\ hand = Null /\ call = "none"
  BY IdleFacts DEF Collect, Idle
<1>2. p \in DOMAIN heap.at /\ p \notin VectorRoots
  BY <1>1, HandleFacts
<1>3. PICK P : P = {p}
  OBVIOUS
<1>4. /\ heap' = Release(heap, P)
      /\ todo' = todo /\ hand' = hand /\ call' = call /\ last' = last /\ outcome' = outcome
  BY <1>3 DEF Collect, script
<1>5. Changes(heap, heap', P)
  BY <1>1, <1>2, <1>3, <1>4, ReleaseChanges
<1>6. \A q \in VectorRoots : heap'.at[q] = heap.at[q]
  BY <1>1, <1>2, <1>3, <1>5, SoundFacts DEF Changes
<1>7. QED
  BY <1>1, <1>4, <1>5, <1>6, Returned DEF Changes

\* What a call returns is kept before the component that made it may drop it.
LEMMA LuaReturnKeeps == ASSUME TokensInv, LuaReturn PROVE TokensInv'
<1>1. /\ Sound(heap) /\ todo = <<>> /\ todo' = <<>> /\ hand' = Null /\ call' = "none"
      /\ last' = last /\ outcome' = outcome /\ call # "none"
  BY DEF LuaReturn, TokensInv
<1>2. CASE heap' = heap
  BY <1>1, <1>2, Returned
<1>3. CASE hand # Null /\ heap' = Assign(heap, NewHandle, hand)
  <2>1. PICK p : p = NewHandle
    OBVIOUS
  <2>2. p \in Unused
    BY <1>1, <2>1 DEF NewHandle, TokensInv, ScriptInv
  <2>3. p \in DOMAIN heap.at /\ p \notin VectorRoots /\ heap.at[p] = Null
    BY <1>1, <2>2, HandleFacts DEF Unused
  <2>4. PICK P : P = {p}
    OBVIOUS
  <2>5. KeptBeside(heap, hand, P)
    <3>1. KeptBeside(heap, hand, {})
      <4>1. Passing /\ \A q \in {} : ~Lasting(q)
        BY <1>1 DEF Passing
      <4>2. QED
        BY <4>1, HandBeside
    <3>2. QED
      BY <1>3, <2>3, <2>4, <3>1 DEF KeptBeside
  <2>6. Changes(heap, heap', P)
    <3>1. heap' = Assign(heap, p, hand)
      BY <1>3, <2>1
    <3>2. QED
      BY <1>1, <2>3, <2>4, <2>5, <3>1, AssignOne
  <2>7. \A q \in VectorRoots : heap'.at[q] = heap.at[q]
    BY <1>1, <2>3, <2>4, <2>6, SoundFacts DEF Changes
  <2>8. QED
    BY <1>1, <2>6, <2>7, Returned DEF Changes
<1>4. QED
  BY <1>2, <1>3 DEF LuaReturn

\* A script calls a component with nothing, or with what it has a userdata of.
LEMMA Entered ==
    ASSUME TokensInv,
           NEW op \in {"forward", "backprop", "gradient", "update", "reset", "build", "destroy"},
           NEW c \in Components, NEW t, NEW next, Enter(op, c, t, next),
           t = Null \/ (t \in Own /\ op \in {"forward", "backprop", "gradient"}),
           op \in {"forward", "backprop"} \/ next[1] \in {"forward", "backprop"} => Built,
           op = "destroy" => next[1] \notin {"forward", "backprop"}
    PROVE  TokensInv'
<1>1. Sound(heap)
  BY DEF TokensInv
<1>2. /\ heap' = heap /\ hand' = t /\ call' = op /\ last' = next /\ outcome' = outcome
      /\ todo' = Do(op, c, 0) /\ Unused # {}
  BY DEF Enter, Ready
<1>3. PICK s : s = [op |-> op, c |-> c, i |-> 0]
  OBVIOUS
<1>4. todo' = <<s>> /\ s \in Steps /\ s.op = op
  BY <1>2, <1>3 DEF Do, Steps
<1>5. todo' \in Seq(Steps) /\ DOMAIN todo' = {1} /\ todo'[1] = s
  BY <1>4
<1>6. op \notin Loops \cup Keeps /\ Phase(op) = op
  BY DEF Loops, Keeps, Phase
<1>7. TodoInv'
  BY <1>2, <1>4, <1>5, <1>6 DEF TodoInv
<1>8. Waiting'
  BY <1>4, <1>5, <1>6 DEF Waiting
<1>9. HandInv'
  <2>1. ASSUME hand' # Null
        PROVE  \E p \in DOMAIN heap'.at : Holds(heap', hand', p) /\ Lasting(p)'
    <3>1. PICK p \in Handles : heap.at[p] = t
      BY <1>2, <2>1 DEF Own
    <3>2. p \in Roots /\ p \in DOMAIN heap.at /\ p.member = "userdata"
      BY <1>1, HandleFacts
    <3>3. QED
      BY <1>2, <3>1, <3>2 DEF Holds, Lasting
  <2>2. QED
    BY <2>1 DEF HandInv
<1>10. ScriptInv'
  BY <1>2 DEF TokensInv, ScriptInv, Unused, Built
<1>11. QED
  BY <1>1, <1>2, <1>7, <1>8, <1>9, <1>10 DEF TokensInv

\* A forward or a backprop has been called: the networks are built.
LEMMA RanBuilt ==
    ASSUME TokensInv, last[1] \in {"forward", "backprop"}
    PROVE  Built
  BY DEF TokensInv, ScriptInv

LEMMA LuaForwardKeeps ==
    ASSUME TokensInv, NEW c \in Parts, NEW t \in Own, LuaForward(c, t)
    PROVE  TokensInv'
  BY Entered, TreeAssumption DEF LuaForward

LEMMA LuaBackpropKeeps ==
    ASSUME TokensInv, NEW c \in Parts, NEW t \in Own, LuaBackprop(c, t)
    PROVE  TokensInv'
<1>1. last[1] \in {"forward", "backprop"}
  BY DEF LuaBackprop
<1>2. QED
  BY <1>1, Entered, RanBuilt, TreeAssumption DEF LuaBackprop

LEMMA LuaUpdateKeeps ==
    ASSUME TokensInv, NEW c \in Parts, LuaUpdate(c)
    PROVE  TokensInv'
<1>1. last[1] \in {"forward", "backprop"}
  BY DEF LuaUpdate
<1>2. QED
  BY <1>1, Entered, RanBuilt, TreeAssumption DEF LuaUpdate

LEMMA LuaResetKeeps ==
    ASSUME TokensInv, NEW c \in Parts, LuaReset(c)
    PROVE  TokensInv'
  BY Entered, TreeAssumption DEF LuaReset

LEMMA LuaBuildKeeps ==
    ASSUME TokensInv, NEW c \in Networks, LuaBuild(c)
    PROVE  TokensInv'
  BY Entered, TreeAssumption DEF LuaBuild

LEMMA LuaDestroyKeeps ==
    ASSUME TokensInv, NEW c \in Networks, LuaDestroy(c)
    PROVE  TokensInv'
  BY Entered, TreeAssumption DEF LuaDestroy

LEMMA LuaGradientKeeps ==
    ASSUME TokensInv, NEW t \in Own, LuaGradient(t)
    PROVE  TokensInv'
<1>1. last[1] = "forward" /\ Enter("gradient", Loss, t, last)
  BY DEF LuaGradient
<1>2. Built
  BY <1>1, RanBuilt
<1>3. QED
  BY <1>1, <1>2, Entered, TreeAssumption

LEMMA LuaLossResetKeeps == ASSUME TokensInv, LuaLossReset PROVE TokensInv'
<1>1. last[1] \in {"forward", "backprop"} => Built
  BY RanBuilt
<1>2. QED
  BY <1>1, Entered, TreeAssumption DEF LuaLossReset
-----------------------------------------------------------------------------
(***************************************************************************)
(* The invariant                                                           *)
(***************************************************************************)
LEMMA RootsFinite == IsFiniteSet(Roots)
<1>1. \A a, b, c, d : IsFiniteSet({a, b, c, d})
  <2>1. ASSUME NEW a, NEW b, NEW c, NEW d
        PROVE  IsFiniteSet({a, b, c, d})
    <3>1. IsFiniteSet({a}) /\ IsFiniteSet({b}) /\ IsFiniteSet({c}) /\ IsFiniteSet({d})
      BY FS_Singleton
    <3>2. IsFiniteSet({a} \cup {b})
      BY <3>1, FS_Union
    <3>3. IsFiniteSet({a} \cup {b} \cup {c})
      BY <3>1, <3>2, FS_Union
    <3>4. IsFiniteSet({a} \cup {b} \cup {c} \cup {d})
      BY <3>1, <3>3, FS_Union
    <3>5. {a, b, c, d} = {a} \cup {b} \cup {c} \cup {d}
      OBVIOUS
    <3>6. QED
      BY <3>4, <3>5
  <2>2. QED
    BY <2>1
<1>2. IsFiniteSet(Members \cup Vectors)
  <2>1. IsFiniteSet(Members) /\ IsFiniteSet(Vectors)
    BY <1>1 DEF Members, Vectors
  <2>2. QED
    BY <2>1, FS_Union
<1>3. ASSUME NEW c \in Components
      PROVE  IsFiniteSet(MemberPlaces(c))
  <2>1. MembersOf(c) \subseteq Members \cup Vectors
    BY DEF MembersOf, Members
  <2>2. IsFiniteSet(MembersOf(c))
    BY <1>2, <2>1, FS_Subset
  <2>3. IsFiniteSet({Member(c, f) : f \in MembersOf(c)})
    <3>1. PICK m : m = [f \in MembersOf(c) |-> Member(c, f)]
      OBVIOUS
    <3>2. IsFiniteSet({m[f] : f \in MembersOf(c)})
      BY <2>2, FiniteImage
    <3>3. {m[f] : f \in MembersOf(c)} = {Member(c, f) : f \in MembersOf(c)}
      BY <3>1
    <3>4. QED
      BY <3>2, <3>3
  <2>4. QED
    BY <2>3 DEF MemberPlaces
<1>4. IsFiniteSet({MemberPlaces(c) : c \in Components})
  <2>1. PICK m : m = [c \in Components |-> MemberPlaces(c)]
    OBVIOUS
  <2>2. IsFiniteSet({m[c] : c \in Components})
    BY NetworkAssumption, FiniteImage
  <2>3. {m[c] : c \in Components} = {MemberPlaces(c) : c \in Components}
    BY <2>1
  <2>4. QED
    BY <2>2, <2>3
<1>5. IsFiniteSet(UNION {MemberPlaces(c) : c \in Components})
  BY <1>3, <1>4, FS_UNION
<1>6. IsFiniteSet(Handles)
  <2>1. IsFiniteSet(1 .. MaxHandles)
    BY TreeAssumption, FS_Interval
  <2>2. PICK m : m = [i \in 1 .. MaxHandles |-> Place(Loss, "userdata", i)]
    OBVIOUS
  <2>3. IsFiniteSet({m[i] : i \in 1 .. MaxHandles})
    BY <2>1, FiniteImage
  <2>4. {m[i] : i \in 1 .. MaxHandles} = Handles
    BY <2>2 DEF Handles
  <2>5. QED
    BY <2>3, <2>4
<1>7. QED
  BY <1>5, <1>6, FS_Union DEF Roots

LEMMA InitInv == Init => TokensInv
<1> SUFFICES ASSUME Init PROVE TokensInv
  OBVIOUS
<1>1. PICK at : at = [p \in Roots |-> Null]
  OBVIOUS
<1>2. PICK h : h = heap
  OBVIOUS
<1>3. h = [at |-> at, type |-> <<>>, refs |-> <<>>, dying |-> {}]
  BY <1>1, <1>2 DEF Init
<1>4. h.at = at /\ h.type = <<>> /\ h.refs = <<>> /\ h.dying = {}
  BY <1>3
<1>5. Live(h) = {}
  BY <1>4 DEF Live
<1>6. DOMAIN h.at = Roots /\ \A p \in Roots : h.at[p] = Null
  BY <1>1, <1>4
<1>7. IsHeap(h)
  <2>1. h.at \in [DOMAIN h.at -> Live(h) \cup {Null}]
    BY <1>1, <1>4, <1>5
  <2>2. h.type \in [Live(h) -> {"mem", "sparse", "vector"}] /\ h.refs \in [Live(h) -> Int]
    BY <1>4, <1>5
  <2>3. QED
    BY <1>3, <1>4, <1>5, <1>6, <2>1, <2>2, RootsFinite DEF IsHeap
<1>8. Sound(h)
  BY <1>4, <1>5, <1>6, <1>7 DEF Sound, Counted, Zeroes, Placed, Owns, VectorRoots
<1>9. TodoInv /\ Waiting
  BY DEF Init, TodoInv, Waiting
<1>10. HandInv
  BY DEF Init, HandInv
<1>11. ScriptInv
  BY DEF Init, ScriptInv
<1>12. QED
  BY <1>2, <1>8, <1>9, <1>10, <1>11 DEF TokensInv

LEMMA NextInv == TokensInv /\ [Next]_vars => TokensInv'
<1> SUFFICES ASSUME TokensInv, [Next]_vars PROVE TokensInv'
  OBVIOUS
<1>1. CASE ForwardDotProduct
  BY <1>1, ForwardDotProductKeeps
<1>2. CASE ForwardBlock
  BY <1>2, ForwardBlockKeeps
<1>3. CASE ForwardCopy
  BY <1>3, ForwardCopyKeeps
<1>4. CASE ForwardThrough
  BY <1>4, ForwardThroughKeeps
<1>5. CASE ForwardJoin
  BY <1>5, ForwardJoinKeeps
<1>6. CASE ForwardChild
  BY <1>6, CallChildKeeps DEF ForwardChild
<1>7. CASE KeepOutput
  BY <1>7, KeepResultKeeps DEF KeepOutput
<1>8. CASE EndForwardJoin
  BY <1>8, EndForwardJoinKeeps
<1>9. CASE BackpropBias
  BY <1>9, BackpropBiasKeeps
<1>10. CASE BackpropSparse
  BY <1>10, BackpropSparseKeeps
<1>11. CASE BackpropNull
  BY <1>11, BackpropNullKeeps
<1>12. CASE BackpropBlock
  BY <1>12, BackpropBlockKeeps
<1>13. CASE BackpropThrough
  BY <1>13, BackpropThroughKeeps
<1>14. CASE BackpropJoin
  BY <1>14, BackpropJoinKeeps
<1>15. CASE BackpropChild
  BY <1>15, CallChildKeeps DEF BackpropChild
<1>16. CASE KeepGradient
  BY <1>16, KeepResultKeeps DEF KeepGradient
<1>17. CASE EndBackpropSegmented
  BY <1>17, EndBackpropSegmentedKeeps
<1>18. CASE EndBackpropJoin
  BY <1>18, EndBackpropJoinKeeps
<1>19. CASE KeepNull
  BY <1>19, KeepNullKeeps
<1>20. CASE Fail
  BY <1>20, FailKeeps
<1>21. CASE DoBuild
  BY <1>21, DoBuildKeeps
<1>22. CASE DoUpdate
  BY <1>22, DoUpdateKeeps
<1>23. CASE DoReset
  BY <1>23, DoResetKeeps
<1>24. CASE DoDestroy
  BY <1>24, DoDestroyKeeps
<1>25. CASE DoGradient
  BY <1>25, DoGradientKeeps
<1>26. CASE Delete
  BY <1>26, DeleteKeeps
<1>27. CASE Script
  <2>1. CASE \E k \in {"mem", "sparse"} : LuaNew(k)
    BY <2>1, LuaNewKeeps
  <2>2. CASE \E t \in Own : LuaGradient(t)
    BY <2>2, LuaGradientKeeps
  <2>3. CASE \E p \in Handles : Collect(p)
    BY <2>3, CollectKeeps
  <2>4. CASE \E c \in Parts : \/ \E t \in Own : LuaForward(c, t) \/ LuaBackprop(c, t)
                              \/ LuaUpdate(c) \/ LuaReset(c)
    BY <2>4, LuaForwardKeeps, LuaBackpropKeeps, LuaUpdateKeeps, LuaResetKeeps
  <2>5. CASE \E c \in Networks : LuaBuild(c) \/ LuaDestroy(c)
    BY <2>5, LuaBuildKeeps, LuaDestroyKeeps
  <2>6. CASE LuaLossReset
    BY <2>6, LuaLossResetKeeps
  <2>7. CASE LuaReturn
    BY <2>7, LuaReturnKeeps
  <2>8. QED
    BY <1>27, <2>1, <2>2, <2>3, <2>4, <2>5, <2>6, <2>7 DEF Script
<1>28. CASE Exited
  BY <1>28, StutterKeeps DEF Exited
<1>29. CASE UNCHANGED vars
  BY <1>29, StutterKeeps
<1>30. QED
  BY <1>1, <1>2, <1>3, <1>4, <1>5, <1>6, <1>7, <1>8, <1>9, <1>10, <1>11, <1>12, <1>13,
     <1>14, <1>15, <1>16, <1>17, <1>18, <1>19, <1>20, <1>21, <1>22, <1>23, <1>24, <1>25,
     <1>26, <1>27, <1>28, <1>29 DEF Next, Component
-----------------------------------------------------------------------------
(***************************************************************************)
(* Whatever the networks and the script: the counts are exact, a join that *)
(* waits for a child waits with an empty entry, and what is on its way     *)
(* from one component to another is kept by somebody who will not drop it  *)
(* before it has arrived.                                                  *)
(***************************************************************************)
THEOREM Invariance == Spec => []TokensInv
<1>1. QED
  BY InitInv, NextInv, PTL DEF Spec

LEMMA PassedLives ==
    ASSUME TokensInv
    PROVE  hand \in (Live(heap) \ heap.dying) \cup {Null}
<1>1. ASSUME hand # Null
      PROVE  hand \in Live(heap) \ heap.dying
  <2>1. PICK p \in DOMAIN heap.at : heap.at[p] = hand
    BY <1>1 DEF TokensInv, HandInv, Holds
  <2>2. QED
    BY <1>1, <2>1, SoundFacts DEF TokensInv
<1>2. QED
  BY <1>1

LEMMA KeptLives == TokensInv => Kept \subseteq Live(heap) \ heap.dying
  BY SoundFacts DEF TokensInv, Kept

(***************************************************************************)
(* Referenced::refs of every token that exists is the number of members,   *)
(* entries and userdata that hold it, after every step of every call.      *)
(***************************************************************************)
THEOREM CountsAreExact == Spec => []CountsExact
<1>1. TokensInv => CountsExact
  <2> SUFFICES ASSUME TokensInv PROVE CountsExact
    OBVIOUS
  <2>1. IsHeap(heap) /\ Counted(heap) /\ heap.dying = Zeroes(heap)
    BY SoundFacts DEF TokensInv
  <2>2. Live(heap) \subseteq Tokens /\ heap.refs \in [Live(heap) -> Int]
        /\ heap.type \in [Live(heap) -> {"mem", "sparse", "vector"}]
    BY <2>1 DEF IsHeap
  <2>3. heap.dying \subseteq Live(heap)
    BY <2>1 DEF Zeroes
  <2>4. TypeOK
    BY <2>2, <2>3, KeptLives, PassedLives DEF TypeOK, TokensInv, ScriptInv
  <2>5. QED
    BY <2>1, <2>4 DEF CountsExact, Counted, Held
<1>2. QED
  BY <1>1, Invariance, PTL

(***************************************************************************)
(* No member, entry or userdata keeps a token that is deleted or about to  *)
(* be, and neither is one passed from a component to the next.             *)
(***************************************************************************)
THEOREM NothingDangles == Spec => []NoDangling
<1>1. TokensInv => NoDangling
  BY KeptLives, PassedLives DEF NoDangling
<1>2. QED
  BY <1>1, Invariance, PTL

(***************************************************************************)
(* Between calls every token that exists is held by somebody.              *)
(***************************************************************************)
THEOREM NothingLeaks == Spec => []NoLeak
<1>1. TokensInv => NoLeak
  <2> SUFFICES ASSUME TokensInv, Idle PROVE Live(heap) \subseteq Kept
    BY DEF NoLeak
  <2>1. heap.dying = {} /\ Sound(heap)
    BY DEF TokensInv, Idle
  <2>2. \A t \in Live(heap) : \E p \in DOMAIN heap.at : heap.at[p] = t
    BY <2>1, SoundFacts
  <2>3. Null \notin Live(heap)
    BY <2>1, SoundFacts
  <2>4. QED
    BY <2>2, <2>3 DEF Kept
<1>2. QED
  BY <1>1, Invariance, PTL
=============================================================================
