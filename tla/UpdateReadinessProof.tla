------------------------ MODULE UpdateReadinessProof ------------------------
(***************************************************************************)
(* Proof that doUpdate finds in every component the input and the error of *)
(* the last backprop.                                                      *)
(*                                                                         *)
(* A backprop leaves components without an error when it is stopped by a   *)
(* null gradient, which only a dot product with a sparse input returns.    *)
(* What comes before such a dot product in its branch has passed the       *)
(* sparse token on, and so it has no weights: that is followed here along  *)
(* the components, whatever the script does.                               *)
(***************************************************************************)
EXTENDS TokenReferencesProof

\* A forward gives the components below n, in a fixed order, what the one
\* before returns.  In(x) is what x is given and Out(x) what it returns.
Lines == {"stack", "hyperplane"}
In(x) == <<"in", x>>
Out(x) == <<"out", x>>
Doors(n) == {"in", "out"} \X Below[n]

\* When the tokens at X cannot be taken for sparse ones, nor can the one at b:
\* the classes that make a block, and those that pass it on.
DenseAt(n, X, b) ==
    IF b[1] = "out"
      THEN \/ Kind[b[2]] \in {"dot_product", "bias", "activation", "join"}
           \/ Kind[b[2]] \in {"copy", "base"} /\ In(b[2]) \in X
           \/ /\ Kind[b[2]] \in Lines
              /\ IF Children[b[2]] = <<>> THEN In(b[2]) \in X
                 ELSE Out(Children[b[2]][Len(Children[b[2]])]) \in X
      ELSE \E s \in Below[n] : \E i \in DOMAIN Children[s] :
              /\ Kind[s] \in Lines /\ Children[s][i] = b[2]
              /\ IF i = 1 THEN In(s) \in X ELSE Out(Children[s][i - 1]) \in X

Dense(n) == CHOOSE X \in SUBSET Doors(n) : X = {b \in Doors(n) : DenseAt(n, X, b)}

GetsDense(n, x) == In(x) \in Dense(n)
GivesDense(n, x) == Out(x) \in Dense(n)
-----------------------------------------------------------------------------
LEMMA FixedPoint ==
    ASSUME NEW T, NEW F \in [SUBSET T -> SUBSET T],
           \A X, Y \in SUBSET T : X \subseteq Y => F[X] \subseteq F[Y]
    PROVE  \E X \in SUBSET T : F[X] = X
<1> DEFINE L == {b \in T : \A X \in SUBSET T : F[X] \subseteq X => b \in X}
<1>1. L \in SUBSET T
  OBVIOUS
<1>2. F[L] \subseteq L
  <2>1. ASSUME NEW X \in SUBSET T, F[X] \subseteq X
        PROVE  F[L] \subseteq X
    <3>1. L \subseteq X
      BY <2>1
    <3> HIDE DEF L
    <3>2. F[L] \subseteq F[X]
      BY <1>1, <3>1
    <3>3. QED
      BY <2>1, <3>2
  <2>2. F[L] \subseteq T
    BY <1>1
  <2>3. QED
    BY <2>1, <2>2
<1>3. L \subseteq F[L]
  <2>1. F[L] \in SUBSET T
    BY <1>1
  <2>2. F[F[L]] \subseteq F[L]
    <3> HIDE DEF L
    <3>1. QED
      BY <1>1, <1>2, <2>1
  <2>3. QED
    BY <2>1, <2>2
<1>4. QED
  BY <1>1, <1>2, <1>3

LEMMA DenseFixed ==
    ASSUME NEW n \in Components, NEW X, X = Dense(n)
    PROVE  /\ X \subseteq Doors(n)
           /\ \A b \in Doors(n) : b \in X <=> DenseAt(n, X, b)
<1> DEFINE T == Doors(n)
           F == [Y \in SUBSET T |-> {b \in T : DenseAt(n, Y, b)}]
<1>1. F \in [SUBSET T -> SUBSET T]
  OBVIOUS
<1>2. ASSUME NEW Y \in SUBSET T, NEW Z \in SUBSET T, Y \subseteq Z
      PROVE  F[Y] \subseteq F[Z]
  <2>1. \A b \in T : DenseAt(n, Y, b) => DenseAt(n, Z, b)
    BY <1>2 DEF DenseAt
  <2>2. QED
    BY <2>1
<1>3. \E Y \in SUBSET T : F[Y] = Y
  <2> HIDE DEF F, T
  <2>1. QED
    BY <1>1, <1>2, FixedPoint
<1>4. \E Y \in SUBSET Doors(n) : Y = {b \in Doors(n) : DenseAt(n, Y, b)}
  <2>1. PICK Y \in SUBSET T : F[Y] = Y
    BY <1>3
  <2>2. QED
    BY <2>1
<1>5. X \in SUBSET Doors(n) /\ X = {b \in Doors(n) : DenseAt(n, X, b)}
  BY <1>4 DEF Dense
<1>6. QED
  BY <1>5

\* The children of a component, and what is below them.
LEMMA BelowMore ==
    ASSUME NEW n \in Components, NEW c \in Below[n]
    PROVE  /\ c \in Components /\ Below[c] \subseteq Below[n] /\ c \in Below[c]
           /\ Children[c] \in Seq(Components)
           /\ \A i \in DOMAIN Children[c] :
                 Children[c][i] \in Below[n] /\ Below[Children[c][i]] \subseteq Below[n]
           /\ \A d \in Below[c] :
                 d = c \/ \E i \in DOMAIN Children[c] : d \in Below[Children[c][i]]
<1>1. c \in Components
  BY BelowFacts
<1>2. Children[c] \in Seq(Components) /\ c \in Below[c]
  BY <1>1, TreeAssumption, BelowFacts
<1>3. Below[c] \subseteq Below[n]
  BY <1>1 DEF Below
<1>4. ASSUME NEW i \in DOMAIN Children[c]
      PROVE  Children[c][i] \in Below[n] /\ Below[Children[c][i]] \subseteq Below[n]
  <2>1. Children[c][i] \in Components /\ Below[Children[c][i]] \subseteq Below[c]
    BY <1>1, BelowFacts
  <2>2. Children[c][i] \in Below[Children[c][i]]
    BY <2>1, BelowFacts
  <2>3. QED
    BY <1>3, <2>1, <2>2
<1>5. ASSUME NEW d \in Below[c]
      PROVE  d = c \/ \E i \in DOMAIN Children[c] : d \in Below[Children[c][i]]
  <2> DEFINE S == {c} \cup {e \in Components : \E i \in DOMAIN Children[c] : e \in Below[Children[c][i]]}
  <2>1. S \in SUBSET Components
    BY <1>1
  <2>2. ASSUME NEW e \in S, NEW j \in DOMAIN Children[e]
        PROVE  Children[e][j] \in S
    <3>1. CASE e = c
      <4>1. Children[c][j] \in Components /\ Children[c][j] \in Below[Children[c][j]]
        BY <1>1, <3>1, BelowFacts
      <4>2. QED
        BY <3>1, <4>1
    <3>2. CASE e # c
      <4>1. PICK i \in DOMAIN Children[c] : e \in Below[Children[c][i]]
        BY <3>2
      <4>2. Children[c][i] \in Components
        BY <1>1, BelowFacts
      <4>3. e \in Components
        BY <4>1, <4>2, BelowFacts
      <4>4. Children[e][j] \in Components /\ Children[e][j] \in Below[e]
        BY <4>3, BelowFacts
      <4>5. Below[e] \subseteq Below[Children[c][i]]
        BY <4>1, <4>2, <4>3 DEF Below
      <4>6. QED
        BY <4>1, <4>4, <4>5
    <3>3. QED
      BY <3>1, <3>2
  <2>3. S \in Families
    <3> HIDE DEF S
    <3>1. QED
      BY <2>1, <2>2 DEF Families
  <2>4. d \in S
    <3>1. c \in S
      OBVIOUS
    <3> HIDE DEF S
    <3>2. QED
      BY <1>1, <2>3, <3>1 DEF Below
  <2>5. QED
    BY <2>4
<1>6. QED
  BY <1>1, <1>2, <1>3, <1>4, <1>5

\* What a child of a component is given.
LEMMA ChildGets ==
    ASSUME NEW n \in Components, NEW s \in Below[n], NEW i \in DOMAIN Children[s],
           NEW x, x = Children[s][i]
    PROVE  GetsDense(n, x) <=>
              /\ Kind[s] \in Lines
              /\ i = 1 => GetsDense(n, s)
              /\ i # 1 => GivesDense(n, Children[s][i - 1])
<1>1. PICK X : X = Dense(n)
  OBVIOUS
<1>2. x \in Below[n] /\ s \in Components
  BY BelowMore
<1>3. In(x) \in Doors(n)
  BY <1>2 DEF Doors, In
<1>4. In(x) \in X <=> DenseAt(n, X, In(x))
  BY <1>1, <1>3, DenseFixed
<1>5. DenseAt(n, X, In(x)) <=>
        \E r \in Below[n] : \E j \in DOMAIN Children[r] :
           /\ Kind[r] \in Lines /\ Children[r][j] = x
           /\ IF j = 1 THEN In(r) \in X ELSE Out(Children[r][j - 1]) \in X
  BY DEF DenseAt, In
<1>6. \A r \in Below[n] : \A j \in DOMAIN Children[r] : Children[r][j] = x => r = s /\ j = i
  BY NamesAssumption
<1>7. In(x) \in X <=>
        Kind[s] \in Lines /\ IF i = 1 THEN In(s) \in X ELSE Out(Children[s][i - 1]) \in X
  BY <1>4, <1>5, <1>6
<1>8. QED
  BY <1>1, <1>7 DEF GetsDense, GivesDense

\* What a component returns.
LEMMA Gives ==
    ASSUME NEW n \in Components, NEW x \in Below[n]
    PROVE  /\ Kind[x] \in {"dot_product", "bias", "activation", "join"} => GivesDense(n, x)
           /\ Kind[x] \in {"copy", "base"} => (GivesDense(n, x) <=> GetsDense(n, x))
           /\ Kind[x] \in Lines /\ Children[x] = <<>> => (GivesDense(n, x) <=> GetsDense(n, x))
           /\ Kind[x] \in Lines /\ Children[x] # <<>> =>
                 (GivesDense(n, x) <=> GivesDense(n, Children[x][Len(Children[x])]))
<1>1. PICK X : X = Dense(n)
  OBVIOUS
<1>2. Out(x) \in Doors(n) /\ Out(x)[1] = "out" /\ Out(x)[2] = x
  BY DEF Doors, Out
<1>3. Out(x) \in X <=> DenseAt(n, X, Out(x))
  BY <1>1, <1>2, DenseFixed
<1>4. DenseAt(n, X, Out(x)) <=>
           \/ Kind[x] \in {"dot_product", "bias", "activation", "join"}
           \/ Kind[x] \in {"copy", "base"} /\ In(x) \in X
           \/ /\ Kind[x] \in Lines
              /\ IF Children[x] = <<>> THEN In(x) \in X
                 ELSE Out(Children[x][Len(Children[x])]) \in X
  BY <1>2 DEF DenseAt
<1>5. QED
  BY <1>1, <1>3, <1>4 DEF GetsDense, GivesDense, Lines

\* Nobody says what the first component is given.
LEMMA FirstGets == ASSUME NEW n \in Components PROVE ~GetsDense(n, n)
<1>1. PICK X : X = Dense(n)
  OBVIOUS
<1>2. In(n) \in Doors(n) /\ n \in Below[n]
  BY BelowFacts DEF Doors, In
<1>3. In(n) \in X <=> DenseAt(n, X, In(n))
  BY <1>1, <1>2, DenseFixed
<1>4. ASSUME NEW s \in Below[n], NEW i \in DOMAIN Children[s], Children[s][i] = n
      PROVE  FALSE
  <2>1. s \in Components /\ s \notin Below[Children[s][i]]
    BY BelowMore, NetworkAssumption
  <2>2. QED
    BY <1>4, <2>1
<1>5. QED
  BY <1>1, <1>3, <1>4 DEF DenseAt, In, GetsDense
-----------------------------------------------------------------------------
(***************************************************************************)
(* The invariant.  The components that a call still has to visit are Left; *)
(* n is the one that the script called.                                    *)
(***************************************************************************)
IsDense(h, t) ==
    /\ t \in Live(h)
    /\ \/ h.type[t] = "mem"
       \/ /\ h.type[t] = "vector"
          /\ \E p \in EntriesOf(h, t) : h.at[p] \in Live(h) /\ h.type[h.at[p]] # "sparse"

Rest(s) ==
    CASE s.op \in {"forward", "backprop"} -> Below[s.c]
      [] s.op \in Loops ->
            UNION {Below[Children[s.c][i]] : i \in {j \in DOMAIN Children[s.c] : s.i <= j}}
      [] s.op \in Keeps ->
            UNION {Below[Children[s.c][i]] : i \in {j \in DOMAIN Children[s.c] : s.i < j}}
      [] OTHER -> {}

Left == UNION {Rest(todo[k]) : k \in DOMAIN todo}

\* What the steps a and b, one after the other, pass to each other.
Meets(n, a, b) ==
    a.op = b.op =>
        /\ a.op = "forward" /\ GetsDense(n, b.c) => GivesDense(n, a.c)
        /\ a.op = "backprop" /\ GivesDense(n, b.c) => GetsDense(n, a.c)

Inside(n, steps) == \A k \in DOMAIN steps : steps[k].c \in Below[n]

Meeting(n, steps) ==
    \A j, k \in DOMAIN steps : k = j + 1 => Meets(n, steps[j], steps[k])

\* What s may take for granted when t is passed to it.
Arrives(n, s, h, t) ==
    /\ s.op = "forward" /\ GetsDense(n, s.c) => IsDense(h, t)
    /\ s.op = "backprop" /\ GivesDense(n, s.c) => t # Null

\* What a forward leaves, and what a backprop leaves.
Fed(n, c, h, wrapped) ==
    Kind[c] = "dot_product" =>
        /\ h.at[Member(c, "input")] # Null
        /\ GetsDense(n, c) => ~wrapped[c]

Corrected(c, h) ==
    Kind[c] \in {"dot_product", "bias"} => h.at[Member(c, "error_input")] # Null

\* The loop of a backprop has an error for each child of the join c.
HasErrors(c, h) ==
    Kind[c] = "join" => \A i \in DOMAIN Children[c] :
        h.at[Entry(h.at[Member(c, "error_input_vector")], i)] # Null

Correcting == {"backprop_child", "backpropped"}

Running == call \in {"forward", "backprop"}
Ran == last[1] \in {"forward", "backprop"}

CallInv ==
    /\ DOMAIN sparse = Components
    /\ Running => last[1] = call
    /\ call = "build" => ~Ran
    /\ Ran => last[2] \in Components
    /\ Ran /\ call = "reset" => \A k \in DOMAIN todo : todo[k].c = Loss
    /\ outcome = "running" /\ Running =>
          /\ Inside(last[2], todo) /\ Meeting(last[2], todo)
          /\ todo # <<>> => Arrives(last[2], Head(todo), heap, hand)
          /\ \A k \in DOMAIN todo : todo[k].op \in Correcting => HasErrors(todo[k].c, heap)

DoneInv ==
    outcome = "running" /\ Ran =>
        \A c \in Below[last[2]] :
            /\ Fed(last[2], c, heap, sparse) \/ (call = "forward" /\ c \in Left)
            /\ last[1] = "backprop" =>
                  Corrected(c, heap) \/ (call = "backprop" /\ c \in Left)

ReadyInv == TokensInv /\ CallInv /\ DoneInv
-----------------------------------------------------------------------------
(***************************************************************************)
(* A step of a forward or a backprop                                       *)
(***************************************************************************)
\* What new consists of when the first step of old makes way for steps.
Spliced(old, steps, new) ==
    /\ \A k \in DOMAIN steps : k \in DOMAIN new /\ new[k] = steps[k]
    /\ \A k \in DOMAIN old : k # 1 => \E j \in DOMAIN new : new[j] = old[k]
    /\ \A k \in DOMAIN new :
          k \in DOMAIN steps \/ \E j \in DOMAIN old : j # 1 /\ new[k] = old[j]
    /\ \A j, k \in DOMAIN new : k = j + 1 =>
          \/ j \in DOMAIN steps /\ k \in DOMAIN steps
          \/ /\ steps # <<>> /\ j = Len(steps) /\ j \in DOMAIN steps
             /\ 2 \in DOMAIN old /\ new[k] = old[2]
          \/ \E a, b \in DOMAIN old : b = a + 1 /\ new[j] = old[a] /\ new[k] = old[b]
    /\ steps # <<>> => new # <<>> /\ Head(new) = steps[1] /\ 1 \in DOMAIN steps
    /\ steps = <<>> /\ new # <<>> => 2 \in DOMAIN old /\ Head(new) = old[2]

LEMMA TodoParts ==
    ASSUME NEW old \in Seq(Steps), old # <<>>, NEW steps \in Seq(Steps),
           NEW new, new = steps \o Tail(old)
    PROVE  Spliced(old, steps, new)
<1>0. Tail(old) \in Seq(Steps)
  OBVIOUS
<1>1. PICK t \in Seq(Steps) : t = Tail(old)
  BY <1>0
<1>2. /\ Len(old) \in Nat \ {0} /\ Len(t) = Len(old) - 1 /\ DOMAIN old = 1 .. Len(old)
      /\ \A k \in 1 .. Len(t) : t[k] = old[k + 1]
  BY <1>1
<1>3. /\ Len(new) = Len(steps) + Len(t) /\ DOMAIN new = 1 .. Len(steps) + Len(t)
      /\ Len(steps) \in Nat /\ DOMAIN steps = 1 .. Len(steps) /\ DOMAIN t = 1 .. Len(t)
      /\ Len(t) \in Nat /\ new \in Seq(Steps)
  BY <1>1
<1>4. /\ \A k \in 1 .. Len(steps) : new[k] = steps[k]
      /\ \A k \in 1 .. Len(t) : new[Len(steps) + k] = t[k]
  BY <1>1, <1>3
<1>5. \A k \in DOMAIN steps : k \in DOMAIN new /\ new[k] = steps[k]
  BY <1>3, <1>4
<1>6. ASSUME NEW k \in DOMAIN old, k # 1
      PROVE  \E j \in DOMAIN new : new[j] = old[k]
  <2>1. k - 1 \in 1 .. Len(t) /\ Len(steps) + (k - 1) \in DOMAIN new
    BY <1>2, <1>3, <1>6
  <2>2. new[Len(steps) + (k - 1)] = t[k - 1] /\ t[k - 1] = old[(k - 1) + 1]
    BY <1>2, <1>4, <2>1
  <2>3. QED
    BY <1>2, <2>1, <2>2
<1>7. ASSUME NEW k \in DOMAIN new, k \notin DOMAIN steps
      PROVE  /\ k - Len(steps) + 1 \in DOMAIN old /\ k - Len(steps) + 1 # 1
             /\ new[k] = old[k - Len(steps) + 1]
  <2>1. k - Len(steps) \in 1 .. Len(t)
    BY <1>3, <1>7
  <2>2. new[Len(steps) + (k - Len(steps))] = t[k - Len(steps)]
        /\ t[k - Len(steps)] = old[k - Len(steps) + 1]
    BY <1>2, <1>4, <2>1
  <2>3. QED
    BY <1>2, <1>3, <2>1, <2>2
<1>8. ASSUME NEW j \in DOMAIN new, NEW k \in DOMAIN new, k = j + 1
      PROVE  \/ j \in DOMAIN steps /\ k \in DOMAIN steps
             \/ /\ steps # <<>> /\ j = Len(steps) /\ j \in DOMAIN steps
                /\ 2 \in DOMAIN old /\ new[k] = old[2]
             \/ \E a, b \in DOMAIN old : b = a + 1 /\ new[j] = old[a] /\ new[k] = old[b]
  <2>1. CASE k \in DOMAIN steps
    BY <1>3, <1>8, <2>1
  <2>2. CASE k \notin DOMAIN steps /\ j \in DOMAIN steps
    <3>1. j = Len(steps) /\ k - Len(steps) + 1 = 2
      BY <1>3, <1>8, <2>2
    <3>2. QED
      BY <1>3, <1>7, <2>2, <3>1
  <2>3. CASE k \notin DOMAIN steps /\ j \notin DOMAIN steps
    <3>1. k - Len(steps) + 1 = (j - Len(steps) + 1) + 1
      BY <1>3, <1>8
    <3>2. QED
      BY <1>7, <2>3, <3>1
  <2>4. QED
    BY <2>1, <2>2, <2>3
<1>9. steps # <<>> => new # <<>> /\ Head(new) = steps[1] /\ 1 \in DOMAIN steps
  <2>1. ASSUME steps # <<>>
        PROVE  new # <<>> /\ Head(new) = steps[1] /\ 1 \in DOMAIN steps
    <3>1. 1 \in DOMAIN steps
      BY <1>3, <2>1
    <3>2. 1 \in DOMAIN new /\ new[1] = steps[1]
      BY <1>5, <3>1
    <3>3. QED
      BY <1>3, <3>1, <3>2
  <2>2. QED
    BY <2>1
<1>10. steps = <<>> /\ new # <<>> => 2 \in DOMAIN old /\ Head(new) = old[2]
  <2>1. ASSUME steps = <<>>, new # <<>>
        PROVE  2 \in DOMAIN old /\ Head(new) = old[2]
    <3>1. Len(steps) = 0 /\ 1 \in DOMAIN new /\ 1 \notin DOMAIN steps /\ Head(new) = new[1]
      BY <1>3, <2>1
    <3>2. QED
      BY <1>7, <3>1
  <2>2. QED
    BY <2>1
<1>11. \A k \in DOMAIN new :
         k \in DOMAIN steps \/ \E j \in DOMAIN old : j # 1 /\ new[k] = old[j]
  BY <1>7
<1>12. QED
  BY <1>5, <1>6, <1>8, <1>9, <1>10, <1>11 DEF Spliced

\* A component does its part and leaves the steps to those below it.
Routed(n, old, steps, new) ==
    /\ Inside(n, new) /\ Meeting(n, new)
    /\ steps # <<>> => new # <<>> /\ Head(new) = steps[1]
    /\ steps = <<>> /\ new # <<>> => Head(new) \in Steps /\ Meets(n, Head(old), Head(new))
    /\ \A k \in DOMAIN steps : k \in DOMAIN new /\ new[k] = steps[k]
    /\ \A k \in DOMAIN old : k # 1 => \E j \in DOMAIN new : new[j] = old[k]
    /\ \A k \in DOMAIN new : k \in DOMAIN steps \/ \E j \in DOMAIN old : new[k] = old[j]
    /\ Head(old).c \in Below[n] /\ Below[Head(old).c] \subseteq Below[n]

LEMMA RouteStep ==
    ASSUME NEW n \in Components, NEW old \in Seq(Steps), old # <<>>,
           Inside(n, old), Meeting(n, old), NEW me, me = Head(old).c,
           NEW steps \in Seq(Steps), \A k \in DOMAIN steps : steps[k].c \in Below[me],
           Meeting(n, steps),
           steps # <<>> =>
              \A s \in Steps : Meets(n, Head(old), s) => Meets(n, steps[Len(steps)], s),
           NEW new, new = steps \o Tail(old)
    PROVE  Routed(n, old, steps, new)
<1>1. Spliced(old, steps, new)
  BY TodoParts
<1>2. Head(old) = old[1] /\ 1 \in DOMAIN old /\ \A k \in DOMAIN old : old[k] \in Steps
  OBVIOUS
<1>3. me \in Below[n] /\ Below[me] \subseteq Below[n]
  <2>1. me \in Below[n]
    BY <1>2 DEF Inside
  <2>2. QED
    BY <2>1, BelowMore
<1>4. Inside(n, new)
  <2>1. ASSUME NEW k \in DOMAIN new
        PROVE  new[k].c \in Below[n]
    <3>1. CASE k \in DOMAIN steps
      BY <1>1, <1>3, <3>1 DEF Spliced
    <3>2. CASE \E j \in DOMAIN old : new[k] = old[j]
      BY <3>2 DEF Inside
    <3>3. QED
      BY <1>1, <3>1, <3>2 DEF Spliced
  <2>2. QED
    BY <2>1 DEF Inside
<1>5. ASSUME 2 \in DOMAIN old
      PROVE  Meets(n, Head(old), old[2])
  <2>1. 2 = 1 + 1
    OBVIOUS
  <2>2. QED
    BY <1>2, <1>5, <2>1 DEF Meeting
<1>6. ASSUME NEW j \in DOMAIN new, NEW k \in DOMAIN new, k = j + 1
      PROVE  Meets(n, new[j], new[k])
  <2>1. CASE j \in DOMAIN steps /\ k \in DOMAIN steps
    BY <1>1, <1>6, <2>1 DEF Meeting, Spliced
  <2>2. CASE /\ steps # <<>> /\ j = Len(steps) /\ j \in DOMAIN steps
             /\ 2 \in DOMAIN old /\ new[k] = old[2]
    <3>1. Meets(n, steps[Len(steps)], old[2])
      BY <1>2, <1>5, <2>2
    <3>2. QED
      BY <1>1, <2>2, <3>1 DEF Spliced
  <2>3. CASE \E a, b \in DOMAIN old : b = a + 1 /\ new[j] = old[a] /\ new[k] = old[b]
    BY <2>3 DEF Meeting
  <2>4. QED
    BY <1>1, <1>6, <2>1, <2>2, <2>3 DEF Spliced
<1>7. Meeting(n, new)
  BY <1>6 DEF Meeting
<1>8. steps = <<>> /\ new # <<>> => Head(new) \in Steps /\ Meets(n, Head(old), Head(new))
  BY <1>1, <1>2, <1>5 DEF Spliced
<1>9. QED
  BY <1>1, <1>3, <1>4, <1>7, <1>8 DEF Spliced, Routed

\* What a step of the component me leaves to the others.
Untouched(c, h, g) ==
    /\ \A f \in Members : f \in MembersOf(c) => g.at[Member(c, f)] = h.at[Member(c, f)]
    /\ Corrected(c, h) => Corrected(c, g)
    /\ HasErrors(c, h) => HasErrors(c, g)

Only(me, h, g) == \A c \in Components : c # me => Untouched(c, h, g)

LEMMA OthersUntouched ==
    ASSUME Sound(heap), VectorsMade(heap), NEW me \in Components,
           NEW W, W \subseteq Local(heap, me), W \cap VectorRoots = {},
           NEW g, Changes(heap, g, W), NEW c \in Components, c # me
    PROVE  Untouched(c, heap, g)
<1>1. ASSUME NEW f \in Members, f \in MembersOf(c)
      PROVE  g.at[Member(c, f)] = heap.at[Member(c, f)]
  <2>1. Member(c, f) \in Roots /\ Member(c, f).of = c /\ Member(c, f).member = f
    BY <1>1, Places
  <2>2. Member(c, f) \in DOMAIN heap.at
    BY <2>1, SoundFacts
  <2>3. Member(c, f) \notin MemberPlaces(me)
    BY <2>1, Places DEF MemberPlaces
  <2>4. f # "entry"
    BY DEF Members
  <2>5. Member(c, f) \notin W
    BY <2>1, <2>3, <2>4 DEF Local
  <2>6. QED
    BY <2>2, <2>5 DEF Changes
<1>2. Corrected(c, heap) => Corrected(c, g)
  <2>1. Kind[c] \in {"dot_product", "bias"} => "error_input" \in MembersOf(c)
    BY DEF MembersOf, Members
  <2>2. "error_input" \in Members
    BY DEF Members
  <2>3. QED
    BY <1>1, <2>1, <2>2 DEF Corrected
<1>3. ASSUME HasErrors(c, heap), Kind[c] = "join", NEW i \in DOMAIN Children[c]
      PROVE  g.at[Entry(g.at[Member(c, "error_input_vector")], i)] # Null
  <2>1. "error_input_vector" \in Vectors
    BY DEF Vectors
  <2>2. PICK q : q = Member(c, "error_input_vector")
    OBVIOUS
  <2>3. q \in VectorRoots /\ q.of = c
    BY <1>3, <2>1, <2>2, Places
  <2>4. PICK v : v = heap.at[q]
    OBVIOUS
  <2>5. v # Null /\ g.at[q] = v
    BY <2>3, <2>4, SoundFacts DEF VectorsMade, Changes
  <2>6. PICK p : p = Entry(v, i)
    OBVIOUS
  <2>7. p \in DOMAIN heap.at /\ p.of = v /\ p.member = "entry" /\ p \notin Roots
    <3>1. p \in EntriesOf(heap, v)
      BY <1>3, <2>1, <2>2, <2>4, <2>6, VectorEntries
    <3>2. QED
      BY <2>6, <3>1, RootsApart DEF EntriesOf
  <2>8. p \notin Local(heap, me)
    <3>1. p \notin MemberPlaces(me)
      BY <2>7, Places DEF MemberPlaces
    <3>2. ASSUME NEW r \in VectorRoots, r.of = me, heap.at[r] = v
          PROVE  FALSE
      BY <2>3, <2>4, <2>5, <3>2, SoundFacts
    <3>3. QED
      BY <2>7, <3>1, <3>2 DEF Local
  <2>9. g.at[p] = heap.at[p]
    BY <2>7, <2>8 DEF Changes
  <2>10. heap.at[p] # Null
    BY <1>3, <2>2, <2>4, <2>6 DEF HasErrors
  <2>11. QED
    BY <2>2, <2>5, <2>6, <2>9, <2>10
<1>4. HasErrors(c, heap) => HasErrors(c, g)
  BY <1>3 DEF HasErrors
<1>5. QED
  BY <1>1, <1>2, <1>4 DEF Untouched

LEMMA Elsewhere ==
    ASSUME TokensInv, Running, NEW me \in Components,
           NEW W, W \subseteq Local(heap, me), W \cap VectorRoots = {},
           NEW g, Changes(heap, g, W)
    PROVE  Only(me, heap, g)
<1>1. Sound(heap) /\ VectorsMade(heap)
  BY RunsBuilt DEF TokensInv, Running
<1>2. QED
  BY <1>1, OthersUntouched DEF Only

OnlyFlag(me, w) ==
    DOMAIN w = DOMAIN sparse /\ \A c \in Components : c # me => w[c] = sparse[c]

\* The component me has done its part of s: it leaves the heap g and the flags
\* w, passes t on, and what it has not done is to be done by steps.
Stepped(n, s, me, g, t, w, steps) ==
    /\ Only(me, heap, g) /\ OnlyFlag(me, w)
    /\ \A k \in DOMAIN steps : steps[k].c \in Below[me]
    /\ Meeting(n, steps)
    /\ HasErrors(me, heap) => HasErrors(me, g)
    /\ \A k \in DOMAIN steps :
          steps[k].op \in Correcting => steps[k].c = me /\ HasErrors(me, g)
    /\ steps # <<>> =>
          /\ \A r \in Steps : Meets(n, s, r) => Meets(n, steps[Len(steps)], r)
          /\ Arrives(n, steps[1], g, t)
    /\ steps = <<>> =>
          \A r \in Steps : Phase(r.op) = call /\ Meets(n, s, r) => Arrives(n, r, g, t)
    /\ \A c \in Rest(s) : c = me \/ \E k \in DOMAIN steps : c \in Rest(steps[k])
    /\ Fed(n, me, heap, sparse) \/ (call = "forward" /\ me \in Rest(s)) =>
          Fed(n, me, g, w) \/ (call = "forward" /\ \E k \in DOMAIN steps : me \in Rest(steps[k]))
    /\ Corrected(me, heap) \/ (call = "backprop" /\ me \in Rest(s)) =>
          Corrected(me, g) \/ (call = "backprop" /\ \E k \in DOMAIN steps : me \in Rest(steps[k]))

LEMMA CallStep ==
    ASSUME ReadyInv, TokensInv', Running, outcome = "running", todo # <<>>,
           UNCHANGED <<script, outcome>>,
           NEW n, n = last[2], NEW s, s = Head(todo), NEW me \in Components, me = Me,
           NEW g, g = heap', NEW t, t = hand', NEW w, w = sparse',
           NEW steps \in Seq(Steps), Continue(steps), Stepped(n, s, me, g, t, w, steps)
    PROVE  ReadyInv'
<1>1. call' = call /\ last' = last /\ outcome' = "running" /\ last[1] = call /\ Ran
  BY DEF script, ReadyInv, CallInv, Running, Ran
<1>2. n \in Components /\ Inside(n, todo) /\ Meeting(n, todo) /\ me = s.c
  BY <1>1 DEF ReadyInv, CallInv, Me
<1>3. todo \in Seq(Steps) /\ todo' = steps \o Tail(todo)
  BY DEF ReadyInv, TokensInv, TodoInv, Continue
<1>4. PICK new : new = todo'
  OBVIOUS
<1> DEFINE old == todo
<1>a. old \in Seq(Steps) /\ old # <<>> /\ Inside(n, old) /\ Meeting(n, old)
      /\ me = Head(old).c /\ s = Head(old) /\ new = steps \o Tail(old)
  BY <1>2, <1>3, <1>4
<1>b. old = todo
  OBVIOUS
<1> HIDE DEF old
<1>5. /\ Inside(n, new) /\ Meeting(n, new)
      /\ steps # <<>> => new # <<>> /\ Head(new) = steps[1]
      /\ steps = <<>> /\ new # <<>> => Head(new) \in Steps /\ Meets(n, s, Head(new))
      /\ \A k \in DOMAIN steps : k \in DOMAIN new /\ new[k] = steps[k]
      /\ \A k \in DOMAIN todo : k # 1 => \E j \in DOMAIN new : new[j] = todo[k]
      /\ \A k \in DOMAIN new : k \in DOMAIN steps \/ \E j \in DOMAIN todo : new[k] = todo[j]
      /\ me \in Below[n] /\ Below[me] \subseteq Below[n]
  <2>1. /\ \A k \in DOMAIN steps : steps[k].c \in Below[me]
        /\ Meeting(n, steps)
        /\ steps # <<>> => \A r \in Steps : Meets(n, s, r) => Meets(n, steps[Len(steps)], r)
    BY DEF Stepped
  <2>2. Routed(n, old, steps, new)
    BY <1>2, <1>a, <2>1, RouteStep
  <2>3. QED
    BY <1>a, <1>b, <2>2 DEF Routed
<1>6. new # <<>> => Arrives(n, Head(new), g, t)
  <2>1. CASE steps # <<>>
    BY <1>5, <2>1 DEF Stepped
  <2>2. CASE steps = <<>> /\ new # <<>>
    <3>1. new \in Seq(Steps) /\ \A k \in DOMAIN new : Phase(new[k].op) = call
      BY <1>1, <1>4 DEF TokensInv, TodoInv
    <3>2. 1 \in DOMAIN new /\ Head(new) = new[1]
      BY <2>2, <3>1
    <3>3. Phase(Head(new).op) = call
      BY <3>1, <3>2
    <3>4. QED
      BY <1>5, <2>2, <3>3 DEF Stepped
  <2>3. QED
    BY <2>1, <2>2
<1>d. \A k \in DOMAIN new : new[k].op \in Correcting => HasErrors(new[k].c, g)
  <2>1. ASSUME NEW k \in DOMAIN new, new[k].op \in Correcting
        PROVE  HasErrors(new[k].c, g)
    <3>1. CASE k \in DOMAIN steps
      BY <1>5, <2>1, <3>1 DEF Stepped
    <3>2. ASSUME NEW j \in DOMAIN todo, new[k] = todo[j]
          PROVE  HasErrors(new[k].c, g)
      <4>1. HasErrors(todo[j].c, heap)
        BY <2>1, <3>2 DEF ReadyInv, CallInv
      <4>2. todo[j].c \in Components
        <5>1. todo[j] \in Steps
          BY <1>3
        <5>2. QED
          BY <5>1 DEF Steps
      <4>3. HasErrors(todo[j].c, g)
        BY <4>1, <4>2 DEF Only, Untouched, Stepped
      <4>4. QED
        BY <3>2, <4>3
    <3>3. QED
      BY <1>5, <3>1, <3>2
  <2>2. QED
    BY <2>1
<1>7. CallInv'
  <2>1. Running' /\ last'[1] = call' /\ last'[2] = n /\ call' \notin {"build", "reset"}
    BY <1>1 DEF Running
  <2>2. /\ Inside(n, todo') /\ Meeting(n, todo')
        /\ todo' # <<>> => Arrives(n, Head(todo'), heap', hand')
        /\ \A k \in DOMAIN todo' : todo'[k].op \in Correcting => HasErrors(todo'[k].c, heap')
    BY <1>4, <1>5, <1>6, <1>d
  <2>3. DOMAIN sparse' = Components
    BY DEF ReadyInv, CallInv, Stepped, OnlyFlag
  <2>4. QED
    BY <1>2, <2>1, <2>2, <2>3 DEF CallInv
<1>8. ASSUME NEW c \in Left
      PROVE  (c = me /\ me \in Rest(s)) \/ c \in Left'
  <2>1. PICK k \in DOMAIN todo : c \in Rest(todo[k])
    BY <1>8 DEF Left
  <2>2. CASE k = 1
    <3>1. c \in Rest(s)
      BY <1>3, <2>1, <2>2
    <3>2. CASE c = me
      BY <3>1, <3>2
    <3>3. CASE c # me
      <4>1. PICK j \in DOMAIN steps : c \in Rest(steps[j])
        BY <3>1, <3>3 DEF Stepped
      <4>2. QED
        BY <1>4, <1>5, <4>1 DEF Left
    <3>4. QED
      BY <3>2, <3>3
  <2>3. CASE k # 1
    <3>1. PICK j \in DOMAIN new : new[j] = todo[k]
      BY <1>5, <2>3
    <3>2. QED
      BY <1>4, <2>1, <3>1 DEF Left
  <2>4. QED
    BY <2>2, <2>3
<1>9. (\E k \in DOMAIN steps : me \in Rest(steps[k])) => me \in Left'
  BY <1>4, <1>5 DEF Left
<1>10. ASSUME NEW c \in Below[n]
       PROVE  /\ Fed(n, c, g, w) \/ (call = "forward" /\ c \in Left')
              /\ last[1] = "backprop" => Corrected(c, g) \/ (call = "backprop" /\ c \in Left')
  <2>1. /\ Fed(n, c, heap, sparse) \/ (call = "forward" /\ c \in Left)
        /\ last[1] = "backprop" => Corrected(c, heap) \/ (call = "backprop" /\ c \in Left)
    BY <1>1 DEF ReadyInv, DoneInv
  <2>2. c \in Left => (c = me /\ me \in Rest(s)) \/ c \in Left'
    BY <1>8
  <2>3. CASE c = me
    <3>1. Fed(n, me, g, w) \/ (call = "forward" /\ me \in Left')
      BY <1>9, <2>1, <2>2, <2>3 DEF Stepped
    <3>2. last[1] = "backprop" => Corrected(me, g) \/ (call = "backprop" /\ me \in Left')
      BY <1>9, <2>1, <2>2, <2>3 DEF Stepped
    <3>3. QED
      BY <2>3, <3>1, <3>2
  <2>4. CASE c # me
    <3>1. c \in Components
      BY <1>2, BelowMore
    <3>2. Corrected(c, heap) => Corrected(c, g)
      BY <2>4, <3>1 DEF Only, Untouched, Stepped
    <3>3. Fed(n, c, heap, sparse) => Fed(n, c, g, w)
      <4>1. Kind[c] = "dot_product" => "input" \in MembersOf(c) /\ "input" \in Members
        BY DEF MembersOf, Members
      <4>2. QED
        BY <2>4, <3>1, <4>1 DEF Fed, Only, OnlyFlag, Untouched, Stepped
    <3>4. QED
      BY <2>1, <2>2, <2>4, <3>2, <3>3
  <2>5. QED
    BY <2>3, <2>4
<1>11. DoneInv'
  BY <1>1, <1>10 DEF DoneInv
<1>12. QED
  BY <1>7, <1>11 DEF ReadyInv
-----------------------------------------------------------------------------
(***************************************************************************)
(* What is made, and what it is taken for                                  *)
(***************************************************************************)
\* From g to j only the places P have changed, and tokens have been made.
Extends(g, j, P) ==
    /\ \A x \in Live(g) : x \in Live(j) /\ j.type[x] = g.type[x]
    /\ \A p \in DOMAIN g.at \ P : p \in DOMAIN j.at /\ j.at[p] = g.at[p]

\* The places P hold tokens of type k whose n entries hold u.
HoldNew(g, P, k, n, u) ==
    \A p \in P :
        /\ g.at[p] \in Live(g) /\ g.at[p] # Null /\ g.type[g.at[p]] = k
        /\ \A i \in 1 .. n : /\ Entry(g.at[p], i) \in EntriesOf(g, g.at[p])
                             /\ g.at[Entry(g.at[p], i)] = u

LEMMA AssignNewMakes ==
    ASSUME NEW h, Sound(h), NEW P \in SUBSET DOMAIN h.at, P \cap VectorRoots = {},
           Available(h, P), NEW k \in {"mem", "sparse", "vector"}, NEW n \in Nat,
           NEW u, KeptBeside(h, u, P),
           NEW g, g = AssignNew(h, P, k, n, u)
    PROVE  Changes(h, g, P) /\ Extends(h, g, P) /\ HoldNew(g, P, k, n, u)
<1> DEFINE r == Release(h, P)
           m == [p \in P |-> n]
<1>1. /\ Sound(r)
      /\ r.at = [p \in DOMAIN h.at |-> IF p \in P THEN Null ELSE h.at[p]]
      /\ Live(r) = Live(h) /\ r.type = h.type
  BY ReleaseSound
<1>2. g = New(r, P, k, m, u)
  BY DEF AssignNew
<1>3. m \in [P -> Nat] /\ \A p \in P : m[p] = n
  OBVIOUS
<1> HIDE DEF r, m
<1>4. Available(r, P)
  BY <1>1 DEF Available, Free
<1>5. u \in (Live(r) \ r.dying) \cup {Null}
  <2>1. CASE u = Null
    BY <2>1
  <2>2. CASE u # Null
    <3>1. PICK q \in DOMAIN h.at \ P : h.at[q] = u
      BY <2>2 DEF KeptBeside
    <3>2. q \in DOMAIN r.at /\ r.at[q] = u
      BY <1>1, <3>1
    <3>3. QED
      BY <1>1, <3>2, SoundFacts
  <2>3. QED
    BY <2>1, <2>2
<1>6. P \in SUBSET DOMAIN r.at /\ \A p \in P : r.at[p] = Null
  BY <1>1
<1>7. IsHeap(r) /\ Counted(r) /\ r.dying = Zeroes(r) /\ Placed(r)
  BY <1>1, SoundFacts
<1>8. /\ DOMAIN g.at = DOMAIN r.at \cup Made(g.at, P, m)
      /\ \A p \in Made(g.at, P, m) : g.at[p] = u
      /\ \A t \in Live(r) : g.type[t] = r.type[t]
      /\ \A p \in P : g.type[g.at[p]] = k
  BY <1>2, <1>3, <1>4, <1>5, <1>6, <1>7, NewCounted
<1>9. ASSUME NEW p \in P, NEW i \in 1 .. n
      PROVE  Entry(g.at[p], i) \in Made(g.at, P, m)
  BY <1>3, <1>9 DEF Made
<1>10. /\ Changes(h, g, P) /\ Live(g) = Live(h) \cup {g.at[p] : p \in P}
       /\ \A p \in P : g.at[p] \in Arena(p) \ Live(h)
  BY AssignNewSound
<1>11. Extends(h, g, P)
  BY <1>1, <1>8, <1>10 DEF Extends, Changes
<1>12. ASSUME NEW p \in P, NEW i \in 1 .. n
       PROVE  /\ Entry(g.at[p], i) \in EntriesOf(g, g.at[p])
              /\ g.at[Entry(g.at[p], i)] = u
  <2>1. Entry(g.at[p], i) \in DOMAIN g.at /\ g.at[Entry(g.at[p], i)] = u
    BY <1>8, <1>9
  <2>2. QED
    BY <2>1, RootsApart DEF EntriesOf
<1>13. ASSUME NEW p \in P
       PROVE  g.at[p] \in Live(g) /\ g.at[p] # Null
  <2>1. Null \notin Tokens /\ Arena(p) \subseteq Tokens
    BY TreeAssumption DEF Available
  <2>2. QED
    BY <1>10, <2>1
<1>14. HoldNew(g, P, k, n, u)
  BY <1>8, <1>12, <1>13 DEF HoldNew
<1>15. QED
  BY <1>10, <1>11, <1>14

\* A component that makes its result.
MadeHere(k, n, u) ==
    /\ hand' \in Live(heap') /\ heap'.type[hand'] = k
    /\ \A i \in 1 .. n : /\ Entry(hand', i) \in EntriesOf(heap', hand')
                         /\ heap'.at[Entry(hand', i)] = u

LEMMA MakesFacts ==
    ASSUME TokensInv, Running, Me \in Components, NEW g,
           NEW V, Changes(heap, g, V), V \subseteq Local(heap, Me), V \cap VectorRoots = {},
           NEW f \in MembersOf(Me), f \notin Vectors, NEW P, P = {Mine(f)},
           Free(g, Mine(f)) # {}, NEW k \in {"mem", "sparse", "vector"}, NEW n \in Nat,
           NEW u, KeptBeside(g, u, P), NEW j, j = AssignNew(g, P, k, n, u),
           j = heap', hand' = j.at[Mine(f)]
    PROVE  MadeHere(k, n, u) /\ Only(Me, heap, j) /\ Extends(g, j, P) /\ hand' # Null
<1>1. Sound(heap) /\ Sound(g)
  BY DEF TokensInv, Changes
<1>2. PICK p \in Roots :
         /\ p = Mine(f) /\ p.member = f /\ p \notin VectorRoots /\ p \in Local(heap, Me)
         /\ Arena(p) \subseteq Tokens
  BY <1>1, MineFacts
<1>3. Changes(g, j, P) /\ Extends(g, j, P) /\ HoldNew(j, P, k, n, u)
  <2>1. P \in SUBSET DOMAIN g.at /\ P \cap VectorRoots = {}
    BY <1>1, <1>2, SoundFacts
  <2>2. Available(g, P)
    BY <1>2 DEF Available
  <2>3. QED
    BY <1>1, <2>1, <2>2, AssignNewMakes
<1>4. hand' = j.at[p] /\ p \in P
  BY <1>2
<1>5. MadeHere(k, n, u) /\ hand' # Null
  BY <1>3, <1>4 DEF MadeHere, HoldNew
<1>6. Changes(heap, j, V \cup P)
  BY <1>3, ChangesTwice
<1>7. PICK W : W = V \cup P
  OBVIOUS
<1>8. W \subseteq Local(heap, Me) /\ W \cap VectorRoots = {} /\ Changes(heap, j, W)
  BY <1>2, <1>6, <1>7
<1>9. Only(Me, heap, j)
  <2>1. PICK me \in Components : me = Me
    OBVIOUS
  <2>2. Only(me, heap, j)
    BY <1>8, <2>1, Elsewhere
  <2>3. QED
    BY <2>1, <2>2
<1>10. QED
  BY <1>3, <1>5, <1>9

\* And the places that it writes.
LEMMA MakesChanges ==
    ASSUME TokensInv, Running, Me \in Components, NEW g,
           NEW V, Changes(heap, g, V),
           NEW f \in MembersOf(Me), f \notin Vectors, NEW P, P = {Mine(f)},
           Free(g, Mine(f)) # {}, NEW u, KeptBeside(g, u, P),
           NEW j, j = AssignNew(g, P, "mem", 0, u)
    PROVE  Changes(heap, j, V \cup P)
<1>1. Sound(heap) /\ Sound(g)
  BY DEF TokensInv, Changes
<1>2. PICK p \in Roots :
         /\ p = Mine(f) /\ p.member = f /\ p \notin VectorRoots /\ p \in Local(heap, Me)
         /\ Arena(p) \subseteq Tokens
  BY <1>1, MineFacts
<1>3. P \in SUBSET DOMAIN g.at /\ P \cap VectorRoots = {}
  BY <1>1, <1>2, SoundFacts
<1>4. Available(g, P)
  BY <1>2 DEF Available
<1>5. Changes(g, j, P)
  BY <1>1, <1>3, <1>4, AssignNewMakes
<1>6. QED
  BY <1>5, ChangesTwice

\* What a handler finds.
LEMMA CallFacts ==
    ASSUME ReadyInv, NEW op, NEW K, Now(op, K), Phase(op) \in {"forward", "backprop"},
           NEW n, n = last[2], NEW s, s = Head(todo)
    PROVE  /\ TokensInv /\ Running /\ outcome = "running" /\ todo # <<>>
           /\ Me \in Components /\ Kind[Me] \in K /\ call = Phase(op)
           /\ n \in Components /\ Me \in Below[n]
           /\ s \in Steps /\ s.c = Me /\ s.op = op /\ Arrives(n, s, heap, hand)
           /\ op \in Correcting => HasErrors(Me, heap)
           /\ call = "backprop" => Fed(n, Me, heap, sparse)
<1>1. /\ TokensInv /\ outcome = "running" /\ todo # <<>> /\ Me \in Components
      /\ s \in Steps /\ s.c = Me /\ s.op = op /\ call = Phase(op) /\ Kind[Me] \in K
      /\ s = todo[1] /\ 1 \in DOMAIN todo
  <2>1. TokensInv
    BY DEF ReadyInv
  <2>2. /\ todo # <<>> /\ Me \in Components /\ Head(todo) = todo[1] /\ 1 \in DOMAIN todo
        /\ todo[1] \in Steps /\ Head(todo).op = op /\ Phase(op) = call /\ Kind[Me] \in K
    BY <2>1, NowFacts
  <2>3. QED
    BY <2>1, <2>2 DEF Now, Me
<1>2. Running /\ Ran /\ last[1] = call /\ n \in Components
  BY <1>1 DEF ReadyInv, CallInv, Running, Ran
<1>3. /\ Inside(n, todo) /\ Arrives(n, s, heap, hand)
      /\ \A k \in DOMAIN todo : todo[k].op \in Correcting => HasErrors(todo[k].c, heap)
  BY <1>1, <1>2 DEF ReadyInv, CallInv
<1>4. Me \in Below[n]
  BY <1>1, <1>3 DEF Inside
<1>5. call = "backprop" => Fed(n, Me, heap, sparse)
  BY <1>1, <1>2, <1>4 DEF ReadyInv, DoneInv
<1>6. op \in Correcting => HasErrors(Me, heap)
  BY <1>1, <1>3
<1>7. QED
  BY <1>1, <1>2, <1>3, <1>4, <1>5, <1>6

\* What is below a component without children.
LEMMA Alone ==
    ASSUME NEW c \in Components, Kind[c] \notin {"join", "stack", "hyperplane"}
    PROVE  Below[c] = {c}
<1>1. Children[c] = <<>>
  BY NamesAssumption
<1>2. DOMAIN Children[c] = {}
  BY <1>1
<1>3. c \in Below[c]
  BY BelowFacts
<1>4. QED
  BY <1>2, <1>3, BelowMore

\* What a step has still to reach.
LEMMA RestOf ==
    ASSUME NEW s
    PROVE  /\ s.op \in {"forward", "backprop"} => Rest(s) = Below[s.c]
           /\ s.op \in Loops => Rest(s) =
                 UNION {Below[Children[s.c][i]] : i \in {j \in DOMAIN Children[s.c] : s.i <= j}}
           /\ s.op \in Keeps => Rest(s) =
                 UNION {Below[Children[s.c][i]] : i \in {j \in DOMAIN Children[s.c] : s.i < j}}
           /\ s.op \in Ends => Rest(s) = {}
  BY DEF Rest, Loops, Keeps, Ends

Simple == {"dot_product", "bias", "activation", "copy"}

LEMMA LeafStep ==
    ASSUME ReadyInv, TokensInv', NEW K, K \subseteq Simple, Now(call, K), Running,
           Only(Me, heap, heap'), OnlyFlag(Me, sparse'),
           Continue(<<>>), UNCHANGED <<script, outcome>>,
           NEW n, n = last[2],
           \A r \in Steps : Phase(r.op) = call /\ Meets(n, Head(todo), r) =>
              Arrives(n, r, heap', hand'),
           call = "forward" =>
              Fed(n, Me, heap', sparse') /\ (Corrected(Me, heap) => Corrected(Me, heap')),
           call = "backprop" =>
              Corrected(Me, heap') /\ (Fed(n, Me, heap, sparse) => Fed(n, Me, heap', sparse'))
    PROVE  ReadyInv'
<1>1. PICK s : s = Head(todo)
  OBVIOUS
<1>2. call \in {"forward", "backprop"} /\ Phase(call) = call
  BY DEF Running, Phase
<1>3. /\ outcome = "running" /\ todo # <<>> /\ Me \in Components /\ Kind[Me] \in Simple
      /\ s.c = Me /\ s.op = call
  BY <1>1, <1>2, CallFacts
<1>4. PICK me \in Components : me = Me
  BY <1>3
<1>5. PICK g : g = heap'
  OBVIOUS
<1>6. PICK t : t = hand'
  OBVIOUS
<1>7. PICK w : w = sparse'
  OBVIOUS
<1>8. PICK steps \in Seq(Steps) : steps = <<>>
  <2>1. <<>> \in Seq(Steps)
    OBVIOUS
  <2>2. QED
    BY <2>1
<1>9. Rest(s) = {me}
  <2>1. Rest(s) = Below[me]
    BY <1>2, <1>3, <1>4, RestOf
  <2>2. QED
    BY <1>3, <1>4, <2>1, Alone DEF Simple
<1>10. DOMAIN steps = {} /\ Continue(steps) /\ Meeting(n, steps)
  <2>1. DOMAIN steps = {}
    BY <1>8
  <2>2. QED
    BY <1>8, <2>1 DEF Meeting
<1>11. HasErrors(me, g)
  BY <1>3, <1>4 DEF HasErrors, Simple
<1>12. /\ Only(me, heap, g) /\ OnlyFlag(me, w)
       /\ \A r \in Steps : Phase(r.op) = call /\ Meets(n, s, r) => Arrives(n, r, g, t)
       /\ call = "forward" => Fed(n, me, g, w) /\ (Corrected(me, heap) => Corrected(me, g))
       /\ call = "backprop" =>
             Corrected(me, g) /\ (Fed(n, me, heap, sparse) => Fed(n, me, g, w))
  BY <1>1, <1>4, <1>5, <1>6, <1>7
<1>13. /\ \A c \in Rest(s) : c = me
       /\ Fed(n, me, heap, sparse) \/ (call = "forward" /\ me \in Rest(s)) => Fed(n, me, g, w)
       /\ Corrected(me, heap) \/ (call = "backprop" /\ me \in Rest(s)) => Corrected(me, g)
  BY <1>2, <1>9, <1>12
<1>14. Stepped(n, s, me, g, t, w, steps)
  BY <1>8, <1>10, <1>11, <1>12, <1>13 DEF Stepped
<1>15. QED
  BY <1>1, <1>3, <1>4, <1>5, <1>6, <1>7, <1>8, <1>10, <1>14, CallStep
-----------------------------------------------------------------------------
(***************************************************************************)
(* The leaves                                                              *)
(***************************************************************************)
LEMMA BlockArrives ==
    ASSUME NEW n, NEW u, MadeHere("mem", n, u), hand' # Null, NEW m, NEW r
    PROVE  Arrives(m, r, heap', hand')
<1>1. IsDense(heap', hand')
  BY DEF MadeHere, IsDense
<1>2. QED
  BY <1>1 DEF Arrives

LEMMA KeptAndMade ==
    ASSUME TokensInv, Running, Me \in Components, Passing,
           NEW e \in MembersOf(Me), e = (IF call = "forward" THEN "input" ELSE "error_input"),
           NEW f \in MembersOf(Me), f = (IF call = "forward" THEN "output" ELSE "error_output"),
           Room({Mine(f)}),
           NEW k \in {"mem", "sparse", "vector"}, NEW n \in Nat, NEW u \in {hand, Null},
           heap' = AssignNew(Assign(heap, Mine(e), hand), {Mine(f)}, k, n, u),
           hand' = heap'.at[Mine(f)]
    PROVE  /\ MadeHere(k, n, u) /\ Only(Me, heap, heap') /\ hand' # Null
           /\ heap'.at[Mine(e)] = hand
           /\ \A x \in Live(heap) : x \in Live(heap') /\ heap'.type[x] = heap.type[x]
           /\ \A d \in MembersOf(Me) : d \notin {e, f} => heap'.at[Mine(d)] = heap.at[Mine(d)]
<1>1. Sound(heap)
  BY DEF TokensInv
<1>2. f \notin Vectors /\ e # f
  BY DEF Vectors
<1>3. PICK g : g = Assign(heap, Mine(e), hand)
  OBVIOUS
<1>4. /\ Changes(heap, g, {Mine(e)}) /\ DOMAIN g.at = DOMAIN heap.at
      /\ g.at[Mine(e)] = hand /\ Live(g) = Live(heap) /\ g.type = heap.type
      /\ {Mine(e)} \subseteq Local(heap, Me) /\ {Mine(e)} \cap VectorRoots = {}
      /\ Mine(e) \in Roots /\ Mine(e).member = e
  BY <1>3, KeepsHand
<1>5. Mine(f).member = f
  BY <1>1, MineFacts
<1>6. Free(g, Mine(f)) # {}
  BY <1>4 DEF Room, Free
<1>7. Mine(e) \in DOMAIN g.at /\ Mine(e) # Mine(f)
  BY <1>1, <1>2, <1>4, <1>5, SoundFacts
<1>8. PICK P : P = {Mine(f)}
  OBVIOUS
<1>9. KeptBeside(g, u, P)
  BY <1>4, <1>7, <1>8 DEF KeptBeside
<1>10. PICK j : j = heap'
  OBVIOUS
<1>11. MadeHere(k, n, u) /\ Only(Me, heap, j) /\ Extends(g, j, P) /\ hand' # Null
  <2>1. PICK V : V = {Mine(e)}
    OBVIOUS
  <2>2. V \subseteq Local(heap, Me) /\ V \cap VectorRoots = {} /\ Changes(heap, g, V)
    BY <1>4, <2>1
  <2>3. j = AssignNew(g, P, k, n, u) /\ hand' = j.at[Mine(f)]
    BY <1>3, <1>8, <1>10
  <2>4. QED
    BY <1>2, <1>6, <1>8, <1>9, <1>10, <2>2, <2>3, MakesFacts
<1>12. j.at[Mine(e)] = hand
  BY <1>4, <1>7, <1>8, <1>11 DEF Extends
<1>13. ASSUME NEW d \in MembersOf(Me), d \notin {e, f}
       PROVE  j.at[Mine(d)] = heap.at[Mine(d)]
  <2>1. Mine(d) \in DOMAIN heap.at /\ Mine(d).member = d
    BY <1>1, MineFacts
  <2>2. Mine(d) \notin {Mine(e)} /\ Mine(d) \notin P
    BY <1>4, <1>5, <1>8, <1>13, <2>1
  <2>3. g.at[Mine(d)] = heap.at[Mine(d)]
    BY <1>4, <2>1, <2>2 DEF Changes
  <2>4. QED
    BY <1>4, <1>11, <2>1, <2>2, <2>3 DEF Extends
<1>14. \A x \in Live(heap) : x \in Live(j) /\ j.type[x] = heap.type[x]
  BY <1>4, <1>11 DEF Extends
<1>15. QED
  BY <1>10, <1>11, <1>12, <1>13, <1>14

LEMMA ForwardBlockReady == ASSUME ReadyInv, ForwardBlock PROVE ReadyInv'
<1>1. PICK K : K = {"bias", "activation"}
  OBVIOUS
<1>2. PICK n : n = last[2]
  OBVIOUS
<1>3. Now("forward", K) /\ Phase("forward") = "forward" /\ "forward" \notin Loops \cup Ends
  BY <1>1 DEF ForwardBlock, Phase, Loops, Ends
<1>4. TokensInv /\ Running /\ Me \in Components /\ Kind[Me] \in K /\ call = "forward"
  BY <1>2, <1>3, CallFacts
<1>5. Passing
  BY <1>3, <1>4, NowFacts
<1>6. "input" \in MembersOf(Me) /\ "output" \in MembersOf(Me) /\ "error_input" \in MembersOf(Me)
  BY <1>1, <1>4 DEF MembersOf, Members
<1>7. /\ heap' = AssignNew(Assign(heap, Mine("input"), hand), {Mine("output")}, "mem", 0, Null)
      /\ hand' = heap'.at[Mine("output")]
  BY DEF ForwardBlock, Passes, MakeBlock
<1>8. Room({Mine("output")}) /\ Continue(<<>>) /\ UNCHANGED <<script, outcome>> /\ sparse' = sparse
  BY DEF ForwardBlock, flags, Passes
<1>9. /\ MadeHere("mem", 0, Null) /\ Only(Me, heap, heap') /\ hand' # Null
      /\ \A d \in MembersOf(Me) : d \notin {"input", "output"} => heap'.at[Mine(d)] = heap.at[Mine(d)]
  BY <1>4, <1>5, <1>6, <1>7, <1>8, KeptAndMade
<1>10. \A r \in Steps : Arrives(n, r, heap', hand')
  BY <1>9, BlockArrives
<1>11. Fed(n, Me, heap', sparse')
  BY <1>1, <1>4 DEF Fed
<1>12. Corrected(Me, heap) => Corrected(Me, heap')
  BY <1>6, <1>9 DEF Corrected, Mine
<1>13. TokensInv'
  BY <1>4, ForwardBlockKeeps
<1>14. K \subseteq Simple /\ Now(call, K) /\ OnlyFlag(Me, sparse')
  BY <1>1, <1>3, <1>4, <1>8 DEF Simple, OnlyFlag
<1>15. QED
  BY <1>2, <1>4, <1>8, <1>9, <1>10, <1>11, <1>12, <1>13, <1>14, LeafStep

\* A copy of what is dense is dense.
LEMMA CopyDense ==
    ASSUME NEW n \in Nat \ {0}, MadeHere("vector", n, hand), IsDense(heap, hand),
           \A x \in Live(heap) : x \in Live(heap') /\ heap'.type[x] = heap.type[x]
    PROVE  IsDense(heap', hand')
<1>1. hand \in Live(heap) /\ heap.type[hand] # "sparse"
  BY DEF IsDense
<1>2. 1 \in 1 .. n
  OBVIOUS
<1>3. PICK p \in EntriesOf(heap', hand') : heap'.at[p] = hand
  BY <1>2 DEF MadeHere
<1>4. hand \in Live(heap') /\ heap'.type[hand] # "sparse"
  BY <1>1
<1>5. QED
  BY <1>3, <1>4 DEF IsDense, MadeHere

LEMMA ForwardCopyReady == ASSUME ReadyInv, ForwardCopy PROVE ReadyInv'
<1>1. PICK K : K = {"copy"}
  OBVIOUS
<1>2. PICK n : n = last[2]
  OBVIOUS
<1>3. PICK s : s = Head(todo)
  OBVIOUS
<1>4. Now("forward", K) /\ Phase("forward") = "forward" /\ "forward" \notin Loops \cup Ends
  BY <1>1 DEF ForwardCopy, Phase, Loops, Ends
<1>5. /\ TokensInv /\ Running /\ Me \in Components /\ Kind[Me] \in K /\ call = "forward"
      /\ n \in Components /\ Me \in Below[n]
      /\ s.c = Me /\ s.op = "forward" /\ Arrives(n, s, heap, hand)
  BY <1>2, <1>3, <1>4, CallFacts
<1>6. Passing
  BY <1>4, <1>5, NowFacts
<1>7. "input" \in MembersOf(Me) /\ "output" \in MembersOf(Me)
  BY <1>1, <1>5 DEF MembersOf, Members
<1>8. /\ heap' = AssignNew(Assign(heap, Mine("input"), hand), {Mine("output")}, "vector", Times, hand)
      /\ hand' = heap'.at[Mine("output")]
  BY DEF ForwardCopy, Passes
<1>9. /\ Room({Mine("output")}) /\ Continue(<<>>) /\ UNCHANGED <<script, outcome>>
      /\ sparse' = sparse /\ Times \in Nat \ {0}
  BY TreeAssumption DEF ForwardCopy, flags, Passes
<1>10. /\ MadeHere("vector", Times, hand) /\ Only(Me, heap, heap') /\ hand' # Null
       /\ \A x \in Live(heap) : x \in Live(heap') /\ heap'.type[x] = heap.type[x]
  BY <1>5, <1>6, <1>7, <1>8, <1>9, KeptAndMade
<1>11. ASSUME NEW r \in Steps, Meets(n, s, r)
       PROVE  Arrives(n, r, heap', hand')
  <2>1. ASSUME r.op = "forward", GetsDense(n, r.c)
        PROVE  IsDense(heap', hand')
    <3>1. GivesDense(n, Me)
      BY <1>5, <1>11, <2>1 DEF Meets
    <3>2. GetsDense(n, Me)
      BY <1>1, <1>5, <3>1, Gives
    <3>3. IsDense(heap, hand)
      BY <1>5, <3>2 DEF Arrives
    <3>4. QED
      BY <1>9, <1>10, <3>3, CopyDense
  <2>2. QED
    BY <1>10, <2>1 DEF Arrives
<1>12. Fed(n, Me, heap', sparse') /\ Corrected(Me, heap')
  BY <1>1, <1>5 DEF Fed, Corrected
<1>13. TokensInv'
  BY <1>5, ForwardCopyKeeps
<1>14. K \subseteq Simple /\ Now(call, K) /\ OnlyFlag(Me, sparse')
  BY <1>1, <1>4, <1>5, <1>9 DEF Simple, OnlyFlag
<1>15. \A r \in Steps : Meets(n, Head(todo), r) => Arrives(n, r, heap', hand')
  BY <1>3, <1>11
<1>16. QED
  BY <1>2, <1>5, <1>9, <1>10, <1>12, <1>13, <1>14, <1>15, LeafStep

\* A dense token is not taken for a sparse one.
LEMMA DenseIsMem ==
    ASSUME ForwardAccepts(hand), Kind[Me] = "dot_product", IsDense(heap, hand)
    PROVE  heap.type[hand] = "mem"
<1>1. heap.type[hand] = "vector" =>
        \A p \in EntriesOf(heap, hand) : heap.type[heap.at[p]] = "sparse"
  BY DEF ForwardAccepts
<1>2. QED
  BY <1>1 DEF IsDense

LEMMA ForwardDotProductReady == ASSUME ReadyInv, ForwardDotProduct PROVE ReadyInv'
<1>1. PICK K : K = {"dot_product"}
  OBVIOUS
<1>2. PICK n : n = last[2]
  OBVIOUS
<1>3. PICK s : s = Head(todo)
  OBVIOUS
<1>4. Now("forward", K) /\ Phase("forward") = "forward" /\ "forward" \notin Loops \cup Ends
  BY <1>1 DEF ForwardDotProduct, Phase, Loops, Ends
<1>5. /\ TokensInv /\ Running /\ Me \in Components /\ Kind[Me] = "dot_product"
      /\ call = "forward" /\ s.c = Me /\ s.op = "forward" /\ Arrives(n, s, heap, hand)
  BY <1>1, <1>2, <1>3, <1>4, CallFacts
<1>6. Passing /\ Sound(heap)
  BY <1>4, <1>5, NowFacts
<1>7. /\ "input" \in MembersOf(Me) /\ "output" \in MembersOf(Me) /\ "error_input" \in MembersOf(Me)
      /\ "input" \notin Vectors /\ "output" \notin Vectors
  BY <1>5 DEF MembersOf, Members, Vectors
<1>8. /\ UNCHANGED <<script, outcome>> /\ Continue(<<>>) /\ ForwardAccepts(hand)
      /\ Free(heap, Mine("input")) # {} /\ Free(heap, Mine("output")) # {}
      /\ sparse' = [sparse EXCEPT ![Me] = heap.type[hand] # "mem"]
  BY DEF ForwardDotProduct, Passes, Room
<1>9. hand # Null
  BY <1>5, <1>8 DEF ForwardAccepts
<1>10. /\ MadeHere("mem", 0, Null) /\ Only(Me, heap, heap') /\ hand' # Null
       /\ heap'.at[Mine("input")] # Null
       /\ heap'.at[Mine("error_input")] = heap.at[Mine("error_input")]
  <2>1. CASE heap.type[hand] # "sparse"
    <3>1. /\ heap' = AssignNew(Assign(heap, Mine("input"), hand), {Mine("output")}, "mem", 0, Null)
          /\ hand' = heap'.at[Mine("output")] /\ Room({Mine("output")})
      BY <2>1 DEF ForwardDotProduct, Passes, MakeBlock, Room
    <3>2. /\ MadeHere("mem", 0, Null) /\ Only(Me, heap, heap') /\ hand' # Null
          /\ heap'.at[Mine("input")] = hand
          /\ \A d \in MembersOf(Me) : d \notin {"input", "output"} =>
                heap'.at[Mine(d)] = heap.at[Mine(d)]
      BY <1>5, <1>6, <1>7, <3>1, KeptAndMade
    <3>3. QED
      BY <1>7, <1>9, <3>2
  <2>2. CASE heap.type[hand] = "sparse"
    <3>1. PICK P : P = {Mine("input")}
      OBVIOUS
    <3>2. PICK Q : Q = {Mine("output")}
      OBVIOUS
    <3>3. PICK g : g = AssignNew(heap, P, "vector", 1, hand)
      OBVIOUS
    <3>4. PICK j : j = heap'
      OBVIOUS
    <3>5. j = AssignNew(g, Q, "mem", 0, Null) /\ hand' = j.at[Mine("output")]
      BY <2>2, <3>1, <3>2, <3>3, <3>4 DEF ForwardDotProduct, Passes, MakeBlock
    <3>6. /\ Mine("input") \in Roots /\ Mine("output") \in Roots
          /\ Mine("input").member = "input" /\ Mine("output").member = "output"
          /\ Mine("input") \notin VectorRoots /\ Mine("input") \in DOMAIN heap.at
          /\ Mine("input") \in Local(heap, Me) /\ Arena(Mine("input")) \subseteq Tokens
          /\ Mine("error_input") \in DOMAIN heap.at /\ Mine("error_input").member = "error_input"
      BY <1>5, <1>6, <1>7, MineFacts
    <3>7. KeptBeside(heap, hand, P)
      <4>1. \A p \in P : ~Lasting(p)
        BY <1>5, <3>1, <3>6 DEF Lasting
      <4>2. QED
        BY <1>5, <1>6, <4>1, HandBeside
    <3>8. P \in SUBSET DOMAIN heap.at /\ P \cap VectorRoots = {} /\ Available(heap, P)
      BY <1>8, <3>1, <3>6 DEF Available
    <3>9. Changes(heap, g, P) /\ Extends(heap, g, P) /\ HoldNew(g, P, "vector", 1, hand)
      BY <1>6, <3>3, <3>7, <3>8, AssignNewMakes
    <3>10. Live(g) = Live(heap) \cup {g.at[p] : p \in P} /\ \A p \in P : g.at[p] \in Arena(p) \ Live(heap)
      BY <1>6, <3>3, <3>7, <3>8, AssignNewSound
    <3>11. Free(g, Mine("output")) # {}
      <4>1. Mine("input") # Mine("output")
        BY <3>6
      <4>2. Arena(Mine("output")) \cap Arena(Mine("input")) = {}
        BY <3>6, <4>1, ArenaAssumption
      <4>3. PICK t \in Arena(Mine("output")) : t \notin Live(heap)
        BY <1>8 DEF Free
      <4>4. t \notin Live(g)
        BY <3>1, <3>10, <4>2, <4>3
      <4>5. QED
        BY <4>3, <4>4 DEF Free
    <3>12. P \subseteq Local(heap, Me) /\ P \cap VectorRoots = {} /\ KeptBeside(g, Null, Q)
      BY <3>1, <3>6 DEF KeptBeside
    <3>13. MadeHere("mem", 0, Null) /\ Only(Me, heap, j) /\ Extends(g, j, Q) /\ hand' # Null
      BY <1>5, <1>7, <3>2, <3>4, <3>5, <3>9, <3>11, <3>12, MakesFacts
    <3>14. g.at[Mine("input")] # Null /\ Mine("input") \in DOMAIN g.at
      BY <3>1, <3>6, <3>9 DEF HoldNew, Changes
    <3>15. j.at[Mine("input")] = g.at[Mine("input")]
      BY <3>2, <3>6, <3>13, <3>14 DEF Extends
    <3>16. /\ Mine("error_input") \in DOMAIN g.at
           /\ g.at[Mine("error_input")] = heap.at[Mine("error_input")]
      BY <3>1, <3>6, <3>9 DEF Extends
    <3>17. j.at[Mine("error_input")] = heap.at[Mine("error_input")]
      BY <3>2, <3>6, <3>13, <3>16 DEF Extends
    <3>18. QED
      BY <3>4, <3>13, <3>14, <3>15, <3>17
  <2>3. QED
    BY <2>1, <2>2
<1>11. \A r \in Steps : Arrives(n, r, heap', hand')
  BY <1>10, BlockArrives
<1>12. Corrected(Me, heap) => Corrected(Me, heap')
  BY <1>10 DEF Corrected, Mine
<1>13. GetsDense(n, Me) => heap.type[hand] = "mem"
  BY <1>5, <1>8, DenseIsMem DEF Arrives
<1>14. TokensInv'
  BY <1>5, ForwardDotProductKeeps
<1>15. Fed(n, Me, heap', sparse')
  <2>1. heap'.at[Member(Me, "input")] # Null
    BY <1>10 DEF Mine
  <2>2. GetsDense(n, Me) => ~sparse'[Me]
    BY <1>5, <1>8, <1>13 DEF ReadyInv, CallInv
  <2>3. QED
    BY <2>1, <2>2 DEF Fed
<1>16. K \subseteq Simple /\ Now(call, K) /\ OnlyFlag(Me, sparse')
  BY <1>1, <1>4, <1>5, <1>8 DEF Simple, OnlyFlag
<1>17. QED
  BY <1>2, <1>5, <1>8, <1>10, <1>11, <1>12, <1>14, <1>15, <1>16, LeafStep

LEMMA BackpropBiasReady == ASSUME ReadyInv, BackpropBias PROVE ReadyInv'
<1>1. PICK K : K = {"bias"}
  OBVIOUS
<1>2. PICK n : n = last[2]
  OBVIOUS
<1>3. Now("backprop", K) /\ Phase("backprop") = "backprop" /\ "backprop" \notin Loops \cup Ends
  BY <1>1 DEF BackpropBias, Phase, Loops, Ends
<1>4. TokensInv /\ Running /\ Me \in Components /\ Kind[Me] = "bias" /\ call = "backprop"
  BY <1>1, <1>2, <1>3, CallFacts
<1>5. Passing
  BY <1>3, <1>4, NowFacts
<1>6. "error_input" \in MembersOf(Me)
  BY <1>4 DEF MembersOf, Members
<1>7. /\ heap' = Assign(heap, Mine("error_input"), hand) /\ hand' = hand /\ hand # Null
      /\ Continue(<<>>) /\ UNCHANGED <<script, outcome>> /\ sparse' = sparse
  BY <1>4 DEF BackpropBias, BackpropAccepts, IsBlock, flags
<1>8. /\ Only(Me, heap, heap') /\ heap'.at[Mine("error_input")] = hand
  <2>1. PICK V : V = {Mine("error_input")}
    OBVIOUS
  <2>2. PICK g : g = heap'
    OBVIOUS
  <2>3. /\ Changes(heap, g, V) /\ V \subseteq Local(heap, Me) /\ V \cap VectorRoots = {}
        /\ g.at[Mine("error_input")] = hand
    BY <1>4, <1>5, <1>6, <1>7, <2>1, <2>2, KeepsHand
  <2>4. Only(Me, heap, g)
    <3>1. PICK me \in Components : me = Me
      BY <1>4
    <3>2. Only(me, heap, g)
      BY <1>4, <2>3, <3>1, Elsewhere
    <3>3. QED
      BY <3>1, <3>2
  <2>5. QED
    BY <2>2, <2>3, <2>4
<1>9. \A r \in Steps : Phase(r.op) = call => Arrives(n, r, heap', hand')
  BY <1>4, <1>7 DEF Arrives, Phase
<1>10. Corrected(Me, heap') /\ Fed(n, Me, heap', sparse')
  BY <1>4, <1>7, <1>8 DEF Corrected, Fed, Mine
<1>11. TokensInv'
  BY <1>4, BackpropBiasKeeps
<1>12. K \subseteq Simple /\ Now(call, K) /\ OnlyFlag(Me, sparse')
  BY <1>1, <1>3, <1>4, <1>7 DEF Simple, OnlyFlag
<1>13. QED
  BY <1>2, <1>4, <1>7, <1>8, <1>9, <1>10, <1>11, <1>12, LeafStep

LEMMA BackpropBlockReady == ASSUME ReadyInv, BackpropBlock PROVE ReadyInv'
<1>1. PICK K : K = {"dot_product", "activation", "copy"}
  OBVIOUS
<1>2. PICK n : n = last[2]
  OBVIOUS
<1>3. Now("backprop", K) /\ Phase("backprop") = "backprop" /\ "backprop" \notin Loops \cup Ends
  BY <1>1 DEF BackpropBlock, Phase, Loops, Ends
<1>4. TokensInv /\ Running /\ Me \in Components /\ Kind[Me] \in K /\ call = "backprop"
  BY <1>2, <1>3, CallFacts
<1>5. Passing
  BY <1>3, <1>4, NowFacts
<1>6. /\ "error_input" \in MembersOf(Me) /\ "error_output" \in MembersOf(Me)
      /\ "input" \in MembersOf(Me)
  BY <1>1, <1>4 DEF MembersOf, Members
<1>7. /\ heap' = AssignNew(Assign(heap, Mine("error_input"), hand), {Mine("error_output")},
                           "mem", 0, Null)
      /\ hand' = heap'.at[Mine("error_output")] /\ hand # Null
  BY DEF BackpropBlock, Passes, MakeBlock
<1>8. /\ Room({Mine("error_output")}) /\ Continue(<<>>) /\ UNCHANGED <<script, outcome>>
      /\ sparse' = sparse
  BY DEF BackpropBlock, flags, Passes
<1>9. /\ MadeHere("mem", 0, Null) /\ Only(Me, heap, heap') /\ hand' # Null
      /\ heap'.at[Mine("error_input")] = hand
      /\ \A d \in MembersOf(Me) : d \notin {"error_input", "error_output"} =>
            heap'.at[Mine(d)] = heap.at[Mine(d)]
  BY <1>4, <1>5, <1>6, <1>7, <1>8, KeptAndMade
<1>10. \A r \in Steps : Arrives(n, r, heap', hand')
  BY <1>9, BlockArrives
<1>11. Corrected(Me, heap')
  BY <1>7, <1>9 DEF Corrected, Mine
<1>12. Fed(n, Me, heap, sparse) => Fed(n, Me, heap', sparse')
  BY <1>6, <1>8, <1>9 DEF Fed, Mine
<1>13. TokensInv'
  BY <1>4, BackpropBlockKeeps
<1>14. K \subseteq Simple /\ Now(call, K) /\ OnlyFlag(Me, sparse')
  BY <1>1, <1>3, <1>4, <1>8 DEF Simple, OnlyFlag
<1>15. QED
  BY <1>2, <1>4, <1>8, <1>9, <1>10, <1>11, <1>12, <1>13, <1>14, LeafStep

\* A dot product that returns no gradient has been given the sparse token that
\* the network was called with: nobody before it wants the gradient.
LEMMA BackpropSparseReady == ASSUME ReadyInv, BackpropSparse PROVE ReadyInv'
<1>1. PICK K : K = {"dot_product"}
  OBVIOUS
<1>2. PICK n : n = last[2]
  OBVIOUS
<1>3. PICK s : s = Head(todo)
  OBVIOUS
<1>4. Now("backprop", K) /\ Phase("backprop") = "backprop" /\ "backprop" \notin Loops \cup Ends
  BY <1>1 DEF BackpropSparse, Phase, Loops, Ends
<1>5. /\ TokensInv /\ Running /\ Me \in Components /\ Kind[Me] = "dot_product"
      /\ call = "backprop" /\ s.c = Me /\ s.op = "backprop" /\ Fed(n, Me, heap, sparse)
  BY <1>1, <1>2, <1>3, <1>4, CallFacts
<1>6. Passing /\ Sound(heap)
  BY <1>4, <1>5, NowFacts
<1>7. /\ "error_input" \in MembersOf(Me) /\ "error_output" \in MembersOf(Me)
      /\ "input" \in MembersOf(Me) /\ "error_output" \notin Vectors
  BY <1>5 DEF MembersOf, Members, Vectors
<1>8. PICK g : g = Assign(heap, Mine("error_input"), hand)
  OBVIOUS
<1>9. PICK P : P = {Mine("error_output")}
  OBVIOUS
<1>10. PICK V : V = {Mine("error_input")}
  OBVIOUS
<1>11. PICK j : j = heap'
  OBVIOUS
<1>12. /\ j = Release(g, P) /\ hand' = Null /\ hand # Null /\ sparse[Me]
       /\ Continue(<<>>) /\ UNCHANGED <<script, outcome>> /\ sparse' = sparse
  BY <1>5, <1>8, <1>9, <1>11 DEF BackpropSparse, Passes, BackpropAccepts, IsBlock, flags
<1>13. /\ Changes(heap, g, V) /\ DOMAIN g.at = DOMAIN heap.at /\ g.at[Mine("error_input")] = hand
       /\ V \subseteq Local(heap, Me) /\ V \cap VectorRoots = {}
  BY <1>5, <1>6, <1>7, <1>8, <1>10, KeepsHand
<1>14. P \subseteq Local(heap, Me) /\ P \cap VectorRoots = {} /\ P \subseteq DOMAIN heap.at
  BY <1>5, <1>6, <1>7, <1>9, MineFacts
<1>15. Changes(g, j, P)
  BY <1>12, <1>13, <1>14, ReleaseChanges DEF Changes
<1>16. PICK W : W = V \cup P /\ Changes(heap, j, W)
  BY <1>13, <1>15, ChangesTwice
<1>17. Only(Me, heap, j)
  <2>1. W \subseteq Local(heap, Me) /\ W \cap VectorRoots = {}
    BY <1>13, <1>14, <1>16
  <2>2. PICK me \in Components : me = Me
    BY <1>5
  <2>3. Only(me, heap, j)
    BY <1>5, <1>16, <2>1, <2>2, Elsewhere
  <2>4. QED
    BY <2>2, <2>3
<1>18. /\ Mine("error_input") \in DOMAIN heap.at /\ Mine("error_input").member = "error_input"
       /\ Mine("input") \in DOMAIN heap.at /\ Mine("input").member = "input"
       /\ Mine("error_output").member = "error_output"
  BY <1>5, <1>6, <1>7, MineFacts
<1>19. j.at[Mine("error_input")] = hand /\ j.at[Mine("input")] = heap.at[Mine("input")]
  BY <1>9, <1>10, <1>13, <1>15, <1>18 DEF Changes
<1>20. Corrected(Me, heap') /\ Fed(n, Me, heap', sparse')
  BY <1>5, <1>11, <1>12, <1>19 DEF Corrected, Fed, Mine
<1>21. ~GetsDense(n, Me)
  BY <1>5, <1>12 DEF Fed
<1>22. \A r \in Steps : Phase(r.op) = call /\ Meets(n, Head(todo), r) =>
          Arrives(n, r, heap', hand')
  <2>1. \A r \in Steps : Phase(r.op) = call => r.op # "forward"
    BY <1>5 DEF Phase
  <2>2. QED
    BY <1>3, <1>5, <1>21, <2>1 DEF Meets, Arrives
<1>23. TokensInv'
  BY <1>5, BackpropSparseKeeps
<1>24. K \subseteq Simple /\ Now(call, K) /\ OnlyFlag(Me, sparse') /\ Only(Me, heap, heap')
  BY <1>1, <1>4, <1>5, <1>11, <1>12, <1>17 DEF Simple, OnlyFlag
<1>25. QED
  BY <1>2, <1>5, <1>12, <1>20, <1>22, <1>23, <1>24, LeafStep

\* No gradient reaches a join, nor a copy whose gradient somebody wants.
LEMMA BackpropNullReady == ASSUME ReadyInv, BackpropNull PROVE ReadyInv'
<1>1. PICK J : J = {"copy", "join"}
  OBVIOUS
<1>2. PICK n : n = last[2]
  OBVIOUS
<1>3. PICK s : s = Head(todo)
  OBVIOUS
<1>4. Now("backprop", J) /\ Phase("backprop") = "backprop"
  BY <1>1 DEF BackpropNull, Phase
<1>5. /\ TokensInv /\ Running /\ Me \in Components /\ Kind[Me] \in J /\ call = "backprop"
      /\ n \in Components /\ Me \in Below[n]
      /\ s.c = Me /\ s.op = "backprop" /\ Arrives(n, s, heap, hand)
  BY <1>2, <1>3, <1>4, CallFacts
<1>6. hand = Null /\ hand' = hand
  BY DEF BackpropNull
<1>7. ~GivesDense(n, Me)
  BY <1>5, <1>6 DEF Arrives
<1>8. Kind[Me] = "copy" /\ ~GetsDense(n, Me)
  BY <1>1, <1>5, <1>7, Gives
<1>9. PICK K : K = {"copy"}
  OBVIOUS
<1>10. Sound(heap)
  BY <1>5 DEF TokensInv
<1>11. /\ "error_input" \in MembersOf(Me) /\ "error_output" \in MembersOf(Me)
       /\ "error_input" \notin Vectors /\ "error_output" \notin Vectors
  BY <1>8 DEF MembersOf, Members, Vectors
<1>12. PICK W : W = {Mine("error_input"), Mine("error_output")}
  OBVIOUS
<1>13. PICK j : j = heap'
  OBVIOUS
<1>14. j = Release(heap, W) /\ Continue(<<>>) /\ UNCHANGED <<script, outcome>> /\ sparse' = sparse
  BY <1>12, <1>13 DEF BackpropNull, flags
<1>15. W \subseteq Local(heap, Me) /\ W \cap VectorRoots = {} /\ W \subseteq DOMAIN heap.at
  BY <1>5, <1>10, <1>11, <1>12, MineFacts
<1>16. Changes(heap, j, W)
  BY <1>10, <1>14, <1>15, ReleaseChanges
<1>17. Only(Me, heap, j)
  <2>1. PICK me \in Components : me = Me
    BY <1>5
  <2>2. Only(me, heap, j)
    BY <1>5, <1>15, <1>16, <2>1, Elsewhere
  <2>3. QED
    BY <2>1, <2>2
<1>18. Corrected(Me, heap') /\ Fed(n, Me, heap', sparse')
  BY <1>8 DEF Corrected, Fed
<1>19. \A r \in Steps : Phase(r.op) = call /\ Meets(n, Head(todo), r) =>
          Arrives(n, r, heap', hand')
  <2>1. \A r \in Steps : Phase(r.op) = call => r.op # "forward"
    BY <1>5 DEF Phase
  <2>2. QED
    BY <1>3, <1>5, <1>8, <2>1 DEF Meets, Arrives
<1>20. TokensInv'
  BY <1>5, BackpropNullKeeps
<1>21. K \subseteq Simple /\ Now(call, K) /\ OnlyFlag(Me, sparse') /\ Only(Me, heap, heap')
  BY <1>4, <1>5, <1>8, <1>9, <1>13, <1>14, <1>17 DEF Simple, OnlyFlag, Now
<1>22. QED
  BY <1>2, <1>5, <1>14, <1>18, <1>19, <1>20, <1>21, LeafStep
-----------------------------------------------------------------------------
(***************************************************************************)
(* The stacks, and the class ANNComponent                                  *)
(***************************************************************************)
Through == {"stack", "hyperplane", "base"}

\* The steps op of the children ch take what s takes, and give what it gives.
Relays(n, s, op, ch, steps) ==
    /\ \A k \in DOMAIN steps : steps[k].op = op /\ \E i \in DOMAIN ch : steps[k].c = ch[i]
    /\ \A i \in DOMAIN ch : \E k \in DOMAIN steps : steps[k].c = ch[i]
    /\ Meeting(n, steps)
    /\ steps # <<>> =>
          /\ \A r \in Steps : Meets(n, s, r) => Meets(n, steps[Len(steps)], r)
          /\ Arrives(n, steps[1], heap, hand)
    /\ steps = <<>> =>
          \A r \in Steps : Phase(r.op) = call /\ Meets(n, s, r) => Arrives(n, r, heap, hand)

LEMMA ThroughStep ==
    ASSUME ReadyInv, TokensInv', NEW op \in {"forward", "backprop"}, Now(op, Through),
           UNCHANGED <<heap, flags, hand, script, outcome>>,
           NEW n, n = last[2], NEW s, s = Head(todo), NEW ch, ch = Children[Me],
           NEW steps \in Seq(Steps), Continue(steps), Relays(n, s, op, ch, steps)
    PROVE  ReadyInv'
<1>1. Phase(op) = op /\ op \notin Correcting
  BY DEF Phase, Correcting
<1>2. PICK K : K = Through
  OBVIOUS
<1>3. /\ outcome = "running" /\ todo # <<>> /\ Running /\ Me \in Components /\ Kind[Me] \in K
      /\ s.c = Me /\ s.op = op /\ n \in Components /\ Me \in Below[n] /\ call = op
  BY <1>1, <1>2, CallFacts
<1>4. PICK me \in Components : me = Me
  BY <1>3
<1>5. PICK g : g = heap' /\ g = heap
  OBVIOUS
<1>6. PICK t : t = hand' /\ t = hand
  OBVIOUS
<1>7. PICK w : w = sparse' /\ w = sparse
  BY DEF flags
<1>8. UNCHANGED <<script, outcome>>
  OBVIOUS
<1>9. Only(me, heap, g) /\ OnlyFlag(me, w)
  BY <1>5, <1>7 DEF Only, OnlyFlag, Untouched
<1>10. Kind[me] \notin {"join", "dot_product", "bias"}
  BY <1>2, <1>3, <1>4 DEF Through
<1>11. HasErrors(me, g) /\ Fed(n, me, g, w) /\ Corrected(me, g)
  BY <1>10 DEF HasErrors, Fed, Corrected
<1>12. \A i \in DOMAIN ch : ch[i] \in Below[me]
  BY <1>4, BelowMore, BelowFacts
<1>13. \A k \in DOMAIN steps : steps[k].c \in Below[me] /\ steps[k].op \notin Correcting
  BY <1>1, <1>12 DEF Relays
<1>14. \A k \in DOMAIN steps : Rest(steps[k]) = Below[steps[k].c]
  <2>1. \A k \in DOMAIN steps : steps[k].op \in {"forward", "backprop"}
    BY DEF Relays
  <2>2. QED
    BY <2>1, RestOf
<1>15. \A c \in Rest(s) : c = me \/ \E k \in DOMAIN steps : c \in Rest(steps[k])
  <2>1. Rest(s) = Below[me]
    BY <1>3, <1>4, RestOf
  <2>2. \A c \in Below[me] : c = me \/ \E i \in DOMAIN ch : c \in Below[ch[i]]
    BY <1>4, BelowMore, BelowFacts
  <2>3. QED
    BY <1>14, <2>1, <2>2 DEF Relays
<1>16. /\ steps # <<>> => Arrives(n, steps[1], g, t)
       /\ steps = <<>> =>
             \A r \in Steps : Phase(r.op) = call /\ Meets(n, s, r) => Arrives(n, r, g, t)
  BY <1>5, <1>6 DEF Relays
<1>17. Stepped(n, s, me, g, t, w, steps)
  BY <1>9, <1>11, <1>13, <1>15, <1>16 DEF Stepped, Relays
<1>18. QED
  BY <1>3, <1>4, <1>5, <1>6, <1>7, <1>8, <1>17, CallStep

\* What the children of a stack get and give.
LEMMA LineFacts ==
    ASSUME NEW n \in Components, NEW me \in Below[n], Kind[me] \in Through,
           NEW ch, ch = Children[me]
    PROVE  /\ me \in Components /\ ch \in Seq(Components)
           /\ ch # <<>> => Kind[me] \in Lines
           /\ ch = <<>> => (GivesDense(n, me) <=> GetsDense(n, me))
           /\ ch # <<>> => /\ GivesDense(n, me) <=> GivesDense(n, ch[Len(ch)])
                           /\ GetsDense(n, ch[1]) <=> GetsDense(n, me)
           /\ \A i \in DOMAIN ch : \A j \in DOMAIN ch : j = i + 1 =>
                 (GetsDense(n, ch[j]) <=> GivesDense(n, ch[i]))
<1>1. me \in Components /\ ch \in Seq(Components)
  BY BelowMore
<1>2. ch # <<>> => Kind[me] \in Lines
  BY <1>1, NamesAssumption DEF Through, Lines
<1>3. ch = <<>> => (GivesDense(n, me) <=> GetsDense(n, me))
  BY Gives DEF Through, Lines
<1>4. ch # <<>> => (GivesDense(n, me) <=> GivesDense(n, ch[Len(ch)]))
  BY <1>2, Gives
<1>5. ASSUME ch # <<>>
      PROVE  GetsDense(n, ch[1]) <=> GetsDense(n, me)
  <2>1. 1 \in DOMAIN ch
    BY <1>1, <1>5
  <2>2. PICK x : x = ch[1]
    OBVIOUS
  <2>3. QED
    BY <1>2, <1>5, <2>1, <2>2, ChildGets
<1>6. ASSUME NEW i \in DOMAIN ch, NEW j \in DOMAIN ch, j = i + 1
      PROVE  GetsDense(n, ch[j]) <=> GivesDense(n, ch[i])
  <2>1. j # 1 /\ j - 1 = i /\ ch # <<>>
    BY <1>1, <1>6
  <2>2. PICK x : x = ch[j]
    OBVIOUS
  <2>3. GetsDense(n, x) <=>
              /\ Kind[me] \in Lines
              /\ j = 1 => GetsDense(n, me)
              /\ j # 1 => GivesDense(n, Children[me][j - 1])
    BY <2>2, ChildGets
  <2>4. QED
    BY <1>2, <2>1, <2>2, <2>3
<1>7. QED
  BY <1>1, <1>2, <1>3, <1>4, <1>5, <1>6

LEMMA ForwardThroughReady == ASSUME ReadyInv, ForwardThrough PROVE ReadyInv'
<1>1. PICK n : n = last[2]
  OBVIOUS
<1>2. PICK s : s = Head(todo)
  OBVIOUS
<1>3. PICK op \in {"forward", "backprop"} : op = "forward"
  OBVIOUS
<1>4. PICK K : K = Through
  OBVIOUS
<1>5. Now(op, K) /\ Phase(op) = "forward"
  BY <1>3, <1>4 DEF ForwardThrough, Phase, Through
<1>6. /\ TokensInv /\ Me \in Components /\ Kind[Me] \in K /\ call = "forward"
      /\ n \in Components /\ Me \in Below[n]
      /\ s.c = Me /\ s.op = op /\ Arrives(n, s, heap, hand)
  BY <1>1, <1>2, <1>5, CallFacts
<1>7. PICK ch : ch = Children[Me]
  OBVIOUS
<1>8. /\ ch \in Seq(Components)
      /\ ch = <<>> => (GivesDense(n, Me) <=> GetsDense(n, Me))
      /\ ch # <<>> => /\ GivesDense(n, Me) <=> GivesDense(n, ch[Len(ch)])
                      /\ GetsDense(n, ch[1]) <=> GetsDense(n, Me)
      /\ \A i \in DOMAIN ch : \A j \in DOMAIN ch : j = i + 1 =>
            (GetsDense(n, ch[j]) <=> GivesDense(n, ch[i]))
  <2>1. PICK me \in Below[n] : me = Me
    BY <1>6
  <2>2. QED
    BY <1>4, <1>6, <1>7, <2>1, LineFacts
<1>9. PICK steps : steps = Each(op, ch)
  OBVIOUS
<1>10. /\ steps \in Seq(Steps) /\ DOMAIN steps = DOMAIN ch /\ Len(steps) = Len(ch)
       /\ \A k \in DOMAIN steps : steps[k] = [op |-> op, c |-> ch[k], i |-> 0]
  <2>1. /\ Len(ch) \in Nat /\ DOMAIN ch = 1 .. Len(ch)
        /\ \A k \in 1 .. Len(ch) : [op |-> op, c |-> ch[k], i |-> 0] \in Steps
    BY <1>8 DEF Steps
  <2>2. steps = [k \in 1 .. Len(ch) |-> [op |-> op, c |-> ch[k], i |-> 0]]
    BY <1>8, <1>9 DEF Each
  <2>3. QED
    BY <2>1, <2>2
<1>11. \A k \in DOMAIN steps : steps[k].op = op /\ steps[k].c = ch[k]
  BY <1>10
<1>12. Meeting(n, steps)
  BY <1>3, <1>8, <1>10, <1>11 DEF Meeting, Meets
<1>13. ASSUME steps # <<>>
       PROVE  /\ \A r \in Steps : Meets(n, s, r) => Meets(n, steps[Len(steps)], r)
              /\ Arrives(n, steps[1], heap, hand)
  <2>1. 1 \in DOMAIN steps /\ Len(steps) \in DOMAIN steps /\ ch # <<>>
    BY <1>8, <1>10, <1>13
  <2>2. steps[Len(steps)].op = op /\ steps[Len(steps)].c = ch[Len(ch)]
        /\ steps[1].op = op /\ steps[1].c = ch[1]
    BY <1>10, <1>11, <2>1
  <2>3. \A r \in Steps : Meets(n, s, r) => Meets(n, steps[Len(steps)], r)
    BY <1>3, <1>6, <1>8, <2>1, <2>2 DEF Meets
  <2>4. Arrives(n, steps[1], heap, hand)
    BY <1>3, <1>6, <1>8, <2>1, <2>2 DEF Arrives
  <2>5. QED
    BY <2>3, <2>4
<1>14. ASSUME steps = <<>>, NEW r \in Steps, Phase(r.op) = call, Meets(n, s, r)
       PROVE  Arrives(n, r, heap, hand)
  <2>1. ch = <<>>
    BY <1>8, <1>10, <1>14
  <2>2. r.op # "backprop"
    BY <1>6, <1>14 DEF Phase
  <2>3. QED
    BY <1>3, <1>6, <1>8, <1>14, <2>1, <2>2 DEF Arrives, Meets
<1>15. TokensInv' /\ UNCHANGED <<heap, flags, hand, script, outcome>> /\ Continue(steps)
  BY <1>3, <1>6, <1>7, <1>9, ForwardThroughKeeps DEF ForwardThrough
<1>16. Now(op, Through)
  BY <1>4, <1>5
<1>17. Relays(n, s, op, ch, steps)
  BY <1>10, <1>11, <1>12, <1>13, <1>14 DEF Relays
<1>18. QED
  BY <1>1, <1>2, <1>7, <1>10, <1>15, <1>16, <1>17, ThroughStep

LEMMA BackpropThroughReady == ASSUME ReadyInv, BackpropThrough PROVE ReadyInv'
<1>1. PICK n : n = last[2]
  OBVIOUS
<1>2. PICK s : s = Head(todo)
  OBVIOUS
<1>3. PICK op \in {"forward", "backprop"} : op = "backprop"
  OBVIOUS
<1>4. PICK K : K = Through
  OBVIOUS
<1>5. Now(op, K) /\ Phase(op) = "backprop"
  BY <1>3, <1>4 DEF BackpropThrough, Phase, Through
<1>6. /\ TokensInv /\ Me \in Components /\ Kind[Me] \in K /\ call = "backprop"
      /\ n \in Components /\ Me \in Below[n]
      /\ s.c = Me /\ s.op = op /\ Arrives(n, s, heap, hand)
  BY <1>1, <1>2, <1>5, CallFacts
<1>7. PICK ch : ch = Children[Me]
  OBVIOUS
<1>8. /\ ch \in Seq(Components)
      /\ ch = <<>> => (GivesDense(n, Me) <=> GetsDense(n, Me))
      /\ ch # <<>> => /\ GivesDense(n, Me) <=> GivesDense(n, ch[Len(ch)])
                      /\ GetsDense(n, ch[1]) <=> GetsDense(n, Me)
      /\ \A i \in DOMAIN ch : \A j \in DOMAIN ch : j = i + 1 =>
            (GetsDense(n, ch[j]) <=> GivesDense(n, ch[i]))
  <2>1. PICK me \in Below[n] : me = Me
    BY <1>6
  <2>2. QED
    BY <1>4, <1>6, <1>7, <2>1, LineFacts
<1>9. PICK steps : steps = Each(op, Reverse(ch))
  OBVIOUS
<1>10. /\ steps \in Seq(Steps) /\ DOMAIN steps = 1 .. Len(ch) /\ Len(steps) = Len(ch)
       /\ \A k \in 1 .. Len(ch) : steps[k] = [op |-> op, c |-> ch[(Len(ch) - k) + 1], i |-> 0]
       /\ Len(ch) \in Nat /\ DOMAIN ch = 1 .. Len(ch)
  <2>1. Len(ch) \in Nat /\ DOMAIN ch = 1 .. Len(ch)
    BY <1>8
  <2>2. PICK rev : rev = Reverse(ch)
    OBVIOUS
  <2>3. rev = [k \in 1 .. Len(ch) |-> ch[(Len(ch) - k) + 1]]
    BY <2>2 DEF Reverse
  <2>4. \A k \in 1 .. Len(ch) : (Len(ch) - k) + 1 \in DOMAIN ch
    BY <2>1
  <2>5. \A k \in 1 .. Len(ch) : ch[(Len(ch) - k) + 1] \in Components
    BY <1>8, <2>4
  <2>6. \A k \in 1 .. Len(ch) : [op |-> op, c |-> ch[(Len(ch) - k) + 1], i |-> 0] \in Steps
    BY <2>5 DEF Steps
  <2>7. steps = [k \in 1 .. Len(ch) |-> [op |-> op, c |-> ch[(Len(ch) - k) + 1], i |-> 0]]
    BY <1>9, <2>2, <2>3 DEF Each
  <2>8. QED
    BY <2>1, <2>6, <2>7
<1>11. \A k \in DOMAIN steps : /\ steps[k].op = op /\ steps[k].c = ch[(Len(ch) - k) + 1]
                               /\ (Len(ch) - k) + 1 \in DOMAIN ch
  BY <1>10
<1>12. \A i \in DOMAIN ch : \E k \in DOMAIN steps : steps[k].c = ch[i]
  <2>1. ASSUME NEW i \in DOMAIN ch
        PROVE  \E k \in DOMAIN steps : steps[k].c = ch[i]
    <3>1. (Len(ch) - i) + 1 \in DOMAIN steps /\ (Len(ch) - ((Len(ch) - i) + 1)) + 1 = i
      BY <1>10
    <3>2. steps[(Len(ch) - i) + 1].c = ch[(Len(ch) - ((Len(ch) - i) + 1)) + 1]
      BY <1>11, <3>1
    <3>3. QED
      BY <3>1, <3>2
  <2>2. QED
    BY <2>1
<1>13. Meeting(n, steps)
  <2>1. ASSUME NEW j \in DOMAIN steps, NEW k \in DOMAIN steps, k = j + 1
        PROVE  Meets(n, steps[j], steps[k])
    <3>1. (Len(ch) - j) + 1 = ((Len(ch) - k) + 1) + 1
      BY <1>10, <2>1
    <3>2. PICK a \in DOMAIN ch : a = (Len(ch) - j) + 1
      BY <1>11
    <3>3. PICK b \in DOMAIN ch : b = (Len(ch) - k) + 1
      BY <1>11
    <3>4. GetsDense(n, ch[a]) <=> GivesDense(n, ch[b])
      BY <1>8, <3>1, <3>2, <3>3
    <3>5. /\ steps[j].op = "backprop" /\ steps[j].c = ch[a]
          /\ steps[k].op = "backprop" /\ steps[k].c = ch[b]
      BY <1>3, <1>11, <3>2, <3>3
    <3>6. QED
      BY <3>4, <3>5 DEF Meets
  <2>2. QED
    BY <2>1 DEF Meeting
<1>14. ASSUME steps # <<>>
       PROVE  /\ \A r \in Steps : Meets(n, s, r) => Meets(n, steps[Len(steps)], r)
              /\ Arrives(n, steps[1], heap, hand)
  <2>1. 1 \in DOMAIN steps /\ Len(steps) \in DOMAIN steps /\ ch # <<>>
    BY <1>8, <1>10, <1>14
  <2>2. (Len(ch) - Len(steps)) + 1 = 1 /\ (Len(ch) - 1) + 1 = Len(ch)
    BY <1>10
  <2>3. steps[Len(steps)].op = op /\ steps[Len(steps)].c = ch[1]
        /\ steps[1].op = op /\ steps[1].c = ch[Len(ch)]
    BY <1>11, <2>1, <2>2
  <2>4. \A r \in Steps : Meets(n, s, r) => Meets(n, steps[Len(steps)], r)
    BY <1>3, <1>6, <1>8, <2>1, <2>3 DEF Meets
  <2>5. Arrives(n, steps[1], heap, hand)
    BY <1>3, <1>6, <1>8, <2>1, <2>3 DEF Arrives
  <2>6. QED
    BY <2>4, <2>5
<1>15. ASSUME steps = <<>>, NEW r \in Steps, Phase(r.op) = call, Meets(n, s, r)
       PROVE  Arrives(n, r, heap, hand)
  <2>1. ch = <<>>
    BY <1>8, <1>10, <1>15
  <2>2. r.op # "forward"
    BY <1>6, <1>15 DEF Phase
  <2>3. QED
    BY <1>3, <1>6, <1>8, <1>15, <2>1, <2>2 DEF Arrives, Meets
<1>16. TokensInv' /\ UNCHANGED <<heap, flags, hand, script, outcome>> /\ Continue(steps)
  BY <1>3, <1>6, <1>7, <1>9, BackpropThroughKeeps DEF BackpropThrough
<1>17. Now(op, Through)
  BY <1>4, <1>5
<1>18. \A k \in DOMAIN steps : steps[k].op = op /\ \E i \in DOMAIN ch : steps[k].c = ch[i]
  BY <1>11
<1>19. Relays(n, s, op, ch, steps)
  BY <1>12, <1>13, <1>14, <1>15, <1>18 DEF Relays
<1>20. QED
  BY <1>1, <1>2, <1>7, <1>10, <1>16, <1>17, <1>19, ThroughStep
-----------------------------------------------------------------------------
(***************************************************************************)
(* The joins                                                               *)
(***************************************************************************)
\* The errors for the children of a join are in one of its four vectors.
LEMMA ErrorsKept ==
    ASSUME TokensInv, Running, Me \in Components, Kind[Me] = "join", HasErrors(Me, heap),
           NEW W, \A p \in W : p.member = "entry" => p.of # Here("error_input_vector"),
           W \cap VectorRoots = {}, NEW g, Changes(heap, g, W)
    PROVE  HasErrors(Me, g)
<1>1. PICK f \in Vectors : f = "error_input_vector"
  BY DEF Vectors
<1>2. /\ Mine(f) \in VectorRoots /\ Here(f) = heap.at[Mine(f)]
      /\ MyEntries(f) = {Entry(Here(f), i) : i \in DOMAIN Children[Me]}
      /\ MyEntries(f) \subseteq DOMAIN heap.at
      /\ \A p \in MyEntries(f) : p.member = "entry" /\ p.of = Here(f)
  BY MyVector DEF Running
<1>3. g.at[Mine(f)] = Here(f)
  <2>1. Mine(f) \in DOMAIN heap.at
    BY <1>2, SoundFacts DEF TokensInv
  <2>2. QED
    BY <1>2, <2>1 DEF Changes
<1>4. ASSUME NEW i \in DOMAIN Children[Me]
      PROVE  g.at[Entry(g.at[Mine(f)], i)] # Null
  <2>1. PICK p : p = Entry(Here(f), i)
    OBVIOUS
  <2>2. p \in MyEntries(f)
    BY <1>2, <2>1
  <2>3. p \in DOMAIN heap.at /\ p \notin W
    BY <1>1, <1>2, <2>2
  <2>4. g.at[p] = heap.at[p]
    BY <2>3 DEF Changes
  <2>5. heap.at[p] # Null
    BY <1>1, <1>2, <2>1 DEF HasErrors, Mine
  <2>6. QED
    BY <1>3, <2>1, <2>4, <2>5
<1>5. QED
  BY <1>1, <1>4 DEF HasErrors, Mine

\* A join passes t on and leaves the steps to itself and its children.
Passed(n, s, me, g, t, steps) ==
    /\ \A k \in DOMAIN steps : steps[k].c \in Below[me]
    /\ Meeting(n, steps)
    /\ \A k \in DOMAIN steps :
          steps[k].op \in Correcting => steps[k].c = me /\ HasErrors(me, g)
    /\ steps # <<>> =>
          /\ \A r \in Steps : Meets(n, s, r) => Meets(n, steps[Len(steps)], r)
          /\ Arrives(n, steps[1], g, t)
    /\ steps = <<>> =>
          \A r \in Steps : Phase(r.op) = call /\ Meets(n, s, r) => Arrives(n, r, g, t)
    /\ \A c \in Rest(s) : c = me \/ \E k \in DOMAIN steps : c \in Rest(steps[k])

LEMMA JoinStep ==
    ASSUME ReadyInv, TokensInv', NEW op, NEW K, K = {"join"}, Now(op, K),
           Phase(op) \in {"forward", "backprop"},
           UNCHANGED <<script, outcome>>, sparse' = sparse,
           NEW n, n = last[2], NEW s, s = Head(todo), NEW me \in Components, me = Me,
           NEW W, W \subseteq Local(heap, me), W \cap VectorRoots = {},
           NEW g, g = heap', Changes(heap, g, W), HasErrors(me, heap) => HasErrors(me, g),
           NEW t, t = hand', NEW steps \in Seq(Steps), Continue(steps),
           Passed(n, s, me, g, t, steps)
    PROVE  ReadyInv'
<1>1. /\ outcome = "running" /\ todo # <<>> /\ Running /\ Kind[me] \in K /\ TokensInv
  BY CallFacts
<1>2. PICK w : w = sparse' /\ w = sparse
  OBVIOUS
<1>3. Only(me, heap, g) /\ OnlyFlag(me, w)
  BY <1>1, <1>2, Elsewhere DEF OnlyFlag
<1>4. Fed(n, me, g, w) /\ Corrected(me, g)
  BY <1>1 DEF Fed, Corrected
<1>5. Stepped(n, s, me, g, t, w, steps)
  BY <1>3, <1>4 DEF Stepped, Passed
<1>6. QED
  BY <1>1, <1>2, <1>5, CallStep

\* What comes next is a step of the join itself.
LEMMA NextOfJoin ==
    ASSUME NEW n, NEW s \in Steps, NEW me \in Components, me = s.c, NEW g, NEW t,
           NEW one \in Steps, one.op \in Loops \cup Ends, one.c = me,
           one.op \in Correcting => HasErrors(me, g),
           \A c \in Rest(s) : c = me \/ c \in Rest(one),
           NEW steps, steps = <<one>>
    PROVE  steps \in Seq(Steps) /\ Passed(n, s, me, g, t, steps)
<1>1. /\ steps \in Seq(Steps) /\ DOMAIN steps = {1} /\ Len(steps) = 1 /\ steps[1] = one
      /\ steps # <<>>
  OBVIOUS
<1>2. one.op \notin {"forward", "backprop"}
  BY DEF Loops, Ends
<1>3. Meeting(n, steps)
  BY <1>1 DEF Meeting
<1>4. \A r \in Steps : Meets(n, one, r)
  BY <1>2 DEF Meets
<1>5. Arrives(n, one, g, t)
  BY <1>2 DEF Arrives
<1>6. me \in Below[me]
  BY BelowFacts
<1>7. QED
  BY <1>1, <1>3, <1>4, <1>5, <1>6 DEF Passed

\* A join that starts has its children before it.
LEMMA JoinStartsReady ==
    ASSUME ReadyInv, TokensInv', NEW op \in {"forward", "backprop"}, NEW K, K = {"join"},
           Now(op, K), UNCHANGED <<script, outcome>>, sparse' = sparse,
           NEW e \in {"input", "error_input"}, NEW f \in Vectors, NEW loop \in Loops,
           NEW h, h = Assign(heap, Mine(e), hand),
           NEW P, P = MyEntries(f), NEW g, g = heap', Changes(h, g, P),
           IF op = "forward" THEN loop = "forward_child" /\ f = "input_vector"
                             ELSE loop = "backprop_child" /\ HasErrors(Me, g),
           Continue(Do(loop, Me, 1))
    PROVE  ReadyInv'
<1>1. PICK n : n = last[2]
  OBVIOUS
<1>2. PICK s : s = Head(todo)
  OBVIOUS
<1>3. Phase(op) = op /\ op \notin Loops \cup Ends
  BY DEF Phase, Loops, Ends
<1>4. /\ TokensInv /\ Running /\ Me \in Components /\ Kind[Me] = "join" /\ call = op
      /\ s \in Steps /\ s.c = Me /\ s.op = op
  BY <1>1, <1>2, <1>3, CallFacts
<1>5. PICK me \in Components : me = Me
  BY <1>4
<1>6. Passing
  BY <1>3, <1>4, NowFacts
<1>7. e \in MembersOf(Me)
  BY <1>4, Places DEF Members
<1>8. PICK V : V = {Mine(e)}
  OBVIOUS
<1>9. /\ Changes(heap, h, V) /\ V \subseteq Local(heap, Me) /\ V \cap VectorRoots = {}
      /\ Mine(e).member = e
  <2>1. PICK d \in MembersOf(Me) : d = e /\ d \in {"input", "error_input"}
    BY <1>7
  <2>2. QED
    BY <1>4, <1>6, <1>8, <2>1, KeepsHand
<1>10. /\ P \subseteq Local(heap, Me) /\ P \cap VectorRoots = {}
       /\ \A p \in P : p.of = Here(f)
       /\ \A d \in Vectors : d # f => Here(d) # Here(f)
  BY <1>4, MyVector DEF Running
<1>11. PICK W : W = V \cup P /\ Changes(heap, g, W)
  BY <1>9, ChangesTwice
<1>12. W \subseteq Local(heap, me) /\ W \cap VectorRoots = {}
  BY <1>5, <1>9, <1>10, <1>11
<1>13. HasErrors(me, heap) => HasErrors(me, g)
  <2>1. CASE op = "backprop"
    BY <1>5, <2>1
  <2>2. CASE op = "forward" /\ HasErrors(Me, heap)
    <3>1. "error_input_vector" \in Vectors /\ f # "error_input_vector" /\ e # "entry"
      BY <2>2 DEF Vectors, Members
    <3>2. \A p \in W : p.member = "entry" => p.of # Here("error_input_vector")
      BY <1>8, <1>9, <1>10, <1>11, <3>1
    <3>3. HasErrors(Me, g)
      BY <1>4, <1>5, <1>11, <1>12, <2>2, <3>2, ErrorsKept
    <3>4. QED
      BY <1>5, <3>3
  <2>3. QED
    BY <1>5, <2>1, <2>2
<1>14. PICK t : t = hand'
  OBVIOUS
<1>15. PICK one : one = [op |-> loop, c |-> me, i |-> 1]
  OBVIOUS
<1>16. one \in Steps /\ one.op = loop /\ one.c = me /\ one.i = 1
  BY <1>15 DEF Steps
<1>17. \A c \in Rest(s) : c = me \/ c \in Rest(one)
  <2>1. Rest(s) = Below[me]
    BY <1>4, <1>5, RestOf
  <2>2. Rest(one) = UNION {Below[Children[me][i]] : i \in {j \in DOMAIN Children[me] : 1 <= j}}
    BY <1>16, RestOf
  <2>3. \A i \in DOMAIN Children[me] : 1 <= i
    <3>1. Children[me] \in Seq(Components)
      BY TreeAssumption
    <3>2. QED
      BY <3>1
  <2>4. \A c \in Below[me] : c = me \/ \E i \in DOMAIN Children[me] : c \in Below[Children[me][i]]
    BY BelowMore, BelowFacts
  <2>5. QED
    BY <2>1, <2>2, <2>3, <2>4
<1>18. one.op \in Correcting => HasErrors(me, g)
  BY <1>5, <1>16 DEF Correcting
<1>19. PICK steps : steps = <<one>>
  OBVIOUS
<1>20. steps \in Seq(Steps) /\ Passed(n, s, me, g, t, steps)
  BY <1>4, <1>5, <1>16, <1>17, <1>18, <1>19, NextOfJoin
<1>21. Continue(steps)
  BY <1>5, <1>15, <1>19 DEF Do
<1>22. QED
  BY <1>1, <1>2, <1>3, <1>5, <1>11, <1>12, <1>13, <1>14, <1>20, <1>21, JoinStep

LEMMA ForwardJoinReady == ASSUME ReadyInv, ForwardJoin PROVE ReadyInv'
<1>1. TokensInv
  BY DEF ReadyInv
<1>2. PICK K : K = {"join"}
  OBVIOUS
<1>3. PICK op \in {"forward", "backprop"} : op = "forward"
  OBVIOUS
<1>4. PICK e \in {"input", "error_input"} : e = "input"
  OBVIOUS
<1>5. PICK f \in Vectors : f = "input_vector"
  BY DEF Vectors
<1>6. PICK loop \in Loops : loop = "forward_child"
  BY DEF Loops
<1>7. PICK h : h = Assign(heap, Mine(e), hand)
  OBVIOUS
<1>8. PICK P : P = MyEntries(f)
  OBVIOUS
<1>9. PICK g : g = heap'
  OBVIOUS
<1>10. Changes(h, g, P)
  BY <1>1, <1>4, <1>5, <1>7, <1>8, <1>9, ForwardJoinFills
<1>11. TokensInv'
  BY <1>1, ForwardJoinKeeps
<1>12. /\ Now(op, K) /\ UNCHANGED <<script, outcome>> /\ sparse' = sparse
       /\ Continue(Do(loop, Me, 1))
  BY <1>2, <1>3, <1>6 DEF ForwardJoin
<1>13. QED
  BY <1>2, <1>3, <1>5, <1>6, <1>7, <1>8, <1>9, <1>10, <1>11, <1>12, JoinStartsReady

LEMMA BackpropJoinReady == ASSUME ReadyInv, BackpropJoin PROVE ReadyInv'
<1>1. TokensInv
  BY DEF ReadyInv
<1>2. PICK K : K = {"join"}
  OBVIOUS
<1>3. PICK op \in {"forward", "backprop"} : op = "backprop"
  OBVIOUS
<1>4. PICK e \in {"input", "error_input"} : e = "error_input"
  OBVIOUS
<1>5. PICK f \in Vectors : f = "error_input_vector"
  BY DEF Vectors
<1>6. PICK loop \in Loops : loop = "backprop_child"
  BY DEF Loops
<1>7. PICK h : h = Assign(heap, Mine(e), hand)
  OBVIOUS
<1>8. PICK P : P = MyEntries(f)
  OBVIOUS
<1>9. PICK g : g = heap'
  OBVIOUS
<1>10. /\ Now(op, K) /\ UNCHANGED <<script, outcome>> /\ sparse' = sparse
       /\ Continue(Do(loop, Me, 1)) /\ Room(P) /\ g = AssignNew(h, P, "mem", 0, Null)
  BY <1>2, <1>3, <1>4, <1>5, <1>6, <1>7, <1>8, <1>9 DEF BackpropJoin, flags
<1>11. /\ Me \in Components /\ Kind[Me] = "join" /\ call = "backprop" /\ Passing
  <2>1. Now(op, K) /\ Phase(op) = "backprop" /\ op \notin Loops \cup Ends
    BY <1>3, <1>10 DEF Phase, Loops, Ends
  <2>2. QED
    BY <1>1, <1>2, <2>1, NowFacts
<1>12. /\ Changes(h, g, P) /\ Available(h, P) /\ Sound(h)
       /\ P \subseteq DOMAIN h.at /\ P \cap VectorRoots = {}
  BY <1>1, <1>7, <1>8, <1>10, <1>11, JoinMakes
<1>13. HoldNew(g, P, "mem", 0, Null)
  <2>1. P \in SUBSET DOMAIN h.at /\ KeptBeside(h, Null, P)
    BY <1>12 DEF KeptBeside
  <2>2. QED
    BY <1>10, <1>12, <2>1, AssignNewMakes
<1>14. HasErrors(Me, g)
  <2>1. /\ Mine(f) \in VectorRoots /\ Here(f) = heap.at[Mine(f)] /\ Mine(f).member = f
        /\ P = {Entry(Here(f), i) : i \in DOMAIN Children[Me]} /\ P \cap Roots = {}
    BY <1>1, <1>8, <1>11, MyVector
  <2>2. Mine(e) \in Roots /\ Mine(e).member = e /\ Mine(e) # Mine(f)
        /\ Mine(f) \in DOMAIN heap.at /\ Mine(f) \in Roots
    <3>1. PICK d \in MembersOf(Me) : d = e /\ d \in {"input", "error_input"}
      BY <1>11, Places DEF Members
    <3>2. Mine(d) \in Roots /\ Mine(d).member = d /\ Sound(heap)
      BY <1>1, <1>11, <3>1, MineFacts DEF TokensInv
    <3>3. Mine(f) \in DOMAIN heap.at /\ Mine(f) \in Roots
      BY <2>1, <3>2, SoundFacts DEF VectorRoots
    <3>4. e # f
      BY <1>4, <1>5
    <3>5. QED
      BY <2>1, <3>1, <3>2, <3>3, <3>4
  <2>3. h.at[Mine(f)] = heap.at[Mine(f)] /\ Mine(f) \in DOMAIN h.at
    <3>1. PICK V : V = {Mine(e)}
      OBVIOUS
    <3>2. PICK d \in MembersOf(Me) : d = e /\ d \in {"input", "error_input"}
      BY <1>11, Places DEF Members
    <3>3. Changes(heap, h, V)
      BY <1>1, <1>7, <1>11, <3>1, <3>2, KeepsHand
    <3>4. QED
      BY <2>2, <3>1, <3>3 DEF Changes
  <2>4. g.at[Mine(f)] = Here(f)
    BY <1>12, <2>1, <2>2, <2>3 DEF Changes
  <2>5. \A i \in DOMAIN Children[Me] : g.at[Entry(Here(f), i)] # Null
    BY <1>13, <2>1 DEF HoldNew
  <2>6. QED
    BY <1>5, <2>4, <2>5 DEF HasErrors, Mine
<1>15. TokensInv'
  BY <1>1, BackpropJoinKeeps
<1>16. QED
  BY <1>2, <1>3, <1>5, <1>6, <1>7, <1>8, <1>9, <1>10, <1>12, <1>14, <1>15, JoinStartsReady

\* A join asks its next child.
LEMMA CallChildReady ==
    ASSUME ReadyInv, NEW loop, NEW op, NEW from, NEW to, NEW keep,
           \/ /\ loop = "forward_child" /\ op = "forward" /\ keep = "forwarded"
              /\ from = "input_vector" /\ to = "output_vector"
           \/ /\ loop = "backprop_child" /\ op = "backprop" /\ keep = "backpropped"
              /\ from = "error_input_vector" /\ to = "error_output_vector",
           CallChild(loop, op, from, to, keep)
    PROVE  ReadyInv'
<1>1. PICK n : n = last[2]
  OBVIOUS
<1>2. PICK s : s = Head(todo)
  OBVIOUS
<1>3. PICK K : K = {"join"}
  OBVIOUS
<1>4. Now(loop, K) /\ Phase(loop) \in {"forward", "backprop"} /\ Phase(loop) = op /\ loop \in Loops
  BY <1>3 DEF CallChild, Phase, Loops
<1>5. /\ TokensInv /\ Running /\ Me \in Components /\ Kind[Me] = "join" /\ call = op
      /\ n \in Components /\ Me \in Below[n] /\ s \in Steps /\ s.c = Me /\ s.op = loop
      /\ loop \in Correcting => HasErrors(Me, heap)
  BY <1>1, <1>2, <1>3, <1>4, CallFacts
<1>6. I \in DOMAIN Children[Me] /\ I \in Nat /\ s.i = I
  BY <1>2, <1>4, <1>5, NowFacts DEF I
<1>7. PICK me \in Components : me = Me
  BY <1>5
<1>8. /\ op \in {"forward", "backprop"} /\ keep \in Keeps /\ from \in Vectors /\ to \in Vectors
      /\ "error_input_vector" \in Vectors /\ to # "error_input_vector"
      /\ loop \in Correcting <=> op = "backprop"
      /\ keep \in Correcting <=> op = "backprop"
  BY DEF Keeps, Vectors, Correcting
<1>9. PICK W : W = {MyEntry(to)}
  OBVIOUS
<1>10. /\ MyEntry(to) \in MyEntries(to) /\ W \subseteq Local(heap, me)
       /\ W \cap VectorRoots = {} /\ W \subseteq DOMAIN heap.at
       /\ \A p \in W : p.of # Here("error_input_vector")
  <2>1. /\ MyEntries(to) = {Entry(Here(to), i) : i \in DOMAIN Children[Me]}
        /\ MyEntries(to) \subseteq DOMAIN heap.at /\ MyEntries(to) \subseteq Local(heap, Me)
        /\ MyEntries(to) \cap VectorRoots = {}
        /\ \A p \in MyEntries(to) : p.of = Here(to)
        /\ Here("error_input_vector") # Here(to)
    BY <1>5, <1>8, MyVector
  <2>2. MyEntry(to) \in MyEntries(to)
    BY <1>6, <2>1 DEF MyEntry
  <2>3. QED
    BY <1>7, <1>9, <2>1, <2>2
<1>11. PICK g : g = heap'
  OBVIOUS
<1>12. PICK t : t = hand'
  OBVIOUS
<1>13. /\ g = Release(heap, W) /\ t = heap.at[MyEntry(from)] /\ UNCHANGED <<script, outcome>>
       /\ Continue(Do(op, Children[Me][I], 0) \o Do(keep, Me, I)) /\ sparse' = sparse
  BY <1>9, <1>11, <1>12 DEF CallChild, Passes, flags
<1>14. Changes(heap, g, W)
  BY <1>5, <1>10, <1>13, ReleaseChanges DEF TokensInv
<1>15. HasErrors(me, heap) => HasErrors(me, g)
  BY <1>5, <1>7, <1>10, <1>14, ErrorsKept
<1>16. PICK x \in Components : x = Children[me][I] /\ x \in Below[me] /\ me \in Below[n]
  BY <1>5, <1>6, <1>7, BelowMore, BelowFacts
<1>17. PICK one \in Steps : one = [op |-> op, c |-> x, i |-> 0]
  BY <1>8 DEF Steps
<1>18. PICK two \in Steps : two = [op |-> keep, c |-> me, i |-> I]
  BY <1>6, <1>8 DEF Steps
<1>19. /\ one.op = op /\ one.c = x /\ two.op = keep /\ two.c = me /\ two.i = I
  BY <1>17, <1>18
<1>20. PICK steps : steps = Two(one, two) /\ Continue(steps)
  BY <1>7, <1>13, <1>16, <1>17, <1>18 DEF Do, Two
<1>21. /\ steps \in Seq(Steps) /\ DOMAIN steps = {1, 2} /\ steps[1] = one /\ steps[2] = two
       /\ steps # <<>>
  BY <1>20, TwoFacts
<1>22. Len(steps) = 2
  BY <1>21
<1>23. Arrives(n, one, g, t)
  <2>1. CASE op = "forward"
    <3>1. Kind[me] \notin Lines
      BY <1>5, <1>7 DEF Lines
    <3>2. ~GetsDense(n, x)
      BY <1>5, <1>6, <1>7, <1>16, <3>1, ChildGets
    <3>3. QED
      BY <1>19, <2>1, <3>2 DEF Arrives
  <2>2. CASE op = "backprop"
    <3>1. HasErrors(Me, heap)
      BY <1>5, <1>8, <2>2
    <3>2. from = "error_input_vector"
      BY <2>2
    <3>3. MyEntry(from) = Entry(heap.at[Member(Me, "error_input_vector")], I)
      BY <3>2 DEF MyEntry, Here, Me
    <3>4. t # Null
      BY <1>5, <1>6, <1>13, <3>1, <3>3 DEF HasErrors
    <3>5. QED
      BY <1>19, <2>2, <3>4 DEF Arrives
  <2>3. QED
    BY <1>8, <2>1, <2>2
<1>24. Meeting(n, steps)
  <2>1. one.op # two.op
    BY <1>8, <1>19 DEF Keeps
  <2>2. Meets(n, one, two)
    BY <2>1 DEF Meets
  <2>3. \A j, k \in {1, 2} : k = j + 1 => j = 1 /\ k = 2
    OBVIOUS
  <2>4. QED
    BY <1>21, <2>2, <2>3 DEF Meeting
<1>25. \A r \in Steps : Meets(n, two, r)
  <2>1. two.op \notin {"forward", "backprop"}
    BY <1>8, <1>19 DEF Keeps
  <2>2. QED
    BY <2>1 DEF Meets
<1>26. \A c \in Rest(s) : c \in Rest(one) \/ c \in Rest(two)
  <2>1. Rest(s) = UNION {Below[Children[me][i]] : i \in {j \in DOMAIN Children[me] : I <= j}}
    BY <1>4, <1>5, <1>6, <1>7, RestOf
  <2>2. Rest(one) = Below[Children[me][I]]
    BY <1>8, <1>16, <1>19, RestOf
  <2>3. Rest(two) = UNION {Below[Children[me][i]] : i \in {j \in DOMAIN Children[me] : I < j}}
    BY <1>8, <1>19, RestOf
  <2>4. \A j \in DOMAIN Children[me] : I <= j => j = I \/ I < j
    <3>1. Children[me] \in Seq(Components)
      BY TreeAssumption
    <3>2. QED
      BY <1>6, <3>1
  <2>5. QED
    BY <2>1, <2>2, <2>3, <2>4
<1>27. two.op \in Correcting => HasErrors(me, g)
  BY <1>5, <1>7, <1>8, <1>15, <1>19
<1>28. one.op \notin Correcting
  BY <1>8, <1>19 DEF Correcting
<1>29. me \in Below[me]
  BY BelowFacts
<1>30. Passed(n, s, me, g, t, steps)
  BY <1>16, <1>19, <1>21, <1>22, <1>23, <1>24, <1>25, <1>26, <1>27, <1>28, <1>29 DEF Passed
<1>31. TokensInv'
  BY <1>5, CallChildKeeps
<1>32. QED
  BY <1>1, <1>2, <1>3, <1>4, <1>7, <1>10, <1>11, <1>12, <1>13, <1>14, <1>15, <1>20, <1>21,
     <1>30, <1>31, JoinStep

\* A join keeps what its child has returned, and goes on.
LEMMA KeepResultReady ==
    ASSUME ReadyInv, NEW keep, NEW to, NEW loop, NEW end,
           \/ /\ keep = "forwarded" /\ to = "output_vector"
              /\ loop = "forward_child" /\ end = "end_forward"
           \/ /\ keep = "backpropped" /\ to = "error_output_vector"
              /\ loop = "backprop_child" /\ end = "end_backprop",
           KeepResult(keep, to, loop, end)
    PROVE  ReadyInv'
<1>1. PICK n : n = last[2]
  OBVIOUS
<1>2. PICK s : s = Head(todo)
  OBVIOUS
<1>3. PICK K : K = {"join"}
  OBVIOUS
<1>4. Now(keep, K) /\ Phase(keep) \in {"forward", "backprop"} /\ keep \in Keeps
  BY <1>3 DEF KeepResult, Phase, Keeps
<1>5. /\ TokensInv /\ Running /\ Me \in Components /\ Kind[Me] = "join"
      /\ s \in Steps /\ s.c = Me /\ s.op = keep
      /\ keep \in Correcting => HasErrors(Me, heap)
  BY <1>1, <1>2, <1>3, <1>4, CallFacts
<1>6. I \in DOMAIN Children[Me] /\ I \in Nat /\ s.i = I
  BY <1>2, <1>4, <1>5, NowFacts DEF I
<1>7. PICK me \in Components : me = Me
  BY <1>5
<1>8. /\ loop \in Loops /\ end \in Ends /\ to \in Vectors
      /\ "error_input_vector" \in Vectors /\ to # "error_input_vector"
      /\ loop \in Correcting <=> keep \in Correcting
      /\ end \notin Correcting
  BY DEF Loops, Ends, Vectors, Correcting
<1>9. PICK W : W = {MyEntry(to)}
  OBVIOUS
<1>10. /\ MyEntry(to) \in DOMAIN heap.at /\ W \subseteq Local(heap, me)
       /\ W \cap VectorRoots = {}
       /\ \A p \in W : p.of # Here("error_input_vector")
  <2>1. /\ MyEntries(to) = {Entry(Here(to), i) : i \in DOMAIN Children[Me]}
        /\ MyEntries(to) \subseteq DOMAIN heap.at /\ MyEntries(to) \subseteq Local(heap, Me)
        /\ MyEntries(to) \cap VectorRoots = {}
        /\ \A p \in MyEntries(to) : p.of = Here(to)
        /\ Here("error_input_vector") # Here(to)
    BY <1>5, <1>8, MyVector DEF Running
  <2>2. MyEntry(to) \in MyEntries(to)
    BY <1>6, <2>1 DEF MyEntry
  <2>3. QED
    BY <1>7, <1>9, <2>1, <2>2
<1>11. PICK g : g = heap'
  OBVIOUS
<1>12. PICK t : t = hand'
  OBVIOUS
<1>13. PICK op : op = IF I < Len(Children[me]) THEN loop ELSE end
  OBVIOUS
<1>14. PICK i \in Nat : i = IF I < Len(Children[me]) THEN I + 1 ELSE 0
  BY <1>6
<1>15. /\ g = Bind(heap, [p \in W |-> hand]) /\ UNCHANGED <<script, outcome>>
       /\ Continue(Do(op, me, i)) /\ sparse' = sparse
  BY <1>7, <1>9, <1>11, <1>13, <1>14 DEF KeepResult, flags
<1>16. TokensInv'
  BY <1>5, KeepResultKeeps
<1>17. Changes(heap, g, W)
  <2>1. Sound(g)
    BY <1>11, <1>16 DEF TokensInv
  <2>2. PICK v : v = [p \in W |-> hand]
    OBVIOUS
  <2>3. heap = [at |-> heap.at, type |-> heap.type, refs |-> heap.refs, dying |-> heap.dying]
    BY <1>5, SoundFacts DEF TokensInv, IsHeap
  <2>4. g.at = Updated(heap.at, v)
    BY <1>15, <2>2, <2>3 DEF Bind
  <2>5. QED
    BY <2>1, <2>2, <2>4 DEF Updated, Changes
<1>18. HasErrors(me, heap) => HasErrors(me, g)
  BY <1>5, <1>7, <1>10, <1>17, ErrorsKept
<1>19. PICK one : one = [op |-> op, c |-> me, i |-> i]
  OBVIOUS
<1>20. one \in Steps /\ one.op = op /\ one.c = me /\ one.i = i /\ op \in Loops \cup Ends
  BY <1>8, <1>13, <1>14, <1>19 DEF Steps
<1>21. \A c \in Rest(s) : c = me \/ c \in Rest(one)
  <2>1. Rest(s) = UNION {Below[Children[me][k]] : k \in {j \in DOMAIN Children[me] : I < j}}
    BY <1>4, <1>5, <1>6, <1>7, RestOf
  <2>2. Children[me] \in Seq(Components) /\ DOMAIN Children[me] = 1 .. Len(Children[me])
        /\ Len(Children[me]) \in Nat
    BY TreeAssumption
  <2>3. CASE I < Len(Children[me])
    <3>1. op = loop /\ i = I + 1
      BY <1>13, <1>14, <2>3
    <3>2. Rest(one) = UNION {Below[Children[me][k]] : k \in {j \in DOMAIN Children[me] : i <= j}}
      BY <1>8, <1>20, <3>1, RestOf
    <3>3. \A j \in DOMAIN Children[me] : I < j => i <= j
      BY <1>6, <2>2, <3>1
    <3>4. QED
      BY <2>1, <3>2, <3>3
  <2>4. CASE ~(I < Len(Children[me]))
    <3>1. \A j \in DOMAIN Children[me] : ~(I < j)
      BY <1>6, <2>2, <2>4
    <3>2. QED
      BY <2>1, <3>1
  <2>5. QED
    BY <2>3, <2>4
<1>22. one.op \in Correcting => HasErrors(me, g)
  BY <1>5, <1>7, <1>8, <1>13, <1>18, <1>20
<1>23. PICK steps : steps = <<one>>
  OBVIOUS
<1>24. steps \in Seq(Steps) /\ Passed(n, s, me, g, t, steps)
  BY <1>5, <1>7, <1>20, <1>21, <1>22, <1>23, NextOfJoin
<1>25. Continue(steps)
  BY <1>15, <1>19, <1>23 DEF Do
<1>26. QED
  BY <1>1, <1>2, <1>3, <1>4, <1>7, <1>10, <1>11, <1>12, <1>15, <1>16, <1>17, <1>18,
     <1>24, <1>25, JoinStep

\* A join that ends has no child left, and returns a token.
LEMMA JoinEndsReady ==
    ASSUME ReadyInv, TokensInv', NEW op \in Ends, NEW K, K = {"join"}, Now(op, K),
           UNCHANGED <<script, outcome>>, sparse' = sparse,
           NEW g, g = heap', Only(Me, heap, g), HasErrors(Me, heap) => HasErrors(Me, g),
           NEW t, t = hand', Continue(<<>>),
           NEW n, n = last[2], \A r \in Steps : Phase(r.op) = call => Arrives(n, r, g, t)
    PROVE  ReadyInv'
<1>1. PICK s : s = Head(todo)
  OBVIOUS
<1>2. Phase(op) \in {"forward", "backprop"}
  BY DEF Phase, Ends
<1>3. /\ outcome = "running" /\ todo # <<>> /\ TokensInv /\ Running /\ Me \in Components
      /\ Kind[Me] \in K /\ s.op = op
  BY <1>1, <1>2, CallFacts
<1>4. PICK me \in Components : me = Me
  BY <1>3
<1>5. PICK w : w = sparse' /\ w = sparse
  OBVIOUS
<1>6. PICK steps \in Seq(Steps) : steps = <<>>
  <2>1. <<>> \in Seq(Steps)
    OBVIOUS
  <2>2. QED
    BY <2>1
<1>7. DOMAIN steps = {} /\ Continue(steps) /\ Meeting(n, steps)
  <2>1. DOMAIN steps = {}
    BY <1>6
  <2>2. QED
    BY <1>6, <2>1 DEF Meeting
<1>8. Rest(s) = {}
  BY <1>3, RestOf
<1>9. Fed(n, me, g, w) /\ Corrected(me, g)
  BY <1>3, <1>4 DEF Fed, Corrected
<1>10. Only(me, heap, g) /\ OnlyFlag(me, w) /\ (HasErrors(me, heap) => HasErrors(me, g))
  BY <1>4, <1>5 DEF OnlyFlag
<1>11. Stepped(n, s, me, g, t, w, steps)
  BY <1>6, <1>7, <1>8, <1>9, <1>10 DEF Stepped
<1>12. QED
  BY <1>1, <1>3, <1>4, <1>5, <1>6, <1>7, <1>11, CallStep

\* It returns a block that it makes.
LEMMA ConcatReady ==
    ASSUME ReadyInv, TokensInv', NEW op \in Ends, NEW K, K = {"join"}, Now(op, K),
           NEW f \in {"output", "error_output"}, Concat(f), Continue(<<>>), UNCHANGED flags
    PROVE  ReadyInv'
<1>1. PICK n : n = last[2]
  OBVIOUS
<1>2. Phase(op) \in {"forward", "backprop"}
  BY DEF Phase, Ends
<1>3. /\ TokensInv /\ Running /\ Me \in Components /\ Kind[Me] = "join" /\ call = Phase(op)
  BY <1>1, <1>2, CallFacts
<1>4. PICK h \in MembersOf(Me) : h = f /\ h \in Members
  BY <1>3, Places DEF Members
<1>5. PICK g : g = heap
  OBVIOUS
<1>6. PICK V : V = {}
  OBVIOUS
<1>7. PICK P : P = {Mine(h)}
  OBVIOUS
<1>8. PICK j : j = heap'
  OBVIOUS
<1>9. /\ j = AssignNew(g, P, "mem", 0, Null) /\ hand' = j.at[Mine(h)] /\ Free(g, Mine(h)) # {}
      /\ UNCHANGED <<script, outcome>> /\ sparse' = sparse
  BY <1>4, <1>5, <1>7, <1>8 DEF Concat, Passes, MakeBlock, Room, flags
<1>10. /\ MadeHere("mem", 0, Null) /\ Only(Me, heap, j) /\ hand' # Null
       /\ Changes(heap, j, V \cup P)
  <2>1. Changes(heap, g, V) /\ V \subseteq Local(heap, Me) /\ V \cap VectorRoots = {}
    BY <1>3, <1>5, <1>6 DEF Changes, TokensInv
  <2>2. h \notin Vectors /\ KeptBeside(g, Null, P)
    BY <1>4 DEF Members, Vectors, KeptBeside
  <2>3. MadeHere("mem", 0, Null) /\ Only(Me, heap, j) /\ Extends(g, j, P) /\ hand' # Null
    BY <1>3, <1>7, <1>8, <1>9, <2>1, <2>2, MakesFacts
  <2>4. Changes(heap, j, V \cup P)
    BY <1>3, <1>7, <1>8, <1>9, <2>1, <2>2, MakesChanges
  <2>5. QED
    BY <2>3, <2>4
<1>11. PICK t : t = hand'
  OBVIOUS
<1>12. \A r \in Steps : Arrives(n, r, j, t)
  BY <1>8, <1>10, <1>11, BlockArrives
<1>13. HasErrors(Me, heap) => HasErrors(Me, j)
  <2>1. Mine(h).member = h /\ Mine(h) \notin VectorRoots
    BY <1>3, <1>4, MineFacts DEF TokensInv, Members, Vectors
  <2>2. PICK W : W = V \cup P
    OBVIOUS
  <2>3. W \cap VectorRoots = {} /\ \A p \in W : p.member # "entry"
    BY <1>4, <1>6, <1>7, <2>1, <2>2 DEF Members
  <2>4. QED
    BY <1>3, <1>10, <2>2, <2>3, ErrorsKept
<1>14. QED
  BY <1>1, <1>8, <1>9, <1>10, <1>11, <1>12, <1>13, JoinEndsReady

LEMMA EndForwardJoinReady == ASSUME ReadyInv, EndForwardJoin PROVE ReadyInv'
<1>1. PICK K : K = {"join"}
  OBVIOUS
<1>2. PICK op \in Ends : op = "end_forward"
  BY DEF Ends
<1>3. /\ Now(op, K) /\ Concat("output") /\ Continue(<<>>) /\ UNCHANGED flags
  BY <1>1, <1>2 DEF EndForwardJoin
<1>4. TokensInv'
  BY EndForwardJoinKeeps DEF ReadyInv
<1>5. QED
  BY <1>1, <1>3, <1>4, ConcatReady

LEMMA EndBackpropJoinReady == ASSUME ReadyInv, EndBackpropJoin PROVE ReadyInv'
<1>1. PICK K : K = {"join"}
  OBVIOUS
<1>2. PICK op \in Ends : op = "end_backprop"
  BY DEF Ends
<1>3. /\ Now(op, K) /\ Concat("error_output") /\ Continue(<<>>) /\ UNCHANGED flags
  BY <1>1, <1>2 DEF EndBackpropJoin
<1>4. TokensInv'
  BY EndBackpropJoinKeeps DEF ReadyInv
<1>5. QED
  BY <1>1, <1>3, <1>4, ConcatReady

LEMMA EndBackpropSegmentedReady == ASSUME ReadyInv, EndBackpropSegmented PROVE ReadyInv'
<1>1. PICK K : K = {"join"}
  OBVIOUS
<1>2. PICK op \in Ends : op = "end_backprop"
  BY DEF Ends
<1>3. PICK n : n = last[2]
  OBVIOUS
<1>4. Now(op, K) /\ Phase(op) = "backprop"
  BY <1>1, <1>2 DEF EndBackpropSegmented, Phase
<1>5. /\ TokensInv /\ Running /\ Me \in Components /\ Kind[Me] = "join" /\ call = "backprop"
  BY <1>1, <1>3, <1>4, CallFacts
<1>6. PICK e \in MembersOf(Me) : e = "error_output"
  BY <1>5, Places DEF Members
<1>7. PICK v : v = Here("error_output_vector")
  OBVIOUS
<1>8. PICK P : P = {Mine(e)}
  OBVIOUS
<1>9. PICK j : j = heap'
  OBVIOUS
<1>10. PICK t : t = hand'
  OBVIOUS
<1>11. /\ j = Assign(heap, Mine(e), v) /\ t = v /\ Continue(<<>>)
       /\ UNCHANGED <<script, outcome>> /\ sparse' = sparse
  BY <1>6, <1>7, <1>9, <1>10 DEF EndBackpropSegmented, Passes, flags
<1>12. Mine(e) \in DOMAIN heap.at /\ Mine(e).member = e /\ Mine(e) \notin VectorRoots
       /\ Mine(e) \in Local(heap, Me) /\ Sound(heap)
  <2>1. e \notin Vectors
    BY <1>6 DEF Vectors
  <2>2. QED
    BY <1>5, <2>1, MineFacts DEF TokensInv
<1>13. PICK q \in VectorRoots : q.member = "error_output_vector" /\ heap.at[q] = v /\ v # Null
  <2>1. PICK f \in Vectors : f = "error_output_vector"
    BY DEF Vectors
  <2>2. Mine(f) \in VectorRoots /\ Mine(f).member = f /\ Here(f) = heap.at[Mine(f)]
        /\ Here(f) \in Live(heap)
    BY <1>5, MyVector
  <2>3. Null \notin Live(heap)
    BY <1>12, SoundFacts
  <2>4. QED
    BY <1>7, <2>1, <2>2, <2>3
<1>14. Changes(heap, j, P)
  <2>1. q \in DOMAIN heap.at \ P
    BY <1>8, <1>12, <1>13, SoundFacts
  <2>2. KeptBeside(heap, v, P)
    BY <1>13, <2>1 DEF KeptBeside
  <2>3. QED
    BY <1>8, <1>11, <1>12, <2>2, AssignOne
<1>15. P \subseteq Local(heap, Me) /\ P \cap VectorRoots = {} /\ \A p \in P : p.member # "entry"
  BY <1>6, <1>8, <1>12
<1>16. Only(Me, heap, j)
  <2>1. PICK me \in Components : me = Me
    BY <1>5
  <2>2. Only(me, heap, j)
    BY <1>5, <1>14, <1>15, <2>1, Elsewhere
  <2>3. QED
    BY <2>1, <2>2
<1>17. HasErrors(Me, heap) => HasErrors(Me, j)
  BY <1>5, <1>14, <1>15, ErrorsKept
<1>18. \A r \in Steps : Phase(r.op) = call => Arrives(n, r, j, t)
  BY <1>5, <1>11, <1>13 DEF Arrives, Phase
<1>19. TokensInv'
  BY <1>5, EndBackpropSegmentedKeeps
<1>20. QED
  BY <1>1, <1>3, <1>4, <1>9, <1>10, <1>11, <1>16, <1>17, <1>18, <1>19, JoinEndsReady
-----------------------------------------------------------------------------
(***************************************************************************)
(* What is not a step of a forward or a backprop                           *)
(***************************************************************************)
LEMMA StoppedReady ==
    ASSUME ReadyInv, TokensInv', NEW how \in {"error", "wild"}, Stops(how)
    PROVE  ReadyInv'
<1>1. /\ call' = call /\ last' = last /\ todo' = todo /\ sparse' = sparse
      /\ outcome' # "running"
  BY DEF Stops, script, flags
<1>2. CallInv'
  BY <1>1 DEF ReadyInv, CallInv, Running, Ran
<1>3. DoneInv'
  BY <1>1 DEF DoneInv
<1>4. QED
  BY <1>2, <1>3 DEF ReadyInv

LEMMA FailReady == ASSUME ReadyInv, Fail PROVE ReadyInv'
<1>1. TokensInv'
  BY FailKeeps DEF ReadyInv
<1>2. QED
  BY <1>1, StoppedReady DEF Fail

LEMMA KeepNullReady == ASSUME ReadyInv, KeepNull PROVE ReadyInv'
<1>1. TokensInv'
  BY KeepNullKeeps DEF ReadyInv
<1>2. QED
  BY <1>1, StoppedReady DEF KeepNull

\* The tokens that the components below n keep are the same.
SameTokens(n, h, g) ==
    \A c \in Below[n] : Kind[c] # "loss" => \A f \in Members :
       f \in MembersOf(c) => g.at[Member(c, f)] = h.at[Member(c, f)]

LEMMA SameFacts ==
    ASSUME NEW n, NEW h, NEW g, SameTokens(n, h, g), NEW c \in Below[n], NEW w
    PROVE  /\ Fed(n, c, h, w) => Fed(n, c, g, w)
           /\ Corrected(c, h) => Corrected(c, g)
<1>1. Kind[c] = "dot_product" => {"input", "error_input"} \subseteq MembersOf(c)
  BY DEF MembersOf, Members
<1>2. Kind[c] = "bias" => "error_input" \in MembersOf(c)
  BY DEF MembersOf, Members
<1>3. "input" \in Members /\ "error_input" \in Members
  BY DEF Members
<1>4. QED
  BY <1>1, <1>2, <1>3 DEF SameTokens, Fed, Corrected

\* Outside of a forward and a backprop.
LEMMA QuietReady ==
    ASSUME ReadyInv, TokensInv', ~Running, call' \notin {"forward", "backprop"},
           sparse' = sparse, outcome' = outcome,
           last' = last \/ last'[1] \notin {"forward", "backprop"},
           last' = last /\ Ran => /\ call' # "build"
                                  /\ call' = "reset" => \A k \in DOMAIN todo' : todo'[k].c = Loss
                                  /\ SameTokens(last[2], heap, heap')
    PROVE  ReadyInv'
<1>1. ~Running'
  BY DEF Running
<1>2. Ran' => Ran /\ last' = last
  BY DEF Ran
<1>3. CallInv'
  <2>1. (DOMAIN sparse = Components)'
    BY DEF ReadyInv, CallInv
  <2>2. Ran' => (last[2] \in Components)'
    BY <1>2 DEF ReadyInv, CallInv
  <2>3. (call = "build" => ~Ran)'
    BY <1>2
  <2>4. (Ran /\ call = "reset" => \A k \in DOMAIN todo : todo[k].c = Loss)'
    BY <1>2
  <2>5. QED
    BY <1>1, <2>1, <2>2, <2>3, <2>4 DEF CallInv
<1>4. DoneInv'
  <2>1. ASSUME outcome' = "running", Ran', NEW c \in Below[last[2]]
        PROVE  /\ Fed(last[2], c, heap', sparse')
               /\ last[1] = "backprop" => Corrected(c, heap')
    <3>1. last' = last /\ Ran /\ outcome = "running"
      BY <1>2, <2>1
    <3>2. /\ Fed(last[2], c, heap, sparse)
          /\ last[1] = "backprop" => Corrected(c, heap)
      BY <2>1, <3>1 DEF ReadyInv, DoneInv, Running
    <3>3. SameTokens(last[2], heap, heap')
      BY <3>1
    <3>4. PICK n : n = last[2]
      OBVIOUS
    <3>5. PICK g : g = heap'
      OBVIOUS
    <3>6. SameTokens(n, heap, g) /\ c \in Below[n]
      BY <2>1, <3>3, <3>4, <3>5
    <3>7. /\ Fed(n, c, heap, sparse) => Fed(n, c, g, sparse)
          /\ Corrected(c, heap) => Corrected(c, g)
      BY <3>6, SameFacts
    <3>8. QED
      BY <3>2, <3>4, <3>5, <3>7
  <2>2. QED
    BY <1>2, <2>1 DEF DoneInv
<1>5. QED
  BY <1>3, <1>4 DEF ReadyInv

\* Other places are written.
LEMMA SameElsewhere ==
    ASSUME Sound(heap), NEW n \in Components, NEW g, NEW P,
           \A p \in Roots \ P : g.at[p] = heap.at[p],
           \A p \in P : p \notin Handles =>
              p.member \notin Members \/ (p.of \in Components /\ Kind[p.of] = "loss")
    PROVE  SameTokens(n, heap, g)
<1>1. ASSUME NEW c \in Below[n], Kind[c] # "loss", NEW f \in Members, f \in MembersOf(c)
      PROVE  g.at[Member(c, f)] = heap.at[Member(c, f)]
  <2>1. c \in Components
    BY BelowFacts
  <2>2. PICK p : p = Member(c, f)
    OBVIOUS
  <2>3. p \in Roots /\ p.of = c /\ p.member = f
    BY <1>1, <2>1, <2>2, Places
  <2>4. p \notin Handles
    BY <1>1, <2>3, Places DEF Members
  <2>5. p \notin P
    BY <1>1, <2>3, <2>4
  <2>6. QED
    BY <2>2, <2>3, <2>5
<1>2. QED
  BY <1>1 DEF SameTokens

LEMMA QuietFacts ==
    ASSUME ReadyInv, NEW op, Now(op, Kinds), op \in {"gradient", "update", "reset", "build", "destroy"}
    PROVE  /\ TokensInv /\ Sound(heap) /\ ~Running /\ Me \in Components /\ call = op
           /\ todo \in Seq(Steps) /\ todo # <<>>
           /\ Ran => last[2] \in Components /\ call \notin {"build", "destroy"}
<1>1. TokensInv /\ Sound(heap)
  BY DEF ReadyInv, TokensInv
<1>2. Me \in Components /\ call = op /\ todo # <<>>
  BY <1>1, NowFacts DEF Phase
<1>3. todo \in Seq(Steps) /\ ~Running
  BY <1>1, <1>2 DEF TokensInv, TodoInv, Running
<1>4. Ran => last[2] \in Components /\ call # "build"
  BY DEF ReadyInv, CallInv
<1>5. Ran => call # "destroy"
  BY <1>1 DEF TokensInv, ScriptInv, Ran
<1>6. QED
  BY <1>1, <1>2, <1>3, <1>4, <1>5

\* Nothing is left to do after one of these calls.
LEMMA RestOfTodo ==
    ASSUME todo \in Seq(Steps), todo # <<>>, Continue(<<>>)
    PROVE  \A k \in DOMAIN todo' : \E j \in DOMAIN todo : todo'[k] = todo[j]
<1>1. <<>> \in Seq(Steps)
  OBVIOUS
<1>2. PICK steps \in Seq(Steps) : steps = <<>>
  BY <1>1
<1>3. PICK new : new = todo' /\ new = steps \o Tail(todo)
  BY <1>2 DEF Continue
<1>4. Spliced(todo, steps, new)
  BY <1>3, TodoParts
<1>5. DOMAIN steps = {}
  BY <1>2
<1>6. \A k \in DOMAIN new : \E j \in DOMAIN todo : new[k] = todo[j]
  BY <1>4, <1>5 DEF Spliced
<1>7. QED
  BY <1>3, <1>6

LEMMA DoGradientReady == ASSUME ReadyInv, DoGradient PROVE ReadyInv'
<1>1. Now("gradient", Kinds) /\ Kind[Me] = "loss"
  BY DEF DoGradient, Now, Kinds
<1>2. /\ TokensInv /\ Sound(heap) /\ ~Running /\ Me \in Components /\ call = "gradient"
      /\ Ran => last[2] \in Components
  BY <1>1, QuietFacts
<1>3. "error_output" \in MembersOf(Me) /\ "error_output" \notin Vectors
  BY <1>1 DEF MembersOf, Vectors
<1>4. PICK p \in Roots : /\ p = Mine("error_output") /\ p.member = "error_output"
                         /\ p \notin VectorRoots /\ p \in DOMAIN heap.at /\ Arena(p) \subseteq Tokens
  BY <1>2, <1>3, MineFacts
<1>5. PICK P : P = {p}
  OBVIOUS
<1>6. /\ heap' = AssignNew(heap, P, "mem", 0, Null) /\ sparse' = sparse
      /\ call' = call /\ last' = last /\ outcome' = outcome /\ Free(heap, p) # {}
  BY <1>4, <1>5 DEF DoGradient, Concat, Passes, MakeBlock, Room, script, flags
<1>7. Changes(heap, heap', P)
  <2>1. P \in SUBSET DOMAIN heap.at /\ P \cap VectorRoots = {} /\ KeptBeside(heap, Null, P)
    BY <1>4, <1>5 DEF KeptBeside
  <2>2. Available(heap, P)
    BY <1>4, <1>5, <1>6 DEF Available
  <2>3. QED
    BY <1>2, <1>6, <2>1, <2>2, AssignNewSound
<1>8. PICK g : g = heap'
  OBVIOUS
<1>9. \A q \in Roots \ P : g.at[q] = heap.at[q]
  BY <1>2, <1>7, <1>8, SoundFacts DEF Changes
<1>10. \A q \in P : q.of \in Components /\ Kind[q.of] = "loss"
  BY <1>1, <1>2, <1>4, <1>5 DEF Mine, Member, Place
<1>11. Ran => SameTokens(last[2], heap, g)
  <2>1. ASSUME NEW n \in Components
        PROVE  SameTokens(n, heap, g)
    BY <1>2, <1>9, <1>10, SameElsewhere
  <2>2. QED
    BY <1>2, <2>1
<1>12. TokensInv'
  BY <1>2, DoGradientKeeps
<1>13. QED
  BY <1>2, <1>6, <1>8, <1>11, <1>12, QuietReady

LEMMA DoUpdateReady == ASSUME ReadyInv, DoUpdate PROVE ReadyInv'
<1>1. TokensInv'
  BY DoUpdateKeeps DEF ReadyInv
<1>2. CASE Stops("wild")
  BY <1>1, <1>2, StoppedReady
<1>3. CASE Continue(<<>>) /\ UNCHANGED <<heap, flags, hand, script, outcome>>
  <2>1. Now("update", Kinds)
    BY DEF DoUpdate
  <2>2. ~Running /\ call = "update"
    BY <2>1, QuietFacts
  <2>3. sparse' = sparse /\ outcome' = outcome /\ last' = last /\ call' = call /\ heap' = heap
    BY <1>3 DEF flags, script
  <2>4. SameTokens(last[2], heap, heap')
    BY <2>3 DEF SameTokens
  <2>5. QED
    BY <1>1, <2>2, <2>3, <2>4, QuietReady
<1>4. QED
  BY <1>2, <1>3 DEF DoUpdate

\* A reset while a forward is known of is that of the loss.
LEMMA DoResetReady == ASSUME ReadyInv, DoReset PROVE ReadyInv'
<1>1. Now("reset", Kinds)
  BY DEF DoReset, DoRelease
<1>2. /\ TokensInv /\ Sound(heap) /\ ~Running /\ Me \in Components /\ call = "reset"
      /\ todo \in Seq(Steps) /\ todo # <<>>
      /\ Ran => last[2] \in Components
  BY <1>1, QuietFacts
<1>3. PICK P : P = BelowMe(Members)
  OBVIOUS
<1>4. /\ heap' = Release(heap, P) /\ Continue(<<>>) /\ sparse' = sparse
      /\ call' = call /\ last' = last /\ outcome' = outcome
  BY <1>3 DEF DoReset, DoRelease, flags, script
<1>5. P \subseteq Roots
  BY <1>2, <1>3, BelowMeFacts
<1>6. PICK g : g = heap'
  OBVIOUS
<1>7. \A q \in Roots \ P : g.at[q] = heap.at[q]
  <2>1. Roots \subseteq DOMAIN heap.at /\ P \in SUBSET DOMAIN heap.at
    BY <1>2, <1>5, SoundFacts
  <2>2. heap'.at = [p \in DOMAIN heap.at |-> IF p \in P THEN Null ELSE heap.at[p]]
    BY <1>2, <1>4, <2>1, ReleaseSound
  <2>3. QED
    BY <1>6, <2>1, <2>2
<1>8. ASSUME Ran
      PROVE  SameTokens(last[2], heap, g) /\ \A k \in DOMAIN todo' : todo'[k].c = Loss
  <2>1. \A k \in DOMAIN todo : todo[k].c = Loss
    BY <1>2, <1>8 DEF ReadyInv, CallInv
  <2>2. Me = Loss
    BY <1>2, <2>1 DEF Me
  <2>3. Below[Loss] = {Loss} /\ Loss \in Components /\ Kind[Loss] = "loss"
    BY TreeAssumption, Alone
  <2>4. \A q \in P : q.of = Loss
    BY <1>3, <2>2, <2>3 DEF BelowMe, Member, Place
  <2>5. ASSUME NEW n \in Components
        PROVE  SameTokens(n, heap, g)
    BY <1>2, <1>7, <2>3, <2>4, SameElsewhere
  <2>6. \A k \in DOMAIN todo' : todo'[k].c = Loss
    BY <1>2, <1>4, <2>1, RestOfTodo
  <2>7. QED
    BY <1>2, <1>8, <2>5, <2>6
<1>9. TokensInv'
  BY <1>2, DoResetKeeps
<1>10. QED
  BY <1>2, <1>4, <1>6, <1>8, <1>9, QuietReady

LEMMA DoDestroyReady == ASSUME ReadyInv, DoDestroy PROVE ReadyInv'
<1>1. Now("destroy", Kinds) /\ sparse' = sparse /\ outcome' = outcome /\ last' = last /\ call' = call
  BY DEF DoDestroy, DoRelease, flags, script
<1>2. TokensInv /\ ~Running /\ call = "destroy" /\ ~Ran
  BY <1>1, QuietFacts
<1>3. TokensInv'
  BY <1>2, DoDestroyKeeps
<1>4. QED
  BY <1>1, <1>2, <1>3, QuietReady

LEMMA DoBuildReady == ASSUME ReadyInv, DoBuild PROVE ReadyInv'
<1>1. Now("build", Kinds) /\ sparse' = sparse /\ outcome' = outcome /\ last' = last /\ call' = call
  BY DEF DoBuild, flags, script
<1>2. TokensInv /\ ~Running /\ call = "build" /\ ~Ran
  BY <1>1, QuietFacts
<1>3. TokensInv'
  BY <1>2, DoBuildKeeps
<1>4. QED
  BY <1>1, <1>2, <1>3, QuietReady
-----------------------------------------------------------------------------
(***************************************************************************)
(* The destructors                                                         *)
(***************************************************************************)
LEMMA SweepTypes ==
    ASSUME Sound(heap), NEW g, g = Sweep(heap)
    PROVE  \A t \in Live(heap) \ heap.dying : t \in Live(g) /\ g.type[t] = heap.type[t]
<1> DEFINE own == UNION {EntriesOf(heap, t) : t \in heap.dying}
<1>1. own \in SUBSET DOMAIN heap.at
  BY DEF EntriesOf
<1>2. PICK r : r = Release(heap, own)
  OBVIOUS
<1>3. r.type = heap.type
  <2> HIDE DEF own
  <2>1. QED
    BY <1>1, <1>2, ReleaseSound
<1>4. g.type = Restrict(r.type, Live(heap) \ heap.dying)
  BY <1>2 DEF Sweep
<1>5. QED
  BY <1>3, <1>4 DEF Restrict, Live

\* What a pointer or a vector of a join leads to stays as it is.
LEMMA SweepKeeps ==
    ASSUME Sound(heap), NEW g, g = Sweep(heap)
    PROVE  /\ \A p \in Roots : g.at[p] = heap.at[p]
           /\ \A t \in Live(heap) \ heap.dying : IsDense(heap, t) => IsDense(g, t)
           /\ VectorsMade(heap) => \A c \in Components : HasErrors(c, heap) => HasErrors(c, g)
<1>1. /\ \A p \in Roots : g.at[p] = heap.at[p]
      /\ \A p \in DOMAIN heap.at \ Roots :
            p.of \notin heap.dying => p \in DOMAIN g.at /\ g.at[p] = heap.at[p]
  BY SweepSound
<1>2. \A t \in Live(heap) \ heap.dying : t \in Live(g) /\ g.type[t] = heap.type[t]
  BY SweepTypes
<1>3. /\ \A p \in DOMAIN heap.at : heap.at[p] \in (Live(heap) \ heap.dying) \cup {Null}
      /\ Null \notin Live(heap) /\ VectorRoots \subseteq DOMAIN heap.at
  BY SoundFacts
<1>4. ASSUME NEW t \in Live(heap) \ heap.dying, IsDense(heap, t)
      PROVE  IsDense(g, t)
  <2>1. CASE heap.type[t] = "mem"
    BY <1>2, <2>1 DEF IsDense
  <2>2. CASE heap.type[t] = "vector" /\ \E p \in EntriesOf(heap, t) :
                heap.at[p] \in Live(heap) /\ heap.type[heap.at[p]] # "sparse"
    <3>1. PICK p \in EntriesOf(heap, t) :
             heap.at[p] \in Live(heap) /\ heap.type[heap.at[p]] # "sparse"
      BY <2>2
    <3>2. p \in DOMAIN heap.at /\ p.member = "entry" /\ p.of = t
      BY DEF EntriesOf
    <3>3. p \notin Roots
      BY <3>2, RootsApart
    <3>4. p \in DOMAIN g.at /\ g.at[p] = heap.at[p]
      BY <1>1, <3>2, <3>3
    <3>5. heap.at[p] \in Live(heap) \ heap.dying
      BY <1>3, <3>1, <3>2
    <3>6. p \in EntriesOf(g, t)
      BY <3>2, <3>4 DEF EntriesOf
    <3>7. QED
      BY <1>2, <2>2, <3>1, <3>4, <3>5, <3>6 DEF IsDense
  <2>3. QED
    BY <1>4, <2>1, <2>2 DEF IsDense
<1>5. ASSUME VectorsMade(heap), NEW c \in Components, HasErrors(c, heap), Kind[c] = "join",
             NEW i \in DOMAIN Children[c]
      PROVE  g.at[Entry(g.at[Member(c, "error_input_vector")], i)] # Null
  <2>1. "error_input_vector" \in Vectors
    BY DEF Vectors
  <2>2. PICK q \in VectorRoots : q = Member(c, "error_input_vector")
    BY <1>5, <2>1, Places
  <2>3. PICK v : v = heap.at[q]
    OBVIOUS
  <2>4. q \in Roots /\ q \in DOMAIN heap.at /\ v # Null
    BY <1>3, <1>5, <2>3 DEF VectorRoots, VectorsMade
  <2>5. g.at[q] = v /\ v \notin heap.dying
    BY <1>1, <1>3, <2>3, <2>4
  <2>6. PICK p : p = Entry(v, i)
    OBVIOUS
  <2>7. p \in DOMAIN heap.at \ Roots /\ p.of = v
    <3>1. v = heap.at[Member(c, "error_input_vector")]
      BY <2>2, <2>3
    <3>2. EntriesOf(heap, v) = {Entry(v, k) : k \in DOMAIN Children[c]}
      BY <1>5, <2>1, <3>1, VectorEntries
    <3>3. p \in EntriesOf(heap, v)
      BY <1>5, <2>6, <3>2
    <3>4. QED
      BY <2>6, <3>3, RootsApart DEF EntriesOf
  <2>8. g.at[p] = heap.at[p]
    BY <1>1, <2>5, <2>7
  <2>9. heap.at[p] # Null
    BY <1>5, <2>2, <2>3, <2>6 DEF HasErrors
  <2>10. QED
    BY <2>2, <2>5, <2>6, <2>8, <2>9
<1>6. VectorsMade(heap) => \A c \in Components : HasErrors(c, heap) => HasErrors(c, g)
  BY <1>5 DEF HasErrors
<1>7. QED
  BY <1>1, <1>4, <1>6

LEMMA DeleteReady == ASSUME ReadyInv, Delete PROVE ReadyInv'
<1>1. /\ TokensInv /\ Sound(heap) /\ heap' = Sweep(heap)
      /\ hand' = hand /\ todo' = todo /\ call' = call /\ last' = last
      /\ sparse' = sparse /\ outcome' = outcome
  BY DEF ReadyInv, TokensInv, Delete, script, flags
<1>2. TokensInv'
  BY <1>1, DeleteKeeps
<1>3. PICK g : g = heap'
  OBVIOUS
<1>4. \A p \in Roots : g.at[p] = heap.at[p]
  BY <1>1, <1>3, SweepKeeps
<1>5. IsDense(heap, hand) => IsDense(g, hand)
  <2>1. hand \in (Live(heap) \ heap.dying) \cup {Null} /\ Null \notin Live(heap)
    BY <1>1, PassedLives, SoundFacts
  <2>2. IsDense(heap, hand) => hand \in Live(heap) \ heap.dying
    BY <2>1 DEF IsDense
  <2>3. QED
    BY <1>1, <1>3, <2>2, SweepKeeps
<1>6. Running => \A c \in Components : HasErrors(c, heap) => HasErrors(c, g)
  <2>1. Running => VectorsMade(heap)
    BY <1>1, RunsBuilt DEF Running
  <2>2. QED
    BY <1>1, <1>3, <2>1, SweepKeeps
<1>7. ASSUME NEW n \in Components
      PROVE  SameTokens(n, heap, g)
  <2>1. \A p \in Roots \ {} : g.at[p] = heap.at[p]
    BY <1>4
  <2>2. QED
    BY <1>1, <2>1, SameElsewhere
<1>8. Running' = Running /\ Ran' = Ran /\ Left' = Left
  BY <1>1 DEF Running, Ran, Left
<1>9. CallInv'
  <2>1. ASSUME outcome = "running", Running
        PROVE  /\ Inside(last[2], todo) /\ Meeting(last[2], todo)
               /\ todo # <<>> => Arrives(last[2], Head(todo), g, hand)
               /\ \A k \in DOMAIN todo : todo[k].op \in Correcting => HasErrors(todo[k].c, g)
    <3>1. /\ Inside(last[2], todo) /\ Meeting(last[2], todo)
          /\ todo # <<>> => Arrives(last[2], Head(todo), heap, hand)
          /\ \A k \in DOMAIN todo : todo[k].op \in Correcting => HasErrors(todo[k].c, heap)
      BY <2>1 DEF ReadyInv, CallInv
    <3>2. todo # <<>> => Arrives(last[2], Head(todo), g, hand)
      BY <1>5, <3>1 DEF Arrives
    <3>3. ASSUME NEW k \in DOMAIN todo
          PROVE  todo[k].c \in Components
      <4>1. todo[k] \in Steps
        BY <1>1 DEF TokensInv, TodoInv
      <4>2. QED
        BY <4>1 DEF Steps
    <3>4. QED
      BY <1>6, <2>1, <3>1, <3>2, <3>3
  <2>2. (outcome = "running" /\ Running =>
          /\ Inside(last[2], todo) /\ Meeting(last[2], todo)
          /\ todo # <<>> => Arrives(last[2], Head(todo), heap, hand)
          /\ \A k \in DOMAIN todo : todo[k].op \in Correcting => HasErrors(todo[k].c, heap))'
    BY <1>1, <1>3, <1>8, <2>1
  <2>3. QED
    BY <1>1, <1>8, <2>2 DEF ReadyInv, CallInv
<1>10. DoneInv'
  <2>1. ASSUME outcome = "running", Ran, NEW c \in Below[last[2]]
        PROVE  /\ Fed(last[2], c, g, sparse) \/ (call = "forward" /\ c \in Left)
               /\ last[1] = "backprop" =>
                     Corrected(c, g) \/ (call = "backprop" /\ c \in Left)
    <3>1. /\ Fed(last[2], c, heap, sparse) \/ (call = "forward" /\ c \in Left)
          /\ last[1] = "backprop" =>
                Corrected(c, heap) \/ (call = "backprop" /\ c \in Left)
      BY <2>1 DEF ReadyInv, DoneInv
    <3>2. PICK n \in Components : n = last[2]
      BY <2>1 DEF ReadyInv, CallInv
    <3>3. SameTokens(n, heap, g) /\ c \in Below[n]
      BY <1>7, <2>1, <3>2
    <3>4. /\ Fed(n, c, heap, sparse) => Fed(n, c, g, sparse)
          /\ Corrected(c, heap) => Corrected(c, g)
      BY <3>3, SameFacts
    <3>5. QED
      BY <3>1, <3>2, <3>4
  <2>2. QED
    BY <1>1, <1>3, <1>8, <2>1 DEF DoneInv
<1>11. QED
  BY <1>2, <1>9, <1>10 DEF ReadyInv
-----------------------------------------------------------------------------
(***************************************************************************)
(* What a script does                                                      *)
(***************************************************************************)
LEMMA QuietEnter ==
    ASSUME ReadyInv, TokensInv', NEW op, NEW c, NEW t, NEW next, Enter(op, c, t, next),
           op \in {"gradient", "update", "reset", "build", "destroy"},
           \/ next[1] \notin {"forward", "backprop"}
           \/ next = last /\ op # "build" /\ (op = "reset" => c = Loss)
    PROVE  ReadyInv'
<1>1. /\ heap' = heap /\ call' = op /\ last' = next /\ outcome' = outcome /\ sparse' = sparse
      /\ todo' = Do(op, c, 0) /\ call = "none"
  BY DEF Enter, Ready, Idle, flags
<1>2. ~Running /\ call' \notin {"forward", "backprop"}
  BY <1>1 DEF Running
<1>3. SameTokens(last[2], heap, heap')
  BY <1>1 DEF SameTokens
<1>4. \A k \in DOMAIN todo' : todo'[k].c = c
  BY <1>1 DEF Do
<1>5. last' = last /\ Ran => op # "build" /\ (op = "reset" => c = Loss)
  BY <1>1 DEF Ran
<1>6. last' = last \/ last'[1] \notin {"forward", "backprop"}
  BY <1>1
<1>7. QED
  BY <1>1, <1>2, <1>3, <1>4, <1>5, <1>6, QuietReady

LEMMA LuaUpdateReady == ASSUME ReadyInv, NEW c \in Parts, LuaUpdate(c) PROVE ReadyInv'
<1>1. TokensInv'
  BY LuaUpdateKeeps DEF ReadyInv
<1>2. QED
  BY <1>1, QuietEnter DEF LuaUpdate

LEMMA LuaResetReady == ASSUME ReadyInv, NEW c \in Parts, LuaReset(c) PROVE ReadyInv'
<1>1. TokensInv'
  BY LuaResetKeeps DEF ReadyInv
<1>2. QED
  BY <1>1, QuietEnter DEF LuaReset

LEMMA LuaBuildReady == ASSUME ReadyInv, NEW c \in Networks, LuaBuild(c) PROVE ReadyInv'
<1>1. TokensInv'
  BY LuaBuildKeeps DEF ReadyInv
<1>2. QED
  BY <1>1, QuietEnter DEF LuaBuild

LEMMA LuaDestroyReady == ASSUME ReadyInv, NEW c \in Networks, LuaDestroy(c) PROVE ReadyInv'
<1>1. TokensInv'
  BY LuaDestroyKeeps DEF ReadyInv
<1>2. QED
  BY <1>1, QuietEnter DEF LuaDestroy

LEMMA LuaGradientReady == ASSUME ReadyInv, NEW t \in Own, LuaGradient(t) PROVE ReadyInv'
<1>1. TokensInv'
  BY LuaGradientKeeps DEF ReadyInv
<1>2. QED
  BY <1>1, QuietEnter DEF LuaGradient

LEMMA LuaLossResetReady == ASSUME ReadyInv, LuaLossReset PROVE ReadyInv'
<1>1. TokensInv'
  BY LuaLossResetKeeps DEF ReadyInv
<1>2. QED
  BY <1>1, QuietEnter DEF LuaLossReset

\* A forward, or a backprop after a forward or a backprop of the same component.
LEMMA RunEnter ==
    ASSUME ReadyInv, TokensInv', NEW op \in {"forward", "backprop"}, NEW c \in Components,
           NEW t, Enter(op, c, t, <<op, c>>),
           op = "backprop" => t # Null /\ Ran /\ last[2] = c
    PROVE  ReadyInv'
<1>1. /\ heap' = heap /\ call' = op /\ last' = <<op, c>> /\ outcome' = outcome /\ sparse' = sparse
      /\ hand' = t /\ todo' = Do(op, c, 0) /\ call = "none" /\ outcome = "running"
  BY DEF Enter, Ready, Idle, flags
<1>2. PICK s \in Steps : s = [op |-> op, c |-> c, i |-> 0]
  BY DEF Steps
<1>3. PICK new : new = todo'
  OBVIOUS
<1>4. new = <<s>> /\ DOMAIN new = {1} /\ new[1] = s /\ Head(new) = s
  BY <1>1, <1>2, <1>3 DEF Do
<1>5. s.op = op /\ s.c = c /\ c \in Below[c]
  BY <1>2, BelowFacts
<1>6. Inside(c, new) /\ Meeting(c, new)
  BY <1>4, <1>5 DEF Inside, Meeting
<1>7. Arrives(c, s, heap, t)
  BY <1>5, FirstGets DEF Arrives
<1>8. \A k \in DOMAIN new : new[k].op \notin Correcting
  BY <1>4, <1>5 DEF Correcting
<1>9. CallInv'
  <2>1. (DOMAIN sparse = Components)' /\ (last[2] \in Components)'
    BY <1>1 DEF ReadyInv, CallInv
  <2>2. (Running => last[1] = call)'
    BY <1>1
  <2>3. (call = "build" => ~Ran)' /\ (Ran /\ call = "reset" => \A k \in DOMAIN todo : todo[k].c = Loss)'
    BY <1>1
  <2>4. (/\ Inside(last[2], todo) /\ Meeting(last[2], todo)
         /\ todo # <<>> => Arrives(last[2], Head(todo), heap, hand)
         /\ \A k \in DOMAIN todo : todo[k].op \in Correcting => HasErrors(todo[k].c, heap))'
    BY <1>1, <1>3, <1>4, <1>6, <1>7, <1>8
  <2>5. QED
    BY <2>1, <2>2, <2>3, <2>4 DEF CallInv
<1>10. \A x \in Below[c] : x \in Left'
  <2>1. Rest(s) = Below[c]
    BY <1>5, RestOf
  <2>2. Left' = UNION {Rest(new[k]) : k \in DOMAIN new}
    BY <1>3 DEF Left
  <2>3. QED
    BY <1>4, <2>1, <2>2
<1>11. DoneInv'
  <2>1. ASSUME NEW x \in Below[c]
        PROVE  Fed(c, x, heap, sparse) \/ op = "forward"
    <3>1. ASSUME op = "backprop"
          PROVE  Fed(c, x, heap, sparse)
      BY <1>1, <3>1 DEF ReadyInv, DoneInv
    <3>2. QED
      BY <3>1
  <2>2. QED
    BY <1>1, <1>10, <2>1 DEF DoneInv
<1>12. QED
  BY <1>9, <1>11 DEF ReadyInv

LEMMA LuaForwardReady ==
    ASSUME ReadyInv, NEW c \in Parts, NEW t \in Own, LuaForward(c, t)
    PROVE  ReadyInv'
<1>1. TokensInv'
  BY LuaForwardKeeps DEF ReadyInv
<1>2. c \in Components /\ Enter("forward", c, t, <<"forward", c>>)
  BY TreeAssumption DEF LuaForward
<1>3. QED
  BY <1>1, <1>2, RunEnter

LEMMA LuaBackpropReady ==
    ASSUME ReadyInv, NEW c \in Parts, NEW t \in Own, LuaBackprop(c, t)
    PROVE  ReadyInv'
<1>1. TokensInv'
  BY LuaBackpropKeeps DEF ReadyInv
<1>2. c \in Components /\ Enter("backprop", c, t, <<"backprop", c>>)
  BY TreeAssumption DEF LuaBackprop
<1>3. t # Null
  BY DEF Own, Unused
<1>4. Ran /\ last[2] = c
  BY DEF LuaBackprop, Ran
<1>5. QED
  BY <1>1, <1>2, <1>3, <1>4, RunEnter

\* Only a userdata is written, and nothing is left to do.
LEMMA IdleReady ==
    ASSUME ReadyInv, TokensInv', Sound(heap), todo = <<>>, call' = "none",
           sparse' = sparse, last' = last, outcome' = outcome,
           NEW p \in Handles, \A q \in Roots \ {p} : heap'.at[q] = heap.at[q]
    PROVE  ReadyInv'
<1>1. Running' = FALSE /\ Ran' = Ran /\ call' \notin {"forward", "backprop"}
  BY DEF Running, Ran
<1>2. PICK g : g = heap'
  OBVIOUS
<1>3. ASSUME NEW n \in Components
      PROVE  SameTokens(n, heap, g)
  <2>1. PICK P : P = {p}
    OBVIOUS
  <2>2. \A q \in Roots \ P : g.at[q] = heap.at[q]
    BY <1>2, <2>1
  <2>3. \A q \in P : q \notin Handles => FALSE
    BY <2>1
  <2>4. QED
    BY <2>2, <2>3, SameElsewhere
<1>4. CallInv'
  BY <1>1 DEF ReadyInv, CallInv
<1>5. Left = {}
  BY DEF Left
<1>6. DoneInv'
  <2>1. ASSUME outcome = "running", Ran, NEW c \in Below[last[2]]
        PROVE  /\ Fed(last[2], c, g, sparse)
               /\ last[1] = "backprop" => Corrected(c, g)
    <3>1. /\ Fed(last[2], c, heap, sparse)
          /\ last[1] = "backprop" => Corrected(c, heap)
      BY <1>5, <2>1 DEF ReadyInv, DoneInv
    <3>2. PICK n \in Components : n = last[2]
      BY <2>1 DEF ReadyInv, CallInv
    <3>3. SameTokens(n, heap, g) /\ c \in Below[n]
      BY <1>3, <2>1, <3>2
    <3>4. /\ Fed(n, c, heap, sparse) => Fed(n, c, g, sparse)
          /\ Corrected(c, heap) => Corrected(c, g)
      BY <3>3, SameFacts
    <3>5. QED
      BY <3>1, <3>2, <3>4
  <2>2. QED
    BY <1>1, <1>2, <2>1 DEF DoneInv
<1>7. QED
  BY <1>4, <1>6 DEF ReadyInv

LEMMA LuaNewReady ==
    ASSUME ReadyInv, NEW k \in {"mem", "sparse"}, LuaNew(k)
    PROVE  ReadyInv'
<1>1. TokensInv' /\ TokensInv
  BY LuaNewKeeps DEF ReadyInv
<1>2. Sound(heap) /\ todo = <<>> /\ call = "none"
  BY <1>1, IdleFacts DEF LuaNew, Ready, Idle
<1>3. PICK p \in Handles : p = NewHandle
  BY DEF LuaNew, Ready, NewHandle, Unused
<1>4. /\ p \in Roots /\ p \in DOMAIN heap.at /\ p \notin VectorRoots /\ Arena(p) \subseteq Tokens
  BY <1>2, HandleFacts
<1>5. PICK P : P = {p}
  OBVIOUS
<1>6. /\ heap' = AssignNew(heap, P, k, 0, Null) /\ Free(heap, p) # {} /\ sparse' = sparse
      /\ call' = call /\ last' = last /\ outcome' = outcome
  BY <1>3, <1>5 DEF LuaNew, Room, script, flags
<1>7. Changes(heap, heap', P)
  <2>1. P \in SUBSET DOMAIN heap.at /\ P \cap VectorRoots = {} /\ KeptBeside(heap, Null, P)
    BY <1>4, <1>5 DEF KeptBeside
  <2>2. Available(heap, P)
    BY <1>4, <1>5, <1>6 DEF Available
  <2>3. QED
    BY <1>2, <1>6, <2>1, <2>2, AssignNewSound
<1>8. \A q \in Roots \ {p} : heap'.at[q] = heap.at[q]
  BY <1>2, <1>5, <1>7, SoundFacts DEF Changes
<1>9. QED
  BY <1>1, <1>2, <1>6, <1>8, IdleReady

LEMMA CollectReady ==
    ASSUME ReadyInv, NEW p \in Handles, Collect(p)
    PROVE  ReadyInv'
<1>1. TokensInv' /\ TokensInv
  BY CollectKeeps DEF ReadyInv
<1>2. Sound(heap) /\ todo = <<>> /\ call = "none"
  BY <1>1, IdleFacts DEF Collect, Idle
<1>3. p \in DOMAIN heap.at /\ p \notin VectorRoots
  BY <1>2, HandleFacts
<1>4. PICK P : P = {p}
  OBVIOUS
<1>5. /\ heap' = Release(heap, P) /\ sparse' = sparse
      /\ call' = call /\ last' = last /\ outcome' = outcome
  BY <1>4 DEF Collect, script, flags
<1>6. Changes(heap, heap', P)
  BY <1>2, <1>3, <1>4, <1>5, ReleaseChanges
<1>7. \A q \in Roots \ {p} : heap'.at[q] = heap.at[q]
  BY <1>2, <1>4, <1>6, SoundFacts DEF Changes
<1>8. QED
  BY <1>1, <1>2, <1>5, <1>7, IdleReady

LEMMA LuaReturnReady == ASSUME ReadyInv, LuaReturn PROVE ReadyInv'
<1>1. /\ Sound(heap) /\ TokensInv /\ todo = <<>> /\ call' = "none" /\ call # "none"
      /\ sparse' = sparse /\ last' = last /\ outcome' = outcome
  BY DEF LuaReturn, ReadyInv, TokensInv, flags
<1>2. TokensInv'
  BY <1>1, LuaReturnKeeps
<1>3. PICK p \in Unused : p = NewHandle
  BY <1>1 DEF NewHandle, TokensInv, ScriptInv
<1>4. p \in Handles /\ p \in DOMAIN heap.at /\ p \notin VectorRoots /\ heap.at[p] = Null
  BY <1>1, HandleFacts DEF Unused
<1>5. CASE heap' = heap
  BY <1>1, <1>2, <1>4, <1>5, IdleReady
<1>6. CASE hand # Null /\ heap' = Assign(heap, NewHandle, hand)
  <2>1. PICK P : P = {p}
    OBVIOUS
  <2>2. KeptBeside(heap, hand, {})
    <3>1. Passing /\ \A q \in {} : ~Lasting(q)
      BY <1>1 DEF Passing
    <3>2. QED
      BY <1>1, <3>1, HandBeside
  <2>3. KeptBeside(heap, hand, P)
    BY <1>4, <1>6, <2>1, <2>2 DEF KeptBeside
  <2>4. heap' = Assign(heap, p, hand)
    BY <1>3, <1>6
  <2>5. Changes(heap, heap', P)
    BY <1>1, <1>4, <2>1, <2>3, <2>4, AssignOne
  <2>6. \A q \in Roots \ {p} : heap'.at[q] = heap.at[q]
    BY <1>1, <2>1, <2>5, SoundFacts DEF Changes
  <2>7. QED
    BY <1>1, <1>2, <1>4, <2>6, IdleReady
<1>7. QED
  BY <1>5, <1>6 DEF LuaReturn

LEMMA StutterReady == ASSUME ReadyInv, UNCHANGED vars PROVE ReadyInv'
<1>1. TokensInv'
  BY StutterKeeps DEF ReadyInv
<1>2. /\ heap' = heap /\ hand' = hand /\ todo' = todo /\ call' = call /\ last' = last
      /\ outcome' = outcome /\ sparse' = sparse
  BY DEF vars, script, flags
<1>3. Running' = Running /\ Ran' = Ran /\ Left' = Left
  BY <1>2 DEF Running, Ran, Left
<1>4. CallInv' /\ DoneInv'
  BY <1>2, <1>3 DEF ReadyInv, CallInv, DoneInv
<1>5. QED
  BY <1>1, <1>4 DEF ReadyInv
-----------------------------------------------------------------------------
(***************************************************************************)
(* The invariant                                                           *)
(***************************************************************************)
LEMMA ReadyInit == Init => ReadyInv
<1> SUFFICES ASSUME Init PROVE ReadyInv
  OBVIOUS
<1>1. TokensInv
  BY InitInv
<1>2. /\ call = "none" /\ last = <<"none", Loss>> /\ sparse = [c \in Components |-> FALSE]
  BY DEF Init
<1>3. CallInv
  BY <1>2 DEF CallInv, Running, Ran
<1>4. DoneInv
  BY <1>2 DEF DoneInv, Ran
<1>5. QED
  BY <1>1, <1>3, <1>4 DEF ReadyInv

LEMMA ReadyNext == ReadyInv /\ [Next]_vars => ReadyInv'
<1> SUFFICES ASSUME ReadyInv, [Next]_vars PROVE ReadyInv'
  OBVIOUS
<1>1. CASE ForwardDotProduct
  BY <1>1, ForwardDotProductReady
<1>2. CASE ForwardBlock
  BY <1>2, ForwardBlockReady
<1>3. CASE ForwardCopy
  BY <1>3, ForwardCopyReady
<1>4. CASE ForwardThrough
  BY <1>4, ForwardThroughReady
<1>5. CASE ForwardJoin
  BY <1>5, ForwardJoinReady
<1>6. CASE ForwardChild
  BY <1>6, CallChildReady DEF ForwardChild
<1>7. CASE KeepOutput
  BY <1>7, KeepResultReady DEF KeepOutput
<1>8. CASE EndForwardJoin
  BY <1>8, EndForwardJoinReady
<1>9. CASE BackpropBias
  BY <1>9, BackpropBiasReady
<1>10. CASE BackpropSparse
  BY <1>10, BackpropSparseReady
<1>11. CASE BackpropNull
  BY <1>11, BackpropNullReady
<1>12. CASE BackpropBlock
  BY <1>12, BackpropBlockReady
<1>13. CASE BackpropThrough
  BY <1>13, BackpropThroughReady
<1>14. CASE BackpropJoin
  BY <1>14, BackpropJoinReady
<1>15. CASE BackpropChild
  BY <1>15, CallChildReady DEF BackpropChild
<1>16. CASE KeepGradient
  BY <1>16, KeepResultReady DEF KeepGradient
<1>17. CASE EndBackpropSegmented
  BY <1>17, EndBackpropSegmentedReady
<1>18. CASE EndBackpropJoin
  BY <1>18, EndBackpropJoinReady
<1>19. CASE KeepNull
  BY <1>19, KeepNullReady
<1>20. CASE Fail
  BY <1>20, FailReady
<1>21. CASE DoBuild
  BY <1>21, DoBuildReady
<1>22. CASE DoUpdate
  BY <1>22, DoUpdateReady
<1>23. CASE DoReset
  BY <1>23, DoResetReady
<1>24. CASE DoDestroy
  BY <1>24, DoDestroyReady
<1>25. CASE DoGradient
  BY <1>25, DoGradientReady
<1>26. CASE Delete
  BY <1>26, DeleteReady
<1>27. CASE Script
  <2>1. CASE \E k \in {"mem", "sparse"} : LuaNew(k)
    BY <2>1, LuaNewReady
  <2>2. CASE \E t \in Own : LuaGradient(t)
    BY <2>2, LuaGradientReady
  <2>3. CASE \E p \in Handles : Collect(p)
    BY <2>3, CollectReady
  <2>4. CASE \E c \in Parts : \/ \E t \in Own : LuaForward(c, t) \/ LuaBackprop(c, t)
                              \/ LuaUpdate(c) \/ LuaReset(c)
    BY <2>4, LuaForwardReady, LuaBackpropReady, LuaUpdateReady, LuaResetReady
  <2>5. CASE \E c \in Networks : LuaBuild(c) \/ LuaDestroy(c)
    BY <2>5, LuaBuildReady, LuaDestroyReady
  <2>6. CASE LuaLossReset
    BY <2>6, LuaLossResetReady
  <2>7. CASE LuaReturn
    BY <2>7, LuaReturnReady
  <2>8. QED
    BY <1>27, <2>1, <2>2, <2>3, <2>4, <2>5, <2>6, <2>7 DEF Script
<1>28. CASE Exited
  BY <1>28, StutterReady DEF Exited
<1>29. CASE UNCHANGED vars
  BY <1>29, StutterReady
<1>30. QED
  BY <1>1, <1>2, <1>3, <1>4, <1>5, <1>6, <1>7, <1>8, <1>9, <1>10, <1>11, <1>12, <1>13,
     <1>14, <1>15, <1>16, <1>17, <1>18, <1>19, <1>20, <1>21, <1>22, <1>23, <1>24, <1>25,
     <1>26, <1>27, <1>28, <1>29 DEF Next, Component
-----------------------------------------------------------------------------
(***************************************************************************)
(* A component that a backprop has left without an error has no weights:   *)
(* what comes before a dot product with a sparse input only passes the     *)
(* sparse token on.                                                        *)
(***************************************************************************)
THEOREM ReadinessInvariance == Spec => []ReadyInv
<1>1. QED
  BY ReadyInit, ReadyNext, PTL DEF Spec

(***************************************************************************)
(* Whatever the networks and the script: after a backprop, doUpdate reads  *)
(* tokens that exist in every component with weights.                      *)
(***************************************************************************)
THEOREM UpdateIsReady == Spec => []UpdateReady
<1>1. ReadyInv => UpdateReady
  <2> SUFFICES ASSUME ReadyInv, Idle, last[1] = "backprop",
                      NEW c \in Below[last[2]], NEW p \in UpdateReads(c)
               PROVE  heap.at[p] \in Live(heap)
    BY DEF UpdateReady
  <2>1. Sound(heap) /\ outcome = "running" /\ Ran /\ call = "none"
    BY DEF ReadyInv, TokensInv, Idle, Ran
  <2>2. Fed(last[2], c, heap, sparse) /\ Corrected(c, heap)
    BY <2>1 DEF ReadyInv, DoneInv
  <2>3. c \in Components
    <3>1. last[2] \in Components
      BY <2>1 DEF ReadyInv, CallInv
    <3>2. QED
      BY <3>1, BelowFacts
  <2>4. heap.at[p] # Null
    BY <2>2 DEF Fed, Corrected, UpdateReads
  <2>5. \E f \in MembersOf(c) : p = Member(c, f)
    BY DEF UpdateReads, MembersOf, Members
  <2>6. p \in Roots
    BY <2>3, <2>5, Places
  <2>7. QED
    BY <2>1, <2>4, <2>6, SoundFacts
<1>2. QED
  BY <1>1, ReadinessInvariance, PTL
=============================================================================
