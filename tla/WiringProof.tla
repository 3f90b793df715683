----------------------------- MODULE WiringProof -----------------------------
(***************************************************************************)
(* Proof that after a forward, or a backprop, each component keeps what    *)
(* the one before it, or after it, keeps as its result.                    *)
(*                                                                         *)
(* The containers that pass tokens on tie the doors of the components to   *)
(* each other.  A wire is all the doors that are tied: at most one place   *)
(* gives a token to it and at most one takes it, so that what is given     *)
(* anew is taken anew, as long as the one that takes it is still to come.  *)
(***************************************************************************)
EXTENDS UpdateReadinessProof

Directions == {"forward", "backprop"}

\* Where the call op enters and leaves a component.
Entrance(op, x) == IF op = "forward" THEN In(x) ELSE Out(x)
Exit(op, x) == IF op = "forward" THEN Out(x) ELSE In(x)

\* From the door x a forward goes on to the door y, at once.
Onto(n, x, y) ==
    \/ \E c \in Below[n] :
          /\ Kind[c] \in Through /\ x = In(c)
          /\ y = IF Children[c] = <<>> THEN Out(c) ELSE In(Children[c][1])
    \/ \E c \in Below[n] : \E i \in DOMAIN Children[c] :
          /\ Kind[c] \in Through /\ x = Out(Children[c][i])
          /\ y = IF i = Len(Children[c]) THEN Out(c) ELSE In(Children[c][i + 1])

\* The doors D that are tied to x by the pairs E.
Tied(D, E, x) ==
    {y \in D : \A X \in SUBSET D : (\A e \in E : e[1] \in X <=> e[2] \in X) /\ x \in X => y \in X}

Links(n) == {e \in Doors(n) \X Doors(n) : Onto(n, e[1], e[2])}
Wire(n, x) == Tied(Doors(n), Links(n), x)
-----------------------------------------------------------------------------
LEMMA SameWire ==
    ASSUME NEW D, NEW E, NEW e \in E, NEW x, x = e[1], NEW y, y = e[2]
    PROVE  Tied(D, E, x) = Tied(D, E, y)
<1>1. ASSUME NEW X \in SUBSET D, \A l \in E : l[1] \in X <=> l[2] \in X
      PROVE  x \in X <=> y \in X
  BY <1>1
<1>2. QED
  BY <1>1 DEF Tied

\* When the pairs do not meet, only one end of a wire has none before it.
Single(E, a, b) == \A e, l \in E : e[b] = l[b] => e[a] = l[a]
Outermost(E, b, x) == \A e \in E : e[b] # x

LEMMA OneEnd ==
    ASSUME NEW D, NEW E \in SUBSET (D \X D),
           NEW a, NEW b, <<a, b>> \in {<<1, 2>>, <<2, 1>>}, Single(E, a, b),
           NEW x \in D, NEW y \in D, Outermost(E, b, x), Outermost(E, b, y),
           Tied(D, E, x) = Tied(D, E, y)
    PROVE  x = y
<1>0. /\ (a = 1 /\ b = 2) \/ (a = 2 /\ b = 1)
      /\ \A e, l \in E : e[b] = l[b] => e[a] = l[a]
      /\ \A e \in E : e[b] # x /\ e[b] # y
  BY DEF Single, Outermost
<1> DEFINE Leads(X) == \A e \in E : e[a] \in X => e[b] \in X
           R == {z \in D : \A X \in SUBSET D : Leads(X) /\ x \in X => z \in X}
<1>1. \A e \in E : e[a] \in D /\ e[b] \in D
  BY <1>0
<1>2. R \in SUBSET D /\ x \in R
  OBVIOUS
<1>3. Leads(R)
  <2>1. ASSUME NEW e \in E, e[a] \in R, NEW X \in SUBSET D, Leads(X), x \in X
        PROVE  e[b] \in X
    BY <2>1
  <2>2. QED
    BY <1>1, <2>1
<1>4. ASSUME NEW z \in R, z # x, \A e \in E : e[b] = z => e[a] \notin R
      PROVE  FALSE
  <2> DEFINE X == R \ {z}
  <2>1. X \in SUBSET D /\ x \in X
    BY <1>2, <1>4
  <2>2. Leads(X)
    <3>1. ASSUME NEW e \in E, e[a] \in X
          PROVE  e[b] \in X
      <4>1. e[a] \in R
        BY <3>1
      <4>2. e[b] \in R
        BY <1>3, <4>1
      <4>3. e[b] # z
        BY <1>4, <4>1
      <4>4. QED
        BY <4>2, <4>3
    <3>2. QED
      BY <3>1
  <2>3. z \in X
    <3>1. \A Y \in SUBSET D : Leads(Y) /\ x \in Y => z \in Y
      OBVIOUS
    <3> HIDE DEF X, Leads
    <3>2. QED
      BY <2>1, <2>2, <3>1
  <2>4. QED
    BY <2>3
<1> HIDE DEF R
<1>5. \A e \in E : e[b] \in R => e[a] \in R
  <2>1. ASSUME NEW e \in E, e[b] \in R, e[a] \notin R
        PROVE  FALSE
    <3>1. PICK z \in R : z = e[b]
      BY <2>1
    <3>2. z # x
      BY <1>0, <3>1
    <3>3. \A l \in E : l[b] = z => l[a] \notin R
      BY <1>0, <2>1, <3>1
    <3>4. QED
      BY <1>4, <3>2, <3>3
  <2>2. QED
    BY <2>1
<1>6. \A e \in E : e[1] \in R <=> e[2] \in R
  BY <1>0, <1>3, <1>5
<1>7. y \in R
  <2>1. y \in Tied(D, E, y)
    BY DEF Tied
  <2>2. y \in Tied(D, E, x)
    BY <2>1
  <2>3. QED
    BY <1>2, <1>6, <2>2 DEF Tied
<1>8. QED
  BY <1>0, <1>4, <1>7
-----------------------------------------------------------------------------
(***************************************************************************)
(* The doors of a network                                                  *)
(***************************************************************************)
LEMMA DoorFacts ==
    /\ \A x, y : /\ In(x) = In(y) => x = y
                 /\ Out(x) = Out(y) => x = y
                 /\ In(x) # Out(y)
    /\ \A n : \A x \in Below[n] : In(x) \in Doors(n) /\ Out(x) \in Doors(n)
  BY DEF In, Out, Doors

\* A component below n is one child of one parent.
LEMMA OneParent ==
    ASSUME NEW n \in Components, NEW r \in Below[n], NEW s \in Below[n],
           NEW i \in DOMAIN Children[r], NEW j \in DOMAIN Children[s],
           Children[r][i] = Children[s][j]
    PROVE  r = s /\ i = j
  BY NamesAssumption

LEMMA OntoOnce ==
    ASSUME NEW n \in Components, NEW x, NEW y, NEW z
    PROVE  /\ Onto(n, x, z) /\ Onto(n, y, z) => x = y
           /\ Onto(n, z, x) /\ Onto(n, z, y) => x = y
<1> DEFINE First(c, d, e) == /\ Kind[c] \in Through /\ d = In(c)
                             /\ e = IF Children[c] = <<>> THEN Out(c) ELSE In(Children[c][1])
           Next2(c, i, d, e) == /\ Kind[c] \in Through /\ d = Out(Children[c][i])
                                /\ e = IF i = Len(Children[c]) THEN Out(c)
                                       ELSE In(Children[c][i + 1])
<1>1. \A d, e : Onto(n, d, e) <=> \/ \E c \in Below[n] : First(c, d, e)
                                  \/ \E c \in Below[n] : \E i \in DOMAIN Children[c] : Next2(c, i, d, e)
  BY DEF Onto
<1>2. \A c \in Below[n] : Children[c] \in Seq(Components)
  BY BelowMore
<1>3. \A c \in Below[n] : Children[c] # <<>> => 1 \in DOMAIN Children[c]
  BY <1>2
<1>4. \A c \in Below[n] : \A i \in DOMAIN Children[c] :
         /\ Children[c] # <<>> /\ i \in Nat \ {0}
         /\ i # Len(Children[c]) => i + 1 \in DOMAIN Children[c] /\ i + 1 # 1
  <2>1. ASSUME NEW c \in Below[n], NEW i \in DOMAIN Children[c]
        PROVE  /\ Children[c] # <<>> /\ i \in Nat \ {0}
               /\ i # Len(Children[c]) => i + 1 \in DOMAIN Children[c] /\ i + 1 # 1
    <3>1. PICK ch \in Seq(Components) : ch = Children[c]
      BY <1>2
    <3>2. i \in 1 .. Len(ch) /\ Len(ch) \in Nat /\ DOMAIN ch = 1 .. Len(ch)
      BY <3>1
    <3>3. QED
      BY <3>1, <3>2
  <2>2. QED
    BY <2>1
<1>5. ASSUME NEW c \in Below[n], NEW d \in Below[n], First(c, x, z), First(d, y, z)
      PROVE  x = y
  <2>1. c = d
    <3>1. CASE Children[c] = <<>> /\ Children[d] = <<>>
      BY <1>5, <3>1, DoorFacts
    <3>2. CASE Children[c] # <<>> /\ Children[d] # <<>>
      <4>1. Children[c][1] = Children[d][1]
        BY <1>5, <3>2, DoorFacts
      <4>2. QED
        BY <1>3, <3>2, <4>1, OneParent
    <3>3. QED
      BY <1>5, <3>1, <3>2, DoorFacts
  <2>2. QED
    BY <1>5, <2>1
<1>6. ASSUME NEW c \in Below[n], NEW d \in Below[n], NEW i \in DOMAIN Children[d],
             NEW v, NEW w, First(c, v, z), Next2(d, i, w, z)
      PROVE  FALSE
  <2>1. CASE Children[c] = <<>>
    BY <1>4, <1>6, <2>1, DoorFacts
  <2>2. CASE Children[c] # <<>>
    <3>1. i # Len(Children[d]) /\ Children[c][1] = Children[d][i + 1]
      BY <1>6, <2>2, DoorFacts
    <3>2. 1 \in DOMAIN Children[c] /\ i + 1 \in DOMAIN Children[d] /\ i + 1 # 1
      BY <1>3, <1>4, <2>2, <3>1
    <3>3. QED
      BY <3>1, <3>2, OneParent
  <2>3. QED
    BY <2>1, <2>2
<1>7. ASSUME NEW c \in Below[n], NEW d \in Below[n],
             NEW i \in DOMAIN Children[c], NEW j \in DOMAIN Children[d],
             Next2(c, i, x, z), Next2(d, j, y, z)
      PROVE  x = y
  <2>1. CASE i = Len(Children[c]) /\ j = Len(Children[d])
    BY <1>7, <2>1, DoorFacts
  <2>2. CASE i # Len(Children[c]) /\ j # Len(Children[d])
    <3>1. Children[c][i + 1] = Children[d][j + 1]
      BY <1>7, <2>2, DoorFacts
    <3>2. i + 1 \in DOMAIN Children[c] /\ j + 1 \in DOMAIN Children[d] /\ i \in Nat /\ j \in Nat
      BY <1>4, <2>2
    <3>3. PICK k \in DOMAIN Children[c] : k = i + 1
      BY <3>2
    <3>4. PICK l \in DOMAIN Children[d] : l = j + 1
      BY <3>2
    <3>5. c = d /\ k = l
      BY <3>1, <3>3, <3>4, OneParent
    <3>6. i = j
      BY <3>2, <3>3, <3>4, <3>5
    <3>7. QED
      BY <1>7, <3>5, <3>6
  <2>3. QED
    BY <1>7, <2>1, <2>2, DoorFacts
<1>8. ASSUME NEW c \in Below[n], NEW d \in Below[n],
             NEW i \in DOMAIN Children[c], NEW j \in DOMAIN Children[d],
             Next2(c, i, z, x), Next2(d, j, z, y)
      PROVE  x = y
  <2>1. Children[c][i] = Children[d][j]
    BY <1>8, DoorFacts
  <2>2. c = d /\ i = j
    BY <2>1, OneParent
  <2>3. QED
    BY <1>8, <2>2
<1>9. ASSUME NEW c \in Below[n], NEW d \in Below[n], First(c, z, x), First(d, z, y)
      PROVE  x = y
  BY <1>9, DoorFacts
<1>10. ASSUME NEW c \in Below[n], NEW d \in Below[n], NEW j \in DOMAIN Children[d],
              NEW v, NEW w, First(c, z, v), Next2(d, j, z, w)
       PROVE  FALSE
  BY <1>10, DoorFacts
<1> HIDE DEF First, Next2
<1>11. Onto(n, x, z) /\ Onto(n, y, z) => x = y
  BY <1>1, <1>5, <1>6, <1>7
<1>12. Onto(n, z, x) /\ Onto(n, z, y) => x = y
  BY <1>1, <1>8, <1>9, <1>10
<1>13. QED
  BY <1>11, <1>12

\* The doors at which a forward can only start, and those at which it ends.
Heads(n) == {In(n)} \cup {Out(c) : c \in {d \in Below[n] : Kind[d] \notin Through}}
    \cup UNION {{In(Children[c][i]) : i \in DOMAIN Children[c]} :
                   c \in {d \in Below[n] : Kind[d] \notin Through}}
Tails(n) == {Out(n)} \cup {In(c) : c \in {d \in Below[n] : Kind[d] \notin Through}}
    \cup UNION {{Out(Children[c][i]) : i \in DOMAIN Children[c]} :
                   c \in {d \in Below[n] : Kind[d] \notin Through}}

\* The first component is a child of none.
LEMMA NoParent ==
    ASSUME NEW n \in Components, NEW c \in Below[n], NEW i \in DOMAIN Children[c]
    PROVE  Children[c][i] # n
  BY BelowMore, NetworkAssumption

LEMMA EndsOfWires ==
    ASSUME NEW n \in Components
    PROVE  /\ Heads(n) \subseteq Doors(n) /\ Tails(n) \subseteq Doors(n)
           /\ \A x \in Heads(n) : \A y : ~Onto(n, y, x)
           /\ \A x \in Tails(n) : \A y : ~Onto(n, x, y)
<1>1. n \in Below[n]
  BY BelowFacts
<1>2. \A c \in Below[n] : /\ Children[c] \in Seq(Components)
                          /\ \A i \in DOMAIN Children[c] : Children[c][i] \in Below[n]
  BY BelowMore
<1>3. Heads(n) \subseteq Doors(n) /\ Tails(n) \subseteq Doors(n)
  BY <1>1, <1>2, DoorFacts DEF Heads, Tails
<1>4. ASSUME NEW x \in Heads(n), NEW y, Onto(n, y, x)
      PROVE  FALSE
  <2>1. PICK c \in Below[n] :
           /\ Kind[c] \in Through
           /\ x = Out(c) \/ \E i \in DOMAIN Children[c] : x = In(Children[c][i])
    <3>1. CASE \E c \in Below[n] : /\ Kind[c] \in Through
                                   /\ x = IF Children[c] = <<>> THEN Out(c) ELSE In(Children[c][1])
      <4>1. \A c \in Below[n] : Children[c] # <<>> => 1 \in DOMAIN Children[c]
        BY <1>2
      <4>2. QED
        BY <3>1, <4>1
    <3>2. ASSUME NEW c \in Below[n], NEW i \in DOMAIN Children[c], Kind[c] \in Through,
                 x = IF i = Len(Children[c]) THEN Out(c) ELSE In(Children[c][i + 1])
          PROVE  x = Out(c) \/ \E j \in DOMAIN Children[c] : x = In(Children[c][j])
      <4>1. PICK ch \in Seq(Components) : ch = Children[c]
        BY <1>2
      <4>2. i \in 1 .. Len(ch) /\ Len(ch) \in Nat /\ DOMAIN ch = 1 .. Len(ch)
        BY <4>1
      <4>3. i # Len(ch) => i + 1 \in DOMAIN ch
        BY <4>2
      <4>4. QED
        BY <3>2, <4>1, <4>3
    <3>3. QED
      BY <1>4, <3>1, <3>2 DEF Onto
  <2>2. CASE x = In(n)
    BY <2>1, <2>2, DoorFacts, NoParent
  <2>3. ASSUME NEW d \in Below[n], Kind[d] \notin Through, x = Out(d)
        PROVE  FALSE
    BY <2>1, <2>3, DoorFacts
  <2>4. ASSUME NEW d \in Below[n], Kind[d] \notin Through,
               NEW j \in DOMAIN Children[d], x = In(Children[d][j])
        PROVE  FALSE
    BY <2>1, <2>4, DoorFacts, OneParent
  <2>5. QED
    BY <2>2, <2>3, <2>4 DEF Heads
<1>5. ASSUME NEW x \in Tails(n), NEW y, Onto(n, x, y)
      PROVE  FALSE
  <2>1. PICK c \in Below[n] :
           /\ Kind[c] \in Through
           /\ x = In(c) \/ \E i \in DOMAIN Children[c] : x = Out(Children[c][i])
    BY <1>5 DEF Onto
  <2>2. CASE x = Out(n)
    BY <2>1, <2>2, DoorFacts, NoParent
  <2>3. ASSUME NEW d \in Below[n], Kind[d] \notin Through, x = In(d)
        PROVE  FALSE
    BY <2>1, <2>3, DoorFacts
  <2>4. ASSUME NEW d \in Below[n], Kind[d] \notin Through,
               NEW j \in DOMAIN Children[d], x = Out(Children[d][j])
        PROVE  FALSE
    BY <2>1, <2>4, DoorFacts, OneParent
  <2>5. QED
    BY <2>2, <2>3, <2>4 DEF Tails
<1>6. QED
  BY <1>3, <1>4, <1>5

\* A wire has one head and one tail.
LEMMA WireEnds ==
    ASSUME NEW n \in Components
    PROVE  /\ \A x, y \in Heads(n) : Wire(n, x) = Wire(n, y) => x = y
           /\ \A x, y \in Tails(n) : Wire(n, x) = Wire(n, y) => x = y
<1>1. PICK D : D = Doors(n)
  OBVIOUS
<1>2. PICK E : E = Links(n)
  OBVIOUS
<1>3. E \in SUBSET (D \X D) /\ \A e \in E : Onto(n, e[1], e[2])
  BY <1>1, <1>2 DEF Links
<1>4. /\ \A e, l \in E : e[2] = l[2] => e[1] = l[1]
      /\ \A e, l \in E : e[1] = l[1] => e[2] = l[2]
  BY <1>3, OntoOnce
<1>5. Heads(n) \subseteq D /\ Tails(n) \subseteq D
  BY <1>1, EndsOfWires
<1>6. ASSUME NEW x \in Heads(n), NEW y \in Heads(n), Wire(n, x) = Wire(n, y)
      PROVE  x = y
  <2>1. Tied(D, E, x) = Tied(D, E, y)
    BY <1>1, <1>2, <1>6 DEF Wire
  <2>2. PICK a, b : a = 1 /\ b = 2
    OBVIOUS
  <2>3. Outermost(E, b, x) /\ Outermost(E, b, y) /\ Single(E, a, b)
    BY <1>3, <1>4, <2>2, EndsOfWires DEF Outermost, Single
  <2>4. x \in D /\ y \in D /\ E \in SUBSET (D \X D)
        /\ <<a, b>> \in {<<1, 2>>, <<2, 1>>}
    BY <1>3, <1>5, <2>2
  <2>5. QED
    BY <2>1, <2>3, <2>4, OneEnd
<1>7. ASSUME NEW x \in Tails(n), NEW y \in Tails(n), Wire(n, x) = Wire(n, y)
      PROVE  x = y
  <2>1. Tied(D, E, x) = Tied(D, E, y)
    BY <1>1, <1>2, <1>7 DEF Wire
  <2>2. PICK a, b : a = 2 /\ b = 1
    OBVIOUS
  <2>3. Outermost(E, b, x) /\ Outermost(E, b, y) /\ Single(E, a, b)
    BY <1>3, <1>4, <2>2, EndsOfWires DEF Outermost, Single
  <2>4. x \in D /\ y \in D /\ E \in SUBSET (D \X D)
        /\ <<a, b>> \in {<<1, 2>>, <<2, 1>>}
    BY <1>3, <1>5, <2>2
  <2>5. QED
    BY <2>1, <2>3, <2>4, OneEnd
<1>8. QED
  BY <1>6, <1>7
-----------------------------------------------------------------------------
(***************************************************************************)
(* A port is a component that keeps tokens, or a branch of a join: what it *)
(* gives leaves by the one door, and what it takes comes by the other.     *)
(***************************************************************************)
Port(c, i) == [of |-> c, i |-> i]
Keeping == Simple \cup {"join"}
Ports(n) ==
    {Port(c, 0) : c \in {d \in Below[n] : Kind[d] \in Keeping}}
    \cup UNION {{Port(c, i) : i \in DOMAIN Children[c]} : c \in {d \in Below[n] : Kind[d] = "join"}}

GiveDoor(op, a) == IF a.i = 0 THEN Exit(op, a.of) ELSE Entrance(op, Children[a.of][a.i])
TakeDoor(op, a) == IF a.i = 0 THEN Entrance(op, a.of) ELSE Exit(op, Children[a.of][a.i])

LEMMA PortFacts ==
    ASSUME NEW n \in Components
    PROVE  /\ \A a \in Ports(n) :
                 /\ a.of \in Below[n] /\ a.of \in Components /\ a = Port(a.of, a.i)
                 /\ Kind[a.of] \notin Through
                 /\ a.i = 0 => Kind[a.of] \in Keeping
                 /\ a.i # 0 => Kind[a.of] = "join" /\ a.i \in DOMAIN Children[a.of]
           /\ \A c \in Below[n] : Kind[c] \in Keeping => Port(c, 0) \in Ports(n)
           /\ \A c \in Below[n] : Kind[c] = "join" =>
                 \A i \in DOMAIN Children[c] : Port(c, i) \in Ports(n) /\ i # 0
           /\ \A c, i : Port(c, i).of = c /\ Port(c, i).i = i
<1>1. \A c, i : Port(c, i).of = c /\ Port(c, i).i = i
  BY DEF Port
<1>2. \A c \in Below[n] : c \in Components /\ Children[c] \in Seq(Components)
  BY BelowMore
<1>3. \A c \in Below[n] : \A i \in DOMAIN Children[c] : i # 0
  BY <1>2
<1>4. ASSUME NEW a \in Ports(n)
      PROVE  /\ a.of \in Below[n] /\ a = Port(a.of, a.i)
             /\ \/ a.i = 0 /\ Kind[a.of] \in Keeping
                \/ a.i # 0 /\ Kind[a.of] = "join" /\ a.i \in DOMAIN Children[a.of]
  <2>1. ASSUME NEW c \in Below[n], Kind[c] \in Keeping, a = Port(c, 0)
        PROVE  a.of = c /\ a.i = 0
    BY <1>1, <2>1
  <2>2. ASSUME NEW c \in Below[n], Kind[c] = "join", NEW i \in DOMAIN Children[c], a = Port(c, i)
        PROVE  a.of = c /\ a.i = i /\ i # 0
    BY <1>1, <1>3, <2>2
  <2>3. \/ \E c \in Below[n] : Kind[c] \in Keeping /\ a = Port(c, 0)
        \/ \E c \in Below[n] : Kind[c] = "join" /\ \E i \in DOMAIN Children[c] : a = Port(c, i)
    BY DEF Ports
  <2>4. QED
    BY <2>1, <2>2, <2>3
<1>5. \A a \in Ports(n) : Kind[a.of] \notin Through
  BY <1>4 DEF Keeping, Simple, Through
<1>6. /\ \A c \in Below[n] : Kind[c] \in Keeping => Port(c, 0) \in Ports(n)
      /\ \A c \in Below[n] : Kind[c] = "join" => \A i \in DOMAIN Children[c] : Port(c, i) \in Ports(n)
  BY DEF Ports
<1>7. QED
  BY <1>1, <1>2, <1>3, <1>4, <1>5, <1>6

\* What a forward takes by a door, a backprop gives by it.
Against(op) == IF op = "forward" THEN "backprop" ELSE "forward"

LEMMA Backwards ==
    ASSUME NEW op \in Directions
    PROVE  /\ Against(op) \in Directions
           /\ \A a : TakeDoor(op, a) = GiveDoor(Against(op), a)
           /\ \A x : Exit(op, x) = Entrance(Against(op), x)
<1>1. \A x : /\ Exit(op, x) = Entrance(Against(op), x)
             /\ Entrance(op, x) = Exit(Against(op), x)
  BY DEF Directions, Against, Entrance, Exit
<1>2. Against(op) \in Directions
  BY DEF Directions, Against
<1>3. QED
  BY <1>1, <1>2 DEF TakeDoor, GiveDoor

\* The doors of the ports are the ends of different wires.
LEMMA Givers ==
    ASSUME NEW n \in Components, NEW op \in Directions
    PROVE  /\ \A a, b \in Ports(n) :
                 Wire(n, GiveDoor(op, a)) = Wire(n, GiveDoor(op, b)) => a = b
           /\ \A a \in Ports(n) : Wire(n, GiveDoor(op, a)) # Wire(n, Entrance(op, n))
<1>1. PICK S : S = IF op = "forward" THEN Heads(n) ELSE Tails(n)
  OBVIOUS
<1>2. ASSUME NEW a \in Ports(n)
      PROVE  GiveDoor(op, a) \in S
  <2>1. CASE a.i = 0
    BY <1>1, <2>1, PortFacts DEF GiveDoor, Exit, Heads, Tails
  <2>2. CASE a.i # 0
    BY <1>1, <2>2, PortFacts DEF GiveDoor, Entrance, Heads, Tails
  <2>3. QED
    BY <2>1, <2>2
<1>3. Entrance(op, n) \in S
  BY <1>1 DEF Entrance, Heads, Tails
<1>4. \A x, y \in S : Wire(n, x) = Wire(n, y) => x = y
  BY <1>1, WireEnds
<1>5. /\ \A x, y : Entrance(op, x) = Entrance(op, y) => x = y
      /\ \A x, y : Exit(op, x) = Exit(op, y) => x = y
      /\ \A x, y : Entrance(op, x) # Exit(op, y)
  BY DoorFacts DEF Entrance, Exit
<1>6. ASSUME NEW a \in Ports(n), NEW b \in Ports(n), GiveDoor(op, a) = GiveDoor(op, b)
      PROVE  a = b
  <2>1. CASE a.i = 0 /\ b.i = 0
    <3>1. a.of = b.of
      BY <1>5, <1>6, <2>1 DEF GiveDoor
    <3>2. QED
      BY <2>1, <3>1, PortFacts
  <2>2. CASE a.i # 0 /\ b.i # 0
    <3>1. Children[a.of][a.i] = Children[b.of][b.i]
      BY <1>5, <1>6, <2>2 DEF GiveDoor
    <3>2. PICK r \in Below[n] : r = a.of /\ a.i \in DOMAIN Children[r] /\ a = Port(r, a.i)
      BY <2>2, PortFacts
    <3>3. PICK s \in Below[n] : s = b.of /\ b.i \in DOMAIN Children[s] /\ b = Port(s, b.i)
      BY <2>2, PortFacts
    <3>4. r = s /\ a.i = b.i
      BY <3>1, <3>2, <3>3, OneParent
    <3>5. QED
      BY <3>2, <3>3, <3>4
  <2>3. QED
    BY <1>5, <1>6, <2>1, <2>2 DEF GiveDoor
<1>7. ASSUME NEW a \in Ports(n), GiveDoor(op, a) = Entrance(op, n)
      PROVE  FALSE
  <2>1. a.i # 0 /\ Children[a.of][a.i] = n
    BY <1>5, <1>7 DEF GiveDoor
  <2>2. QED
    BY <2>1, PortFacts, NoParent
<1>8. QED
  BY <1>2, <1>3, <1>4, <1>6, <1>7

LEMMA Takers ==
    ASSUME NEW n \in Components, NEW op \in Directions
    PROVE  /\ \A a, b \in Ports(n) :
                 Wire(n, TakeDoor(op, a)) = Wire(n, TakeDoor(op, b)) => a = b
           /\ \A a \in Ports(n) : Wire(n, TakeDoor(op, a)) # Wire(n, Exit(op, n))
<1>1. PICK q \in Directions : q = Against(op)
  BY Backwards
<1>2. /\ \A a, b \in Ports(n) : Wire(n, GiveDoor(q, a)) = Wire(n, GiveDoor(q, b)) => a = b
      /\ \A a \in Ports(n) : Wire(n, GiveDoor(q, a)) # Wire(n, Entrance(q, n))
  BY Givers
<1>3. QED
  BY <1>1, <1>2, Backwards
-----------------------------------------------------------------------------
(***************************************************************************)
(* The invariant: what is given to a wire is what is taken from it, unless *)
(* the call has still to pass there.                                       *)
(***************************************************************************)
Spot(h, a, f, v) == IF a.i = 0 THEN Member(a.of, f) ELSE Entry(h.at[Member(a.of, v)], a.i)

\* The members and vectors that the call op fills.
Result(op, c) ==
    IF op = "forward" THEN "output" ELSE IF Kind[c] = "bias" THEN "error_input" ELSE "error_output"
Argument(op) == IF op = "forward" THEN "input" ELSE "error_input"
Shares(op) == IF op = "forward" THEN "input_vector" ELSE "error_input_vector"
Returns(op) == IF op = "forward" THEN "output_vector" ELSE "error_output_vector"

\* A join gives its branches what is in one vector, and takes what they return
\* in another one.
Gave(op, h, a) == h.at[Spot(h, a, Result(op, a.of), Shares(op))]

\* A token u made to wrap t.
Wraps(h, u, t) ==
    /\ u \in Live(h) /\ h.type[u] = "vector"
    /\ Entry(u, 1) \in DOMAIN h.at /\ h.at[Entry(u, 1)] = t
    /\ \A q \in VectorRoots : h.at[q] # u

Took(op, h, b, t) ==
    LET u == h.at[Spot(h, b, Argument(op), Returns(op))] IN
    u = t \/ (op = "forward" /\ b.i = 0 /\ Wraps(h, u, t))

\* The doors that a step has still to pass.
Branches(s) == CASE s.op \in Loops -> {j \in DOMAIN Children[s.c] : s.i <= j}
                 [] s.op \in Keeps -> {j \in DOMAIN Children[s.c] : s.i < j}
                 [] OTHER -> {}
Ahead(op, s) ==
    {Exit(op, s.c)}
    \cup (IF s.op \in Directions THEN Doors(s.c) ELSE {})
    \cup (IF s.op \in Keeps THEN {Exit(op, Children[s.c][s.i])} ELSE {})
    \cup UNION {Doors(Children[s.c][j]) : j \in Branches(s)}

Reaches(n, op, s, w) == \E x \in Ahead(op, s) : Wire(n, x) = w
Awaits(n, op, steps, w) == \E k \in DOMAIN steps : Reaches(n, op, steps[k], w)

\* The door at which a step takes what is passed on.
Takes(op, s) == s.op = op \/ s.op \in Keeps
Door(op, s) == IF s.op \in Keeps THEN Exit(op, Children[s.c][s.i]) ELSE Entrance(op, s.c)
Ties(n, op, a, b) == Takes(op, b) /\ Wire(n, Exit(op, a.c)) = Wire(n, Door(op, b))

\* Each step takes what the one before it returns; the last one returns to n.
InLine(n, op, steps) == \A j, k \in DOMAIN steps : k = j + 1 => Ties(n, op, steps[j], steps[k])
LeadsTo(n, op, steps, c) ==
    \A k \in DOMAIN steps : k + 1 \notin DOMAIN steps =>
        Wire(n, Exit(op, steps[k].c)) = Wire(n, Exit(op, c))
Chained(n, op, steps) == InLine(n, op, steps) /\ LeadsTo(n, op, steps, n)

\* What is passed to s is what was given to its wire.
BringsTo(n, op, x, h, t) ==
    \A a \in Ports(n) : Wire(n, GiveDoor(op, a)) = Wire(n, x) => t = Gave(op, h, a)
Brings(n, op, s, h, t) == Takes(op, s) => BringsTo(n, op, Door(op, s), h, t)

Fits(n, op, h, steps) ==
    \A a, b \in Ports(n) :
       /\ Wire(n, GiveDoor(op, a)) = Wire(n, TakeDoor(op, b))
       /\ ~Awaits(n, op, steps, Wire(n, TakeDoor(op, b)))
       => Took(op, h, b, Gave(op, h, a))

ToDo(op) == IF call = op THEN todo ELSE <<>>

WireInv ==
    /\ last[1] \in {"none", "forward", "backprop"}
    /\ outcome = "running" /\ Ran =>
          /\ last[2] \in Parts
          /\ Fits(last[2], "forward", heap, ToDo("forward"))
          /\ last[1] = "backprop" => Fits(last[2], "backprop", heap, ToDo("backprop"))
          /\ Running => /\ Chained(last[2], call, todo)
                        /\ todo # <<>> => Brings(last[2], call, Head(todo), heap, hand)
-----------------------------------------------------------------------------
(***************************************************************************)
(* A step of a forward or a backprop                                       *)
(***************************************************************************)
\* The door w is to be passed by steps, or after s.
Later(n, op, s, steps, w) == w = Wire(n, Exit(op, s.c)) \/ Awaits(n, op, steps, w)

\* The step s, with t, changes the heap h to g, passes u on and leaves steps.
Flows(n, op, s, h, t, g, u, steps) ==
    /\ InLine(n, op, steps) /\ LeadsTo(n, op, steps, s.c)
    /\ \A b \in Ports(n) :
          \/ Later(n, op, s, steps, Wire(n, TakeDoor(op, b)))
          \/ /\ Takes(op, s) /\ Wire(n, TakeDoor(op, b)) = Wire(n, Door(op, s))
             /\ Took(op, g, b, t)
          \/ /\ ~Reaches(n, op, s, Wire(n, TakeDoor(op, b)))
             /\ \A x : Took(op, h, b, x) => Took(op, g, b, x)
    /\ \A a \in Ports(n) :
          \/ Later(n, op, s, steps, Wire(n, GiveDoor(op, a)))
          \/ Gave(op, g, a) = Gave(op, h, a)
    /\ IF steps = <<>> THEN BringsTo(n, op, Exit(op, s.c), g, u)
                       ELSE Brings(n, op, steps[1], g, u)

\* The end of what is left is the end of what there was.
LEMMA LastOfNew ==
    ASSUME NEW old \in Seq(Steps), old # <<>>, NEW steps \in Seq(Steps),
           NEW new, new = steps \o Tail(old), NEW k \in DOMAIN new, k + 1 \notin DOMAIN new
    PROVE  \/ \E j \in DOMAIN old : j + 1 \notin DOMAIN old /\ new[k] = old[j]
           \/ /\ k \in DOMAIN steps /\ k + 1 \notin DOMAIN steps /\ new[k] = steps[k]
              /\ 1 \in DOMAIN old /\ 2 \notin DOMAIN old
<1>0. Tail(old) \in Seq(Steps)
  OBVIOUS
<1>1. PICK t \in Seq(Steps) : t = Tail(old)
  BY <1>0
<1>2. /\ Len(old) \in Nat \ {0} /\ Len(t) = Len(old) - 1 /\ DOMAIN old = 1 .. Len(old)
      /\ \A j \in 1 .. Len(t) : t[j] = old[j + 1]
  BY <1>1
<1>3. /\ Len(new) = Len(steps) + Len(t) /\ DOMAIN new = 1 .. Len(steps) + Len(t)
      /\ Len(steps) \in Nat /\ DOMAIN steps = 1 .. Len(steps) /\ Len(t) \in Nat
      /\ \A j \in 1 .. Len(steps) : new[j] = steps[j]
      /\ \A j \in 1 .. Len(t) : new[Len(steps) + j] = t[j]
  BY <1>1
<1>4. k \in Nat /\ k = Len(steps) + Len(t)
  BY <1>3
<1>5. CASE Len(t) = 0
  <2>1. Len(old) = 1 /\ k = Len(steps)
    BY <1>2, <1>3, <1>4, <1>5
  <2>2. 1 \in DOMAIN old /\ 2 \notin DOMAIN old
    BY <1>2, <2>1
  <2>3. k \in DOMAIN steps /\ k + 1 \notin DOMAIN steps
    BY <1>3, <2>1
  <2>4. QED
    BY <1>3, <2>2, <2>3
<1>6. CASE Len(t) # 0
  <2>1. Len(t) \in 1 .. Len(t)
    BY <1>3, <1>6
  <2>2. new[k] = t[Len(t)] /\ t[Len(t)] = old[Len(t) + 1] /\ Len(t) + 1 = Len(old)
    BY <1>2, <1>3, <1>4, <2>1
  <2>3. Len(old) \in DOMAIN old /\ Len(old) + 1 \notin DOMAIN old
    BY <1>2
  <2>4. QED
    BY <2>2, <2>3
<1>7. QED
  BY <1>5, <1>6

\* What is to come next passes the door by which the step returns.
LEMMA Onward ==
    ASSUME NEW n \in Components, NEW op \in Directions, NEW old \in Seq(Steps), old # <<>>,
           Chained(n, op, old), NEW steps \in Seq(Steps), NEW new, Spliced(old, steps, new),
           NEW b \in Ports(n), Later(n, op, Head(old), steps, Wire(n, TakeDoor(op, b)))
    PROVE  Awaits(n, op, new, Wire(n, TakeDoor(op, b)))
<1>1. PICK w : w = Wire(n, TakeDoor(op, b))
  OBVIOUS
<1>2. Head(old) = old[1] /\ 1 \in DOMAIN old
  OBVIOUS
<1>3. CASE Awaits(n, op, steps, w)
  BY <1>1, <1>3 DEF Awaits, Spliced
<1>4. CASE w = Wire(n, Exit(op, old[1].c))
  <2>1. CASE 2 \in DOMAIN old
    <3>1. PICK r : r = old[2]
      OBVIOUS
    <3>2. Ties(n, op, old[1], r)
      <4>1. 2 = 1 + 1
        OBVIOUS
      <4>2. QED
        BY <1>2, <2>1, <3>1, <4>1 DEF Chained, InLine
    <3>3. Takes(op, r) /\ w = Wire(n, Door(op, r))
      BY <1>4, <3>2 DEF Ties
    <3>4. Door(op, r) \in Ahead(op, r)
      <4>1. CASE r.op \in Keeps
        BY <4>1 DEF Ahead, Door
      <4>2. CASE r.op \notin Keeps
        <5>1. r.op \in Directions /\ r.c \in Components
          <6>1. r \in Steps
            BY <2>1, <3>1
          <6>2. QED
            BY <3>3, <4>2, <6>1 DEF Takes, Steps
        <5>2. r.c \in Below[r.c]
          BY <5>1, BelowFacts
        <5>3. Entrance(op, r.c) \in Doors(r.c)
          BY <5>2, DoorFacts DEF Entrance
        <5>4. QED
          BY <4>2, <5>1, <5>3 DEF Ahead, Door
      <4>3. QED
        BY <4>1, <4>2
    <3>5. Reaches(n, op, r, w)
      BY <3>3, <3>4 DEF Reaches
    <3>6. \E j \in DOMAIN new : new[j] = r
      <4>1. 2 # 1
        OBVIOUS
      <4>2. QED
        BY <2>1, <3>1, <4>1 DEF Spliced
    <3>7. QED
      BY <1>1, <3>5, <3>6 DEF Awaits
  <2>2. CASE 2 \notin DOMAIN old
    <3>1. 2 = 1 + 1
      OBVIOUS
    <3>2. w = Wire(n, Exit(op, n))
      BY <1>2, <1>4, <2>2, <3>1 DEF Chained, LeadsTo
    <3>3. QED
      BY <1>1, <3>2, Takers
  <2>3. QED
    BY <2>1, <2>2
<1>5. QED
  BY <1>1, <1>2, <1>3, <1>4 DEF Later

LEMMA FlowStep ==
    ASSUME NEW n \in Components, NEW op \in Directions, NEW old \in Seq(Steps), old # <<>>,
           NEW steps \in Seq(Steps), NEW new, new = steps \o Tail(old),
           NEW h, NEW t, NEW g, NEW u,
           Chained(n, op, old), Fits(n, op, h, old), Brings(n, op, Head(old), h, t),
           Flows(n, op, Head(old), h, t, g, u, steps)
    PROVE  /\ Chained(n, op, new) /\ Fits(n, op, g, new)
           /\ new # <<>> => Brings(n, op, Head(new), g, u)
<1>1. Spliced(old, steps, new)
  BY TodoParts
<1>2. Head(old) = old[1] /\ 1 \in DOMAIN old
  OBVIOUS
<1>3. PICK s : s = Head(old)
  OBVIOUS
<1>4. InLine(n, op, steps) /\ LeadsTo(n, op, steps, s.c)
  BY <1>3 DEF Flows
<1>5. 2 \in DOMAIN old => Ties(n, op, s, old[2])
  <2>1. 2 = 1 + 1
    OBVIOUS
  <2>2. QED
    BY <1>2, <1>3, <2>1 DEF Chained, InLine
<1>6. InLine(n, op, new)
  <2>1. ASSUME NEW j \in DOMAIN new, NEW k \in DOMAIN new, k = j + 1
        PROVE  Ties(n, op, new[j], new[k])
    <3>1. CASE j \in DOMAIN steps /\ k \in DOMAIN steps
      BY <1>1, <1>4, <2>1, <3>1 DEF InLine, Spliced
    <3>2. CASE /\ steps # <<>> /\ j = Len(steps) /\ j \in DOMAIN steps
               /\ 2 \in DOMAIN old /\ new[k] = old[2]
      <4>1. j + 1 \notin DOMAIN steps
        BY <3>2
      <4>2. Wire(n, Exit(op, steps[j].c)) = Wire(n, Exit(op, s.c))
        BY <1>4, <3>2, <4>1 DEF LeadsTo
      <4>3. new[j] = steps[j]
        BY <1>1, <3>2 DEF Spliced
      <4>4. QED
        BY <1>5, <3>2, <4>2, <4>3 DEF Ties
    <3>3. CASE \E a, b \in DOMAIN old : b = a + 1 /\ new[j] = old[a] /\ new[k] = old[b]
      BY <3>3 DEF Chained, InLine
    <3>4. QED
      BY <1>1, <2>1, <3>1, <3>2, <3>3 DEF Spliced
  <2>2. QED
    BY <2>1 DEF InLine
<1>7. LeadsTo(n, op, new, n)
  <2>1. ASSUME NEW k \in DOMAIN new, k + 1 \notin DOMAIN new
        PROVE  Wire(n, Exit(op, new[k].c)) = Wire(n, Exit(op, n))
    <3>1. CASE \E j \in DOMAIN old : j + 1 \notin DOMAIN old /\ new[k] = old[j]
      BY <3>1 DEF Chained, LeadsTo
    <3>2. CASE /\ k \in DOMAIN steps /\ k + 1 \notin DOMAIN steps /\ new[k] = steps[k]
               /\ 1 \in DOMAIN old /\ 2 \notin DOMAIN old
      <4>1. Wire(n, Exit(op, new[k].c)) = Wire(n, Exit(op, s.c))
        BY <1>4, <3>2 DEF LeadsTo
      <4>2. 1 + 1 \notin DOMAIN old
        BY <3>2
      <4>3. Wire(n, Exit(op, s.c)) = Wire(n, Exit(op, n))
        BY <1>2, <1>3, <4>2 DEF Chained, LeadsTo
      <4>4. QED
        BY <4>1, <4>3
    <3>3. QED
      BY <2>1, <3>1, <3>2, LastOfNew
  <2>2. QED
    BY <2>1 DEF LeadsTo
<1>8. \A b \in Ports(n) : Later(n, op, s, steps, Wire(n, TakeDoor(op, b)))
                             => Awaits(n, op, new, Wire(n, TakeDoor(op, b)))
  BY <1>1, <1>3, Onward
<1>9. \A w : Awaits(n, op, old, w) => Reaches(n, op, s, w) \/ Awaits(n, op, new, w)
  <2>1. \A k \in DOMAIN old : k = 1 \/ \E j \in DOMAIN new : new[j] = old[k]
    BY <1>1 DEF Spliced
  <2>2. QED
    BY <1>2, <1>3, <2>1 DEF Awaits
<1>10. ASSUME NEW a \in Ports(n), NEW b \in Ports(n),
              Wire(n, GiveDoor(op, a)) = Wire(n, TakeDoor(op, b)),
              ~Awaits(n, op, new, Wire(n, TakeDoor(op, b)))
       PROVE  Took(op, g, b, Gave(op, g, a))
  <2>1. PICK w : w = Wire(n, TakeDoor(op, b))
    OBVIOUS
  <2>2. ~Later(n, op, s, steps, w)
    BY <1>8, <1>10, <2>1
  <2>3. Gave(op, g, a) = Gave(op, h, a)
    BY <1>3, <1>10, <2>1, <2>2 DEF Flows
  <2>4. \/ Takes(op, s) /\ w = Wire(n, Door(op, s)) /\ Took(op, g, b, t)
        \/ /\ ~Reaches(n, op, s, w)
           /\ \A x : Took(op, h, b, x) => Took(op, g, b, x)
    BY <1>3, <2>1, <2>2 DEF Flows
  <2>5. CASE Takes(op, s) /\ w = Wire(n, Door(op, s)) /\ Took(op, g, b, t)
    <3>1. t = Gave(op, h, a)
      BY <1>3, <1>10, <2>1, <2>5 DEF Brings, BringsTo
    <3>2. QED
      BY <2>3, <2>5, <3>1
  <2>6. CASE /\ ~Reaches(n, op, s, w)
             /\ \A x : Took(op, h, b, x) => Took(op, g, b, x)
    <3>1. ~Awaits(n, op, old, w)
      BY <1>9, <1>10, <2>1, <2>6
    <3>2. Took(op, h, b, Gave(op, h, a))
      BY <1>10, <2>1, <3>1 DEF Fits
    <3>3. QED
      BY <2>3, <2>6, <3>2
  <2>7. QED
    BY <2>4, <2>5, <2>6
<1>11. Fits(n, op, g, new)
  BY <1>10 DEF Fits
<1>12. ASSUME new # <<>>
       PROVE  Brings(n, op, Head(new), g, u)
  <2>1. CASE steps # <<>>
    BY <1>1, <2>1 DEF Flows, Spliced
  <2>2. CASE steps = <<>>
    <3>1. 2 \in DOMAIN old /\ Head(new) = old[2]
      BY <1>1, <1>12, <2>2 DEF Spliced
    <3>2. BringsTo(n, op, Exit(op, s.c), g, u)
      BY <1>3, <2>2 DEF Flows
    <3>3. QED
      BY <1>5, <3>1, <3>2 DEF Ties, Brings, BringsTo
  <2>3. QED
    BY <2>1, <2>2
<1>13. QED
  BY <1>6, <1>7, <1>11, <1>12 DEF Chained
-----------------------------------------------------------------------------
(***************************************************************************)
(* The places of the ports                                                 *)
(***************************************************************************)
LEMMA Sides ==
    ASSUME NEW n \in Components, NEW a \in Ports(n), NEW op \in Directions
    PROVE  /\ a.i = 0 => /\ Result(op, a.of) \in MembersOf(a.of) \cap Members
                         /\ Argument(op) \in MembersOf(a.of) \cap Members
           /\ Shares(op) \in Vectors /\ Returns(op) \in Vectors /\ Shares(op) # Returns(op)
<1>1. Shares(op) \in Vectors /\ Returns(op) \in Vectors /\ Shares(op) # Returns(op)
  BY DEF Shares, Returns, Vectors
<1>2. ASSUME a.i = 0
      PROVE  /\ Result(op, a.of) \in MembersOf(a.of) \cap Members
             /\ Argument(op) \in MembersOf(a.of) \cap Members
  <2>1. PICK k : k = Kind[a.of]
    OBVIOUS
  <2>2. k \in {"dot_product", "bias", "activation", "copy", "join"}
    BY <1>2, <2>1, PortFacts DEF Keeping, Simple
  <2>3. /\ k # "bias" => Members \subseteq MembersOf(a.of)
        /\ k = "bias" => Members \ {"error_output"} \subseteq MembersOf(a.of)
    BY <2>1, <2>2 DEF MembersOf
  <2>4. QED
    BY <2>1, <2>3 DEF Result, Argument, Members
<1>3. QED
  BY <1>1, <1>2

\* The place of a port is a member of its component or an entry of one of its
\* vectors.
SpotIs(a, f, v, p) ==
    /\ p \in DOMAIN heap.at /\ p \notin VectorRoots
    /\ a.i = 0 => p = Member(a.of, f) /\ p \in Roots
    /\ a.i # 0 => /\ Member(a.of, v) \in VectorRoots
                  /\ p = Entry(heap.at[Member(a.of, v)], a.i) /\ p \notin Roots
                  /\ \A q \in VectorRoots : heap.at[q] = p.of => q = Member(a.of, v)

LEMMA SpotFacts ==
    ASSUME Sound(heap), VectorsMade(heap), NEW n \in Components, NEW a \in Ports(n),
           NEW f, a.i = 0 => f \in MembersOf(a.of) \cap Members, NEW v \in Vectors,
           NEW p, p = Spot(heap, a, f, v)
    PROVE  SpotIs(a, f, v, p)
<1>1. a.of \in Components
  BY PortFacts
<1>2. ASSUME a.i = 0
      PROVE  p = Member(a.of, f) /\ p \in Roots /\ p \in DOMAIN heap.at /\ p \notin VectorRoots
  <2>1. p = Member(a.of, f) /\ f \in MembersOf(a.of) /\ f \notin Vectors
    BY <1>2 DEF Spot, Members, Vectors
  <2>2. p \in Roots /\ p.member = f
    BY <1>1, <2>1, Places
  <2>3. QED
    BY <2>1, <2>2, SoundFacts DEF VectorRoots
<1>3. ASSUME a.i # 0
      PROVE  /\ Member(a.of, v) \in VectorRoots
             /\ p = Entry(heap.at[Member(a.of, v)], a.i) /\ p \notin Roots
             /\ p \in DOMAIN heap.at /\ p \notin VectorRoots
             /\ \A q \in VectorRoots : heap.at[q] = p.of => q = Member(a.of, v)
  <2>1. Kind[a.of] = "join" /\ a.i \in DOMAIN Children[a.of]
    BY <1>3, PortFacts
  <2>2. PICK q : q = Member(a.of, v)
    OBVIOUS
  <2>3. PICK t : t = heap.at[q]
    OBVIOUS
  <2>4. p = Entry(t, a.i)
    BY <1>3, <2>2, <2>3 DEF Spot
  <2>5. /\ q \in VectorRoots /\ EntriesOf(heap, t) \subseteq DOMAIN heap.at
        /\ EntriesOf(heap, t) = {Entry(t, i) : i \in DOMAIN Children[a.of]}
        /\ EntriesOf(heap, t) \cap Roots = {}
    <3>1. PICK c \in Components : c = a.of
      BY <1>1
    <3>2. t = heap.at[Member(c, v)] /\ Kind[c] = "join" /\ v \in Vectors
      BY <2>1, <2>2, <2>3, <3>1
    <3>3. /\ Member(c, v) \in VectorRoots /\ EntriesOf(heap, t) \subseteq DOMAIN heap.at
          /\ EntriesOf(heap, t) = {Entry(t, i) : i \in DOMAIN Children[c]}
          /\ EntriesOf(heap, t) \cap Roots = {}
      BY <3>2, VectorEntries
    <3>4. QED
      BY <2>2, <3>1, <3>3
  <2>6. p \in DOMAIN heap.at /\ p \notin Roots /\ p.of = t
    BY <2>1, <2>4, <2>5, RootsApart
  <2>7. \A r \in VectorRoots : heap.at[r] = t => r = q
    BY <2>3, <2>5, SoundFacts DEF VectorsMade
  <2>8. QED
    BY <2>2, <2>3, <2>4, <2>5, <2>6, <2>7 DEF VectorRoots
<1>4. QED
  BY <1>2, <1>3 DEF SpotIs

\* Only the places W have changed, and no token has gone.  The entries in W
\* are those of joins, whose vectors stay.
Grows(g, W) ==
    /\ Changes(heap, g, W)
    /\ \A x \in Live(heap) : x \in Live(g) /\ g.type[x] = heap.type[x]
    /\ W \cap VectorRoots = {}
    /\ \A p \in W : p \in Roots \/ \E q \in VectorRoots : heap.at[q] = p.of

LEMMA SpotStays ==
    ASSUME Sound(heap), NEW a, NEW f, NEW v, NEW p, p = Spot(heap, a, f, v), SpotIs(a, f, v, p),
           NEW g, NEW W, Grows(g, W)
    PROVE  /\ Spot(g, a, f, v) = p
           /\ p \notin W => g.at[p] = heap.at[p]
<1>1. \A q \in DOMAIN heap.at : q \notin W => g.at[q] = heap.at[q]
  BY DEF Grows, Changes
<1>2. \A q \in VectorRoots : g.at[q] = heap.at[q]
  BY <1>1, SoundFacts DEF Grows
<1>3. Spot(g, a, f, v) = p
  BY <1>2 DEF SpotIs, Spot
<1>4. QED
  BY <1>1, <1>3 DEF SpotIs

GiveSpot(op, a) == Spot(heap, a, Result(op, a.of), Shares(op))
TakeSpot(op, a) == Spot(heap, a, Argument(op), Returns(op))

LEMMA Unmoved ==
    ASSUME Sound(heap), VectorsMade(heap), NEW n \in Components, NEW a \in Ports(n),
           NEW op \in Directions, NEW g, NEW W, Grows(g, W)
    PROVE  /\ GiveSpot(op, a) \notin W => Gave(op, g, a) = Gave(op, heap, a)
           /\ Gave(op, g, a) = g.at[GiveSpot(op, a)]
           /\ TakeSpot(op, a) \notin W => \A x : Took(op, heap, a, x) => Took(op, g, a, x)
           /\ \A x : g.at[TakeSpot(op, a)] = x => Took(op, g, a, x)
           /\ SpotIs(a, Result(op, a.of), Shares(op), GiveSpot(op, a))
           /\ SpotIs(a, Argument(op), Returns(op), TakeSpot(op, a))
<1>1. PICK p : p = GiveSpot(op, a)
  OBVIOUS
<1>2. PICK r : r = TakeSpot(op, a)
  OBVIOUS
<1>3. PICK f : f = Result(op, a.of)
  OBVIOUS
<1>4. PICK e : e = Argument(op)
  OBVIOUS
<1>5. PICK v \in Vectors : v = Shares(op)
  BY Sides
<1>6. PICK w \in Vectors : w = Returns(op)
  BY Sides
<1>7. a.i = 0 => f \in MembersOf(a.of) \cap Members /\ e \in MembersOf(a.of) \cap Members
  BY <1>3, <1>4, Sides
<1>8. p = Spot(heap, a, f, v) /\ r = Spot(heap, a, e, w)
  BY <1>1, <1>2, <1>3, <1>4, <1>5, <1>6 DEF GiveSpot, TakeSpot
<1>9. SpotIs(a, f, v, p) /\ SpotIs(a, e, w, r)
  BY <1>7, <1>8, SpotFacts
<1>10. /\ Spot(g, a, f, v) = p /\ (p \notin W => g.at[p] = heap.at[p])
       /\ Spot(g, a, e, w) = r /\ (r \notin W => g.at[r] = heap.at[r])
  BY <1>8, <1>9, SpotStays
<1>11. /\ Gave(op, g, a) = g.at[p] /\ Gave(op, heap, a) = heap.at[p]
  BY <1>3, <1>5, <1>8, <1>10 DEF Gave
<1>12. \A h \in {heap, g} : \A x : Took(op, h, a, x) <=>
           h.at[r] = x \/ (op = "forward" /\ a.i = 0 /\ Wraps(h, h.at[r], x))
  BY <1>4, <1>6, <1>8, <1>10 DEF Took
<1>13. ASSUME NEW u, NEW x, Wraps(heap, u, x)
       PROVE  Wraps(g, u, x)
  <2>1. PICK q : q = Entry(u, 1)
    OBVIOUS
  <2>2. /\ u \in Live(heap) /\ heap.type[u] = "vector" /\ q \in DOMAIN heap.at /\ heap.at[q] = x
        /\ \A y \in VectorRoots : heap.at[y] # u
    BY <1>13, <2>1 DEF Wraps
  <2>3. q \notin Roots /\ q.of = u
    BY <2>1, RootsApart
  <2>4. q \notin W
    BY <2>2, <2>3 DEF Grows
  <2>5. q \in DOMAIN g.at /\ g.at[q] = x
    BY <2>2, <2>4 DEF Grows, Changes
  <2>6. \A y \in VectorRoots : g.at[y] = heap.at[y]
    BY SoundFacts DEF Grows, Changes
  <2>7. u \in Live(g) /\ g.type[u] = "vector"
    BY <2>2 DEF Grows
  <2>8. QED
    BY <2>1, <2>2, <2>5, <2>6, <2>7 DEF Wraps
<1>14. ASSUME r \notin W, NEW x, Took(op, heap, a, x)
       PROVE  Took(op, g, a, x)
  BY <1>10, <1>12, <1>13, <1>14
<1>15. \A x : g.at[r] = x => Took(op, g, a, x)
  BY <1>12
<1>16. QED
  BY <1>1, <1>2, <1>3, <1>4, <1>5, <1>6, <1>9, <1>10, <1>11, <1>14, <1>15

\* Which of them are those of Me.
LEMMA MySpot ==
    ASSUME TokensInv, Running, Me \in Components, NEW n \in Components, NEW a \in Ports(n),
           NEW f \in Members, NEW v \in Vectors, NEW p, SpotIs(a, f, v, p)
    PROVE  /\ \A e \in Members : p = Mine(e) => a = Port(Me, 0) /\ a.i = 0 /\ f = e
           /\ Kind[Me] = "join" =>
                 \A w \in Vectors : p \in MyEntries(w) => a.of = Me /\ a.i # 0 /\ v = w
           /\ Kind[Me] = "join" /\ a.of = Me /\ a.i # 0 => p = Entry(Here(v), a.i)
<1>1. ASSUME NEW e \in Members, p = Mine(e)
      PROVE  a = Port(Me, 0) /\ a.i = 0 /\ f = e
  <2>1. Mine(e).member = e /\ Mine(e).of = Me /\ e # "entry"
    BY Places DEF Mine, Members
  <2>2. a.i = 0
    BY <1>1, <2>1, RootsApart DEF SpotIs
  <2>3. p = Member(a.of, f)
    BY <2>2 DEF SpotIs
  <2>4. a.of = Me /\ f = e
    BY <1>1, <2>1, <2>3, Places
  <2>5. QED
    BY <2>2, <2>4, PortFacts
<1>2. ASSUME Kind[Me] = "join", NEW w \in Vectors, p \in MyEntries(w)
      PROVE  a.of = Me /\ a.i # 0 /\ v = w
  <2>1. /\ Mine(w) \in VectorRoots /\ Mine(w).of = Me /\ Mine(w).member = w
        /\ Here(w) = heap.at[Mine(w)] /\ p.of = Here(w) /\ p \notin Roots
    BY <1>2, MyVector DEF Running
  <2>2. a.i # 0
    BY <2>1 DEF SpotIs
  <2>3. Mine(w) = Member(a.of, v)
    BY <2>1, <2>2 DEF SpotIs
  <2>4. QED
    BY <2>1, <2>2, <2>3, Places
<1>3. ASSUME Kind[Me] = "join", a.of = Me, a.i # 0
      PROVE  p = Entry(Here(v), a.i)
  <2>1. Here(v) = heap.at[Mine(v)]
    BY <1>3, MyVector DEF Running
  <2>2. QED
    BY <1>3, <2>1 DEF SpotIs, Mine
<1>4. QED
  BY <1>1, <1>2, <1>3

\* The places of Me that the call op may change.
OwnPlaces(op) ==
    {Mine(Argument(op)), Mine(Result(op, Me))}
    \cup (IF Kind[Me] = "join" THEN MyEntries(Shares(op)) \cup MyEntries(Returns(op)) ELSE {})

LEMMA OwnGrows ==
    ASSUME TokensInv, Running, Me \in Components, NEW op \in Directions, Kind[Me] \in Keeping,
           NEW W, W \subseteq OwnPlaces(op), Changes(heap, heap', W),
           \A x \in Live(heap) : x \in Live(heap') /\ heap'.type[x] = heap.type[x]
    PROVE  Grows(heap', W)
<1>1. Sound(heap)
  BY DEF TokensInv
<1>2. ASSUME NEW f \in MembersOf(Me) \cap Members
      PROVE  Mine(f) \in Roots /\ Mine(f) \notin VectorRoots
  <2>1. f \notin Vectors
    BY DEF Members, Vectors
  <2>2. QED
    BY <1>1, <2>1, MineFacts
<1>3. Argument(op) \in MembersOf(Me) \cap Members /\ Result(op, Me) \in MembersOf(Me) \cap Members
  <2>1. PICK k : k = Kind[Me]
    OBVIOUS
  <2>2. k \in {"dot_product", "bias", "activation", "copy", "join"}
    BY <2>1 DEF Keeping, Simple
  <2>3. /\ k # "bias" => Members \subseteq MembersOf(Me)
        /\ k = "bias" => Members \ {"error_output"} \subseteq MembersOf(Me)
    BY <2>1, <2>2 DEF MembersOf
  <2>4. QED
    BY <2>1, <2>3 DEF Result, Argument, Members
<1>4. ASSUME Kind[Me] = "join", NEW v \in Vectors, NEW p \in MyEntries(v)
      PROVE  p \notin VectorRoots /\ \E q \in VectorRoots : heap.at[q] = p.of
  BY <1>4, MyVector DEF Running
<1>5. Shares(op) \in Vectors /\ Returns(op) \in Vectors
  BY DEF Shares, Returns, Vectors
<1>6. ASSUME NEW p \in W
      PROVE  p \notin VectorRoots /\ (p \in Roots \/ \E q \in VectorRoots : heap.at[q] = p.of)
  <2>1. CASE p \in {Mine(Argument(op)), Mine(Result(op, Me))}
    BY <1>2, <1>3, <2>1
  <2>2. CASE Kind[Me] = "join" /\ p \in MyEntries(Shares(op)) \cup MyEntries(Returns(op))
    BY <1>4, <1>5, <2>2
  <2>3. QED
    BY <2>1, <2>2 DEF OwnPlaces
<1>7. QED
  BY <1>6 DEF Grows

\* A backprop leaves what the forward has given and taken.
LEMMA ForwardKept ==
    ASSUME TokensInv, Running, Me \in Components, NEW n \in Components,
           NEW W, W \subseteq OwnPlaces("backprop"), NEW g, Grows(g, W),
           Fits(n, "forward", heap, <<>>)
    PROVE  Fits(n, "forward", g, <<>>)
<1>1. Sound(heap) /\ VectorsMade(heap)
  BY RunsBuilt DEF TokensInv, Running
<1>2. PICK op \in Directions : op = "forward"
  BY DEF Directions
<1>3. ASSUME NEW a \in Ports(n), NEW f \in {"input", "output"},
             NEW v \in {"input_vector", "output_vector"}, NEW p, SpotIs(a, f, v, p)
      PROVE  p \notin W
  <2>1. f \in Members /\ v \in Vectors
    BY DEF Members, Vectors
  <2>2. /\ \A e \in Members : p = Mine(e) => f = e
        /\ Kind[Me] = "join" => \A w \in Vectors : p \in MyEntries(w) => v = w
    BY <1>3, <2>1, MySpot
  <2>3. /\ Argument("backprop") = "error_input"
        /\ Result("backprop", Me) \in {"error_input", "error_output"}
        /\ Shares("backprop") = "error_input_vector" /\ Returns("backprop") = "error_output_vector"
    BY DEF Argument, Result, Shares, Returns
  <2>4. p # Mine("error_input") /\ p # Mine(Result("backprop", Me))
    BY <2>2, <2>3 DEF Members
  <2>5. Kind[Me] = "join" => /\ p \notin MyEntries("error_input_vector")
                             /\ p \notin MyEntries("error_output_vector")
    BY <2>2 DEF Vectors
  <2>6. QED
    BY <2>3, <2>4, <2>5 DEF OwnPlaces
<1>4. ASSUME NEW a \in Ports(n)
      PROVE  /\ Gave(op, g, a) = Gave(op, heap, a)
             /\ \A x : Took(op, heap, a, x) => Took(op, g, a, x)
  <2>1. /\ SpotIs(a, Result(op, a.of), Shares(op), GiveSpot(op, a))
        /\ SpotIs(a, Argument(op), Returns(op), TakeSpot(op, a))
    BY <1>1, Unmoved
  <2>2. /\ Result(op, a.of) = "output" /\ Shares(op) = "input_vector"
        /\ Argument(op) = "input" /\ Returns(op) = "output_vector"
    BY <1>2 DEF Result, Shares, Argument, Returns
  <2>3. GiveSpot(op, a) \notin W /\ TakeSpot(op, a) \notin W
    BY <1>3, <2>1, <2>2
  <2>4. QED
    BY <1>1, <2>3, Unmoved
<1>5. \A w : ~Awaits(n, op, <<>>, w)
  <2>1. DOMAIN <<>> = {}
    OBVIOUS
  <2>2. QED
    BY <2>1 DEF Awaits
<1>6. Fits(n, op, heap, <<>>)
  BY <1>2
<1>7. Fits(n, op, g, <<>>)
  BY <1>4, <1>5, <1>6 DEF Fits
<1>8. QED
  BY <1>2, <1>7

\* What a handler of the step s does with the tokens t and u, in the places W.
Covers(n, op, s, steps) ==
    \A w : Reaches(n, op, s, w) =>
        \/ Later(n, op, s, steps, w)
        \/ Takes(op, s) /\ w = Wire(n, Door(op, s))

HandlesStep(n, op, s, steps, W, t, g, u) ==
    /\ InLine(n, op, steps) /\ LeadsTo(n, op, steps, s.c) /\ Covers(n, op, s, steps)
    /\ \A b \in Ports(n) :
          /\ Takes(op, s) /\ Wire(n, TakeDoor(op, b)) = Wire(n, Door(op, s)) =>
                \/ Later(n, op, s, steps, Wire(n, TakeDoor(op, b)))
                \/ Took(op, g, b, t)
          /\ TakeSpot(op, b) \in W => Reaches(n, op, s, Wire(n, TakeDoor(op, b)))
    /\ \A a \in Ports(n) :
          GiveSpot(op, a) \in W => Later(n, op, s, steps, Wire(n, GiveDoor(op, a)))
    /\ IF steps = <<>> THEN BringsTo(n, op, Exit(op, s.c), g, u)
                       ELSE Brings(n, op, steps[1], g, u)

LEMMA HandledFlows ==
    ASSUME Sound(heap), VectorsMade(heap), NEW n \in Components, NEW op \in Directions,
           NEW s, NEW steps, NEW W, NEW t, NEW g, NEW u, Grows(g, W),
           HandlesStep(n, op, s, steps, W, t, g, u)
    PROVE  Flows(n, op, s, heap, t, g, u, steps)
<1>1. ASSUME NEW b \in Ports(n)
      PROVE  \/ Later(n, op, s, steps, Wire(n, TakeDoor(op, b)))
             \/ /\ Takes(op, s) /\ Wire(n, TakeDoor(op, b)) = Wire(n, Door(op, s))
                /\ Took(op, g, b, t)
             \/ /\ ~Reaches(n, op, s, Wire(n, TakeDoor(op, b)))
                /\ \A x : Took(op, heap, b, x) => Took(op, g, b, x)
  <2>1. CASE Reaches(n, op, s, Wire(n, TakeDoor(op, b)))
    BY <2>1 DEF HandlesStep, Covers
  <2>2. CASE ~Reaches(n, op, s, Wire(n, TakeDoor(op, b)))
    <3>1. TakeSpot(op, b) \notin W
      BY <2>2 DEF HandlesStep
    <3>2. QED
      BY <2>2, <3>1, Unmoved
  <2>3. QED
    BY <2>1, <2>2
<1>2. ASSUME NEW a \in Ports(n)
      PROVE  \/ Later(n, op, s, steps, Wire(n, GiveDoor(op, a)))
             \/ Gave(op, g, a) = Gave(op, heap, a)
  <2>1. CASE GiveSpot(op, a) \in W
    BY <2>1 DEF HandlesStep
  <2>2. CASE GiveSpot(op, a) \notin W
    BY <2>2, Unmoved
  <2>3. QED
    BY <2>1, <2>2
<1>3. QED
  BY <1>1, <1>2 DEF HandlesStep, Flows

LEMMA CallWire ==
    ASSUME ReadyInv, WireInv, NEW op \in Directions, op = call, outcome = "running", todo # <<>>,
           Me \in Components, UNCHANGED <<script, outcome>>, NEW n, n = last[2],
           NEW steps \in Seq(Steps), Continue(steps),
           NEW W, W \subseteq OwnPlaces(op), Grows(heap', W),
           HandlesStep(n, op, Head(todo), steps, W, hand, heap', hand')
    PROVE  WireInv'
<1>1. /\ Running /\ Ran /\ last[1] = op /\ n \in Components /\ todo \in Seq(Steps) /\ TokensInv
      /\ call' = call /\ last' = last /\ outcome' = "running"
  <2>1. Running /\ call' = call /\ last' = last /\ outcome' = "running"
    BY DEF Directions, Running, script
  <2>2. QED
    BY <2>1 DEF ReadyInv, CallInv, TokensInv, TodoInv, Running, Ran
<1>2. Sound(heap) /\ VectorsMade(heap)
  BY <1>1, RunsBuilt DEF TokensInv, Running
<1>3. PICK old : old = todo
  OBVIOUS
<1>4. PICK new : new = todo'
  OBVIOUS
<1>5. PICK h : h = heap
  OBVIOUS
<1>6. PICK g : g = heap'
  OBVIOUS
<1>7. PICK t : t = hand
  OBVIOUS
<1>8. PICK u : u = hand'
  OBVIOUS
<1>9. ToDo(op) = old /\ ToDo(op)' = new
  BY <1>1, <1>3, <1>4 DEF ToDo
<1>10. /\ n \in Parts /\ Fits(n, op, h, old) /\ Chained(n, op, old)
       /\ Brings(n, op, Head(old), h, t)
  <2>1. Fits(n, op, heap, ToDo(op))
    <3>1. CASE op = "forward"
      BY <1>1, <3>1 DEF WireInv
    <3>2. CASE op = "backprop"
      BY <1>1, <3>2 DEF WireInv
    <3>3. QED
      BY <3>1, <3>2 DEF Directions
  <2>2. n \in Parts /\ Chained(n, op, todo) /\ Brings(n, op, Head(todo), heap, hand)
    BY <1>1 DEF WireInv
  <2>3. QED
    BY <1>3, <1>5, <1>7, <1>9, <2>1, <2>2
<1>11. Flows(n, op, Head(old), h, t, g, u, steps)
  <2>1. PICK s : s = Head(todo)
    OBVIOUS
  <2>2. HandlesStep(n, op, s, steps, W, t, g, u) /\ Grows(g, W)
    BY <1>6, <1>7, <1>8, <2>1
  <2>3. Flows(n, op, s, heap, t, g, u, steps)
    BY <1>1, <1>2, <2>2, HandledFlows
  <2>4. QED
    BY <1>3, <1>5, <2>1, <2>3
<1>12. /\ Chained(n, op, new) /\ Fits(n, op, g, new)
       /\ new # <<>> => Brings(n, op, Head(new), g, u)
  <2>1. old \in Seq(Steps) /\ old # <<>> /\ new = steps \o Tail(old)
    BY <1>1, <1>3, <1>4 DEF Continue
  <2>2. QED
    BY <1>1, <1>10, <1>11, <2>1, FlowStep
<1>13. op = "backprop" => Fits(n, "forward", g, <<>>)
  <2>1. ASSUME op = "backprop"
        PROVE  Fits(n, "forward", g, <<>>)
    <3>1. ToDo("forward") = <<>>
      BY <2>1 DEF ToDo
    <3>2. Fits(n, "forward", heap, <<>>)
      BY <1>1, <3>1 DEF WireInv
    <3>3. W \subseteq OwnPlaces("backprop") /\ Grows(g, W)
      BY <1>6, <2>1
    <3>4. QED
      BY <1>1, <3>2, <3>3, ForwardKept
  <2>2. QED
    BY <2>1
<1>14. ToDo("forward")' = IF op = "forward" THEN new ELSE <<>>
  BY <1>1, <1>4 DEF ToDo
<1>15. Fits(n, "forward", heap', ToDo("forward")')
  <2>1. CASE op = "forward"
    BY <1>6, <1>12, <1>14, <2>1
  <2>2. CASE op = "backprop"
    <3>1. ToDo("forward")' = <<>>
      BY <1>14, <2>2
    <3>2. QED
      BY <1>6, <1>13, <2>2, <3>1
  <2>3. QED
    BY <2>1, <2>2 DEF Directions
<1>16. last'[1] = "backprop" => Fits(n, "backprop", heap', ToDo("backprop")')
  BY <1>1, <1>6, <1>9, <1>12
<1>17. /\ Chained(n, call', todo')
       /\ todo' # <<>> => Brings(n, call', Head(todo'), heap', hand')
  BY <1>1, <1>4, <1>6, <1>8, <1>12
<1>18. QED
  BY <1>1, <1>10, <1>15, <1>16, <1>17 DEF WireInv
-----------------------------------------------------------------------------
(***************************************************************************)
(* The leaves                                                              *)
(***************************************************************************)
\* Which ports keep what in the places of Me.
LEMMA MyPorts ==
    ASSUME TokensInv, Running, Me \in Components, NEW n \in Components, NEW op \in Directions,
           NEW a \in Ports(n)
    PROVE  /\ \A f \in Members : TakeSpot(op, a) = Mine(f) =>
                 a = Port(Me, 0) /\ f = Argument(op)
           /\ \A f \in Members : GiveSpot(op, a) = Mine(f) =>
                 a = Port(Me, 0) /\ f = Result(op, Me)
           /\ Kind[Me] = "join" => \A v \in Vectors :
                 /\ TakeSpot(op, a) \in MyEntries(v) => a.of = Me /\ a.i # 0 /\ v = Returns(op)
                 /\ GiveSpot(op, a) \in MyEntries(v) => a.of = Me /\ a.i # 0 /\ v = Shares(op)
           /\ Kind[Me] = "join" /\ a.of = Me /\ a.i # 0 =>
                 /\ TakeSpot(op, a) = Entry(Here(Returns(op)), a.i)
                 /\ GiveSpot(op, a) = Entry(Here(Shares(op)), a.i)
<1>1. Sound(heap) /\ VectorsMade(heap)
  BY RunsBuilt DEF TokensInv, Running
<1>2. PICK p : p = GiveSpot(op, a)
  OBVIOUS
<1>3. PICK r : r = TakeSpot(op, a)
  OBVIOUS
<1>4. PICK f \in Members : f = Result(op, a.of)
  BY DEF Result, Members
<1>5. PICK e \in Members : e = Argument(op)
  BY DEF Argument, Members
<1>6. PICK v \in Vectors : v = Shares(op)
  BY Sides
<1>7. PICK w \in Vectors : w = Returns(op)
  BY Sides
<1>8. SpotIs(a, f, v, p) /\ SpotIs(a, e, w, r)
  <2>1. p = Spot(heap, a, f, v) /\ r = Spot(heap, a, e, w)
    BY <1>2, <1>3, <1>4, <1>5, <1>6, <1>7 DEF GiveSpot, TakeSpot
  <2>2. a.i = 0 => f \in MembersOf(a.of) \cap Members /\ e \in MembersOf(a.of) \cap Members
    BY <1>4, <1>5, Sides
  <2>3. QED
    BY <1>1, <2>1, <2>2, SpotFacts
<1>9. /\ \A d \in Members : p = Mine(d) => a = Port(Me, 0) /\ f = d
      /\ \A d \in Members : r = Mine(d) => a = Port(Me, 0) /\ e = d
      /\ Kind[Me] = "join" => \A x \in Vectors :
            /\ p \in MyEntries(x) => a.of = Me /\ a.i # 0 /\ v = x
            /\ r \in MyEntries(x) => a.of = Me /\ a.i # 0 /\ w = x
      /\ Kind[Me] = "join" /\ a.of = Me /\ a.i # 0 =>
            p = Entry(Here(v), a.i) /\ r = Entry(Here(w), a.i)
  BY <1>8, MySpot
<1>10. a = Port(Me, 0) => a.of = Me
  BY PortFacts
<1>11. QED
  BY <1>2, <1>3, <1>4, <1>5, <1>6, <1>7, <1>9, <1>10

\* The doors of a component without children.
LEMMA LeafReaches ==
    ASSUME NEW n, NEW op \in Directions, NEW s, s.op = op, NEW me \in Components, s.c = me,
           Kind[me] \in Simple, NEW w, Reaches(n, op, s, w)
    PROVE  w = Wire(n, Entrance(op, me)) \/ w = Wire(n, Exit(op, me))
<1>1. op \notin Loops /\ op \notin Keeps
  BY DEF Directions, Loops, Keeps
<1>2. Branches(s) = {}
  BY <1>1 DEF Branches
<1>3. Below[me] = {me}
  BY Alone DEF Simple
<1>4. Doors(me) = {In(me), Out(me)}
  BY <1>3 DEF Doors, In, Out
<1>5. Ahead(op, s) = {Exit(op, me)} \cup Doors(me)
  BY <1>1, <1>2 DEF Ahead
<1>6. \A x \in Ahead(op, s) : x = Entrance(op, me) \/ x = Exit(op, me)
  BY <1>4, <1>5 DEF Entrance, Exit
<1>7. QED
  BY <1>6 DEF Reaches

\* A leaf keeps what it gets and returns what it keeps as its result.
LEMMA LeafWire ==
    ASSUME ReadyInv, WireInv, NEW op \in Directions, NEW K, K \subseteq Simple, Now(op, K),
           UNCHANGED <<script, outcome>>, Continue(<<>>),
           NEW W, W \subseteq {Mine(Argument(op)), Mine(Result(op, Me))}, Changes(heap, heap', W),
           \A x \in Live(heap) : x \in Live(heap') /\ heap'.type[x] = heap.type[x],
           Took(op, heap', Port(Me, 0), hand), hand' = heap'.at[Mine(Result(op, Me))]
    PROVE  WireInv'
<1>1. PICK n : n = last[2]
  OBVIOUS
<1>2. PICK s : s = Head(todo)
  OBVIOUS
<1>3. Phase(op) = op /\ op \in {"forward", "backprop"}
  BY DEF Directions, Phase
<1>4. /\ TokensInv /\ Running /\ outcome = "running" /\ todo # <<>> /\ Me \in Components
      /\ Kind[Me] \in K /\ call = op /\ n \in Components /\ Me \in Below[n]
      /\ s.c = Me /\ s.op = op
  BY <1>1, <1>2, <1>3, CallFacts
<1>5. PICK me \in Components : me = Me /\ Kind[me] \in Simple /\ Kind[me] \in Keeping
  BY <1>4 DEF Keeping
<1>6. PICK g : g = heap'
  OBVIOUS
<1>7. PICK u : u = hand'
  OBVIOUS
<1>8. PICK a \in Ports(n) : a = Port(me, 0) /\ a.of = me /\ a.i = 0
  BY <1>4, <1>5, PortFacts
<1>9. TakeDoor(op, a) = Entrance(op, me) /\ GiveDoor(op, a) = Exit(op, me)
  BY <1>8 DEF TakeDoor, GiveDoor
<1>10. W \subseteq OwnPlaces(op)
  BY DEF OwnPlaces
<1>11. Grows(g, W)
  BY <1>4, <1>5, <1>6, <1>10, OwnGrows
<1>12. PICK steps \in Seq(Steps) : steps = <<>> /\ DOMAIN steps = {}
  <2>1. <<>> \in Seq(Steps) /\ DOMAIN <<>> = {}
    OBVIOUS
  <2>2. QED
    BY <2>1
<1>13. InLine(n, op, steps) /\ LeadsTo(n, op, steps, s.c)
  BY <1>12 DEF InLine, LeadsTo
<1>14. Takes(op, s) /\ Door(op, s) = Entrance(op, me)
  <2>1. op \notin Keeps
    BY DEF Directions, Keeps
  <2>2. QED
    BY <1>4, <1>5, <2>1 DEF Takes, Door
<1>15. \A w : Later(n, op, s, steps, w) <=> w = Wire(n, Exit(op, me))
  BY <1>4, <1>5, <1>12 DEF Later, Awaits
<1>16. Covers(n, op, s, steps)
  <2>1. ASSUME NEW w, Reaches(n, op, s, w)
        PROVE  w = Wire(n, Entrance(op, me)) \/ w = Wire(n, Exit(op, me))
    BY <1>4, <1>5, <2>1, LeafReaches
  <2>2. QED
    BY <1>14, <1>15, <2>1 DEF Covers
<1>17. \A f \in {Argument(op), Result(op, Me)} : f \in Members
  BY DEF Argument, Result, Members
<1>18. ASSUME NEW b \in Ports(n), TakeSpot(op, b) \in W \/ GiveSpot(op, b) \in W
       PROVE  b = a
  <2>1. \A f \in Members : TakeSpot(op, b) = Mine(f) \/ GiveSpot(op, b) = Mine(f) => b = Port(Me, 0)
    BY <1>4, MyPorts
  <2>2. QED
    BY <1>5, <1>8, <1>17, <1>18, <2>1
<1>19. ASSUME NEW b \in Ports(n)
       PROVE  /\ Wire(n, TakeDoor(op, b)) = Wire(n, Door(op, s)) => Took(op, g, b, hand)
              /\ TakeSpot(op, b) \in W => Reaches(n, op, s, Wire(n, TakeDoor(op, b)))
              /\ GiveSpot(op, b) \in W => Later(n, op, s, steps, Wire(n, GiveDoor(op, b)))
  <2>1. Wire(n, TakeDoor(op, b)) = Wire(n, Door(op, s)) => b = a
    BY <1>4, <1>9, <1>14, Takers
  <2>2. Took(op, g, a, hand)
    BY <1>5, <1>6, <1>8
  <2>3. Entrance(op, me) \in Ahead(op, s)
    <3>1. Entrance(op, me) \in Doors(me)
      <4>1. me \in Below[me]
        BY BelowFacts
      <4>2. QED
        BY <4>1, DoorFacts DEF Entrance
    <3>2. QED
      BY <1>4, <1>5, <3>1 DEF Ahead
  <2>4. Reaches(n, op, s, Wire(n, TakeDoor(op, a)))
    BY <1>9, <2>3 DEF Reaches
  <2>5. QED
    BY <1>9, <1>15, <1>18, <2>1, <2>2, <2>4
<1>20. BringsTo(n, op, Exit(op, s.c), g, u)
  <2>1. ASSUME NEW b \in Ports(n), Wire(n, GiveDoor(op, b)) = Wire(n, Exit(op, me))
        PROVE  u = Gave(op, g, b)
    <3>1. b = a
      BY <1>4, <1>9, <2>1, Givers
    <3>2. Gave(op, g, a) = g.at[Member(me, Result(op, me))]
      BY <1>8 DEF Gave, Spot
    <3>3. u = g.at[Member(me, Result(op, me))]
      BY <1>5, <1>6, <1>7 DEF Mine
    <3>4. QED
      BY <3>1, <3>2, <3>3
  <2>2. QED
    BY <1>4, <1>5, <2>1 DEF BringsTo
<1>21. HandlesStep(n, op, Head(todo), steps, W, hand, heap', hand')
  <2>1. PICK t : t = hand
    OBVIOUS
  <2>2. HandlesStep(n, op, s, steps, W, t, g, u)
    BY <1>12, <1>13, <1>16, <1>19, <1>20, <2>1 DEF HandlesStep
  <2>3. QED
    BY <1>2, <1>6, <1>7, <2>1, <2>2
<1>22. Continue(steps)
  BY <1>12
<1>23. Grows(heap', W)
  BY <1>6, <1>11
<1>24. QED
  BY <1>1, <1>4, <1>10, <1>12, <1>21, <1>22, <1>23, CallWire

\* Places of Me that are given a new token.
LEMMA MakesMore ==
    ASSUME TokensInv, Running, Me \in Components, NEW g,
           NEW V, Changes(heap, g, V),
           NEW f \in MembersOf(Me), f \notin Vectors, NEW P, P = {Mine(f)},
           Free(g, Mine(f)) # {}, NEW k \in {"mem", "sparse", "vector"}, NEW n \in Nat,
           NEW u, KeptBeside(g, u, P), NEW j, j = AssignNew(g, P, k, n, u)
    PROVE  Changes(heap, j, V \cup P) /\ Extends(g, j, P)
<1>1. Sound(heap) /\ Sound(g)
  BY DEF TokensInv, Changes
<1>2. PICK p \in Roots :
         /\ p = Mine(f) /\ p.member = f /\ p \notin VectorRoots /\ p \in Local(heap, Me)
         /\ Arena(p) \subseteq Tokens
  BY <1>1, MineFacts
<1>3. P \in SUBSET DOMAIN g.at /\ P \cap VectorRoots = {}
  BY <1>1, <1>2, SoundFacts
<1>4. Available(g, P)
  BY <1>2 DEF Available
<1>5. Changes(g, j, P) /\ Extends(g, j, P)
  BY <1>1, <1>3, <1>4, AssignNewMakes
<1>6. QED
  BY <1>5, ChangesTwice

\* The port of a leaf takes what its member is given.
LEMMA TakesMine ==
    ASSUME NEW op \in Directions, NEW g, g.at[Mine(Argument(op))] = hand
    PROVE  Took(op, g, Port(Me, 0), hand)
<1>1. PICK b : b = Port(Me, 0)
  OBVIOUS
<1>2. b.of = Me /\ b.i = 0
  BY <1>1 DEF Port
<1>3. Spot(g, b, Argument(op), Returns(op)) = Mine(Argument(op))
  BY <1>2 DEF Spot, Mine
<1>4. Took(op, g, b, hand)
  BY <1>3 DEF Took
<1>5. QED
  BY <1>1, <1>4

LEMMA KeptAndMadeWire ==
    ASSUME ReadyInv, WireInv, NEW op \in Directions, NEW K, K \subseteq Simple, Now(op, K),
           UNCHANGED <<script, outcome>>, Continue(<<>>),
           NEW e \in MembersOf(Me), e = Argument(op),
           NEW f \in MembersOf(Me), f = (IF op = "forward" THEN "output" ELSE "error_output"),
           f = Result(op, Me), Room({Mine(f)}),
           NEW k \in {"mem", "sparse", "vector"}, NEW m \in Nat, NEW u \in {hand, Null},
           heap' = AssignNew(Assign(heap, Mine(e), hand), {Mine(f)}, k, m, u),
           hand' = heap'.at[Mine(f)]
    PROVE  WireInv'
<1>1. PICK n : n = last[2]
  OBVIOUS
<1>2. Phase(op) = op /\ op \in {"forward", "backprop"} /\ op \notin Loops \cup Ends
  BY DEF Directions, Phase, Loops, Ends
<1>3. TokensInv /\ Running /\ Me \in Components /\ call = op
  <2>1. PICK s : s = Head(todo)
    OBVIOUS
  <2>2. QED
    BY <1>1, <1>2, <2>1, CallFacts
<1>4. Passing /\ Sound(heap)
  BY <1>2, <1>3, NowFacts
<1>5. e = (IF call = "forward" THEN "input" ELSE "error_input") /\ e \in {"input", "error_input"}
      /\ f = (IF call = "forward" THEN "output" ELSE "error_output") /\ f \notin Vectors
  BY <1>3 DEF Argument, Vectors
<1>6. /\ heap'.at[Mine(e)] = hand
      /\ \A x \in Live(heap) : x \in Live(heap') /\ heap'.type[x] = heap.type[x]
  BY <1>3, <1>4, <1>5, KeptAndMade
<1>7. PICK g : g = Assign(heap, Mine(e), hand)
  OBVIOUS
<1>8. PICK V : V = {Mine(e)}
  OBVIOUS
<1>9. /\ Changes(heap, g, V) /\ DOMAIN g.at = DOMAIN heap.at /\ Live(g) = Live(heap)
      /\ g.at[Mine(e)] = hand
  BY <1>3, <1>4, <1>5, <1>7, <1>8, KeepsHand
<1>10. Free(g, Mine(f)) # {}
  BY <1>9 DEF Free, Room
<1>11. PICK P : P = {Mine(f)}
  OBVIOUS
<1>12. KeptBeside(g, u, P)
  <2>1. /\ Mine(e) \in DOMAIN heap.at /\ Mine(e).member = e /\ Mine(f).member = f
        /\ Mine(e) \notin VectorRoots
    <3>1. e \notin Vectors
      BY <1>5 DEF Vectors
    <3>2. QED
      BY <1>3, <1>4, <3>1, MineFacts
  <2>2. Mine(e) \notin P
    BY <1>5, <1>11, <2>1
  <2>3. QED
    BY <1>9, <2>1, <2>2 DEF KeptBeside
<1>13. PICK j : j = heap'
  OBVIOUS
<1>14. Changes(heap, j, V \cup P)
  <2>1. j = AssignNew(g, P, k, m, u)
    BY <1>7, <1>11, <1>13
  <2>2. QED
    BY <1>3, <1>5, <1>9, <1>10, <1>11, <1>12, <2>1, MakesMore
<1>15. PICK W : W = V \cup P
  OBVIOUS
<1>16. W \subseteq {Mine(Argument(op)), Mine(Result(op, Me))} /\ Changes(heap, heap', W)
  BY <1>8, <1>11, <1>13, <1>14, <1>15
<1>17. Took(op, heap', Port(Me, 0), hand)
  BY <1>6, TakesMine
<1>18. QED
  BY <1>6, <1>16, <1>17, LeafWire

LEMMA ForwardBlockWire == ASSUME ReadyInv, WireInv, ForwardBlock PROVE WireInv'
<1>1. PICK K : K = {"bias", "activation"}
  OBVIOUS
<1>2. PICK op \in Directions : op = "forward"
  BY DEF Directions
<1>3. Now(op, K) /\ K \subseteq Simple
  BY <1>1, <1>2 DEF ForwardBlock, Simple
<1>4. Kind[Me] \in K
  BY <1>3 DEF Now
<1>5. "input" \in MembersOf(Me) /\ "output" \in MembersOf(Me)
  BY <1>1, <1>4 DEF MembersOf, Members
<1>6. /\ heap' = AssignNew(Assign(heap, Mine("input"), hand), {Mine("output")}, "mem", 0, Null)
      /\ hand' = heap'.at[Mine("output")]
  BY DEF ForwardBlock, Passes, MakeBlock
<1>7. Room({Mine("output")}) /\ Continue(<<>>) /\ UNCHANGED <<script, outcome>>
  BY DEF ForwardBlock, Passes
<1>8. Argument(op) = "input" /\ Result(op, Me) = "output"
  BY <1>2 DEF Argument, Result
<1>9. QED
  BY <1>2, <1>3, <1>5, <1>6, <1>7, <1>8, KeptAndMadeWire

LEMMA ForwardCopyWire == ASSUME ReadyInv, WireInv, ForwardCopy PROVE WireInv'
<1>1. PICK K : K = {"copy"}
  OBVIOUS
<1>2. PICK op \in Directions : op = "forward"
  BY DEF Directions
<1>3. Now(op, K) /\ K \subseteq Simple
  BY <1>1, <1>2 DEF ForwardCopy, Simple
<1>4. Kind[Me] \in K
  BY <1>3 DEF Now
<1>5. "input" \in MembersOf(Me) /\ "output" \in MembersOf(Me)
  BY <1>1, <1>4 DEF MembersOf, Members
<1>6. /\ heap' = AssignNew(Assign(heap, Mine("input"), hand), {Mine("output")}, "vector", Times, hand)
      /\ hand' = heap'.at[Mine("output")]
  BY DEF ForwardCopy, Passes
<1>7. Room({Mine("output")}) /\ Continue(<<>>) /\ UNCHANGED <<script, outcome>>
  BY DEF ForwardCopy, Passes
<1>8. Argument(op) = "input" /\ Result(op, Me) = "output" /\ Times \in Nat
  BY <1>2, TreeAssumption DEF Argument, Result
<1>9. QED
  BY <1>2, <1>3, <1>5, <1>6, <1>7, <1>8, KeptAndMadeWire

LEMMA BackpropBlockWire == ASSUME ReadyInv, WireInv, BackpropBlock PROVE WireInv'
<1>1. PICK K : K = {"dot_product", "activation", "copy"}
  OBVIOUS
<1>2. PICK op \in Directions : op = "backprop"
  BY DEF Directions
<1>3. Now(op, K) /\ K \subseteq Simple
  BY <1>1, <1>2 DEF BackpropBlock, Simple
<1>4. Kind[Me] \in K
  BY <1>3 DEF Now
<1>5. "error_input" \in MembersOf(Me) /\ "error_output" \in MembersOf(Me)
  BY <1>1, <1>4 DEF MembersOf, Members
<1>6. /\ heap' = AssignNew(Assign(heap, Mine("error_input"), hand), {Mine("error_output")},
                           "mem", 0, Null)
      /\ hand' = heap'.at[Mine("error_output")]
  BY DEF BackpropBlock, Passes, MakeBlock
<1>7. Room({Mine("error_output")}) /\ Continue(<<>>) /\ UNCHANGED <<script, outcome>>
  BY DEF BackpropBlock, Passes
<1>8. Argument(op) = "error_input" /\ Result(op, Me) = "error_output"
  BY <1>1, <1>2, <1>4 DEF Argument, Result
<1>9. QED
  BY <1>2, <1>3, <1>5, <1>6, <1>7, <1>8, KeptAndMadeWire

\* A dot product takes a dense token as it is, and wraps a sparse one.
LEMMA ForwardDotProductWire == ASSUME ReadyInv, WireInv, ForwardDotProduct PROVE WireInv'
<1>1. PICK K : K = {"dot_product"}
  OBVIOUS
<1>2. PICK op \in Directions : op = "forward"
  BY DEF Directions
<1>3. Now(op, K) /\ K \subseteq Simple
  BY <1>1, <1>2 DEF ForwardDotProduct, Simple
<1>4. Kind[Me] = "dot_product"
  BY <1>1, <1>3 DEF Now
<1>5. /\ "input" \in MembersOf(Me) /\ "output" \in MembersOf(Me)
      /\ "input" \notin Vectors /\ "output" \notin Vectors
  BY <1>4 DEF MembersOf, Members, Vectors
<1>6. /\ UNCHANGED <<script, outcome>> /\ Continue(<<>>)
      /\ Free(heap, Mine("input")) # {} /\ Free(heap, Mine("output")) # {}
  BY DEF ForwardDotProduct, Passes, Room
<1>7. Argument(op) = "input" /\ Result(op, Me) = "output"
  BY <1>2 DEF Argument, Result
<1>8. CASE heap.type[hand] # "sparse"
  <2>1. /\ heap' = AssignNew(Assign(heap, Mine("input"), hand), {Mine("output")}, "mem", 0, Null)
        /\ hand' = heap'.at[Mine("output")]
    BY <1>8 DEF ForwardDotProduct, Passes, MakeBlock
  <2>2. Room({Mine("output")})
    BY <1>6 DEF Room
  <2>3. QED
    BY <1>2, <1>3, <1>5, <1>6, <1>7, <2>1, <2>2, KeptAndMadeWire
<1>9. CASE heap.type[hand] = "sparse"
  <2>1. PICK P : P = {Mine("input")}
    OBVIOUS
  <2>2. PICK Q : Q = {Mine("output")}
    OBVIOUS
  <2>3. PICK g : g = AssignNew(heap, P, "vector", 1, hand)
    OBVIOUS
  <2>4. PICK j : j = heap'
    OBVIOUS
  <2>5. j = AssignNew(g, Q, "mem", 0, Null) /\ hand' = j.at[Mine("output")]
    BY <1>9, <2>1, <2>2, <2>3, <2>4 DEF ForwardDotProduct, Passes, MakeBlock
  <2>6. TokensInv /\ Running /\ Me \in Components /\ call = "forward"
    <3>1. Phase("forward") = "forward"
      BY DEF Phase
    <3>2. PICK s, n : s = Head(todo) /\ n = last[2]
      OBVIOUS
    <3>3. QED
      BY <1>2, <1>3, <3>1, <3>2, CallFacts
  <2>7. Passing /\ Sound(heap)
    BY <1>2, <1>3, <2>6, NowFacts DEF Loops, Ends
  <2>8. /\ Mine("input") \in Roots /\ Mine("output") \in Roots
        /\ Mine("input").member = "input" /\ Mine("output").member = "output"
        /\ Mine("input") \notin VectorRoots /\ Mine("input") \in DOMAIN heap.at
        /\ Mine("output") \notin VectorRoots
        /\ Mine("input") \in Local(heap, Me) /\ Arena(Mine("input")) \subseteq Tokens
    BY <1>5, <2>6, <2>7, MineFacts
  <2>9. KeptBeside(heap, hand, P)
    <3>1. \A p \in P : ~Lasting(p)
      BY <2>1, <2>6, <2>8 DEF Lasting
    <3>2. QED
      BY <2>6, <2>7, <3>1, HandBeside
  <2>10. P \in SUBSET DOMAIN heap.at /\ P \cap VectorRoots = {} /\ Available(heap, P)
    BY <1>6, <2>1, <2>8 DEF Available
  <2>11. Changes(heap, g, P) /\ Extends(heap, g, P) /\ HoldNew(g, P, "vector", 1, hand)
    BY <2>3, <2>7, <2>9, <2>10, AssignNewMakes
  <2>12. /\ Live(g) = Live(heap) \cup {g.at[p] : p \in P}
         /\ \A p \in P : g.at[p] \in Arena(p) \ Live(heap)
    BY <2>3, <2>7, <2>9, <2>10, AssignNewSound
  <2>13. Free(g, Mine("output")) # {}
    <3>1. Mine("input") # Mine("output")
      BY <2>8
    <3>2. Arena(Mine("output")) \cap Arena(Mine("input")) = {}
      BY <2>8, <3>1, ArenaAssumption
    <3>3. PICK t \in Arena(Mine("output")) : t \notin Live(heap)
      BY <1>6 DEF Free
    <3>4. t \notin Live(g)
      BY <2>1, <2>12, <3>2, <3>3
    <3>5. QED
      BY <3>3, <3>4 DEF Free
  <2>14. KeptBeside(g, Null, Q)
    BY DEF KeptBeside
  <2>15. PICK W : W = P \cup Q
    OBVIOUS
  <2>16. Changes(heap, j, W) /\ Extends(g, j, Q)
    BY <1>5, <2>2, <2>5, <2>6, <2>11, <2>13, <2>14, <2>15, MakesMore
  <2>17. \A x \in Live(heap) : x \in Live(j) /\ j.type[x] = heap.type[x]
    BY <2>11, <2>16 DEF Extends
  <2>18. PICK u : u = j.at[Mine("input")]
    OBVIOUS
  <2>19. Wraps(j, u, hand)
    <3>1. Mine("input") \in DOMAIN g.at /\ Mine("input") \notin Q
      BY <2>2, <2>8, <2>11 DEF Changes
    <3>2. u = g.at[Mine("input")]
      BY <2>16, <2>18, <3>1 DEF Extends
    <3>3. /\ u \in Live(g) /\ g.type[u] = "vector" /\ u \notin Live(heap) /\ u # Null
          /\ Entry(u, 1) \in DOMAIN g.at /\ g.at[Entry(u, 1)] = hand
      <4>1. /\ u \in Live(g) /\ g.type[u] = "vector" /\ u # Null
            /\ Entry(u, 1) \in EntriesOf(g, u) /\ g.at[Entry(u, 1)] = hand
        BY <2>1, <2>11, <3>2 DEF HoldNew
      <4>2. u \notin Live(heap)
        BY <2>1, <2>12, <3>2
      <4>3. QED
        BY <4>1, <4>2 DEF EntriesOf
    <3>4. Entry(u, 1) \notin Q
      BY <2>2, <2>8, RootsApart
    <3>5. /\ u \in Live(j) /\ j.type[u] = "vector"
          /\ Entry(u, 1) \in DOMAIN j.at /\ j.at[Entry(u, 1)] = hand
      BY <2>16, <3>3, <3>4 DEF Extends
    <3>6. ASSUME NEW q \in VectorRoots
          PROVE  j.at[q] # u
      <4>1. q \in DOMAIN heap.at /\ heap.at[q] \in Live(heap) \cup {Null}
        BY <2>7, SoundFacts
      <4>2. q \notin W
        BY <2>1, <2>2, <2>8, <2>15
      <4>3. j.at[q] = heap.at[q]
        BY <2>16, <4>1, <4>2 DEF Changes
      <4>4. QED
        BY <3>3, <4>1, <4>3
    <3>7. QED
      BY <3>5, <3>6 DEF Wraps
  <2>20. Took(op, j, Port(Me, 0), hand)
    <3>1. PICK b : b = Port(Me, 0)
      OBVIOUS
    <3>2. b.of = Me /\ b.i = 0
      BY <3>1 DEF Port
    <3>3. Spot(j, b, Argument(op), Returns(op)) = Mine("input")
      BY <1>7, <3>2 DEF Spot, Mine
    <3>4. Took(op, j, b, hand)
      BY <1>2, <2>18, <2>19, <3>2, <3>3 DEF Took
    <3>5. QED
      BY <3>1, <3>4
  <2>21. W \subseteq {Mine(Argument(op)), Mine(Result(op, Me))}
    BY <1>7, <2>1, <2>2, <2>15
  <2>22. hand' = heap'.at[Mine(Result(op, Me))]
    BY <1>7, <2>4, <2>5
  <2>23. QED
    BY <1>3, <1>6, <2>4, <2>16, <2>17, <2>20, <2>21, <2>22, LeafWire
<1>10. QED
  BY <1>8, <1>9

LEMMA BackpropBiasWire == ASSUME ReadyInv, WireInv, BackpropBias PROVE WireInv'
<1>1. PICK K : K = {"bias"}
  OBVIOUS
<1>2. PICK op \in Directions : op = "backprop"
  BY DEF Directions
<1>3. Now(op, K) /\ K \subseteq Simple
  BY <1>1, <1>2 DEF BackpropBias, Simple
<1>4. TokensInv /\ Running /\ Me \in Components /\ call = "backprop" /\ Kind[Me] = "bias"
  <2>1. Phase("backprop") = "backprop"
    BY DEF Phase
  <2>2. PICK s, n : s = Head(todo) /\ n = last[2]
    OBVIOUS
  <2>3. QED
    BY <1>1, <1>2, <1>3, <2>1, <2>2, CallFacts
<1>5. Passing
  BY <1>2, <1>3, <1>4, NowFacts DEF Loops, Ends
<1>6. "error_input" \in MembersOf(Me)
  BY <1>4 DEF MembersOf, Members
<1>7. /\ heap' = Assign(heap, Mine("error_input"), hand) /\ hand' = hand
      /\ Continue(<<>>) /\ UNCHANGED <<script, outcome>>
  BY DEF BackpropBias
<1>8. Argument(op) = "error_input" /\ Result(op, Me) = "error_input"
  BY <1>2, <1>4 DEF Argument, Result
<1>9. PICK W : W = {Mine("error_input")}
  OBVIOUS
<1>10. PICK g : g = heap'
  OBVIOUS
<1>11. /\ Changes(heap, g, W) /\ g.at[Mine("error_input")] = hand
       /\ g.type = heap.type /\ Live(g) = Live(heap)
  BY <1>4, <1>5, <1>6, <1>7, <1>9, <1>10, KeepsHand
<1>12. Took(op, g, Port(Me, 0), hand)
  BY <1>8, <1>11, TakesMine
<1>13. /\ W \subseteq {Mine(Argument(op)), Mine(Result(op, Me))}
       /\ Changes(heap, heap', W) /\ Took(op, heap', Port(Me, 0), hand)
       /\ \A x \in Live(heap) : x \in Live(heap') /\ heap'.type[x] = heap.type[x]
       /\ hand' = heap'.at[Mine(Result(op, Me))]
  BY <1>7, <1>8, <1>9, <1>10, <1>11, <1>12
<1>14. QED
  BY <1>3, <1>7, <1>13, LeafWire

LEMMA BackpropSparseWire == ASSUME ReadyInv, WireInv, BackpropSparse PROVE WireInv'
<1>1. PICK K : K = {"dot_product"}
  OBVIOUS
<1>2. PICK op \in Directions : op = "backprop"
  BY DEF Directions
<1>3. Now(op, K) /\ K \subseteq Simple
  BY <1>1, <1>2 DEF BackpropSparse, Simple
<1>4. TokensInv /\ Running /\ Me \in Components /\ call = "backprop" /\ Kind[Me] = "dot_product"
  <2>1. Phase("backprop") = "backprop"
    BY DEF Phase
  <2>2. PICK s, n : s = Head(todo) /\ n = last[2]
    OBVIOUS
  <2>3. QED
    BY <1>1, <1>2, <1>3, <2>1, <2>2, CallFacts
<1>5. Passing /\ Sound(heap)
  BY <1>2, <1>3, <1>4, NowFacts DEF Loops, Ends
<1>6. /\ "error_input" \in MembersOf(Me) /\ "error_output" \in MembersOf(Me)
      /\ "error_output" \notin Vectors
  BY <1>4 DEF MembersOf, Members, Vectors
<1>7. PICK g : g = Assign(heap, Mine("error_input"), hand)
  OBVIOUS
<1>8. PICK P : P = {Mine("error_output")}
  OBVIOUS
<1>9. PICK V : V = {Mine("error_input")}
  OBVIOUS
<1>10. PICK j : j = heap'
  OBVIOUS
<1>11. /\ j = Release(g, P) /\ hand' = Null /\ Continue(<<>>) /\ UNCHANGED <<script, outcome>>
  BY <1>7, <1>8, <1>10 DEF BackpropSparse, Passes
<1>12. /\ Changes(heap, g, V) /\ DOMAIN g.at = DOMAIN heap.at /\ g.at[Mine("error_input")] = hand
       /\ g.type = heap.type /\ Live(g) = Live(heap)
  BY <1>4, <1>5, <1>6, <1>7, <1>9, KeepsHand
<1>13. /\ P \subseteq DOMAIN heap.at /\ Mine("error_output").member = "error_output"
       /\ Mine("error_input") \in DOMAIN heap.at /\ Mine("error_input").member = "error_input"
  BY <1>4, <1>5, <1>6, <1>8, MineFacts
<1>14. /\ Changes(g, j, P) /\ \A p \in P : j.at[p] = Null
       /\ j.type = g.type /\ Live(j) = Live(g)
  <2>1. Sound(g) /\ P \in SUBSET DOMAIN g.at
    BY <1>12, <1>13 DEF Changes
  <2>2. Changes(g, j, P) /\ \A p \in P : j.at[p] = Null
    BY <1>11, <2>1, ReleaseChanges
  <2>3. j.type = g.type /\ Live(j) = Live(g)
    BY <1>11, <2>1, ReleaseSound
  <2>4. QED
    BY <2>2, <2>3
<1>15. PICK W : W = V \cup P /\ Changes(heap, j, W)
  BY <1>12, <1>14, ChangesTwice
<1>16. Argument(op) = "error_input" /\ Result(op, Me) = "error_output"
  BY <1>2, <1>4 DEF Argument, Result
<1>17. j.at[Mine("error_input")] = hand
  BY <1>8, <1>12, <1>13, <1>14 DEF Changes
<1>18. Took(op, j, Port(Me, 0), hand)
  BY <1>16, <1>17, TakesMine
<1>19. /\ W \subseteq {Mine(Argument(op)), Mine(Result(op, Me))}
       /\ Changes(heap, heap', W) /\ Took(op, heap', Port(Me, 0), hand)
       /\ \A x \in Live(heap) : x \in Live(heap') /\ heap'.type[x] = heap.type[x]
       /\ hand' = heap'.at[Mine(Result(op, Me))]
  BY <1>8, <1>9, <1>10, <1>11, <1>12, <1>14, <1>15, <1>16, <1>18
<1>20. QED
  BY <1>3, <1>11, <1>19, LeafWire

\* A join always gets an error.
LEMMA BackpropNullWire == ASSUME ReadyInv, WireInv, BackpropNull PROVE WireInv'
<1>1. PICK J : J = {"copy", "join"}
  OBVIOUS
<1>2. PICK op \in Directions : op = "backprop"
  BY DEF Directions
<1>3. Now(op, J)
  BY <1>1, <1>2 DEF BackpropNull
<1>4. /\ TokensInv /\ Running /\ Me \in Components /\ call = "backprop" /\ Kind[Me] = "copy"
  <2>1. Phase("backprop") = "backprop"
    BY DEF Phase
  <2>2. PICK s : s = Head(todo)
    OBVIOUS
  <2>3. PICK n : n = last[2]
    OBVIOUS
  <2>4. /\ TokensInv /\ Running /\ Me \in Components /\ call = "backprop" /\ Kind[Me] \in J
        /\ n \in Components /\ Me \in Below[n]
        /\ s.c = Me /\ s.op = "backprop" /\ Arrives(n, s, heap, hand)
    BY <1>2, <1>3, <2>1, <2>2, <2>3, CallFacts
  <2>5. ~GivesDense(n, Me)
    BY <2>4 DEF BackpropNull, Arrives
  <2>6. QED
    BY <1>1, <2>4, <2>5, Gives
<1>5. Sound(heap)
  BY <1>4 DEF TokensInv
<1>6. PICK K : K = {"copy"}
  OBVIOUS
<1>7. Now(op, K) /\ K \subseteq Simple
  BY <1>3, <1>4, <1>6 DEF Now, Simple
<1>8. "error_input" \in MembersOf(Me) /\ "error_output" \in MembersOf(Me)
  BY <1>4 DEF MembersOf, Members
<1>9. PICK W : W = {Mine("error_input"), Mine("error_output")}
  OBVIOUS
<1>10. PICK j : j = heap'
  OBVIOUS
<1>11. /\ j = Release(heap, W) /\ Continue(<<>>) /\ UNCHANGED <<script, outcome>>
       /\ hand = Null /\ hand' = hand
  BY <1>9, <1>10 DEF BackpropNull
<1>12. W \subseteq DOMAIN heap.at
  BY <1>4, <1>5, <1>8, <1>9, MineFacts
<1>13. /\ Changes(heap, j, W) /\ \A p \in W : j.at[p] = Null
       /\ j.type = heap.type /\ Live(j) = Live(heap)
  <2>1. Changes(heap, j, W) /\ \A p \in W : j.at[p] = Null
    BY <1>5, <1>11, <1>12, ReleaseChanges
  <2>2. j.type = heap.type /\ Live(j) = Live(heap)
    BY <1>5, <1>11, <1>12, ReleaseSound
  <2>3. QED
    BY <2>1, <2>2
<1>14. Argument(op) = "error_input" /\ Result(op, Me) = "error_output"
  BY <1>2, <1>4 DEF Argument, Result
<1>15. j.at[Mine("error_input")] = hand
  BY <1>9, <1>11, <1>13
<1>16. Took(op, j, Port(Me, 0), hand)
  BY <1>14, <1>15, TakesMine
<1>17. /\ W \subseteq {Mine(Argument(op)), Mine(Result(op, Me))}
       /\ Changes(heap, heap', W) /\ Took(op, heap', Port(Me, 0), hand)
       /\ \A x \in Live(heap) : x \in Live(heap') /\ heap'.type[x] = heap.type[x]
       /\ hand' = heap'.at[Mine(Result(op, Me))]
  BY <1>9, <1>10, <1>11, <1>13, <1>14, <1>16
<1>18. QED
  BY <1>7, <1>11, <1>17, LeafWire
-----------------------------------------------------------------------------
(***************************************************************************)
(* The containers that pass a token on                                     *)
(***************************************************************************)
LEMMA OntoWire ==
    ASSUME NEW n \in Components, NEW x \in Doors(n), NEW y \in Doors(n), Onto(n, x, y)
    PROVE  Wire(n, x) = Wire(n, y)
<1>1. PICK D : D = Doors(n)
  OBVIOUS
<1>2. PICK E : E = Links(n)
  OBVIOUS
<1>3. PICK e \in E : e[1] = x /\ e[2] = y
  <2>1. <<x, y>> \in Links(n)
    BY DEF Links
  <2>2. <<x, y>>[1] = x /\ <<x, y>>[2] = y
    OBVIOUS
  <2>3. QED
    BY <1>2, <2>1, <2>2
<1>4. Tied(D, E, x) = Tied(D, E, y)
  BY <1>3, SameWire
<1>5. QED
  BY <1>1, <1>2, <1>4 DEF Wire

LEMMA ForwardLine ==
    ASSUME NEW n \in Components, NEW me \in Below[n], Kind[me] \in Through,
           NEW ch, ch = Children[me]
    PROVE  /\ ch = <<>> => Wire(n, In(me)) = Wire(n, Out(me))
           /\ ch # <<>> => /\ Wire(n, In(me)) = Wire(n, In(ch[1]))
                           /\ Wire(n, Out(ch[Len(ch)])) = Wire(n, Out(me))
           /\ \A i \in DOMAIN ch : \A j \in DOMAIN ch : j = i + 1 =>
                 Wire(n, Out(ch[i])) = Wire(n, In(ch[j]))
<1>1. ch \in Seq(Components) /\ \A i \in DOMAIN ch : ch[i] \in Below[n]
  BY BelowMore
<1>2. /\ In(me) \in Doors(n) /\ Out(me) \in Doors(n)
      /\ \A i \in DOMAIN ch : In(ch[i]) \in Doors(n) /\ Out(ch[i]) \in Doors(n)
  BY <1>1, DoorFacts
<1>3. ASSUME ch = <<>>
      PROVE  Wire(n, In(me)) = Wire(n, Out(me))
  <2>1. Onto(n, In(me), Out(me))
    BY <1>3 DEF Onto
  <2>2. PICK x \in Doors(n) : x = In(me)
    BY <1>2
  <2>3. PICK y \in Doors(n) : y = Out(me)
    BY <1>2
  <2>4. QED
    BY <2>1, <2>2, <2>3, OntoWire
<1>4. ASSUME ch # <<>>
      PROVE  /\ Wire(n, In(me)) = Wire(n, In(ch[1]))
             /\ Wire(n, Out(ch[Len(ch)])) = Wire(n, Out(me))
  <2>1. 1 \in DOMAIN ch /\ Len(ch) \in DOMAIN ch
    BY <1>1, <1>4
  <2>2. Onto(n, In(me), In(ch[1]))
    BY <1>4 DEF Onto
  <2>3. Onto(n, Out(ch[Len(ch)]), Out(me))
    BY <2>1 DEF Onto
  <2>4. PICK x \in Doors(n) : x = In(me)
    BY <1>2
  <2>5. PICK y \in Doors(n) : y = In(ch[1])
    BY <1>2, <2>1
  <2>6. PICK v \in Doors(n) : v = Out(ch[Len(ch)])
    BY <1>2, <2>1
  <2>7. PICK w \in Doors(n) : w = Out(me)
    BY <1>2
  <2>8. Wire(n, x) = Wire(n, y)
    BY <2>2, <2>4, <2>5, OntoWire
  <2>9. Wire(n, v) = Wire(n, w)
    BY <2>3, <2>6, <2>7, OntoWire
  <2>10. QED
    BY <2>4, <2>5, <2>6, <2>7, <2>8, <2>9
<1>5. ASSUME NEW i \in DOMAIN ch, NEW j \in DOMAIN ch, j = i + 1
      PROVE  Wire(n, Out(ch[i])) = Wire(n, In(ch[j]))
  <2>1. i # Len(ch)
    BY <1>1, <1>5
  <2>2. Onto(n, Out(ch[i]), In(ch[j]))
    BY <1>5, <2>1 DEF Onto
  <2>3. PICK x \in Doors(n) : x = Out(ch[i])
    BY <1>2
  <2>4. PICK y \in Doors(n) : y = In(ch[j])
    BY <1>2
  <2>5. QED
    BY <2>2, <2>3, <2>4, OntoWire
<1>6. QED
  BY <1>3, <1>4, <1>5

\* The children in the order of the call op.
Order(op, c) == IF op = "forward" THEN Children[c] ELSE Reverse(Children[c])
Mirrors(s, t) == \A i \in DOMAIN s : s[i] = t[Len(s) + 1 - i]

LEMMA OrderFacts ==
    ASSUME NEW op \in Directions, NEW c \in Components, NEW ch, ch = Order(op, c)
    PROVE  /\ ch \in Seq(Components) /\ DOMAIN ch = DOMAIN Children[c] /\ Len(ch) = Len(Children[c])
           /\ op = "forward" => ch = Children[c]
           /\ op = "backprop" => Mirrors(ch, Children[c])
           /\ \A i \in DOMAIN ch : \E j \in DOMAIN Children[c] : ch[i] = Children[c][j]
           /\ \A i \in DOMAIN Children[c] : \E j \in DOMAIN ch : ch[j] = Children[c][i]
<1>1. PICK d \in Seq(Components) : d = Children[c]
  BY TreeAssumption
<1>2. Len(d) \in Nat /\ DOMAIN d = 1 .. Len(d)
  BY <1>1
<1>3. CASE op = "forward"
  BY <1>1, <1>3 DEF Order
<1>4. CASE op = "backprop"
  <2>1. ch = [i \in 1 .. Len(d) |-> d[(Len(d) - i) + 1]]
    BY <1>1, <1>4 DEF Order, Reverse
  <2>2. \A i \in 1 .. Len(d) : (Len(d) - i) + 1 \in 1 .. Len(d) /\ (Len(d) - i) + 1 = Len(d) + 1 - i
    BY <1>2
  <2>3. ch \in Seq(Components) /\ DOMAIN ch = 1 .. Len(d) /\ Len(ch) = Len(d)
    BY <1>2, <2>1, <2>2
  <2>4. \A i \in 1 .. Len(d) : ch[i] = d[Len(d) + 1 - i] /\ Len(d) + 1 - i \in 1 .. Len(d)
    BY <2>1, <2>2
  <2>5. \A i \in 1 .. Len(d) : ch[Len(d) + 1 - i] = d[i]
    <3>1. \A i \in 1 .. Len(d) : Len(d) + 1 - (Len(d) + 1 - i) = i
      BY <1>2
    <3>2. QED
      BY <2>4, <3>1
  <2>6. Mirrors(ch, d)
    BY <2>3, <2>4 DEF Mirrors
  <2>7. /\ \A i \in DOMAIN ch : \E j \in DOMAIN d : ch[i] = d[j]
        /\ \A i \in DOMAIN d : \E j \in DOMAIN ch : ch[j] = d[i]
    BY <1>2, <2>2, <2>3, <2>4, <2>5
  <2>8. QED
    BY <1>1, <1>2, <1>4, <2>3, <2>6, <2>7
<1>5. QED
  BY <1>3, <1>4 DEF Directions

\* Along the children, each wire goes from one to the next.
LEMMA LineWires ==
    ASSUME NEW n \in Components, NEW me \in Below[n], Kind[me] \in Through,
           NEW op \in Directions, NEW ch, ch = Order(op, me)
    PROVE  /\ ch = <<>> => Wire(n, Entrance(op, me)) = Wire(n, Exit(op, me))
           /\ ch # <<>> => /\ Wire(n, Entrance(op, me)) = Wire(n, Entrance(op, ch[1]))
                           /\ Wire(n, Exit(op, ch[Len(ch)])) = Wire(n, Exit(op, me))
           /\ \A i \in DOMAIN ch : \A j \in DOMAIN ch : j = i + 1 =>
                 Wire(n, Exit(op, ch[i])) = Wire(n, Entrance(op, ch[j]))
<1>1. me \in Components
  BY BelowMore
<1>2. PICK d : d = Children[me]
  OBVIOUS
<1>3. /\ d = <<>> => Wire(n, In(me)) = Wire(n, Out(me))
      /\ d # <<>> => /\ Wire(n, In(me)) = Wire(n, In(d[1]))
                     /\ Wire(n, Out(d[Len(d)])) = Wire(n, Out(me))
      /\ \A i \in DOMAIN d : \A j \in DOMAIN d : j = i + 1 =>
            Wire(n, Out(d[i])) = Wire(n, In(d[j]))
  BY <1>2, ForwardLine
<1>4. /\ ch \in Seq(Components) /\ DOMAIN ch = DOMAIN d /\ Len(ch) = Len(d)
      /\ op = "forward" => ch = d
      /\ op = "backprop" => Mirrors(ch, d)
  <2>1. PICK c \in Components : c = me
    BY <1>1
  <2>2. ch = Order(op, c) /\ d = Children[c]
    BY <1>2, <2>1
  <2>3. QED
    BY <2>2, OrderFacts
<1>5. CASE op = "forward"
  BY <1>3, <1>4, <1>5 DEF Entrance, Exit
<1>6. CASE op = "backprop"
  <2>1. \A x : Entrance(op, x) = Out(x) /\ Exit(op, x) = In(x)
    BY <1>6 DEF Entrance, Exit
  <2>2. d \in Seq(Components)
    BY <1>1, <1>2, TreeAssumption
  <2>3. PICK l \in Nat : l = Len(d) /\ DOMAIN d = 1 .. l
    BY <2>2
  <2>4. ch = <<>> <=> d = <<>>
    BY <1>4, <2>2
  <2>5. ASSUME ch # <<>>
        PROVE  ch[1] = d[Len(d)] /\ ch[Len(ch)] = d[1]
    <3>1. 1 \in DOMAIN ch /\ l \in DOMAIN ch /\ l + 1 - 1 = l /\ l + 1 - l = 1
      BY <1>4, <2>2, <2>3, <2>4, <2>5
    <3>2. QED
      BY <1>4, <1>6, <2>3, <3>1 DEF Mirrors
  <2>6. ASSUME NEW i \in DOMAIN ch, NEW j \in DOMAIN ch, j = i + 1
        PROVE  Wire(n, Exit(op, ch[i])) = Wire(n, Entrance(op, ch[j]))
    <3>1. PICK k \in DOMAIN d : k = l + 1 - j
      BY <1>4, <2>3
    <3>2. PICK m \in DOMAIN d : m = l + 1 - i
      BY <1>4, <2>3
    <3>3. m = k + 1
      BY <1>4, <2>3, <2>6, <3>1, <3>2
    <3>4. ch[i] = d[m] /\ ch[j] = d[k]
      BY <1>4, <1>6, <2>3, <3>1, <3>2 DEF Mirrors
    <3>5. Wire(n, Out(d[k])) = Wire(n, In(d[m]))
      BY <1>3, <3>3
    <3>6. QED
      BY <2>1, <3>4, <3>5
  <2>7. QED
    BY <1>3, <2>1, <2>4, <2>5, <2>6
<1>7. QED
  BY <1>5, <1>6 DEF Directions

\* A step that changes no token.
LEMMA NothingGrows ==
    ASSUME Sound(heap), NEW g, g = heap, NEW W, W = {}
    PROVE  Grows(g, W)
  BY DEF Grows, Changes

\* What is passed to the step to come.
LEMMA BroughtNow ==
    ASSUME ReadyInv, WireInv, NEW op \in Directions, Running, call = op, outcome = "running",
           todo # <<>>, NEW n, n = last[2], NEW s, s = Head(todo), Takes(op, s)
    PROVE  BringsTo(n, op, Door(op, s), heap, hand)
<1>1. Ran
  BY DEF ReadyInv, CallInv, Ran, Running
<1>2. Brings(n, op, s, heap, hand)
  BY <1>1 DEF WireInv
<1>3. QED
  BY <1>2 DEF Brings

LEMMA BringsSame ==
    ASSUME NEW n, NEW op, NEW x, NEW y, Wire(n, x) = Wire(n, y), NEW h, NEW t,
           BringsTo(n, op, x, h, t)
    PROVE  BringsTo(n, op, y, h, t)
  BY DEF BringsTo

\* The doors below a container are those of its children and its own.
LEMMA InsideDoors ==
    ASSUME NEW me \in Components, NEW op, NEW x \in Doors(me)
    PROVE  \/ x = Entrance(op, me) \/ x = Exit(op, me)
           \/ \E i \in DOMAIN Children[me] : x \in Doors(Children[me][i])
<1>1. PICK d \in Below[me] : x = In(d) \/ x = Out(d)
  BY DEF Doors, In, Out
<1>2. d = me \/ \E i \in DOMAIN Children[me] : d \in Below[Children[me][i]]
  <2>1. me \in Below[me]
    BY BelowFacts
  <2>2. QED
    BY <2>1, BelowMore
<1>3. CASE d = me
  BY <1>1, <1>3 DEF Entrance, Exit
<1>4. ASSUME NEW i \in DOMAIN Children[me], d \in Below[Children[me][i]]
      PROVE  x \in Doors(Children[me][i])
  BY <1>1, <1>4, DoorFacts
<1>5. QED
  BY <1>2, <1>3, <1>4

LEMMA ThroughWire ==
    ASSUME ReadyInv, WireInv, NEW op \in Directions, Now(op, Through),
           UNCHANGED <<heap, flags, hand, script, outcome>>,
           NEW ch, ch = Order(op, Me), NEW steps, steps = Each(op, ch), Continue(steps)
    PROVE  WireInv'
<1>1. PICK n : n = last[2]
  OBVIOUS
<1>2. PICK s : s = Head(todo)
  OBVIOUS
<1>3. Phase(op) = op /\ op \in {"forward", "backprop"} /\ op \notin Loops /\ op \notin Keeps
  BY DEF Directions, Phase, Loops, Keeps
<1>4. /\ TokensInv /\ Running /\ outcome = "running" /\ todo # <<>> /\ Me \in Components
      /\ Kind[Me] \in Through /\ call = op /\ n \in Components /\ Me \in Below[n]
      /\ s.c = Me /\ s.op = op
  <2>1. PICK K : K = Through
    OBVIOUS
  <2>2. Now(op, K)
    BY <2>1
  <2>3. QED
    BY <1>1, <1>2, <1>3, <2>1, <2>2, CallFacts
<1>5. PICK me \in Components : me = Me
  BY <1>4
<1>6. /\ ch \in Seq(Components)
      /\ \A i \in DOMAIN Children[me] : \E j \in DOMAIN ch : ch[j] = Children[me][i]
  BY <1>5, OrderFacts
<1>7. /\ ch = <<>> => Wire(n, Entrance(op, me)) = Wire(n, Exit(op, me))
      /\ ch # <<>> => /\ Wire(n, Entrance(op, me)) = Wire(n, Entrance(op, ch[1]))
                      /\ Wire(n, Exit(op, ch[Len(ch)])) = Wire(n, Exit(op, me))
      /\ \A i \in DOMAIN ch : \A j \in DOMAIN ch : j = i + 1 =>
            Wire(n, Exit(op, ch[i])) = Wire(n, Entrance(op, ch[j]))
  <2>1. me \in Below[n] /\ Kind[me] \in Through /\ ch = Order(op, me)
    BY <1>4, <1>5
  <2>2. QED
    BY <1>4, <2>1, LineWires
<1>8. /\ steps \in Seq(Steps) /\ DOMAIN steps = DOMAIN ch /\ Len(steps) = Len(ch)
      /\ \A k \in DOMAIN steps : steps[k].op = op /\ steps[k].c = ch[k]
  <2>1. /\ Len(ch) \in Nat /\ DOMAIN ch = 1 .. Len(ch)
        /\ \A k \in 1 .. Len(ch) : [op |-> op, c |-> ch[k], i |-> 0] \in Steps
    BY <1>3, <1>6 DEF Steps
  <2>2. steps = [k \in 1 .. Len(ch) |-> [op |-> op, c |-> ch[k], i |-> 0]]
    BY <1>6 DEF Each
  <2>3. QED
    BY <2>1, <2>2
<1>9. /\ Takes(op, s) /\ Door(op, s) = Entrance(op, me)
      /\ \A k \in DOMAIN steps :
            Takes(op, steps[k]) /\ Door(op, steps[k]) = Entrance(op, ch[k])
  BY <1>3, <1>4, <1>5, <1>8 DEF Takes, Door
<1>10. InLine(n, op, steps)
  BY <1>7, <1>8, <1>9 DEF InLine, Ties
<1>11. LeadsTo(n, op, steps, me)
  <2>1. ASSUME NEW k \in DOMAIN steps, k + 1 \notin DOMAIN steps
        PROVE  Wire(n, Exit(op, steps[k].c)) = Wire(n, Exit(op, me))
    <3>1. k = Len(ch) /\ ch # <<>>
      BY <1>6, <1>8, <2>1
    <3>2. QED
      BY <1>7, <1>8, <2>1, <3>1
  <2>2. QED
    BY <2>1 DEF LeadsTo
<1>12. \A k \in DOMAIN steps : Doors(ch[k]) \subseteq Ahead(op, steps[k])
  BY <1>8 DEF Ahead
<1>13. \A k \in DOMAIN steps : \A x \in Doors(ch[k]) : Awaits(n, op, steps, Wire(n, x))
  BY <1>12 DEF Awaits, Reaches
<1>14. Later(n, op, s, steps, Wire(n, Entrance(op, me)))
  <2>1. CASE ch = <<>>
    BY <1>4, <1>5, <1>7, <2>1 DEF Later
  <2>2. CASE ch # <<>>
    <3>1. 1 \in DOMAIN ch /\ ch[1] \in Components
      BY <1>6, <2>2
    <3>2. Entrance(op, ch[1]) \in Doors(ch[1])
      <4>1. ch[1] \in Below[ch[1]]
        BY <3>1, BelowFacts
      <4>2. QED
        BY <4>1, DoorFacts DEF Entrance
    <3>3. Awaits(n, op, steps, Wire(n, Entrance(op, ch[1])))
      BY <1>8, <1>13, <3>1, <3>2
    <3>4. QED
      BY <1>7, <2>2, <3>3 DEF Later
  <2>3. QED
    BY <2>1, <2>2
<1>15. Covers(n, op, s, steps)
  <2>1. ASSUME NEW w, Reaches(n, op, s, w)
        PROVE  Later(n, op, s, steps, w)
    <3>1. Branches(s) = {}
      BY <1>3, <1>4 DEF Branches
    <3>2. PICK x \in Ahead(op, s) : Wire(n, x) = w
      BY <2>1 DEF Reaches
    <3>3. x = Exit(op, me) \/ x \in Doors(me)
      BY <1>3, <1>4, <1>5, <3>1, <3>2 DEF Ahead
    <3>4. CASE x = Exit(op, me)
      BY <1>4, <1>5, <3>2, <3>4 DEF Later
    <3>5. CASE x = Entrance(op, me)
      BY <1>14, <3>2, <3>5
    <3>6. CASE \E i \in DOMAIN Children[me] : x \in Doors(Children[me][i])
      <4>1. PICK j \in DOMAIN ch : x \in Doors(ch[j])
        BY <1>6, <3>6
      <4>2. Awaits(n, op, steps, w)
        BY <1>8, <1>13, <3>2, <4>1
      <4>3. QED
        BY <4>2 DEF Later
    <3>7. QED
      BY <3>3, <3>4, <3>5, <3>6, InsideDoors
  <2>2. QED
    BY <2>1 DEF Covers
<1>16. BringsTo(n, op, Entrance(op, me), heap, hand)
  BY <1>1, <1>2, <1>4, <1>9, BroughtNow
<1>17. PICK g : g = heap' /\ g = heap
  OBVIOUS
<1>18. PICK u : u = hand' /\ u = hand
  OBVIOUS
<1>19. IF steps = <<>> THEN BringsTo(n, op, Exit(op, s.c), g, u)
                       ELSE Brings(n, op, steps[1], g, u)
  <2>1. CASE steps = <<>>
    <3>1. ch = <<>>
      BY <1>6, <1>8, <2>1
    <3>2. BringsTo(n, op, Exit(op, me), heap, hand)
      BY <1>7, <1>16, <3>1, BringsSame
    <3>3. QED
      BY <1>4, <1>5, <1>17, <1>18, <2>1, <3>2
  <2>2. CASE steps # <<>>
    <3>1. ch # <<>> /\ 1 \in DOMAIN steps
      BY <1>6, <1>8, <2>2
    <3>2. BringsTo(n, op, Entrance(op, ch[1]), heap, hand)
      BY <1>7, <1>16, <3>1, BringsSame
    <3>3. QED
      BY <1>9, <1>17, <1>18, <2>2, <3>1, <3>2 DEF Brings
  <2>3. QED
    BY <2>1, <2>2
<1>20. PICK W : W = {}
  OBVIOUS
<1>21. HandlesStep(n, op, Head(todo), steps, W, hand, heap', hand')
  <2>1. LeadsTo(n, op, steps, s.c)
    BY <1>4, <1>5, <1>11
  <2>2. HandlesStep(n, op, s, steps, W, u, g, u)
    BY <1>9, <1>10, <1>14, <1>15, <1>19, <1>20, <2>1 DEF HandlesStep
  <2>3. QED
    BY <1>2, <1>17, <1>18, <2>2
<1>22. Grows(heap', W) /\ W \subseteq OwnPlaces(op)
  <2>1. Sound(heap)
    BY <1>4 DEF TokensInv
  <2>2. Grows(g, W)
    BY <1>17, <1>20, <2>1, NothingGrows
  <2>3. QED
    BY <1>17, <1>20, <2>2
<1>23. QED
  BY <1>1, <1>4, <1>8, <1>21, <1>22, CallWire

LEMMA ForwardThroughWire == ASSUME ReadyInv, WireInv, ForwardThrough PROVE WireInv'
<1>1. PICK op \in Directions : op = "forward"
  BY DEF Directions
<1>2. Now(op, Through) /\ UNCHANGED <<heap, flags, hand, script, outcome>>
  BY <1>1 DEF ForwardThrough, Through
<1>3. PICK ch : ch = Order(op, Me)
  OBVIOUS
<1>4. PICK steps : steps = Each(op, ch)
  OBVIOUS
<1>5. Continue(steps)
  BY <1>1, <1>3, <1>4 DEF ForwardThrough, Order
<1>6. QED
  BY <1>2, <1>3, <1>4, <1>5, ThroughWire

LEMMA BackpropThroughWire == ASSUME ReadyInv, WireInv, BackpropThrough PROVE WireInv'
<1>1. PICK op \in Directions : op = "backprop"
  BY DEF Directions
<1>2. Now(op, Through) /\ UNCHANGED <<heap, flags, hand, script, outcome>>
  BY <1>1 DEF BackpropThrough, Through
<1>3. PICK ch : ch = Order(op, Me)
  OBVIOUS
<1>4. PICK steps : steps = Each(op, ch)
  OBVIOUS
<1>5. Continue(steps)
  BY <1>1, <1>3, <1>4 DEF BackpropThrough, Order
<1>6. QED
  BY <1>2, <1>3, <1>4, <1>5, ThroughWire
-----------------------------------------------------------------------------
(***************************************************************************)
(* The join                                                                *)
(***************************************************************************)
\* The ports of a join and its branches.
JoinPorts(n, op, me) ==
    /\ Port(me, 0) \in Ports(n)
    /\ TakeDoor(op, Port(me, 0)) = Entrance(op, me) /\ GiveDoor(op, Port(me, 0)) = Exit(op, me)
    /\ Children[me] \in Seq(Components)
    /\ \A i \in DOMAIN Children[me] :
          /\ Port(me, i) \in Ports(n)
          /\ TakeDoor(op, Port(me, i)) = Exit(op, Children[me][i])
          /\ GiveDoor(op, Port(me, i)) = Entrance(op, Children[me][i])
          /\ TakeSpot(op, Port(me, i)) = Entry(Here(Returns(op)), i)
          /\ GiveSpot(op, Port(me, i)) = Entry(Here(Shares(op)), i)
          /\ Exit(op, Children[me][i]) \in Doors(Children[me][i])
          /\ Entrance(op, Children[me][i]) \in Doors(Children[me][i])
    /\ Entrance(op, me) \in Doors(me)

\* What the call op of a join may write of the ports.
JoinTakes(n, op, me) ==
    \A b \in Ports(n) :
       /\ TakeSpot(op, b) = Mine(Argument(op)) => b = Port(me, 0)
       /\ TakeSpot(op, b) # Mine(Result(op, me))
       /\ TakeSpot(op, b) \notin MyEntries(Shares(op))
       /\ \A i \in DOMAIN Children[me] :
             TakeSpot(op, b) = Entry(Here(Returns(op)), i) => b = Port(me, i)
JoinGives(n, op, me) ==
    \A b \in Ports(n) :
       /\ GiveSpot(op, b) = Mine(Result(op, me)) => b = Port(me, 0)
       /\ GiveSpot(op, b) # Mine(Argument(op))
       /\ GiveSpot(op, b) \notin MyEntries(Returns(op))
       /\ GiveSpot(op, b) \in MyEntries(Shares(op)) =>
             \E i \in DOMAIN Children[me] : b = Port(me, i)

LEMMA JoinFacts ==
    ASSUME TokensInv, Running, NEW me \in Components, me = Me, Kind[me] = "join",
           NEW n \in Components, me \in Below[n], NEW op \in Directions
    PROVE  JoinPorts(n, op, me) /\ JoinTakes(n, op, me) /\ JoinGives(n, op, me)
<1>1. Children[me] \in Seq(Components)
  BY TreeAssumption
<1>2. Port(me, 0) \in Ports(n) /\ \A i \in DOMAIN Children[me] : Port(me, i) \in Ports(n) /\ i # 0
  <2>1. Kind[me] \in Keeping
    BY DEF Keeping
  <2>2. QED
    BY <2>1, PortFacts
<1>3. \A i : Port(me, i).of = me /\ Port(me, i).i = i
  BY PortFacts
<1>4. /\ TakeDoor(op, Port(me, 0)) = Entrance(op, me)
      /\ GiveDoor(op, Port(me, 0)) = Exit(op, me)
      /\ \A i \in DOMAIN Children[me] :
            /\ TakeDoor(op, Port(me, i)) = Exit(op, Children[me][i])
            /\ GiveDoor(op, Port(me, i)) = Entrance(op, Children[me][i])
  BY <1>2, <1>3 DEF TakeDoor, GiveDoor
<1>5. \A i \in DOMAIN Children[me] : /\ TakeSpot(op, Port(me, i)) = Entry(Here(Returns(op)), i)
                                     /\ GiveSpot(op, Port(me, i)) = Entry(Here(Shares(op)), i)
  BY <1>2, <1>3, MyPorts
<1>6. \A x \in Components : Entrance(op, x) \in Doors(x) /\ Exit(op, x) \in Doors(x)
  <2>1. \A x \in Components : x \in Below[x]
    BY BelowFacts
  <2>2. QED
    BY <2>1, DoorFacts DEF Entrance, Exit
<1>7. \A i \in DOMAIN Children[me] : Children[me][i] \in Components
  BY <1>1
<1>8. JoinPorts(n, op, me)
  BY <1>1, <1>2, <1>4, <1>5, <1>6, <1>7 DEF JoinPorts
<1>9. /\ Argument(op) \in Members /\ Result(op, me) \in Members /\ Argument(op) # Result(op, me)
      /\ Shares(op) \in Vectors /\ Returns(op) \in Vectors /\ Shares(op) # Returns(op)
  BY DEF Argument, Result, Members, Shares, Returns, Vectors
<1>10. /\ MyEntries(Returns(op)) = {Entry(Here(Returns(op)), i) : i \in DOMAIN Children[me]}
       /\ MyEntries(Shares(op)) = {Entry(Here(Shares(op)), i) : i \in DOMAIN Children[me]}
  BY <1>9, MyVector DEF Running
<1>11. ASSUME NEW b \in Ports(n)
       PROVE  /\ TakeSpot(op, b) = Mine(Argument(op)) => b = Port(me, 0)
              /\ TakeSpot(op, b) # Mine(Result(op, me))
              /\ TakeSpot(op, b) \notin MyEntries(Shares(op))
              /\ \A i \in DOMAIN Children[me] :
                    TakeSpot(op, b) = Entry(Here(Returns(op)), i) => b = Port(me, i)
              /\ GiveSpot(op, b) = Mine(Result(op, me)) => b = Port(me, 0)
              /\ GiveSpot(op, b) # Mine(Argument(op))
              /\ GiveSpot(op, b) \notin MyEntries(Returns(op))
              /\ GiveSpot(op, b) \in MyEntries(Shares(op)) =>
                    \E i \in DOMAIN Children[me] : b = Port(me, i)
  <2>1. /\ \A f \in Members : TakeSpot(op, b) = Mine(f) => b = Port(Me, 0) /\ f = Argument(op)
        /\ \A f \in Members : GiveSpot(op, b) = Mine(f) => b = Port(Me, 0) /\ f = Result(op, Me)
        /\ Kind[Me] = "join" => \A v \in Vectors :
              /\ TakeSpot(op, b) \in MyEntries(v) => b.of = Me /\ b.i # 0 /\ v = Returns(op)
              /\ GiveSpot(op, b) \in MyEntries(v) => b.of = Me /\ b.i # 0 /\ v = Shares(op)
        /\ Kind[Me] = "join" /\ b.of = Me /\ b.i # 0 =>
              /\ TakeSpot(op, b) = Entry(Here(Returns(op)), b.i)
              /\ GiveSpot(op, b) = Entry(Here(Shares(op)), b.i)
    BY MyPorts
  <2>2. /\ TakeSpot(op, b) = Mine(Argument(op)) => b = Port(me, 0)
        /\ TakeSpot(op, b) # Mine(Result(op, me))
        /\ GiveSpot(op, b) = Mine(Result(op, me)) => b = Port(me, 0)
        /\ GiveSpot(op, b) # Mine(Argument(op))
    BY <1>9, <2>1
  <2>3. /\ TakeSpot(op, b) \notin MyEntries(Shares(op))
        /\ GiveSpot(op, b) \notin MyEntries(Returns(op))
    BY <1>9, <2>1
  <2>4. b = Port(b.of, b.i) /\ (b.of = me /\ b.i # 0 => b.i \in DOMAIN Children[me])
    BY PortFacts
  <2>5. GiveSpot(op, b) \in MyEntries(Shares(op)) => \E i \in DOMAIN Children[me] : b = Port(me, i)
    BY <1>9, <2>1, <2>4
  <2>6. ASSUME NEW i \in DOMAIN Children[me], TakeSpot(op, b) = Entry(Here(Returns(op)), i)
        PROVE  b = Port(me, i)
    <3>1. TakeSpot(op, b) \in MyEntries(Returns(op))
      BY <1>10, <2>6
    <3>2. b.of = me /\ TakeSpot(op, b) = Entry(Here(Returns(op)), b.i)
      BY <1>9, <2>1, <3>1
    <3>3. b.i = i
      <4>1. PICK t : t = Here(Returns(op))
        OBVIOUS
      <4>2. PICK j : j = b.i
        OBVIOUS
      <4>3. Entry(t, i) = Entry(t, j)
        BY <2>6, <3>2, <4>1, <4>2
      <4>4. QED
        BY <4>2, <4>3, EntriesApart
    <3>4. QED
      BY <2>4, <3>2, <3>3
  <2>7. QED
    BY <2>2, <2>3, <2>5, <2>6
<1>12. JoinTakes(n, op, me) /\ JoinGives(n, op, me)
  BY <1>11 DEF JoinTakes, JoinGives
<1>13. QED
  BY <1>8, <1>12

\* The two doors of Me and those of its children.
LEMMA StepWire ==
    ASSUME ReadyInv, WireInv, NEW op \in Directions, NEW how, NEW K, K = {"join"}, Now(how, K),
           Phase(how) = op, UNCHANGED <<script, outcome>>,
           NEW n, n = last[2], NEW s, s = Head(todo), NEW steps \in Seq(Steps), Continue(steps),
           NEW W, W \subseteq OwnPlaces(op), Changes(heap, heap', W),
           \A x \in Live(heap) : x \in Live(heap') /\ heap'.type[x] = heap.type[x],
           NEW t, t = hand, NEW g, g = heap', NEW u, u = hand',
           HandlesStep(n, op, s, steps, W, t, g, u)
    PROVE  WireInv'
<1>1. /\ TokensInv /\ Running /\ outcome = "running" /\ todo # <<>> /\ Me \in Components
      /\ Kind[Me] \in K /\ call = op
  BY CallFacts DEF Directions
<1>2. Grows(heap', W)
  BY <1>1, OwnGrows DEF Keeping
<1>3. QED
  BY <1>1, <1>2, CallWire

LEMMA JoinStartsWire ==
    ASSUME ReadyInv, WireInv, NEW op \in Directions, NEW K, K = {"join"}, Now(op, K),
           UNCHANGED <<script, outcome>>, hand' = hand,
           NEW loop, loop = (IF op = "forward" THEN "forward_child" ELSE "backprop_child"),
           Continue(Do(loop, Me, 1)),
           NEW W, W = {Mine(Argument(op))} \cup MyEntries(Shares(op)), Changes(heap, heap', W),
           \A x \in Live(heap) : x \in Live(heap') /\ heap'.type[x] = heap.type[x],
           heap'.at[Mine(Argument(op))] = hand
    PROVE  WireInv'
<1>1. PICK n : n = last[2]
  OBVIOUS
<1>2. PICK s : s = Head(todo)
  OBVIOUS
<1>3. Phase(op) = op /\ op \in {"forward", "backprop"} /\ op \notin Loops /\ op \notin Keeps
  BY DEF Directions, Phase, Loops, Keeps
<1>4. /\ TokensInv /\ Running /\ Me \in Components /\ Kind[Me] = "join" /\ n \in Components
      /\ Me \in Below[n] /\ s.c = Me /\ s.op = op
  BY <1>1, <1>2, <1>3, CallFacts
<1>5. PICK me \in Components : me = Me
  BY <1>4
<1>6. JoinPorts(n, op, me) /\ JoinTakes(n, op, me) /\ JoinGives(n, op, me)
  BY <1>4, <1>5, JoinFacts
<1>7. PICK one \in Steps : one.op = loop /\ one.c = me /\ one.i = 1 /\ Do(loop, Me, 1) = <<one>>
  <2>1. [op |-> loop, c |-> Me, i |-> 1] \in Steps
    BY <1>4 DEF Steps, Loops
  <2>2. QED
    BY <1>5, <2>1 DEF Do
<1>8. PICK steps \in Seq(Steps) : steps = <<one>> /\ DOMAIN steps = {1} /\ steps[1] = one
  <2>1. <<one>> \in Seq(Steps) /\ DOMAIN <<one>> = {1} /\ <<one>>[1] = one
    OBVIOUS
  <2>2. QED
    BY <2>1
<1>9. one.op \in Loops /\ one.op \notin Keeps /\ one.op # op
  BY <1>3, <1>7 DEF Loops, Keeps
<1>10. InLine(n, op, steps) /\ LeadsTo(n, op, steps, me)
  BY <1>7, <1>8 DEF InLine, LeadsTo
<1>11. \A i \in DOMAIN Children[me] : \A x \in Doors(Children[me][i]) :
          Awaits(n, op, steps, Wire(n, x))
  <2>1. Branches(one) = DOMAIN Children[me]
    <3>1. \A j \in DOMAIN Children[me] : 1 <= j
      BY <1>6 DEF JoinPorts
    <3>2. QED
      BY <1>7, <1>9, <3>1 DEF Branches
  <2>2. \A i \in DOMAIN Children[me] : Doors(Children[me][i]) \subseteq Ahead(op, one)
    BY <1>7, <2>1 DEF Ahead
  <2>3. QED
    BY <1>8, <2>2 DEF Awaits, Reaches
<1>12. Takes(op, s) /\ Door(op, s) = Entrance(op, me)
  BY <1>3, <1>4, <1>5 DEF Takes, Door
<1>13. Covers(n, op, s, steps)
  <2>1. ASSUME NEW w, Reaches(n, op, s, w)
        PROVE  Later(n, op, s, steps, w) \/ w = Wire(n, Entrance(op, me))
    <3>1. Branches(s) = {}
      BY <1>3, <1>4 DEF Branches
    <3>2. PICK x \in Ahead(op, s) : Wire(n, x) = w
      BY <2>1 DEF Reaches
    <3>3. x = Exit(op, me) \/ x \in Doors(me)
      BY <1>3, <1>4, <1>5, <3>1, <3>2 DEF Ahead
    <3>4. CASE x = Exit(op, me)
      BY <1>4, <1>5, <3>2, <3>4 DEF Later
    <3>5. CASE x = Entrance(op, me)
      BY <3>2, <3>5
    <3>6. CASE \E i \in DOMAIN Children[me] : x \in Doors(Children[me][i])
      BY <1>11, <3>2, <3>6 DEF Later
    <3>7. QED
      BY <3>3, <3>4, <3>5, <3>6, InsideDoors
  <2>2. QED
    BY <1>12, <2>1 DEF Covers
<1>14. PICK g : g = heap'
  OBVIOUS
<1>15. ASSUME NEW b \in Ports(n)
       PROVE  /\ Wire(n, TakeDoor(op, b)) = Wire(n, Door(op, s)) => Took(op, g, b, hand)
              /\ TakeSpot(op, b) \in W => Reaches(n, op, s, Wire(n, TakeDoor(op, b)))
              /\ GiveSpot(op, b) \in W => Later(n, op, s, steps, Wire(n, GiveDoor(op, b)))
  <2>1. ASSUME Wire(n, TakeDoor(op, b)) = Wire(n, Door(op, s))
        PROVE  Took(op, g, b, hand)
    <3>1. b = Port(me, 0)
      BY <1>4, <1>6, <1>12, <2>1, Takers DEF JoinPorts
    <3>2. Took(op, g, Port(Me, 0), hand)
      BY <1>14, TakesMine
    <3>3. QED
      BY <1>5, <3>1, <3>2
  <2>2. ASSUME TakeSpot(op, b) \in W
        PROVE  Reaches(n, op, s, Wire(n, TakeDoor(op, b)))
    <3>1. b = Port(me, 0)
      BY <1>6, <2>2 DEF JoinTakes
    <3>2. Entrance(op, me) \in Ahead(op, s)
      BY <1>3, <1>4, <1>5, <1>6 DEF Ahead, JoinPorts
    <3>3. QED
      BY <1>6, <3>1, <3>2 DEF JoinPorts, Reaches
  <2>3. ASSUME GiveSpot(op, b) \in W
        PROVE  Later(n, op, s, steps, Wire(n, GiveDoor(op, b)))
    <3>1. PICK i \in DOMAIN Children[me] : b = Port(me, i)
      BY <1>6, <2>3 DEF JoinGives
    <3>2. GiveDoor(op, b) \in Doors(Children[me][i])
      BY <1>6, <3>1 DEF JoinPorts
    <3>3. QED
      BY <1>11, <3>2 DEF Later
  <2>4. QED
    BY <2>1, <2>2, <2>3
<1>16. PICK t : t = hand
  OBVIOUS
<1>17. PICK u : u = hand'
  OBVIOUS
<1>18. Brings(n, op, steps[1], g, u)
  BY <1>8, <1>9 DEF Brings, Takes
<1>19. HandlesStep(n, op, s, steps, W, t, g, u)
  <2>1. LeadsTo(n, op, steps, s.c) /\ steps # <<>>
    BY <1>4, <1>5, <1>8, <1>10
  <2>2. QED
    BY <1>10, <1>13, <1>15, <1>16, <1>18, <2>1 DEF HandlesStep
<1>20. Continue(steps) /\ W \subseteq OwnPlaces(op)
  BY <1>4, <1>7, <1>8 DEF OwnPlaces
<1>21. QED
  BY <1>1, <1>2, <1>3, <1>14, <1>16, <1>17, <1>19, <1>20, StepWire

\* A child is called with its share, and its last result is dropped.
LEMMA CallChildWire ==
    ASSUME ReadyInv, WireInv, NEW op \in Directions,
           NEW loop, loop = (IF op = "forward" THEN "forward_child" ELSE "backprop_child"),
           NEW keep, keep = (IF op = "forward" THEN "forwarded" ELSE "backpropped"),
           CallChild(loop, op, Shares(op), Returns(op), keep)
    PROVE  WireInv'
<1>1. PICK n : n = last[2]
  OBVIOUS
<1>2. PICK s : s = Head(todo)
  OBVIOUS
<1>3. PICK K : K = {"join"}
  OBVIOUS
<1>4. /\ Now(loop, K) /\ Phase(loop) = op /\ Phase(loop) \in {"forward", "backprop"}
      /\ loop \in Loops /\ loop \notin Keeps /\ loop \notin Directions
      /\ keep \in Keeps /\ keep \notin Loops /\ keep \notin Directions
      /\ op \notin Loops /\ op \notin Keeps
  BY <1>3 DEF CallChild, Directions, Phase, Loops, Keeps
<1>5. /\ TokensInv /\ Running /\ Me \in Components /\ Kind[Me] = "join" /\ n \in Components
      /\ Me \in Below[n] /\ s.c = Me /\ s.op = loop
  BY <1>1, <1>2, <1>3, <1>4, CallFacts
<1>6. PICK me \in Components : me = Me
  BY <1>5
<1>7. I \in DOMAIN Children[me] /\ Sound(heap) /\ VectorsMade(heap)
  BY <1>3, <1>4, <1>5, <1>6, NowFacts, RunsBuilt DEF Running
<1>8. PICK i \in DOMAIN Children[me] : i = I /\ i \in Nat /\ s.i = i
  <2>1. Children[me] \in Seq(Components)
    BY TreeAssumption
  <2>2. QED
    BY <1>2, <1>7, <2>1 DEF I
<1>9. JoinPorts(n, op, me) /\ JoinTakes(n, op, me) /\ JoinGives(n, op, me)
  BY <1>5, <1>6, JoinFacts
<1>10. PICK x \in Components : x = Children[me][i]
  BY <1>9 DEF JoinPorts
<1>11. PICK one \in Steps : one = [op |-> op, c |-> x, i |-> 0]
  BY <1>4 DEF Steps, Directions
<1>12. PICK two \in Steps : two = [op |-> keep, c |-> me, i |-> i]
  BY <1>4, <1>8 DEF Steps
<1>13. PICK steps \in Seq(Steps) :
          /\ steps = Two(one, two) /\ DOMAIN steps = {1, 2} /\ steps # <<>>
          /\ steps[1] = one /\ steps[2] = two
  BY TwoFacts
<1>14. /\ UNCHANGED <<script, outcome>> /\ Continue(steps)
       /\ heap' = Release(heap, {MyEntry(Returns(op))}) /\ hand' = heap.at[MyEntry(Shares(op))]
  BY <1>6, <1>8, <1>10, <1>11, <1>12, <1>13 DEF CallChild, Passes, Do, Two
<1>15. PICK g : g = heap'
  OBVIOUS
<1>16. PICK W : W = {MyEntry(Returns(op))}
  OBVIOUS
<1>17. /\ MyEntry(Returns(op)) = Entry(Here(Returns(op)), i)
       /\ MyEntry(Shares(op)) = Entry(Here(Shares(op)), i)
  BY <1>8 DEF MyEntry
<1>18. W \subseteq MyEntries(Returns(op)) /\ W \subseteq DOMAIN heap.at
  <2>1. Returns(op) \in Vectors
    BY DEF Returns, Vectors
  <2>2. /\ MyEntries(Returns(op)) = {Entry(Here(Returns(op)), j) : j \in DOMAIN Children[Me]}
        /\ MyEntries(Returns(op)) \subseteq DOMAIN heap.at
    BY <1>5, <2>1, MyVector DEF Running
  <2>3. QED
    BY <1>6, <1>16, <1>17, <2>2
<1>19. W \subseteq OwnPlaces(op)
  BY <1>5, <1>18 DEF OwnPlaces
<1>20. /\ Changes(heap, g, W)
       /\ \A y \in Live(heap) : y \in Live(g) /\ g.type[y] = heap.type[y]
  <2>1. g = Release(heap, W)
    BY <1>14, <1>15, <1>16
  <2>2. Changes(heap, g, W)
    BY <1>7, <1>18, <2>1, ReleaseChanges
  <2>3. g.type = heap.type /\ Live(g) = Live(heap)
    BY <1>7, <1>18, <2>1, ReleaseSound
  <2>4. QED
    BY <2>2, <2>3
<1>21. InLine(n, op, steps)
  <2>1. Ties(n, op, one, two)
    BY <1>4, <1>10, <1>11, <1>12 DEF Ties, Takes, Door
  <2>2. \A j, k \in {1, 2} : k = j + 1 => j = 1 /\ k = 2
    OBVIOUS
  <2>3. QED
    BY <1>13, <2>1, <2>2 DEF InLine
<1>22. LeadsTo(n, op, steps, me)
  <2>1. \A k \in {1, 2} : k + 1 \notin {1, 2} => k = 2
    OBVIOUS
  <2>2. QED
    BY <1>12, <1>13, <2>1 DEF LeadsTo
<1>23. \A j \in DOMAIN Children[me] : i <= j =>
          \A z \in Doors(Children[me][j]) : Awaits(n, op, steps, Wire(n, z))
  <2>1. ASSUME NEW j \in DOMAIN Children[me], i <= j, NEW z \in Doors(Children[me][j])
        PROVE  Awaits(n, op, steps, Wire(n, z))
    <3>1. CASE j = i
      <4>1. z \in Ahead(op, one)
        BY <1>10, <1>11, <2>1, <3>1 DEF Ahead
      <4>2. Reaches(n, op, one, Wire(n, z))
        BY <4>1 DEF Reaches
      <4>3. QED
        BY <1>13, <4>2 DEF Awaits
    <3>2. CASE j # i
      <4>1. j \in Nat
        BY <1>9 DEF JoinPorts
      <4>2. j \in Branches(two)
        BY <1>4, <1>8, <1>12, <2>1, <3>2, <4>1 DEF Branches
      <4>3. z \in Ahead(op, two)
        BY <1>12, <2>1, <4>2 DEF Ahead
      <4>4. Reaches(n, op, two, Wire(n, z))
        BY <4>3 DEF Reaches
      <4>5. QED
        BY <1>13, <4>4 DEF Awaits
    <3>3. QED
      BY <3>1, <3>2
  <2>2. QED
    BY <2>1
<1>24. Covers(n, op, s, steps)
  <2>1. ASSUME NEW w, Reaches(n, op, s, w)
        PROVE  Later(n, op, s, steps, w)
    <3>1. Branches(s) = {j \in DOMAIN Children[me] : i <= j}
      BY <1>4, <1>5, <1>6, <1>8 DEF Branches
    <3>2. PICK z \in Ahead(op, s) : Wire(n, z) = w
      BY <2>1 DEF Reaches
    <3>3. z = Exit(op, me) \/ \E j \in DOMAIN Children[me] : i <= j /\ z \in Doors(Children[me][j])
      BY <1>4, <1>5, <1>6, <3>1, <3>2 DEF Ahead
    <3>4. QED
      BY <1>5, <1>6, <1>23, <3>2, <3>3 DEF Later
  <2>2. QED
    BY <2>1 DEF Covers
<1>25. ~Takes(op, s)
  BY <1>4, <1>5 DEF Takes
<1>26. ASSUME NEW b \in Ports(n)
       PROVE  /\ TakeSpot(op, b) \in W => Reaches(n, op, s, Wire(n, TakeDoor(op, b)))
              /\ GiveSpot(op, b) \notin W
  <2>1. GiveSpot(op, b) \notin W
    BY <1>9, <1>18 DEF JoinGives
  <2>2. ASSUME TakeSpot(op, b) \in W
        PROVE  Reaches(n, op, s, Wire(n, TakeDoor(op, b)))
    <3>1. b = Port(me, i)
      BY <1>9, <1>16, <1>17, <2>2 DEF JoinTakes
    <3>2. TakeDoor(op, b) \in Doors(Children[me][i])
      BY <1>9, <3>1 DEF JoinPorts
    <3>3. i \in Branches(s)
      BY <1>4, <1>5, <1>6, <1>8 DEF Branches
    <3>4. TakeDoor(op, b) \in Ahead(op, s)
      BY <1>5, <1>6, <3>2, <3>3 DEF Ahead
    <3>5. QED
      BY <3>4 DEF Reaches
  <2>3. QED
    BY <2>1, <2>2
<1>27. PICK u : u = hand'
  OBVIOUS
<1>28. Brings(n, op, steps[1], g, u)
  <2>1. Door(op, one) = Entrance(op, x)
    BY <1>4, <1>11 DEF Door
  <2>2. ASSUME NEW a \in Ports(n), Wire(n, GiveDoor(op, a)) = Wire(n, Entrance(op, x))
        PROVE  u = Gave(op, g, a)
    <3>1. a = Port(me, i)
      BY <1>5, <1>9, <1>10, <2>2, Givers DEF JoinPorts
    <3>2. GiveSpot(op, a) \notin W /\ GiveSpot(op, a) = MyEntry(Shares(op))
      BY <1>9, <1>17, <1>26, <3>1 DEF JoinPorts
    <3>3. Grows(g, W)
      BY <1>5, <1>15, <1>19, <1>20, OwnGrows DEF Keeping
    <3>4. Gave(op, g, a) = Gave(op, heap, a)
      BY <1>5, <1>7, <3>2, <3>3, Unmoved
    <3>5. Gave(op, heap, a) = heap.at[GiveSpot(op, a)]
      BY DEF Gave, GiveSpot
    <3>6. QED
      BY <1>14, <1>27, <3>2, <3>4, <3>5
  <2>3. BringsTo(n, op, Entrance(op, x), g, u)
    BY <2>2 DEF BringsTo
  <2>4. QED
    BY <1>13, <2>1, <2>3 DEF Brings
<1>29. PICK t : t = hand
  OBVIOUS
<1>30. HandlesStep(n, op, s, steps, W, t, g, u)
  <2>1. LeadsTo(n, op, steps, s.c)
    BY <1>5, <1>6, <1>22
  <2>2. QED
    BY <1>13, <1>21, <1>24, <1>25, <1>26, <1>28, <2>1 DEF HandlesStep
<1>31. QED
  BY <1>1, <1>2, <1>3, <1>4, <1>14, <1>15, <1>19, <1>20, <1>27, <1>29, <1>30, StepWire

\* What a child returns is kept.
LEMMA KeepResultWire ==
    ASSUME ReadyInv, WireInv, NEW op \in Directions,
           NEW keep, keep = (IF op = "forward" THEN "forwarded" ELSE "backpropped"),
           NEW loop, loop = (IF op = "forward" THEN "forward_child" ELSE "backprop_child"),
           NEW end, end = (IF op = "forward" THEN "end_forward" ELSE "end_backprop"),
           KeepResult(keep, Returns(op), loop, end)
    PROVE  WireInv'
<1>1. PICK n : n = last[2]
  OBVIOUS
<1>2. PICK s : s = Head(todo)
  OBVIOUS
<1>3. PICK K : K = {"join"}
  OBVIOUS
<1>4. /\ Now(keep, K) /\ Phase(keep) = op /\ Phase(keep) \in {"forward", "backprop"}
      /\ keep \in Keeps /\ keep \notin Loops /\ keep \notin Directions /\ keep \notin Loops \cup Ends
      /\ loop \in Loops /\ loop \notin Keeps /\ loop # op
      /\ end \in Ends /\ end \notin Keeps /\ end # op
  BY <1>3 DEF KeepResult, Directions, Phase, Loops, Keeps, Ends
<1>5. /\ TokensInv /\ Running /\ Me \in Components /\ Kind[Me] = "join" /\ n \in Components
      /\ Me \in Below[n] /\ s.c = Me /\ s.op = keep
  BY <1>1, <1>2, <1>3, <1>4, CallFacts
<1>6. PICK me \in Components : me = Me
  BY <1>5
<1>7. I \in DOMAIN Children[me] /\ Sound(heap) /\ VectorsMade(heap)
  BY <1>3, <1>4, <1>5, <1>6, NowFacts, RunsBuilt DEF Running
<1>8. PICK ch \in Seq(Components) : ch = Children[me]
  BY TreeAssumption
<1>9. PICK i \in DOMAIN Children[me] : i = I /\ i \in 1 .. Len(ch) /\ s.i = i
  BY <1>2, <1>7, <1>8 DEF I
<1>10. JoinPorts(n, op, me) /\ JoinTakes(n, op, me) /\ JoinGives(n, op, me)
  BY <1>5, <1>6, JoinFacts
<1>11. PICK one \in Steps :
          /\ one.c = me /\ one.op \in {loop, end}
          /\ i < Len(ch) => one.op = loop /\ one.i = i + 1
          /\ Do(IF I < Len(Children[Me]) THEN loop ELSE end, Me,
                IF I < Len(Children[Me]) THEN I + 1 ELSE 0) = <<one>>
  <2>1. CASE i < Len(ch)
    <3>1. [op |-> loop, c |-> me, i |-> i + 1] \in Steps
      BY <1>4, <1>9 DEF Steps
    <3>2. QED
      BY <1>6, <1>8, <1>9, <2>1, <3>1 DEF Do
  <2>2. CASE ~(i < Len(ch))
    <3>1. [op |-> end, c |-> me, i |-> 0] \in Steps
      BY <1>4 DEF Steps
    <3>2. QED
      BY <1>6, <1>8, <1>9, <2>2, <3>1 DEF Do
  <2>3. QED
    BY <2>1, <2>2
<1>12. PICK steps \in Seq(Steps) : steps = <<one>> /\ DOMAIN steps = {1} /\ steps[1] = one
  <2>1. <<one>> \in Seq(Steps) /\ DOMAIN <<one>> = {1} /\ <<one>>[1] = one
    OBVIOUS
  <2>2. QED
    BY <2>1
<1>13. PICK p : p = MyEntry(Returns(op)) /\ p = Entry(Here(Returns(op)), i)
  BY <1>9 DEF MyEntry
<1>14. /\ UNCHANGED <<script, outcome>> /\ Continue(steps) /\ hand' = hand /\ hand # Null
       /\ heap' = Bind(heap, [q \in {p} |-> hand])
  BY <1>11, <1>12, <1>13 DEF KeepResult
<1>15. PICK g : g = heap'
  OBVIOUS
<1>16. PICK W : W = {p}
  OBVIOUS
<1>17. /\ W \subseteq MyEntries(Returns(op)) /\ p \in DOMAIN heap.at
       /\ p \notin VectorRoots /\ p.member = "entry"
  <2>1. Returns(op) \in Vectors
    BY DEF Returns, Vectors
  <2>2. /\ MyEntries(Returns(op)) = {Entry(Here(Returns(op)), j) : j \in DOMAIN Children[Me]}
        /\ MyEntries(Returns(op)) \subseteq DOMAIN heap.at
        /\ MyEntries(Returns(op)) \cap VectorRoots = {}
        /\ \A q \in MyEntries(Returns(op)) : q.member = "entry"
    BY <1>5, <2>1, MyVector DEF Running
  <2>3. QED
    BY <1>6, <1>13, <1>16, <2>2
<1>18. W \subseteq OwnPlaces(op)
  BY <1>5, <1>17 DEF OwnPlaces
<1>19. heap.at[p] = Null
  <2>1. s \in Steps /\ \E k \in DOMAIN todo : todo[k] = s
    BY <1>2, <1>3, <1>4, <1>5, NowFacts
  <2>2. heap.at[Awaited(heap, s)] = Null
    BY <1>4, <1>5, <2>1 DEF TokensInv, Waiting
  <2>3. Awaited(heap, s) = p
    <3>1. Returns(op) = (IF keep = "forwarded" THEN "output_vector" ELSE "error_output_vector")
      BY DEF Returns, Directions
    <3>2. Here(Returns(op)) = heap.at[Member(s.c, Returns(op))]
      BY <1>5 DEF Here, Me
    <3>3. QED
      BY <1>5, <1>9, <1>13, <3>1, <3>2 DEF Awaited
  <2>4. QED
    BY <2>2, <2>3
<1>20. Passable(heap, hand)
  <2>1. Passing
    BY <1>3, <1>4, <1>5, NowFacts
  <2>2. \A q \in {} : ~Lasting(q)
    OBVIOUS
  <2>3. PICK E : E = {}
    OBVIOUS
  <2>4. KeptBeside(heap, hand, E)
    BY <1>5, <2>1, <2>3, HandBeside
  <2>5. QED
    BY <1>7, <1>14, <2>4, SoundFacts DEF KeptBeside
<1>21. /\ Changes(heap, g, W) /\ g.at[p] = hand
       /\ \A y \in Live(heap) : y \in Live(g) /\ g.type[y] = heap.type[y]
  <2>1. PICK v : v = [q \in {p} |-> hand]
    OBVIOUS
  <2>2. IsMap(v) /\ DOMAIN v = {p} /\ v[p] = hand
    BY <2>1 DEF IsMap
  <2>3. g = Bind(heap, v)
    BY <1>14, <1>15, <2>1
  <2>4. /\ DOMAIN v \subseteq DOMAIN heap.at /\ DOMAIN v \cap VectorRoots = {}
        /\ \A q \in DOMAIN v : heap.at[q] = Null /\ Passable(heap, v[q])
    BY <1>17, <1>19, <1>20, <2>2
  <2>5. /\ Sound(g)
        /\ g.at = [q \in DOMAIN heap.at |-> IF q \in DOMAIN v THEN v[q] ELSE heap.at[q]]
        /\ g.type = heap.type /\ Live(g) = Live(heap)
    BY <1>7, <2>2, <2>3, <2>4, BindSound
  <2>6. QED
    BY <1>16, <1>17, <2>2, <2>5 DEF Changes
<1>22. InLine(n, op, steps) /\ LeadsTo(n, op, steps, me)
  BY <1>11, <1>12 DEF InLine, LeadsTo
<1>23. Takes(op, s) /\ Door(op, s) = Exit(op, Children[me][i])
  BY <1>4, <1>5, <1>6, <1>9 DEF Takes, Door
<1>24. \A j \in DOMAIN Children[me] : i < j =>
          \A z \in Doors(Children[me][j]) : Awaits(n, op, steps, Wire(n, z))
  <2>1. ASSUME NEW j \in DOMAIN Children[me], i < j, NEW z \in Doors(Children[me][j])
        PROVE  Awaits(n, op, steps, Wire(n, z))
    <3>1. j \in 1 .. Len(ch)
      BY <1>8
    <3>2. i < Len(ch) /\ i + 1 <= j
      BY <1>9, <2>1, <3>1
    <3>3. j \in Branches(one)
      BY <1>4, <1>11, <2>1, <3>2 DEF Branches
    <3>4. z \in Ahead(op, one)
      BY <1>11, <2>1, <3>3 DEF Ahead
    <3>5. Reaches(n, op, one, Wire(n, z))
      BY <3>4 DEF Reaches
    <3>6. QED
      BY <1>12, <3>5 DEF Awaits
  <2>2. QED
    BY <2>1
<1>25. Exit(op, Children[me][i]) \in Ahead(op, s)
  BY <1>4, <1>5, <1>6, <1>9 DEF Ahead
<1>26. Covers(n, op, s, steps)
  <2>1. ASSUME NEW w, Reaches(n, op, s, w)
        PROVE  Later(n, op, s, steps, w) \/ w = Wire(n, Door(op, s))
    <3>1. Branches(s) = {j \in DOMAIN Children[me] : i < j}
      BY <1>4, <1>5, <1>6, <1>9 DEF Branches
    <3>2. PICK z \in Ahead(op, s) : Wire(n, z) = w
      BY <2>1 DEF Reaches
    <3>3. \/ z = Exit(op, me) \/ z = Exit(op, Children[me][i])
          \/ \E j \in DOMAIN Children[me] : i < j /\ z \in Doors(Children[me][j])
      BY <1>4, <1>5, <1>6, <1>9, <3>1, <3>2 DEF Ahead
    <3>4. QED
      BY <1>5, <1>6, <1>23, <1>24, <3>2, <3>3 DEF Later
  <2>2. QED
    BY <1>23, <2>1 DEF Covers
<1>27. PICK t : t = hand
  OBVIOUS
<1>28. ASSUME NEW b \in Ports(n)
       PROVE  /\ Wire(n, TakeDoor(op, b)) = Wire(n, Door(op, s)) => Took(op, g, b, t)
              /\ TakeSpot(op, b) \in W => Reaches(n, op, s, Wire(n, TakeDoor(op, b)))
              /\ GiveSpot(op, b) \notin W
  <2>1. GiveSpot(op, b) \notin W
    BY <1>10, <1>17 DEF JoinGives
  <2>2. ASSUME TakeSpot(op, b) \in W
        PROVE  Reaches(n, op, s, Wire(n, TakeDoor(op, b)))
    <3>1. b = Port(me, i)
      BY <1>10, <1>13, <1>16, <2>2 DEF JoinTakes
    <3>2. TakeDoor(op, b) = Exit(op, Children[me][i])
      BY <1>10, <3>1 DEF JoinPorts
    <3>3. QED
      BY <1>25, <3>2 DEF Reaches
  <2>3. ASSUME Wire(n, TakeDoor(op, b)) = Wire(n, Door(op, s))
        PROVE  Took(op, g, b, t)
    <3>1. b = Port(me, i)
      BY <1>5, <1>10, <1>23, <2>3, Takers DEF JoinPorts
    <3>2. TakeSpot(op, b) = p
      BY <1>10, <1>13, <3>1 DEF JoinPorts
    <3>3. Grows(g, W)
      BY <1>5, <1>15, <1>18, <1>21, OwnGrows DEF Keeping
    <3>4. \A x : g.at[TakeSpot(op, b)] = x => Took(op, g, b, x)
      BY <1>5, <1>7, <3>3, Unmoved
    <3>5. QED
      BY <1>21, <1>27, <3>2, <3>4
  <2>4. QED
    BY <2>1, <2>2, <2>3
<1>29. PICK u : u = hand'
  OBVIOUS
<1>30. Brings(n, op, steps[1], g, u)
  BY <1>4, <1>11, <1>12 DEF Brings, Takes
<1>31. HandlesStep(n, op, s, steps, W, t, g, u)
  <2>1. LeadsTo(n, op, steps, s.c) /\ steps # <<>>
    BY <1>5, <1>6, <1>12, <1>22
  <2>2. QED
    BY <1>22, <1>26, <1>28, <1>30, <2>1 DEF HandlesStep
<1>32. QED
  BY <1>1, <1>2, <1>3, <1>4, <1>14, <1>15, <1>18, <1>21, <1>27, <1>29, <1>31, StepWire

\* The codes of the tokens are those they had.
LEMMA AssignTypes ==
    ASSUME NEW h, IsHeap(h), NEW v, NEW g, g = AssignAll(h, v)
    PROVE  g.type = h.type
<1>1. PICK a, y, r, d : h = [at |-> a, type |-> y, refs |-> r, dying |-> d]
  BY DEF IsHeap
<1>2. PICK b, s, e, j : j = Release(h, DOMAIN v) /\ j = [h EXCEPT !.at = b, !.refs = s, !.dying = e]
  BY DEF Release
<1>3. j = [at |-> b, type |-> y, refs |-> s, dying |-> e]
  BY <1>1, <1>2
<1>4. PICK b2, s2 : g = [j EXCEPT !.at = b2, !.refs = s2]
  BY <1>2 DEF AssignAll, Bind
<1>5. g = [at |-> b2, type |-> y, refs |-> s2, dying |-> e]
  BY <1>3, <1>4
<1>6. QED
  BY <1>1, <1>5

LEMMA ForwardJoinWire == ASSUME ReadyInv, WireInv, ForwardJoin PROVE WireInv'
<1>1. PICK op \in Directions : op = "forward"
  BY DEF Directions
<1>2. PICK K : K = {"join"}
  OBVIOUS
<1>3. PICK loop : loop = (IF op = "forward" THEN "forward_child" ELSE "backprop_child")
  OBVIOUS
<1>4. /\ Now(op, K) /\ UNCHANGED <<script, outcome>> /\ hand' = hand
      /\ Continue(Do(loop, Me, 1))
  BY <1>1, <1>2, <1>3 DEF ForwardJoin
<1>5. /\ TokensInv /\ Sound(heap) /\ Me \in Components /\ Kind[Me] = "join" /\ call = "forward" /\ Passing
  <2>1. TokensInv /\ Phase(op) = "forward" /\ op \notin Loops \cup Ends
    BY <1>1 DEF ReadyInv, Phase, Loops, Ends
  <2>2. QED
    BY <1>2, <1>4, <2>1, NowFacts
<1>6. PICK e \in MembersOf(Me) : e = "input"
  BY <1>5, Places DEF Members
<1>7. PICK g : g = Assign(heap, Mine(e), hand)
  OBVIOUS
<1>8. PICK V : V = {Mine(e)}
  OBVIOUS
<1>9. PICK P : P = MyEntries("input_vector")
  OBVIOUS
<1>10. Changes(heap, g, V) /\ g.at[Mine(e)] = hand /\ g.type = heap.type /\ Live(g) = Live(heap)
       /\ Mine(e) \in Roots
  BY <1>5, <1>6, <1>7, <1>8, KeepsHand
<1>11. Changes(g, heap', P)
  BY <1>5, <1>6, <1>7, <1>9, ForwardJoinFills
<1>12. PICK W : W = {Mine(Argument(op))} \cup MyEntries(Shares(op))
  OBVIOUS
<1>13. W = V \cup P /\ Mine(Argument(op)) = Mine(e)
  BY <1>1, <1>6, <1>8, <1>9, <1>12 DEF Argument, Shares
<1>14. Changes(heap, heap', W)
  <2>1. PICK k : k = heap'
    OBVIOUS
  <2>2. Changes(heap, k, V \cup P)
    BY <1>10, <1>11, <2>1, ChangesTwice
  <2>3. QED
    BY <1>13, <2>1, <2>2
<1>15. P \cap Roots = {} /\ P \subseteq DOMAIN heap.at
  <2>1. "input_vector" \in Vectors
    BY DEF Vectors
  <2>2. QED
    BY <1>5, <1>9, <2>1, MyVector
<1>16. heap'.at[Mine(e)] = hand
  <2>1. Mine(e) \in DOMAIN g.at /\ Mine(e) \notin P
    BY <1>5, <1>10, <1>15, SoundFacts DEF Changes
  <2>2. QED
    BY <1>10, <1>11, <2>1 DEF Changes
<1>17. \A x \in Live(heap) : x \in Live(heap') /\ heap'.type[x] = heap.type[x]
  <2>1. CASE heap.type[hand] = "vector"
    <3>1. PICK v : v = [p \in P |-> heap.at[Entry(hand, p.i)]]
      OBVIOUS
    <3>2. heap' = AssignAll(g, v)
      BY <1>6, <1>7, <1>9, <2>1, <3>1 DEF ForwardJoin
    <3>3. IsHeap(g)
      BY <1>10, SoundFacts DEF Changes
    <3>4. PICK k : k = AssignAll(g, v)
      OBVIOUS
    <3>5. k.type = g.type
      BY <3>3, <3>4, AssignTypes
    <3>6. heap'.type = heap.type
      BY <1>10, <3>2, <3>4, <3>5
    <3>7. QED
      BY <3>6 DEF Live
  <2>2. CASE heap.type[hand] # "vector"
    <3>1. PICK k : k = heap'
      OBVIOUS
    <3>2. k = AssignNew(g, P, "mem", 0, Null) /\ Room(P)
      BY <1>6, <1>7, <1>9, <2>2, <3>1 DEF ForwardJoin
    <3>3. PICK f \in Vectors : f = "input_vector"
      BY DEF Vectors
    <3>4. PICK c \in {"input", "error_input"} : c = "input"
      OBVIOUS
    <3>5. /\ Available(g, P) /\ Sound(g) /\ P \subseteq DOMAIN g.at /\ P \cap VectorRoots = {}
      BY <1>5, <1>6, <1>7, <1>9, <3>2, <3>3, <3>4, JoinMakes
    <3>6. KeptBeside(g, Null, P) /\ P \in SUBSET DOMAIN g.at
      BY <3>5 DEF KeptBeside
    <3>7. Extends(g, k, P)
      BY <3>2, <3>5, <3>6, AssignNewMakes
    <3>8. QED
      BY <1>10, <3>1, <3>7 DEF Extends
  <2>3. QED
    BY <2>1, <2>2
<1>18. heap'.at[Mine(Argument(op))] = hand
  BY <1>13, <1>16
<1>19. QED
  BY <1>2, <1>3, <1>4, <1>12, <1>14, <1>17, <1>18, JoinStartsWire

LEMMA BackpropJoinWire == ASSUME ReadyInv, WireInv, BackpropJoin PROVE WireInv'
<1>1. PICK op \in Directions : op = "backprop"
  BY DEF Directions
<1>2. PICK K : K = {"join"}
  OBVIOUS
<1>3. PICK loop : loop = (IF op = "forward" THEN "forward_child" ELSE "backprop_child")
  OBVIOUS
<1>4. /\ Now(op, K) /\ UNCHANGED <<script, outcome>> /\ hand' = hand
      /\ Continue(Do(loop, Me, 1))
  BY <1>1, <1>2, <1>3 DEF BackpropJoin
<1>5. /\ TokensInv /\ Sound(heap) /\ Me \in Components /\ Kind[Me] = "join" /\ call = "backprop" /\ Passing
  <2>1. TokensInv /\ Phase(op) = "backprop" /\ op \notin Loops \cup Ends
    BY <1>1 DEF ReadyInv, Phase, Loops, Ends
  <2>2. QED
    BY <1>2, <1>4, <2>1, NowFacts
<1>6. PICK e \in MembersOf(Me) : e = "error_input"
  BY <1>5, Places DEF Members
<1>7. PICK g : g = Assign(heap, Mine(e), hand)
  OBVIOUS
<1>8. PICK V : V = {Mine(e)}
  OBVIOUS
<1>9. PICK f \in Vectors : f = "error_input_vector"
  BY DEF Vectors
<1>10. PICK P : P = MyEntries(f)
  OBVIOUS
<1>11. Changes(heap, g, V) /\ g.at[Mine(e)] = hand /\ g.type = heap.type /\ Live(g) = Live(heap)
       /\ Mine(e) \in Roots
  BY <1>5, <1>6, <1>7, <1>8, KeepsHand
<1>12. PICK k : k = heap'
  OBVIOUS
<1>13. k = AssignNew(g, P, "mem", 0, Null) /\ Room(P)
  BY <1>6, <1>7, <1>9, <1>10, <1>12 DEF BackpropJoin
<1>14. PICK c \in {"input", "error_input"} : c = e
  BY <1>6
<1>15. /\ Changes(g, k, P) /\ Available(g, P) /\ Sound(g)
       /\ P \subseteq DOMAIN g.at /\ P \cap VectorRoots = {}
  BY <1>5, <1>7, <1>10, <1>13, <1>14, JoinMakes
<1>16. KeptBeside(g, Null, P) /\ P \in SUBSET DOMAIN g.at
  BY <1>15 DEF KeptBeside
<1>17. Extends(g, k, P)
  BY <1>13, <1>15, <1>16, AssignNewMakes
<1>18. \A x \in Live(heap) : x \in Live(heap') /\ heap'.type[x] = heap.type[x]
  BY <1>11, <1>12, <1>17 DEF Extends
<1>19. PICK W : W = {Mine(Argument(op))} \cup MyEntries(Shares(op))
  OBVIOUS
<1>20. W = V \cup P /\ Mine(Argument(op)) = Mine(e)
  BY <1>1, <1>6, <1>8, <1>9, <1>10, <1>19 DEF Argument, Shares
<1>21. Changes(heap, heap', W)
  <2>1. Changes(heap, k, V \cup P)
    BY <1>11, <1>15, ChangesTwice
  <2>2. QED
    BY <1>12, <1>20, <2>1
<1>22. P \cap Roots = {}
  BY <1>5, <1>10, MyVector
<1>23. k.at[Mine(e)] = hand
  <2>1. Mine(e) \in DOMAIN g.at /\ Mine(e) \notin P
    BY <1>5, <1>11, <1>22, SoundFacts DEF Changes
  <2>2. QED
    BY <1>11, <1>15, <2>1 DEF Changes
<1>24. heap'.at[Mine(Argument(op))] = hand
  BY <1>12, <1>20, <1>23
<1>25. QED
  BY <1>2, <1>3, <1>4, <1>18, <1>19, <1>21, <1>24, JoinStartsWire

LEMMA ForwardChildWire == ASSUME ReadyInv, WireInv, ForwardChild PROVE WireInv'
<1>1. PICK op \in Directions : op = "forward"
  BY DEF Directions
<1>2. PICK loop : loop = (IF op = "forward" THEN "forward_child" ELSE "backprop_child")
  OBVIOUS
<1>3. PICK keep : keep = (IF op = "forward" THEN "forwarded" ELSE "backpropped")
  OBVIOUS
<1>4. CallChild(loop, op, Shares(op), Returns(op), keep)
  BY <1>1, <1>2, <1>3 DEF ForwardChild, Shares, Returns
<1>5. QED
  BY <1>2, <1>3, <1>4, CallChildWire

LEMMA BackpropChildWire == ASSUME ReadyInv, WireInv, BackpropChild PROVE WireInv'
<1>1. PICK op \in Directions : op = "backprop"
  BY DEF Directions
<1>2. PICK loop : loop = (IF op = "forward" THEN "forward_child" ELSE "backprop_child")
  OBVIOUS
<1>3. PICK keep : keep = (IF op = "forward" THEN "forwarded" ELSE "backpropped")
  OBVIOUS
<1>4. CallChild(loop, op, Shares(op), Returns(op), keep)
  BY <1>1, <1>2, <1>3 DEF BackpropChild, Shares, Returns
<1>5. QED
  BY <1>2, <1>3, <1>4, CallChildWire

LEMMA KeepOutputWire == ASSUME ReadyInv, WireInv, KeepOutput PROVE WireInv'
<1>1. PICK op \in Directions : op = "forward"
  BY DEF Directions
<1>2. PICK loop : loop = (IF op = "forward" THEN "forward_child" ELSE "backprop_child")
  OBVIOUS
<1>3. PICK keep : keep = (IF op = "forward" THEN "forwarded" ELSE "backpropped")
  OBVIOUS
<1>4. PICK end : end = (IF op = "forward" THEN "end_forward" ELSE "end_backprop")
  OBVIOUS
<1>5. KeepResult(keep, Returns(op), loop, end)
  BY <1>1, <1>2, <1>3, <1>4 DEF KeepOutput, Returns
<1>6. QED
  BY <1>2, <1>3, <1>4, <1>5, KeepResultWire

LEMMA KeepGradientWire == ASSUME ReadyInv, WireInv, KeepGradient PROVE WireInv'
<1>1. PICK op \in Directions : op = "backprop"
  BY DEF Directions
<1>2. PICK loop : loop = (IF op = "forward" THEN "forward_child" ELSE "backprop_child")
  OBVIOUS
<1>3. PICK keep : keep = (IF op = "forward" THEN "forwarded" ELSE "backpropped")
  OBVIOUS
<1>4. PICK end : end = (IF op = "forward" THEN "end_forward" ELSE "end_backprop")
  OBVIOUS
<1>5. KeepResult(keep, Returns(op), loop, end)
  BY <1>1, <1>2, <1>3, <1>4 DEF KeepGradient, Returns
<1>6. QED
  BY <1>2, <1>3, <1>4, <1>5, KeepResultWire

\* What a join returns is what it keeps as its result.
LEMMA JoinEndsWire ==
    ASSUME ReadyInv, WireInv, NEW op \in Directions, NEW K, K = {"join"},
           NEW end \in Ends, Phase(end) = op, Now(end, K),
           UNCHANGED <<script, outcome>>, Continue(<<>>),
           NEW W, W = {Mine(Result(op, Me))}, Changes(heap, heap', W),
           \A x \in Live(heap) : x \in Live(heap') /\ heap'.type[x] = heap.type[x],
           hand' = heap'.at[Mine(Result(op, Me))]
    PROVE  WireInv'
<1>1. PICK n : n = last[2]
  OBVIOUS
<1>2. PICK s : s = Head(todo)
  OBVIOUS
<1>3. /\ op \in {"forward", "backprop"} /\ end \notin Loops /\ end \notin Keeps
      /\ end \notin Directions /\ end # op
  BY DEF Directions, Ends, Loops, Keeps
<1>4. /\ TokensInv /\ Running /\ Me \in Components /\ Kind[Me] = "join" /\ n \in Components
      /\ Me \in Below[n] /\ s.c = Me /\ s.op = end
  BY <1>1, <1>2, <1>3, CallFacts
<1>5. PICK me \in Components : me = Me
  BY <1>4
<1>6. JoinPorts(n, op, me) /\ JoinTakes(n, op, me) /\ JoinGives(n, op, me)
  BY <1>4, <1>5, JoinFacts
<1>7. PICK steps \in Seq(Steps) : steps = <<>> /\ DOMAIN steps = {}
  <2>1. <<>> \in Seq(Steps) /\ DOMAIN <<>> = {}
    OBVIOUS
  <2>2. QED
    BY <2>1
<1>8. InLine(n, op, steps) /\ LeadsTo(n, op, steps, s.c)
  BY <1>7 DEF InLine, LeadsTo
<1>9. ~Takes(op, s)
  BY <1>3, <1>4 DEF Takes
<1>10. Later(n, op, s, steps, Wire(n, Exit(op, me)))
  BY <1>4, <1>5 DEF Later
<1>11. Covers(n, op, s, steps)
  <2>1. Ahead(op, s) = {Exit(op, me)}
    <3>1. Branches(s) = {}
      BY <1>3, <1>4 DEF Branches
    <3>2. QED
      BY <1>3, <1>4, <1>5, <3>1 DEF Ahead
  <2>2. QED
    BY <1>10, <2>1 DEF Covers, Reaches
<1>12. PICK g : g = heap'
  OBVIOUS
<1>13. PICK t : t = hand
  OBVIOUS
<1>14. PICK u : u = hand'
  OBVIOUS
<1>15. ASSUME NEW b \in Ports(n)
       PROVE  /\ TakeSpot(op, b) \notin W
              /\ GiveSpot(op, b) \in W => Later(n, op, s, steps, Wire(n, GiveDoor(op, b)))
  <2>1. TakeSpot(op, b) \notin W
    BY <1>5, <1>6 DEF JoinTakes
  <2>2. GiveSpot(op, b) \in W => b = Port(me, 0)
    BY <1>5, <1>6 DEF JoinGives
  <2>3. QED
    BY <1>6, <1>10, <2>1, <2>2 DEF JoinPorts
<1>16. BringsTo(n, op, Exit(op, s.c), g, u)
  <2>1. ASSUME NEW b \in Ports(n), Wire(n, GiveDoor(op, b)) = Wire(n, Exit(op, me))
        PROVE  u = Gave(op, g, b)
    <3>1. b = Port(me, 0)
      BY <1>4, <1>6, <2>1, Givers DEF JoinPorts
    <3>2. b.of = me /\ b.i = 0
      BY <1>4, <3>1, PortFacts
    <3>3. Gave(op, g, b) = g.at[Member(me, Result(op, me))]
      BY <3>2 DEF Gave, Spot
    <3>4. u = g.at[Member(me, Result(op, me))]
      BY <1>5, <1>12, <1>14 DEF Mine
    <3>5. QED
      BY <3>3, <3>4
  <2>2. QED
    BY <1>4, <1>5, <2>1 DEF BringsTo
<1>17. HandlesStep(n, op, s, steps, W, t, g, u)
  BY <1>7, <1>8, <1>9, <1>11, <1>15, <1>16 DEF HandlesStep
<1>18. Continue(steps) /\ W \subseteq OwnPlaces(op)
  BY <1>7 DEF OwnPlaces
<1>19. QED
  BY <1>1, <1>2, <1>12, <1>13, <1>14, <1>17, <1>18, StepWire

\* The matrix that a join puts together.
LEMMA ConcatWire ==
    ASSUME ReadyInv, WireInv, NEW op \in Directions, NEW K, K = {"join"},
           NEW end \in Ends, Phase(end) = op, Now(end, K), Continue(<<>>),
           NEW f, f = (IF op = "forward" THEN "output" ELSE "error_output"), Concat(f)
    PROVE  WireInv'
<1>1. PICK n : n = last[2]
  OBVIOUS
<1>2. PICK s : s = Head(todo)
  OBVIOUS
<1>3. Phase(end) \in {"forward", "backprop"}
  BY DEF Directions
<1>4. TokensInv /\ Running /\ Me \in Components /\ Kind[Me] = "join" /\ Sound(heap)
  BY <1>1, <1>2, <1>3, CallFacts DEF TokensInv
<1>5. f \in MembersOf(Me) /\ f \notin Vectors /\ f = Result(op, Me)
  BY <1>4, Places DEF Members, Vectors, Result
<1>6. PICK P : P = {Mine(f)}
  OBVIOUS
<1>7. PICK j : j = heap'
  OBVIOUS
<1>8. /\ j = AssignNew(heap, P, "mem", 0, Null) /\ hand' = j.at[Mine(f)]
      /\ Free(heap, Mine(f)) # {} /\ UNCHANGED <<script, outcome>>
  BY <1>6, <1>7 DEF Concat, Passes, MakeBlock, Room
<1>9. PICK V, h : V = {} /\ h = heap /\ Changes(heap, h, V)
  BY <1>4 DEF Changes
<1>10. PICK t : t = Null /\ KeptBeside(h, t, P)
  BY DEF KeptBeside
<1>11. Changes(heap, j, V \cup P) /\ Extends(heap, j, P)
  <2>1. PICK k \in {"mem", "sparse", "vector"} : k = "mem"
    OBVIOUS
  <2>2. PICK m \in Nat : m = 0
    OBVIOUS
  <2>3. j = AssignNew(h, P, k, m, t) /\ Free(h, Mine(f)) # {}
    BY <1>8, <1>9, <1>10, <2>1, <2>2
  <2>4. Changes(heap, j, V \cup P) /\ Extends(h, j, P)
    BY <1>4, <1>5, <1>6, <1>9, <1>10, <2>3, MakesMore
  <2>5. QED
    BY <1>9, <2>4
<1>12. PICK W : W = {Mine(Result(op, Me))}
  OBVIOUS
<1>13. W = V \cup P
  BY <1>5, <1>6, <1>9, <1>12
<1>14. /\ Changes(heap, heap', W) /\ hand' = heap'.at[Mine(Result(op, Me))]
       /\ \A x \in Live(heap) : x \in Live(heap') /\ heap'.type[x] = heap.type[x]
  BY <1>5, <1>7, <1>8, <1>11, <1>13 DEF Extends
<1>15. QED
  BY <1>8, <1>12, <1>14, JoinEndsWire

LEMMA EndForwardJoinWire == ASSUME ReadyInv, WireInv, EndForwardJoin PROVE WireInv'
<1>1. PICK op \in Directions : op = "forward"
  BY DEF Directions
<1>2. PICK K : K = {"join"}
  OBVIOUS
<1>3. PICK end \in Ends : end = "end_forward"
  BY DEF Ends
<1>4. PICK f : f = (IF op = "forward" THEN "output" ELSE "error_output")
  OBVIOUS
<1>5. /\ Now(end, K) /\ Concat(f) /\ Continue(<<>>) /\ Phase(end) = op
  BY <1>1, <1>2, <1>3, <1>4 DEF EndForwardJoin, Phase
<1>6. QED
  BY <1>2, <1>4, <1>5, ConcatWire

LEMMA EndBackpropJoinWire == ASSUME ReadyInv, WireInv, EndBackpropJoin PROVE WireInv'
<1>1. PICK op \in Directions : op = "backprop"
  BY DEF Directions
<1>2. PICK K : K = {"join"}
  OBVIOUS
<1>3. PICK end \in Ends : end = "end_backprop"
  BY DEF Ends
<1>4. PICK f : f = (IF op = "forward" THEN "output" ELSE "error_output")
  OBVIOUS
<1>5. /\ Now(end, K) /\ Concat(f) /\ Continue(<<>>) /\ Phase(end) = op
  BY <1>1, <1>2, <1>3, <1>4 DEF EndBackpropJoin, Phase
<1>6. QED
  BY <1>2, <1>4, <1>5, ConcatWire

LEMMA EndBackpropSegmentedWire == ASSUME ReadyInv, WireInv, EndBackpropSegmented PROVE WireInv'
<1>1. PICK op \in Directions : op = "backprop"
  BY DEF Directions
<1>2. PICK K : K = {"join"}
  OBVIOUS
<1>3. PICK end \in Ends : end = "end_backprop"
  BY DEF Ends
<1>4. Now(end, K) /\ Phase(end) = op /\ Phase(end) \in {"forward", "backprop"}
  BY <1>1, <1>2, <1>3 DEF EndBackpropSegmented, Phase
<1>5. PICK n : n = last[2]
  OBVIOUS
<1>6. PICK s : s = Head(todo)
  OBVIOUS
<1>7. /\ TokensInv /\ Running /\ Me \in Components /\ Kind[Me] = "join" /\ Sound(heap)
  BY <1>2, <1>4, <1>5, <1>6, CallFacts DEF TokensInv
<1>8. PICK e \in MembersOf(Me) : e = "error_output" /\ e = Result(op, Me)
  BY <1>1, <1>7, Places DEF Members, Result
<1>9. PICK v : v = Here("error_output_vector")
  OBVIOUS
<1>10. PICK P : P = {Mine(e)}
  OBVIOUS
<1>11. PICK j : j = heap'
  OBVIOUS
<1>12. /\ j = Assign(heap, Mine(e), v) /\ hand' = v /\ Continue(<<>>) /\ UNCHANGED <<script, outcome>>
  BY <1>8, <1>9, <1>11 DEF EndBackpropSegmented, Passes
<1>13. Mine(e) \in DOMAIN heap.at /\ Mine(e).member = e /\ Mine(e) \notin VectorRoots
  <2>1. e \notin Vectors
    BY <1>8 DEF Vectors
  <2>2. QED
    BY <1>7, <2>1, MineFacts
<1>14. PICK q \in VectorRoots : q.member = "error_output_vector" /\ heap.at[q] = v
  <2>1. PICK f \in Vectors : f = "error_output_vector"
    BY DEF Vectors
  <2>2. Mine(f) \in VectorRoots /\ Mine(f).member = f /\ Here(f) = heap.at[Mine(f)]
    BY <1>7, <2>1, MyVector DEF Running
  <2>3. QED
    BY <1>9, <2>1, <2>2
<1>15. /\ Changes(heap, j, P) /\ j.at[Mine(e)] = v /\ j.type = heap.type /\ Live(j) = Live(heap)
  <2>1. q \in DOMAIN heap.at \ P
    BY <1>7, <1>10, <1>13, <1>14, SoundFacts
  <2>2. KeptBeside(heap, v, P)
    BY <1>14, <2>1 DEF KeptBeside
  <2>3. PICK p \in DOMAIN heap.at : p = Mine(e)
    BY <1>13
  <2>4. p \notin VectorRoots /\ P = {p} /\ j = Assign(heap, p, v)
    BY <1>10, <1>12, <1>13, <2>3
  <2>5. /\ Changes(heap, j, P) /\ j.at[p] = v /\ j.type = heap.type /\ Live(j) = Live(heap)
    BY <1>7, <2>2, <2>4, AssignOne
  <2>6. QED
    BY <2>3, <2>5
<1>16. PICK W : W = {Mine(Result(op, Me))}
  OBVIOUS
<1>17. /\ Changes(heap, heap', W) /\ hand' = heap'.at[Mine(Result(op, Me))]
       /\ \A x \in Live(heap) : x \in Live(heap') /\ heap'.type[x] = heap.type[x]
  BY <1>8, <1>10, <1>11, <1>12, <1>15, <1>16
<1>18. QED
  BY <1>2, <1>4, <1>12, <1>16, <1>17, JoinEndsWire

-----------------------------------------------------------------------------
(***************************************************************************)
(* What is not a step of a forward or a backprop                           *)
(***************************************************************************)
\* What the ports have given and taken is as it was.
Undisturbed(n, h, g) ==
    \A op \in Directions : \A a \in Ports(n) :
       /\ Gave(op, g, a) = Gave(op, h, a)
       /\ \A x : Took(op, h, a, x) => Took(op, g, a, x)

LEMMA UndisturbedFits ==
    ASSUME NEW n, NEW h, NEW g, Undisturbed(n, h, g), NEW op \in Directions, NEW steps,
           Fits(n, op, h, steps)
    PROVE  Fits(n, op, g, steps)
<1>1. ASSUME NEW a \in Ports(n), NEW b \in Ports(n),
             Wire(n, GiveDoor(op, a)) = Wire(n, TakeDoor(op, b)),
             ~Awaits(n, op, steps, Wire(n, TakeDoor(op, b)))
      PROVE  Took(op, g, b, Gave(op, g, a))
  <2>1. Took(op, h, b, Gave(op, h, a))
    BY <1>1 DEF Fits
  <2>2. Gave(op, g, a) = Gave(op, h, a)
    BY DEF Undisturbed
  <2>3. Took(op, g, b, Gave(op, h, a))
    BY <2>1 DEF Undisturbed
  <2>4. QED
    BY <2>2, <2>3
<1>2. QED
  BY <1>1 DEF Fits

\* The handles and the members of a loss function are places of no port.
LEMMA AsideUndisturbed ==
    ASSUME Sound(heap), VectorsMade(heap), NEW n \in Components,
           NEW g, NEW W, W \subseteq Roots, W \cap VectorRoots = {},
           \A p \in W : p \in Handles \/ (p.of \in Components /\ Kind[p.of] = "loss"),
           Changes(heap, g, W),
           \A x \in Live(heap) : x \in Live(g) /\ g.type[x] = heap.type[x]
    PROVE  Undisturbed(n, heap, g)
<1>1. Grows(g, W)
  BY DEF Grows
<1>2. ASSUME NEW a \in Ports(n), NEW f \in Members, NEW v, NEW p \in W, SpotIs(a, f, v, p)
      PROVE  FALSE
  <2>1. p \in Roots /\ (p \in Handles \/ (p.of \in Components /\ Kind[p.of] = "loss"))
    OBVIOUS
  <2>2. a.i = 0 /\ p = Member(a.of, f)
    BY <1>2, <2>1 DEF SpotIs
  <2>3. Kind[a.of] \in Keeping
    BY <2>2, PortFacts
  <2>4. p.of = a.of /\ p.member = f
    BY <2>2, Places
  <2>5. p.member # "userdata"
    BY <2>4 DEF Members
  <2>6. p \notin Handles
    BY <2>5, Places
  <2>7. QED
    BY <2>1, <2>3, <2>4, <2>6 DEF Keeping, Simple
<1>3. ASSUME NEW op \in Directions, NEW a \in Ports(n)
      PROVE  GiveSpot(op, a) \notin W /\ TakeSpot(op, a) \notin W
  <2>1. Argument(op) \in Members /\ Result(op, a.of) \in Members
    BY DEF Argument, Result, Members
  <2>2. /\ SpotIs(a, Result(op, a.of), Shares(op), GiveSpot(op, a))
        /\ SpotIs(a, Argument(op), Returns(op), TakeSpot(op, a))
    BY <1>1, Unmoved
  <2>3. QED
    BY <1>2, <2>1, <2>2
<1>4. ASSUME NEW op \in Directions, NEW a \in Ports(n)
      PROVE  Gave(op, g, a) = Gave(op, heap, a) /\ \A x : Took(op, heap, a, x) => Took(op, g, a, x)
  BY <1>1, <1>3, Unmoved
<1>5. QED
  BY <1>4 DEF Undisturbed

\* Nothing to do is left in a forward or a backprop.
LEMMA StillWire ==
    ASSUME WireInv, ~Running \/ todo = <<>>, call' \notin Directions,
           last' = last, outcome' = outcome,
           outcome = "running" /\ Ran => Undisturbed(last[2], heap, heap')
    PROVE  WireInv'
<1>1. ~Running'
  BY DEF Running, Directions
<1>2. \A op \in Directions : ToDo(op) = <<>>
  BY DEF ToDo, Running, Directions
<1>3. \A op \in Directions : ToDo(op)' = <<>>
  BY DEF ToDo
<1>4. last'[1] \in {"none", "forward", "backprop"}
  BY DEF WireInv
<1>5. CASE outcome = "running" /\ Ran
  <2>1. PICK n : n = last[2]
    OBVIOUS
  <2>2. PICK g : g = heap'
    OBVIOUS
  <2>3. PICK none : none = <<>>
    OBVIOUS
  <2>4. Undisturbed(n, heap, g)
    BY <1>5, <2>1, <2>2
  <2>5. n \in Parts
    BY <1>5, <2>1 DEF WireInv
  <2>6. PICK f \in Directions : f = "forward"
    BY DEF Directions
  <2>7. PICK b \in Directions : b = "backprop"
    BY DEF Directions
  <2>8. ToDo(f) = none /\ ToDo(b) = none /\ ToDo(f)' = none /\ ToDo(b)' = none
    BY <1>2, <1>3, <2>3
  <2>9. Fits(n, f, heap, none) /\ (last[1] = "backprop" => Fits(n, b, heap, none))
    BY <1>5, <2>1, <2>6, <2>7, <2>8 DEF WireInv
  <2>10. Fits(n, f, g, none)
    BY <2>4, <2>9, UndisturbedFits
  <2>11. last[1] = "backprop" => Fits(n, b, g, none)
    BY <2>4, <2>9, UndisturbedFits
  <2>12. QED
    BY <1>1, <1>4, <2>1, <2>2, <2>5, <2>6, <2>7, <2>8, <2>10, <2>11 DEF WireInv
<1>6. CASE ~(outcome = "running" /\ Ran)
  BY <1>4, <1>6 DEF WireInv, Ran
<1>7. QED
  BY <1>5, <1>6

LEMMA SameHeap == ASSUME NEW n, NEW g, g = heap PROVE Undisturbed(n, heap, g)
  BY DEF Undisturbed

LEMMA StoppedWire ==
    ASSUME WireInv, NEW how \in {"error", "wild"}, Stops(how)
    PROVE  WireInv'
  BY DEF WireInv, Stops, script

LEMMA FailWire == ASSUME WireInv, Fail PROVE WireInv'
  BY StoppedWire DEF Fail

LEMMA KeepNullWire == ASSUME WireInv, KeepNull PROVE WireInv'
  BY StoppedWire DEF KeepNull

\* After a reset or a build nothing is known.
LEMMA ForgottenWire == ASSUME WireInv, last' = <<"none", Loss>> PROVE WireInv'
  BY DEF WireInv, Ran

LEMMA InitWire == ASSUME Init PROVE WireInv
  BY DEF Init, WireInv, Ran

LEMMA DoUpdateWire == ASSUME ReadyInv, WireInv, DoUpdate PROVE WireInv'
<1>1. CASE Stops("wild")
  BY <1>1, StoppedWire
<1>2. CASE UNCHANGED <<heap, flags, hand, script, outcome>>
  <2>1. Now("update", Kinds)
    BY DEF DoUpdate
  <2>2. ~Running /\ call = "update"
    BY <2>1, QuietFacts
  <2>3. outcome' = outcome /\ last' = last /\ call' = call /\ heap' = heap
    BY <1>2 DEF script
  <2>4. PICK g : g = heap'
    OBVIOUS
  <2>5. Undisturbed(last[2], heap, g)
    BY <2>3, <2>4, SameHeap
  <2>6. QED
    BY <2>2, <2>3, <2>4, <2>5, StillWire DEF Directions
<1>3. QED
  BY <1>1, <1>2 DEF DoUpdate

LEMMA RanMade ==
    ASSUME ReadyInv, Ran
    PROVE  last[2] \in Components /\ VectorsMade(heap) /\ Sound(heap)
<1>1. TokensInv /\ CallInv
  BY DEF ReadyInv
<1>2. Built
  BY <1>1, RanBuilt DEF Ran
<1>3. QED
  BY <1>1, <1>2, BuiltMade DEF CallInv, TokensInv

LEMMA DoBuildWire == ASSUME ReadyInv, WireInv, DoBuild PROVE WireInv'
<1>1. Now("build", Kinds) /\ UNCHANGED <<script, outcome>>
  BY DEF DoBuild
<1>2. ~Ran /\ ~Ran'
  BY <1>1, QuietFacts DEF script, Ran
<1>3. last' = last
  BY <1>1 DEF script
<1>4. QED
  BY <1>2, <1>3 DEF WireInv

LEMMA DoDestroyWire == ASSUME ReadyInv, WireInv, DoDestroy PROVE WireInv'
<1>1. Now("destroy", Kinds) /\ UNCHANGED <<script, outcome>>
  BY DEF DoDestroy, DoRelease
<1>2. ~Ran /\ ~Ran'
  BY <1>1, QuietFacts DEF script, Ran
<1>3. last' = last
  BY <1>1 DEF script
<1>4. QED
  BY <1>2, <1>3 DEF WireInv

LEMMA DoGradientWire == ASSUME ReadyInv, WireInv, DoGradient PROVE WireInv'
<1>1. Now("gradient", Kinds) /\ Kind[Me] = "loss"
  BY DEF DoGradient, Now, Kinds
<1>2. /\ TokensInv /\ Sound(heap) /\ ~Running /\ Me \in Components /\ call = "gradient"
  BY <1>1, QuietFacts
<1>3. "error_output" \in MembersOf(Me) /\ "error_output" \notin Vectors
  BY <1>1 DEF MembersOf, Vectors
<1>4. PICK p \in Roots : /\ p = Mine("error_output") /\ p.member = "error_output"
                         /\ p \notin VectorRoots /\ p \in DOMAIN heap.at /\ Arena(p) \subseteq Tokens
  BY <1>2, <1>3, MineFacts
<1>5. PICK P : P = {p}
  OBVIOUS
<1>6. PICK g : g = heap'
  OBVIOUS
<1>7. /\ g = AssignNew(heap, P, "mem", 0, Null)
      /\ call' = call /\ last' = last /\ outcome' = outcome /\ Free(heap, p) # {}
  BY <1>4, <1>5, <1>6 DEF DoGradient, Concat, Passes, MakeBlock, Room, script, flags
<1>8. Changes(heap, g, P) /\ Extends(heap, g, P)
  <2>1. P \in SUBSET DOMAIN heap.at /\ P \cap VectorRoots = {} /\ KeptBeside(heap, Null, P)
    BY <1>4, <1>5 DEF KeptBeside
  <2>2. Available(heap, P)
    BY <1>4, <1>5, <1>7 DEF Available
  <2>3. QED
    BY <1>2, <1>7, <2>1, <2>2, AssignNewMakes
<1>9. /\ P \subseteq Roots /\ P \cap VectorRoots = {}
      /\ \A q \in P : q \in Handles \/ (q.of \in Components /\ Kind[q.of] = "loss")
  BY <1>1, <1>2, <1>4, <1>5 DEF Mine, Member, Place
<1>10. \A x \in Live(heap) : x \in Live(g) /\ g.type[x] = heap.type[x]
  BY <1>8 DEF Extends
<1>11. ASSUME Ran
       PROVE  Undisturbed(last[2], heap, g)
  <2>1. PICK n \in Components : n = last[2] /\ VectorsMade(heap)
    BY <1>11, RanMade
  <2>2. Undisturbed(n, heap, g)
    BY <1>2, <1>8, <1>9, <1>10, <2>1, AsideUndisturbed
  <2>3. QED
    BY <2>1, <2>2
<1>12. QED
  BY <1>2, <1>6, <1>7, <1>11, StillWire DEF Directions

\* A reset while a forward is known of is that of the loss.
LEMMA DoResetWire == ASSUME ReadyInv, WireInv, DoReset PROVE WireInv'
<1>1. Now("reset", Kinds)
  BY DEF DoReset, DoRelease
<1>2. /\ TokensInv /\ Sound(heap) /\ ~Running /\ Me \in Components /\ call = "reset"
      /\ todo \in Seq(Steps) /\ todo # <<>>
  BY <1>1, QuietFacts
<1>3. PICK P : P = BelowMe(Members)
  OBVIOUS
<1>4. PICK g : g = heap'
  OBVIOUS
<1>5. g = Release(heap, P) /\ call' = call /\ last' = last /\ outcome' = outcome
  BY <1>3, <1>4 DEF DoReset, DoRelease, script
<1>6. P \subseteq Roots /\ P \cap VectorRoots = {}
  <2>1. Members \cap Vectors = {}
    BY DEF Members, Vectors
  <2>2. QED
    BY <1>2, <1>3, <2>1, BelowMeFacts
<1>7. P \in SUBSET DOMAIN heap.at
  BY <1>2, <1>6, SoundFacts
<1>8. Changes(heap, g, P)
  BY <1>2, <1>5, <1>7, ReleaseChanges
<1>9. \A x \in Live(heap) : x \in Live(g) /\ g.type[x] = heap.type[x]
  <2>1. g.type = heap.type /\ Live(g) = Live(heap)
    BY <1>2, <1>5, <1>7, ReleaseSound
  <2>2. QED
    BY <2>1
<1>10. ASSUME Ran
       PROVE  Undisturbed(last[2], heap, g)
  <2>1. \A k \in DOMAIN todo : todo[k].c = Loss
    BY <1>2, <1>10 DEF ReadyInv, CallInv
  <2>2. Me = Loss
    BY <1>2, <2>1 DEF Me
  <2>3. Below[Loss] = {Loss} /\ Loss \in Components /\ Kind[Loss] = "loss"
    BY TreeAssumption, Alone
  <2>4. \A q \in P : q.of = Loss
    BY <1>3, <2>2, <2>3 DEF BelowMe, Member, Place
  <2>5. \A q \in P : q \in Handles \/ (q.of \in Components /\ Kind[q.of] = "loss")
    BY <2>3, <2>4
  <2>6. PICK n \in Components : n = last[2] /\ VectorsMade(heap)
    BY <1>10, RanMade
  <2>7. Undisturbed(n, heap, g)
    BY <1>2, <1>6, <1>8, <1>9, <2>5, <2>6, AsideUndisturbed
  <2>8. QED
    BY <2>6, <2>7
<1>11. QED
  BY <1>2, <1>4, <1>5, <1>10, StillWire DEF Directions

\* A userdata is given or dropped.
LEMMA HandleWire ==
    ASSUME ReadyInv, WireInv, todo = <<>>, call' = "none", last' = last, outcome' = outcome,
           NEW p \in Handles, NEW P, P = {p}, Changes(heap, heap', P),
           \A x \in Live(heap) : x \in Live(heap') /\ heap'.type[x] = heap.type[x]
    PROVE  WireInv'
<1>1. PICK g : g = heap'
  OBVIOUS
<1>2. Sound(heap)
  BY DEF ReadyInv, TokensInv
<1>3. /\ P \subseteq Roots /\ P \cap VectorRoots = {}
      /\ \A q \in P : q \in Handles \/ (q.of \in Components /\ Kind[q.of] = "loss")
  BY <1>2, HandleFacts
<1>4. Changes(heap, g, P) /\ \A x \in Live(heap) : x \in Live(g) /\ g.type[x] = heap.type[x]
  BY <1>1
<1>5. ASSUME Ran
      PROVE  Undisturbed(last[2], heap, g)
  <2>1. PICK n \in Components : n = last[2] /\ VectorsMade(heap)
    BY <1>5, RanMade
  <2>2. Undisturbed(n, heap, g)
    BY <1>2, <1>3, <1>4, <2>1, AsideUndisturbed
  <2>3. QED
    BY <2>1, <2>2
<1>6. QED
  BY <1>1, <1>5, StillWire DEF Directions

LEMMA LuaNewWire ==
    ASSUME ReadyInv, WireInv, NEW k \in {"mem", "sparse"}, LuaNew(k)
    PROVE  WireInv'
<1>1. Sound(heap) /\ todo = <<>> /\ call = "none"
  BY IdleFacts DEF LuaNew, Ready, Idle, ReadyInv
<1>2. PICK p \in Handles : p = NewHandle
  BY DEF LuaNew, Ready, NewHandle, Unused
<1>3. /\ p \in Roots /\ p \in DOMAIN heap.at /\ p \notin VectorRoots /\ Arena(p) \subseteq Tokens
  BY <1>1, HandleFacts
<1>4. PICK P : P = {p}
  OBVIOUS
<1>5. PICK g : g = heap'
  OBVIOUS
<1>6. /\ g = AssignNew(heap, P, k, 0, Null) /\ Free(heap, p) # {}
      /\ call' = call /\ last' = last /\ outcome' = outcome
  BY <1>2, <1>4, <1>5 DEF LuaNew, Room, script
<1>7. Changes(heap, g, P) /\ Extends(heap, g, P)
  <2>1. P \in SUBSET DOMAIN heap.at /\ P \cap VectorRoots = {} /\ KeptBeside(heap, Null, P)
    BY <1>3, <1>4 DEF KeptBeside
  <2>2. Available(heap, P)
    BY <1>3, <1>4, <1>6 DEF Available
  <2>3. QED
    BY <1>1, <1>6, <2>1, <2>2, AssignNewMakes
<1>8. QED
  BY <1>1, <1>4, <1>5, <1>6, <1>7, HandleWire DEF Extends

LEMMA CollectWire ==
    ASSUME ReadyInv, WireInv, NEW p \in Handles, Collect(p)
    PROVE  WireInv'
<1>1. Sound(heap) /\ todo = <<>> /\ call = "none"
  BY IdleFacts DEF Collect, Idle, ReadyInv
<1>2. p \in DOMAIN heap.at /\ p \notin VectorRoots
  BY <1>1, HandleFacts
<1>3. PICK P : P = {p} /\ P \in SUBSET DOMAIN heap.at
  BY <1>2
<1>4. PICK g : g = heap'
  OBVIOUS
<1>5. g = Release(heap, P) /\ call' = call /\ last' = last /\ outcome' = outcome
  BY <1>3, <1>4 DEF Collect, script
<1>6. Changes(heap, g, P)
  BY <1>1, <1>3, <1>5, ReleaseChanges
<1>7. g.type = heap.type /\ Live(g) = Live(heap)
  BY <1>1, <1>3, <1>5, ReleaseSound
<1>8. QED
  BY <1>1, <1>3, <1>4, <1>5, <1>6, <1>7, HandleWire

LEMMA LuaReturnWire == ASSUME ReadyInv, WireInv, LuaReturn PROVE WireInv'
<1>1. /\ Sound(heap) /\ TokensInv /\ todo = <<>> /\ call' = "none" /\ call # "none"
      /\ last' = last /\ outcome' = outcome
  BY DEF LuaReturn, ReadyInv, TokensInv
<1>2. PICK p \in Unused : p = NewHandle
  BY <1>1 DEF NewHandle, TokensInv, ScriptInv
<1>3. p \in Handles /\ p \in DOMAIN heap.at /\ p \notin VectorRoots /\ heap.at[p] = Null
  BY <1>1, HandleFacts DEF Unused
<1>4. PICK g : g = heap'
  OBVIOUS
<1>5. CASE heap' = heap
  <2>1. Undisturbed(last[2], heap, g)
    BY <1>4, <1>5, SameHeap
  <2>2. QED
    BY <1>1, <1>4, <2>1, StillWire DEF Directions
<1>6. CASE hand # Null /\ heap' = Assign(heap, NewHandle, hand)
  <2>1. PICK P : P = {p}
    OBVIOUS
  <2>2. KeptBeside(heap, hand, {})
    <3>1. Passing /\ \A q \in {} : ~Lasting(q)
      BY <1>1 DEF Passing
    <3>2. QED
      BY <1>1, <3>1, HandBeside
  <2>3. KeptBeside(heap, hand, P)
    BY <1>3, <1>6, <2>1, <2>2 DEF KeptBeside
  <2>4. PICK t : t = hand /\ KeptBeside(heap, t, P) /\ g = Assign(heap, p, t)
    BY <1>2, <1>4, <1>6, <2>3
  <2>5. PICK q \in DOMAIN heap.at : q = p /\ q \notin VectorRoots /\ P = {q} /\ g = Assign(heap, q, t)
    BY <1>3, <2>1, <2>4
  <2>6. Changes(heap, g, P) /\ g.type = heap.type /\ Live(g) = Live(heap)
    <3>1. Sound(heap) /\ KeptBeside(heap, t, P)
      BY <1>1, <2>4
    <3>2. q \notin VectorRoots /\ P = {q} /\ g = Assign(heap, q, t)
      BY <2>5
    <3>3. Changes(heap, g, P)
      BY <3>1, <3>2, AssignOne
    <3>4. g.type = heap.type /\ Live(g) = Live(heap)
      BY <3>1, <3>2, AssignOne
    <3>5. QED
      BY <3>3, <3>4
  <2>7. QED
    BY <1>1, <1>3, <1>4, <2>1, <2>6, HandleWire
<1>7. QED
  BY <1>5, <1>6 DEF LuaReturn

\* A call that passes no token on.
LEMMA QuietEnterWire ==
    ASSUME ReadyInv, WireInv, NEW op, op \notin Directions, NEW c, NEW t, Enter(op, c, t, last)
    PROVE  WireInv'
<1>1. /\ todo = <<>> /\ call' = op /\ last' = last /\ heap' = heap /\ outcome' = outcome
  BY IdleFacts DEF Enter, Ready, Idle, ReadyInv
<1>2. PICK g : g = heap'
  OBVIOUS
<1>3. Undisturbed(last[2], heap, g)
  BY <1>1, <1>2, SameHeap
<1>4. QED
  BY <1>1, <1>2, <1>3, StillWire

LEMMA LuaUpdateWire == ASSUME ReadyInv, WireInv, NEW c \in Parts, LuaUpdate(c) PROVE WireInv'
<1>1. "update" \notin Directions
  BY DEF Directions
<1>2. QED
  BY <1>1, QuietEnterWire DEF LuaUpdate

LEMMA LuaGradientWire == ASSUME ReadyInv, WireInv, NEW t \in Own, LuaGradient(t) PROVE WireInv'
<1>1. "gradient" \notin Directions
  BY DEF Directions
<1>2. QED
  BY <1>1, QuietEnterWire DEF LuaGradient

LEMMA LuaLossResetWire == ASSUME ReadyInv, WireInv, LuaLossReset PROVE WireInv'
<1>1. "reset" \notin Directions
  BY DEF Directions
<1>2. QED
  BY <1>1, QuietEnterWire DEF LuaLossReset

\* A forward or a backprop has every door before it.
LEMMA RunEnterWire ==
    ASSUME ReadyInv, WireInv, NEW op \in Directions, NEW c \in Parts, NEW t,
           Enter(op, c, t, <<op, c>>), op = "backprop" => Ran /\ last[2] = c
    PROVE  WireInv'
<1>1. /\ todo = <<>> /\ call = "none" /\ outcome = "running" /\ call' = op
      /\ last' = <<op, c>> /\ heap' = heap /\ outcome' = outcome /\ hand' = t
  BY IdleFacts DEF Enter, Ready, Idle, ReadyInv
<1>2. c \in Components /\ op \in {"forward", "backprop"} /\ op \notin Loops /\ op \notin Keeps
  BY TreeAssumption DEF Directions, Loops, Keeps
<1>3. PICK s \in Steps : s = [op |-> op, c |-> c, i |-> 0]
  BY <1>2 DEF Steps
<1>4. PICK steps : steps = todo' /\ DOMAIN steps = {1} /\ steps[1] = s /\ steps # <<>> /\ Head(steps) = s
  <2>1. todo' = <<s>>
    BY <1>3 DEF Enter, Do
  <2>2. DOMAIN <<s>> = {1} /\ <<s>>[1] = s /\ <<s>> # <<>> /\ Head(<<s>>) = s
    OBVIOUS
  <2>3. QED
    BY <2>1, <2>2
<1>5. Chained(c, op, steps)
  BY <1>3, <1>4 DEF Chained, InLine, LeadsTo
<1>6. \A b \in Ports(c) : Awaits(c, op, steps, Wire(c, TakeDoor(op, b)))
  <2>1. ASSUME NEW b \in Ports(c)
        PROVE  Awaits(c, op, steps, Wire(c, TakeDoor(op, b)))
    <3>1. TakeDoor(op, b) \in Doors(c)
      <4>1. /\ b.of \in Below[c] /\ b.of \in Components
            /\ b.i # 0 => b.i \in DOMAIN Children[b.of]
        BY <1>2, PortFacts
      <4>2. b.i # 0 => Children[b.of][b.i] \in Below[c]
        BY <1>2, <4>1, BelowMore
      <4>3. QED
        BY <4>1, <4>2, DoorFacts DEF TakeDoor, Entrance, Exit
    <3>2. Doors(c) \subseteq Ahead(op, s)
      BY <1>3 DEF Ahead
    <3>3. QED
      BY <1>4, <3>1, <3>2 DEF Awaits, Reaches
  <2>2. QED
    BY <2>1
<1>7. PICK g : g = heap'
  OBVIOUS
<1>8. Fits(c, op, g, steps)
  BY <1>6 DEF Fits
<1>9. Brings(c, op, s, g, t)
  <2>1. Door(op, s) = Entrance(op, c)
    BY <1>2, <1>3 DEF Door
  <2>2. BringsTo(c, op, Entrance(op, c), g, t)
    BY <1>2, Givers DEF BringsTo
  <2>3. QED
    BY <2>1, <2>2 DEF Brings
<1>10. ToDo(op)' = steps
  BY <1>1, <1>4 DEF ToDo
<1>11. op = "backprop" => Fits(c, "forward", g, ToDo("forward")')
  <2>1. ASSUME op = "backprop"
        PROVE  Fits(c, "forward", g, ToDo("forward")')
    <3>1. ToDo("forward")' = <<>> /\ ToDo("forward") = <<>>
      BY <1>1, <2>1 DEF ToDo
    <3>2. Fits(last[2], "forward", heap, ToDo("forward"))
      BY <1>1, <2>1 DEF WireInv
    <3>3. QED
      BY <1>1, <1>7, <2>1, <3>1, <3>2
  <2>2. QED
    BY <2>1
<1>12. last'[1] = op /\ last'[2] = c
  BY <1>1
<1>13. CASE op = "forward"
  BY <1>1, <1>4, <1>5, <1>7, <1>8, <1>9, <1>10, <1>12, <1>13 DEF WireInv
<1>14. CASE op = "backprop"
  BY <1>1, <1>4, <1>5, <1>7, <1>8, <1>9, <1>10, <1>11, <1>12, <1>14 DEF WireInv
<1>15. QED
  BY <1>2, <1>13, <1>14

LEMMA LuaForwardWire ==
    ASSUME ReadyInv, WireInv, NEW c \in Parts, NEW t \in Own, LuaForward(c, t)
    PROVE  WireInv'
<1>1. PICK op \in Directions : op = "forward"
  BY DEF Directions
<1>2. QED
  BY <1>1, RunEnterWire DEF LuaForward

LEMMA LuaBackpropWire ==
    ASSUME ReadyInv, WireInv, NEW c \in Parts, NEW t \in Own, LuaBackprop(c, t)
    PROVE  WireInv'
<1>1. PICK op \in Directions : op = "backprop"
  BY DEF Directions
<1>2. Enter(op, c, t, <<op, c>>) /\ Ran /\ last[2] = c
  BY <1>1 DEF LuaBackprop, Ran
<1>3. QED
  BY <1>2, RunEnterWire

\* The destructors reach no place of a port.
LEMMA SweptUndisturbed ==
    ASSUME Sound(heap), VectorsMade(heap), NEW n \in Components, NEW g, g = Sweep(heap)
    PROVE  Undisturbed(n, heap, g)
<1>1. /\ \A p \in Roots : g.at[p] = heap.at[p]
      /\ \A p \in DOMAIN heap.at \ Roots :
            p.of \notin heap.dying => p \in DOMAIN g.at /\ g.at[p] = heap.at[p]
  BY SweepSound
<1>2. \A t \in Live(heap) \ heap.dying : t \in Live(g) /\ g.type[t] = heap.type[t]
  BY SweepTypes
<1>3. /\ \A p \in DOMAIN heap.at : heap.at[p] \in (Live(heap) \ heap.dying) \cup {Null}
      /\ VectorRoots \subseteq DOMAIN heap.at /\ VectorRoots \subseteq Roots /\ Null \notin Live(heap)
  BY SoundFacts DEF VectorRoots
<1>4. ASSUME NEW a \in Ports(n), NEW f, a.i = 0 => f \in MembersOf(a.of) \cap Members,
             NEW v \in Vectors, NEW p, p = Spot(heap, a, f, v)
      PROVE  Spot(g, a, f, v) = p /\ g.at[p] = heap.at[p] /\ p \in DOMAIN heap.at
  <2>1. SpotIs(a, f, v, p)
    BY <1>4, SpotFacts
  <2>2. CASE a.i = 0
    BY <1>1, <1>4, <2>1, <2>2 DEF Spot, SpotIs
  <2>3. CASE a.i # 0
    <3>1. PICK q : q = Member(a.of, v)
      OBVIOUS
    <3>2. PICK x : x = heap.at[q]
      OBVIOUS
    <3>3. q \in VectorRoots /\ p = Entry(x, a.i) /\ p \in DOMAIN heap.at /\ p \notin Roots
      BY <2>1, <2>3, <3>1, <3>2 DEF SpotIs
    <3>4. p.of = x
      BY <3>3, RootsApart
    <3>5. x \in Live(heap) \ heap.dying
      BY <1>3, <3>2, <3>3 DEF VectorsMade
    <3>6. g.at[p] = heap.at[p] /\ g.at[q] = x
      BY <1>1, <1>3, <3>2, <3>3, <3>4, <3>5
    <3>7. Spot(g, a, f, v) = Entry(x, a.i)
      BY <2>3, <3>1, <3>6 DEF Spot
    <3>8. QED
      BY <3>3, <3>6, <3>7
  <2>4. QED
    BY <2>2, <2>3
<1>5. ASSUME NEW p \in DOMAIN heap.at, NEW u, u = heap.at[p], NEW t, Wraps(heap, u, t)
      PROVE  Wraps(g, u, t)
  <2>1. /\ u \in Live(heap) /\ heap.type[u] = "vector"
        /\ Entry(u, 1) \in DOMAIN heap.at /\ heap.at[Entry(u, 1)] = t
        /\ \A q \in VectorRoots : heap.at[q] # u
    BY <1>5 DEF Wraps
  <2>2. u \in Live(heap) \ heap.dying
    BY <1>3, <1>5, <2>1
  <2>3. Entry(u, 1) \notin Roots /\ Entry(u, 1).of = u
    BY RootsApart
  <2>4. Entry(u, 1) \in DOMAIN g.at /\ g.at[Entry(u, 1)] = t
    BY <1>1, <2>1, <2>2, <2>3
  <2>5. \A q \in VectorRoots : g.at[q] # u
    BY <1>1, <1>3, <2>1
  <2>6. QED
    BY <1>2, <2>1, <2>2, <2>4, <2>5 DEF Wraps
<1>6. ASSUME NEW op \in Directions, NEW a \in Ports(n)
      PROVE  Gave(op, g, a) = Gave(op, heap, a) /\ \A x : Took(op, heap, a, x) => Took(op, g, a, x)
  <2>1. /\ a.i = 0 => /\ Result(op, a.of) \in MembersOf(a.of) \cap Members
                      /\ Argument(op) \in MembersOf(a.of) \cap Members
        /\ Shares(op) \in Vectors /\ Returns(op) \in Vectors
    BY Sides
  <2>2. PICK p : p = Spot(heap, a, Result(op, a.of), Shares(op))
    OBVIOUS
  <2>3. Spot(g, a, Result(op, a.of), Shares(op)) = p /\ g.at[p] = heap.at[p]
    BY <1>4, <2>1, <2>2
  <2>4. Gave(op, g, a) = Gave(op, heap, a)
    BY <2>2, <2>3 DEF Gave
  <2>5. PICK q : q = Spot(heap, a, Argument(op), Returns(op))
    OBVIOUS
  <2>6. Spot(g, a, Argument(op), Returns(op)) = q /\ g.at[q] = heap.at[q] /\ q \in DOMAIN heap.at
    BY <1>4, <2>1, <2>5
  <2>7. ASSUME NEW x, Took(op, heap, a, x)
        PROVE  Took(op, g, a, x)
    <3>1. PICK u : u = heap.at[q]
      OBVIOUS
    <3>2. u = x \/ (op = "forward" /\ a.i = 0 /\ Wraps(heap, u, x))
      BY <2>5, <2>7, <3>1 DEF Took
    <3>3. Wraps(heap, u, x) => Wraps(g, u, x)
      BY <1>5, <2>6, <3>1
    <3>4. g.at[Spot(g, a, Argument(op), Returns(op))] = u
      BY <2>6, <3>1
    <3>5. QED
      BY <3>2, <3>3, <3>4 DEF Took
  <2>8. QED
    BY <2>4, <2>7
<1>7. QED
  BY <1>6 DEF Undisturbed

LEMMA DeleteWire == ASSUME ReadyInv, WireInv, Delete PROVE WireInv'
<1>1. /\ UNCHANGED <<hand, todo, script, outcome>> /\ call' = call /\ last' = last
  BY DEF Delete, script
<1>2. PICK g : g = heap'
  OBVIOUS
<1>3. g = Sweep(heap)
  BY <1>2 DEF Delete
<1>4. \A op : ToDo(op)' = ToDo(op)
  BY <1>1 DEF ToDo
<1>5. last'[1] \in {"none", "forward", "backprop"} /\ (Ran' <=> Ran) /\ (Running' <=> Running)
  BY <1>1 DEF WireInv, Ran, Running
<1>6. CASE outcome = "running" /\ Ran
  <2>1. PICK n \in Components : n = last[2] /\ VectorsMade(heap) /\ Sound(heap)
    BY <1>6, RanMade
  <2>2. Undisturbed(n, heap, g)
    BY <1>3, <2>1, SweptUndisturbed
  <2>3. n \in Parts
    BY <1>6, <2>1 DEF WireInv
  <2>4. PICK f \in Directions : f = "forward"
    BY DEF Directions
  <2>5. PICK b \in Directions : b = "backprop"
    BY DEF Directions
  <2>6. Fits(n, f, heap, ToDo(f)) /\ (last[1] = "backprop" => Fits(n, b, heap, ToDo(b)))
    BY <1>6, <2>1, <2>4, <2>5 DEF WireInv
  <2>7. Fits(n, f, g, ToDo(f)) /\ (last[1] = "backprop" => Fits(n, b, g, ToDo(b)))
    BY <2>2, <2>6, UndisturbedFits
  <2>8. Running => /\ Chained(n, call, todo)
                   /\ todo # <<>> => Brings(n, call, Head(todo), g, hand)
    <3>1. ASSUME Running
          PROVE  /\ Chained(n, call, todo)
                 /\ todo # <<>> => Brings(n, call, Head(todo), g, hand)
      <4>1. PICK op \in Directions : op = call
        BY <3>1 DEF Running, Directions
      <4>2. PICK s : s = Head(todo)
        OBVIOUS
      <4>3. Chained(n, op, todo) /\ (todo # <<>> => Brings(n, op, s, heap, hand))
        BY <1>6, <2>1, <3>1, <4>1, <4>2 DEF WireInv
      <4>4. \A a \in Ports(n) : Gave(op, g, a) = Gave(op, heap, a)
        BY <2>2 DEF Undisturbed
      <4>5. Brings(n, op, s, heap, hand) => Brings(n, op, s, g, hand)
        BY <4>4 DEF Brings, BringsTo
      <4>6. QED
        BY <4>1, <4>2, <4>3, <4>5
    <3>2. QED
      BY <3>1
  <2>9. QED
    BY <1>1, <1>2, <1>4, <1>5, <2>1, <2>3, <2>4, <2>5, <2>7, <2>8 DEF WireInv
<1>7. CASE ~(outcome = "running" /\ Ran)
  BY <1>1, <1>5, <1>7 DEF WireInv
<1>8. QED
  BY <1>6, <1>7

LEMMA LuaResetWire == ASSUME WireInv, NEW c \in Parts, LuaReset(c) PROVE WireInv'
  BY ForgottenWire DEF LuaReset, Enter

LEMMA LuaBuildWire == ASSUME WireInv, NEW c \in Networks, LuaBuild(c) PROVE WireInv'
  BY ForgottenWire DEF LuaBuild, Enter

LEMMA LuaDestroyWire == ASSUME WireInv, NEW c \in Networks, LuaDestroy(c) PROVE WireInv'
  BY ForgottenWire DEF LuaDestroy, Enter

LEMMA StutterWire == ASSUME WireInv, UNCHANGED vars PROVE WireInv'
<1>1. /\ heap' = heap /\ hand' = hand /\ todo' = todo /\ call' = call /\ last' = last
      /\ outcome' = outcome
  BY DEF vars, script
<1>2. \A op : ToDo(op)' = ToDo(op)
  BY <1>1 DEF ToDo
<1>3. QED
  BY <1>1, <1>2 DEF WireInv, Ran, Running

LEMMA WireNext == ReadyInv /\ WireInv /\ [Next]_vars => WireInv'
<1> SUFFICES ASSUME ReadyInv, WireInv, [Next]_vars PROVE WireInv'
  OBVIOUS
<1>1. CASE Component
  BY <1>1, ForwardDotProductWire, ForwardBlockWire, ForwardCopyWire, ForwardThroughWire,
     ForwardJoinWire, ForwardChildWire, KeepOutputWire, EndForwardJoinWire,
     BackpropBiasWire, BackpropSparseWire, BackpropNullWire, BackpropBlockWire,
     BackpropThroughWire, BackpropJoinWire, BackpropChildWire, KeepGradientWire,
     EndBackpropSegmentedWire, EndBackpropJoinWire, KeepNullWire, FailWire,
     DoBuildWire, DoUpdateWire, DoResetWire, DoDestroyWire, DoGradientWire
  DEF Component
<1>2. CASE Script
  BY <1>2, LuaNewWire, LuaGradientWire, CollectWire, LuaForwardWire, LuaBackpropWire,
     LuaUpdateWire, LuaResetWire, LuaBuildWire, LuaDestroyWire, LuaLossResetWire, LuaReturnWire
  DEF Script
<1>3. CASE Delete
  BY <1>3, DeleteWire
<1>4. CASE UNCHANGED vars
  BY <1>4, StutterWire
<1>5. QED
  BY <1>1, <1>2, <1>3, <1>4 DEF Next, Exited

(***************************************************************************)
(* What is given to a wire is what is taken from it, once the call has     *)
(* passed there.                                                           *)
(***************************************************************************)
THEOREM WiresHold == Spec => [](ReadyInv /\ WireInv)
<1>1. Init => ReadyInv /\ WireInv
  BY ReadyInit, InitWire
<1>2. (ReadyInv /\ WireInv) /\ [Next]_vars => (ReadyInv /\ WireInv)'
  BY ReadyNext, WireNext
<1>3. QED
  BY <1>1, <1>2, PTL DEF Spec

-----------------------------------------------------------------------------
(***************************************************************************)
(* The components below one, in the order of a forward                     *)
(***************************************************************************)
\* A component is not below its children.
LEMMA BelowLess ==
    ASSUME NEW c \in Components, NEW i \in DOMAIN Children[c], NEW d, d = Children[c][i]
    PROVE  <<Below[d], Below[c]>> \in StrictSubsetOrdering(Components)
<1>1. d \in Components /\ Below[d] \subseteq Below[c] /\ c \in Below[c] /\ Below[c] \subseteq Components
  BY BelowFacts
<1>2. c \notin Below[d]
  BY NetworkAssumption
<1>3. Below[d] # Below[c] /\ Below[d] \in SUBSET Components /\ Below[c] \in SUBSET Components
  BY <1>1, <1>2
<1>4. QED
  BY <1>1, <1>3 DEF StrictSubsetOrdering

\* Of some components, one has no child among them.
LEMMA Minimal ==
    ASSUME NEW S \in SUBSET Components, S # {}
    PROVE  \E c \in S : \A i \in DOMAIN Children[c] : Children[c][i] \notin S
<1>1. IsWellFoundedOn(StrictSubsetOrdering(Components), FiniteSubsetsOf(Components))
  BY FS_StrictSubsetOrderingWellFounded
<1>2. PICK U : U = {Below[c] : c \in S}
  OBVIOUS
<1>3. U \subseteq FiniteSubsetsOf(Components) /\ U # {}
  <2>1. ASSUME NEW c \in S
        PROVE  Below[c] \in FiniteSubsetsOf(Components)
    <3>1. Below[c] \in SUBSET Components
      BY BelowFacts
    <3>2. IsFiniteSet(Below[c])
      BY <3>1, NetworkAssumption, FS_Subset
    <3>3. QED
      BY <3>1, <3>2 DEF FiniteSubsetsOf
  <2>2. QED
    BY <1>2, <2>1
<1>4. PICK x \in U : \A y \in U : ~ (<<y, x>> \in StrictSubsetOrdering(Components))
  BY <1>1, <1>3, WFMin
<1>5. PICK c \in S : x = Below[c]
  BY <1>2
<1>6. ASSUME NEW i \in DOMAIN Children[c], Children[c][i] \in S
      PROVE  FALSE
  <2>1. PICK d : d = Children[c][i]
    OBVIOUS
  <2>2. <<Below[d], Below[c]>> \in StrictSubsetOrdering(Components)
    BY <2>1, BelowLess
  <2>3. Below[d] \in U
    BY <1>2, <1>6, <2>1
  <2>4. QED
    BY <1>4, <1>5, <2>2, <2>3
<1>7. QED
  BY <1>6

\* What Flat says of c when f is known of its children.
FlatBy(f, c) ==
    CASE MembersOf(c) # {} -> <<c>>
      [] MembersOf(c) = {} /\ Children[c] = <<>> -> <<>>
      [] OTHER -> FlattenSeq([i \in DOMAIN Children[c] |-> f[Children[c][i]]])

\* f is Flat on the components S, which have all their children.
FlatOn(S, f) ==
    \A c \in S : f[c] = FlatBy(f, c) /\ \A i \in DOMAIN Children[c] : Children[c][i] \in S

LEMMA FlatBySame ==
    ASSUME NEW f, NEW g, NEW c, \A i \in DOMAIN Children[c] : f[Children[c][i]] = g[Children[c][i]]
    PROVE  FlatBy(f, c) = FlatBy(g, c)
<1>1. [i \in DOMAIN Children[c] |-> f[Children[c][i]]] = [i \in DOMAIN Children[c] |-> g[Children[c][i]]]
  OBVIOUS
<1>2. QED
  BY <1>1 DEF FlatBy

LEMMA FlatExists == \E f : FlatOn(Components, f)
<1>1. IsWellFoundedOn(StrictSubsetOrdering(Components), FiniteSubsetsOf(Components))
  BY FS_StrictSubsetOrderingWellFounded
<1>2. PICK U : U = {x \in SUBSET Components : \E f : FlatOn(Components \ x, f)}
  OBVIOUS
<1>3. U \subseteq FiniteSubsetsOf(Components)
  <2>1. \A x \in SUBSET Components : IsFiniteSet(x)
    BY NetworkAssumption, FS_Subset
  <2>2. QED
    BY <1>2, <2>1 DEF FiniteSubsetsOf
<1>4. U # {}
  <2>1. PICK f : f = <<>>
    OBVIOUS
  <2>2. FlatOn(Components \ Components, f)
    BY DEF FlatOn
  <2>3. QED
    BY <1>2, <2>2
<1>5. PICK x \in U : \A y \in U : ~ (<<y, x>> \in StrictSubsetOrdering(Components))
  BY <1>1, <1>3, <1>4, WFMin
<1>6. PICK S, f : S = Components \ x /\ FlatOn(S, f)
  BY <1>2
<1>7. x \in SUBSET Components
  BY <1>2
<1>8. CASE x # {}
  <2>1. PICK c \in x : \A i \in DOMAIN Children[c] : Children[c][i] \notin x
    BY <1>7, <1>8, Minimal
  <2>2. \A i \in DOMAIN Children[c] : Children[c][i] \in S
    <3>1. Children[c] \in Seq(Components)
      BY <1>7, TreeAssumption
    <3>2. QED
      BY <1>6, <2>1, <3>1
  <2>3. PICK g : g = [d \in S \cup {c} |-> IF d = c THEN FlatBy(f, c) ELSE f[d]]
    OBVIOUS
  <2>4. c \notin S /\ g[c] = FlatBy(f, c) /\ \A d \in S : g[d] = f[d]
    BY <1>6, <2>3
  <2>5. FlatBy(g, c) = FlatBy(f, c)
    <3>1. \A i \in DOMAIN Children[c] : f[Children[c][i]] = g[Children[c][i]]
      BY <2>2, <2>4
    <3>2. FlatBy(f, c) = FlatBy(g, c)
      BY <3>1, FlatBySame
    <3>3. QED
      BY <3>2
  <2>6. ASSUME NEW d \in S
        PROVE  /\ g[d] = FlatBy(g, d)
               /\ \A i \in DOMAIN Children[d] : Children[d][i] \in S
    <3>1. f[d] = FlatBy(f, d) /\ \A i \in DOMAIN Children[d] : Children[d][i] \in S
      BY <1>6 DEF FlatOn
    <3>2. \A i \in DOMAIN Children[d] : f[Children[d][i]] = g[Children[d][i]]
      BY <2>4, <3>1
    <3>3. FlatBy(f, d) = FlatBy(g, d)
      BY <3>2, FlatBySame
    <3>4. QED
      BY <2>4, <3>1, <3>3
  <2>7. FlatOn(S \cup {c}, g)
    BY <2>2, <2>4, <2>5, <2>6 DEF FlatOn
  <2>8. PICK y : y = x \ {c}
    OBVIOUS
  <2>9. y \in SUBSET Components /\ y \subseteq x /\ y # x /\ Components \ y = S \cup {c}
    BY <1>6, <1>7, <2>1, <2>8
  <2>10. y \in U
    BY <1>2, <2>7, <2>9
  <2>11. <<y, x>> \in StrictSubsetOrdering(Components)
    BY <1>7, <2>9 DEF StrictSubsetOrdering
  <2>12. QED
    BY <1>5, <2>10, <2>11
<1>9. CASE x = {}
  <2>1. S = Components
    BY <1>6, <1>9
  <2>2. QED
    BY <1>6, <2>1
<1>10. QED
  BY <1>8, <1>9

LEMMA FlatFacts == ASSUME NEW c \in Components PROVE Flat[c] = FlatBy(Flat, c)
<1> DEFINE Body(f) == [x \in Components |->
              CASE MembersOf(x) # {} -> <<x>>
                [] MembersOf(x) = {} /\ Children[x] = <<>> -> <<>>
                [] OTHER -> FlattenSeq([i \in DOMAIN Children[x] |-> f[Children[x][i]]])]
<1>1. PICK f : FlatOn(Components, f)
  BY FlatExists
<1>2. PICK g : g = [x \in Components |-> f[x]]
  OBVIOUS
<1>3. ASSUME NEW x \in Components
      PROVE  g[x] = FlatBy(g, x)
  <2>1. f[x] = FlatBy(f, x) /\ \A i \in DOMAIN Children[x] : Children[x][i] \in Components
    BY <1>1 DEF FlatOn
  <2>2. \A i \in DOMAIN Children[x] : f[Children[x][i]] = g[Children[x][i]]
    BY <1>2, <2>1
  <2>3. FlatBy(f, x) = FlatBy(g, x)
    BY <2>2, FlatBySame
  <2>4. QED
    BY <1>2, <2>1, <2>3
<1>4. g = Body(g)
  <2>1. \A x \in Components : g[x] = Body(g)[x]
    BY <1>3 DEF FlatBy
  <2>2. g = [x \in Components |-> g[x]] /\ Body(g) = [x \in Components |-> Body(g)[x]]
    BY <1>2
  <2> HIDE DEF Body
  <2>3. [x \in Components |-> g[x]] = [x \in Components |-> Body(g)[x]]
    BY <2>1
  <2>4. QED
    BY <2>2, <2>3
<1>5. Flat = CHOOSE h : h = Body(h)
  BY DEF Flat
<1>6. Flat = Body(Flat)
  <2> HIDE DEF Body
  <2>1. QED
    BY <1>4, <1>5
<1>7. Flat[c] = Body(Flat)[c]
  <2> HIDE DEF Body
  <2>1. QED
    BY <1>6
<1>8. Body(Flat)[c] = FlatBy(Flat, c)
  BY DEF FlatBy
<1>9. QED
  <2> HIDE DEF Body
  <2>1. QED
    BY <1>7, <1>8

-----------------------------------------------------------------------------
(***************************************************************************)
(* Sequences put together                                                  *)
(***************************************************************************)
\* What holds of 1, and of k + 1 when it holds of k, holds of each up to m.
LEMMA Upwards ==
    ASSUME NEW m \in Nat, NEW S, 1 \in S, \A k \in 1 .. m : k \in S => k + 1 \in S
    PROVE  \A k \in 1 .. m : k \in S
<1> SUFFICES ASSUME \E k \in 1 .. m : k \notin S PROVE FALSE
  OBVIOUS
<1>1. IsWellFoundedOn(StrictSubsetOrdering(Nat), FiniteSubsetsOf(Nat))
  BY FS_StrictSubsetOrderingWellFounded
<1>2. PICK U : U = {1 .. k : k \in {j \in 1 .. m : j \notin S}}
  OBVIOUS
<1>3. U \subseteq FiniteSubsetsOf(Nat) /\ U # {}
  <2>1. ASSUME NEW k \in 1 .. m
        PROVE  1 .. k \in FiniteSubsetsOf(Nat)
    <3>1. IsFiniteSet(1 .. k)
      BY FS_Interval
    <3>2. 1 .. k \in SUBSET Nat
      OBVIOUS
    <3>3. QED
      BY <3>1, <3>2 DEF FiniteSubsetsOf
  <2>2. QED
    BY <1>2, <2>1
<1>4. PICK x \in U : \A y \in U : ~ (<<y, x>> \in StrictSubsetOrdering(Nat))
  BY <1>1, <1>3, WFMin
<1>5. PICK k \in 1 .. m : k \notin S /\ x = 1 .. k
  BY <1>2
<1>6. PICK j : j = k - 1 /\ j \in 1 .. m /\ k = j + 1
  <2>1. k # 1
    BY <1>5
  <2>2. QED
    BY <2>1
<1>7. j \notin S
  BY <1>5, <1>6
<1>8. 1 .. j \in U
  BY <1>2, <1>6, <1>7
<1>9. <<1 .. j, 1 .. k>> \in StrictSubsetOrdering(Nat)
  <2>1. 1 .. j \in SUBSET Nat /\ 1 .. k \in SUBSET Nat /\ 1 .. j \subseteq 1 .. k
    BY <1>6
  <2>2. k \in 1 .. k /\ k \notin 1 .. j
    BY <1>6
  <2>3. QED
    BY <2>1, <2>2 DEF StrictSubsetOrdering
<1>10. QED
  BY <1>4, <1>5, <1>8, <1>9

\* What the first sequences make when they are put together.
Joining(s, n, f) == f = [i \in 1 .. n |-> IF i = 1 THEN s[i] ELSE f[i - 1] \o s[i]]

LEMMA JoiningExists ==
    ASSUME NEW s, NEW m \in Nat, m # 0
    PROVE  \E f : Joining(s, m, f)
<1>1. PICK S : S = {k \in Nat : \E f : Joining(s, k, f)}
  OBVIOUS
<1>2. 1 \in S
  <2>1. PICK f : f = [i \in 1 .. 1 |-> s[i]]
    OBVIOUS
  <2>2. ASSUME NEW i \in 1 .. 1
        PROVE  s[i] = IF i = 1 THEN s[i] ELSE f[i - 1] \o s[i]
    OBVIOUS
  <2>3. Joining(s, 1, f)
    BY <2>1, <2>2 DEF Joining
  <2>4. QED
    BY <1>1, <2>3
<1>3. ASSUME NEW k \in 1 .. m, k \in S
      PROVE  k + 1 \in S
  <2>1. PICK f : Joining(s, k, f)
    BY <1>1, <1>3
  <2>2. PICK g : g = [i \in 1 .. k + 1 |-> IF i = k + 1 THEN f[k] \o s[k + 1] ELSE f[i]]
    OBVIOUS
  <2>3. ASSUME NEW i \in 1 .. k + 1
        PROVE  g[i] = IF i = 1 THEN s[i] ELSE g[i - 1] \o s[i]
    <3>1. CASE i = k + 1
      <4>1. i # 1 /\ i - 1 = k /\ k \in 1 .. k + 1 /\ k # k + 1
        BY <3>1
      <4>2. g[i] = f[k] \o s[i] /\ g[i - 1] = f[k]
        BY <2>2, <3>1, <4>1
      <4>3. QED
        BY <4>1, <4>2
    <3>2. CASE i # k + 1
      <4>1. i \in 1 .. k /\ g[i] = f[i] /\ (i # 1 => i - 1 \in 1 .. k /\ g[i - 1] = f[i - 1])
        BY <2>2, <3>2
      <4>2. f[i] = IF i = 1 THEN s[i] ELSE f[i - 1] \o s[i]
        BY <2>1, <4>1 DEF Joining
      <4>3. QED
        BY <4>1, <4>2
    <3>3. QED
      BY <3>1, <3>2
  <2>4. g = [i \in 1 .. k + 1 |-> g[i]]
    BY <2>2
  <2>5. Joining(s, k + 1, g)
    BY <2>3, <2>4 DEF Joining
  <2>6. QED
    BY <1>1, <2>5
<1>4. m \in S
  BY <1>2, <1>3, Upwards
<1>5. QED
  BY <1>1, <1>4

LEMMA FlattenFacts ==
    ASSUME NEW s, NEW m \in Nat, m # 0, Len(s) = m
    PROVE  \E f : Joining(s, m, f) /\ FlattenSeq(s) = f[m]
<1>1. PICK g : g = CHOOSE f : Joining(s, m, f)
  OBVIOUS
<1>2. Joining(s, m, g)
  BY <1>1, JoiningExists
<1>3. FlattenSeq(s) = (CHOOSE f : Joining(s, m, f))[m]
  BY DEF FlattenSeq, Joining
<1>4. QED
  BY <1>1, <1>2, <1>3
-----------------------------------------------------------------------------
\* The components s, which keep tokens, are tied one to the next from the
\* door x to the door y.
Strand(n, s, x, y) ==
    /\ s \in Seq(Below[n])
    /\ \A i \in DOMAIN s : Kind[s[i]] \in Keeping
    /\ s = <<>> => Wire(n, x) = Wire(n, y)
    /\ s # <<>> => Wire(n, x) = Wire(n, In(s[1])) /\ Wire(n, Out(s[Len(s)])) = Wire(n, y)
    /\ \A i, j \in DOMAIN s : j = i + 1 => Wire(n, Out(s[i])) = Wire(n, In(s[j]))

LEMMA StrandsJoin ==
    ASSUME NEW n, NEW s, NEW t, NEW x, NEW y, NEW v, NEW z,
           Strand(n, s, x, y), Strand(n, t, v, z), Wire(n, y) = Wire(n, v),
           NEW st, st = s \o t
    PROVE  Strand(n, st, x, z)
<1>1. /\ s \in Seq(Below[n]) /\ t \in Seq(Below[n])
      /\ s = <<>> => Wire(n, x) = Wire(n, y)
      /\ s # <<>> => Wire(n, x) = Wire(n, In(s[1])) /\ Wire(n, Out(s[Len(s)])) = Wire(n, y)
      /\ t = <<>> => Wire(n, v) = Wire(n, z)
      /\ t # <<>> => Wire(n, v) = Wire(n, In(t[1])) /\ Wire(n, Out(t[Len(t)])) = Wire(n, z)
  BY DEF Strand
<1>2. CASE s = <<>>
  <2>1. st = t
    BY <1>1, <1>2
  <2>2. Wire(n, x) = Wire(n, v)
    BY <1>1, <1>2
  <2>3. QED
    BY <2>1, <2>2 DEF Strand
<1>3. CASE t = <<>>
  <2>1. st = s
    BY <1>1, <1>3
  <2>2. Wire(n, y) = Wire(n, z)
    BY <1>1, <1>3
  <2>3. QED
    BY <2>1, <2>2 DEF Strand
<1>4. CASE s # <<>> /\ t # <<>>
  <2>1. PICK a \in Nat, b \in Nat : a = Len(s) /\ b = Len(t) /\ a # 0 /\ b # 0
    BY <1>1, <1>4
  <2>2. /\ st \in Seq(Below[n]) /\ st # <<>> /\ Len(st) = a + b /\ DOMAIN st = 1 .. a + b
        /\ \A i \in 1 .. a : st[i] = s[i]
        /\ \A i \in a + 1 .. a + b : i - a \in 1 .. b /\ st[i] = t[i - a]
        /\ DOMAIN s = 1 .. a /\ DOMAIN t = 1 .. b
    BY <1>1, <2>1
  <2>3. st[1] = s[1] /\ st[a + b] = t[b] /\ st[a] = s[a] /\ st[a + 1] = t[1]
    <3>1. 1 \in 1 .. a /\ a \in 1 .. a /\ a + b \in a + 1 .. a + b /\ a + b - a = b
          /\ a + 1 \in a + 1 .. a + b /\ a + 1 - a = 1
      BY <2>1
    <3>2. QED
      BY <2>2, <3>1
  <2>4. \A i \in DOMAIN st : Kind[st[i]] \in Keeping
    <3>1. \A i \in 1 .. a : Kind[s[i]] \in Keeping
      BY <2>2 DEF Strand
    <3>2. \A i \in 1 .. b : Kind[t[i]] \in Keeping
      BY <2>2 DEF Strand
    <3>3. ASSUME NEW i \in 1 .. a + b
          PROVE  Kind[st[i]] \in Keeping
      <4>1. i \in 1 .. a \/ i \in a + 1 .. a + b
        OBVIOUS
      <4>2. QED
        BY <2>2, <3>1, <3>2, <4>1
    <3>4. QED
      BY <2>2, <3>3
  <2>5. ASSUME NEW i \in DOMAIN st, NEW j \in DOMAIN st, j = i + 1
        PROVE  Wire(n, Out(st[i])) = Wire(n, In(st[j]))
    <3>1. i \in 1 .. a + b /\ j \in 1 .. a + b
      BY <2>2
    <3>2. CASE i < a
      <4>1. i \in 1 .. a /\ j \in 1 .. a /\ st[i] = s[i] /\ st[j] = s[j]
        BY <2>2, <2>5, <3>1, <3>2
      <4>2. QED
        BY <2>2, <2>5, <4>1 DEF Strand
    <3>3. CASE i = a
      <4>1. st[i] = s[a] /\ st[j] = t[1]
        BY <2>3, <2>5, <3>3
      <4>2. QED
        BY <1>1, <1>4, <2>1, <4>1
    <3>4. CASE i > a
      <4>1. i \in a + 1 .. a + b /\ j \in a + 1 .. a + b
        BY <2>5, <3>1, <3>4
      <4>2. PICK k \in Nat : k = i - a /\ k \in 1 .. b /\ k + 1 \in 1 .. b /\ j - a = k + 1
        <5>1. i - a \in 1 .. b /\ j - a \in 1 .. b
          BY <2>2, <4>1
        <5>2. i \in Nat /\ j = i + 1
          BY <2>1, <2>5, <3>1
        <5>3. i - a \in Nat /\ j - a = (i - a) + 1
          BY <2>1, <5>1, <5>2
        <5>4. QED
          BY <5>1, <5>3
      <4>3. st[i] = t[k] /\ st[j] = t[k + 1]
        <5>1. st[i] = t[i - a] /\ st[j] = t[j - a]
          BY <2>2, <4>1
        <5>2. QED
          BY <4>2, <5>1
      <4>4. \A p, q \in DOMAIN t : q = p + 1 => Wire(n, Out(t[p])) = Wire(n, In(t[q]))
        BY DEF Strand
      <4>5. Wire(n, Out(t[k])) = Wire(n, In(t[k + 1]))
        BY <2>2, <4>2, <4>4
      <4>6. QED
        BY <4>3, <4>5
    <3>5. QED
      BY <3>1, <3>2, <3>3, <3>4
  <2>6. Wire(n, x) = Wire(n, In(st[1])) /\ Wire(n, Out(st[Len(st)])) = Wire(n, z)
    BY <1>1, <1>4, <2>1, <2>2, <2>3
  <2>7. QED
    BY <2>2, <2>4, <2>5, <2>6 DEF Strand
<1>5. QED
  BY <1>2, <1>3, <1>4

\* A loss function is not below a component that a script calls.
LEMMA NoLoss ==
    ASSUME NEW n \in Parts, NEW c \in Below[n]
    PROVE  c \in Components /\ Kind[c] \in Keeping \cup Through
<1>1. n \in Components /\ Kind[n] # "loss"
  BY TreeAssumption, LossAssumption
<1>2. PICK S : S = {d \in Components : Kind[d] # "loss"}
  OBVIOUS
<1>3. S \in Families
  <2>1. ASSUME NEW d \in S, NEW i \in DOMAIN Children[d]
        PROVE  Children[d][i] \in S
    <3>1. d \in Components
      BY <1>2
    <3>2. Children[d][i] \in Components /\ Kind[Children[d][i]] # "loss"
      BY <3>1, BelowFacts, LossAssumption
    <3>3. QED
      BY <1>2, <3>2
  <2>2. S \in SUBSET Components
    BY <1>2
  <2>3. QED
    BY <2>1, <2>2 DEF Families
<1>4. c \in Components /\ c \in S
  <2>1. Below[n] = {d \in Components : \A X \in Families : n \in X => d \in X}
    BY <1>1 DEF Below
  <2>2. n \in S
    BY <1>1, <1>2
  <2>3. QED
    BY <1>3, <2>1, <2>2
<1>5. Kind[c] # "loss" /\ Kind[c] \in Kinds
  BY <1>2, <1>4, TreeAssumption
<1>6. QED
  BY <1>4, <1>5 DEF Kinds, Keeping, Simple, Through

\* Those that keep no tokens are the ones that a call goes through.
LEMMA KeepOrPass ==
    ASSUME NEW c \in Components, Kind[c] \in Keeping \cup Through
    PROVE  /\ MembersOf(c) # {} <=> Kind[c] \in Keeping
           /\ MembersOf(c) = {} => Kind[c] \in Through
<1>1. Kind[c] \in Keeping => "input" \in MembersOf(c)
  BY DEF Keeping, Simple, MembersOf, Members
<1>2. Kind[c] \in Through => MembersOf(c) = {}
  BY DEF Through, MembersOf
<1>3. QED
  BY <1>1, <1>2

LEMMA OneStrand ==
    ASSUME NEW n, NEW c \in Below[n], Kind[c] \in Keeping, NEW s, s = <<c>>
    PROVE  Strand(n, s, In(c), Out(c))
<1>1. s # <<>> /\ Len(s) = 1 /\ s[1] = c
  OBVIOUS
<1>2. s \in Seq(Below[n]) /\ DOMAIN s = 1 .. 1
  <2>1. PICK B : B = Below[n]
    OBVIOUS
  <2>2. ASSUME NEW S, NEW x \in S
        PROVE  <<x>> \in Seq(S) /\ DOMAIN <<x>> = 1 .. 1
    OBVIOUS
  <2>3. QED
    BY <2>1, <2>2
<1>3. \A i, j \in DOMAIN s : j # i + 1
  BY <1>2
<1>4. Wire(n, In(c)) = Wire(n, In(s[1])) /\ Wire(n, Out(s[Len(s)])) = Wire(n, Out(c))
  BY <1>1
<1>5. \A i \in DOMAIN s : Kind[s[i]] \in Keeping
  BY <1>1, <1>2
<1>6. QED
  BY <1>1, <1>2, <1>3, <1>4, <1>5 DEF Strand

\* The strands of children in a line, one after the other.
LEMMA LineStrand ==
    ASSUME NEW n, NEW ch, NEW m \in Nat, m # 0, DOMAIN ch = 1 .. m,
           \A i \in DOMAIN ch : \A j \in DOMAIN ch : j = i + 1 =>
              Wire(n, Out(ch[i])) = Wire(n, In(ch[j])),
           NEW s, DOMAIN s = 1 .. m, Len(s) = m,
           \A i \in 1 .. m : Strand(n, s[i], In(ch[i]), Out(ch[i]))
    PROVE  Strand(n, FlattenSeq(s), In(ch[1]), Out(ch[m]))
<1>1. PICK f : Joining(s, m, f) /\ FlattenSeq(s) = f[m]
  BY FlattenFacts
<1>2. /\ 1 \in 1 .. m /\ m \in 1 .. m
      /\ f[1] = s[1]
      /\ \A k \in 1 .. m : k + 1 \in 1 .. m => f[k + 1] = f[k] \o s[k + 1]
  <2>1. \A i \in 1 .. m : f[i] = IF i = 1 THEN s[i] ELSE f[i - 1] \o s[i]
    BY <1>1 DEF Joining
  <2>2. 1 \in 1 .. m /\ m \in 1 .. m
    OBVIOUS
  <2>3. ASSUME NEW k \in 1 .. m, k + 1 \in 1 .. m
        PROVE  f[k + 1] = f[k] \o s[k + 1]
    <3>1. k + 1 # 1 /\ (k + 1) - 1 = k
      OBVIOUS
    <3>2. QED
      BY <2>1, <2>3, <3>1
  <2>4. QED
    BY <2>1, <2>2, <2>3
<1>3. PICK S : S = {k \in 1 .. m : Strand(n, f[k], In(ch[1]), Out(ch[k]))} \cup {m + 1}
  OBVIOUS
<1>4. 1 \in S
  BY <1>2, <1>3
<1>5. ASSUME NEW k \in 1 .. m, k \in S
      PROVE  k + 1 \in S
  <2>1. CASE k = m
    BY <1>3, <2>1
  <2>2. CASE k # m
    <3>1. PICK j \in 1 .. m : j = k + 1
      BY <2>2
    <3>2. k # m + 1
      OBVIOUS
    <3>3. Strand(n, f[k], In(ch[1]), Out(ch[k]))
      BY <1>3, <1>5, <3>2
    <3>4. Strand(n, s[j], In(ch[j]), Out(ch[j]))
      OBVIOUS
    <3>5. Wire(n, Out(ch[k])) = Wire(n, In(ch[j]))
      BY <3>1
    <3>6. f[j] = f[k] \o s[j]
      BY <1>2, <3>1
    <3>7. PICK v, w, x, y, z, r, t : /\ v = In(ch[1]) /\ w = Out(ch[k]) /\ x = In(ch[j])
                                     /\ y = Out(ch[j]) /\ z = f[j] /\ r = f[k] /\ t = s[j]
      OBVIOUS
    <3>8. Strand(n, z, v, y)
      BY <3>3, <3>4, <3>5, <3>6, <3>7, StrandsJoin
    <3>9. QED
      BY <1>3, <3>1, <3>7, <3>8
  <2>3. QED
    BY <2>1, <2>2
<1>6. m \in S
  BY <1>2, <1>4, <1>5, Upwards
<1>7. Strand(n, f[m], In(ch[1]), Out(ch[m]))
  BY <1>2, <1>3, <1>6
<1>8. QED
  BY <1>1, <1>7

\* What replaces the ends of a strand is on the same wires.
LEMMA StrandEnds ==
    ASSUME NEW n, NEW s, NEW x, NEW y, NEW v, NEW z, Strand(n, s, x, y),
           Wire(n, v) = Wire(n, x), Wire(n, y) = Wire(n, z)
    PROVE  Strand(n, s, v, z)
  BY DEF Strand

LEMMA FlatStrand ==
    ASSUME NEW n \in Parts
    PROVE  \A c \in Below[n] : Strand(n, Flat[c], In(c), Out(c))
<1>1. n \in Components
  BY TreeAssumption
<1>2. PICK S : S = {c \in Below[n] : ~Strand(n, Flat[c], In(c), Out(c))}
  OBVIOUS
<1>3. SUFFICES ASSUME S # {} PROVE FALSE
  BY <1>2
<1>4. S \in SUBSET Components
  BY <1>1, <1>2, BelowFacts
<1>5. PICK c \in S : \A i \in DOMAIN Children[c] : Children[c][i] \notin S
  BY <1>3, <1>4, Minimal
<1>6. c \in Below[n] /\ ~Strand(n, Flat[c], In(c), Out(c)) /\ c \in Components
  BY <1>2, <1>4
<1>7. Flat[c] = FlatBy(Flat, c)
  BY <1>6, FlatFacts
<1>8. Kind[c] \in Keeping \cup Through
  BY <1>6, NoLoss
<1>9. CASE MembersOf(c) # {}
  <2>1. Kind[c] \in Keeping
    BY <1>6, <1>8, <1>9, KeepOrPass
  <2>2. Flat[c] = <<c>>
    BY <1>7, <1>9 DEF FlatBy
  <2>3. QED
    BY <1>6, <2>1, <2>2, OneStrand
<1>10. CASE MembersOf(c) = {} /\ Children[c] = <<>>
  <2>1. Wire(n, In(c)) = Wire(n, Out(c))
    <3>1. Kind[c] \in Through
      BY <1>6, <1>8, <1>10, KeepOrPass
    <3>2. QED
      BY <1>1, <1>6, <1>10, <3>1, ForwardLine
  <2>2. Flat[c] = <<>>
    BY <1>7, <1>10 DEF FlatBy
  <2>3. Strand(n, Flat[c], In(c), Out(c))
    BY <2>1, <2>2 DEF Strand
  <2>4. QED
    BY <1>6, <2>3
<1>11. CASE MembersOf(c) = {} /\ Children[c] # <<>>
  <2>1. PICK ch \in Seq(Components) : ch = Children[c]
    BY <1>6, TreeAssumption
  <2>2. PICK m \in Nat : m = Len(ch) /\ m # 0 /\ DOMAIN ch = 1 .. m
    BY <1>11, <2>1
  <2>3. PICK s : s = [i \in DOMAIN ch |-> Flat[ch[i]]]
    OBVIOUS
  <2>4. DOMAIN s = 1 .. m /\ Len(s) = m
    BY <2>2, <2>3
  <2>5. Flat[c] = FlattenSeq(s)
    BY <1>7, <1>11, <2>1, <2>3 DEF FlatBy
  <2>6. ASSUME NEW i \in 1 .. m
        PROVE  Strand(n, s[i], In(ch[i]), Out(ch[i]))
    <3>1. ch[i] \in Below[n] /\ ch[i] \notin S
      BY <1>1, <1>5, <1>6, <2>1, <2>2, BelowMore
    <3>2. Strand(n, Flat[ch[i]], In(ch[i]), Out(ch[i]))
      BY <1>2, <3>1
    <3>3. QED
      BY <2>2, <2>3, <3>2
  <2>7. Kind[c] \in Through
    BY <1>6, <1>8, <1>11, KeepOrPass
  <2>8. /\ Wire(n, In(c)) = Wire(n, In(ch[1])) /\ Wire(n, Out(ch[m])) = Wire(n, Out(c))
        /\ \A i \in DOMAIN ch : \A j \in DOMAIN ch : j = i + 1 =>
              Wire(n, Out(ch[i])) = Wire(n, In(ch[j]))
    BY <1>1, <1>6, <1>11, <2>1, <2>2, <2>7, ForwardLine
  <2>9. Strand(n, Flat[c], In(ch[1]), Out(ch[m]))
    BY <2>2, <2>4, <2>5, <2>6, <2>8, LineStrand
  <2>10. PICK s2, v, w, x, y : s2 = Flat[c] /\ v = In(ch[1]) /\ w = Out(ch[m]) /\ x = In(c) /\ y = Out(c)
    OBVIOUS
  <2>11. Strand(n, s2, x, y)
    BY <2>8, <2>9, <2>10, StrandEnds
  <2>12. QED
    BY <1>6, <2>10, <2>11
<1>12. QED
  BY <1>9, <1>10, <1>11

-----------------------------------------------------------------------------
(***************************************************************************)
(* What a call that has returned leaves                                    *)
(***************************************************************************)
\* What is given and taken at the two sides of a component, in the model's words.
LEMMA AtPort ==
    ASSUME Sound(heap), NEW c
    PROVE  /\ Gave("forward", heap, Port(c, 0)) = heap.at[Member(c, "output")]
           /\ Gave("backprop", heap, Port(c, 0)) = Gradient(c)
           /\ \A t : Took("forward", heap, Port(c, 0), t) => Given(c, "input", t)
           /\ \A t : Took("backprop", heap, Port(c, 0), t) => heap.at[Member(c, "error_input")] = t
<1>1. Port(c, 0).of = c /\ Port(c, 0).i = 0
  BY DEF Port
<1>2. \A f, v : Spot(heap, Port(c, 0), f, v) = Member(c, f)
  BY <1>1 DEF Spot
<1>3. Gave("forward", heap, Port(c, 0)) = heap.at[Member(c, "output")]
  BY <1>1, <1>2 DEF Gave, Result
<1>4. Gave("backprop", heap, Port(c, 0)) = Gradient(c)
  BY <1>1, <1>2 DEF Gave, Result, Gradient
<1>5. ASSUME NEW t, Took("forward", heap, Port(c, 0), t)
      PROVE  Given(c, "input", t)
  <2>1. PICK u : u = heap.at[Member(c, "input")]
    OBVIOUS
  <2>2. u = t \/ Wraps(heap, u, t)
    BY <1>2, <1>5, <2>1 DEF Took, Argument
  <2>3. Wraps(heap, u, t) => u # Null /\ heap.type[u] = "vector" /\ heap.at[Entry(u, 1)] = t
    BY SoundFacts DEF Wraps
  <2>4. QED
    BY <2>1, <2>2, <2>3 DEF Given
<1>6. ASSUME NEW t, Took("backprop", heap, Port(c, 0), t)
      PROVE  heap.at[Member(c, "error_input")] = t
  BY <1>2, <1>6 DEF Took, Argument
<1>7. QED
  BY <1>3, <1>4, <1>5, <1>6

\* The same at the branches of a join.
LEMMA AtBranch ==
    ASSUME NEW c, NEW i, i # 0
    PROVE  /\ Gave("forward", heap, Port(c, i)) = heap.at[Entry(heap.at[Member(c, "input_vector")], i)]
           /\ Gave("backprop", heap, Port(c, i)) =
                 heap.at[Entry(heap.at[Member(c, "error_input_vector")], i)]
           /\ \A t : Took("forward", heap, Port(c, i), t) =>
                 heap.at[Entry(heap.at[Member(c, "output_vector")], i)] = t
           /\ \A t : Took("backprop", heap, Port(c, i), t) =>
                 heap.at[Entry(heap.at[Member(c, "error_output_vector")], i)] = t
<1>1. Port(c, i).of = c /\ Port(c, i).i = i
  BY DEF Port
<1>2. \A f, v : Spot(heap, Port(c, i), f, v) = Entry(heap.at[Member(c, v)], i)
  BY <1>1 DEF Spot
<1>3. QED
  BY <1>1, <1>2 DEF Gave, Took, Shares, Returns

\* A call that has returned has passed everywhere.
LEMMA IdleFits ==
    ASSUME ReadyInv, WireInv, Idle, Ran, NEW n, n = last[2],
           NEW op \in Directions, op = "backprop" => last[1] = "backprop",
           NEW a \in Ports(n), NEW b \in Ports(n),
           Wire(n, GiveDoor(op, a)) = Wire(n, TakeDoor(op, b))
    PROVE  Took(op, heap, b, Gave(op, heap, a))
<1>1. outcome = "running" /\ call = "none"
  BY DEF Idle
<1>2. ToDo(op) = <<>>
  BY <1>1 DEF ToDo, Directions
<1>3. Fits(n, op, heap, <<>>)
  BY <1>1, <1>2 DEF WireInv, Directions
<1>4. ~Awaits(n, op, <<>>, Wire(n, TakeDoor(op, b)))
  BY DEF Awaits
<1>5. QED
  BY <1>3, <1>4 DEF Fits

LEMMA DoorsAt ==
    ASSUME NEW op, NEW c, NEW i
    PROVE  /\ GiveDoor(op, Port(c, 0)) = Exit(op, c) /\ TakeDoor(op, Port(c, 0)) = Entrance(op, c)
           /\ i # 0 => /\ GiveDoor(op, Port(c, i)) = Entrance(op, Children[c][i])
                       /\ TakeDoor(op, Port(c, i)) = Exit(op, Children[c][i])
<1>1. Port(c, i).of = c /\ Port(c, i).i = i /\ Port(c, 0).of = c /\ Port(c, 0).i = 0
  BY DEF Port
<1>2. QED
  BY <1>1 DEF GiveDoor, TakeDoor

LEMMA StrandWired ==
    ASSUME ReadyInv, WireInv, Idle, Ran, NEW n, n = last[2], n \in Components,
           NEW s, NEW x, NEW y, Strand(n, s, x, y)
    PROVE  Wired(s, last[1])
<1>1. Sound(heap)
  BY DEF ReadyInv, TokensInv
<1>2. ASSUME NEW i \in 1 .. Len(s) - 1
      PROVE  /\ Given(s[i + 1], "input", heap.at[Member(s[i], "output")])
             /\ last[1] = "backprop" =>
                   heap.at[Member(s[i], "error_input")] = Gradient(s[i + 1])
  <2>1. i \in DOMAIN s /\ i + 1 \in DOMAIN s
    <3>1. s \in Seq(Below[n])
      BY DEF Strand
    <3>2. Len(s) \in Nat /\ DOMAIN s = 1 .. Len(s)
      BY <3>1
    <3>3. QED
      BY <3>2
  <2>2. PICK c, d : c = s[i] /\ d = s[i + 1]
    OBVIOUS
  <2>3. c \in Below[n] /\ d \in Below[n] /\ Kind[c] \in Keeping /\ Kind[d] \in Keeping
    BY <2>1, <2>2 DEF Strand
  <2>4. Wire(n, Out(c)) = Wire(n, In(d))
    BY <2>1, <2>2 DEF Strand
  <2>5. Port(c, 0) \in Ports(n) /\ Port(d, 0) \in Ports(n)
    BY <2>3, PortFacts
  <2>6. Given(d, "input", heap.at[Member(c, "output")])
    <3>1. Wire(n, GiveDoor("forward", Port(c, 0))) = Wire(n, TakeDoor("forward", Port(d, 0)))
      BY <2>4, DoorsAt DEF Exit, Entrance
    <3>2. Took("forward", heap, Port(d, 0), Gave("forward", heap, Port(c, 0)))
      BY <2>5, <3>1, IdleFits DEF Directions
    <3>3. QED
      BY <1>1, <3>2, AtPort
  <2>7. ASSUME last[1] = "backprop"
        PROVE  heap.at[Member(c, "error_input")] = Gradient(d)
    <3>1. Wire(n, GiveDoor("backprop", Port(d, 0))) = Wire(n, TakeDoor("backprop", Port(c, 0)))
      BY <2>4, DoorsAt DEF Exit, Entrance
    <3>2. Took("backprop", heap, Port(c, 0), Gave("backprop", heap, Port(d, 0)))
      BY <2>5, <2>7, <3>1, IdleFits DEF Directions
    <3>3. QED
      BY <1>1, <3>2, AtPort
  <2>8. QED
    BY <2>2, <2>6, <2>7
<1>3. QED
  BY <1>2 DEF Wired

\* Branch i of the join c, when the strand s is below it.
BranchRight(c, i, s, op) ==
    LET Has(f) == heap.at[Entry(heap.at[Member(c, f)], i)] IN
    IF s = <<>>
      THEN /\ Has("output_vector") = Has("input_vector")
           /\ op = "backprop" => Has("error_output_vector") = Has("error_input_vector")
      ELSE /\ Given(s[1], "input", Has("input_vector"))
           /\ Has("output_vector") = heap.at[Member(s[Len(s)], "output")]
           /\ op = "backprop" =>
                 /\ heap.at[Member(s[Len(s)], "error_input")] = Has("error_input_vector")
                 /\ Has("error_output_vector") = Gradient(s[1])

LEMMA BranchJoined ==
    ASSUME ReadyInv, WireInv, Idle, Ran, NEW n, n = last[2], n \in Components,
           NEW c \in Below[n], Kind[c] = "join", NEW i \in DOMAIN Children[c],
           NEW d, d = Children[c][i], NEW s, Strand(n, s, In(d), Out(d))
    PROVE  BranchRight(c, i, s, last[1])
<1>1. Sound(heap)
  BY DEF ReadyInv, TokensInv
<1>2. PICK a : a = Port(c, i)
  OBVIOUS
<1>3. a \in Ports(n) /\ i # 0
  BY <1>2, PortFacts
<1>4. /\ GiveDoor("forward", a) = In(d) /\ TakeDoor("forward", a) = Out(d)
      /\ GiveDoor("backprop", a) = Out(d) /\ TakeDoor("backprop", a) = In(d)
  BY <1>2, <1>3, DoorsAt DEF Entrance, Exit
<1>5. /\ Gave("forward", heap, a) = heap.at[Entry(heap.at[Member(c, "input_vector")], i)]
      /\ Gave("backprop", heap, a) = heap.at[Entry(heap.at[Member(c, "error_input_vector")], i)]
      /\ \A t : Took("forward", heap, a, t) =>
            heap.at[Entry(heap.at[Member(c, "output_vector")], i)] = t
      /\ \A t : Took("backprop", heap, a, t) =>
            heap.at[Entry(heap.at[Member(c, "error_output_vector")], i)] = t
  BY <1>2, <1>3, AtBranch
<1>6. CASE s = <<>>
  <2>1. Wire(n, In(d)) = Wire(n, Out(d))
    BY <1>6 DEF Strand
  <2>2. Took("forward", heap, a, Gave("forward", heap, a))
    BY <1>3, <1>4, <2>1, IdleFits DEF Directions
  <2>3. last[1] = "backprop" => Took("backprop", heap, a, Gave("backprop", heap, a))
    BY <1>3, <1>4, <2>1, IdleFits DEF Directions
  <2>4. QED
    BY <1>5, <1>6, <2>2, <2>3 DEF BranchRight
<1>7. CASE s # <<>>
  <2>1. s \in Seq(Below[n]) /\ \A j \in DOMAIN s : Kind[s[j]] \in Keeping
    BY DEF Strand
  <2>2. 1 \in DOMAIN s /\ Len(s) \in DOMAIN s
    BY <1>7, <2>1
  <2>3. PICK x, y : x = s[1] /\ y = s[Len(s)]
    OBVIOUS
  <2>4. x \in Below[n] /\ y \in Below[n] /\ Kind[x] \in Keeping /\ Kind[y] \in Keeping
    BY <2>1, <2>2, <2>3
  <2>5. Wire(n, In(d)) = Wire(n, In(x)) /\ Wire(n, Out(y)) = Wire(n, Out(d))
    BY <1>7, <2>3 DEF Strand
  <2>6. PICK p, q : p = Port(x, 0) /\ q = Port(y, 0)
    OBVIOUS
  <2>7. p \in Ports(n) /\ q \in Ports(n)
    BY <2>4, <2>6, PortFacts
  <2>8. /\ TakeDoor("forward", p) = In(x) /\ GiveDoor("backprop", p) = In(x)
        /\ GiveDoor("forward", q) = Out(y) /\ TakeDoor("backprop", q) = Out(y)
    BY <2>6, DoorsAt DEF Entrance, Exit
  <2>9. /\ Gave("forward", heap, q) = heap.at[Member(y, "output")]
        /\ Gave("backprop", heap, p) = Gradient(x)
        /\ \A t : Took("forward", heap, p, t) => Given(x, "input", t)
        /\ \A t : Took("backprop", heap, q, t) => heap.at[Member(y, "error_input")] = t
    BY <1>1, <2>6, AtPort
  <2>10. Took("forward", heap, p, Gave("forward", heap, a))
    BY <1>3, <1>4, <2>5, <2>7, <2>8, IdleFits DEF Directions
  <2>11. Took("forward", heap, a, Gave("forward", heap, q))
    BY <1>3, <1>4, <2>5, <2>7, <2>8, IdleFits DEF Directions
  <2>12. ASSUME last[1] = "backprop"
         PROVE  /\ Took("backprop", heap, q, Gave("backprop", heap, a))
                /\ Took("backprop", heap, a, Gave("backprop", heap, p))
    <3>1. Took("backprop", heap, q, Gave("backprop", heap, a))
      BY <1>3, <1>4, <2>5, <2>7, <2>8, <2>12, IdleFits DEF Directions
    <3>2. Took("backprop", heap, a, Gave("backprop", heap, p))
      BY <1>3, <1>4, <2>5, <2>7, <2>8, <2>12, IdleFits DEF Directions
    <3>3. QED
      BY <3>1, <3>2
  <2>13. QED
    BY <1>5, <1>7, <2>3, <2>9, <2>10, <2>11, <2>12 DEF BranchRight
<1>8. QED
  BY <1>6, <1>7

LEMMA WiringHolds == ASSUME ReadyInv, WireInv PROVE Wiring
<1> SUFFICES ASSUME Idle, last[1] # "none", NEW c \in Below[last[2]]
             PROVE  /\ Wired(Flat[c], last[1])
                    /\ Kind[c] = "join" => Joined(c, last[1])
  BY DEF Wiring
<1>1. Ran /\ outcome = "running"
  BY DEF WireInv, Ran, Idle
<1>2. PICK n : n = last[2]
  OBVIOUS
<1>3. n \in Parts /\ n \in Components /\ c \in Below[n]
  BY <1>1, <1>2, TreeAssumption DEF WireInv
<1>4. \A d \in Below[n] : Strand(n, Flat[d], In(d), Out(d))
  BY <1>3, FlatStrand
<1>5. Wired(Flat[c], last[1])
  BY <1>1, <1>2, <1>3, <1>4, StrandWired
<1>6. ASSUME Kind[c] = "join", NEW i \in DOMAIN Children[c]
      PROVE  BranchRight(c, i, Flat[Children[c][i]], last[1])
  <2>1. PICK d : d = Children[c][i] /\ d \in Below[n]
    BY <1>3, BelowMore
  <2>2. PICK s : s = Flat[d] /\ Strand(n, s, In(d), Out(d))
    BY <1>4, <2>1
  <2>3. BranchRight(c, i, s, last[1])
    BY <1>1, <1>2, <1>3, <1>6, <2>1, <2>2, BranchJoined
  <2>4. QED
    BY <2>1, <2>2, <2>3
<1>7. ASSUME Kind[c] = "join"
      PROVE  Joined(c, last[1])
  BY <1>6, <1>7 DEF Joined, BranchRight
<1>8. QED
  BY <1>5, <1>7

(***************************************************************************)
(* After a forward each component of the network keeps as input what the   *)
(* one before it keeps as output, through stacks, joins and components     *)
(* without tokens; after a backprop, as error what the one after it        *)
(* returned: the products that update computes are of one pattern.         *)
(***************************************************************************)
THEOREM NetworksAreWired == Spec => []Wiring
<1>1. ReadyInv /\ WireInv => Wiring
  BY WiringHolds
<1>2. QED
  BY <1>1, WiresHold, PTL
=============================================================================
