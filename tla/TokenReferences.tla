-------------------------- MODULE TokenReferences ---------------------------
(***************************************************************************)
(* The tokens of a network: who holds them while forward, backprop,        *)
(* update, reset, build and the destructors of the components pass them on *)
(* (ann_base/c_src/*_component.cc, tokens/c_src/token_vector.cc,           *)
(* util/c_src/referenced.h), and what a Lua script may do between calls.   *)
(*                                                                         *)
(* A place is where a pointer is kept: a Token* member of a component, an  *)
(* entry of a TokenBunchVector, or a userdata.  A call runs as the actions *)
(* of the components it reaches: that of a leaf is the whole handler, that *)
(* of a container goes on after each call of a child.  "todo" is what is   *)
(* left of the call, and "hand" the Token* argument or result on its way   *)
(* from one component to another: nobody counts it.                        *)
(*                                                                         *)
(* AssignRef(place, v) is DecRef of the old pointer, the evaluation of v,  *)
(* and IncRef of the new one.  The old pointer, which the macro leaves     *)
(* where it was until v is there, is read by nobody: the place is empty    *)
(* in between.  A token whose count reaches zero is deleted, and with it   *)
(* the references of its entries, before any other component runs.         *)
(***************************************************************************)
EXTENDS Integers, FiniteSets, SequencesExt

CONSTANTS
    Components,     \* the components of the networks, and a loss function
    Kind,           \* their classes
    Children,       \* the components vector of a container
    Networks,       \* the components that a script builds and drops
    Loss,           \* the loss function
    Parts,          \* bound: the components whose forward a script calls
    Times,          \* CopyANNComponent::times
    Tokens,         \* bound: the addresses a token may have
    Arena(_),       \* those the allocator uses for what is made for a place
    Null,           \* the null pointer
    MaxHandles,     \* bound: userdata of tokens at a time
    MaxCalls        \* bound: calls of components

Kinds == {"dot_product", "bias", "activation", "base", "copy", "join",
          "stack", "hyperplane", "loss"}

ASSUME TreeAssumption ==
    /\ Null \notin Tokens
    /\ Kind \in [Components -> Kinds]
    /\ Children \in [Components -> Seq(Components)]
    /\ Networks \subseteq Components /\ Parts \subseteq Components
    /\ Loss \in Components /\ Kind[Loss] = "loss"
    /\ Times \in Nat \ {0, 1}
    /\ MaxHandles \in Nat /\ MaxCalls \in Nat

\* The sets of components with the children of their members, and the
\* components below one: itself, its children and theirs.
Families == {S \in SUBSET Components :
                \A c \in S : \A i \in DOMAIN Children[c] : Children[c][i] \in S}
Below == [c \in Components |->
            {d \in Components : \A S \in Families : c \in S => d \in S}]

(***************************************************************************)
(* A component is not below itself: build would not end.  A join without   *)
(* children does not get past build either.                                *)
(***************************************************************************)
ASSUME NetworkAssumption ==
    /\ IsFiniteSet(Components)
    /\ \A c \in Components :
          /\ \A i \in DOMAIN Children[c] : c \notin Below[Children[c][i]]
          /\ Kind[c] = "join" => Children[c] # <<>>

(***************************************************************************)
(* build ends the program when it meets a name twice: a component has one  *)
(* place in a network.  Only the containers have children.                 *)
(***************************************************************************)
ASSUME NamesAssumption ==
    \A c \in Components :
       /\ Kind[c] \notin {"join", "stack", "hyperplane"} => Children[c] = <<>>
       /\ \A r, s \in Below[c] :
             \A i \in DOMAIN Children[r], j \in DOMAIN Children[s] :
                Children[r][i] = Children[s][j] => r = s /\ i = j

\* A loss function is no component of a network.
ASSUME LossAssumption ==
    \A c \in Components :
       /\ \A i \in DOMAIN Children[c] : Kind[Children[c][i]] # "loss"
       /\ c \in Networks \cup Parts => Kind[c] # "loss"

Members == {"input", "output", "error_input", "error_output"}
\* The vectors of a join.
Vectors == {"input_vector", "output_vector",
            "error_input_vector", "error_output_vector"}

\* The Token* members that each class has.
MembersOf(c) ==
    CASE Kind[c] \in {"dot_product", "activation", "copy"} -> Members
      [] Kind[c] = "bias" -> Members \ {"error_output"}
      [] Kind[c] = "join" -> Members \cup Vectors
      [] Kind[c] = "loss" -> {"error_output"}
      [] OTHER -> {}

Place(x, f, i) == [of |-> x, member |-> f, i |-> i]
Member(c, f) == Place(c, f, 0)
Entry(t, i) == Place(t, "entry", i)
Handles == {Place(Loss, "userdata", i) : i \in 1 .. MaxHandles}
MemberPlaces(c) == {Member(c, f) : f \in MembersOf(c)}
\* The places that are not in a token.
Roots == Handles \cup UNION {MemberPlaces(c) : c \in Components}

\* What is made for different roots, or for different entries of a vector, has
\* different addresses.
ASSUME ArenaAssumption ==
    /\ \A p \in Roots : /\ Arena(p) \subseteq Tokens
                        /\ \A q \in Roots \ {p} : Arena(p) \cap Arena(q) = {}
    /\ \A c \in Components : Kind[c] = "join" =>
          \A t \in Tokens : \A i \in DOMAIN Children[c] :
             /\ Arena(Entry(t, i)) \subseteq Tokens
             /\ \A j \in DOMAIN Children[c] \ {i} :
                   Arena(Entry(t, i)) \cap Arena(Entry(t, j)) = {}

VARIABLES
    heap,           \* the tokens and who holds them, see below
    sparse,         \* DotProductANNComponent::sparse_input
    segmented,      \* JoinANNComponent::segmented_input
    hand,           \* the pointer being passed
    todo,           \* what is left of the call
    call,           \* the call the script is in
    last,           \* its last forward or backprop: what it may call next
    calls,          \* how many it has made
    outcome         \* "running", "error" (ERROR_EXIT) or "wild" (null pointer)

flags == <<sparse, segmented>>
script == <<call, last, calls>>
vars == <<heap, flags, hand, todo, script, outcome>>

(***************************************************************************)
(* A heap h: h.at[p] is what the place p keeps, h.type[t] the code of a    *)
(* token that exists, h.refs[t] its Referenced::refs; the destructors of   *)
(* h.dying are about to run.                                               *)
(***************************************************************************)
Live(h) == DOMAIN h.type
EntriesOf(h, t) == {p \in DOMAIN h.at : p.member = "entry" /\ p.of = t}
Size(t) == Cardinality(EntriesOf(heap, t))

\* How many of the places P hold t.
Held(h, t, P) == Cardinality({p \in P : h.at[p] = t})

Here(f) == heap.at[Member(Head(todo).c, f)]
IsBlock(t) == t # Null /\ heap.type[t] = "mem"
AllBlocks(t) == \A p \in EntriesOf(heap, t) : IsBlock(heap.at[p])
-----------------------------------------------------------------------------
\* Mutant: a token is deleted while one reference is left.
ZeroEarly(n) == n <= 1

(***************************************************************************)
(* The counts (referenced.h, referenced.cc).                               *)
(***************************************************************************)
Zero(n) == n <= 0

\* f with what v says.
Updated(f, v) ==
    [x \in DOMAIN f \cup DOMAIN v |-> IF x \in DOMAIN v THEN v[x] ELSE f[x]]

\* DecRef of what the places P hold, which then hold nothing.
Release(h, P) ==
    LET left == [t \in {h.at[p] : p \in P} \ {Null} |-> h.refs[t] - Held(h, t, P)] IN
    [h EXCEPT !.at = Updated(@, [p \in P |-> Null]),
              !.refs = Updated(@, left),
              !.dying = @ \cup {t \in DOMAIN left : Zero(left[t])}]

\* Mutant: a copy or a loop that stores pointers without IncRef.
BindUncounted(h, v) == [h EXCEPT !.at = Updated(@, v)]

\* Places that hold nothing take what v says: p = v[p]; IncRef(v[p]).
Bind(h, v) ==
    LET more == [t \in {v[p] : p \in DOMAIN v} \ {Null} |->
                    h.refs[t] + Cardinality({p \in DOMAIN v : v[p] = t})] IN
    [h EXCEPT !.at = Updated(@, v), !.refs = Updated(@, more)]

\* AssignRef(p, v[p])
AssignAll(h, v) == Bind(Release(h, DOMAIN v), v)
Assign(h, p, t) == AssignAll(h, [q \in {p} |-> t])

Free(h, p) == Arena(p) \ Live(h)
Fresh(h, p) == CHOOSE t \in Free(h, p) : TRUE
Room(P) == \A p \in P : Free(heap, p) # {}

\* Places p of P, which hold nothing, take new tokens of type k whose n[p]
\* entries hold u.
New(h, P, k, n, u) ==
    LET new == [p \in P |-> Fresh(h, p)]
        made == {new[p] : p \in P}
        own == UNION {{Entry(new[p], i) : i \in 1 .. n[p]} : p \in P}
        born == [h EXCEPT !.at = Updated(@, [p \in own |-> Null]),
                          !.type = Updated(@, [t \in made |-> k]),
                          !.refs = Updated(@, [t \in made |-> 0])] IN
    Bind(born, Updated(new, [p \in own |-> u]))

\* AssignRef(p, new TokenMemoryBlock(...)) and the like.
AssignNew(h, P, k, n, u) == New(Release(h, P), P, k, [p \in P |-> n], u)
MakeBlock(h, p) == AssignNew(h, {p}, "mem", 0, Null)

\* Mutant: the destructor of a vector forgets its entries.
SweepShallow(h) ==
    LET own == UNION {EntriesOf(h, t) : t \in h.dying} IN
    [at |-> Restrict(h.at, DOMAIN h.at \ own),
     type |-> Restrict(h.type, Live(h) \ h.dying),
     refs |-> Restrict(h.refs, Live(h) \ h.dying),
     dying |-> {}]

\* The destructors: that of a vector drops the references of its entries.
Sweep(h) ==
    LET own == UNION {EntriesOf(h, t) : t \in h.dying}
        r == Release(h, own) IN
    [at |-> Restrict(r.at, DOMAIN r.at \ own),
     type |-> Restrict(r.type, Live(h) \ h.dying),
     refs |-> Restrict(r.refs, Live(h) \ h.dying),
     dying |-> r.dying \ h.dying]
-----------------------------------------------------------------------------
(***************************************************************************)
(* What is left to do: the call op of the component c, or, when it is a    *)
(* container, what op is after its child i has returned.                   *)
(***************************************************************************)
Do(op, c, i) == <<[op |-> op, c |-> c, i |-> i]>>

\* The calls op of the children of c, in the order given.
Each(op, s) == [i \in DOMAIN s |-> [op |-> op, c |-> s[i], i |-> 0]]

\* A loop of a join over its children.
Loop(op, c, i) == IF i <= Len(Children[c]) THEN Do(op, c, i) ELSE <<>>

Me == Head(todo).c
I == Head(todo).i
Mine(f) == Member(Me, f)
MyEntries(f) == EntriesOf(heap, Here(f))
MyEntry(f) == Entry(Here(f), I)

\* The next thing to do is op, of a component of a class of K.
Now(op, K) ==
    /\ outcome = "running" /\ heap.dying = {}
    /\ todo # <<>> /\ Head(todo).op = op /\ Kind[Me] \in K

Continue(steps) == todo' = steps \o Tail(todo)

\* The handler leaves the heap h, and t is passed on.
Passes(h, t) ==
    /\ heap' = h
    /\ hand' = t
    /\ UNCHANGED <<script, outcome>>

Stops(how) ==
    /\ outcome' = how
    /\ UNCHANGED <<heap, flags, hand, todo, script>>

-----------------------------------------------------------------------------
\* The networks after their constructors; build has not run.
Init ==
    /\ heap = [at |-> [p \in Roots |-> Null],
               type |-> <<>>, refs |-> <<>>, dying |-> {}]
    /\ sparse = [c \in Components |-> FALSE]
    /\ segmented = [c \in Components |-> FALSE]
    /\ hand = Null /\ todo = <<>>
    /\ call = "none" /\ last = <<"none", Loss>> /\ calls = 0
    /\ outcome = "running"

Delete ==
    /\ heap.dying # {}
    /\ heap' = Sweep(heap)
    /\ UNCHANGED <<flags, hand, todo, script, outcome>>
-----------------------------------------------------------------------------
(***************************************************************************)
(* doForward                                                               *)
(***************************************************************************)
ForwardAccepts(t) ==
    CASE Kind[Me] \in {"bias", "activation"} -> IsBlock(t)
      [] Kind[Me] = "dot_product" ->
            /\ t # Null
            /\ heap.type[t] = "vector" =>
                  \A p \in EntriesOf(heap, t) : heap.type[heap.at[p]] = "sparse"
      [] Kind[Me] = "join" ->
            /\ t # Null /\ heap.type[t] # "sparse"
            /\ heap.type[t] = "vector" => Size(t) = Len(Children[Me])
      [] OTHER -> TRUE

\* A sparse token is wrapped in a vector of one pattern.
ForwardDotProduct ==
    /\ Now("forward", {"dot_product"}) /\ ForwardAccepts(hand)
    /\ Room({Mine("input"), Mine("output")})
    /\ LET h == MakeBlock(IF heap.type[hand] = "sparse"
                             THEN AssignNew(heap, {Mine("input")}, "vector", 1, hand)
                             ELSE Assign(heap, Mine("input"), hand),
                          Mine("output")) IN
       Passes(h, h.at[Mine("output")])
    /\ sparse' = [sparse EXCEPT ![Me] = heap.type[hand] # "mem"]
    /\ Continue(<<>>)
    /\ UNCHANGED segmented

\* The bias and the activation functions.
ForwardBlock ==
    /\ Now("forward", {"bias", "activation"}) /\ ForwardAccepts(hand)
    /\ Room({Mine("output")})
    /\ LET h == MakeBlock(Assign(heap, Mine("input"), hand), Mine("output")) IN
       Passes(h, h.at[Mine("output")])
    /\ Continue(<<>>)
    /\ UNCHANGED flags

\* A vector of the input, repeated.
ForwardCopy ==
    /\ Now("forward", {"copy"})
    /\ Room({Mine("output")})
    /\ LET h == AssignNew(Assign(heap, Mine("input"), hand),
                          {Mine("output")}, "vector", Times, hand) IN
       Passes(h, h.at[Mine("output")])
    /\ Continue(<<>>)
    /\ UNCHANGED flags

\* Each component gets what the one before it returns; the class
\* ANNComponent returns its argument.
ForwardThrough ==
    /\ Now("forward", {"stack", "hyperplane", "base"})
    /\ Continue(Each("forward", Children[Me]))
    /\ UNCHANGED <<heap, flags, hand, script, outcome>>

\* The input and JoinANNComponent::buildInputBunchVector.
ForwardJoin ==
    /\ Now("forward", {"join"}) /\ ForwardAccepts(hand)
    /\ LET whole == Assign(heap, Mine("input"), hand)
           P == MyEntries("input_vector") IN
       IF heap.type[hand] = "vector"
         THEN /\ segmented' = [segmented EXCEPT ![Me] = TRUE]
              /\ heap' = AssignAll(whole,
                            [p \in P |-> heap.at[Entry(hand, p.i)]])
         ELSE /\ Room(P)
              /\ segmented' = [segmented EXCEPT ![Me] = FALSE]
              /\ heap' = AssignNew(whole, P, "mem", 0, Null)
    /\ Continue(Do("forward_child", Me, 1))
    /\ UNCHANGED <<sparse, hand, script, outcome>>
-----------------------------------------------------------------------------
(***************************************************************************)
(* The loops of a join: AssignRef(to[i], components[i]->op(from[i]))       *)
(***************************************************************************)
CallChild(loop, op, from, to, keep) ==
    /\ Now(loop, {"join"})
    /\ Passes(Release(heap, {MyEntry(to)}), heap.at[MyEntry(from)])
    /\ Continue(Do(op, Children[Me][I], 0) \o Do(keep, Me, I))
    /\ UNCHANGED flags

KeepResult(keep, to, loop, end) ==
    /\ Now(keep, {"join"}) /\ hand # Null
    /\ heap' = Bind(heap, [p \in {MyEntry(to)} |-> hand])
    /\ Continue(Do(IF I < Len(Children[Me]) THEN loop ELSE end, Me,
                   IF I < Len(Children[Me]) THEN I + 1 ELSE 0))
    /\ UNCHANGED <<flags, hand, script, outcome>>

ForwardChild == CallChild("forward_child", "forward",
                          "input_vector", "output_vector", "forwarded")
KeepOutput == KeepResult("forwarded", "output_vector",
                         "forward_child", "end_forward")
BackpropChild == CallChild("backprop_child", "backprop", "error_input_vector",
                           "error_output_vector", "backpropped")
KeepGradient == KeepResult("backpropped", "error_output_vector",
                           "backprop_child", "end_backprop")

\* IncRef of a null pointer is a call through it: a join cannot take what a dot
\* product returns for the gradient of a sparse input.
KeepNull ==
    /\ Now("forwarded", {"join"}) \/ Now("backpropped", {"join"})
    /\ hand = Null
    /\ Stops("wild")

\* JoinANNComponent::buildMemoryBlockToken
Concat(f) ==
    /\ Room({Mine(f)})
    /\ LET h == MakeBlock(heap, Mine(f)) IN Passes(h, h.at[Mine(f)])

EndForwardJoin ==
    /\ Now("end_forward", {"join"}) /\ AllBlocks(Here("output_vector"))
    /\ Concat("output")
    /\ Continue(<<>>)
    /\ UNCHANGED flags

\* The gradients of a segmented input go back as they are.
EndBackpropSegmented ==
    /\ Now("end_backprop", {"join"}) /\ segmented[Me]
    /\ LET v == Here("error_output_vector") IN
       Passes(Assign(heap, Mine("error_output"), v), v)
    /\ Continue(<<>>)
    /\ UNCHANGED flags

EndBackpropJoin ==
    /\ Now("end_backprop", {"join"}) /\ ~segmented[Me]
    /\ AllBlocks(Here("error_output_vector"))
    /\ Concat("error_output")
    /\ Continue(<<>>)
    /\ UNCHANGED flags
-----------------------------------------------------------------------------
(***************************************************************************)
(* doBackprop                                                              *)
(***************************************************************************)
BackpropAccepts(t) ==
    CASE Kind[Me] \in {"dot_product", "activation", "bias"} -> IsBlock(t)
      [] Kind[Me] = "copy" ->
            t # Null => heap.type[t] = "vector" /\ Size(t) = Times /\ AllBlocks(t)
      [] Kind[Me] = "join" -> t # Null => IsBlock(t)
      [] OTHER -> TRUE

\* The bias keeps the error and passes it by.
BackpropBias ==
    /\ Now("backprop", {"bias"}) /\ BackpropAccepts(hand)
    /\ heap' = Assign(heap, Mine("error_input"), hand)
    /\ Continue(<<>>)
    /\ UNCHANGED <<flags, hand, script, outcome>>

\* Mutant: the error is dropped with the gradient.
BackpropSparseLost ==
    /\ Now("backprop", {"dot_product"}) /\ BackpropAccepts(hand) /\ sparse[Me]
    /\ Passes(Release(Assign(heap, Mine("error_input"), hand),
                      {Mine("error_input"), Mine("error_output")}), Null)
    /\ Continue(<<>>)
    /\ UNCHANGED flags

\* A sparse input has no gradient.
BackpropSparse ==
    /\ Now("backprop", {"dot_product"}) /\ BackpropAccepts(hand) /\ sparse[Me]
    /\ Passes(Release(Assign(heap, Mine("error_input"), hand),
                      {Mine("error_output")}), Null)
    /\ Continue(<<>>)
    /\ UNCHANGED flags

\* Nor has what comes after it, for a copy or a join.
BackpropNull ==
    /\ Now("backprop", {"copy", "join"}) /\ hand = Null
    /\ heap' = Release(heap, {Mine("error_input"), Mine("error_output")})
    /\ Continue(<<>>)
    /\ UNCHANGED <<flags, hand, script, outcome>>

\* Mutant: only the first error of a network is kept.
BackpropBlockOnce ==
    /\ Now("backprop", {"dot_product", "activation", "copy"})
    /\ ~sparse[Me] /\ hand # Null /\ BackpropAccepts(hand)
    /\ Room({Mine("error_output")})
    /\ LET h == MakeBlock(IF Here("error_input") = Null
                             THEN Assign(heap, Mine("error_input"), hand)
                             ELSE heap,
                          Mine("error_output")) IN
       Passes(h, h.at[Mine("error_output")])
    /\ Continue(<<>>)
    /\ UNCHANGED flags

\* A gradient is made; that of a copy is the sum of the vector's.
BackpropBlock ==
    /\ Now("backprop", {"dot_product", "activation", "copy"})
    /\ ~sparse[Me] /\ hand # Null /\ BackpropAccepts(hand)
    /\ Room({Mine("error_output")})
    /\ LET h == MakeBlock(Assign(heap, Mine("error_input"), hand),
                          Mine("error_output")) IN
       Passes(h, h.at[Mine("error_output")])
    /\ Continue(<<>>)
    /\ UNCHANGED flags

BackpropThrough ==
    /\ Now("backprop", {"stack", "hyperplane", "base"})
    /\ Continue(Each("backprop", Reverse(Children[Me])))
    /\ UNCHANGED <<heap, flags, hand, script, outcome>>

\* The error and JoinANNComponent::buildErrorInputBunchVector.
BackpropJoin ==
    /\ Now("backprop", {"join"}) /\ hand # Null /\ BackpropAccepts(hand)
    /\ Room(MyEntries("error_input_vector"))
    /\ heap' = AssignNew(Assign(heap, Mine("error_input"), hand),
                         MyEntries("error_input_vector"), "mem", 0, Null)
    /\ Continue(Do("backprop_child", Me, 1))
    /\ UNCHANGED <<flags, hand, script, outcome>>

\* ERROR_EXIT: a token of a type that the handler does not expect.
Fail ==
    /\ \/ Now("forward", Kinds) /\ ~ForwardAccepts(hand)
       \/ Now("backprop", Kinds) /\ ~BackpropAccepts(hand)
       \/ Now("end_forward", Kinds) /\ ~AllBlocks(Here("output_vector"))
       \/ /\ Now("end_backprop", Kinds) /\ ~segmented[Me]
          /\ ~AllBlocks(Here("error_output_vector"))
    /\ Stops("error")
-----------------------------------------------------------------------------
(***************************************************************************)
(* build, update, reset and the destructors visit the components below     *)
(* one.  They pass no token on, so that the order does not matter here.    *)
(***************************************************************************)
BelowMe(M) == UNION {{Member(c, f) : f \in MembersOf(c) \cap M} : c \in Below[Me]}

\* New vectors for the joins.
DoBuild ==
    /\ Now("build", Kinds)
    /\ Room(BelowMe(Vectors))
    /\ heap' = New(Release(heap, BelowMe(Vectors)), BelowMe(Vectors), "vector",
                   [p \in BelowMe(Vectors) |-> Len(Children[p.of])], Null)
    /\ Continue(<<>>)
    /\ UNCHANGED <<flags, hand, script, outcome>>

\* doUpdate reads what the leaves with weights have kept.
UpdateReads(c) ==
    CASE Kind[c] = "dot_product" -> {Member(c, "input"), Member(c, "error_input")}
      [] Kind[c] = "bias" -> {Member(c, "error_input")}
      [] OTHER -> {}

DoUpdate ==
    /\ Now("update", Kinds)
    /\ IF \A c \in Below[Me] : \A p \in UpdateReads(c) : heap.at[p] # Null
          THEN /\ Continue(<<>>)
               /\ UNCHANGED <<heap, flags, hand, script, outcome>>
          ELSE Stops("wild")

\* reset leaves the vectors of a join, and what they hold; the destructor
\* leaves nothing.
DoRelease(op, M) ==
    /\ Now(op, Kinds)
    /\ heap' = Release(heap, BelowMe(M))
    /\ Continue(<<>>)
    /\ UNCHANGED <<flags, hand, script, outcome>>

DoReset == DoRelease("reset", Members)
DoDestroy == DoRelease("destroy", Members \cup Vectors)
-----------------------------------------------------------------------------
(***************************************************************************)
(* A script.  The interpreter has one thread and the components do not     *)
(* call it back, so that it acts between calls.  A userdata counts as one  *)
(* reference (binding/bind_templates/luabind_template.cc).                 *)
(***************************************************************************)
Idle == outcome = "running" /\ call = "none" /\ heap.dying = {}

Unused == {p \in Handles : heap.at[p] = Null}
Own == {heap.at[p] : p \in Handles \ Unused}
NewHandle == CHOOSE p \in Unused : TRUE

\* A network that has not been built has no vectors.
Built == \A c \in Components : \A f \in MembersOf(c) \cap Vectors :
            heap.at[Member(c, f)] # Null

\* A script that has calls to make and room for what they return.
Ready == Idle /\ calls < MaxCalls /\ Unused # {}

\* tokens.memblock and tokens.vector.sparse.  Bound: a script has dropped its
\* other tokens when it makes one.
LuaNew(k) ==
    /\ Ready /\ Built /\ Own = {} /\ Room({NewHandle})
    /\ heap' = AssignNew(heap, {NewHandle}, k, 0, Null)
    /\ UNCHANGED <<flags, hand, todo, script, outcome>>

\* The collector finalizes a userdata.
Collect(p) ==
    /\ Idle /\ heap.at[p] # Null
    /\ heap' = Release(heap, {p})
    /\ UNCHANGED <<flags, hand, todo, script, outcome>>

Enter(op, c, argument, next) ==
    /\ Ready
    /\ call' = op
    /\ todo' = Do(op, c, 0)
    /\ hand' = argument
    /\ last' = next
    /\ calls' = calls + 1
    /\ UNCHANGED <<heap, flags, outcome>>

LuaForward(c, t) == Built /\ Enter("forward", c, t, <<"forward", c>>)

LuaBackprop(c, t) ==
    /\ last \in {<<"forward", c>>, <<"backprop", c>>}
    /\ Enter("backprop", c, t, <<"backprop", c>>)

LuaUpdate(c) ==
    /\ last = <<"backprop", c>>
    /\ Enter("update", c, Null, last)

LuaReset(c) == Built /\ Enter("reset", c, Null, <<"none", Loss>>)

\* A network may be built again.
LuaBuild(c) == Enter("build", c, Null, <<"none", Loss>>)

\* The last reference to the network goes; what is built next is a new one.
LuaDestroy(c) == Built /\ Enter("destroy", c, Null, <<"none", Loss>>)

\* LossFunction::computeGradient of an output, and reset.
LuaGradient(t) ==
    /\ IsBlock(t) /\ last[1] = "forward"
    /\ Enter("gradient", Loss, t, last)

DoGradient ==
    /\ Now("gradient", {"loss"})
    /\ Room({Mine("error_output")})
    /\ Concat("error_output")
    /\ Continue(<<>>)
    /\ UNCHANGED flags

LuaLossReset ==
    /\ heap.at[Member(Loss, "error_output")] # Null
    /\ Enter("reset", Loss, Null, last)

\* What a call returns is pushed as a userdata, or as nil.
LuaReturn ==
    /\ outcome = "running" /\ call # "none" /\ heap.dying = {} /\ todo = <<>>
    /\ IF call \in {"forward", "backprop", "gradient"} /\ hand # Null
          THEN heap' = Assign(heap, NewHandle, hand)
          ELSE UNCHANGED heap
    /\ call' = "none"
    /\ hand' = Null
    /\ UNCHANGED <<flags, last, calls, todo, outcome>>

\* The program has exited, or the script has made its calls.
Exited ==
    /\ outcome # "running" \/ (Idle /\ calls = MaxCalls /\ Own = {})
    /\ UNCHANGED vars

Component ==
    \/ ForwardDotProduct \/ ForwardBlock \/ ForwardCopy \/ ForwardThrough
    \/ ForwardJoin \/ ForwardChild \/ KeepOutput \/ EndForwardJoin
    \/ BackpropBias \/ BackpropSparse \/ BackpropNull \/ BackpropBlock
    \/ BackpropThrough \/ BackpropJoin \/ BackpropChild \/ KeepGradient
    \/ EndBackpropSegmented \/ EndBackpropJoin \/ KeepNull \/ Fail
    \/ DoBuild \/ DoUpdate \/ DoReset \/ DoDestroy \/ DoGradient

Script ==
    \/ \E k \in {"mem", "sparse"} : LuaNew(k)
    \/ \E t \in Own : LuaGradient(t)
    \/ \E p \in Handles : Collect(p)
    \/ \E c \in Parts : \/ \E t \in Own : LuaForward(c, t) \/ LuaBackprop(c, t)
                        \/ LuaUpdate(c) \/ LuaReset(c)
    \/ \E c \in Networks : LuaBuild(c) \/ LuaDestroy(c)
    \/ LuaLossReset \/ LuaReturn

Next == Component \/ Delete \/ Script \/ Exited

Spec == Init /\ [][Next]_vars
-----------------------------------------------------------------------------
\* What the places hold.
Kept == {heap.at[p] : p \in DOMAIN heap.at} \ {Null}

TypeOK ==
    /\ Live(heap) \subseteq Tokens /\ DOMAIN heap.refs = Live(heap)
    /\ heap.dying \subseteq Live(heap)
    /\ Kept \subseteq Tokens
    /\ \A t \in Live(heap) : /\ heap.refs[t] \in Int
                             /\ heap.type[t] \in {"mem", "sparse", "vector"}
    /\ hand \in Tokens \cup {Null}
    /\ outcome \in {"running", "error", "wild"}

(***************************************************************************)
(* After every step of a call, only living tokens are counted or being     *)
(* deleted, and the count of each is the number of members, entries and    *)
(* userdata that hold it.                                                  *)
(***************************************************************************)
CountsExact ==
    /\ TypeOK
    /\ \A t \in Live(heap) :
          heap.refs[t] = Cardinality({p \in DOMAIN heap.at : heap.at[p] = t})

(***************************************************************************)
(* Nothing holds a token that is deleted or about to be, and neither does  *)
(* the argument or result on its way, which nobody counts: a component     *)
(* gives up its old token before it takes the new one.                     *)
(***************************************************************************)
NoDangling ==
    /\ Kept \subseteq Live(heap) \ heap.dying
    /\ outcome = "running" => hand \in (Live(heap) \ heap.dying) \cup {Null}

(***************************************************************************)
(* Between calls every token is held: what a call makes for itself and     *)
(* does not pass on is gone when it returns.                               *)
(***************************************************************************)
NoLeak == Idle => Live(heap) \subseteq Kept

(***************************************************************************)
(* The components with members below c, in the order of a forward.         *)
(***************************************************************************)
Flat[c \in Components] ==
    CASE MembersOf(c) # {} -> <<c>>
      [] MembersOf(c) = {} /\ Children[c] = <<>> -> <<>>
      [] OTHER -> FlattenSeq([i \in DOMAIN Children[c] |-> Flat[Children[c][i]]])

\* c was called with t; a sparse token is wrapped in a vector.
Given(c, f, t) ==
    LET u == heap.at[Member(c, f)] IN
    u = t \/ (u # Null /\ heap.type[u] = "vector" /\ heap.at[Entry(u, 1)] = t)

\* What c returned by doBackprop.
Gradient(c) ==
    heap.at[Member(c, IF Kind[c] = "bias" THEN "error_input" ELSE "error_output")]

\* Each of the components s got what the one before it returned.
Wired(s, op) ==
    \A i \in 1 .. Len(s) - 1 :
        /\ Given(s[i + 1], "input", heap.at[Member(s[i], "output")])
        /\ op = "backprop" => heap.at[Member(s[i], "error_input")] = Gradient(s[i + 1])

\* Each branch of the join c got its entries and left its results.
Joined(c, op) ==
    LET Has(f, i) == heap.at[Entry(heap.at[Member(c, f)], i)] IN
    \A i \in DOMAIN Children[c] :
        LET s == Flat[Children[c][i]] IN
        IF s = <<>>
          THEN /\ Has("output_vector", i) = Has("input_vector", i)
               /\ op = "backprop" =>
                    Has("error_output_vector", i) = Has("error_input_vector", i)
          ELSE /\ Given(s[1], "input", Has("input_vector", i))
               /\ Has("output_vector", i) = heap.at[Member(s[Len(s)], "output")]
               /\ op = "backprop" =>
                    /\ heap.at[Member(s[Len(s)], "error_input")] =
                          Has("error_input_vector", i)
                    /\ Has("error_output_vector", i) = Gradient(s[1])

(***************************************************************************)
(* After a forward each component keeps as input what the one before it    *)
(* keeps as output, through every container; after a backprop it keeps as  *)
(* error what the one after it returned, and both are of the same pattern: *)
(* the gradient of the weights that update computes is the right product.  *)
(***************************************************************************)
Wiring ==
    Idle /\ last[1] # "none" =>
        \A c \in Below[last[2]] :
            /\ Wired(Flat[c], last[1])
            /\ Kind[c] = "join" => Joined(c, last[1])

(***************************************************************************)
(* Whatever a script drops, resets or calls on parts of a network, update  *)
(* finds in every component the input and the error of the last backprop.  *)
(***************************************************************************)
UpdateReady ==
    Idle /\ last[1] = "backprop" =>
        \A c \in Below[last[2]] : \A p \in UpdateReads(c) : heap.at[p] \in Live(heap)
=============================================================================
