---------------------------- MODULE MomentumStep ----------------------------
(***************************************************************************)
(* What a shared weight matrix promises to the components that use it.     *)
(*                                                                         *)
(* Every member hands in one gradient per training step.  The gradients    *)
(* are kept aside, the weights that the members read stay as they are, and *)
(* when the last member has handed its gradient in the weights move once,  *)
(* by the momentum rule                                                    *)
(*                                                                         *)
(*     new = decay * cur + momentum * (cur - old) + sum of the gradients   *)
(*                                                                         *)
(* where old is what the weights were before the previous step.  The       *)
(* matrix is represented by one of its entries.                            *)
(*                                                                         *)
(* SharedWeights does this with two buffers, two counters and no memory of *)
(* who has already called; it is shown to implement this module.           *)
(***************************************************************************)
EXTENDS Integers

CONSTANTS
    Conns,      \* the weight matrices
    Comps,      \* the components that use them
    Rules,      \* records [mom, decay]: how a step starts
    Caps,       \* bounds on the magnitude of an entry, 0 for no bound
    Grads,      \* the gradients a component may hand in
    Vals        \* the values weights may be loaded with

VARIABLES
    cur,        \* the weights the members read
    old,        \* the weights before the last step
    members,    \* who uses each matrix
    given,      \* the members that have handed in their gradient
    acc,        \* the sum of what they handed in
    rule        \* the rule of the step under way

vars == <<cur, old, members, given, acc, rule>>

Cap(v, m) == CASE m > 0 /\ v > m  -> m
               [] m > 0 /\ v < -m -> -m
               [] OTHER           -> v

Moved(n, r, sum) == r.decay * cur[n] + r.mom * (cur[n] - old[n]) + sum

Quiet == \A n \in Conns : given[n] = {}

Init ==
    /\ cur \in [Conns -> Vals]
    /\ old = cur
    /\ members = [n \in Conns |-> {}]
    /\ given = [n \in Conns |-> {}]
    /\ acc = [n \in Conns |-> 0]
    /\ rule \in [Conns -> Rules]

\* The rule of the step under way, or the caller's when it opens the step.
RuleFor(n, r) == IF given[n] = {} THEN r ELSE rule[n]

\* A member that is not the last one: nothing that anybody reads changes.
Give(n, c, g, r) ==
    /\ c \in members[n] \ given[n]
    /\ given[n] \cup {c} # members[n]
    /\ given' = [given EXCEPT ![n] = @ \cup {c}]
    /\ acc' = [acc EXCEPT ![n] = @ + g]
    /\ rule' = [rule EXCEPT ![n] = RuleFor(n, r)]
    /\ UNCHANGED <<cur, old, members>>

\* The last member: the weights move.
GiveLast(n, c, g, r, m) ==
    /\ c \in members[n] \ given[n]
    /\ given[n] \cup {c} = members[n]
    /\ cur' = [cur EXCEPT ![n] = Cap(Moved(n, RuleFor(n, r), acc[n] + g), m)]
    /\ old' = [old EXCEPT ![n] = cur[n]]
    /\ given' = [given EXCEPT ![n] = {}]
    /\ acc' = [acc EXCEPT ![n] = 0]
    /\ rule' = [rule EXCEPT ![n] = RuleFor(n, r)]
    /\ UNCHANGED members

\* Weights loaded from outside, between steps.
Load(n, a, b) ==
    /\ Quiet
    /\ cur' = [cur EXCEPT ![n] = a]
    /\ old' = [old EXCEPT ![n] = b]
    /\ UNCHANGED <<members, given, acc, rule>>

\* Networks are built, cloned or dropped between steps: who uses what
\* changes, but the contents of a matrix somebody uses do not.
Reconfigure ==
    /\ Quiet
    /\ members' \in [Conns -> SUBSET Comps]
    /\ \A n \in Conns : members[n] # {} => /\ cur'[n] = cur[n]
                                           /\ old'[n] = old[n]
    /\ cur' \in [Conns -> Int] /\ old' \in [Conns -> Int]
    /\ UNCHANGED <<given, acc, rule>>

Next ==
    \/ \E n \in Conns, c \in Comps, g \in Grads, r \in Rules :
          \/ Give(n, c, g, r)
          \/ \E m \in Caps : GiveLast(n, c, g, r, m)
    \/ \E n \in Conns, a, b \in Vals : Load(n, a, b)
    \/ Reconfigure

Spec == Init /\ [][Next]_vars
=============================================================================
