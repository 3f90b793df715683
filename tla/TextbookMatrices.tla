-------------------------- MODULE TextbookMatrices --------------------------
(***************************************************************************)
(* What a script expects of matrices: a matrix shows values at             *)
(* coordinates, a slice shows the values of the matrix it was taken from,  *)
(* every other new matrix shows values of its own, and the operations are  *)
(* those of a book of linear algebra.  There are no strides, offsets or    *)
(* orders of traversal here; the major order is only what get_major_order  *)
(* answers and what the operands of an operation have to share.            *)
(*                                                                         *)
(* Matrices implements this module.                                        *)
(***************************************************************************)
EXTENDS Integers, Sequences, FiniteSetsExt

VARIABLES
    shown,      \* the matrices: size, major order, and the cell at each coordinates
    value,      \* the value of each cell
    call        \* the call just made, a record with its arguments

vars == <<shown, value, call>>

\* Coordinates start at 0.
Coordinates(size) ==
    {c \in [DOMAIN size -> 0..(Max({size[i] : i \in DOMAIN size}) - 1)] :
        \A i \in DOMAIN size : c[i] < size[i]}

Val(h, c) == value[shown[h].at[c]]

Flipped(s) == [i \in DOMAIN s |-> s[Len(s) + 1 - i]]

Shifted(c, from) == [i \in DOMAIN c |-> c[i] + from[i]]

\* A vector is a matrix of one dimension, or of one row or one column.
IsVector(h) ==
    \/ Len(shown[h].size) = 1
    \/ Len(shown[h].size) = 2 /\ 1 \in {shown[h].size[1], shown[h].size[2]}

IsColumn(h) == Len(shown[h].size) = 2 /\ shown[h].size[2] = 1

Length(h) == Max({shown[h].size[i] : i \in DOMAIN shown[h].size})

\* Entry i (from 0) of a vector.
Entry(h, i) ==
    Val(h, IF Len(shown[h].size) = 1 THEN <<i>>
           ELSE IF IsColumn(h) THEN <<i, 0>> ELSE <<0, i>>)

\* Entry of a matrix or of its transpose.
EntryOf(h, transposed, i, j) == Val(h, IF transposed THEN <<j, i>> ELSE <<i, j>>)

Side(h, transposed, i) == shown[h].size[IF transposed THEN 3 - i ELSE i]

SameOrder(hs) == \A g, h \in hs : shown[g].order = shown[h].order

InnerProduct(n, x, y) == MapThenSumSet(LAMBDA k : x[k] * y[k], 0..(n - 1))
-----------------------------------------------------------------------------
(***************************************************************************)
(* The three kinds of effect: a new view of cells there are, a new matrix  *)
(* over cells of its own, and new values for what a matrix shows.          *)
(***************************************************************************)
Views(size, order, at) ==
    /\ shown' = Append(shown, [size |-> size, order |-> order, at |-> at])
    /\ UNCHANGED value

Makes(size, order, values) ==
    LET new == shown'[Len(shown')]
        own == {new.at[c] : c \in Coordinates(size)}
    IN
    /\ shown' = Append(shown, new)
    /\ new.size = size /\ new.order = order /\ DOMAIN new.at = Coordinates(size)
    /\ Cardinality(own) = Cardinality(Coordinates(size))
    /\ own \cap DOMAIN value = {}
    /\ DOMAIN value' = DOMAIN value \cup own
    /\ \A cell \in DOMAIN value : value'[cell] = value[cell]
    /\ \A c \in Coordinates(size) : value'[new.at[c]] = values[c]

Sets(h, values) ==
    /\ UNCHANGED shown
    /\ DOMAIN value' = DOMAIN value
    /\ \A c \in Coordinates(shown[h].size) : value'[shown[h].at[c]] = values[c]
    /\ \A cell \in DOMAIN value \ {shown[h].at[c] : c \in Coordinates(shown[h].size)} :
          value'[cell] = value[cell]
-----------------------------------------------------------------------------
Slice(c) ==
    LET m    == shown[c.of]
        from == [x \in Coordinates(c.size) |-> Shifted(x, c.from)]
    IN IF c.clone
       THEN Makes(c.size, m.order, [x \in Coordinates(c.size) |-> Val(c.of, from[x])])
       ELSE Views(c.size, m.order, [x \in Coordinates(c.size) |-> m.at[from[x]]])

Clone(c) ==
    LET m == shown[c.of]
    IN Makes(m.size, c.order, [x \in Coordinates(m.size) |-> Val(c.of, x)])

Transpose(c) ==
    LET m == shown[c.of]
    IN Makes(Flipped(m.size), m.order,
             [x \in Coordinates(Flipped(m.size)) |-> Val(c.of, Flipped(x))])

Addition(c) ==
    LET m == shown[c.of] IN
    /\ shown[c.other].size = m.size
    /\ Makes(m.size, m.order,
             [x \in Coordinates(m.size) |-> Val(c.of, x) + c.alpha * Val(c.other, x)])

\* A column by a vector is the outer product, a row by a vector the inner one.
Multiply(c) ==
    LET m == shown[c.of]
        o == shown[c.other]
        row(i)    == [k \in 0..(m.size[2] - 1) |-> Val(c.of, <<i, k>>)]
        column(j) == [k \in 0..(m.size[2] - 1) |-> Val(c.other, <<k, j>>)]
        entries(h) == [k \in 0..(Length(h) - 1) |-> Entry(h, k)]
    IN
    /\ SameOrder({c.of, c.other})
    /\ CASE IsVector(c.other) /\ IsColumn(c.of) ->
              Makes(<<Length(c.of), Length(c.other)>>, m.order,
                    [x \in Coordinates(<<Length(c.of), Length(c.other)>>) |->
                        Entry(c.of, x[1]) * Entry(c.other, x[2])])
         [] IsVector(c.other) /\ ~IsVector(c.of) ->
              LET size == IF Len(o.size) = 1 THEN <<m.size[1]>> ELSE <<m.size[1], 1>> IN
              /\ m.size[2] = Length(c.other)
              /\ Makes(size, m.order, [x \in Coordinates(size) |->
                    InnerProduct(m.size[2], row(x[1]), entries(c.other))])
         [] IsVector(c.other) /\ IsVector(c.of) /\ ~IsColumn(c.of) ->
              /\ Length(c.of) = Length(c.other)
              /\ Makes(<<1>>, m.order, [x \in Coordinates(<<1>>) |->
                    InnerProduct(Length(c.of), entries(c.of), entries(c.other))])
         [] OTHER ->
              /\ m.size[2] = o.size[1]
              /\ Makes(<<m.size[1], o.size[2]>>, m.order,
                    [x \in Coordinates(<<m.size[1], o.size[2]>>) |->
                        InnerProduct(m.size[2], row(x[1]), column(x[2]))])

SetElement(c) ==
    Sets(c.of, [x \in Coordinates(shown[c.of].size) |->
                   IF x = c.at THEN c.value ELSE Val(c.of, x)])

Fill(c) == Sets(c.of, [x \in Coordinates(shown[c.of].size) |-> c.value])

\* The table lists the values in row-major order: the place of coordinates in
\* it is the number of coordinates that come before.
Before(x, y) ==
    \E i \in DOMAIN x : x[i] < y[i] /\ \A j \in 1..(i - 1) : x[j] = y[j]

Place(all, y) == Cardinality({x \in all : Before(x, y)}) + 1

CopyFromTable(c) ==
    LET all == Coordinates(shown[c.of].size) IN
    /\ Len(c.table) = Cardinality(all)
    /\ Sets(c.of, [x \in all |-> c.table[Place(all, x)]])

Diag(c) ==
    LET size == shown[c.of].size IN
    /\ \A i, j \in DOMAIN size : size[i] = size[j]
    /\ Sets(c.of, [x \in Coordinates(size) |->
                      IF \A i, j \in DOMAIN x : x[i] = x[j] THEN c.value ELSE Val(c.of, x)])

Clamp(c) ==
    Sets(c.of, [x \in Coordinates(shown[c.of].size) |->
                   Max({c.lower, Min({c.upper, Val(c.of, x)})})])

Scal(c) == Sets(c.of, [x \in Coordinates(shown[c.of].size) |-> c.value * Val(c.of, x)])

Axpy(c) ==
    /\ shown[c.of].size = shown[c.other].size
    /\ SameOrder({c.of, c.other})
    /\ Sets(c.of, [x \in Coordinates(shown[c.of].size) |->
                      Val(c.of, x) + c.alpha * Val(c.other, x)])

Gemm(c) ==
    LET n == Side(c.A, c.transA, 2)
        row(i)    == [k \in 0..(n - 1) |-> EntryOf(c.A, c.transA, i, k)]
        column(j) == [k \in 0..(n - 1) |-> EntryOf(c.B, c.transB, k, j)]
    IN
    /\ shown[c.of].size = <<Side(c.A, c.transA, 1), Side(c.B, c.transB, 2)>>
    /\ n = Side(c.B, c.transB, 1)
    /\ SameOrder({c.of, c.A, c.B})
    /\ Sets(c.of, [x \in Coordinates(shown[c.of].size) |->
          c.alpha * InnerProduct(n, row(x[1]), column(x[2])) + c.beta * Val(c.of, x)])

\* The coordinate of a vector's entry.
Index(h, x) == IF IsColumn(h) THEN x[1] ELSE x[Len(x)]

Gemv(c) ==
    LET n == Side(c.A, c.transA, 2) IN
    /\ IsVector(c.of) /\ IsVector(c.X)
    /\ Length(c.of) = Side(c.A, c.transA, 1) /\ n = Length(c.X)
    /\ SameOrder({c.of, c.A, c.X})
    /\ Sets(c.of, [x \in Coordinates(shown[c.of].size) |->
          c.alpha * InnerProduct(n, [k \in 0..(n - 1) |->
                                        EntryOf(c.A, c.transA, Index(c.of, x), k)],
                                    [k \in 0..(n - 1) |-> Entry(c.X, k)])
          + c.beta * Val(c.of, x)])

Ger(c) ==
    /\ IsVector(c.X) /\ IsVector(c.Y)
    /\ shown[c.of].size = <<Length(c.X), Length(c.Y)>>
    /\ SameOrder({c.of, c.X, c.Y})
    /\ Sets(c.of, [x \in Coordinates(shown[c.of].size) |->
          Val(c.of, x) + c.alpha * Entry(c.X, x[1]) * Entry(c.Y, x[2])])
-----------------------------------------------------------------------------
Effect(c) ==
    \/ c.op = "slice" /\ Slice(c)
    \/ c.op \in {"clone", "reload"} /\ Clone(c)
    \/ c.op = "transpose" /\ Transpose(c)
    \/ c.op \in {"add", "sub"} /\ Addition(c)
    \/ c.op = "mul" /\ Multiply(c)
    \/ c.op = "set" /\ SetElement(c)
    \/ c.op = "fill" /\ Fill(c)
    \/ c.op = "copy_from_table" /\ CopyFromTable(c)
    \/ c.op = "diag" /\ Diag(c)
    \/ c.op = "clamp" /\ Clamp(c)
    \/ c.op = "scal" /\ Scal(c)
    \/ c.op = "axpy" /\ Axpy(c)
    \/ c.op = "gemm" /\ Gemm(c)
    \/ c.op = "gemv" /\ Gemv(c)
    \/ c.op = "ger" /\ Ger(c)

\* A script begins with some matrices and some slices of them.
Init ==
    /\ call = [op |-> "start"]
    /\ DOMAIN value = UNION {{shown[h].at[c] : c \in DOMAIN shown[h].at} : h \in DOMAIN shown}
    /\ \A h \in DOMAIN shown :
          /\ DOMAIN shown[h].at = Coordinates(shown[h].size)
          /\ \A x, y \in DOMAIN shown[h].at : shown[h].at[x] = shown[h].at[y] => x = y

Next == Effect(call')

Spec == Init /\ [][Next]_vars
-----------------------------------------------------------------------------
(***************************************************************************)
(* Answers of the queries.                                                 *)
(***************************************************************************)
Values(h) == {Val(h, c) : c \in Coordinates(shown[h].size)}

IsTableOf(table, h) ==
    LET all == Coordinates(shown[h].size) IN
    /\ Len(table) = Cardinality(all)
    /\ \A x \in all : table[Place(all, x)] = Val(h, x)

Dot(g, h) ==
    InnerProduct(Length(g), [k \in 0..(Length(g) - 1) |-> Entry(g, k)],
                            [k \in 0..(Length(g) - 1) |-> Entry(h, k)])

SeesEachOnce(cells, h) ==
    /\ Len(cells) = Cardinality(Coordinates(shown[h].size))
    /\ {cells[k] : k \in DOMAIN cells} = {shown[h].at[x] : x \in Coordinates(shown[h].size)}
=============================================================================
