---------------------------- MODULE MatrixScripts ---------------------------
(***************************************************************************)
(* What scripts do with matrices in the instances of Matrices: the         *)
(* matrices and slices they begin with, and the slices they take.          *)
(***************************************************************************)
EXTENDS Integers

\* n elements, those beside each other different.
Made(size, n, order, first) ==
    [size |-> size, order |-> order, table |-> [k \in 1..n |-> (first + 3 * k) % 7]]

SliceOf(h, from, size) == [of |-> h, from |-> from, size |-> size]
Start(tables, slices)  == [tables |-> tables, slices |-> slices]
WindowAt(from, size)   == [from |-> from, size |-> size]

MCScripts ==
    UNION {{Start(<<Made(<<3, 3>>, 9, order, 0)>>, <<SliceOf(1, <<1, 0>>, <<2, 2>>)>>),
            Start(<<Made(<<3, 1>>, 3, order, 0), Made(<<1, 3>>, 3, order, 1)>>, <<>>)} :
               order \in {"row", "col"}}
    \cup {Start(<<Made(<<3, 2>>, 6, "col", 0), Made(<<2, 2>>, 4, "col", 1)>>, <<>>),
          Start(<<Made(<<2>>, 2, "row", 0), Made(<<2, 3>>, 6, "row", 1)>>,
                <<SliceOf(2, <<0, 1>>, <<2, 2>>)>>),
          Start(<<Made(<<2, 2, 2>>, 8, "row", 0)>>, <<>>)}

MCWindows(size) ==
    CASE size = <<3, 3>> -> {WindowAt(<<1, 0>>, <<2, 2>>), WindowAt(<<1, 0>>, <<1, 3>>),
                             WindowAt(<<0, 1>>, <<3, 1>>)}
      [] size = <<2, 2>> -> {WindowAt(<<1, 0>>, <<1, 2>>), WindowAt(<<0, 1>>, <<2, 1>>)}
      [] size = <<3, 2>> -> {WindowAt(<<1, 0>>, <<2, 2>>)}
      [] size = <<2, 2, 2>> -> {WindowAt(<<1, 0, 0>>, <<1, 2, 2>>),
                                WindowAt(<<0, 1, 0>>, <<2, 1, 2>>)}
      [] OTHER -> {}
=============================================================================
