------------------------- MODULE MCTokenReferences --------------------------
(* Instances of TokenReferences for TLC.                                   *)
EXTENDS TokenReferences

CONSTANTS root, cp, jn, d1, d2, j2, bs, id, ac, \* a network
          sq, cq, d3,                           \* another one
          ls                                    \* the loss function

\* As "Join and Copy Test" in ann_base/test/test.lua, a stack with a copy and a
\* join, whose branches may get the sparse tokens that the copy repeats; and a
\* hyperplane that gives all of them to one dot product.
TestComponents == {root, cp, jn, d1, d2, j2, bs, id, ac, sq, cq, d3, ls}
TestKind ==
    [c \in TestComponents |->
       CASE c = root -> "stack" [] c \in {cp, cq} -> "copy" [] c \in {jn, j2} -> "join"
         [] c = sq -> "hyperplane" [] c \in {d1, d2, d3} -> "dot_product"
         [] c = bs -> "bias" [] c = id -> "base" [] c = ac -> "activation"
         [] c = ls -> "loss"]
TestChildren ==
    [c \in TestComponents |->
       CASE c = root -> <<cp, jn, j2, ac>>
         [] c = jn -> <<d1, d2>>
         [] c = j2 -> <<bs, id>>
         [] c = sq -> <<cq, d3>>
         [] OTHER -> <<>>]

\* Each place has addresses of its own, so that states which differ in
\* addresses alone are few.
Copies == 4
ArenaOf(p) ==
    {(IF p.member = "entry" THEN <<p.of[1], p.of[2], p.i>>
      ELSE <<p.of, p.member, p.i>>) \o <<n>> : n \in 1 .. Copies}
Addresses ==
    TestComponents \X (Members \cup Vectors \cup {"userdata"}) \X (0 .. 2)
    \X (1 .. Copies)
=============================================================================
