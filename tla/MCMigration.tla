---------------------------- MODULE MCMigration ----------------------------
(* A small instance of Migration for TLC: two tables, three keys, pages of  *)
(* one row and samples of one.                                              *)
EXTENDS Migration

Noon == [hour |-> 12, utc |-> FALSE]
R(up, peer, v) == [up |-> up, peer |-> peer, v |-> v, at |-> Noon]
T(up, v) == [R(up, None, v) EXCEPT !.at.utc = TRUE]

\* A row whose peer comes after it.
Chained == <<1 :> R(0, 0, "a"), 1 :> R(1, 2, "a") @@ 2 :> R(1, 0, "b")>>

\* And a NULL that should not be; a reference to nothing; a cell of another
\* key next to a good one; nothing.
Contents == {Chained,
    <<1 :> R(0, 0, "null"), <<>>>>,
    <<1 :> R(0, 0, "a"), 1 :> R(2, 0, "a")>>,
    <<1 :> R(0, 0, "a") @@ 2 :> R(0, 1, "broken"), <<>>>>,
    <<<<>>, <<>>>>}

Unfilled == <<<<>>, <<>>>>
Seeded   == {<<1 :> T(0, "b"), <<>>>>, <<<<>>, 3 :> T(0, "b")>>}

Usual == [src |-> Chained, srcRev |-> 1, live |-> FALSE, tgt |-> Unfilled, tgtRev |-> 1]
MCStarts ==
    {[Usual EXCEPT !.src = c] : c \in Contents}
    \cup {[Usual EXCEPT !.tgt = t] : t \in Seeded}
    \cup {[Usual EXCEPT !.srcRev = r[1], !.tgtRev = r[2]] : r \in {<<1, 2>>, <<0, 1>>, <<1, 0>>}}
    \cup {[Usual EXCEPT !.live = TRUE]}
=============================================================================
