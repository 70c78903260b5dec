------------------------- MODULE MCConnectionCode --------------------------
(* Numbers of every length, each side of each power of ten, and a spread. *)
EXTENDS ConnectionCode

Sample ==
    0 .. 20
    \cup UNION { {n - 1, n, n + 1} : n \in {100, 1000, 10000, 100000} }
    \cup { 997 * k : k \in 1 .. 1000 }
    \cup {Limit - 1}
=============================================================================
