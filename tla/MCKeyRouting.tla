----------------------------- MODULE MCKeyRouting -----------------------------
(* Small instances of KeyRouting for TLC. *)
EXTENDS KeyRouting

CONSTANTS
    a, b, c,       \* the servers
    MaxSegments    \* bound: segments of a long table

Nodes == {a, b, c}

\* Servers join, leave, change places, and one is listed twice.
ServerLists == {<<>>, <<a>>, <<a, b>>, <<b, a>>, <<a, a>>, <<b, c>>, <<a, b, c>>, <<c, a, b>>}

UpTo(S, n) == UNION {[1..k -> S] : k \in 0..n}

\* One segment of up to two owners, or two segments of up to one, with repeated
\* and invalid indices; then longer tables, whose owners move with the segment.
SmallUpdates ==
    [servers : ServerLists,
     segments : {<<row>> : row \in UpTo(0..2, 2)} \cup [1..2 -> UpTo({0, 2}, 1)]]
    \cup {[servers |-> <<a, b, c>>,
           segments |-> [seg \in 1..n |-> <<seg % 3, (seg + 1) % 3>>]] : n \in 3..MaxSegments}
===============================================================================
