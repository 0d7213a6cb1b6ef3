----------------------------- MODULE DomainMap ------------------------------
(***************************************************************************)
(* The tree of domains (src/dns/domap.rs) that decides which resolver a    *)
(* DNS query goes to.  A name is the sequence of its labels in the order   *)
(* in which the code uses them, the top level first.  A SubDomain of the   *)
(* tree is the path of labels that leads to it, so that the tree is the    *)
(* set of its paths and of those that are leaves; the recursion of the     *)
(* code along a path is a quantifier over its prefixes.                    *)
(***************************************************************************)
EXTENDS Naturals, Sequences

CONSTANTS
    Label,   \* the labels
    Empty    \* the empty one

\* The first k labels of a name.
Path(name, k) == SubSeq(name, 1, k)

Paths(name) == {Path(name, k) : k \in 1 .. Len(name)}

EmptyTree == [nodes |-> {}, leaf |-> {}]

\* DomainMap::insert skips what is no domain.
Insertable(name) == Len(name) >= 2 /\ name[1] # Empty

\* Every name of a list is inserted, in whatever order.
insert_all(tree, names) ==
    LET ok == {n \in names : Insertable(n)}
    IN  [nodes |-> tree.nodes \cup UNION {Paths(n) : n \in ok},
         leaf |-> tree.leaf \cup ok]

\* DomainMap::has goes down the tree until it meets a leaf or the name ends.
has(tree, name) ==
    /\ Len(name) >= 2
    /\ \E k \in 1 .. Len(name) :
         /\ \A j \in 1 .. k : Path(name, j) \in tree.nodes
         /\ Path(name, k) \in tree.leaf \/ k = Len(name)

-----------------------------------------------------------------------------
\* What has means, without a tree: the name is a domain of the list, lies below
\* one, or lies above one.
IsAbove(a, b) == Len(a) <= Len(b) /\ \A k \in 1 .. Len(a) : a[k] = b[k]

Covered(names, name) ==
    Len(name) >= 2 /\ \E d \in names : Insertable(d) /\ (IsAbove(d, name) \/ IsAbove(name, d))
=============================================================================
