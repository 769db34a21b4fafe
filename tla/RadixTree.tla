------------------------------ MODULE RadixTree -----------------------------
(***************************************************************************)
(* The radix tree of cached prompt prefixes                                *)
(* (justapi-inference/src/radix_cache.rs) as operators on a tree value.    *)
(*                                                                         *)
(* A node has the tokens of its edge, the KV blocks stored for them, the   *)
(* content hash of the edge, the time of its last access and its children, *)
(* keyed by the first token of their edge.  FNV-1a is taken to be free of  *)
(* collisions: the hash of a token run is the run itself.                  *)
(***************************************************************************)
EXTENDS Naturals, Sequences, SequencesExt

CONSTANT BlockSize  \* tokens per KV block

ASSUME BlockSizeAssumption == BlockSize \in Nat \ {0}

NoKids == [t \in {} |-> {}]

Node(tokens, blocks, now) ==
    [tokens |-> tokens, blocks |-> blocks, hash |-> tokens, access |-> now,
     kids |-> NoKids]

EmptyTree == Node(<<>>, <<>>, 0)

IsLeaf(node) == DOMAIN node.kids = {}

Kids(node) == {node.kids[t] : t \in DOMAIN node.kids}

Drop(s, n) == SubSeq(s, n + 1, Len(s))
Take(s, n) == SubSeq(s, 1, n)

CommonPrefixLen(a, b) ==
    CHOOSE i \in 0..Len(a) :
        /\ i <= Len(b)
        /\ Take(a, i) = Take(b, i)
        /\ i < Len(a) /\ i < Len(b) => a[i + 1] # b[i + 1]

\* Mutant: the lower half of a split edge forgets its children.
SplitChildless(child, cp) ==
    LET b    == cp \div BlockSize
        rest == Node(Drop(child.tokens, cp), Drop(child.blocks, b), child.access)
    IN [child EXCEPT !.tokens = Take(@, cp), !.blocks = Take(@, b),
                     !.hash = Take(child.tokens, cp),
                     !.kids = [t \in {rest.tokens[1]} |-> rest]]

\* An edge that diverges after cp tokens is cut there; its lower half keeps
\* the children, and the blocks from cp / BLOCK_SIZE on.
Split(child, cp) ==
    LET b    == cp \div BlockSize
        rest == [child EXCEPT !.tokens = Drop(@, cp), !.blocks = Drop(@, b),
                              !.hash = Drop(child.tokens, cp)]
    IN [child EXCEPT !.tokens = Take(@, cp), !.blocks = Take(@, b),
                     !.hash = Take(child.tokens, cp),
                     !.kids = [t \in {rest.tokens[1]} |-> rest]]

WithKid(node, t, kid) ==
    [node EXCEPT !.kids =
        [u \in DOMAIN node.kids \cup {t} |-> IF u = t THEN kid ELSE node.kids[u]]]

RECURSIVE InsertNode(_, _, _, _)
InsertNode(node, tokens, blocks, now) ==
    IF tokens = <<>> THEN [node EXCEPT !.access = now]
    ELSE IF tokens[1] \notin DOMAIN node.kids
    THEN WithKid(node, tokens[1], Node(tokens, blocks, now))
    ELSE LET child == node.kids[tokens[1]]
             cp    == CommonPrefixLen(tokens, child.tokens)
             upper == IF cp = Len(child.tokens) THEN child ELSE Split(child, cp)
         IN WithKid(node, tokens[1],
                    InsertNode(upper, Drop(tokens, cp),
                               Drop(blocks, cp \div BlockSize), now))

\* What lookup_node leaves in `out`, and the node with refreshed accesses.
Found(n, blocks, bad, node) ==
    [n |-> n, blocks |-> blocks, bad |-> bad, node |-> node]

RECURSIVE LookupNode(_, _, _)

\* Mutant: the blocks are collected on the way back.
LookupBackwards(node, tokens, now) ==
    IF tokens = <<>> \/ tokens[1] \notin DOMAIN node.kids
    THEN Found(0, <<>>, FALSE, node)
    ELSE LET child == node.kids[tokens[1]]
             cp    == CommonPrefixLen(tokens, child.tokens)
             seen  == [child EXCEPT !.access = now]
             below == LookupNode(seen, Drop(tokens, cp), now)
         IN IF cp < Len(child.tokens)
            THEN Found(cp, Take(child.blocks, cp \div BlockSize), FALSE,
                       WithKid(node, tokens[1], seen))
            ELSE Found(cp + below.n, below.blocks \o child.blocks, below.bad,
                       WithKid(node, tokens[1], below.node))

LookupNode(node, tokens, now) ==
    IF tokens = <<>> \/ tokens[1] \notin DOMAIN node.kids
    THEN Found(0, <<>>, FALSE, node)
    ELSE LET child == node.kids[tokens[1]]
             cp    == CommonPrefixLen(tokens, child.tokens)
             seen  == [child EXCEPT !.access = now]
             below == LookupNode(seen, Drop(tokens, cp), now)
         IN IF cp < Len(child.tokens)
            THEN Found(cp, Take(child.blocks, cp \div BlockSize), FALSE,
                       WithKid(node, tokens[1], seen))
            ELSE IF child.hash # Take(tokens, cp)
            THEN Found(0, <<>>, TRUE, node)
            ELSE Found(cp + below.n, child.blocks \o below.blocks, below.bad,
                       WithKid(node, tokens[1], below.node))

\* collect_leaves: the leaves with the keys that lead to them.
RECURSIVE Leaves(_, _)
Leaves(node, path) ==
    UNION {LET child == node.kids[t]
               here  == Append(path, t)
           IN IF IsLeaf(child)
              THEN {[access |-> child.access, path |-> here, blocks |-> child.blocks]}
              ELSE Leaves(child, here)
           : t \in DOMAIN node.kids}

RECURSIVE RemovePath(_, _)
RemovePath(node, path) ==
    IF Len(path) = 1
    THEN [node EXCEPT !.kids = [t \in DOMAIN node.kids \ {path[1]} |-> node.kids[t]]]
    ELSE WithKid(node, path[1], RemovePath(node.kids[path[1]], Tail(path)))

Oldest(leaves) == CHOOSE l \in leaves : \A m \in leaves : l.access <= m.access

\* evict_filter: the leaves there were at the start, oldest first, except the
\* ones with a busy block, until k blocks are freed.
RECURSIVE EvictLeaves(_, _, _, _, _)
EvictLeaves(root, leaves, k, busy, freed) ==
    IF Len(freed) >= k \/ leaves = {} THEN [root |-> root, freed |-> freed]
    ELSE LET l == Oldest(leaves)
         IN IF ToSet(l.blocks) \cap busy = {}
            THEN EvictLeaves(RemovePath(root, l.path), leaves \ {l}, k, busy,
                             freed \o l.blocks)
            ELSE EvictLeaves(root, leaves \ {l}, k, busy, freed)

\* Mutant: the filter is ignored.
EvictUnfiltered(root, k, busy) == EvictLeaves(root, Leaves(root, <<>>), k, {}, <<>>)

EvictFilter(root, k, busy) == EvictLeaves(root, Leaves(root, <<>>), k, busy, <<>>)

\* find_lru_leaf: the oldest leaf among the children, if there is one, else
\* the choice below the child that was accessed least recently.
RECURSIVE FindLruLeaf(_, _)
FindLruLeaf(node, path) ==
    LET direct == {t \in DOMAIN node.kids : IsLeaf(node.kids[t])}
        among  == IF direct # {} THEN direct ELSE DOMAIN node.kids
        t      == CHOOSE k \in among :
                    \A j \in among : node.kids[k].access <= node.kids[j].access
        here   == Append(path, t)
    IN IF direct # {}
       THEN [access |-> node.kids[t].access, path |-> here,
             blocks |-> node.kids[t].blocks]
       ELSE FindLruLeaf(node.kids[t], here)

RECURSIVE Evict(_, _, _)
Evict(root, k, freed) ==
    IF Len(freed) >= k \/ IsLeaf(root) THEN [root |-> root, freed |-> freed]
    ELSE LET l == FindLruLeaf(root, <<>>)
         IN Evict(RemovePath(root, l.path), k, freed \o l.blocks)

-----------------------------------------------------------------------------
(* What the tree stores, by a definition of its own.                       *)

RECURSIVE Nodes(_)
Nodes(node) == {node} \cup UNION {Nodes(k) : k \in Kids(node)}

\* Every token run that is a prefix of a path from the root.
RECURSIVE Runs(_)
Runs(node) ==
    {<<>>} \cup UNION {
        LET k == node.kids[t]
        IN {Take(k.tokens, i) : i \in 0..Len(k.tokens)}
             \cup {k.tokens \o r : r \in Runs(k)}
        : t \in DOMAIN node.kids}

StoredBlocks(node) == UNION {ToSet(n.blocks) : n \in Nodes(node)}
=============================================================================
