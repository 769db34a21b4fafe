----------------------------- MODULE RadixCache -----------------------------
(***************************************************************************)
(* RadixPrefixCache (justapi-inference/src/radix_cache.rs) under the calls *)
(* the scheduler makes: the prompt of a finished sequence is inserted with *)
(* its KV blocks, prompts are looked up, and leaves are evicted.           *)
(*                                                                         *)
(* The KV cache of a block depends on all tokens up to its end, so the     *)
(* history variable content records, for each block, the whole token run   *)
(* it was computed for.                                                    *)
(***************************************************************************)
EXTENDS RadixTree, FiniteSets

CONSTANTS
    Prompts,    \* prompts that are inserted, in whole blocks
    Queries,    \* prompts that are looked up
    MaxClock,   \* bound of the model: operations in one behaviour
    MaxBlocks   \* bound of the model: physical blocks used

ASSUME CacheAssumption == \A p \in Prompts : Len(p) % BlockSize = 0

VARIABLES
    root,
    clock,      \* one tick per insert or lookup
    content,    \* history: content[b] is the token run block b belongs to
    reply       \* the last operation and what it returned

vars == <<root, clock, content, reply>>

Reply(op, arg, n, blocks) == [op |-> op, arg |-> arg, n |-> n, blocks |-> blocks]

Upto(p, i) == Take(p, i * BlockSize)

Init ==
    /\ root = EmptyTree
    /\ clock = 0
    /\ content = <<>>
    /\ reply = Reply("none", <<>>, 0, <<>>)

\* Some leading blocks were found in the cache when the sequence was
\* admitted, and are reused; the others are new.
Insert(p) ==
    LET n      == Len(p) \div BlockSize
        cached == LookupNode(root, p, clock).blocks
        used   == Len(content)
    IN \E r \in 0..n :
        /\ clock < MaxClock
        /\ r <= Len(cached)
        /\ used + n - r <= MaxBlocks
        /\ clock' = clock + 1
        /\ content' = content \o [i \in 1..(n - r) |-> Upto(p, r + i)]
        /\ LET blocks == Take(cached, r) \o [i \in 1..(n - r) |-> used + i]
           IN /\ root' = InsertNode(root, p, blocks, clock')
              /\ reply' = Reply("insert", p, 0, blocks)

\* A structural match whose hash differs is rejected.
Lookup(q) ==
    LET found == LookupNode(root, q, clock')
    IN /\ clock < MaxClock
       /\ clock' = clock + 1
       /\ root' = found.node
       /\ reply' = IF found.bad THEN Reply("collision", q, 0, <<>>)
                                ELSE Reply("lookup", q, found.n, found.blocks)
       /\ UNCHANGED content

EvictSome(k) ==
    LET result == Evict(root, k, <<>>)
    IN /\ root' = result.root
       /\ reply' = Reply("evict", <<>>, k, result.freed)
       /\ UNCHANGED <<clock, content>>

\* The scheduler spares the leaves with blocks of a live sequence.
EvictIdle(k, busy) ==
    LET result == EvictFilter(root, k, busy)
    IN /\ root' = result.root
       /\ reply' = Reply("evict_filter", busy, k, result.freed)
       /\ UNCHANGED <<clock, content>>

Next ==
    \/ \E p \in Prompts : Insert(p)
    \/ \E q \in Queries : Lookup(q)
    \/ \E k \in 1..2 :
        \/ EvictSome(k)
        \/ \E busy \in {{}} \cup {{b} : b \in StoredBlocks(root)} : EvictIdle(k, busy)

Spec == Init /\ [][Next]_vars

-----------------------------------------------------------------------------
\* Insertion splits an edge at the first differing token, inside a block too,
\* and drops the fraction of a block.  What the tree promises about blocks
\* holds as long as the computed prompts diverge at block boundaries only.
DivergeAtBlocks ==
    \A p, q \in ToSet(content) : CommonPrefixLen(p, q) % BlockSize = 0

\* The tree is a radix tree: edges are not empty, children are found under
\* their first token, and every stored hash is that of its edge
\* (verify_hashes), after any splits.  radix_cache.rs:10 "a node's `tokens`
\* length is always a multiple of [`BLOCK_SIZE`], and `blocks` has one
\* [`BlockId`] per block".
TreeWellFormed ==
    \A n \in Nodes(root) :
        /\ n.hash = n.tokens
        /\ \A t \in DOMAIN n.kids : n.kids[t].tokens # <<>> /\ n.kids[t].tokens[1] = t
        /\ DivergeAtBlocks => Len(n.tokens) = BlockSize * Len(n.blocks)

\* Insert stores its prompt and loses nothing that was stored.
InsertAddsExactly ==
    reply' # reply /\ reply'.op = "insert" =>
        Runs(root') = Runs(root) \cup Prefixes(reply'.arg)

\* A lookup matches the longest stored prefix of the prompt, to the token,
\* and none is ever rejected as a collision.
LookupLongest ==
    clock' # clock /\ reply'.op # "insert" =>
        /\ reply'.op = "lookup"
        /\ Take(reply'.arg, reply'.n) \in Runs(root)
        /\ reply'.n < Len(reply'.arg) =>
            Take(reply'.arg, reply'.n + 1) \notin Runs(root)

\* radix_cache.rs:134 a lookup rejects a match "instead of returning the
\* wrong KV blocks": the i-th block of a reply holds the i-th block of the
\* prompt.
LookupHoldsPrefix ==
    DivergeAtBlocks /\ reply.op = "lookup" =>
        /\ Len(reply.blocks) * BlockSize <= reply.n
        /\ \A i \in 1..Len(reply.blocks) :
            content[reply.blocks[i]] = Upto(reply.arg, i)

\* A block that eviction hands back is in the tree no more, so that it can be
\* recycled.  Eviction for the scheduler frees no block of a live sequence,
\* and takes a leaf only when every older one is gone or busy.
EvictionIsSafe ==
    root' # root /\ reply'.op \in {"evict", "evict_filter"} =>
        /\ DivergeAtBlocks => ToSet(reply'.blocks) \cap StoredBlocks(root') = {}
        /\ reply'.op = "evict_filter" =>
            LET left == Leaves(root, <<>>) \cap Leaves(root', <<>>)
                gone == Leaves(root, <<>>) \ Leaves(root', <<>>)
            IN /\ ToSet(reply'.blocks) \cap reply'.arg = {}
               /\ \A l \in left, g \in gone :
                    l.access < g.access => ToSet(l.blocks) \cap reply'.arg # {}

\* The cache is exact: every insert, lookup and eviction of radix_cache.rs
\* does to the tree what the five statements above say, whatever splits and
\* evictions came before it.
CacheIsExact ==
    [][/\ InsertAddsExactly /\ LookupLongest /\ EvictionIsSafe
       /\ TreeWellFormed' /\ LookupHoldsPrefix']_vars
=============================================================================
