------------------------------ MODULE RadixTree ------------------------------
(***************************************************************************)
(* StringRadixTrie (miles/router/middleware_hub/radix_tree.py): a trie     *)
(* from texts to the tokens they were made of.  A tree is a function from  *)
(* paths to nodes; the path of a node is the sequence of the keys from the *)
(* root to it.  Texts are sequences of characters, a token is the text it  *)
(* stands for.  Log probabilities go with the loss mask; hits and access   *)
(* times are left out.                                                     *)
(***************************************************************************)
EXTENDS Integers, Sequences, FiniteSets, FiniteSetsExt, Functions, SequencesExt

NoVersion == -1

Nodes(tree) == DOMAIN tree.nodes

EmptyTree == [nodes |-> [p \in {} |-> [tokens |-> <<>>]], cur_cache_size |-> 0, total_entries |-> 0, born |-> 0]

Spelling(tokens) == FlattenSeq(tokens)

(***************************************************************************)
(* Walking down.                                                           *)
(***************************************************************************)
\* Of the children whose key the rest of the text starts with, the longest.
Greedy(tree, p, text) ==
    \A i \in DOMAIN p : \A q \in Nodes(tree) :
        Len(q) = i /\ Front(q) = SubSeq(p, 1, i - 1) /\ IsPrefix(FlattenSeq(q), text) => Len(q[i]) <= Len(p[i])

\* As far down as there is such a child.
Walk(tree, text) ==
    LET ways == {p \in Nodes(tree) : IsPrefix(FlattenSeq(p), text) /\ Greedy(tree, p, text)} \cup {<<>>}
        path == CHOOSE p \in ways : \A q \in ways : Len(q) <= Len(p)
    IN  [path |-> path, rest |-> SubSeq(text, Len(FlattenSeq(path)) + 1, Len(text))]

\* Along the path, what its nodes hold.
Along(tree, path, field) ==
    FlattenSeq([i \in 1..Len(path) |-> tree.nodes[SubSeq(path, 1, i)][field]])

find_longest_prefix(tree, text) ==
    LET w == Walk(tree, text)
    IN  [path |-> w.path, rest |-> w.rest,
         tokens |-> Along(tree, w.path, "tokens"),
         mask |-> Along(tree, w.path, "mask")]

(***************************************************************************)
(* Inserting.                                                              *)
(***************************************************************************)
Node(tokens, mask, version, born) ==
    [tokens |-> tokens, mask |-> mask, weight_version |-> version, born |-> born]

Filled(node, tokens, mask) == Node(tokens, mask, node.weight_version, node.born)

\* BUG: only the tokens of the last node are skipped.
_insert_last(tree, text, tokens, mask, version) ==
    LET w == Walk(tree, text)
        skip == IF w.path = <<>> THEN 0 ELSE Len(tree.nodes[w.path].tokens)
        left == SubSeq(tokens, skip + 1, Len(tokens))
        leftMask == SubSeq(mask, skip + 1, Len(mask))
        path == Append(w.path, w.rest)
    IN  IF w.rest = <<>> THEN tree
        ELSE [nodes |-> [p \in Nodes(tree) \cup {path} |->
                  IF p = path THEN Node(left, leftMask, version, tree.born) ELSE tree.nodes[p]],
              cur_cache_size |-> tree.cur_cache_size + Len(left),
              total_entries |-> tree.total_entries + 1, born |-> tree.born + 1]

\* The tokens of the nodes on the way are skipped as their text is; what is left
\* goes to a new node, or to the last one if it has none.  Only a new node gets
\* the version.
_insert(tree, text, tokens, mask, version) ==
    LET w == Walk(tree, text)
        skip == Len(Along(tree, w.path, "tokens"))
        left == SubSeq(tokens, skip + 1, Len(tokens))
        leftMask == SubSeq(mask, skip + 1, Len(mask))
        path == IF w.rest = <<>> THEN w.path ELSE Append(w.path, w.rest)
        taken == w.rest # <<>> \/ tree.nodes[path].tokens = <<>>
    IN  [nodes |-> [p \in Nodes(tree) \cup {path} |->
             CASE p = path /\ w.rest # <<>> -> Node(left, leftMask, version, tree.born)
               [] p = path /\ w.rest = <<>> /\ taken -> Filled(tree.nodes[p], left, leftMask)
               [] OTHER -> tree.nodes[p]],
         cur_cache_size |-> tree.cur_cache_size + (IF taken THEN Len(left) ELSE 0),
         total_entries |-> tree.total_entries + (IF w.rest # <<>> THEN 1 ELSE 0),
         born |-> tree.born + (IF w.rest # <<>> THEN 1 ELSE 0)]

(***************************************************************************)
(* Garbage collection.                                                     *)
(***************************************************************************)
Subtree(tree, path) == {p \in Nodes(tree) : IsPrefix(path, p)}

\* The nodes are removed with all that is below them.
_clean_node_subtree(tree, tops) ==
    LET gone == UNION {Subtree(tree, p) : p \in tops}
    IN  [nodes |-> Restrict(tree.nodes, Nodes(tree) \ gone),
         cur_cache_size |-> tree.cur_cache_size - MapThenSumSet(LAMBDA p : Len(tree.nodes[p].tokens), gone),
         total_entries |-> tree.total_entries - Cardinality(gone),
         born |-> tree.born]

Outdated(tree, p, threshold) ==
    /\ tree.nodes[p].weight_version # NoVersion /\ tree.nodes[p].weight_version <= threshold
    /\ tree.nodes[p].tokens # <<>>

\* Of two nodes on different branches the one whose branch was there first.
Before(tree, p, q) ==
    LET i == Min({j \in DOMAIN p \cap DOMAIN q : p[j] # q[j]})
    IN  p # q /\ tree.nodes[SubSeq(p, 1, i)].born < tree.nodes[SubSeq(q, 1, i)].born

\* What is below an outdated node is not looked at.
_find_outdated_nodes(tree, threshold) ==
    {p \in Nodes(tree) :
        /\ Outdated(tree, p, threshold)
        /\ \A q \in Nodes(tree) : IsStrictPrefix(q, p) => ~Outdated(tree, q, threshold)}

\* The assertion: no node below is newer than its parent.
_validate_subtree_weight_versions(tree, path) ==
    \A p \in Subtree(tree, path) :
        LET own == tree.nodes[p].weight_version
            above == tree.nodes[Front(p)].weight_version
        IN  p # path /\ own # NoVersion /\ above # NoVersion => own <= above

\* Branch by branch they are removed, up to the first one that fails the assertion.
gc_by_weight_version(tree, threshold) ==
    LET outdated == _find_outdated_nodes(tree, threshold)
        failing == {p \in outdated : ~_validate_subtree_weight_versions(tree, p)}
    IN  _clean_node_subtree(tree, {p \in outdated : \A q \in failing : Before(tree, p, q)})

(***************************************************************************)
(* The operations.                                                         *)
(***************************************************************************)
\* Texts and tokens are there.  With versions that are strings the subtraction
\* in the collection raises, and nothing is collected.
insert(tree, text, tokens, mask, version, limits) ==
    LET inserted == _insert(tree, text, tokens, mask, version)
    IN  CASE text = <<>> \/ tokens = <<>> -> tree
          [] text # <<>> /\ tokens # <<>> /\ inserted.cur_cache_size > limits.max_cache_size
                /\ version # NoVersion /\ limits.integer_versions ->
                gc_by_weight_version(inserted, version - limits.gc_threshold_k)
          [] OTHER -> inserted

\* The tokens of the cached part and of the rest, or the whole text's, which is
\* inserted then.  tokenizer is a function of the text and all that it ends in.
retrieve_from_text(tree, text, tokenizer, limits) ==
    LET found == find_longest_prefix(tree, text)
        rest == tokenizer[found.rest]
        all == tokenizer[text]
    IN  IF found.tokens # <<>>
        THEN [tokens |-> found.tokens \o rest, mask |-> found.mask \o [i \in DOMAIN rest |-> 0], tree |-> tree]
        ELSE [tokens |-> all, mask |-> [i \in DOMAIN all |-> 0],
              tree |-> insert(tree, text, all, [i \in DOMAIN all |-> 0], NoVersion, limits)]
=============================================================================
