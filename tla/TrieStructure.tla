---------------------------- MODULE TrieStructure ----------------------------
(***************************************************************************)
(* The Merkle Patricia trie of trie/trie.go: insertion, deletion, lookup,  *)
(* the hasher with the hashes cached in the nodes, the commit that stores  *)
(* dirty nodes and unloads old clean ones, and the reopening of a root.    *)
(*                                                                         *)
(* A hash is modelled by what it identifies, the node with its children's  *)
(* hashes, so two roots have one hash exactly when the nodes are the same. *)
(* Nibbles are 0 .. Terminator - 1; every node counts as larger than 32    *)
(* bytes, so none is stored inside its parent.                             *)
(***************************************************************************)
EXTENDS Integers, Sequences, FiniteSetsExt, SequencesExt

CONSTANTS
    TrieKeys,     \* hex keys: sequences of nibbles that end with the terminator
    Terminator,   \* the 17th child
    TrieValues,   \* the values; 0 is the empty one, which deletes
    CacheLimit,   \* Trie.cachelimit
    TrieUpdates   \* bound on the operations

ASSUME TrieStructureAssumption ==
    /\ Terminator \in Nat \ {0} /\ 0 \notin TrieValues
    /\ \A k \in TrieKeys : k # <<>> /\ Last(k) = Terminator /\ Front(k) \in Seq(0 .. Terminator - 1)
    /\ CacheLimit \in Nat /\ TrieUpdates \in Nat

VARIABLES
    root,       \* Trie.root
    cachegen,   \* Trie.cachegen
    stored,     \* the nodes in the database, by hash
    content,    \* what the updates say the trie holds
    committed,  \* the root and content of the last commit
    updates     \* operations so far

structureVars == <<root, cachegen, stored, content, committed, updates>>

Index == 0 .. Terminator
NoNode == [type |-> "nil"]
ValueNode(v) == [type |-> "value", value |-> v]
HashNode(h) == [type |-> "hash", hash |-> h]

(* What the hash of a node covers. *)
ShortHash(key, h) == [type |-> "short", key |-> key, child |-> h]
FullHash(hs) == [type |-> "full", children |-> hs]
Unhashed == [type |-> "none"]

ShortNode(key, child, flags) == [type |-> "short", key |-> key, child |-> child, flags |-> flags]
FullNode(children, flags) == [type |-> "full", children |-> children, flags |-> flags]

newFlag == [hash |-> Unhashed, gen |-> cachegen, dirty |-> TRUE]

(* mustDecodeNode: the children of a loaded node are hashes or values. *)
Ref(h) == IF h.type \in {"short", "full"} THEN HashNode(h) ELSE h

resolveHash(h) ==
    LET flags == [hash |-> h, gen |-> cachegen, dirty |-> FALSE]
    IN IF h.type = "short"
       THEN ShortNode(h.key, Ref(h.child), flags)
       ELSE FullNode([i \in Index |-> Ref(h.children[i])], flags)

resolve(n) == IF n.type = "hash" THEN resolveHash(n.hash) ELSE n

prefixLen(a, b) ==
    Max({i \in 0 .. Min({Len(a), Len(b)}) : SubSeq(a, 1, i) = SubSeq(b, 1, i)})

DropKey(s, n) == SubSeq(s, n + 1, Len(s))

StructureInit ==
    /\ root = NoNode /\ cachegen = 0 /\ stored = {}
    /\ content = [k \in TrieKeys |-> 0]
    /\ committed = [hash |-> NoNode, content |-> content]
    /\ updates = 0

-----------------------------------------------------------------------------

(* tryGet: the value, and the node with what was loaded on the way. *)
RECURSIVE tryGet(_, _)
tryGet(n, key) ==
    CASE n.type = "nil"   -> [value |-> 0, node |-> n, resolved |-> FALSE]
      [] n.type = "value" -> [value |-> n.value, node |-> n, resolved |-> FALSE]
      [] n.type = "short" ->
            IF prefixLen(key, n.key) < Len(n.key)
            THEN [value |-> 0, node |-> n, resolved |-> FALSE]
            ELSE LET r == tryGet(n.child, DropKey(key, Len(n.key)))
                 IN [r EXCEPT !.node = IF r.resolved
                                       THEN [n EXCEPT !.child = r.node, !.flags.gen = cachegen]
                                       ELSE n]
      [] n.type = "full" ->
            LET r == tryGet(n.children[key[1]], Tail(key))
            IN [r EXCEPT !.node = IF r.resolved
                                  THEN [n EXCEPT !.children[key[1]] = r.node, !.flags.gen = cachegen]
                                  ELSE n]
      [] n.type = "hash" -> [tryGet(resolveHash(n.hash), key) EXCEPT !.resolved = TRUE]

(* A variant that keeps the hash of a branch whose child has changed. *)
WithChildStale(n, i, child) == [n EXCEPT !.children[i] = child]

(***************************************************************************)
(* insert returns whether the subtree changed and its new root.  A changed *)
(* node on the path gets fresh flags, which drops its cached hash.         *)
(***************************************************************************)
WithChild(n, i, child) == [n EXCEPT !.children[i] = child, !.flags = newFlag]

RECURSIVE insert(_, _, _)
insert(n, key, value) ==
    LET same == [dirty |-> FALSE, node |-> n]
        changed(m) == [dirty |-> TRUE, node |-> m]
    IN CASE key = <<>> -> [dirty |-> n # value, node |-> value]
         [] key # <<>> /\ n.type = "nil" -> changed(ShortNode(key, value, newFlag))
         [] key # <<>> /\ n.type = "short" ->
               LET match == prefixLen(key, n.key)
                   r == insert(n.child, DropKey(key, match), value)
                   leaf(k, v) == insert(NoNode, DropKey(k, match + 1), v).node
                   branch == FullNode([i \in Index |->
                                CASE i = n.key[match + 1] -> leaf(n.key, n.child)
                                  [] i = key[match + 1] -> leaf(key, value)
                                  [] OTHER -> NoNode], newFlag)
               IN IF match = Len(n.key)
                  THEN IF r.dirty THEN changed(ShortNode(n.key, r.node, newFlag)) ELSE same
                  ELSE IF match = 0
                  THEN changed(branch)
                  ELSE changed(ShortNode(SubSeq(key, 1, match), branch, newFlag))
         [] key # <<>> /\ n.type = "full" ->
               LET r == insert(n.children[key[1]], Tail(key), value)
               IN IF r.dirty THEN changed(WithChild(n, key[1], r.node)) ELSE same
         [] key # <<>> /\ n.type = "hash" -> insert(resolveHash(n.hash), key, value)

(***************************************************************************)
(* A branch left with one child becomes a short node, merged with the      *)
(* child when that is a short node too, for which it may have to be loaded.*)
(***************************************************************************)
Reduce(n) ==
    LET left == {i \in Index : n.children[i] # NoNode}
        pos == CHOOSE i \in left : TRUE
        child == resolve(n.children[pos])
    IN IF Cardinality(left) > 1
       THEN n
       ELSE IF pos # Terminator /\ child.type = "short"
       THEN ShortNode(<<pos>> \o child.key, child.child, newFlag)
       ELSE ShortNode(<<pos>>, n.children[pos], newFlag)

RECURSIVE delete(_, _)
delete(n, key) ==
    LET same == [dirty |-> FALSE, node |-> n]
        changed(m) == [dirty |-> TRUE, node |-> m]
    IN CASE n.type = "nil" -> same
         [] n.type = "value" -> changed(NoNode)
         [] n.type = "short" ->
               LET match == prefixLen(key, n.key)
                   r == delete(n.child, DropKey(key, match))
               IN IF match < Len(n.key) THEN same
                  ELSE IF match = Len(key) THEN changed(NoNode)
                  ELSE IF ~r.dirty THEN same
                  ELSE IF r.node.type = "short"
                  THEN changed(ShortNode(n.key \o r.node.key, r.node.child, newFlag))
                  ELSE changed(ShortNode(n.key, r.node, newFlag))
         [] n.type = "full" ->
               LET r == delete(n.children[key[1]], Tail(key))
               IN IF r.dirty THEN changed(Reduce(WithChild(n, key[1], r.node))) ELSE same
         [] n.type = "hash" -> delete(resolveHash(n.hash), key)

(***************************************************************************)
(* hasher.hash: a cached hash is taken as it is.  With a database (commit) *)
(* dirty nodes are stored and old clean ones are replaced by their hash;   *)
(* the subtree of a clean node is not visited.                             *)
(***************************************************************************)
canUnload(flags) == ~flags.dirty /\ cachegen - flags.gen >= CacheLimit

(* Without a database the dirty flag stays. *)
Hashed(flags, h, commit) == [flags EXCEPT !.hash = h, !.dirty = @ /\ ~commit]

RECURSIVE hash(_, _)
hash(n, commit) ==
    LET short == hash(n.child, commit)
        full == [i \in Index |-> hash(n.children[i], commit)]
        h == IF n.type = "short" THEN ShortHash(n.key, short.hash)
             ELSE FullHash([i \in Index |-> full[i].hash])
    IN CASE n.type \in {"nil", "value"} -> [hash |-> n, node |-> n, db |-> {}]
         [] n.type = "hash" -> [hash |-> n.hash, node |-> n, db |-> {}]
         [] n.type \in {"short", "full"} ->
               IF n.flags.hash # Unhashed /\ commit /\ canUnload(n.flags)
               THEN [hash |-> n.flags.hash, node |-> HashNode(n.flags.hash), db |-> {}]
               ELSE IF n.flags.hash # Unhashed /\ ~(commit /\ n.flags.dirty)
               THEN [hash |-> n.flags.hash, node |-> n, db |-> {}]
               ELSE IF n.type = "short"
               THEN [hash |-> h, node |-> ShortNode(n.key, short.node, Hashed(n.flags, h, commit)),
                     db |-> short.db \union {h}]
               ELSE [hash |-> h,
                     node |-> FullNode([i \in Index |-> full[i].node], Hashed(n.flags, h, commit)),
                     db |-> UNION {full[i].db : i \in Index} \union {h}]

-----------------------------------------------------------------------------

Operation == updates < TrieUpdates /\ updates' = updates + 1

(* TryUpdate; the empty value deletes the key. *)
TryUpdate(key, value) ==
    /\ Operation
    /\ root' = IF value = 0 THEN delete(root, key).node ELSE insert(root, key, ValueNode(value)).node
    /\ content' = [content EXCEPT ![key] = value]
    /\ UNCHANGED <<cachegen, stored, committed>>

TryGet(key) ==
    /\ Operation
    /\ LET r == tryGet(root, key) IN r.resolved /\ root' = r.node
    /\ UNCHANGED <<cachegen, stored, content, committed>>

Hash ==
    /\ Operation
    /\ root' = hash(root, FALSE).node
    /\ UNCHANGED <<cachegen, stored, content, committed>>

CommitTrie ==
    LET r == hash(root, TRUE)
    IN /\ Operation
       /\ root' = r.node
       /\ stored' = stored \union r.db
       /\ cachegen' = cachegen + 1
       /\ committed' = [hash |-> r.hash, content |-> content]
       /\ UNCHANGED content

(* New with the last committed root; uncommitted changes are gone. *)
Reopen ==
    /\ Operation
    /\ cachegen' = 0
    /\ root' = IF committed.hash = NoNode THEN NoNode
               ELSE [resolveHash(committed.hash) EXCEPT !.flags.gen = 0]
    /\ content' = committed.content
    /\ UNCHANGED <<stored, committed>>

StructureNext ==
    \/ \E k \in TrieKeys, v \in TrieValues \union {0} : TryUpdate(k, v)
    \/ \E k \in TrieKeys : TryGet(k)
    \/ Hash \/ CommitTrie \/ Reopen

StructureSpec == StructureInit /\ [][StructureNext]_structureVars

-----------------------------------------------------------------------------

(* The one trie for a set of keys: split at the longest common prefix. *)
RECURSIVE Canonical(_)
Canonical(c) ==
    LET keys == DOMAIN c
        some == CHOOSE k \in keys : TRUE
        common == Min({prefixLen(some, k) : k \in keys})
        under(p) == [k \in {DropKey(q, Len(p)) : q \in {q \in keys : IsPrefix(p, q)}} |-> c[p \o k]]
    IN IF keys = {} THEN NoNode
       ELSE IF keys = {<<>>} THEN ValueNode(c[<<>>])
       ELSE IF common > 0
       THEN ShortHash(SubSeq(some, 1, common), Canonical(under(SubSeq(some, 1, common))))
       ELSE FullHash([i \in Index |-> Canonical(under(<<i>>))])

Present == [k \in {k \in TrieKeys : content[k] # 0} |-> content[k]]

(* The hashes that stand for unloaded nodes, and the nodes a hash implies. *)
RECURSIVE HashesOf(_)
HashesOf(n) ==
    CASE n.type = "hash"  -> {n.hash}
      [] n.type = "short" -> HashesOf(n.child)
      [] n.type = "full"  -> UNION {HashesOf(n.children[i]) : i \in Index}
      [] OTHER -> {}

RECURSIVE Below(_)
Below(h) ==
    CASE h.type = "short" -> {h} \union Below(h.child)
      [] h.type = "full"  -> {h} \union UNION {Below(h.children[i]) : i \in Index}
      [] OTHER -> {}

(***************************************************************************)
(* Consensus needs it: the root hash depends on the content alone, never   *)
(* on the order of insertions, overwritings and deletions, on hashes       *)
(* cached in between or on nodes unloaded and loaded again.  TryGet        *)
(* returns what was last written to the key, and a node that was replaced  *)
(* by its hash can be loaded again with all that is under it.              *)
(***************************************************************************)
RootIsCanonical ==
    /\ hash(root, FALSE).hash = Canonical(Present)
    /\ \A k \in TrieKeys : tryGet(root, k).value = content[k]
    /\ \A h \in HashesOf(root) \union {committed.hash} : Below(h) \subseteq stored
=============================================================================
