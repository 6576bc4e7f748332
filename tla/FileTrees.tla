------------------------------ MODULE FileTrees ------------------------------
(***************************************************************************)
(* File trees, and what a build makes of them: the fingerprint of an input *)
(* (modules/build-raptor-core/src: fingerprinter.ts, hasher.ts, and        *)
(* modules/misc/src/directory-scanner.ts), and the bundle of the outputs   *)
(* of a task (task-store.ts and tar-stream.ts in build-raptor-core/src).   *)
(*                                                                         *)
(* A path is a sequence of numbers, which stand for names in their order;  *)
(* a tree maps paths to nodes.  Bytes are numbers below 100; the bytes of  *)
(* a digest, wherever they come, in a hasher or in a file, stand as what   *)
(* was hashed between 100 and 101: digests are equal only if that is.      *)
(***************************************************************************)
EXTENDS Naturals, Sequences, FiniteSets, SequencesExt

CONSTANT Ignored   \* the paths that .gitignore names

Dir == [kind |-> "dir", data |-> <<>>]
File(bytes) == [kind |-> "file", data |-> bytes]
Link(to) == [kind |-> "link", data |-> to]                 \* to a path in the repo
LinkOut(kind) == [kind |-> kind, data |-> <<>>]            \* out of the repo

\* By an absolute path, to something or to nothing; by a relative path.
OutKinds == {"absolute", "dangling", "outside"}

Bytes == Seq(0 .. 99)
Paths == Seq(Nat)
Files == [kind : {"file"}, data : Seq(0 .. 101)]
Nodes == {Dir} \cup Files \cup [kind : {"link"}, data : Paths] \cup [kind : OutKinds, data : {<<>>}]

\* Hasher.digest, which its parent is given as bytes like those of a file: a file
\* that holds this text cannot be told from a directory whose entry has it.
Digest(hashed) == <<100>> \o hashed \o <<101>>

Ancestors(p) == {SubSeq(p, 1, n) : n \in 0 .. Len(p) - 1}

Below(tree, p) == {q \in DOMAIN tree : IsPrefix(p, q)}

Lexicographic(p, q) ==
    \/ IsStrictPrefix(p, q)
    \/ \E n \in 1 .. Len(p) : n <= Len(q) /\ SubSeq(p, 1, n - 1) = SubSeq(q, 1, n - 1) /\ p[n] < q[n]

\* Paths in their order: the i-th has i - 1 before it.
InPathOrder(S) == [i \in 1 .. Cardinality(S) |-> CHOOSE p \in S : Cardinality({q \in S : Lexicographic(q, p)}) = i - 1]

IsTree(tree) ==
    /\ IsFiniteSet(DOMAIN tree)
    /\ \A p \in DOMAIN tree : p \in Paths /\ tree[p] \in Nodes /\ \A a \in Ancestors(p) : a \in DOMAIN tree /\ tree[a] = Dir

\* What is new takes the place of what is there.
Over(new, tree) == [p \in DOMAIN new \cup DOMAIN tree |-> IF p \in DOMAIN new THEN new[p] ELSE tree[p]]

Only(p, node) == [q \in {p} |-> node]

-----------------------------------------------------------------------------
(* Fingerprints                                                            *)

\* DirectoryScanner.isValid(), with the filter that loadModel() makes of .gitignore.
IsValid(p) == (Ancestors(p) \cup {p}) \cap Ignored = {}

\* readDir()
DirEntries(tree, p) == {q \in DOMAIN tree : q # <<>> /\ Front(q) = p}

\* mutant: a hasher that was given nothing counts like any other
IsUsed_empty(tree, p, q, hashed) == IsValid(p) => IsValid(q)

\* Whether the hasher of directory p is given that of its entry q: not if only the
\* entry is ignored, nor if the entry's hasher was given nothing.
IsUsed(tree, p, q, hashed) == (IsValid(p) => IsValid(q)) /\ (tree[q] = Dir => hashed # <<>>)

\* mutant: a sub directory is skipped
Scan_files(tree, root) ==
    LET files == InPathOrder({q \in DirEntries(tree, root) : tree[q] # Dir})
    IN IF root \notin DOMAIN tree THEN <<>>
       ELSE FlattenSeq([i \in DOMAIN files |-> Digest(tree[files[i]].data)])

\* computeFingerprint(): a missing path counts as an empty file, a file as its
\* content, a directory as the digests of its entries, sorted by name.
Scan(tree, root) ==
    LET at[p \in DOMAIN tree] ==
            IF tree[p] # Dir THEN tree[p].data
            ELSE LET used == InPathOrder({q \in DirEntries(tree, p) : IsUsed(tree, p, q, at[q])})
                 IN FlattenSeq([i \in DOMAIN used |-> Digest(at[used[i]])])
    IN IF root \in DOMAIN tree THEN at[root] ELSE <<>>

-----------------------------------------------------------------------------
(* Bundles                                                                 *)

\* Where a path leads when links are followed, as statSync() does.
Followed(tree, p) ==
    LET most == Cardinality(DOMAIN tree)
        to[n \in 0 .. most] ==
            IF n = 0 THEN p
            ELSE LET q == to[n - 1] IN IF q \in DOMAIN tree /\ tree[q].kind = "link" THEN tree[q].data ELSE q
    IN to[most]

Exists(tree, p) == Followed(tree, p) \in DOMAIN tree /\ tree[Followed(tree, p)].kind \notin {"link", "dangling"}

\* scanTree(): everything but directories.
Scanned(tree, root) == {p \in Below(tree, root) : tree[p] # Dir}

\* What bundle() accepts: an output that is there, without links that lead nowhere,
\* to the root of the repo or, by a relative path, out of it; a public output that
\* is a file.
CanBundle(tree, output, public) ==
    /\ Exists(tree, output)
    /\ \A p \in Below(tree, output) : tree[p] = Dir \/ (Exists(tree, p) /\ tree[p] \notin {LinkOut("outside"), Link(<<>>)})
    /\ Exists(tree, public) /\ tree[Followed(tree, public)].kind = "file"

\* The entries of the tar stream, which come in the order of the paths, and the
\* public file.
Bundle(tree, output, public) ==
    [entries |-> [p \in Scanned(tree, output) |-> tree[p]],
     content |-> tree[Followed(tree, public)]]

\* rm, of a tree at each of the places.
Removed(tree, places) ==
    LET left == {p \in DOMAIN tree : \A o \in places : ~IsPrefix(o, p)} IN [p \in left |-> tree[p]]

\* mkdir -p of the directory, then the write.
Written(tree, p, node) == Over(Only(p, node), Over(tree, [q \in Ancestors(p) |-> Dir]))

IsLink(node) == node.kind \in {"link", "absolute", "dangling"}

\* mutant: the entries as they come
InOrder_asScanned(entries) == InPathOrder(DOMAIN entries)

\* extract(): the files before the links.
InOrder(entries) ==
    LET links == {p \in DOMAIN entries : IsLink(entries[p])}
    IN InPathOrder(DOMAIN entries \ links) \o InPathOrder(links)

\* The time stamp of a relative link is set on what it leads to, which must exist.
Extract(tree, entries) ==
    LET order == InOrder(entries)
        after[n \in 0 .. Len(order)] ==
            IF n = 0 THEN [tree |-> tree, ok |-> TRUE]
            ELSE LET r == after[n - 1]
                     t == Written(r.tree, order[n], entries[order[n]])
                 IN IF r.ok THEN [tree |-> t, ok |-> Exists(t, order[n])] ELSE r
    IN after[Len(order)]

\* mutant: what is there stays
Cleared_not(tree, output, public) == tree

Cleared(tree, output, public) == Removed(tree, {output, public})

\* unbundle(): the directory of the public file is not made.
Unbundle(tree, bundle, output, public) ==
    LET r == Extract(Cleared(tree, output, public), bundle.entries)
    IN IF ~r.ok THEN r
       ELSE IF Front(public) \notin DOMAIN r.tree THEN [r EXCEPT !.ok = FALSE]
       ELSE [r EXCEPT !.tree = Over(Only(public, bundle.content), r.tree)]
=============================================================================
