---------------------------- MODULE RestoredFiles ----------------------------
(***************************************************************************)
(* One cacheable task in a work space, over several builds: its inputs are *)
(* fingerprinted, its outputs recorded as a bundle and restored            *)
(* (modules/build-raptor-core/src: task-executor.ts, task-store.ts,        *)
(* purger.ts, and what they call, in FileTrees).                           *)
(*                                                                         *)
(* Between builds, and while the program runs, files are edited; leftovers *)
(* of other builds lie where the outputs go.  The storage keeps what it is *)
(* given (TaskStore models one that does not).                             *)
(***************************************************************************)
EXTENDS FileTrees

CONSTANTS
    Inputs,     \* input locations
    Output,     \* an output location
    Public,     \* a public output location, in some directory
    Sources,    \* what the inputs may hold: trees
    Leftovers,  \* what may be found where the outputs go
    Products,   \* what the program may write
    MaxBuilds, MaxEdits

\* The planner rejects outputs that lie in each other.
ASSUME LocationsAssumption ==
    /\ Inputs \cup {Output, Public} \subseteq Paths \ {<<>>}
    /\ \A i \in Inputs, o \in {Output, Public} : ~IsPrefix(i, o) /\ ~IsPrefix(o, i)
    /\ ~IsPrefix(Output, Public) /\ ~IsPrefix(Public, Output)

\* The paths that lie at one of the places or below.
At(paths, places) == {p \in paths : \E o \in places : IsPrefix(o, p)}

\* The paths that lead to one of the places.
Towards(places) == UNION {Ancestors(o) : o \in places}

\* What the inputs hold: files and directories, no links.
ASSUME SourcesAssumption ==
    \A s \in Sources :
        /\ IsTree(s) /\ <<>> \in DOMAIN s
        /\ \A p \in DOMAIN s : s[p] = Dir \/ s[p] \in Files
        /\ DOMAIN s \ At(DOMAIN s, Inputs) \subseteq {p \in Towards(Inputs) \cup {<<>>} : s[p] = Dir}

\* What is put beside the inputs: nothing where a directory is needed.
IsBeside(new) ==
    /\ IsTree(Over(new, Only(<<>>, Dir))) /\ <<>> \notin DOMAIN new
    /\ At(DOMAIN new, Inputs) = {}
    /\ \A p \in DOMAIN new \cap Towards(Inputs \cup {Output, Public}) : new[p] = Dir

\* A public output that is a link would come back as a file.
ASSUME ProductsAssumption ==
    /\ \A new \in Leftovers \cup Products : IsBeside(new)
    /\ \A new \in Products : Public \in DOMAIN new => new[Public].kind # "link"

VARIABLES
    tree,    \* the work space
    purge,   \* of the output location, as its task defines it
    pc,      \* "idle", "checked", "run"
    fp,      \* the task's fingerprint
    store,   \* fingerprints to verdict and bundle
    result,  \* of the last build, until something is edited
    builds, edits,
    touched, \* inputs were edited between fingerprint and end of a run
    prints,  \* every <<tracked files, listing, fingerprint>> there was
    wrote    \* <<listing of the inputs, path, node>> of all the program wrote

vars == <<tree, purge, pc, fp, store, result, builds, edits, touched, prints, wrote>>

\* The files of an input that count, by path: of an ignored input all of them.
Tracked(t) ==
    LET of(i) == {p \in Below(t, i) : t[p] # Dir /\ (IsValid(i) => IsValid(p))}
    IN [i \in Inputs |-> [p \in of(i) |-> t[p].data]]

\* Their contents in the order of the paths; an empty file in the place of an input
\* reads as if it were not there.
Listing(t) ==
    [i \in Inputs |->
        LET data == Tracked(t)[i]
            files == InPathOrder({p \in DOMAIN data : p # i \/ data[p] # <<>>})
        IN [n \in DOMAIN files |-> data[files[n]]]]

Outputs(t) == {p \in Below(t, Output) \cup Below(t, Public) : t[p] # Dir}

Init ==
    /\ tree \in {Over(l, s) : l \in Leftovers, s \in Sources}
    /\ purge \in {"ALWAYS", "NEVER"}
    /\ pc = "idle" /\ fp = <<>> /\ store = <<>> /\ result = "none"
    /\ builds = 0 /\ edits = 0 /\ touched = FALSE
    /\ prints = {} /\ wrote = {}

\* The inputs, and the directories that lead to them.
OnlyInputs(t) == [p \in At(DOMAIN t, Inputs) \cup {a \in DOMAIN t : a \in Towards(Inputs) \cup {<<>>}} |-> t[p]]

Edit ==
    /\ edits < MaxEdits /\ edits' = edits + 1
    /\ \/ \E s \in Sources : tree' = Over(s, Removed(tree, Inputs))
       \/ pc = "idle" /\ \E l \in Leftovers : tree' = Over(l, OnlyInputs(tree))
    /\ touched' = (touched \/ (pc # "idle" /\ Listing(tree') # Listing(tree)))
    /\ result' = "none"
    /\ UNCHANGED <<purge, pc, fp, store, builds, prints, wrote>>

\* computeFingerprint() of the task.
ComputeFingerprint ==
    /\ pc = "idle" /\ builds < MaxBuilds /\ builds' = builds + 1
    /\ fp' = [i \in Inputs |-> Scan(tree, i)]
    /\ prints' = prints \cup {<<Tracked(tree), Listing(tree), fp'>>}
    /\ pc' = "checked" /\ result' = "none"
    /\ UNCHANGED <<tree, purge, store, edits, touched, wrote>>

Known == fp \in DOMAIN store

\* mutant: outputs are left where they are
Purged_not == tree

\* purgeOutputs(): shouldPurge() leaves an output of purge "NEVER" to its task, as
\* the dist directories are.  No protocol says so of a public output.
Purged == Removed(tree, {o \in {Output, Public} : o = Output => purge = "ALWAYS"})

PurgeOutputs ==
    /\ pc = "checked" /\ ~Known
    /\ tree' = Purged /\ pc' = "run"
    /\ UNCHANGED <<purge, fp, store, result, builds, edits, touched, prints, wrote>>

\* restoreTask(): a task that failed is run again, on what it left.
RestoreOutputs ==
    /\ pc = "checked" /\ Known
    /\ LET r == Unbundle(tree, store[fp].bundle, Output, Public) IN
        /\ tree' = r.tree
        /\ pc' = IF r.ok /\ store[fp].verdict = "FAIL" THEN "run" ELSE "idle"
        /\ result' = IF ~r.ok THEN "NOT_RESTORED" ELSE IF pc' = "run" THEN result ELSE "CACHED"
    /\ UNCHANGED <<purge, fp, store, builds, edits, touched, prints, wrote>>

\* What the program writes takes the place of what is there.
Overwritten(new) ==
    LET gone == {p \in DOMAIN new : new[p] # Dir} IN Over(new, Removed(tree, gone))

\* runIt(): a task that passes must have made its outputs; recordTask() bundles them.
RunIt ==
    /\ pc = "run" /\ pc' = "idle"
    /\ \E new \in Products, status \in {"OK", "FAIL"} :
        /\ tree' = Overwritten(new)
        /\ wrote' = wrote \cup {<<Listing(tree), p, new[p]>> : p \in {q \in DOMAIN new : new[q] # Dir}}
        /\ LET recorded == /\ status = "OK" => Exists(tree', Output) /\ Exists(tree', Public)
                           /\ CanBundle(tree', Output, Public)
           IN /\ result' = IF ~recorded THEN "NOT_RECORDED" ELSE IF status = "OK" THEN "EXECUTED" ELSE "FAILED"
              /\ store' = IF ~recorded THEN store
                          ELSE Over(Only(fp, [verdict |-> status, bundle |-> Bundle(tree', Output, Public)]), store)
    /\ UNCHANGED <<purge, fp, builds, edits, touched, prints>>

Next == Edit \/ ComputeFingerprint \/ PurgeOutputs \/ RestoreOutputs \/ RunIt

Spec == Init /\ [][Next]_vars
-----------------------------------------------------------------------------
(* Properties                                                              *)

\* The work space stays a file tree, through extractions that stop half-way too.
TypeOK ==
    /\ IsTree(tree) /\ <<>> \in DOMAIN tree
    /\ purge \in {"ALWAYS", "NEVER"} /\ pc \in {"idle", "checked", "run"}
    /\ result \in {"none", "CACHED", "EXECUTED", "FAILED", "NOT_RESTORED", "NOT_RECORDED"}
    /\ \A k \in DOMAIN store : store[k].verdict \in {"OK", "FAIL"} /\ k \in {e[3] : e \in prints}

\* Two work spaces that hold the same tracked files get the same fingerprint,
\* whatever else lies there: empty directories, which git does not keep, and
\* ignored files.  Otherwise builds on two checkouts would share nothing.
CheckoutsAgree == \A a, b \in prints : a[1] = b[1] => a[3] = b[3]

\* Tracked files none of which holds the text of a digest.
HoldNoDigest(tracked) == \A i \in Inputs : \A p \in DOMAIN tracked[i] : tracked[i][p] \in Bytes

\* Inputs with equal fingerprints hold the same contents in the same order, unless
\* a file in them holds the text of a digest: an edit, an added or a removed file
\* at any depth is noticed.  (The names are not hashed, a missing input counts as
\* an empty file, and a file that holds the digest of a directory's entry counts as
\* that directory: hasher.ts puts nothing around the digests it is given.)
ContentsAreSeen ==
    \A a, b \in prints : a[3] = b[3] /\ HoldNoDigest(a[1]) /\ HoldNoDigest(b[1]) => a[2] = b[2]

\* After a hit the output locations hold what was recorded and nothing else:
\* recorded again they would give the same bundle.
RestoredIsRecorded == result = "CACHED" => Bundle(tree, Output, Public) = store[fp].bundle

NoDigests == \A e \in prints : HoldNoDigest(e[1])

\* Left to its task by the purger.
IsKept(p) == purge = "NEVER" /\ IsPrefix(Output, p)

\* After a build that passed, each file in the output locations that are purged was
\* written, as it is, by the program when the inputs held what they hold now: no
\* leftover gets into a bundle and none survives a restore.  (That is not so where
\* nothing is purged, or inputs are edited while the program runs, which puts its
\* outputs under the fingerprint of the old contents, or hold digests.)
OutputsAreMade ==
    result \in {"CACHED", "EXECUTED"} /\ ~touched /\ NoDigests =>
        \A p \in Outputs(tree) : IsKept(p) \/ <<Listing(tree), p, tree[p]>> \in wrote

\* Links whose targets are among the files of the bundle, or their directories.
Closed(entries) ==
    \A p \in DOMAIN entries : entries[p].kind = "link" =>
        \E f \in DOMAIN entries : ~IsLink(entries[f]) /\ IsPrefix(entries[p].data, f)

\* A hit fails only if a recorded link leads to another link or out of the
\* bundle, or if the directory of the public file is not there.
HitsAreRestored ==
    result = "NOT_RESTORED" => ~Closed(store[fp].bundle.entries) \/ Front(Public) \notin DOMAIN tree
=============================================================================
