--------------------------- MODULE TreeValidation ---------------------------
(***************************************************************************)
(* A directory dependency recorded in a trace and validated later:        *)
(* hash_tree and hash_combine of src/src/hash.c, trace_add_dependency and *)
(* trace_validate of src/src/recipe.c, and the user editing the directory *)
(* between the two.                                                        *)
(*                                                                         *)
(* Data abstraction.  A 256-bit hash is a set of atoms and hash_combine   *)
(* (bytewise XOR) is symmetric difference: each atom is the BLAKE2b       *)
(* digest of one distinct byte string (hash_data of a name, hash_file of  *)
(* a content), taken as independent of all the others, so two hashes     *)
(* are equal exactly when XOR forces them to be, never by accident.       *)
(* Names and contents are distinct strings.  A directory is a function   *)
(* from the names of its entries to nodes: a content (a regular file),   *)
(* Unreadable (an entry that hash_tree cannot hash: neither file nor     *)
(* directory, or unreadable), or a sub-directory of files.  readdir,     *)
(* the name sort and the path building are left out: XOR does not        *)
(* depend on the order of the entries.                                     *)
(***************************************************************************)
EXTENDS Naturals, FiniteSetsExt

CONSTANTS
    Names,       \* entry names
    Contents,    \* file contents
    Unreadable,  \* an entry hash_tree fails on
    Missing,     \* the dependency path does not exist
    NoTrace,     \* no dependency hash recorded yet
    MaxEdits     \* bound on the edits of the directory

(* The abstraction needs names and contents to be distinct strings, and  *)
(* Unreadable not to be a content: Names \cap Contents = {},             *)
(* Unreadable \notin Contents, MaxEdits \in Nat.  MCTreeValidation's     *)
(* model values satisfy it.                                               *)

VARIABLES
    tree,      \* the dependency directory on disk, or Missing
    recorded,  \* the hash trace_add_dependency stored for it, or NoTrace
    snapshot,  \* the directory as it was when its hash was recorded
    result,    \* the result of the last trace_validate
    edits      \* edits made so far

vars == <<tree, recorded, snapshot, result, edits>>

(* The nodes a directory entry can be, and the directories. *)
Leaf == Contents \cup {Unreadable}
SubDirs == UNION {[S -> Leaf] : S \in SUBSET Names}
Node == Leaf \cup SubDirs
Dirs == UNION {[S -> Node] : S \in SUBSET Names}

(* hash_data of a string and hash_file of a content: one atom. *)
hash_data(s) == {s}

(* hash_combine: dest ^= src, byte by byte. *)
hash_combine(dest, src) == SymDiff(dest, src)

(***************************************************************************)
(* hash_tree: a regular file hashes as hash_file; a directory starts from *)
(* zero and, for each entry, combines hash_data(name) and then, when the  *)
(* entry can be hashed, the entry's own hash_tree; an entry that cannot   *)
(* be hashed is skipped.  The result is <<ok, hash>>.                    *)
(***************************************************************************)
RECURSIVE hash_tree(_)
hash_tree(n) ==
    IF n \in Contents THEN <<TRUE, hash_data(n)>>
    ELSE IF n = Unreadable THEN <<FALSE, {}>>
    ELSE <<TRUE,
           FoldSet(LAMBDA x, acc :
                     LET sub == hash_tree(n[x])
                         named == hash_combine(acc, hash_data(x))
                     IN IF sub[1] THEN hash_combine(named, sub[2]) ELSE named,
                   {}, DOMAIN n)>>

Init ==
    /\ tree \in Dirs
    /\ recorded = NoTrace
    /\ snapshot = Missing
    /\ result = "none"
    /\ edits = 0

(* The recipe completes and its trace records the directory's hash_tree *)
(* (trace_add_dependency copies the path and the hash).                 *)
trace_add_dependency ==
    /\ recorded = NoTrace
    /\ tree # Missing
    /\ hash_tree(tree)[1]
    /\ recorded' = hash_tree(tree)[2]
    /\ snapshot' = tree
    /\ UNCHANGED <<tree, result, edits>>

(* The user writes, replaces or deletes one top-level entry, deletes   *)
(* the directory, or creates it empty.                                  *)
Edit ==
    /\ edits < MaxEdits
    /\ \/ /\ tree # Missing
          /\ \E x \in Names :
               \/ \E n \in Node : tree' = [y \in DOMAIN tree \cup {x} |->
                                             IF y = x THEN n ELSE tree[y]]
               \/ /\ x \in DOMAIN tree
                  /\ tree' = [y \in DOMAIN tree \ {x} |-> tree[y]]
       \/ tree # Missing /\ tree' = Missing
       \/ tree = Missing /\ tree' = [y \in {} |-> Missing]
    /\ edits' = edits + 1
    /\ UNCHANGED <<recorded, snapshot, result>>

(* trace_validate of a trace holding this one dependency: a missing     *)
(* path fails, a directory is hashed with hash_tree, and the result is  *)
(* compared with the recorded hash.                                     *)
trace_validate ==
    /\ recorded # NoTrace
    /\ result' = IF tree = Missing THEN "miss"
                 ELSE IF ~hash_tree(tree)[1] THEN "miss"
                 ELSE IF hash_tree(tree)[2] = recorded THEN "hit"
                 ELSE "miss"
    /\ UNCHANGED <<tree, recorded, snapshot, edits>>

Next == trace_add_dependency \/ Edit \/ trace_validate

Spec == Init /\ [][Next]_vars

-----------------------------------------------------------------------------
(* Spec section 3 (trace validation, incremental soundness): a cached    *)
(* result is reused only while its dependencies are unchanged, so       *)
(* trace_validate may accept a directory only when it is the directory  *)
(* whose hash the trace recorded.                                        *)
ValidatedTreeUnchanged == result = "hit" => tree = snapshot

=============================================================================
