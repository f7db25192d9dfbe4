------------------------------ MODULE FileTree ------------------------------
(***************************************************************************)
(* The virtual file tree that shell/fs.py and scripts/fsctl.py work on.    *)
(* An entry is a Python list that its directory's list refers to; here it  *)
(* is a number, and a tree is a function from numbers to entries.  What is *)
(* said of an entry is its name, its type, the host file that holds its    *)
(* contents (A_REALFILE) and the entries below it in their order: nothing  *)
(* in the code keeps two entries of a directory from having one name.      *)
(***************************************************************************)
EXTENDS Naturals, FiniteSets, SequencesExt

Root == 1
None == 0          \* no entry
NoFile == <<"none", 0>>   \* no host file
MaxEntries == 8   \* bound: entries at a time
MaxDepth == 6      \* bound: directories in one another

\* attr stands for owner, group, mode and time, and for built-in contents.
Entry(name, type, real) ==
    [name |-> name, type |-> type, real |-> real, attr |-> 0, kids |-> <<>>]

\* The link of the tree that is shipped points to a directory of the root.
LinkTarget == <<"e">>

Named(t, dir, name) == SelectSeq(t[dir].kids, LAMBDA k : t[k].name = name)

FirstNamed(t, dir, name) ==
    LET ks == Named(t, dir, name) IN IF ks = <<>> THEN None ELSE Head(ks)
LastNamed(t, dir, name) ==
    LET ks == Named(t, dir, name) IN IF ks = <<>> THEN None ELSE Last(ks)

\* getfile goes through all entries of a directory, so the last one of a name
\* is found; a link is followed on the way, and a broken one ends the search.
PlainFile(t, path) ==
    FoldLeft(LAMBDA n, name : IF n = None THEN None ELSE LastNamed(t, n, name), Root, path)
Followed(t, n) == IF n # None /\ t[n].type = "link" THEN PlainFile(t, LinkTarget) ELSE n
Broken(t, dir, name) == \E k \in ToSet(Named(t, dir, name)) : Followed(t, k) = None
GetFile(t, path) ==
    FoldLeft(LAMBDA n, name :
               IF n = None \/ Broken(t, n, name) THEN None
               ELSE Followed(t, LastNamed(t, n, name)), Root, path)
\* getfile(..., follow_symlinks=False): the last entry is taken as it is.
GetEntry(t, path) ==
    IF path = <<>> THEN Root
    ELSE LET dir == GetFile(t, Front(path))
         IN IF dir = None THEN None ELSE LastNamed(t, dir, Last(path))

\* get_path stops at the first entry of a name.
GetPath(t, path) ==
    FoldLeft(LAMBDA n, name : IF n = None THEN None ELSE Followed(t, FirstNamed(t, n, name)),
             Root, path)

\* getpath of fsctl: the first entry as well, and links are not followed.
FsctlPath(t, path) ==
    FoldLeft(LAMBDA n, name : IF n = None THEN None ELSE FirstNamed(t, n, name), Root, path)

Exists(t, path) == GetFile(t, path) # None
IsDir(t, path) == Exists(t, path) /\ t[GetFile(t, path)].type = "dir"

-----------------------------------------------------------------------------
(* Changing a tree.                                                        *)

\* The entries below n, itself included, however far down.
Below(t, n) ==
    LET down(s) == s \cup UNION {ToSet(t[m].kids) : m \in s}
    IN FoldLeft(LAMBDA s, i : down(s), {n}, [i \in 1..MaxDepth |-> i])

\* An entry nothing refers to is gone.
Reachable(t) == [n \in Below(t, Root) |-> t[n]]

Free(t) == (1..(2 * MaxEntries)) \ DOMAIN t
NewId(t) == CHOOSE n \in Free(t) : \A m \in Free(t) : n <= m

\* contents.append of a new entry, of one that exists, and contents.remove.
Added(t, dir, entry) ==
    LET n == NewId(t)
    IN [m \in DOMAIN t \cup {n} |->
          IF m = n THEN entry
          ELSE IF m = dir THEN [t[m] EXCEPT !.kids = Append(@, n)] ELSE t[m]]
Attached(t, dir, n) == [t EXCEPT ![dir].kids = Append(@, n)]
Removed(t, dir, n) == [t EXCEPT ![dir].kids = RemoveFirst(@, n)]
Listed(t, dir, n) == n \in ToSet(t[dir].kids)
Renamed(t, n, name) == [t EXCEPT ![n].name = name]

WithoutFirst(t, dir, name) ==
    IF FirstNamed(t, dir, name) = None THEN t ELSE Removed(t, dir, FirstNamed(t, dir, name))

\* copy.deepcopy(entry), appended to a directory under a name: every entry
\* below it is copied, the host files stay shared.
Copied(t, n, dir, name) ==
    LET old == SetToSortSeq(Below(t, n), <)
        new == SetToSortSeq({m \in Free(t) : Cardinality({k \in Free(t) : k < m}) < Len(old)}, <)
        copyOf(m) == new[CHOOSE i \in DOMAIN old : old[i] = m]
        both == [m \in DOMAIN t \cup ToSet(new) |->
                   IF m \in DOMAIN t THEN t[m]
                   ELSE LET o == t[old[CHOOSE i \in DOMAIN new : new[i] = m]]
                        IN [o EXCEPT !.kids = [i \in DOMAIN o.kids |-> copyOf(o.kids[i])]]]
    IN Attached(Renamed(both, copyOf(n), name), dir, copyOf(n))

-----------------------------------------------------------------------------
(* What a good tree is.                                                    *)

DistinctNames(t) ==
    \A n \in DOMAIN t : \A i, j \in DOMAIN t[n].kids :
        i # j => t[t[n].kids[i]].name # t[t[n].kids[j]].name

OneParent(t) ==
    \A n \in DOMAIN t \ {Root} :
        /\ n \notin ToSet(t[n].kids)
        /\ Cardinality({p \in (DOMAIN t) \X (1..MaxEntries) :
                            p[2] \in DOMAIN t[p[1]].kids /\ t[p[1]].kids[p[2]] = n}) = 1

GoodTree(t) == DistinctNames(t) /\ OneParent(t)
=============================================================================
