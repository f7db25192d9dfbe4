-------------------------------- MODULE FsCtl -------------------------------
(***************************************************************************)
(* scripts/fsctl.py: the editor of the file system that is shipped.  Every *)
(* change is written to the pickle at once; if that fails the editor ends, *)
(* and the file it opened for writing may be left cut short.  Its paths do *)
(* not follow links.  A load onto a directory is not refused: the list of  *)
(* what is below becomes the bytes of a file, and a later path that leads  *)
(* through it ends the editor, by an exception nothing catches.            *)
(*                                                                         *)
(* TakenOff is a seeded fault, used only to show that a property can fail. *)
(***************************************************************************)
EXTENDS FileTree

CONSTANTS CtlArgs,    \* the paths commands are given: [abs, parts]
          MaxEdits    \* bound: changes made in one sitting

VARIABLES
    fs,       \* the tree in memory
    pickle,   \* what the file on disk holds, <<>> if it was cut short
    pwd,
    open,     \* the editor runs
    edits

CtlInit(shipped) ==
    /\ fs = shipped /\ pickle = shipped
    /\ pwd = <<>> /\ open = TRUE /\ edits = 0

\* resolve_reference
Resolved(arg) ==
    FoldLeft(LAMBDA at, p : IF p # ".." THEN Append(at, p)
                            ELSE IF at = <<>> THEN at ELSE Front(at),
             IF arg.abs THEN <<>> ELSE pwd, arg.parts)
Up(path) == IF path = <<>> THEN path ELSE Front(path)
There(path) == FsctlPath(fs, path) # None
Type(path) == fs[FsctlPath(fs, path)].type

\* The attr of an entry that was loaded: it holds bytes where a list was.
Bytes == 2
ThroughBytes(path) ==
    \E i \in 0..(Len(path) - 1) :
        LET n == FsctlPath(fs, SubSeq(path, 1, i)) IN n # None /\ fs[n].attr = Bytes

\* A change and save_pickle.
Changed(t) ==
    /\ open /\ edits' = edits + 1
    /\ fs' = Reachable(t)
    /\ Cardinality(DOMAIN fs') <= MaxEntries
    /\ \/ pickle' = fs' /\ open' = open
       \/ pickle' = <<>> /\ open' = FALSE

\* A new entry has the owner and the mode of its directory.
Made(t, path, type) ==
    LET dir == FsctlPath(t, Front(path))
    IN Added(t, dir, [Entry(Last(path), type, NoFile) EXCEPT !.attr = t[dir].attr])

\* mkfile: a directory that is missing is made first, with the ones it needs,
\* and saved.
mkfile(a, type) ==
    LET path == Resolved(a)
        missing(t) == {i \in 1..(Len(path) - 1) : FsctlPath(t, SubSeq(path, 1, i)) = None}
        parents == FoldLeft(LAMBDA t, i : IF i \in missing(t) THEN Made(t, SubSeq(path, 1, i), "dir") ELSE t,
                            fs, [i \in 1..Len(path) |-> i])
    IN /\ path # <<>> /\ ~There(path) /\ ~ThroughBytes(path)
       /\ Changed(Made(parents, path, type))
       /\ UNCHANGED pwd

do_cd(a) ==
    /\ open /\ There(Resolved(a)) /\ Type(Resolved(a)) = "dir"
    /\ pwd' = Resolved(a)
    /\ UNCHANGED <<fs, pickle, open, edits>>

do_rm(a, recursive) ==
    LET path == Resolved(a)
    IN /\ There(path) /\ path # <<>> /\ (Type(path) = "dir" => recursive)
       /\ Changed(Removed(fs, FsctlPath(fs, Front(path)), FsctlPath(fs, path)))
       /\ UNCHANGED pwd

\* Only rmdir looks after the directory the editor is in.
do_rmdir(a) ==
    LET path == Resolved(a)
    IN /\ There(path) /\ path # <<>> /\ Type(path) = "dir"
       /\ fs[FsctlPath(fs, path)].kids = <<>>
       /\ Changed(Removed(fs, FsctlPath(fs, Front(path)), FsctlPath(fs, path)))
       /\ pwd' = IF pwd = path /\ open' THEN Up(pwd) ELSE pwd

\* ls sorts the list of the directory itself, and does not save it.
NameOrder == <<"d", "e", "h", "l", "n">>
do_ls(a) ==
    LET n == FsctlPath(fs, Resolved(a))
        before(k, m) == \E i, j \in DOMAIN NameOrder :
                           i < j /\ fs[k].name = NameOrder[i] /\ fs[m].name = NameOrder[j]
    IN /\ open /\ n # None /\ fs[n].type = "dir" /\ fs[n].attr # Bytes
       /\ fs' = [fs EXCEPT ![n].kids = SortSeq(@, before)]
       /\ UNCHANGED <<pickle, pwd, open, edits>>

TakenOff(dir, name) == FALSE
\* A name that is taken is refused.  The root's own name, "/", leads back to
\* the directory it would be put in.
Taken(dir, name) == name = fs[Root].name \/ FirstNamed(fs, dir, name) # None

\* Where mv and cp put their source.
To(src, dst) ==
    IF There(dst) /\ Type(dst) = "dir"
    THEN [dir |-> FsctlPath(fs, dst), name |-> fs[FsctlPath(fs, src)].name]
    ELSE [dir |-> FsctlPath(fs, Up(dst)), name |-> Last(dst)]

\* mv appends a copy that shares the list of what is below, and takes the
\* source out: the same entry in a new place.  The test that should leave the
\* directory that is moved away compares a path with its slash to one without.
do_mv(a, b) ==
    LET src == Resolved(a)
        dst == Resolved(b)
        n == FsctlPath(fs, src)
        dir == FsctlPath(fs, Front(src))
        to == To(src, dst)
        moved == Attached(Renamed(Removed(fs, dir, n), n, to.name), to.dir, n)
    IN /\ src # <<>> /\ There(src)
       /\ to.dir # None /\ fs[to.dir].attr # Bytes /\ ~Taken(to.dir, to.name)
       /\ Changed(moved)
       /\ UNCHANGED pwd

do_cp(a, b) ==
    LET src == Resolved(a)
        to == To(src, Resolved(b))
    IN /\ There(src)
       /\ to.dir # None /\ fs[to.dir].attr # Bytes /\ ~Taken(to.dir, to.name)
       /\ Cardinality(DOMAIN fs) + Cardinality(Below(fs, FsctlPath(fs, src))) <= MaxEntries
       /\ Changed(Copied(fs, FsctlPath(fs, src), to.dir, to.name))
       /\ UNCHANGED pwd

\* chown, chgrp and chmod, not of a link
Edited(a, what) ==
    LET n == FsctlPath(fs, Resolved(a))
    IN /\ n # None
       /\ what = "chmod" => fs[n].type # "link"
       /\ Changed([fs EXCEPT ![n].attr = IF @ = Bytes THEN Bytes ELSE 1])
       /\ UNCHANGED pwd

\* load does not look at what it writes over: what was below is gone.
do_load(a) ==
    LET n == FsctlPath(fs, Resolved(a))
    IN /\ n # None
       /\ Changed([fs EXCEPT ![n].attr = Bytes, ![n].kids = <<>>])
       /\ UNCHANGED pwd

\* A path through bytes, ls of them or something put into them: an exception.
Raises(a) ==
    LET n == FsctlPath(fs, Resolved(a))
    IN /\ open
       /\ ThroughBytes(Resolved(a)) \/ (n # None /\ fs[n].type = "dir" /\ fs[n].attr = Bytes)
       /\ open' = FALSE
       /\ UNCHANGED <<fs, pickle, pwd, edits>>

CtlChange ==
    \E a \in CtlArgs :
        \/ mkfile(a, "dir") \/ mkfile(a, "file") \/ do_cd(a) \/ do_rmdir(a)
        \/ do_ls(a) \/ do_load(a) \/ Raises(a)
        \/ \E yes \in BOOLEAN : do_rm(a, yes)
        \/ \E b \in CtlArgs : do_mv(a, b) \/ do_cp(a, b)
        \/ \E what \in {"chown", "chgrp", "chmod"} : Edited(a, what)

CtlNext == edits < MaxEdits /\ CtlChange

-----------------------------------------------------------------------------
(* Properties.                                                             *)

\* The same entries in the same places, but for the order of a directory.
SameEntries(t, u) ==
    /\ DOMAIN t = DOMAIN u
    /\ \A n \in DOMAIN t :
          /\ [t[n] EXCEPT !.kids = <<>>] = [u[n] EXCEPT !.kids = <<>>]
          /\ ToSet(t[n].kids) = ToSet(u[n].kids)

\* After any commands the editor's tree is a tree with one entry of a name in
\* a directory, and as long as it runs the pickle is that tree (mkfile, do_mv,
\* do_cp refuse a name that is taken, fsctl.py 395-647; save_pickle 143-160),
\* but for the order ls gave a directory.
TreeIsSaved == GoodTree(fs) /\ (open => SameEntries(pickle, fs))

\* mv shares the list of what is below between the old entry and the new one
\* until the old one is taken out (fsctl.py 582-586): nothing is lost on the
\* way, unless the entry was moved to a place below itself; then it is lost,
\* with all that was in it.
MovedIsKept ==
    \A a, b \in CtlArgs :
        do_mv(a, b) => (DOMAIN fs' # DOMAIN fs <=> IsPrefix(Resolved(a), Resolved(b)))
=============================================================================
