----------------------------- MODULE FileSystem -----------------------------
(***************************************************************************)
(* The files of one session: the virtual tree of shell/fs.py, changed by   *)
(* the commands of commands/fs.py, by output redirection (shell/pipe.py),  *)
(* by downloads and by the SFTP server (shell/filetransfer.py), and the    *)
(* files on the host that hold contents: the ones of honeyfs, which every  *)
(* session shares, temporary ones, and the artifacts, named by the hash of *)
(* what they hold.  An operation that refuses or raises before it has      *)
(* changed anything is a step that changes nothing and is left out.        *)
(*                                                                         *)
(* NeedsNewBackingAny and mkfileKeeps are seeded faults, used only to show *)
(* that a property can fail.                                               *)
(***************************************************************************)
EXTENDS FileTree

CONSTANTS Args,        \* the paths commands are given: [abs, parts]
          Fds,         \* descriptors of open SFTP files
          Quota,       \* 10000: mkfile and mkdir refuse beyond it
          MaxLen,      \* bound: writes a host file has taken
          MaxChanges   \* bound: changes made by a session

VARIABLES
    tree,
    host,        \* the files on the host: from <<place, id>> to what was written
    newcount,
    cwd,
    tempfiles,   \* open descriptors: the virtual name and the temporary file
    twins,       \* history: an entry was put where it does not belong, see below
    changes

fileVars == <<tree, host, newcount, cwd, tempfiles, twins, changes>>

Honeyfs == <<"honeyfs", 0>>
Original == <<"original">>

\* The tree that is shipped: /d with a link to /e in it, /e, and /h, whose
\* contents are in honeyfs.
Shipped ==
    [n \in 1..5 |->
        CASE n = 1 -> [Entry("", "dir", NoFile) EXCEPT !.kids = <<2, 4, 5>>]
          [] n = 2 -> [Entry("d", "dir", NoFile) EXCEPT !.kids = <<3>>]
          [] n = 3 -> Entry("l", "link", NoFile)
          [] n = 4 -> Entry("e", "dir", NoFile)
          [] n = 5 -> Entry("h", "file", NoFile)]

\* init_honeyfs: a file of honeyfs backs the entry of the same path.
WithHoneyfs(t) ==
    LET n == GetEntry(t, <<"h">>) IN IF n = None THEN t ELSE [t EXCEPT ![n].real = Honeyfs]

Init ==
    /\ tree = WithHoneyfs(Shipped)
    /\ host = [f \in {Honeyfs} |-> Original]
    /\ newcount = 0 /\ cwd = <<>> /\ twins = FALSE /\ changes = 0
    /\ tempfiles = [fd \in {} |-> <<>>]

-----------------------------------------------------------------------------
(* Paths and the operations of fs.py.                                      *)

\* resolve_path: .. takes one name away, at the top nothing.
resolve_path(arg) ==
    FoldLeft(LAMBDA at, p : IF p # ".." THEN Append(at, p)
                            ELSE IF at = <<>> THEN at ELSE Front(at),
             IF arg.abs THEN <<>> ELSE cwd, arg.parts)
Basename(arg) == Last(arg.parts)
Parent(path) == IF path = <<>> THEN path ELSE Front(path)

\* mkfile: the first entry of that name goes, whatever it is.
CanMkfile(path) == newcount <= Quota /\ path # <<>> /\ GetPath(tree, Parent(path)) # None
mkfileKeeps(path) ==
    Added(tree, GetPath(tree, Parent(path)), Entry(Last(path), "file", NoFile))
mkfile(path) ==
    LET dir == GetPath(tree, Parent(path))
    IN Added(WithoutFirst(tree, dir, Last(path)), dir, Entry(Last(path), "file", NoFile))

\* What mkfile answers is not looked at: beyond the quota SFTP and the
\* downloads go on with the entry that is there, if there is one.
MkfileReturns(path) == CanMkfile(path) \/ newcount > Quota
AfterMkfile(path) == IF newcount > Quota THEN tree ELSE mkfile(path)
CountAfterMkfile == IF newcount > Quota THEN newcount ELSE newcount + 1

\* update_realfile: only an entry that has no host file yet gets one; without
\* an entry (a broken link of the same name hides it) it raises.
update_realfile(t, n, f) ==
    IF n # None /\ t[n].real = NoFile THEN [t EXCEPT ![n].real = f] ELSE t

Put(f, data) == [g \in DOMAIN host \cup {f} |-> IF g = f THEN data ELSE host[g]]
Data(f) == IF f \in DOMAIN host THEN host[f] ELSE <<>>
NewTemp == <<"tmp", CHOOSE i \in 1..(MaxChanges + 1) :
                        /\ <<"tmp", i>> \notin DOMAIN host
                        /\ \A n \in DOMAIN tree : tree[n].real # <<"tmp", i>>
                        /\ \A j \in 1..(i - 1) :
                               \/ <<"tmp", j>> \in DOMAIN host
                               \/ \E n \in DOMAIN tree : tree[n].real = <<"tmp", j>> >>

\* What a change leaves: entries nothing refers to are gone.
Tree(t) ==
    /\ changes' = changes + 1
    /\ tree' = Reachable(t)
    /\ Cardinality(DOMAIN tree') <= MaxEntries

-----------------------------------------------------------------------------
(* The commands that change the tree.                                      *)

\* mkdir asks getfile whether the path is taken, and a broken link is not
\* there for getfile; the new entry is appended next to it.
Mkdir(path) ==
    LET dir == GetPath(tree, Parent(path))
    IN /\ ~Exists(tree, path) /\ newcount <= Quota /\ dir # None
       /\ Tree(Added(tree, dir, Entry(Last(path), "dir", NoFile)))
       /\ newcount' = newcount + 1
       /\ twins' = (twins \/ FirstNamed(tree, dir, Last(path)) # None)
       /\ UNCHANGED <<host, cwd, tempfiles>>
Command_mkdir(a) == Mkdir(resolve_path(a))

Command_rmdir(a) ==
    LET path == resolve_path(a)
        n == GetPath(tree, path)
        dir == GetPath(tree, Parent(path))
        i == IF dir = None THEN None ELSE FirstNamed(tree, dir, Basename(a))
    IN /\ n # None /\ tree[n].kids = <<>>
       /\ i # None /\ tree[i].type = "dir"
       /\ Tree(Removed(tree, dir, i))
       /\ UNCHANGED <<host, newcount, cwd, tempfiles, twins>>

Command_rm(a, recursive) ==
    LET path == resolve_path(a)
        dir == GetPath(tree, Parent(path))
        goes(k) == tree[k].name = Last(path) /\ (tree[k].type = "dir" => recursive)
    IN /\ path # <<>> /\ dir # None /\ GetPath(tree, path) # None
       /\ \E k \in ToSet(tree[dir].kids) : goes(k)
       /\ Tree([tree EXCEPT ![dir].kids = SelectSeq(@, LAMBDA k : ~goes(k))])
       /\ UNCHANGED <<host, newcount, cwd, tempfiles, twins>>

\* Where cp and mv put their source: into a directory under its own name, or
\* under the name the destination ends in.
Into(a, b) ==
    LET dest == resolve_path(b)
    IN IF IsDir(tree, dest) THEN [dir |-> GetPath(tree, dest), name |-> Basename(a)]
       ELSE IF Exists(tree, Parent(dest))
            THEN [dir |-> GetPath(tree, Parent(dest)), name |-> Basename(b)]
            ELSE [dir |-> None, name |-> Basename(b)]

Command_cp(a, b, recursive) ==
    LET src == resolve_path(a)
        to == Into(a, b)
        s == GetFile(tree, src)
        there == FirstNamed(tree, to.dir, to.name)
        copied == Copied(tree, s, to.dir, to.name)
    IN /\ s # None /\ to.dir # None /\ (IsDir(tree, src) => recursive)
       /\ Cardinality(DOMAIN tree) + Cardinality(Below(tree, s)) <= MaxEntries
       /\ Tree(IF there = None THEN copied ELSE Removed(copied, to.dir, there))
       /\ UNCHANGED <<host, newcount, cwd, tempfiles, twins>>

\* mv appends the entry, renamed, and then takes it out of the directory its
\* path was in.  What has that name already stays.  A link is followed: its
\* target is renamed, and if it is in another directory it stays there as well
\* (ValueError) or is taken out of the place it was just put.
Command_mv(a, b) ==
    LET src == resolve_path(a)
        to == Into(a, b)
        s == GetFile(tree, src)
        moved == Attached(Renamed(tree, s, to.name), to.dir, s)
        sdir == GetPath(moved, Parent(src))
        found == sdir # None /\ Listed(moved, sdir, s)
    IN /\ s \notin {None, Root} /\ to.dir # None
       /\ Tree(IF found THEN Removed(moved, sdir, s) ELSE moved)
       /\ twins' = (\/ twins
                    \/ GetEntry(tree, src) # s
                    \/ \E k \in ToSet(Named(tree, to.dir, to.name)) : k # s)
       /\ UNCHANGED <<host, newcount, cwd, tempfiles>>

Command_touch(a) ==
    LET path == resolve_path(a)
    IN /\ Exists(tree, Parent(path)) /\ ~Exists(tree, path) /\ CanMkfile(path)
       /\ Tree(mkfile(path))
       /\ newcount' = newcount + 1
       /\ UNCHANGED <<host, cwd, tempfiles, twins>>

Command_cd(a) ==
    /\ IsDir(tree, resolve_path(a))
    /\ cwd' = resolve_path(a) /\ cwd' # cwd
    /\ Tree(tree)
    /\ UNCHANGED <<host, newcount, tempfiles, twins>>

-----------------------------------------------------------------------------
(* Contents: redirection and downloads.                                    *)

RealFile(n) == IF n = None THEN NoFile ELSE tree[n].real
NeedsNewBackingAny(n) == RealFile(n) = NoFile
\* A file of honeyfs is never written to: the entry is replaced.
_needs_new_backing(n) == RealFile(n) \in {NoFile, Honeyfs}

\* A command with > or >> and one write.  Beyond the quota the entry is not
\* replaced: what is written goes to a file nothing refers to, and where there
\* is no entry the command raises.
RedirectNew(a) ==
    LET path == resolve_path(a)
        made == mkfile(path)
    IN /\ _needs_new_backing(GetFile(tree, path)) /\ CanMkfile(path)
       /\ Tree(update_realfile(made, GetFile(made, path), NewTemp))
       /\ newcount' = newcount + 1
       /\ host' = Put(NewTemp, IF GetFile(made, path) = None THEN <<>> ELSE <<"w">>)
       /\ UNCHANGED <<cwd, tempfiles, twins>>
RedirectQuota(a) ==
    LET n == GetFile(tree, resolve_path(a))
        raises == n = None
    IN /\ _needs_new_backing(n) /\ newcount > Quota
       /\ Tree(IF raises THEN tree ELSE update_realfile(tree, n, NewTemp))
       /\ host' = Put(NewTemp, IF raises THEN <<>> ELSE <<"w">>)
       /\ UNCHANGED <<newcount, cwd, tempfiles, twins>>
RedirectReuse(a, append) ==
    LET n == GetFile(tree, resolve_path(a))
    IN /\ ~_needs_new_backing(n)
       /\ (append => Len(Data(tree[n].real)) < MaxLen)
       /\ Tree(tree)
       /\ host' = Put(tree[n].real, IF append THEN Append(Data(tree[n].real), "w") ELSE <<"w">>)
       /\ UNCHANGED <<newcount, cwd, tempfiles, twins>>

\* The end of a download: the artifact is on the host under its hash, and
\* becomes the contents of the file, unless it has some already.
Download(a) ==
    LET path == resolve_path(a)
        sha == <<"sha", "x">>
        made == AfterMkfile(path)
    IN /\ MkfileReturns(path)
       /\ Tree(update_realfile(made, GetFile(made, path), sha))
       /\ newcount' = CountAfterMkfile
       /\ host' = IF sha \in DOMAIN host THEN host ELSE Put(sha, <<"x">>)
       /\ UNCHANGED <<cwd, tempfiles, twins>>

-----------------------------------------------------------------------------
(* SFTP.  Its paths are absolute.                                          *)

\* Opening for writing.  Without O_CREAT the host file cannot be opened, and
\* the new entry is left behind.
OpenFile(a, fd) ==
    LET made == AfterMkfile(a.parts)
    IN /\ a.abs /\ fd \notin DOMAIN tempfiles /\ MkfileReturns(a.parts)
       /\ Tree(update_realfile(made, GetFile(made, a.parts), NewTemp))
       /\ newcount' = CountAfterMkfile
       /\ host' = Put(NewTemp, <<>>)
       /\ tempfiles' = IF GetFile(made, a.parts) = None THEN tempfiles
                       ELSE [g \in DOMAIN tempfiles \cup {fd} |->
                               IF g = fd THEN [name |-> a.parts, temp |-> NewTemp] ELSE tempfiles[g]]
       /\ UNCHANGED <<cwd, twins>>
OpenFails(a) ==
    /\ a.abs /\ CanMkfile(a.parts)
    /\ Tree(mkfile(a.parts))
    /\ newcount' = newcount + 1
    /\ UNCHANGED <<host, cwd, tempfiles, twins>>

writeChunk(fd) ==
    LET f == tempfiles[fd].temp
    IN /\ Len(Data(f)) < MaxLen
       /\ f \in DOMAIN host
       /\ Tree(tree)
       /\ host' = Put(f, Append(host[f], "x"))
       /\ UNCHANGED <<newcount, cwd, tempfiles, twins>>

\* close: the temporary file becomes an artifact.  The entry already has a
\* host file, the temporary one, so it is not told of the new name; if the
\* entry is gone update_realfile raises and the descriptor stays.
Close(fd) ==
    LET f == tempfiles[fd].temp
        sha == <<"sha", IF host[f] = <<>> THEN "" ELSE IF host[f] = <<"x">> THEN "x" ELSE "other">>
        n == GetFile(tree, tempfiles[fd].name)
    IN /\ f \in DOMAIN host
       /\ host' = [g \in (DOMAIN host \cup {sha}) \ {f} |->
                     IF g \in DOMAIN host THEN host[g] ELSE host[f]]
       /\ Tree(IF n = None THEN tree ELSE update_realfile(tree, n, sha))
       /\ tempfiles' = IF n = None THEN tempfiles
                       ELSE [g \in DOMAIN tempfiles \ {fd} |-> tempfiles[g]]
       /\ UNCHANGED <<newcount, cwd, twins>>

removeFile(a) ==
    LET n == GetEntry(tree, a.parts)
        dir == GetPath(tree, Parent(a.parts))
    IN /\ a.abs /\ n # None /\ dir # None /\ Listed(tree, dir, n)
       /\ Tree(Removed(tree, dir, n))
       /\ UNCHANGED <<host, newcount, cwd, tempfiles, twins>>

\* rename takes the entry out before it looks for the new directory: if there
\* is none the file is lost.
renameFile(a, b) ==
    LET old == GetFile(tree, a.parts)
        dir == GetPath(tree, Parent(a.parts))
        out == Renamed(Removed(tree, dir, old), old, Last(b.parts))
        to == GetPath(out, Parent(b.parts))
    IN /\ a.abs /\ b.abs /\ old # None /\ ~Exists(tree, b.parts)
       /\ dir # None /\ Listed(tree, dir, old)
       /\ Tree(IF to = None THEN out ELSE Attached(out, to, old))
       /\ twins' = (twins \/ (to # None /\ FirstNamed(out, to, Last(b.parts)) # None))
       /\ UNCHANGED <<host, newcount, cwd, tempfiles>>

makeDirectory(a) == a.abs /\ Mkdir(a.parts)

removeDirectory(a) ==
    LET n == GetEntry(tree, a.parts)
        dir == GetPath(tree, Parent(a.parts))
    IN /\ a.abs /\ n # None /\ tree[n].type = "dir" /\ dir # None
       /\ GetPath(tree, a.parts) # None /\ tree[GetPath(tree, a.parts)].kids = <<>>
       /\ Tree(Removed(tree, dir, FirstNamed(tree, dir, Last(a.parts))))
       /\ UNCHANGED <<host, newcount, cwd, tempfiles, twins>>

setAttrs(a) ==
    /\ a.abs /\ Exists(tree, a.parts)
    /\ tree[GetFile(tree, a.parts)].attr = 0
    /\ Tree([tree EXCEPT ![GetFile(tree, a.parts)].attr = 1])
    /\ UNCHANGED <<host, newcount, cwd, tempfiles, twins>>

-----------------------------------------------------------------------------

Change ==
    \/ \E a \in Args :
          \/ Command_mkdir(a) \/ Command_rmdir(a) \/ Command_touch(a) \/ Command_cd(a)
          \/ RedirectNew(a) \/ RedirectQuota(a) \/ Download(a)
          \/ OpenFails(a) \/ removeFile(a) \/ makeDirectory(a) \/ removeDirectory(a)
          \/ setAttrs(a)
          \/ \E fd \in Fds : OpenFile(a, fd)
          \/ \E yes \in BOOLEAN : Command_rm(a, yes) \/ RedirectReuse(a, yes)
          \/ \E b \in Args : Command_mv(a, b) \/ renameFile(a, b)
          \/ \E b \in Args, yes \in BOOLEAN : Command_cp(a, b, yes)
    \/ \E fd \in DOMAIN tempfiles : writeChunk(fd) \/ Close(fd)

Next == changes < MaxChanges /\ Change

Spec == Init /\ [][Next]_fileVars

-----------------------------------------------------------------------------
(* Properties.                                                             *)

\* No command and no SFTP request of a session writes to a file of honeyfs,
\* which all sessions share (_needs_new_backing, pipe.py 174-182): copies and
\* moved entries that still refer to one included.
HoneyfsUntouched == host[Honeyfs] = Original

\* The tree stays a tree, with one entry of a name in a directory, so that
\* getfile (which finds the last) and get_path (which finds the first) speak
\* of the same file; unless mv was given a link, or a destination that exists,
\* or a directory or a renamed file was made beside a broken link.
TreeKept == ~twins => GoodTree(tree)

\* What is saved is there for later inspection: a file named by a hash holds
\* what has that hash (close, fs.py 487-512, and the download commands).
ArtifactsIntact ==
    \A f \in DOMAIN host : f = <<"sha", "x">> => host[f] = <<"x">>
=============================================================================
