------------------------------ MODULE MCFiles -------------------------------
(***************************************************************************)
(* FileSystem and FsCtl, one behaviour being one of the two: `part' says   *)
(* which, and the state of the other does not move.                        *)
(***************************************************************************)
EXTENDS FileSystem

CONSTANT MaxEdits

VARIABLES fs, pickle, pwd, open, edits, part

Rel(p) == [abs |-> FALSE, parts |-> p]
Abs(p) == [abs |-> TRUE, parts |-> p]

MCArgs == {Rel(<<"n">>), Abs(<<"h">>), Rel(<<"d">>), Abs(<<"d", "n">>),
           Abs(<<"d", "l">>), Rel(<<"..", "e">>)}
MCCtlArgs == {Abs(<<>>), Rel(<<"n">>), Abs(<<"h">>), Abs(<<"d">>), Abs(<<"d", "n">>),
              Abs(<<"n", "n">>), Rel(<<"..", "e">>)}

editorVars == <<fs, pickle, pwd, open, edits>>
Ctl == INSTANCE FsCtl WITH CtlArgs <- MCCtlArgs

MCInit == Init /\ Ctl!CtlInit(Shipped) /\ part \in {"session", "editor"}
MCNext ==
    /\ UNCHANGED part
    /\ \/ part = "session" /\ Next /\ UNCHANGED editorVars
       \/ part = "editor" /\ Ctl!CtlNext /\ UNCHANGED fileVars
MCSpec == MCInit /\ [][MCNext]_<<fileVars, editorVars, part>>

\* FsCtl's TreeIsSaved and MovedIsKept: every command of the editor leaves a
\* tree, which is what the pickle holds, and mv loses nothing but a directory
\* that is moved into itself (fsctl.py 143-160, 256-258, 395-647).
EditedIsSaved ==
    [][part = "editor" => Ctl!TreeIsSaved' /\ Ctl!MovedIsKept]_<<editorVars, part>>
=============================================================================
