------------------------------- MODULE Filters ------------------------------
(***************************************************************************)
(* The commands that read standard input: from a pipe, from files or from  *)
(* the keyboard until Ctrl-D.  A text is a sequence of lines, a line a     *)
(* sequence of fields, and `nl' says whether the last line is ended.       *)
(*                                                                         *)
(* DedupForgets and TailStart are seeded faults, used only to show that a  *)
(* property can fail.                                                      *)
(***************************************************************************)
EXTENDS Integers, SequencesExt

CONSTANTS Fields,     \* what a line is made of
          MaxLines,   \* bound: lines of a text
          MaxN        \* bound: the count given to head and tail

VARIABLES
    command,
    args,         \* [how, files, n, spec]: what it was called with
    input_data,   \* NoInput, or the text that came through the pipe
    state,        \* "new", "waiting" for the keyboard or "done"
    out,          \* the lines written
    last_line,    \* of uniq
    typed,        \* history: the lines typed
    size,         \* of the files tee writes
    exits         \* how often exit was called

filterVars == <<command, args, input_data, state, out, last_line, typed, size, exits>>

NoInput == [lines |-> <<>>, nl |-> FALSE, none |-> TRUE]
Text(lines, nl) == [lines |-> lines, nl |-> nl, none |-> FALSE]
Lines == BoundedSeq(Fields, 2)
Texts == {Text(ls, nl) : ls \in BoundedSeq(Lines, MaxLines), nl \in BOOLEAN}
\* A text of no lines has no line end, and only a line end shows an empty line.
Good(t) == IF t.lines = <<>> THEN ~t.nl ELSE t.nl \/ Last(t.lines) # <<>>
Empty(t) == t.lines = <<>>

\* split(b"\n") and what is left when the piece after the last line end goes.
Split(t) == IF Empty(t) THEN <<<<>>>> ELSE t.lines \o (IF t.nl THEN <<<<>>>> ELSE <<>>)
Popped(t) == IF Last(Split(t)) = <<>> THEN Front(Split(t)) ELSE Split(t)

-----------------------------------------------------------------------------
(* What each command does with a text.                                     *)

\* A Python slice, s[start:end] with indices from 0.
Slice(s, start, end) ==
    LET at(i) == IF i < 0 THEN (IF Len(s) + i < 0 THEN 0 ELSE Len(s) + i)
                 ELSE IF i > Len(s) THEN Len(s) ELSE i
    IN SubSeq(s, at(start) + 1, at(end))

\* _parse_field_spec: a range is [from, to], to = 0 for "to the end".
_parse_field_spec(spec) ==
    [i \in DOMAIN spec |->
        [start |-> spec[i].from - 1, end |-> IF spec[i].to = 0 THEN 99 ELSE spec[i].to]]
_select_fields(line, spec) ==
    FoldLeft(LAMBDA acc, r : acc \o Slice(line, r.start, r.end), <<>>, _parse_field_spec(spec))
\* A line without the delimiter is passed on as it is.
cutLine(line, spec) == IF Len(line) < 2 THEN line ELSE _select_fields(line, spec)

\* uniq: grep_input, one line after the other.
DedupForgets(lines, prev) == SelectSeq(lines, LAMBDA l : l # prev)
Dedup(lines, prev) ==
    FoldLeft(LAMBDA acc, l : IF acc.last = l THEN acc
                             ELSE [last |-> l, out |-> Append(acc.out, l)],
             [last |-> prev, out |-> <<>>], lines).out

\* tail: range(lines - n - 1, lines); index -1 is the last piece of the text.
TailStart(lines, n) == lines - n
TailFrom(lines, n) == lines - n - 1
tail_application(t, n) ==
    LET pieces == Split(t)
        m == IF Len(pieces) < n THEN Len(pieces) - 1 ELSE n
        from == TailFrom(Len(pieces), m)
    IN [k \in 1..(Len(pieces) - from) |->
          LET j == from + k - 1 IN IF j < 0 THEN Last(pieces) ELSE pieces[j + 1]]

head_application(t, n) == SubSeq(Split(t), 1, IF n < Len(Split(t)) THEN n ELSE Len(Split(t)))
grep_application(t, f) == SelectSeq(Split(t), LAMBDA l : f \in ToSet(l))
\* wc -l, as a line of that many fields
wc_application(t) == <<[i \in 1..(Len(Split(t)) - 1) |-> CHOOSE f \in Fields : TRUE]>>
\* awk '{ print $1 }'
awk_print(t) == [i \in DOMAIN Popped(t) |-> SubSeq(Popped(t)[i], 1, IF Popped(t)[i] = <<>> THEN 0 ELSE 1)]

Apply(t) ==
    CASE command \in {"cat", "tee"} -> Popped(t)
      [] command = "cut" -> [i \in DOMAIN Popped(t) |-> cutLine(Popped(t)[i], args.spec)]
      [] command = "uniq" -> Dedup(Popped(t), last_line)
      [] command = "grep" -> grep_application(t, CHOOSE f \in Fields : TRUE)
      [] command = "head" -> head_application(t, args.n)
      [] command = "tail" -> tail_application(t, args.n)
      [] command = "wc" -> wc_application(t)
      [] command = "awk" -> awk_print(t)
      [] command \in {"dd", "base64"} -> t.lines
      [] OTHER -> <<>>

-----------------------------------------------------------------------------

\* What the files named hold, one after the other.
FromFiles(files) ==
    FoldLeft(LAMBDA acc, f : IF f.kind = "file" THEN acc \o Apply(f.text) ELSE acc, <<>>, files)

Ends(lines, n) ==
    /\ state' = "done" /\ out' = out \o lines /\ exits' = exits + n
    /\ UNCHANGED <<command, args, input_data, typed>>
Finish(lines) == Ends(lines, 1)
Waits(lines) ==
    /\ state' = "waiting" /\ out' = out \o lines
    /\ UNCHANGED <<command, args, input_data, typed, exits>>

Called(name) == state = "new" /\ command = name
\* A wrong option, or --help and --version; no argument at all.
Wrong == args.how \in {"bad", "help"}
Bare == args.how = "none"
\* `if self.input_data': an empty pipe counts as none.
HasInput == ~input_data.none /\ ~Empty(input_data)
Sized(lines) == size' = IF command = "tee" THEN size + Len(lines) ELSE size

\* cat: the files, else the pipe, be it empty, else the keyboard.
cat_start ==
    /\ Called("cat") /\ UNCHANGED <<last_line, size>>
    /\ IF Wrong THEN Finish(<<>>)
       ELSE IF args.files # <<>> THEN Finish(FromFiles(args.files))
       ELSE IF ~input_data.none THEN Finish(Apply(input_data)) ELSE Waits(<<>>)

tee_start ==
    /\ Called("tee") /\ UNCHANGED last_line
    /\ IF ~Wrong /\ HasInput
       THEN Finish(Apply(input_data)) /\ Sized(Apply(input_data))
       ELSE UNCHANGED size /\ IF Wrong THEN Finish(<<>>) ELSE Waits(<<>>)

cut_start ==
    /\ Called("cut") /\ UNCHANGED <<last_line, size>>
    /\ IF Wrong \/ Bare THEN Finish(<<>>)
       ELSE IF HasInput THEN Finish(Apply(input_data))
       ELSE IF args.files # <<>> THEN Finish(FromFiles(args.files)) ELSE Waits(<<>>)

uniq_start ==
    /\ Called("uniq") /\ UNCHANGED size
    /\ IF ~Wrong /\ HasInput
       THEN Finish(Apply(input_data)) /\ last_line' = Last(Popped(input_data))
       ELSE UNCHANGED last_line /\ IF Wrong THEN Finish(<<>>) ELSE Waits(<<>>)

base64_start ==
    /\ Called("base64") /\ UNCHANGED <<last_line, size>>
    /\ IF Wrong \/ Len(args.files) > 1 THEN Finish(<<>>)
       ELSE IF args.files # <<>> THEN Finish(FromFiles(args.files))
       ELSE IF HasInput THEN Finish(Apply(input_data)) ELSE Waits(<<>>)

\* An unknown crypt method ends chpasswd, and so does the input after it.
chpasswd_start ==
    /\ Called("chpasswd") /\ UNCHANGED <<last_line, size>>
    /\ IF HasInput /\ args.how = "bad" THEN \E n \in {1, 2} : Ends(<<>>, n)
       ELSE IF HasInput \/ Wrong THEN Finish(<<>>) ELSE Waits(<<>>)

\* grep, wc and awk say how they are used when nothing is given; wc leaves
\* out the first of its files, awk reads files before the pipe.
grep_start ==
    /\ Called("grep") /\ UNCHANGED <<last_line, size>>
    /\ Finish(IF Wrong \/ Bare THEN <<>>
              ELSE IF HasInput THEN Apply(input_data) ELSE FromFiles(args.files))

wc_start ==
    /\ Called("wc") /\ UNCHANGED <<last_line, size>>
    /\ Finish(IF Wrong \/ Bare THEN <<>>
              ELSE IF HasInput THEN Apply(input_data)
              ELSE IF args.files = <<>> THEN <<>> ELSE FromFiles(Tail(args.files)))

awk_start ==
    /\ Called("awk") /\ UNCHANGED <<last_line, size>>
    /\ Finish(IF Wrong \/ Bare THEN <<>>
              ELSE IF args.files # <<>> THEN FromFiles(args.files)
              ELSE IF HasInput THEN Apply(input_data) ELSE <<>>)

\* Without any argument tail, head and dd wait for the keyboard, whatever the
\* pipe brought.
tail_start ==
    /\ Called("tail") /\ UNCHANGED <<last_line, size>>
    /\ IF Bare THEN Waits(<<>>)
       ELSE Finish(IF Wrong THEN <<>>
                   ELSE IF HasInput THEN Apply(input_data) ELSE FromFiles(args.files))

head_start ==
    /\ Called("head") /\ UNCHANGED <<last_line, size>>
    /\ IF Bare THEN Waits(<<>>)
       ELSE Finish(IF Wrong THEN <<>>
                   ELSE IF HasInput THEN Apply(input_data) ELSE FromFiles(args.files))

\* dd writes what came through the pipe and does not end; an unknown operand
\* ends it, and what came through the pipe is written nevertheless.
dd_start ==
    /\ Called("dd") /\ UNCHANGED <<last_line, size>>
    /\ IF Wrong THEN Finish(IF HasInput THEN Apply(input_data) ELSE <<>>)
       ELSE IF Bare THEN Waits(<<>>)
       ELSE IF HasInput THEN Waits(Apply(input_data))
       ELSE IF args.files # <<>> THEN Finish(FromFiles(args.files)) ELSE Waits(<<>>)

\* python and perl: every script named ends the command, the second one
\* raises; with options alone they wait.
python_start ==
    /\ Called("python") /\ UNCHANGED <<last_line, size>>
    /\ IF Wrong THEN Finish(<<>>)
       ELSE IF args.files = <<>> THEN Waits(<<>>) ELSE Ends(<<>>, Len(args.files))

perl_start ==
    /\ Called("perl") /\ UNCHANGED <<last_line, size>>
    /\ IF Wrong THEN Finish(<<>>)
       ELSE IF args.files = <<>> THEN Waits(<<>>) ELSE Ends(<<>>, Len(args.files))

crontab_start ==
    /\ Called("crontab") /\ UNCHANGED <<last_line, size>>
    /\ IF Wrong THEN Finish(<<>>) ELSE Waits(<<>>)

\* Lines typed: echoing filters work on each; the others only log it.
lineReceived(line) ==
    LET t == Text(<<line>>, FALSE)
        lines == IF command \in {"cat", "tee", "cut", "uniq", "base64"} THEN Apply(t) ELSE <<>>
    IN /\ state = "waiting" /\ Len(typed) < MaxLines
       /\ typed' = Append(typed, line)
       /\ out' = out \o lines
       /\ Sized(lines)
       /\ last_line' = IF command = "uniq" THEN line ELSE last_line
       /\ UNCHANGED <<command, args, input_data, state, exits>>

handle_CTRL_D ==
    /\ state = "waiting"
    /\ Ends(<<>>, 1) /\ UNCHANGED <<last_line, size>>

FilterNext ==
    \/ cat_start \/ tee_start \/ cut_start \/ uniq_start \/ base64_start \/ chpasswd_start
    \/ grep_start \/ wc_start \/ awk_start \/ tail_start \/ head_start \/ dd_start
    \/ python_start \/ perl_start \/ crontab_start \/ handle_CTRL_D
    \/ \E line \in Lines : line # <<>> /\ lineReceived(line)

\* The ranges given to cut.
Specs == {<<[from |-> 1, to |-> 1]>>, <<[from |-> 2, to |-> 0]>>,
          <<[from |-> 1, to |-> 1], [from |-> 2, to |-> 2]>>}

FilterCommands == {"cat", "tee", "cut", "uniq", "grep", "head", "tail", "wc", "awk", "dd",
                   "base64", "chpasswd", "python", "perl", "crontab"}

FilterInit ==
    /\ command \in FilterCommands
    /\ \E how \in {"none", "bad", "help", "ok"}, n \in 0..MaxN, spec \in Specs,
          files \in {<<>>, <<"missing">>, <<"file">>, <<"file", "dir">>}, t \in Texts :
         /\ Good(t)
         /\ how # "ok" => files = <<>>
         /\ how = "help" => command \notin {"grep", "tail", "head", "dd", "crontab"}
         /\ how = "bad" => command # "uniq"
         /\ command \notin {"head", "tail"} => n = 0
         /\ command # "cut" => spec = <<[from |-> 1, to |-> 1]>>
         /\ args = [how |-> how, n |-> n, spec |-> spec,
                    files |-> [i \in DOMAIN files |-> [kind |-> files[i], text |-> t]]]
         /\ \/ input_data = NoInput
            \/ input_data = t /\ (files = <<>> \/ Len(files) = 2)
    /\ state = "new" /\ out = <<>> /\ typed = <<>> /\ size = 0 /\ exits = 0
    /\ last_line = <<"no line">>

-----------------------------------------------------------------------------
(* Properties.                                                             *)

\* What the commands are meant to write, of a text given as lines.
Adjacent(lines) ==
    LET keep == SetToSortSeq({i \in DOMAIN lines : i = 1 \/ lines[i] # lines[i - 1]}, <)
    IN [k \in DOMAIN keep |-> lines[keep[k]]]
InSpec(i, spec) == \E r \in ToSet(spec) : r.from <= i /\ (i <= r.to \/ r.to = 0)
CutReference(line, spec) ==
    LET keep == SetToSortSeq({i \in DOMAIN line : InSpec(i, spec)}, <)
    IN IF Len(line) < 2 THEN line ELSE [k \in DOMAIN keep |-> line[keep[k]]]
Reference(lines) ==
    CASE command = "cut" -> [i \in DOMAIN lines |-> CutReference(lines[i], args.spec)]
      [] command = "uniq" -> Adjacent(lines)
      [] OTHER -> lines

\* cat, tee, cut and uniq write the same whether their text comes through a
\* pipe or is typed line by line, and it is what they promise (uniq.py 71-84,
\* cut.py 79-117): the state kept between two lines makes up for the text that
\* is not seen as a whole.  tee's files are as long as what it wrote.
TypedAsPiped ==
    (state = "done" /\ args.how = "ok" /\ args.files = <<>> /\ command \in {"cat", "tee", "cut", "uniq"})
        => /\ out = Reference(IF typed # <<>> THEN typed ELSE Popped(input_data))
           /\ command = "tee" => size = Len(out)

\* tail writes the last n lines of a text that ends in a line end (after them
\* the empty piece behind it), except when the text has exactly n - 1 lines:
\* then the range starts at -1 and that piece is written first as well
\* (fs.py 137-149).
TailIsLast ==
    (/\ state = "done" /\ command = "tail" /\ args.how = "ok" /\ args.files = <<>>
     /\ input_data.nl /\ Len(Split(input_data)) # args.n) =>
        LET n == Len(input_data.lines)
            k == IF args.n < n THEN args.n ELSE n
        IN out = Append(SubSeq(input_data.lines, n - k + 1, n), <<>>)
=============================================================================
