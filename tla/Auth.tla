-------------------------------- MODULE Auth --------------------------------
(***************************************************************************)
(* core/auth.py and core/checkers.py: who is let in.  UserDB answers from  *)
(* a list of rules.  AuthRandom lets a source in after a random number of  *)
(* different combinations of name and password; what it knows is loaded    *)
(* from a file for every attempt and written back afterwards, so that only *)
(* the file is state.  A process that is killed while it writes leaves a   *)
(* file that cannot be read.                                               *)
(*                                                                         *)
(* RepeatedCounts is a seeded fault, used only to show that the property   *)
(* can fail.                                                               *)
(***************************************************************************)
EXTENDS Integers, SequencesExt, FiniteSetsExt

CONSTANTS Sources,             \* IP addresses
          Combinations,        \* names and passwords
          mintry, maxtry, maxcache,
          MaxAttempts          \* bound: login attempts

VARIABLES
    rules,       \* the lines of userdb.txt
    uservar,     \* the file of AuthRandom: its cache and what it knows of sources
    attempts,    \* bound
    answer,      \* the last attempt, and whether both were seen for the first time
    different,   \* history: the combinations a source has tried
    let_in,      \* history: the sources that were let in
    accepted     \* history: the combinations that were accepted

authVars == <<rules, uservar, attempts, answer, different, let_in, accepted>>

Nobody == "nobody"
NoAnswer == [source |-> Nobody, auth |-> FALSE, fresh |-> FALSE]
NoUservar == [cache |-> <<>>, ips |-> [s \in {} |-> 0], read |-> TRUE]

-----------------------------------------------------------------------------
(* UserDB.                                                                 *)

\* A rule is [login, passwd, policy]; "*" matches everything, a pattern the
\* set of what it matches.
match_rule(rule, data) == rule = {"*"} \/ data \in rule

\* load and adduser: a line that is a comment or too short is skipped; the
\* same name and password once more changes the policy of the first.
adduser(db, line) ==
    LET same == {i \in DOMAIN db : db[i].login = line.login /\ db[i].passwd = line.passwd}
    IN IF line.skip THEN db
       ELSE IF same # {} THEN [db EXCEPT ![Min(same)].policy = line.policy]
       ELSE Append(db, line)
load(lines) == FoldLeft(adduser, <<>>, lines)

dbChecklogin(login, passwd) ==
    LET db == load(rules)
        fits == {i \in DOMAIN db : match_rule(db[i].login, login) /\ match_rule(db[i].passwd, passwd)}
    IN fits # {} /\ db[Min(fits)].policy

-----------------------------------------------------------------------------
(* AuthRandom.                                                             *)

\* __init__ and loadvars.
MaxTry == IF maxtry < mintry THEN mintry + 1 ELSE maxtry
loadvars == IF uservar.read THEN uservar ELSE NoUservar

\* A combination that was tried before is not counted again.
RepeatedCounts(info, c) == FALSE
Repeated(info, c) == c \in info.tried

Capped(cache) == IF Len(cache) > maxcache THEN Tail(cache) ELSE cache

\* What is known of the source afterwards, the cache, and the answer.  After
\* a login the name is compared with what str() made of it, which never
\* matches: the stored combination is only accepted from the cache.
Checked(info, cache, c) ==
    LET try == info.try + 1
    IN IF Contains(cache, c)
       THEN [info |-> [info EXCEPT !.max = 1, !.user = c], cache |-> cache, auth |-> TRUE]
       ELSE IF Repeated(info, c) THEN [info |-> info, cache |-> cache, auth |-> FALSE]
       ELSE IF try < info.max
       THEN [info |-> [info EXCEPT !.try = try, !.tried = @ \cup {c}], cache |-> cache, auth |-> FALSE]
       ELSE IF try = info.max
       THEN [info |-> [info EXCEPT !.try = try, !.user = c], cache |-> Capped(Append(cache, c)), auth |-> TRUE]
       ELSE IF info.user = Nobody
       THEN [info |-> [info EXCEPT !.try = 1, !.tried = @ \cup {c}], cache |-> cache, auth |-> FALSE]
       ELSE [info |-> [info EXCEPT !.try = try], cache |-> cache, auth |-> FALSE]

\* checklogin: a source that comes for the first time is given a number.
checklogin(s, c) ==
    LET vars == loadvars
        New(need) == [try |-> 0, max |-> need, tried |-> {}, user |-> Nobody]
    IN \E need \in mintry..MaxTry :
         LET result == Checked(IF s \in DOMAIN vars.ips THEN vars.ips[s] ELSE New(need), vars.cache, c)
         IN /\ uservar' = [read |-> TRUE, cache |-> result.cache,
                           ips |-> [t \in DOMAIN vars.ips \cup {s} |->
                                        IF t = s THEN result.info ELSE vars.ips[t]]]
            /\ answer' = [source |-> s, auth |-> result.auth,
                           fresh |-> s \notin let_in /\ c \notin accepted]

\* checkUserPass, with the class that is configured.
checkUserPass(s, c) ==
    /\ attempts < MaxAttempts
    /\ attempts' = attempts + 1
    /\ checklogin(s, c)
    /\ different' = [different EXCEPT ![s] = @ \cup {c}]
    /\ let_in' = IF answer'.auth THEN let_in \cup {s} ELSE let_in
    /\ accepted' = IF answer'.auth THEN accepted \cup {c} ELSE accepted
    /\ UNCHANGED rules

\* The process dies while savevars writes: the answer was not given.
CrashInSavevars ==
    /\ uservar' = [uservar EXCEPT !.read = FALSE]
    /\ answer' = NoAnswer
    /\ different' = [s \in Sources |-> {}]
    /\ UNCHANGED <<rules, attempts, let_in, accepted>>

\* The same with UserDB: rules with one name each.
dbCheckUserPass(s, c) ==
    /\ attempts = 0
    /\ attempts' = 1
    /\ answer' = [source |-> s, auth |-> dbChecklogin("name", c), fresh |-> TRUE]
    /\ UNCHANGED <<rules, uservar, different, let_in, accepted>>

AuthInit ==
    /\ \E lines \in BoundedSeq([login : {{"*"}, {"name"}}, passwd : {{"*"}} \cup {{c} : c \in Combinations},
                                policy : BOOLEAN, skip : BOOLEAN], 2) : rules = lines
    /\ uservar = NoUservar /\ attempts = 0 /\ answer = NoAnswer
    /\ different = [s \in Sources |-> {}] /\ let_in = {} /\ accepted = {}

AuthNext ==
    \/ \E s \in Sources, c \in Combinations :
          \/ rules = <<>> /\ checkUserPass(s, c)
          \/ rules # <<>> /\ dbCheckUserPass(s, c)
    \/ rules = <<>> /\ uservar.read /\ CrashInSavevars

-----------------------------------------------------------------------------
(* Properties.                                                             *)

Random == rules = <<>> /\ answer # NoAnswer

\* A source that was never let in before, with a combination that nobody got
\* in with, is let in by AuthRandom only after at least mintry and at most
\* MaxTry different combinations, however often it repeats itself and whatever
\* other sources do in between; after as many it is (AuthRandom.checklogin,
\* auth.py 176-264).
RandomAttempts ==
    Random =>
        /\ answer.auth /\ answer.fresh =>
              Cardinality(different[answer.source]) \in mintry..MaxTry
        /\ \A s \in Sources \ let_in : Cardinality(different[s]) < MaxTry
=============================================================================
