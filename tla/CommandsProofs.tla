--------------------------- MODULE CommandsProofs ---------------------------
(***************************************************************************)
(* Proofs about the commands of the shell, as MCCommands runs them.        *)
(***************************************************************************)
EXTENDS MCCommands, FiniteSetTheorems, SequenceTheorems, TLAPS

commandsVars == <<part, treeVars, rateVars, downloadVars, filterVars, dialogVars>>

-----------------------------------------------------------------------------
(* Files: nothing a session does is written to a file of honeyfs.          *)

\* What the SFTP descriptors write to are temporary files.
TempFiles == \A fd \in DOMAIN tempfiles : tempfiles[fd].temp[1] = "tmp"

\* The file of honeyfs is there and holds what it held.
HoneyInv ==
    /\ Honeyfs \in DOMAIN host
    /\ host[Honeyfs] = Original
    /\ TempFiles

LEMMA HoneyInvInit ==
    ASSUME CommandsInit
    PROVE  HoneyInv
BY DEF CommandsInit, MCInit, TreeIdle, Init, HoneyInv, TempFiles

\* Putting something into another file leaves honeyfs as it is.
LEMMA PutElsewhere ==
    ASSUME HoneyInv, NEW f, f # Honeyfs, NEW data
    PROVE  Honeyfs \in DOMAIN Put(f, data) /\ Put(f, data)[Honeyfs] = Original
BY DEF HoneyInv, Put

LEMMA NewTempIsTemp == NewTemp[1] = "tmp" /\ NewTemp # Honeyfs
BY DEF NewTemp, Honeyfs

\* Redirections reuse a host file only if it is not one of honeyfs.
LEMMA ReusedIsOwn ==
    ASSUME NEW n, ~_needs_new_backing(n)
    PROVE  tree[n].real # Honeyfs
BY DEF _needs_new_backing, RealFile

LEMMA HoneyInvChange ==
    ASSUME HoneyInv, Change
    PROVE  HoneyInv'
<1>1. CASE UNCHANGED <<host, tempfiles>>
  BY <1>1 DEF HoneyInv, TempFiles
<1>2. ASSUME NEW a \in Args, RedirectNew(a) \/ RedirectQuota(a)
      PROVE  HoneyInv'
  <2>1. UNCHANGED tempfiles /\ \E data : host' = Put(NewTemp, data)
    BY <1>2 DEF RedirectNew, RedirectQuota
  <2>2. QED
    BY <2>1, PutElsewhere, NewTempIsTemp DEF HoneyInv, TempFiles
<1>3. ASSUME NEW a \in Args, NEW yes \in BOOLEAN, RedirectReuse(a, yes)
      PROVE  HoneyInv'
  <2>1. UNCHANGED tempfiles /\ \E n, data : ~_needs_new_backing(n) /\ host' = Put(tree[n].real, data)
    BY <1>3 DEF RedirectReuse
  <2>2. QED
    BY <2>1, PutElsewhere, ReusedIsOwn DEF HoneyInv, TempFiles
<1>4. ASSUME NEW a \in Args, Download(a)
      PROVE  HoneyInv'
  <2>1. UNCHANGED tempfiles /\ (UNCHANGED host \/ host' = Put(<<"sha", "x">>, <<"x">>))
    BY <1>4 DEF Download
  <2>2. <<"sha", "x">> # Honeyfs
    BY DEF Honeyfs
  <2>3. QED
    BY <2>1, <2>2, PutElsewhere DEF HoneyInv, TempFiles
<1>5. ASSUME NEW a \in Args, NEW fd \in Fds, OpenFile(a, fd)
      PROVE  HoneyInv'
  <2>1. host' = Put(NewTemp, <<>>)
    BY <1>5 DEF OpenFile
  <2>2. TempFiles'
    BY <1>5, NewTempIsTemp DEF OpenFile, HoneyInv, TempFiles
  <2>3. QED
    BY <2>1, <2>2, PutElsewhere, NewTempIsTemp DEF HoneyInv
<1>6. ASSUME NEW fd \in DOMAIN tempfiles, writeChunk(fd)
      PROVE  HoneyInv'
  <2>1. UNCHANGED tempfiles /\ \E data : host' = Put(tempfiles[fd].temp, data)
    BY <1>6 DEF writeChunk
  <2>2. tempfiles[fd].temp # Honeyfs
    BY DEF HoneyInv, TempFiles, Honeyfs
  <2>3. QED
    BY <2>1, <2>2, PutElsewhere DEF HoneyInv, TempFiles
<1>7. ASSUME NEW fd \in DOMAIN tempfiles, Close(fd)
      PROVE  HoneyInv'
  <2>1. tempfiles[fd].temp # Honeyfs
    BY DEF HoneyInv, TempFiles, Honeyfs
  <2>2. Honeyfs \in DOMAIN host' /\ host'[Honeyfs] = host[Honeyfs]
    BY <1>7, <2>1 DEF Close, HoneyInv
  <2>3. TempFiles'
    BY <1>7 DEF Close, HoneyInv, TempFiles
  <2>4. QED
    BY <2>2, <2>3 DEF HoneyInv
<1>8. ASSUME NEW a \in Args,
             \/ Command_mkdir(a) \/ Command_rmdir(a) \/ Command_touch(a) \/ Command_cd(a)
             \/ OpenFails(a) \/ removeFile(a) \/ makeDirectory(a) \/ removeDirectory(a)
             \/ setAttrs(a)
      PROVE  UNCHANGED <<host, tempfiles>>
  BY <1>8 DEF Command_mkdir, Mkdir, Command_rmdir, Command_touch, Command_cd, OpenFails,
              removeFile, makeDirectory, removeDirectory, setAttrs
<1>9. ASSUME NEW a \in Args, NEW b \in Args, NEW yes \in BOOLEAN,
             Command_rm(a, yes) \/ Command_mv(a, b) \/ renameFile(a, b) \/ Command_cp(a, b, yes)
      PROVE  UNCHANGED <<host, tempfiles>>
  BY <1>9 DEF Command_rm, Command_mv, renameFile, Command_cp
<1>10. QED
  BY <1>1, <1>2, <1>3, <1>4, <1>5, <1>6, <1>7, <1>8, <1>9 DEF Change

LEMMA HoneyInvStep ==
    ASSUME HoneyInv, [CommandsNext]_commandsVars
    PROVE  HoneyInv'
<1>1. CASE UNCHANGED fileVars
  BY <1>1 DEF fileVars, HoneyInv, TempFiles
<1>2. CASE Next
  BY <1>2, HoneyInvChange DEF Next
<1>3. QED
  BY <1>1, <1>2 DEF CommandsNext, MCNext, commandsVars, treeVars

\* For any paths, descriptors and quota, whatever a session redirects, copies,
\* moves, links, downloads or writes over SFTP, no file of honeyfs changes.
THEOREM HoneyfsStays == CommandsSpec => []HoneyfsKept
<1>1. CommandsInit => HoneyInv
  BY HoneyInvInit
<1>2. HoneyInv /\ [CommandsNext]_commandsVars => HoneyInv'
  BY HoneyInvStep
<1>3. HoneyInv => HoneyfsKept
  BY DEF HoneyInv, HoneyfsKept, HoneyfsUntouched
<1>4. QED
  BY <1>1, <1>2, <1>3, PTL DEF CommandsSpec, commandsVars
-----------------------------------------------------------------------------
(* RateLimiter: how often a host is let through in a window                *)

LEMMA CardinalityInRates == \A S : R!Cardinality(S) = Cardinality(S)
BY DEF R!Cardinality, Cardinality, R!IsFiniteSet, IsFiniteSet

\* No tracked host has more requests than are allowed.
Within(tracker) ==
    \A k \in DOMAIN tracker : IsFiniteSet(tracker[k]) /\ Cardinality(tracker[k]) <= max_requests

\* The requests of host k one window back that it is still held to.
Counted(k) == {r \in granted[k] : r.at > evicted[k]}

\* What is counted is tracked, as long as the host is.
Tracked(tracker) == \A k \in Keys : Counted(k) \subseteq R!Times(tracker, k)

\* The requests one window back are of this window.
Windowed ==
    \A k \in Keys : \A r \in granted[k] :
        r.at \in Nat /\ r.at <= now /\ now - r.at < window_seconds

RateInv ==
    /\ now \in Nat
    /\ DOMAIN granted = Keys
    /\ evicted \in [Keys -> Nat]
    /\ Windowed
    /\ Within(request_tracker)
    /\ Tracked(request_tracker)

LEMMA RateInvInit ==
    ASSUME R!Init
    PROVE  RateInv
<1>1. Within(request_tracker)
  BY DEF R!Init, Within
<1>2. now \in Nat /\ DOMAIN granted = Keys /\ evicted \in [Keys -> Nat]
  BY DEF R!Init
<1>3. Windowed /\ Tracked(request_tracker)
  BY DEF R!Init, Windowed, Tracked, Counted
<1>4. QED
  BY <1>1, <1>2, <1>3 DEF RateInv

\* Dropping what has expired takes nothing that is counted.
LEMMA RecentIsCounted ==
    ASSUME RateInv, NEW times, NEW k \in Keys, Counted(k) \subseteq times
    PROVE  Counted(k) \subseteq R!Recent(times)
BY DEF RateInv, Windowed, Counted, R!Recent

LEMMA RecentIsWithin ==
    ASSUME LimitsAreNumbers, NEW times, IsFiniteSet(times), Cardinality(times) <= max_requests
    PROVE  IsFiniteSet(R!Recent(times)) /\ Cardinality(R!Recent(times)) <= max_requests
<1>1. R!Recent(times) \subseteq times
  BY DEF R!Recent
<1>2. /\ IsFiniteSet(R!Recent(times)) /\ Cardinality(R!Recent(times)) <= Cardinality(times)
      /\ Cardinality(times) \in Nat /\ Cardinality(R!Recent(times)) \in Nat
  BY <1>1, FS_Subset, FS_CardinalityType
<1>3. QED
  BY <1>2 DEF LimitsAreNumbers

\* The clean-up of all hosts keeps the limit and what is counted.
LEMMA CleanedUpKeeps ==
    ASSUME LimitsAreNumbers, RateInv
    PROVE  Within(R!CleanedUp(request_tracker)) /\ Tracked(R!CleanedUp(request_tracker))
<1>1. Within(R!CleanedUp(request_tracker))
  BY RecentIsWithin DEF RateInv, Within, R!CleanedUp
<1>2. ASSUME NEW k \in Keys
      PROVE  Counted(k) \subseteq R!Times(R!CleanedUp(request_tracker), k)
  <2>1. Counted(k) \subseteq R!Recent(R!Times(request_tracker, k))
    BY RecentIsCounted DEF RateInv, Tracked
  <2>2. CASE k \in DOMAIN R!CleanedUp(request_tracker)
    BY <2>1, <2>2 DEF R!CleanedUp, R!Times
  <2>3. CASE k \notin DOMAIN R!CleanedUp(request_tracker)
    <3>1. R!Recent(R!Times(request_tracker, k)) = {}
      BY <2>3 DEF R!CleanedUp, R!Times, R!Recent
    <3>2. QED
      BY <2>1, <3>1
  <2>4. QED
    BY <2>2, <2>3
<1>3. QED
  BY <1>1, <1>2 DEF Tracked

\* A host has no more than are allowed, also when it is not tracked.
LEMMA TimesWithin ==
    ASSUME LimitsAreNumbers, NEW tracker, Within(tracker), NEW k
    PROVE  IsFiniteSet(R!Times(tracker, k)) /\ Cardinality(R!Times(tracker, k)) <= max_requests
BY FS_EmptySet DEF Within, R!Times, LimitsAreNumbers

LEMMA RateInvCheck ==
    ASSUME LimitsAreNumbers, RateInv, NEW k \in Keys, R!check(k)
    PROVE  RateInv'
<1> DEFINE due == now - last_cleanup > window_seconds
           cleaned == IF due THEN R!CleanedUp(request_tracker) ELSE request_tracker
           mine == R!WithKey(cleaned, k, R!Recent(R!Times(cleaned, k)))
           full == R!Cardinality(DOMAIN mine) > max_keys
           left(gone) == [j \in DOMAIN mine \ gone |-> mine[j]]
           this == R!Request(now, 1 + R!Cardinality({r \in granted[k] : r.at = now}))
<1>1. Within(cleaned) /\ Tracked(cleaned)
  BY CleanedUpKeeps DEF RateInv
<1>2. PICK gone \in IF full THEN R!Oldest(mine) ELSE {{}} :
         LET times == R!Times(left(gone), k)
             ok == R!Cardinality(times) < max_requests
         IN /\ request_tracker' = R!WithKey(left(gone), k, IF ok THEN times \cup {this} ELSE times)
            /\ granted' = [granted EXCEPT ![k] = IF ok THEN @ \cup {this} ELSE @]
            /\ evicted' = [j \in Keys |-> IF j \in gone THEN now ELSE evicted[j]]
            /\ UNCHANGED now
  BY DEF R!check
<1> DEFINE times == R!Times(left(gone), k)
           ok == R!Cardinality(times) < max_requests
           new == IF ok THEN times \cup {this} ELSE times
           rest == left(gone)
<1>3. /\ request_tracker' = R!WithKey(rest, k, new)
      /\ granted' = [granted EXCEPT ![k] = IF ok THEN @ \cup {this} ELSE @]
      /\ evicted' = [j \in Keys |-> IF j \in gone THEN now ELSE evicted[j]]
      /\ UNCHANGED now
  BY <1>2, Zenon
<1>4. Within(mine) /\ Tracked(mine)
  <2>1. Within(mine)
    BY <1>1, TimesWithin, RecentIsWithin DEF Within, R!WithKey
  <2>2. \A j \in Keys : Counted(j) \subseteq R!Times(mine, j)
    <3>1. ASSUME NEW j \in Keys
          PROVE  Counted(j) \subseteq R!Times(cleaned, j)
      BY <1>1 DEF Tracked
    <3>2. R!Times(mine, k) = R!Recent(R!Times(cleaned, k))
          /\ \A j \in Keys : j # k => R!Times(mine, j) = R!Times(cleaned, j)
      BY DEF R!WithKey, R!Times
    <3>3. Counted(k) \subseteq R!Recent(R!Times(cleaned, k))
      BY <3>1, RecentIsCounted
    <3>4. QED
      BY <3>1, <3>2, <3>3
  <2>3. QED
    BY <2>1, <2>2 DEF Tracked
<1>5. /\ Within(rest)
      /\ \A j \in Keys : j \notin gone => Counted(j) \subseteq R!Times(rest, j)
  BY <1>4 DEF Within, Tracked, R!Times
<1>6. this.at = now
  BY DEF R!Request
<1> HIDE DEF due, cleaned, mine, full, left, this, rest
<1>7. IsFiniteSet(times) /\ Cardinality(times) \in Nat /\ Cardinality(times) <= max_requests
  BY <1>5, TimesWithin, FS_CardinalityType DEF rest
<1>8. IsFiniteSet(new) /\ Cardinality(new) <= max_requests
  <2>1. IsFiniteSet(times \cup {this})
        /\ Cardinality(times \cup {this}) \in {Cardinality(times), Cardinality(times) + 1}
    BY <1>7, FS_AddElement
  <2>2. QED
    BY <1>7, <2>1, CardinalityInRates DEF LimitsAreNumbers
<1>9. Within(request_tracker)'
  <2>1. \A j \in DOMAIN R!WithKey(rest, k, new) :
           /\ IsFiniteSet(R!WithKey(rest, k, new)[j])
           /\ Cardinality(R!WithKey(rest, k, new)[j]) <= max_requests
    BY <1>5, <1>8 DEF Within, R!WithKey
  <2>2. QED
    BY <1>3, <2>1 DEF Within
<1>10. \A j \in Keys : granted'[j] \subseteq granted[j] \cup {this}
  BY <1>3 DEF RateInv
<1>11. ASSUME NEW j \in Keys, NEW r \in granted'[j]
       PROVE  r.at \in Nat /\ r.at <= now /\ now - r.at < window_seconds
  <2>1. CASE r = this
    BY <2>1, <1>6 DEF RateInv, LimitsAreNumbers
  <2>2. CASE r \in granted[j]
    BY <2>2 DEF RateInv, Windowed
  <2>3. QED
    BY <1>10, <2>1, <2>2
<1>12. Windowed'
  BY <1>3, <1>11 DEF Windowed
<1>13. ASSUME NEW j \in Keys, NEW r \in granted'[j], r.at > evicted'[j]
       PROVE  r \in R!Times(R!WithKey(rest, k, new), j)
  <2>1. j \notin gone /\ evicted'[j] = evicted[j]
    BY <1>3, <1>11, <1>13 DEF RateInv
  <2>2. CASE r \in granted[j]
    <3>1. r \in R!Times(rest, j)
      BY <1>5, <1>13, <2>1, <2>2 DEF Counted
    <3>2. j = k => R!Times(R!WithKey(rest, k, new), j) = new
      BY DEF R!WithKey, R!Times
    <3>3. j # k => R!Times(R!WithKey(rest, k, new), j) = R!Times(rest, j)
      BY DEF R!WithKey, R!Times
    <3>4. R!Times(rest, k) \subseteq new
      BY DEF rest
    <3>5. QED
      BY <3>1, <3>2, <3>3, <3>4
  <2>3. CASE r \notin granted[j]
    <3>1. j = k /\ ok /\ r = this
      BY <1>3, <2>3 DEF RateInv
    <3>2. R!Times(R!WithKey(rest, k, new), k) = new
      BY DEF R!WithKey, R!Times
    <3>3. QED
      BY <3>1, <3>2
  <2>4. QED
    BY <2>2, <2>3
<1>14. Tracked(request_tracker)'
  BY <1>3, <1>13 DEF Tracked, Counted, R!Times
<1>15. now' \in Nat /\ DOMAIN granted' = Keys /\ evicted' \in [Keys -> Nat]
  BY <1>3 DEF RateInv
<1>16. QED
  BY <1>9, <1>12, <1>14, <1>15 DEF RateInv

LEMMA RateInvTick ==
    ASSUME LimitsAreNumbers, RateInv, R!Tick
    PROVE  RateInv'
<1>1. /\ now' \in Nat /\ DOMAIN granted' = Keys
      /\ UNCHANGED <<evicted, request_tracker>>
      /\ \A k \in Keys : granted'[k] = {r \in granted[k] : now' - r.at < window_seconds}
      /\ now <= now'
  BY DEF RateInv, R!Tick
<1>2. Windowed'
  BY <1>1 DEF RateInv, Windowed
<1>3. Tracked(request_tracker)'
  BY <1>1 DEF RateInv, Tracked, Counted, R!Times
<1>4. Within(request_tracker)'
  BY <1>1 DEF RateInv, Within
<1>5. QED
  BY <1>1, <1>2, <1>3, <1>4 DEF RateInv

\* Under the inductive invariant no host has been let through too often.
LEMMA RateInvHeld ==
    ASSUME LimitsAreNumbers, RateInv
    PROVE  R!RateHeld
<1>1. ASSUME NEW k \in Keys
      PROVE  Cardinality(Counted(k)) <= max_requests
  <2>1. Counted(k) \subseteq R!Times(request_tracker, k)
    BY DEF RateInv, Tracked
  <2>2. IsFiniteSet(R!Times(request_tracker, k))
        /\ Cardinality(R!Times(request_tracker, k)) <= max_requests
    BY TimesWithin DEF RateInv
  <2>3. /\ Cardinality(Counted(k)) <= Cardinality(R!Times(request_tracker, k))
        /\ Cardinality(R!Times(request_tracker, k)) \in Nat /\ Cardinality(Counted(k)) \in Nat
    BY <2>1, <2>2, FS_Subset, FS_CardinalityType
  <2>4. QED
    BY <2>2, <2>3 DEF LimitsAreNumbers
<1>2. QED
  <2>1. \A k \in Keys : Cardinality({r \in granted[k] : r.at > evicted[k]}) <= max_requests
    BY <1>1 DEF Counted
  <2>2. QED
    BY <2>1, CardinalityInRates DEF R!RateHeld

\* For any hosts, limit, window and table size: however the requests fall and
\* whichever clean-up drops what, a host that was not forgotten is let through
\* at most max_requests times in a window.
THEOREM RequestsStayLimited == CommandsSpec => []RequestsLimited
<1> DEFINE Inv == part = "rate" => RateInv
<1>1. CommandsInit => Inv
  BY RateInvInit DEF CommandsInit, MCInit
<1>2. Inv /\ [CommandsNext]_commandsVars => Inv'
  <2> SUFFICES ASSUME Inv, [CommandsNext]_commandsVars, part' = "rate"
               PROVE  RateInv'
    OBVIOUS
  <2>1. part = "rate"
    BY DEF CommandsNext, MCNext, commandsVars
  <2>2. CASE UNCHANGED rateVars
    BY <2>1, <2>2 DEF rateVars, RateInv, Windowed, Within, Tracked, Counted, R!Times
  <2>3. CASE R!Next
    BY <2>1, <2>3, RateInvTick, RateInvCheck, LimitsAreNumbers DEF R!Next
  <2>4. QED
    BY <2>1, <2>2, <2>3 DEF CommandsNext, commandsVars
<1>3. Inv => RequestsLimited
  BY RateInvHeld, LimitsAreNumbers DEF RequestsLimited
<1>4. QED
  BY <1>1, <1>2, <1>3, PTL DEF CommandsSpec, commandsVars
-----------------------------------------------------------------------------
(* Downloads: what is stored, and who leaves the stack                     *)

Phases == {"new", "lookup", "stuck", "connect", "body", "quit", "aborted", "over"}

DownloadType ==
    /\ alive \in BOOLEAN
    /\ stack = <<>> \/ \E c \in Commands : stack = <<c>>
    /\ kind \in [Commands -> D!Kinds]
    /\ phase \in [Commands -> Phases]
    /\ asked \in [Commands -> BOOLEAN]
    /\ got \in [Commands -> 0..MaxBody]
    /\ DOMAIN artifact = Commands

\* The first n chunks.
Upto(n) == [i \in 1..n |-> i]

\* Where the artifact of a command is while its download goes on, and what it
\* holds: what came so far, up to the limit.
Holds(c) ==
    /\ phase[c] \in {"new", "lookup", "stuck"} => artifact[c] = D!NoArtifact
    /\ phase[c] \in {"new", "lookup", "stuck", "connect"} => got[c] = 0
    /\ phase[c] \in {"connect", "body", "quit", "aborted"} =>
          artifact[c] = [fp |-> "open", data |-> Upto(D!Smaller(got[c], D!Limit(c))), at |-> "temp"]
    /\ artifact[c].at = "hash" =>
          artifact[c].data = Upto(D!Smaller(got[c], D!Limit(c)))

DownloadInv ==
    /\ DownloadType
    /\ \A c \in Commands : Holds(c)
    /\ outfile # D!Nobody => outfile \in Commands /\ artifact[outfile].at = "hash"
    /\ D!EndsByItself

LEMMA DownloadInvInit ==
    ASSUME LimitsAreNumbers, D!Init
    PROVE  DownloadInv
<1>1. DownloadType
  BY DEF D!Init, DownloadType, Phases, LimitsAreNumbers
<1>2. \A c \in Commands : Holds(c)
  BY DEF D!Init, Holds, D!NoArtifact
<1>3. QED
  BY <1>1, <1>2 DEF DownloadInv, D!Init, D!EndsByItself

-----------------------------------------------------------------------------
(* The stack.  A step of command c moves nobody else's phase, and takes    *)
(* nobody else off the stack.                                              *)

\* Only c's record changes.
Moves(c) ==
    /\ UNCHANGED <<alive, kind>>
    /\ \A d \in Commands \ {c} :
          /\ phase'[d] = phase[d] /\ asked'[d] = asked[d]
          /\ got'[d] = got[d] /\ artifact'[d] = artifact[d]

\* c comes onto an empty stack, or ends, or goes on.
Settles(c) ==
    \/ stack = <<>> /\ stack' = <<c>>
    \/ stack' = stack /\ (asked'[c] \/ (phase[c] # "new" /\ asked'[c] = asked[c]))
    \/ stack = <<c>> /\ stack' = <<>> /\ asked'[c]

LEMMA SettlesKeepsStack ==
    ASSUME DownloadInv, NEW c \in Commands, Moves(c), Settles(c), DownloadType'
    PROVE  D!EndsByItself'
<1> SUFFICES ASSUME NEW d \in Commands, alive', ~asked'[d], phase'[d] # "new"
             PROVE  stack' = <<d>>
  BY DEF D!EndsByItself, D!OnStack
<1>1. alive /\ (~asked[d] /\ phase[d] # "new" => stack = <<d>>)
  BY DEF DownloadInv, D!EndsByItself, D!OnStack, Moves
<1>2. <<c>> # <<>> /\ <<d>> # <<>> /\ (<<c>> = <<d>> => c = d)
  OBVIOUS
<1>3. CASE d # c
  <2>1. stack = <<d>>
    BY <1>1, <1>3 DEF Moves
  <2>2. QED
    BY <1>2, <1>3, <2>1 DEF Settles
<1>4. CASE d = c
  BY <1>1, <1>4 DEF Settles
<1>5. QED
  BY <1>3, <1>4

\* What every step of a command is: c's record changes, and so does the stack.
Steps(c) ==
    \/ D!wgetStart(c) \/ D!curlStart(c) \/ D!ftpgetStart(c) \/ D!ncStart(c)
    \/ D!LookupRefused(c) \/ D!LookupAllowed(c) \/ D!ncRun(c)
    \/ D!ResponseRefused(c) \/ D!wgetSuccess(c) \/ D!curlSuccess(c)
    \/ D!wgetCollect(c) \/ D!curlCollect(c) \/ D!ftpgetReceived(c) \/ D!ftpgetQuit(c)
    \/ D!wgetComplete(c) \/ D!curlComplete(c) \/ D!ftpgetSuccess(c)
    \/ D!wgetError(c) \/ D!curlError(c) \/ D!ftpgetError(c) \/ D!handle_CTRL_C(c)

\* What an exit is for the stack.
LEMMA ExitSettles ==
    ASSUME DownloadInv, NEW c \in Commands, D!Exit(c)
    PROVE  /\ Settles(c)
           /\ stack' = <<>> \/ stack' = stack
           /\ asked' \in [Commands -> BOOLEAN]
           /\ \A d \in Commands \ {c} : asked'[d] = asked[d]
BY DEF D!Exit, D!OnStack, Settles, DownloadInv, DownloadType

\* One chunk more, within the limit.
LEMMA WrittenIsUpto ==
    ASSUME LimitsAreNumbers, NEW n \in Nat, NEW limit \in Nat, n < limit, NEW a,
           a = [fp |-> "open", data |-> Upto(D!Smaller(n, limit)), at |-> "temp"]
    PROVE  D!Written(a, n + 1) =
             [fp |-> "open", data |-> Upto(D!Smaller(n + 1, limit)), at |-> "temp"]
<1>1. D!Smaller(n, limit) = n /\ D!Smaller(n + 1, limit) = n + 1
  BY DEF D!Smaller
<1>2. Append(Upto(n), n + 1) = Upto(n + 1)
  BY DEF Upto
<1>3. \A x : [a EXCEPT !.data = x] = [fp |-> "open", data |-> x, at |-> "temp"]
  OBVIOUS
<1>4. a.data = Upto(n)
  BY <1>1
<1>5. D!Written(a, n + 1) = [a EXCEPT !.data = Append(a.data, n + 1)]
  BY DEF D!Written
<1>6. QED
  BY <1>1, <1>2, <1>3, <1>4, <1>5

\* Beyond the limit nothing more is kept.
LEMMA EnoughIsUpto ==
    ASSUME NEW n \in Nat, NEW limit \in Nat, n + 1 > limit
    PROVE  D!Smaller(n + 1, limit) = D!Smaller(n, limit)
BY DEF D!Smaller

LEMMA UptoNothing == \A n \in Nat : D!NewArtifact = [fp |-> "open", data |-> Upto(D!Smaller(0, n)), at |-> "temp"]
<1>1. \A n \in Nat : D!Smaller(0, n) = 0
  BY DEF D!Smaller
<1>2. Upto(0) = <<>>
  BY DEF Upto
<1>3. QED
  BY <1>1, <1>2 DEF D!NewArtifact

\* Closing keeps what was written, whether the file stays or not.
LEMMA ClosedKeeps ==
    ASSUME NEW data, NEW a, a = [fp |-> "open", data |-> data, at |-> "temp"]
    PROVE  D!Closed(a).data = data
BY DEF D!Closed

LEMMA LimitsAreLimits ==
    ASSUME LimitsAreNumbers, NEW c \in Commands
    PROVE  D!Limit(c) \in Nat
BY DEF D!Limit, LimitsAreNumbers

\* What has to be shown of a step: it is c's own, and its record stays right.
Keeps(c) ==
    /\ Moves(c) /\ Settles(c)
    /\ phase' \in [Commands -> Phases] /\ asked' \in [Commands -> BOOLEAN]
    /\ got' \in [Commands -> 0..MaxBody] /\ DOMAIN artifact' = Commands
    /\ Holds(c)'
    /\ artifact[c].at = "hash" => artifact'[c].at = "hash"
    /\ outfile' \in {outfile, D!Nobody} \/ (outfile' = c /\ artifact'[c].at = "hash")

LEMMA KeepsIsEnough ==
    ASSUME DownloadInv, NEW c \in Commands, Keeps(c)
    PROVE  DownloadInv'
<1>1. DownloadType'
  BY DEF Keeps, Settles, Moves, DownloadInv, DownloadType
<1>2. D!EndsByItself'
  BY <1>1, SettlesKeepsStack DEF Keeps
<1>3. ASSUME NEW d \in Commands
      PROVE  Holds(d)'
  <2>1. CASE d = c
    BY <2>1 DEF Keeps
  <2>2. CASE d # c
    <3>1. /\ phase'[d] = phase[d] /\ got'[d] = got[d] /\ artifact'[d] = artifact[d]
          /\ D!Limit(d)' = D!Limit(d)
      BY <2>2 DEF Keeps, Moves, D!Limit
    <3>2. Holds(d)
      BY DEF DownloadInv
    <3>3. QED
      BY <3>1, <3>2 DEF Holds, D!Smaller
  <2>3. QED
    BY <2>1, <2>2
<1>4. outfile' # D!Nobody => outfile' \in Commands /\ artifact'[outfile'].at = "hash"
  <2>1. CASE outfile' = outfile
    BY <2>1 DEF DownloadInv, Keeps, Moves
  <2>2. CASE outfile' # outfile
    BY <2>2 DEF Keeps
  <2>3. QED
    BY <2>1, <2>2
<1>5. QED
  BY <1>1, <1>2, <1>3, <1>4 DEF DownloadInv

\* The options and the address: the command ends, waits, or is stuck.
LEMMA StartKeeps ==
    ASSUME DownloadInv, NEW c \in Commands,
           D!wgetStart(c) \/ D!curlStart(c) \/ D!ftpgetStart(c) \/ D!ncStart(c)
    PROVE  Keeps(c)
<1>1. /\ stack = <<>> /\ phase[c] = "new"
      /\ D!StartRefused(c) \/ D!wgetBadPort(c) \/ D!StartLookup(c) \/ D!curlNoHost(c)
  BY DEF D!wgetStart, D!curlStart, D!ftpgetStart, D!ncStart, D!Typed
<1>2. /\ UNCHANGED <<alive, kind, got, artifact, events, outfile>>
      /\ \E p \in {"over", "stuck", "lookup"} : phase' = [phase EXCEPT ![c] = p]
      /\ \/ asked' = [asked EXCEPT ![c] = TRUE] /\ UNCHANGED stack
         \/ stack' = <<c>> /\ UNCHANGED asked
  BY <1>1 DEF D!StartRefused, D!wgetBadPort, D!StartLookup, D!curlNoHost, D!To
<1>3. Moves(c) /\ phase' \in [Commands -> Phases] /\ asked' \in [Commands -> BOOLEAN]
  BY <1>2 DEF Moves, DownloadInv, DownloadType, Phases
<1>4. Settles(c)
  BY <1>1, <1>2 DEF Settles, DownloadInv, DownloadType
<1>5. artifact[c] = D!NoArtifact /\ got[c] = 0
  BY <1>1 DEF DownloadInv, Holds
<1>6. phase'[c] \in {"over", "stuck", "lookup"}
  BY <1>2 DEF DownloadInv, DownloadType
<1>7. Holds(c)'
  BY <1>2, <1>5, <1>6 DEF Holds, D!NoArtifact
<1>8. QED
  BY <1>2, <1>3, <1>4, <1>7 DEF Keeps, DownloadInv, DownloadType

\* A step that leaves the stack alone and is not the command's first.
LEMMA GoesOnSettles ==
    ASSUME NEW c \in Commands, UNCHANGED <<stack, asked>>, phase[c] # "new"
    PROVE  Settles(c)
BY DEF Settles

LEMMA LookupKeeps ==
    ASSUME LimitsAreNumbers, DownloadInv, NEW c \in Commands,
           D!LookupRefused(c) \/ D!LookupAllowed(c) \/ D!ncRun(c)
    PROVE  Keeps(c)
<1>1. CASE D!LookupRefused(c) \/ D!ncRun(c)
  <2>1. /\ phase[c] = "lookup" /\ D!Exit(c) /\ phase' = [phase EXCEPT ![c] = "over"]
        /\ UNCHANGED <<alive, kind, got, artifact, outfile>>
    BY <1>1 DEF D!LookupRefused, D!ncRun, D!To
  <2>2. phase'[c] = "over" /\ phase' \in [Commands -> Phases]
        /\ \A d \in Commands \ {c} : phase'[d] = phase[d]
    BY <2>1 DEF DownloadInv, DownloadType, Phases
  <2>3. Holds(c)'
    <3>1. Holds(c)
      BY DEF DownloadInv
    <3>2. artifact[c] = D!NoArtifact
      BY <2>1, <3>1 DEF Holds
    <3>3. artifact'[c].at # "hash"
      BY <2>1, <3>2 DEF D!NoArtifact
    <3>4. QED
      BY <2>2, <3>3 DEF Holds
  <2>4. QED
    BY <2>1, <2>2, <2>3, ExitSettles DEF Keeps, Moves, DownloadInv, DownloadType
<1>2. CASE D!LookupAllowed(c)
  <2>1. /\ phase[c] = "lookup" /\ phase' = [phase EXCEPT ![c] = "connect"]
        /\ artifact' = [artifact EXCEPT ![c] = D!NewArtifact]
        /\ UNCHANGED <<alive, stack, kind, asked, got, outfile>>
    BY <1>2 DEF D!LookupAllowed, D!To
  <2>2. /\ phase'[c] = "connect" /\ phase' \in [Commands -> Phases]
        /\ artifact'[c] = D!NewArtifact /\ DOMAIN artifact' = Commands
        /\ \A d \in Commands \ {c} : phase'[d] = phase[d] /\ artifact'[d] = artifact[d]
    BY <2>1 DEF DownloadInv, DownloadType, Phases
  <2>3. got[c] = 0 /\ artifact[c].at # "hash"
    <3>1. Holds(c)
      BY DEF DownloadInv
    <3>2. got[c] = 0 /\ artifact[c] = D!NoArtifact
      BY <2>1, <3>1 DEF Holds
    <3>3. QED
      BY <3>2 DEF D!NoArtifact
  <2>4. Holds(c)'
    BY <2>1, <2>2, <2>3, UptoNothing, LimitsAreLimits DEF Holds, D!Limit, D!NewArtifact
  <2>5. QED
    BY <2>1, <2>2, <2>3, <2>4, GoesOnSettles DEF Keeps, Moves, DownloadInv, DownloadType
<1>3. QED
  BY <1>1, <1>2

\* A step to another phase that has what there is.
LEMMA PhaseKeeps ==
    ASSUME DownloadInv, NEW c \in Commands, NEW p \in {"body", "quit", "aborted", "over"},
           phase[c] \in {"connect", "body", "quit", "aborted"},
           phase' = [phase EXCEPT ![c] = p], UNCHANGED <<kind, got, artifact>>
    PROVE  /\ Holds(c)'
           /\ phase' \in [Commands -> Phases]
           /\ \A d \in Commands \ {c} : phase'[d] = phase[d]
<1>1. /\ phase'[c] = p /\ phase' \in [Commands -> Phases]
      /\ \A d \in Commands \ {c} : phase'[d] = phase[d]
  BY DEF DownloadInv, DownloadType, Phases
<1>2. Holds(c)
  BY DEF DownloadInv
<1>3. D!Limit(c)' = D!Limit(c) /\ D!Smaller(got'[c], D!Limit(c)') = D!Smaller(got[c], D!Limit(c))
  BY DEF D!Limit
<1>4. p \notin {"new", "lookup", "stuck", "connect"}
  OBVIOUS
<1>5. QED
  BY <1>1, <1>2, <1>3, <1>4 DEF Holds

LEMMA ResponseKeeps ==
    ASSUME DownloadInv, NEW c \in Commands,
           D!ResponseRefused(c) \/ D!wgetSuccess(c) \/ D!curlSuccess(c) \/ D!ftpgetQuit(c)
    PROVE  Keeps(c)
<1>1. CASE D!ResponseRefused(c)
  <2>1. /\ phase[c] = "connect" /\ phase' = [phase EXCEPT ![c] = "over"]
        /\ D!Exit(c) /\ UNCHANGED <<alive, kind, got, artifact, outfile>>
    BY <1>1 DEF D!ResponseRefused, D!To
  <2>2. QED
    BY <2>1, PhaseKeeps, ExitSettles DEF Keeps, Moves, DownloadInv, DownloadType
<1>2. CASE D!wgetSuccess(c) \/ D!curlSuccess(c) \/ D!ftpgetQuit(c)
  <2>1. /\ phase[c] \in {"connect", "body"}
        /\ \E p \in {"body", "quit"} : phase' = [phase EXCEPT ![c] = p]
        /\ UNCHANGED <<alive, stack, kind, asked, got, artifact, outfile>>
    BY <1>2 DEF D!wgetSuccess, D!curlSuccess, D!ftpgetQuit, D!To
  <2>2. QED
    BY <2>1, PhaseKeeps, GoesOnSettles DEF Keeps, Moves, DownloadInv, DownloadType
<1>3. QED
  BY <1>1, <1>2

\* A chunk is kept below the limit, and only then.
LEMMA CollectKeeps ==
    ASSUME LimitsAreNumbers, DownloadInv, NEW c \in Commands,
           D!wgetCollect(c) \/ D!curlCollect(c) \/ D!ftpgetReceived(c)
    PROVE  Keeps(c)
<1> DEFINE n == got[c]
           limit == D!Limit(c)
<1>1. /\ phase[c] = "body" /\ n < MaxBody /\ got' = [got EXCEPT ![c] = n + 1]
      /\ \/ n + 1 > limit /\ D!TooMuch(c)
         \/ n < limit /\ D!Keep(c)
      /\ n \in Nat /\ limit \in Nat
  <2>1. n \in 0..MaxBody /\ limit \in Nat
    BY LimitsAreLimits DEF DownloadInv, DownloadType
  <2>2. CASE D!wgetCollect(c) \/ D!curlCollect(c)
    <3>1. limit = LimitSize
      BY <2>2 DEF D!wgetCollect, D!curlCollect, D!Limit
    <3>2. QED
      BY <2>1, <2>2, <3>1 DEF D!wgetCollect, D!curlCollect, D!Arrives, LimitsAreNumbers
  <2>3. CASE D!ftpgetReceived(c)
    <3>1. limit = MaxBody
      BY <2>3 DEF D!ftpgetReceived, D!Limit
    <3>2. QED
      BY <2>1, <2>3, <3>1 DEF D!ftpgetReceived, D!Arrives, LimitsAreNumbers
  <2>4. QED
    BY <2>2, <2>3
<1>2. /\ artifact[c] = [fp |-> "open", data |-> Upto(D!Smaller(n, limit)), at |-> "temp"]
      /\ artifact[c].at # "hash"
  <2>1. Holds(c)
    BY DEF DownloadInv
  <2>2. QED
    BY <1>1, <2>1 DEF Holds
<1>3. /\ got' \in [Commands -> 0..MaxBody] /\ got'[c] = n + 1
      /\ \A d \in Commands \ {c} : got'[d] = got[d]
  BY <1>1 DEF DownloadInv, DownloadType, LimitsAreNumbers
<1> HIDE DEF n, limit
<1>4. CASE n + 1 > limit /\ D!TooMuch(c)
  <2>1. /\ D!Exit(c) /\ UNCHANGED <<alive, kind, artifact, outfile>>
        /\ \E p \in {"body", "aborted"} : phase' = [phase EXCEPT ![c] = p]
    BY <1>1, <1>4 DEF D!TooMuch
  <2>2. /\ phase' \in [Commands -> Phases] /\ phase'[c] \in {"body", "aborted"}
        /\ \A d \in Commands \ {c} : phase'[d] = phase[d]
    BY <2>1 DEF DownloadInv, DownloadType, Phases
  <2>3. D!Smaller(n + 1, limit) = D!Smaller(n, limit)
    BY <1>1, <1>4, EnoughIsUpto
  <2>4. limit' = limit
    BY <2>1 DEF limit, D!Limit
  <2>5. artifact'[c] = [fp |-> "open", data |-> Upto(D!Smaller(n + 1, limit)), at |-> "temp"]
    BY <1>2, <2>1, <2>3
  <2>6. Holds(c)'
    BY <1>3, <2>2, <2>4, <2>5 DEF Holds, limit
  <2>7. QED
    BY <1>2, <1>3, <2>1, <2>2, <2>6, ExitSettles DEF Keeps, Moves, DownloadInv, DownloadType
<1>5. CASE n < limit /\ D!Keep(c)
  <2>1. /\ artifact' = [artifact EXCEPT ![c] = D!Written(artifact[c], n + 1)]
        /\ UNCHANGED <<alive, stack, kind, phase, asked, outfile>>
    BY <1>5 DEF D!Keep, n
  <2>2. /\ artifact'[c] = D!Written(artifact[c], n + 1) /\ DOMAIN artifact' = Commands
        /\ \A d \in Commands \ {c} : artifact'[d] = artifact[d]
    BY <2>1 DEF DownloadInv, DownloadType
  <2>3. artifact'[c] = [fp |-> "open", data |-> Upto(D!Smaller(n + 1, limit)), at |-> "temp"]
    BY <1>1, <1>2, <1>5, <2>2, WrittenIsUpto
  <2>4. limit' = limit
    BY <2>1 DEF limit, D!Limit
  <2>5. Holds(c)'
    BY <1>1, <1>3, <2>1, <2>3, <2>4 DEF Holds, limit
  <2>6. Settles(c)
    BY <1>1, <2>1, GoesOnSettles
  <2>7. QED
    BY <1>2, <1>3, <2>1, <2>2, <2>5, <2>6 DEF Keeps, Moves, DownloadInv, DownloadType
<1>6. QED
  BY <1>1, <1>4, <1>5

\* The end of a download that closes the artifact, and shows it or not.
LEMMA ClosingKeeps ==
    ASSUME DownloadInv, NEW c \in Commands, phase[c] \in {"connect", "body", "quit"},
           D!Exit(c), phase' = [phase EXCEPT ![c] = "over"],
           artifact' = [artifact EXCEPT ![c] = D!Closed(@)],
           outfile' \in {outfile, D!Shown(c)}, UNCHANGED <<alive, kind, got>>
    PROVE  Keeps(c)
<1>1. artifact[c] = [fp |-> "open", data |-> Upto(D!Smaller(got[c], D!Limit(c))), at |-> "temp"]
  <2>1. Holds(c)
    BY DEF DownloadInv
  <2>2. QED
    BY <2>1 DEF Holds
<1>2. /\ artifact'[c] = D!Closed(artifact[c]) /\ DOMAIN artifact' = Commands
      /\ \A d \in Commands \ {c} : artifact'[d] = artifact[d]
  BY DEF DownloadInv, DownloadType
<1>3. /\ phase'[c] = "over" /\ phase' \in [Commands -> Phases]
      /\ \A d \in Commands \ {c} : phase'[d] = phase[d]
  BY DEF DownloadInv, DownloadType, Phases
<1>4. artifact'[c].data = Upto(D!Smaller(got[c], D!Limit(c)))
  BY <1>1, <1>2, ClosedKeeps
<1>5. D!Limit(c)' = D!Limit(c)
  BY DEF D!Limit
<1>6. Holds(c)'
  BY <1>3, <1>4, <1>5 DEF Holds
<1>7. artifact[c].at # "hash"
  BY <1>1
<1>8. outfile' \in {outfile, D!Nobody} \/ (outfile' = c /\ artifact'[c].at = "hash")
  BY <1>2 DEF D!Shown
<1>9. QED
  BY <1>2, <1>3, <1>6, <1>7, <1>8, ExitSettles DEF Keeps, Moves, DownloadInv, DownloadType

LEMMA EndKeeps ==
    ASSUME DownloadInv, NEW c \in Commands,
           \/ D!wgetComplete(c) \/ D!curlComplete(c) \/ D!ftpgetSuccess(c)
           \/ D!wgetError(c) \/ D!curlError(c) \/ D!ftpgetError(c)
    PROVE  Keeps(c)
<1>1. CASE D!wgetComplete(c) \/ D!curlComplete(c)
  <2>1. D!CollectionComplete(c)
    BY <1>1 DEF D!wgetComplete, D!curlComplete
  <2>2. QED
    BY <2>1, ClosingKeeps DEF D!CollectionComplete, D!To
<1>2. CASE D!ftpgetSuccess(c)
  <2>1. outfile' \in {outfile, D!Shown(c)}
    BY <1>2 DEF D!ftpgetSuccess
  <2>2. QED
    BY <1>2, <2>1, ClosingKeeps DEF D!ftpgetSuccess, D!To
<1>3. CASE D!ftpgetError(c)
  BY <1>3, ClosingKeeps DEF D!ftpgetError, D!Breaks, D!To
<1>4. CASE D!wgetError(c) \/ D!curlError(c)
  <2>1. /\ phase[c] \in {"connect", "body", "aborted"} /\ phase' = [phase EXCEPT ![c] = "over"]
        /\ D!Exit(c) /\ UNCHANGED <<alive, kind, got, artifact, outfile>>
    BY <1>4 DEF D!wgetError, D!curlError, D!Breaks, D!To
  <2>2. QED
    BY <2>1, PhaseKeeps, ExitSettles DEF Keeps, Moves, DownloadInv, DownloadType
<1>5. QED
  BY <1>1, <1>2, <1>3, <1>4

\* Ctrl-C takes the command off the stack and touches nothing else of it.
LEMMA CtrlCKeeps ==
    ASSUME DownloadInv, NEW c \in Commands, D!handle_CTRL_C(c)
    PROVE  Keeps(c)
<1>1. D!Exit(c) /\ UNCHANGED <<alive, kind, phase, got, artifact, outfile>>
  BY DEF D!handle_CTRL_C
<1>2. Holds(c)'
  BY <1>1 DEF DownloadInv, Holds, D!Smaller, D!Limit
<1>3. QED
  BY <1>1, <1>2, ExitSettles DEF Keeps, Moves, DownloadInv, DownloadType

LEMMA DownloadInvLost ==
    ASSUME DownloadInv, D!connectionLost
    PROVE  DownloadInv'
<1>1. /\ alive' = FALSE /\ stack' = <<>>
      /\ UNCHANGED <<kind, phase, asked, got, artifact, outfile>>
  BY DEF D!connectionLost
<1>2. DownloadType'
  BY <1>1 DEF DownloadInv, DownloadType
<1>3. \A c \in Commands : Holds(c)'
  BY <1>1 DEF DownloadInv, Holds, D!Smaller, D!Limit
<1>4. QED
  BY <1>1, <1>2, <1>3 DEF DownloadInv, D!EndsByItself

LEMMA DownloadInvStep ==
    ASSUME LimitsAreNumbers, DownloadInv, [D!Next]_downloadVars
    PROVE  DownloadInv'
<1>1. ASSUME NEW c \in Commands, Steps(c)
      PROVE  DownloadInv'
  <2>1. Keeps(c)
    BY <1>1, StartKeeps, LookupKeeps, ResponseKeeps, CollectKeeps, EndKeeps, CtrlCKeeps DEF Steps
  <2>2. QED
    BY <2>1, KeepsIsEnough
<1>2. CASE UNCHANGED downloadVars
  <2>1. DownloadType' /\ D!EndsByItself'
    BY <1>2 DEF downloadVars, DownloadInv, DownloadType, D!EndsByItself, D!OnStack
  <2>2. \A c \in Commands : Holds(c)'
    BY <1>2 DEF downloadVars, DownloadInv, Holds, D!Smaller, D!Limit
  <2>3. QED
    BY <1>2, <2>1, <2>2 DEF downloadVars, DownloadInv
<1>3. QED
  BY <1>1, <1>2, DownloadInvLost DEF D!Next, Steps

\* For any commands, chunks and limit: however downloads overlap with the
\* commands after them, what is kept under its hash is what was received up to
\* the limit, the target file only shows what was kept, and a command leaves
\* the stack of a living session by its own exit or by Ctrl-C only.
THEOREM DownloadsStaySettled == CommandsSpec => []DownloadsSettle
<1> DEFINE Inv == part = "downloads" => DownloadInv
<1>1. CommandsInit => Inv
  BY DownloadInvInit, LimitsAreNumbers DEF CommandsInit, MCInit
<1>2. Inv /\ [CommandsNext]_commandsVars => Inv'
  <2> SUFFICES ASSUME Inv, [CommandsNext]_commandsVars, part' = "downloads"
               PROVE  DownloadInv'
    OBVIOUS
  <2>1. part = "downloads"
    BY DEF CommandsNext, MCNext, commandsVars
  <2>2. [D!Next]_downloadVars
    BY <2>1 DEF CommandsNext, commandsVars
  <2>3. QED
    BY <2>1, <2>2, DownloadInvStep, LimitsAreNumbers
<1>3. Inv => DownloadsSettle
  <2> SUFFICES ASSUME DownloadInv
               PROVE  D!StoredIsReceived /\ D!EndsByItself
    BY DEF DownloadsSettle
  <2>1. ASSUME NEW c \in Commands, artifact[c].at = "hash"
        PROVE  artifact[c].data = [i \in 1..D!Smaller(got[c], D!Limit(c)) |-> i]
    BY <2>1 DEF DownloadInv, Holds, Upto
  <2>2. QED
    BY <2>1 DEF DownloadInv, D!StoredIsReceived
<1>4. QED
  BY <1>1, <1>2, <1>3, PTL DEF CommandsSpec, commandsVars
-----------------------------------------------------------------------------
(* Dialogs: what is pending, and whether what is typed is shown            *)

\* s holds c at most once.
Once(s, c) == \A i, j \in DOMAIN s : s[i] = c /\ s[j] = c => i = j

\* A timer that is set.
LEMMA SetTimer ==
    ASSUME NEW s \in Seq(Nat), NEW c \in Nat
    PROVE  /\ Append(s, c) \in Seq(Nat)
           /\ G!ToSet(Append(s, c)) = G!ToSet(s) \cup {c}
           /\ c \notin G!ToSet(s) => Once(Append(s, c), c)
           /\ \A d : d # c /\ Once(s, d) => Once(Append(s, c), d)
<1>1. /\ Append(s, c) \in Seq(Nat) /\ Len(Append(s, c)) = Len(s) + 1 /\ Len(s) \in Nat
      /\ DOMAIN Append(s, c) = 1..(Len(s) + 1) /\ DOMAIN s = 1..Len(s)
      /\ \A i \in 1..Len(s) : Append(s, c)[i] = s[i]
      /\ Append(s, c)[Len(s) + 1] = c
  OBVIOUS
<1> DEFINE t == Append(s, c)
<1> HIDE DEF t
<1>2. ASSUME NEW d
      PROVE  d \in G!ToSet(t) <=> d \in G!ToSet(s) \cup {c}
  <2>1. d \in G!ToSet(t) <=> \E i \in 1..(Len(s) + 1) : t[i] = d
    BY <1>1 DEF G!ToSet, t
  <2>2. d \in G!ToSet(s) <=> \E i \in 1..Len(s) : s[i] = d
    BY <1>1 DEF G!ToSet
  <2>3. QED
    BY <1>1, <2>1, <2>2 DEF t
<1>3. ASSUME NEW d, d # c \/ d \notin G!ToSet(s), Once(s, d)
      PROVE  Once(t, d)
  <2> SUFFICES ASSUME NEW i \in 1..(Len(s) + 1), NEW j \in 1..(Len(s) + 1), t[i] = d, t[j] = d
               PROVE  i = j
    BY <1>1 DEF Once, t
  <2>1. CASE d # c
    BY <1>1, <1>3, <2>1 DEF Once, t
  <2>2. CASE d \notin G!ToSet(s)
    BY <1>1, <2>2 DEF G!ToSet, t
  <2>3. QED
    BY <1>3, <2>1, <2>2
<1>4. c \notin G!ToSet(s) => Once(s, c)
  BY DEF Once, G!ToSet
<1>5. QED
  BY <1>1, <1>2, <1>3, <1>4 DEF t

\* A timer that has fired or was cancelled.
LEMMA DropTimer ==
    ASSUME NEW s \in Seq(Nat), NEW k \in DOMAIN s
    PROVE  LET t == G!RemoveAt(s, k)
           IN  /\ t \in Seq(Nat)
               /\ G!ToSet(t) \subseteq G!ToSet(s)
               /\ G!ToSet(s) \subseteq G!ToSet(t) \cup {s[k]}
               /\ Once(s, s[k]) => s[k] \notin G!ToSet(t)
               /\ \A d : Once(s, d) => Once(t, d)
<1> DEFINE a == SubSeq(s, 1, k - 1)
           b == SubSeq(s, k + 1, Len(s))
           t == G!RemoveAt(s, k)
           from(i) == IF i < k THEN i ELSE i + 1
<1>1. k \in 1..Len(s) /\ Len(s) \in Nat /\ DOMAIN s = 1..Len(s) /\ \A i \in 1..Len(s) : s[i] \in Nat
  OBVIOUS
<1>2. a \in Seq(Nat) /\ Len(a) = k - 1 /\ \A i \in 1..(k - 1) : a[i] = s[i]
  BY <1>1, SubSeqProperties
<1>3. b \in Seq(Nat) /\ Len(b) = Len(s) - k /\ \A i \in 1..(Len(s) - k) : b[i] = s[i + k]
  <2>1. \A i \in (k + 1)..Len(s) : s[i] \in Nat
    BY <1>1
  <2>2. /\ b \in Seq(Nat)
        /\ Len(b) = IF k + 1 <= Len(s) THEN Len(s) - (k + 1) + 1 ELSE 0
        /\ \A i \in 1..(Len(s) - (k + 1) + 1) : b[i] = s[(k + 1) + i - 1]
    <3>1. k + 1 \in Int /\ Len(s) \in Int
      BY <1>1
    <3>2. QED
      BY <2>1, <3>1, SubSeqProperties
  <2> HIDE DEF b
  <2> DEFINE n == Len(s)
             nb == Len(b)
  <2>3. k \in 1..n /\ n \in Nat /\ nb = IF k + 1 <= n THEN n - (k + 1) + 1 ELSE 0
    BY <1>1, <2>2
  <2>4. n - (k + 1) + 1 = n - k /\ \A i \in 1..(n - k) : (k + 1) + i - 1 = i + k
    <3> HIDE DEF n
    <3>1. QED
      BY <2>3
  <2>5. nb = n - k
    <3> HIDE DEF n, nb
    <3>1. QED
      BY <2>3
  <2>6. QED
    BY <2>2, <2>4, <2>5
<1>4. t = a \o b
  BY DEF G!RemoveAt
<1> HIDE DEF a, b, t
<1>5. /\ t \in Seq(Nat) /\ Len(t) = Len(s) - 1 /\ DOMAIN t = 1..(Len(s) - 1)
      /\ \A i \in 1..(Len(s) - 1) : t[i] = s[from(i)]
  <2> DEFINE n == Len(s)
             na == Len(a)
             nb == Len(b)
  <2>1. /\ t \in Seq(Nat) /\ Len(t) = na + nb /\ na = k - 1 /\ nb = n - k /\ k \in 1..n /\ n \in Nat
        /\ \A i \in 1..(na + nb) : t[i] = IF i <= na THEN a[i] ELSE b[i - na]
    BY <1>1, <1>2, <1>3, <1>4, ConcatProperties
  <2>2. na + nb = n - 1
    <3> HIDE DEF n, na, nb
    <3>1. (k - 1) + (n - k) = n - 1
      BY <2>1
    <3>2. QED
      BY <2>1, <3>1
  <2> HIDE DEF n, na, nb
  <2>6. na = k - 1 /\ k \in 1..n /\ n \in Nat
    BY <2>1
  <2>3. Len(t) = n - 1 /\ DOMAIN t = 1..(n - 1)
    BY <2>1, <2>2
  <2>4. ASSUME NEW i \in 1..(n - 1)
        PROVE  t[i] = s[from(i)]
    <3>1. t[i] = IF i <= na THEN a[i] ELSE b[i - na]
      BY <2>1, <2>2
    <3>2. CASE i < k
      <4>1. i \in 1..(k - 1) /\ i <= na
        BY <2>6, <3>2
      <4>2. QED
        BY <1>2, <3>1, <3>2, <4>1
    <3>3. CASE ~(i < k)
      <4>1. i - na \in 1..(n - k) /\ (i - na) + k = i + 1 /\ ~(i <= na)
        BY <2>6, <3>3
      <4>2. b[i - na] = s[(i - na) + k]
        BY <1>3, <4>1 DEF n
      <4>3. QED
        BY <3>1, <3>3, <4>1, <4>2
    <3>4. QED
      BY <3>2, <3>3
  <2>5. QED
    BY <2>1, <2>3, <2>4 DEF n
<1>6. /\ \A i \in 1..(Len(s) - 1) : from(i) \in 1..Len(s) /\ from(i) # k
      /\ \A i, j \in 1..(Len(s) - 1) : from(i) = from(j) => i = j
      /\ \A i \in 1..Len(s) : i # k => \E j \in 1..(Len(s) - 1) : from(j) = i
  <2>1. ASSUME NEW i \in 1..Len(s), i # k
        PROVE  \E j \in 1..(Len(s) - 1) : from(j) = i
    <3>1. CASE i < k
      BY <1>1, <3>1
    <3>2. CASE i > k
      <4>1. i - 1 \in 1..(Len(s) - 1) /\ from(i - 1) = i
        BY <1>1, <3>2
      <4>2. QED
        BY <4>1
    <3>3. QED
      BY <1>1, <2>1, <3>1, <3>2
  <2>2. QED
    BY <1>1, <2>1
<1> HIDE DEF from
<1>7. G!ToSet(t) \subseteq G!ToSet(s)
  <2>1. \A i \in 1..(Len(s) - 1) : t[i] \in G!ToSet(s)
    BY <1>1, <1>5, <1>6 DEF G!ToSet
  <2>2. QED
    BY <1>5, <2>1 DEF G!ToSet
<1>8. G!ToSet(s) \subseteq G!ToSet(t) \cup {s[k]}
  <2>1. ASSUME NEW i \in 1..Len(s), i # k
        PROVE  s[i] \in G!ToSet(t)
    BY <1>5, <1>6, <2>1 DEF G!ToSet
  <2>2. QED
    BY <1>1, <2>1 DEF G!ToSet
<1>9. Once(s, s[k]) => s[k] \notin G!ToSet(t)
  BY <1>1, <1>5, <1>6 DEF G!ToSet, Once
<1>10. ASSUME NEW d, Once(s, d)
       PROVE  Once(t, d)
  BY <1>1, <1>5, <1>6, <1>10 DEF Once
<1>11. QED
  BY <1>5, <1>7, <1>8, <1>9, <1>10 DEF t

\* A timer that sets itself again.
LEMMA ResetTimer ==
    ASSUME NEW s \in Seq(Nat), NEW k \in DOMAIN s
    PROVE  LET t == Append(G!RemoveAt(s, k), s[k])
           IN  /\ t \in Seq(Nat)
               /\ G!ToSet(t) = G!ToSet(s)
               /\ \A d : Once(s, d) => Once(t, d)
<1> DEFINE r == G!RemoveAt(s, k)
<1>1. s[k] \in Nat /\ s[k] \in G!ToSet(s)
  BY DEF G!ToSet
<1>2. /\ r \in Seq(Nat) /\ G!ToSet(r) \subseteq G!ToSet(s)
      /\ G!ToSet(s) \subseteq G!ToSet(r) \cup {s[k]}
      /\ Once(s, s[k]) => s[k] \notin G!ToSet(r)
      /\ \A d : Once(s, d) => Once(r, d)
  BY DropTimer
<1> HIDE DEF r
<1>3. /\ Append(r, s[k]) \in Seq(Nat)
      /\ G!ToSet(Append(r, s[k])) = G!ToSet(r) \cup {s[k]}
      /\ s[k] \notin G!ToSet(r) => Once(Append(r, s[k]), s[k])
      /\ \A d : d # s[k] /\ Once(r, d) => Once(Append(r, s[k]), d)
  BY <1>1, <1>2, SetTimer
<1>4. QED
  BY <1>1, <1>2, <1>3 DEF r

Names == {"passwd", "adduser", "ssh", "gcc", "scp", "apt", "yum", "ping", "yes", "shutdown", "reboot"}
Endless == {"ping", "yes"}

DialogType ==
    /\ cmds \in Seq([name : Names, item : Nat, lines : Nat])
    /\ top \in 0..Len(cmds)
    /\ timers \in Seq(Nat) /\ G!ToSet(timers) \subseteq 1..Len(cmds)
    /\ password_input \in BOOLEAN /\ ended \in BOOLEAN
    /\ raised \in BOOLEAN /\ rushed \in BOOLEAN

\* A ping or yes has one timer, and only while it is on the stack.
Silent ==
    \A c \in G!ToSet(timers) :
        G!Name(c) \in Endless => Once(timers, c) /\ (top = c \/ ended)

\* What of the commands that are on their way to a question may be pending:
\* ssh's answer after the password, yum's sleeps before and after its question.
Pending(c) ==
    /\ Once(timers, c)
    /\ top = c
    /\ G!Name(c) \notin {"passwd", "scp"}
    /\ G!Name(c) = "ssh" => G!Item(c) = 3
    /\ G!Name(c) = "yum" => G!Item(c) # G!YumAsks + 1

\* As long as nobody rushes a command, only the one on the stack has a timer,
\* apart from gcc, and it has one at most; adduser is at one of its items, and
\* past the last of them only to start over.
Calm ==
    ~rushed /\ ~ended =>
        /\ \A c \in G!ToSet(timers) : G!Name(c) # "gcc" => Pending(c)
        /\ top # 0 /\ G!Name(top) = "adduser" =>
              /\ G!Item(top) \in 2..(Len(G!AddItems) + 1)
              /\ G!Item(top) = Len(G!AddItems) + 1 => top \in G!ToSet(timers)
        /\ top # 0 => G!Name(top) # "gcc"

DialogInv == DialogType /\ Silent /\ Calm /\ G!EchoFollowsQuestion

LEMMA AddItemsAre ==
    /\ Len(G!AddItems) = 8
    /\ G!AddItems[2] = "password" /\ G!AddItems[3] = "password" /\ G!AddItems[4] = "out"
    /\ G!AddItems[5] = "ask" /\ G!AddItems[6] = "correct" /\ G!AddItems[7] = "out"
    /\ G!AddItems[8] = "again"
BY DEF G!AddItems

LEMMA AsksPasswordMeans ==
    G!AsksPassword <=>
        /\ top # 0
        /\ \/ cmds[top].name = "passwd"
           \/ cmds[top].name = "ssh" /\ cmds[top].item > 1
           \/ /\ cmds[top].name = "adduser" /\ cmds[top].item \in {2, 3}
              /\ top \notin G!ToSet(timers)
BY DEF G!AsksPassword, G!Name, G!Item

LEMMA CmdsAreTyped ==
    ASSUME DialogType
    PROVE  \A c \in 1..Len(cmds) : cmds[c].name \in Names /\ cmds[c].item \in Nat
<1> DEFINE Rec == [name : Names, item : Nat, lines : Nat]
<1> SUFFICES ASSUME NEW c \in 1..Len(cmds)
             PROVE  cmds[c].name \in Names /\ cmds[c].item \in Nat
  OBVIOUS
<1>1. cmds \in Seq(Rec)
  BY DEF DialogType
<1>2. \A r \in Rec : r.name \in Names /\ r.item \in Nat
  OBVIOUS
<1> HIDE DEF Rec
<1>3. cmds[c] \in Rec
  BY <1>1
<1>4. QED
  BY <1>2, <1>3

\* A command that is started is added behind the others.
LEMMA StartedIsAdded ==
    ASSUME DialogType, NEW nm \in Names, NEW it \in Nat,
           cmds' = Append(cmds, [name |-> nm, item |-> it, lines |-> 0])
    PROVE  /\ cmds' \in Seq([name : Names, item : Nat, lines : Nat])
           /\ Len(cmds') = Len(cmds) + 1 /\ Len(cmds) \in Nat
           /\ \A c \in 1..Len(cmds) : cmds'[c] = cmds[c]
           /\ cmds'[Len(cmds) + 1].name = nm /\ cmds'[Len(cmds) + 1].item = it
<1>1. [name |-> nm, item |-> it, lines |-> 0] \in [name : Names, item : Nat, lines : Nat]
  OBVIOUS
<1> DEFINE Rec == [name : Names, item : Nat, lines : Nat]
           r == [name |-> nm, item |-> it, lines |-> 0]
<1>2. cmds \in Seq(Rec) /\ r.name = nm /\ r.item = it
  BY DEF DialogType
<1>3. cmds' = Append(cmds, r)
  OBVIOUS
<1> HIDE DEF Rec, r
<1>4. /\ cmds' \in Seq(Rec) /\ Len(cmds') = Len(cmds) + 1 /\ Len(cmds) \in Nat
      /\ \A c \in 1..Len(cmds) : cmds'[c] = cmds[c]
      /\ cmds'[Len(cmds) + 1] = r
  BY <1>1, <1>2, <1>3, AppendProperties DEF Rec, r
<1>5. QED
  BY <1>2, <1>4 DEF Rec

\* A command goes to another item, or takes a line.
LEMMA CmdGoes ==
    ASSUME DialogType, NEW c \in 1..Len(cmds), NEW it \in Nat, NEW n \in Nat,
           cmds' = [cmds EXCEPT ![c] = [name |-> cmds[c].name, item |-> it, lines |-> n]]
    PROVE  /\ cmds' \in Seq([name : Names, item : Nat, lines : Nat])
           /\ Len(cmds') = Len(cmds)
           /\ \A d \in 1..Len(cmds) : /\ cmds'[d].name = cmds[d].name
                                      /\ d # c => cmds'[d] = cmds[d]
           /\ cmds'[c].item = it
<1>1. cmds[c].name \in Names
  BY CmdsAreTyped
<1>2. [name |-> cmds[c].name, item |-> it, lines |-> n] \in [name : Names, item : Nat, lines : Nat]
  BY <1>1
<1>3. QED
  BY <1>2 DEF DialogType

LEMMA GoesIs ==
    ASSUME DialogType, NEW c \in 1..Len(cmds), NEW it
    PROVE  /\ G!Goes(c, it) =
                [cmds EXCEPT ![c] = [name |-> cmds[c].name, item |-> it, lines |-> cmds[c].lines]]
           /\ cmds[c].lines \in Nat
<1> DEFINE Rec == [name : Names, item : Nat, lines : Nat]
<1>1. cmds[c] \in Rec
  <2>1. cmds \in Seq(Rec)
    BY DEF DialogType
  <2> HIDE DEF Rec
  <2>2. QED
    BY <2>1
<1>2. [cmds[c] EXCEPT !.item = it] = [name |-> cmds[c].name, item |-> it, lines |-> cmds[c].lines]
  BY <1>1
<1>3. QED
  BY <1>1, <1>2 DEF G!Goes

LEMMA DialogInvInit ==
    ASSUME G!DialogInit
    PROVE  DialogInv
<1>1. cmds = <<>> /\ top = 0 /\ timers = <<>> /\ ~password_input /\ ~ended /\ ~raised /\ ~rushed
      /\ password_input \in BOOLEAN /\ ended \in BOOLEAN /\ raised \in BOOLEAN /\ rushed \in BOOLEAN
  BY DEF G!DialogInit
<1>2. G!ToSet(timers) = {}
  BY <1>1 DEF G!ToSet
<1>3. DialogType
  BY <1>1, <1>2 DEF DialogType
<1>4. Silent /\ Calm
  BY <1>1, <1>2 DEF Silent, Calm
<1>5. QED
  BY <1>1, <1>3, <1>4, AsksPasswordMeans DEF DialogInv, G!EchoFollowsQuestion

-----------------------------------------------------------------------------
(* Starting a command                                                      *)

\* What the start of any of the commands does.
StartsAs(nm, it) ==
    /\ top = 0 /\ ~ended
    /\ cmds' = Append(cmds, [name |-> nm, item |-> it, lines |-> 0])
    /\ top' = IF nm = "gcc" THEN 0 ELSE Len(cmds) + 1
    /\ timers' = IF nm \in {"passwd", "ssh", "scp"} THEN timers ELSE Append(timers, Len(cmds) + 1)
    /\ password_input' = IF nm = "passwd" THEN TRUE ELSE password_input
    /\ UNCHANGED <<ended, raised, rushed>>

LEMMA StartsAreStarts ==
    ASSUME DialogType,
           \/ G!StartPasswd \/ G!StartAdduser \/ G!StartSsh \/ G!StartGcc \/ G!StartScp
           \/ G!StartApt \/ G!StartYum \/ G!StartPing \/ G!StartYes
           \/ G!StartShutdown \/ G!StartReboot
    PROVE  \E nm \in Names : StartsAs(nm, IF nm = "adduser" THEN 2 ELSE 1)
<1>1. CASE G!StartPasswd
  <2>1. StartsAs("passwd", 1)
    BY <1>1 DEF G!StartPasswd, G!Started, G!New, StartsAs
  <2>2. QED
    BY <2>1 DEF Names
<1>2. CASE G!StartAdduser
  <2>1. StartsAs("adduser", 2)
    BY <1>2 DEF G!StartAdduser, G!New, StartsAs
  <2>2. QED
    BY <2>1 DEF Names
<1>3. CASE G!StartSsh
  <2>1. StartsAs("ssh", 1)
    BY <1>3 DEF G!StartSsh, G!Started, G!New, StartsAs
  <2>2. QED
    BY <2>1 DEF Names
<1>4. CASE G!StartGcc
  <2>1. StartsAs("gcc", 1)
    BY <1>4 DEF G!StartGcc, G!Started, G!New, StartsAs
  <2>2. QED
    BY <2>1 DEF Names
<1>5. CASE G!StartScp
  <2>1. StartsAs("scp", 1)
    BY <1>5 DEF G!StartScp, G!Started, G!New, StartsAs
  <2>2. QED
    BY <2>1 DEF Names
<1>6. ASSUME NEW nm \in {"apt", "yum", "ping", "yes", "shutdown", "reboot"}, G!StartTimed(nm)
      PROVE  \E n \in Names : StartsAs(n, IF n = "adduser" THEN 2 ELSE 1)
  <2>1. StartsAs(nm, 1)
    BY <1>6 DEF G!StartTimed, G!Started, G!New, StartsAs
  <2>2. nm \in Names /\ nm # "adduser"
    BY DEF Names
  <2>3. QED
    BY <2>1, <2>2
<1>7. QED
  BY <1>1, <1>2, <1>3, <1>4, <1>5, <1>6
  DEF G!StartApt, G!StartYum, G!StartPing, G!StartYes, G!StartShutdown, G!StartReboot

LEMMA DialogInvStart ==
    ASSUME DialogInv, NEW nm \in Names, NEW it \in Nat,
           it = IF nm = "adduser" THEN 2 ELSE 1, StartsAs(nm, it)
    PROVE  DialogInv'
<1> DEFINE new == Len(cmds) + 1
<1> USE DEF DialogInv
<1>1. /\ cmds' \in Seq([name : Names, item : Nat, lines : Nat])
      /\ Len(cmds') = new /\ Len(cmds) \in Nat
      /\ \A c \in 1..Len(cmds) : cmds'[c] = cmds[c]
      /\ cmds'[new].name = nm /\ cmds'[new].item = it
  BY StartedIsAdded DEF StartsAs
<1>2. /\ G!ToSet(timers) \subseteq 1..Len(cmds) /\ timers \in Seq(Nat)
      /\ password_input \in BOOLEAN /\ ended \in BOOLEAN /\ raised \in BOOLEAN /\ rushed \in BOOLEAN
  BY DEF DialogType
<1>3. new \notin G!ToSet(timers) /\ new \in Nat /\ new \notin 1..Len(cmds) /\ new # 0
  BY <1>1, <1>2
<1>4. /\ timers' \in Seq(Nat) /\ G!ToSet(timers)' \subseteq G!ToSet(timers) \cup {new}
      /\ \A c \in G!ToSet(timers) : Once(timers, c) => Once(timers', c)
      /\ Once(timers', new)
      /\ nm \in {"passwd", "ssh", "scp"} <=> new \notin G!ToSet(timers)'
  <2>1. CASE nm \in {"passwd", "ssh", "scp"}
    <3>1. timers' = timers
      BY <2>1 DEF StartsAs
    <3>2. G!ToSet(timers)' = G!ToSet(timers)
      BY <3>1 DEF G!ToSet
    <3>3. Once(timers, new)
      BY <1>3 DEF Once, G!ToSet
    <3>4. QED
      BY <1>2, <1>3, <2>1, <3>1, <3>2, <3>3
  <2>2. CASE nm \notin {"passwd", "ssh", "scp"}
    <3>1. timers' = Append(timers, new)
      BY <2>2 DEF StartsAs
    <3>2. /\ Append(timers, new) \in Seq(Nat)
          /\ G!ToSet(Append(timers, new)) = G!ToSet(timers) \cup {new}
          /\ new \notin G!ToSet(timers) => Once(Append(timers, new), new)
          /\ \A d : d # new /\ Once(timers, d) => Once(Append(timers, new), d)
      BY <1>2, <1>3, SetTimer
    <3>3. G!ToSet(timers)' = G!ToSet(timers) \cup {new}
      BY <3>1, <3>2 DEF G!ToSet
    <3>4. QED
      BY <1>3, <2>2, <3>1, <3>2, <3>3
  <2>3. QED
    BY <2>1, <2>2
<1>5. /\ top = 0 /\ ~ended /\ top' = IF nm = "gcc" THEN 0 ELSE new
      /\ password_input' = IF nm = "passwd" THEN TRUE ELSE password_input
      /\ UNCHANGED <<ended, raised, rushed>>
  BY DEF StartsAs
<1> HIDE DEF new
<1>6. DialogType'
  <2>1. top' \in 0..Len(cmds')
    BY <1>1, <1>3, <1>5
  <2>2. G!ToSet(timers)' \subseteq 1..Len(cmds')
    <3>1. 1..Len(cmds) \subseteq 1..new /\ new \in 1..new
      BY <1>1 DEF new
    <3>2. QED
      BY <1>1, <1>2, <1>4, <3>1
  <2>3. password_input' \in BOOLEAN
    BY <1>2, <1>5
  <2>4. QED
    BY <1>1, <1>2, <1>4, <1>5, <2>1, <2>2, <2>3 DEF DialogType
<1>7. ASSUME NEW c \in G!ToSet(timers)
      PROVE  /\ cmds[c].name \notin Endless
             /\ ~rushed => cmds[c].name = "gcc"
  <2>1. c # 0 /\ ~ended
    BY <1>2, <1>5
  <2>2. QED
    BY <1>5, <2>1 DEF Silent, Calm, Pending, G!Name
<1>8. Silent'
  <2>1. ASSUME NEW c \in G!ToSet(timers)', cmds'[c].name \in Endless
        PROVE  Once(timers', c) /\ top' = c
    <3>1. c = new
      BY <1>1, <1>2, <1>4, <1>7, <2>1
    <3>2. nm \in Endless
      BY <1>1, <2>1, <3>1
    <3>3. QED
      BY <1>4, <1>5, <3>1, <3>2 DEF Endless
  <2>2. QED
    BY <2>1 DEF Silent, G!Name
<1>9. CASE rushed
  BY <1>5, <1>6, <1>8, <1>9 DEF Calm, G!EchoFollowsQuestion
<1>10. CASE ~rushed
  <2>1. ASSUME NEW c \in G!ToSet(timers)', cmds'[c].name # "gcc"
        PROVE  Pending(c)'
    <3>1. c = new
      <4>1. ASSUME c \in G!ToSet(timers)
            PROVE  FALSE
        <5>1. c \in 1..Len(cmds) /\ cmds[c].name = "gcc"
          BY <1>2, <1>7, <1>10, <4>1
        <5>2. QED
          BY <1>1, <2>1, <5>1
      <4>2. QED
        BY <1>4, <2>1, <4>1
    <3>2. nm \notin {"passwd", "scp", "ssh", "gcc"} /\ it # 4
      BY <1>1, <1>4, <2>1, <3>1
    <3>3. QED
      BY <1>1, <1>4, <1>5, <3>1, <3>2 DEF Pending, G!Name, G!Item, G!YumAsks
  <2>2. ASSUME nm # "gcc"
        PROVE  top' = new /\ cmds'[top'].name = nm /\ cmds'[top'].item = it
    BY <1>1, <1>5, <2>2
  <2>3. nm = "adduser" => top' \in G!ToSet(timers)' /\ it = 2
    BY <1>4, <1>5
  <2>4. Calm'
    BY <1>3, <1>5, <2>1, <2>2, <2>3, AddItemsAre DEF Calm, G!Name, G!Item
  <2>5. ~password_input /\ ~raised
    BY <1>5, <1>10, AsksPasswordMeans DEF G!EchoFollowsQuestion
  <2>6. G!AsksPassword' <=> nm = "passwd"
    <3>1. G!AsksPassword' <=>
            /\ top' # 0
            /\ \/ cmds'[top'].name = "passwd"
               \/ cmds'[top'].name = "ssh" /\ cmds'[top'].item > 1
               \/ /\ cmds'[top'].name = "adduser" /\ cmds'[top'].item \in {2, 3}
                  /\ top' \notin G!ToSet(timers)'
      BY DEF G!AsksPassword, G!Name, G!Item
    <3>2. CASE nm = "gcc"
      BY <1>5, <3>1, <3>2
    <3>3. CASE nm # "gcc"
      BY <1>3, <2>2, <2>3, <3>1, <3>3
    <3>4. QED
      BY <3>2, <3>3
  <2>7. G!EchoFollowsQuestion'
    BY <1>5, <2>5, <2>6 DEF G!EchoFollowsQuestion
  <2>8. QED
    BY <1>6, <1>8, <2>4, <2>7
<1>11. QED
  BY <1>9, <1>10

-----------------------------------------------------------------------------
(* Timers                                                                  *)

\* What every timer that fires leaves: the names of the commands, and of the
\* timers those that did not fire.
LEMMA FiredTimer ==
    ASSUME DialogType, NEW i \in DOMAIN timers,
           timers' = G!WithoutTimer(i) \/ timers' = Append(G!WithoutTimer(i), timers[i])
    PROVE  /\ timers[i] \in 1..Len(cmds) /\ timers[i] \in G!ToSet(timers)
           /\ timers' \in Seq(Nat) /\ G!ToSet(timers)' \subseteq G!ToSet(timers)
           /\ G!ToSet(timers) \subseteq G!ToSet(timers)' \cup {timers[i]}
           /\ \A c : Once(timers, c) => Once(timers', c)
           /\ timers' = G!WithoutTimer(i) /\ Once(timers, timers[i]) =>
                timers[i] \notin G!ToSet(timers)'
           /\ timers' = Append(G!WithoutTimer(i), timers[i]) => G!ToSet(timers)' = G!ToSet(timers)
<1> DEFINE less == G!RemoveAt(timers, i)
           back == Append(less, timers[i])
<1>1. timers \in Seq(Nat) /\ G!ToSet(timers) \subseteq 1..Len(cmds)
  BY DEF DialogType
<1>2. timers[i] \in G!ToSet(timers)
  BY DEF G!ToSet
<1>3. /\ less \in Seq(Nat) /\ G!ToSet(less) \subseteq G!ToSet(timers)
      /\ G!ToSet(timers) \subseteq G!ToSet(less) \cup {timers[i]}
      /\ Once(timers, timers[i]) => timers[i] \notin G!ToSet(less)
      /\ \A d : Once(timers, d) => Once(less, d)
  BY <1>1, DropTimer
<1>4. /\ back \in Seq(Nat) /\ G!ToSet(back) = G!ToSet(timers)
      /\ \A d : Once(timers, d) => Once(back, d)
  BY <1>1, ResetTimer
<1>5. timers' = less \/ timers' = back
  BY DEF G!WithoutTimer
<1> HIDE DEF less, back
<1>6. G!ToSet(timers)' = G!ToSet(timers')
  BY DEF G!ToSet
<1>7. timers' = G!WithoutTimer(i) <=> timers' = less
  BY DEF G!WithoutTimer, less
<1>8. timers' = Append(G!WithoutTimer(i), timers[i]) <=> timers' = back
  BY DEF G!WithoutTimer, less, back
<1>9. QED
  BY <1>1, <1>2, <1>3, <1>4, <1>5, <1>6, <1>7, <1>8

\* The shape of a step that ends a command with its timer.
LEMMA DialogInvEnds ==
    ASSUME DialogInv, NEW i \in DOMAIN timers, timers' = G!WithoutTimer(i),
           cmds[timers[i]].name \notin {"gcc", "adduser"}, G!exit(timers[i]),
           password_input' = IF cmds[timers[i]].name = "ssh" THEN FALSE ELSE password_input,
           UNCHANGED <<cmds, ended, rushed>>
    PROVE  DialogInv'
<1> DEFINE c == timers[i]
<1> USE DEF DialogInv
<1>1. /\ c \in 1..Len(cmds) /\ c \in G!ToSet(timers)
      /\ timers' \in Seq(Nat) /\ G!ToSet(timers)' \subseteq G!ToSet(timers)
      /\ \A d : Once(timers, d) => Once(timers', d)
      /\ Once(timers, c) => c \notin G!ToSet(timers)'
  BY FiredTimer
<1>2. /\ cmds[c].name \notin {"gcc", "adduser"}
      /\ top' = IF top = c THEN 0 ELSE top
      /\ raised' = (raised \/ top # c)
      /\ password_input' = IF cmds[c].name = "ssh" THEN FALSE ELSE password_input
      /\ UNCHANGED <<cmds, ended, rushed>>
  BY DEF G!exit
<1> HIDE DEF c
<1>3. DialogType'
  <2>1. top' \in 0..Len(cmds)
    BY <1>2 DEF DialogType
  <2>2. raised' \in BOOLEAN
    BY <1>2
  <2>3. password_input' \in BOOLEAN
    BY <1>2 DEF DialogType
  <2>4. QED
    BY <1>1, <1>2, <2>1, <2>2, <2>3 DEF DialogType
<1>4. Silent'
  <2>1. ASSUME NEW d \in G!ToSet(timers)', cmds[d].name \in Endless
        PROVE  Once(timers', d) /\ (top' = d \/ ended')
    <3>1. Once(timers, d) /\ (top = d \/ ended) /\ d \in G!ToSet(timers)
      BY <1>1, <2>1 DEF Silent, G!Name
    <3>2. d = c => FALSE
      BY <1>1, <2>1, <3>1
    <3>3. QED
      BY <1>1, <1>2, <3>1, <3>2
  <2>2. QED
    BY <1>2, <2>1 DEF Silent, G!Name
<1>5. ASSUME ~rushed, ~ended
      PROVE  Calm' /\ G!EchoFollowsQuestion'
  <2>1. Once(timers, c) /\ top = c /\ cmds[c].name # "passwd"
    BY <1>1, <1>2, <1>5 DEF Calm, Pending, G!Name
  <2>2. \A d \in G!ToSet(timers)' : cmds[d].name = "gcc"
    BY <1>1, <1>5, <2>1 DEF Calm, Pending, G!Name
  <2>3. top' = 0 /\ ~raised /\ ~raised'
    BY <1>2, <1>5, <2>1 DEF G!EchoFollowsQuestion
  <2>4. ~password_input'
    BY <1>2, <1>5, <2>1, AsksPasswordMeans DEF G!EchoFollowsQuestion
  <2>5. QED
    BY <1>2, <2>2, <2>3, <2>4 DEF Calm, G!EchoFollowsQuestion, G!AsksPassword, G!Name
<1>6. QED
  BY <1>2, <1>3, <1>4, <1>5 DEF Calm, G!EchoFollowsQuestion

\* What a timer that lets its command go on, if to another item, leaves.
GoesOn(i, it) ==
    /\ timers' = G!WithoutTimer(i) \/ timers' = Append(G!WithoutTimer(i), timers[i])
    /\ cmds' = IF it = cmds[timers[i]].item THEN cmds ELSE G!Goes(timers[i], it)
    /\ UNCHANGED <<top, raised, rushed>>

LEMMA GoesOnIs ==
    ASSUME DialogType, NEW i \in DOMAIN timers, NEW it \in Nat, GoesOn(i, it)
    PROVE  /\ cmds' \in Seq([name : Names, item : Nat, lines : Nat])
           /\ Len(cmds') = Len(cmds)
           /\ \A d \in 1..Len(cmds) : /\ cmds'[d].name = cmds[d].name
                                      /\ d # timers[i] => cmds'[d] = cmds[d]
           /\ cmds'[timers[i]].item = it
<1>1. timers[i] \in 1..Len(cmds)
  BY FiredTimer DEF GoesOn
<1>2. CASE it = cmds[timers[i]].item
  BY <1>1, <1>2 DEF GoesOn, DialogType
<1>3. CASE it # cmds[timers[i]].item
  <2>1. cmds' = [cmds EXCEPT ![timers[i]] =
                   [name |-> cmds[timers[i]].name, item |-> it, lines |-> cmds[timers[i]].lines]]
        /\ cmds[timers[i]].lines \in Nat
    BY <1>1, <1>3, GoesIs DEF GoesOn
  <2>2. QED
    BY <1>1, <2>1, CmdGoes
<1>4. QED
  BY <1>2, <1>3

LEMMA GoesOnSilent ==
    ASSUME DialogInv, NEW i \in DOMAIN timers, NEW it \in Nat, GoesOn(i, it),
           password_input' \in BOOLEAN, ended' \in BOOLEAN, ended => ended'
    PROVE  DialogType' /\ Silent'
<1>1. /\ timers[i] \in 1..Len(cmds)
      /\ timers' \in Seq(Nat) /\ G!ToSet(timers)' \subseteq G!ToSet(timers)
      /\ \A d : Once(timers, d) => Once(timers', d)
  BY FiredTimer DEF GoesOn, DialogInv
<1>2. /\ cmds' \in Seq([name : Names, item : Nat, lines : Nat])
      /\ Len(cmds') = Len(cmds)
      /\ \A d \in 1..Len(cmds) : cmds'[d].name = cmds[d].name
  BY GoesOnIs DEF DialogInv
<1>3. DialogType'
  BY <1>1, <1>2 DEF DialogInv, DialogType, GoesOn
<1>4. G!ToSet(timers) \subseteq 1..Len(cmds)
  BY DEF DialogInv, DialogType
<1>5. ASSUME NEW d \in G!ToSet(timers)', cmds'[d].name \in Endless
      PROVE  Once(timers', d) /\ (top' = d \/ ended')
  <2>1. d \in G!ToSet(timers) /\ cmds[d].name \in Endless
    BY <1>1, <1>2, <1>4, <1>5
  <2>2. QED
    BY <1>1, <2>1 DEF DialogInv, Silent, G!Name, GoesOn
<1>6. QED
  BY <1>3, <1>5 DEF Silent, G!Name

\* apt, yum, ping, yes and gcc go on without asking for a password.
LEMMA DialogInvGoesOn ==
    ASSUME DialogInv, NEW i \in DOMAIN timers, NEW it \in Nat, GoesOn(i, it),
           cmds[timers[i]].name \notin {"passwd", "ssh", "adduser"},
           cmds[timers[i]].name = "yum" /\ it = G!YumAsks + 1 =>
               timers' = G!WithoutTimer(i),
           UNCHANGED <<password_input, ended>>
    PROVE  DialogInv'
<1> DEFINE c == timers[i]
<1> USE DEF DialogInv
<1>1. /\ c \in 1..Len(cmds) /\ c \in G!ToSet(timers)
      /\ G!ToSet(timers)' \subseteq G!ToSet(timers)
      /\ G!ToSet(timers) \subseteq G!ToSet(timers)' \cup {c}
      /\ \A d : Once(timers, d) => Once(timers', d)
      /\ timers' = G!WithoutTimer(i) /\ Once(timers, c) => c \notin G!ToSet(timers)'
      /\ G!ToSet(timers) \subseteq 1..Len(cmds)
  BY FiredTimer DEF GoesOn, DialogType
<1>2. /\ \A d \in 1..Len(cmds) : /\ cmds'[d].name = cmds[d].name
                                 /\ d # c => cmds'[d] = cmds[d]
      /\ cmds'[c].item = it
  BY GoesOnIs
<1>3. /\ UNCHANGED <<top, raised, rushed, password_input, ended>>
      /\ cmds[c].name \notin {"passwd", "ssh", "adduser"}
      /\ cmds[c].name = "yum" /\ it = G!YumAsks + 1 => timers' = G!WithoutTimer(i)
      /\ top \in 0..Len(cmds)
  BY DEF GoesOn, DialogType
<1>4. DialogType' /\ Silent'
  <2>1. password_input' \in BOOLEAN /\ ended' \in BOOLEAN /\ (ended => ended')
    BY <1>3 DEF DialogType
  <2>2. QED
    BY <2>1, GoesOnSilent
<1> HIDE DEF c
<1>5. ASSUME ~rushed, ~ended
      PROVE  Calm' /\ G!EchoFollowsQuestion'
  <2>1. ASSUME NEW d \in G!ToSet(timers)', cmds'[d].name # "gcc"
        PROVE  Pending(d)'
    <3>1. d \in G!ToSet(timers) /\ d \in 1..Len(cmds) /\ cmds[d].name = cmds'[d].name
      BY <1>1, <1>2
    <3>2. /\ Once(timers, d) /\ top = d
          /\ cmds[d].name \notin {"passwd", "scp"}
          /\ cmds[d].name = "ssh" => cmds[d].item = 3
          /\ cmds[d].name = "yum" => cmds[d].item # G!YumAsks + 1
      BY <1>5, <2>1, <3>1 DEF Calm, Pending, G!Name, G!Item
    <3>3. cmds[d].name = "ssh" => cmds'[d].item = 3
      BY <1>2, <1>3, <3>1, <3>2
    <3>4. cmds[d].name = "yum" => cmds'[d].item # G!YumAsks + 1
      BY <1>1, <1>2, <1>3, <3>1, <3>2
    <3>5. QED
      BY <1>1, <1>3, <3>1, <3>2, <3>3, <3>4 DEF Pending, G!Name, G!Item
  <2>2. top # 0 => /\ cmds'[top].name = cmds[top].name
                   /\ cmds[top].name \in {"passwd", "ssh", "adduser"} =>
                         /\ top # c /\ cmds'[top] = cmds[top]
                         /\ top \in G!ToSet(timers)' <=> top \in G!ToSet(timers)
    BY <1>1, <1>2, <1>3
  <2>3. Calm'
    <3>1. top # 0 /\ cmds[top].name = "adduser" =>
              /\ cmds[top].item \in 2..(Len(G!AddItems) + 1)
              /\ cmds[top].item = Len(G!AddItems) + 1 => top \in G!ToSet(timers)
      BY <1>5 DEF Calm, G!Name, G!Item
    <3>2. top # 0 => cmds[top].name # "gcc"
      BY <1>5 DEF Calm, G!Name
    <3>3. QED
      BY <1>3, <2>1, <2>2, <3>1, <3>2 DEF Calm, G!Name, G!Item
  <2>4. G!AsksPassword' <=> G!AsksPassword
    <3>1. G!AsksPassword' <=>
            /\ top # 0
            /\ \/ cmds'[top].name = "passwd"
               \/ cmds'[top].name = "ssh" /\ cmds'[top].item > 1
               \/ /\ cmds'[top].name = "adduser" /\ cmds'[top].item \in {2, 3}
                  /\ top \notin G!ToSet(timers)'
      BY <1>3 DEF G!AsksPassword, G!Name, G!Item
    <3>2. QED
      BY <2>2, <3>1, AsksPasswordMeans
  <2>5. G!EchoFollowsQuestion'
    BY <1>3, <1>5, <2>4 DEF G!EchoFollowsQuestion
  <2>6. QED
    BY <2>3, <2>5
<1>6. QED
  BY <1>3, <1>4, <1>5 DEF Calm, G!EchoFollowsQuestion

\* adduser writes what comes next, and hides what is typed if it is a question
\* for a password.
LEMMA DialogInvOutput ==
    ASSUME DialogInv, NEW i \in 1..MaxTimers, G!doOutput(i)
    PROVE  DialogInv'
<1> DEFINE c == timers[i]
           at == cmds[c].item
           goes == at = Len(G!AddItems) + 1 \/ (at <= Len(G!AddItems) /\ G!AddItems[at] = "out")
           it == IF at = Len(G!AddItems) + 1 THEN G!AddRestart ELSE IF goes THEN at + 1 ELSE at
           asks == at <= Len(G!AddItems) /\ G!AddItems[at] = "password"
<1> USE DEF DialogInv
<1>1. /\ i \in DOMAIN timers /\ cmds[c].name = "adduser"
      /\ UNCHANGED <<top, ended, raised, rushed>>
  BY DEF G!doOutput, G!Fires, G!Name
<1>2. c \in 1..Len(cmds) /\ at \in Nat
  <2>1. c \in 1..Len(cmds)
    BY <1>1 DEF DialogType, G!ToSet
  <2>2. QED
    BY <2>1, CmdsAreTyped
<1>3. /\ goes => /\ cmds' = G!Goes(c, it) /\ it # at
                 /\ timers' = Append(G!WithoutTimer(i), c) /\ UNCHANGED password_input
      /\ ~goes => /\ timers' = G!WithoutTimer(i) /\ UNCHANGED cmds
                  /\ IF asks THEN password_input' = TRUE ELSE UNCHANGED password_input
  <2>1. CASE at = Len(G!AddItems) + 1
    <3>1. G!AddRestart # at
      BY <2>1, AddItemsAre DEF G!AddRestart
    <3>2. QED
      BY <2>1, <3>1 DEF G!doOutput, G!Item
  <2>2. CASE at # Len(G!AddItems) + 1 /\ at <= Len(G!AddItems) /\ G!AddItems[at] = "out"
    <3>1. at + 1 # at
      BY <1>2
    <3>2. QED
      BY <2>2, <3>1 DEF G!doOutput, G!Item
  <2>3. CASE at # Len(G!AddItems) + 1 /\ asks
    BY <2>3 DEF G!doOutput, G!Item
  <2>4. CASE ~goes /\ ~asks
    BY <2>4 DEF G!doOutput, G!Item
  <2>5. QED
    BY <2>1, <2>2, <2>3, <2>4
<1>4. it \in Nat /\ GoesOn(i, it)
  <2>1. it \in Nat
    BY <1>2 DEF G!AddRestart
  <2>2. QED
    BY <1>1, <1>3, <2>1 DEF GoesOn
<1>5. /\ c \in G!ToSet(timers)
      /\ G!ToSet(timers)' \subseteq G!ToSet(timers)
      /\ \A d : Once(timers, d) => Once(timers', d)
      /\ timers' = G!WithoutTimer(i) /\ Once(timers, c) => c \notin G!ToSet(timers)'
      /\ timers' = Append(G!WithoutTimer(i), c) => G!ToSet(timers)' = G!ToSet(timers)
      /\ G!ToSet(timers) \subseteq 1..Len(cmds)
  BY <1>1, <1>4, FiredTimer DEF GoesOn, DialogType
<1>6. /\ \A d \in 1..Len(cmds) : /\ cmds'[d].name = cmds[d].name
                                 /\ d # c => cmds'[d] = cmds[d]
      /\ cmds'[c].item = it
  BY <1>1, <1>4, GoesOnIs
<1>7. DialogType' /\ Silent'
  <2>1. password_input' \in BOOLEAN
    BY <1>3 DEF DialogType
  <2>2. QED
    BY <1>1, <1>4, <2>1, GoesOnSilent DEF DialogType
<1>8. ASSUME ~rushed, ~ended
      PROVE  Calm' /\ G!EchoFollowsQuestion'
  <2>1. /\ top = c /\ Once(timers, c) /\ top # 0
        /\ \A d \in G!ToSet(timers) : cmds[d].name # "gcc" => d = c
        /\ at \in 2..9
    BY <1>1, <1>2, <1>5, <1>8, AddItemsAre DEF Calm, Pending, G!Name, G!Item
  <2>2. ~password_input /\ ~raised
    BY <1>1, <1>5, <1>8, <2>1, AsksPasswordMeans DEF G!EchoFollowsQuestion
  <2>3. /\ goes <=> at \in {4, 7, 9}
        /\ asks <=> at \in {2, 3}
        /\ it = IF at = 9 THEN 4 ELSE IF at \in {4, 7} THEN at + 1 ELSE at
    <3> HIDE DEF at
    <3>1. at \in {2, 3, 4, 5, 6, 7, 8, 9}
      BY <2>1
    <3>2. QED
      BY <3>1, AddItemsAre DEF G!AddRestart
  <2>4. goes <=> c \in G!ToSet(timers)'
    BY <1>3, <1>5, <2>1
  <2> HIDE DEF c, at, goes, it, asks
  <2>5. \A d \in G!ToSet(timers)' : cmds'[d].name # "gcc" => Pending(d)'
    BY <1>1, <1>2, <1>5, <1>6, <2>1 DEF Pending, G!Name, G!Item
  <2>6. it \in 2..8 /\ it # 9
    BY <2>1, <2>3
  <2>7. cmds'[c].name = "adduser" /\ top' = c
    BY <1>1, <1>2, <1>6, <2>1
  <2>8. Calm'
    BY <1>6, <2>5, <2>6, <2>7, AddItemsAre DEF Calm, G!Name, G!Item
  <2>9. G!AsksPassword' <=> it \in {2, 3} /\ ~goes
    BY <1>6, <2>1, <2>4, <2>7 DEF G!AsksPassword, G!Name, G!Item
  <2>10. it \in {2, 3} /\ ~goes <=> asks
    BY <2>1, <2>3
  <2>11. password_input' <=> asks
    BY <1>3, <2>2, <2>3
  <2>12. QED
    BY <1>1, <2>2, <2>8, <2>9, <2>10, <2>11 DEF G!EchoFollowsQuestion
<1>9. QED
  BY <1>1, <1>7, <1>8 DEF Calm, G!EchoFollowsQuestion

LEMMA DialogInvTimer ==
    ASSUME DialogInv, NEW i \in 1..MaxTimers,
           \/ G!finishSsh(i) \/ G!sleptApt(i) \/ G!sleptYum(i) \/ G!again(i)
           \/ G!showreplyLast(i) \/ G!finishShutdown(i) \/ G!generate_file(i)
    PROVE  DialogInv'
<1> DEFINE c == timers[i]
<1>1. i \in DOMAIN timers /\ cmds[c].name \notin {"passwd", "adduser"}
  BY DEF G!finishSsh, G!sleptApt, G!sleptYum, G!again, G!showreplyLast, G!finishShutdown,
         G!generate_file, G!Fires, G!Name
<1>2. cmds[c].item \in Nat
  <2>1. c \in 1..Len(cmds)
    BY <1>1 DEF DialogInv, DialogType, G!ToSet
  <2>2. QED
    BY <2>1, CmdsAreTyped DEF DialogInv
<1>3. CASE G!finishSsh(i) \/ G!showreplyLast(i)
  BY <1>1, <1>3, DialogInvEnds DEF G!finishSsh, G!showreplyLast, G!Fires, G!Name
<1>4. CASE G!sleptApt(i)
  <2>1. cmds[c].name = "apt" /\ UNCHANGED <<password_input, ended, rushed>>
    BY <1>4 DEF G!sleptApt, G!Fires, G!Name
  <2>2. CASE cmds[c].item = G!AptSleeps
    BY <1>1, <1>4, <2>1, <2>2, DialogInvEnds DEF G!sleptApt, G!Item
  <2>3. CASE cmds[c].item # G!AptSleeps
    <3>1. GoesOn(i, cmds[c].item + 1) /\ cmds[c].item + 1 \in Nat
      BY <1>2, <1>4, <2>3 DEF G!sleptApt, GoesOn, G!Item
    <3>2. QED
      BY <1>1, <2>1, <3>1, DialogInvGoesOn
  <2>4. QED
    BY <2>2, <2>3
<1>5. CASE G!sleptYum(i)
  <2>1. cmds[c].name = "yum" /\ UNCHANGED <<password_input, ended, rushed>>
    BY <1>5 DEF G!sleptYum, G!Fires, G!Name
  <2>2. CASE cmds[c].item = G!YumAsks + 1 + G!YumSleeps
    <3>1. cmds[c].item # G!YumAsks
      BY <2>2 DEF G!YumAsks, G!YumSleeps
    <3>2. timers' = G!WithoutTimer(i) /\ G!exit(c) /\ UNCHANGED cmds
      BY <1>5, <2>2, <3>1 DEF G!sleptYum, G!Item
    <3>3. QED
      BY <1>1, <2>1, <3>2, DialogInvEnds
  <2>3. CASE cmds[c].item # G!YumAsks + 1 + G!YumSleeps
    <3>1. /\ GoesOn(i, cmds[c].item + 1) /\ cmds[c].item + 1 \in Nat
          /\ cmds[c].item = G!YumAsks => timers' = G!WithoutTimer(i)
      BY <1>2, <1>5, <2>3 DEF G!sleptYum, GoesOn, G!Item
    <3>2. cmds[c].item + 1 = G!YumAsks + 1 => timers' = G!WithoutTimer(i)
      BY <1>2, <3>1 DEF G!YumAsks
    <3>3. QED
      BY <1>1, <2>1, <3>1, <3>2, DialogInvGoesOn
  <2>4. QED
    BY <2>2, <2>3
<1>6. CASE G!again(i) \/ G!generate_file(i)
  <2>1. /\ GoesOn(i, cmds[c].item) /\ UNCHANGED <<password_input, ended>>
        /\ cmds[c].name \in {"ping", "yes", "gcc"}
    BY <1>6 DEF G!again, G!generate_file, G!Fires, G!Name, GoesOn
  <2>2. QED
    BY <1>1, <1>2, <2>1, DialogInvGoesOn
<1>7. CASE G!finishShutdown(i)
  <2>1. GoesOn(i, cmds[c].item) /\ UNCHANGED password_input /\ ended' = TRUE
    BY <1>7 DEF G!finishShutdown, GoesOn
  <2>2. DialogType' /\ Silent'
    <3>1. password_input' \in BOOLEAN /\ ended' \in BOOLEAN /\ (ended => ended')
      BY <2>1 DEF DialogInv, DialogType
    <3>2. QED
      BY <1>1, <1>2, <2>1, <3>1, GoesOnSilent
  <2>3. QED
    BY <2>1, <2>2 DEF DialogInv, Calm, G!EchoFollowsQuestion
<1>8. QED
  BY <1>3, <1>4, <1>5, <1>6, <1>7

-----------------------------------------------------------------------------
(* Lines and keys                                                          *)

\* The command on the stack ends without a timer of its own.
LEMMA DialogInvExit ==
    ASSUME DialogInv, top # 0, G!exit(top),
           ~rushed' /\ ~ended => top \notin G!ToSet(timers),
           cmds[top].name \in Endless => top \notin G!ToSet(timers),
           UNCHANGED <<cmds, timers, ended>>, password_input' \in BOOLEAN, rushed' \in BOOLEAN,
           ~rushed' /\ ~ended => ~rushed /\ ~password_input'
    PROVE  DialogInv'
<1> USE DEF DialogInv
<1>1. /\ top' = 0 /\ raised' = (raised \/ top # top)
      /\ UNCHANGED <<cmds, timers, ended>>
      /\ G!ToSet(timers)' = G!ToSet(timers)
  BY DEF G!exit, G!ToSet
<1>2. DialogType'
  <2>1. raised' \in BOOLEAN
    BY <1>1
  <2>2. top' \in 0..Len(cmds)
    BY <1>1 DEF DialogType
  <2>3. QED
    BY <1>1, <2>1, <2>2 DEF DialogType
<1>3. ASSUME NEW c \in G!ToSet(timers), cmds[c].name \in Endless
      PROVE  Once(timers, c) /\ ended
  BY <1>3 DEF Silent, G!Name
<1>4. Silent'
  BY <1>1, <1>3 DEF Silent, G!Name
<1>5. ASSUME ~rushed', ~ended
      PROVE  Calm' /\ G!EchoFollowsQuestion'
  <2>1. \A c \in G!ToSet(timers) : cmds[c].name = "gcc"
    BY <1>5 DEF Calm, Pending, G!Name
  <2>2. ~raised
    BY <1>5 DEF G!EchoFollowsQuestion
  <2>3. ~raised'
    BY <1>1, <2>2
  <2>4. QED
    BY <1>1, <1>5, <2>1, <2>3 DEF Calm, G!EchoFollowsQuestion, G!AsksPassword, G!Name
<1>6. QED
  BY <1>1, <1>2, <1>4, <1>5 DEF Calm, G!EchoFollowsQuestion

LEMMA DialogInvPasswd ==
    ASSUME DialogInv, G!linePasswd
    PROVE  DialogInv'
<1> USE DEF DialogInv
<1>1. /\ ~ended /\ top # 0 /\ cmds[top].name = "passwd" /\ top \in 1..Len(cmds)
      /\ UNCHANGED <<timers, ended, rushed>>
      /\ G!ToSet(timers)' = G!ToSet(timers) /\ G!ToSet(timers) \subseteq 1..Len(cmds)
  BY DEF G!linePasswd, G!Name, G!ToSet, DialogType
<1>2. CASE cmds[top].item = 1
  <2>1. cmds' = G!Goes(top, 2) /\ UNCHANGED <<top, raised, password_input>>
    BY <1>2 DEF G!linePasswd, G!Item
  <2>2. /\ cmds' \in Seq([name : Names, item : Nat, lines : Nat])
        /\ Len(cmds') = Len(cmds)
        /\ \A d \in 1..Len(cmds) : /\ cmds'[d].name = cmds[d].name
                                   /\ d # top => cmds'[d] = cmds[d]
    <3>1. /\ G!Goes(top, 2) =
                [cmds EXCEPT ![top] = [name |-> cmds[top].name, item |-> 2, lines |-> cmds[top].lines]]
          /\ cmds[top].lines \in Nat
      BY <1>1, GoesIs
    <3>2. QED
      BY <1>1, <2>1, <3>1, CmdGoes
  <2>3. DialogType'
    BY <1>1, <2>1, <2>2 DEF DialogType
  <2>4. Silent'
    BY <1>1, <2>1, <2>2 DEF Silent, G!Name
  <2>5. ASSUME ~rushed
        PROVE  Calm' /\ G!EchoFollowsQuestion'
    <3>1. \A d \in G!ToSet(timers) : cmds[d].name # "gcc" => FALSE
      BY <1>1, <2>5 DEF Calm, Pending, G!Name
    <3>2. Calm'
      BY <1>1, <2>1, <2>2, <3>1 DEF Calm, G!Name
    <3>3. password_input /\ ~raised
      BY <1>1, <2>5, AsksPasswordMeans DEF G!EchoFollowsQuestion
    <3>4. G!AsksPassword'
      BY <1>1, <2>1, <2>2 DEF G!AsksPassword, G!Name
    <3>5. QED
      BY <2>1, <3>2, <3>3, <3>4 DEF G!EchoFollowsQuestion
  <2>6. QED
    BY <1>1, <2>3, <2>4, <2>5 DEF Calm, G!EchoFollowsQuestion
<1>3. CASE cmds[top].item # 1
  <2>1. password_input' = FALSE /\ G!exit(top) /\ UNCHANGED cmds
    BY <1>3 DEF G!linePasswd, G!Item
  <2>2. ~rushed /\ ~ended => top \notin G!ToSet(timers)
    BY <1>1 DEF Calm, Pending, G!Name
  <2>3. cmds[top].name \notin Endless
    BY <1>1 DEF Endless
  <2>4. rushed' \in BOOLEAN
    BY <1>1 DEF DialogType
  <2>5. QED
    BY <1>1, <2>1, <2>2, <2>3, <2>4, DialogInvExit
<1>4. QED
  BY <1>2, <1>3

\* A command that takes a line: it goes to another item, and sets a timer.
TakesLine(it) ==
    /\ \E n \in Nat :
          cmds' = [cmds EXCEPT ![top] = [name |-> cmds[top].name, item |-> it, lines |-> n]]
    /\ timers' = timers \/ timers' = Append(timers, top)
    /\ UNCHANGED <<top, ended, raised>>
    /\ rushed => rushed'

LEMMA TakesLineIs ==
    ASSUME DialogInv, top # 0, NEW it \in Nat, TakesLine(it),
           cmds[top].name \notin Endless \cup {"gcc"},
           password_input' \in BOOLEAN, rushed' \in BOOLEAN
    PROVE  /\ DialogType' /\ Silent' /\ top \in 1..Len(cmds) /\ top \in Nat
           /\ cmds'[top].name = cmds[top].name /\ cmds'[top].item = it
           /\ timers' = timers => G!ToSet(timers)' = G!ToSet(timers)
           /\ timers' # timers => top \in G!ToSet(timers)'
           /\ ~rushed' /\ ~ended /\ (timers' = timers \/ top \notin G!ToSet(timers)) =>
                 \A d \in G!ToSet(timers)' : cmds'[d].name # "gcc" => d = top /\ Once(timers', d)
<1> USE DEF DialogInv
<1>1. /\ top \in 1..Len(cmds) /\ top \in Nat /\ timers \in Seq(Nat)
      /\ G!ToSet(timers) \subseteq 1..Len(cmds)
  BY DEF DialogType
<1>2. /\ cmds' \in Seq([name : Names, item : Nat, lines : Nat])
      /\ Len(cmds') = Len(cmds)
      /\ \A d \in 1..Len(cmds) : cmds'[d].name = cmds[d].name
      /\ cmds'[top].item = it
  BY <1>1, CmdGoes DEF TakesLine
<1>3. /\ Append(timers, top) \in Seq(Nat)
      /\ G!ToSet(Append(timers, top)) = G!ToSet(timers) \cup {top}
      /\ top \notin G!ToSet(timers) => Once(Append(timers, top), top)
      /\ \A d : d # top /\ Once(timers, d) => Once(Append(timers, top), d)
  BY <1>1, SetTimer
<1>4. /\ timers' \in Seq(Nat)
      /\ timers' = timers => G!ToSet(timers)' = G!ToSet(timers)
      /\ timers' # timers => timers' = Append(timers, top)
                             /\ G!ToSet(timers)' = G!ToSet(timers) \cup {top}
  <2>1. G!ToSet(timers)' = G!ToSet(timers')
    BY DEF G!ToSet
  <2>2. timers' = timers \/ timers' = Append(timers, top)
    BY DEF TakesLine
  <2>3. QED
    BY <1>1, <1>3, <2>1, <2>2
<1>5. UNCHANGED <<top, ended, raised>> /\ (rushed => rushed')
  BY DEF TakesLine
<1>6. DialogType'
  <2>1. G!ToSet(timers)' \subseteq 1..Len(cmds)
    BY <1>1, <1>4
  <2>2. QED
    BY <1>1, <1>2, <1>4, <1>5, <2>1 DEF DialogType
<1>7. ASSUME NEW d \in G!ToSet(timers)', cmds'[d].name \in Endless
      PROVE  Once(timers', d) /\ (top = d \/ ended)
  <2>1. d # top /\ d \in G!ToSet(timers) /\ cmds[d].name \in Endless
    BY <1>1, <1>2, <1>4, <1>7
  <2>2. Once(timers, d) /\ (top = d \/ ended)
    BY <2>1 DEF Silent, G!Name
  <2>3. Once(timers', d)
    BY <1>3, <1>4, <2>1, <2>2
  <2>4. QED
    BY <2>2, <2>3
<1>8. Silent'
  BY <1>5, <1>7 DEF Silent, G!Name
<1>9. ASSUME ~rushed', ~ended, timers' = timers \/ top \notin G!ToSet(timers),
             NEW d \in G!ToSet(timers)', cmds'[d].name # "gcc"
      PROVE  d = top /\ Once(timers', d)
  <2>1. d \in G!ToSet(timers) => d = top /\ Once(timers, d)
    BY <1>1, <1>2, <1>5, <1>9 DEF Calm, Pending, G!Name
  <2>2. QED
    BY <1>3, <1>4, <1>9, <2>1
<1>10. QED
  BY <1>1, <1>2, <1>4, <1>6, <1>8, <1>9

LEMMA DialogInvSsh ==
    ASSUME DialogInv, G!lineSsh
    PROVE  DialogInv'
<1> USE DEF DialogInv
<1>1. /\ ~ended /\ top # 0 /\ cmds[top].name = "ssh"
      /\ UNCHANGED <<top, ended, raised, rushed>>
      /\ top \in 1..Len(cmds) /\ password_input \in BOOLEAN /\ rushed \in BOOLEAN
  BY DEF G!lineSsh, G!Name, DialogType
<1>2. cmds[top].item \in Nat
  BY <1>1, CmdsAreTyped
<1>3. CASE cmds[top].item \notin {1, 2}
  <2>1. UNCHANGED <<cmds, timers, password_input>>
    BY <1>3 DEF G!lineSsh, G!Item
  <2>2. DialogType' /\ Silent'
    BY <1>1, <2>1 DEF DialogType, Silent, G!ToSet, G!Name, Once
  <2>3. Calm' /\ G!EchoFollowsQuestion'
    BY <1>1, <2>1 DEF Calm, Pending, G!ToSet, G!Name, G!Item, Once, G!EchoFollowsQuestion, G!AsksPassword
  <2>4. QED
    BY <2>2, <2>3
<1>4. ASSUME NEW k \in {1, 2}, cmds[top].item = k
      PROVE  DialogInv'
  <2>1. /\ cmds' = G!Goes(top, k + 1)
        /\ k = 1 => password_input' = TRUE /\ timers' = timers
        /\ k = 2 => UNCHANGED password_input /\ timers' = Append(timers, top)
    BY <1>4 DEF G!lineSsh, G!Item
  <2>2. k + 1 \in Nat /\ TakesLine(k + 1) /\ password_input' \in BOOLEAN
    <3>1. /\ G!Goes(top, k + 1) = [cmds EXCEPT ![top] =
                [name |-> cmds[top].name, item |-> k + 1, lines |-> cmds[top].lines]]
          /\ cmds[top].lines \in Nat
      BY <1>1, GoesIs
    <3>2. \E n \in Nat : cmds' =
            [cmds EXCEPT ![top] = [name |-> cmds[top].name, item |-> k + 1, lines |-> n]]
      BY <2>1, <3>1
    <3>3. timers' = timers \/ timers' = Append(timers, top)
      BY <2>1
    <3>4. password_input' \in BOOLEAN
      BY <1>1, <2>1
    <3>5. UNCHANGED <<top, ended, raised>> /\ (rushed => rushed')
      BY <1>1
    <3>6. TakesLine(k + 1)
      BY <3>2, <3>3, <3>5 DEF TakesLine
    <3>7. k + 1 \in Nat
      BY <1>4
    <3>8. QED
      BY <3>4, <3>6, <3>7
  <2>3. /\ DialogType' /\ Silent' /\ top \in Nat
        /\ cmds'[top].name = "ssh" /\ cmds'[top].item = k + 1
        /\ timers' = timers => G!ToSet(timers)' = G!ToSet(timers)
        /\ ~rushed /\ (timers' = timers \/ top \notin G!ToSet(timers)) =>
              \A d \in G!ToSet(timers)' : cmds'[d].name # "gcc" => d = top /\ Once(timers', d)
    BY <1>1, <2>2, TakesLineIs DEF Endless
  <2>4. ASSUME ~rushed
        PROVE  Calm' /\ G!EchoFollowsQuestion'
    <3>1. top \notin G!ToSet(timers)
      BY <1>1, <1>4, <2>4 DEF Calm, Pending, G!Name, G!Item
    <3>2. ASSUME NEW d \in G!ToSet(timers)', cmds'[d].name # "gcc"
          PROVE  Pending(d)'
      <4>1. d = top /\ Once(timers', d)
        BY <2>3, <2>4, <3>1, <3>2
      <4>2. k = 2
        BY <2>1, <2>3, <3>1, <4>1
      <4>3. QED
        BY <1>1, <2>3, <4>1, <4>2 DEF Pending, G!Name, G!Item
    <3>3. Calm'
      BY <1>1, <2>3, <3>2 DEF Calm, G!Name
    <3>4. ~raised /\ (k = 2 => password_input)
      BY <1>1, <1>4, <2>4, AsksPasswordMeans DEF G!EchoFollowsQuestion
    <3>5. password_input'
      BY <2>1, <3>4
    <3>6. G!AsksPassword'
      BY <1>1, <2>3 DEF G!AsksPassword, G!Name, G!Item
    <3>7. QED
      BY <1>1, <3>3, <3>4, <3>5, <3>6 DEF G!EchoFollowsQuestion
  <2>5. QED
    BY <1>1, <2>3, <2>4 DEF Calm, G!EchoFollowsQuestion
<1>5. QED
  BY <1>3, <1>4

LEMMA TakenIs ==
    ASSUME DialogType, NEW c \in 1..Len(cmds), NEW it
    PROVE  \E n \in Nat : [G!Taken(c) EXCEPT ![c].item = it] =
              [cmds EXCEPT ![c] = [name |-> cmds[c].name, item |-> it, lines |-> n]]
<1> DEFINE Rec == [name : Names, item : Nat, lines : Nat]
<1>1. cmds[c] \in Rec
  <2>1. cmds \in Seq(Rec)
    BY DEF DialogType
  <2> HIDE DEF Rec
  <2>2. QED
    BY <2>1
<1>2. cmds[c].lines + 1 \in Nat
  <2>1. \A r \in Rec : r.lines \in Nat
    OBVIOUS
  <2> HIDE DEF Rec
  <2>2. cmds[c].lines \in Nat
    BY <1>1, <2>1
  <2>3. QED
    BY <2>2
<1>3. [[cmds[c] EXCEPT !.lines = @ + 1] EXCEPT !.item = it] =
        [name |-> cmds[c].name, item |-> it, lines |-> cmds[c].lines + 1]
  <2>1. ASSUME NEW r \in Rec
        PROVE  [[r EXCEPT !.lines = @ + 1] EXCEPT !.item = it] =
                  [name |-> r.name, item |-> it, lines |-> r.lines + 1]
    <3>1. PICK a \in Names, b \in Nat, n \in Nat : r = [name |-> a, item |-> b, lines |-> n]
      OBVIOUS
    <3>2. [r EXCEPT !.lines = @ + 1] = [name |-> a, item |-> b, lines |-> n + 1]
      BY <3>1
    <3>3. r.name = a /\ r.lines = n
      BY <3>1
    <3>4. [[name |-> a, item |-> b, lines |-> n + 1] EXCEPT !.item = it] =
            [name |-> a, item |-> it, lines |-> n + 1]
      OBVIOUS
    <3>5. QED
      BY <3>2, <3>3, <3>4
  <2> HIDE DEF Rec
  <2>2. QED
    BY <1>1, <2>1
<1>4. [G!Taken(c) EXCEPT ![c].item = it] =
        [cmds EXCEPT ![c] = [[cmds[c] EXCEPT !.lines = @ + 1] EXCEPT !.item = it]]
  BY DEF G!Taken, DialogType
<1>5. QED
  BY <1>2, <1>3, <1>4

LEMMA DialogInvYum ==
    ASSUME DialogInv, G!lineYum
    PROVE  DialogInv'
<1> USE DEF DialogInv
<1>1. /\ ~ended /\ top # 0 /\ cmds[top].name = "yum"
      /\ rushed' = (rushed \/ cmds[top].item # G!YumAsks + 1)
      /\ cmds' = [G!Taken(top) EXCEPT ![top].item = G!YumAsks + 2]
      /\ timers' = Append(timers, top)
      /\ UNCHANGED <<top, password_input, ended, raised>>
      /\ top \in 1..Len(cmds) /\ password_input \in BOOLEAN /\ rushed \in BOOLEAN
  BY DEF G!lineYum, G!Name, G!Item, DialogType
<1>2. rushed' \in BOOLEAN
  BY <1>1
<1>3. G!YumAsks + 2 \in Nat /\ TakesLine(G!YumAsks + 2)
  <2>1. \E n \in Nat : cmds' =
          [cmds EXCEPT ![top] = [name |-> cmds[top].name, item |-> G!YumAsks + 2, lines |-> n]]
    BY <1>1, TakenIs
  <2>2. timers' = timers \/ timers' = Append(timers, top)
    BY <1>1
  <2>3. UNCHANGED <<top, ended, raised>> /\ (rushed => rushed')
    BY <1>1
  <2>4. TakesLine(G!YumAsks + 2)
    BY <2>1, <2>2, <2>3 DEF TakesLine
  <2>5. QED
    BY <2>4 DEF G!YumAsks
<1>4. /\ DialogType' /\ Silent' /\ top \in Nat
      /\ cmds'[top].name = "yum" /\ cmds'[top].item = G!YumAsks + 2
      /\ ~rushed' /\ ~ended /\ top \notin G!ToSet(timers) =>
            \A d \in G!ToSet(timers)' : cmds'[d].name # "gcc" => d = top /\ Once(timers', d)
  BY <1>1, <1>2, <1>3, TakesLineIs DEF Endless
<1>5. ASSUME ~rushed'
      PROVE  Calm' /\ G!EchoFollowsQuestion'
  <2>1. ~rushed /\ cmds[top].item = G!YumAsks + 1
    BY <1>1, <1>5
  <2>2. top \notin G!ToSet(timers)
    BY <1>1, <2>1 DEF Calm, Pending, G!Name, G!Item
  <2>3. ASSUME NEW d \in G!ToSet(timers)', cmds'[d].name # "gcc"
        PROVE  Pending(d)'
    <3>1. d = top /\ Once(timers', d)
      BY <1>1, <1>4, <1>5, <2>2, <2>3
    <3>2. QED
      BY <1>1, <1>4, <3>1 DEF Pending, G!Name, G!Item, G!YumAsks
  <2>4. Calm'
    BY <1>1, <1>4, <2>3 DEF Calm, G!Name
  <2>5. ~password_input /\ ~raised
    BY <1>1, <2>1, AsksPasswordMeans DEF G!EchoFollowsQuestion
  <2>6. ~G!AsksPassword'
    BY <1>1, <1>4 DEF G!AsksPassword, G!Name
  <2>7. QED
    BY <1>1, <2>4, <2>5, <2>6 DEF G!EchoFollowsQuestion
<1>6. QED
  BY <1>1, <1>4, <1>5 DEF Calm, G!EchoFollowsQuestion

LEMMA DialogInvAdduser ==
    ASSUME DialogInv, NEW line \in {"text", "empty", "yes", "no"}, G!lineAdduser(line)
    PROVE  DialogInv'
<1> DEFINE i == cmds[top].item
           sort == IF i <= Len(G!AddItems) THEN G!AddItems[i] ELSE "none"
           question == sort \in {"ask", "correct", "again"}
           it == IF sort = "correct" /\ line # "yes" THEN G!AddRestart
                 ELSE IF line = "empty" /\ question THEN i ELSE i + 1
<1> USE DEF DialogInv
<1>1. /\ ~ended /\ top # 0 /\ cmds[top].name = "adduser"
      /\ rushed' = (rushed \/ top \in G!ToSet(timers))
      /\ UNCHANGED ended
      /\ top \in 1..Len(cmds) /\ rushed' \in BOOLEAN
  BY DEF G!lineAdduser, G!Name, DialogType
<1>2. i \in Nat
  BY <1>1, CmdsAreTyped
<1>3. CASE i = Len(G!AddItems) /\ line = "no"
  <2>1. G!exit(top) /\ UNCHANGED <<cmds, timers, password_input>>
    BY <1>3 DEF G!lineAdduser, G!Item
  <2>2. password_input' \in BOOLEAN
    BY <2>1 DEF DialogType
  <2>3. ~rushed' => top \notin G!ToSet(timers) /\ ~rushed
    BY <1>1
  <2>4. ~rushed => ~password_input
    <3>1. i \notin {2, 3}
      BY <1>3, AddItemsAre
    <3>2. ~G!AsksPassword
      BY <1>1, <3>1, AsksPasswordMeans
    <3>3. QED
      BY <1>1, <3>2 DEF G!EchoFollowsQuestion
  <2>5. cmds[top].name \notin Endless
    BY <1>1 DEF Endless
  <2>6. QED
    BY <1>1, <2>1, <2>2, <2>3, <2>4, <2>5, DialogInvExit
<1>4. CASE ~(i = Len(G!AddItems) /\ line = "no")
  <2>1. /\ cmds' = [G!Taken(top) EXCEPT ![top].item = it]
        /\ timers' = Append(timers, top)
        /\ password_input' = FALSE
        /\ UNCHANGED <<top, raised>>
    BY <1>4 DEF G!lineAdduser, G!Item
  <2>2. it \in Nat
    BY <1>2 DEF G!AddRestart
  <2>3. TakesLine(it)
    <3>1. \E n \in Nat : cmds' =
            [cmds EXCEPT ![top] = [name |-> cmds[top].name, item |-> it, lines |-> n]]
      <4> HIDE DEF it
      <4>1. QED
        BY <1>1, <2>1, TakenIs
    <3>2. timers' = timers \/ timers' = Append(timers, top)
      BY <2>1
    <3>3. UNCHANGED <<top, ended, raised>> /\ (rushed => rushed')
      BY <1>1, <2>1
    <3> HIDE DEF it
    <3>4. QED
      BY <3>1, <3>2, <3>3 DEF TakesLine
  <2>4. password_input' \in BOOLEAN
    BY <2>1
  <2>5. cmds[top].name \notin Endless \cup {"gcc"}
    BY <1>1 DEF Endless
  <2>6. timers' # timers
    BY <2>1 DEF DialogType
  <2> HIDE DEF it, i, sort, question
  <2>7. /\ DialogType' /\ Silent' /\ top \in Nat
        /\ cmds'[top].name = "adduser" /\ cmds'[top].item = it
        /\ top \in G!ToSet(timers)'
        /\ ~rushed' /\ ~ended /\ top \notin G!ToSet(timers) =>
              \A d \in G!ToSet(timers)' : cmds'[d].name # "gcc" => d = top /\ Once(timers', d)
    BY <1>1, <2>2, <2>3, <2>4, <2>5, <2>6, TakesLineIs
  <2>8. ASSUME ~rushed'
        PROVE  Calm' /\ G!EchoFollowsQuestion'
    <3>1. ~rushed /\ top \notin G!ToSet(timers)
      BY <1>1, <2>8
    <3>2. i \in 2..8
      <4>1. i \in 2..9 /\ i # 9
        BY <1>1, <3>1, AddItemsAre DEF Calm, G!Name, G!Item, i
      <4>2. QED
        BY <4>1
    <3>3. it \in 2..9
      BY <3>2 DEF it, G!AddRestart
    <3>4. ASSUME NEW d \in G!ToSet(timers)', cmds'[d].name # "gcc"
          PROVE  Pending(d)'
      <4>1. d = top /\ Once(timers', d)
        BY <1>1, <2>7, <2>8, <3>1, <3>4
      <4>2. QED
        BY <2>1, <2>7, <4>1 DEF Pending, G!Name, G!Item
    <3>5. Calm'
      BY <2>1, <2>7, <3>3, <3>4, AddItemsAre DEF Calm, G!Name, G!Item
    <3>6. ~raised
      BY <1>1, <3>1 DEF G!EchoFollowsQuestion
    <3>7. ~G!AsksPassword'
      BY <2>1, <2>7 DEF G!AsksPassword, G!Name
    <3>8. QED
      BY <2>1, <3>5, <3>6, <3>7 DEF G!EchoFollowsQuestion
  <2>9. QED
    BY <1>1, <2>7, <2>8 DEF Calm, G!EchoFollowsQuestion
<1>5. QED
  BY <1>3, <1>4

LEMMA DialogInvCtrlC ==
    ASSUME DialogInv, G!handle_CTRL_C
    PROVE  DialogInv'
<1> USE DEF DialogInv
<1>1. /\ ~ended /\ top \in 1..Len(cmds) /\ rushed' = TRUE
      /\ top' = 0 /\ raised' \in BOOLEAN
      /\ UNCHANGED <<cmds, password_input, ended>>
      /\ timers \in Seq(Nat) /\ G!ToSet(timers) \subseteq 1..Len(cmds)
  BY DEF G!handle_CTRL_C, G!exit, DialogType
<1>2. timers' = G!Stopped(top)
  BY DEF G!handle_CTRL_C
<1>3. /\ timers' \in Seq(Nat) /\ G!ToSet(timers)' \subseteq G!ToSet(timers)
      /\ \A c : Once(timers, c) => Once(timers', c)
      /\ cmds[top].name \in Endless => top \notin G!ToSet(timers)'
  <2>1. G!ToSet(timers)' = G!ToSet(timers')
    BY DEF G!ToSet
  <2>2. CASE cmds[top].name \in Endless /\ top \in G!ToSet(timers)
    <3> DEFINE k == CHOOSE i \in DOMAIN timers : timers[i] = top
    <3>1. k \in DOMAIN timers /\ timers[k] = top
      <4>1. \E i \in DOMAIN timers : timers[i] = top
        BY <2>2 DEF G!ToSet
      <4>2. QED
        BY <4>1
    <3>2. timers' = G!RemoveAt(timers, k)
      BY <1>2, <2>2 DEF G!Stopped, G!WithoutTimer, G!Name, Endless
    <3>3. Once(timers, top)
      BY <2>2 DEF Silent, G!Name
    <3> HIDE DEF k
    <3>4. QED
      BY <1>1, <2>1, <3>1, <3>2, <3>3, DropTimer
  <2>3. CASE ~(cmds[top].name \in Endless /\ top \in G!ToSet(timers))
    <3>1. timers' = timers
      BY <1>2, <2>3 DEF G!Stopped, G!Name, Endless
    <3>2. QED
      BY <1>1, <2>1, <2>3, <3>1
  <2>4. QED
    BY <2>2, <2>3
<1>4. DialogType'
  <2>1. G!ToSet(timers)' \subseteq 1..Len(cmds)
    BY <1>1, <1>3
  <2>2. top' \in 0..Len(cmds)
    BY <1>1
  <2>3. QED
    BY <1>1, <1>3, <2>1, <2>2 DEF DialogType
<1>5. ASSUME NEW c \in G!ToSet(timers)', cmds[c].name \in Endless
      PROVE  FALSE
  <2>1. c \in G!ToSet(timers) /\ c # top
    BY <1>3, <1>5
  <2>2. QED
    BY <1>1, <1>5, <2>1 DEF Silent, G!Name
<1>6. Silent'
  BY <1>1, <1>5 DEF Silent, G!Name
<1>7. QED
  BY <1>1, <1>4, <1>6 DEF Calm, G!EchoFollowsQuestion

LEMMA DialogInvCtrlD ==
    ASSUME DialogInv, G!handle_CTRL_D
    PROVE  DialogInv'
<1>1. /\ ~ended /\ top # 0 /\ cmds[top].name = "scp" /\ G!exit(top)
      /\ UNCHANGED <<cmds, timers, password_input, ended, rushed>>
      /\ top \in 1..Len(cmds)
  BY DEF G!handle_CTRL_D, G!Name, DialogInv, DialogType
<1>2. ~rushed /\ ~ended => top \notin G!ToSet(timers)
  BY <1>1 DEF DialogInv, Calm, Pending, G!Name
<1>3. cmds[top].name \notin Endless
  BY <1>1 DEF Endless
<1>4. ~rushed => ~password_input
  <2>1. ~G!AsksPassword
    BY <1>1, AsksPasswordMeans
  <2>2. QED
    BY <1>1, <2>1 DEF DialogInv, G!EchoFollowsQuestion
<1>5. password_input' \in BOOLEAN /\ rushed' \in BOOLEAN
  BY <1>1 DEF DialogInv, DialogType
<1>6. QED
  BY <1>1, <1>2, <1>3, <1>4, <1>5, DialogInvExit

LEMMA DialogInvStep ==
    ASSUME DialogInv, G!DialogNext
    PROVE  DialogInv'
<1>1. CASE \/ G!StartPasswd \/ G!StartAdduser \/ G!StartSsh \/ G!StartGcc \/ G!StartScp
           \/ G!StartApt \/ G!StartYum \/ G!StartPing \/ G!StartYes
           \/ G!StartShutdown \/ G!StartReboot
  <2>1. PICK nm \in Names : StartsAs(nm, IF nm = "adduser" THEN 2 ELSE 1)
    BY <1>1, StartsAreStarts DEF DialogInv
  <2>2. (IF nm = "adduser" THEN 2 ELSE 1) \in Nat
    OBVIOUS
  <2>3. QED
    BY <2>1, <2>2, DialogInvStart
<1>2. CASE G!linePasswd
  BY <1>2, DialogInvPasswd
<1>3. CASE G!lineSsh
  BY <1>3, DialogInvSsh
<1>4. CASE G!lineYum
  BY <1>4, DialogInvYum
<1>5. ASSUME NEW line \in {"text", "empty", "yes", "no"}, G!lineAdduser(line)
      PROVE  DialogInv'
  BY <1>5, DialogInvAdduser
<1>6. ASSUME NEW i \in 1..MaxTimers, G!doOutput(i)
      PROVE  DialogInv'
  BY <1>6, DialogInvOutput
<1>7. ASSUME NEW i \in 1..MaxTimers,
             \/ G!finishSsh(i) \/ G!sleptApt(i) \/ G!sleptYum(i) \/ G!again(i)
             \/ G!showreplyLast(i) \/ G!finishShutdown(i) \/ G!generate_file(i)
      PROVE  DialogInv'
  BY <1>7, DialogInvTimer
<1>8. CASE G!handle_CTRL_C
  BY <1>8, DialogInvCtrlC
<1>9. CASE G!handle_CTRL_D
  BY <1>9, DialogInvCtrlD
<1>10. QED
  BY <1>1, <1>2, <1>3, <1>4, <1>5, <1>6, <1>7, <1>8, <1>9 DEF G!DialogNext

LEMMA DialogInvStays ==
    ASSUME DialogInv, UNCHANGED dialogVars
    PROVE  DialogInv'
<1>1. UNCHANGED <<cmds, top, timers, password_input, ended, raised, rushed>>
  BY DEF dialogVars
<1>2. DialogType' /\ Silent'
  BY <1>1 DEF DialogInv, DialogType, Silent, Once, G!ToSet, G!Name
<1>3. Calm'
  BY <1>1 DEF DialogInv, Calm, Pending, Once, G!ToSet, G!Name, G!Item
<1>4. G!EchoFollowsQuestion'
  BY <1>1 DEF DialogInv, G!EchoFollowsQuestion, G!AsksPassword, G!ToSet, G!Name, G!Item
<1>5. QED
  BY <1>2, <1>3, <1>4 DEF DialogInv

\* For any commands, in any number, with any number of timers pending: as long
\* as the user waits for the questions, what is typed is hidden exactly while a
\* password is asked for and no command ends twice; and a ping or yes that was
\* stopped writes nothing more.
THEOREM DialogsStayEnded == CommandsSpec => []DialogsEnd
<1> DEFINE Inv == part = "dialogs" => DialogInv
<1>1. CommandsInit => Inv
  BY DialogInvInit DEF CommandsInit, MCInit
<1>2. Inv /\ [CommandsNext]_commandsVars => Inv'
  <2> SUFFICES ASSUME Inv, [CommandsNext]_commandsVars, part' = "dialogs"
               PROVE  DialogInv'
    OBVIOUS
  <2>1. part = "dialogs"
    BY DEF CommandsNext, MCNext, commandsVars
  <2>2. G!DialogNext \/ UNCHANGED dialogVars
    BY <2>1 DEF CommandsNext, MCNext, commandsVars
  <2>3. QED
    BY <2>1, <2>2, DialogInvStep, DialogInvStays
<1>3. Inv => DialogsEnd
  BY DEF DialogsEnd, DialogInv, Silent, Endless, G!StoppedIsSilent
<1>4. QED
  BY <1>1, <1>2, <1>3, PTL DEF CommandsSpec, commandsVars
=============================================================================
